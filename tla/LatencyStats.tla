---------------------------- MODULE LatencyStats ----------------------------
(***************************************************************************)
(* The arithmetic of a measurement: __get_tsc() of vmm/asm-inlines.h, the  *)
(* quotient measure_vmlatency() of vmm/vmx.c stores in stats[n], and what  *)
(* "%lld" prints of it.  Integers have the width of the code's types; the  *)
(* time itself is unbounded.                                               *)
(***************************************************************************)
EXTENDS Integers

CONSTANT U32    \* The number of values of a u32: 2^32.
ASSUME U32Assumption == U32 \in Nat \ {0, 1}

\* The number of values of a u64.
U64 == U32 * U32

\* VM entries of round n.
__BIT(n) == 2^n

\* RDTSC leaves the two halves of the time-stamp counter in EDX and EAX.
rdtsc(t) == [edx |-> (t \div U32) % U32, eax |-> t % U32]

\* A mutant of __get_tsc that drops the upper half.
MutLowHalf(t) == rdtsc(t).eax

__get_tsc(t) == rdtsc(t).edx * U32 + rdtsc(t).eax

\* stats[n] when the loop of k entries begins at time t and takes e cycles.
stat(k, t, e) == ((__get_tsc(t + e) - __get_tsc(t)) % U64) \div k

\* "%lld" reads the u64 as a signed number.
lld(v) == IF 2 * v >= U64 THEN v - U64 ELSE v

=============================================================================
