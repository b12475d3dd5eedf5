--------------------------- MODULE VmxPrimitives ---------------------------
(***************************************************************************)
(* The constant-level part of vmm/asm-inlines.h and vmm/cpu-defs.h: how    *)
(* the wrappers around the VMX instructions turn RFLAGS into return        *)
(* values, and the bit masks the driver applies.  A bit field is the set   *)
(* of the positions of its 1 bits, so & is \cap, | is \cup, and a C        *)
(* integer constant keeps its real width.                                  *)
(***************************************************************************)
EXTENDS Integers

\* The three builds; "win" is the one with WIN32 defined.
Platforms == {"linux", "mac", "win"}

\* RFLAGS_CF, RFLAGS_ZF: what a failing VMX instruction sets.
CF == "CF"
ZF == "ZF"

\* __BIT(n)
BIT(n) == 2^n

\* 0x8fffffff, the mask get_vmcs_revision_identifier() applies.
RevisionIdMask == (0..27) \cup {31}

\* get_vmcs_revision_identifier() for a processor whose IA32_VMX_BASIC holds
\* the revision identifier rev (bits 30:0 of the MSR; bit 31 reads 0).
get_vmcs_revision_identifier(rev) == rev \cap RevisionIdMask

\* A mutant that takes any failure but CF alone for success.
MutVmxonOnlyCF(platform, flags) == IF flags = {CF} THEN -1 ELSE 0

\* Value of __vmxon() when the instruction leaves CF/ZF = flags.  The Windows
\* intrinsic returns non-zero for every failure; the inline assembly of the
\* other builds only recognises CF alone and CF together with ZF.
__vmxon(platform, flags) ==
  IF platform = "win"
  THEN IF flags = {} THEN 0 ELSE -1
  ELSE IF flags = {CF} THEN -1
       ELSE IF flags = {CF, ZF} THEN 1
       ELSE 0

\* Value of __vmptrld(): any failure flag is -1.
__vmptrld(flags) == IF flags = {} THEN 0 ELSE -1

=============================================================================
