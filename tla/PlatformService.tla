-------------------------- MODULE PlatformService --------------------------
(***************************************************************************)
(* What vmm/vmx.c relies on when it calls the platform API of vmm/api.h:   *)
(* a call either happens in one step or has no effect.                     *)
(*                                                                         *)
(*  - allocate_vmpage() attaches a page frame that no other page has, or   *)
(*    attaches nothing; free_vmpage() detaches it;                         *)
(*  - between vmlatency_preempt_disable() and vmlatency_preempt_enable()   *)
(*    the thread stays on its processor and no other code runs there.      *)
(***************************************************************************)
CONSTANTS Slots,    \* The vmpage_t objects of the caller.
          Frames,   \* Page frames.
          Cpus,     \* Logical processors.
          None

VARIABLES pages,    \* Frame attached to each slot.
          kept,     \* Processor the thread keeps for itself, or None.
          cpu       \* Processor the thread runs on.

vars == <<pages, kept, cpu>>

Init == pages = [s \in Slots |-> None] /\ kept = None /\ cpu \in Cpus

Allocate(s, f) ==
  /\ pages[s] = None
  /\ \A t \in Slots : pages[t] # f
  /\ pages' = [pages EXCEPT ![s] = f]
  /\ UNCHANGED <<kept, cpu>>

Free(s) ==
  /\ pages[s] # None
  /\ pages' = [pages EXCEPT ![s] = None]
  /\ UNCHANGED <<kept, cpu>>

Mask == kept = None /\ kept' = cpu /\ UNCHANGED <<pages, cpu>>

Unmask == kept # None /\ kept' = None /\ UNCHANGED <<pages, cpu>>

Migrate(c) == kept = None /\ cpu' = c /\ UNCHANGED <<pages, kept>>

Next == \/ \E s \in Slots, f \in Frames : Allocate(s, f)
        \/ \E s \in Slots : Free(s)
        \/ Mask \/ Unmask
        \/ \E c \in Cpus : Migrate(c)

Spec == Init /\ [][Next]_vars

=============================================================================
