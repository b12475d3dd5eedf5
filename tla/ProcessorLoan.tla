--------------------------- MODULE ProcessorLoan ---------------------------
(***************************************************************************)
(* What the driver promises the rest of the machine: it borrows at most    *)
(* one processor at a time, changes the state of that processor only, and  *)
(* gives it back in the state in which it found it.  Everybody else only   *)
(* ever sees, and only ever puts, a processor in a legitimate state.       *)
(***************************************************************************)
CONSTANTS
  Cpus,
  States,      \* Every state a processor can be in.
  Legitimate,  \* Those the rest of the kernel puts processors in.
  Nothing      \* No processor, no state.

VARIABLES
  state,       \* State of each processor.
  borrower,    \* The borrowed processor, or Nothing.
  lent         \* The state in which it was borrowed, or Nothing.

vars == <<state, borrower, lent>>

Init ==
  /\ state \in [Cpus -> Legitimate]
  /\ borrower = Nothing
  /\ lent = Nothing

Borrow(c) ==
  /\ borrower = Nothing
  /\ borrower' = c
  /\ lent' = state[c]
  /\ UNCHANGED state

\* The driver does what it likes to the processor it borrowed.
Use(s) ==
  /\ borrower # Nothing
  /\ state' = [state EXCEPT ![borrower] = s]
  /\ UNCHANGED <<borrower, lent>>

Return ==
  /\ borrower # Nothing
  /\ state[borrower] = lent
  /\ borrower' = Nothing
  /\ lent' = Nothing
  /\ UNCHANGED state

\* The rest of the kernel, on any other processor.
Elsewhere(c, s) ==
  /\ c # borrower
  /\ state' = [state EXCEPT ![c] = s]
  /\ UNCHANGED <<borrower, lent>>

Next ==
  \/ \E c \in Cpus : Borrow(c)
  \/ \E s \in States : Use(s)
  \/ Return
  \/ \E c \in Cpus, s \in Legitimate : Elsewhere(c, s)

Spec == Init /\ [][Next]_vars

=============================================================================
