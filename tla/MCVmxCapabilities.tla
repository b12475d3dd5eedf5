------------------------- MODULE MCVmxCapabilities -------------------------
(***************************************************************************)
(* Small families of processors for VmxCapabilities.  Each family of       *)
(* controls has the control bits that matter: one default-1 control (which *)
(* a TRUE MSR may free), the 64-bit controls, the secondary controls.      *)
(***************************************************************************)
EXTENDS VmxCapabilities

\* Capability MSRs over the control bits B: those that must be 1 according
\* to the TRUE and the plain MSR, and those that may be 1.
Settings(B) == {s \in [t : SUBSET B, l : SUBSET B, h : SUBSET B] :
                  s.t \subseteq s.l /\ s.l \subseteq s.h}

Plain(s) == s.l \cup {b + 32 : b \in s.h}
True(s) == s.t \cup {b + 32 : b \in s.h}

\* 16 stands for CR3-store exiting, 31 for the secondary controls, 2 and 1
\* for default-1 controls; 9 is the 64-bit control of exits and entries.
Candidates ==
  {[basic |-> basic,
    ctls |-> [pinbased |-> Plain(pin), procbased |-> Plain(proc),
              exit |-> Plain(exit), entry |-> Plain(entry)],
    true_ctls |-> [pinbased |-> True(pin), procbased |-> True(proc),
                   exit |-> True(exit), entry |-> True(entry)],
    ctls2 |-> ctls2] :
     basic \in {{}, {55}}, pin \in Settings({1}), proc \in Settings({16, 31}),
     exit \in Settings({2, 9}), entry \in Settings({9}),
     ctls2 \in SUBSET {33, 45}}

MCProcessors == {m \in Candidates : ProcessorAssumption(m)}

=============================================================================
