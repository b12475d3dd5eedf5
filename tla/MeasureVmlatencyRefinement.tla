--------------------- MODULE MeasureVmlatencyRefinement ---------------------
(***************************************************************************)
(* The driver implements ProcessorLoan: what it promises the rest of the   *)
(* machine, when __vmxon() recognises a busy processor and the revision    *)
(* identifier survives the mask.                                           *)
(***************************************************************************)
EXTENDS MeasureVmlatencyProofs

\* The definitions that say which variables a step leaves alone, and the
\* entry and exit points of the three builds.
USE DEF Goto, hardware, memory, monitor, loop, vmlatency_init,
        vmlatency_start, DriverEntry, vmlatency_exit, vmlatency_stop,
        VmlatencyUnloadDriver

\* What is known about every reachable state under the two hypotheses.
LoanInv == DriverInv /\ HypervisorKept /\ Cr4Inv

\* LoanInv is an invariant.
LEMMA LoanInvariant ==
  ASSUME BusyRecognised, RevisionsKept PROVE Spec => []LoanInv
<1>1. DriverInv /\ Cr4Inv /\ [Next]_vars => Cr4Inv'
  BY RevisionsKept, NextCr4Inv
<1>2. Spec => []HypervisorKept
  BY BusyRecognised, HypervisorSafe
<1> QED
  BY <1>1, <1>2, InitCr4Inv, DriverInvariant, PTL DEF Spec, LoanInv

\* A processor that is not borrowed, and the borrowed one just before
\* interrupts are unmasked, is in the state the other hypervisor left it in.
LEMMA Settled ==
  ASSUME LoanInv, NEW c \in Cpus, Reachable(c) \/ (c = cpu /\ pc = "out2")
  PROVE  CpuView(c) = LentView(c)
<1>1. vmxe[c] <=> hvOn[c]
  BY DEF LoanInv, Cr4Inv, Cr4Restored
<1>2. vmxonRegion[c] = IF hvOn[c] THEN Hv ELSE None
  <2>1. vmxonRegion[c] \in Pages \cup {Hv, None}
    BY DEF LoanInv, DriverInv, TypeOK
  <2>2. vmxonRegion[c] \notin Pages
    BY DEF LoanInv, DriverInv, HardwareInv, VmxOnLabels, Reachable
  <2>3. vmxonRegion[c] = Hv <=> hvOn[c]
    BY DEF LoanInv, HypervisorKept, Cr4Inv
  <2> QED
    BY <2>1, <2>2, <2>3
<1>3. dtLimit[c] = "host"
  BY DEF LoanInv, DriverInv, HostStateInv, Reachable
<1>4. vmxe[c] \in BOOLEAN
  BY DEF LoanInv, DriverInv, TypeOK
<1>5. CASE hvOn[c]
  <2>1. vmxe[c] = TRUE
    BY <1>1, <1>4, <1>5, Zenon
  <2> QED
    BY <1>2, <1>3, <1>5, <2>1 DEF CpuView, LentView
<1>6. CASE ~hvOn[c]
  <2>1. vmxe[c] = FALSE
    BY <1>1, <1>4, <1>6, Zenon
  <2> QED
    BY <1>2, <1>3, <1>6, <2>1 DEF CpuView, LentView
<1> QED
  BY <1>5, <1>6

\* Initially nothing is borrowed and every processor is in a legitimate state.
LEMMA LoanInit == Init => Loan!Init
<1> SUFFICES ASSUME Init PROVE Loan!Init
  OBVIOUS
<1>1. \A c \in Cpus : CpuView(c) = <<FALSE, None, "host">>
  BY DEF Init, CpuView
<1>2. ~irqsOff
  BY DEF Init
<1> QED
  BY <1>1, <1>2 DEF Loan!Init

\* A step that changes no processor, borrows nothing and returns nothing is
\* a stutter of ProcessorLoan.
LEMMA StutterStep ==
  ASSUME UNCHANGED <<vmxe, vmxonRegion, dtLimit, irqsOff, hvOn>>,
         irqsOff => UNCHANGED cpu
  PROVE  UNCHANGED Loan!vars
<1>1. \A c \in Cpus : CpuView(c)' = CpuView(c)
  BY DEF CpuView
<1>2. irqsOff => LentView(cpu)' = LentView(cpu)
  BY DEF LentView
<1> QED
  BY <1>1, <1>2 DEF Loan!vars

\* A step on the borrowed processor that changes that processor only.
LEMMA UseStep ==
  ASSUME TypeOK, TypeOK', irqsOff, UNCHANGED <<irqsOff, cpu, hvOn>>,
         \A c \in Cpus \ {cpu} : CpuView(c)' = CpuView(c)
  PROVE  Loan!Next
<1> DEFINE s == CpuView(cpu)'
<1>1. cpu \in Cpus /\ cpu # None
  BY SentinelAssumption DEF TypeOK
<1>2. s \in BOOLEAN \X (Pages \cup {Hv, None}) \X {"host", "ffff"}
  BY DEF TypeOK, CpuView
<1>3. [c \in Cpus |-> CpuView(c)]' =
        [[c \in Cpus |-> CpuView(c)] EXCEPT ![cpu] = s]
  BY <1>1
<1>4. LentView(cpu)' = LentView(cpu)
  BY DEF LentView
<1> HIDE DEF s
<1>5. Loan!Use(s)
  BY <1>1, <1>3, <1>4 DEF Loan!Use
<1> QED
  BY <1>2, <1>5 DEF Loan!Next

\* The other hypervisor switches a processor it can reach on or off.
LEMMA ElsewhereStep ==
  ASSUME TypeOK, NEW c \in Cpus, Reachable(c), UNCHANGED <<irqsOff, cpu>>,
         CpuView(c)' \in {<<TRUE, Hv, "host">>, <<FALSE, None, "host">>},
         \A d \in Cpus \ {c} : CpuView(d)' = CpuView(d) /\ hvOn'[d] = hvOn[d]
  PROVE  Loan!Next
<1> DEFINE s == CpuView(c)'
<1>1. s \in {<<TRUE, Hv, "host">>, <<FALSE, None, "host">>}
  OBVIOUS
<1>2. [d \in Cpus |-> CpuView(d)]' =
        [[d \in Cpus |-> CpuView(d)] EXCEPT ![c] = s]
  OBVIOUS
<1>3. irqsOff => cpu # c /\ LentView(cpu)' = LentView(cpu)
  BY DEF Reachable, LentView, TypeOK
<1>4. c # None
  BY SentinelAssumption
<1> HIDE DEF s
<1>5. Loan!Elsewhere(c, s)
  BY <1>2, <1>3, <1>4 DEF Loan!Elsewhere
<1> QED
  BY <1>1, <1>5 DEF Loan!Next

\* Every step of the driver, the scheduler and the other hypervisor is a
\* step of ProcessorLoan or a stutter.
LEMMA LoanStep ==
  ASSUME LoanInv, TypeOK', [Next]_vars PROVE [Loan!Next]_Loan!vars
<1> USE DEF LoanInv, DriverInv
<1>1. CASE vmlatency_preempt_disable
  <2>1. cpu \in Cpus /\ cpu # None /\ ~irqsOff
    BY <1>1, SentinelAssumption
    DEF TypeOK, MaskInv, MaskedLabels, vmlatency_preempt_disable
  <2>2. CpuView(cpu) = LentView(cpu)
    BY <2>1, Settled DEF Reachable
  <2>3. /\ \A c \in Cpus : CpuView(c)' = CpuView(c)
        /\ LentView(cpu)' = LentView(cpu)
        /\ cpu' = cpu /\ irqsOff'
    BY <1>1 DEF vmlatency_preempt_disable, CpuView, LentView
  <2>4. Loan!Borrow(cpu)
    BY <2>1, <2>2, <2>3 DEF Loan!Borrow
  <2> QED
    BY <2>1, <2>4 DEF Loan!Next
<1>2. CASE vmlatency_preempt_enable
  <2>1. cpu \in Cpus /\ cpu # None /\ irqsOff /\ pc = "out2"
    BY <1>2, SentinelAssumption
    DEF TypeOK, MaskInv, MaskedLabels, vmlatency_preempt_enable
  <2>2. CpuView(cpu) = LentView(cpu)
    BY <2>1, Settled
  <2>3. (\A c \in Cpus : CpuView(c)' = CpuView(c)) /\ ~irqsOff'
    BY <1>2 DEF vmlatency_preempt_enable, CpuView
  <2>4. Loan!Return
    BY <2>1, <2>2, <2>3 DEF Loan!Return
  <2> QED
    BY <2>4 DEF Loan!Next
<1>3. CASE \/ do_vmxon \/ do_vmlaunch \/ do_vmresume \/ restore_host_state
           \/ do_vmxoff
  <2>1. irqsOff
    BY <1>3
    DEF do_vmxon, do_vmlaunch, do_vmresume, restore_host_state, do_vmxoff,
        MaskInv, MaskedLabels
  <2>2. UNCHANGED <<irqsOff, cpu, hvOn>>
    BY <1>3
    DEF do_vmxon, do_vmlaunch, do_vmresume, restore_host_state, do_vmxoff
  <2>3. ASSUME NEW c \in Cpus \ {cpu} PROVE CpuView(c)' = CpuView(c)
    <3>1. CASE do_vmxon
      <4>1. /\ vmxe' = [vmxe EXCEPT ![cpu] = TRUE] /\ dtLimit' = dtLimit
            /\ \/ vmxonRegion' = vmxonRegion
               \/ vmxonRegion' = [vmxonRegion EXCEPT ![cpu] =
                                    page["vmxon_region"]]
        BY <3>1, Zenon DEF do_vmxon
      <4> QED
        BY <4>1 DEF CpuView, TypeOK
    <3>2. CASE do_vmlaunch \/ do_vmresume \/ restore_host_state
      BY <3>2
      DEF do_vmlaunch, do_vmresume, restore_host_state, VmEntry, CpuView,
          TypeOK
    <3>3. CASE do_vmxoff
      BY <3>3 DEF do_vmxoff, CpuView, TypeOK
    <3> QED
      BY <1>3, <3>1, <3>2, <3>3
  <2> QED
    BY <2>1, <2>2, <2>3, UseStep
<1>4. ASSUME NEW c \in Cpus, HvEnable(c) \/ HvDisable(c)
      PROVE  Loan!Next
  <2>1. Reachable(c) /\ UNCHANGED <<irqsOff, cpu>>
    BY <1>4 DEF HvEnable, HvDisable
  <2>2. dtLimit[c] = "host"
    BY <2>1 DEF HostStateInv, Reachable
  <2>3. CpuView(c)' \in {<<TRUE, Hv, "host">>, <<FALSE, None, "host">>}
    BY <1>4, <2>2 DEF HvEnable, HvDisable, CpuView, TypeOK
  <2>4. \A d \in Cpus \ {c} : CpuView(d)' = CpuView(d) /\ hvOn'[d] = hvOn[d]
    BY <1>4 DEF HvEnable, HvDisable, CpuView, TypeOK
  <2> QED
    BY <2>1, <2>3, <2>4, ElsewhereStep
<1>5. ASSUME NEW c \in Cpus, HvLoadVmcs(c) \/ Migrate(c)
      PROVE  UNCHANGED Loan!vars
  BY <1>5, StutterStep DEF HvLoadVmcs, Migrate
<1>6. ASSUME NEW p \in Pages, AllocatePage(p) PROVE UNCHANGED Loan!vars
  BY <1>6, StutterStep DEF AllocatePage
<1>7. CASE \/ module_init \/ vmx_enabled \/ print_vmx_info
           \/ measure_vmlatency \/ AllocationFails \/ setup_revision_id
           \/ do_vmptrld \/ initialize_vmcs \/ NextRound \/ LoopEnds
           \/ do_vmclear \/ free_memory \/ report \/ module_exit
  BY <1>7, StutterStep
  DEF module_init, vmx_enabled, print_vmx_info, measure_vmlatency,
      AllocationFails, setup_revision_id, do_vmptrld, initialize_vmcs,
      NextRound, LoopEnds, do_vmclear, free_memory, report, module_exit
<1>8. CASE UNCHANGED vars
  BY <1>8, StutterStep DEF vars
<1> QED
  BY <1>1, <1>2, <1>3, <1>4, <1>5, <1>6, <1>7, <1>8
  DEF Next, Thread, Environment, Crashed

\* The driver keeps the promise of ProcessorLoan: it changes one borrowed
\* processor at a time and gives it back as it found it.
THEOREM LoanImplemented ==
  ASSUME BusyRecognised, RevisionsKept PROVE Spec => LoanKept
<1>1. LoanInv /\ TypeOK' /\ [Next]_vars => [Loan!Next]_Loan!vars
  BY LoanStep
<1> QED
  BY <1>1, LoanInit, LoanInvariant, TypeCorrect, PTL
  DEF Spec, LoanKept, Loan!Spec

=============================================================================
