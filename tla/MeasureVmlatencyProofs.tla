----------------------- MODULE MeasureVmlatencyProofs -----------------------
(***************************************************************************)
(* Proofs about MeasureVmlatency, for any number of processors, pages and  *)
(* iterations, any set of machines and every build.                        *)
(*                                                                         *)
(* DriverInv is inductive and carries the unconditional properties.  Three *)
(* further invariants, each inductive relative to DriverInv, carry those   *)
(* that need a hypothesis about the build, the processor or the allocator. *)
(***************************************************************************)
EXTENDS MeasureVmlatency, TLAPS

\* The definitions that say which variables a step leaves alone, and the
\* entry and exit points of the three builds.
USE DEF Goto, hardware, memory, monitor, loop, vmlatency_init,
        vmlatency_start, DriverEntry, vmlatency_exit, vmlatency_stop,
        VmlatencyUnloadDriver

-----------------------------------------------------------------------------
(***************************************************************************)
(* DriverInv is inductive.                                                 *)
(***************************************************************************)

\* DriverInv holds before the driver is loaded.
LEMMA InitDriverInv == Init => DriverInv
<1> SUFFICES ASSUME Init PROVE DriverInv
  OBVIOUS
<1>1. /\ irqsOff \in BOOLEAN /\ old_vmxe \in BOOLEAN /\ our_vmxon \in BOOLEAN
      /\ vmlaunch_happened \in BOOLEAN /\ roundTrips \in BOOLEAN
  BY Zenon DEF Init
<1>2. TypeOK
  BY <1>1, SentinelAssumption, BoundsAssumption
  DEF Init, TypeOK, Labels, Regions, EntryOutcomes
<1>3. /\ MaskInv /\ PageInv /\ HardwareInv
      /\ VmxOnInv /\ HostStateInv /\ LaunchInv
  BY SentinelAssumption
  DEF Init, MaskInv, PageInv, HardwareInv, VmxOnInv, HostStateInv, LaunchInv,
      MaskedLabels, VmxOnLabels, VmcsLabels, OwnedLabels, Regions
<1> QED
  BY <1>2, <1>3 DEF DriverInv

\* VMXON: whatever the flags, do_vmxon() reports success only when the
\* processor is in VMX operation, and claims the VMXON region only when the
\* driver's own instruction entered it or VMX operation already was on.
LEMMA VmxonReturn ==
  ASSUME NEW c \in Cpus, NEW p \in Pages
  PROVE  LET ret == __vmxon(machine.platform, VmxonFlags(c, p)) IN
         /\ ret \in {-1, 0, 1}
         /\ VmxonFlags(c, p) = {} => ret = 0
         /\ VmxonFlags(c, p) = {} <=>
              vmxonRegion[c] = None /\ revision[p] = machine.revision
         /\ ret = 1 => vmxonRegion[c] # None
         /\ ret # -1 /\ VmxonFlags(c, p) # {} => vmxonRegion[c] # None
  BY DEF __vmxon, VmxonFlags, CF, ZF

\* Every step of the driver, the scheduler and the other hypervisor
\* preserves DriverInv.
LEMMA NextDriverInv == DriverInv /\ [Next]_vars => DriverInv'
<1> SUFFICES ASSUME DriverInv, [Next]_vars PROVE DriverInv'
  OBVIOUS
<1> USE MachinesAssumption, BoundsAssumption, SentinelAssumption
    DEF DriverInv, TypeOK, MaskInv, PageInv, HardwareInv, VmxOnInv,
        HostStateInv, LaunchInv, Labels, MaskedLabels, VmxOnLabels,
        VmcsLabels, OwnedLabels, Regions, EntryOutcomes
<1>1. CASE module_init
  BY <1>1 DEF module_init
<1>2. CASE vmx_enabled
  BY <1>2 DEF vmx_enabled
<1>3. CASE print_vmx_info
  BY <1>3 DEF print_vmx_info
<1>4. CASE measure_vmlatency
  <2>1. TypeOK'
    <3>1. /\ old_vmxe' \in BOOLEAN /\ our_vmxon' \in BOOLEAN
          /\ vmlaunch_happened' \in BOOLEAN /\ roundTrips' \in BOOLEAN
      BY <1>4, Zenon DEF measure_vmlatency
    <3> QED
      BY <1>4, <3>1 DEF measure_vmlatency
  <2>2. MaskInv' /\ PageInv' /\ HardwareInv'
    BY <1>4 DEF measure_vmlatency
  <2>3. VmxOnInv' /\ HostStateInv' /\ LaunchInv'
    BY <1>4 DEF measure_vmlatency
  <2> QED
    BY <2>1, <2>2, <2>3
<1>5. ASSUME NEW p \in Pages, AllocatePage(p) PROVE DriverInv'
  BY <1>5 DEF AllocatePage, AllocOrder
<1>6. CASE AllocationFails
  BY <1>6 DEF AllocationFails
<1>7. CASE setup_revision_id
  BY <1>7 DEF setup_revision_id, get_vmcs_revision_identifier, RevisionIdMask
<1>8. CASE vmlatency_preempt_disable
  BY <1>8 DEF vmlatency_preempt_disable
<1>9. CASE do_vmxon
  <2> DEFINE p == page["vmxon_region"]
             ret == __vmxon(machine.platform, VmxonFlags(cpu, p))
  <2>1. p \in Pages /\ cpu \in Cpus
    BY <1>9 DEF do_vmxon
  <2>2. /\ ret \in {-1, 0, 1}
        /\ VmxonFlags(cpu, p) = {} => ret = 0 /\ vmxonRegion[cpu] = None
        /\ ret = 1 => vmxonRegion[cpu] # None
        /\ ret # -1 /\ VmxonFlags(cpu, p) # {} => vmxonRegion[cpu] # None
    BY <2>1, VmxonReturn
  <2> HIDE DEF p, ret
  <2>3. /\ pc = "vmxon"
        /\ old_vmxe' = vmxe[cpu]
        /\ vmxe' = [vmxe EXCEPT ![cpu] = TRUE]
        /\ UNCHANGED <<machine, dtLimit, freePages, revision, activeOn,
                       launchState, cpu, irqsOff, page, cnt, hs, hostCpu, n,
                       i, vmlaunch_happened, lastEntry, roundTrips, hvOn>>
    BY <1>9, Zenon DEF do_vmxon
  <2>4. our_vmxon' \in BOOLEAN /\ old_vmxe' \in BOOLEAN
    <3>1. our_vmxon' = our_vmxon \/ our_vmxon' = (ret = 0)
      BY <1>9, Zenon DEF do_vmxon, p, ret
    <3>2. our_vmxon \in BOOLEAN /\ (ret = 0) \in BOOLEAN
      OBVIOUS
    <3>3. vmxe[cpu] \in BOOLEAN
      BY <2>1
    <3> QED
      BY <2>3, <3>1, <3>2, <3>3, Zenon
  <2>5. \/ /\ pc' \in {"fault", "out2"}     \* a fault, or VMXON failed
           /\ UNCHANGED <<vmxonRegion, currentVmcs>>
        \/ /\ pc' = "vmptrld"               \* somebody else's VMX operation
           /\ vmxonRegion[cpu] # None
           /\ UNCHANGED <<vmxonRegion, currentVmcs>>
        \/ /\ pc' = "vmptrld"               \* the driver's own
           /\ our_vmxon'
           /\ vmxonRegion' = [vmxonRegion EXCEPT ![cpu] = p]
           /\ currentVmcs' = [currentVmcs EXCEPT ![cpu] = None]
    <3>1. CASE ~VmxonAllowed(cpu)
      BY <1>9, <3>1, Zenon DEF do_vmxon
    <3>2. CASE VmxonAllowed(cpu)
      <4>1. /\ pc' = IF ret = -1 THEN "out2" ELSE "vmptrld"
            /\ our_vmxon' = IF ret = -1 THEN our_vmxon ELSE ret = 0
            /\ vmxonRegion' = IF VmxonFlags(cpu, p) = {}
                              THEN [vmxonRegion EXCEPT ![cpu] = p]
                              ELSE vmxonRegion
            /\ currentVmcs' = IF VmxonFlags(cpu, p) = {}
                              THEN [currentVmcs EXCEPT ![cpu] = None]
                              ELSE currentVmcs
        BY <1>9, <3>2, Zenon DEF do_vmxon, p, ret
      <4>2. CASE VmxonFlags(cpu, p) = {}
        <5>1. ret = 0 /\ ret # -1
          BY <2>2, <4>2
        <5>2. our_vmxon'
          BY <4>1, <5>1, Zenon
        <5> QED
          BY <4>1, <4>2, <5>1, <5>2
      <4>3. CASE VmxonFlags(cpu, p) # {}
        BY <2>2, <4>1, <4>3
      <4> QED
        BY <4>2, <4>3
    <3> QED
      BY <3>1, <3>2
  <2>6. TypeOK'
    <3>1. vmxe' \in [Cpus -> BOOLEAN]
      BY <2>3
    <3>2. /\ pc' \in Labels
          /\ vmxonRegion' \in [Cpus -> Pages \cup {Hv, None}]
          /\ currentVmcs' \in [Cpus -> Pages \cup {Hv, None}]
      BY <2>1, <2>5
    <3> QED
      BY <2>3, <2>4, <3>1, <3>2
  <2>7. MaskInv' /\ PageInv' /\ HostStateInv' /\ LaunchInv'
    BY <2>3, <2>5
  <2>8. HardwareInv'
    BY <2>1, <2>3, <2>5 DEF p
  <2>9. VmxOnInv'
    BY <2>1, <2>3, <2>5
  <2> QED
    BY <2>6, <2>7, <2>8, <2>9
<1>10. CASE do_vmptrld
  BY <1>10 DEF do_vmptrld
<1>11. CASE initialize_vmcs
  BY <1>11 DEF initialize_vmcs
<1>12. CASE do_vmlaunch
  BY <1>12 DEF do_vmlaunch, VmEntry, LaunchOutcomes
<1>13. CASE do_vmresume
  BY <1>13 DEF do_vmresume, VmEntry, ResumeOutcomes, Increment, MoreRounds
<1>14. CASE NextRound
  BY <1>14 DEF NextRound, MoreRounds
<1>15. CASE LoopEnds
  BY <1>15 DEF LoopEnds
<1>16. CASE restore_host_state
  BY <1>16 DEF restore_host_state
<1>17. CASE do_vmclear
  BY <1>17 DEF do_vmclear
<1>18. CASE do_vmxoff
  <2>1. TypeOK'
    <3>1. /\ pc' \in Labels
          /\ vmxonRegion' \in [Cpus -> Pages \cup {Hv, None}]
          /\ currentVmcs' \in [Cpus -> Pages \cup {Hv, None}]
      BY <1>18 DEF do_vmxoff, MustVmxoff, MustClearVmxe
    <3>2. vmxe' = vmxe \/ vmxe' = [vmxe EXCEPT ![cpu] = FALSE]
      BY <1>18 DEF do_vmxoff, MustVmxoff, MustClearVmxe
    <3>3. vmxe' \in [Cpus -> BOOLEAN]
      BY <3>2
    <3> QED
      BY <1>18, <3>1, <3>3 DEF do_vmxoff
  <2>2. MaskInv' /\ PageInv' /\ HardwareInv'
    BY <1>18 DEF do_vmxoff, MustVmxoff, MustClearVmxe
  <2>3. VmxOnInv' /\ HostStateInv' /\ LaunchInv'
    BY <1>18 DEF do_vmxoff, MustVmxoff, MustClearVmxe
  <2> QED
    BY <2>1, <2>2, <2>3
<1>19. CASE vmlatency_preempt_enable
  BY <1>19 DEF vmlatency_preempt_enable
<1>20. CASE free_memory
  BY <1>20 DEF free_memory, FreedRegions, FreeOrder
<1>21. CASE report
  BY <1>21 DEF report
<1>22. CASE module_exit
  BY <1>22 DEF module_exit
<1>23. ASSUME NEW c \in Cpus, Migrate(c) PROVE DriverInv'
  BY <1>23 DEF Migrate
<1>24. ASSUME NEW c \in Cpus, HvEnable(c) PROVE DriverInv'
  BY <1>24 DEF HvEnable, Reachable
<1>25. ASSUME NEW c \in Cpus, HvLoadVmcs(c) PROVE DriverInv'
  BY <1>25 DEF HvLoadVmcs, Reachable
<1>26. ASSUME NEW c \in Cpus, HvDisable(c) PROVE DriverInv'
  BY <1>26 DEF HvDisable, Reachable
<1>27. CASE UNCHANGED vars
  BY <1>27 DEF vars
<1> HIDE DEF DriverInv
<1> QED
  BY <1>1, <1>2, <1>3, <1>4, <1>5, <1>6, <1>7, <1>8, <1>9, <1>10, <1>11,
     <1>12, <1>13, <1>14, <1>15, <1>16, <1>17, <1>18, <1>19, <1>20, <1>21,
     <1>22, <1>23, <1>24, <1>25, <1>26, <1>27
  DEF Next, Thread, Environment, Crashed

\* DriverInv is an invariant of the driver.
THEOREM DriverInvariant == Spec => []DriverInv
  BY InitDriverInv, NextDriverInv, PTL DEF Spec

-----------------------------------------------------------------------------
(***************************************************************************)
(* Unconditional properties.                                               *)
(***************************************************************************)

\* Every variable keeps its type; in particular stats[] is never overrun.
THEOREM TypeCorrect == Spec => []TypeOK
  BY DriverInvariant, PTL DEF DriverInv

\* No processor refers to a page that free_memory() has given back.
THEOREM NothingDangles == Spec => []NoDanglingHardwareReference
<1>1. DriverInv => NoDanglingHardwareReference
  <2> SUFFICES ASSUME DriverInv, NEW p \in freePages
               PROVE  /\ activeOn[p] = None
                      /\ \A c \in Cpus :
                           vmxonRegion[c] # p /\ currentVmcs[c] # p
    BY DEF NoDanglingHardwareReference
  <2> p \in Pages /\ \A r \in Regions : page[r] # p
    BY DEF DriverInv, TypeOK, PageInv
  <2> QED
    BY DEF DriverInv, HardwareInv, Regions
<1> QED
  BY <1>1, DriverInvariant, PTL

\* GDTR and IDTR are the kernel's wherever interrupts are not masked.
THEOREM DescriptorTables == Spec => []DescriptorTablesRestored
<1>1. DriverInv => DescriptorTablesRestored
  BY DEF DriverInv, HostStateInv, DescriptorTablesRestored, Reachable
<1> QED
  BY <1>1, DriverInvariant, PTL

\* Every VM entry uses the driver's VMCS on the processor it was made for.
THEOREM OwnVmcs == Spec => []EntryUsesOwnVmcs
<1>1. DriverInv => EntryUsesOwnVmcs
  BY DEF DriverInv, HardwareInv, HostStateInv, EntryUsesOwnVmcs, VmcsLabels
<1> QED
  BY <1>1, DriverInvariant, PTL

\* Once the guest has run, VMRESUME does not fail early.
THEOREM ResumeAfterLaunch == Spec => ResumeStaysLaunched
<1>1. DriverInv /\ [Next]_vars =>
        [(lastEntry \in {"cpuid", "other"}) => lastEntry' # "vmfail"]_vars
  <2> SUFFICES ASSUME DriverInv, Next, lastEntry \in {"cpuid", "other"}
               PROVE  lastEntry' # "vmfail"
    BY DEF vars
  <2>1. CASE do_vmlaunch
    BY <2>1 DEF do_vmlaunch, DriverInv, LaunchInv
  <2>2. CASE do_vmresume
    <3>1. /\ currentVmcs[cpu] = page["vmcs"] /\ page["vmcs"] \in Pages
          /\ launchState[page["vmcs"]] = "launched"
      BY <2>2
      DEF do_vmresume, DriverInv, TypeOK, PageInv, HardwareInv, LaunchInv,
          VmcsLabels, OwnedLabels, MaskedLabels, Regions
    <3> QED
      BY <2>2, <3>1 DEF do_vmresume, VmEntry, ResumeOutcomes
  <2>3. CASE ~do_vmlaunch /\ ~do_vmresume
    <3>1. lastEntry' = lastEntry \/ lastEntry' = "none"
      BY <2>3
      DEF Next, Thread, Environment, module_init, module_exit, vmx_enabled,
          print_vmx_info, measure_vmlatency, AllocatePage, AllocationFails,
          setup_revision_id, vmlatency_preempt_disable, do_vmxon, do_vmptrld,
          initialize_vmcs, NextRound, LoopEnds, restore_host_state,
          do_vmclear, do_vmxoff, vmlatency_preempt_enable, free_memory,
          report, Migrate, HvEnable, HvLoadVmcs, HvDisable, Crashed, vars
    <3> QED
      BY <3>1
  <2> QED
    BY <2>1, <2>2, <2>3
<1> QED
  BY <1>1, DriverInvariant, PTL DEF Spec, ResumeStaysLaunched

-----------------------------------------------------------------------------
(***************************************************************************)
(* Faults.                                                                 *)
(***************************************************************************)

\* FaultInv holds initially.
LEMMA InitFaultInv == Init => FaultInv
  BY DEF Init, FaultInv, FaultsExplained

\* No step faults except where the firmware refuses VMX: each VMX instruction
\* finds the mode it needs.
LEMMA NextFaultInv == DriverInv /\ FaultInv /\ [Next]_vars => FaultInv'
<1> SUFFICES ASSUME DriverInv, FaultInv, [Next]_vars
             PROVE  FaultInv'
  OBVIOUS
<1> USE DEF FaultInv, FaultsExplained, VmxonAllowed
<1>1. CASE vmx_enabled
  BY <1>1 DEF vmx_enabled, VmxUsable, FeatureControlBits, DriverInv, TypeOK
<1>2. CASE print_vmx_info
  BY <1>2 DEF print_vmx_info
<1>3. CASE do_vmxon
  BY <1>3 DEF do_vmxon
<1>4. CASE do_vmptrld
  BY <1>4 DEF do_vmptrld, DriverInv, VmxOnInv, VmxOnLabels
<1>5. CASE do_vmclear
  BY <1>5 DEF do_vmclear, DriverInv, VmxOnInv, VmxOnLabels
<1>6. CASE do_vmxoff
  BY <1>6
  DEF do_vmxoff, MustVmxoff, MustClearVmxe, DriverInv, VmxOnInv, VmxOnLabels
<1>7. CASE free_memory
  BY <1>7
  DEF free_memory, FreedRegions, FreeOrder, DriverInv, TypeOK, PageInv, Regions
<1>8. CASE UNCHANGED vars
  BY <1>8 DEF vars, hardware
<1>9. ASSUME NEW c \in Cpus,
            Migrate(c) \/ HvEnable(c) \/ HvLoadVmcs(c) \/ HvDisable(c)
      PROVE  FaultInv'
  BY <1>9 DEF Migrate, HvEnable, HvLoadVmcs, HvDisable
<1>10. ASSUME NEW p \in Pages, AllocatePage(p) PROVE FaultInv'
  BY <1>10 DEF AllocatePage
<1>11. CASE \/ module_init \/ measure_vmlatency \/ AllocationFails
           \/ setup_revision_id \/ vmlatency_preempt_disable \/ initialize_vmcs
           \/ do_vmlaunch \/ do_vmresume \/ NextRound
           \/ LoopEnds \/ restore_host_state \/ vmlatency_preempt_enable
           \/ report \/ module_exit
  BY <1>11 DEF module_init, measure_vmlatency, AllocationFails,
      setup_revision_id, vmlatency_preempt_disable, initialize_vmcs,
      do_vmlaunch, do_vmresume, NextRound, LoopEnds, restore_host_state,
      vmlatency_preempt_enable, report, module_exit
<1> HIDE DEF FaultInv
<1> QED
  BY <1>1, <1>2, <1>3, <1>4, <1>5, <1>6, <1>7, <1>8, <1>9, <1>10, <1>11
  DEF Next, Thread, Environment, Crashed

\* Whatever the machine and the build, the driver faults only on a processor
\* that refuses VMX, and behind vmx_enabled() only if another one allows it.
THEOREM OnlyFirmwareFaults == Spec => []FaultsExplained
<1>1. FaultInv => FaultsExplained
  BY DEF FaultInv
<1> QED
  BY <1>1, InitFaultInv, NextFaultInv, DriverInvariant, PTL DEF Spec

\* Where the firmware treats all processors alike and the build asks, and
\* where it has enabled VMX, no instruction of the driver faults.
THEOREM FaultFree == ASSUME FirmwareChecked PROVE Spec => []NoFault
<1>1. DriverInv /\ FaultsExplained => NoFault
  BY FirmwareChecked
  DEF FirmwareChecked, FaultsExplained, NoFault, VmxonAllowed, DriverInv, TypeOK
<1> QED
  BY <1>1, OnlyFirmwareFaults, DriverInvariant, PTL

-----------------------------------------------------------------------------
(***************************************************************************)
(* HypervisorKept, when __vmxon() recognises a busy processor.             *)
(***************************************************************************)

\* HypervisorInv holds initially.
LEMMA InitHypervisorInv == Init => HypervisorInv
  BY DEF Init, HypervisorInv, HypervisorKept, VmxOnLabels

\* When __vmxon() reports success only for its own VMXON, our_vmxon protects
\* the other hypervisor from do_vmxoff().
LEMMA NextHypervisorInv ==
  DriverInv /\ HypervisorInv /\ [Next]_vars => HypervisorInv'
<1>0. SUFFICES ASSUME DriverInv, HypervisorInv, [Next]_vars, Recognised'
               PROVE  HypervisorInv'
  BY DEF HypervisorInv
<1>a. machine' = machine
  BY <1>0
  DEF Next, Thread, Environment, Crashed, vars, module_init, vmx_enabled,
      print_vmx_info, measure_vmlatency, AllocatePage, AllocationFails,
      setup_revision_id, vmlatency_preempt_disable, do_vmxon, do_vmptrld,
      initialize_vmcs, do_vmlaunch, do_vmresume, NextRound, LoopEnds,
      restore_host_state, do_vmclear, do_vmxoff, vmlatency_preempt_enable,
      free_memory, report, module_exit, Migrate, HvEnable, HvLoadVmcs,
      HvDisable
<1>b. Recognised
  BY <1>0, <1>a DEF Recognised
<1> USE <1>0, <1>a, <1>b
<1> USE SentinelAssumption
    DEF HypervisorInv, HypervisorKept, VmxOnLabels, TypeOK
<1>1. CASE measure_vmlatency
  BY <1>1 DEF measure_vmlatency
<1>2. CASE do_vmxon
  <2> DEFINE p == page["vmxon_region"]
             flags == VmxonFlags(cpu, p)
  <2>1. p \in Pages /\ cpu \in Cpus
    BY <1>2
    DEF do_vmxon, DriverInv, PageInv, OwnedLabels, MaskedLabels, Regions
  <2>2. /\ flags = {} => vmxonRegion[cpu] = None
        /\ __vmxon(machine.platform, flags) = 0 => flags = {}
    BY <2>1, VmxonReturn DEF Recognised, __vmxon, VmxonFlags, CF, ZF
  <2>a. machine.platform = "win" /\ flags # {} =>
          __vmxon(machine.platform, flags) = -1
    BY DEF __vmxon
  <2>3. \/ UNCHANGED vmxonRegion /\ pc' \notin VmxOnLabels
        \/ /\ UNCHANGED vmxonRegion /\ ~our_vmxon'
           /\ machine.platform # "win"
        \/ /\ vmxonRegion' = [vmxonRegion EXCEPT ![cpu] = p] /\ flags = {}
           /\ our_vmxon'
    <3>1. CASE ~VmxonAllowed(cpu)
      BY <1>2, <3>1 DEF do_vmxon
    <3>2. CASE VmxonAllowed(cpu) /\ flags = {}
      <4>1. __vmxon(machine.platform, flags) = 0
        BY <3>2 DEF __vmxon, CF, ZF
      <4>2. __vmxon(machine.platform, flags) # -1
        BY <4>1
      <4> QED
        BY <1>2, <3>2, <4>1, <4>2, Zenon DEF do_vmxon
    <3>3. CASE VmxonAllowed(cpu) /\ flags # {}
      <4>1. __vmxon(machine.platform, flags) # 0
        BY <2>2, <3>3
      <4>2. /\ UNCHANGED vmxonRegion
            /\ pc' = IF __vmxon(machine.platform, flags) = -1 THEN "out2" ELSE "vmptrld"
            /\ our_vmxon' = IF __vmxon(machine.platform, flags) = -1 THEN our_vmxon
                            ELSE __vmxon(machine.platform, flags) = 0
        BY <1>2, <3>3, Zenon DEF do_vmxon
      <4>3. CASE __vmxon(machine.platform, flags) = -1
        BY <4>2, <4>3
      <4>4. CASE __vmxon(machine.platform, flags) # -1
        BY <2>a, <3>3, <4>1, <4>2, <4>4, Zenon
      <4> QED
        BY <4>3, <4>4
    <3> QED
      BY <3>1, <3>2, <3>3
  <2>4. hvOn' = hvOn /\ cpu' = cpu
    BY <1>2 DEF do_vmxon
  <2> QED
    BY <2>1, <2>2, <2>3, <2>4 DEF DriverInv
<1>3. CASE do_vmxoff
  BY <1>3 DEF do_vmxoff, MustVmxoff, MustClearVmxe, DriverInv
<1>4. ASSUME NEW c \in Cpus, Migrate(c) PROVE HypervisorInv'
  BY <1>4 DEF Migrate, DriverInv, MaskInv, MaskedLabels
<1>5. ASSUME NEW c \in Cpus, HvEnable(c) PROVE HypervisorInv'
  BY <1>5 DEF HvEnable, Reachable, DriverInv, MaskInv, MaskedLabels
<1>6. ASSUME NEW c \in Cpus, HvDisable(c) PROVE HypervisorInv'
  BY <1>6 DEF HvDisable, Reachable, DriverInv, MaskInv, MaskedLabels
<1>7. ASSUME NEW c \in Cpus, HvLoadVmcs(c) PROVE HypervisorInv'
  BY <1>7 DEF HvLoadVmcs
<1>8. ASSUME NEW p \in Pages, AllocatePage(p) PROVE HypervisorInv'
  BY <1>8 DEF AllocatePage
<1>9. CASE \/ module_init \/ vmx_enabled \/ print_vmx_info
           \/ AllocationFails \/ setup_revision_id \/ vmlatency_preempt_disable
           \/ do_vmptrld \/ initialize_vmcs \/ do_vmlaunch
           \/ do_vmresume \/ NextRound \/ LoopEnds
           \/ restore_host_state \/ do_vmclear \/ vmlatency_preempt_enable
           \/ free_memory \/ report \/ module_exit
  BY <1>9 DEF module_init, vmx_enabled, print_vmx_info, AllocationFails,
      setup_revision_id, vmlatency_preempt_disable, do_vmptrld,
      initialize_vmcs, do_vmlaunch, do_vmresume, NextRound, LoopEnds,
      restore_host_state, do_vmclear, vmlatency_preempt_enable, free_memory,
      report, module_exit
<1>10. CASE UNCHANGED vars
  BY <1>10 DEF vars
<1> HIDE DEF HypervisorInv
<1> QED
  BY <1>1, <1>2, <1>3, <1>4, <1>5, <1>6, <1>7, <1>8, <1>9, <1>10
  DEF Next, Thread, Environment, Crashed

\* Another hypervisor stays in VMX operation.
THEOREM HypervisorSafe ==
  ASSUME BusyRecognised PROVE Spec => []HypervisorKept
<1>1. DriverInv /\ HypervisorInv => HypervisorKept
  BY BusyRecognised
  DEF BusyRecognised, Recognised, HypervisorInv, DriverInv, TypeOK
<1> QED
  BY <1>1, InitHypervisorInv, NextHypervisorInv, DriverInvariant, PTL DEF Spec

\* On Windows the driver leaves VMX operation and the current VMCS of another
\* hypervisor alone.
THEOREM WindowsYields == Spec => HypervisorUndisturbed
<1> DEFINE Undisturbed ==
      machine.platform = "win" =>
        \A c \in Cpus : hvOn[c] /\ hvOn'[c] =>
          /\ vmxonRegion'[c] = vmxonRegion[c]
          /\ currentVmcs[c] = Hv => currentVmcs'[c] = Hv
<1>1. DriverInv /\ HypervisorInv /\ [Next]_vars => [Undisturbed]_vars
  <2> SUFFICES ASSUME DriverInv, HypervisorInv, Next, machine.platform = "win",
                      NEW c \in Cpus, hvOn[c], hvOn'[c]
               PROVE  /\ vmxonRegion'[c] = vmxonRegion[c]
                      /\ currentVmcs[c] = Hv => currentVmcs'[c] = Hv
    BY DEF vars
  <2>0. /\ vmxonRegion[c] = Hv /\ Hv \notin Pages /\ Hv # None
        /\ pc \in VmxOnLabels => our_vmxon /\ c # cpu
        /\ vmxonRegion \in [Cpus -> Pages \cup {Hv, None}]
        /\ currentVmcs \in [Cpus -> Pages \cup {Hv, None}]
    BY SentinelAssumption
    DEF HypervisorInv, HypervisorKept, Recognised, DriverInv, TypeOK
  <2>1. CASE do_vmxon
    <3>1. page["vmxon_region"] \in Pages /\ cpu \in Cpus
      BY <2>1 DEF do_vmxon, DriverInv, TypeOK, PageInv, OwnedLabels,
         MaskedLabels, Regions
    <3>2. VmxonFlags(cpu, page["vmxon_region"]) = {} => c # cpu
      BY <2>0, <3>1, VmxonReturn
    <3>3. /\ \/ vmxonRegion' = vmxonRegion
             \/ /\ vmxonRegion' =
                      [vmxonRegion EXCEPT ![cpu] = page["vmxon_region"]]
                /\ c # cpu
          /\ \/ currentVmcs' = currentVmcs
             \/ currentVmcs' = [currentVmcs EXCEPT ![cpu] = None] /\ c # cpu
      BY <2>1, <3>2, Zenon DEF do_vmxon
    <3> QED
      BY <2>0, <3>3
  <2>2. CASE do_vmptrld
    BY <2>0, <2>2 DEF do_vmptrld, VmxOnLabels
  <2>3. CASE do_vmclear
    BY <2>0, <2>3 DEF do_vmclear, VmxOnLabels
  <2>4. CASE do_vmxoff
    <3>1. c # cpu
      BY <2>0, <2>4 DEF do_vmxoff, VmxOnLabels
    <3> QED
      BY <2>0, <2>4, <3>1 DEF do_vmxoff, MustVmxoff
  <2>5. ASSUME NEW d \in Cpus, HvEnable(d) \/ HvLoadVmcs(d) \/ HvDisable(d)
        PROVE  /\ vmxonRegion'[c] = vmxonRegion[c]
               /\ currentVmcs[c] = Hv => currentVmcs'[c] = Hv
    <3>1. hvOn \in [Cpus -> BOOLEAN]
      BY DEF DriverInv, TypeOK
    <3> QED
      BY <2>0, <2>5, <3>1 DEF HvEnable, HvLoadVmcs, HvDisable
  <2>6. ASSUME NEW p \in Pages, AllocatePage(p)
        PROVE  UNCHANGED <<vmxonRegion, currentVmcs>>
    BY <2>6 DEF AllocatePage
  <2>7. ASSUME NEW d \in Cpus, Migrate(d)
        PROVE  UNCHANGED <<vmxonRegion, currentVmcs>>
    BY <2>7 DEF Migrate
  <2>8. CASE \/ module_init \/ vmx_enabled \/ print_vmx_info
             \/ measure_vmlatency \/ AllocationFails \/ setup_revision_id
             \/ vmlatency_preempt_disable \/ initialize_vmcs \/ do_vmlaunch
             \/ do_vmresume \/ NextRound \/ LoopEnds \/ restore_host_state
             \/ vmlatency_preempt_enable \/ free_memory \/ report
             \/ module_exit \/ Crashed
    BY <2>8 DEF module_init, vmx_enabled, print_vmx_info, measure_vmlatency,
        AllocationFails, setup_revision_id, vmlatency_preempt_disable,
        initialize_vmcs, do_vmlaunch, do_vmresume, NextRound, LoopEnds,
        restore_host_state, vmlatency_preempt_enable, free_memory, report,
        module_exit, Crashed, vars
  <2> QED
    BY <2>0, <2>1, <2>2, <2>3, <2>4, <2>5, <2>6, <2>7, <2>8
    DEF Next, Thread, Environment
<1> QED
  BY <1>1, InitHypervisorInv, NextHypervisorInv, DriverInvariant, PTL
  DEF Spec, HypervisorUndisturbed

-----------------------------------------------------------------------------
(***************************************************************************)
(* Cr4Restored, when no revision identifier loses bits to the mask.        *)
(***************************************************************************)

\* Cr4Inv holds initially.
LEMMA InitCr4Inv == Init => Cr4Inv
  BY SentinelAssumption
  DEF Init, Cr4Inv, Cr4Restored, Reachable, VmxOnLabels

\* When VMXON fails only because VMX operation is already on, every path out
\* of the critical section leaves CR4.VMXE as it was found.
LEMMA NextCr4Inv ==
  RevisionsKept /\ DriverInv /\ Cr4Inv /\ [Next]_vars => Cr4Inv'
<1> SUFFICES ASSUME RevisionsKept, DriverInv, Cr4Inv, [Next]_vars
             PROVE  Cr4Inv'
  OBVIOUS
<1> USE SentinelAssumption
    DEF Cr4Inv, Cr4Restored, Reachable, VmxOnLabels, TypeOK
<1>1. CASE measure_vmlatency
  BY <1>1 DEF measure_vmlatency
<1>2. ASSUME NEW p \in Pages, AllocatePage(p) PROVE Cr4Inv'
  BY <1>2 DEF AllocatePage
<1>3. CASE setup_revision_id
  BY <1>3
  DEF setup_revision_id, RevisionsKept, DriverInv, PageInv, OwnedLabels,
      Regions
<1>4. CASE vmlatency_preempt_disable
  BY <1>4 DEF vmlatency_preempt_disable, DriverInv, MaskInv, MaskedLabels
<1>5. CASE do_vmxon
  <2> DEFINE p == page["vmxon_region"]
             flags == VmxonFlags(cpu, p)
  <2>1. p \in Pages /\ cpu \in Cpus /\ irqsOff /\ pc = "vmxon"
    BY <1>5
    DEF do_vmxon, DriverInv, MaskInv, PageInv, OwnedLabels, MaskedLabels,
        Regions
  <2>2. flags # {} => vmxonRegion[cpu] = Hv
    BY <2>1, VmxonReturn DEF DriverInv, HardwareInv
  <2>3. /\ vmxe' = [vmxe EXCEPT ![cpu] = TRUE]
        /\ UNCHANGED <<machine, revision, page, cpu, irqsOff, hvOn>>
        /\ pc' \in {"fault", "out2", "vmptrld"}
    BY <1>5, Zenon DEF do_vmxon
  <2>4. old_vmxe' <=> hvOn[cpu]
    BY <1>5, <2>1, Zenon DEF do_vmxon
  <2>5. /\ pc' = "out2" => flags # {}
        /\ vmxonRegion' \in {vmxonRegion, [vmxonRegion EXCEPT ![cpu] = p]}
    BY <1>5, <2>1, VmxonReturn DEF do_vmxon
  <2>6. pc' = "out2" => hvOn[cpu]
    BY <2>1, <2>2, <2>5
  <2> QED
    BY <2>1, <2>3, <2>4, <2>5, <2>6 DEF DriverInv
<1>6. CASE do_vmptrld
  BY <1>6 DEF do_vmptrld
<1>7. CASE do_vmxoff
  <2>1. cpu \in Cpus /\ irqsOff /\ pc = "out3" /\ (old_vmxe <=> hvOn[cpu])
    BY <1>7 DEF do_vmxoff, DriverInv, MaskInv, MaskedLabels
  <2>2. vmxe[cpu]
    BY <2>1 DEF DriverInv, VmxOnInv
  <2>3. /\ UNCHANGED <<machine, revision, page, cpu, irqsOff, hvOn>>
        /\ pc' \in {"fault", "out2"}
        /\ vmxonRegion' \in {vmxonRegion, [vmxonRegion EXCEPT ![cpu] = None]}
    BY <1>7 DEF do_vmxoff, MustVmxoff
  <2>4. \/ pc' = "fault" /\ vmxe' = vmxe
        \/ hvOn[cpu] /\ vmxe' = vmxe
        \/ ~hvOn[cpu] /\ vmxe' = [vmxe EXCEPT ![cpu] = FALSE]
    BY <1>7, <2>1 DEF do_vmxoff, MustClearVmxe
  <2> QED
    BY <2>1, <2>2, <2>3, <2>4 DEF DriverInv
<1>8. CASE vmlatency_preempt_enable
  BY <1>8 DEF vmlatency_preempt_enable, DriverInv, MaskInv, MaskedLabels
<1>9. CASE free_memory
  BY <1>9 DEF free_memory
<1>10. ASSUME NEW c \in Cpus, Migrate(c) PROVE Cr4Inv'
  BY <1>10 DEF Migrate, DriverInv, MaskInv, MaskedLabels
<1>11. ASSUME NEW c \in Cpus, HvEnable(c) PROVE Cr4Inv'
  BY <1>11 DEF HvEnable, DriverInv, MaskInv, MaskedLabels
<1>12. ASSUME NEW c \in Cpus, HvLoadVmcs(c) PROVE Cr4Inv'
  BY <1>12 DEF HvLoadVmcs, DriverInv, MaskInv, MaskedLabels
<1>13. ASSUME NEW c \in Cpus, HvDisable(c) PROVE Cr4Inv'
  BY <1>13 DEF HvDisable, DriverInv, MaskInv, MaskedLabels
<1>14. CASE \/ module_init \/ vmx_enabled \/ print_vmx_info
            \/ AllocationFails \/ initialize_vmcs \/ do_vmlaunch
            \/ do_vmresume \/ NextRound \/ LoopEnds
            \/ restore_host_state \/ do_vmclear \/ report
            \/ module_exit
  BY <1>14 DEF module_init, vmx_enabled, print_vmx_info, AllocationFails,
      initialize_vmcs, do_vmlaunch, do_vmresume, NextRound, LoopEnds,
      restore_host_state, do_vmclear, report, module_exit
<1>15. CASE UNCHANGED vars
  BY <1>15 DEF vars
<1> HIDE DEF Cr4Inv
<1> QED
  BY <1>1, <1>2, <1>3, <1>4, <1>5, <1>6, <1>7, <1>8, <1>9, <1>10, <1>11,
     <1>12, <1>13, <1>14, <1>15
  DEF Next, Thread, Environment, Crashed

\* CR4.VMXE is given back as it was found.
THEOREM Cr4Safe == ASSUME RevisionsKept PROVE Spec => []Cr4Restored
<1>1. DriverInv /\ Cr4Inv /\ [Next]_vars => Cr4Inv'
  BY RevisionsKept, NextCr4Inv
<1>2. Cr4Inv => Cr4Restored
  BY DEF Cr4Inv
<1> QED
  BY <1>1, <1>2, InitCr4Inv, DriverInvariant, PTL DEF Spec

-----------------------------------------------------------------------------
(***************************************************************************)
(* PagesReleased, when no allocation fails.                                *)
(***************************************************************************)

\* OwnershipInv holds initially.
LEMMA InitOwnershipInv == Init => OwnershipInv
  BY DEF Init, OwnershipInv

\* Without a failing allocation no page is lost.
LEMMA NextOwnershipInv ==
  AllocCanFail = FALSE /\ DriverInv /\ OwnershipInv /\ [Next]_vars
    => OwnershipInv'
<1> SUFFICES ASSUME AllocCanFail = FALSE, DriverInv, OwnershipInv, [Next]_vars
             PROVE  OwnershipInv'
  OBVIOUS
<1> USE DEF OwnershipInv
<1>1. CASE measure_vmlatency
  BY <1>1 DEF measure_vmlatency, AllocOrder, Regions
<1>2. ASSUME NEW p \in Pages, AllocatePage(p) PROVE OwnershipInv'
  <2> DEFINE r == AllocOrder[cnt + 1]
  <2>1. cnt \in 0..4
    BY <1>2 DEF AllocatePage, DriverInv, PageInv
  <2>2. r \in Regions /\ page[r] = None /\ p \in freePages
    BY <1>2, <2>1 DEF AllocatePage, AllocOrder, Regions
  <2>3. /\ page \in [Regions -> Pages \cup {None}]
        /\ page' = [page EXCEPT ![r] = p]
        /\ cnt' = cnt + 1
        /\ freePages' = freePages \ {p}
        /\ pc = "allocate_memory"
        /\ pc' \in {"allocate_memory", "setup_revision_id"}
    BY <1>2 DEF AllocatePage, DriverInv, TypeOK
  <2>4. \A q \in Pages : q \in freePages' \/ \E s \in Regions : page'[s] = q
    BY <2>2, <2>3, SentinelAssumption
  <2>5. \A k \in 1..5 : k > cnt' => page'[AllocOrder[k]] = None
    BY <2>1, <2>2, <2>3 DEF AllocOrder, Regions
  <2> QED
    BY <2>3, <2>4, <2>5
<1>3. CASE AllocationFails
  BY <1>3 DEF AllocationFails
<1>4. CASE vmlatency_preempt_enable
  BY <1>4
  DEF vmlatency_preempt_enable, DriverInv, PageInv, OwnedLabels, MaskedLabels
<1>5. CASE free_memory
  <2>1. FreedRegions(cnt) = Regions
    BY <1>5 DEF free_memory, FreedRegions, FreeOrder, Regions
  <2> QED
    BY <1>5, <2>1 DEF free_memory
<1>6. ASSUME NEW c \in Cpus,
             Migrate(c) \/ HvEnable(c) \/ HvLoadVmcs(c) \/ HvDisable(c)
      PROVE  OwnershipInv'
  BY <1>6 DEF Migrate, HvEnable, HvLoadVmcs, HvDisable
<1>7. CASE \/ module_init \/ vmx_enabled \/ print_vmx_info
           \/ setup_revision_id \/ vmlatency_preempt_disable \/ do_vmxon
           \/ do_vmptrld \/ initialize_vmcs \/ do_vmlaunch
           \/ do_vmresume \/ NextRound \/ LoopEnds
           \/ restore_host_state \/ do_vmclear \/ do_vmxoff
           \/ report \/ module_exit
  BY <1>7 DEF module_init, vmx_enabled, print_vmx_info, setup_revision_id,
      vmlatency_preempt_disable, do_vmxon, do_vmptrld, initialize_vmcs,
      do_vmlaunch, do_vmresume, NextRound, LoopEnds, restore_host_state,
      do_vmclear, do_vmxoff, report, module_exit
<1>8. CASE UNCHANGED vars
  BY <1>8 DEF vars
<1> HIDE DEF OwnershipInv
<1> QED
  BY <1>1, <1>2, <1>3, <1>4, <1>5, <1>6, <1>7, <1>8
  DEF Next, Thread, Environment, Crashed

\* Everything allocate_memory() took is given back before the init routine
\* returns.
THEOREM NoPageLost == ASSUME AllocCanFail = FALSE PROVE Spec => []PagesReleased
<1>1. DriverInv /\ OwnershipInv /\ [Next]_vars => OwnershipInv'
  BY AllocCanFail = FALSE, NextOwnershipInv
<1>2. DriverInv /\ OwnershipInv => PagesReleased
  <2> SUFFICES ASSUME DriverInv, OwnershipInv, pc \in {"unloaded", "loaded"}
               PROVE  freePages = Pages
    BY DEF PagesReleased
  <2>1. freePages \subseteq Pages
    BY DEF DriverInv, TypeOK
  <2>2. \A q \in Pages : q \in freePages
    BY SentinelAssumption DEF OwnershipInv
  <2> QED
    BY <2>1, <2>2
<1> QED
  BY <1>1, <1>2, InitOwnershipInv, DriverInvariant, PTL DEF Spec

=============================================================================
