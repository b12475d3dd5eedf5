-------------------------- MODULE MeasureVmlatency --------------------------
(***************************************************************************)
(* The life of the vmlatency driver: it is loaded, checks for VMX, borrows *)
(* one logical processor with interrupts masked, enters VMX operation,     *)
(* launches a guest that immediately exits on CPUID, resumes it many times *)
(* while reading the TSC, gives everything back, and is unloaded.          *)
(*                                                                         *)
(* Three actors interleave: the thread that runs the driver's init         *)
(* routine, the scheduler that may move it to another processor whenever   *)
(* preemption is possible, and another hypervisor (KVM, Hyper-V,           *)
(* VirtualBox...) that switches VMX on and off on any processor on which   *)
(* interrupts are not masked.                                              *)
(***************************************************************************)
EXTENDS VmxPrimitives

CONSTANTS
  Cpus,          \* Logical processors.
  Pages,         \* Physical page frames the kernel can hand out.
  Machines,      \* Machines considered: the build they run, CPUID.VMX, each
                 \* processor's IA32_FEATURE_CONTROL and the VMCS revision
                 \* identifier of IA32_VMX_BASIC.
  VmxonBusy,     \* Flags of a VMXON executed in VMX operation: "as_decoded"
                 \* (CF and ZF, what __vmxon() tests for) or "vmfail" (the
                 \* architecture's VMfail: ZF with a current VMCS, else CF).
  AllocCanFail,  \* Whether allocate_vmpage() may return -1.
  Iterations,    \* VMX_ITERATIONS (20 in the code).
  Hv,            \* The other hypervisor's VMXON region or VMCS.
  None

FeatureControlBits == {"LOCK_BIT", "VMX_OUTSIDE_SMX_ENABLE_BIT"}

ASSUME MachinesAssumption ==
  Machines \subseteq [platform : Platforms,
                      vmx : BOOLEAN,
                      featureControl : [Cpus -> SUBSET FeatureControlBits],
                      revision : SUBSET (0..30)]
ASSUME VmxonBusyAssumption == VmxonBusy \in {"as_decoded", "vmfail"}
ASSUME BoundsAssumption ==
  AllocCanFail \in BOOLEAN /\ Iterations \in Nat
ASSUME SentinelAssumption ==
  /\ None \notin Pages \cup Cpus
  /\ Hv \notin Pages
  /\ Hv # None

VARIABLES
  machine,      \* The machine; never changes.
  \* --- per-processor state
  vmxe,         \* CR4.VMXE
  vmxonRegion,  \* VMXON region in use; None outside VMX operation.
  currentVmcs,  \* Current-VMCS pointer.
  dtLimit,      \* GDTR and IDTR limits: "host", or "ffff" after a VM exit.
  \* --- page frames
  freePages,
  revision,     \* First 32-bit word of each page.
  activeOn,     \* Processor on which the page is an active VMCS.
  launchState,  \* Launch state of the page as a VMCS.
  \* --- the driver's thread
  pc,           \* The call or goto label it is about to execute.
  cpu,          \* The processor it runs on.
  irqsOff,      \* Between vmlatency_preempt_disable() and _enable().
  page,         \* The five vmpage_t of vm_monitor_t.
  cnt,          \* Allocation counter of measure_vmlatency().
  old_vmxe, our_vmxon,   \* Fields of vm_monitor_t.
  hs,           \* host_state_t: the saved descriptor-table limits.
  hostCpu,      \* Processor whose state the VMCS host area describes.
  n, i,         \* Loop counters.
  vmlaunch_happened,
  lastEntry,    \* Outcome of the last VM entry attempt.
  roundTrips,   \* Whether every measured VM entry came back on CPUID.
  \* --- the other hypervisor
  hvOn          \* It believes it put the processor in VMX operation.

hardware == <<vmxe, vmxonRegion, currentVmcs, dtLimit>>
memory   == <<freePages, revision, activeOn, launchState>>
monitor  == <<page, cnt, old_vmxe, our_vmxon, hs, hostCpu>>
loop     == <<n, i, vmlaunch_happened, lastEntry, roundTrips>>
vars == <<machine, hardware, memory, pc, cpu, irqsOff, monitor, loop, hvOn>>

-----------------------------------------------------------------------------
(***************************************************************************)
(* Constants of the code.                                                  *)
(***************************************************************************)

\* The order in which allocate_memory() allocates.
AllocOrder == <<"vmxon_region", "vmcs", "io_bitmap_a", "io_bitmap_b",
                "msr_bitmap">>

\* free_memory(vmm, k) frees the first k of these: its tests cascade from
\* cnt == 5 down to cnt == 1, the last of which frees vmcs.
FreeOrder == <<"vmcs", "vmxon_region", "io_bitmap_a", "io_bitmap_b",
               "msr_bitmap">>

Regions == {"vmxon_region", "vmcs", "io_bitmap_a", "io_bitmap_b",
            "msr_bitmap"}

\* A mutant of FreedRegions whose cascade stops one step early.
MutFreedRegions(c) == {FreeOrder[k] : k \in {k \in 1..5 : k < c}}

\* What free_memory() frees when called with the counter c.
FreedRegions(c) == {FreeOrder[k] : k \in {k \in 1..5 : k <= c}}

Labels ==
  {"unloaded", "vmx_enabled", "print_vmx_info", "measure_vmlatency",
   "allocate_memory", "setup_revision_id", "preempt_disable", "vmxon",
   "vmptrld", "initialize_vmcs", "vmlaunch", "vmresume", "out4", "vmclear",
   "out3", "out2", "out1", "report", "loaded", "fault"}

EntryOutcomes == {"none", "vmfail", "entry_failure", "cpuid", "other"}

-----------------------------------------------------------------------------
(***************************************************************************)
(* Initially the driver is not loaded and no processor is in VMX           *)
(* operation.                                                              *)
(***************************************************************************)
Init ==
  /\ machine \in Machines
  /\ vmxe = [c \in Cpus |-> FALSE]
  /\ vmxonRegion = [c \in Cpus |-> None]
  /\ currentVmcs = [c \in Cpus |-> None]
  /\ dtLimit = [c \in Cpus |-> "host"]
  /\ freePages = Pages
  /\ revision = [p \in Pages |-> {}]
  /\ activeOn = [p \in Pages |-> None]
  /\ launchState = [p \in Pages |-> "clear"]
  /\ pc = "unloaded"
  /\ cpu \in Cpus
  /\ irqsOff = FALSE
  /\ page = [r \in Regions |-> None]
  /\ cnt = 0
  /\ old_vmxe = FALSE /\ our_vmxon = FALSE
  /\ hs = "host" /\ hostCpu = None
  /\ n = 0 /\ i = 0
  /\ vmlaunch_happened = FALSE
  /\ lastEntry = "none" /\ roundTrips = TRUE
  /\ hvOn = [c \in Cpus |-> FALSE]

\* The thread moves from label a to label b.
Goto(a, b) == pc = a /\ pc' = b

-----------------------------------------------------------------------------
(***************************************************************************)
(* Loading, checking and unloading.                                        *)
(***************************************************************************)

\* insmod: the Linux entry point asks vmx_enabled() first,
vmlatency_init == machine.platform = "linux" /\ Goto("unloaded", "vmx_enabled")

\* kextload: so does the macOS one,
vmlatency_start == machine.platform = "mac" /\ Goto("unloaded", "vmx_enabled")

\* starting the Windows service: DriverEntry goes straight to
\* print_vmx_info().  (When IoCreateDevice fails, it returns an error and
\* the driver stays unloaded: no step of this model.)
DriverEntry == machine.platform = "win" /\ Goto("unloaded", "print_vmx_info")

module_init ==
  /\ vmlatency_init \/ vmlatency_start \/ DriverEntry
  /\ UNCHANGED <<machine, hardware, memory, cpu, irqsOff, monitor, loop, hvOn>>

\* A mutant of VmxUsable that forgets the lock bit of IA32_FEATURE_CONTROL.
MutVmxUsableUnlocked ==
  machine.vmx /\ "VMX_OUTSIDE_SMX_ENABLE_BIT" \in machine.featureControl[cpu]

\* The verdict of vmx_enabled(): CPUID reports VMX and the firmware has
\* enabled it and locked IA32_FEATURE_CONTROL, on the processor the thread
\* happens to run on.
VmxUsable ==
  /\ machine.vmx
  /\ "LOCK_BIT" \in machine.featureControl[cpu]
  /\ "VMX_OUTSIDE_SMX_ENABLE_BIT" \in machine.featureControl[cpu]

\* Processor c executes VMXON without #UD or #GP: VMX exists, and the
\* firmware locked IA32_FEATURE_CONTROL with VMX enabled outside SMX.
VmxonAllowed(c) ==
  machine.vmx /\ FeatureControlBits \subseteq machine.featureControl[c]

\* When vmx_enabled() says no, the module stays loaded and does nothing.
vmx_enabled ==
  /\ Goto("vmx_enabled", IF VmxUsable THEN "print_vmx_info" ELSE "loaded")
  /\ UNCHANGED <<machine, hardware, memory, cpu, irqsOff, monitor, loop, hvOn>>

\* Reading IA32_VMX_BASIC raises #GP on a processor without VMX.
print_vmx_info ==
  /\ Goto("print_vmx_info",
          IF machine.vmx THEN "measure_vmlatency" ELSE "fault")
  /\ UNCHANGED <<machine, hardware, memory, cpu, irqsOff, monitor, loop, hvOn>>

\* rmmod, kextunload, stopping the service: nothing of the driver's state is
\* left to undo.
vmlatency_exit == machine.platform = "linux" /\ Goto("loaded", "unloaded")
vmlatency_stop == machine.platform = "mac" /\ Goto("loaded", "unloaded")
VmlatencyUnloadDriver == machine.platform = "win" /\ Goto("loaded", "unloaded")

module_exit ==
  /\ vmlatency_exit \/ vmlatency_stop \/ VmlatencyUnloadDriver
  /\ UNCHANGED <<machine, hardware, memory, cpu, irqsOff, monitor, loop, hvOn>>

-----------------------------------------------------------------------------
(***************************************************************************)
(* measure_vmlatency(), up to the point where interrupts are masked.       *)
(***************************************************************************)

\* vm_monitor_t vmm = {0}, vmlaunch_happened = false and
\* cache_vmx_capabilities().
measure_vmlatency ==
  /\ Goto("measure_vmlatency", "allocate_memory")
  /\ page' = [r \in Regions |-> None]
  /\ cnt' = 0
  /\ old_vmxe' = FALSE
  /\ our_vmxon' = FALSE
  /\ hs' = "host"
  /\ hostCpu' = None
  /\ n' = 0
  /\ i' = 0
  /\ vmlaunch_happened' = FALSE
  /\ lastEntry' = "none"
  /\ roundTrips' = TRUE
  /\ UNCHANGED <<machine, hardware, memory, cpu, irqsOff, hvOn>>

\* allocate_vmpage() succeeds for the next region: a zeroed page frame.  A
\* frame that some processor still holds as an active VMCS keeps the launch
\* state that processor has for it.
AllocatePage(p) ==
  LET r == AllocOrder[cnt + 1] IN
  /\ Goto("allocate_memory",
          IF cnt + 1 = 5 THEN "setup_revision_id" ELSE "allocate_memory")
  /\ p \in freePages
  /\ page' = [page EXCEPT ![r] = p]
  /\ cnt' = cnt + 1
  /\ freePages' = freePages \ {p}
  /\ revision' = [revision EXCEPT ![p] = {}]
  /\ launchState' =
       [launchState EXCEPT ![p] = IF activeOn[p] = None THEN "clear" ELSE @]
  /\ UNCHANGED <<machine, hardware, activeOn, cpu, irqsOff, old_vmxe,
                 our_vmxon, hs, hostCpu, loop, hvOn>>

\* allocate_vmpage() fails: allocate_memory() returns -cnt.
AllocationFails ==
  /\ AllocCanFail
  /\ Goto("allocate_memory", "out1")
  /\ cnt' = -cnt
  /\ UNCHANGED <<machine, hardware, memory, cpu, irqsOff, page, old_vmxe,
                 our_vmxon, hs, hostCpu, loop, hvOn>>

\* vmxon_setup_revision_id() and vmcs_setup_revision_id().
setup_revision_id ==
  LET id == get_vmcs_revision_identifier(machine.revision) IN
  /\ Goto("setup_revision_id", "preempt_disable")
  /\ revision' = [revision EXCEPT ![page["vmxon_region"]] = id,
                                  ![page["vmcs"]] = id]
  /\ UNCHANGED <<machine, hardware, freePages, activeOn, launchState, cpu,
                 irqsOff, monitor, loop, hvOn>>

-----------------------------------------------------------------------------
(***************************************************************************)
(* The critical section, run with interrupts masked on one processor.      *)
(***************************************************************************)

\* A mutant that leaves interrupts and preemption enabled.
MutNoDisable ==
  /\ Goto("preempt_disable", "vmxon")
  /\ UNCHANGED <<machine, hardware, memory, cpu, irqsOff, monitor, loop, hvOn>>

vmlatency_preempt_disable ==
  /\ Goto("preempt_disable", "vmxon")
  /\ irqsOff' = TRUE
  /\ UNCHANGED <<machine, hardware, memory, cpu, monitor, loop, hvOn>>

\* CF and ZF after VMXON with region p on processor c, CR4.VMXE being set.
VmxonFlags(c, p) ==
  IF vmxonRegion[c] # None
  THEN IF VmxonBusy = "as_decoded" THEN {CF, ZF}
       ELSE IF currentVmcs[c] # None THEN {ZF} ELSE {CF}
  ELSE IF revision[p] = machine.revision THEN {} ELSE {CF}

\* do_vmxon(): remember CR4.VMXE, set it, execute VMXON.  On failure the
\* error path skips do_vmxoff().  VMXON raises #GP unless the firmware has
\* enabled VMX.
do_vmxon ==
  LET p == page["vmxon_region"]
      flags == VmxonFlags(cpu, p)
      ret == __vmxon(machine.platform, flags)
  IN
  /\ pc = "vmxon"
  /\ old_vmxe' = vmxe[cpu]
  /\ vmxe' = [vmxe EXCEPT ![cpu] = TRUE]
  /\ \/ /\ ~VmxonAllowed(cpu)
        /\ pc' = "fault"
        /\ UNCHANGED <<vmxonRegion, currentVmcs, our_vmxon>>
     \/ /\ VmxonAllowed(cpu)
        /\ pc' = IF ret = -1 THEN "out2" ELSE "vmptrld"
        /\ our_vmxon' = IF ret = -1 THEN our_vmxon ELSE ret = 0
        /\ vmxonRegion' =
             IF flags = {} THEN [vmxonRegion EXCEPT ![cpu] = p]
             ELSE vmxonRegion
        /\ currentVmcs' =
             IF flags = {} THEN [currentVmcs EXCEPT ![cpu] = None]
             ELSE currentVmcs
  /\ UNCHANGED <<machine, dtLimit, memory, cpu, irqsOff, page, cnt, hs,
                 hostCpu, loop, hvOn>>

\* VMPTRLD refuses a region with the wrong revision identifier.
VmptrldFlags(p) == IF revision[p] = machine.revision THEN {} ELSE {ZF}

\* do_vmptrld(); outside VMX operation the instruction raises #UD.
do_vmptrld ==
  LET p == page["vmcs"] IN
  /\ pc = "vmptrld"
  /\ \/ /\ vmxonRegion[cpu] = None
        /\ pc' = "fault"
        /\ UNCHANGED <<currentVmcs, activeOn>>
     \/ /\ vmxonRegion[cpu] # None
        /\ __vmptrld(VmptrldFlags(p)) # 0
        /\ pc' = "out3"
        /\ UNCHANGED <<currentVmcs, activeOn>>
     \/ /\ vmxonRegion[cpu] # None
        /\ __vmptrld(VmptrldFlags(p)) = 0
        /\ pc' = "initialize_vmcs"
        /\ currentVmcs' = [currentVmcs EXCEPT ![cpu] = p]
        /\ activeOn' = [activeOn EXCEPT ![p] = cpu]
  /\ UNCHANGED <<machine, vmxe, vmxonRegion, dtLimit, freePages, revision,
                 launchState, cpu, irqsOff, monitor, loop, hvOn>>

\* initialize_vmcs() copies the state of this processor (segment, descriptor
\* table, TR, FS and GS bases, control registers, MSRs) into the VMCS, then
\* save_host_state() keeps GDTR and IDTR.
initialize_vmcs ==
  /\ Goto("initialize_vmcs", "vmlaunch")
  /\ hostCpu' = cpu
  /\ hs' = dtLimit[cpu]
  /\ UNCHANGED <<machine, hardware, memory, cpu, irqsOff, page, cnt, old_vmxe,
                 our_vmxon, loop, hvOn>>

\* Outcomes of VMLAUNCH and VMRESUME for the current VMCS v.  Both VMfail
\* without a current VMCS or in the wrong launch state.  VMLAUNCH may also
\* refuse the control or host fields (VMfail) or the guest fields (a VM exit
\* that reports an entry failure); VMRESUME finds the fields VMLAUNCH took.
LaunchOutcomes(v) ==
  IF v \in Pages /\ launchState[v] = "clear"
  THEN {"vmfail", "entry_failure", "cpuid", "other"} ELSE {"vmfail"}

ResumeOutcomes(v) ==
  IF v \in Pages /\ launchState[v] = "launched"
  THEN {"entry_failure", "cpuid", "other"} ELSE {"vmfail"}

\* Effect of a VM entry with outcome o: every outcome but VMfail ends in a
\* VM exit, which loads the host area and sets the GDTR and IDTR limits to
\* 0xffff; an entry that got past the checks makes the VMCS launched.
VmEntry(o) ==
  LET v == currentVmcs[cpu] IN
  /\ lastEntry' = o
  /\ dtLimit' = IF o = "vmfail" THEN dtLimit
                ELSE [dtLimit EXCEPT ![cpu] = "ffff"]
  /\ launchState' = IF o \in {"cpuid", "other"}
                    THEN [launchState EXCEPT ![v] = "launched"]
                    ELSE launchState

\* do_vmlaunch() returns 1 after a VMfail and 0 after any VM exit.
\* handle_vmexit() only prints, so an entry failure or an exit for another
\* reason than CPUID goes on to the measurement.
do_vmlaunch ==
  \E o \in LaunchOutcomes(currentVmcs[cpu]) :
    /\ Goto("vmlaunch", IF o = "vmfail" THEN "out4" ELSE "vmresume")
    /\ VmEntry(o)
    /\ vmlaunch_happened' = (o # "vmfail")
    /\ UNCHANGED <<machine, vmxe, vmxonRegion, currentVmcs, freePages,
                   revision, activeOn, cpu, irqsOff, monitor, n, i,
                   roundTrips, hvOn>>

\* A mutant that forgets ++i.
MutNoIncrement(k) == k

\* ++i
Increment(k) == k + 1

\* A mutant that runs one round too many, past the end of stats[].
MutOneRoundMore == n <= Iterations

\* n < VMX_ITERATIONS
MoreRounds == n < Iterations

\* One do_vmresume() of the measurement loop; its return value is ignored.
do_vmresume ==
  \E o \in ResumeOutcomes(currentVmcs[cpu]) :
    /\ Goto("vmresume", "vmresume")
    /\ MoreRounds
    /\ i < BIT(n)
    /\ i' = Increment(i)
    /\ VmEntry(o)
    /\ roundTrips' = (roundTrips /\ o = "cpuid")
    /\ UNCHANGED <<machine, vmxe, vmxonRegion, currentVmcs, freePages,
                   revision, activeOn, cpu, irqsOff, monitor, n,
                   vmlaunch_happened, hvOn>>

\* stats[n] is computed and the outer loop advances.
NextRound ==
  /\ Goto("vmresume", "vmresume")
  /\ MoreRounds
  /\ ~(i < BIT(n))
  /\ n' = n + 1
  /\ i' = 0
  /\ UNCHANGED <<machine, hardware, memory, cpu, irqsOff, monitor,
                 vmlaunch_happened, lastEntry, roundTrips, hvOn>>

LoopEnds ==
  /\ Goto("vmresume", "out4")
  /\ ~MoreRounds
  /\ UNCHANGED <<machine, hardware, memory, cpu, irqsOff, monitor, loop, hvOn>>

\* A mutant that forgets to reload GDTR and IDTR.
MutNoRestore ==
  /\ Goto("out4", "vmclear")
  /\ UNCHANGED <<machine, hardware, memory, cpu, irqsOff, monitor, loop, hvOn>>

\* restore_host_state() reloads GDTR and IDTR.
restore_host_state ==
  /\ Goto("out4", "vmclear")
  /\ dtLimit' = [dtLimit EXCEPT ![cpu] = hs]
  /\ UNCHANGED <<machine, vmxe, vmxonRegion, currentVmcs, memory, cpu,
                 irqsOff, monitor, loop, hvOn>>

\* A mutant that leaves the VMCS loaded and active.
MutNoVmclear ==
  /\ Goto("vmclear", "out3")
  /\ UNCHANGED <<machine, hardware, memory, cpu, irqsOff, monitor, loop, hvOn>>

\* do_vmclear(); its return value is ignored.  VMCLEAR makes the VMCS
\* inactive and clear, and no longer current; outside VMX operation it
\* raises #UD.
do_vmclear ==
  LET p == page["vmcs"] IN
  /\ pc = "vmclear"
  /\ \/ /\ vmxonRegion[cpu] = None
        /\ pc' = "fault"
        /\ UNCHANGED <<currentVmcs, activeOn, launchState>>
     \/ /\ vmxonRegion[cpu] # None
        /\ pc' = "out3"
        /\ currentVmcs' =
             [currentVmcs EXCEPT ![cpu] = IF @ = p THEN None ELSE @]
        /\ activeOn' = [activeOn EXCEPT ![p] = IF @ = cpu THEN None ELSE @]
        /\ launchState' = [launchState EXCEPT ![p] = "clear"]
  /\ UNCHANGED <<machine, vmxe, vmxonRegion, dtLimit, freePages, revision,
                 cpu, irqsOff, monitor, loop, hvOn>>

\* Mutants: VMXOFF whoever executed VMXON; CR4.VMXE left set.
MutAlwaysOff == TRUE
MutKeepVmxe == FALSE

\* The two conditions of do_vmxoff().
MustVmxoff == our_vmxon
MustClearVmxe == ~old_vmxe

\* do_vmxoff().  VMXOFF outside VMX operation raises #UD, clearing CR4.VMXE
\* inside it raises #GP.
do_vmxoff ==
  LET stillOn == vmxonRegion[cpu] # None /\ ~MustVmxoff IN
  /\ pc = "out3"
  /\ \/ /\ \/ MustVmxoff /\ vmxonRegion[cpu] = None
           \/ MustClearVmxe /\ stillOn
        /\ pc' = "fault"
        /\ UNCHANGED <<vmxe, vmxonRegion, currentVmcs>>
     \/ /\ MustVmxoff => vmxonRegion[cpu] # None
        /\ ~(MustClearVmxe /\ stillOn)
        /\ pc' = "out2"
        /\ vmxonRegion' = IF MustVmxoff
                          THEN [vmxonRegion EXCEPT ![cpu] = None]
                          ELSE vmxonRegion
        /\ currentVmcs' = IF MustVmxoff
                          THEN [currentVmcs EXCEPT ![cpu] = None]
                          ELSE currentVmcs
        /\ vmxe' = IF MustClearVmxe THEN [vmxe EXCEPT ![cpu] = FALSE] ELSE vmxe
  /\ UNCHANGED <<machine, dtLimit, memory, cpu, irqsOff, monitor, loop, hvOn>>

vmlatency_preempt_enable ==
  /\ Goto("out2", "out1")
  /\ irqsOff' = FALSE
  /\ UNCHANGED <<machine, hardware, memory, cpu, monitor, loop, hvOn>>

-----------------------------------------------------------------------------
(***************************************************************************)
(* After the critical section.                                             *)
(***************************************************************************)

\* free_memory(): free_vmpage() of a region without a page dereferences NULL.
free_memory ==
  LET R == FreedRegions(cnt) IN
  /\ pc = "out1"
  /\ \/ /\ \E r \in R : page[r] = None
        /\ pc' = "fault"
        /\ UNCHANGED <<freePages, page>>
     \/ /\ \A r \in R : page[r] # None
        /\ pc' = "report"
        /\ freePages' = freePages \cup {page[r] : r \in R}
        /\ page' = [r \in Regions |-> IF r \in R THEN None ELSE page[r]]
  /\ UNCHANGED <<machine, hardware, revision, activeOn, launchState, cpu,
                 irqsOff, cnt, old_vmxe, our_vmxon, hs, hostCpu, loop, hvOn>>

\* Print stats[] if vmlaunch_happened; the init routine returns success.
report ==
  /\ Goto("report", "loaded")
  /\ UNCHANGED <<machine, hardware, memory, cpu, irqsOff, monitor, loop, hvOn>>

-----------------------------------------------------------------------------
(***************************************************************************)
(* The environment.                                                        *)
(***************************************************************************)

\* The scheduler moves the thread while preemption is enabled.
Migrate(c) ==
  /\ ~irqsOff
  /\ pc \notin {"unloaded", "loaded", "fault"}
  /\ cpu' = c
  /\ UNCHANGED <<machine, hardware, memory, pc, irqsOff, monitor, loop, hvOn>>

\* The other hypervisor reaches processor c by a thread or an interrupt.
Reachable(c) == ~(irqsOff /\ cpu = c)

\* It sets CR4.VMXE and executes VMXON,
HvEnable(c) ==
  /\ Reachable(c) /\ VmxonAllowed(c)
  /\ ~hvOn[c] /\ vmxonRegion[c] = None
  /\ hvOn' = [hvOn EXCEPT ![c] = TRUE]
  /\ vmxe' = [vmxe EXCEPT ![c] = TRUE]
  /\ vmxonRegion' = [vmxonRegion EXCEPT ![c] = Hv]
  /\ currentVmcs' = [currentVmcs EXCEPT ![c] = None]
  /\ UNCHANGED <<machine, dtLimit, memory, pc, cpu, irqsOff, monitor, loop>>

\* loads a VMCS of its own,
HvLoadVmcs(c) ==
  /\ Reachable(c)
  /\ hvOn[c] /\ vmxonRegion[c] = Hv
  /\ currentVmcs' = [currentVmcs EXCEPT ![c] = Hv]
  /\ UNCHANGED <<machine, vmxe, vmxonRegion, dtLimit, memory, pc, cpu,
                 irqsOff, monitor, loop, hvOn>>

\* and leaves VMX operation again.
HvDisable(c) ==
  /\ Reachable(c)
  /\ hvOn[c] /\ vmxonRegion[c] = Hv
  /\ hvOn' = [hvOn EXCEPT ![c] = FALSE]
  /\ vmxe' = [vmxe EXCEPT ![c] = FALSE]
  /\ vmxonRegion' = [vmxonRegion EXCEPT ![c] = None]
  /\ currentVmcs' = [currentVmcs EXCEPT ![c] = None]
  /\ UNCHANGED <<machine, dtLimit, memory, pc, cpu, irqsOff, monitor, loop>>

-----------------------------------------------------------------------------
\* The steps of the init routine once the module is being loaded.
Thread ==
  \/ vmx_enabled \/ print_vmx_info \/ measure_vmlatency
  \/ (\E p \in Pages : AllocatePage(p)) \/ AllocationFails
  \/ setup_revision_id \/ vmlatency_preempt_disable
  \/ do_vmxon \/ do_vmptrld \/ initialize_vmcs
  \/ do_vmlaunch \/ do_vmresume \/ NextRound \/ LoopEnds
  \/ restore_host_state \/ do_vmclear \/ do_vmxoff
  \/ vmlatency_preempt_enable \/ free_memory \/ report

Environment ==
  \E c \in Cpus : Migrate(c) \/ HvEnable(c) \/ HvLoadVmcs(c) \/ HvDisable(c)

\* After an unhandled exception in the kernel the machine stops.
Crashed == pc = "fault" /\ UNCHANGED vars

Next == module_init \/ Thread \/ module_exit \/ Environment \/ Crashed

Spec == Init /\ [][Next]_vars

\* Nothing can stop the thread while interrupts are masked, and the
\* scheduler runs it otherwise.  Loading, unloading and the other hypervisor
\* owe no progress.
FairSpec == Spec /\ WF_vars(Thread)

-----------------------------------------------------------------------------
(***************************************************************************)
(* Properties.                                                             *)
(***************************************************************************)

\* Labels between vmlatency_preempt_disable() and _enable().
MaskedLabels == {"vmxon", "vmptrld", "initialize_vmcs", "vmlaunch",
                 "vmresume", "out4", "vmclear", "out3", "out2"}

\* Type correctness.  The bound on n is that of stats[VMX_ITERATIONS]: the
\* measurement loop never stores past its end.
TypeOK ==
  /\ machine \in Machines
  /\ vmxe \in [Cpus -> BOOLEAN]
  /\ vmxonRegion \in [Cpus -> Pages \cup {Hv, None}]
  /\ currentVmcs \in [Cpus -> Pages \cup {Hv, None}]
  /\ dtLimit \in [Cpus -> {"host", "ffff"}]
  /\ freePages \subseteq Pages
  /\ revision \in [Pages -> SUBSET (0..31)]
  /\ activeOn \in [Pages -> Cpus \cup {None}]
  /\ launchState \in [Pages -> {"clear", "launched"}]
  /\ pc \in Labels
  /\ cpu \in Cpus
  /\ irqsOff \in BOOLEAN
  /\ page \in [Regions -> Pages \cup {None}]
  /\ cnt \in -4..5
  /\ old_vmxe \in BOOLEAN /\ our_vmxon \in BOOLEAN
  /\ hs \in {"host", "ffff"}
  /\ hostCpu \in Cpus \cup {None}
  /\ n \in 0..Iterations /\ i \in Nat
  /\ vmlaunch_happened \in BOOLEAN
  /\ lastEntry \in EntryOutcomes
  /\ roundTrips \in BOOLEAN
  /\ hvOn \in [Cpus -> BOOLEAN]

\* The only fault (#UD, #GP, NULL dereference) the driver can meet is that of
\* a processor whose firmware refuses VMX, and behind vmx_enabled() only when
\* some other processor does allow it: the check was made before the thread
\* moved.  Every VMX instruction executes in the mode it needs, on every error
\* path, whatever the other hypervisor did before interrupts were masked.
FaultsExplained ==
  pc = "fault" =>
    /\ ~VmxonAllowed(cpu)
    /\ machine.platform # "win" => \E c \in Cpus : VmxonAllowed(c)

\* No instruction of the driver faults, where the firmware treats all
\* processors alike and has been asked, or has enabled VMX.
NoFault == pc # "fault"

\* The driver never ends the VMX operation of another hypervisor: our_vmxon
\* tells its own VMXON from somebody else's.
HypervisorKept == \A c \in Cpus : hvOn[c] => vmxonRegion[c] = Hv

\* The Windows build leaves a hypervisor it meets alone: while that one is
\* on, neither its VMX operation nor the VMCS it has loaded is replaced
\* (VMPTRLD would do so, and nothing would load it again).
HypervisorUndisturbed ==
  [][machine.platform = "win" =>
       \A c \in Cpus : hvOn[c] /\ hvOn'[c] =>
         /\ vmxonRegion'[c] = vmxonRegion[c]
         /\ currentVmcs[c] = Hv => currentVmcs'[c] = Hv]_vars

\* Whenever interrupts are not masked on a processor, its CR4.VMXE is what
\* the other hypervisor made it: "Set CR4.VMXE if necessary" in do_vmxon() is
\* undone on every path out of the critical section.
Cr4Restored ==
  \A c \in Cpus : Reachable(c) => (vmxe[c] <=> hvOn[c])

\* Whenever interrupts are not masked on a processor, its GDTR and IDTR
\* limits are the kernel's, although every VM exit sets them to 0xffff.
DescriptorTablesRestored ==
  \A c \in Cpus : Reachable(c) => dtLimit[c] = "host"

\* A page the driver has given back to the kernel is not referenced by any
\* processor: neither as VMXON region, nor as current VMCS, nor as an active
\* VMCS whose cached data may be written back later.
NoDanglingHardwareReference ==
  \A p \in freePages :
    /\ activeOn[p] = None
    /\ \A c \in Cpus : vmxonRegion[c] # p /\ currentVmcs[c] # p

\* A VM entry always runs the driver's own VMCS, active on the processor
\* that executes it, with a host area that describes that processor (TR, GS
\* base and GDTR are per processor: another one's would be fatal after the
\* VM exit).
EntryUsesOwnVmcs ==
  pc \in {"vmlaunch", "vmresume"} =>
    /\ currentVmcs[cpu] = page["vmcs"]
    /\ activeOn[page["vmcs"]] = cpu
    /\ hostCpu = cpu

\* After do_vmlaunch() or do_vmresume() got into the guest, no later
\* do_vmresume() fails early: the loop times VM entries, not VMfails.
ResumeStaysLaunched ==
  [][(lastEntry \in {"cpuid", "other"}) => lastEntry' # "vmfail"]_vars

\* Outside measure_vmlatency() the driver owns no page: free_memory() gives
\* back everything allocate_memory() took.
PagesReleased == pc \in {"unloaded", "loaded"} => freePages = Pages

\* When statistics are printed, every VM entry that was timed was a round
\* trip to the guest's CPUID and back.
StatsAreRoundTrips == pc = "report" /\ vmlaunch_happened => roundTrips

\* Interrupts never stay masked: the measurement loop and every error path
\* reach vmlatency_preempt_enable().
InterruptsReenabled == irqsOff ~> ~irqsOff

\* Loading the driver returns to the caller of the init routine.
LoadReturns == pc = "measure_vmlatency" ~> pc = "loaded"

-----------------------------------------------------------------------------
(***************************************************************************)
(* The driver as a borrower of processors.  What was lent is what the      *)
(* other hypervisor made of the processor.                                 *)
(***************************************************************************)
CpuView(c) == <<vmxe[c], vmxonRegion[c], dtLimit[c]>>

LentView(c) == IF hvOn[c] THEN <<TRUE, Hv, "host">>
               ELSE <<FALSE, None, "host">>

Loan == INSTANCE ProcessorLoan WITH
          States <- BOOLEAN \X (Pages \cup {Hv, None}) \X {"host", "ffff"},
          Legitimate <- {<<TRUE, Hv, "host">>, <<FALSE, None, "host">>},
          Nothing <- None,
          state <- [c \in Cpus |-> CpuView(c)],
          borrower <- IF irqsOff THEN cpu ELSE None,
          lent <- IF irqsOff THEN LentView(cpu) ELSE None

\* The driver keeps the promise of ProcessorLoan: one processor at a time,
\* nothing else touched, given back as found.
LoanKept == Loan!Spec

-----------------------------------------------------------------------------
(***************************************************************************)
(* The inductive invariant: what each point of measure_vmlatency() knows   *)
(* about the processor and the pages it holds.                             *)
(***************************************************************************)

\* Points at which VMXON has succeeded, or found VMX operation on.
VmxOnLabels == {"vmptrld", "initialize_vmcs", "vmlaunch", "vmresume", "out4",
                "vmclear", "out3"}

\* Points at which VMPTRLD has succeeded and VMCLEAR has not happened.
VmcsLabels == {"initialize_vmcs", "vmlaunch", "vmresume", "out4", "vmclear"}

\* Points at which all five pages are allocated.
OwnedLabels == MaskedLabels \cup {"setup_revision_id", "preempt_disable"}

MaskInv ==
  /\ pc \in MaskedLabels => irqsOff
  /\ irqsOff => pc \in MaskedLabels \cup {"fault"}

PageInv ==
  /\ \A r \in Regions : page[r] \notin freePages
  /\ \A r, s \in Regions : page[r] = page[s] /\ page[r] # None => r = s
  /\ pc = "allocate_memory" =>
       /\ cnt \in 0..4
       /\ \A k \in 1..cnt : page[AllocOrder[k]] # None
  /\ pc \in OwnedLabels => cnt = 5 /\ \A r \in Regions : page[r] # None
  /\ pc = "out1" => \/ cnt <= 0
                    \/ cnt = 5 /\ \A r \in Regions : page[r] # None

\* Hardware refers to pages of the driver only on the processor it has
\* borrowed, and only to its VMXON region and its VMCS.
HardwareInv ==
  /\ \A c \in Cpus : vmxonRegion[c] \in Pages =>
       /\ irqsOff /\ c = cpu /\ our_vmxon
       /\ vmxonRegion[c] = page["vmxon_region"]
       /\ pc \in VmxOnLabels \cup {"fault"}
  /\ \A c \in Cpus : currentVmcs[c] \in Pages =>
       /\ irqsOff /\ c = cpu
       /\ currentVmcs[c] = page["vmcs"]
       /\ pc \in VmcsLabels \cup {"fault"}
  /\ \A p \in Pages : activeOn[p] # None =>
       /\ irqsOff /\ activeOn[p] = cpu
       /\ p = page["vmcs"]
       /\ pc \in VmcsLabels \cup {"fault"}
  /\ pc \in VmcsLabels =>
       currentVmcs[cpu] = page["vmcs"] /\ activeOn[page["vmcs"]] = cpu

\* VMX operation is entered and left with CR4.VMXE set.
VmxOnInv ==
  /\ \A c \in Cpus : vmxonRegion[c] # None => vmxe[c]
  /\ pc \in VmxOnLabels =>
       /\ vmxonRegion[cpu] # None
       /\ our_vmxon \/ old_vmxe

HostStateInv ==
  /\ \A c \in Cpus : dtLimit[c] # "host" =>
       irqsOff /\ c = cpu /\ pc \in {"vmresume", "out4", "fault"}
  /\ pc \in {"vmlaunch", "vmresume", "out4"} => hs = "host" /\ hostCpu = cpu

LaunchInv ==
  /\ pc \in {"allocate_memory", "setup_revision_id", "preempt_disable",
             "vmxon", "vmptrld", "initialize_vmcs", "vmlaunch"} =>
       lastEntry = "none"
  /\ pc = "vmresume" /\ lastEntry \in {"cpuid", "other"} =>
       launchState[page["vmcs"]] = "launched"

\* What every point of the driver may rely on: the conjunction that each
\* step preserves and from which the safety properties follow.
DriverInv == /\ TypeOK
             /\ MaskInv
             /\ PageInv
             /\ HardwareInv
             /\ VmxOnInv
             /\ HostStateInv
             /\ LaunchInv

-----------------------------------------------------------------------------
(***************************************************************************)
(* Hypotheses under which the remaining properties hold, and the           *)
(* invariants, inductive relative to DriverInv, that show it.              *)
(***************************************************************************)

\* On every machine the firmware has enabled VMX, or it treats all processors
\* alike and the build asks vmx_enabled().
FirmwareChecked ==
  \A m \in Machines :
    \/ m.vmx /\ \A c \in Cpus : FeatureControlBits \subseteq m.featureControl[c]
    \/ /\ m.platform # "win"
       /\ \A c, d \in Cpus : m.featureControl[c] = m.featureControl[d]

FaultInv ==
  /\ FaultsExplained
  /\ pc \notin {"unloaded", "vmx_enabled", "loaded"} /\ machine.platform # "win"
       => \E c \in Cpus : VmxonAllowed(c)

\* __vmxon() returns 0 only when its own VMXON entered VMX operation: on this
\* machine, on every machine.
Recognised == VmxonBusy = "as_decoded" \/ machine.platform = "win"

BusyRecognised ==
  VmxonBusy = "as_decoded" \/ \A m \in Machines : m.platform = "win"

HypervisorInv ==
  Recognised =>
    /\ HypervisorKept
    /\ pc \in VmxOnLabels /\ our_vmxon => vmxonRegion[cpu] \in Pages
    /\ pc \in VmxOnLabels /\ machine.platform = "win" => our_vmxon

\* No revision identifier has one of the bits 0x8fffffff drops.
RevisionsKept ==
  \A m \in Machines : get_vmcs_revision_identifier(m.revision) = m.revision

Cr4Inv ==
  /\ Cr4Restored
  /\ \A c \in Cpus : vmxonRegion[c] = Hv => hvOn[c]
  /\ pc \in {"preempt_disable", "vmxon"} =>
       revision[page["vmxon_region"]] = machine.revision
  /\ pc \in {"vmxon", "out2"} => (vmxe[cpu] <=> hvOn[cpu])
  /\ pc \in VmxOnLabels => (old_vmxe <=> hvOn[cpu])

\* Every page is free or held by vm_monitor_t, and outside
\* measure_vmlatency() nothing is held.
OwnershipInv ==
  /\ \A q \in Pages : q \in freePages \/ \E r \in Regions : page[r] = q
  /\ pc \in {"unloaded", "vmx_enabled", "print_vmx_info",
             "measure_vmlatency", "report", "loaded"} =>
       \A r \in Regions : page[r] = None
  /\ pc = "allocate_memory" =>
       \A k \in 1..5 : k > cnt => page[AllocOrder[k]] = None
  /\ pc = "out1" => cnt = 5

=============================================================================
