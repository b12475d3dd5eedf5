-------------------------- MODULE VmcsStateProofs --------------------------
(***************************************************************************)
(* For every register file the processor can have before the measurement   *)
(* (HostAssumption), any number of VM entries and exits leaves the kernel *)
(* with its context, on the right stack, and disturbs only what a VM exit  *)
(* forces and the masked selector bits.                                    *)
(***************************************************************************)
EXTENDS VmcsState, TLAPS

\* Before the VMCS is initialized, and before the loop of VM entries.
Early == {"initialize_vmcs", "save_host_state"}

\* What initialize_vmcs() and save_host_state() took from the registers stays
\* there, but for HOST_RSP.
AreasInv ==
  /\ pc # "initialize_vmcs" =>
       /\ \A r \in Context \ {"SYSENTER_EIP"} : guest[r] = before[r]
       /\ \A r \in Rights : before[Segment[r]].index # "null" => guest[r] = before[r]
       /\ \A r \in Registers \ {"RSP"} : host[r] = HostArea(before)[r]
  /\ pc \notin Early =>
       hs = [gdt |-> <<before["GDTR_BASE"], before["GDTR_LIMIT"]>>,
             idt |-> <<before["IDTR_BASE"], before["IDTR_LIMIT"]>>]

\* The value of register r outside the guest: the one from before, or what a
\* VM exit or vmlatency_preempt_enable() makes of it.
Explained(r) ==
  \/ regs[r] = before[r]
  \/ r \in DOMAIN Forced /\ regs[r] = Forced[r]
  \/ r \in Selectors /\ regs[r] = Masked(before[r])
  \/ r = "RFLAGS" /\ regs[r] = flags

\* The registers at each step.
RegsInv ==
  /\ pc \in Early => regs = before
  /\ pc = "guest" => regs = guest /\ host["RSP"] = frame
  /\ pc # "guest" =>
       regs["RSP"] = frame /\ \A r \in Registers \ {"RSP"} : Explained(r)
  /\ pc \in {"out2", "out1"} =>
       \A r \in {"GDTR_LIMIT", "IDTR_LIMIT"} : regs[r] = before[r]
  /\ pc = "out1" => regs["RFLAGS"] = flags

\* The processor before measurement.
Machine == [gdt |-> gdt, regs |-> before]

\* The inductive invariant.
VmcsInv ==
  /\ HostAssumption(Machine)
  /\ pc \in Early \cup {"entry", "guest", "out4", "out2", "out1"}
  /\ regs = [r \in Registers |-> regs[r]]
  /\ host = [r \in Registers |-> host[r]]
  /\ guest = [r \in Registers |-> guest[r]]
  /\ AreasInv
  /\ RegsInv

-----------------------------------------------------------------------------
\* Masking changes no selector of the kernel's own segments.
LEMMA MaskedKernel ==
  ASSUME HostAssumption(Machine), NEW r \in {"CS", "SS", "TR"}
  PROVE  Masked(before[r]) = before[r]
BY DEF HostAssumption, Machine, Masked, SelectorValues, Selectors

\* The base that initialize_vmcs() puts together is the one the processor uses.
LEMMA TrbaseExact == \A d \in Descriptors : trbase(d) = LoadedBase(d)
<1> SUFFICES ASSUME NEW d \in Descriptors, NEW b PROVE b \in trbase(d) <=> b \in LoadedBase(d)
  BY DEF trbase, LoadedBase, Field
<1>1. b \in Field(d, 16, 39, 0) <=> b \in 0..23 /\ b + 16 \in d
  BY DEF Field
<1>2. b \in Field(d, 56, 63, 24) <=> b \in 24..31 /\ b + 32 \in d
  BY DEF Field
<1>3. b \in Field(d, 64, 95, 32) <=> b \in 32..63 /\ b + 32 \in d
  BY DEF Field
<1> QED
  BY <1>1, <1>2, <1>3 DEF trbase, LoadedBase

\* get_segment_ar() drops whatever LAR leaves in its undefined bits.
LEMMA RightsExact ==
  \A d \in Descriptors, X \in SUBSET (16..19) : get_segment_ar(LAR(d, X)) = LoadedRights(d)
<1> SUFFICES ASSUME NEW d \in Descriptors, NEW X \in SUBSET (16..19), NEW b
             PROVE  b \in get_segment_ar(LAR(d, X)) <=> b \in LoadedRights(d)
  BY DEF get_segment_ar, LoadedRights
<1>1. b \in get_segment_ar(LAR(d, X)) <=>
        b \in (0..7) \cup (12..15) /\ b + 8 \in LAR(d, X)
  BY DEF get_segment_ar, Field
<1>2. ASSUME b \in (0..7) \cup (12..15) PROVE b + 8 \in LAR(d, X) <=> b + 40 \in d
  BY <1>2 DEF LAR
<1> QED
  BY <1>1, <1>2 DEF LoadedRights

\* VmcsInv holds when the VMCS has not been initialized.
LEMMA InitVmcsInv == Init => VmcsInv
<1> SUFFICES ASSUME Init PROVE VmcsInv
  OBVIOUS
<1>1. HostAssumption(Machine)
  BY HostsAssumption DEF Init, HostAssumption, Machine
<1>2. /\ regs = [r \in Registers |-> regs[r]]
      /\ host = [r \in Registers |-> host[r]]
      /\ guest = [r \in Registers |-> guest[r]]
  BY <1>1 DEF Init, Blank, HostAssumption, Machine
<1>3. AreasInv /\ RegsInv
  BY DEF Init, AreasInv, RegsInv, Early, Explained
<1> QED
  BY <1>1, <1>2, <1>3 DEF VmcsInv, Init, Early

\* What a VM exit leaves: the value the host area took from the register,
\* masked for a selector, or the forced one.
LEMMA ExitExplained ==
  ASSUME VmcsInv, AreasInv', regs' = AfterExit(host'), pc' = "entry",
         UNCHANGED <<gdt, before>>
  PROVE  /\ regs' = [r \in Registers |-> regs'[r]]
         /\ regs'["RSP"] = host'["RSP"]
         /\ \A r \in Registers \ {"RSP"} : Explained(r)'
<1>1. regs' = [r \in Registers |-> regs'[r]]
  BY DEF AfterExit
<1>2. regs'["RSP"] = host'["RSP"]
  BY DEF AfterExit, Registers, Forced
<1>3. ASSUME NEW r \in Registers \ {"RSP"} PROVE Explained(r)'
  <2>1. CASE r \in DOMAIN Forced
    BY <2>1 DEF Explained, AfterExit
  <2>2. CASE r \notin DOMAIN Forced
    <3>1. regs'[r] = HostArea(before)[r]
      BY <2>2 DEF AfterExit, AreasInv, HostArea
    <3>2. r \in Selectors \cup HostValues
      BY <2>2 DEF Registers, GuestOnly, Rights, Forced
    <3>3. trbase(gdt[before["TR"].index]) = before["TR_BASE"]
      BY TrbaseExact DEF VmcsInv, HostAssumption, Machine, Selectors
    <3>4. regs'[r] = before[r] \/ (r \in Selectors /\ regs'[r] = Masked(before[r]))
      BY <3>1, <3>2, <3>3 DEF HostArea
    <3> QED
      BY <3>4 DEF Explained
  <2> QED
    BY <2>1, <2>2
<1> QED
  BY <1>1, <1>2, <1>3

\* Every step preserves VmcsInv.
LEMMA NextVmcsInv == VmcsInv /\ [Next]_vars => VmcsInv'
<1> SUFFICES ASSUME VmcsInv, [Next]_vars PROVE VmcsInv'
  OBVIOUS
<1> USE DEF VmcsInv, Machine
<1>1. CASE initialize_vmcs
  <2> USE <1>1 DEF initialize_vmcs, Early
  <2>1. regs = before /\ regs["RSP"] = frame
    BY DEF RegsInv
  <2>2. PICK attrs : /\ guest' = GuestArea(before, attrs)
                     /\ attrs["CS_AR"] \in __lar(before["CS"])
                     /\ attrs["SS_AR"] \in __lar(before["SS"])
                     /\ attrs["TR_AR"] \in __lar(before["TR"])
    BY <2>1
  <2>3. /\ host' = [r \in Registers |-> host'[r]]
        /\ guest' = [r \in Registers |-> guest'[r]]
    BY <2>2 DEF HostArea, GuestArea
  <2>4. ASSUME NEW r \in Context \ {"SYSENTER_EIP"} PROVE guest'[r] = before[r]
    <3>1. /\ r \in Registers \ Rights
          /\ r \notin {"SYSENTER_EIP", "DR7", "DEBUGCTL", "RSP"}
      BY DEF Context, Registers, Selectors, HostValues, GuestOnly, Rights
    <3>2. CASE r = "TR"
      BY <2>2, <3>1, <3>2, MaskedKernel DEF GuestArea
    <3>3. CASE r = "TR_BASE"
      BY <2>2, <3>1, <3>3, TrbaseExact
      DEF GuestArea, HostAssumption, Machine, Selectors
    <3>4. CASE r \notin {"TR", "TR_BASE"}
      BY <2>2, <3>1, <3>4 DEF GuestArea
    <3> QED
      BY <3>2, <3>3, <3>4
  <2>5. ASSUME NEW r \in Rights, before[Segment[r]].index # "null"
        PROVE  guest'[r] = before[r]
    <3>1. /\ r \in Registers
          /\ Segment[r] \in Selectors
          /\ before[Segment[r]].index = Segment[r]
      BY <2>5 DEF Rights, Registers, GuestOnly, Segment, Selectors, HostAssumption, Machine
    <3>2. attrs[r] \in __lar(before[Segment[r]])
      BY <2>2 DEF Rights, Segment
    <3>3. PICK X \in SUBSET (16..19) : attrs[r] = LAR(gdt[Segment[r]], X)
      BY <2>5, <3>1, <3>2 DEF __lar
    <3>4. gdt[Segment[r]] \in Descriptors /\ before[r] = LoadedRights(gdt[Segment[r]])
      BY <2>5, <3>1 DEF HostAssumption, Machine
    <3>5. guest'[r] = get_segment_ar(attrs[r])
      BY <2>2, <3>1 DEF GuestArea, Rights
    <3> QED
      BY <3>3, <3>4, <3>5, RightsExact
  <2>6. AreasInv'
    BY <2>1, <2>4, <2>5 DEF AreasInv, HostArea
  <2>7. RegsInv'
    BY <2>1 DEF RegsInv, Explained
  <2> QED
    BY <2>3, <2>6, <2>7
<1>2. CASE save_host_state
  <2> USE <1>2 DEF save_host_state, Early
  <2>1. regs = before
    BY DEF RegsInv
  <2>2. AreasInv'
    BY <2>1 DEF AreasInv, HostArea, __get_gdt, __get_idt
  <2>3. RegsInv'
    BY DEF RegsInv, Explained
  <2> QED
    BY <2>2, <2>3
<1>3. ASSUME NEW rsp \in Frames, VmEntry(rsp) PROVE VmcsInv'
  <2> USE <1>3 DEF VmEntry, Early
  <2>1. /\ host'["RSP"] = rsp
        /\ \A r \in Registers \ {"RSP"} : host'[r] = host[r]
        /\ host' = [r \in Registers |-> host'[r]]
    BY DEF vmentry_prepare, Registers
  <2>2. AreasInv'
    BY <2>1 DEF AreasInv, HostArea
  <2>3. regs' = [r \in Registers |-> regs'[r]]
    OBVIOUS
  <2>4. RegsInv'
    BY <2>1 DEF RegsInv
  <2> QED
    BY <2>1, <2>2, <2>3, <2>4
<1>4. CASE VmExit
  <2> USE <1>4 DEF VmExit, Early
  <2>1. AreasInv'
    BY DEF AreasInv, HostArea
  <2>2. /\ regs' = [r \in Registers |-> regs'[r]]
        /\ regs'["RSP"] = host'["RSP"]
        /\ \A r \in Registers \ {"RSP"} : Explained(r)'
    <3>1. regs' = AfterExit(host')
      BY DEF AfterExit
    <3> QED
      BY <2>1, <3>1, ExitExplained
  <2>3. RegsInv'
    BY <2>2 DEF RegsInv
  <2> QED
    BY <2>1, <2>2, <2>3
<1>9. ASSUME NEW rsp \in Frames, EntryFailure(rsp) PROVE VmcsInv'
  <2> USE <1>9 DEF EntryFailure, Early
  <2>1. /\ host'["RSP"] = rsp
        /\ \A r \in Registers \ {"RSP"} : host'[r] = host[r]
        /\ host' = [r \in Registers |-> host'[r]]
    BY DEF vmentry_prepare, Registers
  <2>2. AreasInv'
    BY <2>1 DEF AreasInv, HostArea
  <2>3. /\ regs' = [r \in Registers |-> regs'[r]]
        /\ regs'["RSP"] = host'["RSP"]
        /\ \A r \in Registers \ {"RSP"} : Explained(r)'
    BY <2>2, ExitExplained
  <2>4. RegsInv'
    BY <2>1, <2>3 DEF RegsInv
  <2> QED
    BY <2>1, <2>2, <2>3, <2>4
<1>5. CASE LeaveLoop
  BY <1>5 DEF LeaveLoop, Early, AreasInv, HostArea, RegsInv, Explained
<1>6. CASE restore_host_state
  <2> USE <1>6 DEF restore_host_state, Early
  <2>1. AreasInv'
    BY DEF AreasInv, HostArea
  <2>2. /\ hs.gdt[1] = before["GDTR_BASE"] /\ hs.gdt[2] = before["GDTR_LIMIT"]
        /\ hs.idt[1] = before["IDTR_BASE"] /\ hs.idt[2] = before["IDTR_LIMIT"]
    BY DEF AreasInv
  <2> DEFINE tables == {"GDTR_BASE", "GDTR_LIMIT", "IDTR_BASE", "IDTR_LIMIT"}
  <2>3. /\ regs' = [r \in Registers |-> regs'[r]]
        /\ \A r \in Registers \ tables : regs'[r] = regs[r]
        /\ \A r \in tables : regs'[r] = before[r]
    BY <2>2 DEF Restored, __set_gdt, __set_idt, Registers, HostValues, GuestOnly
  <2>4. regs'["RSP"] = frame' /\ \A r \in Registers \ {"RSP"} : Explained(r)'
    BY <2>3 DEF RegsInv, Explained, Registers
  <2>5. RegsInv'
    BY <2>3, <2>4 DEF RegsInv
  <2> QED
    BY <2>1, <2>3, <2>5
<1>7. CASE vmlatency_preempt_enable
  <2> USE <1>7 DEF vmlatency_preempt_enable, Early
  <2>1. AreasInv'
    BY DEF AreasInv, HostArea
  <2>2. /\ regs' = [r \in Registers |-> regs'[r]]
        /\ regs'["RFLAGS"] = flags
        /\ \A r \in Registers \ {"RFLAGS"} : regs'[r] = regs[r]
    BY DEF Registers, GuestOnly
  <2>3. regs'["RSP"] = frame' /\ \A r \in Registers \ {"RSP"} : Explained(r)'
    BY <2>2 DEF RegsInv, Explained, Registers
  <2>4. RegsInv'
    BY <2>2, <2>3 DEF RegsInv, Registers, GuestOnly
  <2> QED
    BY <2>1, <2>2, <2>4
<1>8. CASE UNCHANGED vars
  BY <1>8 DEF vars, Early, AreasInv, HostArea, RegsInv, Explained
<1> QED
  BY <1>1, <1>2, <1>3, <1>4, <1>5, <1>6, <1>7, <1>8, <1>9 DEF Next, Done

\* VmcsInv holds throughout the measurement.
LEMMA VmcsInvariant == Spec => []VmcsInv
BY InitVmcsInv, NextVmcsInv, PTL DEF Spec

-----------------------------------------------------------------------------
\* The registers without which kernel code cannot go on have their values
\* back when vmlatency_preempt_enable() unmasks interrupts, after any number
\* of VM entries.
THEOREM ContextComesBack == Spec => []ContextRestored
<1>1. ASSUME VmcsInv PROVE ContextRestored
  <2> SUFFICES ASSUME pc \in {"out2", "out1"}, NEW r \in Context
               PROVE  regs[r] = before[r]
    BY DEF ContextRestored
  <2>1. CASE r \in {"GDTR_LIMIT", "IDTR_LIMIT"}
    BY <1>1, <2>1 DEF VmcsInv, RegsInv
  <2>2. CASE r \in HostValues \cup {"CS", "SS", "TR"}
    <3>1. r \in Registers \ {"RSP"} /\ r \notin DOMAIN Forced /\ r # "RFLAGS"
      BY <2>2 DEF Registers, Selectors, HostValues, Forced
    <3>2. r \in Selectors => r \in {"CS", "SS", "TR"}
      BY <2>2 DEF Selectors, HostValues
    <3>3. Explained(r)
      BY <1>1, <3>1 DEF VmcsInv, RegsInv
    <3> QED
      BY <1>1, <3>1, <3>2, <3>3, MaskedKernel DEF Explained, VmcsInv
  <2> QED
    BY <2>1, <2>2 DEF Context
<1> QED
  BY <1>1, VmcsInvariant, PTL

\* On a host where the forced values and the masking change nothing, every
\* register is back at the end.
THEOREM QuietHostUntouched == Spec => []QuietHostRestored
<1>1. ASSUME VmcsInv PROVE QuietHostRestored
  <2> SUFFICES ASSUME pc = "out1", Quiet(before),
                      NEW r \in Registers \ (Rights \cup {"RSP"})
               PROVE  regs[r] = IF r = "RFLAGS" THEN flags ELSE before[r]
    BY DEF QuietHostRestored
  <2>1. CASE r = "RFLAGS"
    BY <1>1, <2>1 DEF VmcsInv, RegsInv
  <2>2. CASE r \in {"GDTR_LIMIT", "IDTR_LIMIT"}
    BY <1>1, <2>2 DEF VmcsInv, RegsInv
  <2>3. CASE r \notin {"RFLAGS", "GDTR_LIMIT", "IDTR_LIMIT"}
    <3>1. Explained(r)
      BY <1>1 DEF VmcsInv, RegsInv
    <3>2. r \in DOMAIN Forced => before[r] = Forced[r]
      BY <2>3 DEF Quiet, Forced, Rights
    <3>3. r \in Selectors => Masked(before[r]) = before[r]
      BY <1>1 DEF Quiet, VmcsInv, HostAssumption, Machine, Masked, SelectorValues
    <3> QED
      BY <2>3, <3>1, <3>2, <3>3 DEF Explained
  <2> QED
    BY <2>1, <2>2, <2>3
<1> QED
  BY <1>1, VmcsInvariant, PTL

\* Every VM exit returns on the stack of the call of do_vmlaunch() or
\* do_vmresume() that entered the guest.
THEOREM StackIsOwn == Spec => []ReturnsOnOwnStack
<1>1. VmcsInv => ReturnsOnOwnStack
  BY DEF VmcsInv, RegsInv, ReturnsOnOwnStack
<1> QED
  BY <1>1, VmcsInvariant, PTL

\* guest_code executes with the host's paging, segments and tables, with the
\* base of TR put together from the GDT and the access rights from LAR.
THEOREM GuestContextKept == Spec => []GuestRunsInContext
<1>1. VmcsInv => GuestRunsInContext
  BY DEF VmcsInv, AreasInv, RegsInv, GuestRunsInContext
<1> QED
  BY <1>1, VmcsInvariant, PTL

=============================================================================
