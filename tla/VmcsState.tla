----------------------------- MODULE VmcsState -----------------------------
(***************************************************************************)
(* The registers of the borrowed processor, and what a VM entry and the VM *)
(* exit that follows make of them.  initialize_vmcs() fills the guest and  *)
(* host areas of the VMCS from the running processor, vmentry_prepare      *)
(* refreshes HOST_RSP, every VM entry loads the guest area, every VM exit  *)
(* loads the host area and forces the rest to fixed values, and            *)
(* restore_host_state() with the saved irq_flags repairs what it can.      *)
(*                                                                         *)
(* A register's value is opaque: the name of where it came from.  Selector *)
(* values also show their low three bits (RPL and table indicator), which  *)
(* the code masks.  The base of TR and the access rights of CS, SS and TR, *)
(* which the code works out from the GDT, are sets of bit positions.       *)
(***************************************************************************)
EXTENDS Integers

CONSTANTS
  Hosts,      \* The processor before measurement: its registers and GDT.
  Leftovers   \* Values an uninitialized u32 may hold.

Selectors == {"ES", "CS", "SS", "DS", "FS", "GS", "TR"}

\* Registers with a field in the host area besides the selectors.
HostValues == {"CR0", "CR3", "CR4", "FS_BASE", "GS_BASE", "TR_BASE",
               "GDTR_BASE", "IDTR_BASE", "SYSENTER_CS", "SYSENTER_ESP",
               "SYSENTER_EIP"}

\* Registers with a field in the guest area only; access rights are those of
\* the segments in use.
Rights == {"CS_AR", "SS_AR", "TR_AR"}
GuestOnly == Rights \cup
             {"LDTR", "TR_LIMIT", "GDTR_LIMIT", "IDTR_LIMIT", "DR7", "DEBUGCTL",
              "RFLAGS"}

Registers == Selectors \cup HostValues \cup GuestOnly \cup {"RSP"}

SelectorValues == [index : {"null"} \cup Selectors, low : 0..7]

\* Values a VM exit forces.
Forced == [LDTR |-> "null", TR_LIMIT |-> "0x67", GDTR_LIMIT |-> "0xffff",
           IDTR_LIMIT |-> "0xffff", DR7 |-> "0x400", DEBUGCTL |-> "0",
           RFLAGS |-> "0x2", CS_AR |-> {0, 1, 3, 4, 7, 13, 15},
           SS_AR |-> {0, 1, 4, 7, 14, 15}, TR_AR |-> {0, 1, 3, 7}]

\* A descriptor of the GDT, 16 bytes for a TSS; what the processor took from
\* it when the segment register was loaded.
Descriptors == SUBSET (0..127)
LoadedBase(d) == {b \in 0..63 : (IF b < 24 THEN b + 16 ELSE b + 32) \in d}
LoadedRights(d) == {b \in (0..7) \cup (12..15) : b + 40 \in d}

Segment == [CS_AR |-> "CS", SS_AR |-> "SS", TR_AR |-> "TR"]

\* The kernel runs with RPL 0 in CS, SS and TR, and CS and TR are loaded from
\* the GDT.  SS is too, or null: an interrupt that enters the kernel leaves it
\* so, and a switch to another thread does not change it.
HostAssumption(h) ==
  /\ h.regs = [r \in Registers |-> h.regs[r]]
  /\ \A r \in Selectors : h.regs[r] \in SelectorValues
  /\ \A r \in {"CS", "SS", "TR"} : h.regs[r].low = 0
  /\ h.gdt \in [Selectors -> Descriptors]
  /\ h.regs["TR_BASE"] = LoadedBase(h.gdt["TR"])
  /\ h.regs["CS"].index = "CS" /\ h.regs["TR"].index = "TR"
  /\ h.regs["SS"].index \in {"SS", "null"}
  /\ \A r \in Rights : h.regs[Segment[r]].index # "null" =>
       h.regs[r] = LoadedRights(h.gdt[Segment[r]])

ASSUME HostsAssumption == \A h \in Hosts : HostAssumption(h)
ASSUME LeftoversAssumption == Leftovers \subseteq SUBSET (0..31)

VARIABLES
  gdt,        \* The descriptors the selectors refer to; never change.
  before,     \* Registers when vmlatency_preempt_disable() returned.
  flags,      \* irq_flags: RFLAGS before interrupts were masked.
  regs,       \* Registers now.
  guest,      \* Guest area of the VMCS.
  host,       \* Host area of the VMCS.
  hs,         \* host_state_t
  frame,      \* Stack pointer of the last do_vmlaunch() or do_vmresume().
  pc

vars == <<gdt, before, flags, regs, guest, host, hs, frame, pc>>

Blank == [r \in Registers |-> "unset"]

Init ==
  /\ \E h \in Hosts : gdt = h.gdt /\ before = h.regs
  /\ flags = "irqs_on"
  /\ regs = before
  /\ guest = Blank /\ host = Blank
  /\ hs = [gdt |-> <<"unset", "unset">>, idt |-> <<"unset", "unset">>]
  /\ frame = before["RSP"]
  /\ pc = "initialize_vmcs"

-----------------------------------------------------------------------------
\* val & ~7
Masked(v) == [v EXCEPT !.low = 0]

\* Bits lo..hi of d, shifted to begin at bit to.
Field(d, lo, hi, to) == {b \in to..(to + hi - lo) : b - to + lo \in d}

\* A mutant of trbase that forgets the second half of the descriptor.
MutTrbase(d) == Field(d, 16, 39, 0) \cup Field(d, 56, 63, 24)

\* "Extracting TR.base from GDT".
trbase(d) == Field(d, 16, 39, 0) \cup Field(d, 56, 63, 24) \cup Field(d, 64, 95, 32)

\* LAR: the second dword of the descriptor masked with 0x00fXff00, where X is
\* undefined.
LAR(d, X) == {b \in (8..15) \cup (20..23) : b + 32 \in d} \cup X

\* __lar(): LAR does not write attrs when the selector is null.
__lar(sel) ==
  IF sel.index = "null" THEN Leftovers
  ELSE {LAR(gdt[sel.index], X) : X \in SUBSET (16..19)}

\* (attrs >> 8) & 0xf0ff
get_segment_ar(attrs) == Field(attrs, 8, 31, 0) \cap ((0..7) \cup (12..15))

\* The guest area: the host's value, with these exceptions.
GuestArea(h, attrs) ==
  [r \in Registers |->
     CASE r = "TR"           -> Masked(h["TR"])
       [] r = "TR_BASE"      -> trbase(gdt[h["TR"].index])
       [] r \in Rights       -> get_segment_ar(attrs[r])
       [] r = "SYSENTER_EIP" -> h["SYSENTER_ESP"]
       [] r = "DR7"          -> "0x400"
       [] r = "DEBUGCTL"     -> "0"
       [] r = "RSP"          -> "0"
       [] OTHER              -> h[r]]

\* A mutant that fills HOST_GS_BASE from IA32_FS_BASE.
MutHostArea(h) ==
  [r \in Registers |->
     CASE r \in Selectors \ {"TR"}        -> Masked(h[r])
       [] r = "GS_BASE"                   -> h["FS_BASE"]
       [] r \in HostValues \cup {"TR"}    -> h[r]
       [] OTHER                           -> "unset"]

\* The host area; HOST_RSP is written just before each VM entry.
HostArea(h) ==
  [r \in Registers |->
     CASE r \in Selectors \ {"TR"}        -> Masked(h[r])
       [] r = "TR_BASE"                   -> trbase(gdt[h["TR"].index])
       [] r \in HostValues \cup {"TR"}    -> h[r]
       [] OTHER                           -> "unset"]

initialize_vmcs ==
  /\ pc = "initialize_vmcs"
  /\ pc' = "save_host_state"
  /\ \E cs \in __lar(regs["CS"]), ss \in __lar(regs["SS"]), tr \in __lar(regs["TR"]) :
       guest' = GuestArea(regs, [CS_AR |-> cs, SS_AR |-> ss, TR_AR |-> tr])
  /\ host' = HostArea(regs)
  /\ UNCHANGED <<gdt, before, flags, regs, hs, frame>>

\* SGDT and SIDT, LGDT and LIDT.
__get_gdt(r) == <<r["GDTR_BASE"], r["GDTR_LIMIT"]>>
__get_idt(r) == <<r["IDTR_BASE"], r["IDTR_LIMIT"]>>
__set_gdt(r, d) == [r EXCEPT !["GDTR_BASE"] = d[1], !["GDTR_LIMIT"] = d[2]]
__set_idt(r, d) == [r EXCEPT !["IDTR_BASE"] = d[1], !["IDTR_LIMIT"] = d[2]]

save_host_state ==
  /\ pc = "save_host_state"
  /\ pc' = "entry"
  /\ hs' = [gdt |-> __get_gdt(regs), idt |-> __get_idt(regs)]
  /\ UNCHANGED <<gdt, before, flags, regs, guest, host, frame>>

\* A mutant of vmentry_prepare that keeps the first stack pointer.
MutVmentryPrepare(area, rsp) ==
  IF area["RSP"] = "unset" THEN [area EXCEPT !["RSP"] = rsp] ELSE area

\* vmentry_prepare: HOST_RSP is the stack pointer of this call.
vmentry_prepare(area, rsp) == [area EXCEPT !["RSP"] = rsp]

\* do_vmlaunch() or do_vmresume(), called with the stack pointer rsp, enters
\* the guest.
VmEntry(rsp) ==
  /\ pc = "entry"
  /\ pc' = "guest"
  /\ frame' = rsp
  /\ host' = vmentry_prepare(host, rsp)
  /\ regs' = guest
  /\ UNCHANGED <<gdt, before, flags, guest, hs>>

\* What a VM exit leaves in the registers: the host area, and what has no
\* field in it is forced.
AfterExit(area) ==
  [r \in Registers |-> IF r \in DOMAIN Forced THEN Forced[r] ELSE area[r]]

\* The guest's CPUID exits.  The guest's state is saved in its area unchanged,
\* so the next VM entry executes the same CPUID.
VmExit ==
  /\ pc = "guest"
  /\ pc' = "entry"
  /\ regs' = AfterExit(host)
  /\ UNCHANGED <<gdt, before, flags, guest, host, hs, frame>>

\* The processor refuses the guest area, which it reports like a VM exit.
EntryFailure(rsp) ==
  /\ pc = "entry"
  /\ frame' = rsp
  /\ host' = vmentry_prepare(host, rsp)
  /\ regs' = AfterExit(host')
  /\ UNCHANGED <<gdt, before, flags, guest, hs, pc>>

\* VMLAUNCH fails early, or the loop ends.
LeaveLoop ==
  /\ pc = "entry"
  /\ pc' = "out4"
  /\ UNCHANGED <<gdt, before, flags, regs, guest, host, hs, frame>>

\* A mutant that restores GDTR only.
MutRestored == __set_gdt(regs, hs.gdt)

Restored == __set_idt(__set_gdt(regs, hs.gdt), hs.idt)

restore_host_state ==
  /\ pc = "out4"
  /\ pc' = "out2"
  /\ regs' = Restored
  /\ UNCHANGED <<gdt, before, flags, guest, host, hs, frame>>

\* vmlatency_preempt_enable() writes the saved flags back.
vmlatency_preempt_enable ==
  /\ pc = "out2"
  /\ pc' = "out1"
  /\ regs' = [regs EXCEPT !["RFLAGS"] = flags]
  /\ UNCHANGED <<gdt, before, flags, guest, host, hs, frame>>

Done == pc = "out1" /\ UNCHANGED vars

Frames == {"vmlaunch_frame", "vmresume_frame"}

Next == \/ initialize_vmcs \/ save_host_state
        \/ (\E rsp \in Frames : VmEntry(rsp) \/ EntryFailure(rsp))
        \/ VmExit \/ LeaveLoop
        \/ restore_host_state \/ vmlatency_preempt_enable \/ Done

Spec == Init /\ [][Next]_vars

-----------------------------------------------------------------------------
(***************************************************************************)
(* Properties.                                                             *)
(***************************************************************************)

\* The registers without which kernel code cannot go on: paging, segments
\* and tables, per-processor bases, system call entry.
Context == HostValues \cup {"CS", "SS", "TR", "GDTR_LIMIT", "IDTR_LIMIT"}

\* A host on which the values that a VM exit forces, and the masking of the
\* low selector bits, change nothing.
Quiet(h) ==
  /\ \A r \in Selectors : h[r].low = 0
  /\ \A r \in {"LDTR", "TR_LIMIT", "DR7", "DEBUGCTL"} : h[r] = Forced[r]

\* However many VM entries happened, the context is back when interrupts are
\* unmasked: the host area and restore_host_state() together undo what the
\* VM exits did to it.
ContextRestored == pc \in {"out2", "out1"} =>
                     \A r \in Context : regs[r] = before[r]

\* On a quiet host every register is back at the end, interrupts included.
\* (The access rights are those of flat 64-bit segments and of a busy TSS.)
QuietHostRestored ==
  pc = "out1" /\ Quiet(before) =>
    \A r \in Registers \ (Rights \cup {"RSP"}) :
      regs[r] = IF r = "RFLAGS" THEN flags ELSE before[r]

\* Every VM exit returns on the stack of the call that entered the guest:
\* HOST_RSP is never that of an earlier call.
ReturnsOnOwnStack == pc # "guest" => regs["RSP"] = frame

\* The guest executes in the context of the host: guest_code is mapped, and
\* an exception on its way finds the host's tables.  TR has the host's base
\* and CS, TR and, unless it is null, SS the host's access rights, whatever LAR
\* leaves in its undefined bits.
GuestRunsInContext ==
  pc = "guest" =>
    /\ \A r \in Context \ {"SYSENTER_EIP"} : regs[r] = before[r]
    /\ \A r \in Rights : before[Segment[r]].index # "null" => regs[r] = before[r]

\* "Virtual machine state mirrors host state" (README.md), "Initialize guest
\* state to match host state" (initialize_vmcs()): for every register the
\* guest takes from the host.
GuestMirrorsHost ==
  pc = "guest" =>
    \A r \in Registers \ (Rights \cup {"RSP", "DR7", "DEBUGCTL"}) :
      regs[r] = before[r]

=============================================================================
