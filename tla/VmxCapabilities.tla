-------------------------- MODULE VmxCapabilities --------------------------
(***************************************************************************)
(* How the driver discovers what the processor allows in the VM-execution, *)
(* VM-exit and VM-entry controls: print_vmx_info() reads the capability    *)
(* MSRs it believes to exist, cache_vmx_capabilities() keeps them and      *)
(* splits each into its allowed-0 and allowed-1 settings, and              *)
(* initialize_vmcs() writes the controls.                                  *)
(*                                                                         *)
(* An MSR value is the set of the positions of its 1 bits (0..63).         *)
(***************************************************************************)
EXTENDS Integers

CONSTANT Processors  \* Capability MSRs of the processors considered.

\* The four families of controls.
Families == {"pinbased", "procbased", "exit", "entry"}

\* What the architecture guarantees about the capability MSRs: a control that
\* must be 1 may be 1; the TRUE MSRs may only free controls from having to be
\* 1; 64-bit hosts and guests are allowed; the secondary controls never have
\* to be activated.
ProcessorAssumption(m) ==
  /\ \A f \in Families :
       /\ \A b \in 0..31 : b \in m.ctls[f] => b + 32 \in m.ctls[f]
       /\ \A b \in 0..31 : b \in m.true_ctls[f] => b \in m.ctls[f]
       /\ \A b \in 32..63 : b \in m.true_ctls[f] <=> b \in m.ctls[f]
  /\ 41 \in m.ctls["exit"] /\ 41 \in m.ctls["entry"]
  /\ 31 \notin m.ctls["procbased"]

\* The capability MSRs that matter here, as 64-bit values.
CapabilityMsrs ==
  [basic : SUBSET (0..63), ctls : [Families -> SUBSET (0..63)],
   true_ctls : [Families -> SUBSET (0..63)], ctls2 : SUBSET (0..63)]

ASSUME ProcessorsAssumption ==
  /\ Processors \subseteq CapabilityMsrs
  /\ \A m \in Processors : ProcessorAssumption(m)

VARIABLES
  msr,        \* The processor's capability MSRs; never change.
  pc,
  reads,      \* Names of the MSRs read so far.
  vmm,        \* The cached MSRs of vm_monitor_t.
  allowed0, allowed1,   \* <family>_allowed0 and _allowed1.
  ctls        \* The control fields of the VMCS.

vars == <<msr, pc, reads, vmm, allowed0, allowed1, ctls>>

-----------------------------------------------------------------------------
(***************************************************************************)
(* Bits.                                                                   *)
(***************************************************************************)
\* 0xffffffff & x
Low(x) == x \cap (0..31)

\* A mutant that masks the high half but forgets to shift it down.
MutUnshifted(x) == x \cap (32..63)

\* x >> 32, as a u32
High(x) == {b \in 0..31 : b + 32 \in x}

\* The __BIT(55) test of IA32_VMX_BASIC.
HasTrueCtls(basic) == 55 \in basic

\* VMX_PROC_CTL_ACTIVATE_SECONDARY_CTLS << 32, VMX_PROC_CTL2_ENABLE_EPT << 32
\* and VMX_PROC_CTL2_ENABLE_VMFUNC << 32.
HasSecondaryCtls == 63 \in msr.ctls["procbased"]
HasEpt == 33 \in msr.ctls2
HasVmfunc == 45 \in msr.ctls2

HOST_ADDR_SPACE_SIZE == 9
IA32E_MODE_GUEST == 9

-----------------------------------------------------------------------------
Init ==
  /\ msr \in Processors
  /\ pc = "print_basic"
  /\ reads = {}
  /\ vmm = [basic |-> {}, has_true_ctls |-> FALSE,
            ctls |-> [f \in Families |-> {}],
            true_ctls |-> [f \in Families |-> {}]]
  /\ allowed0 = [f \in Families |-> {}]
  /\ allowed1 = [f \in Families |-> {}]
  /\ ctls = [f \in Families |-> {}]

\* The MSRs every processor with VMX has.
BaseMsrs == {"BASIC", "PINBASED_CTLS", "PROCBASED_CTLS", "EXIT_CTLS",
             "ENTRY_CTLS", "MISC", "CR0_FIXED0", "CR0_FIXED1", "CR4_FIXED0",
             "CR4_FIXED1", "VMCS_ENUM"}

TrueMsrs == {"TRUE_PINBASED_CTLS", "TRUE_PROCBASED_CTLS", "TRUE_EXIT_CTLS",
             "TRUE_ENTRY_CTLS"}

\* print_vmx_info() up to the first test,
PrintBasic ==
  /\ pc = "print_basic"
  /\ pc' = "print_secondary"
  /\ reads' = reads \cup BaseMsrs
  /\ UNCHANGED <<msr, vmm, allowed0, allowed1, ctls>>

\* A mutant that reads the EPT capabilities whenever secondary controls exist.
MutSecondaryMsrs ==
  IF HasSecondaryCtls THEN {"PROCBASED_CTLS2", "EPT_VPID_CAP"} ELSE {}

\* its first has_secondary_ctls block,
SecondaryMsrs ==
  IF ~HasSecondaryCtls THEN {}
  ELSE {"PROCBASED_CTLS2"} \cup (IF HasEpt THEN {"EPT_VPID_CAP"} ELSE {})

PrintSecondary ==
  /\ pc = "print_secondary"
  /\ pc' = "print_true"
  /\ reads' = reads \cup SecondaryMsrs
  /\ UNCHANGED <<msr, vmm, allowed0, allowed1, ctls>>

\* its has_true_ctls block,
PrintTrueCtls ==
  /\ pc = "print_true"
  /\ pc' = "print_vmfunc"
  /\ reads' = reads \cup (IF HasTrueCtls(msr.basic) THEN TrueMsrs ELSE {})
  /\ UNCHANGED <<msr, vmm, allowed0, allowed1, ctls>>

\* and its second has_secondary_ctls block.
PrintVmfunc ==
  /\ pc = "print_vmfunc"
  /\ pc' = "cache"
  /\ reads' = reads \cup
       (IF ~HasSecondaryCtls THEN {}
        ELSE {"PROCBASED_CTLS2"} \cup (IF HasVmfunc THEN {"VMFUNC"} ELSE {}))
  /\ UNCHANGED <<msr, vmm, allowed0, allowed1, ctls>>

\* The true_ctls fields as cache_vmx_capabilities() fills them: the
\* processor-based one is read from IA32_VMX_PROCBASED_CTLS.
CachedTrueCtls ==
  [f \in Families |-> IF f = "procbased" THEN msr.ctls[f]
                      ELSE msr.true_ctls[f]]

\* The first half of cache_vmx_capabilities(): the reads.
CacheMsrs ==
  /\ pc = "cache"
  /\ pc' = "allowed"
  /\ LET has == HasTrueCtls(msr.basic) IN
     /\ vmm' = [basic |-> msr.basic, has_true_ctls |-> has,
                ctls |-> msr.ctls,
                true_ctls |-> IF has THEN CachedTrueCtls ELSE vmm.true_ctls]
     /\ reads' = reads \cup
          {"BASIC", "PINBASED_CTLS", "PROCBASED_CTLS", "EXIT_CTLS",
           "ENTRY_CTLS"} \cup
          (IF has THEN TrueMsrs \ {"TRUE_PROCBASED_CTLS"} ELSE {})
  /\ UNCHANGED <<msr, allowed0, allowed1, ctls>>

\* A mutant that ignores the TRUE MSRs.
MutEffectivePlain(f) == vmm.ctls[f]

\* The MSR the allowed settings of family f are taken from.
EffectiveCtls(f) == IF vmm.has_true_ctls THEN vmm.true_ctls[f] ELSE vmm.ctls[f]

\* The second half of cache_vmx_capabilities(): the allowed settings.
SplitAllowed ==
  /\ pc = "allowed"
  /\ pc' = "initialize_vmcs"
  /\ allowed0' = [f \in Families |-> Low(EffectiveCtls(f))]
  /\ allowed1' = [f \in Families |-> High(EffectiveCtls(f))]
  /\ UNCHANGED <<msr, reads, vmm, ctls>>

\* Mutants: every allowed control switched on; none switched on.
MutAllControls(f) == allowed1[f]
MutNoControls(f) == {}

\* allowed0 & allowed1
RequiredControls(f) == allowed0[f] \cap allowed1[f]

\* The four control fields that initialize_vmcs() writes.
WriteControls ==
  /\ pc = "initialize_vmcs"
  /\ pc' = "done"
  /\ ctls' = [f \in Families |->
                RequiredControls(f) \cup
                CASE f = "exit" -> {HOST_ADDR_SPACE_SIZE}
                  [] f = "entry" -> {IA32E_MODE_GUEST}
                  [] OTHER -> {}]
  /\ UNCHANGED <<msr, reads, vmm, allowed0, allowed1>>

\* The rest of measure_vmlatency() is modelled in MeasureVmlatency.
Done == pc = "done" /\ UNCHANGED vars

Next == PrintBasic \/ PrintSecondary \/ PrintTrueCtls \/ PrintVmfunc
        \/ CacheMsrs \/ SplitAllowed \/ WriteControls \/ Done

Spec == Init /\ [][Next]_vars

-----------------------------------------------------------------------------
(***************************************************************************)
(* Properties.                                                             *)
(***************************************************************************)

\* Type correctness.  The allowed settings and the controls are 32-bit values
\* and the cached MSRs 64-bit ones.
TypeOK ==
  /\ msr \in CapabilityMsrs
  /\ pc \in {"print_basic", "print_secondary", "print_true", "print_vmfunc",
             "cache", "allowed", "initialize_vmcs", "done"}
  /\ vmm \in [basic : SUBSET (0..63), has_true_ctls : BOOLEAN,
              ctls : [Families -> SUBSET (0..63)],
              true_ctls : [Families -> SUBSET (0..63)]]
  /\ allowed0 \in [Families -> SUBSET (0..31)]
  /\ allowed1 \in [Families -> SUBSET (0..31)]
  /\ ctls \in [Families -> SUBSET (0..31)]

\* The capability MSRs this processor has; reading another one raises #GP.
ExistingMsrs ==
  BaseMsrs
    \cup (IF 55 \in msr.basic THEN TrueMsrs ELSE {})
    \cup (IF 63 \in msr.ctls["procbased"]
          THEN {"PROCBASED_CTLS2"}
                 \cup (IF {33, 37} \cap msr.ctls2 # {} THEN {"EPT_VPID_CAP"}
                       ELSE {})
                 \cup (IF 45 \in msr.ctls2 THEN {"VMFUNC"} ELSE {})
          ELSE {})

\* print_vmx_info() and cache_vmx_capabilities() only read MSRs that exist:
\* each optional MSR is guarded by the capability bit that announces it.
MsrsExist == reads \subseteq ExistingMsrs

\* What the processor checks at VM entry: controls that must be 1 are 1, and
\* no control that must be 0 is 1.
AllowedBy(c, capability) ==
  Low(capability) \subseteq c /\ c \subseteq High(capability)

\* VM entry accepts the control fields initialize_vmcs() writes, whether or
\* not the processor has the TRUE MSRs.
ControlsAllowed ==
  pc = "done" =>
    \A f \in Families :
      AllowedBy(ctls[f], IF 55 \in msr.basic THEN msr.true_ctls[f]
                         ELSE msr.ctls[f])

\* "Secondary controls are not activated" (initialize_vmcs()), and nothing
\* optional is: besides the two 64-bit controls, every control that is on is
\* one the processor insists on.
NothingOptional ==
  pc = "done" =>
    \A f \in Families :
      ctls[f] \subseteq Low(msr.ctls[f]) \cup
        (IF f = "exit" THEN {HOST_ADDR_SPACE_SIZE}
         ELSE IF f = "entry" THEN {IA32E_MODE_GUEST} ELSE {})

\* "Cached VMX capabilities" (vm_monitor_t): what is cached as a TRUE MSR is
\* the value of that MSR.
TrueMsrsCached ==
  pc = "done" /\ vmm.has_true_ctls => vmm.true_ctls = msr.true_ctls

-----------------------------------------------------------------------------
(***************************************************************************)
(* The inductive invariant: what each stage has computed from the MSRs.    *)
(***************************************************************************)
CacheInv ==
  pc \in {"allowed", "initialize_vmcs", "done"} =>
    \A f \in Families :
      EffectiveCtls(f) = IF HasTrueCtls(msr.basic) THEN CachedTrueCtls[f]
                         ELSE msr.ctls[f]

SplitInv ==
  pc \in {"initialize_vmcs", "done"} =>
    \A f \in Families : /\ allowed0[f] = Low(EffectiveCtls(f))
                        /\ allowed1[f] = High(EffectiveCtls(f))

WriteInv ==
  pc = "done" =>
    /\ \A f \in {"pinbased", "procbased"} : ctls[f] = RequiredControls(f)
    /\ \A f \in {"exit", "entry"} : ctls[f] = RequiredControls(f) \cup {9}

\* What the stages of the discovery know: the MSRs read exist, the cached
\* values are the processor's, and the settings and controls follow from
\* them.
CapabilityInv == /\ TypeOK
                 /\ MsrsExist
                 /\ CacheInv
                 /\ SplitInv
                 /\ WriteInv

=============================================================================
