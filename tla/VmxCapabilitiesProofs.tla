----------------------- MODULE VmxCapabilitiesProofs -----------------------
(***************************************************************************)
(* For every processor that keeps the architecture's rules about the       *)
(* capability MSRs (ProcessorAssumption), the discovery reads no MSR that  *)
(* does not exist and initialize_vmcs() writes controls that VM entry      *)
(* accepts.                                                                *)
(***************************************************************************)
EXTENDS VmxCapabilities, TLAPS

\* The processor is one of those considered, in every state.
Fixed == msr \in Processors

-----------------------------------------------------------------------------
\* CapabilityInv holds before print_vmx_info() is called.
LEMMA InitCapabilityInv == Init => CapabilityInv /\ Fixed
<1> SUFFICES ASSUME Init PROVE CapabilityInv /\ Fixed
  OBVIOUS
<1>1. TypeOK
  BY ProcessorsAssumption DEF Init, TypeOK
<1>2. MsrsExist
  BY DEF Init, MsrsExist
<1>3. CacheInv /\ SplitInv /\ WriteInv /\ Fixed
  BY DEF Init, CacheInv, SplitInv, WriteInv, Fixed
<1> QED
  BY <1>1, <1>2, <1>3 DEF CapabilityInv

\* The two halves of a 64-bit value are 32-bit values.
LEMMA Halves ==
  ASSUME NEW x \in SUBSET (0..63)
  PROVE  Low(x) \in SUBSET (0..31) /\ High(x) \in SUBSET (0..31)
BY DEF Low, High

\* Each stage of the discovery preserves CapabilityInv.
LEMMA NextCapabilityInv ==
  CapabilityInv /\ Fixed /\ [Next]_vars => CapabilityInv' /\ Fixed'
<1> SUFFICES ASSUME CapabilityInv, Fixed, [Next]_vars
             PROVE  CapabilityInv' /\ Fixed'
  OBVIOUS
<1> USE DEF CapabilityInv
<1>0. Fixed'
  BY DEF Fixed, Next, vars, PrintBasic, PrintSecondary, PrintTrueCtls,
         PrintVmfunc, CacheMsrs, SplitAllowed, WriteControls, Done
<1>1. CASE PrintBasic \/ PrintSecondary \/ PrintTrueCtls \/ PrintVmfunc
  <2> USE <1>1 DEF PrintBasic, PrintSecondary, PrintTrueCtls, PrintVmfunc
  <2>1. TypeOK'
    BY DEF TypeOK
  <2>2. MsrsExist'
    BY DEF MsrsExist, ExistingMsrs, SecondaryMsrs, HasSecondaryCtls, HasEpt,
           HasVmfunc, HasTrueCtls
  <2>3. CacheInv' /\ SplitInv' /\ WriteInv'
    BY DEF CacheInv, SplitInv, WriteInv
  <2> QED
    BY <1>0, <2>1, <2>2, <2>3
<1>2. CASE CacheMsrs
  <2> USE <1>2 DEF CacheMsrs
  <2>1. TypeOK'
    BY DEF TypeOK, CapabilityMsrs, CachedTrueCtls, HasTrueCtls
  <2>2. MsrsExist'
    BY DEF MsrsExist, ExistingMsrs, BaseMsrs, TrueMsrs, HasTrueCtls
  <2>3. CacheInv'
    BY DEF CacheInv, EffectiveCtls, CachedTrueCtls
  <2>4. SplitInv' /\ WriteInv'
    BY DEF SplitInv, WriteInv
  <2> QED
    BY <1>0, <2>1, <2>2, <2>3, <2>4
<1>3. CASE SplitAllowed
  <2> USE <1>3 DEF SplitAllowed
  <2>1. \A f \in Families : EffectiveCtls(f) \in SUBSET (0..63)
    BY DEF TypeOK, EffectiveCtls
  <2>2. TypeOK'
    BY <2>1, Halves DEF TypeOK
  <2>3. MsrsExist'
    BY DEF MsrsExist, ExistingMsrs
  <2>4. CacheInv'
    BY DEF CacheInv, EffectiveCtls, CachedTrueCtls
  <2>5. SplitInv'
    BY DEF SplitInv, EffectiveCtls
  <2>6. WriteInv'
    BY DEF WriteInv
  <2> QED
    BY <1>0, <2>2, <2>3, <2>4, <2>5, <2>6
<1>4. CASE WriteControls
  <2> USE <1>4 DEF WriteControls
  <2>1. \A f \in Families : RequiredControls(f) \in SUBSET (0..31)
    BY DEF TypeOK, RequiredControls
  <2>2. TypeOK'
    BY <2>1 DEF TypeOK, Families, HOST_ADDR_SPACE_SIZE, IA32E_MODE_GUEST
  <2>3. MsrsExist'
    BY DEF MsrsExist, ExistingMsrs
  <2>4. CacheInv'
    BY DEF CacheInv, EffectiveCtls, CachedTrueCtls
  <2>5. SplitInv'
    BY DEF SplitInv, EffectiveCtls
  <2>6. WriteInv'
    BY DEF WriteInv, RequiredControls, Families, HOST_ADDR_SPACE_SIZE,
           IA32E_MODE_GUEST
  <2> QED
    BY <1>0, <2>2, <2>3, <2>4, <2>5, <2>6
<1>5. CASE UNCHANGED vars
  BY <1>0, <1>5 DEF vars, TypeOK, MsrsExist, ExistingMsrs, CacheInv, SplitInv,
              WriteInv, EffectiveCtls, CachedTrueCtls, RequiredControls
<1> QED
  BY <1>0, <1>1, <1>2, <1>3, <1>4, <1>5 DEF Next, Done

\* CapabilityInv holds throughout print_vmx_info(), cache_vmx_capabilities()
\* and initialize_vmcs().
THEOREM CapabilityInvariant == Spec => [](CapabilityInv /\ Fixed)
BY InitCapabilityInv, NextCapabilityInv, PTL DEF Spec

\* What each stage of the discovery knows follows from the processor's MSRs,
\* whatever the processor.
THEOREM StagesCorrect == Spec => []CapabilityInv
BY CapabilityInvariant, PTL

\* The allowed settings and the controls written are 32-bit values.
THEOREM CapabilityTypes == Spec => []TypeOK
<1>1. CapabilityInv => TypeOK
  BY DEF CapabilityInv
<1> QED
  BY <1>1, CapabilityInvariant, PTL

\* print_vmx_info() and cache_vmx_capabilities() read no MSR that does not
\* exist, whatever the processor.
THEOREM OnlyExistingMsrs == Spec => []MsrsExist
<1>1. CapabilityInv => MsrsExist
  BY DEF CapabilityInv
<1> QED
  BY <1>1, CapabilityInvariant, PTL

\* VM entry accepts the controls initialize_vmcs() writes on every processor,
\* although the processor-based ones are taken from the wrong MSR: a TRUE MSR
\* allows every setting that the plain one allows.
THEOREM ControlsAccepted == Spec => []ControlsAllowed
<1>1. ASSUME CapabilityInv, Fixed PROVE ControlsAllowed
  <2> SUFFICES ASSUME pc = "done", NEW f \in Families
               PROVE  AllowedBy(ctls[f],
                                IF 55 \in msr.basic THEN msr.true_ctls[f]
                                ELSE msr.ctls[f])
    BY DEF ControlsAllowed
  <2> DEFINE cap == IF 55 \in msr.basic THEN msr.true_ctls[f] ELSE msr.ctls[f]
             eff == EffectiveCtls(f)
  <2>1. msr \in CapabilityMsrs /\ ProcessorAssumption(msr)
    BY <1>1, ProcessorsAssumption DEF Fixed
  <2>2. eff = cap \/ (eff = msr.ctls[f] /\ cap = msr.true_ctls[f])
    BY <1>1 DEF CapabilityInv, CacheInv, HasTrueCtls, CachedTrueCtls
  <2>3. /\ \A b \in 0..31 : b \in cap => b \in eff
        /\ \A b \in 32..63 : b \in cap <=> b \in eff
        /\ \A b \in 0..31 : b \in eff => b + 32 \in eff
    BY <2>1, <2>2 DEF ProcessorAssumption
  <2>4. \A b \in 0..31 : b + 32 \in eff <=> b + 32 \in cap
    BY <2>3
  <2>5. RequiredControls(f) = Low(eff) \cap High(eff)
    BY <1>1 DEF CapabilityInv, SplitInv, RequiredControls
  <2>6. Low(cap) \subseteq Low(eff) \cap High(eff)
    BY <2>3 DEF Low, High
  <2>7. Low(eff) \cap High(eff) \subseteq High(cap)
    BY <2>4 DEF Low, High
  <2>8. f \in {"exit", "entry"} => 9 \in High(cap)
    BY <2>1, <2>2, <2>4 DEF ProcessorAssumption, High
  <2>9. \/ ctls[f] = RequiredControls(f)
        \/ f \in {"exit", "entry"} /\ ctls[f] = RequiredControls(f) \cup {9}
    BY <1>1 DEF CapabilityInv, WriteInv, Families
  <2> QED
    BY <2>5, <2>6, <2>7, <2>8, <2>9 DEF AllowedBy
<1> QED
  BY <1>1, CapabilityInvariant, PTL

\* No control is on that the processor does not insist on, besides the two
\* for 64-bit host and guest: the secondary controls stay inactive.
THEOREM NoOptionalControl == Spec => []NothingOptional
<1>1. ASSUME CapabilityInv, Fixed PROVE NothingOptional
  <2> SUFFICES ASSUME pc = "done", NEW f \in Families
               PROVE  ctls[f] \subseteq Low(msr.ctls[f]) \cup
                        (IF f = "exit" THEN {HOST_ADDR_SPACE_SIZE}
                         ELSE IF f = "entry" THEN {IA32E_MODE_GUEST} ELSE {})
    BY DEF NothingOptional
  <2>1. msr \in CapabilityMsrs /\ ProcessorAssumption(msr)
    BY <1>1, ProcessorsAssumption DEF Fixed
  <2>2. EffectiveCtls(f) = msr.ctls[f] \/ EffectiveCtls(f) = msr.true_ctls[f]
    BY <1>1 DEF CapabilityInv, CacheInv, HasTrueCtls, CachedTrueCtls
  <2>3. Low(EffectiveCtls(f)) \subseteq Low(msr.ctls[f])
    BY <2>1, <2>2 DEF ProcessorAssumption, Low
  <2>4. RequiredControls(f) \subseteq Low(msr.ctls[f])
    BY <1>1, <2>3 DEF CapabilityInv, SplitInv, RequiredControls
  <2> QED
    BY <1>1, <2>4
    DEF CapabilityInv, WriteInv, Families, HOST_ADDR_SPACE_SIZE,
        IA32E_MODE_GUEST
<1> QED
  BY <1>1, CapabilityInvariant, PTL

=============================================================================
