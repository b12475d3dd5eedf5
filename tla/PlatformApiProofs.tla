------------------------- MODULE PlatformApiProofs -------------------------
(***************************************************************************)
(* Proofs about PlatformApi, for any pages, frames and processors: the     *)
(* page bookkeeping of the three builds, the critical section, and that    *)
(* together they implement PlatformService.                                *)
(***************************************************************************)
EXTENDS PlatformApi, TLAPS

ApiInv == TypeOK /\ PageInv /\ MaskInv

-----------------------------------------------------------------------------
(***************************************************************************)
(* The invariants hold initially.                                          *)
(***************************************************************************)

\* Nothing is allocated, mapped or masked when the driver is loaded.
LEMMA ApiInvInit == Init => ApiInv
<1> SUFFICES ASSUME Init PROVE ApiInv
  OBVIOUS
<1>1. TypeOK
  <2>1. irqs \in [Cpus -> BOOLEAN] /\ pinned \in BOOLEAN /\ intruded \in BOOLEAN
        /\ saved \in BOOLEAN
    BY Zenon DEF Init
  <2> QED
    BY <2>1, MaxMdlsAssumption DEF Init, TypeOK, Calls
<1>2. PageInv
  BY NoneAssumption DEF Init, PageInv, Pending
<1>3. MaskInv
  BY DEF Init, MaskInv
<1> QED
  BY <1>1, <1>2, <1>3 DEF ApiInv

-----------------------------------------------------------------------------
(***************************************************************************)
(* Every step preserves them.  A step of one half of the API leaves the    *)
(* variables of the other half alone, so that each half is proved by       *)
(* itself.                                                                 *)
(***************************************************************************)

\* Every step of the model keeps the variables in their types.
LEMMA TypeStep == ApiInv /\ [Next]_vars => TypeOK'
<1> SUFFICES ASSUME ApiInv, [Next]_vars PROVE TypeOK'
  OBVIOUS
<1> USE DEF ApiInv, TypeOK, Calls, Step
<1>1. CASE Caller
  BY <1>1 DEF Caller, CallAllocate, CallFree, CallDisable, CallEnable, Begin,
              pool, vmpage, masking
<1>2. CASE allocate_vmpage
  <2> USE DEF PageStep, masking
  <2>1. ASSUME NEW f \in Frames,
               alloc_page(f) \/ inTaskWithOptions(f) \/ MmAllocatePagesForMdlEx(f)
        PROVE  TypeOK'
    <3>1. PICK z \in BOOLEAN : Acquire(f, z)
      BY <2>1 DEF alloc_page, inTaskWithOptions, MmAllocatePagesForMdlEx
    <3>2. zeroed' \in [Frames -> BOOLEAN]
      <4> DEFINE b == z \/ zeroed[f]
      <4>1. b \in BOOLEAN
        OBVIOUS
      <4>2. zeroed' = [zeroed EXCEPT ![f] = b]
        BY <3>1 DEF Acquire
      <4> HIDE DEF b
      <4> QED
        BY <4>1, <4>2
    <3>3. mdls' \in 0..MaxMdls
      <4>1. (mdls' = mdls) \/ (mdls < MaxMdls /\ mdls' = mdls + 1)
        BY <2>1, Zenon DEF alloc_page, inTaskWithOptions, MmAllocatePagesForMdlEx
      <4> QED
        BY <4>1, MaxMdlsAssumption
    <3> QED
      BY <2>1, <3>1, <3>2, <3>3
         DEF alloc_page, inTaskWithOptions, MmAllocatePagesForMdlEx, Acquire
  <2>2. CASE alloc_page_NULL \/ inTaskWithOptions_NULL \/ MmAllocatePagesForMdlEx_NULL
    BY <2>2 DEF alloc_page_NULL, inTaskWithOptions_NULL,
                MmAllocatePagesForMdlEx_NULL, AcquireFails, pool
  <2>3. CASE kmap \/ prepare \/ memset \/ MmMapLockedPagesSpecifyCache
    <3>1. page[slot] \in Frames /\ slot \in Slots
      BY <2>3 DEF kmap, prepare, memset, MmMapLockedPagesSpecifyCache, PageInv,
                  Pending
    <3> QED
      BY <2>3, <3>1 DEF kmap, prepare, memset, MmMapLockedPagesSpecifyCache,
                        Map, StoreAddress, vmpage
  <2>4. CASE prepare_fails \/ MmMapLockedPagesSpecifyCache_NULL \/ Undo
    BY <2>4 DEF prepare_fails, MmMapLockedPagesSpecifyCache_NULL, Undo, pool, vmpage
  <2> QED
    BY <1>2, <2>1, <2>2, <2>3, <2>4 DEF allocate_vmpage
<1>3. CASE free_vmpage
  BY <1>3 DEF free_vmpage, kunmap, complete, MmUnmapLockedPages, __free_page,
              release, MmFreePagesFromMdl, Unmap, Release, PageStep, masking, vmpage
<1>4. CASE vmlatency_preempt_disable
  BY <1>4 DEF vmlatency_preempt_disable, preempt_disable, local_irq_save,
              IOSimpleLockAlloc, IOSimpleLockLockDisableInterrupt,
              KeRaiseIrqlToDpcLevel, __readeflags, _disable, Pin,
              DisableInterrupts, MaskStep, masking, pool, vmpage
<1>5. CASE vmlatency_preempt_enable
  BY <1>5 DEF vmlatency_preempt_enable, local_irq_restore, preempt_enable,
              IOSimpleLockUnlockEnableInterrupt, IOSimpleLockFree,
              __writeeflags, KeLowerIrql, Pin, RestoreInterrupts, MaskStep,
              masking, pool, vmpage
<1>6. CASE Kernel
  BY <1>6 DEF Kernel, OtherTakes, OtherGives, Interrupt, Migrate, PageStep,
              MaskStep, masking, pool, vmpage
<1>7. CASE UNCHANGED vars
  BY <1>7 DEF vars, pool, vmpage, masking
<1> QED
  BY <1>1, <1>2, <1>3, <1>4, <1>5, <1>6, <1>7 DEF Next, Api, Crashed

\* The bookkeeping of pages survives every step: those of the two page calls,
\* those of other owners of frames, and those that leave pages alone.
LEMMA PageStepInv == ApiInv /\ [Next]_vars => PageInv'
<1> SUFFICES ASSUME ApiInv, [Next]_vars PROVE PageInv'
  OBVIOUS
<1> USE NoneAssumption DEF ApiInv, TypeOK, Pending, Step
<1>1. CASE Caller
  BY <1>1 DEF PageInv, Caller, CallAllocate, CallFree, CallDisable, CallEnable,
              Begin, pool, vmpage, masking
<1>2. CASE allocate_vmpage
  <2> USE DEF PageStep, masking, PageInv
  <2>1. ASSUME NEW f \in Frames,
               alloc_page(f) \/ inTaskWithOptions(f) \/ MmAllocatePagesForMdlEx(f)
        PROVE  PageInv'
    <3>1. PICK z \in BOOLEAN : Acquire(f, z) /\ (platform # "mac" => z)
      BY <2>1 DEF alloc_page, inTaskWithOptions, MmAllocatePagesForMdlEx
    <3>2. /\ \A g \in Frames : zeroed[g] => zeroed'[g]
          /\ z => zeroed'[f]
      BY <3>1 DEF Acquire
    <3>3. pc = "acquire" /\ pc' = "map"
      BY <2>1 DEF alloc_page, inTaskWithOptions, MmAllocatePagesForMdlEx
    <3> HIDE DEF PageInv
    <3> QED
      BY <3>1, <3>2, <3>3 DEF Acquire, PageInv
  <2>2. CASE alloc_page_NULL \/ inTaskWithOptions_NULL \/ MmAllocatePagesForMdlEx_NULL
    BY <2>2 DEF alloc_page_NULL, inTaskWithOptions_NULL,
                MmAllocatePagesForMdlEx_NULL, AcquireFails, pool
  <2>3. CASE kmap \/ MmMapLockedPagesSpecifyCache
    BY <2>3 DEF kmap, MmMapLockedPagesSpecifyCache, Map, StoreAddress
  <2>4. CASE prepare
    BY <2>4 DEF prepare, Map, vmpage
  <2>5. CASE memset
    BY <2>5 DEF memset, StoreAddress
  <2>6. CASE prepare_fails \/ MmMapLockedPagesSpecifyCache_NULL
    BY <2>6 DEF prepare_fails, MmMapLockedPagesSpecifyCache_NULL, pool, vmpage
  <2>7. CASE Undo
    BY <2>7 DEF Undo, vmpage
  <2> QED
    BY <1>2, <2>1, <2>2, <2>3, <2>4, <2>5, <2>6, <2>7 DEF allocate_vmpage
<1>3. CASE free_vmpage
  <2> USE DEF PageStep, masking, PageInv
  <2>1. CASE Unmap
    BY <2>1 DEF Unmap, vmpage
  <2>2. CASE Release
    BY <2>2 DEF Release
  <2> QED
    BY <1>3, <2>1, <2>2 DEF free_vmpage, kunmap, complete, MmUnmapLockedPages,
                            __free_page, release, MmFreePagesFromMdl
<1>4. CASE vmlatency_preempt_disable
  BY <1>4 DEF PageInv, vmlatency_preempt_disable, preempt_disable, local_irq_save,
              IOSimpleLockAlloc, IOSimpleLockLockDisableInterrupt,
              KeRaiseIrqlToDpcLevel, __readeflags, _disable, Pin,
              DisableInterrupts, MaskStep, pool, vmpage
<1>5. CASE vmlatency_preempt_enable
  BY <1>5 DEF PageInv, vmlatency_preempt_enable, local_irq_restore,
              preempt_enable, IOSimpleLockUnlockEnableInterrupt,
              IOSimpleLockFree, __writeeflags, KeLowerIrql, Pin,
              RestoreInterrupts, MaskStep, pool, vmpage
<1>6. CASE Kernel
  <2>1. ASSUME NEW f \in Frames, OtherTakes(f) PROVE PageInv'
    BY <2>1 DEF PageInv, OtherTakes, PageStep, vmpage
  <2>2. ASSUME NEW f \in Frames, OtherGives(f) PROVE PageInv'
    BY <2>2 DEF PageInv, OtherGives, PageStep, vmpage
  <2>3. CASE Interrupt \/ \E c \in Cpus : Migrate(c)
    <3>1. UNCHANGED <<platform, pool, vmpage, pc, slot>>
      BY <2>3 DEF Interrupt, Migrate, MaskStep
    <3> QED
      BY <3>1 DEF PageInv, pool, vmpage
  <2> QED
    BY <1>6, <2>1, <2>2, <2>3 DEF Kernel
<1>7. CASE UNCHANGED vars
  BY <1>7 DEF PageInv, vars, pool, vmpage, masking
<1> QED
  BY <1>1, <1>2, <1>3, <1>4, <1>5, <1>6, <1>7 DEF Next, Api, Crashed

\* No step of free_vmpage() is refused by the kernel: what is unmapped is
\* mapped, and what is freed is the driver's.
LEMMA FreeIsLegal ==
  ApiInv => /\ pc = "unmap" => page[slot] \in mappings
            /\ pc = "release" =>
                 page[slot] \in Frames /\ holder[page[slot]] = "driver"
BY NoneAssumption DEF ApiInv, TypeOK, PageInv

\* Masking survives every step: those of the two masking calls, interrupts and
\* the scheduler, and those that leave the processors alone.
LEMMA MaskStepInv == ApiInv /\ [Next]_vars => MaskInv'
<1> SUFFICES ASSUME ApiInv, [Next]_vars PROVE MaskInv'
  OBVIOUS
<1> USE DEF ApiInv, TypeOK, Step
<1>1. CASE Caller
  BY <1>1 DEF MaskInv, Caller, CallAllocate, CallFree, CallDisable, CallEnable,
              Begin, masking
<1>2. CASE allocate_vmpage
  BY <1>2 DEF MaskInv, allocate_vmpage, alloc_page, inTaskWithOptions,
              MmAllocatePagesForMdlEx, Acquire, alloc_page_NULL,
              inTaskWithOptions_NULL, MmAllocatePagesForMdlEx_NULL, AcquireFails,
              kmap, prepare, memset, MmMapLockedPagesSpecifyCache, prepare_fails,
              MmMapLockedPagesSpecifyCache_NULL, Undo, PageStep, masking
<1>3. CASE free_vmpage
  BY <1>3, FreeIsLegal
     DEF MaskInv, free_vmpage, kunmap, complete, MmUnmapLockedPages, __free_page,
         release, MmFreePagesFromMdl, Unmap, Release, PageStep, masking
<1>4. CASE vmlatency_preempt_disable
  <2>1. CASE preempt_disable \/ KeRaiseIrqlToDpcLevel
    BY <2>1 DEF MaskInv, preempt_disable, KeRaiseIrqlToDpcLevel, Pin, MaskStep
  <2>2. CASE local_irq_save
    BY <2>2 DEF MaskInv, local_irq_save, DisableInterrupts, MaskStep
  <2>3. CASE __readeflags \/ _disable
    BY <2>3 DEF MaskInv, __readeflags, _disable, DisableInterrupts, MaskStep
  <2>4. CASE \E l \in {"null", "free"} : IOSimpleLockAlloc(l)
    BY <2>4 DEF MaskInv, IOSimpleLockAlloc, MaskStep
  <2>5. CASE IOSimpleLockLockDisableInterrupt
    BY <2>5 DEF MaskInv, IOSimpleLockLockDisableInterrupt, DisableInterrupts,
                MaskStep, masking
  <2> QED
    BY <1>4, <2>1, <2>2, <2>3, <2>4, <2>5 DEF vmlatency_preempt_disable
<1>5. CASE vmlatency_preempt_enable
  BY <1>5 DEF MaskInv, vmlatency_preempt_enable, local_irq_restore,
              preempt_enable, IOSimpleLockUnlockEnableInterrupt,
              IOSimpleLockFree, __writeeflags, KeLowerIrql, Pin,
              RestoreInterrupts, MaskStep
<1>6. CASE Kernel
  <2>1. CASE Interrupt \/ \E f \in Frames : OtherTakes(f) \/ OtherGives(f)
    BY <1>6, <2>1 DEF Kernel, MaskInv, OtherTakes, OtherGives, Interrupt,
                      PageStep, MaskStep, masking
  <2>2. ASSUME NEW c \in Cpus, Migrate(c) PROVE MaskInv'
    <3>1. ~pinned /\ irqs[cpu]
      BY <2>2 DEF Migrate, MaskInv
    <3>2. irqs' = irqs
      BY <2>2, <3>1 DEF Migrate, MaskInv
    <3> QED
      BY <2>2, <3>1, <3>2 DEF Migrate, MaskInv
  <2> QED
    BY <1>6, <2>1, <2>2 DEF Kernel
<1>7. CASE UNCHANGED vars
  BY <1>7 DEF MaskInv, vars, masking
<1> QED
  BY <1>1, <1>2, <1>3, <1>4, <1>5, <1>6, <1>7 DEF Next, Api, Crashed

-----------------------------------------------------------------------------
(***************************************************************************)
(* The theorems.                                                           *)
(***************************************************************************)

\* Every reachable state of the three builds satisfies the invariants.
THEOREM ApiCorrect == Spec => []ApiInv
<1>1. Init => ApiInv
  BY ApiInvInit
<1>2. ApiInv /\ [Next]_vars => ApiInv'
  BY TypeStep, PageStepInv, MaskStepInv DEF ApiInv
<1> QED
  BY <1>1, <1>2, PTL DEF Spec

\* Type correctness.
THEOREM ApiTypeCorrect == Spec => []TypeOK
<1>1. ApiInv => TypeOK
  BY DEF ApiInv
<1> QED
  BY <1>1, ApiCorrect, PTL

\* allocate_vmpage() and free_vmpage() lose no frame and no mapping, on any
\* path of any build.
THEOREM NoFrameLost == Spec => []NothingLost
<1>1. ApiInv => NothingLost
  BY NoneAssumption DEF ApiInv, TypeOK, PageInv, NothingLost, Ready, Pending
<1> QED
  BY <1>1, ApiCorrect, PTL

\* No frame is mapped by the driver while the kernel may give it to others.
THEOREM MappingsOwned == Spec => []NoStrayMapping
<1>1. ApiInv => NoStrayMapping
  BY NoneAssumption DEF ApiInv, TypeOK, PageInv, NoStrayMapping, Pending
<1> QED
  BY <1>1, ApiCorrect, PTL

\* Every page the caller holds was zero when allocate_vmpage() returned it.
THEOREM PagesComeZeroed == Spec => []PagesZeroed
<1>1. ApiInv => PagesZeroed
  BY DEF ApiInv, PageInv, PagesZeroed, Ready
<1> QED
  BY <1>1, ApiCorrect, PTL

\* A thread that may be switched out never has interrupts masked.
THEOREM MaskingOrdered == Spec => []SwitchableIsInterruptible
<1>1. ApiInv => SwitchableIsInterruptible
  BY DEF ApiInv, TypeOK, MaskInv, SwitchableIsInterruptible
<1> QED
  BY <1>1, ApiCorrect, PTL

\* Nothing else runs on the processor of a thread in its critical section.
THEOREM SectionExclusive == Spec => []SectionUndisturbed
<1>1. ApiInv => SectionUndisturbed
  BY DEF ApiInv, MaskInv, SectionUndisturbed
<1> QED
  BY <1>1, ApiCorrect, PTL

\* The API faults only on the macOS lock that was not allocated.
THEOREM FaultsAreLocks == Spec => []OnlyLockFaults
<1>1. ApiInv => OnlyLockFaults
  BY DEF ApiInv, MaskInv, OnlyLockFaults
<1> QED
  BY <1>1, ApiCorrect, PTL

-----------------------------------------------------------------------------
(***************************************************************************)
(* The refinement.                                                         *)
(***************************************************************************)

\* What PlatformService sees: the pages attached and the processor kept.
Attached == [s \in Slots |-> IF pc = "release" /\ s = slot THEN None ELSE ptr[s]]
Kept == IF irqs[cpu] THEN None ELSE cpu

\* The steps after which PlatformService sees nothing: no page is attached or
\* detached, no processor is taken or given back, the thread stays.
LEMMA Unseen ==
  ASSUME UNCHANGED <<Attached, Kept, cpu>>
  PROVE  UNCHANGED Service!vars
BY DEF Attached, Kept, Service!vars

\* A page call that stores an address attaches a page; one that unmaps
\* detaches it; every other one is unseen.
LEMMA PageSeen ==
  ASSUME ApiInv, allocate_vmpage \/ free_vmpage
  PROVE  [Service!Next]_(Service!vars)
<1> USE NoneAssumption DEF Step, PageStep, masking, Pending
<1>1. Kept' = Kept /\ cpu' = cpu
  BY DEF allocate_vmpage, free_vmpage, alloc_page, inTaskWithOptions,
         MmAllocatePagesForMdlEx, Acquire, alloc_page_NULL,
         inTaskWithOptions_NULL, MmAllocatePagesForMdlEx_NULL, AcquireFails,
         kmap, prepare, memset, MmMapLockedPagesSpecifyCache, prepare_fails,
         MmMapLockedPagesSpecifyCache_NULL, Undo, kunmap, complete,
         MmUnmapLockedPages, __free_page, release, MmFreePagesFromMdl, Unmap,
         Release, Kept
<1>2. CASE kmap \/ memset \/ MmMapLockedPagesSpecifyCache
  <2>1. slot \in Slots /\ page[slot] \in Frames /\ Attached[slot] = None
    BY <1>2 DEF ApiInv, PageInv, kmap, memset, MmMapLockedPagesSpecifyCache,
                Attached
  <2>2. \A t \in Slots : Attached[t] # page[slot]
    BY <1>2, <2>1 DEF ApiInv, PageInv, kmap, memset,
                      MmMapLockedPagesSpecifyCache, Attached
  <2>3. Attached' = [Attached EXCEPT ![slot] = page[slot]]
    BY <1>2, <2>1 DEF ApiInv, TypeOK, kmap, memset,
                      MmMapLockedPagesSpecifyCache, StoreAddress, Attached
  <2>4. PICK s \in Slots, f \in Frames : s = slot /\ f = page[slot]
    BY <2>1
  <2>5. Service!Allocate(s, f)
    BY <1>1, <2>1, <2>2, <2>3, <2>4 DEF Service!Allocate, Attached, Kept
  <2> QED
    BY <2>5 DEF Service!Next
<1>3. CASE kunmap \/ complete \/ MmUnmapLockedPages
  <2>1. pc = "unmap" /\ pc' = "release" /\ ptr' = ptr /\ slot' = slot
    BY <1>3, FreeIsLegal DEF kunmap, complete, MmUnmapLockedPages, Unmap, vmpage
  <2>2. slot \in Slots /\ ptr[slot] # None
    BY <2>1 DEF ApiInv, PageInv
  <2>3. Attached' = [Attached EXCEPT ![slot] = None] /\ Attached[slot] # None
    BY <2>1, <2>2 DEF Attached
  <2>4. PICK s \in Slots : s = slot
    BY <2>2
  <2>5. Service!Free(s)
    BY <1>1, <2>3, <2>4 DEF Service!Free, Attached, Kept
  <2> QED
    BY <2>5 DEF Service!Next
<1>4. CASE __free_page \/ release \/ MmFreePagesFromMdl
  <2>1. pc = "release" /\ pc' = "caller" /\ slot' = slot
        /\ ptr' = [ptr EXCEPT ![slot] = None]
    BY <1>4, FreeIsLegal DEF __free_page, release, MmFreePagesFromMdl, Release
  <2>2. Attached' = Attached
    BY <2>1 DEF ApiInv, TypeOK, PageInv, Attached
  <2> QED
    BY <1>1, <2>2, Unseen
<1>5. CASE alloc_page_NULL \/ inTaskWithOptions_NULL
           \/ MmAllocatePagesForMdlEx_NULL \/ prepare \/ prepare_fails \/ Undo
           \/ MmMapLockedPagesSpecifyCache_NULL
           \/ \E f \in Frames : \/ alloc_page(f) \/ inTaskWithOptions(f)
                                \/ MmAllocatePagesForMdlEx(f)
  <2>1. pc # "release" /\ pc' # "release" /\ ptr' = ptr
    BY <1>5 DEF ApiInv, TypeOK, PageInv, alloc_page, inTaskWithOptions,
                MmAllocatePagesForMdlEx, Acquire, alloc_page_NULL,
                inTaskWithOptions_NULL, MmAllocatePagesForMdlEx_NULL,
                AcquireFails, prepare, prepare_fails,
                MmMapLockedPagesSpecifyCache_NULL, Undo, vmpage
  <2>2. Attached' = Attached
    BY <2>1 DEF Attached
  <2> QED
    BY <1>1, <2>2, Unseen
<1> QED
  BY <1>2, <1>3, <1>4, <1>5 DEF allocate_vmpage, free_vmpage

\* The call that clears the interrupt flag takes the processor, the one that
\* restores it gives it back; every other one is unseen.
LEMMA MaskSeen ==
  ASSUME ApiInv, vmlatency_preempt_disable \/ vmlatency_preempt_enable
  PROVE  [Service!Next]_(Service!vars)
<1> USE DEF Step, MaskStep, vmpage
<1>1. /\ Attached' = Attached /\ cpu' = cpu
      /\ pc # "release" /\ pc' # "release"
  BY DEF vmlatency_preempt_disable, vmlatency_preempt_enable, preempt_disable,
         local_irq_save, local_irq_restore, preempt_enable, IOSimpleLockAlloc,
         IOSimpleLockLockDisableInterrupt, IOSimpleLockUnlockEnableInterrupt,
         IOSimpleLockFree, KeRaiseIrqlToDpcLevel, __readeflags, _disable,
         __writeeflags, KeLowerIrql, Pin, DisableInterrupts, RestoreInterrupts,
         Attached
<1>2. CASE irqs' = irqs
  BY <1>1, <1>2, Unseen DEF Kept
<1>3. CASE irqs' # irqs /\ irqs[cpu] /\ irqs' = [irqs EXCEPT ![cpu] = FALSE]
  <2>1. Kept = None /\ Kept' = cpu
    BY <1>1, <1>3 DEF Kept, ApiInv, TypeOK
  <2>2. Service!Mask
    BY <1>1, <2>1 DEF Service!Mask, Attached, Kept
  <2> QED
    BY <2>2 DEF Service!Next
<1>4. CASE irqs' # irqs /\ ~irqs[cpu] /\ irqs' = [irqs EXCEPT ![cpu] = TRUE]
  <2>1. Kept # None /\ Kept' = None
    BY <1>1, <1>4, NoneAssumption DEF Kept, ApiInv, TypeOK
  <2>2. Service!Unmask
    BY <1>1, <2>1 DEF Service!Unmask, Attached, Kept
  <2> QED
    BY <2>2 DEF Service!Next
<1>5. \/ irqs' = irqs
      \/ irqs[cpu] /\ irqs' = [irqs EXCEPT ![cpu] = FALSE]
      \/ ~irqs[cpu] /\ irqs' = [irqs EXCEPT ![cpu] = TRUE]
  BY DEF ApiInv, TypeOK, MaskInv, masking, vmlatency_preempt_disable,
         vmlatency_preempt_enable, preempt_disable,
         local_irq_save, local_irq_restore, preempt_enable, IOSimpleLockAlloc,
         IOSimpleLockLockDisableInterrupt, IOSimpleLockUnlockEnableInterrupt,
         IOSimpleLockFree, KeRaiseIrqlToDpcLevel, __readeflags, _disable,
         __writeeflags, KeLowerIrql, Pin, DisableInterrupts, RestoreInterrupts
<1> QED
  BY <1>2, <1>3, <1>4, <1>5

\* The caller, other code and interrupts are unseen; the scheduler moves the
\* thread only while it keeps no processor.
LEMMA RestSeen ==
  ASSUME ApiInv, Caller \/ Kernel \/ UNCHANGED vars
  PROVE  [Service!Next]_(Service!vars)
<1>1. CASE Caller
  <2>1. ptr' = ptr /\ irqs' = irqs /\ cpu' = cpu /\ pc # "release" /\ pc' # "release"
    BY <1>1 DEF Caller, CallAllocate, CallFree, CallDisable, CallEnable, Begin,
                vmpage, masking
  <2> QED
    BY <2>1, Unseen DEF Attached, Kept
<1>2. CASE Interrupt \/ \E f \in Frames : OtherTakes(f) \/ OtherGives(f)
  <2>1. ptr' = ptr /\ irqs' = irqs /\ cpu' = cpu /\ pc' = pc /\ slot' = slot
    BY <1>2 DEF Interrupt, OtherTakes, OtherGives, PageStep, MaskStep, vmpage,
                masking
  <2> QED
    BY <2>1, Unseen DEF Attached, Kept
<1>3. ASSUME NEW c \in Cpus, Migrate(c) PROVE Service!Next
  <2>1. irqs[cpu] /\ ptr' = ptr /\ pc' = pc /\ slot' = slot /\ cpu' = c
    BY <1>3 DEF Migrate, ApiInv, MaskInv, TypeOK, vmpage
  <2>2. irqs'[cpu']
    BY <1>3, <2>1 DEF Migrate, ApiInv, TypeOK
  <2>3. Service!Migrate(c)
    BY <2>1, <2>2 DEF Service!Migrate
  <2> QED
    BY <2>3 DEF Service!Next
<1>4. CASE UNCHANGED vars
  <2>1. ptr' = ptr /\ irqs' = irqs /\ cpu' = cpu /\ pc' = pc /\ slot' = slot
    BY <1>4 DEF vars, vmpage, masking
  <2> QED
    BY <2>1, Unseen DEF Attached, Kept
<1> QED
  BY <1>1, <1>2, <1>3, <1>4 DEF Kernel

\* The kernel calls of the three builds implement what vmm/vmx.c relies on.
THEOREM ApiImplementsService == Spec => ServiceKept
<1>1. Init => Service!Init
  BY DEF Init, Service!Init
<1>2. ApiInv /\ [Next]_vars => [Service!Next]_(Service!vars)
  BY PageSeen, MaskSeen, RestSeen DEF Next, Api, Crashed
<1> QED
  BY <1>1, <1>2, ApiCorrect, PTL DEF Spec, ServiceKept, Service!Spec

=============================================================================
