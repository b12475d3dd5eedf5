---------------------------- MODULE PlatformApi ----------------------------
(***************************************************************************)
(* linux/api.c, mac/api.cpp and win/api.c: the kernel calls behind         *)
(* allocate_vmpage(), free_vmpage(), vmlatency_preempt_disable() and       *)
(* vmlatency_preempt_enable(), one action per kernel call.  Between two of *)
(* them other kernel code takes and returns page frames, interrupts arrive *)
(* and the scheduler moves the thread, wherever the calls made so far let  *)
(* them.                                                                   *)
(*                                                                         *)
(* The caller keeps the discipline of vmm/vmx.c: it allocates a vmpage_t   *)
(* that holds no page, frees one that does, and does neither while         *)
(* interrupts are masked.                                                  *)
(***************************************************************************)
EXTENDS Integers

CONSTANTS
  Builds,     \* Builds considered.
  Slots,      \* The caller's vmpage_t objects.
  Frames,     \* Page frames of the machine.
  Cpus,       \* Logical processors.
  MaxMdls,    \* MDLs the non-paged pool of Windows has room for.
  None

ASSUME BuildsAssumption == Builds \subseteq {"linux", "mac", "win"}
ASSUME MaxMdlsAssumption == MaxMdls \in Nat
ASSUME NoneAssumption == None \notin Frames \cup Slots \cup Cpus

VARIABLES
  platform,   \* The build; never changes.
  \* --- the kernel's memory
  holder,     \* Who has a frame: the free list, the driver, other code.
  zeroed,     \* Whether the frame's contents are zero.
  mappings,   \* Frames the driver has mapped (on macOS: prepared).
  mdls,       \* MDLs allocated and not freed.
  \* --- vmpage_t
  page,       \* The private handle: struct page, descriptor or MDL.
  ptr,        \* The address p of the mapped page.
  \* --- the processors
  irqs,       \* Whether interrupts are enabled (RFLAGS.IF).
  pinned,     \* Preemption disabled, lock held, or IRQL above PASSIVE_LEVEL.
  intruded,   \* Other code has run on the thread's processor since the
              \* critical section began.
  \* --- the thread
  cpu,
  pc,         \* The kernel call it is about to make.
  slot,       \* The argument of the API call in progress.
  saved,      \* irq_flags: the interrupt flag to restore.
  lock        \* macOS: IOSimpleLock of irq_flags: "null", "free", "held".

pool == <<holder, zeroed, mappings, mdls>>
vmpage == <<page, ptr>>
masking == <<irqs, pinned, intruded, saved, lock>>
vars == <<platform, pool, vmpage, masking, cpu, pc, slot>>

Init ==
  /\ platform \in Builds
  /\ holder = [f \in Frames |-> "free"]
  /\ zeroed \in [Frames -> BOOLEAN]
  /\ mappings = {} /\ mdls = 0
  /\ page = [s \in Slots |-> None] /\ ptr = [s \in Slots |-> None]
  /\ irqs = [c \in Cpus |-> TRUE]
  /\ pinned = FALSE /\ intruded = FALSE
  /\ cpu \in Cpus
  /\ pc = "caller" /\ slot = None
  /\ saved = TRUE /\ lock = "null"

\* On build b, the thread goes from kernel call x to kernel call y.
Step(b, x, y) == platform = b /\ pc = x /\ pc' = y

\* The steps of an API call on pages, and those of one that masks interrupts.
PageStep == UNCHANGED <<platform, masking, cpu, slot>>
MaskStep == UNCHANGED <<platform, pool, vmpage, cpu, slot>>

-----------------------------------------------------------------------------
(***************************************************************************)
(* The caller.                                                             *)
(***************************************************************************)

\* The caller begins an API call.
Begin(x, call, s) ==
  /\ pc = x /\ pc' = call
  /\ slot' = s
  /\ UNCHANGED <<platform, pool, vmpage, masking, cpu>>

\* allocate_memory() and free_memory().
CallAllocate(s) == ptr[s] = None /\ Begin("caller", "acquire", s)
CallFree(s) == ptr[s] # None /\ Begin("caller", "unmap", s)

\* measure_vmlatency(), and its label out2.
CallDisable == Begin("caller", "pin", slot)
CallEnable == Begin("section", "restore", slot)

-----------------------------------------------------------------------------
(***************************************************************************)
(* allocate_vmpage().                                                      *)
(***************************************************************************)

\* The kernel hands frame f to the driver, zeroed or as it is.
Acquire(f, zero) ==
  /\ holder[f] = "free"
  /\ holder' = [holder EXCEPT ![f] = "driver"]
  /\ zeroed' = [zeroed EXCEPT ![f] = zero \/ @]
  /\ page' = [page EXCEPT ![slot] = f]
  /\ PageStep /\ UNCHANGED <<mappings, ptr>>

\* The kernel has no memory: the handle is NULL and -1 is returned.
AcquireFails ==
  page' = [page EXCEPT ![slot] = None] /\ PageStep /\ UNCHANGED <<pool, ptr>>

\* The page is mapped; its address is stored.
Map == mappings' = mappings \cup {page[slot]}
StoreAddress == ptr' = [ptr EXCEPT ![slot] = page[slot]]

\* Linux: a page that is zero, then its mapping, which cannot fail.
alloc_page(f) ==
  Step("linux", "acquire", "map") /\ Acquire(f, TRUE) /\ UNCHANGED mdls

alloc_page_NULL == Step("linux", "acquire", "caller") /\ AcquireFails

kmap ==
  /\ Step("linux", "map", "caller")
  /\ Map /\ StoreAddress
  /\ PageStep /\ UNCHANGED <<holder, zeroed, mdls, page>>

\* macOS: a descriptor with memory that holds anything, prepared and then
\* cleared.  When prepare() fails the descriptor is released; p->page keeps
\* its address.
inTaskWithOptions(f) ==
  Step("mac", "acquire", "map") /\ Acquire(f, FALSE) /\ UNCHANGED mdls

\* A mutant of inTaskWithOptions_NULL without the test of p->page.
MutUntestedAlloc == Step("mac", "acquire", "map") /\ AcquireFails

inTaskWithOptions_NULL == Step("mac", "acquire", "caller") /\ AcquireFails

prepare ==
  /\ Step("mac", "map", "memset")
  /\ Map
  /\ PageStep /\ UNCHANGED <<holder, zeroed, mdls, vmpage>>

prepare_fails ==
  Step("mac", "map", "undo") /\ PageStep /\ UNCHANGED <<pool, vmpage>>

\* A mutant of memset that leaves the page as it is.
MutNoMemset ==
  /\ Step("mac", "memset", "caller")
  /\ StoreAddress
  /\ PageStep /\ UNCHANGED <<pool, page>>

\* getBytesNoCopy() and memset().
memset ==
  /\ Step("mac", "memset", "caller")
  /\ StoreAddress
  /\ zeroed' = [zeroed EXCEPT ![page[slot]] = TRUE]
  /\ PageStep /\ UNCHANGED <<holder, mappings, mdls, page>>

\* Windows: an MDL with a page that is zero (no flag says otherwise), then
\* its mapping.  When that fails the page is freed; p->mdl keeps its address.
MmAllocatePagesForMdlEx(f) ==
  /\ Step("win", "acquire", "map")
  /\ mdls < MaxMdls /\ mdls' = mdls + 1
  /\ Acquire(f, TRUE)

MmAllocatePagesForMdlEx_NULL == Step("win", "acquire", "caller") /\ AcquireFails

MmMapLockedPagesSpecifyCache ==
  /\ Step("win", "map", "caller")
  /\ Map /\ StoreAddress
  /\ PageStep /\ UNCHANGED <<holder, zeroed, mdls, page>>

\* A mutant of MmMapLockedPagesSpecifyCache_NULL without the test of p->p: the
\* page is returned to the caller without an address, and not freed.
MutUntestedMapping ==
  /\ Step("win", "map", "caller")
  /\ PageStep /\ UNCHANGED <<pool, vmpage>>

MmMapLockedPagesSpecifyCache_NULL ==
  /\ Step("win", "map", "undo")
  /\ ptr' = [ptr EXCEPT ![slot] = None]
  /\ PageStep /\ UNCHANGED <<pool, page>>

\* A mutant of Undo that tries again instead of returning -1.
MutRetry ==
  /\ pc = "undo" /\ pc' = "acquire"
  /\ holder' = [holder EXCEPT ![page[slot]] = "free"]
  /\ PageStep /\ UNCHANGED <<zeroed, mappings, mdls, vmpage>>

\* The failure path of both: p->page->release(), MmFreePagesFromMdl().  The
\* MDL itself is not freed.
Undo ==
  /\ pc = "undo" /\ pc' = "caller"
  /\ holder' = [holder EXCEPT ![page[slot]] = "free"]
  /\ PageStep /\ UNCHANGED <<zeroed, mappings, mdls, vmpage>>

-----------------------------------------------------------------------------
(***************************************************************************)
(* free_vmpage(): the mapping goes first, then the page.  The kernel stops *)
(* when it is asked to unmap what is not mapped, or to free what the       *)
(* driver does not have.                                                   *)
(***************************************************************************)

\* A mutant of Unmap that leaves the mapping to the release of the page.
MutNoUnmap ==
  /\ pc = "unmap" /\ pc' = "release"
  /\ PageStep /\ UNCHANGED <<pool, vmpage>>

Unmap ==
  /\ pc = "unmap"
  /\ pc' = IF page[slot] \in mappings THEN "release" ELSE "fault"
  /\ mappings' = mappings \ {page[slot]}
  /\ PageStep /\ UNCHANGED <<holder, zeroed, mdls, vmpage>>

kunmap == platform = "linux" /\ Unmap
complete == platform = "mac" /\ Unmap
MmUnmapLockedPages == platform = "win" /\ Unmap

\* A mutant of Release that leaves the fields as they are.
MutKeepPointers ==
  /\ pc = "release" /\ pc' = "caller"
  /\ holder' = [holder EXCEPT ![page[slot]] = "free"]
  /\ PageStep /\ UNCHANGED <<zeroed, mappings, mdls, vmpage>>

\* The page is freed and the fields become NULL.
Release ==
  /\ pc = "release"
  /\ pc' = IF page[slot] \in Frames /\ holder[page[slot]] = "driver"
           THEN "caller" ELSE "fault"
  /\ holder' = [holder EXCEPT ![page[slot]] = "free"]
  /\ page' = [page EXCEPT ![slot] = None]
  /\ ptr' = [ptr EXCEPT ![slot] = None]
  /\ PageStep /\ UNCHANGED <<zeroed, mappings, mdls>>

__free_page == platform = "linux" /\ Release
release == platform = "mac" /\ Release
MmFreePagesFromMdl == platform = "win" /\ Release

-----------------------------------------------------------------------------
(***************************************************************************)
(* vmlatency_preempt_disable() and vmlatency_preempt_enable().             *)
(***************************************************************************)

\* The scheduler may no longer, or may again, take the processor away.
Pin(b) == pinned' = b /\ MaskStep /\ UNCHANGED <<irqs, intruded, saved, lock>>

\* Interrupts of this processor off, and the flag remembered is flag.
DisableInterrupts(flag) ==
  /\ irqs' = [irqs EXCEPT ![cpu] = FALSE]
  /\ saved' = flag /\ intruded' = FALSE
  /\ MaskStep

RestoreInterrupts ==
  irqs' = [irqs EXCEPT ![cpu] = saved] /\ MaskStep /\ UNCHANGED <<intruded, saved>>

\* Linux.
preempt_disable == Step("linux", "pin", "mask") /\ Pin(TRUE)

\* A mutant of local_irq_save that saves the flag and does not clear it.
MutNoMask ==
  /\ Step("linux", "mask", "section")
  /\ saved' = irqs[cpu] /\ intruded' = FALSE
  /\ MaskStep /\ UNCHANGED <<irqs, pinned, lock>>

local_irq_save ==
  /\ Step("linux", "mask", "section")
  /\ DisableInterrupts(irqs[cpu])
  /\ UNCHANGED <<pinned, lock>>

local_irq_restore ==
  Step("linux", "restore", "unpin") /\ RestoreInterrupts /\ UNCHANGED <<pinned, lock>>

preempt_enable == Step("linux", "unpin", "caller") /\ Pin(FALSE)

\* macOS: a spin lock is allocated and taken with interrupts disabled; NULL
\* is dereferenced when there is no memory for it.
IOSimpleLockAlloc(l) ==
  /\ Step("mac", "pin", "mask")
  /\ lock' = l
  /\ MaskStep /\ UNCHANGED <<irqs, pinned, intruded, saved>>

IOSimpleLockLockDisableInterrupt ==
  \/ /\ lock = "null"
     /\ Step("mac", "mask", "fault")
     /\ MaskStep /\ UNCHANGED masking
  \/ /\ lock = "free"
     /\ Step("mac", "mask", "section")
     /\ lock' = "held" /\ pinned' = TRUE
     /\ DisableInterrupts(irqs[cpu])

IOSimpleLockUnlockEnableInterrupt ==
  /\ Step("mac", "restore", "unpin")
  /\ RestoreInterrupts
  /\ lock' = "free" /\ pinned' = FALSE

\* IOSimpleLockFree(), and the field becomes NULL.
IOSimpleLockFree ==
  /\ Step("mac", "unpin", "caller")
  /\ lock' = "null"
  /\ MaskStep /\ UNCHANGED <<irqs, pinned, intruded, saved>>

\* Windows: raise the IRQL, save RFLAGS, CLI; write RFLAGS back, lower the
\* IRQL.
KeRaiseIrqlToDpcLevel == Step("win", "pin", "save") /\ Pin(TRUE)

__readeflags ==
  /\ Step("win", "save", "mask")
  /\ saved' = irqs[cpu]
  /\ MaskStep /\ UNCHANGED <<irqs, pinned, intruded, lock>>

_disable ==
  /\ Step("win", "mask", "section")
  /\ DisableInterrupts(saved)
  /\ UNCHANGED <<pinned, lock>>

\* A mutant of __writeeflags after which the IRQL is lowered with interrupts
\* still masked.
MutLowerFirst == Step("win", "restore", "unpin") /\ Pin(FALSE)

__writeeflags ==
  Step("win", "restore", "unpin") /\ RestoreInterrupts /\ UNCHANGED <<pinned, lock>>

KeLowerIrql == Step("win", "unpin", "caller") /\ Pin(FALSE)

-----------------------------------------------------------------------------
(***************************************************************************)
(* The rest of the kernel.                                                 *)
(***************************************************************************)

\* Other code takes a frame, writes to it, and gives it back.
OtherTakes(f) ==
  /\ holder[f] = "free"
  /\ holder' = [holder EXCEPT ![f] = "other"]
  /\ zeroed' = [zeroed EXCEPT ![f] = FALSE]
  /\ PageStep /\ UNCHANGED <<mappings, mdls, vmpage, pc>>

OtherGives(f) ==
  /\ holder[f] = "other"
  /\ holder' = [holder EXCEPT ![f] = "free"]
  /\ PageStep /\ UNCHANGED <<zeroed, mappings, mdls, vmpage, pc>>

\* An interrupt handler runs on the thread's processor.
Interrupt ==
  /\ irqs[cpu]
  /\ intruded' = TRUE
  /\ MaskStep /\ UNCHANGED <<irqs, pinned, saved, lock, pc>>

\* The scheduler switches the thread out, runs other code on its processor,
\* and resumes the thread on processor c.  Interrupts being off does not by
\* itself keep a thread that is not pinned: KeLowerIrql() and preempt_enable()
\* are scheduling points.  The interrupt flag goes with the thread.
Migrate(c) ==
  /\ ~pinned
  /\ cpu' = c
  /\ irqs' = [irqs EXCEPT ![cpu] = TRUE, ![c] = irqs[cpu]]
  /\ intruded' = TRUE
  /\ UNCHANGED <<platform, pool, vmpage, pinned, saved, lock, pc, slot>>

\* After a fault the machine has stopped.
Crashed == pc = "fault" /\ UNCHANGED vars

-----------------------------------------------------------------------------
allocate_vmpage ==
  \/ \E f \in Frames : \/ alloc_page(f) \/ inTaskWithOptions(f)
                       \/ MmAllocatePagesForMdlEx(f)
  \/ alloc_page_NULL \/ inTaskWithOptions_NULL \/ MmAllocatePagesForMdlEx_NULL
  \/ kmap \/ prepare \/ prepare_fails \/ memset
  \/ MmMapLockedPagesSpecifyCache \/ MmMapLockedPagesSpecifyCache_NULL \/ Undo

free_vmpage ==
  \/ kunmap \/ complete \/ MmUnmapLockedPages
  \/ __free_page \/ release \/ MmFreePagesFromMdl

vmlatency_preempt_disable ==
  \/ preempt_disable \/ local_irq_save
  \/ (\E l \in {"null", "free"} : IOSimpleLockAlloc(l))
  \/ IOSimpleLockLockDisableInterrupt
  \/ KeRaiseIrqlToDpcLevel \/ __readeflags \/ _disable

vmlatency_preempt_enable ==
  \/ local_irq_restore \/ preempt_enable
  \/ IOSimpleLockUnlockEnableInterrupt \/ IOSimpleLockFree
  \/ __writeeflags \/ KeLowerIrql

Caller == \/ \E s \in Slots : CallAllocate(s) \/ CallFree(s)
          \/ CallDisable \/ CallEnable

Api == \/ allocate_vmpage \/ free_vmpage
       \/ vmlatency_preempt_disable \/ vmlatency_preempt_enable

Kernel ==
  /\ pc # "fault"
  /\ \/ \E f \in Frames : OtherTakes(f) \/ OtherGives(f)
     \/ Interrupt
     \/ \E c \in Cpus : Migrate(c)

Next == Caller \/ Api \/ Kernel \/ Crashed

Spec == Init /\ [][Next]_vars

\* The thread is scheduled, and no kernel call blocks for ever.
FairSpec == Spec /\ WF_vars(Api)

-----------------------------------------------------------------------------
(***************************************************************************)
(* Properties.                                                             *)
(***************************************************************************)

Calls == {"caller", "acquire", "map", "memset", "undo", "unmap", "release",
          "pin", "save", "mask", "section", "restore", "unpin", "fault"}

TypeOK ==
  /\ platform \in Builds
  /\ holder \in [Frames -> {"free", "driver", "other"}]
  /\ zeroed \in [Frames -> BOOLEAN]
  /\ mappings \subseteq Frames
  /\ mdls \in 0..MaxMdls
  /\ page \in [Slots -> Frames \cup {None}]
  /\ ptr \in [Slots -> Frames \cup {None}]
  /\ irqs \in [Cpus -> BOOLEAN]
  /\ pinned \in BOOLEAN /\ intruded \in BOOLEAN
  /\ cpu \in Cpus
  /\ pc \in Calls
  /\ slot \in Slots \cup {None}
  /\ saved \in BOOLEAN
  /\ lock \in {"null", "free", "held"}

\* The vmpage_t that hold a page, as the caller sees it.
Ready == {s \in Slots : ptr[s] # None}

\* Between API calls the driver has exactly the frames and the mappings of
\* its ready pages: a failed allocate_vmpage() leaves nothing behind on any
\* of its paths, free_vmpage() gives everything back, and stale handles
\* (p->page after a failed prepare(), p->mdl after a failed mapping) own
\* nothing.
NothingLost ==
  pc \in {"caller", "section"} =>
    /\ {f \in Frames : holder[f] = "driver"} = {ptr[s] : s \in Ready}
    /\ mappings = {ptr[s] : s \in Ready}
    /\ \A s, t \in Ready : ptr[s] = ptr[t] => s = t

\* At no moment is a frame mapped that the kernel may give to somebody else:
\* the mapping is made after the frame is taken and undone before it is
\* given back.
NoStrayMapping == \A f \in mappings : holder[f] = "driver"

\* A page is zero when allocate_vmpage() returns it, whatever other code
\* wrote to the frame before: the bitmaps and regions of vm_monitor_t are
\* used as they come.
PagesZeroed == \A s \in Ready : zeroed[ptr[s]]

\* A thread that can be switched out has interrupts enabled: the two steps of
\* masking, and of unmasking, are in the right order.
SwitchableIsInterruptible == ~pinned => irqs[cpu]

\* No other code runs on the processor of a thread in its critical section,
\* and the interrupt flag it will restore is the one it found.
SectionUndisturbed == pc = "section" => ~intruded /\ saved

\* The only fault is the macOS lock that could not be allocated: no page is
\* unmapped or freed that is not the driver's.
OnlyLockFaults == pc = "fault" => platform = "mac" /\ lock = "null"

\* Every API call returns.
CallsReturn ==
  pc \notin {"caller", "section", "fault"} ~>
    pc \in {"caller", "section", "fault"}

\* The caller sees PlatformService.  A page is attached when its address is
\* stored and detached when its mapping goes; the processor is kept while
\* interrupts are off.
Service == INSTANCE PlatformService WITH
             pages <- [s \in Slots |->
                         IF pc = "release" /\ s = slot THEN None ELSE ptr[s]],
             kept <- IF irqs[cpu] THEN None ELSE cpu

ServiceKept == Service!Spec

-----------------------------------------------------------------------------
(***************************************************************************)
(* Why they hold: the invariants behind the properties.                    *)
(***************************************************************************)

\* Calls during which the page of slot is not yet, or no longer, the caller's.
Pending == {"map", "memset", "undo"}

\* Every frame the driver has is a ready page or the one it is allocating,
\* and what is mapped is exactly the ready pages, less the one being freed.
PageInv ==
  /\ pc \in Pending \cup {"acquire"} => slot \in Slots /\ ptr[slot] = None
  /\ pc \in {"unmap", "release"} => slot \in Slots /\ ptr[slot] # None
  /\ \A s \in Slots : ptr[s] # None =>
       page[s] = ptr[s] /\ holder[ptr[s]] = "driver" /\ zeroed[ptr[s]]
  /\ \A s, t \in Slots : ptr[s] # None /\ ptr[s] = ptr[t] => s = t
  /\ pc \in Pending =>
       /\ page[slot] \in Frames /\ holder[page[slot]] = "driver"
       /\ \A t \in Slots : ptr[t] # page[slot]
       /\ platform # "mac" => zeroed[page[slot]]
  /\ pc = "memset" => platform = "mac"
  /\ \A f \in Frames : holder[f] = "driver" =>
       \/ pc \in Pending /\ f = page[slot]
       \/ \E s \in Slots : ptr[s] = f
  /\ \A f \in Frames : f \in mappings <=>
       \/ pc = "memset" /\ f = page[slot]
       \/ \E s \in Slots : ptr[s] = f /\ ~(pc = "release" /\ s = slot)

\* Interrupts are off only on the thread's processor, in the section and up to
\* the call that restores them; the thread is pinned around that.
MaskInv ==
  /\ \A c \in Cpus : c # cpu => irqs[c]
  /\ irqs[cpu] <=> pc \notin {"section", "restore"}
  /\ pinned <=> \/ pc \in {"save", "section", "restore"}
                \/ pc \in {"mask", "unpin"} /\ platform # "mac"
  /\ pc \in {"section", "restore"} => saved /\ ~intruded
  /\ pc = "save" => platform = "win"
  /\ pc = "mask" /\ platform = "win" => saved
  /\ pc = "fault" => platform = "mac" /\ lock = "null"

=============================================================================
