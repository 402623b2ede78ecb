# orbis-minhook_oosdk: models, checks and proofs

The repository is a port of MinHook to a console operating system: a library that
redirects functions of the running process to detours. This directory holds TLA+
modules of its core, TLC configurations that check them, and proofs checked by TLAPS.
Line numbers refer to `src/library/source/` unless a path is given.

## The system

| part | state | operations | uses |
|---|---|---|---|
| hook table (`hook.cpp`, `include/minhook.h`) | `g_hHeap`, `g_hooks`, the code of the targets | `MH_Initialize` ... `MH_ApplyQueued` | all below |
| spin lock (`hook.cpp:426-453`) | `g_isLocked` | `EnterSpinLock`, `LeaveSpinLock` | interlocked wrappers |
| slot allocator (`buffer.cpp`) | list of blocks, free lists, use counts | `AllocateBuffer`, `FreeBuffer`, `UninitializeBuffer` | `VirtualAlloc`, `VirtualFree` |
| trampoline builder (`trampoline.cpp`) | none between calls | `CreateTrampolineFunction` | decoder, `IsExecutableAddress` |
| thread freezing (`hook.cpp:156-338`) | a list of thread numbers per call | `Freeze`, `ProcessThreadIPs`, `Unfreeze` | thread wrappers, heap |
| system wrappers (`windows_wrapper.cpp`) | `allocatedMemory`, `flexibleMemory` | `VirtualProtect`, `HeapAlloc`, `OpenThread`, ... | the kernel |
| decoder (`hde/`) | none | `hde64_disasm` | |
| lookup by name (`hook.cpp:838-864`, `orbis.cpp`) | none | `MH_CreateHookApi`, `MH_CreateHookApiEx`, `GetByName`, `GetById` | the loader |
| example plugin (`src/example/`) | the hook it installs | `init`, `fini` | the exported functions |

A call locks, looks its target up, obtains a slot near it, builds trampoline and relay in
the slot, and appends an entry with a backup of the bytes the patch will overwrite.
Enabling writes a jump to the relay over them, disabling writes the backup back, removing
disables, frees the slot and moves the last entry into the hole. Detours call the
original through the trampoline.

What makes it hard: calls that fail half way (a bulk call at a page that cannot be
unprotected, a creation after its slot was taken); entries that move; code that is data,
read as backup and as prologue while other hooks are in place; several threads in the
library; threads that run the code being rewritten; pages that several patches share;
sizes at their limits (64-byte slots,
five-byte patches, the last slot of a page). What makes each part correct:

- table: one entry per target; code memory says what the flags say; backups are original
  code; slots neither leak nor are shared; an error changed nothing;
- lock: one caller inside, positions valid until used, always released;
- pages: executable whatever happens, writable while written, as before afterwards;
- heap: the two arrays keep their elements while they grow, shrink and move, and nothing
  on it is lost or used after it was freed;
- allocator: slots partitioned between free lists and callers, mapped while held, in reach
  of a 32-bit displacement;
- freezing: no thread runs half a patch, stays in a slot that is freed, skips or repeats an
  instruction, or stays suspended;
- builder: the trampoline fits, the patch overwrites only what was moved, instruction
  boundaries map back and forth, branches inside the moved code land.

## Modules

`HookService` is what the library promises one caller: a table of hooks and, for every
target, the function that a call of it runs. It knows no code memory, slot or array.

`MinHook` is `hook.cpp` with the code memory it patches. One action per exported function
covers everything the call does, with one disjunct per outcome; the error statuses are
those of `MH_STATUS`. Correspondence: `heap` is `g_hHeap # NULL`, `items` is
`g_hooks.pItems # NULL`, `hooks` the entries in use, `code` the bytes of the targets cut
into cells that patches write as a whole, `buffers` the slots handed out and what was
built in them, `status` the last result. Executability of pages, `VirtualProtect`, the
heap, the loader and `CreateTrampolineFunction` may fail at any call that uses them. The
geometry of patches (`Area`, `Prologue`) is a constant: any target with any cells. Calls
are atomic here; `HookLock` looks inside them. `MH_CreateHookApi` and `MH_CreateHookApiEx`
are a lookup that fails or `MH_CreateHook` of what was found; the loader reports a missing
module by a negative number, which passes for a handle, so that the status is that of a
missing function. `MinHook` implements `HookService`: what a target runs is read off the
code memory (`Runs`), not off the flags.

`HookLock` is the lock and what is done inside it, one access at a time: the heap looked
at (`g_hHeap`), created or destroyed, the position found, the pages unprotected, the jump
written, the pages protected again, the flag set, the count read, the count stored, the
entry filled. Several callers run `MH_Initialize`, `MH_Uninitialize`, create, remove,
enable, disable and queue, of one target or of all, and apply. What is called is chosen
when the lock is entered, since it matters to nobody before. Every exit that a function
has inside the lock is a step to `LeaveSpinLock`: not initialised, or already so
(`CheckHeap`); no heap (`CreateHeap`); not executable (`AfterHeap`); created already or
not at all (`AfterFind`); no slot, or code that cannot be moved (`Build`); no room
(`Count`); switched already, or a refused page (`Protect`). A lookup reads the table in
one step, and so does a loop that looks for its next entry; which slot an entry has, and
which status an exit reports, is `MinHook`'s. The interlocked wrappers
(`windows_wrapper.cpp:464-472`) return 0 and touch nothing in this build, and the calls
that would make them work are commented out: the constant `Interlocked` chooses between
the two.

`Protection` is `VirtualProtect` with its two conversions between the systems'
protections; `HookLock` instantiates it as `Memory`. `PatchPages` says which one or two
pages the patch of a target touches, and patches may share pages. The first
`VirtualProtect` may refuse, which ends the call. The second may refuse too, and nobody
looks: `refused` remembers that. From then on a page is writable between calls, a later
switch takes that for its old protection, and if its patch crosses into another page it
gives it to that one as well; so what is promised then is only that code can run
(`PagesUsable`), not that it is protected (`ProtectionRestored`). A patch that crosses is
taken to find one protection on both pages (`PagesAssumption`): the code saves that of the
first and gives it to both.

`HookHeap` is the private heap and the two arrays on it: the hooks (`AddHookEntry`,
`DeleteHookEntry`) and the thread list of a `Freeze` (`EnumerateThreads`, `Unfreeze`). The
arena of the C library is external: it gives a block that fits, or none. Its size is one
page of 4096 bytes, and as `sizeof(HOOK_ENTRY)` (56), `sizeof(DWORD)` (8 here) and the
initial capacities (32 and 128) are, no array can double on it (`PageAssumption`); growth,
shrinking and `HeapReAlloc`'s copy are checked on larger heaps, which the code would have
if `HeapCreate` asked for more. `HeapReAlloc` takes the size of the old block from
`stats.size`, which it does not initialise: `honest` says that the arena's statistics set
it. Heaps of any size come with either kind of statistics. On a larger heap with
statistics that set nothing the copy is cut short or overruns, as in the code, and
elements are lost: `ArraysKept` leaves those executions out, `TypeOK` and `HeapOwned`
include them.

`Buffer` is `buffer.cpp` with the two mapping wrappers: the block list in its order, each
free list in its order, the pages the kernel has mapped. `VirtualAlloc` maps any page or
none, since its address argument is a hint; unmapping may fail. Addresses are counted in
slots. `SlotPool` is what `MinHook` takes it to be; `Buffer` implements it.

`Trampoline` is `CreateTrampolineFunction`, one instruction a step. The function being
hooked is chosen as it is read: kind, length and branch destination of every instruction,
restricted only by what compiled code is (a branch goes to an instruction, not into one:
`Sane`, `SaneBranch`). Operand values and the 32-bit build are left out. It also holds
`FindOldIP` and `FindNewIP` as functions of the boundaries that the loop records.

`ThreadFreeze` is what `HookLock` and `MinHook` take as one step: `Freeze`, `EnableHookLL`
writing the pieces of a patch, `Unfreeze`, and other threads running the target, the
relay, the detour and the trampoline meanwhile. A thread is at an instruction; `done`
counts those of the target it has executed since it entered it, so that `ProcessThreadIPs`
can be judged by what it does to the thread. `body` says what was moved: plain
instructions, a conditional jump, a call, a return. The copy of a call or a conditional
jump is two instructions (`trampoline.cpp:72-85`): a thread may stop at the second
(`HalfAt`), or be in the function that the copy calls and return to it (`CallOfSlot`), and
neither is an entry of `newIPs`, so `FindOldIP` leaves both where they are. The detour may
call the original (`callsOriginal`), as the example's does
(`src/example/source/prx.cpp:17`), and the caller may disable and remove such a hook at
any time. `FreeBuffer` sends whoever is in the slot, or is to return to it, to the place
`Freed`; `Torn` is the place of a thread that ran half a patch or from the middle of one.
`CanOpen` says whether `OpenThread` and `SuspendThread` reach a thread; `Refusals` says
what the kernel may refuse, a page to `VirtualProtect` or the context of a thread, and
`refused` remembers that it did. The calls are create, enable, disable, disable all,
queue, apply, remove and uninitialize, each with the action its code passes to `Freeze`.
There is one hook. Assumed of the world: no thread starts during a freeze, and the calls
of the library come one at a time. `Entries` are the moved instructions to which the rest
of the target branches back; the builder sees the moved ones only, and a branch to any but
the first runs the middle of the jump once it is written. The instances have the first.

The `*_proofs` modules hold the proofs; the `MC*` modules the instances.

## Runs

| run | bounds | shows |
|---|---|---|
| `minhook_table` | 3 targets of 3 cells, 2 detours, 3 slots, room for 3 entries | the invariants and the two action properties of `MinHook`; `MinHook` implements `HookService` |
| `lock` | 2 threads, 3 targets on 3 pages, room for 2 entries, working interlocked functions | mutual exclusion, fresh positions, a whole table, pages usable and restored; each exit of each function lets go of the lock |
| `lock_stub` (violated) | the same with the wrappers of this build | two threads are inside at once |
| `buffer` | 2 pages of 3 slots, 3 functions | partition, mapping, reach of reused blocks, `Buffer` implements `SlotPool` |
| `buffer_reach` (violated) | the same | a new block may be out of reach |
| `trampoline` | all kinds, the lengths x86-64 gives them | fit, patch, boundaries, forward branches |
| `trampoline_branch` (violated) | the same | a backward branch may miss its instruction |
| `heap` | 5 hooks, 3 threads, arrays of 2 elements at first; heaps on which no array can double, each once, the hooks twice, with statistics that tell sizes or not | the arrays keep their elements, the heap's blocks are theirs |
| `thread_freeze` | 2 threads, 3 moved instructions (with a call, a conditional jump or a return), both shapes of patch, working wrappers, a kernel that may refuse pages and contexts; create, enable, bulk disable, queue, apply, remove, uninitialize | places are kept and threads run again whatever is refused; unless something was, nobody runs half a patch, and only threads of expanded copies stay in the slot of a disabled hook |
| `thread_disable` (violated) | plain instructions, nothing refused, `MH_DisableHook` of the one target | threads stay in the slot |
| `thread_refused` (violated) | plain instructions, a `VirtualProtect` that may refuse | moved threads are in the wrong code |
| `thread_stub` (violated) | plain instructions, the thread wrappers of this build | a thread runs half a patch |

Why the bounds are enough. Three entries are the least in which a removal moves an entry
that is neither first nor alone and a bulk call can stop with entries switched before and
left after it; in `lock`, with two, the array gets full while a target is still unhooked
(with a fourth target `minhook_table` is too large; there `AddHookEntry` fails only before
there is an array, and `FailuresAreComplete` proves the rollback for every capacity).
Targets, detours, slots and the hooks of `heap` are only compared, never ordered, so
symmetry is used (not in `lock`, which checks liveness). In `lock` one patch lies on a
page, one crosses from it into a second, and one is alone on a page that cannot even be
read: two patches share a page, and each protection that code has is translated there and
back. In `heap` five hooks fill an array that doubled once and start to fill one that
doubled twice, and removing them shrinks it again; three threads make the list double; two
pages let one be lost. In `buffer` two pages make a block list with a head and a tail, and
each page is out of the range of one function, on either side; the second page straddles
the end of one range. In `Trampoline` the patch has five bytes, so five instructions are
moved at most; plain instructions of 6 to 15 bytes end the loop alike and 15, the longest,
stands for them. `Trampoline` really stops when the function is built or refused, so
deadlock is not checked there. It is checked everywhere else. In `ThreadFreeze` two
threads are enough to have one suspended while the other runs into the patch, and three
instructions have a first, which may be entered, a middle and a last; the thread list has
room for both. A call or a return can only be the last, since a call has five bytes and a
return ends the copy; a conditional jump is in the middle, with a place before and one
after its copy.

Fairness. `HookLock`: weak fairness of every thread's steps inside a call. The kernel goes
on scheduling threads and no step inside the lock waits for anything. Nothing is assumed
about a caller that spins, and no thread has to call. `ThreadFreeze`: weak fairness of the
caller's steps, which wait for no other thread either; the frozen threads need not run.

## What the violated runs say

- `buffer_reach`: `GetMemoryBlock` range-checks the blocks it reuses (property
  `ReusedSlotsReachable` of run `buffer`, proved below) but not the block it maps
  (`buffer.cpp:222`); the displacements at `trampoline.cpp:157` and `hook.cpp:364` are
  then truncated.
- `trampoline_branch`: with a 2-byte conditional jump out of the function followed by a
  jump back to its start and a return, the first instruction grows to 16 bytes, and the
  copied jump goes back only two.
- `lock_stub`: nothing keeps two threads apart in this build. All results of `MinHook`
  therefore hold for callers that take turns.
- `thread_disable`: `EnableHook` passes `ACTION_ENABLE` both ways (`hook.cpp:700`), so
  that a thread in the relay or, moved there when the hook was enabled, in the trampoline
  is left there; removing the disabled hook then frees the slot without looking.
- `thread_refused`: `Freeze` moves threads before `VirtualProtect` is asked
  (`hook.cpp:354`), and nothing moves them back when it refuses.
- `thread_stub`: in this build no thread is found or suspended (`windows_wrapper.cpp:401`,
  `428`), so what `thread_freeze` shows holds only once those wrappers work.

Three more things that the code does to threads are in `ThreadFreeze` and visible in what
its properties leave out. A thread at the second instruction of an expanded copy, or in
the function that the copy of a call runs, is not moved out of the slot of a hook that is
being disabled, because `newIPs` has only the first (`hook.cpp:163-175`); `MH_RemoveHook`
then frees the slot under it. `DisabledSlotLeft` says that, among hooks whose detour does
not call the original, these threads (`LeftBehind`) and those that they become are the
only ones. If the detour does call the original, nothing keeps a hook from being removed
while a thread is in the detour or in the trampoline; for those hooks only
`PatchNeverTorn` and `PlaceKept` say anything. And when the kernel refuses a context, the
thread is frozen inside the bytes that are overwritten, so `PatchNeverTorn` is stated up
to the first refusal.

## Proofs

TLAPS proves, for every value of the constants that the assumptions below allow:

- `MinHook_proofs`: `Spec => []` of `TypeOK`, `OneHookPerTarget`, `BuffersOwnedOnce`,
  `CodeMatchesHooks`, `OriginalKept` and `CleanWhenDown`. They are proved as one invariant,
  `IInv`, because none is inductive alone: that disabling restores the original code needs
  `OriginalKept`; that a new backup is original needs `CodeMatchesHooks` and that the target
  has no entry; that a patch names its hook needs `BuffersOwnedOnce`; that moving the last
  entry loses nothing needs `OneHookPerTarget`. The actions reduce to five lemmas, one for
  each way in which the table changes: switching any set of entries to any states,
  setting wishes, adding an entry, removing one, and only reporting.
- `HookLock_proofs`: `Spec => []MutualExclusion`, from the invariant that the flag is set
  exactly while a caller is inside.
- `HookTable_proofs`: `Spec => []` of `TypeOK`, `PositionsFresh`, `TableConsistent`,
  `PagesUsable` and `ProtectionRestored` of `HookLock`, for any number of callers,
  targets, pages and entries. The invariant `TableInv` says what holds at each place where
  the one caller inside can be: between the jump and its flag the code of one target is
  ahead of the table (`Half`), between the two calls of `VirtualProtect` the saved
  protection stands for that of the patch (`Unprotected`), while the array grows or
  shrinks its last element is no entry (`AtRestButLast`); everywhere else the table is
  `AtRest`, which is what the next caller finds because `MutualExclusion` lets nobody else
  in before. Each step has a lemma that leads from one place to the next. The heap exists
  wherever a caller works on the table (all places but `Heapless`), and an
  `MH_Uninitialize` leaves no enabled entry behind it (`Passed`). That the translation
  there and back is harmless is `ProtectionRoundTrip`.
- `MinHookService_proofs`: `MinHook` implements `HookService` (`RefinesService`), and its
  two action properties: a failing call is `Undone`, and nothing queued is lost. The
  refinement mapping reads the service's table off the entries and what a target runs off
  the code; `View` says what both come to in a state that satisfies `IInv`: the table has
  the entry of each hooked target (`OneHookPerTarget`), and a target runs the relay of its
  enabled hook or its own code (`CodeMatchesHooks`, `BuffersOwnedOnce`). Each call is then
  a call of the service or a stutter; a bulk call that stops half way is the service's
  partial switch, by the entries before the one that failed.
- `Buffer_proofs`: `TypeOK`, `SlotsPartitioned`, `HeldSlotsMapped`, the action property
  `ReusedSlotsReachable` and the refinement of `SlotPool`. The inductive invariant adds that
  each listed block has a slot in use and is mapped with a known size: a block whose last
  slot is freed leaves the list before it is unmapped, so no later call reuses it. Removing
  from the list and pushing onto a free list are lemmas about sequences without repetition.
- `Trampoline_proofs`: `TypeOK`, `FitsSlot`, `PatchOverwritesOnlyMoved`,
  `BoundariesRoundTrip` and `ForwardBranchesLand`, whatever lengths the instructions have.
  `BoundariesOK`: both positions grow strictly from boundary to boundary, so each of
  `FindOldIP` and `FindNewIP` finds at most one. `BranchesOK`: a forward branch has
  landed, or its destination is `Ahead`, as far from the copy as from the original; that
  holds because the loop refuses to resize an instruction before `jmpDest`, and it is what
  backward branches lack.
- `ThreadFreeze_proofs`: `TypeOK` and `PlaceKept`, for any number of threads and of
  instructions under the patch, whatever the wrappers do, the kernel refuses, the rest of
  the target branches to and the callers call. Their invariant `Kept` ties the place of
  each thread to what it executed (`AfterSteps`) and puts nobody at the second half of a
  copy that has none (`Real`). `PatchNeverTorn` and `DisabledSlotLeft` are proved under
  `AllFrozen` (below), also for detours that call the original and for every kind of moved
  instruction. `IInv` adds to `Kept` what the caller's phase means (`PhaseOK`) and, until
  the kernel refuses something, where each thread may be (`ThreadsFit`): one already moved
  where the hook's next state wants it, any other where its state does (`SeesHook`,
  `FitsPatched`, `FitsUnpatched`); when the first piece is written all threads are of the
  first kind. `FitsUnpatched` allows for the slot what `FindOldIP` leaves there.
- `HookHeap_proofs`: `TypeOK`, `ArraysKept` and `HeapOwned`, for any hooks, threads,
  capacities and sizes. `IInv` adds which blocks are whose and that a `Freeze` runs only
  while there are hooks, so that the list of threads is the second array, and a copy in
  growing or shrinking the third block. What the arrays hold is part of it for a heap of
  one page or statistics that tell sizes (`Safe`). Where they do not tell sizes both
  arrays of the one page have their first capacity: `HeapReAlloc` never gets
  the memory for the copy that it would cut short or overrun (`TooSmall`). `MallocSpec` to
  `AppendedSpec` are the contracts of the heap and array operators, from which one lemma
  per action follows.

Assumptions. `CapacityAssumption`, `PlacesAssumption`, `GeometryAssumption`,
`LockAssumption`, `GarbageAssumption`, `SizeAssumption`, `ThreadAssumption` and
`HeapAssumption` only give the constants their types (a block has at least one slot besides
its header, pages are aligned to blocks) and keep `MH_ALL_HOOKS`, an unwritten element, a
null pointer and an original cell apart from other values; `PagesAssumption` is described
with `Protection`. The others say something of the code or the world:

- `PatchAssumption`: a patch overwrites some of its target's prologue. Long or short, it
  includes the first bytes of the target (`hook.cpp:340-371`).
- `LengthsAssumption`: an x86-64 instruction has 1 to 15 bytes, and one with a
  RIP-relative operand at least 6: opcode, ModR/M and the four bytes that
  `trampoline.cpp:133-157` rewrite.
- `PageAssumption`: see `HookHeap` above. It is used only where sizes are not told.
- `DisjointTargets`, a hypothesis of the theorems of `MinHook_proofs` and
  `MinHookService_proofs`: no target's patch or prologue reaches into another's. The library
  does not check it, and without it a backup may hold another hook's jump; in TLC's
  instances it holds.
- `Interlocked = TRUE`, a hypothesis of the theorems about `HookLock`: without it even
  `MutualExclusion` fails, as `lock_stub` shows.
- `AllFrozen`, a hypothesis of `PatchIsNeverTorn` and `DisabledSlotsAreLeft`: the thread
  wrappers work (else `thread_stub`), nobody calls `MH_DisableHook` for a single hook
  (else `thread_disable`), the list of threads has room for all of them, for
  `EnumerateThreads` stops without a word when it cannot grow, and the rest of the target
  branches back to no moved instruction but the first. What the kernel refuses is not
  assumed away but remembered in `refused`, which the two properties name (else
  `thread_refused`).

Only model-checked: liveness (`LockReleased`, `ThreadsResumed`), which is out of the
prover's reach. What a violated run refutes is of course not proved either; for the
branches of `trampoline_branch` the true half is `ForwardBranchesLand`.

## Not modelled

The decoder is vendored and table-driven; its result is `Trampoline`'s input. Contents of
operands, detours and trampolines beyond what the properties tell apart, `printf` output
and `MH_StatusToString` are left out, and so are `GetByName` and `GetById`, which nobody
calls, and the free-region search of `buffer.cpp:88-147` with `VirtualQuery`, whose calls
are commented out. `QueryMemory` only asks the kernel (`Executable` in `MinHook`). The
example plugin initialises, creates, enables, disables and uninitialises: one of
`MinHook`'s behaviours, with no state of its own.

## Plan

In this order:

1. `MinHook` with targets whose patches overlap: what the callers are obliged to avoid.
2. `ThreadFreeze` with several hooks and with threads that start during a freeze; its proofs
   for `Operations` with `MH_DisableHook` of a hook whose slot is never given back.
3. That `HookLock`'s calls, which take many steps, are the single steps of `MinHook`: a
   refinement between the two.
