------------------------------- MODULE HookLock -------------------------------
(***************************************************************************)
(* The spin lock of library/source/hook.cpp and the accesses to the table  *)
(* and to the pages it guards, step by step, for threads that call the     *)
(* library at once.                                                        *)
(*                                                                         *)
(* The lock is built on two wrappers of windows_wrapper.cpp that return 0  *)
(* and touch nothing (Interlocked = FALSE, what the build has); the calls  *)
(* commented out in them would make them atomic (Interlocked = TRUE, what  *)
(* hook.cpp is written for).                                               *)
(***************************************************************************)
EXTENDS Naturals, FiniteSets, Sequences

CONSTANTS
  Callers,      \* threads
  Targets,
  MH_ALL_HOOKS,
  Capacity,     \* INITIAL_HOOK_CAPACITY
  Interlocked,  \* the interlocked functions do what they are named for
  Garbage,      \* an array element nobody wrote
  Pages,
  CodeProtection,   \* the protection each page has when nobody patches it
  PatchPages        \* PatchPages[t]: the page or two that the patch of t touches

ASSUME LockAssumption ==
  /\ Capacity \in Nat /\ Interlocked \in BOOLEAN
  /\ MH_ALL_HOOKS \notin Targets

\* A patch that crosses into the next page finds the same protection there, and pages of
\* code can be executed.
ASSUME PagesAssumption ==
  /\ CodeProtection \in
       [Pages -> {{"exec"}, {"read", "exec"}, {"read", "write", "exec"}}]
  /\ PatchPages \in [Targets -> Seq(Pages) \ {<< >>}]
  /\ \A t \in Targets : \A i \in DOMAIN PatchPages[t] :
       CodeProtection[PatchPages[t][i]] = CodeProtection[PatchPages[t][1]]

VARIABLES
  g_isLocked,
  g_hHeap,        \* there is a heap: the library is initialised
  items, size,    \* g_hooks: the array, from 1, and how much of it is in use
  code,           \* code[t]: the jump is written at t
  pc,             \* what each caller does next
  call,           \* the function it called and for which target
  pos,            \* its local pos: the entry it works on
  count,          \* the g_hooks.size it read last
  prot,           \* the protection of each page
  oldProtect,     \* what VirtualProtect told each caller
  refused         \* history: a protection could not be restored

Memory == INSTANCE Protection

memory == <<code, prot, oldProtect, refused>>
table == <<items, size>>
locals == <<call, pos, count>>
vars == <<g_isLocked, g_hHeap, table, memory, pc, locals>>

Switching == {"enable", "disable", "apply", "uninitialize"}
Queueing == {"queueEnable", "queueDisable"}
OnTarget == {"create", "remove"}          \* for one target
OnLibrary == {"initialize", "uninitialize", "apply"}   \* no argument
Operations == OnTarget \cup OnLibrary \cup Switching \cup Queueing

Entry == [target: Targets, enabled: BOOLEAN, queued: BOOLEAN]

ASSUME GarbageAssumption == Garbage \notin Entry

Guarded == {"heap", "open", "find", "build", "next", "protect", "write", "restore", "flag",
            "queue", "move", "shrink", "count", "grow", "fill", "close", "reset", "leave"}

INVALID_HOOK_POS == 0
NoCall == <<>>

Init ==
  /\ g_isLocked = FALSE /\ g_hHeap = FALSE
  /\ items = [i \in 1 .. Capacity |-> Garbage] /\ size = 0
  /\ code = [t \in Targets |-> FALSE]
  /\ Memory!Init /\ refused = FALSE
  /\ oldProtect = [c \in Callers |-> "none"]
  /\ pc = [c \in Callers |-> "idle"]
  /\ call = [c \in Callers |-> NoCall]
  /\ pos = [c \in Callers |-> INVALID_HOOK_POS]
  /\ count = [c \in Callers |-> 0]

Goto(c, from, to) == pc[c] = from /\ pc' = [pc EXCEPT ![c] = to]
-----------------------------------------------------------------------------
(* The lock.                                                                   *)

\* A call of the library; what is called matters only inside the lock.
Call(c) ==
  /\ Goto(c, "idle", "enter")
  /\ UNCHANGED <<g_isLocked, g_hHeap, table, memory, locals>>

\* The functions and what they may be called for.
Calls ==
  (OnTarget \X Targets) \cup (OnLibrary \X {MH_ALL_HOOKS})
  \cup ((Operations \ (OnTarget \cup OnLibrary)) \X (Targets \cup {MH_ALL_HOOKS}))

Operation(c) == call[c][1]
Target(c) == call[c][2]

\* What InterlockedCompareExchange(&g_isLocked, TRUE, FALSE) returns and leaves.
WasLocked == Interlocked /\ g_isLocked

Store(value) == g_isLocked' = IF Interlocked THEN value ELSE g_isLocked

\* Slip: a test that does not wait.
EnterAtOnce(c) ==
  /\ Goto(c, "enter", "heap")
  /\ Store(TRUE)
  /\ \E called \in Calls : call' = [call EXCEPT ![c] = called]
  /\ UNCHANGED <<g_hHeap, table, memory, pos, count>>

\* The exchange that ends the loop; those before it and the sleeps change nothing.
EnterSpinLock(c) ==
  /\ Goto(c, "enter", "heap")
  /\ ~ WasLocked /\ Store(TRUE)
  /\ \E called \in Calls : call' = [call EXCEPT ![c] = called]
  /\ UNCHANGED <<g_hHeap, table, memory, pos, count>>

\* The locals go out of scope with the return.
LeaveSpinLock(c) ==
  /\ Goto(c, "leave", "idle")
  /\ Store(FALSE)
  /\ pos' = [pos EXCEPT ![c] = INVALID_HOOK_POS]
  /\ count' = [count EXCEPT ![c] = 0]
  /\ call' = [call EXCEPT ![c] = NoCall]
  /\ oldProtect' = [oldProtect EXCEPT ![c] = "none"]
  /\ UNCHANGED <<g_hHeap, table, code, prot, refused>>
-----------------------------------------------------------------------------
(* The heap: every function looks at it first.                                 *)

\* Where a function goes on once it has looked at g_hHeap; MH_CreateHook leaves also for a
\* target or a detour that cannot be executed, and calls for all hooks look no target up.
AfterHeap(c) ==
  IF Operation(c) = "initialize" THEN {IF g_hHeap THEN "leave" ELSE "open"}
  ELSE IF ~ g_hHeap THEN {"leave"}
  ELSE IF Operation(c) = "create" THEN {"find", "leave"}
  ELSE IF Target(c) # MH_ALL_HOOKS THEN {"find"}
  ELSE {IF Operation(c) \in Queueing THEN "queue" ELSE "next"}

CheckHeap(c) ==
  /\ pc[c] = "heap" /\ \E to \in AfterHeap(c) : Goto(c, "heap", to)
  /\ UNCHANGED <<g_isLocked, g_hHeap, table, memory, locals>>

\* HeapCreate may fail, which ends MH_Initialize.
CreateHeap(c) ==
  /\ Goto(c, "open", "leave")
  /\ g_hHeap' \in BOOLEAN
  /\ UNCHANGED <<g_isLocked, table, memory, locals>>

\* MH_Uninitialize frees the buffers, the array and the heap, then forgets the size.
DestroyHeap(c) ==
  /\ Goto(c, "close", "reset")
  /\ g_hHeap' = FALSE
  /\ items' = [i \in 1 .. Capacity |-> Garbage]
  /\ UNCHANGED <<g_isLocked, size, memory, locals>>

Reset(c) ==
  /\ Goto(c, "reset", "leave")
  /\ size' = 0
  /\ UNCHANGED <<g_isLocked, g_hHeap, items, memory, locals>>
-----------------------------------------------------------------------------
(* Looking a target up.                                                        *)

Found(c) == {i \in 1 .. size : items[i] # Garbage /\ items[i].target = Target(c)}

\* The first position of S, none if there is none.
First(S, none) == IF S = {} THEN {none} ELSE {i \in S : \A j \in S : i <= j}

AfterFind(c) ==
  IF Operation(c) = "create" THEN (IF Found(c) = {} THEN "build" ELSE "leave")
  ELSE IF Found(c) = {} THEN "leave"
  ELSE IF Operation(c) \in Queueing THEN "queue" ELSE "protect"

\* Slip: an early return that forgets the lock.
FindHookEntryReturning(c) ==
  /\ Goto(c, "find", IF AfterFind(c) = "leave" THEN "idle" ELSE AfterFind(c))
  /\ \E i \in First(Found(c), INVALID_HOOK_POS) : pos' = [pos EXCEPT ![c] = i]
  /\ UNCHANGED <<g_isLocked, g_hHeap, table, memory, call, count>>

\* Slip: only the lookup is guarded.
FindHookEntryUnlocking(c) ==
  /\ Goto(c, "find", AfterFind(c))
  /\ \E i \in First(Found(c), INVALID_HOOK_POS) : pos' = [pos EXCEPT ![c] = i]
  /\ Store(FALSE)
  /\ UNCHANGED <<g_hHeap, table, memory, call, count>>

FindHookEntry(c) ==
  /\ Goto(c, "find", AfterFind(c))
  /\ \E i \in First(Found(c), INVALID_HOOK_POS) : pos' = [pos EXCEPT ![c] = i]
  /\ UNCHANGED <<g_isLocked, g_hHeap, table, memory, call, count>>
-----------------------------------------------------------------------------
(* Switching: unprotect the pages, write the jump or the backup, protect them  *)
(* again, set the flags.                                                       *)

Wanted(c, i) ==
  Operation(c) = "enable" \/ (Operation(c) = "apply" /\ items[i].queued)

ToSwitch(c) ==
  {i \in pos[c] + 1 .. size : items[i] # Garbage /\ items[i].enabled # Wanted(c, i)}

\* The loops of EnableAllHooksLL and MH_ApplyQueued go on to the next entry to switch; an
\* MH_Uninitialize that has switched all of them off gives everything up.
NextHook(c) ==
  /\ Goto(c, "next", IF ToSwitch(c) # {} THEN "protect"
                     ELSE IF Operation(c) = "uninitialize" THEN "close" ELSE "leave")
  /\ \E i \in First(ToSwitch(c), pos[c]) : pos' = [pos EXCEPT ![c] = i]
  /\ UNCHANGED <<g_isLocked, g_hHeap, table, memory, call, count>>

AfterSwitch(c) ==
  IF Operation(c) = "remove" THEN "move"
  ELSE IF Target(c) = MH_ALL_HOOKS THEN "next" ELSE "leave"

Item(c) == items[pos[c]]

PagesOf(c) == PatchPages[Item(c).target]

\* An entry that is as it should be is left alone; VirtualProtect may refuse, which ends
\* the call.
Protect(c) ==
  /\ UNCHANGED <<g_isLocked, g_hHeap, table, locals, code, refused>>
  /\ \/ /\ Goto(c, "protect", AfterSwitch(c)) /\ UNCHANGED <<prot, oldProtect>>
        /\ Item(c).enabled = Wanted(c, pos[c])
     \/ /\ Goto(c, "protect", "leave") /\ UNCHANGED <<prot, oldProtect>>
        /\ Item(c).enabled # Wanted(c, pos[c])
     \/ /\ Goto(c, "protect", "write")
        /\ Item(c).enabled # Wanted(c, pos[c])
        /\ oldProtect' = [oldProtect EXCEPT ![c] = Memory!OldProtect(PagesOf(c))]
        /\ Memory!VirtualProtect(PagesOf(c), "PAGE_EXECUTE_READWRITE")

Write(c) ==
  /\ Goto(c, "write", "restore")
  /\ code' = [code EXCEPT ![Item(c).target] = Wanted(c, pos[c])]
  /\ UNCHANGED <<g_isLocked, g_hHeap, table, locals, prot, oldProtect, refused>>

\* The result of the second VirtualProtect is not looked at.
Restore(c) ==
  /\ Goto(c, "restore", "flag")
  /\ \/ Memory!VirtualProtect(PagesOf(c), oldProtect[c]) /\ UNCHANGED refused
     \/ refused' = TRUE /\ UNCHANGED prot
  /\ oldProtect' = [oldProtect EXCEPT ![c] = "none"]
  /\ UNCHANGED <<g_isLocked, g_hHeap, table, locals, code>>

SetFlag(c) ==
  /\ Goto(c, "flag", AfterSwitch(c))
  /\ items' = [items EXCEPT ![pos[c]] = [Item(c) EXCEPT !.enabled = Wanted(c, pos[c]),
                                                        !.queued = Wanted(c, pos[c])]]
  /\ UNCHANGED <<g_isLocked, g_hHeap, size, memory, locals>>

QueueHook(c) ==
  LET written == {i \in DOMAIN items : items[i] # Garbage}
      changed == written \cap IF Target(c) = MH_ALL_HOOKS THEN 1 .. size ELSE {pos[c]}
  IN
  /\ Goto(c, "queue", "leave")
  /\ items' = [i \in DOMAIN items |->
                 IF i \in changed
                 THEN [items[i] EXCEPT !.queued = (Operation(c) = "queueEnable")]
                 ELSE items[i]]
  /\ UNCHANGED <<g_isLocked, g_hHeap, size, memory, locals>>
-----------------------------------------------------------------------------
(* Deleting and adding an entry.                                               *)

\* Slip: the last entry stays where it was.
MoveNothing(c) ==
  /\ Goto(c, "move", "shrink")
  /\ count' = [count EXCEPT ![c] = size]
  /\ UNCHANGED <<g_isLocked, g_hHeap, table, memory, call, pos>>

\* DeleteHookEntry: the last entry moves, then the count shrinks.
MoveLast(c) ==
  /\ Goto(c, "move", "shrink")
  /\ items' = [items EXCEPT ![pos[c]] = items[size]]
  /\ count' = [count EXCEPT ![c] = size]
  /\ UNCHANGED <<g_isLocked, g_hHeap, size, memory, call, pos>>

Shrink(c) ==
  /\ Goto(c, "shrink", "leave")
  /\ size' = count[c] - 1
  /\ UNCHANGED <<g_isLocked, g_hHeap, items, memory, locals>>

\* No slot is near enough, or CreateTrampolineFunction does not know the code.
Build(c) ==
  /\ \E to \in {"count", "leave"} : Goto(c, "build", to)
  /\ UNCHANGED <<g_isLocked, g_hHeap, table, memory, locals>>

\* Slip: > for >=.
HasRoomLoose == size <= Capacity

HasRoom == size < Capacity

\* AddHookEntry: the count is read, then stored; the fields are filled in later.
Count(c) ==
  /\ Goto(c, "count", IF HasRoom THEN "grow" ELSE "leave")
  /\ count' = [count EXCEPT ![c] = size]
  /\ UNCHANGED <<g_isLocked, g_hHeap, table, memory, call, pos>>

Grow(c) ==
  /\ Goto(c, "grow", "fill")
  /\ size' = count[c] + 1
  /\ UNCHANGED <<g_isLocked, g_hHeap, items, memory, locals>>

Fill(c) ==
  /\ Goto(c, "fill", "leave")
  /\ items' = [items EXCEPT ![count[c] + 1] =
                 [target |-> Target(c), enabled |-> FALSE, queued |-> FALSE]]
  /\ UNCHANGED <<g_isLocked, g_hHeap, size, memory, locals>>
-----------------------------------------------------------------------------
Step(c) ==
  \/ EnterSpinLock(c) \/ CheckHeap(c) \/ CreateHeap(c) \/ DestroyHeap(c) \/ Reset(c)
  \/ FindHookEntry(c) \/ NextHook(c)
  \/ Protect(c) \/ Write(c) \/ Restore(c) \/ SetFlag(c) \/ QueueHook(c)
  \/ MoveLast(c) \/ Shrink(c)
  \/ Build(c) \/ Count(c) \/ Grow(c) \/ Fill(c)
  \/ LeaveSpinLock(c)

Next ==
  \E c \in Callers : Call(c) \/ Step(c)

\* The kernel goes on running every thread that is in a call.
Spec == Init /\ [][Next]_vars /\ \A c \in Callers : WF_vars(Step(c))
-----------------------------------------------------------------------------
(* Properties.                                                                 *)

\* Every variable has its type; the array is never outgrown.
TypeOK ==
  /\ g_isLocked \in BOOLEAN /\ g_hHeap \in BOOLEAN
  /\ items \in [1 .. Capacity -> Entry \cup {Garbage}] /\ size \in 0 .. Capacity
  /\ code \in [Targets -> BOOLEAN]
  /\ pc \in [Callers -> Guarded \cup {"idle", "enter"}]
  /\ prot \in [Pages -> SUBSET Memory!Bits] /\ refused \in BOOLEAN
  /\ oldProtect \in [Callers -> Memory!WinProtections]
  /\ call \in [Callers -> Calls \cup {NoCall}]
  /\ pos \in [Callers -> 0 .. Capacity] /\ count \in [Callers -> 0 .. Capacity]

Inside(c) == pc[c] \in Guarded

\* "Wait until the flag is FALSE" (hook.cpp:430): one caller at a time works on the table.
MutualExclusion == \A c, d \in Callers : Inside(c) /\ Inside(d) => c = d

\* The entry a caller found is still the entry of its target when it patches, flags and
\* deletes it: nobody moved or removed it in between.
PositionsFresh ==
  \A c \in Callers : pc[c] \in {"protect", "write", "restore", "flag", "move"} =>
    /\ pos[c] \in 1 .. size
    /\ Item(c) # Garbage
    /\ Target(c) \in {Item(c).target, MH_ALL_HOOKS}

\* Between calls the table is whole: no garbage, one entry per target, flags that agree
\* with the code, no jump left where no entry is, and no entry left when the heap that held
\* them is gone.
TableConsistent ==
  (\A c \in Callers : ~ Inside(c)) =>
    /\ \A i \in 1 .. size : items[i] # Garbage /\ code[items[i].target] = items[i].enabled
    /\ \A i, j \in 1 .. size : items[i].target = items[j].target => i = j
    /\ \A t \in Targets : code[t] => \E i \in 1 .. size : items[i].target = t
    /\ ~ g_hHeap => size = 0

\* Whoever patches a page, its code can go on running, and a caller that writes a patch can
\* write all of it, also where patches share a page or cross into the next (hook.cpp:354).
PagesUsable ==
  /\ \A p \in Pages : CodeProtection[p] \subseteq prot[p]
  /\ \A c \in Callers : pc[c] = "write" =>
       \A i \in DOMAIN PagesOf(c) : "write" \in prot[PagesOf(c)[i]]

\* Between calls every page has the protection it was loaded with, through the translation
\* there and back (hook.cpp:378), unless the kernel refused to restore one: that is ignored.
ProtectionRestored ==
  (\A c \in Callers : ~ Inside(c)) /\ ~ refused => prot = CodeProtection

\* Every path out of every function lets go of the lock: not initialised or already so, no
\* heap, not executable, created already or not at all, no slot, unsupported, no room, switched
\* already, a protection refused in the first entry or a later one, and success.
LockReleased == g_isLocked ~> ~ g_isLocked
===============================================================================
