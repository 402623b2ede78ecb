------------------------------- MODULE MinHook -------------------------------
(***************************************************************************)
(* The hook table of library/source/hook.cpp and the code memory it        *)
(* patches, as one caller sees them: every exported function is one        *)
(* action.  Callers that race each other are module HookLock's subject.    *)
(*                                                                         *)
(* Code memory is cut into cells, the pieces that patches write as a whole.*)
(* A cell holds its Original bytes or (part of) a jump to a buffer's relay.*)
(***************************************************************************)
EXTENDS Naturals, Sequences, FiniteSets

CONSTANTS
  Targets,        \* functions callers hook
  Detours,        \* functions callers redirect them to
  Executable,     \* the Targets and Detours that IsExecutableAddress accepts
  Buffers,        \* slots AllocateBuffer can hand out
  Cells,          \* pieces of the targets' code
  Area,           \* Area[t][above]: the cells EnableHookLL writes at t
  Prologue,       \* Prologue[t]: the cells the trampoline of t replaces
  Capacity,       \* INITIAL_HOOK_CAPACITY; the one-page heap holds no larger array
  Original,       \* contents of a cell nobody patched
  MH_ALL_HOOKS    \* the NULL target

ASSUME CapacityAssumption == Capacity \in Nat
ASSUME PlacesAssumption ==
  /\ MH_ALL_HOOKS \notin Targets \cup Executable
  /\ Original \notin Buffers
ASSUME GeometryAssumption ==
  /\ Area \in [Targets -> [BOOLEAN -> SUBSET Cells]]
  /\ Prologue \in [Targets -> SUBSET Cells]

\* EnableHookLL always writes the first bytes of the target, long jump or short.
ASSUME PatchAssumption ==
  \A t \in Targets, above \in BOOLEAN : Area[t][above] \cap Prologue[t] # {}

VARIABLES
  libkernel,    \* lpLibkernelBase is known
  heap,         \* g_hHeap # NULL: the library is initialised
  items,        \* g_hooks.pItems # NULL
  hooks,        \* g_hooks.pItems[0 .. size-1], from 1 here
  code,         \* what each cell of code memory holds
  buffers,      \* the slots handed out -> the trampoline and relay built there
  status        \* what the last call returned

vars == <<libkernel, heap, items, hooks, code, buffers, status>>

Contents == Buffers \cup {Original}

\* Every piece of code t may depend on: two targets whose ranges meet spoil
\* each other's backups (see DisjointTargets below).
Extent(t) == Area[t][TRUE] \cup Area[t][FALSE] \cup Prologue[t]

(* HOOK_ENTRY.  pDetour is the relay inside the buffer, so the buffer stands   *)
(* for pTrampoline and for pDetour; the backup covers the cells of the patch.  *)
EntryAt(t, above) ==
  [target: {t}, buffer: Buffers, above: {above}, enabled: BOOLEAN, queued: BOOLEAN,
   backup: [Area[t][above] -> Contents]]

HookEntry == UNION {EntryAt(at[1], at[2]) : at \in Targets \X BOOLEAN}

(* What CreateTrampolineFunction writes to a slot.                             *)
BuiltFor(t) == [target: {t}, relay: Detours, prologue: [Prologue[t] -> Contents]]

BuiltBuffer == UNION {BuiltFor(t) : t \in Targets}

Statuses == {"MH_OK", "MH_ERROR_ALREADY_INITIALIZED", "MH_ERROR_NOT_INITIALIZED",
             "MH_ERROR_ALREADY_CREATED", "MH_ERROR_NOT_CREATED", "MH_ERROR_ENABLED",
             "MH_ERROR_DISABLED", "MH_ERROR_NOT_EXECUTABLE",
             "MH_ERROR_UNSUPPORTED_FUNCTION", "MH_ERROR_MEMORY_ALLOC",
             "MH_ERROR_MEMORY_PROTECT", "MH_ERROR_MODULE_NOT_FOUND",
             "MH_ERROR_FUNCTION_NOT_FOUND"}

Init ==
  /\ libkernel = FALSE /\ heap = FALSE /\ items = FALSE
  /\ hooks = <<>>
  /\ code = [c \in Cells |-> Original]
  /\ buffers = [b \in {} |-> Original]
  /\ status = "MH_OK"
-----------------------------------------------------------------------------
(* The table.                                                                  *)

INVALID_HOOK_POS == 0

Matches(t) == {i \in DOMAIN hooks : hooks[i].target = t}

\* Slip: the scan stops one entry early.
FindHookEntryShort(t) ==
  LET seen == {i \in Matches(t) : i < Len(hooks)} IN
  IF seen = {} THEN INVALID_HOOK_POS ELSE CHOOSE i \in seen : \A j \in seen : i <= j

FindHookEntry(t) ==
  IF Matches(t) = {} THEN INVALID_HOOK_POS
  ELSE CHOOSE i \in Matches(t) : \A j \in Matches(t) : i <= j

HasRoom == Len(hooks) < Capacity

\* Slip: the count shrinks but nothing moves.
DeleteHookEntryNoMove(pos) == [i \in 1 .. (Len(hooks) - 1) |-> hooks[i]]

\* The last entry moves into the hole.
DeleteHookEntry(pos) ==
  [i \in 1 .. (Len(hooks) - 1) |-> IF i = pos THEN hooks[Len(hooks)] ELSE hooks[i]]

\* A slot b taken from the allocator and filled, and a slot b given back to it.
Built(b, content) ==
  [s \in DOMAIN buffers \cup {b} |-> IF s = b THEN content ELSE buffers[s]]

\* Slip: the slot is forgotten, not given back.
FreeBufferNever(used, b) == used

FreeBuffer(used, b) == [s \in DOMAIN used \ {b} |-> used[s]]
-----------------------------------------------------------------------------
(* EnableHookLL, for each entry of S in table order: on[i] is the state entry  *)
(* i gets.  Where two areas meet the later write wins.                         *)

Patches(i) == Area[hooks[i].target][hooks[i].above]

Written(i, on, c) == IF on[i] THEN hooks[i].buffer ELSE hooks[i].backup[c]

\* Slip: disabling clears the flag but not the jump.
CodeAfterEnabling(S, on) ==
  [c \in Cells |-> LET writers == {i \in S : on[i] /\ c \in Patches(i)}
                  IN  IF writers = {} THEN code[c]
                      ELSE hooks[CHOOSE i \in writers : TRUE].buffer]

CodeAfter(S, on) ==
  [c \in Cells |->
     LET writers == {i \in S : c \in Patches(i)}
     IN  IF writers = {} THEN code[c]
         ELSE Written(CHOOSE i \in writers : \A j \in writers : i >= j, on, c)]

\* Slips: the wish is not brought in line with the state, or is taken for a to-do mark.
SwitchedOnly(h, state) == [h EXCEPT !.enabled = state]
SwitchedDone(h, state) == [h EXCEPT !.enabled = state, !.queued = FALSE]

Switched(h, state) == [h EXCEPT !.enabled = state, !.queued = state]

HooksAfter(S, on) ==
  [i \in DOMAIN hooks |-> IF i \in S THEN Switched(hooks[i], on[i]) ELSE hooks[i]]

All(state) == [i \in DOMAIN hooks |-> state]

Pending(on) == {i \in DOMAIN hooks : hooks[i].enabled # on[i]}

\* VirtualProtect may refuse at an entry f: the entries before f are switched,
\* f and the later ones are not.
Before(f, on) == {i \in Pending(on) : i < f}

SwitchHooks(on) ==
  /\ \/ /\ code' = CodeAfter(Pending(on), on)
        /\ hooks' = HooksAfter(Pending(on), on)
        /\ status' = "MH_OK"
     \/ \E f \in Pending(on) :
          /\ code' = CodeAfter(Before(f, on), on)
          /\ hooks' = HooksAfter(Before(f, on), on)
          /\ status' = "MH_ERROR_MEMORY_PROTECT"
  /\ UNCHANGED <<libkernel, heap, items, buffers>>

Fail(error) ==
  /\ status' = error
  /\ UNCHANGED <<libkernel, heap, items, hooks, code, buffers>>
-----------------------------------------------------------------------------
(* The exported functions.                                                     *)

MH_Initialize ==
  \/ ~libkernel /\ Fail("MH_ERROR_MODULE_NOT_FOUND")
  \/ /\ libkernel' = TRUE
     /\ \/ /\ heap /\ UNCHANGED heap
           /\ status' = "MH_ERROR_ALREADY_INITIALIZED"
        \/ ~heap /\ heap' = TRUE /\ status' = "MH_OK"
        \/ ~heap /\ UNCHANGED heap /\ status' = "MH_ERROR_MEMORY_ALLOC"
     /\ UNCHANGED <<items, hooks, code, buffers>>

\* Slip: the table is dropped without disabling its hooks.
MH_UninitializeOnly ==
  /\ heap
  /\ heap' = FALSE /\ items' = FALSE /\ hooks' = <<>>
  /\ buffers' = [b \in {} |-> Original]
  /\ status' = "MH_OK"
  /\ UNCHANGED <<libkernel, code>>

MH_Uninitialize ==
  \/ ~heap /\ Fail("MH_ERROR_NOT_INITIALIZED")
  \/ /\ heap
     /\ code' = CodeAfter(Pending(All(FALSE)), All(FALSE))
     /\ heap' = FALSE /\ items' = FALSE /\ hooks' = <<>>
     /\ buffers' = [b \in {} |-> Original]
     /\ status' = "MH_OK"
     /\ UNCHANGED libkernel
  \/ /\ heap
     /\ SwitchHooks(All(FALSE))
     /\ status' = "MH_ERROR_MEMORY_PROTECT"

\* The bytes above a target can hold the long jump only while they are padding.
CanPatchAbove(t) == \A c \in Area[t][TRUE] \ Prologue[t] : code[c] = Original

Trampoline(t, d) ==
  [target |-> t, relay |-> d, prologue |-> [c \in Prologue[t] |-> code[c]]]

\* Slip: the same bytes are backed up whether or not the patch reaches above the target.
NewEntryBelow(t, b, above) ==
  [target |-> t, buffer |-> b, above |-> above, enabled |-> FALSE, queued |-> FALSE,
   backup |-> [c \in Area[t][FALSE] |-> code[c]]]

NewEntry(t, b, above) ==
  [target |-> t, buffer |-> b, above |-> above, enabled |-> FALSE, queued |-> FALSE,
   backup |-> [c \in Area[t][above] |-> code[c]]]

\* Slip: a failing creation keeps its slot.
GiveBackNothing(b, t, d) ==
  /\ \/ status' = "MH_ERROR_UNSUPPORTED_FUNCTION"
     \/ ~ (items /\ HasRoom) /\ status' = "MH_ERROR_MEMORY_ALLOC"
  /\ buffers' = Built(b, Trampoline(t, d))
  /\ UNCHANGED <<libkernel, heap, items, hooks, code>>

\* The slot is given back when the prologue cannot be moved (UNSUPPORTED_FUNCTION)
\* or when there is no room, or no array yet, for another entry.
GiveBack(b, t, d) ==
  /\ \/ status' = "MH_ERROR_UNSUPPORTED_FUNCTION"
     \/ ~ (items /\ HasRoom) /\ status' = "MH_ERROR_MEMORY_ALLOC"
  /\ buffers' = FreeBuffer(Built(b, Trampoline(t, d)), b)
  /\ UNCHANGED <<libkernel, heap, items, hooks, code>>

AddHookEntry(b, t, d, above) ==
  /\ HasRoom
  /\ above => CanPatchAbove(t)
  /\ buffers' = Built(b, Trampoline(t, d))
  /\ hooks' = Append(hooks, NewEntry(t, b, above))
  /\ items' = TRUE
  /\ status' = "MH_OK"
  /\ UNCHANGED <<libkernel, heap, code>>

MH_CreateHook(t, d) ==
  \/ ~heap /\ Fail("MH_ERROR_NOT_INITIALIZED")
  \/ heap /\ ~ {t, d} \subseteq Executable /\ Fail("MH_ERROR_NOT_EXECUTABLE")
  \/ /\ heap /\ {t, d} \subseteq Executable
     /\ \/ FindHookEntry(t) # INVALID_HOOK_POS /\ Fail("MH_ERROR_ALREADY_CREATED")
        \/ FindHookEntry(t) = INVALID_HOOK_POS /\ Fail("MH_ERROR_MEMORY_ALLOC")
        \/ /\ FindHookEntry(t) = INVALID_HOOK_POS
           /\ \E b \in Buffers \ DOMAIN buffers :
                \/ GiveBack(b, t, d)
                \/ \E above \in BOOLEAN : AddHookEntry(b, t, d, above)

\* MH_CreateHookApiEx when its lookup fails, before it asks whether the library is up.  A
\* lookup that succeeds goes on as MH_CreateHook, at any function the loader knows.  The
\* loader's error codes are not NULL, so that of a missing module passes for a handle.
MH_CreateHookApiEx ==
  Fail("MH_ERROR_MODULE_NOT_FOUND") \/ Fail("MH_ERROR_FUNCTION_NOT_FOUND")

MH_RemoveHook(p) ==
  \/ ~heap /\ Fail("MH_ERROR_NOT_INITIALIZED")
  \/ /\ heap
     /\ LET pos == FindHookEntry(p) IN
        \/ pos = INVALID_HOOK_POS /\ Fail("MH_ERROR_NOT_CREATED")
        \/ /\ pos # INVALID_HOOK_POS
           /\ hooks[pos].enabled
           /\ Fail("MH_ERROR_MEMORY_PROTECT")
        \/ /\ pos # INVALID_HOOK_POS
           /\ code' = CodeAfter({pos} \cap Pending(All(FALSE)), All(FALSE))
           /\ buffers' = FreeBuffer(buffers, hooks[pos].buffer)
           /\ hooks' = DeleteHookEntry(pos)
           /\ status' = "MH_OK"
           /\ UNCHANGED <<libkernel, heap, items>>

\* MH_EnableHook (on = TRUE) and MH_DisableHook (on = FALSE).
EnableHook(p, on) ==
  \/ ~heap /\ Fail("MH_ERROR_NOT_INITIALIZED")
  \/ heap /\ p = MH_ALL_HOOKS /\ SwitchHooks(All(on))
  \/ /\ heap /\ p # MH_ALL_HOOKS
     /\ LET pos == FindHookEntry(p) IN
        \/ pos = INVALID_HOOK_POS /\ Fail("MH_ERROR_NOT_CREATED")
        \/ /\ pos # INVALID_HOOK_POS /\ hooks[pos].enabled = on
           /\ Fail(IF on THEN "MH_ERROR_ENABLED" ELSE "MH_ERROR_DISABLED")
        \/ /\ pos # INVALID_HOOK_POS /\ hooks[pos].enabled # on
           /\ \/ Fail("MH_ERROR_MEMORY_PROTECT")
              \/ /\ code' = CodeAfter({pos}, All(on))
                 /\ hooks' = HooksAfter({pos}, All(on))
                 /\ status' = "MH_OK"
                 /\ UNCHANGED <<libkernel, heap, items, buffers>>

\* MH_QueueEnableHook and MH_QueueDisableHook.
Requeued(S, on) ==
  [i \in DOMAIN hooks |-> IF i \in S THEN [hooks[i] EXCEPT !.queued = on] ELSE hooks[i]]

QueueHook(p, on) ==
  \/ ~heap /\ Fail("MH_ERROR_NOT_INITIALIZED")
  \/ /\ heap /\ p # MH_ALL_HOOKS /\ FindHookEntry(p) = INVALID_HOOK_POS
     /\ Fail("MH_ERROR_NOT_CREATED")
  \/ /\ heap /\ (p = MH_ALL_HOOKS \/ FindHookEntry(p) # INVALID_HOOK_POS)
     /\ hooks' = Requeued(IF p = MH_ALL_HOOKS THEN DOMAIN hooks ELSE {FindHookEntry(p)}, on)
     /\ status' = "MH_OK"
     /\ UNCHANGED <<libkernel, heap, items, code, buffers>>

Queued == [i \in DOMAIN hooks |-> hooks[i].queued]

MH_ApplyQueued ==
  \/ ~heap /\ Fail("MH_ERROR_NOT_INITIALIZED")
  \/ heap /\ SwitchHooks(Queued)

Next ==
  \/ MH_Initialize \/ MH_Uninitialize \/ MH_ApplyQueued \/ MH_CreateHookApiEx
  \/ \E p \in Targets \cup {MH_ALL_HOOKS} :
       \/ MH_RemoveHook(p)
       \/ \E d \in Detours : MH_CreateHook(p, d)
       \/ \E on \in BOOLEAN : EnableHook(p, on) \/ QueueHook(p, on)

Spec == Init /\ [][Next]_vars
-----------------------------------------------------------------------------
(* Properties.                                                                 *)

\* Every variable has its type: the table never outgrows its array, an entry's
\* backup covers exactly the cells its patch overwrites, and only slots of the
\* allocator are in use.
TypeOK ==
  /\ libkernel \in BOOLEAN /\ heap \in BOOLEAN /\ items \in BOOLEAN
  /\ hooks \in Seq(HookEntry) /\ Len(hooks) <= Capacity
  /\ code \in [Cells -> Contents]
  /\ DOMAIN buffers \subseteq Buffers /\ buffers \in [DOMAIN buffers -> BuiltBuffer]
  /\ status \in Statuses

\* A target has at most one entry, whatever sequence of creations, removals (which
\* move the last entry into the hole) and failures led here.
OneHookPerTarget ==
  \A i, j \in DOMAIN hooks : hooks[i].target = hooks[j].target => i = j

\* Every slot handed out belongs to exactly one entry, which it was built for: no
\* failed creation leaks one, no removal frees one still used, two hooks never share.
BuffersOwnedOnce ==
  /\ \A i, j \in DOMAIN hooks : hooks[i].buffer = hooks[j].buffer => i = j
  /\ DOMAIN buffers = {hooks[i].buffer : i \in DOMAIN hooks}
  /\ \A i \in DOMAIN hooks : buffers[hooks[i].buffer].target = hooks[i].target

EnabledAt(c) == {i \in DOMAIN hooks : hooks[i].enabled /\ c \in Patches(i)}

\* Code memory says what the flags say: the patch area of an enabled hook holds its
\* own jump, and a cell outside every enabled area holds its original bytes, also
\* after a bulk call that stopped half way and after an entry moved in the table.
CodeMatchesHooks ==
  \A c \in Cells :
    /\ \A i \in EnabledAt(c) : code[c] = hooks[i].buffer
    /\ EnabledAt(c) = {} => code[c] = Original

\* "Original prologue of the target function" (hook.cpp:59): backups, and the prologues
\* copied to trampolines, are unpatched code, also for hooks created while others
\* are enabled or after the target was hooked and unhooked before.
OriginalKept ==
  /\ \A i \in DOMAIN hooks : \A c \in Patches(i) : hooks[i].backup[c] = Original
  /\ \A b \in DOMAIN buffers : \A c \in Prologue[buffers[b].target] :
       buffers[b].prologue[c] = Original

\* A library that is down left nothing behind: no entry, no array, no slot, no patch.
CleanWhenDown ==
  /\ heap => libkernel
  /\ ~heap => /\ hooks = <<>> /\ ~items /\ DOMAIN buffers = {}
              /\ \A c \in Cells : code[c] = Original
  /\ ~items => hooks = <<>>

\* A call that reports an error has given back whatever it took, and nothing the caller
\* can see is different: the rollback of MH_CreateHook is complete. A page that could not
\* be unprotected may stop a bulk call half way, with some entries wholly switched, the
\* others as they were, and nothing else changed.
FailedCallsChangeNothing ==
  [][status' # "MH_OK" =>
       /\ UNCHANGED <<heap, items, buffers>>
       /\ DOMAIN hooks' = DOMAIN hooks
       /\ \A i \in DOMAIN hooks :
            hooks'[i] \in {hooks[i], Switched(hooks[i], ~ hooks[i].enabled)}
       /\ status' # "MH_ERROR_MEMORY_PROTECT" => UNCHANGED <<hooks, code>>]_vars

PendingSet == {hooks[i].target : i \in Pending(Queued)}
EnabledSet == {hooks[i].target : i \in {j \in DOMAIN hooks : hooks[j].enabled}}

\* No step touches an entry's wish without doing it or being asked: what is still
\* pending after a bulk call that stopped half way is exactly what was pending and
\* not reached, so a later MH_ApplyQueued completes the job.
ApplyKeepsTheRest ==
  [][MH_ApplyQueued =>
       /\ PendingSet' \subseteq PendingSet
       /\ PendingSet \ PendingSet' =
            (EnabledSet \ EnabledSet') \cup (EnabledSet' \ EnabledSet)
       /\ heap /\ status' = "MH_OK" => PendingSet' = {}]_vars
-----------------------------------------------------------------------------
(* The abstract service this module implements.                                *)

\* Targets are far enough apart that no hook's patch reaches into another's code.
\* The library does not check this; every caller must see to it.
DisjointTargets ==
  \A t, u \in Targets : t # u => Extent(t) \cap Extent(u) = {}

\* What a call of t runs, read off the code: unpatched code, the relay of the slot
\* that the patch jumps to, or, for a patch nobody intended, nothing meaningful.
Wild == [unintended |-> TRUE]

Runs(t) ==
  LET jumps == {b \in DOMAIN buffers :
                  /\ buffers[b].target = t
                  /\ \E above \in BOOLEAN : \A c \in Area[t][above] : code[c] = b}
  IN  IF \A c \in Prologue[t] : code[c] = Original THEN Original
      ELSE IF jumps = {} THEN Wild
      ELSE buffers[CHOOSE b \in jumps : TRUE].relay

HookedTargets == {hooks[i].target : i \in DOMAIN hooks}

EntryOf(t) == hooks[CHOOSE i \in DOMAIN hooks : hooks[i].target = t]

ServiceHook(h) ==
  [detour |-> buffers[h.buffer].relay,
   trampoline |-> IF \A c \in Prologue[h.target] : buffers[h.buffer].prologue[c] = Original
                  THEN Original ELSE Wild,
   enabled |-> h.enabled, queued |-> h.queued]

Service == INSTANCE HookService WITH
  up <- heap,
  table <- [t \in HookedTargets |-> ServiceHook(EntryOf(t))],
  runs <- [t \in Targets |-> Runs(t)]

\* Every call behaves as one atomic operation of the abstract table, or leaves it alone:
\* an enabled target runs the detour it was created with, a disabled or removed one its
\* own code, and the function returned to the caller runs the original.
ImplementsService == Service!ServiceSpec
=============================================================================
