--------------------------- MODULE HookTable_proofs ---------------------------
(***************************************************************************)
(* What the spin lock protects: for any number of callers, targets, pages  *)
(* and entries, a caller alone inside the lock leaves the table whole, the *)
(* code as the table says and the pages protected.                         *)
(***************************************************************************)
EXTENDS HookLock_proofs

CodeProtections == {{"exec"}, {"read", "exec"}, {"read", "write", "exec"}}

\* The elements S of the array are entries of different targets.
Whole(S) ==
  /\ \A i \in S : items[i] \in Entry
  /\ \A i, j \in S : items[i].target = items[j].target => i = j

\* A jump is written at t exactly if one of these entries says so.
CodeFollows(t, S) == code[t] <=> \E i \in S : items[i].target = t /\ items[i].enabled

\* No page has lost a permission.
Runnable ==
  /\ prot \in [Pages -> CodeProtections]
  /\ \A p \in Pages : CodeProtection[p] \subseteq prot[p]

\* None has gained one either, unless a restore was refused.
Protected == Runnable /\ (refused \/ prot = CodeProtection)

AtRest ==
  /\ Whole(1 .. size) /\ \A t \in Targets : CodeFollows(t, 1 .. size)
  /\ Protected
  /\ ~ g_hHeap => size = 0

InPatch(c, p) == p \in Memory!Range(PagesOf(c))

Saved(c) == Memory!convert_to_sce_protection(oldProtect[c])

\* The pages of one patch are writable, and what the caller saved is what they had.
Unprotected(c) ==
  /\ Runnable
  /\ Saved(c) \in CodeProtections
  /\ \A p \in Pages :
       InPatch(c, p) => "write" \in prot[p] /\ CodeProtection[p] \subseteq Saved(c)
  /\ \/ refused
     \/ \A p \in Pages : CodeProtection[p] = IF InPatch(c, p) THEN Saved(c) ELSE prot[p]

\* MH_Uninitialize has switched the first n entries off.
Passed(c, n) == Operation(c) = "uninitialize" => \A i \in 1 .. n : ~ items[i].enabled

\* The entry at pos is one that the call is about.
Holds(c) ==
  /\ pos[c] \in 1 .. size /\ Target(c) \in {Item(c).target, MH_ALL_HOOKS}
  /\ Operation(c) \in Switching \cup {"remove"}
  /\ Operation(c) = "remove" => Target(c) \in Targets
  /\ Passed(c, pos[c] - 1)

\* The table and the code while the jump at the entry is written and its flag is not.
Half(c) ==
  /\ Holds(c) /\ Whole(1 .. size)
  /\ \A t \in Targets \ {Item(c).target} : CodeFollows(t, 1 .. size)
  /\ code[Item(c).target] = Wanted(c, pos[c])

NewTarget(c, S) == Target(c) \in Targets /\ \A i \in S : items[i].target # Target(c)

\* The last element in use is no entry, not yet or not any more.
AtRestButLast ==
  /\ Whole(1 .. size - 1) /\ \A t \in Targets : CodeFollows(t, 1 .. size - 1)
  /\ Protected

NoJumps == \A t \in Targets : ~ code[t]

\* Only on these paths there may be no heap.
Heapless == {"heap", "open", "reset", "leave"}

\* What holds where the one caller inside is.
At(c) ==
  /\ call[c] \in Calls
  /\ pc[c] \in {"heap", "open", "find", "next", "queue", "protect", "move", "build", "count",
                "grow", "close", "leave"} => AtRest
  /\ pc[c] \notin Heapless => g_hHeap
  /\ pc[c] = "heap" => pos[c] = INVALID_HOOK_POS
  /\ pc[c] = "open" => ~ g_hHeap
  /\ pc[c] = "close" => NoJumps
  /\ pc[c] = "reset" => ~ g_hHeap /\ NoJumps /\ Protected
  /\ pc[c] = "find" => Target(c) \in Targets
  /\ pc[c] = "next" =>
       /\ pos[c] \in 0 .. size /\ Target(c) = MH_ALL_HOOKS /\ Operation(c) \in Switching
       /\ Passed(c, pos[c])
  /\ pc[c] = "queue" => Operation(c) \in Queueing
  /\ pc[c] \in {"protect", "write", "move"} => Holds(c)
  /\ pc[c] = "write" =>
       Unprotected(c) /\ Whole(1 .. size) /\ \A t \in Targets : CodeFollows(t, 1 .. size)
  /\ pc[c] = "restore" => Half(c) /\ Unprotected(c)
  /\ pc[c] = "flag" => Half(c) /\ Protected
  /\ pc[c] = "move" => ~ Item(c).enabled /\ Operation(c) = "remove"
  /\ pc[c] \in {"build", "count", "grow"} => NewTarget(c, 1 .. size)
  /\ pc[c] = "grow" => count[c] = size /\ size < Capacity
  /\ pc[c] = "fill" => size = count[c] + 1 /\ NewTarget(c, 1 .. count[c])
  /\ pc[c] = "shrink" => count[c] = size /\ size > 0
  /\ pc[c] \in {"fill", "shrink"} => AtRestButLast

TableInv ==
  /\ TypeOK
  /\ \A c \in Callers : ~ Inside(c) => pos[c] = INVALID_HOOK_POS
  /\ (\A c \in Callers : ~ Inside(c)) => AtRest
  /\ \A c \in Callers : Inside(c) => At(c)
-----------------------------------------------------------------------------
(* Facts about calls, protections and what the parts of the invariant depend on.        *)

LEMMA CallFacts ==
  ASSUME NEW c \in Callers, call[c] \in Calls
  PROVE  /\ Operation(c) \in Operations
         /\ Target(c) \in Targets \cup {MH_ALL_HOOKS}
         /\ Operation(c) \in {"create", "remove"} => Target(c) \in Targets
         /\ Operation(c) \in OnLibrary => Target(c) \notin Targets
  BY LockAssumption
     DEF Calls, Operation, Target, Operations, OnTarget, OnLibrary, Switching, Queueing

LEMMA ProtectionRoundTrip ==
  ASSUME NEW b \in CodeProtections
  PROVE  Memory!convert_to_sce_protection(Memory!convert_to_win_protection(b)) = b
  <1>1. CASE b = {"exec"}
    <2>1. Memory!convert_to_win_protection(b) = "PAGE_EXECUTE"
      BY <1>1 DEF Memory!convert_to_win_protection
    <2> QED
      BY <1>1, <2>1 DEF Memory!convert_to_sce_protection
  <1>2. CASE b = {"read", "exec"}
    <2>1. Memory!convert_to_win_protection(b) = "PAGE_EXECUTE_READ"
      BY <1>2 DEF Memory!convert_to_win_protection
    <2> QED
      BY <1>2, <2>1 DEF Memory!convert_to_sce_protection
  <1>3. CASE b = {"read", "write", "exec"}
    <2>1. Memory!convert_to_win_protection(b) = "PAGE_EXECUTE_READWRITE"
      BY <1>3 DEF Memory!convert_to_win_protection
    <2> QED
      BY <1>3, <2>1 DEF Memory!convert_to_sce_protection, Memory!Bits
  <1> QED
    BY <1>1, <1>2, <1>3 DEF CodeProtections

LEMMA WinProtectionTyped ==
  ASSUME NEW b
  PROVE  Memory!convert_to_win_protection(b) \in Memory!WinProtections
  BY DEF Memory!convert_to_win_protection, Memory!WinProtections

LEMMA PatchFacts ==
  ASSUME NEW t \in Targets
  PROVE  /\ PatchPages[t][1] \in Memory!Range(PatchPages[t])
         /\ Memory!Range(PatchPages[t]) \subseteq Pages
         /\ \A p \in Memory!Range(PatchPages[t]) :
              CodeProtection[p] = CodeProtection[PatchPages[t][1]]
  <1>1. PatchPages[t] \in Seq(Pages) /\ PatchPages[t] # << >>
    BY PagesAssumption
  <1>2. /\ 1 \in DOMAIN PatchPages[t]
        /\ \A i \in DOMAIN PatchPages[t] : PatchPages[t][i] \in Pages
    BY <1>1
  <1> QED
    BY <1>2, PagesAssumption DEF Memory!Range

\* What AtRest speaks of is all that it depends on.
LEMMA RestKept ==
  ASSUME AtRest, UNCHANGED <<g_hHeap, items, size, code, prot, refused>>
  PROVE  AtRest'
  BY DEF AtRest, Whole, CodeFollows, Protected, Runnable

LEMMA FirstFacts ==
  ASSUME NEW S, NEW none, NEW i \in First(S, none)
  PROVE  (S = {} => i = none) /\ (S # {} => i \in S)
  BY DEF First
-----------------------------------------------------------------------------
(* One lemma per step: the caller inside gets to a place where what should hold holds.  *)

\* Entering finds the table at rest.
LEMMA EnterKeeps ==
  ASSUME TypeOK, PcTyped', NEW c \in Callers, g_isLocked' \in BOOLEAN,
         AtRest, pos[c] = INVALID_HOOK_POS, EnterSpinLock(c)
  PROVE  TypeOK' /\ At(c)'
  <1>1. /\ UNCHANGED <<g_hHeap, items, size, code, prot, refused, oldProtect, pos, count>>
        /\ pc'[c] = "heap"
    BY DEF EnterSpinLock, table, memory, Goto, TypeOK
  <1>2. call' \in [Callers -> Calls \cup {NoCall}] /\ call'[c] \in Calls
    BY DEF EnterSpinLock, TypeOK
  <1>3. TypeOK'
    BY <1>1, <1>2 DEF TypeOK, PcTyped
  <1>4. AtRest'
    BY <1>1, RestKept
  <1> QED
    BY <1>1, <1>2, <1>3, <1>4 DEF At, Heapless

\* Nothing changes but the place, and where work starts there is a heap.
LEMMA CheckHeapKeeps ==
  ASSUME TypeOK, PcTyped', NEW c \in Callers, At(c), CheckHeap(c)
  PROVE  TypeOK' /\ At(c)'
  <1>1. pc[c] = "heap" /\ AtRest /\ call[c] \in Calls /\ pos[c] = 0
    BY DEF CheckHeap, At, INVALID_HOOK_POS
  <1>2. /\ UNCHANGED <<g_isLocked, g_hHeap, items, size, code, prot, oldProtect, refused>>
        /\ UNCHANGED <<call, pos, count>>
    BY DEF CheckHeap, table, memory, locals
  <1>3. pc'[c] \in AfterHeap(c)
    BY DEF CheckHeap, Goto, TypeOK
  <1>4. TypeOK' /\ AtRest'
    BY <1>1, <1>2, RestKept DEF TypeOK, PcTyped
  <1>5. Operation(c)' = Operation(c) /\ Target(c)' = Target(c) /\ call'[c] \in Calls
    BY <1>1, <1>2 DEF Operation, Target
  <1>6. /\ Operation(c) \in Operations /\ Target(c) \in Targets \cup {MH_ALL_HOOKS}
        /\ Operation(c) = "create" => Target(c) \in Targets
        /\ Operation(c) = "remove" => Target(c) \in Targets
    BY <1>1, CallFacts
  <1>7. pc'[c] \in {"leave", "open", "find", "queue", "next"}
    BY <1>3 DEF AfterHeap
  <1>8. pc'[c] = "open" => ~ g_hHeap
    BY <1>3 DEF AfterHeap
  <1>9. pc'[c] \notin Heapless => g_hHeap
    BY <1>3 DEF AfterHeap, Heapless
  <1>10. pc'[c] = "find" => Target(c) \in Targets
    BY <1>3, <1>6 DEF AfterHeap
  <1>11. pc'[c] = "queue" => Operation(c) \in Queueing
    BY <1>3 DEF AfterHeap
  <1>12. ASSUME pc'[c] = "next"
         PROVE  /\ Target(c) = MH_ALL_HOOKS /\ Operation(c) \in Switching
                /\ 0 \in 0 .. size /\ Passed(c, 0)'
    <2>1. /\ Target(c) = MH_ALL_HOOKS /\ Operation(c) \notin Queueing
          /\ Operation(c) \notin {"create", "initialize"}
      BY <1>3, <1>12 DEF AfterHeap
    <2>2. Operation(c) # "remove"
      BY <1>6, <2>1, LockAssumption
    <2>3. Operation(c) \in Switching
      BY <1>6, <2>1, <2>2 DEF Operations, OnTarget, OnLibrary, Switching, Queueing
    <2>4. 0 \in 0 .. size /\ 1 .. 0 = {}
      BY LockAssumption DEF TypeOK
    <2> QED
      BY <2>1, <2>3, <2>4 DEF Passed
  <1> QED
    BY <1>1, <1>2, <1>4, <1>5, <1>7, <1>8, <1>9, <1>10, <1>11, <1>12 DEF At

\* A heap, or none, for an empty table.
LEMMA CreateHeapKeeps ==
  ASSUME TypeOK, PcTyped', NEW c \in Callers, At(c), CreateHeap(c)
  PROVE  TypeOK' /\ At(c)'
  <1>1. AtRest /\ call[c] \in Calls /\ size = 0
    BY DEF CreateHeap, Goto, At, AtRest
  <1>2. /\ UNCHANGED <<g_isLocked, items, size, code, prot, oldProtect, refused>>
        /\ UNCHANGED <<call, pos, count>> /\ g_hHeap' \in BOOLEAN /\ pc'[c] = "leave"
    BY DEF CreateHeap, table, memory, locals, Goto, TypeOK
  <1>3. TypeOK'
    BY <1>2 DEF TypeOK, PcTyped
  <1>4. AtRest'
    BY <1>1, <1>2 DEF AtRest, Whole, CodeFollows, Protected, Runnable
  <1> QED
    BY <1>1, <1>2, <1>3, <1>4 DEF At, Heapless

\* What goes has no jump that leads to it.
LEMMA DestroyHeapKeeps ==
  ASSUME TypeOK, PcTyped', NEW c \in Callers, At(c), DestroyHeap(c)
  PROVE  TypeOK' /\ At(c)'
  <1>1. AtRest /\ call[c] \in Calls /\ NoJumps
    BY DEF DestroyHeap, Goto, At
  <1>2. /\ UNCHANGED <<g_isLocked, size, code, prot, oldProtect, refused, call, pos, count>>
        /\ g_hHeap' = FALSE /\ pc'[c] = "reset"
    BY DEF DestroyHeap, memory, locals, Goto, TypeOK
  <1>3. items' \in [1 .. Capacity -> Entry \cup {Garbage}]
    BY DEF DestroyHeap
  <1>4. TypeOK'
    BY <1>2, <1>3 DEF TypeOK, PcTyped
  <1>5. NoJumps' /\ Protected'
    BY <1>1, <1>2 DEF AtRest, NoJumps, Protected, Runnable
  <1> QED
    BY <1>1, <1>2, <1>4, <1>5 DEF At, Heapless

LEMMA ResetKeeps ==
  ASSUME TypeOK, PcTyped', NEW c \in Callers, At(c), Reset(c)
  PROVE  TypeOK' /\ At(c)'
  <1>1. NoJumps /\ Protected /\ call[c] \in Calls
    BY DEF Reset, Goto, At
  <1>2. /\ UNCHANGED <<g_isLocked, g_hHeap, items, code, prot, oldProtect, refused>>
        /\ UNCHANGED <<call, pos, count>> /\ size' = 0 /\ pc'[c] = "leave"
    BY DEF Reset, memory, locals, Goto, TypeOK
  <1>3. TypeOK'
    BY <1>2, LockAssumption DEF TypeOK, PcTyped
  <1>4. 1 .. 0 = {}
    OBVIOUS
  <1>5. AtRest'
    BY <1>1, <1>2, <1>4 DEF AtRest, Whole, CodeFollows, NoJumps, Protected, Runnable
  <1> QED
    BY <1>1, <1>2, <1>3, <1>5 DEF At, Heapless

\* The position found is that of an entry with the target, and none is found only if no
\* entry has it.
LEMMA FindKeeps ==
  ASSUME TypeOK, PcTyped', NEW c \in Callers, At(c), FindHookEntry(c)
  PROVE  TypeOK' /\ At(c)'
  <1>1. pc[c] = "find" /\ pc'[c] = AfterFind(c)
    BY DEF FindHookEntry, Goto, TypeOK
  <1>2. AtRest /\ Target(c) \in Targets /\ call[c] \in Calls /\ g_hHeap
    BY <1>1 DEF At, Heapless
  <1>3. /\ UNCHANGED <<g_isLocked, g_hHeap, items, size, code, prot, oldProtect, refused>>
        /\ UNCHANGED <<call, count>>
    BY DEF FindHookEntry, table, memory
  <1> PICK i \in First(Found(c), INVALID_HOOK_POS) : pos' = [pos EXCEPT ![c] = i]
    BY DEF FindHookEntry
  <1>4. (Found(c) = {} => i = 0) /\ (Found(c) # {} => i \in Found(c))
    BY FirstFacts DEF INVALID_HOOK_POS
  <1>5. i \in 0 .. Capacity
    BY <1>4, LockAssumption DEF Found, TypeOK
  <1>6. pos' \in [Callers -> 0 .. Capacity] /\ pos'[c] = i
    BY <1>5 DEF TypeOK
  <1>7. TypeOK'
    BY <1>3, <1>6 DEF TypeOK, PcTyped
  <1>8. AtRest'
    BY <1>2, <1>3, RestKept
  <1>9. Operation(c)' = Operation(c) /\ Target(c)' = Target(c) /\ call'[c] \in Calls
    BY <1>2, <1>3 DEF Operation, Target
  <1>10. Operation(c) \in Operations /\ Operation(c) \notin {"initialize", "uninitialize"}
    BY <1>2, CallFacts DEF OnLibrary
  <1>11. CASE Found(c) = {}
    <2>1. pc'[c] \in {"build", "leave"}
      BY <1>1, <1>11 DEF AfterFind
    <2>2. \A j \in 1 .. size : items[j] \in Entry
      BY <1>2 DEF AtRest, Whole
    <2>3. \A j \in 1 .. size : items[j].target # Target(c)
      BY <1>11, <2>2, GarbageAssumption DEF Found
    <2>4. NewTarget(c, 1 .. size)'
      BY <1>2, <1>3, <1>9, <2>3 DEF NewTarget
    <2> QED
      BY <1>2, <1>3, <1>7, <1>8, <1>9, <2>1, <2>4 DEF At, Heapless
  <1>12. CASE Found(c) # {}
    <2>1. /\ pc'[c] \in {"leave", "queue", "protect"}
          /\ pc'[c] = "queue" => Operation(c) \in Queueing
          /\ pc'[c] = "protect" => Operation(c) \notin Queueing \cup {"create"}
      BY <1>1, <1>12 DEF AfterFind, Queueing
    <2>2. i \in 1 .. size /\ items[i].target = Target(c)
      BY <1>4, <1>12 DEF Found
    <2>3. Operation(c) \notin Queueing \cup {"create"} => Holds(c)'
      BY <1>2, <1>3, <1>6, <1>9, <1>10, <2>2
         DEF Holds, Passed, Item, Operations, OnTarget, OnLibrary, Switching
    <2> QED
      BY <1>2, <1>3, <1>7, <1>8, <1>9, <2>1, <2>3 DEF At, Heapless
  <1> QED
    BY <1>11, <1>12

\* A loop stops or holds the next entry.
LEMMA NextHookKeeps ==
  ASSUME TypeOK, PcTyped', NEW c \in Callers, At(c), NextHook(c)
  PROVE  TypeOK' /\ At(c)'
  <1>1. /\ pc[c] = "next" /\ pc'[c] \in {"leave", "close", "protect"}
        /\ pc'[c] = "protect" <=> ToSwitch(c) # {}
        /\ pc'[c] = "close" => Operation(c) = "uninitialize"
    BY DEF NextHook, Goto, TypeOK
  <1>2. /\ AtRest /\ call[c] \in Calls
        /\ Target(c) = MH_ALL_HOOKS /\ Operation(c) \in Switching
        /\ g_hHeap /\ Passed(c, pos[c]) /\ pos[c] \in 0 .. size
    BY <1>1 DEF At, Heapless
  <1>3. /\ UNCHANGED <<g_isLocked, g_hHeap, items, size, code, prot, oldProtect, refused>>
        /\ UNCHANGED <<call, count>>
    BY DEF NextHook, table, memory
  <1> PICK i \in First(ToSwitch(c), pos[c]) : pos' = [pos EXCEPT ![c] = i]
    BY DEF NextHook
  <1>4. (ToSwitch(c) = {} => i = pos[c]) /\ (ToSwitch(c) # {} => i \in ToSwitch(c))
    BY FirstFacts
  <1>5. ToSwitch(c) \subseteq 1 .. size /\ 1 .. size \subseteq 0 .. Capacity
    BY LockAssumption DEF ToSwitch, TypeOK
  <1>6. pos' \in [Callers -> 0 .. Capacity] /\ pos'[c] = i
    BY <1>4, <1>5 DEF TypeOK
  <1>7. TypeOK'
    BY <1>3, <1>6 DEF TypeOK, PcTyped
  <1>8. AtRest'
    BY <1>2, <1>3, RestKept
  <1>9. Operation(c)' = Operation(c) /\ Target(c)' = Target(c) /\ call'[c] \in Calls
    BY <1>2, <1>3 DEF Operation, Target
  <1>10. ASSUME Operation(c) = "uninitialize", NEW j \in 1 .. size, items[j].enabled,
                j > pos[c]
         PROVE  j \in ToSwitch(c)
    <2>1. items[j] \in Entry /\ items[j] # Garbage
      BY <1>2, GarbageAssumption DEF AtRest, Whole
    <2>2. j \in pos[c] + 1 .. size
      BY <1>2, <1>10 DEF TypeOK
    <2>3. items[j].enabled = TRUE /\ Wanted(c, j) = FALSE
      BY <1>10, <2>1 DEF Wanted, Entry
    <2> QED
      BY <2>1, <2>2, <2>3 DEF ToSwitch
  <1>11. ASSUME ToSwitch(c) # {}
         PROVE  Holds(c)'
    <2>1. i \in ToSwitch(c) /\ i \in 1 .. size /\ \A j \in ToSwitch(c) : i <= j
      BY <1>4, <1>5, <1>11 DEF First
    <2>2. ASSUME Operation(c) = "uninitialize", NEW j \in 1 .. i - 1, items[j].enabled
          PROVE  FALSE
      <3>1. j \in 1 .. size /\ j < i
        BY <2>1 DEF TypeOK
      <3>2. j \notin ToSwitch(c)
        BY <2>1, <3>1 DEF TypeOK
      <3>3. j \in 1 .. pos[c]
        BY <1>2, <1>10, <2>2, <3>1, <3>2 DEF TypeOK
      <3> QED
        BY <1>2, <2>2, <3>3 DEF Passed
    <2>3. Passed(c, i - 1)'
      BY <1>3, <1>9, <2>2 DEF Passed
    <2>4. Passed(c, pos[c] - 1)'
      BY <1>6, <2>3 DEF Passed
    <2> QED
      BY <1>2, <1>3, <1>6, <1>9, <2>1, <2>4 DEF Holds, Switching
  <1>12. ASSUME ToSwitch(c) = {}, Operation(c) = "uninitialize"
         PROVE  NoJumps'
    <2>1. ASSUME NEW j \in 1 .. size, items[j].enabled
          PROVE  FALSE
      <3>1. j <= pos[c]
        BY <1>2, <1>10, <1>12, <2>1 DEF TypeOK
      <3> QED
        BY <1>2, <1>12, <2>1, <3>1 DEF Passed, TypeOK
    <2> QED
      BY <1>2, <1>3, <2>1 DEF AtRest, CodeFollows, NoJumps
  <1> QED
    BY <1>1, <1>2, <1>3, <1>7, <1>8, <1>9, <1>11, <1>12 DEF At, Heapless

\* Queueing changes no flag that the code follows.
LEMMA QueueKeeps ==
  ASSUME TypeOK, PcTyped', NEW c \in Callers, At(c), QueueHook(c)
  PROVE  TypeOK' /\ At(c)'
  <1>1. pc'[c] = "leave" /\ AtRest /\ call[c] \in Calls /\ g_hHeap
    BY DEF QueueHook, Goto, TypeOK, At, Heapless
  <1>2. /\ UNCHANGED <<g_isLocked, g_hHeap, size, code, prot, oldProtect, refused>>
        /\ UNCHANGED <<call, pos, count>>
    BY DEF QueueHook, memory, locals
  <1>3. DOMAIN items = 1 .. Capacity
    BY DEF TypeOK
  <1>4. ASSUME NEW i \in 1 .. Capacity
        PROVE  /\ items'[i] \in Entry \cup {Garbage}
               /\ items[i] \in Entry =>
                    /\ items'[i] \in Entry /\ items'[i].target = items[i].target
                    /\ items'[i].enabled = items[i].enabled
    <2>1. \/ items'[i] = items[i]
          \/ /\ items[i] # Garbage
             /\ items'[i] = [items[i] EXCEPT !.queued = (Operation(c) = "queueEnable")]
      BY <1>3 DEF QueueHook
    <2> QED
      BY <2>1 DEF TypeOK, Entry
  <1>5. items' \in [1 .. Capacity -> Entry \cup {Garbage}]
    BY <1>3, <1>4 DEF QueueHook
  <1>6. TypeOK'
    BY <1>2, <1>5 DEF TypeOK, PcTyped
  <1>7. 1 .. size \subseteq 1 .. Capacity
    BY LockAssumption DEF TypeOK
  <1>8. \A i \in 1 .. size : /\ items[i] \in Entry /\ items'[i] \in Entry
                             /\ items'[i].target = items[i].target
                             /\ items'[i].enabled = items[i].enabled
    BY <1>1, <1>4, <1>7 DEF AtRest, Whole
  <1>9. AtRest'
    BY <1>1, <1>2, <1>8 DEF AtRest, Whole, CodeFollows, Protected, Runnable
  <1> QED
    BY <1>1, <1>2, <1>6, <1>9 DEF At, Heapless
\* The entry a caller holds, its patch and what is wanted of it.
LEMMA HeldFacts ==
  ASSUME TypeOK, NEW c \in Callers, Holds(c), Whole(1 .. size)
  PROVE  /\ pos[c] \in 1 .. Capacity /\ Item(c) \in Entry /\ Item(c).target \in Targets
         /\ Wanted(c, pos[c]) \in BOOLEAN
         /\ Memory!Range(PagesOf(c)) \subseteq Pages
         /\ PagesOf(c)[1] \in Memory!Range(PagesOf(c))
         /\ \A p \in Memory!Range(PagesOf(c)) :
              CodeProtection[p] = CodeProtection[PagesOf(c)[1]]
  <1>1. pos[c] \in 1 .. size /\ pos[c] \in 1 .. Capacity
    BY LockAssumption DEF Holds, TypeOK
  <1>2. Item(c) \in Entry
    BY <1>1 DEF Whole, Item
  <1>3. Item(c).target \in Targets
    BY <1>2 DEF Entry
  <1> QED
    BY <1>1, <1>2, <1>3, PatchFacts DEF PagesOf, Wanted

\* An entry held is held as long as the table and the call are the same.
LEMMA HoldsKept ==
  ASSUME NEW c \in Callers, Holds(c), UNCHANGED <<items, size, call, pos>>
  PROVE  Holds(c)'
  BY DEF Holds, Passed, Item, Operation, Target

\* An entry that is switched off now has been passed like those before it.
LEMMA PassedOn ==
  ASSUME TypeOK, NEW c \in Callers, Holds(c), UNCHANGED <<call, pos>>,
         \A i \in 1 .. pos[c] - 1 : items'[i] = items[i],
         Operation(c) = "uninitialize" => ~ items'[pos[c]].enabled
  PROVE  Passed(c, pos[c])'
  <1> DEFINE n == pos[c]
  <1>1. n \in Nat /\ n > 0 /\ pos'[c] = n /\ Operation(c)' = Operation(c)
    BY LockAssumption DEF Holds, TypeOK, Operation
  <1>2. SUFFICES ASSUME Operation(c) = "uninitialize", NEW i \in 1 .. n
                 PROVE  ~ items'[i].enabled
    BY <1>1 DEF Passed
  <1>3. CASE i = n
    BY <1>2, <1>3
  <1>4. CASE i # n
    <2>1. i \in 1 .. n - 1
      BY <1>1, <1>4
    <2> QED
      BY <1>2, <2>1 DEF Holds, Passed
  <1> QED
    BY <1>3, <1>4

\* Having unprotected the pages the caller remembers what all of them had.
LEMMA ProtectKeeps ==
  ASSUME TypeOK, PcTyped', NEW c \in Callers, At(c), Protect(c)
  PROVE  TypeOK' /\ At(c)'
  <1>1. pc[c] = "protect" /\ AtRest /\ Holds(c) /\ call[c] \in Calls /\ g_hHeap
    BY DEF Protect, Goto, At, Heapless
  <1>2. UNCHANGED <<g_isLocked, g_hHeap, items, size, code, refused, call, pos, count>>
    BY DEF Protect, table, locals
  <1>3. call'[c] \in Calls /\ Holds(c)'
    BY <1>1, <1>2, HoldsKept
  <1>4. Operation(c)' = Operation(c) /\ Target(c)' = Target(c) /\ Item(c)' = Item(c)
    BY <1>2 DEF Operation, Target, Item
  <1>5. CASE /\ pc'[c] \in {AfterSwitch(c), "leave"} /\ UNCHANGED <<prot, oldProtect>>
             /\ pc'[c] = "leave" \/ Item(c).enabled = Wanted(c, pos[c])
    <2>1. TypeOK' /\ AtRest'
      BY <1>1, <1>2, <1>5, RestKept DEF TypeOK, PcTyped
    <2>2. pc'[c] \in {"move", "next", "leave"}
      BY <1>5 DEF AfterSwitch
    <2>3. pc'[c] = "move" => ~ Item(c).enabled /\ Operation(c) = "remove"
      BY <1>5 DEF AfterSwitch, Wanted
    <2>4. pc'[c] = "next" => /\ Target(c) = MH_ALL_HOOKS /\ Operation(c) \in Switching
                             /\ pos[c] \in 0 .. size
      BY <1>1, <1>5 DEF AfterSwitch, Holds, TypeOK
    <2>5. pc'[c] = "next" => Passed(c, pos[c])'
      <3> SUFFICES ASSUME pc'[c] = "next"
                   PROVE  Passed(c, pos[c])'
        OBVIOUS
      <3>1. Operation(c) = "uninitialize" => ~ items'[pos[c]].enabled
        BY <1>2, <1>5 DEF Item, Wanted
      <3> QED
        BY <1>1, <1>2, <3>1, PassedOn
    <2> QED
      BY <1>2, <1>3, <1>1, <1>4, <2>1, <2>2, <2>3, <2>4, <2>5 DEF At, Heapless
  <1>6. CASE /\ pc'[c] = "write"
             /\ oldProtect' = [oldProtect EXCEPT ![c] = Memory!OldProtect(PagesOf(c))]
             /\ Memory!VirtualProtect(PagesOf(c), "PAGE_EXECUTE_READWRITE")
    <2> DEFINE R == Memory!Range(PagesOf(c))
               p1 == PagesOf(c)[1]
    <2>1. Whole(1 .. size) /\ Protected /\ Runnable
      BY <1>1 DEF AtRest, Protected
    <2>2. R \subseteq Pages /\ p1 \in R /\ \A p \in R : CodeProtection[p] = CodeProtection[p1]
      BY <1>1, <2>1, HeldFacts
    <2>3. Memory!convert_to_sce_protection("PAGE_EXECUTE_READWRITE") = Memory!Bits
      BY DEF Memory!convert_to_sce_protection
    <2>4. prot' = [p \in Pages |-> IF p \in R THEN Memory!Bits ELSE prot[p]]
      BY <1>6, <2>3 DEF Memory!VirtualProtect
    <2>5. oldProtect' \in [Callers -> Memory!WinProtections]
      BY <1>6, WinProtectionTyped DEF Memory!OldProtect, TypeOK
    <2>6. oldProtect'[c] = Memory!convert_to_win_protection(prot[p1])
      BY <1>6 DEF Memory!OldProtect, TypeOK
    <2>7. prot[p1] \in CodeProtections /\ CodeProtection[p1] \subseteq prot[p1]
      BY <2>1, <2>2 DEF Runnable
    <2>8. Saved(c)' = prot[p1]
      BY <2>6, <2>7, ProtectionRoundTrip DEF Saved
    <2>9. PagesOf(c)' = PagesOf(c)
      BY <1>4 DEF PagesOf
    <2>10. \A p \in Pages : InPatch(c, p)' <=> p \in R
      BY <2>9 DEF InPatch
    <2>11. Memory!Bits \in CodeProtections /\ "write" \in Memory!Bits
      BY DEF Memory!Bits, CodeProtections
    <2>12. \A p \in Pages : CodeProtection[p] \subseteq Memory!Bits
      BY PagesAssumption DEF Memory!Bits
    <2>13. Runnable'
      BY <2>1, <2>4, <2>11, <2>12 DEF Runnable
    <2>14. \A p \in Pages : InPatch(c, p)' =>
                              "write" \in prot'[p] /\ CodeProtection[p] \subseteq Saved(c)'
      BY <2>2, <2>4, <2>7, <2>8, <2>10, <2>11
    <2>15. refused \/ \A p \in Pages :
             CodeProtection[p] = IF InPatch(c, p)' THEN Saved(c)' ELSE prot'[p]
      BY <2>1, <2>2, <2>4, <2>8, <2>10 DEF Protected
    <2>16. Unprotected(c)'
      BY <1>2, <2>7, <2>8, <2>13, <2>14, <2>15 DEF Unprotected
    <2>17. \A p \in Pages : prot'[p] \in SUBSET Memory!Bits
      BY <2>4 DEF TypeOK
    <2>18. TypeOK'
      BY <1>2, <2>4, <2>5, <2>17 DEF TypeOK, PcTyped
    <2>19. (Whole(1 .. size) /\ \A t \in Targets : CodeFollows(t, 1 .. size))'
      BY <1>1, <1>2 DEF AtRest, Whole, CodeFollows
    <2> QED
      BY <1>1, <1>2, <1>3, <1>6, <2>16, <2>18, <2>19 DEF At, Heapless
  <1> QED
    BY <1>5, <1>6 DEF Protect, Goto, TypeOK

\* The jump is written or taken away before the flag says so.
LEMMA WriteKeeps ==
  ASSUME TypeOK, PcTyped', NEW c \in Callers, At(c), Write(c)
  PROVE  TypeOK' /\ At(c)'
  <1>1. /\ pc[c] = "write" /\ Holds(c) /\ Unprotected(c) /\ call[c] \in Calls
        /\ Whole(1 .. size) /\ \A t \in Targets : CodeFollows(t, 1 .. size)
        /\ g_hHeap
    BY DEF Write, Goto, At, Heapless
  <1>2. /\ UNCHANGED <<g_isLocked, g_hHeap, items, size, prot, oldProtect, refused>>
        /\ UNCHANGED <<call, pos, count>>
    BY DEF Write, table, locals
  <1>3. pc'[c] = "restore"
    BY DEF Write, Goto, TypeOK
  <1>4. code' = [code EXCEPT ![Item(c).target] = Wanted(c, pos[c])]
    BY DEF Write
  <1>5. Item(c).target \in Targets /\ Wanted(c, pos[c]) \in BOOLEAN
    BY <1>1, HeldFacts
  <1>6. TypeOK'
    BY <1>2, <1>4, <1>5 DEF TypeOK, PcTyped
  <1>7. Holds(c)' /\ Item(c)' = Item(c) /\ Wanted(c, pos[c])' = Wanted(c, pos[c])
    BY <1>1, <1>2, HoldsKept DEF Item, Wanted, Operation
  <1>8. Unprotected(c)'
    BY <1>1, <1>2, <1>7 DEF Unprotected, Runnable, Saved, InPatch, PagesOf
  <1>9. Whole(1 .. size)'
    BY <1>1, <1>2 DEF Whole
  <1>10. code'[Item(c).target] = Wanted(c, pos[c])
    BY <1>4, <1>5 DEF TypeOK
  <1>11. \A t \in Targets \ {Item(c).target} : CodeFollows(t, 1 .. size)'
    BY ZenonT(30), <1>1, <1>2, <1>4 DEF CodeFollows, TypeOK
  <1>12. Half(c)'
    BY <1>7, <1>9, <1>10, <1>11 DEF Half
  <1> QED
    BY <1>1, <1>2, <1>3, <1>6, <1>8, <1>12 DEF At, Heapless

\* What was saved is what the pages had, so that restoring it protects them, or the
\* history says that a restore was refused.
LEMMA RestoreKeeps ==
  ASSUME TypeOK, PcTyped', NEW c \in Callers, At(c), Restore(c)
  PROVE  TypeOK' /\ At(c)'
  <1>1. Half(c) /\ Unprotected(c) /\ call[c] \in Calls /\ Runnable /\ g_hHeap
    BY DEF Restore, Goto, At, Unprotected, Heapless
  <1>2. UNCHANGED <<g_isLocked, g_hHeap, items, size, code, call, pos, count>>
    BY DEF Restore, table, locals
  <1>3. pc'[c] = "flag"
    BY DEF Restore, Goto, TypeOK
  <1>4. oldProtect' \in [Callers -> Memory!WinProtections]
    BY DEF Restore, TypeOK, Memory!WinProtections
  <1>5. Item(c)' = Item(c) /\ Wanted(c, pos[c])' = Wanted(c, pos[c])
    BY <1>2 DEF Item, Wanted, Operation
  <1>6. Half(c)'
    BY <1>1, <1>2, <1>5, HoldsKept DEF Half, Whole, CodeFollows
  <1>7. refused' \in BOOLEAN /\ prot' \in [Pages -> SUBSET Memory!Bits] /\ Protected'
    <2>1. CASE Memory!VirtualProtect(PagesOf(c), oldProtect[c]) /\ UNCHANGED refused
      <3>1. prot' = [p \in Pages |-> IF InPatch(c, p) THEN Saved(c) ELSE prot[p]]
        BY <2>1 DEF Memory!VirtualProtect, InPatch, Saved
      <3>2. Saved(c) \in CodeProtections /\ Saved(c) \in SUBSET Memory!Bits
        BY <1>1 DEF Unprotected, CodeProtections, Memory!Bits
      <3>3. Runnable'
        BY <1>1, <3>1, <3>2 DEF Runnable, Unprotected
      <3>4. prot' \in [Pages -> SUBSET Memory!Bits]
        BY <3>1, <3>2 DEF TypeOK
      <3>5. ASSUME ~ refused
            PROVE  prot' = CodeProtection
        <4>1. \A p \in Pages : prot'[p] = CodeProtection[p]
          BY <1>1, <3>1, <3>5 DEF Unprotected
        <4>2. CodeProtection = [p \in Pages |-> CodeProtection[p]]
          BY PagesAssumption
        <4> QED
          BY <3>1, <4>1, <4>2
      <3> QED
        BY <2>1, <3>3, <3>4, <3>5 DEF Protected, TypeOK
    <2>2. CASE refused' = TRUE /\ UNCHANGED prot
      BY <1>1, <2>2 DEF Protected, Runnable, TypeOK
    <2> QED
      BY <2>1, <2>2 DEF Restore
  <1>8. TypeOK'
    BY <1>2, <1>4, <1>7 DEF TypeOK, PcTyped
  <1> QED
    BY <1>1, <1>2, <1>3, <1>6, <1>7, <1>8 DEF At, Heapless
\* The flag catches up with the code.
LEMMA SetFlagKeeps ==
  ASSUME TypeOK, PcTyped', NEW c \in Callers, At(c), SetFlag(c)
  PROVE  TypeOK' /\ At(c)'
  <1>1. /\ pc[c] = "flag" /\ Half(c) /\ Holds(c) /\ Whole(1 .. size) /\ Protected
        /\ call[c] \in Calls /\ g_hHeap
    BY DEF SetFlag, Goto, At, Half, Heapless
  <1>2. /\ UNCHANGED <<g_isLocked, g_hHeap, size, code, prot, oldProtect, refused>>
        /\ UNCHANGED <<call, pos, count>>
    BY DEF SetFlag, memory, locals
  <1>3. pc'[c] = AfterSwitch(c)
    BY DEF SetFlag, Goto, TypeOK
  <1> DEFINE w == Wanted(c, pos[c])
             new == [Item(c) EXCEPT !.enabled = w, !.queued = w]
  <1>4. pos[c] \in 1 .. Capacity /\ Item(c) \in Entry /\ w \in BOOLEAN
    BY <1>1, HeldFacts
  <1>5. new \in Entry /\ new.target = Item(c).target /\ new.enabled = w
    <2> HIDE DEF w
    <2> QED
      BY <1>4 DEF Entry
  <1>6. items' = [items EXCEPT ![pos[c]] = new]
    BY DEF SetFlag
  <1> HIDE DEF new
  <1>7. items' \in [1 .. Capacity -> Entry \cup {Garbage}]
    BY <1>5, <1>6 DEF TypeOK
  <1>8. TypeOK'
    BY <1>2, <1>7 DEF TypeOK, PcTyped
  <1>9. items'[pos[c]] = new /\ \A i \in 1 .. Capacity : i # pos[c] => items'[i] = items[i]
    BY <1>4, <1>6 DEF TypeOK
  <1>10. 1 .. size \subseteq 1 .. Capacity /\ pos[c] \in 1 .. size
    BY <1>1, LockAssumption DEF TypeOK, Holds
  <1>11. \A i \in 1 .. size : items'[i] \in Entry /\ items'[i].target = items[i].target
    BY <1>1, <1>5, <1>9, <1>10 DEF Whole, Item
  <1>12. Whole(1 .. size)'
    BY <1>1, <1>2, <1>11 DEF Whole
  <1>13. ASSUME NEW t \in Targets
         PROVE  CodeFollows(t, 1 .. size)'
    <2>1. CASE t = Item(c).target
      <3>1. code[t] = w
        BY <1>1, <2>1 DEF Half
      <3>2. \A i \in 1 .. size : items'[i].target = t <=> i = pos[c]
        BY <1>1, <1>10, <1>11, <2>1 DEF Whole, Item
      <3> HIDE DEF w
      <3> QED
        BY <1>2, <1>5, <1>9, <1>10, <3>1, <3>2 DEF CodeFollows
    <2>2. CASE t # Item(c).target
      <3>1. CodeFollows(t, 1 .. size)
        BY <1>1, <2>2 DEF Half
      <3>2. \A i \in 1 .. size : items'[i].target = t /\ items'[i].enabled
                                   <=> items[i].target = t /\ items[i].enabled
        BY <1>5, <1>9, <1>10, <2>2 DEF Item
      <3> QED
        BY <1>2, <3>1, <3>2 DEF CodeFollows
    <2> QED
      BY <2>1, <2>2
  <1>14. AtRest'
    BY <1>1, <1>2, <1>12, <1>13 DEF AtRest, Protected, Runnable
  <1>15. /\ Operation(c)' = Operation(c) /\ Target(c)' = Target(c) /\ call'[c] \in Calls
         /\ Item(c)' = new
    BY <1>1, <1>2, <1>9 DEF Operation, Target, Item
  <1>16. Holds(c)'
    <2>1. Operation(c) = "uninitialize" => \A i \in 1 .. pos[c] - 1 : ~ items'[i].enabled
      <3> SUFFICES ASSUME Operation(c) = "uninitialize", NEW i \in 1 .. pos[c] - 1
                   PROVE  ~ items'[i].enabled
        OBVIOUS
      <3>1. i \in 1 .. Capacity /\ i # pos[c]
        BY <1>4, LockAssumption
      <3> QED
        BY <1>1, <1>9, <3>1 DEF Holds, Passed
    <2>2. Passed(c, pos[c] - 1)'
      BY <1>2, <1>15, <2>1 DEF Passed
    <2> QED
      BY <1>1, <1>2, <1>5, <1>15, <2>2 DEF Holds
  <1>17. pc'[c] \in {"move", "next", "leave"}
    BY <1>3 DEF AfterSwitch
  <1>18. pc'[c] = "move" => ~ new.enabled /\ Operation(c) = "remove"
    BY <1>3, <1>5 DEF AfterSwitch, Wanted
  <1>19. pc'[c] = "next" => /\ Target(c) = MH_ALL_HOOKS /\ Operation(c) \in Switching
                            /\ pos[c] \in 0 .. size
    BY <1>1, <1>3 DEF AfterSwitch, Holds, TypeOK
  <1>20. Passed(c, pos[c])'
    <2>1. Operation(c) = "uninitialize" => ~ items'[pos[c]].enabled
      BY <1>5, <1>9 DEF Wanted
    <2>2. \A i \in 1 .. pos[c] - 1 : items'[i] = items[i]
      BY <1>4, <1>9, LockAssumption
    <2> QED
      BY <1>1, <1>2, <2>1, <2>2, PassedOn
  <1> QED
    BY <1>1, <1>2, <1>8, <1>14, <1>15, <1>16, <1>17, <1>18, <1>19, <1>20 DEF At, Heapless

\* The last entry takes the place of one whose code has no jump.
LEMMA MoveKeeps ==
  ASSUME TypeOK, PcTyped', NEW c \in Callers, At(c), MoveLast(c)
  PROVE  TypeOK' /\ At(c)'
  <1>1. /\ pc[c] = "move" /\ Holds(c) /\ AtRest /\ Whole(1 .. size) /\ ~ Item(c).enabled
        /\ call[c] \in Calls /\ g_hHeap
    BY DEF MoveLast, Goto, At, AtRest, Heapless
  <1>2. UNCHANGED <<g_isLocked, g_hHeap, size, code, prot, oldProtect, refused, call, pos>>
    BY DEF MoveLast, memory
  <1>3. pc'[c] = "shrink" /\ count'[c] = size /\ count' \in [Callers -> 0 .. Capacity]
    BY DEF MoveLast, Goto, TypeOK
  <1>4. items' = [items EXCEPT ![pos[c]] = items[size]]
    BY DEF MoveLast
  <1>5. /\ size \in 1 .. Capacity /\ pos[c] \in 1 .. size
        /\ 1 .. size \subseteq 1 .. Capacity
    BY <1>1, LockAssumption DEF Holds, TypeOK
  <1>6. items' \in [1 .. Capacity -> Entry \cup {Garbage}]
    BY <1>4, <1>5 DEF TypeOK
  <1>7. TypeOK'
    BY <1>2, <1>3, <1>6 DEF TypeOK, PcTyped
  <1>8. /\ items'[pos[c]] = items[size]
        /\ \A i \in 1 .. Capacity : i # pos[c] => items'[i] = items[i]
    BY <1>4, <1>5 DEF TypeOK
  <1>9. Whole(1 .. size - 1)'
    <2>1. \A i \in 1 .. size - 1 : i \in 1 .. size /\ i # size
      BY <1>5
    <2>2. \A i \in 1 .. size - 1 : items'[i] \in Entry
      BY <1>1, <1>5, <1>8, <2>1 DEF Whole
    <2>3. \A i, j \in 1 .. size - 1 : items'[i].target = items'[j].target => i = j
      BY <1>1, <1>5, <1>8, <2>1 DEF Whole
    <2> QED
      BY <1>2, <2>2, <2>3 DEF Whole
  <1>10. ASSUME NEW t \in Targets
         PROVE  CodeFollows(t, 1 .. size - 1)'
    <2>1. CodeFollows(t, 1 .. size)
      BY <1>1 DEF AtRest
    <2>2. ASSUME NEW i \in 1 .. size, items[i].target = t, items[i].enabled
          PROVE  \E j \in 1 .. size - 1 : items'[j].target = t /\ items'[j].enabled
      <3>1. i # pos[c]
        BY <1>1, <2>2 DEF Item
      <3>2. CASE i = size
        <4>1. pos[c] \in 1 .. size - 1
          BY <1>5, <3>1, <3>2
        <4> QED
          BY <1>8, <2>2, <3>2, <4>1
      <3>3. CASE i # size
        <4>1. i \in 1 .. size - 1 /\ i \in 1 .. Capacity
          BY <1>5, <3>3
        <4> QED
          BY <1>8, <2>2, <3>1, <4>1
      <3> QED
        BY <3>2, <3>3
    <2>3. ASSUME NEW j \in 1 .. size - 1, items'[j].target = t, items'[j].enabled
          PROVE  \E i \in 1 .. size : items[i].target = t /\ items[i].enabled
      <3>1. j \in 1 .. size /\ j \in 1 .. Capacity /\ size \in 1 .. size
        BY <1>5
      <3> QED
        BY <1>8, <2>3, <3>1
    <2> QED
      BY <1>2, <2>1, <2>2, <2>3 DEF CodeFollows
  <1>11. AtRestButLast'
    BY <1>1, <1>2, <1>9, <1>10 DEF AtRestButLast, AtRest, Protected, Runnable
  <1> QED
    BY <1>1, <1>2, <1>3, <1>5, <1>7, <1>11 DEF At, Heapless

\* The count follows.
LEMMA ShrinkKeeps ==
  ASSUME TypeOK, PcTyped', NEW c \in Callers, At(c), Shrink(c)
  PROVE  TypeOK' /\ At(c)'
  <1>1. AtRestButLast /\ count[c] = size /\ size > 0 /\ call[c] \in Calls /\ g_hHeap
    BY DEF Shrink, Goto, At, Heapless
  <1>2. /\ UNCHANGED <<g_isLocked, g_hHeap, items, code, prot, oldProtect, refused>>
        /\ UNCHANGED <<call, pos, count>>
    BY DEF Shrink, memory, locals
  <1>3. pc'[c] = "leave" /\ size' = size - 1
    BY <1>1 DEF Shrink, Goto, TypeOK
  <1>4. size' \in 0 .. Capacity
    BY <1>1, <1>3, LockAssumption DEF TypeOK
  <1>5. TypeOK'
    BY <1>2, <1>4 DEF TypeOK, PcTyped
  <1>6. AtRest'
    BY <1>1, <1>2, <1>3 DEF AtRestButLast, AtRest, Whole, CodeFollows, Protected, Runnable
  <1> QED
    BY <1>1, <1>2, <1>3, <1>5, <1>6 DEF At, Heapless

\* Building the trampoline or failing to leaves the table alone.
LEMMA BuildKeeps ==
  ASSUME TypeOK, PcTyped', NEW c \in Callers, At(c), Build(c)
  PROVE  TypeOK' /\ At(c)'
  <1>1. AtRest /\ NewTarget(c, 1 .. size) /\ call[c] \in Calls /\ g_hHeap
    BY DEF Build, Goto, At, Heapless
  <1>2. /\ UNCHANGED <<g_isLocked, g_hHeap, items, size, code, prot, oldProtect, refused>>
        /\ UNCHANGED <<call, pos, count>>
    BY DEF Build, table, memory, locals
  <1>3. pc'[c] \in {"count", "leave"}
    BY DEF Build, Goto, TypeOK
  <1>4. TypeOK' /\ AtRest'
    BY <1>1, <1>2, RestKept DEF TypeOK, PcTyped
  <1>5. NewTarget(c, 1 .. size)'
    BY <1>1, <1>2 DEF NewTarget, Target
  <1> QED
    BY <1>1, <1>2, <1>3, <1>4, <1>5 DEF At, Heapless

\* Only an array with room is grown.
LEMMA CountKeeps ==
  ASSUME TypeOK, PcTyped', NEW c \in Callers, At(c), Count(c)
  PROVE  TypeOK' /\ At(c)'
  <1>1. AtRest /\ NewTarget(c, 1 .. size) /\ call[c] \in Calls /\ g_hHeap
    BY DEF Count, Goto, At, Heapless
  <1>2. /\ UNCHANGED <<g_isLocked, g_hHeap, items, size, code, prot, oldProtect, refused>>
        /\ UNCHANGED <<call, pos>>
    BY DEF Count, table, memory
  <1>3. pc'[c] = (IF HasRoom THEN "grow" ELSE "leave") /\ count'[c] = size
    BY DEF Count, Goto, TypeOK
  <1>4. count' \in [Callers -> 0 .. Capacity]
    BY DEF Count, TypeOK
  <1>5. TypeOK'
    BY <1>2, <1>4 DEF TypeOK, PcTyped
  <1>6. AtRest'
    BY <1>1, <1>2, RestKept
  <1>7. NewTarget(c, 1 .. size)'
    BY <1>1, <1>2 DEF NewTarget, Target
  <1> QED
    BY <1>1, <1>2, <1>3, <1>5, <1>6, <1>7 DEF At, HasRoom, Heapless

LEMMA GrowKeeps ==
  ASSUME TypeOK, PcTyped', NEW c \in Callers, At(c), Grow(c)
  PROVE  TypeOK' /\ At(c)'
  <1>1. /\ AtRest /\ NewTarget(c, 1 .. size) /\ call[c] \in Calls
        /\ count[c] = size /\ size < Capacity /\ g_hHeap
    BY DEF Grow, Goto, At, Heapless
  <1>2. /\ UNCHANGED <<g_isLocked, g_hHeap, items, code, prot, oldProtect, refused>>
        /\ UNCHANGED <<call, pos, count>>
    BY DEF Grow, memory, locals
  <1>3. pc'[c] = "fill" /\ size' = size + 1
    BY <1>1 DEF Grow, Goto, TypeOK
  <1>4. size' \in 0 .. Capacity /\ size' - 1 = size
    BY <1>1, <1>3, LockAssumption DEF TypeOK
  <1>5. TypeOK'
    BY <1>2, <1>4 DEF TypeOK, PcTyped
  <1>6. AtRestButLast'
    BY <1>1, <1>2, <1>4 DEF AtRestButLast, AtRest, Whole, CodeFollows, Protected, Runnable
  <1>7. NewTarget(c, 1 .. count[c])'
    BY <1>1, <1>2 DEF NewTarget, Target
  <1> QED
    BY <1>1, <1>2, <1>3, <1>5, <1>6, <1>7 DEF At, Heapless

\* The new entry is that of a target no other entry has, and not enabled.
LEMMA FillKeeps ==
  ASSUME TypeOK, PcTyped', NEW c \in Callers, At(c), Fill(c)
  PROVE  TypeOK' /\ At(c)'
  <1>1. /\ AtRestButLast /\ size = count[c] + 1 /\ NewTarget(c, 1 .. count[c])
        /\ call[c] \in Calls /\ g_hHeap
    BY DEF Fill, Goto, At, Heapless
  <1>2. /\ UNCHANGED <<g_isLocked, g_hHeap, size, code, prot, oldProtect, refused>>
        /\ UNCHANGED <<call, pos, count>>
    BY DEF Fill, memory, locals
  <1>3. pc'[c] = "leave"
    BY DEF Fill, Goto, TypeOK
  <1> DEFINE new == [target |-> Target(c), enabled |-> FALSE, queued |-> FALSE]
  <1>4. new \in Entry /\ new.target = Target(c) /\ ~ new.enabled
    BY <1>1 DEF NewTarget, Entry
  <1>5. /\ count[c] \in Nat /\ size \in 1 .. Capacity /\ size - 1 = count[c]
        /\ 1 .. size \subseteq 1 .. Capacity /\ 1 .. size = (1 .. count[c]) \cup {size}
        /\ size \notin 1 .. count[c]
    BY <1>1, LockAssumption DEF TypeOK
  <1>6. items' = [items EXCEPT ![size] = new]
    BY <1>1 DEF Fill
  <1> HIDE DEF new
  <1>7. items'[size] = new /\ \A i \in 1 .. count[c] : items'[i] = items[i]
    BY <1>5, <1>6 DEF TypeOK
  <1>8. items' \in [1 .. Capacity -> Entry \cup {Garbage}]
    BY <1>4, <1>6 DEF TypeOK
  <1>9. TypeOK'
    BY <1>2, <1>8 DEF TypeOK, PcTyped
  <1>10. Whole(1 .. count[c])
    BY <1>1, <1>5 DEF AtRestButLast
  <1>11. Whole(1 .. size)'
    <2>1. \A i \in 1 .. size : items'[i] \in Entry
      BY <1>4, <1>5, <1>7, <1>10 DEF Whole
    <2>2. \A i \in 1 .. count[c] : items'[i].target # items'[size].target
      BY <1>1, <1>4, <1>7 DEF NewTarget
    <2>3. \A i, j \in 1 .. size : items'[i].target = items'[j].target => i = j
      BY <1>5, <1>7, <1>10, <2>2 DEF Whole
    <2> QED
      BY <1>2, <2>1, <2>3 DEF Whole
  <1>12. ASSUME NEW t \in Targets
         PROVE  CodeFollows(t, 1 .. size)'
    <2>1. CodeFollows(t, 1 .. count[c])
      BY <1>1, <1>5 DEF AtRestButLast
    <2>2. (\E i \in 1 .. size : items'[i].target = t /\ items'[i].enabled)
            <=> \E i \in 1 .. count[c] : items[i].target = t /\ items[i].enabled
      BY <1>4, <1>5, <1>7
    <2> QED
      BY <1>2, <2>1, <2>2 DEF CodeFollows
  <1>13. AtRest'
    BY <1>1, <1>2, <1>11, <1>12 DEF AtRestButLast, AtRest, Protected, Runnable
  <1> QED
    BY <1>1, <1>2, <1>3, <1>9, <1>13 DEF At, Heapless

\* Leaving leaves the table at rest.
LEMMA LeaveKeeps ==
  ASSUME TypeOK, PcTyped', NEW c \in Callers, At(c), g_isLocked' \in BOOLEAN, LeaveSpinLock(c)
  PROVE  TypeOK' /\ AtRest' /\ pos'[c] = INVALID_HOOK_POS
  <1>1. AtRest
    BY DEF LeaveSpinLock, Goto, At
  <1>2. UNCHANGED <<g_hHeap, items, size, code, prot, refused>>
    BY DEF LeaveSpinLock, table
  <1>3. AtRest'
    BY <1>1, <1>2, RestKept
  <1>4. /\ pos' \in [Callers -> 0 .. Capacity] /\ pos'[c] = INVALID_HOOK_POS
        /\ count' \in [Callers -> 0 .. Capacity] /\ call' \in [Callers -> Calls \cup {NoCall}]
        /\ oldProtect' \in [Callers -> Memory!WinProtections]
    BY LockAssumption DEF LeaveSpinLock, TypeOK, INVALID_HOOK_POS, Memory!WinProtections
  <1> QED
    BY <1>2, <1>3, <1>4 DEF TypeOK, PcTyped
-----------------------------------------------------------------------------
(* The invariant.                                                                       *)

\* The steps of c between its entry and its exit.
Work(c) ==
  \/ CheckHeap(c) \/ CreateHeap(c) \/ DestroyHeap(c) \/ Reset(c)
  \/ FindHookEntry(c) \/ NextHook(c)
  \/ Protect(c) \/ Write(c) \/ Restore(c) \/ SetFlag(c) \/ QueueHook(c)
  \/ MoveLast(c) \/ Shrink(c)
  \/ Build(c) \/ Count(c) \/ Grow(c) \/ Fill(c)

\* A step of one caller moves no other.
LEMMA OthersStay ==
  ASSUME TypeOK, NEW c \in Callers, Call(c) \/ Step(c), NEW d \in Callers \ {c}
  PROVE  pc'[d] = pc[d] /\ pos'[d] = pos[d]
  <1>1. pos'[d] = pos[d]
    BY DEF Call, Step, EnterSpinLock, CheckHeap, CreateHeap, DestroyHeap, Reset, Build,
           FindHookEntry, NextHook, Protect, Write, Restore,
           SetFlag, QueueHook, MoveLast, Shrink, Count, Grow, Fill, LeaveSpinLock,
           locals, TypeOK
  <1>2. pc'[d] = pc[d]
    BY DEF Call, Step, EnterSpinLock, CheckHeap, CreateHeap, DestroyHeap, Reset, Build,
           FindHookEntry, NextHook, Protect, Write, Restore,
           SetFlag, QueueHook, MoveLast, Shrink, Count, Grow, Fill, LeaveSpinLock, Goto,
           TypeOK
  <1> QED
    BY <1>1, <1>2

\* The caller at work is inside and stays inside, with the lock held.
LEMMA WorkIsInside ==
  ASSUME NEW c \in Callers, Work(c)
  PROVE  Inside(c) /\ g_isLocked' = g_isLocked
  BY DEF Work, CheckHeap, CreateHeap, DestroyHeap, Reset, Build, FindHookEntry, NextHook,
         Protect, Write, Restore, SetFlag, QueueHook,
         MoveLast, Shrink, Count, Grow, Fill, Goto, Inside, Guarded

LEMMA WorkKeepsTableInv ==
  ASSUME LockInv, LockInv', TableInv, NEW c \in Callers, Work(c)
  PROVE  TableInv'
  <1>1. TypeOK /\ At(c) /\ Inside(c) /\ g_isLocked' = g_isLocked
    BY WorkIsInside DEF TableInv
  <1>2. PcTyped'
    BY DEF LockInv
  <1>3. TypeOK' /\ At(c)'
    BY <1>1, <1>2, FindKeeps, NextHookKeeps, ProtectKeeps, WriteKeeps, RestoreKeeps,
       SetFlagKeeps, QueueKeeps, MoveKeeps, ShrinkKeeps, BuildKeeps, CountKeeps, GrowKeeps,
       FillKeeps, CheckHeapKeeps, CreateHeapKeeps, DestroyHeapKeeps, ResetKeeps
       DEF Work
  <1>4. \A d \in Callers \ {c} : ~ Inside(d)
    BY <1>1 DEF LockInv, MutualExclusion
  <1>5. \A d \in Callers \ {c} : pc'[d] = pc[d] /\ pos'[d] = pos[d]
    BY <1>1, OthersStay DEF Step, Work
  <1>6. \A d \in Callers \ {c} : ~ Inside(d)' /\ pos'[d] = INVALID_HOOK_POS
    BY <1>4, <1>5 DEF Inside, TableInv, INVALID_HOOK_POS
  <1>7. Inside(c)'
    BY <1>1, <1>6 DEF LockInv, FlagTellsInside
  <1> QED
    BY <1>3, <1>6, <1>7 DEF TableInv

LEMMA NextKeepsTableInv ==
  ASSUME Interlocked = TRUE, LockInv, TableInv, [Next]_vars
  PROVE  LockInv' /\ TableInv'
  <1>1. LockInv' /\ PcTyped' /\ g_isLocked' \in BOOLEAN
    BY NextKeepsLockInv DEF LockInv
  <1>2. TypeOK
    BY DEF TableInv
  <1>3. CASE UNCHANGED vars
    <2>1. /\ UNCHANGED <<g_isLocked, g_hHeap, items, size, code, prot, oldProtect, refused>>
          /\ UNCHANGED <<pc, call, pos, count>>
      BY <1>3 DEF vars, table, memory, locals
    <2>2. TypeOK' /\ AtRest' = AtRest
      BY <1>2, <2>1 DEF TypeOK, AtRest, Whole, CodeFollows, Protected, Runnable
    <2>3. \A c \in Callers : Inside(c)' = Inside(c) /\ At(c)' = At(c)
      BY <2>1 DEF Inside, At, AtRest, Whole, CodeFollows, Protected, Runnable, Holds, Half,
                  Unprotected, Saved, InPatch, PagesOf, Item, Operation, Target, Wanted,
                  NewTarget, AtRestButLast, NoJumps, Passed, Heapless
    <2> QED
      BY <1>1, <2>1, <2>2, <2>3 DEF TableInv
  <1>4. ASSUME NEW c \in Callers, Call(c) \/ Step(c)
        PROVE  TableInv'
    <2>1. \A d \in Callers \ {c} : pc'[d] = pc[d] /\ pos'[d] = pos[d]
      BY <1>2, <1>4, OthersStay
    <2>2. CASE Work(c)
      BY <1>1, <2>2, WorkKeepsTableInv
    <2>3. CASE Call(c)
      <3>1. /\ UNCHANGED <<g_isLocked, g_hHeap, items, size, code, prot, oldProtect, refused>>
            /\ UNCHANGED <<call, pos, count>> /\ ~ Inside(c) /\ ~ Inside(c)'
        BY <1>1, <1>2, <2>3 DEF Call, table, memory, locals, Goto, TypeOK, Inside, Guarded
      <3>2. TypeOK'
        BY <1>1, <1>2, <3>1 DEF TypeOK, PcTyped
      <3>3. \A d \in Callers : Inside(d)' = Inside(d)
        BY <2>1, <3>1 DEF Inside
      <3>4. AtRest => AtRest'
        BY <3>1, RestKept
      <3>5. \A d \in Callers : Inside(d) /\ At(d) => At(d)'
        <4> TAKE d \in Callers
        <4>1. d # c /\ Inside(d) => pc'[d] = pc[d]
          BY <2>1
        <4> QED
          BY <3>1, <4>1
             DEF At, AtRest, Whole, CodeFollows, Protected, Runnable, Holds, Half,
                 Unprotected, Saved, InPatch, PagesOf, Item, Operation, Target, Wanted,
                 NewTarget, AtRestButLast, NoJumps, Passed, Heapless
      <3> QED
        BY <3>1, <3>2, <3>3, <3>4, <3>5 DEF TableInv
    <2>4. CASE EnterSpinLock(c)
      <3>1. ~ g_isLocked /\ pc[c] = "enter"
        BY <2>4 DEF EnterSpinLock, WasLocked, Goto
      <3>2. \A d \in Callers : ~ Inside(d)
        BY <3>1 DEF LockInv, FlagTellsInside
      <3>3. TypeOK' /\ At(c)'
        BY <1>1, <1>2, <2>4, <3>2, EnterKeeps DEF TableInv
      <3>4. \A d \in Callers \ {c} : ~ Inside(d)' /\ pos'[d] = INVALID_HOOK_POS
        BY <2>1, <3>2 DEF Inside, TableInv, INVALID_HOOK_POS
      <3>5. Inside(c)'
        <4>1. g_isLocked' = TRUE
          BY <2>4 DEF EnterSpinLock, Store
        <4> QED
          BY <1>1, <3>4, <4>1 DEF LockInv, FlagTellsInside
      <3> QED
        BY <3>3, <3>4, <3>5 DEF TableInv
    <2>5. CASE LeaveSpinLock(c)
      <3>1. Inside(c) /\ ~ Inside(c)'
        BY <1>2, <2>5 DEF LeaveSpinLock, Goto, TypeOK, Inside, Guarded
      <3>2. TypeOK' /\ AtRest' /\ pos'[c] = INVALID_HOOK_POS
        BY <1>1, <1>2, <2>5, <3>1, LeaveKeeps DEF TableInv
      <3>3. \A d \in Callers \ {c} : ~ Inside(d)
        BY <3>1 DEF LockInv, MutualExclusion
      <3>4. \A d \in Callers \ {c} : ~ Inside(d)' /\ pos'[d] = INVALID_HOOK_POS
        BY <2>1, <3>3 DEF Inside, TableInv, INVALID_HOOK_POS
      <3> QED
        BY <3>1, <3>2, <3>4 DEF TableInv, INVALID_HOOK_POS
    <2> QED
      BY <1>4, <2>2, <2>3, <2>4, <2>5 DEF Step, Work
  <1> QED
    BY <1>1, <1>3, <1>4 DEF Next

LEMMA InitTableInv ==
  ASSUME Init
  PROVE  LockInv /\ TableInv
  <1>1. LockInv
    BY DEF Init, LockInv, PcTyped, FlagTellsInside, MutualExclusion, Inside, Guarded
  <1>2. \A c \in Callers : ~ Inside(c) /\ pos[c] = INVALID_HOOK_POS
    BY DEF Init, Inside, Guarded
  <1>3. prot = CodeProtection
    BY DEF Init, Memory!Init
  <1>4. Protected
    BY <1>3, PagesAssumption DEF Protected, Runnable, CodeProtections
  <1>5. prot \in [Pages -> SUBSET Memory!Bits]
    BY <1>3, PagesAssumption DEF Memory!Bits
  <1>6. TypeOK
    <2>1. 0 \in 0 .. Capacity /\ "none" \in Memory!WinProtections
      BY LockAssumption DEF Memory!WinProtections
    <2>2. /\ pos \in [Callers -> 0 .. Capacity] /\ count \in [Callers -> 0 .. Capacity]
          /\ size \in 0 .. Capacity /\ oldProtect \in [Callers -> Memory!WinProtections]
      BY <2>1 DEF Init, INVALID_HOOK_POS
    <2>3. /\ items \in [1 .. Capacity -> Entry \cup {Garbage}]
          /\ code \in [Targets -> BOOLEAN] /\ call \in [Callers -> Calls \cup {NoCall}]
          /\ pc \in [Callers -> Guarded \cup {"idle", "enter"}]
      BY DEF Init
    <2> QED
      BY <1>5, <2>2, <2>3 DEF Init, TypeOK
  <1>7. AtRest
    BY <1>4 DEF Init, AtRest, Whole, CodeFollows
  <1> QED
    BY <1>1, <1>2, <1>6, <1>7 DEF TableInv

LEMMA TableInvHolds ==
  ASSUME Interlocked = TRUE
  PROVE  Spec => [](LockInv /\ TableInv)
  <1>1. Init => LockInv /\ TableInv
    BY InitTableInv
  <1>2. (LockInv /\ TableInv) /\ [Next]_vars => (LockInv /\ TableInv)'
    BY NextKeepsTableInv
  <1> QED
    BY <1>1, <1>2, PTL DEF Spec

\* The array is never outgrown and every local of every caller has its type.
THEOREM TableTyped ==
  ASSUME Interlocked = TRUE
  PROVE  Spec => []TypeOK
  <1>1. TableInv => TypeOK
    BY DEF TableInv
  <1> QED
    BY <1>1, TableInvHolds, PTL

\* The position a caller found is still that of its entry whenever it uses it.
THEOREM FoundStaysFresh ==
  ASSUME Interlocked = TRUE
  PROVE  Spec => []PositionsFresh
  <1>1. TableInv => PositionsFresh
    <2> SUFFICES ASSUME TableInv, NEW c \in Callers,
                        pc[c] \in {"protect", "write", "restore", "flag", "move"}
                 PROVE  /\ pos[c] \in 1 .. size
                        /\ Item(c) # Garbage
                        /\ Target(c) \in {Item(c).target, MH_ALL_HOOKS}
      BY DEF PositionsFresh
    <2>1. TypeOK /\ At(c)
      BY DEF TableInv, Inside, Guarded
    <2>2. Holds(c) /\ Whole(1 .. size)
      BY <2>1 DEF At, Half, AtRest
    <2>3. Item(c) \in Entry
      BY <2>1, <2>2, HeldFacts
    <2> QED
      BY <2>2, <2>3, GarbageAssumption DEF Holds
  <1> QED
    BY <1>1, TableInvHolds, PTL

\* Between calls the table is whole and the code is as it says.
THEOREM TableStaysConsistent ==
  ASSUME Interlocked = TRUE
  PROVE  Spec => []TableConsistent
  <1>1. TableInv => TableConsistent
    <2> SUFFICES ASSUME TableInv, \A c \in Callers : ~ Inside(c)
                 PROVE  /\ \A i \in 1 .. size : /\ items[i] # Garbage
                                                /\ code[items[i].target] = items[i].enabled
                        /\ \A i, j \in 1 .. size : items[i].target = items[j].target => i = j
                        /\ \A t \in Targets :
                             code[t] => \E i \in 1 .. size : items[i].target = t
                        /\ ~ g_hHeap => size = 0
      BY DEF TableConsistent
    <2>1. TypeOK /\ Whole(1 .. size) /\ \A t \in Targets : CodeFollows(t, 1 .. size)
      BY DEF TableInv, AtRest
    <2>2. ASSUME NEW i \in 1 .. size
          PROVE  items[i] # Garbage /\ code[items[i].target] = items[i].enabled
      <3>1. items[i] \in Entry /\ items[i].target \in Targets /\ items[i].enabled \in BOOLEAN
        BY <2>1 DEF Whole, Entry
      <3>2. code[items[i].target] \in BOOLEAN
        BY <2>1, <3>1 DEF TypeOK
      <3>3. code[items[i].target] <=> items[i].enabled
        BY <2>1, <3>1 DEF Whole, CodeFollows
      <3> QED
        BY <3>1, <3>2, <3>3, GarbageAssumption
    <2>3. \A i, j \in 1 .. size : items[i].target = items[j].target => i = j
      BY <2>1 DEF Whole
    <2>4. \A t \in Targets : code[t] => \E i \in 1 .. size : items[i].target = t
      BY <2>1 DEF CodeFollows
    <2> QED
      BY <2>2, <2>3, <2>4 DEF TableInv, AtRest
  <1> QED
    BY <1>1, TableInvHolds, PTL

\* No page is left without a permission it was loaded with, and the bytes that a caller
\* writes are all on writable pages.
THEOREM PagesStayUsable ==
  ASSUME Interlocked = TRUE
  PROVE  Spec => []PagesUsable
  <1>1. TableInv => PagesUsable
    <2> SUFFICES ASSUME TableInv
                 PROVE  /\ \A p \in Pages : CodeProtection[p] \subseteq prot[p]
                        /\ \A c \in Callers : pc[c] = "write" =>
                             \A i \in DOMAIN PagesOf(c) : "write" \in prot[PagesOf(c)[i]]
      BY DEF PagesUsable
    <2>1. Runnable
      <3>1. CASE \A c \in Callers : ~ Inside(c)
        BY <3>1 DEF TableInv, AtRest, Protected
      <3>2. CASE \E c \in Callers : Inside(c)
        <4> PICK c \in Callers : Inside(c)
          BY <3>2
        <4> QED
          BY DEF TableInv, At, AtRest, AtRestButLast, Protected, Unprotected, Inside, Guarded
      <3> QED
        BY <3>1, <3>2
    <2>2. ASSUME NEW c \in Callers, pc[c] = "write", NEW i \in DOMAIN PagesOf(c)
          PROVE  "write" \in prot[PagesOf(c)[i]]
      <3>1. TypeOK /\ Holds(c) /\ Whole(1 .. size) /\ Unprotected(c)
        BY <2>2 DEF TableInv, At, Inside, Guarded
      <3>2. InPatch(c, PagesOf(c)[i])
        BY DEF InPatch, Memory!Range
      <3>3. PagesOf(c)[i] \in Pages
        BY <3>1, <3>2, HeldFacts DEF InPatch
      <3> QED
        BY <3>1, <3>2, <3>3 DEF Unprotected
    <2> QED
      BY <2>1, <2>2 DEF Runnable
  <1> QED
    BY <1>1, TableInvHolds, PTL

\* Unless the kernel refused to, every page is protected again when the last caller left.
THEOREM PagesAreRestored ==
  ASSUME Interlocked = TRUE
  PROVE  Spec => []ProtectionRestored
  <1>1. TableInv => ProtectionRestored
    BY DEF TableInv, ProtectionRestored, AtRest, Protected
  <1> QED
    BY <1>1, TableInvHolds, PTL
===============================================================================
