---------------------------- MODULE MinHook_proofs ----------------------------
(***************************************************************************)
(* Proofs about MinHook: for any sets of targets, detours, slots and cells,*)
(* any capacity and any geometry, provided the targets do not overlap.     *)
(***************************************************************************)
EXTENDS MinHook, SequenceTheorems, TLAPS

(* The inductive invariant: the invariants the runs check, together.  None  *)
(* is inductive alone. A backup taken while another hook is enabled is      *)
(* original only if that hook's patch is where CodeMatchesHooks says, and   *)
(* disabling restores the code only if the backup is original and no second *)
(* entry writes to the same cells.                                          *)
IInv ==
  /\ TypeOK
  /\ OneHookPerTarget
  /\ BuffersOwnedOnce
  /\ CodeMatchesHooks
  /\ OriginalKept
  /\ CleanWhenDown

-----------------------------------------------------------------------------
(* Sequences and entries.                                                      *)

\* A function on 1..n is a sequence of length n.
LEMMA FunctionIsSequence ==
  ASSUME NEW S, NEW n \in Nat, NEW f \in [1 .. n -> S]
  PROVE  f \in Seq(S) /\ Len(f) = n /\ DOMAIN f = 1 .. n
  OBVIOUS

\* The fields of an entry, and a record with such fields is an entry.
LEMMA EntryFields ==
  ASSUME NEW h \in HookEntry
  PROVE  /\ h.target \in Targets /\ h.buffer \in Buffers
         /\ h.above \in BOOLEAN /\ h.enabled \in BOOLEAN /\ h.queued \in BOOLEAN
         /\ h.backup \in [Area[h.target][h.above] -> Contents]
         /\ Area[h.target][h.above] \subseteq Cells
         /\ Area[h.target][h.above] \subseteq Extent(h.target)
  <1>1. PICK t \in Targets, above \in BOOLEAN :
          h \in EntryAt(t, above)
    BY DEF HookEntry
  <1>2. h.target = t /\ h.above = above
    BY <1>1 DEF EntryAt
  <1>3. Area[t][above] \subseteq Cells
    BY GeometryAssumption
  <1>4. Area[t][above] \subseteq Extent(t)
    BY DEF Extent
  <1> QED
    BY <1>1, <1>2, <1>3, <1>4 DEF EntryAt

\* The entry NewEntry makes is an entry of its target, whatever the code holds.
LEMMA EntryMade ==
  ASSUME NEW t \in Targets, NEW b \in Buffers, NEW above \in BOOLEAN,
         NEW enabled \in BOOLEAN, NEW queued \in BOOLEAN,
         NEW backup \in [Area[t][above] -> Contents]
  PROVE  [target |-> t, buffer |-> b, above |-> above, enabled |-> enabled,
          queued |-> queued, backup |-> backup] \in HookEntry
  <1> DEFINE h == [target |-> t, buffer |-> b, above |-> above, enabled |-> enabled,
                   queued |-> queued, backup |-> backup]
  <1>1. h \in EntryAt(t, above)
    BY DEF EntryAt
  <1> HIDE DEF h
  <1>2. <<t, above>> \in Targets \X BOOLEAN
    OBVIOUS
  <1>3. h \in HookEntry
    BY <1>1, <1>2 DEF HookEntry
  <1> QED
    BY <1>3 DEF h

\* Setting the flags of an entry keeps everything else.
LEMMA FlagsSet ==
  ASSUME NEW h \in HookEntry, NEW on \in BOOLEAN
  PROVE  /\ Switched(h, on) \in HookEntry
         /\ Switched(h, on).target = h.target /\ Switched(h, on).buffer = h.buffer
         /\ Switched(h, on).above = h.above /\ Switched(h, on).backup = h.backup
         /\ Switched(h, on).enabled = on /\ Switched(h, on).queued = on
  <1>1. PICK t \in Targets, above \in BOOLEAN : h \in EntryAt(t, above)
    BY DEF HookEntry
  <1>2. Switched(h, on) \in EntryAt(t, above)
    BY <1>1 DEF EntryAt, Switched
  <1>3. <<t, above>> \in Targets \X BOOLEAN
    OBVIOUS
  <1>4. Switched(h, on) \in HookEntry
    BY <1>2, <1>3 DEF HookEntry
  <1>5. /\ Switched(h, on).target = h.target /\ Switched(h, on).buffer = h.buffer
        /\ Switched(h, on).above = h.above /\ Switched(h, on).backup = h.backup
        /\ Switched(h, on).enabled = on /\ Switched(h, on).queued = on
    BY <1>1 DEF EntryAt, Switched
  <1> QED
    BY <1>4, <1>5

\* Setting only the wish of an entry keeps everything else.
LEMMA WishSet ==
  ASSUME NEW h \in HookEntry, NEW on \in BOOLEAN
  PROVE  /\ [h EXCEPT !.queued = on] \in HookEntry
         /\ [h EXCEPT !.queued = on].target = h.target
         /\ [h EXCEPT !.queued = on].buffer = h.buffer
         /\ [h EXCEPT !.queued = on].above = h.above
         /\ [h EXCEPT !.queued = on].backup = h.backup
         /\ [h EXCEPT !.queued = on].enabled = h.enabled
  <1>1. PICK t \in Targets, above \in BOOLEAN : h \in EntryAt(t, above)
    BY DEF HookEntry
  <1>2. [h EXCEPT !.queued = on] \in EntryAt(t, above)
    BY <1>1 DEF EntryAt
  <1>3. <<t, above>> \in Targets \X BOOLEAN
    OBVIOUS
  <1>4. [h EXCEPT !.queued = on] \in HookEntry
    BY <1>2, <1>3 DEF HookEntry
  <1> QED
    BY <1>1, <1>4 DEF EntryAt

\* What TypeOK says of the table, position by position.
LEMMA TableFacts ==
  ASSUME TypeOK
  PROVE  /\ Len(hooks) \in Nat /\ DOMAIN hooks = 1 .. Len(hooks)
         /\ \A i \in DOMAIN hooks :
              /\ hooks[i] \in HookEntry
              /\ Patches(i) \subseteq Cells
              /\ Patches(i) \subseteq Extent(hooks[i].target)
  BY EntryFields DEF TypeOK, Patches

-----------------------------------------------------------------------------
(* The lookup and the patch.                                                   *)

\* FindHookEntry finds the entry of t when there is one.
LEMMA FindHookEntrySpec ==
  ASSUME TypeOK, OneHookPerTarget, NEW t
  PROVE  /\ FindHookEntry(t) = INVALID_HOOK_POS =>
              \A i \in DOMAIN hooks : hooks[i].target # t
         /\ FindHookEntry(t) # INVALID_HOOK_POS =>
              /\ FindHookEntry(t) \in DOMAIN hooks
              /\ hooks[FindHookEntry(t)].target = t
  <1>1. CASE Matches(t) = {}
    BY <1>1 DEF FindHookEntry, Matches
  <1>2. CASE Matches(t) # {}
    <2>1. PICK i \in DOMAIN hooks : hooks[i].target = t
      BY <1>2 DEF Matches
    <2>2. Matches(t) = {i} /\ i \in Nat \ {0}
      BY <2>1, TableFacts DEF Matches, OneHookPerTarget
    <2>3. FindHookEntry(t) = i
      BY <2>2 DEF FindHookEntry
    <2> QED
      BY <2>1, <2>2, <2>3 DEF INVALID_HOOK_POS
  <1> QED
    BY <1>1, <1>2

\* No two entries write to the same cell.
LEMMA PatchesDisjoint ==
  ASSUME DisjointTargets, TypeOK, OneHookPerTarget,
         NEW i \in DOMAIN hooks, NEW j \in DOMAIN hooks,
         NEW c \in Patches(i), c \in Patches(j)
  PROVE  i = j
  <1>1. hooks[i].target \in Targets /\ hooks[j].target \in Targets
    BY TableFacts, EntryFields
  <1>2. c \in Extent(hooks[i].target) \cap Extent(hooks[j].target)
    BY TableFacts
  <1> QED
    BY <1>1, <1>2 DEF DisjointTargets, OneHookPerTarget

\* So CodeAfter writes each cell at most once.
LEMMA CodeAfterAt ==
  ASSUME DisjointTargets, TypeOK, OneHookPerTarget,
         NEW S \in SUBSET DOMAIN hooks, NEW on, NEW c \in Cells
  PROVE  /\ \A i \in S : c \in Patches(i) => CodeAfter(S, on)[c] = Written(i, on, c)
         /\ (\A i \in S : c \notin Patches(i)) => CodeAfter(S, on)[c] = code[c]
  <1> DEFINE writers == {i \in S : c \in Patches(i)}
  <1>1. CodeAfter(S, on)[c] =
          IF writers = {} THEN code[c]
          ELSE Written(CHOOSE i \in writers : \A j \in writers : i >= j, on, c)
    BY DEF CodeAfter
  <1>2. ASSUME NEW i \in S, c \in Patches(i)
        PROVE  CodeAfter(S, on)[c] = Written(i, on, c)
    <2>1. \A j \in writers : j = i
      BY <1>2, PatchesDisjoint
    <2>2. i \in writers /\ i \in Nat
      BY <1>2, TableFacts
    <2>3. (CHOOSE k \in writers : \A j \in writers : k >= j) = i
      BY <2>1, <2>2
    <2> QED
      BY <1>1, <2>2, <2>3
  <1> QED
    BY <1>1, <1>2

\* Patching leaves every cell with contents of the right kind.
LEMMA CodeAfterTyped ==
  ASSUME DisjointTargets, TypeOK, OneHookPerTarget,
         NEW S \in SUBSET DOMAIN hooks, NEW on
  PROVE  CodeAfter(S, on) \in [Cells -> Contents]
  <1>1. ASSUME NEW c \in Cells
        PROVE  CodeAfter(S, on)[c] \in Contents
    <2>1. CASE \A i \in S : c \notin Patches(i)
      BY <2>1, CodeAfterAt DEF TypeOK
    <2>2. CASE \E i \in S : c \in Patches(i)
      <3>1. PICK i \in S : c \in Patches(i)
        BY <2>2
      <3>2. hooks[i].buffer \in Contents /\ hooks[i].backup[c] \in Contents
        BY <3>1, TableFacts, EntryFields DEF Contents, Patches
      <3>3. Written(i, on, c) \in Contents
        BY <3>2 DEF Written
      <3> QED
        BY <3>1, <3>3, CodeAfterAt
    <2> QED
      BY <2>1, <2>2
  <1> QED
    BY <1>1 DEF CodeAfter

\* Disabling an entry gives its cells their original bytes back.
LEMMA Restored ==
  ASSUME DisjointTargets, TypeOK, OneHookPerTarget, OriginalKept,
         NEW S \in SUBSET DOMAIN hooks, NEW on, NEW i \in S, ~on[i],
         NEW c \in Patches(i)
  PROVE  CodeAfter(S, on)[c] = Original
  <1>1. c \in Cells
    BY TableFacts
  <1>2. CodeAfter(S, on)[c] = Written(i, on, c)
    BY <1>1, CodeAfterAt
  <1> QED
    BY <1>2 DEF Written, OriginalKept

-----------------------------------------------------------------------------
(* One lemma for every way in which the actions change the table.              *)

\* Switching any entries to any states: EnableHook, SwitchHooks.
LEMMA SwitchingKeepsIInv ==
  ASSUME DisjointTargets, IInv,
         NEW S \in SUBSET DOMAIN hooks, NEW on \in [DOMAIN hooks -> BOOLEAN],
         hooks' = HooksAfter(S, on), code' = CodeAfter(S, on),
         UNCHANGED <<libkernel, heap, items, buffers>>, status' \in Statuses
  PROVE  IInv'
  <1> USE DEF IInv
  <1>1. Len(hooks) \in Nat /\ DOMAIN hooks = 1 .. Len(hooks)
    BY TableFacts
  <1>2. \A i \in DOMAIN hooks : hooks'[i] = IF i \in S THEN Switched(hooks[i], on[i])
                                                      ELSE hooks[i]
    BY DEF HooksAfter
  <1>3. \A i \in DOMAIN hooks :
          /\ hooks'[i] \in HookEntry
          /\ hooks'[i].target = hooks[i].target /\ hooks'[i].buffer = hooks[i].buffer
          /\ hooks'[i].above = hooks[i].above /\ hooks'[i].backup = hooks[i].backup
          /\ i \in S => hooks'[i].enabled = on[i]
          /\ i \notin S => hooks'[i].enabled = hooks[i].enabled
    <2> TAKE i \in DOMAIN hooks
    <2>1. hooks[i] \in HookEntry /\ on[i] \in BOOLEAN
      BY TableFacts
    <2>2. CASE i \in S
      <3>1. hooks'[i] = Switched(hooks[i], on[i])
        BY <1>2, <2>2
      <3> QED
        BY <2>1, <2>2, <3>1, FlagsSet
    <2>3. CASE i \notin S
      <3>1. hooks'[i] = hooks[i]
        BY <1>2, <2>3
      <3> QED
        BY <2>1, <2>3, <3>1
    <2> QED
      BY <2>2, <2>3
  <1>4. hooks' \in Seq(HookEntry) /\ Len(hooks') = Len(hooks) /\ DOMAIN hooks' = DOMAIN hooks
    <2>1. hooks' \in [1 .. Len(hooks) -> HookEntry]
      BY <1>1, <1>3 DEF HooksAfter
    <2> QED
      BY <1>1, <2>1, FunctionIsSequence
  <1>5. TypeOK'
    BY <1>4, CodeAfterTyped DEF TypeOK
  <1>6. OneHookPerTarget'
    BY <1>3, <1>4 DEF OneHookPerTarget
  <1>7. BuffersOwnedOnce'
    <2>1. {hooks'[i].buffer : i \in DOMAIN hooks'} = {hooks[i].buffer : i \in DOMAIN hooks}
      BY <1>3, <1>4
    <2> QED
      BY <1>3, <1>4, <2>1 DEF BuffersOwnedOnce
  <1>8. \A i \in DOMAIN hooks : Patches(i)' = Patches(i)
    BY <1>3 DEF Patches
  <1>9. CodeMatchesHooks'
    <2> SUFFICES ASSUME NEW c \in Cells
                 PROVE  /\ \A i \in EnabledAt(c)' : code'[c] = hooks'[i].buffer
                        /\ EnabledAt(c)' = {} => code'[c] = Original
      BY DEF CodeMatchesHooks
    <2>1. CASE \E i \in S : c \in Patches(i)
      <3>1. PICK i \in S : c \in Patches(i)
        BY <2>1
      <3>2. code'[c] = IF on[i] THEN hooks[i].buffer ELSE Original
        BY <3>1, CodeAfterAt, Restored DEF Written
      <3>3. EnabledAt(c)' = IF on[i] THEN {i} ELSE {}
        BY <3>1, <1>3, <1>4, <1>8, PatchesDisjoint DEF EnabledAt
      <3> QED
        BY <3>1, <3>2, <3>3, <1>3
    <2>2. CASE \A i \in S : c \notin Patches(i)
      <3>1. code'[c] = code[c]
        BY <2>2, CodeAfterAt
      <3>2. EnabledAt(c)' = EnabledAt(c)
        BY <2>2, <1>3, <1>4, <1>8 DEF EnabledAt
      <3> QED
        BY <3>1, <3>2, <1>3 DEF CodeMatchesHooks, EnabledAt
    <2> QED
      BY <2>1, <2>2
  <1>10. OriginalKept'
    <2>1. ASSUME NEW i \in DOMAIN hooks', NEW c \in Patches(i)'
          PROVE  hooks'[i].backup[c] = Original
      BY <1>3, <1>4, <1>8 DEF OriginalKept
    <2>2. \A b \in DOMAIN buffers' : \A c \in Prologue[buffers'[b].target] :
            buffers'[b].prologue[c] = Original
      BY DEF OriginalKept
    <2> QED
      BY <2>1, <2>2 DEF OriginalKept
  <1>11. CleanWhenDown'
    <2>1. hooks = <<>> => hooks' = <<>> /\ S = {}
      BY <1>1, <1>4, EmptySeq
    <2>2. hooks = <<>> => \A c \in Cells : code'[c] = code[c]
      BY <2>1, CodeAfterAt
    <2> QED
      BY <2>1, <2>2 DEF CleanWhenDown
  <1> QED
    BY <1>5, <1>6, <1>7, <1>9, <1>10, <1>11

\* Queueing changes no field an invariant looks at: QueueHook.
LEMMA QueueingKeepsIInv ==
  ASSUME IInv, NEW S \in SUBSET DOMAIN hooks, NEW on \in BOOLEAN,
         hooks' = Requeued(S, on),
         UNCHANGED <<libkernel, heap, items, code, buffers>>, status' \in Statuses
  PROVE  IInv'
  <1> USE DEF IInv
  <1>1. Len(hooks) \in Nat /\ DOMAIN hooks = 1 .. Len(hooks)
    BY TableFacts
  <1>2. \A i \in DOMAIN hooks :
          /\ hooks'[i] \in HookEntry
          /\ hooks'[i].target = hooks[i].target /\ hooks'[i].buffer = hooks[i].buffer
          /\ hooks'[i].above = hooks[i].above /\ hooks'[i].backup = hooks[i].backup
          /\ hooks'[i].enabled = hooks[i].enabled
    <2> TAKE i \in DOMAIN hooks
    <2>1. hooks[i] \in HookEntry
      BY TableFacts
    <2>2. CASE i \in S
      <3>1. hooks'[i] = [hooks[i] EXCEPT !.queued = on]
        BY <2>2 DEF Requeued
      <3> QED
        BY <2>1, <3>1, WishSet
    <2>3. CASE i \notin S
      <3>1. hooks'[i] = hooks[i]
        BY <2>3 DEF Requeued
      <3> QED
        BY <2>1, <3>1
    <2> QED
      BY <2>2, <2>3
  <1>3. hooks' \in Seq(HookEntry) /\ Len(hooks') = Len(hooks) /\ DOMAIN hooks' = DOMAIN hooks
    <2>1. hooks' \in [1 .. Len(hooks) -> HookEntry]
      BY <1>1, <1>2 DEF Requeued
    <2> QED
      BY <1>1, <2>1, FunctionIsSequence
  <1>4. \A i \in DOMAIN hooks : Patches(i)' = Patches(i)
    BY <1>2 DEF Patches
  <1>5. TypeOK'
    BY <1>3 DEF TypeOK
  <1>6. OneHookPerTarget'
    BY <1>2, <1>3 DEF OneHookPerTarget
  <1>7. BuffersOwnedOnce'
    <2>1. {hooks'[i].buffer : i \in DOMAIN hooks'} = {hooks[i].buffer : i \in DOMAIN hooks}
      BY <1>2, <1>3
    <2> QED
      BY <1>2, <1>3, <2>1 DEF BuffersOwnedOnce
  <1>8. CodeMatchesHooks'
    <2>1. \A c \in Cells : EnabledAt(c)' = EnabledAt(c)
      BY <1>2, <1>3, <1>4 DEF EnabledAt
    <2> QED
      BY <1>2, <2>1 DEF CodeMatchesHooks, EnabledAt
  <1>9. OriginalKept'
    <2>1. ASSUME NEW i \in DOMAIN hooks', NEW c \in Patches(i)'
          PROVE  hooks'[i].backup[c] = Original
      BY <1>2, <1>3, <1>4 DEF OriginalKept
    <2>2. \A b \in DOMAIN buffers' : \A c \in Prologue[buffers'[b].target] :
            buffers'[b].prologue[c] = Original
      BY DEF OriginalKept
    <2> QED
      BY <2>1, <2>2 DEF OriginalKept
  <1>10. CleanWhenDown'
    <2>1. hooks = <<>> => hooks' = <<>>
      BY <1>1, <1>3, EmptySeq
    <2> QED
      BY <2>1 DEF CleanWhenDown
  <1> QED
    BY <1>5, <1>6, <1>7, <1>8, <1>9, <1>10

\* What the code memory of a target without entry holds.
LEMMA UnhookedIsOriginal ==
  ASSUME DisjointTargets, TypeOK, CodeMatchesHooks, NEW t \in Targets,
         \A i \in DOMAIN hooks : hooks[i].target # t,
         NEW c \in Extent(t) \cap Cells
  PROVE  code[c] = Original
  <1>1. ASSUME NEW i \in DOMAIN hooks
        PROVE  c \notin Patches(i)
    <2>1. hooks[i].target \in Targets /\ Patches(i) \subseteq Extent(hooks[i].target)
      BY TableFacts, EntryFields
    <2> QED
      BY <2>1 DEF DisjointTargets
  <1>2. EnabledAt(c) = {}
    BY <1>1 DEF EnabledAt
  <1> QED
    BY <1>2 DEF CodeMatchesHooks

\* A new entry: AddHookEntry.
LEMMA CreationKeepsIInv ==
  ASSUME DisjointTargets, IInv, heap, NEW t \in Targets, NEW d \in Detours,
         FindHookEntry(t) = INVALID_HOOK_POS,
         NEW b \in Buffers \ DOMAIN buffers, NEW above \in BOOLEAN,
         AddHookEntry(b, t, d, above)
  PROVE  IInv'
  <1> USE DEF IInv
  <1> DEFINE h == NewEntry(t, b, above)
  <1>1. PICK n \in Nat : n = Len(hooks) /\ DOMAIN hooks = 1 .. n
    BY TableFacts
  <1>2. \A i \in DOMAIN hooks : hooks[i].target # t
    BY FindHookEntrySpec
  <1>3. /\ Area[t][above] \subseteq Cells /\ Prologue[t] \subseteq Cells
        /\ Area[t][above] \subseteq Extent(t) /\ Prologue[t] \subseteq Extent(t)
    <2>1. Area[t][above] \subseteq Cells
      BY GeometryAssumption
    <2>2. Prologue[t] \subseteq Cells
      BY GeometryAssumption
    <2>3. Area[t][above] \subseteq Extent(t)
      BY DEF Extent
    <2>4. Prologue[t] \subseteq Extent(t)
      BY DEF Extent
    <2> QED
      BY <2>1, <2>2, <2>3, <2>4
  <1>4. /\ \A c \in Area[t][above] : code[c] = Original
        /\ \A c \in Prologue[t] : code[c] = Original
    BY <1>2, <1>3, UnhookedIsOriginal
  <1>5. /\ h.target = t /\ h.buffer = b /\ h.above = above /\ h.enabled = FALSE
        /\ \A c \in Area[t][above] : h.backup[c] = Original
    BY <1>4 DEF NewEntry
  <1>6. h \in HookEntry
    <2>1. [c \in Area[t][above] |-> code[c]] \in [Area[t][above] -> Contents]
      BY <1>3 DEF TypeOK
    <2> QED
      BY <2>1, EntryMade DEF NewEntry
  <1> HIDE DEF h
  <1>7. /\ hooks' \in Seq(HookEntry) /\ Len(hooks') = n + 1
        /\ DOMAIN hooks' = 1 .. (n + 1)
        /\ \A i \in 1 .. n : hooks'[i] = hooks[i]
        /\ hooks'[n + 1] = h
    BY <1>1, <1>6, AppendProperties, LenProperties DEF AddHookEntry, TypeOK, h
  <1>8. Trampoline(t, d) \in BuiltBuffer
    <2>1. [c \in Prologue[t] |-> code[c]] \in [Prologue[t] -> Contents]
      BY <1>3 DEF TypeOK
    <2>2. Trampoline(t, d) \in BuiltFor(t)
      BY <2>1 DEF Trampoline, BuiltFor
    <2> QED
      BY <2>2 DEF BuiltBuffer
  <1>9. /\ DOMAIN buffers' = DOMAIN buffers \cup {b}
        /\ buffers'[b] = Trampoline(t, d)
        /\ \A s \in DOMAIN buffers : buffers'[s] = buffers[s]
    BY DEF AddHookEntry, Built
  <1>10. Patches(n + 1)' = Area[t][above] /\ \A i \in 1 .. n : Patches(i)' = Patches(i)
    <2>1. Patches(n + 1)' = Area[t][above]
      BY <1>5, <1>7 DEF Patches
    <2>2. \A i \in 1 .. n : Patches(i)' = Patches(i)
      BY <1>7 DEF Patches
    <2> QED
      BY <2>1, <2>2
  <1>11. TypeOK'
    <2>1. buffers' \in [DOMAIN buffers' -> BuiltBuffer] /\ DOMAIN buffers' \subseteq Buffers
      BY <1>8, <1>9 DEF TypeOK, AddHookEntry, Built
    <2>2. hooks' \in Seq(HookEntry) /\ Len(hooks') <= Capacity
      BY <1>1, <1>7, CapacityAssumption DEF AddHookEntry, HasRoom
    <2> QED
      BY <2>1, <2>2 DEF TypeOK, AddHookEntry, Statuses
  <1>12. OneHookPerTarget'
    BY <1>1, <1>2, <1>5, <1>7 DEF OneHookPerTarget
  <1>13. BuffersOwnedOnce'
    <2>1. \A i \in 1 .. n : hooks[i].buffer \in DOMAIN buffers /\ hooks[i].buffer # b
      BY <1>1 DEF BuffersOwnedOnce
    <2>2. {hooks'[i].buffer : i \in DOMAIN hooks'}
            = {hooks[i].buffer : i \in DOMAIN hooks} \cup {b}
      BY <1>1, <1>5, <1>7
    <2>3. buffers'[b].target = t
      BY <1>9 DEF Trampoline
    <2>4. ASSUME NEW i \in DOMAIN hooks', NEW j \in DOMAIN hooks',
                 hooks'[i].buffer = hooks'[j].buffer
          PROVE  i = j
      BY <1>1, <1>5, <1>7, <2>1, <2>4 DEF BuffersOwnedOnce
    <2>5. ASSUME NEW i \in DOMAIN hooks'
          PROVE  buffers'[hooks'[i].buffer].target = hooks'[i].target
      <3>1. CASE i = n + 1
        <4>1. hooks'[i] = h
          BY <1>7, <3>1
        <4>2. h.buffer = b /\ h.target = t
          BY <1>5
        <4> QED
          BY <2>3, <4>1, <4>2
      <3>2. CASE i \in 1 .. n
        <4>1. hooks'[i] = hooks[i] /\ hooks[i].buffer \in DOMAIN buffers
          BY <1>7, <2>1, <3>2
        <4>2. buffers[hooks[i].buffer].target = hooks[i].target
          BY <1>1, <3>2 DEF BuffersOwnedOnce
        <4> QED
          BY <1>9, <4>1, <4>2
      <3> QED
        BY <1>1, <1>7, <3>1, <3>2
    <2> QED
      BY <1>9, <2>2, <2>4, <2>5 DEF BuffersOwnedOnce
  <1>14. CodeMatchesHooks'
    <2>1. \A c \in Cells : EnabledAt(c)' = EnabledAt(c)
      BY <1>1, <1>5, <1>7, <1>10 DEF EnabledAt
    <2> QED
      BY <1>1, <1>7, <2>1 DEF CodeMatchesHooks, EnabledAt, AddHookEntry
  <1>15. OriginalKept'
    <2>1. ASSUME NEW i \in DOMAIN hooks', NEW c \in Patches(i)'
          PROVE  hooks'[i].backup[c] = Original
      <3>1. CASE i = n + 1
        BY <1>5, <1>7, <1>10, <3>1
      <3>2. CASE i \in 1 .. n
        BY <1>1, <1>7, <1>10, <3>2 DEF OriginalKept
      <3> QED
        BY <1>1, <1>7, <3>1, <3>2
    <2>2. ASSUME NEW s \in DOMAIN buffers', NEW c \in Prologue[buffers'[s].target]
          PROVE  buffers'[s].prologue[c] = Original
      <3>1. CASE s = b
        BY <1>4, <1>9, <3>1 DEF Trampoline
      <3>2. CASE s # b
        BY <1>9, <3>2 DEF OriginalKept
      <3> QED
        BY <3>1, <3>2
    <2> QED
      BY <2>1, <2>2 DEF OriginalKept
  <1>16. CleanWhenDown'
    BY DEF CleanWhenDown, AddHookEntry
  <1> QED
    BY <1>11, <1>12, <1>13, <1>14, <1>15, <1>16

\* An entry disappears and the last one takes its place: MH_RemoveHook.
LEMMA RemovalKeepsIInv ==
  ASSUME DisjointTargets, IInv, heap, NEW pos \in DOMAIN hooks,
         code' = CodeAfter({pos} \cap Pending(All(FALSE)), All(FALSE)),
         buffers' = FreeBuffer(buffers, hooks[pos].buffer),
         hooks' = DeleteHookEntry(pos),
         UNCHANGED <<libkernel, heap, items>>, status' \in Statuses
  PROVE  IInv'
  <1> USE DEF IInv
  <1>1. PICK n \in Nat \ {0} : n = Len(hooks) /\ DOMAIN hooks = 1 .. n
    <2>1. Len(hooks) \in Nat /\ DOMAIN hooks = 1 .. Len(hooks)
      BY TableFacts
    <2>2. Len(hooks) # 0
      BY <2>1
    <2> QED
      BY <2>1, <2>2
  <1> DEFINE old(i) == IF i = pos THEN n ELSE i
             S == {pos} \cap Pending(All(FALSE))
  <1>2. \A i \in 1 .. (n - 1) :
          hooks'[i] = hooks[old(i)] /\ old(i) \in 1 .. n /\ old(i) # pos
    BY <1>1 DEF DeleteHookEntry
  <1>3. \A j \in 1 .. n : j # pos => \E i \in 1 .. (n - 1) : old(i) = j
    BY <1>1
  <1>4. \A i, j \in 1 .. (n - 1) : old(i) = old(j) => i = j
    BY <1>1
  <1>5. hooks' \in Seq(HookEntry) /\ Len(hooks') = n - 1 /\ DOMAIN hooks' = 1 .. (n - 1)
    <2>1. hooks' \in [1 .. (n - 1) -> HookEntry]
      BY <1>1, <1>2, TableFacts DEF DeleteHookEntry
    <2> QED
      BY <1>1, <2>1, FunctionIsSequence
  <1>6. /\ DOMAIN buffers' = DOMAIN buffers \ {hooks[pos].buffer}
        /\ \A s \in DOMAIN buffers' : buffers'[s] = buffers[s]
    BY DEF FreeBuffer
  <1>7. S \in SUBSET DOMAIN hooks
    OBVIOUS
  <1>8. TypeOK'
    <2>1. code' \in [Cells -> Contents]
      BY <1>7, CodeAfterTyped
    <2>2. Len(hooks') <= Capacity
      BY <1>1, <1>5, CapacityAssumption DEF TypeOK
    <2>3. DOMAIN buffers' \subseteq Buffers /\ buffers' \in [DOMAIN buffers' -> BuiltBuffer]
      BY <1>6 DEF TypeOK, FreeBuffer
    <2> QED
      BY <1>5, <2>1, <2>2, <2>3 DEF TypeOK
  <1>9. OneHookPerTarget'
    BY <1>1, <1>2, <1>4, <1>5 DEF OneHookPerTarget
  <1>10. BuffersOwnedOnce'
    <2>1. ASSUME NEW i \in DOMAIN hooks', NEW j \in DOMAIN hooks',
                 hooks'[i].buffer = hooks'[j].buffer
          PROVE  i = j
      <3>1. hooks[old(i)].buffer = hooks[old(j)].buffer
        BY <1>2, <1>5, <2>1
      <3>2. old(i) \in DOMAIN hooks /\ old(j) \in DOMAIN hooks
        BY <1>1, <1>2, <1>5
      <3>3. old(i) = old(j)
        BY <3>1, <3>2 DEF BuffersOwnedOnce
      <3> QED
        BY <1>4, <1>5, <3>3
    <2>2. \A j \in 1 .. n : j # pos => hooks[j].buffer \in DOMAIN buffers'
      BY <1>1, <1>6 DEF BuffersOwnedOnce
    <2>3. {hooks'[i].buffer : i \in DOMAIN hooks'} = DOMAIN buffers'
      <3>1. ASSUME NEW i \in DOMAIN hooks'
            PROVE  hooks'[i].buffer \in DOMAIN buffers'
        BY <1>2, <1>5, <2>2
      <3>2. ASSUME NEW s \in DOMAIN buffers'
            PROVE  \E i \in DOMAIN hooks' : hooks'[i].buffer = s
        <4>1. PICK j \in 1 .. n : hooks[j].buffer = s /\ j # pos
          BY <1>1, <1>6 DEF BuffersOwnedOnce
        <4>2. PICK i \in 1 .. (n - 1) : old(i) = j
          BY <1>3, <4>1
        <4> QED
          BY <1>2, <1>5, <4>1, <4>2
      <3> QED
        BY <3>1, <3>2
    <2>4. ASSUME NEW i \in DOMAIN hooks'
          PROVE  buffers'[hooks'[i].buffer].target = hooks'[i].target
      <3>1. PICK j \in 1 .. n : hooks'[i] = hooks[j] /\ j # pos
        BY <1>2, <1>5
      <3>2. buffers'[hooks[j].buffer] = buffers[hooks[j].buffer]
        BY <1>6, <2>2, <3>1
      <3>3. buffers[hooks[j].buffer].target = hooks[j].target
        BY <1>1 DEF BuffersOwnedOnce
      <3> QED
        BY <3>1, <3>2, <3>3
    <2> QED
      BY <2>1, <2>3, <2>4 DEF BuffersOwnedOnce
  <1>11. \A i \in 1 .. (n - 1) : Patches(i)' = Patches(old(i))
    BY <1>2 DEF Patches
  <1>12. CodeMatchesHooks'
    <2> SUFFICES ASSUME NEW c \in Cells
                 PROVE  /\ \A i \in EnabledAt(c)' : code'[c] = hooks'[i].buffer
                        /\ EnabledAt(c)' = {} => code'[c] = Original
      BY DEF CodeMatchesHooks
    <2>1. \A i \in DOMAIN hooks' :
            i \in EnabledAt(c)' <=> old(i) \in EnabledAt(c) \ {pos}
      BY <1>1, <1>2, <1>5, <1>11 DEF EnabledAt
    <2>2. EnabledAt(c)' = {} <=> EnabledAt(c) \subseteq {pos}
      BY <1>1, <1>2, <1>3, <1>5, <2>1 DEF EnabledAt
    <2>3. S = IF hooks[pos].enabled THEN {pos} ELSE {}
      BY TableFacts, EntryFields DEF Pending, All
    <2>4. CASE pos \in EnabledAt(c)
      <3>1. pos \in S /\ c \in Patches(pos)
        BY <2>3, <2>4 DEF EnabledAt
      <3>2. code'[c] = Original
        BY <1>7, <3>1, Restored DEF All
      <3>3. EnabledAt(c) \subseteq {pos}
        BY <3>1, PatchesDisjoint DEF EnabledAt
      <3> QED
        BY <2>1, <2>2, <3>2, <3>3 DEF EnabledAt
    <2>5. CASE pos \notin EnabledAt(c)
      <3>1. \A i \in S : c \notin Patches(i)
        BY <2>3, <2>5 DEF EnabledAt
      <3>2. code'[c] = code[c]
        BY <1>7, <3>1, CodeAfterAt
      <3>3. ASSUME NEW i \in EnabledAt(c)'
            PROVE  code'[c] = hooks'[i].buffer
        <4>1. i \in DOMAIN hooks'
          BY <3>3 DEF EnabledAt
        <4>2. old(i) \in EnabledAt(c)
          BY <2>1, <3>3, <4>1
        <4>3. code[c] = hooks[old(i)].buffer
          BY <4>2 DEF CodeMatchesHooks
        <4> QED
          BY <1>2, <1>5, <3>2, <4>1, <4>3
      <3> QED
        BY <2>2, <2>5, <3>2, <3>3 DEF CodeMatchesHooks
    <2> QED
      BY <2>4, <2>5
  <1>13. OriginalKept'
    <2>1. ASSUME NEW i \in DOMAIN hooks', NEW c \in Patches(i)'
          PROVE  hooks'[i].backup[c] = Original
      BY <1>1, <1>2, <1>5, <1>11 DEF OriginalKept
    <2>2. ASSUME NEW s \in DOMAIN buffers', NEW c \in Prologue[buffers'[s].target]
          PROVE  buffers'[s].prologue[c] = Original
      BY <1>6 DEF OriginalKept
    <2> QED
      BY <2>1, <2>2 DEF OriginalKept
  <1>14. CleanWhenDown'
    <2>1. hooks # <<>>
      BY <1>1, EmptySeq
    <2> QED
      BY <2>1 DEF CleanWhenDown
  <1> QED
    BY <1>8, <1>9, <1>10, <1>12, <1>13, <1>14

\* A call that only reports: Fail, and the rolled-back creation GiveBack.
LEMMA DataUnchanged ==
  ASSUME IInv, hooks' = hooks, code' = code, buffers' = buffers
  PROVE  OneHookPerTarget' /\ BuffersOwnedOnce' /\ CodeMatchesHooks' /\ OriginalKept'
  <1> USE DEF IInv
  <1>1. OneHookPerTarget' /\ BuffersOwnedOnce'
    BY DEF OneHookPerTarget, BuffersOwnedOnce
  <1>2. \A i : Patches(i)' = Patches(i)
    BY DEF Patches
  <1>3. \A c : EnabledAt(c)' = EnabledAt(c)
    BY <1>2 DEF EnabledAt
  <1>4. CodeMatchesHooks'
    BY <1>3 DEF CodeMatchesHooks
  <1>5. OriginalKept'
    BY <1>2 DEF OriginalKept
  <1> QED
    BY <1>1, <1>4, <1>5

\* What leaves the data alone and reports a known status keeps the invariant.
LEMMA ReportingKeepsIInv ==
  ASSUME IInv, UNCHANGED <<libkernel, heap, items, hooks, code>>, buffers' = buffers,
         status' \in Statuses
  PROVE  IInv'
  <1>1. TypeOK' /\ CleanWhenDown'
    BY DEF IInv, TypeOK, CleanWhenDown
  <1> QED
    BY <1>1, DataUnchanged DEF IInv

\* Fail only reports.
LEMMA FailKeepsIInv ==
  ASSUME IInv, NEW error \in Statuses, Fail(error)
  PROVE  IInv'
  BY ReportingKeepsIInv DEF Fail

\* A creation that fails gives back the slot it took, which no entry has.
LEMMA GivingBackKeepsIInv ==
  ASSUME IInv, NEW b \in Buffers \ DOMAIN buffers, NEW t, NEW d, GiveBack(b, t, d)
  PROVE  IInv'
  <1>1. buffers' = [s \in DOMAIN buffers |-> buffers[s]]
    BY DEF GiveBack, FreeBuffer, Built
  <1>2. buffers' = buffers
    BY <1>1 DEF IInv, TypeOK
  <1>3. status' \in Statuses
    BY DEF GiveBack, Statuses
  <1> QED
    BY <1>2, <1>3, ReportingKeepsIInv DEF GiveBack

\* Initialising touches neither table nor code: MH_Initialize.
LEMMA InitialisationKeepsIInv ==
  ASSUME IInv, MH_Initialize
  PROVE  IInv'
  <1>1. CASE Fail("MH_ERROR_MODULE_NOT_FOUND")
    BY <1>1, FailKeepsIInv DEF Statuses
  <1>2. CASE /\ libkernel' = TRUE /\ heap' \in BOOLEAN /\ (heap => heap')
             /\ status' \in Statuses /\ UNCHANGED <<items, hooks, code, buffers>>
    <2>1. TypeOK' /\ CleanWhenDown'
      BY <1>2 DEF IInv, TypeOK, CleanWhenDown
    <2> QED
      BY <1>2, <2>1, DataUnchanged DEF IInv
  <1> QED
    BY <1>1, <1>2 DEF MH_Initialize, Statuses, IInv, TypeOK

\* Everything is disabled before it is forgotten.
LEMMA ShutdownKeepsIInv ==
  ASSUME DisjointTargets, IInv, heap,
         code' = CodeAfter(Pending(All(FALSE)), All(FALSE)),
         heap' = FALSE, items' = FALSE, hooks' = <<>>,
         buffers' = [b \in {} |-> Original], status' = "MH_OK", UNCHANGED libkernel
  PROVE  IInv'
  <1> USE DEF IInv
  <1> DEFINE S == Pending(All(FALSE))
  <1>1. S \in SUBSET DOMAIN hooks
    BY DEF Pending
  <1>2. hooks' \in Seq(HookEntry) /\ Len(hooks') = 0 /\ DOMAIN hooks' = {}
    BY EmptySeq
  <1>3. DOMAIN buffers' = {}
    OBVIOUS
  <1>4. code' \in [Cells -> Contents]
    BY <1>1, CodeAfterTyped
  <1>5. ASSUME NEW c \in Cells
        PROVE  code'[c] = Original
    <2>1. CASE EnabledAt(c) = {}
      <3>1. \A i \in S : c \notin Patches(i)
        BY <2>1, TableFacts, EntryFields DEF EnabledAt, Pending, All
      <3> QED
        BY ZenonT(30), <1>1, <2>1, <3>1, CodeAfterAt DEF CodeMatchesHooks
    <2>2. CASE EnabledAt(c) # {}
      <3>1. PICK i \in DOMAIN hooks : hooks[i].enabled /\ c \in Patches(i)
        BY <2>2 DEF EnabledAt
      <3>2. i \in S /\ ~ All(FALSE)[i]
        BY <3>1, TableFacts, EntryFields DEF Pending, All
      <3> QED
        BY <1>1, <3>1, <3>2, Restored
    <2> QED
      BY <2>1, <2>2
  <1>6. TypeOK'
    <2>1. buffers' \in [DOMAIN buffers' -> BuiltBuffer]
      BY <1>3
    <2>2. libkernel' \in BOOLEAN
      BY DEF TypeOK
    <2>3. Len(hooks') <= Capacity
      BY <1>2, CapacityAssumption
    <2> QED
      BY <1>2, <1>3, <1>4, <2>1, <2>2, <2>3 DEF TypeOK, Statuses
  <1>7. OneHookPerTarget' /\ OriginalKept'
    BY <1>2, <1>3 DEF OneHookPerTarget, OriginalKept
  <1>8. BuffersOwnedOnce'
    BY <1>2, <1>3 DEF BuffersOwnedOnce
  <1>9. CodeMatchesHooks'
    BY <1>2, <1>5 DEF CodeMatchesHooks, EnabledAt
  <1>10. CleanWhenDown'
    BY <1>3, <1>5 DEF CleanWhenDown
  <1> QED
    BY <1>6, <1>7, <1>8, <1>9, <1>10

\* The two bulk calls and the three single ones reduce to the lemmas above.
LEMMA SwitchHooksKeepsIInv ==
  ASSUME DisjointTargets, IInv, NEW on \in [DOMAIN hooks -> BOOLEAN], SwitchHooks(on)
  PROVE  IInv'
  <1>1. Pending(on) \in SUBSET DOMAIN hooks
    BY DEF Pending
  <1>2. \A f : Before(f, on) \in SUBSET DOMAIN hooks
    BY DEF Before, Pending
  <1>3. CASE /\ code' = CodeAfter(Pending(on), on)
             /\ hooks' = HooksAfter(Pending(on), on)
             /\ status' = "MH_OK"
    BY <1>1, <1>3, SwitchingKeepsIInv DEF SwitchHooks, Statuses
  <1>4. CASE \E f \in Pending(on) :
               /\ code' = CodeAfter(Before(f, on), on)
               /\ hooks' = HooksAfter(Before(f, on), on)
               /\ status' = "MH_ERROR_MEMORY_PROTECT"
    BY <1>2, <1>4, SwitchingKeepsIInv DEF SwitchHooks, Statuses
  <1> QED
    BY <1>3, <1>4 DEF SwitchHooks

\* The states bulk calls ask for are states.
LEMMA TargetStates ==
  ASSUME TypeOK
  PROVE  /\ \A on \in BOOLEAN : All(on) \in [DOMAIN hooks -> BOOLEAN]
         /\ Queued \in [DOMAIN hooks -> BOOLEAN]
  BY TableFacts, EntryFields DEF All, Queued

-----------------------------------------------------------------------------
(* The invariant.                                                              *)

\* Nothing is hooked at the start.
LEMMA InitIInv ==
  ASSUME Init
  PROVE  IInv
  <1>1. hooks \in Seq(HookEntry) /\ Len(hooks) = 0 /\ DOMAIN hooks = {}
    BY EmptySeq DEF Init
  <1>2. DOMAIN buffers = {} /\ buffers \in [DOMAIN buffers -> BuiltBuffer]
    BY DEF Init
  <1>3. TypeOK
    <2>1. Len(hooks) <= Capacity
      BY <1>1, CapacityAssumption
    <2>2. code \in [Cells -> Contents]
      BY DEF Init, Contents
    <2> QED
      BY <1>1, <1>2, <2>1, <2>2 DEF Init, TypeOK, Statuses
  <1>4. OneHookPerTarget /\ BuffersOwnedOnce /\ OriginalKept
    BY <1>1, <1>2 DEF OneHookPerTarget, BuffersOwnedOnce, OriginalKept
  <1>5. CodeMatchesHooks /\ CleanWhenDown
    BY <1>1, <1>2 DEF Init, CodeMatchesHooks, CleanWhenDown, EnabledAt
  <1> QED
    BY <1>3, <1>4, <1>5 DEF IInv

\* Every call, successful, failing or stopped half way, keeps the invariant.
LEMMA NextIInv ==
  ASSUME DisjointTargets, IInv, [Next]_vars
  PROVE  IInv'
  <1> USE DEF IInv
  <1>1. \A e \in Statuses : Fail(e) => IInv'
    BY FailKeepsIInv
  <1>2. CASE MH_Initialize
    BY <1>2, InitialisationKeepsIInv
  <1>3. CASE MH_Uninitialize
    <2>1. CASE ~heap /\ Fail("MH_ERROR_NOT_INITIALIZED")
      BY <1>1, <2>1 DEF Statuses
    <2>2. CASE heap /\ SwitchHooks(All(FALSE)) /\ status' = "MH_ERROR_MEMORY_PROTECT"
      BY <2>2, SwitchHooksKeepsIInv, TargetStates
    <2>3. CASE /\ heap
               /\ code' = CodeAfter(Pending(All(FALSE)), All(FALSE))
               /\ heap' = FALSE /\ items' = FALSE /\ hooks' = <<>>
               /\ buffers' = [b \in {} |-> Original]
               /\ status' = "MH_OK"
               /\ UNCHANGED libkernel
      BY <2>3, ShutdownKeepsIInv
    <2> QED
      BY <1>3, <2>1, <2>2, <2>3 DEF MH_Uninitialize
  <1>4. CASE MH_ApplyQueued
    <2>1. CASE ~heap /\ Fail("MH_ERROR_NOT_INITIALIZED")
      BY <1>1, <2>1 DEF Statuses
    <2>2. CASE heap /\ SwitchHooks(Queued)
      BY <2>2, SwitchHooksKeepsIInv, TargetStates
    <2> QED
      BY <1>4, <2>1, <2>2 DEF MH_ApplyQueued
  <1>5. ASSUME NEW p \in Targets \cup {MH_ALL_HOOKS}, MH_RemoveHook(p)
        PROVE  IInv'
    <2> DEFINE pos == FindHookEntry(p)
    <2>1. CASE ~heap /\ Fail("MH_ERROR_NOT_INITIALIZED")
      BY <1>1, <2>1 DEF Statuses
    <2>2. CASE Fail("MH_ERROR_NOT_CREATED") \/ Fail("MH_ERROR_MEMORY_PROTECT")
      BY <1>1, <2>2 DEF Statuses
    <2>3. CASE /\ heap /\ pos # INVALID_HOOK_POS
               /\ code' = CodeAfter({pos} \cap Pending(All(FALSE)), All(FALSE))
               /\ buffers' = FreeBuffer(buffers, hooks[pos].buffer)
               /\ hooks' = DeleteHookEntry(pos)
               /\ status' = "MH_OK"
               /\ UNCHANGED <<libkernel, heap, items>>
      <3>1. pos \in DOMAIN hooks
        BY <2>3, FindHookEntrySpec
      <3> HIDE DEF pos
      <3>2. status' \in Statuses
        BY <2>3 DEF Statuses
      <3> QED
        BY <2>3, <3>1, <3>2, RemovalKeepsIInv
    <2> QED
      BY <1>5, <2>1, <2>2, <2>3 DEF MH_RemoveHook
  <1>6. ASSUME NEW p \in Targets \cup {MH_ALL_HOOKS}, NEW d \in Detours,
               MH_CreateHook(p, d)
        PROVE  IInv'
    <2>1. CASE \E e \in Statuses : Fail(e)
      BY <1>1, <2>1
    <2>2. CASE \E b \in Buffers \ DOMAIN buffers : GiveBack(b, p, d)
      BY <2>2, GivingBackKeepsIInv
    <2>3. CASE /\ heap /\ {p, d} \subseteq Executable
               /\ FindHookEntry(p) = INVALID_HOOK_POS
               /\ \E b \in Buffers \ DOMAIN buffers, above \in BOOLEAN :
                    AddHookEntry(b, p, d, above)
      <3>1. p \in Targets
        BY <2>3, PlacesAssumption
      <3> QED
        BY <2>3, <3>1, CreationKeepsIInv
    <2> QED
      BY <1>6, <2>1, <2>2, <2>3 DEF MH_CreateHook, Statuses
  <1>7. ASSUME NEW p \in Targets \cup {MH_ALL_HOOKS}, NEW on \in BOOLEAN,
               EnableHook(p, on)
        PROVE  IInv'
    <2> DEFINE pos == FindHookEntry(p)
    <2>1. CASE \E e \in Statuses : Fail(e)
      BY <1>1, <2>1
    <2>2. CASE SwitchHooks(All(on))
      BY <2>2, SwitchHooksKeepsIInv, TargetStates
    <2>3. CASE /\ pos # INVALID_HOOK_POS
               /\ code' = CodeAfter({pos}, All(on))
               /\ hooks' = HooksAfter({pos}, All(on))
               /\ status' = "MH_OK"
               /\ UNCHANGED <<libkernel, heap, items, buffers>>
      <3>1. {pos} \in SUBSET DOMAIN hooks
        BY <2>3, FindHookEntrySpec
      <3> HIDE DEF pos
      <3>2. status' \in Statuses
        BY <2>3 DEF Statuses
      <3>3. All(on) \in [DOMAIN hooks -> BOOLEAN]
        BY TargetStates
      <3> QED
        BY <2>3, <3>1, <3>2, <3>3, SwitchingKeepsIInv
    <2> QED
      BY <1>7, <2>1, <2>2, <2>3 DEF EnableHook, Statuses
  <1>8. ASSUME NEW p \in Targets \cup {MH_ALL_HOOKS}, NEW on \in BOOLEAN,
               QueueHook(p, on)
        PROVE  IInv'
    <2> DEFINE S == IF p = MH_ALL_HOOKS THEN DOMAIN hooks ELSE {FindHookEntry(p)}
    <2>1. CASE \E e \in Statuses : Fail(e)
      BY <1>1, <2>1
    <2>2. CASE /\ p = MH_ALL_HOOKS \/ FindHookEntry(p) # INVALID_HOOK_POS
               /\ hooks' = Requeued(S, on)
               /\ status' = "MH_OK"
               /\ UNCHANGED <<libkernel, heap, items, code, buffers>>
      <3>1. S \in SUBSET DOMAIN hooks
        BY <2>2, FindHookEntrySpec
      <3> HIDE DEF S
      <3> QED
        BY <2>2, <3>1, QueueingKeepsIInv DEF Statuses
    <2> QED
      BY <1>8, <2>1, <2>2 DEF QueueHook, Statuses
  <1>9. CASE UNCHANGED vars
    BY <1>9, ReportingKeepsIInv DEF vars, TypeOK
  <1>10. CASE MH_CreateHookApiEx
    BY <1>1, <1>10 DEF MH_CreateHookApiEx, Statuses
  <1> QED
    BY <1>2, <1>3, <1>4, <1>5, <1>6, <1>7, <1>8, <1>9, <1>10 DEF Next

\* As long as no two targets overlap, every call leaves the table, the slots and the code
\* memory consistent: MinHook's invariants hold in every reachable state, for any
\* number of targets, detours, slots and entries.
THEOREM Invariants ==
  ASSUME DisjointTargets
  PROVE  Spec => []IInv
  <1>1. Init => IInv
    BY InitIInv
  <1>2. IInv /\ [Next]_vars => IInv'
    BY NextIInv
  <1> QED
    BY <1>1, <1>2, PTL DEF Spec

\* Every variable keeps its type: the table never outgrows its array, a backup covers
\* exactly the cells of its patch, only slots of the allocator are in use.
THEOREM TypeCorrect ==
  ASSUME DisjointTargets
  PROVE  Spec => []TypeOK
  BY Invariants, PTL DEF IInv

\* The flags of the table and the code memory agree: an enabled hook's jump is in place
\* and everything else is original code.
THEOREM CodeFollowsTable ==
  ASSUME DisjointTargets
  PROVE  Spec => []CodeMatchesHooks
  BY Invariants, PTL DEF IInv

\* Slots are neither leaked nor shared by any sequence of calls that succeed or fail.
THEOREM SlotsOwnedOnce ==
  ASSUME DisjointTargets
  PROVE  Spec => []BuffersOwnedOnce
  BY Invariants, PTL DEF IInv

\* A backup is "the original prologue" (hook.cpp:59), and so is what a trampoline runs.
THEOREM BackupsOriginal ==
  ASSUME DisjointTargets
  PROVE  Spec => []OriginalKept
  BY Invariants, PTL DEF IInv

\* No sequence of creations and removals gives a target two entries.
THEOREM TargetsHookedOnce ==
  ASSUME DisjointTargets
  PROVE  Spec => []OneHookPerTarget
  BY Invariants, PTL DEF IInv

\* A library that is down left no entry, slot or patch behind.
THEOREM DownIsClean ==
  ASSUME DisjointTargets
  PROVE  Spec => []CleanWhenDown
  BY Invariants, PTL DEF IInv
=============================================================================
