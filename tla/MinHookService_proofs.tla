-------------------------- MODULE MinHookService_proofs --------------------------
(***************************************************************************)
(* MinHook implements HookService, and what its calls may never do: for any*)
(* sets of targets, detours, slots and cells, any capacity and any         *)
(* geometry, provided the targets do not overlap.                          *)
(***************************************************************************)
EXTENDS MinHook_proofs

\* The service's table and what the service says runs, as MinHook's state determines them.
TableOf == [t \in HookedTargets |-> ServiceHook(EntryOf(t))]
RunsOf == [t \in Targets |-> Runs(t)]

HookOf(i) ==
  [detour |-> buffers[hooks[i].buffer].relay, trampoline |-> Original,
   enabled |-> hooks[i].enabled, queued |-> hooks[i].queued]

\* The table of the service holds what the entries say.
EntriesFollow == \A i \in DOMAIN hooks : TableOf[hooks[i].target] = HookOf(i)

\* Targets run their own code or the relay of their enabled entry.
RunsFollow ==
  \A t \in Targets :
    /\ (\A i \in DOMAIN hooks : hooks[i].target = t => ~ hooks[i].enabled)
         => Runs(t) = Original
    /\ \A i \in DOMAIN hooks :
         hooks[i].target = t /\ hooks[i].enabled => Runs(t) = buffers[hooks[i].buffer].relay

View == EntriesFollow /\ RunsFollow

-----------------------------------------------------------------------------
(* What the code and the slots mean.                                           *)

\* The entry of a target that has one, and its trampoline runs the original.
LEMMA EntriesHold == IInv => EntriesFollow
<1>. SUFFICES ASSUME IInv, NEW i \in DOMAIN hooks PROVE TableOf[hooks[i].target] = HookOf(i)
  BY DEF EntriesFollow
<1>. USE DEF IInv
<1>. DEFINE t == hooks[i].target
            b == hooks[i].buffer
<1>1. t \in HookedTargets
  BY DEF HookedTargets
<1>2. (CHOOSE j \in DOMAIN hooks : hooks[j].target = t) = i
  BY DEF OneHookPerTarget
<1>3. EntryOf(t) = hooks[i]
  BY <1>2 DEF EntryOf
<1>4. b \in DOMAIN buffers /\ buffers[b].target = t
  BY DEF BuffersOwnedOnce
<1>5. \A c \in Prologue[t] : buffers[b].prologue[c] = Original
  BY <1>4 DEF OriginalKept
<1>6. ServiceHook(hooks[i]) = HookOf(i)
  BY <1>5 DEF ServiceHook, HookOf
<1>. QED  BY <1>1, <1>3, <1>6 DEF TableOf

\* What a call of a target runs.
LEMMA RunsHold ==
  ASSUME DisjointTargets
  PROVE  IInv => RunsFollow
<1>. SUFFICES ASSUME IInv, NEW t \in Targets
              PROVE  /\ (\A i \in DOMAIN hooks : hooks[i].target = t => ~ hooks[i].enabled)
                          => Runs(t) = Original
                     /\ \A i \in DOMAIN hooks :
                          hooks[i].target = t /\ hooks[i].enabled
                            => Runs(t) = buffers[hooks[i].buffer].relay
  BY DEF RunsFollow
<1>. USE DEF IInv
<1>1. Prologue[t] \subseteq Cells /\ Prologue[t] \subseteq Extent(t)
  <2>1. Prologue[t] \subseteq Cells
    BY GeometryAssumption
  <2>2. Prologue[t] \subseteq Extent(t)
    BY DEF Extent
  <2>. QED  BY <2>1, <2>2
<1>2. ASSUME \A i \in DOMAIN hooks : hooks[i].target = t => ~ hooks[i].enabled
      PROVE  Runs(t) = Original
  <2>1. ASSUME NEW c \in Prologue[t] PROVE code[c] = Original
    <3>1. ASSUME NEW i \in DOMAIN hooks, hooks[i].enabled PROVE c \notin Patches(i)
      <4>1. /\ hooks[i].target \in Targets /\ hooks[i].target # t
            /\ Patches(i) \subseteq Extent(hooks[i].target)
        BY <1>2, <3>1, TableFacts, EntryFields
      <4>. QED  BY <4>1, <1>1 DEF DisjointTargets
    <3>2. EnabledAt(c) = {}
      BY <3>1 DEF EnabledAt
    <3>. QED  BY <1>1, <3>2 DEF CodeMatchesHooks
  <2>. QED  BY <2>1 DEF Runs
<1>3. ASSUME NEW i \in DOMAIN hooks, hooks[i].target = t, hooks[i].enabled
      PROVE  Runs(t) = buffers[hooks[i].buffer].relay
  <2>. DEFINE b == hooks[i].buffer
              jumps == {s \in DOMAIN buffers :
                          /\ buffers[s].target = t
                          /\ \E above \in BOOLEAN : \A c \in Area[t][above] : code[c] = s}
  <2>1. /\ hooks[i].above \in BOOLEAN /\ b \in Buffers /\ b # Original
        /\ Patches(i) = Area[t][hooks[i].above] /\ Patches(i) \subseteq Cells
    BY <1>3, TableFacts, EntryFields, PlacesAssumption DEF Patches
  <2>2. \A c \in Area[t][hooks[i].above] : code[c] = b
    BY <1>3, <2>1 DEF CodeMatchesHooks, EnabledAt
  <2>3. ~ \A c \in Prologue[t] : code[c] = Original
    BY <2>1, <2>2, PatchAssumption
  <2>4. b \in jumps
    BY <1>3, <2>1, <2>2 DEF BuffersOwnedOnce
  <2>5. ASSUME NEW s \in jumps PROVE s = b
    <3>1. PICK j \in DOMAIN hooks : s = hooks[j].buffer
      BY DEF BuffersOwnedOnce
    <3>2. hooks[j].target = t
      BY <3>1 DEF BuffersOwnedOnce
    <3>. QED  BY <1>3, <3>1, <3>2 DEF OneHookPerTarget
  <2>6. jumps = {b}
    BY <2>4, <2>5
  <2>7. Runs(t) = IF \A c \in Prologue[t] : code[c] = Original THEN Original
                  ELSE IF jumps = {} THEN Wild
                  ELSE buffers[CHOOSE s \in jumps : TRUE].relay
    BY DEF Runs
  <2>. HIDE DEF jumps
  <2>. QED  BY <2>3, <2>6, <2>7
<1>. QED  BY <1>2, <1>3

\* The invariant determines the service's state.
LEMMA ViewHolds ==
  ASSUME DisjointTargets
  PROVE  IInv => View
BY EntriesHold, RunsHold DEF View

\* The service's table, as a function.
LEMMA TableShape ==
  /\ DOMAIN TableOf = HookedTargets /\ TableOf = [t \in HookedTargets |-> TableOf[t]]
  /\ DOMAIN RunsOf = Targets /\ RunsOf = [t \in Targets |-> RunsOf[t]]
  /\ \A t \in Targets : RunsOf[t] = Runs(t)
BY DEF TableOf, RunsOf

\* The service's actions, on what MinHook's state stands for.
LEMMA ServiceActions ==
  /\ Service!Refuse <=> heap' = heap /\ TableOf' = TableOf /\ RunsOf' = RunsOf
  /\ Service!Start <=> ~ heap /\ heap' = TRUE /\ TableOf' = TableOf /\ RunsOf' = RunsOf
  /\ Service!Stop <=> /\ heap /\ heap' = FALSE
                      /\ TableOf' = [t \in {} |-> Original]
                      /\ RunsOf' = [t \in Targets |-> Original]
  /\ \A T : Service!Switch(T) <=>
       /\ T \subseteq DOMAIN TableOf
       /\ TableOf' = [t \in DOMAIN TableOf |->
                        IF t \in T
                        THEN [TableOf[t] EXCEPT !.enabled = ~ TableOf[t].enabled,
                                                !.queued = ~ TableOf[t].enabled]
                        ELSE TableOf[t]]
       /\ RunsOf' = [t \in Targets |->
                       IF t \notin T THEN RunsOf[t]
                       ELSE IF TableOf[t].enabled THEN Original ELSE TableOf[t].detour]
       /\ heap' = heap
  /\ \A T, on : Service!Queue(T, on) <=>
       /\ T \subseteq DOMAIN TableOf
       /\ TableOf' = [t \in DOMAIN TableOf |->
                        IF t \in T THEN [TableOf[t] EXCEPT !.queued = on] ELSE TableOf[t]]
       /\ heap' = heap /\ RunsOf' = RunsOf
<1>1. /\ Service!Refuse <=> heap' = heap /\ TableOf' = TableOf /\ RunsOf' = RunsOf
      /\ Service!Start <=> ~ heap /\ heap' = TRUE /\ TableOf' = TableOf /\ RunsOf' = RunsOf
      /\ Service!Stop <=> /\ heap /\ heap' = FALSE
                          /\ TableOf' = [t \in {} |-> Original]
                          /\ RunsOf' = [t \in Targets |-> Original]
  BY Zenon DEF Service!Refuse, Service!Start, Service!Stop, Service!serviceVars,
               Service!Unhooked, TableOf, RunsOf
<1>4. \A T : Service!Switch(T) <=>
        /\ T \subseteq DOMAIN TableOf
        /\ TableOf' = [t \in DOMAIN TableOf |->
                         IF t \in T
                         THEN [TableOf[t] EXCEPT !.enabled = ~ TableOf[t].enabled,
                                                 !.queued = ~ TableOf[t].enabled]
                         ELSE TableOf[t]]
        /\ RunsOf' = [t \in Targets |->
                        IF t \notin T THEN RunsOf[t]
                        ELSE IF TableOf[t].enabled THEN Original ELSE TableOf[t].detour]
        /\ heap' = heap
  BY Zenon DEF Service!Switch, TableOf, RunsOf
<1>5. \A T, on : Service!Queue(T, on) <=>
        /\ T \subseteq DOMAIN TableOf
        /\ TableOf' = [t \in DOMAIN TableOf |->
                         IF t \in T THEN [TableOf[t] EXCEPT !.queued = on] ELSE TableOf[t]]
        /\ heap' = heap /\ RunsOf' = RunsOf
  BY Zenon DEF Service!Queue, TableOf, RunsOf
<1>. QED  BY <1>1, <1>4, <1>5

-----------------------------------------------------------------------------
(* One lemma for every operation of the service.                               *)

\* An entry for every hooked target, and no other.
LEMMA HookedAt ==
  ASSUME IInv
  PROVE  /\ HookedTargets \subseteq Targets
         /\ \A t \in HookedTargets : \E i \in DOMAIN hooks : hooks[i].target = t
         /\ \A i \in DOMAIN hooks : hooks[i].target \in HookedTargets
         /\ \A i, j \in DOMAIN hooks : hooks[i].target = hooks[j].target => i = j
BY TableFacts, EntryFields DEF IInv, HookedTargets, OneHookPerTarget

\* The entries after switching.
LEMMA EntriesSwitched ==
  ASSUME TypeOK, NEW S \in SUBSET DOMAIN hooks, NEW on \in [DOMAIN hooks -> BOOLEAN],
         hooks' = HooksAfter(S, on)
  PROVE  /\ DOMAIN hooks' = DOMAIN hooks
         /\ \A i \in DOMAIN hooks :
              /\ hooks'[i].target = hooks[i].target /\ hooks'[i].buffer = hooks[i].buffer
              /\ i \in S => hooks'[i].enabled = on[i] /\ hooks'[i].queued = on[i]
              /\ i \notin S => hooks'[i] = hooks[i]
<1>1. DOMAIN hooks' = DOMAIN hooks
  BY DEF HooksAfter
<1>2. ASSUME NEW i \in DOMAIN hooks, i \in S
      PROVE  /\ hooks'[i].target = hooks[i].target /\ hooks'[i].buffer = hooks[i].buffer
             /\ hooks'[i].enabled = on[i] /\ hooks'[i].queued = on[i]
  <2>1. hooks'[i] = Switched(hooks[i], on[i])
    BY <1>2 DEF HooksAfter
  <2>2. hooks[i] \in HookEntry /\ on[i] \in BOOLEAN
    BY TableFacts
  <2>. QED  BY <2>1, <2>2, FlagsSet
<1>3. \A i \in DOMAIN hooks \ S : hooks'[i] = hooks[i]
  BY DEF HooksAfter
<1>. QED  BY <1>1, <1>2, <1>3

\* Two functions that agree on their domain are equal, and so are two records of hooks.
LEMMA SameFunction ==
  ASSUME NEW N, NEW u, NEW v, u = [f \in N |-> u[f]], v = [f \in N |-> v[f]],
         \A f \in N : u[f] = v[f]
  PROVE  u = v
OBVIOUS

HookFields == {"detour", "trampoline", "enabled", "queued"}

LEMMA SameHook ==
  ASSUME NEW u, NEW v, u = [f \in HookFields |-> u[f]], v = [f \in HookFields |-> v[f]],
         u.detour = v.detour, u.trampoline = v.trampoline,
         u.enabled = v.enabled, u.queued = v.queued
  PROVE  u = v
<1>1. \A f \in HookFields : u[f] = v[f]
  BY DEF HookFields
<1>. QED  BY <1>1, SameFunction

\* What the service holds for entry i.
LEMMA HookShape ==
  ASSUME NEW i
  PROVE  /\ DOMAIN HookOf(i) = HookFields
         /\ HookOf(i) = [f \in HookFields |-> HookOf(i)[f]]
         /\ HookOf(i).detour = buffers[hooks[i].buffer].relay
         /\ HookOf(i).trampoline = Original
         /\ HookOf(i).enabled = hooks[i].enabled
         /\ HookOf(i).queued = hooks[i].queued
BY DEF HookOf, HookFields

\* Switching the entries of S, each of which was not as it is wanted.
LEMMA SwitchingIsSwitch ==
  ASSUME IInv, View, View', NEW S \in SUBSET DOMAIN hooks,
         NEW on \in [DOMAIN hooks -> BOOLEAN], \A i \in S : hooks[i].enabled # on[i],
         hooks' = HooksAfter(S, on), buffers' = buffers, heap' = heap
  PROVE  \E T \in SUBSET HookedTargets : Service!Switch(T)
<1>. DEFINE T == {hooks[i].target : i \in S}
<1>1. /\ DOMAIN hooks' = DOMAIN hooks
      /\ \A i \in DOMAIN hooks :
           /\ hooks'[i].target = hooks[i].target /\ hooks'[i].buffer = hooks[i].buffer
           /\ i \in S => hooks'[i].enabled = on[i] /\ hooks'[i].queued = on[i]
           /\ i \notin S => hooks'[i] = hooks[i]
  BY EntriesSwitched DEF IInv
<1>2. HookedTargets' = HookedTargets /\ T \subseteq HookedTargets
  BY <1>1 DEF HookedTargets
<1>3. \A i \in S : on[i] = ~ hooks[i].enabled /\ hooks[i].enabled \in BOOLEAN
  BY TableFacts, EntryFields DEF IInv
<1>4. ASSUME NEW t \in HookedTargets
      PROVE  TableOf'[t] = IF t \in T
                           THEN [TableOf[t] EXCEPT !.enabled = ~ TableOf[t].enabled,
                                                   !.queued = ~ TableOf[t].enabled]
                           ELSE TableOf[t]
  <2>1. PICK i \in DOMAIN hooks : hooks[i].target = t
    BY HookedAt
  <2>2. TableOf[t] = HookOf(i) /\ TableOf'[t] = HookOf(i)'
    BY <1>1, <2>1 DEF View, EntriesFollow
  <2>3. t \in T <=> i \in S
    BY <2>1, HookedAt
  <2>4. CASE i \in S
    <3>. DEFINE r == TableOf[t]
                u == [r EXCEPT !.enabled = ~ r.enabled, !.queued = ~ r.enabled]
                v == TableOf'[t]
    <3>1. /\ DOMAIN r = HookFields /\ r = [f \in HookFields |-> r[f]]
          /\ r.detour = buffers[hooks[i].buffer].relay
          /\ r.trampoline = Original /\ r.enabled = hooks[i].enabled
      BY <2>2, HookShape
    <3>2. /\ v = [f \in HookFields |-> v[f]]
          /\ v.detour = buffers[hooks[i].buffer].relay
          /\ v.trampoline = Original
          /\ v.enabled = ~ hooks[i].enabled /\ v.queued = ~ hooks[i].enabled
      <4>1. /\ HookOf(i)' = [f \in HookFields |-> HookOf(i)'[f]]
            /\ HookOf(i)'.detour = buffers'[hooks'[i].buffer].relay
            /\ HookOf(i)'.trampoline = Original
            /\ HookOf(i)'.enabled = hooks'[i].enabled
            /\ HookOf(i)'.queued = hooks'[i].queued
        BY DEF HookOf, HookFields
      <4>. QED  BY <1>1, <1>3, <2>2, <2>4, <4>1
    <3>. HIDE DEF r, v
    <3>3. /\ u = [f \in HookFields |-> u[f]]
          /\ u.detour = r.detour /\ u.trampoline = r.trampoline
          /\ u.enabled = ~ r.enabled /\ u.queued = ~ r.enabled
      BY <3>1 DEF HookFields
    <3>. HIDE DEF u
    <3>4. u = v
      BY <3>1, <3>2, <3>3, SameHook
    <3>. QED  BY <2>3, <2>4, <3>4 DEF u, v, r
  <2>5. CASE i \notin S
    <3>1. HookOf(i)' = HookOf(i)
      BY <1>1, <2>5 DEF HookOf
    <3>. QED  BY <2>2, <2>3, <2>5, <3>1
  <2>. QED  BY <2>4, <2>5
<1>5. ASSUME NEW t \in Targets
      PROVE  Runs(t)' = IF t \notin T THEN Runs(t)
                        ELSE IF TableOf[t].enabled THEN Original ELSE TableOf[t].detour
  <2>1. CASE t \in T
    <3>1. PICK i \in S : hooks[i].target = t
      BY <2>1
    <3>2. /\ TableOf[t].enabled = hooks[i].enabled
          /\ TableOf[t].detour = buffers[hooks[i].buffer].relay
      BY <3>1, HookShape DEF View, EntriesFollow
    <3>3. CASE hooks[i].enabled
      <4>1. \A j \in DOMAIN hooks' : hooks'[j].target = t => ~ hooks'[j].enabled
        BY <1>1, <1>3, <3>1, <3>3, HookedAt
      <4>2. Runs(t)' = Original
        BY <4>1 DEF View, RunsFollow
      <4>. QED  BY <2>1, <3>2, <3>3, <4>2
    <3>4. CASE ~ hooks[i].enabled
      <4>1. hooks'[i].target = t /\ hooks'[i].enabled /\ hooks'[i].buffer = hooks[i].buffer
        BY <1>1, <1>3, <3>1, <3>4
      <4>2. Runs(t)' = buffers[hooks[i].buffer].relay
        BY <1>1, <3>1, <4>1 DEF View, RunsFollow
      <4>. QED  BY <2>1, <3>2, <3>4, <4>2
    <3>. QED  BY <3>3, <3>4
  <2>2. CASE t \notin T
    <3>1. \A i \in DOMAIN hooks : hooks[i].target = t => hooks'[i] = hooks[i]
      BY <1>1, <2>2
    <3>2. CASE \A i \in DOMAIN hooks : hooks[i].target = t => ~ hooks[i].enabled
      <4>1. \A i \in DOMAIN hooks' : hooks'[i].target = t => ~ hooks'[i].enabled
        BY <1>1, <3>1, <3>2
      <4>. QED  BY <2>2, <3>2, <4>1 DEF View, RunsFollow
    <3>3. CASE \E i \in DOMAIN hooks : hooks[i].target = t /\ hooks[i].enabled
      <4>1. PICK i \in DOMAIN hooks : hooks[i].target = t /\ hooks[i].enabled
        BY <3>3
      <4>2. i \in DOMAIN hooks' /\ hooks'[i] = hooks[i]
        BY <1>1, <3>1, <4>1
      <4>. QED  BY <2>2, <4>1, <4>2 DEF View, RunsFollow
    <3>. QED  BY <3>2, <3>3
  <2>. QED  BY <2>1, <2>2
<1>. HIDE DEF T
<1>6. TableOf' = [t \in DOMAIN TableOf |->
                    IF t \in T
                    THEN [TableOf[t] EXCEPT !.enabled = ~ TableOf[t].enabled,
                                            !.queued = ~ TableOf[t].enabled]
                    ELSE TableOf[t]]
  <2>1. DOMAIN TableOf = HookedTargets
    BY TableShape
  <2>2. TableOf' = [t \in HookedTargets |-> TableOf'[t]]
    BY <1>2 DEF TableOf
  <2>. QED  BY <1>4, <2>1, <2>2
<1>7. RunsOf' = [t \in Targets |->
                   IF t \notin T THEN RunsOf[t]
                   ELSE IF TableOf[t].enabled THEN Original ELSE TableOf[t].detour]
  <2>1. RunsOf' = [t \in Targets |-> Runs(t)']
    BY DEF RunsOf
  <2>2. \A t \in Targets : RunsOf[t] = Runs(t)
    BY TableShape
  <2>. QED  BY <1>5, <2>1, <2>2
<1>8. Service!Switch(T)
  BY <1>2, <1>6, <1>7, TableShape, ServiceActions
<1>. QED  BY <1>2, <1>8

\* Nothing the service sees changed.
LEMMA NothingSeen ==
  ASSUME hooks' = hooks, code' = code, buffers' = buffers
  PROVE  TableOf' = TableOf /\ RunsOf' = RunsOf
<1>1. \A t : Runs(t)' = Runs(t)
  BY DEF Runs
<1>2. \A t : EntryOf(t)' = EntryOf(t)
  BY DEF EntryOf
<1>3. HookedTargets' = HookedTargets
  BY DEF HookedTargets
<1>4. \A h : ServiceHook(h)' = ServiceHook(h)
  BY DEF ServiceHook
<1>. QED  BY <1>1, <1>2, <1>3, <1>4 DEF TableOf, RunsOf

\* Noting a wish for the entries of S.
LEMMA QueueingIsQueue ==
  ASSUME IInv, View, View', NEW S \in SUBSET DOMAIN hooks, NEW on \in BOOLEAN,
         hooks' = Requeued(S, on), buffers' = buffers, code' = code, heap' = heap
  PROVE  \E T \in SUBSET HookedTargets : Service!Queue(T, on)
<1>. DEFINE T == {hooks[i].target : i \in S}
<1>1. /\ DOMAIN hooks' = DOMAIN hooks
      /\ \A i \in DOMAIN hooks :
           /\ hooks'[i].target = hooks[i].target /\ hooks'[i].buffer = hooks[i].buffer
           /\ hooks'[i].enabled = hooks[i].enabled
           /\ i \in S => hooks'[i].queued = on
           /\ i \notin S => hooks'[i] = hooks[i]
  <2>1. DOMAIN hooks' = DOMAIN hooks
    BY DEF Requeued
  <2>2. ASSUME NEW i \in DOMAIN hooks, i \in S
        PROVE  /\ hooks'[i].target = hooks[i].target /\ hooks'[i].buffer = hooks[i].buffer
               /\ hooks'[i].enabled = hooks[i].enabled /\ hooks'[i].queued = on
    <3>1. hooks'[i] = [hooks[i] EXCEPT !.queued = on]
      BY <2>2 DEF Requeued
    <3>2. hooks[i] \in HookEntry
      BY TableFacts DEF IInv
    <3>3. hooks'[i].queued = on
      BY <3>1, <3>2 DEF HookEntry, EntryAt
    <3>. QED  BY <3>1, <3>2, <3>3, WishSet
  <2>3. \A i \in DOMAIN hooks \ S : hooks'[i] = hooks[i]
    BY DEF Requeued
  <2>. QED  BY <2>1, <2>2, <2>3
<1>2. HookedTargets' = HookedTargets /\ T \subseteq HookedTargets
  BY <1>1 DEF HookedTargets
<1>4. ASSUME NEW t \in HookedTargets
      PROVE  TableOf'[t] = IF t \in T THEN [TableOf[t] EXCEPT !.queued = on] ELSE TableOf[t]
  <2>1. PICK i \in DOMAIN hooks : hooks[i].target = t
    BY HookedAt
  <2>2. TableOf[t] = HookOf(i) /\ TableOf'[t] = HookOf(i)'
    BY <1>1, <2>1 DEF View, EntriesFollow
  <2>3. t \in T <=> i \in S
    BY <2>1, HookedAt
  <2>4. CASE i \in S
    <3>. DEFINE r == TableOf[t]
                u == [r EXCEPT !.queued = on]
                v == TableOf'[t]
    <3>1. /\ DOMAIN r = HookFields /\ r = [f \in HookFields |-> r[f]]
          /\ r.detour = buffers[hooks[i].buffer].relay
          /\ r.trampoline = Original /\ r.enabled = hooks[i].enabled
      BY <2>2, HookShape
    <3>2. /\ v = [f \in HookFields |-> v[f]]
          /\ v.detour = buffers[hooks[i].buffer].relay
          /\ v.trampoline = Original
          /\ v.enabled = hooks[i].enabled /\ v.queued = on
      <4>1. /\ HookOf(i)' = [f \in HookFields |-> HookOf(i)'[f]]
            /\ HookOf(i)'.detour = buffers'[hooks'[i].buffer].relay
            /\ HookOf(i)'.trampoline = Original
            /\ HookOf(i)'.enabled = hooks'[i].enabled
            /\ HookOf(i)'.queued = hooks'[i].queued
        BY DEF HookOf, HookFields
      <4>. QED  BY <1>1, <2>2, <2>4, <4>1
    <3>. HIDE DEF r, v
    <3>3. /\ u = [f \in HookFields |-> u[f]]
          /\ u.detour = r.detour /\ u.trampoline = r.trampoline
          /\ u.enabled = r.enabled /\ u.queued = on
      BY <3>1 DEF HookFields
    <3>. HIDE DEF u
    <3>4. u = v
      BY <3>1, <3>2, <3>3, SameHook
    <3>. QED  BY <2>3, <2>4, <3>4 DEF u, v, r
  <2>5. CASE i \notin S
    <3>1. HookOf(i)' = HookOf(i)
      BY <1>1, <2>5 DEF HookOf
    <3>. QED  BY <2>2, <2>3, <2>5, <3>1
  <2>. QED  BY <2>4, <2>5
<1>. HIDE DEF T
<1>6. TableOf' = [t \in DOMAIN TableOf |->
                    IF t \in T THEN [TableOf[t] EXCEPT !.queued = on] ELSE TableOf[t]]
  <2>1. DOMAIN TableOf = HookedTargets
    BY TableShape
  <2>2. TableOf' = [t \in HookedTargets |-> TableOf'[t]]
    BY <1>2 DEF TableOf
  <2>. QED  BY <1>4, <2>1, <2>2
<1>7. RunsOf' = RunsOf
  BY DEF RunsOf, Runs
<1>8. T \subseteq DOMAIN TableOf
  BY <1>2, TableShape
<1>9. Service!Queue(T, on)
  BY <1>6, <1>7, <1>8, ServiceActions, Zenon
<1>. QED  BY <1>2, <1>9

\* Shutting down: MH_Uninitialize.
LEMMA ShutdownIsStop ==
  ASSUME View', heap, heap' = FALSE, hooks' = <<>>
  PROVE  Service!Stop
<1>1. DOMAIN hooks' = {}
  BY EmptySeq
<1>2. HookedTargets' = {}
  BY <1>1 DEF HookedTargets
<1>3. TableOf' = [t \in {} |-> Original]
  BY <1>2 DEF TableOf
<1>4. \A t \in Targets : Runs(t)' = Original
  BY <1>1 DEF View, RunsFollow
<1>5. RunsOf' = [t \in Targets |-> Original]
  BY <1>4 DEF RunsOf
<1>. QED  BY <1>3, <1>5, ServiceActions

\* A new entry: AddHookEntry.
LEMMA CreationIsCreate ==
  ASSUME IInv, View, View', heap, NEW t \in Targets, NEW d \in Detours,
         FindHookEntry(t) = INVALID_HOOK_POS,
         NEW b \in Buffers \ DOMAIN buffers, NEW above \in BOOLEAN,
         AddHookEntry(b, t, d, above)
  PROVE  Service!Create(t, d)
<1>. DEFINE h == NewEntry(t, b, above)
<1>1. PICK n \in Nat : n = Len(hooks) /\ DOMAIN hooks = 1 .. n /\ hooks \in Seq(HookEntry)
  BY TableFacts DEF IInv, TypeOK
<1>2. /\ DOMAIN hooks' = 1 .. n + 1 /\ hooks'[n + 1] = h
      /\ \A i \in DOMAIN hooks : hooks'[i] = hooks[i]
  <2>1. hooks' = Append(hooks, h)
    BY DEF AddHookEntry
  <2>. HIDE DEF h
  <2>. QED  BY <1>1, <2>1
<1>3. h.target = t /\ h.buffer = b /\ h.enabled = FALSE /\ h.queued = FALSE
  BY DEF NewEntry
<1>4. /\ buffers'[b].relay = d
      /\ \A s \in DOMAIN buffers : buffers'[s] = buffers[s]
  BY DEF AddHookEntry, Built, Trampoline
<1>5. \A i \in DOMAIN hooks : hooks[i].buffer \in DOMAIN buffers /\ hooks[i].target # t
  BY FindHookEntrySpec DEF IInv, BuffersOwnedOnce
<1>. HIDE DEF h
<1>6. HookedTargets' = HookedTargets \cup {t} /\ t \notin HookedTargets
  <2>1. ASSUME NEW u PROVE u \in HookedTargets' <=> u \in HookedTargets \cup {t}
    <3>1. u \in HookedTargets' <=> \E i \in 1 .. n + 1 : u = hooks'[i].target
      BY <1>2 DEF HookedTargets
    <3>2. u \in HookedTargets <=> \E i \in 1 .. n : u = hooks[i].target
      BY <1>1 DEF HookedTargets
    <3>. QED  BY <1>1, <1>2, <1>3, <3>1, <3>2
  <2>2. t \notin HookedTargets
    BY <1>5 DEF HookedTargets
  <2>. QED  BY <2>1, <2>2
<1>7. TableOf'[t] = [detour |-> d, trampoline |-> Original, enabled |-> FALSE,
                     queued |-> FALSE]
  <2>1. TableOf'[t] = HookOf(n + 1)'
    BY <1>2, <1>3 DEF View, EntriesFollow
  <2>. QED  BY <1>2, <1>3, <1>4, <2>1 DEF HookOf
<1>8. ASSUME NEW u \in HookedTargets PROVE TableOf'[u] = TableOf[u]
  <2>1. PICK i \in DOMAIN hooks : hooks[i].target = u
    BY HookedAt
  <2>2. i \in DOMAIN hooks' /\ hooks'[i] = hooks[i]
    BY <1>1, <1>2
  <2>3. TableOf[u] = HookOf(i) /\ TableOf'[u] = HookOf(i)'
    BY <2>1, <2>2 DEF View, EntriesFollow
  <2>4. HookOf(i)' = HookOf(i)
    BY <1>4, <1>5, <2>2 DEF HookOf
  <2>. QED  BY <2>3, <2>4
<1>9. ASSUME NEW u \in Targets PROVE Runs(u)' = Runs(u)
  <2>1. CASE \A i \in DOMAIN hooks : hooks[i].target = u => ~ hooks[i].enabled
    <3>1. \A i \in DOMAIN hooks' : hooks'[i].target = u => ~ hooks'[i].enabled
      BY <1>1, <1>2, <1>3, <2>1
    <3>. QED  BY <2>1, <3>1 DEF View, RunsFollow
  <2>2. CASE \E i \in DOMAIN hooks : hooks[i].target = u /\ hooks[i].enabled
    <3>1. PICK i \in DOMAIN hooks : hooks[i].target = u /\ hooks[i].enabled
      BY <2>2
    <3>2. i \in DOMAIN hooks' /\ hooks'[i] = hooks[i]
      BY <1>1, <1>2
    <3>3. buffers'[hooks'[i].buffer] = buffers[hooks[i].buffer]
      BY <1>4, <1>5, <3>2
    <3>. QED  BY <3>1, <3>2, <3>3 DEF View, RunsFollow
  <2>. QED  BY <2>1, <2>2
<1>10. TableOf' = [u \in DOMAIN TableOf \cup {t} |->
                     IF u = t THEN [detour |-> d, trampoline |-> Original,
                                    enabled |-> FALSE, queued |-> FALSE]
                              ELSE TableOf[u]]
  <2>1. TableOf' = [u \in HookedTargets \cup {t} |-> TableOf'[u]]
    BY <1>6 DEF TableOf
  <2>2. DOMAIN TableOf = HookedTargets
    BY TableShape
  <2>. QED  BY <1>6, <1>7, <1>8, <2>1, <2>2
<1>11. RunsOf' = RunsOf
  BY <1>9 DEF RunsOf
<1>12. t \notin DOMAIN TableOf /\ heap' = heap
  BY <1>6, TableShape DEF AddHookEntry
<1>. QED  BY <1>10, <1>11, <1>12, Zenon DEF Service!Create, TableOf, RunsOf

\* An entry is deleted and its slot freed: MH_RemoveHook.
LEMMA RemovalIsRemove ==
  ASSUME IInv, View, View', NEW pos \in DOMAIN hooks,
         buffers' = FreeBuffer(buffers, hooks[pos].buffer),
         hooks' = DeleteHookEntry(pos), heap' = heap
  PROVE  Service!Remove(hooks[pos].target)
<1>. DEFINE t == hooks[pos].target
<1>1. PICK n \in Nat \ {0} : n = Len(hooks) /\ DOMAIN hooks = 1 .. n
  <2>1. Len(hooks) \in Nat /\ DOMAIN hooks = 1 .. Len(hooks)
    BY TableFacts DEF IInv
  <2>2. Len(hooks) # 0
    BY <2>1
  <2>. QED  BY <2>1, <2>2
<1>2. /\ DOMAIN hooks' = 1 .. (n - 1)
      /\ \A i \in 1 .. (n - 1) :
           \E j \in DOMAIN hooks : j # pos /\ hooks'[i] = hooks[j]
      /\ \A j \in DOMAIN hooks : j # pos =>
           \E i \in 1 .. (n - 1) : hooks'[i] = hooks[j]
  <2>1. /\ DOMAIN hooks' = 1 .. (n - 1)
        /\ \A i \in 1 .. (n - 1) : hooks'[i] = IF i = pos THEN hooks[n] ELSE hooks[i]
    BY <1>1 DEF DeleteHookEntry
  <2>2. ASSUME NEW i \in 1 .. (n - 1)
        PROVE  \E j \in DOMAIN hooks : j # pos /\ hooks'[i] = hooks[j]
    BY <1>1, <2>1
  <2>3. ASSUME NEW j \in DOMAIN hooks, j # pos
        PROVE  \E i \in 1 .. (n - 1) : hooks'[i] = hooks[j]
    <3>1. CASE j = n
      <4>1. pos \in 1 .. (n - 1)
        BY <1>1, <2>3, <3>1
      <4>. QED  BY <2>1, <3>1, <4>1
    <3>2. CASE j # n
      <4>1. j \in 1 .. (n - 1)
        BY <1>1, <3>2
      <4>. QED  BY <2>1, <2>3, <4>1
    <3>. QED  BY <3>1, <3>2
  <2>. QED  BY <2>1, <2>2, <2>3
<1>3. \A j \in DOMAIN hooks : j # pos =>
        /\ hooks[j].target # t
        /\ buffers'[hooks[j].buffer] = buffers[hooks[j].buffer]
  BY DEF IInv, OneHookPerTarget, BuffersOwnedOnce, FreeBuffer
<1>4. HookedTargets' = HookedTargets \ {t} /\ t \in HookedTargets
  <2>1. ASSUME NEW u PROVE u \in HookedTargets' <=> u \in HookedTargets \ {t}
    <3>1. u \in HookedTargets' <=> \E i \in 1 .. (n - 1) : u = hooks'[i].target
      BY <1>2 DEF HookedTargets
    <3>2. u \in HookedTargets <=> \E i \in DOMAIN hooks : u = hooks[i].target
      BY DEF HookedTargets
    <3>. QED  BY <1>2, <1>3, <3>1, <3>2
  <2>2. t \in HookedTargets
    BY DEF HookedTargets
  <2>. QED  BY <2>1, <2>2
<1>5. ASSUME NEW u \in HookedTargets \ {t} PROVE TableOf'[u] = TableOf[u]
  <2>1. PICK j \in DOMAIN hooks : hooks[j].target = u /\ j # pos
    BY HookedAt
  <2>2. PICK i \in DOMAIN hooks' : hooks'[i] = hooks[j]
    BY <1>2, <2>1
  <2>3. TableOf[u] = HookOf(j) /\ TableOf'[u] = HookOf(i)'
    BY <2>1, <2>2 DEF View, EntriesFollow
  <2>4. HookOf(i)' = HookOf(j)
    BY <1>3, <2>1, <2>2 DEF HookOf
  <2>. QED  BY <2>3, <2>4
<1>6. ASSUME NEW u \in Targets PROVE Runs(u)' = IF u = t THEN Original ELSE Runs(u)
  <2>1. CASE u = t
    <3>1. \A i \in DOMAIN hooks' : hooks'[i].target # t
      BY <1>2, <1>3
    <3>. QED  BY <2>1, <3>1 DEF View, RunsFollow
  <2>2. CASE u # t /\ \A i \in DOMAIN hooks : hooks[i].target = u => ~ hooks[i].enabled
    <3>1. \A i \in DOMAIN hooks' : hooks'[i].target = u => ~ hooks'[i].enabled
      BY <1>2, <2>2
    <3>. QED  BY <2>2, <3>1 DEF View, RunsFollow
  <2>3. CASE u # t /\ \E i \in DOMAIN hooks : hooks[i].target = u /\ hooks[i].enabled
    <3>1. PICK j \in DOMAIN hooks : hooks[j].target = u /\ hooks[j].enabled /\ j # pos
      BY <2>3
    <3>2. PICK i \in DOMAIN hooks' : hooks'[i] = hooks[j]
      BY <1>2, <3>1
    <3>. QED  BY <1>3, <2>3, <3>1, <3>2 DEF View, RunsFollow
  <2>. QED  BY <2>1, <2>2, <2>3
<1>. HIDE DEF t
<1>7. TableOf' = [u \in DOMAIN TableOf \ {t} |-> TableOf[u]]
  <2>1. TableOf' = [u \in HookedTargets \ {t} |-> TableOf'[u]]
    BY <1>4 DEF TableOf
  <2>2. DOMAIN TableOf = HookedTargets
    BY TableShape
  <2>. QED  BY <1>5, <2>1, <2>2
<1>8. RunsOf' = [RunsOf EXCEPT ![t] = Original]
  <2>1. RunsOf' = [u \in Targets |-> Runs(u)'] /\ RunsOf = [u \in Targets |-> Runs(u)]
    BY DEF RunsOf
  <2>. QED  BY <1>6, <2>1
<1>9. t \in DOMAIN TableOf
  BY <1>4, TableShape
<1>10. Service!Remove(t)
  BY <1>7, <1>8, <1>9, Zenon DEF Service!Remove, TableOf, RunsOf
<1>. QED  BY <1>10 DEF t

-----------------------------------------------------------------------------
(* Every step of MinHook is one of the service.                                *)

\* What the service's next step may be.
LEMMA ServiceSteps ==
  ASSUME \/ Service!Refuse \/ Service!Start \/ Service!Stop
         \/ \E t \in Targets : Service!Remove(t) \/ \E d \in Detours : Service!Create(t, d)
         \/ \E T \in SUBSET HookedTargets :
              Service!Switch(T) \/ \E on \in BOOLEAN : Service!Queue(T, on)
  PROVE  Service!ServiceNext
<1>1. HookedTargets = DOMAIN [t \in HookedTargets |-> ServiceHook(EntryOf(t))]
  OBVIOUS
<1>. QED  BY <1>1, Zenon DEF Service!ServiceNext

\* A call that leaves table, slots, code and heap alone.
LEMMA NothingIsRefuse ==
  ASSUME hooks' = hooks, code' = code, buffers' = buffers, heap' = heap
  PROVE  Service!ServiceNext
<1>1. Service!Refuse
  BY NothingSeen, ServiceActions
<1>. QED  BY <1>1, ServiceSteps

\* A failing call.
LEMMA FailIsRefuse ==
  ASSUME NEW error, Fail(error)
  PROVE  Service!ServiceNext
BY NothingIsRefuse DEF Fail

\* A creation that fails gives back the slot it took: the slots are the same again.
LEMMA GivenBack ==
  ASSUME TypeOK, NEW b \in Buffers \ DOMAIN buffers, NEW t, NEW d, GiveBack(b, t, d)
  PROVE  buffers' = buffers
<1>1. buffers' = [s \in DOMAIN buffers |-> buffers[s]]
  BY DEF GiveBack, FreeBuffer, Built
<1>. QED  BY <1>1 DEF TypeOK

\* Bulk calls: MH_EnableHook and MH_DisableHook of MH_ALL_HOOKS, MH_ApplyQueued, and
\* what MH_Uninitialize got done when it is stopped half way.
LEMMA BulkIsSwitch ==
  ASSUME IInv, View, View', NEW on \in [DOMAIN hooks -> BOOLEAN], SwitchHooks(on)
  PROVE  Service!ServiceNext
<1>1. \A S \in SUBSET DOMAIN hooks :
        (\A i \in S : hooks[i].enabled # on[i]) /\ hooks' = HooksAfter(S, on)
          => \E T \in SUBSET HookedTargets : Service!Switch(T)
  BY SwitchingIsSwitch DEF SwitchHooks
<1>2. CASE hooks' = HooksAfter(Pending(on), on)
  <2>1. \E T \in SUBSET HookedTargets : Service!Switch(T)
    BY <1>1, <1>2 DEF Pending
  <2>. QED  BY <2>1, ServiceSteps
<1>3. ASSUME NEW f \in Pending(on), hooks' = HooksAfter(Before(f, on), on)
      PROVE  Service!ServiceNext
  <2>1. \E T \in SUBSET HookedTargets : Service!Switch(T)
    BY <1>1, <1>3 DEF Before, Pending
  <2>. QED  BY <2>1, ServiceSteps
<1>. QED  BY <1>2, <1>3 DEF SwitchHooks

LEMMA StepIsService ==
  ASSUME IInv, View, View', [Next]_vars
  PROVE  [Service!ServiceNext]_(Service!serviceVars)
<1>. SUFFICES ASSUME Next \/ UNCHANGED vars PROVE Service!ServiceNext
  OBVIOUS
<1>1. CASE UNCHANGED vars
  BY <1>1, NothingIsRefuse DEF vars
<1>2. CASE MH_Initialize
  <2>1. CASE UNCHANGED heap /\ UNCHANGED <<hooks, code, buffers>>
    BY <2>1, NothingIsRefuse
  <2>2. CASE ~ heap /\ heap' = TRUE /\ UNCHANGED <<hooks, code, buffers>>
    <3>1. Service!Start
      BY <2>2, NothingSeen, ServiceActions
    <3>. QED  BY <3>1, ServiceSteps
  <2>. QED  BY <1>2, <2>1, <2>2 DEF MH_Initialize, Fail
<1>3. CASE MH_Uninitialize
  <2>1. CASE heap /\ heap' = FALSE /\ hooks' = <<>>
    <3>1. Service!Stop
      BY <2>1, ShutdownIsStop
    <3>. QED  BY <3>1, ServiceSteps
  <2>2. CASE SwitchHooks(All(FALSE))
    <3>1. All(FALSE) \in [DOMAIN hooks -> BOOLEAN]
      BY TargetStates DEF IInv
    <3>. QED  BY <2>2, <3>1, BulkIsSwitch
  <2>. QED  BY <1>3, <2>1, <2>2, FailIsRefuse DEF MH_Uninitialize
<1>4. CASE MH_ApplyQueued
  <2>1. Queued \in [DOMAIN hooks -> BOOLEAN]
    BY TargetStates DEF IInv
  <2>. QED  BY <1>4, <2>1, BulkIsSwitch, FailIsRefuse DEF MH_ApplyQueued
<1>5. CASE MH_CreateHookApiEx
  BY <1>5, FailIsRefuse DEF MH_CreateHookApiEx
<1>6. ASSUME NEW p \in Targets \cup {MH_ALL_HOOKS}, MH_RemoveHook(p)
      PROVE  Service!ServiceNext
  <2>. DEFINE pos == FindHookEntry(p)
  <2>1. CASE /\ pos # INVALID_HOOK_POS
             /\ buffers' = FreeBuffer(buffers, hooks[pos].buffer)
             /\ hooks' = DeleteHookEntry(pos) /\ heap' = heap
    <3>1. pos \in DOMAIN hooks
      BY <2>1, FindHookEntrySpec DEF IInv
    <3>2. hooks[pos].target \in Targets
      BY <3>1, TableFacts, EntryFields DEF IInv
    <3>3. Service!Remove(hooks[pos].target)
      BY <2>1, <3>1, RemovalIsRemove
    <3>. QED  BY <3>2, <3>3, ServiceSteps
  <2>. QED  BY <1>6, <2>1, FailIsRefuse DEF MH_RemoveHook
<1>7. ASSUME NEW p \in Targets \cup {MH_ALL_HOOKS}, NEW d \in Detours, MH_CreateHook(p, d)
      PROVE  Service!ServiceNext
  <2>1. ASSUME NEW b \in Buffers \ DOMAIN buffers, GiveBack(b, p, d)
        PROVE  Service!ServiceNext
    <3>1. buffers' = buffers
      BY <2>1, GivenBack DEF IInv
    <3>. QED  BY <2>1, <3>1, NothingIsRefuse DEF GiveBack
  <2>2. ASSUME NEW b \in Buffers \ DOMAIN buffers, NEW above \in BOOLEAN,
               heap, p \in Executable, FindHookEntry(p) = INVALID_HOOK_POS,
               AddHookEntry(b, p, d, above)
        PROVE  Service!ServiceNext
    <3>1. p \in Targets
      BY <2>2, PlacesAssumption
    <3>2. Service!Create(p, d)
      BY <2>2, <3>1, CreationIsCreate
    <3>. QED  BY <3>1, <3>2, ServiceSteps
  <2>. QED  BY <1>7, <2>1, <2>2, FailIsRefuse DEF MH_CreateHook
<1>8. ASSUME NEW p \in Targets \cup {MH_ALL_HOOKS}, NEW on \in BOOLEAN, EnableHook(p, on)
      PROVE  Service!ServiceNext
  <2>. DEFINE pos == FindHookEntry(p)
  <2>1. All(on) \in [DOMAIN hooks -> BOOLEAN]
    BY TargetStates DEF IInv
  <2>2. CASE SwitchHooks(All(on))
    BY <2>1, <2>2, BulkIsSwitch
  <2>3. CASE /\ pos # INVALID_HOOK_POS /\ hooks[pos].enabled # on
             /\ hooks' = HooksAfter({pos}, All(on)) /\ UNCHANGED <<heap, buffers>>
    <3>1. pos \in DOMAIN hooks
      BY <2>3, FindHookEntrySpec DEF IInv
    <3>2. {pos} \in SUBSET DOMAIN hooks /\ \A i \in {pos} : hooks[i].enabled # All(on)[i]
      BY <2>3, <3>1 DEF All
    <3>3. \E T \in SUBSET HookedTargets : Service!Switch(T)
      BY <2>1, <2>3, <3>2, SwitchingIsSwitch
    <3>. QED  BY <3>3, ServiceSteps
  <2>. QED  BY <1>8, <2>2, <2>3, FailIsRefuse DEF EnableHook
<1>9. ASSUME NEW p \in Targets \cup {MH_ALL_HOOKS}, NEW on \in BOOLEAN, QueueHook(p, on)
      PROVE  Service!ServiceNext
  <2>. DEFINE S == IF p = MH_ALL_HOOKS THEN DOMAIN hooks ELSE {FindHookEntry(p)}
  <2>1. CASE /\ p = MH_ALL_HOOKS \/ FindHookEntry(p) # INVALID_HOOK_POS
             /\ hooks' = Requeued(S, on) /\ UNCHANGED <<heap, code, buffers>>
    <3>1. S \in SUBSET DOMAIN hooks
      BY <2>1, FindHookEntrySpec DEF IInv
    <3>. HIDE DEF S
    <3>2. \E T \in SUBSET HookedTargets : Service!Queue(T, on)
      BY <2>1, <3>1, QueueingIsQueue
    <3>. QED  BY <3>2, ServiceSteps
  <2>. QED  BY <1>9, <2>1, FailIsRefuse DEF QueueHook
<1>. QED  BY <1>1, <1>2, <1>3, <1>4, <1>5, <1>6, <1>7, <1>8, <1>9 DEF Next

LEMMA InitIsService ==
  ASSUME Init
  PROVE  Service!ServiceInit
<1>1. DOMAIN hooks = {}
  BY EmptySeq DEF Init
<1>2. HookedTargets = {}
  BY <1>1 DEF HookedTargets
<1>3. ASSUME NEW t \in Targets PROVE Runs(t) = Original
  <2>1. \A c \in Prologue[t] : code[c] = Original
    BY GeometryAssumption DEF Init
  <2>. QED  BY <2>1 DEF Runs
<1>4. [t \in HookedTargets |-> ServiceHook(EntryOf(t))] = [t \in {} |-> Original]
  BY <1>2
<1>5. [t \in Targets |-> Runs(t)] = [t \in Targets |-> Original]
  BY <1>3
<1>6. heap = FALSE
  BY DEF Init
<1>. QED  BY <1>4, <1>5, <1>6, Zenon DEF Service!ServiceInit, Service!Unhooked

\* The hook table implements the service: read off the code memory, what a call of any
\* target runs, and what the table says of it, change as one atomic operation of the
\* service or not at all, whichever calls fail or stop half way.
THEOREM RefinesService ==
  ASSUME DisjointTargets
  PROVE  Spec => ImplementsService
<1>1. Init => Service!ServiceInit
  BY InitIsService
<1>2. IInv /\ View /\ View' /\ [Next]_vars => [Service!ServiceNext]_(Service!serviceVars)
  BY StepIsService
<1>3. IInv => View
  BY ViewHolds
<1>. QED  BY <1>1, <1>2, <1>3, Invariants, PTL DEF Spec, ImplementsService, Service!ServiceSpec

-----------------------------------------------------------------------------
(* What a call may never do.                                                   *)

\* What FailedCallsChangeNothing allows a failing call.
Undone ==
  /\ UNCHANGED <<heap, items, buffers>>
  /\ DOMAIN hooks' = DOMAIN hooks
  /\ \A i \in DOMAIN hooks :
       hooks'[i] \in {hooks[i], Switched(hooks[i], ~ hooks[i].enabled)}
  /\ status' # "MH_ERROR_MEMORY_PROTECT" => UNCHANGED <<hooks, code>>

LEMMA UnchangedIsUndone ==
  ASSUME UNCHANGED <<heap, items, hooks, code, buffers>>
  PROVE  Undone
BY DEF Undone

\* A bulk call that is stopped has switched the pending entries before the one refused.
LEMMA StoppedIsUndone ==
  ASSUME TypeOK, NEW on \in [DOMAIN hooks -> BOOLEAN],
         SwitchHooks(on), status' # "MH_OK"
  PROVE  Undone
<1>1. PICK f \in Pending(on) : /\ hooks' = HooksAfter(Before(f, on), on)
                               /\ status' = "MH_ERROR_MEMORY_PROTECT"
  BY DEF SwitchHooks
<1>2. UNCHANGED <<heap, items, buffers>>
  BY DEF SwitchHooks
<1>3. DOMAIN hooks' = DOMAIN hooks
  BY <1>1 DEF HooksAfter
<1>4. ASSUME NEW i \in DOMAIN hooks
      PROVE  hooks'[i] \in {hooks[i], Switched(hooks[i], ~ hooks[i].enabled)}
  <2>1. CASE i \in Before(f, on)
    <3>1. hooks[i].enabled \in BOOLEAN
      BY TableFacts, EntryFields
    <3>2. on[i] = ~ hooks[i].enabled
      BY <2>1, <3>1 DEF Before, Pending
    <3>. QED  BY <1>1, <2>1, <3>2 DEF HooksAfter
  <2>2. CASE i \notin Before(f, on)
    BY <1>1, <2>2 DEF HooksAfter
  <2>. QED  BY <2>1, <2>2
<1>. QED  BY <1>1, <1>2, <1>3, <1>4 DEF Undone

\* A call that reports an error has undone what it did, for any table and any room in it;
\* only a bulk call that a page stopped leaves the entries it had switched.
THEOREM FailuresAreComplete ==
  ASSUME DisjointTargets
  PROVE  Spec => FailedCallsChangeNothing
<1>1. ASSUME IInv, Next, status' # "MH_OK"
      PROVE  Undone
  <2>1. \A e : Fail(e) => Undone
    BY UnchangedIsUndone DEF Fail
  <2>2. TypeOK
    BY <1>1 DEF IInv
  <2>3. \A s \in BOOLEAN : SwitchHooks(All(s)) => Undone
    <3>1. \A s \in BOOLEAN : All(s) \in [DOMAIN hooks -> BOOLEAN]
      BY DEF All
    <3>. QED  BY <1>1, <2>2, <3>1, StoppedIsUndone
  <2>4. SwitchHooks(Queued) => Undone
    <3>1. \A i \in DOMAIN hooks : hooks[i].queued \in BOOLEAN
      BY <2>2, TableFacts, EntryFields
    <3>2. Queued \in [DOMAIN hooks -> BOOLEAN]
      BY <3>1 DEF Queued
    <3>. QED  BY <1>1, <2>2, <3>2, StoppedIsUndone
  <2>5. CASE MH_Initialize
    BY <1>1, <2>1, <2>5, UnchangedIsUndone DEF MH_Initialize
  <2>6. CASE MH_Uninitialize
    BY <1>1, <2>1, <2>3, <2>6 DEF MH_Uninitialize
  <2>7. CASE MH_ApplyQueued
    BY <1>1, <2>1, <2>4, <2>7 DEF MH_ApplyQueued
  <2>8. CASE MH_CreateHookApiEx
    BY <2>1, <2>8 DEF MH_CreateHookApiEx
  <2>9. ASSUME NEW p \in Targets \cup {MH_ALL_HOOKS}, MH_RemoveHook(p)
        PROVE  Undone
    BY <1>1, <2>1, <2>9 DEF MH_RemoveHook
  <2>10. ASSUME NEW p \in Targets \cup {MH_ALL_HOOKS}, NEW d \in Detours,
                MH_CreateHook(p, d)
         PROVE  Undone
    <3>1. \A b \in Buffers \ DOMAIN buffers :
            GiveBack(b, p, d) => UNCHANGED <<heap, items, hooks, code, buffers>>
      BY <1>1, GivenBack DEF IInv, GiveBack
    <3>2. \A b, above : ~ AddHookEntry(b, p, d, above)
      BY <1>1 DEF AddHookEntry
    <3>. QED  BY <2>1, <2>10, <3>1, <3>2, UnchangedIsUndone DEF MH_CreateHook
  <2>11. ASSUME NEW p \in Targets \cup {MH_ALL_HOOKS}, NEW on \in BOOLEAN,
                EnableHook(p, on) \/ QueueHook(p, on)
         PROVE  Undone
    BY <1>1, <2>1, <2>3, <2>11 DEF EnableHook, QueueHook
  <2>. QED  BY <1>1, <2>5, <2>6, <2>7, <2>8, <2>9, <2>10, <2>11 DEF Next
<1>2. ASSUME IInv, [Next]_vars
      PROVE  [status' # "MH_OK" =>
                /\ UNCHANGED <<heap, items, buffers>>
                /\ DOMAIN hooks' = DOMAIN hooks
                /\ \A i \in DOMAIN hooks :
                     hooks'[i] \in {hooks[i], Switched(hooks[i], ~ hooks[i].enabled)}
                /\ status' # "MH_ERROR_MEMORY_PROTECT" => UNCHANGED <<hooks, code>>]_vars
  BY <1>1, <1>2 DEF Undone
<1>. QED  BY <1>2, Invariants, PTL DEF Spec, FailedCallsChangeNothing

\* What is pending and what is enabled after the pending entries of S were switched.
LEMMA PendingAfter ==
  ASSUME TypeOK, OneHookPerTarget, NEW S \in SUBSET Pending(Queued),
         hooks' = HooksAfter(S, Queued)
  PROVE  /\ PendingSet' \subseteq PendingSet
         /\ PendingSet \ PendingSet' =
              (EnabledSet \ EnabledSet') \cup (EnabledSet' \ EnabledSet)
         /\ S = Pending(Queued) => PendingSet' = {}
<1>1. S \in SUBSET DOMAIN hooks /\ Queued \in [DOMAIN hooks -> BOOLEAN]
  BY TargetStates DEF Pending
<1>2. /\ DOMAIN hooks' = DOMAIN hooks
      /\ \A i \in DOMAIN hooks :
           /\ hooks'[i].target = hooks[i].target
           /\ i \in S => hooks'[i].enabled = Queued[i] /\ hooks'[i].queued = Queued[i]
           /\ i \notin S => hooks'[i] = hooks[i]
  BY <1>1, EntriesSwitched
<1>3. \A i \in DOMAIN hooks :
        /\ Queued[i] = hooks[i].queued
        /\ hooks[i].enabled \in BOOLEAN /\ hooks[i].queued \in BOOLEAN
  BY TableFacts, EntryFields DEF Queued
<1>4. PendingSet = {hooks[i].target : i \in {j \in DOMAIN hooks :
                                              hooks[j].enabled # hooks[j].queued}}
  BY <1>3 DEF PendingSet, Pending
<1>5. PendingSet' = {hooks'[i].target : i \in {j \in DOMAIN hooks' :
                                                hooks'[j].enabled # hooks'[j].queued}}
  BY DEF PendingSet, Pending, Queued
<1>6. \A i \in S : hooks[i].enabled # hooks[i].queued
  BY <1>3 DEF Pending
<1>7. {j \in DOMAIN hooks' : hooks'[j].enabled # hooks'[j].queued}
        = {j \in DOMAIN hooks : hooks[j].enabled # hooks[j].queued} \ S
  BY <1>1, <1>2
<1>8. \A i, j \in DOMAIN hooks : hooks[i].target = hooks[j].target => i = j
  BY DEF OneHookPerTarget
<1>9. PendingSet' = {hooks[i].target : i \in {j \in DOMAIN hooks :
                                               hooks[j].enabled # hooks[j].queued} \ S}
  BY <1>2, <1>5, <1>7
<1>10. PendingSet \ PendingSet' = {hooks[i].target : i \in S}
  BY <1>1, <1>4, <1>6, <1>8, <1>9
<1>11. ASSUME NEW t
       PROVE  t \in (EnabledSet \ EnabledSet') \cup (EnabledSet' \ EnabledSet)
                <=> t \in {hooks[i].target : i \in S}
  <2>1. t \in EnabledSet <=> \E i \in DOMAIN hooks : hooks[i].enabled /\ t = hooks[i].target
    BY DEF EnabledSet
  <2>2. t \in EnabledSet' <=>
          \E i \in DOMAIN hooks : hooks'[i].enabled /\ t = hooks[i].target
    BY <1>2 DEF EnabledSet
  <2>3. \A i \in S : hooks'[i].enabled = ~ hooks[i].enabled
    BY <1>1, <1>2, <1>3, <1>6
  <2>4. \A i \in DOMAIN hooks \ S : hooks'[i].enabled = hooks[i].enabled
    BY <1>2
  <2>. QED  BY ZenonT(30), <1>1, <1>8, <2>1, <2>2, <2>3, <2>4
<1>12. S = Pending(Queued) => PendingSet' = {}
  BY <1>3, <1>9 DEF Pending
<1>13. PendingSet' \subseteq PendingSet
  BY <1>4, <1>9
<1>. QED  BY <1>10, <1>11, <1>12, <1>13

\* Applying the queue does what was asked and forgets nothing: a run that VirtualProtect
\* stops half way leaves pending exactly the hooks it did not reach.
THEOREM NothingQueuedIsLost ==
  ASSUME DisjointTargets
  PROVE  Spec => ApplyKeepsTheRest
<1>. DEFINE Kept == /\ PendingSet' \subseteq PendingSet
                    /\ PendingSet \ PendingSet' =
                         (EnabledSet \ EnabledSet') \cup (EnabledSet' \ EnabledSet)
                    /\ heap /\ status' = "MH_OK" => PendingSet' = {}
<1>1. ASSUME IInv, MH_ApplyQueued PROVE Kept
  <2>1. CASE ~ heap /\ Fail("MH_ERROR_NOT_INITIALIZED")
    <3>1. PendingSet' = PendingSet /\ EnabledSet' = EnabledSet
      BY <2>1 DEF Fail, PendingSet, EnabledSet, Pending, Queued
    <3>. QED  BY <2>1, <3>1
  <2>2. CASE heap /\ hooks' = HooksAfter(Pending(Queued), Queued)
    BY <1>1, <2>2, PendingAfter DEF IInv
  <2>3. ASSUME NEW f \in Pending(Queued), hooks' = HooksAfter(Before(f, Queued), Queued),
               status' = "MH_ERROR_MEMORY_PROTECT"
        PROVE  Kept
    <3>1. Before(f, Queued) \in SUBSET Pending(Queued)
      BY DEF Before
    <3>. QED  BY <1>1, <2>3, <3>1, PendingAfter DEF IInv
  <2>. QED  BY <1>1, <2>1, <2>2, <2>3 DEF MH_ApplyQueued, SwitchHooks
<1>2. IInv /\ [Next]_vars => [MH_ApplyQueued => Kept]_vars
  BY <1>1
<1>. QED  BY <1>2, Invariants, PTL DEF Spec, ApplyKeepsTheRest
==================================================================================
