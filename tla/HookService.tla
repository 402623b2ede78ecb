----------------------------- MODULE HookService -----------------------------
(***************************************************************************)
(* What the library promises one caller: a table of hooks, and for every   *)
(* target the function that a call of it runs.  There is no code memory,   *)
(* no buffer and no array here: library/source/hook.cpp (module MinHook)   *)
(* is shown to implement this specification.                               *)
(***************************************************************************)
CONSTANTS
  Targets,    \* functions that may be hooked
  Detours,    \* functions that may replace them
  Original    \* stands for "the target's own code runs"

VARIABLES
  up,         \* the library is initialised
  table,      \* hooked targets -> [detour, trampoline, enabled, queued]
  runs        \* what a call of each target runs: Original or a detour

serviceVars == <<up, table, runs>>

Hook == [detour: Detours, trampoline: {Original},
         enabled: BOOLEAN, queued: BOOLEAN]

ServiceTypeOK ==
  /\ up \in BOOLEAN
  /\ DOMAIN table \subseteq Targets
  /\ \A t \in DOMAIN table : table[t] \in Hook
  /\ runs \in [Targets -> Detours \cup {Original}]

Unhooked == [t \in Targets |-> Original]

ServiceInit == up = FALSE /\ table = [t \in {} |-> Original] /\ runs = Unhooked

Start == ~up /\ up' = TRUE /\ UNCHANGED <<table, runs>>

\* A hook is created disabled: calls of t are not redirected yet.
Create(t, d) ==
  /\ up /\ t \notin DOMAIN table
  /\ table' = [u \in DOMAIN table \cup {t} |->
                 IF u = t THEN [detour |-> d, trampoline |-> Original,
                                enabled |-> FALSE, queued |-> FALSE]
                          ELSE table[u]]
  /\ UNCHANGED <<up, runs>>

Remove(t) ==
  /\ t \in DOMAIN table
  /\ table' = [u \in DOMAIN table \ {t} |-> table[u]]
  /\ runs' = [runs EXCEPT ![t] = Original]
  /\ UNCHANGED up

\* The hooks of S change state, and with them what their targets run.
Switch(S) ==
  /\ S \subseteq DOMAIN table
  /\ table' = [t \in DOMAIN table |->
                 IF t \in S
                 THEN [table[t] EXCEPT !.enabled = ~ table[t].enabled,
                                       !.queued = ~ table[t].enabled]
                 ELSE table[t]]
  /\ runs' = [t \in Targets |->
                IF t \notin S THEN runs[t]
                ELSE IF table[t].enabled THEN Original ELSE table[t].detour]
  /\ UNCHANGED up

\* A queued change is remembered; nothing that runs changes.
Queue(S, on) ==
  /\ S \subseteq DOMAIN table
  /\ table' = [t \in DOMAIN table |->
                 IF t \in S THEN [table[t] EXCEPT !.queued = on] ELSE table[t]]
  /\ UNCHANGED <<up, runs>>

Stop == up /\ up' = FALSE /\ table' = [t \in {} |-> Original] /\ runs' = Unhooked

\* A call that fails.
Refuse == UNCHANGED serviceVars

ServiceNext ==
  \/ Refuse \/ Start \/ Stop
  \/ \E t \in Targets : Remove(t) \/ \E d \in Detours : Create(t, d)
  \/ \E S \in SUBSET DOMAIN table : Switch(S) \/ \E on \in BOOLEAN : Queue(S, on)

ServiceSpec == ServiceInit /\ [][ServiceNext]_serviceVars
==============================================================================
