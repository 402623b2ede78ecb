------------------------------- MODULE SlotPool -------------------------------
(***************************************************************************)
(* What module MinHook takes AllocateBuffer and FreeBuffer to be: a pool   *)
(* that hands out slots nobody has and takes them back.                    *)
(* Module Buffer is shown to implement it.                                 *)
(***************************************************************************)
CONSTANT Slots
VARIABLE inUse

PoolInit == inUse = {}

Take == \E s \in Slots \ inUse : inUse' = inUse \cup {s}

GiveBack == \E s \in inUse : inUse' = inUse \ {s}

GiveBackAll == inUse' = {}

PoolSpec == PoolInit /\ [][Take \/ GiveBack \/ GiveBackAll]_inUse
==============================================================================
