------------------------------ MODULE MCMinHook ------------------------------
(* Instances of MinHook for TLC. Each target has three cells: the 5 bytes above *)
(* it, its first 2 bytes (head) and the 3 bytes after them (tail).              *)
EXTENDS MinHook, TLC

CONSTANTS t1, t2, t3, d1, d2, b1, b2, b3

Piece == {"above", "head", "tail"}

MCCells == Targets \X Piece
MCArea == [t \in Targets |-> [above \in BOOLEAN |->
             {t} \X (IF above THEN {"above", "head"} ELSE {"head", "tail"})]]
MCPrologue == [t \in Targets |-> {t} \X {"head", "tail"}]

\* Targets, detours and slots are interchangeable: nothing in MinHook orders them.
MCSymmetry == Permutations(Targets) \cup Permutations(Detours) \cup Permutations(Buffers)
==============================================================================
