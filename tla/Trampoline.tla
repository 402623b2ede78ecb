------------------------------ MODULE Trampoline ------------------------------
(***************************************************************************)
(* CreateTrampolineFunction of library/source/trampoline.cpp: the loop that*)
(* moves a function's first instructions to a slot, one instruction a step,*)
(* and the choice of the patch.  The function being hooked is chosen as it *)
(* is read: an instruction of any kind and length, branching anywhere.     *)
(* Also FindOldIP and FindNewIP of hook.cpp, which use the boundaries kept.*)
(***************************************************************************)
EXTENDS Integers, Sequences, FiniteSets

CONSTANT Lengths    \* Lengths[kind]: the sizes an instruction of that kind can have

Kinds == {"plain", "rip", "ripjmp", "call", "jmp", "jcc", "loop", "ret"}

\* JMP [RIP+x] holds at least its opcode, its ModR/M byte and a displacement of 4 bytes.
ASSUME LengthsAssumption ==
  /\ Lengths \in [Kinds -> SUBSET (1 .. 15)]
  /\ Lengths["ripjmp"] \subseteq 6 .. 15

JMP_REL == 5
JMP_REL_SHORT == 2
JMP_ABS == 14
CALL_ABS == 16
JCC_ABS == 16
MEMORY_SLOT_SIZE == 64
TRAMPOLINE_MAX_SIZE == MEMORY_SLOT_SIZE - JMP_ABS
IP_COUNT == 8                  \* ARRAYSIZE(ct->oldIPs)

VARIABLES
  oldPos, newPos,   \* positions in the function and in the slot
  jmpDest,          \* furthest internal branch so far; 0 also stands for none
  ips,              \* <<oldIPs[i], newIPs[i]>>, i < nIP
  jumps,            \* internal branches copied: where from, where to, for which position
  pc,               \* "decode" (in the loop), "place" (after it), "ok", "unsupported"
  padding,          \* bytes of padding after the last instruction
  patchAbove

vars == <<oldPos, newPos, jmpDest, ips, jumps, pc, padding, patchAbove>>

Init ==
  /\ oldPos = 0 /\ newPos = 0 /\ jmpDest = 0
  /\ ips = <<>> /\ jumps = {}
  /\ pc = "decode" /\ padding = 0 /\ patchAbove = FALSE

Unsupported ==
  /\ pc' = "unsupported"
  /\ UNCHANGED <<oldPos, newPos, jmpDest, ips, jumps, padding, patchAbove>>
-----------------------------------------------------------------------------
(* The loop.                                                                   *)

\* Slip: a resized instruction inside a branch is let through.
MovableAnywhere(len, size, dest) ==
  newPos + size <= TRAMPOLINE_MAX_SIZE /\ Len(ips) < IP_COUNT

\* Slip: the size of the copy is left out of the check.
MovableIgnoringSize(len, size, dest) ==
  /\ oldPos < dest => size = len
  /\ newPos <= TRAMPOLINE_MAX_SIZE
  /\ Len(ips) < IP_COUNT

\* dest is the furthest internal branch, this instruction's included.
Movable(len, size, dest) ==
  /\ oldPos < dest => size = len
  /\ newPos + size <= TRAMPOLINE_MAX_SIZE
  /\ Len(ips) < IP_COUNT

\* Slip: boundaries are recorded after the positions advanced.
BoundaryAfter(len, size) == <<oldPos + len, newPos>>

Boundary(len, size) == <<oldPos, newPos>>

\* Move an instruction of len bytes as size bytes; `finished` ends the loop.
Move(len, size, dest, finished) ==
  \/ /\ Movable(len, size, dest)
     /\ ips' = Append(ips, Boundary(len, size))
     /\ oldPos' = oldPos + len
     /\ newPos' = newPos + size
     /\ jmpDest' = dest
     /\ pc' = IF finished THEN "place" ELSE "decode"
     /\ UNCHANGED <<padding, patchAbove>>
  \/ ~ Movable(len, size, dest) /\ Unsupported

Same(len, size, finished) == Move(len, size, jmpDest, finished) /\ UNCHANGED jumps

\* A compiled function branches to its own instructions, not into their middle.
Sane(len) ==
  \A j \in jumps : j.dest <= oldPos \/ j.dest >= oldPos + len

InstructionAt(pos) == \E i \in DOMAIN ips : ips[i][1] = pos

SaneBranch(len, dest) ==
  InstructionAt(dest) \/ dest = oldPos \/ oldPos + len <= dest

\* Slip: > for >= where enough bytes are moved.
InLoopLate(kind, len) ==
  /\ pc = "decode" /\ oldPos <= JMP_REL
  /\ len \in Lengths[kind] /\ Sane(len)

InLoop(kind, len) ==
  /\ pc = "decode" /\ oldPos < JMP_REL
  /\ len \in Lengths[kind] /\ Sane(len)

Undecodable == pc = "decode" /\ Unsupported

\* Enough bytes moved: jump to the rest of the function.
LongEnough(len) ==
  /\ pc = "decode" /\ oldPos >= JMP_REL
  /\ Same(len, JMP_ABS, TRUE)

Plain(len) == InLoop("plain", len) /\ Same(len, len, FALSE)

\* RIP-relative operands are rewritten in place; JMP [RIP+x] ends the function.
RipRelative(len) == InLoop("rip", len) /\ Same(len, len, FALSE)

RipJump(len) == InLoop("ripjmp", len) /\ Same(len, len, TRUE)

RelativeCall(len) == InLoop("call", len) /\ Same(len, CALL_ABS, FALSE)

\* "Simply copy an internal jump": JMP, Jcc or LOOP to 0 .. 4.
InternalBranch(kind, len, dest) ==
  /\ InLoop(kind, len) /\ SaneBranch(len, dest)
  /\ Move(len, len, IF jmpDest < dest THEN dest ELSE jmpDest, FALSE)
  /\ jumps' = IF pc' = "unsupported" THEN jumps
              ELSE jumps \cup {[at |-> oldPos, new |-> newPos, dest |-> dest]}

ExternalJump(len) == InLoop("jmp", len) /\ Same(len, JMP_ABS, oldPos >= jmpDest)

ExternalJcc(len) == InLoop("jcc", len) /\ Same(len, JCC_ABS, FALSE)

ExternalLoop(len) == InLoop("loop", len) /\ Unsupported

\* Slip: a return inside a branch ends the function.
ReturnAlways(len) == InLoop("ret", len) /\ Same(len, len, TRUE)

Return(len) == InLoop("ret", len) /\ Same(len, len, oldPos >= jmpDest)
-----------------------------------------------------------------------------
(* After the loop: where can the jump go?                                      *)

\* `room` bytes of padding follow the last instruction moved.
IsCodePadding(room, size) == room >= size

LongJumpFits(room) == oldPos >= JMP_REL \/ IsCodePadding(room, JMP_REL - oldPos)

\* Slip: the short jump is taken for granted.
ShortJumpFitsAlways(room) == TRUE

ShortJumpFits(room) ==
  oldPos >= JMP_REL_SHORT \/ IsCodePadding(room, JMP_REL_SHORT - oldPos)

\* above: the 5 bytes before the function are executable padding.
Place(room, above) ==
  /\ pc = "place"
  /\ padding' = room
  /\ \/ LongJumpFits(room) /\ pc' = "ok" /\ UNCHANGED patchAbove
     \/ /\ ~ LongJumpFits(room) /\ ShortJumpFits(room) /\ above
        /\ pc' = "ok" /\ patchAbove' = TRUE
     \/ /\ ~ LongJumpFits(room) /\ ~ (ShortJumpFits(room) /\ above)
        /\ pc' = "unsupported" /\ UNCHANGED patchAbove
  /\ UNCHANGED <<oldPos, newPos, jmpDest, ips, jumps>>

Next ==
  \/ Undecodable
  \/ \E len \in 1 .. 15 :
       \/ LongEnough(len) \/ Plain(len) \/ RipRelative(len) \/ RipJump(len)
       \/ RelativeCall(len) \/ ExternalJump(len) \/ ExternalJcc(len)
       \/ ExternalLoop(len) \/ Return(len)
       \/ \E kind \in {"jmp", "jcc", "loop"}, dest \in 0 .. (JMP_REL - 1) :
            InternalBranch(kind, len, dest)
  \/ \E room \in 0 .. JMP_REL, above \in BOOLEAN : Place(room, above)

Spec == Init /\ [][Next]_vars
-----------------------------------------------------------------------------
(* FindOldIP and FindNewIP (hook.cpp): an instruction pointer is a place       *)
(* <<"target", n>>, n bytes into the function, or <<"slot", n>>.               *)

NoIP == <<"none", 0>>

FindNewIP(ip) ==
  IF \E i \in DOMAIN ips : ip = <<"target", ips[i][1]>>
  THEN <<"slot", ips[CHOOSE i \in DOMAIN ips :
                       /\ ip = <<"target", ips[i][1]>>
                       /\ \A j \in DOMAIN ips : ip = <<"target", ips[j][1]>> => i <= j][2]>>
  ELSE NoIP

FindOldIP(ip) ==
  IF patchAbove /\ ip = <<"target", -JMP_REL>> THEN <<"target", 0>>
  ELSE IF \E i \in DOMAIN ips : ip = <<"slot", ips[i][2]>>
  THEN <<"target", ips[CHOOSE i \in DOMAIN ips :
                         /\ ip = <<"slot", ips[i][2]>>
                         /\ \A j \in DOMAIN ips : ip = <<"slot", ips[j][2]>> => i <= j][1]>>
  ELSE IF ip = <<"slot", newPos>> THEN <<"target", 0>>    \* the relay
  ELSE NoIP
-----------------------------------------------------------------------------
(* Properties.                                                                 *)

\* Every variable has its type.
TypeOK ==
  /\ oldPos \in 0 .. 34 /\ newPos \in 0 .. TRAMPOLINE_MAX_SIZE
  /\ jmpDest \in 0 .. (JMP_REL - 1)
  /\ ips \in Seq(Nat \X Nat)
  /\ \A j \in jumps : j.dest \in 0 .. (JMP_REL - 1) /\ j.at \in Nat /\ j.new \in Nat
  /\ pc \in {"decode", "place", "ok", "unsupported"}
  /\ padding \in 0 .. JMP_REL /\ patchAbove \in BOOLEAN

\* Trampoline and relay fit the slot and the boundaries their arrays, whatever mix of
\* instructions grows from 2 or 5 to 16 bytes.
FitsSlot ==
  /\ newPos + JMP_ABS <= MEMORY_SLOT_SIZE
  /\ Len(ips) <= IP_COUNT

\* A supported function's patch overwrites only bytes that were moved or are padding.
PatchOverwritesOnlyMoved ==
  pc = "ok" => (IF patchAbove THEN JMP_REL_SHORT ELSE JMP_REL) <= oldPos + padding

\* ProcessThreadIPs can move a thread to the trampoline and back: it returns to where it
\* was, every instruction moved has exactly one place in the slot, the function's start is
\* the slot's, and a thread in the relay or the jump above the target starts afresh.
BoundariesRoundTrip ==
  /\ \A i \in DOMAIN ips :
       /\ FindOldIP(FindNewIP(<<"target", ips[i][1]>>)) = <<"target", ips[i][1]>>
       /\ FindNewIP(FindOldIP(<<"slot", ips[i][2]>>)) = <<"slot", ips[i][2]>>
  /\ pc = "ok" =>
       /\ FindNewIP(<<"target", 0>>) = <<"slot", 0>>
       /\ FindOldIP(<<"slot", newPos>>) = <<"target", 0>>
       /\ patchAbove => FindOldIP(<<"target", -JMP_REL>>) = <<"target", 0>>

\* Where a copied branch goes: its displacement is unchanged.
Lands(j) == <<j.dest, j.new + (j.dest - j.at)>> \in {ips[i] : i \in DOMAIN ips}

\* "Can't alter the instruction length in a branch" (trampoline.cpp:251): a forward branch
\* that was copied reaches the copy of the instruction it was for, and that
\* instruction was copied before the trampoline ended.
ForwardBranchesLand ==
  pc = "ok" => \A j \in jumps : j.at <= j.dest => Lands(j)

\* "Simply copy an internal jump" (trampoline.cpp:186, 217): so does every one.
BranchesLand == pc = "ok" => \A j \in jumps : Lands(j)
===============================================================================
