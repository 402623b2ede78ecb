--------------------------- MODULE Trampoline_proofs ---------------------------
(***************************************************************************)
(* Trampoline, for every choice of lengths that the instruction set could  *)
(* have: the slot and the arrays are large enough, the patch is safe, the  *)
(* boundaries are a bijection, and forward branches reach their copies.    *)
(***************************************************************************)
EXTENDS Trampoline, TLAPS

\* How far the loop got.
PositionsOK ==
  /\ pc = "decode" => oldPos <= 19
  /\ pc \in {"decode", "place"} => patchAbove = FALSE
  /\ pc \in {"place", "ok"} => Len(ips) > 0

\* The boundaries grow in step on both sides, from <<0, 0>>.
BoundariesOK ==
  /\ Len(ips) > 0 => ips[1] = <<0, 0>>
  /\ Len(ips) = 0 => oldPos = 0 /\ newPos = 0
  /\ \A i \in DOMAIN ips : ips[i][1] < oldPos /\ ips[i][2] < newPos
  /\ \A i, j \in DOMAIN ips : i < j => ips[i][1] < ips[j][1] /\ ips[i][2] < ips[j][2]

\* The instruction that j goes to has not been reached, and nothing since j was resized.
Ahead(j) ==
  /\ pc \in {"decode", "unsupported"}
  /\ oldPos <= j.dest /\ newPos - oldPos = j.new - j.at

BranchesOK ==
  \A j \in jumps : j.dest <= jmpDest /\ (j.at <= j.dest => Lands(j) \/ Ahead(j))

IInv ==
  /\ TypeOK /\ FitsSlot /\ PatchOverwritesOnlyMoved
  /\ PositionsOK /\ BoundariesOK /\ BranchesOK

Sizes == 1 .. 16

-----------------------------------------------------------------------------
(* One instruction.                                                            *)

\* The positions and the list after an instruction.
Advanced(len, size, dest, finished) ==
  /\ Movable(len, size, dest)
  /\ ips' = Append(ips, <<oldPos, newPos>>)
  /\ oldPos' = oldPos + len
  /\ newPos' = newPos + size
  /\ jmpDest' = dest
  /\ pc' = IF finished THEN "place" ELSE "decode"
  /\ UNCHANGED <<padding, patchAbove>>

\* The list is longer by one boundary.
LEMMA ListAfter ==
  ASSUME IInv, ips' = Append(ips, <<oldPos, newPos>>)
  PROVE  \E n \in Nat :
           /\ n = Len(ips) /\ Len(ips') = n + 1 /\ ips' \in Seq(Nat \X Nat)
           /\ DOMAIN ips = 1 .. n /\ DOMAIN ips' = 1 .. n + 1
           /\ \A i \in 1 .. n : ips'[i] = ips[i] /\ ips[i][1] \in Nat /\ ips[i][2] \in Nat
           /\ ips'[n + 1] = <<oldPos, newPos>>
           /\ ips'[n + 1][1] = oldPos /\ ips'[n + 1][2] = newPos
<1>1. ips \in Seq(Nat \X Nat) /\ oldPos \in Nat /\ newPos \in Nat
  BY DEF IInv, TypeOK, TRAMPOLINE_MAX_SIZE, MEMORY_SLOT_SIZE, JMP_ABS
<1>. DEFINE b == <<oldPos, newPos>>
<1>2. b \in Nat \X Nat
  BY <1>1
<1>3. b[1] = oldPos /\ b[2] = newPos
  OBVIOUS
<1>. HIDE DEF b
<1>4. PICK n \in Nat : n = Len(ips) /\ DOMAIN ips = 1 .. n
  BY <1>1
<1>5. /\ ips' \in Seq(Nat \X Nat) /\ Len(ips') = n + 1 /\ DOMAIN ips' = 1 .. n + 1
      /\ \A i \in 1 .. n : ips'[i] = ips[i] /\ ips[i] \in Nat \X Nat
      /\ ips'[n + 1] = b
  <2>1. ips' = Append(ips, b)
    BY DEF b
  <2>. QED  BY <1>1, <1>2, <1>4, <2>1
<1>6. \A i \in 1 .. n : ips[i][1] \in Nat /\ ips[i][2] \in Nat
  BY <1>5
<1>. QED  BY <1>3, <1>4, <1>5, <1>6 DEF b

\* Types, room and boundaries.
LEMMA PositionsAdvance ==
  ASSUME IInv, pc = "decode", NEW len \in 1 .. 15, NEW size \in Sizes,
         NEW dest \in 0 .. (JMP_REL - 1), NEW finished \in BOOLEAN,
         oldPos < JMP_REL \/ finished,
         Advanced(len, size, dest, finished)
  PROVE  /\ oldPos' \in 0 .. 34 /\ newPos' \in 0 .. TRAMPOLINE_MAX_SIZE
         /\ ips' \in Seq(Nat \X Nat) /\ pc' \in {"decode", "place"}
         /\ jmpDest' \in 0 .. (JMP_REL - 1)
         /\ FitsSlot' /\ PatchOverwritesOnlyMoved' /\ PositionsOK' /\ BoundariesOK'
<1>. USE DEF JMP_REL, JMP_ABS, MEMORY_SLOT_SIZE, TRAMPOLINE_MAX_SIZE, IP_COUNT, Sizes
<1>1. /\ oldPos \in 0 .. 19 /\ newPos \in 0 .. 50 /\ patchAbove = FALSE
      /\ newPos + size <= 50 /\ Len(ips) < 8
  BY DEF IInv, TypeOK, PositionsOK, Advanced, Movable
<1>2. PICK n \in Nat :
        /\ n = Len(ips) /\ Len(ips') = n + 1 /\ ips' \in Seq(Nat \X Nat)
        /\ DOMAIN ips = 1 .. n /\ DOMAIN ips' = 1 .. n + 1
        /\ \A i \in 1 .. n : ips'[i] = ips[i] /\ ips[i][1] \in Nat /\ ips[i][2] \in Nat
        /\ ips'[n + 1] = <<oldPos, newPos>>
        /\ ips'[n + 1][1] = oldPos /\ ips'[n + 1][2] = newPos
  BY ListAfter DEF Advanced
<1>3. /\ oldPos' = oldPos + len /\ newPos' = newPos + size /\ patchAbove' = FALSE
      /\ pc' = (IF finished THEN "place" ELSE "decode")
  BY <1>1 DEF Advanced
<1>4. oldPos' \in 0 .. 34 /\ newPos' \in 0 .. 50
  BY <1>1, <1>3
<1>5. jmpDest' \in 0 .. (JMP_REL - 1)
  BY DEF Advanced
<1>6. FitsSlot'
  BY SMTT(20), <1>1, <1>2, <1>3 DEF FitsSlot
<1>7. PatchOverwritesOnlyMoved'
  BY <1>3 DEF PatchOverwritesOnlyMoved
<1>8. PositionsOK'
  <2>1. pc' = "decode" => oldPos' <= 19
    BY <1>1, <1>3
  <2>2. Len(ips') > 0
    BY <1>2
  <2>. QED  BY <1>3, <2>1, <2>2 DEF PositionsOK
<1>9. BoundariesOK'
  <2>1. /\ DOMAIN ips = 1 .. n /\ DOMAIN ips' = 1 .. n + 1
        /\ \A i \in 1 .. n : ips'[i] = ips[i]
    BY <1>2
  <2>2. \A i \in 1 .. n : /\ ips[i][1] < oldPos /\ ips[i][2] < newPos
                          /\ ips[i][1] \in Nat /\ ips[i][2] \in Nat
    BY <1>2 DEF IInv, BoundariesOK
  <2>3. ips'[n + 1][1] = oldPos /\ ips'[n + 1][2] = newPos
    BY <1>2
  <2>4. Len(ips') > 0 /\ ips'[1] = <<0, 0>>
    <3>1. Len(ips') > 0
      BY <1>2
    <3>2. CASE n = 0
      <4>1. oldPos = 0 /\ newPos = 0
        BY <1>2, <3>2 DEF IInv, BoundariesOK
      <4>2. ips'[n + 1] = <<oldPos, newPos>>
        BY <1>2
      <4>. QED  BY <3>1, <3>2, <4>1, <4>2
    <3>3. CASE n # 0
      <4>1. Len(ips) > 0 /\ 1 \in 1 .. n
        BY SMTT(20), <1>2, <3>3
      <4>2. ips[1] = <<0, 0>>
        BY <4>1 DEF IInv, BoundariesOK
      <4>. QED  BY <2>1, <3>1, <4>1, <4>2
    <3>. QED  BY <3>2, <3>3
  <2>5. ASSUME NEW i \in DOMAIN ips' PROVE ips'[i][1] < oldPos' /\ ips'[i][2] < newPos'
    <3>1. CASE i \in 1 .. n
      <4>1. ips'[i] = ips[i]
        BY <2>1, <3>1
      <4>2. /\ ips[i][1] < oldPos /\ ips[i][2] < newPos
            /\ ips[i][1] \in Nat /\ ips[i][2] \in Nat
        BY <2>2, <3>1
      <4>. QED  BY SMTT(20), <1>1, <1>3, <4>1, <4>2
    <3>2. CASE i = n + 1
      <4>1. ips'[i][1] = oldPos /\ ips'[i][2] = newPos
        BY <2>3, <3>2
      <4>. QED  BY <1>1, <1>3, <4>1
    <3>. QED  BY <2>1, <3>1, <3>2
  <2>6. ASSUME NEW i \in 1 .. n + 1, NEW j \in 1 .. n + 1, i < j
        PROVE  ips'[i][1] < ips'[j][1] /\ ips'[i][2] < ips'[j][2]
    <3>1. i \in 1 .. n
      BY <2>6
    <3>2. CASE j \in 1 .. n
      <4>1. ips[i][1] < ips[j][1] /\ ips[i][2] < ips[j][2]
        BY <2>1, <2>6, <3>1, <3>2 DEF IInv, BoundariesOK
      <4>. QED  BY <2>1, <3>1, <3>2, <4>1
    <3>3. CASE j = n + 1
      BY <2>1, <2>2, <2>3, <3>1, <3>3
    <3>. QED  BY <3>2, <3>3
  <2>. QED  BY <2>1, <2>4, <2>5, <2>6 DEF BoundariesOK
<1>. QED  BY <1>2, <1>3, <1>4, <1>5, <1>6, <1>7, <1>8, <1>9

\* Branches already copied: none is resized, stepped over or left behind.
LEMMA BranchesAdvance ==
  ASSUME IInv, pc = "decode", NEW len \in 1 .. 15, NEW size \in Sizes,
         NEW dest \in jmpDest .. (JMP_REL - 1), NEW finished \in BOOLEAN,
         Advanced(len, size, dest, finished),
         NEW j \in jumps,
         oldPos < j.dest => oldPos + len <= j.dest /\ ~ finished
  PROVE  j.dest <= jmpDest' /\ (j.at <= j.dest => Lands(j)' \/ Ahead(j)')
<1>. USE DEF JMP_REL, Sizes
<1>1. /\ oldPos \in Nat /\ newPos \in Nat /\ jmpDest \in 0 .. 4 /\ dest \in 0 .. 4
      /\ j.dest \in 0 .. 4 /\ j.at \in Nat /\ j.new \in Nat
  BY DEF IInv, TypeOK, TRAMPOLINE_MAX_SIZE, MEMORY_SLOT_SIZE, JMP_ABS
<1>2. /\ oldPos' = oldPos + len /\ newPos' = newPos + size /\ jmpDest' = dest
      /\ pc' = (IF finished THEN "place" ELSE "decode")
      /\ oldPos < dest => size = len
  BY DEF Advanced, Movable
<1>3. /\ \A x \in {ips[i] : i \in DOMAIN ips} : x \in {ips'[i] : i \in DOMAIN ips'}
      /\ <<oldPos, newPos>> \in {ips'[i] : i \in DOMAIN ips'}
  <2>1. PICK n \in Nat :
          /\ DOMAIN ips = 1 .. n /\ DOMAIN ips' = 1 .. n + 1
          /\ \A i \in 1 .. n : ips'[i] = ips[i]
          /\ ips'[n + 1] = <<oldPos, newPos>>
    BY ListAfter DEF Advanced
  <2>2. \A i \in DOMAIN ips : i \in DOMAIN ips' /\ ips'[i] = ips[i]
    BY <2>1
  <2>3. n + 1 \in DOMAIN ips'
    BY <2>1
  <2>4. ASSUME NEW i \in DOMAIN ips PROVE ips[i] \in {ips'[k] : k \in DOMAIN ips'}
    BY <2>2
  <2>5. <<oldPos, newPos>> \in {ips'[k] : k \in DOMAIN ips'}
    BY <2>1, <2>3
  <2>. QED  BY <2>4, <2>5
<1>4. j.dest <= dest
  BY <1>1 DEF IInv, BranchesOK
<1>5. ASSUME j.at <= j.dest PROVE Lands(j)' \/ Ahead(j)'
  <2>1. CASE Lands(j)
    BY <1>3, <2>1 DEF Lands
  <2>2. CASE Ahead(j) /\ oldPos = j.dest
    <3>1. newPos = j.new + (j.dest - j.at)
      BY <1>1, <2>2 DEF Ahead
    <3>. QED  BY <1>3, <2>2, <3>1 DEF Lands
  <2>3. CASE Ahead(j) /\ oldPos < j.dest
    <3>1. size = len /\ ~ finished /\ oldPos + len <= j.dest
      BY <1>1, <1>2, <1>4, <2>3
    <3>2. newPos - oldPos = j.new - j.at
      BY <2>3 DEF Ahead
    <3>3. newPos' - oldPos' = j.new - j.at
      BY <1>1, <1>2, <3>1, <3>2
    <3>. QED  BY <1>2, <3>1, <3>3 DEF Ahead
  <2>. QED  BY <1>1, <1>5, <2>1, <2>2, <2>3 DEF IInv, BranchesOK, Ahead
<1>. QED  BY <1>2, <1>4, <1>5

\* A supported instruction other than an internal branch.
LEMMA SameKeepsIInv ==
  ASSUME IInv, pc = "decode", NEW len \in 1 .. 15, NEW size \in Sizes,
         NEW finished \in BOOLEAN, oldPos < JMP_REL \/ finished,
         \A j \in jumps : oldPos < j.dest => oldPos + len <= j.dest /\ ~ finished,
         Same(len, size, finished)
  PROVE  IInv'
<1>1. CASE Unsupported
  BY <1>1 DEF Unsupported, IInv, TypeOK, FitsSlot, PatchOverwritesOnlyMoved, PositionsOK,
              BoundariesOK, BranchesOK, Ahead, Lands
<1>2. CASE Advanced(len, size, jmpDest, finished) /\ UNCHANGED jumps
  <2>1. jmpDest \in 0 .. (JMP_REL - 1) /\ jmpDest \in jmpDest .. (JMP_REL - 1)
    BY DEF IInv, TypeOK, JMP_REL
  <2>2. /\ oldPos' \in 0 .. 34 /\ newPos' \in 0 .. TRAMPOLINE_MAX_SIZE
        /\ ips' \in Seq(Nat \X Nat) /\ pc' \in {"decode", "place"}
        /\ jmpDest' \in 0 .. (JMP_REL - 1)
        /\ FitsSlot' /\ PatchOverwritesOnlyMoved' /\ PositionsOK' /\ BoundariesOK'
    BY <1>2, <2>1, PositionsAdvance
  <2>3. \A j \in jumps : j.dest <= jmpDest' /\ (j.at <= j.dest => Lands(j)' \/ Ahead(j)')
    BY <1>2, <2>1, BranchesAdvance
  <2>4. BranchesOK'
    BY <1>2, <2>3 DEF BranchesOK
  <2>5. TypeOK'
    BY <1>2, <2>2 DEF Advanced, IInv, TypeOK
  <2>. QED  BY <2>2, <2>4, <2>5 DEF IInv
<1>. QED  BY <1>1, <1>2 DEF Same, Move, Advanced, Boundary

\* No instruction of the loop steps over the target of a branch.
LEMMA SaneInstruction ==
  ASSUME IInv, NEW len \in 1 .. 15, Sane(len), NEW j \in jumps
  PROVE  oldPos < j.dest => oldPos + len <= j.dest
BY DEF IInv, TypeOK, Sane, JMP_REL

\* A branch to one of the first bytes, copied as it is.
LEMMA InternalBranchKeepsIInv ==
  ASSUME IInv, NEW len \in 1 .. 15, NEW kind,
         NEW dest \in 0 .. (JMP_REL - 1), InternalBranch(kind, len, dest)
  PROVE  IInv'
<1>1. /\ pc = "decode" /\ oldPos < JMP_REL /\ Sane(len) /\ SaneBranch(len, dest)
      /\ oldPos \in Nat /\ newPos \in Nat /\ jmpDest \in 0 .. 4
  BY DEF InternalBranch, InLoop, IInv, TypeOK, TRAMPOLINE_MAX_SIZE, MEMORY_SLOT_SIZE,
         JMP_ABS, JMP_REL
<1>. DEFINE furthest == IF jmpDest < dest THEN dest ELSE jmpDest
<1>. PICK new : new = [at |-> oldPos, new |-> newPos, dest |-> dest]
  OBVIOUS
<1>2. CASE Unsupported /\ pc' = "unsupported" /\ jumps' = jumps
  BY <1>2 DEF Unsupported, IInv, TypeOK, FitsSlot, PatchOverwritesOnlyMoved, PositionsOK,
              BoundariesOK, BranchesOK, Ahead, Lands
<1>3. CASE Advanced(len, len, furthest, FALSE) /\ jumps' = jumps \cup {new}
  <2>1. furthest \in 0 .. (JMP_REL - 1) /\ furthest \in jmpDest .. (JMP_REL - 1)
    BY <1>1 DEF JMP_REL
  <2>2. dest <= furthest
    BY <1>1 DEF JMP_REL
  <2>3. len \in Sizes
    BY DEF Sizes
  <2>. HIDE DEF furthest
  <2>4. /\ oldPos' \in 0 .. 34 /\ newPos' \in 0 .. TRAMPOLINE_MAX_SIZE
        /\ ips' \in Seq(Nat \X Nat) /\ pc' \in {"decode", "place"}
        /\ jmpDest' \in 0 .. (JMP_REL - 1)
        /\ FitsSlot' /\ PatchOverwritesOnlyMoved' /\ PositionsOK' /\ BoundariesOK'
    BY <1>1, <1>3, <2>1, <2>3, PositionsAdvance
  <2>5. ASSUME NEW j \in jumps
        PROVE  j.dest <= jmpDest' /\ (j.at <= j.dest => Lands(j)' \/ Ahead(j)')
    <3>1. oldPos < j.dest => oldPos + len <= j.dest /\ ~ FALSE
      BY <1>1, SaneInstruction
    <3>. QED  BY <1>1, <1>3, <2>1, <2>3, <3>1, BranchesAdvance
  <2>6. /\ oldPos' = oldPos + len /\ newPos' = newPos + len
        /\ pc' = "decode" /\ jmpDest' = furthest
    BY <1>3 DEF Advanced
  <2>7. new.dest <= jmpDest' /\ (new.at <= new.dest => Lands(new)' \/ Ahead(new)')
    <3>1. CASE dest < oldPos
      BY <1>1, <2>2, <2>6, <3>1
    <3>2. CASE dest = oldPos
      <4>1. PICK n \in Nat : DOMAIN ips' = 1 .. n + 1 /\ ips'[n + 1] = <<oldPos, newPos>>
        BY <1>3, ListAfter DEF Advanced
      <4>2. newPos + (dest - oldPos) = newPos
        BY <1>1, <3>2
      <4>3. <<dest, newPos + (dest - oldPos)>> \in {ips'[i] : i \in DOMAIN ips'}
        BY <3>2, <4>1, <4>2
      <4>4. Lands(new)'
        BY <4>3 DEF Lands
      <4>. QED  BY <2>2, <2>6, <4>4
    <3>3. CASE oldPos < dest
      <4>1. ~ InstructionAt(dest)
        BY <3>3, <1>1 DEF InstructionAt, IInv, BoundariesOK, TypeOK
      <4>2. oldPos + len <= dest
        BY <1>1, <3>3, <4>1 DEF SaneBranch
      <4>3. newPos' - oldPos' = newPos - oldPos
        BY <1>1, <2>6
      <4>. QED  BY <2>2, <2>6, <4>2, <4>3 DEF Ahead
    <3>. QED  BY <1>1, <3>1, <3>2, <3>3 DEF JMP_REL
  <2>8. BranchesOK'
    BY <1>3, <2>5, <2>7 DEF BranchesOK
  <2>9. TypeOK'
    <3>1. new.dest \in 0 .. (JMP_REL - 1) /\ new.at \in Nat /\ new.new \in Nat
      BY <1>1
    <3>2. padding' \in 0 .. JMP_REL /\ patchAbove' \in BOOLEAN
      BY <1>3 DEF Advanced, IInv, TypeOK
    <3>3. \A j \in jumps' : j.dest \in 0 .. (JMP_REL - 1) /\ j.at \in Nat /\ j.new \in Nat
      BY <1>3, <3>1 DEF IInv, TypeOK
    <3>. QED  BY <2>4, <3>2, <3>3 DEF TypeOK
  <2>. QED  BY <2>4, <2>8, <2>9 DEF IInv
<1>4. \/ Unsupported /\ pc' = "unsupported" /\ jumps' = jumps
      \/ Advanced(len, len, furthest, FALSE) /\ jumps' = jumps \cup {new}
  BY DEF InternalBranch, Move, Unsupported, Advanced, Boundary
<1>. QED  BY <1>2, <1>3, <1>4

-----------------------------------------------------------------------------
(* Every step.                                                                 *)

\* Giving up leaves everything as it is.
LEMMA UnsupportedKeepsIInv ==
  ASSUME IInv, Unsupported
  PROVE  IInv'
BY DEF Unsupported, IInv, TypeOK, FitsSlot, PatchOverwritesOnlyMoved, PositionsOK,
       BoundariesOK, BranchesOK, Ahead, Lands

\* The choice of the patch.
LEMMA PlaceKeepsIInv ==
  ASSUME IInv, NEW room \in 0 .. JMP_REL, NEW above \in BOOLEAN, Place(room, above)
  PROVE  IInv'
<1>. USE DEF JMP_REL, JMP_REL_SHORT
<1>1. /\ pc = "place" /\ padding' = room /\ pc' \in {"ok", "unsupported"}
      /\ patchAbove' \in BOOLEAN /\ oldPos \in Nat /\ patchAbove = FALSE
      /\ UNCHANGED <<oldPos, newPos, jmpDest, ips, jumps>>
  <2>1. pc = "place" /\ patchAbove = FALSE /\ oldPos \in Nat
    BY DEF Place, IInv, TypeOK, PositionsOK
  <2>2. pc' \in {"ok", "unsupported"} /\ patchAbove' \in BOOLEAN
    BY <2>1 DEF Place
  <2>. QED  BY <2>1, <2>2 DEF Place
<1>2. TypeOK' /\ FitsSlot'
  BY <1>1 DEF IInv, TypeOK, FitsSlot
<1>3. PatchOverwritesOnlyMoved'
  BY <1>1 DEF Place, LongJumpFits, ShortJumpFits, IsCodePadding, PatchOverwritesOnlyMoved
<1>4. PositionsOK' /\ BoundariesOK'
  BY <1>1 DEF IInv, PositionsOK, BoundariesOK
<1>5. BranchesOK'
  BY <1>1 DEF IInv, BranchesOK, Ahead, Lands
<1>. QED  BY <1>2, <1>3, <1>4, <1>5 DEF IInv

LEMMA NextIInv ==
  ASSUME IInv, [Next]_vars
  PROVE  IInv'
<1>. USE DEF JMP_REL
<1>1. /\ oldPos \in Nat /\ jmpDest \in 0 .. 4
      /\ \A j \in jumps : j.dest \in 0 .. 4 /\ j.dest <= jmpDest
  BY DEF IInv, TypeOK, BranchesOK
<1>2. CASE UNCHANGED vars
  BY <1>2 DEF vars, IInv, TypeOK, FitsSlot, PatchOverwritesOnlyMoved, PositionsOK,
              BoundariesOK, BranchesOK, Ahead, Lands
<1>3. CASE Undecodable
  BY <1>3, UnsupportedKeepsIInv DEF Undecodable
<1>4. ASSUME NEW len \in 1 .. 15, LongEnough(len) PROVE IInv'
  <2>1. pc = "decode" /\ oldPos >= JMP_REL /\ Same(len, JMP_ABS, TRUE)
    BY <1>4 DEF LongEnough
  <2>2. JMP_ABS \in Sizes
    BY DEF JMP_ABS, Sizes
  <2>3. \A j \in jumps : oldPos < j.dest => oldPos + len <= j.dest /\ ~ TRUE
    BY <1>1, <2>1
  <2>. QED  BY <2>1, <2>2, <2>3, SameKeepsIInv
<1>5. ASSUME NEW len \in 1 .. 15, NEW kind, NEW size \in Sizes, NEW finished \in BOOLEAN,
             InLoop(kind, len), Same(len, size, finished),
             finished => oldPos >= jmpDest \/ len >= 6
      PROVE  IInv'
  <2>1. pc = "decode" /\ oldPos < JMP_REL /\ Sane(len)
    BY <1>5 DEF InLoop
  <2>2. ASSUME NEW j \in jumps, oldPos < j.dest
        PROVE  oldPos + len <= j.dest /\ ~ finished
    <3>1. oldPos + len <= j.dest
      BY <2>1, <2>2, SaneInstruction
    <3>. QED  BY <1>1, <1>5, <2>2, <3>1
  <2>. QED  BY <1>5, <2>1, <2>2, SameKeepsIInv
<1>6. ASSUME NEW len \in 1 .. 15,
             \/ Plain(len) \/ RipRelative(len) \/ RelativeCall(len) \/ ExternalJcc(len)
      PROVE  IInv'
  <2>1. len \in Sizes /\ CALL_ABS \in Sizes /\ JCC_ABS \in Sizes
    BY DEF Sizes, CALL_ABS, JCC_ABS
  <2>2. PICK kind \in Kinds, size \in Sizes : InLoop(kind, len) /\ Same(len, size, FALSE)
    BY <1>6, <2>1 DEF Plain, RipRelative, RelativeCall, ExternalJcc, Kinds
  <2>. QED  BY <1>5, <2>2
<1>7. ASSUME NEW len \in 1 .. 15, RipJump(len) PROVE IInv'
  <2>1. len >= 6
    BY <1>7, LengthsAssumption DEF RipJump, InLoop
  <2>2. len \in Sizes /\ TRUE \in BOOLEAN
    BY DEF Sizes
  <2>3. InLoop("ripjmp", len) /\ Same(len, len, TRUE)
    BY <1>7 DEF RipJump
  <2>. QED  BY <1>5, <2>1, <2>2, <2>3
<1>8. ASSUME NEW len \in 1 .. 15, ExternalJump(len) \/ Return(len) PROVE IInv'
  <2>1. len \in Sizes /\ JMP_ABS \in Sizes /\ (oldPos >= jmpDest) \in BOOLEAN
    BY DEF Sizes, JMP_ABS
  <2>2. PICK kind \in Kinds, size \in Sizes :
            InLoop(kind, len) /\ Same(len, size, oldPos >= jmpDest)
    BY <1>8, <2>1 DEF ExternalJump, Return, Kinds
  <2>. QED  BY <1>5, <2>1, <2>2
<1>9. ASSUME NEW len \in 1 .. 15, ExternalLoop(len) PROVE IInv'
  BY <1>9, UnsupportedKeepsIInv DEF ExternalLoop
<1>10. ASSUME NEW len \in 1 .. 15, NEW kind \in {"jmp", "jcc", "loop"},
              NEW dest \in 0 .. (JMP_REL - 1), InternalBranch(kind, len, dest)
       PROVE  IInv'
  BY <1>10, InternalBranchKeepsIInv
<1>11. ASSUME NEW room \in 0 .. JMP_REL, NEW above \in BOOLEAN, Place(room, above)
       PROVE  IInv'
  BY <1>11, PlaceKeepsIInv
<1>. QED  BY <1>2, <1>3, <1>4, <1>6, <1>7, <1>8, <1>9, <1>10, <1>11 DEF Next

LEMMA InitIInv ==
  ASSUME Init
  PROVE  IInv
<1>1. ips \in Seq(Nat \X Nat) /\ Len(ips) = 0 /\ DOMAIN ips = {}
  BY DEF Init
<1>2. TypeOK
  <2>1. /\ oldPos \in 0 .. 34 /\ newPos \in 0 .. TRAMPOLINE_MAX_SIZE
        /\ jmpDest \in 0 .. (JMP_REL - 1) /\ padding \in 0 .. JMP_REL
    BY DEF Init, TRAMPOLINE_MAX_SIZE, MEMORY_SLOT_SIZE, JMP_ABS, JMP_REL
  <2>2. jumps = {} /\ pc = "decode" /\ patchAbove \in BOOLEAN
    BY DEF Init
  <2>. QED  BY <1>1, <2>1, <2>2 DEF TypeOK
<1>3. FitsSlot /\ PatchOverwritesOnlyMoved
  BY <1>1 DEF Init, FitsSlot, PatchOverwritesOnlyMoved, MEMORY_SLOT_SIZE, JMP_ABS, IP_COUNT
<1>4. PositionsOK /\ BoundariesOK /\ BranchesOK
  BY <1>1 DEF Init, PositionsOK, BoundariesOK, BranchesOK
<1>. QED  BY <1>2, <1>3, <1>4 DEF IInv

THEOREM Invariants == Spec => []IInv
<1>1. Init => IInv
  BY InitIInv
<1>2. IInv /\ [Next]_vars => IInv'
  BY NextIInv
<1>. QED  BY <1>1, <1>2, PTL DEF Spec

-----------------------------------------------------------------------------
(* What follows.                                                               *)

\* Every variable keeps its type, and the loop never walks past byte 34 of the function.
THEOREM TypeCorrect == Spec => []TypeOK
BY Invariants, PTL DEF IInv

\* No mix of instructions, each moved at its own size, outgrows the 64 bytes of a slot or
\* the eight entries of oldIPs and newIPs.
THEOREM SlotsAreLargeEnough == Spec => []FitsSlot
BY Invariants, PTL DEF IInv

\* The jump EnableHookLL writes covers bytes that the trampoline replaces, or padding.
THEOREM PatchIsSafe == Spec => []PatchOverwritesOnlyMoved
BY Invariants, PTL DEF IInv

\* The boundary of an instruction is found from both sides.
LEMMA BoundariesFound ==
  ASSUME IInv, NEW i \in DOMAIN ips
  PROVE  /\ FindNewIP(<<"target", ips[i][1]>>) = <<"slot", ips[i][2]>>
         /\ FindOldIP(<<"slot", ips[i][2]>>) = <<"target", ips[i][1]>>
<1>1. PICK n \in Nat : DOMAIN ips = 1 .. n /\ \A k \in 1 .. n : ips[k] \in Nat \X Nat
  BY DEF IInv, TypeOK
<1>2. \A j, k \in DOMAIN ips : j < k => ips[j][1] < ips[k][1] /\ ips[j][2] < ips[k][2]
  BY DEF IInv, BoundariesOK
<1>3. ASSUME NEW k \in DOMAIN ips, ips[k][1] = ips[i][1] \/ ips[k][2] = ips[i][2]
      PROVE  k = i
  <2>1. ips[k][1] \in Nat /\ ips[k][2] \in Nat /\ ips[i][1] \in Nat /\ ips[i][2] \in Nat
    BY <1>1
  <2>2. ~ (k < i) /\ ~ (i < k)
    BY <1>2, <1>3, <2>1
  <2>. QED  BY <1>1, <2>2
<1>4. FindNewIP(<<"target", ips[i][1]>>) = <<"slot", ips[i][2]>>
  <2>. DEFINE ip == <<"target", ips[i][1]>>
              first(k) == /\ ip = <<"target", ips[k][1]>>
                          /\ \A j \in DOMAIN ips : ip = <<"target", ips[j][1]>> => k <= j
  <2>1. \A k \in DOMAIN ips : ip = <<"target", ips[k][1]>> => k = i
    BY <1>3
  <2>2. ip = <<"target", ips[i][1]>>
    OBVIOUS
  <2>. HIDE DEF ip
  <2>3. \A k \in DOMAIN ips : first(k) <=> k = i
    BY <1>1, <2>1, <2>2
  <2>4. (CHOOSE k \in DOMAIN ips : first(k)) = i
    BY <2>3
  <2>5. FindNewIP(ip) = <<"slot", ips[CHOOSE k \in DOMAIN ips : first(k)][2]>>
    BY <2>2 DEF FindNewIP
  <2>. QED  BY <2>4, <2>5 DEF ip
<1>5. FindOldIP(<<"slot", ips[i][2]>>) = <<"target", ips[i][1]>>
  <2>. DEFINE ip == <<"slot", ips[i][2]>>
              first(k) == /\ ip = <<"slot", ips[k][2]>>
                          /\ \A j \in DOMAIN ips : ip = <<"slot", ips[j][2]>> => k <= j
  <2>1. \A k \in DOMAIN ips : ip = <<"slot", ips[k][2]>> => k = i
    BY <1>3
  <2>2. ip = <<"slot", ips[i][2]>> /\ ip # <<"target", -JMP_REL>>
    OBVIOUS
  <2>. HIDE DEF ip
  <2>3. \A k \in DOMAIN ips : first(k) <=> k = i
    BY <1>1, <2>1, <2>2
  <2>4. (CHOOSE k \in DOMAIN ips : first(k)) = i
    BY <2>3
  <2>5. FindOldIP(ip) = <<"target", ips[CHOOSE k \in DOMAIN ips : first(k)][1]>>
    BY <2>2 DEF FindOldIP
  <2>. QED  BY <2>4, <2>5 DEF ip
<1>. QED  BY <1>4, <1>5

\* A thread moved to the trampoline can be moved back to where it was, and one in the relay
\* starts the function afresh.
THEOREM ThreadsMoveBothWays == Spec => []BoundariesRoundTrip
<1>1. ASSUME IInv PROVE BoundariesRoundTrip
  <2>1. ASSUME NEW i \in DOMAIN ips
        PROVE  /\ FindOldIP(FindNewIP(<<"target", ips[i][1]>>)) = <<"target", ips[i][1]>>
               /\ FindNewIP(FindOldIP(<<"slot", ips[i][2]>>)) = <<"slot", ips[i][2]>>
    BY <1>1, BoundariesFound
  <2>2. ASSUME pc = "ok"
        PROVE  /\ FindNewIP(<<"target", 0>>) = <<"slot", 0>>
               /\ FindOldIP(<<"slot", newPos>>) = <<"target", 0>>
               /\ patchAbove => FindOldIP(<<"target", -JMP_REL>>) = <<"target", 0>>
    <3>1. 1 \in DOMAIN ips /\ ips[1] = <<0, 0>>
      BY <1>1, <2>2 DEF IInv, TypeOK, PositionsOK, BoundariesOK
    <3>2. FindNewIP(<<"target", 0>>) = <<"slot", 0>>
      <4>1. ips[1][1] = 0 /\ ips[1][2] = 0
        BY <3>1
      <4>2. FindNewIP(<<"target", ips[1][1]>>) = <<"slot", ips[1][2]>>
        BY <1>1, <3>1, BoundariesFound
      <4>. QED  BY <4>1, <4>2
    <3>3. \A i \in DOMAIN ips : ips[i][2] # newPos
      BY <1>1 DEF IInv, TypeOK, BoundariesOK
    <3>4. FindOldIP(<<"slot", newPos>>) = <<"target", 0>>
      BY <3>3 DEF FindOldIP
    <3>5. patchAbove => FindOldIP(<<"target", -JMP_REL>>) = <<"target", 0>>
      BY DEF FindOldIP
    <3>. QED  BY <3>2, <3>4, <3>5
  <2>. QED  BY <2>1, <2>2 DEF BoundariesRoundTrip
<1>. QED  BY <1>1, Invariants, PTL

\* A copied branch that goes forward reaches the copy of its instruction: nothing between
\* them was resized, nothing stepped over it, and the trampoline did not end before it.
THEOREM ForwardBranchesReach == Spec => []ForwardBranchesLand
<1>1. IInv => ForwardBranchesLand
  BY DEF IInv, BranchesOK, Ahead, ForwardBranchesLand
<1>. QED  BY <1>1, Invariants, PTL
===============================================================================
