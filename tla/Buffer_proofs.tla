----------------------------- MODULE Buffer_proofs -----------------------------
(***************************************************************************)
(* Slots of trampolines, for any pages, origins and block size: the free   *)
(* lists and the callers' slots partition the blocks, no caller's slot is  *)
(* unmapped, and the allocator is the pool of module SlotPool.             *)
(***************************************************************************)
EXTENDS Buffer, FiniteSetTheorems, SequenceTheorems, TLAPS

\* The blocks g_pMemoryBlocks leads to, each listed once.
Linked == {list[i] : i \in DOMAIN list}

ListOK ==
  /\ list \in Seq(Pages) /\ mapped \subseteq Pages /\ sizes \subseteq Pages
  /\ \A i, j \in DOMAIN list : list[i] = list[j] => i = j

\* A block: no slot is on its free list twice, those that are not on it are given, one at
\* least is, and usedCount counts them.
HeaderOK(p) ==
  /\ block[p] \in [free : Seq(SlotNumbers), used : Nat]
  /\ \A i, j \in DOMAIN block[p].free : block[p].free[i] = block[p].free[j] => i = j
  /\ FreeSlots(p) = SlotNumbers \ GivenIn(p)
  /\ Len(block[p].free) + block[p].used = BlockSize - 1
  /\ block[p].used = Cardinality(GivenIn(p))
  /\ GivenIn(p) # {} /\ p \in mapped \cap sizes

GivenOK ==
  /\ given \in [DOMAIN given -> Origins] /\ DOMAIN given \subseteq Addresses
  /\ \A s \in DOMAIN given : BlockOf(s) \in DOMAIN block

BlocksOK ==
  /\ DOMAIN block = Linked /\ block = [p \in DOMAIN block |-> block[p]]
  /\ \A p \in DOMAIN block : HeaderOK(p)

\* The inductive invariant.
IInv == ListOK /\ GivenOK /\ BlocksOK

\* The slots of a free list f.
Listing(f) == {f[i] : i \in DOMAIN f}

-----------------------------------------------------------------------------
(* Addresses of slots.                                                         *)

\* A slot lies in the block of its page.
LEMMA BlockOfSlot ==
  ASSUME NEW p \in Pages, NEW k \in SlotNumbers
  PROVE  /\ BlockOf(p + k) = p /\ (p + k) - p = k
         /\ p \in Nat /\ k \in Nat /\ p + k \in Addresses
<1>1. /\ p \in Nat /\ p % BlockSize = 0 /\ BlockSize \in Nat \ {0}
      /\ k \in Nat /\ k < BlockSize
  BY SizeAssumption DEF SlotNumbers
<1>2. p = BlockSize * (p \div BlockSize) /\ p \div BlockSize \in Nat
  BY <1>1
<1>3. (BlockSize * (p \div BlockSize) + k) \div BlockSize = p \div BlockSize
  BY <1>1, <1>2
<1>4. (p + k) \div BlockSize = p \div BlockSize
  BY <1>2, <1>3
<1>5. BlockOf(p + k) = p
  BY <1>1, <1>2, <1>4 DEF BlockOf
<1>. QED  BY <1>1, <1>5 DEF Addresses

\* Slots of two blocks are different.
LEMMA SlotsApart ==
  ASSUME NEW p \in Pages, NEW k \in SlotNumbers, NEW q \in Pages, NEW l \in SlotNumbers,
         p + k = q + l
  PROVE  p = q /\ k = l
<1>1. BlockOf(p + k) = p /\ BlockOf(q + l) = q
  BY BlockOfSlot
<1>2. p = q
  BY <1>1
<1>. QED  BY <1>2, BlockOfSlot

\* Every address of a slot is a page and a slot number.
LEMMA AddressParts ==
  ASSUME NEW s \in Addresses
  PROVE  \E k \in SlotNumbers :
           /\ BlockOf(s) \in Pages /\ s = BlockOf(s) + k /\ s - BlockOf(s) = k
<1>1. PICK p \in Pages, k \in SlotNumbers : s = p + k
  BY DEF Addresses
<1>. QED  BY <1>1, BlockOfSlot

\* The slot numbers a block has in use are finitely many.
LEMMA GivenInFinite ==
  ASSUME NEW p
  PROVE  IsFiniteSet(GivenIn(p)) /\ GivenIn(p) \subseteq SlotNumbers
<1>1. IsFiniteSet(SlotNumbers)
  BY FS_Interval, SizeAssumption DEF SlotNumbers
<1>. QED  BY <1>1, FS_Subset DEF GivenIn

-----------------------------------------------------------------------------
(* Lists.                                                                      *)

\* All but the head of a list without repetitions.
LEMMA TailOf ==
  ASSUME NEW f \in Seq(SlotNumbers), f # <<>>,
         \A i, j \in DOMAIN f : f[i] = f[j] => i = j
  PROVE  /\ Head(f) \in SlotNumbers /\ Tail(f) \in Seq(SlotNumbers)
         /\ Len(Tail(f)) = Len(f) - 1
         /\ Listing(Tail(f)) = Listing(f) \ {Head(f)} /\ Head(f) \in Listing(f)
         /\ \A i, j \in DOMAIN Tail(f) : Tail(f)[i] = Tail(f)[j] => i = j
<1>. DEFINE g == Tail(f)
<1>1. /\ Len(f) \in Nat \ {0} /\ DOMAIN f = 1 .. Len(f) /\ Head(f) = f[1]
      /\ \A i \in 1 .. Len(f) : f[i] \in SlotNumbers
  OBVIOUS
<1>2. /\ g \in Seq(SlotNumbers) /\ Len(g) = Len(f) - 1 /\ DOMAIN g = 1 .. (Len(f) - 1)
      /\ \A i \in 1 .. (Len(f) - 1) : g[i] = f[i + 1]
  OBVIOUS
<1>. HIDE DEF g
<1>3. \A i, j \in DOMAIN g : g[i] = g[j] => i = j
  <2>. SUFFICES ASSUME NEW i \in DOMAIN g, NEW j \in DOMAIN g, g[i] = g[j] PROVE i = j
    OBVIOUS
  <2>1. i + 1 \in DOMAIN f /\ j + 1 \in DOMAIN f /\ f[i + 1] = f[j + 1]
    BY <1>1, <1>2
  <2>2. i + 1 = j + 1
    BY <2>1
  <2>. QED  BY <2>2, <1>1, <1>2
<1>4. ASSUME NEW k \in Listing(g) PROVE k \in Listing(f) \ {Head(f)}
  <2>1. PICK i \in DOMAIN g : k = g[i]
    BY <1>4 DEF Listing
  <2>2. i + 1 \in DOMAIN f /\ k = f[i + 1] /\ 1 \in DOMAIN f /\ i + 1 # 1
    BY <2>1, <1>1, <1>2
  <2>. QED  BY <2>2, <1>1 DEF Listing
<1>5. ASSUME NEW k \in Listing(f) \ {Head(f)} PROVE k \in Listing(g)
  <2>1. PICK i \in DOMAIN f : k = f[i]
    BY <1>5 DEF Listing
  <2>2. i - 1 \in DOMAIN g /\ k = g[i - 1]
    BY <2>1, <1>1, <1>2, <1>5
  <2>. QED  BY <2>2 DEF Listing
<1>6. Head(f) \in Listing(f) /\ Head(f) \in SlotNumbers
  BY <1>1 DEF Listing
<1>. QED  BY <1>2, <1>3, <1>4, <1>5, <1>6 DEF g

\* A list with a new head.
LEMMA PushOn ==
  ASSUME NEW f \in Seq(SlotNumbers), NEW k \in SlotNumbers, k \notin Listing(f),
         \A i, j \in DOMAIN f : f[i] = f[j] => i = j
  PROVE  /\ <<k>> \o f \in Seq(SlotNumbers) /\ Len(<<k>> \o f) = Len(f) + 1
         /\ Listing(<<k>> \o f) = Listing(f) \cup {k}
         /\ \A i, j \in DOMAIN (<<k>> \o f) : (<<k>> \o f)[i] = (<<k>> \o f)[j] => i = j
<1>. DEFINE g == <<k>> \o f
<1>1. /\ Len(f) \in Nat /\ DOMAIN f = 1 .. Len(f)
      /\ \A i \in 1 .. Len(f) : f[i] \in SlotNumbers
  OBVIOUS
<1>2. /\ g \in Seq(SlotNumbers) /\ Len(g) = Len(f) + 1 /\ DOMAIN g = 1 .. (Len(f) + 1)
      /\ g[1] = k /\ \A i \in 2 .. (Len(f) + 1) : g[i] = f[i - 1]
  OBVIOUS
<1>. HIDE DEF g
<1>3. \A i \in DOMAIN f : f[i] # k
  BY DEF Listing
<1>4. \A i, j \in DOMAIN g : g[i] = g[j] => i = j
  <2>. SUFFICES ASSUME NEW i \in DOMAIN g, NEW j \in DOMAIN g, g[i] = g[j] PROVE i = j
    OBVIOUS
  <2>1. CASE i = 1 \/ j = 1
    BY SMTT(20), <2>1, <1>1, <1>2, <1>3
  <2>2. CASE i # 1 /\ j # 1
    <3>1. i - 1 \in DOMAIN f /\ j - 1 \in DOMAIN f /\ f[i - 1] = f[j - 1]
      BY <2>2, <1>1, <1>2
    <3>. QED  BY <3>1, <1>2
  <2>. QED  BY <2>1, <2>2
<1>5. ASSUME NEW l \in Listing(g) PROVE l \in Listing(f) \cup {k}
  <2>1. PICK i \in DOMAIN g : l = g[i]
    BY <1>5 DEF Listing
  <2>2. i = 1 \/ (i - 1 \in DOMAIN f /\ l = f[i - 1])
    BY <2>1, <1>1, <1>2
  <2>. QED  BY <2>1, <2>2, <1>2 DEF Listing
<1>6. ASSUME NEW l \in Listing(f) PROVE l \in Listing(g)
  <2>1. PICK i \in DOMAIN f : l = f[i]
    BY <1>6 DEF Listing
  <2>2. i + 1 \in DOMAIN g /\ l = g[i + 1]
    BY <2>1, <1>1, <1>2
  <2>. QED  BY <2>2 DEF Listing
<1>7. k \in Listing(g)
  BY <1>1, <1>2 DEF Listing
<1>. QED  BY <1>2, <1>4, <1>5, <1>6, <1>7 DEF g

\* A fresh block lists every slot number once.
LEMMA AllSlotsListed ==
  /\ AllSlots \in Seq(SlotNumbers) /\ AllSlots # <<>> /\ Len(AllSlots) = BlockSize - 1
  /\ Listing(AllSlots) = SlotNumbers
  /\ \A i, j \in DOMAIN AllSlots : AllSlots[i] = AllSlots[j] => i = j
<1>1. BlockSize \in Nat /\ BlockSize > 1
  BY SizeAssumption
<1>2. /\ DOMAIN AllSlots = 1 .. (BlockSize - 1)
      /\ \A i \in 1 .. (BlockSize - 1) : AllSlots[i] = BlockSize - i
  BY <1>1 DEF AllSlots
<1>3. AllSlots \in [1 .. (BlockSize - 1) -> SlotNumbers]
  BY <1>1 DEF AllSlots, SlotNumbers
<1>4. AllSlots \in Seq(SlotNumbers) /\ Len(AllSlots) = BlockSize - 1
  BY <1>1, <1>3
<1>5. ASSUME NEW k \in SlotNumbers PROVE k \in Listing(AllSlots)
  <2>1. BlockSize - k \in DOMAIN AllSlots /\ AllSlots[BlockSize - k] = k
    BY <1>1, <1>2 DEF SlotNumbers
  <2>. QED  BY <2>1 DEF Listing
<1>6. Listing(AllSlots) \subseteq SlotNumbers
  BY <1>3 DEF Listing
<1>7. \A i, j \in DOMAIN AllSlots : AllSlots[i] = AllSlots[j] => i = j
  BY <1>1, <1>2
<1>. QED  BY <1>1, <1>4, <1>5, <1>6, <1>7

-----------------------------------------------------------------------------
(* The list of blocks.                                                         *)

\* A new block is linked first.
LEMMA Linking ==
  ASSUME ListOK, NEW p \in Pages, p \notin Linked, NewBlock(p)
  PROVE  ListOK' /\ Linked' = Linked \cup {p}
<1>1. /\ list \in Seq(Pages) /\ Len(list) \in Nat /\ DOMAIN list = 1 .. Len(list)
      /\ \A i \in DOMAIN list : list[i] \in Pages /\ list[i] # p
  BY DEF ListOK, Linked
<1>2. /\ list' \in Seq(Pages) /\ DOMAIN list' = 1 .. (Len(list) + 1)
      /\ list'[1] = p /\ \A i \in 2 .. (Len(list) + 1) : list'[i] = list[i - 1]
  BY <1>1 DEF NewBlock
<1>3. ASSUME NEW i \in DOMAIN list', NEW j \in DOMAIN list', list'[i] = list'[j]
      PROVE  i = j
  <2>1. CASE i = 1 \/ j = 1
    BY <2>1, <1>1, <1>2, <1>3
  <2>2. CASE i # 1 /\ j # 1
    <3>1. i - 1 \in DOMAIN list /\ j - 1 \in DOMAIN list /\ list[i - 1] = list[j - 1]
      BY <2>2, <1>1, <1>2, <1>3
    <3>2. i - 1 = j - 1
      BY <3>1 DEF ListOK
    <3>. QED  BY <3>2, <1>2
  <2>. QED  BY <2>1, <2>2
<1>4. ASSUME NEW q \in Linked' PROVE q \in Linked \cup {p}
  <2>1. PICK i \in DOMAIN list' : q = list'[i]
    BY <1>4 DEF Linked
  <2>2. i = 1 \/ (i - 1 \in DOMAIN list /\ q = list[i - 1])
    BY <2>1, <1>1, <1>2
  <2>. QED  BY <2>1, <2>2, <1>2 DEF Linked
<1>5. ASSUME NEW q \in Linked PROVE q \in Linked'
  <2>1. PICK i \in DOMAIN list : q = list[i]
    BY <1>5 DEF Linked
  <2>2. i + 1 \in DOMAIN list' /\ q = list'[i + 1]
    BY <2>1, <1>1, <1>2
  <2>. QED  BY <2>2 DEF Linked
<1>6. p \in Linked'
  BY <1>1, <1>2 DEF Linked
<1>7. mapped' \subseteq Pages /\ sizes' \subseteq Pages
  BY DEF NewBlock, ListOK
<1>. QED  BY <1>2, <1>3, <1>4, <1>5, <1>6, <1>7 DEF ListOK

\* A block without slots in use is unlinked, whether it is the first or not.
LEMMA Unlinking ==
  ASSUME ListOK, NEW p \in Linked, list' = Without(p), mapped' \subseteq mapped,
         sizes' = sizes
  PROVE  ListOK' /\ Linked' = Linked \ {p}
<1>. DEFINE n == CHOOSE i \in DOMAIN list : list[i] = p
            head == SubSeq(list, 1, n - 1)
            rest == SubSeq(list, n + 1, Len(list))
<1>1. /\ list \in Seq(Pages) /\ Len(list) \in Nat /\ DOMAIN list = 1 .. Len(list)
      /\ \A i \in DOMAIN list : list[i] \in Pages
  BY DEF ListOK
<1>2. n \in DOMAIN list /\ list[n] = p
  BY DEF Linked
<1>3. list' = head \o rest
  BY DEF Without, RemoveAt
<1>. HIDE DEF n
<1>4. n \in Int /\ 1 <= n /\ n <= Len(list)
  BY <1>1, <1>2
<1>5. /\ head \in Seq(Pages) /\ Len(head) = n - 1
      /\ \A i \in 1 .. (n - 1) : head[i] = list[i]
  BY <1>1, <1>4, SubSeqProperties
<1>6. /\ rest \in Seq(Pages) /\ Len(rest) = Len(list) - n
      /\ \A i \in 1 .. (Len(list) - n) : rest[i] = list[n + i]
  <2>1. n + 1 \in 1 .. Len(list) + 1 /\ Len(list) \in (n + 1) - 1 .. Len(list)
    BY <1>1, <1>4
  <2>2. /\ rest \in Seq(Pages) /\ Len(rest) = Len(list) - (n + 1) + 1
        /\ \A i \in 1 .. Len(list) - (n + 1) + 1 : rest[i] = list[(n + 1) + i - 1]
    BY <2>1, <1>1, SubSeqProperties
  <2>. HIDE DEF rest
  <2>3. (n + 1) - 1 = n /\ Len(list) - (n + 1) + 1 = Len(list) - n
    BY <1>1, <1>4
  <2>4. \A i \in 1 .. (Len(list) - n) : (n + 1) + i - 1 = n + i
    BY <1>1, <1>4
  <2>. QED  BY <2>2, <2>3, <2>4
<1>. HIDE DEF head, rest
<1>7. /\ list' \in Seq(Pages) /\ DOMAIN list' = 1 .. (Len(list) - 1)
      /\ \A i \in 1 .. (Len(list) - 1) :
           list'[i] = IF i < n THEN list[i] ELSE list[i + 1]
  <2>1. /\ list' \in Seq(Pages) /\ Len(list') = Len(head) + Len(rest)
        /\ \A i \in 1 .. (Len(head) + Len(rest)) :
             list'[i] = IF i <= Len(head) THEN head[i] ELSE rest[i - Len(head)]
    BY <1>3, <1>5, <1>6, ConcatProperties
  <2>2. Len(head) + Len(rest) = Len(list) - 1
    BY <1>1, <1>4, <1>5, <1>6
  <2>3. list' \in Seq(Pages) /\ DOMAIN list' = 1 .. (Len(list) - 1)
    BY <2>1, <2>2
  <2>4. ASSUME NEW i \in 1 .. (Len(list) - 1)
        PROVE  list'[i] = IF i < n THEN list[i] ELSE list[i + 1]
    <3>1. CASE i < n
      BY <3>1, <2>1, <2>2, <1>1, <1>4, <1>5
    <3>2. CASE ~ (i < n)
      <4>1. i - (n - 1) \in 1 .. (Len(list) - n)
        BY <3>2, <1>1, <1>4
      <4>2. list'[i] = rest[i - (n - 1)]
        BY <3>2, <2>1, <2>2, <1>1, <1>4, <1>5
      <4>. QED  BY <4>1, <4>2, <3>2, <1>1, <1>4, <1>6
    <3>. QED  BY <3>1, <3>2
  <2>. QED  BY <2>3, <2>4
<1>8. ASSUME NEW i \in DOMAIN list', NEW j \in DOMAIN list', list'[i] = list'[j]
      PROVE  i = j
  <2>. DEFINE old(l) == IF l < n THEN l ELSE l + 1
  <2>1. old(i) \in DOMAIN list /\ old(j) \in DOMAIN list /\ list[old(i)] = list[old(j)]
    BY <1>1, <1>4, <1>7, <1>8
  <2>2. old(i) = old(j)
    BY <2>1 DEF ListOK
  <2>. QED  BY <2>2, <1>4, <1>7
<1>9. ASSUME NEW q \in Linked' PROVE q \in Linked \ {p}
  <2>1. PICK i \in DOMAIN list' : q = list'[i]
    BY <1>9 DEF Linked
  <2>. DEFINE l == IF i < n THEN i ELSE i + 1
  <2>2. l \in DOMAIN list /\ q = list[l] /\ l # n
    BY <2>1, <1>1, <1>4, <1>7
  <2>3. q # p
    BY <2>2, <1>2 DEF ListOK
  <2>. QED  BY <2>2, <2>3 DEF Linked
<1>10. ASSUME NEW q \in Linked \ {p} PROVE q \in Linked'
  <2>1. PICK i \in DOMAIN list : q = list[i]
    BY <1>10 DEF Linked
  <2>. DEFINE l == IF i < n THEN i ELSE i - 1
  <2>2. i # n
    BY <2>1, <1>2
  <2>3. l \in DOMAIN list' /\ q = list'[l]
    BY <2>1, <2>2, <1>1, <1>4, <1>7
  <2>. QED  BY <2>3 DEF Linked
<1>11. mapped' \subseteq Pages /\ sizes' \subseteq Pages
  BY DEF ListOK
<1>. QED  BY <1>7, <1>8, <1>9, <1>10, <1>11 DEF ListOK

-----------------------------------------------------------------------------
(* The slots of one block.                                                     *)

\* It says what the runs check.
LEMMA WhatHolds == IInv => TypeOK /\ SlotsPartitioned /\ HeldSlotsMapped
<1>. SUFFICES ASSUME IInv PROVE TypeOK /\ SlotsPartitioned /\ HeldSlotsMapped
  OBVIOUS
<1>1. block \in [Linked -> [free : Seq(SlotNumbers), used : Nat]]
  BY DEF IInv, BlocksOK, HeaderOK
<1>2. TypeOK
  BY <1>1 DEF IInv, ListOK, GivenOK, Linked, TypeOK
<1>3. SlotsPartitioned /\ HeldSlotsMapped
  BY DEF IInv, GivenOK, BlocksOK, HeaderOK, SlotsPartitioned, HeldSlotsMapped
<1>. QED  BY <1>2, <1>3

\* A slot of page p is given: no other block has one more or one less.
LEMMA OtherBlocks ==
  ASSUME NEW p \in Pages, NEW k \in SlotNumbers, NEW q \in Pages \ {p},
         \/ DOMAIN given' = DOMAIN given \cup {p + k}
         \/ DOMAIN given' = DOMAIN given \ {p + k}
  PROVE  GivenIn(q)' = GivenIn(q)
BY SlotsApart DEF GivenIn

\* The slots page p has in use after one was taken or given back.
LEMMA ThisBlock ==
  ASSUME NEW p \in Pages, NEW k \in SlotNumbers
  PROVE  /\ DOMAIN given' = DOMAIN given \cup {p + k} => GivenIn(p)' = GivenIn(p) \cup {k}
         /\ DOMAIN given' = DOMAIN given \ {p + k} => GivenIn(p)' = GivenIn(p) \ {k}
BY SlotsApart DEF GivenIn

\* A page without a block has no slot in use.
LEMMA NoneGiven ==
  ASSUME GivenOK, NEW p \in Pages \ DOMAIN block
  PROVE  GivenIn(p) = {}
BY BlockOfSlot DEF GivenIn, GivenOK

\* Taking the first slot of a free list.
LEMMA TakeKeeps ==
  ASSUME NEW p \in Pages, NEW o \in Origins, NEW used \in Nat, NEW f \in Seq(SlotNumbers),
         ListOK', DOMAIN block \cup {p} = Linked', GivenOK,
         mapped \subseteq mapped', sizes \subseteq sizes', p \in mapped' \cap sizes',
         f # <<>>, \A i, j \in DOMAIN f : f[i] = f[j] => i = j,
         Listing(f) = SlotNumbers \ GivenIn(p), Len(f) + used = BlockSize - 1,
         used = Cardinality(GivenIn(p)),
         \A q \in DOMAIN block \ {p} : HeaderOK(q),
         Take(p, f, used, o)
  PROVE  IInv'
<1>. DEFINE k == Head(f)
<1>1. /\ k \in SlotNumbers /\ Tail(f) \in Seq(SlotNumbers) /\ Len(Tail(f)) = Len(f) - 1
      /\ Listing(Tail(f)) = Listing(f) \ {k} /\ k \in Listing(f)
      /\ \A i, j \in DOMAIN Tail(f) : Tail(f)[i] = Tail(f)[j] => i = j
  BY TailOf
<1>2. /\ DOMAIN given' = DOMAIN given \cup {p + k} /\ given' \in [DOMAIN given' -> Origins]
      /\ p + k \in Addresses /\ BlockOf(p + k) = p
  BY <1>1, BlockOfSlot DEF Take, GivenOK
<1>3. /\ DOMAIN block' = DOMAIN block \cup {p}
      /\ block' = [q \in DOMAIN block' |-> block'[q]]
      /\ block'[p] = [free |-> Tail(f), used |-> used + 1]
      /\ \A q \in DOMAIN block \ {p} : block'[q] = block[q]
  BY DEF Take
<1>. HIDE DEF k
<1>4. GivenOK'
  BY <1>2, <1>3 DEF GivenOK
<1>5. HeaderOK(p)'
  <2>1. GivenIn(p)' = GivenIn(p) \cup {k} /\ k \notin GivenIn(p)
    BY <1>1, <1>2, ThisBlock
  <2>2. Cardinality(GivenIn(p)') = used + 1
    BY ZenonT(30), <2>1, GivenInFinite, FS_AddElement
  <2>3. FreeSlots(p)' = SlotNumbers \ GivenIn(p)'
    <3>1. FreeSlots(p)' = Listing(Tail(f))
      BY <1>3 DEF FreeSlots, Listing
    <3>. QED  BY <3>1, <1>1, <2>1
  <2>4. Len(Tail(f)) + (used + 1) = BlockSize - 1
    BY <1>1, SizeAssumption
  <2>5. block'[p] \in [free : Seq(SlotNumbers), used : Nat]
    BY <1>1, <1>3
  <2>6. \A i, j \in DOMAIN block'[p].free : block'[p].free[i] = block'[p].free[j] => i = j
    BY <1>1, <1>3
  <2>7. /\ Len(block'[p].free) + block'[p].used = BlockSize - 1
        /\ block'[p].used = Cardinality(GivenIn(p)')
    BY <1>3, <2>2, <2>4
  <2>. QED  BY <2>1, <2>3, <2>5, <2>6, <2>7 DEF HeaderOK
<1>6. ASSUME NEW q \in DOMAIN block \ {p} PROVE HeaderOK(q)'
  <2>1. q \in Pages
    BY <1>6 DEF Linked, ListOK
  <2>2. GivenIn(q)' = GivenIn(q)
    BY <1>1, <1>2, <2>1, OtherBlocks
  <2>3. FreeSlots(q)' = FreeSlots(q)
    BY <1>3, <1>6 DEF FreeSlots
  <2>. QED  BY <1>3, <2>2, <2>3 DEF HeaderOK
<1>7. BlocksOK'
  BY <1>3, <1>5, <1>6 DEF BlocksOK
<1>. QED  BY <1>4, <1>7 DEF IInv

\* A block of the list gives its first free slot.
LEMMA TakingKeepsIInv ==
  ASSUME IInv, NEW o \in Origins, NEW i \in Candidates(o),
         Take(list[i], block[list[i]].free, block[list[i]].used, o),
         UNCHANGED <<list, mapped, sizes>>
  PROVE  IInv'
<1>. DEFINE p == list[i]
<1>1. p \in Linked /\ p \in Pages /\ p \in DOMAIN block /\ block[p].free # <<>>
  BY DEF Candidates, Linked, IInv, ListOK, BlocksOK
<1>2. HeaderOK(p)
  BY <1>1 DEF IInv, BlocksOK
<1>. HIDE DEF p
<1>3. ListOK' /\ Linked' = Linked
  BY DEF IInv, ListOK, Linked
<1>4. DOMAIN block \cup {p} = Linked'
  BY <1>1, <1>3 DEF IInv, BlocksOK
<1>5. Listing(block[p].free) = SlotNumbers \ GivenIn(p)
  BY <1>2 DEF HeaderOK, FreeSlots, Listing
<1>6. /\ block[p].free \in Seq(SlotNumbers) /\ block[p].used \in Nat
      /\ \A a, b \in DOMAIN block[p].free : block[p].free[a] = block[p].free[b] => a = b
      /\ Len(block[p].free) + block[p].used = BlockSize - 1
      /\ block[p].used = Cardinality(GivenIn(p)) /\ p \in mapped \cap sizes
  BY <1>2 DEF HeaderOK
<1>7. Take(p, block[p].free, block[p].used, o)
  BY DEF p
<1>8. GivenOK /\ \A q \in DOMAIN block \ {p} : HeaderOK(q)
  BY DEF IInv, BlocksOK
<1>. QED  BY <1>1, <1>3, <1>4, <1>5, <1>6, <1>7, <1>8, TakeKeeps

\* A new block gives its first slot.
LEMMA MappingKeepsIInv ==
  ASSUME IInv, NEW o \in Origins, NEW p \in Pages \ mapped, NewBlock(p),
         Take(p, AllSlots, 0, o)
  PROVE  IInv'
<1>1. p \notin DOMAIN block /\ p \notin Linked
  BY DEF IInv, BlocksOK, HeaderOK
<1>2. ListOK' /\ Linked' = Linked \cup {p}
  BY <1>1, Linking DEF IInv
<1>3. DOMAIN block \cup {p} = Linked'
  BY <1>2 DEF IInv, BlocksOK
<1>4. GivenIn(p) = {}
  BY <1>1, NoneGiven DEF IInv
<1>5. 0 = Cardinality(GivenIn(p)) /\ Listing(AllSlots) = SlotNumbers \ GivenIn(p)
  BY <1>4, FS_EmptySet, AllSlotsListed
<1>6. Len(AllSlots) + 0 = BlockSize - 1
  BY AllSlotsListed, SizeAssumption
<1>7. mapped \subseteq mapped' /\ sizes \subseteq sizes' /\ p \in mapped' \cap sizes'
  BY DEF NewBlock
<1>8. GivenOK /\ \A q \in DOMAIN block \ {p} : HeaderOK(q)
  BY DEF IInv, BlocksOK
<1>. QED  BY <1>2, <1>3, <1>5, <1>6, <1>7, <1>8, AllSlotsListed, TakeKeeps

LEMMA StutteringKeepsIInv ==
  ASSUME IInv, UNCHANGED vars
  PROVE  IInv'
<1>1. UNCHANGED <<list, block, mapped, sizes, given>>
  BY DEF vars
<1>2. ListOK' /\ Linked' = Linked
  BY <1>1 DEF IInv, ListOK, Linked
<1>3. GivenOK'
  BY <1>1 DEF IInv, GivenOK
<1>4. ASSUME NEW q \in DOMAIN block PROVE HeaderOK(q)'
  <2>1. FreeSlots(q)' = FreeSlots(q) /\ GivenIn(q)' = GivenIn(q)
    BY <1>1 DEF FreeSlots, GivenIn
  <2>. QED  BY <1>1, <1>4, <2>1 DEF IInv, BlocksOK, HeaderOK
<1>5. BlocksOK'
  BY <1>1, <1>2, <1>4 DEF IInv, BlocksOK
<1>. QED  BY <1>2, <1>3, <1>5 DEF IInv

LEMMA AllocateBufferKeepsIInv ==
  ASSUME IInv, NEW o \in Origins, AllocateBuffer(o)
  PROVE  IInv'
<1>1. CASE \E i \in Candidates(o) :
             /\ Take(list[i], block[list[i]].free, block[list[i]].used, o)
             /\ UNCHANGED <<list, mapped, sizes>>
  BY <1>1, TakingKeepsIInv
<1>2. CASE \E p \in Pages \ mapped : NewBlock(p) /\ Take(p, AllSlots, 0, o)
  BY <1>2, MappingKeepsIInv
<1>3. CASE UNCHANGED vars
  BY <1>3, StutteringKeepsIInv
<1>. QED  BY <1>1, <1>2, <1>3 DEF AllocateBuffer

\* A slot comes back, to the front of its block's free list or with its block.
LEMMA FreeBufferKeepsIInv ==
  ASSUME IInv, NEW s \in DOMAIN given, FreeBuffer(s)
  PROVE  IInv'
<1>. DEFINE p == BlockOf(s)
            k == s - p
<1>1. /\ p \in Pages /\ k \in SlotNumbers /\ s = p + k /\ p \in DOMAIN block /\ p \in Linked
      /\ k \in GivenIn(p)
  <2>1. p \in Pages /\ k \in SlotNumbers /\ s = p + k
    BY AddressParts DEF IInv, GivenOK
  <2>2. p \in DOMAIN block /\ p \in Linked
    BY DEF IInv, GivenOK, BlocksOK
  <2>. QED  BY <2>1, <2>2 DEF GivenIn
<1>2. HeaderOK(p)
  BY <1>1 DEF IInv, BlocksOK
<1>3. /\ DOMAIN given' = DOMAIN given \ {p + k} /\ given' \in [DOMAIN given' -> Origins]
      /\ DOMAIN given' \subseteq Addresses /\ sizes' = sizes
  BY <1>1 DEF FreeBuffer, IInv, GivenOK
<1>4. GivenIn(p)' = GivenIn(p) \ {k}
  BY <1>1, <1>3, ThisBlock
<1>5. Cardinality(GivenIn(p)') = block[p].used - 1 /\ IsFiniteSet(GivenIn(p)')
  BY <1>1, <1>2, <1>4, GivenInFinite, FS_RemoveElement DEF HeaderOK
<1>6. \A q \in Linked \ {p} : q \in Pages /\ GivenIn(q)' = GivenIn(q)
  BY <1>1, <1>3, OtherBlocks DEF Linked, IInv, ListOK
<1>. HIDE DEF k
<1>7. CASE /\ block[p].used # 1
           /\ block' = [block EXCEPT ![p].free = <<k>> \o @, ![p].used = @ - 1]
           /\ UNCHANGED <<list, mapped>>
  <2>. HIDE DEF p
  <2>1. /\ DOMAIN block' = DOMAIN block
        /\ block'[p] = [free |-> <<k>> \o block[p].free, used |-> block[p].used - 1]
        /\ block' = [q \in DOMAIN block' |-> block'[q]]
        /\ \A q \in DOMAIN block \ {p} : block'[q] = block[q]
    BY <1>1, <1>2, <1>7 DEF IInv, BlocksOK, HeaderOK
  <2>2. k \notin Listing(block[p].free)
    BY <1>1, <1>2 DEF HeaderOK, FreeSlots, Listing
  <2>3. /\ block'[p].free \in Seq(SlotNumbers)
        /\ Len(block'[p].free) = Len(block[p].free) + 1
        /\ Listing(block'[p].free) = Listing(block[p].free) \cup {k}
        /\ \A i, j \in DOMAIN block'[p].free :
             block'[p].free[i] = block'[p].free[j] => i = j
    BY SMTT(20), <1>1, <1>2, <2>1, <2>2, PushOn DEF HeaderOK
  <2>4. HeaderOK(p)'
    <3>1. FreeSlots(p)' = SlotNumbers \ GivenIn(p)'
      <4>1. FreeSlots(p)' = Listing(block'[p].free) /\ FreeSlots(p) = Listing(block[p].free)
        BY DEF FreeSlots, Listing
      <4>2. FreeSlots(p)' = FreeSlots(p) \cup {k}
        BY <4>1, <2>3
      <4>3. FreeSlots(p) = SlotNumbers \ GivenIn(p)
        BY <1>2 DEF HeaderOK
      <4>. QED  BY <4>2, <4>3, <1>1, <1>4
    <3>2. block[p].used \in Nat /\ Len(block[p].free) \in Nat /\ block[p].used # 0
      BY <1>1, <1>2, GivenInFinite, FS_EmptySet DEF HeaderOK
    <3>3. GivenIn(p)' # {}
      BY <1>5, <1>7, <3>2, FS_EmptySet
    <3>4. /\ Len(block'[p].free) + block'[p].used = BlockSize - 1
          /\ block'[p].used = Cardinality(GivenIn(p)') /\ block'[p].used \in Nat
      BY <1>2, <1>5, <2>1, <2>3, <3>2 DEF HeaderOK
    <3>5. block'[p] \in [free : Seq(SlotNumbers), used : Nat]
      BY <2>1, <2>3, <3>4
    <3>6. p \in mapped' \cap sizes'
      BY <1>2, <1>3, <1>7 DEF HeaderOK
    <3>. QED  BY <2>3, <3>1, <3>3, <3>4, <3>5, <3>6 DEF HeaderOK
  <2>5. ASSUME NEW q \in DOMAIN block \ {p} PROVE HeaderOK(q)'
    <3>1. GivenIn(q)' = GivenIn(q) /\ HeaderOK(q)
      BY <1>6, <2>5 DEF IInv, BlocksOK
    <3>2. FreeSlots(q)' = FreeSlots(q)
      BY <2>1, <2>5 DEF FreeSlots
    <3>. QED  BY <1>3, <1>7, <2>1, <2>5, <3>1, <3>2 DEF HeaderOK
  <2>6. ListOK' /\ Linked' = Linked
    BY <1>3, <1>7 DEF IInv, ListOK, Linked
  <2>7. GivenOK'
    BY <1>3, <2>1 DEF IInv, GivenOK
  <2>8. BlocksOK'
    BY <2>1, <2>4, <2>5, <2>6 DEF IInv, BlocksOK
  <2>. QED  BY <2>6, <2>7, <2>8 DEF IInv
<1>8. CASE /\ block[p].used = 1
           /\ block' = [q \in DOMAIN block \ {p} |-> block[q]]
           /\ list' = Without(p) /\ mapped' \in Unmapped({p})
  <2>1. /\ mapped' \subseteq mapped /\ \A q \in mapped \ {p} : q \in mapped'
    BY <1>8 DEF Unmapped
  <2>2. ListOK' /\ Linked' = Linked \ {p}
    BY <1>1, <1>3, <1>8, <2>1, Unlinking DEF IInv
  <2>3. GivenIn(p)' = {}
    BY <1>5, <1>8, FS_EmptySet
  <2>4. ASSUME NEW t \in DOMAIN given' PROVE BlockOf(t) # p
    <3>1. PICK l \in SlotNumbers : t = BlockOf(t) + l
      BY <1>3, <2>4, AddressParts
    <3>. QED  BY <2>3, <2>4, <3>1 DEF GivenIn
  <2>. HIDE DEF p
  <2>5. GivenOK'
    BY <1>3, <1>8, <2>4 DEF IInv, GivenOK
  <2>6. ASSUME NEW q \in DOMAIN block \ {p} PROVE HeaderOK(q)'
    <3>1. GivenIn(q)' = GivenIn(q) /\ HeaderOK(q)
      BY <1>6, <2>6 DEF IInv, BlocksOK
    <3>2. block'[q] = block[q] /\ FreeSlots(q)' = FreeSlots(q)
      BY <1>8, <2>6 DEF FreeSlots
    <3>. QED  BY <1>3, <2>1, <2>6, <3>1, <3>2 DEF HeaderOK
  <2>7. BlocksOK'
    BY <1>8, <2>2, <2>6 DEF IInv, BlocksOK
  <2>. QED  BY <2>2, <2>5, <2>7 DEF IInv
<1>. QED  BY <1>1, <1>7, <1>8 DEF FreeBuffer, k

LEMMA UninitializeBufferKeepsIInv ==
  ASSUME IInv, UninitializeBuffer
  PROVE  IInv'
<1>1. list' = <<>> /\ mapped' \subseteq mapped /\ sizes' = sizes
  BY DEF UninitializeBuffer, Unmapped
<1>2. DOMAIN block' = {} /\ DOMAIN given' = {}
  BY DEF UninitializeBuffer
<1>3. ListOK' /\ Linked' = {}
  BY <1>1 DEF IInv, ListOK, Linked
<1>4. GivenOK'
  BY <1>2 DEF UninitializeBuffer, GivenOK
<1>5. BlocksOK'
  BY <1>2, <1>3 DEF UninitializeBuffer, BlocksOK
<1>. QED  BY <1>3, <1>4, <1>5 DEF IInv

LEMMA InitIInv == Init => IInv
<1>. SUFFICES ASSUME Init PROVE IInv
  OBVIOUS
<1>1. list = <<>> /\ mapped = {} /\ sizes = {} /\ DOMAIN block = {} /\ DOMAIN given = {}
  BY DEF Init
<1>2. ListOK /\ Linked = {}
  BY <1>1 DEF ListOK, Linked
<1>3. GivenOK /\ BlocksOK
  BY <1>1, <1>2 DEF Init, GivenOK, BlocksOK
<1>. QED  BY <1>2, <1>3 DEF IInv

LEMMA NextIInv == IInv /\ [Next]_vars => IInv'
<1>. SUFFICES ASSUME IInv, [Next]_vars PROVE IInv'
  OBVIOUS
<1>1. CASE \E o \in Origins : AllocateBuffer(o)
  BY <1>1, AllocateBufferKeepsIInv
<1>2. CASE \E s \in DOMAIN given : FreeBuffer(s)
  BY <1>2, FreeBufferKeepsIInv
<1>3. CASE UninitializeBuffer
  BY <1>3, UninitializeBufferKeepsIInv
<1>4. CASE UNCHANGED vars
  BY <1>4, StutteringKeepsIInv
<1>. QED  BY <1>1, <1>2, <1>3, <1>4 DEF Next

\* For any pages, origins, ranges and block size, in every reachable state.
THEOREM Invariants == Spec => []IInv
<1>1. Init => IInv
  BY InitIInv
<1>2. IInv /\ [Next]_vars => IInv'
  BY NextIInv
<1>. QED  BY <1>1, <1>2, PTL DEF Spec

\* Every variable has its type, and headers exist for exactly the blocks of the list.
THEOREM TypeCorrect == Spec => []TypeOK
BY Invariants, WhatHolds, PTL

\* AllocateBuffer and FreeBuffer lose no slot, list none twice, hand out none in use, and
\* count right.
THEOREM SlotsArePartitioned == Spec => []SlotsPartitioned
BY Invariants, WhatHolds, PTL

\* FreeBuffer unmaps no block with a slot in use, and keeps none without.
THEOREM HeldSlotsAreMapped == Spec => []HeldSlotsMapped
BY Invariants, WhatHolds, PTL
-----------------------------------------------------------------------------
(* The range of a jump.                                                        *)

\* A block near an origin has all its slots in reach.
LEMMA NearIsReachable ==
  ASSUME NEW p \in Pages, NEW o \in Origins, NEW k \in SlotNumbers, Near(p, o)
  PROVE  Reachable(p + k, o)
<1>1. /\ p \in Nat /\ o \in Nat /\ k \in Nat /\ k <= BlockSize - 1 /\ BlockSize \in Nat
      /\ MaxRange \in Nat /\ MinAddress \in Nat /\ MaxAddress \in Nat
  BY SizeAssumption DEF SlotNumbers
<1>2. o - MaxRange <= p
  BY <1>1 DEF Near, Lowest
<1>3. p < (o + MaxRange) - (BlockSize - 1)
  BY <1>1 DEF Near, Highest
<1>. QED  BY <1>1, <1>2, <1>3 DEF Reachable

\* The walk over the registered blocks in GetMemoryBlock takes one whose every slot is
\* within MAX_MEMORY_RANGE of the function to be hooked.
THEOREM ReusedAreReachable == Spec => ReusedSlotsReachable
<1>. DEFINE Reach == \A s \in DOMAIN given' \ DOMAIN given :
                       BlockOf(s) \in DOMAIN block => Reachable(s, given'[s])
<1>1. IInv /\ [Next]_vars => [Reach]_vars
  <2>. SUFFICES ASSUME IInv, Next, NEW s \in DOMAIN given' \ DOMAIN given,
                       BlockOf(s) \in DOMAIN block
                PROVE  Reachable(s, given'[s])
    OBVIOUS
  <2>1. PICK o \in Origins : AllocateBuffer(o)
    BY DEF Next, FreeBuffer, UninitializeBuffer
  <2>2. CASE \E i \in Candidates(o) :
               Take(list[i], block[list[i]].free, block[list[i]].used, o)
    <3>1. PICK i \in Candidates(o) :
                 Take(list[i], block[list[i]].free, block[list[i]].used, o)
      BY <2>2
    <3>. DEFINE p == list[i]
                f == block[p].free
    <3>2. p \in DOMAIN block /\ p \in Pages /\ Near(p, o) /\ f # <<>>
      BY DEF Candidates, IInv, ListOK, BlocksOK, Linked
    <3>3. Head(f) \in SlotNumbers
      BY <3>2 DEF IInv, BlocksOK, HeaderOK
    <3>4. s = p + Head(f) /\ given'[s] = o
      BY <3>1 DEF Take
    <3>. QED  BY <3>2, <3>3, <3>4, NearIsReachable
  <2>3. CASE \E p \in Pages \ mapped : Take(p, AllSlots, 0, o)
    <3>1. PICK p \in Pages \ mapped : Take(p, AllSlots, 0, o)
      BY <2>3
    <3>2. Head(AllSlots) \in SlotNumbers
      BY AllSlotsListed
    <3>3. s = p + Head(AllSlots)
      BY <3>1 DEF Take
    <3>4. BlockOf(s) = p
      BY <3>2, <3>3, BlockOfSlot
    <3>. QED  BY <3>4 DEF IInv, BlocksOK, HeaderOK
  <2>4. CASE UNCHANGED vars
    BY <2>4 DEF vars
  <2>. QED  BY <2>1, <2>2, <2>3, <2>4 DEF AllocateBuffer
<1>. QED  BY <1>1, Invariants, PTL DEF Spec, ReusedSlotsReachable
-----------------------------------------------------------------------------
(* The pool that module MinHook takes the allocator to be.                     *)

\* What is not on a free list is what the callers hold.
LEMMA InUseIsGiven == IInv => InUse = DOMAIN given
<1>. SUFFICES ASSUME IInv PROVE InUse = DOMAIN given
  OBVIOUS
<1>1. ASSUME NEW s \in Addresses PROVE s \in InUse <=> s \in DOMAIN given
  <2>1. PICK k \in SlotNumbers :
               BlockOf(s) \in Pages /\ s = BlockOf(s) + k /\ s - BlockOf(s) = k
    BY AddressParts
  <2>2. s \in DOMAIN given <=> k \in GivenIn(BlockOf(s))
    BY <2>1 DEF GivenIn
  <2>3. CASE BlockOf(s) \in DOMAIN block
    <3>1. FreeSlots(BlockOf(s)) = SlotNumbers \ GivenIn(BlockOf(s))
      BY <2>3 DEF IInv, BlocksOK, HeaderOK
    <3>2. s \in InUse <=> k \notin FreeSlots(BlockOf(s))
      BY <2>1, <2>3 DEF InUse
    <3>. QED  BY <2>2, <3>1, <3>2
  <2>4. CASE BlockOf(s) \notin DOMAIN block
    BY <2>4 DEF InUse, IInv, GivenOK
  <2>. QED  BY <2>3, <2>4
<1>2. InUse \subseteq Addresses /\ DOMAIN given \subseteq Addresses
  BY DEF InUse, IInv, GivenOK
<1>. QED  BY <1>1, <1>2

\* The slot that is taken was given to nobody.
LEMMA TakesOne ==
  ASSUME NEW p \in Pages, NEW f, NEW used, NEW o, Head(f) \in SlotNumbers,
         Head(f) \notin GivenIn(p), Take(p, f, used, o)
  PROVE  \E s \in Addresses \ DOMAIN given : DOMAIN given' = DOMAIN given \cup {s}
<1>1. p + Head(f) \in Addresses \ DOMAIN given
  BY BlockOfSlot DEF GivenIn
<1>2. DOMAIN given' = DOMAIN given \cup {p + Head(f)}
  BY DEF Take
<1>. QED  BY <1>1, <1>2

\* Every step of the allocator is a step of the pool, or none.
LEMMA StepOfPool ==
  ASSUME IInv, [Next]_vars
  PROVE  \/ \E s \in Addresses \ DOMAIN given : DOMAIN given' = DOMAIN given \cup {s}
         \/ \E s \in DOMAIN given : DOMAIN given' = DOMAIN given \ {s}
         \/ DOMAIN given' = {}
         \/ DOMAIN given' = DOMAIN given
<1>1. ASSUME NEW o \in Origins, NEW i \in Candidates(o),
             Take(list[i], block[list[i]].free, block[list[i]].used, o)
      PROVE  \E s \in Addresses \ DOMAIN given : DOMAIN given' = DOMAIN given \cup {s}
  <2>. DEFINE p == list[i]
              f == block[p].free
  <2>1. p \in DOMAIN block /\ p \in Pages /\ f # <<>>
    BY DEF Candidates, IInv, ListOK, BlocksOK, Linked
  <2>2. HeaderOK(p)
    BY <2>1 DEF IInv, BlocksOK
  <2>3. Head(f) \in SlotNumbers /\ Head(f) \in Listing(f)
    BY <2>1, <2>2, TailOf DEF HeaderOK
  <2>4. Head(f) \notin GivenIn(p)
    BY <2>2, <2>3 DEF HeaderOK, FreeSlots, Listing
  <2>. QED  BY <1>1, <2>1, <2>3, <2>4, TakesOne
<1>2. ASSUME NEW o \in Origins, NEW p \in Pages \ mapped, Take(p, AllSlots, 0, o)
      PROVE  \E s \in Addresses \ DOMAIN given : DOMAIN given' = DOMAIN given \cup {s}
  <2>1. p \notin DOMAIN block
    BY DEF IInv, BlocksOK, HeaderOK
  <2>2. GivenIn(p) = {}
    BY <2>1, NoneGiven DEF IInv
  <2>3. Head(AllSlots) \in SlotNumbers
    BY AllSlotsListed
  <2>. QED  BY <1>2, <2>2, <2>3, TakesOne
<1>3. ASSUME NEW s \in DOMAIN given, FreeBuffer(s)
      PROVE  DOMAIN given' = DOMAIN given \ {s}
  BY <1>3 DEF FreeBuffer
<1>4. ASSUME UninitializeBuffer PROVE DOMAIN given' = {}
  BY <1>4 DEF UninitializeBuffer
<1>. QED  BY <1>1, <1>2, <1>3, <1>4 DEF Next, AllocateBuffer, vars

\* AllocateBuffer hands out one slot nobody has, FreeBuffer gives back one and
\* UninitializeBuffer all, which is what module MinHook builds on.
THEOREM RefinesPool == Spec => ImplementsPool
<1>1. Init => Pool!PoolInit
  <2>. SUFFICES ASSUME Init PROVE InUse = {}
    BY DEF Pool!PoolInit
  <2>. QED  BY InitIInv, InUseIsGiven DEF Init
<1>2. /\ IInv /\ InUse = DOMAIN given /\ (InUse = DOMAIN given)' /\ [Next]_vars
      => [Pool!Take \/ Pool!GiveBack \/ Pool!GiveBackAll]_InUse
  BY StepOfPool DEF Pool!Take, Pool!GiveBack, Pool!GiveBackAll
<1>. QED  BY <1>1, <1>2, Invariants, InUseIsGiven, PTL
          DEF Spec, ImplementsPool, Pool!PoolSpec
==============================================================================
