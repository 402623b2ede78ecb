---------------------------- MODULE HookHeap_proofs ----------------------------
(***************************************************************************)
(* HookHeap, for any number of hooks and threads, any capacities and sizes *)
(* and any heap: the two arrays keep what was put in them and own what is  *)
(* on the heap, through growing, shrinking, refusals and shutdowns.        *)
(***************************************************************************)
EXTENDS HookHeap, FiniteSetTheorems, TLAPS

Elements == Hooks \cup Nat \cup {Garbage}

\* Copies are right, since the heap tells the sizes of its blocks or is too small for them.
Safe == honest \/ room <= OnePage
TooSmall == ~ honest /\ room <= OnePage

-----------------------------------------------------------------------------
(* Blocks.                                                                     *)

\* A block of n elements.
IsBlock(B, b, unit, n) ==
  b \in DOMAIN B /\ B[b] \in [unit: {unit}, data: [1 .. n -> Elements]]

\* Every block holds elements of some size, and they fit the heap.
BlocksOK(B) ==
  /\ DOMAIN B \subseteq Blocks
  /\ \A b \in DOMAIN B : \E unit \in Nat, n \in Nat : IsBlock(B, b, unit, n)
  /\ room \in Nat /\ Bytes(B) <= room

\* The bytes of a block.
LEMMA BlockBytes ==
  ASSUME NEW B, NEW b, NEW unit \in Nat, NEW n \in Nat, IsBlock(B, b, unit, n)
  PROVE  /\ Len(B[b].data) = n /\ BytesOf(B, b) = unit * n /\ BytesOf(B, b) \in Nat
<1>1. Len(B[b].data) = n
  BY DEF IsBlock
<1>2. BytesOf(B, b) = unit * n
  BY <1>1 DEF BytesOf, IsBlock
<1>3. unit * n \in Nat
  OBVIOUS
<1>. QED  BY <1>1, <1>2, <1>3

LEMMA BytesAreNat ==
  ASSUME NEW B, \A b \in DOMAIN B : \E unit \in Nat, n \in Nat : IsBlock(B, b, unit, n)
  PROVE  (\A b : BytesOf(B, b) \in Nat) /\ Bytes(B) \in Nat
<1>1. ASSUME NEW b PROVE BytesOf(B, b) \in Nat
  <2>1. CASE b \in DOMAIN B
    BY <2>1, BlockBytes
  <2>2. CASE b \notin DOMAIN B
    BY <2>2 DEF BytesOf
  <2>. QED  BY <2>1, <2>2
<1>2. BytesOf(B, 1) \in Nat /\ BytesOf(B, 2) \in Nat /\ BytesOf(B, 3) \in Nat
  BY <1>1
<1>. QED  BY <1>1, <1>2 DEF Bytes

\* Distinct blocks take their room side by side.
LEMMA BytesAddUp ==
  ASSUME NEW B, \A b : BytesOf(B, b) \in Nat,
         NEW b \in Blocks, NEW c \in Blocks, NEW d \in Blocks, b # c, b # d, c # d
  PROVE  BytesOf(B, b) + BytesOf(B, c) + BytesOf(B, d) = Bytes(B)
<1>. DEFINE f1 == BytesOf(B, 1)
            f2 == BytesOf(B, 2)
            f3 == BytesOf(B, 3)
<1>1. f1 \in Nat /\ f2 \in Nat /\ f3 \in Nat
  OBVIOUS
<1>2. b \in {1, 2, 3} /\ c \in {1, 2, 3} /\ d \in {1, 2, 3}
  BY DEF Blocks
<1>3. Bytes(B) = f1 + f2 + f3
  BY DEF Bytes
<1>. QED  BY <1>1, <1>2, <1>3

\* Fewer or shorter blocks take less room.
LEMMA BytesShrink ==
  ASSUME NEW B, NEW C, \A b : BytesOf(B, b) \in Nat /\ BytesOf(C, b) \in Nat,
         \A b \in Blocks : BytesOf(C, b) <= BytesOf(B, b)
  PROVE  Bytes(C) <= Bytes(B)
<1>1. /\ BytesOf(B, 1) \in Nat /\ BytesOf(B, 2) \in Nat /\ BytesOf(B, 3) \in Nat
      /\ BytesOf(C, 1) \in Nat /\ BytesOf(C, 2) \in Nat /\ BytesOf(C, 3) \in Nat
      /\ BytesOf(C, 1) <= BytesOf(B, 1) /\ BytesOf(C, 2) <= BytesOf(B, 2)
      /\ BytesOf(C, 3) <= BytesOf(B, 3)
  BY DEF Blocks
<1>. QED  BY <1>1 DEF Bytes

-----------------------------------------------------------------------------
(* The functions of the heap.                                                  *)

\* HeapAlloc and the first half of HeapReAlloc: nothing, or a new block.
LEMMA MallocSpec ==
  ASSUME NEW B, BlocksOK(B), NEW unit \in Nat, NEW n \in Nat,
         NEW data \in [1 .. n -> Elements],
         \E b \in Blocks : b \notin DOMAIN B,
         NEW r \in Malloc(B, unit, data)
  PROVE  \/ r = Given(NULL, B)
         \/ /\ r.pItems \in Blocks \ DOMAIN B
            /\ DOMAIN r.blocks = DOMAIN B \cup {r.pItems}
            /\ r.blocks[r.pItems] = [unit |-> unit, data |-> data]
            /\ \A b \in DOMAIN B : r.blocks[b] = B[b]
            /\ IsBlock(r.blocks, r.pItems, unit, n)
            /\ BlocksOK(r.blocks)
<1>. DEFINE new == CHOOSE b \in Blocks : b \notin DOMAIN B
            more == [b \in DOMAIN B \cup {new} |->
                       IF b = new THEN [unit |-> unit, data |-> data] ELSE B[b]]
<1>1. new \in Blocks /\ new \notin DOMAIN B
  OBVIOUS
<1>. HIDE DEF new
<1>2. /\ DOMAIN more = DOMAIN B \cup {new}
      /\ more[new] = [unit |-> unit, data |-> data]
      /\ \A b \in DOMAIN B : more[b] = B[b]
  BY <1>1
<1>3. r = Given(NULL, B) \/ (r = Given(new, more) /\ Bytes(more) <= room)
  BY DEF Malloc, new
<1>. HIDE DEF more
<1>4. CASE r = Given(new, more) /\ Bytes(more) <= room
  <2>1. r.pItems = new /\ r.blocks = more
    BY <1>4 DEF Given
  <2>2. IsBlock(more, new, unit, n)
    BY <1>2 DEF IsBlock
  <2>3. ASSUME NEW b \in DOMAIN more PROVE \E u \in Nat, k \in Nat : IsBlock(more, b, u, k)
    <3>1. CASE b = new
      BY <2>2, <3>1
    <3>2. CASE b \in DOMAIN B
      <4>1. PICK u \in Nat, k \in Nat : IsBlock(B, b, u, k)
        BY <3>2 DEF BlocksOK
      <4>2. IsBlock(more, b, u, k)
        BY <1>2, <3>2, <4>1 DEF IsBlock
      <4>. QED  BY <4>2
    <3>. QED  BY <1>2, <3>1, <3>2
  <2>4. BlocksOK(more)
    BY <1>1, <1>2, <1>4, <2>3 DEF BlocksOK
  <2>. QED  BY <1>1, <1>2, <2>1, <2>2, <2>4
<1>. QED  BY <1>3, <1>4

\* Giving a block back.
LEMMA FreeSpec ==
  ASSUME NEW B, BlocksOK(B), NEW p
  PROVE  /\ DOMAIN HeapFree(B, p) = DOMAIN B \ {p}
         /\ \A b \in DOMAIN B \ {p} : HeapFree(B, p)[b] = B[b]
         /\ BlocksOK(HeapFree(B, p))
<1>. DEFINE C == HeapFree(B, p)
<1>1. DOMAIN C = DOMAIN B \ {p} /\ \A b \in DOMAIN B \ {p} : C[b] = B[b]
  BY DEF HeapFree, Restrict
<1>. HIDE DEF C
<1>2. ASSUME NEW b \in DOMAIN C PROVE \E u \in Nat, k \in Nat : IsBlock(C, b, u, k)
  <2>1. PICK u \in Nat, k \in Nat : IsBlock(B, b, u, k)
    BY <1>1 DEF BlocksOK
  <2>2. IsBlock(C, b, u, k)
    BY <1>1, <2>1 DEF IsBlock
  <2>. QED  BY <2>2
<1>3. (\A b : BytesOf(B, b) \in Nat /\ BytesOf(C, b) \in Nat)
      /\ Bytes(B) \in Nat /\ Bytes(C) \in Nat
  BY <1>2, BytesAreNat DEF BlocksOK
<1>4. ASSUME NEW b \in Blocks PROVE BytesOf(C, b) <= BytesOf(B, b)
  <2>1. CASE b \in DOMAIN C
    <3>1. BytesOf(C, b) = BytesOf(B, b)
      BY <1>1, <2>1 DEF BytesOf
    <3>. QED  BY <1>3, <3>1
  <2>2. CASE b \notin DOMAIN C
    <3>1. BytesOf(C, b) = 0
      BY <2>2 DEF BytesOf
    <3>. QED  BY <1>3, <3>1
  <2>. QED  BY <2>1, <2>2
<1>5. Bytes(C) <= Bytes(B)
  BY <1>3, <1>4, BytesShrink
<1>6. room \in Nat => Bytes(C) <= room
  BY <1>3, <1>5 DEF BlocksOK
<1>. QED  BY <1>1, <1>2, <1>6 DEF BlocksOK, C

\* Writing an element of a block.
LEMMA StoredSpec ==
  ASSUME NEW B, NEW p, NEW unit \in Nat, NEW n \in Nat, IsBlock(B, p, unit, n),
         BlocksOK(B), NEW i \in 1 .. n, NEW element \in Elements,
         NEW C, C = Stored(B, p, i, element)
  PROVE  /\ DOMAIN C = DOMAIN B
         /\ \A b \in DOMAIN B \ {p} : C[b] = B[b]
         /\ IsBlock(C, p, unit, n)
         /\ \A j \in 1 .. n : C[p].data[j] = IF j = i THEN element ELSE B[p].data[j]
         /\ BlocksOK(C)
<1>. DEFINE data == [B[p].data EXCEPT ![i] = element]
            block == [B[p] EXCEPT !.data = data]
<1>1. C = [B EXCEPT ![p] = block]
  BY Zenon DEF Stored
<1>2. /\ p \in DOMAIN B /\ B[p] \in [unit: {unit}, data: [1 .. n -> Elements]]
      /\ B[p].unit = unit /\ B[p].data \in [1 .. n -> Elements]
  BY DEF IsBlock
<1>3. /\ data \in [1 .. n -> Elements]
      /\ \A j \in 1 .. n : data[j] = IF j = i THEN element ELSE B[p].data[j]
  BY <1>2
<1>4. DOMAIN C = DOMAIN B /\ C[p] = block /\ \A b \in DOMAIN B \ {p} : C[b] = B[b]
  BY <1>1, <1>2
<1>. HIDE DEF data
<1>5. /\ block \in [unit: {unit}, data: [1 .. n -> Elements]]
      /\ block.unit = unit /\ block.data = data
  BY <1>2, <1>3
<1>. HIDE DEF block
<1>6. IsBlock(C, p, unit, n)
  BY <1>2, <1>4, <1>5 DEF IsBlock
<1>7. ASSUME NEW b \in DOMAIN C PROVE \E u \in Nat, k \in Nat : IsBlock(C, b, u, k)
  <2>1. CASE b = p
    BY <1>6, <2>1
  <2>2. CASE b # p
    <3>1. PICK u \in Nat, k \in Nat : IsBlock(B, b, u, k)
      BY <1>4 DEF BlocksOK
    <3>2. IsBlock(C, b, u, k)
      BY <1>4, <2>2, <3>1 DEF IsBlock
    <3>. QED  BY <3>2
  <2>. QED  BY <2>1, <2>2
<1>8. (\A b : BytesOf(B, b) \in Nat /\ BytesOf(C, b) \in Nat)
      /\ Bytes(B) \in Nat /\ Bytes(C) \in Nat
  BY <1>7, BytesAreNat DEF BlocksOK
<1>9. ASSUME NEW b \in Blocks PROVE BytesOf(C, b) <= BytesOf(B, b)
  <2>1. CASE b = p
    <3>1. BytesOf(B, b) = unit * n /\ BytesOf(C, b) = unit * n
      BY <1>6, <2>1, BlockBytes
    <3>. QED  BY <1>8, <3>1
  <2>2. CASE b # p
    <3>1. BytesOf(C, b) = BytesOf(B, b)
      BY <1>4, <2>2 DEF BytesOf
    <3>. QED  BY <1>8, <3>1
  <2>. QED  BY <2>1, <2>2
<1>10. Bytes(C) <= Bytes(B)
  BY <1>8, <1>9, BytesShrink
<1>11. BlocksOK(C)
  BY <1>4, <1>7, <1>8, <1>10 DEF BlocksOK
<1>12. C[p].data = data
  BY <1>4, <1>5
<1>. QED  BY <1>3, <1>4, <1>6, <1>11, <1>12

\* HeapReAlloc: nothing, or a copy elsewhere and the old block is gone.  A heap that tells
\* the sizes keeps all that fits, and both blocks fit for a moment, beside the third.
LEMMA ReAllocSpec ==
  ASSUME NEW B, BlocksOK(B), NEW p, NEW unit \in Nat, NEW m \in Nat, IsBlock(B, p, unit, m),
         \E b \in Blocks : b \notin DOMAIN B,
         NEW n \in Nat, NEW r \in HeapReAlloc(B, p, n)
  PROVE  \/ r = Given(NULL, B)
         \/ /\ r.pItems \in Blocks \ DOMAIN B
            /\ DOMAIN r.blocks = (DOMAIN B \cup {r.pItems}) \ {p}
            /\ \A b \in DOMAIN B \ {p} : r.blocks[b] = B[b]
            /\ IsBlock(r.blocks, r.pItems, unit, n)
            /\ BlocksOK(r.blocks)
            /\ honest => \A i \in 1 .. n : i <= m =>
                           r.blocks[r.pItems].data[i] = B[p].data[i]
            /\ \A q \in Blocks \ {p, r.pItems} : unit * m + unit * n + BytesOf(B, q) <= room
<1>. DEFINE data == B[p].data
<1>1. /\ p \in DOMAIN B /\ B[p].unit = unit /\ data \in [1 .. m -> Elements] /\ Len(data) = m
  BY BlockBytes DEF IsBlock
<1>a. PICK old \in OldSizes(data) : \E t \in Malloc(B, unit, Copied(data, old, n)) :
        r = IF t.pItems = NULL THEN t ELSE Given(t.pItems, HeapFree(t.blocks, p))
  BY <1>1 DEF HeapReAlloc
<1>2. PICK t \in Malloc(B, unit, Copied(data, old, n)) :
        r = IF t.pItems = NULL THEN t ELSE Given(t.pItems, HeapFree(t.blocks, p))
  BY <1>a
<1>3. Copied(data, old, n) \in [1 .. n -> Elements]
  BY <1>1 DEF Copied, Elements
<1>4. ASSUME honest, NEW i \in 1 .. n, i <= m PROVE Copied(data, old, n)[i] = data[i]
  BY <1>1, <1>a, <1>4 DEF Copied, OldSizes
<1>. DEFINE copy == Copied(data, old, n)
<1>. HIDE DEF copy, data
<1>5. \/ t = Given(NULL, B)
      \/ /\ t.pItems \in Blocks \ DOMAIN B
         /\ DOMAIN t.blocks = DOMAIN B \cup {t.pItems}
         /\ t.blocks[t.pItems] = [unit |-> unit, data |-> copy]
         /\ \A b \in DOMAIN B : t.blocks[b] = B[b]
         /\ IsBlock(t.blocks, t.pItems, unit, n)
         /\ BlocksOK(t.blocks)
  BY <1>2, <1>3, MallocSpec DEF copy
<1>6. CASE t = Given(NULL, B)
  <2>1. t.pItems = NULL
    BY <1>6 DEF Given
  <2>. QED  BY <1>2, <1>6, <2>1
<1>7. CASE t # Given(NULL, B)
  <2>1. t.pItems \in Blocks /\ t.pItems # NULL /\ t.pItems \notin DOMAIN B /\ t.pItems # p
    BY <1>1, <1>5, <1>7, HeapAssumption
  <2>2. r.pItems = t.pItems /\ r.blocks = HeapFree(t.blocks, p)
    BY <1>2, <2>1 DEF Given
  <2>a. BlocksOK(t.blocks)
    BY <1>5, <1>7
  <2>b. /\ DOMAIN HeapFree(t.blocks, p) = DOMAIN t.blocks \ {p}
        /\ \A b \in DOMAIN t.blocks \ {p} : HeapFree(t.blocks, p)[b] = t.blocks[b]
        /\ BlocksOK(HeapFree(t.blocks, p))
    BY Zenon, <2>a, FreeSpec
  <2>3. /\ DOMAIN r.blocks = DOMAIN t.blocks \ {p}
        /\ \A b \in DOMAIN t.blocks \ {p} : r.blocks[b] = t.blocks[b]
        /\ BlocksOK(r.blocks)
    BY <2>b, <2>2
  <2>4. IsBlock(r.blocks, r.pItems, unit, n)
    BY <1>5, <1>7, <2>1, <2>2, <2>3 DEF IsBlock
  <2>5. r.blocks[r.pItems].data = copy
    BY <1>5, <1>7, <2>1, <2>2, <2>3
  <2>6. ASSUME NEW q \in Blocks \ {p, r.pItems}
        PROVE unit * m + unit * n + BytesOf(B, q) <= room
    <3>1. IsBlock(t.blocks, p, unit, m)
      BY <1>1, <1>5, <1>7 DEF IsBlock
    <3>2. BytesOf(t.blocks, p) = unit * m /\ BytesOf(t.blocks, t.pItems) = unit * n
      BY <1>5, <1>7, <3>1, BlockBytes
    <3>3. BytesOf(t.blocks, q) = BytesOf(B, q)
      BY <1>5, <1>7, <2>2 DEF BytesOf
    <3>4. \A b : BytesOf(t.blocks, b) \in Nat
      BY <1>5, <1>7, BytesAreNat DEF BlocksOK
    <3>5. p \in Blocks
      BY <1>1 DEF BlocksOK
    <3>6. BytesOf(t.blocks, p) + BytesOf(t.blocks, t.pItems) + BytesOf(t.blocks, q)
            = Bytes(t.blocks)
      BY <2>1, <2>2, <3>4, <3>5, BytesAddUp
    <3>7. Bytes(t.blocks) <= room
      BY <1>5, <1>7 DEF BlocksOK
    <3>. QED  BY <3>2, <3>3, <3>6, <3>7
  <2>. QED  BY <1>1, <1>4, <1>5, <1>7, <2>1, <2>2, <2>3, <2>4, <2>5, <2>6 DEF copy, data
<1>. QED  BY <1>6, <1>7

-----------------------------------------------------------------------------
(* The arrays.                                                                 *)

\* An array of elements of one size: empty until it has a block, and then no larger than
\* it.  On one page that does not tell the sizes it has the capacity it began with.
ArrayOK(a, B, unit, initial) ==
  /\ a \in ArrayType
  /\ a.pItems = NULL => a.size = 0
  /\ a.pItems # NULL => /\ IsBlock(B, a.pItems, unit, a.capacity)
                        /\ a.size <= a.capacity
                        /\ TooSmall => a.capacity = initial

\* The array a of the blocks B became b: it kept its block, or has one that was free, and
\* the other blocks are as they were.
Replaced(a, B, b, C) ==
  /\ b.pItems = a.pItems \/ b.pItems \notin DOMAIN B
  /\ DOMAIN C = (DOMAIN B \ {a.pItems}) \cup ({b.pItems} \ {NULL})
  /\ \A k \in DOMAIN B \ {a.pItems} : C[k] = B[k]

\* g is that array, perhaps with other room, and holds what it held, if copies are right.
Moved(a, B, g, unit, initial) ==
  /\ ArrayOK(g.array, g.blocks, unit, initial) /\ g.array.size = a.size
  /\ BlocksOK(g.blocks) /\ Replaced(a, B, g.array, g.blocks)
  /\ Safe => \A i \in 1 .. a.size : g.blocks[g.array.pItems].data[i] = B[a.pItems].data[i]

LEMMA ArrayFields ==
  ASSUME NEW a \in ArrayType, NEW p, NEW n
  PROVE  [a EXCEPT !.pItems = p, !.capacity = n]
           = [pItems |-> p, capacity |-> n, size |-> a.size]
<1>. DEFINE b == [a EXCEPT !.pItems = p]
            c == [b EXCEPT !.capacity = n]
<1>1. b = [pItems |-> p, capacity |-> a.capacity, size |-> a.size]
  BY DEF ArrayType
<1>2. c = [pItems |-> p, capacity |-> n, size |-> a.size]
  <2>. HIDE DEF b
  <2>. QED BY <1>1
<1>3. [a EXCEPT !.pItems = p, !.capacity = n] = c
  BY Zenon
<1>. QED  BY <1>2, <1>3, Zenon

LEMMA NotMoved ==
  ASSUME NEW a, NEW B, NEW unit, NEW initial, ArrayOK(a, B, unit, initial), BlocksOK(B)
  PROVE  Moved(a, B, Array(a, B), unit, initial)
<1>1. Array(a, B).array = a /\ Array(a, B).blocks = B
  BY DEF Array
<1>2. a.pItems # NULL => a.pItems \in DOMAIN B
  BY DEF ArrayOK, IsBlock
<1>3. NULL \notin DOMAIN B
  BY HeapAssumption DEF BlocksOK
<1>. DEFINE g == Array(a, B)
<1>. HIDE DEF g
<1>. QED  BY <1>1, <1>2, <1>3 DEF Moved, Replaced, g

\* The block of an array is taken elsewhere, or the array stays.
LEMMA ResizedSpec ==
  ASSUME NEW a, NEW B, NEW unit \in Nat, NEW initial,
         ArrayOK(a, B, unit, initial), BlocksOK(B),
         \E b \in Blocks : b \notin DOMAIN B, a.pItems # NULL,
         NEW n \in Nat, a.size <= n,
         TooSmall => \A r \in HeapReAlloc(B, a.pItems, n) : r.pItems = NULL,
         NEW g \in Resized(a, B, n)
  PROVE  Moved(a, B, g, unit, initial)
<1>1. /\ a \in ArrayType /\ IsBlock(B, a.pItems, unit, a.capacity)
      /\ a.size \in Nat /\ a.capacity \in Nat /\ a.size <= a.capacity
  BY DEF ArrayOK, ArrayType
<1>2. PICK r \in HeapReAlloc(B, a.pItems, n) :
        g = IF r.pItems = NULL THEN Array(a, B)
            ELSE Array([a EXCEPT !.pItems = r.pItems, !.capacity = n], r.blocks)
  BY DEF Resized
<1>3. CASE r.pItems = NULL
  BY <1>2, <1>3, NotMoved
<1>4. CASE r.pItems # NULL
  <2>1. r # Given(NULL, B)
    BY <1>4 DEF Given
  <2>a. PICK p, m : p = a.pItems /\ m = a.capacity
    OBVIOUS
  <2>b. m \in Nat /\ IsBlock(B, p, unit, m) /\ r \in HeapReAlloc(B, p, n)
    BY <1>1, <2>a
  <2>2. /\ r.pItems \in Blocks \ DOMAIN B
        /\ DOMAIN r.blocks = (DOMAIN B \cup {r.pItems}) \ {p}
        /\ \A b \in DOMAIN B \ {p} : r.blocks[b] = B[b]
        /\ IsBlock(r.blocks, r.pItems, unit, n)
        /\ BlocksOK(r.blocks)
        /\ honest => \A i \in 1 .. n : i <= m => r.blocks[r.pItems].data[i] = B[p].data[i]
    <3>1. \/ r = Given(NULL, B)
          \/ /\ r.pItems \in Blocks \ DOMAIN B
             /\ DOMAIN r.blocks = (DOMAIN B \cup {r.pItems}) \ {p}
             /\ \A b \in DOMAIN B \ {p} : r.blocks[b] = B[b]
             /\ IsBlock(r.blocks, r.pItems, unit, n)
             /\ BlocksOK(r.blocks)
             /\ honest => \A i \in 1 .. n : i <= m =>
                            r.blocks[r.pItems].data[i] = B[p].data[i]
             /\ \A q \in Blocks \ {p, r.pItems} :
                  unit * m + unit * n + BytesOf(B, q) <= room
      BY Zenon, <2>b, ReAllocSpec
    <3>. QED  BY <2>1, <3>1
  <2>3. ~ TooSmall
    BY <1>4
  <2>4. [a EXCEPT !.pItems = r.pItems, !.capacity = n]
          = [pItems |-> r.pItems, capacity |-> n, size |-> a.size]
    BY Zenon, <1>1, ArrayFields
  <2>5. /\ g.array = [pItems |-> r.pItems, capacity |-> n, size |-> a.size]
        /\ g.blocks = r.blocks
    BY <1>2, <1>4, <2>4 DEF Array
  <2>6. ArrayOK(g.array, g.blocks, unit, initial)
    BY <1>1, <1>4, <2>2, <2>3, <2>5 DEF ArrayOK, ArrayType
  <2>7. Safe => \A i \in 1 .. a.size : r.blocks[r.pItems].data[i] = B[p].data[i]
    BY <1>1, <2>a, <2>2, <2>3 DEF Safe, TooSmall
  <2>8. p \in DOMAIN B
    BY <2>b DEF IsBlock
  <2>. QED  BY <1>4, <2>a, <2>2, <2>5, <2>6, <2>7, <2>8 DEF Moved, Replaced
<1>. QED  BY <1>3, <1>4

\* Room for one more, if the heap gives it.  A heap that does not tell the sizes does not
\* give it to an array that is full, which is when it would be copied wrongly.
LEMMA GrownSpec ==
  ASSUME NEW a, NEW unit \in Nat, NEW initial \in Nat,
         ArrayOK(a, blocks, unit, initial), BlocksOK(blocks),
         \E b \in Blocks : b \notin DOMAIN blocks,
         TooSmall => \/ room < 3 * (unit * initial)
                     \/ \E q \in DOMAIN blocks \ {a.pItems} :
                          room < 3 * (unit * initial) + BytesOf(blocks, q),
         NEW g \in Grown(a, initial, unit)
  PROVE  Moved(a, blocks, g, unit, initial)
<1>1. /\ a \in ArrayType /\ a.size \in Nat /\ a.capacity \in Nat
      /\ a.pItems \in Blocks \cup {NULL}
  BY DEF ArrayOK, ArrayType
<1>2. CASE a.pItems = NULL
  <2>. DEFINE data == [i \in 1 .. initial |-> Garbage]
  <2>1. data \in [1 .. initial -> Elements]
    BY DEF Elements
  <2>2. PICK r \in Malloc(blocks, unit, data) :
          g = Array([a EXCEPT !.pItems = r.pItems, !.capacity = initial], r.blocks)
    BY <1>2 DEF Grown, HeapAlloc
  <2>3. [a EXCEPT !.pItems = r.pItems, !.capacity = initial]
          = [pItems |-> r.pItems, capacity |-> initial, size |-> a.size]
    BY Zenon, <1>1, ArrayFields
  <2>4. /\ g.array = [pItems |-> r.pItems, capacity |-> initial, size |-> 0]
        /\ g.blocks = r.blocks /\ a.size = 0
    BY <1>2, <2>2, <2>3 DEF Array, ArrayOK
  <2>. HIDE DEF data
  <2>5. \/ r = Given(NULL, blocks)
        \/ /\ r.pItems \in Blocks \ DOMAIN blocks
           /\ DOMAIN r.blocks = DOMAIN blocks \cup {r.pItems}
           /\ r.blocks[r.pItems] = [unit |-> unit, data |-> data]
           /\ \A b \in DOMAIN blocks : r.blocks[b] = blocks[b]
           /\ IsBlock(r.blocks, r.pItems, unit, initial)
           /\ BlocksOK(r.blocks)
    BY <2>1, MallocSpec
  <2>6. NULL \notin Blocks /\ DOMAIN blocks \subseteq Blocks
    BY HeapAssumption DEF BlocksOK
  <2>7. CASE r = Given(NULL, blocks)
    <3>1. r.pItems = NULL /\ r.blocks = blocks
      BY <2>7 DEF Given
    <3>2. ArrayOK(g.array, g.blocks, unit, initial)
      BY <2>4, <3>1 DEF ArrayOK, ArrayType
    <3>3. DOMAIN blocks = (DOMAIN blocks \ {NULL}) \cup ({NULL} \ {NULL})
      BY <2>6
    <3>4. \A i \in 1 .. a.size : FALSE
      BY <2>4
    <3>. QED  BY <1>2, <2>4, <3>1, <3>2, <3>3, <3>4 DEF Moved, Replaced
  <2>8. CASE r # Given(NULL, blocks)
    <3>1. ArrayOK(g.array, g.blocks, unit, initial)
      BY <2>4, <2>5, <2>6, <2>8 DEF ArrayOK, ArrayType
    <3>. QED  BY <1>2, <2>4, <2>5, <2>6, <2>8, <3>1 DEF Moved, Replaced
  <2>. QED  BY <2>7, <2>8
<1>3. CASE a.pItems # NULL /\ Full(a)
  <2>. DEFINE n == 2 * a.capacity
  <2>1. g \in Resized(a, blocks, n)
    BY <1>3 DEF Grown
  <2>2. IsBlock(blocks, a.pItems, unit, a.capacity) /\ (TooSmall => a.capacity = initial)
        /\ a.size <= a.capacity
    BY <1>3 DEF ArrayOK
  <2>3. n \in Nat /\ a.size <= n
    BY <1>1, <2>2
  <2>4. ASSUME TooSmall, NEW r \in HeapReAlloc(blocks, a.pItems, n), r.pItems # NULL
        PROVE FALSE
    <3>1. r # Given(NULL, blocks)
      BY <2>4 DEF Given
    <3>2. /\ r.pItems \in Blocks \ DOMAIN blocks
          /\ \A q \in Blocks \ {a.pItems, r.pItems} :
               unit * a.capacity + unit * n + BytesOf(blocks, q) <= room
      BY <1>1, <2>2, <2>3, <3>1, ReAllocSpec
    <3>3. (\A b : BytesOf(blocks, b) \in Nat) /\ room \in Nat /\ DOMAIN blocks \subseteq Blocks
      BY BytesAreNat DEF BlocksOK
    <3>4. unit * a.capacity + unit * n = 3 * (unit * initial) /\ unit * initial \in Nat
      BY <2>2, <2>4
    <3>5. PICK q \in Blocks \ {a.pItems, r.pItems} :
            room < 3 * (unit * initial) + BytesOf(blocks, q)
      <4>1. CASE room < 3 * (unit * initial)
        <5>1. \E q \in Blocks : q # a.pItems /\ q # r.pItems
          BY <1>1, <3>2 DEF Blocks
        <5>. QED  BY <3>3, <3>4, <4>1, <5>1
      <4>2. CASE ~ (room < 3 * (unit * initial))
        BY <2>4, <3>2, <3>3, <4>2
      <4>. QED  BY <4>1, <4>2
    <3>. QED  BY <3>2, <3>3, <3>4, <3>5
  <2>. QED  BY <1>3, <2>1, <2>2, <2>3, <2>4, ResizedSpec
<1>4. CASE a.pItems # NULL /\ ~ Full(a)
  BY <1>4, NotMoved DEF Grown
<1>. QED  BY <1>2, <1>3, <1>4

\* after is g with the element put after the last, in the same block.
Lengthened(g, after, unit, initial, element) ==
  /\ ArrayOK(after.array, after.blocks, unit, initial)
  /\ BlocksOK(after.blocks)
  /\ after.array.pItems = g.array.pItems /\ after.array.size = g.array.size + 1
  /\ g.array.pItems \in DOMAIN g.blocks
  /\ DOMAIN after.blocks = DOMAIN g.blocks
  /\ \A b \in DOMAIN g.blocks \ {g.array.pItems} : after.blocks[b] = g.blocks[b]
  /\ \A i \in 1 .. g.array.size :
       after.blocks[g.array.pItems].data[i] = g.blocks[g.array.pItems].data[i]
  /\ after.blocks[g.array.pItems].data[g.array.size + 1] = element

\* An element is put after the last.
LEMMA AppendedSpec ==
  ASSUME NEW g, NEW unit \in Nat, NEW initial, ArrayOK(g.array, g.blocks, unit, initial),
         BlocksOK(g.blocks), HasRoom(g.array), NEW element \in Elements,
         NEW after, after = Appended(g, element)
  PROVE  Lengthened(g, after, unit, initial, element)
<1>1. PICK a, B : a = g.array /\ B = g.blocks
  OBVIOUS
<1>2. PICK p, n, k : p = a.pItems /\ n = a.capacity /\ k = a.size + 1
  OBVIOUS
<1>3. PICK C : C = Stored(B, p, k, element)
  OBVIOUS
<1>4. /\ a \in [pItems: Blocks \cup {NULL}, capacity: Nat, size: Nat]
      /\ p # NULL /\ IsBlock(B, p, unit, n) /\ ~ (a.size >= n) /\ BlocksOK(B)
      /\ TooSmall => n = initial
  BY <1>1, <1>2 DEF HasRoom, Full, ArrayOK, ArrayType
<1>5. n \in Nat /\ k \in 1 .. n /\ k = a.size + 1 /\ a.size \in Nat /\ p \in Blocks
  BY <1>2, <1>4
<1>6. /\ DOMAIN C = DOMAIN B
      /\ \A b \in DOMAIN B \ {p} : C[b] = B[b]
      /\ IsBlock(C, p, unit, n)
      /\ \A j \in 1 .. n : C[p].data[j] = IF j = k THEN element ELSE B[p].data[j]
      /\ BlocksOK(C)
  <2>1. IsBlock(B, p, unit, n) /\ BlocksOK(B)
    BY <1>4
  <2>2. n \in Nat /\ k \in 1 .. n
    BY <1>5
  <2>. QED  BY <1>3, <2>1, <2>2, StoredSpec
<1>7. p \in DOMAIN B
  BY <1>4 DEF IsBlock
<1>8. C[p].data[k] = element /\ \A i \in 1 .. a.size : C[p].data[i] = B[p].data[i]
  BY <1>5, <1>6
<1>9. /\ after.array = [a EXCEPT !.size = a.size + 1]
      /\ after.blocks = C
  BY <1>1, <1>2, <1>3 DEF Appended, Array
<1>10. after.array = [pItems |-> p, capacity |-> n, size |-> k]
  BY <1>2, <1>4, <1>5, <1>9
<1>11. ArrayOK(after.array, C, unit, initial)
  BY <1>4, <1>5, <1>6, <1>10 DEF ArrayOK, ArrayType
<1>. QED  BY SMTT(20), <1>1, <1>2, <1>5, <1>6, <1>7, <1>8, <1>9, <1>10, <1>11 DEF Lengthened

-----------------------------------------------------------------------------
(* The invariant.                                                              *)

\* The first n elements of D are those of T, each once.
Lists(D, n, T) ==
  /\ IsFiniteSet(T) /\ n = Cardinality(T)
  /\ \A i \in 1 .. n : D[i] \in T
  /\ \A k \in T : \E i \in 1 .. n : D[i] = k
  /\ \A i, j \in 1 .. n : D[i] = D[j] => i = j

\* The hooks are those that were created and not removed, each once.
HooksKept == table \subseteq Hooks /\ (Safe => Lists(Items, g_hooks.size, table))

\* The list is every thread met so far, and there is none between two calls of Freeze.
ThreadsKept ==
  /\ walked \in Nat /\ threads.size = walked
  /\ Safe => \A i \in 1 .. threads.size : blocks[threads.pItems].data[i] = i
  /\ pc \in {"idle", "go on"} => threads = NoArray /\ walked = 0

WorldOK ==
  /\ mapped \subseteq Pages /\ flexibleMemory \in Pages \cup {NULL} /\ g_hHeap \in BOOLEAN
  /\ honest \in BOOLEAN
  /\ pc \in {"idle", "enumerate", "frozen", "go on"} /\ others \in 0 .. MostThreads

\* Only a call that has hooks to switch freezes threads.
FreezesForHooks == pc \in {"enumerate", "frozen"} => g_hooks.size > 0

ArraysOK ==
  /\ ArrayOK(g_hooks, blocks, HookBytes, InitialHooks)
  /\ ArrayOK(threads, blocks, ThreadBytes, InitialThreads)

IInv ==
  /\ WorldOK /\ BlocksOK(blocks) /\ ArraysOK
  /\ HooksKept /\ ThreadsKept /\ HeapOwned /\ FreezesForHooks

-----------------------------------------------------------------------------
(* Two arrays side by side.                                                    *)

\* There is always a block for a copy.
LEMMA FreeBlock ==
  ASSUME HeapOwned
  PROVE  \E b \in Blocks : b \notin DOMAIN blocks
<1>1. \A x, y : \E b \in Blocks : b # x /\ b # y
  BY DEF Blocks
<1>2. PICK b \in Blocks : b # g_hooks.pItems /\ b # threads.pItems
  BY <1>1
<1>. QED  BY <1>2 DEF HeapOwned

\* The arrays a and c have a block of B each, or none, and there is no other.
Share(a, c, B) ==
  /\ DOMAIN B = {a.pItems, c.pItems} \ {NULL}
  /\ a.pItems # NULL => a.pItems # c.pItems

\* The array c is in the blocks C what it was in B.
Untouched(c, B, C, unit, initial) ==
  /\ ArrayOK(c, C, unit, initial)
  /\ c.size > 0 => C[c.pItems] = B[c.pItems]

\* An array that is replaced leaves the other one alone.
LEMMA Beside ==
  ASSUME NEW a, NEW B, NEW b, NEW C, Replaced(a, B, b, C),
         NEW c, NEW unit, NEW initial, ArrayOK(c, B, unit, initial), Share(a, c, B)
  PROVE  Untouched(c, B, C, unit, initial) /\ Share(b, c, C)
<1>. USE DEF Share
<1>1. c.pItems # NULL => c.pItems \in DOMAIN B /\ c.pItems # a.pItems
  OBVIOUS
<1>2. c.pItems # NULL => C[c.pItems] = B[c.pItems] /\ c.pItems \in DOMAIN C
  BY <1>1 DEF Replaced
<1>3. ArrayOK(c, C, unit, initial)
  BY <1>1, <1>2 DEF ArrayOK, IsBlock
<1>4. c.size > 0 => c.pItems # NULL
  BY DEF ArrayOK
<1>5. DOMAIN C = {b.pItems, c.pItems} \ {NULL}
  BY <1>1 DEF Replaced
<1>6. b.pItems # NULL => b.pItems # c.pItems
  BY <1>1 DEF Replaced
<1>. QED  BY <1>2, <1>3, <1>4, <1>5, <1>6 DEF Untouched

\* c is the array a of the blocks B with the element e after its last.
Extended(a, B, c, C, unit, initial, e) ==
  /\ ArrayOK(c, C, unit, initial) /\ BlocksOK(C) /\ Replaced(a, B, c, C)
  /\ c.pItems # NULL /\ c.size = a.size + 1
  /\ Safe => \A i \in 1 .. a.size : C[c.pItems].data[i] = B[a.pItems].data[i]
  /\ C[c.pItems].data[a.size + 1] = e

\* Room for one more, and one more.
LEMMA GrownAppended ==
  ASSUME NEW a, NEW B, NEW g, NEW unit \in Nat, NEW initial, Moved(a, B, g, unit, initial),
         HasRoom(g.array), NEW element \in Elements,
         NEW after, after = Appended(g, element)
  PROVE  Extended(a, B, after.array, after.blocks, unit, initial, element)
<1>1. /\ ArrayOK(g.array, g.blocks, unit, initial) /\ g.array.size = a.size
      /\ BlocksOK(g.blocks) /\ Replaced(a, B, g.array, g.blocks)
      /\ Safe =>
           \A i \in 1 .. a.size : g.blocks[g.array.pItems].data[i] = B[a.pItems].data[i]
  BY DEF Moved
<1>2. Lengthened(g, after, unit, initial, element)
  <2>1. ArrayOK(g.array, g.blocks, unit, initial)
    BY <1>1
  <2>2. BlocksOK(g.blocks)
    BY <1>1
  <2>. QED  BY Zenon, <2>1, <2>2, AppendedSpec
<1>3. Replaced(a, B, after.array, after.blocks)
  BY <1>1, <1>2 DEF Lengthened, Replaced
<1>. QED  BY <1>1, <1>2, <1>3 DEF Lengthened, HasRoom, Extended

-----------------------------------------------------------------------------
(* The steps.                                                                  *)

LEMMA Sizes == /\ InitialHooks \in Nat \ {0} /\ InitialThreads \in Nat \ {0}
               /\ HookBytes \in Nat \ {0} /\ ThreadBytes \in Nat \ {0}
               /\ MostThreads \in Nat /\ NULL \notin Blocks
BY HeapAssumption

LEMMA EmptyArray ==
  ASSUME NEW B, NEW unit, NEW initial
  PROVE  ArrayOK(NoArray, B, unit, initial)
BY DEF ArrayOK, NoArray, ArrayType

LEMMA NothingThere ==
  ASSUME NEW B, B = << >>, room \in Nat
  PROVE  BlocksOK(B) /\ DOMAIN B = {}
<1>1. DOMAIN B = {}
  OBVIOUS
<1>2. Bytes(B) = 0
  BY <1>1 DEF Bytes, BytesOf
<1>. QED  BY <1>1, <1>2 DEF BlocksOK

LEMMA NoThreads ==
  ASSUME threads' = NoArray, walked' = 0
  PROVE  ThreadsKept'
<1>1. threads'.size = 0
  BY DEF NoArray
<1>2. \A i \in 1 .. 0 : FALSE
  OBVIOUS
<1>. QED  BY <1>1, <1>2 DEF ThreadsKept

LEMMA InitInv == Init => IInv
<1>. SUFFICES ASSUME Init PROVE IInv
  OBVIOUS
<1>. USE DEF Init
<1>1. room \in Nat
  BY HeapAssumption, PageAssumption
<1>2. WorldOK
  <2>1. others \in 0 .. MostThreads
    BY Sizes
  <2>2. honest \in BOOLEAN /\ g_hHeap \in BOOLEAN /\ mapped \subseteq Pages
        /\ flexibleMemory \in Pages \cup {NULL}
    BY Zenon
  <2>. QED  BY <1>1, <2>1, <2>2 DEF WorldOK
<1>3. BlocksOK(blocks) /\ DOMAIN blocks = {}
  BY <1>1, NothingThere
<1>4. ArraysOK
  BY EmptyArray DEF ArraysOK
<1>5. HooksKept
  BY FS_EmptySet DEF HooksKept, Lists, NoArray
<1>6. ThreadsKept /\ FreezesForHooks
  BY DEF ThreadsKept, FreezesForHooks, NoArray
<1>7. HeapOwned
  BY <1>3 DEF HeapOwned, NoArray
<1>. QED  BY <1>2, <1>3, <1>4, <1>5, <1>6, <1>7 DEF IInv

\* The heap is what it was.
LEMMA SameHeap ==
  ASSUME room' = room, honest' = honest, BlocksOK(blocks'),
         ArrayOK(g_hooks', blocks', HookBytes, InitialHooks),
         ArrayOK(threads', blocks', ThreadBytes, InitialThreads)
  PROVE  BlocksOK(blocks)' /\ ArraysOK'
BY DEF BlocksOK, ArraysOK, ArrayOK, TooSmall

\* Blocks of a page that tells no sizes.
LEMMA SmallHeap ==
  ASSUME IInv, TooSmall
  PROVE  /\ room < 3 * (HookBytes * InitialHooks)
         /\ g_hooks.size > 0 =>
              room < 3 * (ThreadBytes * InitialThreads) + BytesOf(blocks, g_hooks.pItems)
<1>1. room \in Nat /\ room <= OnePage
  BY DEF IInv, BlocksOK, TooSmall
<1>2. room < 3 * (HookBytes * InitialHooks)
  BY <1>1, Sizes, PageAssumption
<1>3. ASSUME g_hooks.size > 0
      PROVE  room < 3 * (ThreadBytes * InitialThreads) + BytesOf(blocks, g_hooks.pItems)
  <2>1. IsBlock(blocks, g_hooks.pItems, HookBytes, InitialHooks)
    BY <1>3 DEF IInv, ArraysOK, ArrayOK
  <2>2. BytesOf(blocks, g_hooks.pItems) = HookBytes * InitialHooks
    BY <2>1, Sizes, BlockBytes
  <2>. QED  BY <1>1, <2>2, Sizes, PageAssumption
<1>. QED  BY <1>2, <1>3

\* The list is what it was.
LEMMA ThreadsStay ==
  ASSUME ThreadsKept, threads' = threads, walked' = walked,
         pc' = pc, Safe' = Safe,
         threads.size > 0 => blocks'[threads.pItems] = blocks[threads.pItems]
  PROVE  ThreadsKept'
<1>1. /\ threads.size \in Nat
      /\ Safe => \A i \in 1 .. threads.size : blocks[threads.pItems].data[i] = i
  BY DEF ThreadsKept
<1>2. Safe => \A i \in 1 .. threads.size : blocks'[threads.pItems].data[i] = i
  <2>1. CASE threads.size = 0
    <3>1. \A i \in 1 .. threads.size : FALSE
      BY <2>1
    <3>. QED  BY <3>1
  <2>2. CASE threads.size # 0
    <3>1. threads.size > 0
      BY <1>1, <2>2
    <3>2. blocks'[threads.pItems] = blocks[threads.pItems]
      BY <3>1
    <3>. QED  BY Zenon, <1>1, <3>2
  <2>. QED  BY <2>1, <2>2
<1>. QED  BY <1>2 DEF ThreadsKept

LEMMA CreateStep ==
  ASSUME IInv, NEW h \in Hooks, MH_CreateHook(h)
  PROVE  IInv'
<1>1. PICK g \in Grown(g_hooks, InitialHooks, HookBytes) :
        /\ HasRoom(g.array) => /\ g_hooks' = Appended(g, h).array
                               /\ blocks' = Appended(g, h).blocks
                               /\ table' = table \cup {h}
        /\ ~ HasRoom(g.array) => g_hooks' = g.array /\ blocks' = g.blocks /\ table' = table
  <2>1. PICK g \in Grown(g_hooks, InitialHooks, HookBytes) :
          LET after == IF HasRoom(g.array) THEN Appended(g, h) ELSE g
          IN  /\ g_hooks' = after.array /\ blocks' = after.blocks
              /\ table' = IF HasRoom(g.array) THEN table \cup {h} ELSE table
    BY DEF MH_CreateHook
  <2>. QED  BY Zenon, <2>1
<1>a. FindHookEntry(h) = {} /\ UNCHANGED <<world, threads, pc, progress>> /\ Safe' = Safe
  BY DEF MH_CreateHook, world, Safe
<1>2. /\ BlocksOK(blocks) /\ ArrayOK(g_hooks, blocks, HookBytes, InitialHooks)
      /\ ArrayOK(threads, blocks, ThreadBytes, InitialThreads)
      /\ HeapOwned /\ HooksKept /\ ThreadsKept /\ WorldOK
  BY DEF IInv, ArraysOK
<1>3. Moved(g_hooks, blocks, g, HookBytes, InitialHooks)
  <2>1. TooSmall => room < 3 * (HookBytes * InitialHooks)
    BY SmallHeap
  <2>2. \E b \in Blocks : b \notin DOMAIN blocks
    BY <1>2, FreeBlock
  <2>3. ArrayOK(g_hooks, blocks, HookBytes, InitialHooks) /\ BlocksOK(blocks)
    BY <1>2
  <2>. QED  BY <2>1, <2>2, <2>3, Sizes, GrownSpec
<1>4. /\ ArrayOK(g_hooks', blocks', HookBytes, InitialHooks) /\ BlocksOK(blocks')
      /\ Replaced(g_hooks, blocks, g_hooks', blocks')
      /\ Safe => \A i \in 1 .. g_hooks.size : Items'[i] = Items[i]
      /\ HasRoom(g.array) => /\ g_hooks'.size = g_hooks.size + 1
                             /\ Items'[g_hooks.size + 1] = h
      /\ ~ HasRoom(g.array) => g_hooks'.size = g_hooks.size
  <2>1. CASE HasRoom(g.array)
    <3>1. PICK after : after = Appended(g, h)
      OBVIOUS
    <3>2. h \in Elements
      BY DEF Elements
    <3>3. Extended(g_hooks, blocks, after.array, after.blocks, HookBytes, InitialHooks, h)
      <4>1. HookBytes \in Nat
        BY Sizes
      <4>. QED  BY <1>3, <2>1, <3>1, <3>2, <4>1, GrownAppended
    <3>4. g_hooks' = after.array /\ blocks' = after.blocks
      BY Zenon, <1>1, <2>1, <3>1
    <3>. QED  BY <2>1, <3>3, <3>4 DEF Items, Extended
  <2>2. CASE ~ HasRoom(g.array)
    <3>1. g_hooks' = g.array /\ blocks' = g.blocks
      BY Zenon, <1>1, <2>2
    <3>. QED  BY <1>3, <2>2, <3>1 DEF Moved, Items
  <2>. QED  BY <2>1, <2>2
<1>5. /\ ArrayOK(threads, blocks', ThreadBytes, InitialThreads)
      /\ DOMAIN blocks' = {g_hooks'.pItems, threads.pItems} \ {NULL}
      /\ g_hooks'.pItems # NULL => g_hooks'.pItems # threads.pItems
      /\ threads.size > 0 => blocks'[threads.pItems] = blocks[threads.pItems]
  <2>1. Share(g_hooks, threads, blocks)
    BY <1>2 DEF HeapOwned, Share
  <2>2. PICK b, C : b = g_hooks' /\ C = blocks'
    OBVIOUS
  <2>3. Replaced(g_hooks, blocks, b, C)
    BY <1>4, <2>2
  <2>4. ArrayOK(threads, blocks, ThreadBytes, InitialThreads)
    BY <1>2
  <2>5. Untouched(threads, blocks, C, ThreadBytes, InitialThreads) /\ Share(b, threads, C)
    BY Zenon, <2>1, <2>3, <2>4, Beside
  <2>. QED  BY <2>2, <2>5 DEF Untouched, Share
<1>6. BlocksOK(blocks)' /\ ArraysOK'
  BY <1>a, <1>4, <1>5, SameHeap DEF world
<1>7. HooksKept'
  <2>0. table' \subseteq Hooks
    BY <1>1, <1>2 DEF HooksKept
  <2>. SUFFICES ASSUME Safe PROVE Lists(Items, g_hooks.size, table)'
    BY <1>a, <2>0 DEF HooksKept
  <2>1. PICK n, D, E : n = g_hooks.size /\ D = Items /\ E = Items'
    OBVIOUS
  <2>2. /\ table \subseteq Hooks /\ IsFiniteSet(table) /\ n = Cardinality(table) /\ n \in Nat
        /\ \A i \in 1 .. n : D[i] \in table
        /\ \A k \in table : \E i \in 1 .. n : D[i] = k
        /\ \A i, j \in 1 .. n : D[i] = D[j] => i = j
        /\ \A i \in 1 .. n : E[i] = D[i]
    BY <1>2, <1>4, <2>1 DEF HooksKept, Lists, ArrayOK, ArrayType
  <2>3. h \notin table
    BY <1>a, <2>1, <2>2 DEF FindHookEntry
  <2>4. CASE HasRoom(g.array)
    <3>1. E[n + 1] = h /\ g_hooks'.size = n + 1 /\ table' = table \cup {h}
      BY <1>1, <1>4, <2>1, <2>4
    <3>2. IsFiniteSet(table \cup {h}) /\ Cardinality(table \cup {h}) = n + 1
      BY <2>2, <2>3, FS_AddElement
    <3>3. \A i \in 1 .. n + 1 : E[i] \in table \cup {h}
      BY <2>2, <3>1
    <3>4. \A k \in table \cup {h} : \E i \in 1 .. n + 1 : E[i] = k
      <4>1. ASSUME NEW k \in table PROVE \E i \in 1 .. n + 1 : E[i] = k
        <5>1. PICK i \in 1 .. n : D[i] = k
          BY <2>2
        <5>. QED  BY <2>2, <5>1
      <4>. QED  BY <2>2, <3>1, <4>1
    <3>5. \A i, j \in 1 .. n + 1 : E[i] = E[j] => i = j
      BY <2>2, <2>3, <3>1
    <3>. QED  BY <2>1, <2>2, <3>1, <3>2, <3>3, <3>4, <3>5 DEF Lists
  <2>5. CASE ~ HasRoom(g.array)
    <3>1. g_hooks'.size = n /\ table' = table
      BY <1>1, <1>4, <2>1, <2>5
    <3>. QED  BY <2>1, <2>2, <3>1 DEF Lists
  <2>. QED  BY <2>4, <2>5
<1>8. ThreadsKept'
  BY <1>a, <1>2, <1>5, ThreadsStay DEF progress
<1>9. HeapOwned'
  BY <1>a, <1>2, <1>5 DEF HeapOwned, world, MH_CreateHook
<1>10. WorldOK' /\ FreezesForHooks'
  BY <1>a, <1>2 DEF MH_CreateHook, WorldOK, FreezesForHooks, world, progress
<1>. QED  BY <1>6, <1>7, <1>8, <1>9, <1>10 DEF IInv

\* A call that froze threads has hooks, and so a heap.
LEMMA HooksThere ==
  ASSUME IInv, pc \in {"enumerate", "frozen"}
  PROVE  /\ g_hooks.size > 0 /\ g_hooks.pItems # NULL /\ g_hooks.pItems \in DOMAIN blocks
         /\ g_hooks.pItems # threads.pItems /\ g_hHeap /\ blocks # << >>
<1>1. g_hooks.size > 0
  BY DEF IInv, FreezesForHooks
<1>2. g_hooks.pItems # NULL
  BY <1>1 DEF IInv, ArraysOK, ArrayOK
<1>3. g_hooks.pItems \in DOMAIN blocks /\ g_hooks.pItems # threads.pItems
  BY <1>2 DEF IInv, HeapOwned
<1>4. blocks # << >>
  BY <1>3
<1>5. g_hHeap
  BY <1>4 DEF IInv, HeapOwned
<1>. QED  BY <1>1, <1>2, <1>3, <1>4, <1>5

\* The hooks are what they were.
LEMMA HooksStay ==
  ASSUME HooksKept, g_hooks' = g_hooks, table' = table, Safe' = Safe, g_hooks.size \in Nat,
         g_hooks.size > 0 => blocks'[g_hooks.pItems] = blocks[g_hooks.pItems]
  PROVE  HooksKept'
<1>2. CASE g_hooks.size = 0
  <2>1. \A i \in 1 .. g_hooks.size : FALSE
    BY <1>2
  <2>. QED  BY <2>1 DEF HooksKept, Lists
<1>3. CASE g_hooks.size # 0
  <2>1. g_hooks.size > 0
    BY <1>3
  <2>2. Items' = Items
    BY <2>1 DEF Items
  <2>. QED  BY <2>2 DEF HooksKept, Lists
<1>. QED  BY <1>2, <1>3

LEMMA EnumerateStep ==
  ASSUME IInv, EnumerateThreads
  PROVE  IInv'
<1>1. /\ BlocksOK(blocks) /\ ArrayOK(g_hooks, blocks, HookBytes, InitialHooks)
      /\ ArrayOK(threads, blocks, ThreadBytes, InitialThreads)
      /\ HeapOwned /\ HooksKept /\ ThreadsKept /\ WorldOK
  BY DEF IInv, ArraysOK
<1>2. /\ pc = "enumerate" /\ UNCHANGED <<world, g_hooks, table, then, others>>
      /\ g_hooks.size > 0 /\ g_hooks.pItems # NULL /\ g_hooks.pItems \in DOMAIN blocks
      /\ g_hooks.pItems # threads.pItems /\ g_hHeap /\ Safe' = Safe /\ g_hooks.size \in Nat
  BY <1>1, HooksThere DEF EnumerateThreads, world, Safe, ArrayOK, ArrayType
<1>3. pc' \in {"enumerate", "frozen"}
  BY Zenon, <1>2 DEF EnumerateThreads
<1>4. WorldOK' /\ FreezesForHooks'
  BY <1>1, <1>2, <1>3 DEF WorldOK, FreezesForHooks, world
<1>5. CASE walked = others
  <2>1. UNCHANGED <<blocks, threads, walked>>
    BY <1>5 DEF EnumerateThreads
  <2>2. BlocksOK(blocks)' /\ ArraysOK'
    BY <1>1, <1>2, <2>1, SameHeap DEF world
  <2>3. HooksKept'
    BY <1>1, <1>2, <2>1, HooksStay
  <2>4. ThreadsKept'
    BY <1>1, <1>2, <1>3, <2>1 DEF ThreadsKept
  <2>5. HeapOwned'
    BY <1>1, <1>2, <2>1 DEF HeapOwned, world
  <2>. QED  BY <1>4, <2>2, <2>3, <2>4, <2>5 DEF IInv
<1>6. CASE walked # others
  <2>1. PICK g \in Grown(threads, InitialThreads, ThreadBytes) :
          /\ HasRoom(g.array) => /\ threads' = Appended(g, walked + 1).array
                                 /\ blocks' = Appended(g, walked + 1).blocks
                                 /\ walked' = walked + 1
          /\ ~ HasRoom(g.array) => /\ threads' = g.array /\ blocks' = g.blocks
                                   /\ walked' = walked
    <3>1. PICK g \in Grown(threads, InitialThreads, ThreadBytes) :
            IF HasRoom(g.array)
            THEN LET after == Appended(g, walked + 1)
                 IN  /\ threads' = after.array /\ blocks' = after.blocks
                     /\ walked' = walked + 1 /\ pc' = pc
            ELSE /\ threads' = g.array /\ blocks' = g.blocks
                 /\ pc' = "frozen" /\ UNCHANGED walked
      BY <1>6 DEF EnumerateThreads
    <3>. QED  BY Zenon, <3>1
  <2>2. Moved(threads, blocks, g, ThreadBytes, InitialThreads)
    <3>1. ASSUME TooSmall
          PROVE \E q \in DOMAIN blocks \ {threads.pItems} :
                  room < 3 * (ThreadBytes * InitialThreads) + BytesOf(blocks, q)
      BY <1>2, <3>1, SmallHeap
    <3>2. \E b \in Blocks : b \notin DOMAIN blocks
      BY <1>1, FreeBlock
    <3>3. ArrayOK(threads, blocks, ThreadBytes, InitialThreads) /\ BlocksOK(blocks)
      BY <1>1
    <3>. QED  BY <3>1, <3>2, <3>3, Sizes, GrownSpec
  <2>3. PICK k, D, E : /\ k = walked
                       /\ D = blocks[threads.pItems].data
                       /\ E = blocks'[threads'.pItems].data
    OBVIOUS
  <2>4. k \in Nat /\ threads.size = k /\ (Safe => \A i \in 1 .. k : D[i] = i)
    BY <1>1, <2>3 DEF ThreadsKept
  <2>5. /\ ArrayOK(threads', blocks', ThreadBytes, InitialThreads) /\ BlocksOK(blocks')
        /\ Replaced(threads, blocks, threads', blocks')
        /\ Safe => \A i \in 1 .. k : E[i] = D[i]
        /\ HasRoom(g.array) => threads'.size = k + 1 /\ E[k + 1] = k + 1
        /\ ~ HasRoom(g.array) => threads'.size = k
    <3>1. CASE HasRoom(g.array)
      <4>1. PICK after : after = Appended(g, walked + 1)
        OBVIOUS
      <4>2. walked + 1 \in Elements /\ walked + 1 = k + 1
        BY <2>3, <2>4 DEF Elements
      <4>3. ThreadBytes \in Nat
        BY Sizes
      <4>4. walked + 1 \in Elements
        BY <4>2
      <4>5. Extended(threads, blocks, after.array, after.blocks,
                     ThreadBytes, InitialThreads, walked + 1)
        BY <2>2, <3>1, <4>1, <4>3, <4>4, GrownAppended
      <4>6. threads' = after.array /\ blocks' = after.blocks
        BY Zenon, <2>1, <2>3, <3>1, <4>1
      <4>. QED  BY <2>3, <2>4, <3>1, <4>2, <4>5, <4>6 DEF Extended
    <3>2. CASE ~ HasRoom(g.array)
      <4>1. threads' = g.array /\ blocks' = g.blocks
        BY Zenon, <2>1, <3>2
      <4>. QED  BY <2>2, <2>3, <2>4, <3>2, <4>1 DEF Moved
    <3>. QED  BY <3>1, <3>2
  <2>6. /\ ArrayOK(g_hooks, blocks', HookBytes, InitialHooks)
        /\ DOMAIN blocks' = {threads'.pItems, g_hooks.pItems} \ {NULL}
        /\ threads'.pItems # NULL => threads'.pItems # g_hooks.pItems
        /\ g_hooks.size > 0 => blocks'[g_hooks.pItems] = blocks[g_hooks.pItems]
    <3>1. Share(threads, g_hooks, blocks)
      BY <1>1, <1>2 DEF HeapOwned, Share
    <3>2. PICK b, C : b = threads' /\ C = blocks'
      OBVIOUS
    <3>3. Replaced(threads, blocks, b, C)
      BY <2>5, <3>2
    <3>4. ArrayOK(g_hooks, blocks, HookBytes, InitialHooks)
      BY <1>1
    <3>5. Untouched(g_hooks, blocks, C, HookBytes, InitialHooks) /\ Share(b, g_hooks, C)
      BY Zenon, <3>1, <3>3, <3>4, Beside
    <3>. QED  BY <3>2, <3>5 DEF Untouched, Share
  <2>7. BlocksOK(blocks)' /\ ArraysOK'
    BY <1>2, <2>5, <2>6, SameHeap DEF world
  <2>8. HooksKept'
    BY <1>1, <1>2, <2>6, HooksStay
  <2>9. ThreadsKept'
    <3>1. CASE HasRoom(g.array)
      <4>1. walked' = k + 1 /\ threads'.size = k + 1
        BY <2>1, <2>3, <2>5, <3>1
      <4>2. Safe => \A i \in 1 .. k + 1 : E[i] = i
        BY <2>4, <2>5, <3>1
      <4>3. Safe => \A i \in 1 .. threads'.size : blocks'[threads'.pItems].data[i] = i
        BY <2>3, <4>1, <4>2
      <4>4. walked' \in Nat /\ threads'.size = walked'
        BY <2>4, <4>1
      <4>. QED  BY <1>2, <1>3, <4>3, <4>4 DEF ThreadsKept
    <3>2. CASE ~ HasRoom(g.array)
      <4>1. walked' = k /\ threads'.size = k
        BY <2>1, <2>3, <2>5, <3>2
      <4>. QED  BY <1>2, <1>3, <2>3, <2>4, <2>5, <4>1 DEF ThreadsKept
    <3>. QED  BY <3>1, <3>2
  <2>10. HeapOwned'
    <3>1. DOMAIN blocks' = {g_hooks.pItems, threads'.pItems} \ {NULL}
          /\ g_hooks.pItems # threads'.pItems
      BY <1>2, <2>6
    <3>. QED  BY <1>1, <1>2, <3>1 DEF HeapOwned, world
  <2>. QED  BY <1>4, <2>7, <2>8, <2>9, <2>10 DEF IInv
<1>. QED  BY <1>5, <1>6

\* The last of n entries moves into the hole at pos: what is left is every hook but one.
LEMMA HoleFilled ==
  ASSUME NEW T, NEW n \in Nat, NEW D, Lists(D, n, T), NEW pos \in 1 .. n, NEW E,
         \A i \in 1 .. n - 1 : E[i] = IF i = pos THEN D[n] ELSE D[i]
  PROVE  Lists(E, n - 1, T \ {D[pos]})
<1>. USE DEF Lists
<1>1. IsFiniteSet(T \ {D[pos]}) /\ Cardinality(T \ {D[pos]}) = n - 1
  BY FS_RemoveElement
<1>2. ASSUME NEW i \in 1 .. n - 1
      PROVE  /\ i = pos => E[i] = D[n] /\ n # pos
             /\ i # pos => E[i] = D[i] /\ i \in 1 .. n
  OBVIOUS
<1>3. n \in 1 .. n
  OBVIOUS
<1>4. ASSUME NEW i \in 1 .. n - 1 PROVE E[i] \in T \ {D[pos]}
  <2>1. CASE i = pos
    BY <1>2, <1>3, <2>1
  <2>2. CASE i # pos
    BY <1>2, <2>2
  <2>. QED  BY <2>1, <2>2
<1>5. ASSUME NEW k \in T, k # D[pos] PROVE \E i \in 1 .. n - 1 : E[i] = k
  <2>1. PICK i \in 1 .. n : D[i] = k
    OBVIOUS
  <2>2. i # pos
    BY <1>5, <2>1
  <2>3. CASE i = n
    <3>1. pos \in 1 .. n - 1
      BY <2>2, <2>3
    <3>. QED  BY <2>1, <2>3, <3>1
  <2>4. CASE i # n
    <3>1. i \in 1 .. n - 1
      BY <2>4
    <3>. QED  BY <2>1, <2>2, <3>1
  <2>. QED  BY <2>3, <2>4
<1>6. ASSUME NEW i \in 1 .. n - 1, NEW j \in 1 .. n - 1, E[i] = E[j] PROVE i = j
  <2>1. i \in 1 .. n /\ j \in 1 .. n /\ i # n /\ j # n
    OBVIOUS
  <2>2. CASE i = pos
    BY <1>2, <1>3, <1>6, <2>1, <2>2
  <2>3. CASE i # pos
    BY <1>2, <1>3, <1>6, <2>1, <2>3
  <2>. QED  BY <2>2, <2>3
<1>. QED  BY <1>1, <1>4, <1>5, <1>6

LEMMA RemoveStep ==
  ASSUME IInv, NEW h \in Hooks, MH_RemoveHook(h)
  PROVE  IInv'
<1>1. /\ BlocksOK(blocks) /\ ArrayOK(g_hooks, blocks, HookBytes, InitialHooks)
      /\ ArrayOK(threads, blocks, ThreadBytes, InitialThreads)
      /\ HeapOwned /\ HooksKept /\ ThreadsKept /\ WorldOK
  BY DEF IInv, ArraysOK
<1>2. /\ pc \in {"idle", "go on"} /\ pc' = "idle"
      /\ UNCHANGED <<world, threads, others, walked>> /\ table' = table \ {h}
      /\ threads = NoArray /\ walked = 0 /\ Safe' = Safe
  BY <1>1 DEF MH_RemoveHook, GoesOn, ThreadsKept, world, Safe
<1>3. PICK pos \in FindHookEntry(h) : \E g \in DeleteHookEntry(pos) :
        g_hooks' = g.array /\ blocks' = g.blocks
  BY DEF MH_RemoveHook
<1>4. PICK g \in DeleteHookEntry(pos) : g_hooks' = g.array /\ blocks' = g.blocks
  BY <1>3
<1>5. PICK n, D, p, m : /\ n = g_hooks.size /\ D = Items
                        /\ p = g_hooks.pItems /\ m = g_hooks.capacity
  OBVIOUS
<1>6. /\ n \in Nat /\ m \in Nat /\ pos \in 1 .. n /\ D[pos] = h /\ p # NULL
      /\ IsBlock(blocks, p, HookBytes, m) /\ n <= m /\ (TooSmall => m = InitialHooks)
      /\ g_hooks \in ArrayType /\ p \in Blocks /\ p \in DOMAIN blocks
  <2>1. n \in Nat /\ m \in Nat /\ g_hooks \in ArrayType
    BY <1>1, <1>5 DEF ArrayOK, ArrayType
  <2>2. pos \in 1 .. n /\ D[pos] = h
    BY <1>5 DEF FindHookEntry
  <2>3. n > 0
    BY <2>1, <2>2
  <2>4. /\ p # NULL /\ IsBlock(blocks, p, HookBytes, m) /\ n <= m
        /\ (TooSmall => m = InitialHooks)
    BY <1>1, <1>5, <2>3 DEF ArrayOK
  <2>5. p \in DOMAIN blocks /\ p \in Blocks
    BY <1>1, <2>4 DEF IsBlock, BlocksOK
  <2>. QED  BY <2>1, <2>2, <2>4, <2>5
<1>7. table \subseteq Hooks /\ (Safe => Lists(D, n, table))
  BY <1>1, <1>5 DEF HooksKept
<1>8. PICK a, C : a = [g_hooks EXCEPT !.size = g_hooks.size - 1]
                  /\ C = Stored(blocks, p, pos, D[n])
  OBVIOUS
<1>9. a = [pItems |-> p, capacity |-> m, size |-> n - 1] /\ n - 1 \in Nat
  BY <1>5, <1>6, <1>8 DEF ArrayType
<1>10. g \in IF SpareHalf(a) THEN Resized(a, C, m \div 2) ELSE {Array(a, C)}
  BY <1>5, <1>8, <1>9 DEF DeleteHookEntry
<1>11. /\ DOMAIN C = DOMAIN blocks
       /\ \A b \in DOMAIN blocks \ {p} : C[b] = blocks[b]
       /\ IsBlock(C, p, HookBytes, m)
       /\ \A j \in 1 .. m : C[p].data[j] = IF j = pos THEN D[n] ELSE blocks[p].data[j]
       /\ BlocksOK(C)
  <2>1. pos \in 1 .. m /\ HookBytes \in Nat
    BY <1>6, Sizes
  <2>2. D[n] \in Elements
    <3>1. n \in 1 .. m
      BY <1>6
    <3>. QED  BY <1>5, <1>6, <3>1 DEF IsBlock, Items
  <2>3. C = Stored(blocks, p, pos, D[n])
    BY <1>8
  <2>4. IsBlock(blocks, p, HookBytes, m) /\ BlocksOK(blocks) /\ m \in Nat
    BY <1>1, <1>6
  <2>. QED  BY <2>1, <2>2, <2>3, <2>4, StoredSpec
<1>12. ArrayOK(a, C, HookBytes, InitialHooks)
  BY <1>6, <1>9, <1>11 DEF ArrayOK, ArrayType
<1>13. Moved(a, C, g, HookBytes, InitialHooks)
  <2>1. CASE SpareHalf(a)
    <3>1. m \div 2 \in Nat /\ n - 1 <= m \div 2 /\ m \div 2 >= InitialHooks
      BY <1>6, <1>9, <2>1 DEF SpareHalf
    <3>2. ~ TooSmall
      BY <1>6, <3>1, Sizes
    <3>3. \E b \in Blocks : b \notin DOMAIN C
      BY <1>1, <1>11, FreeBlock
    <3>4. g \in Resized(a, C, m \div 2)
      BY <1>10, <2>1
    <3>5. a.pItems # NULL /\ a.size <= m \div 2
      BY <1>6, <1>9, <3>1
    <3>6. BlocksOK(C) /\ HookBytes \in Nat
      BY <1>11, Sizes
    <3>. QED  BY <1>12, <3>1, <3>2, <3>3, <3>4, <3>5, <3>6, ResizedSpec
  <2>2. CASE ~ SpareHalf(a)
    BY <1>10, <1>11, <1>12, <2>2, NotMoved
  <2>. QED  BY <2>1, <2>2
<1>14. /\ ArrayOK(g_hooks', blocks', HookBytes, InitialHooks) /\ BlocksOK(blocks')
       /\ Replaced(g_hooks, blocks, g_hooks', blocks')
       /\ g_hooks'.size = n - 1
       /\ Safe => \A i \in 1 .. n - 1 : Items'[i] = IF i = pos THEN D[n] ELSE D[i]
  <2>1. /\ ArrayOK(g.array, g.blocks, HookBytes, InitialHooks) /\ g.array.size = n - 1
        /\ BlocksOK(g.blocks) /\ Replaced(a, C, g.array, g.blocks)
        /\ Safe => \A i \in 1 .. n - 1 : g.blocks[g.array.pItems].data[i] = C[p].data[i]
    BY <1>9, <1>13 DEF Moved
  <2>2. Replaced(g_hooks, blocks, g.array, g.blocks)
    BY <1>5, <1>9, <1>11, <2>1 DEF Replaced
  <2>3. \A i \in 1 .. n - 1 : C[p].data[i] = IF i = pos THEN D[n] ELSE D[i]
    BY <1>5, <1>6, <1>11 DEF Items
  <2>. QED  BY <1>4, <2>1, <2>2, <2>3 DEF Items
<1>15. /\ ArrayOK(threads, blocks', ThreadBytes, InitialThreads)
       /\ DOMAIN blocks' = {g_hooks'.pItems, threads.pItems} \ {NULL}
       /\ g_hooks'.pItems # NULL => g_hooks'.pItems # threads.pItems
  <2>1. Share(g_hooks, threads, blocks)
    BY <1>1 DEF HeapOwned, Share
  <2>2. PICK b, B : b = g_hooks' /\ B = blocks'
    OBVIOUS
  <2>3. Replaced(g_hooks, blocks, b, B)
    BY <1>14, <2>2
  <2>4. ArrayOK(threads, blocks, ThreadBytes, InitialThreads)
    BY <1>1
  <2>5. Untouched(threads, blocks, B, ThreadBytes, InitialThreads) /\ Share(b, threads, B)
    BY Zenon, <2>1, <2>3, <2>4, Beside
  <2>. QED  BY <2>2, <2>5 DEF Untouched, Share
<1>16. BlocksOK(blocks)' /\ ArraysOK'
  BY <1>2, <1>14, <1>15, SameHeap DEF world
<1>17. HooksKept'
  <2>0. table' \subseteq Hooks
    BY <1>2, <1>7
  <2>. SUFFICES ASSUME Safe PROVE Lists(Items, g_hooks.size, table)'
    BY <1>2, <2>0 DEF HooksKept
  <2>1. PICK E : E = Items'
    OBVIOUS
  <2>2. \A i \in 1 .. n - 1 : E[i] = IF i = pos THEN D[n] ELSE D[i]
    BY <1>14, <2>1
  <2>3. Lists(E, n - 1, table \ {D[pos]})
    BY <1>6, <1>7, <2>2, HoleFilled
  <2>. QED  BY <1>2, <1>6, <1>14, <2>1, <2>3
<1>18. ThreadsKept'
  BY <1>2, NoThreads
<1>19. HeapOwned'
  <2>1. blocks # << >>
    BY <1>6
  <2>2. g_hHeap
    BY <1>1, <2>1 DEF HeapOwned
  <2>. QED  BY <1>1, <1>2, <1>15, <2>2 DEF HeapOwned, world
<1>20. WorldOK' /\ FreezesForHooks'
  BY <1>1, <1>2 DEF WorldOK, FreezesForHooks, world
<1>. QED  BY <1>16, <1>17, <1>18, <1>19, <1>20 DEF IInv

LEMMA FreezeStep ==
  ASSUME IInv, NEW next, Freeze(next)
  PROVE  IInv'
<1>1. /\ BlocksOK(blocks) /\ ArrayOK(g_hooks, blocks, HookBytes, InitialHooks)
      /\ HeapOwned /\ HooksKept /\ ThreadsKept /\ WorldOK
  BY DEF IInv, ArraysOK
<1>2. /\ UNCHANGED <<world, blocks, g_hooks, table>> /\ threads' = NoArray /\ walked' = 0
      /\ pc = "idle" /\ pc' = "enumerate" /\ g_hooks.size > 0 /\ others' \in 0 .. MostThreads
      /\ threads = NoArray /\ Safe' = Safe /\ g_hooks.size \in Nat
  BY <1>1 DEF Freeze, ThreadsKept, world, Safe, ArrayOK, ArrayType
<1>3. BlocksOK(blocks)' /\ ArraysOK'
  BY <1>1, <1>2, EmptyArray, SameHeap DEF world
<1>4. HooksKept'
  BY <1>1, <1>2, HooksStay
<1>5. ThreadsKept'
  BY <1>2, NoThreads
<1>6. HeapOwned'
  BY <1>1, <1>2 DEF HeapOwned, world
<1>7. WorldOK' /\ FreezesForHooks'
  BY <1>1, <1>2 DEF WorldOK, FreezesForHooks, world
<1>. QED  BY <1>3, <1>4, <1>5, <1>6, <1>7 DEF IInv

LEMMA UnfreezeStep ==
  ASSUME IInv, Unfreeze
  PROVE  IInv'
<1>1. /\ BlocksOK(blocks) /\ ArrayOK(g_hooks, blocks, HookBytes, InitialHooks)
      /\ HeapOwned /\ HooksKept /\ WorldOK
  BY DEF IInv, ArraysOK
<1>2. /\ UNCHANGED <<world, g_hooks, table>> /\ threads' = NoArray /\ walked' = 0
      /\ pc = "frozen" /\ pc' \in {"idle", "go on"} /\ others' = 0
      /\ blocks' = HeapFree(blocks, threads.pItems) /\ Safe' = Safe /\ g_hooks.size \in Nat
  BY <1>1 DEF Unfreeze, world, Safe, ArrayOK, ArrayType
<1>3. /\ g_hooks.pItems \in DOMAIN blocks /\ g_hooks.pItems # threads.pItems
      /\ g_hooks.pItems # NULL /\ g_hHeap
  BY <1>2, HooksThere
<1>4. /\ DOMAIN blocks' = DOMAIN blocks \ {threads.pItems}
      /\ \A b \in DOMAIN blocks \ {threads.pItems} : blocks'[b] = blocks[b]
      /\ BlocksOK(blocks')
  <2>1. PICK C, p : C = blocks' /\ p = threads.pItems
    OBVIOUS
  <2>2. /\ DOMAIN HeapFree(blocks, p) = DOMAIN blocks \ {p}
        /\ \A b \in DOMAIN blocks \ {p} : HeapFree(blocks, p)[b] = blocks[b]
        /\ BlocksOK(HeapFree(blocks, p))
    BY Zenon, <1>1, FreeSpec
  <2>3. C = HeapFree(blocks, p)
    BY <1>2, <2>1
  <2>4. DOMAIN C = DOMAIN blocks \ {p} /\ BlocksOK(C)
        /\ \A b \in DOMAIN blocks \ {p} : C[b] = blocks[b]
    BY Zenon, <2>2, <2>3
  <2>. QED  BY <2>1, <2>4
<1>5. ArrayOK(g_hooks, blocks', HookBytes, InitialHooks)
  BY <1>1, <1>3, <1>4 DEF ArrayOK, IsBlock
<1>6. BlocksOK(blocks)' /\ ArraysOK'
  BY <1>2, <1>4, <1>5, EmptyArray, SameHeap DEF world
<1>7. HooksKept'
  BY <1>1, <1>2, <1>3, <1>4, HooksStay
<1>8. ThreadsKept'
  BY <1>2, NoThreads
<1>9. HeapOwned'
  <2>1. DOMAIN blocks' = {g_hooks.pItems}
    BY <1>1, <1>3, <1>4 DEF HeapOwned
  <2>. QED  BY <1>1, <1>2, <1>3, <2>1 DEF HeapOwned, world, NoArray
<1>10. WorldOK' /\ FreezesForHooks'
  <2>1. others' \in 0 .. MostThreads
    <3>1. 0 \in 0 .. MostThreads
      BY Sizes
    <3>. QED  BY Zenon, <1>2, <3>1
  <2>. QED  BY <1>1, <1>2, <2>1 DEF WorldOK, FreezesForHooks, world
<1>. QED  BY <1>6, <1>7, <1>8, <1>9, <1>10 DEF IInv

LEMMA InitializeStep ==
  ASSUME IInv, MH_Initialize
  PROVE  IInv'
<1>1. /\ BlocksOK(blocks) /\ ArraysOK
      /\ HeapOwned /\ HooksKept /\ ThreadsKept /\ WorldOK /\ FreezesForHooks
  BY DEF IInv
<1>2. /\ UNCHANGED <<room, honest, blocks, g_hooks, threads, table, pc, then, others, walked>>
      /\ blocks = << >>
  BY <1>1 DEF MH_Initialize, HeapOwned, progress
<1>3. /\ mapped' \subseteq Pages /\ flexibleMemory' \in Pages \cup {NULL}
      /\ g_hHeap' \in BOOLEAN /\ (g_hHeap' => flexibleMemory' \in mapped')
  <2>1. CASE UNCHANGED <<mapped, flexibleMemory, g_hHeap>>
    BY <1>1, <2>1 DEF WorldOK, HeapOwned
  <2>2. ASSUME NEW page \in Pages \ mapped, NEW created \in BOOLEAN,
               mapped' = mapped \cup {page}, flexibleMemory' = page, g_hHeap' = created
        PROVE  /\ mapped' \subseteq Pages /\ flexibleMemory' \in Pages \cup {NULL}
               /\ g_hHeap' \in BOOLEAN /\ flexibleMemory' \in mapped'
    BY Zenon, <1>1, <2>2 DEF WorldOK
  <2>. QED  BY Zenon, <2>1, <2>2 DEF MH_Initialize
<1>4. BlocksOK(blocks)' /\ ArraysOK'
  BY <1>1, <1>2, SameHeap DEF ArraysOK
<1>5. HooksKept' /\ ThreadsKept' /\ FreezesForHooks'
  BY <1>1, <1>2 DEF HooksKept, Items, ThreadsKept, FreezesForHooks, Safe
<1>6. HeapOwned'
  BY <1>1, <1>2, <1>3 DEF HeapOwned
<1>7. WorldOK'
  BY <1>1, <1>2, <1>3 DEF WorldOK
<1>. QED  BY <1>4, <1>5, <1>6, <1>7 DEF IInv

LEMMA UninitializeStep ==
  ASSUME IInv, MH_Uninitialize
  PROVE  IInv'
<1>1. BlocksOK(blocks) /\ ArraysOK /\ ThreadsKept /\ WorldOK
  BY DEF IInv
<1>2. /\ UNCHANGED <<room, honest, flexibleMemory, threads, others, walked>>
      /\ blocks' = << >> /\ g_hooks' = NoArray /\ table' = {} /\ g_hHeap' = FALSE
      /\ pc' = "idle" /\ mapped' \in {mapped, mapped \ {flexibleMemory}}
      /\ threads = NoArray /\ walked = 0
  BY <1>1 DEF MH_Uninitialize, GoesOn, ThreadsKept
<1>3. room \in Nat
  BY <1>1 DEF BlocksOK
<1>4. BlocksOK(blocks') /\ DOMAIN blocks' = {}
  BY <1>2, <1>3, NothingThere
<1>5. BlocksOK(blocks)' /\ ArraysOK'
  BY <1>2, <1>4, EmptyArray, SameHeap
<1>6. HooksKept'
  <2>1. g_hooks'.size = 0 /\ \A i \in 1 .. 0 : FALSE
    BY <1>2 DEF NoArray
  <2>. QED  BY <1>2, <2>1, FS_EmptySet DEF HooksKept, Lists
<1>7. ThreadsKept'
  BY <1>2, NoThreads
<1>8. HeapOwned'
  BY <1>2, <1>4 DEF HeapOwned, NoArray
<1>9. WorldOK' /\ FreezesForHooks'
  <2>1. mapped' \subseteq Pages
    BY <1>1, <1>2 DEF WorldOK
  <2>2. g_hHeap' \in BOOLEAN
    BY <1>2
  <2>. QED  BY <1>1, <1>2, <2>1, <2>2 DEF WorldOK, FreezesForHooks
<1>. QED  BY <1>5, <1>6, <1>7, <1>8, <1>9 DEF IInv

LEMMA NextInv == IInv /\ [Next]_vars => IInv'
<1>. SUFFICES ASSUME IInv, [Next]_vars PROVE IInv'
  OBVIOUS
<1>1. CASE MH_Initialize
  BY <1>1, InitializeStep
<1>2. CASE MH_Uninitialize
  BY <1>2, UninitializeStep
<1>3. CASE EnumerateThreads
  BY <1>3, EnumerateStep
<1>4. CASE Unfreeze
  BY <1>4, UnfreezeStep
<1>5. CASE Freeze(Return) \/ Freeze(Destroy)
  BY Zenon, <1>5, FreezeStep
<1>6. ASSUME NEW h \in Hooks, MH_CreateHook(h) PROVE IInv'
  BY <1>6, CreateStep
<1>7. ASSUME NEW h \in Hooks, MH_RemoveHook(h) PROVE IInv'
  BY <1>7, RemoveStep
<1>8. ASSUME NEW h \in Hooks, Freeze(Delete(h)) PROVE IInv'
  BY Zenon, <1>8, FreezeStep
<1>9. CASE UNCHANGED vars
  BY ZenonT(30), <1>9
     DEF vars, world, progress, IInv, WorldOK, BlocksOK, ArraysOK, ArrayOK, HooksKept,
         Items, ThreadsKept, HeapOwned, FreezesForHooks, Safe, TooSmall
<1>. QED  BY Zenon, <1>1, <1>2, <1>3, <1>4, <1>5, <1>6, <1>7, <1>8, <1>9 DEF Next

-----------------------------------------------------------------------------
(* The theorems.                                                               *)

\* What keeps the arrays right: the blocks have the room that the arrays think they have,
\* fit the heap side by side, and hold what was put in them; one page that does not tell the
\* size of a block is too small for the copies that would go wrong.
THEOREM Invariants == Spec => []IInv
BY InitInv, NextInv, PTL DEF Spec

\* No array of hooks or threads is larger than its block, and the blocks fit the heap
\* (HeapAlloc, HeapReAlloc; AddHookEntry, DeleteHookEntry and EnumerateThreads).
THEOREM TypeCorrect == Spec => []TypeOK
<1>1. IInv => TypeOK
  <2>. SUFFICES ASSUME IInv PROVE TypeOK
    OBVIOUS
  <2>1. ASSUME NEW a, NEW unit \in Nat, NEW initial, ArrayOK(a, blocks, unit, initial)
        PROVE  /\ a \in ArrayType /\ (a.pItems = NULL => a.size = 0)
               /\ a.pItems # NULL => /\ a.size <= a.capacity
                                     /\ Len(blocks[a.pItems].data) = a.capacity
    <3>1. a \in ArrayType /\ a.capacity \in Nat /\ (a.pItems = NULL => a.size = 0)
      BY <2>1 DEF ArrayOK, ArrayType
    <3>2. ASSUME a.pItems # NULL
          PROVE  a.size <= a.capacity /\ IsBlock(blocks, a.pItems, unit, a.capacity)
      BY <2>1, <3>2 DEF ArrayOK
    <3>3. a.pItems # NULL => Len(blocks[a.pItems].data) = a.capacity
      BY <3>1, <3>2, BlockBytes
    <3>. QED  BY <3>1, <3>2, <3>3
  <2>2. /\ ArrayOK(g_hooks, blocks, HookBytes, InitialHooks)
        /\ ArrayOK(threads, blocks, ThreadBytes, InitialThreads)
        /\ BlocksOK(blocks) /\ WorldOK
    BY DEF IInv, ArraysOK
  <2>3. \A a \in {g_hooks, threads} :
          /\ a \in ArrayType /\ (a.pItems = NULL => a.size = 0)
          /\ a.pItems # NULL => /\ a.size <= a.capacity
                                /\ Len(blocks[a.pItems].data) = a.capacity
    BY <2>1, <2>2, Sizes
  <2>. QED  BY <2>2, <2>3 DEF TypeOK, BlocksOK, WorldOK
<1>. QED  BY <1>1, Invariants, PTL

\* Growing, shrinking and moving keep what is in the arrays: after any calls, of which the
\* heap may refuse any, the hooks are those created and not removed, each once, and the
\* thread list is every thread that EnumerateThreads has met, if the arena tells the size of
\* a block or has the one page that HeapCreate asks for.
THEOREM ArraysAreKept == Spec => []ArraysKept
<1>1. IInv => ArraysKept
  <2>. SUFFICES ASSUME IInv PROVE ArraysKept
    OBVIOUS
  <2>. SUFFICES ASSUME Safe
                PROVE  /\ {Items[i] : i \in 1 .. g_hooks.size} = table
                       /\ g_hooks.size = Cardinality(table)
                       /\ threads.size = walked
                       /\ \A i \in 1 .. threads.size : blocks[threads.pItems].data[i] = i
    BY DEF ArraysKept, Safe
  <2>1. Lists(Items, g_hooks.size, table) /\ ThreadsKept
    BY DEF IInv, HooksKept
  <2>2. {Items[i] : i \in 1 .. g_hooks.size} = table
    BY <2>1 DEF Lists
  <2>. QED  BY <2>1, <2>2 DEF Lists, ThreadsKept
<1>. QED  BY <1>1, Invariants, PTL

\* The blocks on the heap are those of the two arrays: Unfreeze, HeapReAlloc and
\* MH_Uninitialize lose none and leave none in use that they gave back.
THEOREM HeapIsOwned == Spec => []HeapOwned
<1>1. IInv => HeapOwned
  BY DEF IInv
<1>. QED  BY <1>1, Invariants, PTL
===============================================================================
