-------------------------------- MODULE Buffer --------------------------------
(***************************************************************************)
(* library/source/buffer.cpp: slots for trampolines, cut from blocks that  *)
(* VirtualAlloc maps near a hooked function, and the mapping wrappers of   *)
(* library/source/windows_wrapper.cpp it uses.                             *)
(*                                                                         *)
(* Addresses are counted in slots (MEMORY_SLOT_SIZE = 1). Slot 0 of a      *)
(* block holds its MEMORY_BLOCK header.                                    *)
(***************************************************************************)
EXTENDS Integers, FiniteSets, SequencesExt

CONSTANTS
  Pages,        \* block-aligned addresses the kernel can map
  Origins,      \* addresses of functions to be hooked
  BlockSize,    \* MEMORY_BLOCK_SIZE, in slots
  MaxRange,     \* MAX_MEMORY_RANGE
  MinAddress,   \* lpMinimumApplicationAddress
  MaxAddress    \* lpMaximumApplicationAddress

ASSUME SizeAssumption ==
  /\ BlockSize \in Nat \ {0, 1}
  /\ MaxRange \in Nat /\ MinAddress \in Nat /\ MaxAddress \in Nat
  /\ Origins \subseteq Nat
  /\ Pages \subseteq {a \in Nat : a % BlockSize = 0}

VARIABLES
  list,       \* the blocks from g_pMemoryBlocks on
  block,      \* their headers: free list and usedCount
  mapped,     \* pages the kernel has mapped for the library
  sizes,      \* keys of allocatedMemory
  given       \* slots the callers hold -> the origin they asked for

vars == <<list, block, mapped, sizes, given>>

SlotNumbers == 1 .. (BlockSize - 1)

Init ==
  /\ list = <<>> /\ mapped = {} /\ sizes = {}
  /\ block = [p \in {} |-> 0]
  /\ given = [s \in {} |-> 0]
-----------------------------------------------------------------------------
(* GetMemoryBlock.                                                             *)

Lowest(o) == IF o > MaxRange /\ MinAddress < o - MaxRange THEN o - MaxRange ELSE MinAddress

\* Slip: the end of the block is forgotten.
HighestLoose(o) == IF MaxAddress > o + MaxRange THEN o + MaxRange ELSE MaxAddress

Highest(o) ==
  (IF MaxAddress > o + MaxRange THEN o + MaxRange ELSE MaxAddress) - (BlockSize - 1)

Near(p, o) == Lowest(o) <= p /\ p < Highest(o)

Candidates(o) == {i \in DOMAIN list : Near(list[i], o) /\ block[list[i]].free # <<>>}

\* Slip: the loop runs one slot too far, into the next page.
AllSlotsPlusOne == [i \in 1 .. BlockSize |-> BlockSize + 1 - i]

\* Slots are pushed in address order, so the highest is handed out first.
AllSlots == [i \in 1 .. (BlockSize - 1) |-> BlockSize - i]

\* VirtualAlloc maps a page of the kernel's choice: the address it is given is a hint.
NewBlock(p) ==
  /\ mapped' = mapped \cup {p}
  /\ sizes' = sizes \cup {p}
  /\ list' = <<p>> \o list
-----------------------------------------------------------------------------
(* The operations.                                                             *)

\* Take the first free slot k of page p, whose free list was f.
Take(p, f, used, o) ==
  /\ block' = [q \in DOMAIN block \cup {p} |->
                 IF q = p THEN [free |-> Tail(f), used |-> used + 1] ELSE block[q]]
  /\ given' = [s \in DOMAIN given \cup {p + Head(f)} |->
                 IF s = p + Head(f) THEN o ELSE given[s]]

AllocateBuffer(o) ==
  \/ \E i \in Candidates(o) :
       /\ \A j \in Candidates(o) : i <= j
       /\ Take(list[i], block[list[i]].free, block[list[i]].used, o)
       /\ UNCHANGED <<list, mapped, sizes>>
  \/ /\ Candidates(o) = {}
     /\ \E p \in Pages \ mapped : NewBlock(p) /\ Take(p, AllSlots, 0, o)
  \/ Candidates(o) = {} /\ UNCHANGED vars       \* VirtualAlloc failed

\* VirtualFree unmaps a page it knows the size of; sceKernelMunmap may refuse.
Unmapped(ps) == {mapped \ qs : qs \in SUBSET (ps \cap sizes)}

\* Slip: the block is freed without being unlinked.
WithoutUnlinking(p) == list

Without(p) == RemoveAt(list, CHOOSE i \in DOMAIN list : list[i] = p)

BlockOf(s) == (s \div BlockSize) * BlockSize

\* Slip: the last slot is given back but its block stays listed and is unmapped.
FreeBufferKeepsBlock(s) ==
  LET p == BlockOf(s) IN
  /\ block' = [block EXCEPT ![p].free = <<s - p>> \o @, ![p].used = @ - 1]
  /\ mapped' = IF block[p].used = 1 THEN mapped \ {p} ELSE mapped
  /\ given' = [q \in DOMAIN given \ {s} |-> given[q]]
  /\ UNCHANGED <<list, sizes>>

\* Slip: the block goes one slot too early.
FreeBufferEarly(s) ==
  LET p == BlockOf(s) IN
  /\ block' = [q \in DOMAIN block \ {p} |-> block[q]]
  /\ list' = Without(p)
  /\ mapped' \in Unmapped({p})
  /\ given' = [q \in DOMAIN given \ {s} |-> given[q]]
  /\ UNCHANGED sizes

FreeBuffer(s) ==
  LET p == BlockOf(s) IN
  /\ given' = [q \in DOMAIN given \ {s} |-> given[q]]
  /\ UNCHANGED sizes
  /\ \/ /\ p \in DOMAIN block /\ block[p].used # 1
        /\ block' = [block EXCEPT ![p].free = <<s - p>> \o @, ![p].used = @ - 1]
        /\ UNCHANGED <<list, mapped>>
     \/ /\ p \in DOMAIN block /\ block[p].used = 1
        /\ block' = [q \in DOMAIN block \ {p} |-> block[q]]
        /\ list' = Without(p)
        /\ mapped' \in Unmapped({p})
     \/ p \notin DOMAIN block /\ UNCHANGED <<block, list, mapped>>

UninitializeBuffer ==
  /\ mapped' \in Unmapped(DOMAIN block)
  /\ list' = <<>>
  /\ block' = [p \in {} |-> 0]
  /\ given' = [s \in {} |-> 0]
  /\ UNCHANGED sizes

Next ==
  \/ \E o \in Origins : AllocateBuffer(o)
  \/ \E s \in DOMAIN given : FreeBuffer(s)
  \/ UninitializeBuffer

Spec == Init /\ [][Next]_vars
-----------------------------------------------------------------------------
(* Properties.                                                                 *)

Addresses == {p + k : p \in Pages, k \in SlotNumbers}

FreeSlots(p) == {block[p].free[i] : i \in DOMAIN block[p].free}

GivenIn(p) == {k \in SlotNumbers : p + k \in DOMAIN given}

\* Every variable has its type; headers exist for exactly the listed blocks, each listed once.
TypeOK ==
  /\ list \in Seq(Pages) /\ mapped \subseteq Pages /\ sizes \subseteq Pages
  /\ \A i, j \in DOMAIN list : list[i] = list[j] => i = j
  /\ block \in [{list[i] : i \in DOMAIN list} -> [free : Seq(SlotNumbers), used : Nat]]
  /\ given \in [DOMAIN given -> Origins] /\ DOMAIN given \subseteq Addresses

\* In every block the free list and the callers' slots partition the slots: none is lost,
\* none is on the list twice, none is free and in use, and usedCount counts them.
SlotsPartitioned ==
  \A p \in DOMAIN block :
    /\ FreeSlots(p) = SlotNumbers \ GivenIn(p)
    /\ Len(block[p].free) + block[p].used = BlockSize - 1
    /\ block[p].used = Cardinality(GivenIn(p))

\* A slot a caller holds lies in a block that is listed and mapped, and a listed block
\* is mapped and has a slot in use: nobody runs or reads unmapped memory.
HeldSlotsMapped ==
  /\ \A s \in DOMAIN given : BlockOf(s) \in DOMAIN block
  /\ \A p \in DOMAIN block : p \in mapped \cap sizes /\ GivenIn(p) # {}

Reachable(s, o) == o - MaxRange <= s /\ s <= o + MaxRange

\* "Look the registered blocks for a reachable one" (buffer.cpp:173), "Ignore the blocks
\* too far" (buffer.cpp:177): a slot of a block that was there before is in the range of
\* the function it is for, to the last byte of the block.
ReusedSlotsReachable ==
  [][\A s \in DOMAIN given' \ DOMAIN given :
       BlockOf(s) \in DOMAIN block => Reachable(s, given'[s])]_vars

\* "Max range for seeking a memory block" (buffer.cpp:34): so is every slot handed out, in
\* a block mapped for it as well.
SlotsReachable == \A s \in DOMAIN given : Reachable(s, given[s])

\* What is not on a free list is in use: the view of module SlotPool.
InUse == {s \in Addresses : /\ BlockOf(s) \in DOMAIN block
                           /\ s - BlockOf(s) \notin FreeSlots(BlockOf(s))}

Pool == INSTANCE SlotPool WITH Slots <- Addresses, inUse <- InUse

\* Every allocation hands out one slot nobody has, every release gives back one, and
\* shutting down gives back all: what MinHook relies on.
ImplementsPool == Pool!PoolSpec
==============================================================================
