------------------------------- MODULE HookHeap -------------------------------
(***************************************************************************)
(* The private heap of the library and the two arrays that live on it: the *)
(* hooks (AddHookEntry, DeleteHookEntry) and the threads that Freeze lists *)
(* (EnumerateThreads, Unfreeze), both of library/source/hook.cpp.  The     *)
(* heap is that of windows_wrapper.cpp: HeapCreate to HeapReAlloc over an  *)
(* arena of the C library, which gives blocks as long as they fit, or not. *)
(***************************************************************************)
EXTENDS Naturals, Sequences, FiniteSets, FiniteSetsExt, Functions

CONSTANTS
  Hooks,                          \* hooks that callers create, each with its target
  MostThreads,                    \* threads besides the caller, at most
  InitialHooks, InitialThreads,   \* INITIAL_HOOK_CAPACITY, INITIAL_THREAD_CAPACITY
  HookBytes, ThreadBytes,         \* sizeof(HOOK_ENTRY), sizeof(DWORD)
  Pages,                          \* pages the kernel can map
  Rooms,                          \* sizes of the heap: what HeapCreate asks for, and more
  NULL, Garbage

Blocks == 1 .. 3      \* two arrays, and a copy of one of them

ASSUME HeapAssumption ==
  /\ MostThreads \in Nat
  /\ {InitialHooks, InitialThreads, HookBytes, ThreadBytes} \subseteq Nat \ {0}
  /\ Rooms \subseteq Nat /\ Rooms # {}
  /\ NULL \notin Blocks

\* One page holds the array of hooks and a list of threads, and no doubled copy of either.
OnePage == Min(Rooms)

ASSUME PageAssumption ==
  /\ OnePage \in Nat
  /\ OnePage < 3 * InitialHooks * HookBytes
  /\ OnePage < InitialHooks * HookBytes + 3 * InitialThreads * ThreadBytes

VARIABLES
  room,             \* bytes the heap has
  honest,           \* sceLibcMspaceMallocStats tells the size of a block
  mapped,           \* pages the kernel has mapped
  flexibleMemory,   \* the page HeapCreate mapped last
  g_hHeap,          \* the heap exists
  blocks,           \* what is allocated on it
  g_hooks,          \* the array of hooks
  threads,          \* the array of the Freeze under way
  table,            \* history: the hooks created and not removed
  pc,               \* what the call under way does next
  then,             \* and what it does after Unfreeze
  others,           \* threads EnumerateThreads meets
  walked            \* and how many of them it has met

world == <<room, honest, mapped, flexibleMemory, g_hHeap>>
progress == <<then, others, walked>>
vars == <<world, blocks, g_hooks, threads, table, pc, progress>>

NoArray == [pItems |-> NULL, capacity |-> 0, size |-> 0]
Return == <<"return">>
Delete(h) == <<"delete", h>>
Destroy == <<"destroy">>

Init ==
  /\ room \in Rooms
  /\ honest \in BOOLEAN
  /\ mapped = {} /\ flexibleMemory = NULL /\ g_hHeap = FALSE
  /\ blocks = << >> /\ g_hooks = NoArray /\ threads = NoArray /\ table = {}
  /\ pc = "idle" /\ then = Return /\ others = 0 /\ walked = 0
-----------------------------------------------------------------------------
(* The heap: what its functions may return, and the blocks that there are then.  *)

BytesOf(B, b) == IF b \in DOMAIN B THEN B[b].unit * Len(B[b].data) ELSE 0

Bytes(B) == BytesOf(B, 1) + BytesOf(B, 2) + BytesOf(B, 3)

Given(b, B) == [pItems |-> b, blocks |-> B]

\* A block of n elements whose contents are data, or none.
Malloc(B, unit, data) ==
  LET new == CHOOSE b \in Blocks : b \notin DOMAIN B
      more == [b \in DOMAIN B \cup {new} |->
                 IF b = new THEN [unit |-> unit, data |-> data] ELSE B[b]]
  IN  {Given(NULL, B)} \cup IF Bytes(more) <= room THEN {Given(new, more)} ELSE {}

HeapAlloc(B, unit, n) == Malloc(B, unit, [i \in 1 .. n |-> Garbage])

HeapFree(B, p) == Restrict(B, DOMAIN B \ {p})

\* Slip: the statistics leave the size as it was, uninitialised.
OldSizesUnknown(data) == 1 .. 2 * Len(data)

\* What HeapReAlloc takes for the size of a block: stats.size, which only the statistics
\* set.  It gives up when it finds a zero there.
OldSizes(data) == IF honest THEN {Len(data)} ELSE 1 .. 2 * Len(data)

Copied(data, oldSize, n) ==
  [i \in 1 .. n |-> IF i <= oldSize /\ i \in DOMAIN data THEN data[i] ELSE Garbage]

\* Slip: the old block is forgotten.
HeapReAllocKeeping(B, p, n) ==
  UNION {Malloc(B, B[p].unit, Copied(B[p].data, oldSize, n)) : oldSize \in OldSizes(B[p].data)}

\* The new block is taken before the old one goes.
HeapReAlloc(B, p, n) ==
  LET tries == UNION {Malloc(B, B[p].unit, Copied(B[p].data, oldSize, n))
                        : oldSize \in OldSizes(B[p].data)}
  IN  {IF r.pItems = NULL THEN r ELSE Given(r.pItems, HeapFree(r.blocks, p)) : r \in tries}
-----------------------------------------------------------------------------
(* The arrays: what they may be after an operation, and the blocks then.          *)

Array(a, B) == [array |-> a, blocks |-> B]

Resized(a, B, n) ==
  {IF r.pItems = NULL THEN Array(a, B)
   ELSE Array([a EXCEPT !.pItems = r.pItems, !.capacity = n], r.blocks)
     : r \in HeapReAlloc(B, a.pItems, n)}

\* Slip: > for >=.
FullLate(a) == a.size > a.capacity

Full(a) == a.size >= a.capacity

\* The first half of AddHookEntry and of the loop in EnumerateThreads: room for one more,
\* if the heap gives it.
Grown(a, initial, unit) ==
  IF a.pItems = NULL
  THEN {Array([a EXCEPT !.pItems = r.pItems, !.capacity = initial], r.blocks)
          : r \in HeapAlloc(blocks, unit, initial)}
  ELSE IF Full(a) THEN Resized(a, blocks, 2 * a.capacity)
  ELSE {Array(a, blocks)}

HasRoom(a) == a.pItems # NULL /\ ~ Full(a)

Stored(B, p, i, element) == [B EXCEPT ![p].data[i] = element]

\* The second half: the element after the last.
Appended(g, element) ==
  Array([g.array EXCEPT !.size = @ + 1],
        Stored(g.blocks, g.array.pItems, g.array.size + 1, element))

Items == blocks[g_hooks.pItems].data
FindHookEntry(h) == {i \in 1 .. g_hooks.size : Items[i] = h}

\* Slip: the size is not looked at.
SpareHalfAnyway(a) == a.capacity \div 2 >= InitialHooks

SpareHalf(a) == a.capacity \div 2 >= InitialHooks /\ a.capacity \div 2 >= a.size

\* The last entry moves into the hole, and the array shrinks if the heap lets it.
DeleteHookEntry(pos) ==
  LET a == [g_hooks EXCEPT !.size = @ - 1]
      B == Stored(blocks, g_hooks.pItems, pos, Items[g_hooks.size])
  IN  IF SpareHalf(a) THEN Resized(a, B, a.capacity \div 2) ELSE {Array(a, B)}
-----------------------------------------------------------------------------
(* The calls.                                                                    *)

\* HeapCreate fails at the mapping, or at the arena and leaves its page mapped.
MH_Initialize ==
  /\ pc = "idle" /\ ~ g_hHeap
  /\ \/ UNCHANGED <<mapped, flexibleMemory, g_hHeap>>
     \/ \E page \in Pages \ mapped, created \in BOOLEAN :
          /\ mapped' = mapped \cup {page} /\ flexibleMemory' = page
          /\ g_hHeap' = created
  /\ UNCHANGED <<room, honest, blocks, g_hooks, threads, table, pc, progress>>

\* MH_CreateHook of a target that has no hook, as far as AddHookEntry.
MH_CreateHook(h) ==
  /\ pc = "idle" /\ g_hHeap
  /\ FindHookEntry(h) = {}
  /\ \E g \in Grown(g_hooks, InitialHooks, HookBytes) :
       LET after == IF HasRoom(g.array) THEN Appended(g, h) ELSE g
       IN  /\ g_hooks' = after.array /\ blocks' = after.blocks
           /\ table' = IF HasRoom(g.array) THEN table \cup {h} ELSE table
  /\ UNCHANGED <<world, threads, pc, progress>>

\* A call that switches hooks begins with Freeze; what it does after Unfreeze is chosen.
Freeze(next) ==
  /\ pc = "idle" /\ g_hooks.size > 0
  /\ pc' = "enumerate" /\ then' = next
  /\ threads' = NoArray
  /\ others' \in 0 .. MostThreads /\ walked' = 0
  /\ UNCHANGED <<world, blocks, g_hooks, table>>

\* EnumerateThreads walks on until the last thread or the first refusal of the heap.
EnumerateThreads ==
  /\ pc = "enumerate"
  /\ IF walked = others
     THEN pc' = "frozen" /\ UNCHANGED <<blocks, threads, walked>>
     ELSE \E g \in Grown(threads, InitialThreads, ThreadBytes) :
            IF HasRoom(g.array)
            THEN LET after == Appended(g, walked + 1)
                 IN  /\ threads' = after.array /\ blocks' = after.blocks
                     /\ walked' = walked + 1 /\ pc' = pc
            ELSE /\ threads' = g.array /\ blocks' = g.blocks
                 /\ pc' = "frozen" /\ UNCHANGED walked
  /\ UNCHANGED <<world, g_hooks, table, then, others>>

\* The list goes out of scope with its call. A call whose switching was refused returns.
Unfreeze ==
  /\ pc = "frozen"
  /\ blocks' = HeapFree(blocks, threads.pItems) /\ threads' = NoArray
  /\ others' = 0 /\ walked' = 0
  /\ \/ then # Return /\ pc' = "go on" /\ UNCHANGED then
     \/ pc' = "idle" /\ then' = Return
  /\ UNCHANGED <<world, g_hooks, table>>

\* The call goes on after Unfreeze, or had nothing to switch.
GoesOn(next) ==
  /\ pc = "idle" \/ (pc = "go on" /\ then = next)
  /\ pc' = "idle" /\ then' = Return
  /\ UNCHANGED <<threads, others, walked>>

MH_RemoveHook(h) ==
  /\ GoesOn(Delete(h))
  /\ \E pos \in FindHookEntry(h) : \E g \in DeleteHookEntry(pos) :
       g_hooks' = g.array /\ blocks' = g.blocks
  /\ table' = table \ {h}
  /\ UNCHANGED world

\* HeapDestroy may fail at the arena or at the page, which then stays mapped.
MH_Uninitialize ==
  /\ GoesOn(Destroy)
  /\ g_hHeap /\ g_hHeap' = FALSE
  /\ mapped' \in {mapped, mapped \ {flexibleMemory}}
  /\ blocks' = << >> /\ g_hooks' = NoArray /\ table' = {}
  /\ UNCHANGED <<room, honest, flexibleMemory>>

Next ==
  \/ MH_Initialize \/ MH_Uninitialize
  \/ EnumerateThreads \/ Unfreeze
  \/ Freeze(Return) \/ Freeze(Destroy)
  \/ \E h \in Hooks :
       \/ MH_CreateHook(h) \/ MH_RemoveHook(h)
       \/ FindHookEntry(h) # {} /\ Freeze(Delete(h))

Spec == Init /\ [][Next]_vars
-----------------------------------------------------------------------------
(* Properties.                                                                 *)

ArrayType == [pItems: Blocks \cup {NULL}, capacity: Nat, size: Nat]

\* Every variable has its type: no array is written past its end or shrunk below what is
\* in it, and the blocks fit the heap.
TypeOK ==
  /\ mapped \subseteq Pages /\ flexibleMemory \in Pages \cup {NULL}
  /\ g_hHeap \in BOOLEAN /\ DOMAIN blocks \subseteq Blocks /\ Bytes(blocks) <= room
  /\ pc \in {"idle", "enumerate", "frozen", "go on"} /\ others \in 0 .. MostThreads
  /\ \A a \in {g_hooks, threads} :
       /\ a \in ArrayType /\ (a.pItems = NULL => a.size = 0)
       /\ a.pItems # NULL => a.size <= a.capacity /\ Len(blocks[a.pItems].data) = a.capacity

\* Growing, shrinking and moving keep what is in the arrays: the hooks are those that were
\* created and not removed, each once, and the thread list is every thread met so far.  On a
\* heap of more than the page HeapCreate asks for, this takes statistics that tell the size
\* of a block (windows_wrapper.cpp:291, "replace with real logic"); on that page no array
\* grows, and nothing is lost without them.
ArraysKept ==
  honest \/ room <= OnePage =>
    /\ {Items[i] : i \in 1 .. g_hooks.size} = table
    /\ g_hooks.size = Cardinality(table)
    /\ threads.size = walked
    /\ \A i \in 1 .. threads.size : blocks[threads.pItems].data[i] = i

\* Nothing on the heap is lost or used after it was freed: the blocks are the two arrays',
\* and the page of a heap that exists is mapped.
HeapOwned ==
  /\ DOMAIN blocks = {g_hooks.pItems, threads.pItems} \ {NULL}
  /\ g_hooks.pItems # NULL => g_hooks.pItems # threads.pItems
  /\ g_hHeap => flexibleMemory \in mapped
  /\ ~ g_hHeap => blocks = << >>
===============================================================================
