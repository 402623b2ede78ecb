-------------------------- MODULE ThreadFreeze_proofs --------------------------
(***************************************************************************)
(* Patching while others run, for any number of threads and instructions   *)
(* under the patch: every thread keeps its place; if Freeze reaches every  *)
(* thread and the kernel refuses nothing, none of them runs half a patch,  *)
(* and only those in an expanded copy stay in the slot of a disabled hook. *)
(***************************************************************************)
EXTENDS ThreadFreeze, FiniteSetTheorems, TLAPS

\* The wrappers work, EnumerateThreads has room for all threads, nobody calls
\* MH_DisableHook for one hook, which passes ACTION_ENABLE to Freeze, and the rest of the
\* target branches back to its first instruction only.
AllFrozen ==
  /\ CanOpen = TRUE /\ "disable" \notin Operations /\ Entries \subseteq {0}
  /\ IsFiniteSet(Threads) /\ Cardinality(Threads) <= ListRoom

\* Nobody is at the second half of a copy that has none.
Real(place) ==
  \A i \in Numbers : /\ place \in {HalfAt(i), CallOfSlot(i)} => i \in Expanded
                     /\ place = CallOfTarget(i) => i = Moved - 1

\* The n instructions it executed are those before its place.
AfterSteps(place, n) ==
  /\ \A i \in Numbers : place \in {TargetAt(i), SlotAt(i)} => n = i
  /\ place \in {Above, Relay} => n = 0

Good(place, n) == place \in Places /\ n \in Numbers /\ Real(place) /\ AfterSteps(place, n)

\* What holds whatever the wrappers do: the first inductive invariant.
Kept == TypeOK /\ \A t \in Threads : Good(ip[t], done[t])

Switching == {"suspend", "write", "resume"}

\* What is true of the hook and the caller, by what the caller does next.
PhaseOK ==
  /\ pc \in {"idle", "free"} => suspended = {}
  /\ pc \in Switching => created /\ list = Threads /\ call # "disable"
  /\ pc \in {"suspend", "write"} => (Wanted(call) <=> ~ enabled)
  /\ pc = "write" => suspended = Threads
  /\ pc # "write" => jump = IF enabled THEN Pieces ELSE {}
  /\ pc = "free" => created /\ ~ enabled
  /\ ~ created => ~ enabled

\* Where a thread may run while the patch is written: not under it.
FitsPatched(place) ==
  /\ place # Torn
  /\ \A i \in Numbers : place = TargetAt(i) => i \in {0, Moved}
  /\ place = Above => patchAbove

\* Where it may run while the patch is not: not in it, nor in the slot but where
\* FindOldIP left it.
FitsUnpatched(place) ==
  /\ place \notin {Torn, Above, Relay}
  /\ callsOriginal \/ \A i \in Numbers : place = SlotAt(i) => LeftBehind(place)

\* The slot was freed under it.
FreedOK(place) == place = Freed => callsOriginal \/ Expanded # {}

Fit(place, patched) ==
  /\ patched => FitsPatched(place)
  /\ ~ patched => FitsUnpatched(place)
  /\ FreedOK(place)

\* A thread that was moved is where the hook's next state wants it, any other where its
\* state wants it.
SeesHook(t) == IF pc \in {"suspend", "write"} /\ t \in suspended THEN ~ enabled ELSE enabled

ThreadsFit == \A t \in Threads : Fit(ip[t], SeesHook(t))

\* The second inductive invariant: what holds if Freeze reaches every thread.
IInv == Kept /\ PhaseOK /\ (refused \/ ThreadsFit)
-----------------------------------------------------------------------------
(* Places.                                                                     *)

\* No two places are one.
LEMMA PlacesApart ==
  /\ \A i, j \in Numbers :
       /\ TargetAt(i) = TargetAt(j) => i = j
       /\ SlotAt(i) = SlotAt(j) => i = j
       /\ HalfAt(i) = HalfAt(j) => i = j
       /\ CallOfTarget(i) = CallOfTarget(j) => i = j
       /\ CallOfSlot(i) = CallOfSlot(j) => i = j
       /\ TargetAt(i) \notin {SlotAt(j), HalfAt(j), CallOfTarget(j), CallOfSlot(j)}
       /\ SlotAt(i) \notin {HalfAt(j), CallOfTarget(j), CallOfSlot(j)}
       /\ HalfAt(i) \notin {CallOfTarget(j), CallOfSlot(j)}
       /\ CallOfTarget(i) # CallOfSlot(j)
  /\ \A i \in Numbers :
       {TargetAt(i), SlotAt(i), HalfAt(i), CallOfTarget(i), CallOfSlot(i)}
         \cap {Out, Above, Relay, Detour, Torn, Freed} = {}
  /\ Out \notin {Above, Relay, Detour, Torn, Freed}
  /\ Above \notin {Relay, Detour, Torn, Freed}
  /\ Relay \notin {Detour, Torn, Freed} /\ Detour \notin {Torn, Freed} /\ Torn # Freed
BY DEF TargetAt, SlotAt, HalfAt, CallOfTarget, CallOfSlot, Out, Above, Relay, Detour,
       Torn, Freed

LEMMA PlacesTyped ==
  /\ {Out, Above, Relay, Detour, Torn, Freed} \subseteq Places
  /\ \A i \in Numbers :
       {TargetAt(i), SlotAt(i), HalfAt(i), CallOfTarget(i), CallOfSlot(i)} \subseteq Places
BY DEF Places

LEMMA NumbersTyped ==
  /\ 0 \in Numbers /\ Moved \in Numbers /\ 0 # Moved /\ Moved - 1 \in Numbers
  /\ \A i \in Numbers : i \in Nat /\ (i < Moved <=> i \in 0 .. Moved - 1)
  /\ \A i \in 0 .. Moved - 1 : i \in Numbers /\ i + 1 \in Numbers /\ i < Moved
  /\ (Moved - 1) + 1 = Moved
  /\ Expanded \subseteq 0 .. Moved - 1
BY ThreadAssumption DEF Numbers, Expanded

\* A place that is no instruction.
LEMMA ElsewhereFits ==
  ASSUME NEW place \in {Out, Detour}, NEW patched \in BOOLEAN
  PROVE  Good(place, 0) /\ Fit(place, patched)
BY PlacesApart, PlacesTyped, NumbersTyped
   DEF Good, Real, AfterSteps, Fit, FitsPatched, FitsUnpatched, FreedOK

LEMMA WildGood ==
  ASSUME NEW place \in {Torn, Freed, Above, Relay}
  PROVE  Good(place, 0)
BY PlacesApart, PlacesTyped, NumbersTyped DEF Good, Real, AfterSteps

LEMMA PatchFits ==
  /\ Fit(Relay, TRUE)
  /\ patchAbove => Fit(Above, TRUE)
BY PlacesApart DEF Fit, FitsPatched, FreedOK

LEMMA TargetFits ==
  ASSUME NEW i \in Numbers
  PROVE  /\ Good(TargetAt(i), i)
         /\ Fit(TargetAt(i), FALSE)
         /\ i \in {0, Moved} => Fit(TargetAt(i), TRUE)
<1>1. Good(TargetAt(i), i)
  BY PlacesApart, PlacesTyped DEF Good, Real, AfterSteps
<1>2. FreedOK(TargetAt(i))
  BY PlacesApart DEF FreedOK
<1>3. FitsUnpatched(TargetAt(i))
  BY PlacesApart DEF FitsUnpatched
<1>4. i \in {0, Moved} => FitsPatched(TargetAt(i))
  BY PlacesApart DEF FitsPatched
<1>. QED  BY <1>1, <1>2, <1>3, <1>4 DEF Fit

LEMMA SlotFits ==
  ASSUME NEW i \in Numbers
  PROVE  /\ Good(SlotAt(i), i)
         /\ Fit(SlotAt(i), TRUE)
         /\ callsOriginal \/ LeftBehind(SlotAt(i)) => Fit(SlotAt(i), FALSE)
<1>1. Good(SlotAt(i), i)
  BY PlacesApart, PlacesTyped DEF Good, Real, AfterSteps
<1>2. FreedOK(SlotAt(i))
  BY PlacesApart DEF FreedOK
<1>3. FitsPatched(SlotAt(i))
  BY PlacesApart DEF FitsPatched
<1>4. callsOriginal \/ LeftBehind(SlotAt(i)) => FitsUnpatched(SlotAt(i))
  BY PlacesApart DEF FitsUnpatched
<1>. QED  BY <1>1, <1>2, <1>3, <1>4 DEF Fit

\* In an expanded copy, or in the function it calls.
LEMMA HalfFits ==
  ASSUME NEW i \in Expanded, NEW n \in Numbers, NEW place \in {HalfAt(i), CallOfSlot(i)},
         NEW patched \in BOOLEAN
  PROVE  Good(place, n) /\ Fit(place, patched)
<1>0. i \in Numbers
  BY NumbersTyped
<1>1. place \in Places /\ AfterSteps(place, n)
  <2>1. /\ \A j \in Numbers : place # TargetAt(j) /\ place # SlotAt(j)
        /\ place # Above /\ place # Relay
    BY <1>0, PlacesApart
  <2>. QED  BY <1>0, <2>1, PlacesTyped DEF AfterSteps
<1>2. Real(place)
  BY <1>0, PlacesApart DEF Real
<1>3. FitsPatched(place) /\ FitsUnpatched(place) /\ FreedOK(place)
  BY <1>0, PlacesApart DEF FitsPatched, FitsUnpatched, FreedOK
<1>. QED  BY <1>1, <1>2, <1>3 DEF Good, Fit

LEMMA CallFits ==
  ASSUME NEW n \in Numbers, NEW patched \in BOOLEAN
  PROVE  Good(CallOfTarget(Moved - 1), n) /\ Fit(CallOfTarget(Moved - 1), patched)
<1>0. Moved - 1 \in Numbers
  BY NumbersTyped
<1>1. CallOfTarget(Moved - 1) \in Places /\ AfterSteps(CallOfTarget(Moved - 1), n)
  BY <1>0, PlacesApart, PlacesTyped DEF AfterSteps
<1>2. Real(CallOfTarget(Moved - 1))
  BY <1>0, PlacesApart DEF Real
<1>3. /\ FitsPatched(CallOfTarget(Moved - 1)) /\ FitsUnpatched(CallOfTarget(Moved - 1))
      /\ FreedOK(CallOfTarget(Moved - 1))
  BY <1>0, PlacesApart DEF FitsPatched, FitsUnpatched, FreedOK
<1>. QED  BY <1>1, <1>2, <1>3 DEF Good, Fit

\* FindNewIP moves a thread from the target to the same instruction of the slot.
LEMMA FindNewIPSpec ==
  /\ \A i \in Numbers : FindNewIP(TargetAt(i)) = SlotAt(i)
  /\ \A i \in Numbers : FindNewIP(SlotAt(i)) = SlotAt(i)
  /\ FindNewIP(Above) = Above /\ FindNewIP(Relay) = Relay
  /\ \A place : (\A i \in Numbers : place # TargetAt(i)) => FindNewIP(place) = place
<1>1. ASSUME NEW i \in Numbers PROVE FindNewIP(TargetAt(i)) = SlotAt(i)
  <2>1. (CHOOSE j \in Numbers : TargetAt(i) = TargetAt(j)) = i
    BY PlacesApart
  <2>. QED  BY <2>1 DEF FindNewIP
<1>2. ASSUME NEW place, \A i \in Numbers : place # TargetAt(i)
      PROVE  FindNewIP(place) = place
  BY <1>2 DEF FindNewIP
<1>3. \A i, j \in Numbers : TargetAt(j) \notin {SlotAt(i), Above, Relay}
  BY PlacesApart
<1>. QED  BY <1>1, <1>2, <1>3

\* FindOldIP moves it back, and out of the patch.
LEMMA FindOldIPSpec ==
  /\ \A i \in Numbers : FindOldIP(SlotAt(i)) = TargetAt(i)
  /\ \A i \in Numbers : FindOldIP(TargetAt(i)) = TargetAt(i)
  /\ FindOldIP(Above) = TargetAt(0) /\ FindOldIP(Relay) = TargetAt(0)
  /\ \A place : place \notin {Above, Relay} /\ (\A i \in Numbers : place # SlotAt(i))
                => FindOldIP(place) = place
<1>1. ASSUME NEW i \in Numbers PROVE FindOldIP(SlotAt(i)) = TargetAt(i)
  <2>1. (CHOOSE j \in Numbers : SlotAt(i) = SlotAt(j)) = i
    BY PlacesApart
  <2>2. SlotAt(i) \notin {Above, Relay}
    BY PlacesApart
  <2>. QED  BY <2>1, <2>2 DEF FindOldIP
<1>2. ASSUME NEW place, place \notin {Above, Relay}, \A i \in Numbers : place # SlotAt(i)
      PROVE  FindOldIP(place) = place
  BY <1>2 DEF FindOldIP
<1>3. \A i, j \in Numbers : TargetAt(i) # SlotAt(j) /\ TargetAt(i) \notin {Above, Relay}
  BY PlacesApart
<1>4. FindOldIP(Above) = TargetAt(0) /\ FindOldIP(Relay) = TargetAt(0)
  BY DEF FindOldIP
<1>. QED  BY <1>1, <1>2, <1>3, <1>4

\* A thread that Freeze moves fits the state the hook is switched to, and is as far in the
\* target as it was.
LEMMA MovedFits ==
  ASSUME NEW place, NEW n, Good(place, n)
  PROVE  /\ Good(FindNewIP(place), n) /\ Good(FindOldIP(place), n)
         /\ Fit(place, FALSE) => Fit(FindNewIP(place), TRUE)
         /\ Fit(place, TRUE) => Fit(FindOldIP(place), FALSE)
<1>1. CASE \E i \in Numbers : place = TargetAt(i)
  <2>1. PICK i \in Numbers : place = TargetAt(i)
    BY <1>1
  <2>2. n = i
    BY <2>1 DEF Good, AfterSteps
  <2>3. FindNewIP(place) = SlotAt(i) /\ FindOldIP(place) = place
    BY <2>1, FindNewIPSpec, FindOldIPSpec
  <2>. QED  BY <2>1, <2>2, <2>3, TargetFits, SlotFits
<1>2. CASE \E i \in Numbers : place = SlotAt(i)
  <2>1. PICK i \in Numbers : place = SlotAt(i)
    BY <1>2
  <2>2. n = i
    BY <2>1 DEF Good, AfterSteps
  <2>3. FindNewIP(place) = place /\ FindOldIP(place) = TargetAt(i)
    BY <2>1, FindNewIPSpec, FindOldIPSpec
  <2>. QED  BY <2>1, <2>2, <2>3, TargetFits, SlotFits
<1>3. CASE place \in {Above, Relay}
  <2>1. n = 0
    BY <1>3 DEF Good, AfterSteps
  <2>2. FindNewIP(place) = place /\ FindOldIP(place) = TargetAt(0)
    BY <1>3, FindNewIPSpec, FindOldIPSpec
  <2>3. ~ Fit(place, FALSE)
    BY <1>3 DEF Fit, FitsUnpatched
  <2>. QED  BY <2>1, <2>2, <2>3, TargetFits, NumbersTyped
<1>4. CASE /\ place \notin {Above, Relay}
           /\ \A i \in Numbers : place \notin {TargetAt(i), SlotAt(i)}
  <2>1. FindNewIP(place) = place /\ FindOldIP(place) = place
    BY <1>4, FindNewIPSpec, FindOldIPSpec
  <2>2. Fit(place, FALSE) => Fit(place, TRUE)
    BY <1>4 DEF Fit, FitsPatched, FitsUnpatched
  <2>3. Fit(place, TRUE) => Fit(place, FALSE)
    BY <1>4 DEF Fit, FitsPatched, FitsUnpatched
  <2>. QED  BY <2>1, <2>2, <2>3
<1>. QED  BY <1>1, <1>2, <1>3, <1>4

LEMMA PiecesFacts ==
  /\ "opcode" \in Pieces /\ Pieces # {} /\ ("above" \in Pieces <=> patchAbove)
BY DEF Pieces

\* What an instruction under the patch may be.
LEMMA BodyFacts ==
  ASSUME TypeOK, NEW i \in 0 .. Moved - 1
  PROVE  /\ body[i] \in {"call", "ret"} => i = Moved - 1
         /\ body[i] \in {"call", "jcc"} <=> i \in Expanded
BY ThreadAssumption DEF TypeOK, Expanded

-----------------------------------------------------------------------------
(* The threads run.                                                            *)

\* What a running thread meets: the hook as it is, patched or not, never in between.
Sees(t) ==
  /\ jump = (IF enabled THEN Pieces ELSE {}) /\ enabled \in BOOLEAN
  /\ enabled => created
  /\ Fit(ip[t], enabled)
  /\ Entries \subseteq {0}

\* Thread t goes on at a place that is good and, if it sees the hook, fits.
Goes(t) ==
  \E to, n : Go(t, ip[t], to, n) /\ Good(to, n) /\ (Sees(t) => Fit(to, enabled))

LEMMA GoesTo ==
  ASSUME NEW t, NEW from, NEW to, NEW n, Go(t, from, to, n), Good(to, n),
         Sees(t) => Fit(to, enabled)
  PROVE  Goes(t)
<1>1. from = ip[t]
  BY DEF Go
<1>. QED  BY <1>1 DEF Goes

\* A step to where no hook matters.
LEMMA GoesElsewhere ==
  ASSUME NEW t, NEW from, NEW to \in {Out, Detour}, Go(t, from, to, 0)
  PROVE  Goes(t)
<1>1. Good(to, 0) /\ (Sees(t) => Fit(to, enabled))
  BY ElsewhereFits DEF Sees
<1>. QED  BY <1>1, GoesTo

\* A step that no thread takes that sees the hook.
LEMMA GoesWild ==
  ASSUME NEW t, NEW from, NEW to \in {Torn, Freed}, Go(t, from, to, 0), ~ Sees(t)
  PROVE  Goes(t)
BY WildGood, GoesTo

\* An instruction under the patch that is there.
LEMMA RunMovedGoes ==
  ASSUME TypeOK, NEW t \in Threads, NEW i \in 0 .. Moved - 1, Unpatched, RunMoved(t, i)
  PROVE  Goes(t)
<1>0. i + 1 \in Numbers /\ (Sees(t) => ~ enabled)
  BY NumbersTyped, PiecesFacts DEF Sees, Unpatched
<1>1. CASE Go(t, TargetAt(i), TargetAt(i + 1), i + 1)
  <2>1. Good(TargetAt(i + 1), i + 1) /\ Fit(TargetAt(i + 1), FALSE)
    BY <1>0, TargetFits
  <2>2. Sees(t) => Fit(TargetAt(i + 1), enabled)
    BY <1>0, <2>1 DEF Sees
  <2>. QED  BY <1>1, <2>1, <2>2, GoesTo
<1>2. CASE Go(t, TargetAt(i), Out, 0)
  BY <1>2, GoesElsewhere
<1>3. CASE body[i] = "call" /\ Go(t, TargetAt(i), CallOfTarget(i), i + 1)
  <2>1. i = Moved - 1
    BY <1>3, BodyFacts
  <2>2. Good(CallOfTarget(i), i + 1) /\ (Sees(t) => Fit(CallOfTarget(i), enabled))
    BY <1>0, <2>1, CallFits DEF Sees
  <2>. QED  BY <1>3, <2>2, GoesTo
<1>. QED  BY <1>1, <1>2, <1>3 DEF RunMoved

LEMMA RunTargetGoes ==
  ASSUME Kept, NEW t \in Threads, NEW i \in Numbers, RunTarget(t, i)
  PROVE  Goes(t)
<1>0. /\ TypeOK /\ Good(ip[t], done[t])
      /\ Sees(t) => (Unpatched <=> ~ enabled) /\ (Patched <=> enabled)
  BY PiecesFacts DEF Kept, Sees, Unpatched, Patched
<1>1. CASE i < Moved /\ Unpatched /\ RunMoved(t, i)
  BY <1>0, <1>1, NumbersTyped, RunMovedGoes
<1>2. CASE Patched /\ Go(t, TargetAt(0), IF patchAbove THEN Above ELSE Relay, 0)
  <2>. DEFINE to == IF patchAbove THEN Above ELSE Relay
  <2>1. Good(to, 0) /\ Fit(to, TRUE)
    BY WildGood, PatchFits
  <2>2. Sees(t) => Fit(to, enabled)
    BY <1>0, <1>2, <2>1 DEF Sees
  <2>. QED  BY <1>2, <2>1, <2>2, GoesTo
<1>3. CASE ~ Unpatched /\ ~ Patched /\ Go(t, TargetAt(0), Torn, 0)
  BY <1>0, <1>3, GoesWild
<1>4. CASE 0 < i /\ i < Moved /\ ~ Unpatched /\ Go(t, TargetAt(i), Torn, 0)
  <2>1. ip[t] = TargetAt(i) /\ i \notin {0, Moved}
    BY <1>4, NumbersTyped DEF Go
  <2>2. ~ Sees(t)
    BY <1>0, <1>4, <2>1 DEF Sees, Fit, FitsPatched
  <2>. QED  BY <1>4, <2>2, GoesWild
<1>5. CASE Go(t, TargetAt(i), Out, 0)
  BY <1>5, GoesElsewhere
<1>6. CASE i \in Entries /\ Go(t, TargetAt(Moved), TargetAt(i), i)
  <2>1. Good(TargetAt(i), i) /\ (Sees(t) => i = 0)
    BY <1>6, TargetFits DEF Sees
  <2>2. Sees(t) => Fit(TargetAt(i), enabled)
    BY <2>1, TargetFits DEF Sees
  <2>. QED  BY <1>6, <2>1, <2>2, GoesTo
<1>7. CASE i < Moved /\ Go(t, CallOfTarget(i), TargetAt(i + 1), i + 1)
  <2>1. i = Moved - 1
    BY <1>0, <1>7 DEF Go, Good, Real
  <2>2. i + 1 = Moved /\ Moved \in Numbers
    BY <2>1, NumbersTyped
  <2>3. Good(TargetAt(i + 1), i + 1) /\ (Sees(t) => Fit(TargetAt(i + 1), enabled))
    BY <2>2, TargetFits DEF Sees
  <2>. QED  BY <1>7, <2>3, GoesTo
<1>. QED  BY <1>1, <1>2, <1>3, <1>4, <1>5, <1>6, <1>7 DEF RunTarget

\* In the slot.
LEMMA RunSlotGoes ==
  ASSUME Kept, NEW t \in Threads, RunSlot(t)
  PROVE  Goes(t)
<1>0. TypeOK /\ Good(ip[t], done[t])
  BY DEF Kept
<1>1. CASE Go(t, Relay, Detour, 0)
  BY <1>1, GoesElsewhere
<1>2. CASE Go(t, SlotAt(Moved), TargetAt(Moved), Moved)
  <2>1. Good(TargetAt(Moved), Moved) /\ (Sees(t) => Fit(TargetAt(Moved), enabled))
    BY NumbersTyped, TargetFits DEF Sees
  <2>. QED  BY <1>2, <2>1, GoesTo
<1>3. ASSUME NEW i \in 0 .. Moved - 1, body[i] \in {"plain", "jcc"},
             Go(t, SlotAt(i), SlotAt(i + 1), i + 1)
      PROVE  Goes(t)
  <2>1. i \in Numbers /\ i + 1 \in Numbers /\ ip[t] = SlotAt(i)
    BY <1>3, NumbersTyped DEF Go
  <2>2. ~ LeftBehind(SlotAt(i))
    <3>. SUFFICES ASSUME NEW j \in Expanded,
                         \/ SlotAt(i) \in {HalfAt(j), CallOfSlot(j)}
                         \/ body[j] = "call" /\ SlotAt(i) = SlotAt(j + 1)
                  PROVE  FALSE
      BY DEF LeftBehind
    <3>1. j \in 0 .. Moved - 1 /\ j \in Numbers /\ j + 1 \in Numbers
      BY NumbersTyped
    <3>2. body[j] = "call" /\ i = j + 1
      BY <2>1, <3>1, PlacesApart
    <3>3. j = Moved - 1
      BY <1>0, <3>1, <3>2, BodyFacts
    <3>. QED  BY <3>2, <3>3, NumbersTyped
  <2>3. Sees(t) /\ ~ enabled => callsOriginal
    BY <2>1, <2>2 DEF Sees, Fit, FitsUnpatched
  <2>4. Good(SlotAt(i + 1), i + 1) /\ (Sees(t) => Fit(SlotAt(i + 1), enabled))
    BY <2>1, <2>3, SlotFits DEF Sees
  <2>. QED  BY <1>3, <2>4, GoesTo
<1>4. ASSUME NEW i \in 0 .. Moved - 1, Go(t, SlotAt(i), Out, 0) \/ Go(t, HalfAt(i), Out, 0)
      PROVE  Goes(t)
  BY <1>4, GoesElsewhere
<1>5. ASSUME NEW i \in 0 .. Moved - 1, body[i] \in {"jcc", "call"},
             NEW from, NEW to \in {HalfAt(i), CallOfSlot(i)}, NEW n \in {i, i + 1},
             Go(t, from, to, n)
      PROVE  Goes(t)
  <2>1. i \in Expanded /\ n \in Numbers
    BY <1>0, <1>5, BodyFacts, NumbersTyped
  <2>2. Good(to, n) /\ (Sees(t) => Fit(to, enabled))
    BY <2>1, HalfFits DEF Sees
  <2>. QED  BY <1>5, <2>2, GoesTo
<1>6. ASSUME NEW i \in 0 .. Moved - 1, body[i] = "call",
             Go(t, HalfAt(i), SlotAt(i + 1), i + 1)
      PROVE  Goes(t)
  <2>1. i \in Expanded /\ i + 1 \in Numbers
    BY <1>0, <1>6, BodyFacts, NumbersTyped
  <2>2. LeftBehind(SlotAt(i + 1))
    BY <1>6, <2>1 DEF LeftBehind
  <2>3. Good(SlotAt(i + 1), i + 1) /\ (Sees(t) => Fit(SlotAt(i + 1), enabled))
    BY <2>1, <2>2, SlotFits DEF Sees
  <2>. QED  BY <1>6, <2>3, GoesTo
<1>. QED  BY <1>1, <1>2, <1>3, <1>4, <1>5, <1>6 DEF RunSlot

\* Anywhere else.
LEMMA RunElsewhereGoes ==
  ASSUME Kept, NEW t \in Threads, RunElsewhere(t)
  PROVE  Goes(t)
<1>0. Good(ip[t], done[t])
  BY DEF Kept
<1>1. CASE Go(t, Out, TargetAt(0), 0)
  <2>1. Good(TargetAt(0), 0) /\ (Sees(t) => Fit(TargetAt(0), enabled))
    BY NumbersTyped, TargetFits DEF Sees
  <2>. QED  BY <1>1, <2>1, GoesTo
<1>2. CASE Go(t, Above, Relay, 0)
  <2>1. Sees(t) => enabled
    BY <1>2 DEF Go, Sees, Fit, FitsUnpatched
  <2>2. Good(Relay, 0) /\ (Sees(t) => Fit(Relay, enabled))
    BY <2>1, WildGood, PatchFits DEF Sees
  <2>. QED  BY <1>2, <2>2, GoesTo
<1>3. CASE "above" \notin jump /\ Go(t, Above, Torn, 0)
  <2>1. Sees(t) => enabled /\ patchAbove
    BY <1>3 DEF Go, Sees, Fit, FitsUnpatched, FitsPatched
  <2>2. ~ Sees(t)
    BY <1>3, <2>1, PiecesFacts DEF Sees
  <2>. QED  BY <1>3, <2>2, GoesWild
<1>4. CASE Go(t, Detour, Out, 0)
  BY <1>4, GoesElsewhere
<1>5. CASE callsOriginal /\ Go(t, Detour, SlotAt(0), 0)
  <2>1. Good(SlotAt(0), 0) /\ (Sees(t) => Fit(SlotAt(0), enabled))
    BY <1>5, NumbersTyped, SlotFits DEF Sees
  <2>. QED  BY <1>5, <2>1, GoesTo
<1>6. CASE callsOriginal /\ Go(t, Detour, Freed, 0)
  <2>1. Good(Freed, 0)
    BY WildGood
  <2>2. ASSUME NEW patched \in BOOLEAN PROVE Fit(Freed, patched)
    BY <1>6, PlacesApart DEF Fit, FitsPatched, FitsUnpatched, FreedOK
  <2>3. Sees(t) => Fit(Freed, enabled)
    BY <2>2 DEF Sees
  <2>. QED  BY <1>6, <2>1, <2>3, GoesTo
<1>. QED  BY <1>1, <1>2, <1>3, <1>4, <1>5, <1>6 DEF RunElsewhere

LEMMA RunGoes ==
  ASSUME Kept, NEW t \in Threads, Run(t)
  PROVE  Goes(t)
BY RunTargetGoes, RunSlotGoes, RunElsewhereGoes DEF Run

\* The hook's shape is all that Good and Fit look at.
LEMMA ShapeKept ==
  ASSUME UNCHANGED shape, NEW t \in Threads, NEW place, NEW n, NEW patched \in BOOLEAN,
         ip'[t] = place, done'[t] = n
  PROVE  /\ Good(place, n) => Good(ip[t], done[t])'
         /\ Fit(place, patched) /\ SeesHook(t)' = patched => Fit(ip[t], SeesHook(t))'
<1>1. body' = body /\ patchAbove' = patchAbove /\ callsOriginal' = callsOriginal
  BY DEF shape
<1>2. Good(place, n) => Good(ip[t], done[t])'
  BY <1>1 DEF Good, Real, AfterSteps, Expanded
<1>3. ASSUME Fit(place, patched), SeesHook(t)' = patched
      PROVE  Fit(ip[t], SeesHook(t))'
  <2>1. (FreedOK(place) => FreedOK(ip[t])')
    BY <1>1 DEF FreedOK, Expanded
  <2>2. FitsPatched(place) => FitsPatched(ip[t])'
    BY <1>1 DEF FitsPatched
  <2>3. FitsUnpatched(place) => FitsUnpatched(ip[t])'
    BY <1>1 DEF FitsUnpatched, LeftBehind, Expanded
  <2>. QED  BY <1>3, <2>1, <2>2, <2>3 DEF Fit
<1>. QED  BY <1>2, <1>3

\* A running thread sees the hook.
LEMMA RunnerSees ==
  ASSUME AllFrozen, IInv, ~ refused, NEW t \in Threads, t \notin suspended
  PROVE  Sees(t)
<1>1. pc # "write"
  BY DEF IInv, PhaseOK
<1>2. Fit(ip[t], SeesHook(t)) /\ SeesHook(t) = enabled /\ enabled \in BOOLEAN
      /\ created \in BOOLEAN
  BY DEF IInv, ThreadsFit, SeesHook, Kept, TypeOK
<1>. QED  BY <1>1, <1>2 DEF IInv, PhaseOK, Sees, AllFrozen

LEMMA RunKeeps ==
  ASSUME Kept, NEW t \in Threads, Run(t), UNCHANGED <<shape, refused>>
  PROVE  /\ Kept'
         /\ AllFrozen /\ IInv => IInv'
<1>1. PICK to, n : Go(t, ip[t], to, n) /\ Good(to, n) /\ (Sees(t) => Fit(to, enabled))
  BY RunGoes DEF Goes
<1>2. /\ ip' = [ip EXCEPT ![t] = to] /\ done' = [done EXCEPT ![t] = n] /\ t \notin suspended
      /\ UNCHANGED <<suspended, jump, created, enabled, queued, pc, call, list>>
      /\ UNCHANGED <<body, patchAbove, callsOriginal, refused>>
  BY <1>1 DEF Go, shape
<1>3. ip \in [Threads -> Places] /\ done \in [Threads -> Numbers] /\ enabled \in BOOLEAN
  BY DEF Kept, TypeOK
<1>4. /\ ip'[t] = to /\ done'[t] = n
      /\ \A u \in Threads \ {t} : ip'[u] = ip[u] /\ done'[u] = done[u]
  BY <1>2, <1>3
<1>5. TypeOK'
  BY <1>1, <1>2, <1>3 DEF Kept, TypeOK, Pieces, Good
<1>6. ASSUME NEW u \in Threads PROVE Good(ip[u], done[u])'
  <2>1. CASE u = t
    BY <1>1, <1>4, <2>1, ShapeKept
  <2>2. CASE u # t
    BY <1>4, <2>2, ShapeKept DEF Kept
  <2>. QED  BY <2>1, <2>2
<1>7. Kept'
  BY <1>5, <1>6 DEF Kept
<1>8. ASSUME AllFrozen, IInv PROVE IInv'
  <2>1. PhaseOK'
    BY <1>2, <1>8 DEF IInv, PhaseOK, Wanted, Pieces
  <2>2. ASSUME ~ refused, NEW u \in Threads PROVE Fit(ip[u], SeesHook(u))'
    <3>1. SeesHook(u)' = SeesHook(u) /\ SeesHook(u) \in BOOLEAN
      BY <1>2, <1>3 DEF SeesHook
    <3>2. CASE u = t
      <4>1. SeesHook(t) = enabled /\ Sees(t)
        BY <1>2, <1>8, <2>2, RunnerSees DEF SeesHook
      <4>. QED  BY <1>1, <1>3, <1>4, <3>1, <3>2, <4>1, ShapeKept
    <3>3. CASE u # t
      <4>1. Fit(ip[u], SeesHook(u))
        BY <1>8, <2>2 DEF IInv, ThreadsFit
      <4>. QED  BY <1>4, <3>1, <3>3, <4>1, ShapeKept
    <3>. QED  BY <3>2, <3>3
  <2>3. refused' \/ ThreadsFit'
    BY <1>2, <2>2 DEF ThreadsFit
  <2>. QED  BY <1>7, <2>1, <2>3 DEF IInv
<1>. QED  BY <1>7, <1>8

-----------------------------------------------------------------------------
(* The caller switches the hook.                                               *)

\* A step of the caller keeps the first invariant, and the second if Freeze reaches every
\* thread.
StepKeeps == Kept' /\ (AllFrozen /\ IInv => IInv')

\* A step that moves no thread and leaves the hook to every thread as it was.
LEMMA ThreadsStay ==
  ASSUME Kept, UNCHANGED <<ip, done, shape, refused>>, TypeOK',
         AllFrozen /\ IInv =>
           PhaseOK' /\ \A t \in Threads : SeesHook(t)' = SeesHook(t)
  PROVE  StepKeeps
<1>1. ASSUME NEW t \in Threads PROVE Good(ip[t], done[t])'
  BY ShapeKept DEF Kept
<1>2. Kept'
  BY <1>1 DEF Kept
<1>3. ASSUME AllFrozen, IInv PROVE IInv'
  <2>1. ASSUME ~ refused, NEW t \in Threads PROVE Fit(ip[t], SeesHook(t))'
    <3>1. SeesHook(t)' = SeesHook(t) /\ SeesHook(t) \in BOOLEAN
      BY <1>3 DEF SeesHook, Kept, TypeOK
    <3>2. Fit(ip[t], SeesHook(t))
      BY <1>3, <2>1 DEF IInv, ThreadsFit
    <3>. QED  BY <3>1, <3>2, ShapeKept
  <2>. QED  BY <1>2, <1>3, <2>1 DEF IInv, ThreadsFit
<1>. QED  BY <1>2, <1>3 DEF StepKeeps

\* EnumerateThreads finds every thread.
LEMMA AllListed ==
  ASSUME AllFrozen
  PROVE  \A L \in Listed : L = Threads
BY FS_Subset, FS_CardinalityType DEF AllFrozen, Listed

LEMMA CreateKeeps ==
  ASSUME Kept, Create, UNCHANGED <<shape, refused>>
  PROVE  StepKeeps
<1>1. /\ pc = "idle" /\ ~ created /\ created' = TRUE /\ enabled' = FALSE /\ queued' = FALSE
      /\ UNCHANGED <<ip, done, suspended, jump, pc, call, list>>
      /\ UNCHANGED <<body, patchAbove, callsOriginal, refused>>
  BY DEF Create, shape
<1>2. TypeOK'
  BY <1>1 DEF Kept, TypeOK, Pieces
<1>3. ASSUME IInv PROVE PhaseOK' /\ \A t \in Threads : SeesHook(t)' = SeesHook(t)
  <2>1. enabled = FALSE
    BY <1>1, <1>3 DEF IInv, PhaseOK, Kept, TypeOK
  <2>. QED  BY <1>1, <1>3, <2>1 DEF IInv, PhaseOK, Pieces, Switching, SeesHook
<1>. QED  BY <1>1, <1>2, <1>3, ThreadsStay

LEMMA QueueHookKeeps ==
  ASSUME Kept, QueueHook, UNCHANGED <<shape, refused>>
  PROVE  StepKeeps
<1>1. /\ pc = "idle" /\ queued' \in BOOLEAN
      /\ UNCHANGED <<ip, done, suspended, jump, created, enabled, pc, call, list>>
      /\ UNCHANGED <<body, patchAbove, callsOriginal, refused>>
  BY DEF QueueHook, shape
<1>2. TypeOK'
  BY <1>1 DEF Kept, TypeOK, Pieces
<1>3. ASSUME IInv PROVE PhaseOK' /\ \A t \in Threads : SeesHook(t)' = SeesHook(t)
  BY <1>1, <1>3 DEF IInv, PhaseOK, Pieces, Switching, SeesHook
<1>. QED  BY <1>1, <1>2, <1>3, ThreadsStay

\* Freeze of a call that finds the hook to be switched.
LEMMA FreezeKeeps ==
  ASSUME Kept, NEW op \in Operations \ {"create", "queue"}, Freeze(op),
         UNCHANGED <<shape, refused>>
  PROVE  StepKeeps
<1>1. /\ pc = "idle" /\ pc' = "suspend" /\ created /\ enabled # Wanted(op)
      /\ call' = op /\ list' \in Listed
      /\ UNCHANGED <<ip, done, suspended, jump, created, enabled, queued>>
      /\ UNCHANGED <<body, patchAbove, callsOriginal, refused>>
  BY DEF Freeze, Caller, shape
<1>2. op \in {"enable", "disable", "disableAll", "apply"} \cup Freeing
  BY ThreadAssumption DEF Freeing
<1>3. list' \subseteq Threads
  BY <1>1 DEF Listed
<1>4. TypeOK'
  BY <1>1, <1>2, <1>3 DEF Kept, TypeOK, Pieces
<1>5. ASSUME AllFrozen, IInv PROVE PhaseOK' /\ \A t \in Threads : SeesHook(t)' = SeesHook(t)
  <2>1. list' = Threads /\ op # "disable"
    BY <1>1, <1>5, AllListed DEF AllFrozen
  <2>2. enabled \in BOOLEAN /\ suspended = {} /\ Wanted(op) \in BOOLEAN
    BY <1>1, <1>5 DEF Kept, TypeOK, IInv, PhaseOK, Wanted
  <2>3. Wanted(op) <=> ~ enabled
    BY <1>1, <2>2
  <2>4. Wanted(call)' <=> ~ enabled'
    BY <1>1, <2>3 DEF Wanted
  <2>5. PhaseOK'
    BY <1>1, <1>5, <2>1, <2>4 DEF IInv, PhaseOK, Pieces, Switching
  <2>6. \A t \in Threads : SeesHook(t)' = SeesHook(t)
    BY <1>1, <2>2 DEF SeesHook
  <2>. QED  BY <2>5, <2>6
<1>. QED  BY <1>1, <1>4, <1>5, ThreadsStay

LEMMA RemoveKeeps ==
  ASSUME Kept, NEW op \in Freeing, Remove(op), UNCHANGED <<shape, refused>>
  PROVE  StepKeeps
<1>1. /\ pc = "idle" /\ pc' = "free" /\ created /\ ~ enabled /\ call' = op
      /\ UNCHANGED <<ip, done, suspended, jump, created, enabled, queued, list>>
      /\ UNCHANGED <<body, patchAbove, callsOriginal, refused>>
  BY DEF Remove, Caller, shape
<1>2. TypeOK'
  BY <1>1 DEF Kept, TypeOK, Pieces
<1>3. ASSUME IInv PROVE PhaseOK' /\ \A t \in Threads : SeesHook(t)' = SeesHook(t)
  BY <1>1, <1>3 DEF IInv, PhaseOK, Pieces, Switching, SeesHook
<1>. QED  BY <1>1, <1>2, <1>3, ThreadsStay

\* The direction of the move is the direction of the switch, as long as the action says
\* so: it does for every call but MH_DisableHook.
LEMMA ProcessThreadIPsSpec ==
  ASSUME IInv, pc = "suspend", NEW place
  PROVE  ProcessThreadIPs(place) = IF enabled THEN FindOldIP(place) ELSE FindNewIP(place)
<1>1. /\ enabled \in BOOLEAN /\ queued \in BOOLEAN /\ (Wanted(call) <=> ~ enabled)
      /\ call # "disable"
  BY DEF IInv, Kept, TypeOK, PhaseOK, Switching
<1>2. Enable <=> Wanted(call)
  BY <1>1 DEF Enable, Action, Wanted
<1>3. Enable \in BOOLEAN
  BY <1>1 DEF Enable, Action
<1>. QED  BY <1>1, <1>2, <1>3 DEF ProcessThreadIPs

\* Whatever it does, the place is good.
LEMMA ProcessThreadIPsGood ==
  ASSUME NEW place, NEW n, Good(place, n)
  PROVE  Good(ProcessThreadIPs(place), n)
BY MovedFits DEF ProcessThreadIPs

LEMMA SuspendThreadKeeps ==
  ASSUME Kept, NEW t \in Threads, NEW ok \in BOOLEAN, SuspendThread(t, ok),
         refused' = (refused \/ ~ ok), UNCHANGED shape
  PROVE  StepKeeps
<1>. DEFINE to == IF ok THEN ProcessThreadIPs(ip[t]) ELSE ip[t]
<1>1. /\ pc = "suspend" /\ t \notin suspended /\ suspended' = suspended \cup {t}
      /\ ip' = IF ok THEN [ip EXCEPT ![t] = ProcessThreadIPs(ip[t])] ELSE ip
      /\ UNCHANGED <<done, jump, created, enabled, queued, pc, call, list>>
      /\ UNCHANGED <<body, patchAbove, callsOriginal>>
  BY DEF SuspendThread, shape
<1>2. /\ ip \in [Threads -> Places] /\ done \in [Threads -> Numbers] /\ enabled \in BOOLEAN
      /\ Good(ip[t], done[t])
  BY DEF Kept, TypeOK
<1>3. Good(to, done[t]) /\ to \in Places
  BY <1>2, ProcessThreadIPsGood DEF Good
<1>4. /\ ip' \in [Threads -> Places] /\ ip'[t] = to
      /\ \A u \in Threads \ {t} : ip'[u] = ip[u]
  BY <1>1, <1>2, <1>3
<1>5. TypeOK'
  BY <1>1, <1>4 DEF Kept, TypeOK, Pieces
<1>6. ASSUME NEW u \in Threads PROVE Good(ip[u], done[u])'
  <2>1. CASE u = t
    <3>. HIDE DEF to
    <3>. QED  BY <1>1, <1>3, <1>4, <2>1, ShapeKept
  <2>2. CASE u # t
    BY <1>1, <1>4, <2>2, ShapeKept DEF Kept
  <2>. QED  BY <2>1, <2>2
<1>7. Kept'
  BY <1>5, <1>6 DEF Kept
<1>8. ASSUME AllFrozen, IInv PROVE IInv'
  <2>1. PhaseOK'
    BY <1>1, <1>8 DEF IInv, PhaseOK, Wanted, Pieces, Switching
  <2>2. ASSUME ~ refused', NEW u \in Threads PROVE Fit(ip[u], SeesHook(u))'
    <3>1. ok = TRUE /\ ~ refused /\ Fit(ip[u], SeesHook(u))
      BY <1>8, <2>2 DEF IInv, ThreadsFit
    <3>2. CASE u = t
      <4>1. SeesHook(t) = enabled /\ SeesHook(t)' = (~ enabled)
        BY <1>1 DEF SeesHook
      <4>2. to = IF enabled THEN FindOldIP(ip[t]) ELSE FindNewIP(ip[t])
        BY <1>1, <1>8, <3>1, ProcessThreadIPsSpec
      <4>. HIDE DEF to
      <4>3. Fit(to, ~ enabled)
        <5>1. CASE enabled = TRUE
          <6>1. Fit(FindOldIP(ip[t]), FALSE)
            BY <1>2, <3>1, <3>2, <4>1, <5>1, MovedFits
          <6>. QED  BY <4>2, <5>1, <6>1
        <5>2. CASE enabled = FALSE
          <6>1. Fit(FindNewIP(ip[t]), TRUE)
            BY <1>2, <3>1, <3>2, <4>1, <5>2, MovedFits
          <6>. QED  BY <4>2, <5>2, <6>1
        <5>. QED  BY <1>2, <5>1, <5>2
      <4>4. Fit(to, SeesHook(t)') /\ SeesHook(t)' \in BOOLEAN
        BY <1>2, <4>1, <4>3
      <4>. QED  BY <1>1, <1>4, <3>2, <4>4, ShapeKept
    <3>3. CASE u # t
      <4>1. SeesHook(u)' = SeesHook(u) /\ SeesHook(u) \in BOOLEAN
        BY <1>1, <1>2, <3>3 DEF SeesHook
      <4>. QED  BY <1>1, <1>4, <3>1, <3>3, <4>1, ShapeKept
    <3>. QED  BY <3>2, <3>3
  <2>3. refused' \/ ThreadsFit'
    BY <2>2 DEF ThreadsFit
  <2>. QED  BY <1>7, <2>1, <2>3 DEF IInv
<1>. QED  BY <1>7, <1>8 DEF StepKeeps

\* Granted, every thread is stopped; refused, the second invariant asks nothing of them.
LEMMA VirtualProtectKeeps ==
  ASSUME Kept, NEW ok \in BOOLEAN, VirtualProtect(ok), refused' = (refused \/ ~ ok),
         UNCHANGED shape
  PROVE  StepKeeps
<1>1. /\ pc = "suspend" /\ pc' = (IF ok THEN "write" ELSE "resume")
      /\ CanOpen => list \subseteq suspended
      /\ UNCHANGED <<ip, done, suspended, jump, created, enabled, queued, call, list>>
      /\ UNCHANGED <<body, patchAbove, callsOriginal>>
  BY DEF VirtualProtect, Caller, shape
<1>2. TypeOK'
  BY <1>1 DEF Kept, TypeOK, Pieces
<1>3. ASSUME AllFrozen, IInv PROVE PhaseOK'
  <2>1. suspended = Threads
    BY <1>1, <1>3 DEF AllFrozen, IInv, Kept, TypeOK, PhaseOK, Switching
  <2>. QED  BY <1>1, <1>3, <2>1 DEF IInv, PhaseOK, Wanted, Pieces, Switching
<1>4. CASE ok
  <2>1. refused' = refused /\ \A t \in Threads : SeesHook(t)' = SeesHook(t)
    BY <1>1, <1>4 DEF SeesHook, Kept, TypeOK
  <2>. QED  BY <1>1, <1>2, <1>3, <2>1, ThreadsStay
<1>5. CASE ~ ok
  <2>1. ASSUME NEW t \in Threads PROVE Good(ip[t], done[t])'
    BY <1>1, ShapeKept DEF Kept
  <2>. QED  BY <1>2, <1>3, <1>5, <2>1 DEF StepKeeps, IInv, Kept
<1>. QED  BY <1>4, <1>5

LEMMA WriteKeeps ==
  ASSUME Kept, NEW piece \in Pieces, Write(piece), UNCHANGED <<shape, refused>>
  PROVE  StepKeeps
<1>1. /\ pc = "write"
      /\ jump' = IF Wanted(call) THEN jump \cup {piece} ELSE jump \ {piece}
      /\ UNCHANGED <<ip, done, suspended, created, enabled, queued, pc, call, list>>
      /\ UNCHANGED <<body, patchAbove, callsOriginal, refused>>
  BY DEF Write, shape
<1>2. jump' \subseteq Pieces
  BY <1>1 DEF Kept, TypeOK
<1>3. TypeOK'
  BY <1>1, <1>2 DEF Kept, TypeOK, Pieces
<1>4. ASSUME IInv PROVE PhaseOK' /\ \A t \in Threads : SeesHook(t)' = SeesHook(t)
  BY <1>1, <1>4 DEF IInv, PhaseOK, Wanted, Switching, SeesHook
<1>. QED  BY <1>1, <1>3, <1>4, ThreadsStay

LEMMA SetFlagKeeps ==
  ASSUME Kept, SetFlag, UNCHANGED <<shape, refused>>
  PROVE  StepKeeps
<1>1. /\ pc = "write" /\ pc' = "resume" /\ jump = (IF Wanted(call) THEN Pieces ELSE {})
      /\ enabled' = Wanted(call) /\ queued' = Wanted(call)
      /\ UNCHANGED <<ip, done, suspended, jump, created, call, list>>
      /\ UNCHANGED <<body, patchAbove, callsOriginal, refused>>
  BY DEF SetFlag, Caller, shape
<1>2. Wanted(call) \in BOOLEAN /\ enabled \in BOOLEAN
  BY <1>1 DEF Wanted, Kept, TypeOK
<1>3. TypeOK'
  BY <1>1, <1>2 DEF Kept, TypeOK, Pieces
<1>4. ASSUME IInv PROVE PhaseOK' /\ \A t \in Threads : SeesHook(t)' = SeesHook(t)
  <2>1. (Wanted(call) <=> ~ enabled) /\ created /\ suspended = Threads
    BY <1>1, <1>4 DEF IInv, PhaseOK, Switching
  <2>2. PhaseOK'
    BY <1>1, <1>2, <1>4, <2>1 DEF IInv, PhaseOK, Pieces, Switching
  <2>3. \A t \in Threads : SeesHook(t)' = SeesHook(t)
    BY <1>1, <1>2, <2>1 DEF SeesHook
  <2>. QED  BY <2>2, <2>3
<1>. QED  BY <1>1, <1>3, <1>4, ThreadsStay

LEMMA ResumeThreadKeeps ==
  ASSUME Kept, NEW t \in Threads, ResumeThread(t), UNCHANGED <<shape, refused>>
  PROVE  StepKeeps
<1>1. /\ pc = "resume" /\ suspended' = suspended \ {t}
      /\ UNCHANGED <<ip, done, jump, created, enabled, queued, pc, call, list>>
      /\ UNCHANGED <<body, patchAbove, callsOriginal, refused>>
  BY DEF ResumeThread, shape
<1>2. TypeOK'
  BY <1>1 DEF Kept, TypeOK, Pieces
<1>3. ASSUME IInv PROVE PhaseOK' /\ \A u \in Threads : SeesHook(u)' = SeesHook(u)
  BY <1>1, <1>3 DEF IInv, PhaseOK, Pieces, Switching, SeesHook
<1>. QED  BY <1>1, <1>2, <1>3, ThreadsStay

\* Unfreeze is over.
LEMMA UnfrozenKeeps ==
  ASSUME Kept, Unfrozen, UNCHANGED <<shape, refused>>
  PROVE  StepKeeps
<1>1. /\ pc = "resume" /\ pc' = (IF call \in Freeing /\ ~ enabled THEN "free" ELSE "idle")
      /\ list \cap suspended = {} /\ list' = {}
      /\ UNCHANGED <<ip, done, suspended, jump, created, enabled, queued, call>>
      /\ UNCHANGED <<body, patchAbove, callsOriginal, refused>>
  BY DEF Unfrozen, Caller, shape
<1>2. TypeOK'
  BY <1>1 DEF Kept, TypeOK, Pieces
<1>3. ASSUME IInv PROVE PhaseOK' /\ \A u \in Threads : SeesHook(u)' = SeesHook(u)
  <2>1. suspended = {}
    BY <1>1, <1>3 DEF IInv, Kept, TypeOK, PhaseOK, Switching
  <2>2. PhaseOK'
    BY <1>1, <1>3, <2>1 DEF IInv, PhaseOK, Pieces, Switching
  <2>3. \A u \in Threads : SeesHook(u)' = SeesHook(u)
    BY <1>1, <2>1 DEF SeesHook
  <2>. QED  BY <2>2, <2>3
<1>. QED  BY <1>1, <1>2, <1>3, ThreadsStay

\* Who loses the slot under its feet was left behind, or its detour sent it there.
LEMMA FreeBufferKeeps ==
  ASSUME Kept, FreeBuffer, UNCHANGED <<shape, refused>>
  PROVE  StepKeeps
<1>1. /\ pc = "free" /\ pc' = "idle" /\ created' = FALSE
      /\ ip' = [t \in Threads |-> IF InSlot(t) THEN Freed ELSE ip[t]]
      /\ UNCHANGED <<done, suspended, jump, enabled, queued, call, list>>
      /\ UNCHANGED <<body, patchAbove, callsOriginal, refused>>
  BY DEF FreeBuffer, Caller, shape
<1>2. ip \in [Threads -> Places] /\ done \in [Threads -> Numbers] /\ enabled \in BOOLEAN
  BY DEF Kept, TypeOK
<1>3. TypeOK'
  BY <1>1, <1>2, PlacesTyped DEF Kept, TypeOK, Pieces
<1>4. ASSUME NEW t \in Threads PROVE Good(ip'[t], done'[t])
  <2>1. CASE InSlot(t)
    <3>1. ip'[t] = Freed /\ done'[t] \in Numbers
      BY <1>1, <1>2, <2>1
    <3>. QED  BY <3>1, PlacesApart, PlacesTyped DEF Good, Real, AfterSteps
  <2>2. CASE ~ InSlot(t)
    BY <1>1, <2>2 DEF Kept
  <2>. QED  BY <2>1, <2>2
<1>5. ASSUME NEW t \in Threads PROVE Good(ip[t], done[t])'
  BY <1>4, ShapeKept
<1>6. Kept'
  BY <1>3, <1>5 DEF Kept
<1>7. ASSUME IInv PROVE IInv'
  <2>0. pc = "free" /\ enabled = FALSE
    BY <1>1, <1>2, <1>7 DEF IInv, PhaseOK
  <2>1. PhaseOK'
    BY <1>1, <1>7, <2>0 DEF IInv, PhaseOK, Pieces, Switching
  <2>2. ASSUME ~ refused, NEW t \in Threads PROVE Fit(ip[t], SeesHook(t))'
    <3>1. SeesHook(t) = FALSE /\ SeesHook(t)' = FALSE
      BY <1>1, <2>0 DEF SeesHook
    <3>2. Fit(ip[t], FALSE)
      BY <1>7, <2>2, <3>1 DEF IInv, ThreadsFit
    <3>3. Fit(ip'[t], FALSE)
      <4>1. CASE InSlot(t)
        <5>1. callsOriginal \/ Expanded # {}
          BY <3>2, <4>1 DEF InSlot, Fit, FitsUnpatched, LeftBehind, Kept, Good, Real
        <5>2. ip'[t] = Freed
          BY <1>1, <4>1
        <5>. QED  BY <5>1, <5>2, PlacesApart DEF Fit, FitsUnpatched, FreedOK
      <4>2. CASE ~ InSlot(t)
        BY <1>1, <3>2, <4>2
      <4>. QED  BY <4>1, <4>2
    <3>. QED  BY <3>1, <3>3, ShapeKept
  <2>3. refused' \/ ThreadsFit'
    BY <1>1, <2>2 DEF ThreadsFit
  <2>. QED  BY <1>6, <2>1, <2>3 DEF IInv
<1>. QED  BY <1>6, <1>7 DEF StepKeeps
-----------------------------------------------------------------------------
(* The invariants.                                                             *)

LEMMA InitIInv == Init => IInv
<1>. SUFFICES ASSUME Init PROVE IInv
  OBVIOUS
<1>1. TypeOK
  BY PlacesTyped, NumbersTyped DEF Init, TypeOK
<1>2. PhaseOK
  BY DEF Init, PhaseOK, Switching
<1>3. ASSUME NEW t \in Threads PROVE Good(ip[t], done[t]) /\ Fit(ip[t], SeesHook(t))
  <2>1. ip[t] = Out /\ done[t] = 0 /\ SeesHook(t) = FALSE
    BY DEF Init, SeesHook
  <2>. QED  BY <2>1, ElsewhereFits
<1>. QED  BY <1>1, <1>2, <1>3 DEF IInv, Kept, ThreadsFit

LEMMA NextKeeps ==
  ASSUME Kept, [Next]_vars
  PROVE  StepKeeps
<1>1. CASE CallerStep
  <2>1. CASE \E ok \in BOOLEAN : Refusable(ok) /\ refused' = (refused \/ ~ ok)
    BY <1>1, <2>1, SuspendThreadKeeps, VirtualProtectKeeps DEF CallerStep, Refusable
  <2>2. CASE /\ UNCHANGED refused
             /\ \/ \E t \in Threads : ResumeThread(t)
                \/ \E piece \in Pieces : Write(piece)
                \/ SetFlag \/ Unfrozen \/ FreeBuffer
    BY <1>1, <2>2, ResumeThreadKeeps, WriteKeeps, SetFlagKeeps, UnfrozenKeeps,
       FreeBufferKeeps DEF CallerStep
  <2>. QED  BY <1>1, <2>1, <2>2 DEF CallerStep
<1>2. CASE NewCall /\ UNCHANGED <<shape, refused>>
  BY <1>2, CreateKeeps, QueueHookKeeps, FreezeKeeps, RemoveKeeps DEF NewCall
<1>3. CASE (\E t \in Threads : Run(t)) /\ UNCHANGED <<shape, refused>>
  BY <1>3, RunKeeps DEF StepKeeps
<1>4. CASE UNCHANGED vars
  <2>1. /\ UNCHANGED <<ip, done, suspended, jump, created, enabled, queued, pc, call, list>>
        /\ UNCHANGED <<body, patchAbove, callsOriginal, refused>>
    BY <1>4 DEF vars, shape
  <2>2. TypeOK'
    BY <2>1 DEF Kept, TypeOK, Pieces
  <2>3. ASSUME IInv PROVE PhaseOK' /\ \A t \in Threads : SeesHook(t)' = SeesHook(t)
    BY <2>1, <2>3 DEF IInv, PhaseOK, Wanted, Pieces, SeesHook
  <2>4. UNCHANGED shape
    BY <2>1 DEF shape
  <2>. QED  BY <2>1, <2>2, <2>3, <2>4, ThreadsStay
<1>. QED  BY <1>1, <1>2, <1>3, <1>4 DEF Next

\* Every thread is at a place where its steps lead, whatever the wrappers and the kernel do.
THEOREM AlwaysKept == Spec => []Kept
<1>1. Init => Kept
  BY InitIInv DEF IInv
<1>2. Kept /\ [Next]_vars => Kept'
  BY NextKeeps DEF StepKeeps
<1>. QED  BY <1>1, <1>2, PTL DEF Spec

\* If Freeze reaches every thread, the second invariant holds in every reachable state.
THEOREM Invariants ==
  ASSUME AllFrozen
  PROVE  Spec => []IInv
<1>1. Init => IInv
  BY InitIInv
<1>2. IInv /\ [Next]_vars => IInv'
  BY NextKeeps DEF StepKeeps, IInv
<1>. QED  BY <1>1, <1>2, PTL DEF Spec

\* Every variable has its type.
THEOREM TypeCorrect == Spec => []TypeOK
<1>1. Kept => TypeOK
  BY DEF Kept
<1>. QED  BY <1>1, AlwaysKept, PTL

\* FindNewIP and FindOldIP neither skip nor repeat an instruction of the target.
THEOREM PlacesAreKept == Spec => []PlaceKept
<1>1. Kept => PlaceKept
  BY DEF Kept, Good, AfterSteps, PlaceKept
<1>. QED  BY <1>1, AlwaysKept, PTL

\* Unless the kernel refused something, no thread executes a byte of a half-written patch or
\* continues inside a patch: whatever was moved, and also when the detour calls the original.
THEOREM PatchIsNeverTorn ==
  ASSUME AllFrozen
  PROVE  Spec => []PatchNeverTorn
<1>1. IInv => PatchNeverTorn
  <2>. SUFFICES ASSUME IInv, ~ refused, NEW t \in Threads PROVE ip[t] # Torn
    BY DEF PatchNeverTorn
  <2>1. Fit(ip[t], SeesHook(t))
    BY DEF IInv, ThreadsFit
  <2>. QED  BY <2>1 DEF Fit, FitsPatched, FitsUnpatched
<1>. QED  BY <1>1, Invariants, PTL

\* MH_RemoveHook frees the slot of a disabled hook without looking for threads in it: those
\* it finds are in an expanded copy or come from it, or the detour sent them there.
THEOREM DisabledSlotsAreLeft ==
  ASSUME AllFrozen
  PROVE  Spec => []DisabledSlotLeft
<1>1. IInv => DisabledSlotLeft
  <2>. SUFFICES ASSUME IInv, ~ refused, ~ callsOriginal, NEW t \in Threads
                PROVE  /\ ~ enabled /\ pc \in {"idle", "free"} /\ InSlot(t)
                            => LeftBehind(ip[t])
                       /\ ip[t] = Freed => Expanded # {}
    BY DEF DisabledSlotLeft
  <2>1. Fit(ip[t], SeesHook(t)) /\ Good(ip[t], done[t])
    BY DEF IInv, ThreadsFit, Kept
  <2>2. ASSUME ~ enabled, pc \in {"idle", "free"}, InSlot(t) PROVE LeftBehind(ip[t])
    <3>1. FitsUnpatched(ip[t])
      BY <2>1, <2>2 DEF Fit, SeesHook
    <3>2. \A i \in Numbers : ip[t] \in {HalfAt(i), CallOfSlot(i)} => LeftBehind(ip[t])
      BY <2>1 DEF Good, Real, LeftBehind
    <3>. QED  BY <2>2, <3>1, <3>2 DEF FitsUnpatched, InSlot
  <2>. QED  BY <2>1, <2>2 DEF Fit, FreedOK
<1>. QED  BY <1>1, Invariants, PTL

================================================================================
