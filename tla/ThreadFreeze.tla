----------------------------- MODULE ThreadFreeze -----------------------------
(***************************************************************************)
(* One hook of library/source/hook.cpp, patched byte group by byte group   *)
(* while other threads run the target: Freeze, ProcessThreadIPs,           *)
(* EnableHookLL and Unfreeze, and the thread wrappers of                   *)
(* windows_wrapper.cpp.                                                    *)
(*                                                                         *)
(* Instructions 0 .. Moved - 1 of the target lie under the patch; the rest *)
(* is one instruction, Moved.  Slot instruction i is the copy of target    *)
(* instruction i, and slot instruction Moved jumps to the rest.  The copy  *)
(* of a CALL or a Jcc is two instructions (trampoline.cpp:72-85), and      *)
(* newIPs has the first only.                                              *)
(***************************************************************************)
EXTENDS Naturals, FiniteSets

CONSTANTS
  Threads,          \* all but the caller of the library
  Moved,            \* instructions under the patch
  Bodies,           \* what these may be
  Entries,          \* those the rest of the target branches back to
  Operations,       \* what the caller calls
  CanOpen,          \* OpenThread and SuspendThread reach a thread
  Refusals,         \* what the kernel may refuse: a page or a thread's context
  ListRoom          \* thread numbers that fit the array EnumerateThreads grows

Numbers == 0 .. Moved
Kinds == {"plain", "jcc", "call", "ret"}

\* A CALL is 5 bytes long and a RET ends the copy, so that neither has a successor.
ASSUME ThreadAssumption ==
  /\ Moved \in Nat \ {0} /\ ListRoom \in Nat
  /\ Bodies \subseteq [0 .. Moved - 1 -> Kinds]
  /\ \A b \in Bodies, i \in 0 .. Moved - 1 : b[i] \in {"call", "ret"} => i = Moved - 1
  /\ Entries \subseteq Numbers
  /\ Operations \subseteq {"create", "enable", "disable", "disableAll", "queue", "apply",
                           "remove", "uninitialize"}
  /\ CanOpen \in BOOLEAN /\ Refusals \subseteq {"protect", "context"}

VARIABLES
  ip,           \* where each thread is
  done,         \* instructions of the target it executed since it entered it
  suspended,    \* threads that do not run
  jump,         \* pieces of the patch that are written
  created, enabled, queued,    \* the entry
  pc,           \* what the caller does next
  call,         \* the function it called
  list,         \* thread numbers its Freeze found
  body,             \* the hook: the instructions that were moved
  patchAbove,       \* a long jump above the target, a short one at it
  callsOriginal,    \* its detour calls the trampoline
  refused       \* history: the kernel refused something

shape == <<body, patchAbove, callsOriginal>>
vars == <<ip, done, suspended, jump, created, enabled, queued, pc, call, list, shape,
          refused>>

Pieces == (IF patchAbove THEN {"above"} ELSE {}) \cup {"opcode", "operand"}

Out == <<"out", 0>>
Above == <<"above", 0>>
Relay == <<"relay", 0>>
Detour == <<"detour", 0>>
Torn == <<"torn", 0>>       \* it ran half a patch, or from the middle of one
Freed == <<"freed", 0>>     \* it was in the slot, or is to return to it, after FreeBuffer
TargetAt(i) == <<"target", i>>
SlotAt(i) == <<"slot", i>>
HalfAt(i) == <<"half", i>>              \* the second instruction of copy i
CallOfTarget(i) == <<"callTarget", i>>  \* in the function that instruction i calls
CallOfSlot(i) == <<"callSlot", i>>      \* in the one that its copy calls

Places == {Out, Above, Relay, Detour, Torn, Freed}
          \cup UNION {{TargetAt(i), SlotAt(i), HalfAt(i), CallOfTarget(i), CallOfSlot(i)} :
                       i \in Numbers}

Expanded == {i \in 0 .. Moved - 1 : body[i] \in {"jcc", "call"}}

\* Who runs the slot, or returns to it.
InSlot(t) ==
  ip[t] = Relay \/ \E i \in Numbers : ip[t] \in {SlotAt(i), HalfAt(i), CallOfSlot(i)}

\* Only a target that ends before 5 bytes is patched above.
Init ==
  /\ ip = [t \in Threads |-> Out] /\ done = [t \in Threads |-> 0]
  /\ suspended = {} /\ jump = {}
  /\ created = TRUE /\ enabled = FALSE /\ queued = FALSE
  /\ pc = "idle" /\ call = "create" /\ list = {}
  /\ body \in Bodies /\ callsOriginal \in BOOLEAN
  /\ patchAbove \in (IF body[Moved - 1] = "ret" THEN BOOLEAN ELSE {FALSE})
  /\ refused = FALSE
-----------------------------------------------------------------------------
(* The threads.                                                                *)

Go(t, from, to, n) ==
  /\ ip[t] = from /\ t \notin suspended
  /\ ip' = [ip EXCEPT ![t] = to]
  /\ done' = [done EXCEPT ![t] = n]
  /\ UNCHANGED <<suspended, jump, created, enabled, queued, pc, call, list>>

Unpatched == jump = {}
Patched == jump = Pieces

\* An instruction of the target that is there.  A branch taken leaves the moved bytes.
RunMoved(t, i) ==
  \/ /\ body[i] \in {"plain", "jcc"}
     /\ Go(t, TargetAt(i), TargetAt(i + 1), i + 1)
  \/ body[i] \in {"jcc", "ret"} /\ Go(t, TargetAt(i), Out, 0)
  \/ body[i] = "call" /\ Go(t, TargetAt(i), CallOfTarget(i), i + 1)

\* Under the patch the instructions must be all there or all replaced.  The rest may
\* branch back; a called function returns.
RunTarget(t, i) ==
  \/ i < Moved /\ Unpatched /\ RunMoved(t, i)
  \/ /\ i = 0 /\ Patched
     /\ Go(t, TargetAt(0), IF patchAbove THEN Above ELSE Relay, 0)
  \/ i = 0 /\ ~ Unpatched /\ ~ Patched /\ Go(t, TargetAt(0), Torn, 0)
  \/ 0 < i /\ i < Moved /\ ~ Unpatched /\ Go(t, TargetAt(i), Torn, 0)
  \/ i = Moved /\ Go(t, TargetAt(i), Out, 0)
  \/ i \in Entries /\ Go(t, TargetAt(Moved), TargetAt(i), i)
  \/ i < Moved /\ Go(t, CallOfTarget(i), TargetAt(i + 1), i + 1)

\* Slip: the jump back to the target was not appended.
RunSlotOn(t) ==
  \/ Go(t, Relay, Detour, 0)
  \/ \E i \in Numbers : Go(t, SlotAt(i), SlotAt(i + 1), i)

\* "CALL [RIP+8]; JMP +10" for a CALL, "J** +16; JMP [RIP+6]" with the condition inverted
\* for a Jcc; the relay jumps to the detour.
RunSlot(t) ==
  \/ Go(t, Relay, Detour, 0)
  \/ Go(t, SlotAt(Moved), TargetAt(Moved), Moved)
  \/ \E i \in 0 .. Moved - 1 :
       \/ body[i] \in {"plain", "jcc"} /\ Go(t, SlotAt(i), SlotAt(i + 1), i + 1)
       \/ body[i] = "ret" /\ Go(t, SlotAt(i), Out, 0)
       \/ body[i] = "jcc" /\ Go(t, SlotAt(i), HalfAt(i), i)
       \/ body[i] = "jcc" /\ Go(t, HalfAt(i), Out, 0)
       \/ body[i] = "call" /\ Go(t, SlotAt(i), CallOfSlot(i), i + 1)
       \/ body[i] = "call" /\ Go(t, CallOfSlot(i), HalfAt(i), i + 1)
       \/ body[i] = "call" /\ Go(t, HalfAt(i), SlotAt(i + 1), i + 1)

\* The detour may call the original after the slot is gone.
RunElsewhere(t) ==
  \/ Go(t, Out, TargetAt(0), 0)
  \/ "above" \in jump /\ Go(t, Above, Relay, 0)
  \/ "above" \notin jump /\ Go(t, Above, Torn, 0)
  \/ Go(t, Detour, Out, 0)
  \/ callsOriginal /\ created /\ Go(t, Detour, SlotAt(0), 0)
  \/ callsOriginal /\ ~ created /\ Go(t, Detour, Freed, 0)

Run(t) == RunSlot(t) \/ RunElsewhere(t) \/ \E i \in Numbers : RunTarget(t, i)
-----------------------------------------------------------------------------
(* ProcessThreadIPs.                                                           *)

FindNewIP(place) ==
  IF \E i \in Numbers : place = TargetAt(i)
  THEN SlotAt(CHOOSE i \in Numbers : place = TargetAt(i)) ELSE place

\* Slip: every boundary is taken for the first.
FindOldIPFirst(place) ==
  IF place \in {Above, Relay} \/ \E i \in Numbers : place = SlotAt(i)
  THEN TargetAt(0) ELSE place

\* No entry of newIPs is the second instruction of a copy.
FindOldIP(place) ==
  IF place \in {Above, Relay} THEN TargetAt(0)
  ELSE IF \E i \in Numbers : place = SlotAt(i)
  THEN TargetAt(CHOOSE i \in Numbers : place = SlotAt(i)) ELSE place

\* Slip: every caller of Freeze passes the same action.
ActionEnabling == "ACTION_ENABLE"

\* EnableHook passes ACTION_ENABLE whichever way it switches.
Action ==
  CASE call \in {"enable", "disable"} -> "ACTION_ENABLE"
    [] call = "apply" -> "ACTION_APPLY_QUEUED"
    [] OTHER -> "ACTION_DISABLE"

Enable == IF Action = "ACTION_APPLY_QUEUED" THEN queued ELSE Action = "ACTION_ENABLE"

\* Slip: the action is taken for the opposite of what it is.
ProcessThreadIPsNot(place) ==
  IF Enable THEN place ELSE FindNewIP(place)

ProcessThreadIPs(place) ==
  IF enabled = Enable THEN place
  ELSE IF Enable THEN FindNewIP(place) ELSE FindOldIP(place)
-----------------------------------------------------------------------------
(* The caller.                                                                 *)

Caller(from, to) == pc = from /\ pc' = to

\* What EnableHookLL is called with.
Wanted(op) == op = "enable" \/ (op = "apply" /\ queued)

\* EnumerateThreads stops when its array cannot grow.
Listed == {L \in SUBSET Threads :
             Cardinality(L) = IF Cardinality(Threads) <= ListRoom
                              THEN Cardinality(Threads) ELSE ListRoom}

Create ==
  /\ pc = "idle" /\ ~ created
  /\ created' = TRUE /\ enabled' = FALSE /\ queued' = FALSE
  /\ UNCHANGED <<ip, done, suspended, jump, pc, call, list>>

QueueHook ==
  /\ pc = "idle" /\ created
  /\ queued' \in BOOLEAN
  /\ UNCHANGED <<ip, done, suspended, jump, created, enabled, pc, call, list>>

\* The calls that free the slot: MH_RemoveHook and, with all others, MH_Uninitialize.
Freeing == {"remove", "uninitialize"}

\* A call that finds the hook to be switched begins with Freeze.
Freeze(op) ==
  /\ Caller("idle", "suspend")
  /\ created /\ enabled # Wanted(op)
  /\ call' = op
  /\ list' \in Listed
  /\ UNCHANGED <<ip, done, suspended, jump, created, enabled, queued>>

\* A hook that is not enabled is removed at once.
Remove(op) ==
  /\ Caller("idle", "free")
  /\ created /\ ~ enabled
  /\ call' = op
  /\ UNCHANGED <<ip, done, suspended, jump, created, enabled, queued, list>>

\* A thread whose context cannot be read or set stays where it is, suspended.
SuspendThread(t, ok) ==
  /\ pc = "suspend" /\ t \in list \ suspended /\ CanOpen
  /\ ok \/ "context" \in Refusals
  /\ suspended' = suspended \cup {t}
  /\ ip' = IF ok THEN [ip EXCEPT ![t] = ProcessThreadIPs(@)] ELSE ip
  /\ UNCHANGED <<done, jump, created, enabled, queued, pc, call, list>>

\* Slip: EnableHookLL's error is returned between Freeze and Unfreeze.
VirtualProtectReturns(ok) ==
  /\ ok \/ "protect" \in Refusals
  /\ Caller("suspend", IF ok THEN "write" ELSE "idle")
  /\ CanOpen => list \subseteq suspended
  /\ UNCHANGED <<ip, done, suspended, jump, created, enabled, queued, call, list>>

\* All are suspended that can be; the pages are made writable, or not.
VirtualProtect(ok) ==
  /\ ok \/ "protect" \in Refusals
  /\ Caller("suspend", IF ok THEN "write" ELSE "resume")
  /\ CanOpen => list \subseteq suspended
  /\ UNCHANGED <<ip, done, suspended, jump, created, enabled, queued, call, list>>

\* EnableHookLL writes the long jump, then the short one; memcpy copies the backup
\* front to back.  The flag is set last.
WriteBefore(piece) ==
  CASE piece = "above" -> {}
    [] piece = "opcode" -> Pieces \cap {"above"}
    [] piece = "operand" -> Pieces \ {"operand"}

Write(piece) ==
  /\ pc = "write" /\ piece \in Pieces
  /\ jump = IF Wanted(call) THEN WriteBefore(piece) ELSE Pieces \ WriteBefore(piece)
  /\ jump' = IF Wanted(call) THEN jump \cup {piece} ELSE jump \ {piece}
  /\ UNCHANGED <<ip, done, suspended, created, enabled, queued, pc, call, list>>

SetFlag ==
  /\ Caller("write", "resume")
  /\ jump = IF Wanted(call) THEN Pieces ELSE {}
  /\ enabled' = Wanted(call) /\ queued' = Wanted(call)
  /\ UNCHANGED <<ip, done, suspended, jump, created, call, list>>

ResumeThread(t) ==
  /\ pc = "resume" /\ t \in list \cap suspended
  /\ suspended' = suspended \ {t}
  /\ UNCHANGED <<ip, done, jump, created, enabled, queued, pc, call, list>>

\* A call that frees goes on only when the hook was disabled.
Unfrozen ==
  /\ list \cap suspended = {}
  /\ Caller("resume", IF call \in Freeing /\ ~ enabled THEN "free" ELSE "idle")
  /\ list' = {}
  /\ UNCHANGED <<ip, done, suspended, jump, created, enabled, queued, call>>

FreeBuffer ==
  /\ Caller("free", "idle")
  /\ created' = FALSE
  /\ ip' = [t \in Threads |-> IF InSlot(t) THEN Freed ELSE ip[t]]
  /\ UNCHANGED <<done, suspended, jump, enabled, queued, call, list>>

Refusable(ok) == VirtualProtect(ok) \/ \E t \in Threads : SuspendThread(t, ok)

CallerStep ==
  /\ \/ \E ok \in BOOLEAN : Refusable(ok) /\ refused' = (refused \/ ~ ok)
     \/ /\ \/ \E t \in Threads : ResumeThread(t)
           \/ \E piece \in Pieces : Write(piece)
           \/ SetFlag \/ Unfrozen \/ FreeBuffer
        /\ UNCHANGED refused
  /\ UNCHANGED shape

NewCall ==
  \/ "create" \in Operations /\ Create
  \/ "queue" \in Operations /\ QueueHook
  \/ \E op \in Operations \ {"create", "queue"} : Freeze(op)
  \/ \E op \in Operations \cap Freeing : Remove(op)

Next ==
  \/ CallerStep
  \/ (NewCall \/ \E t \in Threads : Run(t)) /\ UNCHANGED <<shape, refused>>

\* The kernel goes on running the caller, which is never suspended.
Spec == Init /\ [][Next]_vars /\ WF_vars(CallerStep)
-----------------------------------------------------------------------------
(* Properties.                                                                 *)

\* Every variable has its type.
TypeOK ==
  /\ ip \in [Threads -> Places] /\ done \in [Threads -> Numbers]
  /\ suspended \subseteq Threads /\ list \subseteq Threads /\ jump \subseteq Pieces
  /\ created \in BOOLEAN /\ enabled \in BOOLEAN /\ queued \in BOOLEAN
  /\ pc \in {"idle", "suspend", "write", "resume", "free"}
  /\ call \in {"create", "enable", "disable", "disableAll", "apply"} \cup Freeing
  /\ body \in Bodies /\ patchAbove \in BOOLEAN /\ callsOriginal \in BOOLEAN
  /\ refused \in BOOLEAN

\* "If the thread suspended in the overwritten area, move IP to the proper address"
\* (hook.cpp:194): no thread runs half of a patch or lands inside one, whatever the moved
\* instructions are and whether or not the detour calls the original, as long as the
\* kernel has refused neither a page nor a thread's context.
PatchNeverTorn == refused \/ \A t \in Threads : ip[t] # Torn

\* A thread that was moved neither skips nor repeats an instruction of the target.
PlaceKept ==
  \A t \in Threads, i \in Numbers : ip[t] \in {TargetAt(i), SlotAt(i)} => done[t] = i

\* Places of the slot that FindOldIP does not know, and the one a CALL's leads to.
LeftBehind(place) ==
  \E i \in Expanded : \/ place \in {HalfAt(i), CallOfSlot(i)}
                      \/ body[i] = "call" /\ place = SlotAt(i + 1)

\* MH_RemoveHook frees the slot of a disabled hook without looking who is in it
\* (hook.cpp:660).  Unless the detour sends threads there or the kernel refused something,
\* those that stay are in the copy of a CALL or a Jcc or come from it; a slot without such
\* a copy is never freed under a thread.
DisabledSlotLeft ==
  ~ refused /\ ~ callsOriginal
    => \A t \in Threads :
         /\ ~ enabled /\ pc \in {"idle", "free"} /\ InSlot(t) => LeftBehind(ip[t])
         /\ ip[t] = Freed => Expanded # {}

\* The same line of hook.cpp, taken for every copy: nobody is left in the slot of a
\* disabled hook, unless its detour sends threads there.
DisabledSlotEmpty ==
  created /\ ~ enabled /\ ~ callsOriginal /\ pc \in {"idle", "free"}
    => \A t \in Threads : ~ InSlot(t)

\* And nobody runs half of a patch or a freed slot, whatever the kernel refuses, if the
\* detour does not call the original.
NobodyRunsWild == callsOriginal \/ \A t \in Threads : ip[t] \notin {Torn, Freed}

\* Every thread that was suspended runs again, also when the page cannot be unprotected
\* or a context cannot be read.
ThreadsResumed == \A t \in Threads : t \in suspended ~> t \notin suspended
===============================================================================
