--------------------------- MODULE HookLock_proofs ---------------------------
(***************************************************************************)
(* The spin lock excludes, for any number of callers, targets and entries, *)
(* when the interlocked functions are what hook.cpp takes them to be.      *)
(***************************************************************************)
EXTENDS HookLock, TLAPS

\* The flag says whether a caller is inside.
FlagTellsInside == g_isLocked <=> \E c \in Callers : Inside(c)

PcTyped == pc \in [Callers -> Guarded \cup {"idle", "enter"}]

LockInv ==
  /\ g_isLocked \in BOOLEAN /\ PcTyped
  /\ FlagTellsInside
  /\ MutualExclusion

\* Steps of c that are neither its entry nor its exit leave the lock as it is: they start
\* and end in the same part of the code.
LEMMA MovingKeepsLockInv ==
  ASSUME LockInv, NEW c \in Callers, NEW from, NEW to,
         Goto(c, from, to), g_isLocked' = g_isLocked,
         to \in Guarded \cup {"idle", "enter"},
         from \in Guarded <=> to \in Guarded
  PROVE  LockInv'
  <1>1. PcTyped'
    BY DEF LockInv, PcTyped, Goto
  <1>2. \A d \in Callers : Inside(d)' <=> Inside(d)
    BY DEF LockInv, PcTyped, Goto, Inside
  <1>3. FlagTellsInside'
    BY <1>2 DEF LockInv, FlagTellsInside
  <1>4. MutualExclusion'
    BY <1>2 DEF LockInv, MutualExclusion
  <1> QED
    BY <1>1, <1>3, <1>4 DEF LockInv

\* A caller enters only when the flag was clear, so nobody is inside, and sets it.
LEMMA EnteringKeepsLockInv ==
  ASSUME LockInv, Interlocked = TRUE, NEW c \in Callers, EnterSpinLock(c)
  PROVE  LockInv'
  <1>1. ~ g_isLocked /\ g_isLocked' = TRUE
    BY DEF EnterSpinLock, WasLocked, Store, LockInv
  <1>2. \A d \in Callers : ~ Inside(d)
    BY <1>1 DEF LockInv, FlagTellsInside
  <1>3. PcTyped' /\ Inside(c)'
    BY DEF EnterSpinLock, LockInv, PcTyped, Goto, Inside, Guarded
  <1>4. \A d \in Callers : d # c => ~ Inside(d)'
    BY <1>2 DEF EnterSpinLock, LockInv, PcTyped, Goto, Inside
  <1>5. FlagTellsInside'
    BY <1>1, <1>3 DEF FlagTellsInside
  <1>6. MutualExclusion'
    BY <1>4 DEF MutualExclusion
  <1> QED
    BY <1>1, <1>3, <1>5, <1>6 DEF LockInv

\* The caller that leaves was the only one inside.
LEMMA LeavingKeepsLockInv ==
  ASSUME LockInv, Interlocked = TRUE, NEW c \in Callers, LeaveSpinLock(c)
  PROVE  LockInv'
  <1>1. Inside(c) /\ PcTyped' /\ ~ Inside(c)' /\ g_isLocked' = FALSE
    BY DEF LeaveSpinLock, Store, LockInv, PcTyped, Goto, Inside, Guarded
  <1>2. \A d \in Callers : d # c => ~ Inside(d)
    BY <1>1 DEF LockInv, MutualExclusion
  <1>3. \A d \in Callers : ~ Inside(d)'
    BY <1>1, <1>2 DEF LockInv, PcTyped, LeaveSpinLock, Goto, Inside
  <1>4. FlagTellsInside'
    BY <1>1, <1>3 DEF FlagTellsInside
  <1>5. MutualExclusion'
    BY <1>3 DEF MutualExclusion
  <1> QED
    BY <1>1, <1>4, <1>5 DEF LockInv

\* Every step of the library and every new call keeps the lock's invariant.
LEMMA NextKeepsLockInv ==
  ASSUME LockInv, Interlocked = TRUE, [Next]_vars
  PROVE  LockInv'
  <1>1. CASE UNCHANGED vars
    BY <1>1 DEF vars, LockInv, PcTyped, FlagTellsInside, MutualExclusion, Inside
  <1>2. SUFFICES ASSUME NEW c \in Callers, Call(c) \/ Step(c)
                 PROVE  LockInv'
    BY <1>1 DEF Next
  <1>3. CASE Call(c)
    BY <1>3, MovingKeepsLockInv DEF Call, Guarded
  <1>4. CASE EnterSpinLock(c)
    BY <1>4, EnteringKeepsLockInv
  <1>5. CASE FindHookEntry(c)
    <2>1. Goto(c, "find", AfterFind(c)) /\ g_isLocked' = g_isLocked
      BY <1>5 DEF FindHookEntry
    <2>2. AfterFind(c) \in {"build", "leave", "protect", "queue"}
      BY DEF AfterFind
    <2> QED
      BY <2>1, <2>2, MovingKeepsLockInv DEF Guarded
  <1>6. CASE NextHook(c)
    <2>1. PICK to \in {"leave", "close", "protect"} : Goto(c, "next", to)
      BY <1>6 DEF NextHook
    <2>2. g_isLocked' = g_isLocked
      BY <1>6 DEF NextHook
    <2> QED
      BY <2>1, <2>2, MovingKeepsLockInv DEF Guarded
  <1>7. CASE Protect(c)
    <2>1. PICK to \in {AfterSwitch(c), "write", "leave"} : Goto(c, "protect", to)
      BY <1>7 DEF Protect
    <2>2. to \in {"move", "next", "write", "leave"} /\ g_isLocked' = g_isLocked
      BY <1>7 DEF Protect, AfterSwitch
    <2> QED
      BY <2>1, <2>2, MovingKeepsLockInv DEF Guarded
  <1>8. CASE Write(c)
    BY <1>8, MovingKeepsLockInv DEF Write, Guarded
  <1>9. CASE Restore(c)
    BY <1>9, MovingKeepsLockInv DEF Restore, Guarded
  <1>10. CASE SetFlag(c)
    <2>1. Goto(c, "flag", AfterSwitch(c)) /\ g_isLocked' = g_isLocked
      BY <1>10 DEF SetFlag
    <2>2. AfterSwitch(c) \in {"move", "next", "leave"}
      BY DEF AfterSwitch
    <2> QED
      BY <2>1, <2>2, MovingKeepsLockInv DEF Guarded
  <1>11. CASE QueueHook(c)
    BY <1>11, MovingKeepsLockInv DEF QueueHook, Guarded
  <1>12. CASE MoveLast(c)
    BY <1>12, MovingKeepsLockInv DEF MoveLast, Guarded
  <1>13. CASE Shrink(c)
    BY <1>13, MovingKeepsLockInv DEF Shrink, Guarded
  <1>14. CASE Count(c)
    <2>1. PICK to \in {"grow", "leave"} : Goto(c, "count", to)
      BY <1>14 DEF Count
    <2>2. g_isLocked' = g_isLocked
      BY <1>14 DEF Count
    <2> QED
      BY <2>1, <2>2, MovingKeepsLockInv DEF Guarded
  <1>15. CASE Grow(c)
    BY <1>15, MovingKeepsLockInv DEF Grow, Guarded
  <1>16. CASE Fill(c)
    BY <1>16, MovingKeepsLockInv DEF Fill, Guarded
  <1>17. CASE LeaveSpinLock(c)
    BY <1>17, LeavingKeepsLockInv
  <1>18. CASE CheckHeap(c)
    <2>1. PICK to \in AfterHeap(c) : Goto(c, "heap", to)
      BY <1>18 DEF CheckHeap
    <2>2. to \in {"leave", "open", "find", "queue", "next"} /\ g_isLocked' = g_isLocked
      BY <1>18 DEF CheckHeap, AfterHeap
    <2> QED
      BY <2>1, <2>2, MovingKeepsLockInv DEF Guarded
  <1>19. CASE CreateHeap(c)
    BY <1>19, MovingKeepsLockInv DEF CreateHeap, Guarded
  <1>20. CASE DestroyHeap(c)
    BY <1>20, MovingKeepsLockInv DEF DestroyHeap, Guarded
  <1>21. CASE Reset(c)
    BY <1>21, MovingKeepsLockInv DEF Reset, Guarded
  <1>22. CASE Build(c)
    BY <1>22, MovingKeepsLockInv DEF Build, Guarded
  <1> QED
    BY <1>2, <1>3, <1>4, <1>5, <1>6, <1>7, <1>8, <1>9, <1>10, <1>11, <1>12, <1>13, <1>14,
       <1>15, <1>16, <1>17, <1>18, <1>19, <1>20, <1>21, <1>22 DEF Step

\* With interlocked functions that do what they are named for, at most one caller is
\* between EnterSpinLock and LeaveSpinLock, whatever the callers call.
THEOREM LockExcludes ==
  ASSUME Interlocked = TRUE
  PROVE  Spec => []MutualExclusion
  <1>1. Init => LockInv
    BY DEF Init, LockInv, PcTyped, FlagTellsInside, MutualExclusion, Inside, Guarded
  <1>2. LockInv /\ [Next]_vars => LockInv'
    BY NextKeepsLockInv
  <1>3. LockInv => MutualExclusion
    BY DEF LockInv
  <1> QED
    BY <1>1, <1>2, <1>3, PTL DEF Spec
===============================================================================
