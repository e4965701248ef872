----------------------------- MODULE MtSumProofs -----------------------------
(***************************************************************************)
(* What mtsumarray prints, for every array and whatever partial_sum        *)
(* contains at first: no update of sum is lost in it.                      *)
(***************************************************************************)
EXTENDS MtSum, TLAPS

Before == {"none", "loop", "unlock"}
Within == {"load", "store", "lock"}

\* How far main is, and what it knows.
MainPhase ==
    /\ mtPc = "create0" => \A t \in Thread : tpc[t] = "none"
    /\ mtPc = "create1" => tpc[1] = "none"
    /\ mtPc \notin {"return", "exited"} => mtFreed = 0
    /\ mtPc \in {"create0", "create1", "join"} => ~destroyed
    /\ mtPc = "print" => destroyed
    /\ destroyed => tpc[0] = "exit"

\* The count of users is minus the number of threads that unlocked the mutex
\* and did not lock it yet.
Users(t) == IF tpc[t] \in Within THEN 1 ELSE 0
UsersCounted == IF destroyed THEN nusers = 0 /\ locked ELSE nusers = 0 - Users(0) - Users(1)

\* The mutex is locked by a thread that exited, until another one unlocks it.
LockedByExited ==
    /\ locked => \E t \in Thread : tpc[t] = "exit"
    /\ \A t, u \in Thread : t # u /\ tpc[t] = "exit" /\ tpc[u] \notin Within => locked

\* sum, as long as thread t is the only one that unlocked, and when it
\* unlocked after the other one, u, had exited.
FirstInside(t) ==
    /\ tpc[t] \in Before \cup {"load", "store"} => sum = 0
    /\ tpc[t] = "store" => register[t] = 0
    /\ tpc[t] \in {"lock", "exit"} => sum = partial_sum[t]
SecondInside(t, u) ==
    /\ tpc[t] \in {"load", "store"} => sum = partial_sum[u]
    /\ tpc[t] = "store" => register[t] = partial_sum[u]
    /\ tpc[t] \in {"lock", "exit"} => sum = partial_sum[0] + partial_sum[1]
SerialSum ==
    \A t, u \in Thread : t # u =>
        /\ tpc[u] \in Before => FirstInside(t)
        /\ tpc[u] = "exit" /\ (destroyed \/ ~locked \/ tpc[t] = "exit") => SecondInside(t, u)

PrintedSum ==
    printed # NoValue =>
        /\ destroyed
        /\ \/ printed = partial_sum[0]
           \/ printed = partial_sum[0] + partial_sum[1] /\ tpc[1] \in {"lock", "exit"}

MtInv == TypeOK /\ MainPhase /\ UsersCounted /\ LockedByExited /\ SerialSum /\ PrintedSum

-----------------------------------------------------------------------------
LEMMA MtInitially == MtInit => MtInv
<1> SUFFICES ASSUME MtInit PROVE MtInv OBVIOUS
<1>1. partial_sum \in [Thread -> Int] /\ loop_index \in [Thread -> Nat]
  <2>1. partial_sum \in [Thread -> Garbage] /\ Garbage \subseteq Int
    BY MtAssumption DEF MtInit
  <2>2. loop_index = [t \in Thread |-> t] /\ Thread \subseteq Nat
    BY DEF MtInit, Thread
  <2>3. partial_sum \in [Thread -> Int]
    BY <2>1
  <2>4. loop_index \in [Thread -> Nat]
    BY <2>2
  <2> QED BY <2>3, <2>4
<1>2. /\ nusers = 0 /\ mtFreed = 0 /\ sum = 0 /\ printed = NoValue /\ retval = NoValue /\ mtPc = "create0"
      /\ locked = FALSE /\ destroyed = FALSE /\ tpc[0] = "none" /\ tpc[1] = "none"
      /\ tpc = [t \in Thread |-> "none"] /\ register = [t \in Thread |-> 0]
  BY DEF MtInit, Thread
<1>4. TypeOK
  <2>1. locked \in BOOLEAN /\ destroyed \in BOOLEAN
    BY <1>2, Zenon
  <2>2. tpc \in [Thread -> {"none", "loop", "unlock", "load", "store", "lock", "exit"}]
    BY <1>2, Zenon
  <2>3. register \in [Thread -> Int]
    BY <1>2
  <2> QED BY <1>1, <1>2, <2>1, <2>2, <2>3 DEF TypeOK
<1>5. UsersCounted
  <2>1. Users(0) = 0 /\ Users(1) = 0
    BY <1>2 DEF Users, Within
  <2>2. ~destroyed /\ nusers = 0
    BY <1>2, Zenon
  <2> QED BY <2>1, <2>2 DEF UsersCounted
<1>6. MainPhase /\ LockedByExited
  BY <1>2 DEF MainPhase, LockedByExited, Thread
<1>3. SerialSum /\ PrintedSum
  BY MtAssumption DEF MtInit, SerialSum, FirstInside, SecondInside, PrintedSum, Thread, Before
<1> QED BY <1>3, <1>4, <1>5, <1>6 DEF MtInv


LEMMA MtMain == ASSUME MtInv, Main PROVE MtInv'
<1> USE MtAssumption DEF MtInv
<1>1. ASSUME NEW t \in Thread, Create(t) PROVE MtInv'
  <2>1. TypeOK'
    BY <1>1 DEF Create, TypeOK, Thread, UsersCounted, Users, Within, MainPhase, mutexVars
  <2>2. MainPhase'
    BY <1>1 DEF Create, TypeOK, Thread, MainPhase, mutexVars
  <2>3. UsersCounted'
    BY <1>1 DEF Create, TypeOK, Thread, UsersCounted, Users, Within, MainPhase, LockedByExited, Before, mutexVars
  <2>4. LockedByExited'
    BY <1>1 DEF Create, TypeOK, Thread, LockedByExited, MainPhase, UsersCounted, Users, Before, Within, mutexVars
  <2>5. SerialSum'
    BY <1>1 DEF Create, TypeOK, Thread, SerialSum, FirstInside, SecondInside, MainPhase, LockedByExited, Before, mutexVars
  <2>6. PrintedSum'
    BY <1>1 DEF Create, TypeOK, Thread, PrintedSum, SerialSum, FirstInside, SecondInside, UsersCounted, Users, Before, Within, MainPhase, mutexVars
  <2> QED BY <2>1, <2>2, <2>3, <2>4, <2>5, <2>6
<1>2. CASE CreateFails
  <2>1. TypeOK'
    BY <1>2 DEF CreateFails, TypeOK, Thread, UsersCounted, Users, Within, MainPhase, mutexVars, threadVars
  <2>2. MainPhase'
    BY <1>2 DEF CreateFails, TypeOK, Thread, MainPhase, mutexVars, threadVars
  <2>3. UsersCounted'
    BY <1>2 DEF CreateFails, TypeOK, Thread, UsersCounted, Users, Within, MainPhase, LockedByExited, Before, mutexVars, threadVars
  <2>4. LockedByExited'
    BY <1>2 DEF CreateFails, TypeOK, Thread, LockedByExited, MainPhase, UsersCounted, Users, Before, Within, mutexVars, threadVars
  <2>5. SerialSum'
    BY <1>2 DEF CreateFails, TypeOK, Thread, SerialSum, FirstInside, SecondInside, MainPhase, LockedByExited, Before, mutexVars, threadVars
  <2>6. PrintedSum'
    BY <1>2 DEF CreateFails, TypeOK, Thread, PrintedSum, SerialSum, FirstInside, SecondInside, UsersCounted, Users, Before, Within, MainPhase, mutexVars, threadVars
  <2> QED BY <2>1, <2>2, <2>3, <2>4, <2>5, <2>6
<1>3. CASE JoinAndDestroy
  <2>1. TypeOK'
    <3>1. mtFreed = 0
      BY <1>3 DEF JoinAndDestroy, MainPhase
    <3>2. mtFreed' \in 0 .. 1
      BY <1>3, <3>1 DEF JoinAndDestroy, TypeOK
    <3> QED BY <1>3, <3>2 DEF JoinAndDestroy, TypeOK, threadVars
  <2>2. MainPhase'
    BY <1>3 DEF JoinAndDestroy, TypeOK, Thread, MainPhase, mutexVars, threadVars
  <2>3. UsersCounted'
    <3>1. ~destroyed /\ tpc[0] = "exit"
      BY <1>3 DEF JoinAndDestroy, MainPhase
    <3>2. nusers = 0 => tpc[1] \notin Within
      BY <3>1 DEF UsersCounted, Users, Within
    <3>3. nusers = 0 => locked
      BY <3>1, <3>2 DEF LockedByExited, Thread
    <3> QED BY <1>3, <3>1, <3>3 DEF JoinAndDestroy, UsersCounted, Users, threadVars
  <2>4. LockedByExited'
    BY <1>3 DEF JoinAndDestroy, TypeOK, Thread, LockedByExited, MainPhase, UsersCounted, Users, Before, Within, mutexVars, threadVars
  <2>5. SerialSum'
    <3>1. ~destroyed /\ tpc[0] = "exit"
      BY <1>3 DEF JoinAndDestroy, MainPhase
    <3>2. nusers = 0 => tpc[1] \notin Within
      BY <3>1 DEF UsersCounted, Users, Within
    <3> QED BY <1>3, <3>1, <3>2 DEF JoinAndDestroy, TypeOK, Thread, SerialSum, FirstInside, SecondInside, Within, threadVars
  <2>6. PrintedSum'
    BY <1>3 DEF JoinAndDestroy, TypeOK, Thread, PrintedSum, SerialSum, FirstInside, SecondInside, UsersCounted, Users, Before, Within, MainPhase, mutexVars, threadVars
  <2> QED BY <2>1, <2>2, <2>3, <2>4, <2>5, <2>6
<1>4. CASE PrintSum
  <2>1. TypeOK'
    BY <1>4 DEF PrintSum, TypeOK, Thread, UsersCounted, Users, Within, MainPhase, mutexVars, threadVars
  <2>2. MainPhase'
    BY <1>4 DEF PrintSum, TypeOK, Thread, MainPhase, mutexVars, threadVars
  <2>3. UsersCounted'
    BY <1>4 DEF PrintSum, TypeOK, Thread, UsersCounted, Users, Within, MainPhase, LockedByExited, Before, mutexVars, threadVars
  <2>4. LockedByExited'
    BY <1>4 DEF PrintSum, TypeOK, Thread, LockedByExited, MainPhase, UsersCounted, Users, Before, Within, mutexVars, threadVars
  <2>5. SerialSum'
    BY <1>4 DEF PrintSum, TypeOK, Thread, SerialSum, FirstInside, SecondInside, MainPhase, LockedByExited, Before, mutexVars, threadVars
  <2>6. PrintedSum'
    BY <1>4 DEF PrintSum, TypeOK, Thread, PrintedSum, SerialSum, FirstInside, SecondInside, UsersCounted, Users, Before, Within, MainPhase, mutexVars, threadVars
  <2> QED BY <2>1, <2>2, <2>3, <2>4, <2>5, <2>6
<1>5. CASE Free
  <2>1. TypeOK'
    BY <1>5 DEF Free, TypeOK, Thread, UsersCounted, Users, Within, MainPhase, mutexVars, threadVars
  <2>2. MainPhase'
    BY <1>5 DEF Free, TypeOK, Thread, MainPhase, mutexVars, threadVars
  <2>3. UsersCounted'
    BY <1>5 DEF Free, TypeOK, Thread, UsersCounted, Users, Within, MainPhase, LockedByExited, Before, mutexVars, threadVars
  <2>4. LockedByExited'
    BY <1>5 DEF Free, TypeOK, Thread, LockedByExited, MainPhase, UsersCounted, Users, Before, Within, mutexVars, threadVars
  <2>5. SerialSum'
    BY <1>5 DEF Free, TypeOK, Thread, SerialSum, FirstInside, SecondInside, MainPhase, LockedByExited, Before, mutexVars, threadVars
  <2>6. PrintedSum'
    BY <1>5 DEF Free, TypeOK, Thread, PrintedSum, SerialSum, FirstInside, SecondInside, UsersCounted, Users, Before, Within, MainPhase, mutexVars, threadVars
  <2> QED BY <2>1, <2>2, <2>3, <2>4, <2>5, <2>6
<1>6. CASE Return
  <2>1. TypeOK'
    BY <1>6 DEF Return, TypeOK, Thread, UsersCounted, Users, Within, MainPhase, mutexVars, threadVars
  <2>2. MainPhase'
    BY <1>6 DEF Return, TypeOK, Thread, MainPhase, mutexVars, threadVars
  <2>3. UsersCounted'
    BY <1>6 DEF Return, TypeOK, Thread, UsersCounted, Users, Within, MainPhase, LockedByExited, Before, mutexVars, threadVars
  <2>4. LockedByExited'
    BY <1>6 DEF Return, TypeOK, Thread, LockedByExited, MainPhase, UsersCounted, Users, Before, Within, mutexVars, threadVars
  <2>5. SerialSum'
    BY <1>6 DEF Return, TypeOK, Thread, SerialSum, FirstInside, SecondInside, MainPhase, LockedByExited, Before, mutexVars, threadVars
  <2>6. PrintedSum'
    BY <1>6 DEF Return, TypeOK, Thread, PrintedSum, SerialSum, FirstInside, SecondInside, UsersCounted, Users, Before, Within, MainPhase, mutexVars, threadVars
  <2> QED BY <2>1, <2>2, <2>3, <2>4, <2>5, <2>6
<1> QED BY <1>1, <1>2, <1>3, <1>4, <1>5, <1>6 DEF Main

LEMMA MtThread == ASSUME MtInv, NEW t \in Thread, sum_array(t) PROVE MtInv'
<1> USE MtAssumption DEF MtInv
<1>1. CASE AddValue(t)
  <2>1. TypeOK'
    <3>1. values[loop_index[t]] \in Int
      <4>1. loop_index[t] \in 0 .. num_values - 1
        BY <1>1 DEF AddValue, TypeOK
      <4> QED BY <4>1
    <3> QED BY <1>1, <3>1 DEF AddValue, At, TypeOK, mainVars, mutexVars
  <2>2. MainPhase'
    BY <1>1 DEF AddValue, At, TypeOK, Thread, MainPhase, mainVars, mutexVars
  <2>3. UsersCounted'
    BY <1>1 DEF AddValue, At, TypeOK, Thread, UsersCounted, Users, Within, MainPhase, LockedByExited, Before, mainVars, mutexVars
  <2>4. LockedByExited'
    BY <1>1 DEF AddValue, At, TypeOK, Thread, LockedByExited, MainPhase, UsersCounted, Users, Before, Within, mainVars, mutexVars
  <2>5. SerialSum'
    BY <1>1 DEF AddValue, At, TypeOK, Thread, SerialSum, FirstInside, SecondInside, MainPhase, LockedByExited, Before, mainVars, mutexVars
  <2>6. PrintedSum'
    BY <1>1 DEF AddValue, At, TypeOK, Thread, PrintedSum, SerialSum, FirstInside, SecondInside, UsersCounted, Users, Before, Within, MainPhase, mainVars, mutexVars
  <2> QED BY <2>1, <2>2, <2>3, <2>4, <2>5, <2>6
<1>2. CASE EndLoop(t)
  <2>1. TypeOK'
    BY <1>2 DEF EndLoop, At, TypeOK, Thread, UsersCounted, Users, Within, MainPhase, mainVars, mutexVars
  <2>2. MainPhase'
    BY <1>2 DEF EndLoop, At, TypeOK, Thread, MainPhase, mainVars, mutexVars
  <2>3. UsersCounted'
    BY <1>2 DEF EndLoop, At, TypeOK, Thread, UsersCounted, Users, Within, MainPhase, LockedByExited, Before, mainVars, mutexVars
  <2>4. LockedByExited'
    BY <1>2 DEF EndLoop, At, TypeOK, Thread, LockedByExited, MainPhase, UsersCounted, Users, Before, Within, mainVars, mutexVars
  <2>5. SerialSum'
    BY <1>2 DEF EndLoop, At, TypeOK, Thread, SerialSum, FirstInside, SecondInside, MainPhase, LockedByExited, Before, mainVars, mutexVars
  <2>6. PrintedSum'
    BY <1>2 DEF EndLoop, At, TypeOK, Thread, PrintedSum, SerialSum, FirstInside, SecondInside, UsersCounted, Users, Before, Within, MainPhase, mainVars, mutexVars
  <2> QED BY <2>1, <2>2, <2>3, <2>4, <2>5, <2>6
<1>3. CASE Unlock(t)
  <2>1. TypeOK'
    <3>1. UsersCounted'
      BY <1>3 DEF Unlock, At, TypeOK, Thread, UsersCounted, Users, Within, MainPhase, LockedByExited, mainVars, mutexVars
    <3>2. (nusers \in -2 .. 0)'
      BY <3>1 DEF UsersCounted, Users
    <3> QED BY <1>3, <3>2 DEF Unlock, At, TypeOK, mainVars, mutexVars
  <2>2. MainPhase'
    BY <1>3 DEF Unlock, At, TypeOK, Thread, MainPhase, mainVars, mutexVars
  <2>3. UsersCounted'
    BY <1>3 DEF Unlock, At, TypeOK, Thread, UsersCounted, Users, Within, MainPhase, LockedByExited, Before, mainVars, mutexVars
  <2>4. LockedByExited'
    BY <1>3 DEF Unlock, At, TypeOK, Thread, LockedByExited, MainPhase, UsersCounted, Users, Before, Within, mainVars, mutexVars
  <2>5. SerialSum'
    BY <1>3 DEF Unlock, At, TypeOK, Thread, SerialSum, FirstInside, SecondInside, MainPhase, LockedByExited, Before, mainVars, mutexVars
  <2>6. PrintedSum'
    BY <1>3 DEF Unlock, At, TypeOK, Thread, PrintedSum, SerialSum, FirstInside, SecondInside, UsersCounted, Users, Before, Within, MainPhase, mainVars, mutexVars
  <2> QED BY <2>1, <2>2, <2>3, <2>4, <2>5, <2>6
<1>4. CASE Load(t)
  <2>1. TypeOK'
    BY <1>4 DEF Load, At, TypeOK, Thread, UsersCounted, Users, Within, MainPhase, mainVars, mutexVars
  <2>2. MainPhase'
    BY <1>4 DEF Load, At, TypeOK, Thread, MainPhase, mainVars, mutexVars
  <2>3. UsersCounted'
    BY <1>4 DEF Load, At, TypeOK, Thread, UsersCounted, Users, Within, MainPhase, LockedByExited, Before, mainVars, mutexVars
  <2>4. LockedByExited'
    BY <1>4 DEF Load, At, TypeOK, Thread, LockedByExited, MainPhase, UsersCounted, Users, Before, Within, mainVars, mutexVars
  <2>5. SerialSum'
    BY <1>4 DEF Load, At, TypeOK, Thread, SerialSum, FirstInside, SecondInside, MainPhase, LockedByExited, Before, mainVars, mutexVars
  <2>6. PrintedSum'
    BY <1>4 DEF Load, At, TypeOK, Thread, PrintedSum, SerialSum, FirstInside, SecondInside, UsersCounted, Users, Before, Within, MainPhase, mainVars, mutexVars
  <2> QED BY <2>1, <2>2, <2>3, <2>4, <2>5, <2>6
<1>5. CASE Store(t)
  <2>1. TypeOK'
    BY <1>5 DEF Store, At, TypeOK, Thread, UsersCounted, Users, Within, MainPhase, mainVars, mutexVars
  <2>2. MainPhase'
    BY <1>5 DEF Store, At, TypeOK, Thread, MainPhase, mainVars, mutexVars
  <2>3. UsersCounted'
    BY <1>5 DEF Store, At, TypeOK, Thread, UsersCounted, Users, Within, MainPhase, LockedByExited, Before, mainVars, mutexVars
  <2>4. LockedByExited'
    BY <1>5 DEF Store, At, TypeOK, Thread, LockedByExited, MainPhase, UsersCounted, Users, Before, Within, mainVars, mutexVars
  <2>5. SerialSum'
    BY <1>5 DEF Store, At, TypeOK, Thread, SerialSum, FirstInside, SecondInside, MainPhase, LockedByExited, Before, mainVars, mutexVars
  <2>6. PrintedSum'
    BY <1>5 DEF Store, At, TypeOK, Thread, PrintedSum, SerialSum, FirstInside, SecondInside, UsersCounted, Users, Before, Within, MainPhase, mainVars, mutexVars
  <2> QED BY <2>1, <2>2, <2>3, <2>4, <2>5, <2>6
<1>6. CASE Lock(t)
  <2>1. TypeOK'
    <3>1. UsersCounted'
      BY <1>6 DEF Lock, At, TypeOK, Thread, UsersCounted, Users, Within, MainPhase, LockedByExited, mainVars, mutexVars
    <3>2. (nusers \in -2 .. 0)'
      BY <3>1 DEF UsersCounted, Users
    <3> QED BY <1>6, <3>2 DEF Lock, At, TypeOK, mainVars, mutexVars
  <2>2. MainPhase'
    BY <1>6 DEF Lock, At, TypeOK, Thread, MainPhase, mainVars, mutexVars
  <2>3. UsersCounted'
    BY <1>6 DEF Lock, At, TypeOK, Thread, UsersCounted, Users, Within, MainPhase, LockedByExited, Before, mainVars, mutexVars
  <2>4. LockedByExited'
    BY <1>6 DEF Lock, At, TypeOK, Thread, LockedByExited, MainPhase, UsersCounted, Users, Before, Within, mainVars, mutexVars
  <2>5. SerialSum'
    BY <1>6 DEF Lock, At, TypeOK, Thread, SerialSum, FirstInside, SecondInside, MainPhase, LockedByExited, Before, mainVars, mutexVars
  <2>6. PrintedSum'
    BY <1>6 DEF Lock, At, TypeOK, Thread, PrintedSum, SerialSum, FirstInside, SecondInside, UsersCounted, Users, Before, Within, MainPhase, mainVars, mutexVars
  <2> QED BY <2>1, <2>2, <2>3, <2>4, <2>5, <2>6
<1> QED BY <1>1, <1>2, <1>3, <1>4, <1>5, <1>6 DEF sum_array

LEMMA MtPreserved == ASSUME MtInv, [MtNext]_mtVars PROVE MtInv'
<1>1. CASE MtNext
  BY <1>1, MtMain, MtThread DEF MtNext
<1>2. CASE UNCHANGED mtVars
  BY <1>2 DEF MtInv, TypeOK, MainPhase, UsersCounted, Users, LockedByExited, SerialSum, FirstInside,
     SecondInside, PrintedSum, mtVars, mainVars, mutexVars, threadVars
<1> QED BY <1>1, <1>2

LEMMA MtInvariant == MtSpec => []MtInv
<1>1. MtInit => MtInv
  BY MtInitially
<1>2. MtInv /\ [MtNext]_mtVars => MtInv'
  BY MtPreserved
<1> QED BY <1>1, <1>2, PTL DEF MtSpec

\* The types of mtsumarray's variables; the mutex' count of users, unsigned in
\* the library, goes below zero by at most the number of threads.
THEOREM MtTypeCorrect == MtSpec => []TypeOK
<1>1. MtInv => TypeOK
  BY DEF MtInv
<1> QED BY <1>1, MtInvariant, PTL

\* Although sum_array unlocks first and locks last (mtsumarray.c:66-71), and
\* main prints after one join (146), the printed sum lacks nothing that both
\* threads wrote: it is the first thread's part, or both parts.
THEOREM NoUpdateLostInPrint == MtSpec => []PrintedIsFirstOrBoth
<1>1. MtInv => PrintedIsFirstOrBoth
  BY DEF MtInv, PrintedSum, PrintedIsFirstOrBoth
<1> QED BY <1>1, MtInvariant, PTL
=============================================================================
