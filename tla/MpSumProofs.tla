----------------------------- MODULE MpSumProofs -----------------------------
(***************************************************************************)
(* Two invariants of mpsumarray.                                           *)
(*   MpInv, for one instance alone in its directory, with no child stopped *)
(*   and continued: wherever forks fail and children are killed, the       *)
(*   semaphore excludes and no update is lost.                             *)
(*   LeftInv, for any number of instances and any fault: the objects the   *)
(*   key stands for are still to be removed by the instance that made them.*)
(***************************************************************************)
EXTENDS MpSum, TLAPS

Alone == (\A i, j \in Insts : i = j) /\ "stop" \notin Faults

\* The instance uses the semaphore and the segment it created.
OwnObjects ==
    \A i \in Insts :
        /\ mpPc[i] # "semget" => semid[i] = i
        /\ mpPc[i] = "semget" => semOfKey = Nil
        /\ mpPc[i] \notin {"semget", "done"} => semval[i] # Nil
        /\ mpPc[i] \in {"semget", "setval", "shmget"} => shmOfKey = Nil
        /\ mpPc[i] \notin {"semget", "setval", "shmget"} => shmid[i] = i
        /\ mpPc[i] \notin {"rmsem", "done"} => shmGone = {}

\* Children exist from their fork until the parent has waited for them.
Family ==
    \A c \in Children :
        /\ mpPc[c[1]] \in {"semget", "setval", "shmget", "shmat", "fork0"} => cpc[c] = "none"
        /\ mpPc[c[1]] = "fork1" /\ c[2] = 1 => cpc[c] = "none"
        /\ c \in started <=> cpc[c] # "none"
        /\ mpPc[c[1]] \in {"rmshm", "rmsem", "done"} => ~Alive(c)

\* Either the semaphore is free and nobody is in the section, or one child is.
OneToken ==
    \A i \in Insts : mpPc[i] \notin {"semget", "setval", "done"} =>
        \/ semval[i] = 1 /\ \A c \in Children : ~InSection(c)
        \/ semval[i] = 0 /\ \E c \in Children : InSection(c) /\ \A d \in Children \ {c} : ~InSection(d)

\* What the kernel will undo is what the child holds.
UndoIsHeld == \A c \in Children : semadj[c] = IF InSection(c) THEN 1 ELSE 0

\* The segment holds what was added to it; nobody is about to overwrite it
\* with an older value.
SumIsAdded ==
    /\ \A i \in Insts :
        /\ mpPc[i] \notin {"semget", "setval", "shmget", "shmat"} => shmval[i] = added
        /\ mpPrinted[i] # Nil => mpPrinted[i] = added /\ mpPc[i] \in {"rmshm", "rmsem", "done"}
    /\ \A c \in Children :
        /\ cpc[c] = "store" => mpRegister[c] = shmval[c[1]]
        /\ cpc[c] \in {"none", "P", "load", "store"} => c \notin added

MpInv == MpTypeOK /\ OwnObjects /\ Family /\ OneToken /\ UndoIsHeld /\ SumIsAdded

-----------------------------------------------------------------------------
\* A lone instance is the parent of every child.
LEMMA LoneParent ==
    ASSUME Alone, NEW i \in Insts
    PROVE  /\ Insts = {i}
           /\ \A c \in Children : c[1] = i /\ c[2] \in Workers /\ c = <<i, c[2]>>
           /\ \A w \in Workers : <<i, w>> \in Children
BY DEF Alone, Children

LEMMA MpInitially == MpInit => MpInv
<1> SUFFICES ASSUME MpInit PROVE MpInv OBVIOUS
<1> USE SumAssumption
<1>1. MpTypeOK
  BY DEF MpInit, MpTypeOK, Children, Workers
<1>2. OwnObjects /\ OneToken
  BY DEF MpInit, OwnObjects, OneToken
<1>3. Family /\ UndoIsHeld /\ SumIsAdded
  BY DEF MpInit, Family, UndoIsHeld, SumIsAdded, InSection, Children, Workers
<1> QED BY <1>1, <1>2, <1>3 DEF MpInv

LEMMA MpParent ==
    ASSUME Alone, MpInv, NEW i \in Insts, Parent(i)
    PROVE  MpInv'
<1> USE SumAssumption DEF MpInv
<1>a. /\ Insts = {i}
      /\ \A c \in Children : c[1] = i /\ c[2] \in Workers /\ c = <<i, c[2]>>
      /\ \A w \in Workers : <<i, w>> \in Children
  BY LoneParent
<1>1. CASE SemGet(i)
  <2>1. MpTypeOK'
    BY <1>a, <1>1 DEF SemGet, create_semaphore, MpTypeOK, OwnObjects, semVars, shmVars, childVars
  <2>2. OwnObjects'
    BY <1>a, <1>1 DEF SemGet, create_semaphore, MpTypeOK, OwnObjects, semVars, shmVars, childVars
  <2>3. Family'
    BY <1>a, <1>1 DEF SemGet, create_semaphore, MpTypeOK, Family, Alive, semVars, shmVars, childVars
  <2>4. OneToken'
    BY <1>a, <1>1 DEF SemGet, create_semaphore, MpTypeOK, OneToken, OwnObjects, Family, InSection, Alive, semVars, shmVars, childVars
  <2>5. UndoIsHeld'
    BY <1>a, <1>1 DEF SemGet, create_semaphore, MpTypeOK, UndoIsHeld, OwnObjects, Family, InSection, Alive, semVars, shmVars, childVars
  <2>6. SumIsAdded'
    BY <1>a, <1>1 DEF SemGet, create_semaphore, MpTypeOK, SumIsAdded, OwnObjects, Family, Alive, semVars, shmVars, childVars
  <2> QED BY <2>1, <2>2, <2>3, <2>4, <2>5, <2>6
<1>2. CASE SetSem(i)
  <2>1. MpTypeOK'
    BY <1>a, <1>2 DEF SetSem, SetVal, MpTypeOK, OwnObjects, semVars, shmVars, childVars
  <2>2. OwnObjects'
    BY <1>a, <1>2 DEF SetSem, SetVal, MpTypeOK, OwnObjects, semVars, shmVars, childVars
  <2>3. Family'
    BY <1>a, <1>2 DEF SetSem, SetVal, MpTypeOK, Family, Alive, semVars, shmVars, childVars
  <2>4. OneToken'
    BY <1>a, <1>2 DEF SetSem, SetVal, MpTypeOK, OneToken, OwnObjects, Family, InSection, Alive, semVars, shmVars, childVars
  <2>5. UndoIsHeld'
    BY <1>a, <1>2 DEF SetSem, SetVal, MpTypeOK, UndoIsHeld, OwnObjects, Family, InSection, Alive, semVars, shmVars, childVars
  <2>6. SumIsAdded'
    BY <1>a, <1>2 DEF SetSem, SetVal, MpTypeOK, SumIsAdded, OwnObjects, Family, Alive, semVars, shmVars, childVars
  <2> QED BY <2>1, <2>2, <2>3, <2>4, <2>5, <2>6
<1>3. CASE SetSemFails(i)
  <2>1. MpTypeOK'
    BY <1>a, <1>3 DEF SetSemFails, MpTypeOK, OwnObjects, semVars, shmVars, childVars
  <2>2. OwnObjects'
    BY <1>a, <1>3 DEF SetSemFails, MpTypeOK, OwnObjects, semVars, shmVars, childVars
  <2>3. Family'
    BY <1>a, <1>3 DEF SetSemFails, MpTypeOK, Family, Alive, semVars, shmVars, childVars
  <2>4. OneToken'
    BY <1>a, <1>3 DEF SetSemFails, MpTypeOK, OneToken, OwnObjects, Family, InSection, Alive, semVars, shmVars, childVars
  <2>5. UndoIsHeld'
    BY <1>a, <1>3 DEF SetSemFails, MpTypeOK, UndoIsHeld, OwnObjects, Family, InSection, Alive, semVars, shmVars, childVars
  <2>6. SumIsAdded'
    BY <1>a, <1>3 DEF SetSemFails, MpTypeOK, SumIsAdded, OwnObjects, Family, Alive, semVars, shmVars, childVars
  <2> QED BY <2>1, <2>2, <2>3, <2>4, <2>5, <2>6
<1>4. CASE ShmGet(i)
  <2>1. MpTypeOK'
    BY <1>a, <1>4 DEF ShmGet, MpTypeOK, OwnObjects, semVars, shmVars, childVars
  <2>2. OwnObjects'
    BY <1>a, <1>4 DEF ShmGet, MpTypeOK, OwnObjects, semVars, shmVars, childVars
  <2>3. Family'
    BY <1>a, <1>4 DEF ShmGet, MpTypeOK, Family, Alive, semVars, shmVars, childVars
  <2>4. OneToken'
    BY <1>a, <1>4 DEF ShmGet, MpTypeOK, OneToken, OwnObjects, Family, InSection, Alive, semVars, shmVars, childVars
  <2>5. UndoIsHeld'
    BY <1>a, <1>4 DEF ShmGet, MpTypeOK, UndoIsHeld, OwnObjects, Family, InSection, Alive, semVars, shmVars, childVars
  <2>6. SumIsAdded'
    BY <1>a, <1>4 DEF ShmGet, MpTypeOK, SumIsAdded, OwnObjects, Family, Alive, semVars, shmVars, childVars
  <2> QED BY <2>1, <2>2, <2>3, <2>4, <2>5, <2>6
<1>5. CASE ShmAttach(i)
  <2>1. MpTypeOK'
    BY <1>a, <1>5 DEF ShmAttach, MpTypeOK, OwnObjects, semVars, shmVars, childVars
  <2>2. OwnObjects'
    BY <1>a, <1>5 DEF ShmAttach, MpTypeOK, OwnObjects, semVars, shmVars, childVars
  <2>3. Family'
    BY <1>a, <1>5 DEF ShmAttach, MpTypeOK, Family, Alive, semVars, shmVars, childVars
  <2>4. OneToken'
    BY <1>a, <1>5 DEF ShmAttach, MpTypeOK, OneToken, OwnObjects, Family, InSection, Alive, semVars, shmVars, childVars
  <2>5. UndoIsHeld'
    BY <1>a, <1>5 DEF ShmAttach, MpTypeOK, UndoIsHeld, OwnObjects, Family, InSection, Alive, semVars, shmVars, childVars
  <2>6. SumIsAdded'
    BY <1>a, <1>5 DEF ShmAttach, MpTypeOK, SumIsAdded, OwnObjects, Family, Alive, semVars, shmVars, childVars
  <2> QED BY <2>1, <2>2, <2>3, <2>4, <2>5, <2>6
<1>6. CASE ShmAttachFails(i)
  <2>1. MpTypeOK'
    BY <1>a, <1>6 DEF ShmAttachFails, MpTypeOK, OwnObjects, semVars, shmVars, childVars
  <2>2. OwnObjects'
    BY <1>a, <1>6 DEF ShmAttachFails, MpTypeOK, OwnObjects, semVars, shmVars, childVars
  <2>3. Family'
    BY <1>a, <1>6 DEF ShmAttachFails, MpTypeOK, Family, Alive, semVars, shmVars, childVars
  <2>4. OneToken'
    BY <1>a, <1>6 DEF ShmAttachFails, MpTypeOK, OneToken, OwnObjects, Family, InSection, Alive, semVars, shmVars, childVars
  <2>5. UndoIsHeld'
    BY <1>a, <1>6 DEF ShmAttachFails, MpTypeOK, UndoIsHeld, OwnObjects, Family, InSection, Alive, semVars, shmVars, childVars
  <2>6. SumIsAdded'
    BY <1>a, <1>6 DEF ShmAttachFails, MpTypeOK, SumIsAdded, OwnObjects, Family, Alive, semVars, shmVars, childVars
  <2> QED BY <2>1, <2>2, <2>3, <2>4, <2>5, <2>6
<1>7. ASSUME NEW w \in Workers, ForkChild(i, w) PROVE MpInv'
  <2> DEFINE c == <<i, w>>
  <2>a. c \in Children /\ c[1] = i /\ c[2] = w /\ w \in {0, 1}
    BY <1>a DEF Workers
  <2> HIDE DEF c
  <2>b. /\ mpPc[i] = IF w = 0 THEN "fork0" ELSE "fork1"
        /\ mpPc' = [mpPc EXCEPT ![i] = IF w = 0 THEN "fork1" ELSE "wait"]
        /\ \/ cpc' = [cpc EXCEPT ![c] = "P"] /\ started' = started \cup {c}
           \/ UNCHANGED <<cpc, started>>
        /\ UNCHANGED <<semVars, shmVars, semid, shmid, mpPrinted, mpRetval, mpRegister, added>>
    BY <1>7 DEF ForkChild, c
  <2>c. cpc[c] = "none"
    BY <1>a, <2>a, <2>b DEF Family
  <2>1. MpTypeOK'
    BY <2>a, <2>b DEF MpTypeOK, semVars, shmVars
  <2>2. OwnObjects'
    BY <1>a, <2>b DEF MpTypeOK, OwnObjects, semVars, shmVars
  <2>3. Family'
    BY <1>a, <2>a, <2>b, <2>c DEF MpTypeOK, Family, Alive
  <2>4. OneToken'
    <3>1. \A d \in Children : InSection(d)' <=> InSection(d)
      BY <2>a, <2>b, <2>c DEF MpTypeOK, InSection
    <3>2. semval' = semval /\ mpPc[i] \in {"fork0", "fork1"}
      BY <2>a, <2>b DEF semVars
    <3>3. \/ semval[i] = 1 /\ \A e \in Children : ~InSection(e)
          \/ semval[i] = 0 /\ \E e \in Children : InSection(e) /\ \A d \in Children \ {e} : ~InSection(d)
      BY <3>2 DEF OneToken
    <3>4. \/ semval'[i] = 1 /\ \A e \in Children : ~InSection(e)'
          \/ semval'[i] = 0 /\ \E e \in Children : InSection(e)' /\ \A d \in Children \ {e} : ~InSection(d)'
      BY <3>1, <3>2, <3>3
    <3> QED BY <1>a, <3>4 DEF OneToken
  <2>5. UndoIsHeld'
    BY <2>a, <2>b, <2>c DEF MpTypeOK, UndoIsHeld, InSection, semVars
  <2>6. SumIsAdded'
    BY <1>a, <2>a, <2>b, <2>c DEF MpTypeOK, SumIsAdded, shmVars
  <2> QED BY <2>1, <2>2, <2>3, <2>4, <2>5, <2>6
<1>8. CASE PrintTotal(i)
  <2>1. MpTypeOK'
    BY <1>a, <1>8 DEF PrintTotal, MpTypeOK, OwnObjects, semVars, shmVars, childVars
  <2>2. OwnObjects'
    BY <1>a, <1>8 DEF PrintTotal, MpTypeOK, OwnObjects, semVars, shmVars, childVars
  <2>3. Family'
    BY <1>a, <1>8 DEF PrintTotal, MpTypeOK, Family, Alive, semVars, shmVars, childVars
  <2>4. OneToken'
    BY <1>a, <1>8 DEF PrintTotal, MpTypeOK, OneToken, OwnObjects, Family, InSection, Alive, semVars, shmVars, childVars
  <2>5. UndoIsHeld'
    BY <1>a, <1>8 DEF PrintTotal, MpTypeOK, UndoIsHeld, OwnObjects, Family, InSection, Alive, semVars, shmVars, childVars
  <2>6. SumIsAdded'
    BY <1>a, <1>8 DEF PrintTotal, MpTypeOK, SumIsAdded, OwnObjects, Family, Alive, semVars, shmVars, childVars
  <2> QED BY <2>1, <2>2, <2>3, <2>4, <2>5, <2>6
<1>9. CASE FreeShm(i)
  <2>1. MpTypeOK'
    BY <1>a, <1>9 DEF FreeShm, MpTypeOK, OwnObjects, semVars, shmVars, childVars
  <2>2. OwnObjects'
    BY <1>a, <1>9 DEF FreeShm, MpTypeOK, OwnObjects, semVars, shmVars, childVars
  <2>3. Family'
    BY <1>a, <1>9 DEF FreeShm, MpTypeOK, Family, Alive, semVars, shmVars, childVars
  <2>4. OneToken'
    BY <1>a, <1>9 DEF FreeShm, MpTypeOK, OneToken, OwnObjects, Family, InSection, Alive, semVars, shmVars, childVars
  <2>5. UndoIsHeld'
    BY <1>a, <1>9 DEF FreeShm, MpTypeOK, UndoIsHeld, OwnObjects, Family, InSection, Alive, semVars, shmVars, childVars
  <2>6. SumIsAdded'
    BY <1>a, <1>9 DEF FreeShm, MpTypeOK, SumIsAdded, OwnObjects, Family, Alive, semVars, shmVars, childVars
  <2> QED BY <2>1, <2>2, <2>3, <2>4, <2>5, <2>6
<1>10. CASE FreeSem(i)
  <2>1. MpTypeOK'
    BY <1>a, <1>10 DEF FreeSem, RemoveSem, MpTypeOK, OwnObjects, semVars, shmVars, childVars
  <2>2. OwnObjects'
    BY <1>a, <1>10 DEF FreeSem, RemoveSem, MpTypeOK, OwnObjects, semVars, shmVars, childVars
  <2>3. Family'
    BY <1>a, <1>10 DEF FreeSem, RemoveSem, MpTypeOK, Family, Alive, semVars, shmVars, childVars
  <2>4. OneToken'
    BY <1>a, <1>10 DEF FreeSem, RemoveSem, MpTypeOK, OneToken, OwnObjects, Family, InSection, Alive, semVars, shmVars, childVars
  <2>5. UndoIsHeld'
    BY <1>a, <1>10 DEF FreeSem, RemoveSem, MpTypeOK, UndoIsHeld, OwnObjects, Family, InSection, Alive, semVars, shmVars, childVars
  <2>6. SumIsAdded'
    BY <1>a, <1>10 DEF FreeSem, RemoveSem, MpTypeOK, SumIsAdded, OwnObjects, Family, Alive, semVars, shmVars, childVars
  <2> QED BY <2>1, <2>2, <2>3, <2>4, <2>5, <2>6
<1> QED BY <1>1, <1>2, <1>3, <1>4, <1>5, <1>6, <1>7, <1>8, <1>9, <1>10 DEF Parent

LEMMA MpChild ==
    ASSUME Alone, MpInv, NEW c \in Children, ChildStep(c) \/ LockInterrupted(c) \/ Kill(c)
    PROVE  MpInv'
<1> USE SumAssumption DEF MpInv
<1> DEFINE i == c[1]
<1>a. i \in Insts /\ Insts = {i} /\ \A d \in Children : d[1] = i
  BY LoneParent DEF Children
<1> HIDE DEF i
<1>b. cpc[c] # "none" => /\ semid[c[1]] = i /\ shmid[c[1]] = i
                         /\ shmval[i] = added /\ added \subseteq Children
  BY <1>a DEF OwnObjects, Family, SumIsAdded, MpTypeOK
<1>c. /\ semval[i] \in Nat \cup {Nil}
      /\ semadj[c] = IF InSection(c) THEN 1 ELSE 0
      /\ cpc[c] # "none" => (InSection(c) => semval[i] \in {0, Nil})
  <2>1. semval[i] \in Nat \cup {Nil} /\ semadj[c] = IF InSection(c) THEN 1 ELSE 0
    BY <1>a DEF UndoIsHeld, MpTypeOK
  <2>2. InSection(c) => mpPc[i] \notin {"semget", "setval", "done"}
    BY <1>a DEF InSection, Family, Alive
  <2>3. InSection(c) => semval[i] \in {0, Nil}
    BY <1>a, <2>2 DEF OneToken
  <2> QED BY <2>1, <2>3
<1>1. CASE Acquire(c)
  <2>1. MpTypeOK'
    <3>1. /\ semval' \in [Insts -> Nat \cup {Nil}] /\ semadj' \in [Children -> -1 .. 1]
          /\ semOfKey' = semOfKey
      <4>1. CASE semval[semid[c[1]]] # Nil /\ semval[semid[c[1]]] > 0
        BY <1>a, <1>b, <1>c, <1>1, <4>1 DEF Acquire, P, Alone, InSection, MpTypeOK
      <4>2. CASE UNCHANGED semVars
        BY <4>2 DEF MpTypeOK, semVars
      <4> QED BY <1>1, <4>1, <4>2 DEF Acquire, P
    <3> QED BY <1>a, <1>b, <1>1, <3>1 DEF Acquire, Alone, MpTypeOK, semVars, shmVars, parentVars
  <2>2. OwnObjects'
    BY <1>a, <1>1 DEF Acquire, P, Alone, MpTypeOK, OwnObjects, semVars, shmVars, parentVars
  <2>3. Family'
    BY <1>a, <1>1 DEF Acquire, P, Alone, MpTypeOK, Family, Alive, semVars, shmVars, parentVars
  <2>4. OneToken'
    BY <1>a, <1>1 DEF Acquire, P, Alone, MpTypeOK, OneToken, UndoIsHeld, OwnObjects, Family, InSection, Alive, semVars, shmVars, parentVars
  <2>5. UndoIsHeld'
    BY <1>a, <1>1 DEF Acquire, P, Alone, MpTypeOK, UndoIsHeld, OwnObjects, Family, InSection, Alive, semVars, shmVars, parentVars
  <2>6. SumIsAdded'
    BY <1>a, <1>1 DEF Acquire, P, Alone, MpTypeOK, SumIsAdded, OneToken, OwnObjects, Family, InSection, Alive, semVars, shmVars, parentVars
  <2> QED BY <2>1, <2>2, <2>3, <2>4, <2>5, <2>6
<1>2. CASE LoadSum(c)
  <2>1. MpTypeOK'
    BY <1>a, <1>b, <1>2 DEF LoadSum, MpTypeOK, semVars, shmVars, parentVars
  <2>2. OwnObjects'
    BY <1>a, <1>2 DEF LoadSum, MpTypeOK, OwnObjects, semVars, shmVars, parentVars
  <2>3. Family'
    BY <1>a, <1>2 DEF LoadSum, MpTypeOK, Family, Alive, semVars, shmVars, parentVars
  <2>4. OneToken'
    BY <1>a, <1>2 DEF LoadSum, MpTypeOK, OneToken, UndoIsHeld, OwnObjects, Family, InSection, Alive, semVars, shmVars, parentVars
  <2>5. UndoIsHeld'
    BY <1>a, <1>2 DEF LoadSum, MpTypeOK, UndoIsHeld, OwnObjects, Family, InSection, Alive, semVars, shmVars, parentVars
  <2>6. SumIsAdded'
    BY <1>a, <1>2 DEF LoadSum, MpTypeOK, SumIsAdded, OneToken, OwnObjects, Family, InSection, Alive, semVars, shmVars, parentVars
  <2> QED BY <2>1, <2>2, <2>3, <2>4, <2>5, <2>6
<1>3. CASE StoreSum(c)
  <2>1. MpTypeOK'
    BY <1>a, <1>b, <1>3 DEF StoreSum, MpTypeOK, semVars, parentVars
  <2>2. OwnObjects'
    BY <1>a, <1>3 DEF StoreSum, MpTypeOK, OwnObjects, semVars, shmVars, parentVars
  <2>3. Family'
    BY <1>a, <1>3 DEF StoreSum, MpTypeOK, Family, Alive, semVars, shmVars, parentVars
  <2>4. OneToken'
    BY <1>a, <1>3 DEF StoreSum, MpTypeOK, OneToken, UndoIsHeld, OwnObjects, Family, InSection, Alive, semVars, shmVars, parentVars
  <2>5. UndoIsHeld'
    BY <1>a, <1>3 DEF StoreSum, MpTypeOK, UndoIsHeld, OwnObjects, Family, InSection, Alive, semVars, shmVars, parentVars
  <2>6. SumIsAdded'
    BY <1>a, <1>3 DEF StoreSum, MpTypeOK, SumIsAdded, OneToken, OwnObjects, Family, InSection, Alive, semVars, shmVars, parentVars
  <2> QED BY <2>1, <2>2, <2>3, <2>4, <2>5, <2>6
<1>4. CASE Release(c)
  <2>1. MpTypeOK'
    BY <1>a, <1>4 DEF Release, V, MpTypeOK, OwnObjects, UndoIsHeld, semVars, shmVars, parentVars
  <2>2. OwnObjects'
    BY <1>a, <1>4 DEF Release, V, MpTypeOK, OwnObjects, semVars, shmVars, parentVars
  <2>3. Family'
    BY <1>a, <1>4 DEF Release, V, MpTypeOK, Family, Alive, semVars, shmVars, parentVars
  <2>4. OneToken'
    BY <1>a, <1>4 DEF Release, V, MpTypeOK, OneToken, UndoIsHeld, OwnObjects, Family, InSection, Alive, semVars, shmVars, parentVars
  <2>5. UndoIsHeld'
    BY <1>a, <1>4 DEF Release, V, MpTypeOK, UndoIsHeld, OwnObjects, Family, InSection, Alive, semVars, shmVars, parentVars
  <2>6. SumIsAdded'
    BY <1>a, <1>4 DEF Release, V, MpTypeOK, SumIsAdded, OneToken, OwnObjects, Family, InSection, Alive, semVars, shmVars, parentVars
  <2> QED BY <2>1, <2>2, <2>3, <2>4, <2>5, <2>6
<1>5. CASE Exit(c)
  <2>1. MpTypeOK'
    <3>1. \/ semVars' = semVars
          \/ /\ semval' \in [Insts -> Nat \cup {Nil}] /\ semadj' \in [Children -> -1 .. 1]
             /\ semOfKey' = semOfKey
      BY <1>a, <1>b, <1>c, <1>5 DEF Exit, Undo, InSection, MpTypeOK, semVars
    <3> QED BY <1>a, <1>b, <1>5, <3>1 DEF Exit, MpTypeOK, semVars, shmVars, parentVars
  <2>2. OwnObjects'
    BY <1>a, <1>5 DEF Exit, Undo, MpTypeOK, OwnObjects, semVars, shmVars, parentVars
  <2>3. Family'
    BY <1>a, <1>5 DEF Exit, Undo, MpTypeOK, Family, Alive, semVars, shmVars, parentVars
  <2>4. OneToken'
    BY <1>a, <1>5 DEF Exit, Undo, MpTypeOK, OneToken, UndoIsHeld, OwnObjects, Family, InSection, Alive, semVars, shmVars, parentVars
  <2>5. UndoIsHeld'
    BY <1>a, <1>5 DEF Exit, Undo, MpTypeOK, UndoIsHeld, OwnObjects, Family, InSection, Alive, semVars, shmVars, parentVars
  <2>6. SumIsAdded'
    BY <1>a, <1>5 DEF Exit, Undo, MpTypeOK, SumIsAdded, OneToken, OwnObjects, Family, InSection, Alive, semVars, shmVars, parentVars
  <2> QED BY <2>1, <2>2, <2>3, <2>4, <2>5, <2>6
<1>6. CASE Kill(c)
  <2>1. MpTypeOK'
    <3>1. \/ semVars' = semVars
          \/ /\ semval' \in [Insts -> Nat \cup {Nil}] /\ semadj' \in [Children -> -1 .. 1]
             /\ semOfKey' = semOfKey
      BY <1>a, <1>b, <1>c, <1>6 DEF Kill, Undo, Alive, InSection, MpTypeOK, semVars
    <3> QED BY <1>a, <1>b, <1>6, <3>1 DEF Kill, Alive, MpTypeOK, semVars, shmVars, parentVars
  <2>2. OwnObjects'
    BY <1>a, <1>6 DEF Kill, Undo, Alive, MpTypeOK, OwnObjects, semVars, shmVars, parentVars
  <2>3. Family'
    BY <1>a, <1>6 DEF Kill, Undo, Alive, MpTypeOK, Family, Alive, semVars, shmVars, parentVars
  <2>4. OneToken'
    BY <1>a, <1>b, <1>c, <1>6 DEF Kill, Undo, Alive, MpTypeOK, OneToken, OwnObjects, Family, InSection, semVars, shmVars, parentVars
  <2>5. UndoIsHeld'
    BY <1>a, <1>6 DEF Kill, Undo, Alive, MpTypeOK, UndoIsHeld, OwnObjects, Family, InSection, Alive, semVars, shmVars, parentVars
  <2>6. SumIsAdded'
    BY <1>a, <1>6 DEF Kill, Undo, Alive, MpTypeOK, SumIsAdded, OneToken, OwnObjects, Family, InSection, Alive, semVars, shmVars, parentVars
  <2> QED BY <2>1, <2>2, <2>3, <2>4, <2>5, <2>6
<1>7. CASE LockInterrupted(c)
  BY <1>7 DEF LockInterrupted, Alone
<1> QED BY <1>1, <1>2, <1>3, <1>4, <1>5, <1>6, <1>7 DEF ChildStep

LEMMA MpPreserved ==
    ASSUME Alone, MpInv, [MpNext]_mpVars
    PROVE  MpInv'
<1>1. CASE MpNext
  BY <1>1, MpParent, MpChild DEF MpNext, Progress
<1>2. CASE UNCHANGED mpVars
  <2>1. MpTypeOK' /\ OwnObjects' /\ Family' /\ SumIsAdded'
    BY <1>2 DEF MpInv, MpTypeOK, OwnObjects, Family, SumIsAdded, Alive,
                mpVars, semVars, shmVars, parentVars, childVars
  <2>2. OneToken' /\ UndoIsHeld'
    BY <1>2 DEF MpInv, OneToken, UndoIsHeld, InSection, mpVars, semVars, parentVars, childVars
  <2> QED BY <2>1, <2>2 DEF MpInv
<1> QED BY <1>1, <1>2

LEMMA MpInvariant == ASSUME Alone PROVE MpSpec => []MpInv
<1>1. MpInit => MpInv
  BY MpInitially
<1>2. MpInv /\ [MpNext]_mpVars => MpInv'
  BY MpPreserved
<1> QED BY <1>1, <1>2, PTL DEF MpSpec

\* "ensuring mutual exclusion" (mpsumarray.c:49-50): two children are never
\* both between P and V, wherever children are killed: the
\* kernel's SEM_UNDO gives back exactly what a killed child held.
THEOREM Exclusion == ASSUME Alone PROVE MpSpec => []MutualExclusion
<1>1. MpInv => MutualExclusion
  <2> SUFFICES ASSUME MpInv, NEW c \in Children, NEW d \in Children,
                      c # d, InSection(c), InSection(d)
               PROVE  FALSE
    BY DEF MutualExclusion
  <2> DEFINE i == c[1]
  <2>1. i \in Insts /\ c[1] = i
    BY DEF Children
  <2>2. mpPc[i] \notin {"semget", "setval", "done"}
    BY <2>1 DEF MpInv, Family, InSection, Alive
  <2>3. PICK e \in Children : \A f \in Children \ {e} : ~InSection(f)
    BY <2>1, <2>2 DEF MpInv, OneToken
  <2> QED BY <2>3
<1> QED BY <1>1, MpInvariant, PTL

\* What main prints (mpsumarray.c:171) is the sum of exactly the parts its
\* children added: no update of *sum is lost and the parent never prints early.
THEOREM NoUpdateLost == ASSUME Alone PROVE MpSpec => []PrintedIsWhatWasAdded
<1>1. MpInv => PrintedIsWhatWasAdded
  <2> SUFFICES ASSUME MpInv, NEW i \in Insts, mpPrinted[i] # Nil
               PROVE  mpPrinted[i] = Added(i)
    BY DEF PrintedIsWhatWasAdded
  <2>1. mpPrinted[i] = added
    BY DEF MpInv, SumIsAdded
  <2>2. added \subseteq Children /\ \A c \in Children : c[1] = i
    BY LoneParent DEF MpInv, MpTypeOK
  <2> QED BY <2>1, <2>2 DEF Added
<1> QED BY <1>1, MpInvariant, PTL

-----------------------------------------------------------------------------
(* Any number of instances, whatever fails: what the key stands for        *)

\* An instance has the ids once it is past semget() and shmget(), and so have
\* the children it forks after that.
Ids ==
    /\ \A i \in Insts : mpPc[i] # "semget" => semid[i] \in Insts
    /\ \A i \in Insts : mpPc[i] \in {"shmat", "fork0", "fork1", "wait", "rmshm"} => shmid[i] \in Insts
    /\ \A c \in Children : cpc[c] # "none" => mpPc[c[1]] # "semget" /\ shmid[c[1]] \in Insts

\* The types the proof needs; a child's adjustment keeps no range when other
\* instances reset the semaphore it holds.
LooseTypes ==
    /\ semOfKey \in Insts \cup {Nil} /\ shmOfKey \in Insts \cup {Nil}
    /\ semval \in [Insts -> Nat \cup {Nil}]
    /\ semadj \in [Children -> Int]
    /\ shmval \in [Insts -> (SUBSET Children) \cup {Nil}]
    /\ mpPc \in [Insts -> {"semget", "setval", "shmget", "shmat", "fork0", "fork1", "wait",
                         "rmshm", "rmsem", "done"}]
    /\ semid \in [Insts -> Insts \cup {Nil}] /\ shmid \in [Insts -> Insts \cup {Nil}]
    /\ cpc \in [Children -> {"none", "P", "load", "store", "V", "exit", "dead"}]
    /\ mpRegister \in [Children -> SUBSET Children]

\* A semaphore set exists as long as the key stands for it, and then the
\* instance that created it has yet to try to remove it.
SemKey ==
    /\ \A s \in Insts : semval[s] # Nil =>
          semOfKey = s /\ semid[s] = s /\ mpPc[s] \notin {"semget", "done"}
    /\ semOfKey # Nil => semval[semOfKey] # Nil

\* The same for the segment, until it is marked as removed.
ShmKey ==
    /\ \A s \in Insts : shmval[s] # Nil /\ s \notin shmGone =>
          /\ shmOfKey = s /\ shmid[s] = s
          /\ mpPc[s] \in {"shmat", "fork0", "fork1", "wait", "rmshm"}
    /\ shmOfKey # Nil => shmval[shmOfKey] # Nil /\ shmOfKey \notin shmGone
    /\ \A i \in Insts : shmid[i] # Nil => shmval[shmid[i]] # Nil
    /\ \A s \in Insts : s \in shmGone => shmval[s] # Nil
    /\ \A s \in Insts : shmval[s] # Nil => mpPc[s] \notin {"semget", "setval", "shmget"}

LeftInv == LooseTypes /\ Ids /\ SemKey /\ ShmKey

LEMMA LeftInit == MpInit => LeftInv
<1> SUFFICES ASSUME MpInit PROVE LeftInv OBVIOUS
<1> USE SumAssumption
<1>1. LooseTypes
  BY DEF MpInit, LooseTypes
<1>2. Ids /\ SemKey /\ ShmKey
  BY DEF MpInit, Ids, SemKey, ShmKey, Children
<1> QED BY <1>1, <1>2 DEF LeftInv

LEMMA LeftParent ==
    ASSUME LeftInv, NEW i \in Insts, Parent(i)
    PROVE  LeftInv'
<1> USE SumAssumption DEF LeftInv
<1>a. \A c \in Children : c[1] \in Insts
  BY DEF Children
<1>b. {} # Nil
  BY DEF Children, Workers
<1>1. CASE SemGet(i)
  <2>1. LooseTypes'
    BY <1>1 DEF SemGet, create_semaphore, LooseTypes, Ids, semVars, shmVars, childVars
  <2>2. Ids'
    BY <1>a, <1>1 DEF SemGet, create_semaphore, LooseTypes, Ids, semVars, shmVars, childVars
  <2>3. SemKey'
    BY <1>1 DEF SemGet, create_semaphore, LooseTypes, Ids, SemKey, semVars, shmVars, childVars
  <2>4. ShmKey'
    BY <1>b, <1>1 DEF SemGet, create_semaphore, LooseTypes, Ids, ShmKey, semVars, shmVars, childVars
  <2> QED BY <2>1, <2>2, <2>3, <2>4
<1>2. CASE SetSem(i)
  <2>1. LooseTypes'
    BY <1>2 DEF SetSem, SetVal, LooseTypes, Ids, semVars, shmVars, childVars
  <2>2. Ids'
    BY <1>a, <1>2 DEF SetSem, SetVal, LooseTypes, Ids, semVars, shmVars, childVars
  <2>3. SemKey'
    BY <1>2 DEF SetSem, SetVal, LooseTypes, Ids, SemKey, semVars, shmVars, childVars
  <2>4. ShmKey'
    BY <1>b, <1>2 DEF SetSem, SetVal, LooseTypes, Ids, ShmKey, semVars, shmVars, childVars
  <2> QED BY <2>1, <2>2, <2>3, <2>4
<1>3. CASE SetSemFails(i)
  <2>1. LooseTypes'
    BY <1>3 DEF SetSemFails, LooseTypes, Ids, semVars, shmVars, childVars
  <2>2. Ids'
    BY <1>a, <1>3 DEF SetSemFails, LooseTypes, Ids, semVars, shmVars, childVars
  <2>3. SemKey'
    BY <1>3 DEF SetSemFails, LooseTypes, Ids, SemKey, semVars, shmVars, childVars
  <2>4. ShmKey'
    BY <1>b, <1>3 DEF SetSemFails, LooseTypes, Ids, ShmKey, semVars, shmVars, childVars
  <2> QED BY <2>1, <2>2, <2>3, <2>4
<1>4. CASE ShmGet(i)
  <2>1. LooseTypes'
    BY <1>4 DEF ShmGet, LooseTypes, Ids, semVars, shmVars, childVars
  <2>2. Ids'
    BY <1>a, <1>4 DEF ShmGet, LooseTypes, Ids, semVars, shmVars, childVars
  <2>3. SemKey'
    BY <1>4 DEF ShmGet, LooseTypes, Ids, SemKey, semVars, shmVars, childVars
  <2>4. ShmKey'
    BY <1>b, <1>4 DEF ShmGet, LooseTypes, Ids, ShmKey, semVars, shmVars, childVars
  <2> QED BY <2>1, <2>2, <2>3, <2>4
<1>5. CASE ShmAttach(i)
  <2>1. LooseTypes'
    BY <1>5 DEF ShmAttach, LooseTypes, Ids, semVars, shmVars, childVars
  <2>2. Ids'
    BY <1>a, <1>5 DEF ShmAttach, LooseTypes, Ids, semVars, shmVars, childVars
  <2>3. SemKey'
    BY <1>5 DEF ShmAttach, LooseTypes, Ids, SemKey, semVars, shmVars, childVars
  <2>4. ShmKey'
    BY <1>b, <1>5 DEF ShmAttach, LooseTypes, Ids, ShmKey, semVars, shmVars, childVars
  <2> QED BY <2>1, <2>2, <2>3, <2>4
<1>6. CASE ShmAttachFails(i)
  <2>1. LooseTypes'
    BY <1>6 DEF ShmAttachFails, LooseTypes, Ids, semVars, shmVars, childVars
  <2>2. Ids'
    BY <1>a, <1>6 DEF ShmAttachFails, LooseTypes, Ids, semVars, shmVars, childVars
  <2>3. SemKey'
    BY <1>6 DEF ShmAttachFails, LooseTypes, Ids, SemKey, semVars, shmVars, childVars
  <2>4. ShmKey'
    BY <1>b, <1>6 DEF ShmAttachFails, LooseTypes, Ids, ShmKey, semVars, shmVars, childVars
  <2> QED BY <2>1, <2>2, <2>3, <2>4
<1>7. CASE PrintTotal(i)
  <2>1. LooseTypes'
    BY <1>7 DEF PrintTotal, LooseTypes, Ids, semVars, shmVars, childVars
  <2>2. Ids'
    BY <1>a, <1>7 DEF PrintTotal, LooseTypes, Ids, semVars, shmVars, childVars
  <2>3. SemKey'
    BY <1>7 DEF PrintTotal, LooseTypes, Ids, SemKey, semVars, shmVars, childVars
  <2>4. ShmKey'
    BY <1>b, <1>7 DEF PrintTotal, LooseTypes, Ids, ShmKey, semVars, shmVars, childVars
  <2> QED BY <2>1, <2>2, <2>3, <2>4
<1>8. CASE FreeShm(i)
  <2>1. LooseTypes'
    BY <1>8 DEF FreeShm, LooseTypes, Ids, semVars, shmVars, childVars
  <2>2. Ids'
    BY <1>a, <1>8 DEF FreeShm, LooseTypes, Ids, semVars, shmVars, childVars
  <2>3. SemKey'
    BY <1>8 DEF FreeShm, LooseTypes, Ids, SemKey, semVars, shmVars, childVars
  <2>4. ShmKey'
    BY <1>b, <1>8 DEF FreeShm, LooseTypes, Ids, ShmKey, semVars, shmVars, childVars
  <2> QED BY <2>1, <2>2, <2>3, <2>4
<1>9. CASE FreeSem(i)
  <2>1. LooseTypes'
    BY <1>9 DEF FreeSem, RemoveSem, LooseTypes, Ids, semVars, shmVars, childVars
  <2>2. Ids'
    BY <1>a, <1>9 DEF FreeSem, RemoveSem, LooseTypes, Ids, semVars, shmVars, childVars
  <2>3. SemKey'
    BY <1>9 DEF FreeSem, RemoveSem, LooseTypes, Ids, SemKey, semVars, shmVars, childVars
  <2>4. ShmKey'
    BY <1>b, <1>9 DEF FreeSem, RemoveSem, LooseTypes, Ids, ShmKey, semVars, shmVars, childVars
  <2> QED BY <2>1, <2>2, <2>3, <2>4
<1>10. ASSUME NEW w \in Workers, ForkChild(i, w) PROVE LeftInv'
  <2>a. <<i, w>> \in Children /\ <<i, w>>[1] = i
    BY DEF Children
  <2>1. LooseTypes'
    BY <1>10, <2>a DEF ForkChild, LooseTypes, semVars, shmVars
  <2>2. Ids'
    BY <1>a, <1>10, <2>a DEF ForkChild, LooseTypes, Ids, semVars, shmVars
  <2>3. SemKey'
    BY <1>10 DEF ForkChild, LooseTypes, SemKey, semVars, shmVars
  <2>4. ShmKey'
    BY <1>10 DEF ForkChild, LooseTypes, ShmKey, semVars, shmVars
  <2> QED BY <2>1, <2>2, <2>3, <2>4
<1> QED BY <1>1, <1>2, <1>3, <1>4, <1>5, <1>6, <1>7, <1>8, <1>9, <1>10 DEF Parent

\* A child never makes or removes an object: it changes the value of a set
\* that exists, or what is in its segment.
LEMMA LeftChild ==
    ASSUME LeftInv, NEW c \in Children, ChildStep(c) \/ LockInterrupted(c) \/ Kill(c)
    PROVE  LeftInv'
<1> USE SumAssumption DEF LeftInv
<1> DEFINE s == semid[c[1]]
           m == shmid[c[1]]
<1>a. c[1] \in Insts /\ (cpc[c] # "none" => s \in Insts /\ m \in Insts)
  BY DEF Ids, Children
<1>b. UNCHANGED <<semOfKey, shmOfKey, shmGone, parentVars>>
  BY DEF ChildStep, Acquire, LockInterrupted, LoadSum, StoreSum, Release, Exit, Kill, P, V, Undo, semVars, shmVars
<1>c. cpc[c] # "none" /\ cpc' \in [Children -> {"none", "P", "load", "store", "V", "exit", "dead"}]
      /\ \A d \in Children : cpc'[d] # "none" => cpc[d] # "none"
  BY DEF ChildStep, Acquire, LockInterrupted, LoadSum, StoreSum, Release, Exit, Kill, Alive, LooseTypes
<1>d. /\ semval' \in [Insts -> Nat \cup {Nil}] /\ semadj' \in [Children -> Int]
      /\ \A t \in Insts : semval'[t] = Nil <=> semval[t] = Nil
  <2>a. s \in Insts /\ semval \in [Insts -> Nat \cup {Nil}] /\ semadj \in [Children -> Int]
    BY <1>a, <1>c DEF LooseTypes
  <2>1. CASE P(c)
    BY <2>a, <2>1 DEF P, semVars
  <2>2. CASE V(c)
    BY <2>a, <2>2 DEF V, semVars
  <2>3. CASE Undo(c)
    BY <2>a, <2>3 DEF Undo, semVars
  <2>4. CASE UNCHANGED semVars
    BY <2>a, <2>4 DEF semVars
  <2> QED BY <2>1, <2>2, <2>3, <2>4 DEF ChildStep, Acquire, LockInterrupted, LoadSum, StoreSum, Release, Exit, Kill
<1>e. /\ shmval' \in [Insts -> (SUBSET Children) \cup {Nil}]
      /\ mpRegister' \in [Children -> SUBSET Children]
      /\ \A t \in Insts : shmval'[t] = Nil <=> shmval[t] = Nil
  <2>a. m \in Insts /\ shmval[m] \in SUBSET Children /\ \A S \in SUBSET Children : S # Nil
    <3>1. m \in Insts /\ m # Nil
      BY <1>a, <1>c
    <3>2. \A S \in SUBSET Children : S # Nil
      BY DEF Children, Workers
    <3>3. shmval[m] \in (SUBSET Children) \cup {Nil} /\ shmval[m] # Nil
      BY <1>a, <3>1 DEF LooseTypes, ShmKey
    <3> QED BY <3>1, <3>2, <3>3
  <2>1. CASE LoadSum(c)
    BY <2>a, <2>1 DEF LoadSum, LooseTypes, shmVars
  <2>2. CASE StoreSum(c)
    <3>1. mpRegister[c] \cup {c} \in SUBSET Children /\ mpRegister[c] \cup {c} # Nil
      BY <2>a DEF LooseTypes
    <3> QED BY <2>a, <2>2, <3>1 DEF StoreSum, LooseTypes
  <2>3. CASE UNCHANGED <<shmVars, mpRegister>>
    BY <2>3 DEF LooseTypes, shmVars
  <2> QED BY <2>1, <2>2, <2>3 DEF ChildStep, Acquire, LockInterrupted, Release, Exit, Kill
<1>1. LooseTypes'
  BY <1>b, <1>c, <1>d, <1>e DEF LooseTypes, parentVars
<1>2. Ids'
  BY <1>b, <1>c DEF Ids, parentVars
<1>3. SemKey'
  BY <1>b, <1>d DEF SemKey, LooseTypes, parentVars
<1>4. ShmKey'
  BY <1>b, <1>e DEF ShmKey, LooseTypes, parentVars
<1> QED BY <1>1, <1>2, <1>3, <1>4

LEMMA LeftInvariant == MpSpec => []LeftInv
<1>1. LeftInv /\ [MpNext]_mpVars => LeftInv'
  <2> SUFFICES ASSUME LeftInv, [MpNext]_mpVars PROVE LeftInv' OBVIOUS
  <2>1. CASE MpNext
    BY <2>1, LeftParent, LeftChild DEF MpNext, Progress
  <2>2. CASE UNCHANGED mpVars
    BY <2>2 DEF LeftInv, LooseTypes, Ids, SemKey, ShmKey, mpVars, semVars, shmVars, parentVars, childVars
  <2> QED BY <2>1, <2>2
<1> QED BY LeftInit, <1>1, PTL DEF MpSpec

\* main frees the segment and the semaphore before it returns
\* (mpsumarray.c:178-199): once every instance started in the directory has
\* ended, none of their objects is left, whichever of them created, reused or
\* removed them, in whatever order, and whatever failed or was killed.
THEOREM NothingEverLeftBehind == MpSpec => []NothingLeftBehind
<1>1. LeftInv => NothingLeftBehind
  BY SumAssumption DEF LeftInv, LooseTypes, SemKey, ShmKey, NothingLeftBehind
<1> QED BY <1>1, LeftInvariant, PTL
=============================================================================
