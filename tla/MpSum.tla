-------------------------------- MODULE MpSum --------------------------------
(***************************************************************************)
(* Labs/lab11: mpsumarray.c adds an array with two child processes that    *)
(* share a System V memory segment, guarded by the semaphore library       *)
(* semaphore.c.  Every instance started in the same directory gets the     *)
(* same ftok() key, so a set of instances is modelled.                     *)
(***************************************************************************)
EXTENDS Integers, FiniteSets

CONSTANTS
    Insts,   \* instances of the program started in one directory
    Faults,  \* "fork": fork fails; "stop": a waiting child is stopped and
             \* continued (semop fails with EINTR); "kill": a child is killed
    Nil

ASSUME SumAssumption ==
    /\ IsFiniteSet(Insts) /\ Nil \notin Insts /\ Nil \notin Nat
    /\ \A S \in SUBSET (Insts \X (0 .. 1)) : S # Nil
    /\ Faults \subseteq {"fork", "stop", "kill"}

Workers == 0 .. 1
Children   == Insts \X Workers

\* The array is left out: what *sum contains is kept as the set of children
\* whose partial sum it includes, {} for zero.

VARIABLES
    semOfKey,  \* the semaphore set the key stands for (named by its creator)
    semval,    \* its value; Nil if the set does not exist
    semadj,    \* what SEM_UNDO will add when a child exits
    shmOfKey,  \* the segment the key stands for (named by its creator)
    shmval,    \* *sum in the segment; Nil if it was never created
    shmGone,   \* segments marked by IPC_RMID
    mpPc, semid, shmid, mpPrinted, mpRetval,  \* of each instance
    started,   \* the children that were forked
    cpc,       \* of each child
    mpRegister,  \* *sum as read by a child that is adding to it
    added      \* history: the children that stored their part

semVars    == <<semOfKey, semval, semadj>>
shmVars    == <<shmOfKey, shmval, shmGone>>
parentVars == <<mpPc, semid, shmid, started, mpPrinted, mpRetval>>
childVars  == <<cpc, mpRegister, added>>
mpVars     == <<semVars, shmVars, parentVars, childVars>>

\* A child has the segment attached until it exits, its parent until shmdt().
Alive(c) == cpc[c] \notin {"none", "dead"}
Attached(s) == \E i \in Insts :
    shmid[i] = s /\ (mpPc[i] \in {"fork0", "fork1", "wait"} \/ \E c \in Children : c[1] = i /\ Alive(c))

MpInit ==
    /\ semOfKey = Nil /\ shmOfKey = Nil /\ shmGone = {}
    /\ semval = [s \in Insts |-> Nil]
    /\ shmval = [s \in Insts |-> Nil]
    /\ semadj = [c \in Children |-> 0]
    /\ mpPc = [i \in Insts |-> "semget"]
    /\ semid = [i \in Insts |-> Nil]
    /\ shmid = [i \in Insts |-> Nil]
    /\ started = {}
    /\ mpPrinted = [i \in Insts |-> Nil]
    /\ mpRetval = [i \in Insts |-> "success"]
    /\ cpc = [c \in Children |-> "none"]
    /\ mpRegister = [c \in Children |-> {}]
    /\ added = {}

-----------------------------------------------------------------------------
(* semaphore.c                                                             *)

create_semaphore(i) ==
    LET s == IF semOfKey = Nil THEN i ELSE semOfKey IN
    /\ semOfKey' = s
    /\ semval' = IF semOfKey = Nil THEN [semval EXCEPT ![s] = 0] ELSE semval
    /\ semid' = [semid EXCEPT ![i] = s]
    /\ UNCHANGED semadj

\* Mutation: a value that lets two in.
SetValTwo(s) ==
    /\ semval' = [semval EXCEPT ![s] = 2]
    /\ semadj' = [c \in Children |-> IF semid[c[1]] = s THEN 0 ELSE semadj[c]]
    /\ UNCHANGED semOfKey

\* SETVAL clears the adjustments all processes have for the set.
SetVal(s) ==
    /\ semval' = [semval EXCEPT ![s] = 1]
    /\ semadj' = [c \in Children |-> IF semid[c[1]] = s THEN 0 ELSE semadj[c]]
    /\ UNCHANGED semOfKey

RemoveSem(s) ==
    /\ semval' = [semval EXCEPT ![s] = Nil]
    /\ semadj' = [c \in Children |-> IF semid[c[1]] = s THEN 0 ELSE semadj[c]]
    /\ semOfKey' = IF semOfKey = s THEN Nil ELSE semOfKey

\* Mutation: P without SEM_UNDO.
PNoUndo(c) ==
    LET s == semid[c[1]] IN
    \/ /\ semval[s] # Nil /\ semval[s] > 0
       /\ semval' = [semval EXCEPT ![s] = @ - 1]
       /\ UNCHANGED <<semadj, semOfKey>>
    \/ semval[s] = Nil /\ UNCHANGED semVars

\* Mutation: P tries again when it fails.
PRetries(c) ==
    LET s == semid[c[1]] IN
    /\ semval[s] # Nil /\ semval[s] > 0
    /\ semval' = [semval EXCEPT ![s] = @ - 1]
    /\ semadj' = [semadj EXCEPT ![c] = @ + 1]
    /\ UNCHANGED semOfKey

\* semop(-1): waits at zero; fails if the set is removed.
P(c) ==
    LET s == semid[c[1]] IN
    \/ /\ semval[s] # Nil /\ semval[s] > 0
       /\ semval' = [semval EXCEPT ![s] = @ - 1]
       /\ semadj' = [semadj EXCEPT ![c] = @ + 1]
       /\ UNCHANGED semOfKey
    \/ semval[s] = Nil /\ UNCHANGED semVars

V(c) ==
    LET s == semid[c[1]] IN
    \/ /\ semval[s] # Nil
       /\ semval' = [semval EXCEPT ![s] = @ + 1]
       /\ semadj' = [semadj EXCEPT ![c] = @ - 1]
       /\ UNCHANGED semOfKey
    \/ semval[s] = Nil /\ UNCHANGED semVars

\* SEM_UNDO at the end of a child, however it ends; never below zero.
Undo(c) ==
    LET s == semid[c[1]]
        v == semval[s] + semadj[c]
    IN  /\ semval' = IF semval[s] = Nil THEN semval
                     ELSE [semval EXCEPT ![s] = IF v < 0 THEN 0 ELSE v]
        /\ semadj' = [semadj EXCEPT ![c] = 0]
        /\ UNCHANGED semOfKey

-----------------------------------------------------------------------------
(* main                                                                    *)

SemGet(i) ==
    /\ mpPc[i] = "semget"
    /\ create_semaphore(i)
    /\ mpPc' = [mpPc EXCEPT ![i] = "setval"]
    /\ UNCHANGED <<shmVars, shmid, started, mpPrinted, mpRetval, childVars>>

SetSem(i) ==
    /\ mpPc[i] = "setval" /\ semval[semid[i]] # Nil
    /\ SetVal(semid[i])
    /\ mpPc' = [mpPc EXCEPT ![i] = "shmget"]
    /\ UNCHANGED <<shmVars, semid, shmid, started, mpPrinted, mpRetval, childVars>>

\* The set was removed in the meantime.
SetSemFails(i) ==
    /\ mpPc[i] = "setval" /\ semval[semid[i]] = Nil
    /\ mpPc' = [mpPc EXCEPT ![i] = "rmsem"]
    /\ mpRetval' = [mpRetval EXCEPT ![i] = "failure"]
    /\ UNCHANGED <<semVars, shmVars, semid, shmid, started, mpPrinted, childVars>>

ShmGet(i) ==
    /\ mpPc[i] = "shmget"
    /\ LET s == IF shmOfKey = Nil THEN i ELSE shmOfKey IN
         /\ shmOfKey' = s
         /\ shmval' = IF shmOfKey = Nil THEN [shmval EXCEPT ![s] = {}] ELSE shmval
         /\ shmid' = [shmid EXCEPT ![i] = s]
    /\ mpPc' = [mpPc EXCEPT ![i] = "shmat"]
    /\ UNCHANGED <<semVars, shmGone, semid, started, mpPrinted, mpRetval, childVars>>

\* shmat() and *sum = 0.
ShmAttach(i) ==
    /\ mpPc[i] = "shmat" /\ (shmid[i] \in shmGone => Attached(shmid[i]))
    /\ shmval' = [shmval EXCEPT ![shmid[i]] = {}]
    /\ mpPc' = [mpPc EXCEPT ![i] = "fork0"]
    /\ UNCHANGED <<semVars, shmOfKey, shmGone, semid, shmid, started, mpPrinted, mpRetval, childVars>>

\* The segment was destroyed in the meantime.
ShmAttachFails(i) ==
    /\ mpPc[i] = "shmat" /\ shmid[i] \in shmGone /\ ~Attached(shmid[i])
    /\ mpPc' = [mpPc EXCEPT ![i] = "rmshm"]
    /\ mpRetval' = [mpRetval EXCEPT ![i] = "failure"]
    /\ UNCHANGED <<semVars, shmVars, semid, shmid, started, mpPrinted, childVars>>

\* One round of the fork loop; a failing fork is reported and skipped.
ForkChild(i, w) ==
    /\ mpPc[i] = IF w = 0 THEN "fork0" ELSE "fork1"
    /\ mpPc' = [mpPc EXCEPT ![i] = IF w = 0 THEN "fork1" ELSE "wait"]
    /\ \/ /\ cpc' = [cpc EXCEPT ![<<i, w>>] = "P"]
          /\ started' = started \cup {<<i, w>>}
       \/ "fork" \in Faults /\ UNCHANGED <<cpc, started>>
    /\ UNCHANGED <<semVars, shmVars, semid, shmid, mpPrinted, mpRetval, mpRegister, added>>

\* Mutation: wait() for one child only.
PrintEarly(i) ==
    /\ mpPc[i] = "wait" /\ \E c \in started : c[1] = i /\ ~Alive(c)
    /\ mpPrinted' = [mpPrinted EXCEPT ![i] = shmval[shmid[i]]]
    /\ mpPc' = [mpPc EXCEPT ![i] = "rmshm"]
    /\ UNCHANGED <<semVars, shmVars, semid, shmid, started, mpRetval, childVars>>

\* Mutation: the segment is not freed.
PrintKeepsShm(i) ==
    /\ mpPc[i] = "wait" /\ \A c \in started : c[1] = i => ~Alive(c)
    /\ mpPrinted' = [mpPrinted EXCEPT ![i] = shmval[shmid[i]]]
    /\ mpPc' = [mpPc EXCEPT ![i] = "rmsem"]
    /\ UNCHANGED <<semVars, shmVars, semid, shmid, started, mpRetval, childVars>>

\* wait() returned for every child that was started; the sum is printed.
PrintTotal(i) ==
    /\ mpPc[i] = "wait" /\ \A c \in started : c[1] = i => ~Alive(c)
    /\ mpPrinted' = [mpPrinted EXCEPT ![i] = shmval[shmid[i]]]
    /\ mpPc' = [mpPc EXCEPT ![i] = "rmshm"]
    /\ UNCHANGED <<semVars, shmVars, semid, shmid, started, mpRetval, childVars>>

\* shmdt() and IPC_RMID; the latter fails if the segment is already destroyed.
FreeShm(i) ==
    /\ mpPc[i] = "rmshm"
    /\ mpPc' = [mpPc EXCEPT ![i] = "rmsem"]
    /\ IF shmid[i] \in shmGone /\ ~Attached(shmid[i])
         THEN mpRetval' = [mpRetval EXCEPT ![i] = "failure"] /\ UNCHANGED shmVars
         ELSE /\ shmGone' = shmGone \cup {shmid[i]}
              /\ shmOfKey' = IF shmOfKey = shmid[i] THEN Nil ELSE shmOfKey
              /\ UNCHANGED <<shmval, mpRetval>>
    /\ UNCHANGED <<semVars, semid, shmid, started, mpPrinted, childVars>>

\* del_sem_value fails if the set is gone.
FreeSem(i) ==
    /\ mpPc[i] = "rmsem"
    /\ mpPc' = [mpPc EXCEPT ![i] = "done"]
    /\ IF semval[semid[i]] = Nil
         THEN mpRetval' = [mpRetval EXCEPT ![i] = "failure"] /\ UNCHANGED semVars
         ELSE RemoveSem(semid[i]) /\ UNCHANGED mpRetval
    /\ UNCHANGED <<shmVars, semid, shmid, started, mpPrinted, childVars>>

-----------------------------------------------------------------------------
(* The children: P(semid); *sum += partial_sum; V(semid); exit             *)

\* P's result is not looked at.
Acquire(c) ==
    /\ cpc[c] = "P"
    /\ P(c)
    /\ cpc' = [cpc EXCEPT ![c] = "load"]
    /\ UNCHANGED <<shmVars, parentVars, mpRegister, added>>

\* The waiting child is stopped and continued: semop() fails with EINTR, and
\* the child goes on all the same.
LockInterrupted(c) ==
    /\ "stop" \in Faults /\ cpc[c] = "P" /\ semval[semid[c[1]]] = 0
    /\ cpc' = [cpc EXCEPT ![c] = "load"]
    /\ UNCHANGED <<semVars, shmVars, parentVars, mpRegister, added>>

LoadSum(c) ==
    /\ cpc[c] = "load"
    /\ mpRegister' = [mpRegister EXCEPT ![c] = shmval[shmid[c[1]]]]
    /\ cpc' = [cpc EXCEPT ![c] = "store"]
    /\ UNCHANGED <<semVars, shmVars, parentVars, added>>

StoreSum(c) ==
    /\ cpc[c] = "store"
    /\ shmval' = [shmval EXCEPT ![shmid[c[1]]] = mpRegister[c] \cup {c}]
    /\ added' = added \cup {c}
    /\ cpc' = [cpc EXCEPT ![c] = "V"]
    /\ UNCHANGED <<semVars, shmOfKey, shmGone, parentVars, mpRegister>>

Release(c) ==
    /\ cpc[c] = "V"
    /\ V(c)
    /\ cpc' = [cpc EXCEPT ![c] = "exit"]
    /\ UNCHANGED <<shmVars, parentVars, mpRegister, added>>

Exit(c) ==
    /\ cpc[c] = "exit"
    /\ Undo(c)
    /\ cpc' = [cpc EXCEPT ![c] = "dead"]
    /\ UNCHANGED <<shmVars, parentVars, mpRegister, added>>

Kill(c) ==
    /\ "kill" \in Faults /\ Alive(c)
    /\ Undo(c)
    /\ cpc' = [cpc EXCEPT ![c] = "dead"]
    /\ UNCHANGED <<shmVars, parentVars, mpRegister, added>>

-----------------------------------------------------------------------------
Parent(i) ==
    \/ SemGet(i) \/ SetSem(i) \/ SetSemFails(i) \/ ShmGet(i) \/ ShmAttach(i) \/ ShmAttachFails(i)
    \/ \E w \in Workers : ForkChild(i, w)
    \/ PrintTotal(i) \/ FreeShm(i) \/ FreeSem(i)

ChildStep(c) == Acquire(c) \/ LoadSum(c) \/ StoreSum(c) \/ Release(c) \/ Exit(c)

Progress == (\E i \in Insts : Parent(i)) \/ \E c \in Children : ChildStep(c)

MpNext == Progress \/ \E c \in Children : LockInterrupted(c) \/ Kill(c)

MpSpec == MpInit /\ [][MpNext]_mpVars

\* As long as some process can run, one does; no process loops, so nothing more
\* is needed for all of them to end.
MpFairness == WF_mpVars(Progress)

-----------------------------------------------------------------------------
(* Properties                                                              *)

MpTypeOK ==
    /\ semOfKey \in Insts \cup {Nil} /\ shmOfKey \in Insts \cup {Nil}
    /\ semval \in [Insts -> Nat \cup {Nil}]
    /\ semadj \in [Children -> -1 .. 1]
    /\ shmval \in [Insts -> (SUBSET Children) \cup {Nil}]
    /\ shmGone \subseteq Insts
    /\ mpPc \in [Insts -> {"semget", "setval", "shmget", "shmat", "fork0", "fork1", "wait",
                         "rmshm", "rmsem", "done"}]
    /\ semid \in [Insts -> Insts \cup {Nil}] /\ shmid \in [Insts -> Insts \cup {Nil}]
    /\ started \subseteq Children /\ added \subseteq Children
    /\ mpPrinted \in [Insts -> (SUBSET Children) \cup {Nil}]
    /\ mpRetval \in [Insts -> {"success", "failure"}]
    /\ cpc \in [Children -> {"none", "P", "load", "store", "V", "exit", "dead"}]
    /\ mpRegister \in [Children -> SUBSET Children]

\* "ensuring mutual exclusion": no two children are between P and V, on the
\* same segment.
InSection(c) == cpc[c] \in {"load", "store", "V"}
MutualExclusion ==
    \A c, d \in Children :
        c # d /\ InSection(c) /\ InSection(d) => shmid[c[1]] # shmid[d[1]]

Added(i) == {c \in added : c[1] = i}

\* No update is lost: what an instance prints is what its children stored.
PrintedIsWhatWasAdded ==
    \A i \in Insts : mpPrinted[i] # Nil => mpPrinted[i] = Added(i)

\* Once all instances are done nothing is left for ipcs to show.
NothingLeftBehind ==
    (\A i \in Insts : mpPc[i] = "done") =>
        /\ semOfKey = Nil /\ \A s \in Insts : semval[s] = Nil
        /\ shmOfKey = Nil /\ \A s \in Insts : shmval[s] # Nil => s \in shmGone

\* Instances that wait on, reset and remove each other's semaphore never all
\* get stuck: as long as one is not done, some process can run (a child that
\* waits is woken when the set is removed).
SomeoneCanRun == (\E i \in Insts : mpPc[i] # "done") => ENABLED Progress

\* Every instance ends, even if its children are killed while they hold the
\* semaphore.
Terminates == \A i \in Insts : <>(mpPc[i] = "done")
=============================================================================
