-------------------------------- MODULE MtSum --------------------------------
(***************************************************************************)
(* Labs/lab9/mtsumarray.c: two threads add the even and the odd indexes of *)
(* an array.  They unlock the mutex before sum += and lock it after, and   *)
(* main's cleanup is inside its join loop.  Unlocking a mutex nobody holds *)
(* is undefined; modelled is what the GNU C library's default mutex does:  *)
(* the word becomes free, the user count is decremented, and               *)
(* pthread_mutex_destroy fails unless that count is zero.                  *)
(***************************************************************************)
EXTENDS Integers

CONSTANTS
    num_values,
    values,   \* the random numbers in the global array
    Garbage,  \* what an uninitialised local may contain
    NoValue   \* not printed, not returned

ASSUME MtAssumption ==
    /\ num_values \in Nat \ {0} /\ values \in [0 .. num_values - 1 -> 0 .. 9]
    /\ Garbage \subseteq Int /\ Garbage # {} /\ NoValue \notin Int

Thread == 0 .. 1

VARIABLES
    mtPc, printed, retval,
    mtFreed,                       \* how often main freed the array
    locked, nusers, destroyed,     \* the mutex
    sum,
    tpc, loop_index, partial_sum, register  \* of each thread

mutexVars  == <<locked, nusers, destroyed>>
mainVars   == <<mtPc, printed, retval, mtFreed>>
threadVars == <<tpc, loop_index, partial_sum, register>>
mtVars     == <<mainVars, mutexVars, sum, threadVars>>

MtInit ==
    /\ mtPc = "create0" /\ printed = NoValue /\ retval = NoValue /\ mtFreed = 0
    /\ locked = FALSE /\ nusers = 0 /\ destroyed = FALSE
    /\ sum = 0
    /\ tpc = [t \in Thread |-> "none"]
    /\ loop_index = [t \in Thread |-> t]
    /\ partial_sum \in [Thread -> Garbage]
    /\ register = [t \in Thread |-> 0]

-----------------------------------------------------------------------------
(* main                                                                    *)

Create(t) ==
    /\ mtPc = IF t = 0 THEN "create0" ELSE "create1"
    /\ mtPc' = IF t = 0 THEN "create1" ELSE "join"
    /\ tpc' = [tpc EXCEPT ![t] = "loop"]
    /\ UNCHANGED <<printed, retval, mtFreed, mutexVars, sum, loop_index, partial_sum, register>>

CreateFails ==
    /\ mtPc \in {"create0", "create1"}
    /\ mtPc' = "return"
    /\ mtFreed' = mtFreed + 1 /\ retval' = "failure"
    /\ UNCHANGED <<printed, mutexVars, sum, threadVars>>

\* Mutation: the count of users is not looked at.
DestroyAlways ==
    /\ mtPc = "join" /\ tpc[0] = "exit"
    /\ destroyed' = TRUE /\ mtPc' = "print"
    /\ UNCHANGED <<retval, mtFreed, printed, locked, nusers, sum, threadVars>>

\* The first round of the join loop, which never comes to the second one.
JoinAndDestroy ==
    /\ mtPc = "join" /\ tpc[0] = "exit"
    /\ IF nusers = 0
         THEN destroyed' = TRUE /\ mtPc' = "print" /\ UNCHANGED <<retval, mtFreed>>
         ELSE /\ mtPc' = "return" /\ retval' = "failure" /\ mtFreed' = mtFreed + 1
              /\ UNCHANGED destroyed
    /\ UNCHANGED <<printed, locked, nusers, sum, threadVars>>

PrintSum ==
    /\ mtPc = "print"
    /\ printed' = sum
    /\ mtPc' = "free"
    /\ UNCHANGED <<retval, mtFreed, mutexVars, sum, threadVars>>

Free ==
    /\ mtPc = "free"
    /\ mtFreed' = mtFreed + 1 /\ retval' = "success"
    /\ mtPc' = "return"
    /\ UNCHANGED <<printed, mutexVars, sum, threadVars>>

\* Mutation: main ends with pthread_exit().
ReturnWaits ==
    /\ mtPc = "return" /\ \A t \in Thread : tpc[t] \in {"none", "exit"}
    /\ mtPc' = "exited"
    /\ UNCHANGED <<printed, retval, mtFreed, mutexVars, sum, threadVars>>

\* Returning from main ends the threads as well.
Return ==
    /\ mtPc = "return"
    /\ mtPc' = "exited"
    /\ UNCHANGED <<printed, retval, mtFreed, mutexVars, sum, threadVars>>

-----------------------------------------------------------------------------
(* sum_array                                                               *)

At(t, where, after) == tpc[t] = where /\ mtPc # "exited" /\ tpc' = [tpc EXCEPT ![t] = after]

\* The loop starts from whatever partial_sum contains; what it reads after
\* free(array) no longer reaches the output.
AddValue(t) ==
    /\ At(t, "loop", "loop") /\ loop_index[t] < num_values
    /\ partial_sum' = [partial_sum EXCEPT ![t] = @ + values[loop_index[t]]]
    /\ loop_index' = [loop_index EXCEPT ![t] = @ + 2]
    /\ UNCHANGED <<mainVars, mutexVars, sum, register>>

EndLoop(t) ==
    /\ At(t, "loop", "unlock") /\ loop_index[t] >= num_values
    /\ UNCHANGED <<mainVars, mutexVars, sum, loop_index, partial_sum, register>>

\* A destroyed mutex is refused with EINVAL.
Unlock(t) ==
    /\ At(t, "unlock", "load")
    /\ IF destroyed THEN UNCHANGED mutexVars
       ELSE locked' = FALSE /\ nusers' = nusers - 1 /\ UNCHANGED destroyed
    /\ UNCHANGED <<mainVars, sum, loop_index, partial_sum, register>>

Load(t) ==
    /\ At(t, "load", "store")
    /\ register' = [register EXCEPT ![t] = sum]
    /\ UNCHANGED <<mainVars, mutexVars, sum, loop_index, partial_sum>>

Store(t) ==
    /\ At(t, "store", "lock")
    /\ sum' = register[t] + partial_sum[t]
    /\ UNCHANGED <<mainVars, mutexVars, loop_index, partial_sum, register>>

\* The thread exits with the mutex locked.
Lock(t) ==
    /\ At(t, "lock", "exit")
    /\ \/ destroyed /\ UNCHANGED mutexVars
       \/ /\ ~destroyed /\ ~locked
          /\ locked' = TRUE /\ nusers' = nusers + 1
          /\ UNCHANGED destroyed
    /\ UNCHANGED <<mainVars, sum, loop_index, partial_sum, register>>

Main == (\E t \in Thread : Create(t)) \/ CreateFails \/ JoinAndDestroy \/ PrintSum \/ Free \/ Return
sum_array(t) == AddValue(t) \/ EndLoop(t) \/ Unlock(t) \/ Load(t) \/ Store(t) \/ Lock(t)

MtNext == Main \/ \E t \in Thread : sum_array(t)

MtSpec == MtInit /\ [][MtNext]_mtVars

\* Every thread runs whenever it can.
MtFairness == WF_mtVars(Main) /\ \A t \in Thread : WF_mtVars(sum_array(t))

-----------------------------------------------------------------------------
(* Properties                                                              *)

TypeOK ==
    /\ mtPc \in {"create0", "create1", "join", "print", "free", "return", "exited"}
    /\ printed \in Int \cup {NoValue} /\ retval \in {NoValue, "success", "failure"} /\ mtFreed \in 0 .. 1
    /\ locked \in BOOLEAN /\ destroyed \in BOOLEAN /\ nusers \in -2 .. 0 /\ sum \in Int
    /\ tpc \in [Thread -> {"none", "loop", "unlock", "load", "store", "lock", "exit"}]
    /\ loop_index \in [Thread -> Nat]
    /\ partial_sum \in [Thread -> Int] /\ register \in [Thread -> Int]

\* Despite the swapped lock and unlock no update is lost in what is printed:
\* when the threads' additions overlap the count of users is not zero, and
\* main gives up instead of printing.
PrintedIsFirstOrBoth ==
    printed # NoValue => printed \in {partial_sum[0], partial_sum[0] + partial_sum[1]}

\* "Make sure you avoid a memory leak": the program ends with the array freed
\* once, on each of the three ways out of main, or the first thread waits for
\* ever for the mutex the second one exited with.
EndsOrHangs ==
    \/ <>[](mtPc = "exited" /\ mtFreed = 1)
    \/ <>[](tpc[0] = "lock" /\ tpc[1] = "exit")

\* "Increment the global variable sum after aquiring the lock".
OneThreadAdds == ~ \A t \in Thread : tpc[t] \in {"load", "store"}
=============================================================================
