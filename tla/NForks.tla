---- MODULE NForks ----
(* nforks: starts children that sleep, and waits for them (lab 6). *)
EXTENDS Integers

CONSTANT ForkCounts  \* the arguments that are tried

ASSUME ForksAssumption == ForkCounts \subseteq Int

VARIABLES num_forks,
          child,     \* what became of each fork()
          turn,         \* the loop index, of both loops
          announced, \* the children whose end was reported
          waitFails, \* how often "wait() failed" was reported
          forksPc    \* "main", "fork", "wait", "done" or "failed"

forksVars == <<num_forks, child, turn, announced, waitFails, forksPc>>

ForksInit(counts, at) ==
    /\ num_forks \in counts
    /\ child = [j \in 0..num_forks - 1 |-> "none"]
    /\ turn = 0 /\ announced = {} /\ waitFails = 0 /\ forksPc = at

ForksMain ==
    /\ forksPc = "main"
    /\ forksPc' = IF num_forks <= 0 THEN "failed" ELSE "fork"
    /\ UNCHANGED <<num_forks, child, turn, announced, waitFails>>

(* fork() succeeds or not; the loop goes on. *)
ForkOne ==
    /\ forksPc = "fork" /\ turn < num_forks
    /\ \E outcome \in {"runs", "failed"} : child' = [child EXCEPT ![turn] = outcome]
    /\ turn' = turn + 1
    /\ UNCHANGED <<num_forks, announced, waitFails, forksPc>>

ForksStarted ==
    /\ forksPc = "fork" /\ turn = num_forks
    /\ turn' = 0 /\ forksPc' = "wait"
    /\ UNCHANGED <<num_forks, child, announced, waitFails>>

(* randomsleep ends, or could not be executed. *)
ChildEnds ==
    /\ \E j \in DOMAIN child : child[j] = "runs" /\ child' = [child EXCEPT ![j] = "ended"]
    /\ UNCHANGED <<num_forks, turn, announced, waitFails, forksPc>>

(* One wait() per fork() that was tried. *)
WaitOne ==
    /\ forksPc = "wait" /\ turn < num_forks
    /\ turn' = turn + 1
    /\ \/ \E j \in DOMAIN child :
            /\ child[j] = "ended"
            /\ child' = [child EXCEPT ![j] = "reaped"]
            /\ announced' = announced \cup {j}
            /\ UNCHANGED waitFails
       \/ /\ \A j \in DOMAIN child : child[j] \in {"failed", "reaped"}
          /\ waitFails' = waitFails + 1
          /\ UNCHANGED <<child, announced>>
    /\ UNCHANGED <<num_forks, forksPc>>

AllWaited ==
    /\ forksPc = "wait" /\ turn = num_forks
    /\ forksPc' = "done"
    /\ UNCHANGED <<num_forks, child, turn, announced, waitFails>>

ForksNext == ForksMain \/ ForkOne \/ ForksStarted \/ ChildEnds \/ WaitOne \/ AllWaited

(* "All children are done sleeping": whatever forks failed, the end of every
   child that was spawned was waited for and reported. *)
ForksReport ==
    forksPc = "done" =>
        /\ announced = {j \in DOMAIN child : child[j] # "failed"}
        /\ \A j \in announced : child[j] = "reaped"
====
