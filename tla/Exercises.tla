---- MODULE Exercises ----
(* The programs without concurrency of their own, one of them per behaviour;
   the others stand still. *)
EXTENDS LinkedList, QuickSort, HeadLines, Snooze, NForks, FindServer

Exercised == {"list", "sort", "head", "snooze", "nforks", "findserver"}

\* A sort whose options are refused reads no file.
SortStarts ==
    \/ SortInit({c \in Commands : ~Refused(c)}, Files, "main")
    \/ SortInit(Commands, {<<>>}, "main")

\* p is started with any of its inputs, and the others stand still.
Starts(p) ==
    /\ IF p = "list" THEN ListInit(Inputs, "print") ELSE ListInit({<<>>}, "done")
    /\ IF p = "sort" THEN SortStarts ELSE SortInit({<<>>}, {<<>>}, "failed")
    /\ IF p = "head" THEN HeadInit(Counts, Texts, "main") ELSE HeadInit({0}, {<<>>}, "failed")
    /\ IF p = "snooze" THEN SnoozeInit(Naps, "main") ELSE SnoozeInit({0}, "failed")
    /\ IF p = "nforks" THEN ForksInit(ForkCounts, "main") ELSE ForksInit({0}, "failed")
    /\ IF p = "findserver" THEN FindInit(Landscapes, "loop") ELSE FindInit({[q \in Ports |-> "refuses"]}, "failed")

Init == \E p \in Exercised : Starts(p)

vars == <<listVars, sortVars, headVars, snoozeVars, forksVars, findVars>>

ListStep  == ListNext  /\ UNCHANGED <<sortVars, headVars, snoozeVars, forksVars, findVars>>
SortStep  == SortNext  /\ UNCHANGED <<listVars, headVars, snoozeVars, forksVars, findVars>>
HeadStep  == HeadNext  /\ UNCHANGED <<listVars, sortVars, snoozeVars, forksVars, findVars>>
NapStep   == SnoozeNext /\ UNCHANGED <<listVars, sortVars, headVars, forksVars, findVars>>
ForksStep == ForksNext /\ UNCHANGED <<listVars, sortVars, headVars, snoozeVars, findVars>>
FindStep  == FindNext  /\ UNCHANGED <<listVars, sortVars, headVars, snoozeVars, forksVars>>

Next == ListStep \/ SortStep \/ HeadStep \/ NapStep \/ ForksStep \/ FindStep

\* The processor is given to the program, and children that sleep wake up; a
\* SIGINT need not come.
Fairness ==
    /\ WF_vars(ListStep) /\ WF_vars(SortStep) /\ WF_vars(HeadStep)
    /\ WF_vars(SnoozeStep /\ UNCHANGED <<listVars, sortVars, headVars, forksVars, findVars>>)
    /\ WF_vars(ForksStep) /\ WF_vars(FindStep)

Spec == Init /\ [][Next]_vars /\ Fairness

(* Every program ends, whatever its input: except the list once an insertion
   made a ring of it, which print_list() follows for ever; sort when it has
   overrun its table, after which nothing is known; and head of something that
   can be opened but not read. *)
AllEnd ==
    <>(\/ Ring \/ text = Directory
       \/ /\ listPc = "done" /\ sortPc \in {"printed", "failed", "overrun"}
          /\ headPc \in {"done", "failed"} /\ snoozePc \in {"done", "failed"}
          /\ forksPc \in {"done", "failed"} /\ findPc \in {"found", "none", "failed"})
====
