----------------------------- MODULE OneProgram -----------------------------
(***************************************************************************)
(* The programs that neither talk to each other nor share a thing, one of  *)
(* them per behaviour: those of Exercises, the threaded sum, the minishell *)
(* and instances of the shared-memory sum.  The others stand still, as an  *)
(* earlier run of theirs left them.                                        *)
(***************************************************************************)
EXTENDS Exercises, MtSum, MiniShell, MpSum

allVars == <<vars, mtVars, shellVars, mpVars>>

\* Its first thread could not be created.
MtRests ==
    /\ mtPc = "exited" /\ printed = NoValue /\ retval = "failure" /\ mtFreed = 1
    /\ locked = FALSE /\ nusers = 0 /\ destroyed = FALSE /\ sum = 0
    /\ tpc = [t \in Thread |-> "none"] /\ loop_index = [t \in Thread |-> t]
    /\ partial_sum = [t \in Thread |-> CHOOSE g \in Garbage : TRUE]
    /\ register = [t \in Thread |-> 0]

\* Its only line was "exit".
ShellRests ==
    /\ shellPc = "ended" /\ stinput = [local |-> FALSE, name |-> "exit", argc |-> 1]
    /\ argv = (0 .. MAX_ARG_COUNT - 1) \ {1}
    /\ fileFlag = 0 /\ cwd = "start"
    /\ process = [p \in Pids |-> "none"]
    /\ task = [p \in Pids |-> [line |-> Empty, fileFlag |-> 0, cwd |-> "start"]]
    /\ lines = 1 /\ sigints = 0 /\ shortest = 1 /\ hit = FALSE /\ missed = 0

\* The instances ran one after the other, and no fork succeeded.
MpRests ==
    /\ semOfKey = Nil /\ shmOfKey = Nil /\ shmGone = Insts
    /\ semval = [n \in Insts |-> Nil] /\ shmval = [n \in Insts |-> {}]
    /\ semadj = [c \in Children |-> 0]
    /\ mpPc = [n \in Insts |-> "done"]
    /\ semid = [n \in Insts |-> n] /\ shmid = [n \in Insts |-> n]
    /\ started = {} /\ added = {}
    /\ mpPrinted = [n \in Insts |-> {}] /\ mpRetval = [n \in Insts |-> "success"]
    /\ cpc = [c \in Children |-> "none"] /\ mpRegister = [c \in Children |-> {}]

AllInit ==
    \/ Init /\ MtRests /\ ShellRests /\ MpRests
    \/ Starts("none") /\ MtInit /\ ShellRests /\ MpRests
    \/ Starts("none") /\ MtRests /\ ShellInit /\ MpRests
    \/ Starts("none") /\ MtRests /\ ShellRests /\ MpInit

AllNext ==
    \/ Next      /\ UNCHANGED <<mtVars, shellVars, mpVars>>
    \/ MtNext    /\ UNCHANGED <<vars, shellVars, mpVars>>
    \/ ShellNext /\ UNCHANGED <<vars, mtVars, mpVars>>
    \/ MpNext    /\ UNCHANGED <<vars, mtVars, shellVars>>

\* Each program's own: what can run does, and a SIGINT, a line of input and a
\* fault need not come.
AllSpec ==
    /\ AllInit /\ [][AllNext]_allVars
    /\ Fairness /\ MtFairness /\ ShellFairness /\ MpFairness
=============================================================================
