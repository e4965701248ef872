------------------------------ MODULE MiniShell ------------------------------
(***************************************************************************)
(* Homework/minishell/minishell.c: read a line, split it into argv, run    *)
(* cd and exit in the shell and anything else in a child, wait for it.     *)
(* SIGINT interrupts a blocked read or wait.  A line is [local: it begins  *)
(* with "./", name: its first word, argc: how many words it has].          *)
(***************************************************************************)
EXTENDS Integers, FiniteSets

CONSTANTS
    Programs, OnPath,         \* programs, and those on the path
    Here,                     \* the programs in each directory
    MAX_ARG_COUNT,
    Pids,                     \* bound: children there is room for
    MaxWords, MaxLines, MaxSigints   \* bounds: words of a line, lines, SIGINTs

Dirs == {"start", "home", "elsewhere"}

ASSUME ShellAssumption ==
    /\ OnPath \subseteq Programs /\ Here \in [Dirs -> SUBSET Programs]
    /\ MAX_ARG_COUNT \in Nat /\ MaxWords \in 1 .. MAX_ARG_COUNT - 1
    /\ MaxLines \in Nat /\ MaxSigints \in Nat /\ IsFiniteSet(Pids)

Empty == [local |-> FALSE, name |-> "", argc |-> 0]
InputLines ==
    {Empty} \cup [local : BOOLEAN, name : Programs \cup {"cd", "exit"}, argc : 1 .. MaxWords]

VARIABLES
    shellPc,   \* of the shell
    stinput,   \* the line in the buffer
    argv,      \* the indexes whose pointer is a buffer, not NULL
    fileFlag,  \* the code's file: a line began with "./"
    cwd,
    process, task,  \* of each child: its state, and what it is to run
    lines, sigints,   \* lines and SIGINTs so far
    shortest,  \* history: the fewest words of a line so far
    hit,       \* history: the last command's first wait was interrupted
    missed     \* history: commands whose two waits were both interrupted

counters  == <<lines, sigints, shortest, hit, missed>>
shellVars == <<shellPc, stinput, argv, fileFlag, cwd, process, task, counters>>

ShellInit ==
    /\ shellPc = "read" /\ stinput = Empty
    /\ argv = 0 .. MAX_ARG_COUNT - 1
    /\ fileFlag = 0 /\ cwd = "start"
    /\ process = [p \in Pids |-> "none"]
    /\ task = [p \in Pids |-> [line |-> Empty, fileFlag |-> 0, cwd |-> "start"]]
    /\ lines = 0 /\ sigints = 0 /\ shortest = MAX_ARG_COUNT
    /\ hit = FALSE /\ missed = 0

-----------------------------------------------------------------------------
(* The shell                                                               *)

\* Mutation: the entry of the last word is set to NULL.
ArgsOffByOne(n) ==
    /\ argv' = IF 0 .. n - 1 \subseteq argv THEN argv \ {n - 1} ELSE argv
    /\ shortest' = IF n < shortest THEN n ELSE shortest

\* Each word is copied into the next buffer, and the entry after the last one
\* is set to NULL, for ever.
string_to_args(n) ==
    /\ argv' = IF 0 .. n - 1 \subseteq argv THEN argv \ {n} ELSE argv
    /\ shortest' = IF n < shortest THEN n ELSE shortest

\* Set by the first "./" line with a word in it, and never reset.
FileAfter(line) == IF line.local /\ line.argc > 0 THEN 1 ELSE fileFlag

\* A copy to NULL kills the shell.
Parse(line) ==
    /\ string_to_args(line.argc)
    /\ fileFlag' = FileAfter(line)
    /\ stinput' = line
    /\ shellPc' = IF ~(0 .. line.argc - 1 \subseteq argv) THEN "crashed"
             ELSE IF line.argc = 0 THEN "read"
             ELSE IF line.name = "exit" THEN "ended"
             ELSE IF line.name = "cd" THEN "cd" ELSE "fork"
    /\ UNCHANGED <<cwd, process, task, sigints, hit, missed>>

Read(line) ==
    /\ shellPc = "read" /\ lines < MaxLines
    /\ lines' = lines + 1
    /\ Parse(line)

\* read() returns 0 and leaves the buffer alone: of the line before, strtok()
\* left the first word.
EndOfInput ==
    /\ shellPc = "read"
    /\ Parse([stinput EXCEPT !.argc = IF @ = 0 THEN 0 ELSE 1])
    /\ UNCHANGED lines

ReadInterrupted ==
    /\ shellPc = "read" /\ sigints < MaxSigints
    /\ sigints' = sigints + 1
    /\ UNCHANGED <<shellPc, stinput, argv, fileFlag, cwd, process, task, lines, shortest, hit, missed>>

\* Too many words, no passwd entry, or no such directory: nothing changes.
Cd ==
    /\ shellPc = "cd"
    /\ \/ UNCHANGED cwd
       \/ stinput.argc = 1 /\ cwd' = "home"
       \/ stinput.argc = 2 /\ cwd' \in {"home", "elsewhere"}
    /\ shellPc' = "read"
    /\ UNCHANGED <<stinput, argv, fileFlag, process, task, counters>>

Fork ==
    /\ shellPc = "fork"
    /\ \E p \in Pids :
          /\ process[p] = "none"
          /\ process' = [process EXCEPT ![p] = "exec"]
          /\ task' = [task EXCEPT ![p] = [line |-> stinput, fileFlag |-> fileFlag, cwd |-> cwd]]
    /\ shellPc' = "wait1" /\ hit' = FALSE
    /\ UNCHANGED <<stinput, argv, fileFlag, cwd, lines, sigints, shortest, missed>>

ForkFails ==
    /\ shellPc = "fork"
    /\ shellPc' = "read"
    /\ UNCHANGED <<stinput, argv, fileFlag, cwd, process, task, counters>>

\* Mutation: one wait only.
AfterOneWait == "read"

AfterWait == IF shellPc = "wait1" THEN "wait2" ELSE "read"
Waiting   == shellPc \in {"wait1", "wait2"}

Reap ==
    /\ Waiting
    /\ \E p \in Pids : process[p] = "zombie" /\ process' = [process EXCEPT ![p] = "none"]
    /\ shellPc' = AfterWait
    /\ UNCHANGED <<stinput, argv, fileFlag, cwd, task, counters>>

\* Mutation: waits although there is nothing to wait for.
NoChildHangs ==
    /\ shellPc = "wait1" /\ \A p \in Pids : process[p] = "none"
    /\ shellPc' = AfterWait
    /\ UNCHANGED <<stinput, argv, fileFlag, cwd, process, task, counters>>

NoChild ==
    /\ Waiting /\ \A p \in Pids : process[p] = "none"
    /\ shellPc' = AfterWait
    /\ UNCHANGED <<stinput, argv, fileFlag, cwd, process, task, counters>>

\* EINTR is only told apart to leave out a message: the second wait is made,
\* and the command is over, either way.
WaitInterrupted ==
    /\ Waiting /\ sigints < MaxSigints
    /\ \E p \in Pids : process[p] # "none"
    /\ \A p \in Pids : process[p] # "zombie"
    /\ shellPc' = AfterWait
    /\ sigints' = sigints + 1
    /\ hit' = (shellPc = "wait1")
    /\ missed' = IF shellPc = "wait2" /\ hit THEN missed + 1 ELSE missed
    /\ UNCHANGED <<stinput, argv, fileFlag, cwd, process, task, lines, shortest>>

-----------------------------------------------------------------------------
(* The children                                                            *)

\* execv() for the whole session once a "./" line was read, else the path is
\* searched.
IsFound(c) == IF c.fileFlag = 1 THEN c.line.name \in Here[c.cwd] ELSE c.line.name \in OnPath

Exec(p) ==
    /\ process[p] = "exec" /\ IsFound(task[p])
    /\ process' = [process EXCEPT ![p] = "running"]
    /\ UNCHANGED <<shellPc, stinput, argv, fileFlag, cwd, task, counters>>

\* The child leaves the loop and exits in failure.
ExecFails(p) ==
    /\ process[p] = "exec" /\ ~IsFound(task[p])
    /\ process' = [process EXCEPT ![p] = "zombie"]
    /\ UNCHANGED <<shellPc, stinput, argv, fileFlag, cwd, task, counters>>

End(p) ==
    /\ process[p] = "running"
    /\ process' = [process EXCEPT ![p] = "zombie"]
    /\ UNCHANGED <<shellPc, stinput, argv, fileFlag, cwd, task, counters>>

Input == (\E l \in InputLines : Read(l)) \/ EndOfInput
Shell == Cd \/ Fork \/ ForkFails \/ Reap \/ NoChild
Signal == ReadInterrupted \/ WaitInterrupted
Child(p) == Exec(p) \/ ExecFails(p) \/ End(p)

ShellNext == Input \/ Shell \/ Signal \/ \E p \in Pids : Child(p)

ShellSpec == ShellInit /\ [][ShellNext]_shellVars

\* The shell and its children run, and every program ends.
ShellFairness == WF_shellVars(Shell) /\ \A p \in Pids : WF_shellVars(Child(p))

-----------------------------------------------------------------------------
(* Properties                                                              *)

\* The shell dies over a line exactly when an earlier line, however long ago,
\* had fewer words: argv's NULLs (line 42) are never replaced by buffers.
CrashIffLonger == shellPc = "crashed" <=> stinput.argc > shortest

\* When the shell reads a line, the children it has not waited for are no more
\* than the commands whose two waits (lines 158, 161) were both interrupted.
PromptWithoutChild ==
    shellPc = "read" => Cardinality({p \in Pids : process[p] # "none"}) <= missed

\* The shell comes back to the prompt after every command: the second wait
\* fails, or takes a child an interrupted command left.
BackToPrompt == Waiting ~> shellPc = "read"
=============================================================================
