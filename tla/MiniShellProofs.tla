---------------------------- MODULE MiniShellProofs ----------------------------
(***************************************************************************)
(* The minishell's two safety properties for any number of words, lines,   *)
(* children and SIGINTs: which lines kill the shell, and how many children *)
(* it can have forgotten when it asks for the next line.                   *)
(***************************************************************************)
EXTENDS MiniShell, TLAPS, FiniteSetTheorems

ShellPoint == {"read", "cd", "fork", "wait1", "wait2", "ended", "crashed"}
WordCounts == 0 .. MaxWords
FirstWords == Programs \cup {"cd", "exit", ""}
AnyLine    == [local : BOOLEAN, name : FirstWords, argc : WordCounts]

\* The variables the two arguments look at have their types.
ShellTypes ==
    /\ shellPc \in ShellPoint
    /\ stinput \in AnyLine
    /\ process \in [Pids -> {"none", "exec", "running", "zombie"}]
    /\ hit \in BOOLEAN /\ missed \in Nat

-----------------------------------------------------------------------------
(* The array of pointers.                                                  *)

\* Every entry below the fewest words of a line so far has its buffer, and the
\* entry at that number has none: the word that would go there kills the shell.
ArgvInv ==
    /\ shortest \in 0 .. MAX_ARG_COUNT
    /\ 0 .. shortest - 1 \subseteq argv
    /\ shortest < MAX_ARG_COUNT => shortest \notin argv
    /\ CrashIffLonger

\* string_to_args survives the lines with no more words than all before, and
\* leaves its mark if there are fewer.
LEMMA ArgsLeaveMark ==
    ASSUME ArgvInv, NEW n \in WordCounts, string_to_args(n)
    PROVE  /\ 0 .. n - 1 \subseteq argv <=> n <= shortest
           /\ shortest' \in 0 .. MAX_ARG_COUNT
           /\ 0 .. shortest' - 1 \subseteq argv'
           /\ shortest' < MAX_ARG_COUNT => shortest' \notin argv'
           /\ n > shortest' <=> n > shortest
<1> USE ShellAssumption DEF WordCounts
<1>1. /\ argv' = IF 0 .. n - 1 \subseteq argv THEN argv \ {n} ELSE argv
      /\ shortest' = IF n < shortest THEN n ELSE shortest
  BY DEF string_to_args
<1>2. shortest \in Nat /\ shortest <= MAX_ARG_COUNT /\ n \in Nat /\ n < MAX_ARG_COUNT
  BY DEF ArgvInv
<1>3. CASE n <= shortest
  <2>1. 0 .. n - 1 \subseteq argv BY <1>2, <1>3 DEF ArgvInv
  <2>2. argv' = argv \ {n} /\ shortest' = n BY <1>1, <1>2, <1>3, <2>1
  <2>3. 0 .. n - 1 \subseteq argv' BY <1>2, <2>1, <2>2
  <2> QED BY <1>2, <1>3, <2>1, <2>2, <2>3
<1>4. CASE n > shortest
  <2>1. shortest \notin argv /\ shortest \in 0 .. n - 1 BY <1>2, <1>4 DEF ArgvInv
  <2>2. ~(0 .. n - 1 \subseteq argv) BY <2>1
  <2>3. argv' = argv /\ shortest' = shortest BY <1>1, <1>2, <1>4, <2>2
  <2> QED BY <1>2, <1>4, <2>2, <2>3 DEF ArgvInv
<1> QED BY <1>2, <1>3, <1>4

LEMMA ParseShape ==
    ASSUME NEW line, Parse(line)
    PROVE  /\ string_to_args(line.argc) /\ stinput' = line
           /\ shellPc' \in ShellPoint \ {"wait1", "wait2"}
           /\ shellPc' = "crashed" <=> ~(0 .. line.argc - 1 \subseteq argv)
           /\ UNCHANGED <<process, hit, missed>>
BY DEF Parse, ShellPoint

\* The line that read() leaves in the buffer, or is repeated, has a word count.
LEMMA InputParses ==
    ASSUME ShellTypes, Input
    PROVE  /\ shellPc = "read"
           /\ \E line \in AnyLine : Parse(line)
<1> DEFINE Names  == Programs \cup {"cd", "exit"}
           Counts == 1 .. MaxWords
<1>1. InputLines \subseteq AnyLine
  <2>1. Names \subseteq FirstWords /\ Counts \subseteq WordCounts /\ "" \in FirstWords /\ 0 \in WordCounts
    <3>1. Names \subseteq FirstWords /\ "" \in FirstWords BY Zenon DEF FirstWords
    <3>2. Counts \subseteq WordCounts /\ 0 \in WordCounts BY ShellAssumption DEF WordCounts
    <3> QED BY <3>1, <3>2
  <2>2. Empty \in AnyLine BY <2>1 DEF Empty, AnyLine
  <2>3. InputLines = {Empty} \cup [local : BOOLEAN, name : Names, argc : Counts] BY DEF InputLines
  <2> HIDE DEF Names, Counts
  <2>4. [local : BOOLEAN, name : Names, argc : Counts] \subseteq AnyLine BY <2>1 DEF AnyLine
  <2> QED BY <2>2, <2>3, <2>4
<1>2. CASE \E l \in InputLines : Read(l)
  BY <1>1, <1>2 DEF Read
<1>3. CASE EndOfInput
  <2> DEFINE line == [stinput EXCEPT !.argc = IF @ = 0 THEN 0 ELSE 1]
  <2>1. line \in AnyLine
    <3>1. 0 \in WordCounts /\ 1 \in WordCounts BY ShellAssumption DEF WordCounts
    <3> QED BY <3>1 DEF ShellTypes, AnyLine
  <2> QED BY <1>3, <2>1 DEF EndOfInput
<1> QED BY <1>2, <1>3 DEF Input

\* The steps other than reading a line leave the array and the buffer alone,
\* and neither happen to a shell that is dead nor kill it.
LEMMA OthersKeepArgv ==
    ASSUME [Shell \/ Signal \/ \E p \in Pids : Child(p)]_shellVars
    PROVE  /\ UNCHANGED <<argv, stinput, shortest>>
           /\ shellPc' = "crashed" <=> shellPc = "crashed"
<1>1. UNCHANGED <<argv, stinput, shortest>>
  BY DEF Shell, Signal, Child, Cd, Fork, ForkFails, Reap, NoChild, ReadInterrupted, WaitInterrupted,
     Exec, ExecFails, End, shellVars, counters
<1>2. shellPc' = "crashed" <=> shellPc = "crashed"
  BY DEF Shell, Signal, Child, Cd, Fork, ForkFails, Reap, NoChild, ReadInterrupted, WaitInterrupted,
     Exec, ExecFails, End, shellVars, counters, Waiting, AfterWait
<1> QED BY <1>1, <1>2

LEMMA TypesNext == ShellTypes /\ [ShellNext]_shellVars => ShellTypes'
<1> SUFFICES ASSUME ShellTypes, [ShellNext]_shellVars PROVE ShellTypes' OBVIOUS
<1>1. CASE Input
  BY <1>1, InputParses, ParseShape DEF ShellTypes
<1>2. CASE Shell
  <2>1. shellPc' \in ShellPoint
    BY <1>2 DEF Shell, Cd, Fork, ForkFails, Reap, NoChild, AfterWait, ShellTypes, ShellPoint
  <2>2. process' \in [Pids -> {"none", "exec", "running", "zombie"}]
    BY <1>2 DEF Shell, Cd, Fork, ForkFails, Reap, NoChild, ShellTypes
  <2>3. stinput' = stinput /\ missed' = missed /\ (hit' = hit \/ hit' = FALSE)
    BY <1>2 DEF Shell, Cd, Fork, ForkFails, Reap, NoChild, counters
  <2> QED BY <2>1, <2>2, <2>3 DEF ShellTypes
<1>3. CASE Signal
  <2>1. CASE ReadInterrupted BY <2>1 DEF ReadInterrupted, ShellTypes
  <2>2. CASE WaitInterrupted
    <3>1. shellPc' \in ShellPoint /\ process' = process /\ stinput' = stinput
      BY <2>2 DEF WaitInterrupted, AfterWait, ShellPoint
    <3>2. hit' \in BOOLEAN BY <2>2 DEF WaitInterrupted
    <3>3. missed' \in Nat
      <4>1. missed' = missed + 1 \/ missed' = missed BY <2>2, Zenon DEF WaitInterrupted
      <4> QED BY <4>1 DEF ShellTypes
    <3> QED BY <3>1, <3>2, <3>3 DEF ShellTypes
  <2> QED BY <1>3, <2>1, <2>2 DEF Signal
<1>4. ASSUME NEW p \in Pids, Child(p) PROVE ShellTypes'
  <2>1. process' \in [Pids -> {"none", "exec", "running", "zombie"}]
    BY <1>4 DEF Child, Exec, ExecFails, End, ShellTypes
  <2>2. UNCHANGED <<shellPc, stinput, hit, missed>>
    BY <1>4 DEF Child, Exec, ExecFails, End, counters
  <2> QED BY <2>1, <2>2 DEF ShellTypes
<1>5. CASE UNCHANGED shellVars
  BY <1>5 DEF shellVars, counters, ShellTypes
<1> QED BY <1>1, <1>2, <1>3, <1>4, <1>5 DEF ShellNext

LEMMA ArgvNext == ShellTypes /\ ArgvInv /\ [ShellNext]_shellVars => ArgvInv'
<1> SUFFICES ASSUME ShellTypes, ArgvInv, [ShellNext]_shellVars PROVE ArgvInv' OBVIOUS
<1>1. CASE Input
  <2>1. PICK line : Parse(line) /\ line.argc \in WordCounts
    BY <1>1, InputParses DEF AnyLine
  <2>2. CrashIffLonger'
    BY <2>1, ParseShape, ArgsLeaveMark, ShellAssumption DEF CrashIffLonger, WordCounts, ArgvInv
  <2> QED BY <2>1, <2>2, ParseShape, ArgsLeaveMark DEF ArgvInv
<1>2. CASE ~Input
  BY <1>2, OthersKeepArgv DEF ShellNext, ArgvInv, CrashIffLonger
<1> QED BY <1>1, <1>2

LEMMA InitTypesArgv == ShellInit => ShellTypes /\ ArgvInv
<1> SUFFICES ASSUME ShellInit PROVE ShellTypes /\ ArgvInv OBVIOUS
<1> USE ShellAssumption
<1>1. ShellTypes
  <2>1. Empty \in AnyLine
    BY DEF Empty, WordCounts, FirstWords, AnyLine
  <2> QED BY <2>1 DEF ShellInit, ShellTypes, ShellPoint
<1>2. ArgvInv
  <2>1. shortest = MAX_ARG_COUNT /\ argv = 0 .. MAX_ARG_COUNT - 1 /\ shellPc = "read" /\ stinput = Empty
    BY DEF ShellInit
  <2>2. stinput.argc = 0 BY <2>1 DEF Empty
  <2> QED BY <2>1, <2>2 DEF ArgvInv, CrashIffLonger
<1> QED BY <1>1, <1>2

\* The shell is at one of its calls, with a line, a set of children and a count of
\* missed SIGINTs of their types, whatever is typed (minishell.c:54-182).
THEOREM ShellTypesCorrect == ShellSpec => []ShellTypes
BY InitTypesArgv, TypesNext, PTL DEF ShellSpec

\* A line kills the shell exactly when an earlier one had fewer words.
THEOREM CrashesIffLonger == ShellSpec => []CrashIffLonger
<1>1. ArgvInv => CrashIffLonger BY DEF ArgvInv
<1> QED BY <1>1, InitTypesArgv, ArgvNext, ShellTypesCorrect, PTL DEF ShellSpec

-----------------------------------------------------------------------------
(* The children.                                                           *)

Live == {p \in Pids : process[p] # "none"}

\* Of the children that are left, one may be the command's that is waited for:
\* until its first wait is over, or its second one if SIGINT cut the first short.
Expected ==
    IF shellPc = "wait1" \/ (shellPc = "wait2" /\ hit) THEN 1 ELSE 0

ChildrenInv ==
    /\ Cardinality(Live) <= missed + Expected
    /\ shellPc = "wait1" => ~hit

LEMMA LiveFinite ==
    IsFiniteSet(Live) /\ Cardinality(Live) \in Nat
BY ShellAssumption, FS_Subset, FS_CardinalityType DEF Live

LEMMA ChildrenNext == ShellTypes /\ ChildrenInv /\ [ShellNext]_shellVars => ChildrenInv'
<1> SUFFICES ASSUME ShellTypes, ChildrenInv, [ShellNext]_shellVars PROVE ChildrenInv' OBVIOUS
<1>1. /\ Cardinality(Live) \in Nat /\ missed \in Nat /\ hit \in BOOLEAN
      /\ Cardinality(Live) <= missed + Expected
  BY LiveFinite DEF ShellTypes, ChildrenInv
<1>2. ASSUME Live' = Live, missed' = missed, shellPc \notin {"wait1", "wait2"}, shellPc' \notin {"wait1", "wait2"}
      PROVE  ChildrenInv'
  BY <1>1, <1>2 DEF ChildrenInv, Expected
<1>3. ASSUME UNCHANGED <<Live, missed, shellPc, hit>>
      PROVE  ChildrenInv'
  BY <1>3 DEF ChildrenInv, Expected
<1>4. CASE Input
  <2>1. shellPc = "read" /\ shellPc' \notin {"wait1", "wait2"} /\ UNCHANGED <<process, missed>>
    BY <1>4, InputParses, ParseShape
  <2> QED BY <1>2, <2>1 DEF Live
<1>5. CASE Cd \/ ForkFails
  <2>1. shellPc \notin {"wait1", "wait2"} /\ shellPc' \notin {"wait1", "wait2"} /\ UNCHANGED <<process, missed>>
    BY <1>5 DEF Cd, ForkFails, counters
  <2> QED BY <1>2, <2>1 DEF Live
<1>6. CASE Fork
  <2>1. PICK p \in Pids : process[p] = "none" /\ process' = [process EXCEPT ![p] = "exec"]
    BY <1>6 DEF Fork
  <2>2. Live' = Live \cup {p} /\ p \notin Live
    BY <2>1 DEF Live, ShellTypes
  <2>3. Cardinality(Live') = Cardinality(Live) + 1
    BY <2>2, LiveFinite, FS_AddElement
  <2>4. shellPc = "fork" /\ shellPc' = "wait1" /\ ~hit' /\ missed' = missed BY <1>6 DEF Fork
  <2> QED BY <1>1, <2>3, <2>4 DEF ChildrenInv, Expected
<1>7. CASE Reap
  <2>1. PICK p \in Pids : process[p] = "zombie" /\ process' = [process EXCEPT ![p] = "none"]
    BY <1>7 DEF Reap
  <2>2. Live' = Live \ {p} /\ p \in Live
    BY <2>1 DEF Live, ShellTypes
  <2>3. Cardinality(Live') = Cardinality(Live) - 1
    BY <2>2, LiveFinite, FS_RemoveElement
  <2>4. /\ \/ shellPc = "wait1" /\ shellPc' = "wait2"
           \/ shellPc = "wait2" /\ shellPc' = "read"
        /\ hit' = hit /\ missed' = missed
    BY <1>7 DEF Reap, Waiting, AfterWait, counters
  <2> QED BY <1>1, <2>3, <2>4 DEF ChildrenInv, Expected
<1>8. CASE NoChild
  <2>1. Live' = {} BY <1>8 DEF NoChild, Live
  <2>2. Cardinality(Live') = 0 BY <2>1, FS_EmptySet
  <2>3. missed' = missed /\ shellPc' \in {"wait2", "read"} BY <1>8 DEF NoChild, AfterWait, counters
  <2> QED BY <1>1, <2>2, <2>3 DEF ChildrenInv, Expected
<1>9. CASE WaitInterrupted
  <2>1. Live' = Live BY <1>9 DEF WaitInterrupted, Live
  <2>2. CASE shellPc = "wait1"
    <3>1. shellPc' = "wait2" /\ hit' /\ missed' = missed BY <1>9, <2>2 DEF WaitInterrupted, AfterWait
    <3> QED BY <1>1, <2>1, <2>2, <3>1 DEF ChildrenInv, Expected
  <2>3. CASE shellPc = "wait2"
    <3>1. shellPc' = "read" /\ missed' = IF hit THEN missed + 1 ELSE missed
      BY <1>9, <2>3 DEF WaitInterrupted, AfterWait
    <3> QED BY <1>1, <2>1, <2>3, <3>1 DEF ChildrenInv, Expected
  <2> QED BY <1>9, <2>2, <2>3 DEF WaitInterrupted, Waiting
<1>10. CASE ReadInterrupted \/ UNCHANGED shellVars
  <2>1. UNCHANGED <<process, missed, shellPc, hit>> BY <1>10 DEF ReadInterrupted, shellVars, counters
  <2> QED BY <1>3, <2>1 DEF Live
<1>11. ASSUME NEW p \in Pids, Child(p) PROVE ChildrenInv'
  <2>1. UNCHANGED <<missed, shellPc, hit>> BY <1>11 DEF Child, Exec, ExecFails, End, counters
  <2>2. process[p] # "none" /\ (process' = [process EXCEPT ![p] = "running"]
                               \/ process' = [process EXCEPT ![p] = "zombie"])
    BY <1>11 DEF Child, Exec, ExecFails, End
  <2>3. Live' = Live BY <2>2 DEF Live, ShellTypes
  <2> QED BY <1>3, <2>1, <2>3
<1> QED BY <1>4, <1>5, <1>6, <1>7, <1>8, <1>9, <1>10, <1>11 DEF ShellNext, Shell, Signal

\* At the prompt there are no more children than commands whose two waits were
\* both interrupted.
THEOREM PromptsWithoutChild == ShellSpec => []PromptWithoutChild
<1>1. ShellInit => ChildrenInv
  <2> SUFFICES ASSUME ShellInit PROVE ChildrenInv OBVIOUS
  <2>1. Live = {} BY DEF ShellInit, Live
  <2> QED BY <2>1, FS_EmptySet DEF ShellInit, ChildrenInv, Expected
<1>2. ShellTypes /\ ChildrenInv => PromptWithoutChild
  <2>1. PromptWithoutChild <=> (shellPc = "read" => Cardinality(Live) <= missed)
    BY DEF PromptWithoutChild, Live
  <2>2. ShellTypes /\ ChildrenInv /\ shellPc = "read" => Cardinality(Live) <= missed + 0 /\ missed \in Nat
    BY DEF ShellTypes, ChildrenInv, Expected
  <2> QED BY <2>1, <2>2, LiveFinite
<1> QED BY <1>1, <1>2, ChildrenNext, ShellTypesCorrect, PTL DEF ShellSpec
=============================================================================
