-------------------------- MODULE SortedPfindProofs --------------------------
(***************************************************************************)
(* The total spfind prints is that of pfind's whole listing, and pfind     *)
(* lists what it should: for every tree, every command line, every size of *)
(* the pipes, and whatever fork(), dup2(), exec() and the file system      *)
(* answer.                                                                 *)
(*                                                                         *)
(* The first argument follows the lines. While sort reads, what pfind sent *)
(* is what sort holds followed by what the first pipe holds. sort sees the *)
(* end of its input only when no process has the writing end, so that      *)
(* pfind has ended, and the parent the end of its own only when sort has.  *)
(* Of the order itself the proof uses only that it is a function of the    *)
(* lines.                                                                  *)
(*                                                                         *)
(* The second follows the walk, through the set of the entries that were   *)
(* read so far: what a directory still open has to read was not read, and  *)
(* an entry of a directory that was read, and not reported, was read, or   *)
(* has vanished, or will be read by a call under way. At the end no call   *)
(* is. An entry that was not read is then below others that were not, up   *)
(* to a directory that was reported: otherwise those entries would be      *)
(* closed under taking the directory above, which no set of entries is.    *)
(*                                                                         *)
(* The third follows getopt() through the command line, which is of at     *)
(* most four words: an option takes the next word as its argument, each    *)
(* argument adds one or two, and main() goes on with three or more, or     *)
(* with none.                                                              *)
(***************************************************************************)
EXTENDS SortedPfind, TLAPS, FiniteSetTheorems, SequenceTheorems

-----------------------------------------------------------------------------
(* The inductive invariant.                                                *)

\* pfind was started on its own: there is no parent, and never will be.
Alone == proc["parent"] = "none" /\ code["parent"] = "running"

\* The parent has its pipes and has not closed an end of them yet.
Forking == {"fork finder", "fork sorter", "redirect"}
Ended == {"zombie", "reaped"}

\* What each process may be doing, and that it has a code once it ended.  No
\* child is there before its fork().
ProcTypes ==
    /\ DOMAIN proc = Procs /\ DOMAIN code = Procs /\ DOMAIN fds = Procs /\ DOMAIN pipe = Pipes
    /\ status \in Statuses /\ (pfind = "ended" => status # "running")
    /\ \A p \in Procs : code[p] \in Statuses
    /\ sent \in Nat /\ sent <= Len(printed)
    /\ proc["parent"] \in {"options", "read", "wait", "zombie"} \cup Forking
    /\ proc["finder"] \in {"none", "setup", "exec", "run"} \cup Ended
    /\ proc["sorter"] \in {"none", "setup", "exec", "run", "write"} \cup Ended
    /\ \A p \in Procs : code[p] = "running" <=> proc[p] \notin Ended
    /\ proc["parent"] \in {"options", "fork finder"} => proc["finder"] = "none"
    /\ proc["parent"] \in {"options", "fork finder", "fork sorter"} => proc["sorter"] = "none"

\* Everything that moves through the pipes is a sequence of one kind of line.
LineTypes == \E S :
    /\ printed \in Seq(S) /\ held \in Seq(S) /\ shown \in Seq(S)
    /\ \A p \in Pipes : pipe[p] \in Seq(S)

\* Process p has this end of a pipe, at the descriptor `at`.
Has(p, end, at) == at \in DOMAIN fds[p] /\ fds[p][at] = end

\* The end each process works with is one of its own descriptors, so a pipe
\* does not end, or break, while the process at it is alive.
EndsHeld ==
    /\ \A p \in Procs, end \in PipeEnds :
         proc[p] \in Forking \cup {"setup"} => Has(p, end, end)
    /\ proc["parent"] = "read" => Has("parent", ReadEnd("sort_to_parent"), StdIn)
    /\ proc["finder"] \in {"exec", "run"} => Has("finder", WriteEnd("pfind_to_sort"), StdOut)
    /\ proc["sorter"] \in {"exec", "run", "write"} =>
         /\ Has("sorter", ReadEnd("pfind_to_sort"), StdIn)
         /\ Has("sorter", WriteEnd("sort_to_parent"), StdOut)

\* pfind leaves printed lines unsent only where no sort reads them any more.
FinderDone ==
    /\ proc["finder"] \in {"none", "setup", "exec"} => printed = <<>>
    /\ proc["finder"] \in Ended /\ sent # Len(printed) =>
         \/ code["sorter"] = "failed"
         \/ proc["sorter"] = "none" /\ proc["parent"] \in {"read", "wait", "zombie"}

\* What was sent is what sort holds and what is in the pipe; once sort has seen
\* the end of its input, which takes an ended pfind, what the user saw, what is
\* in the second pipe and what sort holds make up the whole listing in order.
SorterDone ==
    /\ proc["sorter"] \in {"none", "setup", "exec", "run"} =>
         SubSeq(printed, 1, sent) = held \o pipe["pfind_to_sort"]
    /\ proc["sorter"] = "write" \/ code["sorter"] \in {"ok", "killed"} =>
         proc["finder"] \in {"none"} \cup Ended
    /\ proc["sorter"] # "write" /\ code["sorter"] \in {"running", "failed"} =>
         shown = <<>> /\ pipe["sort_to_parent"] = <<>>
    /\ proc["sorter"] = "write" =>
         shown \o (pipe["sort_to_parent"] \o held) = InOrder(printed)
    /\ code["sorter"] = "ok" => shown \o pipe["sort_to_parent"] = InOrder(printed)
    /\ code["sorter"] = "killed" => proc["parent"] = "zombie" /\ code["parent"] # "ok"

\* The parent leaves its loop with the pipe empty and nobody to write to it.
ParentDone ==
    /\ proc["parent"] = "wait" \/ code["parent"] = "ok" =>
         pipe["sort_to_parent"] = <<>> /\ proc["sorter"] \in {"none"} \cup Ended
    /\ code["parent"] = "ok" => Reaped = Children

Piped == ProcTypes /\ LineTypes /\ EndsHeld /\ FinderDone /\ SorterDone /\ ParentDone
SpInv == Alone \/ Piped

-----------------------------------------------------------------------------
(* The operators: lines, and the order sort puts them in.                  *)

\* What sort puts in order are lines again.
LEMMA InOrderSeq ==
    ASSUME NEW S, NEW x \in Seq(S)
    PROVE \E T : InOrder(x) \in Seq(T)
<1> DEFINE Perm == Places(x)
<1>1. InOrder(x) = [i \in 1..Len(x) |-> x[Perm[i]]]
  BY DEF InOrder
<1> HIDE DEF Perm
<1>2. InOrder(x) \in Seq({x[Perm[i]] : i \in 1..Len(x)})
  <2>1. Len(x) \in Nat OBVIOUS
  <2>2. InOrder(x) \in [1..Len(x) -> {x[Perm[i]] : i \in 1..Len(x)}] BY <1>1
  <2> QED BY <2>1, <2>2
<1> QED BY <1>2

\* Lines that are joined with lines.
LEMMA JoinAssoc ==
    ASSUME NEW S, NEW a \in Seq(S), NEW b \in Seq(S), NEW c \in Seq(S)
    PROVE  (a \o b) \o c = a \o (b \o c)
OBVIOUS

LEMMA JoinEmpty ==
    ASSUME NEW S, NEW a \in Seq(S)
    PROVE  a \o <<>> = a /\ <<>> \o a = a
OBVIOUS

\* One line goes from the front of b to the end of a.
LEMMA HeadMoves ==
    ASSUME NEW S, NEW a \in Seq(S), NEW b \in Seq(S), b # <<>>
    PROVE  Append(a, Head(b)) \o Tail(b) = a \o b
OBVIOUS

\* The lines sent, with one more sent, with one more printed, and all of them.
LEMMA SubSeqGrows ==
    ASSUME NEW S, NEW a \in Seq(S), NEW n \in Nat, n < Len(a)
    PROVE  SubSeq(a, 1, n + 1) = Append(SubSeq(a, 1, n), a[n + 1])
OBVIOUS

LEMMA SubSeqAppend ==
    ASSUME NEW S, NEW a \in Seq(S), NEW x \in S, NEW n \in Nat, n <= Len(a)
    PROVE  SubSeq(Append(a, x), 1, n) = SubSeq(a, 1, n)
OBVIOUS

LEMMA SubSeqWhole ==
    ASSUME NEW S, NEW a \in Seq(S)
    PROVE  SubSeq(a, 1, Len(a)) = a
OBVIOUS

-----------------------------------------------------------------------------
(* The initial state, and pfind on its own.                                *)

\* The user typed pfind, or spfind.
LEMMA PipedInitially ==
    ASSUME NEW words, NEW closed, InitWith(words, closed)
    PROVE  SpInv
<1>1. CASE pfind = "main"
  BY <1>1 DEF InitWith, SpInv, Alone, Procs
<1>2. CASE pfind # "main"
  <2>1. /\ \A p \in Procs : proc[p] = IF p = "parent" THEN "options" ELSE "none"
        /\ \A p \in Procs : code[p] = "running"
        /\ DOMAIN proc = Procs /\ DOMAIN code = Procs /\ DOMAIN fds = Procs /\ DOMAIN pipe = Pipes
        /\ \A p \in Pipes : pipe[p] = <<>>
        /\ sent = 0 /\ held = <<>> /\ shown = <<>> /\ printed = <<>> /\ status = "running" /\ pfind = "off"
    BY <1>2 DEF InitWith
  <2>2. ProcTypes
    <3>1. Len(printed) = 0
      BY <2>1
    <3>2. "parent" \in Procs /\ "finder" \in Procs /\ "sorter" \in Procs
      BY DEF Procs
    <3>3. proc["parent"] = "options" /\ proc["finder"] = "none" /\ proc["sorter"] = "none"
      BY <2>1, <3>2
    <3>4. \A p \in Procs : code[p] = "running" /\ proc[p] \notin Ended /\ code[p] \in Statuses
      BY <2>1 DEF Ended, Statuses
    <3> QED BY <2>1, <3>1, <3>3, <3>4 DEF ProcTypes, Statuses
  <2>3. LineTypes
    <3>1. <<>> \in Seq({}) OBVIOUS
    <3> QED BY <2>1, <3>1 DEF LineTypes
  <2>4. EndsHeld
    BY <2>1 DEF EndsHeld, Procs, Forking
  <2>5. FinderDone
    BY <2>1 DEF FinderDone, Procs, Ended
  <2>6. SorterDone
    <3>1. SubSeq(<<>>, 1, 0) = <<>> \o <<>>
      OBVIOUS
    <3> QED BY <2>1, <3>1 DEF SorterDone, Procs, Pipes
  <2>7. ParentDone
    BY <2>1 DEF ParentDone, Procs
  <2> QED BY <2>2, <2>3, <2>4, <2>5, <2>6, <2>7 DEF SpInv, Piped
<1> QED BY <1>1, <1>2

\* No step of a child, and none of the walk, makes a parent.
LEMMA AloneStays ==
    ASSUME Alone, [Next]_spVars
    PROVE  Alone'
<1> USE DEF Alone
<1>1. ASSUME NEW p \in Children, NEW how, Exits(p, how) PROVE Alone'
  BY <1>1 DEF Exits, Children
<1>2. ASSUME NEW p \in Children, NEW to, Goes(p, to) PROVE Alone'
  BY <1>2 DEF Goes, Children
<1>3. ASSUME NEW p \in Children, NEW S, NEW onto, NEW to, Redirects(p, S, onto, to) PROVE Alone'
  BY <1>1, <1>2, <1>3 DEF Redirects
<1>4. ~ParentStep
  BY DEF ParentStep, Options, ForkFinder, ForkSorter, Fork, ParentRedirects, ParentReads, ParentWaits, ParentPrintsTotal
<1>5. CASE UNCHANGED <<proc, code>>
  BY <1>5
<1>6. "finder" \in Children /\ "sorter" \in Children
  BY DEF Children
<1>7. CASE FinderRedirects
  BY <1>3, <1>6, <1>7 DEF FinderRedirects
<1>8. CASE FinderExecs
  BY <1>1, <1>2, <1>6, <1>8 DEF FinderExecs
<1>9. CASE FinderWalks
  BY <1>5, <1>9 DEF FinderWalks, pipeVars
<1>10. CASE FinderWrites
  BY <1>1, <1>5, <1>6, <1>10 DEF FinderWrites
<1>11. CASE FinderExits
  BY <1>1, <1>6, <1>11 DEF FinderExits
<1>12. CASE SorterRedirects
  BY <1>3, <1>6, <1>12 DEF SorterRedirects
<1>13. CASE SorterExecs
  BY <1>1, <1>2, <1>6, <1>13 DEF SorterExecs
<1>14. CASE SorterReads
  BY <1>2, <1>5, <1>6, <1>14 DEF SorterReads
<1>15. CASE SorterWrites
  BY <1>1, <1>5, <1>6, <1>15 DEF SorterWrites
<1>16. CASE (Vanish /\ UNCHANGED pipeVars) \/ UNCHANGED spVars
  BY <1>5, <1>16 DEF spVars, pipeVars
<1> QED BY <1>4, <1>7, <1>8, <1>9, <1>10, <1>11, <1>12, <1>13, <1>14, <1>15, <1>16 DEF Next, ParentStep

-----------------------------------------------------------------------------

\* A step that gives process p another state, ending or descriptors.
LEMMA OneProcess ==
    ASSUME ProcTypes, NEW p \in Procs, NEW to, NEW how, NEW table
    PROVE  /\ proc' = [proc EXCEPT ![p] = to] =>
                DOMAIN proc' = Procs /\ \A q \in Procs : proc'[q] = IF q = p THEN to ELSE proc[q]
           /\ code' = [code EXCEPT ![p] = how] =>
                DOMAIN code' = Procs /\ \A q \in Procs : code'[q] = IF q = p THEN how ELSE code[q]
           /\ fds' = [fds EXCEPT ![p] = table] =>
                DOMAIN fds' = Procs /\ \A q \in Procs : fds'[q] = IF q = p THEN table ELSE fds[q]
BY DEF ProcTypes

\* A process that ends, one that goes on, one that redirects its descriptors.
LEMMA ExitChanges ==
    ASSUME ProcTypes, NEW p \in Procs, NEW how, Exits(p, how)
    PROVE  /\ DOMAIN proc' = Procs /\ DOMAIN code' = Procs /\ DOMAIN fds' = Procs
           /\ proc'[p] = "zombie" /\ code'[p] = how
           /\ \A q \in Procs : q # p => proc'[q] = proc[q] /\ code'[q] = code[q] /\ fds'[q] = fds[q]
BY OneProcess DEF Exits

LEMMA GoesChanges ==
    ASSUME ProcTypes, NEW p \in Procs, NEW to, Goes(p, to)
    PROVE  /\ DOMAIN proc' = Procs /\ code' = code
           /\ proc'[p] = to
           /\ \A q \in Procs : q # p => proc'[q] = proc[q]
BY OneProcess DEF Goes

LEMMA RedirectChanges ==
    ASSUME ProcTypes, NEW p \in Procs, NEW T, NEW onto, NEW to, Redirects(p, T, onto, to)
    PROVE  /\ DOMAIN proc' = Procs /\ DOMAIN code' = Procs /\ DOMAIN fds' = Procs
           /\ \/ proc'[p] = "zombie" /\ code'[p] = "failed"
              \/ proc'[p] = to /\ code'[p] = code[p]
                 /\ \A d \in DOMAIN onto : d \in DOMAIN fds'[p] /\ fds'[p][d] = onto[d]
           /\ \A q \in Procs : q # p => proc'[q] = proc[q] /\ code'[q] = code[q] /\ fds'[q] = fds[q]
<1>1. CASE Exits(p, "failed")
  BY <1>1, ExitChanges
<1>2. CASE Goes(p, to) /\ fds' = [fds EXCEPT ![p] = Over(onto, Closed(fds[p], T))]
  <2>1. fds'[p] = Over(onto, Closed(fds[p], T)) /\ \A q \in Procs : q # p => fds'[q] = fds[q]
    BY <1>2, OneProcess
  <2>2. DOMAIN fds' = Procs
    BY <1>2 DEF ProcTypes
  <2>3. \A d \in DOMAIN onto : d \in DOMAIN fds'[p] /\ fds'[p][d] = onto[d]
    BY <2>1 DEF Over
  <2> QED BY <1>2, <2>1, <2>2, <2>3, GoesChanges DEF ProcTypes
<1> QED BY <1>1, <1>2 DEF Redirects

-----------------------------------------------------------------------------
(* The parent's steps.                                                     *)

\* The three processes.
LEMMA Names == "parent" \in Procs /\ "finder" \in Procs /\ "sorter" \in Procs
BY DEF Procs

\* Command line, pipes, fork().
LEMMA OptionsKeep ==
    ASSUME Piped, Options
    PROVE  Piped'
<1>1. /\ proc["parent"] = "options" /\ UNCHANGED <<printed, pfind, status, pipe, sent, held, shown>>
      /\ ProcTypes /\ LineTypes /\ EndsHeld /\ FinderDone /\ SorterDone /\ ParentDone
  BY DEF Options, Piped
<1>2. /\ proc["finder"] = "none" /\ proc["sorter"] = "none" /\ printed = <<>>
      /\ code["sorter"] = "running" /\ code["finder"] = "running" /\ code["parent"] = "running"
  BY <1>1, Names DEF ProcTypes, FinderDone, Ended
<1>3. LineTypes'
  BY <1>1 DEF LineTypes
<1>4. ASSUME NEW how \in {"killed", "failed"}, Exits("parent", how) PROVE Piped'
  <2>1. /\ DOMAIN proc' = Procs /\ DOMAIN code' = Procs /\ DOMAIN fds' = Procs
        /\ proc'["parent"] = "zombie" /\ code'["parent"] = how
        /\ proc'["finder"] = "none" /\ proc'["sorter"] = "none"
        /\ code'["finder"] = "running" /\ code'["sorter"] = "running"
    BY <1>1, <1>2, <1>4, ExitChanges, Names DEF Procs
  <2>2. ProcTypes'
    BY <1>1, <1>2, <1>4, <2>1 DEF ProcTypes, Procs, Ended, Statuses
  <2>3. EndsHeld'
    BY <2>1 DEF EndsHeld, Forking, Procs
  <2>4. FinderDone'
    BY <1>1, <1>2, <2>1 DEF FinderDone, Ended
  <2>5. SorterDone'
    BY <1>1, <1>2, <2>1 DEF SorterDone
  <2>6. ParentDone'
    BY <1>1, <1>4, <2>1 DEF ParentDone
  <2> QED BY <1>3, <2>2, <2>3, <2>4, <2>5, <2>6 DEF Piped
<1>5. ASSUME Goes("parent", "fork finder"),
             fds' = [fds EXCEPT !["parent"] = Over([e \in PipeEnds |-> e], fds["parent"])]
      PROVE  Piped'
  <2>1. /\ DOMAIN proc' = Procs /\ DOMAIN fds' = Procs /\ code' = code
        /\ proc'["parent"] = "fork finder"
        /\ proc'["finder"] = "none" /\ proc'["sorter"] = "none"
        /\ fds'["parent"] = Over([e \in PipeEnds |-> e], fds["parent"])
    BY <1>1, <1>2, <1>5, GoesChanges, OneProcess, Names DEF Procs
  <2>2. ProcTypes'
    BY <1>1, <1>2, <2>1 DEF ProcTypes, Procs, Ended, Forking
  <2>3. EndsHeld'
    <3>1. \A e \in PipeEnds : Has("parent", e, e)'
      BY <2>1 DEF Over, Has
    <3> QED BY <2>1, <3>1 DEF EndsHeld, Forking, Procs
  <2>4. FinderDone'
    BY <1>1, <1>2, <2>1 DEF FinderDone, Ended
  <2>5. SorterDone'
    BY <1>1, <1>2, <2>1 DEF SorterDone
  <2>6. ParentDone'
    BY <1>1, <1>2, <2>1 DEF ParentDone
  <2> QED BY <1>3, <2>2, <2>3, <2>4, <2>5, <2>6 DEF Piped
<1> QED BY <1>4, <1>5 DEF Options

LEMMA ForksKeepPipes ==
    ASSUME Piped, ForkFinder \/ ForkSorter
    PROVE  Piped'
<1> SUFFICES ASSUME NEW child \in {"finder", "sorter"},
                    (child = "finder" /\ Fork(child, "fork finder", "fork sorter"))
                      \/ (child = "sorter" /\ Fork(child, "fork sorter", "redirect"))
             PROVE  Piped'
  BY DEF ForkFinder, ForkSorter
<1>1. /\ UNCHANGED <<printed, pfind, status, code, pipe, sent, held, shown>>
      /\ ProcTypes /\ LineTypes /\ EndsHeld /\ FinderDone /\ SorterDone /\ ParentDone
  BY DEF Fork, Piped, walkVars
<1>2. /\ proc["parent"] = (IF child = "finder" THEN "fork finder" ELSE "fork sorter")
      /\ proc[child] = "none" /\ proc["sorter"] = "none"
  BY <1>1 DEF Fork, ProcTypes
<1>3. /\ code["parent"] = "running" /\ code["sorter"] = "running"
      /\ SubSeq(printed, 1, sent) = held \o pipe["pfind_to_sort"]
      /\ shown = <<>> /\ pipe["sort_to_parent"] = <<>>
  BY <1>1, <1>2, Names DEF ProcTypes, Ended, SorterDone
<1>4. /\ DOMAIN proc' = Procs /\ DOMAIN fds' = Procs
      /\ proc'["parent"] = (IF child = "finder" THEN "fork sorter" ELSE "redirect")
      /\ fds'["parent"] = fds["parent"]
      /\ \/ proc'[child] = "setup" /\ fds'[child] = fds["parent"]
         \/ proc'[child] = "none" /\ fds'[child] = fds[child]
      /\ \A q \in Procs : q \notin {child, "parent"} => proc'[q] = proc[q] /\ fds'[q] = fds[q]
  <2> DEFINE next == IF child = "finder" THEN "fork sorter" ELSE "redirect"
  <2>1. child \in Procs /\ child # "parent"
    BY DEF Procs
  <2>2. \/ /\ proc' = [proc EXCEPT ![child] = "setup", !["parent"] = next]
           /\ fds' = [fds EXCEPT ![child] = fds["parent"]]
        \/ /\ proc' = [proc EXCEPT !["parent"] = next]
           /\ UNCHANGED fds
    BY DEF Fork
  <2> HIDE DEF next
  <2>3. DOMAIN proc = Procs /\ DOMAIN fds = Procs
    BY <1>1 DEF ProcTypes
  <2>4. CASE /\ proc' = [proc EXCEPT ![child] = "setup", !["parent"] = next]
             /\ fds' = [fds EXCEPT ![child] = fds["parent"]]
    <3>1. DOMAIN proc' = Procs /\ DOMAIN fds' = Procs
      BY <2>3, <2>4
    <3>2. proc'["parent"] = next /\ fds'["parent"] = fds["parent"]
      BY <2>1, <2>3, <2>4, Names
    <3>3. proc'[child] = "setup" /\ fds'[child] = fds["parent"]
      BY <2>1, <2>3, <2>4, Names
    <3>4. \A q \in Procs : q \notin {child, "parent"} => proc'[q] = proc[q] /\ fds'[q] = fds[q]
      BY <2>1, <2>3, <2>4, Names
    <3> QED BY <3>1, <3>2, <3>3, <3>4 DEF next
  <2>5. CASE proc' = [proc EXCEPT !["parent"] = next] /\ UNCHANGED fds
    BY <1>2, <2>1, <2>3, <2>5, Names DEF next
  <2> QED BY <2>2, <2>4, <2>5
<1>5. \A e \in PipeEnds : Has("parent", e, e)
  BY <1>1, <1>2, Names DEF EndsHeld, Forking
<1>6. ProcTypes'
  BY <1>1, <1>2, <1>3, <1>4, Names DEF ProcTypes, Procs, Ended, Forking
<1>7. LineTypes'
  BY <1>1 DEF LineTypes
<1>8. EndsHeld'
  <2>1. \A q \in Procs, e \in PipeEnds : proc'[q] \in Forking \cup {"setup"} => Has(q, e, e)'
    <3> SUFFICES ASSUME NEW q \in Procs, NEW e \in PipeEnds, proc'[q] \in Forking \cup {"setup"}
                 PROVE  e \in DOMAIN fds'[q] /\ fds'[q][e] = e
      BY DEF Has
    <3>1. e \in DOMAIN fds["parent"] /\ fds["parent"][e] = e
      BY <1>5 DEF Has
    <3>2. CASE fds'[q] = fds["parent"]
      BY <3>1, <3>2
    <3>3. CASE fds'[q] = fds[q] /\ proc'[q] = proc[q]
      <4>1. Has(q, e, e)
        BY <1>1, <3>3 DEF EndsHeld
      <4> QED BY <3>3, <4>1 DEF Has
    <3>4. proc'[child] = "none" => q # child
      BY DEF Forking
    <3> QED BY <1>4, <3>2, <3>3, <3>4
  <2>2. proc'["parent"] # "read"
    BY <1>4
  <2>3. proc'["finder"] \in {"exec", "run"} => Has("finder", WriteEnd("pfind_to_sort"), StdOut)'
    BY <1>1, <1>2, <1>4, Names DEF EndsHeld, Has
  <2>4. proc'["sorter"] \notin {"exec", "run", "write"}
    BY <1>2, <1>4, Names
  <2> QED BY <2>1, <2>2, <2>3, <2>4 DEF EndsHeld
<1>9. FinderDone'
  BY <1>1, <1>2, <1>4, Names DEF FinderDone, Ended
<1>10. SorterDone'
  BY <1>1, <1>2, <1>3, <1>4, Names DEF SorterDone
<1>11. ParentDone'
  BY <1>1, <1>3, <1>4 DEF ParentDone
<1> QED BY <1>6, <1>7, <1>8, <1>9, <1>10, <1>11 DEF Piped

LEMMA ParentRedirectsKeep ==
    ASSUME Piped, ParentRedirects
    PROVE  Piped'
<1> DEFINE onto == [d \in {StdIn} |-> ReadEnd("sort_to_parent")]
<1>1. /\ UNCHANGED <<printed, pfind, status, pipe, sent, held, shown>>
      /\ proc["parent"] = "redirect" /\ Redirects("parent", ParentCloses, onto, "read")
      /\ ProcTypes /\ LineTypes /\ EndsHeld /\ FinderDone /\ SorterDone /\ ParentDone
  BY DEF ParentRedirects, Piped, walkVars
<1>2. code["parent"] = "running"
  BY <1>1, Names DEF ProcTypes, Ended
<1>3. /\ DOMAIN proc' = Procs /\ DOMAIN code' = Procs /\ DOMAIN fds' = Procs
      /\ \/ proc'["parent"] = "zombie" /\ code'["parent"] = "failed"
         \/ /\ proc'["parent"] = "read" /\ code'["parent"] = "running"
            /\ \A d \in DOMAIN onto : d \in DOMAIN fds'["parent"] /\ fds'["parent"][d] = onto[d]
      /\ \A q \in Procs : q # "parent" => proc'[q] = proc[q] /\ code'[q] = code[q] /\ fds'[q] = fds[q]
  BY <1>1, <1>2, RedirectChanges, Names
<1>4. ProcTypes'
  BY <1>1, <1>2, <1>3, Names DEF ProcTypes, Procs, Ended, Statuses, Forking
<1>5. LineTypes'
  BY <1>1 DEF LineTypes
<1>6. EndsHeld'
  <2>1. proc'["parent"] = "read" => Has("parent", ReadEnd("sort_to_parent"), StdIn)'
    BY <1>3 DEF Has
  <2>2. \A q \in Procs, e \in PipeEnds : proc'[q] \in Forking \cup {"setup"} => Has(q, e, e)'
    BY <1>1, <1>3 DEF EndsHeld, Has, Forking
  <2> QED BY <1>1, <1>3, <2>1, <2>2, Names DEF EndsHeld, Has
<1>7. FinderDone'
  BY <1>1, <1>3, Names DEF FinderDone, Ended
<1>8. SorterDone'
  BY <1>1, <1>3, Names DEF SorterDone
<1>9. ParentDone'
  BY <1>1, <1>3, Names DEF ParentDone
<1> QED BY <1>4, <1>5, <1>6, <1>7, <1>8, <1>9 DEF Piped

LEMMA ParentReadsKeeps ==
    ASSUME Piped, ParentReads
    PROVE  Piped'
<1>1. /\ UNCHANGED <<printed, pfind, status, sent, held>>
      /\ proc["parent"] = "read"
      /\ ProcTypes /\ LineTypes /\ EndsHeld /\ FinderDone /\ SorterDone /\ ParentDone
  BY DEF ParentReads, Piped, walkVars
<1>2. code["parent"] = "running"
  BY <1>1, Names DEF ProcTypes, Ended
<1>p. DOMAIN pipe = Pipes /\ "sort_to_parent" \in Pipes /\ "pfind_to_sort" \in Pipes
  BY <1>1 DEF ProcTypes, Pipes
<1>s. PICK S : /\ printed \in Seq(S) /\ held \in Seq(S) /\ shown \in Seq(S)
               /\ \A p \in Pipes : pipe[p] \in Seq(S)
  BY <1>1 DEF LineTypes
<1>3. CASE /\ pipe["sort_to_parent"] # <<>>
           /\ shown' = shown \o pipe["sort_to_parent"]
           /\ pipe' = [pipe EXCEPT !["sort_to_parent"] = <<>>]
           /\ UNCHANGED <<proc, code, fds>>
  <2>1. DOMAIN pipe' = Pipes /\ pipe'["sort_to_parent"] = <<>> /\ pipe'["pfind_to_sort"] = pipe["pfind_to_sort"]
    BY <1>3, <1>p
  <2>2. LineTypes'
    <3>1. shown' \in Seq(S) /\ <<>> \in Seq(S)
      BY <1>3, <1>p, <1>s
    <3>2. \A p \in Pipes : pipe'[p] \in Seq(S)
      BY <1>p, <1>s, <2>1, <3>1 DEF Pipes
    <3> QED BY <1>1, <1>s, <3>1, <3>2 DEF LineTypes
  <2>3. ProcTypes'
    BY <1>1, <1>3, <2>1 DEF ProcTypes
  <2>4. EndsHeld' /\ FinderDone'
    BY <1>1, <1>3 DEF EndsHeld, Has, FinderDone
  <2>5. SorterDone'
    <3>1. shown' \o (pipe'["sort_to_parent"] \o held) = shown \o (pipe["sort_to_parent"] \o held)
      BY <1>3, <1>p, <1>s, <2>1, JoinAssoc, JoinEmpty
    <3>2. shown' \o pipe'["sort_to_parent"] = shown \o pipe["sort_to_parent"]
      <4>1. shown' \in Seq(S)
        BY <1>3, <1>p, <1>s
      <4> QED BY <1>3, <2>1, <4>1, JoinEmpty
    <3>3. proc["sorter"] = "write" \/ code["sorter"] \in {"ok", "killed"}
      BY <1>1, <1>3, Names DEF SorterDone, ProcTypes, Statuses
    <3>4. proc["sorter"] = "write" <=> proc'["sorter"] = "write"
      BY <1>3
    <3>5. code' = code /\ proc' = proc
      BY <1>3
    <3> QED BY <1>1, <2>1, <3>1, <3>2, <3>3, <3>5, Names DEF SorterDone, ProcTypes, Ended
  <2>6. ParentDone'
    BY <1>1, <1>2, <1>3, <2>1 DEF ParentDone
  <2> QED BY <2>2, <2>3, <2>4, <2>5, <2>6 DEF Piped
<1>4. CASE /\ pipe["sort_to_parent"] = <<>> /\ ~Held(WriteEnd("sort_to_parent"))
           /\ Goes("parent", "wait")
           /\ fds' = [fds EXCEPT !["parent"] = Closed(fds["parent"], {ReadEnd("sort_to_parent")})]
           /\ UNCHANGED <<pipe, shown>>
  <2>1. /\ DOMAIN proc' = Procs /\ DOMAIN fds' = Procs /\ code' = code
        /\ proc'["parent"] = "wait"
        /\ \A q \in Procs : q # "parent" => proc'[q] = proc[q] /\ fds'[q] = fds[q]
    <3>1. DOMAIN fds' = Procs /\ \A q \in Procs : q # "parent" => fds'[q] = fds[q]
      BY <1>1, <1>4, Names DEF ProcTypes
    <3> QED BY <1>1, <1>4, <3>1, GoesChanges, Names
  <2>2. proc["sorter"] \notin {"setup", "exec", "run", "write"}
    <3>1. WriteEnd("sort_to_parent") \in PipeEnds
      BY DEF WriteEnd, PipeEnds, Pipes
    <3>2. proc["sorter"] \in {"setup", "exec", "run", "write"} => HasEnd("sorter", WriteEnd("sort_to_parent"))
      BY <1>1, <3>1, Names DEF EndsHeld, Has, HasEnd
    <3> QED BY <1>4, <3>2, Names DEF Held
  <2>3. ProcTypes'
    BY <1>1, <1>2, <1>4, <2>1, Names DEF ProcTypes, Procs, Ended
  <2>4. LineTypes'
    BY <1>1, <1>4 DEF LineTypes
  <2>5. EndsHeld'
    BY <1>1, <2>1, Names DEF EndsHeld, Has, Forking
  <2>6. FinderDone'
    BY <1>1, <2>1, Names DEF FinderDone
  <2>7. SorterDone'
    BY <1>1, <1>4, <2>1, Names DEF SorterDone
  <2>8. ParentDone'
    BY <1>1, <1>2, <1>4, <2>1, <2>2, Names DEF ParentDone, ProcTypes, Ended
  <2> QED BY <2>3, <2>4, <2>5, <2>6, <2>7, <2>8 DEF Piped
<1> QED BY <1>3, <1>4 DEF ParentReads

LEMMA ParentWaitsKeeps ==
    ASSUME Piped, ParentWaits
    PROVE  Piped'
<1>1. /\ UNCHANGED <<printed, pfind, status, pipe, sent, held, shown>>
      /\ proc["parent"] = "wait" /\ Cardinality(Reaped) < 2
      /\ ProcTypes /\ LineTypes /\ EndsHeld /\ FinderDone /\ SorterDone /\ ParentDone
  BY DEF ParentWaits, Piped, walkVars
<1>2. code["parent"] = "running"
  BY <1>1, Names DEF ProcTypes, Ended
<1>3. LineTypes'
  BY <1>1 DEF LineTypes
<1>4. ASSUME NEW c \in Children, proc[c] = "zombie", Goes(c, "reaped"), UNCHANGED fds
      PROVE  Piped'
  <2>1. c \in Procs /\ c # "parent"
    BY DEF Children, Procs
  <2>2. /\ DOMAIN proc' = Procs /\ code' = code /\ proc'[c] = "reaped"
        /\ \A q \in Procs : q # c => proc'[q] = proc[q]
    BY <1>1, <1>4, <2>1, GoesChanges
  <2>3. ProcTypes'
    BY <1>1, <1>4, <2>1, <2>2, Names DEF ProcTypes, Procs, Ended, Forking
  <2>4. EndsHeld'
    BY <1>1, <1>4, <2>1, <2>2, Names DEF EndsHeld, Has, Forking
  <2>5. FinderDone'
    BY <1>1, <1>4, <2>1, <2>2, Names DEF FinderDone, Ended
  <2>6. SorterDone'
    BY <1>1, <1>4, <2>1, <2>2, Names DEF SorterDone, Ended
  <2>7. ParentDone'
    BY <1>1, <1>2, <1>4, <2>1, <2>2, Names DEF ParentDone, Ended
  <2> QED BY <1>3, <2>3, <2>4, <2>5, <2>6, <2>7 DEF Piped
<1>5. ASSUME Exits("parent", "failed")
      PROVE  Piped'
  <2>1. /\ DOMAIN proc' = Procs /\ DOMAIN code' = Procs /\ DOMAIN fds' = Procs
        /\ proc'["parent"] = "zombie" /\ code'["parent"] = "failed"
        /\ \A q \in Procs : q # "parent" => proc'[q] = proc[q] /\ code'[q] = code[q] /\ fds'[q] = fds[q]
    BY <1>1, <1>5, ExitChanges, Names
  <2>2. ProcTypes'
    BY <1>1, <2>1, Names DEF ProcTypes, Procs, Ended, Forking, Statuses
  <2>3. EndsHeld'
    BY <1>1, <2>1, Names DEF EndsHeld, Has, Forking
  <2>4. FinderDone'
    BY <1>1, <2>1, Names DEF FinderDone, Ended
  <2>5. SorterDone'
    BY <1>1, <2>1, Names DEF SorterDone, Ended
  <2>6. ParentDone'
    BY <1>1, <2>1, Names DEF ParentDone
  <2> QED BY <1>3, <2>2, <2>3, <2>4, <2>5, <2>6 DEF Piped
<1> QED BY <1>4, <1>5 DEF ParentWaits

\* Two children were waited for, and there are only two.
LEMMA BothReaped ==
    ASSUME Cardinality(Reaped) = 2
    PROVE  Reaped = Children
<1>1. "finder" # "sorter" /\ Children = {"finder", "sorter"} /\ Reaped \subseteq Children
  BY DEF Children, Reaped
<1>2. IsFiniteSet(Children) /\ Cardinality(Children) = 2
  <2>1. IsFiniteSet({"finder"}) /\ Cardinality({"finder"}) = 1
    BY FS_Singleton
  <2>2. IsFiniteSet({"finder"} \cup {"sorter"}) /\ Cardinality({"finder"} \cup {"sorter"}) = 2
    BY <1>1, <2>1, FS_AddElement
  <2>3. Children = {"finder"} \cup {"sorter"}
    BY <1>1
  <2> QED BY <2>2, <2>3
<1> QED BY <1>1, <1>2, FS_Subset

LEMMA ParentPrintsKeeps ==
    ASSUME Piped, ParentPrintsTotal
    PROVE  Piped'
<1>1. /\ UNCHANGED <<printed, pfind, status, pipe, sent, held, shown>>
      /\ proc["parent"] = "wait" /\ Reaped = Children /\ Exits("parent", "ok")
      /\ ProcTypes /\ LineTypes /\ EndsHeld /\ FinderDone /\ SorterDone /\ ParentDone
  BY BothReaped DEF ParentPrintsTotal, Piped, walkVars
<1>2. LineTypes'
  BY <1>1 DEF LineTypes
<1>3. /\ DOMAIN proc' = Procs /\ DOMAIN code' = Procs /\ DOMAIN fds' = Procs
      /\ proc'["parent"] = "zombie" /\ code'["parent"] = "ok"
      /\ \A q \in Procs : q # "parent" => proc'[q] = proc[q] /\ code'[q] = code[q] /\ fds'[q] = fds[q]
  BY <1>1, ExitChanges, Names
<1>4. ProcTypes'
  BY <1>1, <1>3, Names DEF ProcTypes, Procs, Ended, Forking, Statuses
<1>5. EndsHeld'
  BY <1>1, <1>3, Names DEF EndsHeld, Has, Forking
<1>6. FinderDone'
  BY <1>1, <1>3, Names DEF FinderDone, Ended
<1>7. SorterDone'
  BY <1>1, <1>3, Names DEF SorterDone, Ended
<1>8. ParentDone'
  <2>1. Reaped' = Reaped
    BY <1>3, Names DEF Reaped, Children
  <2>2. pipe'["sort_to_parent"] = <<>> /\ proc'["sorter"] \in {"none"} \cup Ended
    BY <1>1, <1>3, Names DEF ParentDone
  <2> QED BY <1>1, <2>1, <2>2 DEF ParentDone
<1> QED BY <1>2, <1>4, <1>5, <1>6, <1>7, <1>8 DEF Piped

-----------------------------------------------------------------------------
(* The finder's steps.                                                     *)

LEMMA FinderStartsKeep ==
    ASSUME Piped, FinderRedirects \/ FinderExecs
    PROVE  Piped'
<1> DEFINE onto == [d \in {StdOut} |-> WriteEnd("pfind_to_sort")]
<1>1. /\ UNCHANGED <<printed, status, pipe, sent, held, shown>>
      /\ pfind' = pfind \/ pfind' = "main"
      /\ proc["finder"] \in {"setup", "exec"}
      /\ ProcTypes /\ LineTypes /\ EndsHeld /\ FinderDone /\ SorterDone /\ ParentDone
  BY DEF FinderRedirects, FinderExecs, Piped, walkVars
<1>2. code["finder"] = "running" /\ printed = <<>> /\ sent = Len(printed)
  <2>1. code["finder"] = "running" /\ printed = <<>>
    BY <1>1, Names DEF ProcTypes, Ended, FinderDone
  <2>2. Len(printed) = 0
    BY <2>1
  <2>3. sent \in Nat /\ sent <= Len(printed)
    BY <1>1 DEF ProcTypes
  <2> QED BY <2>1, <2>2, <2>3
<1>3. /\ DOMAIN proc' = Procs /\ DOMAIN code' = Procs /\ DOMAIN fds' = Procs
      /\ \/ proc'["finder"] = "zombie" /\ code'["finder"] = "failed"
         \/ /\ proc'["finder"] \in {"exec", "run"} /\ code'["finder"] = "running"
            /\ Has("finder", WriteEnd("pfind_to_sort"), StdOut)'
      /\ \A q \in Procs : q # "finder" => proc'[q] = proc[q] /\ code'[q] = code[q] /\ fds'[q] = fds[q]
  <2>1. CASE FinderRedirects
    <3>1. proc["finder"] = "setup" /\ Redirects("finder", FinderCloses, onto, "exec")
      BY <2>1 DEF FinderRedirects
    <3>2. StdOut \in DOMAIN onto /\ onto[StdOut] = WriteEnd("pfind_to_sort")
      OBVIOUS
    <3> HIDE DEF onto
    <3>3. /\ DOMAIN proc' = Procs /\ DOMAIN code' = Procs /\ DOMAIN fds' = Procs
          /\ \/ proc'["finder"] = "zombie" /\ code'["finder"] = "failed"
             \/ proc'["finder"] = "exec" /\ code'["finder"] = code["finder"]
                /\ \A d \in DOMAIN onto : d \in DOMAIN fds'["finder"] /\ fds'["finder"][d] = onto[d]
          /\ \A q \in Procs : q # "finder" => proc'[q] = proc[q] /\ code'[q] = code[q] /\ fds'[q] = fds[q]
      BY <1>1, <3>1, RedirectChanges, Names
    <3> QED BY <1>2, <3>2, <3>3 DEF Has
  <2>2. CASE FinderExecs /\ Exits("finder", "failed")
    BY <1>1, <2>2, ExitChanges, Names
  <2>3. CASE FinderExecs /\ Goes("finder", "run") /\ UNCHANGED fds
    <3>1. Has("finder", WriteEnd("pfind_to_sort"), StdOut)
      BY <1>1, <2>3 DEF FinderExecs, EndsHeld
    <3>2. Has("finder", WriteEnd("pfind_to_sort"), StdOut)'
      BY <2>3, <3>1 DEF Has
    <3>3. /\ DOMAIN proc' = Procs /\ code' = code /\ proc'["finder"] = "run"
          /\ \A q \in Procs : q # "finder" => proc'[q] = proc[q]
      BY <1>1, <2>3, GoesChanges, Names
    <3> QED BY <1>1, <1>2, <2>3, <3>2, <3>3 DEF ProcTypes
  <2> QED BY <2>1, <2>2, <2>3 DEF FinderRedirects, FinderExecs
<1>4. ProcTypes'
  BY <1>1, <1>2, <1>3, Names DEF ProcTypes, Procs, Ended, Statuses, Forking
<1>5. LineTypes'
  BY <1>1 DEF LineTypes
<1>6. EndsHeld'
  <2>1. proc'["finder"] \in {"exec", "run"} => Has("finder", WriteEnd("pfind_to_sort"), StdOut)'
    BY <1>3
  <2>2. \A q \in Procs, e \in PipeEnds : proc'[q] \in Forking \cup {"setup"} => Has(q, e, e)'
    BY <1>1, <1>3 DEF EndsHeld, Has, Forking
  <2> QED BY <1>1, <1>3, <2>1, <2>2, Names DEF EndsHeld, Has
<1>7. FinderDone'
  BY <1>1, <1>2, <1>3, Names DEF FinderDone, Ended
<1>8. SorterDone'
  <2>1. proc["sorter"] # "write" /\ code["sorter"] \notin {"ok", "killed"}
    BY <1>1, Names DEF SorterDone, Ended
  <2> QED BY <1>1, <1>3, <2>1, Names DEF SorterDone, Ended
<1>9. ParentDone'
  <2>1. code["parent"] # "ok"
    BY <1>1 DEF ParentDone, Reaped, Children
  <2> QED BY <1>1, <1>3, <2>1, Names DEF ParentDone
<1> QED BY <1>4, <1>5, <1>6, <1>7, <1>8, <1>9 DEF Piped

\* What a step of the walk does to the listing and to the status.
LEMMA WalkPrints ==
    ASSUME PfindStep
    PROVE  /\ printed' = printed \/ \E e : printed' = Append(printed, e)
           /\ (status' = status /\ pfind' # "ended") \/ status' \in {"ok", "failed", "killed"}
<1> USE DEF Ends, Returns
<1>1. CASE Main
  BY <1>1 DEF Main
<1>2. CASE RealpathFails
  BY <1>2 DEF RealpathFails
<1>3. CASE OpendirFails
  BY <1>3 DEF OpendirFails
<1>4. CASE Opendir
  BY <1>4 DEF Opendir
<1>5. CASE ReadEntry
  <2>1. PICK e \in Frame.todo : \E mode \in Sb(e) : Judged(e, mode)
    BY <1>5 DEF ReadEntry
  <2>2. printed' = Append(printed, e) \/ printed' = printed
    BY <2>1 DEF Judged
  <2> QED BY <1>5, <2>2 DEF ReadEntry
<1>6. CASE SkipEntry
  BY <1>6 DEF SkipEntry
<1>7. CASE Closedir
  BY <1>7 DEF Closedir
<1> QED BY <1>1, <1>2, <1>3, <1>4, <1>5, <1>6, <1>7 DEF PfindStep

LEMMA FinderWalksKeeps ==
    ASSUME Piped, FinderWalks
    PROVE  Piped'
<1>1. /\ UNCHANGED <<proc, code, fds, pipe, sent, held, shown>>
      /\ proc["finder"] = "run" /\ PfindStep
      /\ ProcTypes /\ LineTypes /\ EndsHeld /\ FinderDone /\ SorterDone /\ ParentDone
  BY DEF FinderWalks, Piped, pipeVars
<1>s. PICK S : /\ printed \in Seq(S) /\ held \in Seq(S) /\ shown \in Seq(S)
               /\ \A p \in Pipes : pipe[p] \in Seq(S)
  BY <1>1 DEF LineTypes
<1>2. status' \in Statuses /\ (pfind' = "ended" => status' # "running")
  BY <1>1, WalkPrints DEF ProcTypes, Statuses
<1>3. /\ LineTypes' /\ sent <= Len(printed')
      /\ SubSeq(printed', 1, sent) = SubSeq(printed, 1, sent)
  <2>1. CASE printed' = printed
    BY <1>1, <2>1 DEF LineTypes, ProcTypes
  <2>2. ASSUME NEW e, printed' = Append(printed, e)
        PROVE  /\ LineTypes' /\ sent <= Len(printed')
               /\ SubSeq(printed', 1, sent) = SubSeq(printed, 1, sent)
    <3> DEFINE T == S \cup {e}
    <3>1. printed \in Seq(T) /\ held \in Seq(T) /\ shown \in Seq(T) /\ \A p \in Pipes : pipe[p] \in Seq(T)
      BY <1>s
    <3>2. e \in T
      OBVIOUS
    <3> HIDE DEF T
    <3>3. printed' \in Seq(T) /\ Len(printed') = Len(printed) + 1 /\ Len(printed) \in Nat
      BY <2>2, <3>1, <3>2
    <3>4. LineTypes'
      BY <1>1, <3>1, <3>3 DEF LineTypes
    <3>5. sent \in Nat /\ sent <= Len(printed)
      BY <1>1 DEF ProcTypes
    <3>6. SubSeq(printed', 1, sent) = SubSeq(printed, 1, sent)
      BY <2>2, <3>1, <3>2, <3>5, SubSeqAppend
    <3>7. sent <= Len(printed')
      BY <3>3, <3>5
    <3> QED BY <3>4, <3>6, <3>7
  <2> QED BY <1>1, <2>1, <2>2, WalkPrints
<1>4. ProcTypes'
  BY <1>1, <1>2, <1>3 DEF ProcTypes
<1>5. EndsHeld'
  BY <1>1 DEF EndsHeld, Has
<1>6. FinderDone'
  BY <1>1 DEF FinderDone, Ended
<1>7. SorterDone'
  <2>1. proc["sorter"] # "write" /\ code["sorter"] \notin {"ok", "killed"}
    BY <1>1 DEF SorterDone, Ended
  <2> QED BY <1>1, <1>3, <2>1 DEF SorterDone
<1>8. ParentDone'
  BY <1>1 DEF ParentDone, Reaped
<1> QED BY <1>3, <1>4, <1>5, <1>6, <1>7, <1>8 DEF Piped

LEMMA VanishKeeps ==
    ASSUME Piped, (Vanish /\ UNCHANGED pipeVars) \/ UNCHANGED spVars
    PROVE  Piped'
<1>1. UNCHANGED <<proc, code, fds, pipe, sent, held, shown, printed, pfind, status>>
  BY DEF Vanish, pipeVars, spVars, walkVars
<1>2. ProcTypes /\ LineTypes /\ EndsHeld /\ FinderDone /\ SorterDone /\ ParentDone
  BY DEF Piped
<1>3. ProcTypes'
  BY <1>1, <1>2 DEF ProcTypes
<1>4. LineTypes' /\ EndsHeld'
  BY <1>1, <1>2 DEF LineTypes, EndsHeld, Has
<1>5. FinderDone' /\ ParentDone'
  BY <1>1, <1>2 DEF FinderDone, ParentDone, Reaped
<1>6. SorterDone'
  BY <1>1, <1>2 DEF SorterDone
<1> QED BY <1>3, <1>4, <1>5, <1>6 DEF Piped

LEMMA FinderExitsKeeps ==
    ASSUME Piped, FinderExits
    PROVE  Piped'
<1>1. /\ UNCHANGED <<printed, pfind, status, pipe, sent, held, shown>>
      /\ proc["finder"] = "run" /\ sent = Len(printed) /\ Exits("finder", status) /\ pfind = "ended"
      /\ ProcTypes /\ LineTypes /\ EndsHeld /\ FinderDone /\ SorterDone /\ ParentDone
  BY DEF FinderExits, Piped, walkVars
<1>2. status # "running"
  BY <1>1 DEF ProcTypes
<1>3. /\ DOMAIN proc' = Procs /\ DOMAIN code' = Procs /\ DOMAIN fds' = Procs
      /\ proc'["finder"] = "zombie" /\ code'["finder"] = status
      /\ \A q \in Procs : q # "finder" => proc'[q] = proc[q] /\ code'[q] = code[q] /\ fds'[q] = fds[q]
  BY <1>1, ExitChanges, Names
<1>4. ProcTypes'
  BY <1>1, <1>2, <1>3, Names DEF ProcTypes, Procs, Ended
<1>5. LineTypes'
  BY <1>1 DEF LineTypes
<1>6. EndsHeld'
  BY <1>1, <1>3, Names DEF EndsHeld, Has, Forking
<1>7. FinderDone'
  BY <1>1, <1>3, Names DEF FinderDone
<1>8. SorterDone'
  <2>1. proc["sorter"] # "write" /\ code["sorter"] \notin {"ok", "killed"}
    BY <1>1, Names DEF SorterDone, Ended
  <2> QED BY <1>1, <1>3, <2>1, Names DEF SorterDone, Ended
<1>9. ParentDone'
  <2>1. code["parent"] # "ok"
    BY <1>1 DEF ParentDone, Reaped, Children
  <2> QED BY <1>1, <1>3, <2>1, Names DEF ParentDone
<1> QED BY <1>4, <1>5, <1>6, <1>7, <1>8, <1>9 DEF Piped

-----------------------------------------------------------------------------
(* The finder's output, the sorter's steps and the theorem.                *)

LEMMA FinderWritesKeeps ==
    ASSUME Piped, FinderWrites
    PROVE  Piped'
<1>1. /\ proc["finder"] = "run" /\ sent < Len(printed) /\ held' = held /\ printed' = printed
      /\ ProcTypes /\ LineTypes /\ EndsHeld /\ FinderDone /\ SorterDone /\ ParentDone
  BY DEF FinderWrites, Piped, walkVars
<1>2. fds["finder"][StdOut][1] = "pfind_to_sort"
  <2>1. fds["finder"][StdOut] = WriteEnd("pfind_to_sort")
    BY <1>1 DEF EndsHeld, Has
  <2> QED BY <2>1 DEF WriteEnd
<1>s. PICK S : /\ printed \in Seq(S) /\ held \in Seq(S) /\ shown \in Seq(S)
               /\ \A p \in Pipes : pipe[p] \in Seq(S)
  BY <1>1 DEF LineTypes
<1>p. /\ DOMAIN pipe = Pipes /\ "sort_to_parent" \in Pipes /\ "pfind_to_sort" \in Pipes
  BY <1>1 DEF ProcTypes, Pipes
<1>n. sent \in Nat /\ Len(printed) \in Nat
  <2>1. sent \in Nat
    BY <1>1 DEF ProcTypes
  <2> QED BY <1>s, <2>1
<1>c. code["parent"] # "ok" /\ proc["sorter"] # "write" /\ code["sorter"] \notin {"ok", "killed"}
  BY <1>1, Names DEF ParentDone, SorterDone, Reaped, Children, Ended
<1>3. CASE /\ sent' = sent + 1
           /\ pipe' = [pipe EXCEPT !["pfind_to_sort"] = Append(@, printed[sent + 1])]
           /\ UNCHANGED <<walkVars, proc, code, fds, shown>>
  <2> DEFINE line == printed[sent + 1]
  <2>1. line \in S
    BY <1>1, <1>s, <1>n
  <2>2. /\ DOMAIN pipe' = Pipes /\ pipe'["sort_to_parent"] = pipe["sort_to_parent"]
        /\ pipe'["pfind_to_sort"] = Append(pipe["pfind_to_sort"], line)
    BY <1>3, <1>p
  <2>3. SubSeq(printed, 1, sent') = Append(SubSeq(printed, 1, sent), line)
    BY <1>1, <1>3, <1>s, <1>n, SubSeqGrows
  <2> HIDE DEF line
  <2>4. ProcTypes'
    <3>1. sent' \in Nat /\ sent' <= Len(printed')
      BY <1>1, <1>3, <1>n
    <3>2. UNCHANGED <<proc, code, fds, status, pfind>>
      BY <1>3 DEF walkVars
    <3> QED BY <1>1, <2>2, <3>1, <3>2 DEF ProcTypes
  <2>5. LineTypes'
    <3>1. pipe["pfind_to_sort"] \in Seq(S) /\ pipe["sort_to_parent"] \in Seq(S)
      BY <1>s, <1>p
    <3>2. Append(pipe["pfind_to_sort"], line) \in Seq(S)
      BY <2>1, <3>1
    <3>3. \A p \in Pipes : pipe'[p] \in Seq(S)
      BY <2>2, <3>1, <3>2 DEF Pipes
    <3> QED BY <1>1, <1>3, <1>s, <3>3 DEF LineTypes
  <2>6. EndsHeld' /\ FinderDone'
    BY <1>1, <1>3 DEF EndsHeld, Has, FinderDone, Ended
  <2>7. SorterDone'
    <3>1. ASSUME SubSeq(printed, 1, sent) = held \o pipe["pfind_to_sort"]
          PROVE  SubSeq(printed, 1, sent') = held \o pipe'["pfind_to_sort"]
      <4>1. pipe["pfind_to_sort"] \in Seq(S) /\ held \in Seq(S)
        BY <1>s, <1>p
      <4>2. \A a, b \in Seq(S), m \in S : Append(a \o b, m) = a \o Append(b, m)
        OBVIOUS
      <4>3. Append(held \o pipe["pfind_to_sort"], line) = held \o Append(pipe["pfind_to_sort"], line)
        BY <2>1, <4>1, <4>2, Zenon
      <4> QED BY <2>2, <2>3, <3>1, <4>3
    <3> QED BY <1>1, <1>3, <1>c, <2>2, <3>1 DEF SorterDone
  <2>8. ParentDone'
    BY <1>1, <1>3, <2>2 DEF ParentDone, Reaped
  <2> QED BY <2>4, <2>5, <2>6, <2>7, <2>8 DEF Piped
<1>4. CASE /\ ~Held(ReadEnd("pfind_to_sort"))
           /\ Exits("finder", "killed") /\ Ends("killed")
           /\ UNCHANGED <<printed, pipe, sent, shown>>
  <2>1. /\ DOMAIN proc' = Procs /\ DOMAIN code' = Procs /\ DOMAIN fds' = Procs
        /\ proc'["finder"] = "zombie" /\ code'["finder"] = "killed"
        /\ \A q \in Procs : q # "finder" => proc'[q] = proc[q] /\ code'[q] = code[q] /\ fds'[q] = fds[q]
    BY <1>1, <1>4, ExitChanges, Names
  <2>2. ReadEnd("pfind_to_sort") \in PipeEnds
    BY DEF ReadEnd, PipeEnds, Pipes
  <2>3. proc["parent"] \notin Forking /\ proc["sorter"] \notin {"setup", "exec", "run"}
    <3>1. ~HasEnd("parent", ReadEnd("pfind_to_sort")) /\ ~HasEnd("sorter", ReadEnd("pfind_to_sort"))
      BY <1>4, Names DEF Held
    <3>2. proc["parent"] \in Forking => Has("parent", ReadEnd("pfind_to_sort"), ReadEnd("pfind_to_sort"))
      BY <1>1, <2>2, Names DEF EndsHeld
    <3>3. proc["sorter"] = "setup" => Has("sorter", ReadEnd("pfind_to_sort"), ReadEnd("pfind_to_sort"))
      BY <1>1, <2>2, Names DEF EndsHeld
    <3>4. proc["sorter"] \in {"exec", "run"} => Has("sorter", ReadEnd("pfind_to_sort"), StdIn)
      BY <1>1, Names DEF EndsHeld
    <3> QED BY <3>1, <3>2, <3>3, <3>4 DEF Has, HasEnd
  <2>4. \/ code["sorter"] = "failed"
        \/ proc["sorter"] = "none" /\ proc["parent"] \in {"read", "wait", "zombie"}
    <3>1. proc["parent"] # "options"
      BY <1>1 DEF ProcTypes
    <3>2. proc["parent"] \in {"read", "wait", "zombie"}
      BY <1>1, <2>3, <3>1 DEF ProcTypes
    <3>3. proc["sorter"] \in Ended => code["sorter"] = "failed"
      BY <1>1, <1>c, Names DEF ProcTypes, Statuses
    <3> QED BY <1>1, <1>c, <2>3, <3>2, <3>3 DEF ProcTypes
  <2>5. ProcTypes'
    BY <1>1, <1>4, <2>1, Names DEF ProcTypes, Procs, Ended, Statuses, Ends
  <2>6. LineTypes'
    BY <1>1, <1>4 DEF LineTypes
  <2>7. EndsHeld'
    BY <1>1, <2>1, Names DEF EndsHeld, Has, Forking
  <2>8. FinderDone'
    BY <1>1, <2>1, <2>4, Names DEF FinderDone
  <2>9. SorterDone'
    BY <1>1, <1>4, <1>c, <2>1, Names DEF SorterDone, Ended
  <2>10. ParentDone'
    BY <1>1, <1>4, <1>c, <2>1, Names DEF ParentDone
  <2> QED BY <2>5, <2>6, <2>7, <2>8, <2>9, <2>10 DEF Piped
<1> QED BY <1>2, <1>3, <1>4 DEF FinderWrites

LEMMA SorterStartsKeep ==
    ASSUME Piped, SorterRedirects \/ SorterExecs
    PROVE  Piped'
<1> DEFINE onto == [d \in {StdIn, StdOut} |-> IF d = StdIn THEN ReadEnd("pfind_to_sort")
                                              ELSE WriteEnd("sort_to_parent")]
           joined == /\ Has("sorter", ReadEnd("pfind_to_sort"), StdIn)
                     /\ Has("sorter", WriteEnd("sort_to_parent"), StdOut)
<1>1. /\ UNCHANGED <<printed, pfind, status, pipe, sent, held, shown>>
      /\ proc["sorter"] \in {"setup", "exec"}
      /\ ProcTypes /\ LineTypes /\ EndsHeld /\ FinderDone /\ SorterDone /\ ParentDone
  BY DEF SorterRedirects, SorterExecs, Piped, walkVars
<1>2. code["sorter"] = "running" /\ code["parent"] # "ok"
  BY <1>1, Names DEF ProcTypes, Ended, ParentDone, Reaped, Children
<1>3. /\ DOMAIN proc' = Procs /\ DOMAIN code' = Procs /\ DOMAIN fds' = Procs
      /\ \/ proc'["sorter"] = "zombie" /\ code'["sorter"] = "failed"
         \/ proc'["sorter"] \in {"exec", "run"} /\ code'["sorter"] = "running" /\ joined'
      /\ \A q \in Procs : q # "sorter" => proc'[q] = proc[q] /\ code'[q] = code[q] /\ fds'[q] = fds[q]
  <2>1. CASE SorterRedirects
    <3>1. proc["sorter"] = "setup" /\ Redirects("sorter", SorterCloses, onto, "exec")
      BY <2>1 DEF SorterRedirects
    <3>2. /\ StdIn \in DOMAIN onto /\ onto[StdIn] = ReadEnd("pfind_to_sort")
          /\ StdOut \in DOMAIN onto /\ onto[StdOut] = WriteEnd("sort_to_parent")
      BY DEF StdIn, StdOut
    <3> HIDE DEF onto
    <3>3. /\ DOMAIN proc' = Procs /\ DOMAIN code' = Procs /\ DOMAIN fds' = Procs
          /\ \/ proc'["sorter"] = "zombie" /\ code'["sorter"] = "failed"
             \/ proc'["sorter"] = "exec" /\ code'["sorter"] = code["sorter"]
                /\ \A d \in DOMAIN onto : d \in DOMAIN fds'["sorter"] /\ fds'["sorter"][d] = onto[d]
          /\ \A q \in Procs : q # "sorter" => proc'[q] = proc[q] /\ code'[q] = code[q] /\ fds'[q] = fds[q]
      BY <1>1, <3>1, RedirectChanges, Names
    <3> QED BY <1>2, <3>2, <3>3 DEF Has
  <2>2. CASE SorterExecs /\ Exits("sorter", "failed")
    BY <1>1, <2>2, ExitChanges, Names
  <2>3. CASE SorterExecs /\ Goes("sorter", "run") /\ UNCHANGED fds
    <3>1. joined
      BY <1>1, <2>3 DEF SorterExecs, EndsHeld
    <3>2. joined'
      BY <2>3, <3>1 DEF Has
    <3>3. /\ DOMAIN proc' = Procs /\ code' = code /\ proc'["sorter"] = "run"
          /\ \A q \in Procs : q # "sorter" => proc'[q] = proc[q]
      BY <1>1, <2>3, GoesChanges, Names
    <3> QED BY <1>1, <1>2, <2>3, <3>2, <3>3 DEF ProcTypes
  <2> QED BY <2>1, <2>2, <2>3 DEF SorterRedirects, SorterExecs
<1>4. ProcTypes'
  BY <1>1, <1>2, <1>3, Names DEF ProcTypes, Procs, Ended, Statuses, Forking
<1>5. LineTypes'
  BY <1>1 DEF LineTypes
<1>6. EndsHeld'
  <2>1. \A q \in Procs, e \in PipeEnds : proc'[q] \in Forking \cup {"setup"} => Has(q, e, e)'
    BY <1>1, <1>3 DEF EndsHeld, Has, Forking
  <2> QED BY <1>1, <1>3, <2>1, Names DEF EndsHeld, Has
<1>7. FinderDone'
  BY <1>1, <1>2, <1>3, Names DEF FinderDone, Ended
<1>8. SorterDone'
  BY <1>1, <1>2, <1>3, Names DEF SorterDone, Ended
<1>9. ParentDone'
  BY <1>1, <1>2, <1>3, Names DEF ParentDone, Ended
<1> QED BY <1>4, <1>5, <1>6, <1>7, <1>8, <1>9 DEF Piped

LEMMA SorterReadsKeeps ==
    ASSUME Piped, SorterReads
    PROVE  Piped'
<1>1. /\ UNCHANGED <<printed, pfind, status, sent, shown>>
      /\ proc["sorter"] = "run"
      /\ ProcTypes /\ LineTypes /\ EndsHeld /\ FinderDone /\ SorterDone /\ ParentDone
  BY DEF SorterReads, Piped, walkVars
<1>2. /\ code["sorter"] = "running" /\ shown = <<>> /\ pipe["sort_to_parent"] = <<>>
      /\ SubSeq(printed, 1, sent) = held \o pipe["pfind_to_sort"] /\ code["parent"] # "ok"
      /\ proc["parent"] # "wait"
  BY <1>1, Names DEF ProcTypes, Ended, SorterDone, ParentDone
<1>s. PICK S : /\ printed \in Seq(S) /\ held \in Seq(S) /\ shown \in Seq(S)
               /\ \A p \in Pipes : pipe[p] \in Seq(S)
  BY <1>1 DEF LineTypes
<1>p. /\ DOMAIN pipe = Pipes /\ "sort_to_parent" \in Pipes /\ "pfind_to_sort" \in Pipes
  BY <1>1 DEF ProcTypes, Pipes
<1>3. CASE /\ held' = held \o pipe["pfind_to_sort"]
           /\ pipe' = [pipe EXCEPT !["pfind_to_sort"] = <<>>]
           /\ UNCHANGED <<proc, code, fds>>
  <2>1. /\ DOMAIN pipe' = Pipes /\ pipe'["sort_to_parent"] = pipe["sort_to_parent"]
        /\ pipe'["pfind_to_sort"] = <<>>
    BY <1>3, <1>p
  <2>2. held' \in Seq(S) /\ <<>> \in Seq(S) /\ held' \o <<>> = held'
    BY <1>3, <1>s, <1>p
  <2>3. LineTypes'
    <3>1. \A p \in Pipes : pipe'[p] \in Seq(S)
      BY <1>s, <2>1, <2>2 DEF Pipes
    <3> QED BY <1>1, <1>s, <2>2, <3>1 DEF LineTypes
  <2>4. ProcTypes'
    BY <1>1, <1>3, <2>1 DEF ProcTypes
  <2>5. EndsHeld' /\ FinderDone'
    BY <1>1, <1>3 DEF EndsHeld, Has, FinderDone
  <2>6. SorterDone'
    BY <1>1, <1>2, <1>3, <2>1, <2>2 DEF SorterDone
  <2>7. ParentDone'
    BY <1>1, <1>3, <2>1 DEF ParentDone, Reaped
  <2> QED BY <2>3, <2>4, <2>5, <2>6, <2>7 DEF Piped
<1>4. CASE /\ pipe["pfind_to_sort"] = <<>> /\ ~Held(WriteEnd("pfind_to_sort"))
           /\ held' = InOrder(held)
           /\ Goes("sorter", "write") /\ UNCHANGED <<fds, pipe>>
  <2>1. /\ DOMAIN proc' = Procs /\ code' = code /\ proc'["sorter"] = "write"
        /\ \A q \in Procs : q # "sorter" => proc'[q] = proc[q]
    BY <1>1, <1>4, GoesChanges, Names
  <2>2. proc["finder"] \in {"none"} \cup Ended
    <3>1. WriteEnd("pfind_to_sort") \in PipeEnds
      BY DEF WriteEnd, PipeEnds, Pipes
    <3>2. ~HasEnd("finder", WriteEnd("pfind_to_sort"))
      BY <1>4, Names DEF Held
    <3>3. proc["finder"] = "setup" => Has("finder", WriteEnd("pfind_to_sort"), WriteEnd("pfind_to_sort"))
      BY <1>1, <3>1, Names DEF EndsHeld
    <3>4. proc["finder"] \in {"exec", "run"} => Has("finder", WriteEnd("pfind_to_sort"), StdOut)
      BY <1>1 DEF EndsHeld
    <3> QED BY <1>1, <3>2, <3>3, <3>4 DEF Has, HasEnd, ProcTypes
  <2>3. held = printed
    <3>1. sent = Len(printed)
      <4>1. CASE proc["finder"] = "none"
        <5>1. printed = <<>>
          BY <1>1, <4>1 DEF FinderDone
        <5>2. Len(printed) = 0
          BY <5>1
        <5>3. sent \in Nat /\ sent <= Len(printed)
          BY <1>1 DEF ProcTypes
        <5> QED BY <5>2, <5>3
      <4>2. CASE proc["finder"] \in Ended
        <5>1. code["sorter"] # "failed" /\ proc["sorter"] # "none"
          BY <1>1, <1>2
        <5> QED BY <1>1, <4>2, <5>1 DEF FinderDone
      <4> QED BY <2>2, <4>1, <4>2
    <3>2. held \o <<>> = held
      BY <1>s
    <3>3. SubSeq(printed, 1, Len(printed)) = printed
      BY <1>s, SubSeqWhole
    <3> QED BY <1>2, <1>4, <3>1, <3>2, <3>3
  <2>4. PICK T : InOrder(held) \in Seq(T)
    BY <1>s, InOrderSeq
  <2>5. LineTypes'
    <3> DEFINE U == S \cup T
    <3>1. printed \in Seq(U) /\ shown \in Seq(U) /\ \A p \in Pipes : pipe[p] \in Seq(U)
      BY <1>s
    <3>2. held' \in Seq(U)
      BY <1>4, <2>4
    <3> HIDE DEF U
    <3> QED BY <1>1, <1>4, <3>1, <3>2 DEF LineTypes
  <2>6. ProcTypes'
    BY <1>1, <1>2, <1>4, <2>1, Names DEF ProcTypes, Procs, Ended, Forking
  <2>7. EndsHeld'
    BY <1>1, <1>4, <2>1, Names DEF EndsHeld, Has, Forking
  <2>8. FinderDone'
    BY <1>1, <2>1, Names DEF FinderDone
  <2>9. SorterDone'
    <3>1. <<>> \o (<<>> \o InOrder(held)) = InOrder(held)
      BY <2>4
    <3>2. shown' \o (pipe'["sort_to_parent"] \o held') = InOrder(printed)
      BY <1>1, <1>2, <1>4, <2>3, <3>1
    <3>3. proc'["finder"] \in {"none"} \cup Ended
      BY <2>1, <2>2, Names
    <3> QED BY <1>1, <1>2, <2>1, <3>2, <3>3 DEF SorterDone
  <2>10. ParentDone'
    BY <1>2, <2>1, Names DEF ParentDone
  <2> QED BY <2>5, <2>6, <2>7, <2>8, <2>9, <2>10 DEF Piped
<1> QED BY <1>3, <1>4 DEF SorterReads

LEMMA SorterWritesKeeps ==
    ASSUME Piped, SorterWrites
    PROVE  Piped'
<1>1. /\ UNCHANGED <<printed, pfind, status, sent, shown>>
      /\ proc["sorter"] = "write"
      /\ ProcTypes /\ LineTypes /\ EndsHeld /\ FinderDone /\ SorterDone /\ ParentDone
  BY DEF SorterWrites, Piped, walkVars
<1>2. /\ code["sorter"] = "running" /\ code["parent"] # "ok" /\ proc["parent"] # "wait"
      /\ shown \o (pipe["sort_to_parent"] \o held) = InOrder(printed)
      /\ proc["finder"] \in {"none"} \cup Ended
  BY <1>1, Names DEF ProcTypes, Ended, SorterDone, ParentDone
<1>s. PICK S : /\ printed \in Seq(S) /\ held \in Seq(S) /\ shown \in Seq(S)
               /\ \A p \in Pipes : pipe[p] \in Seq(S)
  BY <1>1 DEF LineTypes
<1>p. /\ DOMAIN pipe = Pipes /\ "sort_to_parent" \in Pipes /\ "pfind_to_sort" \in Pipes
  BY <1>1 DEF ProcTypes, Pipes
<1>3. CASE /\ held # <<>>
           /\ pipe' = [pipe EXCEPT !["sort_to_parent"] = Append(@, Head(held))]
           /\ held' = Tail(held)
           /\ UNCHANGED <<proc, code, fds>>
  <2>1. /\ DOMAIN pipe' = Pipes /\ pipe'["pfind_to_sort"] = pipe["pfind_to_sort"]
        /\ pipe'["sort_to_parent"] = Append(pipe["sort_to_parent"], Head(held))
    BY <1>3, <1>p
  <2>2. held' \in Seq(S) /\ Head(held) \in S
    BY <1>3, <1>s
  <2>3. LineTypes'
    <3> DEFINE first == Head(held)
    <3>1. pipe["pfind_to_sort"] \in Seq(S) /\ pipe["sort_to_parent"] \in Seq(S) /\ first \in S
      BY <1>s, <1>p, <2>2
    <3> HIDE DEF first
    <3>2. Append(pipe["sort_to_parent"], first) \in Seq(S)
      BY <3>1
    <3>3. \A p \in Pipes : pipe'[p] \in Seq(S)
      BY <2>1, <3>1, <3>2 DEF Pipes, first
    <3> QED BY <1>1, <1>s, <2>2, <3>3 DEF LineTypes
  <2>4. ProcTypes'
    BY <1>1, <1>3, <2>1 DEF ProcTypes
  <2>5. EndsHeld' /\ FinderDone'
    BY <1>1, <1>3 DEF EndsHeld, Has, FinderDone
  <2>6. SorterDone'
    <3>1. pipe'["sort_to_parent"] \o held' = pipe["sort_to_parent"] \o held
      BY <1>3, <1>s, <1>p, <2>1, HeadMoves
    <3>2. shown' \o (pipe'["sort_to_parent"] \o held') = InOrder(printed')
      BY <1>1, <1>2, <3>1
    <3> QED BY <1>1, <1>2, <1>3, <3>2 DEF SorterDone
  <2>7. ParentDone'
    BY <1>2, <1>3 DEF ParentDone
  <2> QED BY <2>3, <2>4, <2>5, <2>6, <2>7 DEF Piped
<1>4. ASSUME NEW how \in {"killed", "ok"}, Exits("sorter", how), UNCHANGED <<pipe, held>>,
             how = "ok" => held = <<>>,
             how = "killed" => ~Held(ReadEnd("sort_to_parent"))
      PROVE  Piped'
  <2>1. /\ DOMAIN proc' = Procs /\ DOMAIN code' = Procs /\ DOMAIN fds' = Procs
        /\ proc'["sorter"] = "zombie" /\ code'["sorter"] = how
        /\ \A q \in Procs : q # "sorter" => proc'[q] = proc[q] /\ code'[q] = code[q] /\ fds'[q] = fds[q]
    BY <1>1, <1>4, ExitChanges, Names
  <2>2. how = "ok" => shown \o pipe["sort_to_parent"] = InOrder(printed)
    <3>1. pipe["sort_to_parent"] \o <<>> = pipe["sort_to_parent"]
      BY <1>s, <1>p
    <3> QED BY <1>2, <1>4, <3>1
  <2>3. how = "killed" => proc["parent"] = "zombie"
    <3>1. ReadEnd("sort_to_parent") \in PipeEnds
      BY DEF ReadEnd, PipeEnds, Pipes
    <3>2. proc["parent"] \in Forking => Has("parent", ReadEnd("sort_to_parent"), ReadEnd("sort_to_parent"))
      BY <1>1, <3>1, Names DEF EndsHeld
    <3>3. proc["parent"] = "read" => Has("parent", ReadEnd("sort_to_parent"), StdIn)
      BY <1>1 DEF EndsHeld
    <3>4. proc["parent"] \in Forking \cup {"read"} => Held(ReadEnd("sort_to_parent"))
      BY <3>2, <3>3, Names DEF Held, Has, HasEnd
    <3>5. proc["parent"] # "options"
      BY <1>1 DEF ProcTypes
    <3> QED BY <1>1, <1>2, <1>4, <3>4, <3>5 DEF ProcTypes
  <2>4. LineTypes'
    BY <1>1, <1>4 DEF LineTypes
  <2>5. ProcTypes'
    BY <1>1, <1>4, <2>1, Names DEF ProcTypes, Procs, Ended, Forking, Statuses
  <2>6. EndsHeld'
    BY <1>1, <2>1, Names DEF EndsHeld, Has, Forking
  <2>7. FinderDone'
    <3>1. proc["finder"] \in Ended => sent = Len(printed)
      BY <1>1, <1>2 DEF FinderDone
    <3> QED BY <1>1, <2>1, <3>1, Names DEF FinderDone
  <2>8. SorterDone'
    BY <1>1, <1>2, <1>4, <2>1, <2>2, <2>3, Names DEF SorterDone
  <2>9. ParentDone'
    BY <1>2, <2>1, Names DEF ParentDone
  <2> QED BY <2>4, <2>5, <2>6, <2>7, <2>8, <2>9 DEF Piped
<1> QED BY <1>3, <1>4 DEF SorterWrites

LEMMA SpInvStep == SpInv /\ [Next]_spVars => SpInv'
<1> SUFFICES ASSUME Piped, [Next]_spVars PROVE Piped'
  BY AloneStays DEF SpInv
<1> QED
  BY OptionsKeep, ForksKeepPipes, ParentRedirectsKeep, ParentReadsKeeps, ParentWaitsKeeps, ParentPrintsKeeps,
     FinderStartsKeep, FinderWalksKeeps, FinderWritesKeeps, FinderExitsKeeps,
     SorterStartsKeep, SorterReadsKeeps, SorterWritesKeeps, VanishKeeps
  DEF Next

\* "Total matches" is about the whole listing: when spfind reports success what
\* it showed is everything pfind printed, in sort's order, or nothing where sort
\* could not be run - for every tree, command line, pipe size, and whatever
\* fails (spfind.c:76-180).
THEOREM TotalAlwaysTheListing ==
    ASSUME NEW CONSTANT words, NEW CONSTANT closed
    PROVE  InitWith(words, closed) /\ [][Next]_spVars => []TotalIsTheListing
<1>1. InitWith(words, closed) => SpInv
  BY PipedInitially
<1>2. SpInv => TotalIsTheListing
  <2> SUFFICES ASSUME SpInv, code["parent"] = "ok"
               PROVE  /\ Reaped = Children
                      /\ shown = IF code["sorter"] = "ok" THEN InOrder(printed) ELSE <<>>
    BY DEF TotalIsTheListing
  <2>1. ProcTypes /\ LineTypes /\ SorterDone /\ ParentDone
    BY DEF SpInv, Alone, Piped
  <2>2. Reaped = Children /\ pipe["sort_to_parent"] = <<>>
    BY <2>1 DEF ParentDone
  <2>3. proc["sorter"] = "reaped" /\ code["sorter"] \in {"ok", "failed"}
    <3>1. proc["sorter"] = "reaped"
      BY <2>2 DEF Reaped, Children
    <3>2. code["sorter"] \in Statuses /\ code["sorter"] # "running" /\ code["sorter"] # "killed"
      BY <2>1, <3>1, Names DEF ProcTypes, Ended, SorterDone
    <3> QED BY <3>1, <3>2 DEF Statuses
  <2>4. shown \o <<>> = shown
    BY <2>1 DEF LineTypes
  <2> QED BY <2>1, <2>2, <2>3, <2>4 DEF SorterDone
<1> QED BY <1>1, <1>2, SpInvStep, PTL

-----------------------------------------------------------------------------
(* The walk: what was read, and what is still to be read.                  *)

\* Entry e will be read, or skipped, by a call of stat_check that is under way.
Waiting(e) ==
    \E i \in 1 .. Len(frames) :
        frames[i].dir = Above[e] /\ (frames[i].open => e \in frames[i].todo)

Calls == [dir : Entries \cup {Top}, open : BOOLEAN, todo : SUBSET Entries, sb : SUBSET Int]

\* The calls under way are about different directories that were read, or Top,
\* and have still to read entries of theirs that were not.
CallsInv(Done) ==
    /\ frames \in Seq(Calls)
    /\ \A i \in 1 .. Len(frames) :
         /\ frames[i].dir \in Done \cup {Top}
         /\ \A e \in frames[i].todo : e \notin Done /\ Above[e] = frames[i].dir
         /\ frames[i].open \/ \A e \in Done : Above[e] # frames[i].dir
    /\ \A i, j \in 1 .. Len(frames) : frames[i].dir = frames[j].dir => i = j

\* The entries that were read: with each one the directory it is in.  What
\* should be in the listing is, and what is in it was read.
ReadInv(Done) ==
    /\ Done \subseteq Entries /\ \A e \in Done : Above[e] \in Done \cup {Top}
    /\ \A i \in DOMAIN printed : printed[i] \in Done
    /\ \A e \in Done : Matches(e) => e \in ToSet(printed) \/ e \in blamed
    /\ \A e \in Entries : Above[e] \in (Done \cup {Top}) \ blamed => e \in Done \cup gone \/ Waiting(e)

\* While pfind walks.
Walked ==
    /\ Len(argv) = 4 /\ printed \in Seq(Entries)
    /\ NoFalseHit
    /\ \A e \in Entries : Above[e] \in gone => e \in gone
    /\ \E Done : CallsInv(Done) /\ ReadInv(Done)

\* The second inductive invariant, about pfind alone.
WalkInv ==
    /\ pfind \in {"off", "main", "walk", "ended"}
    /\ pfind \in {"off", "main"} => printed = <<>> /\ blamed = {} /\ gone = {}
    /\ pfind = "walk" => Walked /\ frames # <<>>
    /\ pfind = "ended" => ListingIsExact

\* pfind is off until its process runs it.
FinderInv ==
    /\ DOMAIN proc = Procs
    /\ proc["finder"] \in {"none", "setup", "exec"} => pfind = "off"

\* The way from an entry to Top contains, with an entry, the directory it is in.
LEMMA WayGoesUp ==
    ASSUME NEW e \in Entries
    PROVE  /\ e \in OnTheWay(e)
           /\ \A x \in OnTheWay(e) : x \in Entries => Above[x] \in OnTheWay(e)
<1>1. ASSUME NEW x \in OnTheWay(e), x \in Entries PROVE Above[x] \in OnTheWay(e)
  <2>1. Above[x] \in Entries \cup {Top}
    BY <1>1, TreeAssumption
  <2>2. ASSUME NEW S \in SUBSET (Entries \cup {Top}), e \in S, \A y \in S \cap Entries : Above[y] \in S
        PROVE  Above[x] \in S
    BY <1>1, <2>2 DEF OnTheWay
  <2> QED BY <2>1, <2>2 DEF OnTheWay
<1>2. e \in OnTheWay(e)
  BY DEF OnTheWay
<1> QED BY <1>1, <1>2

\* If the entries below every directory that was read are read, all of them are,
\* but for those that are gone (G) or below a directory that was blamed (B).
LEMMA AllReached ==
    ASSUME NEW Done, NEW B, NEW G,
           \A e \in Entries : Above[e] \in G => e \in G,
           \A e \in Entries : Above[e] \in (Done \cup {Top}) \ B => e \in Done \cup G
    PROVE  \A e \in Entries \ G : e \in Done \/ OnTheWay(e) \cap B # {}
<1> SUFFICES ASSUME NEW e \in Entries \ G, e \notin Done, OnTheWay(e) \cap B = {} PROVE FALSE
  OBVIOUS
<1> DEFINE U == {x \in Entries : x \in OnTheWay(e) /\ x \notin Done /\ x \notin G}
<1>1. \A x \in U : Above[x] \in U
  <2> SUFFICES ASSUME NEW x \in U PROVE Above[x] \in U
    OBVIOUS
  <2>1. Above[x] \in Entries \cup {Top} /\ Above[x] \in OnTheWay(e)
    BY WayGoesUp, TreeAssumption
  <2>2. Above[x] \notin G /\ Above[x] \notin B
    BY <2>1
  <2>3. Above[x] \notin Done \cup {Top}
    BY <2>2
  <2> QED BY <2>1, <2>2, <2>3
<1>2. e \in U
  BY WayGoesUp
<1>3. U \in SUBSET Entries
  OBVIOUS
<1> HIDE DEF U
<1> QED BY <1>1, <1>2, <1>3, TreeAssumption

\* The sequence of calls: one returns, the last one changes, and calls another.
LEMMA FrontShorter ==
    ASSUME NEW F, NEW s \in Seq(F), s # <<>>
    PROVE  /\ Front(s) \in Seq(F) /\ Len(Front(s)) = Len(s) - 1
           /\ \A i \in 1 .. Len(s) - 1 : Front(s)[i] = s[i]
<1>1. Len(s) \in Nat /\ Len(s) # 0
  OBVIOUS
<1>2. Len(s) - 1 \in Nat
  BY <1>1
<1> DEFINE m == Len(s) - 1
<1>3. m \in Nat /\ m <= Len(s)
  BY <1>1, <1>2
<1> HIDE DEF m
<1>4. /\ SubSeq(s, 1, m) \in Seq(F) /\ Len(SubSeq(s, 1, m)) = m
      /\ \A i \in 1 .. m : SubSeq(s, 1, m)[i] = s[i]
  BY <1>3
<1> QED BY <1>4 DEF Front, m

LEMMA LastReplaced ==
    ASSUME NEW F, NEW s \in Seq(F), NEW f \in F, s # <<>>
    PROVE  LET t == [s EXCEPT ![Len(s)] = f]
           IN  /\ t \in Seq(F) /\ Len(t) = Len(s) /\ t[Len(s)] = f
               /\ \A i \in 1 .. Len(s) - 1 : t[i] = s[i]
OBVIOUS

LEMMA LastReplacedAndMore ==
    ASSUME NEW F, NEW s \in Seq(F), NEW f \in F, NEW g \in F, s # <<>>
    PROVE  LET t == Append(Front(s), f) \o <<g>>
           IN  /\ t \in Seq(F) /\ Len(t) = Len(s) + 1 /\ t[Len(s)] = f /\ t[Len(s) + 1] = g
               /\ \A i \in 1 .. Len(s) - 1 : t[i] = s[i]
<1> DEFINE n == Len(s)
           u == Append(Front(s), f)
           t == u \o <<g>>
<1>1. n \in Nat /\ n >= 1
  OBVIOUS
<1>2. /\ Front(s) \in Seq(F) /\ Len(Front(s)) = n - 1
      /\ \A i \in 1 .. n - 1 : Front(s)[i] = s[i]
  BY FrontShorter
<1> HIDE DEF n
<1>3. /\ u \in Seq(F) /\ Len(u) = n /\ u[n] = f
      /\ \A i \in 1 .. n - 1 : u[i] = s[i]
  BY <1>1, <1>2
<1> HIDE DEF u
<1>4. <<g>> \in Seq(F) /\ Len(<<g>>) = 1 /\ <<g>>[1] = g
  OBVIOUS
<1>5. /\ t \in Seq(F) /\ Len(t) = n + 1 /\ t[n + 1] = g
      /\ \A i \in 1 .. n : t[i] = u[i]
  BY <1>1, <1>3, <1>4
<1> HIDE DEF t
<1>6. /\ t \in Seq(F) /\ Len(t) = n + 1 /\ t[n] = f /\ t[n + 1] = g
      /\ \A i \in 1 .. n - 1 : t[i] = s[i]
  BY <1>1, <1>3, <1>5
<1> QED BY <1>6 DEF t, u, n

-----------------------------------------------------------------------------
(* The walk's steps.                                                       *)

LEMMA BlamingMoreKeeps ==
    ASSUME NoFalseHit, printed' = printed, argv' = argv, blamed \subseteq blamed'
    PROVE  NoFalseHit'
BY DEF NoFalseHit, Matches, IsInjective

\* A search that failed, or was killed, only has to be right in what it listed.
LEMMA FailingKeeps ==
    ASSUME Len(argv) = 4 => NoFalseHit, printed' = printed, argv' = argv, blamed \subseteq blamed',
           NEW how \in {"failed", "killed"}, Ends(how)
    PROVE  WalkInv'
<1>1. pfind' = "ended" /\ status' # "ok"
  BY DEF Ends
<1> QED BY <1>1, BlamingMoreKeeps DEF WalkInv, ListingIsExact, NothingMissedSilently

\* A call returns with nothing left to read, or after blaming its directory.
LEMMA ReturnsKeep ==
    ASSUME Walked, pfind = "walk", frames # <<>>, Returns, UNCHANGED <<argv, gone, printed>>,
           blamed \subseteq blamed',
           Frame.dir \in blamed' \/ (Frame.open /\ Frame.todo = {})
    PROVE  WalkInv'
<1>1. PICK Done : CallsInv(Done) /\ ReadInv(Done)
  BY DEF Walked
<1> DEFINE n == Len(frames)
<1>2. /\ frames \in Seq(Calls) /\ n \in Nat /\ n >= 1
  <2>1. frames \in Seq(Calls)
    BY <1>1 DEF CallsInv
  <2> QED BY <2>1
<1>3. NoFalseHit' /\ \A e \in Entries : Above[e] \in gone => e \in gone
  BY BlamingMoreKeeps DEF Walked
<1>4. \A e \in Entries : Above[e] \in (Done \cup {Top}) \ blamed' =>
         \/ e \in Done \cup gone
         \/ \E i \in 1 .. n - 1 : frames[i].dir = Above[e] /\ (frames[i].open => e \in frames[i].todo)
  <2> SUFFICES ASSUME NEW e \in Entries, Above[e] \in (Done \cup {Top}) \ blamed', e \notin Done \cup gone
               PROVE  \E i \in 1 .. n - 1 :
                         frames[i].dir = Above[e] /\ (frames[i].open => e \in frames[i].todo)
    OBVIOUS
  <2>1. PICK i \in 1 .. n : frames[i].dir = Above[e] /\ (frames[i].open => e \in frames[i].todo)
    BY <1>1 DEF ReadInv, Waiting
  <2>2. i # n
    <3>1. CASE Frame.dir \in blamed'
      BY <2>1, <3>1 DEF Frame, Last
    <3>2. CASE Frame.open /\ Frame.todo = {}
      BY <2>1, <3>2 DEF Frame, Last
    <3> QED BY <3>1, <3>2
  <2> QED BY <1>2, <2>1, <2>2
<1>5. CASE n = 1 /\ Ends("ok")
  <2>1. \A e \in Entries : Above[e] \in (Done \cup {Top}) \ blamed' => e \in Done \cup gone
    BY <1>4, <1>5
  <2>2. \A e \in Entries \ gone : e \in Done \/ OnTheWay(e) \cap blamed' # {}
    BY <1>3, <2>1, AllReached
  <2>3. \A e \in Entries : e \in Done /\ Matches(e) => e \in ToSet(printed) \/ OnTheWay(e) \cap blamed' # {}
    BY <1>1, WayGoesUp DEF ReadInv
  <2>4. NothingMissedSilently'
    BY <2>2, <2>3 DEF NothingMissedSilently, Matches, ToSet, OnTheWay
  <2> QED BY <1>3, <1>5, <2>4 DEF Ends, WalkInv, ListingIsExact
<1>6. CASE n > 1 /\ frames' = Front(frames) /\ UNCHANGED <<pfind, status>>
  <2>1. /\ frames' \in Seq(Calls) /\ Len(frames') = n - 1
        /\ \A i \in 1 .. n - 1 : frames'[i] = frames[i]
    BY <1>2, <1>6, FrontShorter
  <2>2. CallsInv(Done)'
    <3>1. \A i \in 1 .. n - 1 : i \in 1 .. n
      BY <1>2
    <3> QED BY <1>1, <2>1, <3>1 DEF CallsInv
  <2>3. \A e \in Entries : Above[e] \in (Done \cup {Top}) \ blamed' => e \in Done \cup gone' \/ Waiting(e)'
    BY <1>4, <2>1 DEF Waiting
  <2>4. ReadInv(Done)'
    BY <1>1, <2>3 DEF ReadInv, Matches, ToSet
  <2>5. Walked'
    BY <1>3, <2>2, <2>4 DEF Walked
  <2>6. frames' # <<>>
    BY <1>2, <1>6, <2>1
  <2> QED BY <1>6, <2>5, <2>6 DEF WalkInv
<1>7. /\ n = 1 => Ends("ok")
      /\ n # 1 => frames' = Front(frames) /\ UNCHANGED <<pfind, status>>
  BY DEF Returns
<1> HIDE DEF n
<1>8. n = 1 \/ (n > 1 /\ n # 1)
  BY <1>2
<1> QED BY <1>5, <1>6, <1>7, <1>8

LEMMA MainKeeps ==
    ASSUME Main, printed = <<>>, blamed = {}, gone = {}
    PROVE  WalkInv'
<1>1. printed' = <<>> /\ blamed' = {} /\ gone' = {}
  BY DEF Main
<1>2. NoFalseHit'
  BY <1>1 DEF NoFalseHit, IsInjective
<1>3. CASE /\ Len(argv') = 4 /\ pfind' = "walk" /\ frames' = <<Call(Top)>>
  <2>1. /\ Call(Top) \in Calls /\ Call(Top).dir = Top /\ Call(Top).open = FALSE /\ Call(Top).todo = {}
    BY DEF Call, Calls, Uninitialised
  <2>2. /\ frames' \in Seq(Calls) /\ Len(frames') = 1 /\ frames'[1] = Call(Top) /\ frames' # <<>>
    BY <1>3, <2>1
  <2>3. CallsInv({})'
    BY <2>1, <2>2 DEF CallsInv
  <2>4. \A e \in Entries : Above[e] = Top => Waiting(e)'
    BY <2>1, <2>2 DEF Waiting
  <2>5. ReadInv({})'
    BY <1>1, <2>4 DEF ReadInv
  <2>7. \A e \in Entries : Above[e] \in gone' => e \in gone'
    BY <1>1
  <2>8. printed' \in Seq(Entries)
    BY <1>1
  <2>9. Walked'
    BY <1>2, <1>3, <2>3, <2>5, <2>7, <2>8 DEF Walked
  <2> QED BY <1>3, <2>2, <2>9 DEF WalkInv
<1>4. CASE pfind' = "ended" /\ (status' = "ok" => Len(argv') # 4 \/ ~permverify(argv'[4]))
  <2>1. NothingMissedSilently'
    BY <1>4 DEF NothingMissedSilently
  <2> QED BY <1>2, <1>4, <2>1 DEF WalkInv, ListingIsExact
<1>5. ASSUME NEW how, Ends(how), how = "ok" => Len(argv') # 4 \/ ~permverify(argv'[4])
      PROVE  WalkInv'
  BY <1>4, <1>5 DEF Ends
<1>6. \/ Ends("failed") \/ Ends("killed")
      \/ Ends("ok") /\ Len(argv') = 2
      \/ Ends("ok") /\ ~permverify(argv'[4])
      \/ /\ Len(argv') = 4 /\ pfind' = "walk" /\ frames' = <<Call(Top)>>
  BY DEF Main
<1> QED BY <1>3, <1>5, <1>6

LEMMA OpendirKeeps ==
    ASSUME Walked, frames # <<>>, Opendir
    PROVE  WalkInv'
<1>1. PICK Done : CallsInv(Done) /\ ReadInv(Done)
  BY DEF Walked
<1> DEFINE n == Len(frames)
           f == [Frame EXCEPT !.open = TRUE,
                              !.todo = {e \in Entries \ gone : Above[e] = Frame.dir}]
<1>2. frames \in Seq(Calls)
  BY <1>1 DEF CallsInv
<1>3. n \in Nat /\ n >= 1 /\ n \in 1 .. n
  BY <1>2
<1>4. Frame = frames[n] /\ Frame \in Calls /\ ~Frame.open
  BY <1>2, <1>3 DEF Frame, Last, Opendir
<1>5. /\ f \in Calls /\ f.dir = Frame.dir /\ f.open
      /\ \A e \in Entries : e \in f.todo <=> e \notin gone /\ Above[e] = Frame.dir
  BY <1>4 DEF Calls
<1>6. /\ frames' = [frames EXCEPT ![n] = f]
      /\ UNCHANGED <<argv, gone, printed, blamed, pfind>> /\ pfind = "walk"
  BY DEF Opendir, SetFrame
<1> HIDE DEF f
<1>7. /\ frames' \in Seq(Calls) /\ Len(frames') = n /\ frames'[n] = f
      /\ \A i \in 1 .. n - 1 : frames'[i] = frames[i]
  BY <1>2, <1>5, <1>6, LastReplaced
<1> HIDE DEF n
<1>8. \A i \in 1 .. n : i # n => i \in 1 .. n - 1
  BY <1>3
<1>9. \A i \in 1 .. n : frames'[i].dir = frames[i].dir /\ (i # n => frames'[i] = frames[i])
  BY <1>4, <1>5, <1>7, <1>8
<1>10. \A e \in f.todo : e \in Entries /\ e \notin gone /\ Above[e] = Frame.dir /\ e \notin Done
  <2>1. f.todo \subseteq Entries
    BY <1>5 DEF Calls
  <2>2. \A e \in Done : Above[e] # Frame.dir
    BY <1>1, <1>3, <1>4 DEF CallsInv, n
  <2> QED BY <1>5, <2>1, <2>2
<1>11. CallsInv(Done)'
  <2>1. ASSUME NEW i \in 1 .. n
        PROVE  /\ frames'[i].dir \in Done \cup {Top}
               /\ \A e \in frames'[i].todo : e \notin Done /\ Above[e] = frames'[i].dir
               /\ frames'[i].open \/ \A e \in Done : Above[e] # frames'[i].dir
    <3>1. CASE i = n
      BY <1>1, <1>4, <1>5, <1>7, <1>10, <3>1 DEF CallsInv, n
    <3>2. CASE i # n
      BY <1>1, <1>9, <3>2 DEF CallsInv, n
    <3> QED BY <3>1, <3>2
  <2>2. \A i, j \in 1 .. n : frames'[i].dir = frames'[j].dir => i = j
    BY <1>1, <1>9 DEF CallsInv, n
  <2> QED BY <1>7, <2>1, <2>2 DEF CallsInv
<1>12. ASSUME NEW e \in Entries, Waiting(e), e \notin gone PROVE Waiting(e)'
  <2>1. PICK i \in 1 .. n : frames[i].dir = Above[e] /\ (frames[i].open => e \in frames[i].todo)
    BY <1>12 DEF Waiting, n
  <2>2. frames'[i].dir = Above[e] /\ (frames'[i].open => e \in frames'[i].todo)
    <3>1. CASE i = n
      BY <1>4, <1>5, <1>7, <1>12, <2>1, <3>1
    <3>2. CASE i # n
      BY <1>9, <2>1, <3>2
    <3> QED BY <3>1, <3>2
  <2> QED BY <1>7, <2>2 DEF Waiting
<1>13. ReadInv(Done)'
  BY <1>1, <1>6, <1>12 DEF ReadInv, Matches, ToSet
<1>14. NoFalseHit'
  BY <1>6, BlamingMoreKeeps DEF Walked
<1>15. Walked'
  BY <1>6, <1>11, <1>13, <1>14 DEF Walked
<1>16. frames' # <<>>
  BY <1>3, <1>7
<1> QED BY <1>6, <1>15, <1>16 DEF WalkInv

LEMMA SkipKeeps ==
    ASSUME Walked, frames # <<>>, SkipEntry
    PROVE  WalkInv'
<1>1. PICK Done : CallsInv(Done) /\ ReadInv(Done)
  BY DEF Walked
<1> DEFINE n == Len(frames)
<1>2. frames \in Seq(Calls)
  BY <1>1 DEF CallsInv
<1>3. n \in Nat /\ n >= 1 /\ n \in 1 .. n
  BY <1>2
<1>4. Frame = frames[n] /\ Frame \in Calls /\ Frame.open
  BY <1>2, <1>3 DEF Frame, Last, SkipEntry
<1>5. /\ UNCHANGED <<argv, gone, printed, blamed, pfind>> /\ pfind = "walk"
  BY DEF SkipEntry
<1>6. PICK x \in Frame.todo \cap gone : SetFrame([Frame EXCEPT !.todo = @ \ {x}])
  BY DEF SkipEntry
<1> DEFINE f == [Frame EXCEPT !.todo = @ \ {x}]
<1>7. f \in Calls /\ f.dir = Frame.dir /\ f.open /\ f.todo = Frame.todo \ {x}
  BY <1>4 DEF Calls
<1>8. frames' = [frames EXCEPT ![n] = f]
  BY <1>6 DEF SetFrame
<1> HIDE DEF f
<1>9. /\ frames' \in Seq(Calls) /\ Len(frames') = n /\ frames'[n] = f
      /\ \A i \in 1 .. n - 1 : frames'[i] = frames[i]
  BY <1>2, <1>7, <1>8, LastReplaced
<1> HIDE DEF n
<1>10. \A i \in 1 .. n : /\ frames'[i].dir = frames[i].dir /\ frames'[i].open = frames[i].open
                         /\ frames'[i].todo \subseteq frames[i].todo
                         /\ frames[i].todo \subseteq frames'[i].todo \cup {x}
  <2> SUFFICES ASSUME NEW i \in 1 .. n
               PROVE  /\ frames'[i].dir = frames[i].dir /\ frames'[i].open = frames[i].open
                      /\ frames'[i].todo \subseteq frames[i].todo
                      /\ frames[i].todo \subseteq frames'[i].todo \cup {x}
    OBVIOUS
  <2>1. CASE i = n
    <3>1. f.open = frames[n].open
      BY <1>4, <1>7 DEF Calls
    <3> QED BY <1>4, <1>7, <1>9, <2>1, <3>1
  <2>2. CASE i # n
    BY <1>3, <1>9, <2>2
  <2> QED BY <2>1, <2>2
<1>11. CallsInv(Done)'
  BY <1>1, <1>9, <1>10 DEF CallsInv, n
<1>12. ASSUME NEW e \in Entries, Waiting(e), e \notin gone PROVE Waiting(e)'
  <2>1. PICK i \in 1 .. n : frames[i].dir = Above[e] /\ (frames[i].open => e \in frames[i].todo)
    BY <1>12 DEF Waiting, n
  <2>2. e # x
    BY <1>6, <1>12
  <2>3. frames'[i].dir = Above[e] /\ (frames'[i].open => e \in frames'[i].todo)
    BY <1>10, <2>1, <2>2
  <2> QED BY <1>9, <2>3 DEF Waiting
<1>13. ReadInv(Done)'
  BY <1>1, <1>5, <1>12 DEF ReadInv, Matches, ToSet
<1>14. NoFalseHit'
  BY <1>5, BlamingMoreKeeps DEF Walked
<1>15. Walked'
  BY <1>5, <1>11, <1>13, <1>14 DEF Walked
<1>16. frames' # <<>>
  BY <1>3, <1>9
<1> QED BY <1>5, <1>15, <1>16 DEF WalkInv

LEMMA VanishKeepsWalk ==
    ASSUME Walked, frames # <<>>, Vanish
    PROVE  WalkInv'
<1>1. PICK Done : CallsInv(Done) /\ ReadInv(Done)
  BY DEF Walked
<1>2. PICK v \in Entries \ gone : /\ \A x \in Entries : Above[x] = v => x \in gone
                                  /\ gone' = gone \cup {v}
  BY DEF Vanish
<1>3. UNCHANGED <<argv, pfind, frames, printed, blamed>> /\ pfind = "walk"
  BY DEF Vanish
<1>4. \A e \in Entries : Above[e] \in gone' => e \in gone'
  BY <1>2 DEF Walked
<1>5. CallsInv(Done)'
  BY <1>1, <1>3 DEF CallsInv
<1>6. ReadInv(Done)'
  BY <1>1, <1>2, <1>3 DEF ReadInv, Matches, ToSet, Waiting
<1>7. NoFalseHit'
  BY <1>3, BlamingMoreKeeps DEF Walked
<1>8. Walked'
  BY <1>3, <1>4, <1>5, <1>6, <1>7 DEF Walked
<1> QED BY <1>3, <1>8 DEF WalkInv

\* A read entry joins those that were read: it was in no list of entries to read
\* but the innermost call's, and none below it was read.
LEMMA ReadEntryKeeps ==
    ASSUME Walked, frames # <<>>, ReadEntry
    PROVE  WalkInv'
<1>1. PICK Done : CallsInv(Done) /\ ReadInv(Done)
  BY DEF Walked
<1> DEFINE n == Len(frames)
<1>2. frames \in Seq(Calls)
  BY <1>1 DEF CallsInv
<1>3. n \in Nat /\ n >= 1 /\ n \in 1 .. n
  BY <1>2
<1>4. Frame = frames[n] /\ Frame \in Calls /\ Frame.open
  BY <1>2, <1>3 DEF Frame, Last, ReadEntry
<1>5. /\ UNCHANGED <<argv, gone, shut, pfind>> /\ pfind = "walk"
  BY DEF ReadEntry
<1>e. PICK e \in Frame.todo : \E mode \in Sb(e) :
         /\ blamed' = IF Missing(e) THEN blamed \cup {e} ELSE blamed
         /\ Judged(e, mode)
         /\ LET f == [Frame EXCEPT !.todo = @ \ {e}, !.sb = mode]
            IN IF e \in Dirs THEN frames' = Append(Front(frames), f) \o <<Call(e)>> ELSE SetFrame(f)
  BY DEF ReadEntry
<1>6. PICK mode \in Sb(e) :
         /\ blamed' = IF Missing(e) THEN blamed \cup {e} ELSE blamed
         /\ Judged(e, mode)
         /\ LET f == [Frame EXCEPT !.todo = @ \ {e}, !.sb = mode]
            IN IF e \in Dirs THEN frames' = Append(Front(frames), f) \o <<Call(e)>> ELSE SetFrame(f)
  BY <1>e
<1> DEFINE f == [Frame EXCEPT !.todo = @ \ {e}, !.sb = mode]
           Now == Done \cup {e}
<1>7. /\ e \in Entries /\ e \notin Done /\ Above[e] = Frame.dir /\ Frame.dir \in Done \cup {Top}
      /\ e # Top /\ Above[e] # e
  <2>1. e \in Entries
    BY <1>4 DEF Calls
  <2>2. e \notin Done /\ Above[e] = Frame.dir /\ Frame.dir \in Done \cup {Top}
    BY <1>1, <1>3, <1>4 DEF CallsInv
  <2>3. e # Top
    BY <2>1, TreeAssumption
  <2> QED BY <2>1, <2>2, <2>3
<1>8. mode \in SUBSET Int /\ (~Missing(e) => mode = Mode[e])
  <2>1. \A x \in Entries : Mode[x] \in SUBSET Int
    BY TreeAssumption
  <2>2. Frame.sb \in SUBSET Int
    BY <1>4 DEF Calls
  <2> QED BY <1>6, <1>7, <2>1, <2>2 DEF Sb
<1>9. f \in Calls /\ f.dir = Frame.dir /\ f.open /\ f.todo = Frame.todo \ {e}
  BY <1>4, <1>8 DEF Calls
<1>10. Call(e) \in Calls /\ Call(e).dir = e /\ Call(e).open = FALSE /\ Call(e).todo = {}
  BY <1>7 DEF Call, Calls, Uninitialised
<1>11. \/ e \in Dirs /\ frames' = Append(Front(frames), f) \o <<Call(e)>>
       \/ e \notin Dirs /\ frames' = [frames EXCEPT ![n] = f]
  BY <1>6 DEF SetFrame
<1> HIDE DEF f
<1>12. /\ frames' \in Seq(Calls) /\ frames' # <<>>
       /\ frames'[n] = f /\ \A i \in 1 .. n - 1 : frames'[i] = frames[i]
       /\ \/ e \in Dirs /\ Len(frames') = n + 1 /\ frames'[n + 1] = Call(e)
          \/ e \notin Dirs /\ Len(frames') = n
  <2>1. CASE e \in Dirs /\ frames' = Append(Front(frames), f) \o <<Call(e)>>
    <3>1. /\ frames' \in Seq(Calls) /\ Len(frames') = n + 1 /\ frames'[n] = f /\ frames'[n + 1] = Call(e)
          /\ \A i \in 1 .. n - 1 : frames'[i] = frames[i]
      BY <1>2, <1>9, <1>10, <2>1, LastReplacedAndMore
    <3>2. frames' # <<>>
      BY <1>3, <3>1
    <3> QED BY <2>1, <3>1, <3>2
  <2>2. CASE e \notin Dirs /\ frames' = [frames EXCEPT ![n] = f]
    <3>1. /\ frames' \in Seq(Calls) /\ Len(frames') = n /\ frames'[n] = f
          /\ \A i \in 1 .. n - 1 : frames'[i] = frames[i]
      BY <1>2, <1>9, <2>2, LastReplaced
    <3>2. frames' # <<>>
      BY <1>3, <3>1
    <3> QED BY <2>2, <3>1, <3>2
  <2> QED BY <1>11, <2>1, <2>2
<1> HIDE DEF n
<1>13. \A i \in 1 .. n : /\ frames'[i].dir = frames[i].dir
                         /\ i # n => frames'[i] = frames[i]
  BY <1>3, <1>4, <1>9, <1>12
<1>14. \A i \in 1 .. Len(frames') : i \in 1 .. n \/ (i = n + 1 /\ e \in Dirs /\ frames'[i] = Call(e))
  BY <1>3, <1>12
<1>15. \A i \in 1 .. n : i \in 1 .. Len(frames')
  BY <1>3, <1>12
<1>c. /\ \A i \in 1 .. n :
            /\ frames[i].dir \in Done \cup {Top}
            /\ \A x \in frames[i].todo : x \notin Done /\ Above[x] = frames[i].dir
            /\ frames[i].open \/ \A x \in Done : Above[x] # frames[i].dir
      /\ \A i, j \in 1 .. n : frames[i].dir = frames[j].dir => i = j
  BY <1>1 DEF CallsInv, n
<1>16. CallsInv(Now)'
  <2>1. ASSUME NEW i \in 1 .. n
        PROVE  /\ frames'[i].dir \in Now \cup {Top}
               /\ \A x \in frames'[i].todo : x \notin Now /\ Above[x] = frames'[i].dir
               /\ frames'[i].open \/ \A x \in Now : Above[x] # frames'[i].dir
    <3>1. CASE i = n
      BY <1>3, <1>4, <1>7, <1>9, <1>12, <1>c, <3>1
    <3>2. CASE i # n
      <4>1. frames[i].dir # Frame.dir
        BY <1>3, <1>4, <1>c, <3>2
      <4>2. frames'[i] = frames[i]
        BY <1>13, <3>2
      <4> QED BY <1>7, <1>c, <4>1, <4>2
    <3> QED BY <3>1, <3>2
  <2>2. \A x \in Now : Above[x] # e
    BY <1>1, <1>7 DEF ReadInv
  <2>3. \A i \in 1 .. n : frames'[i].dir # e
    <3>1. \A i \in 1 .. n : frames[i].dir # e
      BY <1>7, <1>c
    <3> QED BY <1>13, <3>1
  <2>4. \A i, j \in 1 .. n : frames'[i].dir = frames'[j].dir => i = j
    BY <1>13, <1>c
  <2>5. \A i, j \in 1 .. Len(frames') : frames'[i].dir = frames'[j].dir => i = j
    BY <1>10, <1>14, <2>3, <2>4
  <2>6. ASSUME NEW i \in 1 .. Len(frames')
        PROVE  /\ frames'[i].dir \in Now \cup {Top}
               /\ \A x \in frames'[i].todo : x \notin Now /\ Above[x] = frames'[i].dir
               /\ frames'[i].open \/ \A x \in Now : Above[x] # frames'[i].dir
    <3>1. CASE i \in 1 .. n
      BY <2>1, <3>1
    <3>2. CASE frames'[i] = Call(e)
      BY <1>10, <2>2, <3>2
    <3> QED BY <1>14, <3>1, <3>2
  <2> QED BY <1>12, <2>5, <2>6 DEF CallsInv
<1>17. \A i \in DOMAIN printed : printed[i] \in Done
  BY <1>1 DEF ReadInv
<1>18. \/ printed' = Append(printed, e) /\ (Matches(e) \/ e \in blamed')
       \/ printed' = printed /\ (Matches(e) => e \in blamed')
  BY <1>6, <1>8 DEF Judged, Matches
<1>19. printed \in Seq(Entries) /\ DOMAIN printed = 1 .. Len(printed) /\ Len(printed) \in Nat
  <2>1. printed \in Seq(Entries)
    BY DEF Walked
  <2> QED BY <2>1
<1>20. blamed \subseteq blamed'
  BY <1>6
<1>21. /\ NoFalseHit' /\ printed' \in Seq(Entries)
       /\ \A i \in DOMAIN printed' : printed'[i] \in Now
       /\ ToSet(printed) \subseteq ToSet(printed')
       /\ Matches(e) => e \in ToSet(printed') \/ e \in blamed'
  <2>1. CASE printed' = printed /\ (Matches(e) => e \in blamed')
    BY <1>5, <1>17, <1>19, <1>20, <2>1, BlamingMoreKeeps DEF Walked
  <2>2. CASE printed' = Append(printed, e) /\ (Matches(e) \/ e \in blamed')
    <3> DEFINE m == Len(printed)
    <3>1. /\ printed' \in Seq(Entries) /\ DOMAIN printed' = 1 .. m + 1 /\ printed'[m + 1] = e
          /\ \A i \in 1 .. m : printed'[i] = printed[i]
      BY <1>7, <1>19, <2>2
    <3> HIDE DEF m
    <3>2. \A i \in 1 .. m + 1 : i \in 1 .. m \/ i = m + 1
      BY <1>19 DEF m
    <3>3. \A i \in 1 .. m : i \in 1 .. m + 1
      BY <1>19 DEF m
    <3>4. m + 1 \in 1 .. m + 1
      BY <1>19 DEF m
    <3>5. IsInjective(printed')
      <4>1. IsInjective(printed)
        BY DEF Walked, NoFalseHit
      <4>2. \A i \in 1 .. m : printed'[i] # e
        BY <1>7, <1>17, <1>19, <3>1 DEF m
      <4> QED BY <1>19, <3>1, <3>2, <4>1, <4>2 DEF IsInjective, m
    <3>6. \A i \in 1 .. m + 1 : Matches(printed'[i]) \/ printed'[i] \in blamed'
      <4>1. \A i \in 1 .. m : Matches(printed[i]) \/ printed[i] \in blamed
        BY <1>19 DEF Walked, NoFalseHit, m
      <4> QED BY <1>5, <1>20, <2>2, <3>1, <3>2, <4>1 DEF Matches
    <3>7. NoFalseHit'
      BY <1>5, <3>1, <3>5, <3>6 DEF NoFalseHit, Matches
    <3>8. \A i \in DOMAIN printed' : printed'[i] \in Now
      BY <1>17, <1>19, <3>1, <3>2 DEF m
    <3>9. ToSet(printed) \subseteq ToSet(printed') /\ e \in ToSet(printed')
      BY <1>19, <3>1, <3>3, <3>4 DEF ToSet, m
    <3> QED BY <3>1, <3>7, <3>8, <3>9
  <2> QED BY <1>18, <2>1, <2>2
<1>22. ASSUME NEW x \in Entries, Above[x] \in (Now \cup {Top}) \ blamed', x \notin Now \cup gone
       PROVE  Waiting(x)'
  <2>1. CASE Above[x] = e
    <3>1. e \in Dirs
      BY <2>1 DEF Dirs
    <3>2. /\ n + 1 \in 1 .. Len(frames') /\ frames'[n + 1] = Call(e)
      BY <1>3, <1>12, <3>1
    <3> QED BY <1>10, <2>1, <3>2 DEF Waiting
  <2>2. CASE Above[x] # e
    <3>1. Above[x] \in (Done \cup {Top}) \ blamed
      BY <1>20, <1>22, <2>2
    <3>2. Waiting(x)
      BY <1>1, <1>22, <3>1 DEF ReadInv
    <3>3. PICK i \in 1 .. n : frames[i].dir = Above[x] /\ (frames[i].open => x \in frames[i].todo)
      BY <3>2 DEF Waiting, n
    <3>4. frames'[i].dir = Above[x] /\ (frames'[i].open => x \in frames'[i].todo)
      <4>1. CASE i = n
        <5>1. x # e /\ x \in Frame.todo /\ frames'[i].dir = Above[x]
          BY <1>4, <1>9, <1>12, <1>22, <3>3, <4>1
        <5> QED BY <1>9, <1>12, <4>1, <5>1
      <4>2. CASE i # n
        BY <1>13, <3>3, <4>2
      <4> QED BY <4>1, <4>2
    <3> QED BY <1>15, <3>4 DEF Waiting
  <2> QED BY <2>1, <2>2
<1>23. ReadInv(Now)'
  <2>1. Now \subseteq Entries /\ \A x \in Now : Above[x] \in Now \cup {Top}
    BY <1>1, <1>7 DEF ReadInv
  <2>2. \A x \in Now : Matches(x) => x \in ToSet(printed') \/ x \in blamed'
    BY <1>1, <1>20, <1>21 DEF ReadInv
  <2>3. \A x \in Now : Matches(x)' => x \in ToSet(printed') \/ x \in blamed'
    BY <1>5, <2>2 DEF Matches
  <2>4. \A x \in Entries : Above[x] \in (Now \cup {Top}) \ blamed' => x \in Now \cup gone' \/ Waiting(x)'
    BY <1>5, <1>22
  <2> HIDE DEF Now
  <2> QED BY <1>21, <2>1, <2>3, <2>4 DEF ReadInv, ToSet
<1>24. Walked'
  BY <1>5, <1>16, <1>21, <1>23 DEF Walked
<1> QED BY <1>5, <1>12, <1>24 DEF WalkInv

-----------------------------------------------------------------------------
(* The listing.                                                            *)

LEMMA PfindStepKeeps ==
    ASSUME WalkInv, PfindStep \/ Vanish
    PROVE  WalkInv'
<1>1. CASE Main
  BY <1>1, MainKeeps DEF Main, WalkInv
<1>2. ASSUME pfind = "walk" PROVE Walked /\ frames # <<>> /\ NoFalseHit
  BY <1>2 DEF WalkInv, Walked
<1>3. CASE RealpathFails
  BY <1>2, <1>3, FailingKeeps DEF RealpathFails
<1>4. CASE OpendirFails
  BY <1>2, <1>4, ReturnsKeep DEF OpendirFails
<1>5. CASE Opendir
  BY <1>2, <1>5, OpendirKeeps DEF Opendir
<1>6. CASE ReadEntry
  BY <1>2, <1>6, ReadEntryKeeps DEF ReadEntry
<1>7. CASE SkipEntry
  BY <1>2, <1>7, SkipKeeps DEF SkipEntry
<1>8. CASE Closedir
  BY <1>2, <1>8, ReturnsKeep DEF Closedir
<1>9. CASE Vanish
  BY <1>2, <1>9, VanishKeepsWalk DEF Vanish
<1> QED BY <1>1, <1>3, <1>4, <1>5, <1>6, <1>7, <1>8, <1>9 DEF PfindStep

LEMMA UntouchedKeeps ==
    ASSUME WalkInv, UNCHANGED walkVars
    PROVE  WalkInv'
<1>1. UNCHANGED <<argv, gone, shut, pfind, frames, printed, blamed, status>>
  BY DEF walkVars
<1>2. NoFalseHit => NoFalseHit'
  BY <1>1, BlamingMoreKeeps
<1>3. ASSUME Walked PROVE Walked'
  <2>1. PICK Done : CallsInv(Done) /\ ReadInv(Done)
    BY <1>3 DEF Walked
  <2>2. CallsInv(Done)'
    BY <1>1, <2>1 DEF CallsInv
  <2>3. ReadInv(Done)'
    BY <1>1, <2>1 DEF ReadInv, Waiting, Matches, ToSet
  <2> QED BY <1>1, <1>2, <1>3, <2>2, <2>3 DEF Walked
<1>4. NothingMissedSilently => NothingMissedSilently'
  BY <1>1 DEF NothingMissedSilently, Matches, ToSet, OnTheWay
<1>5. ListingIsExact => ListingIsExact'
  BY <1>1, <1>2, <1>4 DEF ListingIsExact
<1> QED BY <1>1, <1>3, <1>5 DEF WalkInv

\* What the steps of the three processes mean to pfind.
LEMMA WhatPfindSees ==
    ASSUME SpInv, FinderInv, [Next]_spVars
    PROVE  \/ UNCHANGED walkVars
           \/ pfind = "off" /\ pfind' \in {"off", "main"} /\ UNCHANGED <<gone, printed, blamed>>
           \/ PfindStep \/ Vanish
           \/ Ends("killed") /\ UNCHANGED <<argv, gone, printed, blamed>>
<1>1. CASE Options
  <2>1. proc["finder"] = "none"
    BY <1>1 DEF Options, SpInv, Alone, Piped, ProcTypes
  <2> QED BY <1>1, <2>1 DEF Options, FinderInv
<1>2. CASE FinderExecs
  BY <1>2 DEF FinderExecs, FinderInv, walkVars
<1>3. CASE FinderWrites
  BY <1>3 DEF FinderWrites
<1>4. CASE ForkFinder \/ ForkSorter \/ ParentRedirects \/ ParentReads \/ ParentWaits \/ ParentPrintsTotal
  BY <1>4 DEF ForkFinder, ForkSorter, Fork, ParentRedirects, ParentReads, ParentWaits, ParentPrintsTotal
<1>5. CASE FinderRedirects \/ FinderExits \/ SorterRedirects \/ SorterExecs \/ SorterReads \/ SorterWrites
  BY <1>5 DEF FinderRedirects, FinderExits, SorterRedirects, SorterExecs, SorterReads, SorterWrites
<1>6. CASE FinderWalks \/ Vanish
  BY <1>6 DEF FinderWalks
<1>7. CASE UNCHANGED spVars
  BY <1>7 DEF spVars
<1> QED BY <1>1, <1>2, <1>3, <1>4, <1>5, <1>6, <1>7 DEF Next

LEMMA WalkStep == SpInv /\ FinderInv /\ WalkInv /\ [Next]_spVars => WalkInv'
<1> SUFFICES ASSUME SpInv, FinderInv, WalkInv, [Next]_spVars PROVE WalkInv'
  OBVIOUS
<1>1. CASE UNCHANGED walkVars
  BY <1>1, UntouchedKeeps
<1>2. CASE pfind = "off" /\ pfind' \in {"off", "main"} /\ UNCHANGED <<gone, printed, blamed>>
  BY <1>2 DEF WalkInv
<1>3. CASE PfindStep \/ Vanish
  BY <1>3, PfindStepKeeps
<1>4. CASE Ends("killed") /\ UNCHANGED <<argv, gone, printed, blamed>>
  <2>1. printed = <<>> => NoFalseHit
    BY DEF NoFalseHit, IsInjective
  <2>2. Len(argv) = 4 => NoFalseHit
    BY <2>1 DEF WalkInv, Walked, ListingIsExact
  <2> QED BY <1>4, <2>2, FailingKeeps
<1> QED BY <1>1, <1>2, <1>3, <1>4, WhatPfindSees

LEMMA FinderInvStep == SpInv /\ FinderInv /\ [Next]_spVars => FinderInv'
<1> SUFFICES ASSUME SpInv, FinderInv, [Next]_spVars PROVE FinderInv'
  OBVIOUS
<1> USE Names
<1>1. ASSUME NEW p \in Procs, NEW to, proc' = [proc EXCEPT ![p] = to],
             p = "finder" => to \notin {"none", "setup", "exec"} \/ pfind = "off", pfind' = pfind
      PROVE  FinderInv'
  BY <1>1 DEF FinderInv
<1>2. ASSUME NEW p \in Procs, p # "finder", NEW to, Goes(p, to) \/ \E how : Exits(p, how), pfind' = pfind
      PROVE  FinderInv'
  BY <1>1, <1>2 DEF Goes, Exits
<1>3. ASSUME NEW how, Exits("finder", how)
      PROVE  FinderInv'
  BY <1>3 DEF Exits, FinderInv
<1>4. CASE UNCHANGED <<proc, pfind>>
  BY <1>4 DEF FinderInv
<1>5. CASE Options
  BY <1>2, <1>5 DEF Options
<1>6. CASE ForkFinder \/ ForkSorter
  <2>1. pfind' = pfind
    BY <1>6 DEF ForkFinder, ForkSorter, Fork, walkVars
  <2>2. CASE ForkSorter
    BY <2>1, <2>2 DEF ForkSorter, Fork, FinderInv
  <2>3. CASE ForkFinder
    <3>1. proc["parent"] = "fork finder"
      BY <2>3 DEF ForkFinder, Fork
    <3>2. proc["finder"] = "none"
      BY <3>1 DEF SpInv, Alone, Piped, ProcTypes
    <3>3. DOMAIN proc' = DOMAIN proc
      BY <2>3 DEF ForkFinder, Fork
    <3> QED BY <2>1, <3>2, <3>3 DEF FinderInv
  <2> QED BY <1>6, <2>2, <2>3
<1>7. CASE ParentRedirects
  BY <1>2, <1>7 DEF ParentRedirects, Redirects, walkVars
<1>8. CASE ParentReads
  BY <1>2, <1>4, <1>8 DEF ParentReads, walkVars
<1>9. CASE ParentWaits
  <2>1. ASSUME Goes("finder", "reaped"), pfind' = pfind PROVE FinderInv'
    BY <1>1, <2>1 DEF Goes
  <2> QED BY <1>2, <1>9, <2>1 DEF ParentWaits, Children, walkVars
<1>10. CASE ParentPrintsTotal
  BY <1>2, <1>10 DEF ParentPrintsTotal, walkVars
<1>11. CASE FinderRedirects
  BY <1>3, <1>11 DEF FinderRedirects, Redirects, Goes, FinderInv, walkVars
<1>12. CASE FinderExecs
  BY <1>3, <1>12 DEF FinderExecs, Goes, FinderInv
<1>13. CASE FinderWalks
  BY <1>13 DEF FinderWalks, pipeVars, FinderInv
<1>14. CASE FinderWrites
  BY <1>3, <1>4, <1>14 DEF FinderWrites, walkVars
<1>15. CASE FinderExits
  BY <1>3, <1>15 DEF FinderExits
<1>16. CASE SorterRedirects
  BY <1>2, <1>16 DEF SorterRedirects, Redirects, walkVars
<1>17. CASE SorterExecs
  BY <1>2, <1>17 DEF SorterExecs, walkVars
<1>18. CASE SorterReads
  BY <1>2, <1>4, <1>18 DEF SorterReads, walkVars
<1>19. CASE SorterWrites
  BY <1>2, <1>4, <1>19 DEF SorterWrites, walkVars
<1>20. CASE Vanish /\ UNCHANGED pipeVars
  BY <1>20, <1>4 DEF Vanish, pipeVars
<1>21. CASE UNCHANGED spVars
  BY <1>4, <1>21 DEF spVars, walkVars, pipeVars
<1> QED BY <1>5, <1>6, <1>7, <1>8, <1>9, <1>10, <1>11, <1>12, <1>13, <1>14, <1>15, <1>16,
           <1>17, <1>18, <1>19, <1>20, <1>21 DEF Next

\* Over a tree that loses entries during the walk: an entry is listed once, and
\* only with the permissions asked for or with an error that names it; and a
\* search that reports success missed no entry that is still there without an
\* error for it or for a directory above it (permission.c:75-135) - for every
\* tree, every command line, and whichever directories cannot be opened.
THEOREM ListingAlwaysExact ==
    ASSUME NEW CONSTANT words, NEW CONSTANT closed
    PROVE  InitWith(words, closed) /\ [][Next]_spVars => []ListingIsExact
<1>1. InitWith(words, closed) => SpInv
  BY PipedInitially
<1>2. InitWith(words, closed) => FinderInv
  BY DEF InitWith, FinderInv, Procs
<1>3. InitWith(words, closed) => WalkInv
  BY DEF InitWith, WalkInv
<1>4. WalkInv => ListingIsExact
  <2>1. printed = <<>> => NoFalseHit
    BY DEF NoFalseHit, IsInjective
  <2>2. pfind # "ended" => NothingMissedSilently
    BY DEF NothingMissedSilently
  <2> QED BY <2>1, <2>2 DEF WalkInv, Walked, ListingIsExact
<1> QED BY <1>1, <1>2, <1>3, <1>4, SpInvStep, FinderInvStep, WalkStep, PTL

-----------------------------------------------------------------------------
(* The command line.                                                       *)

\* The first words of the command line, one after the other.
After(h, words, m) ==
    h = [n \in 0..m |-> IF n = 0 THEN GetoptStart ELSE GetoptWord(h[n - 1], words[n])]

\* With the states after m words there are those after one more.
LEMMA OneWordMore ==
    ASSUME NEW words, NEW m \in Nat, \E h : After(h, words, m)
    PROVE  \E h : After(h, words, m + 1)
<1>1. PICK h : After(h, words, m)
  OBVIOUS
<1> DEFINE nth(g, n) == GetoptWord(g, words[n])
<1>2. \A f, k : After(f, words, k) <=> f = [n \in 0..k |-> IF n = 0 THEN GetoptStart ELSE nth(f[n - 1], n)]
  BY DEF After
<1> HIDE DEF nth
<1>3. \A k \in 0..m : h[k] = IF k = 0 THEN GetoptStart ELSE nth(h[k - 1], k)
  BY <1>1, <1>2
<1> DEFINE f == [k \in 0..m + 1 |-> IF k = m + 1 THEN nth(h[k - 1], k) ELSE h[k]]
<1>4. \A k \in 0..m + 1 : f[k] = IF k = 0 THEN GetoptStart ELSE nth(f[k - 1], k)
  <2> TAKE k \in 0..m + 1
  <2>1. CASE k = 0
    BY <1>3, <2>1
  <2>2. CASE k # 0
    <3>1. k - 1 \in 0..m /\ k - 1 # m + 1 /\ (k # m + 1 => k \in 0..m)
      BY <2>2
    <3>2. f[k - 1] = h[k - 1]
      BY <3>1
    <3>3. f[k] = nth(h[k - 1], k)
      BY <1>3, <2>2, <3>1
    <3> QED BY <2>2, <3>2, <3>3
  <2> QED BY <2>1, <2>2
<1>5. f = [k \in 0..m + 1 |-> f[k]]
  OBVIOUS
<1> HIDE DEF f
<1>6. f = [k \in 0..m + 1 |-> IF k = 0 THEN GetoptStart ELSE nth(f[k - 1], k)]
  BY <1>4, <1>5
<1> QED BY <1>2, <1>6

\* getopt() takes up to four words one after the other.
LEMMA GetoptUnfolds ==
    ASSUME NEW words, Len(words) \in 0..4
    PROVE  \E h : /\ h[0] = GetoptStart /\ Getopt(words) = h[Len(words)]
                  /\ \A n \in 1..Len(words) : h[n] = GetoptWord(h[n - 1], words[n])
<1>1. \E h : After(h, words, 0)
  <2>1. \A n \in 0..0 : n = 0
    OBVIOUS
  <2> DEFINE h == [n \in 0..0 |-> GetoptStart]
  <2>2. h = [n \in 0..0 |-> IF n = 0 THEN GetoptStart ELSE GetoptWord(h[n - 1], words[n])]
    BY <2>1
  <2> QED BY <2>2 DEF After
<1>2. \E h : After(h, words, 1)
  BY <1>1, OneWordMore
<1>3. \E h : After(h, words, 2)
  BY <1>2, OneWordMore
<1>4. \E h : After(h, words, 3)
  BY <1>3, OneWordMore
<1>5. \E h : After(h, words, 4)
  BY <1>4, OneWordMore
<1>6. \E h : After(h, words, Len(words))
  <2>1. Len(words) = 0 \/ Len(words) = 1 \/ Len(words) = 2 \/ Len(words) = 3 \/ Len(words) = 4
    OBVIOUS
  <2> QED BY <1>1, <1>2, <1>3, <1>4, <1>5, <2>1
<1> DEFINE h == CHOOSE g : After(g, words, Len(words))
<1>7. Getopt(words) = h[Len(words)]
  BY DEF Getopt, After
<1>8. After(h, words, Len(words))
  BY <1>6
<1> HIDE DEF h
<1>9. h[0] = GetoptStart /\ \A n \in 1..Len(words) : h[n] = GetoptWord(h[n - 1], words[n])
  <2> DEFINE nth(g, n) == GetoptWord(g, words[n])
  <2>1. h = [n \in 0..Len(words) |-> IF n = 0 THEN GetoptStart ELSE nth(h[n - 1], n)]
    BY <1>8 DEF After
  <2> HIDE DEF nth
  <2>2. h[0] = GetoptStart /\ \A n \in 1..Len(words) : h[n] = nth(h[n - 1], n)
    BY <2>1
  <2> QED BY <2>2 DEF nth
<1> QED BY <1>7, <1>9

\* The states of getopt(), and the words it has passed.
Getopts(W) ==
    [flag : Nat, wants : 0..2, stop : BOOLEAN, plain : BOOLEAN, options : Seq(W), others : Seq(W)]
WordCount(g) == Len(g.options) + Len(g.others)

\* A -d or -p with its argument attached.
Attached(word) == Len(word) > 2 /\ SubSeq(word, 1, 2) \in {Dash("d"), Dash("p")}

\* What becomes of a word: an argument, a plain word or "--", or an option.
Taken(g, word, h) ==
    \/ /\ g.wants > 0 /\ h.flag = g.flag + g.wants /\ h.wants = 0
       /\ h.options = Append(g.options, word) /\ h.others = g.others
    \/ g.wants = 0 /\ h.flag = g.flag /\ h.wants = 0
    \/ /\ g.wants = 0 /\ h.flag = g.flag
       /\ ((h.wants = 1 /\ word = Dash("d")) \/ (h.wants = 2 /\ word = Dash("p")))
       /\ h.options = Append(g.options, word) /\ h.others = g.others

\* One call of getopt() drops no word, and what it does with it.
LEMMA WordTaken ==
    ASSUME NEW S, NEW W, NEW g \in Getopts(W), NEW word \in W, word \in Seq(S),
           NEW h, h = GetoptWord(g, word)
    PROVE  /\ h \in Getopts(W)
           /\ WordCount(h) <= WordCount(g) + 1
           /\ ~h.stop /\ ~Attached(word) => ~g.stop /\ Taken(g, word, h)
<1>1. /\ g.flag \in Nat /\ g.wants \in 0..2 /\ g.stop \in BOOLEAN /\ g.plain \in BOOLEAN
      /\ g.options \in Seq(W) /\ g.others \in Seq(W)
  BY DEF Getopts
<1> DEFINE o == Append(g.options, word)
           p == Append(g.others, word)
<1>2. /\ o \in Seq(W) /\ Len(o) = Len(g.options) + 1
      /\ p \in Seq(W) /\ Len(p) = Len(g.others) + 1
  BY <1>1, AppendProperties
<1>3. Len(g.options) \in Nat /\ Len(g.others) \in Nat
  BY <1>1
<1> HIDE DEF o, p
<1>4. \A q \in Getopts(W) :
          \/ q.options \in {g.options, o} /\ q.others = g.others
          \/ q.options = g.options /\ q.others = p
          => WordCount(q) <= WordCount(g) + 1
  <2> SUFFICES ASSUME NEW q,
                      \/ q.options = g.options /\ q.others = g.others
                      \/ q.options = o /\ q.others = g.others
                      \/ q.options = g.options /\ q.others = p
               PROVE  Len(q.options) + Len(q.others) <= Len(g.options) + Len(g.others) + 1
    BY DEF WordCount
  <2> DEFINE a == Len(g.options)
             b == Len(g.others)
             c == Len(q.options)
             d == Len(q.others)
  <2>1. (c = a /\ d = b) \/ (c = Len(o) /\ d = b) \/ (c = a /\ d = Len(p))
    OBVIOUS
  <2>2. a \in Nat /\ b \in Nat /\ Len(o) = a + 1 /\ Len(p) = b + 1
    BY <1>2, <1>3
  <2>3. SUFFICES c + d <= a + b + 1
    OBVIOUS
  <2> HIDE DEF a, b, c, d
  <2>4. (c = a /\ d = b) \/ (c = a + 1 /\ d = b) \/ (c = a /\ d = b + 1)
    BY <2>1, <2>2
  <2>5. a \in Nat /\ b \in Nat
    BY <2>2
  <2> QED BY <2>4, <2>5
<1>5. CASE g.stop
  <2>1. h = g
    BY <1>5 DEF GetoptWord
  <2>2. WordCount(h) <= WordCount(g) + 1
    BY <1>4, <2>1
  <2> QED BY <1>5, <2>1, <2>2
<1>6. CASE ~g.stop /\ g.wants > 0
  <2> DEFINE sum == g.flag + g.wants
  <2>0. h = [g EXCEPT !.flag = @ + g.wants, !.wants = 0, !.options = o]
    BY <1>6 DEF GetoptWord, o
  <2>1. h = [g EXCEPT !.flag = sum, !.wants = 0, !.options = o]
    BY <2>0
  <2>2. sum \in Nat
    BY <1>1
  <2> HIDE DEF sum
  <2> DEFINE none == 0
  <2>7. none \in 0..2 /\ h = [g EXCEPT !.flag = sum, !.wants = none, !.options = o]
    BY <2>1
  <2> HIDE DEF none
  <2>3. h \in Getopts(W)
    BY <1>2, <2>2, <2>7 DEF Getopts
  <2>4. h.flag = sum /\ h.wants = 0 /\ h.options = o /\ h.others = g.others
    BY <2>1 DEF Getopts
  <2>5. WordCount(h) <= WordCount(g) + 1
    BY <1>4, <2>3, <2>4
  <2>6. Taken(g, word, h)
    BY <1>6, <2>4 DEF Taken, o, sum
  <2> QED BY <1>6, <2>3, <2>5, <2>6
<1>7. CASE ~g.stop /\ g.wants = 0 /\ (g.plain \/ Len(word) < 2 \/ word[1] # "-")
  <2>1. h = [g EXCEPT !.others = p]
    BY <1>7 DEF GetoptWord, p
  <2>2. h \in Getopts(W)
    BY <1>1, <1>2, <2>1 DEF Getopts
  <2>3. h.flag = g.flag /\ h.wants = g.wants /\ h.options = g.options /\ h.others = p
    BY <2>1 DEF Getopts
  <2>4. WordCount(h) <= WordCount(g) + 1
    BY <1>4, <2>2, <2>3
  <2>5. Taken(g, word, h)
    BY <1>7, <2>3 DEF Taken
  <2> QED BY <1>7, <2>2, <2>4, <2>5
<1>8. CASE ~g.stop /\ g.wants = 0 /\ ~(g.plain \/ Len(word) < 2 \/ word[1] # "-")
  <2>1. h = IF word = Dash("-") THEN [g EXCEPT !.plain = TRUE, !.options = o]
            ELSE IF word[2] \notin DOMAIN Worth THEN [g EXCEPT !.stop = TRUE]
            ELSE IF Len(word) = 2
                 THEN [g EXCEPT !.wants = Worth[word[2]], !.options = o]
                 ELSE [g EXCEPT !.flag = @ + Worth[word[2]], !.options = o]
    BY <1>8 DEF GetoptWord, o
  <2>2. Len(word) \in Nat /\ Len(word) >= 2 /\ word[1] = "-"
    BY <1>8
  <2>3. CASE word = Dash("-")
    <3>1. h = [g EXCEPT !.plain = TRUE, !.options = o]
      BY <2>1, <2>3
    <3>2. h \in Getopts(W)
      BY <1>1, <1>2, <3>1 DEF Getopts
    <3>3. h.flag = g.flag /\ h.wants = g.wants /\ h.options = o /\ h.others = g.others
      BY <3>1 DEF Getopts
    <3>4. WordCount(h) <= WordCount(g) + 1
      BY <1>4, <3>2, <3>3
    <3>5. Taken(g, word, h)
      BY <1>8, <3>3 DEF Taken
    <3> QED BY <1>8, <3>2, <3>4, <3>5
  <2>4. CASE word # Dash("-") /\ word[2] \notin DOMAIN Worth
    <3>1. h = [g EXCEPT !.stop = TRUE]
      BY <2>1, <2>4
    <3>2. h \in Getopts(W)
      BY <1>1, <3>1 DEF Getopts
    <3>3. h.stop /\ h.options = g.options /\ h.others = g.others
      BY <3>1 DEF Getopts
    <3>4. WordCount(h) <= WordCount(g) + 1
      BY <1>4, <3>2, <3>3
    <3> QED BY <3>2, <3>3, <3>4
  <2>5. ASSUME word[2] \in DOMAIN Worth
        PROVE  \/ word[2] = "d" /\ Worth[word[2]] = 1
               \/ word[2] = "p" /\ Worth[word[2]] = 2
    BY <2>5 DEF Worth
  <2> DEFINE worth == Worth[word[2]]
  <2>6. CASE word # Dash("-") /\ word[2] \in DOMAIN Worth /\ Len(word) = 2
    <3>1. h = [g EXCEPT !.wants = worth, !.options = o]
      BY <2>1, <2>6
    <3>2. word = <<"-", word[2]>>
      BY <2>2, <2>6
    <3>3. (worth = 1 /\ word = Dash("d")) \/ (worth = 2 /\ word = Dash("p"))
      BY <2>5, <2>6, <3>2 DEF Dash
    <3> HIDE DEF worth
    <3>4. worth \in 0..2
      BY <3>3
    <3>5. h \in Getopts(W)
      BY <1>1, <1>2, <3>1, <3>4 DEF Getopts
    <3>6. h.flag = g.flag /\ h.wants = worth /\ h.options = o /\ h.others = g.others
      BY <3>1 DEF Getopts
    <3>7. WordCount(h) <= WordCount(g) + 1
      BY <1>4, <3>5, <3>6
    <3>8. Taken(g, word, h)
      BY <1>8, <3>3, <3>6 DEF Taken, o
    <3> QED BY <1>8, <3>5, <3>7, <3>8
  <2>7. CASE word # Dash("-") /\ word[2] \in DOMAIN Worth /\ Len(word) # 2
    <3> DEFINE sum == g.flag + worth
    <3>1. h = [g EXCEPT !.flag = sum, !.options = o]
      BY <2>1, <2>7
    <3>2. sum \in Nat
      BY <1>1, <2>5, <2>7
    <3>3. SubSeq(word, 1, 2) = <<word[1], word[2]>>
      <4>1. \A c \in 1..2 : word[c] \in S
        BY <2>2
      <4> DEFINE first == SubSeq(word, 1, 2)
      <4>2. /\ first \in Seq(S) /\ Len(first) = IF 1 <= 2 THEN 2 - 1 + 1 ELSE 0
            /\ \A c \in 1..2 - 1 + 1 : first[c] = word[1 + c - 1]
        BY <4>1, SubSeqProperties
      <4> HIDE DEF first
      <4>3. first \in Seq(S) /\ Len(first) = 2 /\ first[1] = word[1] /\ first[2] = word[2]
        BY <4>2
      <4>4. first = <<first[1], first[2]>>
        BY <4>3
      <4> QED BY <4>3, <4>4 DEF first
    <3>4. Attached(word)
      <4>1. SubSeq(word, 1, 2) = Dash(word[2])
        BY <2>2, <3>3 DEF Dash
      <4>2. \A n \in Nat : n >= 2 /\ n # 2 => n > 2
        OBVIOUS
      <4>3. Len(word) > 2
        BY <2>2, <2>7, <4>2
      <4> QED BY <2>5, <2>7, <4>1, <4>3 DEF Attached
    <3> HIDE DEF sum
    <3>5. h \in Getopts(W)
      BY <1>1, <1>2, <3>1, <3>2 DEF Getopts
    <3>6. h.options = o /\ h.others = g.others
      BY <3>1 DEF Getopts
    <3>7. WordCount(h) <= WordCount(g) + 1
      BY <1>4, <3>5, <3>6
    <3> QED BY <3>4, <3>5, <3>7
  <2> QED BY <2>3, <2>4, <2>6, <2>7
<1> QED BY <1>1, <1>5, <1>6, <1>7, <1>8

\* getopt() starts with nothing.
LEMMA StartIs ==
    ASSUME NEW W
    PROVE  GetoptStart \in Getopts(W) /\ WordCount(GetoptStart) = 0
<1>1. GetoptStart \in Getopts(W)
  BY EmptySeq DEF GetoptStart, Getopts
<1>2. Len(<<>>) = 0
  OBVIOUS
<1> QED BY <1>1, <1>2 DEF GetoptStart, WordCount

\* What getopt() keeps of at most four words, and how many.
LEMMA GetoptKeeps ==
    ASSUME NEW S, NEW words \in Seq(Seq(S)), Len(words) \in 0..4, NEW h,
           h[0] = GetoptStart,
           \A n \in 1..Len(words) : h[n] = GetoptWord(h[n - 1], words[n])
    PROVE  /\ \A n \in 0..Len(words) : h[n] \in Getopts(Seq(S)) /\ WordCount(h[n]) <= n
           /\ \A n \in 1..Len(words) :
                  ~h[n].stop /\ ~Attached(words[n]) => ~h[n - 1].stop /\ Taken(h[n - 1], words[n], h[n])
<1> DEFINE W == Seq(S)
           Kept(n) == h[n] \in Getopts(W) /\ WordCount(h[n]) <= n
           Step(n) == ~h[n].stop /\ ~Attached(words[n])
                         => ~h[n - 1].stop /\ Taken(h[n - 1], words[n], h[n])
<1>1. ASSUME NEW n \in 1..Len(words), Kept(n - 1)
      PROVE  Kept(n) /\ Step(n)
  <2>1. words[n] \in Seq(S) /\ words[n] \in W /\ h[n] = GetoptWord(h[n - 1], words[n])
    OBVIOUS
  <2>2. h[n - 1] \in Getopts(W) /\ WordCount(h[n - 1]) <= n - 1
    BY <1>1
  <2>3. /\ h[n] \in Getopts(W)
        /\ WordCount(h[n]) <= WordCount(h[n - 1]) + 1
        /\ Step(n)
    <3> HIDE DEF W
    <3> DEFINE g == h[n - 1]
               w == words[n]
               f == h[n]
    <3>1. g \in Getopts(W) /\ w \in W /\ w \in Seq(S) /\ f = GetoptWord(g, w)
      BY <2>1, <2>2
    <3> HIDE DEF g, w, f
    <3>2. /\ f \in Getopts(W)
          /\ WordCount(f) <= WordCount(g) + 1
          /\ ~f.stop /\ ~Attached(w) => ~g.stop /\ Taken(g, w, f)
      BY <3>1, WordTaken
    <3> QED BY <3>2 DEF g, w, f
  <2>4. WordCount(h[n - 1]) \in Nat /\ WordCount(h[n]) \in Nat
    <3>1. \A g \in Getopts(W) : Len(g.options) \in Nat /\ Len(g.others) \in Nat
      BY DEF Getopts
    <3>2. ASSUME NEW g \in Getopts(W) PROVE WordCount(g) \in Nat
      <4>1. Len(g.options) \in Nat /\ Len(g.others) \in Nat
        BY <3>1
      <4>2. \A a, b \in Nat : a + b \in Nat
        OBVIOUS
      <4> QED BY <4>1, <4>2 DEF WordCount
    <3> QED BY <2>2, <2>3, <3>2
  <2>5. WordCount(h[n]) <= n
    <3> DEFINE a == WordCount(h[n])
               b == WordCount(h[n - 1])
    <3>1. a \in Nat /\ b \in Nat /\ a <= b + 1 /\ b <= n - 1
      BY <2>2, <2>3, <2>4
    <3> HIDE DEF a, b
    <3>2. a <= n
      BY <3>1
    <3> QED BY <3>2 DEF a
  <2> QED BY <2>3, <2>5
<1>2. Kept(0)
  BY StartIs
<1> HIDE DEF Kept, Step
<1>3. Len(words) \in 0..4
  OBVIOUS
<1>4. \A n \in 1..Len(words) : Kept(n - 1) => Kept(n) /\ Step(n)
  BY <1>1
<1>5. Len(words) >= 1 => Kept(1) /\ Step(1)
  BY <1>2, <1>3, <1>4
<1>6. Len(words) >= 2 => Kept(2) /\ Step(2)
  BY <1>3, <1>4, <1>5
<1>7. Len(words) >= 3 => Kept(3) /\ Step(3)
  BY <1>3, <1>4, <1>6
<1>8. Len(words) >= 4 => Kept(4) /\ Step(4)
  BY <1>3, <1>4, <1>7
<1>9. (\A n \in 0..Len(words) : Kept(n)) /\ \A n \in 1..Len(words) : Step(n)
  <2>1. \A n \in 0..Len(words) :
            \/ n = 0
            \/ (n = 1 /\ Len(words) >= 1) \/ (n = 2 /\ Len(words) >= 2)
            \/ (n = 3 /\ Len(words) >= 3) \/ (n = 4 /\ Len(words) >= 4)
    <3> DEFINE m == Len(words)
    <3>1. m \in 0..4
      BY <1>3
    <3> HIDE DEF m
    <3>2. \A n \in 0..m : \/ n = 0
                          \/ (n = 1 /\ m >= 1) \/ (n = 2 /\ m >= 2)
                          \/ (n = 3 /\ m >= 3) \/ (n = 4 /\ m >= 4)
      BY <3>1
    <3> QED BY <3>2 DEF m
  <2>2. \A n \in 1..Len(words) : n \in 0..Len(words) /\ n # 0
    BY <1>3
  <2> QED BY <1>2, <1>5, <1>6, <1>7, <1>8, <2>1, <2>2
<1> QED BY <1>9 DEF Kept, Step

\* The words of at most four are permuted, those main() gets to see.
LEMMA PermutedIs ==
    ASSUME NEW S, NEW words \in Seq(Seq(S)), Len(words) \in 0..4
    PROVE  Permuted(words) \in Seq(Seq(S)) /\ Len(Permuted(words)) <= Len(words)
<1>1. PICK h : /\ h[0] = GetoptStart /\ Getopt(words) = h[Len(words)]
               /\ \A n \in 1..Len(words) : h[n] = GetoptWord(h[n - 1], words[n])
  BY GetoptUnfolds
<1> DEFINE g == Getopt(words)
<1>2. g \in Getopts(Seq(S)) /\ WordCount(g) <= Len(words)
  <2>1. \A n \in 0..Len(words) : h[n] \in Getopts(Seq(S)) /\ WordCount(h[n]) <= n
    BY <1>1, GetoptKeeps
  <2>2. Len(words) \in 0..Len(words)
    OBVIOUS
  <2> QED BY <1>1, <2>1, <2>2
<1> DEFINE W == Seq(S)
<1> HIDE DEF g, W
<1>3. g.options \in Seq(W) /\ g.others \in Seq(W)
  BY <1>2 DEF Getopts, W
<1>4. /\ g.options \o g.others \in Seq(W)
      /\ Len(g.options \o g.others) = Len(g.options) + Len(g.others)
  BY <1>3, ConcatProperties
<1> QED BY <1>2, <1>4 DEF Permuted, WordCount, g, W

\* A sequence with an element more.
LEMMA OneMore ==
    ASSUME NEW W, NEW a \in Seq(W), NEW e \in W, NEW b, b = Append(a, e), NEW m \in Nat, Len(a) = m
    PROVE  b \in Seq(W) /\ Len(b) = m + 1 /\ b[m + 1] = e /\ \A n \in 1..m : b[n] = a[n]
BY AppendProperties

\* Two options have to get an argument each, so that four words are option,
\* argument, option and argument; one alone is worth 1 or 2.
LEMMA OptionsInOrder ==
    ASSUME NEW W, NEW w \in Seq(W), Len(w) = 4,
           NEW g, g = GetoptStart,
           NEW g1 \in Getopts(W), NEW g2 \in Getopts(W), NEW g3 \in Getopts(W), NEW g4 \in Getopts(W),
           Taken(g, w[1], g1), Taken(g1, w[2], g2), Taken(g2, w[3], g3), Taken(g3, w[4], g4),
           g4.flag \notin {0, 1, 2}
    PROVE  /\ g4.options = w /\ g4.others = <<>>
           /\ w[1] \in {Dash("d"), Dash("p")}
           /\ w[1] = Dash("d") => w[3] = Dash("p")
<1>1. g.flag = 0 /\ g.wants = 0 /\ g.options = <<>> /\ g.others = <<>>
  BY DEF GetoptStart
<1>2. \A f \in {g1, g2, g3, g4} : f.flag \in Nat /\ f.wants \in 0..2
  BY DEF Getopts
<1> DEFINE One == /\ g1.flag = 0 /\ g1.options = Append(<<>>, w[1]) /\ g1.others = <<>>
                  /\ (g1.wants = 1 /\ w[1] = Dash("d")) \/ (g1.wants = 2 /\ w[1] = Dash("p"))
           Two == /\ g2.flag = g1.wants /\ g2.wants = 0
                  /\ g2.options = Append(g1.options, w[2]) /\ g2.others = <<>>
           Three == /\ g3.flag = g2.flag /\ g3.options = Append(g2.options, w[3]) /\ g3.others = <<>>
                    /\ (g3.wants = 1 /\ w[3] = Dash("d")) \/ (g3.wants = 2 /\ w[3] = Dash("p"))
           Four == /\ g4.flag = g3.flag + g3.wants
                   /\ g4.options = Append(g3.options, w[4]) /\ g4.others = <<>>
<1>3. One \/ (g1.flag = 0 /\ g1.wants = 0)
  BY <1>1 DEF Taken
<1>4. (One /\ Two) \/ g2.flag = 0
  BY <1>2, <1>3 DEF Taken
<1>5. g2.flag \in 0..2 /\ g2.flag + 0 = g2.flag
  <2>1. CASE One /\ Two
    BY <1>2, <2>1
  <2> QED BY <1>2, <1>4, <2>1
<1>6. (One /\ Two /\ Three) \/ (g3.flag \in 0..2 /\ g3.wants = 0) \/ g3.flag = 0
  <2>1. CASE One /\ Two
    BY <1>2, <1>5, <2>1 DEF Taken
  <2>2. CASE g2.flag = 0
    <3>1. CASE g2.wants > 0 /\ g3.flag = g2.flag + g2.wants /\ g3.wants = 0
      BY <1>2, <2>2, <3>1
    <3>2. CASE g3.flag = g2.flag
      BY <2>2, <3>2
    <3> QED BY <3>1, <3>2 DEF Taken
  <2> QED BY <1>4, <2>1, <2>2
<1>7. One /\ Two /\ Three /\ Four
  <2>1. CASE g3.wants > 0 /\ g4.flag = g3.flag + g3.wants
    <3>1. One /\ Two /\ Three
      BY <1>2, <1>6, <2>1
    <3>2. ~(g3.wants = 0)
      BY <2>1
    <3> QED BY <3>1, <3>2 DEF Taken
  <2>2. CASE g4.flag = g3.flag
    <3>1. g3.flag \in 0..2
      <4>1. CASE One /\ Two /\ Three
        BY <1>5, <4>1
      <4> QED BY <1>6, <4>1
    <3>2. g3.flag \in {0, 1, 2}
      BY <3>1
    <3> QED BY <2>2, <3>2
  <2> QED BY <2>1, <2>2 DEF Taken
<1>8. g4.options = w /\ g4.others = <<>>
  <2>1. \A n \in 1..4 : w[n] \in W
    BY ElementOfSeq
  <2> DEFINE o1 == Append(<<>>, w[1])
             o2 == Append(o1, w[2])
             o3 == Append(o2, w[3])
             o4 == Append(o3, w[4])
  <2>2. g4.options = o4
    BY <1>7
  <2>3. <<>> \in Seq(W) /\ Len(<<>>) = 0
    BY EmptySeq
  <2>a. /\ o1 = Append(<<>>, w[1]) /\ o2 = Append(o1, w[2])
        /\ o3 = Append(o2, w[3]) /\ o4 = Append(o3, w[4])
    OBVIOUS
  <2> HIDE DEF o1, o2, o3, o4
  <2>b. /\ w[1] \in W /\ w[2] \in W /\ w[3] \in W /\ w[4] \in W
        /\ 1 \in 1..1 /\ 1 \in 1..2 /\ 2 \in 1..2 /\ 1 \in 1..3 /\ 2 \in 1..3 /\ 3 \in 1..3
    BY <2>1
  <2>4. o1 \in Seq(W) /\ Len(o1) = 1 /\ o1[1] = w[1]
    <3>1. o1 \in Seq(W) /\ Len(o1) = 0 + 1 /\ o1[0 + 1] = w[1]
      BY <2>3, <2>a, <2>b, OneMore
    <3> QED BY <3>1
  <2>5. o2 \in Seq(W) /\ Len(o2) = 2 /\ o2[1] = w[1] /\ o2[2] = w[2]
    <3>1. o2 \in Seq(W) /\ Len(o2) = 1 + 1 /\ o2[1 + 1] = w[2] /\ \A n \in 1..1 : o2[n] = o1[n]
      BY <2>4, <2>a, <2>b, OneMore
    <3> QED BY <2>4, <2>b, <3>1
  <2>6. o3 \in Seq(W) /\ Len(o3) = 3 /\ o3[1] = w[1] /\ o3[2] = w[2] /\ o3[3] = w[3]
    <3>1. o3 \in Seq(W) /\ Len(o3) = 2 + 1 /\ o3[2 + 1] = w[3] /\ \A n \in 1..2 : o3[n] = o2[n]
      BY <2>5, <2>a, <2>b, OneMore
    <3> QED BY <2>5, <2>b, <3>1
  <2>7. o4 \in Seq(W) /\ Len(o4) = 4 /\ o4[1] = w[1] /\ o4[2] = w[2] /\ o4[3] = w[3] /\ o4[4] = w[4]
    <3>1. o4 \in Seq(W) /\ Len(o4) = 3 + 1 /\ o4[3 + 1] = w[4] /\ \A n \in 1..3 : o4[n] = o3[n]
      BY <2>6, <2>a, <2>b, OneMore
    <3> QED BY <2>6, <2>b, <3>1
  <2>8. \A n \in 1..4 : o4[n] = w[n]
    <3>1. \A n \in 1..4 : n = 1 \/ n = 2 \/ n = 3 \/ n = 4
      OBVIOUS
    <3> QED BY <2>7, <3>1
  <2>9. o4 = w
    BY <2>7, <2>8, SeqEqual
  <2> QED BY <1>7, <2>2, <2>9
<1>9. w[1] \in {Dash("d"), Dash("p")}
  BY <1>7
<1>10. ASSUME w[1] = Dash("d") PROVE w[3] = Dash("p")
  <2>1. Dash("d") # Dash("p")
    BY DEF Dash
  <2>2. g1.wants = 1
    BY <1>7, <1>10, <2>1
  <2>3. g4.flag = 1 + g3.wants
    BY <1>7, <2>2
  <2>4. g3.wants # 1
    BY <2>3
  <2> QED BY <1>7, <2>4
<1> QED BY <1>8, <1>9, <1>10

\* A search that getopt() gave arguments of its own words to, none attached.
LEMMA AcceptedIs ==
    ASSUME NEW S, NEW words \in Seq(Seq(S)), Accepted(words), Len(Permuted(words)) = 4,
           Getopt(words).flag # 0, \A n \in 1..4 : ~Attached(words[n])
    PROVE  words[1] = Dash("d") /\ words[3] = Dash("p") /\ Permuted(words) = words
<1> DEFINE W == Seq(S)
<1>1. Len(words) \in 0..4
  BY DEF Accepted
<1>2. PICK h : /\ h[0] = GetoptStart /\ Getopt(words) = h[Len(words)]
               /\ \A n \in 1..Len(words) : h[n] = GetoptWord(h[n - 1], words[n])
  BY <1>1, GetoptUnfolds
<1>3. Len(words) = 4
  <2>1. Len(Permuted(words)) <= Len(words)
    BY <1>1, PermutedIs
  <2> DEFINE m == Len(words)
             k == Len(Permuted(words))
  <2>2. m \in 0..4 /\ k = 4 /\ k <= m
    BY <1>1, <2>1
  <2> HIDE DEF m, k
  <2>3. m = 4
    BY <2>2
  <2> QED BY <2>3 DEF m
<1>4. /\ \A n \in 0..Len(words) : h[n] \in Getopts(W) /\ WordCount(h[n]) <= n
      /\ \A n \in 1..Len(words) :
             ~h[n].stop /\ ~Attached(words[n]) => ~h[n - 1].stop /\ Taken(h[n - 1], words[n], h[n])
  BY <1>1, <1>2, GetoptKeeps
<1> HIDE DEF W
<1>5. h[1] \in Getopts(W) /\ h[2] \in Getopts(W) /\ h[3] \in Getopts(W) /\ h[4] \in Getopts(W)
  BY <1>3, <1>4
<1>6. \A n \in 1..4 : ~h[n].stop => ~h[n - 1].stop /\ Taken(h[n - 1], words[n], h[n])
  BY <1>3, <1>4
<1>7. Getopt(words) = h[4] /\ ~h[4].stop /\ h[4].flag \notin {0, 1, 2}
  BY <1>2, <1>3 DEF Accepted
<1>8. ~h[3].stop /\ Taken(h[3], words[4], h[4])
  BY <1>6, <1>7
<1>9. ~h[2].stop /\ Taken(h[2], words[3], h[3])
  BY <1>6, <1>8
<1>10. ~h[1].stop /\ Taken(h[1], words[2], h[2])
  BY <1>6, <1>9
<1>11. Taken(h[0], words[1], h[1])
  BY <1>6, <1>10
<1>12. words \in Seq(W)
  BY DEF W
<1>13. /\ h[4].options = words /\ h[4].others = <<>>
       /\ words[1] \in {Dash("d"), Dash("p")}
       /\ words[1] = Dash("d") => words[3] = Dash("p")
  BY <1>2, <1>3, <1>5, <1>7, <1>8, <1>9, <1>10, <1>11, <1>12, OptionsInOrder
<1>14. Permuted(words) = words
  <2>1. words \o <<>> = words
    BY ConcatEmptySeq
  <2> QED BY <1>7, <1>13, <2>1 DEF Permuted
<1>15. words[1] # Dash("p")
  BY <1>14 DEF Accepted
<1> QED BY <1>13, <1>14, <1>15

-----------------------------------------------------------------------------
\* Until main() has begun the words of the command line are words.
WordsInv(S) == pfind \in {"off", "main"} => argv \in Seq(Seq(S))

\* Only spfind and main() reorder the words.
LEMMA WordsStep ==
    ASSUME NEW S, SpInv, FinderInv, WordsInv(S), [Next]_spVars
    PROVE  WordsInv(S)'
<1>1. CASE Options
  <2>1. pfind' = pfind /\ (argv' = argv \/ (Len(argv) = 4 /\ argv' = Permuted(argv)))
    BY <1>1 DEF Options
  <2>2. ASSUME argv \in Seq(Seq(S)), Len(argv) = 4 PROVE Permuted(argv) \in Seq(Seq(S))
    BY <2>2, PermutedIs
  <2> QED BY <2>1, <2>2 DEF WordsInv
<1>2. CASE FinderExecs
  <2>1. pfind = "off" /\ argv' = argv
    BY <1>2 DEF FinderExecs, FinderInv
  <2> QED BY <2>1 DEF WordsInv
<1>3. CASE FinderWrites
  BY <1>3 DEF FinderWrites, Ends, WordsInv, walkVars
<1>4. CASE ForkFinder \/ ForkSorter \/ ParentRedirects \/ ParentReads \/ ParentWaits \/ ParentPrintsTotal
  BY <1>4 DEF ForkFinder, ForkSorter, Fork, ParentRedirects, ParentReads, ParentWaits, ParentPrintsTotal,
              walkVars, WordsInv
<1>5. CASE FinderRedirects \/ FinderExits \/ SorterRedirects \/ SorterExecs \/ SorterReads \/ SorterWrites
  BY <1>5 DEF FinderRedirects, FinderExits, SorterRedirects, SorterExecs, SorterReads, SorterWrites,
              walkVars, WordsInv
<1>6. CASE FinderWalks
  <2>1. CASE Main
    BY <2>1 DEF Main, Ends, WordsInv
  <2>2. CASE pfind = "walk" /\ pfind' \in {"walk", "ended"}
    BY <2>2 DEF WordsInv
  <2>3. ASSUME pfind = "walk", Returns PROVE pfind' \in {"walk", "ended"}
    BY <2>3 DEF Returns, Ends
  <2> QED BY <1>6, <2>1, <2>2, <2>3
          DEF FinderWalks, PfindStep, RealpathFails, OpendirFails, Opendir, ReadEntry, SkipEntry, Closedir, Ends
<1>7. CASE Vanish
  BY <1>7 DEF Vanish, WordsInv
<1>8. CASE UNCHANGED spVars
  BY <1>8 DEF spVars, walkVars, WordsInv
<1> QED BY <1>1, <1>2, <1>3, <1>4, <1>5, <1>6, <1>7, <1>8 DEF Next

\* A search takes its directory and permissions from the arguments of -d and
\* -p, in this order (pfind.c:55-58) - or no option got an argument, or one had
\* it attached: for every command line.
THEOREM SearchAlwaysAsAsked ==
    ASSUME NEW CONSTANT S, NEW CONSTANT words \in Seq(Seq(S)), NEW CONSTANT closed
    PROVE  InitWith(words, closed) /\ [][Next]_spVars => SearchAsAsked
<1>1. InitWith(words, closed) => SpInv
  BY PipedInitially
<1>2. InitWith(words, closed) => FinderInv
  BY DEF InitWith, FinderInv, Procs
<1>3. InitWith(words, closed) => WordsInv(S)
  BY DEF InitWith, WordsInv
<1> DEFINE Asked == pfind = "main" /\ pfind' = "walk" =>
                       \/ argv[1] = Dash("d") /\ argv[3] = Dash("p") /\ argv' = argv
                       \/ Getopt(argv).flag = 0
                       \/ \E i \in 1..4 : Len(argv[i]) > 2 /\ SubSeq(argv[i], 1, 2) \in {Dash("d"), Dash("p")}
<1>4. SpInv /\ FinderInv /\ WordsInv(S) /\ [Next]_spVars => [Asked]_walkVars
  <2> SUFFICES ASSUME SpInv, FinderInv, WordsInv(S), [Next]_spVars, pfind = "main", pfind' = "walk",
                      Getopt(argv).flag # 0, \A n \in 1..4 : ~Attached(argv[n])
               PROVE  argv[1] = Dash("d") /\ argv[3] = Dash("p") /\ argv' = argv
    BY DEF Attached
  <2>1. PfindStep
    <3>1. ~UNCHANGED walkVars
      BY DEF walkVars
    <3>2. ~Vanish /\ ~Ends("killed")
      BY DEF Vanish, Ends
    <3> QED BY <3>1, <3>2, WhatPfindSees
  <2>2. Main
    BY <2>1 DEF PfindStep, RealpathFails, OpendirFails, Opendir, ReadEntry, SkipEntry, Closedir
  <2>3. argv' = Permuted(argv) /\ Accepted(argv) /\ Len(Permuted(argv)) = 4
    BY <2>2 DEF Main, Ends
  <2>4. argv \in Seq(Seq(S))
    BY DEF WordsInv
  <2> HIDE DEF Asked
  <2> QED BY <2>3, <2>4, AcceptedIs
<1>5. SpInv /\ FinderInv /\ WordsInv(S) /\ [Next]_spVars => WordsInv(S)'
  BY WordsStep
<1> QED BY <1>1, <1>2, <1>3, <1>4, <1>5, SpInvStep, FinderInvStep, PTL DEF SearchAsAsked

=============================================================================
