---- MODULE SortedPfind ----
(* spfind: pfind and sort, joined by pipes.  spfind.c makes two pipes, forks a
   child that becomes pfind (writing to the first) and one that becomes sort
   (reading the first, writing the second), copies what arrives on the second
   to its own output and counts the lines.

   fds says what each descriptor of each process is: the terminal or an end of
   a pipe.  A pipe ends, or breaks, when no process has its other end any more,
   so every close() that is missing somewhere matters. *)
EXTENDS Pfind

CONSTANT PipeSize  \* how many lines a pipe holds

ASSUME PipeAssumption == PipeSize \in Nat \ {0}

VARIABLES proc,   \* what each process is doing
          code,   \* how it ended
          fds,    \* its descriptors
          pipe,   \* the lines in each pipe
          sent,   \* how many printed lines left pfind's stdio buffer
          held,   \* the lines sort has read, or has still to write
          shown   \* the lines the user got to see

pipeVars == <<proc, code, fds, pipe, sent, held, shown>>
spVars == <<walkVars, pipeVars>>

Pipes == {"pfind_to_sort", "sort_to_parent"}
Procs == {"parent", "finder", "sorter"}
Children == {"finder", "sorter"}
ReadEnd(p) == <<p, 0>>
WriteEnd(p) == <<p, 1>>
PipeEnds == Pipes \X {0, 1}

StdIn == <<"std", 0>>
StdOut == <<"std", 1>>
Tty == <<"tty", 0>>
AtStart == [d \in {StdIn, StdOut} |-> Tty]

Closed(table, S) == [d \in DOMAIN table \ S |-> table[d]]
HasEnd(p, end) == \E d \in DOMAIN fds[p] : fds[p][d] = end
Held(end) == \E p \in Procs : HasEnd(p, end)

(* A process ends: the system closes what it had open. *)
Exits(p, how) ==
    /\ proc' = [proc EXCEPT ![p] = "zombie"]
    /\ code' = [code EXCEPT ![p] = how]
    /\ fds' = [fds EXCEPT ![p] = <<>>]

Goes(p, to) == proc' = [proc EXCEPT ![p] = to] /\ UNCHANGED code

\* What `onto` says about a descriptor replaces what the table says.
Over(onto, table) ==
    [d \in DOMAIN onto \cup DOMAIN table |-> IF d \in DOMAIN onto THEN onto[d] ELSE table[d]]

(* Closes the ends in S, then dup2()s each end of `onto` over a standard
   descriptor; where dup2 fails the process exits. *)
Redirects(p, S, onto, next) ==
    \/ /\ Goes(p, next)
       /\ fds' = [fds EXCEPT ![p] = Over(onto, Closed(@, S))]
    \/ Exits(p, "failed")

(* -- The parent --------------------------------------------------------- *)

(* main() up to the pipes.  argv[4] is tested before the words are counted:
   with fewer than four it is null, or what lies behind the null pointer. *)
Options ==
    /\ proc["parent"] = "options"
    /\ UNCHANGED <<gone, shut, pfind, frames, printed, blamed, status, pipe, sent, held, shown>>
    /\ \/ Len(argv) \in 1..3 /\ Exits("parent", "killed") /\ UNCHANGED argv
       \/ Len(argv) # 3 /\ (Len(argv) = 4 => ~permverify(argv[4]))
          /\ Exits("parent", "failed") /\ UNCHANGED argv
       \/ /\ Len(argv) = 4 /\ permverify(argv[4])
          /\ argv' = Permuted(argv)
          /\ \/ Exits("parent", "failed")  \* an option is wrong, or pipe() fails
             \/ /\ Accepted(argv)
                /\ Goes("parent", "fork finder")
                /\ fds' = [fds EXCEPT !["parent"] = Over([e \in PipeEnds |-> e], @)]

(* fork(); -1 is not looked at. *)
Fork(child, at, next) ==
    /\ proc["parent"] = at
    /\ \/ /\ proc' = [proc EXCEPT ![child] = "setup", !["parent"] = next]
          /\ fds' = [fds EXCEPT ![child] = fds["parent"]]
       \/ /\ proc' = [proc EXCEPT !["parent"] = next]
          /\ UNCHANGED fds
    /\ UNCHANGED <<walkVars, code, pipe, sent, held, shown>>

ForkFinder == Fork("finder", "fork finder", "fork sorter")
ForkSorter == Fork("sorter", "fork sorter", "redirect")

ParentCloses == {ReadEnd("pfind_to_sort"), WriteEnd("pfind_to_sort"), WriteEnd("sort_to_parent")}

ParentRedirects ==
    /\ proc["parent"] = "redirect"
    /\ Redirects("parent", ParentCloses, [d \in {StdIn} |-> ReadEnd("sort_to_parent")], "read")
    /\ UNCHANGED <<walkVars, pipe, sent, held, shown>>

(* read() hands over what the pipe holds, and nothing once no process can
   write to it any more; the original descriptor is then closed. *)
ParentReads ==
    /\ proc["parent"] = "read"
    /\ UNCHANGED <<walkVars, sent, held>>
    /\ \/ /\ pipe["sort_to_parent"] # <<>>
          /\ shown' = shown \o pipe["sort_to_parent"]
          /\ pipe' = [pipe EXCEPT !["sort_to_parent"] = <<>>]
          /\ UNCHANGED <<proc, code, fds>>
       \/ /\ pipe["sort_to_parent"] = <<>> /\ ~Held(WriteEnd("sort_to_parent"))
          /\ Goes("parent", "wait")
          /\ fds' = [fds EXCEPT !["parent"] = Closed(@, {ReadEnd("sort_to_parent")})]
          /\ UNCHANGED <<pipe, shown>>

Reaped == {c \in Children : proc[c] = "reaped"}

(* wait(): any child that ended; an error when there is no child.  Its exit
   status is not asked for. *)
ParentWaits ==
    /\ proc["parent"] = "wait" /\ Cardinality(Reaped) < 2
    /\ \/ \E c \in Children : proc[c] = "zombie" /\ Goes(c, "reaped") /\ UNCHANGED fds
       \/ /\ \A c \in Children : proc[c] \in {"none", "reaped"}
          /\ Exits("parent", "failed")
    /\ UNCHANGED <<walkVars, pipe, sent, held, shown>>

(* "Total matches: " and the number of lines counted, which is Len(shown). *)
ParentPrintsTotal ==
    /\ proc["parent"] = "wait" /\ Cardinality(Reaped) = 2
    /\ Exits("parent", "ok")
    /\ UNCHANGED <<walkVars, pipe, sent, held, shown>>

(* -- The child that becomes pfind --------------------------------------- *)

FinderCloses == {ReadEnd("pfind_to_sort"), ReadEnd("sort_to_parent"), WriteEnd("sort_to_parent")}

FinderRedirects ==
    /\ proc["finder"] = "setup"
    /\ Redirects("finder", FinderCloses, [d \in {StdOut} |-> WriteEnd("pfind_to_sort")], "exec")
    /\ UNCHANGED <<walkVars, pipe, sent, held, shown>>

FinderExecs ==
    /\ proc["finder"] = "exec"
    /\ \/ /\ Goes("finder", "run") /\ UNCHANGED fds
          /\ pfind' = "main"
       \/ Exits("finder", "failed") /\ UNCHANGED pfind
    /\ UNCHANGED <<argv, gone, shut, frames, printed, blamed, status, pipe, sent, held, shown>>

FinderWalks == proc["finder"] = "run" /\ PfindStep /\ UNCHANGED pipeVars

(* stdio writes a line it holds, at the latest when pfind ends.  Nobody to
   read the pipe: SIGPIPE. *)
FinderWrites ==
    /\ proc["finder"] = "run" /\ sent < Len(printed)
    /\ LET line == printed[sent + 1]
           out == fds["finder"][StdOut][1]
       IN \/ /\ out = "tty"
             /\ sent' = sent + 1 /\ shown' = Append(shown, line)
             /\ UNCHANGED <<walkVars, proc, code, fds, pipe>>
          \/ /\ out # "tty" /\ Held(ReadEnd(out)) /\ Len(pipe[out]) < PipeSize
             /\ sent' = sent + 1
             /\ pipe' = [pipe EXCEPT ![out] = Append(@, line)]
             /\ UNCHANGED <<walkVars, proc, code, fds, shown>>
          \/ /\ out # "tty" /\ ~Held(ReadEnd(out))
             /\ Exits("finder", "killed") /\ Ends("killed")
             /\ UNCHANGED <<argv, gone, shut, printed, blamed, pipe, sent, shown>>
    /\ UNCHANGED held

\* Mutation: what stdio still holds is not written.
FinderExitsAtOnce ==
    /\ proc["finder"] = "run" /\ pfind = "ended"
    /\ Exits("finder", status)
    /\ UNCHANGED <<walkVars, pipe, sent, held, shown>>

FinderExits ==
    /\ proc["finder"] = "run" /\ pfind = "ended" /\ sent = Len(printed)
    /\ Exits("finder", status)
    /\ UNCHANGED <<walkVars, pipe, sent, held, shown>>

(* -- The child that becomes sort ---------------------------------------- *)

SorterKeepsOne == {ReadEnd("sort_to_parent")}   \* mutation
SorterCloses == {WriteEnd("pfind_to_sort"), ReadEnd("sort_to_parent")}

SorterRedirects ==
    /\ proc["sorter"] = "setup"
    /\ Redirects("sorter", SorterCloses,
                 [d \in {StdIn, StdOut} |-> IF d = StdIn THEN ReadEnd("pfind_to_sort")
                                                         ELSE WriteEnd("sort_to_parent")], "exec")
    /\ UNCHANGED <<walkVars, pipe, sent, held, shown>>

SorterExecs ==
    /\ proc["sorter"] = "exec"
    /\ \/ Goes("sorter", "run") /\ UNCHANGED fds
       \/ Exits("sorter", "failed")
    /\ UNCHANGED <<walkVars, pipe, sent, held, shown>>

Places(lines) ==
    CHOOSE p \in [DOMAIN lines -> DOMAIN lines] :
        IsInjective(p) /\ \A i, j \in DOMAIN lines : i < j => lines[p[i]] <= lines[p[j]]
InOrder(lines) == [i \in 1..Len(lines) |-> lines[Places(lines)[i]]]

(* sort reads to the end of its input before it writes a line. *)
SorterReads ==
    /\ proc["sorter"] = "run"
    /\ \/ /\ pipe["pfind_to_sort"] # <<>>
          /\ held' = held \o pipe["pfind_to_sort"]
          /\ pipe' = [pipe EXCEPT !["pfind_to_sort"] = <<>>]
          /\ UNCHANGED <<proc, code, fds>>
       \/ /\ pipe["pfind_to_sort"] = <<>> /\ ~Held(WriteEnd("pfind_to_sort"))
          /\ held' = InOrder(held)
          /\ Goes("sorter", "write") /\ UNCHANGED <<fds, pipe>>
    /\ UNCHANGED <<walkVars, sent, shown>>

SorterWrites ==
    /\ proc["sorter"] = "write"
    /\ \/ /\ held # <<>> /\ Held(ReadEnd("sort_to_parent"))
          /\ Len(pipe["sort_to_parent"]) < PipeSize
          /\ pipe' = [pipe EXCEPT !["sort_to_parent"] = Append(@, Head(held))]
          /\ held' = Tail(held)
          /\ UNCHANGED <<proc, code, fds>>
       \/ /\ held # <<>> /\ ~Held(ReadEnd("sort_to_parent"))
          /\ Exits("sorter", "killed") /\ UNCHANGED <<pipe, held>>
       \/ /\ held = <<>>
          /\ Exits("sorter", "ok") /\ UNCHANGED <<pipe, held>>
    /\ UNCHANGED <<walkVars, sent, shown>>

(* -- The specification -------------------------------------------------- *)

(* The user types spfind, or pfind on its own. *)
InitWith(words, closed) ==
    /\ argv = words /\ gone = {} /\ shut = closed
    /\ frames = <<>> /\ printed = <<>> /\ blamed = {} /\ status = "running"
    /\ code = [p \in Procs |-> "running"]
    /\ pipe = [p \in Pipes |-> <<>>]
    /\ sent = 0 /\ held = <<>> /\ shown = <<>>
    /\ \/ /\ proc = [p \in Procs |-> IF p = "parent" THEN "options" ELSE "none"]
          /\ fds = [p \in Procs |-> IF p = "parent" THEN AtStart ELSE <<>>]
          /\ pfind = "off"
       \/ /\ proc = [p \in Procs |-> IF p = "finder" THEN "run" ELSE "none"]
          /\ fds = [p \in Procs |-> IF p = "finder" THEN AtStart ELSE <<>>]
          /\ pfind = "main"

ParentStep ==
    Options \/ ForkFinder \/ ForkSorter \/ ParentRedirects \/ ParentReads \/ ParentWaits \/ ParentPrintsTotal
FinderStep == FinderRedirects \/ FinderExecs \/ FinderWalks \/ FinderWrites \/ FinderExits
SorterStep == SorterRedirects \/ SorterExecs \/ SorterReads \/ SorterWrites

Next ==
    \/ Options \/ ForkFinder \/ ForkSorter \/ ParentRedirects
    \/ ParentReads \/ ParentWaits \/ ParentPrintsTotal
    \/ FinderRedirects \/ FinderExecs \/ FinderWalks \/ FinderWrites \/ FinderExits
    \/ SorterRedirects \/ SorterExecs \/ SorterReads \/ SorterWrites
    \/ Vanish /\ UNCHANGED pipeVars

(* Every process goes on when it can. *)
Fairness == WF_spVars(ParentStep) /\ WF_spVars(FinderStep) /\ WF_spVars(SorterStep)

(* -- Properties --------------------------------------------------------- *)

(* When spfind reports success it has waited for two children, and what it has
   shown is pfind's whole listing, sorted - unless sort could not be run: then
   it has shown nothing, and still counts 0 matches and reports success. *)
TotalIsTheListing ==
    code["parent"] = "ok" =>
        /\ Reaped = Children
        /\ shown = IF code["sorter"] = "ok" THEN InOrder(printed) ELSE <<>>

(* Nobody waits for ever on a pipe, or for a child: whatever fails, every
   process that was started ends. *)
EverybodyEnds == <>[](\A p \in Procs : proc[p] \in {"none", "zombie", "reaped"})
====
