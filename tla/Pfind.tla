---- MODULE Pfind ----
(* pfind: lists the entries below a directory whose permission bits spell a
   given string.  main() of pfind.c reads the options with getopt, which moves
   the options before the other words; stat_check() of permission.c walks the
   tree, one frame of `frames` per call that has not returned.

   The tree may lose entries while it is walked.  A word of the command line
   is the sequence of its characters, a mode the set of the bits it has: 1..9
   are the nine that perms[] names, larger numbers the set-id and sticky bits. *)
EXTENDS Integers, Sequences, FiniteSets, SequencesExt

CONSTANTS Entries,  \* what the tree holds when the program starts
          Top,      \* the directory that is searched, never removed
          Above,    \* the directory each entry is in
          Mode,     \* st_mode of each entry
          Start     \* the word that names Top; no other word is a path

ASSUME TreeAssumption ==
    /\ Top \notin Entries
    /\ Above \in [Entries -> Entries \cup {Top}]
    /\ Mode \in [Entries -> SUBSET (1..12)]
    /\ \A S \in SUBSET Entries : (\A e \in S : Above[e] \in S) => S = {}  \* all below Top

VARIABLES argv,     \* the words after the program's name
          gone,     \* the entries removed since the start
          shut,     \* directories that may be read but not searched (no x)
          pfind,    \* "off", "main", "walk" or "ended"
          frames,   \* the calls of stat_check(), innermost last
          printed,  \* the entries printf() was given, in order
          blamed,   \* the entries an error was reported for
          status    \* how pfind ended

walkVars == <<argv, gone, shut, pfind, frames, printed, blamed, status>>

\* d_type = DT_DIR
Dirs == {Above[e] : e \in Entries}
Statuses == {"running", "ok", "failed", "killed"}
Uninitialised == {0}  \* no mode: whatever the memory held

(* -- Permissions -------------------------------------------------------- *)

Letter == <<"r", "w", "x", "r", "w", "x", "r", "w", "x">>

permission_string(mode) == [i \in 1..9 |-> IF i \in mode THEN Letter[i] ELSE "-"]

permverify(word) ==
    /\ Len(word) = 9
    /\ \A i \in 1..9 : word[i] \in {Letter[i], "-"}

(* -- Options ------------------------------------------------------------ *)

Dash(letter) == <<"-", letter>>
Worth == [d |-> 1, p |-> 2]  \* what an option adds to flag

(* One word of getopt(":d:p:h"): the argument an option waits for, a plain
   word, "--" (all that follow are plain), -h or an unknown letter (main
   returns), -d or -p alone or with its argument attached. *)
GetoptWord(g, word) ==
    CASE g.stop -> g
      [] ~g.stop /\ g.wants > 0 ->
            [g EXCEPT !.flag = @ + g.wants, !.wants = 0, !.options = Append(@, word)]
      [] ~g.stop /\ g.wants = 0 /\ (g.plain \/ Len(word) < 2 \/ word[1] # "-") ->
            [g EXCEPT !.others = Append(@, word)]
      [] OTHER ->
            IF word = Dash("-") THEN [g EXCEPT !.plain = TRUE, !.options = Append(@, word)]
            ELSE IF word[2] \notin DOMAIN Worth THEN [g EXCEPT !.stop = TRUE]
            ELSE IF Len(word) = 2
                 THEN [g EXCEPT !.wants = Worth[word[2]], !.options = Append(@, word)]
                 ELSE [g EXCEPT !.flag = @ + Worth[word[2]], !.options = Append(@, word)]

GetoptStart ==
    [flag |-> 0, wants |-> 0, stop |-> FALSE, plain |-> FALSE, options |-> <<>>, others |-> <<>>]

Getopt(words) ==
    LET after[n \in 0..Len(words)] ==
            IF n = 0 THEN GetoptStart ELSE GetoptWord(after[n - 1], words[n])
    IN after[Len(words)]

\* The options first.
Permuted(words) == Getopt(words).options \o Getopt(words).others

\* Mutation: the test of argv[1] is dropped.
AcceptedAnyOrder(words) ==
    Len(words) \in 1..4 /\ ~Getopt(words).stop /\ Getopt(words).flag \notin {1, 2}

(* Every test of main() before the search; all that fail return EXIT_FAILURE. *)
Accepted(words) ==
    /\ Len(words) \in 1..4
    /\ ~Getopt(words).stop
    /\ Getopt(words).flag \notin {1, 2}
    /\ Permuted(words)[1] # Dash("p")

(* -- The walk ----------------------------------------------------------- *)

Call(dir) == [dir |-> dir, open |-> FALSE, todo |-> {}, sb |-> Uninitialised]

Ends(how) ==
    /\ pfind' = "ended"
    /\ status' = how
    /\ frames' = <<>>

(* stat_check() returns; main() ignores what and returns EXIT_SUCCESS. *)
Returns ==
    IF Len(frames) = 1 THEN Ends("ok")
    ELSE /\ frames' = Front(frames)
         /\ UNCHANGED <<pfind, status>>

(* main(): the options, argv[2] resolved and argv[4] tested.  With three words
   argv[4] is the null pointer, with two it is what follows in memory: the
   first string of the environment, or null when there is none. *)
Main ==
    /\ pfind = "main"
    /\ argv' = Permuted(argv)
    /\ UNCHANGED <<gone, shut, printed, blamed>>
    /\ IF ~Accepted(argv) \/ Len(argv') = 1 \/ argv'[2] # Start
       THEN Ends("failed")
       ELSE \/ Len(argv') \in {2, 3} /\ Ends("killed")
            \/ Len(argv') = 2 /\ Ends("ok")
            \/ Len(argv') = 4 /\ ~permverify(argv'[4]) /\ Ends("ok")
            \/ /\ Len(argv') = 4 /\ permverify(argv'[4])
               /\ pfind' = "walk"
               /\ frames' = <<Call(Top)>>
               /\ UNCHANGED status

Frame == Last(frames)
SetFrame(f) == frames' = [frames EXCEPT ![Len(frames)] = f]
Missing(e) == e # Top /\ (e \in gone \/ Above[e] \in shut)

(* realpath() of a directory that is missing ends the program, whatever the
   depth of the call. *)
RealpathFails ==
    /\ pfind = "walk" /\ ~Frame.open
    /\ Missing(Frame.dir)
    /\ blamed' = blamed \cup {Frame.dir}
    /\ Ends("failed")
    /\ UNCHANGED <<argv, gone, shut, printed>>

(* opendir() may fail on a directory that was just resolved: no permission to
   read it, no descriptor left, or it went meanwhile.  Only it is skipped. *)
OpendirFails ==
    /\ pfind = "walk" /\ ~Frame.open
    /\ ~Missing(Frame.dir)
    /\ blamed' = blamed \cup {Frame.dir}
    /\ Returns
    /\ UNCHANGED <<argv, gone, shut, printed>>

Opendir ==
    /\ pfind = "walk" /\ ~Frame.open
    /\ ~Missing(Frame.dir)
    /\ SetFrame([Frame EXCEPT !.open = TRUE,
                              !.todo = {e \in Entries \ gone : Above[e] = Frame.dir}])
    /\ UNCHANGED <<argv, gone, shut, pfind, printed, blamed, status>>

\* Mutation: judged before the new stat data is there.
SbBefore(e) == IF Frame.sb = Uninitialised THEN {Mode[e]} ELSE {Frame.sb}

(* What lstat() leaves in sb: a failed call leaves what was there. *)
Sb(e) ==
    IF ~Missing(e) THEN {Mode[e]}
    ELSE IF Frame.sb = Uninitialised THEN {Mode[x] : x \in Entries} \cup {{}}
    ELSE {Frame.sb}

Judged(e, mode) ==
    printed' = IF argv[4] = permission_string(mode) THEN Append(printed, e) ELSE printed

(* One entry that readdir() returns. *)
ReadEntry ==
    /\ pfind = "walk" /\ Frame.open
    /\ \E e \in Frame.todo :
         /\ blamed' = IF Missing(e) THEN blamed \cup {e} ELSE blamed
         /\ \E mode \in Sb(e) :
              /\ Judged(e, mode)
              /\ LET f == [Frame EXCEPT !.todo = @ \ {e}, !.sb = mode]
                 IN IF e \in Dirs
                    THEN frames' = Append(Front(frames), f) \o <<Call(e)>>
                    ELSE SetFrame(f)
    /\ UNCHANGED <<argv, gone, shut, pfind, status>>

(* readdir() need not return an entry that was removed since opendir(). *)
SkipEntry ==
    /\ pfind = "walk" /\ Frame.open
    /\ \E e \in Frame.todo \cap gone : SetFrame([Frame EXCEPT !.todo = @ \ {e}])
    /\ UNCHANGED <<argv, gone, shut, pfind, printed, blamed, status>>

Closedir ==
    /\ pfind = "walk" /\ Frame.open
    /\ Frame.todo = {}
    /\ Returns
    /\ UNCHANGED <<argv, gone, shut, printed, blamed>>

(* Somebody removes an entry, a directory only when it is empty. *)
Vanish ==
    /\ pfind = "walk"
    /\ \E e \in Entries \ gone :
         /\ \A x \in Entries : Above[x] = e => x \in gone
         /\ gone' = gone \cup {e}
    /\ UNCHANGED <<argv, shut, pfind, frames, printed, blamed, status>>

PfindStep ==
    \/ Main
    \/ RealpathFails
    \/ OpendirFails
    \/ Opendir
    \/ ReadEntry
    \/ SkipEntry
    \/ Closedir

(* -- Properties --------------------------------------------------------- *)

Matches(e) == argv[4] = permission_string(Mode[e])

(* A search takes its directory and permissions from the positions argv[2] and
   argv[4].  They are the arguments of -d and -p, unless no option got an
   argument at all (four plain words, or a -d or -p left over at the end), or
   one had it attached. *)
SearchAsAsked ==
    [][pfind = "main" /\ pfind' = "walk" =>
         \/ argv[1] = Dash("d") /\ argv[3] = Dash("p") /\ argv' = argv
         \/ Getopt(argv).flag = 0
         \/ \E i \in 1..4 : Len(argv[i]) > 2 /\ SubSeq(argv[i], 1, 2) \in {Dash("d"), Dash("p")}]_walkVars

(* An entry is listed once, and only because it has the permissions or because
   lstat() failed on it and an error says so: sb then belongs to another entry
   of the directory, or to nobody. *)
NoFalseHit ==
    /\ IsInjective(printed)
    /\ \A i \in DOMAIN printed : Matches(printed[i]) \/ printed[i] \in blamed

\* The entry, the directory it is in, and so on up to Top.
OnTheWay(e) ==
    {d \in Entries \cup {Top} : \A S \in SUBSET (Entries \cup {Top}) :
        e \in S /\ (\A x \in S \cap Entries : Above[x] \in S) => d \in S}

(* A search that ran to its end and reports success has listed every entry
   with the permissions that is still there, unless an error was reported for
   the entry or for a directory on the way to it. *)
NothingMissedSilently ==
    pfind = "ended" /\ status = "ok" /\ Len(argv) = 4 /\ permverify(argv[4]) =>
        \A e \in Entries \ gone :
            Matches(e) => e \in ToSet(printed) \/ OnTheWay(e) \cap blamed # {}

(* The listing of a search over a tree that loses entries meanwhile. *)
ListingIsExact == Len(argv) = 4 => NoFalseHit /\ NothingMissedSilently
====
