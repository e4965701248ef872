---- MODULE HeadLines ----
(* head: the first lines of a file, copied block by block (lab 4).  A character
   is "x", "\n" or the terminator "0". *)
EXTENDS Integers, Sequences, SequencesExt, FiniteSets

Characters == {"x", "\n", "0"}
Directory == <<"directory">>  \* can be opened for reading, but not read

CONSTANTS Texts,     \* the contents of files
          Counts,    \* the arguments of -n: numbers, and
          NoOption, NoNumber,
          BUFSIZE,
          INT_MAX    \* the largest int

ASSUME HeadAssumption ==
    /\ BUFSIZE \in Nat \ {0} /\ INT_MAX \in Nat \ {0}
    /\ Texts \ {Directory} \subseteq Seq(Characters) /\ Counts \ {NoOption, NoNumber} \subseteq Int

VARIABLES text, n_value,
          pos,         \* how much of the file read() has delivered
          line_count,
          index,       \* the lines counted so far
          out,         \* what was written
          headPc       \* "main", "read", "done" or "failed"

headVars == <<text, n_value, pos, line_count, index, out, headPc>>

DEFAULT_LINE_COUNT == 10

(* get_integer(): what sscanf read must survive the cast to int. *)
Cast(k) == ((k + INT_MAX + 1) % (2 * (INT_MAX + 1))) - (INT_MAX + 1)

LineCount(arg) ==
    IF arg \in {NoOption, NoNumber} THEN DEFAULT_LINE_COUNT
    ELSE IF Cast(arg) # arg \/ arg < 0 THEN DEFAULT_LINE_COUNT ELSE arg

HeadInit(counts, texts, at) ==
    /\ text \in texts /\ n_value \in counts
    /\ pos = 0 /\ line_count = 0 /\ index = 0 /\ out = <<>> /\ headPc = at

(* The options; open() fails, or the file is read from its beginning. *)
HeadMain ==
    /\ headPc = "main"
    /\ line_count' = LineCount(n_value)
    /\ headPc' \in {"read", "failed"}
    /\ UNCHANGED <<text, n_value, pos, index, out>>

Newlines(seq) == {k \in DOMAIN seq : seq[k] = "\n"}

\* How many lines end among the first k characters, and where the n-th does.
Lines(seq, k) == Cardinality({j \in Newlines(seq) : j <= k})
LineEnd(seq, n) == CHOOSE k \in Newlines(seq) : Lines(seq, k) = n

(* What strlen() lets the loop see of a block. *)
Visible(block) ==
    LET nul == SelectInSeq(block, LAMBDA c : c = "0")
    IN IF nul = 0 THEN block ELSE SubSeq(block, 1, nul - 1)

Seen(block) == Cardinality(Newlines(Visible(block)))

\* Mutation: the count starts again in every block.
WantedPerBlock(block) ==
    IF Seen(block) < line_count THEN block ELSE SubSeq(block, 1, LineEnd(Visible(block), line_count))

(* The part of a block that is written: up to the newline that completes the
   count, or all of it. *)
Wanted(block) ==
    IF Seen(block) < line_count - index THEN block
    ELSE SubSeq(block, 1, LineEnd(Visible(block), line_count - index))

(* A read() that delivers something while lines are wanted; it may deliver less
   than it could. *)
HeadBlock ==
    /\ headPc = "read" /\ text # Directory /\ index # line_count
    /\ \E k \in 1..BUFSIZE :
         /\ pos + k <= Len(text)
         /\ LET block == SubSeq(text, pos + 1, pos + k)
            IN /\ pos' = pos + k
               /\ out' = out \o Wanted(block)
               /\ index' = IF Seen(block) < line_count - index THEN index + Seen(block) ELSE line_count
    /\ UNCHANGED <<text, n_value, line_count, headPc>>

(* read() returns -1, which as a size_t is greater than 0: the loop goes on with
   whatever the buffer contains, newlines or none, and none of it is written
   unless the count is reached. *)
HeadReadFails ==
    /\ headPc = "read" /\ text = Directory /\ index # line_count
    /\ index' \in index..line_count
    /\ out' \in IF index' = line_count THEN {out, Append(out, "x")} ELSE {out}
    /\ UNCHANGED <<text, n_value, pos, line_count, headPc>>

(* The end of the file, or enough lines. *)
HeadEnds ==
    /\ headPc = "read"
    /\ index = line_count \/ (text # Directory /\ pos = Len(text))
    /\ out' = IF index # line_count THEN Append(out, "\n") ELSE out
    /\ headPc' = "done"
    /\ UNCHANGED <<text, n_value, pos, line_count, index>>

HeadNext == HeadMain \/ HeadBlock \/ HeadReadFails \/ HeadEnds

HeadSpec == HeadInit(Counts, Texts, "main") /\ [][HeadNext]_headVars

(* -- What it does ------------------------------------------------------- *)

FirstLines(n) == IF n = 0 THEN <<>> ELSE SubSeq(text, 1, LineEnd(text, n))

(* "Display the first n lines": exactly those of a text without a terminator,
   however read() cuts it; "if n exceeds the line count of the file, display the
   whole file": nothing of it is missing. *)
HeadIsExact ==
    LET n == LineCount(n_value) IN
    headPc = "done" /\ text # Directory =>
        IF n > Cardinality(Newlines(text)) THEN IsPrefix(text, out)
        ELSE "0" \notin ToSet(text) => out = FirstLines(n)
====
