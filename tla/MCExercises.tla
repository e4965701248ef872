---- MODULE MCExercises ----
(* Inputs of the small programs for TLC. *)
EXTENDS Exercises

Seqs(S, n) == UNION {[1..k -> S] : k \in 0..n}

\* Five insertions of three different words, and the ones main() makes.
MCInputs == Seqs(1..3, 5) \cup {<<4, 1, 3, 2, 5>>}

\* Blank lines, numbers in another order than strings, one number that is none,
\* lines of the longest length and longer ones by up to a whole piece.
ShortLines == {<<>>, <<1>>, <<9>>, <<1, 0>>, <<NaN>>}
LongLines == {<<1, 0>>, <<2, 1, 9>>, <<1, 0, 9, 9>>, <<2, 0, 9, 1, 1, 9, 3>>}
MCFiles == Seqs(ShortLines, 4) \cup Seqs(LongLines, 3)
             \cup {<<<<9>>, <<1>>, <<9>>, <<1, 0>>>>, <<<<9>>, <<NaN>>, <<1>>, <<NaN>>>>,
                   <<<<>>, <<9>>, <<1>>, <<>>, <<9>>, <<1>>>>, <<<<1>>, <<2>>, <<3>>, <<4>>, <<5>>>>}
MCCommands == Seqs({"i", "d", "ii", "id", "file"}, 3)

MCTexts == Seqs({"x", "\n", "0"}, 5) \cup {Directory}
MCCounts == {NoOption, NoNumber, -1, 0, 1, 2, 3, INT_MAX + 1, 2 * INT_MAX + 3}

MCPorts == 1024..1027
MCLandscapes == [MCPorts -> {"refuses", "speaks", "late", "silent", "closes"}]
====
