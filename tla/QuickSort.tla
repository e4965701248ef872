---- MODULE QuickSort ----
(* sort: reads the lines of a file into a table, converts them if -i or -d says
   so, and sorts them with the quicksort of quicksort.c (Lomuto's partition,
   the first element as pivot).  A character is a number: 0..9 the digits, and
   NaN a piece that atof() turns into "not a number". *)
EXTENDS Integers, Sequences, SequencesExt, FiniteSets

CONSTANTS Files,         \* a file is the sequence of its lines
          Commands,      \* the words after the program's name
          MAX_STRLEN, MAX_ELEMENTS

ASSUME SortAssumption ==
    Files \subseteq Seq(Seq(Nat)) /\ MAX_STRLEN \in Nat \ {0} /\ MAX_ELEMENTS \in Nat \ {0}

VARIABLES command, file,
          rest,     \* the lines that are still to be read
          array,    \* the table, then the array that is sorted
          calls,    \* the ranges quicksort_helper() has still to work on
          s, i,     \* the loop in lomuto()
          sortPc    \* "main", "read", "call", "scan", "printed", "failed" or "overrun"

sortVars == <<command, file, rest, array, calls, s, i, sortPc>>

NaN == 10
SlotSize == 8                               \* sizeof(char *)
Slots == MAX_ELEMENTS \div SlotSize         \* malloc(MAX_ELEMENTS) bytes

(* -- main: the options -------------------------------------------------- *)

\* "-i", "-d", "-ii" and "-id": the INTs and DOUBLEs added up in type.
Weight == [i |-> 1, d |-> 2, ii |-> 2, id |-> 3]
IsFlag(word) == word \in DOMAIN Weight      \* anything else is a file
Flags(words) == SelectSeq(words, IsFlag)
Type(words) == FoldLeft(LAMBDA t, w : t + Weight[w], 0, Flags(words))

(* getopt moves the flags to the front; what is opened is argv[1] or argv[2],
   whatever it is.  A flag is no file. *)
Refused(words) ==
    LET argc == Len(words) + 1
        optind == Len(Flags(words)) + 1
        opened == IF Type(words) = 0 THEN 1 ELSE 2
    IN \/ argc = 1
       \/ argc = 2 /\ optind = 2
       \/ argc > 2 /\ optind = 1
       \/ argc > 3 /\ optind = 2
       \/ Type(words) > 2
       \/ opened < optind

Mode(words) ==
    IF Type(words) = 0 THEN "string" ELSE IF Last(Flags(words)) \in {"i", "ii"} THEN "int" ELSE "double"

\* The digits before the first character that is none.
Number(piece) ==
    LET upTo[k \in 0..Len(piece)] ==
            IF k = 0 THEN 0
            ELSE IF \E c \in 1..k : piece[c] = NaN THEN upTo[k - 1]
            ELSE 10 * upTo[k - 1] + piece[k]
    IN upTo[Len(piece)]
NotANumber == <<-1>>

(* What is sorted; a number is a tuple of one. *)
Converted(mode, piece) ==
    CASE mode = "string" -> piece
      [] mode = "int" -> <<Number(piece)>>
      [] mode = "double" -> IF piece[1] = NaN THEN NotANumber ELSE <<Number(piece)>>

(* -- The comparisons: comp(a, b) < 0 ------------------------------------ *)

StrLess(a, b) ==
    \E k \in 0..Len(a) :
        /\ IsPrefix(SubSeq(a, 1, k), b)
        /\ k < Len(b) /\ (k = Len(a) \/ a[k + 1] < b[k + 1])

\* dbl_cmp: neither equal nor greater is less, also where nothing compares.
DblLess(a, b) == a = NotANumber \/ b = NotANumber \/ a[1] < b[1]

Compares(mode, a, b) ==
    CASE mode = "string" -> StrLess(a, b)
      [] mode = "int" -> a[1] < b[1]
      [] mode = "double" -> DblLess(a, b)

Less(a, b) == Compares(Mode(command), a, b)

(* -- The program -------------------------------------------------------- *)

SortInit(commands, files, at) ==
    /\ command \in commands /\ file \in files
    /\ rest = file /\ array = <<>> /\ calls = <<>>
    /\ s = 0 /\ i = 0 /\ sortPc = at

\* The file may still be impossible to open.
SortMain ==
    /\ sortPc = "main"
    /\ sortPc' \in IF Refused(command) THEN {"failed"} ELSE {"read", "failed"}
    /\ UNCHANGED <<command, file, rest, array, calls, s, i>>

(* One fgets() of read_data(): a line, or the first MAX_STRLEN + 1 characters
   of a longer one, the last of which gives way to the terminator. *)
ReadPiece ==
    /\ sortPc = "read" /\ rest # <<>>
    /\ LET line == Head(rest)
           piece == IF Len(line) <= MAX_STRLEN THEN line ELSE SubSeq(line, 1, MAX_STRLEN)
       IN /\ rest' = IF Len(line) <= MAX_STRLEN THEN Tail(rest)
                     ELSE <<SubSeq(line, MAX_STRLEN + 2, Len(line))>> \o Tail(rest)
          /\ IF piece = <<>> THEN UNCHANGED <<array, sortPc>>
             ELSE IF Len(array) >= Slots THEN sortPc' = "overrun" /\ UNCHANGED array
             ELSE array' = Append(array, piece) /\ UNCHANGED sortPc
    /\ UNCHANGED <<command, file, calls, s, i>>

(* The conversion, and quicksort(): for an empty table len - 1 wraps around,
   and is -1 again as an int. *)
StartSort ==
    /\ sortPc = "read" /\ rest = <<>>
    /\ array' = [k \in DOMAIN array |-> Converted(Mode(command), array[k])]
    /\ calls' = <<[left |-> 0, right |-> Len(array) - 1]>>
    /\ sortPc' = "call"
    /\ UNCHANGED <<command, file, rest, s, i>>

left == calls[1].left
right == calls[1].right
Swapped(a, j, k) == [a EXCEPT ![j + 1] = a[k + 1], ![k + 1] = a[j + 1]]

CallLomuto ==
    /\ sortPc = "call" /\ calls # <<>> /\ left < right
    /\ s' = left /\ i' = left + 1
    /\ sortPc' = "scan"
    /\ UNCHANGED <<command, file, rest, array, calls>>

ReturnHelper ==
    /\ sortPc = "call" /\ calls # <<>> /\ left >= right
    /\ calls' = Tail(calls)
    /\ UNCHANGED <<command, file, rest, array, s, i, sortPc>>

\* Mutation: s moves after the swap.
ScanLate ==
    /\ sortPc = "scan" /\ i <= right
    /\ i' = i + 1
    /\ IF Less(array[i + 1], array[left + 1])
       THEN s' = s + 1 /\ array' = Swapped(array, s, i)
       ELSE UNCHANGED <<s, array>>
    /\ UNCHANGED <<command, file, rest, calls, sortPc>>

Scan ==
    /\ sortPc = "scan" /\ i <= right
    /\ i' = i + 1
    /\ IF Less(array[i + 1], array[left + 1])
       THEN s' = s + 1 /\ array' = Swapped(array, s + 1, i)
       ELSE UNCHANGED <<s, array>>
    /\ UNCHANGED <<command, file, rest, calls, sortPc>>

\* Mutation: the pivot is sorted again with what is right of it.
PlacePivotAgain ==
    /\ sortPc = "scan" /\ i > right
    /\ array' = Swapped(array, left, s)
    /\ calls' = <<[left |-> left, right |-> s - 1], [left |-> s, right |-> right]>> \o Tail(calls)
    /\ sortPc' = "call"
    /\ UNCHANGED <<command, file, rest, s, i>>

PlacePivot ==
    /\ sortPc = "scan" /\ i > right
    /\ array' = Swapped(array, left, s)
    /\ calls' = <<[left |-> left, right |-> s - 1], [left |-> s + 1, right |-> right]>> \o Tail(calls)
    /\ sortPc' = "call"
    /\ UNCHANGED <<command, file, rest, s, i>>

PrintSorted ==
    /\ sortPc = "call" /\ calls = <<>>
    /\ sortPc' = "printed"
    /\ UNCHANGED <<command, file, rest, array, calls, s, i>>

SortNext ==
    \/ SortMain \/ ReadPiece \/ StartSort
    \/ CallLomuto \/ ReturnHelper \/ Scan \/ PlacePivot \/ PrintSorted

SortSpec == SortInit(Commands, Files, "main") /\ [][SortNext]_sortVars

(* -- What it does ------------------------------------------------------- *)

(* The pieces of a line: cut after each MAX_STRLEN characters, of which the
   next one is dropped. *)
PiecesOf(line) ==
    [k \in 1..(Len(line) + MAX_STRLEN) \div (MAX_STRLEN + 1) |->
        LET first == (k - 1) * (MAX_STRLEN + 1) + 1
        IN SubSeq(line, first, IF first + MAX_STRLEN - 1 < Len(line) THEN first + MAX_STRLEN - 1 ELSE Len(line))]
Pieces(lines) ==
    LET lastOnes[n \in 0..Len(lines)] ==
            IF n = 0 THEN <<>> ELSE PiecesOf(lines[Len(lines) - n + 1]) \o lastOnes[n - 1]
    IN lastOnes[Len(lines)]

\* What is sorted: the pieces of the file, converted; and what has a place in the order.
Asked == [k \in DOMAIN Pieces(file) |-> Converted(Mode(command), Pieces(file)[k])]
Ordered(x) == Mode(command) = "double" => x # NotANumber

Occurs(x, seq) == Cardinality({k \in DOMAIN seq : seq[k] = x})

(* What is printed is what the file holds, each piece as often, and any two of
   its elements that have a place in the order are in that order: also over a
   number that is none and lies between them. *)
SortedAtExit ==
    sortPc = "printed" =>
        /\ Len(array) = Len(Asked)
        /\ \A k \in DOMAIN Asked : Occurs(Asked[k], array) = Occurs(Asked[k], Asked)
        /\ \A j, k \in DOMAIN array :
             j < k /\ Ordered(array[j]) /\ Ordered(array[k]) => ~Less(array[k], array[j])

(* "Allocates space in a char** for at least MAX_ELEMENTS strings". *)
RoomForAll == Len(Pieces(file)) <= MAX_ELEMENTS => sortPc # "overrun"
====
