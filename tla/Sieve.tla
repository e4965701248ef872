-------------------------------- MODULE Sieve --------------------------------
(***************************************************************************)
(* Homework/mtsieve/mtsieve.c: options -s, -e and -t are read and checked, *)
(* the range [s, e] is cut into a segment for each of t threads, each      *)
(* thread sieves its segment and adds the number of its primes with two or *)
(* more digits '3' to total_count, and main prints the total.              *)
(***************************************************************************)
EXTENDS Integers, Sequences, FiniteSets, FiniteSetsExt

CONSTANTS
    Values,      \* the numbers given as option arguments
    MaxOptions,  \* bound: options on one command line
    get_nprocs,  \* processors
    INT_MAX,
    NULL

\* What a command line may be refused for.
Messages == {"bad option", "start missing", "start", "end missing", "end",
             "threads missing", "threads"}

ASSUME SieveAssumption ==
    /\ INT_MAX \in Nat /\ Values \subseteq 0 .. INT_MAX
    /\ MaxOptions \in Nat /\ get_nprocs \in Nat \ {0}
    /\ NULL \notin Int \cup Messages \cup {"success", "failure", "killed"}

\* An int has 32 bits.
ASSUME TenDigits == INT_MAX <= 2147483647

Threads == 1 .. 2 * get_nprocs

-----------------------------------------------------------------------------
(* sieve's arithmetic                                                      *)

\* The digits '3' of n.
Threes[n \in 0 .. INT_MAX] == IF n = 0 THEN 0 ELSE Threes[n \div 10] + (IF n % 10 = 3 THEN 1 ELSE 0)
hasThree(n) == Threes[n] >= 1   \* mutation
hasThrees(n) == Threes[n] >= 2

\* low_primes: multiples of i, from i * i, are crossed out for each i up to
\* the fourth root of b that is not crossed out itself.
UpToRoot(b) == {i \in 2 .. b : i * i <= b}
FourthRoot(b) == Max({1} \cup {i \in UpToRoot(b) : i * i * i * i <= b})
Crossed(b) ==
    LET crossed[i \in 1 .. FourthRoot(b)] ==
          IF i = 1 THEN {}
          ELSE crossed[i - 1] \cup
               (IF i \in crossed[i - 1] THEN {} ELSE {j \in UpToRoot(b) : j >= i * i /\ j % i = 0})
    IN  crossed[FourthRoot(b)]
low_primes_all(b) == 2 .. b   \* mutation: the root is not taken
low_primes(b) == UpToRoot(b) \ Crossed(b)

\* Mutation: the first multiple is not skipped when it is p itself.
FirstMultipleSelf(a, p) == ((a + p - 1) \div p) * p - a

\* The offset from a at which crossing out multiples of p begins.
FirstMultiple(a, p) == ((a + p - 1) \div p) * p - a + (IF a <= p THEN p ELSE 0)

\* high_primes: what is left of a .. b.
high_primes(a, b) ==
    {n \in a .. b : \A p \in low_primes(b) : ~(n - a >= FirstMultiple(a, p) /\ n % p = 0)}

\* Where the loop's j ends up once it crossed out the last multiple of p; it is
\* compared with b - a after p was added to it.
LastIndex(a, b, p) ==
    LET f == FirstMultiple(a, p)
    IN  IF f > b - a THEN f ELSE f + (((b - a - f) \div p) + 1) * p

\* The part of the total a thread with the segment seg finds.
Count(seg) == Cardinality({n \in high_primes(seg.start, seg.end) : hasThrees(n)})

-----------------------------------------------------------------------------
VARIABLES
    pc, retval, message, printed,     \* of main
    given, options, flag, inputS, inputE, inputT,  \* the command line so far
    num_threads, section_length, extra, targs,     \* the segments
    next,            \* i of the loops that create and join the threads
    tpc, register,   \* of each thread
    lock,            \* the thread that holds the mutex
    total_count      \* kept as the set of threads whose part it includes

optionVars  == <<given, options, flag, inputS, inputE, inputT>>
segmentVars == <<num_threads, section_length, extra, targs>>
threadVars  == <<tpc, register, lock, total_count>>
vars == <<pc, retval, message, printed, optionVars, segmentVars, next, threadVars>>

Init ==
    /\ pc = "options" /\ retval = NULL /\ message = NULL /\ printed = NULL
    /\ given = {} /\ options = 0 /\ flag = 0 /\ inputS = 0 /\ inputE = 0 /\ inputT = 0
    /\ num_threads = 0 /\ section_length = 0 /\ extra = 0 /\ targs = <<>>
    /\ next = 1
    /\ tpc = [i \in Threads |-> "none"]
    /\ register = [i \in Threads |-> {}]
    /\ lock = NULL /\ total_count = {}

-----------------------------------------------------------------------------
(* main: the command line                                                  *)

Option(o, v) ==
    /\ pc = "options" /\ options < MaxOptions
    /\ options' = options + 1 /\ given' = given \cup {o}
    /\ flag' = flag + (CASE o = "s" -> 1 [] o = "e" -> 2 [] o = "t" -> 4)
    /\ inputS' = IF o = "s" THEN v ELSE inputS
    /\ inputE' = IF o = "e" THEN v ELSE inputE
    /\ inputT' = IF o = "t" THEN v ELSE inputT
    /\ UNCHANGED <<pc, retval, message, printed, segmentVars, next, threadVars>>

\* Not a number, too large a number, an unknown option, no option at all, or
\* an argument that is none.
BadOption ==
    /\ pc = "options"
    /\ pc' = "exited" /\ retval' = "failure" /\ message' = "bad option"
    /\ UNCHANGED <<printed, optionVars, segmentVars, next, threadVars>>

\* Mutation: any number of threads.
ComplaintNoLimit ==
    IF flag \in {2, 4, 6} THEN "start missing" ELSE
    IF inputS < 2 THEN "start" ELSE
    IF flag \in {1, 5} THEN "end missing" ELSE
    IF inputE < 2 \/ inputE < inputS THEN "end" ELSE
    IF flag = 3 THEN "threads missing" ELSE
    IF inputT < 1 THEN "threads" ELSE NULL

Complaint ==
    IF flag \in {2, 4, 6} THEN "start missing" ELSE
    IF inputS < 2 THEN "start" ELSE
    IF flag \in {1, 5} THEN "end missing" ELSE
    IF inputE < 2 \/ inputE < inputS THEN "end" ELSE
    IF flag = 3 THEN "threads missing" ELSE
    IF inputT < 1 \/ inputT > 2 * get_nprocs THEN "threads" ELSE NULL

Refuse ==
    /\ pc = "options" /\ Complaint # NULL
    /\ pc' = "exited" /\ retval' = "failure" /\ message' = Complaint
    /\ UNCHANGED <<printed, optionVars, segmentVars, next, threadVars>>

\* The options are accepted; there are never more threads than numbers.
Accept ==
    /\ pc = "options" /\ Complaint = NULL
    /\ LET numbers == inputE - inputS + 1
           n       == IF inputT > numbers THEN numbers ELSE inputT
       IN  /\ num_threads' = n
           /\ section_length' = (numbers \div n) - 1
           /\ extra' = numbers % n
    /\ pc' = "segments"
    /\ UNCHANGED <<retval, message, printed, optionVars, targs, next, threadVars>>

-----------------------------------------------------------------------------
(* main: the segments and the threads                                      *)

\* Mutation: extra is never used up.
SegmentExtra ==
    /\ pc = "segments" /\ Len(targs) < num_threads
    /\ LET start == IF targs = <<>> THEN inputS ELSE targs[Len(targs)].end + 1
           end   == start + section_length + (IF extra > 0 THEN 1 ELSE 0)
       IN  targs' = Append(targs, [start |-> start, end |-> end])
    /\ pc' = IF Len(targs) + 1 = num_threads THEN "create" ELSE pc
    /\ UNCHANGED <<extra, retval, message, printed, optionVars, num_threads, section_length, next, threadVars>>

\* The first segments are longer by one until extra is used up.
Segment ==
    /\ pc = "segments" /\ Len(targs) < num_threads
    /\ LET start == IF targs = <<>> THEN inputS ELSE targs[Len(targs)].end + 1
           end   == start + section_length + (IF extra > 0 THEN 1 ELSE 0)
       IN  targs' = Append(targs, [start |-> start, end |-> end])
    /\ extra' = IF extra > 0 THEN extra - 1 ELSE extra
    /\ pc' = IF Len(targs) + 1 = num_threads THEN "create" ELSE pc
    /\ UNCHANGED <<retval, message, printed, optionVars, num_threads, section_length, next, threadVars>>

Create ==
    /\ pc = "create"
    /\ tpc' = [tpc EXCEPT ![next] = "sieve"]
    /\ IF next = num_threads THEN pc' = "join" /\ next' = 1 ELSE next' = next + 1 /\ UNCHANGED pc
    /\ UNCHANGED <<retval, message, printed, optionVars, segmentVars, register, lock, total_count>>

\* The threads created before end with the process.
CreateFails ==
    /\ pc = "create"
    /\ pc' = "exited" /\ retval' = "failure"
    /\ UNCHANGED <<message, printed, optionVars, segmentVars, next, threadVars>>

Join ==
    /\ pc = "join" /\ tpc[next] = "exit"
    /\ IF next = num_threads THEN pc' = "print" /\ UNCHANGED next ELSE next' = next + 1 /\ UNCHANGED pc
    /\ UNCHANGED <<retval, message, printed, optionVars, segmentVars, threadVars>>

PrintTotal ==
    /\ pc = "print"
    /\ printed' = total_count
    /\ pc' = "exited" /\ retval' = "success"
    /\ UNCHANGED <<message, optionVars, segmentVars, next, threadVars>>

-----------------------------------------------------------------------------
(* sieve                                                                   *)

At(i, where, then) == tpc[i] = where /\ pc # "exited" /\ tpc' = [tpc EXCEPT ![i] = then]

\* j + p passes INT_MAX: unoptimised code wraps round and writes far before
\* the array.
Overflows(seg) ==
    \E p \in low_primes(seg.end) : LastIndex(seg.start, seg.end, p) > INT_MAX

\* Counting the primes of the segment touches nothing shared.
Counted(i) ==
    /\ At(i, "sieve", "lock") /\ ~Overflows(targs[i])
    /\ UNCHANGED <<pc, retval, message, printed, optionVars, segmentVars, next, register, lock, total_count>>

Segfault(i) ==
    /\ tpc[i] = "sieve" /\ pc # "exited" /\ Overflows(targs[i])
    /\ pc' = "exited" /\ retval' = "killed"
    /\ UNCHANGED <<message, printed, optionVars, segmentVars, next, threadVars>>

\* Mutation: the lock is not waited for.
LockAnyway(i) ==
    /\ At(i, "lock", "load")
    /\ lock' = i
    /\ UNCHANGED <<pc, retval, message, printed, optionVars, segmentVars, next, register, total_count>>

Lock(i) ==
    /\ At(i, "lock", "load") /\ lock = NULL
    /\ lock' = i
    /\ UNCHANGED <<pc, retval, message, printed, optionVars, segmentVars, next, register, total_count>>

Load(i) ==
    /\ At(i, "load", "store")
    /\ register' = [register EXCEPT ![i] = total_count]
    /\ UNCHANGED <<pc, retval, message, printed, optionVars, segmentVars, next, lock, total_count>>

Store(i) ==
    /\ At(i, "store", "unlock")
    /\ total_count' = register[i] \cup {i}
    /\ UNCHANGED <<pc, retval, message, printed, optionVars, segmentVars, next, register, lock>>

\* Mutation: the mutex stays locked.
UnlockNot(i) ==
    /\ At(i, "unlock", "exit")
    /\ UNCHANGED <<pc, retval, message, printed, optionVars, segmentVars, next, register, lock, total_count>>

Unlock(i) ==
    /\ At(i, "unlock", "exit")
    /\ lock' = NULL
    /\ UNCHANGED <<pc, retval, message, printed, optionVars, segmentVars, next, register, total_count>>

-----------------------------------------------------------------------------
CommandLine == BadOption \/ \E o \in {"s", "e", "t"}, v \in Values : Option(o, v)
Main        == Refuse \/ Accept \/ Segment \/ Create \/ CreateFails \/ Join \/ PrintTotal
sieve(i)    == Counted(i) \/ Segfault(i) \/ Lock(i) \/ Load(i) \/ Store(i) \/ Unlock(i)

Next == CommandLine \/ Main \/ \E i \in Threads : sieve(i)

Spec == Init /\ [][Next]_vars

\* Every thread runs whenever it can.
FairSpec == Spec /\ WF_vars(Main) /\ \A i \in Threads : WF_vars(sieve(i))

-----------------------------------------------------------------------------
(* Properties                                                              *)

Segments == [start : Nat, end : Nat]
TypeOK ==
    /\ pc \in {"options", "segments", "create", "join", "print", "exited"}
    /\ retval \in {NULL, "success", "failure", "killed"}
    /\ message \in Messages \cup {NULL}
    /\ given \subseteq {"s", "e", "t"} /\ options \in 0 .. MaxOptions /\ flag \in Nat
    /\ inputS \in 0 .. INT_MAX /\ inputE \in 0 .. INT_MAX /\ inputT \in 0 .. INT_MAX
    /\ num_threads \in Nat /\ section_length \in Nat /\ extra \in Nat
    /\ targs \in Seq(Segments)
    /\ next \in Threads
    /\ tpc \in [Threads -> {"none", "sieve", "lock", "load", "store", "unlock", "exit"}]
    /\ register \in [Threads -> SUBSET Threads] /\ lock \in Threads \cup {NULL}
    /\ total_count \subseteq Threads /\ printed \in (SUBSET Threads) \cup {NULL}

\* However the options are given, only a sound range and number of threads
\* are worked on.
AcceptedIsSound ==
    num_threads > 0 =>
        /\ given = {"s", "e", "t"}
        /\ 2 <= inputS /\ inputS <= inputE
        /\ num_threads <= inputT /\ num_threads <= 2 * get_nprocs

\* The segments are a partition of [a, b] into nonempty intervals in order,
\* none longer by more than one than another.
Partition ==
    pc \in {"create", "join", "print"} =>
        /\ Len(targs) = num_threads /\ num_threads > 0
        /\ targs[1].start = inputS /\ targs[num_threads].end = inputE
        /\ \A i \in 1 .. num_threads : targs[i].start <= targs[i].end
        /\ \A i \in 1 .. num_threads - 1 : targs[i + 1].start = targs[i].end + 1
        /\ \A i, j \in 1 .. num_threads :
              (targs[i].end - targs[i].start) - (targs[j].end - targs[j].start) <= 1

IsPrime(n) == \A d \in 2 .. n - 1 : n % d # 0

\* Two of n's at most ten digits are '3'.
Places == {1, 10, 100, 1000, 10000, 100000, 1000000, 10000000, 100000000, 1000000000}
TwoDigitsThree(n) ==
    \E j, k \in Places : j # k /\ (n \div j) % 10 = 3 /\ (n \div k) % 10 = 3

\* What is left after crossing out is the primes.
SegmentsSieved ==
    pc = "create" => \A i \in 1 .. num_threads :
        high_primes(targs[i].start, targs[i].end) = {n \in targs[i].start .. targs[i].end : IsPrime(n)}

\* The parts of the first k threads, as far as the total that is printed
\* includes them.
PartsOf[k \in 0 .. num_threads] ==
    IF k = 0 THEN 0 ELSE PartsOf[k - 1] + (IF k \in printed THEN Count(targs[k]) ELSE 0)

\* "Total primes between %d and %d with two or more '3' digits".
TotalIsRight ==
    printed # NULL =>
        PartsOf[num_threads] = Cardinality({n \in inputS .. inputE : IsPrime(n) /\ TwoDigitsThree(n)})

\* The total that is printed includes every thread's part.
NoCountLost == printed # NULL => printed = 1 .. num_threads

\* Once the command line is complete the program ends.
Terminates == (pc = "segments") ~> (pc = "exited")

\* The index of the crossing-out loop overflows for no range shorter than the
\* largest int by the root of its end.
SafeBelowRoot ==
    retval = "killed" => \E r \in 0 .. INT_MAX : r * r <= inputE /\ inputE - inputS + r > INT_MAX
=============================================================================
