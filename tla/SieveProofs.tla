----------------------------- MODULE SieveProofs -----------------------------
(***************************************************************************)
(* Whatever the command line, the number of processors and the order in    *)
(* which the threads run: the segments mtsieve gives its threads are a     *)
(* partition of the range, each thread finds the primes of its segment,    *)
(* the total it prints is the number of primes with two digits '3', and no *)
(* index overflows in a range that is short enough.                        *)
(*                                                                         *)
(* That crossing out leaves the primes takes two facts. A number that is   *)
(* not a prime has a divisor that is, at most the number's root            *)
(* (LeastDivisor), and low_primes never crosses that one out, because it   *)
(* crosses out only multiples (CrossedAreMultiples). It may leave numbers  *)
(* that are no primes: their multiples are none either.                    *)
(***************************************************************************)
EXTENDS Sieve, TLAPS, WellFoundedInduction, FiniteSetTheorems

Numbers == inputE - inputS + 1
Longer  == Numbers % num_threads   \* how many segments are longer by one
AtMost(x, y) == IF x < y THEN x ELSE y

\* What follows from the checks of the options.
GivenOptions ==
    /\ inputS > 0 => "s" \in given
    /\ inputE > 0 => "e" \in given
    /\ inputT > 0 => "t" \in given
Accepted ==
    num_threads > 0 =>
        /\ 2 <= inputS /\ inputS <= inputE
        /\ num_threads <= inputT /\ inputT <= 2 * get_nprocs /\ num_threads <= Numbers
        /\ section_length = (Numbers \div num_threads) - 1
OptionsInv == (pc = "options" => num_threads = 0 /\ targs = <<>>) /\ GivenOptions /\ Accepted

\* The loop invariant of the segments: where each one starts and ends, and
\* what is left of extra.
SegmentAt(i) ==
    /\ targs[i].start = inputS + (i - 1) * (section_length + 1) + AtMost(i - 1, Longer)
    /\ targs[i].end = inputS + i * (section_length + 1) + AtMost(i, Longer) - 1
SegmentsInv ==
    /\ pc \in {"segments", "create", "join", "print"} => num_threads > 0
    /\ pc = "segments" => Len(targs) < num_threads
    /\ pc \in {"create", "join", "print"} => Len(targs) = num_threads
    /\ num_threads > 0 =>
          /\ extra = Longer - AtMost(Len(targs), Longer)
          /\ \A i \in 1 .. Len(targs) : SegmentAt(i)

\* How far the loops that create and join the threads are.
LoopsInv ==
    /\ pc \in {"options", "segments"} => next = 1 /\ \A i \in Threads : tpc[i] = "none"
    /\ pc = "create" => next <= num_threads /\ \A i \in Threads : i >= next => tpc[i] = "none"
    /\ pc = "join" => next <= num_threads /\ \A i \in 1 .. next - 1 : tpc[i] = "exit"
    /\ pc = "print" => \A i \in 1 .. num_threads : tpc[i] = "exit"
    /\ \A i \in Threads : i > num_threads => tpc[i] = "none"

\* The thread inside the mutex, and what the total includes.
Inside(i) == tpc[i] \in {"load", "store", "unlock"}
MutexInv ==
    /\ \A i \in Threads : lock = i <=> Inside(i)
    /\ \A i \in Threads : tpc[i] = "store" => register[i] = total_count
    /\ \A i \in Threads : i \in total_count <=> tpc[i] \in {"unlock", "exit"}
PrintedInv ==
    printed # NULL =>
        /\ pc = "exited" /\ printed = 1 .. num_threads
        /\ num_threads > 0 /\ Len(targs) = num_threads

SieveInv == TypeOK /\ OptionsInv /\ SegmentsInv /\ LoopsInv /\ MutexInv /\ PrintedInv
-----------------------------------------------------------------------------
LEMMA NullIsNoThread == NULL \notin Threads /\ Threads \subseteq Nat \ {0} /\ 1 \in Threads
BY SieveAssumption DEF Threads

\* num_threads threads get at least one number each.
LEMMA Division ==
    ASSUME NEW N \in Nat, NEW n \in Nat \ {0}, n <= N
    PROVE  /\ N \div n \in Nat \ {0} /\ N % n \in 0 .. n - 1
           /\ N = n * (N \div n) + (N % n)
<1>1. N = n * (N \div n) + (N % n) /\ N % n \in 0 .. n - 1 /\ N \div n \in Nat
  OBVIOUS
<1>2. N \div n = 0 => n * (N \div n) = 0
  OBVIOUS
<1> QED BY <1>1, <1>2

LEMMA SieveInit == Init => SieveInv
<1> SUFFICES ASSUME Init PROVE SieveInv OBVIOUS
<1> USE SieveAssumption, NullIsNoThread
<1>1. TypeOK
  BY DEF Init, TypeOK
<1>2. OptionsInv /\ SegmentsInv
  BY DEF Init, OptionsInv, GivenOptions, Accepted, SegmentsInv
<1>3. LoopsInv /\ MutexInv /\ PrintedInv
  BY DEF Init, LoopsInv, MutexInv, PrintedInv, Inside
<1> QED BY <1>1, <1>2, <1>3 DEF SieveInv

LEMMA SieveCommandLine == ASSUME SieveInv, CommandLine PROVE SieveInv'
<1> USE SieveAssumption, NullIsNoThread DEF SieveInv
<1>1. CASE BadOption
  <2>1. TypeOK'
    BY <1>1 DEF BadOption, Messages, TypeOK, optionVars, segmentVars, threadVars
  <2>2. OptionsInv'
    BY <1>1 DEF BadOption, Messages, TypeOK, OptionsInv, GivenOptions, Accepted, Numbers, optionVars, segmentVars, threadVars
  <2>3. SegmentsInv'
    BY <1>1 DEF BadOption, Messages, TypeOK, SegmentsInv, SegmentAt, Longer, AtMost, Numbers, optionVars, segmentVars, threadVars
  <2>4. LoopsInv'
    BY <1>1 DEF BadOption, Messages, TypeOK, LoopsInv, optionVars, segmentVars, threadVars
  <2>5. MutexInv'
    BY <1>1 DEF BadOption, Messages, TypeOK, MutexInv, Inside, optionVars, segmentVars, threadVars
  <2>6. PrintedInv'
    BY <1>1 DEF BadOption, Messages, TypeOK, PrintedInv, optionVars, segmentVars, threadVars
  <2> QED BY <2>1, <2>2, <2>3, <2>4, <2>5, <2>6 DEF SieveInv
<1>2. ASSUME NEW o \in {"s", "e", "t"}, NEW v \in Values, Option(o, v) PROVE SieveInv'
  <2>a. /\ pc = "options" /\ options < MaxOptions
        /\ options' = options + 1 /\ given' = given \cup {o}
        /\ inputS' = IF o = "s" THEN v ELSE inputS
        /\ inputE' = IF o = "e" THEN v ELSE inputE
        /\ inputT' = IF o = "t" THEN v ELSE inputT
        /\ UNCHANGED <<pc, retval, message, printed, segmentVars, next, threadVars>>
    BY <1>2 DEF Option
  <2>b. v \in 0 .. INT_MAX /\ flag' \in Nat
    <3>1. flag \in Nat
      BY DEF TypeOK
    <3>2. flag' \in {flag + 1, flag + 2, flag + 4}
      BY <1>2 DEF Option
    <3> QED BY <3>1, <3>2
  <2>1. TypeOK'
    BY <1>2, <2>a, <2>b DEF TypeOK, segmentVars, threadVars
  <2>2. OptionsInv'
    BY <1>2, <2>a, <2>b DEF TypeOK, OptionsInv, GivenOptions, Accepted, segmentVars
  <2>3. SegmentsInv'
    BY <2>a, <2>b DEF TypeOK, OptionsInv, SegmentsInv, segmentVars
  <2>4. LoopsInv'
    BY <2>a DEF LoopsInv, segmentVars, threadVars
  <2>5. MutexInv'
    BY <2>a DEF MutexInv, Inside, threadVars
  <2>6. PrintedInv'
    BY <2>a DEF PrintedInv, segmentVars
  <2> QED BY <2>1, <2>2, <2>3, <2>4, <2>5, <2>6 DEF SieveInv
<1> QED BY <1>1, <1>2 DEF CommandLine

LEMMA SieveMain == ASSUME SieveInv, Main PROVE SieveInv'
<1> USE SieveAssumption, NullIsNoThread DEF SieveInv
<1>1. CASE Refuse
  <2>1. TypeOK'
    <3>1. Complaint \in Messages \cup {NULL}
      BY DEF Complaint, Messages
    <3> QED BY <1>1, <3>1 DEF Refuse, TypeOK, optionVars, segmentVars, threadVars
  <2>2. OptionsInv'
    BY <1>1 DEF Refuse, Complaint, TypeOK, OptionsInv, GivenOptions, Accepted, Numbers, optionVars, segmentVars, threadVars
  <2>3. SegmentsInv'
    BY <1>1 DEF Refuse, Complaint, TypeOK, SegmentsInv, SegmentAt, Longer, AtMost, Numbers, optionVars, segmentVars, threadVars
  <2>4. LoopsInv'
    BY <1>1 DEF Refuse, Complaint, TypeOK, LoopsInv, optionVars, segmentVars, threadVars
  <2>5. MutexInv'
    BY <1>1 DEF Refuse, Complaint, TypeOK, MutexInv, Inside, optionVars, segmentVars, threadVars
  <2>6. PrintedInv'
    BY <1>1 DEF Refuse, Complaint, TypeOK, PrintedInv, optionVars, segmentVars, threadVars
  <2> QED BY <2>1, <2>2, <2>3, <2>4, <2>5, <2>6 DEF SieveInv
<1>2. CASE Accept
  <2>a. /\ 2 <= inputS /\ inputS <= inputE /\ 1 <= inputT /\ inputT <= 2 * get_nprocs
        /\ inputS \in Nat /\ inputE \in Nat /\ inputT \in Nat
        /\ targs = <<>> /\ targs' = targs /\ pc = "options" /\ pc' = "segments"
        /\ UNCHANGED <<retval, message, printed, optionVars, next, threadVars>>
    <3>1. Complaint = NULL /\ pc = "options"
      BY <1>2 DEF Accept
    <3>2. inputS \in Nat /\ inputE \in Nat /\ inputT \in Nat
      BY DEF TypeOK
    <3>3. 2 <= inputS /\ inputS <= inputE /\ 1 <= inputT /\ inputT <= 2 * get_nprocs
      <4>1. NULL \notin {"start missing", "start", "end missing", "end", "threads missing", "threads"}
        BY DEF Messages
      <4>2. ~(inputS < 2) /\ ~(inputE < 2 \/ inputE < inputS) /\ ~(inputT < 1 \/ inputT > 2 * get_nprocs)
        BY <3>1, <4>1, Zenon DEF Complaint
      <4> QED BY <3>2, <4>2
    <3> QED BY <1>2, <3>1, <3>2, <3>3 DEF Accept, OptionsInv
  <2>b. /\ num_threads' = IF inputT > Numbers THEN Numbers ELSE inputT
        /\ section_length' = (Numbers \div num_threads') - 1
        /\ extra' = Numbers % num_threads'
    BY <1>2, <2>a DEF Accept, Numbers
  <2>c. /\ Numbers \in Nat \ {0} /\ num_threads' \in Nat \ {0} /\ num_threads' <= Numbers
        /\ num_threads' <= inputT
        /\ Numbers \div num_threads' \in Nat \ {0} /\ Numbers % num_threads' \in 0 .. num_threads' - 1
    <3>1. /\ Numbers \in Nat \ {0} /\ num_threads' \in Nat \ {0} /\ num_threads' <= Numbers
          /\ num_threads' <= inputT
      BY <2>a, <2>b DEF Numbers
    <3> QED BY <3>1, Division
  <2> DEFINE quotient == Numbers \div num_threads'
             rest == Numbers % num_threads'
  <2>e. /\ num_threads' \in Nat \ {0} /\ num_threads' <= Numbers /\ num_threads' <= inputT
        /\ quotient \in Nat \ {0} /\ rest \in 0 .. num_threads' - 1
        /\ section_length' = quotient - 1 /\ extra' = rest
    BY <2>b, <2>c
  <2>d. Numbers' = Numbers /\ inputS' = inputS /\ inputE' = inputE /\ inputT' = inputT
    BY <2>a DEF Numbers, optionVars
  <2> HIDE DEF quotient, rest
  <2>1. TypeOK'
    <3>1. section_length' \in Nat /\ extra' \in Nat /\ num_threads' \in Nat
      BY <2>e
    <3> QED BY <2>a, <3>1 DEF TypeOK, optionVars, threadVars
  <2>2. OptionsInv'
    <3>1. GivenOptions'
      BY <2>a DEF OptionsInv, GivenOptions, optionVars
    <3>2. section_length' = (Numbers' \div num_threads') - 1
      BY <2>b, <2>d
    <3>3. Accepted'
      BY <2>a, <2>d, <2>e, <3>2 DEF Accepted
    <3> QED BY <2>a, <3>1, <3>3 DEF OptionsInv
  <2>3. SegmentsInv'
    BY <2>a, <2>b, <2>c, <2>d DEF SegmentsInv, Longer, AtMost
  <2>4. LoopsInv'
    BY <2>a, <2>b DEF LoopsInv, threadVars
  <2>5. MutexInv'
    BY <2>a DEF MutexInv, Inside, threadVars
  <2>6. PrintedInv'
    BY <2>a DEF PrintedInv
  <2> QED BY <2>1, <2>2, <2>3, <2>4, <2>5, <2>6 DEF SieveInv
<1>3. CASE Segment
  <2> DEFINE k == Len(targs)
             q == section_length + 1
             m == k * q
             start == IF targs = <<>> THEN inputS ELSE targs[k].end + 1
             seg == [start |-> start,
                     end   |-> start + section_length + (IF extra > 0 THEN 1 ELSE 0)]
  <2>a. /\ pc = "segments" /\ k < num_threads /\ num_threads' = num_threads
        /\ targs' = Append(targs, seg) /\ section_length' = section_length
        /\ extra' = IF extra > 0 THEN extra - 1 ELSE extra
        /\ pc' = IF k + 1 = num_threads THEN "create" ELSE "segments"
    BY <1>3 DEF Segment
  <2>b. /\ targs \in Seq(Segments) /\ k \in Nat /\ num_threads \in Nat \ {0}
        /\ section_length \in Nat /\ inputS \in Nat /\ extra \in Nat /\ (targs = <<>> <=> k = 0)
        /\ Len(targs) = k
    <3>1. targs \in Seq(Segments) /\ num_threads \in Nat /\ section_length \in Nat /\ extra \in Nat
          /\ inputS \in Nat
      BY DEF TypeOK
    <3>2. k \in Nat /\ (targs = <<>> <=> k = 0)
      BY <3>1
    <3> QED BY <2>a, <3>1, <3>2
  <2>c. Longer \in 0 .. num_threads - 1 /\ extra = Longer - AtMost(k, Longer)
    <3>1. Numbers \in Nat /\ num_threads <= Numbers
      BY <2>b DEF OptionsInv, Accepted, Numbers, TypeOK
    <3> QED BY <2>b, <3>1, Division DEF SegmentsInv, Longer
  <2>d. q \in Nat /\ m \in Nat /\ (k + 1) * q = m + q /\ k * q = m /\ q = section_length + 1
    BY <2>b
  <2>e. Longer' = Longer /\ inputS' = inputS
    BY <1>3 DEF Segment, Longer, Numbers, optionVars
  <2> HIDE DEF k, q, m
  <2>f. start = inputS + m + AtMost(k, Longer)
    <3>1. CASE k = 0
      BY <2>b, <2>c, <2>d, <3>1 DEF AtMost
    <3>2. CASE k > 0
      <4>1. targs[k].end = inputS + k * (section_length + 1) + AtMost(k, Longer) - 1
        BY <2>b, <3>2 DEF SegmentsInv, SegmentAt
      <4>2. targs[k].end = inputS + m + AtMost(k, Longer) - 1
        BY <2>d, <4>1
      <4>3. start = targs[k].end + 1 /\ AtMost(k, Longer) \in Nat
        BY <2>b, <2>c, <3>2 DEF AtMost
      <4> QED BY <2>b, <2>d, <4>2, <4>3
    <3> QED BY <2>b, <3>1, <3>2
  <2>g. /\ seg.start = inputS + (k + 1 - 1) * (section_length + 1) + AtMost(k + 1 - 1, Longer)
        /\ seg.end = inputS + (k + 1) * (section_length + 1) + AtMost(k + 1, Longer) - 1
        /\ seg \in Segments
    <3> DEFINE x == IF extra > 0 THEN 1 ELSE 0
               e == start + section_length + x
    <3>1. start \in Nat /\ e = inputS + (m + q) + AtMost(k + 1, Longer) - 1 /\ e \in Nat
      <4>1. AtMost(k + 1, Longer) = AtMost(k, Longer) + x /\ AtMost(k, Longer) \in Nat /\ x \in Nat
        BY <2>b, <2>c DEF AtMost
      <4>2. e = start + section_length + x
        OBVIOUS
      <4> HIDE DEF x, start, e
      <4>3. start \in Nat
        BY <2>b, <2>d, <2>f, <4>1
      <4>4. e \in Nat
        BY <2>b, <4>1, <4>2, <4>3
      <4>5. e = inputS + m + (AtMost(k, Longer) + x) + section_length
        BY <2>b, <2>d, <2>f, <4>1, <4>2
      <4>6. inputS \in Nat /\ m \in Nat /\ q = section_length + 1 /\ section_length \in Nat
        BY <2>b, <2>d
      <4>7. e = inputS + (m + q) + AtMost(k + 1, Longer) - 1
        BY <4>1, <4>5, <4>6
      <4> QED BY <4>3, <4>4, <4>7
    <3>2. k + 1 - 1 = k
      BY <2>b
    <3>3. start = inputS + k * (section_length + 1) + AtMost(k, Longer)
      BY <2>d, <2>f
    <3>4. e = inputS + (k + 1) * (section_length + 1) + AtMost(k + 1, Longer) - 1
      BY <2>d, <3>1
    <3> QED BY <3>1, <3>2, <3>3, <3>4 DEF Segments
  <2> HIDE DEF start, seg
  <2>h. targs'[k + 1] = seg /\ Len(targs') = k + 1 /\ \A i \in 1 .. k : targs'[i] = targs[i]
    BY <2>a, <2>b
  <2>1. TypeOK'
    <3>1. targs' \in Seq(Segments)
      BY <2>a, <2>b, <2>g
    <3>2. extra' \in Nat /\ pc' \in {"segments", "create"}
      BY <2>a, <2>b
    <3> QED BY <1>3, <2>a, <3>1, <3>2 DEF Segment, TypeOK, optionVars, threadVars
  <2>2. OptionsInv'
    BY <1>3, <2>a, <2>b DEF Segment, OptionsInv, GivenOptions, Accepted, Numbers, optionVars
  <2>3. SegmentsInv'
    <3>3. \A i \in 1 .. k + 1 : SegmentAt(i)'
      <4> SUFFICES ASSUME NEW i \in 1 .. k + 1 PROVE SegmentAt(i)'
        OBVIOUS
      <4>1. CASE i = k + 1
        BY <4>1, <2>a, <2>b, <2>e, <2>f, <2>g, <2>h DEF SegmentAt
      <4>2. CASE i \in 1 .. k
        <5>1. SegmentAt(i)
          BY <4>2, <2>b DEF SegmentsInv
        <5> QED BY <4>2, <5>1, <2>a, <2>e, <2>h DEF SegmentAt
      <4> QED BY <4>1, <4>2, <2>b
    <3>4. extra' = Longer - AtMost(k + 1, Longer)
      <4>1. k \in Nat /\ Longer \in Nat /\ extra = Longer - AtMost(k, Longer)
        BY <2>b, <2>c
      <4>2. extra' = IF extra > 0 THEN extra - 1 ELSE extra
        BY <2>a
      <4> QED BY <4>1, <4>2 DEF AtMost
    <3>5. pc' = "segments" => k + 1 < num_threads
      BY <2>a, <2>b
    <3> QED BY <2>a, <2>b, <2>e, <2>h, <3>3, <3>4, <3>5 DEF SegmentsInv, AtMost
  <2>4. LoopsInv'
    BY <1>3, <2>a, <2>b DEF Segment, LoopsInv, threadVars
  <2>5. MutexInv'
    BY <1>3 DEF Segment, TypeOK, MutexInv, Inside, optionVars, segmentVars, threadVars
  <2>6. PrintedInv'
    BY <1>3 DEF Segment, TypeOK, PrintedInv, optionVars, segmentVars, threadVars
  <2> QED BY <2>1, <2>2, <2>3, <2>4, <2>5, <2>6 DEF SieveInv
<1>4. CASE Create
  <2>a. /\ pc = "create" /\ next \in Threads /\ next \in Nat /\ num_threads \in Nat /\ next <= num_threads
        /\ tpc \in [Threads -> {"none", "sieve", "lock", "load", "store", "unlock", "exit"}]
        /\ tpc[next] = "none" /\ tpc' = [tpc EXCEPT ![next] = "sieve"]
        /\ pc' \in {"create", "join"} /\ next' \in Threads
    <3>1. /\ pc = "create" /\ next \in Threads /\ next <= num_threads /\ tpc[next] = "none"
          /\ tpc' = [tpc EXCEPT ![next] = "sieve"] /\ num_threads \in Nat /\ num_threads <= 2 * get_nprocs
          /\ tpc \in [Threads -> {"none", "sieve", "lock", "load", "store", "unlock", "exit"}]
      BY <1>4 DEF Create, TypeOK, LoopsInv, OptionsInv, Accepted
    <3>2. IF next = num_threads THEN pc' = "join" /\ next' = 1 ELSE next' = next + 1 /\ pc' = "create"
      BY <1>4 DEF Create
    <3> QED BY <3>1, <3>2 DEF Threads
  <2>b. /\ IF next = num_threads THEN pc' = "join" /\ next' = 1 ELSE next' = next + 1 /\ pc' = "create"
        /\ num_threads' = num_threads
    BY <1>4 DEF Create, segmentVars
  <2>1. TypeOK'
    BY <1>4, <2>a DEF Create, TypeOK, optionVars, segmentVars
  <2>2. OptionsInv'
    BY <1>4 DEF Create, TypeOK, OptionsInv, GivenOptions, Accepted, Numbers, optionVars, segmentVars, threadVars
  <2>3. SegmentsInv'
    BY <1>4 DEF Create, TypeOK, SegmentsInv, SegmentAt, Longer, AtMost, Numbers, optionVars, segmentVars, threadVars
  <2>4. LoopsInv'
    <3>1. \A i \in Threads : i >= next => tpc[i] = "none"
      BY <2>a DEF LoopsInv
    <3>2. \A i \in Threads : i > num_threads => tpc'[i] = "none"
      BY <2>a DEF LoopsInv
    <3>3. CASE next = num_threads
      <4>1. pc' = "join" /\ next' = 1 /\ 1 <= num_threads
        BY <2>a, <2>b, <3>3
      <4> QED BY <2>b, <3>2, <4>1 DEF LoopsInv
    <3>4. CASE next # num_threads
      <4>1. pc' = "create" /\ next' = next + 1 /\ next + 1 <= num_threads
        BY <2>a, <2>b, <3>4
      <4>2. \A i \in Threads : i >= next + 1 => tpc'[i] = "none"
        BY <2>a, <3>1
      <4> QED BY <2>b, <3>2, <4>1, <4>2 DEF LoopsInv
    <3> QED BY <3>3, <3>4
  <2>5. MutexInv'
    BY <1>4, <2>a DEF Create, MutexInv, Inside
  <2>6. PrintedInv'
    BY <1>4 DEF Create, TypeOK, PrintedInv, optionVars, segmentVars, threadVars
  <2> QED BY <2>1, <2>2, <2>3, <2>4, <2>5, <2>6 DEF SieveInv
<1>5. CASE CreateFails
  <2>1. TypeOK'
    BY <1>5 DEF CreateFails, TypeOK, optionVars, segmentVars, threadVars
  <2>2. OptionsInv'
    BY <1>5 DEF CreateFails, TypeOK, OptionsInv, GivenOptions, Accepted, Numbers, optionVars, segmentVars, threadVars
  <2>3. SegmentsInv'
    BY <1>5 DEF CreateFails, TypeOK, SegmentsInv, SegmentAt, Longer, AtMost, Numbers, optionVars, segmentVars, threadVars
  <2>4. LoopsInv'
    BY <1>5 DEF CreateFails, TypeOK, LoopsInv, optionVars, segmentVars, threadVars
  <2>5. MutexInv'
    BY <1>5 DEF CreateFails, TypeOK, MutexInv, Inside, optionVars, segmentVars, threadVars
  <2>6. PrintedInv'
    BY <1>5 DEF CreateFails, TypeOK, PrintedInv, optionVars, segmentVars, threadVars
  <2> QED BY <2>1, <2>2, <2>3, <2>4, <2>5, <2>6 DEF SieveInv
<1>6. CASE Join
  <2>a. /\ pc = "join" /\ next \in Threads /\ next \in Nat /\ num_threads \in Nat /\ next <= num_threads
        /\ num_threads <= 2 * get_nprocs /\ tpc[next] = "exit" /\ \A i \in 1 .. next - 1 : tpc[i] = "exit"
    BY <1>6 DEF Join, TypeOK, LoopsInv, OptionsInv, Accepted
  <2>b. /\ IF next = num_threads THEN pc' = "print" /\ next' = next ELSE next' = next + 1 /\ pc' = "join"
        /\ num_threads' = num_threads /\ tpc' = tpc /\ next' \in Threads /\ pc' \in {"print", "join"}
    <3>1. /\ IF next = num_threads THEN pc' = "print" /\ next' = next ELSE next' = next + 1 /\ pc' = "join"
          /\ num_threads' = num_threads /\ tpc' = tpc
      BY <1>6 DEF Join, segmentVars, threadVars
    <3> QED BY <2>a, <3>1 DEF Threads
  <2>1. TypeOK'
    BY <1>6, <2>a, <2>b DEF Join, TypeOK, optionVars, segmentVars, threadVars
  <2>2. OptionsInv'
    BY <1>6 DEF Join, TypeOK, OptionsInv, GivenOptions, Accepted, Numbers, optionVars, segmentVars, threadVars
  <2>3. SegmentsInv'
    BY <1>6 DEF Join, TypeOK, SegmentsInv, SegmentAt, Longer, AtMost, Numbers, optionVars, segmentVars, threadVars
  <2>4. LoopsInv'
    <3>1. CASE next = num_threads
      <4>1. \A i \in 1 .. num_threads : tpc[i] = "exit"
        BY <2>a, <3>1
      <4> QED BY <2>b, <3>1, <4>1 DEF LoopsInv
    <3>2. CASE next # num_threads
      <4>1. pc' = "join" /\ next' = next + 1 /\ next + 1 <= num_threads /\ next + 1 - 1 = next
        BY <2>a, <2>b, <3>2
      <4>2. \A i \in 1 .. next : tpc[i] = "exit"
        BY <2>a
      <4>3. \A i \in 1 .. next' - 1 : tpc'[i] = "exit"
        BY <2>a, <2>b, <4>1, <4>2
      <4>4. \A i \in Threads : i > num_threads' => tpc'[i] = "none"
        BY <2>b DEF LoopsInv
      <4> QED BY <2>b, <4>1, <4>3, <4>4 DEF LoopsInv
    <3> QED BY <3>1, <3>2
  <2>5. MutexInv'
    BY <1>6 DEF Join, TypeOK, MutexInv, Inside, optionVars, segmentVars, threadVars
  <2>6. PrintedInv'
    BY <1>6 DEF Join, TypeOK, PrintedInv, optionVars, segmentVars, threadVars
  <2> QED BY <2>1, <2>2, <2>3, <2>4, <2>5, <2>6 DEF SieveInv
<1>7. CASE PrintTotal
  <2>1. TypeOK'
    BY <1>7 DEF PrintTotal, TypeOK, optionVars, segmentVars, threadVars
  <2>2. OptionsInv'
    BY <1>7 DEF PrintTotal, TypeOK, OptionsInv, GivenOptions, Accepted, Numbers, optionVars, segmentVars, threadVars
  <2>3. SegmentsInv'
    BY <1>7 DEF PrintTotal, TypeOK, SegmentsInv, SegmentAt, Longer, AtMost, Numbers, optionVars, segmentVars, threadVars
  <2>4. LoopsInv'
    BY <1>7 DEF PrintTotal, TypeOK, LoopsInv, optionVars, segmentVars, threadVars
  <2>5. MutexInv'
    BY <1>7 DEF PrintTotal, TypeOK, MutexInv, Inside, optionVars, segmentVars, threadVars
  <2>6. PrintedInv'
    <3>1. total_count = 1 .. num_threads
      <4>1. 1 .. num_threads \subseteq Threads /\ \A i \in 1 .. num_threads : tpc[i] = "exit"
        BY <1>7 DEF PrintTotal, TypeOK, LoopsInv, OptionsInv, Accepted, Threads
      <4>2. \A i \in Threads : i \notin 1 .. num_threads => tpc[i] = "none"
        BY DEF LoopsInv, TypeOK
      <4> QED BY <4>1, <4>2 DEF MutexInv, TypeOK
    <3>2. num_threads > 0 /\ Len(targs) = num_threads
      BY <1>7 DEF PrintTotal, SegmentsInv
    <3> QED BY <1>7, <3>1, <3>2 DEF PrintTotal, PrintedInv, segmentVars
  <2> QED BY <2>1, <2>2, <2>3, <2>4, <2>5, <2>6 DEF SieveInv
<1> QED BY <1>1, <1>2, <1>3, <1>4, <1>5, <1>6, <1>7 DEF Main

LEMMA SieveThread == ASSUME SieveInv, NEW i \in Threads, sieve(i) PROVE SieveInv'
<1> USE SieveAssumption, NullIsNoThread DEF SieveInv
<1>1. CASE Counted(i)
  <2>1. TypeOK'
    BY <1>1 DEF Counted, At, TypeOK, optionVars, segmentVars, threadVars
  <2>2. OptionsInv'
    BY <1>1 DEF Counted, At, TypeOK, OptionsInv, GivenOptions, Accepted, Numbers, optionVars, segmentVars, threadVars
  <2>3. SegmentsInv'
    BY <1>1 DEF Counted, At, TypeOK, SegmentsInv, SegmentAt, Longer, AtMost, Numbers, optionVars, segmentVars, threadVars
  <2>4. LoopsInv'
    BY <1>1 DEF Counted, At, TypeOK, LoopsInv, optionVars, segmentVars, threadVars
  <2>5. MutexInv'
    BY <1>1 DEF Counted, At, TypeOK, MutexInv, Inside, optionVars, segmentVars, threadVars
  <2>6. PrintedInv'
    BY <1>1 DEF Counted, At, TypeOK, PrintedInv, optionVars, segmentVars, threadVars
  <2> QED BY <2>1, <2>2, <2>3, <2>4, <2>5, <2>6 DEF SieveInv
<1>2. CASE Segfault(i)
  <2>1. TypeOK'
    BY <1>2 DEF Segfault, At, TypeOK, optionVars, segmentVars, threadVars
  <2>2. OptionsInv'
    BY <1>2 DEF Segfault, At, TypeOK, OptionsInv, GivenOptions, Accepted, Numbers, optionVars, segmentVars, threadVars
  <2>3. SegmentsInv'
    BY <1>2 DEF Segfault, At, TypeOK, SegmentsInv, SegmentAt, Longer, AtMost, Numbers, optionVars, segmentVars, threadVars
  <2>4. LoopsInv'
    BY <1>2 DEF Segfault, At, TypeOK, LoopsInv, optionVars, segmentVars, threadVars
  <2>5. MutexInv'
    BY <1>2 DEF Segfault, At, TypeOK, MutexInv, Inside, optionVars, segmentVars, threadVars
  <2>6. PrintedInv'
    BY <1>2 DEF Segfault, At, TypeOK, PrintedInv, optionVars, segmentVars, threadVars
  <2> QED BY <2>1, <2>2, <2>3, <2>4, <2>5, <2>6 DEF SieveInv
<1>3. CASE Lock(i)
  <2>1. TypeOK'
    BY <1>3 DEF Lock, At, TypeOK, optionVars, segmentVars, threadVars
  <2>2. OptionsInv'
    BY <1>3 DEF Lock, At, TypeOK, OptionsInv, GivenOptions, Accepted, Numbers, optionVars, segmentVars, threadVars
  <2>3. SegmentsInv'
    BY <1>3 DEF Lock, At, TypeOK, SegmentsInv, SegmentAt, Longer, AtMost, Numbers, optionVars, segmentVars, threadVars
  <2>4. LoopsInv'
    BY <1>3 DEF Lock, At, TypeOK, LoopsInv, optionVars, segmentVars, threadVars
  <2>5. MutexInv'
    BY <1>3 DEF Lock, At, TypeOK, MutexInv, Inside, optionVars, segmentVars, threadVars
  <2>6. PrintedInv'
    BY <1>3 DEF Lock, At, TypeOK, PrintedInv, optionVars, segmentVars, threadVars
  <2> QED BY <2>1, <2>2, <2>3, <2>4, <2>5, <2>6 DEF SieveInv
<1>4. CASE Load(i)
  <2>1. TypeOK'
    BY <1>4 DEF Load, At, TypeOK, optionVars, segmentVars, threadVars
  <2>2. OptionsInv'
    BY <1>4 DEF Load, At, TypeOK, OptionsInv, GivenOptions, Accepted, Numbers, optionVars, segmentVars, threadVars
  <2>3. SegmentsInv'
    BY <1>4 DEF Load, At, TypeOK, SegmentsInv, SegmentAt, Longer, AtMost, Numbers, optionVars, segmentVars, threadVars
  <2>4. LoopsInv'
    BY <1>4 DEF Load, At, TypeOK, LoopsInv, optionVars, segmentVars, threadVars
  <2>5. MutexInv'
    BY <1>4 DEF Load, At, TypeOK, MutexInv, Inside, optionVars, segmentVars, threadVars
  <2>6. PrintedInv'
    BY <1>4 DEF Load, At, TypeOK, PrintedInv, optionVars, segmentVars, threadVars
  <2> QED BY <2>1, <2>2, <2>3, <2>4, <2>5, <2>6 DEF SieveInv
<1>5. CASE Store(i)
  <2>1. TypeOK'
    BY <1>5 DEF Store, At, TypeOK, optionVars, segmentVars, threadVars
  <2>2. OptionsInv'
    BY <1>5 DEF Store, At, TypeOK, OptionsInv, GivenOptions, Accepted, Numbers, optionVars, segmentVars, threadVars
  <2>3. SegmentsInv'
    BY <1>5 DEF Store, At, TypeOK, SegmentsInv, SegmentAt, Longer, AtMost, Numbers, optionVars, segmentVars, threadVars
  <2>4. LoopsInv'
    BY <1>5 DEF Store, At, TypeOK, LoopsInv, optionVars, segmentVars, threadVars
  <2>5. MutexInv'
    BY <1>5 DEF Store, At, TypeOK, MutexInv, Inside, optionVars, segmentVars, threadVars
  <2>6. PrintedInv'
    BY <1>5 DEF Store, At, TypeOK, PrintedInv, optionVars, segmentVars, threadVars
  <2> QED BY <2>1, <2>2, <2>3, <2>4, <2>5, <2>6 DEF SieveInv
<1>6. CASE Unlock(i)
  <2>1. TypeOK'
    BY <1>6 DEF Unlock, At, TypeOK, optionVars, segmentVars, threadVars
  <2>2. OptionsInv'
    BY <1>6 DEF Unlock, At, TypeOK, OptionsInv, GivenOptions, Accepted, Numbers, optionVars, segmentVars, threadVars
  <2>3. SegmentsInv'
    BY <1>6 DEF Unlock, At, TypeOK, SegmentsInv, SegmentAt, Longer, AtMost, Numbers, optionVars, segmentVars, threadVars
  <2>4. LoopsInv'
    BY <1>6 DEF Unlock, At, TypeOK, LoopsInv, optionVars, segmentVars, threadVars
  <2>5. MutexInv'
    BY <1>6 DEF Unlock, At, TypeOK, MutexInv, Inside, optionVars, segmentVars, threadVars
  <2>6. PrintedInv'
    BY <1>6 DEF Unlock, At, TypeOK, PrintedInv, optionVars, segmentVars, threadVars
  <2> QED BY <2>1, <2>2, <2>3, <2>4, <2>5, <2>6 DEF SieveInv
<1> QED BY <1>1, <1>2, <1>3, <1>4, <1>5, <1>6 DEF sieve

LEMMA SieveNext == ASSUME SieveInv, [Next]_vars PROVE SieveInv'
<1>1. CASE Next
  BY <1>1, SieveCommandLine, SieveMain, SieveThread DEF Next
<1>2. CASE UNCHANGED vars
  <2> USE <1>2 DEF vars, optionVars, segmentVars, threadVars
  <2>1. TypeOK'
    BY DEF SieveInv, TypeOK
  <2>2. OptionsInv'
    BY DEF SieveInv, OptionsInv, GivenOptions, Accepted, Numbers
  <2>3. SegmentsInv'
    BY DEF SieveInv, SegmentsInv, SegmentAt, Longer, AtMost, Numbers
  <2>4. LoopsInv' /\ MutexInv' /\ PrintedInv'
    BY DEF SieveInv, LoopsInv, MutexInv, PrintedInv, Inside
  <2> QED BY <2>1, <2>2, <2>3, <2>4 DEF SieveInv
<1> QED BY <1>1, <1>2

LEMMA SieveInvariant == Spec => []SieveInv
<1>1. Init => SieveInv
  BY SieveInit
<1>2. SieveInv /\ [Next]_vars => SieveInv'
  BY SieveNext
<1> QED BY <1>1, <1>2, PTL DEF Spec

\* The types of mtsieve's variables: in particular no segment has a negative
\* length.
THEOREM SieveTypeCorrect == Spec => []TypeOK
<1>1. SieveInv => TypeOK
  BY DEF SieveInv
<1> QED BY <1>1, SieveInvariant, PTL

\* Only a range and a number of threads that main can work on pass its checks
\* (mtsieve.c:186-220), whatever options are given, repeated or left out.
THEOREM OptionsChecked == Spec => []AcceptedIsSound
<1>1. SieveInv => AcceptedIsSound
  <2> SUFFICES ASSUME SieveInv, num_threads > 0
               PROVE  /\ given = {"s", "e", "t"} /\ 2 <= inputS /\ inputS <= inputE
                      /\ num_threads <= inputT /\ num_threads <= 2 * get_nprocs
    BY DEF AcceptedIsSound
  <2>1. /\ 2 <= inputS /\ inputS <= inputE /\ num_threads <= inputT /\ inputT <= 2 * get_nprocs
        /\ inputS \in Nat /\ inputE \in Nat /\ inputT \in Nat /\ num_threads \in Nat
        /\ given \subseteq {"s", "e", "t"}
    BY DEF SieveInv, TypeOK, OptionsInv, Accepted
  <2>2. inputS > 0 /\ inputE > 0 /\ inputT > 0
    BY <2>1
  <2>3. given = {"s", "e", "t"}
    BY <2>1, <2>2 DEF SieveInv, OptionsInv, GivenOptions
  <2> QED BY <2>1, <2>3, SieveAssumption
<1> QED BY <1>1, SieveInvariant, PTL

\* After the segments are made they are the partition Partition describes.
LEMMA PartitionMade ==
    ASSUME SieveInv, num_threads > 0, Len(targs) = num_threads
    PROVE  /\ targs[1].start = inputS /\ targs[num_threads].end = inputE
           /\ \A i \in 1 .. num_threads : targs[i].start <= targs[i].end
           /\ \A i \in 1 .. num_threads - 1 : targs[i + 1].start = targs[i].end + 1
           /\ \A i, j \in 1 .. num_threads :
                 (targs[i].end - targs[i].start) - (targs[j].end - targs[j].start) <= 1
<1> DEFINE n == num_threads
           q == section_length + 1
<1>1. n \in Nat \ {0} /\ Len(targs) = n /\ q \in Nat /\ inputS \in Nat /\ inputE \in Nat
  BY DEF SieveInv, TypeOK, SegmentsInv
<1>s. targs \in Seq(Segments)
  BY DEF SieveInv, TypeOK
<1>2. Numbers \in Nat /\ n <= Numbers /\ q = Numbers \div n
  BY <1>1 DEF SieveInv, OptionsInv, Accepted, Numbers
<1>3. q > 0 /\ Longer \in 0 .. n - 1 /\ Numbers = n * q + Longer
  <2>1. Numbers % n \in 0 .. n - 1 /\ Numbers \div n \in Nat \ {0} /\ Numbers = n * (Numbers \div n) + (Numbers % n)
    BY <1>1, <1>2, Division
  <2> QED BY <1>2, <2>1 DEF Longer
<1>4. \A i \in 1 .. n : SegmentAt(i)
  BY <1>1 DEF SieveInv, SegmentsInv
<1>5. \A i \in 1 .. n : targs[i].end - targs[i].start = q - 1 + (IF i <= Longer THEN 1 ELSE 0)
  <2> TAKE i \in 1 .. n
  <2> DEFINE u == i * q
             x == AtMost(i - 1, Longer)
             y == AtMost(i, Longer)
  <2>1. (i - 1) * q = u - q /\ u \in Int
    BY <1>1
  <2>2. targs[i].start = inputS + (u - q) + x /\ targs[i].end = inputS + u + y - 1
    BY <1>4, <2>1 DEF SegmentAt
  <2>3. Longer \in Nat
    BY <1>1, <1>3
  <2>4. x \in Int /\ y = x + (IF i <= Longer THEN 1 ELSE 0)
    BY <2>3 DEF AtMost
  <2>5. q \in Nat /\ inputS \in Nat
    BY <1>1
  <2> HIDE DEF u, x, y, q
  <2> QED BY <2>1, <2>2, <2>4, <2>5
<1>6. targs[1].start = inputS
  <2>1. targs[1].start = inputS + 0 * q + AtMost(0, Longer)
    BY <1>1, <1>4 DEF SegmentAt
  <2> QED BY <1>1, <1>3, <2>1 DEF AtMost
<1>7. targs[n].end = inputE
  BY <1>1, <1>3, <1>4 DEF SegmentAt, AtMost, Numbers
<1>8. \A i \in 1 .. n : targs[i].start \in Int /\ targs[i].end \in Int
  <2>1. \A i \in 1 .. n : targs[i] \in Segments
    BY <1>1, <1>s
  <2> QED BY <2>1 DEF Segments
<1>9. \A i \in 1 .. n - 1 : targs[i + 1].start = targs[i].end + 1
  <2> TAKE i \in 1 .. n - 1
  <2>1. targs[i + 1].start = inputS + (i + 1 - 1) * q + AtMost(i + 1 - 1, Longer)
    <3>1. i + 1 \in 1 .. n
      BY <1>1
    <3> QED BY <1>4, <3>1 DEF SegmentAt
  <2>2. targs[i].end = inputS + i * q + AtMost(i, Longer) - 1 /\ i + 1 - 1 = i /\ i * q \in Int
    BY <1>1, <1>4 DEF SegmentAt
  <2> QED BY <1>1, <1>3, <2>1, <2>2 DEF AtMost
<1>10. \A i, j \in 1 .. n : (targs[i].end - targs[i].start) - (targs[j].end - targs[j].start) <= 1
  BY <1>1, <1>5
<1>11. \A i \in 1 .. n : targs[i].start <= targs[i].end
  BY <1>1, <1>3, <1>5, <1>8
<1> QED BY <1>1, <1>6, <1>7, <1>9, <1>10, <1>11

LEMMA PartitionAtCreate == SieveInv => Partition
<1> SUFFICES ASSUME SieveInv, pc \in {"create", "join", "print"}
             PROVE  Partition
  BY DEF Partition
<1>1. num_threads > 0 /\ Len(targs) = num_threads
  BY DEF SieveInv, SegmentsInv
<1> QED BY <1>1, PartitionMade DEF Partition

\* The segments main computes (mtsieve.c:232-267) are a partition of [s, e]
\* into intervals of nearly equal length, for every range and every number of
\* threads.
THEOREM SegmentsPartition == Spec => []Partition
BY PartitionAtCreate, SieveInvariant, PTL

\* The mutex around total_count += partial_count (mtsieve.c:83-91) and the
\* joins before the output: the total contains the part of every thread, for
\* any number of threads.
THEOREM EveryPartCounted == Spec => []NoCountLost
<1>1. SieveInv => NoCountLost
  BY DEF SieveInv, PrintedInv, NoCountLost
<1> QED BY <1>1, SieveInvariant, PTL

-----------------------------------------------------------------------------
(* Induction.                                                              *)

LEMMA LeastNatural ==
    ASSUME NEW T \in SUBSET Nat, T # {}
    PROVE  \E x \in T : \A y \in T : x <= y
<1> DEFINE R == {ss \in Nat \X Nat : ss[1] < ss[2]}
<1>1. IsWellFoundedOn(R, Nat) /\ T \subseteq Nat
  BY NatLessThanWellFounded DEF OpToRel
<1>2. \A y, x \in Nat : y < x => <<y, x>> \in R
  OBVIOUS
<1> HIDE DEF R
<1>3. PICK x \in T : \A y \in T : <<y, x>> \notin R
  BY <1>1, WFMin
<1>4. \A y \in T : x <= y
  <2> TAKE y \in T
  <2>1. x \in Nat /\ y \in Nat /\ ~(y < x)
    BY <1>2, <1>3
  <2> QED BY <2>1
<1> QED BY <1>4

\* A set that contains 0 and the successor of each number in it contains all.
LEMMA InductionOnSets ==
    ASSUME NEW S, 0 \in S, \A n \in Nat : n \in S => n + 1 \in S
    PROVE  Nat \subseteq S
<1> SUFFICES ASSUME Nat \ S # {} PROVE FALSE
  OBVIOUS
<1>1. PICK x \in Nat \ S : \A y \in Nat \ S : x <= y
  BY LeastNatural
<1>2. x - 1 \in Nat /\ (x - 1) + 1 = x /\ ~(x <= x - 1)
  OBVIOUS
<1>3. x - 1 \in S
  BY <1>1, <1>2
<1> QED BY <1>2, <1>3

LEMMA GreatestNatural ==
    ASSUME NEW m \in Nat, NEW T \in SUBSET (0 .. m), T # {}
    PROVE  \E x \in T : \A y \in T : x >= y
<1> DEFINE U == {m - x : x \in T}
<1>1. U \in SUBSET Nat /\ U # {}
  <2>1. \A x \in T : m - x \in Nat /\ x \in Nat
    OBVIOUS
  <2> QED BY <2>1
<1> HIDE DEF U
<1>2. PICK u \in U : \A v \in U : u <= v
  BY <1>1, LeastNatural
<1>3. PICK x \in T : u = m - x
  BY <1>2 DEF U
<1>4. \A y \in T : x >= y
  <2> TAKE y \in T
  <2>1. m - y \in U
    BY DEF U
  <2>2. m - x <= m - y
    BY <1>2, <1>3, <2>1
  <2> QED BY <2>2
<1> QED BY <1>4

-----------------------------------------------------------------------------
(* Divisors.                                                               *)

\* Multiples of q grow with their factor.
LEMMA Multiples ==
    ASSUME NEW i \in Nat, NEW n \in Nat, NEW q \in Nat, i <= n
    PROVE  i * q \in Nat /\ i * q <= n * q
<1>1. n * q = i * q + (n - i) * q
  OBVIOUS
<1>2. (n - i) * q \in Nat /\ i * q \in Nat
  OBVIOUS
<1> QED BY <1>1, <1>2

\* The quotient rounded up by the code's (a + p - 1) / p.
LEMMA RoundedUp ==
    ASSUME NEW x \in Nat, NEW p \in Nat \ {0}
    PROVE  x \div p \in Nat /\ p * (x \div p) <= x /\ x < p * (x \div p) + p
<1>1. x = p * (x \div p) + (x % p) /\ x % p \in 0 .. p - 1 /\ x \div p \in Nat
  OBVIOUS
<1> QED BY <1>1

\* What a remainder of 0 means.
LEMMA Divides ==
    ASSUME NEW x \in Nat, NEW p \in Nat \ {0}, x % p = 0
    PROVE  x \div p \in Nat /\ x = p * (x \div p)
<1>1. x = p * (x \div p) + (x % p) /\ x \div p \in Nat
  OBVIOUS
<1> QED BY <1>1

LEMMA NoRemainder ==
    ASSUME NEW p \in Nat \ {0}, NEW m \in Nat
    PROVE  p * m \in Nat /\ (p * m) % p = 0
<1> DEFINE x == p * m
           q == x \div p
           r == x % p
<1>1. x \in Nat /\ q \in Nat /\ r \in 0 .. p - 1 /\ x = p * q + r
  OBVIOUS
<1>2. q <= m
  <2> SUFFICES ASSUME m + 1 <= q PROVE FALSE
    BY <1>1
  <2>1. (m + 1) * p <= q * p
    <3> HIDE DEF q
    <3> QED BY <1>1, Multiples
  <2>2. (m + 1) * p = x + p /\ q * p = p * q
    <3> HIDE DEF q
    <3> QED BY <1>1
  <2> HIDE DEF x, q, r
  <2> QED BY <1>1, <2>1, <2>2
<1>3. m <= q
  <2> SUFFICES ASSUME q + 1 <= m PROVE FALSE
    BY <1>1
  <2>1. (q + 1) * p <= m * p
    <3> HIDE DEF q
    <3> QED BY <1>1, Multiples
  <2>2. (q + 1) * p = p * q + p /\ m * p = x
    <3> HIDE DEF q
    <3> QED BY <1>1
  <2> HIDE DEF x, q, r
  <2> QED BY <1>1, <2>1, <2>2
<1>4. q = m
  <2> HIDE DEF q
  <2> QED BY <1>1, <1>2, <1>3
<1>5. p * q = x
  BY <1>4
<1> HIDE DEF x, q, r
<1>6. r = 0
  BY <1>1, <1>5
<1> QED BY <1>1, <1>6 DEF x, r

\* The least divisor of a number that is not a prime is a prime, and at most
\* the number's root.
LEMMA LeastDivisor ==
    ASSUME NEW n \in Nat, n >= 2, ~IsPrime(n)
    PROVE  \E d \in 2 .. n - 1 : n % d = 0 /\ IsPrime(d) /\ d * d <= n
<1> DEFINE D == {d \in 2 .. n - 1 : n % d = 0}
<1>1. D \in SUBSET Nat /\ D # {}
  BY DEF IsPrime
<1>2. PICK d \in D : \A e \in D : d <= e
  BY <1>1, LeastNatural
<1> DEFINE q == n \div d
<1>3. d \in 2 .. n - 1 /\ n % d = 0 /\ q \in Nat /\ n = d * q
  BY <1>2, Divides
<1>4. IsPrime(d)
  <2> SUFFICES ASSUME NEW e \in 2 .. d - 1, d % e = 0 PROVE FALSE
    BY DEF IsPrime
  <2> DEFINE r == d \div e
  <2>1. r \in Nat /\ d = e * r
    BY <1>3, Divides
  <2>2. n = e * (r * q) /\ r * q \in Nat
    <3> HIDE DEF r, q
    <3> QED BY <1>3, <2>1
  <2>3. n % e = 0
    <3>1. (e * (r * q)) % e = 0
      <4> HIDE DEF r, q
      <4> QED BY <2>2, NoRemainder
    <3> HIDE DEF r, q
    <3> QED BY <2>2, <3>1
  <2>4. e \in D /\ e < d
    BY <1>3, <2>3
  <2>5. d <= e
    <3> HIDE DEF D
    <3> QED BY <1>2, <2>4
  <2> HIDE DEF D, q, r
  <2> QED BY <1>3, <2>4, <2>5
<1>5. q >= 2 /\ q < n
  <2> HIDE DEF q, D
  <2>1. q # 0 /\ q # 1
    BY <1>3
  <2>2. 2 * q <= d * q
    BY <1>3, Multiples
  <2> QED BY <1>3, <2>1, <2>2
<1>6. d <= q
  <2>1. (q * d) % q = 0 /\ q * d = n
    <3> HIDE DEF q, D
    <3> QED BY <1>3, <1>5, NoRemainder
  <2>2. n % q = 0 /\ q \in 2 .. n - 1
    <3> HIDE DEF q, D
    <3> QED BY <1>3, <1>5, <2>1
  <2>3. q \in D
    <3> HIDE DEF q
    <3> QED BY <2>2
  <2> QED BY <1>2, <2>3
<1>7. d * d <= n
  <2> HIDE DEF q, D
  <2>1. d * d <= q * d /\ q * d = d * q
    BY <1>3, <1>6, Multiples
  <2> QED BY <1>3, <2>1
<1> QED BY <1>3, <1>4, <1>7
-----------------------------------------------------------------------------
(* The largest index.                                                      *)

\* How far the loop that crosses out the multiples of p gets: past the end of
\* the segment by at most p.
LEMMA IndexBound ==
    ASSUME NEW a \in Nat \ {0}, NEW b \in Nat, NEW p \in Nat \ {0}, a <= b, p <= b
    PROVE  LastIndex(a, b, p) <= b - a + p
<1> DEFINE x == a + p - 1
           d == x \div p
           f == FirstMultiple(a, p)
<1>1. x \in Nat /\ d \in Nat /\ p * d <= x /\ x < p * d + p /\ p * d \in Nat /\ d * p = p * d
  <2>1. x \in Nat
    OBVIOUS
  <2>2. d \in Nat /\ p * d <= x /\ x < p * d + p
    BY <2>1, RoundedUp
  <2> HIDE DEF d
  <2> QED BY <2>1, <2>2
<1>2. f = d * p - a + (IF a <= p THEN p ELSE 0)
  BY DEF FirstMultiple
<1>3. LastIndex(a, b, p) = IF f > b - a THEN f ELSE f + (((b - a - f) \div p) + 1) * p
  BY DEF LastIndex
<1>4. f \in Int /\ f <= b - a + p
  <2>1. CASE a <= p
    <3>1. d = 1
      <4>1. d >= 1
        <5>1. d = 0 => p * d = 0
          OBVIOUS
        <5> HIDE DEF d
        <5> QED BY <1>1, <5>1
      <4>2. d < 2
        <5> SUFFICES ASSUME d >= 2 PROVE FALSE
          BY <1>1
        <5>1. 2 * p <= d * p
          <6> HIDE DEF d
          <6> QED BY <1>1, Multiples
        <5> HIDE DEF d
        <5> QED BY <1>1, <2>1, <5>1
      <4> QED BY <1>1, <4>1, <4>2
    <3> HIDE DEF d, f
    <3> QED BY <1>2, <2>1, <3>1
  <2>2. CASE a > p
    <3>1. f = p * d - a
      BY <1>1, <1>2, <2>2
    <3> HIDE DEF d, f
    <3> QED BY <1>1, <3>1
  <2> QED BY <2>1, <2>2
<1>5. CASE f <= b - a
  <2> DEFINE y == b - a - f
             e == y \div p
  <2>1. y \in Nat
    BY <1>4, <1>5
  <2>2. e \in Nat /\ p * e <= y /\ (e + 1) * p = p * e + p
    <3>1. e \in Nat /\ p * e <= y
      BY <2>1, RoundedUp
    <3> HIDE DEF e
    <3> QED BY <3>1
  <2>3. LastIndex(a, b, p) = f + (e + 1) * p
    BY <1>3, <1>4, <1>5
  <2>4. p * e <= b - a - f
    BY <2>2
  <2> HIDE DEF y, e, f
  <2> QED BY <1>4, <2>2, <2>3, <2>4
<1>6. CASE f > b - a
  BY <1>3, <1>4, <1>6
<1> QED BY <1>4, <1>5, <1>6

\* Every thread's segment is within the range of the command line.
LEMMA SegmentWithin ==
    ASSUME SieveInv, num_threads > 0, Len(targs) = num_threads, NEW i \in 1 .. num_threads
    PROVE  /\ targs[i].start \in Nat /\ targs[i].end \in Nat
           /\ inputS <= targs[i].start /\ targs[i].start <= targs[i].end /\ targs[i].end <= inputE
<1> DEFINE n == num_threads
           q == section_length + 1
<1>1. n \in Nat \ {0} /\ Len(targs) = n /\ q \in Nat /\ inputS \in Nat /\ inputE \in Nat
  BY DEF SieveInv, TypeOK, SegmentsInv
<1>2. targs[i] \in Segments
  <2>1. targs \in Seq(Segments)
    BY DEF SieveInv, TypeOK
  <2> QED BY <1>1, <2>1
<1>3. Longer \in 0 .. n - 1 /\ inputE - inputS + 1 = n * q + Longer
  <2>1. Numbers \in Nat /\ n <= Numbers /\ q = Numbers \div n
    BY <1>1 DEF SieveInv, OptionsInv, Accepted, Numbers
  <2>2. Numbers % n \in 0 .. n - 1 /\ Numbers = n * (Numbers \div n) + (Numbers % n)
    BY <1>1, <2>1, Division
  <2> QED BY <2>1, <2>2 DEF Longer, Numbers
<1>4. (i - 1) * q \in Nat /\ i * q <= n * q /\ i * q \in Nat /\ n * q \in Nat
  BY <1>1, Multiples
<1>5. /\ targs[i].start = inputS + (i - 1) * q + AtMost(i - 1, Longer)
      /\ targs[i].end = inputS + i * q + AtMost(i, Longer) - 1
  BY <1>1 DEF SieveInv, SegmentsInv, SegmentAt
<1>6. AtMost(i - 1, Longer) \in Nat /\ AtMost(i, Longer) \in Nat /\ AtMost(i, Longer) <= Longer
  BY <1>1, <1>3 DEF AtMost
<1>7. targs[i].start <= targs[i].end
  BY PartitionMade
<1> HIDE DEF n, q
<1>8. inputS <= targs[i].start
  BY <1>1, <1>4, <1>5, <1>6
<1>9. targs[i].end <= inputE
  BY <1>1, <1>3, <1>4, <1>5, <1>6
<1> QED BY <1>2, <1>7, <1>8, <1>9 DEF Segments

\* Only a crossing-out loop that overflows kills the program, and then nothing
\* else is done.
KilledInv == SafeBelowRoot /\ (retval = "killed" => pc = "exited")

LEMMA KilledBelowRoot ==
    ASSUME SieveInv, NEW i \in Threads, Segfault(i)
    PROVE  \E r \in 0 .. INT_MAX : r * r <= inputE /\ inputE - inputS + r > INT_MAX
<1> USE SieveAssumption
<1> DEFINE a == targs[i].start
           b == targs[i].end
<1>1. /\ inputS \in Nat /\ inputE \in 0 .. INT_MAX /\ num_threads \in Nat
      /\ pc \in {"create", "join", "print"} /\ i \in 1 .. num_threads
  <2>1. tpc[i] = "sieve" /\ pc # "exited"
    BY DEF Segfault
  <2> QED BY <2>1, NullIsNoThread DEF SieveInv, TypeOK, LoopsInv, Threads
<1>2. 2 <= inputS
  BY <1>1 DEF SieveInv, OptionsInv, Accepted
<1>3. a \in Nat /\ b \in Nat /\ inputS <= a /\ a <= b /\ b <= inputE
  <2>1. num_threads > 0 /\ Len(targs) = num_threads
    BY <1>1 DEF SieveInv, SegmentsInv
  <2> QED BY <1>1, <2>1, SegmentWithin
<1>4. PICK p \in low_primes(b) : LastIndex(a, b, p) > INT_MAX
  BY DEF Segfault, Overflows
<1>5. p \in Nat \ {0} /\ p <= b /\ p * p <= b
  BY <1>3, <1>4 DEF low_primes, UpToRoot
<1> HIDE DEF a, b
<1>6. LastIndex(a, b, p) <= b - a + p
  BY <1>1, <1>2, <1>3, <1>5, IndexBound
<1>7. b - a + p <= inputE - inputS + p
  BY <1>1, <1>3, <1>5
<1>8. inputE - inputS + p > INT_MAX
  <2> DEFINE l == LastIndex(a, b, p)
  <2>1. l \in Int
    BY <1>3, <1>5 DEF LastIndex, FirstMultiple
  <2>2. l > INT_MAX /\ l <= b - a + p
    BY <1>4, <1>6
  <2> HIDE DEF l
  <2> QED BY <1>1, <1>3, <1>5, <1>7, <2>1, <2>2
<1>9. p \in 0 .. INT_MAX /\ p * p <= inputE
  <2>1. p * p \in Nat
    BY <1>5
  <2> QED BY <1>1, <1>3, <1>5, <2>1
<1> QED BY <1>8, <1>9

\* The int index of sieve's crossing-out loop (mtsieve.c:62-74): the program
\* is killed for no range that is shorter than INT_MAX by the root of its end,
\* however the range is cut into segments, for any numbers and any INT_MAX.
THEOREM KilledOnlyAtTheLimit == Spec => []SafeBelowRoot
<1>1. Init => KilledInv
  BY SieveAssumption DEF Init, KilledInv, SafeBelowRoot, Messages
<1>2. SieveInv /\ KilledInv /\ [Next]_vars => KilledInv'
  <2> SUFFICES ASSUME SieveInv, KilledInv, [Next]_vars PROVE KilledInv' OBVIOUS
  <2>1. CASE retval' # "killed"
    BY <2>1 DEF KilledInv, SafeBelowRoot
  <2>2. CASE retval' = "killed" /\ retval # "killed"
    <3>1. PICK i \in Threads : Segfault(i)
      BY <2>2 DEF Next, CommandLine, Main, sieve, BadOption, Option, Refuse, Accept, Segment, Create,
                  CreateFails, Join, PrintTotal, Counted, Lock, Load, Store, Unlock, vars
    <3>2. \E r \in 0 .. INT_MAX : r * r <= inputE /\ inputE - inputS + r > INT_MAX
      BY <3>1, KilledBelowRoot
    <3>3. pc' = "exited" /\ inputS' = inputS /\ inputE' = inputE
      BY <3>1 DEF Segfault, optionVars
    <3> QED BY <3>2, <3>3 DEF KilledInv, SafeBelowRoot
  <2>3. CASE retval = "killed" /\ retval' = "killed"
    <3>1. pc = "exited"
      BY <2>3 DEF KilledInv
    <3>2. UNCHANGED <<pc, inputS, inputE>>
      BY <3>1 DEF Next, CommandLine, Main, sieve, BadOption, Option, Refuse, Accept, Segment, Create, CreateFails,
                  Join, PrintTotal, Counted, Segfault, Lock, Load, Store, Unlock, At, vars, optionVars
    <3> QED BY <2>3, <3>1, <3>2 DEF KilledInv, SafeBelowRoot
  <2> QED BY <2>1, <2>2, <2>3
<1>3. KilledInv => SafeBelowRoot
  BY DEF KilledInv
<1> QED BY <1>1, <1>2, <1>3, SieveInvariant, PTL DEF Spec
-----------------------------------------------------------------------------
(* low_primes.                                                             *)

LEMMA FourthRootPositive ==
    ASSUME NEW b \in Nat
    PROVE  FourthRoot(b) \in Nat \ {0}
<1> DEFINE S == {1} \cup {i \in UpToRoot(b) : i * i * i * i <= b}
<1>1. S \in SUBSET (0 .. b + 1) /\ S # {}
  BY DEF UpToRoot
<1>2. S \subseteq Nat \ {0}
  BY DEF UpToRoot
<1>3. FourthRoot(b) = Max(S)
  BY DEF FourthRoot
<1> HIDE DEF S
<1>4. \E x \in S : \A y \in S : x >= y
  <2>1. b + 1 \in Nat
    OBVIOUS
  <2> QED BY <1>1, <2>1, GreatestNatural
<1>5. Max(S) \in S
  BY <1>4 DEF Max
<1> QED BY <1>2, <1>3, <1>5

\* What i adds to the numbers crossed out before.
Crossing(b, before, i) ==
    before \cup
        (IF i \in before THEN {} ELSE {j \in UpToRoot(b) : j >= i * i /\ j % i = 0})
Crosses(b, h, m) ==
    h = [i \in 1 .. m |-> IF i = 1 THEN {} ELSE Crossing(b, h[i - 1], i)]

LEMMA CrossingEnds ==
    ASSUME NEW b, NEW m \in Nat
    PROVE  \E h : Crosses(b, h, m)
<1> DEFINE S == {n \in Nat : \E h : Crosses(b, h, n)}
<1>1. 0 \in S
  <2>1. Crosses(b, [i \in 1 .. 0 |-> {}], 0)
    BY DEF Crosses
  <2> QED BY <2>1
<1>2. \A n \in Nat : n \in S => n + 1 \in S
  <2> TAKE n \in Nat
  <2> HAVE n \in S
  <2>1. PICK h : Crosses(b, h, n)
    OBVIOUS
  <2> DEFINE g == [i \in 1 .. n + 1 |->
                    IF i = n + 1 THEN (IF i = 1 THEN {} ELSE Crossing(b, h[n], i)) ELSE h[i]]
  <2>2. \A i \in 1 .. n : h[i] = IF i = 1 THEN {} ELSE Crossing(b, h[i - 1], i)
    BY <2>1 DEF Crosses
  <2>3. \A i \in 1 .. n + 1 : g[i] = IF i = 1 THEN {} ELSE Crossing(b, g[i - 1], i)
    <3> TAKE i \in 1 .. n + 1
    <3>1. CASE i = 1
      BY <2>2, <3>1
    <3>2. CASE i # 1
      <4>1. g[i - 1] = h[i - 1] /\ (i # n + 1 => i \in 1 .. n /\ g[i] = h[i]) /\ i - 1 \in 1 .. n
        BY <3>2
      <4>2. i = n + 1 => g[i] = Crossing(b, h[i - 1], i)
        BY <3>2
      <4> QED BY <2>2, <3>2, <4>1, <4>2
    <3> QED BY <3>1, <3>2
  <2>4. Crosses(b, g, n + 1)
    <3>1. g = [i \in 1 .. n + 1 |-> g[i]]
      OBVIOUS
    <3> HIDE DEF g
    <3> QED BY <2>3, <3>1 DEF Crosses
  <2> QED BY <2>4
<1> HIDE DEF S
<1>3. m \in S
  BY <1>1, <1>2, InductionOnSets
<1> QED BY <1>3 DEF S

\* No prime is crossed out.
LEMMA CrossedAreMultiples ==
    ASSUME NEW b \in Nat, NEW p \in Crossed(b)
    PROVE  ~IsPrime(p)
<1> DEFINE m == FourthRoot(b)
           c == CHOOSE h : Crosses(b, h, m)
<1>1. m \in Nat \ {0}
  BY FourthRootPositive
<1>2. Crossed(b) = c[m]
  BY DEF Crossed, Crosses, Crossing
<1>3. Crosses(b, c, m)
  <2> HIDE DEF m
  <2> QED BY <1>1, CrossingEnds
<1> HIDE DEF m, c
<1>4. \A i \in 1 .. m : c[i] = IF i = 1 THEN {} ELSE Crossing(b, c[i - 1], i)
  BY <1>3 DEF Crosses
<1> DEFINE S == {i \in Nat : i + 1 <= m => \A j \in c[i + 1] : ~IsPrime(j)}
<1>5. 0 \in S
  BY <1>1, <1>4
<1>6. \A i \in Nat : i \in S => i + 1 \in S
  <2> SUFFICES ASSUME NEW i \in Nat, i \in S, i + 2 <= m, NEW j \in c[i + 2] PROVE ~IsPrime(j)
    OBVIOUS
  <2>1. c[i + 2] = Crossing(b, c[i + 1], i + 2) /\ \A k \in c[i + 1] : ~IsPrime(k)
    <3>1. i + 2 \in 1 .. m /\ i + 2 # 1 /\ i + 2 - 1 = i + 1 /\ i + 1 <= m
      BY <1>1
    <3> QED BY <1>4, <3>1
  <2>2. j \in c[i + 1] \/ (j \in UpToRoot(b) /\ j >= (i + 2) * (i + 2) /\ j % (i + 2) = 0)
    BY <2>1 DEF Crossing
  <2>3. ASSUME j \in UpToRoot(b), j >= (i + 2) * (i + 2), j % (i + 2) = 0
        PROVE  ~IsPrime(j)
    <3>1. 2 * (i + 2) <= (i + 2) * (i + 2)
      BY Multiples
    <3>2. i + 2 \in 2 .. j - 1
      BY <2>3, <3>1 DEF UpToRoot
    <3> QED BY <2>3, <3>2 DEF IsPrime
  <2> QED BY <2>1, <2>2, <2>3
<1> HIDE DEF S
<1>7. m - 1 \in S
  BY <1>1, <1>5, <1>6, InductionOnSets
<1> QED BY <1>1, <1>2, <1>7 DEF S

-----------------------------------------------------------------------------
(* high_primes.                                                            *)

\* The first number crossed out for p is p's first multiple from a on, but
\* not p itself.
LEMMA FirstIsMultiple ==
    ASSUME NEW a \in Nat \ {0}, NEW p \in Nat \ {0}, NEW m \in Nat, a <= p * m
    PROVE  /\ m >= 2 => p * m - a >= FirstMultiple(a, p)
           /\ p * m - a >= FirstMultiple(a, p) => m >= 2 \/ p < a
<1> DEFINE x == a + p - 1
           d == x \div p
           f == FirstMultiple(a, p)
           n == p * m
<1>1. x \in Nat /\ d \in Nat /\ p * d <= x /\ x < p * d + p /\ p * d \in Nat /\ d * p = p * d
  <2>1. x \in Nat
    OBVIOUS
  <2>2. d \in Nat /\ p * d <= x /\ x < p * d + p
    BY <2>1, RoundedUp
  <2> HIDE DEF d
  <2> QED BY <2>1, <2>2
<1>2. f = p * d - a + (IF a <= p THEN p ELSE 0) /\ n \in Nat
  BY <1>1 DEF FirstMultiple
<1>3. p * d <= n
  <2> HIDE DEF d
  <2>1. CASE d <= m
    <3>1. d * p <= m * p /\ m * p = p * m
      BY <1>1, <2>1, Multiples
    <3> QED BY <1>1, <3>1
  <2>2. CASE m + 1 <= d
    <3>1. (m + 1) * p <= d * p
      BY <1>1, <2>2, Multiples
    <3>2. (m + 1) * p = n + p
      OBVIOUS
    <3> HIDE DEF n
    <3> QED BY <1>1, <1>2, <3>1, <3>2
  <2> QED BY <1>1, <2>1, <2>2
<1> SUFFICES (m >= 2 => n - a >= f) /\ (n - a >= f => m >= 2 \/ p < a)
  OBVIOUS
<1>4. CASE p < a
  <2> HIDE DEF d, f, n
  <2> QED BY <1>1, <1>2, <1>3, <1>4
<1>5. CASE a <= p
  <2>1. p * d = p
    <3> HIDE DEF d
    <3>1. d # 0
      <4>1. d = 0 => p * d = 0
        OBVIOUS
      <4> QED BY <1>1, <4>1
    <3>2. d < 2
      <4> SUFFICES ASSUME 2 <= d PROVE FALSE
        BY <1>1
      <4>1. 2 * p <= d * p
        BY <1>1, Multiples
      <4> QED BY <1>1, <1>5, <4>1
    <3>3. d = 1
      BY <1>1, <3>1, <3>2
    <3> QED BY <3>3
  <2>2. m >= 2 => 2 * p <= n
    <3>1. m >= 2 => 2 * p <= m * p
      BY Multiples
    <3> QED BY <3>1
  <2>3. m < 2 => n <= p
    <3>1. m < 2 => m = 0 \/ m = 1
      OBVIOUS
    <3> QED BY <3>1
  <2> HIDE DEF d, f, n
  <2> QED BY <1>1, <1>2, <1>5, <2>1, <2>2, <2>3
<1> QED BY <1>4, <1>5

\* For every range: what is not crossed out is the primes.
LEMMA HighPrimesArePrimes ==
    ASSUME NEW a \in Nat, NEW b \in Nat, a >= 2
    PROVE  high_primes(a, b) = {n \in a .. b : IsPrime(n)}
<1> DEFINE Out(n) == \E p \in low_primes(b) : n - a >= FirstMultiple(a, p) /\ n % p = 0
<1>1. ASSUME NEW n \in a .. b, ~IsPrime(n) PROVE Out(n)
  <2>1. PICK d \in 2 .. n - 1 : n % d = 0 /\ IsPrime(d) /\ d * d <= n
    BY <1>1, LeastDivisor
  <2>2. d \in low_primes(b)
    <3>1. d \in UpToRoot(b)
      <4>1. d * d \in Nat
        BY <2>1
      <4> QED BY <2>1, <4>1 DEF UpToRoot
    <3>2. d \notin Crossed(b)
      BY <2>1, CrossedAreMultiples
    <3> QED BY <3>1, <3>2 DEF low_primes
  <2> DEFINE m == n \div d
  <2>3. m \in Nat /\ n = d * m
    BY <2>1, Divides
  <2> HIDE DEF m
  <2>4. m >= 2
    <3>1. m # 0 /\ m # 1
      BY <2>1, <2>3
    <3> QED BY <2>3, <3>1
  <2>5. d * m - a >= FirstMultiple(a, d)
    <3>1. a \in Nat \ {0} /\ d \in Nat \ {0} /\ a <= d * m
      BY <2>1, <2>3
    <3> QED BY <2>3, <2>4, <3>1, FirstIsMultiple
  <2>6. n - a >= FirstMultiple(a, d)
    BY <2>3, <2>5
  <2> QED BY <2>1, <2>2, <2>6
<1>2. ASSUME NEW n \in a .. b, Out(n) PROVE ~IsPrime(n)
  <2>1. PICK p \in low_primes(b) : n - a >= FirstMultiple(a, p) /\ n % p = 0
    BY <1>2
  <2>2. p \in Nat /\ p >= 2
    BY <2>1 DEF low_primes, UpToRoot
  <2> DEFINE m == n \div p
  <2>3. m \in Nat /\ n = p * m
    BY <2>1, <2>2, Divides
  <2> HIDE DEF m
  <2>4. p * m - a >= FirstMultiple(a, p)
    BY <2>1, <2>3
  <2>5. m >= 2 \/ p < a
    BY <2>2, <2>3, <2>4, FirstIsMultiple
  <2>6. p < n
    <3>1. m >= 2 => 2 * p <= m * p /\ m * p = p * m
      BY <2>2, <2>3, Multiples
    <3> QED BY <2>2, <2>3, <2>5, <3>1
  <2>7. p \in 2 .. n - 1
    BY <2>2, <2>6
  <2> QED BY <2>1, <2>7 DEF IsPrime
<1>3. high_primes(a, b) = {n \in a .. b : ~Out(n)}
  BY DEF high_primes
<1> HIDE DEF Out
<1> QED BY <1>1, <1>2, <1>3

-----------------------------------------------------------------------------
(* hasThrees.                                                              *)

IsThree(d) == IF d % 10 = 3 THEN 1 ELSE 0
CountsThrees(h, m) == h = [n \in 0 .. m |-> IF n = 0 THEN 0 ELSE h[n \div 10] + IsThree(n)]

LEMMA TenthIsLess ==
    ASSUME NEW n \in Nat
    PROVE  n \div 10 \in Nat /\ n \div 10 <= n /\ (n # 0 => n \div 10 < n)
OBVIOUS

LEMMA CountingEnds ==
    ASSUME NEW m \in Nat
    PROVE  \E h : CountsThrees(h, m)
<1> DEFINE S == {n \in Nat : \E h : CountsThrees(h, n)}
<1>1. 0 \in S
  <2>1. CountsThrees([n \in 0 .. 0 |-> 0], 0)
    BY DEF CountsThrees
  <2> QED BY <2>1
<1>2. \A n \in Nat : n \in S => n + 1 \in S
  <2> TAKE n \in Nat
  <2> HAVE n \in S
  <2>1. PICK h : CountsThrees(h, n)
    OBVIOUS
  <2> DEFINE g == [k \in 0 .. n + 1 |-> IF k = n + 1 THEN h[k \div 10] + IsThree(k) ELSE h[k]]
  <2>2. \A k \in 0 .. n : h[k] = IF k = 0 THEN 0 ELSE h[k \div 10] + IsThree(k)
    BY <2>1 DEF CountsThrees
  <2>3. \A k \in 0 .. n + 1 : g[k] = IF k = 0 THEN 0 ELSE g[k \div 10] + IsThree(k)
    <3> TAKE k \in 0 .. n + 1
    <3>1. k # 0 => k \div 10 \in 0 .. n
      BY TenthIsLess
    <3>2. k # 0 => g[k \div 10] = h[k \div 10]
      BY <3>1
    <3> QED BY <2>2, <3>2
  <2>4. CountsThrees(g, n + 1)
    <3>1. g = [k \in 0 .. n + 1 |-> g[k]]
      OBVIOUS
    <3> HIDE DEF g
    <3> QED BY <2>3, <3>1 DEF CountsThrees
  <2> QED BY <2>4
<1> HIDE DEF S
<1>3. m \in S
  BY <1>1, <1>2, InductionOnSets
<1> QED BY <1>3 DEF S

LEMMA ThreesByDigit ==
    ASSUME NEW n \in 0 .. INT_MAX
    PROVE  Threes[n] = IF n = 0 THEN 0 ELSE Threes[n \div 10] + IsThree(n)
<1>1. \E h : CountsThrees(h, INT_MAX)
  BY SieveAssumption, CountingEnds
<1>2. Threes = CHOOSE h : CountsThrees(h, INT_MAX)
  BY DEF Threes, CountsThrees, IsThree
<1>3. CountsThrees(Threes, INT_MAX)
  BY <1>1, <1>2
<1> QED BY <1>3 DEF CountsThrees

\* hasThrees counts the digits from the last one on, until nothing is left.
LEMMA HasThreesCounts ==
    ASSUME NEW n \in 0 .. INT_MAX
    PROVE  hasThrees(n) <=> TwoDigitsThree(n)
<1>1. \A k \in 0 .. INT_MAX :
          k \div 10 \in 0 .. INT_MAX /\ Threes[k] = Threes[k \div 10] + IsThree(k)
  <2> TAKE k \in 0 .. INT_MAX
  <2>1. k \div 10 \in 0 .. INT_MAX
    BY SieveAssumption, TenthIsLess
  <2>2. CASE k # 0
    BY <2>1, <2>2, ThreesByDigit
  <2>3. CASE k = 0
    <3>1. Threes[0] = 0
      BY <2>3, ThreesByDigit
    <3>2. IsThree(0) = 0 /\ 0 \div 10 = 0
      BY DEF IsThree
    <3> QED BY <2>1, <2>3, <3>1, <3>2
  <2> QED BY <2>2, <2>3
<1>2. Threes[0] = 0
  BY SieveAssumption, ThreesByDigit
<1> DEFINE n1 == n \div 10
           n2 == n \div 100
           n3 == n \div 1000
           n4 == n \div 10000
           n5 == n \div 100000
           n6 == n \div 1000000
           n7 == n \div 10000000
           n8 == n \div 100000000
           n9 == n \div 1000000000
<1>3. /\ n1 \div 10 = n2 /\ n2 \div 10 = n3 /\ n3 \div 10 = n4 /\ n4 \div 10 = n5
      /\ n5 \div 10 = n6 /\ n6 \div 10 = n7 /\ n7 \div 10 = n8 /\ n8 \div 10 = n9
      /\ n9 \div 10 = 0 /\ n \in Nat
  <2>1. n \in Nat /\ n <= 2147483647
    BY SieveAssumption, TenDigits, SMT
  <2> QED BY <2>1, SMT
<1>4. Threes[n] = IsThree(n) + IsThree(n1) + IsThree(n2) + IsThree(n3) + IsThree(n4) + IsThree(n5)
                  + IsThree(n6) + IsThree(n7) + IsThree(n8) + IsThree(n9)
  <2>0. \A k : IsThree(k) \in {0, 1}
    BY DEF IsThree
  <2>1. Threes[n] = Threes[n1] + IsThree(n) /\ n1 \in 0 .. INT_MAX
    BY <1>1
  <2> HIDE DEF n1, n2, n3, n4, n5, n6, n7, n8, n9
  <2>2. Threes[n1] = Threes[n2] + IsThree(n1) /\ n2 \in 0 .. INT_MAX
    BY <1>1, <1>3, <2>1
  <2>3. Threes[n2] = Threes[n3] + IsThree(n2) /\ n3 \in 0 .. INT_MAX
    BY <1>1, <1>3, <2>2
  <2>4. Threes[n3] = Threes[n4] + IsThree(n3) /\ n4 \in 0 .. INT_MAX
    BY <1>1, <1>3, <2>3
  <2>5. Threes[n4] = Threes[n5] + IsThree(n4) /\ n5 \in 0 .. INT_MAX
    BY <1>1, <1>3, <2>4
  <2>6. Threes[n5] = Threes[n6] + IsThree(n5) /\ n6 \in 0 .. INT_MAX
    BY <1>1, <1>3, <2>5
  <2>7. Threes[n6] = Threes[n7] + IsThree(n6) /\ n7 \in 0 .. INT_MAX
    BY <1>1, <1>3, <2>6
  <2>8. Threes[n7] = Threes[n8] + IsThree(n7) /\ n8 \in 0 .. INT_MAX
    BY <1>1, <1>3, <2>7
  <2>9. Threes[n8] = Threes[n9] + IsThree(n8) /\ n9 \in 0 .. INT_MAX
    BY <1>1, <1>3, <2>8
  <2>10. Threes[n9] = IsThree(n9)
    BY <1>1, <1>2, <1>3, <2>0, <2>9
  <2> QED BY <2>0, <2>1, <2>2, <2>3, <2>4, <2>5, <2>6, <2>7, <2>8, <2>9, <2>10
<1> DEFINE x(j) == (n \div j) % 10 = 3
<1>5. /\ IsThree(n) = IF x(1) THEN 1 ELSE 0
      /\ IsThree(n1) = IF x(10) THEN 1 ELSE 0
      /\ IsThree(n2) = IF x(100) THEN 1 ELSE 0
      /\ IsThree(n3) = IF x(1000) THEN 1 ELSE 0
      /\ IsThree(n4) = IF x(10000) THEN 1 ELSE 0
      /\ IsThree(n5) = IF x(100000) THEN 1 ELSE 0
      /\ IsThree(n6) = IF x(1000000) THEN 1 ELSE 0
      /\ IsThree(n7) = IF x(10000000) THEN 1 ELSE 0
      /\ IsThree(n8) = IF x(100000000) THEN 1 ELSE 0
      /\ IsThree(n9) = IF x(1000000000) THEN 1 ELSE 0
  <2>1. n \div 1 = n
    BY <1>3, SMT
  <2> QED BY <2>1, SMT DEF IsThree
<1>6. TwoDigitsThree(n) <=> \E j, k \in Places : j # k /\ x(j) /\ x(k)
  BY SMT DEF TwoDigitsThree
<1> HIDE DEF x, n1, n2, n3, n4, n5, n6, n7, n8, n9
<1> QED BY <1>4, <1>5, <1>6, SMT DEF hasThrees, Places

-----------------------------------------------------------------------------
(* What the program computes.                                              *)

\* For every range and number of threads: what is left in a thread's segment
\* after sieve's loops (mtsieve.c:42-76) is the primes in it.
THEOREM SegmentsAlwaysSieved == Spec => []SegmentsSieved
<1>1. SieveInv => SegmentsSieved
  <2> SUFFICES ASSUME SieveInv, pc = "create", NEW i \in 1 .. num_threads
               PROVE  high_primes(targs[i].start, targs[i].end)
                        = {n \in targs[i].start .. targs[i].end : IsPrime(n)}
    BY DEF SegmentsSieved
  <2>1. num_threads > 0 /\ Len(targs) = num_threads /\ 2 <= inputS /\ inputS \in Nat
    BY DEF SieveInv, SegmentsInv, OptionsInv, Accepted, TypeOK
  <2>2. targs[i].start \in Nat /\ targs[i].end \in Nat /\ inputS <= targs[i].start
    BY <2>1, SegmentWithin
  <2> QED BY <2>1, <2>2, HighPrimesArePrimes
<1> QED BY <1>1, SieveInvariant, PTL

Sums(h, c, m) == h = [k \in 0 .. m |-> IF k = 0 THEN 0 ELSE h[k - 1] + c[k]]

LEMMA SummingEnds ==
    ASSUME NEW c, NEW m \in Nat
    PROVE  \E h : Sums(h, c, m)
<1> DEFINE S == {n \in Nat : \E h : Sums(h, c, n)}
<1>1. 0 \in S
  <2>1. Sums([k \in 0 .. 0 |-> 0], c, 0)
    BY DEF Sums
  <2> QED BY <2>1
<1>2. \A n \in Nat : n \in S => n + 1 \in S
  <2> TAKE n \in Nat
  <2> HAVE n \in S
  <2>1. PICK h : Sums(h, c, n)
    OBVIOUS
  <2> DEFINE g == [k \in 0 .. n + 1 |-> IF k = n + 1 THEN h[n] + c[k] ELSE h[k]]
  <2>2. \A k \in 0 .. n : h[k] = IF k = 0 THEN 0 ELSE h[k - 1] + c[k]
    BY <2>1 DEF Sums
  <2>3. \A k \in 0 .. n + 1 : g[k] = IF k = 0 THEN 0 ELSE g[k - 1] + c[k]
    BY <2>2
  <2>4. Sums(g, c, n + 1)
    <3>1. g = [k \in 0 .. n + 1 |-> g[k]]
      OBVIOUS
    <3> HIDE DEF g
    <3> QED BY <2>3, <3>1 DEF Sums
  <2> QED BY <2>4
<1> HIDE DEF S
<1>3. m \in S
  BY <1>1, <1>2, InductionOnSets
<1> QED BY <1>3 DEF S

\* The parts add up to the number of the primes with two digits '3'.
LEMMA PartsAddUp ==
    ASSUME SieveInv, printed # NULL
    PROVE  PartsOf[num_threads] = Cardinality({n \in inputS .. inputE : IsPrime(n) /\ TwoDigitsThree(n)})
<1> DEFINE t == num_threads
           Hit(n) == IsPrime(n) /\ TwoDigitsThree(n)
           last(k) == IF k = 0 THEN inputS - 1 ELSE targs[k].end
           A(k) == {n \in inputS .. last(k) : Hit(n)}
<1>1. /\ t \in Nat \ {0} /\ t > 0 /\ Len(targs) = t /\ printed = 1 .. t
      /\ inputS \in Nat /\ 2 <= inputS /\ inputE \in 0 .. INT_MAX
  BY DEF SieveInv, PrintedInv, TypeOK, OptionsInv, Accepted
<1>2. /\ targs[1].start = inputS /\ targs[t].end = inputE
      /\ \A k \in 1 .. t - 1 : targs[k + 1].start = targs[k].end + 1
  BY <1>1, PartitionMade
<1>3. ASSUME NEW k \in 1 .. t
      PROVE  /\ targs[k].start \in Nat /\ targs[k].end \in Nat /\ targs[k].start = last(k - 1) + 1
             /\ inputS <= targs[k].start /\ targs[k].start <= targs[k].end /\ targs[k].end <= inputE
  <2>1. /\ targs[k].start \in Nat /\ targs[k].end \in Nat
        /\ inputS <= targs[k].start /\ targs[k].start <= targs[k].end /\ targs[k].end <= inputE
    BY <1>1, SegmentWithin
  <2>2. CASE k = 1
    BY <1>1, <1>2, <2>1, <2>2
  <2>3. CASE k # 1
    <3>1. k - 1 \in 1 .. t - 1 /\ k - 1 # 0 /\ (k - 1) + 1 = k
      BY <1>1, <2>3
    <3>2. targs[(k - 1) + 1].start = targs[k - 1].end + 1
      BY <1>2, <3>1
    <3> QED BY <2>1, <3>1, <3>2
  <2> QED BY <2>1, <2>2, <2>3
<1>4. /\ PartsOf[0] = 0
      /\ \A k \in 1 .. t : PartsOf[k] = PartsOf[k - 1] + Count(targs[k])
  <2> DEFINE c == [k \in 1 .. t |-> IF k \in printed THEN Count(targs[k]) ELSE 0]
             Summed(h) == h = [k \in 0 .. t |->
                                 IF k = 0 THEN 0
                                 ELSE h[k - 1] + (IF k \in printed THEN Count(targs[k]) ELSE 0)]
  <2>1. PICK h : Sums(h, c, t)
    BY <1>1, SummingEnds
  <2>2. Summed(h)
    <3>1. \A k \in 0 .. t : k # 0 => c[k] = IF k \in printed THEN Count(targs[k]) ELSE 0
      OBVIOUS
    <3> HIDE DEF c
    <3> QED BY <2>1, <3>1 DEF Sums
  <2>3. PartsOf = CHOOSE g : Summed(g)
    BY DEF PartsOf
  <2>4. Summed(PartsOf)
    <3> HIDE DEF Summed
    <3> QED BY <2>2, <2>3
  <2>5. \A k \in 0 .. t :
          PartsOf[k] = IF k = 0 THEN 0
                       ELSE PartsOf[k - 1] + (IF k \in printed THEN Count(targs[k]) ELSE 0)
    BY <2>4
  <2> QED BY <1>1, <2>5
<1>5. ASSUME NEW k \in 1 .. t
      PROVE  Count(targs[k]) = Cardinality({n \in targs[k].start .. targs[k].end : Hit(n)})
  <2> DEFINE a == targs[k].start
             b == targs[k].end
  <2>1. a \in Nat /\ a >= 2 /\ b \in Nat /\ \A n \in a .. b : n \in 0 .. INT_MAX
    <3>1. a \in Nat /\ b \in Nat /\ inputS <= a /\ b <= inputE
      BY <1>3
    <3> HIDE DEF a, b
    <3> QED BY <1>1, <3>1, SieveAssumption
  <2>2. high_primes(a, b) = {n \in a .. b : IsPrime(n)}
    <3> HIDE DEF a, b
    <3> QED BY <2>1, HighPrimesArePrimes
  <2>3. {n \in high_primes(a, b) : hasThrees(n)} = {n \in a .. b : Hit(n)}
    <3>1. \A n \in a .. b : hasThrees(n) <=> TwoDigitsThree(n)
      BY <2>1, HasThreesCounts
    <3> QED BY <2>2, <3>1
  <2> QED BY <2>3 DEF Count
<1> HIDE DEF t, Hit
<1> DEFINE S == {k \in Nat : k <= t => PartsOf[k] = Cardinality(A(k))}
<1>6. 0 \in S
  <2>1. A(0) = {}
    BY <1>1
  <2> QED BY <1>4, <2>1, FS_EmptySet
<1>7. \A k \in Nat : k \in S => k + 1 \in S
  <2> SUFFICES ASSUME NEW k \in Nat, k + 1 <= t, PartsOf[k] = Cardinality(A(k))
               PROVE  PartsOf[k + 1] = Cardinality(A(k + 1))
    BY <1>1
  <2> DEFINE a == targs[k + 1].start
             b == targs[k + 1].end
             B == {n \in a .. b : Hit(n)}
  <2>1. k + 1 \in 1 .. t /\ (k + 1) - 1 = k /\ k + 1 # 0
    BY <1>1
  <2>2. PartsOf[k + 1] = PartsOf[k] + Cardinality(B)
    BY <1>4, <1>5, <2>1
  <2>3. /\ a \in Nat /\ b \in Nat /\ a = last(k) + 1 /\ inputS <= a /\ a <= b
    BY <1>3, <2>1
  <2>4. last(k + 1) = b
    BY <2>1
  <2>5. A(k + 1) = A(k) \cup B /\ A(k) \cap B = {}
    <3> HIDE DEF a, b
    <3>1. last(k) = a - 1
      <4> DEFINE l == last(k)
      <4>1. l \in Int
        BY <1>1, <1>3, <2>1
      <4> HIDE DEF l
      <4> QED BY <2>3, <4>1 DEF l
    <3>2. A(k) = {n \in inputS .. a - 1 : Hit(n)}
      BY <3>1
    <3>3. A(k + 1) = {n \in inputS .. b : Hit(n)}
      BY <2>4
    <3> QED BY <1>1, <2>3, <3>2, <3>3
  <2>6. IsFiniteSet(A(k)) /\ IsFiniteSet(B)
    <3>1. IsFiniteSet(inputS .. last(k))
      <4>1. last(k) \in Int
        BY <1>1, <1>3, <2>1
      <4> HIDE DEF last
      <4> QED BY <1>1, <4>1, FS_Interval
    <3>2. IsFiniteSet(a .. b)
      <4> HIDE DEF a, b
      <4> QED BY <2>3, FS_Interval
    <3> QED BY <3>1, <3>2, FS_Subset
  <2> HIDE DEF A, B, a, b, last
  <2>7. Cardinality(A(k) \cup B) = Cardinality(A(k)) + Cardinality(B) - Cardinality(A(k) \cap B)
    BY <2>6, FS_Union
  <2>8. Cardinality(A(k) \cap B) = 0 /\ Cardinality(A(k)) \in Nat /\ Cardinality(B) \in Nat
    BY <2>5, <2>6, FS_EmptySet, FS_CardinalityType
  <2>9. Cardinality(A(k + 1)) = Cardinality(A(k) \cup B)
    BY <2>5
  <2>10. PartsOf[k] \in Int /\ Cardinality(A(k + 1)) = PartsOf[k] + Cardinality(B)
    BY <2>7, <2>8, <2>9
  <2> QED BY <2>2, <2>10
<1>8. t \in S
  <2> HIDE DEF S
  <2> QED BY <1>1, <1>6, <1>7, InductionOnSets
<1>9. last(t) = inputE
  BY <1>1, <1>2
<1>10. PartsOf[t] = Cardinality(A(t))
  <2>1. t <= t
    BY <1>1
  <2> HIDE DEF A
  <2> QED BY <1>8, <2>1
<1>11. A(t) = {n \in inputS .. inputE : Hit(n)}
  BY <1>9
<1> QED BY <1>10, <1>11 DEF t, Hit

\* What the program prints is right: for every range, every number of threads
\* and however they are scheduled, the total (mtsieve.c:88, 288) is the number
\* of the primes in the range with two or more digits '3'.
THEOREM TotalAlwaysRight == Spec => []TotalIsRight
<1>1. SieveInv => TotalIsRight
  BY PartsAddUp DEF TotalIsRight
<1> QED BY <1>1, SieveInvariant, PTL
=============================================================================
