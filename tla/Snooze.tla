---- MODULE Snooze ----
(* snooze: sleeps a second at a time until SIGINT (lab 8).  Time passes in half
   seconds, and only while the program sleeps. *)
EXTENDS Integers

CONSTANT Naps  \* the arguments that are tried

ASSUME NapsAssumption == Naps \subseteq Int

VARIABLES snooze, current, signal_val,
          halves,    \* how long it slept
          toSleep,   \* what is left of the call of sleep()
          snoozePc   \* "main", "loop", "sleep", "done" or "failed"

snoozeVars == <<snooze, current, signal_val, halves, toSleep, snoozePc>>

SnoozeInit(naps, at) ==
    /\ snooze \in naps /\ current = 0 /\ signal_val = FALSE
    /\ halves = 0 /\ toSleep = 0 /\ snoozePc = at

SnoozeMain ==
    /\ snoozePc = "main"
    /\ snoozePc' = IF snooze < 1 THEN "failed" ELSE "loop"
    /\ UNCHANGED <<snooze, current, signal_val, halves, toSleep>>

\* Mutation: the loop does not look at the signal.
LoopDeaf ==
    /\ snoozePc = "loop"
    /\ snoozePc' = IF current < snooze THEN "sleep" ELSE "done"
    /\ toSleep' = 2
    /\ UNCHANGED <<snooze, current, signal_val, halves>>

(* The tests of the loop, and the call of sleep(1). *)
Loop ==
    /\ snoozePc = "loop"
    /\ snoozePc' = IF current < snooze /\ ~signal_val THEN "sleep" ELSE "done"
    /\ toSleep' = 2
    /\ UNCHANGED <<snooze, current, signal_val, halves>>

Wakes == current' = current + 1 /\ snoozePc' = "loop"

Sleep ==
    /\ snoozePc = "sleep"
    /\ halves' = halves + 1 /\ toSleep' = toSleep - 1
    /\ IF toSleep = 1 THEN Wakes ELSE UNCHANGED <<current, snoozePc>>
    /\ UNCHANGED <<snooze, signal_val>>

(* SIGINT ends the second that is slept, unless it comes between the test of
   signal_val and sleep(). *)
Sigint ==
    /\ snoozePc \in {"loop", "sleep"}
    /\ signal_val' = TRUE
    /\ \/ snoozePc = "sleep" /\ Wakes
       \/ toSleep \in {0, 2} /\ UNCHANGED <<current, snoozePc>>
    /\ UNCHANGED <<snooze, halves, toSleep>>

SnoozeStep == SnoozeMain \/ Loop \/ Sleep
SnoozeNext == SnoozeStep \/ Sigint

(* "Slept for %d of the %d seconds allowed": without SIGINT it slept as long as
   it reports and as it was asked to, and whenever SIGINT comes, it reports no
   less than it slept, at most a second more, and no more than it was asked. *)
SnoozeReport ==
    snoozePc = "done" =>
        /\ ~signal_val => current = snooze /\ 2 * current = halves
        /\ current <= snooze /\ halves <= 2 * current /\ 2 * current <= halves + 2

(* "it should stop sleeping and print how long it actually slept": the second
   that was not slept is not reported. *)
SleptAsReported == snoozePc = "done" => 2 * current < halves + 2
====
