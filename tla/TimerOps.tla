------------------------------ MODULE TimerOps ------------------------------
(***************************************************************************)
(* The calls of insalata.Timer (Timer.py) on one Timer object, with time   *)
(* abstracted away.  A Timer object is a record                            *)
(*                                                                         *)
(*   running  the flag `running`                                           *)
(*   py       what `timer` refers to: "none" (None), a threading.Timer     *)
(*            that is "live" (started and still counting) or "dead" (fired *)
(*            or cancelled; the reference is kept), or "never" for an      *)
(*            object whose duration has become -1 and that starts nothing  *)
(*   paused   `pauseTime`: "no" (None), "late" when the time elapsed is    *)
(*            one second more than the duration, so that resume computes a *)
(*            duration of -1, and "inTime" for every other pauseTime       *)
(*                                                                         *)
(* Module Timer has the clock and is shown to implement PausableTimer,     *)
(* the state machine of these operators.                                   *)
(***************************************************************************)

PyStates == {"none", "live", "dead", "never"}
PauseStates == {"no", "inTime", "late"}
TimerState == [running : BOOLEAN, py : PyStates, paused : PauseStates]

\* A Timer as __init__ leaves it.
NewTimer == [running |-> FALSE, py |-> "none", paused |-> "no"]

\* start(): sets running, clears pauseTime, creates a new threading.Timer
\* (unless duration is -1) and overwrites the reference to the old one.
Started(t) ==
    [running |-> TRUE, paused |-> "no",
     py |-> IF t.py = "never" THEN "never" ELSE "live"]

\* start() does not cancel what `timer` refers to: a live threading.Timer
\* that is overwritten goes on counting and nobody can cancel it any more.
Orphans(t) == IF t.py = "live" THEN 1 ELSE 0

\* pause(): only a running Timer with a threading.Timer cancels it, drops the
\* reference and takes the time; only after it fired can that be late.
AfterPause(t) ==
    IF t.running /\ t.py \in {"live", "dead"}
    THEN {[running |-> FALSE, py |-> "none", paused |-> p] :
             p \in IF t.py = "live" THEN {"inTime"} ELSE {"inTime", "late"}}
    ELSE {[t EXCEPT !.running = FALSE]}

\* Mutant: a resume() that only continues what was paused.
AfterResumeOfPaused(t) == IF t.paused = "no" THEN t ELSE Started(t)

\* resume(): without a pauseTime it is start(); with one the duration shrinks
\* by the time elapsed: a late pause turns the Timer into one that waits for
\* ever (-1: "Do nothing").
AfterResume(t) ==
    IF t.paused = "late" THEN [running |-> TRUE, py |-> "never", paused |-> "no"]
    ELSE Started(t)

\* cancel(): the threading.Timer stops, the reference and pauseTime stay.
AfterCancel(t) ==
    [t EXCEPT !.running = FALSE, !.py = IF @ = "live" THEN "dead" ELSE @]

\* The threading.Timer fires: `running` and the reference stay as they are.
AfterFire(t) == [t EXCEPT !.py = "dead"]
=============================================================================
