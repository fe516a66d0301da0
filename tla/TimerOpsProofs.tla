--------------------------- MODULE TimerOpsProofs ---------------------------
(***************************************************************************)
(* Facts about the calls of insalata.Timer, for the proofs about its users.*)
(***************************************************************************)
EXTENDS Naturals, TimerOps, TLAPS

\* The calls of a Timer object yield a Timer object.
LEMMA NewTimerTyped == NewTimer \in TimerState
  BY DEF NewTimer, TimerState, PyStates, PauseStates

LEMMA TimerCalls ==
    ASSUME NEW t \in TimerState
    PROVE  /\ Started(t) \in TimerState
           /\ Orphans(t) \in Nat
           /\ AfterPause(t) \subseteq TimerState
           /\ AfterResume(t) \in TimerState
           /\ AfterCancel(t) \in TimerState
           /\ AfterFire(t) \in TimerState
  <1> USE DEF TimerState, PyStates, PauseStates
  <1>1. Started(t) \in TimerState /\ Orphans(t) \in Nat
    BY DEF Started, Orphans
  <1>2. AfterPause(t) \subseteq TimerState
    <2>1. CASE t.running /\ t.py \in {"live", "dead"}
      <3>1. \A u \in AfterPause(t) : \E p \in {"inTime", "late"} :
               u = [running |-> FALSE, py |-> "none", paused |-> p]
        BY <2>1 DEF AfterPause
      <3>2. \A p \in {"inTime", "late"} :
               [running |-> FALSE, py |-> "none", paused |-> p] \in TimerState
        OBVIOUS
      <3> HIDE DEF TimerState
      <3> QED
        BY <3>1, <3>2
    <2>2. CASE ~(t.running /\ t.py \in {"live", "dead"})
      <3>1. [t EXCEPT !.running = FALSE] \in TimerState
        OBVIOUS
      <3> QED
        BY <2>2, <3>1 DEF AfterPause
    <2> QED
      BY <2>1, <2>2
  <1>3. AfterResume(t) \in TimerState
    BY <1>1 DEF AfterResume
  <1>4. AfterCancel(t) \in TimerState /\ AfterFire(t) \in TimerState
    BY DEF AfterCancel, AfterFire
  <1> QED
    BY <1>1, <1>2, <1>3, <1>4

\* What start() and resume() leave: a Timer that counts, unless it can no longer.
LEMMA StartedCounts ==
    ASSUME NEW t \in TimerState
    PROVE  /\ Started(t).paused = "no" /\ AfterResume(t).paused = "no"
           /\ Started(t).py = "live" \/ (Started(t).py = "never" /\ t.py = "never")
           /\ \/ AfterResume(t).py = "live"
              \/ AfterResume(t).py = "never" /\ (t.py = "never" \/ t.paused = "late")
  BY DEF Started, AfterResume, TimerState

\* What pause() leaves: a Timer that does not run; it is late only if it fired,
\* and stays one that can no longer count if it was one.
LEMMA PausedStops ==
    ASSUME NEW t \in TimerState, NEW u \in AfterPause(t)
    PROVE  /\ ~u.running
           /\ u.py = "never" => t.py = "never"
           /\ u.py = "live" => t.py = "live"
           /\ u.paused = "late" => t.paused = "late" \/ (t.py = "dead" /\ t.running)
           /\ u.py = t.py \/ t.py = "live" \/ (t.py = "dead" /\ t.running)
  <1>1. CASE t.running /\ t.py \in {"live", "dead"}
    <2>1. PICK p \in (IF t.py = "live" THEN {"inTime"} ELSE {"inTime", "late"}) :
             u = [running |-> FALSE, py |-> "none", paused |-> p]
      BY <1>1 DEF AfterPause
    <2> QED
      BY <1>1, <2>1
  <1>2. CASE ~(t.running /\ t.py \in {"live", "dead"})
    <2>1. u = [t EXCEPT !.running = FALSE]
      BY <1>2 DEF AfterPause
    <2> QED
      BY <1>2, <2>1 DEF TimerState
  <1> QED
    BY <1>1, <1>2

\* cancel() and the firing of the threading.Timer leave one that is dead, if it
\* was live, and change nothing else.
LEMMA CancelledOrFired ==
    ASSUME NEW t \in TimerState
    PROVE  /\ ~AfterCancel(t).running /\ AfterCancel(t).paused = t.paused
           /\ AfterCancel(t).py = IF t.py = "live" THEN "dead" ELSE t.py
           /\ AfterFire(t).py = "dead" /\ AfterFire(t).paused = t.paused
  BY DEF AfterCancel, AfterFire, TimerState
=============================================================================
