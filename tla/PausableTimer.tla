---------------------------- MODULE PausableTimer ----------------------------
(***************************************************************************)
(* What a user of insalata.Timer can rely on whatever the order of calls:  *)
(* the state machine of module TimerOps, without a clock.  `orphans` is    *)
(* the number of threading.Timer threads that are still counting although  *)
(* no reference to them is left.                                           *)
(***************************************************************************)
EXTENDS Naturals, TimerOps

VARIABLES t, orphans

vars == <<t, orphans>>

Init == t = NewTimer /\ orphans = 0

Start == t' = Started(t) /\ orphans' = orphans + Orphans(t)

Pause == t' \in AfterPause(t) /\ UNCHANGED orphans

Resume == t' = AfterResume(t) /\ orphans' = orphans + Orphans(t)

Cancel == t' = AfterCancel(t) /\ UNCHANGED orphans

Fire == t.py = "live" /\ t' = AfterFire(t) /\ UNCHANGED orphans

FireOrphan == orphans > 0 /\ orphans' = orphans - 1 /\ UNCHANGED t

Next == Start \/ Pause \/ Resume \/ Cancel \/ Fire \/ FireOrphan

Spec == Init /\ [][Next]_vars
=============================================================================
