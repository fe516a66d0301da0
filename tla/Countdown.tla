------------------------------ MODULE Countdown ------------------------------
(***************************************************************************)
(* The promise of a timer that can be paused: it counts `Length` ticks of  *)
(* running time down, stands still while it is paused, and fires once, at  *)
(* the end.  A pause may put back less than one second (Slack ticks),      *)
(* because insalata.Timer counts the elapsed time in whole seconds.        *)
(***************************************************************************)
EXTENDS Integers

CONSTANTS Length, Slack

VARIABLES status, left

vars == <<status, left>>

Init == status = "new" /\ left = Length

Start == status = "new" /\ status' = "running" /\ UNCHANGED left

Tick == status = "running" /\ left > 0 /\ left' = left - 1 /\ UNCHANGED status

Pause ==
    /\ status = "running"
    /\ status' = "paused"
    /\ left' \in left..(left + Slack)
    /\ left' <= Length

Resume == status = "paused" /\ status' = "running" /\ UNCHANGED left

Cancel == status \in {"new", "running", "paused"} /\ status' = "cancelled" /\ left' = 0

Fire == status = "running" /\ left = 0 /\ status' = "fired" /\ UNCHANGED left

Next == Start \/ Tick \/ Pause \/ Resume \/ Cancel \/ Fire

Spec == Init /\ [][Next]_vars
=============================================================================
