---------------------------- MODULE Verification ----------------------------
(***************************************************************************)
(* The life of one element of the graph, a Node (model/Node.py) or an Edge *)
(* (model/Edge.py) that collectors verify.  Every collector that has       *)
(* verified the element has a Timer in its dictionary of scanners; when    *)
(* the Timer fires the collector is removed, and the element is deleted    *)
(* when nobody is left.  Freezing the graph pauses these Timers, melting   *)
(* resumes them.                                                           *)
(*                                                                         *)
(* Four kinds of threads meet here, with no lock: the collectors, the      *)
(* pyTimer threads, the RPC thread (freeze) and the setup threads (melt).  *)
(***************************************************************************)
EXTENDS Naturals, TimerOps

CONSTANTS
    Collectors,     \* names of the collector modules that verify the element
    Forever,        \* those that verify with timeout -1, like the XML scanner
    MaxCalls,       \* bound: calls of verify and removeVerification by the collectors
    MaxFreezes      \* bound: calls of Graph.freeze

ASSUME VerificationAssumption ==
    Collectors # {} /\ Forever \subseteq Collectors /\ MaxCalls \in Nat /\ MaxFreezes \in Nat

(***************************************************************************)
(*   kind       "node" or "edge"                                           *)
(*   entry      __scanners: the Timer of each collector, or Absent         *)
(*   loose      live threading.Timers of a collector that the dictionary   *)
(*              does not refer to (any more)                               *)
(*   popping    pyTimer threads of a collector that have fired and have    *)
(*              not begun with the removal                                 *)
(*   removing   those of an edge that have cancelled the Timer they found  *)
(*              and are about to drop the entry                            *)
(*   checking   threads about to look whether any scanner is left          *)
(*   deleting   threads that have found none and are about to delete       *)
(*   gone       delete() has run                                           *)
(*   verifying  how far each collector is in verify or, of an edge, in     *)
(*              removeVerification ("removing")                            *)
(*   calls      calls of the collectors so far                             *)
(*   pausing, resuming  how often the freeze, the melt, that is under way  *)
(*              will still come to the Timer of a collector                *)
(*   frozen     freezes whose melt has not begun                           *)
(*   broken     a freeze or a melt has raised half way                     *)
(*   freezes    calls of freeze so far                                     *)
(***************************************************************************)
VARIABLES kind, entry, loose, popping, removing, checking, deleting, gone, verifying,
          calls, pausing, resuming, frozen, broken, freezes

scannerVars == <<entry, loose, popping, removing, checking, deleting, gone>>
walkVars == <<pausing, resuming, frozen, broken, freezes>>
vars == <<kind, scannerVars, verifying, calls, walkVars>>

Absent == [running |-> FALSE, py |-> "absent", paused |-> "no"]

\* The graph reaches a node once; an edge between two nodes of the graph is
\* among the edges of both.
Visits == IF kind = "node" THEN 1 ELSE 2

TypeOK ==
    /\ kind \in {"node", "edge"}
    /\ entry \in [Collectors -> TimerState \cup {Absent}]
    /\ loose \in [Collectors -> Nat]
    /\ popping \in [Collectors -> Nat]
    /\ removing \in [Collectors -> Nat]
    /\ checking \in Nat /\ deleting \in Nat
    /\ gone \in BOOLEAN /\ broken \in BOOLEAN
    /\ verifying \in [Collectors -> {"no", "cancelled", "set", "removing"}]
    /\ pausing \in [Collectors -> 0..Visits]
    /\ resuming \in [Collectors -> 0..Visits]
    /\ frozen \in Nat
    /\ calls \in 0..MaxCalls /\ freezes \in 0..MaxFreezes

\* Timer(timeout, ...): a Timer with duration -1 never starts a threading.Timer.
TimerOf(c) == IF c \in Forever THEN [NewTimer EXCEPT !.py = "never"] ELSE NewTimer

\* The element has just been created by a collector.
Init ==
    /\ kind \in {"node", "edge"}
    /\ \E creator \in Collectors :
          entry = [c \in Collectors |-> IF c = creator THEN Started(TimerOf(c)) ELSE Absent]
    /\ loose = [c \in Collectors |-> 0]
    /\ popping = [c \in Collectors |-> 0]
    /\ removing = [c \in Collectors |-> 0]
    /\ checking = 0 /\ deleting = 0
    /\ gone = FALSE
    /\ verifying = [c \in Collectors |-> "no"] /\ calls = 0
    /\ pausing = [c \in Collectors |-> 0]
    /\ resuming = [c \in Collectors |-> 0]
    /\ frozen = 0 /\ broken = FALSE /\ freezes = 0

Present(c) == entry[c] # Absent

\* The entry of c becomes t; a live threading.Timer of the old one is lost.
Replace(c, t) ==
    /\ entry' = [entry EXCEPT ![c] = t]
    /\ loose' = [loose EXCEPT ![c] = @ + Orphans(entry[c])]
------------------------------------------------------------------------------
(* The collectors: verify, and removeVerification for what they miss *)

\* Mutant: start() starts a threading.Timer whatever the duration is.
StartAnyTimer(c) ==
    /\ verifying[c] = "set"
    /\ verifying' = [verifying EXCEPT ![c] = "no"]
    /\ IF Present(c)
       THEN Replace(c, [Started(entry[c]) EXCEPT !.py = "live"])
       ELSE UNCHANGED <<entry, loose>>
    /\ UNCHANGED <<kind, popping, removing, checking, deleting, gone, calls, walkVars>>

\* Mutant: who has verified already is only cancelled.
CancelKnown(c) ==
    /\ verifying[c] = "no"
    /\ calls < MaxCalls
    /\ calls' = calls + 1
    /\ verifying' = [verifying EXCEPT ![c] = IF Present(c) THEN "no" ELSE "cancelled"]
    /\ entry' = [entry EXCEPT ![c] = IF Present(c) THEN AfterCancel(@) ELSE @]
    /\ UNCHANGED <<kind, loose, popping, removing, checking, deleting, gone, walkVars>>

\* cancel() of the Timer there is, if there is one.  (A collector may hold the
\* element longer than the graph does.)
BeginVerify(c) ==
    /\ verifying[c] = "no"
    /\ calls < MaxCalls
    /\ calls' = calls + 1
    /\ verifying' = [verifying EXCEPT ![c] = "cancelled"]
    /\ entry' = [entry EXCEPT ![c] = IF Present(c) THEN AfterCancel(@) ELSE @]
    /\ UNCHANGED <<kind, loose, popping, removing, checking, deleting, gone, walkVars>>

SetTimer(c) ==
    /\ verifying[c] = "cancelled"
    /\ verifying' = [verifying EXCEPT ![c] = "set"]
    /\ Replace(c, TimerOf(c))
    /\ UNCHANGED <<kind, popping, removing, checking, deleting, gone, calls, walkVars>>

\* The Timer is looked up again to start it.  If it has been removed meanwhile
\* the KeyError ends the collector.
StartTimer(c) ==
    /\ verifying[c] = "set"
    /\ verifying' = [verifying EXCEPT ![c] = "no"]
    /\ IF Present(c) THEN Replace(c, Started(entry[c])) ELSE UNCHANGED <<entry, loose>>
    /\ UNCHANGED <<kind, popping, removing, checking, deleting, gone, calls, walkVars>>

\* Mutant: the Timer is cancelled before the KeyError.
RemoveFromNodeCancelled(c) ==
    /\ kind = "node" /\ verifying[c] = "no"
    /\ calls < MaxCalls
    /\ calls' = calls + 1
    /\ Present(c)
    /\ entry' = [entry EXCEPT ![c] = Absent]
    /\ UNCHANGED <<kind, loose, popping, removing, checking, deleting, gone, verifying, walkVars>>

\* Node.removeVerification drops the entry and then looks it up: the KeyError
\* ends the collector and the Timer counts on.
RemoveFromNode(c) ==
    /\ kind = "node" /\ verifying[c] = "no"
    /\ calls < MaxCalls
    /\ calls' = calls + 1
    /\ Present(c)
    /\ Replace(c, Absent)
    /\ UNCHANGED <<kind, popping, removing, checking, deleting, gone, verifying, walkVars>>

\* Edge.removeVerification cancels first and then drops the entry.
CancelInEdge(c) ==
    /\ kind = "edge" /\ verifying[c] = "no"
    /\ calls < MaxCalls
    /\ calls' = calls + 1
    /\ Present(c)
    /\ entry' = [entry EXCEPT ![c] = AfterCancel(@)]
    /\ verifying' = [verifying EXCEPT ![c] = "removing"]
    /\ UNCHANGED <<kind, loose, popping, removing, checking, deleting, gone, walkVars>>

RemoveFromEdge(c) ==
    /\ verifying[c] = "removing"
    /\ Replace(c, Absent)
    /\ verifying' = [verifying EXCEPT ![c] = "no"]
    /\ checking' = checking + 1
    /\ UNCHANGED <<kind, popping, removing, deleting, gone, calls, walkVars>>

\* Without an entry both only look whether anybody is left.
RemoveNothing(c) ==
    /\ ~Present(c)
    /\ verifying[c] = "no"
    /\ calls < MaxCalls
    /\ calls' = calls + 1
    /\ checking' = checking + 1
    /\ UNCHANGED <<kind, entry, loose, popping, removing, deleting, gone, verifying, walkVars>>

(* The pyTimer threads: removeVerificationTimeout, Edge.removeVerification *)

\* Mutant: the expired Timer goes on counting.
FireAgain(c) ==
    /\ entry[c].py = "live"
    /\ popping' = [popping EXCEPT ![c] = @ + 1]
    /\ UNCHANGED <<kind, entry, loose, removing, checking, deleting, gone, verifying, calls, walkVars>>

Fire(c) ==
    /\ entry[c].py = "live"
    /\ entry' = [entry EXCEPT ![c] = AfterFire(@)]
    /\ popping' = [popping EXCEPT ![c] = @ + 1]
    /\ UNCHANGED <<kind, loose, removing, checking, deleting, gone, verifying, calls, walkVars>>

FireLoose(c) ==
    /\ loose[c] > 0
    /\ loose' = [loose EXCEPT ![c] = @ - 1]
    /\ popping' = [popping EXCEPT ![c] = @ + 1]
    /\ UNCHANGED <<kind, entry, removing, checking, deleting, gone, verifying, calls, walkVars>>

\* Whatever entry the collector has now goes, even one that is newer than the
\* Timer that fired.
Pop(c) ==
    /\ kind = "node" /\ popping[c] > 0
    /\ Replace(c, Absent)
    /\ popping' = [popping EXCEPT ![c] = @ - 1]
    /\ checking' = checking + 1
    /\ UNCHANGED <<kind, removing, deleting, gone, verifying, calls, walkVars>>

\* So it is with an edge, which first cancels the Timer it finds.
CancelFound(c) ==
    /\ kind = "edge" /\ popping[c] > 0
    /\ popping' = [popping EXCEPT ![c] = @ - 1]
    /\ IF Present(c)
       THEN /\ entry' = [entry EXCEPT ![c] = AfterCancel(@)]
            /\ removing' = [removing EXCEPT ![c] = @ + 1]
            /\ UNCHANGED checking
       ELSE checking' = checking + 1 /\ UNCHANGED <<entry, removing>>
    /\ UNCHANGED <<kind, loose, deleting, gone, verifying, calls, walkVars>>

Drop(c) ==
    /\ removing[c] > 0
    /\ Replace(c, Absent)
    /\ removing' = [removing EXCEPT ![c] = @ - 1]
    /\ checking' = checking + 1
    /\ UNCHANGED <<kind, popping, deleting, gone, verifying, calls, walkVars>>

Check ==
    /\ checking > 0
    /\ checking' = checking - 1
    /\ deleting' = IF \E c \in Collectors : Present(c) THEN deleting ELSE deleting + 1
    /\ UNCHANGED <<kind, entry, loose, popping, removing, gone, verifying, calls, walkVars>>

\* delete(): the Timers of collectors that have come in between are cancelled.
CancelAll ==
    /\ gone' = TRUE
    /\ entry' = [c \in Collectors |-> IF Present(c) THEN AfterCancel(entry[c]) ELSE Absent]

Delete ==
    /\ deleting > 0
    /\ deleting' = deleting - 1
    /\ CancelAll
    /\ UNCHANGED <<kind, loose, popping, removing, checking, verifying, calls, walkVars>>

\* An edge is also deleted with one of its nodes, or by a setter.
DeleteEdge ==
    /\ kind = "edge" /\ ~gone
    /\ CancelAll
    /\ UNCHANGED <<kind, loose, popping, removing, checking, deleting, verifying, calls, walkVars>>

(* The RPC thread and the setup threads: Graph.freeze and Graph.melt *)

NotWalking(walk) == \A c \in Collectors : walk[c] = 0

\* taskState lets a freeze begin while the setup before is still to melt.
BeginFreeze ==
    /\ ~gone /\ frozen <= 1 /\ NotWalking(pausing)
    /\ freezes < MaxFreezes
    /\ freezes' = freezes + 1
    /\ frozen' = frozen + 1
    /\ pausing' = [c \in Collectors |-> Visits]
    /\ UNCHANGED <<kind, scannerVars, verifying, calls, resuming, broken>>

\* Mutant: the walk comes to an entry once more than it should.
PauseTimerAgain(c) ==
    /\ frozen > 0
    /\ pausing' = [pausing EXCEPT ![c] = @ - 1]
    /\ IF Present(c)
       THEN \E t \in AfterPause(entry[c]) : entry' = [entry EXCEPT ![c] = t]
       ELSE UNCHANGED entry
    /\ UNCHANGED <<kind, loose, popping, removing, checking, deleting, gone, verifying, calls,
                   resuming, frozen, broken, freezes>>

PauseTimer(c) ==
    /\ pausing[c] > 0
    /\ pausing' = [pausing EXCEPT ![c] = @ - 1]
    /\ IF Present(c)
       THEN \E t \in AfterPause(entry[c]) : entry' = [entry EXCEPT ![c] = t]
       ELSE UNCHANGED entry
    /\ UNCHANGED <<kind, loose, popping, removing, checking, deleting, gone, verifying, calls,
                   resuming, frozen, broken, freezes>>

\* The melt of a setup, possibly while the freeze of the next is under way.
BeginMelt ==
    /\ frozen > 0 /\ NotWalking(resuming)
    /\ frozen > 1 \/ NotWalking(pausing)
    /\ frozen' = frozen - 1
    /\ resuming' = [c \in Collectors |-> Visits]
    /\ UNCHANGED <<kind, scannerVars, verifying, calls, pausing, broken, freezes>>

\* Mutant: melt leaves out the Timers that are not running.
ResumeRunning(c) ==
    /\ resuming[c] > 0
    /\ resuming' = [resuming EXCEPT ![c] = @ - 1]
    /\ IF Present(c) /\ entry[c].running THEN Replace(c, AfterResume(entry[c])) ELSE UNCHANGED <<entry, loose>>
    /\ UNCHANGED <<kind, popping, removing, checking, deleting, gone, verifying, calls,
                   pausing, frozen, broken, freezes>>

ResumeTimer(c) ==
    /\ resuming[c] > 0
    /\ resuming' = [resuming EXCEPT ![c] = @ - 1]
    /\ IF Present(c) THEN Replace(c, AfterResume(entry[c])) ELSE UNCHANGED <<entry, loose>>
    /\ UNCHANGED <<kind, popping, removing, checking, deleting, gone, verifying, calls,
                   pausing, frozen, broken, freezes>>

\* Both iterate over the dictionaries themselves: a scanner that comes or goes
\* meanwhile, here or at another element, ends them with a RuntimeError.
FreezeRaises ==
    /\ ~NotWalking(pausing)
    /\ pausing' = [c \in Collectors |-> 0]
    /\ frozen' = frozen - 1
    /\ broken' = TRUE
    /\ UNCHANGED <<kind, scannerVars, verifying, calls, resuming, freezes>>

MeltRaises ==
    /\ ~NotWalking(resuming)
    /\ resuming' = [c \in Collectors |-> 0]
    /\ broken' = TRUE
    /\ UNCHANGED <<kind, scannerVars, verifying, calls, pausing, frozen, freezes>>

Collecting(c) ==
    \/ BeginVerify(c) \/ SetTimer(c) \/ StartTimer(c)
    \/ RemoveFromNode(c) \/ CancelInEdge(c) \/ RemoveFromEdge(c) \/ RemoveNothing(c)

Expiring == \/ \E c \in Collectors :
                  Fire(c) \/ FireLoose(c) \/ Pop(c) \/ CancelFound(c) \/ Drop(c)
            \/ Check \/ Delete \/ DeleteEdge

Walking == \/ \E c \in Collectors : PauseTimer(c) \/ ResumeTimer(c)
           \/ BeginFreeze \/ BeginMelt \/ FreezeRaises \/ MeltRaises

Next == (\E c \in Collectors : Collecting(c)) \/ Expiring \/ Walking

Spec == Init /\ [][Next]_vars

\* Threads go on and live threading.Timers fire.  Nobody has to verify, to
\* freeze or to melt.
Fairness ==
    /\ \A c \in Collectors :
          /\ WF_vars(SetTimer(c) \/ StartTimer(c) \/ RemoveFromEdge(c))
          /\ WF_vars(Fire(c)) /\ WF_vars(FireLoose(c))
          /\ WF_vars(Pop(c) \/ CancelFound(c)) /\ WF_vars(Drop(c))
    /\ WF_vars(Check) /\ WF_vars(Delete)
    /\ WF_vars(FreezeRaises \/ \E c \in Collectors : PauseTimer(c))
    /\ WF_vars(MeltRaises \/ \E c \in Collectors : ResumeTimer(c))

FairSpec == Spec /\ Fairness
------------------------------------------------------------------------------
\* Every freeze has been followed by its melt, completely.
Thawed == frozen = 0 /\ NotWalking(pausing) /\ NotWalking(resuming) /\ ~broken

\* A thread has fired for the collector and is not done with the removal.
Expired(c) == popping[c] > 0 \/ removing[c] > 0

\* No scanner stays for ever: in a graph that is not frozen the Timer of every
\* entry is counting, or the thread that will remove the entry is on its way, or
\* the collector is just about to start or remove it.  Cancelled, late paused
\* and not yet started Timers (Node.py:140-144, Timer.py:56-75) are what could
\* break it.  It is not claimed of a collector with timeout -1, whose Timers
\* never count (Timer.py:44).
EveryScannerTicks ==
    Thawed /\ ~gone
        => \A c \in Collectors \ Forever :
              Present(c) => entry[c].py = "live" \/ Expired(c) \/ verifying[c] # "no"

\* When the collectors stop verifying and the graph is not frozen for ever, all
\* of them but those with timeout -1 leave the dictionary of the element, or it
\* is deleted before, after any sequence of freezes, melts, cancels and removals
\* (Node.py:140-164).
ScannersLeave == <>[]Thawed => <>(gone \/ \A c \in Collectors \ Forever : ~Present(c))

\* A collector with timeout -1 is only taken from the dictionary by itself: no
\* cancelled verify, no pause, no resume and no removal by another thread makes
\* an entry of it expire (XmlScanner.py:11, Timer.py:44, 57, 70, 79).
PermanentScannersStay ==
    [][\A c \in Forever :
          Present(c) /\ ~Present(c)' => calls' # calls \/ verifying[c] = "removing"]_vars

\* An element that nobody verifies any more is deleted in the end, although each
\* thread that removes a scanner only looks once whether another is left and the
\* call that drops the last entry of a node ends before it looks: the Timer it has
\* left behind looks in its place (Node.py:154-164, Edge.py:159-163).  That Timer is
\* missing after a freeze, which may have paused it, and for timeout -1.
AbandonedAreDeleted ==
    [](freezes = 0 /\ \A c \in Forever : ~Present(c))
        /\ <>[](\A c \in Collectors : ~Present(c)) => <>gone
==============================================================================
