------------------------- MODULE VerificationProofs -------------------------
(***************************************************************************)
(* For any number of collectors, with a timeout or for ever, of calls and  *)
(* freezes: types; no scanner stays in the dictionary of a live element    *)
(* for ever unless its timeout is -1; and such a one never expires.        *)
(***************************************************************************)
EXTENDS Verification, TimerOpsProofs

(***************************************************************************)
(* The inductive invariant.  A freeze that is under way is not yet melted; *)
(* and every entry of a live element is on its way out: its Timer counts,  *)
(* or its removal is pending, or its collector is in verify, or a melt is  *)
(* still to come to it.  A Timer that can no longer count, because it      *)
(* fired or was paused too late, has a thread that removes it.             *)
(***************************************************************************)
FreezeIsOwed == \A c \in Collectors : pausing[c] > 0 => frozen > 0

Accounted(c) ==
    /\ entry[c].py = "live" \/ Expired(c) \/ verifying[c] # "no" \/ frozen > 0 \/ resuming[c] > 0
    /\ entry[c].py = "never" \/ entry[c].paused = "late"
          => Expired(c) \/ verifying[c] \in {"cancelled", "removing"}
    /\ entry[c].py = "dead" /\ entry[c].running => Expired(c)

EntriesAccounted ==
    ~gone /\ ~broken => \A c \in Collectors \ Forever : Present(c) => Accounted(c)

IInv == TypeOK /\ FreezeIsOwed /\ EntriesAccounted

\* An absent entry is no Timer.
LEMMA AbsentIsNoTimer == Absent \notin TimerState
BY DEF Absent, TimerState, PyStates, PauseStates

\* The entry that is there is a Timer.
LEMMA PresentIsTimer ==
    ASSUME TypeOK, NEW c \in Collectors, Present(c)
    PROVE  entry[c] \in TimerState
BY DEF TypeOK, Present

\* Replacing an entry keeps the types of entries and loose Timers.
LEMMA ReplaceTyped ==
    ASSUME TypeOK, NEW c \in Collectors, NEW t \in TimerState \cup {Absent}, Replace(c, t)
    PROVE  entry' \in [Collectors -> TimerState \cup {Absent}] /\ loose' \in [Collectors -> Nat]
<1>1. entry' \in [Collectors -> TimerState \cup {Absent}]
  BY DEF TypeOK, Replace
<1>2. Orphans(entry[c]) \in Nat
  BY DEF Orphans
<1>3. loose' \in [Collectors -> Nat]
  BY <1>2 DEF TypeOK, Replace
<1> QED BY <1>1, <1>3

\* What verify puts into the dictionary is a Timer.
LEMMA TimerOfTyped == ASSUME NEW c \in Collectors PROVE TimerOf(c) \in TimerState
BY NewTimerTyped DEF TimerOf, NewTimer, TimerState, PyStates, PauseStates

\* TypeOK holds initially.
LEMMA InitTyped == Init => TypeOK
<1> SUFFICES ASSUME Init PROVE TypeOK
  OBVIOUS
<1>1. \A c \in Collectors : Started(TimerOf(c)) \in TimerState
  BY TimerOfTyped, TimerCalls
<1>2. entry \in [Collectors -> TimerState \cup {Absent}]
  BY <1>1 DEF Init
<1>3. Visits \in Nat /\ 0 \in 0..Visits
  BY DEF Visits
<1>4. 0 \in 0..MaxCalls /\ 0 \in 0..MaxFreezes
  BY VerificationAssumption
<1> QED
  BY <1>2, <1>3, <1>4 DEF Init, TypeOK

\* The steps of the collectors keep the types.
LEMMA CollectingTyped == ASSUME TypeOK, NEW c \in Collectors, Collecting(c) PROVE TypeOK'
<1>1. calls \in Nat /\ (calls < MaxCalls => calls + 1 \in 0..MaxCalls)
  BY VerificationAssumption DEF TypeOK
<1>2. CASE BeginVerify(c)
  <2>1. Present(c) => AfterCancel(entry[c]) \in TimerState
    BY PresentIsTimer, TimerCalls
  <2>2. entry' \in [Collectors -> TimerState \cup {Absent}]
    BY <1>2, <2>1 DEF BeginVerify, TypeOK
  <2> QED
    BY <1>1, <1>2, <2>2 DEF BeginVerify, TypeOK, walkVars, Visits
<1>3. CASE SetTimer(c)
  <2>1. entry' \in [Collectors -> TimerState \cup {Absent}] /\ loose' \in [Collectors -> Nat]
    BY <1>3, TimerOfTyped, ReplaceTyped DEF SetTimer
  <2> QED
    BY <1>3, <2>1 DEF SetTimer, TypeOK, walkVars, Visits
<1>4. CASE StartTimer(c)
  <2>1. Present(c) => Started(entry[c]) \in TimerState
    BY PresentIsTimer, TimerCalls
  <2>2. entry' \in [Collectors -> TimerState \cup {Absent}] /\ loose' \in [Collectors -> Nat]
    <3>1. CASE Present(c)
      BY <1>4, <2>1, <3>1, ReplaceTyped DEF StartTimer
    <3>2. CASE ~Present(c)
      BY <1>4, <3>2 DEF StartTimer, TypeOK
    <3> QED BY <3>1, <3>2
  <2> QED
    BY <1>4, <2>2 DEF StartTimer, TypeOK, walkVars, Visits
<1>5. CASE RemoveFromNode(c)
  <2>1. entry' \in [Collectors -> TimerState \cup {Absent}] /\ loose' \in [Collectors -> Nat]
    BY <1>5, ReplaceTyped DEF RemoveFromNode
  <2> QED
    BY <1>1, <1>5, <2>1 DEF RemoveFromNode, TypeOK, walkVars, Visits
<1>6. CASE CancelInEdge(c)
  <2>1. entry' \in [Collectors -> TimerState \cup {Absent}]
    <3>1. AfterCancel(entry[c]) \in TimerState
      BY <1>6, PresentIsTimer, TimerCalls DEF CancelInEdge
    <3> QED
      BY <1>6, <3>1 DEF CancelInEdge, TypeOK
  <2> QED
    BY <1>1, <1>6, <2>1 DEF CancelInEdge, TypeOK, walkVars, Visits
<1>7. CASE RemoveFromEdge(c)
  <2>1. entry' \in [Collectors -> TimerState \cup {Absent}] /\ loose' \in [Collectors -> Nat]
    BY <1>7, ReplaceTyped DEF RemoveFromEdge
  <2>2. /\ verifying' \in [Collectors -> {"no", "cancelled", "set", "removing"}]
        /\ checking' \in Nat
    BY <1>7 DEF RemoveFromEdge, TypeOK
  <2>3. UNCHANGED <<kind, popping, removing, deleting, gone, calls, walkVars>>
    BY <1>7 DEF RemoveFromEdge
  <2> QED
    BY <2>1, <2>2, <2>3 DEF TypeOK, walkVars, Visits
<1>8. CASE RemoveNothing(c)
  BY <1>1, <1>8 DEF RemoveNothing, TypeOK, walkVars, Visits
<1> QED
  BY <1>2, <1>3, <1>4, <1>5, <1>6, <1>7, <1>8 DEF Collecting

\* The steps of the pyTimer threads keep the types.
LEMMA ExpiringTyped == ASSUME TypeOK, Expiring PROVE TypeOK'
<1>1. ASSUME NEW c \in Collectors, Fire(c) PROVE TypeOK'
  <2>1. entry[c] \in TimerState
    BY <1>1, PresentIsTimer DEF Fire, Present, Absent
  <2>2. entry' \in [Collectors -> TimerState \cup {Absent}]
    BY <1>1, <2>1, TimerCalls DEF Fire, TypeOK
  <2> QED
    BY <1>1, <2>2 DEF Fire, TypeOK, walkVars, Visits
<1>2. ASSUME NEW c \in Collectors, FireLoose(c) PROVE TypeOK'
  BY <1>2 DEF FireLoose, TypeOK, walkVars, Visits
<1>3. ASSUME NEW c \in Collectors, Pop(c) \/ Drop(c) PROVE TypeOK'
  <2>1. entry' \in [Collectors -> TimerState \cup {Absent}] /\ loose' \in [Collectors -> Nat]
    BY <1>3, ReplaceTyped DEF Pop, Drop
  <2>2. /\ popping' \in [Collectors -> Nat] /\ removing' \in [Collectors -> Nat]
        /\ checking' \in Nat
    BY <1>3 DEF Pop, Drop, TypeOK
  <2>3. UNCHANGED <<kind, deleting, gone, verifying, calls, walkVars>>
    BY <1>3 DEF Pop, Drop
  <2> QED
    BY <2>1, <2>2, <2>3 DEF TypeOK, walkVars, Visits
<1>8. ASSUME NEW c \in Collectors, CancelFound(c) PROVE TypeOK'
  <2>1. entry' \in [Collectors -> TimerState \cup {Absent}]
    <3>1. Present(c) => AfterCancel(entry[c]) \in TimerState
      BY PresentIsTimer, TimerCalls
    <3> QED
      BY <1>8, <3>1 DEF CancelFound, TypeOK
  <2>2. /\ popping' \in [Collectors -> Nat] /\ removing' \in [Collectors -> Nat]
        /\ checking' \in Nat
    BY <1>8 DEF CancelFound, TypeOK
  <2>3. UNCHANGED <<kind, loose, deleting, gone, verifying, calls, walkVars>>
    BY <1>8 DEF CancelFound
  <2> QED
    BY <2>1, <2>2, <2>3 DEF TypeOK, walkVars, Visits
<1>4. CASE Check
  BY <1>4 DEF Check, TypeOK, walkVars, Visits
<1>5. ASSUME CancelAll PROVE entry' \in [Collectors -> TimerState \cup {Absent}] /\ gone' \in BOOLEAN
  <2>1. \A c \in Collectors : Present(c) => AfterCancel(entry[c]) \in TimerState
    BY PresentIsTimer, TimerCalls
  <2> QED
    BY <1>5, <2>1 DEF CancelAll
<1>6. CASE Delete
  BY <1>5, <1>6 DEF Delete, TypeOK, walkVars, Visits
<1>7. CASE DeleteEdge
  BY <1>5, <1>7 DEF DeleteEdge, TypeOK, walkVars, Visits
<1> QED
  BY <1>1, <1>2, <1>3, <1>4, <1>6, <1>7, <1>8 DEF Expiring

\* The steps of freeze and melt keep the types; a freeze under way is owed.
LEMMA WalkingTyped == ASSUME TypeOK, FreezeIsOwed, Walking PROVE TypeOK'
<1>1. Visits \in Nat
  BY DEF Visits
<1>2. ASSUME NEW c \in Collectors, PauseTimer(c) PROVE TypeOK'
  <2>1. entry' \in [Collectors -> TimerState \cup {Absent}]
    <3>1. CASE Present(c)
      <4>1. PICK t \in AfterPause(entry[c]) : entry' = [entry EXCEPT ![c] = t]
        BY <1>2, <3>1 DEF PauseTimer
      <4>2. t \in TimerState
        BY <3>1, <4>1, PresentIsTimer, TimerCalls
      <4> QED
        BY <4>1, <4>2 DEF TypeOK
    <3>2. CASE ~Present(c)
      BY <1>2, <3>2 DEF PauseTimer, TypeOK
    <3> QED BY <3>1, <3>2
  <2>2. pausing' \in [Collectors -> 0..Visits]
    BY <1>1, <1>2 DEF PauseTimer, TypeOK
  <2> QED
    BY <1>2, <2>1, <2>2 DEF PauseTimer, TypeOK, Visits
<1>3. ASSUME NEW c \in Collectors, ResumeTimer(c) PROVE TypeOK'
  <2>1. entry' \in [Collectors -> TimerState \cup {Absent}] /\ loose' \in [Collectors -> Nat]
    <3>1. CASE Present(c)
      <4>1. AfterResume(entry[c]) \in TimerState
        BY <3>1, PresentIsTimer, TimerCalls
      <4> QED
        BY <1>3, <3>1, <4>1, ReplaceTyped DEF ResumeTimer
    <3>2. CASE ~Present(c)
      BY <1>3, <3>2 DEF ResumeTimer, TypeOK
    <3> QED BY <3>1, <3>2
  <2>2. resuming' \in [Collectors -> 0..Visits]
    BY <1>1, <1>3 DEF ResumeTimer, TypeOK
  <2> QED
    BY <1>3, <2>1, <2>2 DEF ResumeTimer, TypeOK, Visits
<1>4. CASE BeginFreeze
  <2>1. freezes' \in 0..MaxFreezes
    BY <1>4, VerificationAssumption DEF BeginFreeze, TypeOK
  <2>2. pausing' \in [Collectors -> 0..Visits]
    BY <1>1, <1>4 DEF BeginFreeze
  <2> QED
    BY <1>4, <2>1, <2>2 DEF BeginFreeze, TypeOK, scannerVars, Visits
<1>5. CASE BeginMelt
  <2>1. resuming' \in [Collectors -> 0..Visits]
    BY <1>1, <1>5 DEF BeginMelt
  <2> QED
    BY <1>5, <2>1 DEF BeginMelt, TypeOK, scannerVars, Visits
<1>6. CASE FreezeRaises
  <2>1. frozen > 0
    BY <1>1, <1>6 DEF FreezeRaises, NotWalking, FreezeIsOwed, TypeOK
  <2>2. pausing' \in [Collectors -> 0..Visits]
    BY <1>1, <1>6 DEF FreezeRaises
  <2> QED
    BY <1>6, <2>1, <2>2 DEF FreezeRaises, TypeOK, scannerVars, Visits
<1>7. CASE MeltRaises
  <2>1. resuming' \in [Collectors -> 0..Visits]
    BY <1>1, <1>7 DEF MeltRaises
  <2> QED
    BY <1>7, <2>1 DEF MeltRaises, TypeOK, scannerVars, Visits
<1> QED
  BY <1>2, <1>3, <1>4, <1>5, <1>6, <1>7 DEF Walking

\* What a step does not touch stays accounted for.
LEMMA Untouched ==
    ASSUME NEW c \in Collectors, Accounted(c),
           entry'[c] = entry[c], popping'[c] = popping[c], removing'[c] = removing[c],
           verifying'[c] = verifying[c],
           frozen > 0 => frozen' > 0, resuming[c] > 0 => resuming'[c] > 0
    PROVE  Accounted(c)'
BY DEF Accounted, Expired

\* A freeze under way stays owed.
LEMMA OwedStep == ASSUME TypeOK, FreezeIsOwed, Next PROVE FreezeIsOwed'
<1>1. ASSUME UNCHANGED <<pausing, frozen>> PROVE FreezeIsOwed'
  BY <1>1 DEF FreezeIsOwed
<1>2. ASSUME NEW c \in Collectors, Collecting(c) PROVE UNCHANGED <<pausing, frozen>>
  BY <1>2 DEF Collecting, BeginVerify, SetTimer, StartTimer, RemoveFromNode, CancelInEdge,
         RemoveFromEdge, RemoveNothing, walkVars
<1>3. ASSUME Expiring PROVE UNCHANGED <<pausing, frozen>>
  BY <1>3 DEF Expiring, Fire, FireLoose, Pop, CancelFound, Drop, Check, Delete,
                     DeleteEdge, walkVars
<1>4. ASSUME NEW c \in Collectors, PauseTimer(c) PROVE FreezeIsOwed'
  <2>1. \A d \in Collectors : pausing'[d] > 0 => pausing[d] > 0
    BY <1>4 DEF PauseTimer, TypeOK
  <2> QED
    BY <1>4, <2>1 DEF PauseTimer, FreezeIsOwed
<1>5. ASSUME NEW c \in Collectors, ResumeTimer(c) PROVE UNCHANGED <<pausing, frozen>>
  BY <1>5 DEF ResumeTimer
<1>6. CASE BeginFreeze
  BY <1>6 DEF BeginFreeze, FreezeIsOwed, TypeOK
<1>7. CASE BeginMelt
  <2>1. frozen > 1 \/ \A c \in Collectors : pausing[c] = 0
    BY <1>7 DEF BeginMelt, NotWalking
  <2> QED
    BY <1>7, <2>1 DEF BeginMelt, FreezeIsOwed, TypeOK
<1>8. CASE FreezeRaises
  BY <1>8 DEF FreezeRaises, FreezeIsOwed
<1>9. CASE MeltRaises
  BY <1>9 DEF MeltRaises, FreezeIsOwed
<1> QED
  BY <1>1, <1>2, <1>3, <1>4, <1>5, <1>6, <1>7, <1>8, <1>9 DEF Next, Walking

\* What a collector does leaves every entry accounted for.
LEMMA CollectingAccounted ==
    ASSUME TypeOK, EntriesAccounted, NEW d \in Collectors, Collecting(d)
    PROVE  EntriesAccounted'
<1> SUFFICES ASSUME ~gone', ~broken', NEW c \in Collectors \ Forever, Present(c)'
             PROVE  Accounted(c)'
  BY DEF EntriesAccounted
<1>1. ~gone /\ ~broken /\ UNCHANGED <<popping, removing, frozen, resuming>>
  BY DEF Collecting, BeginVerify, SetTimer, StartTimer, RemoveFromNode, CancelInEdge,
         RemoveFromEdge, RemoveNothing, walkVars
<1>2. Present(c) => Accounted(c)
  BY <1>1 DEF EntriesAccounted
<1>3. CASE c # d
  <2>1. entry'[c] = entry[c] /\ verifying'[c] = verifying[c]
    BY <1>3 DEF Collecting, BeginVerify, SetTimer, StartTimer, RemoveFromNode,
                CancelInEdge, RemoveFromEdge, RemoveNothing, Replace, TypeOK
  <2> QED
    BY <1>1, <1>2, <2>1, Untouched DEF Present
<1>4. CASE c = d /\ BeginVerify(d)
  <2>1. verifying'[c] = "cancelled" /\ Present(c) /\ entry'[c] = AfterCancel(entry[c])
    BY <1>4 DEF BeginVerify, TypeOK, Present
  <2>2. ~entry'[c].running
    BY <2>1, PresentIsTimer, CancelledOrFired
  <2> QED
    BY <2>1, <2>2 DEF Accounted
<1>5. CASE c = d /\ SetTimer(d)
  <2>1. verifying'[c] = "set" /\ entry'[c] = NewTimer
    BY <1>5 DEF SetTimer, Replace, TypeOK, TimerOf
  <2> QED
    BY <2>1 DEF Accounted, NewTimer
<1>6. CASE c = d /\ StartTimer(d)
  <2>1. Present(c)
    BY <1>6 DEF StartTimer, Present
  <2>2. verifying[c] = "set" /\ entry'[c] = Started(entry[c])
    BY <1>6, <2>1 DEF StartTimer, Replace, TypeOK
  <2>3. entry[c] \in TimerState
    BY <2>1, PresentIsTimer
  <2>4. entry'[c].py = "live" \/ (entry'[c].py = "never" /\ Expired(c))
    BY <1>2, <2>1, <2>2, <2>3, StartedCounts DEF Accounted
  <2>5. entry'[c].paused = "no" /\ Expired(c)' = Expired(c)
    BY <1>1, <2>2, <2>3, StartedCounts DEF Expired
  <2> QED
    BY <2>4, <2>5 DEF Accounted
<1>7. CASE c = d /\ (RemoveFromNode(d) \/ RemoveFromEdge(d) \/ RemoveNothing(d))
  BY <1>7 DEF RemoveFromNode, RemoveFromEdge, RemoveNothing, Replace, Present, TypeOK
<1>8. CASE c = d /\ CancelInEdge(d)
  <2>1. verifying'[c] = "removing" /\ Present(c) /\ entry'[c] = AfterCancel(entry[c])
    BY <1>8 DEF CancelInEdge, TypeOK, Present
  <2>2. ~entry'[c].running
    BY <2>1, PresentIsTimer, CancelledOrFired
  <2> QED
    BY <2>1, <2>2 DEF Accounted
<1> QED
  BY <1>3, <1>4, <1>5, <1>6, <1>7, <1>8 DEF Collecting

\* So does what the pyTimer threads do.
LEMMA ExpiringAccounted ==
    ASSUME TypeOK, EntriesAccounted, Expiring
    PROVE  EntriesAccounted'
<1> SUFFICES ASSUME ~gone', ~broken', NEW c \in Collectors \ Forever, Present(c)'
             PROVE  Accounted(c)'
  BY DEF EntriesAccounted
<1>1. UNCHANGED <<broken, frozen, resuming, verifying>>
  BY DEF Expiring, Fire, FireLoose, Pop, CancelFound, Drop, Check, Delete,
                     DeleteEdge, walkVars
<1>2. ~Delete /\ ~DeleteEdge
  BY DEF Delete, DeleteEdge, CancelAll
<1>3. ~gone
  BY <1>2 DEF Expiring, Fire, FireLoose, Pop, CancelFound, Drop, Check
<1>4. Present(c) => Accounted(c)
  BY <1>1, <1>3 DEF EntriesAccounted
<1>5. ASSUME NEW d \in Collectors, Fire(d) PROVE Accounted(c)'
  <2>1. CASE c # d
    <3>1. entry'[c] = entry[c] /\ popping'[c] = popping[c] /\ removing' = removing
      BY <1>5, <2>1 DEF Fire, TypeOK
    <3> QED
      BY <1>1, <1>4, <3>1, Untouched DEF Present
  <2>2. CASE c = d
    <3>1. popping'[c] > 0
      BY <1>5, <2>2 DEF Fire, TypeOK
    <3> QED
      BY <3>1 DEF Accounted, Expired
  <2> QED BY <2>1, <2>2
<1>6. ASSUME NEW d \in Collectors, FireLoose(d) PROVE Accounted(c)'
  <2>1. entry'[c] = entry[c] /\ removing' = removing
    BY <1>6 DEF FireLoose
  <2>2. CASE c # d
    <3>1. popping'[c] = popping[c]
      BY <1>6, <2>2 DEF FireLoose, TypeOK
    <3> QED
      BY <1>1, <1>4, <2>1, <3>1, Untouched DEF Present
  <2>3. CASE c = d
    <3>1. popping'[c] > 0
      BY <1>6, <2>3 DEF FireLoose, TypeOK
    <3> QED
      BY <3>1 DEF Accounted, Expired
  <2> QED BY <2>2, <2>3
<1>7. ASSUME NEW d \in Collectors, Pop(d) \/ Drop(d) PROVE Accounted(c)'
  <2>1. entry' = [entry EXCEPT ![d] = Absent]
    BY <1>7 DEF Pop, Drop, Replace
  <2>2. c # d
    BY <2>1 DEF Present, TypeOK
  <2>3. /\ entry'[c] = entry[c] /\ popping'[c] = popping[c]
        /\ removing'[c] = removing[c]
    BY <1>7, <2>1, <2>2 DEF Pop, Drop, TypeOK
  <2> QED
    BY <1>1, <1>4, <2>3, Untouched DEF Present
<1>8. CASE Check
  BY <1>1, <1>4, <1>8, Untouched DEF Check, Present
<1>9. ASSUME NEW d \in Collectors, CancelFound(d) PROVE Accounted(c)'
  <2>1. CASE c # d
    <3>1. /\ entry'[c] = entry[c] /\ popping'[c] = popping[c]
          /\ removing'[c] = removing[c]
      BY <1>9, <2>1 DEF CancelFound, TypeOK
    <3> QED
      BY <1>1, <1>4, <3>1, Untouched DEF Present
  <2>2. CASE c = d
    <3>1. Present(c)
      BY <1>9, <2>2 DEF CancelFound, Present
    <3>2. removing'[c] > 0
      BY <1>9, <2>2, <3>1 DEF CancelFound, TypeOK
    <3> QED
      BY <3>2 DEF Accounted, Expired
  <2> QED BY <2>1, <2>2
<1> QED
  BY <1>2, <1>5, <1>6, <1>7, <1>8, <1>9 DEF Expiring

\* And what freeze and melt do, as long as they do not raise.
LEMMA WalkingAccounted ==
    ASSUME TypeOK, FreezeIsOwed, EntriesAccounted, Walking
    PROVE  EntriesAccounted'
<1> SUFFICES ASSUME ~gone', ~broken', NEW c \in Collectors \ Forever, Present(c)'
             PROVE  Accounted(c)'
  BY DEF EntriesAccounted
<1>1. ~FreezeRaises /\ ~MeltRaises
  BY DEF FreezeRaises, MeltRaises
<1>2. ~gone /\ ~broken /\ UNCHANGED <<popping, removing, verifying>>
  BY <1>1 DEF Walking, PauseTimer, ResumeTimer, BeginFreeze, BeginMelt, scannerVars
<1>3. Present(c) => Accounted(c)
  BY <1>2 DEF EntriesAccounted
<1>4. ASSUME NEW d \in Collectors, PauseTimer(d) PROVE Accounted(c)'
  <2>1. UNCHANGED <<frozen, resuming>>
    BY <1>4 DEF PauseTimer
  <2>2. CASE entry'[c] = entry[c]
    BY <1>2, <1>3, <2>1, <2>2, Untouched DEF Present
  <2>3. CASE entry'[c] # entry[c]
    <3>1. c = d /\ Present(c)
      BY <1>4, <2>3 DEF PauseTimer, TypeOK
    <3>2. PICK t \in AfterPause(entry[c]) : entry' = [entry EXCEPT ![c] = t]
      BY <1>4, <3>1 DEF PauseTimer
    <3>3. entry'[c] = t /\ entry[c] \in TimerState
      BY <3>1, <3>2, PresentIsTimer DEF TypeOK
    <3>4. frozen > 0
      BY <1>4, <3>1 DEF PauseTimer, FreezeIsOwed
    <3> QED
      BY <1>2, <1>3, <2>1, <3>1, <3>2, <3>3, <3>4, PausedStops DEF Accounted, Expired
  <2> QED BY <2>2, <2>3
<1>5. ASSUME NEW d \in Collectors, ResumeTimer(d) PROVE Accounted(c)'
  <2>1. UNCHANGED frozen
    BY <1>5 DEF ResumeTimer
  <2>2. CASE c # d
    <3>1. entry'[c] = entry[c] /\ resuming'[c] = resuming[c]
      BY <1>5, <2>2 DEF ResumeTimer, Replace, TypeOK
    <3> QED
      BY <1>2, <1>3, <2>1, <3>1, Untouched DEF Present
  <2>3. CASE c = d
    <3>1. Present(c)
      BY <1>5, <2>3 DEF ResumeTimer, Present
    <3>2. entry'[c] = AfterResume(entry[c])
      BY <1>5, <2>3, <3>1 DEF ResumeTimer, Replace, TypeOK
    <3>3. entry[c] \in TimerState
      BY <3>1, PresentIsTimer
    <3> QED
      BY <1>2, <1>3, <3>1, <3>2, <3>3, StartedCounts DEF Accounted, Expired
  <2> QED BY <2>2, <2>3
<1>6. CASE BeginFreeze
  BY <1>2, <1>3, <1>6, Untouched DEF BeginFreeze, scannerVars, TypeOK, Present
<1>7. CASE BeginMelt
  <2>1. resuming'[c] > 0 /\ entry' = entry
    BY <1>7 DEF BeginMelt, Visits, scannerVars
  <2> QED
    BY <1>2, <1>3, <2>1 DEF Accounted, Expired, Present
<1> QED
  BY <1>1, <1>4, <1>5, <1>6, <1>7 DEF Walking

\* The inductive invariant is one.
THEOREM Inductive == Spec => []IInv
<1>1. Init => IInv
  <2> SUFFICES ASSUME Init PROVE FreezeIsOwed /\ EntriesAccounted
    BY InitTyped DEF IInv
  <2>1. FreezeIsOwed
    BY DEF Init, FreezeIsOwed
  <2>2. Started(NewTimer).py = "live" /\ Started(NewTimer).paused = "no"
    BY DEF Started, NewTimer
  <2>3. \A c \in Collectors \ Forever : Present(c) => entry[c] = Started(NewTimer)
    BY DEF Init, Present, TimerOf
  <2> QED
    BY <2>1, <2>2, <2>3 DEF EntriesAccounted, Accounted
<1>2. IInv /\ [Next]_vars => IInv'
  <2> SUFFICES ASSUME IInv, [Next]_vars PROVE IInv'
    OBVIOUS
  <2>1. CASE Next
    <3>1. TypeOK'
      BY <2>1, CollectingTyped, ExpiringTyped, WalkingTyped DEF Next, IInv
    <3>2. EntriesAccounted'
      BY <2>1, CollectingAccounted, ExpiringAccounted, WalkingAccounted DEF Next, IInv
    <3> QED
      BY <2>1, <3>1, <3>2, OwedStep DEF IInv
  <2>2. CASE UNCHANGED vars
    <3>1. TypeOK'
      BY <2>2 DEF vars, scannerVars, walkVars, IInv, TypeOK, Visits
    <3>2. FreezeIsOwed' /\ EntriesAccounted'
      BY <2>2 DEF vars, scannerVars, walkVars, IInv, FreezeIsOwed, EntriesAccounted, Accounted, Expired, Present
    <3> QED
      BY <3>1, <3>2 DEF IInv
  <2> QED BY <2>1, <2>2
<1> QED
  BY <1>1, <1>2, PTL DEF Spec

\* Every reachable state is typed (Node.py:19-29, Edge.py:30-42).
THEOREM TypesAreCorrect == Spec => []TypeOK
<1>1. IInv => TypeOK
  BY DEF IInv
<1> QED
  BY <1>1, Inductive, PTL

\* In a graph that is not frozen no scanner of a live element, unless its timeout
\* is -1, is without a Timer that counts or a thread that removes it or starts it
\* (Node.py:140-164,
\* Edge.py:144-163, Graph.py:79-99).
THEOREM ScannersTick == Spec => []EveryScannerTicks
<1>1. IInv => EveryScannerTicks
  <2> SUFFICES ASSUME IInv, Thawed, ~gone, NEW c \in Collectors \ Forever, Present(c)
               PROVE  entry[c].py = "live" \/ Expired(c) \/ verifying[c] # "no"
    BY DEF EveryScannerTicks
  <2>1. Accounted(c) /\ frozen = 0 /\ resuming[c] = 0
    BY DEF IInv, EntriesAccounted, Thawed, NotWalking
  <2> QED
    BY <2>1 DEF Accounted
<1> QED
  BY <1>1, Inductive, PTL

(***************************************************************************)
(* Collectors that verify for ever                                         *)
(*                                                                         *)
(* A Timer that never counts stays one whatever is called on it, so that   *)
(* no thread ever fires for such a collector.                              *)
(***************************************************************************)
Silent(c) ==
    entry[c].py \in {"never", "absent"} /\ loose[c] = 0 /\ popping[c] = 0 /\ removing[c] = 0

PermanentSilent == \A c \in Forever : Silent(c)

\* Every call leaves a Timer of duration -1 as silent as it was.
LEMMA NeverCounts ==
    ASSUME NEW t \in TimerState, t.py = "never"
    PROVE  /\ Started(t).py = "never" /\ AfterResume(t).py = "never"
           /\ AfterCancel(t).py = "never" /\ Orphans(t) = 0
           /\ \A u \in AfterPause(t) : u.py = "never"
<1>1. AfterPause(t) = {[t EXCEPT !.running = FALSE]}
  BY DEF AfterPause
<1>2. [t EXCEPT !.running = FALSE].py = "never"
  BY DEF TimerState
<1> QED
  BY <1>1, <1>2 DEF Started, AfterResume, AfterCancel, Orphans, TimerState

\* The entry of a silent collector, if there is one, is such a Timer.
LEMMA SilentEntry ==
    ASSUME TypeOK, NEW c \in Collectors, Silent(c), Present(c)
    PROVE  entry[c] \in TimerState /\ entry[c].py = "never"
<1>1. entry[c] \in TimerState
  BY PresentIsTimer
<1> QED
  BY <1>1 DEF Silent, TimerState, PyStates

\* Replacing the entry of a silent collector loses no threading.Timer.
LEMMA SilentReplaced ==
    ASSUME TypeOK, NEW c \in Collectors, Silent(c), NEW t, t.py \in {"never", "absent"},
           Replace(c, t)
    PROVE  entry'[c].py \in {"never", "absent"} /\ loose'[c] = 0
<1>1. Orphans(entry[c]) = 0
  BY DEF Orphans, Silent
<1> QED
  BY <1>1 DEF Replace, Silent, TypeOK

\* What verify creates for a collector with timeout -1.
LEMMA TimerOfPermanent == ASSUME NEW c \in Forever PROVE TimerOf(c).py = "never"
BY DEF TimerOf, NewTimer

\* An absent entry.
LEMMA AbsentSilent == Absent.py = "absent"
BY DEF Absent

\* The collectors keep the silence.
LEMMA CollectingSilent ==
    ASSUME TypeOK, NEW c \in Forever, Silent(c), NEW d \in Collectors, Collecting(d)
    PROVE  Silent(c)'
<1>1. c \in Collectors
  BY VerificationAssumption
<1>2. UNCHANGED <<popping, removing>>
  BY DEF Collecting, BeginVerify, SetTimer, StartTimer, RemoveFromNode, CancelInEdge,
         RemoveFromEdge, RemoveNothing
<1>3. CASE c # d
  <2>1. entry'[c] = entry[c] /\ loose'[c] = loose[c]
    BY <1>1, <1>3 DEF Collecting, BeginVerify, SetTimer, StartTimer, RemoveFromNode,
         CancelInEdge, RemoveFromEdge, RemoveNothing, Replace, TypeOK
  <2> QED
    BY <1>2, <2>1 DEF Silent
<1>4. CASE c = d /\ (BeginVerify(c) \/ CancelInEdge(c))
  <2>1. entry'[c] = (IF Present(c) THEN AfterCancel(entry[c]) ELSE entry[c]) /\ loose' = loose
    BY <1>1, <1>4 DEF BeginVerify, CancelInEdge, TypeOK
  <2>2. entry'[c].py \in {"never", "absent"}
    BY <1>1, <2>1, SilentEntry, NeverCounts DEF Silent
  <2> QED
    BY <1>2, <2>1, <2>2 DEF Silent
<1>5. CASE c = d /\ SetTimer(c)
  BY <1>1, <1>2, <1>5, SilentReplaced, TimerOfPermanent DEF SetTimer, Silent
<1>6. CASE c = d /\ StartTimer(c)
  <2>1. CASE Present(c)
    <3>1. Started(entry[c]).py = "never" /\ Replace(c, Started(entry[c]))
      BY <1>1, <1>6, <2>1, SilentEntry, NeverCounts DEF StartTimer
    <3> QED
      BY <1>1, <1>2, <3>1, SilentReplaced DEF Silent
  <2>2. CASE ~Present(c)
    BY <1>2, <1>6, <2>2 DEF StartTimer, Silent
  <2> QED BY <2>1, <2>2
<1>7. CASE c = d /\ (RemoveFromNode(c) \/ RemoveFromEdge(c))
  BY <1>1, <1>2, <1>7, SilentReplaced, AbsentSilent DEF RemoveFromNode, RemoveFromEdge, Silent
<1>8. CASE c = d /\ RemoveNothing(c)
  BY <1>2, <1>8 DEF RemoveNothing, Silent
<1> QED
  BY <1>3, <1>4, <1>5, <1>6, <1>7, <1>8 DEF Collecting

\* So do the pyTimer threads, as none fires for such a collector.
LEMMA ExpiringSilent ==
    ASSUME TypeOK, NEW c \in Forever, Silent(c), Expiring
    PROVE  Silent(c)' /\ (Present(c) => Present(c)')
<1>1. c \in Collectors
  BY VerificationAssumption
<1>2. ASSUME NEW d \in Collectors,
             Fire(d) \/ FireLoose(d) \/ Pop(d) \/ CancelFound(d) \/ Drop(d)
      PROVE  /\ entry'[c] = entry[c] /\ loose'[c] = loose[c]
             /\ popping'[c] = popping[c] /\ removing'[c] = removing[c]
  <2>1. d # c
    BY <1>2 DEF Fire, FireLoose, Pop, CancelFound, Drop, Silent
  <2> QED
    BY <1>1, <1>2, <2>1 DEF Fire, FireLoose, Pop, CancelFound, Drop, Replace, TypeOK
<1>3. CASE Check
  BY <1>3 DEF Check, Silent, Present
<1>4. CASE Delete \/ DeleteEdge
  <2>1. /\ entry'[c] = (IF Present(c) THEN AfterCancel(entry[c]) ELSE Absent)
        /\ UNCHANGED <<loose, popping, removing>>
    BY <1>1, <1>4 DEF Delete, DeleteEdge, CancelAll
  <2>2. CASE Present(c)
    <3>1. entry'[c].py = "never"
      BY <1>1, <2>1, <2>2, SilentEntry, NeverCounts
    <3> QED
      BY <2>1, <3>1 DEF Silent, Present, Absent
  <2>3. CASE ~Present(c)
    BY <2>1, <2>3, AbsentSilent DEF Silent
  <2> QED BY <2>2, <2>3
<1> QED
  BY <1>2, <1>3, <1>4 DEF Expiring, Silent, Present

\* And so do freeze and melt.
LEMMA WalkingSilent ==
    ASSUME TypeOK, NEW c \in Forever, Silent(c), Walking
    PROVE  Silent(c)' /\ (Present(c) => Present(c)')
<1>1. c \in Collectors
  BY VerificationAssumption
<1>2. UNCHANGED <<popping, removing>>
  BY DEF Walking, PauseTimer, ResumeTimer, BeginFreeze, BeginMelt, FreezeRaises, MeltRaises,
         scannerVars
<1>3. ASSUME NEW d \in Collectors, PauseTimer(d)
      PROVE  loose' = loose /\ (entry'[c] = entry[c] \/ (Present(c) /\ entry'[c].py = "never"))
  <2>1. CASE d = c /\ Present(c)
    <3>1. PICK t \in AfterPause(entry[c]) : entry' = [entry EXCEPT ![c] = t]
      BY <1>3, <2>1 DEF PauseTimer
    <3>2. t.py = "never"
      BY <1>1, <2>1, SilentEntry, NeverCounts
    <3> QED
      BY <1>1, <1>3, <2>1, <3>1, <3>2 DEF PauseTimer, TypeOK
  <2>2. CASE ~(d = c /\ Present(c))
    BY <1>1, <1>3, <2>2 DEF PauseTimer, TypeOK
  <2> QED BY <2>1, <2>2
<1>4. ASSUME NEW d \in Collectors, ResumeTimer(d)
      PROVE  /\ loose'[c] = 0
             /\ entry'[c] = entry[c] \/ (Present(c) /\ entry'[c].py = "never")
  <2>1. CASE d = c /\ Present(c)
    <3>1. AfterResume(entry[c]).py = "never" /\ Replace(c, AfterResume(entry[c]))
      BY <1>1, <1>4, <2>1, SilentEntry, NeverCounts DEF ResumeTimer
    <3>2. loose'[c] = 0
      BY <1>1, <3>1, SilentReplaced
    <3> QED
      BY <1>1, <2>1, <3>1, <3>2 DEF Replace, TypeOK
  <2>2. CASE ~(d = c /\ Present(c))
    BY <1>1, <1>4, <2>2 DEF ResumeTimer, Replace, TypeOK, Silent
  <2> QED BY <2>1, <2>2
<1>5. CASE BeginFreeze \/ BeginMelt \/ FreezeRaises \/ MeltRaises
  BY <1>5 DEF BeginFreeze, BeginMelt, FreezeRaises, MeltRaises, scannerVars, Silent, Present
<1>6. ASSUME loose'[c] = 0, entry'[c] = entry[c] \/ (Present(c) /\ entry'[c].py = "never")
      PROVE  Silent(c)' /\ (Present(c) => Present(c)')
  BY <1>2, <1>6 DEF Silent, Present, Absent
<1>7. loose[c] = 0
  BY DEF Silent
<1> QED
  BY <1>3, <1>4, <1>5, <1>6, <1>7 DEF Walking

\* No Timer of a collector with timeout -1 ever counts or fires.
THEOREM PermanentAreSilent == Spec => []PermanentSilent
<1>1. Init => PermanentSilent
  <2> SUFFICES ASSUME Init, NEW c \in Forever PROVE Silent(c)
    BY DEF PermanentSilent
  <2>1. c \in Collectors
    BY VerificationAssumption
  <2>2. TimerOf(c) \in TimerState /\ TimerOf(c).py = "never"
    BY <2>1, TimerOfTyped, TimerOfPermanent
  <2>3. Started(TimerOf(c)).py = "never"
    BY <2>2, NeverCounts
  <2>4. entry[c] \in {Started(TimerOf(c)), Absent}
    BY <2>1 DEF Init
  <2>5. loose[c] = 0 /\ popping[c] = 0 /\ removing[c] = 0
    BY <2>1 DEF Init
  <2> QED
    BY <2>3, <2>4, <2>5, AbsentSilent DEF Silent
<1>2. TypeOK /\ PermanentSilent /\ [Next]_vars => PermanentSilent'
  <2>1. ASSUME PermanentSilent, UNCHANGED vars PROVE PermanentSilent'
    BY <2>1 DEF PermanentSilent, Silent, vars, scannerVars
  <2>2. ASSUME TypeOK, PermanentSilent, Next PROVE PermanentSilent'
    BY <2>2, CollectingSilent, ExpiringSilent, WalkingSilent DEF Next, PermanentSilent
  <2> QED BY <2>1, <2>2
<1> QED
  BY <1>1, <1>2, TypesAreCorrect, PTL DEF Spec

\* However many collectors and freezes there are, a collector with timeout -1
\* leaves the dictionary of an element only by its own removeVerification
\* (Timer.py:44, 57, 70, 79; XmlScanner.py:11).
THEOREM PermanentStay == Spec => PermanentScannersStay
<1> DEFINE Stays(c) == Present(c) /\ ~Present(c)' => calls' # calls \/ verifying[c] = "removing"
<1>1. ASSUME TypeOK, PermanentSilent, NEW c \in Forever, Next PROVE Stays(c)
  <2>1. c \in Collectors /\ Silent(c)
    BY <1>1, VerificationAssumption DEF PermanentSilent
  <2>2. ASSUME NEW d \in Collectors, Collecting(d) PROVE Stays(c)
    <3>1. CASE RemoveFromNode(d) \/ CancelInEdge(d) \/ RemoveNothing(d) \/ BeginVerify(d)
      <4>1. calls' # calls
        BY <1>1, <3>1 DEF RemoveFromNode, CancelInEdge, RemoveNothing, BeginVerify, TypeOK
      <4> QED
        BY <4>1
    <3>2. CASE RemoveFromEdge(d)
      <4>1. CASE d = c
        BY <3>2, <4>1 DEF RemoveFromEdge
      <4>2. CASE d # c
        BY <1>1, <2>1, <3>2, <4>2 DEF RemoveFromEdge, Replace, TypeOK, Present
      <4> QED BY <4>1, <4>2
    <3>3. CASE SetTimer(d)
      <4>1. TimerOf(d) # Absent
        BY TimerOfTyped, AbsentIsNoTimer
      <4> QED
        BY <1>1, <2>1, <3>3, <4>1 DEF SetTimer, Replace, TypeOK, Present
    <3>4. CASE StartTimer(d)
      <4>1. Present(d) => Started(entry[d]) # Absent
        BY <1>1, PresentIsTimer, TimerCalls, AbsentIsNoTimer
      <4> QED
        BY <1>1, <2>1, <3>4, <4>1 DEF StartTimer, Replace, TypeOK, Present
    <3> QED
      BY <2>2, <3>1, <3>2, <3>3, <3>4 DEF Collecting
  <2> QED
    BY <1>1, <2>1, <2>2, ExpiringSilent, WalkingSilent DEF Next
<1>2. ASSUME NEW c \in Forever, UNCHANGED vars PROVE Stays(c)
  BY <1>2 DEF vars, scannerVars, Present
<1>3. ASSUME TypeOK, PermanentSilent, [Next]_vars
      PROVE  [\A c \in Forever :
                 Present(c) /\ ~Present(c)' => calls' # calls \/ verifying[c] = "removing"]_vars
  BY <1>1, <1>2, <1>3
<1> QED
  BY <1>3, TypesAreCorrect, PermanentAreSilent, PTL DEF Spec, PermanentScannersStay
=============================================================================
