----------------------------- MODULE TimerProofs -----------------------------
(***************************************************************************)
(* Proofs about insalata.Timer, for every duration, every granularity of   *)
(* the clock and every bound on the number of threads: its types, that it  *)
(* is a PausableTimer whatever the client does, and that it is a Countdown *)
(* for a client that keeps to the protocol.                                *)
(***************************************************************************)
EXTENDS Timer, TimerOpsProofs, FiniteSetTheorems

\* What truncation to whole seconds does to a time in ticks.
LEMMA WholeSeconds ==
    ASSUME NEW a \in Nat, NEW b \in Nat \ {0}
    PROVE  a \div b \in Nat /\ (a \div b) * b <= a /\ a < (a \div b) * b + b
  <1>1. a \div b \in Int
    OBVIOUS
  <1>2. (a \div b) * b <= a /\ a < (a \div b) * b + b
    OBVIOUS
  <1>3. a \div b >= 0
    BY <1>1, <1>2
  <1> QED
    BY <1>1, <1>2, <1>3

LEMMA SecondsInTime ==
    ASSUME NEW a \in Nat, NEW b \in Nat \ {0}, NEW d \in Nat, a <= d * b
    PROVE  a \div b <= d
  <1> DEFINE q == a \div b
  <1>1. q \in Nat /\ q * b <= a
    BY WholeSeconds
  <1> HIDE DEF q
  <1>2. ASSUME q >= d + 1 PROVE FALSE
    <2>1. (q - d) * b >= b
      BY <1>1, <1>2
    <2>2. (q - d) * b = q * b - d * b
      BY <1>1
    <2> QED
      BY <1>1, <2>1, <2>2
  <1> QED
    BY <1>1, <1>2 DEF q

(***************************************************************************)
(* The fields of a Timer and its threads, in any order of calls            *)
(*                                                                         *)
(* A Timer that is paused has no thread of its own, nor has one that has   *)
(* got the duration -1; the thread it has is the one of its last start and *)
(* is due when its duration has passed since then, and no thread is late.  *)
(***************************************************************************)

\* The ticks threading.Timer waits.
Waits(d) == IF d > 0 THEN d * TicksPerSecond ELSE 0

LEMMA WaitsTyped == ASSUME NEW d \in Int PROVE Waits(d) \in Nat
  <1>1. ASSUME d > 0 PROVE d * TicksPerSecond \in Nat
    BY <1>1, TimerAssumption
  <1> QED
    BY <1>1 DEF Waits

Flags == running \in BOOLEAN /\ over \in BOOLEAN /\ protocol \in BOOLEAN

Types ==
    /\ now \in 0..Horizon /\ duration \in Int
    /\ startTime \in Nat \cup {None} /\ pauseTime \in Nat \cup {None}
    /\ timer \in (1..MaxStarts) \cup {None}
    /\ threads \subseteq Thread /\ IsFiniteSet(threads)
    /\ starts \in 0..MaxStarts /\ calls \in Nat
    /\ client \in {"new", "running", "paused", "done"}

FieldInv ==
    /\ pauseTime # None =>
         /\ timer = None /\ ~running /\ duration # -1
         /\ startTime # None /\ startTime <= pauseTime
    /\ duration = -1 => timer = None
    /\ timer # None => startTime # None /\ timer <= starts
    /\ startTime # None => startTime <= now

ThreadInv ==
    /\ \A th \in threads : th.id <= starts /\ now <= th.due
    /\ \A th \in threads : th.id = timer => th.due = startTime + Waits(duration)
    /\ \A th1, th2 \in threads : th1.id = th2.id => th1 = th2

TimerInv == Flags /\ Types /\ FieldInv /\ ThreadInv

LEMMA TimerInit == Init => TimerInv
  <1> SUFFICES ASSUME Init PROVE TimerInv
    OBVIOUS
  <1>1. Types
    <2>1. IsFiniteSet(threads)
      BY FS_EmptySet DEF Init
    <2> QED
      BY <2>1, TimerAssumption DEF Init, Types
  <1>2. FieldInv /\ ThreadInv
    BY DEF Init, FieldInv, ThreadInv
  <1>3. Flags
    BY Zenon DEF Init, Flags
  <1> QED
    BY <1>1, <1>2, <1>3 DEF TimerInv

\* A start, with whatever duration, replaces the thread the Timer knows.
LEMMA StartKeeps ==
    ASSUME TimerInv, NEW d \in Int, d = -1 => timer = None, StartWith(d),
           UNCHANGED <<now, over, calls, protocol>>, client' = "running"
    PROVE  TimerInv'
  <1> USE TimerAssumption DEF TimerInv, None
  <1>1. CASE d # -1
    <2> DEFINE th == [id |-> starts + 1, due |-> Due(d)]
    <2>1. /\ starts < MaxStarts /\ starts' = starts + 1 /\ timer' = starts + 1
          /\ threads' = threads \cup {th}
          /\ duration' = d /\ running' = TRUE /\ startTime' = now /\ pauseTime' = None
      BY <1>1 DEF StartWith
    <2>2. Due(d) \in Nat /\ now <= Due(d) /\ Due(d) = now + Waits(d)
      <3>1. now \in Nat /\ Waits(d) \in Nat
        BY WaitsTyped DEF Types
      <3>2. Due(d) = now + Waits(d)
        BY DEF Due, Waits
      <3> QED
        BY <3>1, <3>2
    <2>3. th \in Thread
      BY <2>1, <2>2 DEF Thread, Types
    <2>4. Types'
      <3>1. IsFiniteSet(threads')
        BY <2>1, FS_AddElement DEF Types
      <3>2. threads' \subseteq Thread
        BY <2>1, <2>3 DEF Types
      <3> QED
        BY <2>1, <3>1, <3>2 DEF Types
    <2>5. FieldInv'
      BY <1>1, <2>1 DEF FieldInv, Types
    <2>6. \A u \in threads : u.id \in Nat /\ u.id <= starts
      BY DEF ThreadInv, Types, Thread
    <2>7. \A u \in threads' : u.id <= starts' /\ now' <= u.due
      BY <2>1, <2>2, <2>6 DEF ThreadInv, Types
    <2>8. \A u \in threads' : u.id = timer' => u.due = startTime' + Waits(duration')
      BY <2>1, <2>2, <2>6 DEF Types
    <2>9. \A u, v \in threads' : u.id = v.id => u = v
      <3> SUFFICES ASSUME NEW u \in threads', NEW v \in threads', u.id = v.id PROVE u = v
        OBVIOUS
      <3>1. CASE u = th \/ v = th
        BY <2>1, <2>6, <3>1 DEF Types
      <3>2. CASE u # th /\ v # th
        BY <2>1, <3>2 DEF ThreadInv
      <3> QED
        BY <3>1, <3>2
    <2>10. Flags'
      BY <2>1, Zenon DEF Flags
    <2> QED
      BY <2>4, <2>5, <2>7, <2>8, <2>9, <2>10 DEF ThreadInv
  <1>2. CASE d = -1
    <2>1. /\ UNCHANGED <<starts, timer, threads>>
          /\ duration' = d /\ running' = TRUE /\ startTime' = now /\ pauseTime' = None
      BY <1>2 DEF StartWith
    <2>2. \A u \in threads : u.id # timer
      BY <1>2 DEF Types, Thread
    <2>3. Flags'
      BY <2>1, Zenon DEF Flags
    <2>4. Types' /\ FieldInv'
      BY <1>2, <2>1 DEF Types, FieldInv
    <2>5. ThreadInv'
      BY <2>1, <2>2 DEF ThreadInv
    <2> QED
      BY <2>3, <2>4, <2>5
  <1> QED
    BY <1>1, <1>2

LEMMA ResumeIs ==
    ASSUME TimerInv, Resume
    PROVE  \E d \in Int :
             /\ d = IF pauseTime = None THEN duration ELSE duration - Elapsed
             /\ d = -1 => timer = None
             /\ StartWith(d)
  <1>1. CASE pauseTime = None
    BY <1>1 DEF Resume, TimerInv, Types, FieldInv
  <1>2. CASE pauseTime # None
    <2>1. ~running /\ duration # -1 /\ timer = None
      BY <1>2 DEF TimerInv, FieldInv
    <2>2. Elapsed \in Int
      BY <1>2, TimerAssumption, WholeSeconds DEF Elapsed, TimerInv, Types, FieldInv
    <2>3. duration - Elapsed \in Int
      BY <2>2 DEF TimerInv, Types
    <2> QED
      BY <1>2, <2>1, <2>3 DEF Resume
  <1> QED
    BY <1>1, <1>2

LEMMA TimerNext == TimerInv /\ [Next]_vars => TimerInv'
  <1> SUFFICES ASSUME TimerInv, [Next]_vars PROVE TimerInv'
    OBVIOUS
  <1> USE TimerAssumption DEF TimerInv, None
  <1>1. CASE Start
    BY <1>1, StartKeeps DEF Start, Types, FieldInv
  <1>2. CASE Pause
    <2>1. threads' \subseteq threads /\ UNCHANGED <<now, duration, startTime, starts, calls>>
      BY <1>2 DEF Pause
    <2>2. Types'
      <3>1. IsFiniteSet(threads')
        BY <2>1, FS_Subset DEF Types
      <3> QED
        BY <1>2, <2>1, <3>1 DEF Pause, Types
    <2>3. FieldInv'
      BY <1>2 DEF Pause, Types, FieldInv
    <2>4. ThreadInv'
      <3>1. timer' = timer \/ timer' = None
        BY <1>2 DEF Pause
      <3>2. \A th \in threads : th.id # None
        BY DEF Types, Thread
      <3> QED
        BY <2>1, <3>1, <3>2 DEF ThreadInv
    <2>5. Flags'
      BY <1>2, Zenon DEF Pause, Flags
    <2> QED
      BY <2>2, <2>3, <2>4, <2>5
  <1>3. CASE Resume
    BY <1>3, ResumeIs, StartKeeps DEF Resume
  <1>4. CASE Cancel \/ Fire
    <2>0. running' => running
      BY <1>4 DEF Cancel, Fire, fields
    <2>1. /\ threads' \subseteq threads /\ calls' \in Nat
          /\ UNCHANGED <<now, duration, startTime, pauseTime, timer, starts>>
          /\ client' \in {"new", "running", "paused", "done"}
      <3>1. CASE Cancel
        BY <3>1 DEF Cancel, Types
      <3>2. CASE Fire
        BY <3>2 DEF Fire, Types, fields
      <3> QED
        BY <1>4, <3>1, <3>2
    <2>2. Types'
      <3>1. IsFiniteSet(threads')
        BY <2>1, FS_Subset DEF Types
      <3> QED
        BY <2>1, <3>1 DEF Types
    <2>3. Flags'
      BY <1>4, Zenon DEF Cancel, Fire, Flags, fields
    <2>4. FieldInv'
      BY <2>0, <2>1 DEF FieldInv
    <2>5. ThreadInv'
      BY <2>1 DEF ThreadInv
    <2> QED
      BY <2>2, <2>3, <2>4, <2>5
  <1>5. CASE Tick
    <2>1. /\ now' = now + 1 /\ now < Horizon /\ \A th \in threads : now < th.due
          /\ UNCHANGED <<duration, running, startTime, pauseTime, timer, over, threads,
                         starts, calls, client, protocol>>
      BY <1>5 DEF Tick, fields, Types, Thread
    <2>2. Types'
      BY <2>1 DEF Types
    <2>3. FieldInv'
      BY <2>1 DEF Types, FieldInv
    <2>4. ThreadInv'
      BY <2>1 DEF Types, Thread, ThreadInv
    <2>5. Flags'
      BY <2>1, Zenon DEF Flags
    <2> QED
      BY <2>2, <2>3, <2>4, <2>5
  <1>6. CASE UNCHANGED vars
    BY <1>6 DEF vars, fields, Flags, Types, FieldInv, ThreadInv
  <1> QED
    BY <1>1, <1>2, <1>3, <1>4, <1>5, <1>6 DEF Next

LEMMA TimerFollows == Spec => []TimerInv
  BY TimerInit, TimerNext, PTL DEF Spec

(***************************************************************************)
(* Whatever the client does, a Timer is a PausableTimer                    *)
(***************************************************************************)

\* What Untimed makes of the fields.
Py == IF duration = -1 THEN "never"
      ELSE IF timer = None THEN "none"
      ELSE IF Live(timer) # {} THEN "live" ELSE "dead"

Paused == IF pauseTime = None THEN "no"
          ELSE IF duration - Elapsed = -1 THEN "late" ELSE "inTime"

AsTimer == [running |-> running, py |-> Py, paused |-> Paused]

Lost == Cardinality(threads \ Live(timer))

\* What a pause of a Timer without a thread, and a cancel, change.
LEMMA RunningChanged ==
    ASSUME NEW a, NEW b, NEW c, NEW d
    PROVE  [[running |-> a, py |-> b, paused |-> c] EXCEPT !.running = d]
             = [running |-> d, py |-> b, paused |-> c]
  OBVIOUS

LEMMA ChangedInTurn ==
    ASSUME NEW r, NEW a, NEW b
    PROVE  [r EXCEPT !.running = a, !.py = b] = [[r EXCEPT !.running = a] EXCEPT !.py = b]
  OBVIOUS

LEMMA LostIsFinite ==
    ASSUME TimerInv
    PROVE  /\ IsFiniteSet(threads) /\ IsFiniteSet(threads \ Live(timer))
           /\ Lost \in Nat /\ Cardinality(threads) \in Nat
           /\ Cardinality(threads) = Lost + (IF Live(timer) # {} THEN 1 ELSE 0)
           /\ timer = None => Live(timer) = {}
           /\ \A th \in threads : th.id \in Nat /\ th.id <= starts /\ th.id # None
  <1> DEFINE rest == threads \ Live(timer)
  <1>1. IsFiniteSet(threads)
    BY DEF TimerInv, Types
  <1>2. IsFiniteSet(rest)
    BY <1>1, FS_Difference
  <1>3. Cardinality(rest) \in Nat /\ Cardinality(threads) \in Nat
    BY <1>1, <1>2, FS_CardinalityType
  <1>4. \A th \in threads : th.id \in Nat /\ th.id <= starts /\ th.id # None
    BY DEF TimerInv, Types, ThreadInv, Thread, None
  <1>5. timer = None => Live(timer) = {}
    BY <1>4 DEF Live
  <1>6. CASE Live(timer) = {}
    BY <1>3, <1>1, <1>2, <1>4, <1>5, <1>6 DEF Lost
  <1>7. CASE Live(timer) # {}
    <2>1. PICK th \in threads : th.id = timer
      BY <1>7 DEF Live
    <2>2. Live(timer) = {th}
      BY <2>1 DEF Live, TimerInv, ThreadInv
    <2>3. threads = rest \cup {th} /\ th \notin rest
      BY <2>1, <2>2
    <2> HIDE DEF rest
    <2>4. Cardinality(threads) = Cardinality(rest) + 1
      BY <1>2, <2>3, FS_AddElement
    <2> QED
      BY <1>1, <1>2, <1>3, <1>4, <1>5, <1>7, <2>4 DEF Lost, rest
  <1> QED
    BY <1>6, <1>7

\* A start, with whatever duration: the thread the Timer knew is lost.
LEMMA StartLoses ==
    ASSUME TimerInv, NEW d \in Int, d = -1 => timer = None, StartWith(d)
    PROVE  /\ AsTimer' = [running |-> TRUE, paused |-> "no",
                          py |-> IF d = -1 THEN "never" ELSE "live"]
           /\ Lost' = Lost + (IF Live(timer) # {} THEN 1 ELSE 0)
  <1>0. Paused' = "no" /\ running' = TRUE /\ duration' = d
    BY DEF StartWith, Paused
  <1>1. CASE d # -1
    <2> DEFINE th == [id |-> starts + 1, due |-> Due(d)]
    <2>1. timer' = starts + 1 /\ threads' = threads \cup {th}
      BY <1>1 DEF StartWith
    <2>2. starts \in Nat
      BY DEF TimerInv, Types
    <2>3. Live(timer)' = {th} /\ threads' \ Live(timer)' = threads
      BY <2>1, <2>2, LostIsFinite DEF Live
    <2>4. Py' = "live"
      <3>1. timer' # None
        BY <2>1, <2>2 DEF None
      <3>2. Live(timer)' # {}
        BY <2>3
      <3> QED
        BY <1>0, <1>1, <3>1, <3>2 DEF Py
    <2> QED
      BY <1>0, <1>1, <2>3, <2>4, LostIsFinite DEF AsTimer, Lost
  <1>2. CASE d = -1
    <2>1. UNCHANGED <<timer, threads>> /\ Live(timer) = {}
      BY <1>2, LostIsFinite DEF StartWith
    <2>2. Live(timer)' = Live(timer)
      BY <2>1 DEF Live
    <2>3. Py' = "never" /\ Lost' = Lost
      BY <1>0, <1>2, <2>1, <2>2 DEF Py, Lost
    <2> QED
      BY <1>0, <1>2, <2>1, <2>3, LostIsFinite DEF AsTimer
  <1> QED
    BY <1>1, <1>2

\* As long as its thread counts a Timer is not late.
LEMMA LiveIsInTime ==
    ASSUME TimerInv, timer # None, duration # -1, Live(timer) # {}
    PROVE  duration - ((now - startTime) \div TicksPerSecond) # -1
  <1> DEFINE e == now - startTime
  <1>1. PICK th \in threads : th.id = timer
    BY DEF Live
  <1>2. startTime \in Nat /\ now \in Nat /\ startTime <= now /\ now <= startTime + Waits(duration)
    BY <1>1 DEF TimerInv, Types, FieldInv, ThreadInv, None
  <1>3. e \in Nat /\ e <= Waits(duration) /\ duration \in Int
    BY <1>2, WaitsTyped DEF TimerInv, Types
  <1> HIDE DEF e
  <1>4. CASE duration > 0
    <2>1. e \div TicksPerSecond <= duration /\ e \div TicksPerSecond \in Nat
      BY <1>3, <1>4, TimerAssumption, SecondsInTime, WholeSeconds DEF Waits
    <2> QED
      BY <1>3, <2>1 DEF e
  <1>5. CASE ~(duration > 0)
    <2>1. e = 0
      BY <1>3, <1>5 DEF Waits
    <2>2. e \div TicksPerSecond = 0
      <3>1. e \div TicksPerSecond <= 0 /\ e \div TicksPerSecond \in Nat
        BY <2>1, TimerAssumption, SecondsInTime, WholeSeconds
      <3> QED
        BY <3>1
    <2> QED
      BY <1>3, <2>2 DEF e
  <1> QED
    BY <1>4, <1>5

LEMMA UntimedInit == Init => Untimed!Init
  <1> SUFFICES ASSUME Init PROVE Untimed!Init
    OBVIOUS
  <1>1. threads \ Live(timer) = {} /\ Cardinality(threads \ Live(timer)) = 0
    BY FS_EmptySet DEF Init
  <1>2. duration # -1
    BY TimerAssumption DEF Init
  <1>3. running = FALSE /\ timer = None /\ pauseTime = None
    BY DEF Init
  <1> QED
    BY <1>1, <1>2, <1>3 DEF Untimed!Init, Untimed!NewTimer

LEMMA UntimedPause == ASSUME TimerInv, Pause PROVE Untimed!Pause
  <1>1. CASE running /\ duration # -1 /\ timer # None
    <2>1. /\ threads' = threads \ Live(timer) /\ timer' = None /\ pauseTime' = now
          /\ running' = FALSE /\ UNCHANGED <<duration, startTime>>
      BY <1>1 DEF Pause
    <2>2. now # None
      BY DEF TimerInv, Types, None
    <2>3. \A th \in threads : th.id # None
      BY LostIsFinite
    <2>4. threads' \ Live(timer)' = threads \ Live(timer)
      BY <2>1, <2>3 DEF Live
    <2>5. Py' = "none" /\ Lost' = Lost
      BY <1>1, <2>1, <2>4 DEF Py, Lost
    <2>6. Paused' = IF duration - ((now - startTime) \div TicksPerSecond) = -1
                    THEN "late" ELSE "inTime"
      BY <2>1, <2>2 DEF Paused, Elapsed
    <2>7. Py \in {"live", "dead"} /\ (Py = "live" => Live(timer) # {})
      BY <1>1 DEF Py
    <2>8. Py = "live" => Paused' = "inTime"
      BY <1>1, <2>6, <2>7, LiveIsInTime
    <2>9. AsTimer' = [running |-> FALSE, py |-> "none", paused |-> Paused']
      BY <2>1, <2>5 DEF AsTimer
    <2>10. /\ AsTimer.running /\ AsTimer.py = Py
           /\ Paused' \in IF Py = "live" THEN {"inTime"} ELSE {"inTime", "late"}
      BY <1>1, <2>6, <2>8 DEF AsTimer
    <2>11. AsTimer' \in Untimed!AfterPause(AsTimer)
      BY <2>7, <2>9, <2>10 DEF Untimed!AfterPause
    <2> QED
      BY <2>5, <2>11 DEF Untimed!Pause, AsTimer, Py, Paused, Lost
  <1>2. CASE ~(running /\ duration # -1 /\ timer # None)
    <2>1. running' = FALSE /\ UNCHANGED <<threads, timer, pauseTime, duration, startTime>>
      BY <1>2 DEF Pause
    <2>2. Py' = Py /\ Paused' = Paused /\ Lost' = Lost
      BY <2>1 DEF Py, Paused, Lost, Live, Elapsed
    <2>3. AsTimer' = [AsTimer EXCEPT !.running = FALSE]
      <3>1. AsTimer' = [running |-> FALSE, py |-> Py, paused |-> Paused]
        BY <2>1, <2>2 DEF AsTimer
      <3>2. [AsTimer EXCEPT !.running = FALSE] = [running |-> FALSE, py |-> Py, paused |-> Paused]
        BY RunningChanged, Zenon DEF AsTimer
      <3> QED
        BY <3>1, <3>2
    <2>4. ~(AsTimer.running /\ AsTimer.py \in {"live", "dead"})
      BY <1>2 DEF AsTimer, Py
    <2>5. AsTimer' \in Untimed!AfterPause(AsTimer)
      BY <2>3, <2>4 DEF Untimed!AfterPause
    <2> QED
      BY <2>2, <2>5 DEF Untimed!Pause, AsTimer, Py, Paused, Lost
  <1> QED
    BY <1>1, <1>2

LEMMA UntimedStart == ASSUME TimerInv, Start PROVE Untimed!Start
  <1>1. StartWith(duration) /\ duration \in Int /\ (duration = -1 => timer = None)
    BY DEF Start, TimerInv, Types, FieldInv
  <1>2. /\ AsTimer' = [running |-> TRUE, paused |-> "no",
                       py |-> IF duration = -1 THEN "never" ELSE "live"]
        /\ Lost' = Lost + (IF Live(timer) # {} THEN 1 ELSE 0)
    BY <1>1, StartLoses
  <1>3. AsTimer.py = Py /\ (Py = "never" <=> duration = -1) /\ (Py = "live" <=> Live(timer) # {})
    BY <1>1, LostIsFinite DEF AsTimer, Py
  <1>4. AsTimer' = Untimed!Started(AsTimer)
    BY <1>2, <1>3 DEF Untimed!Started
  <1>5. Lost' = Lost + Untimed!Orphans(AsTimer)
    BY <1>2, <1>3 DEF Untimed!Orphans
  <1> QED
    BY <1>4, <1>5 DEF Untimed!Start, AsTimer, Py, Paused, Lost

LEMMA UntimedResume == ASSUME TimerInv, Resume PROVE Untimed!Resume
  <1>1. PICK d \in Int :
          /\ d = IF pauseTime = None THEN duration ELSE duration - Elapsed
          /\ d = -1 => timer = None
          /\ StartWith(d)
    BY ResumeIs
  <1>2. /\ AsTimer' = [running |-> TRUE, paused |-> "no",
                       py |-> IF d = -1 THEN "never" ELSE "live"]
        /\ Lost' = Lost + (IF Live(timer) # {} THEN 1 ELSE 0)
    BY <1>1, StartLoses
  <1>3. AsTimer.py = Py /\ (Py = "never" <=> duration = -1) /\ (Py = "live" <=> Live(timer) # {})
        /\ AsTimer.paused = Paused /\ (pauseTime # None => duration # -1)
    BY LostIsFinite DEF AsTimer, Py, TimerInv, FieldInv
  <1>4. AsTimer' = Untimed!AfterResume(AsTimer)
    <2>1. CASE Paused = "late"
      <3>1. d = -1
        BY <1>1, <2>1 DEF Paused
      <3> QED
        BY <1>2, <1>3, <2>1, <3>1 DEF Untimed!AfterResume
    <2>2. CASE Paused # "late"
      <3>1. d = -1 <=> Py = "never"
        BY <1>1, <1>3, <2>2 DEF Paused
      <3> QED
        BY <1>2, <1>3, <2>2, <3>1 DEF Untimed!AfterResume, Untimed!Started
    <2> QED
      BY <2>1, <2>2
  <1>5. Lost' = Lost + Untimed!Orphans(AsTimer)
    BY <1>2, <1>3 DEF Untimed!Orphans
  <1> QED
    BY <1>4, <1>5 DEF Untimed!Resume, AsTimer, Py, Paused, Lost

LEMMA UntimedCancel == ASSUME TimerInv, Cancel PROVE Untimed!Cancel
  <1>1. /\ running' = FALSE /\ UNCHANGED <<timer, pauseTime, duration, startTime>>
        /\ threads' = IF duration # -1 /\ timer # None THEN threads \ Live(timer) ELSE threads
    BY DEF Cancel
  <1>2. /\ threads' \ Live(timer)' = threads \ Live(timer)
        /\ duration # -1 /\ timer # None => Live(timer)' = {}
    BY <1>1 DEF Live
  <1>3. Paused' = Paused /\ Lost' = Lost
    BY <1>1, <1>2 DEF Paused, Elapsed, Lost
  <1>4. Py' = IF Py = "live" THEN "dead" ELSE Py
    BY <1>1, <1>2 DEF Py
  <1>5. AsTimer' = Untimed!AfterCancel(AsTimer)
    <2> DEFINE off == FALSE
               dead == IF Py = "live" THEN "dead" ELSE Py
    <2>1. AsTimer' = [running |-> off, py |-> dead, paused |-> Paused]
      BY <1>1, <1>3, <1>4 DEF AsTimer
    <2>2. AsTimer.py = Py
      BY DEF AsTimer
    <2>3. Untimed!AfterCancel(AsTimer) = [AsTimer EXCEPT !.running = off, !.py = dead]
      BY <2>2, Zenon DEF Untimed!AfterCancel
    <2> HIDE DEF off, dead
    <2>4. [AsTimer EXCEPT !.running = off] = [running |-> off, py |-> Py, paused |-> Paused]
      BY RunningChanged, Zenon DEF AsTimer
    <2>5. [AsTimer EXCEPT !.running = off, !.py = dead]
            = [[AsTimer EXCEPT !.running = off] EXCEPT !.py = dead]
      BY ChangedInTurn, Zenon
    <2>6. [[running |-> off, py |-> Py, paused |-> Paused] EXCEPT !.py = dead]
            = [running |-> off, py |-> dead, paused |-> Paused]
      OBVIOUS
    <2> QED
      BY <2>1, <2>3, <2>4, <2>5, <2>6, Zenon
  <1> QED
    BY <1>3, <1>5 DEF Untimed!Cancel, AsTimer, Py, Paused, Lost

\* The thread that fires is the one the Timer knows or one that was lost.
LEMMA UntimedFire == ASSUME TimerInv, Fire PROVE Untimed!Fire \/ Untimed!FireOrphan
  <1>1. PICK th \in threads : threads' = threads \ {th}
    BY DEF Fire
  <1>2. UNCHANGED <<running, timer, pauseTime, duration, startTime>>
    BY DEF Fire, fields
  <1>3. Paused' = Paused
    BY <1>2 DEF Paused, Elapsed
  <1>4. CASE th.id = timer
    <2>1. Live(timer) = {th} /\ Live(timer)' = {} /\ threads' \ Live(timer)' = threads \ Live(timer)
      BY <1>1, <1>2, <1>4 DEF Live, TimerInv, ThreadInv
    <2>2. timer # None /\ duration # -1
      BY <1>4, LostIsFinite DEF TimerInv, FieldInv
    <2>3. Py = "live" /\ Py' = "dead" /\ Lost' = Lost
      BY <1>2, <2>1, <2>2 DEF Py, Lost
    <2>4. AsTimer' = [running |-> running, py |-> "dead", paused |-> Paused]
      BY <1>2, <1>3, <2>3 DEF AsTimer
    <2>5. AsTimer' = Untimed!AfterFire(AsTimer) /\ AsTimer.py = "live"
      BY <2>3, <2>4 DEF Untimed!AfterFire, AsTimer
    <2> QED
      BY <2>3, <2>5 DEF Untimed!Fire, AsTimer, Py, Paused, Lost
  <1>5. CASE th.id # timer
    <2> DEFINE rest == threads \ Live(timer)
    <2>1. /\ Live(timer)' = Live(timer) /\ th \in rest
          /\ threads' \ Live(timer)' = rest \ {th}
      BY <1>1, <1>2, <1>5 DEF Live
    <2>2. Cardinality(rest \ {th}) = Cardinality(rest) - 1 /\ Cardinality(rest) \in Nat
          /\ Cardinality(rest \ {th}) \in Nat
      <3>1. IsFiniteSet(rest)
        BY LostIsFinite
      <3> QED
        BY <2>1, <3>1, FS_RemoveElement, FS_CardinalityType
    <2>3. Lost' = Lost - 1 /\ Lost > 0
      BY <2>1, <2>2 DEF Lost
    <2>4. AsTimer' = AsTimer
      BY <1>2, <1>3, <2>1 DEF AsTimer, Py
    <2> QED
      BY <2>3, <2>4 DEF Untimed!FireOrphan, AsTimer, Py, Paused, Lost
  <1> QED
    BY <1>4, <1>5

LEMMA UntimedNext == TimerInv /\ [Next]_vars => [Untimed!Next]_(Untimed!vars)
  <1> SUFFICES ASSUME TimerInv, [Next]_vars
               PROVE  Untimed!Next \/ UNCHANGED Untimed!vars
    OBVIOUS
  <1>1. CASE Tick \/ UNCHANGED vars
    <2>1. UNCHANGED <<running, timer, pauseTime, duration, startTime, threads>>
      BY <1>1 DEF Tick, vars, fields
    <2> QED
      BY <2>1 DEF Untimed!vars, Live, Elapsed
  <1> QED
    BY <1>1, UntimedStart, UntimedPause, UntimedResume, UntimedCancel, UntimedFire
       DEF Next, Untimed!Next

\* In any order of calls, and for every duration, a Timer does what TimerOps
\* says: the modules that use timers may leave out the clock.
THEOREM TimerIsPausable == Spec => IsPausableTimer
  BY UntimedInit, UntimedNext, TimerFollows, PTL DEF Spec, IsPausableTimer, Untimed!Spec
(***************************************************************************)
(* With a client that keeps to the protocol                                *)
(*                                                                         *)
(* Such a client has at most one thread, the one of its last start, and    *)
(* only between a start and the next pause or cancel; it never calls a     *)
(* method of a Timer that is over.  So a pause comes before the end, and   *)
(* what it leaves of the duration is not negative.                         *)
(***************************************************************************)
Kept ==
    /\ duration \in 0..Duration /\ calls \in Nat
    /\ calls > 0 => client = "running" /\ threads = {}
    /\ client = "new" => duration = Duration /\ pauseTime = None
    /\ client # "running" => threads = {}
    /\ client = "running" => pauseTime = None /\ running /\ timer # None
    /\ client = "running" /\ calls = 0 => \E th \in threads : threads = {th} /\ th.id = timer
    /\ client = "paused" => pauseTime # None /\ Elapsed \in 0..duration

KeptInv == protocol => Kept

LEMMA KeptInit == Init => KeptInv
  BY TimerAssumption DEF Init, KeptInv, Kept, None

\* What the protocol permits.
LEMMA Permitted ==
    ASSUME protocol
    PROVE  /\ Start => client = "new"
           /\ Pause => client = "running" /\ calls = 0
           /\ Resume => client = "paused"
           /\ Cancel => client \in {"new", "running", "paused"} /\ calls = 0
  BY DEF Start, Pause, Resume, Cancel, May, NotOver

\* A start with a duration that is left: one thread, due in time.
LEMMA StartsOne ==
    ASSUME TimerInv, NEW d \in 0..Duration, StartWith(d), threads = {}, calls = 0,
           calls' = calls, client' = "running"
    PROVE  Kept'
  <1>1. /\ duration' = d /\ running' = TRUE /\ pauseTime' = None /\ timer' = starts + 1
        /\ threads' = {[id |-> starts + 1, due |-> Due(d)]}
    BY TimerAssumption DEF StartWith
  <1>2. timer' # None /\ starts \in Nat
    BY <1>1, TimerAssumption DEF TimerInv, Types, None
  <1> QED
    BY <1>1, <1>2 DEF Kept

\* A pause before the end, and what is left of the running time.
LEMMA PausesInTime ==
    ASSUME TimerInv, Kept, Pause, client = "running", calls = 0
    PROVE  /\ threads' = {} /\ pauseTime' = now /\ client' = "paused"
           /\ UNCHANGED <<now, duration, startTime, calls>>
           /\ startTime \in Nat /\ now \in Nat /\ duration \in Nat /\ startTime <= now
           /\ now - startTime <= duration * TicksPerSecond
           /\ Elapsed' = (now - startTime) \div TicksPerSecond
           /\ Elapsed' \in 0..duration
  <1>1. PICK th \in threads : threads = {th} /\ th.id = timer
    BY DEF Kept
  <1>2. running /\ timer # None /\ duration \in Nat /\ duration # -1
    BY TimerAssumption DEF Kept
  <1>3. Live(timer) = threads
    BY <1>1 DEF Live
  <1>4. /\ threads' = {} /\ pauseTime' = now /\ client' = "paused"
        /\ UNCHANGED <<now, duration, startTime, calls>>
    BY <1>2, <1>3 DEF Pause
  <1>5. startTime \in Nat /\ now \in Nat /\ startTime <= now
    BY <1>2, TimerAssumption DEF TimerInv, Types, FieldInv
  <1>6. th.due = startTime + Waits(duration) /\ now <= th.due
    BY <1>1 DEF TimerInv, ThreadInv
  <1>7. Waits(duration) = duration * TicksPerSecond
    BY <1>2, TimerAssumption DEF Waits
  <1>8. duration * TicksPerSecond \in Nat
    BY <1>2, TimerAssumption
  <1>9. now - startTime \in Nat /\ now - startTime <= duration * TicksPerSecond
    BY <1>5, <1>6, <1>7, <1>8
  <1>10. Elapsed' = (now - startTime) \div TicksPerSecond
    BY <1>4 DEF Elapsed
  <1>11. (now - startTime) \div TicksPerSecond \in 0..duration
    <2> DEFINE e == now - startTime
    <2>1. e \in Nat /\ e <= duration * TicksPerSecond
      BY <1>9
    <2> HIDE DEF e
    <2>2. e \div TicksPerSecond \in Nat /\ e \div TicksPerSecond <= duration
      BY <2>1, <1>2, TimerAssumption, WholeSeconds, SecondsInTime
    <2>3. e \div TicksPerSecond \in 0..duration
      BY <2>2, <1>2
    <2> QED
      BY <2>3 DEF e
  <1> QED
    BY <1>2, <1>4, <1>5, <1>9, <1>10, <1>11

LEMMA ResumesRest ==
    ASSUME TimerInv, Kept, Resume, client = "paused"
    PROVE  /\ duration - Elapsed \in 0..Duration /\ StartWith(duration - Elapsed)
           /\ threads = {} /\ calls = 0
  <1>1. /\ pauseTime # None /\ Elapsed \in 0..duration /\ duration \in 0..Duration
        /\ threads = {} /\ calls = 0
    BY DEF Kept
  <1>2. PICK d \in Int :
          /\ d = IF pauseTime = None THEN duration ELSE duration - Elapsed
          /\ StartWith(d)
    BY ResumeIs
  <1> QED
    BY <1>1, <1>2, TimerAssumption

\* The thread of a Timer that runs fires when it is due.
LEMMA FiresInTime ==
    ASSUME TimerInv, Kept, Fire
    PROVE  /\ client = "running" /\ calls = 0 /\ threads' = {} /\ calls' = 1
           /\ \E th \in threads : threads = {th} /\ th.id = timer /\ th.due = now
           /\ UNCHANGED <<now, fields, client>>
  <1>1. PICK th \in threads : th.due <= now /\ threads' = threads \ {th}
    BY DEF Fire
  <1>2. client = "running" /\ calls = 0
    BY <1>1 DEF Kept
  <1>3. threads = {th} /\ th.id = timer
    BY <1>1, <1>2 DEF Kept
  <1>4. th.due = now
    BY <1>1 DEF TimerInv, Types, ThreadInv, Thread
  <1>5. calls' = 1 /\ UNCHANGED <<now, fields, client>>
    BY <1>2 DEF Fire
  <1> QED
    BY <1>1, <1>2, <1>3, <1>4, <1>5

LEMMA KeptStep ==
    ASSUME TimerInv, Kept, protocol, [Next]_vars
    PROVE  Kept'
  <1>1. CASE Start
    <2>1. client = "new"
      BY <1>1, Permitted
    <2>2. duration \in 0..Duration /\ threads = {} /\ calls = 0
      BY <2>1 DEF Kept
    <2> QED
      BY <1>1, <2>2, StartsOne DEF Start
  <1>2. CASE Pause
    <2>1. client = "running" /\ calls = 0
      BY <1>2, Permitted
    <2>2. /\ threads' = {} /\ pauseTime' = now /\ client' = "paused" /\ calls' = 0
          /\ duration' = duration /\ now \in Nat /\ Elapsed' \in 0..duration
      BY <1>2, <2>1, PausesInTime
    <2> QED
      BY <2>2 DEF Kept, None
  <1>3. CASE Resume
    BY <1>3, Permitted, ResumesRest, StartsOne DEF Resume
  <1>4. CASE Cancel
    <2>1. client \in {"new", "running", "paused"} /\ calls = 0
      BY <1>4, Permitted
    <2>2. duration' = duration /\ client' = "done" /\ calls' = 0
      BY <1>4, <2>1 DEF Cancel
    <2>3. threads' = {}
      <3>1. CASE client = "running"
        <4>1. Live(timer) = threads /\ timer # None /\ duration # -1
          BY <2>1, <3>1, TimerAssumption DEF Kept, Live
        <4> QED
          BY <1>4, <4>1 DEF Cancel
      <3>2. CASE client # "running"
        BY <1>4, <3>2 DEF Cancel, Kept
      <3> QED
        BY <3>1, <3>2
    <2> QED
      BY <2>2, <2>3 DEF Kept
  <1>5. CASE Fire
    <2>1. /\ client = "running" /\ threads' = {} /\ calls' = 1
          /\ UNCHANGED <<duration, running, pauseTime, timer, client>>
      BY <1>5, FiresInTime DEF fields
    <2> QED
      BY <2>1 DEF Kept
  <1>6. CASE Tick \/ UNCHANGED vars
    <2>1. UNCHANGED <<duration, running, startTime, pauseTime, timer, threads, calls, client>>
      BY <1>6 DEF Tick, vars, fields
    <2> QED
      BY <2>1 DEF Kept, Elapsed
  <1> QED
    BY <1>1, <1>2, <1>3, <1>4, <1>5, <1>6 DEF Next

LEMMA KeptNext == TimerInv /\ KeptInv /\ [Next]_vars => KeptInv'
  <1>1. [Next]_vars => protocol' = protocol
    BY DEF Next, Start, Pause, Resume, Cancel, Fire, Tick, vars
  <1> QED
    BY <1>1, KeptStep DEF KeptInv

LEMMA KeptFollows == Spec => []KeptInv
  BY KeptInit, KeptNext, TimerFollows, PTL DEF Spec

\* The types of the fields; for a client that keeps to the protocol what is
\* left of the duration never leaves 0..Duration.
THEOREM TimerTyped == Spec => []TypeOK
  <1>1. TimerInv /\ KeptInv => TypeOK
    <2> SUFFICES ASSUME TimerInv, KeptInv PROVE TypeOK
      OBVIOUS
    <2>1. duration \in IF protocol THEN 0..Duration ELSE Int
      BY DEF TimerInv, Types, KeptInv, Kept
    <2>2. running \in BOOLEAN /\ over \in BOOLEAN /\ protocol \in BOOLEAN
      BY Zenon DEF TimerInv, Flags
    <2> QED
      BY <2>1, <2>2, Zenon DEF TimerInv, Types, TypeOK
  <1> QED
    BY <1>1, TimerFollows, KeptFollows, PTL
(***************************************************************************)
(* With a client that keeps to the protocol, a Timer is a Countdown        *)
(***************************************************************************)

\* What Promise makes of the fields.
Left == CASE Status = "new" -> Duration * TicksPerSecond
          [] Status \in {"cancelled", "fired"} -> 0
          [] OTHER -> Remaining

View ==
    /\ ~protocol => Status = "new" /\ Left = Duration * TicksPerSecond
    /\ protocol =>
         /\ calls > 0 => Status = "fired" /\ Left = 0
         /\ calls = 0 /\ client = "new" =>
              Status = "new" /\ Left = Duration * TicksPerSecond
         /\ calls = 0 /\ client = "done" => Status = "cancelled" /\ Left = 0
         /\ calls = 0 /\ client = "running" =>
              Status = "running" /\ Left = (startTime + duration * TicksPerSecond) - now
         /\ calls = 0 /\ client = "paused" =>
              Status = "paused" /\ Left = (duration - Elapsed) * TicksPerSecond

LEMMA Viewed == TimerInv /\ KeptInv => View
  <1> SUFFICES ASSUME TimerInv, KeptInv PROVE View
    OBVIOUS
  <1>1. ASSUME ~protocol PROVE Status = "new" /\ Left = Duration * TicksPerSecond
    <2>1. Status = "new"
      BY <1>1 DEF Status
    <2> QED
      BY <2>1, Zenon DEF Left
  <1>2. ASSUME protocol PROVE Kept
    BY <1>2 DEF KeptInv
  <1>3. ASSUME protocol, calls > 0 PROVE Status = "fired" /\ Left = 0
    <2>1. Status = "fired"
      BY <1>3 DEF Status
    <2> QED
      BY <2>1 DEF Left
  <1>4. ASSUME protocol, calls = 0, client = "new"
        PROVE  Status = "new" /\ Left = Duration * TicksPerSecond
    <2>1. Status = "new"
      BY <1>4 DEF Status
    <2> QED
      BY <2>1, Zenon DEF Left
  <1>5. ASSUME protocol, calls = 0, client = "done" PROVE Status = "cancelled" /\ Left = 0
    <2>1. Status = "cancelled"
      BY <1>5 DEF Status
    <2> QED
      BY <2>1 DEF Left
  <1>6. ASSUME protocol, calls = 0, client = "running"
        PROVE  Status = "running" /\ Left = (startTime + duration * TicksPerSecond) - now
    <2>1. Status = "running" /\ Left = Remaining
      BY <1>6 DEF Status, Left
    <2>2. PICK th \in threads : threads = {th} /\ th.id = timer
      BY <1>2, <1>6 DEF Kept
    <2>3. pauseTime = None /\ threads # {} /\ (CHOOSE u \in threads : TRUE) = th
      BY <1>2, <1>6, <2>2 DEF Kept
    <2>4. Remaining = th.due - now
      BY <2>3 DEF Remaining
    <2>5. duration \in 0..Duration
      BY <1>2, <1>6 DEF Kept
    <2>6. duration * TicksPerSecond = Waits(duration)
      BY <2>5, TimerAssumption DEF Waits
    <2>7. th.due = startTime + Waits(duration)
      BY <2>2 DEF TimerInv, ThreadInv
    <2>8. Remaining = (startTime + duration * TicksPerSecond) - now
      BY <2>4, <2>6, <2>7
    <2> QED
      BY <2>1, <2>8, Zenon
  <1>7. ASSUME protocol, calls = 0, client = "paused"
        PROVE  Status = "paused" /\ Left = (duration - Elapsed) * TicksPerSecond
    <2>1. Status = "paused" /\ Left = Remaining
      BY <1>7 DEF Status, Left
    <2>2. pauseTime # None
      BY <1>2, <1>7 DEF Kept
    <2>3. Remaining = (duration - Elapsed) * TicksPerSecond
      BY <2>2 DEF Remaining
    <2> QED
      BY <2>1, <2>3, Zenon
  <1> QED
    BY <1>1, <1>3, <1>4, <1>5, <1>6, <1>7 DEF View

LEMMA ViewedNext == TimerInv' /\ KeptInv' => View'
  BY Viewed, PTL

\* One step of a Timer whose client keeps to the protocol.
LEMMA CountdownStep ==
    ASSUME TimerInv, Kept, View, View', protocol, protocol', [Next]_vars
    PROVE  \/ Status = "new" /\ Status' = "running" /\ Left' = Left
           \/ Status = "running" /\ Left > 0 /\ Left' = Left - 1 /\ Status' = Status
           \/ /\ Status = "running" /\ Status' = "paused"
              /\ Left' \in Left..(Left + (TicksPerSecond - 1))
              /\ Left' <= Duration * TicksPerSecond
           \/ Status = "paused" /\ Status' = "running" /\ Left' = Left
           \/ Status \in {"new", "running", "paused"} /\ Status' = "cancelled" /\ Left' = 0
           \/ Status = "running" /\ Left = 0 /\ Status' = "fired" /\ Left' = Left
           \/ Status' = Status /\ Left' = Left
  <1>1. CASE Start
    <2>1. client = "new" /\ calls = 0 /\ threads = {} /\ duration = Duration
      BY <1>1, Permitted DEF Kept
    <2>2. startTime' = now /\ duration' = duration /\ now' = now /\ client' = "running" /\ calls' = 0
      BY <1>1, <2>1 DEF Start, StartWith
    <2>3. Left' = (now + Duration * TicksPerSecond) - now /\ Status' = "running"
      BY <2>1, <2>2 DEF View
    <2>4. now \in Nat /\ Duration * TicksPerSecond \in Nat
      BY TimerAssumption DEF TimerInv, Types
    <2>5. Status = "new" /\ Left = Duration * TicksPerSecond
      BY <2>1 DEF View
    <2> QED
      BY <2>3, <2>4, <2>5
  <1>2. CASE Pause
    <2>1. client = "running" /\ calls = 0
      BY <1>2, Permitted
    <2>2. /\ client' = "paused" /\ calls' = 0 /\ duration' = duration
          /\ startTime \in Nat /\ now \in Nat /\ duration \in 0..Duration /\ startTime <= now
          /\ Elapsed' = (now - startTime) \div TicksPerSecond
      BY <1>2, <2>1, PausesInTime DEF Kept
    <2> DEFINE e == now - startTime
               q == e \div TicksPerSecond
               d == duration
    <2>3. Status = "running" /\ Left = (startTime + d * TicksPerSecond) - now
      BY <2>1 DEF View
    <2>4. Status' = "paused" /\ Left' = (d - q) * TicksPerSecond
      BY <2>2 DEF View
    <2>5. e \in Nat
      BY <2>2
    <2>6. TicksPerSecond \in Nat \ {0}
      BY TimerAssumption
    <2>7. q \in Nat /\ q * TicksPerSecond <= e /\ e < q * TicksPerSecond + TicksPerSecond
      <3> HIDE DEF e
      <3> QED
        BY <2>5, <2>6, WholeSeconds
    <2>8. Left = d * TicksPerSecond - e
      <3>1. d * TicksPerSecond \in Nat
        BY <2>2, <2>6, TimerAssumption
      <3> QED
        BY <2>2, <2>3, <3>1
    <2>9. d \in Nat /\ d <= Duration /\ Duration \in Nat
      BY <2>2, TimerAssumption
    <2> HIDE DEF e, q, d
    <2>10. (d - q) * TicksPerSecond = d * TicksPerSecond - q * TicksPerSecond
      BY <2>6, <2>7, <2>9
    <2>11. d * TicksPerSecond \in Nat /\ q * TicksPerSecond \in Nat
      BY <2>6, <2>7, <2>9
    <2>12. d * TicksPerSecond <= Duration * TicksPerSecond
      <3>1. (Duration - d) * TicksPerSecond \in Nat
        BY <2>6, <2>9
      <3>2. (Duration - d) * TicksPerSecond = Duration * TicksPerSecond - d * TicksPerSecond
        BY <2>6, <2>9
      <3>3. Duration * TicksPerSecond \in Nat
        BY <2>6, <2>9
      <3> QED
        BY <2>11, <3>1, <3>2, <3>3
    <2>13. Left' \in Left..(Left + (TicksPerSecond - 1))
      BY <2>4, <2>5, <2>6, <2>7, <2>8, <2>10, <2>11
    <2>14. Left' <= Duration * TicksPerSecond
      <3>1. Duration * TicksPerSecond \in Nat
        BY <2>6, <2>9
      <3> QED
        BY <2>4, <2>10, <2>11, <2>12, <3>1
    <2> QED
      BY <2>3, <2>4, <2>13, <2>14
  <1>3. CASE Resume
    <2>1. client = "paused"
      BY <1>3, Permitted
    <2>2. /\ duration - Elapsed \in 0..Duration /\ StartWith(duration - Elapsed)
          /\ threads = {} /\ calls = 0
      BY <1>3, <2>1, ResumesRest
    <2>3. startTime' = now /\ duration' = duration - Elapsed /\ now' = now
          /\ client' = "running" /\ calls' = 0
      BY <1>3, <2>2 DEF Resume, StartWith
    <2>4. Status = "paused" /\ Left = (duration - Elapsed) * TicksPerSecond
      BY <2>1, <2>2 DEF View
    <2>5. Status' = "running" /\ Left' = (now + (duration - Elapsed) * TicksPerSecond) - now
      BY <2>3 DEF View
    <2>6. now \in Nat /\ (duration - Elapsed) * TicksPerSecond \in Int
      BY <2>2, TimerAssumption DEF TimerInv, Types
    <2> QED
      BY <2>4, <2>5, <2>6
  <1>4. CASE Cancel
    <2>1. client \in {"new", "running", "paused"} /\ calls = 0
      BY <1>4, Permitted
    <2>2. client' = "done" /\ calls' = 0
      BY <1>4, <2>1 DEF Cancel
    <2> QED
      BY <2>1, <2>2 DEF View
  <1>5. CASE Fire
    <2>1. client = "running" /\ calls = 0 /\ calls' = 1
      BY <1>5, FiresInTime
    <2>2. PICK th \in threads : th.id = timer /\ th.due = now
      BY <1>5, FiresInTime
    <2>3. duration \in Nat /\ duration * TicksPerSecond = Waits(duration) /\ Waits(duration) \in Nat
      BY TimerAssumption, WaitsTyped DEF Kept, Waits
    <2>4. th.due = startTime + Waits(duration)
      BY <2>2 DEF TimerInv, ThreadInv
    <2>5. now \in Nat
      BY DEF TimerInv, Types, None
    <2>6. Status = "running" /\ Left = (startTime + Waits(duration)) - now
      BY <2>1, <2>3, Zenon DEF View
    <2>7. Left = 0
      <3>1. startTime + Waits(duration) = now
        BY <2>2, <2>4
      <3>2. Left = now - now
        BY <2>6, <3>1, Zenon
      <3> QED
        BY <2>5, <3>2
    <2>8. Left' = 0 /\ Status' = "fired"
      BY <2>1 DEF View
    <2> QED
      BY <2>6, <2>7, <2>8
  <1>6. CASE Tick \/ UNCHANGED vars
    <2>1. UNCHANGED <<duration, startTime, pauseTime, threads, calls, client>>
          /\ Elapsed' = Elapsed
      BY <1>6 DEF Tick, vars, fields, Elapsed
    <2>2. CASE client # "running" \/ calls > 0
      BY <2>1, <2>2 DEF View, Kept, TimerInv, Types
    <2>3. CASE client = "running" /\ calls = 0 /\ UNCHANGED vars
      BY <2>1, <2>3 DEF View, vars
    <2>4. CASE client = "running" /\ calls = 0 /\ Tick
      <3>1. PICK th \in threads : th.id = timer
        BY <2>4 DEF Kept
      <3>2. now' = now + 1 /\ now < th.due /\ now \in Nat
        BY <2>4, <3>1 DEF Tick, TimerInv, Types, Thread
      <3>3. duration * TicksPerSecond = Waits(duration) /\ Waits(duration) \in Nat
        BY TimerAssumption, WaitsTyped DEF Kept, Waits
      <3>4. th.due = startTime + Waits(duration) /\ th.due \in Nat /\ startTime \in Int
        BY <3>1 DEF TimerInv, ThreadInv, Types, Thread, None
      <3>5. Status = "running" /\ Left = (startTime + duration * TicksPerSecond) - now
        BY <2>4 DEF View
      <3>6. Status' = "running" /\ Left' = (startTime + duration * TicksPerSecond) - now'
        BY <2>1, <2>4 DEF View
      <3> QED
        BY <3>2, <3>3, <3>4, <3>5, <3>6
    <2> QED
      BY <1>6, <2>2, <2>3, <2>4 DEF TimerInv, Types
  <1> QED
    BY <1>1, <1>2, <1>3, <1>4, <1>5, <1>6 DEF Next

LEMMA CountdownInit == Init => Promise!Init
  <1> SUFFICES ASSUME Init PROVE Status = "new" /\ Left = Duration * TicksPerSecond
    BY DEF Promise!Init, Left
  <1>1. Status = "new"
    BY DEF Init, Status
  <1> QED
    BY <1>1 DEF Left

LEMMA CountdownNext ==
    TimerInv /\ KeptInv /\ View /\ View' /\ [Next]_vars => [Promise!Next]_(Promise!vars)
  <1> SUFFICES ASSUME TimerInv, KeptInv, View, View', [Next]_vars
               PROVE  Promise!Next \/ UNCHANGED Promise!vars
    OBVIOUS
  <1>1. protocol' = protocol
    BY DEF Next, Start, Pause, Resume, Cancel, Fire, Tick, vars
  <1>2. CASE ~protocol
    <2>1. UNCHANGED <<Status, Left>>
      BY <1>1, <1>2 DEF View
    <2> QED
      BY <2>1 DEF Promise!vars, Left
  <1>3. CASE protocol
    <2>1. Kept /\ protocol'
      BY <1>1, <1>3 DEF KeptInv
    <2> QED
      BY <1>3, <2>1, CountdownStep
         DEF Promise!Next, Promise!Start, Promise!Tick, Promise!Pause, Promise!Resume,
             Promise!Cancel, Promise!Fire, Promise!vars, Left
  <1> QED
    BY <1>2, <1>3

\* For every duration and every granularity of the clock, a Timer whose client
\* keeps to the protocol counts its running time down, loses less than a second
\* at each pause, fires once, at the end, and never after a cancel.
THEOREM TimerCountsDown == Spec => IsCountdown
  <1>1. TimerInv /\ KeptInv /\ TimerInv' /\ KeptInv' /\ [Next]_vars => [Promise!Next]_(Promise!vars)
    BY Viewed, ViewedNext, CountdownNext
  <1> QED
    BY <1>1, CountdownInit, TimerFollows, KeptFollows, PTL DEF Spec, IsCountdown, Promise!Spec
=============================================================================
