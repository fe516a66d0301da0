-------------------------------- MODULE Timer --------------------------------
(***************************************************************************)
(* insalata.Timer (src/src/insalata/Timer.py) with its clock: the fields   *)
(* of one Timer object, the threading.Timer threads it has started, and a  *)
(* client that calls start, pause, resume and cancel.                      *)
(*                                                                         *)
(* The clock counts ticks, TicksPerSecond of them a second, since the code *)
(* truncates the elapsed time to whole seconds.  A thread that is due runs *)
(* before the clock goes on; the calls of the client may still come first. *)
(***************************************************************************)
EXTENDS Integers, FiniteSets, TimerOps

CONSTANTS
    Duration,        \* the duration the Timer is created with, in seconds
    TicksPerSecond,
    Horizon,         \* bound: the clock stops here
    MaxStarts        \* bound: threading.Timer threads ever started

ASSUME TimerAssumption ==
    /\ Duration \in Nat
    /\ TicksPerSecond \in Nat \ {0}
    /\ Horizon \in Nat /\ MaxStarts \in Nat

\* Python's None, for the fields that hold a time or a thread.
None == -1

VARIABLES
    now,        \* datetime.now(), in ticks
    duration, running, startTime, pauseTime, over,   \* the fields
    timer,      \* the field `timer`: the number of the thread, or None
    threads,    \* threads that are started, not cancelled and not fired
    starts,     \* how many threads were started
    calls,      \* how often the method was called
    client,     \* what the client knows: "new", "running", "paused", "done"
    protocol    \* TRUE: the client keeps to start (pause resume)* [cancel],
                \*       before the end; FALSE: it calls in any order

fields == <<duration, running, startTime, pauseTime, timer>>
vars == <<now, fields, over, threads, starts, calls, client, protocol>>

Thread == [id : 1..MaxStarts, due : Nat]

TypeOK ==
    /\ now \in 0..Horizon
    /\ duration \in IF protocol THEN 0..Duration ELSE Int
    /\ running \in BOOLEAN /\ over \in BOOLEAN
    /\ startTime \in Nat \cup {None} /\ pauseTime \in Nat \cup {None}
    /\ timer \in (1..MaxStarts) \cup {None}
    /\ threads \subseteq Thread
    /\ starts \in 0..MaxStarts
    /\ calls \in Nat
    /\ client \in {"new", "running", "paused", "done"}
    /\ protocol \in BOOLEAN

Init ==
    /\ now = 0
    /\ duration = Duration
    /\ running = FALSE /\ over = FALSE
    /\ startTime = None /\ pauseTime = None /\ timer = None
    /\ threads = {} /\ starts = 0 /\ calls = 0
    /\ client = "new"
    /\ protocol \in BOOLEAN

May(states) == ~protocol \/ client \in states

\* A client that keeps to the protocol is told when the method is called.
NotOver == ~protocol \/ calls = 0
------------------------------------------------------------------------------
Due(d) == now + (IF d > 0 THEN d * TicksPerSecond ELSE 0)

\* The body of start(), for the duration d that resume may have shortened.
StartWith(d) ==
    /\ duration' = d
    /\ running' = TRUE
    /\ startTime' = now
    /\ pauseTime' = None
    /\ IF d # -1
       THEN /\ starts < MaxStarts
            /\ starts' = starts + 1
            /\ timer' = starts + 1
            /\ threads' = threads \cup {[id |-> starts + 1, due |-> Due(d)]}
       ELSE UNCHANGED <<starts, timer, threads>>

Live(id) == {th \in threads : th.id = id}

Start ==
    /\ May({"new"})
    /\ StartWith(duration)
    /\ client' = "running"
    /\ UNCHANGED <<now, over, calls, protocol>>

\* Mutant: the thread of a paused Timer is forgotten but not cancelled.
PauseWithoutCancel ==
    /\ May({"running"}) /\ NotOver
    /\ running' = FALSE
    /\ IF running /\ duration # -1 /\ timer # None
       THEN timer' = None /\ pauseTime' = now
       ELSE UNCHANGED <<timer, pauseTime>>
    /\ client' = "paused"
    /\ UNCHANGED <<now, duration, startTime, over, threads, starts, calls, protocol>>

Pause ==
    /\ May({"running"}) /\ NotOver
    /\ running' = FALSE
    /\ IF running /\ duration # -1 /\ timer # None
       THEN /\ threads' = threads \ Live(timer)
            /\ timer' = None
            /\ pauseTime' = now
       ELSE UNCHANGED <<threads, timer, pauseTime>>
    /\ client' = "paused"
    /\ UNCHANGED <<now, duration, startTime, over, starts, calls, protocol>>

\* Mutant: startTime is the time of the first start only.
ElapsedSinceFirstStart == pauseTime \div TicksPerSecond

\* int((pauseTime - startTime).total_seconds())
Elapsed == (pauseTime - startTime) \div TicksPerSecond

\* The second condition of resume() never adds anything after the start() of
\* the first, which has set running.
Resume ==
    /\ May({"paused"})
    /\ IF pauseTime = None THEN StartWith(duration)
       ELSE IF ~running /\ duration # -1 THEN StartWith(duration - Elapsed)
       ELSE UNCHANGED <<fields, threads, starts>>
    /\ client' = "running"
    /\ UNCHANGED <<now, over, calls, protocol>>

\* Mutant: cancel() only clears the flag.
CancelFlagOnly ==
    /\ May({"new", "running", "paused"}) /\ NotOver
    /\ running' = FALSE
    /\ client' = "done"
    /\ UNCHANGED <<now, duration, startTime, pauseTime, timer, over, threads, starts, calls, protocol>>

Cancel ==
    /\ May({"new", "running", "paused"}) /\ NotOver
    /\ running' = FALSE
    /\ threads' = IF duration # -1 /\ timer # None THEN threads \ Live(timer) ELSE threads
    /\ client' = "done"
    /\ UNCHANGED <<now, duration, startTime, pauseTime, timer, over, starts, calls, protocol>>

\* caller(): a due thread marks the Timer as over and calls the method.
Fire ==
    /\ \E th \in threads :
          th.due <= now /\ threads' = threads \ {th}
    /\ over' = TRUE
    /\ calls' = calls + 1
    /\ UNCHANGED <<now, fields, starts, client, protocol>>

Tick ==
    /\ now < Horizon
    /\ \A th \in threads : th.due > now
    /\ now' = now + 1
    /\ UNCHANGED <<fields, over, threads, starts, calls, client, protocol>>

Next == Start \/ Pause \/ Resume \/ Cancel \/ Fire \/ Tick

Spec == Init /\ [][Next]_vars
------------------------------------------------------------------------------
\* With a client that keeps to the protocol the Timer is a Countdown; any other
\* client is mapped to one who never starts it.
Remaining ==
    IF pauseTime # None THEN (duration - Elapsed) * TicksPerSecond
    ELSE IF threads # {} THEN (CHOOSE th \in threads : TRUE).due - now
    ELSE 0

Status ==
    IF ~protocol THEN "new"
    ELSE IF calls > 0 THEN "fired"
    ELSE IF client = "done" THEN "cancelled"
    ELSE client

Promise == INSTANCE Countdown WITH
    status <- Status,
    left <- CASE Status = "new" -> Duration * TicksPerSecond
              [] Status \in {"cancelled", "fired"} -> 0
              [] OTHER -> Remaining,
    Length <- Duration * TicksPerSecond,
    Slack <- TicksPerSecond - 1

\* Whatever the client does the Timer is a PausableTimer, the view of it that
\* the modules Environment and Verification use.
Untimed == INSTANCE PausableTimer WITH
    t <- [running |-> running,
          py |-> IF duration = -1 THEN "never"
                 ELSE IF timer = None THEN "none"
                 ELSE IF Live(timer) # {} THEN "live" ELSE "dead",
          paused |-> IF pauseTime = None THEN "no"
                     ELSE IF duration - Elapsed = -1 THEN "late" ELSE "inTime"],
    orphans <- Cardinality(threads \ Live(timer))

\* A Timer whose client keeps to the protocol (Timer.py:7: "supports pausing
\* and resuming") counts down its running time only, loses less than a second
\* at each pause, and calls its method once, never after a cancel.
IsCountdown == Promise!Spec

\* In any order of calls the Timer behaves like TimerOps says: this is what
\* justifies the untimed view in the modules that use timers.
IsPausableTimer == Untimed!Spec
==============================================================================
