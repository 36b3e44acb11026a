----------------------------- MODULE Observation -----------------------------
(***************************************************************************)
(* The observation facility of KvikIO: worker threads report the start and *)
(* the end of every call (a logical observation) or of a transfer under it *)
(* (a physical one) to the monitors registered for that kind, inline and   *)
(* under the registry's shared lock, while other threads create, read,     *)
(* reset, stop and destroy statistics monitors.                            *)
(*                                                                         *)
(* A step takes one lock, reads the clock once or runs one callback.  Each *)
(* reading of the clock is later than the one before it: two readings that *)
(* a lock orders are taken to be distinct.                                 *)
(***************************************************************************)
EXTENDS SummaryMonitor, Sequences, FiniteSets

CONSTANTS Workers,   \* operations, each a recorder on a thread of its own
          KindOf,    \* whether it is a call or a transfer
          Users,     \* threads that own and read monitors
          Monitors,  \* SummaryMonitor objects
          MonKinds,  \* the kinds each monitor may be created for
          Watches,   \* the kinds that monitors of the application itself may watch
          Fate,      \* how each operation ends: "done", "failed", "abandoned"
          CallBytes, \* bytes an operation that succeeds moves
          MaxUses,   \* bound: operations on monitors, per user thread
          MaxCount,  \* bound: events counted by the process-wide counters, by what is watched
          NoMonitor, NoReading

Kinds == {"logical", "physical"}

ASSUME ObservationAssumption ==
    /\ MonKinds \in [Monitors -> SUBSET Kinds]
    /\ KindOf \in [Workers -> Kinds]
    /\ Watches \subseteq SUBSET Kinds
    /\ Fate \in [Workers -> {"done", "failed", "abandoned"}]
    /\ CallBytes \in Nat /\ Forever \in Nat
    /\ IsFiniteSet(Workers)
    /\ NoMonitor \notin Monitors

ASSUME BoundsAssumption == MaxUses \in Nat /\ MaxCount \in [Watches -> Nat]

VARIABLES
    clock,     \* the steady clock
    count,     \* the process-wide counters
    monKind,   \* the kind each monitor was created for
    watched,   \* the kinds a monitor of the application is registered for throughout
    entries,   \* _monitors: the registered monitors
    step,      \* how far each operation is
    rec,       \* its recorder
    notifying, \* the notification it is in: "none", "start", "finish"
    left,      \* the entries it has still to call, under the registry's shared lock
    nextId,    \* next_observation_id()
    mon,       \* the monitor objects
    phase,     \* where they are in their life
    user,      \* what each user thread is in the middle of
    uses,      \* operations it has performed
    reading,   \* the last reading of each monitor
    told       \* callbacks each monitor has had, by operation

registryVars == <<entries, monKind, watched>>
workerVars == <<step, rec, notifying, left, nextId>>
userVars == <<phase, user, uses, reading>>
vars == <<clock, count, registryVars, workerVars, mon, userVars, told>>

NoRecorder == [active |-> FALSE, emitted |-> FALSE, id |-> 0,
               start |-> 0, end |-> 0, ok |-> TRUE, bytes |-> 0]
Idle == [op |-> "idle", on |-> NoMonitor, count |-> 0]

Init ==
    /\ clock = 0 /\ count = 0 /\ nextId = 1
    /\ monKind \in {k \in [Monitors -> Kinds] : \A m \in Monitors : k[m] \in MonKinds[m]}
    /\ watched \in Watches
    /\ entries = {}
    /\ step = [w \in Workers |-> "new"]
    /\ rec = [w \in Workers |-> NoRecorder]
    /\ notifying = [w \in Workers |-> "none"]
    /\ left = [w \in Workers |-> {}]
    /\ mon = [m \in Monitors |-> NewMonitor]
    /\ phase = [m \in Monitors |-> "none"]
    /\ user = [u \in Users |-> Idle]
    /\ uses = [u \in Users |-> 0]
    /\ reading = [m \in Monitors |-> NoReading]
    /\ told = [m \in Monitors |-> [w \in Workers |-> [start |-> 0, finish |-> 0]]]

-------------------------------------------------------------------------------
(* LogicalObservationRecorder and PhysicalObservationRecorder.             *)

\* monitoring_enabled(): the count publish_count() stored under the lock.
MonitoringEnabled(k) == k \in watched \/ \E m \in entries : monKind[m] = k

At(w, s) == step[w] = s /\ notifying[w] = "none"
Advance(w, s) == step' = [step EXCEPT ![w] = s]

\* The constructors: with nobody subscribed the recorder stays inactive,
\* otherwise it takes an id and a start time and notifies.
BuildRecorder(w) ==
    /\ At(w, "new") /\ Advance(w, "running")
    /\ IF MonitoringEnabled(KindOf[w])
       THEN /\ clock' = clock + 1
            /\ nextId' = nextId + 1
            /\ rec' = [rec EXCEPT ![w].active = TRUE, ![w].id = nextId, ![w].start = clock + 1]
            /\ notifying' = [notifying EXCEPT ![w] = "start"]
       ELSE UNCHANGED <<clock, nextId, rec, notifying>>
    /\ UNCHANGED <<count, registryVars, left, mon, userVars, told>>

\* finish(), finish_with_failure() and the destructors: the first of them stamps
\* the end and notifies, the others do nothing.
SilentWhenInactive(w) == ~rec[w].active
Silent(w) == ~rec[w].active \/ rec[w].emitted
Emit(w, ok) ==
    IF Silent(w)
    THEN UNCHANGED <<clock, rec, notifying>>
    ELSE /\ clock' = clock + 1
         /\ rec' = [rec EXCEPT ![w].emitted = TRUE, ![w].end = clock + 1,
                               ![w].ok = ok, ![w].bytes = IF ok THEN CallBytes ELSE 0]
         /\ notifying' = [notifying EXCEPT ![w] = "finish"]

\* The work ends: it is done, it has failed and says so, or an exception leaves
\* the report to the destructor.
FinishRecorder(w) ==
    /\ At(w, "running") /\ Advance(w, "ended")
    /\ IF Fate[w] # "abandoned" THEN Emit(w, Fate[w] = "done")
                                ELSE UNCHANGED <<clock, rec, notifying>>
    /\ UNCHANGED <<count, registryVars, left, nextId, mon, userVars, told>>

DestroyRecorder(w) ==
    /\ At(w, "ended") /\ Advance(w, "over")
    /\ Emit(w, FALSE)
    /\ UNCHANGED <<count, registryVars, left, nextId, mon, userVars, told>>

-------------------------------------------------------------------------------
(* Registry::notify().                                                     *)

\* The threads that hold the lock shared.
Readers == {w \in Workers : left[w] # {}}

\* Past the gate, the callbacks run under the shared lock.  A monitor of the
\* application keeps its own state: only those of this module are called.
BeginNotify(w) ==
    LET subscribed == {m \in entries : monKind[m] = KindOf[w]}
    IN  /\ notifying[w] # "none" /\ left[w] = {}
        /\ left' = [left EXCEPT ![w] = subscribed]
        /\ notifying' = [notifying EXCEPT ![w] = IF subscribed = {} THEN "none" ELSE @]
        /\ UNCHANGED <<clock, count, registryVars, step, rec, nextId, mon, userVars, told>>

\* One callback; the last one ends the notification and gives up the lock.
Callback(w, m) ==
    /\ m \in left[w]
    /\ left' = [left EXCEPT ![w] = @ \ {m}]
    /\ notifying' = [notifying EXCEPT ![w] = IF left[w] = {m} THEN "none" ELSE @]
    /\ mon' = [mon EXCEPT ![m] = IF notifying[w] = "start" THEN MonitorOnStart(mon[m], rec[w])
                                                            ELSE MonitorOnFinish(mon[m], rec[w])]
    /\ told' = [told EXCEPT ![m][w][notifying[w]] = @ + 1]
    /\ UNCHANGED <<clock, count, registryVars, step, rec, nextId, userVars>>

-------------------------------------------------------------------------------
(* Users of the monitors.                                                  *)

\* The exclusive lock waits for every notification in progress.
LockWithoutWaiting == TRUE
LockExclusive == Readers = {}

Free(u) == user[u] = Idle /\ uses[u] < MaxUses
Use(u) == uses' = [uses EXCEPT ![u] = @ + 1]
Turn(u, op, m, c) == user' = [user EXCEPT ![u] = [op |-> op, on |-> m, count |-> c]]

\* SummaryMonitor(): it registers first and stamps its span afterwards.
RegisterMonitor(u, m) ==
    /\ Free(u) /\ Use(u) /\ phase[m] = "none" /\ LockExclusive
    /\ entries' = entries \cup {m}
    /\ phase' = [phase EXCEPT ![m] = "registered"]
    /\ Turn(u, "construct", m, 0)
    /\ UNCHANGED <<clock, count, monKind, watched, workerVars, mon, reading, told>>

StampSpan(u) ==
    LET m == user[u].on
    IN  /\ user[u].op = "construct"
        /\ clock' = clock + 1
        /\ mon' = [mon EXCEPT ![m] = StampMonitor(mon[m], clock + 1, count)]
        /\ phase' = [phase EXCEPT ![m] = "live"]
        /\ user' = [user EXCEPT ![u] = Idle]
        /\ UNCHANGED <<count, registryVars, workerVars, uses, reading, told>>

\* get(): the counters are read before the lock.
ReadCounters(u, m) ==
    /\ Free(u) /\ Use(u) /\ phase[m] \in {"live", "draining", "stopped"}
    /\ Turn(u, "get", m, count)
    /\ UNCHANGED <<clock, count, registryVars, workerVars, mon, phase, reading, told>>

ReadTotals(u) ==
    LET m == user[u].on
    IN  /\ user[u].op = "get"
        /\ clock' = clock + 1
        /\ mon' = [mon EXCEPT ![m] = AfterRead(mon[m], clock + 1)]
        /\ reading' = [reading EXCEPT ![m] = Summary(mon[m], clock + 1, user[u].count)]
        /\ user' = [user EXCEPT ![u] = Idle]
        /\ UNCHANGED <<count, registryVars, workerVars, phase, uses, told>>

ResetMonitor(u, m) ==
    /\ Free(u) /\ Use(u) /\ phase[m] \in {"live", "draining", "stopped"}
    /\ clock' = clock + 1
    /\ mon' = [mon EXCEPT ![m] = MonitorReset(mon[m], clock + 1, count)]
    /\ UNCHANGED <<count, registryVars, workerVars, phase, user, reading, told>>

\* stop(): unregister, which waits for the notifications in progress, read the
\* counters, then stamp the end of the span under the lock.  A second stop() waits
\* for the first and returns.
StopMonitor(u, m) ==
    /\ Free(u) /\ Use(u) /\ phase[m] = "live" /\ LockExclusive
    /\ entries' = entries \ {m}
    /\ phase' = [phase EXCEPT ![m] = "draining"]
    /\ Turn(u, "stop", m, 0)
    /\ UNCHANGED <<clock, count, monKind, watched, workerVars, mon, reading, told>>

ReadFinal(u) ==
    /\ user[u].op = "stop"
    /\ Turn(u, "stamp", user[u].on, count)
    /\ UNCHANGED <<clock, count, registryVars, workerVars, mon, phase, uses, reading, told>>

StampEnd(u) ==
    LET m == user[u].on
    IN  /\ user[u].op = "stamp"
        /\ clock' = clock + 1
        /\ mon' = [mon EXCEPT ![m].stoppedEnd = clock + 1, ![m].final = user[u].count]
        /\ phase' = [phase EXCEPT ![m] = "stopped"]
        /\ user' = [user EXCEPT ![u] = Idle]
        /\ UNCHANGED <<count, registryVars, workerVars, uses, reading, told>>

\* The destructor: after stop() it hands the final totals to the callback.  The
\* owner destroys a monitor that no other thread is using.
DestroyMonitor(u, m) ==
    /\ Free(u) /\ Use(u) /\ phase[m] = "stopped"
    /\ \A v \in Users : user[v].on # m
    /\ phase' = [phase EXCEPT ![m] = "destroyed"]
    /\ reading' = [reading EXCEPT ![m] = Summary(mon[m], clock, count)]
    /\ UNCHANGED <<clock, count, registryVars, workerVars, mon, user, told>>

\* count_remote_size_probe(), count_http_connection(), count_http_retry().
CountEvent ==
    /\ count < MaxCount[watched]
    /\ count' = count + 1
    /\ UNCHANGED <<clock, registryVars, workerVars, mon, userVars, told>>

-------------------------------------------------------------------------------

WorkerStep(w) ==
    \/ BuildRecorder(w) \/ FinishRecorder(w) \/ DestroyRecorder(w)
    \/ BeginNotify(w) \/ \E m \in Monitors : Callback(w, m)

UserStep(u) ==
    \/ \E m \in Monitors : \/ RegisterMonitor(u, m) \/ ReadCounters(u, m) \/ ResetMonitor(u, m)
                           \/ StopMonitor(u, m) \/ DestroyMonitor(u, m)
    \/ StampSpan(u) \/ ReadTotals(u) \/ ReadFinal(u) \/ StampEnd(u)

Next == CountEvent \/ (\E w \in Workers : WorkerStep(w)) \/ (\E u \in Users : UserStep(u))

Spec == Init /\ [][Next]_vars

-------------------------------------------------------------------------------
(* Properties.                                                             *)

\* unregister_monitor(): once it has returned no thread is inside, or about to
\* enter, a callback of the monitor, so its owner may destroy it.
NoCallbackAfterUnregister ==
    \A w \in Workers : \A m \in left[w] : phase[m] \notin {"draining", "stopped", "destroyed"}

\* Monitor: every operation that reports a start to a monitor reports exactly
\* one finish to it, unless the monitor was unregistered in between; and no
\* operation is reported twice.
OneFinishPerStart ==
    \A m \in Monitors, w \in Workers :
        LET t == told[m][w]
        IN  /\ t.start <= 1 /\ t.finish <= 1
            /\ At(w, "over") /\ m \in entries => t.finish >= t.start

\* BusyTracker: the operations in flight are those whose start was accepted and
\* whose end has not been reported, whatever was registered, stamped or reset
\* in between.
InFlightIsExact ==
    \A m \in Monitors : mon[m].busy.inFlight =
        Cardinality({w \in Workers : /\ told[m][w] = [start |-> 1, finish |-> 0]
                                     /\ rec[w].start >= mon[m].registered})

\* Summary::busy: the busy time of a reading never exceeds its wall time.
BusyWithinWall ==
    \A m \in Monitors : reading[m] # NoReading => reading[m].busy <= Wall(reading[m])

\* SummaryMonitor: an operation in flight when the monitor was created or reset
\* is not counted, every other one that ended is, once and whole.
TotalsAreExact ==
    \A m \in Monitors : phase[m] = "live" /\ (\A w \in Workers : notifying[w] = "none") =>
        LET ours == {w \in Workers : /\ KindOf[w] = monKind[m]
                                     /\ rec[w].emitted
                                     /\ rec[w].start >= mon[m].start}
        IN  /\ mon[m].totals.ops = Cardinality(ours)
            /\ mon[m].totals.errors = Cardinality({w \in ours : ~rec[w].ok})

\* BusyTracker::read(), stop(): a later reading of the same span is never
\* smaller, and once the monitor has stopped it is the same reading.
ReadingsNeverShrink ==
    [][\A m \in Monitors :
         LET old == reading[m]
             new == reading'[m]
         IN  old # NoReading /\ new.start = old.start =>
                /\ new.busy >= old.busy /\ new.end >= old.end /\ new.totals.ops >= old.totals.ops
                /\ new.end = old.end => new = old]_vars

===============================================================================
