---------------------------- MODULE SummaryMonitor ----------------------------
(***************************************************************************)
(* kvikio::statistics::SummaryMonitor as a value: the record of a monitor, *)
(* and what its callbacks, get(), reset() and stop() do to it while they   *)
(* hold `_mutex`.  Observation.tla runs these on concurrent threads.       *)
(*                                                                         *)
(* Times are readings of the steady clock, from 1.  The totals keep the    *)
(* operations, their failures, bytes and durations; the splits by backend  *)
(* and by direction are sums of the same increments over a part of the     *)
(* operations and are left out.  The eight process-wide counters only ever *)
(* grow and are never related to each other: one of them stands for all.   *)
(***************************************************************************)
EXTENDS Integers

CONSTANT Forever   \* TimePoint::max(): no operation starts this late

Larger(a, b) == IF a > b THEN a ELSE b
Smaller(a, b) == IF a < b THEN a ELSE b

-------------------------------------------------------------------------------
(* BusyTracker: busy time is the union of the operations' spans, followed  *)
(* through one number, the operations in flight.                           *)

NewTracker == [closed |-> 0, emitted |-> 0, since |-> 0, pending |-> 0,
               lastClosed |-> 0, inFlight |-> 0]

\* BusyTracker::reset(): the operations in flight keep their place.
TrackerResetKeepingFloor(b, t) ==
    [b EXCEPT !.closed = 0, !.emitted = 0, !.pending = 0]
TrackerReset(b, t) ==
    [b EXCEPT !.closed = 0, !.emitted = 0, !.pending = 0, !.since = t, !.lastClosed = t]

\* BusyTracker::on_start(): the first operation opens a stretch, a further one
\* joins it and may extend it backwards, never before the last one closed.
TrackerStart(b, start) ==
    LET from == Larger(start, b.lastClosed)
    IN  [b EXCEPT !.since = IF b.inFlight = 0 THEN from ELSE Smaller(b.since, from),
                  !.inFlight = b.inFlight + 1]

\* BusyTracker::on_finish(): the last operation of a stretch closes it, at the
\* latest end among its operations.
TrackerFinish(b, end) ==
    LET last == Larger(b.pending, end)
    IN  IF b.inFlight = 0 THEN b
        ELSE IF b.inFlight > 1 THEN [b EXCEPT !.pending = last, !.inFlight = b.inFlight - 1]
        ELSE [b EXCEPT !.inFlight = 0, !.pending = 0,
                       !.closed = b.closed + Larger(0, last - b.since),
                       !.lastClosed = Larger(b.lastClosed, last)]

\* BusyTracker::read(): the open stretch runs up to now, and a reading is never
\* smaller than an earlier one.
TrackerReadAsIs(b, now) ==
    [b EXCEPT !.emitted = b.closed + IF b.inFlight > 0 THEN Larger(0, now - b.since) ELSE 0]
TrackerRead(b, now) ==
    [b EXCEPT !.emitted = Larger(b.emitted, TrackerReadAsIs(b, now).emitted)]

-------------------------------------------------------------------------------
(* The monitor.                                                            *)

NoTotals == [ops |-> 0, errors |-> 0, bytes |-> 0, spent |-> 0]

\* A monitor before its constructor: `_registered` is at its maximum, so that
\* an operation that starts before the stamp is refused by both callbacks.
NewMonitor == [start |-> 0, registered |-> Forever, stoppedEnd |-> 0,
               totals |-> NoTotals, busy |-> NewTracker, base |-> 0, final |-> 0]

\* The end of the constructor, under `_mutex`, at time t with the counter at c.
StampMonitor(m, t, c) ==
    [m EXCEPT !.start = t, !.registered = t, !.base = c, !.busy = TrackerReset(m.busy, t)]

\* SummaryMonitor::on_start().
MonitorOnStart(m, obs) ==
    IF obs.start < m.registered THEN m ELSE [m EXCEPT !.busy = TrackerStart(m.busy, obs.start)]

\* SummaryMonitor::on_finish(): close the operation, then count it unless a
\* reset() has moved the span on since it began.
CountObservation(totals, obs) ==
    [ops    |-> totals.ops + 1,
     errors |-> totals.errors + IF obs.ok THEN 0 ELSE 1,
     bytes  |-> totals.bytes + obs.bytes,
     spent  |-> totals.spent + Larger(0, obs.end - obs.start)]
MonitorOnFinishRegardless(m, obs) ==
    [m EXCEPT !.busy = TrackerFinish(m.busy, obs.end),
              !.totals = IF obs.start < m.start THEN m.totals ELSE CountObservation(m.totals, obs)]
MonitorOnFinishSinceCreated(m, obs) ==
    IF obs.start < m.registered THEN m
    ELSE [m EXCEPT !.busy = TrackerFinish(m.busy, obs.end),
                   !.totals = CountObservation(m.totals, obs)]
MonitorOnFinish(m, obs) ==
    IF obs.start < m.registered THEN m
    ELSE [m EXCEPT !.busy = TrackerFinish(m.busy, obs.end),
                   !.totals = IF obs.start < m.start THEN m.totals
                              ELSE CountObservation(m.totals, obs)]

\* SummaryMonitor::reset() at time t.
MonitorReset(m, t, c) ==
    [m EXCEPT !.totals = NoTotals, !.start = t, !.base = c, !.busy = TrackerReset(m.busy, t)]

\* Counters::since(): what a counter grew by, saturating at zero.
Spent(mine, previous) == Larger(0, mine - previous)

\* SummaryMonitor::get() at time t, with the counter read as c before the lock.
ReadEnd(m, t) == IF m.stoppedEnd # 0 THEN m.stoppedEnd ELSE t
AfterRead(m, t) == [m EXCEPT !.busy = TrackerRead(m.busy, ReadEnd(m, t))]
Summary(m, t, c) ==
    [start |-> m.start, end |-> ReadEnd(m, t), totals |-> m.totals,
     busy |-> AfterRead(m, t).busy.emitted,
     count |-> Spent(IF m.stoppedEnd # 0 THEN m.final ELSE c, m.base)]

\* Summary::wall().
Wall(s) == Larger(0, s.end - s.start)

===============================================================================
