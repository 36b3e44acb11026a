--------------------------- MODULE ObservationProofs ---------------------------
(***************************************************************************)
(* Proofs about Observation, for any number of operations, user threads    *)
(* and monitors.                                                           *)
(*                                                                         *)
(* The actions are first reduced to what they change, one predicate per    *)
(* kind of step.  Three layers of invariants rest on each other: the       *)
(* protocol of recorders, notifications, monitors and users                *)
(* (ObservationInv), which callbacks each monitor has had (AllToldRightly, *)
(* AllStartsHeard), and what it holds as a consequence: its counts         *)
(* (AllCountsHold), its busy time (AllBusyBounded) and its readings        *)
(* (AllReadingsKept).                                                      *)
(***************************************************************************)
EXTENDS Observation, FiniteSetTheorems, TLAPS

-------------------------------------------------------------------------------
(* The recorders and the users of the monitors.                            *)

RecorderFields == {"active", "emitted", "id", "start", "end", "ok", "bytes"}
TrackerType == [closed : Nat, emitted : Nat, since : Nat, pending : Nat, lastClosed : Nat, inFlight : Nat]
TotalsType == [ops : Nat, errors : Nat, bytes : Nat, spent : Nat]
MonitorType == [start : Nat, registered : Nat, stoppedEnd : Nat, totals : TotalsType,
                busy : TrackerType, base : Nat, final : Nat]
Phases == {"none", "registered", "live", "draining", "stopped", "destroyed"}

\* The types, with the fields of a recorder one by one.
RecordersTyped ==
    /\ DOMAIN rec = Workers
    /\ \A w \in Workers : /\ DOMAIN rec[w] = RecorderFields
                          /\ rec[w].start \in Nat /\ rec[w].end \in Nat /\ rec[w].bytes \in Nat
WorkersTyped ==
    /\ step \in [Workers -> {"new", "running", "ended", "over"}]
    /\ notifying \in [Workers -> {"none", "start", "finish"}]
    /\ left \in [Workers -> SUBSET Monitors]
MonitorsTyped ==
    /\ clock \in Nat /\ count \in Nat
    /\ entries \subseteq Monitors /\ monKind \in [Monitors -> Kinds]
    /\ mon \in [Monitors -> MonitorType] /\ phase \in [Monitors -> Phases]
    /\ told \in [Monitors -> [Workers -> [start : Nat, finish : Nat]]]
UsersTyped ==
    /\ DOMAIN user = Users /\ DOMAIN reading = Monitors
    /\ \A u \in Users : /\ DOMAIN user[u] = {"op", "on", "count"}
                        /\ user[u].op \in {"idle", "construct", "get", "stop", "stamp"}
                        /\ user[u].op # "idle" => user[u].on \in Monitors
                        /\ user[u].op = "idle" => user[u] = Idle
                        /\ user[u].count \in Nat

\* What a recorder is, as one word: a recorder is silent until it is built, open until the
\* first of finish(), finish_with_failure() and the destructor, and emitted from then on.
Open(w) == rec[w].active /\ ~rec[w].emitted
Ended(w) == rec[w].active /\ rec[w].emitted

LEMMA EmitEffect ==
    ASSUME RecordersTyped, WorkersTyped, MonitorsTyped, NEW w \in Workers, NEW ok \in BOOLEAN, Emit(w, ok)
    PROVE  \/ ~Open(w) /\ UNCHANGED <<clock, rec, notifying>>
           \/ /\ Open(w) /\ Ended(w)' /\ clock' = clock + 1
              /\ rec'[w].start = rec[w].start /\ rec'[w].end = clock + 1 /\ rec'[w].ok = ok
              /\ \A v \in Workers : v # w => rec'[v] = rec[v] /\ notifying'[v] = notifying[v]
              /\ notifying'[w] = "finish"
              /\ RecordersTyped' /\ notifying' \in [Workers -> {"none", "start", "finish"}]
<1>1. CASE Silent(w)
  BY <1>1 DEF Emit, Silent, Open
<1>2. CASE ~Silent(w)
  <2>1. Open(w)
    BY <1>2 DEF Silent, Open
  <2>2. /\ clock' = clock + 1
        /\ rec' = [rec EXCEPT ![w].emitted = TRUE, ![w].end = clock + 1,
                              ![w].ok = ok, ![w].bytes = IF ok THEN CallBytes ELSE 0]
        /\ notifying' = [notifying EXCEPT ![w] = "finish"]
    BY <1>2 DEF Emit
  <2>3. /\ DOMAIN rec' = Workers /\ DOMAIN rec'[w] = RecorderFields
        /\ rec'[w].active = rec[w].active /\ rec'[w].emitted = TRUE
        /\ rec'[w].start = rec[w].start /\ rec'[w].end = clock + 1 /\ rec'[w].ok = ok
        /\ rec'[w].bytes = IF ok THEN CallBytes ELSE 0
        /\ \A v \in Workers : v # w => rec'[v] = rec[v]
    BY <2>2 DEF RecordersTyped, RecorderFields
  <2>4. RecordersTyped'
    <3>1. CallBytes \in Nat
      BY ObservationAssumption
    <3> QED
      BY <2>3, <3>1 DEF RecordersTyped, MonitorsTyped
  <2>5. Ended(w)'
    BY <2>1, <2>3 DEF Ended, Open
  <2>6. /\ notifying' \in [Workers -> {"none", "start", "finish"}] /\ notifying'[w] = "finish"
        /\ \A v \in Workers : v # w => notifying'[v] = notifying[v]
    BY <2>2 DEF WorkersTyped
  <2> QED BY <2>1, <2>2, <2>3, <2>4, <2>5, <2>6
<1> QED BY <1>1, <1>2

LEMMA BuildEffect ==
    ASSUME RecordersTyped, WorkersTyped, MonitorsTyped, NEW w \in Workers, ~Open(w), ~Ended(w), BuildRecorder(w)
    PROVE  /\ step[w] = "new" /\ notifying[w] = "none" /\ step'[w] = "running"
           /\ \A v \in Workers : v # w => step'[v] = step[v]
           /\ UNCHANGED <<count, entries, monKind, watched, left, mon, phase, user, uses, reading, told>>
           /\ WorkersTyped' /\ RecordersTyped'
           /\ \/ UNCHANGED <<clock, rec, notifying>>
              \/ /\ clock' = clock + 1 /\ rec'[w].start = clock + 1 /\ notifying'[w] = "start"
                 /\ rec'[w].active = TRUE /\ rec'[w].emitted = rec[w].emitted /\ rec'[w].end = rec[w].end
                 /\ \A v \in Workers : v # w => rec'[v] = rec[v] /\ notifying'[v] = notifying[v]
<1>1. /\ step[w] = "new" /\ notifying[w] = "none" /\ step' = [step EXCEPT ![w] = "running"]
      /\ UNCHANGED <<count, entries, monKind, watched, left, mon, phase, user, uses, reading, told>>
  BY DEF BuildRecorder, At, Advance, registryVars, userVars
<1>2. CASE UNCHANGED <<clock, nextId, rec, notifying>>
  BY <1>1, <1>2 DEF WorkersTyped, RecordersTyped
<1>3. CASE /\ clock' = clock + 1
           /\ nextId' = nextId + 1
           /\ rec' = [rec EXCEPT ![w].active = TRUE, ![w].id = nextId, ![w].start = clock + 1]
           /\ notifying' = [notifying EXCEPT ![w] = "start"]
  <2>3. /\ DOMAIN rec' = Workers /\ DOMAIN rec'[w] = RecorderFields
        /\ rec'[w].active = TRUE /\ rec'[w].emitted = rec[w].emitted
        /\ rec'[w].start = clock + 1 /\ rec'[w].end = rec[w].end
        /\ rec'[w].bytes = rec[w].bytes
        /\ \A v \in Workers : v # w => rec'[v] = rec[v]
    BY <1>3 DEF RecordersTyped, RecorderFields
  <2>4. RecordersTyped'
    BY <2>3 DEF RecordersTyped, MonitorsTyped
  <2>6. /\ notifying' \in [Workers -> {"none", "start", "finish"}] /\ notifying'[w] = "start"
        /\ \A v \in Workers : v # w => notifying'[v] = notifying[v]
    BY <1>3 DEF WorkersTyped
  <2>7. /\ step' \in [Workers -> {"new", "running", "ended", "over"}] /\ step'[w] = "running"
        /\ \A v \in Workers : v # w => step'[v] = step[v]
    BY <1>1 DEF WorkersTyped
  <2>8. WorkersTyped'
    BY <1>1, <2>6, <2>7 DEF WorkersTyped
  <2> QED BY <1>1, <1>3, <2>3, <2>4, <2>6, <2>7, <2>8
<1> QED BY <1>2, <1>3 DEF BuildRecorder

\* A recorder reports its start from the time it is built, and its end from the first of the
\* calls that end it; the callbacks still to run are of registered monitors of its kind.
RecorderProtocol ==
    \A w \in Workers :
        /\ step[w] = "new" => ~Open(w) /\ ~Ended(w) /\ notifying[w] = "none"
        /\ notifying[w] = "start" => step[w] = "running" /\ Open(w)
        /\ notifying[w] = "finish" => step[w] \in {"ended", "over"} /\ Ended(w)
        /\ step[w] = "over" => ~Open(w)
        /\ rec[w].emitted => Ended(w)
        /\ rec[w].start <= clock /\ rec[w].end <= clock
NotifyProtocol ==
    \A w \in Workers :
        /\ left[w] # {} => notifying[w] # "none"
        /\ \A m \in left[w] : m \in entries /\ monKind[m] = KindOf[w]

\* What each phase of a monitor means for the registry and for its stamps.
MonitorProtocol ==
    \A m \in Monitors :
        /\ m \in entries <=> phase[m] \in {"registered", "live"}
        /\ phase[m] \in {"none", "registered"} =>
              mon[m].registered = Forever /\ mon[m].start = 0
        /\ phase[m] \notin {"none", "registered"} =>
              mon[m].registered <= mon[m].start /\ mon[m].start > 0
        /\ mon[m].start <= clock /\ mon[m].stoppedEnd <= clock
        /\ mon[m].stoppedEnd # 0 <=> phase[m] \in {"stopped", "destroyed"}

\* A thread inside the constructor or inside stop() is the only one there.
UserProtocol ==
    \A u \in Users :
        /\ user[u].op = "construct" => phase[user[u].on] = "registered"
        /\ user[u].op \in {"stop", "stamp"} => phase[user[u].on] = "draining"
        /\ user[u].op = "get" => phase[user[u].on] \in {"live", "draining", "stopped"}
        /\ \A v \in Users : /\ u # v /\ user[u].on = user[v].on
                            /\ user[u].op # "idle" /\ user[v].op # "idle"
                            => user[u].op = "get" \/ user[v].op = "get"

Typed == RecordersTyped /\ WorkersTyped /\ MonitorsTyped /\ UsersTyped
ObservationInv == Typed /\ RecorderProtocol /\ NotifyProtocol /\ MonitorProtocol /\ UserProtocol

-------------------------------------------------------------------------------
(* What each step does, as the invariants see it.                          *)

\* A recorder opens, ends, or says nothing.
Opens(w) ==
    /\ ~Open(w) /\ ~Ended(w) /\ Open(w)' /\ ~Ended(w)' /\ step[w] = "new" /\ step'[w] = "running"
    /\ notifying'[w] = "start" /\ clock' = clock + 1 /\ rec'[w].start = clock + 1 /\ rec'[w].end = rec[w].end
Ends(w) ==
    /\ Open(w) /\ ~Ended(w) /\ ~Open(w)' /\ Ended(w)' /\ step'[w] \in {"ended", "over"}
    /\ notifying'[w] = "finish" /\ clock' = clock + 1 /\ rec'[w].start = rec[w].start /\ rec'[w].end = clock + 1
StaysQuiet(w) ==
    /\ UNCHANGED <<clock, rec, notifying>>
    /\ \/ step[w] = "new" /\ step'[w] = "running"
       \/ step[w] = "running" /\ step'[w] = "ended"
       \/ step[w] = "ended" /\ step'[w] = "over" /\ ~Open(w)
RecorderStep(w) ==
    /\ UNCHANGED <<count, entries, monKind, left, mon, phase, user, reading, told>>
    /\ notifying[w] = "none"
    /\ \A v \in Workers : v # w => /\ step'[v] = step[v] /\ rec'[v] = rec[v]
                                   /\ notifying'[v] = notifying[v]
    /\ Opens(w) \/ Ends(w) \/ StaysQuiet(w)
    /\ RecordersTyped' /\ WorkersTyped'

LEMMA BuildIsRecorderStep ==
    ASSUME Typed, RecorderProtocol, NEW w \in Workers, BuildRecorder(w)
    PROVE  RecorderStep(w)
<1>1. step[w] = "new"
  BY DEF BuildRecorder, At
<1>2. ~Open(w) /\ ~Ended(w) /\ ~rec[w].emitted
  BY <1>1 DEF RecorderProtocol
<1>3. RecordersTyped /\ WorkersTyped /\ MonitorsTyped
  BY DEF Typed
<1>4. /\ step[w] = "new" /\ notifying[w] = "none" /\ step'[w] = "running"
      /\ \A v \in Workers : v # w => step'[v] = step[v]
      /\ UNCHANGED <<count, entries, monKind, watched, left, mon, phase, user, uses, reading, told>>
      /\ WorkersTyped' /\ RecordersTyped'
      /\ \/ UNCHANGED <<clock, rec, notifying>>
         \/ /\ clock' = clock + 1 /\ rec'[w].start = clock + 1 /\ notifying'[w] = "start"
            /\ rec'[w].active = TRUE /\ rec'[w].emitted = rec[w].emitted /\ rec'[w].end = rec[w].end
            /\ \A v \in Workers : v # w => rec'[v] = rec[v] /\ notifying'[v] = notifying[v]
  BY <1>2, <1>3, BuildEffect
<1>5. CASE UNCHANGED <<clock, rec, notifying>>
  BY <1>4, <1>5 DEF RecorderStep, StaysQuiet
<1>6. CASE /\ clock' = clock + 1 /\ rec'[w].start = clock + 1 /\ notifying'[w] = "start"
           /\ rec'[w].active = TRUE /\ rec'[w].emitted = rec[w].emitted /\ rec'[w].end = rec[w].end
           /\ \A v \in Workers : v # w => rec'[v] = rec[v] /\ notifying'[v] = notifying[v]
  <2>1. Open(w)' /\ ~Ended(w)'
    BY <1>2, <1>6 DEF Open, Ended
  <2>2. Opens(w)
    BY <1>2, <1>4, <1>6, <2>1 DEF Opens
  <2> QED BY <1>4, <1>6, <2>2 DEF RecorderStep
<1> QED BY <1>4, <1>5, <1>6

LEMMA EmitIsRecorderStep ==
    ASSUME Typed, RecorderProtocol, NEW w \in Workers, NEW ok \in BOOLEAN, Emit(w, ok),
           NEW s, step' = [step EXCEPT ![w] = s], notifying[w] = "none",
           \/ step[w] = "running" /\ s = "ended"
           \/ step[w] = "ended" /\ s = "over",
           UNCHANGED <<count, entries, monKind, left, mon, phase, user, reading, told>>
    PROVE  RecorderStep(w)
<1>1. RecordersTyped /\ WorkersTyped /\ MonitorsTyped
  BY DEF Typed
<1>2. /\ step' \in [Workers -> {"new", "running", "ended", "over"}] /\ step'[w] = s
      /\ \A v \in Workers : v # w => step'[v] = step[v]
  BY <1>1 DEF WorkersTyped
<1>3. CASE ~Open(w) /\ UNCHANGED <<clock, rec, notifying>>
  <2>1. StaysQuiet(w)
    BY <1>2, <1>3 DEF StaysQuiet
  <2>2. RecordersTyped' /\ WorkersTyped'
    BY <1>1, <1>2, <1>3 DEF RecordersTyped, WorkersTyped
  <2> QED BY <1>2, <1>3, <2>1, <2>2 DEF RecorderStep
<1>4. CASE /\ Open(w) /\ Ended(w)' /\ clock' = clock + 1
           /\ rec'[w].start = rec[w].start /\ rec'[w].end = clock + 1 /\ rec'[w].ok = ok
           /\ \A v \in Workers : v # w => rec'[v] = rec[v] /\ notifying'[v] = notifying[v]
           /\ notifying'[w] = "finish"
           /\ RecordersTyped' /\ notifying' \in [Workers -> {"none", "start", "finish"}]
  <2>1. ~Ended(w) /\ ~Open(w)'
    BY <1>4 DEF Open, Ended
  <2>2. Ends(w)
    BY <1>2, <1>4, <2>1 DEF Ends
  <2>3. WorkersTyped'
    BY <1>1, <1>2, <1>4 DEF WorkersTyped
  <2> QED BY <1>2, <1>4, <2>2, <2>3 DEF RecorderStep
<1> QED BY <1>1, <1>3, <1>4, EmitEffect

LEMMA FinishIsRecorderStep ==
    ASSUME Typed, RecorderProtocol, NEW w \in Workers, FinishRecorder(w)
    PROVE  RecorderStep(w)
<1>1. /\ step[w] = "running" /\ notifying[w] = "none" /\ step' = [step EXCEPT ![w] = "ended"]
      /\ UNCHANGED <<count, entries, monKind, left, mon, phase, user, reading, told>>
  BY DEF FinishRecorder, At, Advance, registryVars, userVars
<1>2. CASE Fate[w] # "abandoned"
  <2>1. Emit(w, Fate[w] = "done")
    BY <1>2 DEF FinishRecorder
  <2> QED BY <1>1, <2>1, EmitIsRecorderStep
<1>3. CASE ~(Fate[w] # "abandoned")
  <2>1. UNCHANGED <<clock, rec, notifying>>
    BY <1>3 DEF FinishRecorder
  <2>2. /\ step' \in [Workers -> {"new", "running", "ended", "over"}] /\ step'[w] = "ended"
        /\ \A v \in Workers : v # w => step'[v] = step[v]
    BY <1>1 DEF Typed, WorkersTyped
  <2>3. RecordersTyped' /\ WorkersTyped'
    BY <1>1, <2>1, <2>2 DEF RecordersTyped, WorkersTyped, Typed
  <2> QED BY <1>1, <2>1, <2>2, <2>3 DEF RecorderStep, StaysQuiet
<1> QED BY <1>2, <1>3

LEMMA DestroyIsRecorderStep ==
    ASSUME Typed, RecorderProtocol, NEW w \in Workers, DestroyRecorder(w)
    PROVE  RecorderStep(w)
<1>1. /\ step[w] = "ended" /\ notifying[w] = "none" /\ step' = [step EXCEPT ![w] = "over"]
      /\ UNCHANGED <<count, entries, monKind, left, mon, phase, user, reading, told>>
      /\ Emit(w, FALSE)
  BY DEF DestroyRecorder, At, Advance, registryVars, userVars
<1> QED BY <1>1, EmitIsRecorderStep

LEMMA LargerIsNat ==
    ASSUME NEW a \in Int, NEW b \in Int
    PROVE  /\ Larger(a, b) >= a /\ Larger(a, b) >= b /\ Larger(a, b) \in {a, b} /\ Larger(a, b) \in Int
           /\ Smaller(a, b) <= a /\ Smaller(a, b) <= b /\ Smaller(a, b) \in {a, b} /\ Smaller(a, b) \in Int
BY DEF Larger, Smaller

LEMMA TrackerStartEffect ==
    ASSUME NEW b \in TrackerType, NEW t \in Nat
    PROVE  LET n == TrackerStart(b, t)
           IN  /\ n \in TrackerType /\ n.inFlight = b.inFlight + 1
               /\ n.closed = b.closed /\ n.emitted = b.emitted /\ n.pending = b.pending
               /\ n.lastClosed = b.lastClosed
               /\ b.inFlight = 0 => n.since = Larger(t, b.lastClosed)
               /\ b.inFlight # 0 => n.since = Smaller(b.since, Larger(t, b.lastClosed))
<1>1. PICK s : s = IF b.inFlight = 0 THEN Larger(t, b.lastClosed) ELSE Smaller(b.since, Larger(t, b.lastClosed))
  OBVIOUS
<1>2. Larger(t, b.lastClosed) \in Nat
  BY DEF Larger, TrackerType
<1>3. s \in Nat
  BY <1>1, <1>2 DEF Smaller, TrackerType
<1>4. TrackerStart(b, t) = [b EXCEPT !.since = s, !.inFlight = b.inFlight + 1]
  BY <1>1 DEF TrackerStart
<1>5. /\ b.inFlight = 0 => s = Larger(t, b.lastClosed)
      /\ b.inFlight # 0 => s = Smaller(b.since, Larger(t, b.lastClosed))
  BY <1>1
<1>6. PICK k : k = b.inFlight + 1
  OBVIOUS
<1>7. k \in Nat
  BY <1>6 DEF TrackerType
<1>8. PICK n : n = [b EXCEPT !.since = s, !.inFlight = k]
  OBVIOUS
<1>9. /\ n \in TrackerType /\ n.inFlight = k
      /\ n.closed = b.closed /\ n.emitted = b.emitted /\ n.pending = b.pending
      /\ n.lastClosed = b.lastClosed /\ n.since = s
  BY <1>3, <1>7, <1>8 DEF TrackerType
<1>10. n = TrackerStart(b, t)
  BY <1>4, <1>6, <1>8
<1> HIDE <1>4, <1>8
<1> QED BY <1>5, <1>6, <1>9, <1>10

LEMMA TrackerFinishEffect ==
    ASSUME NEW b \in TrackerType, NEW t \in Nat
    PROVE  LET n == TrackerFinish(b, t)
           IN  /\ n \in TrackerType /\ n.emitted = b.emitted /\ n.since = b.since
               /\ b.inFlight = 0 => n = b
               /\ b.inFlight > 0 => n.inFlight = b.inFlight - 1
               /\ b.inFlight > 1 => /\ n.pending = Larger(b.pending, t) /\ n.closed = b.closed
                                    /\ n.lastClosed = b.lastClosed
               /\ b.inFlight = 1 =>
                     /\ n.pending = 0 /\ n.closed = b.closed + Larger(0, Larger(b.pending, t) - b.since)
                     /\ n.lastClosed = Larger(b.lastClosed, Larger(b.pending, t))
<1>1. PICK last : last = Larger(b.pending, t)
  OBVIOUS
<1>2. last \in Nat
  BY <1>1 DEF Larger, TrackerType
<1>3. PICK d : d = Larger(0, last - b.since)
  OBVIOUS
<1>4. PICK l : l = Larger(b.lastClosed, last)
  OBVIOUS
<1>5. d \in Nat /\ l \in Nat
  BY <1>2, <1>3, <1>4 DEF Larger, TrackerType
<1>6. TrackerFinish(b, t) =
        IF b.inFlight = 0 THEN b
        ELSE IF b.inFlight > 1 THEN [b EXCEPT !.pending = last, !.inFlight = b.inFlight - 1]
        ELSE [b EXCEPT !.inFlight = 0, !.pending = 0, !.closed = b.closed + d, !.lastClosed = l]
  BY <1>1, <1>3, <1>4 DEF TrackerFinish
<1>7. CASE b.inFlight = 0
  BY <1>6, <1>7
<1>8. CASE b.inFlight > 1
  <2>1. TrackerFinish(b, t) = [b EXCEPT !.pending = last, !.inFlight = b.inFlight - 1]
    BY <1>6, <1>8
  <2>2. b.inFlight - 1 \in Nat
    BY <1>8 DEF TrackerType
  <2>3. PICK n : n = [b EXCEPT !.pending = last, !.inFlight = b.inFlight - 1]
    OBVIOUS
  <2>4. /\ n \in TrackerType /\ n.emitted = b.emitted /\ n.since = b.since
        /\ n.inFlight = b.inFlight - 1 /\ n.pending = last /\ n.closed = b.closed
        /\ n.lastClosed = b.lastClosed
    BY <1>2, <2>2, <2>3 DEF TrackerType
  <2>5. n = TrackerFinish(b, t)
    BY <2>1, <2>3
  <2> HIDE <2>1, <2>3, <1>6
  <2> QED BY <1>1, <1>8, <2>4, <2>5 DEF TrackerType
<1>9. CASE b.inFlight = 1
  <2>1. TrackerFinish(b, t) = [b EXCEPT !.inFlight = 0, !.pending = 0, !.closed = b.closed + d, !.lastClosed = l]
    BY <1>6, <1>9
  <2>2. b.closed + d \in Nat
    BY <1>5 DEF TrackerType
  <2>3. PICK n : n = [b EXCEPT !.inFlight = 0, !.pending = 0, !.closed = b.closed + d, !.lastClosed = l]
    OBVIOUS
  <2>4. /\ n \in TrackerType /\ n.emitted = b.emitted /\ n.since = b.since
        /\ n.inFlight = 0 /\ n.pending = 0 /\ n.closed = b.closed + d /\ n.lastClosed = l
    BY <1>5, <2>2, <2>3 DEF TrackerType
  <2>5. n = TrackerFinish(b, t)
    BY <2>1, <2>3
  <2> HIDE <2>1, <2>3, <1>6
  <2> QED BY <1>1, <1>3, <1>4, <1>9, <2>4, <2>5
<1> QED BY <1>7, <1>8, <1>9 DEF TrackerType

LEMMA TrackerTypes ==
    ASSUME NEW b \in TrackerType, NEW t \in Nat
    PROVE  /\ TrackerStart(b, t) \in TrackerType /\ TrackerFinish(b, t) \in TrackerType
           /\ TrackerReset(b, t) \in TrackerType /\ TrackerRead(b, t) \in TrackerType
<1>1. TrackerStart(b, t) \in TrackerType
  BY TrackerStartEffect
<1>2. TrackerFinish(b, t) \in TrackerType
  BY TrackerFinishEffect
<1>3. TrackerReset(b, t) \in TrackerType
  BY DEF TrackerReset, TrackerType
<1>4. TrackerReadAsIs(b, t).emitted \in Nat
  BY DEF TrackerReadAsIs, TrackerType, Larger
<1>5. TrackerRead(b, t) \in TrackerType
  BY <1>4 DEF TrackerRead, TrackerType, Larger
<1> QED BY <1>1, <1>2, <1>3, <1>5

\* A callback leaves the stamps alone.
SameStamps(n, m) == /\ n.start = m.start /\ n.registered = m.registered /\ n.stoppedEnd = m.stoppedEnd
                    /\ n.base = m.base /\ n.final = m.final

LEMMA StartCallback ==
    ASSUME NEW m \in MonitorType, NEW obs, obs.start \in Nat
    PROVE  /\ MonitorOnStart(m, obs) \in MonitorType /\ SameStamps(MonitorOnStart(m, obs), m)
           /\ MonitorOnStart(m, obs).totals = m.totals
           /\ obs.start < m.registered => MonitorOnStart(m, obs) = m
           /\ ~(obs.start < m.registered) =>
                 MonitorOnStart(m, obs).busy = TrackerStart(m.busy, obs.start)
<1>1. TrackerStart(m.busy, obs.start) \in TrackerType
  BY TrackerTypes DEF MonitorType
<1> QED BY <1>1 DEF MonitorOnStart, MonitorType, SameStamps

LEMMA FinishCallback ==
    ASSUME NEW m \in MonitorType, NEW obs, obs.start \in Nat, obs.end \in Nat, obs.bytes \in Nat
    PROVE  /\ MonitorOnFinish(m, obs) \in MonitorType /\ SameStamps(MonitorOnFinish(m, obs), m)
           /\ obs.start < m.registered => MonitorOnFinish(m, obs) = m
           /\ ~(obs.start < m.registered) =>
                 /\ MonitorOnFinish(m, obs).busy = TrackerFinish(m.busy, obs.end)
                 /\ obs.start < m.start => MonitorOnFinish(m, obs).totals = m.totals
                 /\ ~(obs.start < m.start) =>
                       /\ MonitorOnFinish(m, obs).totals.ops = m.totals.ops + 1
                       /\ obs.ok => MonitorOnFinish(m, obs).totals.errors = m.totals.errors
                       /\ ~obs.ok => MonitorOnFinish(m, obs).totals.errors = m.totals.errors + 1
<1>1. TrackerFinish(m.busy, obs.end) \in TrackerType
  BY TrackerTypes DEF MonitorType
<1>2. PICK c : c = CountObservation(m.totals, obs)
  OBVIOUS
<1>3. Larger(0, obs.end - obs.start) \in Nat
  BY DEF Larger
<1>4. c = [ops    |-> m.totals.ops + 1,
           errors |-> m.totals.errors + IF obs.ok THEN 0 ELSE 1,
           bytes  |-> m.totals.bytes + obs.bytes,
           spent  |-> m.totals.spent + Larger(0, obs.end - obs.start)]
  BY <1>2 DEF CountObservation
<1>5. m.totals \in TotalsType
  BY DEF MonitorType
<1>6. /\ c \in TotalsType /\ c.ops = m.totals.ops + 1 
  BY <1>3, <1>4, <1>5 DEF TotalsType
<1>7. /\ obs.ok => c.errors = m.totals.errors
      /\ ~obs.ok => c.errors = m.totals.errors + 1
  BY <1>4, <1>5 DEF TotalsType
<1>8. MonitorOnFinish(m, obs) = 
        IF obs.start < m.registered THEN m
        ELSE [m EXCEPT !.busy = TrackerFinish(m.busy, obs.end),
                       !.totals = IF obs.start < m.start THEN m.totals ELSE c]
  BY <1>2 DEF MonitorOnFinish
<1> HIDE <1>2, <1>4
<1>9. PICK b : b = TrackerFinish(m.busy, obs.end)
  OBVIOUS
<1>10. PICK c2 : c2 = IF obs.start < m.start THEN m.totals ELSE c
  OBVIOUS
<1>11. c2 \in TotalsType /\ (obs.start < m.start => c2 = m.totals) /\ (~(obs.start < m.start) => c2 = c)
  BY <1>5, <1>6, <1>10
<1>12. PICK n : n = [m EXCEPT !.busy = b, !.totals = c2]
  OBVIOUS
<1>13. n \in MonitorType /\ SameStamps(n, m) /\ n.busy = b /\ n.totals = c2
  BY <1>1, <1>9, <1>11, <1>12 DEF MonitorType, SameStamps
<1>14. MonitorOnFinish(m, obs) = IF obs.start < m.registered THEN m ELSE n
  BY <1>8, <1>9, <1>10, <1>12
<1>15. CASE obs.start < m.registered
  BY <1>14, <1>15 DEF SameStamps
<1>16. CASE ~(obs.start < m.registered)
  BY <1>6, <1>7, <1>9, <1>11, <1>13, <1>14, <1>16
<1> QED BY <1>15, <1>16

LEMMA ReadEffect ==
    ASSUME NEW m \in MonitorType, NEW t \in Nat
    PROVE  /\ AfterRead(m, t) \in MonitorType /\ SameStamps(AfterRead(m, t), m)
           /\ AfterRead(m, t).totals = m.totals /\ ReadEnd(m, t) \in Nat
           /\ AfterRead(m, t).busy = TrackerRead(m.busy, ReadEnd(m, t))
<1>1. ReadEnd(m, t) \in Nat
  BY DEF ReadEnd, MonitorType
<1>2. TrackerRead(m.busy, ReadEnd(m, t)) \in TrackerType
  BY <1>1, TrackerTypes DEF MonitorType
<1> QED BY <1>1, <1>2 DEF AfterRead, MonitorType, SameStamps

LEMMA StampEffect ==
    ASSUME NEW m \in MonitorType, NEW t \in Nat, NEW c \in Nat
    PROVE  /\ StampMonitor(m, t, c) \in MonitorType
           /\ StampMonitor(m, t, c).start = t /\ StampMonitor(m, t, c).registered = t
           /\ StampMonitor(m, t, c).stoppedEnd = m.stoppedEnd /\ StampMonitor(m, t, c).totals = m.totals
           /\ StampMonitor(m, t, c).busy = TrackerReset(m.busy, t)
<1>1. TrackerReset(m.busy, t) \in TrackerType
  BY TrackerTypes DEF MonitorType
<1> QED BY <1>1 DEF StampMonitor, MonitorType

LEMMA ResetEffect ==
    ASSUME NEW m \in MonitorType, NEW t \in Nat, NEW c \in Nat
    PROVE  /\ MonitorReset(m, t, c) \in MonitorType
           /\ MonitorReset(m, t, c).start = t /\ MonitorReset(m, t, c).registered = m.registered
           /\ MonitorReset(m, t, c).stoppedEnd = m.stoppedEnd /\ MonitorReset(m, t, c).totals = NoTotals
           /\ MonitorReset(m, t, c).busy = TrackerReset(m.busy, t)
<1>1. TrackerReset(m.busy, t) \in TrackerType
  BY TrackerTypes DEF MonitorType
<1>2. NoTotals \in TotalsType
  BY DEF NoTotals, TotalsType
<1> QED BY <1>1, <1>2 DEF MonitorReset, MonitorType

\* A notification begins: it takes the lock with every subscriber to call, or ends at the gate.
NotifyStep(w) ==
    /\ UNCHANGED <<clock, count, entries, monKind, step, rec, mon, phase, user, reading, told>>
    /\ notifying[w] # "none" /\ left[w] = {}
    /\ left'[w] = {m \in entries : monKind[m] = KindOf[w]}
    /\ \/ left'[w] = {} /\ notifying'[w] = "none"
       \/ left'[w] # {} /\ notifying'[w] = notifying[w]
    /\ \A v \in Workers : v # w => left'[v] = left[v] /\ notifying'[v] = notifying[v]
    /\ WorkersTyped'

LEMMA BeginIsNotifyStep ==
    ASSUME Typed, NEW w \in Workers, BeginNotify(w)
    PROVE  NotifyStep(w)
<1>1. PICK s : s = {m \in entries : monKind[m] = KindOf[w]}
  OBVIOUS
<1>2. /\ notifying[w] # "none" /\ left[w] = {}
      /\ left' = [left EXCEPT ![w] = s]
      /\ notifying' = [notifying EXCEPT ![w] = IF s = {} THEN "none" ELSE notifying[w]]
      /\ UNCHANGED <<clock, count, entries, monKind, step, rec, mon, phase, user, reading, told>>
  BY <1>1, Zenon DEF BeginNotify, registryVars, userVars
<1>3. WorkersTyped /\ s \subseteq Monitors
  BY <1>1 DEF Typed, MonitorsTyped
<1>4. /\ left' \in [Workers -> SUBSET Monitors] /\ left'[w] = s
      /\ \A v \in Workers : v # w => left'[v] = left[v]
  BY <1>2, <1>3 DEF WorkersTyped
<1>5. /\ notifying' \in [Workers -> {"none", "start", "finish"}]
      /\ notifying'[w] = IF s = {} THEN "none" ELSE notifying[w]
      /\ \A v \in Workers : v # w => notifying'[v] = notifying[v]
  BY <1>2, <1>3 DEF WorkersTyped
<1>6. WorkersTyped'
  BY <1>2, <1>3, <1>4, <1>5 DEF WorkersTyped
<1> QED BY <1>1, <1>2, <1>4, <1>5, <1>6 DEF NotifyStep

\* One callback: the monitor takes the start or the end of the operation.
CallStep(w, m) ==
    /\ UNCHANGED <<clock, count, entries, monKind, step, rec, phase, user, reading>>
    /\ m \in left[w] /\ left'[w] = left[w] \ {m}
    /\ \/ left'[w] = {} /\ notifying'[w] = "none"
       \/ left'[w] # {} /\ notifying'[w] = notifying[w]
    /\ \A v \in Workers : v # w => left'[v] = left[v] /\ notifying'[v] = notifying[v]
    /\ \A x \in Monitors : x # m => mon'[x] = mon[x]
    /\ \A x \in Monitors, v \in Workers : x # m \/ v # w => told'[x][v] = told[x][v]
    /\ \/ /\ notifying[w] = "start" /\ mon'[m] = MonitorOnStart(mon[m], rec[w])
          /\ told'[m][w].start = told[m][w].start + 1 /\ told'[m][w].finish = told[m][w].finish
       \/ /\ notifying[w] = "finish" /\ mon'[m] = MonitorOnFinish(mon[m], rec[w])
          /\ told'[m][w].start = told[m][w].start /\ told'[m][w].finish = told[m][w].finish + 1
    /\ SameStamps(mon'[m], mon[m])
    /\ WorkersTyped' /\ MonitorsTyped'

LEMMA CallbackIsCallStep ==
    ASSUME Typed, NotifyProtocol, NEW w \in Workers, NEW m \in Monitors, Callback(w, m)
    PROVE  CallStep(w, m)
<1>1. /\ m \in left[w]
      /\ left' = [left EXCEPT ![w] = left[w] \ {m}]
      /\ notifying' = [notifying EXCEPT ![w] = IF left[w] = {m} THEN "none" ELSE notifying[w]]
      /\ mon' = [mon EXCEPT ![m] = IF notifying[w] = "start" THEN MonitorOnStart(mon[m], rec[w])
                                                            ELSE MonitorOnFinish(mon[m], rec[w])]
      /\ told' = [told EXCEPT ![m][w][notifying[w]] = @ + 1]
      /\ UNCHANGED <<clock, count, entries, monKind, step, rec, phase, user, reading>>
  BY Zenon DEF Callback, registryVars, userVars
<1>2. RecordersTyped /\ WorkersTyped /\ MonitorsTyped
  BY DEF Typed
<1>3. notifying[w] \in {"start", "finish"}
  BY <1>1, <1>2 DEF NotifyProtocol, WorkersTyped
<1>4. /\ left' \in [Workers -> SUBSET Monitors] /\ left'[w] = left[w] \ {m}
      /\ \A v \in Workers : v # w => left'[v] = left[v]
  BY <1>1, <1>2 DEF WorkersTyped
<1>5. /\ notifying' \in [Workers -> {"none", "start", "finish"}]
      /\ notifying'[w] = IF left[w] = {m} THEN "none" ELSE notifying[w]
      /\ \A v \in Workers : v # w => notifying'[v] = notifying[v]
  BY <1>1, <1>2 DEF WorkersTyped
<1>6. \/ left'[w] = {} /\ notifying'[w] = "none"
      \/ left'[w] # {} /\ notifying'[w] = notifying[w]
  BY <1>1, <1>4, <1>5
<1>7. WorkersTyped'
  BY <1>1, <1>2, <1>4, <1>5 DEF WorkersTyped
<1>8. mon[m] \in MonitorType /\ rec[w].start \in Nat /\ rec[w].end \in Nat /\ rec[w].bytes \in Nat
  BY <1>2 DEF MonitorsTyped, RecordersTyped
<1>9. PICK n : n = IF notifying[w] = "start" THEN MonitorOnStart(mon[m], rec[w])
                                             ELSE MonitorOnFinish(mon[m], rec[w])
  OBVIOUS
<1>10. n \in MonitorType /\ SameStamps(n, mon[m])
  BY <1>8, <1>9, StartCallback, FinishCallback
<1>11. /\ mon' \in [Monitors -> MonitorType] /\ mon'[m] = n
       /\ \A x \in Monitors : x # m => mon'[x] = mon[x]
  <2>1. mon' = [mon EXCEPT ![m] = n]
    BY <1>1, <1>9
  <2> HIDE <1>1, <1>9
  <2> QED BY <2>1, <1>2, <1>10 DEF MonitorsTyped
<1>12. told \in [Monitors -> [Workers -> [start : Nat, finish : Nat]]]
  BY <1>2 DEF MonitorsTyped
<1>13. CASE notifying[w] = "start"
  <2>1. told' = [told EXCEPT ![m][w]["start"] = @ + 1]
    BY <1>1, <1>13
  <2>2. /\ told' \in [Monitors -> [Workers -> [start : Nat, finish : Nat]]]
        /\ \A x \in Monitors, v \in Workers : x # m \/ v # w => told'[x][v] = told[x][v]
        /\ told'[m][w].start = told[m][w].start + 1 /\ told'[m][w].finish = told[m][w].finish
    <3> HIDE <1>1
    <3> QED BY <2>1, <1>12
  <2>3. mon'[m] = MonitorOnStart(mon[m], rec[w])
    BY <1>9, <1>11, <1>13
  <2>4. MonitorsTyped'
    BY <1>1, <1>2, <1>11, <2>2 DEF MonitorsTyped
  <2>5. SameStamps(mon'[m], mon[m])
    BY <1>10, <1>11
  <2> QED BY <1>1, <1>4, <1>5, <1>6, <1>7, <1>11, <1>13, <2>2, <2>3, <2>4, <2>5 DEF CallStep
<1>14. CASE notifying[w] = "finish"
  <2>1. told' = [told EXCEPT ![m][w]["finish"] = @ + 1]
    BY <1>1, <1>14
  <2>2. /\ told' \in [Monitors -> [Workers -> [start : Nat, finish : Nat]]]
        /\ \A x \in Monitors, v \in Workers : x # m \/ v # w => told'[x][v] = told[x][v]
        /\ told'[m][w].start = told[m][w].start /\ told'[m][w].finish = told[m][w].finish + 1
    <3> HIDE <1>1
    <3> QED BY <2>1, <1>12
  <2>3. mon'[m] = MonitorOnFinish(mon[m], rec[w])
    BY <1>9, <1>11, <1>14
  <2>4. MonitorsTyped'
    BY <1>1, <1>2, <1>11, <2>2 DEF MonitorsTyped
  <2>5. SameStamps(mon'[m], mon[m])
    BY <1>10, <1>11
  <2> QED BY <1>1, <1>4, <1>5, <1>6, <1>7, <1>11, <1>14, <2>2, <2>3, <2>4, <2>5 DEF CallStep
<1> QED BY <1>3, <1>13, <1>14

\* A step of thread u on monitor m: everything else stays.
Touches(u, m) ==
    /\ UNCHANGED <<monKind, step, rec, notifying, left, told>>
    /\ clock' \in {clock, clock + 1}
    /\ \A x \in Monitors : x # m => /\ mon'[x] = mon[x] /\ phase'[x] = phase[x]
                                    /\ reading'[x] = reading[x] /\ (x \in entries' <=> x \in entries)
    /\ \A v \in Users : v # u => user'[v] = user[v]
    /\ Typed'

Registers(u, m) ==
    /\ Touches(u, m) /\ user[u].op = "idle" /\ phase[m] = "none" /\ Readers = {}
    /\ m \in entries' /\ phase'[m] = "registered" /\ user'[u].op = "construct" /\ user'[u].on = m
    /\ UNCHANGED <<clock, mon, reading>>
Stamps(u, m) ==
    /\ Touches(u, m) /\ user[u].op = "construct" /\ user[u].on = m
    /\ clock' = clock + 1 /\ mon'[m] = StampMonitor(mon[m], clock + 1, count)
    /\ phase'[m] = "live" /\ user'[u].op = "idle" /\ UNCHANGED <<entries, reading>>
\* The counters are read, by get() or by stop().
Asks(u, m) ==
    /\ Touches(u, m) /\ user'[u].on = m /\ UNCHANGED <<clock, entries, mon, phase, reading>>
    /\ \/ user[u].op = "idle" /\ phase[m] \in {"live", "draining", "stopped"} /\ user'[u].op = "get"
       \/ user[u].op = "stop" /\ user[u].on = m /\ user'[u].op = "stamp"
Reads(u, m) ==
    /\ Touches(u, m) /\ user[u].op = "get" /\ user[u].on = m
    /\ clock' = clock + 1 /\ mon'[m] = AfterRead(mon[m], clock + 1)
    /\ reading'[m] = Summary(mon[m], clock + 1, user[u].count)
    /\ user'[u].op = "idle" /\ UNCHANGED <<entries, phase>>
Resets(u, m) ==
    /\ Touches(u, m) /\ user[u].op = "idle" /\ phase[m] \in {"live", "draining", "stopped"}
    /\ clock' = clock + 1 /\ mon'[m] = MonitorReset(mon[m], clock + 1, count)
    /\ UNCHANGED <<entries, phase, user, reading>>
Stops(u, m) ==
    /\ Touches(u, m) /\ user[u].op = "idle" /\ phase[m] = "live" /\ Readers = {}
    /\ m \notin entries' /\ phase'[m] = "draining" /\ user'[u].op = "stop" /\ user'[u].on = m
    /\ UNCHANGED <<clock, mon, reading>>
Seals(u, m) ==
    /\ Touches(u, m) /\ user[u].op = "stamp" /\ user[u].on = m
    /\ clock' = clock + 1 /\ phase'[m] = "stopped" /\ user'[u].op = "idle"
    /\ mon'[m] \in MonitorType /\ mon'[m].stoppedEnd = clock + 1 /\ mon'[m].start = mon[m].start
    /\ mon'[m].registered = mon[m].registered /\ mon'[m].totals = mon[m].totals
    /\ mon'[m].busy = mon[m].busy /\ mon'[m].base = mon[m].base
    /\ UNCHANGED <<entries, reading>>
Destroys(u, m) ==
    /\ Touches(u, m) /\ user[u].op = "idle" /\ phase[m] = "stopped"
    /\ \A v \in Users : user[v].on # m
    /\ phase'[m] = "destroyed" /\ reading'[m] = Summary(mon[m], clock, count)
    /\ UNCHANGED <<clock, entries, mon, user>>

LEMMA FreeIsIdle ==
    ASSUME NEW u, Free(u)
    PROVE  user[u].op = "idle"
BY DEF Free, Idle

LEMMA IdleIsTyped ==
    Idle.op = "idle" /\ DOMAIN Idle = {"op", "on", "count"} /\ Idle.count = 0
BY DEF Idle

\* The threads keep their type when one of them is given a turn or becomes idle.
LEMMA TurnTyped ==
    ASSUME Typed, NEW u \in Users, NEW m \in Monitors, NEW c \in Nat, DOMAIN reading' = Monitors,
           NEW op \in {"construct", "get", "stop", "stamp"}, Turn(u, op, m, c)
    PROVE  /\ UsersTyped' /\ user'[u].op = op /\ user'[u].on = m
           /\ \A v \in Users : v # u => user'[v] = user[v]
<1>1. PICK t : t = [op |-> op, on |-> m, count |-> c]
  OBVIOUS
<1>2. t.op = op /\ t.on = m /\ t.count = c /\ DOMAIN t = {"op", "on", "count"}
  BY <1>1
<1>3. user' = [user EXCEPT ![u] = t]
  BY <1>1 DEF Turn
<1>4. UsersTyped
  BY DEF Typed
<1> HIDE <1>1
<1>5. DOMAIN user' = Users /\ user'[u] = t /\ \A v \in Users : v # u => user'[v] = user[v]
  BY <1>3, <1>4 DEF UsersTyped
<1> HIDE <1>3
<1>6. \A v \in Users : /\ DOMAIN user'[v] = {"op", "on", "count"}
                       /\ user'[v].op \in {"idle", "construct", "get", "stop", "stamp"}
                       /\ user'[v].op # "idle" => user'[v].on \in Monitors
                       /\ user'[v].op = "idle" => user'[v] = Idle
                       /\ user'[v].count \in Nat
  <2> SUFFICES ASSUME NEW v \in Users
               PROVE  /\ DOMAIN user'[v] = {"op", "on", "count"}
                      /\ user'[v].op \in {"idle", "construct", "get", "stop", "stamp"}
                      /\ user'[v].op # "idle" => user'[v].on \in Monitors
                      /\ user'[v].op = "idle" => user'[v] = Idle
                      /\ user'[v].count \in Nat
    OBVIOUS
  <2>1. CASE v = u
    BY <1>2, <1>5, <2>1
  <2>2. CASE v # u
    BY <1>4, <1>5, <2>2 DEF UsersTyped
  <2> QED BY <2>1, <2>2
<1> QED BY <1>2, <1>5, <1>6 DEF UsersTyped

LEMMA IdleTyped ==
    ASSUME Typed, NEW u \in Users, DOMAIN reading' = Monitors, user' = [user EXCEPT ![u] = Idle]
    PROVE  /\ UsersTyped' /\ user'[u].op = "idle"
           /\ \A v \in Users : v # u => user'[v] = user[v]
<1>4. UsersTyped
  BY DEF Typed
<1>5. DOMAIN user' = Users /\ user'[u] = Idle /\ \A v \in Users : v # u => user'[v] = user[v]
  BY <1>4 DEF UsersTyped
<1>6. \A v \in Users : /\ DOMAIN user'[v] = {"op", "on", "count"}
                       /\ user'[v].op \in {"idle", "construct", "get", "stop", "stamp"}
                       /\ user'[v].op # "idle" => user'[v].on \in Monitors
                       /\ user'[v].op = "idle" => user'[v] = Idle
                       /\ user'[v].count \in Nat
  <2> SUFFICES ASSUME NEW v \in Users
               PROVE  /\ DOMAIN user'[v] = {"op", "on", "count"}
                      /\ user'[v].op \in {"idle", "construct", "get", "stop", "stamp"}
                      /\ user'[v].op # "idle" => user'[v].on \in Monitors
                      /\ user'[v].op = "idle" => user'[v] = Idle
                      /\ user'[v].count \in Nat
    OBVIOUS
  <2>1. CASE v = u
    BY <1>5, <2>1, IdleIsTyped
  <2>2. CASE v # u
    BY <1>4, <1>5, <2>2 DEF UsersTyped
  <2> QED BY <2>1, <2>2
<1> QED BY <1>5, <1>6, IdleIsTyped DEF UsersTyped

LEMMA SameWorkersTyped ==
    ASSUME Typed, UNCHANGED <<step, rec, notifying, left>>
    PROVE  RecordersTyped' /\ WorkersTyped'
BY DEF Typed, RecordersTyped, WorkersTyped

\* One monitor takes a new value, a new phase and a new reading.
LEMMA MonitorUpdated ==
    ASSUME Typed, NEW m \in Monitors, NEW n \in MonitorType, NEW p \in Phases,
           clock' \in {clock, clock + 1}, count' = count,
           entries' \subseteq Monitors, UNCHANGED <<monKind, told>>,
           mon' = [mon EXCEPT ![m] = n], phase' = [phase EXCEPT ![m] = p]
    PROVE  /\ MonitorsTyped' /\ mon'[m] = n /\ phase'[m] = p
           /\ \A x \in Monitors : x # m => mon'[x] = mon[x] /\ phase'[x] = phase[x]
<1>1. MonitorsTyped
  BY DEF Typed
<1>2. /\ mon' \in [Monitors -> MonitorType] /\ mon'[m] = n
      /\ \A x \in Monitors : x # m => mon'[x] = mon[x]
  BY <1>1 DEF MonitorsTyped
<1>3. /\ phase' \in [Monitors -> Phases] /\ phase'[m] = p
      /\ \A x \in Monitors : x # m => phase'[x] = phase[x]
  BY <1>1 DEF MonitorsTyped
<1>4. clock' \in Nat
  BY <1>1 DEF MonitorsTyped
<1>5. MonitorsTyped'
  BY <1>1, <1>2, <1>3, <1>4 DEF MonitorsTyped
<1> QED BY <1>2, <1>3, <1>5

\* What is left alone is updated with itself.
LEMMA SameMonitor ==
    ASSUME Typed, NEW m \in Monitors
    PROVE  /\ mon[m] \in MonitorType /\ phase[m] \in Phases
           /\ mon = [mon EXCEPT ![m] = mon[m]] /\ phase = [phase EXCEPT ![m] = phase[m]]
           /\ DOMAIN reading = Monitors /\ clock \in Nat /\ clock + 1 \in Nat /\ count \in Nat
           /\ entries \subseteq Monitors
BY DEF Typed, MonitorsTyped, UsersTyped

LEMMA RegisterIsRegisters ==
    ASSUME Typed, NEW u \in Users, NEW m \in Monitors, RegisterMonitor(u, m)
    PROVE  Registers(u, m)
<1>1. /\ Free(u) /\ phase[m] = "none" /\ Readers = {}
      /\ entries' = entries \cup {m} /\ phase' = [phase EXCEPT ![m] = "registered"]
      /\ Turn(u, "construct", m, 0)
      /\ UNCHANGED <<clock, count, monKind, step, rec, notifying, left, mon, reading, told>>
  BY DEF RegisterMonitor, LockExclusive, workerVars
<1>2. UsersTyped' /\ user'[u].op = "construct" /\ user'[u].on = m
      /\ \A v \in Users : v # u => user'[v] = user[v]
  BY <1>1, SameMonitor, TurnTyped
<1>3. MonitorsTyped' /\ phase'[m] = "registered"
      /\ \A x \in Monitors : x # m => mon'[x] = mon[x] /\ phase'[x] = phase[x]
  <2>1. mon' = [mon EXCEPT ![m] = mon[m]] /\ mon[m] \in MonitorType
    BY <1>1, SameMonitor
  <2>2. "registered" \in Phases /\ entries' \subseteq Monitors /\ clock' \in {clock, clock + 1}
    BY <1>1, SameMonitor DEF Phases
  <2> QED BY <1>1, <2>1, <2>2, MonitorUpdated
<1>4. Typed'
  BY <1>1, <1>2, <1>3, SameWorkersTyped DEF Typed
<1>5. Touches(u, m)
  BY <1>1, <1>2, <1>3, <1>4 DEF Touches
<1> QED BY <1>1, <1>2, <1>3, <1>5, FreeIsIdle DEF Registers

LEMMA StampSpanIsStamps ==
    ASSUME Typed, NEW u \in Users, StampSpan(u)
    PROVE  user[u].on \in Monitors /\ Stamps(u, user[u].on)
<1>1. PICK m : m = user[u].on
  OBVIOUS
<1>2. /\ user[u].op = "construct" /\ clock' = clock + 1
      /\ mon' = [mon EXCEPT ![m] = StampMonitor(mon[m], clock + 1, count)]
      /\ phase' = [phase EXCEPT ![m] = "live"] /\ user' = [user EXCEPT ![u] = Idle]
      /\ UNCHANGED <<count, entries, monKind, step, rec, notifying, left, reading, told>>
  BY <1>1 DEF StampSpan, workerVars, registryVars
<1>3. m \in Monitors
  BY <1>1, <1>2 DEF Typed, UsersTyped
<1>4. UsersTyped' /\ user'[u].op = "idle" /\ \A v \in Users : v # u => user'[v] = user[v]
  BY <1>2, <1>3, SameMonitor, IdleTyped
<1>5. PICK n : n = StampMonitor(mon[m], clock + 1, count)
  OBVIOUS
<1>6. n \in MonitorType
  BY <1>3, <1>5, SameMonitor, StampEffect
<1>7. MonitorsTyped' /\ mon'[m] = n /\ phase'[m] = "live"
      /\ \A x \in Monitors : x # m => mon'[x] = mon[x] /\ phase'[x] = phase[x]
  <2>1. mon' = [mon EXCEPT ![m] = n]
    BY <1>2, <1>5
  <2>2. "live" \in Phases /\ entries' \subseteq Monitors /\ clock' \in {clock, clock + 1}
    BY <1>2, <1>3, SameMonitor DEF Phases
  <2> QED BY <1>2, <1>3, <1>6, <2>1, <2>2, MonitorUpdated
<1>8. Typed'
  BY <1>2, <1>4, <1>7, SameWorkersTyped DEF Typed
<1>9. Touches(u, m)
  BY <1>2, <1>4, <1>7, <1>8 DEF Touches
<1> QED BY <1>1, <1>2, <1>3, <1>4, <1>5, <1>7, <1>9 DEF Stamps

LEMMA ReadCountersIsAsks ==
    ASSUME Typed, NEW u \in Users, NEW m \in Monitors, ReadCounters(u, m)
    PROVE  Asks(u, m)
<1>1. /\ Free(u) /\ phase[m] \in {"live", "draining", "stopped"} /\ Turn(u, "get", m, count)
      /\ UNCHANGED <<clock, count, entries, monKind, step, rec, notifying, left, mon, phase, reading, told>>
  BY DEF ReadCounters, registryVars, workerVars
<1>2. UsersTyped' /\ user'[u].op = "get" /\ user'[u].on = m
      /\ \A v \in Users : v # u => user'[v] = user[v]
  BY <1>1, SameMonitor, TurnTyped
<1>3. MonitorsTyped'
  BY <1>1 DEF Typed, MonitorsTyped
<1>4. Typed'
  BY <1>1, <1>2, <1>3, SameWorkersTyped DEF Typed
<1>5. Touches(u, m)
  BY <1>1, <1>2, <1>4 DEF Touches
<1> QED BY <1>1, <1>2, <1>5, FreeIsIdle DEF Asks

LEMMA ReadFinalIsAsks ==
    ASSUME Typed, NEW u \in Users, ReadFinal(u)
    PROVE  user[u].on \in Monitors /\ Asks(u, user[u].on)
<1>1. PICK m : m = user[u].on
  OBVIOUS
<1>2. /\ user[u].op = "stop" /\ Turn(u, "stamp", m, count)
      /\ UNCHANGED <<clock, count, entries, monKind, step, rec, notifying, left, mon, phase, reading, told>>
  BY <1>1 DEF ReadFinal, registryVars, workerVars
<1>3. m \in Monitors
  BY <1>1, <1>2 DEF Typed, UsersTyped
<1>4. UsersTyped' /\ user'[u].op = "stamp" /\ user'[u].on = m
      /\ \A v \in Users : v # u => user'[v] = user[v]
  BY <1>2, <1>3, SameMonitor, TurnTyped
<1>5. MonitorsTyped'
  BY <1>2 DEF Typed, MonitorsTyped
<1>6. Typed'
  BY <1>2, <1>4, <1>5, SameWorkersTyped DEF Typed
<1>7. Touches(u, m)
  BY <1>2, <1>4, <1>6 DEF Touches
<1>8. Asks(u, m)
  BY <1>1, <1>2, <1>4, <1>7 DEF Asks
<1> QED BY <1>1, <1>3, <1>8

LEMMA ReadTotalsIsReads ==
    ASSUME Typed, NEW u \in Users, ReadTotals(u)
    PROVE  user[u].on \in Monitors /\ Reads(u, user[u].on)
<1>1. PICK m : m = user[u].on
  OBVIOUS
<1>2. /\ user[u].op = "get" /\ clock' = clock + 1
      /\ mon' = [mon EXCEPT ![m] = AfterRead(mon[m], clock + 1)]
      /\ reading' = [reading EXCEPT ![m] = Summary(mon[m], clock + 1, user[u].count)]
      /\ user' = [user EXCEPT ![u] = Idle]
      /\ UNCHANGED <<count, entries, monKind, step, rec, notifying, left, phase, told>>
  BY <1>1 DEF ReadTotals, workerVars, registryVars
<1>3. m \in Monitors
  BY <1>1, <1>2 DEF Typed, UsersTyped
<1>10. DOMAIN reading' = Monitors /\ reading'[m] = Summary(mon[m], clock + 1, user[u].count)
       /\ \A x \in Monitors : x # m => reading'[x] = reading[x]
  <2>1. PICK s : s = Summary(mon[m], clock + 1, user[u].count)
    OBVIOUS
  <2>2. reading' = [reading EXCEPT ![m] = s]
    BY <1>2, <2>1
  <2>3. DOMAIN reading = Monitors
    BY <1>3, SameMonitor
  <2> HIDE <1>2
  <2>4. DOMAIN reading' = Monitors /\ reading'[m] = s /\ \A x \in Monitors : x # m => reading'[x] = reading[x]
    BY <1>3, <2>2, <2>3
  <2> QED BY <2>1, <2>4
<1>4. UsersTyped' /\ user'[u].op = "idle" /\ \A v \in Users : v # u => user'[v] = user[v]
  BY <1>2, <1>10, IdleTyped
<1>5. PICK n : n = AfterRead(mon[m], clock + 1)
  OBVIOUS
<1>6. n \in MonitorType
  BY <1>3, <1>5, SameMonitor, ReadEffect
<1>7. MonitorsTyped' /\ mon'[m] = n /\ \A x \in Monitors : x # m => mon'[x] = mon[x] /\ phase'[x] = phase[x]
  <2>1. mon' = [mon EXCEPT ![m] = n]
    BY <1>2, <1>5
  <2>2. entries' \subseteq Monitors /\ clock' \in {clock, clock + 1}
    BY <1>2, <1>3, SameMonitor
  <2>3. PICK p : p = phase[m]
    OBVIOUS
  <2>4. phase' = [phase EXCEPT ![m] = p] /\ p \in Phases /\ phase' = phase
    BY <2>3, <1>2, <1>3, SameMonitor
  <2>5. count' = count /\ UNCHANGED <<monKind, told>>
    BY <1>2
  <2> HIDE <1>2
  <2> QED BY ZenonT(30), <1>3, <1>6, <2>1, <2>2, <2>4, <2>5, MonitorUpdated
<1>8. Typed'
  BY <1>2, <1>4, <1>7, SameWorkersTyped DEF Typed
<1>9. Touches(u, m)
  BY <1>2, <1>4, <1>7, <1>8, <1>10 DEF Touches
<1> QED BY <1>1, <1>2, <1>3, <1>4, <1>5, <1>7, <1>9, <1>10 DEF Reads

LEMMA ResetIsResets ==
    ASSUME Typed, NEW u \in Users, NEW m \in Monitors, ResetMonitor(u, m)
    PROVE  Resets(u, m)
<1>2. /\ Free(u) /\ phase[m] \in {"live", "draining", "stopped"} /\ clock' = clock + 1
      /\ mon' = [mon EXCEPT ![m] = MonitorReset(mon[m], clock + 1, count)]
      /\ UNCHANGED <<count, entries, monKind, step, rec, notifying, left, phase, user, reading, told>>
  BY DEF ResetMonitor, workerVars, registryVars
<1>4. UsersTyped'
  BY <1>2 DEF Typed, UsersTyped
<1>5. PICK n : n = MonitorReset(mon[m], clock + 1, count)
  OBVIOUS
<1>6. n \in MonitorType
  BY <1>5, SameMonitor, ResetEffect
<1>7. MonitorsTyped' /\ mon'[m] = n /\ \A x \in Monitors : x # m => mon'[x] = mon[x] /\ phase'[x] = phase[x]
  <2>1. mon' = [mon EXCEPT ![m] = n]
    BY <1>2, <1>5
  <2>2. entries' \subseteq Monitors /\ clock' \in {clock, clock + 1}
    BY <1>2, SameMonitor
  <2>3. PICK p : p = phase[m]
    OBVIOUS
  <2>4. phase' = [phase EXCEPT ![m] = p] /\ p \in Phases /\ phase' = phase
    BY <2>3, <1>2, SameMonitor
  <2>5. count' = count /\ UNCHANGED <<monKind, told>>
    BY <1>2
  <2> HIDE <1>2
  <2> QED BY ZenonT(30), <1>6, <2>1, <2>2, <2>4, <2>5, MonitorUpdated
<1>8. Typed'
  BY <1>2, <1>4, <1>7, SameWorkersTyped DEF Typed
<1>9. Touches(u, m)
  BY <1>2, <1>7, <1>8 DEF Touches
<1> QED BY <1>2, <1>5, <1>7, <1>9, FreeIsIdle DEF Resets

LEMMA StopIsStops ==
    ASSUME Typed, NEW u \in Users, NEW m \in Monitors, StopMonitor(u, m)
    PROVE  Stops(u, m)
<1>1. /\ Free(u) /\ phase[m] = "live" /\ Readers = {}
      /\ entries' = entries \ {m} /\ phase' = [phase EXCEPT ![m] = "draining"]
      /\ Turn(u, "stop", m, 0)
      /\ UNCHANGED <<clock, count, monKind, step, rec, notifying, left, mon, reading, told>>
  BY DEF StopMonitor, LockExclusive, workerVars
<1>2. UsersTyped' /\ user'[u].op = "stop" /\ user'[u].on = m
      /\ \A v \in Users : v # u => user'[v] = user[v]
  BY <1>1, SameMonitor, TurnTyped
<1>3. MonitorsTyped' /\ phase'[m] = "draining"
      /\ \A x \in Monitors : x # m => mon'[x] = mon[x] /\ phase'[x] = phase[x]
  <2>1. mon' = [mon EXCEPT ![m] = mon[m]] /\ mon[m] \in MonitorType
    BY <1>1, SameMonitor
  <2>2. "draining" \in Phases /\ entries' \subseteq Monitors /\ clock' \in {clock, clock + 1}
    BY <1>1, SameMonitor DEF Phases
  <2> QED BY <1>1, <2>1, <2>2, MonitorUpdated
<1>4. Typed'
  BY <1>1, <1>2, <1>3, SameWorkersTyped DEF Typed
<1>5. Touches(u, m)
  BY <1>1, <1>2, <1>3, <1>4 DEF Touches
<1> QED BY <1>1, <1>2, <1>3, <1>5, FreeIsIdle DEF Stops

LEMMA StampEndIsSeals ==
    ASSUME Typed, NEW u \in Users, StampEnd(u)
    PROVE  user[u].on \in Monitors /\ Seals(u, user[u].on)
<1>1. PICK m : m = user[u].on
  OBVIOUS
<1>2. /\ user[u].op = "stamp" /\ clock' = clock + 1
      /\ mon' = [mon EXCEPT ![m].stoppedEnd = clock + 1, ![m].final = user[u].count]
      /\ phase' = [phase EXCEPT ![m] = "stopped"] /\ user' = [user EXCEPT ![u] = Idle]
      /\ UNCHANGED <<count, entries, monKind, step, rec, notifying, left, reading, told>>
  BY <1>1 DEF StampEnd, workerVars, registryVars
<1>3. m \in Monitors
  BY <1>1, <1>2 DEF Typed, UsersTyped
<1>4. UsersTyped' /\ user'[u].op = "idle" /\ \A v \in Users : v # u => user'[v] = user[v]
  BY <1>2, <1>3, SameMonitor, IdleTyped
<1>5. PICK n : n = [mon[m] EXCEPT !.stoppedEnd = clock + 1, !.final = user[u].count]
  OBVIOUS
<1>6. /\ n \in MonitorType /\ n.stoppedEnd = clock + 1 /\ n.start = mon[m].start
      /\ n.registered = mon[m].registered /\ n.totals = mon[m].totals
      /\ n.busy = mon[m].busy /\ n.base = mon[m].base
  <2>1. mon[m] \in MonitorType /\ clock + 1 \in Nat /\ user[u].count \in Nat
    BY <1>3, SameMonitor DEF Typed, UsersTyped
  <2> QED BY <1>5, <2>1 DEF MonitorType
<1>7. MonitorsTyped' /\ mon'[m] = n /\ phase'[m] = "stopped"
      /\ \A x \in Monitors : x # m => mon'[x] = mon[x] /\ phase'[x] = phase[x]
  <2>1. mon' = [mon EXCEPT ![m] = n]
    <3>1. mon \in [Monitors -> MonitorType]
      BY DEF Typed, MonitorsTyped
    <3> QED BY <1>2, <1>3, <1>5, <3>1
  <2>2. "stopped" \in Phases /\ entries' \subseteq Monitors /\ clock' \in {clock, clock + 1}
    BY <1>2, <1>3, SameMonitor DEF Phases
  <2> QED BY <1>2, <1>3, <1>6, <2>1, <2>2, MonitorUpdated
<1>8. Typed'
  BY <1>2, <1>4, <1>7, SameWorkersTyped DEF Typed
<1>9. Touches(u, m)
  BY <1>2, <1>4, <1>7, <1>8 DEF Touches
<1> HIDE <1>5
<1>10. Seals(u, m)
  BY <1>1, <1>2, <1>4, <1>6, <1>7, <1>9 DEF Seals
<1> QED BY <1>1, <1>3, <1>10

LEMMA DestroyIsDestroys ==
    ASSUME Typed, NEW u \in Users, NEW m \in Monitors, DestroyMonitor(u, m)
    PROVE  Destroys(u, m)
<1>1. /\ Free(u) /\ phase[m] = "stopped" /\ \A v \in Users : user[v].on # m
      /\ phase' = [phase EXCEPT ![m] = "destroyed"]
      /\ reading' = [reading EXCEPT ![m] = Summary(mon[m], clock, count)]
      /\ UNCHANGED <<clock, count, entries, monKind, step, rec, notifying, left, mon, user, told>>
  BY DEF DestroyMonitor, registryVars, workerVars
<1>2. DOMAIN reading' = Monitors /\ reading'[m] = Summary(mon[m], clock, count)
      /\ \A x \in Monitors : x # m => reading'[x] = reading[x]
  <2>1. PICK s : s = Summary(mon[m], clock, count)
    OBVIOUS
  <2>2. reading' = [reading EXCEPT ![m] = s]
    BY <1>1, <2>1
  <2>3. DOMAIN reading = Monitors
    BY SameMonitor
  <2> HIDE <1>1
  <2>4. DOMAIN reading' = Monitors /\ reading'[m] = s /\ \A x \in Monitors : x # m => reading'[x] = reading[x]
    BY <2>2, <2>3
  <2> QED BY <2>1, <2>4
<1>3. UsersTyped'
  BY <1>1, <1>2 DEF Typed, UsersTyped
<1>4. MonitorsTyped' /\ phase'[m] = "destroyed"
      /\ \A x \in Monitors : x # m => mon'[x] = mon[x] /\ phase'[x] = phase[x]
  <2>1. mon' = [mon EXCEPT ![m] = mon[m]] /\ mon[m] \in MonitorType
    BY <1>1, SameMonitor
  <2>2. "destroyed" \in Phases /\ entries' \subseteq Monitors /\ clock' \in {clock, clock + 1}
    BY <1>1, SameMonitor DEF Phases
  <2> QED BY <1>1, <2>1, <2>2, MonitorUpdated
<1>5. Typed'
  BY <1>1, <1>3, <1>4, SameWorkersTyped DEF Typed
<1>6. Touches(u, m)
  BY <1>1, <1>2, <1>4, <1>5 DEF Touches
<1> QED BY <1>1, <1>2, <1>4, <1>6, FreeIsIdle DEF Destroys

Still == /\ UNCHANGED <<clock, entries, monKind, step, rec, notifying, left, mon, phase, user, reading, told>>
         /\ count' \in Nat

UserStepOn(u, m) ==
    \/ Registers(u, m) \/ Stamps(u, m) \/ Asks(u, m) \/ Reads(u, m)
    \/ Resets(u, m) \/ Stops(u, m) \/ Seals(u, m) \/ Destroys(u, m)

LEMMA StepKinds ==
    ASSUME Typed, RecorderProtocol, NotifyProtocol, [Next]_vars
    PROVE  \/ Still
           \/ \E w \in Workers : RecorderStep(w) \/ NotifyStep(w) \/ \E m \in Monitors : CallStep(w, m)
           \/ \E u \in Users, m \in Monitors : UserStepOn(u, m)
<1>1. CASE CountEvent
  <2>1. Still
    BY <1>1 DEF CountEvent, Still, registryVars, workerVars, userVars, Typed, MonitorsTyped
  <2> QED BY <2>1
<1>2. CASE UNCHANGED vars
  <2>1. Still
    BY <1>2 DEF Still, vars, registryVars, workerVars, userVars, Typed, MonitorsTyped
  <2> QED BY <2>1
<1>3. CASE \E w \in Workers : WorkerStep(w)
  <2>1. PICK w \in Workers : WorkerStep(w)
    BY <1>3
  <2>2. CASE BuildRecorder(w) \/ FinishRecorder(w) \/ DestroyRecorder(w)
    BY <2>2, BuildIsRecorderStep, FinishIsRecorderStep, DestroyIsRecorderStep
  <2>3. CASE BeginNotify(w)
    BY <2>3, BeginIsNotifyStep
  <2>4. CASE \E m \in Monitors : Callback(w, m)
    BY <2>4, CallbackIsCallStep
  <2> QED BY <2>1, <2>2, <2>3, <2>4 DEF WorkerStep
<1>4. CASE \E u \in Users : UserStep(u)
  <2>1. PICK u \in Users : UserStep(u)
    BY <1>4
  <2>2. CASE \E m \in Monitors : \/ RegisterMonitor(u, m) \/ ReadCounters(u, m) \/ ResetMonitor(u, m)
                                 \/ StopMonitor(u, m) \/ DestroyMonitor(u, m)
    <3>1. PICK m \in Monitors : \/ RegisterMonitor(u, m) \/ ReadCounters(u, m) \/ ResetMonitor(u, m)
                                \/ StopMonitor(u, m) \/ DestroyMonitor(u, m)
      BY <2>2
    <3>2. UserStepOn(u, m)
      BY <3>1, RegisterIsRegisters, ReadCountersIsAsks, ResetIsResets, StopIsStops, DestroyIsDestroys
      DEF UserStepOn
    <3> QED BY <3>2
  <2>3. CASE StampSpan(u) \/ ReadTotals(u) \/ ReadFinal(u) \/ StampEnd(u)
    <3>1. PICK m : m = user[u].on
      OBVIOUS
    <3>2. m \in Monitors /\ UserStepOn(u, m)
      BY <2>3, <3>1, StampSpanIsStamps, ReadTotalsIsReads, ReadFinalIsAsks, StampEndIsSeals DEF UserStepOn
    <3> QED BY <3>2
  <2> QED BY <2>1, <2>2, <2>3 DEF UserStep
<1> QED BY <1>1, <1>2, <1>3, <1>4 DEF Next

-------------------------------------------------------------------------------
(* The protocol is kept.                                                   *)

LEMMA InitProtocol == Init => ObservationInv
<1> SUFFICES ASSUME Init PROVE ObservationInv
  OBVIOUS
<1> USE DEF Init
<1>1. RecordersTyped
  BY DEF RecordersTyped, NoRecorder, RecorderFields
<1>2. WorkersTyped
  BY DEF WorkersTyped
<1>3. NewMonitor \in MonitorType
  BY ObservationAssumption DEF NewMonitor, MonitorType, NoTotals, TotalsType, NewTracker, TrackerType
<1>4. MonitorsTyped
  <2>1. mon \in [Monitors -> MonitorType] /\ phase \in [Monitors -> Phases]
    BY <1>3 DEF Phases
  <2>2. told \in [Monitors -> [Workers -> [start : Nat, finish : Nat]]]
    OBVIOUS
  <2> QED BY <2>1, <2>2 DEF MonitorsTyped
<1>5. UsersTyped
  BY IdleIsTyped DEF UsersTyped
<1>6. RecorderProtocol
  BY DEF RecorderProtocol, Open, Ended, NoRecorder
<1>7. NotifyProtocol
  BY DEF NotifyProtocol
<1>8. MonitorProtocol
  BY DEF MonitorProtocol, NewMonitor
<1>9. UserProtocol
  BY IdleIsTyped DEF UserProtocol
<1> QED BY <1>1, <1>2, <1>4, <1>5, <1>6, <1>7, <1>8, <1>9 DEF ObservationInv, Typed

LEMMA StillKeepsProtocol ==
    ASSUME ObservationInv, Still
    PROVE  ObservationInv'
<1>1. RecordersTyped' /\ WorkersTyped' /\ MonitorsTyped' /\ UsersTyped'
  BY DEF ObservationInv, Typed, RecordersTyped, WorkersTyped, MonitorsTyped, UsersTyped, Still
<1>2. RecorderProtocol' /\ NotifyProtocol'
  BY DEF ObservationInv, RecorderProtocol, NotifyProtocol, Open, Ended, Still
<1>3. MonitorProtocol' /\ UserProtocol'
  BY DEF ObservationInv, MonitorProtocol, UserProtocol, Still
<1> QED BY <1>1, <1>2, <1>3 DEF ObservationInv, Typed

LEMMA RecorderKeepsProtocol ==
    ASSUME ObservationInv, NEW w \in Workers, RecorderStep(w)
    PROVE  ObservationInv'
<1>1. clock' \in {clock, clock + 1} /\ clock \in Nat
  BY DEF RecorderStep, Opens, Ends, StaysQuiet, ObservationInv, Typed, MonitorsTyped
<1>2. Typed'
  <2>1. MonitorsTyped'
    BY <1>1 DEF ObservationInv, Typed, MonitorsTyped, RecorderStep
  <2>2. UsersTyped'
    BY DEF ObservationInv, Typed, UsersTyped, RecorderStep
  <2> QED BY <2>1, <2>2 DEF Typed, RecorderStep
<1>3. RecorderProtocol'
  <2> SUFFICES ASSUME NEW v \in Workers
               PROVE  /\ step'[v] = "new" => ~Open(v)' /\ ~Ended(v)' /\ notifying'[v] = "none"
                      /\ notifying'[v] = "start" => step'[v] = "running" /\ Open(v)'
                      /\ notifying'[v] = "finish" => step'[v] \in {"ended", "over"} /\ Ended(v)'
                      /\ step'[v] = "over" => ~Open(v)'
                      /\ rec'[v].emitted => Ended(v)'
                      /\ rec'[v].start <= clock' /\ rec'[v].end <= clock'
    BY DEF RecorderProtocol
  <2>1. /\ step[v] = "new" => ~Open(v) /\ ~Ended(v) /\ notifying[v] = "none"
        /\ notifying[v] = "start" => step[v] = "running" /\ Open(v)
        /\ notifying[v] = "finish" => step[v] \in {"ended", "over"} /\ Ended(v)
        /\ step[v] = "over" => ~Open(v)
        /\ rec[v].emitted => Ended(v)
        /\ rec[v].start <= clock /\ rec[v].end <= clock
    BY DEF ObservationInv, RecorderProtocol
  <2>2. rec[v].start \in Nat /\ rec[v].end \in Nat
    BY DEF ObservationInv, Typed, RecordersTyped
  <2>3. CASE v # w
    <3>1. /\ step'[v] = step[v] /\ rec'[v] = rec[v] /\ notifying'[v] = notifying[v]
      BY <2>3 DEF RecorderStep
    <3>2. (Open(v)' <=> Open(v)) /\ (Ended(v)' <=> Ended(v))
      BY <3>1 DEF Open, Ended
    <3> QED BY <1>1, <2>1, <2>2, <3>1, <3>2
  <2>4. CASE v = w
    <3>1. CASE Opens(w)
      <4>1. rec'[w].emitted => Ended(w)'
        BY <3>1 DEF Opens, Open, Ended
      <4> QED BY <1>1, <2>1, <2>2, <2>4, <3>1, <4>1 DEF Opens
    <3>2. CASE Ends(w)
      BY <1>1, <2>1, <2>2, <2>4, <3>2 DEF Ends
    <3>3. CASE StaysQuiet(w)
      <4>1. (Open(w)' <=> Open(w)) /\ (Ended(w)' <=> Ended(w))
        BY <3>3 DEF StaysQuiet, Open, Ended
      <4>2. notifying[w] = "none"
        BY DEF RecorderStep
      <4> QED BY <1>1, <2>1, <2>2, <2>4, <3>3, <4>1, <4>2 DEF StaysQuiet
    <3> QED BY <3>1, <3>2, <3>3 DEF RecorderStep
  <2> QED BY <2>3, <2>4
<1>4. NotifyProtocol'
  BY DEF ObservationInv, NotifyProtocol, RecorderStep
<1>5. MonitorProtocol'
  <2>1. \A m \in Monitors : mon[m].start \in Nat /\ mon[m].stoppedEnd \in Nat
    BY DEF ObservationInv, Typed, MonitorsTyped, MonitorType
  <2> QED BY <1>1, <2>1 DEF ObservationInv, MonitorProtocol, RecorderStep
<1>6. UserProtocol'
  BY DEF ObservationInv, UserProtocol, RecorderStep
<1> QED BY <1>2, <1>3, <1>4, <1>5, <1>6 DEF ObservationInv

LEMMA NotifyKeepsProtocol ==
    ASSUME ObservationInv, NEW w \in Workers, NotifyStep(w)
    PROVE  ObservationInv'
<1>1. Typed'
  BY DEF ObservationInv, Typed, MonitorsTyped, RecordersTyped, UsersTyped, NotifyStep
<1>2. RecorderProtocol'
  <2>1. \A v \in Workers : (Open(v)' <=> Open(v)) /\ (Ended(v)' <=> Ended(v))
    BY DEF NotifyStep, Open, Ended
  <2>2. \A v \in Workers : notifying'[v] = notifying[v] \/ notifying'[v] = "none"
    BY DEF NotifyStep
  <2>3. UNCHANGED <<step, rec, clock>>
    BY DEF NotifyStep
  <2> QED BY <2>1, <2>2, <2>3 DEF ObservationInv, RecorderProtocol
<1>3. NotifyProtocol'
  BY DEF ObservationInv, NotifyProtocol, NotifyStep
<1>4. MonitorProtocol' /\ UserProtocol'
  BY DEF ObservationInv, MonitorProtocol, UserProtocol, NotifyStep
<1> QED BY <1>1, <1>2, <1>3, <1>4 DEF ObservationInv

LEMMA CallKeepsProtocol ==
    ASSUME ObservationInv, NEW w \in Workers, NEW m \in Monitors, CallStep(w, m)
    PROVE  ObservationInv'
<1>1. Typed'
  BY DEF ObservationInv, Typed, RecordersTyped, UsersTyped, CallStep
<1>2. RecorderProtocol'
  <2>1. \A v \in Workers : (Open(v)' <=> Open(v)) /\ (Ended(v)' <=> Ended(v))
    BY DEF CallStep, Open, Ended
  <2>2. \A v \in Workers : notifying'[v] = notifying[v] \/ notifying'[v] = "none"
    BY DEF CallStep
  <2>3. UNCHANGED <<step, rec, clock>>
    BY DEF CallStep
  <2> QED BY <2>1, <2>2, <2>3 DEF ObservationInv, RecorderProtocol
<1>3. NotifyProtocol'
  BY DEF ObservationInv, NotifyProtocol, CallStep
<1>4. MonitorProtocol'
  <2>1. \A x \in Monitors : /\ mon'[x].start = mon[x].start /\ mon'[x].registered = mon[x].registered
                            /\ mon'[x].stoppedEnd = mon[x].stoppedEnd
    BY DEF CallStep, SameStamps
  <2>2. UNCHANGED <<clock, phase, entries>>
    BY DEF CallStep
  <2> QED BY <2>1, <2>2 DEF ObservationInv, MonitorProtocol
<1>5. UserProtocol'
  BY DEF ObservationInv, UserProtocol, CallStep
<1> QED BY <1>1, <1>2, <1>3, <1>4, <1>5 DEF ObservationInv

LEMMA UserStepTouches ==
    ASSUME NEW u, NEW m, UserStepOn(u, m)
    PROVE  Touches(u, m)
BY DEF UserStepOn, Registers, Stamps, Asks, Reads, Resets, Stops, Seals, Destroys

\* The registry changes only when nobody holds its lock.
LEMMA LockProtectsEntries ==
    ASSUME Typed, NEW u \in Users, NEW m \in Monitors, UserStepOn(u, m), MonitorProtocol
    PROVE  \/ \A x \in Monitors : x \in entries => x \in entries'
           \/ \A w \in Workers : left[w] = {}
<1>1. CASE Stops(u, m)
  BY <1>1 DEF Stops, Readers
<1>2. CASE ~Stops(u, m)
  BY <1>2 DEF UserStepOn, Registers, Stamps, Asks, Reads, Resets, Seals, Destroys, Touches
<1> QED BY <1>1, <1>2

LEMMA UserKeepsMonitorProtocol ==
    ASSUME ObservationInv, NEW u \in Users, NEW m \in Monitors, UserStepOn(u, m)
    PROVE  MonitorProtocol'
<1> DEFINE Good(x) == /\ x \in entries <=> phase[x] \in {"registered", "live"}
                      /\ phase[x] \in {"none", "registered"} =>
                            mon[x].registered = Forever /\ mon[x].start = 0
                      /\ phase[x] \notin {"none", "registered"} =>
                            mon[x].registered <= mon[x].start /\ mon[x].start > 0
                      /\ mon[x].start <= clock /\ mon[x].stoppedEnd <= clock
                      /\ mon[x].stoppedEnd # 0 <=> phase[x] \in {"stopped", "destroyed"}
<1>1. \A x \in Monitors : Good(x)
  BY DEF ObservationInv, MonitorProtocol
<1>2. Touches(u, m)
  BY UserStepTouches
<1>3. clock \in Nat /\ clock' \in {clock, clock + 1}
  BY <1>2 DEF Touches, ObservationInv, Typed, MonitorsTyped
<1>4. \A x \in Monitors : mon[x] \in MonitorType
  BY DEF ObservationInv, Typed, MonitorsTyped
<1>5. ASSUME NEW x \in Monitors, x # m
      PROVE  Good(x)'
  <2>1. /\ mon'[x] = mon[x] /\ phase'[x] = phase[x] /\ (x \in entries' <=> x \in entries)
    BY <1>2, <1>5 DEF Touches
  <2>2. mon[x].start \in Nat /\ mon[x].stoppedEnd \in Nat
    BY <1>4 DEF MonitorType
  <2> QED BY <1>1, <1>3, <2>1, <2>2
<1>6. Good(m)'
  <2>1. mon[m] \in MonitorType
    BY <1>4
  <2>2. mon[m].start \in Nat /\ mon[m].stoppedEnd \in Nat /\ mon[m].registered \in Nat /\ Good(m)
        /\ clock + 1 \in Nat /\ count \in Nat /\ ObservationInv
    BY <1>1, <1>3, <2>1 DEF MonitorType, ObservationInv, Typed, MonitorsTyped
  <2>3. CASE Registers(u, m)
    BY <2>2, <2>3, <1>3 DEF Registers
  <2>4. CASE Stamps(u, m)
    <3>1. /\ mon'[m].start = clock + 1 /\ mon'[m].registered = clock + 1
          /\ mon'[m].stoppedEnd = mon[m].stoppedEnd
      <4>1. mon'[m] = StampMonitor(mon[m], clock + 1, count)
        BY <2>4 DEF Stamps
      <4>2. clock + 1 \in Nat /\ count \in Nat
        BY <2>2
      <4>3. PICK t \in Nat, c \in Nat, n \in MonitorType : t = clock + 1 /\ c = count /\ n = mon[m]
        BY <2>1, <4>2
      <4>4. PICK r : r = StampMonitor(n, t, c)
        OBVIOUS
      <4>5. r.start = t /\ r.registered = t /\ r.stoppedEnd = n.stoppedEnd
        BY ONLY <4>4, StampEffect
      <4> QED BY <4>1, <4>3, <4>4, <4>5
    <3>2. phase[m] = "registered" /\ phase'[m] = "live" /\ entries' = entries /\ clock' = clock + 1
      BY <2>4 DEF Stamps, ObservationInv, UserProtocol
    <3> QED BY <2>2, <1>3, <3>1, <3>2
  <2>5. CASE Asks(u, m)
    BY <2>2, <2>5 DEF Asks
  <2>6. CASE Reads(u, m)
    <3>1. SameStamps(mon'[m], mon[m])
      BY <2>1, <2>2, <2>6, ReadEffect DEF Reads
    <3>2. UNCHANGED <<entries, phase>>
      BY <2>6 DEF Reads
    <3> QED BY <2>2, <1>3, <3>1, <3>2 DEF SameStamps
  <2>7. CASE Resets(u, m)
    <3>1. /\ mon'[m].start = clock + 1 /\ mon'[m].registered = mon[m].registered
          /\ mon'[m].stoppedEnd = mon[m].stoppedEnd
      <4>1. mon'[m] = MonitorReset(mon[m], clock + 1, count)
        BY <2>7 DEF Resets
      <4>2. clock + 1 \in Nat /\ count \in Nat
        BY <2>2
      <4>3. PICK t \in Nat, c \in Nat, n \in MonitorType : t = clock + 1 /\ c = count /\ n = mon[m]
        BY <2>1, <4>2
      <4>4. PICK r : r = MonitorReset(n, t, c)
        OBVIOUS
      <4>5. r.start = t /\ r.registered = n.registered /\ r.stoppedEnd = n.stoppedEnd
        BY ONLY <4>4, ResetEffect
      <4> QED BY <4>1, <4>3, <4>4, <4>5
    <3>2. UNCHANGED <<entries, phase>> /\ phase[m] \in {"live", "draining", "stopped"} /\ clock' = clock + 1
      BY <2>7 DEF Resets
    <3> QED BY <2>2, <1>3, <3>1, <3>2
  <2>8. CASE Stops(u, m)
    BY <2>2, <2>8, <1>3 DEF Stops
  <2>9. CASE Seals(u, m)
    <3>1. phase[m] = "draining"
      BY <2>2, <2>9 DEF Seals, ObservationInv, UserProtocol
    <3> QED BY <2>2, <2>9, <1>3, <3>1 DEF Seals
  <2>10. CASE Destroys(u, m)
    BY <2>2, <2>10, <1>3 DEF Destroys
  <2> QED BY <2>3, <2>4, <2>5, <2>6, <2>7, <2>8, <2>9, <2>10 DEF UserStepOn
<1>7. \A x \in Monitors : Good(x)'
  BY <1>5, <1>6
<1> QED BY <1>7 DEF MonitorProtocol

LEMMA UserKeepsUserProtocol ==
    ASSUME ObservationInv, NEW u \in Users, NEW m \in Monitors, UserStepOn(u, m)
    PROVE  UserProtocol'
<1>1. Touches(u, m)
  BY UserStepTouches
<1>2. /\ \A v \in Users : v # u => user'[v] = user[v]
      /\ \A x \in Monitors : x # m => phase'[x] = phase[x]
  BY <1>1 DEF Touches
<1>3. \A v \in Users : /\ user[v].op \in {"idle", "construct", "get", "stop", "stamp"}
                       /\ user[v].op # "idle" => user[v].on \in Monitors
  BY DEF ObservationInv, Typed, UsersTyped
<1>4. UserProtocol
  BY DEF ObservationInv
<1>5. CASE Registers(u, m)
  <2>1. \A v \in Users : user[v].op # "idle" => user[v].on # m
    BY <1>3, <1>4, <1>5 DEF UserProtocol, Registers
  <2> QED BY <1>2, <1>3, <1>4, <1>5, <2>1 DEF UserProtocol, Registers
<1>6. CASE Stamps(u, m)
  <2>1. \A v \in Users : v # u /\ user[v].op # "idle" => user[v].on # m
    BY <1>3, <1>4, <1>6 DEF UserProtocol, Stamps
  <2> QED BY <1>2, <1>3, <1>4, <1>6, <2>1 DEF UserProtocol, Stamps
<1>7. CASE Asks(u, m)
  BY <1>2, <1>3, <1>4, <1>7 DEF UserProtocol, Asks
<1>8. CASE Reads(u, m)
  BY <1>2, <1>3, <1>4, <1>8 DEF UserProtocol, Reads
<1>9. CASE Resets(u, m)
  BY <1>2, <1>3, <1>4, <1>9 DEF UserProtocol, Resets
<1>10. CASE Stops(u, m)
  <2>1. \A v \in Users : user[v].op # "idle" /\ user[v].on = m => user[v].op = "get"
    BY <1>3, <1>4, <1>10 DEF UserProtocol, Stops
  <2> QED BY <1>2, <1>3, <1>4, <1>10, <2>1 DEF UserProtocol, Stops
<1>11. CASE Seals(u, m)
  <2>1. \A v \in Users : v # u /\ user[v].op # "idle" /\ user[v].on = m => user[v].op = "get"
    BY <1>3, <1>4, <1>11 DEF UserProtocol, Seals
  <2> QED BY <1>2, <1>3, <1>4, <1>11, <2>1 DEF UserProtocol, Seals
<1>12. CASE Destroys(u, m)
  BY <1>2, <1>3, <1>4, <1>12 DEF UserProtocol, Destroys
<1> QED BY <1>5, <1>6, <1>7, <1>8, <1>9, <1>10, <1>11, <1>12 DEF UserStepOn

LEMMA UserKeepsProtocol ==
    ASSUME ObservationInv, NEW u \in Users, NEW m \in Monitors, UserStepOn(u, m)
    PROVE  ObservationInv'
<1>1. Touches(u, m)
  BY UserStepTouches
<1>2. RecorderProtocol'
  <2>1. UNCHANGED <<step, rec, notifying>> /\ clock \in Nat /\ clock' \in {clock, clock + 1}
    BY <1>1 DEF Touches, ObservationInv, Typed, MonitorsTyped
  <2>2. \A v \in Workers : rec[v].start \in Nat /\ rec[v].end \in Nat
    BY DEF ObservationInv, Typed, RecordersTyped
  <2>3. \A v \in Workers : (Open(v)' <=> Open(v)) /\ (Ended(v)' <=> Ended(v))
    BY <2>1 DEF Open, Ended
  <2> QED BY <2>1, <2>2, <2>3 DEF ObservationInv, RecorderProtocol
<1>3. NotifyProtocol'
  <2>1. UNCHANGED <<left, notifying, monKind>>
    BY <1>1 DEF Touches
  <2>2. \/ \A x \in Monitors : x \in entries => x \in entries'
        \/ \A w \in Workers : left[w] = {}
    BY LockProtectsEntries DEF ObservationInv
  <2>3. left \in [Workers -> SUBSET Monitors]
    BY DEF ObservationInv, Typed, WorkersTyped
  <2> QED BY <2>1, <2>2, <2>3 DEF ObservationInv, NotifyProtocol
<1> QED BY <1>1, <1>2, <1>3, UserKeepsMonitorProtocol, UserKeepsUserProtocol DEF ObservationInv, Touches

LEMMA ProtocolStep == ObservationInv /\ [Next]_vars => ObservationInv'
<1> SUFFICES ASSUME ObservationInv, [Next]_vars PROVE ObservationInv'
  OBVIOUS
<1>1. \/ Still
      \/ \E w \in Workers : RecorderStep(w) \/ NotifyStep(w) \/ \E m \in Monitors : CallStep(w, m)
      \/ \E u \in Users, m \in Monitors : UserStepOn(u, m)
  BY StepKinds DEF ObservationInv
<1> QED BY <1>1, StillKeepsProtocol, RecorderKeepsProtocol, NotifyKeepsProtocol, CallKeepsProtocol,
           UserKeepsProtocol

LEMMA ProtocolKept == Spec => []ObservationInv
<1> QED BY InitProtocol, ProtocolStep, PTL DEF Spec

\* unregister_monitor(): once it has returned no callback of the monitor is running or about
\* to, for any number of operations, users and monitors.
THEOREM UnregisterDrains == Spec => []NoCallbackAfterUnregister
<1>1. ObservationInv => NoCallbackAfterUnregister
  BY DEF ObservationInv, NotifyProtocol, MonitorProtocol, NoCallbackAfterUnregister, Typed, WorkersTyped
<1> QED BY <1>1, ProtocolKept, PTL

-------------------------------------------------------------------------------
(* Every operation is reported once, and its end to whom its start was.    *)

\* The callback of monitor m in the notification k of operation w is still to come.
Coming(k, w, m) == notifying[w] = k /\ (left[w] = {} \/ m \in left[w])

ToldRightly(m, w) ==
    /\ told[m][w].start <= 1 /\ told[m][w].finish <= 1
    /\ told[m][w].start > 0 => /\ (Open(w) \/ Ended(w)) /\ monKind[m] = KindOf[w]
                               /\ ~Coming("start", w, m) /\ phase[m] # "none"
    /\ told[m][w].finish > 0 => /\ Ended(w) /\ monKind[m] = KindOf[w]
                                /\ ~Coming("finish", w, m) /\ phase[m] # "none"
    /\ told[m][w].start > 0 /\ m \in entries /\ Ended(w) /\ ~Coming("finish", w, m)
          => told[m][w].finish > 0
AllToldRightly == \A m \in Monitors, w \in Workers : ToldRightly(m, w)

\* A step that neither moves the operation nor calls the monitor, nor registers it.
PairStays(m, w) ==
    /\ (Open(w)' <=> Open(w)) /\ (Ended(w)' <=> Ended(w))
    /\ notifying'[w] = notifying[w] /\ left'[w] = left[w] /\ told'[m][w] = told[m][w]
    /\ monKind'[m] = monKind[m]
    /\ (phase[m] # "none" => phase'[m] # "none") /\ (m \in entries' => m \in entries)

LEMMA StayingPair ==
    ASSUME NEW m, NEW w, ToldRightly(m, w), PairStays(m, w)
    PROVE  ToldRightly(m, w)'
BY DEF ToldRightly, PairStays, Coming

LEMMA RecorderTellsRightly ==
    ASSUME ObservationInv, AllToldRightly, NEW w \in Workers, RecorderStep(w)
    PROVE  AllToldRightly'
<1> SUFFICES ASSUME NEW m \in Monitors, NEW v \in Workers
             PROVE  ToldRightly(m, v)'
  BY DEF AllToldRightly
<1>1. ToldRightly(m, v)
  BY DEF AllToldRightly
<1>2. UNCHANGED <<left, told, monKind, phase, entries>>
  BY DEF RecorderStep
<1>3. CASE v # w
  <2>1. rec'[v] = rec[v] /\ notifying'[v] = notifying[v]
    BY <1>3 DEF RecorderStep
  <2>2. PairStays(m, v)
    BY <1>2, <2>1 DEF PairStays, Open, Ended
  <2> QED BY <1>1, <2>2, StayingPair
<1>4. CASE v = w
  <2>1. notifying[w] = "none" /\ left[w] = {}
    BY DEF RecorderStep, ObservationInv, NotifyProtocol
  <2>2. told[m][w].start \in Nat /\ told[m][w].finish \in Nat
    BY DEF ObservationInv, Typed, MonitorsTyped
  <2>3. CASE Opens(w)
    BY <1>1, <1>2, <1>4, <2>1, <2>2, <2>3 DEF Opens, ToldRightly, Coming
  <2>4. CASE Ends(w)
    BY <1>1, <1>2, <1>4, <2>1, <2>2, <2>4 DEF Ends, ToldRightly, Coming
  <2>5. CASE StaysQuiet(w)
    <3>1. PairStays(m, v)
      BY <1>2, <1>4, <2>5 DEF StaysQuiet, PairStays, Open, Ended
    <3> QED BY <1>1, <3>1, StayingPair
  <2> QED BY <2>3, <2>4, <2>5 DEF RecorderStep
<1> QED BY <1>3, <1>4

LEMMA NotifyTellsRightly ==
    ASSUME ObservationInv, AllToldRightly, NEW w \in Workers, NotifyStep(w)
    PROVE  AllToldRightly'
<1> SUFFICES ASSUME NEW m \in Monitors, NEW v \in Workers
             PROVE  ToldRightly(m, v)'
  BY DEF AllToldRightly
<1>1. ToldRightly(m, v)
  BY DEF AllToldRightly
<1>2. UNCHANGED <<rec, told, monKind, phase, entries>>
  BY DEF NotifyStep
<1>3. (Open(v)' <=> Open(v)) /\ (Ended(v)' <=> Ended(v))
  BY <1>2 DEF Open, Ended
<1>4. CASE v # w
  <2>1. PairStays(m, v)
    BY <1>2, <1>3, <1>4 DEF PairStays, NotifyStep
  <2> QED BY <1>1, <2>1, StayingPair
<1>5. CASE v = w
  <2>1. told[m][w].start \in Nat /\ told[m][w].finish \in Nat
    BY DEF ObservationInv, Typed, MonitorsTyped
  <2>2. notifying[w] \in {"start", "finish"}
    BY DEF NotifyStep, ObservationInv, Typed, WorkersTyped
  <2>3. CASE notifying[w] = "start"
    <3>1. ~Ended(w)
      BY <2>3 DEF ObservationInv, RecorderProtocol, Open, Ended
    <3>2. told[m][w].start = 0 /\ told[m][w].finish = 0
      BY <1>1, <1>5, <2>1, <2>3, <3>1 DEF ToldRightly, Coming, NotifyStep
    <3> QED BY <1>1, <1>2, <1>3, <1>5, <3>2 DEF ToldRightly
  <2>4. CASE notifying[w] = "finish"
    <3>1. told[m][w].finish = 0
      BY <1>1, <1>5, <2>1, <2>4 DEF ToldRightly, Coming, NotifyStep
    <3>2. told[m][w].start > 0 /\ m \in entries => Coming("finish", w, m)'
      BY <1>1, <1>5, <2>4 DEF ToldRightly, Coming, NotifyStep
    <3>3. ~Coming("start", w, m)'
      BY <2>4 DEF NotifyStep, Coming
    <3> QED BY <1>1, <1>2, <1>3, <1>5, <3>1, <3>2, <3>3 DEF ToldRightly
  <2> QED BY <2>2, <2>3, <2>4
<1> QED BY <1>4, <1>5

LEMMA CallTellsRightly ==
    ASSUME ObservationInv, AllToldRightly, NEW w \in Workers, NEW m \in Monitors, CallStep(w, m)
    PROVE  AllToldRightly'
<1> SUFFICES ASSUME NEW x \in Monitors, NEW v \in Workers
             PROVE  ToldRightly(x, v)'
  BY DEF AllToldRightly
<1>1. ToldRightly(x, v)
  BY DEF AllToldRightly
<1>2. UNCHANGED <<rec, monKind, phase, entries>>
  BY DEF CallStep
<1>3. (Open(v)' <=> Open(v)) /\ (Ended(v)' <=> Ended(v))
  BY <1>2 DEF Open, Ended
<1>4. CASE v # w
  <2>1. PairStays(x, v)
    BY <1>2, <1>3, <1>4 DEF PairStays, CallStep
  <2> QED BY <1>1, <2>1, StayingPair
<1>5. CASE v = w
  <2>1. told[x][w].start \in Nat /\ told[x][w].finish \in Nat
    BY DEF ObservationInv, Typed, MonitorsTyped
  <2>2. m \in left[w] /\ left'[w] = left[w] \ {m}
        /\ (\/ left'[w] = {} /\ notifying'[w] = "none"
            \/ left'[w] # {} /\ notifying'[w] = notifying[w])
    BY DEF CallStep
  <2>3. CASE x # m
    <3>1. told'[x][w] = told[x][w]
      BY <2>3 DEF CallStep
    <3>2. (Coming("start", w, x)' <=> Coming("start", w, x)) /\ (Coming("finish", w, x)' <=> Coming("finish", w, x))
      BY <2>2, <2>3 DEF Coming
    <3> QED BY <1>1, <1>2, <1>3, <1>5, <3>1, <3>2 DEF ToldRightly
  <2>4. CASE x = m
    <3>1. monKind[m] = KindOf[w] /\ phase[m] # "none"
      BY <2>2 DEF ObservationInv, NotifyProtocol, MonitorProtocol
    <3>2. ~Coming("start", w, m)' /\ ~Coming("finish", w, m)'
      BY <2>2 DEF Coming
    <3>3. CASE /\ notifying[w] = "start"
               /\ told'[m][w].start = told[m][w].start + 1 /\ told'[m][w].finish = told[m][w].finish
      <4>1. Open(w) /\ ~Ended(w)
        BY <3>3 DEF ObservationInv, RecorderProtocol, Open, Ended
      <4>2. told[m][w].start = 0 /\ told[m][w].finish = 0
        BY <1>1, <1>5, <2>1, <2>2, <2>4, <3>3, <4>1 DEF ToldRightly, Coming
      <4>3. told'[m][w].start = 1 /\ told'[m][w].finish = 0
        BY <3>3, <4>2
      <4> QED BY <1>2, <1>3, <1>5, <2>4, <3>1, <3>2, <4>1, <4>3 DEF ToldRightly
    <3>4. CASE /\ notifying[w] = "finish"
               /\ told'[m][w].start = told[m][w].start /\ told'[m][w].finish = told[m][w].finish + 1
      <4>1. Ended(w)
        BY <3>4 DEF ObservationInv, RecorderProtocol
      <4>2. told[m][w].finish = 0
        BY <1>1, <1>5, <2>1, <2>2, <2>4, <3>4 DEF ToldRightly, Coming
      <4>3. told'[m][w].start = told[m][w].start /\ told'[m][w].finish = 1 /\ told[m][w].start <= 1
        BY <1>1, <1>5, <2>4, <3>4, <4>2 DEF ToldRightly
      <4> QED BY <1>2, <1>3, <1>5, <2>4, <3>1, <3>2, <4>1, <4>3 DEF ToldRightly
    <3> QED BY <3>3, <3>4 DEF CallStep
  <2> QED BY <2>3, <2>4
<1> QED BY <1>4, <1>5

LEMMA UserTellsRightly ==
    ASSUME ObservationInv, AllToldRightly, NEW u \in Users, NEW m \in Monitors, UserStepOn(u, m)
    PROVE  AllToldRightly'
<1> SUFFICES ASSUME NEW x \in Monitors, NEW v \in Workers
             PROVE  ToldRightly(x, v)'
  BY DEF AllToldRightly
<1>1. ToldRightly(x, v)
  BY DEF AllToldRightly
<1>2. Touches(u, m)
  BY UserStepTouches
<1>3. UNCHANGED <<monKind, rec, notifying, left, told>>
  BY <1>2 DEF Touches
<1>4. (Open(v)' <=> Open(v)) /\ (Ended(v)' <=> Ended(v))
  BY <1>3 DEF Open, Ended
<1>5. CASE x = m /\ Registers(u, m)
  <2>1. told[x][v].start \in Nat /\ told[x][v].finish \in Nat
    BY DEF ObservationInv, Typed, MonitorsTyped
  <2>2. told[x][v].start = 0 /\ told[x][v].finish = 0
    BY <1>1, <1>5, <2>1 DEF ToldRightly, Registers
  <2> QED BY <1>1, <1>3, <2>2 DEF ToldRightly
<1>6. CASE ~(x = m /\ Registers(u, m))
  <2>1. phase[x] # "none" => phase'[x] # "none"
    BY <1>2, <1>6 DEF Touches, UserStepOn, Stamps, Asks, Reads, Resets, Stops, Seals, Destroys
  <2>2. x \in entries' => x \in entries
    BY <1>2, <1>6 DEF Touches, UserStepOn, Stamps, Asks, Reads, Resets, Stops, Seals, Destroys
  <2>3. PairStays(x, v)
    BY <1>3, <1>4, <2>1, <2>2 DEF PairStays
  <2> QED BY <1>1, <2>3, StayingPair
<1> QED BY <1>5, <1>6

LEMMA TellsRightlyStep == ObservationInv /\ AllToldRightly /\ [Next]_vars => AllToldRightly'
<1> SUFFICES ASSUME ObservationInv, AllToldRightly, [Next]_vars PROVE AllToldRightly'
  OBVIOUS
<1>1. \/ Still
      \/ \E w \in Workers : RecorderStep(w) \/ NotifyStep(w) \/ \E m \in Monitors : CallStep(w, m)
      \/ \E u \in Users, m \in Monitors : UserStepOn(u, m)
  BY StepKinds DEF ObservationInv
<1>2. CASE Still
  BY <1>2 DEF Still, AllToldRightly, ToldRightly, Coming, Open, Ended
<1> QED BY <1>1, <1>2, RecorderTellsRightly, NotifyTellsRightly, CallTellsRightly, UserTellsRightly

LEMMA InitToldRightly == Init => AllToldRightly
BY DEF Init, AllToldRightly, ToldRightly, NoRecorder, Open, Ended

LEMMA ToldRightlyKept == Spec => [](ObservationInv /\ AllToldRightly)
<1> QED BY ProtocolKept, InitToldRightly, TellsRightlyStep, PTL DEF Spec

\* Monitor: no operation is reported twice to a monitor, and one that is over has reported its
\* end to every registered monitor it reported its start to.
THEOREM FinishMatchesStart == Spec => []OneFinishPerStart
<1>1. ASSUME ObservationInv, AllToldRightly
      PROVE  OneFinishPerStart
  <2> SUFFICES ASSUME NEW m \in Monitors, NEW w \in Workers
               PROVE  /\ told[m][w].start <= 1 /\ told[m][w].finish <= 1
                      /\ At(w, "over") /\ m \in entries => told[m][w].finish >= told[m][w].start
    BY DEF OneFinishPerStart
  <2>1. ToldRightly(m, w) /\ told[m][w].start \in Nat /\ told[m][w].finish \in Nat
    BY <1>1 DEF AllToldRightly, ObservationInv, Typed, MonitorsTyped
  <2>2. At(w, "over") => ~Open(w) /\ notifying[w] = "none"
    BY <1>1 DEF At, ObservationInv, RecorderProtocol
  <2> QED BY <2>1, <2>2 DEF ToldRightly, Coming
<1> QED BY <1>1, ToldRightlyKept, PTL

-------------------------------------------------------------------------------
(* The counts are exact, as long as the clock has not come to its end.     *)

\* TimePoint::max() is never the time of an operation.
ClockFits == clock < Forever

\* An operation that began after the monitor was stamped has told it so, unless it is about to.
StartHeard(m, w) ==
    /\ Open(w) \/ Ended(w)
    /\ rec[w].start >= mon[m].registered /\ m \in entries /\ monKind[m] = KindOf[w]
    /\ ~Coming("start", w, m)
    => told[m][w].start > 0
AllStartsHeard == \A m \in Monitors, w \in Workers : StartHeard(m, w)

LEMMA StayingHeard ==
    ASSUME NEW m, NEW w, StartHeard(m, w), PairStays(m, w),
           rec'[w].start = rec[w].start, mon'[m].registered = mon[m].registered
    PROVE  StartHeard(m, w)'
BY DEF StartHeard, PairStays, Coming

LEMMA RecorderIsHeard ==
    ASSUME ObservationInv, AllStartsHeard, NEW w \in Workers, RecorderStep(w)
    PROVE  AllStartsHeard'
<1> SUFFICES ASSUME NEW m \in Monitors, NEW v \in Workers
             PROVE  StartHeard(m, v)'
  BY DEF AllStartsHeard
<1>1. StartHeard(m, v)
  BY DEF AllStartsHeard
<1>2. UNCHANGED <<left, told, monKind, phase, entries, mon>>
  BY DEF RecorderStep
<1>3. CASE v # w
  <2>1. rec'[v] = rec[v] /\ notifying'[v] = notifying[v]
    BY <1>3 DEF RecorderStep
  <2>2. PairStays(m, v)
    BY <1>2, <2>1 DEF PairStays, Open, Ended
  <2> QED BY <1>1, <1>2, <2>1, <2>2, StayingHeard
<1>4. CASE v = w
  <2>1. notifying[w] = "none" /\ left[w] = {}
    BY DEF RecorderStep, ObservationInv, NotifyProtocol
  <2>3. CASE Opens(w)
    BY <1>2, <1>4, <2>1, <2>3 DEF Opens, StartHeard, Coming
  <2>4. CASE Ends(w)
    BY <1>1, <1>2, <1>4, <2>1, <2>4 DEF Ends, StartHeard, Coming
  <2>5. CASE StaysQuiet(w)
    <3>1. PairStays(m, v) /\ rec' = rec
      BY <1>2, <1>4, <2>5 DEF StaysQuiet, PairStays, Open, Ended
    <3> QED BY <1>1, <1>2, <3>1, StayingHeard
  <2> QED BY <2>3, <2>4, <2>5 DEF RecorderStep
<1> QED BY <1>3, <1>4

LEMMA NotifyIsHeard ==
    ASSUME ObservationInv, AllStartsHeard, NEW w \in Workers, NotifyStep(w)
    PROVE  AllStartsHeard'
<1> SUFFICES ASSUME NEW m \in Monitors, NEW v \in Workers
             PROVE  StartHeard(m, v)'
  BY DEF AllStartsHeard
<1>1. StartHeard(m, v)
  BY DEF AllStartsHeard
<1>2. UNCHANGED <<rec, told, monKind, phase, entries, mon>>
  BY DEF NotifyStep
<1>3. (Open(v)' <=> Open(v)) /\ (Ended(v)' <=> Ended(v))
  BY <1>2 DEF Open, Ended
<1>4. CASE v # w
  <2>1. PairStays(m, v)
    BY <1>2, <1>3, <1>4 DEF PairStays, NotifyStep
  <2> QED BY <1>1, <1>2, <2>1, StayingHeard
<1>5. CASE v = w
  <2>1. m \in entries /\ monKind[m] = KindOf[w] /\ Coming("start", w, m) => Coming("start", w, m)'
    BY DEF NotifyStep, Coming
  <2> QED BY <1>1, <1>2, <1>3, <1>5, <2>1 DEF StartHeard
<1> QED BY <1>4, <1>5

LEMMA CallIsHeard ==
    ASSUME ObservationInv, AllStartsHeard, NEW w \in Workers, NEW m \in Monitors, CallStep(w, m)
    PROVE  AllStartsHeard'
<1> SUFFICES ASSUME NEW x \in Monitors, NEW v \in Workers
             PROVE  StartHeard(x, v)'
  BY DEF AllStartsHeard
<1>1. StartHeard(x, v)
  BY DEF AllStartsHeard
<1>2. UNCHANGED <<rec, monKind, phase, entries>> /\ mon'[x].registered = mon[x].registered
  BY DEF CallStep, SameStamps
<1>3. (Open(v)' <=> Open(v)) /\ (Ended(v)' <=> Ended(v))
  BY <1>2 DEF Open, Ended
<1>4. CASE v # w
  <2>1. PairStays(x, v)
    BY <1>2, <1>3, <1>4 DEF PairStays, CallStep
  <2> QED BY <1>1, <1>2, <2>1, StayingHeard
<1>5. CASE v = w
  <2>1. m \in left[w] /\ left'[w] = left[w] \ {m}
        /\ (\/ left'[w] = {} /\ notifying'[w] = "none"
            \/ left'[w] # {} /\ notifying'[w] = notifying[w])
    BY DEF CallStep
  <2>2. told[x][w].start \in Nat
    BY DEF ObservationInv, Typed, MonitorsTyped
  <2>3. CASE x = m /\ notifying[w] = "start"
    <3>1. told'[x][w].start = told[x][w].start + 1
      BY <2>3 DEF CallStep
    <3> QED BY <1>5, <2>2, <3>1 DEF StartHeard
  <2>4. CASE ~(x = m /\ notifying[w] = "start")
    <3>1. told'[x][w].start = told[x][w].start
      BY <2>4 DEF CallStep
    <3>2. Coming("start", w, x) => Coming("start", w, x)'
      BY <2>1, <2>4 DEF Coming
    <3> QED BY <1>1, <1>2, <1>3, <1>5, <3>1, <3>2 DEF StartHeard
  <2> QED BY <2>3, <2>4
<1> QED BY <1>4, <1>5

LEMMA UserIsHeard ==
    ASSUME ObservationInv, AllStartsHeard, ClockFits,
           NEW u \in Users, NEW m \in Monitors, UserStepOn(u, m)
    PROVE  AllStartsHeard'
<1> SUFFICES ASSUME NEW x \in Monitors, NEW v \in Workers
             PROVE  StartHeard(x, v)'
  BY DEF AllStartsHeard
<1>1. StartHeard(x, v)
  BY DEF AllStartsHeard
<1>2. Touches(u, m)
  BY UserStepTouches
<1>3. UNCHANGED <<monKind, rec, notifying, left, told>>
  BY <1>2 DEF Touches
<1>4. (Open(v)' <=> Open(v)) /\ (Ended(v)' <=> Ended(v))
  BY <1>3 DEF Open, Ended
<1>5. rec[v].start \in Nat /\ rec[v].start <= clock /\ clock \in Nat /\ Forever \in Nat /\ count \in Nat
  BY ObservationAssumption DEF ObservationInv, Typed, RecordersTyped, MonitorsTyped, RecorderProtocol
<1>6. mon[x] \in MonitorType
  BY DEF ObservationInv, Typed, MonitorsTyped
<1>7. CASE x = m /\ Registers(u, m)
  <2>1. mon'[x].registered = Forever
    BY <1>7 DEF Registers, ObservationInv, MonitorProtocol
  <2>2. ~(rec'[v].start >= mon'[x].registered)
    BY <1>3, <1>5, <2>1 DEF ClockFits
  <2> QED BY <2>2 DEF StartHeard
<1>8. CASE x = m /\ Stamps(u, m)
  <2>1. mon'[x].registered = clock + 1
    <3>1. mon'[x] = StampMonitor(mon[x], clock + 1, count)
      BY <1>8 DEF Stamps
    <3>2. PICK t \in Nat, c \in Nat, n \in MonitorType : t = clock + 1 /\ c = count /\ n = mon[x]
      BY <1>5, <1>6
    <3>3. StampMonitor(n, t, c).registered = t
      BY ONLY StampEffect
    <3> QED BY <3>1, <3>2, <3>3
  <2>2. ~(rec'[v].start >= mon'[x].registered)
    BY <1>3, <1>5, <2>1
  <2> QED BY <2>2 DEF StartHeard
<1>9. CASE ~(x = m /\ (Registers(u, m) \/ Stamps(u, m)))
  <2>1. phase[x] # "none" => phase'[x] # "none"
    BY <1>2, <1>9 DEF Touches, UserStepOn, Asks, Reads, Resets, Stops, Seals, Destroys
  <2>2. x \in entries' => x \in entries
    BY <1>2, <1>9 DEF Touches, UserStepOn, Asks, Reads, Resets, Stops, Seals, Destroys
  <2>3. PairStays(x, v)
    BY <1>3, <1>4, <2>1, <2>2 DEF PairStays
  <2>4. mon'[x].registered = mon[x].registered
    <3>1. CASE x # m \/ Asks(u, m) \/ Stops(u, m) \/ Destroys(u, m) \/ Seals(u, m)
      BY <1>2, <3>1 DEF Touches, Asks, Stops, Destroys, Seals
    <3>2. PICK t \in Nat, c \in Nat, n \in MonitorType : t = clock + 1 /\ c = count /\ n = mon[x]
      BY <1>5, <1>6
    <3>3. CASE x = m /\ Reads(u, m)
      <4>1. mon'[x] = AfterRead(mon[x], clock + 1)
        BY <3>3 DEF Reads
      <4>2. AfterRead(n, t).registered = n.registered
        BY ONLY ReadEffect DEF SameStamps
      <4> QED BY <3>2, <4>1, <4>2
    <3>4. CASE x = m /\ Resets(u, m)
      <4>1. mon'[x] = MonitorReset(mon[x], clock + 1, count)
        BY <3>4 DEF Resets
      <4>2. MonitorReset(n, t, c).registered = n.registered
        BY ONLY ResetEffect
      <4> QED BY <3>2, <4>1, <4>2
    <3> QED BY <1>9, <3>1, <3>3, <3>4 DEF UserStepOn
  <2> QED BY <1>1, <1>3, <2>3, <2>4, StayingHeard
<1> QED BY <1>7, <1>8, <1>9

LEMMA HeardStep == ObservationInv /\ ClockFits /\ AllStartsHeard /\ [Next]_vars => AllStartsHeard'
<1> SUFFICES ASSUME ObservationInv, ClockFits, AllStartsHeard, [Next]_vars PROVE AllStartsHeard'
  OBVIOUS
<1>1. \/ Still
      \/ \E w \in Workers : RecorderStep(w) \/ NotifyStep(w) \/ \E m \in Monitors : CallStep(w, m)
      \/ \E u \in Users, m \in Monitors : UserStepOn(u, m)
  BY StepKinds DEF ObservationInv
<1>2. CASE Still
  BY <1>2 DEF Still, AllStartsHeard, StartHeard, Coming, Open, Ended
<1> QED BY <1>1, <1>2, RecorderIsHeard, NotifyIsHeard, CallIsHeard, UserIsHeard

LEMMA InitHeard == Init => AllStartsHeard
BY DEF Init, AllStartsHeard, StartHeard, NoRecorder, Open, Ended

\* The operations a monitor counts as in flight, those it has counted and those that failed.
Flying(m) == {w \in Workers : /\ told[m][w].start = 1 /\ told[m][w].finish = 0
                              /\ rec[w].start >= mon[m].registered}
Counted(m) == {w \in Workers : /\ told[m][w].finish = 1
                               /\ rec[w].start >= mon[m].registered /\ rec[w].start >= mon[m].start}
Failed(m) == {w \in Workers : /\ told[m][w].finish = 1 /\ ~rec[w].ok
                              /\ rec[w].start >= mon[m].registered /\ rec[w].start >= mon[m].start}
CountsHold(m) ==
    /\ mon[m].busy.inFlight = Cardinality(Flying(m))
    /\ mon[m].totals.ops = Cardinality(Counted(m))
    /\ mon[m].totals.errors = Cardinality(Failed(m))
AllCountsHold == \A m \in Monitors : CountsHold(m)

LEMMA SetsAreFinite ==
    ASSUME NEW m
    PROVE  IsFiniteSet(Flying(m)) /\ IsFiniteSet(Counted(m)) /\ IsFiniteSet(Failed(m))
<1>1. Flying(m) \subseteq Workers /\ Counted(m) \subseteq Workers /\ Failed(m) \subseteq Workers
  BY DEF Flying, Counted, Failed
<1> QED BY <1>1, ObservationAssumption, FS_Subset

\* What a step on monitor m does to its counts.
SameCounts(m) == /\ mon'[m].registered = mon[m].registered /\ mon'[m].start = mon[m].start
                 /\ mon'[m].totals = mon[m].totals /\ mon'[m].busy.inFlight = mon[m].busy.inFlight
FreshCounts(m) == /\ mon'[m].registered = mon[m].registered /\ mon'[m].start = clock + 1
                  /\ mon'[m].totals = NoTotals /\ mon'[m].busy.inFlight = mon[m].busy.inFlight
FirstCounts(m) == /\ mon[m].registered = Forever
                  /\ mon'[m].registered = clock + 1 /\ mon'[m].start = clock + 1
                  /\ mon'[m].totals = mon[m].totals /\ mon'[m].busy.inFlight = mon[m].busy.inFlight

LEMMA TrackerResetEffect ==
    ASSUME NEW b \in TrackerType, NEW t \in Nat
    PROVE  LET n == TrackerReset(b, t)
           IN  /\ n \in TrackerType /\ n.inFlight = b.inFlight /\ n.closed = 0 /\ n.emitted = 0
               /\ n.pending = 0 /\ n.since = t /\ n.lastClosed = t
<1>1. PICK n : n = TrackerReset(b, t)
  OBVIOUS
<1>2. /\ n \in TrackerType /\ n.inFlight = b.inFlight /\ n.closed = 0 /\ n.emitted = 0
      /\ n.pending = 0 /\ n.since = t /\ n.lastClosed = t
  BY <1>1 DEF TrackerReset, TrackerType
<1> QED BY <1>1, <1>2

LEMMA TrackerReadEffect ==
    ASSUME NEW b \in TrackerType, NEW t \in Nat
    PROVE  LET n == TrackerRead(b, t)
           IN  /\ n \in TrackerType /\ n.inFlight = b.inFlight /\ n.closed = b.closed
               /\ n.pending = b.pending /\ n.since = b.since /\ n.lastClosed = b.lastClosed
               /\ b.inFlight > 0 => n.emitted = Larger(b.emitted, b.closed + Larger(0, t - b.since))
               /\ b.inFlight = 0 => n.emitted = Larger(b.emitted, b.closed)
<1>1. PICK e : e = TrackerReadAsIs(b, t).emitted
  OBVIOUS
<1>2. PICK z : z = IF b.inFlight > 0 THEN Larger(0, t - b.since) ELSE 0
  OBVIOUS
<1>3. z \in Nat
  BY <1>2 DEF Larger, TrackerType
<1>4. e = b.closed + z
  <2>1. TrackerReadAsIs(b, t) = [b EXCEPT !.emitted = b.closed + z]
    BY <1>2 DEF TrackerReadAsIs
  <2> QED BY <1>1, <2>1 DEF TrackerType
<1>5. e \in Nat
  BY <1>3, <1>4 DEF TrackerType
<1>6. PICK l : l = Larger(b.emitted, e)
  OBVIOUS
<1>7. l \in Nat
  BY <1>5, <1>6 DEF Larger, TrackerType
<1>8. TrackerRead(b, t) = [b EXCEPT !.emitted = l]
  BY <1>1, <1>6 DEF TrackerRead
<1>9. PICK n : n = [b EXCEPT !.emitted = l]
  OBVIOUS
<1>10. /\ n \in TrackerType /\ n.inFlight = b.inFlight /\ n.closed = b.closed
       /\ n.pending = b.pending /\ n.since = b.since /\ n.lastClosed = b.lastClosed /\ n.emitted = l
  BY <1>7, <1>9 DEF TrackerType
<1>11. n = TrackerRead(b, t)
  BY <1>8, <1>9
<1>12. /\ b.inFlight > 0 => l = Larger(b.emitted, b.closed + Larger(0, t - b.since))
       /\ b.inFlight = 0 => l = Larger(b.emitted, b.closed)
  <2>1. CASE b.inFlight > 0
    BY <1>2, <1>4, <1>6, <2>1 DEF TrackerType
  <2>2. CASE b.inFlight = 0
    <3>1. z = 0 /\ e = b.closed
      BY <1>2, <1>4, <2>2 DEF TrackerType
    <3> QED BY <1>6, <2>2, <3>1
  <2> QED BY <2>1, <2>2
<1> HIDE <1>8, <1>9
<1> QED BY <1>10, <1>11, <1>12

LEMMA UserCounts ==
    ASSUME ObservationInv, NEW u \in Users, NEW m \in Monitors, UserStepOn(u, m), NEW x \in Monitors
    PROVE  SameCounts(x) \/ FreshCounts(x) \/ FirstCounts(x)
<1>1. Touches(u, m)
  BY UserStepTouches
<1>2. PICK t \in Nat, c \in Nat, n \in MonitorType : t = clock + 1 /\ c = count /\ n = mon[x]
  BY DEF ObservationInv, Typed, MonitorsTyped
<1>3. n.busy \in TrackerType
  BY DEF MonitorType
<1>4. CASE x # m \/ Registers(u, m) \/ Asks(u, m) \/ Stops(u, m) \/ Destroys(u, m)
  <2>1. mon'[x] = mon[x]
    BY <1>1, <1>4 DEF Touches, Registers, Asks, Stops, Destroys
  <2> QED BY <2>1 DEF SameCounts
<1>5. CASE x = m /\ Seals(u, m)
  BY <1>5 DEF Seals, SameCounts
<1>6. CASE x = m /\ Reads(u, m)
  <2>1. mon'[x] = AfterRead(n, t)
    BY <1>2, <1>6 DEF Reads
  <2>2. PICK r \in Nat : r = ReadEnd(n, t)
    BY ReadEffect
  <2>3. AfterRead(n, t).busy = TrackerRead(n.busy, r)
    BY <2>2, ReadEffect
  <2>4. TrackerRead(n.busy, r).inFlight = n.busy.inFlight
    BY <1>3, TrackerReadEffect
  <2>5. AfterRead(n, t).totals = n.totals /\ SameStamps(AfterRead(n, t), n)
    BY ReadEffect
  <2> QED BY <1>2, <2>1, <2>3, <2>4, <2>5 DEF SameCounts, SameStamps
<1>7. CASE x = m /\ Resets(u, m)
  <2>1. mon'[x] = MonitorReset(n, t, c)
    BY <1>2, <1>7 DEF Resets
  <2>2. TrackerReset(n.busy, t).inFlight = n.busy.inFlight
    BY <1>3, TrackerResetEffect
  <2>3. /\ MonitorReset(n, t, c).start = t /\ MonitorReset(n, t, c).registered = n.registered
        /\ MonitorReset(n, t, c).totals = NoTotals
        /\ MonitorReset(n, t, c).busy = TrackerReset(n.busy, t)
    BY ONLY ResetEffect
  <2> QED BY <1>2, <2>1, <2>2, <2>3 DEF FreshCounts
<1>8. CASE x = m /\ Stamps(u, m)
  <2>1. mon'[x] = StampMonitor(n, t, c)
    BY <1>2, <1>8 DEF Stamps
  <2>2. TrackerReset(n.busy, t).inFlight = n.busy.inFlight
    BY <1>3, TrackerResetEffect
  <2>3. /\ StampMonitor(n, t, c).start = t /\ StampMonitor(n, t, c).registered = t
        /\ StampMonitor(n, t, c).totals = n.totals
        /\ StampMonitor(n, t, c).busy = TrackerReset(n.busy, t)
    BY ONLY StampEffect
  <2>4. mon[x].registered = Forever
    BY <1>8 DEF Stamps, ObservationInv, UserProtocol, MonitorProtocol
  <2> QED BY <1>2, <2>1, <2>2, <2>3, <2>4 DEF FirstCounts
<1> QED BY <1>4, <1>5, <1>6, <1>7, <1>8 DEF UserStepOn

LEMMA SameSetsSameCounts ==
    ASSUME NEW m, CountsHold(m), SameCounts(m),
           Flying(m)' = Flying(m), Counted(m)' = Counted(m), Failed(m)' = Failed(m)
    PROVE  CountsHold(m)'
<1>1. mon'[m].totals = mon[m].totals /\ mon'[m].busy.inFlight = mon[m].busy.inFlight
  BY DEF SameCounts
<1> QED BY <1>1 DEF CountsHold

LEMMA RecorderKeepsCounts ==
    ASSUME ObservationInv, AllToldRightly, AllCountsHold, NEW w \in Workers, RecorderStep(w)
    PROVE  AllCountsHold'
<1> SUFFICES ASSUME NEW m \in Monitors
             PROVE  CountsHold(m)'
  BY DEF AllCountsHold
<1>1. CountsHold(m)
  BY DEF AllCountsHold
<1>2. SameCounts(m) /\ UNCHANGED <<told, mon>>
  BY DEF RecorderStep, SameCounts
<1>3. ASSUME NEW v \in Workers
      PROVE  /\ told[m][v].start = 1 \/ told[m][v].finish = 1 => rec'[v].start = rec[v].start
             /\ told[m][v].finish = 1 => rec'[v] = rec[v]
  <2>1. CASE v # w
    BY <2>1 DEF RecorderStep
  <2>2. CASE v = w
    <3>1. ToldRightly(m, w)
      BY DEF AllToldRightly
    <3>2. CASE Opens(w)
      <4>1. ~(told[m][w].start = 1) /\ ~(told[m][w].finish = 1)
        BY <3>1, <3>2 DEF ToldRightly, Opens
      <4> QED BY <2>2, <4>1
    <3>3. CASE Ends(w)
      <4>1. ~(told[m][w].finish = 1) /\ rec'[w].start = rec[w].start
        BY <3>1, <3>3 DEF ToldRightly, Ends
      <4> QED BY <2>2, <4>1
    <3>4. CASE StaysQuiet(w)
      BY <3>4 DEF StaysQuiet
    <3> QED BY <3>2, <3>3, <3>4 DEF RecorderStep
  <2> QED BY <2>1, <2>2
<1>4. Flying(m)' = Flying(m)
  BY <1>2, <1>3 DEF Flying
<1>5. Counted(m)' = Counted(m)
  BY <1>2, <1>3 DEF Counted
<1>6. Failed(m)' = Failed(m)
  BY <1>2, <1>3 DEF Failed
<1> QED BY <1>1, <1>2, <1>4, <1>5, <1>6, SameSetsSameCounts

LEMMA UserKeepsCounts ==
    ASSUME ObservationInv, ClockFits, AllCountsHold, NEW u \in Users, NEW m \in Monitors, UserStepOn(u, m)
    PROVE  AllCountsHold'
<1> SUFFICES ASSUME NEW x \in Monitors
             PROVE  CountsHold(x)'
  BY DEF AllCountsHold
<1>1. CountsHold(x)
  BY DEF AllCountsHold
<1>2. UNCHANGED <<told, rec>>
  BY UserStepTouches DEF Touches
<1>3. \A w \in Workers : rec[w].start \in Nat /\ rec[w].start <= clock /\ clock \in Nat /\ rec[w].start < Forever
  <2>1. clock \in Nat /\ Forever \in Nat /\ clock < Forever
    BY ObservationAssumption DEF ObservationInv, Typed, MonitorsTyped, ClockFits
  <2> QED BY <2>1 DEF ObservationInv, Typed, RecordersTyped, RecorderProtocol
<1>4. CASE SameCounts(x)
  <2>1. mon'[x].registered = mon[x].registered /\ mon'[x].start = mon[x].start
    BY <1>4 DEF SameCounts
  <2>2. Flying(x)' = Flying(x) /\ Counted(x)' = Counted(x) /\ Failed(x)' = Failed(x)
    BY <1>2, <2>1 DEF Flying, Counted, Failed
  <2> QED BY <1>1, <1>4, <2>2, SameSetsSameCounts
<1>5. CASE FreshCounts(x)
  <2>1. Flying(x)' = Flying(x)
    BY <1>2, <1>5 DEF Flying, FreshCounts
  <2>2. Counted(x)' = {} /\ Failed(x)' = {}
    BY <1>2, <1>3, <1>5 DEF Counted, Failed, FreshCounts
  <2>3. mon'[x].totals.ops = 0 /\ mon'[x].totals.errors = 0 /\ mon'[x].busy.inFlight = mon[x].busy.inFlight
    BY <1>5 DEF FreshCounts, NoTotals
  <2> QED BY <1>1, <2>1, <2>2, <2>3, FS_EmptySet DEF CountsHold
<1>6. CASE FirstCounts(x)
  <2>1. mon[x].registered = Forever /\ mon'[x].registered = clock + 1
    BY <1>6 DEF FirstCounts
  <2>2. Flying(x) = {} /\ Counted(x) = {} /\ Failed(x) = {}
    BY <1>3, <2>1, ObservationAssumption DEF Flying, Counted, Failed
  <2>3. Flying(x)' = {} /\ Counted(x)' = {} /\ Failed(x)' = {}
    BY <1>2, <1>3, <2>1 DEF Flying, Counted, Failed
  <2>4. mon'[x].totals = mon[x].totals /\ mon'[x].busy.inFlight = mon[x].busy.inFlight
    BY <1>6 DEF FirstCounts
  <2> QED BY <1>1, <2>2, <2>3, <2>4 DEF CountsHold
<1> QED BY <1>4, <1>5, <1>6, UserCounts

\* The start of an operation that the monitor accepts is one more in flight.
LEMMA StartKeepsCounts ==
    ASSUME ObservationInv, AllToldRightly, NEW w \in Workers, NEW m \in Monitors, CountsHold(m),
           CallStep(w, m), notifying[w] = "start"
    PROVE  CountsHold(m)'
<1>1. ToldRightly(m, w) /\ told[m][w].start \in Nat /\ told[m][w].finish \in Nat
  BY DEF AllToldRightly, ObservationInv, Typed, MonitorsTyped
<1>2. ~Ended(w) /\ m \in left[w]
  BY DEF ObservationInv, RecorderProtocol, Open, Ended, CallStep
<1>3. told[m][w].start = 0 /\ told[m][w].finish = 0
  BY <1>1, <1>2 DEF ToldRightly, Coming
<1>4. told'[m][w].start = 1 /\ told'[m][w].finish = 0
  BY <1>3 DEF CallStep
<1>5. /\ rec' = rec /\ mon'[m] = MonitorOnStart(mon[m], rec[w])
      /\ \A v \in Workers : v # w => told'[m][v] = told[m][v]
      /\ mon'[m].registered = mon[m].registered /\ mon'[m].start = mon[m].start
  BY DEF CallStep, SameStamps
<1>6. mon[m] \in MonitorType /\ rec[w].start \in Nat
  BY DEF ObservationInv, Typed, MonitorsTyped, RecordersTyped
<1>7. mon[m].registered \in Nat /\ mon[m].busy \in TrackerType
  BY <1>6 DEF MonitorType
<1>8. Counted(m)' = Counted(m) /\ Failed(m)' = Failed(m)
  BY <1>3, <1>4, <1>5 DEF Counted, Failed
<1>9. mon'[m].totals = mon[m].totals
  BY <1>5, <1>6, StartCallback
<1>10. CASE rec[w].start < mon[m].registered
  <2>1. mon'[m] = mon[m]
    BY <1>5, <1>6, <1>10, StartCallback
  <2>2. Flying(m)' = Flying(m)
    BY <1>5, <1>6, <1>7, <1>10, <2>1 DEF Flying
  <2> QED BY <1>8, <2>1, <2>2 DEF CountsHold
<1>11. CASE ~(rec[w].start < mon[m].registered)
  <2>1. mon'[m].busy = TrackerStart(mon[m].busy, rec[w].start)
    BY <1>5, <1>6, <1>11, StartCallback
  <2>2. mon'[m].busy.inFlight = mon[m].busy.inFlight + 1
    BY <1>6, <1>7, <2>1, TrackerStartEffect
  <2>3. Flying(m)' = Flying(m) \cup {w} /\ w \notin Flying(m)
    <3>1. rec[w].start >= mon[m].registered
      BY <1>6, <1>7, <1>11
    <3> QED BY <1>3, <1>4, <1>5, <3>1 DEF Flying
  <2>4. Cardinality(Flying(m)') = Cardinality(Flying(m)) + 1
    <3>1. PICK f : f = Flying(m) /\ IsFiniteSet(f)
      BY SetsAreFinite
    <3>2. Cardinality(f \cup {w}) = Cardinality(f) + 1
      BY <2>3, <3>1, FS_AddElement
    <3> QED BY <2>3, <3>1, <3>2
  <2> QED BY <1>8, <1>9, <2>2, <2>4 DEF CountsHold
<1> QED BY <1>10, <1>11

\* The end of an operation the monitor has accepted is one less in flight, and counts once.
LEMMA FinishKeepsCounts ==
    ASSUME ObservationInv, AllToldRightly, AllStartsHeard, NEW w \in Workers, NEW m \in Monitors,
           CountsHold(m), CallStep(w, m), notifying[w] = "finish"
    PROVE  CountsHold(m)'
<1>1. ToldRightly(m, w) /\ told[m][w].start \in Nat /\ told[m][w].finish \in Nat /\ StartHeard(m, w)
  BY DEF AllToldRightly, AllStartsHeard, ObservationInv, Typed, MonitorsTyped
<1>2. Ended(w) /\ m \in left[w] /\ m \in entries /\ monKind[m] = KindOf[w]
  BY DEF ObservationInv, RecorderProtocol, NotifyProtocol, CallStep
<1>3. told[m][w].finish = 0
  BY <1>1, <1>2 DEF ToldRightly, Coming
<1>4. told'[m][w].start = told[m][w].start /\ told'[m][w].finish = 1
  BY <1>3 DEF CallStep
<1>5. /\ rec' = rec /\ mon'[m] = MonitorOnFinish(mon[m], rec[w])
      /\ \A v \in Workers : v # w => told'[m][v] = told[m][v]
      /\ mon'[m].registered = mon[m].registered /\ mon'[m].start = mon[m].start
  BY DEF CallStep, SameStamps
<1>6. mon[m] \in MonitorType /\ rec[w].start \in Nat /\ rec[w].end \in Nat /\ rec[w].bytes \in Nat
  BY DEF ObservationInv, Typed, MonitorsTyped, RecordersTyped
<1>7. mon[m].registered \in Nat /\ mon[m].start \in Nat /\ mon[m].busy \in TrackerType
  BY <1>6 DEF MonitorType
<1>8. CASE rec[w].start < mon[m].registered
  <2>1. mon'[m] = mon[m]
    BY <1>5, <1>6, <1>8, FinishCallback
  <2>2. ~(rec[w].start >= mon[m].registered)
    BY <1>6, <1>7, <1>8
  <2>3. Flying(m)' = Flying(m)
    BY <1>5, <2>2 DEF Flying
  <2>4. Counted(m)' = Counted(m)
    BY <1>5, <2>2 DEF Counted
  <2>5. Failed(m)' = Failed(m)
    BY <1>5, <2>2 DEF Failed
  <2> QED BY <2>1, <2>3, <2>4, <2>5 DEF CountsHold
<1>9. CASE ~(rec[w].start < mon[m].registered)
  <2>1. rec[w].start >= mon[m].registered
    BY <1>6, <1>7, <1>9
  <2>2. told[m][w].start = 1
    BY <1>1, <1>2, <2>1 DEF StartHeard, ToldRightly, Coming
  <2>3. mon'[m].busy = TrackerFinish(mon[m].busy, rec[w].end)
    BY <1>5, <1>6, <1>9, FinishCallback
  <2>4. Flying(m)' = Flying(m) \ {w} /\ w \in Flying(m)
    BY <1>3, <1>4, <1>5, <2>1, <2>2 DEF Flying
  <2>5. Cardinality(Flying(m)') = Cardinality(Flying(m)) - 1 /\ Cardinality(Flying(m)) > 0
        /\ Cardinality(Flying(m)) \in Nat
    <3>1. PICK f : f = Flying(m) /\ IsFiniteSet(f)
      BY SetsAreFinite
    <3>2. Cardinality(f \ {w}) = Cardinality(f) - 1 /\ Cardinality(f) \in Nat /\ Cardinality(f \ {w}) \in Nat
      BY <2>4, <3>1, FS_RemoveElement, FS_CardinalityType
    <3> QED BY <2>4, <3>1, <3>2
  <2>6. mon'[m].busy.inFlight = Cardinality(Flying(m)')
    <3>1. mon[m].busy.inFlight = Cardinality(Flying(m))
      BY DEF CountsHold
    <3>2. mon'[m].busy.inFlight = mon[m].busy.inFlight - 1
      <4>1. PICK b \in TrackerType, t \in Nat : b = mon[m].busy /\ t = rec[w].end
        BY <1>6, <1>7
      <4>2. b.inFlight > 0 => TrackerFinish(b, t).inFlight = b.inFlight - 1
        BY ONLY TrackerFinishEffect
      <4>3. b.inFlight > 0
        BY <2>5, <3>1, <4>1
      <4> QED BY <2>3, <4>1, <4>2, <4>3
    <3> QED BY <2>5, <3>1, <3>2
  <2>7. CASE rec[w].start < mon[m].start
    <3>1. mon'[m].totals = mon[m].totals
      BY <1>5, <1>6, <1>9, <2>7, FinishCallback
    <3>2. ~(rec[w].start >= mon[m].start)
      BY <1>6, <1>7, <2>7
    <3>3. Counted(m)' = Counted(m)
      BY <1>5, <3>2 DEF Counted
    <3>4. Failed(m)' = Failed(m)
      BY <1>5, <3>2 DEF Failed
    <3> QED BY <2>6, <3>1, <3>3, <3>4 DEF CountsHold
  <2>8. CASE ~(rec[w].start < mon[m].start)
    <3>1. /\ mon'[m].totals.ops = mon[m].totals.ops + 1
          /\ rec[w].ok => mon'[m].totals.errors = mon[m].totals.errors
          /\ ~rec[w].ok => mon'[m].totals.errors = mon[m].totals.errors + 1
      BY <1>5, <1>6, <1>9, <2>8, FinishCallback
    <3>2. rec[w].start >= mon[m].start
      BY <1>6, <1>7, <2>8
    <3>3. Counted(m)' = Counted(m) \cup {w} /\ w \notin Counted(m)
      BY <1>3, <1>4, <1>5, <2>1, <3>2 DEF Counted
    <3>4. Cardinality(Counted(m)') = Cardinality(Counted(m)) + 1
      <4>1. PICK f : f = Counted(m) /\ IsFiniteSet(f)
        BY SetsAreFinite
      <4>2. Cardinality(f \cup {w}) = Cardinality(f) + 1
        BY <3>3, <4>1, FS_AddElement
      <4> QED BY <3>3, <4>1, <4>2
    <3>5. mon'[m].totals.ops = Cardinality(Counted(m)')
      BY <3>1, <3>4 DEF CountsHold
    <3>6. mon'[m].totals.errors = Cardinality(Failed(m)')
      <4>1. CASE rec[w].ok
        <5>1. Failed(m)' = Failed(m)
          BY <1>3, <1>5, <4>1 DEF Failed
        <5> QED BY <3>1, <4>1, <5>1 DEF CountsHold
      <4>2. CASE ~rec[w].ok
        <5>1. Failed(m)' = Failed(m) \cup {w} /\ w \notin Failed(m)
          BY <1>3, <1>4, <1>5, <2>1, <3>2, <4>2 DEF Failed
        <5>2. PICK f : f = Failed(m) /\ IsFiniteSet(f)
          BY SetsAreFinite
        <5>3. Cardinality(f \cup {w}) = Cardinality(f) + 1
          BY <5>1, <5>2, FS_AddElement
        <5> QED BY <3>1, <4>2, <5>1, <5>2, <5>3 DEF CountsHold
      <4> QED BY <4>1, <4>2
    <3> QED BY <2>6, <3>5, <3>6 DEF CountsHold
  <2> QED BY <2>7, <2>8
<1> QED BY <1>8, <1>9

LEMMA CallKeepsCounts ==
    ASSUME ObservationInv, AllToldRightly, AllStartsHeard, AllCountsHold,
           NEW w \in Workers, NEW m \in Monitors, CallStep(w, m)
    PROVE  AllCountsHold'
<1> SUFFICES ASSUME NEW x \in Monitors
             PROVE  CountsHold(x)'
  BY DEF AllCountsHold
<1>1. CountsHold(x)
  BY DEF AllCountsHold
<1>2. CASE x # m
  <2>1. /\ mon'[x] = mon[x] /\ \A v \in Workers : told'[x][v] = told[x][v]
        /\ rec' = rec
    BY <1>2 DEF CallStep
  <2>2. Flying(x)' = Flying(x) /\ Counted(x)' = Counted(x) /\ Failed(x)' = Failed(x)
    BY <2>1 DEF Flying, Counted, Failed
  <2>3. SameCounts(x)
    BY <2>1 DEF SameCounts
  <2> QED BY <1>1, <2>2, <2>3, SameSetsSameCounts
<1>3. CASE x = m
  <2>1. notifying[w] = "start" \/ notifying[w] = "finish"
    BY DEF CallStep
  <2> QED BY <1>1, <1>3, <2>1, StartKeepsCounts, FinishKeepsCounts
<1> QED BY <1>2, <1>3

LEMMA CountsStep ==
    ObservationInv /\ AllToldRightly /\ AllStartsHeard /\ ClockFits /\ AllCountsHold /\ [Next]_vars
    => AllCountsHold'
<1> SUFFICES ASSUME ObservationInv, AllToldRightly, AllStartsHeard, ClockFits, AllCountsHold, [Next]_vars
             PROVE  AllCountsHold'
  OBVIOUS
<1>1. \/ Still
      \/ \E w \in Workers : RecorderStep(w) \/ NotifyStep(w) \/ \E m \in Monitors : CallStep(w, m)
      \/ \E u \in Users, m \in Monitors : UserStepOn(u, m)
  BY StepKinds DEF ObservationInv
<1>2. CASE Still \/ \E w \in Workers : NotifyStep(w)
  <2>1. UNCHANGED <<told, rec, mon>>
    BY <1>2 DEF Still, NotifyStep
  <2> QED BY <2>1 DEF AllCountsHold, CountsHold, Flying, Counted, Failed
<1> QED BY <1>1, <1>2, RecorderKeepsCounts, CallKeepsCounts, UserKeepsCounts

LEMMA InitCounts == Init => AllCountsHold
<1> SUFFICES ASSUME Init, NEW m \in Monitors PROVE CountsHold(m)
  BY DEF AllCountsHold
<1>1. Flying(m) = {} /\ Counted(m) = {} /\ Failed(m) = {}
  BY DEF Init, Flying, Counted, Failed
<1>2. mon[m].busy.inFlight = 0 /\ mon[m].totals.ops = 0 /\ mon[m].totals.errors = 0
  BY DEF Init, NewMonitor, NewTracker, NoTotals
<1> QED BY <1>1, <1>2, FS_EmptySet DEF CountsHold

LEMMA CountsKept ==
    Spec /\ []ClockFits => [](ObservationInv /\ AllToldRightly /\ AllStartsHeard /\ AllCountsHold)
<1> QED BY ToldRightlyKept, InitHeard, HeardStep, InitCounts, CountsStep, PTL DEF Spec

\* BusyTracker: the operations in flight are those whose start was accepted and whose end was
\* not reported yet, whatever was registered, stamped or reset in between.
THEOREM InFlightIsCounted == Spec /\ []ClockFits => []InFlightIsExact
<1>1. ASSUME ObservationInv, AllCountsHold
      PROVE  InFlightIsExact
  <2> SUFFICES ASSUME NEW m \in Monitors
               PROVE  mon[m].busy.inFlight =
                        Cardinality({w \in Workers : /\ told[m][w] = [start |-> 1, finish |-> 0]
                                                     /\ rec[w].start >= mon[m].registered})
    BY DEF InFlightIsExact
  <2>1. \A w \in Workers : told[m][w] = [start |-> 1, finish |-> 0]
                           <=> told[m][w].start = 1 /\ told[m][w].finish = 0
    <3>1. \A w \in Workers : told[m][w] \in [start : Nat, finish : Nat]
      BY <1>1 DEF ObservationInv, Typed, MonitorsTyped
    <3> QED BY <3>1
  <2>2. Flying(m) = {w \in Workers : /\ told[m][w] = [start |-> 1, finish |-> 0]
                                     /\ rec[w].start >= mon[m].registered}
    BY <2>1 DEF Flying
  <2> QED BY <1>1, <2>2 DEF AllCountsHold, CountsHold
<1> QED BY <1>1, CountsKept, PTL

\* SummaryMonitor: while a live monitor is between notifications, the operations it has counted
\* are those of its kind that began since it was created or reset and have ended, each once.
THEOREM TotalsAreCounted == Spec /\ []ClockFits => []TotalsAreExact
<1>1. ASSUME ObservationInv, AllToldRightly, AllStartsHeard, AllCountsHold
      PROVE  TotalsAreExact
  <2> SUFFICES ASSUME NEW m \in Monitors, phase[m] = "live", \A w \in Workers : notifying[w] = "none"
               PROVE  LET ours == {w \in Workers : /\ KindOf[w] = monKind[m]
                                                   /\ rec[w].emitted
                                                   /\ rec[w].start >= mon[m].start}
                      IN  /\ mon[m].totals.ops = Cardinality(ours)
                          /\ mon[m].totals.errors = Cardinality({w \in ours : ~rec[w].ok})
    BY DEF TotalsAreExact
  <2> DEFINE ours == {w \in Workers : /\ KindOf[w] = monKind[m]
                                      /\ rec[w].emitted
                                      /\ rec[w].start >= mon[m].start}
  <2>1. m \in entries /\ mon[m].registered <= mon[m].start /\ mon[m].registered \in Nat /\ mon[m].start \in Nat
    BY <1>1 DEF ObservationInv, MonitorProtocol, Typed, MonitorsTyped, MonitorType
  <2>2. ASSUME NEW w \in Workers
        PROVE  told[m][w].finish = 1 /\ rec[w].start >= mon[m].registered /\ rec[w].start >= mon[m].start
               <=> KindOf[w] = monKind[m] /\ rec[w].emitted /\ rec[w].start >= mon[m].start
    <3>1. ToldRightly(m, w) /\ StartHeard(m, w) /\ rec[w].start \in Nat
          /\ told[m][w].start \in Nat /\ told[m][w].finish \in Nat
      BY <1>1 DEF AllToldRightly, AllStartsHeard, ObservationInv, Typed, RecordersTyped, MonitorsTyped
    <3>2. rec[w].emitted <=> Ended(w)
      BY <1>1 DEF ObservationInv, RecorderProtocol, Ended
    <3>3. ~Coming("start", w, m) /\ ~Coming("finish", w, m)
      BY DEF Coming
    <3>4. ASSUME told[m][w].finish = 1
          PROVE  KindOf[w] = monKind[m] /\ Ended(w)
      BY <3>1, <3>4 DEF ToldRightly
    <3>5. ASSUME KindOf[w] = monKind[m], Ended(w), rec[w].start >= mon[m].start
          PROVE  rec[w].start >= mon[m].registered /\ told[m][w].finish = 1
      <4>1. rec[w].start >= mon[m].registered
        BY <2>1, <3>1, <3>5
      <4>2. told[m][w].start > 0
        BY <2>1, <3>1, <3>3, <3>5, <4>1 DEF StartHeard
      <4> QED BY <2>1, <3>1, <3>3, <3>5, <4>1, <4>2 DEF ToldRightly
    <3> QED BY <3>2, <3>4, <3>5
  <2>3. Counted(m) = ours
    BY <2>2 DEF Counted
  <2>4. Failed(m) = {w \in ours : ~rec[w].ok}
    BY <2>2 DEF Failed
  <2>5. mon[m].totals.ops = Cardinality(Counted(m)) /\ mon[m].totals.errors = Cardinality(Failed(m))
    BY <1>1 DEF AllCountsHold, CountsHold
  <2> QED BY <2>3, <2>4, <2>5
<1> QED BY <1>1, CountsKept, PTL

-------------------------------------------------------------------------------
(* Busy time stays within the span, and readings grow.                     *)

\* The end of the span: when the monitor was stopped, or now.
Limit(m) == IF mon[m].stoppedEnd # 0 THEN mon[m].stoppedEnd ELSE clock

\* The stretches closed lie between the start of the span and the last of them; an open one
\* begins no earlier; and what was handed out fits the span.
BusyFits(n, t) ==
    /\ n.start <= n.busy.lastClosed /\ n.busy.closed <= n.busy.lastClosed - n.start
    /\ n.busy.inFlight > 0 => n.busy.lastClosed <= n.busy.since
    /\ n.busy.lastClosed <= t \/ n.busy.closed = 0
    /\ n.busy.emitted <= Larger(0, t - n.start)
BusyBounded(m) ==
    /\ BusyFits(mon[m], Limit(m)) /\ mon[m].busy.pending <= clock
    /\ mon[m].busy.lastClosed <= clock
AllBusyBounded == \A m \in Monitors : BusyBounded(m)

LEMMA ReadStaysWithin ==
    ASSUME NEW n \in MonitorType, NEW t \in Nat, BusyFits(n, t)
    PROVE  TrackerRead(n.busy, t).emitted <= Larger(0, t - n.start)
<1>1. n.busy \in TrackerType /\ n.start \in Nat
  BY DEF MonitorType
<1>2. PICK b \in TrackerType : b = n.busy
  BY <1>1
<1>3. PICK s \in Nat : s = n.start
  BY <1>1
<1>4. /\ b.closed \in Nat /\ b.lastClosed \in Nat /\ b.since \in Nat /\ b.emitted \in Nat /\ b.inFlight \in Nat
  BY DEF TrackerType
<1>5. /\ s <= b.lastClosed /\ b.closed <= b.lastClosed - s
      /\ b.inFlight > 0 => b.lastClosed <= b.since
      /\ b.lastClosed <= t \/ b.closed = 0
      /\ b.emitted <= Larger(0, t - s)
  BY <1>2, <1>3 DEF BusyFits
<1>6. CASE b.inFlight = 0
  <2>1. TrackerRead(b, t).emitted = Larger(b.emitted, b.closed)
    BY <1>6, TrackerReadEffect
  <2>2. b.closed <= Larger(0, t - s)
    BY <1>4, <1>5 DEF Larger
  <2> QED BY <1>2, <1>3, <1>4, <1>5, <2>1, <2>2 DEF Larger
<1>7. CASE b.inFlight > 0
  <2>1. TrackerRead(b, t).emitted = Larger(b.emitted, b.closed + Larger(0, t - b.since))
    BY <1>7, TrackerReadEffect
  <2>2. b.closed + Larger(0, t - b.since) <= Larger(0, t - s)
    BY <1>4, <1>5, <1>7 DEF Larger
  <2>3. PICK z : z = b.closed + Larger(0, t - b.since)
    OBVIOUS
  <2> QED BY <1>2, <1>3, <1>4, <1>5, <2>1, <2>2, <2>3 DEF Larger
<1> QED BY <1>4, <1>6, <1>7

\* A later limit only makes room.
LEMMA LaterFits ==
    ASSUME NEW n \in MonitorType, NEW t \in Nat, NEW r \in Nat, t <= r, BusyFits(n, t)
    PROVE  BusyFits(n, r)
<1>1. n.start \in Nat /\ n.busy \in TrackerType
  BY DEF MonitorType
<1>2. n.busy.lastClosed \in Nat /\ n.busy.emitted \in Nat
  BY <1>1 DEF TrackerType
<1>3. n.busy.emitted <= Larger(0, r - n.start)
  BY <1>1, <1>2 DEF BusyFits, Larger
<1>4. n.busy.lastClosed <= r \/ n.busy.closed = 0
  BY <1>1, <1>2 DEF BusyFits
<1> QED BY <1>3, <1>4 DEF BusyFits

LEMMA StartFits ==
    ASSUME NEW n \in MonitorType, NEW t \in Nat, NEW s \in Nat, BusyFits(n, t), n.busy.pending <= t,
           n.busy.lastClosed <= t, NEW k \in MonitorType, k.start = n.start, k.busy = TrackerStart(n.busy, s)
    PROVE  BusyFits(k, t) /\ k.busy.pending <= t /\ k.busy.lastClosed <= t
<1>1. PICK b \in TrackerType : b = n.busy
  BY DEF MonitorType
<1>2. /\ b.closed \in Nat /\ b.lastClosed \in Nat /\ b.since \in Nat /\ b.emitted \in Nat /\ b.inFlight \in Nat
  BY DEF TrackerType
<1>3. PICK c : c = k.busy
  OBVIOUS
<1>4. /\ c.closed = b.closed /\ c.emitted = b.emitted /\ c.pending = b.pending
      /\ c.lastClosed = b.lastClosed
      /\ b.inFlight = 0 => c.since = Larger(s, b.lastClosed)
      /\ b.inFlight # 0 => c.since = Smaller(b.since, Larger(s, b.lastClosed))
  <2>1. c = TrackerStart(b, s)
    BY <1>1, <1>3
  <2> QED BY ONLY <2>1, TrackerStartEffect
<1>5. b.lastClosed <= c.since
  <2>1. b.inFlight > 0 => b.lastClosed <= b.since
    BY <1>1 DEF BusyFits
  <2> QED BY <1>2, <1>4, <2>1 DEF Larger, Smaller
<1> QED BY <1>1, <1>3, <1>4, <1>5 DEF BusyFits

LEMMA FinishFits ==
    ASSUME NEW n \in MonitorType, NEW t \in Nat, NEW s \in Nat, s <= t, BusyFits(n, t), n.busy.pending <= t,
           n.busy.lastClosed <= t, NEW k \in MonitorType, k.start = n.start, k.busy = TrackerFinish(n.busy, s)
    PROVE  BusyFits(k, t) /\ k.busy.pending <= t /\ k.busy.lastClosed <= t
<1>1. PICK b \in TrackerType : b = n.busy
  BY DEF MonitorType
<1>2. /\ b.closed \in Nat /\ b.lastClosed \in Nat /\ b.since \in Nat /\ b.emitted \in Nat /\ b.inFlight \in Nat
      /\ b.pending \in Nat /\ n.start \in Nat
  BY DEF TrackerType, MonitorType
<1>3. PICK c : c = k.busy
  OBVIOUS
<1>4. c = TrackerFinish(b, s)
  BY <1>1, <1>3
<1>5. /\ n.start <= b.lastClosed /\ b.closed <= b.lastClosed - n.start
      /\ b.inFlight > 0 => b.lastClosed <= b.since
      /\ b.emitted <= Larger(0, t - n.start) /\ b.pending <= t /\ b.lastClosed <= t
  BY <1>1 DEF BusyFits
<1>6. c.emitted = b.emitted /\ c.since = b.since
  BY ONLY <1>4, TrackerFinishEffect
<1>7. CASE b.inFlight = 0
  <2>1. c = b
    BY ONLY <1>4, <1>7, TrackerFinishEffect
  <2> QED BY <1>1, <1>3, <2>1 DEF BusyFits
<1>8. CASE b.inFlight > 1
  <2>1. /\ c.pending = Larger(b.pending, s) /\ c.closed = b.closed /\ c.lastClosed = b.lastClosed
    BY ONLY <1>4, <1>8, TrackerFinishEffect
  <2>2. c.pending <= t
    BY <1>2, <1>5, <2>1 DEF Larger
  <2> QED BY <1>3, <1>2, <1>5, <1>6, <1>8, <2>1, <2>2 DEF BusyFits
<1>9. CASE b.inFlight = 1
  <2>1. PICK l \in Nat : l = Larger(b.pending, s)
    BY <1>2 DEF Larger
  <2>2. l <= t
    BY <1>2, <1>5, <2>1 DEF Larger
  <2>3. /\ c.inFlight = 0 /\ c.pending = 0
        /\ c.closed = b.closed + Larger(0, l - b.since) /\ c.lastClosed = Larger(b.lastClosed, l)
    <3>1. b.inFlight > 0
      BY <1>9
    <3>2. /\ c.inFlight = b.inFlight - 1 /\ c.pending = 0
          /\ c.closed = b.closed + Larger(0, Larger(b.pending, s) - b.since)
          /\ c.lastClosed = Larger(b.lastClosed, Larger(b.pending, s))
      BY ONLY <1>4, <1>9, <3>1, TrackerFinishEffect
    <3> QED BY <1>9, <2>1, <3>2
  <2>4. c.closed <= c.lastClosed - n.start
    BY <1>2, <1>5, <1>9, <2>3 DEF Larger
  <2>5. n.start <= c.lastClosed /\ c.lastClosed <= t
    BY <1>2, <1>5, <2>2, <2>3 DEF Larger
  <2> QED BY <1>3, <1>5, <1>6, <2>3, <2>4, <2>5 DEF BusyFits
<1> QED BY <1>2, <1>7, <1>8, <1>9

LEMMA LimitIsNat ==
    ASSUME ObservationInv, NEW m \in Monitors
    PROVE  /\ Limit(m) \in Nat /\ Limit(m) <= clock /\ clock \in Nat /\ mon[m] \in MonitorType
           /\ mon[m].busy.pending \in Nat /\ mon[m].busy.lastClosed \in Nat
           /\ mon[m].start \in Nat /\ mon[m].stoppedEnd \in Nat
<1>1. mon[m] \in MonitorType /\ clock \in Nat /\ mon[m].stoppedEnd <= clock
  BY DEF ObservationInv, Typed, MonitorsTyped, MonitorProtocol
<1>2. mon[m].stoppedEnd \in Nat /\ mon[m].busy \in TrackerType /\ mon[m].start \in Nat
  BY <1>1 DEF MonitorType
<1>3. mon[m].busy.pending \in Nat /\ mon[m].busy.lastClosed \in Nat
  BY <1>2 DEF TrackerType
<1>4. Limit(m) \in Nat /\ Limit(m) <= clock
  BY <1>1, <1>2 DEF Limit
<1> QED BY <1>1, <1>2, <1>3, <1>4

\* A step that leaves the monitor's tracker and span alone while time passes.
LEMMA StayingBounded ==
    ASSUME ObservationInv, NEW m \in Monitors, BusyBounded(m),
           mon'[m] = mon[m], clock' \in {clock, clock + 1}
    PROVE  BusyBounded(m)'
<1>1. PICK n \in MonitorType : n = mon[m]
  BY LimitIsNat
<1>2. PICK t \in Nat : t = Limit(m)
  BY LimitIsNat
<1>3. clock \in Nat /\ n.stoppedEnd \in Nat /\ n.busy.pending \in Nat /\ n.busy.lastClosed \in Nat
  BY <1>1, LimitIsNat
<1>4. PICK r \in Nat : r = Limit(m)' /\ t <= r
  <2>1. Limit(m)' \in Nat /\ Limit(m) <= Limit(m)'
    BY <1>1, <1>3 DEF Limit
  <2> QED BY <1>2, <2>1
<1>5. BusyFits(n, t) /\ n.busy.pending <= clock /\ n.busy.lastClosed <= clock
  BY <1>1, <1>2 DEF BusyBounded
<1>6. BusyFits(n, r)
  BY ONLY <1>4, <1>5, LaterFits
<1>7. n.busy.pending <= clock' /\ n.busy.lastClosed <= clock'
  BY <1>3, <1>5
<1>8. mon'[m] = n
  BY <1>1
<1>9. BusyFits(mon[m], Limit(m))'
  BY <1>4, <1>6, <1>8
<1> QED BY <1>7, <1>8, <1>9 DEF BusyBounded

LEMMA CallStaysBounded ==
    ASSUME ObservationInv, NEW w \in Workers, NEW m \in Monitors, CallStep(w, m), BusyBounded(m)
    PROVE  BusyBounded(m)'
<1>1. mon[m].stoppedEnd = 0 /\ mon'[m].stoppedEnd = mon[m].stoppedEnd /\ clock' = clock
  <2>1. m \in entries
    BY DEF CallStep, ObservationInv, NotifyProtocol
  <2>2. mon[m].stoppedEnd = 0
    BY <2>1 DEF ObservationInv, MonitorProtocol
  <2> QED BY <2>2 DEF CallStep, SameStamps
<1>2. Limit(m) = clock /\ Limit(m)' = clock
  BY <1>1 DEF Limit
<1>3. PICK t \in Nat : t = clock
  BY LimitIsNat
<1>4. PICK n \in MonitorType : n = mon[m]
  BY LimitIsNat
<1>5. PICK k \in MonitorType : k = mon'[m]
  BY DEF CallStep, MonitorsTyped
<1>6. k.start = n.start
  BY <1>4, <1>5 DEF CallStep, SameStamps
<1>7. BusyFits(n, t) /\ n.busy.pending <= t /\ n.busy.lastClosed <= t
  BY <1>2, <1>3, <1>4 DEF BusyBounded
<1>8. /\ rec[w].start \in Nat /\ rec[w].end \in Nat /\ rec[w].bytes \in Nat /\ rec[w].end <= t
  BY <1>3 DEF ObservationInv, Typed, RecordersTyped, RecorderProtocol
<1>9. BusyFits(k, t) /\ k.busy.pending <= t /\ k.busy.lastClosed <= t
  <2>1. CASE mon'[m] = mon[m]
    BY <1>4, <1>5, <1>7, <2>1
  <2>2. CASE notifying[w] = "start" /\ ~(rec[w].start < n.registered)
    <3>1. k = MonitorOnStart(n, rec[w])
      BY <1>4, <1>5, <2>2 DEF CallStep
    <3>2. k.busy = TrackerStart(n.busy, rec[w].start)
      BY <1>8, <2>2, <3>1, StartCallback
    <3>3. PICK s \in Nat : s = rec[w].start
      BY <1>8
    <3>4. k.busy = TrackerStart(n.busy, s)
      BY <3>2, <3>3
    <3> QED BY ONLY <1>6, <1>7, <3>4, StartFits
  <2>3. CASE notifying[w] = "finish" /\ ~(rec[w].start < n.registered)
    <3>1. k = MonitorOnFinish(n, rec[w])
      BY <1>4, <1>5, <2>3 DEF CallStep
    <3>2. k.busy = TrackerFinish(n.busy, rec[w].end)
      BY <1>8, <2>3, <3>1, FinishCallback
    <3>3. PICK s \in Nat : s = rec[w].end /\ s <= t
      BY <1>8
    <3>4. k.busy = TrackerFinish(n.busy, s)
      BY <3>2, <3>3
    <3> QED BY ONLY <1>6, <1>7, <3>3, <3>4, FinishFits
  <2>4. CASE rec[w].start < n.registered
    <3>1. k = MonitorOnStart(n, rec[w]) \/ k = MonitorOnFinish(n, rec[w])
      BY <1>4, <1>5 DEF CallStep
    <3>2. k = n
      BY <1>8, <2>4, <3>1, StartCallback, FinishCallback
    <3> QED BY <1>7, <3>2
  <2> QED BY <2>2, <2>3, <2>4 DEF CallStep
<1>10. BusyFits(mon[m], Limit(m))'
  BY <1>2, <1>3, <1>5, <1>9
<1> QED BY <1>1, <1>3, <1>5, <1>9, <1>10 DEF BusyBounded

\* A tracker that has just been reset at time t is within every span.
LEMMA ResetFits ==
    ASSUME NEW n \in MonitorType, NEW t \in Nat, NEW r \in Nat, n.start = t,
           NEW b \in TrackerType, n.busy = TrackerReset(b, t)
    PROVE  BusyFits(n, r) /\ n.busy.pending = 0 /\ n.busy.lastClosed = t
<1>1. PICK c : c = TrackerReset(b, t)
  OBVIOUS
<1>2. /\ c.inFlight = b.inFlight /\ c.closed = 0 /\ c.emitted = 0 /\ c.pending = 0 /\ c.since = t
      /\ c.lastClosed = t
  BY ONLY <1>1, TrackerResetEffect
<1>3. n.busy = c
  BY <1>1
<1> QED BY <1>2, <1>3 DEF BusyFits, Larger

LEMMA UserStaysBounded ==
    ASSUME ObservationInv, NEW u \in Users, NEW m \in Monitors, UserStepOn(u, m), BusyBounded(m)
    PROVE  BusyBounded(m)'
<1>1. Touches(u, m)
  BY UserStepTouches
<1>2. PICK t \in Nat, c \in Nat, n \in MonitorType : t = clock + 1 /\ c = count /\ n = mon[m]
  BY DEF ObservationInv, Typed, MonitorsTyped
<1>3. clock \in Nat /\ clock' \in {clock, clock + 1} /\ n.busy \in TrackerType /\ n.stoppedEnd \in Nat
      /\ Limit(m) <= clock /\ Limit(m) \in Nat /\ n.start \in Nat
      /\ n.busy.pending \in Nat /\ n.busy.lastClosed \in Nat
  BY <1>1, <1>2, LimitIsNat DEF Touches, MonitorType
<1>4. BusyFits(n, Limit(m)) /\ n.busy.pending <= clock /\ n.busy.lastClosed <= clock
  BY <1>2 DEF BusyBounded
<1>5. PICK k : k = mon'[m]
  OBVIOUS
<1>6. k \in MonitorType
  BY <1>1, <1>5 DEF Touches, Typed, MonitorsTyped
<1>7. PICK r \in Nat : r = Limit(m)'
  <2>1. k.stoppedEnd \in Nat
    BY <1>6 DEF MonitorType
  <2> QED BY <1>3, <1>5, <2>1 DEF Limit
<1>8. CASE Registers(u, m) \/ Asks(u, m) \/ Stops(u, m) \/ Destroys(u, m)
  <2>1. mon'[m] = mon[m]
    BY <1>8 DEF Registers, Asks, Stops, Destroys
  <2> QED BY <1>3, <2>1, StayingBounded
<1>9. CASE Seals(u, m)
  <2>1. k.start = n.start /\ k.busy = n.busy /\ k.stoppedEnd = clock + 1 /\ clock' = clock + 1
    BY <1>2, <1>5, <1>9 DEF Seals
  <2>2. r = clock + 1
    BY <1>3, <1>5, <1>7, <2>1 DEF Limit
  <2>3. PICK l \in Nat : l = Limit(m) /\ l <= r
    BY <1>3, <2>2
  <2>4. BusyFits(n, r)
    BY <1>4, <2>3, LaterFits
  <2>5. BusyFits(k, r)
    BY <2>1, <2>4 DEF BusyFits
  <2>6. k.busy.pending <= clock' /\ k.busy.lastClosed <= clock'
    BY <1>3, <1>4, <2>1
  <2>7. BusyFits(mon[m], Limit(m))'
    BY <1>5, <1>7, <2>5
  <2> QED BY <1>5, <2>6, <2>7 DEF BusyBounded
<1>10. CASE Reads(u, m)
  <2>1. k = AfterRead(n, t) /\ clock' = clock + 1
    BY <1>2, <1>5, <1>10 DEF Reads
  <2>2. SameStamps(k, n) /\ k.busy = TrackerRead(n.busy, ReadEnd(n, t))
    BY <2>1, ReadEffect
  <2>3. r = ReadEnd(n, t)
    BY <1>2, <1>5, <1>7, <2>1, <2>2 DEF Limit, ReadEnd, SameStamps
  <2>4. PICK l \in Nat : l = Limit(m) /\ l <= r
    <3>1. Limit(m) <= r
      BY <1>2, <1>3, <2>3 DEF Limit, ReadEnd
    <3> QED BY <1>3, <3>1
  <2>5. BusyFits(n, r)
    BY <1>4, <2>4, LaterFits
  <2>6. k.busy.emitted <= Larger(0, r - n.start)
    BY <2>2, <2>3, <2>5, ReadStaysWithin
  <2>7. PICK b \in TrackerType : b = n.busy
    BY <1>3
  <2>8. k.busy = TrackerRead(b, r)
    BY <2>2, <2>3, <2>7
  <2>9. /\ k.busy.inFlight = b.inFlight /\ k.busy.closed = b.closed
        /\ k.busy.pending = b.pending /\ k.busy.since = b.since /\ k.busy.lastClosed = b.lastClosed
    BY ONLY <2>8, TrackerReadEffect
  <2>10. BusyFits(k, r)
    BY <2>2, <2>5, <2>6, <2>7, <2>9 DEF BusyFits, SameStamps
  <2>11. k.busy.pending <= clock' /\ k.busy.lastClosed <= clock'
    BY <1>3, <1>4, <2>1, <2>7, <2>9
  <2>12. BusyFits(mon[m], Limit(m))'
    BY <1>5, <1>7, <2>10
  <2> QED BY <1>5, <2>11, <2>12 DEF BusyBounded
<1>11. CASE Resets(u, m) \/ Stamps(u, m)
  <2>1. /\ k = MonitorReset(n, t, c) \/ k = StampMonitor(n, t, c)
        /\ clock' = t
    BY <1>2, <1>5, <1>11 DEF Resets, Stamps
  <2>2. PICK b \in TrackerType : b = n.busy
    BY <1>3
  <2>3. k.start = t /\ k.busy = TrackerReset(b, t)
    <3>1. CASE k = MonitorReset(n, t, c)
      <4>1. k.start = t /\ k.busy = TrackerReset(n.busy, t)
        BY ONLY <3>1, ResetEffect
      <4> QED BY <2>2, <4>1
    <3>2. CASE k = StampMonitor(n, t, c)
      <4>1. k.start = t /\ k.busy = TrackerReset(n.busy, t)
        BY ONLY <3>2, StampEffect
      <4> QED BY <2>2, <4>1
    <3> QED BY <2>1, <3>1, <3>2
  <2>4. BusyFits(k, r) /\ k.busy.pending = 0 /\ k.busy.lastClosed = t
    BY <1>6, <2>3, ResetFits
  <2>5. BusyFits(mon[m], Limit(m))'
    BY <1>5, <1>7, <2>4
  <2> QED BY <1>5, <2>1, <2>4, <2>5 DEF BusyBounded
<1> QED BY <1>8, <1>9, <1>10, <1>11 DEF UserStepOn

LEMMA BoundedStep == ObservationInv /\ AllBusyBounded /\ [Next]_vars => AllBusyBounded'
<1> SUFFICES ASSUME ObservationInv, AllBusyBounded, [Next]_vars, NEW x \in Monitors PROVE BusyBounded(x)'
  BY DEF AllBusyBounded
<1>1. \/ Still
      \/ \E w \in Workers : RecorderStep(w) \/ NotifyStep(w) \/ \E m \in Monitors : CallStep(w, m)
      \/ \E u \in Users, m \in Monitors : UserStepOn(u, m)
  BY StepKinds DEF ObservationInv
<1>2. BusyBounded(x)
  BY DEF AllBusyBounded
<1>3. CASE mon'[x] = mon[x] /\ clock' \in {clock, clock + 1}
  BY <1>2, <1>3, StayingBounded
<1>4. CASE Still \/ \E w \in Workers : RecorderStep(w) \/ NotifyStep(w)
  BY <1>3, <1>4 DEF Still, RecorderStep, NotifyStep, Opens, Ends, StaysQuiet
<1>5. CASE \E w \in Workers, m \in Monitors : CallStep(w, m)
  <2>1. PICK w \in Workers, m \in Monitors : CallStep(w, m)
    BY <1>5
  <2>2. CASE x = m
    BY <1>2, <2>1, <2>2, CallStaysBounded
  <2>3. CASE x # m
    BY <1>3, <2>1, <2>3 DEF CallStep
  <2> QED BY <2>2, <2>3
<1>6. CASE \E u \in Users, m \in Monitors : UserStepOn(u, m)
  <2>1. PICK u \in Users, m \in Monitors : UserStepOn(u, m)
    BY <1>6
  <2>2. CASE x = m
    BY <1>2, <2>1, <2>2, UserStaysBounded
  <2>3. CASE x # m
    BY <1>3, <2>1, <2>3, UserStepTouches DEF Touches
  <2> QED BY <2>2, <2>3
<1> QED BY <1>1, <1>4, <1>5, <1>6

LEMMA InitBounded == Init => AllBusyBounded
BY DEF Init, AllBusyBounded, BusyBounded, BusyFits, Limit, NewMonitor, NewTracker, Larger

LEMMA BoundedKept == Spec => [](ObservationInv /\ AllBusyBounded)
<1> QED BY ProtocolKept, InitBounded, BoundedStep, PTL DEF Spec

SummaryType == [start : Nat, end : Nat, totals : TotalsType, busy : Nat, count : Nat]

\* A reading is taken at the limit of the span, and is what the tracker then holds.
LEMMA SummaryEffect ==
    ASSUME NEW n \in MonitorType, NEW t \in Nat, NEW c \in Nat
    PROVE  /\ Summary(n, t, c) \in SummaryType /\ Summary(n, t, c).start = n.start
           /\ Summary(n, t, c).end = ReadEnd(n, t) /\ Summary(n, t, c).totals = n.totals
           /\ Summary(n, t, c).busy = TrackerRead(n.busy, ReadEnd(n, t)).emitted
           /\ n.stoppedEnd # 0 => Summary(n, t, c) = Summary(n, 0, 0)
<1>1. n.start \in Nat /\ n.totals \in TotalsType /\ n.busy \in TrackerType /\ n.base \in Nat /\ n.final \in Nat
  BY DEF MonitorType
<1>2. PICK e \in Nat : e = ReadEnd(n, t)
  BY ReadEffect
<1>3. PICK b \in Nat : b = AfterRead(n, t).busy.emitted
  <2>1. AfterRead(n, t) \in MonitorType
    BY ReadEffect
  <2>2. AfterRead(n, t).busy \in TrackerType
    BY <2>1 DEF MonitorType
  <2>3. AfterRead(n, t).busy.emitted \in Nat
    BY <2>2 DEF TrackerType
  <2> QED BY <2>3
<1>4. b = TrackerRead(n.busy, e).emitted
  BY <1>2, <1>3, ReadEffect
<1>5. PICK s \in Nat : s = Spent(IF n.stoppedEnd # 0 THEN n.final ELSE c, n.base)
  <2>1. Spent(IF n.stoppedEnd # 0 THEN n.final ELSE c, n.base) \in Nat
    BY <1>1 DEF Spent, Larger
  <2> QED BY <2>1
<1>6. PICK r : r = [start |-> n.start, end |-> e, totals |-> n.totals, busy |-> b, count |-> s]
  OBVIOUS
<1>7. r = Summary(n, t, c)
  BY <1>2, <1>3, <1>5, <1>6 DEF Summary
<1>8. r \in SummaryType /\ r.start = n.start /\ r.end = e /\ r.totals = n.totals /\ r.busy = b
  BY <1>1, <1>6 DEF SummaryType
<1>9. ASSUME n.stoppedEnd # 0
      PROVE  r = Summary(n, 0, 0)
  <2>1. e = ReadEnd(n, 0) /\ AfterRead(n, t) = AfterRead(n, 0)
    BY <1>2, <1>9 DEF ReadEnd, AfterRead
  <2>2. s = Spent(IF n.stoppedEnd # 0 THEN n.final ELSE 0, n.base)
    BY <1>5, <1>9
  <2>3. b = AfterRead(n, 0).busy.emitted
    BY <1>3, <2>1
  <2> QED BY <1>6, <2>1, <2>2, <2>3 DEF Summary
<1> HIDE <1>6
<1> QED BY <1>2, <1>4, <1>7, <1>8, <1>9

ReadingWithin(m) == reading[m] # NoReading => reading[m].busy <= Wall(reading[m])

LEMMA NewReadingWithin ==
    ASSUME NEW n \in MonitorType, NEW t \in Nat, NEW c \in Nat, BusyFits(n, ReadEnd(n, t))
    PROVE  Summary(n, t, c).busy <= Wall(Summary(n, t, c))
<1>1. PICK s : s = Summary(n, t, c)
  OBVIOUS
<1>2. PICK e \in Nat : e = ReadEnd(n, t)
  BY ReadEffect
<1>3. s.start = n.start /\ s.end = e /\ s.busy = TrackerRead(n.busy, e).emitted
  BY <1>1, <1>2, SummaryEffect
<1>4. s.busy <= Larger(0, e - n.start)
  BY <1>2, <1>3, ReadStaysWithin
<1> QED BY <1>1, <1>3, <1>4 DEF Wall

\* The span that ends now, or ended when the monitor was stopped, has room for its busy time.
LEMMA FitsWhenRead ==
    ASSUME ObservationInv, AllBusyBounded, NEW m \in Monitors, NEW t \in Nat, t >= clock
    PROVE  BusyFits(mon[m], ReadEnd(mon[m], t)) /\ Limit(m) <= ReadEnd(mon[m], t)
<1>1. PICK n \in MonitorType : n = mon[m]
  BY LimitIsNat
<1>2. PICK l \in Nat : l = Limit(m)
  BY LimitIsNat
<1>3. PICK e \in Nat : e = ReadEnd(n, t)
  BY ReadEffect
<1>4. l <= e
  BY <1>1, <1>2, <1>3, LimitIsNat DEF Limit, ReadEnd
<1>5. BusyFits(n, l)
  BY <1>1, <1>2 DEF AllBusyBounded, BusyBounded
<1>6. BusyFits(n, e)
  BY ONLY <1>4, <1>5, LaterFits
<1> QED BY <1>1, <1>2, <1>3, <1>4, <1>6

LEMMA WithinStep ==
    ObservationInv /\ AllBusyBounded /\ BusyWithinWall /\ [Next]_vars => BusyWithinWall'
<1> SUFFICES ASSUME ObservationInv, AllBusyBounded, BusyWithinWall, [Next]_vars, NEW x \in Monitors
             PROVE  ReadingWithin(x)'
  BY DEF BusyWithinWall, ReadingWithin
<1>1. \/ Still
      \/ \E w \in Workers : RecorderStep(w) \/ NotifyStep(w) \/ \E m \in Monitors : CallStep(w, m)
      \/ \E u \in Users, m \in Monitors : UserStepOn(u, m)
  BY StepKinds DEF ObservationInv
<1>2. CASE reading'[x] = reading[x]
  BY <1>2 DEF BusyWithinWall, ReadingWithin
<1>3. CASE \E u \in Users : Reads(u, x) \/ Destroys(u, x)
  <2>1. PICK u \in Users : Reads(u, x) \/ Destroys(u, x)
    BY <1>3
  <2>2. PICK n \in MonitorType : n = mon[x]
    BY LimitIsNat
  <2>3. PICK t \in Nat, c \in Nat : reading'[x] = Summary(n, t, c) /\ t >= clock
    <3>1. clock \in Nat /\ clock + 1 \in Nat /\ count \in Nat /\ user[u].count \in Nat
      BY DEF ObservationInv, Typed, MonitorsTyped, UsersTyped
    <3>2. reading'[x] = Summary(n, clock + 1, user[u].count) \/ reading'[x] = Summary(n, clock, count)
      BY <2>1, <2>2 DEF Reads, Destroys
    <3>3. clock >= clock /\ clock + 1 >= clock
      BY <3>1
    <3> QED BY <3>1, <3>2, <3>3
  <2>4. BusyFits(n, ReadEnd(n, t))
    BY <2>2, <2>3, FitsWhenRead
  <2>5. Summary(n, t, c).busy <= Wall(Summary(n, t, c))
    BY ONLY <2>4, NewReadingWithin
  <2> QED BY <2>3, <2>5 DEF ReadingWithin, Wall
<1>4. CASE \E u \in Users, m \in Monitors : UserStepOn(u, m)
  <2>1. PICK u \in Users, m \in Monitors : UserStepOn(u, m)
    BY <1>4
  <2>2. Touches(u, m)
    BY <2>1, UserStepTouches
  <2>3. CASE x # m
    BY <1>2, <2>2, <2>3 DEF Touches
  <2>4. CASE x = m
    BY <1>2, <1>3, <2>1, <2>4 DEF UserStepOn, Registers, Stamps, Asks, Resets, Stops, Seals
  <2> QED BY <2>3, <2>4
<1>5. CASE \/ Still
           \/ \E w \in Workers : RecorderStep(w) \/ NotifyStep(w) \/ \E m \in Monitors : CallStep(w, m)
  BY <1>2, <1>5 DEF Still, RecorderStep, NotifyStep, CallStep
<1> QED BY <1>1, <1>4, <1>5

\* Summary::busy: however the operations overlap, and whenever the monitor is reset, stopped and
\* read, the busy time of a reading is no more than its wall time.
THEOREM BusyIsWithinWall == Spec => []BusyWithinWall
<1>1. Init => BusyWithinWall
  BY DEF Init, BusyWithinWall
<1> QED BY <1>1, BoundedKept, WithinStep, PTL DEF Spec

\* The last reading, against what the monitor holds now.
ReadingKept(m) ==
    reading[m] # NoReading =>
        /\ reading[m] \in SummaryType
        /\ reading[m].start <= mon[m].start /\ reading[m].end <= Limit(m)
        /\ phase[m] # "destroyed" /\ reading[m].start = mon[m].start =>
              /\ reading[m].busy <= mon[m].busy.emitted /\ reading[m].totals.ops <= mon[m].totals.ops
              /\ mon[m].stoppedEnd # 0 /\ reading[m].end = mon[m].stoppedEnd
                    => reading[m] = Summary(mon[m], 0, 0)
AllReadingsKept == \A m \in Monitors : ReadingKept(m)

LEMMA SummaryFields ==
    ASSUME NEW s \in SummaryType
    PROVE  s.start \in Nat /\ s.end \in Nat /\ s.busy \in Nat /\ s.totals.ops \in Nat
<1>1. s.start \in Nat /\ s.end \in Nat /\ s.busy \in Nat /\ s.totals \in TotalsType
  BY DEF SummaryType
<1>2. s.totals.ops \in Nat
  BY <1>1 DEF TotalsType
<1> QED BY <1>1, <1>2

LEMMA MonitorFields ==
    ASSUME NEW n \in MonitorType
    PROVE  /\ n.start \in Nat /\ n.stoppedEnd \in Nat /\ n.busy \in TrackerType /\ n.busy.emitted \in Nat
           /\ n.totals.ops \in Nat
<1>1. n.start \in Nat /\ n.stoppedEnd \in Nat /\ n.busy \in TrackerType /\ n.totals \in TotalsType
  BY DEF MonitorType
<1>2. n.busy.emitted \in Nat /\ n.totals.ops \in Nat
  BY <1>1 DEF TrackerType, TotalsType
<1> QED BY <1>1, <1>2

LEMMA LimitGrows ==
    ASSUME ObservationInv, NEW m \in Monitors, mon'[m].stoppedEnd = mon[m].stoppedEnd,
           clock' \in {clock, clock + 1}
    PROVE  Limit(m)' \in Nat /\ Limit(m) <= Limit(m)'
BY LimitIsNat DEF Limit

\* A reading taken before is kept while its monitor only moves on.
LEMMA StayingKept ==
    ASSUME ObservationInv, NEW m \in Monitors, ReadingKept(m), reading'[m] = reading[m],
           clock' \in {clock, clock + 1}, phase[m] = "destroyed" => phase'[m] = "destroyed",
           mon'[m] = mon[m]
    PROVE  ReadingKept(m)'
<1>1. CASE reading[m] = NoReading
  BY <1>1 DEF ReadingKept
<1>2. CASE reading[m] # NoReading
  <2>1. PICK s \in SummaryType : s = reading[m]
    BY <1>2 DEF ReadingKept
  <2>2. s.end <= Limit(m)'
    <3>1. s.end <= Limit(m) /\ s.end \in Nat
      BY <1>2, <2>1, SummaryFields DEF ReadingKept
    <3> QED BY <3>1, LimitGrows, LimitIsNat
  <2> QED BY <1>2, <2>1, <2>2 DEF ReadingKept
<1> QED BY <1>1, <1>2

LEMMA CallKeepsReading ==
    ASSUME ObservationInv, NEW w \in Workers, NEW m \in Monitors, CallStep(w, m), ReadingKept(m)
    PROVE  ReadingKept(m)'
<1>1. PICK n \in MonitorType : n = mon[m]
  BY LimitIsNat
<1>2. PICK k \in MonitorType : k = mon'[m]
  BY DEF CallStep, MonitorsTyped
<1>3. SameStamps(k, n) /\ UNCHANGED <<clock, phase, reading>>
  BY <1>1, <1>2 DEF CallStep
<1>4. n.stoppedEnd = 0
  <2>1. m \in entries
    BY DEF CallStep, ObservationInv, NotifyProtocol
  <2> QED BY <1>1, <2>1 DEF ObservationInv, MonitorProtocol
<1>5. /\ rec[w].start \in Nat /\ rec[w].end \in Nat /\ rec[w].bytes \in Nat
  BY DEF ObservationInv, Typed, RecordersTyped
<1>6. k.busy.emitted = n.busy.emitted /\ k.totals.ops >= n.totals.ops
  <2>1. PICK s \in Nat, e \in Nat, b \in TrackerType : s = rec[w].start /\ e = rec[w].end /\ b = n.busy
    BY <1>5, MonitorFields
  <2>2. n.totals.ops \in Nat
    BY MonitorFields
  <2>3. TrackerStart(b, s).emitted = b.emitted /\ TrackerFinish(b, e).emitted = b.emitted
    BY ONLY TrackerStartEffect, TrackerFinishEffect
  <2>4. CASE k = MonitorOnStart(n, rec[w])
    <3>1. k.totals = n.totals /\ (k = n \/ k.busy = TrackerStart(n.busy, rec[w].start))
      BY ONLY <1>5, <2>4, StartCallback
    <3> QED BY <2>1, <2>2, <2>3, <3>1
  <2>5. CASE k = MonitorOnFinish(n, rec[w])
    <3>1. k = n \/ /\ k.busy = TrackerFinish(n.busy, rec[w].end)
                   /\ k.totals = n.totals \/ k.totals.ops = n.totals.ops + 1
      BY ONLY <1>5, <2>5, FinishCallback
    <3> QED BY <2>1, <2>2, <2>3, <3>1
  <2> QED BY <1>1, <1>2, <2>4, <2>5 DEF CallStep
<1>7. k.start = n.start /\ k.stoppedEnd = 0 /\ Limit(m)' = Limit(m)
  BY <1>1, <1>2, <1>3, <1>4 DEF SameStamps, Limit
<1>8. CASE reading[m] = NoReading
  BY <1>3, <1>8 DEF ReadingKept
<1>9. CASE reading[m] # NoReading
  <2>1. PICK s \in SummaryType : s = reading[m]
    BY <1>9 DEF ReadingKept
  <2>2. /\ s.start <= n.start /\ s.end <= Limit(m)
        /\ phase[m] # "destroyed" /\ s.start = n.start => s.busy <= n.busy.emitted /\ s.totals.ops <= n.totals.ops
    BY <1>1, <1>9, <2>1 DEF ReadingKept
  <2>3. phase[m] # "destroyed" /\ s.start = k.start => s.busy <= k.busy.emitted /\ s.totals.ops <= k.totals.ops
    BY <1>6, <1>7, <2>2, SummaryFields, MonitorFields
  <2>4. reading'[m] = s /\ mon'[m] = k /\ phase'[m] = phase[m]
    BY <1>2, <1>3, <2>1
  <2> QED BY <1>7, <2>2, <2>3, <2>4 DEF ReadingKept
<1> QED BY <1>8, <1>9

\* Reading a stopped monitor again gives the same reading.
LEMMA StoppedReadsAlike ==
    ASSUME NEW n \in MonitorType, NEW t \in Nat, n.stoppedEnd # 0
    PROVE  Summary(AfterRead(n, t), 0, 0) = Summary(n, 0, 0)
<1>1. PICK k \in MonitorType : k = AfterRead(n, t)
  BY ReadEffect
<1>2. PICK e \in Nat : e = n.stoppedEnd
  BY MonitorFields
<1>3. PICK b \in TrackerType : b = n.busy
  BY MonitorFields
<1>4. ReadEnd(n, t) = e /\ ReadEnd(n, 0) = e
  BY <1>2 DEF ReadEnd
<1>5. SameStamps(k, n) /\ k.totals = n.totals /\ k.busy = TrackerRead(b, e)
  BY ZenonT(30), <1>1, <1>3, <1>4, ReadEffect
<1>6. ReadEnd(k, 0) = e /\ k.stoppedEnd # 0
  BY <1>2, <1>5 DEF SameStamps, ReadEnd
<1>7. PICK c \in TrackerType : c = TrackerRead(b, e)
  BY TrackerTypes
<1>8. TrackerRead(c, e).emitted = c.emitted
  <2>1. /\ c.inFlight = b.inFlight /\ c.closed = b.closed /\ c.since = b.since
        /\ b.inFlight > 0 => c.emitted = Larger(b.emitted, b.closed + Larger(0, e - b.since))
        /\ b.inFlight = 0 => c.emitted = Larger(b.emitted, b.closed)
    BY ONLY <1>7, TrackerReadEffect
  <2>2. /\ c.inFlight > 0 => TrackerRead(c, e).emitted = Larger(c.emitted, c.closed + Larger(0, e - c.since))
        /\ c.inFlight = 0 => TrackerRead(c, e).emitted = Larger(c.emitted, c.closed)
    BY ONLY TrackerReadEffect
  <2>3. b.inFlight \in Nat /\ b.emitted \in Nat /\ b.closed \in Nat /\ b.since \in Nat
    BY DEF TrackerType
  <2>4. CASE b.inFlight = 0
    BY <2>1, <2>2, <2>3, <2>4 DEF Larger
  <2>5. CASE b.inFlight > 0
    <3>1. PICK z \in Nat : z = b.closed + Larger(0, e - b.since)
      BY <2>3 DEF Larger
    <3>2. c.emitted = Larger(b.emitted, z) /\ TrackerRead(c, e).emitted = Larger(c.emitted, z)
      BY <2>1, <2>2, <2>5, <3>1
    <3> QED BY <2>3, <3>1, <3>2 DEF Larger
  <2> QED BY <2>3, <2>4, <2>5
<1>9. AfterRead(k, 0).busy.emitted = c.emitted
  <2>1. AfterRead(k, 0).busy = TrackerRead(k.busy, ReadEnd(k, 0))
    BY ReadEffect
  <2> QED BY <1>5, <1>6, <1>7, <1>8, <2>1
<1>10. AfterRead(n, 0).busy.emitted = c.emitted
  <2>1. AfterRead(n, 0).busy = TrackerRead(n.busy, ReadEnd(n, 0))
    BY ReadEffect
  <2> QED BY <1>3, <1>4, <1>7, <2>1
<1>11. /\ k.start = n.start /\ k.base = n.base /\ k.final = n.final /\ k.totals = n.totals
  BY <1>5 DEF SameStamps
<1>12. Summary(k, 0, 0) = [start |-> n.start, end |-> e, totals |-> n.totals, busy |-> c.emitted,
                           count |-> Spent(n.final, n.base)]
  BY <1>6, <1>9, <1>11 DEF Summary
<1>13. Summary(n, 0, 0) = [start |-> n.start, end |-> e, totals |-> n.totals, busy |-> c.emitted,
                           count |-> Spent(n.final, n.base)]
  BY <1>4, <1>10 DEF Summary
<1> QED BY <1>1, <1>12, <1>13

LEMMA UserKeepsReading ==
    ASSUME ObservationInv, NEW u \in Users, NEW m \in Monitors, UserStepOn(u, m), ReadingKept(m)
    PROVE  ReadingKept(m)'
<1>1. Touches(u, m)
  BY UserStepTouches
<1>2. PICK t \in Nat, c \in Nat, n \in MonitorType : t = clock + 1 /\ c = count /\ n = mon[m]
  BY DEF ObservationInv, Typed, MonitorsTyped
<1>3. /\ clock \in Nat /\ clock' \in {clock, clock + 1} /\ Limit(m) \in Nat /\ Limit(m) <= clock
      /\ n.start <= clock
  BY <1>1, <1>2, LimitIsNat DEF Touches, ObservationInv, MonitorProtocol
<1>4. PICK k \in MonitorType : k = mon'[m]
  BY <1>1 DEF Touches, Typed, MonitorsTyped
<1>5. n.start \in Nat /\ n.stoppedEnd \in Nat /\ n.busy.emitted \in Nat /\ n.totals.ops \in Nat
  BY MonitorFields
<1>6. CASE Registers(u, m) \/ Asks(u, m) \/ Stops(u, m)
  BY <1>3, <1>6, StayingKept DEF Registers, Asks, Stops
<1>7. CASE Seals(u, m) \/ Resets(u, m) \/ Stamps(u, m)
  <2>1. reading'[m] = reading[m] /\ clock' = t
    BY <1>2, <1>7 DEF Seals, Resets, Stamps
  <2>2. CASE reading[m] = NoReading
    BY <2>1, <2>2 DEF ReadingKept
  <2>3. CASE reading[m] # NoReading
    <3>1. PICK s \in SummaryType : s = reading[m]
      BY <2>3 DEF ReadingKept
    <3>2. /\ s.start <= n.start /\ s.end <= Limit(m)
          /\ phase[m] # "destroyed" /\ s.start = n.start => s.busy <= n.busy.emitted /\ s.totals.ops <= n.totals.ops
      BY <1>2, <2>3, <3>1 DEF ReadingKept
    <3>3. s.start \in Nat /\ s.end \in Nat
      BY SummaryFields
    <3>4. CASE Seals(u, m)
      <4>1. /\ k.start = n.start /\ k.busy = n.busy /\ k.totals = n.totals /\ k.stoppedEnd = t
            /\ phase[m] # "destroyed"
        BY <1>2, <1>4, <3>4 DEF Seals, ObservationInv, UserProtocol
      <4>2. Limit(m)' = t
        BY <1>2, <1>3, <1>4, <4>1 DEF Limit
      <4>3. s.end < t /\ s.end <= Limit(m)'
        BY <1>2, <1>3, <3>2, <3>3, <4>2
      <4> QED BY <1>4, <2>1, <3>1, <3>2, <3>3, <4>1, <4>3 DEF ReadingKept
    <3>5. CASE Resets(u, m) \/ Stamps(u, m)
      <4>1. k = MonitorReset(n, t, c) \/ k = StampMonitor(n, t, c)
        BY <1>2, <1>4, <3>5 DEF Resets, Stamps
      <4>2. k.start = t /\ k.stoppedEnd = n.stoppedEnd
        <5>1. CASE k = MonitorReset(n, t, c)
          BY ONLY <5>1, ResetEffect
        <5>2. CASE k = StampMonitor(n, t, c)
          BY ONLY <5>2, StampEffect
        <5> QED BY <4>1, <5>1, <5>2
      <4>3. Limit(m)' \in Nat /\ Limit(m) <= Limit(m)'
        BY <1>2, <1>3, <1>4, <4>2, LimitGrows
      <4>4. s.start < k.start /\ s.end <= Limit(m)'
        BY <1>2, <1>3, <1>5, <3>2, <3>3, <4>2, <4>3
      <4>5. reading'[m] = s /\ mon'[m] = k
        BY <1>4, <2>1, <3>1
      <4> QED BY <3>3, <4>2, <4>4, <4>5 DEF ReadingKept
    <3> QED BY <1>7, <3>4, <3>5
  <2> QED BY <2>2, <2>3
<1>8. CASE Reads(u, m)
  <2>1. user[u].count \in Nat
    BY DEF ObservationInv, Typed, UsersTyped
  <2>2. PICK d \in Nat : d = user[u].count
    BY <2>1
  <2>3. PICK s : s = Summary(n, t, d)
    OBVIOUS
  <2>4. reading'[m] = s /\ k = AfterRead(n, t) /\ clock' = t
    BY <1>2, <1>4, <1>8, <2>2, <2>3 DEF Reads
  <2>5. PICK e \in Nat : e = ReadEnd(n, t)
    BY ReadEffect
  <2>6. /\ s \in SummaryType /\ s.start = n.start /\ s.end = e /\ s.totals = n.totals
        /\ s.busy = TrackerRead(n.busy, e).emitted /\ (n.stoppedEnd # 0 => s = Summary(n, 0, 0))
    BY <2>3, <2>5, SummaryEffect
  <2>7. SameStamps(k, n) /\ k.totals = n.totals /\ k.busy = TrackerRead(n.busy, e)
    BY <2>4, <2>5, ReadEffect
  <2>8. Limit(m)' = e
    BY <1>2, <1>4, <2>4, <2>5, <2>7 DEF Limit, ReadEnd, SameStamps
  <2>9. n.stoppedEnd # 0 => s = Summary(k, 0, 0)
    BY <2>4, <2>6, StoppedReadsAlike
  <2>10. /\ s.start <= k.start /\ s.end <= Limit(m)' /\ s.busy <= k.busy.emitted /\ s.totals.ops <= k.totals.ops
    BY <1>5, <2>6, <2>7, <2>8, SummaryFields DEF SameStamps
  <2>11. k.stoppedEnd = n.stoppedEnd /\ mon'[m] = k
    BY <1>4, <2>7 DEF SameStamps
  <2> QED BY <2>4, <2>6, <2>9, <2>10, <2>11 DEF ReadingKept
<1>9. CASE Destroys(u, m)
  <2>1. PICK t0 \in Nat : t0 = clock
    BY <1>3
  <2>2. PICK s : s = Summary(n, t0, c)
    OBVIOUS
  <2>3. reading'[m] = s /\ mon'[m] = n /\ phase'[m] = "destroyed" /\ phase[m] = "stopped" /\ clock' = clock
    BY <1>2, <1>9, <2>1, <2>2 DEF Destroys
  <2>4. s \in SummaryType /\ s.start = n.start /\ s.end = ReadEnd(n, t0)
    BY <2>2, SummaryEffect
  <2>5. Limit(m)' = ReadEnd(n, t0)
    BY <1>2, <2>1, <2>3 DEF Limit, ReadEnd
  <2>6. s.start <= n.start /\ s.end <= Limit(m)'
    BY <1>5, <2>4, <2>5, SummaryFields
  <2> QED BY <2>3, <2>4, <2>6 DEF ReadingKept
<1> QED BY <1>6, <1>7, <1>8, <1>9 DEF UserStepOn

LEMMA ReadingsStep == ObservationInv /\ AllReadingsKept /\ [Next]_vars => AllReadingsKept'
<1> SUFFICES ASSUME ObservationInv, AllReadingsKept, [Next]_vars, NEW x \in Monitors PROVE ReadingKept(x)'
  BY DEF AllReadingsKept
<1>1. \/ Still
      \/ \E w \in Workers : RecorderStep(w) \/ NotifyStep(w) \/ \E m \in Monitors : CallStep(w, m)
      \/ \E u \in Users, m \in Monitors : UserStepOn(u, m)
  BY StepKinds DEF ObservationInv
<1>2. ReadingKept(x)
  BY DEF AllReadingsKept
<1>3. CASE /\ mon'[x] = mon[x] /\ clock' \in {clock, clock + 1}
           /\ reading'[x] = reading[x] /\ phase'[x] = phase[x]
  BY <1>2, <1>3, StayingKept
<1>4. CASE Still \/ \E w \in Workers : RecorderStep(w) \/ NotifyStep(w)
  BY <1>3, <1>4 DEF Still, RecorderStep, NotifyStep, Opens, Ends, StaysQuiet
<1>5. CASE \E w \in Workers, m \in Monitors : CallStep(w, m)
  <2>1. PICK w \in Workers, m \in Monitors : CallStep(w, m)
    BY <1>5
  <2>2. CASE x = m
    BY <1>2, <2>1, <2>2, CallKeepsReading
  <2>3. CASE x # m
    BY <1>3, <2>1, <2>3 DEF CallStep
  <2> QED BY <2>2, <2>3
<1>6. CASE \E u \in Users, m \in Monitors : UserStepOn(u, m)
  <2>1. PICK u \in Users, m \in Monitors : UserStepOn(u, m)
    BY <1>6
  <2>2. CASE x = m
    BY <1>2, <2>1, <2>2, UserKeepsReading
  <2>3. CASE x # m
    BY <1>3, <2>1, <2>3, UserStepTouches DEF Touches
  <2> QED BY <2>2, <2>3
<1> QED BY <1>1, <1>4, <1>5, <1>6

\* One step never replaces a reading by a smaller one of the same span.
NoneShrinks ==
    \A m \in Monitors :
         LET old == reading[m]
             new == reading'[m]
         IN  old # NoReading /\ new.start = old.start =>
                /\ new.busy >= old.busy /\ new.end >= old.end /\ new.totals.ops >= old.totals.ops
                /\ new.end = old.end => new = old

LEMMA NextReadingIsLarger ==
    ObservationInv /\ AllBusyBounded /\ AllReadingsKept /\ [Next]_vars => NoneShrinks
<1> SUFFICES ASSUME ObservationInv, AllBusyBounded, AllReadingsKept, [Next]_vars, NEW x \in Monitors,
                    NEW old, old = reading[x], NEW new, new = reading'[x],
                    old # NoReading, new.start = old.start
             PROVE  /\ new.busy >= old.busy /\ new.end >= old.end /\ new.totals.ops >= old.totals.ops
                    /\ new.end = old.end => new = old
  BY DEF NoneShrinks
<1>1. \/ Still
      \/ \E w \in Workers : RecorderStep(w) \/ NotifyStep(w) \/ \E m \in Monitors : CallStep(w, m)
      \/ \E u \in Users, m \in Monitors : UserStepOn(u, m)
  BY StepKinds DEF ObservationInv
<1>2. ReadingKept(x) /\ old \in SummaryType
  BY DEF AllReadingsKept, ReadingKept
<1>3. old.start \in Nat /\ old.end \in Nat /\ old.busy \in Nat /\ old.totals.ops \in Nat
  BY <1>2, SummaryFields
<1>4. CASE reading'[x] = reading[x]
  BY <1>3, <1>4
<1>5. CASE \E u \in Users : Reads(u, x) \/ Destroys(u, x)
  <2>1. PICK u \in Users : Reads(u, x) \/ Destroys(u, x)
    BY <1>5
  <2>2. PICK n \in MonitorType : n = mon[x]
    BY LimitIsNat
  <2>3. PICK t \in Nat, c \in Nat : /\ reading'[x] = Summary(n, t, c) /\ t >= clock
                                    /\ t = clock => n.stoppedEnd # 0
    <3>1. clock \in Nat /\ clock + 1 \in Nat /\ count \in Nat /\ user[u].count \in Nat
      BY DEF ObservationInv, Typed, MonitorsTyped, UsersTyped
    <3>2. \/ reading'[x] = Summary(n, clock + 1, user[u].count)
          \/ reading'[x] = Summary(n, clock, count) /\ phase[x] = "stopped"
      BY <2>1, <2>2 DEF Reads, Destroys
    <3>3. phase[x] = "stopped" => n.stoppedEnd # 0
      BY <2>2 DEF ObservationInv, MonitorProtocol
    <3>4. clock >= clock /\ clock + 1 >= clock /\ clock + 1 # clock
      BY <3>1
    <3>5. CASE reading'[x] = Summary(n, clock + 1, user[u].count)
      BY <3>1, <3>4, <3>5
    <3>6. CASE reading'[x] = Summary(n, clock, count) /\ phase[x] = "stopped"
      BY <3>1, <3>3, <3>4, <3>6
    <3> QED BY <3>2, <3>5, <3>6
  <2>4. phase[x] # "destroyed"
    BY <2>1 DEF Reads, Destroys, ObservationInv, UserProtocol
  <2>5. PICK e \in Nat : e = ReadEnd(n, t)
    BY ReadEffect
  <2>6. /\ new \in SummaryType /\ new.start = n.start /\ new.end = e /\ new.totals = n.totals
        /\ new.busy = TrackerRead(n.busy, e).emitted /\ (n.stoppedEnd # 0 => new = Summary(n, 0, 0))
    BY <2>3, <2>5, SummaryEffect
  <2>7. /\ old.busy <= n.busy.emitted /\ old.totals.ops <= n.totals.ops /\ old.end <= Limit(x)
        /\ n.stoppedEnd # 0 /\ old.end = n.stoppedEnd => old = Summary(n, 0, 0)
    BY <1>2, <2>2, <2>4, <2>6 DEF ReadingKept
  <2>8. Limit(x) <= e /\ Limit(x) \in Nat
    BY <2>2, <2>3, <2>5, FitsWhenRead, LimitIsNat
  <2>9. n.busy.emitted <= new.busy /\ n.busy.emitted \in Nat
    <3>1. PICK b \in TrackerType : b = n.busy
      BY MonitorFields
    <3>2. /\ b.inFlight > 0 => TrackerRead(b, e).emitted = Larger(b.emitted, b.closed + Larger(0, e - b.since))
          /\ b.inFlight = 0 => TrackerRead(b, e).emitted = Larger(b.emitted, b.closed)
      BY ONLY TrackerReadEffect
    <3>3. b.inFlight \in Nat /\ b.emitted \in Nat /\ b.closed \in Nat /\ b.since \in Nat
      BY DEF TrackerType
    <3>4. b.emitted <= TrackerRead(b, e).emitted
      <4>1. CASE b.inFlight = 0
        BY <3>2, <3>3, <4>1 DEF Larger
      <4>2. CASE b.inFlight > 0
        <5>1. PICK z \in Nat : z = b.closed + Larger(0, e - b.since)
          BY <3>3 DEF Larger
        <5> QED BY <3>2, <3>3, <4>2, <5>1 DEF Larger
      <4> QED BY <3>3, <4>1, <4>2
    <3> QED BY <2>6, <3>1, <3>3, <3>4
  <2>10. new.busy >= old.busy /\ new.end >= old.end /\ new.totals.ops >= old.totals.ops
    <3>1. new.busy \in Nat /\ new.totals.ops \in Nat
      BY <2>6, SummaryFields
    <3>2. new.totals.ops = n.totals.ops
      BY <2>6
    <3>3. new.totals.ops >= old.totals.ops
      BY <1>3, <2>7, <3>1, <3>2
    <3> QED BY <1>3, <2>6, <2>7, <2>8, <2>9, <3>1, <3>3
  <2>11. ASSUME new.end = old.end
         PROVE  new = old
    <3>1. n.stoppedEnd \in Nat /\ clock \in Nat /\ Limit(x) <= clock
      BY <2>2, LimitIsNat
    <3>2. n.stoppedEnd # 0
      <4> SUFFICES ASSUME n.stoppedEnd = 0 PROVE FALSE
        OBVIOUS
      <4>1. e = t /\ t > clock
        BY <2>3, <2>5, <3>1 DEF ReadEnd
      <4>2. old.end <= Limit(x) /\ old.end = e
        BY <2>6, <2>7, <2>11
      <4>3. old.end \in Nat /\ Limit(x) \in Nat
        BY <1>3, <2>8
      <4>4. old.end <= clock
        BY ONLY <3>1, <4>2, <4>3
      <4>5. old.end > clock
        BY <4>1, <4>2
      <4> QED BY ONLY <3>1, <4>3, <4>4, <4>5
    <3>3. e = n.stoppedEnd
      BY <2>5, <3>2 DEF ReadEnd
    <3> QED BY <2>6, <2>7, <2>11, <3>2, <3>3
  <2> QED BY <2>10, <2>11
<1>6. CASE \E u \in Users, m \in Monitors : UserStepOn(u, m)
  <2>1. PICK u \in Users, m \in Monitors : UserStepOn(u, m)
    BY <1>6
  <2>2. Touches(u, m)
    BY <2>1, UserStepTouches
  <2>3. CASE x # m
    BY <1>4, <2>2, <2>3 DEF Touches
  <2>4. CASE x = m
    BY <1>4, <1>5, <2>1, <2>4 DEF UserStepOn, Registers, Stamps, Asks, Resets, Stops, Seals
  <2> QED BY <2>3, <2>4
<1>7. CASE \/ Still
           \/ \E w \in Workers : RecorderStep(w) \/ NotifyStep(w) \/ \E m \in Monitors : CallStep(w, m)
  BY <1>4, <1>7 DEF Still, RecorderStep, NotifyStep, CallStep
<1> QED BY <1>1, <1>6, <1>7

\* BusyTracker::read(), stop(): a later reading of the same span is never smaller, and once the
\* monitor has stopped it is the same reading.
THEOREM ReadingsOnlyGrow == Spec => ReadingsNeverShrink
<1>1. Init => AllReadingsKept
  BY DEF Init, AllReadingsKept, ReadingKept
<1>2. ObservationInv /\ AllBusyBounded /\ AllReadingsKept /\ [Next]_vars => [NoneShrinks]_vars
  BY NextReadingIsLarger
<1>3. Spec => [](ObservationInv /\ AllBusyBounded /\ AllReadingsKept)
  BY <1>1, BoundedKept, ReadingsStep, PTL DEF Spec
<1>4. Spec => [][NoneShrinks]_vars
  BY <1>2, <1>3, PTL DEF Spec
<1> QED BY <1>4 DEF ReadingsNeverShrink, NoneShrinks

===============================================================================
