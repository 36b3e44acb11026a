---------------------------- MODULE TransferPlan ----------------------------
(***************************************************************************)
(* build_transfer_plan(): a batch of read requests becomes byte-range      *)
(* transfers.  Requests of one handle and one CUDA context that lie close  *)
(* together are merged into one transfer, a request larger than task_size  *)
(* is split into several; segments say which bytes of a transfer go where. *)
(*                                                                         *)
(* A request is [key, off, size]: key stands for the pair of handle and    *)
(* context.  A buffer position is the byte's index in its request.         *)
(***************************************************************************)
EXTENDS Integers, Sequences, FiniteSets, SequencesExt

CONSTANTS PlanKeys, PlanOffsets, PlanSizes, MaxRequests, TaskSizes, Gaps, NoGap

ASSUME PlanAssumption ==
    /\ PlanOffsets \subseteq Nat /\ PlanSizes \subseteq Nat /\ MaxRequests \in Nat
    /\ TaskSizes \subseteq Nat \ {0}
    /\ Gaps \subseteq Nat \cup {NoGap}

VARIABLES requests, options, plan

planVars == <<requests, options, plan>>

End(r) == r.off + r.size

\* Whether a request may extend the run of requests whose span is begin..end:
\* no overlap, a gap of at most coalesce_max_gap, a span of at most task_size.
JoinsAnySpan(opts, begin, end, r) ==
    opts.gap # NoGap /\ r.off >= end /\ r.off - end <= opts.gap
Joins(opts, begin, end, r) ==
    /\ opts.gap # NoGap
    /\ r.off >= end
    /\ r.off - end <= opts.gap
    /\ End(r) - begin <= opts.task

\* plan_group(): cut a group's sorted requests into runs, in one pass.
Runs(reqs, opts, group) ==
    LET Extend(runs, i) ==
          IF /\ runs # <<>>
             /\ Joins(opts, reqs[Head(Last(runs))].off, End(reqs[Last(Last(runs))]), reqs[i])
          THEN Front(runs) \o <<Append(Last(runs), i)>>
          ELSE Append(runs, <<i>>)
    IN  FoldLeft(Extend, <<>>, group)

Segment(spanOffset, length, buf, i) ==
    [at |-> spanOffset, length |-> length, buf |-> buf, request |-> i]

\* merge_requests(): one transfer over the span, one segment per request.
MergeRequests(reqs, run) ==
    LET begin == reqs[Head(run)].off
        end == End(reqs[Last(run)])
    IN  <<[key |-> reqs[Head(run)].key, off |-> begin, size |-> end - begin,
           segments |-> [k \in DOMAIN run |->
                           Segment(reqs[run[k]].off - begin, reqs[run[k]].size, 0, run[k])]]>>

\* split_request(): one transfer per chunk of task_size, the last one shorter.
Chunks(size, task) == (size + task - 1) \div task
SplitRequest(reqs, i, task) ==
    [k \in 1..Chunks(reqs[i].size, task) |->
        LET at == (k - 1) * task
            n == Min({reqs[i].size - at, task})
        IN  [key |-> reqs[i].key, off |-> reqs[i].off + at, size |-> n,
             segments |-> <<Segment(0, n, at, i)>>]]

\* Groups in the order of their first request, requests of size 0 left out, each
\* group sorted by file offset and then by position.
GroupKeys(reqs) ==
    LET Insert(keys, r) == IF r.size = 0 \/ r.key \in ToSet(keys) THEN keys ELSE Append(keys, r.key)
    IN  FoldLeft(Insert, <<>>, reqs)
Before(reqs, i, j) ==
    IF reqs[i].off # reqs[j].off THEN reqs[i].off < reqs[j].off ELSE i < j
Group(reqs, key) ==
    LET members == {i \in DOMAIN reqs : reqs[i].size > 0 /\ reqs[i].key = key}
        places == 1..Cardinality(members)
    IN  CHOOSE g \in [places -> members] : \A j, k \in places : j < k => Before(reqs, g[j], g[k])

\* plan_group(): a run of several requests is merged, a single one is split.
PlanRun(reqs, opts, run) ==
    IF Len(run) > 1 THEN MergeRequests(reqs, run) ELSE SplitRequest(reqs, Head(run), opts.task)
PlanGroup(reqs, opts, ts, key) ==
    LET AddRun(us, run) == us \o PlanRun(reqs, opts, run)
    IN  FoldLeft(AddRun, ts, Runs(reqs, opts, Group(reqs, key)))
Transfers(reqs, opts) ==
    LET AddGroup(ts, key) == PlanGroup(reqs, opts, ts, key)
    IN  FoldLeft(AddGroup, <<>>, GroupKeys(reqs))

\* build_transfer_plan(): the transfers, how many of them serve each request, and the
\* bytes they read that no request wants.
SumOf(f) == FoldFunction(+, 0, f)
Wanted(t) == SumOf([k \in DOMAIN t.segments |-> t.segments[k].length])
Serves(ts, i) == {t \in DOMAIN ts : \E k \in DOMAIN ts[t].segments : ts[t].segments[k].request = i}
BuildTransferPlan(reqs, opts) ==
    LET ts == Transfers(reqs, opts)
    IN  [transfers |-> ts,
         perRequest |-> [i \in DOMAIN reqs |-> Cardinality(Serves(ts, i))],
         overread |-> SumOf([t \in DOMAIN ts |-> ts[t].size - Wanted(ts[t])])]

\* Every batch of at most MaxRequests requests, planned under every option.
Requests == [key : PlanKeys, off : PlanOffsets, size : PlanSizes]
NoPlan == [transfers |-> <<>>, perRequest |-> <<>>, overread |-> 0]
PlanInit == /\ requests \in BoundedSeq(Requests, MaxRequests)
            /\ options \in [task : TaskSizes, gap : Gaps]
            /\ plan = NoPlan

Plan == /\ plan = NoPlan /\ requests # <<>>
        /\ plan' = BuildTransferPlan(requests, options)
        /\ UNCHANGED <<requests, options>>

PlanSpec == PlanInit /\ [][Plan]_planVars

-------------------------------------------------------------------------------
(* Properties.                                                             *)

\* The segments of a plan that carry byte b of request i to its place.
Carriers(i, b) ==
    {c \in UNION {{t} \X DOMAIN plan.transfers[t].segments : t \in DOMAIN plan.transfers} :
        LET x == plan.transfers[c[1]]
            s == x.segments[c[2]]
        IN  /\ s.request = i /\ x.key = requests[i].key
            /\ b - s.buf \in 0..(s.length - 1)
            /\ x.off + s.at + (b - s.buf) = requests[i].off + b}

\* build_transfer_plan(): the transfers tile the requests: every requested byte is
\* carried to its place exactly once, no segment leaves its transfer or its request,
\* no transfer exceeds task_size, and the per-request counts agree with the transfers.
\* Merging is never worth a round trip: a batch needs no more transfers than its
\* requests would one by one, and overread_bytes is bounded by the gaps it bridged.
PlanTilesRequests ==
    plan # NoPlan =>
    /\ \A i \in DOMAIN requests : \A b \in 0..(requests[i].size - 1) : Cardinality(Carriers(i, b)) = 1
    /\ \A t \in DOMAIN plan.transfers :
          LET x == plan.transfers[t]
          IN  /\ x.size \in 1..options.task
              /\ \A k \in DOMAIN x.segments :
                    LET s == x.segments[k]
                    IN  /\ s.length > 0 /\ s.at + s.length <= x.size
                        /\ s.buf + s.length <= requests[s.request].size
    /\ \A i \in DOMAIN requests :
          LET r == requests[i]
          IN  /\ r.size = 0 <=> plan.perRequest[i] = 0
              /\ plan.perRequest[i] <= Chunks(r.size, options.task)
    /\ LET each == SumOf([i \in DOMAIN requests |-> Chunks(requests[i].size, options.task)])
       IN  /\ Len(plan.transfers) <= each
           /\ plan.overread <= IF options.gap = NoGap THEN 0
                               ELSE options.gap * (each - Len(plan.transfers))

===============================================================================
