------------------------------ MODULE EventSync ------------------------------
(***************************************************************************)
(* utils::CanisterEventSyncQueue and the three jobs that drain one:        *)
(*                                                                         *)
(*   job (by its canister)  source                                         *)
(*   "local_user_index"     sync_events_to_user_canisters (and, with one   *)
(*                          canister per batch, .._to_user_index_canister) *)
(*   "user_index"           sync_events_to_local_user_index_canisters      *)
(*   "notifications_index"  sync_notifications_canisters                   *)
(*                                                                         *)
(* Events are kept per destination; the queue holds the destinations that  *)
(* have events.  One batch is on its way at a time; what a destination     *)
(* rejects is put back in front of what has been pushed since.  The jobs   *)
(* agree on all this and differ in when their timer starts and stops.      *)
(*                                                                         *)
(* An event is its number among those pushed for its destination.          *)
(* Operators named Mut_* are wrong on purpose (see the README).            *)
(***************************************************************************)
EXTENDS SequencesExt

CONSTANTS
    Canisters,      \* the destinations
    Jobs,           \* which of the jobs to look at, named by their canisters
    MaxCanisters,   \* max_canisters_per_batch
    MaxPerBatch,    \* max_events_per_canister_per_batch
    MaxEvents       \* bound: events pushed for each destination at most

ASSUME ConstantsAssumption ==
    /\ IsFiniteSet(Canisters)
    /\ Jobs \subseteq {"local_user_index", "user_index", "notifications_index"}
    /\ MaxCanisters \in Nat \ {0} /\ MaxPerBatch \in Nat \ {0} /\ MaxEvents \in Nat

VARIABLES
    job,        \* one of Jobs, always the same
    queue,      \* the destinations with events, in the order they are served
    events,     \* the events that wait, per destination (<<>>: no entry)
    busy,       \* sync_in_progress
    timer,      \* TIMER_ID is set
    flight,     \* the events of the sync_events future of a destination ...
    reply,      \* ... and what has become of its call
    pushed,     \* history: how many events were pushed for each destination
    received    \* external: the events each destination has handled

vars == <<job, queue, events, busy, timer, flight, reply, pushed, received>>

Init ==
    /\ job \in Jobs
    /\ queue = <<>>
    /\ events = [c \in Canisters |-> <<>>]
    /\ busy = FALSE
    /\ timer = FALSE
    /\ flight = [c \in Canisters |-> <<>>]
    /\ reply = [c \in Canisters |-> "idle"]
    /\ pushed = [c \in Canisters |-> 0]
    /\ received = [c \in Canisters |-> <<>>]

InBatch == {c \in Canisters : reply[c] # "idle"}

-----------------------------------------------------------------------------
(* When the timer runs *)

\* start_job_if_required
StartJobIfRequired(q, b) ==
    timer \/ IF job = "user_index" THEN q # <<>> /\ ~b ELSE q # <<>> \/ b

\* run, when it gets no batch: only the local_user_index's jobs go on for as
\* long as a batch is on its way.
Mut_StopsWhileBusy(q, b) == q = <<>> \/ b
StopsWhenIdle(q, b) ==
    IF job = "local_user_index" THEN q = <<>> /\ ~b ELSE q = <<>> \/ b

\* process_batch, at its end: only the user_index's job looks again whether
\* there is something to do.
Mut_NeverRestarts(q) == timer
AfterBatch(q) == IF job = "user_index" THEN StartJobIfRequired(q, FALSE) ELSE timer

-----------------------------------------------------------------------------
(* Pushing *)

Sequence(m, n) == [i \in 1 .. n |-> m + i]

\* push, n times for each of the destinations cs, which come in any order.
NewlyQueued(cs) == SetToSeqs({c \in cs : events[c] = <<>>})
PushAll(cs, n) ==
    /\ \A c \in cs : pushed[c] + n <= MaxEvents
    /\ pushed' = [c \in Canisters |-> IF c \in cs THEN pushed[c] + n ELSE pushed[c]]
    /\ events' = [c \in Canisters |->
          IF c \in cs THEN events[c] \o Sequence(pushed[c], n) ELSE events[c]]
    /\ \E new \in NewlyQueued(cs) : queue' = queue \o new
    /\ UNCHANGED <<job, busy, flight, reply, received>>

\* push_event_to_user, push_event_to_all_local_user_indexes, ...
Push(cs) ==
    /\ cs # {}
    /\ PushAll(cs, 1)
    /\ timer' = StartJobIfRequired(queue', busy)

\* add_local_user_index_canister, add_notifications_canister: a destination
\* that is new gets the events of all users.  The latter starts no job.
AddCanister(c) ==
    /\ job # "local_user_index"
    /\ pushed[c] = 0
    /\ \E n \in 1 .. MaxEvents : PushAll({c}, n)
    /\ timer' = IF job = "user_index" THEN StartJobIfRequired(queue', busy) ELSE timer

-----------------------------------------------------------------------------
(* The job *)

\* take_events: the oldest events, up to the limit, and whether that was all.
TakenFrom(c) == IF Len(events[c]) < MaxPerBatch THEN Len(events[c]) ELSE MaxPerBatch
HasMore(c) == TakenFrom(c) < Len(events[c])

\* try_start_batch.  Every queued destination has events, so take_events
\* gives some for each; those that have more are queued again, in order.
Popped == IF Len(queue) < MaxCanisters THEN Len(queue) ELSE MaxCanisters
Batch == {queue[i] : i \in 1 .. Popped}
WithMore ==
    {more \in SetToSeqs({i \in 1 .. Popped : HasMore(queue[i])}) :
        \A m, n \in DOMAIN more : m < n => more[m] < more[n]}
Readded(rest) == {rest \o [n \in DOMAIN more |-> queue[more[n]]] : more \in WithMore}

StartBatch ==
    /\ timer
    /\ ~busy /\ queue # <<>>
    /\ flight' = [c \in Canisters |->
          IF c \in Batch THEN SubSeq(events[c], 1, TakenFrom(c)) ELSE flight[c]]
    /\ events' = [c \in Canisters |->
          IF c \in Batch THEN SubSeq(events[c], TakenFrom(c) + 1, Len(events[c]))
          ELSE events[c]]
    /\ reply' = [c \in Canisters |-> IF c \in Batch THEN "waiting" ELSE reply[c]]
    /\ queue' \in Readded(SubSeq(queue, Popped + 1, Len(queue)))
    /\ busy' = TRUE
    /\ UNCHANGED <<job, timer, pushed, received>>

StopJob ==
    /\ timer
    /\ StopsWhenIdle(queue, busy)
    /\ timer' = FALSE
    /\ UNCHANGED <<job, queue, events, busy, flight, reply, pushed, received>>

\* mark_sync_failed_for_canister: the events go in front of the newer ones.
Mut_PutBehind(c) == events[c] \o flight[c]
PutBack(c) == flight[c] \o events[c]

\* mark_batch_completed, when the last call of the batch has been answered.
Mut_FirstAnswerCounts(c) == FALSE
StillBusy(c) == busy /\ InBatch # {c}

\* sync_events after its await, and the end of process_batch.
FinishSync(c) ==
    /\ reply[c] \in {"ok", "err"}
    /\ reply' = [reply EXCEPT ![c] = "idle"]
    /\ flight' = [flight EXCEPT ![c] = <<>>]
    /\ IF reply[c] = "err"
       THEN /\ events' = [events EXCEPT ![c] = PutBack(c)]
            /\ queue' = IF events[c] = <<>> THEN Append(queue, c) ELSE queue
       ELSE UNCHANGED <<events, queue>>
    /\ busy' = StillBusy(c)
    /\ timer' = IF StillBusy(c) THEN timer ELSE AfterBatch(queue')
    /\ UNCHANGED <<job, pushed, received>>

-----------------------------------------------------------------------------
(* The destinations, and upgrades of the owner *)

\* A destination handles all events of a call, or rejects the call and
\* handles none.
CalleeAccepts(c) ==
    /\ reply[c] = "waiting"
    /\ reply' = [reply EXCEPT ![c] = "ok"]
    /\ received' = [received EXCEPT ![c] = @ \o flight[c]]
    /\ UNCHANGED <<job, queue, events, busy, timer, flight, pushed>>
CalleeRejects(c) ==
    /\ reply[c] = "waiting"
    /\ reply' = [reply EXCEPT ![c] = "err"]
    /\ UNCHANGED <<job, queue, events, busy, timer, flight, pushed, received>>

\* A stopped canister has no call outstanding; TIMER_ID is not persisted and
\* jobs::start looks whether the job is needed.
StartsAfterUpgrade(q, b) ==
    IF job = "user_index" THEN q # <<>> /\ ~b ELSE q # <<>> \/ b
Upgrade ==
    /\ InBatch = {}
    /\ timer' = StartsAfterUpgrade(queue, busy)
    /\ UNCHANGED <<job, queue, events, busy, flight, reply, pushed, received>>

Next ==
    \/ \E cs \in SUBSET Canisters : Push(cs)
    \/ \E c \in Canisters :
          \/ AddCanister(c) \/ FinishSync(c)
          \/ CalleeAccepts(c) \/ CalleeRejects(c)
    \/ StartBatch
    \/ StopJob
    \/ Upgrade

Spec == Init /\ [][Next]_vars

\* The timer fires, calls are answered and callbacks run.
Fairness ==
    /\ WF_vars(StartBatch) /\ WF_vars(StopJob)
    /\ \A c \in Canisters :
          /\ WF_vars(CalleeAccepts(c) \/ CalleeRejects(c))
          /\ WF_vars(FinishSync(c))
FairSpec == Spec /\ Fairness

\* A destination that is called again and again accepts in the end.
ReliableSpec == FairSpec /\ \A c \in Canisters : SF_vars(CalleeAccepts(c))

-----------------------------------------------------------------------------
(* Properties *)

\* The events of a destination that may still have to be handled.
Unhandled(c) == IF reply[c] \in {"waiting", "err"} THEN flight[c] ELSE <<>>

\* Every event is handled, on its way or waiting, once and in the order in
\* which it was pushed: also when a call fails after newer events were
\* pushed, or after only a part of the events was taken.
EventsInOrder ==
    \A c \in Canisters :
        received[c] \o Unhandled(c) \o events[c] = Sequence(0, pushed[c])

\* The queue holds the destinations with events, each once: one that is
\* missing is never served, one that is there twice could be called twice at
\* the same time.  And sync_in_progress says whether a batch is on its way:
\* left on, it would stop all delivery (it even survives upgrades), left off,
\* a second batch could overtake the first.  No call carries more than its
\* share of the events.
QueueIsExact ==
    /\ ToSet(queue) = {c \in Canisters : events[c] # <<>>}
    /\ IsInjective(queue)
    /\ busy <=> InBatch # {}
    /\ \A c \in Canisters : Len(flight[c]) <= MaxPerBatch

\* No lost wake-up: when there is something to send and nothing on its way,
\* the timer runs.
TimerRunsWhenNeeded == queue # <<>> /\ ~busy => timer

\* A destination that had more events than one call carries is called again, once the
\* call is answered.  (The comment in try_start_batch: "If there are more events, queue
\* up the canister to be processed again".)
RequeuedIsCalled ==
    \A c \in Canisters :
        (reply[c] \in {"ok", "err"} /\ events[c] # <<>>) ~> reply[c] = "waiting"

\* All events arrive, as EventDelivery says.
Handled == [c \in Canisters |-> Len(received[c])]
Delivery == INSTANCE EventDelivery WITH received <- Handled
ImplementsDelivery == Delivery!Spec
=============================================================================
