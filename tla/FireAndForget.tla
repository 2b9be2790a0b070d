---------------------------- MODULE FireAndForget ----------------------------
(***************************************************************************)
(* libraries/fire_and_forget_handler: the calls a canister makes without   *)
(* waiting for their result (reactions, deletions, joins pushed to other   *)
(* users' canisters ...).                                                  *)
(*                                                                         *)
(* The first attempt of a call leaves no trace in the handler.  A call     *)
(* that fails is queued under its canister and sent again, after a delay   *)
(* that grows with the attempts, by a timer that runs only while there is  *)
(* something to do.  Calls that are on their way again are listed as in    *)
(* progress; a canister with such calls gets no further batch.             *)
(*                                                                         *)
(* Operators named Mut_* are wrong on purpose: they stand for plausible    *)
(* slips in the definition that follows them (see the README).             *)
(***************************************************************************)
EXTENDS Naturals, FiniteSets

CONSTANTS
    Canisters,    \* the canisters that are called
    MaxCalls,     \* bound: calls that are sent at most
    MaxAttempts,  \* 50: retries before a call is given up
    MaxBatch,     \* 50: the max_count given to next_batch
    SecondInMs,   \* SECOND_IN_MS
    MaxTime       \* bound: the clock stops here, later retries fall due here

ASSUME ConstantsAssumption ==
    /\ MaxCalls \in Nat /\ MaxAttempts \in Nat /\ MaxBatch \in Nat \ {0}
    /\ SecondInMs \in Nat /\ MaxTime \in Nat

Ids == 0 .. MaxCalls - 1
Times == 0 .. MaxTime
Capped(t) == IF t > MaxTime THEN MaxTime ELSE t

VARIABLES
    now,          \* the time of the current round
    next_id,
    tracked,      \* the keys of "canisters"
    queue,        \* the calls in PendingC2cCalls.queue, with their due time
    in_progress,  \* PendingC2cCalls.in_progress per canister
    timer,        \* timer_id.is_some()
    flying,       \* the process_single futures that await the call
    delivered,    \* external: how often each call was carried out
    given_up      \* history: the calls that ran out of attempts

vars == <<now, next_id, tracked, queue, in_progress, timer, flying, delivered, given_up>>

Queued == [id : Ids, canister : Canisters, attempt : 1 .. MaxAttempts, due : Times]
Flights == [id : Ids, canister : Canisters, attempt : 0 .. MaxAttempts,
            reply : {"none", "ok", "err"}]

\* The type of the state.
TypeOK ==
    /\ now \in Times
    /\ next_id \in 0 .. MaxCalls
    /\ tracked \subseteq Canisters
    /\ queue \subseteq Queued
    /\ in_progress \in [Canisters -> SUBSET Ids]
    /\ timer \in BOOLEAN
    /\ flying \subseteq Flights
    /\ delivered \in [Ids -> Nat]
    /\ given_up \subseteq Ids

Init ==
    /\ now = 0
    /\ next_id = 0
    /\ tracked = {}
    /\ queue = {}
    /\ in_progress = [c \in Canisters |-> {}]
    /\ timer = FALSE
    /\ flying = {}
    /\ delivered = [i \in Ids |-> 0]
    /\ given_up = {}

-----------------------------------------------------------------------------
(* Sending *)

\* send: the call leaves at once, whatever is queued for the same canister.
Send(c) ==
    /\ next_id < MaxCalls
    /\ next_id' = next_id + 1
    /\ flying' = flying \cup
          {[id |-> next_id, canister |-> c, attempt |-> 0, reply |-> "none"]}
    /\ UNCHANGED <<now, tracked, queue, in_progress, timer, delivered, given_up>>

\* The callee carries out the call, or rejects it and does nothing (it is
\* stopped, out of cycles, its queue is full, or its code panics).
Answered(f, reply) == (flying \ {f}) \cup {[f EXCEPT !.reply = reply]}
CalleeAccepts(f) ==
    /\ f.reply = "none"
    /\ delivered' = [delivered EXCEPT ![f.id] = @ + 1]
    /\ flying' = Answered(f, "ok")
    /\ UNCHANGED <<now, next_id, tracked, queue, in_progress, timer, given_up>>
CalleeRejects(f) ==
    /\ f.reply = "none"
    /\ flying' = Answered(f, "err")
    /\ UNCHANGED <<now, next_id, tracked, queue, in_progress, timer, delivered, given_up>>

-----------------------------------------------------------------------------
(* process_single, after the await *)

\* start_job_if_required, given the handler's canisters.
Mut_NeverRestarts(canisters) == timer
StartJobIfRequired(canisters) == timer \/ canisters # {}

\* "is_err() && attempt < 50" decides between a retry and giving up.
Mut_RetriesWithoutEnd(f) == f.reply = "err"
WillRetry(f) == f.reply = "err" /\ f.attempt < MaxAttempts

Retry(f) ==
    [id |-> f.id, canister |-> f.canister, attempt |-> f.attempt + 1,
     due |-> Capped(now + (f.attempt + 1) * SecondInMs)]

\* A first attempt that succeeds is forgotten; everything else updates the
\* queue and the list of calls in progress of the canister.
Released(f) == [in_progress EXCEPT ![f.canister] = @ \ {f.id}]

Mut_FirstFailureForgotten(f) == f.attempt > 0
LeavesTrace(f) == f.reply = "err" \/ f.attempt > 0

\* A canister is forgotten when it has nothing queued and nothing in progress.
NothingLeft(c, waiting, busy) == busy[c] = {} /\ ~\E q \in waiting : q.canister = c

Finish(f) ==
    /\ f.reply # "none"
    /\ flying' = flying \ {f}
    /\ IF LeavesTrace(f)
       THEN /\ in_progress' = Released(f)
            /\ queue' = IF WillRetry(f) THEN queue \cup {Retry(f)} ELSE queue
            /\ given_up' = IF f.reply = "err" /\ ~WillRetry(f)
                           THEN given_up \cup {f.id} ELSE given_up
            /\ tracked' = IF NothingLeft(f.canister, queue', in_progress')
                          THEN tracked \ {f.canister}
                          ELSE tracked \cup {f.canister}
       ELSE UNCHANGED <<in_progress, queue, given_up, tracked>>
    /\ timer' = StartJobIfRequired(tracked')
    /\ UNCHANGED <<now, next_id, delivered>>

-----------------------------------------------------------------------------
(* The timer *)

Mut_AnyCanister(c) == c \in tracked
MayBeSent(c) == c \in tracked /\ in_progress[c] = {}
DueFor(c) ==
    IF MayBeSent(c) THEN {q \in queue : q.canister = c /\ q.due <= now} ELSE {}
AllDue == {q \in queue : q \in DueFor(q.canister)}

\* The queue of a canister is ordered by (due, id).
Before(q, r) == q.due < r.due \/ (q.due = r.due /\ q.id < r.id)
Oldest(n, qs) == {q \in qs : Cardinality({r \in qs : Before(r, q)}) < n}

\* next_batch: canisters are visited in any order, oldest calls first.  The
\* "break" leaves only the inner loop: the canister at which the batch
\* reaches max_count is cut short, the ones after it are not.
CutAt(c, visited) ==
    LET room == MaxBatch - Cardinality({q \in AllDue : q.canister \in visited})
    IN  (AllDue \ DueFor(c)) \cup Oldest(room, DueFor(c))
ReachesMax(c, visited) ==
    LET before == Cardinality({q \in AllDue : q.canister \in visited})
    IN  /\ c \notin visited
        /\ before < MaxBatch
        /\ MaxBatch <= before + Cardinality(DueFor(c))
Batches ==
    {b \in SUBSET AllDue :
        \/ Cardinality(AllDue) < MaxBatch /\ b = AllDue
        \/ \E c \in Canisters, visited \in SUBSET Canisters :
              ReachesMax(c, visited) /\ b = CutAt(c, visited)}

\* run, with a batch: its calls leave the queue and are in progress.
Mut_BatchStaysQueued(batch) == queue
LeftInQueue(batch) == queue \ batch

SendBatch ==
    /\ timer
    /\ \E batch \in Batches :
          /\ batch # {}
          /\ queue' = LeftInQueue(batch)
          /\ in_progress' = [c \in Canisters |->
                in_progress[c] \cup {q.id : q \in {r \in batch : r.canister = c}}]
          /\ flying' = flying \cup
                {[id |-> q.id, canister |-> q.canister, attempt |-> q.attempt,
                  reply |-> "none"] : q \in batch}
    /\ UNCHANGED <<now, next_id, tracked, timer, delivered, given_up>>

\* run, when there are no canisters left: the timer is cleared.  (When there
\* are, but nothing is due, run does nothing.)
StopJob ==
    /\ timer /\ tracked = {}
    /\ timer' = FALSE
    /\ UNCHANGED <<now, next_id, tracked, queue, in_progress, flying, delivered, given_up>>

\* An upgrade: the canister has been stopped, so no call is outstanding;
\* timer_id is not serialized, init starts the timer again if need be.
Upgrade ==
    /\ flying = {}
    /\ timer' = (tracked # {})
    /\ UNCHANGED <<now, next_id, tracked, queue, in_progress, flying, delivered, given_up>>

Tick ==
    /\ now < MaxTime
    /\ now' = now + 1
    /\ UNCHANGED <<next_id, tracked, queue, in_progress, timer, flying, delivered, given_up>>

Next ==
    \/ \E c \in Canisters : Send(c)
    \/ \E f \in flying : CalleeAccepts(f) \/ CalleeRejects(f) \/ Finish(f)
    \/ SendBatch
    \/ StopJob
    \/ Upgrade
    \/ Tick

Spec == Init /\ [][Next]_vars

\* Every call is answered, callbacks run, the timer fires and time goes on.
\* Nothing is assumed about the callee ever accepting a call.
Fairness ==
    /\ \A i \in Ids :
          /\ WF_vars(\E f \in flying : f.id = i /\ (CalleeAccepts(f) \/ CalleeRejects(f)))
          /\ WF_vars(\E f \in flying : f.id = i /\ Finish(f))
    /\ WF_vars(SendBatch) /\ WF_vars(StopJob) /\ WF_vars(Tick)
FairSpec == Spec /\ Fairness

-----------------------------------------------------------------------------
(* Properties *)

IsFlying(i) == \E f \in flying : f.id = i
IsQueued(i) == \E q \in queue : q.id = i
IsDelivered(i) == delivered[i] > 0

\* A call that was sent is in exactly one place: on its way or in the queue
\* (never twice, never in both), carried out, or given up.  It is carried
\* out at most once, and one that was carried out is not tried again.
Accounted(i) ==
    /\ i < next_id => IsFlying(i) \/ IsQueued(i) \/ IsDelivered(i) \/ i \in given_up
    /\ i >= next_id => ~(IsFlying(i) \/ IsQueued(i) \/ IsDelivered(i) \/ i \in given_up)
    /\ ~(IsFlying(i) /\ IsQueued(i))
    /\ \A f, g \in flying : f.id = i /\ g.id = i => f = g
    /\ \A q, r \in queue : q.id = i /\ r.id = i => q = r
    /\ delivered[i] <= 1
    /\ i \in given_up => ~IsFlying(i) /\ ~IsQueued(i) /\ ~IsDelivered(i)
    /\ IsDelivered(i) => ~IsQueued(i) /\ \A f \in flying : f.id = i => f.reply = "ok"
CallsAccountedFor == \A i \in Ids : Accounted(i)

\* "in_progress" lists exactly the retries that are on their way: an entry
\* that outlived its call would keep its canister from ever being served.
InProgressIsFlying ==
    \A c \in Canisters :
        in_progress[c] = {f.id : f \in {g \in flying : g.canister = c /\ g.attempt > 0}}

\* The handler knows a canister while something is queued or in progress for
\* it, and no longer: otherwise calls are lost or the timer runs forever.
TrackedWhileNeeded ==
    tracked = {c \in Canisters : in_progress[c] # {} \/ \E q \in queue : q.canister = c}

\* No lost wake-up: whenever a call waits for its retry the timer is running,
\* also after it was stopped, and after an upgrade, which clears it.
TimerRunsWhileNeeded == tracked # {} => timer

\* Retries of one canister go out in one batch at a time: the next batch
\* waits until every call of the one before has been answered.
OneBatchAtATime ==
    [][\A c \in Canisters : \A f \in flying' \ flying :
          f.canister = c /\ f.attempt > 0 /\ f.reply = "none"
             => ~\E g \in flying : g.canister = c /\ g.attempt > 0]_vars

\* The abstract view of a call.
Status == [i \in Ids |->
    IF i >= next_id THEN "unsent"
    ELSE IF IsDelivered(i) THEN "delivered"
    ELSE IF i \in given_up THEN "given_up" ELSE "pending"]
Delivery == INSTANCE CallDelivery WITH status <- Status

\* The handler delivers or gives up every call, as CallDelivery says, even if
\* callees reject for as long as they like.
ImplementsDelivery == Delivery!Spec
=============================================================================
