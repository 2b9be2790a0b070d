------------------------ MODULE FireAndForgetProofs ------------------------
(***************************************************************************)
(* The bookkeeping of FireAndForget is right for any number of canisters,  *)
(* calls and attempts and any batch size, and every step is a step of      *)
(* CallDelivery.  That every call is settled in the end is left to TLC.    *)
(***************************************************************************)
EXTENDS FireAndForget, TLAPS

\* What "ok" stands for.
OkMeansDelivered == \A f \in flying : f.reply = "ok" => IsDelivered(f.id)

\* The inductive invariant.
IInv ==
    /\ TypeOK
    /\ CallsAccountedFor
    /\ OkMeansDelivered
    /\ InProgressIsFlying
    /\ TrackedWhileNeeded
    /\ TimerRunsWhileNeeded

-----------------------------------------------------------------------------

\* The definitions that say where a call is.
LEMMA CallIds ==
    ASSUME IInv
    PROVE  /\ \A f \in flying : /\ f.id \in Ids /\ f.id < next_id
                                /\ f.canister \in Canisters
                                /\ f.attempt \in 0 .. MaxAttempts
           /\ \A q \in queue : /\ q.id \in Ids /\ q.id < next_id
                               /\ q.canister \in Canisters
                               /\ q.attempt \in 1 .. MaxAttempts
<1>1. /\ \A f \in flying : /\ f.id \in Ids /\ f.canister \in Canisters
                           /\ f.attempt \in 0 .. MaxAttempts
      /\ \A q \in queue : /\ q.id \in Ids /\ q.canister \in Canisters
                          /\ q.attempt \in 1 .. MaxAttempts
  BY DEF IInv, TypeOK, Flights, Queued
<1>2. next_id \in Nat /\ \A i \in Ids : i \in Nat
  BY ConstantsAssumption DEF IInv, TypeOK, Ids
<1>3. \A i \in Ids : IsFlying(i) \/ IsQueued(i) => i < next_id
  BY <1>2 DEF IInv, CallsAccountedFor, Accounted
<1> QED BY <1>1, <1>3 DEF IsFlying, IsQueued

\* A batch holds only calls that are queued, for canisters with nothing in
\* progress.
LEMMA BatchIsDue ==
    ASSUME NEW batch \in Batches
    PROVE  \A q \in batch : q \in queue /\ q.canister \in tracked
                            /\ in_progress[q.canister] = {}
<1>1. batch \subseteq AllDue
  BY DEF Batches
<1> QED BY <1>1 DEF AllDue, DueFor, MayBeSent

\* A fresh handler, with nothing sent, satisfies the invariant.
LEMMA InitIInv == Init => IInv
<1> SUFFICES ASSUME Init PROVE IInv
  OBVIOUS
<1>1. TypeOK
  <2>1. now \in Times /\ next_id \in 0 .. MaxCalls
    BY ConstantsAssumption DEF Init, Times
  <2>2. in_progress \in [Canisters -> SUBSET Ids] /\ delivered \in [Ids -> Nat]
    BY DEF Init
  <2> QED BY <2>1, <2>2 DEF Init, TypeOK
<1>2. CallsAccountedFor
  BY ConstantsAssumption
     DEF Init, CallsAccountedFor, Accounted, IsFlying, IsQueued, IsDelivered, Ids
<1>3. OkMeansDelivered /\ InProgressIsFlying /\ TrackedWhileNeeded /\ TimerRunsWhileNeeded
  BY DEF Init, OkMeansDelivered, InProgressIsFlying, TrackedWhileNeeded,
         TimerRunsWhileNeeded
<1> QED BY <1>1, <1>2, <1>3 DEF IInv

-----------------------------------------------------------------------------

\* send: the new call is on its way, under an id never used before.
LEMMA SendKeepsIInv ==
    ASSUME IInv, NEW c \in Canisters, Send(c)
    PROVE  IInv'
<1> DEFINE new == [id |-> next_id, canister |-> c, attempt |-> 0, reply |-> "none"]
<1>1. /\ next_id \in Nat /\ next_id < MaxCalls /\ MaxCalls \in Nat
      /\ next_id' = next_id + 1 /\ next_id \in Ids
      /\ flying' = flying \cup {new}
      /\ UNCHANGED <<now, tracked, queue, in_progress, timer, delivered, given_up>>
  BY ConstantsAssumption DEF IInv, TypeOK, Send, Ids
<1>2. new.id = next_id /\ new.reply = "none" /\ new.attempt = 0
  OBVIOUS
<1>3. new \in Flights
  BY <1>1, ConstantsAssumption DEF Flights
<1> HIDE DEF new
<1>4. TypeOK'
  BY <1>1, <1>3 DEF IInv, TypeOK
<1>5. /\ ~IsFlying(next_id) /\ ~IsQueued(next_id) /\ ~IsDelivered(next_id)
      /\ next_id \notin given_up
  BY <1>1 DEF IInv, CallsAccountedFor, Accounted
<1>6. /\ \A i \in Ids : IsFlying(i)' <=> IsFlying(i) \/ i = next_id
      /\ \A i \in Ids : IsQueued(i)' <=> IsQueued(i)
      /\ \A i \in Ids : IsDelivered(i)' <=> IsDelivered(i)
  BY <1>1, <1>2 DEF IsFlying, IsQueued, IsDelivered
<1>7. CallsAccountedFor'
  <2> SUFFICES ASSUME NEW i \in Ids
               PROVE  Accounted(i)'
    BY DEF CallsAccountedFor
  <2>0. i \in Nat
    BY DEF Ids
  <2>t. Accounted(i)
    BY DEF IInv, CallsAccountedFor
  <2>1. CASE i = next_id
    BY <1>1, <1>2, <1>5, <1>6, <2>0, <2>1, <2>t DEF Accounted, IsFlying
  <2>2. CASE i # next_id
    BY <1>1, <1>2, <1>5, <1>6, <2>0, <2>2, <2>t DEF Accounted
  <2> QED BY <2>1, <2>2
<1>8. OkMeansDelivered'
  BY <1>1, <1>2 DEF IInv, OkMeansDelivered, IsDelivered
<1>9. InProgressIsFlying' /\ TrackedWhileNeeded' /\ TimerRunsWhileNeeded'
  BY <1>1, <1>2 DEF IInv, InProgressIsFlying, TrackedWhileNeeded, TimerRunsWhileNeeded
<1> QED BY <1>4, <1>7, <1>8, <1>9 DEF IInv

\* The callee's answer changes only the flight it answers.
LEMMA AnswerKeepsFlights ==
    ASSUME IInv, NEW f \in flying, f.reply = "none", NEW reply \in {"ok", "err"},
           flying' = Answered(f, reply), UNCHANGED <<queue, in_progress>>
    PROVE  /\ flying' \subseteq Flights
           /\ \A i \in Ids : IsFlying(i)' <=> IsFlying(i)
           /\ \A i \in Ids : IsQueued(i)' <=> IsQueued(i)
           /\ \A g, h \in flying' : g.id = h.id => g = h
           /\ \A g \in flying' : IF g.id = f.id THEN g.reply = reply ELSE g \in flying
           /\ InProgressIsFlying'
<1> DEFINE g0 == [f EXCEPT !.reply = reply]
<1>1. g0 \in Flights
  BY DEF IInv, TypeOK, Flights
<1>2. /\ g0.id = f.id /\ g0.canister = f.canister /\ g0.attempt = f.attempt
      /\ g0.reply = reply
  BY DEF IInv, TypeOK, Flights
<1>3. flying' = (flying \ {f}) \cup {g0}
  BY DEF Answered
<1> HIDE DEF g0
<1>4. \A g, h \in flying : g.id = h.id => g = h
  BY CallIds DEF IInv, CallsAccountedFor, Accounted
<1>5. flying' \subseteq Flights
  BY <1>1, <1>3 DEF IInv, TypeOK
<1>6. \A i \in Ids : IsFlying(i)' <=> IsFlying(i)
  BY <1>2, <1>3 DEF IsFlying
<1>7. \A i \in Ids : IsQueued(i)' <=> IsQueued(i)
  BY DEF IsQueued
<1>8. \A g, h \in flying' : g.id = h.id => g = h
  BY <1>2, <1>3, <1>4
<1>9. \A g \in flying' : IF g.id = f.id THEN g.reply = reply ELSE g \in flying
  BY <1>2, <1>3, <1>4
<1>10. InProgressIsFlying'
  <2> SUFFICES ASSUME NEW c \in Canisters
               PROVE in_progress'[c] =
                        {h.id : h \in {g \in flying' : g.canister = c /\ g.attempt > 0}}
    BY DEF InProgressIsFlying
  <2>1. in_progress[c] = {h.id : h \in {g \in flying : g.canister = c /\ g.attempt > 0}}
    BY DEF IInv, InProgressIsFlying
  <2> QED BY <1>2, <1>3, <2>1
<1> QED BY <1>5, <1>6, <1>7, <1>8, <1>9, <1>10

\* The callee carries out a call that is on its way: for the first time.
LEMMA AcceptKeepsIInv ==
    ASSUME IInv, NEW f \in flying, CalleeAccepts(f)
    PROVE  IInv'
<1>1. /\ f.reply = "none" /\ flying' = Answered(f, "ok")
      /\ delivered' = [delivered EXCEPT ![f.id] = @ + 1]
      /\ UNCHANGED <<now, next_id, tracked, queue, in_progress, timer, given_up>>
  BY DEF CalleeAccepts
<1>2. f.id \in Ids /\ f.id < next_id
  BY CallIds
<1>3. /\ flying' \subseteq Flights
      /\ \A i \in Ids : IsFlying(i)' <=> IsFlying(i)
      /\ \A i \in Ids : IsQueued(i)' <=> IsQueued(i)
      /\ \A g, h \in flying' : g.id = h.id => g = h
      /\ \A g \in flying' : IF g.id = f.id THEN g.reply = "ok" ELSE g \in flying
      /\ InProgressIsFlying'
  BY <1>1, AnswerKeepsFlights
<1>4. IsFlying(f.id) /\ ~IsQueued(f.id) /\ f.id \notin given_up /\ ~IsDelivered(f.id)
  BY <1>1, <1>2 DEF IInv, CallsAccountedFor, Accounted, IsFlying
<1>5. delivered \in [Ids -> Nat]
  BY DEF IInv, TypeOK
<1>6. \A i \in Ids : delivered'[i] = IF i = f.id THEN delivered[i] + 1 ELSE delivered[i]
  BY <1>1, <1>5
<1>7. \A i \in Ids : IsDelivered(i)' <=> IsDelivered(i) \/ i = f.id
  BY <1>5, <1>6 DEF IsDelivered
<1>8. TypeOK'
  <2>1. delivered' \in [Ids -> Nat]
    BY <1>1, <1>2, <1>5
  <2> QED BY <1>1, <1>3, <2>1 DEF IInv, TypeOK
<1>9. CallsAccountedFor'
  <2>1. delivered[f.id] = 0
    BY <1>2, <1>4, <1>5 DEF IsDelivered
  <2> SUFFICES ASSUME NEW i \in Ids
               PROVE  Accounted(i)'
    BY DEF CallsAccountedFor
  <2>2. Accounted(i)
    BY DEF IInv, CallsAccountedFor
  <2>3. CASE i = f.id
    BY <1>1, <1>2, <1>3, <1>4, <1>6, <1>7, <2>1, <2>2, <2>3 DEF Accounted
  <2>4. CASE i # f.id
    BY <1>1, <1>3, <1>6, <1>7, <2>2, <2>4 DEF Accounted
  <2> QED BY <2>3, <2>4
<1>10. OkMeansDelivered'
  <2>1. \A g \in flying : g.id \in Ids
    BY CallIds
  <2> QED BY <1>2, <1>3, <1>7, <2>1 DEF IInv, OkMeansDelivered
<1>11. TrackedWhileNeeded' /\ TimerRunsWhileNeeded'
  BY <1>1 DEF IInv, TrackedWhileNeeded, TimerRunsWhileNeeded
<1> QED BY <1>3, <1>8, <1>9, <1>10, <1>11 DEF IInv

\* The callee rejects a call: only its flight changes.
LEMMA RejectKeepsIInv ==
    ASSUME IInv, NEW f \in flying, CalleeRejects(f)
    PROVE  IInv'
<1>1. /\ f.reply = "none" /\ flying' = Answered(f, "err")
      /\ UNCHANGED <<now, next_id, tracked, queue, in_progress, timer, delivered, given_up>>
  BY DEF CalleeRejects
<1>2. f.id \in Ids
  BY CallIds
<1>3. /\ flying' \subseteq Flights
      /\ \A i \in Ids : IsFlying(i)' <=> IsFlying(i)
      /\ \A i \in Ids : IsQueued(i)' <=> IsQueued(i)
      /\ \A g, h \in flying' : g.id = h.id => g = h
      /\ \A g \in flying' : IF g.id = f.id THEN g.reply = "err" ELSE g \in flying
      /\ InProgressIsFlying'
  BY <1>1, AnswerKeepsFlights
<1>4. \A i \in Ids : IsDelivered(i)' <=> IsDelivered(i)
  BY <1>1 DEF IsDelivered
<1>5. TypeOK'
  BY <1>1, <1>3 DEF IInv, TypeOK
<1>6. ~IsDelivered(f.id)
  BY <1>1, <1>2 DEF IInv, CallsAccountedFor, Accounted
<1>7. CallsAccountedFor'
  <2> SUFFICES ASSUME NEW i \in Ids
               PROVE  Accounted(i)'
    BY DEF CallsAccountedFor
  <2>1. Accounted(i)
    BY DEF IInv, CallsAccountedFor
  <2>2. IsDelivered(i)' => ~IsQueued(i)' /\ \A g \in flying' : g.id = i => g.reply = "ok"
    BY <1>3, <1>4, <1>6, <2>1 DEF Accounted
  <2> QED BY <1>1, <1>3, <1>4, <2>1, <2>2 DEF Accounted
<1>8. OkMeansDelivered'
  <2>1. \A g \in flying : g.id \in Ids
    BY CallIds
  <2> QED BY <1>3, <1>4, <2>1 DEF IInv, OkMeansDelivered
<1>9. TrackedWhileNeeded' /\ TimerRunsWhileNeeded'
  BY <1>1 DEF IInv, TrackedWhileNeeded, TimerRunsWhileNeeded
<1> QED BY <1>3, <1>5, <1>7, <1>8, <1>9 DEF IInv

-----------------------------------------------------------------------------

\* What process_single leaves behind: the call is forgotten, queued again or
\* given up, and its canister's list of calls in progress stays exact.
LEMMA FinishMoves ==
    ASSUME IInv, NEW f \in flying, Finish(f)
    PROVE  /\ f.id \in Ids /\ f.id < next_id /\ f.canister \in Canisters
           /\ \A i \in Ids : IsFlying(i)' <=> IsFlying(i) /\ i # f.id
           /\ \A i \in Ids : IsQueued(i)' <=> IsQueued(i) \/ (i = f.id /\ WillRetry(f))
           /\ queue' = IF WillRetry(f) THEN queue \cup {Retry(f)} ELSE queue
           /\ given_up' = IF f.reply = "err" /\ ~WillRetry(f)
                          THEN given_up \cup {f.id} ELSE given_up
           /\ flying' = flying \ {f}
           /\ InProgressIsFlying'
<1>1. f.id \in Ids /\ f.id < next_id /\ f.canister \in Canisters
  BY CallIds
<1>2. flying' = flying \ {f} /\ \A g, h \in flying : g.id = h.id => g = h
  BY CallIds DEF Finish, IInv, CallsAccountedFor, Accounted
<1>3. \A i \in Ids : IsFlying(i)' <=> IsFlying(i) /\ i # f.id
  BY <1>2 DEF IsFlying
<1>4. /\ queue' = IF WillRetry(f) THEN queue \cup {Retry(f)} ELSE queue
      /\ given_up' = IF f.reply = "err" /\ ~WillRetry(f)
                     THEN given_up \cup {f.id} ELSE given_up
  BY DEF Finish, LeavesTrace, WillRetry
<1>5. Retry(f).id = f.id
  BY DEF Retry
<1>6. \A i \in Ids : IsQueued(i)' <=> IsQueued(i) \/ (i = f.id /\ WillRetry(f))
  BY <1>4, <1>5 DEF IsQueued
<1>7. InProgressIsFlying'
  <2> SUFFICES ASSUME NEW c \in Canisters
               PROVE in_progress'[c] =
                        {h.id : h \in {g \in flying' : g.canister = c /\ g.attempt > 0}}
    BY DEF InProgressIsFlying
  <2>1. in_progress[c] = {h.id : h \in {g \in flying : g.canister = c /\ g.attempt > 0}}
    BY DEF IInv, InProgressIsFlying
  <2>2. in_progress \in [Canisters -> SUBSET Ids]
    BY DEF IInv, TypeOK
  <2>3. CASE LeavesTrace(f) /\ c = f.canister
    <3>1. in_progress'[c] = in_progress[c] \ {f.id}
      BY <1>1, <2>2, <2>3 DEF Finish, Released
    <3> QED BY <1>2, <2>1, <3>1
  <2>4. CASE LeavesTrace(f) /\ c # f.canister
    <3>1. in_progress'[c] = in_progress[c]
      BY <1>1, <2>2, <2>4 DEF Finish, Released
    <3> QED BY <1>2, <2>1, <2>4, <3>1
  <2>5. CASE ~LeavesTrace(f)
    <3>1. in_progress'[c] = in_progress[c] /\ ~(f.attempt > 0)
      BY <2>5 DEF Finish, LeavesTrace
    <3> QED BY <1>2, <2>1, <3>1
  <2> QED BY <2>3, <2>4, <2>5
<1> QED BY <1>1, <1>2, <1>3, <1>4, <1>6, <1>7

\* process_single, after the await.
LEMMA FinishKeepsIInv ==
    ASSUME IInv, NEW f \in flying, Finish(f)
    PROVE  IInv'
<1>1. /\ f.id \in Ids /\ f.id < next_id /\ f.canister \in Canisters
      /\ \A i \in Ids : IsFlying(i)' <=> IsFlying(i) /\ i # f.id
      /\ \A i \in Ids : IsQueued(i)' <=> IsQueued(i) \/ (i = f.id /\ WillRetry(f))
      /\ queue' = IF WillRetry(f) THEN queue \cup {Retry(f)} ELSE queue
      /\ given_up' = IF f.reply = "err" /\ ~WillRetry(f)
                     THEN given_up \cup {f.id} ELSE given_up
      /\ flying' = flying \ {f}
      /\ InProgressIsFlying'
  BY FinishMoves
<1>2. /\ f.reply \in {"ok", "err"} /\ UNCHANGED <<now, next_id, delivered>>
      /\ timer' = StartJobIfRequired(tracked')
  BY DEF Finish, IInv, TypeOK, Flights
<1>3. \A i \in Ids : IsDelivered(i)' <=> IsDelivered(i)
  BY <1>2 DEF IsDelivered
<1>4. Retry(f).id = f.id
  BY DEF Retry
<1>5. /\ ~IsQueued(f.id) /\ f.id \notin given_up
      /\ f.reply = "err" => ~IsDelivered(f.id)
      /\ f.reply = "ok" => IsDelivered(f.id)
  BY <1>1 DEF IInv, CallsAccountedFor, Accounted, OkMeansDelivered, IsFlying
<1>6. CallsAccountedFor'
  <2> SUFFICES ASSUME NEW i \in Ids
               PROVE  Accounted(i)'
    BY DEF CallsAccountedFor
  <2>1. Accounted(i)
    BY DEF IInv, CallsAccountedFor
  <2>2. CASE i # f.id
    <3>1. \A q \in queue' : q.id = i => q \in queue
      BY <1>1, <1>4, <2>2
    <3>2. i \in given_up' <=> i \in given_up
      BY <1>1, <2>2
    <3> QED BY <1>1, <1>2, <1>3, <2>1, <2>2, <3>1, <3>2 DEF Accounted
  <2>3. CASE i = f.id
    <3>1. \A q, r \in queue' : q.id = i /\ r.id = i => q = r
      BY <1>1, <1>4, <1>5, <2>3 DEF IsQueued
    <3>2. ~IsFlying(i)' /\ i < next_id' /\ delivered'[i] <= 1
      BY <1>1, <1>2, <2>1, <2>3 DEF Accounted
    <3>3. i \in Nat /\ next_id \in Nat
      BY ConstantsAssumption DEF Ids, IInv, TypeOK
    <3>4. /\ IsQueued(i)' <=> WillRetry(f)
          /\ i \in given_up' <=> f.reply = "err" /\ ~WillRetry(f)
          /\ IsDelivered(i)' <=> f.reply = "ok"
      BY <1>1, <1>2, <1>3, <1>5, <2>3
    <3>5. \A g \in flying' : g.id # i
      BY <3>2 DEF IsFlying
    <3> QED BY <1>2, <3>1, <3>2, <3>3, <3>4, <3>5 DEF Accounted, WillRetry
  <2> QED BY <2>2, <2>3
<1>7. OkMeansDelivered'
  <2>1. \A g \in flying : g.id \in Ids
    BY CallIds
  <2> QED BY <1>1, <1>3, <2>1 DEF IInv, OkMeansDelivered
<1>8. tracked' \subseteq Canisters /\ TrackedWhileNeeded'
  <2>1. tracked = {c \in Canisters : in_progress[c] # {} \/ \E q \in queue : q.canister = c}
    BY DEF IInv, TrackedWhileNeeded
  <2>2. CASE LeavesTrace(f)
    <3>1. tracked' = IF NothingLeft(f.canister, queue', in_progress')
                     THEN tracked \ {f.canister} ELSE tracked \cup {f.canister}
      BY <2>2 DEF Finish
    <3>2. \A c \in Canisters : c # f.canister => in_progress'[c] = in_progress[c]
      BY <1>1, <2>2 DEF Finish, Released, IInv, TypeOK
    <3>3. \A q \in queue' : q \in queue \/ q.canister = f.canister
      BY <1>1 DEF Retry
    <3>4. queue \subseteq queue'
      BY <1>1
    <3> QED
      BY <1>1, <2>1, <3>1, <3>2, <3>3, <3>4 DEF NothingLeft, TrackedWhileNeeded
  <2>3. CASE ~LeavesTrace(f)
    BY <2>1, <2>3 DEF Finish, TrackedWhileNeeded
  <2> QED BY <2>2, <2>3
<1>9. TypeOK'
  <2>1. queue' \subseteq Queued
    <3>1. CASE WillRetry(f)
      <4>1. f.attempt + 1 \in 1 .. MaxAttempts
        BY <3>1, CallIds, ConstantsAssumption DEF WillRetry
      <4>2. Capped(now + (f.attempt + 1) * SecondInMs) \in Times
        <5>1. now \in Nat /\ SecondInMs \in Nat /\ f.attempt + 1 \in Nat /\ MaxTime \in Nat
          BY <4>1, ConstantsAssumption DEF IInv, TypeOK, Times
        <5>2. (f.attempt + 1) * SecondInMs \in Nat
          BY <5>1
        <5>3. now + (f.attempt + 1) * SecondInMs \in Nat
          BY <5>1, <5>2
        <5> QED BY <5>1, <5>3 DEF Capped, Times
      <4>3. Retry(f) \in Queued
        BY <1>1, <4>1, <4>2 DEF Retry, Queued
      <4> QED BY <1>1, <4>3 DEF IInv, TypeOK
    <3>2. CASE ~WillRetry(f)
      BY <1>1, <3>2 DEF IInv, TypeOK
    <3> QED BY <3>1, <3>2
  <2>2. in_progress' \in [Canisters -> SUBSET Ids]
    BY <1>1 DEF Finish, Released, IInv, TypeOK
  <2>3. timer' \in BOOLEAN
    BY <1>2 DEF StartJobIfRequired, IInv, TypeOK
  <2> QED BY <1>1, <1>2, <1>8, <2>1, <2>2, <2>3 DEF IInv, TypeOK
<1>10. TimerRunsWhileNeeded'
  BY <1>2 DEF StartJobIfRequired, TimerRunsWhileNeeded
<1> QED BY <1>1, <1>6, <1>7, <1>8, <1>9, <1>10 DEF IInv

-----------------------------------------------------------------------------

\* run, with a batch: its calls move from the queue to the flights.
LEMMA SendBatchKeepsIInv ==
    ASSUME IInv, SendBatch
    PROVE  IInv'
<1> DEFINE FlightOf(q) == [id |-> q.id, canister |-> q.canister,
                           attempt |-> q.attempt, reply |-> "none"]
<1>1. PICK batch \in Batches :
         /\ queue' = queue \ batch
         /\ in_progress' = [c \in Canisters |->
               in_progress[c] \cup {q.id : q \in {r \in batch : r.canister = c}}]
         /\ flying' = flying \cup {FlightOf(q) : q \in batch}
  BY DEF SendBatch, LeftInQueue
<1>2. UNCHANGED <<now, next_id, tracked, timer, delivered, given_up>>
  BY DEF SendBatch
<1>3. \A q \in batch : q \in queue /\ q.canister \in tracked /\ in_progress[q.canister] = {}
  BY BatchIsDue
<1>4. \A q \in batch : /\ FlightOf(q).id = q.id /\ FlightOf(q).canister = q.canister
                       /\ FlightOf(q).attempt = q.attempt /\ FlightOf(q).reply = "none"
                       /\ FlightOf(q) \in Flights
                       /\ q.id \in Ids /\ q.attempt > 0
  <2> SUFFICES ASSUME NEW q \in batch
               PROVE  /\ FlightOf(q) \in Flights /\ q.id \in Ids /\ q.attempt > 0
    OBVIOUS
  <2>1. /\ q.id \in Ids /\ q.canister \in Canisters /\ q.attempt \in 1 .. MaxAttempts
    BY <1>3, CallIds
  <2> QED BY <2>1, ConstantsAssumption DEF Flights
<1> HIDE DEF FlightOf
<1>5. /\ \A f, g \in flying : f.id = g.id => f = g
      /\ \A q, r \in queue : q.id = r.id => q = r
      /\ \A f \in flying : \A q \in queue : f.id # q.id
  BY CallIds DEF IInv, CallsAccountedFor, Accounted, IsFlying, IsQueued
<1>6. \A i \in Ids : IsDelivered(i)' <=> IsDelivered(i)
  BY <1>2 DEF IsDelivered
<1>7. \A i \in Ids : IsFlying(i)' <=> IsFlying(i) \/ \E q \in batch : q.id = i
  BY <1>1, <1>4 DEF IsFlying
<1>8. \A i \in Ids : IsQueued(i)' <=> IsQueued(i) /\ ~\E q \in batch : q.id = i
  BY <1>1, <1>3, <1>5 DEF IsQueued
<1>9. TypeOK'
  <2>1. flying' \subseteq Flights /\ queue' \subseteq Queued
    BY <1>1, <1>4 DEF IInv, TypeOK
  <2>2. in_progress' \in [Canisters -> SUBSET Ids]
    BY <1>1, <1>4 DEF IInv, TypeOK
  <2> QED BY <1>2, <2>1, <2>2 DEF IInv, TypeOK
<1>10. CallsAccountedFor'
  <2> SUFFICES ASSUME NEW i \in Ids
               PROVE  Accounted(i)'
    BY DEF CallsAccountedFor
  <2>1. Accounted(i)
    BY DEF IInv, CallsAccountedFor
  <2>2. \A f, g \in flying' : f.id = i /\ g.id = i => f = g
    BY <1>1, <1>3, <1>4, <1>5
  <2>3. \A q, r \in queue' : q.id = i /\ r.id = i => q = r
    BY <1>1, <1>5
  <2>4. (\E q \in batch : q.id = i) => IsQueued(i)
    BY <1>3 DEF IsQueued
  <2>5. IsDelivered(i)' => ~IsQueued(i)' /\ \A f \in flying' : f.id = i => f.reply = "ok"
    BY <1>1, <1>4, <1>6, <1>8, <2>1, <2>4 DEF Accounted
  <2>6. \/ ~(\E q \in batch : q.id = i)
        \/ (\E q \in batch : q.id = i) /\ IsQueued(i)
    BY <2>4
  <2> QED
    BY <1>2, <1>6, <1>7, <1>8, <2>1, <2>2, <2>3, <2>4, <2>5 DEF Accounted
<1>11. OkMeansDelivered'
  <2>1. \A f \in flying : f.id \in Ids
    BY CallIds
  <2> QED BY <1>1, <1>4, <1>6, <2>1 DEF IInv, OkMeansDelivered
<1>12. InProgressIsFlying'
  <2> SUFFICES ASSUME NEW c \in Canisters
               PROVE in_progress'[c] =
                        {h.id : h \in {g \in flying' : g.canister = c /\ g.attempt > 0}}
    BY DEF InProgressIsFlying
  <2>1. in_progress[c] = {h.id : h \in {g \in flying : g.canister = c /\ g.attempt > 0}}
    BY DEF IInv, InProgressIsFlying
  <2>2. in_progress'[c] = in_progress[c] \cup {q.id : q \in {r \in batch : r.canister = c}}
    BY <1>1
  <2> QED BY <1>1, <1>4, <2>1, <2>2
<1>13. TrackedWhileNeeded'
  <2> SUFFICES ASSUME NEW c \in Canisters
               PROVE c \in tracked <=> in_progress'[c] # {} \/ \E q \in queue' : q.canister = c
    BY <1>2 DEF TrackedWhileNeeded, IInv, TypeOK
  <2>1. c \in tracked <=> in_progress[c] # {} \/ \E q \in queue : q.canister = c
    BY DEF IInv, TrackedWhileNeeded
  <2>2. in_progress'[c] = in_progress[c] \cup {q.id : q \in {r \in batch : r.canister = c}}
    BY <1>1
  <2> QED BY <1>1, <1>3, <2>1, <2>2
<1>14. TimerRunsWhileNeeded'
  BY <1>2 DEF IInv, TimerRunsWhileNeeded
<1> QED BY <1>9, <1>10, <1>11, <1>12, <1>13, <1>14 DEF IInv

\* Clearing the timer, an upgrade and time passing move no call.
LEMMA QuietStepKeepsIInv ==
    ASSUME IInv, now' \in Times, timer' \in BOOLEAN, tracked # {} => timer',
           UNCHANGED <<next_id, tracked, queue, in_progress, flying, delivered, given_up>>
    PROVE  IInv'
<1>1. CallsAccountedFor' /\ OkMeansDelivered'
  BY DEF IInv, CallsAccountedFor, Accounted, OkMeansDelivered, IsFlying, IsQueued, IsDelivered
<1> QED
  BY <1>1 DEF IInv, TypeOK, InProgressIsFlying, TrackedWhileNeeded, TimerRunsWhileNeeded

\* Every step of the handler, its callees and the clock keeps the invariant.
LEMMA NextIInv == IInv /\ [Next]_vars => IInv'
<1> SUFFICES ASSUME IInv, [Next]_vars PROVE IInv'
  OBVIOUS
<1>1. ASSUME NEW c \in Canisters, Send(c) PROVE IInv'
  BY <1>1, SendKeepsIInv
<1>2. ASSUME NEW f \in flying, CalleeAccepts(f) PROVE IInv'
  BY <1>2, AcceptKeepsIInv
<1>3. ASSUME NEW f \in flying, CalleeRejects(f) PROVE IInv'
  BY <1>3, RejectKeepsIInv
<1>4. ASSUME NEW f \in flying, Finish(f) PROVE IInv'
  BY <1>4, FinishKeepsIInv
<1>5. CASE SendBatch
  BY <1>5, SendBatchKeepsIInv
<1>6. CASE StopJob
  BY <1>6, QuietStepKeepsIInv DEF StopJob, IInv, TypeOK
<1>7. CASE Upgrade
  BY <1>7, QuietStepKeepsIInv DEF Upgrade, IInv, TypeOK
<1>8. CASE Tick
  <2>1. now' \in Times
    BY <1>8, ConstantsAssumption DEF Tick, IInv, TypeOK, Times
  <2> QED
    BY <1>8, <2>1, QuietStepKeepsIInv DEF Tick, IInv, TypeOK, TimerRunsWhileNeeded
<1>9. CASE UNCHANGED vars
  BY <1>9, QuietStepKeepsIInv DEF vars, IInv, TypeOK, TimerRunsWhileNeeded
<1> QED
  BY <1>1, <1>2, <1>3, <1>4, <1>5, <1>6, <1>7, <1>8, <1>9 DEF Next

-----------------------------------------------------------------------------

\* The invariant holds in every reachable state.
THEOREM SpecIInv == Spec => []IInv
<1>1. Init => IInv
  BY InitIInv
<1>2. IInv /\ [Next]_vars => IInv'
  BY NextIInv
<1> QED BY <1>1, <1>2, PTL DEF Spec

\* The state is well typed; in particular no call is tried more often than
\* MaxAttempts allows.
THEOREM TypeCorrect == Spec => []TypeOK
<1>1. IInv => TypeOK
  BY DEF IInv
<1> QED BY <1>1, SpecIInv, PTL

\* Every call that was sent is in exactly one place, and is carried out at
\* most once.
THEOREM NoCallIsLostOrRepeated == Spec => []CallsAccountedFor
<1>1. IInv => CallsAccountedFor
  BY DEF IInv
<1> QED BY <1>1, SpecIInv, PTL

\* in_progress never outlives the calls it lists, so no canister is shut out
\* of next_batch for good.
THEOREM InProgressIsExact == Spec => []InProgressIsFlying
<1>1. IInv => InProgressIsFlying
  BY DEF IInv
<1> QED BY <1>1, SpecIInv, PTL

\* There is no lost wake-up: a canister is tracked exactly while there is
\* something to do for it, and the timer runs while one is tracked.
THEOREM NoLostWakeUp == Spec => []TrackedWhileNeeded /\ []TimerRunsWhileNeeded
<1>1. IInv => TrackedWhileNeeded /\ TimerRunsWhileNeeded
  BY DEF IInv
<1> QED BY <1>1, SpecIInv, PTL

-----------------------------------------------------------------------------

\* What OneBatchAtATime asks of a step.
OneBatch ==
    \A c \in Canisters : \A f \in flying' \ flying :
        f.canister = c /\ f.attempt > 0 /\ f.reply = "none"
           => ~\E g \in flying : g.canister = c /\ g.attempt > 0

\* Only SendBatch starts retries, and only for canisters without any.
LEMMA NextOneBatch == IInv /\ [Next]_vars => OneBatch
<1> SUFFICES ASSUME IInv, [Next]_vars PROVE OneBatch
  OBVIOUS
<1>1. ASSUME NEW c \in Canisters, Send(c) PROVE OneBatch
  BY <1>1 DEF Send, OneBatch
<1>2. ASSUME NEW f \in flying, NEW reply \in {"ok", "err"}, flying' = Answered(f, reply)
      PROVE  OneBatch
  <2>1. f \in Flights
    BY DEF IInv, TypeOK
  <2>2. [f EXCEPT !.reply = reply].reply # "none"
    BY <2>1 DEF Flights
  <2> QED BY <1>2, <2>2 DEF Answered, OneBatch
<1>3. ASSUME NEW f \in flying, Finish(f) PROVE OneBatch
  BY <1>3 DEF Finish, OneBatch
<1>4. CASE SendBatch
  <2> SUFFICES ASSUME NEW f \in flying' \ flying
               PROVE  ~\E g \in flying : g.canister = f.canister /\ g.attempt > 0
    BY DEF OneBatch
  <2>1. PICK batch \in Batches :
           flying' = flying \cup {[id |-> q.id, canister |-> q.canister,
                                  attempt |-> q.attempt, reply |-> "none"] : q \in batch}
    BY <1>4 DEF SendBatch
  <2>2. PICK q \in batch : f.canister = q.canister
    BY <2>1
  <2>3. in_progress[f.canister] = {} /\ f.canister \in Canisters
    BY <2>2, BatchIsDue, CallIds
  <2> QED BY <2>3 DEF IInv, InProgressIsFlying
<1>5. CASE UNCHANGED flying
  BY <1>5 DEF OneBatch
<1> QED
  BY <1>1, <1>2, <1>3, <1>4, <1>5
     DEF Next, vars, CalleeAccepts, CalleeRejects, StopJob, Upgrade, Tick

\* Two batches for one canister are never on their way at once.
THEOREM BatchesDoNotOverlap == Spec => OneBatchAtATime
<1>1. IInv /\ [Next]_vars => [OneBatch]_vars
  BY NextOneBatch
<1>2. Spec => [][OneBatch]_vars
  BY <1>1, SpecIInv, PTL DEF Spec
<1> QED BY <1>2 DEF OneBatchAtATime, OneBatch

-----------------------------------------------------------------------------

\* How the status of a call follows from its whereabouts.
LEMMA StatusStep ==
    ASSUME NEW i \in Ids, Status'[i] # Status[i] =>
              \/ Status[i] = "unsent" /\ Status'[i] = "pending"
              \/ Status[i] = "pending" /\ Status'[i] \in {"delivered", "given_up"},
           \A j \in Ids : j # i => Status'[j] = Status[j]
    PROVE  Delivery!Next \/ UNCHANGED Status
<1>1. Status' = [Status EXCEPT ![i] = Status'[i]]
  BY DEF Status
<1>2. CASE Status'[i] = Status[i]
  BY <1>1, <1>2 DEF Status
<1>3. CASE Status'[i] # Status[i]
  BY <1>1, <1>3 DEF Delivery!Next, Delivery!Send, Delivery!Settle
<1> QED BY <1>2, <1>3

\* A step that changes no fate changes no status.
LEMMA SameStatus ==
    ASSUME UNCHANGED <<next_id, delivered, given_up>>
    PROVE  UNCHANGED Status
  BY DEF Status, IsDelivered

\* Every step moves at most one call, the way CallDelivery allows.
LEMMA NextRefines == IInv /\ [Next]_vars => [Delivery!Next]_Status
<1> SUFFICES ASSUME IInv, [Next]_vars PROVE Delivery!Next \/ UNCHANGED Status
  OBVIOUS
<1>t. next_id \in Nat /\ \A i \in Ids : i \in Nat
  BY ConstantsAssumption DEF IInv, TypeOK, Ids
<1>1. ASSUME NEW c \in Canisters, Send(c) PROVE Delivery!Next \/ UNCHANGED Status
  <2>1. next_id \in Ids /\ next_id' = next_id + 1 /\ UNCHANGED <<delivered, given_up>>
    BY <1>1, <1>t, ConstantsAssumption DEF Send, Ids
  <2>2. ~IsDelivered(next_id) /\ next_id \notin given_up
    BY <1>t, <2>1 DEF IInv, CallsAccountedFor, Accounted
  <2>3. Status[next_id] = "unsent" /\ Status'[next_id] = "pending"
    BY <1>t, <2>1, <2>2 DEF Status, IsDelivered
  <2>4. \A j \in Ids : j # next_id => Status'[j] = Status[j]
    BY <1>t, <2>1 DEF Status, IsDelivered
  <2> QED BY <2>1, <2>3, <2>4, StatusStep
<1>2. ASSUME NEW f \in flying, CalleeAccepts(f) PROVE Delivery!Next \/ UNCHANGED Status
  <2>1. /\ f.id \in Ids /\ f.id < next_id /\ f.reply = "none"
        /\ UNCHANGED <<next_id, given_up>>
        /\ delivered' = [delivered EXCEPT ![f.id] = @ + 1]
    BY <1>2, CallIds DEF CalleeAccepts
  <2>2. ~IsDelivered(f.id) /\ f.id \notin given_up
    BY <2>1 DEF IInv, CallsAccountedFor, Accounted, IsFlying
  <2>3. delivered \in [Ids -> Nat]
    BY DEF IInv, TypeOK
  <2>4. \A j \in Ids : IsDelivered(j)' <=> IsDelivered(j) \/ j = f.id
    BY <2>1, <2>3 DEF IsDelivered
  <2>5. Status[f.id] = "pending" /\ Status'[f.id] = "delivered"
    BY <1>t, <2>1, <2>2, <2>4 DEF Status
  <2>6. \A j \in Ids : j # f.id => Status'[j] = Status[j]
    BY <2>1, <2>4 DEF Status
  <2> QED BY <2>1, <2>5, <2>6, StatusStep
<1>3. ASSUME NEW f \in flying, Finish(f) PROVE Delivery!Next \/ UNCHANGED Status
  <2>1. /\ f.id \in Ids /\ f.id < next_id
        /\ given_up' = IF f.reply = "err" /\ ~WillRetry(f)
                       THEN given_up \cup {f.id} ELSE given_up
        /\ UNCHANGED <<next_id, delivered>>
    BY <1>3, FinishMoves DEF Finish
  <2>2. CASE f.reply = "err" /\ ~WillRetry(f)
    <3>1. ~IsDelivered(f.id) /\ f.id \notin given_up
      BY <2>1, <2>2 DEF IInv, CallsAccountedFor, Accounted, IsFlying
    <3>2. \A j \in Ids : IsDelivered(j)' <=> IsDelivered(j)
      BY <2>1 DEF IsDelivered
    <3>3. Status[f.id] = "pending" /\ Status'[f.id] = "given_up"
      BY <1>t, <2>1, <2>2, <3>1, <3>2 DEF Status
    <3>4. \A j \in Ids : j # f.id => Status'[j] = Status[j]
      BY <2>1, <3>2 DEF Status
    <3> QED BY <2>1, <3>3, <3>4, StatusStep
  <2>3. CASE ~(f.reply = "err" /\ ~WillRetry(f))
    BY <2>1, <2>3, SameStatus
  <2> QED BY <2>2, <2>3
<1>4. CASE UNCHANGED <<next_id, delivered, given_up>>
  BY <1>4, SameStatus
<1> QED
  BY <1>1, <1>2, <1>3, <1>4
     DEF Next, vars, CalleeRejects, SendBatch, StopJob, Upgrade, Tick

\* The safety part of the refinement: whatever the callees and the timer do,
\* a call goes from unsent to pending to exactly one of delivered and given
\* up.  (That it arrives there is checked by TLC.)
THEOREM RefinesDelivery == Spec => Delivery!Init /\ [][Delivery!Next]_Status
<1>1. Init => Delivery!Init
  <2> SUFFICES ASSUME Init PROVE Delivery!Init
    OBVIOUS
  <2>1. \A i \in Ids : i >= next_id
    BY ConstantsAssumption DEF Init, Ids
  <2> QED BY <2>1 DEF Delivery!Init, Status
<1>2. IInv /\ [Next]_vars => [Delivery!Next]_Status
  BY NextRefines
<1> QED BY <1>1, <1>2, SpecIInv, PTL DEF Spec
=============================================================================
