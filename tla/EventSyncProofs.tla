--------------------------- MODULE EventSyncProofs ---------------------------
(***************************************************************************)
(* The event queues lose, repeat and reorder nothing, for any number of    *)
(* destinations and events and any batch sizes; two of the jobs never miss *)
(* a wake-up; and every step of EventSync is a step of EventDelivery.      *)
(* That the events arrive in the end is left to TLC.                       *)
(***************************************************************************)
EXTENDS EventSync, FiniteSetTheorems, SequenceTheorems, TLAPS

\* What the variables hold.
Typed ==
    /\ job \in Jobs
    /\ queue \in Seq(Canisters)
    /\ events \in [Canisters -> Seq(Nat)]
    /\ busy \in BOOLEAN /\ timer \in BOOLEAN
    /\ flight \in [Canisters -> Seq(Nat)]
    /\ reply \in [Canisters -> {"idle", "waiting", "ok", "err"}]
    /\ pushed \in [Canisters -> 0 .. MaxEvents]
    /\ received \in [Canisters -> Seq(Nat)]

\* A destination is being called exactly when events are on their way to it:
\* no call is empty, and what a failed call puts back is never nothing.
CalledWithEvents == \A c \in Canisters : reply[c] = "idle" <=> flight[c] = <<>>

\* The inductive invariant.
IInv ==
    /\ Typed
    /\ EventsInOrder
    /\ QueueIsExact
    /\ CalledWithEvents

-----------------------------------------------------------------------------
(* Lemmas about the operators *)

\* A sequence is empty if its length says so.
LEMMA EmptyIffNoLength ==
    ASSUME NEW S, NEW s \in Seq(S)
    PROVE  s = <<>> <=> Len(s) = 0
  BY EmptySeq

\* What is left of a sequence without its first k elements.
LEMMA SuffixProperties ==
    ASSUME NEW S, NEW s \in Seq(S), NEW k \in 0 .. Len(s)
    PROVE  /\ SubSeq(s, k + 1, Len(s)) \in Seq(S)
           /\ Len(SubSeq(s, k + 1, Len(s))) = Len(s) - k
           /\ \A i \in 1 .. Len(s) - k : SubSeq(s, k + 1, Len(s))[i] = s[k + i]
<1>1. Len(s) \in Nat /\ k \in Nat /\ k <= Len(s)
  BY LenProperties
<1>2. \A i \in k + 1 .. Len(s) : s[i] \in S
  BY <1>1, ElementOfSeq
<1> DEFINE t == SubSeq(s, k + 1, Len(s))
<1>3. /\ t \in Seq(S)
      /\ Len(t) = IF k + 1 <= Len(s) THEN Len(s) - (k + 1) + 1 ELSE 0
      /\ \A i \in 1 .. Len(s) - (k + 1) + 1 : t[i] = s[(k + 1) + i - 1]
  BY <1>1, <1>2, SubSeqProperties
<1> HIDE DEF t
<1>4. Len(t) = Len(s) - k
  BY <1>1, <1>3
<1>5. ASSUME NEW i \in 1 .. Len(s) - k PROVE t[i] = s[k + i]
  <2>1. i \in 1 .. Len(s) - (k + 1) + 1 /\ (k + 1) + i - 1 = k + i
    BY <1>1
  <2> QED BY <1>3, <2>1
<1> QED BY <1>3, <1>4, <1>5 DEF t

\* The numbers given to the events of one push.
LEMMA SequenceProperties ==
    ASSUME NEW m \in Nat, NEW n \in Nat
    PROVE  /\ Sequence(m, n) \in Seq(Nat)
           /\ Len(Sequence(m, n)) = n
           /\ \A i \in 1 .. n : Sequence(m, n)[i] = m + i
  BY DEF Sequence

\* A push continues the numbers of the pushes before it.
LEMMA SequenceContinues ==
    ASSUME NEW m \in Nat, NEW n \in Nat
    PROVE  Sequence(0, m) \o Sequence(m, n) = Sequence(0, m + n)
<1> DEFINE a == Sequence(0, m)
           b == Sequence(m, n)
           s == Sequence(0, m + n)
<1>1. /\ a \in Seq(Nat) /\ Len(a) = m /\ \A i \in 1 .. m : a[i] = i
      /\ b \in Seq(Nat) /\ Len(b) = n /\ \A i \in 1 .. n : b[i] = m + i
      /\ s \in Seq(Nat) /\ Len(s) = m + n /\ \A i \in 1 .. m + n : s[i] = i
  BY DEF Sequence
<1> HIDE DEF a, b, s
<1>2. /\ a \o b \in Seq(Nat) /\ Len(a \o b) = m + n
      /\ \A i \in 1 .. m + n : (a \o b)[i] = IF i <= m THEN a[i] ELSE b[i - m]
  BY <1>1, ConcatProperties
<1>3. \A i \in 1 .. m + n : (a \o b)[i] = s[i]
  BY <1>1, <1>2
<1>4. a \o b = s
  BY <1>1, <1>2, <1>3, SeqEqual
<1> QED BY <1>4 DEF a, b, s

\* SetToSeqs puts the elements of a set in a row, each once.
LEMMA Arrangement ==
    ASSUME NEW S, IsFiniteSet(S), NEW q \in SetToSeqs(S)
    PROVE  /\ q \in Seq(S)
           /\ ToSet(q) = S
           /\ IsInjective(q)
<1> DEFINE D == 1 .. Cardinality(S)
<1>1. Cardinality(S) \in Nat
  BY FS_CardinalityType
<1>2. q \in [D -> S] /\ \A i, j \in D : i # j => q[i] # q[j]
  BY DEF SetToSeqs
<1>3. IsInjective(q)
  BY <1>2 DEF IsInjective
<1>4. IsFiniteSet(D) /\ Cardinality(D) = Cardinality(S)
  BY <1>1, FS_Interval
<1>5. q \in Injection(D, S)
  BY <1>2, <1>3 DEF Injection
<1>6. q \in Surjection(D, S)
  BY <1>4, <1>5, FS_Injection
<1>7. ToSet(q) = S
  BY <1>2, <1>6 DEF ToSet, Surjection
<1>8. q \in Seq(S)
  BY <1>1, <1>2
<1> QED BY <1>3, <1>7, <1>8

\* Two sequences without repetitions and without a common element, one after
\* the other.
LEMMA ConcatInjective ==
    ASSUME NEW S, NEW s \in Seq(S), NEW t \in Seq(S)
    PROVE  /\ ToSet(s \o t) = ToSet(s) \cup ToSet(t)
           /\ IsInjective(s) /\ IsInjective(t) /\ ToSet(s) \cap ToSet(t) = {}
                 => IsInjective(s \o t)
<1>1. /\ s \o t \in Seq(S) /\ Len(s \o t) = Len(s) + Len(t)
      /\ \A i \in 1 .. Len(s) + Len(t) :
            (s \o t)[i] = IF i <= Len(s) THEN s[i] ELSE t[i - Len(s)]
  BY ConcatProperties
<1>2. /\ DOMAIN s = 1 .. Len(s) /\ DOMAIN t = 1 .. Len(t)
      /\ DOMAIN (s \o t) = 1 .. Len(s) + Len(t)
      /\ Len(s) \in Nat /\ Len(t) \in Nat
  BY <1>1, LenProperties
<1> DEFINE u == s \o t
<1> HIDE DEF u
<1>3. /\ \A i \in DOMAIN s : i \in DOMAIN u /\ u[i] = s[i]
      /\ \A i \in DOMAIN t : i + Len(s) \in DOMAIN u /\ u[i + Len(s)] = t[i]
      /\ \A i \in DOMAIN u : \/ i \in DOMAIN s /\ u[i] = s[i]
                             \/ i - Len(s) \in DOMAIN t /\ u[i] = t[i - Len(s)]
  BY <1>1, <1>2 DEF u
<1>4. ToSet(u) = ToSet(s) \cup ToSet(t)
  BY <1>3 DEF ToSet
<1>5. ASSUME IsInjective(s), IsInjective(t), ToSet(s) \cap ToSet(t) = {},
             NEW i \in DOMAIN u, NEW j \in DOMAIN u, u[i] = u[j]
      PROVE  i = j
  <2>1. \A k \in DOMAIN s, l \in DOMAIN t : s[k] # t[l]
    BY <1>5 DEF ToSet
  <2>2. i \in Int /\ j \in Int
    BY <1>1, <1>2 DEF u
  <2> QED BY <1>2, <1>3, <1>5, <2>1, <2>2 DEF IsInjective
<1> QED BY <1>4, <1>5 DEF u, IsInjective

-----------------------------------------------------------------------------
(* The invariant *)

\* Initially nothing was pushed and nothing is on its way.
LEMMA InitIInv == Init => IInv
<1> SUFFICES ASSUME Init PROVE IInv
  OBVIOUS
<1>1. <<>> \in Seq(Nat) /\ <<>> \in Seq(Canisters) /\ Len(<<>>) = 0
  BY EmptySeq
<1>2. Typed
  <2>1. /\ events \in [Canisters -> Seq(Nat)] /\ flight \in [Canisters -> Seq(Nat)]
        /\ received \in [Canisters -> Seq(Nat)] /\ queue \in Seq(Canisters)
    BY <1>1 DEF Init
  <2>2. 0 \in 0 .. MaxEvents
    BY ConstantsAssumption
  <2> QED BY <2>1, <2>2 DEF Init, Typed
<1>3. EventsInOrder
  <2>1. Sequence(0, 0) = <<>>
    BY SequenceProperties, EmptySeq
  <2>2. <<>> \o <<>> \o <<>> = <<>>
    BY <1>1, ConcatEmptySeq
  <2> QED BY <2>1, <2>2 DEF Init, EventsInOrder, Unhandled
<1>4. QueueIsExact
  <2>1. InBatch = {}
    BY DEF Init, InBatch
  <2> QED BY <1>1, <2>1, ConstantsAssumption DEF Init, QueueIsExact, ToSet, IsInjective
<1>5. CalledWithEvents
  BY DEF Init, CalledWithEvents
<1> QED BY <1>2, <1>3, <1>4, <1>5 DEF IInv

\* push: the new events follow the older ones, and the destinations that had
\* none are queued.
LEMMA PushAllKeepsIInv ==
    ASSUME IInv, NEW cs \in SUBSET Canisters, NEW n \in Nat \ {0}, PushAll(cs, n),
           timer' \in BOOLEAN
    PROVE  IInv'
<1> DEFINE idle == {c \in cs : events[c] = <<>>}
<1> USE DEF IInv
<1>1. \A c \in Canisters :
          /\ pushed[c] \in Nat /\ events[c] \in Seq(Nat)
          /\ received[c] \in Seq(Nat) /\ Unhandled(c) \in Seq(Nat)
          /\ received[c] \o Unhandled(c) \in Seq(Nat)
  BY EmptySeq, ConcatProperties, ConstantsAssumption DEF Typed, Unhandled
<1>2. PICK new \in SetToSeqs(idle) : queue' = queue \o new
  BY DEF PushAll, NewlyQueued
<1>3. new \in Seq(idle) /\ new \in Seq(Canisters) /\ ToSet(new) = idle /\ IsInjective(new)
  <2>1. IsFiniteSet(idle)
    BY ConstantsAssumption, FS_Subset
  <2> QED BY <2>1, Arrangement, SeqMonotonic
<1>4. \A c \in cs : /\ Sequence(pushed[c], n) \in Seq(Nat)
                    /\ Len(Sequence(pushed[c], n)) = n
  BY <1>1, SequenceProperties
<1>5. \A c \in Canisters :
          /\ events'[c] \in Seq(Nat)
          /\ events'[c] = <<>> <=> c \notin cs /\ events[c] = <<>>
  BY <1>1, <1>4, ConcatProperties, EmptySeq DEF PushAll
<1>6. Typed'
  BY <1>1, <1>3, <1>5, <1>2, ConcatProperties, ConstantsAssumption DEF Typed, PushAll
<1>7. EventsInOrder'
  <2> SUFFICES ASSUME NEW c \in Canisters
               PROVE  received'[c] \o Unhandled(c)' \o events'[c] = Sequence(0, pushed'[c])
    BY DEF EventsInOrder
  <2>1. received'[c] = received[c] /\ Unhandled(c)' = Unhandled(c)
    BY DEF PushAll, Unhandled
  <2>2. CASE c \notin cs
    BY <2>1, <2>2 DEF PushAll, EventsInOrder
  <2>3. CASE c \in cs
    <3>1. received[c] \o Unhandled(c) \o (events[c] \o Sequence(pushed[c], n))
             = (received[c] \o Unhandled(c) \o events[c]) \o Sequence(pushed[c], n)
      <4> DEFINE before == received[c] \o Unhandled(c)
                 old == events[c]
                 new_ones == Sequence(pushed[c], n)
      <4>1. before \in Seq(Nat) /\ old \in Seq(Nat) /\ new_ones \in Seq(Nat)
        BY <1>1, <1>4, <2>3
      <4> HIDE DEF before, old, new_ones
      <4>2. before \o (old \o new_ones) = (before \o old) \o new_ones
        BY <4>1, ConcatAssociative, SMTT(30)
      <4> QED BY <4>2 DEF before, old, new_ones
    <3>2. @ = Sequence(0, pushed[c] + n)
      BY <1>1, SequenceContinues DEF EventsInOrder
    <3> QED BY <2>1, <2>3, <3>1, <3>2 DEF PushAll
  <2> QED BY <2>2, <2>3
<1>8. QueueIsExact'
  <2>1. ToSet(queue) = {c \in Canisters : events[c] # <<>>} /\ IsInjective(queue)
    BY DEF QueueIsExact
  <2>2. ToSet(queue') = ToSet(queue) \cup idle /\ IsInjective(queue')
    BY <1>2, <1>3, <2>1, ConcatInjective DEF Typed
  <2>3. ToSet(queue') = {c \in Canisters : events'[c] # <<>>}
    BY <1>5, <2>1, <2>2
  <2>4. InBatch' = InBatch /\ busy' = busy /\ flight' = flight
    BY DEF PushAll, InBatch
  <2> QED BY <2>2, <2>3, <2>4 DEF QueueIsExact
<1>9. CalledWithEvents'
  BY DEF CalledWithEvents, PushAll
<1> QED BY <1>6, <1>7, <1>8, <1>9

\* take_events: the oldest events of a destination, never more than its share
\* of a batch, and at least one if it has any.
LEMMA TakenProperties ==
    ASSUME IInv, NEW c \in Canisters
    PROVE  LET taken == SubSeq(events[c], 1, TakenFrom(c))
               left == SubSeq(events[c], TakenFrom(c) + 1, Len(events[c]))
           IN  /\ taken \in Seq(Nat) /\ left \in Seq(Nat)
               /\ taken \o left = events[c]
               /\ Len(taken) <= MaxPerBatch
               /\ taken = <<>> <=> events[c] = <<>>
               /\ left # <<>> <=> HasMore(c)
<1> DEFINE e == events[c]
           t == TakenFrom(c)
<1>1. e \in Seq(Nat) /\ Len(e) \in Nat /\ \A i \in 1 .. Len(e) : e[i] \in Nat
  BY LenProperties, ElementOfSeq DEF IInv, Typed
<1>2. /\ t \in 0 .. Len(e) /\ t <= MaxPerBatch
      /\ t = 0 <=> Len(e) = 0
  BY <1>1, ConstantsAssumption DEF TakenFrom
<1>3. HasMore(c) <=> t < Len(e)
  BY DEF HasMore
<1> HIDE DEF t, e
<1>4. /\ SubSeq(e, 1, t) \in Seq(Nat) /\ Len(SubSeq(e, 1, t)) = t
      /\ SubSeq(e, t + 1, Len(e)) \in Seq(Nat)
      /\ Len(SubSeq(e, t + 1, Len(e))) = Len(e) - t
  BY <1>1, <1>2, SubSeqProperties
<1>5. SubSeq(e, 1, t) \o SubSeq(e, t + 1, Len(e)) = e
  <2>1. SubSeq(e, 1, t) \o SubSeq(e, t + 1, Len(e)) = SubSeq(e, 1, Len(e))
    <3>1. 1 \in 1 .. Len(e) + 1 /\ t \in 1 - 1 .. Len(e) /\ Len(e) \in t .. Len(e)
      BY <1>1, <1>2
    <3> QED BY <1>1, <3>1, ConcatAdjacentSubSeq
  <2> QED BY <1>1, <2>1, SubSeqFull
<1>6. /\ SubSeq(e, 1, t) = <<>> <=> t = 0
      /\ SubSeq(e, t + 1, Len(e)) # <<>> <=> t < Len(e)
      /\ e = <<>> <=> Len(e) = 0
  <2>1. Len(e) - t = 0 <=> ~(t < Len(e))
    BY <1>1, <1>2
  <2> QED BY <1>1, <1>4, <2>1, EmptyIffNoLength
<1> QED BY <1>2, <1>3, <1>4, <1>5, <1>6 DEF e, t

\* The destinations in the batch that have more, at the end of the queue.
LEMMA RequeuedProperties ==
    ASSUME IInv, NEW more \in WithMore
    PROVE  LET again == [n \in DOMAIN more |-> queue[more[n]]]
           IN  /\ again \in Seq(Canisters)
               /\ ToSet(again) = {c \in Batch : HasMore(c)}
               /\ IsInjective(again)
<1> DEFINE places == {i \in 1 .. Popped : HasMore(queue[i])}
           again == [n \in DOMAIN more |-> queue[more[n]]]
<1>1. queue \in Seq(Canisters) /\ Len(queue) \in Nat /\ DOMAIN queue = 1 .. Len(queue)
  BY LenProperties DEF IInv, Typed
<1>2. Popped \in 0 .. Len(queue)
  BY <1>1, ConstantsAssumption DEF Popped
<1>3. IsFiniteSet(places) /\ places \subseteq 1 .. Len(queue)
  <2>1. places \subseteq 1 .. Len(queue)
    BY <1>1, <1>2
  <2>2. IsFiniteSet(1 .. Len(queue))
    BY <1>1, FS_Interval
  <2> QED BY <2>1, <2>2, FS_Subset
<1>4. more \in Seq(places) /\ ToSet(more) = places /\ IsInjective(more)
  BY <1>3, Arrangement DEF WithMore
<1>5. DOMAIN more = 1 .. Len(more) /\ Len(more) \in Nat /\ \A n \in DOMAIN more : more[n] \in places
  BY <1>4, LenProperties, ElementOfSeq
<1>6. \A n \in DOMAIN more : queue[more[n]] \in Canisters
  BY <1>1, <1>3, <1>5, ElementOfSeq
<1>7. again \in Seq(Canisters)
  BY <1>5, <1>6
<1>8. ToSet(again) = {c \in Batch : HasMore(c)}
  BY <1>4 DEF ToSet, Batch
<1>9. IsInjective(again)
  BY <1>1, <1>3, <1>4, <1>5 DEF IsInjective, IInv, QueueIsExact
<1> QED BY <1>7, <1>8, <1>9

\* What is popped off the queue and what stays in it.
LEMMA PoppedProperties ==
    ASSUME IInv, queue # <<>>
    PROVE  LET rest == SubSeq(queue, Popped + 1, Len(queue))
           IN  /\ rest \in Seq(Canisters)
               /\ ToSet(rest) = ToSet(queue) \ Batch
               /\ IsInjective(rest)
               /\ Batch # {} /\ Batch \subseteq ToSet(queue)
<1> DEFINE rest == SubSeq(queue, Popped + 1, Len(queue))
<1>1. /\ queue \in Seq(Canisters) /\ Len(queue) \in Nat /\ DOMAIN queue = 1 .. Len(queue)
      /\ \A i \in 1 .. Len(queue) : queue[i] \in Canisters
      /\ Len(queue) # 0 /\ IsInjective(queue)
  BY LenProperties, ElementOfSeq, EmptySeq DEF IInv, Typed, QueueIsExact
<1>2. Popped \in 1 .. Len(queue)
  BY <1>1, ConstantsAssumption DEF Popped
<1>3. /\ rest \in Seq(Canisters) /\ Len(rest) = Len(queue) - Popped
      /\ \A i \in 1 .. Len(queue) - Popped : rest[i] = queue[Popped + i]
  <2>1. Popped \in 0 .. Len(queue)
    BY <1>1, <1>2
  <2> QED BY <1>1, <2>1, SuffixProperties
<1>4. DOMAIN rest = 1 .. Len(queue) - Popped
  BY <1>3, LenProperties
<1> HIDE DEF rest
<1>5. IsInjective(rest)
  <2> SUFFICES ASSUME NEW i \in DOMAIN rest, NEW j \in DOMAIN rest, rest[i] = rest[j]
               PROVE  i = j
    BY DEF IsInjective
  <2>1. Popped + i \in DOMAIN queue /\ Popped + j \in DOMAIN queue
    BY <1>1, <1>2, <1>4
  <2>2. Popped + i = Popped + j
    BY <1>1, <1>3, <1>4, <2>1 DEF IsInjective
  <2> QED BY <1>1, <1>2, <1>4, <2>2
<1>6. ToSet(rest) = ToSet(queue) \ Batch
  <2>1. ToSet(rest) = {queue[j] : j \in Popped + 1 .. Len(queue)}
    <3>1. \A j \in Popped + 1 .. Len(queue) : j - Popped \in DOMAIN rest /\ rest[j - Popped] = queue[j]
      BY <1>1, <1>2, <1>3, <1>4
    <3>2. \A i \in DOMAIN rest : Popped + i \in Popped + 1 .. Len(queue) /\ rest[i] = queue[Popped + i]
      BY <1>1, <1>2, <1>3, <1>4
    <3> QED BY <3>1, <3>2 DEF ToSet
  <2>2. \A i \in 1 .. Popped, j \in Popped + 1 .. Len(queue) : queue[i] # queue[j]
    BY <1>1, <1>2 DEF IsInjective
  <2>3. 1 .. Len(queue) = (1 .. Popped) \cup (Popped + 1 .. Len(queue))
    BY <1>1, <1>2
  <2> QED BY <1>1, <2>1, <2>2, <2>3 DEF ToSet, Batch
<1>7. Batch # {} /\ Batch \subseteq ToSet(queue)
  BY <1>1, <1>2 DEF Batch, ToSet
<1> QED BY <1>3, <1>5, <1>6, <1>7 DEF rest

\* try_start_batch: what is taken is on its way, what is left is queued.
LEMMA StartBatchKeepsIInv ==
    ASSUME IInv, StartBatch
    PROVE  IInv'
<1> USE DEF IInv
<1> DEFINE rest == SubSeq(queue, Popped + 1, Len(queue))
           taken(c) == SubSeq(events[c], 1, TakenFrom(c))
           left(c) == SubSeq(events[c], TakenFrom(c) + 1, Len(events[c]))
<1>1. /\ ~busy /\ queue # <<>> /\ InBatch = {}
      /\ ToSet(queue) = {c \in Canisters : events[c] # <<>>}
  BY DEF StartBatch, QueueIsExact, Typed
<1>2. /\ rest \in Seq(Canisters) /\ IsInjective(rest)
      /\ ToSet(rest) = ToSet(queue) \ Batch
      /\ Batch # {} /\ Batch \subseteq ToSet(queue) /\ Batch \subseteq Canisters
  BY <1>1, PoppedProperties
<1>3. \A c \in Canisters :
          /\ taken(c) \in Seq(Nat) /\ left(c) \in Seq(Nat)
          /\ taken(c) \o left(c) = events[c]
          /\ Len(taken(c)) <= MaxPerBatch
          /\ taken(c) = <<>> <=> events[c] = <<>>
          /\ left(c) # <<>> <=> HasMore(c)
  BY TakenProperties
<1>4. PICK more \in WithMore : queue' = rest \o [n \in DOMAIN more |-> queue[more[n]]]
  BY DEF StartBatch, Readded
<1> DEFINE again == [n \in DOMAIN more |-> queue[more[n]]]
<1>5. /\ again \in Seq(Canisters) /\ IsInjective(again)
      /\ ToSet(again) = {c \in Batch : HasMore(c)}
  BY RequeuedProperties
<1> HIDE DEF rest, taken, left, again
<1>6. \A c \in Canisters :
          /\ reply[c] = "idle" /\ flight[c] = <<>>
          /\ flight'[c] = IF c \in Batch THEN taken(c) ELSE <<>>
          /\ events'[c] = IF c \in Batch THEN left(c) ELSE events[c]
          /\ reply'[c] = IF c \in Batch THEN "waiting" ELSE "idle"
  BY <1>1 DEF StartBatch, InBatch, CalledWithEvents, taken, left
<1>7. /\ queue' \in Seq(Canisters) /\ IsInjective(queue')
      /\ ToSet(queue') = (ToSet(queue) \ Batch) \cup {c \in Batch : HasMore(c)}
  <2>1. ToSet(rest) \cap ToSet(again) = {}
    BY <1>2, <1>5
  <2>2. queue' = rest \o again
    BY <1>4 DEF again
  <2> QED BY <1>2, <1>5, <2>1, <2>2, ConcatProperties, ConcatInjective
<1>8. Typed'
  <2>1. /\ events' \in [Canisters -> Seq(Nat)] /\ flight' \in [Canisters -> Seq(Nat)]
        /\ reply' \in [Canisters -> {"idle", "waiting", "ok", "err"}]
    BY <1>3, <1>6, EmptySeq, ZenonT(60) DEF StartBatch, Typed
  <2> QED BY <1>7, <2>1 DEF StartBatch, Typed
<1>9. EventsInOrder'
  <2> SUFFICES ASSUME NEW c \in Canisters
               PROVE  received'[c] \o Unhandled(c)' \o events'[c] = Sequence(0, pushed'[c])
    BY DEF EventsInOrder
  <2> DEFINE r == received[c]
  <2>1. r \in Seq(Nat) /\ r \o <<>> = r /\ taken(c) \in Seq(Nat) /\ left(c) \in Seq(Nat)
    BY <1>3, ConcatEmptySeq DEF Typed
  <2>2. r \o events[c] = Sequence(0, pushed[c])
    BY <1>6, <2>1 DEF EventsInOrder, Unhandled
  <2>3. received'[c] = r /\ pushed'[c] = pushed[c]
    BY DEF StartBatch
  <2>4. CASE c \in Batch
    <3>1. Unhandled(c)' = taken(c) /\ events'[c] = left(c)
      BY <1>6, <2>4 DEF Unhandled
    <3> HIDE DEF r
    <3>2. r \o taken(c) \o left(c) = r \o (taken(c) \o left(c))
      BY <2>1, ConcatAssociative
    <3> QED BY <1>3, <2>2, <2>3, <3>1, <3>2
  <2>5. CASE c \notin Batch
    <3>1. Unhandled(c)' = <<>> /\ events'[c] = events[c]
      BY <1>6, <2>5 DEF Unhandled
    <3> QED BY <2>1, <2>2, <2>3, <3>1
  <2> QED BY <2>4, <2>5
<1>10. QueueIsExact'
  <2>1. ToSet(queue') = {c \in Canisters : events'[c] # <<>>}
    BY <1>1, <1>2, <1>3, <1>6, <1>7
  <2>2. InBatch' # {} /\ busy' = TRUE
    BY <1>2, <1>6 DEF InBatch, StartBatch
  <2>3. \A c \in Canisters : Len(flight'[c]) <= MaxPerBatch
    BY <1>3, <1>6, EmptySeq, ConstantsAssumption
  <2> QED BY <1>7, <2>1, <2>2, <2>3 DEF QueueIsExact
<1>11. CalledWithEvents'
  BY <1>1, <1>2, <1>3, <1>6 DEF CalledWithEvents
<1> QED BY <1>8, <1>9, <1>10, <1>11

\* sync_events: the answer ends the call, and a failed one puts its events
\* back where they were.
LEMMA FinishSyncKeepsIInv ==
    ASSUME IInv, NEW c \in Canisters, FinishSync(c)
    PROVE  IInv'
<1> USE DEF IInv
<1>1. /\ reply[c] # "idle" /\ flight[c] # <<>> /\ c \in InBatch /\ busy
      /\ flight[c] \in Seq(Nat) /\ events[c] \in Seq(Nat) /\ received[c] \in Seq(Nat)
  BY DEF FinishSync, CalledWithEvents, InBatch, QueueIsExact, Typed
<1>2. /\ PutBack(c) \in Seq(Nat) /\ PutBack(c) # <<>>
  BY <1>1, ConcatProperties, ConcatEqualIffEmpty DEF PutBack
<1>3. InBatch' = InBatch \ {c}
  BY DEF FinishSync, InBatch, Typed
<1>4. Unhandled(c)' = <<>> /\ \A d \in Canisters \ {c} : Unhandled(d)' = Unhandled(d)
  BY DEF FinishSync, Unhandled, Typed
<1>5. /\ queue' \in Seq(Canisters) /\ IsInjective(queue')
      /\ ToSet(queue') = IF reply[c] = "err" THEN ToSet(queue) \cup {c} ELSE ToSet(queue)
  <2>1. /\ queue \in Seq(Canisters) /\ IsInjective(queue)
        /\ ToSet(queue) = {d \in Canisters : events[d] # <<>>}
    BY DEF Typed, QueueIsExact
  <2>2. CASE reply[c] = "err" /\ events[c] = <<>>
    <3>1. <<c>> \in Seq(Canisters) /\ ToSet(<<c>>) = {c} /\ IsInjective(<<c>>)
      BY DEF ToSet, IsInjective
    <3>2. queue' = queue \o <<c>>
      BY <2>1, <2>2, AppendIsConcat DEF FinishSync
    <3>3. c \notin ToSet(queue)
      BY <2>1, <2>2
    <3> DEFINE one == <<c>>
    <3>4. one \in Seq(Canisters) /\ ToSet(one) = {c} /\ IsInjective(one)
          /\ ToSet(queue) \cap ToSet(one) = {}
      BY <3>1, <3>3
    <3> HIDE DEF one
    <3>5. queue \o one \in Seq(Canisters) /\ IsInjective(queue \o one)
          /\ ToSet(queue \o one) = ToSet(queue) \cup ToSet(one)
      BY <2>1, <3>4, ConcatInjective, ConcatProperties
    <3> QED BY <2>2, <3>2, <3>4, <3>5 DEF one
  <2>3. CASE ~(reply[c] = "err" /\ events[c] = <<>>)
    <3>1. queue' = queue /\ (reply[c] = "err" => c \in ToSet(queue))
      BY <2>1, <2>3 DEF FinishSync
    <3> QED BY <2>1, <3>1
  <2> QED BY <2>2, <2>3
<1>6. Typed'
  <2>1. /\ events' \in [Canisters -> Seq(Nat)] /\ flight' \in [Canisters -> Seq(Nat)]
        /\ reply' \in [Canisters -> {"idle", "waiting", "ok", "err"}]
    BY <1>2, EmptySeq DEF FinishSync, Typed
  <2>2. busy' \in BOOLEAN /\ timer' \in BOOLEAN
    BY DEF FinishSync, Typed, StillBusy, AfterBatch, StartJobIfRequired
  <2> QED BY <1>5, <2>1, <2>2 DEF FinishSync, Typed
<1>7. EventsInOrder'
  <2> SUFFICES ASSUME NEW d \in Canisters
               PROVE  received'[d] \o Unhandled(d)' \o events'[d] = Sequence(0, pushed'[d])
    BY DEF EventsInOrder
  <2>1. received' = received /\ pushed' = pushed
    BY DEF FinishSync
  <2>2. received[d] \o Unhandled(d) \o events[d] = Sequence(0, pushed[d])
    BY DEF EventsInOrder
  <2>3. CASE d # c
    <3>1. events'[d] = events[d] /\ Unhandled(d)' = Unhandled(d)
      BY <1>4, <2>3 DEF FinishSync, Typed
    <3> QED BY <2>1, <2>2, <3>1
  <2>4. CASE d = c /\ reply[c] = "err"
    <3>1. Unhandled(c) = flight[c] /\ events'[c] = flight[c] \o events[c]
      BY <2>4 DEF FinishSync, Unhandled, PutBack, Typed
    <3> DEFINE r == received[c]
               f == flight[c]
               e == events[c]
    <3>2. r \in Seq(Nat) /\ f \in Seq(Nat) /\ e \in Seq(Nat)
      BY <1>1
    <3> HIDE DEF r, f, e
    <3>3. r \o <<>> = r /\ r \o f \o e = r \o (f \o e)
      BY <3>2, ConcatAssociative, ConcatEmptySeq, SMTT(30)
    <3> QED BY <1>4, <2>1, <2>2, <2>4, <3>1, <3>3 DEF r, f, e
  <2>5. CASE d = c /\ reply[c] # "err"
    <3>1. Unhandled(c) = <<>> /\ events'[c] = events[c]
      BY <2>5 DEF FinishSync, Unhandled
    <3> QED BY <1>4, <2>1, <2>2, <2>5, <3>1
  <2> QED BY <2>3, <2>4, <2>5
<1>8. QueueIsExact'
  <2>1. ToSet(queue') = {d \in Canisters : events'[d] # <<>>}
    BY <1>2, <1>5, ZenonT(60) DEF FinishSync, QueueIsExact, Typed
  <2>2. busy' <=> InBatch' # {}
    BY <1>1, <1>3 DEF FinishSync, StillBusy, QueueIsExact, Typed
  <2>3. \A d \in Canisters : Len(flight'[d]) <= MaxPerBatch
    BY EmptySeq, ConstantsAssumption DEF FinishSync, QueueIsExact, Typed
  <2> QED BY <1>5, <2>1, <2>2, <2>3 DEF QueueIsExact
<1>9. CalledWithEvents'
  BY DEF FinishSync, CalledWithEvents, Typed
<1> QED BY <1>6, <1>7, <1>8, <1>9

\* A call that is answered: its events count as handled from then on, or as
\* still to be handled.
LEMMA CalleeKeepsIInv ==
    ASSUME IInv, NEW c \in Canisters, CalleeAccepts(c) \/ CalleeRejects(c)
    PROVE  IInv'
<1> USE DEF IInv
<1>1. reply[c] = "waiting" /\ reply'[c] \in {"ok", "err"} /\ flight' = flight
      /\ \A d \in Canisters \ {c} : reply'[d] = reply[d] /\ received'[d] = received[d]
  BY DEF CalleeAccepts, CalleeRejects, Typed
<1>2. /\ flight[c] \in Seq(Nat) /\ received[c] \in Seq(Nat)
      /\ received[c] \o flight[c] \in Seq(Nat)
  BY ConcatProperties DEF Typed
<1>3. Typed'
  BY <1>2 DEF Typed, CalleeAccepts, CalleeRejects
<1>4. EventsInOrder'
  <2>1. \A d \in Canisters : received'[d] \o Unhandled(d)' = received[d] \o Unhandled(d)
    <3>1. CASE CalleeAccepts(c)
      <4>1. Unhandled(c) = flight[c] /\ Unhandled(c)' = <<>>
            /\ received'[c] = received[c] \o flight[c]
        BY <3>1 DEF CalleeAccepts, Unhandled, Typed
      <4>2. received'[c] \o Unhandled(c)' = received[c] \o Unhandled(c)
        BY <1>2, <4>1, ConcatEmptySeq
      <4> QED BY <1>1, <4>2 DEF Unhandled
    <3>2. CASE CalleeRejects(c)
      BY <3>2 DEF CalleeRejects, Unhandled, Typed
    <3> QED BY <3>1, <3>2
  <2> QED BY <2>1 DEF EventsInOrder, CalleeAccepts, CalleeRejects
<1>5. QueueIsExact'
  <2>1. InBatch' = InBatch
    BY <1>1 DEF InBatch
  <2>2. queue' = queue /\ events' = events /\ busy' = busy /\ flight' = flight
    BY DEF CalleeAccepts, CalleeRejects
  <2> QED BY <2>1, <2>2 DEF QueueIsExact
<1>6. CalledWithEvents'
  BY <1>1 DEF CalledWithEvents
<1> QED BY <1>3, <1>4, <1>5, <1>6

\* Steps that only touch the timer, or nothing.
LEMMA TimerKeepsIInv ==
    ASSUME IInv, StopJob \/ Upgrade \/ UNCHANGED vars
    PROVE  IInv'
<1>1. /\ UNCHANGED <<job, queue, events, busy, flight, reply, pushed, received>>
      /\ timer' \in BOOLEAN
  BY DEF StopJob, Upgrade, vars, StartsAfterUpgrade, IInv, Typed
<1> QED BY <1>1 DEF IInv, Typed, EventsInOrder, Unhandled, QueueIsExact, InBatch, CalledWithEvents

\* Every step keeps the invariant.
LEMMA NextKeepsIInv == IInv /\ [Next]_vars => IInv'
<1> SUFFICES ASSUME IInv, [Next]_vars PROVE IInv'
  OBVIOUS
<1>1. CASE \E cs \in SUBSET Canisters : Push(cs)
  <2>1. PICK cs \in SUBSET Canisters : Push(cs)
    BY <1>1
  <2>2. timer' \in BOOLEAN
    BY <2>1 DEF Push, StartJobIfRequired, IInv, Typed
  <2> QED BY <2>1, <2>2, PushAllKeepsIInv DEF Push
<1>2. CASE \E c \in Canisters : AddCanister(c)
  <2>1. PICK c \in Canisters, n \in 1 .. MaxEvents : AddCanister(c) /\ PushAll({c}, n)
    BY <1>2 DEF AddCanister
  <2>2. timer' \in BOOLEAN
    BY <2>1 DEF AddCanister, StartJobIfRequired, IInv, Typed
  <2>3. {c} \in SUBSET Canisters /\ n \in Nat \ {0}
    BY ConstantsAssumption
  <2> QED BY <2>1, <2>2, <2>3, PushAllKeepsIInv
<1>3. CASE \E c \in Canisters : FinishSync(c)
  BY <1>3, FinishSyncKeepsIInv
<1>4. CASE \E c \in Canisters : CalleeAccepts(c) \/ CalleeRejects(c)
  BY <1>4, CalleeKeepsIInv
<1>5. CASE StartBatch
  BY <1>5, StartBatchKeepsIInv
<1>6. CASE StopJob \/ Upgrade \/ UNCHANGED vars
  BY <1>6, TimerKeepsIInv
<1> QED BY <1>1, <1>2, <1>3, <1>4, <1>5, <1>6 DEF Next

-----------------------------------------------------------------------------
(* The theorems *)

\* The invariant holds of every state of every execution.
LEMMA Invariance == Spec => []IInv
  BY InitIInv, NextKeepsIInv, PTL DEF Spec

\* CanisterEventSyncQueue (push, take_events, mark_sync_failed): every event
\* is handled, on its way or waiting, once and in order.
THEOREM EventsStayInOrder == Spec => []EventsInOrder
<1>1. IInv => EventsInOrder
  BY DEF IInv
<1> QED BY <1>1, Invariance, PTL

\* try_start_batch and mark_batch_completed: the queue holds the destinations
\* with events, each once, and sync_in_progress is right.
THEOREM QueueStaysExact == Spec => []QueueIsExact
<1>1. IInv => QueueIsExact
  BY DEF IInv
<1> QED BY <1>1, Invariance, PTL

\* The jobs of the local_user_index and of the user_index.
WakefulJobs == {"local_user_index", "user_index"}

\* What these jobs maintain: that of the local_user_index does not stop while
\* a batch is on its way, since nothing would start it again at its end.
WakeUpInv ==
    /\ TimerRunsWhenNeeded
    /\ job = "local_user_index" /\ busy => timer

\* start_job_if_required, run and the end of process_batch, in these jobs.
LEMMA NextKeepsWakeUp ==
    ASSUME Jobs \subseteq WakefulJobs, IInv, WakeUpInv, [Next]_vars
    PROVE  WakeUpInv'
<1> USE DEF WakeUpInv, TimerRunsWhenNeeded
<1>1. job \in WakefulJobs /\ busy \in BOOLEAN /\ timer \in BOOLEAN
  BY DEF IInv, Typed
<1>2. ASSUME UNCHANGED <<job, busy>>, timer' = StartJobIfRequired(queue', busy)
      PROVE  WakeUpInv'
  <2>1. CASE job = "user_index"
    BY <1>1, <1>2, <2>1 DEF StartJobIfRequired
  <2>2. CASE job = "local_user_index"
    BY <1>1, <1>2, <2>2 DEF StartJobIfRequired
  <2> QED BY <1>1, <2>1, <2>2 DEF WakefulJobs
<1>3. CASE \E cs \in SUBSET Canisters : Push(cs)
  <2>1. UNCHANGED <<job, busy>> /\ timer' = StartJobIfRequired(queue', busy)
    BY <1>3 DEF Push, PushAll
  <2> QED BY <1>2, <2>1
<1>4. CASE \E c \in Canisters : AddCanister(c)
  <2>1. UNCHANGED <<job, busy>> /\ timer' = StartJobIfRequired(queue', busy)
    BY <1>1, <1>4 DEF AddCanister, PushAll, WakefulJobs
  <2> QED BY <1>2, <2>1
<1>5. CASE \E c \in Canisters : FinishSync(c)
  <2>1. PICK c \in Canisters : FinishSync(c)
    BY <1>5
  <2>2. busy /\ job' = job /\ busy' = StillBusy(c)
    BY <2>1 DEF FinishSync, InBatch, IInv, QueueIsExact, Typed
  <2>3. CASE StillBusy(c)
    BY <2>1, <2>2, <2>3 DEF FinishSync
  <2>4. CASE ~StillBusy(c) /\ job = "user_index"
    BY <2>1, <2>2, <2>4 DEF FinishSync, AfterBatch, StartJobIfRequired
  <2>5. CASE ~StillBusy(c) /\ job = "local_user_index"
    BY <2>1, <2>2, <2>5 DEF FinishSync, AfterBatch
  <2> QED BY <1>1, <2>3, <2>4, <2>5 DEF WakefulJobs
<1>6. CASE \E c \in Canisters : CalleeAccepts(c) \/ CalleeRejects(c)
  <2>1. UNCHANGED <<job, queue, busy, timer>>
    BY <1>6 DEF CalleeAccepts, CalleeRejects
  <2> QED BY <2>1
<1>7. CASE StartBatch
  BY <1>7 DEF StartBatch
<1>8. CASE StopJob
  BY <1>1, <1>8 DEF StopJob, StopsWhenIdle, WakefulJobs
<1>9. CASE Upgrade
  BY <1>1, <1>9 DEF Upgrade, StartsAfterUpgrade, WakefulJobs
<1>10. CASE UNCHANGED vars
  BY <1>10 DEF vars
<1> QED BY <1>2, <1>3, <1>4, <1>5, <1>6, <1>7, <1>8, <1>9, <1>10 DEF Next

\* There are no lost wake-ups in the jobs of the local_user_index and of the
\* user_index.  (That of the notifications_index does miss some.)
THEOREM TimerKeepsRunning ==
    ASSUME Jobs \subseteq WakefulJobs
    PROVE  Spec => []TimerRunsWhenNeeded
<1>1. Init => WakeUpInv
  BY DEF Init, WakeUpInv, TimerRunsWhenNeeded
<1>2. IInv /\ WakeUpInv /\ [Next]_vars => WakeUpInv'
  BY NextKeepsWakeUp
<1>3. WakeUpInv => TimerRunsWhenNeeded
  BY DEF WakeUpInv
<1> QED BY <1>1, <1>2, <1>3, Invariance, PTL DEF Spec

-----------------------------------------------------------------------------
(* The refinement *)

\* Initially nothing was pushed or handled.
LEMMA InitRefines == Init => Delivery!Init
<1> SUFFICES ASSUME Init PROVE Delivery!Init
  OBVIOUS
<1>1. Len(<<>>) = 0
  BY EmptySeq
<1> QED BY <1>1 DEF Init, Delivery!Init, Handled

\* A push is a Push, a call that is accepted a Receive, and nothing else
\* shows.
LEMMA NextRefines ==
    ASSUME IInv, [Next]_vars
    PROVE  [Delivery!Next]_<<pushed, Handled>>
<1>1. ASSUME NEW cs \in SUBSET Canisters, NEW n \in Nat \ {0}, PushAll(cs, n)
      PROVE  Delivery!Push
  <2>1. Handled' = Handled
    BY <1>1 DEF PushAll, Handled
  <2>2. \A c \in Canisters : pushed[c] \in Nat /\ pushed[c] <= MaxEvents
    BY ConstantsAssumption DEF IInv, Typed
  <2>3. \A c \in Canisters : pushed'[c] \in 0 .. MaxEvents /\ pushed[c] <= pushed'[c]
    BY <1>1, <2>2, ConstantsAssumption DEF PushAll
  <2>4. pushed' \in [Canisters -> 0 .. MaxEvents]
    BY <1>1, <2>3 DEF PushAll
  <2> QED BY <2>1, <2>3, <2>4 DEF Delivery!Push
<1>2. CASE \E cs \in SUBSET Canisters : Push(cs)
  BY <1>1, <1>2 DEF Push, Delivery!Next
<1>3. CASE \E c \in Canisters : AddCanister(c)
  <2>1. PICK c \in Canisters, n \in 1 .. MaxEvents : PushAll({c}, n)
    BY <1>3 DEF AddCanister
  <2>2. {c} \in SUBSET Canisters /\ n \in Nat \ {0}
    BY ConstantsAssumption
  <2> QED BY <1>1, <2>1, <2>2 DEF Delivery!Next
<1>4. CASE \E c \in Canisters : CalleeAccepts(c)
  <2>1. PICK c \in Canisters : CalleeAccepts(c)
    BY <1>4
  <2> DEFINE r == received[c]
             f == flight[c]
             e == events[c]
  <2>2. /\ r \in Seq(Nat) /\ f \in Seq(Nat) /\ e \in Seq(Nat) /\ f # <<>>
        /\ pushed[c] \in Nat
        /\ r \o f \o e = Sequence(0, pushed[c])
    <3>1. reply[c] = "waiting" /\ Unhandled(c) = f
      BY <2>1 DEF CalleeAccepts, Unhandled
    <3>2. r \o Unhandled(c) \o e = Sequence(0, pushed[c])
      BY DEF IInv, EventsInOrder
    <3> QED BY <3>1, <3>2, ConstantsAssumption DEF IInv, Typed, CalledWithEvents
  <2>3. /\ pushed' = pushed
        /\ received' = [received EXCEPT ![c] = r \o f]
    BY <2>1 DEF CalleeAccepts
  <2> HIDE DEF r, f, e
  <2>4. r \o f \in Seq(Nat) /\ Len(r \o f) = Len(r) + Len(f)
    BY <2>2, ConcatProperties
  <2>5. Len((r \o f) \o e) = Len(r \o f) + Len(e)
    BY <2>2, <2>4, ConcatProperties
  <2>6. Len(Sequence(0, pushed[c])) = pushed[c]
    BY <2>2, SequenceProperties
  <2>7. Len(r) \in Nat /\ Len(f) \in Nat \ {0} /\ Len(e) \in Nat
    BY <2>2, EmptySeq, LenProperties
  <2>8. Len(r \o f) \in Len(r) + 1 .. pushed[c]
    BY <2>2, <2>4, <2>5, <2>6, <2>7
  <2>9. Handled[c] = Len(r) /\ Handled' = [Handled EXCEPT ![c] = Len(r \o f)]
    BY <2>3 DEF Handled, IInv, Typed, r
  <2>10. Delivery!Receive(c)
    BY <2>3, <2>8, <2>9 DEF Delivery!Receive
  <2> QED BY <2>10 DEF Delivery!Next
<1>5. CASE \/ \E c \in Canisters : FinishSync(c) \/ CalleeRejects(c)
           \/ StartBatch \/ StopJob \/ Upgrade \/ UNCHANGED vars
  <2>1. pushed' = pushed /\ received' = received
    BY <1>5 DEF FinishSync, CalleeRejects, StartBatch, StopJob, Upgrade, vars
  <2> QED BY <2>1 DEF Handled
<1> QED BY <1>2, <1>3, <1>4, <1>5 DEF Next

\* Every execution of EventSync is one that EventDelivery allows: what has
\* been received is always a prefix of what was pushed, and it only grows.
THEOREM RefinesDelivery == Spec => Delivery!Safety
<1>1. IInv /\ [Next]_vars => [Delivery!Next]_<<pushed, Handled>>
  BY NextRefines
<1> QED BY <1>1, InitRefines, Invariance, PTL DEF Spec, Delivery!Safety

=============================================================================
