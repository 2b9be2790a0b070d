-------------------------- MODULE ChatEventsProofs --------------------------
(***************************************************************************)
(* What ChatEvents promises, for any number of members, messages, threads  *)
(* and changes of the time to live.                                        *)
(*                                                                         *)
(* ListInv is about the list of events alone.  The invariants of pins, of  *)
(* expiry, of threads and of the members' lists of threads rest on it, and *)
(* the last on that of the threads.  What a scan reports is proved of the  *)
(* list, by induction over the indexes it looks at (ReadingUp, ReadingDown)*)
(* and over the ranges of messages that are joined.                        *)
(***************************************************************************)
EXTENDS ChatEvents, WellFoundedInduction, FiniteSetTheorems, SequenceTheorems, TLAPS

Kinds == {"created", "ttl", "message", "joined", "pinned", "unpinned"}
PinKinds == {"pinned", "unpinned"}
Events == [kind : Kinds, by : Users, message : Nat, expires_at : Nat]
Lists == [events : Seq(Events), gone : SUBSET Nat, messages : Seq(Nat)]

\* A message has an event; an event about a pin is about a message.
ListSound(list) ==
    /\ list \in Lists
    /\ \A m \in 0 .. NextMessageIndex(list) - 1 : EventIndexOf(list, m) \in Indexes(list)
    /\ \A i \in Indexes(list) :
          EventAt(list, i).kind \in PinKinds
              => EventAt(list, i).message \in 0 .. NextMessageIndex(list) - 1
ListInv ==
    /\ ListSound(main)
    /\ now \in Nat /\ now <= MaxTime
    /\ events_ttl \in TTLs
    /\ expiring \subseteq Nat \X Nat

-----------------------------------------------------------------------------
(* Lemmas about the list *)

\* A set of numbers that is not empty has a least.
LEMMA Least ==
    ASSUME NEW S, S \subseteq Nat, S # {}
    PROVE  /\ Min(S) \in S
           /\ \A k \in S : Min(S) <= k
<1> DEFINE R == {ss \in Nat \X Nat : ss[1] < ss[2]}
<1>1. R = OpToRel(<, Nat)
  BY Zenon DEF OpToRel
<1>2. IsWellFoundedOn(R, Nat)
  BY <1>1, NatLessThanWellFounded
<1>3. PICK m \in S : \A k \in S : ~(<<k, m>> \in R)
  <2> HIDE DEF R
  <2> QED BY <1>2, WFMin
<1>4. \A k \in S : m <= k
  <2> SUFFICES ASSUME NEW k \in S PROVE m <= k
    OBVIOUS
  <2>1. <<k, m>> \in Nat \X Nat /\ ~(k < m)
    BY <1>3
  <2> QED BY <2>1
<1> QED BY <1>4 DEF Min

\* A set of numbers with a bound that is not empty has a greatest.
LEMMA Greatest ==
    ASSUME NEW n \in Nat, NEW S, S \subseteq 0 .. n - 1, S # {}
    PROVE  /\ Max(S) \in S
           /\ \A i \in S : i <= Max(S)
<1> DEFINE T == {n - i : i \in S}
<1>a. \A i \in S : i \in Int /\ i \in Nat /\ n - i \in Nat
  OBVIOUS
<1>1. T \subseteq Nat /\ T # {}
  BY <1>a
<1>2. Min(T) \in T /\ \A k \in T : Min(T) <= k
  <2> HIDE DEF T
  <2> QED BY <1>1, Least
<1>3. PICK j \in S : Min(T) = n - j
  BY <1>2
<1>4. \A i \in S : i \in Int /\ j \in Int /\ n - j <= n - i
  <2>1. \A i \in S : n - i \in T
    OBVIOUS
  <2> HIDE DEF T
  <2> QED BY <1>a, <1>2, <1>3, <2>1
<1>5. \A i \in S : j >= i
  BY <1>4
<1>6. Max(S) \in S /\ \A i \in S : Max(S) >= i
  BY <1>3, <1>5 DEF Max
<1> QED BY <1>4, <1>6

\* What pushing an event does to a list.
LEMMA PushedIs ==
    ASSUME NEW list, list \in Lists, NEW event \in Events
    PROVE  LET new == Pushed(list, event)
               n == NextEventIndex(list)
               k == NextMessageIndex(list)
           IN  /\ new \in Lists /\ n \in Nat /\ k \in Nat /\ new.gone = list.gone
               /\ Indexes(list) = 0 .. n - 1 /\ Indexes(new) = 0 .. n
               /\ Indexes(new) = Indexes(list) \cup {n} /\ n \notin Indexes(list)
               /\ EventAt(new, n) = event
               /\ \A i \in Indexes(list) : EventAt(new, i) = EventAt(list, i)
               /\ NextMessageIndex(new) = IF event.kind = "message" THEN k + 1 ELSE k
               /\ \A m \in 0 .. k - 1 : EventIndexOf(new, m) = EventIndexOf(list, m)
               /\ event.kind = "message" => EventIndexOf(new, k) = n
<1> DEFINE new == Pushed(list, event)
           n == NextEventIndex(list)
           k == NextMessageIndex(list)
<1>1. /\ list.events \in Seq(Events) /\ list.messages \in Seq(Nat) /\ list.gone \in SUBSET Nat
      /\ n = Len(list.events) /\ k = Len(list.messages)
  BY DEF Lists, NextEventIndex, NextMessageIndex
<1>2. n \in Nat /\ k \in Nat
  BY <1>1
<1>3. /\ new.events = Append(list.events, event) /\ new.gone = list.gone
      /\ new.messages = IF event.kind = "message" THEN Append(list.messages, n) ELSE list.messages
  BY DEF Pushed, Lists
<1>4. new \in Lists
  <2>1. Append(list.events, event) \in Seq(Events) /\ Append(list.messages, n) \in Seq(Nat)
    BY <1>1, <1>2
  <2> HIDE DEF n
  <2>2. new = [list EXCEPT !.events = Append(@, event),
                           !.messages = IF event.kind = "message" THEN Append(@, n) ELSE @]
    BY DEF Pushed, n
  <2> HIDE DEF new
  <2> QED BY <1>1, <2>1, <2>2 DEF Lists
<1> HIDE DEF new
<1>5. /\ Len(new.events) = n + 1 /\ new.events[n + 1] = event
      /\ \A i \in 1 .. n : new.events[i] = list.events[i]
  BY <1>1, <1>3
<1>6. /\ Indexes(list) = 0 .. n - 1 /\ Indexes(new) = 0 .. n
  BY <1>1, <1>2, <1>5 DEF Indexes, LatestEventIndex
<1>7. EventAt(new, n) = event /\ \A i \in Indexes(list) : EventAt(new, i) = EventAt(list, i)
  <2>1. \A i \in Indexes(list) : i + 1 \in 1 .. n
    BY <1>2, <1>6
  <2> QED BY <1>5, <2>1 DEF EventAt
<1>8. /\ NextMessageIndex(new) = IF event.kind = "message" THEN k + 1 ELSE k
      /\ \A m \in 0 .. k - 1 : EventIndexOf(new, m) = EventIndexOf(list, m)
      /\ event.kind = "message" => EventIndexOf(new, k) = n
  <2>1. CASE event.kind = "message"
    <3>1. /\ Len(new.messages) = k + 1 /\ new.messages[k + 1] = n
          /\ \A m \in 1 .. k : new.messages[m] = list.messages[m]
      BY <1>1, <1>2, <1>3, <2>1
    <3>2. \A m \in 0 .. k - 1 : m + 1 \in 1 .. k
      BY <1>2
    <3> HIDE DEF k, n
    <3> QED BY <2>1, <3>1, <3>2 DEF NextMessageIndex, EventIndexOf
  <2>2. CASE event.kind # "message"
    BY <1>3, <2>2 DEF NextMessageIndex, EventIndexOf
  <2> QED BY <2>1, <2>2
<1>9. 0 .. n = (0 .. n - 1) \cup {n} /\ n \notin 0 .. n - 1
  BY <1>2
<1> HIDE DEF n, k
<1> QED BY <1>1, <1>2, <1>3, <1>4, <1>6, <1>7, <1>8, <1>9 DEF new, n, k

LEMMA ExpiryDateIs ==
    ASSUME NEW kind, NEW ttl \in TTLs, now \in Nat, now <= MaxTime
    PROVE  /\ ExpiryDate(kind, ttl) \in Nat
           /\ ExpiryDate(kind, ttl) = Never \/ ExpiryDate(kind, ttl) < Never
BY ConstantsAssumption DEF ExpiryDate

\* What push_event does to the main list and to expiring_events.
PushedMain(event) ==
    /\ event \in Events
    /\ main' = Pushed(main, event)
    /\ event.expires_at = Never \/ event.expires_at < Never
    /\ expiring' = IF event.expires_at = Never THEN expiring
                   ELSE expiring \cup {<<event.expires_at, NextEventIndex(main)>>}

LEMMA PushIs ==
    ASSUME ListInv, NEW kind \in Kinds, NEW by \in Users, NEW message \in Nat, NEW ttl \in TTLs,
           Push(kind, by, message, ttl)
    PROVE  LET event == [kind |-> kind, by |-> by, message |-> message,
                         expires_at |-> ExpiryDate(kind, ttl)]
           IN  PushedMain(event)
BY ExpiryDateIs DEF ListInv, Push, PushedMain, Events

\* A pushed event keeps the list sound.
LEMMA PushKeepsList ==
    ASSUME ListSound(main), NEW event, PushedMain(event),
           event.kind \in PinKinds => event.message \in MessageIndexes
    PROVE  ListSound(main')
<1> DEFINE n == NextEventIndex(main)
           k == NextMessageIndex(main)
<1>1. /\ main \in Lists /\ event \in Events /\ main' = Pushed(main, event)
  BY DEF ListSound, PushedMain
<1> DEFINE list == Pushed(main, event)
<1>a. /\ list \in Lists /\ n \in Nat /\ k \in Nat
      /\ Indexes(list) = Indexes(main) \cup {n} /\ n \notin Indexes(main)
      /\ EventAt(list, n) = event
      /\ \A i \in Indexes(main) : EventAt(list, i) = EventAt(main, i)
      /\ NextMessageIndex(list) = IF event.kind = "message" THEN k + 1 ELSE k
      /\ \A m \in 0 .. k - 1 : EventIndexOf(list, m) = EventIndexOf(main, m)
      /\ event.kind = "message" => EventIndexOf(list, k) = n
  BY <1>1, PushedIs
<1>2. /\ main' \in Lists /\ n \in Nat /\ k \in Nat
      /\ Indexes(main') = Indexes(main) \cup {n} /\ n \notin Indexes(main)
      /\ EventAt(main', n) = event
      /\ \A i \in Indexes(main) : EventAt(main', i) = EventAt(main, i)
      /\ NextMessageIndex(main') = IF event.kind = "message" THEN k + 1 ELSE k
      /\ \A m \in 0 .. k - 1 : EventIndexOf(main', m) = EventIndexOf(main, m)
      /\ event.kind = "message" => EventIndexOf(main', k) = n
  BY <1>1, <1>a
<1> DEFINE k2 == NextMessageIndex(main')
<1>3. /\ 0 .. k - 1 \subseteq 0 .. k2 - 1
      /\ \A m \in 0 .. k2 - 1 : m \in 0 .. k - 1 \/ (m = k /\ event.kind = "message")
  BY <1>2
<1> HIDE DEF n, k, k2
<1>4. \A m \in 0 .. k2 - 1 : EventIndexOf(main', m) \in Indexes(main')
  BY <1>2, <1>3 DEF ListSound, k
<1>5. \A i \in Indexes(main') :
          EventAt(main', i).kind \in PinKinds => EventAt(main', i).message \in 0 .. k2 - 1
  BY <1>2, <1>3 DEF ListSound, k, MessageIndexes
<1> QED BY <1>2, <1>4, <1>5 DEF ListSound, k2

-----------------------------------------------------------------------------
(* The list *)

\* The steps that push an event, and which.
Pushes(event) ==
    \/ \E u \in Users : /\ SendMessage(u) /\ event.kind = "message"
                       /\ event.expires_at = ExpiryDate("message", events_ttl)
    \/ \E u \in Users, min_visible \in {0, NextEventIndex(main)} :
          Join(u, min_visible) /\ event.kind = "joined"
    \/ \E u \in Users, m \in MessageIndexes :
          \/ DeleteMessage(u, m) /\ m \in pinned /\ event.kind = "unpinned" /\ event.message = m
          \/ PinMessage(u, m) /\ event.kind = "pinned" /\ event.message = m
          \/ UnpinMessage(u, m) /\ event.kind = "unpinned" /\ event.message = m
    \/ \E ttl \in TTLs : SetEventsTimeToLive(ttl) /\ event.kind = "ttl"

\* A message that is sent is such an event.
LEMMA SendPushes ==
    ASSUME ListInv, NEW u \in Users, SendMessage(u)
    PROVE  \E event : PushedMain(event) /\ Pushes(event)
<1> DEFINE event == [kind |-> "message", by |-> u, message |-> NextMessageIndex(main),
                     expires_at |-> ExpiryDate("message", events_ttl)]
<1>1. NextMessageIndex(main) \in Nat /\ events_ttl \in TTLs
  BY DEF ListInv, ListSound, Lists, NextMessageIndex
<1>2. PushedMain(event)
  BY <1>1, PushIs DEF SendMessage, Kinds
<1> QED BY <1>2 DEF Pushes

\* Every step pushes one event, removes the expired ones, or leaves the list alone.
LEMMA StepsOfTheList ==
    ASSUME ListInv, Next
    PROVE  \/ \E event : PushedMain(event) /\ Pushes(event)
           \/ \E job \in jobs : RemoveExpiredEvents(job)
           \/ UNCHANGED <<main, expiring, scheduled, pinned, pinned_removed>>
<1>1. MessageIndexes \subseteq Nat /\ NextMessageIndex(main) \in Nat
  BY DEF ListInv, ListSound, Lists, MessageIndexes, NextMessageIndex
<1>2. Owner \in Users /\ events_ttl \in TTLs
  BY ConstantsAssumption DEF ListInv
<1> DEFINE Event(kind, by, message, ttl) ==
             [kind |-> kind, by |-> by, message |-> message, expires_at |-> ExpiryDate(kind, ttl)]
<1>3. ASSUME NEW u \in Users, SendMessage(u) PROVE \E event : PushedMain(event) /\ Pushes(event)
  BY <1>3, SendPushes
<1>4. ASSUME NEW u \in Users, NEW min_visible \in {0, NextEventIndex(main)}, Join(u, min_visible)
      PROVE  \E event : PushedMain(event) /\ Pushes(event)
  <2> DEFINE event == Event("joined", u, 0, events_ttl)
  <2>1. PushedMain(event)
    BY <1>2, <1>4, PushIs DEF Join, Kinds
  <2> QED BY <1>4, <2>1 DEF Pushes
<1>5. ASSUME NEW u \in Users, NEW m \in MessageIndexes, DeleteMessage(u, m), m \in pinned
      PROVE  \E event : PushedMain(event) /\ Pushes(event)
  <2> DEFINE event == Event("unpinned", u, m, events_ttl)
  <2>1. PushedMain(event)
    BY <1>1, <1>2, <1>5, PushIs DEF DeleteMessage, UnpinDeleted, Kinds
  <2> QED BY <1>5, <2>1 DEF Pushes
<1>6. ASSUME NEW u \in Users, NEW m \in MessageIndexes, PinMessage(u, m)
      PROVE  \E event : PushedMain(event) /\ Pushes(event)
  <2> DEFINE event == Event("pinned", u, m, events_ttl)
  <2>1. PushedMain(event)
    BY <1>1, <1>2, <1>6, PushIs DEF PinMessage, Kinds
  <2> QED BY <1>6, <2>1 DEF Pushes
<1>7. ASSUME NEW u \in Users, NEW m \in MessageIndexes, UnpinMessage(u, m)
      PROVE  \E event : PushedMain(event) /\ Pushes(event)
  <2> DEFINE event == Event("unpinned", u, m, events_ttl)
  <2>1. PushedMain(event)
    BY <1>1, <1>2, <1>7, PushIs DEF UnpinMessage, Kinds
  <2> QED BY <1>7, <2>1 DEF Pushes
<1>8. ASSUME NEW ttl \in TTLs, SetEventsTimeToLive(ttl)
      PROVE  \E event : PushedMain(event) /\ Pushes(event)
  <2> DEFINE event == Event("ttl", Owner, 0, ttl)
  <2>1. PushedMain(event)
    BY <1>2, <1>8, PushIs DEF SetEventsTimeToLive, Kinds
  <2> QED BY <1>8, <2>1 DEF Pushes
<1>9. ASSUME NEW u \in Users, NEW r \in MessageIndexes,
             \/ \E mentioned \in SUBSET Users, replied_to \in {{}} \cup {{v} : v \in Users} :
                    SendReply(u, r, mentioned, replied_to)
             \/ FollowThread(u, r) \/ UnfollowThread(u, r) \/ UndeleteMessage(u, r)
             \/ DeleteMessage(u, r) /\ r \notin pinned
      PROVE  UNCHANGED <<main, expiring, scheduled, pinned, pinned_removed>>
  <2>1. ASSUME NEW mentioned, NEW replied_to, SendReply(u, r, mentioned, replied_to)
        PROVE  UNCHANGED <<main, expiring, scheduled, pinned, pinned_removed>>
    BY <2>1 DEF SendReply
  <2>2. CASE FollowThread(u, r)
    BY <2>2 DEF FollowThread
  <2>3. CASE UnfollowThread(u, r)
    BY <2>3 DEF UnfollowThread
  <2>4. CASE UndeleteMessage(u, r)
    BY <2>4 DEF UndeleteMessage
  <2>5. CASE DeleteMessage(u, r) /\ r \notin pinned
    BY <2>5 DEF DeleteMessage, UnpinDeleted
  <2> QED BY <1>9, <2>1, <2>2, <2>3, <2>4, <2>5
<1>10. CASE Tick
  BY <1>10 DEF Tick
<1> HIDE DEF Event
<1> QED BY <1>3, <1>4, <1>5, <1>6, <1>7, <1>8, <1>9, <1>10 DEF Next

\* A chat begins with one event, that says it was created.
LEMMA InitList == Init => ListInv
<1> SUFFICES ASSUME Init PROVE ListInv
  OBVIOUS
<1> DEFINE event == [kind |-> "created", by |-> Owner, message |-> 0, expires_at |-> Never]
<1>1. event \in Events /\ EmptyList \in Lists /\ NextEventIndex(EmptyList) = 0
      /\ NextMessageIndex(EmptyList) = 0 /\ event.kind = "created"
  BY ConstantsAssumption
     DEF Events, Kinds, EmptyList, Lists, NextEventIndex, NextMessageIndex
<1> HIDE DEF event
<1> DEFINE list == Pushed(EmptyList, event)
<1>2. /\ list \in Lists /\ Indexes(list) = 0 .. 0 /\ EventAt(list, 0) = event
      /\ NextMessageIndex(list) = 0
  <2> DEFINE empty == EmptyList
             n == NextEventIndex(empty)
             k == NextMessageIndex(empty)
  <2>1. empty \in Lists /\ n = 0 /\ k = 0 /\ event \in Events /\ event.kind = "created"
    BY <1>1
  <2>2. /\ Pushed(empty, event) \in Lists /\ Indexes(Pushed(empty, event)) = 0 .. n
        /\ EventAt(Pushed(empty, event), n) = event
        /\ NextMessageIndex(Pushed(empty, event)) = IF event.kind = "message" THEN k + 1 ELSE k
    <3> HIDE DEF empty
    <3> QED BY <2>1, PushedIs
  <2> QED BY <2>1, <2>2
<1>3. main = list
  BY DEF Init, event
<1>4. \A i \in Indexes(list) : i = 0
  BY <1>2
<1> HIDE DEF list
<1>5. ListSound(list)
  BY <1>1, <1>2, <1>4 DEF ListSound, PinKinds
<1> QED BY <1>3, <1>5, ConstantsAssumption DEF ListInv, Init

LEMMA NextKeepsList ==
    ASSUME ListInv, [Next]_vars
    PROVE  ListInv'
<1>1. ListSound(main')
  <2>1. CASE UNCHANGED vars
    BY <2>1 DEF vars, ListInv
  <2>2. ASSUME NEW event, PushedMain(event), Pushes(event)
        PROVE  ListSound(main')
    <3>1. event.kind \in PinKinds => event.message \in MessageIndexes
      BY <2>2 DEF Pushes, PinKinds
    <3> QED BY <2>2, <3>1, PushKeepsList DEF ListInv
  <2>3. ASSUME NEW job \in jobs, RemoveExpiredEvents(job)
        PROVE  ListSound(main')
    <3> DEFINE list == Removed(main, ExpiredIndexes)
    <3>1. main' = list /\ main \in Lists
      BY <2>3 DEF RemoveExpiredEvents, ListInv, ListSound
    <3>2. list.events = main.events /\ list.messages = main.messages
          /\ list.gone = main.gone \cup ExpiredIndexes
      BY <3>1 DEF Removed, Lists
    <3>3. ExpiredIndexes \subseteq Nat
      BY DEF ExpiredIndexes, Expired, ListInv
    <3>4. list \in Lists
      BY <3>1, <3>3 DEF Removed, Lists
    <3> HIDE DEF list
    <3>5. /\ Indexes(list) = Indexes(main) /\ NextMessageIndex(list) = NextMessageIndex(main)
          /\ \A i : EventAt(list, i) = EventAt(main, i)
          /\ \A m : EventIndexOf(list, m) = EventIndexOf(main, m)
      BY <3>2 DEF Indexes, LatestEventIndex, NextMessageIndex, EventAt, EventIndexOf
    <3>6. ListSound(list)
      BY <3>4, <3>5 DEF ListInv, ListSound
    <3> QED BY <3>1, <3>6
  <2> QED BY <2>1, <2>2, <2>3, StepsOfTheList DEF ListInv
<1>2. now' \in Nat /\ now' <= MaxTime /\ events_ttl' \in TTLs
  <2>1. ASSUME UNCHANGED <<now, events_ttl>>
        PROVE  now' \in Nat /\ now' <= MaxTime /\ events_ttl' \in TTLs
    BY <2>1 DEF ListInv
  <2>2. ASSUME NEW ttl \in TTLs, SetEventsTimeToLive(ttl)
        PROVE  now' \in Nat /\ now' <= MaxTime /\ events_ttl' \in TTLs
    BY <2>2 DEF ListInv, SetEventsTimeToLive
  <2>3. CASE Tick
    BY <2>3, ConstantsAssumption DEF ListInv, Tick
  <2>4. CASE UNCHANGED vars
    BY <2>1, <2>4 DEF vars
  <2>5. CASE Next
    <3>1. ASSUME NEW u \in Users, NEW min_visible, SendMessage(u) \/ Join(u, min_visible)
          PROVE  UNCHANGED <<now, events_ttl>>
      BY <3>1 DEF SendMessage, Join
    <3>2. ASSUME NEW u \in Users, NEW r \in MessageIndexes,
                 \/ FollowThread(u, r) \/ UnfollowThread(u, r)
                 \/ DeleteMessage(u, r) \/ UndeleteMessage(u, r)
                 \/ PinMessage(u, r) \/ UnpinMessage(u, r)
          PROVE  UNCHANGED <<now, events_ttl>>
      BY <3>2 DEF FollowThread, UnfollowThread, DeleteMessage, UndeleteMessage, PinMessage,
                  UnpinMessage
    <3>3. ASSUME NEW u, NEW r, NEW mentioned, NEW replied_to,
                 SendReply(u, r, mentioned, replied_to)
          PROVE  UNCHANGED <<now, events_ttl>>
      BY <3>3 DEF SendReply
    <3>4. ASSUME NEW job \in jobs, RemoveExpiredEvents(job)
          PROVE  UNCHANGED <<now, events_ttl>>
      BY <3>4 DEF RemoveExpiredEvents
    <3> QED BY <2>1, <2>2, <2>3, <2>5, <3>1, <3>2, <3>3, <3>4 DEF Next
  <2> QED BY <2>4, <2>5
<1>3. expiring' \subseteq Nat \X Nat
  <2>1. CASE UNCHANGED vars
    BY <2>1 DEF vars, ListInv
  <2>2. ASSUME NEW event, PushedMain(event)
        PROVE  expiring' \subseteq Nat \X Nat
    <3>1. event.expires_at \in Nat /\ NextEventIndex(main) \in Nat
      BY <2>2 DEF PushedMain, Events, ListInv, ListSound, Lists, NextEventIndex
    <3> QED BY <2>2, <3>1 DEF PushedMain, ListInv
  <2>3. ASSUME NEW job \in jobs, RemoveExpiredEvents(job)
        PROVE  expiring' \subseteq Nat \X Nat
    BY <2>3 DEF RemoveExpiredEvents, ListInv
  <2> QED BY <2>1, <2>2, <2>3, StepsOfTheList DEF ListInv
<1> QED BY <1>1, <1>2, <1>3 DEF ListInv

LEMMA ListInvariance == Spec => []ListInv
<1>1. ListInv /\ [Next]_vars => ListInv'
  BY NextKeepsList
<1> QED BY <1>1, InitList, PTL DEF Spec

\* What the steps that push nothing, and those that push, do to the list.
LEMMA PushedMainIs ==
    ASSUME ListInv, NEW event, PushedMain(event)
    PROVE  LET n == NextEventIndex(main)
               k == NextMessageIndex(main)
           IN  /\ n \in Nat /\ k \in Nat /\ main'.gone = main.gone
               /\ Indexes(main) = 0 .. n - 1 /\ Indexes(main') = Indexes(main) \cup {n}
               /\ n \notin Indexes(main)
               /\ EventAt(main', n) = event
               /\ \A i \in Indexes(main) : EventAt(main', i) = EventAt(main, i)
               /\ MessageIndexes = 0 .. k - 1
               /\ MessageIndexes' = MessageIndexes \cup (IF event.kind = "message" THEN {k} ELSE {})
               /\ \A m \in MessageIndexes : EventIndexOf(main', m) = EventIndexOf(main, m)
               /\ event.kind = "message" => EventIndexOf(main', k) = n
<1> DEFINE n == NextEventIndex(main)
           k == NextMessageIndex(main)
           list == Pushed(main, event)
<1>1. /\ main \in Lists /\ event \in Events /\ main' = list
  BY DEF ListInv, ListSound, PushedMain
<1>2. /\ n \in Nat /\ k \in Nat /\ list.gone = main.gone
      /\ Indexes(main) = 0 .. n - 1 /\ Indexes(list) = Indexes(main) \cup {n}
      /\ n \notin Indexes(main)
      /\ EventAt(list, n) = event
      /\ \A i \in Indexes(main) : EventAt(list, i) = EventAt(main, i)
      /\ NextMessageIndex(list) = IF event.kind = "message" THEN k + 1 ELSE k
      /\ \A m \in 0 .. k - 1 : EventIndexOf(list, m) = EventIndexOf(main, m)
      /\ event.kind = "message" => EventIndexOf(list, k) = n
  BY <1>1, PushedIs
<1> HIDE DEF n, k, list
<1>3. MessageIndexes = 0 .. k - 1 /\ MessageIndexes' = 0 .. NextMessageIndex(list) - 1
  BY <1>1 DEF MessageIndexes, k
<1>4. MessageIndexes' = MessageIndexes \cup (IF event.kind = "message" THEN {k} ELSE {})
  BY <1>2, <1>3
<1> QED BY <1>1, <1>2, <1>3, <1>4 DEF n, k

LEMMA RemovedMainIs ==
    ASSUME ListInv, NEW job \in jobs, RemoveExpiredEvents(job)
    PROVE  /\ main'.gone = main.gone \cup ExpiredIndexes
           /\ Indexes(main') = Indexes(main)
           /\ MessageIndexes' = MessageIndexes
           /\ \A i : EventAt(main', i) = EventAt(main, i)
           /\ \A m : EventIndexOf(main', m) = EventIndexOf(main, m)
<1>1. /\ main'.events = main.events /\ main'.messages = main.messages
      /\ main'.gone = main.gone \cup ExpiredIndexes
  BY DEF RemoveExpiredEvents, Removed, ListInv, ListSound, Lists
<1> QED
  BY <1>1
     DEF Indexes, LatestEventIndex, NextMessageIndex, MessageIndexes, EventAt, EventIndexOf

-----------------------------------------------------------------------------
(* Expiry *)

\* A message that is there and will expire is in expiring_events, and the
\* canister's next_event_expiry, for which there is a job, is not after it.
ExpiryInv ==
    /\ \A i \in Present(main) :
          EventAt(main, i).kind = "message" /\ EventAt(main, i).expires_at # Never
              => /\ <<EventAt(main, i).expires_at, i>> \in expiring
                 /\ EventAt(main, i).expires_at < Never
                 /\ next_expiry <= EventAt(main, i).expires_at
    /\ next_expiry # Never => next_expiry \in jobs
    /\ next_expiry \in Nat /\ jobs \subseteq Nat

LEMMA NextKeepsExpiry ==
    ASSUME ListInv, ExpiryInv, [Next]_vars
    PROVE  ExpiryInv'
<1>1. ASSUME main' = main, expiring' = expiring, UNCHANGED scheduled
      PROVE  ExpiryInv'
  BY <1>1 DEF ExpiryInv, scheduled
<1>2. ASSUME NEW event, PushedMain(event), Pushes(event)
      PROVE  ExpiryInv'
  <2> DEFINE n == NextEventIndex(main)
  <2>1. /\ main'.gone = main.gone /\ Indexes(main') = Indexes(main) \cup {n}
        /\ EventAt(main', n) = event
        /\ \A i \in Indexes(main) : EventAt(main', i) = EventAt(main, i)
    BY <1>2, PushedMainIs
  <2>2. /\ \A i \in Present(main') : i \in Present(main) \/ i = n
        /\ \A i \in Present(main) : i \in Indexes(main)
    BY <2>1 DEF Present
  <2>3. /\ event.expires_at \in Nat
        /\ event.expires_at = Never \/ event.expires_at < Never
        /\ expiring \subseteq expiring'
        /\ event.expires_at # Never => <<event.expires_at, n>> \in expiring'
    BY <1>2 DEF PushedMain, Events
  <2>4. CASE event.kind # "message"
    <3>1. UNCHANGED scheduled
      BY <1>2, <2>4
         DEF Pushes, Join, DeleteMessage, PinMessage, UnpinMessage, SetEventsTimeToLive, SendMessage
    <3> HIDE DEF n
    <3> QED BY <2>1, <2>2, <2>3, <2>4, <3>1 DEF ExpiryInv, scheduled
  <2>5. CASE event.kind = "message"
    <3> DEFINE expires_at == event.expires_at
    <3>1. PICK u \in Users : SendMessage(u) /\ expires_at = ExpiryDate("message", events_ttl)
      BY <1>2, <2>5 DEF Pushes
    <3>2. \/ expires_at < next_expiry /\ next_expiry' = expires_at /\ jobs' = {expires_at}
          \/ ~(expires_at < next_expiry) /\ next_expiry' = next_expiry /\ jobs' = jobs
      BY <3>1 DEF SendMessage, RegisterTimerJobs, IsNextToExpire, scheduled
    <3> HIDE DEF n, expires_at
    <3>3. next_expiry \in Nat /\ jobs \subseteq Nat /\ expires_at \in Nat
      BY <2>3 DEF ExpiryInv, expires_at
    <3>4. next_expiry' \in Nat /\ jobs' \subseteq Nat /\ next_expiry' <= next_expiry
          /\ next_expiry' <= expires_at /\ (next_expiry' # Never => next_expiry' \in jobs')
      <4>1. CASE next_expiry' = expires_at /\ jobs' = {expires_at} /\ expires_at < next_expiry
        BY <3>3, <4>1
      <4>2. CASE next_expiry' = next_expiry /\ jobs' = jobs /\ ~(expires_at < next_expiry)
        <5>1. next_expiry # Never => next_expiry \in jobs
          BY DEF ExpiryInv
        <5> QED BY <3>3, <4>2, <5>1
      <4> QED BY <3>2, <4>1, <4>2
    <3>5. ASSUME NEW i \in Present(main'), EventAt(main', i).kind = "message",
                 EventAt(main', i).expires_at # Never
          PROVE  /\ <<EventAt(main', i).expires_at, i>> \in expiring'
                 /\ EventAt(main', i).expires_at < Never
                 /\ next_expiry' <= EventAt(main', i).expires_at
      <4>1. CASE i = n
        BY <2>1, <2>3, <3>4, <3>5, <4>1 DEF expires_at
      <4>2. CASE i \in Present(main)
        <5>1. /\ <<EventAt(main, i).expires_at, i>> \in expiring
              /\ EventAt(main, i).expires_at < Never
              /\ next_expiry <= EventAt(main, i).expires_at
              /\ EventAt(main', i) = EventAt(main, i)
          BY <2>1, <2>2, <3>5, <4>2 DEF ExpiryInv
        <5>2. EventAt(main, i).expires_at \in Nat
          BY <5>1 DEF ListInv
        <5> QED BY <2>3, <3>3, <3>4, <5>1, <5>2
      <4> QED BY <2>2, <3>5, <4>1, <4>2
    <3> QED BY <3>4, <3>5 DEF ExpiryInv
  <2> QED BY <2>4, <2>5
<1>3. ASSUME NEW job \in jobs, RemoveExpiredEvents(job)
      PROVE  ExpiryInv'
  <2> DEFINE left == expiring \ Expired
             dates == {Never} \cup {e[1] : e \in left}
             next == Min(dates)
  <2>1. expiring' = left /\ next_expiry' = next /\ jobs' = (jobs \ {job}) \cup ({next} \ {Never})
    BY <1>3 DEF RemoveExpiredEvents
  <2>2. dates \subseteq Nat /\ dates # {}
    BY ConstantsAssumption DEF ListInv
  <2>3. next \in Nat /\ \A k \in dates : next <= k
    <3> HIDE DEF dates
    <3> QED BY <2>2, Least
  <2>4. next_expiry' \in Nat /\ jobs' \subseteq Nat
        /\ (next_expiry' # Never => next_expiry' \in jobs')
    <3> HIDE DEF next
    <3> QED BY <2>1, <2>3 DEF ExpiryInv
  <2>5. ASSUME NEW i \in Present(main'), EventAt(main', i).kind = "message",
               EventAt(main', i).expires_at # Never
        PROVE  /\ <<EventAt(main', i).expires_at, i>> \in expiring'
               /\ EventAt(main', i).expires_at < Never
               /\ next_expiry' <= EventAt(main', i).expires_at
    <3>1. /\ i \in Present(main) /\ i \notin ExpiredIndexes
          /\ EventAt(main', i) = EventAt(main, i)
      BY <1>3, RemovedMainIs DEF Present
    <3> DEFINE date == EventAt(main, i).expires_at
    <3>2. <<date, i>> \in expiring /\ date < Never
      BY <2>5, <3>1 DEF ExpiryInv
    <3> HIDE DEF date
    <3>3. <<date, i>> \notin Expired
      BY <3>1 DEF ExpiredIndexes
    <3>4. <<date, i>> \in left /\ date \in dates
      <4>1. <<date, i>>[1] = date
        OBVIOUS
      <4> QED BY <3>2, <3>3, <4>1
    <3> HIDE DEF left, dates, next
    <3> QED BY <2>1, <2>3, <3>1, <3>2, <3>4 DEF date
  <2> QED BY <2>4, <2>5 DEF ExpiryInv
<1>4. CASE UNCHANGED vars
  BY <1>1, <1>4 DEF vars, scheduled
<1>5. CASE Next
  BY <1>1, <1>2, <1>3, <1>5, StepsOfTheList DEF scheduled
<1> QED BY <1>4, <1>5

\* There is a job for every message that will expire, due when it expires or
\* before: run_event_expiry_job and send_message_impl never lose track.
THEOREM MessagesAreExpired == Spec => []MessagesExpireOnTime
<1>1. Init => ExpiryInv
  <2> SUFFICES ASSUME Init PROVE ExpiryInv
    OBVIOUS
  <2> DEFINE event == [kind |-> "created", by |-> Owner, message |-> 0, expires_at |-> Never]
  <2>1. main.events = <<event>>
    BY DEF Init, Pushed, EmptyList
  <2>2. Indexes(main) = {0} /\ EventAt(main, 0) = event
    BY <2>1 DEF Indexes, LatestEventIndex, EventAt
  <2>3. \A i \in Present(main) : EventAt(main, i).kind # "message"
    BY <2>2 DEF Present
  <2> HIDE DEF event
  <2> QED BY <2>3, ConstantsAssumption DEF Init, ExpiryInv
<1>2. ListInv /\ ExpiryInv /\ [Next]_vars => ExpiryInv'
  BY NextKeepsExpiry
<1>3. ListInv /\ ExpiryInv => MessagesExpireOnTime
  <2> SUFFICES ASSUME ListInv, ExpiryInv, NEW i \in Present(main),
                      EventAt(main, i).kind = "message", EventAt(main, i).expires_at # Never
               PROVE  \E job \in jobs : job <= EventAt(main, i).expires_at
    BY DEF MessagesExpireOnTime
  <2> DEFINE date == EventAt(main, i).expires_at
  <2>1. <<date, i>> \in expiring /\ date < Never /\ next_expiry <= date
    BY DEF ExpiryInv
  <2> HIDE DEF date
  <2>2. date \in Nat /\ next_expiry \in Nat /\ Never \in Nat
    BY <2>1, ConstantsAssumption DEF ListInv, ExpiryInv
  <2>3. next_expiry # Never
    BY <2>1, <2>2
  <2> QED BY <2>1, <2>3 DEF ExpiryInv, date
<1> QED BY <1>1, <1>2, <1>3, ListInvariance, PTL DEF Spec

-----------------------------------------------------------------------------
(* Pins *)

\* The last event about the message's pin says that it is pinned.
LastSaysPinned(m) ==
    PinEvents(m) # {} /\ EventAt(main, Max(PinEvents(m))).kind = "pinned"

\* Only an event about a message's pin changes what the last of them says.
LEMMA PinsAfterPush ==
    ASSUME ListInv, NEW event, PushedMain(event), NEW m \in MessageIndexes'
    PROVE  LastSaysPinned(m)' =
               IF event.kind \in PinKinds /\ event.message = m THEN event.kind = "pinned"
               ELSE m \in MessageIndexes /\ LastSaysPinned(m)
<1> DEFINE n == NextEventIndex(main)
<1>1. /\ n \in Nat /\ Indexes(main) = 0 .. n - 1 /\ Indexes(main') = Indexes(main) \cup {n}
      /\ n \notin Indexes(main) /\ EventAt(main', n) = event
      /\ \A i \in Indexes(main) : EventAt(main', i) = EventAt(main, i)
  BY PushedMainIs
<1> HIDE DEF n
<1>2. PinEvents(m)' = PinEvents(m) \cup
                      (IF event.kind \in PinKinds /\ event.message = m THEN {n} ELSE {})
  BY <1>1 DEF PinEvents, PinKinds
<1>3. PinEvents(m) \subseteq Indexes(main)
  BY DEF PinEvents
<1>4. CASE event.kind \in PinKinds /\ event.message = m
  <2> DEFINE new == PinEvents(m) \cup {n}
  <2>1. n \in new /\ \A i \in new : i \in Int /\ i <= n
    BY <1>1, <1>3
  <2>2. Max(new) = n
    BY <1>1, <2>1 DEF Max
  <2> HIDE DEF new
  <2>3. PinEvents(m)' = new
    BY <1>2, <1>4 DEF new
  <2> QED BY <1>1, <1>4, <2>1, <2>2, <2>3 DEF LastSaysPinned
<1>5. CASE ~(event.kind \in PinKinds /\ event.message = m)
  <2>1. PinEvents(m)' = PinEvents(m)
    BY <1>2, <1>5
  <2>2. CASE PinEvents(m) = {}
    BY <1>5, <2>1, <2>2 DEF LastSaysPinned
  <2>3. CASE PinEvents(m) # {}
    <3>1. Max(PinEvents(m)) \in PinEvents(m)
      <4>1. PICK S : S = PinEvents(m)
        OBVIOUS
      <4>2. S \subseteq 0 .. n - 1 /\ S # {}
        BY <1>1, <1>3, <2>3, <4>1
      <4>3. Max(S) \in S
        BY <1>1, <4>2, Greatest
      <4> QED BY <4>1, <4>3
    <3>2. EventAt(main', Max(PinEvents(m))) = EventAt(main, Max(PinEvents(m)))
      BY <1>1, <1>3, <3>1
    <3>3. m \in MessageIndexes
      BY <2>3 DEF PinEvents, ListInv, ListSound, PinKinds, MessageIndexes
    <3> QED BY <1>5, <2>1, <3>2, <3>3 DEF LastSaysPinned
  <2> QED BY <2>2, <2>3
<1> QED BY <1>4, <1>5

\* No step but the removal of expired events, which keeps them, and those that
\* push an event about it changes what is said of a message.
LEMMA PinsAsBefore ==
    ASSUME Indexes(main') = Indexes(main), \A i : EventAt(main', i) = EventAt(main, i)
    PROVE  \A m : LastSaysPinned(m)' = LastSaysPinned(m)
BY DEF LastSaysPinned, PinEvents

LEMMA NextKeepsPins ==
    ASSUME ListInv, PinsMatchEvents, [Next]_vars
    PROVE  PinsMatchEvents'
<1>1. pinned = {m \in MessageIndexes : LastSaysPinned(m)} /\ pinned \cap pinned_removed = {}
  BY DEF PinsMatchEvents, LastSaysPinned
<1>2. SUFFICES /\ pinned' = {m \in MessageIndexes' : LastSaysPinned(m)'}
               /\ pinned' \cap pinned_removed' = {}
  BY DEF PinsMatchEvents, LastSaysPinned
<1>3. CASE UNCHANGED <<main, pinned, pinned_removed>>
  BY <1>1, <1>3 DEF LastSaysPinned, PinEvents, MessageIndexes
<1>4. ASSUME NEW job \in jobs, RemoveExpiredEvents(job)
      PROVE  /\ pinned' = {m \in MessageIndexes' : LastSaysPinned(m)'}
             /\ pinned' \cap pinned_removed' = {}
  <2>1. /\ Indexes(main') = Indexes(main) /\ MessageIndexes' = MessageIndexes
        /\ \A i : EventAt(main', i) = EventAt(main, i)
    BY <1>4, RemovedMainIs
  <2>2. pinned' = pinned /\ pinned_removed' = pinned_removed
    BY <1>4 DEF RemoveExpiredEvents
  <2>3. \A m : LastSaysPinned(m)' = LastSaysPinned(m)
    BY <2>1, PinsAsBefore
  <2> QED BY <1>1, <2>1, <2>2, <2>3
<1>5. ASSUME NEW event, PushedMain(event), Pushes(event)
      PROVE  /\ pinned' = {m \in MessageIndexes' : LastSaysPinned(m)'}
             /\ pinned' \cap pinned_removed' = {}
  <2>1. /\ MessageIndexes \subseteq MessageIndexes'
        /\ \A m \in MessageIndexes' : LastSaysPinned(m)' =
               IF event.kind \in PinKinds /\ event.message = m THEN event.kind = "pinned"
               ELSE m \in MessageIndexes /\ LastSaysPinned(m)
    BY <1>5, PushedMainIs, PinsAfterPush
  <2>2. CASE event.kind \notin PinKinds
    <3>1. pinned' = pinned /\ pinned_removed' = pinned_removed
      BY <1>5, <2>2 DEF Pushes, PinKinds, SendMessage, Join, SetEventsTimeToLive
    <3> QED BY <1>1, <2>1, <2>2, <3>1
  <2>3. CASE event.kind = "pinned"
    <3>1. event.message \in MessageIndexes /\ pinned' = pinned \cup {event.message}
          /\ pinned_removed' = pinned_removed \ {event.message}
      BY <1>5, <2>3 DEF Pushes, PinMessage, AddPinned
    <3> QED BY <1>1, <2>1, <2>3, <3>1 DEF PinKinds
  <2>4. CASE event.kind = "unpinned"
    <3>1. event.message \in MessageIndexes /\ pinned' = pinned \ {event.message}
          /\ pinned_removed' \in {pinned_removed, pinned_removed \cup {event.message}}
      BY <1>5, <2>4 DEF Pushes, DeleteMessage, UnpinDeleted, UnpinMessage
    <3> QED BY <1>1, <2>1, <2>4, <3>1 DEF PinKinds
  <2> QED BY <2>2, <2>3, <2>4 DEF PinKinds
<1>6. CASE UNCHANGED vars
  BY <1>3, <1>6 DEF vars
<1> QED BY <1>3, <1>4, <1>5, <1>6, StepsOfTheList

\* The pinned messages are those the events say are pinned.
THEOREM PinsFollowEvents == Spec => []PinsMatchEvents
<1>1. Init => PinsMatchEvents
  BY DEF Init, PinsMatchEvents, Pushed, EmptyList, MessageIndexes, NextMessageIndex
<1>2. ListInv /\ PinsMatchEvents /\ [Next]_vars => PinsMatchEvents'
  BY NextKeepsPins
<1> QED BY <1>1, <1>2, ListInvariance, PTL DEF Spec
-----------------------------------------------------------------------------
(* Threads *)

Followers == UNION {[S -> BOOLEAN] : S \in SUBSET Users}
Summaries == [participants : SUBSET Users, followers : Followers, reply_count : Nat, latest : Nat]

\* The summary counts the replies, and knows who wrote them.
Matches(summary, replies) ==
    /\ summary \in Summaries /\ replies \in Seq(Users)
    /\ summary.reply_count = Len(replies)
    /\ summary.participants = ToSet(replies)
    /\ summary.participants \cap DOMAIN summary.followers = {}

\* Threads have their root in the chat and a summary.
ThreadsInv ==
    /\ DOMAIN members \subseteq Users
    /\ DOMAIN threads = DOMAIN thread_summary
    /\ \A r \in DOMAIN threads :
          /\ r \in MessageIndexes /\ EventIndexOf(main, r) \in Present(main)
          /\ Matches(thread_summary[r], threads[r])
          /\ thread_summary[r].latest = Len(threads[r]) - 1
          /\ ParticipantsAndFollowers(r) \subseteq Users

\* The summary "s" is "summary" with one more reply: its sender takes part,
\* those it mentions follow unless they take part.
HasReply(s, summary, replies, u, mentioned, index) ==
    /\ Matches(s, Append(replies, u)) /\ s.latest = index
    /\ s.participants = summary.participants \cup {u}
    /\ DOMAIN s.followers = ((DOMAIN summary.followers \ {u}) \cup mentioned) \ s.participants
    /\ \A v \in DOMAIN s.followers :
          s.followers[v] = IF v \in mentioned THEN TRUE ELSE summary.followers[v]

\* What a reply does to the summary.
LEMMA ReplyAdded ==
    ASSUME NEW summary, NEW replies, Matches(summary, replies),
           NEW u \in Users, NEW mentioned \in SUBSET Users, NEW index \in Nat
    PROVE  HasReply(MessageAdded(summary, u, mentioned, index),
                    summary, replies, u, mentioned, index)
<1> DEFINE s == MessageAdded(summary, u, mentioned, index)
           f == summary.followers
           p == summary.participants \cup {u}
           left == [v \in DOMAIN f \ {u} |-> f[v]]
           t == Participates([summary EXCEPT !.reply_count = @ + 1, !.latest = index], u)
           new == {v \in mentioned : CanFollow(t, v, TRUE)}
           g == [v \in DOMAIN left \cup new |-> IF v \in new THEN TRUE ELSE left[v]]
<1>1. /\ summary \in Summaries /\ replies \in Seq(Users) /\ summary.reply_count = Len(replies)
      /\ summary.participants = ToSet(replies) /\ summary.participants \cap DOMAIN f = {}
  BY DEF Matches
<1>2. PICK S \in SUBSET Users : f \in [S -> BOOLEAN]
  BY <1>1 DEF Summaries, Followers
<1>3. t = [participants |-> p, followers |-> left, reply_count |-> summary.reply_count + 1,
           latest |-> index]
  <2> DEFINE counted == [summary EXCEPT !.reply_count = @ + 1, !.latest = index]
  <2>1. counted = [participants |-> summary.participants, followers |-> f,
                   reply_count |-> summary.reply_count + 1, latest |-> index]
    <3>1. PICK c \in Nat : c = summary.reply_count + 1
      BY <1>1 DEF Summaries
    <3>2. counted = [summary EXCEPT !.reply_count = c, !.latest = index]
      BY <3>1
    <3>3. counted \in Summaries
      <4> HIDE DEF counted
      <4> QED BY <1>1, <3>2 DEF Summaries
    <3>4. /\ counted.participants = summary.participants /\ counted.followers = f
          /\ counted.reply_count = summary.reply_count + 1 /\ counted.latest = index
      BY <1>1 DEF Summaries
    <3> HIDE DEF counted, f
    <3>5. counted = [participants |-> counted.participants, followers |-> counted.followers,
                     reply_count |-> counted.reply_count, latest |-> counted.latest]
      BY <3>3 DEF Summaries
    <3> QED BY <3>4, <3>5, Zenon
  <2>2. t = [counted EXCEPT !.participants = @ \cup {u}, !.followers = Without(@, {u})]
    BY DEF Participates
  <2> HIDE DEF counted, t
  <2>3. t = [participants |-> p, followers |-> Without(f, {u}),
             reply_count |-> summary.reply_count + 1, latest |-> index]
    BY <2>1, <2>2
  <2> QED BY <2>3 DEF Without
<1>4. s = [participants |-> p, followers |-> g, reply_count |-> summary.reply_count + 1,
           latest |-> index]
  <2>1. s = [t EXCEPT !.followers = [v \in DOMAIN @ \cup new |-> IF v \in new THEN TRUE ELSE @[v]]]
    BY DEF MessageAdded
  <2> HIDE DEF s, t, new, left
  <2> QED BY <1>3, <2>1
<1>5. new = {v \in mentioned : v \notin p /\ (v \in DOMAIN f \ {u} => f[v] # TRUE)}
  <2> HIDE DEF t
  <2>1. \A v : CanFollow(t, v, TRUE) <=> v \notin p /\ (v \in DOMAIN f \ {u} => f[v] # TRUE)
    BY <1>3 DEF CanFollow
  <2> QED BY <2>1
<1> HIDE DEF s, t, new
<1>6. DOMAIN g = ((DOMAIN f \ {u}) \cup mentioned) \ p
  BY <1>1, <1>5
<1>7. \A v \in DOMAIN g : g[v] = IF v \in mentioned THEN TRUE ELSE f[v]
  <2> SUFFICES ASSUME NEW v \in DOMAIN g
               PROVE  g[v] = IF v \in mentioned THEN TRUE ELSE f[v]
    OBVIOUS
  <2>1. CASE v \in new
    BY <1>5, <2>1
  <2>2. CASE v \notin new
    <3>1. v \in DOMAIN f \ {u} /\ g[v] = f[v] /\ v \notin p
      BY <2>2, <1>6
    <3>2. f[v] \in BOOLEAN
      BY <1>2, <3>1
    <3>3. v \in mentioned => f[v] = TRUE
      BY <2>2, <3>1, <3>2, <1>5
    <3> QED BY <3>1, <3>3
  <2> QED BY <2>1, <2>2
<1>8. g \in Followers
  <2>1. DOMAIN g \in SUBSET Users
    BY <1>2, <1>6
  <2>2. g \in [DOMAIN g -> BOOLEAN]
    <3>1. \A v \in DOMAIN g : g[v] \in BOOLEAN
      <4> SUFFICES ASSUME NEW v \in DOMAIN g PROVE g[v] \in BOOLEAN
        OBVIOUS
      <4>1. v \in mentioned \/ v \in DOMAIN f
        BY <1>6
      <4>2. v \in DOMAIN f => f[v] \in BOOLEAN
        BY <1>2
      <4> HIDE DEF g
      <4> QED BY <1>7, <4>1, <4>2
    <3>2. g = [v \in DOMAIN g |-> g[v]]
      OBVIOUS
    <3> HIDE DEF g
    <3> QED BY <3>1, <3>2
  <2> HIDE DEF g
  <2> QED BY <2>1, <2>2 DEF Followers
<1> HIDE DEF g
<1>9. ToSet(Append(replies, u)) = p /\ Append(replies, u) \in Seq(Users)
      /\ Len(Append(replies, u)) = Len(replies) + 1 /\ p \subseteq Users
  <2>1. /\ Len(replies) \in Nat /\ DOMAIN replies = 1 .. Len(replies)
        /\ Append(replies, u) \in Seq(Users) /\ Len(Append(replies, u)) = Len(replies) + 1
        /\ DOMAIN Append(replies, u) = 1 .. Len(replies) + 1
        /\ \A i \in 1 .. Len(replies) : Append(replies, u)[i] = replies[i]
        /\ Append(replies, u)[Len(replies) + 1] = u
    BY <1>1
  <2>2. 1 .. Len(replies) + 1 = (1 .. Len(replies)) \cup {Len(replies) + 1}
    BY <2>1
  <2>3. ToSet(Append(replies, u)) = ToSet(replies) \cup {u}
    <3> DEFINE long == Append(replies, u)
    <3> HIDE DEF long
    <3> SUFFICES ToSet(long) = ToSet(replies) \cup {u}
      BY DEF long
    <3> QED BY <2>1, <2>2 DEF ToSet, long
  <2>4. p \subseteq Users
    BY <1>1 DEF Summaries
  <2> QED BY <1>1, <2>1, <2>3, <2>4
<1>10. s \in Summaries /\ s.participants \cap DOMAIN s.followers = {}
  BY <1>1, <1>4, <1>6, <1>8, <1>9 DEF Summaries
<1>11. Matches(s, Append(replies, u))
  BY <1>1, <1>4, <1>9, <1>10 DEF Matches
<1>12. s.latest = index /\ s.participants = p /\ s.followers = g
  BY <1>4
<1>13. HasReply(s, summary, replies, u, mentioned, index)
  BY <1>6, <1>7, <1>11, <1>12 DEF HasReply
<1> QED BY <1>13 DEF s

\* What following a thread, or no longer, does to the summary.
LEMMA FollowedIs ==
    ASSUME NEW summary, NEW replies, Matches(summary, replies),
           NEW u \in Users, NEW follow \in BOOLEAN, CanFollow(summary, u, follow)
    PROVE  LET s == Followed(summary, u, follow)
           IN  /\ Matches(s, replies) /\ s.latest = summary.latest
               /\ s.participants = summary.participants
               /\ DOMAIN s.followers = DOMAIN summary.followers \cup {u}
               /\ s.followers[u] = follow
               /\ \A v \in DOMAIN summary.followers \ {u} : s.followers[v] = summary.followers[v]
<1> DEFINE s == Followed(summary, u, follow)
           f == summary.followers
           g == With(f, u, follow)
<1>1. /\ summary \in Summaries /\ replies \in Seq(Users) /\ summary.reply_count = Len(replies)
      /\ summary.participants = ToSet(replies) /\ summary.participants \cap DOMAIN f = {}
      /\ u \notin summary.participants
  BY DEF Matches, CanFollow
<1>2. PICK S \in SUBSET Users : f \in [S -> BOOLEAN]
  BY <1>1 DEF Summaries, Followers
<1>3. /\ s.followers = g /\ s.participants = summary.participants /\ s.latest = summary.latest
      /\ s.reply_count = summary.reply_count
  BY <1>1 DEF Followed, Summaries
<1>4. /\ DOMAIN g = DOMAIN f \cup {u} /\ g[u] = follow
      /\ \A v \in DOMAIN f \ {u} : g[v] = f[v]
  BY DEF With
<1>5. g \in [S \cup {u} -> BOOLEAN]
  BY <1>2 DEF With
<1>6. g \in Followers
  BY <1>2, <1>5 DEF Followers
<1>7. s \in Summaries
  <2> HIDE DEF g
  <2>1. s = [summary EXCEPT !.followers = g]
    BY DEF Followed, g
  <2> QED BY <1>1, <1>6, <2>1 DEF Summaries
<1> HIDE DEF g
<1> QED BY <1>1, <1>3, <1>4, <1>7 DEF Matches, s
\* The list only grows: messages stay where they are, with their senders, and
\* events are there until expired ones are removed.
LEMMA MainGrows ==
    ASSUME ListInv, [Next]_vars
    PROVE  /\ MessageIndexes \subseteq MessageIndexes'
           /\ \A m \in MessageIndexes :
                 EventIndexOf(main', m) = EventIndexOf(main, m) /\ Sender(m)' = Sender(m)
           /\ \/ Present(main) \subseteq Present(main')
              \/ \E job \in jobs :
                    RemoveExpiredEvents(job) /\ Present(main') = Present(main) \ ExpiredIndexes
<1>1. \A m \in MessageIndexes : EventIndexOf(main, m) \in Indexes(main)
  BY DEF ListInv, ListSound, MessageIndexes
<1>2. CASE UNCHANGED main
  BY <1>2 DEF MessageIndexes, Sender
<1>3. ASSUME NEW event, PushedMain(event)
      PROVE  /\ MessageIndexes \subseteq MessageIndexes'
             /\ \A m \in MessageIndexes :
                   EventIndexOf(main', m) = EventIndexOf(main, m) /\ Sender(m)' = Sender(m)
             /\ Present(main) \subseteq Present(main')
  <2> DEFINE n == NextEventIndex(main)
  <2>1. /\ main'.gone = main.gone /\ Indexes(main') = Indexes(main) \cup {n}
        /\ MessageIndexes \subseteq MessageIndexes'
        /\ \A i \in Indexes(main) : EventAt(main', i) = EventAt(main, i)
        /\ \A m \in MessageIndexes : EventIndexOf(main', m) = EventIndexOf(main, m)
    BY <1>3, PushedMainIs
  <2> HIDE DEF n
  <2>2. \A m \in MessageIndexes : Sender(m)' = Sender(m)
    BY <1>1, <2>1 DEF Sender
  <2> QED BY <2>1, <2>2 DEF Present
<1>4. ASSUME NEW job \in jobs, RemoveExpiredEvents(job)
      PROVE  /\ MessageIndexes \subseteq MessageIndexes'
             /\ \A m \in MessageIndexes :
                   EventIndexOf(main', m) = EventIndexOf(main, m) /\ Sender(m)' = Sender(m)
             /\ Present(main') = Present(main) \ ExpiredIndexes
  <2>1. /\ main'.gone = main.gone \cup ExpiredIndexes
        /\ Indexes(main') = Indexes(main)
        /\ MessageIndexes' = MessageIndexes
        /\ \A i : EventAt(main', i) = EventAt(main, i)
        /\ \A m : EventIndexOf(main', m) = EventIndexOf(main, m)
    BY <1>4, RemovedMainIs
  <2> QED BY <2>1 DEF Sender, Present
<1>5. CASE UNCHANGED vars
  BY <1>2, <1>5 DEF vars
<1>6. CASE Next
  BY <1>2, <1>3, <1>4, <1>6, StepsOfTheList
<1> QED BY <1>5, <1>6

\* The steps that change threads or members.
LEMMA StepsOfThreads ==
    ASSUME ListInv, [Next]_vars
    PROVE  \/ \E u \in Users, r \in MessageIndexes :
                 \/ \E mentioned \in SUBSET Users :
                       \E replied_to : SendReply(u, r, mentioned, replied_to)
                 \/ FollowThread(u, r) \/ UnfollowThread(u, r)
           \/ \E u \in Users, min_visible \in Nat : Join(u, min_visible)
           \/ \E job \in jobs : RemoveExpiredEvents(job)
           \/ UNCHANGED <<threads, thread_summary, membership>>
<1>1. ASSUME NEW u \in Users, SendMessage(u)
      PROVE  UNCHANGED <<threads, thread_summary, membership>>
  BY <1>1 DEF SendMessage
<1>2. ASSUME NEW u \in Users, NEW r \in MessageIndexes,
             \/ DeleteMessage(u, r) \/ UndeleteMessage(u, r)
             \/ PinMessage(u, r) \/ UnpinMessage(u, r)
      PROVE  UNCHANGED <<threads, thread_summary, membership>>
  BY <1>2 DEF DeleteMessage, UndeleteMessage, PinMessage, UnpinMessage
<1>3. ASSUME NEW ttl \in TTLs, SetEventsTimeToLive(ttl)
      PROVE  UNCHANGED <<threads, thread_summary, membership>>
  BY <1>3 DEF SetEventsTimeToLive
<1>4. CASE Tick
  BY <1>4 DEF Tick
<1>5. CASE UNCHANGED vars
  BY <1>5 DEF vars, membership
<1>6. {0, NextEventIndex(main)} \subseteq Nat
  BY DEF ListInv, ListSound, Lists, NextEventIndex
<1>7. CASE Next
  BY <1>1, <1>2, <1>3, <1>4, <1>6, <1>7, Zenon DEF Next
<1> QED BY <1>5, <1>7

\* What there is to say about one thread.
ThreadSound(r) ==
    /\ r \in MessageIndexes /\ EventIndexOf(main, r) \in Present(main)
    /\ Matches(thread_summary[r], threads[r])
    /\ thread_summary[r].latest = Len(threads[r]) - 1
    /\ ParticipantsAndFollowers(r) \subseteq Users

\* A thread that is left alone stays sound while its root is there.
LEMMA ThreadStaysSound ==
    ASSUME ListInv, [Next]_vars, NEW r, ThreadSound(r),
           threads'[r] = threads[r], thread_summary'[r] = thread_summary[r],
           EventIndexOf(main, r) \in Present(main')
    PROVE  ThreadSound(r)'
<1>1. r \in MessageIndexes' /\ EventIndexOf(main', r) \in Present(main')
  BY MainGrows DEF ThreadSound
<1>2. ParticipantsAndFollowers(r)' = ParticipantsAndFollowers(r)
  BY DEF ParticipantsAndFollowers
<1> QED BY <1>1, <1>2 DEF ThreadSound

\* Before a reply, too, the summary matches the replies.
LEMMA SummaryMatches ==
    ASSUME NEW r, DOMAIN threads = DOMAIN thread_summary,
           r \in DOMAIN threads => /\ Matches(thread_summary[r], threads[r])
                                   /\ ParticipantsAndFollowers(r) \subseteq Users
    PROVE  /\ Matches(SummaryOf(r), Replies(r))
           /\ SummaryOf(r).participants \cup DOMAIN SummaryOf(r).followers \subseteq Users
<1>1. CASE r \in DOMAIN threads
  BY <1>1 DEF SummaryOf, Replies, ParticipantsAndFollowers
<1>2. CASE r \notin DOMAIN threads
  <2>1. SummaryOf(r) = NoSummary /\ Replies(r) = <<>>
    BY <1>2 DEF SummaryOf, Replies
  <2>2. NoSummary.participants = {} /\ DOMAIN NoSummary.followers = {}
    BY DEF NoSummary
  <2>3. <<>> \in Followers
    <3>1. <<>> \in [{} -> BOOLEAN]
      OBVIOUS
    <3> QED BY <3>1 DEF Followers
  <2>4. NoSummary \in Summaries /\ NoSummary.reply_count = 0
    BY <2>3 DEF NoSummary, Summaries
  <2>5. <<>> \in Seq(Users) /\ Len(<<>>) = 0 /\ ToSet(<<>>) = {}
    BY DEF ToSet
  <2> QED BY <2>1, <2>2, <2>4, <2>5 DEF Matches
<1> QED BY <1>1, <1>2

LEMMA NextKeepsThreads ==
    ASSUME ListInv, ThreadsInv, [Next]_vars
    PROVE  ThreadsInv'
<1> DEFINE Goal == /\ DOMAIN members' \subseteq Users
                   /\ DOMAIN threads' = DOMAIN thread_summary'
                   /\ \A q \in DOMAIN threads' : ThreadSound(q)'
<1> SUFFICES Goal
  BY DEF ThreadsInv, ThreadSound
<1>1. /\ DOMAIN members \subseteq Users /\ DOMAIN threads = DOMAIN thread_summary
      /\ \A q \in DOMAIN threads : ThreadSound(q)
  BY DEF ThreadsInv, ThreadSound
<1>2. ASSUME UNCHANGED <<threads, thread_summary>>, Present(main) \subseteq Present(main'),
             DOMAIN members' \subseteq Users
      PROVE  Goal
  <2>1. \A q \in DOMAIN threads : EventIndexOf(main, q) \in Present(main')
    BY <1>1, <1>2 DEF ThreadSound
  <2> QED BY <1>1, <1>2, <2>1, ThreadStaysSound
<1>3. ASSUME NEW job \in jobs, RemoveExpiredEvents(job)
      PROVE  Goal
  <2> DEFINE roots == ExpiredRoots(ExpiredIndexes)
  <2>1. /\ threads' = [q \in DOMAIN threads \ roots |-> threads[q]]
        /\ thread_summary' = [q \in DOMAIN thread_summary \ roots |-> thread_summary[q]]
        /\ DOMAIN members' = DOMAIN members
    BY <1>3 DEF RemoveExpiredEvents, Without, ThreadsForgotten
  <2>2. Indexes(main') = Indexes(main) /\ main'.gone = main.gone \cup ExpiredIndexes
    BY <1>3, RemovedMainIs
  <2>3. ASSUME NEW q \in DOMAIN threads'
        PROVE  ThreadSound(q)'
    <3>1. ThreadSound(q) /\ q \in DOMAIN threads \ roots
      BY <1>1, <2>1, <2>3
    <3>2. EventIndexOf(main, q) \notin ExpiredIndexes
      BY <1>1, <3>1 DEF ExpiredRoots
    <3>3. EventIndexOf(main, q) \in Present(main')
      BY <2>2, <3>1, <3>2 DEF ThreadSound, Present
    <3>4. threads'[q] = threads[q] /\ thread_summary'[q] = thread_summary[q]
      BY <1>1, <2>1, <3>1
    <3> QED BY <2>1, <3>1, <3>3, <3>4, ThreadStaysSound
  <2> QED BY <1>1, <2>1, <2>3
<1>4. ASSUME NEW u \in Users, NEW r \in MessageIndexes, NEW summary,
             EventIndexOf(main, r) \in Present(main), main' = main,
             DOMAIN members' = DOMAIN members,
             DOMAIN threads' = DOMAIN threads \cup {r},
             DOMAIN thread_summary' = DOMAIN thread_summary \cup {r},
             \A q \in DOMAIN threads \ {r} :
                 threads'[q] = threads[q] /\ thread_summary'[q] = thread_summary[q],
             thread_summary'[r] = summary, Matches(summary, threads'[r]),
             summary.latest = Len(threads'[r]) - 1,
             summary.participants \cup DOMAIN summary.followers \subseteq Users
      PROVE  Goal
  <2>1. ThreadSound(r)'
    <3>1. r \in MessageIndexes' /\ EventIndexOf(main', r) \in Present(main')
      BY <1>4 DEF MessageIndexes
    <3> QED BY <1>4, <3>1 DEF ThreadSound, ParticipantsAndFollowers
  <2>2. \A q \in DOMAIN threads \ {r} : ThreadSound(q)'
    <3>1. \A q \in DOMAIN threads : EventIndexOf(main, q) \in Present(main')
      BY <1>1, <1>4 DEF ThreadSound
    <3> QED BY <1>1, <1>4, <3>1, ThreadStaysSound
  <2> QED BY <1>1, <1>4, <2>1, <2>2
<1>5. ASSUME NEW u \in Users, NEW r \in MessageIndexes, NEW mentioned \in SUBSET Users,
             NEW replied_to, SendReply(u, r, mentioned, replied_to)
      PROVE  Goal
  <2> DEFINE summary == MessageAdded(SummaryOf(r), u, mentioned, Len(Replies(r)))
  <2>1. /\ threads' = With(threads, r, Append(Replies(r), u))
        /\ thread_summary' = With(thread_summary, r, summary)
        /\ DOMAIN members' = DOMAIN members /\ main' = main
        /\ EventIndexOf(main, r) \in Present(main) /\ u \in DOMAIN members
    BY <1>5 DEF SendReply, Sees, IsAccessible, WithThread
  <2>2. /\ Matches(SummaryOf(r), Replies(r))
        /\ SummaryOf(r).participants \cup DOMAIN SummaryOf(r).followers \subseteq Users
    BY <1>1, SummaryMatches DEF ThreadSound, ParticipantsAndFollowers
  <2>3. Len(Replies(r)) \in Nat /\ Len(Append(Replies(r), u)) = Len(Replies(r)) + 1
    BY <2>2 DEF Matches
  <2>4. /\ Matches(summary, Append(Replies(r), u)) /\ summary.latest = Len(Replies(r))
        /\ summary.participants = SummaryOf(r).participants \cup {u}
        /\ DOMAIN summary.followers \subseteq DOMAIN SummaryOf(r).followers \cup mentioned
    <3>1. mentioned \in SUBSET Users
      BY <1>5
    <3> DEFINE before == SummaryOf(r)
               replies == Replies(r)
               index == Len(replies)
    <3>2. Matches(before, replies) /\ index \in Nat
      BY <2>2, <2>3
    <3> HIDE DEF before, replies, index
    <3> DEFINE after == MessageAdded(before, u, mentioned, index)
    <3>3. HasReply(after, before, replies, u, mentioned, index)
      BY <3>1, <3>2, ReplyAdded
    <3> HIDE DEF after
    <3>4. DOMAIN after.followers \subseteq DOMAIN before.followers \cup mentioned
      BY <3>3 DEF HasReply
    <3> QED BY <3>3, <3>4 DEF HasReply, after, before, replies, index
  <2> HIDE DEF summary
  <2>5. /\ DOMAIN threads' = DOMAIN threads \cup {r}
        /\ DOMAIN thread_summary' = DOMAIN thread_summary \cup {r}
        /\ threads'[r] = Append(Replies(r), u) /\ thread_summary'[r] = summary
        /\ \A q \in DOMAIN threads \ {r} :
               threads'[q] = threads[q] /\ thread_summary'[q] = thread_summary[q]
    BY <1>1, <2>1 DEF With
  <2>6. summary.participants \cup DOMAIN summary.followers \subseteq Users
    BY <2>1, <2>2, <2>4
  <2>7. Matches(summary, threads'[r]) /\ summary.latest = Len(threads'[r]) - 1
    BY <2>3, <2>4, <2>5
  <2> QED BY <1>4, <2>1, <2>5, <2>6, <2>7
<1>6. ASSUME NEW u \in Users, NEW r \in MessageIndexes, NEW follow \in BOOLEAN,
             IF follow THEN FollowThread(u, r) ELSE UnfollowThread(u, r)
      PROVE  Goal
  <2> DEFINE before == thread_summary[r]
             summary == Followed(before, u, follow)
  <2>1. /\ thread_summary' = [thread_summary EXCEPT ![r] = summary] /\ threads' = threads
        /\ DOMAIN members' = DOMAIN members /\ main' = main /\ r \in DOMAIN thread_summary
        /\ EventIndexOf(main, r) \in Present(main) /\ u \in DOMAIN members
        /\ CanFollow(before, u, follow)
    BY <1>6 DEF FollowThread, UnfollowThread, Sees, IsAccessible
  <2>2. /\ Matches(before, threads[r]) /\ before.latest = Len(threads[r]) - 1
        /\ before.participants \cup DOMAIN before.followers \subseteq Users
    BY <1>1, <2>1 DEF ThreadSound, ParticipantsAndFollowers
  <2>3. /\ Matches(summary, threads[r]) /\ summary.latest = before.latest
        /\ summary.participants = before.participants
        /\ DOMAIN summary.followers = DOMAIN before.followers \cup {u}
    <3> HIDE DEF before
    <3> QED BY <2>1, <2>2, FollowedIs
  <2> HIDE DEF summary, before
  <2>4. /\ DOMAIN threads' = DOMAIN threads \cup {r}
        /\ DOMAIN thread_summary' = DOMAIN thread_summary \cup {r}
        /\ thread_summary'[r] = summary
        /\ \A q \in DOMAIN threads \ {r} :
               threads'[q] = threads[q] /\ thread_summary'[q] = thread_summary[q]
    BY <1>1, <2>1
  <2> QED BY <1>4, <2>1, <2>2, <2>3, <2>4
<1>7. ASSUME NEW u \in Users, NEW min_visible, Join(u, min_visible)
      PROVE  Goal
  <2>1. /\ DOMAIN members' = DOMAIN members \cup {u}
        /\ UNCHANGED <<threads, thread_summary>>
    BY <1>7 DEF Join, With
  <2> QED BY <1>1, <1>2, <1>3, <2>1, MainGrows
<1>8. CASE UNCHANGED <<threads, thread_summary, membership>>
  BY <1>1, <1>2, <1>3, <1>8, MainGrows DEF membership
<1>9. \A u \in Users, r \in MessageIndexes :
          FollowThread(u, r) \/ UnfollowThread(u, r) => Goal
  BY <1>6
<1> HIDE DEF Goal
<1> QED BY <1>3, <1>5, <1>7, <1>8, <1>9, StepsOfThreads

LEMMA ThreadsInvariance == Spec => []ThreadsInv
<1>1. Init => ThreadsInv
  BY ConstantsAssumption DEF Init, ThreadsInv
<1>2. ListInv /\ ThreadsInv /\ [Next]_vars => ThreadsInv'
  BY NextKeepsThreads
<1> QED BY <1>1, <1>2, ListInvariance, PTL DEF Spec

\* A thread and its summary go together, until both go with the root.
THEOREM SummariesMatchThreads == Spec => []ThreadsMatchSummaries
<1>1. ThreadsInv => ThreadsMatchSummaries
  BY DEF ThreadsInv, ThreadsMatchSummaries, Matches
<1> QED BY <1>1, ThreadsInvariance, PTL
-----------------------------------------------------------------------------
(* Members *)

MemberRecords == [min_visible : Nat, threads : SUBSET Nat, unfollowed : SUBSET Nat]

\* What a member remembers of one thread is what its summary says.  A thread
\* that was given up has the member among its followers, or participants.
Knows(u, r) ==
    /\ r \in members[u].threads
           => /\ r \in MessageIndexes
              /\ Sender(r) # u => r \in DOMAIN threads /\ Following(u, r)
    /\ r \in DOMAIN threads /\ Following(u, r)
           => r \in members[u].threads \/ <<u, r>> \in outsiders
    /\ r \in members[u].unfollowed => r \in DOMAIN threads /\ u \in ParticipantsAndFollowers(r)
    /\ r \in DOMAIN threads /\ u \in DOMAIN thread_summary[r].followers
           /\ ~thread_summary[r].followers[u] => r \in members[u].unfollowed
MembersInv ==
    \A u \in DOMAIN members : members[u] \in MemberRecords /\ \A r \in Nat : Knows(u, r)

\* Whoever a thread knows of and is not a member is a follower since a mention.
OutsidersInv ==
    \A r \in DOMAIN threads : \A u \in ParticipantsAndFollowers(r) \ DOMAIN members :
        /\ u \in DOMAIN thread_summary[r].followers /\ thread_summary[r].followers[u]
        /\ <<u, r>> \in outsiders

\* Nothing changes between a member and a thread that a step leaves alone.
LEMMA KnowsAsBefore ==
    ASSUME ListInv, [Next]_vars, NEW u, NEW r, Knows(u, r),
           r \in members'[u].threads <=> r \in members[u].threads,
           r \in members'[u].unfollowed <=> r \in members[u].unfollowed,
           r \in DOMAIN threads' <=> r \in DOMAIN threads,
           r \in DOMAIN threads => thread_summary'[r] = thread_summary[r],
           <<u, r>> \in outsiders => <<u, r>> \in outsiders'
    PROVE  Knows(u, r)'
<1>1. r \in MessageIndexes => r \in MessageIndexes' /\ Sender(r)' = Sender(r)
  BY MainGrows
<1>2. r \in DOMAIN threads => /\ Following(u, r)' <=> Following(u, r)
                              /\ ParticipantsAndFollowers(r)' = ParticipantsAndFollowers(r)
  BY DEF Following, ParticipantsAndFollowers
<1>3. r \in members'[u].threads
          => /\ r \in MessageIndexes'
             /\ Sender(r)' # u => r \in DOMAIN threads' /\ Following(u, r)'
  BY <1>1, <1>2 DEF Knows
<1>4. r \in DOMAIN threads' /\ Following(u, r)'
          => r \in members'[u].threads \/ <<u, r>> \in outsiders'
  BY <1>2 DEF Knows
<1>5. r \in members'[u].unfollowed
          => r \in DOMAIN threads' /\ u \in ParticipantsAndFollowers(r)'
  BY <1>2 DEF Knows
<1>6. r \in DOMAIN threads' /\ u \in DOMAIN thread_summary'[r].followers
          /\ ~thread_summary'[r].followers[u] => r \in members'[u].unfollowed
  BY DEF Knows
<1> QED BY <1>3, <1>4, <1>5, <1>6 DEF Knows

\* A new member has no threads, and follows those it was mentioned in before.
LEMMA JoinKeepsMembers ==
    ASSUME ListInv, ThreadsInv, MembersInv, OutsidersInv, [Next]_vars,
           NEW u \in Users, NEW min_visible \in Nat, Join(u, min_visible)
    PROVE  MembersInv'
<1> DEFINE new == [min_visible |-> min_visible, threads |-> {}, unfollowed |-> {}]
<1>1. /\ u \notin DOMAIN members /\ UNCHANGED <<threads, thread_summary, outsiders>>
      /\ DOMAIN members' = DOMAIN members \cup {u} /\ members'[u] = new
      /\ \A v \in DOMAIN members : members'[v] = members[v]
  BY DEF Join, With
<1>2. new \in MemberRecords
  BY DEF MemberRecords
<1>3. \A v \in DOMAIN members : members'[v] \in MemberRecords /\ \A r \in Nat : Knows(v, r)'
  BY <1>1, KnowsAsBefore DEF MembersInv
<1>4. ASSUME NEW r \in Nat PROVE Knows(u, r)'
  <2>1. r \in DOMAIN threads /\ u \in ParticipantsAndFollowers(r)
            => thread_summary[r].followers[u] /\ <<u, r>> \in outsiders
    BY <1>1 DEF OutsidersInv
  <2>2. r \in DOMAIN threads => /\ Following(u, r) => <<u, r>> \in outsiders
                                /\ u \in DOMAIN thread_summary[r].followers
                                       => thread_summary[r].followers[u]
    BY <2>1 DEF Following, ParticipantsAndFollowers
  <2>3. members'[u].threads = {} /\ members'[u].unfollowed = {}
    BY <1>1
  <2> HIDE DEF new
  <2> QED BY <1>1, <2>2, <2>3 DEF Knows, Following
<1> QED BY <1>1, <1>2, <1>3, <1>4 DEF MembersInv

\* A thread that expires is forgotten by all who take part in it or have
\* followed it; of the others, only the author of its root has it.
LEMMA ExpiryKeepsMembers ==
    ASSUME ListInv, ThreadsInv, MembersInv, [Next]_vars, NEW job \in jobs,
           RemoveExpiredEvents(job)
    PROVE  MembersInv'
<1> DEFINE roots == ExpiredRoots(ExpiredIndexes)
           gone(v) == {r \in roots : v \in ParticipantsAndFollowers(r)}
<1>1. /\ threads' = [r \in DOMAIN threads \ roots |-> threads[r]]
      /\ thread_summary' = [r \in DOMAIN thread_summary \ roots |-> thread_summary[r]]
      /\ members' = [v \in DOMAIN members |->
                        [members[v] EXCEPT !.threads = @ \ gone(v), !.unfollowed = @ \ gone(v)]]
  BY DEF RemoveExpiredEvents, Without, ThreadsForgotten
<1>2. /\ DOMAIN members' = DOMAIN members /\ DOMAIN threads = DOMAIN thread_summary
      /\ outsiders' = outsiders
  BY <1>1 DEF ThreadsInv, RemoveExpiredEvents
<1> HIDE DEF roots
<1>3. ASSUME NEW v \in DOMAIN members
      PROVE  /\ members'[v] \in MemberRecords
             /\ members'[v].threads = members[v].threads \ gone(v)
             /\ members'[v].unfollowed = members[v].unfollowed \ gone(v)
  <2>1. members[v] \in MemberRecords
    BY DEF MembersInv
  <2>2. members'[v] = [members[v] EXCEPT !.threads = @ \ gone(v), !.unfollowed = @ \ gone(v)]
    BY <1>1
  <2> HIDE DEF gone
  <2> QED BY <2>1, <2>2 DEF MemberRecords
<1>4. ASSUME NEW v \in DOMAIN members, NEW r \in Nat
      PROVE  Knows(v, r)'
  <2>1. Knows(v, r)
    BY DEF MembersInv
  <2>2. CASE r \notin roots
    <3>1. r \notin gone(v)
      BY <2>2
    <3>2. /\ r \in DOMAIN threads' <=> r \in DOMAIN threads
          /\ r \in DOMAIN threads => thread_summary'[r] = thread_summary[r]
      BY <1>1, <1>2, <2>2
    <3> HIDE DEF gone
    <3> QED BY <1>2, <1>3, <2>1, <3>1, <3>2, KnowsAsBefore
  <2>3. CASE r \in roots
    <3>1. r \notin DOMAIN threads'
      BY <1>1, <2>3
    <3>2. CASE v \in ParticipantsAndFollowers(r)
      <4>1. r \in gone(v)
        BY <2>3, <3>2
      <4>2. r \notin members'[v].threads /\ r \notin members'[v].unfollowed
        BY <1>3, <4>1
      <4> QED BY <3>1, <4>2 DEF Knows
    <3>3. CASE v \notin ParticipantsAndFollowers(r)
      <4>1. ~Following(v, r)
        BY <3>3 DEF Following, ParticipantsAndFollowers
      <4>2. r \in members'[v].threads => r \in MessageIndexes /\ Sender(r) = v
        BY <1>3, <2>1, <4>1 DEF Knows
      <4>3. r \notin members'[v].unfollowed
        BY <1>3, <2>1, <3>3 DEF Knows
      <4>4. r \in MessageIndexes => r \in MessageIndexes' /\ Sender(r)' = Sender(r)
        BY MainGrows
      <4> QED BY <3>1, <4>2, <4>3, <4>4 DEF Knows
    <3> QED BY <3>2, <3>3
  <2> QED BY <2>2, <2>3
<1> QED BY <1>2, <1>3, <1>4 DEF MembersInv

\* Following a thread, or no longer, is remembered by who does it.
LEMMA FollowKeepsMembers ==
    ASSUME ListInv, ThreadsInv, MembersInv, [Next]_vars,
           NEW u \in Users, NEW r \in MessageIndexes, NEW follow \in BOOLEAN,
           IF follow THEN FollowThread(u, r) ELSE UnfollowThread(u, r)
    PROVE  MembersInv'
<1> DEFINE before == thread_summary[r]
           after == Followed(before, u, follow)
           added(set) == set \cup {r}
           removed(set) == set \ {r}
<1>1. /\ thread_summary' = [thread_summary EXCEPT ![r] = after] /\ UNCHANGED <<main, threads>>
      /\ r \in DOMAIN thread_summary /\ u \in DOMAIN members
      /\ CanFollow(before, u, follow)
  BY DEF FollowThread, UnfollowThread, Sees
<1>2. DOMAIN threads = DOMAIN thread_summary /\ r \in Nat
      /\ members[u] \in MemberRecords /\ Matches(before, threads[r])
  BY <1>1 DEF ThreadsInv, MembersInv, MessageIndexes
<1>3. /\ after.participants = before.participants /\ u \notin before.participants
      /\ DOMAIN after.followers = DOMAIN before.followers \cup {u}
      /\ after.followers[u] = follow
      /\ \A v \in DOMAIN before.followers \ {u} : after.followers[v] = before.followers[v]
  <2> HIDE DEF before
  <2>1. u \notin before.participants
    BY <1>1 DEF CanFollow
  <2> QED BY <1>1, <1>2, <2>1, FollowedIs
<1> HIDE DEF after
<1>4. thread_summary'[r] = after /\ \A q \in DOMAIN threads \ {r} : thread_summary'[q] = thread_summary[q]
  BY <1>1, <1>2
<1>5. /\ DOMAIN members' = DOMAIN members /\ outsiders' = outsiders \ {<<u, r>>}
      /\ \A v \in DOMAIN members \ {u} : members'[v] = members[v]
  BY DEF FollowThread, UnfollowThread
<1>6. /\ members'[u] \in MemberRecords
      /\ members'[u].threads = IF follow THEN added(members[u].threads)
                                         ELSE removed(members[u].threads)
      /\ members'[u].unfollowed = IF follow THEN removed(members[u].unfollowed)
                                            ELSE added(members[u].unfollowed)
  <2>1. CASE follow
    <3>1. members'[u] = [members[u] EXCEPT !.threads = @ \cup {r}, !.unfollowed = @ \ {r}]
      BY <1>1, <2>1 DEF FollowThread
    <3>2. PICK t, n \in SUBSET Nat :
              t = members[u].threads \cup {r} /\ n = members[u].unfollowed \ {r}
      BY <1>2 DEF MemberRecords
    <3>3. members'[u] = [members[u] EXCEPT !.threads = t, !.unfollowed = n]
      BY <3>1, <3>2
    <3>4. members'[u] \in MemberRecords /\ members'[u].threads = t /\ members'[u].unfollowed = n
      BY <1>2, <3>3 DEF MemberRecords
    <3> QED BY <2>1, <3>2, <3>4
  <2>2. CASE ~follow
    <3>1. members'[u] = [members[u] EXCEPT !.threads = @ \ {r}, !.unfollowed = @ \cup {r}]
      BY <1>1, <2>2 DEF UnfollowThread, Unfollows
    <3>2. PICK t, n \in SUBSET Nat :
              t = members[u].threads \ {r} /\ n = members[u].unfollowed \cup {r}
      BY <1>2 DEF MemberRecords
    <3>3. members'[u] = [members[u] EXCEPT !.threads = t, !.unfollowed = n]
      BY <3>1, <3>2
    <3>4. members'[u] \in MemberRecords /\ members'[u].threads = t /\ members'[u].unfollowed = n
      BY <1>2, <3>3 DEF MemberRecords
    <3> QED BY <2>2, <3>2, <3>4
  <2> QED BY <2>1, <2>2
<1>7. ASSUME NEW v \in DOMAIN members, NEW q \in Nat, q # r
      PROVE  Knows(v, q)'
  <2>1. /\ q \in members'[v].threads <=> q \in members[v].threads
        /\ q \in members'[v].unfollowed <=> q \in members[v].unfollowed
    BY <1>5, <1>6, <1>7
  <2>2. <<v, q>> \in outsiders => <<v, q>> \in outsiders'
    BY <1>5, <1>7
  <2> QED BY <1>1, <1>4, <1>7, <2>1, <2>2, KnowsAsBefore DEF MembersInv
<1>8. ASSUME NEW v \in DOMAIN members \ {u}
      PROVE  Knows(v, r)'
  <2>1. Knows(v, r) /\ members'[v] = members[v] /\ Sender(r)' = Sender(r) /\ r \in MessageIndexes'
    BY <1>2, <1>5, MainGrows DEF MembersInv
  <2>2. /\ v \in after.participants <=> v \in before.participants
        /\ v \in DOMAIN after.followers <=> v \in DOMAIN before.followers
        /\ v \in DOMAIN before.followers => after.followers[v] = before.followers[v]
    BY <1>3
  <2> HIDE DEF before
  <2>3. /\ Following(v, r)' <=> Following(v, r)
        /\ v \in ParticipantsAndFollowers(r)' <=> v \in ParticipantsAndFollowers(r)
    BY <1>4, <2>2 DEF Following, ParticipantsAndFollowers, before
  <2>4. <<v, r>> \in outsiders => <<v, r>> \in outsiders'
    BY <1>5
  <2> QED BY <1>1, <1>4, <2>1, <2>2, <2>3, <2>4 DEF Knows, before
<1>9. Knows(u, r)'
  <2>1. r \in DOMAIN threads' /\ r \in MessageIndexes'
    BY <1>1, <1>2, MainGrows
  <2>2. Following(u, r)' <=> follow
    BY <1>3, <1>4 DEF Following
  <2>3. u \in ParticipantsAndFollowers(r)'
    BY <1>3, <1>4 DEF ParticipantsAndFollowers
  <2>4. (u \in DOMAIN thread_summary'[r].followers /\ ~thread_summary'[r].followers[u]) <=> ~follow
    BY <1>3, <1>4
  <2>5. /\ r \in members'[u].threads <=> follow
        /\ r \in members'[u].unfollowed <=> ~follow
    BY <1>6
  <2> QED BY <2>1, <2>2, <2>3, <2>4, <2>5 DEF Knows
<1> QED BY <1>2, <1>5, <1>6, <1>7, <1>8, <1>9 DEF MembersInv

\* A reply gives the thread to its sender, to those it mentions or replies to,
\* who follow or take part, and the first one to the author of the root.
LEMMA ReplyKeepsMembers ==
    ASSUME ListInv, ThreadsInv, MembersInv, [Next]_vars,
           NEW u \in Users, NEW r \in MessageIndexes, NEW mentioned \in SUBSET Users,
           NEW replied_to, SendReply(u, r, mentioned, replied_to)
    PROVE  MembersInv'
<1> DEFINE before == SummaryOf(r)
           replies == Replies(r)
           index == Len(replies)
           after == MessageAdded(before, u, mentioned, index)
           first == IF after.reply_count = 1 THEN {Sender(r)} ELSE {}
           told == {u} \cup mentioned \cup replied_to \cup first
<1>1. /\ threads' = With(threads, r, Append(replies, u)) /\ main' = main
      /\ thread_summary' = With(thread_summary, r, after)
      /\ members' = WithThread(told, r)
      /\ outsiders' = (outsiders \ ((told \cap DOMAIN members) \X {r}))
                          \cup ((mentioned \ DOMAIN members) \X {r})
      /\ replied_to \subseteq ToSet(replies) /\ u \in DOMAIN members
  BY DEF SendReply, Sees
<1>2. /\ DOMAIN threads = DOMAIN thread_summary /\ DOMAIN members \subseteq Users
      /\ Matches(before, replies)
  BY SummaryMatches DEF ThreadsInv
<1> HIDE DEF before, replies
<1>3. HasReply(after, before, replies, u, mentioned, index)
  <2>1. mentioned \in SUBSET Users /\ index \in Nat
    BY <1>2 DEF Matches
  <2> HIDE DEF index
  <2> QED BY <1>2, <2>1, ReplyAdded
<1> HIDE DEF after, first
<1>4. /\ r \in DOMAIN threads' /\ thread_summary'[r] = after
      /\ \A q \in Nat \ {r} : /\ q \in DOMAIN threads' <=> q \in DOMAIN threads
                              /\ q \in DOMAIN threads => thread_summary'[q] = thread_summary[q]
  BY <1>1, <1>2 DEF With
<1>5. /\ DOMAIN members' = DOMAIN members
      /\ \A v \in DOMAIN members : members'[v] = IF v \in told
                  THEN [members[v] EXCEPT !.threads = @ \cup {r}] ELSE members[v]
  BY <1>1 DEF WithThread
<1> HIDE DEF told
<1>6. r \in Nat /\ r \in MessageIndexes' /\ Sender(r)' = Sender(r)
  BY MainGrows DEF MessageIndexes
<1>7. ASSUME NEW v \in DOMAIN members
      PROVE  /\ members'[v] \in MemberRecords
             /\ members'[v].unfollowed = members[v].unfollowed
             /\ members'[v].threads = IF v \in told THEN members[v].threads \cup {r}
                                                    ELSE members[v].threads
  <2>1. members[v] \in MemberRecords
    BY DEF MembersInv
  <2>2. CASE v \in told
    <3>1. PICK t \in SUBSET Nat : t = members[v].threads \cup {r}
      BY <1>6, <2>1 DEF MemberRecords
    <3>2. members'[v] = [members[v] EXCEPT !.threads = t]
      BY <1>5, <2>2, <3>1
    <3>3. /\ members'[v] \in MemberRecords /\ members'[v].threads = t
          /\ members'[v].unfollowed = members[v].unfollowed
      BY <2>1, <3>2 DEF MemberRecords
    <3> QED BY <2>2, <3>1, <3>3
  <2>3. CASE v \notin told
    BY <1>5, <2>1, <2>3
  <2> QED BY <2>2, <2>3
<1>8. ASSUME NEW v \in DOMAIN members, NEW q \in Nat, q # r
      PROVE  Knows(v, q)'
  <2>1. /\ q \in members'[v].threads <=> q \in members[v].threads
        /\ q \in members'[v].unfollowed <=> q \in members[v].unfollowed
    BY <1>7, <1>8
  <2>2. <<v, q>> \in outsiders => <<v, q>> \in outsiders'
    BY <1>1, <1>8
  <2> QED BY <1>4, <1>8, <2>1, <2>2, KnowsAsBefore DEF MembersInv
<1>9. ASSUME NEW v \in DOMAIN members
      PROVE  Knows(v, r)'
  <2>1. /\ after.participants = before.participants \cup {u}
        /\ DOMAIN after.followers = ((DOMAIN before.followers \ {u}) \cup mentioned)
                                        \ after.participants
        /\ \A w \in DOMAIN after.followers :
              after.followers[w] = IF w \in mentioned THEN TRUE ELSE before.followers[w]
        /\ before.participants = ToSet(replies)
    BY <1>2, <1>3 DEF HasReply, Matches
  <2>2. Knows(v, r)
    BY <1>6 DEF MembersInv
  <2>3. (v \in told \/ r \in members[v].threads) /\ Sender(r) # v => Following(v, r)'
    <3>1. CASE v \in told
      <4>1. v \in mentioned \/ v \in before.participants \/ v \in {u} \/ v = Sender(r)
        BY <1>1, <2>1, <3>1 DEF told, first
      <4> QED BY <1>4, <2>1, <4>1 DEF Following
    <3>2. CASE r \in members[v].threads /\ Sender(r) # v
      <4>1. r \in DOMAIN threads /\ Following(v, r)
        BY <2>2, <3>2 DEF Knows
      <4>2. /\ before = thread_summary[r]
            /\ v \in before.participants \/ (v \in DOMAIN before.followers /\ before.followers[v])
        BY <1>2, <4>1 DEF SummaryOf, before, Following
      <4> QED BY <1>4, <2>1, <4>2 DEF Following
    <3> QED BY <3>1, <3>2
  <2>4. Following(v, r)' => v \in told \/ r \in members[v].threads \/ <<v, r>> \in outsiders
    <3>1. CASE r \in DOMAIN threads
      <4>1. before = thread_summary[r]
        BY <1>2, <3>1 DEF SummaryOf, before
      <4> QED BY <1>4, <2>1, <2>2, <3>1, <4>1 DEF Following, Knows, told
    <3>2. CASE r \notin DOMAIN threads
      <4>1. before.participants = {} /\ DOMAIN before.followers = {}
        BY <1>2, <3>2 DEF SummaryOf, before, NoSummary
      <4> QED BY <1>4, <2>1, <4>1 DEF Following, told
    <3> QED BY <3>1, <3>2
  <2>5. r \in members[v].unfollowed => v \in ParticipantsAndFollowers(r)'
    <3> SUFFICES ASSUME r \in members[v].unfollowed PROVE v \in ParticipantsAndFollowers(r)'
      OBVIOUS
    <3>1. r \in DOMAIN threads /\ v \in ParticipantsAndFollowers(r)
      BY <2>2 DEF Knows
    <3>2. v \in before.participants \/ v \in DOMAIN before.followers
      BY <1>2, <3>1 DEF SummaryOf, before, ParticipantsAndFollowers
    <3> QED BY <1>4, <2>1, <3>2 DEF ParticipantsAndFollowers
  <2>6. v \in DOMAIN after.followers /\ ~after.followers[v] => r \in members[v].unfollowed
    <3> SUFFICES ASSUME v \in DOMAIN after.followers, ~after.followers[v]
                 PROVE  r \in members[v].unfollowed
      OBVIOUS
    <3>1. v \in DOMAIN before.followers /\ ~before.followers[v]
      BY <2>1
    <3>2. r \in DOMAIN threads /\ before = thread_summary[r]
      BY <1>2, <3>1 DEF SummaryOf, before, NoSummary
    <3> QED BY <2>2, <3>1, <3>2 DEF Knows
  <2>7. r \in members'[v].threads <=> v \in told \/ r \in members[v].threads
    BY <1>7
  <2>8. <<v, r>> \in outsiders => v \in told \/ <<v, r>> \in outsiders'
    BY <1>1
  <2> QED BY <1>4, <1>6, <1>7, <2>3, <2>4, <2>5, <2>6, <2>7, <2>8 DEF Knows
<1> QED BY <1>5, <1>7, <1>8, <1>9 DEF MembersInv

\* Mentions make outsiders followers; nothing else tells a thread of them.
LEMMA NextKeepsOutsiders ==
    ASSUME ListInv, ThreadsInv, OutsidersInv, [Next]_vars
    PROVE  OutsidersInv'
<1>1. DOMAIN threads = DOMAIN thread_summary /\ \A r \in DOMAIN threads : ThreadSound(r)
  BY DEF ThreadsInv, ThreadSound
<1> DEFINE Outside(v, r) == /\ v \in DOMAIN thread_summary[r].followers
                            /\ thread_summary[r].followers[v]
                            /\ <<v, r>> \in outsiders
<1>2. ASSUME DOMAIN members \subseteq DOMAIN members', DOMAIN threads' \subseteq DOMAIN threads,
             \A r \in DOMAIN threads' : thread_summary'[r] = thread_summary[r],
             outsiders' = outsiders
      PROVE  OutsidersInv'
  BY <1>2 DEF OutsidersInv, ParticipantsAndFollowers
<1>3. ASSUME NEW u \in Users, NEW r \in MessageIndexes, NEW mentioned \in SUBSET Users,
             NEW replied_to, SendReply(u, r, mentioned, replied_to)
      PROVE  OutsidersInv'
  <2> DEFINE before == SummaryOf(r)
             replies == Replies(r)
             index == Len(replies)
             after == MessageAdded(before, u, mentioned, index)
  <2>1. PICK told : outsiders' = (outsiders \ ((told \cap DOMAIN members) \X {r}))
                                    \cup ((mentioned \ DOMAIN members) \X {r})
    BY <1>3 DEF SendReply
  <2>2. /\ threads' = With(threads, r, Append(replies, u)) /\ u \in DOMAIN members
        /\ thread_summary' = With(thread_summary, r, after) /\ DOMAIN members' = DOMAIN members
    BY <1>3 DEF SendReply, Sees, WithThread
  <2>3. Matches(before, replies)
    BY <1>1, SummaryMatches DEF ThreadSound
  <2> HIDE DEF before, replies
  <2>4. HasReply(after, before, replies, u, mentioned, index)
    <3>1. index \in Nat
      BY <2>3 DEF Matches
    <3> HIDE DEF index
    <3> QED BY <2>3, <3>1, ReplyAdded
  <2> HIDE DEF after
  <2>5. /\ DOMAIN threads' = DOMAIN threads \cup {r} /\ thread_summary'[r] = after
        /\ \A q \in DOMAIN threads \ {r} : thread_summary'[q] = thread_summary[q]
    BY <1>1, <2>2 DEF With
  <2>6. ASSUME NEW q \in DOMAIN threads \ {r},
               NEW v \in ParticipantsAndFollowers(q)' \ DOMAIN members'
        PROVE  Outside(v, q)'
    <3>1. v \in ParticipantsAndFollowers(q) \ DOMAIN members
      BY <2>2, <2>5, <2>6 DEF ParticipantsAndFollowers
    <3>2. Outside(v, q)
      BY <3>1 DEF OutsidersInv
    <3>3. <<v, q>> \in outsiders'
      BY <2>1, <2>6, <3>2
    <3> QED BY <2>5, <3>2, <3>3
  <2>7. ASSUME NEW v \in ParticipantsAndFollowers(r)' \ DOMAIN members'
        PROVE  Outside(v, r)'
    <3>1. /\ after.participants = before.participants \cup {u}
          /\ DOMAIN after.followers = ((DOMAIN before.followers \ {u}) \cup mentioned)
                                          \ after.participants
          /\ \A w \in DOMAIN after.followers :
                after.followers[w] = IF w \in mentioned THEN TRUE ELSE before.followers[w]
          /\ before.participants \cap DOMAIN before.followers = {}
      BY <2>3, <2>4 DEF HasReply, Matches
    <3>2. v # u /\ v \notin DOMAIN members /\ v \in after.participants \cup DOMAIN after.followers
      BY <2>2, <2>5, <2>7 DEF ParticipantsAndFollowers
    <3>3. v \in before.participants \cup DOMAIN before.followers
              => v \in DOMAIN before.followers /\ before.followers[v] /\ <<v, r>> \in outsiders
      <4>1. CASE r \in DOMAIN threads
        <5>1. before = thread_summary[r]
          BY <1>1, <4>1 DEF SummaryOf, before
        <5> QED BY <3>2, <4>1, <5>1 DEF OutsidersInv, ParticipantsAndFollowers
      <4>2. CASE r \notin DOMAIN threads
        BY <1>1, <4>2 DEF SummaryOf, before, NoSummary
      <4> QED BY <4>1, <4>2
    <3>4. v \notin before.participants
      BY <3>1, <3>3
    <3>5. v \in DOMAIN after.followers /\ after.followers[v]
      BY <3>1, <3>2, <3>3, <3>4
    <3>6. v \in mentioned \/ <<v, r>> \in outsiders
      BY <3>1, <3>2, <3>3, <3>5
    <3>7. <<v, r>> \in outsiders'
      BY <2>1, <3>2, <3>6
    <3> QED BY <2>5, <3>5, <3>7
  <2> QED BY <2>5, <2>6, <2>7 DEF OutsidersInv
<1>4. ASSUME NEW u \in Users, NEW r \in MessageIndexes, NEW follow \in BOOLEAN,
             IF follow THEN FollowThread(u, r) ELSE UnfollowThread(u, r)
      PROVE  OutsidersInv'
  <2> DEFINE before == thread_summary[r]
             after == Followed(before, u, follow)
  <2>1. /\ thread_summary' = [thread_summary EXCEPT ![r] = after] /\ threads' = threads
        /\ DOMAIN members' = DOMAIN members /\ r \in DOMAIN thread_summary
        /\ u \in DOMAIN members /\ CanFollow(before, u, follow)
        /\ outsiders' = outsiders \ {<<u, r>>}
    BY <1>4 DEF FollowThread, UnfollowThread, Sees
  <2>2. Matches(before, threads[r]) /\ u \notin before.participants
    BY <1>1, <2>1 DEF ThreadSound, CanFollow
  <2>3. /\ after.participants = before.participants
        /\ DOMAIN after.followers = DOMAIN before.followers \cup {u}
        /\ \A v \in DOMAIN before.followers \ {u} : after.followers[v] = before.followers[v]
    <3> HIDE DEF before
    <3> QED BY <2>1, <2>2, FollowedIs
  <2> HIDE DEF after
  <2>4. thread_summary'[r] = after
        /\ \A q \in DOMAIN threads \ {r} : thread_summary'[q] = thread_summary[q]
    BY <1>1, <2>1
  <2>5. ASSUME NEW q \in DOMAIN threads,
               NEW v \in ParticipantsAndFollowers(q)' \ DOMAIN members'
        PROVE  Outside(v, q)'
    <3>1. v # u /\ v \notin DOMAIN members
      BY <2>1, <2>5
    <3>2. v \in ParticipantsAndFollowers(q)
      BY <2>3, <2>4, <2>5, <3>1 DEF ParticipantsAndFollowers
    <3>3. Outside(v, q)
      BY <3>1, <3>2 DEF OutsidersInv
    <3>4. <<v, q>> \in outsiders'
      BY <2>1, <3>1, <3>3
    <3> QED BY <2>3, <2>4, <3>1, <3>3, <3>4
  <2> QED BY <2>1, <2>5 DEF OutsidersInv
<1>5. ASSUME NEW u \in Users, NEW min_visible, Join(u, min_visible)
      PROVE  OutsidersInv'
  <2>1. DOMAIN members \subseteq DOMAIN members' /\ UNCHANGED <<threads, thread_summary, outsiders>>
    BY <1>5 DEF Join, With
  <2> QED BY <1>2, <2>1
<1>6. ASSUME NEW job \in jobs, RemoveExpiredEvents(job)
      PROVE  OutsidersInv'
  <2> DEFINE roots == ExpiredRoots(ExpiredIndexes)
  <2>1. /\ threads' = [q \in DOMAIN threads \ roots |-> threads[q]]
        /\ thread_summary' = [q \in DOMAIN thread_summary \ roots |-> thread_summary[q]]
        /\ DOMAIN members' = DOMAIN members /\ outsiders' = outsiders
    BY <1>6 DEF RemoveExpiredEvents, Without, ThreadsForgotten
  <2> HIDE DEF roots
  <2> QED BY <1>1, <1>2, <2>1
<1>7. CASE UNCHANGED <<threads, thread_summary, membership>>
  BY <1>2, <1>7 DEF membership
<1>8. \A u \in Users, r \in MessageIndexes :
          FollowThread(u, r) \/ UnfollowThread(u, r) => OutsidersInv'
  BY <1>4
<1> QED BY <1>3, <1>5, <1>6, <1>7, <1>8, StepsOfThreads

LEMMA NextKeepsMembers ==
    ASSUME ListInv, ThreadsInv, MembersInv, OutsidersInv, [Next]_vars
    PROVE  MembersInv'
<1>1. CASE UNCHANGED <<threads, thread_summary, membership>>
  BY <1>1, KnowsAsBefore DEF MembersInv, membership
<1>2. \A u \in Users, r \in MessageIndexes :
          FollowThread(u, r) \/ UnfollowThread(u, r) => MembersInv'
  BY FollowKeepsMembers
<1> QED
  BY <1>1, <1>2, JoinKeepsMembers, ExpiryKeepsMembers, ReplyKeepsMembers, StepsOfThreads

LEMMA MembersInvariance == Spec => []MembersInv
<1>1. Init => MembersInv /\ OutsidersInv
  <2> SUFFICES ASSUME Init PROVE MembersInv
    BY DEF Init, OutsidersInv
  <2>1. /\ DOMAIN members = {Owner} /\ DOMAIN threads = {}
        /\ members[Owner] = [min_visible |-> 0, threads |-> {}, unfollowed |-> {}]
    BY DEF Init
  <2>2. members[Owner] \in MemberRecords
    BY <2>1 DEF MemberRecords
  <2>3. \A r \in Nat : Knows(Owner, r)
    <3>1. members[Owner].threads = {} /\ members[Owner].unfollowed = {}
      BY <2>1
    <3> QED BY <2>1, <3>1 DEF Knows
  <2> QED BY <2>1, <2>2, <2>3 DEF MembersInv
<1>2. ListInv /\ ThreadsInv /\ MembersInv /\ OutsidersInv /\ [Next]_vars
          => MembersInv' /\ OutsidersInv'
  BY NextKeepsMembers, NextKeepsOutsiders
<1> QED BY <1>1, <1>2, ListInvariance, ThreadsInvariance, PTL DEF Spec

\* What members remember of threads is what the chat knows of them.
THEOREM MembersAndThreadsAgree == Spec => []MembersKnowTheirThreads
<1>1. ListInv /\ ThreadsInv /\ MembersInv => MembersKnowTheirThreads
  <2>1. MessageIndexes \subseteq Nat
    BY DEF MessageIndexes
  <2> QED BY <2>1 DEF MembersInv, Knows, MembersKnowTheirThreads
<1> QED BY <1>1, ListInvariance, ThreadsInvariance, MembersInvariance, PTL

-----------------------------------------------------------------------------
(* Recursion over the numbers up to n *)

\* Induction, for a set of numbers.
LEMMA Induction ==
    ASSUME NEW n \in Nat, NEW S, 0 \in S, \A k \in 0 .. n - 1 : k \in S => k + 1 \in S
    PROVE  0 .. n \subseteq S
<1> DEFINE R == {ss \in Nat \X Nat : ss[1] < ss[2]}
           T == (0 .. n) \ S
<1> SUFFICES ASSUME T # {} PROVE FALSE
  OBVIOUS
<1>1. R = OpToRel(<, Nat)
  BY Zenon DEF OpToRel
<1>2. IsWellFoundedOn(R, Nat)
  BY <1>1, NatLessThanWellFounded
<1>3. PICK m \in T : \A k \in T : ~(<<k, m>> \in R)
  <2>1. T \subseteq Nat
    OBVIOUS
  <2> HIDE DEF R, T
  <2> QED BY <1>2, <2>1, WFMin
<1>4. m # 0 /\ m - 1 \in 0 .. n - 1
  BY <1>3
<1>5. m - 1 \in S
  <2>1. <<m - 1, m>> \in Nat \X Nat /\ m - 1 < m
    BY <1>4
  <2> QED BY <1>3, <1>4, <2>1
<1> QED BY <1>3, <1>4, <1>5

\* A function that is defined from the previous value is there.
Follows(f, n, base, step) ==
    f[0] = base /\ \A k \in 1 .. n : f[k] = step[<<f[k - 1], k>>]
LEMMA RecursionExists ==
    ASSUME NEW n \in Nat, NEW S, NEW base \in S, NEW step \in [S \X (1 .. n) -> S]
    PROVE  \E f \in [0 .. n -> S] : Follows(f, n, base, step)
<1> DEFINE Upto(k, f) == f[0] = base /\ \A i \in 1 .. k : f[i] = step[<<f[i - 1], i>>]
           D == {k \in 0 .. n : \E f \in [0 .. k -> S] : Upto(k, f)}
<1>1. 0 \in D
  <2> DEFINE f == [i \in 0 .. 0 |-> base]
  <2>1. f \in [0 .. 0 -> S] /\ Upto(0, f)
    OBVIOUS
  <2> HIDE DEF f, Upto
  <2> QED BY <2>1
<1>2. ASSUME NEW k \in 0 .. n - 1, k \in D PROVE k + 1 \in D
  <2>1. PICK f \in [0 .. k -> S] : Upto(k, f)
    BY <1>2
  <2> DEFINE g == [i \in 0 .. k + 1 |-> IF i = k + 1 THEN step[<<f[k], k + 1>>] ELSE f[i]]
  <2>2. f[k] \in S /\ k + 1 \in 1 .. n /\ step[<<f[k], k + 1>>] \in S
    OBVIOUS
  <2>3. g \in [0 .. k + 1 -> S]
    BY <2>2
  <2>4. g[0] = base
    BY <2>1
  <2>5. ASSUME NEW i \in 1 .. k + 1 PROVE g[i] = step[<<g[i - 1], i>>]
    <3>1. CASE i = k + 1
      <4>1. i - 1 = k /\ k \in 0 .. k + 1 /\ k # k + 1 /\ i \in 0 .. k + 1
        BY <3>1
      <4>2. g[i] = step[<<f[k], k + 1>>] /\ g[i - 1] = f[k]
        BY <3>1, <4>1
      <4> QED BY <3>1, <4>1, <4>2
    <3>2. CASE i # k + 1
      <4>1. i \in 1 .. k /\ i - 1 \in 0 .. k /\ g[i] = f[i] /\ g[i - 1] = f[i - 1]
        BY <3>2
      <4> QED BY <2>1, <4>1
    <3> QED BY <3>1, <3>2
  <2>6. Upto(k + 1, g)
    BY <2>4, <2>5
  <2> HIDE DEF Upto, g
  <2> QED BY <2>3, <2>6
<1>3. n \in D
  <2> HIDE DEF D
  <2> QED BY <1>1, <1>2, Induction
<1> QED BY <1>3 DEF Follows


-----------------------------------------------------------------------------
(* Reading *)

Ranges == Nat \X Nat
Iterators == [events : SUBSET Nat, ranges : Seq(Ranges), ascending : BOOLEAN,
              complete : BOOLEAN, expected_next : Nat, end : Nat]

\* Bounds of a range of the list.
RangeOf(list, range) ==
    /\ range \in Ranges
    /\ 0 <= range[1] /\ range[1] <= range[2] /\ range[2] <= LatestEventIndex(list)

\* decr stays a number.
LEMMA DecrIs ==
    ASSUME NEW i \in Nat
    PROVE  /\ Decr(i) \in Nat
           /\ Decr(i) = IF i = 0 THEN 0 ELSE i - 1
<1> DEFINE S == {0, i - 1}
<1>1. CASE i = 0
  <2>1. Max(S) = 0
    <3>1. 0 \in S /\ \A k \in S : 0 >= k
      BY <1>1
    <3>2. \A x \in S : (\A k \in S : x >= k) => x = 0
      BY <1>1
    <3> HIDE DEF S
    <3> QED BY <3>1, <3>2 DEF Max
  <2> QED BY <1>1, <2>1 DEF Decr
<1>2. CASE i # 0
  <2>1. Max(S) = i - 1
    <3>1. i - 1 \in S /\ \A k \in S : i - 1 >= k
      BY <1>2
    <3>2. \A x \in S : (\A k \in S : x >= k) => x = i - 1
      BY <1>2
    <3> HIDE DEF S
    <3> QED BY <3>1, <3>2 DEF Max
  <2> QED BY <1>2, <2>1 DEF Decr
<1> QED BY <1>1, <1>2

\* A range that is read from start on is one of the list and has start in it.
LEMMA ScanRangeIs ==
    ASSUME NEW list \in Lists, NEW ascending \in BOOLEAN,
           NEW start \in Indexes(list), NEW min_visible \in 0 .. start
    PROVE  RangeOf(list, ScanRange(list, start, ascending, min_visible))
<1> DEFINE n == NextEventIndex(list)
           before == {k \in Present(list) : k < start}
           after == {k \in Present(list) : k > start}
<1>1. /\ n \in Nat /\ LatestEventIndex(list) = n - 1 /\ Indexes(list) = 0 .. n - 1
      /\ Present(list) \subseteq 0 .. n - 1 /\ start \in 0 .. n - 1
  BY DEF Lists, NextEventIndex, LatestEventIndex, Indexes, Present
<1>2. Max({-1} \cup before) \in -1 .. start - 1
  <2>1. \E x \in {-1} \cup before : \A k \in {-1} \cup before : x >= k
    <3>1. CASE before = {}
      BY <3>1
    <3>2. CASE before # {}
      <4>1. before \subseteq 0 .. n - 1
        BY <1>1
      <4>2. Max(before) \in before /\ \A k \in before : k <= Max(before)
        <5> HIDE DEF before, n
        <5> QED BY <1>1, <3>2, <4>1, Greatest
      <4>3. \A k \in before : k \in Int /\ k >= -1
        BY <1>1
      <4> HIDE DEF before
      <4> QED BY <4>2, <4>3
    <3> QED BY <3>1, <3>2
  <2>2. Max({-1} \cup before) \in {-1} \cup before
    <3> HIDE DEF before
    <3> QED BY <2>1 DEF Max
  <2> QED BY <1>1, <2>2
<1>3. Min({n} \cup after) \in start + 1 .. n
  <2>1. {n} \cup after \subseteq Nat
    BY <1>1
  <2>2. Min({n} \cup after) \in {n} \cup after
    <3> HIDE DEF after, n
    <3> QED BY <2>1, Least
  <2> QED BY <1>1, <2>2
<1>4. /\ Get(list, start)[1] \in 0 .. start
      /\ Get(list, start)[2] \in start .. n - 1
  <2>1. CASE start \in Present(list)
    BY <1>1, <2>1 DEF Get
  <2>2. CASE start \notin Present(list)
    <3> DEFINE a == Max({-1} \cup before)
               b == Min({n} \cup after)
    <3>1. Get(list, start) = <<a + 1, b - 1>>
      BY <2>2, Zenon DEF Get
    <3> HIDE DEF a, b, n
    <3>2. a \in -1 .. start - 1 /\ b \in start + 1 .. n
      BY <1>2, <1>3, Zenon DEF a, b
    <3> QED BY <1>1, <3>1, <3>2
  <2> QED BY <2>1, <2>2
<1> HIDE DEF n
<1>5. CASE ascending
  <2>1. ScanRange(list, start, ascending, min_visible) = <<Get(list, start)[1], n - 1>>
    BY <1>1, <1>5 DEF ScanRange
  <2> QED BY <1>1, <1>4, <2>1 DEF RangeOf, Ranges
<1>6. CASE ~ascending
  <2>1. ScanRange(list, start, ascending, min_visible) = <<min_visible, Get(list, start)[2]>>
    BY <1>6 DEF ScanRange
  <2> QED BY <1>1, <1>4, <2>1 DEF RangeOf, Ranges
<1> QED BY <1>5, <1>6

\* Looking at an index, field by field.
LEMMA NextItemIs ==
    ASSUME NEW iter \in Iterators, NEW i \in Nat, ~iter.complete
    PROVE  LET found == i = iter.expected_next
               done == iter.expected_next = iter.end
               next == NextItem(iter, i)
           IN  /\ next \in Iterators
               /\ next.events = IF found THEN iter.events \cup {i} ELSE iter.events
               /\ next.ranges = IF found THEN iter.ranges ELSE Append(iter.ranges, Gap(iter, i))
               /\ next.complete = done
               /\ next.expected_next = IF done THEN iter.expected_next ELSE After(iter, i)
               /\ next.ascending = iter.ascending /\ next.end = iter.end
               /\ Gap(iter, i) \in Ranges /\ After(iter, i) \in Nat
<1> DEFINE found == i = iter.expected_next
           done == iter.expected_next = iter.end
           next == NextItem(iter, i)
<1>1. Gap(iter, i) \in Ranges /\ After(iter, i) \in Nat
  <2>1. Decr(i) \in Nat /\ iter.expected_next \in Nat /\ i + 1 \in Nat
    BY DecrIs DEF Iterators
  <2> QED BY <2>1 DEF Gap, After, Ranges
<1>2. next = [iter EXCEPT !.events = IF found THEN @ \cup {i} ELSE @,
                          !.ranges = IF found THEN @ ELSE Append(@, Gap(iter, i)),
                          !.complete = done,
                          !.expected_next = IF done THEN @ ELSE After(iter, i)]
  BY Zenon DEF NextItem
<1> HIDE DEF next
<1>3. /\ next.events = IF found THEN iter.events \cup {i} ELSE iter.events
      /\ next.ranges = IF found THEN iter.ranges ELSE Append(iter.ranges, Gap(iter, i))
      /\ next.complete = done
      /\ next.expected_next = IF done THEN iter.expected_next ELSE After(iter, i)
      /\ next.ascending = iter.ascending /\ next.end = iter.end
  BY <1>2 DEF Iterators
<1>4. next \in Iterators
  <2>1. /\ (IF found THEN iter.events \cup {i} ELSE iter.events) \in SUBSET Nat
        /\ (IF found THEN iter.ranges ELSE Append(iter.ranges, Gap(iter, i))) \in Seq(Ranges)
        /\ (IF done THEN iter.expected_next ELSE After(iter, i)) \in Nat
        /\ done \in BOOLEAN
    BY <1>1 DEF Iterators
  <2> HIDE DEF found, done
  <2> QED BY <1>2, <2>1 DEF Iterators
<1> QED BY <1>1, <1>3, <1>4 DEF next

\* Each value of Iterating comes from the one before.
LEMMA IteratingIs ==
    ASSUME NEW list \in Lists, NEW range, RangeOf(list, range), NEW ascending \in BOOLEAN
    PROVE  LET n == (range[2] - range[1]) + 1
               iter == Iterating(list, range, ascending)
           IN  /\ n \in Nat
               /\ iter[0] = IterOver(range, ascending)
               /\ \A k \in 1 .. n :
                     /\ IndexAt(range, ascending, k) \in range[1] .. range[2]
                     /\ iter[k] = Looked(list, iter[k - 1], IndexAt(range, ascending, k))
<1> DEFINE n == (range[2] - range[1]) + 1
           At(k) == IndexAt(range, ascending, k)
           base == IterOver(range, ascending)
           step == [z \in Iterators \X (1 .. n) |-> Looked(list, z[1], At(z[2]))]
           Next_(g) == [k \in 0 .. n |-> IF k = 0 THEN base ELSE Looked(list, g[k - 1], At(k))]
<1>1. range[1] \in Nat /\ range[2] \in Nat /\ range[1] <= range[2] /\ n \in Nat
  BY DEF RangeOf, Ranges
<1>2. \A k \in 1 .. n : At(k) \in range[1] .. range[2]
  BY <1>1 DEF IndexAt
<1>3. base \in Iterators
  BY <1>1 DEF IterOver, Iterators
<1>4. step \in [Iterators \X (1 .. n) -> Iterators]
  <2> HIDE DEF At, n
  <2> SUFFICES ASSUME NEW c \in Iterators, NEW k \in 1 .. n
               PROVE  Looked(list, c, At(k)) \in Iterators
    OBVIOUS
  <2>1. At(k) \in Nat
    BY <1>1, <1>2
  <2>2. CASE c.complete
    BY <2>2 DEF Looked, NextItem
  <2>3. CASE ~c.complete
    BY <2>1, <2>3, NextItemIs DEF Looked
  <2> QED BY <2>2, <2>3
<1> HIDE DEF base, n, At
<1>5. PICK f \in [0 .. n -> Iterators] : Follows(f, n, base, step)
  <2> HIDE DEF step
  <2> QED BY <1>1, <1>3, <1>4, RecursionExists
<1>6. f = Next_(f)
  <2>1. ASSUME NEW k \in 1 .. n PROVE f[k] = Looked(list, f[k - 1], At(k))
    <3>1. <<f[k - 1], k>> \in Iterators \X (1 .. n)
      BY <1>1
    <3> QED BY <1>5, <3>1 DEF Follows
  <2> HIDE DEF step
  <2> QED BY <1>1, <1>5, <2>1 DEF Follows
<1>7. Iterating(list, range, ascending) = CHOOSE g : g = Next_(g)
  BY DEF Iterating, base, n, At
<1>8. Iterating(list, range, ascending) = Next_(Iterating(list, range, ascending))
  <2> HIDE DEF Next_
  <2> QED BY <1>6, <1>7
<1> HIDE DEF step
<1>9. /\ Iterating(list, range, ascending)[0] = base
      /\ \A k \in 1 .. n : Iterating(list, range, ascending)[k]
                               = Looked(list, Iterating(list, range, ascending)[k - 1], At(k))
  BY <1>1, <1>8
<1> QED BY <1>1, <1>2, <1>9 DEF base, n, At

\* What has been found is right as far as it goes: the events are there, the
\* ranges are not, but for 0, and lie apart.
RangesApart(ranges, ascending) ==
    \A j, k \in 1 .. Len(ranges) :
        j < k => IF ascending THEN ranges[j][2] < ranges[k][1] ELSE ranges[k][2] < ranges[j][1]
FoundRight(list, iter) ==
    /\ iter \in Iterators
    /\ iter.events \subseteq Present(list)
    /\ \A x \in Covered(iter.ranges) : x \notin Present(list)
    /\ \A j \in 1 .. Len(iter.ranges) : iter.ranges[j][1] <= iter.ranges[j][2]
    /\ RangesApart(iter.ranges, iter.ascending)

\* The iterator when it looks at i next, upwards.
ReadingUp(list, range, i, iter) ==
    /\ FoundRight(list, iter)
    /\ iter.ascending /\ iter.end = range[2]
    /\ range[1] <= iter.expected_next
    /\ \A x \in range[1] .. iter.expected_next - 1 :
          x \in Present(list) \/ x \in Covered(iter.ranges)
    /\ \A j \in 1 .. Len(iter.ranges) : iter.ranges[j][2] < iter.expected_next
    /\ IF iter.complete THEN iter.expected_next = range[2] /\ range[2] \in Present(list)
       ELSE /\ iter.expected_next <= i
            /\ \A x \in iter.expected_next .. i - 1 : x \notin Present(list)

\* What is covered when a range is added.
LEMMA CoveredAppend ==
    ASSUME NEW ranges \in Seq(Ranges), NEW r \in Ranges
    PROVE  /\ Append(ranges, r) \in Seq(Ranges)
           /\ Len(Append(ranges, r)) = Len(ranges) + 1
           /\ Covered(Append(ranges, r)) = Covered(ranges) \cup (r[1] .. r[2])
           /\ \A j \in 1 .. Len(ranges) : Append(ranges, r)[j] = ranges[j]
           /\ Append(ranges, r)[Len(ranges) + 1] = r
<1> DEFINE new == Append(ranges, r)
           n == Len(ranges)
<1>1. /\ new \in Seq(Ranges) /\ Len(new) = n + 1 /\ n \in Nat
      /\ \A j \in 1 .. n : new[j] = ranges[j]
      /\ new[n + 1] = r
      /\ DOMAIN new = 1 .. n + 1 /\ DOMAIN ranges = 1 .. n
  OBVIOUS
<1> HIDE DEF new, n
<1>2. ASSUME NEW x PROVE x \in Covered(new) <=> x \in Covered(ranges) \/ x \in r[1] .. r[2]
  <2>1. x \in Covered(new) <=> \E j \in 1 .. n + 1 : x \in new[j][1] .. new[j][2]
    BY <1>1, Zenon DEF Covered
  <2>2. x \in Covered(ranges) <=> \E j \in 1 .. n : x \in ranges[j][1] .. ranges[j][2]
    BY <1>1, Zenon DEF Covered
  <2>3. \A j : j \in 1 .. n + 1 <=> j \in 1 .. n \/ j = n + 1
    BY <1>1
  <2> QED BY <1>1, <2>1, <2>2, <2>3, Zenon
<1> QED BY <1>1, <1>2 DEF new, n

\* Adding a range that lies apart from the others.
LEMMA RangeAdded ==
    ASSUME NEW list \in Lists, NEW iter, FoundRight(list, iter), NEW r \in Ranges,
           NEW new \in Iterators,
           new.events = iter.events, new.ascending = iter.ascending,
           new.ranges = Append(iter.ranges, r),
           r[1] <= r[2], \A x \in r[1] .. r[2] : x \notin Present(list),
           \A j \in 1 .. Len(iter.ranges) :
               IF iter.ascending THEN iter.ranges[j][2] < r[1] ELSE r[2] < iter.ranges[j][1]
    PROVE  FoundRight(list, new)
<1> DEFINE n == Len(iter.ranges)
<1>1. /\ iter.ranges \in Seq(Ranges) /\ n \in Nat
  BY DEF FoundRight, Iterators
<1>2. /\ Len(new.ranges) = n + 1
      /\ Covered(new.ranges) = Covered(iter.ranges) \cup (r[1] .. r[2])
      /\ \A j \in 1 .. n : new.ranges[j] = iter.ranges[j]
      /\ new.ranges[n + 1] = r
  BY <1>1, CoveredAppend
<1> HIDE DEF n
<1>3. \A j : j \in 1 .. n + 1 <=> j \in 1 .. n \/ j = n + 1
  BY <1>1
<1>4. \A j \in 1 .. n + 1 : new.ranges[j][1] <= new.ranges[j][2]
  BY <1>2, <1>3 DEF FoundRight, n
<1>5. RangesApart(new.ranges, new.ascending)
  <2> SUFFICES ASSUME NEW j \in 1 .. n + 1, NEW k \in 1 .. n + 1, j < k
               PROVE  IF iter.ascending THEN new.ranges[j][2] < new.ranges[k][1]
                                        ELSE new.ranges[k][2] < new.ranges[j][1]
    BY <1>2 DEF RangesApart
  <2>1. j \in 1 .. n
    BY <1>1
  <2>2. CASE k \in 1 .. n
    BY <1>2, <2>1, <2>2 DEF FoundRight, RangesApart, n
  <2>3. CASE k = n + 1
    BY <1>2, <2>1, <2>3 DEF n
  <2> QED BY <1>3, <2>2, <2>3
<1>6. \A x \in Covered(new.ranges) : x \notin Present(list)
  BY <1>2 DEF FoundRight
<1> QED BY <1>2, <1>4, <1>5, <1>6 DEF FoundRight

\* Looking at the next index keeps what has been found right, upwards ...
LEMMA LookingUp ==
    ASSUME NEW list \in Lists, NEW range, RangeOf(list, range),
           NEW i \in range[1] .. range[2], NEW iter, ReadingUp(list, range, i, iter)
    PROVE  ReadingUp(list, range, i + 1, Looked(list, iter, i))
<1> DEFINE e == iter.expected_next
           next == NextItem(iter, i)
           hi == range[2]
           lo == range[1]
<1>1. /\ iter \in Iterators /\ e \in Nat /\ lo \in Nat /\ hi \in Nat /\ i \in Nat
      /\ iter.ranges \in Seq(Ranges) /\ iter.ascending /\ iter.end = hi /\ lo <= e
      /\ iter.complete \in BOOLEAN
  BY DEF ReadingUp, FoundRight, Iterators, RangeOf, Ranges
<1>2. CASE iter.complete
  <2>1. Looked(list, iter, i) = iter
    BY <1>2 DEF Looked, NextItem
  <2> QED BY <1>2, <2>1 DEF ReadingUp
<1>3. CASE ~iter.complete /\ i \notin Present(list)
  <2>1. Looked(list, iter, i) = iter
    BY <1>3 DEF Looked
  <2>2. e <= i + 1 /\ \A x \in e .. i : x \notin Present(list)
    <3>1. e <= i /\ \A x \in e .. i - 1 : x \notin Present(list)
      BY <1>3 DEF ReadingUp
    <3> HIDE DEF e
    <3> QED BY <1>1, <1>3, <3>1
  <2>3. (i + 1) - 1 = i
    BY <1>1
  <2> QED BY <1>3, <2>1, <2>2, <2>3 DEF ReadingUp
<1>4. CASE ~iter.complete /\ i \in Present(list)
  <2>1. Looked(list, iter, i) = next
    BY <1>4 DEF Looked
  <2>2. /\ e <= i /\ \A x \in e .. i - 1 : x \notin Present(list)
        /\ \A x \in lo .. e - 1 : x \in Present(list) \/ x \in Covered(iter.ranges)
        /\ \A j \in 1 .. Len(iter.ranges) : iter.ranges[j][2] < e
        /\ FoundRight(list, iter)
    BY <1>4 DEF ReadingUp
  <2>3. /\ next \in Iterators
        /\ next.events = IF i = e THEN iter.events \cup {i} ELSE iter.events
        /\ next.ranges = IF i = e THEN iter.ranges ELSE Append(iter.ranges, Gap(iter, i))
        /\ next.complete = (e = hi)
        /\ next.expected_next = IF e = hi THEN e ELSE i + 1
        /\ next.ascending /\ next.end = hi
    <3>1. After(iter, i) = i + 1
      BY <1>1 DEF After
    <3>2. /\ next \in Iterators
          /\ next.events = IF i = e THEN iter.events \cup {i} ELSE iter.events
          /\ next.ranges = IF i = e THEN iter.ranges ELSE Append(iter.ranges, Gap(iter, i))
          /\ next.complete = (e = iter.end)
          /\ next.expected_next = IF e = iter.end THEN e ELSE After(iter, i)
          /\ next.ascending = iter.ascending /\ next.end = iter.end
      BY <1>1, <1>4, NextItemIs, Zenon
    <3> QED BY <1>1, <3>1, <3>2
  <2> HIDE DEF next
  <2>4. ASSUME i = e PROVE ReadingUp(list, range, i + 1, next)
    <3>1. next.ranges = iter.ranges /\ next.events = iter.events \cup {i}
      BY <2>3, <2>4
    <3>2. FoundRight(list, next)
      BY <1>1, <1>4, <2>2, <2>3, <3>1 DEF FoundRight
    <3> HIDE DEF e, hi, lo
    <3>3. CASE e = hi
      <4>1. next.expected_next = e /\ next.complete = TRUE
        BY <2>3, <3>3
      <4> QED BY <1>1, <1>4, <2>2, <2>3, <2>4, <3>1, <3>2, <3>3, <4>1 DEF ReadingUp, hi, lo
    <3>4. CASE e # hi
      <4>1. next.expected_next = i + 1 /\ next.complete = FALSE
        BY <2>3, <3>4
      <4>2. \A x \in lo .. (i + 1) - 1 : x \in Present(list) \/ x \in Covered(next.ranges)
        <5>0. (i + 1) - 1 = i
          BY <1>1
        <5>1. \A x \in lo .. i : x = i \/ x \in lo .. e - 1
          BY <1>1, <2>4
        <5> QED BY <1>4, <2>2, <3>1, <5>0, <5>1
      <4>3. lo <= i + 1
        BY <1>1, <2>2
      <4>4. \A j \in 1 .. Len(next.ranges) : next.ranges[j][2] < i + 1
        <5> SUFFICES ASSUME NEW j \in 1 .. Len(iter.ranges) PROVE iter.ranges[j][2] < i + 1
          BY <3>1
        <5>1. iter.ranges[j] \in Ranges /\ iter.ranges[j][2] < e
          BY <1>1, <2>2
        <5> QED BY <1>1, <2>4, <5>1 DEF Ranges
      <4>5. i + 1 <= i + 1 /\ \A x \in i + 1 .. (i + 1) - 1 : x \notin Present(list)
        BY <1>1
      <4> QED BY <2>3, <3>2, <4>1, <4>2, <4>3, <4>4, <4>5 DEF ReadingUp, hi, lo
    <3> QED BY <3>3, <3>4
  <2>5. ASSUME i # e PROVE ReadingUp(list, range, i + 1, next)
    <3>1. e < i /\ e # hi /\ Gap(iter, i) = <<e, i - 1>> /\ <<e, i - 1>> \in Ranges
      <4>1. e < i /\ e # hi /\ i # 0
        BY <1>1, <2>2, <2>5
      <4>2. Decr(i) = i - 1 /\ i - 1 \in Nat
        BY <1>1, <4>1, DecrIs
      <4> QED BY <1>1, <4>1, <4>2 DEF Gap, Ranges
    <3>2. /\ next.ranges = Append(iter.ranges, <<e, i - 1>>) /\ next.events = iter.events
          /\ next.expected_next = i + 1 /\ next.complete = FALSE
      BY <2>3, <2>5, <3>1
    <3> DEFINE r == <<e, i - 1>>
    <3>3. r \in Ranges /\ r[1] = e /\ r[2] = i - 1 /\ r[1] <= r[2]
      BY <1>1, <3>1
    <3> HIDE DEF r
    <3>4. FoundRight(list, next)
      BY <1>1, <2>2, <2>3, <3>2, <3>3, RangeAdded DEF r
    <3>5. /\ Len(next.ranges) = Len(iter.ranges) + 1
          /\ Covered(next.ranges) = Covered(iter.ranges) \cup (e .. i - 1)
          /\ \A j \in 1 .. Len(iter.ranges) : next.ranges[j] = iter.ranges[j]
          /\ next.ranges[Len(iter.ranges) + 1] = r
      <4> DEFINE ranges == iter.ranges
      <4>1. ranges \in Seq(Ranges) /\ next.ranges = Append(ranges, r)
        BY <1>1, <3>2 DEF r
      <4> HIDE DEF ranges
      <4>2. /\ Len(next.ranges) = Len(ranges) + 1
            /\ Covered(next.ranges) = Covered(ranges) \cup (r[1] .. r[2])
            /\ \A j \in 1 .. Len(ranges) : next.ranges[j] = ranges[j]
            /\ next.ranges[Len(ranges) + 1] = r
        BY <3>3, <4>1, CoveredAppend
      <4> QED BY <3>3, <4>2 DEF ranges
    <3> HIDE DEF e, hi, lo
    <3>6. \A x \in lo .. (i + 1) - 1 : x \in Present(list) \/ x \in Covered(next.ranges)
      <4>0. (i + 1) - 1 = i
        BY <1>1
      <4>1. \A x \in lo .. i : x = i \/ x \in lo .. e - 1 \/ x \in e .. i - 1
        BY <1>1, <3>1
      <4> QED BY <1>4, <2>2, <3>5, <4>0, <4>1
    <3>7. \A j \in 1 .. Len(next.ranges) : next.ranges[j][2] < i + 1
      <4> SUFFICES ASSUME NEW j \in 1 .. Len(next.ranges) PROVE next.ranges[j][2] < i + 1
        OBVIOUS
      <4>1. CASE j \in 1 .. Len(iter.ranges)
        <5>1. iter.ranges[j] \in Ranges /\ next.ranges[j] = iter.ranges[j] /\ iter.ranges[j][2] < e
          BY <1>1, <2>2, <3>5, <4>1
        <5>2. iter.ranges[j][2] \in Nat
          BY <5>1 DEF Ranges
        <5> QED BY <1>1, <3>1, <5>1, <5>2
      <4>2. CASE j = Len(iter.ranges) + 1
        <5>1. next.ranges[j] = r
          BY <3>5, <4>2, Zenon
        <5> QED BY <1>1, <3>3, <5>1
      <4>3. j \in 1 .. Len(iter.ranges) \/ j = Len(iter.ranges) + 1
        BY <1>1, <3>5
      <4> QED BY <4>1, <4>2, <4>3
    <3>8. lo <= i + 1 /\ i + 1 <= i + 1 /\ \A x \in i + 1 .. (i + 1) - 1 : x \notin Present(list)
      BY <1>1, <3>1
    <3> QED BY <2>3, <3>2, <3>4, <3>6, <3>7, <3>8 DEF ReadingUp, hi, lo
  <2> QED BY <2>1, <2>4, <2>5
<1> QED BY <1>1, <1>2, <1>3, <1>4

\* The iterator when it looks at i next, downwards.  decr leaves 0 to be looked
\* at again.
ReadingDown(list, range, i, iter) ==
    /\ FoundRight(list, iter)
    /\ ~iter.ascending /\ iter.end = range[1]
    /\ iter.expected_next <= range[2]
    /\ \A x \in iter.expected_next + 1 .. range[2] :
          x \in Present(list) \/ x \in Covered(iter.ranges)
    /\ \A j \in 1 .. Len(iter.ranges) : iter.expected_next < iter.ranges[j][1]
    /\ IF iter.complete THEN iter.expected_next = range[1] /\ range[1] \in Present(list)
       ELSE /\ i <= iter.expected_next
            /\ \A x \in i + 1 .. iter.expected_next : x = 0 \/ x \notin Present(list)

\* ... and downwards.
LEMMA LookingDown ==
    ASSUME NEW list \in Lists, NEW range, RangeOf(list, range),
           NEW i \in range[1] .. range[2], NEW iter, ReadingDown(list, range, i, iter)
    PROVE  ReadingDown(list, range, i - 1, Looked(list, iter, i))
<1> DEFINE e == iter.expected_next
           next == NextItem(iter, i)
           hi == range[2]
           lo == range[1]
<1>1. /\ iter \in Iterators /\ e \in Nat /\ lo \in Nat /\ hi \in Nat /\ i \in Nat
      /\ iter.ranges \in Seq(Ranges) /\ ~iter.ascending /\ iter.end = lo /\ e <= hi
      /\ iter.complete \in BOOLEAN /\ lo <= i /\ i <= hi
  BY DEF ReadingDown, FoundRight, Iterators, RangeOf, Ranges
<1>2. CASE iter.complete
  <2>1. Looked(list, iter, i) = iter
    BY <1>2 DEF Looked, NextItem
  <2> QED BY <1>2, <2>1 DEF ReadingDown
<1>3. CASE ~iter.complete /\ i \notin Present(list)
  <2>1. Looked(list, iter, i) = iter
    BY <1>3 DEF Looked
  <2>2. i - 1 <= e /\ \A x \in (i - 1) + 1 .. e : x = 0 \/ x \notin Present(list)
    <3>1. i <= e /\ \A x \in i + 1 .. e : x = 0 \/ x \notin Present(list)
      BY <1>3 DEF ReadingDown
    <3> HIDE DEF e
    <3>2. \A x \in (i - 1) + 1 .. e : x = i \/ x \in i + 1 .. e
      BY <1>1
    <3> QED BY <1>1, <1>3, <3>1, <3>2
  <2> QED BY <1>3, <2>1, <2>2 DEF ReadingDown
<1>4. CASE ~iter.complete /\ i \in Present(list)
  <2>1. Looked(list, iter, i) = next
    BY <1>4 DEF Looked
  <2>2. /\ i <= e /\ \A x \in i + 1 .. e : x = 0 \/ x \notin Present(list)
        /\ \A x \in e + 1 .. hi : x \in Present(list) \/ x \in Covered(iter.ranges)
        /\ \A j \in 1 .. Len(iter.ranges) : e < iter.ranges[j][1]
        /\ FoundRight(list, iter)
    BY <1>4 DEF ReadingDown
  <2>3. /\ next \in Iterators
        /\ next.events = IF i = e THEN iter.events \cup {i} ELSE iter.events
        /\ next.ranges = IF i = e THEN iter.ranges ELSE Append(iter.ranges, Gap(iter, i))
        /\ next.complete = (e = lo)
        /\ next.expected_next = IF e = lo THEN e ELSE Decr(i)
        /\ next.ascending = FALSE /\ next.end = lo
    <3>1. After(iter, i) = Decr(i)
      BY <1>1 DEF After
    <3>2. /\ next \in Iterators
          /\ next.events = IF i = e THEN iter.events \cup {i} ELSE iter.events
          /\ next.ranges = IF i = e THEN iter.ranges ELSE Append(iter.ranges, Gap(iter, i))
          /\ next.complete = (e = iter.end)
          /\ next.expected_next = IF e = iter.end THEN e ELSE After(iter, i)
          /\ next.ascending = iter.ascending /\ next.end = iter.end
      BY <1>1, <1>4, NextItemIs, Zenon
    <3>3. iter.ascending = FALSE
      BY <1>1 DEF Iterators
    <3> QED BY <1>1, <3>1, <3>2, <3>3
  <2>4. /\ Decr(i) \in Nat /\ i - 1 <= Decr(i) /\ Decr(i) <= i
        /\ i # 0 => Decr(i) = i - 1
        /\ i = 0 => Decr(i) = 0
    <3>1. Decr(i) \in Nat /\ Decr(i) = IF i = 0 THEN 0 ELSE i - 1
      BY <1>1, DecrIs
    <3> QED BY <1>1, <3>1
  <2> HIDE DEF next
  <2>5. ASSUME i = e PROVE ReadingDown(list, range, i - 1, next)
    <3>1. /\ next.ranges = iter.ranges /\ next.events = iter.events \cup {i}
          /\ next.ascending = iter.ascending
      BY <1>1, <2>3, <2>5 DEF Iterators
    <3>2. FoundRight(list, next)
      BY <1>1, <1>4, <2>2, <2>3, <3>1 DEF FoundRight
    <3> HIDE DEF e, hi, lo
    <3>3. CASE e = lo
      <4>1. next.expected_next = e /\ next.complete = TRUE
        BY <2>3, <3>3
      <4> QED BY <1>1, <1>4, <2>2, <2>3, <2>5, <3>1, <3>2, <3>3, <4>1 DEF ReadingDown, hi, lo
    <3>4. CASE e # lo
      <4>1. next.expected_next = i - 1 /\ next.complete = FALSE /\ i - 1 \in Nat
        <5>1. i # 0
          BY <1>1, <2>5, <3>4
        <5> QED BY <1>1, <2>3, <2>4, <3>4, <5>1
      <4>2. \A x \in (i - 1) + 1 .. hi : x \in Present(list) \/ x \in Covered(next.ranges)
        <5>1. \A x \in (i - 1) + 1 .. hi : x = i \/ x \in e + 1 .. hi
          BY <1>1, <2>5
        <5> QED BY <1>4, <2>2, <3>1, <5>1
      <4>3. i - 1 <= hi
        BY <1>1
      <4>4. \A j \in 1 .. Len(next.ranges) : i - 1 < next.ranges[j][1]
        <5> SUFFICES ASSUME NEW j \in 1 .. Len(iter.ranges) PROVE i - 1 < iter.ranges[j][1]
          BY <3>1
        <5>1. iter.ranges[j] \in Ranges /\ e < iter.ranges[j][1]
          BY <1>1, <2>2
        <5>2. iter.ranges[j][1] \in Nat
          BY <5>1 DEF Ranges
        <5> QED BY <1>1, <2>5, <5>1, <5>2
      <4>5. i - 1 <= i - 1 /\ \A x \in (i - 1) + 1 .. i - 1 : x = 0 \/ x \notin Present(list)
        BY <1>1
      <4> QED BY <2>3, <3>2, <4>1, <4>2, <4>3, <4>4, <4>5 DEF ReadingDown, hi, lo
    <3> QED BY <3>3, <3>4
  <2>6. ASSUME i # e PROVE ReadingDown(list, range, i - 1, next)
    <3>1. i < e /\ e # lo /\ Gap(iter, i) = <<i + 1, e>> /\ <<i + 1, e>> \in Ranges
      <4>1. i < e /\ e # lo
        BY <1>1, <2>2, <2>6
      <4> QED BY <1>1, <4>1 DEF Gap, Ranges
    <3>2. /\ next.ranges = Append(iter.ranges, <<i + 1, e>>) /\ next.events = iter.events
          /\ next.expected_next = Decr(i) /\ next.complete = FALSE
      BY <2>3, <2>6, <3>1
    <3> DEFINE r == <<i + 1, e>>
    <3>3. r \in Ranges /\ r[1] = i + 1 /\ r[2] = e /\ r[1] <= r[2]
      BY <1>1, <3>1
    <3> HIDE DEF r
    <3>4. FoundRight(list, next)
      <4>1. \A x \in r[1] .. r[2] : x \notin Present(list)
        BY <1>1, <2>2, <3>3
      <4>2. \A j \in 1 .. Len(iter.ranges) : r[2] < iter.ranges[j][1]
        BY <2>2, <3>3
      <4>3. next.ascending = iter.ascending
        BY <1>1, <2>3 DEF Iterators
      <4> QED BY <1>1, <2>2, <2>3, <3>2, <3>3, <4>1, <4>2, <4>3, RangeAdded DEF r
    <3>5. /\ Len(next.ranges) = Len(iter.ranges) + 1
          /\ Covered(next.ranges) = Covered(iter.ranges) \cup (i + 1 .. e)
          /\ \A j \in 1 .. Len(iter.ranges) : next.ranges[j] = iter.ranges[j]
          /\ next.ranges[Len(iter.ranges) + 1] = r
      <4> DEFINE ranges == iter.ranges
      <4>1. ranges \in Seq(Ranges) /\ next.ranges = Append(ranges, r)
        BY <1>1, <3>2 DEF r
      <4> HIDE DEF ranges
      <4>2. /\ Len(next.ranges) = Len(ranges) + 1
            /\ Covered(next.ranges) = Covered(ranges) \cup (r[1] .. r[2])
            /\ \A j \in 1 .. Len(ranges) : next.ranges[j] = ranges[j]
            /\ next.ranges[Len(ranges) + 1] = r
        BY <3>3, <4>1, CoveredAppend
      <4> QED BY <3>3, <4>2 DEF ranges
    <3> HIDE DEF e, hi, lo
    <3>6. \A x \in Decr(i) + 1 .. hi : x \in Present(list) \/ x \in Covered(next.ranges)
      <4>1. \A x \in Decr(i) + 1 .. hi : x = i \/ x \in i + 1 .. e \/ x \in e + 1 .. hi
        BY <1>1, <2>4, <3>1
      <4> QED BY <1>4, <2>2, <3>5, <4>1
    <3>7. \A j \in 1 .. Len(next.ranges) : Decr(i) < next.ranges[j][1]
      <4> SUFFICES ASSUME NEW j \in 1 .. Len(next.ranges) PROVE Decr(i) < next.ranges[j][1]
        OBVIOUS
      <4>1. CASE j \in 1 .. Len(iter.ranges)
        <5>1. iter.ranges[j] \in Ranges /\ next.ranges[j] = iter.ranges[j] /\ e < iter.ranges[j][1]
          BY <1>1, <2>2, <3>5, <4>1
        <5> DEFINE x == iter.ranges[j][1]
                   d == Decr(i)
        <5>2. x \in Nat /\ e < x /\ e \in Nat /\ i \in Nat /\ i < e /\ d \in Nat /\ d <= i
          BY <1>1, <2>4, <3>1, <5>1 DEF Ranges
        <5> HIDE DEF x, d
        <5>3. d < x
          BY <5>2
        <5> QED BY <5>1, <5>3 DEF x, d
      <4>2. CASE j = Len(iter.ranges) + 1
        <5>1. next.ranges[j] = r
          BY <3>5, <4>2, Zenon
        <5> QED BY <1>1, <2>4, <3>3, <5>1
      <4>3. j \in 1 .. Len(iter.ranges) \/ j = Len(iter.ranges) + 1
        BY <1>1, <3>5
      <4> QED BY <4>1, <4>2, <4>3
    <3>8. Decr(i) <= hi /\ i - 1 <= Decr(i)
      BY <1>1, <2>4
    <3>9. \A x \in (i - 1) + 1 .. Decr(i) : x = 0 \/ x \notin Present(list)
      BY <1>1, <2>4
    <3> QED BY <2>3, <3>2, <3>4, <3>6, <3>7, <3>8, <3>9 DEF ReadingDown, hi, lo
  <2> QED BY <2>1, <2>5, <2>6
<1> QED BY <1>1, <1>2, <1>3, <1>4

\* The ranges that are found come in the order of reading.
Precedes(a, b) == Before(a, b) /\ a[2] < b[1]
InSequence(ranges, ascending) ==
    \A j, k \in 1 .. Len(ranges) :
        j < k => IF ascending THEN Precedes(ranges[j], ranges[k])
                              ELSE Precedes(ranges[k], ranges[j])

\* What LastItem adds.
LEMMA LastItemIs ==
    ASSUME NEW iter \in Iterators, ~iter.complete
    PROVE  LET r == IF iter.ascending THEN <<iter.expected_next, iter.end>>
                                      ELSE <<iter.end, iter.expected_next>>
               last == LastItem(iter)
           IN  /\ r \in Ranges
               /\ last.events = iter.events /\ last.ranges = Append(iter.ranges, r)
<1> DEFINE r == IF iter.ascending THEN <<iter.expected_next, iter.end>>
                                  ELSE <<iter.end, iter.expected_next>>
<1>1. LastItem(iter) = [iter EXCEPT !.ranges = Append(@, r)]
  BY DEF LastItem
<1>2. r \in Ranges
  BY DEF Iterators, Ranges
<1> HIDE DEF r
<1>3. LastItem(iter).events = iter.events /\ LastItem(iter).ranges = Append(iter.ranges, r)
  BY <1>1 DEF Iterators
<1> QED BY <1>2, <1>3 DEF r

\* Adding the last range, that may be empty.
LEMMA LastAdded ==
    ASSUME NEW list \in Lists, NEW iter, FoundRight(list, iter), NEW r \in Ranges,
           r[1] <= r[2] + 1,
           \A j \in 1 .. Len(iter.ranges) :
               IF iter.ascending THEN iter.ranges[j][2] < r[1] ELSE r[2] < iter.ranges[j][1]
    PROVE  InSequence(Append(iter.ranges, r), iter.ascending)
<1> DEFINE n == Len(iter.ranges)
           new == Append(iter.ranges, r)
<1>1. /\ iter.ranges \in Seq(Ranges) /\ n \in Nat /\ iter.ascending \in BOOLEAN
      /\ \A j \in 1 .. n : iter.ranges[j] \in Ranges
  BY DEF FoundRight, Iterators
<1>2. /\ Len(new) = n + 1
      /\ \A j \in 1 .. n : new[j] = iter.ranges[j]
      /\ new[n + 1] = r
  BY <1>1, CoveredAppend
<1>3. \A j \in 1 .. n : iter.ranges[j][1] <= iter.ranges[j][2]
  BY DEF FoundRight
<1> HIDE DEF n, new
<1> SUFFICES ASSUME NEW j \in 1 .. n + 1, NEW k \in 1 .. n + 1, j < k
             PROVE  IF iter.ascending THEN Precedes(new[j], new[k]) ELSE Precedes(new[k], new[j])
  BY <1>2 DEF InSequence, new
<1>4. j \in 1 .. n /\ (k \in 1 .. n \/ k = n + 1)
  BY <1>1
<1>5. /\ new[j] \in Ranges /\ new[j][1] <= new[j][2]
      /\ new[k] \in Ranges /\ new[k][1] <= new[k][2] + 1
  <2>1. new[j] \in Ranges /\ new[j][1] <= new[j][2]
    BY <1>1, <1>2, <1>3, <1>4
  <2>2. CASE k \in 1 .. n
    <3>1. new[k] \in Ranges /\ new[k][1] <= new[k][2]
      BY <1>1, <1>2, <1>3, <2>2
    <3> QED BY <2>1, <3>1 DEF Ranges
  <2> QED BY <1>2, <1>4, <2>1, <2>2
<1>6. IF iter.ascending THEN new[j][2] < new[k][1] ELSE new[k][2] < new[j][1]
  <2>1. CASE k \in 1 .. n
    BY <1>2, <1>4, <2>1 DEF FoundRight, RangesApart, n
  <2>2. CASE k = n + 1
    BY <1>2, <1>4, <2>2 DEF n
  <2> QED BY <1>4, <2>1, <2>2
<1>7. ASSUME NEW a \in Ranges, NEW b \in Ranges, a[2] < b[1],
             a[1] <= a[2] \/ (b[1] <= b[2] /\ a[1] <= a[2] + 1)
      PROVE  Precedes(a, b)
  <2>1. a[1] \in Nat /\ a[2] \in Nat /\ b[1] \in Nat /\ b[2] \in Nat
    BY DEF Ranges
  <2>2. a[1] < b[1] \/ (a[1] = b[1] /\ a[2] < b[2])
    BY <1>7, <2>1
  <2> QED BY <1>7, <2>2 DEF Precedes, Before
<1> QED BY <1>5, <1>6, <1>7

\* What a scan finds: events that are there, and ranges that cover all others
\* it came across, and apart from 0 nothing that is there.
LEMMA ScanFinds ==
    ASSUME NEW list \in Lists, NEW ascending \in BOOLEAN,
           NEW start \in Indexes(list), NEW min_visible \in 0 .. start
    PROVE  LET scan == Scan(list, start, ascending, min_visible)
               range == ScanRange(list, start, ascending, min_visible)
           IN  /\ scan.events \subseteq Present(list)
               /\ scan.ranges \in Seq(Ranges)
               /\ \A x \in range[1] .. range[2] : x \in Present(list) \/ x \in Covered(scan.ranges)
               /\ \A x \in Covered(scan.ranges) : x = 0 \/ x \notin Present(list)
               /\ InSequence(scan.ranges, ascending)
<1> DEFINE range == ScanRange(list, start, ascending, min_visible)
           n == (range[2] - range[1]) + 1
           iter == Iterating(list, range, ascending)
           scan == Scan(list, start, ascending, min_visible)
           lo == range[1]
           hi == range[2]
<1>1. RangeOf(list, range)
  BY ScanRangeIs
<1>2. scan = LastItem(iter[n])
  BY DEF Scan
<1> HIDE DEF range, scan
<1>3. /\ n \in Nat /\ iter[0] = IterOver(range, ascending)
      /\ \A k \in 1 .. n : /\ IndexAt(range, ascending, k) \in lo .. hi
                           /\ iter[k] = Looked(list, iter[k - 1], IndexAt(range, ascending, k))
  BY <1>1, IteratingIs
<1>4. lo \in Nat /\ hi \in Nat /\ lo <= hi /\ n = (hi - lo) + 1
  BY <1>1 DEF RangeOf, Ranges
<1> HIDE DEF iter, n, lo, hi
<1>5. FoundRight(list, iter[0]) /\ iter[0].complete = FALSE /\ iter[0].ascending = ascending
      /\ iter[0].ranges = <<>>
      /\ iter[0].expected_next = (IF ascending THEN lo ELSE hi)
      /\ iter[0].end = (IF ascending THEN hi ELSE lo)
  <2>1. /\ iter[0].complete = FALSE /\ iter[0].ascending = ascending
        /\ iter[0].ranges = <<>> /\ iter[0].events = {}
        /\ iter[0].expected_next = (IF ascending THEN lo ELSE hi)
        /\ iter[0].end = (IF ascending THEN hi ELSE lo)
    BY <1>3 DEF IterOver, lo, hi
  <2>2. iter[0] \in Iterators
    BY <1>3, <1>4 DEF IterOver, lo, hi, Iterators
  <2>3. /\ Covered(iter[0].ranges) = {}
        /\ \A j : ~(j \in 1 .. Len(iter[0].ranges))
    BY <2>1 DEF Covered
  <2> QED BY <2>1, <2>2, <2>3 DEF FoundRight, RangesApart
<1>6. ASSUME ascending
      PROVE  /\ scan.events \subseteq Present(list)
             /\ scan.ranges \in Seq(Ranges)
             /\ \A x \in lo .. hi : x \in Present(list) \/ x \in Covered(scan.ranges)
             /\ \A x \in Covered(scan.ranges) : x = 0 \/ x \notin Present(list)
             /\ InSequence(scan.ranges, ascending)
  <2> DEFINE S == {k \in 0 .. n : ReadingUp(list, range, lo + k, iter[k])}
  <2>1. 0 \in S
    <3>1. /\ \A x : ~(x \in lo .. lo - 1)
          /\ \A j : ~(j \in 1 .. Len(iter[0].ranges))
      BY <1>4, <1>5
    <3>2. lo + 0 = lo /\ 0 \in 0 .. n
      BY <1>3, <1>4
    <3>3. ReadingUp(list, range, lo, iter[0])
      BY <1>4, <1>5, <1>6, <3>1 DEF ReadingUp, lo, hi
    <3> QED BY <3>2, <3>3
  <2>2. ASSUME NEW k \in 0 .. n - 1, k \in S PROVE k + 1 \in S
    <3>1. /\ k + 1 \in 1 .. n /\ (k + 1) - 1 = k /\ k + 1 \in 0 .. n
          /\ (lo + k) + 1 = lo + (k + 1)
      BY <1>3, <1>4
    <3>2. IndexAt(range, ascending, k + 1) = lo + k /\ lo + k \in lo .. hi
      BY <1>4, <1>6, <3>1 DEF IndexAt, lo
    <3>3. iter[k + 1] = Looked(list, iter[k], lo + k)
      <4>1. iter[k + 1] = Looked(list, iter[(k + 1) - 1], IndexAt(range, ascending, k + 1))
        BY <1>3, <3>1, Zenon
      <4> QED BY <3>1, <3>2, <4>1
    <3>4. ReadingUp(list, range, (lo + k) + 1, Looked(list, iter[k], lo + k))
      BY <1>1, <2>2, <3>2, LookingUp DEF lo, hi
    <3> QED BY <3>1, <3>3, <3>4
  <2>3. ReadingUp(list, range, lo + n, iter[n])
    <3>1. n \in S
      <4> HIDE DEF S
      <4> QED BY <1>3, <2>1, <2>2, Induction
    <3> QED BY <3>1
  <2> DEFINE last == iter[n]
             e == last.expected_next
  <2>4. /\ FoundRight(list, last) /\ last \in Iterators /\ last.ascending /\ last.end = hi
        /\ lo <= e /\ e \in Nat /\ last.ranges \in Seq(Ranges)
        /\ \A x \in lo .. e - 1 : x \in Present(list) \/ x \in Covered(last.ranges)
        /\ \A j \in 1 .. Len(last.ranges) : last.ranges[j][2] < e
        /\ IF last.complete THEN e = hi /\ hi \in Present(list)
           ELSE e <= hi + 1 /\ \A x \in e .. hi : x \notin Present(list)
    <3>1. (lo + n) - 1 = hi /\ lo + n = hi + 1
      BY <1>4
    <3> QED BY <2>3, <3>1 DEF ReadingUp, FoundRight, Iterators, lo, hi
  <2> HIDE DEF last
  <2>5. CASE last.complete
    <3>1. scan = last
      BY <1>2, <2>5 DEF LastItem, last
    <3>2. \A x \in lo .. hi : x \in lo .. e - 1 \/ x = hi
      BY <1>4, <2>4, <2>5
    <3>3. \A x \in lo .. hi : x \in Present(list) \/ x \in Covered(scan.ranges)
      BY <2>4, <2>5, <3>1, <3>2
    <3>4. InSequence(scan.ranges, ascending)
      <4> SUFFICES ASSUME NEW j \in 1 .. Len(last.ranges), NEW k \in 1 .. Len(last.ranges), j < k
                   PROVE  Precedes(last.ranges[j], last.ranges[k])
        BY <1>6, <3>1 DEF InSequence
      <4>1. last.ranges[j] \in Ranges /\ last.ranges[k] \in Ranges
        BY <2>4
      <4>2. last.ranges[j][1] <= last.ranges[j][2] /\ last.ranges[j][2] < last.ranges[k][1]
        BY <2>4 DEF FoundRight, RangesApart
      <4> QED BY <4>1, <4>2 DEF Precedes, Before, Ranges
    <3> QED BY <2>4, <3>1, <3>3, <3>4 DEF FoundRight
  <2>6. CASE ~last.complete
    <3> DEFINE r == <<e, hi>>
    <3>1. /\ r \in Ranges /\ scan.events = last.events /\ scan.ranges = Append(last.ranges, r)
          /\ r[1] = e /\ r[2] = hi
      BY <1>2, <2>4, <2>6, LastItemIs DEF last
    <3> HIDE DEF r
    <3>2. scan.ranges \in Seq(Ranges) /\ Covered(scan.ranges) = Covered(last.ranges) \cup (e .. hi)
      BY <2>4, <3>1, CoveredAppend
    <3>3. InSequence(scan.ranges, ascending)
      <4>1. r[1] <= r[2] + 1 /\ \A j \in 1 .. Len(last.ranges) : last.ranges[j][2] < r[1]
        BY <2>4, <2>6, <3>1
      <4>2. InSequence(Append(last.ranges, r), last.ascending)
        BY <2>4, <3>1, <4>1, LastAdded
      <4>3. last.ascending = ascending
        BY <1>6, <2>4 DEF Iterators
      <4> QED BY <3>1, <4>2, <4>3
    <3>4. \A x \in lo .. hi : x \in lo .. e - 1 \/ x \in e .. hi
      BY <1>4, <2>4
    <3>5. \A x \in Covered(scan.ranges) : x \notin Present(list)
      BY <2>4, <2>6, <3>2 DEF FoundRight
    <3>6. scan.events \subseteq Present(list)
      BY <2>4, <3>1 DEF FoundRight
    <3> QED BY <2>4, <3>2, <3>3, <3>4, <3>5, <3>6
  <2> QED BY <2>5, <2>6
<1>7. ASSUME ~ascending
      PROVE  /\ scan.events \subseteq Present(list)
             /\ scan.ranges \in Seq(Ranges)
             /\ \A x \in lo .. hi : x \in Present(list) \/ x \in Covered(scan.ranges)
             /\ \A x \in Covered(scan.ranges) : x = 0 \/ x \notin Present(list)
             /\ InSequence(scan.ranges, ascending)
  <2> DEFINE S == {k \in 0 .. n : ReadingDown(list, range, hi - k, iter[k])}
  <2>1. 0 \in S
    <3>1. /\ \A x : ~(x \in hi + 1 .. hi)
          /\ \A j : ~(j \in 1 .. Len(iter[0].ranges))
      BY <1>4, <1>5
    <3>2. hi - 0 = hi /\ 0 \in 0 .. n
      BY <1>3, <1>4
    <3>3. ReadingDown(list, range, hi, iter[0])
      BY <1>4, <1>5, <1>7, <3>1 DEF ReadingDown, lo, hi
    <3> QED BY <3>2, <3>3
  <2>2. ASSUME NEW k \in 0 .. n - 1, k \in S PROVE k + 1 \in S
    <3>1. /\ k + 1 \in 1 .. n /\ (k + 1) - 1 = k /\ k + 1 \in 0 .. n
          /\ (hi - k) - 1 = hi - (k + 1)
      BY <1>3, <1>4
    <3>2. IndexAt(range, ascending, k + 1) = hi - k /\ hi - k \in lo .. hi
      BY <1>4, <1>7, <3>1 DEF IndexAt, hi
    <3>3. iter[k + 1] = Looked(list, iter[k], hi - k)
      <4>1. iter[k + 1] = Looked(list, iter[(k + 1) - 1], IndexAt(range, ascending, k + 1))
        BY <1>3, <3>1, Zenon
      <4> QED BY <3>1, <3>2, <4>1
    <3>4. ReadingDown(list, range, (hi - k) - 1, Looked(list, iter[k], hi - k))
      BY <1>1, <2>2, <3>2, LookingDown DEF lo, hi
    <3> QED BY <3>1, <3>3, <3>4
  <2>3. ReadingDown(list, range, hi - n, iter[n])
    <3>1. n \in S
      <4> HIDE DEF S
      <4> QED BY <1>3, <2>1, <2>2, Induction
    <3> QED BY <3>1
  <2> DEFINE last == iter[n]
             e == last.expected_next
  <2>4. /\ FoundRight(list, last) /\ last \in Iterators /\ ~last.ascending /\ last.end = lo
        /\ e <= hi /\ e \in Nat /\ last.ranges \in Seq(Ranges)
        /\ \A x \in e + 1 .. hi : x \in Present(list) \/ x \in Covered(last.ranges)
        /\ \A j \in 1 .. Len(last.ranges) : e < last.ranges[j][1]
        /\ IF last.complete THEN e = lo /\ lo \in Present(list)
           ELSE lo <= e + 1 /\ \A x \in lo .. e : x = 0 \/ x \notin Present(list)
    <3>1. (hi - n) + 1 = lo /\ hi - n = lo - 1
      BY <1>4
    <3>2. lo - 1 <= e <=> lo <= e + 1
      BY <1>4, <2>3 DEF ReadingDown, FoundRight, Iterators
    <3> QED BY <2>3, <3>1, <3>2 DEF ReadingDown, FoundRight, Iterators, lo, hi
  <2> HIDE DEF last
  <2>5. CASE last.complete
    <3>1. scan = last
      BY <1>2, <2>5 DEF LastItem, last
    <3>2. \A x \in lo .. hi : x \in e + 1 .. hi \/ x = lo
      BY <1>4, <2>4, <2>5
    <3>3. \A x \in lo .. hi : x \in Present(list) \/ x \in Covered(scan.ranges)
      BY <2>4, <2>5, <3>1, <3>2
    <3>4. InSequence(scan.ranges, ascending)
      <4> SUFFICES ASSUME NEW j \in 1 .. Len(last.ranges), NEW k \in 1 .. Len(last.ranges), j < k
                   PROVE  Precedes(last.ranges[k], last.ranges[j])
        BY <1>7, <3>1 DEF InSequence
      <4>1. last.ranges[j] \in Ranges /\ last.ranges[k] \in Ranges
        BY <2>4
      <4>2. last.ranges[k][1] <= last.ranges[k][2] /\ last.ranges[k][2] < last.ranges[j][1]
        BY <2>4 DEF FoundRight, RangesApart
      <4> QED BY <4>1, <4>2 DEF Precedes, Before, Ranges
    <3> QED BY <2>4, <3>1, <3>3, <3>4 DEF FoundRight
  <2>6. CASE ~last.complete
    <3> DEFINE r == <<lo, e>>
    <3>1. /\ r \in Ranges /\ scan.events = last.events /\ scan.ranges = Append(last.ranges, r)
          /\ r[1] = lo /\ r[2] = e
      BY <1>2, <2>4, <2>6, LastItemIs DEF last
    <3> HIDE DEF r
    <3>2. scan.ranges \in Seq(Ranges) /\ Covered(scan.ranges) = Covered(last.ranges) \cup (lo .. e)
      BY <2>4, <3>1, CoveredAppend
    <3>3. InSequence(scan.ranges, ascending)
      <4>1. r[1] <= r[2] + 1 /\ \A j \in 1 .. Len(last.ranges) : r[2] < last.ranges[j][1]
        BY <2>4, <2>6, <3>1
      <4>2. InSequence(Append(last.ranges, r), last.ascending)
        BY <2>4, <3>1, <4>1, LastAdded
      <4>3. last.ascending = ascending
        BY <1>7, <2>4 DEF Iterators
      <4> QED BY <3>1, <4>2, <4>3
    <3>4. \A x \in lo .. hi : x \in e + 1 .. hi \/ x \in lo .. e
      BY <1>4, <2>4
    <3>5. \A x \in Covered(scan.ranges) : x = 0 \/ x \notin Present(list)
      BY <2>4, <2>6, <3>2 DEF FoundRight
    <3>6. scan.events \subseteq Present(list)
      BY <2>4, <3>1 DEF FoundRight
    <3> QED BY <2>4, <3>2, <3>3, <3>4, <3>5, <3>6
  <2> QED BY <2>5, <2>6
<1> QED BY <1>6, <1>7 DEF lo, hi, range, scan

\* Sorted ranges are the same ranges, each before the next.
LEMMA SortedIs ==
    ASSUME NEW ranges \in Seq(Ranges), NEW ascending \in BOOLEAN, InSequence(ranges, ascending)
    PROVE  /\ Sorted(ranges) \in Seq(Ranges)
           /\ Covered(Sorted(ranges)) = Covered(ranges)
           /\ \A j, k \in 1 .. Len(Sorted(ranges)) :
                 j < k => Sorted(ranges)[j][2] < Sorted(ranges)[k][1]
<1> DEFINE n == Len(ranges)
           In(s) == /\ ToSet(s) = ToSet(ranges)
                    /\ \A j, k \in DOMAIN s : j < k => Before(s[j], s[k])
<1>1. n \in Nat /\ DOMAIN ranges = 1 .. n /\ \A j \in 1 .. n : ranges[j] \in Ranges
  OBVIOUS
<1>2. \E s \in [DOMAIN ranges -> ToSet(ranges)] : In(s)
  <2>1. CASE ascending
    <3>1. ranges \in [DOMAIN ranges -> ToSet(ranges)]
      BY <1>1 DEF ToSet
    <3>2. \A j, k \in 1 .. n : j < k => Before(ranges[j], ranges[k])
      BY <2>1 DEF InSequence, Precedes
    <3> QED BY <1>1, <3>1, <3>2
  <2>2. CASE ~ascending
    <3> DEFINE s == [k \in 1 .. n |-> ranges[(n + 1) - k]]
    <3>1. \A k \in 1 .. n : (n + 1) - k \in 1 .. n /\ (n + 1) - ((n + 1) - k) = k
      BY <1>1
    <3>2. DOMAIN s = 1 .. n /\ \A k \in 1 .. n : s[k] = ranges[(n + 1) - k]
      OBVIOUS
    <3>3. s \in [DOMAIN ranges -> ToSet(ranges)]
      BY <1>1, <3>1 DEF ToSet
    <3> HIDE DEF s, n
    <3>4. ToSet(s) = ToSet(ranges)
      <4>1. ToSet(s) = {s[k] : k \in 1 .. n} /\ ToSet(ranges) = {ranges[k] : k \in 1 .. n}
        BY <1>1, <3>2 DEF ToSet
      <4>2. ASSUME NEW k \in 1 .. n PROVE s[k] \in ToSet(ranges) /\ ranges[k] \in ToSet(s)
        <5>1. s[(n + 1) - k] = ranges[k]
          BY <3>1, <3>2
        <5> QED BY <3>1, <3>2, <4>1, <5>1
      <4> QED BY <4>1, <4>2
    <3>5. ASSUME NEW j \in 1 .. n, NEW k \in 1 .. n, j < k PROVE Before(s[j], s[k])
      <4> DEFINE a == (n + 1) - j
                 b == (n + 1) - k
      <4>1. a \in 1 .. n /\ b \in 1 .. n /\ b < a
        BY <1>1, <3>5
      <4>2. s[j] = ranges[a] /\ s[k] = ranges[b]
        BY <3>2
      <4> HIDE DEF a, b
      <4> QED BY <2>2, <4>1, <4>2 DEF InSequence, Precedes, n
    <3> QED BY <1>1, <3>2, <3>3, <3>4, <3>5
  <2> QED BY <2>1, <2>2
<1> DEFINE s == Sorted(ranges)
<1>3. s \in [DOMAIN ranges -> ToSet(ranges)] /\ In(s)
  <2>1. s = CHOOSE x \in [DOMAIN ranges -> ToSet(ranges)] : In(x)
    BY Zenon DEF Sorted
  <2> HIDE DEF In, s
  <2> QED BY <1>2, <2>1
<1> HIDE DEF s, n
<1>4. DOMAIN s = 1 .. n /\ \A k \in 1 .. n : \E j \in 1 .. n : s[k] = ranges[j]
  BY <1>1, <1>3 DEF ToSet
<1>5. \A k \in 1 .. n : \E j \in 1 .. n : ranges[k] = s[j]
  <2> SUFFICES ASSUME NEW k \in 1 .. n PROVE \E j \in 1 .. n : ranges[k] = s[j]
    OBVIOUS
  <2>1. ranges[k] \in ToSet(s)
    BY <1>1, <1>3 DEF ToSet
  <2> QED BY <1>4, <2>1 DEF ToSet
<1>6. s \in Seq(Ranges) /\ Len(s) = n
  <2>1. s \in [1 .. n -> Ranges]
    BY <1>1, <1>3, <1>4
  <2> QED BY <1>1, <2>1
<1>7. Covered(s) = Covered(ranges)
  <2>1. ASSUME NEW x, x \in Covered(s) PROVE x \in Covered(ranges)
    <3>1. PICK k \in 1 .. n : x \in s[k][1] .. s[k][2]
      BY <1>4, <2>1 DEF Covered
    <3>2. PICK j \in 1 .. n : s[k] = ranges[j]
      BY <1>4
    <3> QED BY <1>1, <3>1, <3>2 DEF Covered
  <2>2. ASSUME NEW x, x \in Covered(ranges) PROVE x \in Covered(s)
    <3>1. PICK k \in 1 .. n : x \in ranges[k][1] .. ranges[k][2]
      BY <1>1, <2>2 DEF Covered
    <3>2. PICK j \in 1 .. n : ranges[k] = s[j]
      BY <1>5
    <3> QED BY <1>4, <3>1, <3>2 DEF Covered
  <2> QED BY <2>1, <2>2
<1>8. ASSUME NEW j \in 1 .. n, NEW k \in 1 .. n, j < k PROVE s[j][2] < s[k][1]
  <2>1. PICK a \in 1 .. n : s[j] = ranges[a]
    BY <1>4
  <2>2. PICK b \in 1 .. n : s[k] = ranges[b]
    BY <1>4
  <2>3. Before(s[j], s[k])
    BY <1>3, <1>4, <1>8
  <2>4. s[j] \in Ranges /\ s[k] \in Ranges
    BY <1>1, <2>1, <2>2
  <2>5. ~Before(s[k], s[j]) /\ s[j] # s[k]
    BY <2>3, <2>4 DEF Before, Ranges
  <2>6. a < b \/ b < a
    BY <1>1, <2>1, <2>2, <2>5
  <2>7. Precedes(s[j], s[k]) \/ Precedes(s[k], s[j])
    BY <2>1, <2>2, <2>6 DEF InSequence, n
  <2> QED BY <2>5, <2>7 DEF Precedes
<1> QED BY <1>6, <1>7, <1>8 DEF s

-----------------------------------------------------------------------------
(* Ranges of messages *)

\* Later messages have later events.
MessagesOrdered(list) ==
    \A j, k \in 1 .. Len(list.messages) : j < k => list.messages[j] < list.messages[k]

\* A set of numbers that has all smaller ones is told by how many it has.
LEMMA Prefix ==
    ASSUME NEW n \in Nat, NEW S, S \subseteq 1 .. n, \A m \in S : \A k \in 1 .. m : k \in S
    PROVE  /\ Cardinality(S) \in 0 .. n
           /\ S = 1 .. Cardinality(S)
<1>1. CASE S = {}
  BY <1>1, FS_EmptySet
<1>2. CASE S # {}
  <2>1. S \subseteq 0 .. (n + 1) - 1 /\ n + 1 \in Nat
    OBVIOUS
  <2>2. PICK x \in S : \A i \in S : i <= x
    BY <1>2, <2>1, Greatest
  <2>3. S = 1 .. x /\ x \in 1 .. n
    <3>1. \A i \in S : i \in 1 .. x
      BY <2>2
    <3> QED BY <2>2, <3>1
  <2>4. Cardinality(1 .. x) = x
    <3>1. 1 <= x /\ 1 \in Int /\ x \in Int
      BY <2>3
    <3>2. Cardinality(1 .. x) = (x - 1) + 1
      BY <3>1, FS_Interval
    <3> QED BY <3>1, <3>2
  <2> QED BY <2>3, <2>4
<1> QED BY <1>1, <1>2

\* partition_point finds the messages before a point.
Pairs == Int \X Int
LEMMA MessageRangeIs ==
    ASSUME NEW list \in Lists, MessagesOrdered(list), NEW r \in Ranges
    PROVE  LET range == MessageRange(list, r)
               n == Len(list.messages)
           IN  /\ range \in Pairs
               /\ range[1] \in 0 .. n /\ range[2] \in -1 .. n - 1
               /\ \A m \in 0 .. n - 1 : /\ m < range[1] <=> list.messages[m + 1] < r[1]
                                        /\ m <= range[2] <=> list.messages[m + 1] <= r[2]
<1> DEFINE n == Len(list.messages)
           below == {m \in 1 .. n : list.messages[m] < r[1]}
           upto == {m \in 1 .. n : list.messages[m] <= r[2]}
<1>1. /\ list.messages \in Seq(Nat) /\ n \in Nat /\ DOMAIN list.messages = 1 .. n
      /\ \A m \in 1 .. n : list.messages[m] \in Nat
      /\ r[1] \in Nat /\ r[2] \in Nat
  BY DEF Lists, Ranges
<1>2. \A m \in 1 .. n : \A k \in 1 .. m :
          k \in 1 .. n /\ list.messages[k] <= list.messages[m]
  <2> SUFFICES ASSUME NEW m \in 1 .. n, NEW k \in 1 .. m
               PROVE  k \in 1 .. n /\ list.messages[k] <= list.messages[m]
    OBVIOUS
  <2>1. k \in 1 .. n
    BY <1>1
  <2>2. CASE k = m
    BY <1>1, <2>2
  <2>3. CASE k < m
    <3>1. list.messages[k] < list.messages[m]
      BY <2>1, <2>3, Zenon DEF MessagesOrdered
    <3>2. list.messages[k] \in Nat /\ list.messages[m] \in Nat
      BY <1>1, <2>1
    <3> QED BY <2>1, <3>1, <3>2
  <2>4. n \in Nat /\ (k = m \/ k < m)
    BY <1>1
  <2> QED BY <2>1, <2>2, <2>3, <2>4
<1>3. MessageRange(list, r) = <<Cardinality(below), Cardinality(upto) - 1>>
  BY <1>1 DEF MessageRange
<1>4. Cardinality(below) \in 0 .. n /\ below = 1 .. Cardinality(below)
  <2>1. ASSUME NEW m \in below, NEW k \in 1 .. m PROVE k \in below
    <3>1. m \in 1 .. n /\ list.messages[m] < r[1]
      OBVIOUS
    <3>2. k \in 1 .. n /\ list.messages[k] <= list.messages[m]
      BY <1>2, <3>1
    <3>3. list.messages[k] \in Nat /\ list.messages[m] \in Nat
      BY <1>1, <3>1, <3>2
    <3>4. list.messages[k] < r[1]
      <4> DEFINE x == list.messages[k]
                 y == list.messages[m]
      <4>1. x \in Nat /\ y \in Nat /\ r[1] \in Nat /\ x <= y /\ y < r[1]
        BY <1>1, <3>1, <3>2, <3>3
      <4> HIDE DEF x, y
      <4>2. x < r[1]
        BY <4>1
      <4> QED BY <4>2 DEF x
    <3> QED BY <3>2, <3>4
  <2>2. below \subseteq 1 .. n
    OBVIOUS
  <2> HIDE DEF below, n
  <2> QED BY <1>1, <2>1, <2>2, Prefix
<1>5. Cardinality(upto) \in 0 .. n /\ upto = 1 .. Cardinality(upto)
  <2>1. ASSUME NEW m \in upto, NEW k \in 1 .. m PROVE k \in upto
    <3>1. m \in 1 .. n /\ list.messages[m] <= r[2]
      OBVIOUS
    <3>2. k \in 1 .. n /\ list.messages[k] <= list.messages[m]
      BY <1>2, <3>1
    <3>3. list.messages[k] \in Nat /\ list.messages[m] \in Nat
      BY <1>1, <3>1, <3>2
    <3>4. list.messages[k] <= r[2]
      <4> DEFINE x == list.messages[k]
                 y == list.messages[m]
      <4>1. x \in Nat /\ y \in Nat /\ r[2] \in Nat /\ x <= y /\ y <= r[2]
        BY <1>1, <3>1, <3>2, <3>3
      <4> HIDE DEF x, y
      <4>2. x <= r[2]
        BY <4>1
      <4> QED BY <4>2 DEF x
    <3> QED BY <3>2, <3>4
  <2>2. upto \subseteq 1 .. n
    OBVIOUS
  <2> HIDE DEF upto, n
  <2> QED BY <1>1, <2>1, <2>2, Prefix
<1> DEFINE a == Cardinality(below)
           b == Cardinality(upto)
<1>6. a \in 0 .. n /\ b \in 0 .. n /\ MessageRange(list, r) = <<a, b - 1>>
  BY <1>3, <1>4, <1>5
<1>7. ASSUME NEW m \in 0 .. n - 1
      PROVE  /\ m < a <=> list.messages[m + 1] < r[1]
             /\ m <= b - 1 <=> list.messages[m + 1] <= r[2]
  <2>1. m + 1 \in 1 .. n
    BY <1>1
  <2>2. /\ m + 1 \in 1 .. a <=> list.messages[m + 1] < r[1]
        /\ m + 1 \in 1 .. b <=> list.messages[m + 1] <= r[2]
    BY <1>4, <1>5, <2>1
  <2> HIDE DEF a, b
  <2> QED BY <1>6, <2>1, <2>2
<1> HIDE DEF a, b, n
<1>8. <<a, b - 1>> \in Pairs /\ a \in 0 .. n /\ b - 1 \in -1 .. n - 1
  BY <1>1, <1>6 DEF Pairs
<1>9. MessageRange(list, r)[1] = a /\ MessageRange(list, r)[2] = b - 1
  BY <1>6
<1> QED BY <1>6, <1>7, <1>8, <1>9, Zenon DEF n

\* What a joined sequence of ranges covers, and its last range.
LEMMA JoinedIs ==
    ASSUME NEW ranges \in Seq(Pairs), NEW r \in Pairs,
           ranges # <<>> => /\ ranges[Len(ranges)][1] <= ranges[Len(ranges)][2]
                            /\ ranges[Len(ranges)][2] < r[1]
    PROVE  LET new == Joined(ranges, r)
           IN  /\ new \in Seq(Pairs)
               /\ Covered(new) = Covered(ranges) \cup (r[1] .. r[2])
               /\ new # <<>> => /\ new[Len(new)][1] <= new[Len(new)][2]
                                /\ new[Len(new)][2] \in Covered(new)
<1> DEFINE new == Joined(ranges, r)
           n == Len(ranges)
<1>1. /\ n \in Nat /\ DOMAIN ranges = 1 .. n /\ r[1] \in Int /\ r[2] \in Int
      /\ \A j \in 1 .. n : ranges[j] \in Pairs
      /\ ranges # <<>> => n \in 1 .. n
  BY DEF Pairs
<1>2. \A s \in Seq(Pairs) : \A x :
          x \in Covered(s) <=> \E j \in 1 .. Len(s) : x \in s[j][1] .. s[j][2]
  <2> SUFFICES ASSUME NEW s \in Seq(Pairs), NEW x
               PROVE  x \in Covered(s) <=> \E j \in 1 .. Len(s) : x \in s[j][1] .. s[j][2]
    OBVIOUS
  <2>1. DOMAIN s = 1 .. Len(s)
    OBVIOUS
  <2> QED BY <2>1, Zenon DEF Covered
<1>3. CASE r[2] < r[1]
  <2>1. new = ranges /\ r[1] .. r[2] = {}
    BY <1>1, <1>3 DEF Joined
  <2>2. ASSUME ranges # <<>> PROVE ranges[n][2] \in Covered(ranges)
    <3>1. ranges[n][2] \in ranges[n][1] .. ranges[n][2]
      BY <1>1, <2>2 DEF Pairs
    <3> QED BY <1>1, <1>2, <2>2, <3>1
  <2> HIDE DEF new
  <2>3. /\ new \in Seq(Pairs)
        /\ Covered(new) = Covered(ranges) \cup (r[1] .. r[2])
    BY <2>1
  <2> QED BY <2>1, <2>2, <2>3 DEF n, new
<1>4. CASE ~(r[2] < r[1]) /\ ranges # <<>> /\ ranges[n][2] + 1 >= r[1]
  <2> DEFINE z == ranges[n]
             last == <<z[1], r[2]>>
  <2>1. /\ z \in Pairs /\ z[1] \in Int /\ z[2] \in Int /\ z[1] <= z[2]
        /\ z[2] + 1 = r[1] /\ r[1] <= r[2]
    BY <1>1, <1>4 DEF Pairs
  <2>2. new = [ranges EXCEPT ![n] = [@ EXCEPT ![2] = r[2]]]
    BY <1>4 DEF Joined
  <2>3. [z EXCEPT ![2] = r[2]] = last
    <3>1. z = <<z[1], z[2]>>
      BY <2>1 DEF Pairs
    <3> HIDE DEF z
    <3> QED BY <3>1
  <2>4. last \in Pairs /\ last[1] = z[1] /\ last[2] = r[2]
    BY <1>1, <2>1 DEF Pairs
  <2> HIDE DEF last, new
  <2>5. new = [ranges EXCEPT ![n] = last]
    BY <2>2, <2>3
  <2>6. /\ new \in Seq(Pairs) /\ Len(new) = n /\ new[n] = last
        /\ \A j \in 1 .. n : j # n => new[j] = ranges[j]
    <3> HIDE DEF n, z
    <3>1. new \in [1 .. n -> Pairs]
      BY <1>1, <2>4, <2>5
    <3>2. new \in Seq(Pairs) /\ Len(new) = n
      BY <1>1, <3>1
    <3>3. new[n] = last /\ \A j \in 1 .. n : j # n => new[j] = ranges[j]
      BY <1>1, <1>4, <2>5
    <3> QED BY <3>2, <3>3
  <2> HIDE DEF n
  <2>7. ASSUME NEW x PROVE x \in Covered(new) <=> x \in Covered(ranges) \/ x \in r[1] .. r[2]
    <3>1. x \in last[1] .. last[2] <=> x \in z[1] .. z[2] \/ x \in r[1] .. r[2]
      BY <1>1, <2>1, <2>4
    <3>2. x \in Covered(new) <=> \E j \in 1 .. n : x \in new[j][1] .. new[j][2]
      BY <1>2, <2>6
    <3>3. x \in Covered(ranges) <=> \E j \in 1 .. n : x \in ranges[j][1] .. ranges[j][2]
      BY <1>2 DEF n
    <3>4. n \in 1 .. n
      BY <1>1, <1>4
    <3> QED BY <2>6, <3>1, <3>2, <3>3, <3>4, Zenon
  <2>8. /\ new[Len(new)][1] <= new[Len(new)][2]
        /\ new[Len(new)][2] \in Covered(new)
    <3>1. last[1] <= last[2] /\ r[2] \in r[1] .. r[2]
      BY <1>1, <2>1, <2>4
    <3> QED BY <2>4, <2>6, <2>7, <3>1
  <2>9. Covered(new) = Covered(ranges) \cup (r[1] .. r[2])
    BY <2>7
  <2> QED BY <2>6, <2>8, <2>9 DEF new
<1>5. CASE ~(r[2] < r[1]) /\ ~(ranges # <<>> /\ ranges[n][2] + 1 >= r[1])
  <2>1. new = Append(ranges, r)
    BY <1>5 DEF Joined
  <2> HIDE DEF new, n
  <2>2. /\ new \in Seq(Pairs) /\ Len(new) = n + 1 /\ new[n + 1] = r
        /\ \A j \in 1 .. n : new[j] = ranges[j]
    BY <2>1 DEF n
  <2>3. ASSUME NEW x PROVE x \in Covered(new) <=> x \in Covered(ranges) \/ x \in r[1] .. r[2]
    <3>1. x \in Covered(new) <=> \E j \in 1 .. n + 1 : x \in new[j][1] .. new[j][2]
      BY <1>2, <2>2
    <3>2. x \in Covered(ranges) <=> \E j \in 1 .. n : x \in ranges[j][1] .. ranges[j][2]
      BY <1>2 DEF n
    <3>3. \A j : j \in 1 .. n + 1 <=> j \in 1 .. n \/ j = n + 1
      BY <1>1
    <3> QED BY <2>2, <3>1, <3>2, <3>3, Zenon
  <2>4. r[1] <= r[2] /\ r[2] \in r[1] .. r[2]
    BY <1>1, <1>5
  <2>5. Covered(new) = Covered(ranges) \cup (r[1] .. r[2])
    BY <2>3
  <2> QED BY <2>2, <2>3, <2>4, <2>5 DEF new
<1> QED BY <1>3, <1>4, <1>5 DEF n

\* Each value of Joining comes from the one before.
LEMMA JoiningIs ==
    ASSUME NEW list \in Lists, MessagesOrdered(list), NEW ranges \in Seq(Ranges)
    PROVE  LET joined == Joining(list, ranges)
           IN  /\ joined[0] = <<>>
               /\ \A k \in 1 .. Len(ranges) :
                     joined[k] = Joined(joined[k - 1], MessageRange(list, ranges[k]))
<1> DEFINE n == Len(ranges)
           S == Seq(Pairs)
           Step(c, k) == Joined(c, MessageRange(list, ranges[k]))
           step == [z \in S \X (1 .. n) |-> Step(z[1], z[2])]
           Next_(g) == [k \in 0 .. n |-> IF k = 0 THEN <<>> ELSE Step(g[k - 1], k)]
<1>1. n \in Nat /\ <<>> \in S
  OBVIOUS
<1>2. step \in [S \X (1 .. n) -> S]
  <2> SUFFICES ASSUME NEW c \in S, NEW k \in 1 .. n PROVE Step(c, k) \in S
    <3> HIDE DEF S, Step, n
    <3> QED OBVIOUS
  <2> DEFINE r == MessageRange(list, ranges[k])
  <2>1. r \in Pairs
    <3>1. ranges[k] \in Ranges
      OBVIOUS
    <3> QED BY <3>1, MessageRangeIs
  <2> HIDE DEF r
  <2>2. CASE r[2] < r[1]
    BY <2>2 DEF Joined, r
  <2>3. CASE ~(r[2] < r[1]) /\ c # <<>> /\ c[Len(c)][2] + 1 >= r[1]
    <3> DEFINE m == Len(c)
               z == [c[m] EXCEPT ![2] = r[2]]
    <3>1. m \in 1 .. m /\ m \in Nat /\ c[m] \in Pairs /\ c \in [1 .. m -> Pairs]
      BY <2>3
    <3>2. z \in Pairs
      <4>1. c[m] = <<c[m][1], c[m][2]>> /\ c[m][1] \in Int /\ r[2] \in Int
        BY <2>1, <3>1 DEF Pairs
      <4> HIDE DEF m
      <4>2. z = <<c[m][1], r[2]>>
        BY <4>1
      <4> QED BY <4>1, <4>2 DEF Pairs
    <3>3. Step(c, k) = [c EXCEPT ![m] = z]
      BY <2>3 DEF Joined, r
    <3> HIDE DEF z, m, Step
    <3>4. Step(c, k) \in [1 .. m -> Pairs]
      BY <3>1, <3>2, <3>3
    <3> QED BY <3>1, <3>4
  <2>4. CASE ~(r[2] < r[1]) /\ ~(c # <<>> /\ c[Len(c)][2] + 1 >= r[1])
    <3>1. Step(c, k) = Append(c, r)
      BY <2>4 DEF Joined, r
    <3> QED BY <2>1, <3>1
  <2> QED BY <2>2, <2>3, <2>4
<1> HIDE DEF S, n, Step
<1>3. PICK f \in [0 .. n -> S] : Follows(f, n, <<>>, step)
  <2> HIDE DEF step
  <2> QED BY <1>1, <1>2, RecursionExists
<1>4. f = Next_(f)
  <2>1. ASSUME NEW k \in 1 .. n PROVE f[k] = Step(f[k - 1], k)
    <3>1. <<f[k - 1], k>> \in S \X (1 .. n)
      BY <1>1
    <3> QED BY <1>3, <3>1 DEF Follows
  <2> HIDE DEF step
  <2> QED BY <1>1, <1>3, <2>1 DEF Follows
<1>5. Joining(list, ranges) = CHOOSE g : g = Next_(g)
  BY DEF Joining, n, Step
<1>6. Joining(list, ranges) = Next_(Joining(list, ranges))
  <2> HIDE DEF Next_
  <2> QED BY <1>4, <1>5
<1> HIDE DEF step
<1>7. /\ Joining(list, ranges)[0] = <<>>
      /\ \A k \in 1 .. n : Joining(list, ranges)[k] = Step(Joining(list, ranges)[k - 1], k)
  BY <1>1, <1>6
<1> QED BY <1>7 DEF n, Step

\* The ranges of messages are those of the messages whose events are covered.
LEMMA MessageRangesCover ==
    ASSUME NEW list \in Lists, MessagesOrdered(list), NEW ranges \in Seq(Ranges),
           \A j, k \in 1 .. Len(ranges) : j < k => ranges[j][2] < ranges[k][1]
    PROVE  Covered(MessageRanges(list, ranges))
             = {m \in 0 .. NextMessageIndex(list) - 1 : EventIndexOf(list, m) \in Covered(ranges)}
<1> DEFINE n == Len(ranges)
           L == Len(list.messages)
           joined == Joining(list, ranges)
           In(m, k) == \E j \in 1 .. k : list.messages[m + 1] \in ranges[j][1] .. ranges[j][2]
           Good(k, c) == /\ c \in Seq(Pairs)
                         /\ \A x : x \in Covered(c) <=> x \in 0 .. L - 1 /\ In(x, k)
                         /\ c # <<>> => /\ c[Len(c)][1] <= c[Len(c)][2]
                                        /\ c[Len(c)][2] \in Covered(c)
           S == {k \in 0 .. n : Good(k, joined[k])}
<1>1. /\ n \in Nat /\ L \in Nat /\ DOMAIN ranges = 1 .. n /\ \A j \in 1 .. n : ranges[j] \in Ranges
      /\ \A m \in 0 .. L - 1 : m + 1 \in 1 .. L /\ list.messages[m + 1] \in Nat
  BY DEF Lists
<1>2. /\ joined[0] = <<>>
      /\ \A k \in 1 .. n : joined[k] = Joined(joined[k - 1], MessageRange(list, ranges[k]))
  BY JoiningIs
<1> HIDE DEF joined, n, L
<1>3. 0 \in S
  <2>1. Covered(<<>>) = {} /\ <<>> \in Seq(Pairs)
    BY DEF Covered
  <2>2. \A x : ~In(x, 0)
    OBVIOUS
  <2>3. Good(0, joined[0])
    <3> HIDE DEF In
    <3> QED BY <1>2, <2>1, <2>2
  <2>4. 0 \in 0 .. n
    BY <1>1
  <2> HIDE DEF Good
  <2> QED BY <2>3, <2>4
<1>4. ASSUME NEW k \in 0 .. n - 1, k \in S PROVE k + 1 \in S
  <2> DEFINE r == ranges[k + 1]
             mr == MessageRange(list, r)
             c == joined[k]
             new == joined[k + 1]
  <2>1. /\ k + 1 \in 1 .. n /\ (k + 1) - 1 = k /\ k + 1 \in 0 .. n
        /\ \A j : j \in 1 .. k + 1 <=> j \in 1 .. k \/ j = k + 1
        /\ \A j \in 1 .. k : j \in 1 .. n /\ j < k + 1
    BY <1>1
  <2>2. new = Joined(c, mr)
    BY <1>2, <2>1
  <2>3. r \in Ranges /\ r[1] \in Nat /\ r[2] \in Nat
    BY <1>1, <2>1 DEF Ranges
  <2>4. /\ mr \in Pairs /\ mr[1] \in 0 .. L /\ mr[2] \in -1 .. L - 1
        /\ \A m \in 0 .. L - 1 : /\ m < mr[1] <=> list.messages[m + 1] < r[1]
                                 /\ m <= mr[2] <=> list.messages[m + 1] <= r[2]
    BY <2>3, MessageRangeIs DEF L
  <2>5. /\ c \in Seq(Pairs)
        /\ \A x : x \in Covered(c) <=> x \in 0 .. L - 1 /\ In(x, k)
        /\ c # <<>> => c[Len(c)][1] <= c[Len(c)][2] /\ c[Len(c)][2] \in Covered(c)
    BY <1>4
  <2> HIDE DEF mr, c, new, r
  <2>6. ASSUME c # <<>> PROVE c[Len(c)][2] < mr[1]
    <3> DEFINE x == c[Len(c)][2]
    <3>1. x \in 0 .. L - 1 /\ In(x, k)
      BY <2>5, <2>6
    <3> HIDE DEF x
    <3>2. PICK j \in 1 .. k : list.messages[x + 1] \in ranges[j][1] .. ranges[j][2]
      BY <3>1
    <3>3. ranges[j][2] < r[1]
      BY <2>1 DEF n, r
    <3>4. ranges[j][1] \in Nat /\ ranges[j][2] \in Nat
      BY <1>1, <2>1 DEF Ranges
    <3>5. list.messages[x + 1] < r[1]
      BY <1>1, <2>3, <3>1, <3>2, <3>3, <3>4
    <3>6. x < mr[1]
      BY <2>4, <3>1, <3>5
    <3> QED BY <3>6 DEF x
  <2>7. /\ new \in Seq(Pairs)
        /\ Covered(new) = Covered(c) \cup (mr[1] .. mr[2])
        /\ new # <<>> => /\ new[Len(new)][1] <= new[Len(new)][2]
                         /\ new[Len(new)][2] \in Covered(new)
    BY <2>2, <2>4, <2>5, <2>6, JoinedIs
  <2>8. ASSUME NEW x
        PROVE  x \in mr[1] .. mr[2]
                   <=> x \in 0 .. L - 1 /\ list.messages[x + 1] \in r[1] .. r[2]
    <3>1. x \in mr[1] .. mr[2] => x \in 0 .. L - 1
      BY <1>1, <2>4
    <3>2. ASSUME x \in 0 .. L - 1
          PROVE  x \in mr[1] .. mr[2] <=> list.messages[x + 1] \in r[1] .. r[2]
      <4>1. list.messages[x + 1] \in Nat /\ x \in Nat
        BY <1>1, <3>2
      <4>2. /\ x < mr[1] <=> list.messages[x + 1] < r[1]
            /\ x <= mr[2] <=> list.messages[x + 1] <= r[2]
        BY <2>4, <3>2
      <4>3. mr[1] \in Int /\ mr[2] \in Int
        BY <2>4 DEF Pairs
      <4> QED BY <2>3, <4>1, <4>2, <4>3
    <3> QED BY <3>1, <3>2
  <2>9. \A x : x \in Covered(new) <=> x \in 0 .. L - 1 /\ In(x, k + 1)
    <3> SUFFICES ASSUME NEW x PROVE x \in Covered(new) <=> x \in 0 .. L - 1 /\ In(x, k + 1)
      OBVIOUS
    <3>1. In(x, k + 1) <=> In(x, k) \/ list.messages[x + 1] \in r[1] .. r[2]
      BY <2>1, Zenon DEF r
    <3> HIDE DEF In
    <3> QED BY <2>5, <2>7, <2>8, <3>1
  <2>10. Good(k + 1, new)
    BY <2>7, <2>9
  <2> HIDE DEF Good
  <2> QED BY <2>1, <2>10 DEF new
<1>5. Good(n, joined[n])
  <2>1. n \in S
    <3> HIDE DEF S
    <3>1. n \in Nat /\ n \in 0 .. n
      BY <1>1
    <3>2. 0 .. n \subseteq S
      BY <1>3, <1>4, <3>1, Induction
    <3> QED BY <3>1, <3>2
  <2> QED BY <2>1
<1>6. \A x : In(x, n) <=> list.messages[x + 1] \in Covered(ranges)
  BY <1>1, Zenon DEF Covered
<1> HIDE DEF In
<1> QED BY <1>5, <1>6 DEF MessageRanges, joined, n, L, NextMessageIndex, EventIndexOf

-----------------------------------------------------------------------------
(* What clients are told of expired events *)

\* The messages are in the order of their events.
OrderInv == MessagesOrdered(main)

\* A message that is pushed has a later event than all before it.
LEMMA NextKeepsOrder ==
    ASSUME ListInv, OrderInv, [Next]_vars
    PROVE  OrderInv'
<1>1. main \in Lists
  BY DEF ListInv, ListSound
<1>2. ASSUME main' = main PROVE OrderInv'
  BY <1>2 DEF OrderInv
<1>3. ASSUME NEW event, PushedMain(event) PROVE OrderInv'
  <2> DEFINE n == NextEventIndex(main)
             k == Len(main.messages)
  <2>1. /\ n \in Nat /\ k \in Nat /\ main.messages \in Seq(Nat)
        /\ main'.messages = IF event.kind = "message" THEN Append(main.messages, n)
                            ELSE main.messages
    <3>1. main' = Pushed(main, event) /\ event \in Events
      BY <1>3 DEF PushedMain
    <3> QED BY <1>1, <3>1 DEF Pushed, Lists, NextEventIndex
  <2>2. \A m \in 1 .. k : main.messages[m] \in Nat /\ main.messages[m] < n
    <3> SUFFICES ASSUME NEW m \in 1 .. k PROVE main.messages[m] \in Nat /\ main.messages[m] < n
      OBVIOUS
    <3>1. m - 1 \in 0 .. k - 1 /\ (m - 1) + 1 = m
      BY <2>1
    <3>2. EventIndexOf(main, m - 1) \in 0 .. n - 1
      BY <3>1 DEF ListInv, ListSound, NextMessageIndex, Indexes, LatestEventIndex, NextEventIndex
    <3>3. main.messages[m] \in 0 .. n - 1
      BY <3>1, <3>2 DEF EventIndexOf
    <3> QED BY <2>1, <3>3
  <2> HIDE DEF n
  <2>3. CASE event.kind = "message"
    <3>1. /\ Len(main'.messages) = k + 1 /\ main'.messages[k + 1] = n
          /\ \A m \in 1 .. k : main'.messages[m] = main.messages[m]
      BY <2>1, <2>3
    <3> SUFFICES ASSUME NEW i \in 1 .. k + 1, NEW j \in 1 .. k + 1, i < j
                 PROVE  main'.messages[i] < main'.messages[j]
      BY <3>1 DEF OrderInv, MessagesOrdered
    <3>2. i \in 1 .. k /\ (j \in 1 .. k \/ j = k + 1)
      BY <2>1
    <3>3. CASE j \in 1 .. k
      BY <3>1, <3>2, <3>3 DEF OrderInv, MessagesOrdered
    <3>4. CASE j = k + 1
      BY <2>2, <3>1, <3>2, <3>4
    <3> QED BY <3>2, <3>3, <3>4
  <2>4. CASE event.kind # "message"
    BY <2>1, <2>4 DEF OrderInv, MessagesOrdered
  <2> QED BY <2>3, <2>4
<1>4. ASSUME NEW job \in jobs, RemoveExpiredEvents(job) PROVE OrderInv'
  <2>1. main'.messages = main.messages
    BY <1>1, <1>4 DEF RemoveExpiredEvents, Removed, Lists
  <2> QED BY <2>1 DEF OrderInv, MessagesOrdered
<1>5. CASE UNCHANGED vars
  BY <1>2, <1>5 DEF vars
<1> QED BY <1>2, <1>3, <1>4, <1>5, StepsOfTheList

\* A new chat has no messages.
LEMMA InitOrder == Init => OrderInv
<1> SUFFICES ASSUME Init PROVE OrderInv
  OBVIOUS
<1>1. main.messages = <<>>
  BY DEF Init, Pushed, EmptyList
<1>2. \A j : ~(j \in 1 .. Len(main.messages))
  BY <1>1
<1> QED BY <1>2 DEF OrderInv, MessagesOrdered

\* Clients learn of all that has expired in the part they scan, and of nothing
\* else, as events and as messages.
THEOREM ExpiredRangesAreReported == Spec => []ExpiredRangesAreCorrect
<1>1. OrderInv /\ ListInv /\ [Next]_vars => OrderInv'
  BY NextKeepsOrder
<1>2. ListInv /\ OrderInv /\ MembersInv => ExpiredRangesAreCorrect
  <2> SUFFICES ASSUME ListInv, OrderInv, MembersInv,
                      NEW u \in DOMAIN members, NEW ascending \in BOOLEAN,
                      NEW start \in MinVisible(u) .. LatestEventIndex(main)
               PROVE  ExpiredReported(Scan(main, start, ascending, MinVisible(u)),
                                      Scanned(start, ascending, MinVisible(u)))
    BY DEF ExpiredRangesAreCorrect
  <2> DEFINE min_visible == MinVisible(u)
             scan == Scan(main, start, ascending, min_visible)
             range == ScanRange(main, start, ascending, min_visible)
             ranges == Sorted(scan.ranges)
  <2>1. main \in Lists /\ MessagesOrdered(main) /\ LatestEventIndex(main) \in Int
    BY DEF ListInv, ListSound, OrderInv, LatestEventIndex, Lists
  <2>2. min_visible \in Nat
    BY DEF MinVisible, MembersInv, MemberRecords
  <2>3. start \in Indexes(main) /\ min_visible \in 0 .. start
    <3> HIDE DEF min_visible
    <3>1. start \in min_visible .. LatestEventIndex(main)
      BY DEF min_visible
    <3> QED BY <2>1, <2>2, <3>1 DEF Indexes
  <2> HIDE DEF min_visible
  <2>4. /\ scan.events \subseteq Present(main)
        /\ scan.ranges \in Seq(Ranges)
        /\ \A x \in range[1] .. range[2] : x \in Present(main) \/ x \in Covered(scan.ranges)
        /\ \A x \in Covered(scan.ranges) : x = 0 \/ x \notin Present(main)
        /\ InSequence(scan.ranges, ascending)
    BY <2>1, <2>3, ScanFinds
  <2> HIDE DEF scan, range
  <2>5. /\ ranges \in Seq(Ranges) /\ Covered(ranges) = Covered(scan.ranges)
        /\ \A j, k \in 1 .. Len(ranges) : j < k => ranges[j][2] < ranges[k][1]
    BY <2>4, SortedIs
  <2> HIDE DEF ranges
  <2>6. Covered(MessageRanges(main, ranges))
            = {m \in MessageIndexes : EventIndexOf(main, m) \in Covered(ranges)}
    BY <2>1, <2>5, MessageRangesCover DEF MessageIndexes
  <2>7. main.gone \cap (range[1] .. range[2]) \subseteq Covered(ranges)
    BY <2>4, <2>5 DEF Present
  <2>8. Covered(ranges) \cap Present(main) \subseteq {0}
    BY <2>4, <2>5
  <2>9. Scanned(start, ascending, min_visible) = range[1] .. range[2]
    BY DEF Scanned, range
  <2>10. ExpiredReported(scan, range[1] .. range[2])
    BY <2>4, <2>6, <2>7, <2>8 DEF ExpiredReported, ranges
  <2> QED BY <2>9, <2>10 DEF scan, min_visible
<1>3. Spec => []OrderInv
  BY <1>1, InitOrder, ListInvariance, PTL DEF Spec
<1> QED BY <1>2, <1>3, ListInvariance, MembersInvariance, PTL
=============================================================================
