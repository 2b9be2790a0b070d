--------------------------- MODULE ChatEventsList ---------------------------
(***************************************************************************)
(* The list of a chat's events, from which events are removed when they    *)
(* expire, and the reader that clients see it through.                     *)
(*                                                                         *)
(* A list is a record: "events" is every event ever pushed (the event with *)
(* index i is events[i + 1]), "gone" the indexes that were removed, and    *)
(* "messages" the event index of each message (message_event_indexes).     *)
(* Indexes count from 0, as in the code.                                   *)
(* Operators named Mut_* are wrong on purpose (see the README).            *)
(***************************************************************************)
EXTENDS SequencesExt, Integers

EmptyList == [events |-> <<>>, gone |-> {}, messages |-> <<>>]

NextEventIndex(list) == Len(list.events)
NextMessageIndex(list) == Len(list.messages)
LatestEventIndex(list) == Len(list.events) - 1
Indexes(list) == 0 .. LatestEventIndex(list)
Present(list) == Indexes(list) \ list.gone
EventAt(list, i) == list.events[i + 1]

\* push_event: a message is also entered into message_event_indexes.
Pushed(list, event) ==
    [list EXCEPT !.events = Append(@, event),
                 !.messages = IF event.kind = "message"
                              THEN Append(@, NextEventIndex(list)) ELSE @]
Removed(list, indexes) == [list EXCEPT !.gone = @ \cup indexes]

\* event_index, is_accessible: of the message with this message index.
EventIndexOf(list, message) == list.messages[message + 1]
IsAccessible(list, message, min_visible) ==
    /\ message \in 0 .. NextMessageIndex(list) - 1
    /\ EventIndexOf(list, message) \in Present(list)
    /\ EventIndexOf(list, message) >= min_visible

-----------------------------------------------------------------------------
(* Reading.  A range is the pair of its first and its last index. *)

\* get: the event, or the expired ones between its neighbours.
Get(list, i) ==
    IF i \in Present(list) THEN <<i, i>>
    ELSE <<Max({-1} \cup {k \in Present(list) : k < i}) + 1,
           Min({NextEventIndex(list)} \cup {k \in Present(list) : k > i}) - 1>>

\* iter: the first and last index looked at.
ScanRange(list, start, ascending, min_visible) ==
    IF ascending THEN <<Get(list, start)[1], LatestEventIndex(list)>>
                 ELSE <<min_visible, Get(list, start)[2]>>

\* decr saturates.
Decr(i) == Max({0, i - 1})

\* ChatEventsListIterator::next, when there is another event i ...
Gap(iter, i) == IF iter.ascending THEN <<iter.expected_next, Decr(i)>>
                                  ELSE <<i + 1, iter.expected_next>>
After(iter, i) == IF iter.ascending THEN i + 1 ELSE Decr(i)
NextItem(iter, i) ==
    IF iter.complete THEN iter
    ELSE LET done == iter.expected_next = iter.end
             found == i = iter.expected_next
         IN  [iter EXCEPT !.events = IF found THEN @ \cup {i} ELSE @,
                          !.ranges = IF found THEN @ ELSE Append(@, Gap(iter, i)),
                          !.complete = done,
                          !.expected_next = IF done THEN @ ELSE After(iter, i)]
\* ... and when there is none.
LastItem(iter) ==
    IF iter.complete THEN iter
    ELSE [iter EXCEPT !.ranges = Append(@, IF iter.ascending
                                           THEN <<iter.expected_next, iter.end>>
                                           ELSE <<iter.end, iter.expected_next>>)]

\* iter: the iterator after each index of the range, and what it starts as.
IterOver(range, ascending) ==
    [events |-> {}, ranges |-> <<>>, ascending |-> ascending, complete |-> FALSE,
     expected_next |-> IF ascending THEN range[1] ELSE range[2],
     end |-> IF ascending THEN range[2] ELSE range[1]]
IndexAt(range, ascending, k) == IF ascending THEN range[1] + (k - 1) ELSE range[2] - (k - 1)
Looked(list, iter, i) == IF i \in Present(list) THEN NextItem(iter, i) ELSE iter
Iterating(list, range, ascending) ==
    LET iter[k \in 0 .. (range[2] - range[1]) + 1] ==
            IF k = 0 THEN IterOver(range, ascending)
            ELSE Looked(list, iter[k - 1], IndexAt(range, ascending, k))
    IN  iter

\* scan (without its limits on the number of events) and the first half of
\* split: the events and the expired ranges, as they are found.
Scan(list, start, ascending, min_visible) ==
    LET range == ScanRange(list, start, ascending, min_visible)
    IN  LastItem(Iterating(list, range, ascending)[(range[2] - range[1]) + 1])

\* split: the ranges, sorted.  No range is found twice.
Before(a, b) == a[1] < b[1] \/ (a[1] = b[1] /\ a[2] < b[2])
Sorted(ranges) ==
    CHOOSE s \in [DOMAIN ranges -> ToSet(ranges)] :
        /\ ToSet(s) = ToSet(ranges)
        /\ \A j, k \in DOMAIN s : j < k => Before(s[j], s[k])
Covered(ranges) == UNION {ranges[k][1] .. ranges[k][2] : k \in DOMAIN ranges}

\* convert_to_message_range: partition_point counts the messages before a point.
MessageRange(list, range) ==
    <<Cardinality({m \in DOMAIN list.messages : list.messages[m] < range[1]}),
      Cardinality({m \in DOMAIN list.messages : list.messages[m] <= range[2]}) - 1>>

\* convert_to_message_ranges: contiguous ranges are joined.
Mut_JoinsAll(ranges, range) ==
    IF range[2] < range[1] THEN ranges
    ELSE IF ranges # <<>> THEN [ranges EXCEPT ![Len(ranges)][2] = range[2]]
    ELSE Append(ranges, range)
Joined(ranges, range) ==
    IF range[2] < range[1] THEN ranges
    ELSE IF ranges # <<>> /\ ranges[Len(ranges)][2] + 1 >= range[1]
    THEN [ranges EXCEPT ![Len(ranges)][2] = range[2]]
    ELSE Append(ranges, range)
Joining(list, ranges) ==
    LET joined[k \in 0 .. Len(ranges)] ==
            IF k = 0 THEN <<>> ELSE Joined(joined[k - 1], MessageRange(list, ranges[k]))
    IN  joined
MessageRanges(list, ranges) == Joining(list, ranges)[Len(ranges)]
=============================================================================
