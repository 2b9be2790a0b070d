----------------------------- MODULE ChatEvents -----------------------------
(***************************************************************************)
(* The events of a group's chat: messages and threads, pins, followers,    *)
(* and the removal of events that have outlived the chat's "time to live". *)
(*                                                                         *)
(* The chat (ChatEvents), its core (GroupChatCore) and the canister's      *)
(* RemoveExpiredEvents job are one state machine: every handler runs to    *)
(* its end before the next one starts, what can go wrong is the sequence.  *)
(*                                                                         *)
(* A message is its message index.  Left out: contents, reactions, tips,   *)
(* polls, mentions, metrics, message ids, leaving the group, and deletions *)
(* in threads.  Operators named Mut_* are wrong on purpose (README).       *)
(***************************************************************************)
EXTENDS ChatEventsList

CONSTANTS
    Users,
    Owner,      \* sees all messages and may delete those of others
    Pinners,    \* users with the permission pin_messages
    TTLs,       \* values of events_ttl, Never for None
    Never,      \* None, for points in time and lifetimes: later than any time
    MaxEvents,  \* bound: events of the chat and replies in its threads
    MaxTime     \* bound: the clock

ASSUME ConstantsAssumption ==
    /\ Owner \in Users /\ Pinners \subseteq Users
    /\ TTLs \subseteq Nat \ {0} /\ {Never, MaxTime} \subseteq Nat
    /\ \A ttl \in TTLs \ {Never} : MaxTime + ttl < Never

VARIABLES
    main,           \* the main list
    deleted_by,     \* deleted message -> who deleted it
    threads,        \* root message -> the senders of the replies
    thread_summary, \* root message -> its ThreadSummaryInternal
    members,        \* member -> min_visible_event_index, threads, unfollowed_threads
                    \* (a list without repetitions, whose order does not matter)
    outsiders,      \* history: pairs of a user and a thread it follows since it was
                    \* mentioned there before it joined
    pinned,         \* pinned_messages
    pinned_removed, \* pinned_messages_removed
    events_ttl,
    expiring,       \* expiring_events: pairs <<expires_at, event index>>
    next_expiry,    \* next_event_expiry of the canister
    jobs,           \* when RemoveExpiredEvents jobs are due
    now

vars == <<main, deleted_by, threads, thread_summary, members, outsiders, pinned,
          pinned_removed, events_ttl, expiring, next_expiry, jobs, now>>
membership == <<members, outsiders>>
scheduled == <<next_expiry, jobs>>

Without(f, keys) == [k \in DOMAIN f \ keys |-> f[k]]
With(f, key, value) == [k \in DOMAIN f \cup {key} |-> IF k = key THEN value ELSE f[k]]
Sender(m) == EventAt(main, EventIndexOf(main, m)).by
MinVisible(u) == IF u = Owner THEN 0 ELSE members[u].min_visible
Sees(u, m) == u \in DOMAIN members /\ IsAccessible(main, m, MinVisible(u))
MessageIndexes == 0 .. NextMessageIndex(main) - 1
EventCount == NextEventIndex(main) + FoldFunction(+, 0, [r \in DOMAIN threads |-> Len(threads[r])])

-----------------------------------------------------------------------------
(* Pushing events *)

\* expiry_date, for events of the main list
ExpiryDate(kind, ttl) == IF ttl = Never \/ kind \in {"created", "ttl"} THEN Never ELSE now + ttl

\* push_event, push_main_event
Push(kind, by, message, ttl) ==
    LET expires_at == ExpiryDate(kind, ttl)
        event == [kind |-> kind, by |-> by, message |-> message, expires_at |-> expires_at]
    IN  /\ EventCount < MaxEvents
        /\ main' = Pushed(main, event)
        /\ expiring' = IF expires_at = Never THEN expiring
                       ELSE expiring \cup {<<expires_at, NextEventIndex(main)>>}

\* send_message_impl: is_next_event_to_expire
Mut_OnlyIfNone(expires_at) == expires_at # Never /\ next_expiry = Never
IsNextToExpire(expires_at) == expires_at < next_expiry

\* register_timer_jobs: an earlier job takes the place of those there are.
RegisterTimerJobs(expires_at) ==
    IF IsNextToExpire(expires_at)
    THEN next_expiry' = expires_at /\ jobs' = {expires_at}
    ELSE UNCHANGED scheduled

\* GroupChatCore::send_message into the main list
SendMessage(u) ==
    LET expires_at == ExpiryDate("message", events_ttl)
    IN  /\ u \in DOMAIN members
        /\ Push("message", u, NextMessageIndex(main), events_ttl)
        /\ RegisterTimerJobs(expires_at)
        /\ UNCHANGED <<deleted_by, threads, thread_summary, membership, pinned, pinned_removed,
                       events_ttl, now>>

-----------------------------------------------------------------------------
(* Threads *)

NoSummary == [participants |-> {}, followers |-> <<>>, reply_count |-> 0, latest |-> 0]

\* set_follow: whether it changes anything, and what.
CanFollow(summary, u, follow) ==
    /\ u \notin summary.participants
    /\ u \in DOMAIN summary.followers => summary.followers[u] # follow
Followed(summary, u, follow) == [summary EXCEPT !.followers = With(@, u, follow)]

\* mark_message_added
Participates(summary, u) ==
    [summary EXCEPT !.participants = @ \cup {u}, !.followers = Without(@, {u})]
MessageAdded(summary, u, mentioned, index) ==
    LET s == Participates([summary EXCEPT !.reply_count = @ + 1, !.latest = index], u)
        new == {v \in mentioned : CanFollow(s, v, TRUE)}
    IN  [s EXCEPT !.followers = [v \in DOMAIN @ \cup new |-> IF v \in new THEN TRUE ELSE @[v]]]

\* GroupMembers::add_thread, for those who are members
WithThread(users, r) == [v \in DOMAIN members |->
    IF v \in users THEN [members[v] EXCEPT !.threads = @ \cup {r}] ELSE members[v]]

Replies(r) == IF r \in DOMAIN threads THEN threads[r] ELSE <<>>
SummaryOf(r) == IF r \in DOMAIN thread_summary THEN thread_summary[r] ELSE NoSummary

\* GroupChatCore::send_message into a thread.  "replied_to" is the sender of
\* the reply that is replied to, if any (get_user_being_replied_to).  Anybody can
\* be mentioned, and follows the thread then, whether a member or not.
SendReply(u, r, mentioned, replied_to) ==
    LET summary == MessageAdded(SummaryOf(r), u, mentioned, Len(Replies(r)))
        first == IF summary.reply_count = 1 THEN {Sender(r)} ELSE {}
        told == {u} \cup mentioned \cup replied_to \cup first
    IN  /\ Sees(u, r)
        /\ replied_to \subseteq ToSet(Replies(r))
        /\ EventCount < MaxEvents
        /\ threads' = With(threads, r, Append(Replies(r), u))
        /\ thread_summary' = With(thread_summary, r, summary)
        /\ members' = WithThread(told, r)
        /\ outsiders' = (outsiders \ ((told \cap DOMAIN members) \X {r}))
                            \cup ((mentioned \ DOMAIN members) \X {r})
        /\ UNCHANGED <<main, deleted_by, pinned, pinned_removed, events_ttl, expiring,
                       scheduled, now>>

\* follow_thread, unfollow_thread
FollowThread(u, r) ==
    /\ Sees(u, r) /\ r \in DOMAIN thread_summary
    /\ CanFollow(thread_summary[r], u, TRUE)
    /\ thread_summary' = [thread_summary EXCEPT ![r] = Followed(@, u, TRUE)]
    /\ members' = [members EXCEPT ![u].threads = @ \cup {r},
                                  ![u].unfollowed = @ \ {r}]
    /\ outsiders' = outsiders \ {<<u, r>>}
    /\ UNCHANGED <<main, deleted_by, threads, pinned, pinned_removed, events_ttl, expiring,
                   scheduled, now>>
Unfollows(m, r) == [m EXCEPT !.threads = @ \ {r}, !.unfollowed = @ \cup {r}]
UnfollowThread(u, r) ==
    /\ Sees(u, r) /\ r \in DOMAIN thread_summary
    /\ CanFollow(thread_summary[r], u, FALSE)
    /\ thread_summary' = [thread_summary EXCEPT ![r] = Followed(@, u, FALSE)]
    /\ members' = [members EXCEPT ![u] = Unfollows(@, r)]
    /\ outsiders' = outsiders \ {<<u, r>>}
    /\ UNCHANGED <<main, deleted_by, threads, pinned, pinned_removed, events_ttl, expiring,
                   scheduled, now>>

-----------------------------------------------------------------------------
(* Deleting and pinning *)

\* delete_messages, for one message of the main list: it is also unpinned.
UnpinDeleted(u, m) ==
    IF m \in pinned
    THEN pinned' = pinned \ {m} /\ Push("unpinned", u, m, events_ttl)
    ELSE UNCHANGED <<pinned, main, expiring>>
DeleteMessage(u, m) ==
    /\ Sees(u, m) /\ u \in {Sender(m), Owner}
    /\ m \notin DOMAIN deleted_by
    /\ deleted_by' = With(deleted_by, m, u)
    /\ UnpinDeleted(u, m)
    /\ UNCHANGED <<threads, thread_summary, membership, pinned_removed, events_ttl,
                   scheduled, now>>
UndeleteMessage(u, m) ==
    /\ Sees(u, m) /\ m \in DOMAIN deleted_by
    /\ u = deleted_by[m] \/ (u = Owner /\ Sender(m) # deleted_by[m])
    /\ deleted_by' = Without(deleted_by, {m})
    /\ UNCHANGED <<main, threads, thread_summary, membership, pinned, pinned_removed, events_ttl,
                   expiring, scheduled, now>>

\* pin_message, unpin_message
Mut_AddedAgain(m) == pinned' = pinned \cup {m} /\ UNCHANGED pinned_removed
AddPinned(m) == pinned' = pinned \cup {m} /\ pinned_removed' = pinned_removed \ {m}
PinMessage(u, m) ==
    /\ u \in Pinners /\ Sees(u, m) /\ m \notin pinned
    /\ AddPinned(m)
    /\ Push("pinned", u, m, events_ttl)
    /\ UNCHANGED <<deleted_by, threads, thread_summary, membership, events_ttl, scheduled, now>>
UnpinMessage(u, m) ==
    /\ u \in Pinners /\ Sees(u, m) /\ m \in pinned
    /\ pinned' = pinned \ {m} /\ pinned_removed' = pinned_removed \cup {m}
    /\ Push("unpinned", u, m, events_ttl)
    /\ UNCHANGED <<deleted_by, threads, thread_summary, membership, events_ttl, scheduled, now>>

-----------------------------------------------------------------------------
(* Members, settings, expiry *)

\* c2c_join_group_impl without an invitation, while new members see the history of
\* the group (history_visible_to_new_joiners) or while they do not; the group has
\* always been public, or always private
Join(u, min_visible) ==
    /\ u \notin DOMAIN members
    /\ members' = With(members, u, [min_visible |-> min_visible,
                                    threads |-> {}, unfollowed |-> {}])
    /\ Push("joined", u, 0, events_ttl)
    /\ UNCHANGED <<deleted_by, threads, thread_summary, outsiders, pinned, pinned_removed,
                   events_ttl, scheduled, now>>

\* set_events_time_to_live
SetEventsTimeToLive(ttl) ==
    /\ ttl # events_ttl
    /\ events_ttl' = ttl
    /\ Push("ttl", Owner, 0, ttl)
    /\ UNCHANGED <<deleted_by, threads, thread_summary, membership, pinned, pinned_removed,
                   scheduled, now>>

\* remove_expired_events, of the chat and of its core
Expired == {e \in expiring : e[1] <= now}
ExpiredIndexes == {e[2] : e \in Expired}
Mut_ThreadByEventIndex(indexes) == indexes \cap DOMAIN thread_summary
ExpiredRoots(indexes) == {r \in DOMAIN thread_summary : EventIndexOf(main, r) \in indexes}
Mut_OnlyFollowing(r) == thread_summary[r].participants \cup
    {u \in DOMAIN thread_summary[r].followers : thread_summary[r].followers[u]}
ParticipantsAndFollowers(r) ==
    thread_summary[r].participants \cup DOMAIN thread_summary[r].followers
ThreadsForgotten(roots) == [u \in DOMAIN members |->
    LET gone == {r \in roots : u \in ParticipantsAndFollowers(r)}
    IN  [members[u] EXCEPT !.threads = @ \ gone, !.unfollowed = @ \ gone]]

\* run_event_expiry_job
RemoveExpiredEvents(job) ==
    LET roots == ExpiredRoots(ExpiredIndexes)
        next == Min({Never} \cup {e[1] : e \in expiring \ Expired})
    IN  /\ job \in jobs /\ job <= now
        /\ main' = Removed(main, ExpiredIndexes)
        /\ expiring' = expiring \ Expired
        /\ threads' = Without(threads, roots)
        /\ thread_summary' = Without(thread_summary, roots)
        /\ members' = ThreadsForgotten(roots)
        /\ next_expiry' = next /\ jobs' = (jobs \ {job}) \cup ({next} \ {Never})
        /\ UNCHANGED <<deleted_by, outsiders, pinned, pinned_removed, events_ttl, now>>

Tick == now < MaxTime /\ now' = now + 1
    /\ UNCHANGED <<main, deleted_by, threads, thread_summary, membership, pinned,
                   pinned_removed, events_ttl, expiring, scheduled>>

\* GroupChatCore::new
Init ==
    /\ main = Pushed(EmptyList,
                     [kind |-> "created", by |-> Owner, message |-> 0, expires_at |-> Never])
    /\ members = [u \in {Owner} |-> [min_visible |-> 0, threads |-> {}, unfollowed |-> {}]]
    /\ deleted_by = <<>> /\ threads = <<>> /\ thread_summary = <<>> /\ outsiders = {}
    /\ pinned = {} /\ pinned_removed = {} /\ expiring = {}
    /\ events_ttl \in TTLs
    /\ next_expiry = Never /\ jobs = {} /\ now = 0

Next ==
    \/ \E u \in Users : SendMessage(u)
    \/ \E u \in Users, min_visible \in {0, NextEventIndex(main)} : Join(u, min_visible)
    \/ \E u \in Users, r \in MessageIndexes :
        \/ \E mentioned \in SUBSET Users, replied_to \in {{}} \cup {{v} : v \in Users} :
               SendReply(u, r, mentioned, replied_to)
        \/ FollowThread(u, r) \/ UnfollowThread(u, r)
        \/ DeleteMessage(u, r) \/ UndeleteMessage(u, r)
        \/ PinMessage(u, r) \/ UnpinMessage(u, r)
    \/ \E ttl \in TTLs : SetEventsTimeToLive(ttl)
    \/ \E job \in jobs : RemoveExpiredEvents(job)
    \/ Tick

Spec == Init /\ [][Next]_vars

-----------------------------------------------------------------------------
(* Properties *)

\* A message that was sent with a time to live is never kept by a job that is
\* queued for too late, or not at all: however the chat's time to live is
\* changed between messages (send_message_impl, run_event_expiry_job).
MessagesExpireOnTime ==
    \A i \in Present(main) :
        EventAt(main, i).kind = "message" /\ EventAt(main, i).expires_at # Never
            => \E job \in jobs : job <= EventAt(main, i).expires_at

\* A thread and the summary in its root message go together, also when the
\* root expires: the summary counts the replies and knows who wrote them, and
\* nobody is a participant and a follower (push_message, mark_message_added,
\* remove_expired_events).
ThreadsMatchSummaries ==
    /\ DOMAIN threads = DOMAIN thread_summary
    /\ \A r \in DOMAIN threads :
        LET summary == thread_summary[r]
        IN  /\ EventIndexOf(main, r) \in Present(main)
            /\ summary.reply_count = Len(threads[r]) /\ summary.latest = Len(threads[r]) - 1
            /\ summary.participants = ToSet(threads[r])
            /\ summary.participants \cap DOMAIN summary.followers = {}

\* What a member remembers of threads agrees with the summaries in the chat:
\* whoever takes part in a thread or follows it has it in their threads, unless
\* they follow it since they were mentioned there before they joined; whoever has a
\* thread there takes part, follows, or wrote its root; a thread that was given up
\* is listed as such, and threads that expired are forgotten by all but the authors
\* of their roots (send_message, follow_thread, unfollow_thread,
\* remove_expired_events).
Following(u, r) ==
    \/ u \in thread_summary[r].participants
    \/ u \in DOMAIN thread_summary[r].followers /\ thread_summary[r].followers[u]
MembersKnowTheirThreads ==
    \A u \in DOMAIN members, r \in MessageIndexes :
        /\ r \in members[u].threads /\ Sender(r) # u
               => r \in DOMAIN threads /\ Following(u, r)
        /\ r \in DOMAIN threads /\ Following(u, r)
               => r \in members[u].threads \/ <<u, r>> \in outsiders
        /\ r \in members[u].unfollowed => r \in DOMAIN threads
        /\ r \in DOMAIN threads /\ u \in DOMAIN thread_summary[r].followers
               /\ ~thread_summary[r].followers[u] => r \in members[u].unfollowed

\* The pinned messages are those the chat's events say are pinned, whatever was
\* pinned, unpinned, deleted and undeleted, and none of them is reported to
\* clients as unpinned (pin_message, unpin_message, delete_messages).
PinEvents(m) ==
    {i \in Indexes(main) : EventAt(main, i).message = m
                           /\ EventAt(main, i).kind \in {"pinned", "unpinned"}}
PinsMatchEvents ==
    /\ pinned = {m \in MessageIndexes :
                    PinEvents(m) # {} /\ EventAt(main, Max(PinEvents(m))).kind = "pinned"}
    /\ pinned \cap pinned_removed = {}

\* Once something has expired, every expired event that lies in the part of
\* the chat a client scans is reported as expired, as an event and, if it is one,
\* as a message; nothing that still exists is, apart from the event 0 (see
\* ScanIsComplete).
Scanned(start, ascending, min_visible) ==
    LET range == ScanRange(main, start, ascending, min_visible) IN range[1] .. range[2]
ExpiredReported(scan, scanned) ==
    LET ranges == Sorted(scan.ranges)
        messages == {m \in MessageIndexes : EventIndexOf(main, m) \in Covered(ranges)}
    IN  /\ main.gone \cap scanned \subseteq Covered(ranges)
        /\ Covered(ranges) \cap Present(main) \subseteq {0}
        /\ Covered(MessageRanges(main, ranges)) = messages
        /\ scan.events \subseteq Present(main)
ExpiredRangesAreCorrect == main.gone # {} =>
    \A min_visible \in {MinVisible(u) : u \in DOMAIN members}, ascending \in BOOLEAN :
        \A start \in min_visible .. LatestEventIndex(main) :
            ExpiredReported(Scan(main, start, ascending, min_visible),
                            Scanned(start, ascending, min_visible))

\* A scan without limits returns every event there is from its start to its
\* end, as the tests of chat_events_list.rs say for chats in which nothing has
\* expired, and reports none of them as expired.
ScanIsComplete ==
    \A ascending \in BOOLEAN : \A start \in Indexes(main) :
        LET scan == Scan(main, start, ascending, 0)
        IN  /\ scan.events = Present(main) \cap Scanned(start, ascending, 0)
            /\ Covered(Sorted(scan.ranges)) \cap Present(main) = {}
=============================================================================
