----------------------------- MODULE DirectChat -----------------------------
(***************************************************************************)
(* A direct chat: two user canisters, each with its own copy.              *)
(*                                                                         *)
(* Sending pushes the message into the sender's copy and calls the other   *)
(* canister with every message that is not yet confirmed.  A call that     *)
(* fails is followed by a job that sends what is unconfirmed by then.      *)
(* Edits and undeletes are sent once; deletes and read receipts go through *)
(* the fire-and-forget handler, which sends them again (see FireAndForget).*)
(*                                                                         *)
(* Calls from one canister to another are handled in the order in which    *)
(* they were made, may be rejected, and their answers may come in any      *)
(* order.  A message is <<its sender, its number among the sender's>>.     *)
(* Indexes count from 1; reading up to 0 is None.                          *)
(* Operators named Mut_* are wrong on purpose (see the README).            *)
(***************************************************************************)
EXTENDS SequencesExt, Integers

CONSTANTS
    Users,        \* the two users
    MaxAttempts,  \* retries of send_to_recipients_canister
    MaxSent,      \* bound: messages sent in all
    MaxDisturbances  \* bound: failed calls, edits, deletions and blocks in all

ASSUME ConstantsAssumption ==
    /\ \E u, v \in Users : u # v /\ Users = {u, v}
    /\ {MaxAttempts, MaxSent, MaxDisturbances} \subseteq Nat

Other(u) == CHOOSE v \in Users : v # u
SumOf(f) == FoldFunction(+, 0, f)
SenderOf(m) == m[1]

VARIABLES
    chats,      \* the DirectChat each user has with the other
    blocked,    \* users that block the other
    lookups,    \* send_message_v2 handlers that await the lookup of the recipient
    calls,      \* per caller: the calls not yet handled, oldest first
    verifying,  \* per callee: c2c_send_messages handlers that await verify_user
    answers,    \* per caller: answers to c2c_send_messages that have not arrived
    retries,    \* RetrySendingFailedMessages jobs: their attempts
    resends,    \* rejected calls the fire-and-forget handler will repeat
    hard_deletes, \* HardDeleteMessageContent jobs: their messages
    sent,       \* history: messages each user has sent
    used,       \* history: how many disturbances there were
    refused,    \* history: messages answered with Blocked, ...
    abandoned,  \* ... those whose last retry failed, ...
    missed,     \* ... those an edit, delete or undelete of which had no effect
    cleared     \* history: users that have deleted the chat

vars == <<chats, blocked, lookups, calls, verifying, answers, retries, resends,
          hard_deletes, sent, used, refused, abandoned, missed, cleared>>
history == <<used, refused, abandoned, missed, cleared>>

-----------------------------------------------------------------------------
(* DirectChat *)

\* DirectChat::new; there is a chat once a message has been pushed.
NewChat ==
    [log |-> <<>>, content |-> <<>>, unread |-> {}, unconfirmed |-> <<>>,
     read_by_me |-> 0, read_by_them |-> 0]
Exists(chat) == chat.log # <<>>
Has(chat, m) == m \in ToSet(chat.log)
Index(chat, m) == SelectInSeq(chat.log, LAMBDA x : x = m)

\* mark_read_up_to: never back, and never beyond the latest message.
ReadUpTo(current, index, latest) == LET n == Min({index, latest}) IN Max({current, n})
ReadByMe(chat, index) ==
    [chat EXCEPT !.read_by_me = ReadUpTo(@, index, Len(chat.log))]
ReadByThem(chat, index) ==
    [chat EXCEPT !.read_by_them = ReadUpTo(@, index, Len(chat.log))]

\* DirectChats::push_message: whoever sends a message has read what is before it.
Original == [version |-> 0, deleted_by |-> {}, destroyed |-> FALSE]
Pushed(chat, m) ==
    [chat EXCEPT !.log = Append(@, m),
                 !.content = [x \in DOMAIN @ \cup {m} |-> IF x = m THEN Original ELSE @[x]]]
PushedByMe(chat, m) == ReadByMe(Pushed(chat, m), Len(chat.log) + 1)
PushedByThem(chat, arg) ==
    LET index == Len(chat.log) + 1
    IN  [ReadByThem(Pushed(chat, arg.message), index)
            EXCEPT !.unread = @ \cup {[ours |-> index, theirs |-> arg.index]}]

\* c2c_send_messages: messages that are there already are skipped.
Received(chat, arg) == IF Has(chat, arg.message) THEN chat ELSE PushedByThem(chat, arg)
Receiving(chat, args) ==
    LET after[k \in 0 .. Len(args)] ==
            IF k = 0 THEN chat ELSE Received(after[k - 1], args[k])
    IN  after
ReceivedAll(chat, args) == Receiving(chat, args)[Len(args)]

\* mark_message_pending, mark_message_confirmed
SendMessageArgs(chat, m) == [message |-> m, index |-> Index(chat, m)]
Pending(chat, m) == [chat EXCEPT !.unconfirmed = Append(@, SendMessageArgs(chat, m))]
Mut_ConfirmsAll(chat, args) == [chat EXCEPT !.unconfirmed = <<>>]
Ids(args) == {args[i].message : i \in DOMAIN args}
Keeping(unconfirmed, ids) ==
    LET kept[k \in 0 .. Len(unconfirmed)] ==
            IF k = 0 THEN <<>>
            ELSE IF unconfirmed[k].message \in ids THEN kept[k - 1]
            ELSE Append(kept[k - 1], unconfirmed[k])
    IN  kept
Confirmed(chat, args) ==
    [chat EXCEPT !.unconfirmed = Keeping(@, Ids(args))[Len(@)]]

\* get_max_read_up_to_of_theirs (0 for None), remove_up_to
Mut_AllOfTheirs(chat, index) == Max({0} \cup {e.theirs : e \in chat.unread})
MaxReadUpToOfTheirs(chat, index) ==
    Max({0} \cup {e.theirs : e \in {x \in chat.unread : x.ours <= index}})
Mut_ForgetsUnread(chat, theirs) == [chat EXCEPT !.unread = {}]
RemoveUpTo(chat, theirs) == [chat EXCEPT !.unread = {e \in @ : e.theirs > theirs}]

-----------------------------------------------------------------------------
(* ChatEvents, as far as direct chats use it *)

CanEdit(chat, user, m) ==
    Has(chat, m) /\ SenderOf(m) = user /\ ~chat.content[m].destroyed
Edited(chat, m, version) == [chat EXCEPT !.content[m].version = version]

\* delete_message: in your own copy you may delete any message (is_admin).
CanDelete(chat, user, m, is_admin) ==
    /\ Has(chat, m) /\ (SenderOf(m) = user \/ is_admin)
    /\ chat.content[m].deleted_by = {} /\ ~chat.content[m].destroyed
Deleted(chat, user, m) == [chat EXCEPT !.content[m].deleted_by = {user}]

CanUndelete(chat, user, m) ==
    Has(chat, m) /\ chat.content[m].deleted_by = {user} /\ ~chat.content[m].destroyed
Undeleted(chat, m) == [chat EXCEPT !.content[m].deleted_by = {}]

\* remove_deleted_message_content
Destroyed(chat, m) ==
    IF Has(chat, m) /\ chat.content[m].deleted_by # {}
    THEN [chat EXCEPT !.content[m].destroyed = TRUE]
    ELSE chat

-----------------------------------------------------------------------------

\* Every call has the same fields, those that do not matter with these values.
Call(kind) == [kind |-> kind, args |-> <<>>, attempt |-> 0, message |-> <<>>, n |-> 0]
SendCall(args, attempt) == [Call("send") EXCEPT !.args = args, !.attempt = attempt]
ReadCall(index) == [Call("read") EXCEPT !.n = index]
EditCall(m, version) == [Call("edit") EXCEPT !.message = m, !.n = version]
DeleteCall(m) == [Call("delete") EXCEPT !.message = m]
UndeleteCall(m) == [Call("undelete") EXCEPT !.message = m]

Calling(u, call) == calls' = [calls EXCEPT ![u] = Append(@, call)]
AddTo(bag, e) == bag (+) SetToBag({e})
TakeFrom(bag, e) == bag (-) SetToBag({e})
Disturb == used < MaxDisturbances /\ used' = used + 1

Init ==
    /\ chats = [u \in Users |-> NewChat]
    /\ blocked = {}
    /\ lookups = [u \in Users |-> 0]
    /\ calls = [u \in Users |-> <<>>]
    /\ verifying = [u \in Users |-> EmptyBag]
    /\ answers = [u \in Users |-> EmptyBag]
    /\ retries = [u \in Users |-> EmptyBag]
    /\ resends = [u \in Users |-> EmptyBag]
    /\ hard_deletes = [u \in Users |-> EmptyBag]
    /\ sent = [u \in Users |-> 0]
    /\ used = 0
    /\ refused = {}
    /\ abandoned = {}
    /\ missed = {}
    /\ cleared = {}

-----------------------------------------------------------------------------
(* Sending *)

\* send_message_impl: the message goes out with all that are unconfirmed.
Mut_SendsOnlyTheNew(chat, m) == <<SendMessageArgs(chat, m)>>
PendingMessages(chat, m) == chat.unconfirmed
SendImpl(u) ==
    LET m == <<u, sent[u] + 1>>
        chat == Pending(PushedByMe(chats[u], m), m)
    IN  /\ chats' = [chats EXCEPT ![u] = chat]
        /\ sent' = [sent EXCEPT ![u] = @ + 1]
        /\ Calling(u, SendCall(PendingMessages(chat, m), 0))

\* send_message_v2: an unknown recipient is looked up first.
SendMessage(u) ==
    /\ SumOf(sent) + SumOf(lookups) < MaxSent
    /\ u \notin blocked
    /\ IF Exists(chats[u])
       THEN SendImpl(u) /\ UNCHANGED lookups
       ELSE /\ lookups' = [lookups EXCEPT ![u] = @ + 1]
            /\ UNCHANGED <<chats, sent, calls>>
    /\ UNCHANGED <<blocked, verifying, answers, retries, resends, hard_deletes,
                   used, refused, abandoned, missed, cleared>>

SendAfterLookup(u) ==
    /\ lookups[u] > 0
    /\ lookups' = [lookups EXCEPT ![u] = @ - 1]
    /\ SendImpl(u)
    /\ UNCHANGED <<blocked, verifying, answers, retries, resends, hard_deletes,
                   used, refused, abandoned, missed, cleared>>

\* send_to_recipients_canister after its await.  Any answer confirms, also
\* Blocked: "it means the sender won't know they're blocked".
WillRetry(attempt) == attempt < MaxAttempts
AnswerArrives(u, a) ==
    /\ BagIn(a, answers[u])
    /\ answers' = [answers EXCEPT ![u] = TakeFrom(@, a)]
    /\ IF a.ok
       THEN /\ chats' = [chats EXCEPT ![u] = Confirmed(@, a.args)]
            /\ UNCHANGED <<retries, abandoned>>
       ELSE IF WillRetry(a.attempt)
       THEN /\ retries' = [retries EXCEPT ![u] = AddTo(@, a.attempt + 1)]
            /\ UNCHANGED <<chats, abandoned>>
       ELSE /\ abandoned' = abandoned \cup Ids(a.args)
            /\ UNCHANGED <<chats, retries>>
    /\ UNCHANGED <<blocked, lookups, calls, verifying, resends, hard_deletes, sent,
                   used, refused, missed, cleared>>

\* RetrySendingFailedMessagesJob
Retry(u, attempt) ==
    /\ BagIn(attempt, retries[u])
    /\ retries' = [retries EXCEPT ![u] = TakeFrom(@, attempt)]
    /\ IF chats[u].unconfirmed # <<>>
       THEN Calling(u, SendCall(chats[u].unconfirmed, attempt))
       ELSE UNCHANGED calls
    /\ UNCHANGED <<chats, blocked, lookups, verifying, answers, resends, hard_deletes,
                   sent, history>>

\* The lookup of the recipient fails, or says there is no such user.
LookupFails(u) ==
    /\ lookups[u] > 0
    /\ lookups' = [lookups EXCEPT ![u] = @ - 1]
    /\ UNCHANGED <<chats, blocked, calls, verifying, answers, retries, resends,
                   hard_deletes, sent, history>>

-----------------------------------------------------------------------------
(* Reading, editing, deleting *)

\* mark_read.  The other user is told in its own indexes, if it sent
\* anything that was unread.
MarkRead(u, index) ==
    LET theirs == MaxReadUpToOfTheirs(chats[u], index)
        chat == ReadByMe(chats[u], index)
    IN  /\ chats[u].read_by_me < index /\ index <= Len(chats[u].log)
        /\ IF theirs > 0
           THEN /\ chats' = [chats EXCEPT ![u] = RemoveUpTo(chat, theirs)]
                /\ Calling(u, ReadCall(theirs))
           ELSE /\ chats' = [chats EXCEPT ![u] = chat]
                /\ UNCHANGED calls
        /\ UNCHANGED <<blocked, lookups, verifying, answers, retries, resends,
                       hard_deletes, sent, used, refused, abandoned, missed, cleared>>

\* edit_message_v2: what is unconfirmed keeps the old content.
EditMessage(u, m) ==
    /\ u \notin blocked
    /\ CanEdit(chats[u], u, m)
    /\ LET version == chats[u].content[m].version + 1
       IN  /\ Disturb
           /\ chats' = [chats EXCEPT ![u] = Edited(@, m, version)]
           /\ Calling(u, EditCall(m, version))
    /\ UNCHANGED <<blocked, lookups, verifying, answers, retries, resends,
                   hard_deletes, sent, refused, abandoned, missed, cleared>>

\* delete_messages: the other user is told of the user's own messages.
DeleteMessage(u, m) ==
    /\ Disturb
    /\ CanDelete(chats[u], u, m, TRUE)
    /\ chats' = [chats EXCEPT ![u] = Deleted(@, u, m)]
    /\ hard_deletes' = [hard_deletes EXCEPT ![u] = AddTo(@, m)]
    /\ IF SenderOf(m) = u THEN Calling(u, DeleteCall(m)) ELSE UNCHANGED calls
    /\ UNCHANGED <<blocked, lookups, verifying, answers, retries, resends,
                   sent, refused, abandoned, missed, cleared>>

\* undelete_messages: the job that destroys the content stays.
UndeleteMessage(u, m) ==
    /\ CanUndelete(chats[u], u, m)
    /\ chats' = [chats EXCEPT ![u] = Undeleted(@, m)]
    /\ Calling(u, UndeleteCall(m))
    /\ UNCHANGED <<blocked, lookups, verifying, answers, retries, resends,
                   hard_deletes, sent, history>>

\* HardDeleteMessageContentJob
HardDelete(u, m) ==
    /\ BagIn(m, hard_deletes[u])
    /\ hard_deletes' = [hard_deletes EXCEPT ![u] = TakeFrom(@, m)]
    /\ chats' = [chats EXCEPT ![u] = Destroyed(@, m)]
    /\ UNCHANGED <<blocked, lookups, calls, verifying, answers, retries, resends,
                   sent, history>>

\* block_user, unblock_user
BlockUser(u) ==
    /\ IF u \in blocked
       THEN blocked' = blocked \ {u} /\ UNCHANGED used
       ELSE /\ Disturb
            /\ blocked' = blocked \cup {u}
    /\ UNCHANGED <<chats, lookups, calls, verifying, answers, retries, resends,
                   hard_deletes, sent, refused, abandoned, missed, cleared>>

\* delete_direct_chat: with the copy go the messages that are unconfirmed.
DeleteChat(u, block) ==
    /\ Disturb
    /\ Exists(chats[u])
    /\ chats' = [chats EXCEPT ![u] = NewChat]
    /\ blocked' = IF block THEN blocked \cup {u} ELSE blocked
    /\ cleared' = cleared \cup {u}
    /\ UNCHANGED <<lookups, calls, verifying, answers, retries, resends, hard_deletes,
                   sent, refused, abandoned, missed>>

-----------------------------------------------------------------------------
(* Calls from the other canister *)

Answer(u, call, ok) ==
    answers' = [answers EXCEPT ![u] =
        AddTo(@, [args |-> call.args, attempt |-> call.attempt, ok |-> ok])]

\* c2c_send_messages.  The caller is verified if there is no chat yet.
RefusesCaller(v) == v \in blocked
HandleSend(v, call) ==
    LET u == Other(v) IN
    IF RefusesCaller(v)
    THEN /\ Answer(u, call, TRUE)
         /\ refused' = refused \cup Ids(call.args)
         /\ UNCHANGED <<chats, verifying>>
    ELSE IF Exists(chats[v])
    THEN /\ chats' = [chats EXCEPT ![v] = ReceivedAll(@, call.args)]
         /\ Answer(u, call, TRUE)
         /\ UNCHANGED <<verifying, refused>>
    ELSE /\ verifying' = [verifying EXCEPT ![v] = AddTo(@, call)]
         /\ UNCHANGED <<chats, answers, refused>>

\* c2c_send_messages after verify_user: nothing is checked again.  If the
\* lookup fails the handler panics.
Verified(v, call) ==
    /\ BagIn(call, verifying[v])
    /\ verifying' = [verifying EXCEPT ![v] = TakeFrom(@, call)]
    /\ \/ /\ chats' = [chats EXCEPT ![v] = ReceivedAll(@, call.args)]
          /\ Answer(Other(v), call, TRUE)
          /\ UNCHANGED used
       \/ /\ Disturb
          /\ Answer(Other(v), call, FALSE)
          /\ UNCHANGED chats
    /\ UNCHANGED <<blocked, lookups, calls, retries, resends, hard_deletes, sent,
                   refused, abandoned, missed, cleared>>

\* c2c_edit_message, c2c_delete_messages, c2c_undelete_messages: a message
\* that is not there (yet) is not found, and the caller does not look.
Applies(v, call) ==
    LET u == Other(v) IN
    /\ ~RefusesCaller(v)
    /\ CASE call.kind = "edit" -> CanEdit(chats[v], u, call.message)
         [] call.kind = "delete" -> CanDelete(chats[v], u, call.message, FALSE)
         [] call.kind = "undelete" -> CanUndelete(chats[v], u, call.message)
Updated(chat, u, call) ==
    CASE call.kind = "edit" -> Edited(chat, call.message, call.n)
      [] call.kind = "delete" -> Deleted(chat, u, call.message)
      [] call.kind = "undelete" -> Undeleted(chat, call.message)
HandleUpdate(v, call) ==
    /\ IF Applies(v, call)
       THEN /\ chats' = [chats EXCEPT ![v] = Updated(@, Other(v), call)]
            /\ UNCHANGED missed
       ELSE /\ missed' = missed \cup {call.message}
            /\ UNCHANGED chats
    /\ hard_deletes' = IF Applies(v, call) /\ call.kind = "delete"
                       THEN [hard_deletes EXCEPT ![v] = AddTo(@, call.message)]
                       ELSE hard_deletes

\* c2c_mark_read_v2
HandleRead(v, call) == chats' = [chats EXCEPT ![v] = ReadByThem(@, call.n)]

\* The oldest call of the other canister is handled.
Handle(v) ==
    LET u == Other(v)
        call == Head(calls[u])
    IN  /\ calls[u] # <<>>
        /\ calls' = [calls EXCEPT ![u] = Tail(@)]
        /\ \/ /\ call.kind = "send"
              /\ HandleSend(v, call)
              /\ UNCHANGED <<hard_deletes, missed>>
           \/ /\ call.kind = "read"
              /\ HandleRead(v, call)
              /\ UNCHANGED <<verifying, answers, hard_deletes, refused, missed>>
           \/ /\ call.kind \in {"edit", "delete", "undelete"}
              /\ HandleUpdate(v, call)
              /\ UNCHANGED <<verifying, answers, refused>>
        /\ UNCHANGED <<blocked, lookups, retries, resends, sent, used,
                       abandoned, cleared>>

\* A call is rejected.  Deletes and read receipts are sent again some time
\* later, edits and undeletes are not.
Reject(u, i) ==
    LET call == calls[u][i] IN
    /\ Disturb
    /\ calls' = [calls EXCEPT ![u] = RemoveAt(@, i)]
    /\ IF call.kind = "send" THEN Answer(u, call, FALSE) ELSE UNCHANGED answers
    /\ resends' = IF call.kind \in {"delete", "read"}
                  THEN [resends EXCEPT ![u] = AddTo(@, call)] ELSE resends
    /\ missed' = IF call.kind \in {"edit", "undelete"}
                 THEN missed \cup {call.message} ELSE missed
    /\ UNCHANGED <<chats, blocked, lookups, verifying, retries, hard_deletes, sent,
                   refused, abandoned, cleared>>

Resend(u, call) ==
    /\ BagIn(call, resends[u])
    /\ resends' = [resends EXCEPT ![u] = TakeFrom(@, call)]
    /\ Calling(u, call)
    /\ UNCHANGED <<chats, blocked, lookups, verifying, answers, retries,
                   hard_deletes, sent, history>>

Next ==
    \E u \in Users :
        \/ SendMessage(u) \/ SendAfterLookup(u) \/ LookupFails(u)
        \/ BlockUser(u)
        \/ \E block \in BOOLEAN : DeleteChat(u, block)
        \/ \E index \in 1 .. Len(chats[u].log) : MarkRead(u, index)
        \/ \E m \in ToSet(chats[u].log) :
              EditMessage(u, m) \/ DeleteMessage(u, m) \/ UndeleteMessage(u, m)
        \/ \E a \in BagToSet(answers[u]) : AnswerArrives(u, a)
        \/ \E n \in BagToSet(retries[u]) : Retry(u, n)
        \/ \E m \in BagToSet(hard_deletes[u]) : HardDelete(u, m)
        \/ Handle(u)
        \/ \E call \in BagToSet(verifying[u]) : Verified(u, call)
        \/ \E i \in DOMAIN calls[u] : Reject(u, i)
        \/ \E call \in BagToSet(resends[u]) : Resend(u, call)

Spec == Init /\ [][Next]_vars

-----------------------------------------------------------------------------
(* Properties *)

\* In both copies the messages of each sender are in the order in which they
\* were sent, each once, however calls fail, are retried and overlap - except
\* in the recipient's copy around messages that were answered with Blocked, which
\* are confirmed without having arrived, and when either user has deleted its
\* chat while one of them was waiting to be verified.
MessagesInOrder ==
    \A u \in Users : \A i, j \in DOMAIN chats[u].log :
        LET m == chats[u].log[i]
            n == chats[u].log[j]
        IN  i < j /\ m[1] = n[1] =>
                \/ m[2] < n[2]
                \/ m[1] # u /\ ({m, n} \cap refused # {} \/ cleared # {})

\* What somebody is doing about the unconfirmed message m of u.
InHand(u, m) ==
    LET carries(c) == \E i \in DOMAIN c.args : c.args[i].message = m
    IN  \/ retries[u] # EmptyBag
        \/ \E i \in DOMAIN calls[u] : carries(calls[u][i])
        \/ \E c \in BagToSet(verifying[Other(u)]) : carries(c)
        \/ \E a \in BagToSet(answers[u]) : carries(a)

\* A message is lost only if the other user refused it, the last retry failed
\* or a copy of the chat was deleted: what counts as confirmed is in the other
\* copy, and what is unconfirmed is still being sent.
NothingLost ==
    \A u \in Users \ cleared : \A m \in ToSet(chats[u].log) :
        SenderOf(m) = u =>
            LET unconfirmed == \E i \in DOMAIN chats[u].unconfirmed :
                                  chats[u].unconfirmed[i].message = m
            IN  IF unconfirmed THEN m \in abandoned \/ InHand(u, m)
                ELSE m \in refused \/ Other(u) \in cleared \/ Has(chats[Other(u)], m)

\* A message that is shown as read has been read by the other user - or the
\* other user wrote something that arrived after it, whether or not it knew
\* the message by then.  (After a copy was deleted, or around messages answered
\* with Blocked, indexes no longer correspond.)
ReadReceiptsTruthful ==
    cleared = {} =>
        \A u \in Users : \A i \in 1 .. chats[u].read_by_them :
            LET m == chats[u].log[i] IN
            \/ SenderOf(m) # u
            \/ Index(chats[Other(u)], m) \in 1 .. chats[Other(u)].read_by_me
            \/ refused # {}
            \/ \E j \in i + 1 .. Len(chats[u].log) : chats[u].log[j][1] # u

\* Nothing is on its way between the canisters.
Quiet ==
    /\ verifying = [u \in Users |-> EmptyBag] /\ answers = verifying
    /\ retries = verifying /\ resends = verifying
    /\ calls = [u \in Users |-> <<>>]

\* When all is quiet the copies agree, unless a copy was deleted, messages
\* were refused or sending was given up: on the messages; on what has been
\* read; and, for each message none of whose edits, deletes and undeletes
\* came too early, too late or not at all, on its content.
QuietCopiesAgree ==
    Quiet /\ cleared \cup refused \cup abandoned = {} =>
        \A u \in Users :
            LET mine == chats[u]
                theirs == chats[Other(u)]
            IN  /\ ToSet(mine.log) = ToSet(theirs.log)
                /\ \A m \in ToSet(mine.log) : SenderOf(m) = u =>
                      /\ Index(theirs, m) <= theirs.read_by_me =>
                            Index(mine, m) <= mine.read_by_them
                      /\ m \notin missed /\ theirs.content[m].deleted_by # {Other(u)} =>
                            /\ mine.content[m].deleted_by \cap {u} = theirs.content[m].deleted_by
                            /\ mine.content[m].version = theirs.content[m].version
=============================================================================
