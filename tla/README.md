# OpenChat: a TLA+ verification project

OpenChat is a chat application on the Internet Computer: its backend
(`src/backend`) is a set of canisters - single-threaded actors with persistent
state - that call each other asynchronously. A message handler runs without
interruption up to an `await` on a call to another canister; other handlers run
before its callback does; a panic undoes what the handler did since its last
`await`. Timers are lost by an upgrade and set again from persisted state. This
is where the hard behaviour is: **steps of several actors between a check and
its effect, calls that fail or are answered late, copies of one thing kept in two
places, jobs that race, upgrades between two steps.** The modules here model
that core, TLC checks them on small instances, and TLAPS proves the main results
about all but one of them for all values of the constants.

## 1. Inventory

Paths are relative to `src/backend`; "group" stands for `canisters/group/impl/src`.

| component | code | state | operations | hard behaviour | what makes it correct | module |
|---|---|---|---|---|---|---|
| timer jobs | `libraries/canister_timer_jobs` | table of jobs with due times; wrappers emptied when run | enqueue, fire, cancel one / all, (de)serialize | entries of executed jobs linger and match every filter | a queued job runs once unless it is cancelled | `TimerJobs` |
| prize messages | group `updates/claim_prize.rs`, `timer_job_types.rs`; `libraries/chat_events`, `libraries/ledger_utils` | prizes left, reservations, winners, end date, expiry; jobs | send, claim (reserve / ledger / commit or rollback), refund, retry, delete, undelete, hard delete, expire, freeze, upgrade | claim in flight against refund, delete, expiry, freeze; retried transfers | nobody paid twice, refunded once, all money paid out | `GroupPrizes` |
| fire-and-forget calls | `libraries/fire_and_forget_handler` | queue and in-progress list per canister; timer | send, retry, batch, give up, upgrade | untracked first attempts; timer stops and restarts | each call delivered once or given up; no lost wake-up | `FireAndForget` |
| members of a group | `libraries/group_chat_core`, group `updates/*` | roles, counters, blocked, invited, suspended, known principals, visibility | join, leave, invite, decline, change role, remove, block, unblock, suspend, freeze, make public or private | four handlers await between check and effect | counters exact, always an owner, authority at the moment of the change | `GroupMembers` |
| event sync queues | `libraries/utils/src/canister_event_sync_queue.rs` and jobs of local_user_index, user_index, notifications_index | events per destination, queue of destinations, flag, timer | push, batch, put back, finish, stop, upgrade | partial batches, failures merged with newer events, timer stopped during a batch | every event once and in order; whoever has events is called | `EventSync` |
| chat events, threads, pins | `libraries/chat_events`, `libraries/group_chat_core`, group `updates/send_message.rs`, `timer_job_types.rs` | events with gaps, indexes of messages, threads and their summaries, pins, what expires when | push, reply, follow, unfollow, pin, unpin, delete, undelete, expire, scan | one removal has to be repeated in five places; scans over gaps | indexes agree, no reference to what is gone, messages go on time | `ChatEventsList`, `ChatEvents` |
| direct chats | `canisters/user` `updates/*`, `model/direct_chat.rs`, `model/direct_chats.rs`, `model/unread_message_index_map.rs`, `libraries/chat_events` | two copies of each chat; unconfirmed messages; index map for read receipts | send, retry, receive, read, edit, delete, undelete, hard delete, block, delete chat | overlapping, rejected, repeated calls between two canisters | messages once and in order, none lost silently, copies agree in the end | `DirectChat` |
| access gates and payments | `libraries/gated_groups`, `jobs/make_pending_payments.rs`, `queue_access_gate_payments` of group and community | queue of payments, timer, receipts | take the fee, share it, pay, retry, upgrade | fee taken and join refused, gate changed during the await, retry of a payment already made | the canister can pay what it owes; receipts are true | `PendingPayments` |
| communities | `canisters/community` | members with roles and channel lists, channels with members, gates | join community or channel, leave, remove, block, change roles, gates, visibility, delete channel, add members | membership kept twice; three handlers await | the two records agree; a channel keeps an owner | `Community` |
| storage | `canisters/storage_index`, `canisters/storage_bucket` | files, pending uploads, blobs with reference counts; users, bytes used, references; two queues | upload, forward, delete, expire, add and remove users, sync both ways, reject | two queues and their answers overtake each other | a blob lives as long as a file uses it; users charged once; both agree in the end | `Storage` |
| user canister: transfers, swaps | `canisters/user` `updates/send_message_with_transfer.rs`, `swap_tokens.rs` | token swaps | transfer then message; multi-step swaps | partial failure across a ledger, an exchange, a group | money or message | not modelled |
| user_index | `canisters/user_index` | users, diamond memberships, suspensions | register, pay, suspend, platform roles | payment awaited; suspension spreads to groups | one charge per renewal | (queue: `EventSync`) |
| local_user_index | `canisters/local_user_index` | canister pool, upgrades in progress | create, upgrade, top up | concurrency limit, retries, pool overshoot | no canister upgraded twice at once | (queue: `EventSync`) |
| group indexes | `canisters/group_index`, `local_group_index` | groups, deleted groups | create, delete, freeze, import | deletion spreads to members | | not modelled |
| notifications | `canisters/notifications`, `notifications_index` | subscriptions | add, remove, push | | | (queue: `EventSync`) |
| proposals_bot, cycles_dispenser, registry, market_maker, neuron_controller, online_users, proposal_validation | `canisters/*` | little | polls and calls to external services | | | not modelled |
| libraries without state, macros, clients; frontend, bots, tools, tests | | | | | | not modelled |

**How the parts interact.** A group's handlers push events into its
`ChatEvents`, enqueue timer jobs, and tell users' canisters through the
fire-and-forget handler. Claims and refunds call a ledger canister, which sees
only amount, memo, destination and `created_at_time`. Joining asks the gate
(`gated_groups`), changing a role or removing an owner asks an index canister
who is a platform moderator. User canisters call each other with direct messages.
Storage buckets and their index exchange events in both directions. The indexes
keep each other and the user canisters informed through event sync queues.

`PROJECT.json` lists the components with their sources, and under `hazards`
what can go wrong in this code and would hardly be met by a test, each at its
line with the properties that watch it. Hazards without a property say why.

**Not modelled.** Transfers with messages and token swaps are chains of calls whose
promises belong to external ledgers and exchanges. In the user_index, the
notification canisters and the small canisters, state is a few maps edited in single
steps, around payments or services outside the repository; what is concurrent
there - the event queues, joining users to a group - is in `EventSync` and
`GroupMembers`. Creating, upgrading and topping up canisters is done by the
Internet Computer's management canister. The proposals bot mirrors the state
of governance canisters. Encodings, search, macros and clients have no state of
their own.

## 2. The modules

Operators named `Mut_*` are wrong on purpose. Each stands for a plausible slip
in the definition that follows it (a forgotten guard, a job kept, an event put
at the wrong end); replacing the definition by it must make a run fail. They
show that the properties can tell the code from its near misses. No action uses
one.

A module states the types of its variables in comments and, in `FireAndForget` and
`GroupMembers`, as `TypeOK`; for the others the typed part of the inductive
invariant is in the module of the proofs (`Typed`, `Sound`, `ListInv`, `FilesSound`).
Variables marked "history" record what has happened and steer nothing.

### TimerJobs
The job table as a set of entries `[job, due, queued]`, pure operators.
`Matching` is the filter of `cancel_job`: an entry whose wrapper is empty passes
it (`map_or(true, ..)`). The table is ordered by timer ids, whose slots are
reused, so any matching entry may come first.

### GroupPrizes (extends TimerJobs)
`message[p]` is the message with its content ("unsent", "prize", "deleted" after
a hard delete, "removed" after expiry), `jobs` the job table, `calls` the calls
to the ledger whose callback has not run, `ledger` the transfers made. Amounts
are counted in prizes: claiming one costs the account what was paid in for it,
fee included, and `prize_refund` deducts one fee from the sum, so a refund of k
prizes costs k. Prizes of different sizes are not told apart. `claim_prize` is
three actions: `ReservePrize` up to the await, `CommitClaim` / `RollbackClaim`
after it; `CommitClaim` in a frozen chat is a panic that leaves the reservation.
The ledger may refuse any transfer, refuses what it cannot pay or has seen
before (`SameOnLedger`), and otherwise makes it; it answers late or early, but a call
whose reply is an error has made nothing: a claim whose transfer was made and whose
reply was lost would be rolled back and could be claimed, and paid, again. `Tick` is
the clock.

### FireAndForget, CallDelivery
`process_single` is `Send` (first attempt) or `SendBatch` (retries), the callee's
answer, and `Finish` (after the await). `CutAt` and `ReachesMax` are the `break`
of `next_batch`, which leaves only the inner loop. `CallDelivery` is the promise:
a call that is sent is delivered once or given up. `Status` maps one to the other.
The mutex is not modelled: everything runs on one thread and `process_single`
holds it only between awaits.

### GroupMembers
`role`, `count` (the three counters kept by hand), `suspended`, `blocked`,
`invited`, `known` (principals), `public`, `frozen`. A handler that awaits is an
element of `pending`: a join that asks its gate, a change of role or a removal
that looks a user up, and `update_group_v2`, which calls the group_index before
it changes the visibility (`UpdateVisibility`, then `UpdateAfterIndex`). When it goes
on, nothing is checked that the code does not check. `MayChangeRole` and
`MayRemove` are the checks of the core library, made after the await; what handlers
check before it is in `Join`, `ChangeRole`, `Remove`. Platform moderators are a constant
set: they join a group that is open to them, are unblocked on the way, and make
themselves owners. A handler that pushes an
event into a frozen chat panics, and leaves everything as it was. Left out:
`c2c_update_user_principal`, the group's other settings (gate and permissions are
constants of an instance), minimum visible indexes, notifications. `actor` is history.

### EventSync, EventDelivery
The queue, and the `job` of one of three owners, chosen at the start from the
constant `Jobs`: they differ in `StartJobIfRequired`, `StopsWhenIdle`, `AfterBatch`
and `StartsAfterUpgrade`, each with a case per owner. `busy` is `sync_in_progress`;
a batch is the set of destinations whose `reply` is not "idle"; `FinishSync` of the
last of them is the end of `process_batch` too. `try_start_single` (the queue
towards the single user_index) is the case `MaxCanisters = 1`. The handlers of the
destinations do not await, so a call either is handled or has no effect.
`AddCanister` is a new destination of the notifications_index, which receives all
subscriptions at once; the handler does not start the job.
`EventDelivery` is the promise: each destination receives its events, in order.
`Handled` counts them; that the counted ones are the right ones is `EventsInOrder`.

### ChatEventsList, ChatEvents
`ChatEventsList` is the list of a chat's events as pure operators: every event ever
pushed, those removed ("gone"), the event index of each message, and the reader -
`Get`, `Scan` step by step with the iterator's `expected_next`, ranges of expired
events and messages. What the code loops over is a recursive function whose last value is
taken (`Iterating`, `Joining`). `ChatEvents` adds what refers to events: threads and
their summaries, what members remember of threads, pins, deletions, and the
expiry machinery (`expiring`, the canister's `next_expiry`, the set `jobs` of due
times of its `RemoveExpiredEvents` jobs). A message that expires before all others
replaces the jobs there are by its own (`RegisterTimerJobs`). A reply may mention
anybody; who is not a member becomes a follower all the same, and `outsiders` (history)
remembers the thread until that user writes there, is told of it as a member, or
follows or unfollows it. These handlers do not await, so each is
one action and what is checked is sequences of them. `Never`, the expiry of what does
not expire, is a constant beyond every date. Left out: contents,
reactions, tips, polls, the lists of mentions, metrics, message ids,
`last_updated_timestamps`, leaving the group, deletions in threads. New members see
everything or what comes after they joined; a group whose visibility changes, and
invitations, which make a member see what came after the invitation, are left out.

### DirectChat
`chats[u]` is u's copy; a message is its sender and its number. `SendMessage` pushes
and calls with everything unconfirmed; the callee may await `verify_user`
(`verifying`), answers travel separately (`answers`) and failed calls become
`retries`. Calls from one canister to another are handled in the order made, any
may be rejected, answers come in any order: the guarantees of the platform.
Edits and undeletes are sent once; deletes and read receipts go through the
fire-and-forget handler, here reduced to its promise of repeating rejected
calls (`resends`). `refused`, `abandoned`, `missed` and `cleared` are history: they
collect the messages about which the code promises nothing any more. Left
out: reactions, tips, replies, bots, time to live, transfers, suspension.

### PendingPayments, Community
`PendingPayments` is the queue, the job that starts one payment at a tick of its
timer without waiting, and one ledger account. Payments under way are a bag,
since two of one amount to one user are alike. The ledger is external: `TransferMade`,
`TransferRefused` (only logged), `TransferRejected` (tried again; `unheard` when the
ledger had made it nevertheless). `Community` extends it with the members of a
community and of one channel, which it keeps twice (`roles` and `listed`). Joins,
removals and `add_members_to_channel` await; all gates are payment gates and a gate
is its price, roles are owner and member. `Moderators` are the users of whom the
user_index may say, each time it is asked, that they are platform moderators: one that
joins is unblocked first (`Unblocked`), also after it has awaited a gate, and one that is
a member makes itself owner (`MayChangeRole`). If a lookup says that the owner
to be demoted is a moderator, nothing happens, which is a step not taken. `Init` is a community that has had
several owners for a while. `GatePassedInVain` is the panic of a join that
divides by the number of owners when there are none: the user has paid, the rest
is undone. `EveryoneJoined` is the loop over the members when a channel becomes public and
free. Handlers that await are bags too: one user may be charged several times at
once. `unfunded` and `estranged` are history. Left out: creating channels,
importing groups, invitations, suspension, freezing, the limit of members.

### Storage
One bucket and the index. `bucket.sync` and `index.sync` are `IndexSyncState` and
`BucketSyncState`; `to_index` and `to_bucket` the call under way in each direction:
asked, answered (its answer carries events too), or none. A file's number is its id
and its time of creation. `Size` is what the data of a hash really has; an upload declares
one of `Sizes`, which the bucket reports with the first chunk and can tell to be wrong
only with the last (`UploadCompletes` needs the right one, `UploadMismatches` takes the
file away). The index charges what was declared and keeps one size for each hash,
the last one declared by a user that did not have the data. `misled` (history) are
the users that had data somebody declared a wrong size for. `Charged` and `AllRemoved` are the accounting of bytes,
`Oldest` the files the index asks the bucket to remove. The additions of a batch are
made one after the other (`AllAdded`), since each is charged according to those before it.
`AllRemoved`, `Dropped` and `Refused` give the result of the code's loops over several
files, which do not depend on their order, in one step: subtractions that stop at
zero may be made together. `excused` collects the files
about which the canisters do not agree, with the reason in the comment of
`QuietCopiesAgree`. Left out: creating and upgrading buckets, changes of user ids and
of owners, http, cycles.

## 3. What TLC checks

| run | instance | shows |
|---|---|---|
| `GroupPrizes_one` | 1 message, 2 prizes, 2 claimants, end date at 2 or 3, lifetime 1 or none, times 0..4 | `PrizesConserved`, `NothingIsPaidTwice`, `PaidFromOwnFunds`, `RefundIsScheduled`, `DestroyedOnlyAfterDelay`, `RefundsAreKept` |
| `FireAndForget` | 3 calls to 2 canisters, 2 retries, batches of 1, fairness | `CallsAccountedFor`, `TimerRunsWhileNeeded`, `OneBatchAtATime`, the refinement `ImplementsDelivery` |
| `GroupMembers` | 3 users, one a platform moderator; gated moderators' group that starts private; at most 2 members, 1 invitation | `CountersMatch`, `HasOwner`, `NeitherBlockedNorInvited`, `WithinLimits`, `ActsWithCurrentAuthority`, `InvitationsStayUsable` |
| `EventSync` | the jobs of local_user_index and user_index, 3 destinations, 2 per batch, 2 events per call, 3 events each; reliable destinations | `EventsInOrder`, `QueueIsExact`, `TimerRunsWhenNeeded`, the refinement `ImplementsDelivery` |
| `DirectChat` | 2 users, 2 messages, 1 retry, 2 disturbances (failed calls, edits, deletions, blocks) | `MessagesInOrder`, `NothingLost`, `ReadReceiptsTruthful`, `QuietCopiesAgree` |
| `Community` | 3 users, 2 of them owners at first, one a platform moderator at times; prices 7 and 14, fee 1, 1 failing transfer, 3 calls; fairness | `ListedChannelsAreJoined`, `ChannelHasOwner`, `BlockedAreNotMembers`, `FeesCoverPayments`, `ReceiptsTruthful`, `PaymentsAreMade` |
| `Storage` | 2 users, 1 accessor, 2 hashes of size 2, declared as 1 or 2, and a limit of 2 bytes, 2 files, 3 changes of users, 1 rejected call; one wrong size under way at a time and none together with a removed user, an excused file or a rejected call (`FewWrongSizes`) | `BlobsMatchFiles`, `BytesUsedExact`, `QuietCopiesAgree` |
| `ChatEvents` | 2 users, one of whom pins; replies mention any of them; lifetimes 1, 2 and none; 6 events, times 0..1, one message deleted at a time and none in a chat with threads (`DeletionsApart`) | `MessagesExpireOnTime`, `ThreadsMatchSummaries`, `MembersKnowTheirThreads`, `PinsMatchEvents`, `ExpiredRangesAreCorrect` |

Deadlock is checked in the first four. In the others it is not, since there a
bounded number of calls of users simply comes to an end.

Four more runs must find a violation; each checks one sentence of the code's own
comments or tests against what the code does (`findings` in `PROJECT.json`):

| run | what happens |
|---|---|
| `GroupPrizes_harddelete` | `cancel_job` removes the empty entry of an executed job instead of the queued refund; the hard delete then makes no refund, and the refund job finds no prize |
| `GroupMembers_moderators` | an owner makes a platform moderator an owner; a third user joins and becomes admin; the admin demotes the moderator, for `change_role` looks the target up only when the caller is an owner |
| `EventSync_notifications` | the timer is cleared while a batch is under way; a destination that had more events than the call carried, or whose call failed, stays queued and is not called until the next push or upgrade |
| `ChatEvents_scan` | a scan across a gap left by expired events drops the event after the gap; one that runs down to the start reports event 0 as expired although it exists |

**Observations.** These are consequences of the code that the models show and no
document speaks about. They are why some properties have exceptions.

- *Prizes.* A disappearing prize message that expires before its end date takes its
  prizes along. A claim that fails after the refund was computed puts its prize
  back into a message that is over. In the very instant of the refund a prize can
  still be claimed (`end_date < now`), and is then paid from other funds of the group.
  Two refunds that look alike to the ledger are one to it: the second is refused as a
  duplicate and retried for ever, and so is one the account cannot pay any more.
- *Members.* `update_group_v2` commits after its await without checking its caller
  again. A handler that awaited while the group was frozen reaches a panic that was
  meant to be out of reach.
- *Queues.* `add_notifications_canister` pushes the subscriptions for a new canister and
  does not start the job: they wait for the next push or upgrade.
- *Events.* A user who is mentioned in a thread before it joins follows that thread, does
  not have it in its list, and cannot follow it since `set_follow` finds that it does.
  Deleting a pinned message does not list it as unpinned. A pinned message that
  expires stays in the list of pins. Only messages lower `next_event_expiry`; other events with a time to live wait for the next
  job. The author of a root keeps an expired thread among its threads.
- *Direct chats.* When messages cross, one that was not seen may be shown as read. An
  edit or delete of a message whose sending still has to be repeated is lost, and
  the repeated call delivers the original. The job of a hard delete is not
  cancelled by an undelete.
- *Communities.* The owners of a community can all be gone after removals that
  awaited; then every join through a gate is charged and panics. The last owner of
  a channel who is removed from the community stays in the channel. A member of a
  gated community who joins again is charged again. A gate that changes during
  the await is shared out at its new price. `add_members_to_channel` charges the
  added users and queues no payments. A rejected transfer that was executed is
  made twice.
- *Storage.* What a user uses is what clients declare: a first chunk with a wrong size
  counts until the last one shows that the hash does not match, and since the index
  keeps one size for each hash, it is also what others are credited with when they
  delete the same data. A forwarded file, an upload that expires, and a removal that is answered
  before the addition was sent leave references or files the other side does not
  know. Adding a user again makes the bucket forget which files it has.

**Why the bounds are enough.** Bounds are the constants `Max*`; actions whose guards
they are in stop at the bound, later due dates are capped. The prize cases need one
prize left over and two members that compete, a deletion, its undoing and a second
one within the lifetime of a message (times 0..4 with a delay of 2), one failed
transfer and its retry. The queues need two destinations that interfere and a third
that waits, more events than fit into a call, and a push between a failure and its
merge: three events per destination. The members need an actor, a target and a
bystander; one awaiting handler suffices to be overtaken by any sequence of others,
and the proofs cover any number. Two messages can cross, overtake or be sent in one
call, and two disturbances are a rejected call and something that happens to the
message meanwhile. That a batch can be taken in after a later one, because the
recipient deleted its copy while the batch waited to be verified, takes three
messages; it is the proof that found it, and why `MessagesInOrder` has that exception.
In a community, two users can compete for what a third decides;
with prices 7 and 14 a share is worth paying or not, and the cheaper price cannot
fund the payments of the dearer. Two files suffice to share data, or to exceed the
limit, and one wrong size to mislead both users that share data. An upload whose size
is wrong cannot be completed, so accessors make no difference to it, and `FewWrongSizes`
leaves them out, as well as wrong sizes together with a removed user, an excused file or
a rejected call; the proof covers all of them. Six events hold a thread, a pin, a change of the time to live and messages
before and after it; the longer lifetime outlasts the run, so such messages stay
while those between them go and leave gaps. Deletions matter to each other only
through the pins, so one message is deleted at a time, and none while there are threads
(`DeletionsApart`); the proofs cover every
combination. Retries beyond the second repeat the
first.

**Fairness.** The platform guarantees that callbacks of answered calls run, that every
call is answered, that timers that are set fire, and that time goes on; nothing
forces users to act. Each `FairSpec` says so for the actions its liveness is
about. Two assumptions go further and are named where they are made. In `EventSync`'s `ReliableSpec` a destination that is
called again and again eventually accepts. In `Community` transfers fail at most
`MaxFailures` times: a ledger that rejected a payment for ever would keep it in the
queue. `FireAndForget` assumes nothing about callees: a call that keeps failing is
given up.

## 4. What is proved

All proofs are checked by TLAPS from the assumptions on the constants only (finite
sets of users, positive limits): any number of users, canisters, calls, attempts,
messages, prizes, files. `TimerKeepsRunning` and `FeesCoverWhatIsOwed` alone have hypotheses of their own.

`FireAndForgetProofs` (assumes `ConstantsAssumption`)
: `TypeCorrect`, `NoCallIsLostOrRepeated`, `InProgressIsExact`, `NoLostWakeUp`, all from
the inductive invariant `IInv`: the invariants of the runs plus `InProgressIsFlying`,
`TrackedWhileNeeded` and `OkMeansDelivered`. The last is the strengthening that is
needed: an answer "ok" that waits for its callback stands for a delivery, otherwise
forgetting the call in `Finish` would lose it. `BatchesDoNotOverlap` follows since the
in-progress list is exact and `MayBeSent` asks for it to be empty. `RefinesDelivery`
maps every step to a step of `CallDelivery` or a stutter.

`GroupMembersProofs`
: `CountersAgree`, `AlwaysAnOwner`, `MembersAreNeitherBlockedNorInvited`,
`LimitsHold`, `TypeCorrect` from an `IInv` that joins them with
`pending \subseteq LegitPending`: what a handler that goes on was started with (only who
changes its own role is looked up as the caller). The last owner survives because the checks after the await
use the counter of that moment, and the counter is exact: neither holds without the
other. `AuthorityIsCurrent` and `InvitationsAreUsable` are action properties, from the
same invariant: who changes a role has the seniority and the permission in that very
state, or is a platform moderator that makes itself an owner, which `LegitPending` says of
the handler that resumes.

`GroupPrizesProofs`
: four invariants, each on top of the one before. `PrizesInv` (types, finitely many
reservations and winners, conservation) gives `PrizesStayConserved`. `JobsInv` adds what
is in the job table: a message has at most one refund queued, due at its end date, and
a hard delete is queued only while its sender has it deleted, for the time that
deletion's delay is over. It gives `RefundStaysScheduled` and the action property
`DestroyedInTime`; `WaitingAfterCancelJob` is the lemma about `cancel_job`, which may
remove the entry of an executed job instead. `PaymentsInv` says which transfers are in play: a refund only when no
other is queued or under way, a claim only by a member the message remembers. It
gives `NeverPaidTwice`, given that an error means that nothing was transferred.
`RefundsStayInPlay`, an action property, needs besides that what was answered with "ok"
was made (`OkIsMade`): then each step leaves a refund in the ledger, among the calls or
in the queue. `FundsInv` counts them: a refund was computed when the claims
that are older had already been taken from the prizes, so the two together stay
within what was paid in. It gives `PaysFromOwnFunds`, with the exception of claims made
in the instant of the refund: those the code does pay from other funds.

`EventSyncProofs`
: `EventsStayInOrder` and `QueueStaysExact` from `IInv`: both, types, and
`CalledWithEvents` - a destination is being called exactly when events are on their
way to it, so a failed call puts something back. `RefinesDelivery` maps every step to a
step of `EventDelivery` or a stutter. `TimerKeepsRunning` assumes that `Jobs` has only the
jobs of the local_user_index and the user_index. The assumption cannot be dropped: the
job of the notifications canister is what the run `EventSync_notifications` refutes.
Its strengthening is that the local_user_index's timer runs whenever a batch is under way.

`CommunityProofs`
: `Sound` is a predicate on the community's data - typed, the two records of who is in the
channel agree but for strangers, the channel has an owner, nobody is blocked and a
member. A blocked platform moderator that joins is unblocked first (`UnblockedIsSound`).
Every operator on the data is shown to keep it, whoever applies it, so what
handlers resume with does not matter. Hence `NoMemberIsBlocked`, `ChannelKeepsOwner`,
`ListsAndMembersAgree`. `ReceiptsStayTruthful` is about the payments only and needs
nothing but types: receipts and the ledger's credits change together, or a failure
is counted. `FeesCoverWhatIsOwed` needs `DataInv` (a gate was a gate when it was passed)
and `FundsInv`. Sums are counted: an amount stands for that many units, `TotalOf` is the
cardinality of all of them, and lemmas take one summand out (`OwedTail`, `OwedOneLess`), put
one in (`OwedAppend`, `OwedOneMore`) and split a queue in two (`OwedConcat`). `OwedOnJoining`
is the heart: the owners' shares and the treasury's, each rounded, each with its
fee, do not exceed what the gate brought in. It assumes `GatesCostTwoFees`, for the code
subtracts two fees from the price of a gate unchecked; a cheaper gate makes that
subtraction fail in the code, which the model does not follow.

`ChatEventsProofs`
: `ListInv` (each message has an event, each pin event a message, times are in range) is
the base. `MessagesAreExpired` follows from `ExpiryInv`: what will expire is in
`expiring`, not before `next_expiry`, for which there is a job; a job that is cancelled
makes room for one that is earlier. `PinsFollowEvents` shows that
`PinsMatchEvents` is inductive together with `ListInv`. `SummariesMatchThreads` follows from
`ThreadsInv`, which adds that thread and summary are removed together; `HasReply` says what `mark_message_added` does to a summary.
`MembersAndThreadsAgree` follows from `MembersInv`, in which a given-up thread has the
member among its followers or participants, or following it again would leave it
on the list of those given up, and from `OutsidersInv`: whoever a thread knows of and is
not a member follows it since a mention, so that nobody else joins with a thread that
its list does not have. `ExpiredRangesAreReported` adds to these only that
later messages have later events (`OrderInv`); the rest is about the reader.
`LookingUp` and `LookingDown` say what the iterator has after k indexes: the events among
them, ranges that cover the others up to `expected_next`, none twice; `ScanFinds` draws
the conclusion for the whole scan. `SortedIs` proves that the sequence `Sorted` chooses
exists, `MessageRangeIs` that a range of messages holds exactly the messages whose events
lie in a range of events, and `JoiningIs` that joining contiguous ranges covers
neither more nor less - the ranges come in order, which `JoinedIs` needs.

`DirectChatProofs` (assumes `ConstantsAssumption`: there are two users)
: `Step` says what a step may do to each copy - be read, send, be confirmed, receive a
batch, be deleted - and to what is on its way; each action is shown once to be such
a step (`NextSteps`), and the rest is about `Step`. With it go the types
(`StaysTyped`: no message twice in a copy, calls carry messages of their sender).
`MessagesAreNotLost` follows from `LossInv`: every message sent is unconfirmed or has
arrived (`Kept`), an answer that is on its way confirms only what has arrived
(`AnswersAreTrue`), and what is unconfirmed is in a call, an answer or waits for a
retry (`SomebodyCares`) - in any call, for a retry sends everything that is
unconfirmed by then. `MessagesStayInOrder` follows from `OrderInv`: in every batch the
messages that precede one of it, and have not arrived, precede it in the batch
(`BatchesInOrder`). Deduplication keeps that true however batches overlap.
`ReceiptsAreTruthful` follows from `ReadInv`: the index a batch names is right in the
sender's copy, hence what the recipient remembers as unread, hence the receipt; and a
receipt for one message speaks for those before it because of `OrderInv`. Batches are taken in
by functions defined from their previous value; `RecursionExists` proves that
these are there, by well-founded induction over the numbers, and `ReceivedAllIs` and
`KeepingIs` what they do.
`QuietCopiesStayTogether` follows from `QuietInv`, which adds to `ReadInv` what holds
while no copy is deleted. `UpdatesAgree` says for each message (`Agreed`) that it is
missed, or that the other copy will be right once the calls that are under way have
been handled in their order. For edits (`EditsAgree`) the last one brings the version of
the sender; without any the versions are the same. For deletes (`DeletesAgree`) the calls
are replayed: `DeletedBefore` is the state in which each finds the other copy. Deletes
alone are repeated when they are rejected, so an undelete can overtake the delete it
takes back; an undelete that finds nothing deleted makes the message missed, and
`Hopeless` says that one will. Otherwise deletes and undeletes alternate, and at most one
delete waits to be repeated (`Late`), the one by which the copies differ. This takes
`RightDeletes` (nobody but the sender deletes a message for both) and `Shaped` (only
deletes and receipts are repeated, and they are made of the message alone). `ReadsAgree`
is the same for what is read: what is not read is listed as unread (`UnreadIsListed`),
and what is read is known, or told by a receipt that is under way or by a later message
that has not arrived (`ReadIsTold`) - unless a message was refused, since that one
would have told it. Here each action is shown to be a step that `Tells`: which call it
makes, handles, rejects or repeats, and how the content changes with it. The parts
were first checked by TLC, as invariants of small instances.

`StorageProofs`
: `DataIsKeptForFiles` from `BucketInv`: files are known by their ids, ids are below the
number of the next file, and each count is the number of files with that hash.
The lemmas say what inserting, dropping, refusing and stripping files does to that,
with any number of files dropped at once. `UsersAreChargedOnce` follows from `BytesInv`:
every queue, call and batch kept for a retry is a sequence in which only files with
known data are added (`GoodSync`, `GoodBatch`), and the index refers to finitely many files, and knows or has removed the
owner of each (`IndexSound`) - or a new user would start with files that cost nothing.
On top of it `ChargesInv` says that users are charged exactly, and that the index keeps the
right size of their data, unless they have been removed or misled; each wrong size
that is taken in misleads those it concerns, also within one batch, and nobody else.
`SumOfBoth` adds sums of sizes, which are counted; `AllAddedIsSound` goes through a batch
with `RecursionExists`.
`QuietCopiesStayInStep` follows from `AgreeInv`, which adds three parts to `BytesInv`.
`CallsInv`: a canister whose call is under way knows it and keeps no batch for a
retry, so that the batch asked, the batch to retry and the queue are one sequence
(`Way`); starting, failing and handling a call take from its front or change nothing
(`WayStays`). `OwnersInv`: whoever owns a file is a user or has been one, hence a file
is refused only for an owner that has been removed. `AccountsInv` balances, as sets of
ids with owners and times of creation, what the bucket has, what the index knows
or will be told of, and what it is told is gone, in its queue or in an answer: each
file the bucket has is known, and each file that is known is had or said to be
gone, unless it is left out (`excused`) or its owner was removed. Removals come
after additions in the sequence (`InOrder`), or a batch, which removes after it has
added, would leave a reference that the next batch adds. Each action is one of the
changes for which `FileComes`, `FilesGo`, `FilesVanish`, `BatchArrives`, `AnswerArrives`
and `UserGoes` show that the balance is kept. When nothing is under way the sequence is
empty, and the balance says what the property does. TLC has checked the three parts
as invariants of the run's instance.

**Only model-checked:** liveness and fairness (`PaymentsAreMade`,
`ImplementsDelivery` as far as it says that deliveries happen), which are out of the
prover's reach. Every invariant and action property of the passing runs is stated by a
theorem.

## 5. Plan

Done, in this order: `TimerJobs`, `GroupPrizes`, `FireAndForget`, `GroupMembers`, `EventSync`,
`DirectChat`, `PendingPayments`, `Community`, `Storage`, `ChatEvents`, and the proofs about
all of them. Next:

1. `ChatEvents`: reactions, polls, tips, and `last_updated_timestamps`.
2. `Community`: creating channels, and the import of a group in portions.
3. The upgrade queue of the index canisters with its concurrency limit, and the
   canister pool, with the management canister as an external party.
4. Diamond payments and suspensions of the user_index; the user's transfers with
   messages and token swaps.

## 6. Running it

    tlc -workers 2 -config GroupPrizes_one.cfg MCGroupPrizes.tla
    tlapm GroupMembersProofs.tla

`PROJECT.json` names the module and the configuration of every run, and maps every
definition to the lines it stands for.
