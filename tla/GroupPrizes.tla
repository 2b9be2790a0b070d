---------------------------- MODULE GroupPrizes ----------------------------
(***************************************************************************)
(* Prize messages of a group (communities run the same code per channel).  *)
(*                                                                         *)
(* A prize message reaches the group together with a transfer to the       *)
(* group's ledger account that pays for every prize in it.  Members claim  *)
(* a prize by a call that awaits the ledger between "reserve" and          *)
(* "claim"/"unreserve"; a timer refunds what is left at the end date; the  *)
(* sender may delete the message, which destroys its content five minutes  *)
(* later; a disappearing message is removed when it expires; the chat may  *)
(* be frozen while a claim is in flight; the canister may be upgraded.     *)
(*                                                                         *)
(* Money is counted in prizes: claiming one costs the account the amount   *)
(* and the fee that were paid in for it, and refunding k of them costs     *)
(* k (amount + fee), since prize_refund takes one fee off the sum.         *)
(* Operators named Mut_* are wrong on purpose (see the README).            *)
(***************************************************************************)
EXTENDS TimerJobs, FiniteSets, FiniteSetsExt

CONSTANTS
    Prizes,           \* ids of the prize messages
    Users,            \* members that may claim
    Sender,           \* the member that sends the prize messages
    NumPrizes,        \* how many prizes each message holds
    EndDates,         \* the end dates a message may have
    TTLs,             \* the event lifetimes the chat may have when one is sent
    HardDeleteDelay,  \* 5 * MINUTE_IN_MS
    RetryDelay,       \* MINUTE_IN_MS
    Float,            \* other funds on the group's account, in prizes
    MaxTime           \* bound: the clock stops here, later jobs fall due here

ASSUME ConstantsAssumption ==
    /\ NumPrizes \in Nat \ {0}
    /\ HardDeleteDelay \in Nat \ {0} /\ RetryDelay \in Nat \ {0}
    /\ Float \in Nat /\ MaxTime \in Nat
    /\ EndDates \subseteq 1 .. MaxTime - 1 /\ TTLs \subseteq Nat \ {0}

Never == MaxTime + 1                       \* expires_at of a lasting message
Times == 0 .. MaxTime

\* The clock is capped, so is every due date (see MaxTime).
Capped(t) == IF t > MaxTime THEN MaxTime ELSE t

Members == Users \cup {Sender}
HardDelete(p) == [kind |-> "HardDeleteMessageContent", prize |-> p]
RefundPrize(p) == [kind |-> "RefundPrize", prize |-> p]
MakeTransfer(tx) == [kind |-> "MakeTransfer", tx |-> tx]

\* What the ledger is asked to do.  It sees neither the message nor which
\* prize of it is meant: "prize" is carried along for the properties.
Transfer(memo, p, to, units, created) ==
    [memo |-> memo, prize |-> p, to |-> to, units |-> units, created |-> created]
SameOnLedger(s, t) ==
    s.memo = t.memo /\ s.to = t.to /\ s.units = t.units /\ s.created = t.created

VARIABLES
    now,       \* the time of the current round
    frozen,    \* data.frozen and events.frozen, which change together
    message,   \* the prize messages
    jobs,      \* data.timer_jobs
    calls,     \* calls to the ledger whose callback has not run
    ledger     \* external: the transfers the ledger has made for the group

vars == <<now, frozen, message, jobs, calls, ledger>>

Unsent ==
    [content |-> "unsent", deleted_by |-> "none", deleted_at |-> 0,
     prizes_remaining |-> 0, reservations |-> {}, winners |-> {},
     end_date |-> 0, expires_at |-> Never]

Init ==
    /\ now = 0
    /\ frozen = FALSE
    /\ message = [p \in Prizes |-> Unsent]
    /\ jobs = {}
    /\ calls = {}
    /\ ledger = {}

IsPrize(p) == message[p].content = "prize"
Sent == {p \in Prizes : message[p].content # "unsent"}
UnitsOf(txs) == MapThenSumSet(LAMBDA tx : tx.units, txs)
Balance == Float + NumPrizes * Cardinality(Sent) - UnitsOf(ledger)

-----------------------------------------------------------------------------
(* Messages *)

\* send_message: the content is refused unless its end date is in the future;
\* register_timer_jobs queues the refund.
SendPrize(p) ==
    /\ message[p].content = "unsent"
    /\ ~frozen
    /\ \E end \in EndDates, ttl \in TTLs \cup {Never} :
          /\ end > now
          /\ message' = [message EXCEPT ![p] =
                [Unsent EXCEPT !.content = "prize",
                               !.prizes_remaining = NumPrizes,
                               !.end_date = end,
                               !.expires_at = IF now + ttl > MaxTime
                                              THEN Never ELSE now + ttl]]
          /\ jobs' = Enqueue(jobs, RefundPrize(p), end)
    /\ UNCHANGED <<now, frozen, calls, ledger>>

\* delete_messages, by the sender or by a member who may delete messages:
\* only the former makes the content disappear for good.
DeleteMessage(p, who) ==
    /\ ~frozen
    /\ IsPrize(p)
    /\ message[p].deleted_by = "none"
    /\ message' = [message EXCEPT ![p].deleted_by = who, ![p].deleted_at = now]
    /\ jobs' = IF who = "sender"
               THEN Enqueue(jobs, HardDelete(p), Capped(now + HardDeleteDelay))
               ELSE jobs
    /\ UNCHANGED <<now, frozen, calls, ledger>>

\* undelete_messages, by whoever deleted the message (or another who may,
\* if that was not the sender).
Mut_UndeleteKeepsJob(p) ==
    /\ ~frozen
    /\ IsPrize(p)
    /\ message[p].deleted_by # "none"
    /\ message' = [message EXCEPT ![p].deleted_by = "none", ![p].deleted_at = 0]
    /\ UNCHANGED <<now, frozen, jobs, calls, ledger>>
UndeleteMessage(p) ==
    /\ ~frozen
    /\ IsPrize(p)
    /\ message[p].deleted_by # "none"
    /\ message' = [message EXCEPT ![p].deleted_by = "none", ![p].deleted_at = 0]
    /\ jobs' = CancelJobs(jobs, {HardDelete(p)})
    /\ UNCHANGED <<now, frozen, calls, ledger>>

\* remove_expired_events, run by its own timer: the message is gone.
ExpireMessage(p) ==
    /\ message[p].content \in {"prize", "deleted"}
    /\ message[p].expires_at <= now
    /\ message' = [message EXCEPT ![p] = [Unsent EXCEPT !.content = "removed"]]
    /\ UNCHANGED <<now, frozen, jobs, calls, ledger>>

-----------------------------------------------------------------------------
(* Claims *)

Call(tx) == [tx |-> tx, reply |-> "none"]

\* The checks of reserve_prize that look at what the user already has.
Mut_ForgetsReservations(m, u) == u \in m.winners
AlreadyClaimed(m, u) == u \in m.winners \/ u \in m.reservations

\* reserve_prize compares the end date with "<": at the very end date a
\* prize can still be claimed.
Ended(m) == m.end_date < now

\* A prize that nobody has, nor is getting.
PrizeLeft(m) == m.prizes_remaining > 0

\* claim_prize, until the ledger is called.
ReservePrize(p, u) ==
    /\ ~frozen
    /\ IsPrize(p)
    /\ ~Ended(message[p])
    /\ PrizeLeft(message[p])
    /\ ~AlreadyClaimed(message[p], u)
    /\ message' = [message EXCEPT ![p].prizes_remaining = @ - 1,
                                  ![p].reservations = @ \cup {u}]
    /\ calls' = calls \cup {Call(Transfer("claim", p, u, 1, now))}
    /\ UNCHANGED <<now, frozen, jobs, ledger>>

Claiming(p, u, reply) ==
    {c \in calls : /\ c.tx.memo = "claim" /\ c.tx.prize = p
                   /\ c.tx.to = u /\ c.reply = reply}

\* commit, when the transfer was made.  Pushing the winner's message panics
\* in a frozen chat, which undoes the callback: the reservation stays.  If
\* the prize is gone the winner is told FailedAfterTransfer.
CommitClaim(p, u) ==
    /\ \E c \in Claiming(p, u, "ok") : calls' = calls \ {c}
    /\ message' = IF IsPrize(p) /\ u \in message[p].reservations /\ ~frozen
                  THEN [message EXCEPT ![p].reservations = @ \ {u},
                                       ![p].winners = @ \cup {u}]
                  ELSE message
    /\ UNCHANGED <<now, frozen, jobs, ledger>>

\* rollback, when the transfer failed: unreserve_prize puts the prize back.
Mut_RollbackKeepsPrize(p, u) ==
    /\ \E c \in Claiming(p, u, "err") : calls' = calls \ {c}
    /\ message' = IF IsPrize(p) /\ u \in message[p].reservations
                  THEN [message EXCEPT ![p].reservations = @ \ {u}]
                  ELSE message
    /\ UNCHANGED <<now, frozen, jobs, ledger>>
RollbackClaim(p, u) ==
    /\ \E c \in Claiming(p, u, "err") : calls' = calls \ {c}
    /\ message' = IF IsPrize(p) /\ u \in message[p].reservations
                  THEN [message EXCEPT ![p].reservations = @ \ {u},
                                       ![p].prizes_remaining = @ + 1]
                  ELSE message
    /\ UNCHANGED <<now, frozen, jobs, ledger>>

-----------------------------------------------------------------------------
(* Timer jobs *)

\* PrizeContentInternal::prize_refund, as the set of calls to be made.
Mut_RefundsReservations(p) ==
    LET units == message[p].prizes_remaining + Cardinality(message[p].reservations)
    IN  IF units > 0
        THEN {Call(Transfer("refund", p, Sender, units, now))}
        ELSE {}
RefundOf(p) ==
    IF message[p].prizes_remaining > 0
    THEN {Call(Transfer("refund", p, Sender, message[p].prizes_remaining, now))}
    ELSE {}

\* HardDeleteMessageContentJob: the content of a message that is still
\* deleted is replaced; if it was a prize, the queued refund is cancelled
\* and made at once, provided cancel_job found it.
RunHardDelete(p) ==
    \E e \in Due(jobs, now) :
        /\ e.job = HardDelete(p)
        /\ IF IsPrize(p) /\ message[p].deleted_by # "none"
           THEN \E r \in CancelJob(Fired(jobs, e), {RefundPrize(p)}) :
                   /\ message' = [message EXCEPT ![p].content = "deleted"]
                   /\ jobs' = r.left
                   /\ calls' = IF r.cancelled # {} THEN calls \cup RefundOf(p) ELSE calls
           ELSE jobs' = Fired(jobs, e) /\ UNCHANGED <<message, calls>>
        /\ UNCHANGED <<now, frozen, ledger>>

\* RefundPrizeJob: the content is only read, what remains is not cleared.
RunRefundPrize(p) ==
    \E e \in Due(jobs, now) :
        /\ e.job = RefundPrize(p)
        /\ jobs' = Fired(jobs, e)
        /\ calls' = IF IsPrize(p) THEN calls \cup RefundOf(p) ELSE calls
        /\ UNCHANGED <<now, frozen, message, ledger>>

\* MakeTransferJob: the same pending transaction is sent again.
RunMakeTransfer ==
    \E e \in Due(jobs, now) :
        /\ e.job.kind = "MakeTransfer"
        /\ jobs' = Fired(jobs, e)
        /\ calls' = calls \cup {Call(e.job.tx)}
        /\ UNCHANGED <<now, frozen, message, ledger>>

\* make_transfer after its await: a transfer that failed is queued again.
Mut_RetryDropped(c) ==
    /\ c.tx.memo = "refund" /\ c.reply # "none"
    /\ calls' = calls \ {c}
    /\ UNCHANGED <<now, frozen, message, jobs, ledger>>
RefundReply(c) ==
    /\ c.tx.memo = "refund" /\ c.reply # "none"
    /\ calls' = calls \ {c}
    /\ jobs' = IF c.reply = "err"
               THEN Enqueue(jobs, MakeTransfer(c.tx), Capped(now + RetryDelay))
               ELSE jobs
    /\ UNCHANGED <<now, frozen, message, ledger>>

-----------------------------------------------------------------------------
(* The ledger, the clock and the canister's life cycle *)

Reply(c, reply) == calls' = (calls \ {c}) \cup {[c EXCEPT !.reply = reply]}

\* The ledger makes a transfer it can pay for and has not made before.
LedgerAccepts(c) ==
    /\ c.reply = "none"
    /\ c.tx.units <= Balance
    /\ ~\E tx \in ledger : SameOnLedger(tx, c.tx)
    /\ ledger' = ledger \cup {c.tx}
    /\ Reply(c, "ok")
    /\ UNCHANGED <<now, frozen, message, jobs>>

\* It may refuse any transfer (busy, stopped, no funds, duplicate).
LedgerRejects(c) ==
    /\ c.reply = "none"
    /\ Reply(c, "err")
    /\ UNCHANGED <<now, frozen, message, jobs, ledger>>

\* c2c_freeze_group and c2c_unfreeze_group.
Freeze ==
    /\ frozen' = ~frozen
    /\ UNCHANGED <<now, message, jobs, calls, ledger>>

\* pre_upgrade, post_upgrade: a canister is stopped before it is upgraded,
\* and stops only when no call of its own is outstanding.
Upgrade ==
    /\ calls = {}
    /\ jobs' = Upgraded(jobs)
    /\ UNCHANGED <<now, frozen, message, calls, ledger>>

Tick ==
    /\ now < MaxTime
    /\ now' = now + 1
    /\ UNCHANGED <<frozen, message, jobs, calls, ledger>>

Next ==
    \/ \E p \in Prizes :
          \/ SendPrize(p)
          \/ \E who \in {"sender", "admin"} : DeleteMessage(p, who)
          \/ UndeleteMessage(p)
          \/ ExpireMessage(p)
          \/ \E u \in Users :
                ReservePrize(p, u) \/ CommitClaim(p, u) \/ RollbackClaim(p, u)
          \/ RunHardDelete(p)
          \/ RunRefundPrize(p)
    \/ RunMakeTransfer
    \/ \E c \in calls : RefundReply(c) \/ LedgerAccepts(c) \/ LedgerRejects(c)
    \/ Freeze
    \/ Upgrade
    \/ Tick

Spec == Init /\ [][Next]_vars

-----------------------------------------------------------------------------
(* Properties *)

ClaimsInPlay(p) ==
    {tx \in ledger \cup {c.tx : c \in {d \in calls : d.reply # "err"}} :
        tx.memo = "claim" /\ tx.prize = p}

\* Every refund that was computed: made, being made, or waiting for its retry.
RefundsInPlay(p) ==
    {tx \in ledger \cup {c.tx : c \in calls}
            \cup {e.job.tx : e \in {d \in jobs : d.queued /\ d.job.kind = "MakeTransfer"}} :
        tx.memo = "refund" /\ tx.prize = p}

\* No prize is lost or made up while the message exists, however the
\* reservations, commits, rollbacks, trapped commits and refunds of
\* reserve_prize / claim_prize / unreserve_prize interleave.
PrizesConserved ==
    \A p \in Prizes : IsPrize(p) =>
        LET m == message[p]
        IN  /\ m.prizes_remaining + Cardinality(m.reservations)
                 + Cardinality(m.winners) = NumPrizes
            /\ m.reservations \cap m.winners = {}

\* Nothing is paid twice for a message.  A member gets one prize at most, also
\* when a claim is retried after a failed transfer, or its commit trapped in a
\* frozen chat, or the ledger's answer is late: whoever has been or is being
\* paid is refused.  And the refund is computed once, by the timer at the end
\* date or by the hard delete that cancels it, whatever entries of executed
\* jobs are still around and however often it is sent again.
NothingIsPaidTwice ==
    \A p \in Prizes :
        /\ Cardinality(RefundsInPlay(p)) <= 1
        /\ \A u \in Users :
            LET own == {tx \in ledger \cup {c.tx : c \in calls} :
                            tx.memo = "claim" /\ tx.prize = p /\ tx.to = u}
            IN  /\ Cardinality(own) <= 1
                /\ IsPrize(p) /\ own # {} => AlreadyClaimed(message[p], u)

\* What leaves the account for a message was paid in for it: the refund
\* leaves out every prize that was reserved before it, and no prize is
\* reserved after it.  The one leak is the instant of the refund itself:
\* "end_date < now" lets a prize that has just been refunded be claimed.
PaidFromOwnFunds ==
    \A p \in Prizes :
        LET claims == ClaimsInPlay(p)
        IN  /\ Cardinality(claims) <= NumPrizes
            /\ \A r \in RefundsInPlay(p) :
                  /\ \A c \in claims : c.created <= r.created
                  /\ r.units + Cardinality({c \in claims : c.created < r.created})
                        <= NumPrizes

\* Until the end date of a prize message there is a queued job that will
\* refund it: no cancel_jobs of an undelete, stolen entry or upgrade loses it.
RefundIsScheduled ==
    \A p \in Prizes :
        IsPrize(p) /\ now < message[p].end_date => Queued(jobs, RefundPrize(p))

\* The content of a message is destroyed only when its sender deleted it and
\* left it deleted for five minutes: a timer of an earlier deletion, undone
\* since, never does it early.
DestroyedOnlyAfterDelay ==
    [][\A p \in Prizes :
          message'[p].content = "deleted" /\ message[p].content # "deleted" =>
              /\ message[p].deleted_by = "sender"
              /\ now >= Capped(message[p].deleted_at + HardDeleteDelay)]_vars

\* A refund that was computed is kept until the ledger has made it, and as the same
\* transfer, by which the ledger knows it when it is asked again: no reply, cancelled
\* job, deletion, expiry or upgrade loses it or turns it into another (make_transfer,
\* MakeTransferJob).
RefundsAreKept ==
    [][\A p \in Prizes : RefundsInPlay(p) \subseteq RefundsInPlay(p)']_vars

\* The comment in HardDeleteMessageContentJob: "If there was already a job
\* queued up to refund the prize, cancel it, and make the refund".
HardDeleteCancelsRefund ==
    \A p \in Prizes :
        message[p].content = "deleted" => ~Queued(jobs, RefundPrize(p))
=============================================================================
