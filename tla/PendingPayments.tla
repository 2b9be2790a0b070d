--------------------------- MODULE PendingPayments ---------------------------
(***************************************************************************)
(* The payments a group or a community owes once somebody has paid to      *)
(* join: pending_payments_queue, the job make_pending_payments that empties *)
(* it, and the ledger account of the canister.                             *)
(*                                                                         *)
(* The job takes one payment at each tick of its timer and does not wait   *)
(* for the ledger: several transfers may be under way at once, and a       *)
(* payment whose call was rejected goes to the back of the queue.          *)
(* Two payments of one amount to one user are alike, so the transfers      *)
(* under way are a bag.  There is one ledger.                              *)
(* Operators named Mut_* are wrong on purpose (see the README).            *)
(***************************************************************************)
EXTENDS SequencesExt, Integers

CONSTANTS
    Users,
    Treasury,     \* PaymentRecipient::Treasury
    Fee,          \* the ledger's fee, which every gate carries
    MaxFailures   \* bound: transfers that do not succeed

ASSUME PaymentsAssumption ==
    /\ IsFiniteSet(Users) /\ Treasury \notin Users
    /\ Fee \in Nat /\ MaxFailures \in Nat

VARIABLES
    pending_payments, \* PendingPaymentsQueue
    timer_id,         \* TIMER_ID is set
    transfers,        \* process_payment calls that await the ledger
    receipts,         \* total_payment_receipts, by user
    balance,          \* what the ledger holds for the canister
    credited,         \* history: what the ledger has credited each recipient
    failures          \* history: transfers that did not succeed, and how

payments == <<pending_payments, timer_id, transfers, receipts, balance, credited, failures>>

Recipients == Users \cup {Treasury}
Payment(amount, recipient) == [amount |-> amount, recipient |-> recipient]
Less(a, b) == Max({a - b, 0})   \* saturating_sub
One(x) == SetToBag({x})

PaymentsInit ==
    /\ pending_payments = <<>> /\ timer_id = FALSE /\ transfers = EmptyBag
    /\ receipts = [u \in Users |-> 0]
    /\ balance = 0
    /\ credited = [r \in Recipients |-> 0]
    /\ failures = [refused |-> 0, rejected |-> 0, unheard |-> 0]

-----------------------------------------------------------------------------
(* queue_access_gate_payments *)

\* What is left of a gate's price once the approval and the transfer_from
\* have been paid for.
Available(price) == price - 2 * Fee
OwnerShare(price, owner_count) == ((Available(price) * 4) \div 5) \div owner_count
Mut_TreasuryShare(price, owner_count) == Less(Available(price), OwnerShare(price, owner_count))
TreasuryShare(price, owner_count) ==
    Less(Available(price), OwnerShare(price, owner_count) * owner_count)

\* A share that does not exceed the fee is not paid.
Paid(share, recipients) ==
    LET amount == Less(share, Fee)
    IN  IF amount > 0 THEN {Payment(amount, r) : r \in recipients} ELSE {}
QueuedPayments(price, owners) ==
    LET count == Cardinality(owners)
    IN  SetToSeq(Paid(OwnerShare(price, count), owners))
          \o SetToSeq(Paid(TreasuryShare(price, count), {Treasury}))

QueueAccessGatePayments(price, owners) ==
    /\ pending_payments' = pending_payments \o QueuedPayments(price, owners)
    /\ timer_id' = (timer_id \/ pending_payments' # <<>>)
    /\ UNCHANGED <<transfers, receipts, credited, failures>>

-----------------------------------------------------------------------------
(* make_pending_payments *)

\* run
MakePendingPayment ==
    /\ timer_id
    /\ IF pending_payments = <<>>
       THEN timer_id' = FALSE /\ UNCHANGED <<pending_payments, transfers>>
       ELSE /\ pending_payments' = Tail(pending_payments)
            /\ transfers' = transfers (+) One(Head(pending_payments))
            /\ UNCHANGED timer_id
    /\ UNCHANGED <<receipts, balance, credited, failures>>

\* The ledger, external: it makes a transfer if the account has the amount and
\* the fee, and it may refuse one for reasons of its own.
Affordable(p) == balance >= p.amount + Fee
Made(p) ==
    /\ Affordable(p)
    /\ balance' = balance - p.amount - Fee
    /\ credited' = [credited EXCEPT ![p.recipient] = @ + p.amount]
Failures == failures.refused + failures.rejected + failures.unheard
Fails(how) ==
    /\ Failures < MaxFailures
    /\ failures' = [failures EXCEPT ![how] = @ + 1]

Receipt(p) ==
    [u \in Users |-> IF u = p.recipient THEN receipts[u] + p.amount ELSE receipts[u]]

TransferMade(p) ==
    /\ Made(p)
    /\ transfers' = transfers (-) One(p)
    /\ receipts' = Receipt(p)
    /\ UNCHANGED <<pending_payments, timer_id, failures>>

\* A payment the ledger answers with an error is only logged.
TransferRefused(p) ==
    /\ \/ ~Affordable(p) /\ UNCHANGED failures
       \/ Fails("refused")
    /\ transfers' = transfers (-) One(p)
    /\ UNCHANGED <<pending_payments, timer_id, receipts, balance, credited>>

\* A rejected call is tried again, whether or not the ledger has served it:
\* the transfer is then made anew, for it carries the time of the new attempt.
Mut_Requeued(p) == pending_payments' = Append(pending_payments, p) /\ UNCHANGED timer_id
Requeued(p) ==
    /\ pending_payments' = Append(pending_payments, p)
    /\ timer_id' = TRUE
Mut_TransferRejected(p) ==
    /\ Fails("rejected") /\ UNCHANGED <<balance, credited>>
    /\ transfers' = transfers (-) One(p)
    /\ Requeued(p)
    /\ receipts' = Receipt(p)
TransferRejected(p) ==
    /\ \/ Fails("rejected") /\ UNCHANGED <<balance, credited>>
       \/ Fails("unheard") /\ Made(p)
    /\ transfers' = transfers (-) One(p)
    /\ Requeued(p)
    /\ UNCHANGED receipts

TransferAnswered(p) == TransferMade(p) \/ TransferRefused(p) \/ TransferRejected(p)

\* An upgrade stops the canister first, so no call is under way.  The timer is
\* gone; jobs::start sets it again.
PaymentsUpgraded ==
    /\ transfers = EmptyBag
    /\ timer_id' = (pending_payments # <<>>)
    /\ UNCHANGED <<pending_payments, transfers, receipts, balance, credited, failures>>
=============================================================================
