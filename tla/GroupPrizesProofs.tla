-------------------------- MODULE GroupPrizesProofs --------------------------
(***************************************************************************)
(* Prize messages keep their prizes, are refunded, paid and destroyed as   *)
(* they should be, for any number of messages, members and prizes, any end *)
(* dates, lifetimes and delays.  Each of the three parts of the inductive  *)
(* invariant rests on those before it: the messages and their prizes, the  *)
(* timer jobs, the payments.  That refunds settle in the end is left to    *)
(* TLC.                                                                    *)
(***************************************************************************)
EXTENDS GroupPrizes, FiniteSetTheorems, TLAPS

\* What the variables hold.
Messages ==
    [content : {"unsent", "prize", "deleted", "removed"},
     deleted_by : {"none", "sender", "admin"}, deleted_at : Times,
     prizes_remaining : Nat, reservations : SUBSET Users, winners : SUBSET Users,
     end_date : Nat, expires_at : Nat]
Txs(memo, recipients) ==
    [memo : {memo}, prize : Prizes, to : recipients, units : Nat, created : Times]
ClaimTxs == Txs("claim", Users)
RefundTxs == Txs("refund", {Sender})
AllJobs ==
    {HardDelete(p) : p \in Prizes} \cup {RefundPrize(p) : p \in Prizes}
        \cup {MakeTransfer(tx) : tx \in RefundTxs}
Entries == [job : AllJobs, due : Nat, queued : BOOLEAN]
Calls == [tx : ClaimTxs \cup RefundTxs, reply : {"none", "ok", "err"}]

Typed ==
    /\ now \in Times
    /\ frozen \in BOOLEAN
    /\ message \in [Prizes -> Messages]
    /\ jobs \in SUBSET Entries
    /\ calls \in SUBSET Calls
    /\ ledger \in SUBSET (ClaimTxs \cup RefundTxs)

\* The prizes that members have, or are getting, are finitely many: this is
\* what Cardinality needs.
FinitelyMany ==
    \A p \in Prizes :
        IsFiniteSet(message[p].reservations) /\ IsFiniteSet(message[p].winners)

PrizesInv == Typed /\ FinitelyMany /\ PrizesConserved

-----------------------------------------------------------------------------
(* The messages and their prizes *)

\* Times are natural numbers.
LEMMA TimesAreNat ==
    /\ Times \subseteq Nat /\ 0 \in Times /\ MaxTime \in Times /\ Never \in Nat
    /\ \A t \in Nat : Capped(t) \in Times
  BY ConstantsAssumption DEF Times, Capped, Never

\* The jobs of TimerJobs are told apart.
LEMMA JobsDiffer ==
    ASSUME NEW p, NEW q
    PROVE  /\ RefundPrize(p) = RefundPrize(q) <=> p = q
           /\ HardDelete(p) = HardDelete(q) <=> p = q
           /\ RefundPrize(p) # HardDelete(q)
           /\ \A tx : RefundPrize(p) # MakeTransfer(tx) /\ HardDelete(p) # MakeTransfer(tx)
<1>1. /\ RefundPrize(p).kind = "RefundPrize" /\ RefundPrize(p).prize = p
      /\ RefundPrize(q).kind = "RefundPrize" /\ RefundPrize(q).prize = q
      /\ HardDelete(p).kind = "HardDeleteMessageContent" /\ HardDelete(p).prize = p
      /\ HardDelete(q).kind = "HardDeleteMessageContent" /\ HardDelete(q).prize = q
      /\ \A tx : MakeTransfer(tx).kind = "MakeTransfer"
  BY DEF RefundPrize, HardDelete, MakeTransfer
<1> QED BY <1>1

\* Initially no prize was sent.
LEMMA InitPrizesInv == Init => PrizesInv
<1> SUFFICES ASSUME Init PROVE PrizesInv
  OBVIOUS
<1>1. Unsent \in Messages
  BY TimesAreNat DEF Unsent, Messages
<1>2. message \in [Prizes -> Messages]
  BY <1>1 DEF Init
<1>3. Typed
  BY <1>2, TimesAreNat DEF Init, Typed
<1>4. FinitelyMany /\ PrizesConserved
  BY FS_EmptySet DEF Init, FinitelyMany, PrizesConserved, IsPrize, Unsent
<1> QED BY <1>3, <1>4 DEF PrizesInv

\* The calls that are made are well-formed.
LEMMA CallsTyped ==
    ASSUME Typed, NEW p \in Prizes
    PROVE  /\ \A u \in Users : Call(Transfer("claim", p, u, 1, now)) \in Calls
           /\ RefundOf(p) \subseteq Calls
           /\ \A c \in RefundOf(p) : c.tx \in RefundTxs
<1>1. now \in Times /\ message[p].prizes_remaining \in Nat
  BY DEF Typed, Messages
<1>2. ASSUME NEW u \in Users
      PROVE  Transfer("claim", p, u, 1, now) \in ClaimTxs
  BY <1>1 DEF Transfer, ClaimTxs, Txs
<1>3. Transfer("refund", p, Sender, message[p].prizes_remaining, now) \in RefundTxs
  BY <1>1 DEF Transfer, RefundTxs, Txs
<1> QED BY <1>2, <1>3 DEF Call, Calls, RefundOf

\* The operations on jobs keep entries well-formed.
LEMMA EntriesTyped ==
    ASSUME NEW js \in SUBSET Entries
    PROVE  /\ \A j \in AllJobs, due \in Nat : Enqueue(js, j, due) \in SUBSET Entries
           /\ \A e \in js : Fired(js, e) \in SUBSET Entries
           /\ \A w : /\ CancelJobs(js, w) \in SUBSET Entries
                     /\ \A r \in CancelJob(js, w) : r.left \in SUBSET Entries
           /\ Upgraded(js) \in SUBSET Entries
<1>1. \A j \in AllJobs, due \in Nat : Entry(j, due) \in Entries
  BY DEF Entry, Entries
<1>2. \A e \in js : [e EXCEPT !.queued = FALSE, !.due = 0] \in Entries
  BY DEF Entries
<1>3. \A w : \A r \in CancelJob(js, w) : r.left \subseteq js
  BY DEF CancelJob
<1> QED BY <1>1, <1>2, <1>3 DEF Enqueue, Fired, CancelJobs, Upgraded

\* What a message must satisfy for the invariant.
WellKept(m) ==
    /\ m \in Messages
    /\ IsFiniteSet(m.reservations) /\ IsFiniteSet(m.winners)
    /\ m.content = "prize" =>
          /\ m.prizes_remaining + Cardinality(m.reservations)
               + Cardinality(m.winners) = NumPrizes
          /\ m.reservations \cap m.winners = {}

\* The invariant, message by message.
LEMMA PrizesInvIsWellKept ==
    /\ PrizesInv <=> Typed /\ \A p \in Prizes : WellKept(message[p])
    /\ PrizesInv' <=> Typed' /\ \A p \in Prizes : WellKept(message'[p])
  BY DEF PrizesInv, Typed, FinitelyMany, PrizesConserved, IsPrize, WellKept

\* send_message: all prizes of a new message are left.
LEMMA SendPrizeKeepsPrizes ==
    ASSUME PrizesInv, NEW p \in Prizes, SendPrize(p)
    PROVE  PrizesInv'
<1>1. Typed /\ \A q \in Prizes : WellKept(message[q])
  BY PrizesInvIsWellKept
<1>2. PICK end \in EndDates, ttl \in TTLs \cup {Never} :
         /\ message' = [message EXCEPT ![p] =
                [Unsent EXCEPT !.content = "prize",
                               !.prizes_remaining = NumPrizes,
                               !.end_date = end,
                               !.expires_at = IF now + ttl > MaxTime
                                              THEN Never ELSE now + ttl]]
         /\ jobs' = Enqueue(jobs, RefundPrize(p), end)
  BY DEF SendPrize
<1> DEFINE m == [Unsent EXCEPT !.content = "prize", !.prizes_remaining = NumPrizes,
                               !.end_date = end,
                               !.expires_at = IF now + ttl > MaxTime
                                              THEN Never ELSE now + ttl]
<1>3. end \in Nat /\ ttl \in Nat /\ now \in Nat /\ Never \in Nat
  BY <1>1, ConstantsAssumption, TimesAreNat DEF Typed
<1>4. WellKept(m)
  <2>1. m \in Messages
    <3> DEFINE expires == IF now + ttl > MaxTime THEN Never ELSE now + ttl
    <3>1. expires \in Nat /\ NumPrizes \in Nat /\ 0 \in Times
      BY <1>3, ConstantsAssumption, TimesAreNat
    <3> HIDE DEF expires
    <3>2. [Unsent EXCEPT !.content = "prize", !.prizes_remaining = NumPrizes,
                         !.end_date = end, !.expires_at = expires] \in Messages
      BY <1>3, <3>1 DEF Messages, Unsent
    <3> QED BY <3>2 DEF expires
  <2> QED BY <2>1, FS_EmptySet, ConstantsAssumption DEF WellKept, Unsent
<1>5. message' \in [Prizes -> Messages] /\ \A q \in Prizes : WellKept(message'[q])
  BY <1>1, <1>2, <1>4 DEF Typed, WellKept
<1>6. jobs' \in SUBSET Entries
  BY <1>1, <1>2, <1>3, EntriesTyped DEF Typed, AllJobs
<1>7. Typed'
  BY <1>1, <1>5, <1>6 DEF Typed, SendPrize
<1> QED BY <1>5, <1>7, PrizesInvIsWellKept

\* delete_messages, undelete_messages and remove_expired_events leave the
\* prizes of a message alone, or forget the message.
LEMMA DeletionKeepsPrizes ==
    ASSUME PrizesInv, NEW p \in Prizes,
           \/ \E who \in {"sender", "admin"} : DeleteMessage(p, who)
           \/ UndeleteMessage(p)
           \/ ExpireMessage(p)
    PROVE  PrizesInv'
<1>1. Typed /\ \A q \in Prizes : WellKept(message[q])
  BY PrizesInvIsWellKept
<1>2. \A q \in Prizes : WellKept(message'[q])
  <2>1. CASE ExpireMessage(p)
    <3>1. Unsent \in Messages
      BY TimesAreNat DEF Unsent, Messages
    <3>2. WellKept([Unsent EXCEPT !.content = "removed"])
      BY <3>1, FS_EmptySet DEF WellKept, Unsent, Messages
    <3> QED BY <1>1, <2>1, <3>2 DEF ExpireMessage, Typed
  <2>2. CASE UndeleteMessage(p)
    <3>1. WellKept([message[p] EXCEPT !.deleted_by = "none", !.deleted_at = 0])
      BY <1>1, TimesAreNat DEF WellKept, Messages
    <3> QED BY <1>1, <2>2, <3>1 DEF UndeleteMessage, Typed
  <2>3. ASSUME NEW who \in {"sender", "admin"}, DeleteMessage(p, who)
        PROVE  \A q \in Prizes : WellKept(message'[q])
    <3>1. WellKept([message[p] EXCEPT !.deleted_by = who, !.deleted_at = now])
      BY <1>1 DEF WellKept, Messages, Typed
    <3> QED BY <1>1, <2>3, <3>1 DEF DeleteMessage, Typed
  <2> QED BY <2>1, <2>2, <2>3
<1>3. jobs' \in SUBSET Entries
  <2>1. HardDelete(p) \in AllJobs /\ Capped(now + HardDeleteDelay) \in Nat
    BY <1>1, TimesAreNat, ConstantsAssumption DEF AllJobs, Typed
  <2> QED BY <1>1, <2>1, EntriesTyped, SMTT(30) DEF Typed, DeleteMessage, UndeleteMessage, ExpireMessage
<1>4. message' \in [Prizes -> Messages]
  BY <1>1, <1>2 DEF Typed, DeleteMessage, UndeleteMessage, ExpireMessage, WellKept
<1>5. Typed'
  BY <1>1, <1>3, <1>4 DEF Typed, DeleteMessage, UndeleteMessage, ExpireMessage
<1> QED BY <1>2, <1>5, PrizesInvIsWellKept

\* reserve_prize moves a prize from what remains to the reservations, claim_prize
\* from there to the winners, and unreserve_prize puts it back.
LEMMA ClaimKeepsPrizes ==
    ASSUME PrizesInv, NEW p \in Prizes, NEW u \in Users,
           ReservePrize(p, u) \/ CommitClaim(p, u) \/ RollbackClaim(p, u)
    PROVE  PrizesInv'
<1> DEFINE m == message[p]
<1>1. Typed /\ (\A q \in Prizes : WellKept(message[q])) /\ NumPrizes \in Nat
  BY PrizesInvIsWellKept, ConstantsAssumption
<1>2. /\ m \in Messages /\ m.prizes_remaining \in Nat
      /\ IsFiniteSet(m.reservations) /\ IsFiniteSet(m.winners)
      /\ m.reservations \in SUBSET Users /\ m.winners \in SUBSET Users
      /\ Cardinality(m.reservations) \in Nat /\ Cardinality(m.winners) \in Nat
  BY <1>1, FS_CardinalityType DEF WellKept, Messages
<1>3. message' \in [Prizes -> Messages] /\ \A q \in Prizes : WellKept(message'[q])
  <2>1. CASE ReservePrize(p, u)
    <3> DEFINE n == [m EXCEPT !.prizes_remaining = @ - 1, !.reservations = @ \cup {u}]
    <3>1. IsPrize(p) /\ m.prizes_remaining > 0 /\ u \notin m.winners /\ u \notin m.reservations
      BY <2>1 DEF ReservePrize, PrizeLeft, AlreadyClaimed
    <3>2. /\ IsFiniteSet(m.reservations \cup {u})
          /\ Cardinality(m.reservations \cup {u}) = Cardinality(m.reservations) + 1
      BY <1>2, <3>1, FS_AddElement
    <3>3. n \in Messages
      <4>1. m.prizes_remaining - 1 \in Nat /\ m.reservations \cup {u} \in SUBSET Users
        BY <1>2, <3>1
      <4> QED BY <1>2, <4>1 DEF Messages
    <3>4. WellKept(n)
      BY <1>1, <1>2, <3>1, <3>2, <3>3 DEF WellKept, IsPrize, Messages
    <3> QED BY <1>1, <2>1, <3>4 DEF ReservePrize, Typed, WellKept
  <2>2. CASE CommitClaim(p, u)
    <3> DEFINE n == [m EXCEPT !.reservations = @ \ {u}, !.winners = @ \cup {u}]
    <3>1. CASE message' = message
      BY <1>1, <3>1 DEF Typed
    <3>2. CASE message' # message
      <4>1. IsPrize(p) /\ u \in m.reservations /\ message' = [message EXCEPT ![p] = n]
        BY <2>2, <3>2 DEF CommitClaim
      <4>2. /\ IsFiniteSet(m.reservations \ {u}) /\ IsFiniteSet(m.winners \cup {u})
            /\ Cardinality(m.reservations \ {u}) = Cardinality(m.reservations) - 1
            /\ u \notin m.winners
            /\ Cardinality(m.winners \cup {u}) = Cardinality(m.winners) + 1
        BY <1>1, <1>2, <4>1, FS_AddElement, FS_RemoveElement DEF WellKept, IsPrize
      <4>3. n \in Messages
        <5>1. m.reservations \ {u} \in SUBSET Users /\ m.winners \cup {u} \in SUBSET Users
          BY <1>2
        <5> QED BY <1>2, <5>1 DEF Messages
      <4>4. WellKept(n)
        BY <1>1, <1>2, <4>1, <4>2, <4>3 DEF WellKept, IsPrize, Messages
      <4> QED BY <1>1, <4>1, <4>4 DEF Typed, WellKept
    <3> QED BY <3>1, <3>2
  <2>3. CASE RollbackClaim(p, u)
    <3> DEFINE n == [m EXCEPT !.reservations = @ \ {u}, !.prizes_remaining = @ + 1]
    <3>1. CASE message' = message
      BY <1>1, <3>1 DEF Typed
    <3>2. CASE message' # message
      <4>1. IsPrize(p) /\ u \in m.reservations /\ message' = [message EXCEPT ![p] = n]
        BY <2>3, <3>2 DEF RollbackClaim
      <4>2. /\ IsFiniteSet(m.reservations \ {u})
            /\ Cardinality(m.reservations \ {u}) = Cardinality(m.reservations) - 1
        BY <1>1, <1>2, <4>1, FS_RemoveElement
      <4>3. n \in Messages
        <5>1. m.prizes_remaining + 1 \in Nat /\ m.reservations \ {u} \in SUBSET Users
          BY <1>2
        <5> QED BY <1>2, <5>1 DEF Messages
      <4>4. WellKept(n)
        BY <1>1, <1>2, <4>1, <4>2, <4>3 DEF WellKept, IsPrize, Messages
      <4> QED BY <1>1, <4>1, <4>4 DEF Typed, WellKept
    <3> QED BY <3>1, <3>2
  <2> QED BY <2>1, <2>2, <2>3
<1>4. calls' \in SUBSET Calls
  BY <1>1, CallsTyped DEF Typed, ReservePrize, CommitClaim, RollbackClaim
<1>5. Typed'
  BY <1>1, <1>3, <1>4 DEF Typed, ReservePrize, CommitClaim, RollbackClaim
<1> QED BY <1>3, <1>5, PrizesInvIsWellKept

\* HardDeleteMessageContentJob takes the prizes away with the message, and
\* RefundPrizeJob only reads them.
LEMMA JobsKeepPrizes ==
    ASSUME PrizesInv, NEW p \in Prizes, RunHardDelete(p) \/ RunRefundPrize(p)
    PROVE  PrizesInv'
<1>1. Typed /\ \A q \in Prizes : WellKept(message[q])
  BY PrizesInvIsWellKept
<1>2. CASE RunHardDelete(p)
  <2>1. PICK e \in Due(jobs, now) :
           IF IsPrize(p) /\ message[p].deleted_by # "none"
           THEN \E r \in CancelJob(Fired(jobs, e), {RefundPrize(p)}) :
                   /\ message' = [message EXCEPT ![p].content = "deleted"]
                   /\ jobs' = r.left
                   /\ calls' = IF r.cancelled # {} THEN calls \cup RefundOf(p) ELSE calls
           ELSE jobs' = Fired(jobs, e) /\ UNCHANGED <<message, calls>>
    BY <1>2 DEF RunHardDelete
  <2>2. e \in jobs /\ Fired(jobs, e) \in SUBSET Entries
    BY <1>1, EntriesTyped DEF Due, Typed
  <2>3. jobs' \in SUBSET Entries /\ calls' \in SUBSET Calls
    BY <1>1, <2>1, <2>2, EntriesTyped, CallsTyped DEF Typed
  <2>4. WellKept([message[p] EXCEPT !.content = "deleted"])
    BY <1>1 DEF WellKept, Messages
  <2>5. message' \in [Prizes -> Messages] /\ \A q \in Prizes : WellKept(message'[q])
    BY <1>1, <2>1, <2>4 DEF Typed, WellKept
  <2>6. Typed'
    BY <1>1, <1>2, <2>3, <2>5 DEF Typed, RunHardDelete
  <2> QED BY <2>5, <2>6, PrizesInvIsWellKept
<1>3. CASE RunRefundPrize(p)
  <2>1. jobs' \in SUBSET Entries /\ calls' \in SUBSET Calls
    BY <1>1, <1>3, EntriesTyped, CallsTyped DEF RunRefundPrize, Due, Typed
  <2> QED BY <1>1, <1>3, <2>1, PrizesInvIsWellKept DEF Typed, RunRefundPrize
<1> QED BY <1>2, <1>3

\* All other steps leave the messages alone.
LEMMA OthersKeepPrizes ==
    ASSUME PrizesInv,
           \/ RunMakeTransfer
           \/ \E c \in calls : RefundReply(c) \/ LedgerAccepts(c) \/ LedgerRejects(c)
           \/ Freeze \/ Upgrade \/ Tick \/ UNCHANGED vars
    PROVE  PrizesInv'
<1>1. Typed /\ \A q \in Prizes : WellKept(message[q])
  BY PrizesInvIsWellKept
<1>2. UNCHANGED message
  BY DEF RunMakeTransfer, RefundReply, LedgerAccepts, LedgerRejects, Freeze, Upgrade, Tick, vars
<1>3. Typed'
  <2>1. CASE RunMakeTransfer
    <3>1. PICK e \in Due(jobs, now) :
             /\ e.job.kind = "MakeTransfer"
             /\ jobs' = Fired(jobs, e)
             /\ calls' = calls \cup {Call(e.job.tx)}
      BY <2>1 DEF RunMakeTransfer
    <3>2. e \in jobs /\ e.job \in AllJobs /\ jobs' \in SUBSET Entries
      BY <1>1, <3>1, EntriesTyped DEF Due, Typed, Entries
    <3>3. e.job.tx \in RefundTxs
      BY <3>1, <3>2 DEF AllJobs, MakeTransfer, HardDelete, RefundPrize
    <3>4. calls' \in SUBSET Calls
      BY <1>1, <3>1, <3>3 DEF Typed, Calls, Call
    <3> QED BY <1>1, <2>1, <3>2, <3>4 DEF Typed, RunMakeTransfer
  <2>2. ASSUME NEW c \in calls, RefundReply(c)
        PROVE  Typed'
    <3>1. c.tx \in RefundTxs
      BY <1>1, <2>2 DEF RefundReply, Typed, Calls, ClaimTxs, RefundTxs, Txs
    <3>2. MakeTransfer(c.tx) \in AllJobs /\ Capped(now + RetryDelay) \in Nat
      BY <1>1, <3>1, TimesAreNat, ConstantsAssumption DEF AllJobs, Typed
    <3>3. jobs' \in SUBSET Entries
      BY <1>1, <2>2, <3>2, EntriesTyped DEF RefundReply, Typed
    <3> QED BY <1>1, <2>2, <3>3 DEF Typed, RefundReply
  <2>3. ASSUME NEW c \in calls, LedgerAccepts(c) \/ LedgerRejects(c)
        PROVE  Typed'
    <3>1. c.tx \in ClaimTxs \cup RefundTxs /\ \A r \in {"ok", "err"} : [c EXCEPT !.reply = r] \in Calls
      BY <1>1 DEF Typed, Calls
    <3>2. ledger' \in SUBSET (ClaimTxs \cup RefundTxs) /\ calls' \in SUBSET Calls
      BY <1>1, <2>3, <3>1 DEF LedgerAccepts, LedgerRejects, Reply, Typed
    <3> QED BY <1>1, <2>3, <3>2 DEF Typed, LedgerAccepts, LedgerRejects
  <2>4. CASE Freeze \/ UNCHANGED vars
    BY <1>1, <2>4 DEF Typed, Freeze, vars
  <2>5. CASE Upgrade
    BY <1>1, <2>5, EntriesTyped DEF Typed, Upgrade
  <2>6. CASE Tick
    BY <1>1, <2>6, ConstantsAssumption DEF Typed, Tick, Times
  <2> QED BY <2>1, <2>2, <2>3, <2>4, <2>5, <2>6
<1> QED BY <1>1, <1>2, <1>3, PrizesInvIsWellKept

LEMMA NextKeepsPrizes == PrizesInv /\ [Next]_vars => PrizesInv'
  BY SendPrizeKeepsPrizes, DeletionKeepsPrizes, ClaimKeepsPrizes, JobsKeepPrizes,
     OthersKeepPrizes DEF Next

\* The clock does not go back.
LEMMA TimeGoesOn ==
    ASSUME PrizesInv, [Next]_vars
    PROVE  now \in Nat /\ now' \in Nat /\ now <= now'
<1>1. now' = now \/ now' = now + 1
  BY ZenonT(60) DEF Next, vars, SendPrize, DeleteMessage, UndeleteMessage, ExpireMessage,
         ReservePrize, CommitClaim, RollbackClaim, RunHardDelete, RunRefundPrize,
         RunMakeTransfer, RefundReply, LedgerAccepts, LedgerRejects, Freeze, Upgrade, Tick
<1> QED BY <1>1, TimesAreNat DEF PrizesInv, Typed

LEMMA PrizesInvariance == Spec => []PrizesInv
  BY InitPrizesInv, NextKeepsPrizes, PTL DEF Spec

\* reserve_prize, claim_prize and unreserve_prize neither lose prizes nor make
\* any up, and nobody both has and is getting one.
THEOREM PrizesStayConserved == Spec => []PrizesConserved
<1>1. PrizesInv => PrizesConserved
  BY DEF PrizesInv
<1> QED BY <1>1, PrizesInvariance, PTL

-----------------------------------------------------------------------------
(* The timer jobs *)

\* The entries that will run a job.
Waiting(js, j) == {e \in js : e.queued /\ e.job = j}

\* What the operations on jobs do to the entries of a job.
LEMMA WaitingEnqueue ==
    ASSUME NEW js, NEW k, NEW due, NEW j
    PROVE  Waiting(Enqueue(js, k, due), j) =
              IF j = k THEN Waiting(js, j) \cup {Entry(k, due)} ELSE Waiting(js, j)
<1>1. Entry(k, due).queued /\ Entry(k, due).job = k
  BY DEF Entry
<1> QED BY <1>1 DEF Enqueue, Waiting

LEMMA WaitingFired ==
    ASSUME NEW js \in SUBSET Entries, NEW e \in js, NEW j
    PROVE  Waiting(Fired(js, e), j) = Waiting(js, j) \ {e}
<1>1. ~[e EXCEPT !.queued = FALSE, !.due = 0].queued
  BY DEF Entries
<1> QED BY <1>1 DEF Fired, Waiting

LEMMA WaitingCancelJobs ==
    ASSUME NEW js, NEW w, NEW j
    PROVE  Waiting(CancelJobs(js, w), j) = IF j \in w THEN {} ELSE Waiting(js, j)
  BY DEF CancelJobs, Matching, Waiting

LEMMA WaitingUpgraded ==
    ASSUME NEW js, NEW j
    PROVE  Waiting(Upgraded(js), j) = Waiting(js, j)
  BY DEF Upgraded, Waiting

\* cancel_job takes one entry at most: one that waits for the job, or one whose
\* job has run.
LEMMA WaitingAfterCancelJob ==
    ASSUME NEW js \in SUBSET Entries, NEW k, NEW r \in CancelJob(js, {k})
    PROVE  /\ \A j : j # k => Waiting(r.left, j) = Waiting(js, j)
           /\ Waiting(r.left, k) \subseteq Waiting(js, k)
           /\ r.cancelled = {} => Waiting(r.left, k) = Waiting(js, k)
           /\ r.cancelled # {} =>
                 \E e \in Waiting(js, k) : Waiting(r.left, k) = Waiting(js, k) \ {e}
<1>1. CASE Matching(js, {k}) = {}
  BY <1>1 DEF CancelJob
<1>2. CASE Matching(js, {k}) # {}
  <2>1. PICK e \in Matching(js, {k}) :
           r = [left |-> js \ {e}, cancelled |-> IF e.queued THEN {e.job} ELSE {}]
    BY <1>2 DEF CancelJob
  <2>2. /\ e \in js /\ (e.queued => e.job = k)
        /\ r.left = js \ {e} /\ r.cancelled = IF e.queued THEN {e.job} ELSE {}
    BY <2>1 DEF Matching
  <2>3. CASE e.queued
    BY <2>2, <2>3 DEF Waiting
  <2>4. CASE ~e.queued
    BY <2>2, <2>4 DEF Waiting
  <2> QED BY <2>3, <2>4
<1> QED BY <1>1, <1>2

\* A message has one refund at most in the queue, at its end date, and none
\* before it is sent; a hard delete is queued only while its sender has it
\* deleted, for the time the delay of that deletion is over.
Refunds(p) == Waiting(jobs, RefundPrize(p))
HardDeletes(p) == Waiting(jobs, HardDelete(p))
JobsTruthful ==
    \A p \in Prizes :
        /\ \A e, f \in Refunds(p) : e = f
        /\ message[p].content = "unsent" => Refunds(p) = {} /\ HardDeletes(p) = {}
        /\ IsPrize(p) =>
              /\ \A e \in Refunds(p) : e.due = message[p].end_date
              /\ \A e \in HardDeletes(p) :
                    /\ message[p].deleted_by = "sender"
                    /\ e.due = Capped(message[p].deleted_at + HardDeleteDelay)

JobsInv == JobsTruthful /\ RefundIsScheduled

\* The part of it that is about one message; from this message and the two
\* kinds of entries alone.
JobsFit(m, refunds, hard_deletes, time) ==
    /\ \A e, f \in refunds : e = f
    /\ m.content = "unsent" => refunds = {} /\ hard_deletes = {}
    /\ m.content = "prize" =>
          /\ \A e \in refunds : e.due = m.end_date
          /\ \A e \in hard_deletes :
                /\ m.deleted_by = "sender"
                /\ e.due = Capped(m.deleted_at + HardDeleteDelay)
          /\ time < m.end_date => refunds # {}

LEMMA JobsInvIsJobsFit ==
    ASSUME Typed, Typed'
    PROVE  /\ JobsInv <=> \A p \in Prizes : JobsFit(message[p], Refunds(p), HardDeletes(p), now)
           /\ JobsInv' <=> \A p \in Prizes :
                              JobsFit(message'[p], Refunds(p)', HardDeletes(p)', now')
<1>1. \A p \in Prizes : /\ Queued(jobs, RefundPrize(p)) <=> Refunds(p) # {}
                        /\ Queued(jobs', RefundPrize(p)) <=> Refunds(p)' # {}
  BY DEF Queued, Refunds, Waiting
<1> QED BY <1>1 DEF JobsInv, JobsTruthful, RefundIsScheduled, JobsFit, IsPrize

LEMMA InitJobsInv == Init => JobsInv
<1> SUFFICES ASSUME Init PROVE JobsInv
  OBVIOUS
<1>1. \A p \in Prizes : message[p].content = "unsent" /\ Refunds(p) = {} /\ HardDeletes(p) = {}
  BY DEF Init, Unsent, Refunds, HardDeletes, Waiting
<1> QED BY <1>1 DEF JobsInv, JobsTruthful, RefundIsScheduled, IsPrize

\* Every step keeps what the jobs promise, message by message.
LEMMA NextKeepsJobsInv ==
    ASSUME PrizesInv, PrizesInv', JobsInv, [Next]_vars
    PROVE  JobsInv'
<1> DEFINE Fits(p) == JobsFit(message[p], Refunds(p), HardDeletes(p), now)
           FitsNext(p) == JobsFit(message'[p], Refunds(p)', HardDeletes(p)', now')
<1>1. /\ Typed /\ Typed' /\ jobs \in SUBSET Entries
      /\ now \in Nat /\ now' \in Nat /\ now <= now'
      /\ message \in [Prizes -> Messages]
  BY TimeGoesOn, TimesAreNat DEF PrizesInv, Typed
<1>2. \A p \in Prizes : Fits(p)
  BY <1>1, JobsInvIsJobsFit
<1> SUFFICES \A p \in Prizes : FitsNext(p)
  BY <1>1, JobsInvIsJobsFit
\* Messages and jobs that do not change stay fitting as time goes on.
<1>3. ASSUME NEW p \in Prizes, message'[p] = message[p],
             Refunds(p)' = Refunds(p), HardDeletes(p)' = HardDeletes(p)
      PROVE  FitsNext(p)
  <2>1. message[p].end_date \in Nat
    BY <1>1 DEF Messages
  <2> QED BY <1>1, <1>2, <1>3, <2>1 DEF JobsFit
<1>4. ASSUME NEW p \in Prizes, SendPrize(p)
      PROVE  \A q \in Prizes : FitsNext(q)
  <2>1. PICK end \in EndDates :
           /\ message'[p].content = "prize" /\ message'[p].end_date = end
           /\ \A q \in Prizes \ {p} : message'[q] = message[q]
           /\ jobs' = Enqueue(jobs, RefundPrize(p), end)
    BY <1>1, <1>4 DEF SendPrize, Unsent
  <2> DEFINE new == Entry(RefundPrize(p), end)
  <2>a. \A j : Waiting(jobs', j) = IF j = RefundPrize(p) THEN Waiting(jobs, j) \cup {new}
                                   ELSE Waiting(jobs, j)
    BY <2>1, WaitingEnqueue
  <2> HIDE DEF new
  <2>2. \A q \in Prizes : /\ HardDeletes(q)' = HardDeletes(q)
                          /\ q # p => Refunds(q)' = Refunds(q)
    BY <2>a, JobsDiffer DEF Refunds, HardDeletes
  <2>3. Refunds(p)' = Refunds(p) \cup {new}
    BY <2>a DEF Refunds
  <2>4. Refunds(p) = {} /\ HardDeletes(p) = {}
    BY <1>2, <1>4 DEF SendPrize, JobsFit
  <2>5. FitsNext(p)
    BY <2>1, <2>2, <2>3, <2>4 DEF JobsFit, Entry, new
  <2> QED BY <1>3, <2>1, <2>2, <2>5
<1>5. ASSUME NEW p \in Prizes, NEW who \in {"sender", "admin"}, DeleteMessage(p, who)
      PROVE  \A q \in Prizes : FitsNext(q)
  <2> DEFINE due == Capped(now + HardDeleteDelay)
             m == [message[p] EXCEPT !.deleted_by = who, !.deleted_at = now]
  <2>1. /\ message' = [message EXCEPT ![p] = m]
        /\ jobs' = IF who = "sender" THEN Enqueue(jobs, HardDelete(p), due) ELSE jobs
        /\ IsPrize(p) /\ message[p].deleted_by = "none" /\ now' = now
    BY <1>5 DEF DeleteMessage
  <2> DEFINE new == Entry(HardDelete(p), due)
  <2>a. \A j : Waiting(jobs', j) = IF j = HardDelete(p) /\ who = "sender"
                                   THEN Waiting(jobs, j) \cup {new} ELSE Waiting(jobs, j)
    BY <2>1, WaitingEnqueue
  <2>b. new.due = due
    BY DEF Entry
  <2> HIDE DEF new
  <2>2. \A q \in Prizes : /\ Refunds(q)' = Refunds(q)
                          /\ q # p => HardDeletes(q)' = HardDeletes(q)
    BY <2>a, JobsDiffer DEF Refunds, HardDeletes
  <2>3. HardDeletes(p) = {}
    BY <1>2, <2>1 DEF JobsFit, IsPrize
  <2>4. HardDeletes(p)' = IF who = "sender" THEN {new} ELSE {}
    BY <2>a, <2>3 DEF HardDeletes
  <2>5. /\ m.content = message[p].content /\ m.end_date = message[p].end_date
        /\ m.deleted_by = who /\ m.deleted_at = now /\ message'[p] = m
    BY <1>1, <2>1 DEF Messages
  <2>6. FitsNext(p)
    <3> HIDE DEF m
    <3>1. Refunds(p)' = Refunds(p)
      BY <2>2
    <3> QED BY <1>2, <2>b, <2>1, <2>4, <2>5, <3>1 DEF JobsFit, IsPrize
  <2> QED BY <1>1, <1>3, <2>1, <2>2, <2>6
<1>6. ASSUME NEW p \in Prizes, UndeleteMessage(p)
      PROVE  \A q \in Prizes : FitsNext(q)
  <2> DEFINE m == [message[p] EXCEPT !.deleted_by = "none", !.deleted_at = 0]
  <2>1. /\ message' = [message EXCEPT ![p] = m] /\ now' = now
        /\ jobs' = CancelJobs(jobs, {HardDelete(p)})
    BY <1>6 DEF UndeleteMessage
  <2>a. \A j : Waiting(jobs', j) = IF j = HardDelete(p) THEN {} ELSE Waiting(jobs, j)
    BY <2>1, WaitingCancelJobs
  <2>2. \A q \in Prizes : /\ Refunds(q)' = Refunds(q)
                          /\ HardDeletes(q)' = IF q = p THEN {} ELSE HardDeletes(q)
    BY <2>a, JobsDiffer DEF Refunds, HardDeletes
  <2>3. m.content = message[p].content /\ m.end_date = message[p].end_date /\ message'[p] = m
    BY <1>1, <2>1 DEF Messages
  <2>4. FitsNext(p)
    BY <1>2, <2>1, <2>2, <2>3 DEF JobsFit
  <2> QED BY <1>1, <1>3, <2>1, <2>2, <2>4
<1>7. ASSUME NEW p \in Prizes, ExpireMessage(p)
      PROVE  \A q \in Prizes : FitsNext(q)
  <2>1. /\ message'[p].content = "removed" /\ jobs' = jobs
        /\ \A q \in Prizes \ {p} : message'[q] = message[q]
    BY <1>1, <1>7 DEF ExpireMessage, Unsent
  <2>2. FitsNext(p)
    BY <1>2, <2>1 DEF JobsFit, Refunds, HardDeletes
  <2> QED BY <1>3, <2>1, <2>2 DEF Refunds, HardDeletes
<1>8. ASSUME NEW p \in Prizes, NEW u \in Users,
             ReservePrize(p, u) \/ CommitClaim(p, u) \/ RollbackClaim(p, u)
      PROVE  \A q \in Prizes : FitsNext(q)
  <2>1. jobs' = jobs /\ now' = now
    BY <1>8 DEF ReservePrize, CommitClaim, RollbackClaim
  <2>2. \A q \in Prizes : /\ message'[q].content = message[q].content
                          /\ message'[q].end_date = message[q].end_date
                          /\ message'[q].deleted_by = message[q].deleted_by
                          /\ message'[q].deleted_at = message[q].deleted_at
    BY <1>1, <1>8 DEF ReservePrize, CommitClaim, RollbackClaim, Messages
  <2> QED BY <1>2, <2>1, <2>2 DEF JobsFit, Refunds, HardDeletes
<1>9. ASSUME NEW p \in Prizes, RunHardDelete(p)
      PROVE  \A q \in Prizes : FitsNext(q)
  <2>1. PICK e \in Due(jobs, now) :
           /\ e.job = HardDelete(p)
           /\ \/ \E r \in CancelJob(Fired(jobs, e), {RefundPrize(p)}) :
                   /\ message' = [message EXCEPT ![p].content = "deleted"]
                   /\ jobs' = r.left
              \/ jobs' = Fired(jobs, e) /\ UNCHANGED message
    BY <1>9 DEF RunHardDelete
  <2>2. /\ e \in jobs /\ Fired(jobs, e) \in SUBSET Entries /\ now' = now
        /\ \A q \in Prizes : e \notin Refunds(q) /\ (q # p => e \notin HardDeletes(q))
    BY <1>1, <1>9, <2>1, EntriesTyped, JobsDiffer
       DEF Due, Refunds, HardDeletes, Waiting, RunHardDelete
  <2>a. \A j : Waiting(Fired(jobs, e), j) = Waiting(jobs, j) \ {e}
    BY <1>1, <2>2, WaitingFired
  <2>3. \A q \in Prizes : /\ Waiting(Fired(jobs, e), RefundPrize(q)) = Refunds(q)
                          /\ Waiting(Fired(jobs, e), HardDelete(q)) = HardDeletes(q) \ {e}
    BY <2>2, <2>a DEF Refunds, HardDeletes
  <2>4. CASE jobs' = Fired(jobs, e) /\ UNCHANGED message
    <3>1. \A q \in Prizes : Refunds(q)' = Refunds(q) /\ HardDeletes(q)' \subseteq HardDeletes(q)
      BY <2>3, <2>4 DEF Refunds, HardDeletes
    <3> QED BY <1>2, <2>2, <2>4, <3>1 DEF JobsFit
  <2>5. ASSUME NEW r \in CancelJob(Fired(jobs, e), {RefundPrize(p)}),
               message' = [message EXCEPT ![p].content = "deleted"], jobs' = r.left
        PROVE  \A q \in Prizes : FitsNext(q)
    <3> DEFINE js == Fired(jobs, e)
               refund == RefundPrize(p)
    <3>a. /\ \A j : j # refund => Waiting(jobs', j) = Waiting(js, j)
          /\ Waiting(jobs', refund) \subseteq Waiting(js, refund)
      <4>1. js \in SUBSET Entries /\ r \in CancelJob(js, {refund}) /\ jobs' = r.left
        BY <2>2, <2>5
      <4> HIDE DEF js, refund
      <4> QED BY <4>1, WaitingAfterCancelJob
    <3> HIDE DEF js
    <3>1. \A q \in Prizes : /\ HardDeletes(q)' = HardDeletes(q) \ {e}
                            /\ q # p => Refunds(q)' = Refunds(q)
      BY <2>3, <3>a, JobsDiffer DEF Refunds, HardDeletes, js
    <3>2. Refunds(p)' \subseteq Refunds(p)
      BY <2>3, <3>a DEF Refunds, js
    <3>3. message'[p].content = "deleted" /\ \A q \in Prizes \ {p} : message'[q] = message[q]
      BY <1>1, <2>5 DEF Messages
    <3>4. FitsNext(p)
      BY <1>2, <3>2, <3>3 DEF JobsFit
    <3>5. \A q \in Prizes \ {p} : FitsNext(q)
      BY <1>2, <2>2, <3>1, <3>3 DEF JobsFit
    <3> QED BY <3>4, <3>5
  <2> QED BY <2>1, <2>4, <2>5
<1>10. ASSUME NEW p \in Prizes, RunRefundPrize(p)
       PROVE  \A q \in Prizes : FitsNext(q)
  <2>1. PICK e \in Due(jobs, now) : e.job = RefundPrize(p) /\ jobs' = Fired(jobs, e)
    BY <1>10 DEF RunRefundPrize
  <2>2. /\ e \in jobs /\ e \in Refunds(p) /\ e.due <= now /\ now' = now /\ message' = message
        /\ \A q \in Prizes : e \notin HardDeletes(q) /\ (q # p => e \notin Refunds(q))
    BY <1>10, <2>1, JobsDiffer DEF Due, Refunds, HardDeletes, Waiting, RunRefundPrize
  <2>a. \A j : Waiting(jobs', j) = Waiting(jobs, j) \ {e}
    BY <1>1, <2>1, <2>2, WaitingFired
  <2>3. \A q \in Prizes : Refunds(q)' = Refunds(q) \ {e} /\ HardDeletes(q)' = HardDeletes(q)
    BY <2>2, <2>a DEF Refunds, HardDeletes
  <2>4. IsPrize(p) => ~(now < message[p].end_date)
    BY <1>1, <1>2, <2>2 DEF JobsFit, IsPrize, Messages
  <2>5. FitsNext(p)
    BY <1>2, <2>2, <2>3, <2>4 DEF JobsFit, IsPrize
  <2> QED BY <1>3, <2>2, <2>3, <2>5
<1>11. CASE RunMakeTransfer
  <2>1. PICK e \in Due(jobs, now) : e.job.kind = "MakeTransfer" /\ jobs' = Fired(jobs, e)
    BY <1>11 DEF RunMakeTransfer
  <2>2. \A q \in Prizes : e \notin HardDeletes(q) /\ e \notin Refunds(q)
    BY <2>1 DEF Refunds, HardDeletes, Waiting, RefundPrize, HardDelete
  <2>3. \A q \in Prizes : Refunds(q)' = Refunds(q) /\ HardDeletes(q)' = HardDeletes(q)
    <3>1. \A j : Waiting(jobs', j) = Waiting(jobs, j) \ {e}
      BY <1>1, <2>1, WaitingFired DEF Due
    <3> QED BY <2>2, <3>1 DEF Refunds, HardDeletes
  <2> QED BY <1>3, <1>11, <2>3 DEF RunMakeTransfer
<1>12. ASSUME NEW c \in calls, RefundReply(c)
       PROVE  \A q \in Prizes : FitsNext(q)
  <2>1. /\ message' = message
        /\ \/ jobs' = Enqueue(jobs, MakeTransfer(c.tx), Capped(now + RetryDelay))
           \/ jobs' = jobs
    BY <1>12 DEF RefundReply
  <2>2. \A q \in Prizes : Refunds(q)' = Refunds(q) /\ HardDeletes(q)' = HardDeletes(q)
    <3>1. \A j : j # MakeTransfer(c.tx) => Waiting(jobs', j) = Waiting(jobs, j)
      BY <2>1, WaitingEnqueue
    <3> QED BY <3>1, JobsDiffer DEF Refunds, HardDeletes
  <2> QED BY <1>3, <2>1, <2>2
<1>13. CASE Upgrade
  <2>1. message' = message /\ jobs' = Upgraded(jobs)
    BY <1>13 DEF Upgrade
  <2>2. \A q \in Prizes : Refunds(q)' = Refunds(q) /\ HardDeletes(q)' = HardDeletes(q)
    BY <2>1, WaitingUpgraded DEF Refunds, HardDeletes
  <2> QED BY <1>3, <2>1, <2>2
<1>14. CASE \/ \E c \in calls : LedgerAccepts(c) \/ LedgerRejects(c)
            \/ Freeze \/ Tick \/ UNCHANGED vars
  <2>1. message' = message /\ jobs' = jobs
    BY <1>14 DEF LedgerAccepts, LedgerRejects, Freeze, Tick, vars
  <2> QED BY <1>3, <2>1 DEF Refunds, HardDeletes
<1> QED BY <1>4, <1>5, <1>6, <1>7, <1>8, <1>9, <1>10, <1>11, <1>12, <1>13, <1>14 DEF Next

LEMMA JobsInvariance == Spec => [](PrizesInv /\ JobsInv)
<1>1. PrizesInv /\ PrizesInv' /\ JobsInv /\ [Next]_vars => JobsInv'
  BY NextKeepsJobsInv
<1> QED BY <1>1, InitJobsInv, PrizesInvariance, PTL DEF Spec

\* A prize message keeps a refund in the queue until its end date: no cancelled
\* hard delete, executed job or upgrade takes it away.
THEOREM RefundStaysScheduled == Spec => []RefundIsScheduled
<1>1. JobsInv => RefundIsScheduled
  BY DEF JobsInv
<1> QED BY <1>1, JobsInvariance, PTL

\* HardDeleteMessageContentJob runs only when the sender of the message has
\* left it deleted for as long as the delay.
LEMMA DestructionIsDue ==
    ASSUME PrizesInv, PrizesInv', JobsInv, [Next]_vars, NEW p \in Prizes,
           message'[p].content = "deleted", message[p].content # "deleted"
    PROVE  /\ message[p].deleted_by = "sender"
           /\ now >= Capped(message[p].deleted_at + HardDeleteDelay)
<1>1. /\ Typed /\ Typed' /\ message \in [Prizes -> Messages]
      /\ now \in Nat /\ \A t \in Nat : Capped(t) \in Nat
  BY TimesAreNat DEF PrizesInv, Typed
<1>2. JobsFit(message[p], Refunds(p), HardDeletes(p), now)
  BY <1>1, JobsInvIsJobsFit
<1>3. CASE \E q \in Prizes : RunHardDelete(q)
  <2>1. PICK q \in Prizes : RunHardDelete(q)
    BY <1>3
  <2>2. IsPrize(q) /\ message' = [message EXCEPT ![q].content = "deleted"] /\ q = p
    BY <1>1, <2>1 DEF RunHardDelete
  <2>3. PICK e \in HardDeletes(p) : e.due <= now
    BY <2>1, <2>2 DEF RunHardDelete, HardDeletes, Waiting, Due
  <2>4. message[p].deleted_by = "sender"
        /\ e.due = Capped(message[p].deleted_at + HardDeleteDelay)
    BY <1>2, <2>2, <2>3 DEF JobsFit, IsPrize
  <2> QED BY <2>3, <2>4
<1>4. CASE ~\E q \in Prizes : RunHardDelete(q)
  <2>1. ASSUME NEW q \in Prizes, SendPrize(q) PROVE FALSE
    BY <1>1, <2>1 DEF SendPrize, Unsent
  <2>2. ASSUME NEW q \in Prizes, ExpireMessage(q) PROVE FALSE
    BY <1>1, <2>2 DEF ExpireMessage, Unsent
  <2>3. ASSUME NEW q \in Prizes, NEW who, DeleteMessage(q, who) PROVE FALSE
    BY <1>1, <2>3 DEF DeleteMessage, Messages
  <2>4. ASSUME NEW q \in Prizes, UndeleteMessage(q) PROVE FALSE
    BY <1>1, <2>4 DEF UndeleteMessage, Messages
  <2>5. ASSUME NEW q \in Prizes, NEW u, ReservePrize(q, u) \/ CommitClaim(q, u) \/ RollbackClaim(q, u)
        PROVE  FALSE
    BY <1>1, <2>5 DEF ReservePrize, CommitClaim, RollbackClaim, Messages
  <2>6. ASSUME UNCHANGED message PROVE FALSE
    BY <2>6
  <2> QED BY <1>4, <2>1, <2>2, <2>3, <2>4, <2>5, <2>6
          DEF Next, vars, RunRefundPrize, RunMakeTransfer, RefundReply, LedgerAccepts,
              LedgerRejects, Freeze, Upgrade, Tick
<1> QED BY <1>3, <1>4

\* The content of a message is destroyed only after its sender deleted it and
\* left it deleted for the delay.
THEOREM DestroyedInTime == Spec => DestroyedOnlyAfterDelay
<1> DEFINE Destroyed(p) == message'[p].content = "deleted" /\ message[p].content # "deleted"
           InTime(p) == /\ message[p].deleted_by = "sender"
                        /\ now >= Capped(message[p].deleted_at + HardDeleteDelay)
<1>1. (PrizesInv /\ JobsInv) /\ (PrizesInv /\ JobsInv)' /\ [Next]_vars
         => [\A p \in Prizes : Destroyed(p) => InTime(p)]_vars
  BY DestructionIsDue
<1>2. DestroyedOnlyAfterDelay <=> [][\A p \in Prizes : Destroyed(p) => InTime(p)]_vars
  BY DEF DestroyedOnlyAfterDelay
<1> QED BY <1>1, <1>2, JobsInvariance, PTL DEF Spec

-----------------------------------------------------------------------------
(* The payments *)

\* The transfers that were asked of the ledger, and those to be asked again.
Attempted == ledger \cup {c.tx : c \in calls}
Retried == {e.job.tx : e \in {d \in jobs : d.queued /\ d.job.kind = "MakeTransfer"}}
ClaimsOf(p, u) ==
    {tx \in ledger \cup {c.tx : c \in calls} : tx.memo = "claim" /\ tx.prize = p /\ tx.to = u}

\* There is one call for each claim, and its answer is right.
CallsTruthful ==
    \A c \in calls : c.tx.memo = "claim" =>
        /\ c.reply = "ok" <=> c.tx \in ledger
        /\ \A d \in calls : d.tx = c.tx => d = c

\* A message is refunded once, when no refund is queued any more and, while it
\* can still be claimed, not before its end date; a member claims once and is
\* remembered; and nothing happens before the message is sent.
PaymentsFit(p) ==
    /\ \A r, s \in RefundsInPlay(p) : r = s
    /\ \A r \in RefundsInPlay(p) :
          /\ Refunds(p) = {}
          /\ r.created <= now
          /\ IsPrize(p) => message[p].end_date <= r.created
    /\ \A u \in Users :
          /\ \A s, t \in ClaimsOf(p, u) : s = t
          /\ \A t \in ClaimsOf(p, u) :
                t.created <= now /\ (IsPrize(p) => AlreadyClaimed(message[p], u))
    /\ message[p].content = "unsent" =>
          RefundsInPlay(p) = {} /\ \A u \in Users : ClaimsOf(p, u) = {}

PaymentsInv == CallsTruthful /\ \A p \in Prizes : PaymentsFit(p)

\* Where the properties look for payments.
LEMMA InPlay ==
    ASSUME NEW p
    PROVE  /\ RefundsInPlay(p) =
                {tx \in Attempted \cup Retried : tx.memo = "refund" /\ tx.prize = p}
           /\ \A u : ClaimsOf(p, u) =
                {tx \in Attempted : tx.memo = "claim" /\ tx.prize = p /\ tx.to = u}
           /\ RefundsInPlay(p)' =
                {tx \in Attempted' \cup Retried' : tx.memo = "refund" /\ tx.prize = p}
           /\ \A u : ClaimsOf(p, u)' =
                {tx \in Attempted' : tx.memo = "claim" /\ tx.prize = p /\ tx.to = u}
  BY DEF RefundsInPlay, ClaimsOf, Attempted, Retried

\* Payments are those of claims and of refunds.
LEMMA PaymentsTyped ==
    ASSUME Typed
    PROVE  /\ Attempted \subseteq ClaimTxs \cup RefundTxs /\ Retried \subseteq RefundTxs
           /\ \A tx \in ClaimTxs : tx.memo = "claim" /\ tx.to \in Users
                                   /\ tx.prize \in Prizes /\ tx.created \in Nat
           /\ \A tx \in RefundTxs : tx.memo = "refund" /\ tx.prize \in Prizes
                                    /\ tx.created \in Nat /\ tx.units \in Nat
<1>1. Attempted \subseteq ClaimTxs \cup RefundTxs
  BY DEF Typed, Attempted, Calls
<1>2. ASSUME NEW e \in jobs, e.job.kind = "MakeTransfer"
      PROVE  e.job.tx \in RefundTxs
  BY <1>2 DEF Typed, Entries, AllJobs, MakeTransfer, HardDelete, RefundPrize
<1> QED BY <1>1, <1>2, TimesAreNat DEF Retried, ClaimTxs, RefundTxs, Txs

LEMMA InitPaymentsInv == Init => PaymentsInv
<1> SUFFICES ASSUME Init PROVE PaymentsInv
  OBVIOUS
<1>1. \A p \in Prizes : RefundsInPlay(p) = {} /\ \A u \in Users : ClaimsOf(p, u) = {}
  BY DEF Init, RefundsInPlay, ClaimsOf
<1> QED BY <1>1 DEF Init, PaymentsInv, CallsTruthful, PaymentsFit

\* Nothing new is paid, and the message stays as it is for its payments.
LEMMA NothingNewFits ==
    ASSUME PrizesInv, PrizesInv', now <= now', NEW p \in Prizes, PaymentsFit(p),
           RefundsInPlay(p)' \subseteq RefundsInPlay(p),
           \A u \in Users : ClaimsOf(p, u)' \subseteq ClaimsOf(p, u),
           RefundsInPlay(p)' # {} => Refunds(p)' \subseteq Refunds(p),
           message'[p].content = "unsent" => message[p].content = "unsent",
           message'[p].content = "prize" =>
              /\ RefundsInPlay(p)' # {} =>
                    IsPrize(p) /\ message'[p].end_date = message[p].end_date
              /\ \A u \in Users : ClaimsOf(p, u)' # {} =>
                    /\ IsPrize(p)
                    /\ AlreadyClaimed(message[p], u) => AlreadyClaimed(message'[p], u)
    PROVE  PaymentsFit(p)'
<1>1. now \in Nat /\ now' \in Nat
  BY TimesAreNat DEF PrizesInv, Typed
<1>2. /\ \A r \in RefundsInPlay(p) : r.created \in Nat
      /\ \A u \in Users : \A t \in ClaimsOf(p, u) : t.created \in Nat
  <2>1. /\ \A r \in RefundsInPlay(p) : r \in ClaimTxs \cup RefundTxs
        /\ \A u \in Users : \A t \in ClaimsOf(p, u) : t \in ClaimTxs \cup RefundTxs
    BY InPlay, PaymentsTyped DEF PrizesInv
  <2> QED BY <2>1, PaymentsTyped DEF PrizesInv
<1>3. \A r, s \in RefundsInPlay(p)' : r = s
  BY DEF PaymentsFit
<1>4. ASSUME NEW r \in RefundsInPlay(p)'
      PROVE  /\ Refunds(p)' = {}
             /\ r.created <= now'
             /\ IsPrize(p)' => message'[p].end_date <= r.created
  BY <1>1, <1>2, <1>4 DEF PaymentsFit, IsPrize
<1>5. ASSUME NEW u \in Users
      PROVE  /\ \A s, t \in ClaimsOf(p, u)' : s = t
             /\ \A t \in ClaimsOf(p, u)' :
                  t.created <= now' /\ (IsPrize(p)' => AlreadyClaimed(message'[p], u))
  BY <1>1, <1>2, <1>5 DEF PaymentsFit, IsPrize
<1>6. message'[p].content = "unsent" =>
         RefundsInPlay(p)' = {} /\ \A u \in Users : ClaimsOf(p, u)' = {}
  BY DEF PaymentsFit
<1> QED BY <1>3, <1>4, <1>5, <1>6 DEF PaymentsFit

\* Steps after which every payment in play is one that was in play before,
\* and that do not touch the messages.
LEMMA NothingNewIsPaid ==
    ASSUME PrizesInv, PrizesInv', PaymentsInv, [Next]_vars, UNCHANGED message,
           Attempted' \subseteq Attempted \cup Retried,
           Retried' \subseteq Attempted \cup Retried,
           \A p \in Prizes : Refunds(p)' \subseteq Refunds(p)
    PROVE  \A p \in Prizes : PaymentsFit(p)'
<1> SUFFICES ASSUME NEW p \in Prizes PROVE PaymentsFit(p)'
  OBVIOUS
<1>1. RefundsInPlay(p)' \subseteq RefundsInPlay(p)
  BY InPlay
<1>2. \A u \in Users : ClaimsOf(p, u)' \subseteq ClaimsOf(p, u)
  <2>1. \A tx \in Retried : tx.memo # "claim"
    BY PaymentsTyped DEF PrizesInv
  <2> QED BY <2>1, InPlay
<1>3. \A u \in Users : ClaimsOf(p, u) # {} /\ IsPrize(p) => AlreadyClaimed(message[p], u)
  BY DEF PaymentsInv, PaymentsFit
<1> QED BY <1>1, <1>2, TimeGoesOn, NothingNewFits DEF PaymentsInv, IsPrize

\* Steps that only touch messages and the jobs about them.
LEMMA MessagesKeepPayments ==
    ASSUME PrizesInv, PrizesInv', JobsInv, JobsInv', PaymentsInv, [Next]_vars,
           NEW p \in Prizes,
           \/ SendPrize(p)
           \/ \E who \in {"sender", "admin"} : DeleteMessage(p, who)
           \/ UndeleteMessage(p)
           \/ ExpireMessage(p)
    PROVE  PaymentsInv'
<1>1. /\ UNCHANGED <<calls, ledger>>
      /\ \A q \in Prizes \ {p} : message'[q] = message[q]
      /\ message \in [Prizes -> Messages]
  BY DEF SendPrize, DeleteMessage, UndeleteMessage, ExpireMessage, PrizesInv, Typed
<1>2. Attempted' = Attempted
  BY <1>1 DEF Attempted
\* The only new entry is one for a refund or a hard delete of this message.
<1>a. \/ \E due : jobs' = jobs \cup {Entry(RefundPrize(p), due)} /\ SendPrize(p)
      \/ \E due : jobs' = jobs \cup {Entry(HardDelete(p), due)} /\ ~SendPrize(p)
      \/ jobs' \subseteq jobs /\ ~SendPrize(p)
  <2>1. CASE SendPrize(p)
    BY <2>1 DEF SendPrize, Enqueue
  <2>2. ASSUME NEW who, DeleteMessage(p, who)
        PROVE  /\ ~SendPrize(p)
               /\ \/ \E due : jobs' = jobs \cup {Entry(HardDelete(p), due)}
                  \/ jobs' = jobs
    BY <2>2 DEF DeleteMessage, SendPrize, IsPrize, Enqueue
  <2>3. ASSUME UndeleteMessage(p) \/ ExpireMessage(p)
        PROVE  ~SendPrize(p) /\ jobs' \subseteq jobs
    BY <2>3 DEF UndeleteMessage, ExpireMessage, SendPrize, IsPrize, CancelJobs
  <2> QED BY <2>1, <2>2, <2>3
<1>b. \A job, due : Entry(job, due).job = job
  BY DEF Entry
<1>3. Retried' \subseteq Retried
  <2>1. \A e \in jobs' : e.queued /\ e.job.kind = "MakeTransfer" => e \in jobs
    <3>1. RefundPrize(p).kind # "MakeTransfer" /\ HardDelete(p).kind # "MakeTransfer"
      BY DEF RefundPrize, HardDelete
    <3> QED BY <1>a, <1>b, <3>1
  <2> QED BY <2>1 DEF Retried
<1>4. \A q \in Prizes : /\ RefundsInPlay(q)' \subseteq RefundsInPlay(q)
                        /\ \A u \in Users : ClaimsOf(q, u)' \subseteq ClaimsOf(q, u)
  BY <1>2, <1>3, InPlay
<1>5. \A q \in Prizes : q # p \/ ~SendPrize(p) => Refunds(q)' \subseteq Refunds(q)
  <2>1. SUFFICES ASSUME NEW q \in Prizes, q # p \/ ~SendPrize(p),
                        NEW e \in jobs', e.queued, e.job = RefundPrize(q)
                 PROVE  e \in jobs
    BY DEF Refunds, Waiting
  <2>2. HardDelete(p) # RefundPrize(q) /\ (q # p => RefundPrize(p) # RefundPrize(q))
    BY JobsDiffer
  <2> QED BY <1>a, <1>b, <2>1, <2>2
<1>6. \A q \in Prizes : PaymentsFit(q)
  BY DEF PaymentsInv
<1>7. \A q \in Prizes \ {p} : PaymentsFit(q)'
  BY <1>1, <1>4, <1>5, <1>6, TimeGoesOn, NothingNewFits DEF IsPrize
<1>8. PaymentsFit(p)'
  <2>1. CASE SendPrize(p)
    <3>1. message[p].content = "unsent"
      BY <2>1 DEF SendPrize
    <3>2. RefundsInPlay(p)' = {} /\ \A u \in Users : ClaimsOf(p, u)' = {}
      BY <1>4, <1>6, <3>1 DEF PaymentsFit
    <3> QED BY <3>2 DEF PaymentsFit
  <2>2. CASE ~SendPrize(p)
    <3>1. /\ message'[p].content = "unsent" => message[p].content = "unsent"
          /\ message'[p].content = "prize" =>
                /\ IsPrize(p) /\ message'[p].end_date = message[p].end_date
                /\ message'[p].winners = message[p].winners
                /\ message'[p].reservations = message[p].reservations
      <4>1. CASE ExpireMessage(p)
        BY <1>1, <4>1 DEF ExpireMessage, Unsent
      <4>2. CASE UndeleteMessage(p)
        BY <1>1, <4>2 DEF UndeleteMessage, IsPrize, Messages
      <4>3. ASSUME NEW who \in {"sender", "admin"}, DeleteMessage(p, who)
            PROVE  /\ IsPrize(p)
                   /\ message'[p].content = message[p].content
                   /\ message'[p].end_date = message[p].end_date
                   /\ message'[p].winners = message[p].winners
                   /\ message'[p].reservations = message[p].reservations
        BY <1>1, <4>3 DEF DeleteMessage, IsPrize, Messages
      <4> QED BY <2>2, <4>1, <4>2, <4>3 DEF IsPrize
    <3>2. message'[p].content = "prize" => 
            \A u \in Users : AlreadyClaimed(message[p], u) => AlreadyClaimed(message'[p], u)
      BY <3>1 DEF AlreadyClaimed
    <3> QED BY <1>4, <1>5, <1>6, <2>2, <3>1, <3>2, TimeGoesOn, NothingNewFits
  <2> QED BY <2>1, <2>2
<1>9. CallsTruthful'
  BY <1>1 DEF PaymentsInv, CallsTruthful
<1> QED BY <1>7, <1>8, <1>9 DEF PaymentsInv

\* reserve_prize: the new claim is the member's first.
LEMMA ReserveKeepsPayments ==
    ASSUME PrizesInv, PrizesInv', PaymentsInv, [Next]_vars,
           NEW p \in Prizes, NEW u \in Users, ReservePrize(p, u)
    PROVE  PaymentsInv'
<1> DEFINE tx == Transfer("claim", p, u, 1, now)
           new == Call(tx)
<1>1. /\ calls' = calls \cup {new} /\ ledger' = ledger /\ jobs' = jobs /\ now' = now
      /\ IsPrize(p) /\ ~AlreadyClaimed(message[p], u)
      /\ message' = [message EXCEPT ![p].prizes_remaining = @ - 1,
                                    ![p].reservations = @ \cup {u}]
      /\ message \in [Prizes -> Messages]
  BY DEF ReservePrize, PrizesInv, Typed
<1>2. /\ new.tx = tx /\ new.reply = "none"
      /\ tx.memo = "claim" /\ tx.prize = p /\ tx.to = u /\ tx.created = now
  BY DEF Call, Transfer
<1> HIDE DEF tx, new
<1>3. Attempted' = Attempted \cup {tx} /\ Retried' = Retried
  BY <1>1, <1>2 DEF Attempted, Retried
<1>4. ClaimsOf(p, u) = {} /\ tx \notin Attempted
  <2>1. ClaimsOf(p, u) = {}
    BY <1>1 DEF PaymentsInv, PaymentsFit
  <2> QED BY <1>2, <2>1, InPlay
<1>5. \A q \in Prizes : /\ RefundsInPlay(q)' = RefundsInPlay(q)
                        /\ Refunds(q)' = Refunds(q)
                        /\ \A v \in Users : ClaimsOf(q, v)' =
                              IF q = p /\ v = u THEN {tx} ELSE ClaimsOf(q, v)
  <2>1. ASSUME NEW q \in Prizes
        PROVE  RefundsInPlay(q)' = RefundsInPlay(q) /\ Refunds(q)' = Refunds(q)
    <3>1. RefundsInPlay(q)' = {x \in Attempted \cup {tx} \cup Retried :
                                  x.memo = "refund" /\ x.prize = q}
      BY <1>3, InPlay
    <3>2. RefundsInPlay(q) = {x \in Attempted \cup Retried :
                                  x.memo = "refund" /\ x.prize = q}
      BY InPlay
    <3>3. RefundsInPlay(q)' = RefundsInPlay(q)
      BY <1>2, <3>1, <3>2
    <3> QED BY <1>1, <3>3 DEF Refunds
  <2>2. ASSUME NEW q \in Prizes, NEW v \in Users, q # p \/ v # u
        PROVE  ClaimsOf(q, v)' = ClaimsOf(q, v)
    <3>1. ClaimsOf(q, v)' = {x \in Attempted \cup {tx} :
                                x.memo = "claim" /\ x.prize = q /\ x.to = v}
      BY <1>3, InPlay
    <3>2. ClaimsOf(q, v) = {x \in Attempted : x.memo = "claim" /\ x.prize = q /\ x.to = v}
      BY InPlay
    <3> QED BY <1>2, <2>2, <3>1, <3>2
  <2>3. ClaimsOf(p, u)' = {tx}
    BY <1>2, <1>3, <1>4, InPlay
  <2> QED BY <2>1, <2>2, <2>3
<1>6. /\ \A q \in Prizes \ {p} : message'[q] = message[q]
      /\ message'[p].content = message[p].content
      /\ message'[p].end_date = message[p].end_date
      /\ message'[p].winners = message[p].winners
      /\ message'[p].reservations = message[p].reservations \cup {u}
  BY <1>1 DEF Messages
<1>7. /\ AlreadyClaimed(message'[p], u)
      /\ \A v \in Users : AlreadyClaimed(message[p], v) => AlreadyClaimed(message'[p], v)
  BY <1>6 DEF AlreadyClaimed
<1>8. \A q \in Prizes : PaymentsFit(q)
  BY DEF PaymentsInv
<1>9. ASSUME NEW q \in Prizes PROVE PaymentsFit(q)'
  <2>1. CASE q # p
    BY <1>5, <1>6, <1>8, <2>1, TimeGoesOn, NothingNewFits DEF IsPrize
  <2>2. CASE q = p
    <3>1. /\ \A r, s \in RefundsInPlay(p)' : r = s
          /\ \A r \in RefundsInPlay(p)' :
                /\ Refunds(p)' = {}
                /\ r.created <= now'
                /\ IsPrize(p)' => message'[p].end_date <= r.created
      BY <1>1, <1>5, <1>6, <1>8 DEF PaymentsFit, IsPrize
    <3>2. ASSUME NEW v \in Users
          PROVE  /\ \A s, t \in ClaimsOf(p, v)' : s = t
                 /\ \A t \in ClaimsOf(p, v)' :
                       t.created <= now' /\ (IsPrize(p)' => AlreadyClaimed(message'[p], v))
      <4>1. CASE v = u
        BY <1>1, <1>2, <1>5, <1>7, <4>1, TimeGoesOn
      <4>2. CASE v # u
        BY <1>1, <1>5, <1>7, <1>8, <4>2 DEF PaymentsFit
      <4> QED BY <4>1, <4>2
    <3>3. message'[p].content # "unsent"
      BY <1>1, <1>6 DEF IsPrize
    <3> QED BY <2>2, <3>1, <3>2, <3>3 DEF PaymentsFit
  <2> QED BY <2>1, <2>2
<1>10. CallsTruthful'
  <2>1. tx \notin ledger /\ \A d \in calls : d.tx # tx
    BY <1>4 DEF Attempted
  <2> QED BY <1>1, <1>2, <2>1 DEF CallsTruthful, PaymentsInv
<1> QED BY <1>9, <1>10 DEF PaymentsInv

\* claim_prize and unreserve_prize: the call is over; a member whose claim has
\* failed has no other.
LEMMA ClaimAnsweredKeepsPayments ==
    ASSUME PrizesInv, PrizesInv', PaymentsInv, [Next]_vars,
           NEW p \in Prizes, NEW u \in Users, CommitClaim(p, u) \/ RollbackClaim(p, u)
    PROVE  PaymentsInv'
<1>1. /\ calls' \subseteq calls /\ ledger' = ledger /\ jobs' = jobs
      /\ message \in [Prizes -> Messages]
  BY DEF CommitClaim, RollbackClaim, PrizesInv, Typed
<1>2. Attempted' \subseteq Attempted /\ Retried' = Retried
  BY <1>1 DEF Attempted, Retried
<1>3. \A q \in Prizes : /\ RefundsInPlay(q)' \subseteq RefundsInPlay(q)
                        /\ Refunds(q)' = Refunds(q)
                        /\ \A v \in Users : ClaimsOf(q, v)' \subseteq ClaimsOf(q, v)
  BY <1>1, <1>2, InPlay DEF Refunds
<1>4. \A q \in Prizes : /\ message'[q].content = message[q].content
                        /\ message'[q].end_date = message[q].end_date
                        /\ q # p => message'[q] = message[q]
  BY <1>1 DEF CommitClaim, RollbackClaim, Messages
<1>5. ASSUME NEW v \in Users, AlreadyClaimed(message[p], v), ClaimsOf(p, v)' # {}
      PROVE  AlreadyClaimed(message'[p], v)
  <2>1. CASE CommitClaim(p, u)
    BY <1>1, <1>5, <2>1 DEF CommitClaim, AlreadyClaimed, Messages
  <2>2. CASE RollbackClaim(p, u) /\ v # u
    BY <1>1, <1>5, <2>2 DEF RollbackClaim, AlreadyClaimed, Messages
  <2>3. CASE RollbackClaim(p, u) /\ v = u
    <3>1. PICK c \in Claiming(p, u, "err") : calls' = calls \ {c}
      BY <2>3 DEF RollbackClaim
    <3>2. c \in calls /\ c.tx \in ClaimsOf(p, u) /\ c.tx.memo = "claim" /\ c.reply = "err"
      BY <3>1 DEF Claiming, ClaimsOf
    <3>3. c.tx \notin ledger /\ \A d \in calls : d.tx = c.tx => d = c
      BY <3>2 DEF PaymentsInv, CallsTruthful
    <3>4. c.tx \notin Attempted'
      BY <1>1, <3>1, <3>3 DEF Attempted
    <3>5. ClaimsOf(p, u) = {c.tx}
      BY <3>2 DEF PaymentsInv, PaymentsFit
    <3>6. ClaimsOf(p, u)' = {}
      BY <1>3, <3>4, <3>5, InPlay
    <3> QED BY <1>5, <2>3, <3>6
  <2> QED BY <2>1, <2>2, <2>3
<1>6. \A q \in Prizes : PaymentsFit(q)
  BY DEF PaymentsInv
<1>7. ASSUME NEW q \in Prizes PROVE PaymentsFit(q)'
  <2>1. \A v \in Users : ClaimsOf(q, v)' # {} /\ AlreadyClaimed(message[q], v)
                            => AlreadyClaimed(message'[q], v)
    BY <1>4, <1>5
  <2> QED BY <1>3, <1>4, <1>6, <2>1, TimeGoesOn, NothingNewFits DEF IsPrize
<1>8. CallsTruthful'
  BY <1>1 DEF PaymentsInv, CallsTruthful
<1> QED BY <1>7, <1>8 DEF PaymentsInv

\* HardDeleteMessageContentJob and RefundPrizeJob: a refund is computed only by
\* the job that was queued for it, so it is the first.
LEMMA RefundKeepsPayments ==
    ASSUME PrizesInv, PrizesInv', JobsInv, JobsInv', PaymentsInv, [Next]_vars,
           NEW p \in Prizes, RunHardDelete(p) \/ RunRefundPrize(p)
    PROVE  PaymentsInv'
<1>1. /\ ledger' = ledger /\ now' = now /\ message \in [Prizes -> Messages] /\ Typed /\ Typed'
      /\ jobs \in SUBSET Entries
  BY DEF RunHardDelete, RunRefundPrize, PrizesInv, Typed
<1>2. \A q \in Prizes : PaymentsFit(q) /\ JobsFit(message[q], Refunds(q), HardDeletes(q), now)
  BY <1>1, JobsInvIsJobsFit DEF PaymentsInv
\* What the two jobs do.
<1>3. PICK e \in Due(jobs, now) :
         \/ /\ e.job = HardDelete(p)
            /\ \/ /\ IsPrize(p)
                  /\ \E r \in CancelJob(Fired(jobs, e), {RefundPrize(p)}) :
                        /\ message' = [message EXCEPT ![p].content = "deleted"]
                        /\ jobs' = r.left
                        /\ calls' = IF r.cancelled # {} THEN calls \cup RefundOf(p) ELSE calls
               \/ jobs' = Fired(jobs, e) /\ UNCHANGED <<message, calls>>
         \/ /\ e.job = RefundPrize(p) /\ jobs' = Fired(jobs, e) /\ UNCHANGED message
            /\ calls' = calls \/ (IsPrize(p) /\ calls' = calls \cup RefundOf(p))
  <2>1. CASE RunHardDelete(p)
    BY <2>1 DEF RunHardDelete
  <2>2. CASE RunRefundPrize(p)
    BY <2>2 DEF RunRefundPrize
  <2> QED BY <2>1, <2>2
<1>4. e \in jobs /\ e.queued /\ e.due <= now
  BY DEF Due
\* No new job waits, and the job that refunds p is gone if p is refunded.
<1>5. /\ Retried' \subseteq Retried
      /\ \A q \in Prizes : Refunds(q)' \subseteq Refunds(q)
  <2>1. \A f \in Fired(jobs, e) : f.queued => f \in jobs
    BY <1>1, <1>4 DEF Fired, Entries
  <2>2. \A r \in CancelJob(Fired(jobs, e), {RefundPrize(p)}) : r.left \subseteq Fired(jobs, e)
    BY DEF CancelJob
  <2>3. jobs' \subseteq Fired(jobs, e)
    BY <1>3, <2>2
  <2> QED BY <2>1, <2>3 DEF Retried, Refunds, Waiting
<1>6. \/ calls' = calls
      \/ /\ IsPrize(p) /\ calls' = calls \cup RefundOf(p)
         /\ Refunds(p) # {} /\ Refunds(p)' = {}
         /\ message'[p].content = "prize" => message[p].end_date <= now
  <2>1. CASE calls' = calls
    BY <2>1
  <2>2. CASE calls' # calls /\ e.job = RefundPrize(p)
    <3>1. /\ e \in Refunds(p) /\ IsPrize(p) /\ jobs' = Fired(jobs, e) /\ UNCHANGED message
          /\ calls' = calls \cup RefundOf(p)
      BY <1>3, <1>4, <2>2, JobsDiffer DEF Refunds, Waiting
    <3>2. Refunds(p) = {e} /\ e.due = message[p].end_date
      BY <1>2, <3>1 DEF JobsFit, IsPrize
    <3>3. Refunds(p)' = {}
      BY <1>1, <1>4, <3>1, <3>2, WaitingFired DEF Refunds
    <3> QED BY <1>4, <3>1, <3>2, <3>3
  <2>3. CASE calls' # calls /\ e.job # RefundPrize(p)
    <3>1. PICK r \in CancelJob(Fired(jobs, e), {RefundPrize(p)}) :
             /\ message' = [message EXCEPT ![p].content = "deleted"]
             /\ jobs' = r.left /\ r.cancelled # {}
             /\ IsPrize(p) /\ calls' = calls \cup RefundOf(p)
      BY <1>3, <2>3
    <3> DEFINE js == Fired(jobs, e)
    <3>2. js \in SUBSET Entries /\ e.job = HardDelete(p)
      BY <1>1, <1>3, <1>4, <2>3, EntriesTyped
    <3>3. Waiting(js, RefundPrize(p)) = Refunds(p)
      <4>1. Waiting(js, RefundPrize(p)) = Waiting(jobs, RefundPrize(p)) \ {e}
        BY <1>1, <1>4, WaitingFired
      <4> QED BY <3>2, <4>1, JobsDiffer DEF Waiting, Refunds
    <3> HIDE DEF js
    <3>4. PICK f \in Refunds(p) : Waiting(r.left, RefundPrize(p)) = Refunds(p) \ {f}
      <4> DEFINE refund == RefundPrize(p)
      <4>1. r \in CancelJob(js, {refund})
        BY <3>1 DEF js
      <4> HIDE DEF refund
      <4>2. \E f \in Waiting(js, refund) : Waiting(r.left, refund) = Waiting(js, refund) \ {f}
        BY <3>1, <3>2, <4>1, WaitingAfterCancelJob
      <4> QED BY <3>3, <4>2 DEF refund
    <3>5. Refunds(p)' = {}
      BY <1>2, <3>1, <3>4 DEF JobsFit, Refunds
    <3>6. message'[p].content = "deleted"
      BY <1>1, <3>1 DEF Messages
    <3> QED BY <3>1, <3>4, <3>5, <3>6
  <2> QED BY <2>1, <2>2, <2>3
<1>7. \A q \in Prizes : /\ q # p => message'[q] = message[q]
                        /\ message'[q] = message[q] \/ message'[q].content = "deleted"
                        /\ message'[q].content = "prize" => message'[q] = message[q]
                        /\ message'[q].content = "unsent" => message[q].content = "unsent"
  BY <1>1, <1>3 DEF Messages
\* What is in play afterwards.
<1>8. \A q \in Prizes : /\ \A u \in Users : ClaimsOf(q, u)' \subseteq ClaimsOf(q, u)
                        /\ q # p \/ calls' = calls => RefundsInPlay(q)' \subseteq RefundsInPlay(q)
  <2>1. \A c \in RefundOf(p) : c.tx.memo = "refund" /\ c.tx.prize = p
    BY DEF RefundOf, Call, Transfer
  <2>2. \A tx \in Attempted' : tx \in Attempted \/ (calls' # calls /\ tx.memo = "refund" /\ tx.prize = p)
    BY <1>1, <1>6, <2>1 DEF Attempted
  <2>3. ASSUME NEW q \in Prizes, NEW u \in Users
        PROVE  ClaimsOf(q, u)' \subseteq ClaimsOf(q, u)
    <3>1. \A tx \in Attempted' : tx.memo = "claim" => tx \in Attempted
      BY <2>2
    <3> QED BY <3>1, InPlay
  <2>4. ASSUME NEW q \in Prizes, q # p \/ calls' = calls
        PROVE  RefundsInPlay(q)' \subseteq RefundsInPlay(q)
    BY <1>5, <2>2, <2>4, InPlay
  <2> QED BY <2>3, <2>4
<1>9. \A q \in Prizes, u \in Users :
         ClaimsOf(q, u) # {} /\ IsPrize(q) => AlreadyClaimed(message[q], u)
  BY <1>2 DEF PaymentsFit
<1>10. ASSUME NEW q \in Prizes, q # p \/ calls' = calls
       PROVE  PaymentsFit(q)'
  BY <1>2, <1>5, <1>7, <1>8, <1>9, <1>10, TimeGoesOn, NothingNewFits DEF IsPrize
<1>11. ASSUME calls' # calls
       PROVE  PaymentsFit(p)'
  <2>1. /\ IsPrize(p) /\ calls' = calls \cup RefundOf(p) /\ Refunds(p)' = {}
        /\ message'[p].content = "prize" => message[p].end_date <= now
        /\ RefundsInPlay(p) = {}
    BY <1>2, <1>6, <1>11 DEF PaymentsFit
  <2>2. \A c \in RefundOf(p) : c.tx = Transfer("refund", p, Sender, message[p].prizes_remaining, now)
    BY DEF RefundOf, Call
  <2>3. \A r \in RefundsInPlay(p)' : r = Transfer("refund", p, Sender, message[p].prizes_remaining, now)
    <3>1. RefundsInPlay(p)' \subseteq RefundsInPlay(p) \cup {c.tx : c \in RefundOf(p)}
      <4>1. Attempted' \subseteq Attempted \cup {c.tx : c \in RefundOf(p)}
        BY <1>1, <2>1 DEF Attempted
      <4> QED BY <1>5, <4>1, InPlay
    <3> QED BY <2>1, <2>2, <3>1
  <2>4. \A r \in RefundsInPlay(p)' : r.created = now
    BY <2>3 DEF Transfer
  <2>5. \A r \in RefundsInPlay(p)' :
             r.created <= now' /\ (IsPrize(p)' => message'[p].end_date <= r.created)
    BY <1>1, <1>7, <2>1, <2>4, TimeGoesOn DEF IsPrize
  <2>6. \A u \in Users : \A t \in ClaimsOf(p, u)' :
             t.created <= now' /\ (IsPrize(p)' => AlreadyClaimed(message'[p], u))
    BY <1>1, <1>2, <1>7, <1>8, <1>9, <2>1 DEF PaymentsFit, IsPrize
  <2>7. \A u \in Users : \A s, t \in ClaimsOf(p, u)' : s = t
    BY <1>2, <1>8 DEF PaymentsFit
  <2>8. message'[p].content # "unsent"
    BY <1>7, <2>1 DEF IsPrize
  <2> QED BY <2>1, <2>3, <2>5, <2>6, <2>7, <2>8 DEF PaymentsFit
<1>12. CallsTruthful'
  <2>1. \A c \in RefundOf(p) : c.tx.memo # "claim"
    BY DEF RefundOf, Call, Transfer
  <2>2. \A c \in calls' : c.tx.memo = "claim" => c \in calls
    BY <1>6, <2>1
  <2> QED BY <1>1, <2>2 DEF PaymentsInv, CallsTruthful
<1> QED BY <1>10, <1>11, <1>12 DEF PaymentsInv

\* Refunds that failed wait for their retry; what the ledger answers only moves
\* payments from one place to another.
LEMMA LedgerKeepsPayments ==
    ASSUME PrizesInv, PrizesInv', JobsInv, PaymentsInv, [Next]_vars,
           \/ RunMakeTransfer
           \/ \E c \in calls : RefundReply(c) \/ LedgerAccepts(c) \/ LedgerRejects(c)
           \/ Freeze \/ Upgrade \/ Tick \/ UNCHANGED vars
    PROVE  PaymentsInv'
<1>1. Typed /\ jobs \in SUBSET Entries /\ UNCHANGED message
  BY DEF PrizesInv, Typed, RunMakeTransfer, RefundReply, LedgerAccepts, LedgerRejects, Freeze,
         Upgrade, Tick, vars
<1> DEFINE Goal == /\ Attempted' \subseteq Attempted \cup Retried
                   /\ Retried' \subseteq Attempted \cup Retried
                   /\ \A p \in Prizes : Refunds(p)' \subseteq Refunds(p)
                   /\ CallsTruthful'
<1> SUFFICES Goal
  BY <1>1, NothingNewIsPaid DEF PaymentsInv
<1>2. CASE RunMakeTransfer
  <2>1. PICK e \in Due(jobs, now) :
           /\ e.job.kind = "MakeTransfer" /\ jobs' = Fired(jobs, e)
           /\ calls' = calls \cup {Call(e.job.tx)} /\ ledger' = ledger
    BY <1>2 DEF RunMakeTransfer
  <2>2. e \in jobs /\ e.queued /\ e.job.tx \in Retried
    BY <2>1 DEF Due, Retried
  <2>3. \A f \in jobs' : f.queued => f \in jobs
    BY <1>1, <2>1, <2>2 DEF Fired, Entries
  <2>4. Call(e.job.tx).tx = e.job.tx /\ e.job.tx.memo # "claim"
    BY <1>1, <2>2, PaymentsTyped DEF Call
  <2>5. CallsTruthful'
    BY <2>1, <2>4 DEF CallsTruthful, PaymentsInv
  <2> QED BY <2>1, <2>2, <2>3, <2>4, <2>5 DEF Attempted, Retried, Refunds, Waiting
<1>3. ASSUME NEW c \in calls, RefundReply(c)
      PROVE  Goal
  <2>1. /\ calls' \subseteq calls /\ ledger' = ledger
        /\ \/ jobs' = Enqueue(jobs, MakeTransfer(c.tx), Capped(now + RetryDelay))
           \/ jobs' = jobs
    BY <1>3 DEF RefundReply
  <2>2. \A f \in jobs' : f \in jobs \/ f.job = MakeTransfer(c.tx)
    BY <2>1 DEF Enqueue, Entry
  <2>3. MakeTransfer(c.tx).tx = c.tx /\ c.tx \in Attempted
    BY DEF MakeTransfer, Attempted
  <2>4. \A p \in Prizes : Refunds(p)' \subseteq Refunds(p)
    BY <2>2, JobsDiffer DEF Refunds, Waiting
  <2>5. Attempted' \subseteq Attempted /\ Retried' \subseteq Attempted \cup Retried
    BY <2>1, <2>2, <2>3 DEF Attempted, Retried
  <2>6. CallsTruthful'
    BY <2>1 DEF CallsTruthful, PaymentsInv
  <2> QED BY <2>4, <2>5, <2>6
<1>4. ASSUME NEW c \in calls, LedgerAccepts(c) \/ LedgerRejects(c)
      PROVE  Goal
  <2> DEFINE ok == [c EXCEPT !.reply = "ok"]
             err == [c EXCEPT !.reply = "err"]
  <2>1. c.reply = "none" /\ jobs' = jobs
        /\ \/ ledger' = ledger \cup {c.tx} /\ calls' = (calls \ {c}) \cup {ok}
           \/ ledger' = ledger /\ calls' = (calls \ {c}) \cup {err}
    BY <1>4 DEF LedgerAccepts, LedgerRejects, Reply
  <2>2. /\ ok.tx = c.tx /\ ok.reply = "ok" /\ err.tx = c.tx /\ err.reply = "err"
        /\ c.tx \in Attempted
    BY <1>1 DEF Typed, Calls, Attempted
  <2> HIDE DEF ok, err
  <2>3. Attempted' \subseteq Attempted
    BY <2>1, <2>2 DEF Attempted
  <2>4. CallsTruthful'
    <3>1. CASE c.tx.memo # "claim"
      BY <2>1, <2>2, <3>1 DEF CallsTruthful, PaymentsInv
    <3>2. CASE c.tx.memo = "claim"
      <4>1. c.tx \notin ledger /\ \A d \in calls : d.tx = c.tx => d = c
        BY <2>1, <3>2 DEF CallsTruthful, PaymentsInv
      <4> QED BY <2>1, <2>2, <4>1 DEF CallsTruthful, PaymentsInv
    <3> QED BY <3>1, <3>2
  <2> QED BY <2>1, <2>3, <2>4 DEF Retried, Refunds
<1>5. CASE Upgrade
  <2>1. jobs' \subseteq jobs /\ calls' = calls /\ ledger' = ledger
    BY <1>5 DEF Upgrade, Upgraded
  <2> QED BY <2>1 DEF Attempted, Retried, Refunds, Waiting, CallsTruthful, PaymentsInv
<1>6. CASE Freeze \/ Tick \/ UNCHANGED vars
  <2>1. jobs' = jobs /\ calls' = calls /\ ledger' = ledger
    BY <1>6 DEF Freeze, Tick, vars
  <2> QED BY <2>1 DEF Attempted, Retried, Refunds, CallsTruthful, PaymentsInv
<1> QED BY <1>2, <1>3, <1>4, <1>5, <1>6

LEMMA NextKeepsPayments ==
    ASSUME PrizesInv, PrizesInv', JobsInv, JobsInv', PaymentsInv, [Next]_vars
    PROVE  PaymentsInv'
  BY MessagesKeepPayments, ReserveKeepsPayments, ClaimAnsweredKeepsPayments,
     RefundKeepsPayments, LedgerKeepsPayments DEF Next

LEMMA PaymentsInvariance == Spec => [](PrizesInv /\ JobsInv /\ PaymentsInv)
<1>1. PrizesInv /\ PrizesInv' /\ JobsInv /\ JobsInv' /\ PaymentsInv /\ [Next]_vars => PaymentsInv'
  BY NextKeepsPayments
<1> QED BY <1>1, InitPaymentsInv, JobsInvariance, PTL DEF Spec

\* Sets without two elements.
LEMMA AtMostOne ==
    ASSUME NEW S, \A x, y \in S : x = y
    PROVE  IsFiniteSet(S) /\ Cardinality(S) <= 1
<1>1. CASE S = {}
  BY <1>1, FS_EmptySet
<1>2. CASE S # {}
  <2>1. \E x : S = {x}
    BY <1>2
  <2>2. IsFiniteSet(S) /\ Cardinality(S) = 1
    BY <2>1, FS_Singleton
  <2> QED BY <2>2
<1> QED BY <1>1, <1>2

\* claim_prize, RefundPrizeJob, HardDeleteMessageContentJob and MakeTransferJob
\* pay nothing twice: one prize at most to each member and one refund, however
\* answers, retries, deletions and upgrades come together.
THEOREM NeverPaidTwice == Spec => []NothingIsPaidTwice
<1>1. PaymentsInv => NothingIsPaidTwice
  BY AtMostOne DEF PaymentsInv, PaymentsFit, NothingIsPaidTwice, ClaimsOf
<1> QED BY <1>1, PaymentsInvariance, PTL

-----------------------------------------------------------------------------
(* Refunds are kept *)

\* What has been answered with "ok" was made.
OkIsMade == \A c \in calls : c.reply = "ok" => c.tx \in ledger

LEMMA NextKeepsOk == PrizesInv /\ OkIsMade /\ [Next]_vars => OkIsMade'
<1> SUFFICES ASSUME PrizesInv, OkIsMade, [Next]_vars PROVE OkIsMade'
  OBVIOUS
<1>1. Typed
  BY DEF PrizesInv
<1>2. ASSUME NEW c \in calls, LedgerAccepts(c) \/ LedgerRejects(c)
      PROVE  OkIsMade'
  <2> DEFINE ok == [c EXCEPT !.reply = "ok"]
             err == [c EXCEPT !.reply = "err"]
  <2>1. \/ ledger' = ledger \cup {c.tx} /\ calls' = (calls \ {c}) \cup {ok}
        \/ ledger' = ledger /\ calls' = (calls \ {c}) \cup {err}
    BY <1>2 DEF LedgerAccepts, LedgerRejects, Reply
  <2>2. ok.tx = c.tx /\ err.reply = "err"
    BY <1>1 DEF Typed, Calls
  <2> HIDE DEF ok, err
  <2> QED BY <2>1, <2>2 DEF OkIsMade
<1>3. ASSUME ledger' = ledger, \A c \in calls' : c \in calls \/ c.reply = "none"
      PROVE  OkIsMade'
  BY <1>3 DEF OkIsMade
<1>4. ASSUME NEW p \in Prizes, NEW u \in Users,
             ReservePrize(p, u) \/ CommitClaim(p, u) \/ RollbackClaim(p, u)
      PROVE  OkIsMade'
  BY <1>3, <1>4 DEF ReservePrize, CommitClaim, RollbackClaim, Call
<1>5. ASSUME NEW p \in Prizes, RunHardDelete(p) \/ RunRefundPrize(p)
      PROVE  OkIsMade'
  BY <1>3, <1>5 DEF RunHardDelete, RunRefundPrize, RefundOf, Call
<1>6. ASSUME RunMakeTransfer \/ \E c \in calls : RefundReply(c)
      PROVE  OkIsMade'
  BY <1>3, <1>6 DEF RunMakeTransfer, RefundReply, Call
<1>7. ASSUME UNCHANGED <<calls, ledger>> PROVE OkIsMade'
  BY <1>3, <1>7
<1> QED BY <1>2, <1>4, <1>5, <1>6, <1>7
       DEF Next, vars, SendPrize, DeleteMessage, UndeleteMessage, ExpireMessage, Freeze,
           Upgrade, Tick

LEMMA OkInvariance == Spec => [](PrizesInv /\ OkIsMade)
<1>1. Init => OkIsMade
  BY DEF Init, OkIsMade
<1> QED BY <1>1, NextKeepsOk, PrizesInvariance, PTL DEF Spec

\* The jobs by which refunds are made again.
Retries == {e \in jobs : e.queued /\ e.job.kind = "MakeTransfer"}

LEMMA NextKeepsRefunds ==
    ASSUME PrizesInv, OkIsMade, [Next]_vars, NEW p \in Prizes
    PROVE  RefundsInPlay(p) \subseteq RefundsInPlay(p)'
<1>1. Typed /\ jobs \in SUBSET Entries
  BY DEF PrizesInv, Typed
<1> DEFINE Kept == /\ \A tx \in Attempted : tx.memo = "refund" => tx \in (Attempted \cup Retried)'
                   /\ Retried \subseteq (Attempted \cup Retried)'
<1> SUFFICES Kept
  BY InPlay
<1>2. ASSUME ledger' = ledger, calls \subseteq calls', Retries \subseteq jobs'
      PROVE  Kept
  BY <1>2 DEF Attempted, Retried, Retries
<1>3. \A q : HardDelete(q).kind # "MakeTransfer" /\ RefundPrize(q).kind # "MakeTransfer"
  BY DEF HardDelete, RefundPrize
<1>4. ASSUME NEW q \in Prizes,
             \/ SendPrize(q) \/ \E who \in {"sender", "admin"} : DeleteMessage(q, who)
             \/ UndeleteMessage(q) \/ ExpireMessage(q)
      PROVE  Kept
  <2>1. UNCHANGED <<calls, ledger>>
    BY <1>4 DEF SendPrize, DeleteMessage, UndeleteMessage, ExpireMessage
  <2>2. Retries \subseteq jobs'
    BY <1>3, <1>4 DEF SendPrize, DeleteMessage, UndeleteMessage, ExpireMessage, Enqueue,
                      CancelJobs, Matching, Retries
  <2> QED BY <1>2, <2>1, <2>2
<1>5. ASSUME NEW q \in Prizes, NEW u \in Users, ReservePrize(q, u)
      PROVE  Kept
  BY <1>2, <1>5 DEF ReservePrize, Retries
<1>6. ASSUME NEW q \in Prizes, NEW u \in Users, CommitClaim(q, u) \/ RollbackClaim(q, u)
      PROVE  Kept
  <2>1. PICK c \in calls : c.tx.memo = "claim" /\ calls' = calls \ {c}
    BY <1>6 DEF CommitClaim, RollbackClaim, Claiming
  <2>2. UNCHANGED <<jobs, ledger>>
    BY <1>6 DEF CommitClaim, RollbackClaim
  <2> QED BY <2>1, <2>2 DEF Attempted, Retried
<1>7. ASSUME NEW q \in Prizes, RunHardDelete(q) \/ RunRefundPrize(q)
      PROVE  Kept
  <2>1. ledger' = ledger /\ calls \subseteq calls'
    BY <1>7 DEF RunHardDelete, RunRefundPrize
  <2>2. \A js, e : Retries \subseteq js /\ e \notin Retries => Retries \subseteq Fired(js, e)
    BY DEF Fired
  <2>3. \A e \in jobs : e.job = HardDelete(q) \/ e.job = RefundPrize(q)
                          => Retries \subseteq Fired(jobs, e)
    BY <1>3, <2>2 DEF Retries
  <2>4. ASSUME NEW js, Retries \subseteq js, NEW r \in CancelJob(js, {RefundPrize(q)})
        PROVE  Retries \subseteq r.left
    <3>1. CASE Matching(js, {RefundPrize(q)}) = {}
      BY <2>4, <3>1 DEF CancelJob
    <3>2. CASE Matching(js, {RefundPrize(q)}) # {}
      <4>1. PICK e \in Matching(js, {RefundPrize(q)}) : r.left = js \ {e}
        BY <3>2 DEF CancelJob
      <4> QED BY <1>3, <2>4, <4>1 DEF Matching, Retries
    <3> QED BY <3>1, <3>2
  <2>5. Retries \subseteq jobs'
    BY <1>7, <2>3, <2>4 DEF RunHardDelete, RunRefundPrize, Due
  <2> QED BY <1>2, <2>1, <2>5
<1>8. CASE RunMakeTransfer
  <2>1. PICK e \in Due(jobs, now) :
           /\ e.job.kind = "MakeTransfer" /\ jobs' = Fired(jobs, e)
           /\ calls' = calls \cup {Call(e.job.tx)} /\ ledger' = ledger
    BY <1>8 DEF RunMakeTransfer
  <2>2. jobs \ {e} \subseteq jobs' /\ Call(e.job.tx).tx = e.job.tx
    BY <2>1 DEF Fired, Call
  <2>3. e.job.tx \in Attempted'
    BY <2>1, <2>2 DEF Attempted
  <2> QED BY <2>1, <2>2, <2>3 DEF Attempted, Retried
<1>9. ASSUME NEW c \in calls, RefundReply(c)
      PROVE  Kept
  <2>1. calls' = calls \ {c} /\ ledger' = ledger /\ jobs \subseteq jobs' /\ c.reply \in {"ok", "err"}
    BY <1>1, <1>9 DEF RefundReply, Enqueue, Typed, Calls
  <2>2. c.tx \in (Attempted \cup Retried)'
    <3>1. CASE c.reply = "ok"
      BY <2>1, <3>1 DEF OkIsMade, Attempted
    <3>2. CASE c.reply = "err"
      <4> DEFINE e == Entry(MakeTransfer(c.tx), Capped(now + RetryDelay))
      <4>1. e \in jobs' /\ e.queued /\ e.job.kind = "MakeTransfer" /\ e.job.tx = c.tx
        BY <1>9, <3>2 DEF RefundReply, Enqueue, Entry, MakeTransfer
      <4> HIDE DEF e
      <4> QED BY <4>1 DEF Retried
    <3> QED BY <2>1, <3>1, <3>2
  <2> QED BY <2>1, <2>2 DEF Attempted, Retried
<1>10. ASSUME NEW c \in calls, LedgerAccepts(c) \/ LedgerRejects(c)
       PROVE  Kept
  <2>1. PICK d : d.tx = c.tx /\ calls' = (calls \ {c}) \cup {d}
    <3>1. \A reply : [c EXCEPT !.reply = reply].tx = c.tx
      BY <1>1 DEF Typed, Calls
    <3> QED BY <1>10, <3>1 DEF LedgerAccepts, LedgerRejects, Reply
  <2>2. jobs' = jobs /\ ledger \subseteq ledger'
    BY <1>10 DEF LedgerAccepts, LedgerRejects
  <2> QED BY <2>1, <2>2 DEF Attempted, Retried
<1>11. CASE Freeze \/ Upgrade \/ Tick \/ UNCHANGED vars
  <2>1. ledger' = ledger /\ calls' = calls /\ Retries \subseteq jobs'
    BY <1>11 DEF Freeze, Upgrade, Upgraded, Tick, vars, Retries
  <2> QED BY <1>2, <2>1
<1> QED BY <1>4, <1>5, <1>6, <1>7, <1>8, <1>9, <1>10, <1>11 DEF Next

\* make_transfer and MakeTransferJob: a refund that was computed is in the ledger, on its
\* way to it or queued for another attempt as the same transfer, however replies fail or
\* are late, jobs are cancelled, messages deleted or expired, and the canister upgraded.
THEOREM RefundsStayInPlay == Spec => RefundsAreKept
<1>1. (PrizesInv /\ OkIsMade) /\ [Next]_vars
         => [\A p \in Prizes : RefundsInPlay(p) \subseteq RefundsInPlay(p)']_vars
  BY NextKeepsRefunds
<1>2. RefundsAreKept <=> [][\A p \in Prizes : RefundsInPlay(p) \subseteq RefundsInPlay(p)']_vars
  BY DEF RefundsAreKept
<1> QED BY <1>1, <1>2, OkInvariance, PTL DEF Spec

-----------------------------------------------------------------------------
(* The funds *)

\* While a message can be claimed, the claims in play are those of members with
\* a prize or a reservation: there are no more than the prizes that are gone.
LEMMA ClaimsAreCovered ==
    ASSUME PrizesInv, PaymentsInv, NEW p \in Prizes, IsPrize(p)
    PROVE  /\ IsFiniteSet(ClaimsInPlay(p))
           /\ Cardinality(ClaimsInPlay(p)) + message[p].prizes_remaining <= NumPrizes
<1> DEFINE m == message[p]
           T == m.reservations \cup m.winners
           C == ClaimsInPlay(p)
           f == [tx \in C |-> tx.to]
<1>1. /\ WellKept(m) /\ m.content = "prize" /\ m.prizes_remaining \in Nat /\ NumPrizes \in Nat
  BY PrizesInvIsWellKept, ConstantsAssumption DEF IsPrize, WellKept, Messages
<1>2. IsFiniteSet(T) /\ Cardinality(T) + m.prizes_remaining = NumPrizes
  <2>1. /\ IsFiniteSet(m.reservations) /\ IsFiniteSet(m.winners)
        /\ m.reservations \cap m.winners = {} /\ Cardinality({}) = 0
        /\ Cardinality(m.reservations) \in Nat /\ Cardinality(m.winners) \in Nat
        /\ m.prizes_remaining + Cardinality(m.reservations) + Cardinality(m.winners) = NumPrizes
    BY <1>1, FS_CardinalityType, FS_EmptySet DEF WellKept
  <2>2. IsFiniteSet(T) /\ Cardinality(T) = Cardinality(m.reservations)
            + Cardinality(m.winners) - Cardinality(m.reservations \cap m.winners)
    BY <2>1, FS_Union
  <2>3. IsFiniteSet(T)
        /\ Cardinality(T) = Cardinality(m.reservations) + Cardinality(m.winners) - 0
    BY <2>1, <2>2
  <2> HIDE DEF T, m
  <2> QED BY <1>1, <2>1, <2>3
<1>3. \A tx \in C : tx.to \in Users /\ tx \in ClaimsOf(p, tx.to)
  <2>1. \A tx \in C : tx \in Attempted /\ tx.memo = "claim" /\ tx.prize = p
    BY DEF ClaimsInPlay, Attempted
  <2> QED BY <2>1, InPlay, PaymentsTyped DEF PrizesInv
<1>4. \A tx \in C : tx.to \in T
  BY <1>3 DEF PaymentsInv, PaymentsFit, AlreadyClaimed
<1>5. \A s, t \in C : s.to = t.to => s = t
  BY <1>3 DEF PaymentsInv, PaymentsFit
<1>6. f \in Injection(C, T)
  BY <1>4, <1>5 DEF Injection, IsInjective
<1>7. IsFiniteSet(C) /\ Cardinality(C) <= Cardinality(T)
  BY <1>2, <1>6, FS_Injection
<1>8. Cardinality(C) \in Nat /\ Cardinality(T) \in Nat
  BY <1>2, <1>7, FS_CardinalityType
<1> QED BY <1>1, <1>2, <1>7, <1>8

\* The account pays no more for a message than was paid in for it.
FundsFit(p, claims, refunds) ==
    /\ IsFiniteSet(claims) /\ Cardinality(claims) <= NumPrizes
    /\ \A r \in refunds :
          /\ \A c \in claims : c.created <= r.created
          /\ r.units + Cardinality({c \in claims : c.created < r.created}) <= NumPrizes
FundsInv == \A p \in Prizes : FundsFit(p, ClaimsInPlay(p), RefundsInPlay(p))

\* Fewer payments are no worse.
LEMMA FewerFit ==
    ASSUME NEW p, NEW claims, NEW refunds, FundsFit(p, claims, refunds),
           NEW cs \in SUBSET claims, NEW rs \in SUBSET refunds,
           \A r \in refunds : r.units \in Nat
    PROVE  FundsFit(p, cs, rs)
<1>1. /\ IsFiniteSet(cs) /\ Cardinality(cs) <= Cardinality(claims)
      /\ Cardinality(cs) \in Nat /\ Cardinality(claims) \in Nat /\ NumPrizes \in Nat
  BY FS_Subset, FS_CardinalityType, ConstantsAssumption DEF FundsFit
<1>2. ASSUME NEW r \in rs
      PROVE  r.units + Cardinality({c \in cs : c.created < r.created}) <= NumPrizes
  <2> DEFINE some == {c \in cs : c.created < r.created}
             all == {c \in claims : c.created < r.created}
  <2>1. IsFiniteSet(all) /\ some \in SUBSET all
    BY FS_Subset DEF FundsFit
  <2>2. IsFiniteSet(some) /\ Cardinality(some) <= Cardinality(all)
    BY <2>1, FS_Subset
  <2>3. Cardinality(some) \in Nat /\ Cardinality(all) \in Nat
    BY <2>1, <2>2, FS_CardinalityType
  <2>4. r.units \in Nat /\ r.units + Cardinality(all) <= NumPrizes
    BY <1>2 DEF FundsFit
  <2> HIDE DEF some, all
  <2>5. r.units + Cardinality(some) <= NumPrizes
    BY <1>1, <2>2, <2>3, <2>4
  <2> QED BY <2>5 DEF some
<1>3. \A r \in rs, c \in cs : c.created <= r.created
  BY DEF FundsFit
<1>4. Cardinality(cs) <= NumPrizes
  <2>1. Cardinality(claims) <= NumPrizes
    BY DEF FundsFit
  <2> QED BY <1>1, <2>1
<1> QED BY <1>1, <1>2, <1>3, <1>4 DEF FundsFit

LEMMA NextKeepsFunds ==
    ASSUME PrizesInv, PrizesInv', JobsInv, JobsInv', PaymentsInv, PaymentsInv', FundsInv,
           [Next]_vars
    PROVE  FundsInv'
<1> SUFFICES ASSUME NEW p \in Prizes
             PROVE  FundsFit(p, ClaimsInPlay(p)', RefundsInPlay(p)')
  BY DEF FundsInv
<1> DEFINE C == ClaimsInPlay(p)
           R == RefundsInPlay(p)
<1>1. /\ Typed /\ message \in [Prizes -> Messages] /\ NumPrizes \in Nat /\ now \in Nat
      /\ FundsFit(p, C, R)
  BY TimesAreNat, ConstantsAssumption DEF PrizesInv, Typed, FundsInv
<1>2. /\ \A r \in R : r.units \in Nat /\ r.created \in Nat
      /\ \A c \in C : /\ c.created \in Nat /\ c.created <= now
  <2>1. \A r \in R : r \in RefundTxs
    BY <1>1, InPlay, PaymentsTyped
  <2>2. \A c \in C : c \in ClaimTxs /\ c \in ClaimsOf(p, c.to)
    <3>1. \A c \in C : c \in Attempted /\ c.memo = "claim" /\ c.prize = p
      BY DEF ClaimsInPlay, Attempted
    <3> QED BY <1>1, <3>1, InPlay, PaymentsTyped
  <2> QED BY <1>1, <2>1, <2>2, PaymentsTyped DEF PaymentsInv, PaymentsFit
\* Most steps add nothing to what is in play.
<1>3. ASSUME C' \subseteq C, R' \subseteq R PROVE FundsFit(p, C', R')
  BY <1>1, <1>2, <1>3, FewerFit
<1>4. ASSUME UNCHANGED <<calls, ledger>>, Retried' \subseteq Attempted \cup Retried
      PROVE  FundsFit(p, C', R')
  <2>1. C' = C /\ Attempted' = Attempted
    BY <1>4 DEF ClaimsInPlay, Attempted
  <2>2. R' \subseteq R
    BY <1>4, <2>1, InPlay
  <2> QED BY <1>3, <2>1, <2>2
<1>5. ASSUME NEW q \in Prizes, NEW u \in Users, ReservePrize(q, u)
      PROVE  FundsFit(p, C', R')
  <2> DEFINE tx == Transfer("claim", q, u, 1, now)
             new == Call(tx)
  <2>1. /\ calls' = calls \cup {new} /\ ledger' = ledger /\ jobs' = jobs
        /\ IsPrize(q) /\ message[q].end_date >= now /\ message[q].prizes_remaining > 0
    BY <1>1, <1>5 DEF ReservePrize, Ended, PrizeLeft, Messages
  <2>2. /\ new.tx = tx /\ new.reply = "none"
        /\ tx.memo = "claim" /\ tx.prize = q /\ tx.created = now
    BY DEF Call, Transfer
  <2> HIDE DEF tx, new
  <2>3. R' = R
    <3>1. R' = {x \in Attempted \cup {tx} \cup Retried : x.memo = "refund" /\ x.prize = p}
      <4>1. Attempted' = Attempted \cup {tx} /\ Retried' = Retried
        BY <2>1, <2>2 DEF Attempted, Retried
      <4> QED BY <4>1, InPlay
    <3>2. R = {x \in Attempted \cup Retried : x.memo = "refund" /\ x.prize = p}
      BY InPlay
    <3> QED BY <2>2, <3>1, <3>2
  <2>4. C' \subseteq C \cup {tx} /\ (q # p => C' \subseteq C)
    <3>1. \A x : x \in {c.tx : c \in {d \in calls' : d.reply # "err"}}
                    => x = tx \/ x \in {c.tx : c \in {d \in calls : d.reply # "err"}}
      BY <2>1, <2>2
    <3> QED BY <2>1, <2>2, <3>1 DEF ClaimsInPlay
  <2>5. CASE q # p
    BY <1>3, <2>3, <2>4, <2>5
  <2>6. CASE q = p
    <3> DEFINE D == C \cup {tx}
    <3>1. IsFiniteSet(C) /\ Cardinality(C) + message[p].prizes_remaining <= NumPrizes
      BY <2>1, <2>6, ClaimsAreCovered
    <3>2. IsFiniteSet(D) /\ Cardinality(D) <= NumPrizes
      <4>1. IsFiniteSet(D) /\ Cardinality(D) <= Cardinality(C) + 1 /\ Cardinality(C) \in Nat
        <5> HIDE DEF C
        <5>1. Cardinality(C) \in Nat
          BY <3>1, FS_CardinalityType
        <5>2. IsFiniteSet(D) /\ \/ Cardinality(D) = Cardinality(C)
                                \/ Cardinality(D) = Cardinality(C) + 1
          BY <3>1, FS_AddElement
        <5> QED BY <5>1, <5>2
      <4>2. Cardinality(D) \in Nat /\ message[p].prizes_remaining \in Nat
        BY <1>1, <4>1, FS_CardinalityType DEF Messages
      <4> QED BY <1>1, <2>1, <2>6, <3>1, <4>1, <4>2
    <3>3. \A r \in R : r.created = now
      BY <1>1, <1>2, <2>1, <2>6 DEF PaymentsInv, PaymentsFit, Messages
    <3>4. ASSUME NEW r \in R
          PROVE  /\ \A c \in D : c.created <= r.created
                 /\ r.units + Cardinality({c \in D : c.created < r.created}) <= NumPrizes
      <4>1. {c \in D : c.created < r.created} = {c \in C : c.created < r.created}
        BY <1>1, <2>2, <3>3, <3>4
      <4> HIDE DEF D
      <4>2. r.units + Cardinality({c \in D : c.created < r.created}) <= NumPrizes
        BY <1>1, <3>4, <4>1 DEF FundsFit
      <4>3. \A c \in D : c.created <= r.created
        BY <1>1, <1>2, <2>2, <3>3, <3>4 DEF D
      <4> QED BY <4>2, <4>3
    <3>5. FundsFit(p, D, R)
      BY <3>2, <3>4 DEF FundsFit
    <3> QED BY <1>2, <2>3, <2>4, <3>5, FewerFit
  <2> QED BY <2>5, <2>6
<1>6. ASSUME NEW q \in Prizes, RunHardDelete(q) \/ RunRefundPrize(q)
      PROVE  FundsFit(p, C', R')
  <2>1. /\ ledger' = ledger
        /\ \/ calls' = calls
           \/ IsPrize(q) /\ calls' = calls \cup RefundOf(q)
    <3>1. CASE RunHardDelete(q)
      BY <3>1 DEF RunHardDelete
    <3>2. CASE RunRefundPrize(q)
      BY <3>2 DEF RunRefundPrize
    <3> QED BY <1>6, <3>1, <3>2
  <2> DEFINE tx == Transfer("refund", q, Sender, message[q].prizes_remaining, now)
  <2>2. /\ RefundOf(q) \subseteq {Call(tx)} /\ Call(tx).tx = tx
        /\ tx.memo = "refund" /\ tx.prize = q /\ tx.created = now
        /\ tx.units = message[q].prizes_remaining
    BY DEF RefundOf, Call, Transfer
  <2> HIDE DEF tx
  <2>3. C' \subseteq C
    <3>1. \A x : x \in {c.tx : c \in {d \in calls' : d.reply # "err"}}
                    => x = tx \/ x \in {c.tx : c \in {d \in calls : d.reply # "err"}}
      BY <2>1, <2>2
    <3> QED BY <2>1, <2>2, <3>1 DEF ClaimsInPlay
  <2>4. Retried' \subseteq Retried
    <3>1. \A e \in jobs : \A f \in Fired(jobs, e) : f.queued => f \in jobs
      BY <1>1 DEF Typed, Fired, Entries
    <3>2. \A js, w : \A r \in CancelJob(js, w) : r.left \subseteq js
      BY DEF CancelJob
    <3>3. \A f \in jobs' : f.queued => f \in jobs
      <4>1. CASE RunHardDelete(q)
        <5>1. PICK e \in jobs : jobs' \subseteq Fired(jobs, e)
          BY <3>2, <4>1 DEF RunHardDelete, Due
        <5> QED BY <3>1, <5>1
      <4>2. CASE RunRefundPrize(q)
        BY <3>1, <4>2 DEF RunRefundPrize, Due
      <4> QED BY <1>6, <4>1, <4>2
    <3> QED BY <3>3 DEF Retried
  <2>5. R' \subseteq R \cup {tx} /\ (q # p \/ calls' = calls => R' \subseteq R)
    <3>1. Attempted' \subseteq Attempted \cup {tx} /\ (calls' = calls => Attempted' = Attempted)
      BY <2>1, <2>2 DEF Attempted
    <3> QED BY <2>2, <2>4, <3>1, InPlay
  <2>6. CASE R' \subseteq R
    BY <1>3, <2>3, <2>6
  <2>7. CASE ~(R' \subseteq R)
    <3>1. q = p /\ IsPrize(p) /\ tx \in R'
      BY <2>1, <2>5, <2>7
    <3>2. R' = {tx}
      BY <3>1 DEF PaymentsInv, PaymentsFit
    <3>3. IsFiniteSet(C) /\ Cardinality(C) + message[p].prizes_remaining <= NumPrizes
      BY <3>1, ClaimsAreCovered
    <3> DEFINE before == {c \in C : c.created < now}
    <3>4. before \in SUBSET C
      OBVIOUS
    <3>5. /\ Cardinality(before) <= Cardinality(C)
          /\ Cardinality(before) \in Nat /\ Cardinality(C) \in Nat
          /\ message[p].prizes_remaining \in Nat
      BY <1>1, <3>3, <3>4, FS_Subset, FS_CardinalityType DEF Messages
    <3>6. tx.units + Cardinality(before) <= NumPrizes
      <4> HIDE DEF before
      <4> QED BY <1>1, <2>2, <3>1, <3>3, <3>5
    <3>7. FundsFit(p, C, {tx})
      BY <1>1, <1>2, <2>2, <3>6 DEF FundsFit
    <3>8. tx.units \in Nat
      BY <2>2, <3>1, <3>5
    <3> QED BY <2>3, <3>2, <3>7, <3>8, FewerFit
  <2> QED BY <2>6, <2>7
<1>7. CASE \E q \in Prizes :
              \/ SendPrize(q) \/ UndeleteMessage(q) \/ ExpireMessage(q)
              \/ \E who \in {"sender", "admin"} : DeleteMessage(q, who)
  <2>1. UNCHANGED <<calls, ledger>>
    BY <1>7 DEF SendPrize, DeleteMessage, UndeleteMessage, ExpireMessage
  <2>2. \A e \in jobs' : e.queued /\ e.job.kind = "MakeTransfer" => e \in jobs
    <3>1. /\ \A q : RefundPrize(q).kind # "MakeTransfer" /\ HardDelete(q).kind # "MakeTransfer"
          /\ \A j, due : Entry(j, due).job = j
      BY DEF RefundPrize, HardDelete, Entry
    <3>2. ASSUME NEW q \in Prizes, SendPrize(q)
          PROVE  \E due : jobs' = jobs \cup {Entry(RefundPrize(q), due)}
      BY <3>2 DEF SendPrize, Enqueue
    <3>3. ASSUME NEW q \in Prizes, NEW who, DeleteMessage(q, who)
          PROVE  (\E due : jobs' = jobs \cup {Entry(HardDelete(q), due)}) \/ jobs' = jobs
      BY <3>3 DEF DeleteMessage, Enqueue
    <3>4. ASSUME NEW q \in Prizes, UndeleteMessage(q) \/ ExpireMessage(q)
          PROVE  jobs' \subseteq jobs
      BY <3>4 DEF UndeleteMessage, ExpireMessage, CancelJobs
    <3> QED BY <1>7, <3>1, <3>2, <3>3, <3>4
  <2> QED BY <1>4, <2>1, <2>2 DEF Retried
<1>8. CASE \E q \in Prizes, u \in Users : CommitClaim(q, u) \/ RollbackClaim(q, u)
  <2>1. calls' \subseteq calls /\ ledger' = ledger /\ jobs' = jobs
    BY <1>8 DEF CommitClaim, RollbackClaim
  <2>2. C' \subseteq C /\ R' \subseteq R
    BY <2>1 DEF ClaimsInPlay, RefundsInPlay
  <2> QED BY <1>3, <2>2
<1>9. CASE RunMakeTransfer
  <2>1. PICK e \in Due(jobs, now) :
           /\ e.job.kind = "MakeTransfer" /\ jobs' = Fired(jobs, e)
           /\ calls' = calls \cup {Call(e.job.tx)} /\ ledger' = ledger
    BY <1>9 DEF RunMakeTransfer
  <2>2. e \in jobs /\ e.queued /\ e.job.tx \in Retried
    BY <2>1 DEF Due, Retried
  <2>3. Call(e.job.tx).tx = e.job.tx /\ e.job.tx.memo # "claim"
    BY <1>1, <2>2, PaymentsTyped DEF Call
  <2>4. C' \subseteq C
    <3>1. \A x : x \in {c.tx : c \in {d \in calls' : d.reply # "err"}}
                    => x.memo # "claim" \/ x \in {c.tx : c \in {d \in calls : d.reply # "err"}}
      BY <2>1, <2>3
    <3> QED BY <2>1, <3>1 DEF ClaimsInPlay
  <2>5. Attempted' \subseteq Attempted \cup Retried /\ Retried' \subseteq Retried
    <3>1. \A f \in jobs' : f.queued => f \in jobs
      BY <1>1, <2>1, <2>2 DEF Typed, Fired, Entries
    <3> QED BY <2>1, <2>2, <2>3, <3>1 DEF Attempted, Retried
  <2>6. R' \subseteq R
    BY <2>5, InPlay
  <2> QED BY <1>3, <2>4, <2>6
<1>10. ASSUME NEW c \in calls, RefundReply(c)
       PROVE  FundsFit(p, C', R')
  <2>1. /\ calls' \subseteq calls /\ ledger' = ledger
        /\ \/ jobs' = Enqueue(jobs, MakeTransfer(c.tx), Capped(now + RetryDelay))
           \/ jobs' = jobs
    BY <1>10 DEF RefundReply
  <2>2. \A f \in jobs' : f \in jobs \/ f.job = MakeTransfer(c.tx)
    BY <2>1 DEF Enqueue, Entry
  <2>3. MakeTransfer(c.tx).tx = c.tx /\ c.tx \in Attempted
    BY DEF MakeTransfer, Attempted
  <2>4. Attempted' \subseteq Attempted /\ Retried' \subseteq Attempted \cup Retried
    BY <2>1, <2>2, <2>3 DEF Attempted, Retried
  <2>5. R' \subseteq R
    BY <2>4, InPlay
  <2>6. C' \subseteq C
    BY <2>1 DEF ClaimsInPlay
  <2> QED BY <1>3, <2>5, <2>6
<1>11. ASSUME NEW c \in calls, LedgerAccepts(c) \/ LedgerRejects(c)
       PROVE  FundsFit(p, C', R')
  <2> DEFINE ok == [c EXCEPT !.reply = "ok"]
             err == [c EXCEPT !.reply = "err"]
  <2>1. c.reply = "none" /\ jobs' = jobs
        /\ \/ ledger' = ledger \cup {c.tx} /\ calls' = (calls \ {c}) \cup {ok}
           \/ ledger' = ledger /\ calls' = (calls \ {c}) \cup {err}
    BY <1>11 DEF LedgerAccepts, LedgerRejects, Reply
  <2>2. ok.tx = c.tx /\ ok.reply = "ok" /\ err.tx = c.tx /\ err.reply = "err"
    BY <1>1 DEF Typed, Calls
  <2> HIDE DEF ok, err
  <2>3. Attempted' \subseteq Attempted /\ Retried' = Retried
    BY <2>1, <2>2 DEF Attempted, Retried
  <2>4. C' \subseteq C
    BY <2>1, <2>2 DEF ClaimsInPlay
  <2>5. R' \subseteq R
    BY <2>3, InPlay
  <2> QED BY <1>3, <2>4, <2>5
<1>12. CASE Upgrade \/ Freeze \/ Tick \/ UNCHANGED vars
  <2>1. jobs' \subseteq jobs /\ UNCHANGED <<calls, ledger>>
    BY <1>12 DEF Upgrade, Upgraded, Freeze, Tick, vars
  <2> QED BY <1>4, <2>1 DEF Retried
<1> QED BY <1>5, <1>6, <1>7, <1>8, <1>9, <1>10, <1>11, <1>12 DEF Next

\* What leaves the account for a message was paid in for it, apart from the
\* prizes that are claimed in the instant of the refund.
THEOREM PaysFromOwnFunds == Spec => []PaidFromOwnFunds
<1>1. Init => FundsInv
  <2> SUFFICES ASSUME Init, NEW p \in Prizes
               PROVE  FundsFit(p, ClaimsInPlay(p), RefundsInPlay(p))
    BY DEF FundsInv
  <2>1. ClaimsInPlay(p) = {} /\ RefundsInPlay(p) = {}
    BY DEF Init, ClaimsInPlay, RefundsInPlay
  <2> QED BY <2>1, FS_EmptySet, ConstantsAssumption DEF FundsFit
<1>2. PrizesInv /\ PrizesInv' /\ JobsInv /\ JobsInv' /\ PaymentsInv /\ PaymentsInv' /\ FundsInv /\ [Next]_vars
        => FundsInv'
  BY NextKeepsFunds
<1>3. FundsInv => PaidFromOwnFunds
  BY DEF FundsInv, FundsFit, PaidFromOwnFunds
<1> QED BY <1>1, <1>2, <1>3, PaymentsInvariance, PTL DEF Spec

=============================================================================
