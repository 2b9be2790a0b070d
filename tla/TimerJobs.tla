----------------------------- MODULE TimerJobs -----------------------------
(***************************************************************************)
(* libraries/canister_timer_jobs: the persisted one-shot timers that every *)
(* chat canister uses for hard deletes, refunds, expiries and transfers.   *)
(*                                                                         *)
(* The jobs of a canister are a set of entries [job, due, queued].         *)
(* "queued" is the wrapper's Some(job): it becomes None when the timer     *)
(* fires, and the entry itself STAYS in the map until some cancel removes  *)
(* it or an upgrade drops it.  The map is ordered by TimerId, a slot-map   *)
(* key whose slots are reused, so which of several matching entries comes  *)
(* first is left open.  Entries that agree in every field are one entry.   *)
(* Operators named Mut_* are wrong on purpose (see the README).            *)
(***************************************************************************)
EXTENDS Naturals

Entry(job, due) == [job |-> job, due |-> due, queued |-> TRUE]

\* enqueue_job
Enqueue(jobs, job, due) == jobs \cup {Entry(job, due)}

Queued(jobs, job) == \E e \in jobs : e.queued /\ e.job = job

\* The entries whose timer may fire.
Due(jobs, now) == {e \in jobs : e.queued /\ e.due <= now}

\* The closure given to set_timer: takes the job out of its wrapper.  The
\* due date of the entry is never read again and is set to 0.
Fired(jobs, e) == (jobs \ {e}) \cup {[e EXCEPT !.queued = FALSE, !.due = 0]}

\* The filter of cancel_job and cancel_jobs lets through the wanted jobs,
\* and every entry whose wrapper is empty.
Mut_MatchesAnything(jobs, wanted) == jobs
Matching(jobs, wanted) == {e \in jobs : e.queued => e.job \in wanted}

\* cancel_job: the possible outcomes, each with the jobs that are left and
\* the set holding the cancelled job (empty when None is returned).
CancelJob(jobs, wanted) ==
    LET found == Matching(jobs, wanted)
    IN  IF found = {}
        THEN {[left |-> jobs, cancelled |-> {}]}
        ELSE {[left |-> jobs \ {e},
               cancelled |-> IF e.queued THEN {e.job} ELSE {}] : e \in found}

\* cancel_jobs
CancelJobs(jobs, wanted) == jobs \ Matching(jobs, wanted)

\* serialize, then deserialize: only the jobs that have not run survive.
Upgraded(jobs) == {e \in jobs : e.queued}
=============================================================================
