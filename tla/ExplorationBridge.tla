-------------------------- MODULE ExplorationBridge --------------------------
(***************************************************************************)
(* The arrival-manager job bridge: claim, acknowledge and sweep shared     *)
(* jobs kept in D1 (core/exploration-bridge.ts, core/exploration-bridge-   *)
(* d1.ts), under the triggers of migrations 0008 and 0019 and beside the   *)
(* collector of core/exploration-retention.ts.                             *)
(*                                                                         *)
(* Every request is a sequence of awaits: it samples the clock, looks up   *)
(* its operation record, reads the job, asks the publication verifier and  *)
(* commits a compare-and-swap.  Each await is an action, so other requests,*)
(* sweeps, collections and the clock run between any two of them.          *)
(*                                                                         *)
(* Times are natural numbers; 0 stands for SQL NULL, in times and leases.  *)
(* The Worker's clock and the database's clock are one clock.              *)
(***************************************************************************)
EXTENDS Integers, FiniteSets

CONSTANTS
  Jobs,            \* job ids; a job and its shared request live and die together
  Services,        \* authenticated service callers
  OpIds,           \* operation ids a caller may choose
  Calls,           \* slots for requests in flight
  Sweepers,        \* slots for sweeps in flight
  NoService,       \* the NULL lease owner
  MaxAttempts,     \* MAX_ATTEMPTS
  LeaseSeconds,    \* LEASE_SECONDS
  FirstBackoff,    \* RETRY_SECONDS[1]
  LaterBackoff,    \* RETRY_SECONDS[2], also the default
  RetryWindow,     \* RETRY_WINDOW_SECONDS and the trigger's '+1 day'
  TombstoneWindow, \* the tombstones' '-30 days'
  SweepBatch,      \* SWEEP_BATCH
  MaxClock         \* bound of the clock in a model

ASSUME NoServiceAssumption == NoService \notin Services
ASSUME TimesAssumption ==
  /\ {LeaseSeconds, FirstBackoff, LaterBackoff, RetryWindow} \subseteq Nat \ {0}
  /\ {TombstoneWindow, SweepBatch, MaxAttempts} \subseteq Nat \ {0}
  /\ MaxClock \in Nat

VARIABLES
  clock,       \* current time, in seconds, from 1
  jobs,        \* exploration_shared_jobs, one row per job id
  refs,        \* what keeps each request: account links, unexpired questions
  tombstones,  \* exploration_shared_job_tombstones: deletion times
  operations,  \* exploration_bridge_operations
  evidence,    \* jobs whose publication evidence is loaded
  calls,       \* claim and ack requests in flight
  sweeps,      \* sweeps in flight
  issued       \* number of leases minted so far

vars == <<clock, jobs, refs, tombstones, operations, evidence, calls, sweeps, issued>>

-----------------------------------------------------------------------------
(* Types. *)

Failures == {"none", "reported", "lease_expired", "attempts_exhausted"}

Row == [status: {"absent", "queued", "running", "failed", "published"},
        attempt: 0..MaxAttempts, lease: Nat, owner: Services \cup {NoService},
        expires: Nat, claimed: Nat, retry: Nat, failure: Failures,
        rev: Nat, admitted: Nat]

NoRow == [status |-> "absent", attempt |-> 0, lease |-> 0, owner |-> NoService,
          expires |-> 0, claimed |-> 0, retry |-> 0, failure |-> "none",
          rev |-> 0, admitted |-> 0]

\* A recorded operation. `attempt` is the attempt its body names: the attempt
\* before the claim, or the attempt being acknowledged.
Operation == [type: {"claim", "ack"}, service: Services, op: OpIds, job: Jobs,
              attempt: 0..MaxAttempts, lease: Nat, expires: Nat,
              outcome: {"none", "reported", "published"}]

Idle == [pc |-> "idle"]

Request == [pc: {"read", "verify", "commit"}, type: {"claim", "ack"},
            service: Services, op: OpIds, job: Jobs, attempt: 0..MaxAttempts,
            lease: Nat, outcome: {"none", "reported", "published"},
            now: Nat, seen: Row]

Sweep == [pc: {"list", "move"}, kind: {"expired", "due"}, now: Nat,
          batch: SUBSET [job: Jobs, row: Row]]

-----------------------------------------------------------------------------
(* The rows the handlers write. *)

\* Admission inserts a queued, unclaimed row at revision 1.
Admitted(t) ==
  [status |-> "queued", attempt |-> 0, lease |-> 0, owner |-> NoService,
   expires |-> 0, claimed |-> 0, retry |-> 0, failure |-> "none",
   rev |-> 1, admitted |-> t]

\* claimJob's running row.
Running(row, service, lease, now) ==
  [status |-> "running", attempt |-> row.attempt + 1, lease |-> lease,
   owner |-> service, expires |-> now + LeaseSeconds, claimed |-> now,
   retry |-> 0, failure |-> "none", rev |-> row.rev + 1, admitted |-> row.admitted]

Backoff(attempt) == IF attempt = 1 THEN FirstBackoff ELSE LaterBackoff

Earlier(s, t) == IF s <= t THEN s ELSE t

\* A row taken out of running: lease, owner and claim time stay for audit.
Ended(row, status, retry, failure) ==
  [status |-> status, attempt |-> row.attempt, lease |-> row.lease,
   owner |-> row.owner, expires |-> 0, claimed |-> row.claimed,
   retry |-> retry, failure |-> failure, rev |-> row.rev + 1, admitted |-> row.admitted]

\* Mutant: the retry window of the claim is forgotten.
FailedUnclamped(row, reason, now) ==
  IF row.attempt >= MaxAttempts
  THEN Ended(row, "failed", 0, "attempts_exhausted")
  ELSE Ended(row, "failed", now + Backoff(row.attempt), reason)

\* Mutant: one attempt too many before the job is exhausted.
FailedOneMore(row, reason, now) ==
  IF row.attempt > MaxAttempts
  THEN Ended(row, "failed", 0, "attempts_exhausted")
  ELSE LET claimedAt == row.expires - LeaseSeconds IN
       Ended(row, "failed", Earlier(now + Backoff(row.attempt), claimedAt + RetryWindow), reason)

\* failed(): the last attempt is exhausted, an earlier one retries after its
\* backoff, but never later than the retry window after the claim.
Failed(row, reason, now) ==
  IF row.attempt >= MaxAttempts
  THEN Ended(row, "failed", 0, "attempts_exhausted")
  ELSE LET claimedAt == row.expires - LeaseSeconds IN
       Ended(row, "failed", Earlier(now + Backoff(row.attempt), claimedAt + RetryWindow), reason)

Published(row) == Ended(row, "published", 0, "none")

\* Mutant: the due time is left on the queued row.
RequeuedStillDue(row) ==
  [Ended(row, "queued", row.retry, "none") EXCEPT !.lease = 0, !.owner = NoService]

\* sweepRetryDue's queued row: the attempt is kept, the lease is not.
Requeued(row) ==
  [status |-> "queued", attempt |-> row.attempt, lease |-> 0, owner |-> NoService,
   expires |-> 0, claimed |-> row.claimed, retry |-> 0, failure |-> "none",
   rev |-> row.rev + 1, admitted |-> row.admitted]

-----------------------------------------------------------------------------
(* The database: compare-and-swap, triggers and collection. *)

\* A running row whose lease the database still counts as live.
LeaseLive(row) == row.status = "running" /\ row.expires > clock

\* Mutant: a live lease does not hold the request back.
CollectableAnyway(references, row) == row.status # "absent" /\ references = {}

\* exploration_collectable_requests: nothing refers to the request and no live
\* lease is held on its job.
Collectable(references, row) ==
  /\ row.status # "absent"
  /\ references = {}
  /\ ~ LeaseLive(row)

\* exploration_shared_jobs_state_machine and _running_lease_fence.
TransitionAllowed(old, new) ==
  /\ new.rev = old.rev + 1
  /\ new.admitted = old.admitted
  /\ \/ /\ old.status = "queued" /\ new.status = "running"
        /\ new.attempt = old.attempt + 1 /\ new.attempt <= MaxAttempts
        /\ new.lease # 0 /\ new.expires > new.claimed
     \/ /\ old.status = "running" /\ new.status = "failed"
        /\ new.attempt = old.attempt
        /\ <<new.claimed, new.lease, new.owner>> = <<old.claimed, old.lease, old.owner>>
        /\ new.expires = 0
        /\ \/ new.failure = "attempts_exhausted" /\ new.retry = 0
           \/ /\ new.failure \in {"reported", "lease_expired"}
              /\ new.retry > new.claimed
              /\ new.retry <= new.claimed + RetryWindow
     \/ /\ old.status = "running" /\ new.status = "published"
        /\ new.attempt = old.attempt
        /\ <<new.claimed, new.lease, new.owner>> = <<old.claimed, old.lease, old.owner>>
        /\ new.expires = 0
     \/ /\ old.status = "failed" /\ new.status = "queued"
        /\ new.attempt = old.attempt /\ old.attempt < MaxAttempts
        /\ old.failure # "attempts_exhausted" /\ old.retry # 0
        /\ <<new.retry, new.lease, new.owner, new.expires>> = <<0, 0, NoService, 0>>

\* The CHECK of exploration_shared_jobs, with 0017's owner of a running row.
RowShape(row) ==
  CASE row.status = "queued" ->
         row.lease = 0 /\ row.owner = NoService /\ row.expires = 0 /\ row.failure = "none"
    [] row.status = "running" ->
         /\ row.attempt > 0 /\ row.lease # 0 /\ row.owner # NoService
         /\ row.expires > row.claimed /\ row.failure = "none"
    [] row.status \in {"failed", "published"} ->
         /\ row.attempt > 0 /\ row.claimed # 0 /\ row.lease # 0 /\ row.owner # NoService
         /\ row.expires = 0
         /\ (row.status = "failed") = (row.failure # "none")
         /\ row.status = "published" => row.retry = 0

\* The row the UPDATE leaves: a terminal row keeps the stored lease, owner and
\* claim time, whatever the handler computed.
Stored(old, new) ==
  IF new.status \in {"failed", "published"}
  THEN [status |-> new.status, attempt |-> new.attempt, lease |-> old.lease,
        owner |-> old.owner, expires |-> new.expires, claimed |-> old.claimed,
        retry |-> new.retry, failure |-> new.failure, rev |-> new.rev,
        admitted |-> old.admitted]
  ELSE new

\* Mutant: the revision fences a row, the admission does not.
MatchesRevisionOnly(j, seen) == jobs[j].status # "absent" /\ jobs[j].rev = seen.rev

\* The WHERE clause of the UPDATE: the row read is still the row stored.
Matches(j, seen) ==
  /\ jobs[j].status # "absent"
  /\ jobs[j].rev = seen.rev
  /\ jobs[j].admitted = seen.admitted

\* Deleting a request deletes its job and leaves a tombstone.
Collect(doomed) ==
  /\ jobs' = [j \in Jobs |-> IF j \in doomed THEN NoRow ELSE jobs[j]]
  /\ tombstones' = [j \in Jobs |-> IF j \in doomed THEN clock ELSE tombstones[j]]

\* The UPDATE with its AFTER trigger, which collects an orphan on the spot.
Write(j, new) ==
  LET row == Stored(jobs[j], new) IN
  IF Collectable(refs[j], row)
  THEN Collect({j})
  ELSE /\ jobs' = [jobs EXCEPT ![j] = row]
       /\ UNCHANGED tombstones

\* The triggers and the CHECK let the update of job j through.
Accepted(j, new) ==
  LET row == Stored(jobs[j], new) IN TransitionAllowed(jobs[j], row) /\ RowShape(row)

Lands(j, seen, new) == Matches(j, seen) /\ Accepted(j, new)

-----------------------------------------------------------------------------
(* Admission, references, evidence, retention. *)

Init ==
  /\ clock = 1
  /\ jobs = [j \in Jobs |-> NoRow]
  /\ refs = [j \in Jobs |-> {}]
  /\ tombstones = [j \in Jobs |-> 0]
  /\ operations = {}
  /\ evidence = {}
  /\ calls = [c \in Calls |-> Idle]
  /\ sweeps = [s \in Sweepers |-> Idle]
  /\ issued = 0

\* Real time; MaxClock is the model's horizon.
Tick ==
  /\ clock < MaxClock
  /\ clock' = clock + 1
  /\ UNCHANGED <<jobs, refs, tombstones, operations, evidence, calls, sweeps, issued>>

\* A tombstone still inside its retention window.
Retained(j) == tombstones[j] # 0 /\ tombstones[j] + TombstoneWindow > clock

\* Mutant: tombstones do not hold a job's return back.
AdmitOverTombstone(j) ==
  /\ refs' = [refs EXCEPT ![j] = {"link", "question"}]
  /\ jobs' = IF jobs[j].status = "absent"
             THEN [jobs EXCEPT ![j] = Admitted(clock)] ELSE jobs
  /\ UNCHANGED <<clock, tombstones, operations, evidence, calls, sweeps, issued>>

\* Mutant: admission replaces the row of a job that is already there.
AdmitReplacing(j) ==
  /\ ~ Retained(j)
  /\ refs' = [refs EXCEPT ![j] = {"link", "question"}]
  /\ jobs' = [jobs EXCEPT ![j] = Admitted(clock)]
  /\ UNCHANGED <<clock, tombstones, operations, evidence, calls, sweeps, issued>>

\* A triage acknowledgement admits a request: request, account link and job are
\* inserted unless present, and the queued question refers to the request. A
\* retained tombstone aborts the whole batch.
Admit(j) ==
  /\ ~ Retained(j)
  /\ refs' = [refs EXCEPT ![j] = {"link", "question"}]
  /\ jobs' = IF jobs[j].status = "absent"
             THEN [jobs EXCEPT ![j] = Admitted(clock)] ELSE jobs
  /\ UNCHANGED <<clock, tombstones, operations, evidence, calls, sweeps, issued>>

\* The last account link goes (unlink, account deletion or retention purge); the
\* AFTER DELETE trigger collects the request if that orphans it.
DropLink(j) ==
  /\ "link" \in refs[j]
  /\ refs' = [refs EXCEPT ![j] = @ \ {"link"}]
  /\ Collect({j} \cap {k \in Jobs : Collectable(refs'[k], jobs[k])})
  /\ UNCHANGED <<clock, operations, evidence, calls, sweeps, issued>>

\* The last question naming the request expires. No trigger runs.
ExpireQuestion(j) ==
  /\ "question" \in refs[j]
  /\ refs' = [refs EXCEPT ![j] = @ \ {"question"}]
  /\ UNCHANGED <<clock, jobs, tombstones, operations, evidence, calls, sweeps, issued>>

\* Mutant: only finished jobs are swept.
CollectFinishedOrphans ==
  LET orphans == {j \in Jobs : Collectable(refs[j], jobs[j])
                               /\ jobs[j].status \in {"failed", "published"}} IN
  /\ orphans # {}
  /\ Collect(orphans)
  /\ UNCHANGED <<clock, refs, operations, evidence, calls, sweeps, issued>>

\* collectExplorationRetention, second statement: sweep requests orphaned
\* without a trigger or held back by a lease that has since expired.
CollectOrphans ==
  LET orphans == {j \in Jobs : Collectable(refs[j], jobs[j])} IN
  /\ orphans # {}
  /\ Collect(orphans)
  /\ UNCHANGED <<clock, refs, operations, evidence, calls, sweeps, issued>>

\* Third statement: purge tombstones past their retention window.
PurgeTombstones ==
  /\ \E j \in Jobs : tombstones[j] # 0 /\ ~ Retained(j)
  /\ tombstones' = [j \in Jobs |-> IF Retained(j) THEN tombstones[j] ELSE 0]
  /\ UNCHANGED <<clock, jobs, refs, operations, evidence, calls, sweeps, issued>>

\* The pipeline loads a job's publication evidence, which the verifier reads.
LoadEvidence(j) ==
  /\ j \notin evidence
  /\ evidence' = evidence \cup {j}
  /\ UNCHANGED <<clock, jobs, refs, tombstones, operations, calls, sweeps, issued>>

-----------------------------------------------------------------------------
(* Requests: claimJob and ackJob. *)

Claims == {o \in operations : o.type = "claim"}

Recorded(type, service, op) ==
  \E o \in operations : o.type = type /\ o.service = service /\ o.op = op

\* A request arrives, samples the clock and looks up its operation id
\* (getOperation): one already recorded is replayed or refused without a write,
\* so only an unrecorded one goes on. Callers pick any job and attempt; a lease
\* to acknowledge is one that some claim, of any caller and job, was granted.
ArriveClaim(c, service, op, j, attempt) ==
  /\ calls[c] = Idle
  /\ ~ Recorded("claim", service, op)
  /\ calls' = [calls EXCEPT ![c] =
       [pc |-> "read", type |-> "claim", service |-> service, op |-> op, job |-> j,
        attempt |-> attempt, lease |-> 0, outcome |-> "none", now |-> clock,
        seen |-> NoRow]]
  /\ UNCHANGED <<clock, jobs, refs, tombstones, operations, evidence, sweeps, issued>>

ArriveAck(c, service, op, j, attempt, lease, outcome) ==
  /\ calls[c] = Idle
  /\ ~ Recorded("ack", service, op)
  /\ calls' = [calls EXCEPT ![c] =
       [pc |-> "read", type |-> "ack", service |-> service, op |-> op, job |-> j,
        attempt |-> attempt, lease |-> lease, outcome |-> outcome, now |-> clock,
        seen |-> NoRow]]
  /\ UNCHANGED <<clock, jobs, refs, tombstones, operations, evidence, sweeps, issued>>

\* claimJob: queued, due, at the expected attempt, with an attempt left.
Claimable(call, row) ==
  /\ row.status = "queued"
  /\ row.attempt = call.attempt
  /\ row.attempt < MaxAttempts
  /\ row.retry <= call.now

\* Mutant: any caller that knows the lease may acknowledge it.
HoldsAnyOwner(call, row) ==
  /\ row.status = "running"
  /\ row.attempt = call.attempt
  /\ row.lease = call.lease
  /\ row.expires > call.now

\* ackJob: running under this lease, held by this caller, not yet expired.
Holds(call, row) ==
  /\ row.status = "running"
  /\ row.attempt = call.attempt
  /\ row.lease = call.lease
  /\ row.owner = call.service
  /\ row.expires > call.now

\* get: a request whose guard fails is answered and ends; a publication goes to
\* the verifier first.
ReadJob(c) ==
  LET call == calls[c]
      row == jobs[call.job]
  IN /\ call.pc = "read"
     /\ calls' = [calls EXCEPT ![c] =
          CASE call.type = "claim" /\ Claimable(call, row) ->
                 [call EXCEPT !.pc = "commit", !.seen = row]
            [] call.type = "ack" /\ Holds(call, row) ->
                 [call EXCEPT !.pc = IF call.outcome = "published" THEN "verify" ELSE "commit",
                              !.seen = row]
            [] OTHER -> Idle]
     /\ UNCHANGED <<clock, jobs, refs, tombstones, operations, evidence, sweeps, issued>>

\* Mutant: the verifier's answer is ignored.
VerifyNothing(c) ==
  /\ calls[c].pc = "verify"
  /\ calls' = [calls EXCEPT ![c].pc = "commit"]
  /\ UNCHANGED <<clock, jobs, refs, tombstones, operations, evidence, sweeps, issued>>

\* verifier.verify: a publication without its evidence is refused and leaves the
\* job running.
VerifyPublication(c) ==
  /\ calls[c].pc = "verify"
  /\ calls' = [calls EXCEPT ![c] = IF calls[c].job \in evidence
                                   THEN [calls[c] EXCEPT !.pc = "commit"] ELSE Idle]
  /\ UNCHANGED <<clock, jobs, refs, tombstones, operations, evidence, sweeps, issued>>

\* The row a request commits; a claim is granted the next lease id.
NextRow(call) ==
  IF call.type = "claim" THEN Running(call.seen, call.service, issued + 1, call.now)
  ELSE IF call.outcome = "published" THEN Published(call.seen)
  ELSE Failed(call.seen, "reported", call.now)

\* Mutant: the record names the attempt after the operation's own.
RecordOfNextAttempt(call) ==
  LET claim == call.type = "claim" IN
  [type |-> call.type, service |-> call.service, op |-> call.op, job |-> call.job,
   attempt |-> call.attempt + 1, lease |-> IF claim THEN issued + 1 ELSE call.lease,
   expires |-> IF claim THEN call.now + LeaseSeconds ELSE 0, outcome |-> call.outcome]

RecordOf(call) ==
  LET claim == call.type = "claim" IN
  [type |-> call.type, service |-> call.service, op |-> call.op, job |-> call.job,
   attempt |-> call.attempt, lease |-> IF claim THEN issued + 1 ELSE call.lease,
   expires |-> IF claim THEN call.now + LeaseSeconds ELSE 0, outcome |-> call.outcome]

\* Mutant: the operation id is not checked again in the commit.
CommitsTwice(call) == Lands(call.job, call.seen, NextRow(call))

\* commit: the job's compare-and-swap and the operation record land together.
Commits(call) ==
  /\ ~ Recorded(call.type, call.service, call.op)
  /\ Lands(call.job, call.seen, NextRow(call))

CommitWins(c) ==
  LET call == calls[c] IN
  /\ call.pc = "commit"
  /\ Commits(call)
  /\ Write(call.job, NextRow(call))
  /\ operations' = operations \cup {RecordOf(call)}
  /\ issued' = IF call.type = "claim" THEN issued + 1 ELSE issued
  /\ calls' = [calls EXCEPT ![c] = Idle]
  /\ UNCHANGED <<clock, refs, evidence, sweeps>>

CommitLoses(c) ==
  /\ calls[c].pc = "commit"
  /\ ~ Commits(calls[c])
  /\ calls' = [calls EXCEPT ![c] = Idle]
  /\ UNCHANGED <<clock, jobs, refs, tombstones, operations, evidence, sweeps, issued>>

\* The Worker or the connection is lost before the commit. A lost reply after a
\* commit needs no action: the caller sends the same operation again.
Abandon(c) ==
  /\ calls[c] # Idle
  /\ calls' = [calls EXCEPT ![c] = Idle]
  /\ UNCHANGED <<clock, jobs, refs, tombstones, operations, evidence, sweeps, issued>>

-----------------------------------------------------------------------------
(* Sweeps: sweepExpiredLeases and sweepRetryDue. *)

StartSweep(s, kind) ==
  /\ sweeps[s] = Idle
  /\ sweeps' = [sweeps EXCEPT ![s] =
       [pc |-> "list", kind |-> kind, now |-> clock, batch |-> {}]]
  /\ UNCHANGED <<clock, jobs, refs, tombstones, operations, evidence, calls, issued>>

\* listExpiredLeases and listRetryDue, before their LIMIT.
Listed(kind, now) ==
  {[job |-> j, row |-> jobs[j]] : j \in {k \in Jobs :
     IF kind = "expired"
     THEN jobs[k].status = "running" /\ jobs[k].expires <= now
     ELSE /\ jobs[k].status = "failed"
          /\ jobs[k].failure # "attempts_exhausted"
          /\ jobs[k].retry <= now}}

\* One page of at most SweepBatch rows, the oldest admissions first.
ListRows(s) ==
  LET sweep == sweeps[s]
      listed == Listed(sweep.kind, sweep.now)
  IN /\ sweep.pc = "list"
     /\ \E page \in SUBSET listed :
          /\ Cardinality(page) = Earlier(SweepBatch, Cardinality(listed))
          /\ \A r \in page, q \in listed \ page : r.row.admitted <= q.row.admitted
          /\ sweeps' = [sweeps EXCEPT ![s] =
               IF page = {} THEN Idle ELSE [sweep EXCEPT !.pc = "move", !.batch = page]]
     /\ UNCHANGED <<clock, jobs, refs, tombstones, operations, evidence, calls, issued>>

Moved(sweep, r) ==
  IF sweep.kind = "expired" THEN Failed(r.row, "lease_expired", sweep.now)
  ELSE Requeued(r.row)

Done(s, r) ==
  LET rest == sweeps[s].batch \ {r} IN
  sweeps' = [sweeps EXCEPT ![s] = IF rest = {} THEN Idle ELSE [@ EXCEPT !.batch = rest]]

\* Each row of the page is committed on its own, without an operation record.
MoveRow(s, r) ==
  /\ Lands(r.job, r.row, Moved(sweeps[s], r))
  /\ Write(r.job, Moved(sweeps[s], r))
  /\ Done(s, r)
  /\ UNCHANGED <<clock, refs, operations, evidence, calls, issued>>

\* A row that changed since it was listed, or whose commit fails, is passed over.
SkipRow(s, r) ==
  /\ Done(s, r)
  /\ UNCHANGED <<clock, jobs, refs, tombstones, operations, evidence, calls, issued>>

MoveRows(s) == sweeps[s].pc = "move" /\ \E r \in sweeps[s].batch : MoveRow(s, r)

SkipRows(s) == sweeps[s].pc = "move" /\ \E r \in sweeps[s].batch : SkipRow(s, r)

AbandonSweep(s) ==
  /\ sweeps[s] # Idle
  /\ sweeps' = [sweeps EXCEPT ![s] = Idle]
  /\ UNCHANGED <<clock, jobs, refs, tombstones, operations, evidence, calls, issued>>

-----------------------------------------------------------------------------
(* The specifications. *)

Environment ==
  \/ Tick
  \/ \E j \in Jobs : Admit(j) \/ DropLink(j) \/ ExpireQuestion(j) \/ LoadEvidence(j)
  \/ CollectOrphans
  \/ PurgeTombstones

Arrive(c) ==
  \E service \in Services, op \in OpIds :
    \/ \E j \in Jobs, attempt \in 0..(MaxAttempts - 1) :
         ArriveClaim(c, service, op, j, attempt)
    \/ \E j \in Jobs, attempt \in 1..MaxAttempts, grant \in Claims,
          outcome \in {"reported", "published"} :
         ArriveAck(c, service, op, j, attempt, grant.lease, outcome)

Handle(c) ==
  ReadJob(c) \/ VerifyPublication(c) \/ CommitWins(c) \/ CommitLoses(c)

SweepStep(s) ==
  \/ \E kind \in {"expired", "due"} : StartSweep(s, kind)
  \/ ListRows(s)
  \/ MoveRows(s)
  \/ SkipRows(s)
  \/ AbandonSweep(s)

\* The requests the router serves: claims and acknowledgements only.
Served == \E c \in Calls : Arrive(c) \/ Handle(c) \/ Abandon(c)

Next == Environment \/ Served \/ \E s \in Sweepers : SweepStep(s)

Spec == Init /\ [][Next]_vars

\* The retention collector and the request-driven sweeps come round again and
\* again, alternating between the two kinds, and do not fail for ever.
CollectorFairness == WF_vars(CollectOrphans)

SweepFairness ==
  \A s \in Sweepers, kind \in {"expired", "due"} :
    /\ WF_vars(MoveRows(s) \/ SkipRows(s))
    /\ SF_vars(StartSweep(s, kind))
    /\ SF_vars(ListRows(s) /\ sweeps[s].kind = kind)
    /\ SF_vars(MoveRows(s) /\ sweeps[s].kind = kind)

SweptSpec == Spec /\ WF_vars(Tick) /\ CollectorFairness /\ SweepFairness

\* The program as wired in index.ts: the router calls readJobs, claimJob and
\* ackJob directly, and nothing calls the sweeps.
RoutedSpec ==
  /\ Init /\ [][Environment \/ Served]_vars
  /\ WF_vars(Tick) /\ CollectorFairness
  /\ \A c \in Calls : WF_vars(Handle(c))

-----------------------------------------------------------------------------
(* Properties. *)

\* The store holds well-formed rows and records; requests and sweeps in flight
\* hold well-formed snapshots of them.
TypeOK ==
  /\ clock \in Nat \ {0}
  /\ jobs \in [Jobs -> Row]
  /\ refs \in [Jobs -> SUBSET {"link", "question"}]
  /\ tombstones \in [Jobs -> Nat]
  /\ operations \subseteq Operation
  /\ evidence \subseteq Jobs
  /\ calls \in [Calls -> Request \cup {Idle}]
  /\ sweeps \in [Sweepers -> Sweep \cup {Idle}]
  /\ issued \in Nat

Acks == {o \in operations : o.type = "ack"}

Settled(lease) == \E a \in Acks : a.lease = lease

\* A granted lease is honoured for its whole term: until it expires or its
\* holder settles it, the job is running under exactly that lease, whatever
\* other claims, sweeps, unlinks and collections do meanwhile.
LiveLeaseHonoured ==
  \A o \in Claims :
    o.expires > clock /\ ~ Settled(o.lease) =>
      /\ jobs[o.job].status = "running"
      /\ jobs[o.job].lease = o.lease
      /\ jobs[o.job].owner = o.service
      /\ jobs[o.job].attempt = o.attempt + 1
      /\ jobs[o.job].expires = o.expires

\* A lease is settled at most once, and only by the service it was granted to,
\* for the job and attempt it was granted for.
SettledOnceByHolder ==
  \A a \in Acks :
    /\ \A b \in Acks : b.lease = a.lease => b = a
    /\ \E o \in Claims : /\ o.lease = a.lease /\ o.service = a.service
                         /\ o.job = a.job /\ o.attempt + 1 = a.attempt

\* An operation id takes effect at most once per service, however many copies of
\* the request are in flight: the commit looks the record up again.
OperationAppliedOnce ==
  \A o, p \in operations :
    o.type = p.type /\ o.service = p.service /\ o.op = p.op => o = p

\* Every update that would match its row is one the triggers accept, however
\* long after its reads it is sent: no request and no sweep ever fails on a
\* trigger. A late sweep relies on failed() clamping the retry time.
NoTransitionAborts ==
  /\ \A c \in Calls :
       LET call == calls[c] IN
       call.pc = "commit" /\ Matches(call.job, call.seen) =>
         Accepted(call.job, NextRow(call))
  /\ \A s \in Sweepers :
       sweeps[s].pc = "move" => \A r \in sweeps[s].batch :
         Matches(r.job, r.row) => Accepted(r.job, Moved(sweeps[s], r))

\* A failed job is never stranded: it is exhausted exactly when its attempts
\* are used up, and otherwise due within the retry window of its last claim.
NoStrandedFailure ==
  \A j \in Jobs : jobs[j].status = "failed" =>
    IF jobs[j].attempt = MaxAttempts
    THEN jobs[j].failure = "attempts_exhausted" /\ jobs[j].retry = 0
    ELSE /\ jobs[j].failure \in {"reported", "lease_expired"}
         /\ jobs[j].retry > jobs[j].claimed
         /\ jobs[j].retry <= jobs[j].claimed + RetryWindow

\* A published job was published by the holder of its last lease, on evidence.
PublishedOnEvidence ==
  \A j \in Jobs : jobs[j].status = "published" =>
    /\ j \in evidence
    /\ \E a \in Acks : /\ a.job = j /\ a.lease = jobs[j].lease
                       /\ a.service = jobs[j].owner /\ a.outcome = "published"

-----------------------------------------------------------------------------
(* The inductive invariant behind the safety properties. *)

\* A claim is never made, nor recorded, for a job without an attempt left.
AttemptLeft ==
  /\ \A o \in Claims : o.attempt < MaxAttempts
  /\ \A c \in Calls : calls[c] # Idle /\ calls[c].type = "claim" =>
                        calls[c].attempt < MaxAttempts

\* Leases are minted once each, and every running job holds one that was granted
\* to its owner for this attempt and is not settled yet.
LeasesGranted ==
  /\ \A o \in operations : o.lease \in 1..issued
  /\ \A o, p \in Claims : o.lease = p.lease => o = p
  /\ \A j \in Jobs : jobs[j].status = "running" =>
       /\ ~ Settled(jobs[j].lease)
       /\ \E o \in Claims : /\ o.lease = jobs[j].lease /\ o.service = jobs[j].owner
                            /\ o.job = j /\ o.attempt + 1 = jobs[j].attempt

\* A row once read is the row stored now, an earlier revision of it, or a row of an
\* earlier admission; a removed job cannot come back with its old admission time.
Coherent(row, current, now, retained) ==
  /\ row.status # "absent"
  /\ row.admitted <= now
  /\ current.status = "absent" => row.admitted < now \/ retained
  /\ current.status # "absent" =>
       \/ row = current
       \/ row.admitted < current.admitted
       \/ row.admitted = current.admitted /\ row.rev < current.rev

CoherentNow(j, row) == Coherent(row, jobs[j], clock, Retained(j))

SnapshotsCoherent ==
  /\ \A j \in Jobs : jobs[j].status # "absent" => jobs[j].admitted <= clock
  /\ \A c \in Calls : calls[c].pc \in {"verify", "commit"} =>
       CoherentNow(calls[c].job, calls[c].seen)
  /\ \A s \in Sweepers : sweeps[s].pc = "move" =>
       \A r \in sweeps[s].batch : CoherentNow(r.job, r.row)

\* What the guards checked of a row when it was read.
SnapshotsGuarded ==
  /\ \A c \in Calls : calls[c].pc \in {"verify", "commit"} =>
       /\ calls[c].seen.attempt = calls[c].attempt
       /\ calls[c].type = "ack" => /\ calls[c].seen.status = "running"
                                  /\ calls[c].seen.lease = calls[c].lease
                                  /\ calls[c].seen.owner = calls[c].service
  /\ \A s \in Sweepers : sweeps[s] # Idle =>
       /\ sweeps[s].now <= clock
       /\ sweeps[s].pc = "move" /\ sweeps[s].kind = "expired" =>
            \A r \in sweeps[s].batch :
              r.row.status = "running" /\ r.row.expires <= sweeps[s].now

IInv ==
  /\ TypeOK
  /\ AttemptLeft
  /\ LeasesGranted
  /\ SnapshotsCoherent
  /\ SnapshotsGuarded
  /\ LiveLeaseHonoured
  /\ SettledOnceByHolder
  /\ OperationAppliedOnce

-----------------------------------------------------------------------------
(* Refinement and liveness. *)

\* The bridge implements the abstract life of a job: at most MaxAttempts leases
\* per admission, each ended once, however reads, commits, sweeps, collections
\* and readmissions interleave.
Lifecycle == INSTANCE JobLifecycle WITH
  phase <- [j \in Jobs |->
              CASE jobs[j].status = "queued" -> "waiting"
                [] jobs[j].status = "running" -> "held"
                [] jobs[j].status = "failed" ->
                     IF jobs[j].failure = "attempts_exhausted" THEN "exhausted" ELSE "backoff"
                [] OTHER -> jobs[j].status],
  grants <- [j \in Jobs |-> jobs[j].attempt],
  holder <- [j \in Jobs |->
               IF jobs[j].status = "running" THEN jobs[j].owner ELSE NoService]

ImplementsLifecycle == Lifecycle!Spec

\* An expired lease does not hold its job for ever: the job fails, is settled or
\* is collected, although sweeps may crash, lose races and meet storage errors.
ExpiredLeaseIsReleased ==
  \A j \in Jobs :
    jobs[j].status = "running" /\ jobs[j].expires <= clock
      ~> ~ (jobs[j].status = "running" /\ jobs[j].expires <= clock)

\* A retryable failure whose delay has passed is queued again.
DueRetryIsRequeued ==
  \A j \in Jobs :
    jobs[j].status = "failed" /\ jobs[j].retry \in 1..clock ~> jobs[j].status # "failed"

\* A request nobody refers to any more is collected, also when its last reference
\* was a question, whose expiry runs no trigger.
OrphanIsCollected ==
  \A j \in Jobs :
    (jobs[j].status # "absent" /\ refs[j] = {} /\ ~ LeaseLive(jobs[j]))
      ~> (jobs[j].status = "absent" \/ refs[j] # {} \/ LeaseLive(jobs[j]))

=============================================================================
