---------------------------- MODULE QuestionTriage ----------------------------
(***************************************************************************)
(* Triage of one stored question (core/question-triage-bridge.ts and its   *)
(* D1 store in routes/question-triage-sweep.ts).  Services claim the       *)
(* question under a lease and acknowledge a verdict; two protocol versions *)
(* share the table, and the second one also triages the clarifications of  *)
(* a question that has a result (its sidecar row).                         *)
(*                                                                         *)
(* A handler reads the receipt and the row, maps the verdict, and writes;  *)
(* calls, their retries, sweeps, new snapshots and the clock interleave    *)
(* between the three.  Reads in a row are one step where the batch         *)
(* compares again what they saw.  A message stands for its operation id:   *)
(* an id is used for one body only, and a body names the attempt or the    *)
(* lease it is about.  A call that is lost takes no further step.  The     *)
(* Worker and D1 share a clock; the handler keeps the time at which it     *)
(* started.  Retention outlasts the model (QuestionIntake has the purge).  *)
(***************************************************************************)
EXTENDS Integers

CONSTANTS
  Services,      \* triage services
  Calls,         \* slots for requests and sweeps in flight
  Lease,         \* TRIAGE_LEASE_SECONDS
  Backoff,       \* the wait after a failed attempt
  Day,           \* '+1 day': the response deadline and the cap of the wait
  MaxAttempts,   \* attempts of one generation: 3
  MaxGeneration, \* clarifications of one question: 3
  MaxTime,       \* bound of the clock in a model
  MaxSnapshot    \* bound of the data snapshots in a model

ASSUME TimesAssumption ==
  /\ {Lease, Backoff, Day} \subseteq Nat \ {0} /\ MaxTime \in Nat
ASSUME BoundsAssumption == {MaxAttempts, MaxGeneration, MaxSnapshot} \subseteq Nat \ {0}

VARIABLES
  now,           \* the clock
  snapshot,      \* the newest data snapshot, and the catalog deployed with it
  row,           \* the question's row in question_requests
  result,        \* its sidecar in question_request_results
  clarification, \* the latest text in question_request_clarifications
  operations,    \* receipts of the latest accepted claim and acknowledgement
  job,           \* the shared exploration job an arrival question waits for
  calls          \* requests and sweeps in flight

vars == <<now, snapshot, row, result, clarification, operations, job, calls>>

Protocols == {1, 2}
Null == -1
Times == Null..MaxTime + Day
NoLease == [protocol |-> 0, revision |-> 0]
NoResult == [state |-> "none", revision |-> 0, parent |-> 0, generation |-> 0,
             deadline |-> Null, spec |-> 0]
Idle == [pc |-> "idle"]

Settled == {"filled", "partial", "no_data"}

EarlierOf(a, b) == IF a < b THEN a ELSE b

Until(r) == r.claimed + Lease

Managed(res) == res.state # "none"

\* The text c.text is the clarification of this generation of the question.
Clarified(res) == clarification = [generation |-> res.generation, parent |-> res.parent]

-----------------------------------------------------------------------------
(* Scopes: which rows a protocol may see and write. *)

\* Mutant: the second protocol takes over the leases of the first.
AnyLease(p, r) == p = 2 \/ r.lease.protocol # 2

\* Lease ids of protocol 2 start with "q2:".
OwnLease(p, r) ==
  IF p = 2 THEN r.status = "triaging" => r.lease.protocol = 2
           ELSE r.lease.protocol # 2

AwaitsTriage(r, res, at) ==
  /\ res.state = "triaging"
  /\ res.generation \in 1..MaxGeneration
  /\ Clarified(res)
  /\ r.revision >= res.parent
  /\ res.deadline > at

\* V1_SCOPE and V2_SCOPE in D1, and eligible() in the Worker at its own time.
InScope(p, r, res, at) ==
  /\ OwnLease(p, r)
  /\ \/ ~Managed(res)
     \/ p = 2 /\ AwaitsTriage(r, res, at)

\* Mutant: a lease whose sidecar expired is nobody's.
NoExpiredManaged(r, res) == FALSE

\* EXPIRED_MANAGED_SCOPE: only the sweep sees these, to end the lease.
ExpiredManaged(r, res) ==
  /\ r.status = "triaging" /\ r.lease.protocol = 2
  /\ res.state = "expired"
  /\ res.generation \in 1..MaxGeneration
  /\ Clarified(res)
  /\ r.revision >= res.parent

\* What a protocol-2 write requires of the sidecar besides the scope.
SameSidecar(p, res) ==
  p = 2 => result.generation = res.generation /\ result.revision = res.revision

-----------------------------------------------------------------------------
(* What the triggers of migrations 0013 and 0014 allow. *)

RowAllowed(r, next) ==
  /\ next.revision = r.revision + 1
  /\ \/ /\ r.status = "received" /\ next.status = "triaging"
        /\ r.attempt < MaxAttempts /\ next.attempt = r.attempt + 1
        /\ next.claimed >= r.claimed /\ r.retry <= next.claimed
        /\ next.lease # r.lease /\ next.retry = Null
     \/ /\ r.status = "triaging" /\ next.status = "received"
        /\ r.attempt < MaxAttempts /\ next.attempt = r.attempt
        /\ next.retry > r.claimed /\ next.retry <= r.claimed + Day
     \/ /\ r.status = "triaging" /\ next.status = "triage_failed"
        /\ r.attempt = MaxAttempts /\ next.retry = Null
     \/ /\ r.status = "triaging" /\ next.status \in {"junk", "triaged"}
        /\ next.attempt = r.attempt /\ next.retry = Null
     \/ /\ r.status = "triaged" /\ next.status \in Settled \cup {"queued"}
     \/ /\ r.status = "queued" /\ next.status \in Settled
     \/ /\ r.status \in Settled /\ next.status = "received"
        /\ next.attempt = 0 /\ next.lease = NoLease
        /\ result.state = "clarification_required" /\ result.parent = r.revision
        /\ result.generation < MaxGeneration /\ result.deadline > now

\* The sidecar against the row and the clarification as they will be.
ResultAllowed(res, next, r, clar) ==
  \/ /\ res.state = "none" /\ next.revision = 1
     /\ next.state \in {"clarification_required", "confirmation_required",
                        "unsupported", "unavailable"}
     /\ r.status \in Settled /\ next.parent = r.revision
  \/ /\ next.revision = res.revision + 1
     /\ \/ /\ res.state = "clarification_required" /\ next.state = "triaging"
           /\ next.parent = res.parent + 1
           /\ next.generation = res.generation + 1 /\ res.generation < MaxGeneration
           /\ res.deadline > now
           /\ r.status = "received" /\ r.attempt = 0 /\ r.revision = next.parent
           /\ clar = [generation |-> next.generation, parent |-> r.revision]
        \/ /\ res.state = "triaging" /\ next.parent > res.parent /\ next.parent = r.revision
           /\ next.generation = res.generation
           /\ next.state = "clarification_required" => next.generation < MaxGeneration
           /\ res.deadline > now
           /\ clar = [generation |-> next.generation, parent |-> res.parent]
           /\ (next.state = "confirmation_required") = (next.spec # 0)
           /\ \/ r.status \in Settled /\ next.state # "failed"
              \/ r.status = "junk" /\ next.state = "unsupported"
              \/ r.status = "triage_failed" /\ next.state = "failed"
        \/ /\ next.state = "expired" /\ res.deadline <= now
           /\ res.state \in {"triaging", "clarification_required", "confirmation_required"}
        \/ next.state = "stale" /\ res.state = "confirmation_required"

-----------------------------------------------------------------------------
(* Messages.  A field that a message does not have is 0. *)

ClaimV1(s) ==
  [kind |-> "claim", protocol |-> 1, service |-> s, attempt |-> row.attempt,
   revision |-> 0, generation |-> 0, context |-> 0, lease |-> NoLease,
   outcome |-> "none", answerNow |-> FALSE]

ClaimV2(s) ==
  [ClaimV1(s) EXCEPT !.protocol = 2, !.revision = row.revision,
                     !.generation = result.generation, !.context = snapshot]

\* The plain route of protocol 1 maps verdicts to cells, the answer-now route
\* maps them to a proposal, and so does protocol 2.
AckV1(s, outcome, answerNow) ==
  [ClaimV1(s) EXCEPT !.kind = "ack", !.lease = row.lease, !.outcome = outcome,
                     !.answerNow = answerNow]

AckV2(s, outcome) ==
  [AckV1(s, outcome, TRUE) EXCEPT !.protocol = 2, !.revision = row.revision,
     !.generation = result.generation, !.context = snapshot]

Clarification ==
  [kind |-> "clarify", revision |-> result.revision]

\* What a service or an account may send now, from what it can have read.
Fresh ==
  IF row.status = "received" THEN {ClaimV1(s) : s \in Services} \cup {ClaimV2(s) : s \in Services}
  ELSE IF row.status = "triaging"
  THEN {AckV1(row.owner, o, FALSE) : o \in {"failed", "junk", "verdict", "arrival"}}
         \cup {AckV1(row.owner, o, TRUE) : o \in {"failed", "verdict"}}
         \cup {AckV2(row.owner, o) : o \in {"failed", "junk", "verdict"}}
  ELSE IF result.state = "clarification_required" THEN {Clarification} ELSE {}

-----------------------------------------------------------------------------
Init ==
  /\ now = 0
  /\ snapshot = 1
  /\ row = [status |-> "received", attempt |-> 0, lease |-> NoLease, owner |-> "none",
            claimed |-> Null, retry |-> Null, revision |-> 1]
  /\ result = NoResult
  /\ clarification = [generation |-> 0, parent |-> 0]
  /\ operations = {}
  /\ job = "tombstone"
  /\ calls = [c \in Calls |-> Idle]

Data == <<row, result, clarification, operations, job>>

Tick ==
  /\ now < MaxTime
  /\ now' = now + 1
  /\ UNCHANGED <<snapshot, Data, calls>>

NewSnapshot ==
  /\ snapshot < MaxSnapshot
  /\ snapshot' = snapshot + 1
  /\ UNCHANGED <<now, Data, calls>>

\* A deleted job leaves a tombstone, for a while.
TombstoneLapses ==
  /\ job = "tombstone"
  /\ job' = "none"
  /\ UNCHANGED <<now, snapshot, row, result, clarification, operations, calls>>

At(c, pc) == calls[c].pc = pc

Answer(c) == calls' = [calls EXCEPT ![c] = Idle]

\* A retry has the message of an operation.
Send(c) ==
  /\ At(c, "idle")
  /\ \E m \in Fresh \cup {op.m : op \in operations} :
       calls' = [calls EXCEPT ![c] = [pc |-> "sent", m |-> m]]
  /\ UNCHANGED <<now, snapshot, Data>>

\* An operation is found while its effect still stands: in protocol 1 within its
\* scope, in protocol 2 while the row is as the operation left it.
Found(op) ==
  IF op.m.protocol = 1 THEN InScope(1, row, result, now)
  ELSE /\ op.m.generation = result.generation /\ op.applied = row.revision
       /\ op.m.kind = "claim" =>
            /\ row.status = "triaging" /\ row.lease = op.lease /\ Until(row) > now
            /\ InScope(2, row, result, now)

Replayed(m) == \E op \in operations : op.m = m /\ Found(op)

Claimable(m) ==
  /\ row.status = "received"
  /\ row.attempt = m.attempt /\ row.attempt < MaxAttempts
  /\ row.retry <= now

Ackable(m) ==
  /\ row.status = "triaging"
  /\ row.attempt = m.attempt
  /\ row.lease = m.lease /\ row.owner = m.service
  /\ Until(row) > now

\* The guards of claimQuestion and ackQuestion on the row they read; protocol 2
\* also compares the context it was given.
Permitted(m) ==
  /\ InScope(m.protocol, row, result, now)
  /\ IF m.kind = "claim" THEN Claimable(m) ELSE Ackable(m)
  /\ m.protocol = 2 => /\ row.revision = m.revision /\ result.generation = m.generation
                       /\ m.context = snapshot

\* The request samples its time; it is answered from its receipt, refused, or
\* goes on with the row as it was read.
Read(c) ==
  LET m == calls[c].m IN
  /\ At(c, "sent") /\ m.kind # "clarify"
  /\ IF Replayed(m) \/ ~Permitted(m) THEN Answer(c)
     ELSE calls' = [calls EXCEPT ![c] =
            [pc |-> IF m.answerNow /\ m.outcome = "verdict" THEN "map" ELSE "write",
             m |-> m, at |-> now, row |-> row, result |-> result, draft |-> NoResult]]
  /\ UNCHANGED <<now, snapshot, Data>>

\* What a verdict maps to; "unavailable" is handled as "unsupported" is.
Mapped(k) ==
  {[NoResult EXCEPT !.state = "confirmation_required", !.spec = snapshot],
   [NoResult EXCEPT !.state = "unsupported"],
   [NoResult EXCEPT !.state = IF k.m.protocol = 2 /\ k.result.generation >= MaxGeneration
                              THEN "unsupported" ELSE "clarification_required"]}

\* mapQuestionVerdict with the snapshot of this moment, which protocol 2 requires
\* to be the one of the request. The last clarification allowed asks no further one.
MapVerdict(c) ==
  LET k == calls[c] IN
  /\ At(c, "map")
  /\ IF k.m.protocol = 2 /\ k.m.context # snapshot THEN Answer(c)
     ELSE \E draft \in Mapped(k) :
            calls' = [calls EXCEPT ![c].pc = "write", ![c].draft = draft]
  /\ UNCHANGED <<now, snapshot, Data>>

-----------------------------------------------------------------------------
(* Writes. *)

\* The compare-and-swap of every write.
SameRow(k) ==
  /\ row.status = k.row.status /\ row.revision = k.row.revision
  /\ row.attempt = k.row.attempt /\ row.lease = k.row.lease /\ row.owner = k.row.owner

Unused(k) == \A op \in operations : op.m # k.m

Claimed(k) ==
  [k.row EXCEPT !.status = "triaging", !.attempt = @ + 1, !.owner = k.m.service,
     !.lease = [protocol |-> k.m.protocol, revision |-> k.row.revision + 1],
     !.claimed = k.at, !.retry = Null, !.revision = @ + 1]

ClaimMatches(k) ==
  /\ SameRow(k) /\ Unused(k)
  /\ row.retry <= k.at /\ k.at + Lease > now
  /\ InScope(k.m.protocol, row, result, now) /\ SameSidecar(k.m.protocol, k.result)
  /\ k.m.protocol = 2 => k.m.context = snapshot

\* Bounds: a lease granted in a model can expire in it, and receipts of earlier
\* leases are dropped (the row they are about is gone by its revision or attempt).
WriteClaim(c) ==
  LET k == calls[c] IN
  /\ At(c, "write") /\ k.m.kind = "claim"
  /\ k.at + Lease <= MaxTime
  /\ IF ClaimMatches(k) /\ RowAllowed(row, Claimed(k))
     THEN /\ row' = Claimed(k)
          /\ operations' = {[m |-> k.m, lease |-> Claimed(k).lease, applied |-> Claimed(k).revision]}
     ELSE UNCHANGED <<row, operations>>
  /\ Answer(c)
  /\ UNCHANGED <<now, snapshot, result, clarification, job>>

\* Mutant: one attempt too many.
ReleasedLate(r, at) ==
  [r EXCEPT !.revision = @ + 1,
     !.status = IF r.attempt > MaxAttempts THEN "triage_failed" ELSE "received",
     !.retry = IF r.attempt > MaxAttempts THEN Null ELSE EarlierOf(at + Backoff, r.claimed + Day)]

\* A failed attempt, and a lease that the sweep ends.
Released(r, at) ==
  [r EXCEPT !.revision = @ + 1,
     !.status = IF r.attempt >= MaxAttempts THEN "triage_failed" ELSE "received",
     !.retry = IF r.attempt >= MaxAttempts THEN Null ELSE EarlierOf(at + Backoff, r.claimed + Day)]

\* The rows an acknowledgement may write; cellStatus counts the cells that the
\* catalog has of a verdict without a proposal.
Acked(k) ==
  CASE k.m.outcome = "failed" -> {Released(k.row, k.at)}
    [] k.m.outcome = "junk" ->
         {[k.row EXCEPT !.status = "junk", !.retry = Null, !.revision = @ + 1]}
    [] OTHER ->
         {[k.row EXCEPT !.status = s, !.retry = Null, !.revision = @ + 2] : s \in
            CASE k.m.answerNow ->
                   {IF k.draft.state = "confirmation_required" THEN "filled" ELSE "no_data"}
              [] k.m.outcome = "arrival" -> {"queued"}
              [] OTHER -> Settled}

\* Mutant: a clarification that is junk leaves its sidecar in triage.
DraftUnlessJunk(k, next) ==
  CASE k.draft.state # "none" -> k.draft
    [] k.m.protocol = 2 /\ Managed(k.result) /\ next.status = "triage_failed" ->
         [NoResult EXCEPT !.state = "failed"]
    [] OTHER -> NoResult

\* The state the acknowledgement gives the sidecar, if any.
Draft(k, next) ==
  CASE k.draft.state # "none" -> k.draft
    [] k.m.protocol = 2 /\ Managed(k.result) /\ next.status \in {"junk", "triage_failed"} ->
         [NoResult EXCEPT !.state = IF next.status = "junk" THEN "unsupported" ELSE "failed"]
    [] OTHER -> NoResult

\* Mutant: the answer may be awaited for two days.
RemappedLong(res, next, draft, at) ==
  IF ~Managed(res)
  THEN [draft EXCEPT !.revision = 1, !.parent = next.revision, !.deadline = at + 2 * Day]
  ELSE [res EXCEPT !.state = draft.state, !.spec = draft.spec, !.revision = @ + 1,
                   !.parent = next.revision, !.deadline = at + 2 * Day]

\* remap: inserts the sidecar, or updates the one that was in triage.
Remapped(res, next, draft, at) ==
  IF ~Managed(res)
  THEN [draft EXCEPT !.revision = 1, !.parent = next.revision, !.deadline = at + Day]
  ELSE [res EXCEPT !.state = draft.state, !.spec = draft.spec, !.revision = @ + 1,
                   !.parent = next.revision, !.deadline = at + Day]

\* Mutant: the snapshot is not compared again in the batch.
UnboundToSnapshot(k) ==
  k.m.protocol = 2 =>
    \E op \in operations : /\ op.m.kind = "claim" /\ op.lease = row.lease
                           /\ op.applied = row.revision /\ op.m.context = k.m.context

\* The snapshot of the answer is still the newest, and, in protocol 2, the one
\* the claim was made with.
BoundToSnapshot(k) ==
  IF k.m.protocol = 2
  THEN /\ k.m.context = snapshot
       /\ \E op \in operations : /\ op.m.kind = "claim" /\ op.lease = row.lease
                                 /\ op.applied = row.revision /\ op.m.context = k.m.context
  ELSE k.draft.spec \in {0, snapshot}

\* Mutant: the lease is compared with the handler's time only.
AckMatchesAnyTime(k) ==
  /\ SameRow(k) /\ Unused(k)
  /\ Until(row) > k.at
  /\ InScope(k.m.protocol, row, result, now) /\ SameSidecar(k.m.protocol, k.result)
  /\ BoundToSnapshot(k)

AckMatches(k) ==
  /\ SameRow(k) /\ Unused(k)
  /\ Until(row) > k.at /\ Until(row) > now
  /\ InScope(k.m.protocol, row, result, now) /\ SameSidecar(k.m.protocol, k.result)
  /\ BoundToSnapshot(k)

\* The triggers see each statement of the batch: a verdict passes through
\* "triaged", and the sidecar is written when the row is.
BatchAllowed(r, next, res, nextRes) ==
  /\ IF r.status = "triaging" /\ next.status \in Settled \cup {"queued"}
     THEN LET mid == [next EXCEPT !.status = "triaged", !.revision = @ - 1]
          IN RowAllowed(r, mid) /\ RowAllowed(mid, next)
     ELSE RowAllowed(r, next)
  /\ nextRes # res => ResultAllowed(res, nextRes, next, clarification)

\* Mutant: the statements of the batch take effect without the job's.
AdmissionIgnored(next) ==
  IF next.status = "queued" /\ job = "none" THEN job' = "pending" ELSE UNCHANGED job

\* Admission inserts the job unless it is there; a tombstone aborts the batch.
Admission(next) ==
  IF next.status = "queued"
  THEN /\ job # "tombstone"
       /\ job' = IF job = "none" THEN "pending" ELSE job
  ELSE UNCHANGED job

WriteAck(c) ==
  LET k == calls[c] IN
  /\ At(c, "write") /\ k.m.kind = "ack"
  /\ \E next \in Acked(k) :
       LET draft == Draft(k, next)
           nextRes == IF Managed(draft) THEN Remapped(k.result, next, draft, k.at) ELSE result
       IN \/ /\ AckMatches(k) /\ BatchAllowed(row, next, result, nextRes)
             /\ Admission(next)
             /\ row' = next
             /\ result' = nextRes
             /\ operations' = operations \cup
                  {[m |-> k.m, lease |-> k.row.lease, applied |-> next.revision]}
          \/ /\ \/ ~AckMatches(k)
                \/ ~BatchAllowed(row, next, result, nextRes)
                \/ next.status = "queued" /\ job = "tombstone"
             /\ UNCHANGED <<row, result, operations, job>>
  /\ Answer(c)
  /\ UNCHANGED <<now, snapshot, clarification>>

-----------------------------------------------------------------------------
(* An account clarifies its question (core/question-request-clarification.ts). *)

Clarifiable(r, res) ==
  /\ res.state = "clarification_required"
  /\ res.generation < MaxGeneration
  /\ res.deadline > now
  /\ res.parent = r.revision /\ r.status \in Settled

ReadClarifiable(c) ==
  /\ At(c, "sent") /\ calls[c].m.kind = "clarify"
  /\ calls' = [calls EXCEPT ![c] =
       IF result.revision = calls[c].m.revision /\ Clarifiable(row, result)
       THEN [pc |-> "batch", m |-> calls[c].m, at |-> now, row |-> row, result |-> result,
             draft |-> NoResult]
       ELSE Idle]
  /\ UNCHANGED <<now, snapshot, Data>>

\* The reset of the parent requires the sidecar the handler read, still open.
Continues(k) ==
  /\ row.revision = k.row.revision
  /\ result.revision = k.m.revision
  /\ Clarifiable(row, result)
  /\ result.generation = 0 \/ clarification.generation = result.generation

Reopened(k) ==
  [row EXCEPT !.status = "received", !.attempt = 0, !.lease = NoLease, !.owner = "none",
              !.claimed = Null, !.retry = Null, !.revision = @ + 1]

Text(k) == [generation |-> k.result.generation + 1, parent |-> k.row.revision + 1]

Retriaged(k) ==
  [result EXCEPT !.state = "triaging", !.generation = k.result.generation + 1, !.spec = 0,
                 !.parent = k.row.revision + 1, !.deadline = k.at + Day, !.revision = @ + 1]

ClarifyAllowed(k) ==
  RowAllowed(row, Reopened(k)) /\ ResultAllowed(result, Retriaged(k), Reopened(k), Text(k))

\* Mutant: the statements are no batch, and the call is lost after the first.
ClarifyTorn(c) ==
  LET k == calls[c] IN
  /\ At(c, "batch")
  /\ row' = IF Continues(k) THEN Reopened(k) ELSE row
  /\ Answer(c)
  /\ UNCHANGED <<now, snapshot, clarification, result, operations, job>>

\* One batch of parent, text and sidecar. Its last statement aborts a batch that
\* reset the parent without the sidecar, which no sidecar as fenced above causes.
Clarify(c) ==
  LET k == calls[c] IN
  /\ At(c, "batch")
  /\ IF Continues(k) /\ ClarifyAllowed(k)
     THEN row' = Reopened(k) /\ clarification' = Text(k) /\ result' = Retriaged(k)
     ELSE UNCHANGED <<row, clarification, result>>
  /\ Answer(c)
  /\ UNCHANGED <<now, snapshot, operations, job>>

-----------------------------------------------------------------------------
(* Sweeps, driven by requests. Every isolate of the Worker rotates the kinds    *)
(* of rows on its own, so any kind may be next.                                *)

Overdue(res) ==
  /\ res.state \in {"triaging", "clarification_required", "confirmation_required"}
  /\ res.deadline <= now

Outdated(res) ==
  res.state = "confirmation_required" /\ (res.parent # row.revision \/ res.spec # snapshot)

\* maintainResults expires and invalidates sidecars; its failure is swallowed, so
\* that the sweep that follows may come without it.
Maintain ==
  /\ \/ /\ Overdue(result)
        /\ result' = [result EXCEPT !.state = "expired", !.revision = @ + 1]
     \/ /\ ~Overdue(result) /\ Outdated(result)
        /\ result' = [result EXCEPT !.state = "stale", !.revision = @ + 1]
  /\ UNCHANGED <<now, snapshot, row, clarification, operations, job, calls>>

\* sweepRows and the filter on its rows. No batch leaves a row "triaged".
Listed(p, kind) ==
  IF kind = "queued" THEN p = 1 /\ row.status = "queued" /\ InScope(p, row, result, now)
  ELSE /\ row.status = "triaging" /\ Until(row) <= now
       /\ \/ InScope(p, row, result, now)
          \/ p = 2 /\ ExpiredManaged(row, result)

SweepRows(c, p, kind) ==
  /\ At(c, "idle")
  /\ Listed(p, kind)
  /\ calls' = [calls EXCEPT ![c] =
       [pc |-> IF kind = "queued" THEN "job" ELSE "settle", p |-> p, at |-> now,
        row |-> row, result |-> result, next |-> Released(row, now)]]
  /\ UNCHANGED <<now, snapshot, Data>>

\* queueResult: a job that waits or runs leaves the question queued, one that
\* published or failed settles it, and so does one that is gone.
QueueResult(c) ==
  /\ At(c, "job")
  /\ \/ Answer(c)
     \/ \E s \in Settled :
          calls' = [calls EXCEPT ![c].pc = "settle",
            ![c].next = [calls[c].row EXCEPT !.status = s, !.revision = @ + 1]]
  /\ UNCHANGED <<now, snapshot, Data>>

\* The sidecar's lease was over before the question's: settle leaves it alone.
OverBefore(s) == s.p = 2 /\ s.result.state = "expired"

\* A lease that ends with the last attempt fails the clarification with it.
SettledResult(s) ==
  IF s.p = 2 /\ Managed(s.result) /\ s.next.status = "triage_failed" /\ ~OverBefore(s)
  THEN Remapped(s.result, s.next, [NoResult EXCEPT !.state = "failed"], s.at)
  ELSE result

SettleMatches(s) ==
  /\ SameRow(s) /\ SameSidecar(s.p, s.result)
  /\ row.status = "triaging" => Until(row) <= now
  /\ IF OverBefore(s) THEN ExpiredManaged(row, result) ELSE InScope(s.p, row, result, now)

Settle(c) ==
  LET s == calls[c] IN
  /\ At(c, "settle")
  /\ IF SettleMatches(s) /\ BatchAllowed(row, s.next, result, SettledResult(s))
     THEN row' = s.next /\ result' = SettledResult(s)
     ELSE UNCHANGED <<row, result>>
  /\ Answer(c)
  /\ UNCHANGED <<now, snapshot, clarification, operations, job>>

-----------------------------------------------------------------------------
Handle(c) ==
  \/ Send(c)
  \/ Read(c)
  \/ MapVerdict(c)
  \/ WriteClaim(c)
  \/ WriteAck(c)
  \/ ReadClarifiable(c)
  \/ Clarify(c)

Sweep(c) ==
  \/ \E p \in Protocols, kind \in {"expired", "queued"} : SweepRows(c, p, kind)
  \/ QueueResult(c)
  \/ Settle(c)

Next ==
  \/ Tick
  \/ NewSnapshot
  \/ TombstoneLapses
  \/ Maintain
  \/ \E c \in Calls : Handle(c) \/ Sweep(c)

Spec == Init /\ [][Next]_vars

-----------------------------------------------------------------------------
(* Properties. *)

States == {"none", "triaging", "clarification_required", "confirmation_required",
           "unsupported", "unavailable", "failed", "expired", "stale"}

\* The row, its sidecar and the clock are well formed.
TypeOK ==
  /\ now \in 0..MaxTime /\ snapshot \in 1..MaxSnapshot
  /\ row.status \in {"received", "triaging", "queued", "junk", "triage_failed"} \cup Settled
  /\ row.attempt \in 0..MaxAttempts /\ row.revision \in Nat
  /\ row.lease.protocol \in {0} \cup Protocols
  /\ row.owner \in Services \cup {"none"}
  /\ {row.claimed, row.retry, result.deadline} \subseteq Times
  /\ result.state \in States
  /\ result.generation \in 0..MaxGeneration
  /\ {result.parent, result.revision, result.spec} \subseteq Nat

\* Every write that passes its compare-and-swap is one the triggers accept: no
\* call or sweep is answered with an abort that it would meet again on a retry.
\* ackQuestion, sweepQuestions and the triggers of migration 0014 agree.
NoWriteAborts ==
  /\ \A c \in Calls : At(c, "write") =>
       LET k == calls[c] IN
       IF k.m.kind = "claim" THEN ClaimMatches(k) => RowAllowed(row, Claimed(k))
       ELSE AckMatches(k) => \A next \in Acked(k) :
              BatchAllowed(row, next, result,
                IF Managed(Draft(k, next)) THEN Remapped(k.result, next, Draft(k, next), k.at)
                ELSE result)
  /\ \A c \in Calls : At(c, "settle") =>
       LET s == calls[c] IN
       SettleMatches(s) => BatchAllowed(row, s.next, result, SettledResult(s))
  /\ \A c \in Calls : At(c, "batch") /\ Continues(calls[c]) => ClarifyAllowed(calls[c])

\* The sidecar and its question agree: a sidecar is in triage only while its
\* question is, a proposal or an open clarification belongs to the question as
\* it is now and has its verdict, and a question with a sidecar waits for no job.
\* Several writers keep this: ackQuestion, sweepQuestions, clarifyQuestionResult
\* and maintainResults.
SidecarAgrees ==
  /\ result.state = "triaging" =>
       row.status \in {"received", "triaging"} /\ Clarified(result) /\ row.revision >= result.parent
  /\ result.state \in {"confirmation_required", "clarification_required"} =>
       row.status \in Settled /\ row.revision = result.parent
  /\ Managed(result) => row.status # "queued"

\* The question is not reset for a clarification without its sidecar being put
\* into triage, whatever happened to the sidecar since the account read it.
ClarifiedTogether ==
  [][row.status \in Settled /\ row'.status = "received"
       => result'.state = "triaging" /\ result'.parent = row'.revision
          /\ clarification'.parent = row'.revision]_vars

\* A lease granted under one protocol is ended by that protocol: by an
\* acknowledgement of a request of that version or by its sweep.
LeaseKeepsProtocol ==
  [][row.status = "triaging" /\ row' # row =>
       \E c \in Calls : /\ calls[c].pc \in {"write", "settle"} /\ calls'[c] = Idle
                       /\ row.lease.protocol =
                            IF At(c, "settle") THEN calls[c].p ELSE calls[c].m.protocol]_vars

\* A lease that has run out is not acknowledged, however late the batch runs.
LateAckRefused ==
  [][row.status = "triaging" /\ operations' # operations => Until(row) > now]_vars

\* A proposal is of the snapshot that is newest when it is written: no snapshot
\* slips in between mapping the verdict and the batch.
ProposalIsCurrent ==
  [][result'.state = "confirmation_required" /\ result.state # "confirmation_required"
       => result'.spec = snapshot]_vars

\* A question is queued only behind a job that is there: a tombstone of the job
\* aborts the verdict with the admission.
QueuedBehindJob ==
  [][row'.status = "queued" /\ row.status # "queued" => job' \notin {"none", "tombstone"}]_vars

\* A lease that has run out is not stranded: some sweep sees its row, or
\* maintenance is due that makes it visible. The sidecar of a clarification may
\* expire under its lease, which takes the row out of both protocols' scopes.
NoStrandedLease ==
  row.status = "triaging" /\ Until(row) <= now =>
    (\E p \in Protocols : Listed(p, "expired")) \/ Overdue(result)
=============================================================================
