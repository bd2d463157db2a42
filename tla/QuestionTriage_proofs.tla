------------------------ MODULE QuestionTriage_proofs ------------------------
(***************************************************************************)
(* Proofs about the triage of a stored question, for any services, number  *)
(* of calls in flight, lease and waiting times and limits: what the two    *)
(* protocols, the clarifications and the sweeps keep true of the question  *)
(* and its sidecar, however they interleave between a read and a batch.    *)
(***************************************************************************)
EXTENDS QuestionTriage, TLAPS

-----------------------------------------------------------------------------
(* Types. *)

Clock == 0..MaxTime
Statuses == {"received", "triaging", "queued", "junk", "triage_failed"} \cup Settled
Leases == [protocol : {0} \cup Protocols, revision : Nat]
Attempts == 0..MaxAttempts
Owners == Services \cup {"none"}
Claimings == Null..MaxTime
Generations == 0..MaxGeneration

Rows ==
  [status : Statuses, attempt : Attempts, lease : Leases, owner : Owners,
   claimed : Claimings, retry : Times, revision : Nat]

Results ==
  [state : States, revision : Nat, parent : Nat, generation : Generations,
   deadline : Times, spec : Nat]

Texts == [generation : Nat, parent : Nat]

Messages ==
  [kind : {"claim", "ack"}, protocol : Protocols, service : Owners,
   attempt : Attempts, revision : Nat, generation : Generations,
   context : 0..MaxSnapshot, lease : Leases,
   outcome : {"none", "failed", "junk", "verdict", "arrival"}, answerNow : BOOLEAN]

\* A claim has no verdict, protocol 2 has the answer-now route only, and that
\* route queues nothing.
WellFormed(m) ==
  /\ m.kind = "claim" => m.outcome = "none" /\ ~m.answerNow
  /\ m.kind = "ack" => m.outcome # "none"
  /\ m.protocol = 2 /\ m.kind = "ack" => m.answerNow
  /\ m.answerNow => m.outcome # "arrival"

Requests == {m \in Messages : WellFormed(m)}

Clarifications == [kind : {"clarify"}, revision : Nat]

Receipts == [m : Requests, lease : Leases, applied : Nat]

Waiting == [pc : {"sent"}, m : Requests \cup Clarifications]

Working ==
  [pc : {"map", "write"}, m : Requests, at : Clock, row : Rows, result : Results,
   draft : Results]

Clarifying ==
  [pc : {"batch"}, m : Clarifications, at : Clock, row : Rows, result : Results,
   draft : Results]

Sweeping ==
  [pc : {"job", "settle"}, p : Protocols, at : Clock, row : Rows, result : Results,
   next : Rows]

InFlight == {Idle} \cup Waiting \cup Working \cup Clarifying \cup Sweeping

Typing ==
  /\ now \in Clock /\ snapshot \in 1..MaxSnapshot
  /\ row \in Rows
  /\ result \in Results
  /\ clarification \in Texts
  /\ operations \subseteq Receipts
  /\ job \in {"tombstone", "none", "pending"}
  /\ calls \in [Calls -> InFlight]

-----------------------------------------------------------------------------
(* The inductive invariant. *)

\* The row by itself: a lease names a revision that the row has had, an attempt
\* is left while the question waits for one, and a wait starts with the lease.
RowShape(r, t) ==
  /\ r.lease.revision <= r.revision
  /\ r.claimed <= t
  /\ r.status = "received" => r.attempt < MaxAttempts /\ r.claimed <= r.retry
  /\ r.status = "triaging" => r.lease.protocol \in Protocols

\* A question leased while it has a sidecar is leased under protocol 2, and its
\* sidecar is in triage or has expired under the lease.
LeasedWithSidecar ==
  row.status = "triaging" /\ Managed(result) =>
    /\ row.lease.protocol = 2
    /\ result.state \in {"triaging", "expired"} /\ result.generation >= 1
    /\ Clarified(result) /\ row.revision >= result.parent

SidecarShape ==
  /\ SidecarAgrees
  /\ LeasedWithSidecar
  /\ ~Managed(result) => result = NoResult
  /\ result.state = "triaging" => result.generation >= 1

\* A held copy is an earlier revision of what is stored, or the same.
Version(held, stored) ==
  /\ held.revision <= stored.revision
  /\ held.revision = stored.revision => held = stored

\* The proposal, refusal or question that a verdict was mapped to.
DraftOK(k) ==
  IF k.m.answerNow /\ k.m.outcome = "verdict"
  THEN /\ k.draft = [NoResult EXCEPT !.state = k.draft.state, !.spec = k.draft.spec]
       /\ k.draft.state \in {"confirmation_required", "unsupported", "clarification_required"}
       /\ (k.draft.state = "confirmation_required") = (k.draft.spec # 0)
       /\ k.m.protocol = 2 /\ k.draft.state = "confirmation_required" =>
            k.draft.spec = k.m.context
       /\ k.m.protocol = 2 /\ k.draft.state = "clarification_required" =>
            k.result.generation < MaxGeneration
  ELSE k.draft = NoResult

\* What a request past its guards knows of the row it read.
RequestOK(k) ==
  /\ k.m.protocol = 1 => ~Managed(k.result)
  /\ k.m.kind = "claim" => k.row.status = "received" /\ k.row.attempt < MaxAttempts
  /\ k.m.kind = "ack" => k.row.status = "triaging" /\ k.row.claimed <= k.at
  /\ k.pc = "map" => k.m.kind = "ack" /\ k.m.answerNow /\ k.m.outcome = "verdict"
  /\ k.pc = "write" => DraftOK(k)

SettledBy(s, status) == s.next = [s.row EXCEPT !.status = status, !.revision = @ + 1]

\* What a sweep is about to write over the row it read.
SweepOK(s) ==
  \/ /\ s.row.status = "queued"
     /\ s.pc = "settle" => \E status \in Settled : SettledBy(s, status)
  \/ /\ s.row.status = "triaging" /\ s.row.claimed <= s.at
     /\ s.pc = "settle" /\ s.next = Released(s.row, s.at)

Holding(k) == k.pc \in {"map", "write", "batch", "job", "settle"}

\* A call in flight, against the row, the sidecar and the time.
CallOK(k, r, res, t) ==
  /\ Holding(k) => Version(k.row, r) /\ Version(k.result, res) /\ k.at <= t
  /\ k.pc \in {"map", "write"} => RequestOK(k)
  /\ k.pc = "batch" => k.result.revision = k.m.revision
  /\ k.pc \in {"job", "settle"} => SweepOK(k)

CallsOK == \A c \in Calls : CallOK(calls[c], row, result, now)

IInv ==
  /\ Typing
  /\ RowShape(row, now)
  /\ SidecarShape
  /\ CallsOK

-----------------------------------------------------------------------------
(* Values. *)

LEMMA Bounds ==
  /\ Lease \in Nat /\ Lease >= 1 /\ Backoff \in Nat /\ Backoff >= 1
  /\ Day \in Nat /\ Day >= 1 /\ MaxTime \in Nat
  /\ MaxAttempts \in Nat /\ MaxAttempts >= 1
  /\ MaxGeneration \in Nat /\ MaxGeneration >= 1
  /\ MaxSnapshot \in Nat /\ MaxSnapshot >= 1
BY TimesAssumption, BoundsAssumption

LEMMA TimeValues ==
  /\ Clock \subseteq Claimings /\ Clock \subseteq Times /\ Claimings \subseteq Times
  /\ Times \subseteq Int /\ Clock \subseteq Nat
  /\ Null \in Claimings /\ Null \in Times
  /\ \A t \in Clock : t + Day \in Times
BY Bounds DEF Clock, Claimings, Times, Null

\* The fields of a row or a sidecar, for a proof that needs a few of them.
LEMMA RowFields ==
  ASSUME NEW r \in Rows
  PROVE  /\ r.status \in Statuses /\ r.attempt \in Attempts /\ r.lease \in Leases
         /\ r.owner \in Owners /\ r.claimed \in Claimings /\ r.retry \in Times
         /\ r.revision \in Nat
         /\ r.attempt \in Nat /\ r.attempt <= MaxAttempts
         /\ r.claimed \in Int /\ r.retry \in Int /\ r.claimed <= MaxTime
         /\ r.lease.revision \in Nat
<1>1. /\ r.status \in Statuses /\ r.attempt \in Attempts /\ r.lease \in Leases
      /\ r.owner \in Owners /\ r.claimed \in Claimings /\ r.retry \in Times
      /\ r.revision \in Nat
  BY DEF Rows
<1>2. r.attempt \in Nat /\ r.attempt <= MaxAttempts
  BY <1>1, Bounds DEF Attempts
<1>3. r.claimed \in Int /\ r.claimed <= MaxTime
  BY <1>1, Bounds DEF Claimings, Null
<1>4. r.retry \in Int
  BY <1>1, TimeValues
<1>5. r.lease.revision \in Nat
  BY <1>1 DEF Leases
<1> QED
  BY <1>1, <1>2, <1>3, <1>4, <1>5

LEMMA ResultFields ==
  ASSUME NEW res \in Results
  PROVE  /\ res.state \in States /\ res.revision \in Nat /\ res.parent \in Nat
         /\ res.generation \in Generations /\ res.deadline \in Times /\ res.spec \in Nat
         /\ res.generation \in Nat /\ res.generation <= MaxGeneration
         /\ res.deadline \in Int
<1>1. /\ res.state \in States /\ res.revision \in Nat /\ res.parent \in Nat
      /\ res.generation \in Generations /\ res.deadline \in Times /\ res.spec \in Nat
  BY DEF Results
<1>2. res.generation \in Nat /\ res.generation <= MaxGeneration
  BY <1>1, Bounds DEF Generations
<1>3. res.deadline \in Int
  BY <1>1, TimeValues
<1> QED
  BY <1>1, <1>2, <1>3

\* What a row is after a failed attempt or the end of its lease.
LEMMA ReleasedRow ==
  ASSUME NEW r \in Rows, NEW at \in Clock, r.claimed <= at
  PROVE  LET next == Released(r, at) IN
         /\ next \in Rows
         /\ \/ next.status = "received" /\ r.attempt < MaxAttempts
               /\ r.claimed < next.retry /\ next.retry <= r.claimed + Day
            \/ next.status = "triage_failed" /\ r.attempt = MaxAttempts /\ next.retry = Null
         /\ next.attempt = r.attempt /\ next.lease = r.lease /\ next.claimed = r.claimed
         /\ next.revision = r.revision + 1
<1> DEFINE retry == EarlierOf(at + Backoff, r.claimed + Day)
           revision == r.revision + 1
<1>1. revision \in Nat /\ r.attempt \in Nat /\ r.attempt <= MaxAttempts
  BY RowFields
<1>2. {"received", "triage_failed"} \subseteq Statuses
  BY DEF Statuses
<1>3. retry \in Times /\ r.claimed < retry /\ retry <= r.claimed + Day
  <2>1. r.claimed \in Null..MaxTime /\ at \in 0..MaxTime
    BY RowFields DEF Claimings, Clock
  <2> QED
    BY <2>1, Bounds DEF EarlierOf, Times, Null
<1> HIDE DEF retry, revision
<1>4. CASE r.attempt >= MaxAttempts
  <2>1. Released(r, at) =
          [r EXCEPT !.revision = revision, !.status = "triage_failed", !.retry = Null]
    BY <1>4 DEF Released, revision
  <2>2. r.attempt = MaxAttempts
    BY <1>1, <1>4, Bounds
  <2>3. /\ Released(r, at) \in Rows
        /\ Released(r, at).status = "triage_failed" /\ Released(r, at).retry = Null
        /\ Released(r, at).revision = revision
        /\ Released(r, at).attempt = r.attempt /\ Released(r, at).lease = r.lease
        /\ Released(r, at).claimed = r.claimed
    BY <1>1, <1>2, <2>1, TimeValues DEF Rows
  <2> QED
    BY <2>2, <2>3 DEF revision
<1>5. CASE ~ r.attempt >= MaxAttempts
  <2>1. Released(r, at) =
          [r EXCEPT !.revision = revision, !.status = "received", !.retry = retry]
    BY <1>5 DEF Released, retry, revision
  <2>2. r.attempt < MaxAttempts
    BY <1>1, <1>5, Bounds
  <2>3. /\ Released(r, at) \in Rows
        /\ Released(r, at).status = "received" /\ Released(r, at).retry = retry
        /\ Released(r, at).revision = revision
        /\ Released(r, at).attempt = r.attempt /\ Released(r, at).lease = r.lease
        /\ Released(r, at).claimed = r.claimed
    BY <1>1, <1>2, <1>3, <2>1 DEF Rows
  <2> QED
    BY <1>3, <2>2, <2>3 DEF revision
<1> QED
  BY <1>1, <1>4, <1>5, Bounds

\* The row under a new lease.
LEMMA ClaimedRow ==
  ASSUME NEW k \in Working, k.row.attempt < MaxAttempts
  PROVE  LET next == Claimed(k) IN
         /\ next \in Rows
         /\ next.status = "triaging" /\ next.attempt = k.row.attempt + 1
         /\ next.lease = [protocol |-> k.m.protocol, revision |-> k.row.revision + 1]
         /\ next.owner = k.m.service /\ next.claimed = k.at /\ next.retry = Null
         /\ next.revision = k.row.revision + 1
<1> DEFINE lease == [protocol |-> k.m.protocol, revision |-> k.row.revision + 1]
           attempt == k.row.attempt + 1
           revision == k.row.revision + 1
<1>1. k.row \in Rows /\ k.at \in Claimings /\ k.m.service \in Owners /\ k.m.protocol \in Protocols
  BY TimeValues DEF Working, Requests, Messages
<1>2. attempt \in Attempts /\ revision \in Nat
  BY <1>1, RowFields, Bounds DEF Attempts
<1>3. lease \in Leases
  BY <1>1, <1>2 DEF Leases
<1>4. Claimed(k) = [k.row EXCEPT !.status = "triaging", !.attempt = attempt,
                      !.owner = k.m.service, !.lease = lease, !.claimed = k.at,
                      !.retry = Null, !.revision = revision]
  BY DEF Claimed
<1>5. "triaging" \in Statuses
  BY DEF Statuses
<1> HIDE DEF lease, attempt, revision
<1>6. /\ Claimed(k) \in Rows
      /\ Claimed(k).status = "triaging" /\ Claimed(k).attempt = attempt
      /\ Claimed(k).lease = lease /\ Claimed(k).owner = k.m.service
      /\ Claimed(k).claimed = k.at /\ Claimed(k).retry = Null /\ Claimed(k).revision = revision
  BY <1>1, <1>2, <1>3, <1>4, <1>5, TimeValues DEF Rows
<1> QED
  BY <1>6 DEF lease, attempt, revision

\* The sidecar that an acknowledgement or a sweep leaves.
LEMMA RemappedResult ==
  ASSUME NEW res \in Results, NEW next \in Rows, NEW draft \in Results, NEW at \in Clock,
         draft.generation = 0
  PROVE  LET new == Remapped(res, next, draft, at) IN
         /\ new \in Results
         /\ new.state = draft.state /\ new.spec = draft.spec /\ new.parent = next.revision
         /\ Managed(res) => new.generation = res.generation /\ new.revision = res.revision + 1
         /\ ~Managed(res) => new.generation = 0 /\ new.revision = 1
<1> DEFINE deadline == at + Day
           revision == res.revision + 1
           first == 1
<1>1. deadline \in Times /\ revision \in Nat /\ first \in Nat /\ next.revision \in Nat
  BY TimeValues, RowFields, ResultFields
<1>2. Managed(res) => Remapped(res, next, draft, at) =
        [res EXCEPT !.state = draft.state, !.spec = draft.spec, !.revision = revision,
                    !.parent = next.revision, !.deadline = deadline]
  BY DEF Remapped
<1>3. ~Managed(res) => Remapped(res, next, draft, at) =
        [draft EXCEPT !.revision = first, !.parent = next.revision, !.deadline = deadline]
  BY DEF Remapped
<1> HIDE DEF deadline, revision, first
<1>4. CASE Managed(res)
  <2>1. /\ Remapped(res, next, draft, at) \in Results
        /\ Remapped(res, next, draft, at).state = draft.state
        /\ Remapped(res, next, draft, at).spec = draft.spec
        /\ Remapped(res, next, draft, at).parent = next.revision
        /\ Remapped(res, next, draft, at).generation = res.generation
        /\ Remapped(res, next, draft, at).revision = revision
    BY <1>1, <1>2, <1>4 DEF Results
  <2> QED
    BY <1>4, <2>1 DEF revision
<1>5. CASE ~Managed(res)
  <2>1. /\ Remapped(res, next, draft, at) \in Results
        /\ Remapped(res, next, draft, at).state = draft.state
        /\ Remapped(res, next, draft, at).spec = draft.spec
        /\ Remapped(res, next, draft, at).parent = next.revision
        /\ Remapped(res, next, draft, at).generation = draft.generation
        /\ Remapped(res, next, draft, at).revision = first
    BY <1>1, <1>3, <1>5 DEF Results
  <2> QED
    BY <1>5, <2>1 DEF first
<1> QED
  BY <1>4, <1>5

\* A call in flight is what its pc says.
LEMMA Slots ==
  ASSUME Typing, NEW c \in Calls
  PROVE  /\ calls[c] \in InFlight
         /\ At(c, "sent") => calls[c] \in Waiting
         /\ At(c, "map") \/ At(c, "write") => calls[c] \in Working
         /\ At(c, "batch") => calls[c] \in Clarifying
         /\ At(c, "job") \/ At(c, "settle") => calls[c] \in Sweeping
BY DEF Typing, InFlight, Idle, Waiting, Working, Clarifying, Sweeping, At

LEMMA WorkingFields ==
  ASSUME NEW k \in Working
  PROVE  /\ k.m \in Requests /\ k.m \in Messages /\ WellFormed(k.m)
         /\ k.m.kind \in {"claim", "ack"} /\ k.m.protocol \in Protocols
         /\ k.at \in Clock /\ k.row \in Rows /\ k.result \in Results /\ k.draft \in Results
BY DEF Working, Requests, Messages

\* What an acknowledgement makes of the row it read.
LEMMA AckedRow ==
  ASSUME NEW k \in Working, RequestOK(k), k.m.kind = "ack", NEW next \in Acked(k)
  PROVE  /\ next \in Rows
         /\ next.attempt = k.row.attempt /\ next.lease = k.row.lease
         /\ next.claimed = k.row.claimed /\ next.revision > k.row.revision
         /\ \/ k.m.outcome = "failed" /\ next = Released(k.row, k.at)
            \/ /\ k.m.outcome = "junk" /\ next.status = "junk"
               /\ next.retry = Null /\ next.revision = k.row.revision + 1
            \/ /\ k.m.outcome \in {"verdict", "arrival"}
               /\ next.status \in IF k.m.answerNow THEN {"filled", "no_data"}
                                  ELSE Settled \cup {"queued"}
               /\ next.retry = Null /\ next.revision = k.row.revision + 2
<1> DEFINE one == k.row.revision + 1
           two == k.row.revision + 2
<1>1. k.row \in Rows /\ k.at \in Clock /\ k.row.claimed <= k.at /\ k.row.revision \in Nat
  BY WorkingFields, RowFields DEF RequestOK
<1>2. one \in Nat /\ two \in Nat /\ one > k.row.revision /\ two > k.row.revision
  BY <1>1
<1>3. k.m.outcome \in {"failed", "junk", "verdict", "arrival"}
  BY WorkingFields DEF WellFormed, Messages
<1>4. CASE k.m.outcome = "failed"
  <2>1. next = Released(k.row, k.at)
    BY <1>4 DEF Acked
  <2> QED
    BY <1>1, <1>2, <1>4, <2>1, ReleasedRow
<1>5. CASE k.m.outcome = "junk"
  <2>1. next = [k.row EXCEPT !.status = "junk", !.retry = Null, !.revision = one]
    BY <1>5 DEF Acked
  <2>2. "junk" \in Statuses
    BY DEF Statuses
  <2> HIDE DEF one, two
  <2>3. /\ next \in Rows /\ next.attempt = k.row.attempt /\ next.lease = k.row.lease
        /\ next.claimed = k.row.claimed /\ next.revision = one
        /\ next.status = "junk" /\ next.retry = Null
    BY <1>1, <1>2, <2>1, <2>2, TimeValues DEF Rows
  <2> QED
    BY <1>2, <1>5, <2>3 DEF one
<1>6. CASE k.m.outcome \in {"verdict", "arrival"}
  <2>1. PICK status \in IF k.m.answerNow THEN {"filled", "no_data"} ELSE Settled \cup {"queued"} :
          next = [k.row EXCEPT !.status = status, !.retry = Null, !.revision = two]
    <3>1. ~(k.m.answerNow /\ k.m.outcome = "arrival")
      BY WorkingFields DEF WellFormed
    <3>2. CASE k.m.answerNow
      BY <1>6, <3>1, <3>2 DEF Acked
    <3>3. CASE ~k.m.answerNow
      BY <1>6, <3>3 DEF Acked
    <3> QED
      BY <3>2, <3>3
  <2>2. status \in Statuses
    BY <2>1 DEF Statuses, Settled
  <2> HIDE DEF one, two
  <2>3. /\ next \in Rows /\ next.attempt = k.row.attempt /\ next.lease = k.row.lease
        /\ next.claimed = k.row.claimed /\ next.revision = two
        /\ next.status = status /\ next.retry = Null
    BY <1>1, <1>2, <2>1, <2>2, TimeValues DEF Rows
  <2> QED
    BY <1>2, <1>6, <2>1, <2>3 DEF two
<1> QED
  BY <1>3, <1>4, <1>5, <1>6

LEMMA NoResultType ==
  /\ NoResult \in Results /\ ~Managed(NoResult) /\ NoResult.generation = 0 /\ NoResult.spec = 0
  /\ NoResult.revision = 0
  /\ \A state \in States : [NoResult EXCEPT !.state = state] \in Results
BY Bounds, TimeValues DEF NoResult, Results, Managed, States, Generations

\* The sidecar state of an acknowledgement: of the verdict's draft, of a
\* clarification that was junk, or of one that failed for good.
LEMMA AckedDraft ==
  ASSUME NEW k \in Working, RequestOK(k), k.pc = "write", k.m.kind = "ack", NEW next \in Acked(k)
  PROVE  LET draft == Draft(k, next) IN
         /\ draft \in Results /\ draft.generation = 0
         /\ \/ /\ Managed(draft) /\ draft = k.draft
               /\ k.m.outcome = "verdict" /\ k.m.answerNow
               /\ next.status \in {"filled", "no_data"} /\ next.revision = k.row.revision + 2
            \/ /\ k.m.protocol = 2 /\ Managed(k.result)
               /\ next.status = "junk" /\ draft.state = "unsupported" /\ draft.spec = 0
            \/ /\ k.m.protocol = 2 /\ Managed(k.result)
               /\ next.status = "triage_failed" /\ draft.state = "failed" /\ draft.spec = 0
            \/ /\ draft = NoResult
               /\ Managed(k.result) => next.status = "received"
<1>1. k.draft \in Results /\ DraftOK(k) /\ WellFormed(k.m)
  BY WorkingFields DEF RequestOK
<1>2. CASE k.m.answerNow /\ k.m.outcome = "verdict"
  <2>1. k.draft.state # "none" /\ k.draft.generation = 0
    <3>1. k.draft = [NoResult EXCEPT !.state = k.draft.state, !.spec = k.draft.spec]
      BY <1>1, <1>2 DEF DraftOK
    <3>2. k.draft.generation = 0
      BY <3>1 DEF NoResult
    <3> QED
      BY <1>1, <1>2, <3>2 DEF DraftOK
  <2>2. next.status \in {"filled", "no_data"} /\ next.revision = k.row.revision + 2
    BY <1>2, AckedRow
  <2>3. Draft(k, next) = k.draft
    BY <2>1, <2>2 DEF Draft
  <2> QED
    BY <1>1, <1>2, <2>1, <2>2, <2>3 DEF Managed
<1>3. CASE ~(k.m.answerNow /\ k.m.outcome = "verdict")
  <2>1. k.draft = NoResult /\ k.draft.state = "none"
    BY <1>1, <1>3 DEF DraftOK, NoResult
  <2>2. CASE k.m.protocol = 2 /\ Managed(k.result) /\ next.status = "junk"
    <3>1. Draft(k, next) = [NoResult EXCEPT !.state = "unsupported"]
      BY <2>1, <2>2 DEF Draft
    <3>2. Draft(k, next) \in Results
      BY <3>1, NoResultType DEF States
    <3>3. Draft(k, next).generation = 0 /\ Draft(k, next).spec = 0 /\ Draft(k, next).state = "unsupported"
      BY <3>1 DEF NoResult
    <3> QED
      BY <2>2, <3>2, <3>3
  <2>3. CASE k.m.protocol = 2 /\ Managed(k.result) /\ next.status = "triage_failed"
    <3>1. Draft(k, next) = [NoResult EXCEPT !.state = "failed"]
      BY <2>1, <2>3 DEF Draft
    <3>2. Draft(k, next) \in Results
      BY <3>1, NoResultType DEF States
    <3>3. Draft(k, next).generation = 0 /\ Draft(k, next).spec = 0 /\ Draft(k, next).state = "failed"
      BY <3>1 DEF NoResult
    <3> QED
      BY <2>3, <3>2, <3>3
  <2>4. CASE ~(k.m.protocol = 2 /\ Managed(k.result) /\ next.status \in {"junk", "triage_failed"})
    <3>1. Draft(k, next) = NoResult
      BY <2>1, <2>4 DEF Draft
    <3>2. Managed(k.result) => next.status = "received"
      <4>1. SUFFICES ASSUME Managed(k.result) PROVE next.status = "received"
        OBVIOUS
      <4>2. k.m.protocol = 2
        BY <4>1, WorkingFields DEF RequestOK, Protocols
      <4>3. k.m.outcome \in {"failed", "junk"}
        BY <1>1, <1>3, <4>2, AckedRow DEF WellFormed
      <4>4. next.status # "junk" /\ next.status # "triage_failed"
        BY <2>4, <4>1, <4>2
      <4>5. next = Released(k.row, k.at)
        BY <4>3, <4>4, AckedRow
      <4> QED
        BY <4>4, <4>5, ReleasedRow, WorkingFields DEF RequestOK
    <3> QED
      BY <3>1, <3>2, NoResultType
  <2> QED
    BY <2>2, <2>3, <2>4
<1> QED
  BY <1>2, <1>3

-----------------------------------------------------------------------------
(* Initial states, and the frames of the steps. *)

LEMMA InvInit == Init => IInv
<1> SUFFICES ASSUME Init PROVE IInv
  OBVIOUS
<1> USE DEF Init
<1>1. row \in Rows
  <2>1. NoLease \in Leases
    BY DEF NoLease, Leases
  <2>2. "received" \in Statuses /\ 0 \in Attempts /\ "none" \in Owners /\ 1 \in Nat
    BY Bounds DEF Statuses, Attempts, Owners
  <2> QED
    BY <2>1, <2>2, TimeValues DEF Rows
<1>2. Typing
  <2>1. now \in Clock /\ snapshot \in 1..MaxSnapshot
    BY Bounds DEF Clock
  <2>2. calls \in [Calls -> InFlight]
    BY DEF InFlight
  <2>3. clarification \in Texts
    BY DEF Texts
  <2> QED
    BY <1>1, <2>1, <2>2, <2>3, NoResultType DEF Typing
<1>3. RowShape(row, now)
  BY Bounds DEF RowShape, NoLease, Null
<1>4. SidecarShape
  BY NoResultType DEF SidecarShape, SidecarAgrees, LeasedWithSidecar, NoResult, Managed
<1>5. CallsOK
  BY DEF CallsOK, CallOK, Holding, Idle
<1> QED
  BY <1>2, <1>3, <1>4, <1>5 DEF IInv

LEMMA IdleOK ==
  ASSUME NEW r, NEW res, NEW t
  PROVE  Idle \in InFlight /\ CallOK(Idle, r, res, t)
BY DEF InFlight, CallOK, Holding, Idle

\* A held copy stays a version of what is stored when that moves on.
LEMMA CallKept ==
  ASSUME NEW k \in InFlight, NEW r \in Rows, NEW r2 \in Rows, NEW res \in Results,
         NEW res2 \in Results, NEW t \in Clock, NEW t2 \in Clock,
         CallOK(k, r, res, t), Version(r, r2), Version(res, res2), t <= t2
  PROVE  CallOK(k, r2, res2, t2)
<1>1. CASE Holding(k)
  <2>1. k.row \in Rows /\ k.result \in Results /\ k.at \in Clock
    BY <1>1 DEF Holding, InFlight, Idle, Waiting, Working, Clarifying, Sweeping
  <2>2. Version(k.row, r2)
    BY <1>1, <2>1, RowFields DEF CallOK, Version
  <2>3. Version(k.result, res2)
    BY <1>1, <2>1, ResultFields DEF CallOK, Version
  <2>4. k.at <= t2
    <3>1. k.at \in Nat /\ t \in Nat /\ t2 \in Nat /\ k.at <= t
      BY <1>1, <2>1, TimeValues DEF CallOK
    <3> QED
      BY <3>1
  <2> QED
    BY <2>2, <2>3, <2>4 DEF CallOK
<1>2. CASE ~Holding(k)
  BY <1>2 DEF CallOK
<1> QED
  BY <1>1, <1>2

LEMMA VersionSame ==
  /\ \A r \in Rows : Version(r, r)
  /\ \A res \in Results : Version(res, res)
BY RowFields, ResultFields DEF Version

\* A step of one call that may move the row and the sidecar forward.
LEMMA CallsKept ==
  ASSUME IInv, NEW c \in Calls, NEW k \in InFlight, calls' = [calls EXCEPT ![c] = k],
         row' \in Rows, result' \in Results, now' = now,
         Version(row, row'), Version(result, result'),
         CallOK(k, row', result', now)
  PROVE  calls' \in [Calls -> InFlight] /\ CallsOK'
<1>1. calls' \in [Calls -> InFlight]
  BY DEF IInv, Typing
<1>2. ASSUME NEW d \in Calls PROVE CallOK(calls'[d], row', result', now')
  <2>1. CASE d = c
    BY <2>1 DEF IInv, Typing
  <2>2. CASE d # c
    <3>1. calls'[d] = calls[d] /\ calls[d] \in InFlight
      BY <2>2 DEF IInv, Typing
    <3>2. CallOK(calls[d], row, result, now) /\ row \in Rows /\ result \in Results /\ now \in Clock
      BY DEF IInv, Typing, CallsOK
    <3>3. now <= now
      BY <3>2, TimeValues
    <3> QED
      BY <3>1, <3>2, <3>3, CallKept
  <2> QED
    BY <2>1, <2>2
<1> QED
  BY <1>1, <1>2 DEF CallsOK

\* A step that changes nothing but what one call holds.
LEMMA CallOnly ==
  ASSUME IInv, NEW c \in Calls, NEW k \in InFlight, calls' = [calls EXCEPT ![c] = k],
         CallOK(k, row, result, now), UNCHANGED <<now, snapshot, Data>>
  PROVE  IInv'
<1>1. row \in Rows /\ result \in Results
  BY DEF IInv, Typing
<1>2. calls' \in [Calls -> InFlight] /\ CallsOK'
  BY <1>1, CallsKept, VersionSame DEF Data
<1>3. Typing'
  BY <1>2 DEF IInv, Typing, Data
<1>4. RowShape(row, now)'
  BY DEF IInv, RowShape, Data
<1>5. SidecarShape'
  BY DEF IInv, SidecarShape, SidecarAgrees, LeasedWithSidecar, Clarified, Data
<1> QED
  BY <1>2, <1>3, <1>4, <1>5 DEF IInv

LEMMA Answered ==
  ASSUME IInv, NEW c \in Calls, Answer(c), UNCHANGED <<now, snapshot, Data>>
  PROVE  IInv'
BY IdleOK, CallOnly DEF Answer

\* A batch that takes effect, and ends its call.
LEMMA BatchDone ==
  ASSUME IInv, NEW c \in Calls, Answer(c), UNCHANGED <<now, snapshot>>,
         row' \in Rows, result' \in Results, clarification' \in Texts,
         operations' \subseteq Receipts, job' \in {"tombstone", "none", "pending"},
         Version(row, row'), Version(result, result'), RowShape(row', now), SidecarShape'
  PROVE  IInv'
<1>1. calls' \in [Calls -> InFlight] /\ CallsOK'
  BY CallsKept, IdleOK DEF Answer
<1>2. Typing'
  BY <1>1 DEF IInv, Typing
<1> QED
  BY <1>1, <1>2 DEF IInv

-----------------------------------------------------------------------------
(* Steps of the environment and of maintenance. *)

LEMMA EnvironmentInv ==
  ASSUME IInv, Tick \/ NewSnapshot \/ TombstoneLapses \/ UNCHANGED vars
  PROVE  IInv'
<1>1. UNCHANGED <<row, result, clarification, operations, calls>>
  BY DEF Tick, NewSnapshot, TombstoneLapses, vars, Data
<1>2. now' \in Clock /\ now \in Clock /\ now <= now' /\ snapshot' \in 1..MaxSnapshot
  BY Bounds DEF IInv, Typing, Tick, NewSnapshot, TombstoneLapses, vars, Clock
<1>3. job' \in {"tombstone", "none", "pending"}
  BY DEF IInv, Typing, Tick, NewSnapshot, TombstoneLapses, vars, Data
<1>4. Typing'
  BY <1>1, <1>2, <1>3 DEF IInv, Typing
<1>5. RowShape(row, now)'
  <2>1. row.claimed \in Int /\ row.claimed <= now
    BY RowFields DEF IInv, Typing, RowShape
  <2>2. row.claimed <= now'
    BY <1>2, <2>1, TimeValues
  <2> QED
    BY <1>1, <2>2 DEF IInv, RowShape
<1>6. SidecarShape'
  BY <1>1 DEF IInv, SidecarShape, SidecarAgrees, LeasedWithSidecar, Clarified
<1>7. CallsOK'
  <2> SUFFICES ASSUME NEW c \in Calls
               PROVE  CallOK(calls[c], row, result, now')
    BY <1>1 DEF CallsOK
  <2>1. /\ row \in Rows /\ result \in Results /\ calls[c] \in InFlight
        /\ CallOK(calls[c], row, result, now)
    BY DEF IInv, Typing, CallsOK
  <2> QED
    BY <1>2, <2>1, CallKept, VersionSame
<1> QED
  BY <1>4, <1>5, <1>6, <1>7 DEF IInv

LEMMA MaintainInv == IInv /\ Maintain => IInv'
<1> SUFFICES ASSUME IInv, Maintain PROVE IInv'
  OBVIOUS
<1>1. row \in Rows /\ result \in Results /\ now \in Clock /\ calls \in [Calls -> InFlight]
  BY DEF IInv, Typing
<1>2. UNCHANGED <<now, snapshot, row, clarification, operations, job, calls>>
  BY DEF Maintain
<1> DEFINE revision == result.revision + 1
<1>3. revision \in Nat /\ revision > result.revision
  BY <1>1, ResultFields
<1>4. PICK state \in {"expired", "stale"} :
        /\ result' = [result EXCEPT !.state = state, !.revision = revision]
        /\ \/ state = "expired" /\ Overdue(result)
           \/ state = "stale" /\ result.state = "confirmation_required"
  BY DEF Maintain, Outdated
<1> HIDE DEF revision
<1>5. /\ result' \in Results /\ result'.state = state /\ result'.revision = revision
      /\ result'.generation = result.generation /\ result'.parent = result.parent
  <2>1. state \in States
    BY DEF States
  <2> QED
    BY <1>1, <1>3, <1>4, <2>1 DEF Results
<1>6. Version(result, result') /\ Version(row, row')
  <2>1. result.revision \in Nat
    BY <1>1, ResultFields
  <2> QED
    BY <1>1, <1>2, <1>3, <1>5, <2>1, VersionSame DEF Version
<1>7. Typing'
  BY <1>2, <1>5 DEF IInv, Typing
<1>8. RowShape(row, now)'
  BY <1>2 DEF IInv, RowShape
<1>9. SidecarShape'
  <2>1. Managed(result) /\ Managed(result')
    BY <1>4, <1>5 DEF Overdue, Managed
  <2>2. SidecarAgrees'
    BY <1>2, <1>5, <2>1 DEF IInv, SidecarShape, SidecarAgrees, Clarified
  <2>3. LeasedWithSidecar'
    <3>1. SUFFICES ASSUME row.status = "triaging"
                   PROVE  /\ row.lease.protocol = 2
                          /\ state = "expired" /\ result.generation >= 1
                          /\ Clarified(result) /\ row.revision >= result.parent
      BY <1>2, <1>5, <2>1 DEF LeasedWithSidecar, Clarified
    <3>2. result.state \in {"triaging", "expired"}
      BY <2>1, <3>1 DEF IInv, SidecarShape, LeasedWithSidecar
    <3> QED
      BY <1>4, <2>1, <3>1, <3>2 DEF IInv, SidecarShape, LeasedWithSidecar
  <2> QED
    BY <1>5, <2>1, <2>2, <2>3 DEF SidecarShape
<1>10. CallsOK'
  <2> SUFFICES ASSUME NEW c \in Calls
               PROVE  CallOK(calls[c], row, result', now)
    BY <1>2 DEF CallsOK
  <2>1. CallOK(calls[c], row, result, now) /\ calls[c] \in InFlight /\ now <= now
    BY <1>1, TimeValues DEF IInv, CallsOK
  <2> QED
    BY <1>1, <1>2, <1>5, <1>6, <2>1, CallKept
<1> QED
  BY <1>7, <1>8, <1>9, <1>10 DEF IInv

-----------------------------------------------------------------------------
(* Steps that read. *)

\* What may be sent is well formed.
LEMMA FreshTyped ==
  ASSUME Typing
  PROVE  Fresh \subseteq Requests \cup Clarifications
<1>1. /\ row.attempt \in Attempts /\ row.lease \in Leases /\ row.owner \in Owners
      /\ row.revision \in Nat /\ result.generation \in Generations /\ result.revision \in Nat
      /\ snapshot \in 0..MaxSnapshot
  BY Bounds, RowFields, ResultFields DEF Typing
<1>2. NoLease \in Leases /\ 0 \in Generations /\ 0 \in 0..MaxSnapshot /\ {1, 2} \subseteq Protocols
  BY Bounds DEF NoLease, Leases, Generations, Protocols
<1>3. ASSUME NEW s \in Owners
      PROVE  /\ ClaimV1(s) \in Messages /\ ClaimV1(s).kind = "claim" /\ ClaimV1(s).protocol = 1
             /\ ClaimV1(s).outcome = "none" /\ ClaimV1(s).answerNow = FALSE
  BY <1>1, <1>2 DEF ClaimV1, Messages
<1>4. ASSUME NEW s \in Owners
      PROVE  ClaimV1(s) \in Requests /\ ClaimV2(s) \in Requests
  <2>1. ClaimV2(s) \in Messages /\ ClaimV2(s).kind = "claim"
        /\ ClaimV2(s).outcome = "none" /\ ClaimV2(s).answerNow = FALSE
    BY <1>1, <1>2, <1>3 DEF ClaimV2, Messages
  <2> QED
    BY <1>3, <2>1 DEF Requests, WellFormed
<1>5. ASSUME NEW o \in {"failed", "junk", "verdict", "arrival"}, NEW b \in BOOLEAN,
             b => o # "arrival"
      PROVE  /\ AckV1(row.owner, o, b) \in Requests /\ AckV1(row.owner, o, b).kind = "ack"
             /\ AckV1(row.owner, o, b).outcome = o /\ AckV1(row.owner, o, b).answerNow = b
  <2>1. /\ AckV1(row.owner, o, b) \in Messages /\ AckV1(row.owner, o, b).kind = "ack"
        /\ AckV1(row.owner, o, b).outcome = o /\ AckV1(row.owner, o, b).answerNow = b
        /\ AckV1(row.owner, o, b).protocol = 1
    <3>1. AckV1(row.owner, o, b) = [ClaimV1(row.owner) EXCEPT !.kind = "ack",
            !.lease = row.lease, !.outcome = o, !.answerNow = b]
      BY DEF AckV1
    <3>2. ClaimV1(row.owner) \in Messages /\ ClaimV1(row.owner).protocol = 1
      BY <1>1, <1>3
    <3>3. CASE b = TRUE
      BY <1>1, <3>1, <3>2, <3>3 DEF Messages
    <3>4. CASE b = FALSE
      BY <1>1, <3>1, <3>2, <3>4 DEF Messages
    <3> QED
      BY <3>3, <3>4
  <2> QED
    BY <1>5, <2>1 DEF Requests, WellFormed
<1>6. ASSUME NEW o \in {"failed", "junk", "verdict"}
      PROVE  AckV2(row.owner, o) \in Requests
  <2>1. /\ AckV1(row.owner, o, TRUE) \in Messages /\ AckV1(row.owner, o, TRUE).kind = "ack"
        /\ AckV1(row.owner, o, TRUE).outcome = o /\ AckV1(row.owner, o, TRUE).answerNow = TRUE
    BY <1>5, <1>6 DEF Requests
  <2>2. /\ AckV2(row.owner, o) \in Messages /\ AckV2(row.owner, o).kind = "ack"
        /\ AckV2(row.owner, o).outcome = o /\ AckV2(row.owner, o).answerNow = TRUE
    BY <1>1, <1>2, <2>1 DEF AckV2, Messages
  <2> QED
    BY <1>6, <2>2 DEF Requests, WellFormed
<1>7. Clarification \in Clarifications
  BY <1>1 DEF Clarification, Clarifications
<1>8. Services \subseteq Owners
  BY DEF Owners
<1> QED
  BY <1>4, <1>5, <1>6, <1>7, <1>8 DEF Fresh

LEMMA SendInv ==
  ASSUME IInv, NEW c \in Calls, Send(c)
  PROVE  IInv'
<1>1. PICK m \in Fresh \cup {op.m : op \in operations} :
        calls' = [calls EXCEPT ![c] = [pc |-> "sent", m |-> m]]
  BY DEF Send
<1>2. m \in Requests \cup Clarifications
  BY <1>1, FreshTyped DEF IInv, Typing, Receipts
<1>3. [pc |-> "sent", m |-> m] \in InFlight
  BY <1>2 DEF InFlight, Waiting
<1>4. CallOK([pc |-> "sent", m |-> m], row, result, now)
  BY DEF CallOK, Holding
<1> QED
  BY <1>1, <1>3, <1>4, CallOnly DEF Send

\* A request that is let through holds the row and the sidecar of this moment.
LEMMA ReadInv ==
  ASSUME IInv, NEW c \in Calls, Read(c)
  PROVE  IInv'
<1> DEFINE m == calls[c].m
           k == [pc |-> IF m.answerNow /\ m.outcome = "verdict" THEN "map" ELSE "write",
                 m |-> m, at |-> now, row |-> row, result |-> result, draft |-> NoResult]
<1>1. UNCHANGED <<now, snapshot, Data>>
  BY DEF Read
<1>2. CASE Replayed(m) \/ ~Permitted(m)
  BY <1>1, <1>2, Answered DEF Read
<1>3. CASE ~(Replayed(m) \/ ~Permitted(m))
  <2>1. calls' = [calls EXCEPT ![c] = k] /\ Permitted(m)
    BY <1>3 DEF Read
  <2>2. m \in Requests
    BY Slots DEF IInv, Read, At, Waiting, Clarifications
  <2>3. row \in Rows /\ result \in Results /\ now \in Clock
    BY DEF IInv, Typing
  <2>4. k \in Working
    BY <2>2, <2>3, NoResultType DEF Working
  <2>5. Version(row, row) /\ Version(result, result) /\ now <= now
    BY <2>3, VersionSame, TimeValues
  <2>6. m.protocol = 1 => ~Managed(result)
    BY <2>1 DEF Permitted, InScope
  <2>7. m.kind = "claim" => row.status = "received" /\ row.attempt < MaxAttempts
    BY <2>1 DEF Permitted, Claimable
  <2>8. m.kind = "ack" => row.status = "triaging" /\ row.claimed <= now
    BY <2>1 DEF Permitted, Ackable, IInv, RowShape
  <2>9. m.answerNow /\ m.outcome = "verdict" => m.kind = "ack"
    BY <2>2 DEF Requests, Messages, WellFormed
  <2>10. RequestOK(k)
    BY <2>6, <2>7, <2>8, <2>9 DEF RequestOK, DraftOK
  <2>11. CallOK(k, row, result, now)
    BY <2>5, <2>10 DEF CallOK, Holding
  <2> QED
    BY <1>1, <2>1, <2>4, <2>11, CallOnly DEF InFlight
<1> QED
  BY <1>2, <1>3

LEMMA MappedType ==
  ASSUME Typing, NEW k, NEW draft \in Mapped(k)
  PROVE  draft \in Results
<1>1. CASE draft = [NoResult EXCEPT !.state = "confirmation_required", !.spec = snapshot]
  <2>1. snapshot \in Nat /\ "confirmation_required" \in States
    BY DEF Typing, States
  <2> QED
    BY <1>1, <2>1, NoResultType DEF Results
<1>2. CASE draft # [NoResult EXCEPT !.state = "confirmation_required", !.spec = snapshot]
  BY <1>2, NoResultType DEF Mapped, States
<1> QED
  BY <1>1, <1>2

\* What a verdict is mapped to is a draft of the snapshot of that moment.
LEMMA MappedDraft ==
  ASSUME Typing, NEW k \in Working, k.m.answerNow, k.m.outcome = "verdict",
         k.m.protocol = 2 => k.m.context = snapshot,
         NEW draft \in Mapped(k), NEW new \in Working, new.m = k.m, new.result = k.result,
         new.draft = draft
  PROVE  DraftOK(new)
<1>1. snapshot \in Nat /\ snapshot # 0 /\ k.result.generation \in Nat
  BY Bounds, WorkingFields, ResultFields DEF Typing
<1>2. CASE draft = [NoResult EXCEPT !.state = "confirmation_required", !.spec = snapshot]
  <2>1. /\ draft.state = "confirmation_required" /\ draft.spec = snapshot
        /\ draft = [NoResult EXCEPT !.state = draft.state, !.spec = draft.spec]
    BY <1>2 DEF NoResult
  <2> QED
    BY <1>1, <2>1 DEF DraftOK
<1>3. CASE draft \in {[NoResult EXCEPT !.state = "unsupported"],
                     [NoResult EXCEPT !.state = "clarification_required"]}
  <2>1. /\ draft.state \in {"unsupported", "clarification_required"} /\ draft.spec = 0
        /\ draft = [NoResult EXCEPT !.state = draft.state, !.spec = draft.spec]
    BY <1>3 DEF NoResult
  <2>2. k.m.protocol = 2 /\ draft.state = "clarification_required" =>
          k.result.generation < MaxGeneration
    <3>1. SUFFICES ASSUME k.m.protocol = 2, draft.state = "clarification_required"
                   PROVE  ~(k.result.generation >= MaxGeneration)
      BY <1>1, Bounds
    <3>2. draft # [NoResult EXCEPT !.state = "unsupported"]
      BY <3>1 DEF NoResult
    <3>3. draft # [NoResult EXCEPT !.state = "confirmation_required", !.spec = snapshot]
      BY <3>1 DEF NoResult
    <3> QED
      BY <3>1, <3>2, <3>3 DEF Mapped
  <2> QED
    BY <2>1, <2>2 DEF DraftOK
<1> QED
  BY <1>2, <1>3 DEF Mapped

LEMMA MapVerdictInv ==
  ASSUME IInv, NEW c \in Calls, MapVerdict(c)
  PROVE  IInv'
<1> DEFINE k == calls[c]
<1>1. UNCHANGED <<now, snapshot, Data>>
  BY DEF MapVerdict
<1>2. CASE k.m.protocol = 2 /\ k.m.context # snapshot
  BY <1>1, <1>2, Answered DEF MapVerdict
<1>3. CASE ~(k.m.protocol = 2 /\ k.m.context # snapshot)
  <2>1. PICK draft \in Mapped(k) :
          calls' = [calls EXCEPT ![c].pc = "write", ![c].draft = draft]
    BY <1>3 DEF MapVerdict
  <2> DEFINE new == [k EXCEPT !.pc = "write", !.draft = draft]
  <2>2. k \in Working /\ k.pc = "map" /\ CallOK(k, row, result, now) /\ Typing
    BY Slots DEF IInv, MapVerdict, At, CallsOK
  <2>3. calls' = [calls EXCEPT ![c] = new]
    BY <2>1 DEF IInv, Typing
  <2>4. RequestOK(k) /\ k.m.answerNow /\ k.m.outcome = "verdict" /\ k.m.kind = "ack"
    BY <2>2 DEF CallOK, RequestOK
  <2>5. /\ new.m = k.m /\ new.result = k.result /\ new.row = k.row /\ new.at = k.at
        /\ new.pc = "write" /\ new.draft = draft
    BY <2>2 DEF Working
  <2>6. draft \in Results
    BY <2>1, <2>2, MappedType
  <2>7. new \in Working
    BY <2>2, <2>6 DEF Working
  <2> HIDE DEF new
  <2>8. DraftOK(new)
    BY <1>3, <2>1, <2>2, <2>4, <2>5, <2>7, MappedDraft
  <2>9. RequestOK(new)
    BY <2>4, <2>5, <2>8 DEF RequestOK
  <2>10. CallOK(new, row, result, now)
    BY <2>2, <2>5, <2>9 DEF CallOK, Holding
  <2> QED
    BY <1>1, <2>3, <2>7, <2>10, CallOnly DEF InFlight
<1> QED
  BY <1>2, <1>3

LEMMA ReadClarifiableInv ==
  ASSUME IInv, NEW c \in Calls, ReadClarifiable(c)
  PROVE  IInv'
<1> DEFINE m == calls[c].m
           k == [pc |-> "batch", m |-> m, at |-> now, row |-> row, result |-> result,
                 draft |-> NoResult]
<1>1. UNCHANGED <<now, snapshot, Data>>
  BY DEF ReadClarifiable
<1>2. CASE result.revision = m.revision /\ Clarifiable(row, result)
  <2>1. calls' = [calls EXCEPT ![c] = k]
    BY <1>2 DEF ReadClarifiable
  <2>2. m \in Clarifications
    <3>1. m \in Requests \cup Clarifications /\ m.kind = "clarify"
      BY Slots DEF IInv, ReadClarifiable, At, Waiting
    <3> QED
      BY <3>1 DEF Requests, Messages
  <2>3. row \in Rows /\ result \in Results /\ now \in Clock
    BY DEF IInv, Typing
  <2>4. k \in Clarifying
    BY <2>2, <2>3, NoResultType DEF Clarifying
  <2>5. Version(row, row) /\ Version(result, result) /\ now <= now
    BY <2>3, VersionSame, TimeValues
  <2>6. CallOK(k, row, result, now)
    BY <1>2, <2>5 DEF CallOK, Holding
  <2> QED
    BY <1>1, <2>1, <2>4, <2>6, CallOnly DEF InFlight
<1>3. CASE ~(result.revision = m.revision /\ Clarifiable(row, result))
  <2>1. Answer(c)
    BY <1>3 DEF ReadClarifiable, Answer
  <2> QED
    BY <1>1, <2>1, Answered
<1> QED
  BY <1>2, <1>3

LEMMA SweepRowsInv ==
  ASSUME IInv, NEW c \in Calls, NEW p \in Protocols, NEW kind \in {"expired", "queued"},
         SweepRows(c, p, kind)
  PROVE  IInv'
<1> DEFINE k == [pc |-> IF kind = "queued" THEN "job" ELSE "settle", p |-> p, at |-> now,
                 row |-> row, result |-> result, next |-> Released(row, now)]
<1>1. UNCHANGED <<now, snapshot, Data>> /\ calls' = [calls EXCEPT ![c] = k]
  BY DEF SweepRows
<1>2. row \in Rows /\ result \in Results /\ now \in Clock /\ row.claimed <= now
  BY DEF IInv, Typing, RowShape
<1>3. Released(row, now) \in Rows
  BY <1>2, ReleasedRow
<1>4. k \in Sweeping
  BY <1>2, <1>3 DEF Sweeping
<1>5. Version(row, row) /\ Version(result, result) /\ now <= now
  BY <1>2, VersionSame, TimeValues
<1>6. IF kind = "queued" THEN row.status = "queued" ELSE row.status = "triaging"
  BY DEF SweepRows, Listed
<1>7. CallOK(k, row, result, now)
  BY <1>2, <1>5, <1>6 DEF CallOK, Holding, SweepOK
<1> QED
  BY <1>1, <1>4, <1>7, CallOnly DEF InFlight

LEMMA QueueResultInv ==
  ASSUME IInv, NEW c \in Calls, QueueResult(c)
  PROVE  IInv'
<1> DEFINE k == calls[c]
<1>1. UNCHANGED <<now, snapshot, Data>>
  BY DEF QueueResult
<1>2. CASE Answer(c)
  BY <1>1, <1>2, Answered
<1>3. ASSUME NEW status \in Settled,
             calls' = [calls EXCEPT ![c].pc = "settle",
               ![c].next = [k.row EXCEPT !.status = status, !.revision = @ + 1]]
      PROVE  IInv'
  <2> DEFINE revision == k.row.revision + 1
             next == [k.row EXCEPT !.status = status, !.revision = revision]
             new == [k EXCEPT !.pc = "settle", !.next = next]
  <2>1. k \in Sweeping /\ k.pc = "job" /\ CallOK(k, row, result, now)
    BY Slots DEF IInv, QueueResult, At, CallsOK
  <2>2. k.row \in Rows /\ revision \in Nat /\ status \in Statuses
    BY <2>1, RowFields DEF Sweeping, Statuses
  <2>3. next = [k.row EXCEPT !.status = status, !.revision = @ + 1]
    OBVIOUS
  <2> HIDE DEF revision
  <2>4. next \in Rows
    BY <2>2 DEF Rows
  <2> HIDE DEF next
  <2>5. calls' = [calls EXCEPT ![c] = new]
    BY <1>3, <2>3 DEF IInv, Typing
  <2>6. /\ new \in Sweeping /\ new.pc = "settle" /\ new.next = next /\ new.row = k.row
        /\ new.result = k.result /\ new.at = k.at
    BY <2>1, <2>4 DEF Sweeping
  <2> HIDE DEF new
  <2>7. k.row.status = "queued"
    BY <2>1 DEF CallOK, SweepOK
  <2>8. SweepOK(new)
    BY <2>3, <2>6, <2>7 DEF SweepOK, SettledBy
  <2>9. CallOK(new, row, result, now)
    BY <2>1, <2>6, <2>8 DEF CallOK, Holding
  <2> QED
    BY <1>1, <2>5, <2>6, <2>9, CallOnly DEF InFlight
<1> QED
  BY <1>2, <1>3 DEF QueueResult

-----------------------------------------------------------------------------
(* Batches. *)

\* A batch that finds the revision it read finds the row it read, and likewise
\* the sidecar: what was decided on them still stands.
LEMMA Reread ==
  ASSUME IInv, NEW c \in Calls, Holding(calls[c])
  PROVE  /\ calls[c].row.revision = row.revision => calls[c].row = row
         /\ calls[c].result.revision = result.revision => calls[c].result = result
         /\ calls[c].at <= now
BY DEF IInv, CallsOK, CallOK, Version

LEMMA Writing ==
  ASSUME IInv, NEW c \in Calls, At(c, "write")
  PROVE  /\ calls[c] \in Working /\ calls[c].pc = "write" /\ RequestOK(calls[c])
         /\ Holding(calls[c])
BY Slots DEF IInv, At, CallsOK, CallOK, Holding

LEMMA WriteClaimInv ==
  ASSUME IInv, NEW c \in Calls, WriteClaim(c)
  PROVE  IInv'
<1> DEFINE k == calls[c]
           next == Claimed(k)
<1>1. CASE ~(ClaimMatches(k) /\ RowAllowed(row, next))
  BY <1>1, Answered DEF WriteClaim, Data
<1>2. CASE ClaimMatches(k) /\ RowAllowed(row, next)
  <2>1. /\ k \in Working /\ RequestOK(k) /\ k.m.kind = "claim"
        /\ k.m \in Requests /\ k.m.protocol \in Protocols /\ k.at \in Clock
    BY Writing, WorkingFields DEF WriteClaim
  <2>2. /\ row' = next
        /\ operations' = {[m |-> k.m, lease |-> next.lease, applied |-> next.revision]}
        /\ Answer(c) /\ UNCHANGED <<now, snapshot, result, clarification, job>>
    BY <1>2 DEF WriteClaim
  <2>3. k.row = row /\ row.status = "received" /\ row.attempt < MaxAttempts
    BY <1>2, <2>1, Reread, Writing DEF WriteClaim, ClaimMatches, SameRow, RequestOK
  <2>4. row \in Rows /\ row.revision \in Nat /\ row.lease.revision \in Nat /\ result \in Results
    BY RowFields DEF IInv, Typing
  <2>5. /\ next \in Rows /\ next.status = "triaging"
        /\ next.lease = [protocol |-> k.m.protocol, revision |-> row.revision + 1]
        /\ next.claimed = k.at /\ next.revision = row.revision + 1
    BY <2>1, <2>3, ClaimedRow
  <2> HIDE DEF next
  <2>6. /\ next.lease \in Leases /\ next.revision \in Nat
        /\ next.lease.protocol = k.m.protocol /\ next.lease.revision = row.revision + 1
    BY <2>5, RowFields
  <2>7. operations' \subseteq Receipts
    BY <2>1, <2>2, <2>6 DEF Receipts
  <2>8. Version(row, row') /\ Version(result, result')
    <3>1. row.revision <= next.revision /\ row.revision # next.revision
      BY <2>4, <2>5
    <3> QED
      BY <2>2, <2>4, <3>1, VersionSame DEF Version
  <2>9. RowShape(row', now)
    <3>1. k.at <= now
      BY Reread, Writing DEF WriteClaim
    <3>2. next.lease.revision <= next.revision
      BY <2>4, <2>5, <2>6
    <3> QED
      BY <2>1, <2>2, <2>5, <2>6, <3>1, <3>2 DEF RowShape
  <2>10. SidecarShape'
    <3>1. SidecarShape
      BY DEF IInv
    <3>2. InScope(k.m.protocol, row, result, now)
      BY <1>2 DEF ClaimMatches
    <3>3. result.parent \in Nat /\ result.generation \in Nat
      BY <2>4, ResultFields
    <3>4. SidecarAgrees'
      <4>1. result.state = "triaging" => next.revision >= result.parent
        BY <2>4, <2>5, <3>1, <3>3 DEF SidecarShape, SidecarAgrees
      <4> QED
        BY <2>2, <2>3, <2>5, <3>1, <4>1 DEF SidecarShape, SidecarAgrees, Clarified, Settled
    <3>5. LeasedWithSidecar'
      <4>1. SUFFICES ASSUME Managed(result)
                     PROVE  /\ k.m.protocol = 2 /\ result.state = "triaging"
                            /\ result.generation >= 1
                            /\ Clarified(result) /\ next.revision >= result.parent
        BY <2>2, <2>6 DEF LeasedWithSidecar, Clarified
      <4>2. k.m.protocol = 2 /\ AwaitsTriage(row, result, now)
        BY <3>2, <4>1 DEF InScope
      <4> QED
        BY <2>4, <2>5, <3>3, <4>2, Bounds DEF AwaitsTriage
    <3> QED
      BY <2>2, <3>1, <3>4, <3>5 DEF SidecarShape
  <2> QED
    BY <2>2, <2>4, <2>5, <2>7, <2>8, <2>9, <2>10, BatchDone DEF IInv, Typing
<1> QED
  BY <1>1, <1>2

\* The sidecar after an acknowledgement.
AfterAck(k, next) ==
  IF Managed(Draft(k, next)) THEN Remapped(k.result, next, Draft(k, next), k.at) ELSE result

\* An acknowledgement whose comparisons hold writes over the row it read, under
\* protocol 2 over the sidecar it read, and under protocol 1 over none.
LEMMA AckReads ==
  ASSUME IInv, NEW c \in Calls, At(c, "write"), calls[c].m.kind = "ack", AckMatches(calls[c])
  PROVE  /\ calls[c] \in Working /\ calls[c].pc = "write" /\ RequestOK(calls[c])
         /\ calls[c].row = row /\ row.status = "triaging" /\ calls[c].at <= now
         /\ Managed(result) =>
              calls[c].m.protocol = 2 /\ AwaitsTriage(row, result, now)
         /\ Managed(result) \/ Managed(calls[c].result) => calls[c].result = result
         /\ ~Managed(result) => result = NoResult
<1> DEFINE k == calls[c]
<1>1. k \in Working /\ k.pc = "write" /\ RequestOK(k) /\ Holding(k) /\ k.m.protocol \in Protocols
  BY Writing, WorkingFields
<1>2. k.row = row /\ k.at <= now
  BY <1>1, Reread DEF AckMatches, SameRow
<1>3. Managed(result) => k.m.protocol = 2 /\ AwaitsTriage(row, result, now)
  BY DEF AckMatches, InScope
<1>4. k.m.protocol = 2 => k.result = result
  BY <1>1, Reread DEF AckMatches, SameSidecar
<1>5. Managed(k.result) => k.m.protocol = 2
  BY <1>1 DEF RequestOK, Protocols
<1> QED
  BY <1>1, <1>2, <1>3, <1>4, <1>5 DEF RequestOK, IInv, SidecarShape

\* The row of an acknowledgement that takes effect.
LEMMA AckRow ==
  ASSUME IInv, NEW c \in Calls, At(c, "write"), calls[c].m.kind = "ack", AckMatches(calls[c]),
         NEW next \in Acked(calls[c])
  PROVE  /\ next \in Rows /\ next.revision > row.revision /\ Version(row, next)
         /\ RowShape(next, now) /\ next.status # "triaging"
         /\ next.status = "queued" => calls[c].m.outcome = "arrival"
<1> DEFINE k == calls[c]
<1>1. /\ k \in Working /\ RequestOK(k) /\ k.row = row /\ k.at <= now /\ k.at \in Clock
      /\ row.claimed <= k.at
  BY AckReads, WorkingFields DEF RequestOK
<1>2. row \in Rows /\ row.revision \in Nat /\ row.lease.revision \in Nat /\ row.claimed \in Int
  BY RowFields DEF IInv, Typing
<1>3. row.lease.revision <= row.revision /\ row.claimed <= now
  BY DEF IInv, RowShape
<1>4. /\ next \in Rows /\ next.attempt = row.attempt /\ next.lease = row.lease
      /\ next.claimed = row.claimed /\ next.revision > row.revision
      /\ \/ k.m.outcome = "failed" /\ next = Released(row, k.at)
         \/ next.status = "junk"
         \/ next.status \in {"filled", "no_data"}
         \/ k.m.outcome = "arrival" /\ next.status \in Settled \cup {"queued"}
         \/ k.m.outcome = "verdict" /\ next.status \in Settled \cup {"queued"}
  BY <1>1, AckedRow
<1>5. next.status = "queued" => k.m.outcome = "arrival"
  <2>1. SUFFICES ASSUME next.status = "queued", k.m.outcome # "arrival" PROVE FALSE
    OBVIOUS
  <2>2. k.m.outcome = "verdict"
    BY <1>1, <1>2, <1>4, <2>1, ReleasedRow
  <2>3. ~(k.m.answerNow /\ k.m.outcome = "arrival") /\ k.m.outcome # "failed" /\ k.m.outcome # "junk"
    BY <2>2
  <2>4. next.status \in {"filled", "no_data"} \cup Settled
    <3>1. CASE k.m.answerNow
      BY <1>1, <2>2, <3>1, AckedRow
    <3>2. CASE ~k.m.answerNow
      <4>1. PICK status \in Settled :
              next = [k.row EXCEPT !.status = status, !.retry = Null, !.revision = @ + 2]
        BY <2>2, <2>3, <3>2 DEF Acked
      <4>2. next.status = status
        BY <1>1, <1>2, <4>1 DEF Rows
      <4> QED
        BY <4>2
    <3> QED
      BY <3>1, <3>2
  <2> QED
    BY <2>1, <2>4 DEF Settled
<1>6. next.revision \in Nat
  BY <1>4, RowFields
<1>7. Version(row, next)
  BY <1>2, <1>4, <1>6 DEF Version
<1>8. next.status = "received" \/ next.status \in {"junk", "queued", "triage_failed"} \cup Settled
  BY <1>1, <1>2, <1>4, ReleasedRow DEF Settled
<1>9. next.status = "received" => row.attempt < MaxAttempts /\ row.claimed < next.retry
  <2>1. SUFFICES ASSUME next.status = "received" PROVE next = Released(row, k.at)
    BY <1>1, <1>2, ReleasedRow
  <2> QED
    BY <1>4, <2>1 DEF Settled
<1>10. RowShape(next, now)
  <2>1. next.lease.revision <= next.revision /\ next.claimed <= now
    BY <1>2, <1>3, <1>4, <1>6
  <2>2. next.status = "received" => next.attempt < MaxAttempts /\ next.claimed <= next.retry
    <3>1. next.retry \in Int
      BY <1>4, RowFields
    <3> QED
      BY <1>2, <1>4, <1>9, <3>1
  <2> QED
    BY <1>8, <2>1, <2>2 DEF RowShape, Settled
<1> QED
  BY <1>4, <1>5, <1>7, <1>8, <1>10 DEF Settled

\* Its sidecar: of the verdict, failed or refused with the question, or untouched.
LEMMA AckSidecar ==
  ASSUME IInv, NEW c \in Calls, At(c, "write"), calls[c].m.kind = "ack", AckMatches(calls[c]),
         NEW next \in Acked(calls[c])
  PROVE  LET new == AfterAck(calls[c], next) IN
         /\ new \in Results /\ Version(result, new)
         /\ \/ new = result /\ (Managed(result) => result.state = "triaging" /\ next.status = "received")
            \/ /\ new.revision = result.revision + 1 /\ new.parent = next.revision
               /\ ~Managed(result) => result = NoResult
               /\ Managed(result) =>
                    /\ AwaitsTriage(row, result, now) /\ new.generation = result.generation
                    /\ new.state = "clarification_required" => new.generation < MaxGeneration
               /\ \/ /\ next.status \in {"filled", "no_data"}
                     /\ new.state \in {"confirmation_required", "unsupported",
                                       "clarification_required"}
                     /\ (new.state = "confirmation_required") = (new.spec # 0)
                     /\ new.spec = calls[c].draft.spec
                     /\ new.state = calls[c].draft.state
                  \/ /\ Managed(result) /\ next.status = "junk"
                     /\ new.state = "unsupported" /\ new.spec = 0
                  \/ /\ Managed(result) /\ next.status = "triage_failed"
                     /\ new.state = "failed" /\ new.spec = 0
<1> DEFINE k == calls[c]
           draft == Draft(k, next)
           new == AfterAck(k, next)
<1>1. /\ k \in Working /\ k.pc = "write" /\ RequestOK(k) /\ k.result \in Results /\ k.at \in Clock
      /\ Managed(result) => k.m.protocol = 2 /\ AwaitsTriage(row, result, now)
      /\ Managed(result) \/ Managed(k.result) => k.result = result
      /\ ~Managed(result) => result = NoResult
  BY AckReads, WorkingFields
<1>2. next \in Rows /\ result \in Results
  BY AckRow DEF IInv, Typing
<1>3. /\ draft \in Results /\ draft.generation = 0
      /\ \/ /\ Managed(draft) /\ draft = k.draft
            /\ k.m.outcome = "verdict" /\ k.m.answerNow
            /\ next.status \in {"filled", "no_data"} /\ next.revision = k.row.revision + 2
         \/ /\ k.m.protocol = 2 /\ Managed(k.result)
            /\ next.status = "junk" /\ draft.state = "unsupported" /\ draft.spec = 0
         \/ /\ k.m.protocol = 2 /\ Managed(k.result)
            /\ next.status = "triage_failed" /\ draft.state = "failed" /\ draft.spec = 0
         \/ /\ draft = NoResult
            /\ Managed(k.result) => next.status = "received"
  BY <1>1, AckedDraft
<1> HIDE DEF draft, new
<1>4. CASE draft = NoResult
  <2>1. new = result
    BY <1>4, NoResultType DEF new, draft, AfterAck
  <2>2. Managed(k.result) => next.status = "received"
    <3>1. ~Managed(draft)
      BY <1>4, NoResultType
    <3>2. draft.state = "none"
      BY <1>4 DEF NoResult
    <3> QED
      BY <1>3, <3>1, <3>2
  <2>3. Managed(result) => result.state = "triaging" /\ next.status = "received"
    BY <1>1, <2>2 DEF AwaitsTriage
  <2> QED
    BY <1>2, <2>1, <2>3, VersionSame DEF new
<1>5. CASE draft # NoResult
  <2>1. Managed(draft)
    BY <1>3, <1>5 DEF Managed
  <2>2. new = Remapped(k.result, next, draft, k.at)
    BY <2>1 DEF new, draft, AfterAck
  <2>3. /\ new \in Results
        /\ new.state = draft.state /\ new.spec = draft.spec /\ new.parent = next.revision
        /\ Managed(k.result) =>
             new.generation = k.result.generation /\ new.revision = k.result.revision + 1
        /\ ~Managed(k.result) => new.generation = 0 /\ new.revision = 1
    <3> DEFINE remapped == Remapped(k.result, next, draft, k.at)
    <3>0. /\ k.result \in Results /\ next \in Rows /\ draft \in Results /\ k.at \in Clock
          /\ draft.generation = 0
      BY <1>1, <1>2, <1>3
    <3>1. /\ remapped \in Results
          /\ remapped.state = draft.state /\ remapped.spec = draft.spec
          /\ remapped.parent = next.revision
          /\ Managed(k.result) => remapped.generation = k.result.generation
                                  /\ remapped.revision = k.result.revision + 1
          /\ ~Managed(k.result) => remapped.generation = 0 /\ remapped.revision = 1
      BY <3>0, RemappedResult
    <3> HIDE DEF remapped
    <3>2. new = remapped
      BY <2>2 DEF remapped
    <3> QED
      BY <3>1, <3>2
  <2>4. Managed(k.result) <=> Managed(result)
    BY <1>1
  <2>5. new.revision = result.revision + 1
    <3>1. CASE Managed(result)
      BY <1>1, <2>3, <2>4, <3>1
    <3>2. CASE ~Managed(result)
      BY <1>1, <2>3, <2>4, <3>2, NoResultType
    <3> QED
      BY <3>1, <3>2
  <2>6. Version(result, new)
    <3>1. result.revision \in Nat
      BY <1>2, ResultFields
    <3> QED
      BY <2>5, <3>1 DEF Version
  <2>7. CASE draft = k.draft /\ k.m.outcome = "verdict" /\ k.m.answerNow
                /\ next.status \in {"filled", "no_data"}
    <3>1. /\ draft.state \in {"confirmation_required", "unsupported", "clarification_required"}
          /\ (draft.state = "confirmation_required") = (draft.spec # 0)
          /\ k.m.protocol = 2 /\ draft.state = "clarification_required" =>
               k.result.generation < MaxGeneration
      BY <1>1, <2>7 DEF RequestOK, DraftOK
    <3>2. Managed(result) =>
            /\ AwaitsTriage(row, result, now) /\ new.generation = result.generation
            /\ new.state = "clarification_required" => new.generation < MaxGeneration
      BY <1>1, <2>3, <2>4, <3>1
    <3> QED
      BY <1>1, <2>3, <2>5, <2>6, <2>7, <3>1, <3>2 DEF new
  <2>8. CASE /\ k.m.protocol = 2 /\ Managed(k.result)
             /\ \/ next.status = "junk" /\ draft.state = "unsupported" /\ draft.spec = 0
                \/ next.status = "triage_failed" /\ draft.state = "failed" /\ draft.spec = 0
    <3>1. Managed(result) /\ AwaitsTriage(row, result, now) /\ new.generation = result.generation
      BY <1>1, <2>3, <2>4, <2>8
    <3> QED
      BY <2>3, <2>5, <2>6, <2>8, <3>1 DEF new
  <2> QED
    BY <1>3, <1>5, <2>7, <2>8
<1> QED
  BY <1>4, <1>5 DEF new

\* The triggers let such an acknowledgement through.
LEMMA AckAllowed ==
  ASSUME IInv, NEW c \in Calls, At(c, "write"), calls[c].m.kind = "ack", AckMatches(calls[c]),
         NEW next \in Acked(calls[c])
  PROVE  BatchAllowed(row, next, result, AfterAck(calls[c], next))
<1> DEFINE k == calls[c]
           new == AfterAck(k, next)
<1>1. /\ k \in Working /\ RequestOK(k) /\ k.row = row /\ row.status = "triaging" /\ k.at \in Clock
      /\ row.claimed <= k.at
  BY AckReads, WorkingFields DEF RequestOK
<1>2. row \in Rows /\ next \in Rows /\ result \in Results /\ row.revision \in Nat
  BY AckRow, RowFields DEF IInv, Typing
<1>3. /\ next.attempt = row.attempt
      /\ \/ k.m.outcome = "failed" /\ next = Released(row, k.at)
         \/ next.status = "junk" /\ next.retry = Null /\ next.revision = row.revision + 1
         \/ /\ next.status \in Settled \cup {"queued"}
            /\ next.retry = Null /\ next.revision = row.revision + 2
  BY <1>1, AckedRow DEF Settled
<1>4. IF next.status \in Settled \cup {"queued"}
      THEN LET mid == [next EXCEPT !.status = "triaged", !.revision = @ - 1]
           IN RowAllowed(row, mid) /\ RowAllowed(mid, next)
      ELSE RowAllowed(row, next)
  <2>1. CASE k.m.outcome = "failed" /\ next = Released(row, k.at)
    <3>0. row \in Rows /\ k.at \in Clock /\ row.claimed <= k.at /\ next = Released(row, k.at)
      BY <1>1, <1>2, <2>1
    <3>1. /\ next.revision = row.revision + 1
          /\ \/ /\ next.status = "received" /\ row.attempt < MaxAttempts
                /\ row.claimed < next.retry /\ next.retry <= row.claimed + Day
             \/ next.status = "triage_failed" /\ row.attempt = MaxAttempts /\ next.retry = Null
      BY <3>0, ReleasedRow
    <3>2. row.claimed \in Int /\ next.retry \in Int
      BY <1>2, RowFields
    <3> QED
      BY <1>1, <1>3, <3>1, <3>2 DEF RowAllowed, Settled
  <2>2. CASE next.status = "junk" /\ next.retry = Null /\ next.revision = row.revision + 1
    BY <1>1, <1>3, <2>2 DEF RowAllowed, Settled
  <2>3. CASE /\ next.status \in Settled \cup {"queued"}
             /\ next.retry = Null /\ next.revision = row.revision + 2
    <3> DEFINE mid == [next EXCEPT !.status = "triaged", !.revision = @ - 1]
    <3>1. /\ mid.status = "triaged" /\ mid.revision = next.revision - 1
          /\ mid.attempt = next.attempt /\ mid.retry = next.retry
      BY <1>2 DEF Rows
    <3> HIDE DEF mid
    <3>2. mid.revision = row.revision + 1 /\ next.revision = mid.revision + 1
      BY <1>2, <2>3, <3>1
    <3>3. RowAllowed(row, mid)
      BY <1>1, <1>3, <2>3, <3>1, <3>2 DEF RowAllowed
    <3>4. RowAllowed(mid, next)
      BY <2>3, <3>1, <3>2 DEF RowAllowed
    <3> QED
      BY <2>3, <3>3, <3>4 DEF mid
  <2> QED
    BY <1>3, <2>1, <2>2, <2>3
<1>5. new # result => ResultAllowed(result, new, next, clarification)
  <2>1. SUFFICES ASSUME new # result PROVE ResultAllowed(result, new, next, clarification)
    OBVIOUS
  <2>2. /\ new \in Results
        /\ new.revision = result.revision + 1 /\ new.parent = next.revision
        /\ ~Managed(result) => result = NoResult
        /\ Managed(result) =>
             /\ AwaitsTriage(row, result, now) /\ new.generation = result.generation
             /\ new.state = "clarification_required" => new.generation < MaxGeneration
        /\ \/ /\ next.status \in {"filled", "no_data"}
              /\ new.state \in {"confirmation_required", "unsupported", "clarification_required"}
              /\ (new.state = "confirmation_required") = (new.spec # 0)
           \/ /\ Managed(result) /\ next.status = "junk"
              /\ new.state = "unsupported" /\ new.spec = 0
           \/ /\ Managed(result) /\ next.status = "triage_failed"
              /\ new.state = "failed" /\ new.spec = 0
    BY <2>1, AckSidecar
  <2> HIDE DEF new
  <2>3. CASE ~Managed(result)
    <3>1. result.state = "none" /\ result.revision = 0
      BY <2>2, <2>3 DEF NoResult
    <3> QED
      BY <2>2, <2>3, <3>1 DEF ResultAllowed, Settled
  <2>4. CASE Managed(result)
    <3>1. /\ result.state = "triaging" /\ result.deadline > now /\ row.revision >= result.parent
          /\ clarification = [generation |-> new.generation, parent |-> result.parent]
      BY <2>2, <2>4 DEF AwaitsTriage, Clarified
    <3>2. new.parent > result.parent
      <4>1. next.revision > row.revision /\ next.revision \in Nat /\ result.parent \in Nat
        BY <1>2, AckRow, RowFields, ResultFields
      <4> QED
        BY <1>2, <2>2, <3>1, <4>1
    <3>3. /\ new.state = "clarification_required" => new.generation < MaxGeneration
          /\ (new.state = "confirmation_required") = (new.spec # 0)
          /\ \/ next.status \in Settled /\ new.state # "failed"
             \/ next.status = "junk" /\ new.state = "unsupported"
             \/ next.status = "triage_failed" /\ new.state = "failed"
      BY <2>2, <2>4 DEF Settled
    <3> QED
      BY <2>2, <2>4, <3>1, <3>2, <3>3 DEF ResultAllowed
  <2> QED
    BY <2>3, <2>4
<1> QED
  BY <1>1, <1>4, <1>5 DEF BatchAllowed

LEMMA WriteAckInv ==
  ASSUME IInv, NEW c \in Calls, WriteAck(c)
  PROVE  IInv'
<1> DEFINE k == calls[c]
<1>1. /\ At(c, "write") /\ k.m.kind = "ack" /\ Answer(c)
      /\ UNCHANGED <<now, snapshot, clarification>>
  BY DEF WriteAck
<1>2. PICK next \in Acked(k) :
        \/ /\ AckMatches(k) /\ Admission(next)
           /\ row' = next /\ result' = AfterAck(k, next)
           /\ operations' = operations \cup
                {[m |-> k.m, lease |-> k.row.lease, applied |-> next.revision]}
        \/ UNCHANGED <<row, result, operations, job>>
  BY DEF WriteAck, AfterAck
<1>3. CASE UNCHANGED <<row, result, operations, job>>
  BY <1>1, <1>3, Answered DEF Data
<1>4. CASE /\ AckMatches(k) /\ Admission(next)
           /\ row' = next /\ result' = AfterAck(k, next)
           /\ operations' = operations \cup
                {[m |-> k.m, lease |-> k.row.lease, applied |-> next.revision]}
  <2>1. /\ next \in Rows /\ next.revision > row.revision /\ Version(row, next)
        /\ RowShape(next, now) /\ next.status # "triaging"
        /\ next.status = "queued" => k.m.outcome = "arrival"
    BY <1>1, <1>4, AckRow
  <2>2. /\ result' \in Results /\ Version(result, result')
        /\ \/ result' = result /\ (Managed(result) => result.state = "triaging" /\ next.status = "received")
           \/ /\ result'.parent = next.revision
              /\ \/ /\ next.status \in {"filled", "no_data"}
                    /\ result'.state \in {"confirmation_required", "unsupported",
                                          "clarification_required"}
                 \/ next.status = "junk" /\ result'.state = "unsupported"
                 \/ next.status = "triage_failed" /\ result'.state = "failed"
    BY <1>1, <1>4, AckSidecar
  <2>3. operations' \subseteq Receipts
    <3>1. k.m \in Requests /\ k.row.lease \in Leases /\ next.revision \in Nat
      BY <1>1, <2>1, Writing, WorkingFields, RowFields
    <3>2. [m |-> k.m, lease |-> k.row.lease, applied |-> next.revision] \in Receipts
      BY <3>1 DEF Receipts
    <3> QED
      BY <1>4, <3>2 DEF IInv, Typing
  <2>4. job' \in {"tombstone", "none", "pending"}
    BY <1>4 DEF Admission, IInv, Typing
  <2>5. SidecarShape'
    <3>1. CASE result' = result /\ (Managed(result) => result.state = "triaging" /\ next.status = "received")
      <4>1. SidecarShape /\ row.revision \in Nat /\ next.revision \in Nat /\ result.parent \in Nat
        BY <2>1, RowFields, ResultFields DEF IInv, Typing
      <4>2. result.state = "triaging" => next.revision >= result.parent
        BY <2>1, <4>1 DEF SidecarShape, SidecarAgrees
      <4>3. result.state \notin {"confirmation_required", "clarification_required"}
        BY <3>1 DEF Managed
      <4>4. SidecarAgrees'
        BY <1>1, <1>4, <3>1, <4>1, <4>2, <4>3 DEF SidecarShape, SidecarAgrees, Clarified, Managed
      <4>5. LeasedWithSidecar'
        BY <1>4, <2>1 DEF LeasedWithSidecar
      <4> QED
        BY <3>1, <4>1, <4>4, <4>5 DEF SidecarShape
    <3>2. CASE /\ result'.parent = next.revision
               /\ \/ /\ next.status \in {"filled", "no_data"}
                     /\ result'.state \in {"confirmation_required", "unsupported",
                                           "clarification_required"}
                  \/ next.status = "junk" /\ result'.state = "unsupported"
                  \/ next.status = "triage_failed" /\ result'.state = "failed"
      BY <1>4, <2>1, <3>2 DEF SidecarShape, SidecarAgrees, LeasedWithSidecar, Managed, Settled
    <3> QED
      BY <2>2, <3>1, <3>2
  <2>6. clarification' \in Texts
    BY <1>1 DEF IInv, Typing
  <2> QED
    BY <1>1, <1>4, <2>1, <2>2, <2>3, <2>4, <2>5, <2>6, BatchDone
<1> QED
  BY <1>2, <1>3, <1>4

\* A clarification whose comparisons hold is about the sidecar that was read.
LEMMA ClarifyReads ==
  ASSUME IInv, NEW c \in Calls, At(c, "batch"), Continues(calls[c])
  PROVE  /\ calls[c] \in Clarifying /\ calls[c].at <= now /\ calls[c].at \in Clock
         /\ calls[c].row = row /\ calls[c].result = result
         /\ Clarifiable(row, result)
<1> DEFINE k == calls[c]
<1>1. k \in Clarifying /\ Holding(k) /\ k.pc = "batch"
  BY Slots DEF IInv, At, Holding
<1>2. k.result.revision = k.m.revision
  BY <1>1 DEF IInv, CallsOK, CallOK
<1> QED
  BY <1>1, <1>2, Reread DEF Continues, Clarifying

\* The row, the text and the sidecar of a clarification.
LEMMA ClarifyRow ==
  ASSUME IInv, NEW c \in Calls, At(c, "batch"), Continues(calls[c])
  PROVE  LET k == calls[c]
             next == Reopened(k)
             new == Retriaged(k)
         IN /\ next \in Rows /\ next.status = "received" /\ next.attempt = 0
            /\ next.lease = NoLease /\ next.claimed = Null /\ next.retry = Null
            /\ next.revision = row.revision + 1
            /\ new \in Results /\ new.state = "triaging"
            /\ new.generation = result.generation + 1
            /\ new.parent = row.revision + 1 /\ new.revision = result.revision + 1
            /\ Text(k) \in Texts
            /\ Text(k) = [generation |-> new.generation, parent |-> next.revision]
<1> DEFINE k == calls[c]
           next == Reopened(k)
           new == Retriaged(k)
           revision == row.revision + 1
           generation == result.generation + 1
           fresh == result.revision + 1
           deadline == k.at + Day
           zero == 0
<1>1. /\ k.row = row /\ k.result = result /\ Clarifiable(row, result)
      /\ row \in Rows /\ result \in Results /\ k.at \in Clock
  BY ClarifyReads DEF IInv, Typing
<1>2. /\ revision \in Nat /\ fresh \in Nat /\ deadline \in Times
      /\ generation \in Nat /\ generation \in Generations
  <2>1. row.revision \in Nat /\ result.revision \in Nat /\ result.generation \in Nat
    BY <1>1, RowFields, ResultFields
  <2>2. result.generation < MaxGeneration
    BY <1>1 DEF Clarifiable
  <2>3. generation \in Nat /\ generation \in Generations
    BY <2>1, <2>2, Bounds DEF Generations
  <2>4. deadline \in Times
    BY <1>1, TimeValues
  <2> QED
    BY <2>1, <2>3, <2>4
<1>3. zero \in Nat /\ zero \in Attempts /\ NoLease \in Leases /\ "none" \in Owners
      /\ "received" \in Statuses /\ "triaging" \in States
  BY Bounds DEF Attempts, NoLease, Leases, Owners, Statuses, States
<1>4. next = [row EXCEPT !.status = "received", !.attempt = zero, !.lease = NoLease,
                !.owner = "none", !.claimed = Null, !.retry = Null, !.revision = revision]
  BY DEF Reopened
<1>5. new = [result EXCEPT !.state = "triaging", !.generation = generation, !.spec = zero,
                !.parent = revision, !.deadline = deadline, !.revision = fresh]
  BY <1>1 DEF Retriaged
<1>6. Text(k) = [generation |-> generation, parent |-> revision]
  BY <1>1 DEF Text
<1> HIDE DEF revision, generation, fresh, deadline, zero, next, new
<1>7. /\ next \in Rows /\ next.status = "received" /\ next.attempt = zero
      /\ next.lease = NoLease /\ next.claimed = Null /\ next.retry = Null
      /\ next.revision = revision
  BY <1>1, <1>2, <1>3, <1>4, TimeValues DEF Rows
<1>8. /\ new \in Results /\ new.state = "triaging" /\ new.generation = generation
      /\ new.parent = revision /\ new.revision = fresh
  BY <1>1, <1>2, <1>3, <1>5 DEF Results
<1>9. Text(k) \in Texts
  BY <1>2, <1>6 DEF Texts
<1> QED
  BY <1>6, <1>7, <1>8, <1>9 DEF revision, generation, fresh, zero, next, new

LEMMA ClarifyLetThrough ==
  ASSUME IInv, NEW c \in Calls, At(c, "batch"), Continues(calls[c])
  PROVE  ClarifyAllowed(calls[c])
<1> DEFINE k == calls[c]
<1>1. Clarifiable(row, result)
  BY ClarifyReads
<1>2. RowAllowed(row, Reopened(k))
  BY <1>1, ClarifyRow DEF RowAllowed, Clarifiable
<1>3. ResultAllowed(result, Retriaged(k), Reopened(k), Text(k))
  BY <1>1, ClarifyRow DEF ResultAllowed, Clarifiable
<1> QED
  BY <1>2, <1>3 DEF ClarifyAllowed

LEMMA ClarifyInv ==
  ASSUME IInv, NEW c \in Calls, Clarify(c)
  PROVE  IInv'
<1> DEFINE k == calls[c]
           next == Reopened(k)
           new == Retriaged(k)
<1>1. At(c, "batch") /\ Answer(c) /\ UNCHANGED <<now, snapshot, operations, job>>
  BY DEF Clarify
<1>2. CASE ~(Continues(k) /\ ClarifyAllowed(k))
  BY <1>1, <1>2, Answered DEF Clarify, Data
<1>3. CASE Continues(k) /\ ClarifyAllowed(k)
  <2>1. row' = next /\ clarification' = Text(k) /\ result' = new
    BY <1>3 DEF Clarify
  <2>2. /\ next \in Rows /\ next.status = "received" /\ next.attempt = 0
        /\ next.lease = NoLease /\ next.claimed = Null /\ next.retry = Null
        /\ next.revision = row.revision + 1
        /\ new \in Results /\ new.state = "triaging"
        /\ new.generation = result.generation + 1
        /\ new.parent = row.revision + 1 /\ new.revision = result.revision + 1
        /\ Text(k) \in Texts
        /\ Text(k) = [generation |-> new.generation, parent |-> next.revision]
    BY <1>1, <1>3, ClarifyRow
  <2> HIDE DEF next, new
  <2>3. /\ row.revision \in Nat /\ result.revision \in Nat /\ result.generation \in Nat
        /\ now \in Nat
    BY RowFields, ResultFields, TimeValues DEF IInv, Typing
  <2>4. Version(row, row') /\ Version(result, result')
    BY <2>1, <2>2, <2>3 DEF Version
  <2>5. RowShape(row', now)
    BY <2>1, <2>2, <2>3, Bounds DEF RowShape, NoLease, Null
  <2>6. SidecarShape'
    <3>1. result'.generation >= 1 /\ row'.revision >= result'.parent
      BY <2>1, <2>2, <2>3
    <3>2. Clarified(result)'
      BY <2>1, <2>2 DEF Clarified
    <3> QED
      BY <2>1, <2>2, <3>1, <3>2 DEF SidecarShape, SidecarAgrees, LeasedWithSidecar, Managed, Settled
  <2>7. operations \subseteq Receipts /\ job \in {"tombstone", "none", "pending"}
    BY DEF IInv, Typing
  <2> QED
    BY <1>1, <2>1, <2>2, <2>4, <2>5, <2>6, <2>7, BatchDone
<1> QED
  BY <1>2, <1>3

\* A settle whose comparisons hold writes over the row it read, and under
\* protocol 2 over the sidecar it read.
LEMMA SettleReads ==
  ASSUME IInv, NEW c \in Calls, At(c, "settle"), SettleMatches(calls[c])
  PROVE  LET s == calls[c] IN
         /\ s \in Sweeping /\ s.p \in Protocols /\ s.at \in Clock /\ s.at <= now
         /\ s.row = row /\ s.next \in Rows
         /\ s.p = 2 => s.result = result
         /\ \/ row.status = "queued" /\ \E status \in Settled : SettledBy(s, status)
            \/ row.status = "triaging" /\ row.claimed <= s.at /\ s.next = Released(row, s.at)
         /\ IF s.p = 2 /\ result.state = "expired"
            THEN ExpiredManaged(row, result) ELSE InScope(s.p, row, result, now)
<1> DEFINE s == calls[c]
<1>1. s \in Sweeping /\ Holding(s) /\ s.pc = "settle" /\ SweepOK(s)
  BY Slots DEF IInv, At, Holding, CallsOK, CallOK
<1>2. s.row = row /\ s.at <= now
  BY <1>1, Reread DEF SettleMatches, SameRow
<1>3. s.p = 2 => s.result = result
  BY <1>1, Reread DEF SettleMatches, SameSidecar
<1>4. s.p \in Protocols /\ s.at \in Clock /\ s.next \in Rows
  BY <1>1 DEF Sweeping
<1>5. IF s.p = 2 /\ result.state = "expired"
      THEN ExpiredManaged(row, result) ELSE InScope(s.p, row, result, now)
  BY <1>3 DEF SettleMatches, OverBefore
<1> QED
  BY <1>1, <1>2, <1>3, <1>4, <1>5 DEF SweepOK

LEMMA SettleRow ==
  ASSUME IInv, NEW c \in Calls, At(c, "settle"), SettleMatches(calls[c])
  PROVE  LET next == calls[c].next IN
         /\ next \in Rows /\ next.revision = row.revision + 1
         /\ Version(row, next) /\ RowShape(next, now)
         /\ \/ row.status = "queued" /\ next.status \in Settled
            \/ /\ row.status = "triaging" /\ next.attempt = row.attempt
               /\ \/ /\ next.status = "received" /\ row.attempt < MaxAttempts
                     /\ row.claimed < next.retry /\ next.retry <= row.claimed + Day
                  \/ /\ next.status = "triage_failed"
                     /\ row.attempt = MaxAttempts /\ next.retry = Null
<1> DEFINE s == calls[c]
           next == s.next
<1>1. /\ s.row = row /\ next \in Rows /\ s.at \in Clock
      /\ \/ row.status = "queued" /\ \E status \in Settled : SettledBy(s, status)
         \/ row.status = "triaging" /\ row.claimed <= s.at /\ next = Released(row, s.at)
  BY SettleReads
<1>2. /\ row \in Rows /\ row.revision \in Nat /\ row.lease.revision \in Nat /\ row.claimed \in Int
      /\ row.lease.revision <= row.revision /\ row.claimed <= now
  BY RowFields DEF IInv, Typing, RowShape
<1>3. /\ next.revision = row.revision + 1 /\ next.lease = row.lease /\ next.claimed = row.claimed
      /\ \/ row.status = "queued" /\ next.status \in Settled
         \/ /\ row.status = "triaging" /\ next.attempt = row.attempt
            /\ \/ /\ next.status = "received" /\ row.attempt < MaxAttempts
                  /\ row.claimed < next.retry /\ next.retry <= row.claimed + Day
               \/ /\ next.status = "triage_failed"
                  /\ row.attempt = MaxAttempts /\ next.retry = Null
  <2>1. CASE row.status = "queued" /\ \E status \in Settled : SettledBy(s, status)
    <3>1. PICK status \in Settled : next = [row EXCEPT !.status = status, !.revision = @ + 1]
      BY <1>1, <2>1 DEF SettledBy
    <3> QED
      BY <1>2, <2>1, <3>1 DEF Rows
  <2>2. CASE row.status = "triaging" /\ row.claimed <= s.at /\ next = Released(row, s.at)
    <3>1. row \in Rows /\ s.at \in Clock /\ row.claimed <= s.at /\ next = Released(row, s.at)
      BY <1>1, <1>2, <2>2
    <3> QED
      BY <2>2, <3>1, ReleasedRow
  <2> QED
    BY <1>1, <2>1, <2>2
<1>4. next.revision \in Nat /\ next.retry \in Int
  BY <1>1, RowFields
<1>5. Version(row, next)
  BY <1>2, <1>3, <1>4 DEF Version
<1>6. RowShape(next, now)
  <2>1. next.lease.revision <= next.revision /\ next.claimed <= now
    BY <1>2, <1>3, <1>4
  <2>2. next.status # "triaging"
    BY <1>3 DEF Settled
  <2>3. next.status = "received" => next.attempt < MaxAttempts /\ next.claimed <= next.retry
    BY <1>2, <1>3, <1>4 DEF Settled
  <2> QED
    BY <2>1, <2>2, <2>3 DEF RowShape
<1> QED
  BY <1>1, <1>3, <1>5, <1>6

\* A sidecar fails with its question, or is left as it was.
LEMMA SettleSidecar ==
  ASSUME IInv, NEW c \in Calls, At(c, "settle"), SettleMatches(calls[c])
  PROVE  LET new == SettledResult(calls[c]) IN
         /\ new \in Results /\ Version(result, new)
         /\ \/ /\ new = result
               /\ calls[c].next.status = "received" \/ ~Managed(result) \/ result.state = "expired"
            \/ /\ calls[c].next.status = "triage_failed" /\ AwaitsTriage(row, result, now)
               /\ new.state = "failed" /\ new.spec = 0 /\ new.parent = calls[c].next.revision
               /\ new.generation = result.generation /\ new.revision = result.revision + 1
<1> DEFINE s == calls[c]
           new == SettledResult(s)
           draft == [NoResult EXCEPT !.state = "failed"]
<1>1. /\ s \in Sweeping /\ s.p \in Protocols /\ s.at \in Clock /\ s.next \in Rows
      /\ s.p = 2 => s.result = result
      /\ IF s.p = 2 /\ result.state = "expired"
         THEN ExpiredManaged(row, result) ELSE InScope(s.p, row, result, now)
  BY SettleReads
<1>2. result \in Results /\ result.revision \in Nat
  BY ResultFields DEF IInv, Typing
<1>3. CASE s.p = 2 /\ Managed(result) /\ s.next.status = "triage_failed" /\ result.state # "expired"
  <2>1. new = Remapped(result, s.next, draft, s.at)
    BY <1>1, <1>3 DEF SettledResult, OverBefore
  <2>2. draft \in Results /\ draft.state = "failed" /\ draft.spec = 0 /\ draft.generation = 0
    BY NoResultType DEF NoResult, States
  <2> DEFINE next == s.next
             at == s.at
  <2>3. next \in Rows /\ at \in Clock
    BY <1>1
  <2>4. new = Remapped(result, next, draft, at)
    BY <2>1
  <2> HIDE DEF draft, new, next, at
  <2>5. /\ new \in Results
        /\ new.state = draft.state /\ new.spec = draft.spec /\ new.parent = next.revision
        /\ Managed(result) => new.generation = result.generation /\ new.revision = result.revision + 1
    BY <1>2, <2>2, <2>3, <2>4, RemappedResult
  <2>6. Version(result, new)
    BY <1>2, <1>3, <2>5 DEF Version
  <2>7. AwaitsTriage(row, result, now)
    BY <1>1, <1>3 DEF InScope
  <2> QED
    BY <1>3, <2>2, <2>5, <2>6, <2>7 DEF new, next
<1>4. CASE ~(s.p = 2 /\ Managed(result) /\ s.next.status = "triage_failed" /\ result.state # "expired")
  <2>1. new = result
    BY <1>1, <1>4 DEF SettledResult, OverBefore
  <2>2. s.next.status = "received" \/ ~Managed(result) \/ result.state = "expired"
    <3>1. SUFFICES ASSUME Managed(result), result.state # "expired" PROVE s.next.status = "received"
      OBVIOUS
    <3>2. s.p = 2
      BY <1>1, <3>1 DEF InScope, Protocols
    <3>3. row.status # "queued"
      BY <3>1 DEF IInv, SidecarShape, SidecarAgrees
    <3> QED
      BY <1>4, <3>1, <3>2, <3>3, SettleRow
  <2> QED
    BY <1>2, <2>1, <2>2, VersionSame
<1> QED
  BY <1>3, <1>4

LEMMA SettleAllowed ==
  ASSUME IInv, NEW c \in Calls, At(c, "settle"), SettleMatches(calls[c])
  PROVE  BatchAllowed(row, calls[c].next, result, SettledResult(calls[c]))
<1> DEFINE s == calls[c]
           next == s.next
           new == SettledResult(s)
<1>1. /\ row \in Rows /\ result \in Results /\ next \in Rows /\ next.revision = row.revision + 1
      /\ \/ row.status = "queued" /\ next.status \in Settled
         \/ /\ row.status = "triaging" /\ next.attempt = row.attempt
            /\ \/ /\ next.status = "received" /\ row.attempt < MaxAttempts
                  /\ row.claimed < next.retry /\ next.retry <= row.claimed + Day
               \/ /\ next.status = "triage_failed"
                  /\ row.attempt = MaxAttempts /\ next.retry = Null
  BY SettleRow DEF IInv, Typing
<1>2. RowAllowed(row, next)
  <2>1. row.claimed \in Int /\ next.retry \in Int
    BY <1>1, RowFields
  <2> QED
    BY <1>1, <2>1 DEF RowAllowed
<1>3. ~(row.status = "triaging" /\ next.status \in Settled \cup {"queued"})
  BY <1>1 DEF Settled
<1>4. new # result => ResultAllowed(result, new, next, clarification)
  <2>1. SUFFICES ASSUME new # result PROVE ResultAllowed(result, new, next, clarification)
    OBVIOUS
  <2>2. /\ next.status = "triage_failed" /\ AwaitsTriage(row, result, now)
        /\ new.state = "failed" /\ new.spec = 0 /\ new.parent = next.revision
        /\ new.generation = result.generation /\ new.revision = result.revision + 1
    BY <2>1, SettleSidecar
  <2> HIDE DEF new
  <2>3. new.parent > result.parent
    <3>1. row.revision \in Nat /\ result.parent \in Nat /\ row.revision >= result.parent
      BY <1>1, <2>2, RowFields, ResultFields DEF AwaitsTriage
    <3> QED
      BY <1>1, <2>2, <3>1
  <2> QED
    BY <2>2, <2>3 DEF ResultAllowed, AwaitsTriage, Clarified
<1> QED
  BY <1>2, <1>3, <1>4 DEF BatchAllowed

LEMMA SettleInv ==
  ASSUME IInv, NEW c \in Calls, Settle(c)
  PROVE  IInv'
<1> DEFINE s == calls[c]
           next == s.next
           new == SettledResult(s)
<1>1. At(c, "settle") /\ Answer(c) /\ UNCHANGED <<now, snapshot, clarification, operations, job>>
  BY DEF Settle
<1>2. CASE ~(SettleMatches(s) /\ BatchAllowed(row, next, result, new))
  BY <1>1, <1>2, Answered DEF Settle, Data
<1>3. CASE SettleMatches(s) /\ BatchAllowed(row, next, result, new)
  <2>1. row' = next /\ result' = new
    BY <1>3 DEF Settle
  <2>2. /\ next \in Rows /\ next.revision = row.revision + 1
        /\ Version(row, next) /\ RowShape(next, now)
        /\ \/ row.status = "queued" /\ next.status \in Settled
           \/ row.status = "triaging" /\ next.status \in {"received", "triage_failed"}
    BY <1>1, <1>3, SettleRow
  <2>3. /\ new \in Results /\ Version(result, new)
        /\ \/ /\ new = result
              /\ next.status = "received" \/ ~Managed(result) \/ result.state = "expired"
           \/ next.status = "triage_failed" /\ new.state = "failed"
    BY <1>1, <1>3, SettleSidecar
  <2> HIDE DEF next, new
  <2>4. SidecarShape'
    <3>1. CASE next.status = "triage_failed" /\ new.state = "failed"
      BY <2>1, <3>1 DEF SidecarShape, SidecarAgrees, LeasedWithSidecar, Managed
    <3>2. CASE /\ new = result
               /\ next.status = "received" \/ ~Managed(result) \/ result.state = "expired"
      <4>1. SidecarShape /\ row.revision \in Nat /\ result.parent \in Nat
        BY RowFields, ResultFields DEF IInv, Typing
      <4>2. CASE ~Managed(result) \/ result.state = "expired"
        <5>1. next.status # "queued" /\ next.status # "triaging"
          BY <2>2 DEF Settled
        <5> QED
          BY <2>1, <3>2, <4>1, <4>2, <5>1
             DEF SidecarShape, SidecarAgrees, LeasedWithSidecar, Managed
      <4>3. CASE next.status = "received" /\ Managed(result)
        <5>1. row.status = "triaging"
          BY <2>2, <4>3 DEF Settled
        <5>2. /\ result.state \in {"triaging", "expired"} /\ Clarified(result)
              /\ row.revision >= result.parent /\ result.generation >= 1
          BY <4>1, <4>3, <5>1 DEF SidecarShape, LeasedWithSidecar
        <5>3. next.revision >= result.parent
          BY <2>2, <4>1, <5>2
        <5>4. Clarified(result)'
          BY <1>1, <2>1, <3>2, <5>2 DEF Clarified
        <5> QED
          BY <2>1, <3>2, <4>3, <5>2, <5>3, <5>4
             DEF SidecarShape, SidecarAgrees, LeasedWithSidecar, Managed
      <4> QED
        BY <3>2, <4>2, <4>3
    <3> QED
      BY <2>3, <3>1, <3>2
  <2>5. /\ clarification \in Texts /\ operations \subseteq Receipts
        /\ job \in {"tombstone", "none", "pending"}
    BY DEF IInv, Typing
  <2> QED
    BY <1>1, <2>1, <2>2, <2>3, <2>4, <2>5, BatchDone
<1> QED
  BY <1>2, <1>3

-----------------------------------------------------------------------------
(* The invariant, and the invariants that follow from it. *)

LEMMA InvNext == IInv /\ [Next]_vars => IInv'
<1> SUFFICES ASSUME IInv, [Next]_vars PROVE IInv'
  OBVIOUS
<1>1. CASE Tick \/ NewSnapshot \/ TombstoneLapses \/ UNCHANGED vars
  BY <1>1, EnvironmentInv
<1>2. CASE Maintain
  BY <1>2, MaintainInv
<1>3. ASSUME NEW c \in Calls, Handle(c) PROVE IInv'
  BY <1>3, SendInv, ReadInv, MapVerdictInv, WriteClaimInv, WriteAckInv, ReadClarifiableInv,
     ClarifyInv DEF Handle
<1>4. ASSUME NEW c \in Calls, Sweep(c) PROVE IInv'
  BY <1>4, SweepRowsInv, QueueResultInv, SettleInv DEF Sweep
<1> QED
  BY <1>1, <1>2, <1>3, <1>4 DEF Next

\* The inductive invariant of triage: a call holds the row and the sidecar as
\* they are or as an earlier revision had them, and a question leased while it
\* has a sidecar is leased under protocol 2 with the sidecar in triage.
THEOREM TriageInvariant == Spec => []IInv
<1>1. Init => IInv
  BY InvInit
<1>2. IInv /\ [Next]_vars => IInv'
  BY InvNext
<1> QED
  BY <1>1, <1>2, PTL DEF Spec

\* Rows, sidecars and clocks are well formed in every reachable state.
THEOREM TriageTyped == Spec => []TypeOK
<1>1. IInv => TypeOK
  <2> SUFFICES ASSUME IInv PROVE TypeOK
    OBVIOUS
  <2>1. Typing
    BY DEF IInv
  <2>2. /\ row.status \in Statuses /\ row.attempt \in Attempts /\ row.lease \in Leases
        /\ row.owner \in Owners /\ row.claimed \in Times /\ row.retry \in Times
        /\ row.revision \in Nat
    BY <2>1, RowFields, TimeValues DEF Typing
  <2>3. /\ result.state \in States /\ result.revision \in Nat /\ result.parent \in Nat
        /\ result.generation \in Generations /\ result.deadline \in Times /\ result.spec \in Nat
    BY <2>1, ResultFields DEF Typing
  <2>4. row.lease.protocol \in {0} \cup Protocols
    BY <2>2 DEF Leases
  <2> QED
    BY <2>1, <2>2, <2>3, <2>4 DEF TypeOK, Typing, Clock, Statuses, Attempts, Owners, Generations
<1> QED
  BY <1>1, TriageInvariant, PTL

\* The sidecar agrees with its question, through claims, acknowledgements, sweeps,
\* clarifications and maintenance: a sidecar in triage has a question that is
\* waiting for triage or leased, an open one has the question's current verdict.
THEOREM SidecarAgreement == Spec => []SidecarAgrees
<1>1. IInv => SidecarAgrees
  BY DEF IInv, SidecarShape
<1> QED
  BY <1>1, TriageInvariant, PTL

\* No batch that passes its comparisons is aborted by a trigger: the guards of
\* the Worker and those of migrations 0013 and 0014 agree.
THEOREM WritesLetThrough == Spec => []NoWriteAborts
<1>1. IInv => NoWriteAborts
  <2> SUFFICES ASSUME IInv, NEW c \in Calls
               PROVE  /\ At(c, "write") =>
                           LET k == calls[c] IN
                           IF k.m.kind = "claim" THEN ClaimMatches(k) => RowAllowed(row, Claimed(k))
                           ELSE AckMatches(k) => \A next \in Acked(k) :
                                  BatchAllowed(row, next, result, AfterAck(k, next))
                      /\ At(c, "settle") =>
                           LET s == calls[c] IN
                           SettleMatches(s) => BatchAllowed(row, s.next, result, SettledResult(s))
                      /\ At(c, "batch") /\ Continues(calls[c]) => ClarifyAllowed(calls[c])
    BY DEF NoWriteAborts, AfterAck
  <2> DEFINE k == calls[c]
  <2>1. ASSUME At(c, "write"), k.m.kind = "claim", ClaimMatches(k)
        PROVE  RowAllowed(row, Claimed(k))
    <3>1. k \in Working /\ RequestOK(k) /\ k.row = row /\ row.status = "received"
          /\ row.attempt < MaxAttempts /\ k.at \in Clock
      BY <2>1, Reread, Writing, WorkingFields DEF ClaimMatches, SameRow, RequestOK
    <3>2. /\ row \in Rows /\ row.claimed \in Int /\ row.retry \in Int /\ row.revision \in Nat
          /\ row.lease.revision \in Nat /\ k.at \in Nat
      BY <3>1, RowFields, TimeValues DEF IInv, Typing
    <3>3. row.claimed <= row.retry /\ row.lease.revision <= row.revision
      BY <3>1 DEF IInv, RowShape
    <3>4. row.retry <= k.at
      BY <2>1 DEF ClaimMatches
    <3>5. LET next == Claimed(k) IN
          /\ next.status = "triaging" /\ next.attempt = row.attempt + 1
          /\ next.lease.revision = row.revision + 1
          /\ next.claimed = k.at /\ next.retry = Null /\ next.revision = row.revision + 1
      <4>1. k \in Working /\ k.row.attempt < MaxAttempts
        BY <3>1
      <4>2. LET next == Claimed(k) IN
            /\ next.status = "triaging" /\ next.attempt = k.row.attempt + 1
            /\ next.lease = [protocol |-> k.m.protocol, revision |-> k.row.revision + 1]
            /\ next.claimed = k.at /\ next.retry = Null /\ next.revision = k.row.revision + 1
        BY <4>1, ClaimedRow
      <4>3. Claimed(k).lease.revision = k.row.revision + 1
        BY <4>2
      <4> QED
        BY <3>1, <4>2, <4>3
    <3>6. Claimed(k).lease # row.lease
      BY <3>2, <3>3, <3>5
    <3>7. k.at >= row.claimed
      BY <3>2, <3>3, <3>4
    <3> QED
      BY <3>1, <3>4, <3>5, <3>6, <3>7 DEF RowAllowed
  <2>2. ASSUME At(c, "write"), k.m.kind # "claim", AckMatches(k), NEW next \in Acked(k)
        PROVE  BatchAllowed(row, next, result, AfterAck(k, next))
    <3>1. k.m.kind = "ack"
      BY <2>2, Writing, WorkingFields
    <3> QED
      BY <2>2, <3>1, AckAllowed
  <2> QED
    BY <2>1, <2>2, SettleAllowed, ClarifyLetThrough
<1> QED
  BY <1>1, TriageInvariant, PTL

\* A lease that has run out is in the scope of a sweep, or maintenance is due
\* that puts it there: no order of claims, clarifications and expiries strands it.
THEOREM LeasesNotStranded == Spec => []NoStrandedLease
<1>1. IInv => NoStrandedLease
  <2> SUFFICES ASSUME IInv, row.status = "triaging", Until(row) <= now, ~Overdue(result)
               PROVE  \E p \in Protocols : Listed(p, "expired")
    BY DEF NoStrandedLease
  <2>1. row.lease.protocol \in Protocols
    BY DEF IInv, RowShape
  <2>2. result \in Results /\ now \in Nat /\ result.deadline \in Int
        /\ result.generation \in Nat /\ result.generation <= MaxGeneration
    BY ResultFields, TimeValues DEF IInv, Typing
  <2>3. CASE ~Managed(result)
    BY <2>1, <2>3 DEF Listed, InScope, OwnLease, Protocols
  <2>4. CASE Managed(result)
    <3>1. /\ row.lease.protocol = 2 /\ result.state \in {"triaging", "expired"}
          /\ result.generation >= 1 /\ Clarified(result) /\ row.revision >= result.parent
      BY <2>4 DEF IInv, SidecarShape, LeasedWithSidecar
    <3>2. result.generation \in 1..MaxGeneration
      BY <2>2, <3>1, Bounds
    <3>3. CASE result.state = "expired"
      BY <3>1, <3>2, <3>3 DEF Listed, ExpiredManaged, Protocols
    <3>4. CASE result.state = "triaging"
      <4>1. result.deadline > now
        BY <2>2, <3>4 DEF Overdue
      <4> QED
        BY <3>1, <3>2, <3>4, <4>1 DEF Listed, InScope, OwnLease, AwaitsTriage, Protocols
    <3> QED
      BY <3>1, <3>3, <3>4
  <2> QED
    BY <2>3, <2>4
<1> QED
  BY <1>1, TriageInvariant, PTL

-----------------------------------------------------------------------------
(* What a step may not do. *)

\* The steps that change the row, each with what it needs.
LEMMA RowChanged ==
  ASSUME IInv, [Next]_vars, row' # row
  PROVE  \/ /\ row.status = "received" /\ row'.status = "triaging" /\ UNCHANGED <<result, job>>
            /\ \E c \in Calls : WriteClaim(c)
         \/ /\ row.status = "triaging"
            /\ \E c \in Calls :
                 /\ WriteAck(c) /\ At(c, "write") /\ calls[c].m.kind = "ack" /\ AckMatches(calls[c])
                 /\ row' \in Acked(calls[c]) /\ Admission(row')
                 /\ result' = AfterAck(calls[c], row')
         \/ /\ row.status \in {"triaging", "queued"} /\ row'.status # "queued"
            /\ \E c \in Calls : Settle(c) /\ SettleMatches(calls[c])
         \/ /\ row.status \in Settled /\ row'.status = "received"
            /\ \E c \in Calls :
                 /\ Clarify(c) /\ Continues(calls[c]) /\ row' = Reopened(calls[c])
                 /\ clarification' = Text(calls[c]) /\ result' = Retriaged(calls[c])
<1>1. ~(Tick \/ NewSnapshot \/ TombstoneLapses \/ UNCHANGED vars \/ Maintain)
  BY DEF Tick, NewSnapshot, TombstoneLapses, Maintain, vars, Data
<1>2. PICK c \in Calls : Handle(c) \/ Sweep(c)
  BY <1>1 DEF Next
<1> DEFINE k == calls[c]
<1>3. ~(Send(c) \/ Read(c) \/ MapVerdict(c) \/ ReadClarifiable(c) \/ QueueResult(c))
  BY DEF Send, Read, MapVerdict, ReadClarifiable, QueueResult, Data
<1>4. ~\E p \in Protocols, kind \in {"expired", "queued"} : SweepRows(c, p, kind)
  BY DEF SweepRows, Data
<1>5. CASE WriteClaim(c)
  <2>1. ClaimMatches(k) /\ row' = Claimed(k) /\ At(c, "write") /\ k.m.kind = "claim"
    BY <1>5 DEF WriteClaim
  <2>2. k \in Working /\ RequestOK(k) /\ k.row = row /\ k.row.attempt < MaxAttempts
    BY <2>1, Reread, Writing DEF ClaimMatches, SameRow, RequestOK
  <2>3. row.status = "received"
    BY <2>1, <2>2 DEF RequestOK
  <2>4. row'.status = "triaging"
    BY <2>1, <2>2, ClaimedRow
  <2>5. UNCHANGED <<result, job>>
    BY <1>5 DEF WriteClaim
  <2> QED
    BY <1>5, <2>3, <2>4, <2>5
<1>6. CASE WriteAck(c)
  <2>1. /\ At(c, "write") /\ k.m.kind = "ack" /\ AckMatches(k)
        /\ row' \in Acked(k) /\ Admission(row') /\ result' = AfterAck(k, row')
    BY <1>6 DEF WriteAck, AfterAck
  <2>2. row.status = "triaging"
    BY <2>1, AckReads
  <2> QED
    BY <1>6, <2>1, <2>2
<1>7. CASE Settle(c)
  <2>1. At(c, "settle") /\ SettleMatches(k) /\ row' = k.next
    BY <1>7 DEF Settle
  <2>2. row.status \in {"triaging", "queued"} /\ row'.status # "queued"
    BY <2>1, SettleRow DEF Settled
  <2> QED
    BY <1>7, <2>1, <2>2
<1>8. CASE Clarify(c)
  <2>1. /\ At(c, "batch") /\ Continues(k) /\ row' = Reopened(k)
        /\ clarification' = Text(k) /\ result' = Retriaged(k)
    BY <1>8 DEF Clarify
  <2>2. row.status \in Settled /\ row'.status = "received"
    BY <2>1, ClarifyReads, ClarifyRow DEF Clarifiable
  <2> QED
    BY <1>8, <2>1, <2>2
<1> QED
  BY <1>2, <1>3, <1>4, <1>5, <1>6, <1>7, <1>8 DEF Handle, Sweep

\* The reset of a question for a clarification comes with its text and with the
\* sidecar in triage, all of the same revision: the batch is never torn.
THEOREM ClarificationWhole == Spec => ClarifiedTogether
<1>1. IInv /\ [Next]_vars =>
        [row.status \in Settled /\ row'.status = "received"
           => /\ result'.state = "triaging" /\ result'.parent = row'.revision
              /\ clarification'.parent = row'.revision]_vars
  <2> SUFFICES ASSUME IInv, [Next]_vars, row.status \in Settled, row'.status = "received"
               PROVE  /\ result'.state = "triaging" /\ result'.parent = row'.revision
                      /\ clarification'.parent = row'.revision
    OBVIOUS
  <2>1. row' # row
    BY DEF Settled
  <2>2. PICK c \in Calls :
          /\ Clarify(c) /\ Continues(calls[c]) /\ row' = Reopened(calls[c])
          /\ clarification' = Text(calls[c]) /\ result' = Retriaged(calls[c])
    BY <2>1, RowChanged DEF Settled
  <2>3. At(c, "batch")
    BY <2>2 DEF Clarify
  <2>4. /\ row'.revision = row.revision + 1
        /\ result'.state = "triaging" /\ result'.parent = row.revision + 1
        /\ clarification' = [generation |-> result'.generation, parent |-> row'.revision]
    BY <2>2, <2>3, ClarifyRow
  <2> QED
    BY <2>4
<1> QED
  BY <1>1, TriageInvariant, PTL DEF Spec, ClarifiedTogether

\* A lease is ended under the protocol it was granted under, whichever service,
\* retry or sweep ends it.
THEOREM ProtocolsKeptApart == Spec => LeaseKeepsProtocol
<1>1. IInv /\ [Next]_vars =>
        [row.status = "triaging" /\ row' # row =>
           \E c \in Calls : /\ calls[c].pc \in {"write", "settle"} /\ calls'[c] = Idle
                           /\ row.lease.protocol =
                                IF At(c, "settle") THEN calls[c].p ELSE calls[c].m.protocol]_vars
  <2> SUFFICES ASSUME IInv, [Next]_vars, row.status = "triaging", row' # row
               PROVE  \E c \in Calls :
                        /\ calls[c].pc \in {"write", "settle"} /\ calls'[c] = Idle
                        /\ row.lease.protocol =
                             IF At(c, "settle") THEN calls[c].p ELSE calls[c].m.protocol
    OBVIOUS
  <2>1. row.lease.protocol \in Protocols /\ calls \in [Calls -> InFlight]
    BY DEF IInv, RowShape, Typing
  <2>2. ASSUME NEW c \in Calls, WriteAck(c), At(c, "write"), AckMatches(calls[c])
        PROVE  calls'[c] = Idle /\ row.lease.protocol = calls[c].m.protocol
    <3>1. calls'[c] = Idle
      BY <2>1, <2>2 DEF WriteAck, Answer
    <3>2. OwnLease(calls[c].m.protocol, row) /\ calls[c].m.protocol \in Protocols
      BY <2>2, Writing, WorkingFields DEF AckMatches, InScope
    <3> QED
      BY <2>1, <3>1, <3>2 DEF OwnLease, Protocols
  <2>3. ASSUME NEW c \in Calls, Settle(c), SettleMatches(calls[c])
        PROVE  calls'[c] = Idle /\ At(c, "settle") /\ row.lease.protocol = calls[c].p
    <3>1. calls'[c] = Idle /\ At(c, "settle")
      BY <2>1, <2>3 DEF Settle, Answer
    <3>2. /\ calls[c].p \in Protocols
          /\ IF calls[c].p = 2 /\ result.state = "expired"
             THEN ExpiredManaged(row, result) ELSE InScope(calls[c].p, row, result, now)
      BY <2>3, <3>1, SettleReads
    <3> QED
      BY <2>1, <3>1, <3>2 DEF OwnLease, InScope, ExpiredManaged, Protocols
  <2> QED
    BY <2>2, <2>3, RowChanged DEF At, Settled
<1> QED
  BY <1>1, TriageInvariant, PTL DEF Spec, LeaseKeepsProtocol

\* No acknowledgement takes effect once the lease has run out, however long its
\* handler was kept between the read and the batch.
THEOREM LateAcksRefused == Spec => LateAckRefused
<1>1. IInv /\ [Next]_vars =>
        [row.status = "triaging" /\ operations' # operations => Until(row) > now]_vars
  <2> SUFFICES ASSUME IInv, [Next]_vars, row.status = "triaging", operations' # operations
               PROVE  Until(row) > now
    OBVIOUS
  <2>1. ~(Tick \/ NewSnapshot \/ TombstoneLapses \/ UNCHANGED vars \/ Maintain)
    BY DEF Tick, NewSnapshot, TombstoneLapses, Maintain, vars, Data
  <2>2. PICK c \in Calls : WriteClaim(c) \/ WriteAck(c)
    BY <2>1 DEF Next, Handle, Sweep, Send, Read, MapVerdict, ReadClarifiable, Clarify, SweepRows,
       QueueResult, Settle, Data
  <2>3. CASE WriteClaim(c)
    <3>1. ClaimMatches(calls[c]) /\ At(c, "write") /\ calls[c].m.kind = "claim"
      BY <2>3 DEF WriteClaim
    <3>2. row.status = "received"
      BY <3>1, Writing DEF ClaimMatches, SameRow, RequestOK
    <3> QED
      BY <3>2
  <2>4. CASE WriteAck(c)
    BY <2>4 DEF WriteAck, AckMatches
  <2> QED
    BY <2>2, <2>3, <2>4
<1> QED
  BY <1>1, TriageInvariant, PTL DEF Spec, LateAckRefused

\* A proposal put to the account is of the snapshot that is newest when it is
\* written: one that was mapped on an older snapshot is refused by the batch.
THEOREM ProposalsCurrent == Spec => ProposalIsCurrent
<1>1. IInv /\ [Next]_vars =>
        [result'.state = "confirmation_required" /\ result.state # "confirmation_required"
           => result'.spec = snapshot]_vars
  <2> SUFFICES ASSUME IInv, [Next]_vars, result'.state = "confirmation_required",
                      result.state # "confirmation_required"
               PROVE  result'.spec = snapshot
    OBVIOUS
  <2>1. result' # result
    OBVIOUS
  <2>2. ~Maintain
    <3>1. SUFFICES ASSUME Maintain PROVE FALSE
      OBVIOUS
    <3>2. result \in Results
      BY DEF IInv, Typing
    <3>3. result'.state \in {"expired", "stale"}
      BY <3>1, <3>2 DEF Maintain, Results
    <3> QED
      BY <3>3
  <2>3. PICK c \in Calls : WriteAck(c) \/ Settle(c) \/ Clarify(c)
    BY <2>1, <2>2 DEF Next, Tick, NewSnapshot, TombstoneLapses, vars, Handle, Sweep, Send, Read,
       MapVerdict, WriteClaim, ReadClarifiable, SweepRows, QueueResult, Data
  <2> DEFINE k == calls[c]
  <2>4. CASE WriteAck(c)
    <3>1. PICK next \in Acked(k) :
            /\ At(c, "write") /\ k.m.kind = "ack" /\ AckMatches(k) /\ result' = AfterAck(k, next)
      BY <2>1, <2>4 DEF WriteAck, AfterAck
    <3>2. /\ k \in Working /\ k.pc = "write" /\ RequestOK(k) /\ k.m.protocol \in Protocols
      BY <3>1, AckReads, WorkingFields
    <3>3. /\ (result'.state = "confirmation_required") = (result'.spec # 0)
          /\ result'.spec = k.draft.spec /\ result'.state = k.draft.state
      BY <2>1, <3>1, AckSidecar
    <3>4. k.m.answerNow /\ k.m.outcome = "verdict"
      BY <3>2, <3>3 DEF RequestOK, DraftOK, NoResult
    <3>5. k.m.protocol = 2 => k.draft.spec = k.m.context
      BY <3>2, <3>3, <3>4 DEF RequestOK, DraftOK
    <3>6. BoundToSnapshot(k)
      BY <3>1 DEF AckMatches
    <3> QED
      BY <3>2, <3>3, <3>5, <3>6 DEF BoundToSnapshot, Protocols
  <2>5. CASE Settle(c)
    <3>1. At(c, "settle") /\ SettleMatches(k) /\ result' = SettledResult(k)
      BY <2>1, <2>5 DEF Settle
    <3> QED
      BY <2>1, <3>1, SettleSidecar
  <2>6. CASE Clarify(c)
    <3>1. At(c, "batch") /\ Continues(k) /\ result' = Retriaged(k)
      BY <2>1, <2>6 DEF Clarify
    <3> QED
      BY <3>1, ClarifyRow
  <2> QED
    BY <2>3, <2>4, <2>5, <2>6
<1> QED
  BY <1>1, TriageInvariant, PTL DEF Spec, ProposalIsCurrent

\* A question never waits for a job that is not there: the admission of the job
\* and the verdict that queues the question are one batch.
THEOREM QueuedWithJob == Spec => QueuedBehindJob
<1>1. IInv /\ [Next]_vars =>
        [row'.status = "queued" /\ row.status # "queued"
           => job' \notin {"none", "tombstone"}]_vars
  <2> SUFFICES ASSUME IInv, [Next]_vars, row'.status = "queued", row.status # "queued"
               PROVE  job' \notin {"none", "tombstone"}
    OBVIOUS
  <2>1. row' # row
    OBVIOUS
  <2>2. Admission(row')
    BY <2>1, RowChanged
  <2> QED
    BY <2>2 DEF Admission
<1> QED
  BY <1>1, TriageInvariant, PTL DEF Spec, QueuedBehindJob

=============================================================================
