---------------------- MODULE ExplorationBridge_proofs ----------------------
(***************************************************************************)
(* Theorems about the job bridge, for every number of jobs, services,      *)
(* operation ids, requests and sweeps in flight and for every value of the *)
(* time constants.                                                         *)
(***************************************************************************)
EXTENDS ExplorationBridge, TLAPS

-----------------------------------------------------------------------------
(* Typing of the rows and records the handlers write. *)

LEMMA ConstantsType ==
  /\ LeaseSeconds \in Nat \ {0}
  /\ FirstBackoff \in Nat \ {0}
  /\ LaterBackoff \in Nat \ {0}
  /\ RetryWindow \in Nat \ {0}
  /\ TombstoneWindow \in Nat \ {0}
  /\ MaxAttempts \in Nat \ {0}
BY TimesAssumption

\* A slot that is not idle holds a request, or a sweep.
LEMMA InFlight ==
  ASSUME TypeOK
  PROVE  /\ \A c \in Calls : calls[c].pc # "idle" => calls[c] \in Request
         /\ \A s \in Sweepers : sweeps[s].pc # "idle" => sweeps[s] \in Sweep
BY DEF TypeOK, Idle

LEMMA NoRowType == NoRow \in Row
BY ConstantsType DEF NoRow, Row, Failures

LEMMA AdmittedType ==
  ASSUME NEW t \in Nat
  PROVE  Admitted(t) \in Row
BY NoRowType DEF Admitted, Row, NoRow, Failures

LEMMA RunningType ==
  ASSUME NEW row \in Row, NEW service \in Services, NEW lease \in Nat, NEW now \in Nat,
         row.attempt < MaxAttempts
  PROVE  Running(row, service, lease, now) \in Row
BY ConstantsType DEF Running, Row, Failures

LEMMA RequeuedType ==
  ASSUME NEW row \in Row
  PROVE  Requeued(row) \in Row
BY DEF Requeued, Row, Failures

LEMMA PublishedType ==
  ASSUME NEW row \in Row
  PROVE  Published(row) \in Row
BY DEF Published, Ended, Row, Failures

\* The trigger's bounds on the retry time are what makes it a time at all.
LEMMA FailedType ==
  ASSUME NEW row \in Row, NEW old \in Row, NEW reason \in Failures, NEW now \in Nat,
         TransitionAllowed(old, Stored(old, Failed(row, reason, now)))
  PROVE  Stored(old, Failed(row, reason, now)) \in Row
<1>1. CASE row.attempt >= MaxAttempts
  BY <1>1 DEF Stored, Failed, Ended, Row, Failures
<1>2. CASE ~ row.attempt >= MaxAttempts
  <2> DEFINE retry == Earlier(now + Backoff(row.attempt),
                              row.expires - LeaseSeconds + RetryWindow)
  <2>1. retry \in Int
    BY ConstantsType DEF Row, Earlier, Backoff
  <2>2. Failed(row, reason, now) = Ended(row, "failed", retry, reason)
    BY <1>2 DEF Failed
  <2> HIDE DEF retry
  <2>3. retry = 0 \/ retry > old.claimed
    BY <2>2 DEF TransitionAllowed, Stored, Ended
  <2>4. retry \in Nat
    BY <2>1, <2>3 DEF Row
  <2> QED
    BY <2>2, <2>4 DEF Stored, Ended, Row
<1> QED
  BY <1>1, <1>2

\* A row let through by the triggers is well formed once stored.
LEMMA ClaimRowType ==
  ASSUME TypeOK, AttemptLeft, NEW c \in Calls, calls[c].pc = "commit",
         Accepted(calls[c].job, NextRow(calls[c]))
  PROVE  Stored(jobs[calls[c].job], NextRow(calls[c])) \in Row
<1> DEFINE call == calls[c]
           old == jobs[call.job]
<1>1. call \in Request /\ call # Idle
  BY InFlight DEF Idle
<1>2. old \in Row /\ call.seen \in Row /\ call.now \in Nat /\ call.service \in Services
  BY <1>1 DEF TypeOK, Request
<1>3. TransitionAllowed(old, Stored(old, NextRow(call)))
  BY DEF Accepted
<1>4. CASE call.type = "claim"
  <2>1. NextRow(call) = Running(call.seen, call.service, issued + 1, call.now)
    BY <1>4 DEF NextRow
  <2>2. Stored(old, NextRow(call)) = NextRow(call)
    BY <2>1 DEF Stored, Running
  <2>3. call.seen.attempt + 1 <= MaxAttempts
    BY <1>3, <2>1, <2>2 DEF TransitionAllowed, Running
  <2>4. call.seen.attempt < MaxAttempts /\ issued + 1 \in Nat
    BY <1>2, <2>3, ConstantsType DEF Row, TypeOK
  <2> QED
    BY <1>2, <2>1, <2>2, <2>4, RunningType
<1>5. CASE call.type = "ack" /\ call.outcome # "published"
  <2>1. NextRow(call) = Failed(call.seen, "reported", call.now)
    BY <1>5 DEF NextRow
  <2> QED
    BY <1>2, <1>3, <2>1, FailedType DEF Failures
<1>6. CASE call.type = "ack" /\ call.outcome = "published"
  <2>1. NextRow(call) = Published(call.seen)
    BY <1>6 DEF NextRow
  <2> QED
    BY <1>2, <2>1 DEF Stored, Published, Ended, Row, Failures
<1> QED
  BY <1>1, <1>4, <1>5, <1>6 DEF Request

LEMMA SweptRowType ==
  ASSUME TypeOK, NEW s \in Sweepers, sweeps[s].pc = "move", NEW r \in sweeps[s].batch,
         Accepted(r.job, Moved(sweeps[s], r))
  PROVE  Stored(jobs[r.job], Moved(sweeps[s], r)) \in Row
<1> DEFINE old == jobs[r.job]
<1>1. sweeps[s] \in Sweep
  BY InFlight
<1>2. r.job \in Jobs /\ r.row \in Row /\ sweeps[s].now \in Nat
  BY <1>1 DEF Sweep
<1>3. old \in Row
  BY <1>2 DEF TypeOK
<1>4. TransitionAllowed(old, Stored(old, Moved(sweeps[s], r)))
  BY DEF Accepted
<1>5. CASE sweeps[s].kind = "expired"
  <2>1. Moved(sweeps[s], r) = Failed(r.row, "lease_expired", sweeps[s].now)
    BY <1>5 DEF Moved
  <2> QED
    BY <1>2, <1>3, <1>4, <2>1, FailedType DEF Failures
<1>6. CASE sweeps[s].kind # "expired"
  <2>1. Moved(sweeps[s], r) = Requeued(r.row)
    BY <1>6 DEF Moved
  <2> QED
    BY <1>2, <2>1, RequeuedType DEF Stored, Requeued
<1> QED
  BY <1>5, <1>6

LEMMA CollectType ==
  ASSUME TypeOK, NEW doomed, Collect(doomed)
  PROVE  jobs' \in [Jobs -> Row] /\ tombstones' \in [Jobs -> Nat]
BY NoRowType DEF Collect, TypeOK

LEMMA WriteType ==
  ASSUME TypeOK, NEW j \in Jobs, NEW new, Stored(jobs[j], new) \in Row, Write(j, new)
  PROVE  jobs' \in [Jobs -> Row] /\ tombstones' \in [Jobs -> Nat]
<1>1. CASE Collectable(refs[j], Stored(jobs[j], new))
  <2>1. Collect({j})
    BY <1>1 DEF Write
  <2> QED
    BY <2>1, CollectType
<1>2. CASE ~ Collectable(refs[j], Stored(jobs[j], new))
  BY <1>2 DEF Write, TypeOK
<1> QED
  BY <1>1, <1>2

-----------------------------------------------------------------------------
(* Type correctness. *)

Typing == TypeOK /\ AttemptLeft

LEMMA TypingInit == Init => Typing
<1> SUFFICES ASSUME Init PROVE Typing
  OBVIOUS
<1>1. jobs \in [Jobs -> Row]
  BY NoRowType DEF Init
<1>2. TypeOK
  BY <1>1 DEF Init, TypeOK
<1>3. AttemptLeft
  BY DEF Init, AttemptLeft, Claims
<1> QED
  BY <1>2, <1>3 DEF Typing

\* Steps that touch only the reads of a request preserve typing.
LEMMA CallTyping ==
  ASSUME Typing, NEW c \in Calls, NEW call,
         call = Idle \/ (call \in Request /\ (call.type = "claim" => call.attempt < MaxAttempts)),
         calls' = [calls EXCEPT ![c] = call],
         UNCHANGED <<clock, jobs, refs, tombstones, operations, evidence, sweeps, issued>>
  PROVE  Typing'
BY DEF Typing, TypeOK, AttemptLeft, Claims, Idle

LEMMA SweepTyping ==
  ASSUME Typing, NEW s \in Sweepers, NEW sweep \in Sweep \cup {Idle},
         sweeps' = [sweeps EXCEPT ![s] = sweep],
         UNCHANGED <<clock, jobs, refs, tombstones, operations, evidence, calls, issued>>
  PROVE  Typing'
BY DEF Typing, TypeOK, AttemptLeft, Claims

LEMMA EnvironmentTyping == Typing /\ Environment => Typing'
<1> SUFFICES ASSUME Typing, Environment PROVE Typing'
  OBVIOUS
<1> USE DEF Typing
<1>1. CASE Tick
  BY <1>1 DEF Tick, TypeOK, AttemptLeft, Claims
<1>2. ASSUME NEW j \in Jobs, Admit(j) PROVE Typing'
  <2>1. Admitted(clock) \in Row
    BY AdmittedType DEF TypeOK
  <2> QED
    BY <1>2, <2>1 DEF Admit, TypeOK, AttemptLeft, Claims
<1>3. ASSUME NEW j \in Jobs, DropLink(j) PROVE Typing'
  <2>1. jobs' \in [Jobs -> Row] /\ tombstones' \in [Jobs -> Nat]
    BY <1>3, CollectType DEF DropLink
  <2> QED
    BY <1>3, <2>1 DEF DropLink, TypeOK, AttemptLeft, Claims
<1>4. ASSUME NEW j \in Jobs, ExpireQuestion(j) PROVE Typing'
  BY <1>4 DEF ExpireQuestion, TypeOK, AttemptLeft, Claims
<1>5. ASSUME NEW j \in Jobs, LoadEvidence(j) PROVE Typing'
  BY <1>5 DEF LoadEvidence, TypeOK, AttemptLeft, Claims
<1>6. CASE CollectOrphans
  <2>1. jobs' \in [Jobs -> Row] /\ tombstones' \in [Jobs -> Nat]
    BY <1>6, CollectType DEF CollectOrphans
  <2> QED
    BY <1>6, <2>1 DEF CollectOrphans, TypeOK, AttemptLeft, Claims
<1>7. CASE PurgeTombstones
  BY <1>7 DEF PurgeTombstones, TypeOK, AttemptLeft, Claims
<1> QED
  BY <1>1, <1>2, <1>3, <1>4, <1>5, <1>6, <1>7 DEF Environment

LEMMA ArriveTyping ==
  ASSUME Typing, NEW c \in Calls, Arrive(c)
  PROVE  Typing'
<1> USE DEF Typing
<1>1. ASSUME NEW service \in Services, NEW op \in OpIds, NEW j \in Jobs,
             NEW attempt \in 0..(MaxAttempts - 1), ArriveClaim(c, service, op, j, attempt)
      PROVE  Typing'
  <2> DEFINE call == [pc |-> "read", type |-> "claim", service |-> service, op |-> op,
                      job |-> j, attempt |-> attempt, lease |-> 0, outcome |-> "none",
                      now |-> clock, seen |-> NoRow]
  <2>1. call \in Request /\ call.attempt < MaxAttempts
    BY NoRowType, ConstantsType DEF Request, TypeOK
  <2> QED
    BY <1>1, <2>1, CallTyping DEF ArriveClaim
<1>2. ASSUME NEW service \in Services, NEW op \in OpIds, NEW j \in Jobs,
             NEW attempt \in 1..MaxAttempts, NEW grant \in Claims,
             NEW outcome \in {"reported", "published"},
             ArriveAck(c, service, op, j, attempt, grant.lease, outcome)
      PROVE  Typing'
  <2> DEFINE call == [pc |-> "read", type |-> "ack", service |-> service, op |-> op,
                      job |-> j, attempt |-> attempt,
                      lease |-> grant.lease, outcome |-> outcome,
                      now |-> clock, seen |-> NoRow]
  <2>1. grant \in Operation
    BY DEF Claims, TypeOK
  <2>2. attempt \in 0..MaxAttempts /\ grant.lease \in Nat
    BY <2>1, ConstantsType DEF Operation
  <2>3. call \in Request
    BY <2>2, NoRowType DEF Request, TypeOK
  <2> QED
    BY <1>2, <2>3, CallTyping DEF ArriveAck
<1> QED
  BY <1>1, <1>2 DEF Arrive

\* The next state of a read, a verification or an abandonment is idle or a request.
LEMMA HandleTyping ==
  ASSUME Typing, NEW c \in Calls, Handle(c)
  PROVE  Typing'
<1> USE DEF Typing
<1> DEFINE call == calls[c]
<1>1. call.pc # "idle" => call \in Request /\ call # Idle
  BY InFlight DEF Idle
<1>2. call.pc # "idle" /\ call.type = "claim" => call.attempt < MaxAttempts
  BY <1>1 DEF AttemptLeft
<1>3. CASE ReadJob(c)
  <2> DEFINE row == jobs[call.job]
             next == CASE call.type = "claim" /\ Claimable(call, row) ->
                            [call EXCEPT !.pc = "commit", !.seen = row]
                       [] call.type = "ack" /\ Holds(call, row) ->
                            [call EXCEPT !.pc = IF call.outcome = "published"
                                                THEN "verify" ELSE "commit",
                                         !.seen = row]
                       [] OTHER -> Idle
  <2>1. call \in Request /\ row \in Row
    BY <1>1, <1>3 DEF ReadJob, Request, TypeOK
  <2>2. ASSUME NEW pc \in {"verify", "commit"}
        PROVE  /\ [call EXCEPT !.pc = pc, !.seen = row] \in Request
               /\ [call EXCEPT !.pc = pc, !.seen = row].type = call.type
               /\ [call EXCEPT !.pc = pc, !.seen = row].attempt = call.attempt
    BY <2>1 DEF Request
  <2>3. next = Idle \/ (next \in Request /\ next.type = call.type /\ next.attempt = call.attempt)
    BY <2>1, <2>2 DEF Request
  <2> HIDE DEF next
  <2>4. next = Idle \/ (next \in Request /\ (next.type = "claim" => next.attempt < MaxAttempts))
    BY <1>2, <1>3, <2>3 DEF ReadJob
  <2>5. /\ calls' = [calls EXCEPT ![c] = next]
        /\ UNCHANGED <<clock, jobs, refs, tombstones, operations, evidence, sweeps, issued>>
    BY <1>3 DEF ReadJob, next
  <2> QED
    BY <2>4, <2>5, CallTyping
<1>4. CASE VerifyPublication(c)
  <2> DEFINE next == IF call.job \in evidence THEN [call EXCEPT !.pc = "commit"] ELSE Idle
  <2>1. call \in Request
    BY <1>1, <1>4 DEF VerifyPublication
  <2>2. next = Idle \/ (next \in Request /\ (next.type = "claim" => next.attempt < MaxAttempts))
    BY <1>2, <1>4, <2>1 DEF VerifyPublication, Request
  <2> QED
    BY <1>4, <2>2, CallTyping DEF VerifyPublication
<1>5. CASE CommitWins(c)
  <2>1. call \in Request /\ call.pc = "commit" /\ Accepted(call.job, NextRow(call))
    BY <1>1, <1>5 DEF CommitWins, Commits, Lands
  <2>2. Stored(jobs[call.job], NextRow(call)) \in Row
    BY <2>1, ClaimRowType
  <2>3. call.job \in Jobs
    BY <2>1 DEF Request
  <2>4. jobs' \in [Jobs -> Row] /\ tombstones' \in [Jobs -> Nat]
    BY <1>5, <2>2, <2>3, WriteType DEF CommitWins
  <2>5. RecordOf(call) \in Operation /\ RecordOf(call).type = call.type
                                     /\ RecordOf(call).attempt = call.attempt
    BY <2>1, ConstantsType DEF RecordOf, Request, Operation, TypeOK
  <2>6. TypeOK'
    BY <1>5, <2>4, <2>5 DEF CommitWins, TypeOK
  <2>7. AttemptLeft'
    BY <1>2, <1>5, <2>1, <2>5 DEF CommitWins, AttemptLeft, Claims, TypeOK, Idle
  <2> QED
    BY <2>6, <2>7
<1>6. CASE CommitLoses(c)
  BY <1>6, CallTyping DEF CommitLoses
<1> QED
  BY <1>3, <1>4, <1>5, <1>6 DEF Handle

LEMMA SweepStepTyping ==
  ASSUME Typing, NEW s \in Sweepers, SweepStep(s)
  PROVE  Typing'
<1> USE DEF Typing
<1>1. ASSUME NEW kind \in {"expired", "due"}, StartSweep(s, kind) PROVE Typing'
  <2>1. [pc |-> "list", kind |-> kind, now |-> clock, batch |-> {}] \in Sweep
    BY DEF Sweep, TypeOK
  <2> QED
    BY <1>1, <2>1, SweepTyping DEF StartSweep
<1>2. CASE ListRows(s)
  <2>1. sweeps[s] \in Sweep
    BY <1>2, InFlight DEF ListRows
  <2>2. PICK page \in SUBSET Listed(sweeps[s].kind, sweeps[s].now) :
          sweeps' = [sweeps EXCEPT ![s] =
            IF page = {} THEN Idle ELSE [sweeps[s] EXCEPT !.pc = "move", !.batch = page]]
    BY <1>2 DEF ListRows
  <2>3. page \subseteq [job: Jobs, row: Row]
    BY DEF Listed, TypeOK
  <2>4. [sweeps[s] EXCEPT !.pc = "move", !.batch = page] \in Sweep
    BY <2>1, <2>3 DEF Sweep
  <2> QED
    BY <1>2, <2>2, <2>4, SweepTyping DEF ListRows
<1>3. ASSUME NEW r \in sweeps[s].batch, sweeps[s].pc = "move"
      PROVE  (IF sweeps[s].batch \ {r} = {} THEN Idle
              ELSE [sweeps[s] EXCEPT !.batch = sweeps[s].batch \ {r}]) \in Sweep \cup {Idle}
  BY <1>3, InFlight DEF Sweep
<1>4. CASE MoveRows(s)
  <2>1. PICK r \in sweeps[s].batch : MoveRow(s, r)
    BY <1>4 DEF MoveRows
  <2>2. sweeps[s].pc = "move" /\ sweeps[s] \in Sweep /\ r.job \in Jobs
    BY <1>4, InFlight DEF MoveRows, Sweep
  <2>3. Stored(jobs[r.job], Moved(sweeps[s], r)) \in Row
    BY <2>1, <2>2, SweptRowType DEF MoveRow, Lands
  <2>4. jobs' \in [Jobs -> Row] /\ tombstones' \in [Jobs -> Nat]
    BY <2>1, <2>2, <2>3, WriteType DEF MoveRow
  <2>5. sweeps' \in [Sweepers -> Sweep \cup {Idle}]
    BY <1>3, <2>1, <2>2 DEF MoveRow, Done, TypeOK
  <2> QED
    BY <2>1, <2>4, <2>5 DEF MoveRow, TypeOK, AttemptLeft, Claims
<1>5. CASE SkipRows(s)
  <2>1. PICK r \in sweeps[s].batch : SkipRow(s, r)
    BY <1>5 DEF SkipRows
  <2> QED
    BY <1>3, <1>5, <2>1, SweepTyping DEF SkipRows, SkipRow, Done
<1>6. CASE AbandonSweep(s)
  BY <1>6, SweepTyping DEF AbandonSweep
<1> QED
  BY <1>1, <1>2, <1>4, <1>5, <1>6 DEF SweepStep

LEMMA TypingNext == Typing /\ [Next]_vars => Typing'
<1> SUFFICES ASSUME Typing, [Next]_vars PROVE Typing'
  OBVIOUS
<1>1. CASE Environment
  BY <1>1, EnvironmentTyping
<1>2. CASE Served
  <2>1. ASSUME NEW c \in Calls, Abandon(c) PROVE Typing'
    BY <2>1, CallTyping DEF Abandon
  <2> QED
    BY <1>2, <2>1, ArriveTyping, HandleTyping DEF Served
<1>3. CASE \E s \in Sweepers : SweepStep(s)
  BY <1>3, SweepStepTyping
<1>4. CASE UNCHANGED vars
  BY <1>4 DEF vars, Typing, TypeOK, AttemptLeft, Claims
<1> QED
  BY <1>1, <1>2, <1>3, <1>4 DEF Next

\* Every row, record and snapshot is well formed in every reachable state: in
\* particular no operation ever names an attempt beyond the last one, and every
\* retry time the handlers compute is a time.
THEOREM TypeCorrect == Spec => []TypeOK
<1>1. Spec => []Typing
  BY TypingInit, TypingNext, PTL DEF Spec
<1> QED
  BY <1>1, PTL DEF Typing

-----------------------------------------------------------------------------
(* Snapshots stay coherent: the revision and the admission time identify a row. *)

\* What one step may do to a job's row at time t: nothing, a new revision, a
\* removal that leaves a retained tombstone, or a fresh admission.
RowStep(old, wasRetained, new, isRetained, t) ==
  \/ new = old /\ (wasRetained => isRetained)
  \/ /\ old.status # "absent" /\ new.status # "absent"
     /\ new.admitted = old.admitted /\ new.rev = old.rev + 1
  \/ new.status = "absent" /\ isRetained
  \/ /\ old.status = "absent" /\ ~ wasRetained
     /\ new.status # "absent" /\ new.admitted = t

LEMMA RowStepCoherent ==
  ASSUME NEW row \in Row, NEW old \in Row, NEW new \in Row, NEW t \in Nat,
         NEW wasRetained \in BOOLEAN, NEW isRetained \in BOOLEAN,
         Coherent(row, old, t, wasRetained),
         RowStep(old, wasRetained, new, isRetained, t)
  PROVE  Coherent(row, new, t, isRetained)
BY DEF Coherent, RowStep, Row

\* Two rows with one revision and one admission time are one row.
LEMMA MatchIsCurrent ==
  ASSUME TypeOK, NEW j \in Jobs, NEW row \in Row, CoherentNow(j, row), Matches(j, row)
  PROVE  jobs[j] = row
BY DEF TypeOK, Coherent, CoherentNow, Matches, Row

LEMMA RetainedType == \A j : Retained(j) \in BOOLEAN
BY DEF Retained

\* A step that does not move the clock keeps every snapshot coherent that was
\* coherent, or was taken, before it.
LEMMA CoherencePreserved ==
  ASSUME TypeOK, TypeOK', clock' = clock, SnapshotsCoherent,
         \A j \in Jobs : RowStep(jobs[j], Retained(j), jobs'[j], Retained(j)', clock),
         \A c \in Calls : calls'[c].pc \in {"verify", "commit"} =>
           CoherentNow(calls'[c].job, calls'[c].seen),
         \A s \in Sweepers : sweeps'[s].pc = "move" =>
           \A r \in sweeps'[s].batch : CoherentNow(r.job, r.row)
  PROVE  SnapshotsCoherent'
<1>1. ASSUME NEW j \in Jobs, NEW row \in Row, CoherentNow(j, row)
      PROVE  Coherent(row, jobs'[j], clock, Retained(j)')
  <2>1. Retained(j) \in BOOLEAN /\ Retained(j)' \in BOOLEAN
    BY RetainedType DEF Retained
  <2>2. jobs[j] \in Row /\ jobs'[j] \in Row /\ clock \in Nat
    BY DEF TypeOK
  <2> QED
    BY <1>1, <2>1, <2>2, RowStepCoherent DEF CoherentNow
<1>2. \A j \in Jobs : jobs'[j].status # "absent" => jobs'[j].admitted <= clock'
  BY DEF SnapshotsCoherent, RowStep, TypeOK, Row
<1>3. ASSUME NEW c \in Calls, calls'[c].pc \in {"verify", "commit"}
      PROVE  CoherentNow(calls[c].job, calls[c].seen)'
  <2>1. calls'[c].job \in Jobs /\ calls'[c].seen \in Row
    BY <1>3 DEF TypeOK, Request, Idle
  <2> QED
    BY <1>1, <1>3, <2>1 DEF CoherentNow
<1>4. ASSUME NEW s \in Sweepers, sweeps'[s].pc = "move", NEW r \in sweeps'[s].batch
      PROVE  Coherent(r.row, jobs'[r.job], clock', Retained(r.job)')
  <2>1. r.job \in Jobs /\ r.row \in Row
    BY <1>4 DEF TypeOK, Sweep, Idle
  <2> QED
    BY <1>1, <1>4, <2>1
<1> QED
  BY <1>2, <1>3, <1>4 DEF SnapshotsCoherent, CoherentNow

\* Collections and updates are row steps.
LEMMA CollectSteps ==
  ASSUME TypeOK, NEW doomed, Collect(doomed), clock' = clock
  PROVE  \A j \in Jobs : RowStep(jobs[j], Retained(j), jobs'[j], Retained(j)', clock)
<1> SUFFICES ASSUME NEW j \in Jobs
             PROVE  RowStep(jobs[j], Retained(j), jobs'[j], Retained(j)', clock)
  OBVIOUS
<1>1. CASE j \in doomed
  <2>1. jobs'[j].status = "absent" /\ tombstones'[j] = clock
    BY <1>1 DEF Collect, NoRow
  <2>2. Retained(j)'
    BY <2>1, ConstantsType DEF Retained, TypeOK
  <2> QED
    BY <2>1, <2>2 DEF RowStep
<1>2. CASE j \notin doomed
  BY <1>2 DEF Collect, RowStep, Retained
<1> QED
  BY <1>1, <1>2

LEMMA WriteSteps ==
  ASSUME TypeOK, NEW k \in Jobs, NEW new, Accepted(k, new), jobs[k].status # "absent",
         Write(k, new), clock' = clock
  PROVE  \A j \in Jobs : RowStep(jobs[j], Retained(j), jobs'[j], Retained(j)', clock)
<1> DEFINE row == Stored(jobs[k], new)
<1>1. CASE Collectable(refs[k], row)
  BY <1>1, CollectSteps DEF Write
<1>2. CASE ~ Collectable(refs[k], row)
  <2>1. /\ row.rev = jobs[k].rev + 1 /\ row.admitted = jobs[k].admitted
        /\ row.status # "absent"
    BY DEF Accepted, TransitionAllowed
  <2>2. jobs' = [jobs EXCEPT ![k] = row] /\ tombstones' = tombstones
    BY <1>2 DEF Write
  <2> HIDE DEF row
  <2>3. \A j \in Jobs : Retained(j)' = Retained(j)
    BY <2>2 DEF Retained
  <2> QED
    BY <2>1, <2>2, <2>3 DEF RowStep, TypeOK
<1> QED
  BY <1>1, <1>2

-----------------------------------------------------------------------------
(* Leases. *)

LeasesOK == LeasesGranted /\ LiveLeaseHonoured /\ SettledOnceByHolder /\ OperationAppliedOnce

\* A step that records no operation keeps the leases' promises if the rows it
\* takes out of running were not held by a live lease.
LEMMA LeasesPreserved ==
  ASSUME TypeOK, TypeOK', LeasesOK, UNCHANGED <<operations, issued>>, clock' >= clock,
         \A j \in Jobs : \/ jobs'[j] = jobs[j]
                         \/ jobs'[j].status # "running" /\ ~ LeaseLive(jobs[j])
  PROVE  LeasesOK'
<1>1. Claims' = Claims /\ Acks' = Acks /\ \A l : Settled(l)' = Settled(l)
  BY DEF Claims, Acks, Settled
<1>2. LeasesGranted'
  BY <1>1 DEF LeasesOK, LeasesGranted
<1>3. LiveLeaseHonoured'
  <2> SUFFICES ASSUME NEW o \in Claims, o.expires > clock', ~ Settled(o.lease)
               PROVE  jobs'[o.job] = jobs[o.job] /\ o.expires > clock
    BY <1>1 DEF LeasesOK, LiveLeaseHonoured
  <2>1. o \in Operation
    BY DEF Claims, TypeOK
  <2>2. o.expires > clock /\ o.job \in Jobs
    BY <2>1 DEF Operation, TypeOK
  <2>3. LeaseLive(jobs[o.job])
    BY <2>2 DEF LeaseLive, LeasesOK, LiveLeaseHonoured
  <2> QED
    BY <2>2, <2>3
<1>4. SettledOnceByHolder' /\ OperationAppliedOnce'
  BY <1>1 DEF LeasesOK, SettledOnceByHolder, OperationAppliedOnce
<1> QED
  BY <1>2, <1>3, <1>4 DEF LeasesOK

LEMMA WriteEffect ==
  ASSUME TypeOK, NEW k \in Jobs, NEW new, Write(k, new)
  PROVE  /\ \A j \in Jobs : j # k => jobs'[j] = jobs[j]
         /\ \/ jobs'[k] = Stored(jobs[k], new)
            \/ jobs'[k] = NoRow /\ ~ LeaseLive(Stored(jobs[k], new))
<1> DEFINE row == Stored(jobs[k], new)
<1>1. CASE Collectable(refs[k], row)
  <2>1. Collect({k}) /\ ~ LeaseLive(row)
    BY <1>1 DEF Write, Collectable
  <2> HIDE DEF row
  <2>2. \A j \in Jobs : jobs'[j] = IF j \in {k} THEN NoRow ELSE jobs[j]
    BY <2>1 DEF Collect
  <2>3. jobs'[k] = NoRow /\ \A j \in Jobs : j # k => jobs'[j] = jobs[j]
    BY <2>2
  <2> QED
    BY <2>1, <2>3 DEF row
<1>2. CASE ~ Collectable(refs[k], row)
  <2>1. jobs' = [jobs EXCEPT ![k] = row]
    BY <1>2 DEF Write
  <2> HIDE DEF row
  <2>2. jobs'[k] = row /\ \A j \in Jobs : j # k => jobs'[j] = jobs[j]
    BY <2>1 DEF TypeOK
  <2> QED
    BY <2>2 DEF row
<1> QED
  BY <1>1, <1>2

LEMMA ClaimLeases ==
  ASSUME TypeOK, TypeOK', LeasesOK, SnapshotsGuarded,
         NEW c \in Calls, CommitWins(c), calls[c].type = "claim"
  PROVE  LeasesOK'
<1> DEFINE call == calls[c]
           k == call.job
           row == Running(call.seen, call.service, issued + 1, call.now)
           rec == RecordOf(call)
<1>1. call \in Request /\ call.pc = "commit" /\ ~ Recorded("claim", call.service, call.op)
  BY InFlight DEF CommitWins, Commits
<1>2. /\ k \in Jobs /\ call.seen \in Row /\ call.now \in Nat /\ issued \in Nat
      /\ jobs[k] \in Row /\ clock \in Nat
  BY <1>1 DEF Request, TypeOK
<1>3. NextRow(call) = row /\ Stored(jobs[k], row) = row
  BY DEF NextRow, Stored, Running
<1>4. Accepted(k, row) /\ Write(k, row)
  BY <1>3 DEF CommitWins, Commits, Lands
<1>5. jobs[k].status = "queued"
  BY <1>3, <1>4 DEF Accepted, TransitionAllowed, Running
<1>6. /\ rec.type = "claim" /\ rec.service = call.service /\ rec.op = call.op /\ rec.job = k
      /\ rec.attempt = call.attempt /\ rec.lease = issued + 1
      /\ rec.expires = call.now + LeaseSeconds
  BY DEF RecordOf
<1>7. /\ row.status = "running" /\ row.lease = rec.lease /\ row.owner = rec.service
      /\ row.attempt = rec.attempt + 1 /\ row.expires = rec.expires
  BY <1>1, <1>6 DEF Running, SnapshotsGuarded
<1>8. /\ operations' = operations \cup {rec} /\ issued' = issued + 1 /\ clock' = clock
  BY DEF CommitWins
<1>9. /\ \A j \in Jobs : j # k => jobs'[j] = jobs[j]
      /\ jobs'[k] = row \/ (jobs'[k] = NoRow /\ ~ LeaseLive(row))
  <2> DEFINE put == Stored(jobs[k], row)
  <2>1. put = row
    BY <1>3
  <2>2. /\ \A j \in Jobs : j # k => jobs'[j] = jobs[j]
        /\ jobs'[k] = put \/ (jobs'[k] = NoRow /\ ~ LeaseLive(put))
    <3> HIDE DEF k, row
    <3>1. k \in Jobs /\ Write(k, row)
      BY <1>2, <1>4
    <3> QED
      BY <3>1, WriteEffect
  <2> HIDE DEF put, row
  <2> QED
    BY <2>1, <2>2
<1> NoRow.status = "absent"
  BY DEF NoRow
<1> HIDE DEF rec, row
<1>10. Acks' = Acks /\ Claims' = Claims \cup {rec} /\ \A l : Settled(l)' = Settled(l)
  BY <1>6, <1>8 DEF Acks, Claims, Settled
<1>11. \A o \in operations : o.lease \in 1..issued
  BY DEF LeasesOK, LeasesGranted
<1>12. ~ Settled(issued + 1)
  BY <1>2, <1>11 DEF Settled, Acks
<1>13. LeasesGranted'
  <2>1. \A o \in operations' : o.lease \in 1..issued'
    BY <1>2, <1>6, <1>8, <1>11
  <2>2. \A o, p \in Claims' : o.lease = p.lease => o = p
    BY <1>2, <1>6, <1>10, <1>11 DEF LeasesOK, LeasesGranted, Claims
  <2>3. ASSUME NEW j \in Jobs, jobs'[j].status = "running"
        PROVE  /\ ~ Settled(jobs'[j].lease)
               /\ \E o \in Claims' : /\ o.lease = jobs'[j].lease /\ o.service = jobs'[j].owner
                                     /\ o.job = j /\ o.attempt + 1 = jobs'[j].attempt
    <3>1. CASE j = k
      BY <1>6, <1>7, <1>9, <1>10, <1>12, <2>3, <3>1
    <3>2. CASE j # k
      BY <1>9, <1>10, <2>3, <3>2 DEF LeasesOK, LeasesGranted
    <3> QED
      BY <3>1, <3>2
  <2> QED
    BY <1>10, <2>1, <2>2, <2>3 DEF LeasesGranted
<1>14. LiveLeaseHonoured'
  <2> SUFFICES ASSUME NEW o \in Claims', o.expires > clock, ~ Settled(o.lease)
               PROVE  /\ jobs'[o.job].status = "running"
                      /\ jobs'[o.job].lease = o.lease
                      /\ jobs'[o.job].owner = o.service
                      /\ jobs'[o.job].attempt = o.attempt + 1
                      /\ jobs'[o.job].expires = o.expires
    BY <1>8, <1>10 DEF LiveLeaseHonoured
  <2>1. CASE o = rec
    BY <1>6, <1>7, <1>9, <2>1 DEF LeaseLive
  <2>2. CASE o \in Claims
    <3>1. o.job \in Jobs /\ o.job # k
      BY <1>5, <2>2 DEF Claims, TypeOK, Operation, LeasesOK, LiveLeaseHonoured
    <3> QED
      BY <1>9, <2>2, <3>1 DEF LeasesOK, LiveLeaseHonoured
  <2> QED
    BY <1>10, <2>1, <2>2
<1>15. SettledOnceByHolder'
  BY <1>10 DEF LeasesOK, SettledOnceByHolder
<1>16. OperationAppliedOnce'
  BY <1>1, <1>6, <1>8 DEF LeasesOK, OperationAppliedOnce, Recorded
<1> QED
  BY <1>13, <1>14, <1>15, <1>16 DEF LeasesOK

LEMMA AckLeases ==
  ASSUME TypeOK, TypeOK', LeasesOK, SnapshotsGuarded, SnapshotsCoherent,
         NEW c \in Calls, CommitWins(c), calls[c].type = "ack"
  PROVE  LeasesOK'
<1> DEFINE call == calls[c]
           k == call.job
           new == NextRow(call)
           old == jobs[k]
           rec == RecordOf(call)
<1>1. call \in Request /\ call.pc = "commit" /\ ~ Recorded("ack", call.service, call.op)
  BY InFlight DEF CommitWins, Commits
<1>2. k \in Jobs /\ call.seen \in Row /\ issued \in Nat
  BY <1>1 DEF Request, TypeOK
<1>3. Matches(k, call.seen) /\ Accepted(k, new) /\ Write(k, new)
  BY DEF CommitWins, Commits, Lands
<1>4. old = call.seen
  BY <1>1, <1>2, <1>3, MatchIsCurrent DEF SnapshotsCoherent
<1>5. /\ old.status = "running" /\ old.lease = call.lease /\ old.owner = call.service
      /\ old.attempt = call.attempt
  BY <1>1, <1>4 DEF SnapshotsGuarded
<1>6. Stored(old, new).status # "running"
  BY <1>3, <1>5 DEF Accepted, TransitionAllowed
<1>7. /\ \A j \in Jobs : j # k => jobs'[j] = jobs[j]
      /\ jobs'[k].status # "running"
  <2> HIDE DEF k, new
  <2>1. /\ \A j \in Jobs : j # k => jobs'[j] = jobs[j]
        /\ jobs'[k] = Stored(jobs[k], new) \/ jobs'[k] = NoRow
    BY <1>2, <1>3, WriteEffect
  <2> QED
    BY <1>6, <2>1 DEF NoRow
<1>8. /\ rec.type = "ack" /\ rec.service = call.service /\ rec.op = call.op /\ rec.job = k
      /\ rec.attempt = call.attempt /\ rec.lease = call.lease
  BY DEF RecordOf
<1>9. operations' = operations \cup {rec} /\ issued' = issued /\ clock' = clock
  BY DEF CommitWins
<1> HIDE DEF rec, new
<1>10. Claims' = Claims /\ Acks' = Acks \cup {rec}
  BY <1>8, <1>9 DEF Acks, Claims
<1>11. \A l : Settled(l)' <=> Settled(l) \/ l = call.lease
  BY <1>8, <1>10 DEF Settled
<1>12. PICK grant \in Claims : /\ grant.lease = call.lease /\ grant.service = call.service
                               /\ grant.job = k /\ grant.attempt + 1 = call.attempt
  BY <1>2, <1>5 DEF LeasesOK, LeasesGranted
<1>13. ~ Settled(call.lease)
  BY <1>2, <1>5 DEF LeasesOK, LeasesGranted
<1>14. LeasesGranted'
  <2>1. \A o \in operations' : o.lease \in 1..issued'
    BY <1>8, <1>9, <1>12 DEF LeasesOK, LeasesGranted, Claims
  <2>2. \A o, p \in Claims' : o.lease = p.lease => o = p
    BY <1>10 DEF LeasesOK, LeasesGranted
  <2>3. ASSUME NEW j \in Jobs, jobs'[j].status = "running"
        PROVE  /\ \A a \in Acks' : a.lease # jobs'[j].lease
               /\ \E o \in Claims' : /\ o.lease = jobs'[j].lease /\ o.service = jobs'[j].owner
                                     /\ o.job = j /\ o.attempt + 1 = jobs'[j].attempt
    <3>1. j # k /\ jobs'[j] = jobs[j]
      BY <1>7, <2>3
    <3>2. PICK o \in Claims : /\ o.lease = jobs[j].lease /\ o.service = jobs[j].owner
                              /\ o.job = j /\ o.attempt + 1 = jobs[j].attempt
      BY <2>3, <3>1 DEF LeasesOK, LeasesGranted
    <3>3. jobs[j].lease # call.lease
      BY <1>12, <3>1, <3>2 DEF LeasesOK, LeasesGranted
    <3>4. \A a \in Acks : a.lease # jobs[j].lease
      BY <2>3, <3>1 DEF LeasesOK, LeasesGranted, Settled
    <3>5. \A a \in Acks' : a.lease # jobs[j].lease
      BY <1>8, <1>10, <3>3, <3>4
    <3> QED
      BY <1>10, <3>1, <3>2, <3>5
  <2> QED
    BY <2>1, <2>2, <2>3 DEF LeasesGranted, Settled
<1>15. LiveLeaseHonoured'
  <2> SUFFICES ASSUME NEW o \in Claims, o.expires > clock, ~ Settled(o.lease),
                      o.lease # call.lease
               PROVE  /\ jobs'[o.job] = jobs[o.job]
                      /\ jobs[o.job].status = "running" /\ jobs[o.job].lease = o.lease
                      /\ jobs[o.job].owner = o.service
                      /\ jobs[o.job].attempt = o.attempt + 1
                      /\ jobs[o.job].expires = o.expires
    BY <1>9, <1>10, <1>11 DEF LiveLeaseHonoured
  <2>1. /\ jobs[o.job].status = "running" /\ jobs[o.job].lease = o.lease
        /\ jobs[o.job].owner = o.service
        /\ jobs[o.job].attempt = o.attempt + 1
        /\ jobs[o.job].expires = o.expires
    BY DEF LeasesOK, LiveLeaseHonoured
  <2>2. o.job \in Jobs /\ o.job # k
    BY <1>5, <2>1 DEF Claims, TypeOK, Operation
  <2> QED
    BY <1>7, <2>1, <2>2
<1>16. SettledOnceByHolder'
  <2>1. \A a \in Acks : a.lease # rec.lease
    BY <1>8, <1>13 DEF Settled
  <2> QED
    BY <1>8, <1>10, <1>12, <2>1 DEF LeasesOK, SettledOnceByHolder
<1>17. OperationAppliedOnce'
  BY <1>1, <1>8, <1>9 DEF LeasesOK, OperationAppliedOnce, Recorded
<1> QED
  BY <1>14, <1>15, <1>16, <1>17 DEF LeasesOK

-----------------------------------------------------------------------------
(* The inductive invariant, one lemma per group of actions. *)

Snapshots == SnapshotsCoherent /\ SnapshotsGuarded

LEMMA InvariantParts == IInv <=> Typing /\ LeasesOK /\ Snapshots
BY DEF IInv, Typing, LeasesOK, Snapshots

LEMMA StandStill ==
  ASSUME UNCHANGED <<jobs, tombstones, clock>>
  PROVE  \A j \in Jobs : RowStep(jobs[j], Retained(j), jobs'[j], Retained(j)', clock)
BY DEF RowStep, Retained

\* A row that is there is coherent with itself.
LEMMA CurrentIsCoherent ==
  ASSUME TypeOK, SnapshotsCoherent, NEW j \in Jobs, jobs[j].status # "absent"
  PROVE  CoherentNow(j, jobs[j])
BY DEF SnapshotsCoherent, CoherentNow, Coherent

\* Steps that take no snapshot keep the snapshots there are.
LEMMA OldSnapshots ==
  ASSUME TypeOK, TypeOK', Snapshots, clock' = clock,
         \A j \in Jobs : RowStep(jobs[j], Retained(j), jobs'[j], Retained(j)', clock),
         \A c \in Calls : calls'[c] = calls[c] \/ calls'[c].pc \in {"idle", "read"},
         \A s \in Sweepers :
           \/ sweeps'[s] = sweeps[s]
           \/ sweeps'[s] = Idle
           \/ /\ sweeps[s].pc = "move" /\ sweeps'[s].pc = "move"
              /\ sweeps'[s].kind = sweeps[s].kind /\ sweeps'[s].now = sweeps[s].now
              /\ sweeps'[s].batch \subseteq sweeps[s].batch
  PROVE  Snapshots'
<1>1. ASSUME NEW c \in Calls, calls'[c].pc \in {"verify", "commit"}
      PROVE  calls'[c] = calls[c]
  BY <1>1
<1>2. ASSUME NEW s \in Sweepers, sweeps'[s] # Idle
      PROVE  /\ sweeps[s] # Idle
             /\ sweeps'[s].pc = sweeps[s].pc /\ sweeps'[s].kind = sweeps[s].kind
             /\ sweeps'[s].now = sweeps[s].now
             /\ sweeps'[s].batch \subseteq sweeps[s].batch
  BY <1>2 DEF TypeOK, Sweep, Idle
<1>3. SnapshotsCoherent'
  <2>1. ASSUME NEW c \in Calls, calls'[c].pc \in {"verify", "commit"}
        PROVE  CoherentNow(calls'[c].job, calls'[c].seen)
    BY <1>1, <2>1 DEF Snapshots, SnapshotsCoherent
  <2>2. ASSUME NEW s \in Sweepers, sweeps'[s].pc = "move", NEW r \in sweeps'[s].batch
        PROVE  CoherentNow(r.job, r.row)
    BY <1>2, <2>2 DEF Snapshots, SnapshotsCoherent, Idle
  <2> QED
    BY <2>1, <2>2, CoherencePreserved DEF Snapshots
<1>4. SnapshotsGuarded'
  BY <1>1, <1>2 DEF Snapshots, SnapshotsGuarded
<1> QED
  BY <1>3, <1>4 DEF Snapshots

LEMMA TickInvariant == IInv /\ TypeOK' /\ Tick => LeasesOK' /\ Snapshots'
<1> SUFFICES ASSUME IInv, TypeOK', Tick PROVE LeasesOK' /\ Snapshots'
  OBVIOUS
<1>1. /\ clock' = clock + 1 /\ clock \in Nat
      /\ UNCHANGED <<jobs, refs, tombstones, operations, evidence, calls, sweeps, issued>>
  BY DEF Tick, IInv, TypeOK
<1>2. LeasesOK'
  BY <1>1, InvariantParts, LeasesPreserved DEF IInv
<1>3. ASSUME NEW j \in Jobs, NEW row \in Row, CoherentNow(j, row)
      PROVE  Coherent(row, jobs'[j], clock', Retained(j)')
  BY <1>1, <1>3 DEF CoherentNow, Coherent, Row, IInv, TypeOK
<1>4. SnapshotsCoherent'
  <2>1. \A j \in Jobs : jobs'[j].status # "absent" => jobs'[j].admitted <= clock'
    BY <1>1 DEF IInv, TypeOK, Row, SnapshotsCoherent
  <2>2. ASSUME NEW c \in Calls, calls'[c].pc \in {"verify", "commit"}
        PROVE  Coherent(calls'[c].seen, jobs'[calls'[c].job], clock', Retained(calls[c].job)')
    <3>1. calls[c] \in Request /\ CoherentNow(calls[c].job, calls[c].seen)
      BY <1>1, <2>2, InFlight DEF IInv, SnapshotsCoherent
    <3>2. calls[c].job \in Jobs /\ calls[c].seen \in Row
      BY <3>1 DEF Request
    <3> QED
      BY <1>1, <1>3, <3>1, <3>2
  <2>3. ASSUME NEW s \in Sweepers, sweeps'[s].pc = "move", NEW r \in sweeps'[s].batch
        PROVE  Coherent(r.row, jobs'[r.job], clock', Retained(r.job)')
    <3>1. sweeps[s] \in Sweep /\ r \in sweeps[s].batch /\ CoherentNow(r.job, r.row)
      BY <1>1, <2>3, InFlight DEF IInv, SnapshotsCoherent
    <3>2. r.job \in Jobs /\ r.row \in Row
      BY <3>1 DEF Sweep
    <3> QED
      BY <1>3, <3>1, <3>2
  <2> QED
    BY <1>1, <2>1, <2>2, <2>3 DEF SnapshotsCoherent, CoherentNow, Retained
<1>5. SnapshotsGuarded'
  BY <1>1 DEF IInv, SnapshotsGuarded, TypeOK, Sweep
<1> QED
  BY <1>2, <1>4, <1>5 DEF Snapshots

LEMMA EnvironmentInvariant == IInv /\ TypeOK' /\ Environment => LeasesOK' /\ Snapshots'
<1> SUFFICES ASSUME IInv, TypeOK', Environment PROVE LeasesOK' /\ Snapshots'
  OBVIOUS
<1>1. TypeOK /\ LeasesOK /\ Snapshots /\ clock \in Nat
  BY InvariantParts DEF Typing, TypeOK
\* Enough for a step that moves neither the clock nor a request nor a sweep.
<1>2. ASSUME UNCHANGED <<clock, operations, calls, sweeps, issued>>,
             \A j \in Jobs : RowStep(jobs[j], Retained(j), jobs'[j], Retained(j)', clock),
             \A j \in Jobs : \/ jobs'[j] = jobs[j]
                             \/ jobs'[j].status # "running" /\ ~ LeaseLive(jobs[j])
      PROVE  LeasesOK' /\ Snapshots'
  <2>1. LeasesOK'
    BY <1>1, <1>2, LeasesPreserved
  <2>2. Snapshots'
    BY <1>1, <1>2, OldSnapshots
  <2> QED
    BY <2>1, <2>2
<1>3. CASE Tick
  BY <1>3, TickInvariant
<1>4. ASSUME NEW j \in Jobs, Admit(j) PROVE LeasesOK' /\ Snapshots'
  <2>1. CASE jobs[j].status = "absent"
    <3>1. jobs' = [jobs EXCEPT ![j] = Admitted(clock)]
      BY <1>4, <2>1 DEF Admit
    <3>2. \A k \in Jobs : k # j => jobs'[k] = jobs[k]
      BY <1>1, <3>1 DEF TypeOK
    <3>3. jobs'[j].status = "queued" /\ jobs'[j].admitted = clock
      BY <1>1, <3>1 DEF TypeOK, Admitted
    <3>4. ~ LeaseLive(jobs[j]) /\ ~ Retained(j)
      BY <1>4, <2>1 DEF LeaseLive, Admit
    <3>5. \A k \in Jobs : Retained(k)' = Retained(k)
      BY <1>4 DEF Admit, Retained
    <3>6. \A k \in Jobs : RowStep(jobs[k], Retained(k), jobs'[k], Retained(k)', clock)
      BY <2>1, <3>2, <3>3, <3>4, <3>5 DEF RowStep
    <3> QED
      BY <1>2, <1>4, <3>2, <3>3, <3>4, <3>6 DEF Admit
  <2>2. CASE jobs[j].status # "absent"
    BY <1>2, <1>4, <2>2, StandStill DEF Admit
  <2> QED
    BY <2>1, <2>2
\* Only collectable jobs are ever collected, so no live lease is.
<1>5. ASSUME NEW doomed, Collect(doomed), UNCHANGED <<clock, operations, calls, sweeps, issued>>,
             \A j \in Jobs : j \in doomed => ~ LeaseLive(jobs[j])
      PROVE  LeasesOK' /\ Snapshots'
  <2>1. \A j \in Jobs : \/ jobs'[j] = jobs[j]
                        \/ jobs'[j].status # "running" /\ ~ LeaseLive(jobs[j])
    BY <1>5 DEF Collect, NoRow
  <2>2. \A j \in Jobs : RowStep(jobs[j], Retained(j), jobs'[j], Retained(j)', clock)
    BY <1>1, <1>5, CollectSteps
  <2> QED
    BY <1>2, <1>5, <2>1, <2>2
<1>6. ASSUME NEW j \in Jobs, DropLink(j) PROVE LeasesOK' /\ Snapshots'
  BY <1>5, <1>6 DEF DropLink, Collectable
<1>7. ASSUME NEW j \in Jobs, ExpireQuestion(j) PROVE LeasesOK' /\ Snapshots'
  BY <1>2, <1>7, StandStill DEF ExpireQuestion
<1>8. ASSUME NEW j \in Jobs, LoadEvidence(j) PROVE LeasesOK' /\ Snapshots'
  BY <1>2, <1>8, StandStill DEF LoadEvidence
<1>9. CASE CollectOrphans
  BY <1>5, <1>9 DEF CollectOrphans, Collectable
<1>10. CASE PurgeTombstones
  <2>1. \A j \in Jobs : Retained(j) => Retained(j)'
    BY <1>1, <1>10 DEF PurgeTombstones, Retained
  <2> QED
    BY <1>2, <1>10, <2>1 DEF PurgeTombstones, RowStep
<1> QED
  BY <1>3, <1>4, <1>6, <1>7, <1>8, <1>9, <1>10 DEF Environment

\* What a request must know of the row it has read.
Guarded(call) ==
  call.pc \in {"verify", "commit"} =>
    /\ call.seen.attempt = call.attempt
    /\ call.type = "ack" => /\ call.seen.status = "running"
                            /\ call.seen.lease = call.lease
                            /\ call.seen.owner = call.service

\* Steps that only move a request along keep the invariant, if the snapshot the
\* request goes on with is coherent and guarded.
LEMMA RequestStep ==
  ASSUME IInv, TypeOK', NEW c \in Calls, NEW call,
         calls' = [calls EXCEPT ![c] = call],
         UNCHANGED <<clock, jobs, refs, tombstones, operations, evidence, sweeps, issued>>,
         call.pc \in {"verify", "commit"} => CoherentNow(call.job, call.seen),
         Guarded(call)
  PROVE  LeasesOK' /\ Snapshots'
<1>1. TypeOK /\ LeasesOK /\ Snapshots /\ clock \in Nat
  BY InvariantParts DEF Typing, TypeOK
<1>2. \A d \in Calls : calls'[d] = IF d = c THEN call ELSE calls[d]
  BY <1>1 DEF TypeOK
<1>3. LeasesOK'
  BY <1>1, LeasesPreserved
<1>4. SnapshotsCoherent'
  <2>1. ASSUME NEW d \in Calls, calls'[d].pc \in {"verify", "commit"}
        PROVE  CoherentNow(calls'[d].job, calls'[d].seen)
    BY <1>1, <1>2, <2>1 DEF Snapshots, SnapshotsCoherent
  <2>2. \A s \in Sweepers : sweeps'[s].pc = "move" =>
          \A r \in sweeps'[s].batch : CoherentNow(r.job, r.row)
    BY <1>1 DEF Snapshots, SnapshotsCoherent
  <2> QED
    BY <1>1, <2>1, <2>2, StandStill, CoherencePreserved DEF Snapshots
<1>5. SnapshotsGuarded'
  BY <1>1, <1>2 DEF Snapshots, SnapshotsGuarded, Guarded
<1> QED
  BY <1>3, <1>4, <1>5 DEF Snapshots

LEMMA ArriveInvariant ==
  ASSUME IInv, TypeOK', NEW c \in Calls, Arrive(c)
  PROVE  LeasesOK' /\ Snapshots'
<1> DEFINE fresh(call) == /\ calls' = [calls EXCEPT ![c] = call] /\ call.pc = "read"
                          /\ UNCHANGED <<clock, jobs, refs, tombstones, operations,
                                         evidence, sweeps, issued>>
<1>1. ASSUME NEW call, fresh(call) PROVE LeasesOK' /\ Snapshots'
  BY <1>1, RequestStep DEF Guarded
<1>2. ASSUME NEW service \in Services, NEW op \in OpIds, NEW j \in Jobs,
             NEW attempt \in 0..(MaxAttempts - 1), ArriveClaim(c, service, op, j, attempt)
      PROVE  fresh([pc |-> "read", type |-> "claim", service |-> service, op |-> op,
                    job |-> j, attempt |-> attempt, lease |-> 0, outcome |-> "none",
                    now |-> clock, seen |-> NoRow])
  BY <1>2 DEF ArriveClaim
<1>3. ASSUME NEW service \in Services, NEW op \in OpIds, NEW j \in Jobs,
             NEW attempt \in 1..MaxAttempts, NEW grant \in Claims,
             NEW outcome \in {"reported", "published"},
             ArriveAck(c, service, op, j, attempt, grant.lease, outcome)
      PROVE  fresh([pc |-> "read", type |-> "ack", service |-> service, op |-> op,
                    job |-> j, attempt |-> attempt,
                    lease |-> grant.lease, outcome |-> outcome,
                    now |-> clock, seen |-> NoRow])
  BY <1>3 DEF ArriveAck
<1> HIDE DEF fresh
<1> QED
  BY <1>1, <1>2, <1>3 DEF Arrive

LEMMA AbandonInvariant ==
  ASSUME IInv, TypeOK', NEW c \in Calls, Abandon(c) \/ CommitLoses(c)
  PROVE  LeasesOK' /\ Snapshots'
<1>1. Idle.pc = "idle" /\ Guarded(Idle)
  BY DEF Idle, Guarded
<1> QED
  BY <1>1, RequestStep DEF Abandon, CommitLoses

LEMMA ReadInvariant ==
  ASSUME IInv, TypeOK', NEW c \in Calls, ReadJob(c)
  PROVE  LeasesOK' /\ Snapshots'
<1> DEFINE call == calls[c]
           row == jobs[call.job]
           claims == call.type = "claim" /\ Claimable(call, row)
           acks == call.type = "ack" /\ Holds(call, row)
           next == CASE claims -> [call EXCEPT !.pc = "commit", !.seen = row]
                     [] acks -> [call EXCEPT !.pc = IF call.outcome = "published"
                                                    THEN "verify" ELSE "commit",
                                             !.seen = row]
                     [] OTHER -> Idle
<1>1. call \in Request /\ call.pc = "read"
  BY InFlight DEF ReadJob, IInv
<1>2. call.job \in Jobs /\ row \in Row
  BY <1>1 DEF Request, IInv, TypeOK
<1>3. ASSUME NEW pc \in {"verify", "commit"}, claims \/ acks
      PROVE  LET went == [call EXCEPT !.pc = pc, !.seen = row] IN
             CoherentNow(went.job, went.seen) /\ Guarded(went)
  <2> DEFINE went == [call EXCEPT !.pc = pc, !.seen = row]
  <2>1. /\ went.pc = pc /\ went.seen = row /\ went.job = call.job /\ went.type = call.type
        /\ went.attempt = call.attempt /\ went.lease = call.lease
        /\ went.service = call.service
    BY <1>1 DEF Request
  <2>2. row.status # "absent" /\ row.attempt = call.attempt
    BY <1>3 DEF Claimable, Holds
  <2>3. call.type = "ack" => /\ row.status = "running" /\ row.lease = call.lease
                             /\ row.owner = call.service
    BY <1>3 DEF Holds
  <2>4. CoherentNow(call.job, row)
    BY <1>2, <2>2, CurrentIsCoherent DEF IInv
  <2> HIDE DEF went, row
  <2>5. Guarded(went)
    BY <2>1, <2>2, <2>3 DEF Guarded
  <2>6. CoherentNow(went.job, went.seen)
    BY <2>1, <2>4
  <2> QED
    BY <2>5, <2>6 DEF went
<1>4. CASE claims \/ acks
  <2>1. PICK pc \in {"verify", "commit"} : next = [call EXCEPT !.pc = pc, !.seen = row]
    BY <1>4
  <2>2. CoherentNow(next.job, next.seen) /\ Guarded(next)
    BY <1>3, <1>4, <2>1
  <2> HIDE DEF next
  <2>3. calls' = [calls EXCEPT ![c] = next]
    BY DEF ReadJob, next
  <2> QED
    BY <2>2, <2>3, RequestStep DEF ReadJob
<1>5. CASE ~ (claims \/ acks)
  <2>1. next = Idle
    BY <1>5
  <2>2. Idle.pc = "idle" /\ Guarded(Idle)
    BY DEF Idle, Guarded
  <2> HIDE DEF next
  <2>3. calls' = [calls EXCEPT ![c] = next]
    BY DEF ReadJob, next
  <2> QED
    BY <2>1, <2>2, <2>3, RequestStep DEF ReadJob
<1> QED
  BY <1>4, <1>5

LEMMA VerifyInvariant ==
  ASSUME IInv, TypeOK', NEW c \in Calls, VerifyPublication(c)
  PROVE  LeasesOK' /\ Snapshots'
<1> DEFINE call == calls[c]
           went == [call EXCEPT !.pc = "commit"]
           next == IF call.job \in evidence THEN went ELSE Idle
<1>1. call \in Request /\ call.pc = "verify"
  BY InFlight DEF VerifyPublication, IInv
<1>2. CoherentNow(call.job, call.seen) /\ Guarded(call)
  BY <1>1 DEF IInv, SnapshotsCoherent, SnapshotsGuarded, Guarded
<1>3. /\ went.seen = call.seen /\ went.job = call.job /\ went.type = call.type
      /\ went.attempt = call.attempt /\ went.lease = call.lease
      /\ went.service = call.service
  BY <1>1 DEF Request
<1> HIDE DEF went
<1>4. CoherentNow(went.job, went.seen) /\ Guarded(went)
  BY <1>1, <1>2, <1>3 DEF Guarded
<1>5. Idle.pc = "idle" /\ Guarded(Idle)
  BY DEF Idle, Guarded
<1>6. /\ next.pc \in {"verify", "commit"} => CoherentNow(next.job, next.seen)
      /\ Guarded(next)
  BY <1>4, <1>5
<1>7. calls' = [calls EXCEPT ![c] = next]
  BY DEF VerifyPublication, went
<1> HIDE DEF next
<1> QED
  BY <1>6, <1>7, RequestStep DEF VerifyPublication

\* The commit of a claim or an acknowledgement.
LEMMA CommitInvariant ==
  ASSUME IInv, TypeOK', NEW c \in Calls, CommitWins(c)
  PROVE  LeasesOK' /\ Snapshots'
<1> DEFINE call == calls[c]
           k == call.job
           new == NextRow(call)
<1>1. TypeOK /\ LeasesOK /\ Snapshots
  BY InvariantParts DEF Typing
<1>2. call \in Request /\ k \in Jobs
  BY <1>1, InFlight DEF CommitWins, Request
<1>3. LeasesOK'
  BY <1>1, <1>2, ClaimLeases, AckLeases DEF Snapshots, Request
<1>4. /\ jobs[k].status # "absent" /\ Accepted(k, new) /\ Write(k, new) /\ clock' = clock
      /\ sweeps' = sweeps /\ calls' = [calls EXCEPT ![c] = Idle]
  BY DEF CommitWins, Commits, Lands, Matches
<1>5. \A j \in Jobs : RowStep(jobs[j], Retained(j), jobs'[j], Retained(j)', clock)
  <2> HIDE DEF k, new
  <2> QED
    BY <1>1, <1>2, <1>4, WriteSteps
<1>6. \A d \in Calls : calls'[d] = calls[d] \/ calls'[d].pc \in {"idle", "read"}
  BY <1>1, <1>4 DEF TypeOK, Idle
<1>7. Snapshots'
  BY <1>1, <1>4, <1>5, <1>6, OldSnapshots
<1> QED
  BY <1>3, <1>7

\* What a sweep read of the rows it listed.
LEMMA ListInvariant ==
  ASSUME IInv, TypeOK', NEW s \in Sweepers, ListRows(s)
  PROVE  LeasesOK' /\ Snapshots'
<1> DEFINE sweep == sweeps[s]
<1>1. TypeOK /\ LeasesOK /\ Snapshots /\ clock \in Nat
  BY InvariantParts DEF Typing, TypeOK
<1>2. sweep \in Sweep /\ sweep # Idle /\ sweep.now <= clock
  BY <1>1, InFlight DEF ListRows, Idle, Snapshots, SnapshotsGuarded
<1>3. PICK page \in SUBSET Listed(sweep.kind, sweep.now) :
        sweeps' = [sweeps EXCEPT ![s] =
          IF page = {} THEN Idle ELSE [sweep EXCEPT !.pc = "move", !.batch = page]]
  BY DEF ListRows
<1>4. ASSUME NEW r \in page
      PROVE  /\ r.job \in Jobs /\ r.row = jobs[r.job] /\ CoherentNow(r.job, r.row)
             /\ sweep.kind = "expired" => r.row.status = "running" /\ r.row.expires <= sweep.now
  <2>1. PICK j \in Jobs :
          /\ r = [job |-> j, row |-> jobs[j]]
          /\ IF sweep.kind = "expired"
             THEN jobs[j].status = "running" /\ jobs[j].expires <= sweep.now
             ELSE jobs[j].status = "failed"
    BY <1>4 DEF Listed
  <2>2. CoherentNow(j, jobs[j])
    BY <1>1, <2>1, CurrentIsCoherent DEF Snapshots
  <2> QED
    BY <2>1, <2>2
<1>5. UNCHANGED <<clock, jobs, refs, tombstones, operations, evidence, calls, issued>>
  BY DEF ListRows
<1>6. \A t \in Sweepers : \/ sweeps'[t] = sweeps[t]
                          \/ sweeps'[t] = Idle
                          \/ /\ t = s /\ sweeps'[t].kind = sweep.kind
                             /\ sweeps'[t].now = sweep.now /\ sweeps'[t].batch = page
  BY <1>1, <1>2, <1>3 DEF TypeOK, Sweep
<1> HIDE DEF sweep
<1>7. LeasesOK'
  BY <1>1, <1>5, LeasesPreserved
<1>8. SnapshotsCoherent'
  <2>1. ASSUME NEW t \in Sweepers, sweeps'[t].pc = "move", NEW r \in sweeps'[t].batch
        PROVE  CoherentNow(r.job, r.row)
    BY <1>1, <1>4, <1>6, <2>1 DEF Snapshots, SnapshotsCoherent, Idle
  <2>2. \A d \in Calls : calls'[d].pc \in {"verify", "commit"} =>
          CoherentNow(calls'[d].job, calls'[d].seen)
    BY <1>1, <1>5 DEF Snapshots, SnapshotsCoherent
  <2> QED
    BY <1>1, <1>5, <2>1, <2>2, StandStill, CoherencePreserved DEF Snapshots
<1>9. SnapshotsGuarded'
  BY <1>1, <1>2, <1>4, <1>5, <1>6 DEF Snapshots, SnapshotsGuarded
<1> QED
  BY <1>7, <1>8, <1>9 DEF Snapshots

\* A sweep moves a row on only once its lease has expired, or after it failed.
LEMMA MoveInvariant ==
  ASSUME IInv, TypeOK', NEW s \in Sweepers, MoveRows(s)
  PROVE  LeasesOK' /\ Snapshots'
<1>1. TypeOK /\ LeasesOK /\ Snapshots /\ clock \in Nat
  BY InvariantParts DEF Typing, TypeOK
<1>2. PICK r \in sweeps[s].batch : MoveRow(s, r)
  BY DEF MoveRows
<1> DEFINE k == r.job
           new == Moved(sweeps[s], r)
<1>3. sweeps[s] \in Sweep /\ sweeps[s].pc = "move" /\ sweeps[s] # Idle
  BY <1>1, InFlight DEF MoveRows, Idle
<1>4. k \in Jobs /\ r.row \in Row
  BY <1>3 DEF Sweep
<1>5. /\ Matches(k, r.row) /\ Accepted(k, new) /\ Write(k, new)
      /\ UNCHANGED <<clock, operations, calls, issued>>
  BY <1>2 DEF MoveRow, Lands
<1>6. jobs[k] = r.row
  BY <1>1, <1>3, <1>4, <1>5, MatchIsCurrent DEF Snapshots, SnapshotsCoherent
<1>7. ~ LeaseLive(jobs[k]) /\ Stored(jobs[k], new).status # "running"
  <2>1. CASE sweeps[s].kind = "expired"
    <3>1. jobs[k].status = "running" /\ jobs[k].expires <= clock
      BY <1>1, <1>3, <1>4, <1>6, <2>1 DEF Snapshots, SnapshotsGuarded, Sweep, Row
    <3>2. Stored(jobs[k], new).status # "running"
      BY <1>5, <3>1 DEF Accepted, TransitionAllowed
    <3> QED
      BY <1>1, <1>4, <3>1, <3>2 DEF LeaseLive, Row, TypeOK
  <2>2. CASE sweeps[s].kind # "expired"
    <3>1. new = Requeued(r.row)
      BY <2>2 DEF Moved
    <3>2. Stored(jobs[k], new).status = "queued"
      BY <3>1 DEF Stored, Requeued
    <3>3. jobs[k].status = "failed"
      BY <1>5, <3>2 DEF Accepted, TransitionAllowed
    <3> QED
      BY <3>2, <3>3 DEF LeaseLive
  <2> QED
    BY <2>1, <2>2
<1> HIDE DEF k, new
<1>8. /\ \A j \in Jobs : j # k => jobs'[j] = jobs[j]
      /\ jobs'[k] = Stored(jobs[k], new) \/ jobs'[k] = NoRow
  BY <1>1, <1>4, <1>5, WriteEffect
<1>9. LeasesOK'
  <2>1. \A j \in Jobs : \/ jobs'[j] = jobs[j]
                        \/ jobs'[j].status # "running" /\ ~ LeaseLive(jobs[j])
    BY <1>7, <1>8 DEF NoRow
  <2> QED
    BY <1>1, <1>5, <2>1, LeasesPreserved
<1>10. \A j \in Jobs : RowStep(jobs[j], Retained(j), jobs'[j], Retained(j)', clock)
  <2>1. jobs[k].status # "absent"
    BY <1>5 DEF Matches
  <2> QED
    BY <1>1, <1>4, <1>5, <2>1, WriteSteps
<1>11. Done(s, r)
  BY <1>2 DEF MoveRow
<1>12. Snapshots'
  BY <1>1, <1>3, <1>5, <1>10, <1>11, OldSnapshots DEF Done, TypeOK, Sweep
<1> QED
  BY <1>9, <1>12

LEMMA SweepStepInvariant ==
  ASSUME IInv, TypeOK', NEW s \in Sweepers, SweepStep(s)
  PROVE  LeasesOK' /\ Snapshots'
<1>1. TypeOK /\ LeasesOK /\ Snapshots /\ clock \in Nat
  BY InvariantParts DEF Typing, TypeOK
<1>2. ASSUME UNCHANGED <<clock, jobs, refs, tombstones, operations, evidence, calls, issued>>
      PROVE  LeasesOK'
  BY <1>1, <1>2, LeasesPreserved
<1>3. ASSUME NEW kind \in {"expired", "due"}, StartSweep(s, kind)
      PROVE  LeasesOK' /\ Snapshots'
  <2>1. UNCHANGED <<clock, jobs, refs, tombstones, operations, evidence, calls, issued>>
    BY <1>3 DEF StartSweep
  <2>2. \A t \in Sweepers : \/ sweeps'[t] = sweeps[t]
                            \/ sweeps'[t].pc = "list" /\ sweeps'[t].now = clock
    BY <1>1, <1>3 DEF StartSweep, TypeOK
  <2>3. SnapshotsCoherent'
    <3>1. \A t \in Sweepers : sweeps'[t].pc = "move" =>
            \A r \in sweeps'[t].batch : CoherentNow(r.job, r.row)
      BY <1>1, <2>2 DEF Snapshots, SnapshotsCoherent
    <3>2. \A d \in Calls : calls'[d].pc \in {"verify", "commit"} =>
            CoherentNow(calls'[d].job, calls'[d].seen)
      BY <1>1, <2>1 DEF Snapshots, SnapshotsCoherent
    <3> QED
      BY <1>1, <2>1, <3>1, <3>2, StandStill, CoherencePreserved DEF Snapshots
  <2>4. SnapshotsGuarded'
    BY <1>1, <2>1, <2>2 DEF Snapshots, SnapshotsGuarded
  <2> QED
    BY <1>2, <2>1, <2>3, <2>4 DEF Snapshots
<1>4. CASE ListRows(s)
  BY <1>4, ListInvariant
<1>5. CASE MoveRows(s)
  BY <1>5, MoveInvariant
<1>6. CASE SkipRows(s)
  <2>1. PICK r \in sweeps[s].batch : SkipRow(s, r)
    BY <1>6 DEF SkipRows
  <2>2. sweeps[s] \in Sweep /\ sweeps[s].pc = "move"
    BY <1>1, <1>6, InFlight DEF SkipRows
  <2>3. Snapshots'
    BY <1>1, <2>1, <2>2, StandStill, OldSnapshots DEF SkipRow, Done, TypeOK, Sweep
  <2> QED
    BY <1>2, <2>1, <2>3 DEF SkipRow
<1>7. CASE AbandonSweep(s)
  <2>1. Snapshots'
    BY <1>1, <1>7, StandStill, OldSnapshots DEF AbandonSweep, TypeOK
  <2> QED
    BY <1>2, <1>7, <2>1 DEF AbandonSweep
<1> QED
  BY <1>3, <1>4, <1>5, <1>6, <1>7 DEF SweepStep

-----------------------------------------------------------------------------
(* The invariant and the theorems. *)

LEMMA InvariantInit == Init => IInv
<1> SUFFICES ASSUME Init PROVE IInv
  OBVIOUS
<1>1. Typing
  BY TypingInit
<1>2. LeasesOK
  BY DEF Init, LeasesOK, LeasesGranted, LiveLeaseHonoured, SettledOnceByHolder,
         OperationAppliedOnce, Claims, Acks, NoRow
<1>3. Snapshots
  BY DEF Init, Snapshots, SnapshotsCoherent, SnapshotsGuarded, NoRow, Idle
<1> QED
  BY <1>1, <1>2, <1>3, InvariantParts

LEMMA InvariantNext == IInv /\ [Next]_vars => IInv'
<1> SUFFICES ASSUME IInv, [Next]_vars PROVE IInv'
  OBVIOUS
<1>1. Typing' /\ TypeOK'
  BY InvariantParts, TypingNext DEF Typing
<1>3. LeasesOK' /\ Snapshots' => IInv'
  BY <1>1 DEF IInv, Typing, LeasesOK, Snapshots
<1>4. CASE Environment
  BY <1>1, <1>3, <1>4, EnvironmentInvariant
<1>5. CASE Served
  <2>1. PICK c \in Calls : Arrive(c) \/ Handle(c) \/ Abandon(c)
    BY <1>5 DEF Served
  <2> QED
    BY <1>1, <1>3, <2>1, ArriveInvariant, ReadInvariant, VerifyInvariant, CommitInvariant,
       AbandonInvariant DEF Handle
<1>6. CASE \E s \in Sweepers : SweepStep(s)
  BY <1>1, <1>3, <1>6, SweepStepInvariant
<1>7. CASE UNCHANGED vars
  BY <1>7 DEF vars, IInv, TypeOK, AttemptLeft, LeasesGranted, SnapshotsCoherent,
              SnapshotsGuarded, LiveLeaseHonoured, SettledOnceByHolder,
              OperationAppliedOnce, Claims, Acks, Settled, CoherentNow, Retained
<1> QED
  BY <1>3, <1>4, <1>5, <1>6, <1>7 DEF Next

\* All the parts of the inductive invariant hold together in every reachable state.
THEOREM Invariant == Spec => []IInv
BY InvariantInit, InvariantNext, PTL DEF Spec

\* No interleaving of claims, acknowledgements, sweeps, unlinks and collections
\* takes a job from the holder of a lease that is live and not settled.
THEOREM LeaseHonoured == Spec => []LiveLeaseHonoured
<1>1. IInv => LiveLeaseHonoured
  BY DEF IInv
<1> QED
  BY <1>1, Invariant, PTL

\* At most one acknowledgement is ever recorded for a lease, and it is its holder's.
THEOREM SettledOnce == Spec => []SettledOnceByHolder
<1>1. IInv => SettledOnceByHolder
  BY DEF IInv
<1> QED
  BY <1>1, Invariant, PTL

\* However often an operation is sent, it is recorded once per service and type.
THEOREM AppliedOnce == Spec => []OperationAppliedOnce
<1>1. IInv => OperationAppliedOnce
  BY DEF IInv
<1> QED
  BY <1>1, Invariant, PTL
=============================================================================
