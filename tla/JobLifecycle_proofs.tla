---------------------------- MODULE JobLifecycle_proofs ----------------------------
(***************************************************************************)
(* The life of a job under the bridge, for every number of jobs, services, *)
(* requests and sweeps: no update that matches its row is refused by a     *)
(* trigger, no failed job is stranded, what is published was published on  *)
(* evidence, and the bridge implements JobLifecycle.                       *)
(*                                                                         *)
(* The invariant of ExplorationBridge_proofs says that a snapshot which    *)
(* still matches is the row itself.  What a request computed long ago can  *)
(* then be compared with that row: its claim and its lease are of one      *)
(* moment, its acknowledgement was sampled after the claim it settles, and *)
(* a sweep only lists rows that are over.                                  *)
(***************************************************************************)
EXTENDS ExplorationBridge_proofs

-----------------------------------------------------------------------------
(***************************************************************************)
(* The invariant.                                                          *)
(***************************************************************************)

\* A failed row is exhausted, or due within the retry window of its claim.
RetryBounded(row) ==
  IF row.attempt = MaxAttempts THEN row.failure = "attempts_exhausted" /\ row.retry = 0
  ELSE /\ row.failure \in {"reported", "lease_expired"}
       /\ row.retry > row.claimed /\ row.retry <= row.claimed + RetryWindow

\* A row has the shape its status asks for, and the times of its lease agree.
RowOK(row, now) ==
  /\ row.status = "absent" => row = NoRow
  /\ row.status # "absent" => RowShape(row)
  /\ row.status = "running" => row.claimed \in 1..now /\ row.expires = row.claimed + LeaseSeconds
  /\ row.status = "failed" => RetryBounded(row)

RowsOK == \A j \in Jobs : RowOK(jobs[j], clock)

\* A claim was recorded no later than now, with the lease that its row carries.
GrantsTimely ==
  \A o \in Claims :
    /\ o.expires <= clock + LeaseSeconds
    /\ \A j \in Jobs : jobs[j].status = "running" /\ jobs[j].lease = o.lease => jobs[j].expires = o.expires

\* What a request in flight knows: it acknowledges after the claim, publishes on evidence,
\* and claims what was queued.
RequestOK(call, granted, loaded, minted, now) ==
  /\ call.now \in 1..now
  /\ call.type = "claim" /\ call.pc # "read" => call.seen.status = "queued"
  /\ call.type = "ack" =>
       /\ call.lease <= minted
       /\ \A o \in granted : o.lease = call.lease => o.expires <= call.now + LeaseSeconds
       /\ call.pc = "commit" /\ call.outcome = "published" => call.job \in loaded

RequestsOK == \A c \in Calls : calls[c] # Idle => RequestOK(calls[c], Claims, evidence, issued, clock)

\* A sweep of due retries listed rows that had failed with attempts left.
DueOK(sweep) ==
  sweep.pc = "move" /\ sweep.kind = "due" =>
    \A r \in sweep.batch : r.row.status = "failed" /\ r.row.failure # "attempts_exhausted"

SweepsOK == \A s \in Sweepers : sweeps[s] # Idle => DueOK(sweeps[s])

JInv ==
  /\ IInv /\ RowsOK /\ GrantsTimely /\ RequestsOK /\ SweepsOK
  /\ PublishedOnEvidence

-----------------------------------------------------------------------------
(***************************************************************************)
(* The rows that the handlers write.                                       *)
(***************************************************************************)

\* A row that is in order stays so as time goes by.
LEMMA RowLater ==
  ASSUME NEW row \in Row, NEW t \in Nat, NEW u \in Nat, t <= u, RowOK(row, t)
  PROVE  RowOK(row, u)
BY DEF RowOK, Row

\* A claimed row.
LEMMA RunningMove ==
  ASSUME NEW old \in Row, old.status = "queued", old.attempt < MaxAttempts,
         NEW service \in Services, NEW lease \in Nat \ {0}, NEW now \in Nat \ {0}
  PROVE  /\ Stored(old, Running(old, service, lease, now)) = Running(old, service, lease, now)
         /\ TransitionAllowed(old, Running(old, service, lease, now))
         /\ RowShape(Running(old, service, lease, now))
         /\ \A t \in Nat : now <= t => RowOK(Running(old, service, lease, now), t)
<1> DEFINE new == Running(old, service, lease, now)
<1>1. /\ new.status = "running" /\ new.attempt = old.attempt + 1 /\ new.lease = lease
      /\ new.owner = service /\ new.expires = now + LeaseSeconds /\ new.claimed = now
      /\ new.failure = "none" /\ new.rev = old.rev + 1 /\ new.admitted = old.admitted
  BY DEF Running
<1>2. Stored(old, new) = new
  BY <1>1 DEF Stored
<1> HIDE DEF new
<1>3. /\ old.attempt \in Nat /\ LeaseSeconds \in Nat \ {0} /\ MaxAttempts \in Nat
      /\ service # NoService
  BY ConstantsType, NoServiceAssumption DEF Row
<1>4. TransitionAllowed(old, new)
  BY <1>1, <1>3 DEF TransitionAllowed
<1>5. RowShape(new)
  BY <1>1, <1>3 DEF RowShape
<1>6. ASSUME NEW t \in Nat, now <= t
      PROVE  RowOK(new, t)
  BY <1>1, <1>3, <1>5, <1>6 DEF RowOK
<1> QED
  BY <1>2, <1>4, <1>5, <1>6 DEF new

\* The earlier of two times.
LEMMA EarlierOf ==
  ASSUME NEW s \in Int, NEW t \in Int
  PROVE  Earlier(s, t) \in {s, t} /\ Earlier(s, t) <= s /\ Earlier(s, t) <= t
BY DEF Earlier

\* A row whose claim is over, by report or by a sweep: the trigger lets it through, because
\* the retry time is after the claim and within its window.
LEMMA FailedMove ==
  ASSUME NEW old \in Row, NEW t \in Nat, RowOK(old, t), old.status = "running",
         NEW now \in Nat, old.claimed <= now, NEW reason \in {"reported", "lease_expired"}
  PROVE  LET new == Stored(old, Failed(old, reason, now)) IN
         /\ TransitionAllowed(old, new) /\ RowShape(new) /\ RowOK(new, t)
         /\ new.status = "failed" /\ new.attempt = old.attempt
         /\ new.failure = "attempts_exhausted" <=> old.attempt = MaxAttempts
<1> DEFINE computed == Failed(old, reason, now)
           new == Stored(old, computed)
           due == Earlier(now + Backoff(old.attempt), (old.expires - LeaseSeconds) + RetryWindow)
<1>1. /\ old.attempt \in 0..MaxAttempts /\ old.claimed \in Nat /\ old.claimed >= 1 /\ old.expires = old.claimed + LeaseSeconds
      /\ old.attempt > 0 /\ old.lease # 0 /\ old.owner # NoService
      /\ LeaseSeconds \in Nat \ {0} /\ RetryWindow \in Nat \ {0} /\ MaxAttempts \in Nat \ {0}
      /\ Backoff(old.attempt) \in Nat \ {0}
  BY ConstantsType DEF RowOK, RowShape, Row, Backoff
<1>2. due > old.claimed /\ due <= old.claimed + RetryWindow
  <2>1. (old.expires - LeaseSeconds) + RetryWindow = old.claimed + RetryWindow
    BY <1>1
  <2> QED
    BY <1>1, <2>1, EarlierOf
<1> HIDE DEF due
<1>3. /\ computed.status = "failed" /\ computed.attempt = old.attempt /\ computed.expires = 0
      /\ computed.rev = old.rev + 1
      /\ old.attempt = MaxAttempts => computed.failure = "attempts_exhausted" /\ computed.retry = 0
      /\ old.attempt # MaxAttempts => computed.failure = reason /\ computed.retry = due
  BY <1>1 DEF Failed, Ended, due
<1> HIDE DEF computed
<1>4. /\ new.status = "failed" /\ new.attempt = old.attempt /\ new.lease = old.lease
      /\ new.owner = old.owner /\ new.expires = 0 /\ new.claimed = old.claimed
      /\ new.rev = old.rev + 1 /\ new.admitted = old.admitted
      /\ new.retry = computed.retry /\ new.failure = computed.failure
  BY <1>3 DEF Stored
<1> HIDE DEF new
<1>5. RetryBounded(new)
  BY <1>2, <1>3, <1>4 DEF RetryBounded
<1>6. TransitionAllowed(old, new)
  <2>1. \/ new.failure = "attempts_exhausted" /\ new.retry = 0
        \/ /\ new.failure \in {"reported", "lease_expired"}
           /\ new.retry > new.claimed /\ new.retry <= new.claimed + RetryWindow
    BY <1>5 DEF RetryBounded
  <2> QED
    BY <1>4, <2>1 DEF TransitionAllowed
<1>7. RowShape(new)
  <2>1. new.failure # "none"
    BY <1>5 DEF RetryBounded
  <2> QED
    BY <1>1, <1>4, <2>1 DEF RowShape
<1>8. RowOK(new, t)
  BY <1>4, <1>5, <1>7 DEF RowOK
<1>9. new.failure = "attempts_exhausted" <=> old.attempt = MaxAttempts
  BY <1>3, <1>4
<1> QED
  BY <1>4, <1>6, <1>7, <1>8, <1>9 DEF new, computed

\* A published row.
LEMMA PublishedMove ==
  ASSUME NEW old \in Row, NEW t \in Nat, RowOK(old, t), old.status = "running"
  PROVE  LET new == Stored(old, Published(old)) IN
         /\ TransitionAllowed(old, new) /\ RowShape(new) /\ RowOK(new, t)
         /\ new.status = "published" /\ new.attempt = old.attempt
         /\ new.lease = old.lease /\ new.owner = old.owner
<1> DEFINE computed == Published(old)
           new == Stored(old, computed)
<1>1. old.attempt > 0 /\ old.lease # 0 /\ old.owner # NoService /\ old.claimed # 0
  BY DEF RowOK, RowShape, Row
<1>2. /\ computed.status = "published" /\ computed.attempt = old.attempt /\ computed.expires = 0
      /\ computed.rev = old.rev + 1 /\ computed.failure = "none" /\ computed.retry = 0
  BY DEF Published, Ended
<1> HIDE DEF computed
<1>3. /\ new.status = "published" /\ new.attempt = old.attempt /\ new.lease = old.lease
      /\ new.owner = old.owner /\ new.expires = 0 /\ new.claimed = old.claimed
      /\ new.rev = old.rev + 1 /\ new.admitted = old.admitted
      /\ new.retry = 0 /\ new.failure = "none"
  BY <1>2 DEF Stored
<1> HIDE DEF new
<1>4. TransitionAllowed(old, new)
  BY <1>3 DEF TransitionAllowed
<1>5. RowShape(new)
  BY <1>1, <1>3 DEF RowShape
<1>6. RowOK(new, t)
  BY <1>3, <1>5 DEF RowOK
<1> QED
  BY <1>3, <1>4, <1>5, <1>6 DEF new, computed

\* A row that is queued again.
LEMMA RequeuedMove ==
  ASSUME NEW old \in Row, NEW t \in Nat, RowOK(old, t), old.status = "failed",
         old.failure # "attempts_exhausted"
  PROVE  LET new == Stored(old, Requeued(old)) IN
         /\ TransitionAllowed(old, new) /\ RowShape(new) /\ RowOK(new, t)
         /\ new.status = "queued" /\ new.attempt = old.attempt
<1> DEFINE computed == Requeued(old)
           new == Stored(old, computed)
<1>1. /\ old.attempt # MaxAttempts /\ old.retry > old.claimed /\ old.claimed \in Nat /\ old.retry \in Nat
      /\ old.attempt \in 0..MaxAttempts /\ MaxAttempts \in Nat
  BY ConstantsType DEF RowOK, RetryBounded, Row
<1>2. /\ computed.status = "queued" /\ computed.attempt = old.attempt /\ computed.lease = 0
      /\ computed.owner = NoService /\ computed.expires = 0 /\ computed.retry = 0
      /\ computed.failure = "none" /\ computed.rev = old.rev + 1 /\ computed.admitted = old.admitted
  BY DEF Requeued
<1> HIDE DEF computed
<1>3. new = computed
  BY <1>2 DEF Stored
<1> HIDE DEF new
<1>4. TransitionAllowed(old, new)
  BY <1>1, <1>2, <1>3 DEF TransitionAllowed
<1>5. RowShape(new)
  BY <1>2, <1>3 DEF RowShape
<1>6. RowOK(new, t)
  BY <1>2, <1>3, <1>5 DEF RowOK
<1> QED
  BY <1>2, <1>3, <1>4, <1>5, <1>6 DEF new, computed

\* An admitted row, and none at all.
LEMMA AdmittedMove ==
  ASSUME NEW t \in Nat
  PROVE  RowOK(Admitted(t), t) /\ RowOK(NoRow, t)
BY DEF RowOK, RowShape, Admitted, NoRow

-----------------------------------------------------------------------------
(***************************************************************************)
(* How one row may move, and that what is in flight only moves it so.      *)
(***************************************************************************)

Claimed(old, new) ==
  /\ old.status = "queued" /\ old.attempt < MaxAttempts
  /\ \E service \in Services, now \in 1..clock : new = Running(old, service, issued + 1, now)
FailedSo(old, new) ==
  /\ old.status = "running"
  /\ \E reason \in {"reported", "lease_expired"}, now \in Nat :
       old.claimed <= now /\ new = Stored(old, Failed(old, reason, now))
PublishedSo(old, new) == old.status = "running" /\ new = Stored(old, Published(old))
RequeuedSo(old, new) ==
  /\ old.status = "failed" /\ old.failure # "attempts_exhausted"
  /\ new = Stored(old, Requeued(old))

JobMove(old, new) ==
  Claimed(old, new) \/ FailedSo(old, new) \/ PublishedSo(old, new) \/ RequeuedSo(old, new)

\* The triggers and the CHECK let every such move through, and its row is in order.
LEMMA MovesAllowed ==
  ASSUME clock \in Nat, issued \in Nat, NEW old \in Row, RowOK(old, clock), NEW new, JobMove(old, new)
  PROVE  TransitionAllowed(old, new) /\ RowShape(new) /\ RowOK(new, clock)
<1>1. CASE Claimed(old, new)
  <2>1. PICK service \in Services, now \in 1..clock : new = Running(old, service, issued + 1, now)
    BY <1>1 DEF Claimed
  <2>2. now \in Nat \ {0} /\ issued + 1 \in Nat \ {0} /\ now <= clock
    OBVIOUS
  <2> QED
    BY <1>1, <2>1, <2>2, RunningMove DEF Claimed
<1>2. CASE FailedSo(old, new)
  <2>1. PICK reason \in {"reported", "lease_expired"}, now \in Nat :
          old.claimed <= now /\ new = Stored(old, Failed(old, reason, now))
    BY <1>2 DEF FailedSo
  <2> QED
    BY <1>2, <2>1, FailedMove DEF FailedSo
<1>3. CASE PublishedSo(old, new)
  BY <1>3, PublishedMove DEF PublishedSo
<1>4. CASE RequeuedSo(old, new)
  BY <1>4, RequeuedMove DEF RequeuedSo
<1> QED
  BY <1>1, <1>2, <1>3, <1>4 DEF JobMove

\* A request that commits moves the row it read, and publishes on evidence.
LEMMA CommitMoves ==
  ASSUME JInv, NEW c \in Calls, calls[c].pc = "commit", Matches(calls[c].job, calls[c].seen)
  PROVE  LET call == calls[c]
             k == call.job
             new == Stored(jobs[k], NextRow(call)) IN
         /\ call \in Request /\ k \in Jobs /\ jobs[k] = call.seen /\ JobMove(jobs[k], new)
         /\ call.type = "claim" => /\ Claimed(jobs[k], new) /\ call.now \in 1..clock
                                   /\ new = Running(jobs[k], call.service, issued + 1, call.now)
         /\ call.type = "ack" => /\ jobs[k].status = "running" /\ jobs[k].lease = call.lease
                                 /\ jobs[k].owner = call.service
         /\ PublishedSo(jobs[k], new) => call.outcome = "published" /\ k \in evidence /\ call.type = "ack"
<1> DEFINE call == calls[c]
           k == call.job
           old == jobs[k]
           new == Stored(old, NextRow(call))
<1>1. TypeOK /\ SnapshotsCoherent /\ SnapshotsGuarded /\ AttemptLeft /\ RowsOK /\ RequestsOK /\ LeasesGranted
  BY DEF JInv, IInv
<1>2. call \in Request /\ call # Idle /\ clock \in Nat /\ issued \in Nat
  BY <1>1, InFlight DEF Idle, TypeOK
<1>3. k \in Jobs /\ call.seen \in Row /\ call.now \in 1..clock /\ call.service \in Services
  BY <1>1, <1>2 DEF Request, RequestsOK, RequestOK
<1>4. old = call.seen
  BY <1>1, <1>3, MatchIsCurrent DEF SnapshotsCoherent
<1>5. old \in Row /\ RowOK(old, clock)
  BY <1>1, <1>3 DEF TypeOK, RowsOK
<1>6. CASE call.type = "claim"
  <2>1. old.status = "queued" /\ old.attempt < MaxAttempts
    BY <1>1, <1>2, <1>4, <1>6 DEF RequestsOK, RequestOK, SnapshotsGuarded, AttemptLeft
  <2>2. NextRow(call) = Running(old, call.service, issued + 1, call.now)
    BY <1>4, <1>6 DEF NextRow
  <2>3. call.now \in Nat \ {0} /\ issued + 1 \in Nat \ {0}
    BY <1>2, <1>3
  <2>4. new = Running(old, call.service, issued + 1, call.now)
    BY <1>3, <1>5, <2>1, <2>2, <2>3, RunningMove
  <2>5. Claimed(old, new)
    BY <1>3, <2>1, <2>4 DEF Claimed
  <2>6. ~ PublishedSo(old, new)
    BY <2>1 DEF PublishedSo
  <2> QED
    BY <1>2, <1>3, <1>4, <1>6, <2>4, <2>5, <2>6 DEF JobMove
<1>7. CASE call.type = "ack"
  <2>1. old.status = "running" /\ old.lease = call.lease /\ old.owner = call.service
    BY <1>1, <1>2, <1>4, <1>7 DEF SnapshotsGuarded
  <2>2. CASE call.outcome = "published"
    <3>1. new = Stored(old, Published(old))
      BY <1>4, <1>7, <2>2 DEF NextRow
    <3>2. PublishedSo(old, new)
      BY <2>1, <3>1 DEF PublishedSo
    <3>3. k \in evidence
      BY <1>1, <1>2, <1>7, <2>2 DEF RequestsOK, RequestOK
    <3> QED
      BY <1>2, <1>3, <1>4, <1>7, <2>1, <2>2, <3>2, <3>3 DEF JobMove
  <2>3. CASE call.outcome # "published"
    <3>1. new = Stored(old, Failed(old, "reported", call.now))
      BY <1>4, <1>7, <2>3 DEF NextRow
    <3>2. old.claimed <= call.now
      <4>1. PICK o \in Claims : o.lease = old.lease
        BY <1>1, <1>3, <2>1 DEF LeasesGranted
      <4>2. o.expires <= call.now + LeaseSeconds
        BY <1>1, <1>2, <1>7, <2>1, <4>1 DEF RequestsOK, RequestOK
      <4>3. old.expires = o.expires
        BY <1>3, <2>1, <4>1 DEF JInv, GrantsTimely
      <4>4. old.expires = old.claimed + LeaseSeconds /\ old.claimed \in Nat
        BY <1>5, <2>1 DEF RowOK, Row
      <4> QED
        BY <1>3, <4>2, <4>3, <4>4, ConstantsType
    <3>3. FailedSo(old, new)
      BY <1>3, <2>1, <3>1, <3>2 DEF FailedSo
    <3>4. ~ PublishedSo(old, new)
      <4>1. new.status = "failed"
        <5>1. Failed(old, "reported", call.now).status = "failed"
          BY DEF Failed, Ended
        <5> QED
          BY <3>1, <5>1 DEF Stored
      <4>2. Stored(old, Published(old)).status = "published"
        BY DEF Stored, Published, Ended
      <4> QED
        BY <4>1, <4>2 DEF PublishedSo
    <3> QED
      BY <1>2, <1>3, <1>4, <1>7, <2>1, <3>3, <3>4 DEF JobMove
  <2> QED
    BY <2>2, <2>3
<1> QED
  BY <1>2, <1>6, <1>7 DEF Request

\* So does a sweep.
LEMMA SweepMoves ==
  ASSUME JInv, NEW s \in Sweepers, sweeps[s].pc = "move", NEW r \in sweeps[s].batch,
         Matches(r.job, r.row)
  PROVE  LET new == Stored(jobs[r.job], Moved(sweeps[s], r)) IN
         /\ r.job \in Jobs /\ jobs[r.job] = r.row
         /\ FailedSo(jobs[r.job], new) \/ RequeuedSo(jobs[r.job], new)
<1> DEFINE sweep == sweeps[s]
           old == jobs[r.job]
           new == Stored(old, Moved(sweep, r))
<1>1. TypeOK /\ SnapshotsCoherent /\ SnapshotsGuarded /\ RowsOK /\ SweepsOK
  BY DEF JInv, IInv
<1>2. sweep \in Sweep /\ sweep # Idle /\ clock \in Nat
  BY <1>1, InFlight DEF Idle, TypeOK
<1>3. r.job \in Jobs /\ r.row \in Row /\ sweep.now \in Nat
  BY <1>2 DEF Sweep
<1>4. old = r.row
  BY <1>1, <1>3, MatchIsCurrent DEF SnapshotsCoherent
<1>5. old \in Row /\ RowOK(old, clock)
  BY <1>1, <1>3 DEF TypeOK, RowsOK
<1>6. CASE sweep.kind = "expired"
  <2>1. old.status = "running" /\ old.expires <= sweep.now
    BY <1>1, <1>2, <1>4, <1>6 DEF SnapshotsGuarded
  <2>2. old.expires > old.claimed /\ old.expires \in Nat /\ old.claimed \in Nat
    BY <1>5, <2>1 DEF RowOK, RowShape, Row
  <2>3. old.claimed <= sweep.now
    BY <1>3, <2>1, <2>2
  <2>4. new = Stored(old, Failed(old, "lease_expired", sweep.now))
    BY <1>4, <1>6 DEF Moved
  <2>5. FailedSo(old, new)
    BY <1>3, <2>1, <2>3, <2>4 DEF FailedSo
  <2> QED
    BY <1>3, <1>4, <2>5
<1>7. CASE sweep.kind = "due"
  <2>1. old.status = "failed" /\ old.failure # "attempts_exhausted"
    BY <1>1, <1>2, <1>4, <1>7 DEF SweepsOK, DueOK
  <2>2. new = Stored(old, Requeued(old))
    BY <1>4, <1>7 DEF Moved
  <2>3. RequeuedSo(old, new)
    BY <2>1, <2>2 DEF RequeuedSo
  <2> QED
    BY <1>3, <1>4, <2>3
<1> QED
  BY <1>2, <1>6, <1>7 DEF Sweep

-----------------------------------------------------------------------------
(***************************************************************************)
(* What a step does to the jobs.                                           *)
(***************************************************************************)

Removed(doomed) == [j \in Jobs |-> IF j \in doomed THEN NoRow ELSE jobs[j]]

\* Several jobs go, one is admitted, or one moves.
Removal == \E doomed \in SUBSET Jobs : jobs' = Removed(doomed)
Admission ==
  \E k \in Jobs : jobs[k].status = "absent" /\ jobs' = [jobs EXCEPT ![k] = Admitted(clock)]
Motion ==
  \E k \in Jobs : JobMove(jobs[k], jobs'[k]) /\ jobs' = [jobs EXCEPT ![k] = jobs'[k]]

\* What is published now was so before, or is proved by an acknowledgement.
PublishedNow ==
  \A j \in Jobs : jobs'[j].status = "published" =>
    \/ jobs'[j] = jobs[j]
    \/ /\ j \in evidence
       /\ \E a \in Acks' : /\ a.job = j /\ a.lease = jobs'[j].lease
                           /\ a.service = jobs'[j].owner /\ a.outcome = "published"

JobStep ==
  /\ \/ jobs' = jobs
     \/ clock' = clock /\ (Removal \/ Admission \/ Motion)
  /\ PublishedNow

\* Nothing that was recorded, loaded, minted or past is undone.
Grows ==
  /\ operations \subseteq operations' /\ evidence \subseteq evidence'
  /\ issued' \in Nat /\ issued <= issued' /\ clock' \in Nat /\ clock <= clock'

\* Every step only adds to them.
LEMMA GrowsStep ==
  ASSUME TypeOK, TypeOK', Next
  PROVE  Grows
<1>1. issued \in Nat /\ clock \in Nat /\ issued' \in Nat /\ clock' \in Nat
  BY DEF TypeOK
<1>2. CASE Environment
  <2>1. ASSUME operations' = operations, issued' = issued, clock' = clock,
               evidence \subseteq evidence'
        PROVE  Grows
    BY <1>1, <2>1 DEF Grows
  <2>2. CASE Tick
    BY <1>1, <2>2 DEF Tick, Grows
  <2>3. ASSUME NEW j \in Jobs, Admit(j) \/ DropLink(j) \/ ExpireQuestion(j) \/ LoadEvidence(j)
        PROVE  Grows
    BY <2>1, <2>3 DEF Admit, DropLink, ExpireQuestion, LoadEvidence
  <2>4. CASE CollectOrphans \/ PurgeTombstones
    BY <2>1, <2>4 DEF CollectOrphans, PurgeTombstones
  <2> QED
    BY <1>2, <2>2, <2>3, <2>4 DEF Environment
<1>3. ASSUME NEW c \in Calls, Arrive(c) \/ Abandon(c)
      PROVE  Grows
  BY <1>1, <1>3 DEF Arrive, ArriveClaim, ArriveAck, Abandon, Grows
<1>4. ASSUME NEW c \in Calls, Handle(c)
      PROVE  Grows
  <2>1. CASE CommitWins(c)
    <3>1. /\ operations \subseteq operations' /\ evidence' = evidence /\ clock' = clock
          /\ issued' = issued + 1 \/ issued' = issued
      BY <2>1 DEF CommitWins
    <3> QED
      BY <1>1, <3>1 DEF Grows
  <2>2. CASE ReadJob(c) \/ VerifyPublication(c) \/ CommitLoses(c)
    <3>1. UNCHANGED <<clock, operations, evidence, issued>>
      BY <2>2 DEF ReadJob, VerifyPublication, CommitLoses
    <3> QED
      BY <1>1, <3>1 DEF Grows
  <2> QED
    BY <1>4, <2>1, <2>2 DEF Handle
<1>5. ASSUME NEW s \in Sweepers, SweepStep(s)
      PROVE  Grows
  <2>1. UNCHANGED <<clock, operations, evidence, issued>>
    <3>1. CASE MoveRows(s)
      BY <3>1 DEF MoveRows, MoveRow
    <3>2. CASE SkipRows(s)
      BY <3>2 DEF SkipRows, SkipRow
    <3>3. CASE ListRows(s)
      BY <3>3 DEF ListRows
    <3> QED
      BY <1>5, <3>1, <3>2, <3>3 DEF SweepStep, StartSweep, AbandonSweep
  <2> QED
    BY <1>1, <2>1 DEF Grows
<1> QED
  BY <1>2, <1>3, <1>4, <1>5 DEF Next, Served

\* An update leaves its row, or removes it.
LEMMA WriteJobs ==
  ASSUME TypeOK, NEW k \in Jobs, NEW new, Write(k, new)
  PROVE  jobs' = [jobs EXCEPT ![k] = Stored(jobs[k], new)] \/ jobs' = Removed({k})
BY DEF Write, Collect, Removed

\* A removed job is not published.
LEMMA RemovalProved ==
  ASSUME TypeOK, NEW doomed, jobs' = Removed(doomed)
  PROVE  PublishedNow
BY DEF PublishedNow, Removed, NoRow

\* Admission, unlinking and collection admit a job or remove some.
LEMMA EnvironmentJobs ==
  ASSUME JInv, Environment
  PROVE  JobStep
<1>1. TypeOK
  BY DEF JInv, IInv
<1>2. ASSUME jobs' = jobs
      PROVE  JobStep
  BY <1>2 DEF JobStep, PublishedNow
<1>3. ASSUME NEW doomed \in SUBSET Jobs, Collect(doomed), clock' = clock
      PROVE  JobStep
  <2>1. jobs' = Removed(doomed)
    BY <1>3 DEF Collect, Removed
  <2> QED
    BY <1>1, <1>3, <2>1, RemovalProved DEF JobStep, Removal
<1>4. ASSUME NEW j \in Jobs, Admit(j)
      PROVE  JobStep
  <2>1. CASE jobs[j].status = "absent"
    <3>1. jobs' = [jobs EXCEPT ![j] = Admitted(clock)] /\ clock' = clock
      BY <1>4, <2>1 DEF Admit
    <3>2. PublishedNow
      BY <1>1, <3>1 DEF PublishedNow, TypeOK, Admitted
    <3> QED
      BY <2>1, <3>1, <3>2 DEF JobStep, Admission
  <2>2. CASE jobs[j].status # "absent"
    BY <1>2, <1>4, <2>2 DEF Admit
  <2> QED
    BY <2>1, <2>2
<1>5. ASSUME NEW j \in Jobs, DropLink(j)
      PROVE  JobStep
  BY <1>3, <1>5 DEF DropLink
<1>6. CASE CollectOrphans
  <2>1. PICK doomed \in SUBSET Jobs : Collect(doomed)
    BY <1>6 DEF CollectOrphans
  <2> QED
    BY <1>3, <1>6, <2>1 DEF CollectOrphans
<1>7. CASE Tick \/ PurgeTombstones \/ \E j \in Jobs : ExpireQuestion(j) \/ LoadEvidence(j)
  BY <1>2, <1>7 DEF Tick, PurgeTombstones, ExpireQuestion, LoadEvidence
<1> QED
  BY <1>4, <1>5, <1>6, <1>7 DEF Environment

\* A commit moves the job of its request, unless the row is collected on the spot.
LEMMA CommitJobs ==
  ASSUME JInv, NEW c \in Calls, CommitWins(c)
  PROVE  JobStep
<1> DEFINE call == calls[c]
           k == call.job
           old == jobs[k]
           computed == NextRow(call)
           new == Stored(old, computed)
           rec == RecordOf(call)
<1>1. TypeOK
  BY DEF JInv, IInv
<1>2. /\ call.pc = "commit" /\ Matches(k, call.seen) /\ Write(k, computed) /\ clock' = clock
      /\ operations' = operations \cup {rec}
  BY DEF CommitWins, Commits, Lands
<1>3. /\ k \in Jobs /\ JobMove(old, new)
      /\ call.type = "ack" => old.status = "running" /\ old.lease = call.lease /\ old.owner = call.service
      /\ PublishedSo(old, new) => call.outcome = "published" /\ k \in evidence /\ call.type = "ack"
  BY <1>2, CommitMoves
<1>4. /\ rec.type = call.type /\ rec.service = call.service /\ rec.job = k /\ rec.outcome = call.outcome
      /\ call.type = "ack" => rec.lease = call.lease
  BY DEF RecordOf
<1> HIDE DEF rec, computed
<1>5. jobs' = [jobs EXCEPT ![k] = new] \/ jobs' = Removed({k})
  <2> HIDE DEF k
  <2> QED
    BY <1>1, <1>2, <1>3, WriteJobs
<1>6. old \in Row /\ RowOK(old, clock)
  BY <1>1, <1>3 DEF JInv, RowsOK, TypeOK
<1>7. new.status = "published" => PublishedSo(old, new) /\ new.lease = old.lease /\ new.owner = old.owner
  <2>1. SUFFICES ASSUME new.status = "published"
                 PROVE  PublishedSo(old, new) /\ new.lease = old.lease /\ new.owner = old.owner
    OBVIOUS
  <2>2. ~ Claimed(old, new)
    <3>1. \A service, lease, now : Running(old, service, lease, now).status = "running"
      BY DEF Running
    <3> HIDE DEF new
    <3> QED
      BY <2>1, <3>1 DEF Claimed
  <2>3. ~ FailedSo(old, new)
    <3>1. \A reason, now : Stored(old, Failed(old, reason, now)).status = "failed"
      <4>1. \A reason, now : Failed(old, reason, now).status = "failed"
        BY DEF Failed, Ended
      <4> QED
        BY <4>1 DEF Stored
    <3> QED
      BY <2>1, <3>1 DEF FailedSo
  <2>4. ~ RequeuedSo(old, new)
    <3>1. Stored(old, Requeued(old)).status = "queued"
      BY DEF Stored, Requeued
    <3> QED
      BY <2>1, <3>1 DEF RequeuedSo
  <2>5. PublishedSo(old, new)
    BY <1>3, <2>2, <2>3, <2>4 DEF JobMove
  <2>6. Stored(old, Published(old)).lease = old.lease /\ Stored(old, Published(old)).owner = old.owner
    BY DEF Stored, Published, Ended
  <2> QED
    BY <2>5, <2>6 DEF PublishedSo
<1> HIDE DEF new, k
<1>8. CASE jobs' = Removed({k})
  BY <1>1, <1>2, <1>3, <1>8, RemovalProved DEF JobStep, Removal
<1>9. CASE jobs' = [jobs EXCEPT ![k] = new]
  <2>1. jobs'[k] = new /\ \A j \in Jobs : j # k => jobs'[j] = jobs[j]
    BY <1>1, <1>3, <1>9 DEF TypeOK
  <2>2. Motion
    BY <1>3, <1>9, <2>1 DEF Motion
  <2>3. PublishedNow
    <3>1. ASSUME new.status = "published"
          PROVE  /\ k \in evidence
                 /\ \E a \in Acks' : /\ a.job = k /\ a.lease = new.lease
                                     /\ a.service = new.owner /\ a.outcome = "published"
      <4>1. call.type = "ack" /\ call.outcome = "published" /\ k \in evidence
        BY <1>3, <1>7, <3>1
      <4>2. rec \in Acks'
        BY <1>2, <1>4, <4>1 DEF Acks
      <4> QED
        BY <1>3, <1>4, <1>7, <3>1, <4>1, <4>2
    <3> QED
      BY <2>1, <3>1 DEF PublishedNow
  <2> QED
    BY <1>2, <2>2, <2>3 DEF JobStep
<1> QED
  BY <1>5, <1>8, <1>9

\* So does a sweep, which never publishes.
LEMMA MoveJobs ==
  ASSUME JInv, NEW s \in Sweepers, MoveRows(s)
  PROVE  JobStep
<1>1. PICK r \in sweeps[s].batch : MoveRow(s, r)
  BY DEF MoveRows
<1> DEFINE k == r.job
           old == jobs[k]
           computed == Moved(sweeps[s], r)
           new == Stored(old, computed)
<1>2. TypeOK /\ sweeps[s].pc = "move"
  BY DEF JInv, IInv, MoveRows
<1>3. Matches(k, r.row) /\ Write(k, computed) /\ clock' = clock
  BY <1>1 DEF MoveRow, Lands
<1>4. k \in Jobs /\ (FailedSo(old, new) \/ RequeuedSo(old, new))
  BY <1>2, <1>3, SweepMoves
<1> HIDE DEF computed, k
<1>5. jobs' = [jobs EXCEPT ![k] = new] \/ jobs' = Removed({k})
  BY <1>2, <1>3, <1>4, WriteJobs
<1>6. new.status # "published"
  <2>1. \A reason, now : Stored(old, Failed(old, reason, now)).status = "failed"
    <3>1. \A reason, now : Failed(old, reason, now).status = "failed"
      BY DEF Failed, Ended
    <3> QED
      BY <3>1 DEF Stored
  <2>2. Stored(old, Requeued(old)).status = "queued"
    BY DEF Stored, Requeued
  <2> QED
    BY <1>4, <2>1, <2>2 DEF FailedSo, RequeuedSo
<1> HIDE DEF new
<1>7. CASE jobs' = Removed({k})
  BY <1>2, <1>3, <1>4, <1>7, RemovalProved DEF JobStep, Removal
<1>8. CASE jobs' = [jobs EXCEPT ![k] = new]
  <2>1. jobs'[k] = new /\ \A j \in Jobs : j # k => jobs'[j] = jobs[j]
    BY <1>2, <1>4, <1>8 DEF TypeOK
  <2>2. Motion
    BY <1>4, <1>8, <2>1 DEF Motion, JobMove
  <2>3. PublishedNow
    BY <1>6, <2>1 DEF PublishedNow
  <2> QED
    BY <1>3, <2>2, <2>3 DEF JobStep
<1> QED
  BY <1>5, <1>7, <1>8

\* Every step of the bridge is such a step.
LEMMA JobSteps ==
  ASSUME JInv, Next
  PROVE  JobStep
<1>1. ASSUME jobs' = jobs
      PROVE  JobStep
  BY <1>1 DEF JobStep, PublishedNow
<1>2. ASSUME NEW c \in Calls, Arrive(c) \/ Abandon(c)
      PROVE  JobStep
  BY <1>1, <1>2 DEF Arrive, ArriveClaim, ArriveAck, Abandon
<1>3. ASSUME NEW c \in Calls, Handle(c)
      PROVE  JobStep
  BY <1>1, <1>3, CommitJobs DEF Handle, ReadJob, VerifyPublication, CommitLoses
<1>4. ASSUME NEW s \in Sweepers, SweepStep(s)
      PROVE  JobStep
  BY <1>1, <1>4, MoveJobs DEF SweepStep, StartSweep, ListRows, SkipRows, SkipRow, AbandonSweep
<1> QED
  BY <1>2, <1>3, <1>4, EnvironmentJobs DEF Next, Served

-----------------------------------------------------------------------------
(***************************************************************************)
(* Every step preserves the invariant.                                     *)
(***************************************************************************)

\* What a step of the jobs leaves in each row: it is older, new, or moved.
LEMMA RowsNext ==
  ASSUME JInv, TypeOK', Next
  PROVE  RowsOK'
<1>1. TypeOK /\ RowsOK /\ JobStep /\ Grows
  BY JobSteps, GrowsStep DEF JInv, IInv
<1>2. /\ clock \in Nat /\ issued \in Nat /\ clock' \in Nat /\ clock <= clock'
      /\ \A j \in Jobs : jobs[j] \in Row
  BY <1>1 DEF TypeOK, Grows
<1>3. CASE jobs' = jobs
  <2>1. \A j \in Jobs : RowOK(jobs[j], clock')
    BY <1>1, <1>2, RowLater DEF RowsOK
  <2> QED
    BY <1>3, <2>1 DEF RowsOK
<1>4. CASE clock' = clock /\ Removal
  <2>1. PICK doomed \in SUBSET Jobs : jobs' = Removed(doomed)
    BY <1>4 DEF Removal
  <2>2. \A j \in Jobs : jobs'[j] = jobs[j] \/ jobs'[j] = NoRow
    BY <2>1 DEF Removed
  <2> QED
    BY <1>1, <1>2, <1>4, <2>2, AdmittedMove DEF RowsOK
<1>5. CASE clock' = clock /\ Admission
  <2>1. \A j \in Jobs : jobs'[j] = jobs[j] \/ jobs'[j] = Admitted(clock)
    BY <1>1, <1>5 DEF Admission, TypeOK
  <2> QED
    BY <1>1, <1>2, <1>5, <2>1, AdmittedMove DEF RowsOK
<1>6. CASE clock' = clock /\ Motion
  <2>1. PICK k \in Jobs : JobMove(jobs[k], jobs'[k]) /\ jobs' = [jobs EXCEPT ![k] = jobs'[k]]
    BY <1>6 DEF Motion
  <2>2. \A j \in Jobs : j # k => jobs'[j] = jobs[j]
    BY <1>1, <2>1 DEF TypeOK
  <2>3. RowOK(jobs'[k], clock)
    BY <1>1, <1>2, <2>1, MovesAllowed DEF RowsOK
  <2> QED
    BY <1>1, <1>6, <2>2, <2>3 DEF RowsOK
<1> QED
  BY <1>1, <1>3, <1>4, <1>5, <1>6 DEF JobStep

\* Only the commit of a claim grants a lease.
ClaimWins(c) == CommitWins(c) /\ calls[c].type = "claim"

LEMMA GrantedByClaim ==
  ASSUME TypeOK, Next
  PROVE  (issued' = issued /\ Claims' = Claims) \/ \E c \in Calls : ClaimWins(c)
<1>1. ASSUME UNCHANGED <<operations, issued>>
      PROVE  issued' = issued /\ Claims' = Claims
  BY <1>1 DEF Claims
<1>2. CASE Environment
  <2>1. ASSUME NEW j \in Jobs, Admit(j) \/ DropLink(j) \/ ExpireQuestion(j) \/ LoadEvidence(j)
        PROVE  UNCHANGED <<operations, issued>>
    BY <2>1 DEF Admit, DropLink, ExpireQuestion, LoadEvidence
  <2> QED
    BY <1>1, <1>2, <2>1 DEF Environment, Tick, CollectOrphans, PurgeTombstones
<1>3. ASSUME NEW c \in Calls, Arrive(c) \/ Abandon(c)
      PROVE  UNCHANGED <<operations, issued>>
  BY <1>3 DEF Arrive, ArriveClaim, ArriveAck, Abandon
<1>4. ASSUME NEW c \in Calls, ReadJob(c) \/ VerifyPublication(c) \/ CommitLoses(c)
      PROVE  UNCHANGED <<operations, issued>>
  BY <1>4 DEF ReadJob, VerifyPublication, CommitLoses
<1>5. ASSUME NEW c \in Calls, CommitWins(c), calls[c].type # "claim"
      PROVE  issued' = issued /\ Claims' = Claims
  <2>1. issued' = issued /\ operations' = operations \cup {RecordOf(calls[c])}
    BY <1>5 DEF CommitWins
  <2>2. RecordOf(calls[c]).type # "claim"
    BY <1>5 DEF RecordOf
  <2> QED
    BY <2>1, <2>2 DEF Claims
<1>6. ASSUME NEW s \in Sweepers, SweepStep(s)
      PROVE  UNCHANGED <<operations, issued>>
  <2>1. CASE MoveRows(s)
    BY <2>1 DEF MoveRows, MoveRow
  <2>2. CASE SkipRows(s)
    BY <2>2 DEF SkipRows, SkipRow
  <2>3. CASE ListRows(s)
    BY <2>3 DEF ListRows
  <2> QED
    BY <1>6, <2>1, <2>2, <2>3 DEF SweepStep, StartSweep, AbandonSweep
<1> QED
  BY <1>1, <1>2, <1>3, <1>4, <1>5, <1>6 DEF Next, Served, Handle, ClaimWins

\* The commit of a claim: its record and its row name one new lease and one expiry.
LEMMA ClaimEffect ==
  ASSUME JInv, NEW c \in Calls, ClaimWins(c)
  PROVE  LET call == calls[c]
             k == call.job
             until == call.now + LeaseSeconds IN
         /\ k \in Jobs /\ clock' = clock /\ until <= clock + LeaseSeconds
         /\ \A o \in Claims' : o \in Claims \/ (o.lease = issued + 1 /\ o.expires = until)
         /\ \A j \in Jobs : j # k => jobs'[j] = jobs[j] \/ jobs'[j] = NoRow
         /\ \/ jobs'[k] = NoRow
            \/ jobs'[k].lease = issued + 1 /\ jobs'[k].expires = until
<1> DEFINE call == calls[c]
           k == call.job
           new == Running(jobs[k], call.service, issued + 1, call.now)
<1>1. TypeOK /\ call.type = "claim" /\ call.pc = "commit" /\ Matches(k, call.seen)
  BY DEF ClaimWins, CommitWins, Commits, Lands, JInv, IInv
<1>2. /\ k \in Jobs /\ call.now \in 1..clock
      /\ Stored(jobs[k], NextRow(call)) = new
  BY <1>1, CommitMoves
<1>3. /\ Write(k, NextRow(call)) /\ clock' = clock
      /\ operations' = operations \cup {RecordOf(call)}
  BY DEF ClaimWins, CommitWins
<1>4. new.lease = issued + 1 /\ new.expires = call.now + LeaseSeconds
  BY DEF Running
<1>5. RecordOf(call).lease = issued + 1 /\ RecordOf(call).expires = call.now + LeaseSeconds
  BY <1>1 DEF RecordOf
<1>6. \A o \in Claims' : o \in Claims \/ o = RecordOf(call)
  BY <1>3 DEF Claims
<1>7. call.now + LeaseSeconds <= clock + LeaseSeconds
  BY <1>1, <1>2, ConstantsType DEF TypeOK
<1> DEFINE computed == NextRow(call)
<1> HIDE DEF new, k, computed
<1>8. jobs' = [jobs EXCEPT ![k] = new] \/ jobs' = Removed({k})
  <2>1. jobs' = [jobs EXCEPT ![k] = Stored(jobs[k], computed)] \/ jobs' = Removed({k})
    BY <1>1, <1>2, <1>3, WriteJobs DEF computed
  <2> QED
    BY <1>2, <2>1 DEF computed
<1>9. /\ \A j \in Jobs : j # k => jobs'[j] = jobs[j] \/ jobs'[j] = NoRow
      /\ jobs'[k] = NoRow \/ jobs'[k] = new
  BY <1>1, <1>2, <1>8 DEF TypeOK, Removed
<1> QED
  BY <1>2, <1>3, <1>4, <1>5, <1>6, <1>7, <1>9 DEF k

\* A claim's record and its row still agree, because a running row that did not run
\* before holds the lease granted just now.
LEMMA GrantsNext ==
  ASSUME JInv, IInv', Next
  PROVE  GrantsTimely'
<1>1. /\ TypeOK /\ LeasesGranted /\ LeasesGranted' /\ GrantsTimely /\ JobStep /\ Grows
      /\ clock \in Nat /\ clock' \in Nat /\ clock <= clock' /\ issued \in Nat
  BY JobSteps, GrowsStep DEF JInv, IInv, TypeOK, Grows
<1>2. \A o \in Claims : o \in Operation /\ o.expires \in Nat /\ o.lease \in 1..issued
  BY <1>1 DEF TypeOK, Operation, Claims, LeasesGranted
<1>3. \A o \in Claims : o.expires <= clock' + LeaseSeconds
  <2>1. LeaseSeconds \in Nat
    BY ConstantsType
  <2> QED
    BY <1>1, <1>2, <2>1 DEF GrantsTimely
<1>4. NoRow.status = "absent"
  BY DEF NoRow
<1>5. CASE issued' = issued /\ Claims' = Claims
  <2>1. ASSUME NEW j \in Jobs, jobs'[j].status = "running"
        PROVE  jobs'[j] = jobs[j]
    <3>1. jobs'[j].lease \in 1..issued
      BY <1>1, <1>2, <1>5, <2>1 DEF LeasesGranted
    <3>2. jobs'[j].lease # issued + 1
      BY <1>1, <3>1
    <3>3. CASE jobs' = jobs
      BY <3>3
    <3>4. CASE Removal
      BY <1>4, <2>1, <3>4 DEF Removal, Removed
    <3>5. CASE Admission
      <4>1. Admitted(clock).status = "queued"
        BY DEF Admitted
      <4> QED
        BY <1>1, <2>1, <3>5, <4>1 DEF Admission, TypeOK
    <3>6. CASE Motion
      <4>1. PICK k \in Jobs : JobMove(jobs[k], jobs'[k]) /\ jobs' = [jobs EXCEPT ![k] = jobs'[k]]
        BY <3>6 DEF Motion
      <4>2. CASE j # k
        BY <1>1, <4>1, <4>2 DEF TypeOK
      <4>3. CASE j = k
        <5>1. ~ Claimed(jobs[j], jobs'[j])
          <6>1. \A service, now : Running(jobs[j], service, issued + 1, now).lease = issued + 1
            BY DEF Running
          <6> QED
            BY <3>2, <6>1 DEF Claimed
        <5>2. /\ \A reason, now : Stored(jobs[j], Failed(jobs[j], reason, now)).status = "failed"
              /\ Stored(jobs[j], Published(jobs[j])).status = "published"
              /\ Stored(jobs[j], Requeued(jobs[j])).status = "queued"
          <6>1. \A reason, now : Failed(jobs[j], reason, now).status = "failed"
            BY DEF Failed, Ended
          <6>2. Published(jobs[j]).status = "published" /\ Requeued(jobs[j]).status = "queued"
            BY DEF Published, Requeued, Ended
          <6> QED
            BY <6>1, <6>2 DEF Stored
        <5>3. ~ FailedSo(jobs[j], jobs'[j])
          BY <2>1, <5>2 DEF FailedSo
        <5>4. ~ PublishedSo(jobs[j], jobs'[j]) /\ ~ RequeuedSo(jobs[j], jobs'[j])
          BY <2>1, <5>2 DEF PublishedSo, RequeuedSo
        <5> QED
          BY <4>1, <4>3, <5>1, <5>3, <5>4 DEF JobMove
      <4> QED
        BY <4>2, <4>3
    <3> QED
      BY <1>1, <3>3, <3>4, <3>5, <3>6 DEF JobStep
  <2> QED
    BY <1>1, <1>3, <1>5, <2>1 DEF GrantsTimely
<1>6. ASSUME NEW c \in Calls, ClaimWins(c)
      PROVE  GrantsTimely'
  <2> DEFINE k == calls[c].job
             until == calls[c].now + LeaseSeconds
  <2>1. /\ k \in Jobs /\ clock' = clock /\ until <= clock + LeaseSeconds
        /\ \A o \in Claims' : o \in Claims \/ (o.lease = issued + 1 /\ o.expires = until)
        /\ \A j \in Jobs : j # k => jobs'[j] = jobs[j] \/ jobs'[j] = NoRow
        /\ jobs'[k] = NoRow \/ (jobs'[k].lease = issued + 1 /\ jobs'[k].expires = until)
    BY <1>6, ClaimEffect
  <2> HIDE DEF k, until
  <2>2. \A o \in Claims' : o.expires <= clock' + LeaseSeconds
    BY <1>3, <2>1
  <2>3. ASSUME NEW o \in Claims', NEW j \in Jobs, jobs'[j].status = "running",
               jobs'[j].lease = o.lease
        PROVE  jobs'[j].expires = o.expires
    <3>1. CASE j = k
      <4>1. jobs'[j].lease = issued + 1 /\ jobs'[j].expires = until
        BY <1>4, <2>1, <2>3, <3>1
      <4>2. o \notin Claims
        <5>1. issued + 1 \notin 1..issued
          BY <1>1
        <5> QED
          BY <1>2, <2>3, <4>1, <5>1
      <4> QED
        BY <2>1, <4>1, <4>2
    <3>2. CASE j # k
      <4>1. jobs'[j] = jobs[j]
        BY <1>4, <2>1, <2>3, <3>2
      <4>2. jobs[j].lease \in 1..issued
        BY <1>1, <1>2, <2>3, <4>1 DEF LeasesGranted
      <4>3. o \in Claims
        BY <1>1, <2>1, <2>3, <4>1, <4>2
      <4> QED
        BY <1>1, <2>3, <4>1, <4>3 DEF GrantsTimely
    <3> QED
      BY <3>1, <3>2
  <2> QED
    BY <2>2, <2>3 DEF GrantsTimely
<1> QED
  BY <1>1, <1>5, <1>6, GrantedByClaim DEF JInv

\* What a request knows stays true while claims are granted and time passes.
LEMMA RequestLater ==
  ASSUME NEW call \in Request, NEW granted, NEW granted2, NEW loaded, NEW loaded2,
         NEW minted \in Nat, NEW minted2 \in Nat, NEW now \in Nat, NEW now2 \in Nat,
         RequestOK(call, granted, loaded, minted, now),
         \A o \in granted2 : o \in granted \/ o.lease = minted + 1,
         loaded \subseteq loaded2, minted <= minted2, now <= now2
  PROVE  RequestOK(call, granted2, loaded2, minted2, now2)
<1>1. call.lease \in Nat /\ call.now \in Nat
  BY DEF Request
<1>2. call.now \in 1..now2
  BY <1>1 DEF RequestOK
<1>3. ASSUME call.type = "ack"
      PROVE  /\ call.lease <= minted2
             /\ \A o \in granted2 : o.lease = call.lease => o.expires <= call.now + LeaseSeconds
             /\ call.pc = "commit" /\ call.outcome = "published" => call.job \in loaded2
  <2>1. /\ call.lease <= minted
        /\ \A o \in granted : o.lease = call.lease => o.expires <= call.now + LeaseSeconds
        /\ call.pc = "commit" /\ call.outcome = "published" => call.job \in loaded
    BY <1>3 DEF RequestOK
  <2>2. call.lease # minted + 1 /\ call.lease <= minted2
    BY <1>1, <2>1
  <2> QED
    BY <2>1, <2>2
<1> QED
  BY <1>2, <1>3 DEF RequestOK

\* What the handlers put into a call, judged by what is recorded and loaded before the step.
KnownNow(call) == call = Idle \/ RequestOK(call, Claims, evidence, issued, clock)

\* A request that arrives, reads or is verified knows what it should.
LEMMA ArrivedKnows ==
  ASSUME JInv, NEW c \in Calls, Arrive(c)
  PROVE  \E next : calls' = [calls EXCEPT ![c] = next] /\ KnownNow(next)
<1>1. clock \in 1..clock
  BY DEF JInv, IInv, TypeOK
<1>2. ASSUME NEW service \in Services, NEW op \in OpIds, NEW j \in Jobs,
             NEW attempt \in 0..(MaxAttempts - 1), ArriveClaim(c, service, op, j, attempt)
      PROVE  \E next : calls' = [calls EXCEPT ![c] = next] /\ KnownNow(next)
  <2> DEFINE next == [pc |-> "read", type |-> "claim", service |-> service, op |-> op,
                      job |-> j, attempt |-> attempt, lease |-> 0, outcome |-> "none",
                      now |-> clock, seen |-> NoRow]
  <2>1. calls' = [calls EXCEPT ![c] = next]
    BY <1>2 DEF ArriveClaim
  <2>2. next.pc = "read" /\ next.type = "claim" /\ next.now = clock
    OBVIOUS
  <2> HIDE DEF next
  <2>3. KnownNow(next)
    BY <1>1, <2>2 DEF KnownNow, RequestOK
  <2> QED
    BY <2>1, <2>3
<1>3. ASSUME NEW service \in Services, NEW op \in OpIds, NEW j \in Jobs,
             NEW attempt \in 1..MaxAttempts, NEW grant \in Claims,
             NEW outcome \in {"reported", "published"},
             ArriveAck(c, service, op, j, attempt, grant.lease, outcome)
      PROVE  \E next : calls' = [calls EXCEPT ![c] = next] /\ KnownNow(next)
  <2> DEFINE next == [pc |-> "read", type |-> "ack", service |-> service, op |-> op,
                      job |-> j, attempt |-> attempt,
                      lease |-> grant.lease, outcome |-> outcome,
                      now |-> clock, seen |-> NoRow]
  <2>1. calls' = [calls EXCEPT ![c] = next]
    BY <1>3 DEF ArriveAck
  <2>2. next.pc = "read" /\ next.type = "ack" /\ next.now = clock /\ next.lease = grant.lease
    OBVIOUS
  <2> HIDE DEF next
  <2>3. grant.lease \in 1..issued /\ issued \in Nat
    BY DEF JInv, IInv, LeasesGranted, Claims, TypeOK
  <2>4. \A o \in Claims : o.expires <= clock + LeaseSeconds
    BY DEF JInv, GrantsTimely
  <2>5. grant.lease <= issued
    BY <2>3
  <2>6. KnownNow(next)
    BY <1>1, <2>2, <2>4, <2>5 DEF KnownNow, RequestOK
  <2> QED
    BY <2>1, <2>6
<1> QED
  BY <1>2, <1>3 DEF Arrive

\* What the guards of a read let through.
LEMMA ReadKnows ==
  ASSUME JInv, NEW c \in Calls, ReadJob(c)
  PROVE  \E next : calls' = [calls EXCEPT ![c] = next] /\ KnownNow(next)
<1> DEFINE call == calls[c]
           row == jobs[call.job]
           claims == call.type = "claim" /\ Claimable(call, row)
           acks == call.type = "ack" /\ Holds(call, row)
           claimed == [call EXCEPT !.pc = "commit", !.seen = row]
           acked == [call EXCEPT !.pc = IF call.outcome = "published" THEN "verify" ELSE "commit",
                                 !.seen = row]
           next == CASE claims -> claimed [] acks -> acked [] OTHER -> Idle
<1>1. call \in Request /\ call # Idle /\ RequestOK(call, Claims, evidence, issued, clock)
  BY InFlight DEF ReadJob, JInv, IInv, Idle, RequestsOK
<1>2. calls' = [calls EXCEPT ![c] = next]
  BY DEF ReadJob
<1>3. CASE claims
  <2>1. /\ claimed.type = "claim" /\ claimed.now = call.now /\ claimed.seen = row
        /\ row.status = "queued"
    BY <1>1, <1>3 DEF Request, Claimable
  <2>2. next = claimed
    BY <1>3
  <2> HIDE DEF claimed
  <2>3. KnownNow(claimed)
    BY <1>1, <2>1 DEF KnownNow, RequestOK
  <2> QED
    BY <1>2, <2>2, <2>3
<1>4. CASE acks
  <2>1. /\ acked.type = "ack" /\ acked.now = call.now /\ acked.lease = call.lease
        /\ acked.outcome = call.outcome
        /\ acked.pc = "commit" => call.outcome # "published"
    BY <1>1, <1>4 DEF Request
  <2>2. next = acked
    BY <1>4
  <2> HIDE DEF acked
  <2>3. KnownNow(acked)
    BY <1>1, <1>4, <2>1 DEF KnownNow, RequestOK
  <2> QED
    BY <1>2, <2>2, <2>3
<1>5. CASE ~ claims /\ ~ acks
  <2>1. next = Idle
    BY <1>5
  <2> QED
    BY <1>2, <2>1 DEF KnownNow
<1> QED
  BY <1>3, <1>4, <1>5

\* A publication goes on to its commit on evidence.
LEMMA VerifiedKnows ==
  ASSUME JInv, NEW c \in Calls, VerifyPublication(c)
  PROVE  \E next : calls' = [calls EXCEPT ![c] = next] /\ KnownNow(next)
<1> DEFINE call == calls[c]
           went == [call EXCEPT !.pc = "commit"]
<1>1. /\ call \in Request /\ call # Idle /\ call.pc = "verify"
      /\ RequestOK(call, Claims, evidence, issued, clock)
  BY InFlight DEF VerifyPublication, JInv, IInv, Idle, RequestsOK
<1>2. CASE call.job \in evidence
  <2>1. calls' = [calls EXCEPT ![c] = went]
    BY <1>2 DEF VerifyPublication
  <2>2. /\ went.type = call.type /\ went.now = call.now /\ went.lease = call.lease
        /\ went.job = call.job /\ went.seen = call.seen
    BY <1>1 DEF Request
  <2> HIDE DEF went
  <2>3. KnownNow(went)
    BY <1>1, <1>2, <2>2 DEF KnownNow, RequestOK
  <2> QED
    BY <2>1, <2>3
<1>3. CASE call.job \notin evidence
  BY <1>3 DEF VerifyPublication, KnownNow
<1> QED
  BY <1>2, <1>3

\* No other step puts a request into a call.
LEMMA RequestsMoved ==
  ASSUME JInv, Next
  PROVE  \A d \in Calls : KnownNow(calls'[d])
<1>1. TypeOK /\ \A d \in Calls : KnownNow(calls[d])
  BY DEF JInv, IInv, RequestsOK, KnownNow
<1>2. ASSUME NEW c \in Calls, NEW next, calls' = [calls EXCEPT ![c] = next], KnownNow(next)
      PROVE  \A d \in Calls : KnownNow(calls'[d])
  BY <1>1, <1>2 DEF TypeOK
<1>3. ASSUME calls' = calls
      PROVE  \A d \in Calls : KnownNow(calls'[d])
  BY <1>1, <1>3
<1>4. CASE Environment
  <2>1. ASSUME NEW j \in Jobs, Admit(j) \/ DropLink(j) \/ ExpireQuestion(j) \/ LoadEvidence(j)
        PROVE  calls' = calls
    BY <2>1 DEF Admit, DropLink, ExpireQuestion, LoadEvidence
  <2> QED
    BY <1>3, <1>4, <2>1 DEF Environment, Tick, CollectOrphans, PurgeTombstones
<1>5. ASSUME NEW c \in Calls, Arrive(c) \/ ReadJob(c) \/ VerifyPublication(c)
      PROVE  \A d \in Calls : KnownNow(calls'[d])
  <2>1. PICK next : calls' = [calls EXCEPT ![c] = next] /\ KnownNow(next)
    BY <1>5, ArrivedKnows, ReadKnows, VerifiedKnows
  <2> QED
    BY <1>2, <2>1
<1>6. ASSUME NEW c \in Calls, CommitWins(c) \/ CommitLoses(c) \/ Abandon(c)
      PROVE  \A d \in Calls : KnownNow(calls'[d])
  <2>1. calls' = [calls EXCEPT ![c] = Idle]
    BY <1>6 DEF CommitWins, CommitLoses, Abandon
  <2> QED
    BY <1>2, <2>1 DEF KnownNow
<1>7. ASSUME NEW s \in Sweepers, SweepStep(s)
      PROVE  calls' = calls
  <2>1. CASE MoveRows(s)
    BY <2>1 DEF MoveRows, MoveRow
  <2>2. CASE SkipRows(s)
    BY <2>2 DEF SkipRows, SkipRow
  <2>3. CASE ListRows(s)
    BY <2>3 DEF ListRows
  <2> QED
    BY <1>7, <2>1, <2>2, <2>3 DEF SweepStep, StartSweep, AbandonSweep
<1> QED
  BY <1>3, <1>4, <1>5, <1>6, <1>7 DEF Next, Served, Handle

LEMMA RequestsNext ==
  ASSUME JInv, TypeOK', Next
  PROVE  RequestsOK'
<1>1. TypeOK /\ Grows /\ clock \in Nat /\ issued \in Nat
  BY GrowsStep DEF JInv, IInv, TypeOK
<1>2. \A o \in Claims' : o \in Claims \/ o.lease = issued + 1
  <2>1. ASSUME NEW c \in Calls, ClaimWins(c)
        PROVE  \A o \in Claims' : o \in Claims \/ o.lease = issued + 1
    BY <2>1, ClaimEffect
  <2> QED
    BY <1>1, <2>1, GrantedByClaim
<1>3. ASSUME NEW d \in Calls, calls'[d] # Idle
      PROVE  RequestOK(calls'[d], Claims', evidence', issued', clock')
  <2>1. RequestOK(calls'[d], Claims, evidence, issued, clock)
    BY <1>3, RequestsMoved DEF KnownNow
  <2>2. calls'[d] \in Request
    BY <1>3 DEF TypeOK
  <2> HIDE DEF Claims
  <2> QED
    BY <1>1, <1>2, <2>1, <2>2, RequestLater DEF Grows
<1> QED
  BY <1>3 DEF RequestsOK

\* Due rows are listed as they are, and leave the batch one by one.
LEMMA SweepsNext ==
  ASSUME JInv, Next
  PROVE  SweepsOK'
<1>1. TypeOK /\ \A s \in Sweepers : sweeps[s] # Idle => DueOK(sweeps[s])
  BY DEF JInv, IInv, SweepsOK
<1>2. ASSUME sweeps' = sweeps
      PROVE  SweepsOK'
  BY <1>1, <1>2 DEF SweepsOK
<1>3. ASSUME NEW s \in Sweepers, NEW next, sweeps' = [sweeps EXCEPT ![s] = next],
             next = Idle \/ DueOK(next)
      PROVE  SweepsOK'
  BY <1>1, <1>3 DEF SweepsOK, TypeOK
<1>4. CASE Environment
  <2>1. ASSUME NEW j \in Jobs, Admit(j) \/ DropLink(j) \/ ExpireQuestion(j) \/ LoadEvidence(j)
        PROVE  sweeps' = sweeps
    BY <2>1 DEF Admit, DropLink, ExpireQuestion, LoadEvidence
  <2> QED
    BY <1>2, <1>4, <2>1 DEF Environment, Tick, CollectOrphans, PurgeTombstones
<1>5. CASE Served
  <2>1. ASSUME NEW c \in Calls, Arrive(c)
        PROVE  sweeps' = sweeps
    BY <2>1 DEF Arrive, ArriveClaim, ArriveAck
  <2>2. ASSUME NEW c \in Calls, Handle(c) \/ Abandon(c)
        PROVE  sweeps' = sweeps
    BY <2>2 DEF Handle, ReadJob, VerifyPublication, CommitWins, CommitLoses, Abandon
  <2> QED
    BY <1>2, <1>5, <2>1, <2>2 DEF Served
<1>6. ASSUME NEW s \in Sweepers, NEW kind \in {"expired", "due"}, StartSweep(s, kind)
      PROVE  SweepsOK'
  <2> DEFINE next == [pc |-> "list", kind |-> kind, now |-> clock, batch |-> {}]
  <2>1. sweeps' = [sweeps EXCEPT ![s] = next]
    BY <1>6 DEF StartSweep
  <2>2. DueOK(next)
    BY DEF DueOK
  <2> HIDE DEF next
  <2> QED
    BY <1>3, <2>1, <2>2
<1>7. ASSUME NEW s \in Sweepers, ListRows(s)
      PROVE  SweepsOK'
  <2> DEFINE sweep == sweeps[s]
  <2>1. sweep \in Sweep
    BY <1>1, <1>7, InFlight DEF ListRows
  <2>2. PICK page \in SUBSET Listed(sweep.kind, sweep.now) :
          sweeps' = [sweeps EXCEPT ![s] =
            IF page = {} THEN Idle ELSE [sweep EXCEPT !.pc = "move", !.batch = page]]
    BY <1>7 DEF ListRows
  <2> DEFINE went == [sweep EXCEPT !.pc = "move", !.batch = page]
  <2>3. went.kind = sweep.kind /\ went.batch = page
    BY <2>1 DEF Sweep
  <2>4. ASSUME sweep.kind = "due", NEW r \in page
        PROVE  r.row.status = "failed" /\ r.row.failure # "attempts_exhausted"
    BY <2>4 DEF Listed
  <2> HIDE DEF went
  <2>5. DueOK(went)
    BY <2>3, <2>4 DEF DueOK
  <2>6. PICK next : sweeps' = [sweeps EXCEPT ![s] = next] /\ (next = Idle \/ next = went)
    BY <2>2 DEF went
  <2> QED
    BY <1>3, <2>5, <2>6
<1>8. ASSUME NEW s \in Sweepers, sweeps[s].pc = "move", NEW r \in sweeps[s].batch, Done(s, r)
      PROVE  SweepsOK'
  <2> DEFINE sweep == sweeps[s]
             rest == sweep.batch \ {r}
             went == [sweep EXCEPT !.batch = rest]
  <2>1. sweep \in Sweep /\ sweep # Idle
    BY <1>1, <1>8, InFlight DEF Idle
  <2>2. sweeps' = [sweeps EXCEPT ![s] = IF rest = {} THEN Idle ELSE went]
    BY <1>8 DEF Done
  <2>3. went.pc = sweep.pc /\ went.kind = sweep.kind /\ went.batch \subseteq sweep.batch
    BY <2>1 DEF Sweep
  <2> HIDE DEF went
  <2>4. DueOK(went)
    BY <1>1, <2>1, <2>3 DEF DueOK
  <2>5. PICK next : sweeps' = [sweeps EXCEPT ![s] = next] /\ (next = Idle \/ next = went)
    BY <2>2
  <2> QED
    BY <1>3, <2>4, <2>5
<1>9. ASSUME NEW s \in Sweepers, AbandonSweep(s)
      PROVE  SweepsOK'
  BY <1>3, <1>9 DEF AbandonSweep
<1>10. ASSUME NEW s \in Sweepers, SweepStep(s)
       PROVE  SweepsOK'
  <2>1. CASE MoveRows(s)
    BY <1>8, <2>1 DEF MoveRows, MoveRow
  <2>2. CASE SkipRows(s)
    BY <1>8, <2>2 DEF SkipRows, SkipRow
  <2> QED
    BY <1>6, <1>7, <1>9, <1>10, <2>1, <2>2 DEF SweepStep
<1> QED
  BY <1>4, <1>5, <1>10 DEF Next

\* A publication, once proved, stays proved: acknowledgements and evidence only grow.
LEMMA PublishedNext ==
  ASSUME JInv, TypeOK', Next
  PROVE  PublishedOnEvidence'
<1>1. PublishedOnEvidence /\ PublishedNow /\ Acks \subseteq Acks' /\ evidence \subseteq evidence'
  BY JobSteps, GrowsStep DEF JInv, IInv, JobStep, Grows, Acks
<1> QED
  BY <1>1 DEF PublishedOnEvidence, PublishedNow

LEMMA JobInvariantInit == Init => JInv
<1> SUFFICES ASSUME Init PROVE JInv
  OBVIOUS
<1>1. IInv /\ Claims = {}
  BY InvariantInit DEF Init, Claims
<1>2. RowsOK
  BY AdmittedMove DEF Init, RowsOK
<1>3. PublishedOnEvidence
  BY DEF Init, PublishedOnEvidence, NoRow
<1> QED
  BY <1>1, <1>2, <1>3 DEF JInv, GrantsTimely, RequestsOK, SweepsOK, Init

LEMMA JobInvariantNext == JInv /\ [Next]_vars => JInv'
<1> SUFFICES ASSUME JInv, [Next]_vars PROVE JInv'
  OBVIOUS
<1>1. IInv' /\ TypeOK'
  BY InvariantNext DEF JInv, IInv
<1>2. CASE Next
  BY <1>1, <1>2, RowsNext, GrantsNext, RequestsNext, SweepsNext, PublishedNext DEF JInv
<1>3. CASE UNCHANGED vars
  BY <1>1, <1>3 DEF vars, JInv, RowsOK, GrantsTimely, RequestsOK, SweepsOK, PublishedOnEvidence,
                    Claims, Acks
<1> QED
  BY <1>2, <1>3

-----------------------------------------------------------------------------
(***************************************************************************)
(* The theorems.                                                           *)
(***************************************************************************)

\* What a failed row, a request and a sweep rely on holds in every reachable state.
THEOREM JobInvariant == Spec => []JInv
BY JobInvariantInit, JobInvariantNext, PTL DEF Spec

\* Whatever a request or a sweep read and however late it commits, the update it sends to
\* the row it matches is one that the state machine trigger and the CHECK accept.
THEOREM TransitionsAccepted == Spec => []NoTransitionAborts
<1>1. JInv => NoTransitionAborts
  <2> SUFFICES ASSUME JInv PROVE NoTransitionAborts
    OBVIOUS
  <2>1. /\ clock \in Nat /\ issued \in Nat
        /\ \A j \in Jobs : jobs[j] \in Row /\ RowOK(jobs[j], clock)
    BY DEF JInv, IInv, TypeOK, RowsOK
  <2>2. ASSUME NEW c \in Calls, calls[c].pc = "commit", Matches(calls[c].job, calls[c].seen)
        PROVE  Accepted(calls[c].job, NextRow(calls[c]))
    <3> DEFINE k == calls[c].job
               new == Stored(jobs[k], NextRow(calls[c]))
    <3>1. k \in Jobs /\ JobMove(jobs[k], new)
      BY <2>2, CommitMoves
    <3>2. TransitionAllowed(jobs[k], new) /\ RowShape(new)
      <4> HIDE DEF new, k
      <4> QED
        BY <2>1, <3>1, MovesAllowed
    <3> QED
      BY <3>2 DEF Accepted
  <2>3. ASSUME NEW s \in Sweepers, sweeps[s].pc = "move", NEW r \in sweeps[s].batch,
               Matches(r.job, r.row)
        PROVE  Accepted(r.job, Moved(sweeps[s], r))
    <3> DEFINE k == r.job
               new == Stored(jobs[k], Moved(sweeps[s], r))
    <3>1. k \in Jobs /\ (FailedSo(jobs[k], new) \/ RequeuedSo(jobs[k], new))
      BY <2>3, SweepMoves
    <3>2. TransitionAllowed(jobs[k], new) /\ RowShape(new)
      <4> HIDE DEF new, k
      <4> QED
        BY <2>1, <3>1, MovesAllowed DEF JobMove
    <3> QED
      BY <3>2 DEF Accepted
  <2> QED
    BY <2>2, <2>3 DEF NoTransitionAborts
<1> QED
  BY <1>1, JobInvariant, PTL

\* Every failed job is exhausted with its last attempt or due within the window of its claim,
\* also when the sweep that failed it ran long after the lease expired.
THEOREM FailuresNotStranded == Spec => []NoStrandedFailure
<1>1. JInv => NoStrandedFailure
  BY DEF JInv, RowsOK, RowOK, RetryBounded, NoStrandedFailure
<1> QED
  BY <1>1, JobInvariant, PTL

\* A published job has its evidence and the acknowledgement of its last holder.
THEOREM PublicationProved == Spec => []PublishedOnEvidence
<1>1. JInv => PublishedOnEvidence
  BY DEF JInv
<1> QED
  BY <1>1, JobInvariant, PTL

-----------------------------------------------------------------------------
(***************************************************************************)
(* The bridge implements the abstract life of a job.                       *)
(***************************************************************************)

\* A row's phase in JobLifecycle, and its holder there.
PhaseOf(row) ==
  CASE row.status = "queued" -> "waiting"
    [] row.status = "running" -> "held"
    [] row.status = "failed" ->
         IF row.failure = "attempts_exhausted" THEN "exhausted" ELSE "backoff"
    [] OTHER -> row.status
HolderOf(row) == IF row.status = "running" THEN row.owner ELSE NoService

\* How the life of a job k is seen to change when its row becomes another.
LEMMA SeenChange ==
  ASSUME TypeOK, NEW k \in Jobs, NEW new, jobs' = [jobs EXCEPT ![k] = new]
  PROVE  /\ [j \in Jobs |-> PhaseOf(jobs'[j])]
              = [[j \in Jobs |-> PhaseOf(jobs[j])] EXCEPT ![k] = PhaseOf(new)]
         /\ [j \in Jobs |-> jobs'[j].attempt]
              = [[j \in Jobs |-> jobs[j].attempt] EXCEPT ![k] = new.attempt]
         /\ [j \in Jobs |-> HolderOf(jobs'[j])]
              = [[j \in Jobs |-> HolderOf(jobs[j])] EXCEPT ![k] = HolderOf(new)]
<1>1. jobs'[k] = new /\ \A j \in Jobs : j # k => jobs'[j] = jobs[j]
  BY DEF TypeOK
<1>2. /\ \A j \in Jobs : PhaseOf(jobs'[j]) = IF j = k THEN PhaseOf(new) ELSE PhaseOf(jobs[j])
      /\ \A j \in Jobs : jobs'[j].attempt = IF j = k THEN new.attempt ELSE jobs[j].attempt
      /\ \A j \in Jobs : HolderOf(jobs'[j]) = IF j = k THEN HolderOf(new) ELSE HolderOf(jobs[j])
  BY <1>1
<1>3. [j \in Jobs |-> PhaseOf(jobs'[j])]
        = [[j \in Jobs |-> PhaseOf(jobs[j])] EXCEPT ![k] = PhaseOf(new)]
  BY <1>2
<1>4. [j \in Jobs |-> jobs'[j].attempt]
        = [[j \in Jobs |-> jobs[j].attempt] EXCEPT ![k] = new.attempt]
  BY <1>2
<1>5. [j \in Jobs |-> HolderOf(jobs'[j])]
        = [[j \in Jobs |-> HolderOf(jobs[j])] EXCEPT ![k] = HolderOf(new)]
  BY <1>2
<1> QED
  BY <1>3, <1>4, <1>5

\* A claim grants, a failure or a publication ends, and a requeue requeues.
LEMMA ClaimedSeen ==
  ASSUME NEW old, NEW new, Claimed(old, new)
  PROVE  /\ PhaseOf(old) = "waiting" /\ old.attempt < MaxAttempts
         /\ PhaseOf(new) = "held" /\ new.attempt = old.attempt + 1 /\ HolderOf(new) \in Services
<1>1. PICK service \in Services, now \in 1..clock : new = Running(old, service, issued + 1, now)
  BY DEF Claimed
<1>2. new.status = "running" /\ new.attempt = old.attempt + 1 /\ new.owner = service
  BY <1>1 DEF Running
<1> QED
  BY <1>2 DEF Claimed, PhaseOf, HolderOf

LEMMA EndedSeen ==
  ASSUME NEW old \in Row, RowOK(old, clock), clock \in Nat, NEW new,
         FailedSo(old, new) \/ PublishedSo(old, new)
  PROVE  /\ PhaseOf(old) = "held" /\ new.attempt = old.attempt /\ HolderOf(new) = NoService
         /\ \/ PhaseOf(new) = "published"
            \/ PhaseOf(new) = "exhausted" /\ old.attempt = MaxAttempts
            \/ PhaseOf(new) = "backoff" /\ old.attempt < MaxAttempts
<1>1. CASE PublishedSo(old, new)
  <2>1. new.status = "published" /\ new.attempt = old.attempt /\ old.status = "running"
    BY <1>1 DEF PublishedSo, Stored, Published, Ended
  <2> QED
    BY <2>1 DEF PhaseOf, HolderOf
<1>2. CASE FailedSo(old, new)
  <2>1. PICK reason \in {"reported", "lease_expired"}, now \in Nat :
          old.claimed <= now /\ new = Stored(old, Failed(old, reason, now))
    BY <1>2 DEF FailedSo
  <2>2. /\ old.status = "running" /\ new.status = "failed" /\ new.attempt = old.attempt
        /\ new.failure = "attempts_exhausted" <=> old.attempt = MaxAttempts
    BY <1>2, <2>1, FailedMove DEF FailedSo
  <2>3. old.attempt = MaxAttempts \/ old.attempt < MaxAttempts
    BY ConstantsType DEF Row
  <2> QED
    BY <2>2, <2>3 DEF PhaseOf, HolderOf
<1> QED
  BY <1>1, <1>2

LEMMA RequeuedSeen ==
  ASSUME NEW old, NEW new, RequeuedSo(old, new)
  PROVE  /\ PhaseOf(old) = "backoff" /\ PhaseOf(new) = "waiting"
         /\ new.attempt = old.attempt /\ HolderOf(old) = NoService /\ HolderOf(new) = NoService
<1>1. new.status = "queued" /\ new.attempt = old.attempt
  BY DEF RequeuedSo, Stored, Requeued
<1> QED
  BY <1>1 DEF RequeuedSo, PhaseOf, HolderOf

\* What JobLifecycle sees of the jobs.
SeenPhase == [j \in Jobs |-> PhaseOf(jobs[j])]
SeenGrants == [j \in Jobs |-> jobs[j].attempt]
SeenHolder == [j \in Jobs |-> HolderOf(jobs[j])]

\* One job changes what is seen of it as an action of JobLifecycle says.
LEMMA MotionSeen ==
  ASSUME JInv, Motion
  PROVE  Lifecycle!Next
<1>1. TypeOK /\ clock \in Nat /\ \A j \in Jobs : jobs[j] \in Row /\ RowOK(jobs[j], clock)
  BY DEF JInv, IInv, TypeOK, RowsOK
<1>2. PICK k \in Jobs : JobMove(jobs[k], jobs'[k]) /\ jobs' = [jobs EXCEPT ![k] = jobs'[k]]
  BY DEF Motion
<1>3. /\ SeenPhase' = [SeenPhase EXCEPT ![k] = PhaseOf(jobs'[k])]
      /\ SeenGrants' = [SeenGrants EXCEPT ![k] = jobs'[k].attempt]
      /\ SeenHolder' = [SeenHolder EXCEPT ![k] = HolderOf(jobs'[k])]
  BY <1>1, <1>2, SeenChange DEF SeenPhase, SeenGrants, SeenHolder
<1>4. /\ SeenPhase[k] = PhaseOf(jobs[k]) /\ SeenGrants[k] = jobs[k].attempt
      /\ SeenHolder[k] = HolderOf(jobs[k])
  BY <1>2 DEF SeenPhase, SeenGrants, SeenHolder
<1>5. ASSUME jobs'[k].attempt = jobs[k].attempt
      PROVE  SeenGrants' = SeenGrants
  BY <1>2, <1>3, <1>4, <1>5 DEF SeenGrants
<1>6. ASSUME HolderOf(jobs'[k]) = HolderOf(jobs[k])
      PROVE  SeenHolder' = SeenHolder
  BY <1>2, <1>3, <1>4, <1>6 DEF SeenHolder
<1>7. CASE Claimed(jobs[k], jobs'[k])
  <2>1. /\ PhaseOf(jobs[k]) = "waiting" /\ jobs[k].attempt < MaxAttempts
        /\ PhaseOf(jobs'[k]) = "held" /\ jobs'[k].attempt = jobs[k].attempt + 1
        /\ HolderOf(jobs'[k]) \in Services
    BY <1>7, ClaimedSeen
  <2>2. PICK service \in Services : service = HolderOf(jobs'[k])
    BY <2>1
  <2>3. /\ SeenPhase[k] = "waiting" /\ SeenGrants[k] < MaxAttempts
        /\ SeenPhase' = [SeenPhase EXCEPT ![k] = "held"]
        /\ SeenGrants' = [SeenGrants EXCEPT ![k] = SeenGrants[k] + 1]
        /\ SeenHolder' = [SeenHolder EXCEPT ![k] = service]
    BY <1>3, <1>4, <2>1, <2>2
  <2>4. Lifecycle!Grant(k, service)
    BY <2>3 DEF Lifecycle!Grant, SeenPhase, SeenGrants, SeenHolder, PhaseOf, HolderOf
  <2> QED
    BY <1>2, <2>4 DEF Lifecycle!Next
<1>8. CASE FailedSo(jobs[k], jobs'[k]) \/ PublishedSo(jobs[k], jobs'[k])
  <2>1. /\ PhaseOf(jobs[k]) = "held" /\ jobs'[k].attempt = jobs[k].attempt
        /\ HolderOf(jobs'[k]) = NoService
    BY <1>1, <1>2, <1>8, EndedSeen
  <2>2. PICK outcome \in {"published", "backoff", "exhausted"} :
          /\ PhaseOf(jobs'[k]) = outcome
          /\ outcome = "backoff" => jobs[k].attempt < MaxAttempts
          /\ outcome = "exhausted" => jobs[k].attempt = MaxAttempts
    BY <1>1, <1>2, <1>8, EndedSeen
  <2>3. /\ SeenPhase[k] = "held"
        /\ outcome = "backoff" => SeenGrants[k] < MaxAttempts
        /\ outcome = "exhausted" => SeenGrants[k] = MaxAttempts
        /\ SeenPhase' = [SeenPhase EXCEPT ![k] = outcome]
        /\ SeenHolder' = [SeenHolder EXCEPT ![k] = NoService]
        /\ SeenGrants' = SeenGrants
    BY <1>3, <1>4, <1>5, <2>1, <2>2
  <2>4. Lifecycle!End(k, outcome)
    BY <2>3 DEF Lifecycle!End, SeenPhase, SeenGrants, SeenHolder, PhaseOf, HolderOf
  <2> QED
    BY <1>2, <2>4 DEF Lifecycle!Next
<1>9. CASE RequeuedSo(jobs[k], jobs'[k])
  <2>1. /\ PhaseOf(jobs[k]) = "backoff" /\ PhaseOf(jobs'[k]) = "waiting"
        /\ jobs'[k].attempt = jobs[k].attempt /\ HolderOf(jobs'[k]) = HolderOf(jobs[k])
    BY <1>9, RequeuedSeen
  <2>2. /\ SeenPhase[k] = "backoff" /\ SeenPhase' = [SeenPhase EXCEPT ![k] = "waiting"]
        /\ SeenGrants' = SeenGrants /\ SeenHolder' = SeenHolder
    BY <1>3, <1>4, <1>5, <1>6, <2>1
  <2>3. Lifecycle!Requeue(k)
    BY <2>2 DEF Lifecycle!Requeue, SeenPhase, SeenGrants, SeenHolder, PhaseOf, HolderOf
  <2> QED
    BY <1>2, <2>3 DEF Lifecycle!Next
<1> QED
  BY <1>2, <1>7, <1>8, <1>9 DEF JobMove

\* An admission is seen as one, because an absent row was granted nothing.
LEMMA AdmissionSeen ==
  ASSUME JInv, Admission
  PROVE  Lifecycle!Next
<1>1. TypeOK /\ \A j \in Jobs : RowOK(jobs[j], clock)
  BY DEF JInv, IInv, RowsOK
<1>2. PICK k \in Jobs : jobs[k].status = "absent" /\ jobs' = [jobs EXCEPT ![k] = Admitted(clock)]
  BY DEF Admission
<1>3. /\ jobs[k] = NoRow /\ NoRow.attempt = 0 /\ NoRow.status = "absent"
      /\ Admitted(clock).attempt = 0 /\ Admitted(clock).status = "queued"
  BY <1>1, <1>2 DEF RowOK, NoRow, Admitted
<1>4. /\ PhaseOf(jobs[k]) = "absent" /\ PhaseOf(Admitted(clock)) = "waiting"
      /\ Admitted(clock).attempt = jobs[k].attempt /\ HolderOf(Admitted(clock)) = HolderOf(jobs[k])
  BY <1>3 DEF PhaseOf, HolderOf
<1>5. /\ SeenPhase' = [SeenPhase EXCEPT ![k] = PhaseOf(Admitted(clock))]
      /\ SeenGrants' = [SeenGrants EXCEPT ![k] = Admitted(clock).attempt]
      /\ SeenHolder' = [SeenHolder EXCEPT ![k] = HolderOf(Admitted(clock))]
  BY <1>1, <1>2, SeenChange DEF SeenPhase, SeenGrants, SeenHolder
<1>6. /\ SeenPhase[k] = "absent" /\ SeenPhase' = [SeenPhase EXCEPT ![k] = "waiting"]
      /\ SeenGrants' = SeenGrants /\ SeenHolder' = SeenHolder
  BY <1>2, <1>4, <1>5 DEF SeenPhase, SeenGrants, SeenHolder
<1>7. Lifecycle!Admit(k)
  BY <1>6 DEF Lifecycle!Admit, SeenPhase, SeenGrants, SeenHolder, PhaseOf, HolderOf
<1> QED
  BY <1>2, <1>7 DEF Lifecycle!Next

\* So is a removal.
LEMMA RemovalSeen ==
  ASSUME Removal
  PROVE  Lifecycle!Next
<1>1. PICK doomed \in SUBSET Jobs : jobs' = Removed(doomed)
  BY DEF Removal
<1>2. \A j \in Jobs : jobs'[j] = IF j \in doomed THEN NoRow ELSE jobs[j]
  BY <1>1 DEF Removed
<1>3. PhaseOf(NoRow) = "absent" /\ NoRow.attempt = 0 /\ HolderOf(NoRow) = NoService
  BY DEF NoRow, PhaseOf, HolderOf
<1>4. /\ \A j \in Jobs : PhaseOf(jobs'[j]) = IF j \in doomed THEN "absent" ELSE SeenPhase[j]
      /\ \A j \in Jobs : jobs'[j].attempt = IF j \in doomed THEN 0 ELSE SeenGrants[j]
      /\ \A j \in Jobs : HolderOf(jobs'[j]) = IF j \in doomed THEN NoService ELSE SeenHolder[j]
  BY <1>2, <1>3 DEF SeenPhase, SeenGrants, SeenHolder
<1>5. SeenPhase' = [j \in Jobs |-> IF j \in doomed THEN "absent" ELSE SeenPhase[j]]
  BY <1>4 DEF SeenPhase
<1>6. SeenGrants' = [j \in Jobs |-> IF j \in doomed THEN 0 ELSE SeenGrants[j]]
  BY <1>4 DEF SeenGrants
<1>7. SeenHolder' = [j \in Jobs |-> IF j \in doomed THEN NoService ELSE SeenHolder[j]]
  BY <1>4 DEF SeenHolder
<1>8. Lifecycle!Remove(doomed)
  BY <1>5, <1>6, <1>7 DEF Lifecycle!Remove, SeenPhase, SeenGrants, SeenHolder, PhaseOf, HolderOf
<1> QED
  BY <1>8 DEF Lifecycle!Next

\* Every behaviour of the bridge is a life of its jobs as JobLifecycle promises it: at most
\* MaxAttempts grants per admission, each ended once, and nothing but removal after the end.
THEOREM LifecycleImplemented == Spec => ImplementsLifecycle
<1>1. Init => Lifecycle!Init
  <2> SUFFICES ASSUME Init PROVE Lifecycle!Init
    OBVIOUS
  <2>1. \A j \in Jobs : jobs[j].status = "absent" /\ jobs[j].attempt = 0
    BY DEF Init, NoRow
  <2> QED
    BY <2>1 DEF Lifecycle!Init
<1>2. JInv /\ [Next]_vars => [Lifecycle!Next]_(Lifecycle!lifecycle)
  <2> SUFFICES ASSUME JInv, [Next]_vars PROVE [Lifecycle!Next]_(Lifecycle!lifecycle)
    OBVIOUS
  <2>1. CASE jobs' = jobs
    BY <2>1 DEF Lifecycle!lifecycle
  <2>2. CASE Removal \/ Admission \/ Motion
    BY <2>2, RemovalSeen, AdmissionSeen, MotionSeen
  <2>3. CASE Next
    BY <2>1, <2>2, <2>3, JobSteps DEF JobStep
  <2> QED
    BY <2>1, <2>3 DEF vars
<1> QED
  BY <1>1, <1>2, JobInvariant, PTL DEF Spec, ImplementsLifecycle, Lifecycle!Spec
=============================================================================
