----------------------- MODULE QuestionResults_proofs -----------------------
(***************************************************************************)
(* Proofs about the answer to one question, for any number of requests in  *)
(* flight and any values of the lease, the limits and the retention.       *)
(*                                                                         *)
(* A request reads the row, awaits and writes what it decided on.  The     *)
(* store compares only the revision and the spec of what was read, so the  *)
(* argument is about revisions: every write takes a new one, hence a row   *)
(* read earlier is the stored row or of a lower revision, and a write that *)
(* passes the comparison was decided on the row that is stored.  The rest  *)
(* of the invariant says what each request may still write.                *)
(***************************************************************************)
EXTENDS QuestionResults, TLAPS

-----------------------------------------------------------------------------
(* The fields of a row, under names, so that a proof need not look inside. *)

States == Open \cup Closing \cup {"stale"}
Attempts == 0..MaxAttempts
LeaseNames == Nat \cup {Null}
Untils == Null..Retention
Evidence == 1..MaxSnapshot \cup {Null}
Deadlines == 0..Retention

Rows == [state : States, revision : Nat, spec : Specs, attempt : Attempts,
         lease : LeaseNames, until : Untils, evidence : Evidence, deadline : Deadlines]

\* A lease in review and only there, evidence with a release and only there.
Shape(row) ==
  /\ (row.until # Null) <=> (row.state = "in_review")
  /\ (row.evidence # Null) <=> (row.state = "released")

\* A row that was read is the stored one or of an earlier revision.
Version(held, stored0) ==
  /\ held.revision <= stored0.revision
  /\ held.revision = stored0.revision => held = stored0

Approved == {"building", "in_review", "released"}

\* The changes of state a request may ask the store for.
Moves ==
  ({"confirmation_required", "in_review"} \X {"building"})
  \cup ({"building"} \X {"in_review"})
  \cup ({"in_review"} \X {"released", "failed"})
  \cup ({"confirmation_required", "building", "in_review"} \X {"expired"})

\* What a request brings to the store: the next revision of the row it read,
\* with evidence of the snapshot the row's spec names.
SaveOK(call, stored0) ==
  /\ call.row \in Rows /\ Version(call.row, stored0)
  /\ call.next \in Rows /\ Shape(call.next)
  /\ call.next.revision = call.row.revision + 1 /\ call.next.spec = call.row.spec
  /\ <<call.row.state, call.next.state>> \in Moves
  /\ call.next.state = "released" => call.next.evidence = call.next.spec.snapshot

\* A service between its claim and its release. The rows it got are not older
\* than its spec.
ExecutionOK(call, stored0, newest) ==
  /\ call.row \in Rows /\ Version(call.row, stored0)
  /\ call.pc \in {"query", "executed"} => call.row.spec.snapshot <= newest
  /\ call.pc = "executed" =>
       /\ call.data \in 1..MaxSnapshot
       /\ call.row.spec.snapshot <= call.data /\ call.data <= newest

\* A refresh proposes what was not proposed, and counts what it read.
RefreshOK(call, newest) ==
  /\ call.row \in Rows
  /\ call.spec \in Specs /\ call.spec # call.row.spec /\ call.spec.snapshot <= newest
  /\ call.count \in 0..MaxRefresh /\ call.count < MaxRefresh

\* A page that still reads the row.
GlanceOK(call, stored0) ==
  /\ call.row \in Rows /\ Version(call.row, stored0)
  /\ call.pc = "history" => call.row.state = "released"

\* What a page came to: it shows a release, or what it was executed on, only of
\* the revision that is released.
ReadingOK(base, stored0) ==
  /\ base.revision \in Nat /\ base.revision <= stored0.revision
  /\ base.revision = stored0.revision =>
       /\ base.state = "released" => stored0.state = "released"
       /\ base.executed # Null => base.executed = stored0.evidence

\* The last reads of a page: the offer is about the row and the snapshot read.
FenceOK(call, stored0, count) ==
  /\ ReadingOK(call.base, stored0)
  /\ call.row \in Rows /\ Version(call.row, stored0)
  /\ call.offer = "available" =>
       /\ call.row.state \in Open \cup {"stale"}
       /\ call.row.spec # [snapshot |-> call.newest, code |-> call.base.code]
       /\ call.row.revision = stored0.revision => count < MaxRefresh

Places == {"idle", "save", "leased", "query", "executed", "refresh"} \cup Viewing

CallOK(call, stored0, newest, count) ==
  /\ call.pc \in Places
  /\ call.pc = "save" => SaveOK(call, stored0)
  /\ call.pc \in {"leased", "query", "executed"} => ExecutionOK(call, stored0, newest)
  /\ call.pc = "refresh" => RefreshOK(call, newest)
  /\ call.pc \in {"view", "recheck", "history"} => GlanceOK(call, stored0)
  /\ call.pc = "reading" => ReadingOK(call, stored0)
  /\ call.pc = "fence" => FenceOK(call, stored0, count)

Typing ==
  /\ now \in 0..MaxTime /\ snapshot \in 1..MaxSnapshot /\ code \in 1..MaxCode
  /\ result \in Rows /\ Shape(result)
  /\ refreshes \in 0..MaxRefresh
  /\ \A h \in confirmations :
       h.revision \in Nat /\ h.revision < result.revision /\ h.spec \in Specs

\* What was approved was confirmed, and no row is ahead of the data.
RowOK ==
  /\ result.spec.snapshot <= snapshot
  /\ result.state \in Approved => \E h \in confirmations : h.spec = result.spec

CallsOK == calls = [c \in Calls |-> calls[c]]
           /\ \A c \in Calls : CallOK(calls[c], result, snapshot, refreshes)

\* The inductive invariant.
IInv == Typing /\ RowOK /\ CallsOK

-----------------------------------------------------------------------------
(* The values of the constants, and the types of a row's fields. *)

\* The limits and times are natural numbers.
LEMMA Times ==
  /\ Lease \in Nat \ {0} /\ Day \in Nat \ {0} /\ Retention \in Nat \ {0} /\ MaxTime \in Nat
  /\ MaxAttempts \in Nat \ {0} /\ MaxSnapshot \in Nat \ {0} /\ MaxCode \in Nat \ {0}
  /\ MaxRefresh \in Nat
BY ResultTimes, ResultBounds

\* The types of the fields of a row.
LEMMA RowFields ==
  ASSUME NEW r \in Rows
  PROVE  /\ r.state \in States /\ r.revision \in Nat /\ r.spec \in Specs
         /\ r.attempt \in Attempts /\ r.lease \in LeaseNames /\ r.until \in Untils
         /\ r.evidence \in Evidence /\ r.deadline \in Deadlines
BY DEF Rows

\* The numbers among them.
LEMMA RowNumbers ==
  ASSUME NEW r \in Rows
  PROVE  /\ r.spec.snapshot \in 1..MaxSnapshot /\ r.spec.snapshot \in Nat
         /\ r.attempt \in Nat /\ r.until \in Int /\ r.evidence \in Int
         /\ r.until # Null => r.until \in Nat
<1>1. r.spec \in Specs /\ r.attempt \in Attempts /\ r.until \in Untils /\ r.evidence \in Evidence
  BY RowFields
<1>2. QED  BY <1>1, Times DEF Specs, Attempts, Untils, Evidence, Null

\* The type of a row as the module states it.
LEMMA RowType == Rows = Row
BY DEF Row, Rows, States, Attempts, LeaseNames, Untils, Evidence, Deadlines

\* The next revision of a row differs from it in nothing else.
LEMMA RevisedRow ==
  ASSUME NEW r \in Rows
  PROVE  /\ Revised(r) \in Rows /\ Revised(r).revision = r.revision + 1
         /\ Revised(r).state = r.state /\ Revised(r).spec = r.spec
         /\ Revised(r).attempt = r.attempt /\ Revised(r).until = r.until
         /\ Revised(r).evidence = r.evidence
<1> DEFINE next == r.revision + 1
<1>1. next \in Nat  BY RowFields
<1>2. Revised(r) = [r EXCEPT !.revision = next]  BY DEF Revised
<1>3. next = r.revision + 1  OBVIOUS
<1> HIDE DEF next
<1>4. [r EXCEPT !.revision = next] \in Rows  BY <1>1 DEF Rows
<1>5. QED  BY <1>2, <1>3, <1>4, RowFields DEF Rows

\* What the confirmation form saves.
LEMMA ConfirmedRow ==
  ASSUME NEW r \in Rows
  PROVE  LET next == [r EXCEPT !.state = "building"]
         IN  /\ next \in Rows /\ next.revision = r.revision /\ next.spec = r.spec
             /\ next.state = "building" /\ next.until = r.until /\ next.evidence = r.evidence
<1>1. "building" \in States  BY DEF States, Open
<1>2. QED  BY <1>1, RowFields DEF Rows

\* What a claim saves: a lease that ends after now and not after retention.
LEMMA ClaimedRow ==
  ASSUME NEW r \in Rows, r.attempt < MaxAttempts, NEW t \in Nat
  PROVE  LET next == [r EXCEPT !.state = "in_review", !.attempt = @ + 1,
                               !.lease = r.revision, !.until = EarlierOf(t + Lease, Retention)]
         IN  /\ next \in Rows /\ next.revision = r.revision /\ next.spec = r.spec
             /\ next.state = "in_review" /\ next.until # Null /\ next.evidence = r.evidence
<1> DEFINE attempt == r.attempt + 1
           until == EarlierOf(t + Lease, Retention)
           next == [r EXCEPT !.state = "in_review", !.attempt = attempt,
                             !.lease = r.revision, !.until = until]
<1>1. attempt \in Attempts
  <2>1. r.attempt \in Nat  BY RowNumbers
  <2>2. QED  BY <2>1, Times DEF Attempts
<1>2. until \in Untils /\ until # Null  BY Times DEF EarlierOf, Untils, Null
<1>3. "in_review" \in States  BY DEF States, Open
<1>4. r.revision \in LeaseNames  BY RowFields DEF LeaseNames
<1>5. [r EXCEPT !.state = "in_review", !.attempt = @ + 1, !.lease = r.revision,
                !.until = EarlierOf(t + Lease, Retention)] = next
  BY RowFields DEF Rows
<1> HIDE DEF attempt, until
<1>6. next \in Rows  BY <1>1, <1>2, <1>3, <1>4 DEF Rows
<1>7. /\ next.revision = r.revision /\ next.spec = r.spec /\ next.state = "in_review"
      /\ next.until = until /\ next.evidence = r.evidence
  BY <1>1, <1>2, <1>3, <1>4, RowFields DEF Rows
<1> HIDE DEF next
<1>8. QED  BY <1>2, <1>5, <1>6, <1>7

\* What a release saves: the evidence of the query, and no lease.
LEMMA ReleasedRow ==
  ASSUME NEW r \in Rows, NEW data \in 1..MaxSnapshot
  PROVE  LET next == [r EXCEPT !.state = "released", !.until = Null, !.evidence = data]
         IN  /\ next \in Rows /\ next.revision = r.revision /\ next.spec = r.spec
             /\ next.state = "released" /\ next.until = Null /\ next.evidence = data
<1>1. "released" \in States  BY DEF States, Open
<1>2. Null \in Untils  BY Times DEF Untils, Null
<1>3. data \in Evidence  BY DEF Evidence
<1>4. QED  BY <1>1, <1>2, <1>3, RowFields DEF Rows

\* What recovery saves: another state, and no lease.
LEMMA ClosedRow ==
  ASSUME NEW r \in Rows, NEW state \in States
  PROVE  LET next == [r EXCEPT !.state = state, !.until = Null]
         IN  /\ next \in Rows /\ next.revision = r.revision /\ next.spec = r.spec
             /\ next.state = state /\ next.until = Null /\ next.evidence = r.evidence
<1>1. Null \in Untils  BY Times DEF Untils, Null
<1>2. QED  BY <1>1, RowFields DEF Rows

\* A proposal is a row without a lease and without evidence.
LEMMA ProposedRow ==
  ASSUME NEW spec \in Specs, NEW revision \in Nat, NEW t \in Nat
  PROVE  LET next == Proposal(spec, revision, t)
         IN  /\ next \in Rows /\ Shape(next) /\ next.revision = revision /\ next.spec = spec
             /\ next.state = "confirmation_required"
<1> DEFINE deadline == EarlierOf(t + Day, Retention)
           next == [state |-> "confirmation_required", revision |-> revision, spec |-> spec,
                    attempt |-> 0, lease |-> Null, until |-> Null, evidence |-> Null,
                    deadline |-> deadline]
<1>1. deadline \in Deadlines  BY Times DEF EarlierOf, Deadlines
<1>2. 0 \in Attempts /\ Null \in LeaseNames /\ Null \in Untils /\ Null \in Evidence
  BY Times DEF Attempts, LeaseNames, Untils, Evidence, Null
<1>3. "confirmation_required" \in States  BY DEF States, Open
<1>4. Proposal(spec, revision, t) = next  BY DEF Proposal
<1> HIDE DEF deadline
<1>5. next \in Rows  BY <1>1, <1>2, <1>3 DEF Rows
<1>6. QED  BY <1>4, <1>5 DEF Shape

-----------------------------------------------------------------------------
(* Requests in flight, while something else happens. *)

\* A row of a lower revision than the stored one is a version of it.
LEMMA OlderVersion ==
  ASSUME NEW held \in Rows, NEW old \in Rows, NEW new \in Rows,
         Version(held, old), new.revision = old.revision + 1
  PROVE  Version(held, new)
<1>1. held.revision \in Nat /\ old.revision \in Nat  BY RowFields
<1>2. held.revision <= old.revision  BY DEF Version
<1>3. held.revision < new.revision  BY <1>1, <1>2
<1>4. held.revision <= new.revision /\ held.revision # new.revision  BY <1>1, <1>2
<1>5. QED  BY <1>4 DEF Version

\* What a request carries stays true when the data moves on.
LEMMA NewestKept ==
  ASSUME NEW k, NEW r, NEW n \in Nat, NEW m, NEW n2 \in Nat, n <= n2, CallOK(k, r, n, m)
  PROVE  CallOK(k, r, n2, m)
<1>1. ASSUME k.pc \in {"leased", "query", "executed"}  PROVE ExecutionOK(k, r, n2)
  <2>1. ExecutionOK(k, r, n)  BY <1>1 DEF CallOK
  <2>2. k.row \in Rows  BY <2>1 DEF ExecutionOK
  <2>3. k.row.spec.snapshot \in Nat  BY <2>2, RowNumbers
  <2>4. ASSUME k.pc = "executed"  PROVE k.data \in Nat
    <3>1. k.data \in 1..MaxSnapshot  BY <2>1, <2>4 DEF ExecutionOK
    <3>2. QED  BY <3>1, Times
  <2>5. QED  BY <2>1, <2>3, <2>4 DEF ExecutionOK
<1>2. ASSUME k.pc = "refresh"  PROVE RefreshOK(k, n2)
  <2>1. RefreshOK(k, n)  BY <1>2 DEF CallOK
  <2>2. k.spec.snapshot \in Nat  BY <2>1, Times DEF RefreshOK, Specs
  <2>3. QED  BY <2>1, <2>2 DEF RefreshOK
<1>3. QED  BY <1>1, <1>2 DEF CallOK

\* What a request carries stays true when the row takes its next revision.
LEMMA RevisionKept ==
  ASSUME NEW k, NEW r \in Rows, NEW n, NEW m, NEW r2 \in Rows, NEW m2,
         r2.revision = r.revision + 1, CallOK(k, r, n, m)
  PROVE  CallOK(k, r2, n, m2)
<1>1. ASSUME k.pc = "save"  PROVE SaveOK(k, r2)
  BY <1>1, OlderVersion DEF CallOK, SaveOK
<1>2. ASSUME k.pc \in {"leased", "query", "executed"}  PROVE ExecutionOK(k, r2, n)
  <2>1. ExecutionOK(k, r, n)  BY <1>2 DEF CallOK
  <2>2. Version(k.row, r2)  BY <2>1, OlderVersion DEF ExecutionOK
  <2>3. QED  BY <2>1, <2>2 DEF ExecutionOK
<1>3. ASSUME k.pc \in {"view", "recheck", "history"}  PROVE GlanceOK(k, r2)
  BY <1>3, OlderVersion DEF CallOK, GlanceOK
<1>4. ASSUME NEW base, ReadingOK(base, r)  PROVE ReadingOK(base, r2)
  <2>1. base.revision \in Nat /\ base.revision <= r.revision  BY <1>4 DEF ReadingOK
  <2>2. r.revision \in Nat  BY RowFields
  <2>3. base.revision <= r2.revision /\ base.revision # r2.revision  BY <2>1, <2>2
  <2>4. QED  BY <2>1, <2>3 DEF ReadingOK
<1>5. ASSUME k.pc = "fence"  PROVE FenceOK(k, r2, m2)
  <2>1. FenceOK(k, r, m)  BY <1>5 DEF CallOK
  <2>2. k.row \in Rows /\ Version(k.row, r)  BY <2>1 DEF FenceOK
  <2>3. Version(k.row, r2)  BY <2>2, OlderVersion
  <2>4. k.row.revision # r2.revision
    <3>1. k.row.revision \in Nat /\ r.revision \in Nat  BY <2>2, RowFields
    <3>2. QED  BY <2>2, <3>1 DEF Version
  <2>5. ReadingOK(k.base, r2)  BY <1>4, <2>1 DEF FenceOK
  <2>6. QED  BY <2>1, <2>3, <2>4, <2>5 DEF FenceOK
<1>6. ASSUME k.pc = "reading"  PROVE ReadingOK(k, r2)
  BY <1>4, <1>6 DEF CallOK
<1>7. QED  BY <1>1, <1>2, <1>3, <1>5, <1>6 DEF CallOK

\* A slot that is free carries nothing.
LEMMA IdleOK ==
  ASSUME NEW r, NEW n, NEW m
  PROVE  CallOK(Idle, r, n, m)
BY DEF CallOK, Idle, Places

\* A step of one request leaves the others alone.
LEMMA CallOnly ==
  ASSUME NEW r, NEW n, NEW m, NEW c \in Calls, NEW state,
         calls = [d \in Calls |-> calls[d]], Goto(c, state),
         \A d \in Calls : CallOK(calls[d], r, n, m), CallOK(state, r, n, m)
  PROVE  /\ calls' = [d \in Calls |-> calls'[d]]
         /\ \A d \in Calls : CallOK(calls'[d], r, n, m)
<1>1. calls' = [calls EXCEPT ![c] = state]  BY DEF Goto
<1>2. QED  BY <1>1

\* A step of a request that stores nothing.
LEMMA StepOnly ==
  ASSUME IInv, NEW c \in Calls, NEW state, Goto(c, state), UNCHANGED stored,
         CallOK(state, result, snapshot, refreshes)
  PROVE  IInv'
<1>1. /\ calls' = [d \in Calls |-> calls'[d]]
      /\ \A d \in Calls : CallOK(calls'[d], result, snapshot, refreshes)
  BY CallOnly DEF IInv, CallsOK
<1>2. /\ result' = result /\ snapshot' = snapshot /\ refreshes' = refreshes
      /\ now' = now /\ code' = code /\ confirmations' = confirmations
  BY DEF stored
<1>3. CallsOK'  BY <1>1, <1>2 DEF CallsOK
<1>4. Typing' /\ RowOK'  BY <1>2 DEF IInv, Typing, RowOK
<1>5. QED  BY <1>3, <1>4 DEF IInv

-----------------------------------------------------------------------------
(* The invariant holds at first. *)

\* The first proposal is of the first snapshot.
LEMMA InvInit == Init => IInv
<1> SUFFICES ASSUME Init PROVE IInv  OBVIOUS
<1> DEFINE spec == SpecOf(1)
<1>1. spec \in Specs /\ spec.snapshot = 1  BY Times DEF SpecOf, Specs, Init
<1>2. result = Proposal(spec, 1, 0)  BY DEF Init
<1> HIDE DEF spec
<1>3. /\ result \in Rows /\ Shape(result) /\ result.revision = 1 /\ result.spec = spec
      /\ result.state = "confirmation_required"
  BY <1>1, <1>2, ProposedRow
<1>4. Typing  BY <1>3, Times DEF Typing, Init
<1>5. RowOK  BY <1>1, <1>3 DEF RowOK, Init, Approved
<1>6. CallsOK  BY IdleOK DEF CallsOK, Init
<1>7. QED  BY <1>4, <1>5, <1>6 DEF IInv

-----------------------------------------------------------------------------
(* The environment and the sweep. *)

\* The clock and the deployments change nothing a request depends on.
LEMMA TickInv == IInv /\ (Tick \/ Deploy) => IInv'
<1> SUFFICES ASSUME IInv, Tick \/ Deploy PROVE IInv'  OBVIOUS
<1>1. /\ result' = result /\ snapshot' = snapshot /\ refreshes' = refreshes
      /\ calls' = calls /\ confirmations' = confirmations
  BY DEF Tick, Deploy
<1>2. now' \in 0..MaxTime /\ code' \in 1..MaxCode  BY Times DEF Tick, Deploy, IInv, Typing
<1>3. Typing' /\ RowOK'  BY <1>1, <1>2 DEF IInv, Typing, RowOK
<1>4. CallsOK'  BY <1>1 DEF IInv, CallsOK
<1>5. QED  BY <1>3, <1>4 DEF IInv

\* A new snapshot is ahead of what every request has seen.
LEMMA NewSnapshotInv == IInv /\ NewSnapshot => IInv'
<1> SUFFICES ASSUME IInv, NewSnapshot PROVE IInv'  OBVIOUS
<1>1. /\ result' = result /\ now' = now /\ code' = code /\ refreshes' = refreshes
      /\ calls' = calls /\ confirmations' = confirmations
      /\ snapshot < MaxSnapshot /\ snapshot' = snapshot + 1
  BY DEF NewSnapshot
<1>2. /\ snapshot \in Nat /\ snapshot' \in Nat /\ snapshot <= snapshot'
      /\ snapshot' \in 1..MaxSnapshot
  BY <1>1, Times DEF IInv, Typing
<1>3. Typing'  BY <1>1, <1>2 DEF IInv, Typing
<1>4. RowOK'
  <2>1. result.spec.snapshot \in Nat  BY RowNumbers DEF IInv, Typing
  <2>2. QED  BY <1>1, <1>2, <2>1 DEF IInv, RowOK
<1>5. \A c \in Calls : CallOK(calls[c], result, snapshot', refreshes)
  BY <1>2, NewestKept DEF IInv, CallsOK
<1>6. CallsOK'  BY <1>1, <1>5 DEF IInv, CallsOK
<1>7. QED  BY <1>3, <1>4, <1>6 DEF IInv

\* A row that moves on to its next revision, with its slots kept.
LEMMA RowMoved ==
  ASSUME IInv, NEW next \in Rows, Shape(next), next.revision = result.revision + 1,
         result' = next, next.spec \in Specs, next.spec.snapshot <= snapshot,
         refreshes' \in 0..MaxRefresh,
         \A h \in confirmations' :
           (h \in confirmations \/ h = [revision |-> result.revision, spec |-> result.spec]),
         next.state \in Approved => \E h \in confirmations' : h.spec = next.spec,
         UNCHANGED <<now, snapshot, code>>
  PROVE  /\ Typing' /\ RowOK'
         /\ \A d \in Calls : CallOK(calls[d], next, snapshot, refreshes')
<1>1. result \in Rows  BY DEF IInv, Typing
<1>2. \A d \in Calls : CallOK(calls[d], next, snapshot, refreshes')
  BY <1>1, RevisionKept DEF IInv, CallsOK
<1>3. result.revision \in Nat /\ result.spec \in Specs  BY <1>1, RowFields
<1>4. \A h \in confirmations' :
        h.revision \in Nat /\ h.revision < next.revision /\ h.spec \in Specs
  <2> SUFFICES ASSUME NEW h \in confirmations'
               PROVE  h.revision \in Nat /\ h.revision < next.revision /\ h.spec \in Specs
    OBVIOUS
  <2>1. CASE h \in confirmations
    <3>1. h.revision \in Nat /\ h.revision < result.revision /\ h.spec \in Specs
      BY <2>1 DEF IInv, Typing
    <3>2. QED  BY <1>3, <3>1
  <2>2. CASE h = [revision |-> result.revision, spec |-> result.spec]
    BY <1>3, <2>2
  <2>3. QED  BY <2>1, <2>2
<1>5. Typing'  BY <1>4 DEF IInv, Typing
<1>6. RowOK'  BY DEF RowOK
<1>7. QED  BY <1>2, <1>5, <1>6

\* Maintenance withdraws the row and what it was executed on.
LEMMA MaintainedRow ==
  ASSUME NEW r \in Rows, NEW state \in States, state \notin {"in_review", "released"}
  PROVE  LET next == [Revised(r) EXCEPT !.state = state, !.until = Null, !.evidence = Null]
         IN  /\ next \in Rows /\ Shape(next) /\ next.revision = r.revision + 1
             /\ next.spec = r.spec /\ next.state = state
<1> DEFINE base == Revised(r)
           next == [base EXCEPT !.state = state, !.until = Null, !.evidence = Null]
<1>1. base \in Rows /\ base.revision = r.revision + 1 /\ base.spec = r.spec
  BY RevisedRow
<1> HIDE DEF base
<1>2. Null \in Untils /\ Null \in Evidence  BY Times DEF Untils, Evidence, Null
<1>3. /\ next \in Rows /\ next.state = state /\ next.until = Null /\ next.evidence = Null
      /\ next.revision = base.revision /\ next.spec = base.spec
  BY <1>1, <1>2, RowFields DEF Rows
<1> HIDE DEF next
<1>4. Shape(next) /\ next.revision = r.revision + 1 /\ next.spec = r.spec
  BY <1>1, <1>3 DEF Shape
<1>5. QED  BY <1>3, <1>4 DEF base, next

\* The sweep moves the row on; requests that had read it find another revision.
LEMMA MaintainInv == IInv /\ Maintain => IInv'
<1> SUFFICES ASSUME IInv, Maintain PROVE IInv'  OBVIOUS
<1> DEFINE state == IF Overdue THEN "expired" ELSE "stale"
<1>1. /\ result' = [Revised(result) EXCEPT !.state = state, !.until = Null, !.evidence = Null]
      /\ now' = now /\ snapshot' = snapshot /\ code' = code /\ refreshes' = refreshes
      /\ confirmations' = confirmations /\ calls' = calls
  BY DEF Maintain
<1>2. /\ state \in States /\ state \notin {"in_review", "released"} /\ state \notin Approved
  BY DEF States, Closing, Approved
<1>3. result \in Rows  BY DEF IInv, Typing
<1> HIDE DEF state
<1>4. /\ result' \in Rows /\ Shape(result') /\ result'.revision = result.revision + 1
      /\ result'.spec = result.spec /\ result'.state = state
  BY <1>1, <1>2, <1>3, MaintainedRow
<1>5. result.spec \in Specs /\ result.spec.snapshot <= snapshot /\ refreshes \in 0..MaxRefresh
  BY <1>3, RowFields DEF IInv, Typing, RowOK
<1>6. /\ Typing' /\ RowOK'
      /\ \A d \in Calls : CallOK(calls[d], result', snapshot, refreshes)
  BY <1>1, <1>2, <1>4, <1>5, RowMoved
<1>7. CallsOK'  BY <1>1, <1>6 DEF IInv, CallsOK
<1>8. QED  BY <1>6, <1>7 DEF IInv

-----------------------------------------------------------------------------
(* Requests that read the row and decide what to save. *)

\* A row is a version of itself.
LEMMA SameVersion ==
  ASSUME NEW r \in Rows
  PROVE  Version(r, r)
<1>1. r.revision \in Nat  BY RowFields
<1>2. QED  BY <1>1 DEF Version

\* What a request decided on the stored row may be saved.
LEMMA SavingOK ==
  ASSUME result \in Rows, NEW next \in Rows, NEW version,
         next.revision = result.revision, next.spec = result.spec, Shape(next),
         <<result.state, next.state>> \in Moves,
         next.state = "released" => next.evidence = next.spec.snapshot
  PROVE  CallOK(Saving(result, next, version), result, snapshot, refreshes)
<1> DEFINE call == Saving(result, next, version)
           saved == Revised(next)
<1>1. call.pc = "save" /\ call.row = result /\ call.next = saved  BY DEF Saving
<1>2. /\ saved \in Rows /\ saved.revision = next.revision + 1 /\ saved.state = next.state
      /\ saved.spec = next.spec /\ saved.until = next.until /\ saved.evidence = next.evidence
  BY RevisedRow
<1>3. Version(result, result)  BY SameVersion
<1> HIDE DEF call, saved
<1>4. Shape(saved)  BY <1>2 DEF Shape
<1>5. SaveOK(call, result)  BY <1>1, <1>2, <1>3, <1>4 DEF SaveOK
<1>6. CallOK(call, result, snapshot, refreshes)  BY <1>1, <1>5 DEF CallOK, Places
<1>7. QED  BY <1>6 DEF call

\* A confirmation asks for execution.
LEMMA ConfirmInv == \A c \in Calls : IInv /\ Confirm(c) => IInv'
<1> SUFFICES ASSUME NEW c \in Calls, IInv, Confirm(c) PROVE IInv'  OBVIOUS
<1> DEFINE next == [result EXCEPT !.state = "building"]
           state == Saving(result, next, code)
<1>1. /\ result.state = "confirmation_required" /\ Goto(c, state) /\ UNCHANGED stored
  BY DEF Confirm
<1>2. result \in Rows /\ Shape(result)  BY DEF IInv, Typing
<1>3. /\ next \in Rows /\ next.revision = result.revision /\ next.spec = result.spec
      /\ next.state = "building" /\ next.until = result.until
      /\ next.evidence = result.evidence
  BY <1>2, ConfirmedRow
<1> HIDE DEF next
<1>4. Shape(next)  BY <1>1, <1>2, <1>3 DEF Shape
<1>5. <<result.state, next.state>> \in Moves  BY <1>1, <1>3 DEF Moves
<1>6. next.state # "released"  BY <1>3
<1>7. CallOK(state, result, snapshot, refreshes)
  BY <1>2, <1>3, <1>4, <1>5, <1>6, SavingOK
<1> HIDE DEF state
<1>8. QED  BY <1>1, <1>7, StepOnly

\* A claim asks for a lease.
LEMMA ClaimInv == \A c \in Calls : IInv /\ Claim(c) => IInv'
<1> SUFFICES ASSUME NEW c \in Calls, IInv, Claim(c) PROVE IInv'  OBVIOUS
<1> DEFINE next == [result EXCEPT !.state = "in_review", !.attempt = @ + 1,
                                  !.lease = result.revision,
                                  !.until = EarlierOf(now + Lease, Retention)]
           state == Saving(result, next, code)
<1>1. /\ result.state = "building" /\ result.attempt < MaxAttempts
      /\ Goto(c, state) /\ UNCHANGED stored
  BY DEF Claim
<1>2. result \in Rows /\ Shape(result) /\ now \in Nat  BY DEF IInv, Typing
<1>3. /\ next \in Rows /\ next.revision = result.revision /\ next.spec = result.spec
      /\ next.state = "in_review" /\ next.until # Null /\ next.evidence = result.evidence
  BY <1>1, <1>2, ClaimedRow
<1> HIDE DEF next
<1>4. Shape(next)  BY <1>1, <1>2, <1>3 DEF Shape
<1>5. <<result.state, next.state>> \in Moves  BY <1>1, <1>3 DEF Moves
<1>6. next.state # "released"  BY <1>3
<1>7. CallOK(state, result, snapshot, refreshes)
  BY <1>2, <1>3, <1>4, <1>5, <1>6, SavingOK
<1> HIDE DEF state
<1>8. QED  BY <1>1, <1>7, StepOnly

\* Recovery asks to close what lapsed, or to give up a lease that ran out.
LEMMA RecoverInv == \A c \in Calls : IInv /\ Recover(c) => IInv'
<1> SUFFICES ASSUME NEW c \in Calls, IInv, Recover(c) PROVE IInv'  OBVIOUS
<1>1. PICK to \in States :
        /\ <<result.state, to>> \in Moves /\ to \notin {"in_review", "released"}
        /\ result.state # "released"
        /\ Goto(c, Saving(result, [result EXCEPT !.state = to, !.until = Null], code))
        /\ UNCHANGED stored
  <2>1. CASE /\ result.state \in Open \ {"released"}
             /\ Goto(c, Saving(result, [result EXCEPT !.state = "expired", !.until = Null],
                               code))
    <3>1. "expired" \in States  BY DEF States, Closing
    <3>2. <<result.state, "expired">> \in Moves  BY <2>1 DEF Open, Moves
    <3>3. QED  BY <2>1, <3>1, <3>2 DEF Recover
  <2>2. CASE /\ result.state = "in_review"
             /\ Goto(c, Saving(result, [result EXCEPT !.until = Null, !.state =
                          IF result.attempt >= MaxAttempts THEN "failed" ELSE "building"],
                               code))
    <3> DEFINE to == IF result.attempt >= MaxAttempts THEN "failed" ELSE "building"
    <3>1. to \in {"failed", "building"}  OBVIOUS
    <3>2. Goto(c, Saving(result, [result EXCEPT !.until = Null, !.state = to], code))
      BY <2>2
    <3> HIDE DEF to
    <3>3. [result EXCEPT !.until = Null, !.state = to]
            = [result EXCEPT !.state = to, !.until = Null]
      BY DEF IInv, Typing, Rows
    <3>4. to \in States  BY <3>1 DEF States, Open, Closing
    <3>5. <<result.state, to>> \in Moves  BY <2>2, <3>1 DEF Moves
    <3>6. QED  BY <2>2, <3>1, <3>2, <3>3, <3>4, <3>5 DEF Recover
  <2>3. QED  BY <2>1, <2>2 DEF Recover
<1> DEFINE next == [result EXCEPT !.state = to, !.until = Null]
           state == Saving(result, next, code)
<1>2. result \in Rows /\ Shape(result)  BY DEF IInv, Typing
<1>3. /\ next \in Rows /\ next.revision = result.revision /\ next.spec = result.spec
      /\ next.state = to /\ next.until = Null /\ next.evidence = result.evidence
  BY <1>2, ClosedRow
<1>4. Goto(c, state) /\ UNCHANGED stored  BY <1>1
<1> HIDE DEF next
<1>5. Shape(next)  BY <1>1, <1>2, <1>3 DEF Shape
<1>6. <<result.state, next.state>> \in Moves /\ next.state # "released"  BY <1>1, <1>3
<1>7. CallOK(state, result, snapshot, refreshes)  BY <1>2, <1>3, <1>5, <1>6, SavingOK
<1> HIDE DEF state
<1>8. QED  BY <1>4, <1>7, StepOnly

\* Reading the lease back binds the execution to the stored row.
LEMMA BeginInv == \A c \in Calls : IInv /\ Begin(c) => IInv'
<1> SUFFICES ASSUME NEW c \in Calls, IInv, Begin(c) PROVE IInv'  OBVIOUS
<1>1. UNCHANGED stored  BY DEF Begin
<1>2. CASE Held(c)
  <2> DEFINE state == Step("query", result, calls[c].code)
  <2>1. Goto(c, state)  BY <1>2 DEF Begin
  <2>2. state.pc = "query" /\ state.row = result  BY DEF Step
  <2>3. result \in Rows /\ result.spec.snapshot <= snapshot  BY DEF IInv, Typing, RowOK
  <2>4. Version(result, result)  BY <2>3, SameVersion
  <2> HIDE DEF state
  <2>5. ExecutionOK(state, result, snapshot)  BY <2>2, <2>3, <2>4 DEF ExecutionOK
  <2>6. CallOK(state, result, snapshot, refreshes)
    BY <2>2, <2>5 DEF CallOK, Places
  <2>7. QED  BY <1>1, <2>1, <2>6, StepOnly
<1>3. CASE ~Held(c)
  <2>1. Goto(c, Idle)  BY <1>3 DEF Begin
  <2>2. QED  BY <1>1, <2>1, IdleOK, StepOnly
<1>4. QED  BY <1>2, <1>3

\* The rows a query returns are of the spec's snapshot or of a newer one.
LEMMA QueryInv == \A c \in Calls : IInv /\ Query(c) => IInv'
<1> SUFFICES ASSUME NEW c \in Calls, IInv, Query(c) PROVE IInv'  OBVIOUS
<1> DEFINE row == calls[c].row
<1>1. PICK data \in {snapshot, row.spec.snapshot} :
        Goto(c, [pc |-> "executed", row |-> row, code |-> calls[c].code, data |-> data])
  BY DEF Query
<1> DEFINE state == [pc |-> "executed", row |-> row, code |-> calls[c].code, data |-> data]
<1>2. UNCHANGED stored /\ calls[c].pc = "query"  BY DEF Query, At
<1>3. /\ row \in Rows /\ Version(row, result) /\ row.spec.snapshot <= snapshot
  BY <1>2 DEF IInv, CallsOK, CallOK, ExecutionOK
<1>4. row.spec.snapshot \in 1..MaxSnapshot /\ snapshot \in 1..MaxSnapshot
  BY <1>3, RowNumbers DEF IInv, Typing
<1>5. data \in 1..MaxSnapshot /\ row.spec.snapshot <= data /\ data <= snapshot
  BY <1>1, <1>3, <1>4, Times
<1>6. Goto(c, state) /\ state.pc = "executed" /\ state.row = row /\ state.data = data
  BY <1>1
<1> HIDE DEF state, row
<1>7. ExecutionOK(state, result, snapshot)  BY <1>3, <1>5, <1>6 DEF ExecutionOK
<1>8. CallOK(state, result, snapshot, refreshes)
  BY <1>6, <1>7 DEF CallOK, Places
<1>9. QED  BY <1>2, <1>6, <1>8, StepOnly

\* A release is asked for with evidence of the spec's snapshot: it was not newer
\* than the rows, and the snapshot has not moved past it since.
LEMMA VerifyInv == \A c \in Calls : IInv /\ Verify(c) => IInv'
<1> SUFFICES ASSUME NEW c \in Calls, IInv, Verify(c) PROVE IInv'  OBVIOUS
<1> DEFINE data == calls[c].data
           next == [result EXCEPT !.state = "released", !.until = Null, !.evidence = data]
           state == Saving(result, next, calls[c].code)
<1>1. UNCHANGED stored /\ calls[c].pc = "executed"  BY DEF Verify, At
<1>2. ExecutionOK(calls[c], result, snapshot)  BY <1>1 DEF IInv, CallsOK, CallOK
<1>3. CASE Held(c) /\ Bound(calls[c].row, calls[c].code)
  <2>1. result = calls[c].row /\ result.until > now /\ result.spec.snapshot = snapshot
    BY <1>3 DEF Held, LeaseLive
  <2>2. Goto(c, state)  BY <1>3, <2>1 DEF Verify
  <2>3. /\ data \in 1..MaxSnapshot /\ result.spec.snapshot <= data /\ data <= snapshot
    BY <1>1, <1>2, <2>1 DEF ExecutionOK
  <2>4. result \in Rows /\ Shape(result) /\ snapshot \in Nat /\ now \in Nat
    BY Times DEF IInv, Typing
  <2>5. data \in Nat  BY <2>3, Times
  <2> HIDE DEF data
  <2>6. data = snapshot  BY <2>1, <2>3, <2>4, <2>5
  <2>7. /\ next \in Rows /\ next.revision = result.revision /\ next.spec = result.spec
        /\ next.state = "released" /\ next.until = Null /\ next.evidence = data
    BY <2>3, <2>4, ReleasedRow
  <2>8. result.state = "in_review"
    <3>1. result.until # Null  BY <2>1, <2>4 DEF Null
    <3>2. QED  BY <2>4, <3>1 DEF Shape
  <2> HIDE DEF next
  <2>9. Shape(next)
    <3>1. data # Null  BY <2>5 DEF Null
    <3>2. QED  BY <2>7, <3>1 DEF Shape
  <2>10. <<result.state, next.state>> \in Moves  BY <2>7, <2>8 DEF Moves
  <2>11. next.evidence = next.spec.snapshot  BY <2>1, <2>6, <2>7
  <2>12. CallOK(state, result, snapshot, refreshes)
    BY <2>4, <2>7, <2>9, <2>10, <2>11, SavingOK
  <2> HIDE DEF state
  <2>13. QED  BY <1>1, <2>2, <2>12, StepOnly
<1>4. CASE ~(Held(c) /\ Bound(calls[c].row, calls[c].code))
  <2>1. Goto(c, Idle)  BY <1>4 DEF Verify
  <2>2. QED  BY <1>1, <2>1, IdleOK, StepOnly
<1>5. QED  BY <1>3, <1>4

\* A request that is lost or done frees its slot.
LEMMA FreedInv == \A c \in Calls : IInv /\ (Fail(c) \/ Close(c)) => IInv'
<1> SUFFICES ASSUME NEW c \in Calls, IInv, Fail(c) \/ Close(c) PROVE IInv'  OBVIOUS
<1>1. Goto(c, Idle) /\ UNCHANGED stored  BY DEF Fail, Close
<1>2. QED  BY <1>1, IdleOK, StepOnly

\* A refresh proposes the newest snapshot and the code that runs.
LEMMA RefreshInv == \A c \in Calls : IInv /\ Refresh(c) => IInv'
<1> SUFFICES ASSUME NEW c \in Calls, IInv, Refresh(c) PROVE IInv'  OBVIOUS
<1> DEFINE spec == SpecOf(code)
           state == [pc |-> "refresh", row |-> result, spec |-> spec, count |-> refreshes]
<1>1. /\ Goto(c, state) /\ UNCHANGED stored /\ refreshes < MaxRefresh /\ spec # result.spec
  BY DEF Refresh, Bound
<1>2. spec \in Specs /\ spec.snapshot <= snapshot
  BY Times DEF SpecOf, Specs, IInv, Typing
<1>3. state.pc = "refresh" /\ state.row = result /\ state.spec = spec /\ state.count = refreshes
  OBVIOUS
<1> HIDE DEF state, spec
<1>4. RefreshOK(state, snapshot)  BY <1>1, <1>2, <1>3 DEF RefreshOK, IInv, Typing
<1>5. CallOK(state, result, snapshot, refreshes)  BY <1>3, <1>4 DEF CallOK, Places
<1>6. QED  BY <1>1, <1>5, StepOnly

-----------------------------------------------------------------------------
(* The two writes of requests. *)

\* A write that passes the comparison was decided on the row that is stored.
LEMMA SaveReads ==
  ASSUME IInv, NEW c \in Calls, At(c, "save"), result.revision = calls[c].row.revision
  PROVE  /\ calls[c].row = result
         /\ calls[c].next \in Rows /\ Shape(calls[c].next)
         /\ calls[c].next.revision = result.revision + 1
         /\ calls[c].next.spec = result.spec
         /\ <<result.state, calls[c].next.state>> \in Moves
         /\ calls[c].next.state = "released" =>
              calls[c].next.evidence = result.spec.snapshot
<1>1. SaveOK(calls[c], result)  BY DEF At, IInv, CallsOK, CallOK
<1>2. calls[c].row = result  BY <1>1 DEF SaveOK, Version
<1>3. QED  BY <1>1, <1>2 DEF SaveOK

\* The row that was saved is the next revision; what its triggers recorded is the
\* confirmation.
LEMMA SaveInv == \A c \in Calls : IInv /\ Save(c) => IInv'
<1> SUFFICES ASSUME NEW c \in Calls, IInv, Save(c) PROVE IInv'  OBVIOUS
<1> DEFINE row == calls[c].row
           next == calls[c].next
           wins == Fence(row, next, calls[c].code) /\ Allowed(result, next)
<1>1. /\ At(c, "save") /\ UNCHANGED <<now, snapshot, code, refreshes>>
      /\ IF wins THEN Store(row, next) ELSE UNCHANGED <<result, confirmations>>
      /\ Goto(c, IF wins /\ next.state = "in_review" THEN Step("leased", next, calls[c].code)
                                                     ELSE Idle)
  BY DEF Save
<1>2. CASE ~wins
  <2>1. Goto(c, Idle) /\ UNCHANGED stored  BY <1>1, <1>2 DEF stored
  <2>2. QED  BY <2>1, IdleOK, StepOnly
<1>3. CASE wins
  <2>1. result.revision = row.revision  BY <1>3 DEF Fence
  <2>2. /\ row = result /\ next \in Rows /\ Shape(next)
        /\ next.revision = result.revision + 1 /\ next.spec = result.spec
        /\ <<result.state, next.state>> \in Moves
    BY <1>1, <2>1, SaveReads
  <2> DEFINE state == IF next.state = "in_review" THEN Step("leased", next, calls[c].code)
                                                 ELSE Idle
  <2>3. /\ Goto(c, state) /\ result' = next
        /\ confirmations' =
             IF Confirms(row, next)
               THEN confirmations \cup {[revision |-> row.revision, spec |-> row.spec]}
               ELSE confirmations
    BY <1>1, <1>3 DEF Store
  <2> HIDE DEF wins, row, next
  <2>4. \A h \in confirmations' :
          (h \in confirmations \/ h = [revision |-> result.revision, spec |-> result.spec])
    BY <2>2, <2>3
  <2>5. ASSUME next.state \in Approved
        PROVE  \E h \in confirmations' : h.spec = next.spec
    <3>1. CASE Confirms(row, next)
      <4>1. [revision |-> row.revision, spec |-> row.spec] \in confirmations'
        BY <2>3, <3>1
      <4>2. QED  BY <2>2, <4>1
    <3>2. CASE ~Confirms(row, next)
      <4>1. result.state \in Approved  BY <2>2, <2>5, <3>2 DEF Moves, Approved, Confirms
      <4>2. confirmations' = confirmations  BY <2>3, <3>2
      <4>3. QED  BY <2>2, <4>1, <4>2 DEF IInv, RowOK
    <3>3. QED  BY <3>1, <3>2
  <2>6. /\ result \in Rows /\ result.spec \in Specs /\ result.spec.snapshot <= snapshot
        /\ refreshes' \in 0..MaxRefresh /\ refreshes' = refreshes
        /\ UNCHANGED <<now, snapshot, code>>
    BY <1>1, RowFields DEF IInv, Typing, RowOK
  <2>7. next.spec \in Specs /\ next.spec.snapshot <= snapshot  BY <2>2, <2>6
  <2>8. /\ Typing' /\ RowOK'
        /\ \A d \in Calls : CallOK(calls[d], next, snapshot, refreshes')
    BY <2>2, <2>3, <2>4, <2>5, <2>6, <2>7, RowMoved
  <2>9. CallOK(state, next, snapshot, refreshes')
    <3>1. CASE next.state = "in_review"
      <4>1. state.pc = "leased" /\ state.row = next  BY <3>1 DEF Step
      <4>2. Version(next, next)  BY <2>2, SameVersion
      <4> HIDE DEF state
      <4>3. ExecutionOK(state, next, snapshot)  BY <2>2, <4>1, <4>2 DEF ExecutionOK
      <4>4. QED  BY <4>1, <4>3 DEF CallOK, Places
    <3>2. CASE next.state # "in_review"
      BY <3>2, IdleOK
    <3>3. QED  BY <3>1, <3>2
  <2> HIDE DEF state
  <2>10. calls = [d \in Calls |-> calls[d]]  BY DEF IInv, CallsOK
  <2>11. /\ calls' = [d \in Calls |-> calls'[d]]
         /\ \A d \in Calls : CallOK(calls'[d], next, snapshot, refreshes')
    BY <2>3, <2>8, <2>9, <2>10, CallOnly
  <2>12. CallsOK'  BY <2>3, <2>6, <2>11 DEF CallsOK
  <2>13. QED  BY <2>8, <2>12 DEF IInv
<1>4. QED  BY <1>2, <1>3

\* The command of a refresh replaces the proposal and counts it, or does nothing.
LEMMA RenewInv == \A c \in Calls : IInv /\ Renew(c) => IInv'
<1> SUFFICES ASSUME NEW c \in Calls, IInv, Renew(c) PROVE IInv'  OBVIOUS
<1> DEFINE call == calls[c]
           taken == /\ Refreshable(result)
                    /\ result.revision = call.row.revision /\ result.spec = call.row.spec
                    /\ call.spec.snapshot = snapshot
                    /\ refreshes = call.count
<1>1. /\ call.pc = "refresh" /\ Goto(c, Idle) /\ UNCHANGED <<now, snapshot, code, confirmations>>
      /\ IF taken THEN /\ result' = Proposal(call.spec, result.revision + 1, now)
                       /\ refreshes' = refreshes + 1
                  ELSE UNCHANGED <<result, refreshes>>
  BY DEF Renew, At
<1>2. RefreshOK(call, snapshot)  BY <1>1 DEF IInv, CallsOK, CallOK
<1>3. CASE ~taken
  <2>1. UNCHANGED stored  BY <1>1, <1>3 DEF stored
  <2>2. QED  BY <1>1, <2>1, IdleOK, StepOnly
<1>4. CASE taken
  <2> DEFINE next == Proposal(call.spec, result.revision + 1, now)
  <2>1. /\ result' = next /\ refreshes' = refreshes + 1 /\ refreshes = call.count
        /\ call.spec.snapshot = snapshot /\ call.spec \in Specs
        /\ call.count \in 0..MaxRefresh /\ call.count < MaxRefresh
    BY <1>1, <1>2, <1>4 DEF RefreshOK
  <2>2. result.revision + 1 \in Nat /\ now \in Nat /\ snapshot \in Nat
    <3>1. result.revision \in Nat  BY RowFields DEF IInv, Typing
    <3>2. QED  BY <3>1, Times DEF IInv, Typing
  <2>3. /\ next \in Rows /\ Shape(next) /\ next.revision = result.revision + 1
        /\ next.spec = call.spec /\ next.state = "confirmation_required"
    BY <2>1, <2>2, ProposedRow
  <2>4. refreshes' \in 0..MaxRefresh  BY <2>1, Times
  <2>5. next.spec \in Specs /\ next.spec.snapshot <= snapshot  BY <2>1, <2>2, <2>3
  <2>6. next.state \notin Approved /\ confirmations' = confirmations
    BY <1>1, <2>3 DEF Approved
  <2> HIDE DEF next, taken, call
  <2>7. /\ Typing' /\ RowOK'
        /\ \A d \in Calls : CallOK(calls[d], next, snapshot, refreshes')
    BY <1>1, <2>1, <2>3, <2>4, <2>5, <2>6, RowMoved
  <2>8. calls = [d \in Calls |-> calls[d]]  BY DEF IInv, CallsOK
  <2>9. /\ calls' = [d \in Calls |-> calls'[d]]
        /\ \A d \in Calls : CallOK(calls'[d], next, snapshot, refreshes')
    BY <1>1, <2>7, <2>8, IdleOK, CallOnly
  <2>10. CallsOK'  BY <1>1, <2>1, <2>9 DEF CallsOK
  <2>11. QED  BY <2>7, <2>10 DEF IInv
<1>5. QED  BY <1>3, <1>4

-----------------------------------------------------------------------------
(* The status page. *)

\* A page that shows neither a link nor an execution.
LEMMA UnboundOK ==
  ASSUME result \in Rows, NEW glance, NEW state, glance.row \in Rows,
         Version(glance.row, result), state # "released"
  PROVE  CallOK(Unbound(glance, state), result, snapshot, refreshes)
<1> DEFINE call == Unbound(glance, state)
<1>1. /\ call.pc = "reading" /\ call.state = state /\ call.executed = Null
      /\ call.revision = glance.row.revision
  BY DEF Unbound, Reading
<1>2. call.revision \in Nat /\ call.revision <= result.revision
  BY <1>1, RowFields DEF Version
<1> HIDE DEF call
<1>3. ReadingOK(call, result)  BY <1>1, <1>2 DEF ReadingOK
<1>4. CallOK(call, result, snapshot, refreshes)
  BY <1>1, <1>3 DEF CallOK, Places, Viewing
<1>5. QED  BY <1>4 DEF call

\* A page of a release that goes on to what it was executed on.
LEMMA RememberOK ==
  ASSUME NEW glance, NEW bound, glance.row \in Rows,
         Version(glance.row, result), glance.row.state = "released"
  PROVE  CallOK(Remember(glance, bound), result, snapshot, refreshes)
<1> DEFINE call == Remember(glance, bound)
<1>1. call.pc = "history" /\ call.row = glance.row  BY DEF Remember
<1> HIDE DEF call
<1>2. GlanceOK(call, result)  BY <1>1 DEF GlanceOK
<1>3. CallOK(call, result, snapshot, refreshes)
  BY <1>1, <1>2 DEF CallOK, Places, Viewing
<1>4. QED  BY <1>3 DEF call

\* A page of a row that is not bound.
LEMMA StaleOK ==
  ASSUME result \in Rows, NEW glance, glance.row \in Rows, Version(glance.row, result)
  PROVE  CallOK(Stale(glance), result, snapshot, refreshes)
BY UnboundOK, RememberOK DEF Stale

\* A page between two reads of the row.
LEMMA LookingOK ==
  ASSUME NEW row \in Rows, NEW version, NEW pc \in {"view", "recheck"}, Version(row, result)
  PROVE  CallOK(Step(pc, row, version), result, snapshot, refreshes)
<1> DEFINE call == Step(pc, row, version)
<1>1. call.pc = pc /\ call.row = row  BY DEF Step
<1> HIDE DEF call
<1>2. GlanceOK(call, result)  BY <1>1 DEF GlanceOK
<1>3. CallOK(call, result, snapshot, refreshes)
  BY <1>1, <1>2 DEF CallOK, Places, Viewing
<1>4. QED  BY <1>3 DEF call

\* The page reads the row.
LEMMA ViewInv == \A c \in Calls : IInv /\ View(c) => IInv'
<1> SUFFICES ASSUME NEW c \in Calls, IInv, View(c) PROVE IInv'  OBVIOUS
<1> DEFINE glance == Glance(result, code)
           state == IF Lapsed(result) THEN Unbound(glance, "expired")
                    ELSE IF result.state \notin Open THEN Unbound(glance, result.state)
                    ELSE Step("view", result, code)
<1>1. Goto(c, state) /\ UNCHANGED stored  BY DEF View
<1>2. result \in Rows  BY DEF IInv, Typing
<1>3. Version(result, result)  BY <1>2, SameVersion
<1>4. glance.row = result  BY DEF Glance
<1> HIDE DEF glance
<1>5. CallOK(Unbound(glance, "expired"), result, snapshot, refreshes)
  BY <1>2, <1>3, <1>4, UnboundOK
<1>6. result.state \notin Open =>
        CallOK(Unbound(glance, result.state), result, snapshot, refreshes)
  <2>1. result.state \notin Open => result.state # "released"  BY DEF Open
  <2>2. QED  BY <1>2, <1>3, <1>4, <2>1, UnboundOK
<1>7. CallOK(Step("view", result, code), result, snapshot, refreshes)
  BY <1>2, <1>3, LookingOK
<1>8. CallOK(state, result, snapshot, refreshes)  BY <1>5, <1>6, <1>7
<1> HIDE DEF state
<1>9. QED  BY <1>1, <1>8, StepOnly

\* It compares what it read.
LEMMA CompareInv == \A c \in Calls : IInv /\ Compare(c) => IInv'
<1> SUFFICES ASSUME NEW c \in Calls, IInv, Compare(c) PROVE IInv'  OBVIOUS
<1> DEFINE row == calls[c].row
           bound == /\ Bound(row, calls[c].code)
                    /\ row.state = "released" => row.evidence = row.spec.snapshot
           state == IF bound THEN Step("recheck", row, calls[c].code) ELSE Stale(calls[c])
<1>1. calls[c].pc = "view" /\ Goto(c, state) /\ UNCHANGED stored  BY DEF Compare, At
<1>2. result \in Rows /\ row \in Rows /\ Version(row, result)
  BY <1>1 DEF IInv, Typing, CallsOK, CallOK, GlanceOK
<1>3. CallOK(Stale(calls[c]), result, snapshot, refreshes)  BY <1>2, StaleOK
<1> HIDE DEF bound, row
<1>4. CallOK(Step("recheck", row, calls[c].code), result, snapshot, refreshes)
  BY <1>2, LookingOK
<1>5. CallOK(state, result, snapshot, refreshes)  BY <1>3, <1>4
<1> HIDE DEF state
<1>6. QED  BY <1>1, <1>5, StepOnly

\* It reads the row again.
LEMMA RecheckInv == \A c \in Calls : IInv /\ Recheck(c) => IInv'
<1> SUFFICES ASSUME NEW c \in Calls, IInv, Recheck(c) PROVE IInv'  OBVIOUS
<1> DEFINE call == calls[c]
           state == IF Lapsed(result) THEN Unbound(call, "expired")
                    ELSE IF Moved(call.row) THEN Stale(call)
                    ELSE IF call.row.state = "released" THEN Remember(call, TRUE)
                    ELSE Reading(call, call.row.state, TRUE, Null)
<1>1. call.pc = "recheck" /\ Goto(c, state) /\ UNCHANGED stored  BY DEF Recheck, At
<1>2. result \in Rows /\ call.row \in Rows /\ Version(call.row, result)
  BY <1>1 DEF IInv, Typing, CallsOK, CallOK, GlanceOK
<1> HIDE DEF call
<1>3. CallOK(Unbound(call, "expired"), result, snapshot, refreshes)  BY <1>2, UnboundOK
<1>4. CallOK(Stale(call), result, snapshot, refreshes)  BY <1>2, StaleOK
<1>5. call.row.state = "released" => CallOK(Remember(call, TRUE), result, snapshot, refreshes)
  BY <1>2, RememberOK
<1>6. ASSUME call.row.state # "released"
      PROVE  CallOK(Reading(call, call.row.state, TRUE, Null), result, snapshot, refreshes)
  <2> DEFINE base == Reading(call, call.row.state, TRUE, Null)
  <2>1. /\ base.pc = "reading" /\ base.state # "released" /\ base.executed = Null
        /\ base.revision = call.row.revision
    BY <1>6 DEF Reading
  <2>2. base.revision \in Nat /\ base.revision <= result.revision
    BY <1>2, <2>1, RowFields DEF Version
  <2> HIDE DEF base
  <2>3. ReadingOK(base, result)  BY <2>1, <2>2 DEF ReadingOK
  <2>4. CallOK(base, result, snapshot, refreshes)
    BY <2>1, <2>3 DEF CallOK, Places, Viewing
  <2>5. QED  BY <2>4 DEF base
<1>7. CallOK(state, result, snapshot, refreshes)  BY <1>3, <1>4, <1>5, <1>6
<1> HIDE DEF state
<1>8. QED  BY <1>1, <1>7, StepOnly

\* It reads what the release was executed on, if the row is still the one read.
LEMMA RecallInv == \A c \in Calls : IInv /\ Recall(c) => IInv'
<1> SUFFICES ASSUME NEW c \in Calls, IInv, Recall(c) PROVE IInv'  OBVIOUS
<1> DEFINE call == calls[c]
           bound == call.bound /\ snapshot = call.row.spec.snapshot
           shown == Reading(call, IF bound THEN "released" ELSE "stale", bound,
                            call.row.evidence)
           state == IF ~Live(result, now) THEN Unbound(call, "expired")
                    ELSE IF result # call.row THEN Unbound(call, "stale")
                    ELSE shown
<1>1. call.pc = "history" /\ Goto(c, state) /\ UNCHANGED stored  BY DEF Recall, At
<1>2. /\ result \in Rows /\ call.row \in Rows /\ Version(call.row, result)
      /\ call.row.state = "released"
  BY <1>1 DEF IInv, Typing, CallsOK, CallOK, GlanceOK
<1> HIDE DEF call
<1>3. /\ CallOK(Unbound(call, "expired"), result, snapshot, refreshes)
      /\ CallOK(Unbound(call, "stale"), result, snapshot, refreshes)
  BY <1>2, UnboundOK
<1>4. ASSUME result = call.row  PROVE CallOK(shown, result, snapshot, refreshes)
  <2>1. /\ shown.pc = "reading" /\ shown.revision = result.revision
        /\ shown.executed = result.evidence
    BY <1>4 DEF Reading
  <2>2. result.revision \in Nat /\ result.revision <= result.revision
    BY <1>2, RowFields
  <2> HIDE DEF shown
  <2>3. ReadingOK(shown, result)  BY <1>2, <1>4, <2>1, <2>2 DEF ReadingOK
  <2>4. QED  BY <2>1, <2>3 DEF CallOK, Places, Viewing
<1> HIDE DEF shown
<1>5. CallOK(state, result, snapshot, refreshes)  BY <1>3, <1>4
<1> HIDE DEF state
<1>6. QED  BY <1>1, <1>5, StepOnly

\* It decides what to offer from the row, the snapshot and the count it reads.
LEMMA MetadataInv == \A c \in Calls : IInv /\ Metadata(c) => IInv'
<1> SUFFICES ASSUME NEW c \in Calls, IInv, Metadata(c) PROVE IInv'  OBVIOUS
<1> DEFINE base == calls[c]
           offer == IF result.revision = base.revision THEN Offer(result, base.code)
                                                       ELSE "unavailable"
           state == [pc |-> "fence", base |-> base, row |-> result, newest |-> snapshot,
                     offer |-> offer]
<1>1. base.pc = "reading" /\ Goto(c, state) /\ UNCHANGED stored  BY DEF Metadata, At
<1>2. result \in Rows /\ ReadingOK(base, result)
  BY <1>1 DEF IInv, Typing, CallsOK, CallOK
<1>3. Version(result, result)  BY <1>2, SameVersion
<1>4. /\ state.pc = "fence" /\ state.base = base /\ state.row = result
      /\ state.newest = snapshot /\ state.offer = offer
  OBVIOUS
<1> HIDE DEF state, base
<1>5. ASSUME offer = "available"
      PROVE  /\ result.state \in Open \cup {"stale"} /\ refreshes < MaxRefresh
             /\ result.spec # [snapshot |-> snapshot, code |-> base.code]
  <2>1. Offer(result, base.code) = "available"  BY <1>5
  <2>2. /\ ~(refreshes >= MaxRefresh) /\ result.state \in Open \cup {"stale"}
        /\ ~Bound(result, base.code)
    BY <2>1 DEF Offer
  <2>3. refreshes < MaxRefresh  BY <2>2, Times DEF IInv, Typing
  <2>4. QED  BY <2>2, <2>3 DEF Bound, SpecOf
<1> HIDE DEF offer
<1>6. FenceOK(state, result, refreshes)  BY <1>2, <1>3, <1>4, <1>5 DEF FenceOK
<1>7. CallOK(state, result, snapshot, refreshes)
  BY <1>4, <1>6 DEF CallOK, Places, Viewing
<1>8. QED  BY <1>1, <1>7, StepOnly

\* A page that is shown is read no more.
LEMMA ShowInv == \A c \in Calls : IInv /\ Show(c) => IInv'
<1> SUFFICES ASSUME NEW c \in Calls, IInv, Show(c) PROVE IInv'  OBVIOUS
<1>1. UNCHANGED stored  BY DEF Show
<1>2. ASSUME NEW state, NEW bound, NEW executed, NEW offer, NEW version
      PROVE  CallOK(Page(state, bound, executed, offer, version), result, snapshot, refreshes)
  BY DEF Page, CallOK, Places, Viewing
<1>3. PICK state, bound, executed, offer, version :
        Goto(c, Page(state, bound, executed, offer, version))
  BY DEF Show
<1> DEFINE page == Page(state, bound, executed, offer, version)
<1>4. Goto(c, page) /\ CallOK(page, result, snapshot, refreshes)  BY <1>2, <1>3
<1> HIDE DEF page
<1>5. QED  BY <1>1, <1>4, StepOnly

\* A step that changes nothing.
LEMMA StutterInv == IInv /\ UNCHANGED vars => IInv'
BY DEF vars, IInv, Typing, RowOK, CallsOK

\* Every step keeps the invariant.
LEMMA InvNext == IInv /\ [Next]_vars => IInv'
<1> SUFFICES ASSUME IInv, [Next]_vars PROVE IInv'  OBVIOUS
<1>1. CASE Tick \/ NewSnapshot \/ Deploy \/ Maintain
  BY <1>1, TickInv, NewSnapshotInv, MaintainInv
<1>2. CASE \E c \in Calls : Begins(c)
  BY <1>2, ConfirmInv, ClaimInv, RecoverInv, RefreshInv, ViewInv DEF Begins
<1>3. CASE \E c \in Calls : Continues(c)
  BY <1>3, SaveInv, BeginInv, QueryInv, FreedInv, VerifyInv, RenewInv, CompareInv,
     RecheckInv, RecallInv, MetadataInv, ShowInv DEF Continues
<1>4. CASE UNCHANGED vars
  BY <1>4, StutterInv
<1>5. QED  BY <1>1, <1>2, <1>3, <1>4 DEF Next

-----------------------------------------------------------------------------
(* The theorems. *)

\* The inductive invariant: a row read earlier is the stored row or of a lower
\* revision, and what each request still brings was decided on it.
THEOREM ResultInvariant == Spec => []IInv
BY InvInit, InvNext, PTL DEF Spec

\* Every reachable state is well typed; a lease is there in review and only there,
\* evidence with a release and only there.
THEOREM ResultTyped == Spec => []TypeOK
<1>1. IInv => TypeOK
  BY RowType DEF IInv, Typing, Shape, CallsOK, CallOK, Places, TypeOK
<1>2. QED  BY <1>1, ResultInvariant, PTL

-----------------------------------------------------------------------------
(* The steps that write the row. *)

\* What a saved write says of the row it replaces.
Saved(c) ==
  LET row == calls[c].row
      next == calls[c].next
  IN  /\ At(c, "save") /\ row = result /\ result' = next /\ next # result
      /\ Fence(row, next, calls[c].code) /\ Allowed(result, next)
      /\ Store(row, next)
      /\ Goto(c, IF next.state = "in_review" THEN Step("leased", next, calls[c].code) ELSE Idle)
      /\ next.spec = result.spec /\ <<result.state, next.state>> \in Moves
      /\ next.state = "released" => next.evidence = result.spec.snapshot
      /\ UNCHANGED <<now, snapshot, code, refreshes>>

\* What a refresh that was taken says of the row it replaces.
Renewed(c) ==
  LET call == calls[c]
  IN  /\ result' = Proposal(call.spec, result.revision + 1, now)
      /\ refreshes' = refreshes + 1 /\ refreshes < MaxRefresh
      /\ call.spec \in Specs /\ call.spec # result.spec /\ call.spec.snapshot = snapshot
      /\ UNCHANGED <<now, snapshot, code, confirmations>>

\* The row changes only in maintenance, by a write that won its comparison, and by
\* a refresh that was taken; the count of refreshes only with the latter.
LEMMA RowChanged ==
  ASSUME IInv, Next
  PROVE  \/ result' = result /\ refreshes' = refreshes
         \/ Maintain
         \/ \E c \in Calls : Saved(c)
         \/ \E c \in Calls : Renewed(c)
<1>1. CASE Tick \/ NewSnapshot \/ Deploy
  BY <1>1 DEF Tick, NewSnapshot, Deploy
<1>2. CASE Maintain  BY <1>2
<1>3. ASSUME NEW c \in Calls, Begins(c)
      PROVE  result' = result /\ refreshes' = refreshes
  BY <1>3 DEF Begins, Confirm, Claim, Recover, Refresh, View, stored
<1>4. ASSUME NEW c \in Calls,
             \/ Begin(c) \/ Query(c) \/ Fail(c) \/ Verify(c) \/ Compare(c) \/ Recheck(c)
             \/ Recall(c) \/ Metadata(c) \/ Show(c) \/ Close(c)
      PROVE  result' = result /\ refreshes' = refreshes
  BY <1>4 DEF Begin, Query, Fail, Verify, Compare, Recheck, Recall, Metadata, Show, Close, stored
<1>5. ASSUME NEW c \in Calls, Save(c)
      PROVE  (result' = result /\ refreshes' = refreshes) \/ Saved(c)
  <2> DEFINE row == calls[c].row
             next == calls[c].next
             wins == Fence(row, next, calls[c].code) /\ Allowed(result, next)
  <2>1. /\ At(c, "save") /\ UNCHANGED <<now, snapshot, code, refreshes>>
        /\ IF wins THEN Store(row, next) ELSE UNCHANGED <<result, confirmations>>
        /\ Goto(c, IF wins /\ next.state = "in_review"
                     THEN Step("leased", next, calls[c].code) ELSE Idle)
    BY <1>5 DEF Save
  <2>2. CASE wins
    <3>1. result.revision = row.revision  BY <2>2 DEF Fence
    <3>2. /\ row = result /\ next.revision = result.revision + 1 /\ next.spec = result.spec
          /\ <<result.state, next.state>> \in Moves
          /\ next.state = "released" => next.evidence = result.spec.snapshot
      BY <2>1, <3>1, SaveReads
    <3>3. result.revision \in Nat  BY RowFields DEF IInv, Typing
    <3>4. next # result  BY <3>2, <3>3
    <3>5. result' = next  BY <2>1, <2>2 DEF Store
    <3>6. /\ Fence(row, next, calls[c].code) /\ Allowed(result, next) /\ Store(row, next)
          /\ Goto(c, IF next.state = "in_review" THEN Step("leased", next, calls[c].code)
                                                 ELSE Idle)
      BY <2>1, <2>2
    <3> HIDE DEF row, next, wins
    <3>7. /\ At(c, "save") /\ row = result /\ result' = next /\ next # result
          /\ Fence(row, next, calls[c].code) /\ Allowed(result, next)
          /\ Store(row, next)
          /\ Goto(c, IF next.state = "in_review" THEN Step("leased", next, calls[c].code)
                                                 ELSE Idle)
          /\ next.spec = result.spec /\ <<result.state, next.state>> \in Moves
          /\ next.state = "released" => next.evidence = result.spec.snapshot
          /\ UNCHANGED <<now, snapshot, code, refreshes>>
      BY <2>1, <3>2, <3>4, <3>5, <3>6
    <3>8. QED  BY <3>7 DEF Saved, row, next
  <2>3. CASE ~wins
    BY <2>1, <2>3
  <2>4. QED  BY <2>2, <2>3
<1>6. ASSUME NEW c \in Calls, Renew(c)
      PROVE  (result' = result /\ refreshes' = refreshes) \/ Renewed(c)
  <2>1. RefreshOK(calls[c], snapshot)  BY <1>6 DEF Renew, At, IInv, CallsOK, CallOK
  <2>2. QED  BY <1>6, <2>1 DEF Renew, RefreshOK, Renewed
<1>7. QED  BY <1>1, <1>2, <1>3, <1>4, <1>5, <1>6 DEF Next, Continues

\* A result is released only by the holder of a lease that still runs, of a
\* proposal the account confirmed, with rows of the snapshot it names while that
\* snapshot is the newest (compareAndSet of question-request-result-store.ts).
THEOREM ReleasesCurrent == Spec => ReleasedOnCurrent
<1> DEFINE Released ==
      result'.state = "released" /\ result.state # "released" =>
        /\ result.state = "in_review" /\ result.until > now
        /\ \E c \in Calls : At(c, "save") /\ At(c, "idle")' /\ calls[c].row = result
        /\ result'.spec.snapshot = snapshot /\ result'.evidence = snapshot
        /\ \E h \in confirmations : h.spec = result'.spec
<1>1. IInv /\ [Next]_vars => Released
  <2> SUFFICES ASSUME IInv, [Next]_vars, result'.state = "released", result.state # "released"
               PROVE  Released
    OBVIOUS
  <2>1. Next  BY DEF vars
  <2>2. result \in Rows  BY DEF IInv, Typing
  <2>3. ~Maintain
    <3> SUFFICES ASSUME Maintain PROVE FALSE  OBVIOUS
    <3> DEFINE state == IF Overdue THEN "expired" ELSE "stale"
    <3>1. result' = [Revised(result) EXCEPT !.state = state, !.until = Null,
                                            !.evidence = Null]
      BY DEF Maintain
    <3>2. state \in States /\ state \notin {"in_review", "released"}
      BY DEF States, Closing
    <3> HIDE DEF state
    <3>3. result'.state = state  BY <2>2, <3>1, <3>2, MaintainedRow
    <3>4. QED  BY <3>2, <3>3
  <2>4. ASSUME NEW c \in Calls PROVE ~Renewed(c)
    BY DEF Renewed, Proposal
  <2>5. PICK c \in Calls : Saved(c)  BY <2>1, <2>3, <2>4, RowChanged
  <2> DEFINE next == calls[c].next
  <2>6. /\ At(c, "save") /\ calls[c].row = result /\ result' = next
        /\ next.state = "released" /\ Fence(result, next, calls[c].code)
        /\ Goto(c, Idle) /\ next.spec = result.spec
        /\ <<result.state, next.state>> \in Moves /\ next.evidence = result.spec.snapshot
    BY <2>5 DEF Saved
  <2> HIDE DEF next
  <2>7. result.state = "in_review"  BY <2>6 DEF Moves
  <2>8. result.until > now  BY <2>6 DEF Fence, InTime, LeaseLive
  <2>9. result.spec.snapshot = snapshot  BY <2>6 DEF Fence, Closing
  <2>10. At(c, "idle")'
    <3>1. calls' = [calls EXCEPT ![c] = Idle] /\ calls = [d \in Calls |-> calls[d]]
      BY <2>6 DEF Goto, IInv, CallsOK
    <3>2. calls'[c] = Idle  BY <3>1
    <3>3. QED  BY <3>2 DEF At, Idle
  <2>11. \E h \in confirmations : h.spec = result.spec
    BY <2>7 DEF IInv, RowOK, Approved
  <2>12. QED  BY <2>6, <2>7, <2>8, <2>9, <2>10, <2>11
<1>2. QED  BY <1>1, ResultInvariant, PTL DEF Spec, ReleasedOnCurrent

\* Only the last step of the page hands it out.
LEMMA HandedOut ==
  ASSUME IInv, [Next]_vars, NEW c \in Calls, At(c, "shown")', ~At(c, "shown")
  PROVE  Show(c)
<1>1. calls = [d \in Calls |-> calls[d]]  BY DEF IInv, CallsOK
<1>2. ASSUME NEW d \in Calls, NEW state, Goto(d, state), state.pc # "shown"
      PROVE  FALSE
  <2>1. calls' = [calls EXCEPT ![d] = state]  BY <1>2 DEF Goto
  <2>2. calls'[c] = state \/ calls'[c] = calls[c]  BY <1>1, <2>1
  <2>3. QED  BY <1>2, <2>2 DEF At
<1>3. CASE Tick \/ NewSnapshot \/ Deploy \/ Maintain \/ UNCHANGED vars
  BY <1>3 DEF Tick, NewSnapshot, Deploy, Maintain, vars, At
<1>4. ASSUME NEW glance, NEW state, NEW bound, NEW executed
      PROVE  /\ Reading(glance, state, bound, executed).pc # "shown"
             /\ Unbound(glance, state).pc # "shown"
             /\ Remember(glance, bound).pc # "shown"
             /\ Stale(glance).pc # "shown"
  BY DEF Reading, Unbound, Remember, Stale
<1>5. ASSUME NEW pc, NEW row, NEW version
      PROVE  Step(pc, row, version).pc = pc
  BY DEF Step
<1>6. Idle.pc # "shown"  BY DEF Idle
<1>7. ASSUME NEW row, NEW next, NEW version
      PROVE  Saving(row, next, version).pc # "shown"
  BY DEF Saving
<1>8. ASSUME NEW d \in Calls, Confirm(d) \/ Claim(d) \/ Recover(d)  PROVE FALSE
  BY <1>2, <1>7, <1>8 DEF Confirm, Claim, Recover
<1>9. ASSUME NEW d \in Calls, Refresh(d)  PROVE FALSE
  BY <1>2, <1>9 DEF Refresh
<1>10. ASSUME NEW d \in Calls, View(d)  PROVE FALSE
  <2>1. PICK state : Goto(d, state) /\ state.pc # "shown"
    BY <1>4, <1>5, <1>10 DEF View
  <2>2. QED  BY <1>2, <2>1
<1>11. ASSUME NEW d \in Calls, Save(d) \/ Begin(d) \/ Fail(d) \/ Renew(d) \/ Close(d)
       PROVE  FALSE
  <2>1. PICK state : Goto(d, state) /\ state.pc # "shown"
    BY <1>5, <1>6, <1>11 DEF Save, Begin, Fail, Renew, Close
  <2>2. QED  BY <1>2, <2>1
<1>12. ASSUME NEW d \in Calls, Query(d) \/ Verify(d) \/ Metadata(d)  PROVE FALSE
  <2>1. CASE Query(d)
    <3>1. PICK data : Goto(d, [pc |-> "executed", row |-> calls[d].row,
                               code |-> calls[d].code, data |-> data])
      BY <2>1 DEF Query
    <3>2. QED  BY <1>2, <3>1
  <2>2. CASE Verify(d)
    <3>1. PICK state : Goto(d, state) /\ state.pc # "shown"
      BY <1>6, <1>7, <2>2 DEF Verify
    <3>2. QED  BY <1>2, <3>1
  <2>3. CASE Metadata(d)
    BY <1>2, <2>3 DEF Metadata
  <2>4. QED  BY <1>12, <2>1, <2>2, <2>3
<1>13. ASSUME NEW d \in Calls, Compare(d) \/ Recheck(d) \/ Recall(d)  PROVE FALSE
  <2> DEFINE call == calls[d]
             read == call.row
  <2>1. CASE Compare(d)
    <3>1. Goto(d, Step("recheck", read, call.code)) \/ Goto(d, Stale(call))
      BY <2>1 DEF Compare
    <3>2. QED  BY <1>2, <1>4, <1>5, <3>1
  <2>2. CASE Recheck(d)
    <3>1. \/ Goto(d, Unbound(call, "expired")) \/ Goto(d, Stale(call))
          \/ Goto(d, Remember(call, TRUE)) \/ Goto(d, Reading(call, read.state, TRUE, Null))
      BY <2>2 DEF Recheck
    <3>2. QED  BY <1>2, <1>4, <3>1
  <2>3. CASE Recall(d)
    <3>1. \/ Goto(d, Unbound(call, "expired")) \/ Goto(d, Unbound(call, "stale"))
          \/ \E state, bound, executed : Goto(d, Reading(call, state, bound, executed))
      BY <2>3 DEF Recall
    <3>2. QED  BY <1>2, <1>4, <3>1
  <2>4. QED  BY <1>13, <2>1, <2>2, <2>3
<1>14. ASSUME NEW d \in Calls, Show(d)  PROVE Show(c)
  <2>1. CASE d = c  BY <1>14, <2>1
  <2>2. CASE d # c
    <3>1. PICK state : calls' = [calls EXCEPT ![d] = state]  BY <1>14 DEF Show, Goto
    <3>2. calls'[c] = calls[c]  BY <1>1, <2>2, <3>1
    <3>3. QED  BY <3>2 DEF At
  <2>3. QED  BY <2>1, <2>2
<1>15. QED
  BY <1>3, <1>8, <1>9, <1>10, <1>11, <1>12, <1>13, <1>14 DEF Next, Begins, Continues

\* A page that links to the answer is handed out only while the answer stands, and
\* offers only a refresh that would be taken (readQuestionResultStatus of
\* question-request-status.ts).
THEOREM ViewsCurrent == Spec => ViewIsCurrent
<1> DEFINE Shown(c) ==
      At(c, "shown")' /\ ~At(c, "shown") =>
        LET page == calls'[c] IN
        /\ page.link => /\ result.state = "released" /\ Live(result, now)
                        /\ result.spec.snapshot = snapshot
        /\ page.executed # Null => /\ result.state = "released"
                                   /\ result.evidence = page.executed
        /\ page.offer = "available" => /\ Refreshable(result) /\ refreshes < MaxRefresh
                                       /\ ~Bound(result, page.code)
<1>1. IInv /\ [Next]_vars => \A c \in Calls : Shown(c)
  <2> SUFFICES ASSUME IInv, [Next]_vars, NEW c \in Calls, At(c, "shown")', ~At(c, "shown")
               PROVE  Shown(c)
    OBVIOUS
  <2>1. Show(c)  BY HandedOut
  <2> DEFINE call == calls[c]
             base == call.base
             page == calls'[c]
  <2>2. call.pc = "fence" /\ FenceOK(call, result, refreshes)
    BY <2>1 DEF Show, At, IInv, CallsOK, CallOK
  <2>3. /\ result \in Rows /\ Shape(result) /\ call.row \in Rows
        /\ Version(call.row, result) /\ ReadingOK(base, result)
    BY <2>2 DEF IInv, Typing, FenceOK
  <2>4. CASE ~page.link /\ page.executed = Null /\ page.offer # "available"
    BY <2>4
  <2>5. CASE /\ Live(result, now) /\ Lapsed(result) /\ result = call.row
             /\ snapshot = call.newest
             /\ page = Page("expired", FALSE, Null, call.offer, base.code)
    <3>1. /\ page.link = (FALSE /\ "expired" = "released")
          /\ page.executed = Null /\ page.offer = call.offer
          /\ page.code = base.code
      BY <2>5 DEF Page
    <3>2. QED  BY <2>2, <2>5, <3>1 DEF FenceOK, Refreshable, Bound, SpecOf
  <2>6. CASE /\ Live(result, now) /\ result = call.row /\ snapshot = call.newest
             /\ base.revision = result.revision
             /\ ~(base.bound /\ snapshot # result.spec.snapshot)
             /\ page = Page(base.state, base.bound, base.executed, call.offer, base.code)
    <3>1. /\ page.link = (base.bound /\ base.state = "released")
          /\ page.executed = base.executed /\ page.offer = call.offer
          /\ page.code = base.code
      BY <2>6 DEF Page
    <3>2. page.link => /\ result.state = "released" /\ Live(result, now)
                       /\ result.spec.snapshot = snapshot
      BY <2>3, <2>6, <3>1 DEF ReadingOK
    <3>3. page.executed # Null => /\ result.state = "released"
                                  /\ result.evidence = page.executed
      BY <2>3, <2>6, <3>1 DEF ReadingOK, Shape
    <3>4. page.offer = "available" => /\ Refreshable(result) /\ refreshes < MaxRefresh
                                      /\ ~Bound(result, page.code)
      BY <2>2, <2>6, <3>1 DEF FenceOK, Refreshable, Bound, SpecOf
    <3>5. QED  BY <3>2, <3>3, <3>4
  <2>7. QED
    <3> DEFINE moved == \/ result # call.row \/ snapshot # call.newest
                        \/ base.revision # result.revision
                        \/ base.bound /\ snapshot # result.spec.snapshot
    <3>1. page = IF ~Live(result, now) THEN Page("expired", FALSE, Null, "expired", base.code)
                 ELSE IF moved THEN Page("stale", FALSE, Null, "unavailable", base.code)
                 ELSE IF Lapsed(result) THEN Page("expired", FALSE, Null, call.offer, base.code)
                 ELSE Page(base.state, base.bound, base.executed, call.offer, base.code)
      BY <2>1 DEF Show, Goto, IInv, CallsOK
    <3> HIDE DEF page, base, call
    <3>2. CASE ~Live(result, now)
      <4>1. page = Page("expired", FALSE, Null, "expired", base.code)  BY <3>1, <3>2
      <4>2. /\ page.link = (FALSE /\ "expired" = "released")
            /\ page.executed = Null /\ page.offer = "expired"
        BY <4>1 DEF Page
      <4>3. QED  BY <2>4, <4>2
    <3>3. CASE Live(result, now) /\ moved
      <4>1. page = Page("stale", FALSE, Null, "unavailable", base.code)  BY <3>1, <3>3
      <4>2. /\ page.link = (FALSE /\ "stale" = "released")
            /\ page.executed = Null /\ page.offer = "unavailable"
        BY <4>1 DEF Page
      <4>3. QED  BY <2>4, <4>2
    <3>4. CASE Live(result, now) /\ ~moved
      BY <2>5, <2>6, <3>1, <3>4
    <3>5. QED  BY <3>2, <3>3, <3>4
<1>2. QED  BY <1>1, ResultInvariant, PTL DEF Spec, ViewIsCurrent

-----------------------------------------------------------------------------
(* The answer as the account sees it: every step is one it was promised. *)

\* At first a proposal of the newest data is there.
LEMMA PromiseInit == Init => Promise!Init
<1> SUFFICES ASSUME Init PROVE Promise!Init  OBVIOUS
<1>1. IInv  BY InvInit
<1>2. result.spec \in Specs  BY <1>1, RowFields DEF IInv, Typing
<1>3. result.state = "confirmation_required" /\ result.spec = SpecOf(1) /\ refreshes = 0
  BY DEF Init, Proposal
<1>4. snapshot = result.spec.snapshot  BY <1>3 DEF SpecOf
<1>5. Stage = "proposed"  BY <1>3 DEF Stage
<1>6. QED  BY <1>2, <1>3, <1>4, <1>5 DEF Promise!Init, DataOf

\* What becomes of the stage is told by the state.
LEMMA StageAfter ==
  /\ result'.state = "confirmation_required" => Stage' = "proposed"
  /\ result'.state \in {"building", "in_review"} => Stage' = "approved"
  /\ result'.state = "released" => Stage' = "answered"
  /\ result'.state \in Closing \cup {"stale"} => Stage' = "withdrawn"
BY DEF Stage, Closing

\* The stage of the stored row.
LEMMA StageBefore ==
  /\ result.state = "confirmation_required" => Stage = "proposed"
  /\ result.state \in {"building", "in_review"} => Stage = "approved"
  /\ result.state = "released" => Stage = "answered"
  /\ result.state \in Open => Stage # "withdrawn"
BY DEF Stage, Open

\* Maintenance withdraws.
LEMMA MaintainWithdraws == IInv /\ Maintain => Promise!Withdraw
<1> SUFFICES ASSUME IInv, Maintain PROVE Promise!Withdraw  OBVIOUS
<1> DEFINE state == IF Overdue THEN "expired" ELSE "stale"
<1>1. /\ result' = [Revised(result) EXCEPT !.state = state, !.until = Null, !.evidence = Null]
      /\ snapshot' = snapshot /\ refreshes' = refreshes /\ result.state \in Open
  BY DEF Maintain, Overdue, Outdated
<1>2. result \in Rows  BY DEF IInv, Typing
<1>3. state \in States /\ state \notin {"in_review", "released"}
      /\ state \in Closing \cup {"stale"}
  BY DEF States, Closing
<1> HIDE DEF state
<1>4. result'.spec = result.spec /\ result'.state = state
  BY <1>1, <1>2, <1>3, MaintainedRow
<1>5. Stage # "withdrawn" /\ Stage' = "withdrawn"
  BY <1>1, <1>3, <1>4, StageBefore, StageAfter
<1>6. QED  BY <1>1, <1>4, <1>5 DEF Promise!Withdraw

\* A write that won approves, answers, withdraws, or is not seen by the account.
LEMMA SavedPromised ==
  ASSUME IInv, NEW c \in Calls, Saved(c)
  PROVE  \/ Promise!Approve \/ Promise!Answer \/ Promise!Withdraw
         \/ UNCHANGED Promise!promise
<1> DEFINE next == calls[c].next
<1>1. /\ result' = next /\ Fence(result, next, calls[c].code) /\ next.spec = result.spec
      /\ <<result.state, next.state>> \in Moves
      /\ snapshot' = snapshot /\ refreshes' = refreshes
  BY DEF Saved
<1> HIDE DEF next
<1>2. result'.spec = result.spec /\ result'.state = next.state  BY <1>1
<1>3. next.state \notin Closing => DataOf(result.spec) = snapshot
  BY <1>1 DEF Fence, DataOf
<1>4. CASE result.state = "confirmation_required" /\ next.state = "building"
  <2>1. Stage = "proposed" /\ Stage' = "approved"
    BY <1>2, <1>4, StageBefore, StageAfter
  <2>2. DataOf(result.spec) = snapshot  BY <1>3, <1>4 DEF Closing
  <2>3. Promise!Approve
    BY <1>1, <1>2, <2>1, <2>2 DEF Promise!Approve, Promise!Current
  <2>4. QED  BY <2>3
<1>5. CASE result.state = "in_review" /\ next.state = "released"
  <2>1. Stage = "approved" /\ Stage' = "answered"
    BY <1>2, <1>5, StageBefore, StageAfter
  <2>2. DataOf(result.spec) = snapshot  BY <1>3, <1>5 DEF Closing
  <2>3. Promise!Answer
    BY <1>1, <1>2, <2>1, <2>2 DEF Promise!Answer, Promise!Current
  <2>4. QED  BY <2>3
<1>6. CASE /\ result.state \in {"building", "in_review"}
           /\ next.state \in {"building", "in_review"}
  <2>1. Stage' = Stage  BY <1>2, <1>6, StageBefore, StageAfter
  <2>2. QED  BY <1>1, <1>2, <2>1 DEF Promise!promise
<1>7. CASE result.state \in Open /\ next.state \in Closing
  <2>1. Stage # "withdrawn" /\ Stage' = "withdrawn"
    BY <1>2, <1>7, StageBefore, StageAfter
  <2>2. Promise!Withdraw  BY <1>1, <1>2, <2>1 DEF Promise!Withdraw
  <2>3. QED  BY <2>2
<1>8. QED  BY <1>1, <1>4, <1>5, <1>6, <1>7 DEF Moves, Open, Closing

\* A refresh that was taken proposes something else on the newest data.
LEMMA RenewedPromised ==
  ASSUME IInv, NEW c \in Calls, Renewed(c)
  PROVE  Promise!Renew
<1> DEFINE spec == calls[c].spec
<1>1. /\ result' = Proposal(spec, result.revision + 1, now)
      /\ refreshes' = refreshes + 1 /\ refreshes < MaxRefresh /\ snapshot' = snapshot
      /\ spec \in Specs /\ spec # result.spec /\ spec.snapshot = snapshot
  BY DEF Renewed
<1> HIDE DEF spec
<1>2. result'.spec = spec /\ result'.state = "confirmation_required"
  BY <1>1 DEF Proposal
<1>3. Stage' = "proposed"  BY <1>2, StageAfter
<1>4. QED  BY <1>1, <1>2, <1>3 DEF Promise!Renew, DataOf

\* Every step keeps the promise.
LEMMA PromiseNext == IInv /\ [Next]_vars => [Promise!Next]_(Promise!promise)
<1> SUFFICES ASSUME IInv, [Next]_vars
             PROVE  Promise!Next \/ UNCHANGED Promise!promise
  OBVIOUS
<1>1. ASSUME result' = result, refreshes' = refreshes, snapshot' = snapshot
      PROVE  UNCHANGED Promise!promise
  BY <1>1 DEF Promise!promise, Stage
<1>2. CASE UNCHANGED vars
  BY <1>1, <1>2 DEF vars
<1>3. CASE NewSnapshot
  <2>1. /\ result' = result /\ refreshes' = refreshes
        /\ snapshot < MaxSnapshot /\ snapshot' = snapshot + 1
    BY <1>3 DEF NewSnapshot
  <2>2. snapshot' \in 1..MaxSnapshot /\ snapshot' > snapshot
    BY <2>1, Times DEF IInv, Typing
  <2>3. Stage' = Stage  BY <2>1 DEF Stage
  <2>4. Promise!NewData  BY <2>1, <2>2, <2>3 DEF Promise!NewData
  <2>5. QED  BY <2>4 DEF Promise!Next
<1>4. CASE Next /\ ~NewSnapshot
  <2>1. snapshot' = snapshot
    BY <1>4 DEF Next, Tick, Deploy, Maintain, Begins, Continues, Confirm, Claim, Recover,
       Refresh, View, Save, Begin, Query, Fail, Verify, Renew, Compare, Recheck, Recall,
       Metadata, Show, Close, stored
  <2>2. CASE result' = result /\ refreshes' = refreshes
    BY <1>1, <2>1, <2>2
  <2>3. CASE Maintain
    BY <2>3, MaintainWithdraws DEF Promise!Next
  <2>4. CASE \E c \in Calls : Saved(c)
    BY <2>4, SavedPromised DEF Promise!Next
  <2>5. CASE \E c \in Calls : Renewed(c)
    BY <2>5, RenewedPromised DEF Promise!Next
  <2>6. QED  BY <1>4, <2>2, <2>3, <2>4, <2>5, RowChanged
<1>5. QED  BY <1>2, <1>3, <1>4

\* Leases, retries, races and deployments implement what the account is promised:
\* it is answered only after it approved, on the newest data, and asked again a
\* bounded number of times.
THEOREM AnswersKeepPromise == Spec => KeepsPromise
BY PromiseInit, PromiseNext, ResultInvariant, PTL
   DEF Spec, KeepsPromise, Promise!Spec
=============================================================================
