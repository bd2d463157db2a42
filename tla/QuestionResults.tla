--------------------------- MODULE QuestionResults ---------------------------
(***************************************************************************)
(* The answer to one question, from the proposal triage stored to its      *)
(* release (core/question-request-results.ts with its D1 store,            *)
(* -execution.ts, -refresh.ts, -status.ts).  The account confirms the      *)
(* proposal, a service executes it under a lease, recovery and maintenance *)
(* close what lapsed, the account may refresh a proposal whose data or     *)
(* code moved on, and it reads the state of all this on a status page.     *)
(*                                                                         *)
(* A request reads the row, awaits, and writes: the store compares what    *)
(* was read, the data snapshot, retention, deadline and lease once more in *)
(* the statement that writes.  Requests, new snapshots, deployments and    *)
(* the clock interleave at every await.  A request keeps the code it was   *)
(* started with.  The revision of the parent question does not change      *)
(* while its proposal is settled (QuestionTriage has the clarifications).  *)
(***************************************************************************)
EXTENDS FiniteSets, Integers

CONSTANTS
  Calls,        \* slots for requests in flight
  Lease,        \* a lease lasts 900 seconds
  Day,          \* the account has a day to confirm
  Retention,    \* when the question expires
  MaxAttempts,  \* executions of one confirmed proposal: 3
  MaxRefresh,   \* refreshes of one question: 3
  MaxTime,      \* bound of the clock in a model
  MaxSnapshot,  \* bound of the data snapshots in a model
  MaxCode,      \* bound of the deployments in a model
  CatalogOf     \* the catalog deployed with each code

ASSUME ResultTimes == {Lease, Day, Retention} \subseteq Nat \ {0} /\ MaxTime \in Nat
ASSUME ResultBounds == {MaxAttempts, MaxSnapshot, MaxCode} \subseteq Nat \ {0} /\ MaxRefresh \in Nat
ASSUME ResultCatalogs == CatalogOf \in [1..MaxCode -> Nat]

VARIABLES
  now,           \* the clock
  snapshot,      \* the newest data snapshot
  code,          \* the catalog and the code versions deployed
  result,        \* the row in question_request_results
  refreshes,     \* its row in question_request_refresh_counts
  confirmations, \* the rows in question_request_confirmations
  calls          \* requests in flight

vars == <<now, snapshot, code, result, refreshes, confirmations, calls>>

Null == -1
Idle == [pc |-> "idle"]
Open == {"confirmation_required", "building", "in_review", "released"}
Closing == {"expired", "failed"}
EarlierOf(a, b) == IF a < b THEN a ELSE b

Specs == [snapshot : 1..MaxSnapshot, code : 1..MaxCode]

\* The spec a Worker running this code makes of the question now.
SpecOf(version) == [snapshot |-> snapshot, code |-> version]

Proposal(spec, revision, at) ==
  [state |-> "confirmation_required", revision |-> revision, spec |-> spec, attempt |-> 0,
   lease |-> Null, until |-> Null, evidence |-> Null,
   deadline |-> EarlierOf(at + Day, Retention)]

Init ==
  /\ now = 0 /\ snapshot = 1 /\ code = 1
  /\ result = Proposal(SpecOf(1), 1, 0)
  /\ refreshes = 0 /\ confirmations = {}
  /\ calls = [c \in Calls |-> Idle]

-----------------------------------------------------------------------------
(* The environment. *)

Tick ==
  /\ now < MaxTime /\ now' = now + 1
  /\ UNCHANGED <<snapshot, code, result, refreshes, confirmations, calls>>

NewSnapshot ==
  /\ snapshot < MaxSnapshot /\ snapshot' = snapshot + 1
  /\ UNCHANGED <<now, code, result, refreshes, confirmations, calls>>

Deploy ==
  /\ code < MaxCode /\ code' = code + 1
  /\ UNCHANGED <<now, snapshot, result, refreshes, confirmations, calls>>

-----------------------------------------------------------------------------
(* The store. *)

Live(row, at) == Retention > at
LeaseLive(row) == row.until > now

\* The spec is of the newest snapshot and of the code that looks at it.
Bound(row, version) == row.spec = SpecOf(version)

Revised(row) == [row EXCEPT !.revision = @ + 1]

Confirms(row, next) == row.state = "confirmation_required" /\ next.state = "building"

InTime(row, next) ==
  /\ Confirms(row, next) => row.deadline > now
  /\ next.state = "released" => LeaseLive(row)

\* The store knows the catalog it was started with, not the rest of its code.
SameCatalog(row, version) == CatalogOf[row.spec.code] = CatalogOf[version]

\* Mutant: the store trusts the snapshot that was read before the await.
FenceAnySnapshot(row, next, version) ==
  /\ result.revision = row.revision /\ result.spec = row.spec
  /\ (next.state \in Closing \/ (SameCatalog(row, version) /\ Live(row, now)))
  /\ InTime(result, next)

\* The WHERE of compareAndSet, and its own check of the catalog before it.
Fence(row, next, version) ==
  /\ result.revision = row.revision /\ result.spec = row.spec
  /\ \/ next.state \in Closing
     \/ row.spec.snapshot = snapshot /\ SameCatalog(row, version) /\ Live(row, now)
  /\ InTime(result, next)

\* The triggers: an update they refuse is aborted.
Allowed(row, next) ==
  \/ /\ row.state = "confirmation_required" /\ next.state = "building"
     /\ row.deadline > now /\ Live(row, now) /\ row.spec.snapshot = snapshot
     /\ Cardinality(confirmations) < 7
  \/ /\ row.state = "building" /\ next.state = "in_review"
     /\ row.attempt < MaxAttempts /\ next.attempt = row.attempt + 1
     /\ next.lease # row.lease /\ Live(row, now)
     /\ next.until > now /\ next.until <= EarlierOf(now + Lease, Retention)
  \/ /\ row.state = "in_review" /\ next.state = "released"
     /\ LeaseLive(row) /\ Live(row, now) /\ next.evidence # Null
  \/ /\ row.state = "in_review" /\ next.state \in {"building", "failed"}
     /\ ~LeaseLive(row)
     /\ IF next.state = "failed" THEN row.attempt = MaxAttempts
                                 ELSE row.attempt < MaxAttempts /\ Live(row, now)
  \/ row.state = "confirmation_required" /\ next.state = "expired" /\ row.deadline <= now
  \/ row.state \in {"building", "in_review"} /\ next.state = "expired" /\ ~Live(row, now)
  \/ row.state \in Open /\ next.state = "stale"

\* The triggers record what was confirmed with the confirmation itself.
Store(row, next) ==
  /\ result' = next
  /\ confirmations' =
       IF Confirms(row, next)
         THEN confirmations \cup {[revision |-> row.revision, spec |-> row.spec]}
         ELSE confirmations

At(c, pc) == calls[c].pc = pc
Goto(c, state) == calls' = [calls EXCEPT ![c] = state]
Step(pc, row, version) == [pc |-> pc, row |-> row, code |-> version]
Saving(row, next, version) ==
  [pc |-> "save", row |-> row, next |-> Revised(next), code |-> version]

stored == <<now, snapshot, code, result, refreshes, confirmations>>

\* compareAndSet; a claim that was stored goes on to execute.
Save(c) ==
  /\ At(c, "save")
  /\ LET row == calls[c].row
         next == calls[c].next
         wins == Fence(row, next, calls[c].code) /\ Allowed(result, next)
     IN  /\ IF wins THEN Store(row, next) ELSE UNCHANGED <<result, confirmations>>
         /\ Goto(c, IF wins /\ next.state = "in_review"
                      THEN Step("leased", next, calls[c].code) ELSE Idle)
  /\ UNCHANGED <<now, snapshot, code, refreshes>>

-----------------------------------------------------------------------------
(* The operations. Each reads the row, decides, and saves. *)

\* The confirmation form: the status it was sent from is bound, the row awaits
\* confirmation and is in time.
Confirm(c) ==
  /\ At(c, "idle")
  /\ result.state = "confirmation_required" /\ Bound(result, code)
  /\ Live(result, now) /\ result.deadline > now
  /\ Goto(c, Saving(result, [result EXCEPT !.state = "building"], code))
  /\ UNCHANGED stored

\* Execution claims the row under a new lease, named by its revision.
Claim(c) ==
  /\ At(c, "idle")
  /\ result.state = "building" /\ Bound(result, code) /\ Live(result, now)
  /\ result.attempt < MaxAttempts
  /\ Goto(c, Saving(result, [result EXCEPT !.state = "in_review", !.attempt = @ + 1,
                                           !.lease = result.revision,
                                           !.until = EarlierOf(now + Lease, Retention)], code))
  /\ UNCHANGED stored

\* It reads its lease back and looks at the snapshot before querying.
Held(c) ==
  /\ result = calls[c].row
  /\ LeaseLive(result) /\ Live(result, now)
  /\ result.spec.snapshot = snapshot

Begin(c) ==
  /\ At(c, "leased")
  /\ Goto(c, IF Held(c) THEN Step("query", result, calls[c].code) ELSE Idle)
  /\ UNCHANGED stored

\* The rows are those of the tables now, or of a cached answer to the spec; the
\* answer names the spec's snapshot either way.
Query(c) ==
  /\ At(c, "query")
  /\ \E data \in {snapshot, calls[c].row.spec.snapshot} :
       Goto(c, [pc |-> "executed", row |-> calls[c].row, code |-> calls[c].code, data |-> data])
  /\ UNCHANGED stored

\* The budget refuses, the query fails or the Worker is lost: the lease stays.
Fail(c) ==
  /\ calls[c].pc \in {"leased", "query", "executed"}
  /\ Goto(c, Idle)
  /\ UNCHANGED stored

\* The snapshot after the query, and the row once more.
Verify(c) ==
  /\ At(c, "executed")
  /\ LET row == calls[c].row IN
       Goto(c, IF Held(c) /\ Bound(row, calls[c].code)
                 THEN Saving(row, [row EXCEPT !.state = "released", !.until = Null,
                                              !.evidence = calls[c].data], calls[c].code)
                 ELSE Idle)
  /\ UNCHANGED stored

\* Past retention, or past the time to confirm.
Lapsed(row) ==
  \/ ~Live(row, now)
  \/ row.state = "confirmation_required" /\ row.deadline <= now

Recover(c) ==
  /\ At(c, "idle")
  /\ \/ /\ result.state \in Open \ {"released"} /\ Lapsed(result)
        /\ Goto(c, Saving(result, [result EXCEPT !.state = "expired", !.until = Null], code))
     \/ /\ result.state = "in_review" /\ ~Lapsed(result) /\ ~LeaseLive(result)
        /\ Goto(c, Saving(result, [result EXCEPT !.until = Null, !.state =
                     IF result.attempt >= MaxAttempts THEN "failed" ELSE "building"], code))
  /\ UNCHANGED stored

\* The sweep before triage requests, in one statement. Released answers expire
\* with their question.
Overdue == result.state \in Open \ {"released"} /\ Lapsed(result)
Outdated == result.state \in Open /\ ~Bound(result, code)

\* Mutant: the evidence outlives the release.
MaintainKeepingEvidence ==
  /\ Overdue \/ Outdated
  /\ result' = [Revised(result) EXCEPT !.state = IF Overdue THEN "expired" ELSE "stale",
                                       !.until = Null]
  /\ UNCHANGED <<now, snapshot, code, refreshes, confirmations, calls>>

Maintain ==
  /\ Overdue \/ Outdated
  /\ result' = [Revised(result) EXCEPT !.state = IF Overdue THEN "expired" ELSE "stale",
                                       !.until = Null, !.evidence = Null]
  /\ UNCHANGED <<now, snapshot, code, refreshes, confirmations, calls>>

-----------------------------------------------------------------------------
(* Refreshing: a new proposal of the same question. *)

Refreshable(row) == row.state \in Open \cup {"stale"} /\ Live(row, now)

Refresh(c) ==
  /\ At(c, "idle")
  /\ Refreshable(result) /\ refreshes < MaxRefresh
  /\ ~Bound(result, code)
  /\ Goto(c, [pc |-> "refresh", row |-> result, spec |-> SpecOf(code), count |-> refreshes])
  /\ UNCHANGED stored

\* Mutant: the new proposal takes over the state of the old one.
RenewKeepingState(c) ==
  /\ At(c, "refresh")
  /\ LET call == calls[c] IN
       IF /\ Refreshable(result) /\ result.revision = call.row.revision
          /\ result.spec = call.row.spec /\ call.spec.snapshot = snapshot
          /\ refreshes = call.count
         THEN /\ result' = [Revised(result) EXCEPT !.spec = call.spec]
              /\ refreshes' = refreshes + 1
         ELSE UNCHANGED <<result, refreshes>>
  /\ Goto(c, Idle)
  /\ UNCHANGED <<now, snapshot, code, confirmations>>

\* The command row: its triggers compare everything again, count the refresh and
\* replace the proposal, or abort.
Renew(c) ==
  /\ At(c, "refresh")
  /\ LET call == calls[c] IN
       IF /\ Refreshable(result)
          /\ result.revision = call.row.revision /\ result.spec = call.row.spec
          /\ call.spec.snapshot = snapshot
          /\ refreshes = call.count
         THEN /\ result' = Proposal(call.spec, result.revision + 1, now)
              /\ refreshes' = refreshes + 1
         ELSE UNCHANGED <<result, refreshes>>
  /\ Goto(c, Idle)
  /\ UNCHANGED <<now, snapshot, code, confirmations>>

-----------------------------------------------------------------------------
(* The status page: several reads, the last of them decides. *)

Glance(row, version) == [row |-> row, code |-> version]

\* What one reading of the row comes to; a link is there only for a bound release.
Reading(glance, state, bound, executed) ==
  [pc |-> "reading", state |-> state, bound |-> bound, executed |-> executed,
   revision |-> glance.row.revision, code |-> glance.code]
Unbound(glance, state) == Reading(glance, state, FALSE, Null)
Remember(glance, bound) == [pc |-> "history", row |-> glance.row, code |-> glance.code, bound |-> bound]

\* A released row keeps what it was executed on, whatever became of its link.
Stale(glance) ==
  IF glance.row.state = "released" THEN Remember(glance, FALSE) ELSE Unbound(glance, "stale")

\* Pages write nothing, so that two of them at once show no more than one.
Viewing == {"view", "recheck", "history", "reading", "fence", "shown"}
OnePage == \A c \in Calls : calls[c].pc \notin Viewing

View(c) ==
  /\ At(c, "idle") /\ OnePage
  /\ LET glance == Glance(result, code) IN
       Goto(c, IF Lapsed(result) THEN Unbound(glance, "expired")
               ELSE IF result.state \notin Open THEN Unbound(glance, result.state)
               ELSE Step("view", result, code))
  /\ UNCHANGED stored

\* The spec against the snapshot and the code, the evidence against the spec.
Compare(c) ==
  /\ At(c, "view")
  /\ LET row == calls[c].row
         bound == /\ Bound(row, calls[c].code)
                  /\ row.state = "released" => row.evidence = row.spec.snapshot
     IN  Goto(c, IF bound THEN Step("recheck", row, calls[c].code) ELSE Stale(calls[c]))
  /\ UNCHANGED stored

Moved(row) ==
  result.revision # row.revision \/ result.state # row.state \/ snapshot # row.spec.snapshot

Recheck(c) ==
  /\ At(c, "recheck")
  /\ LET row == calls[c].row IN
       Goto(c, IF Lapsed(result) THEN Unbound(calls[c], "expired")
               ELSE IF Moved(row) THEN Stale(calls[c])
               ELSE IF row.state = "released" THEN Remember(calls[c], TRUE)
               ELSE Reading(calls[c], row.state, TRUE, Null))
  /\ UNCHANGED stored

Recall(c) ==
  /\ At(c, "history")
  /\ LET row == calls[c].row
         bound == calls[c].bound /\ snapshot = row.spec.snapshot
     IN  Goto(c, IF ~Live(result, now) THEN Unbound(calls[c], "expired")
                 ELSE IF result # row THEN Unbound(calls[c], "stale")
                 ELSE Reading(calls[c], IF bound THEN "released" ELSE "stale", bound, row.evidence))
  /\ UNCHANGED stored

\* Whether the page offers a refresh.
Offer(row, version) ==
  IF ~Live(row, now) THEN "expired"
  ELSE IF refreshes >= MaxRefresh THEN "exhausted"
  ELSE IF row.state \notin Open \cup {"stale"} THEN "unavailable"
  ELSE IF ~Bound(row, version) THEN "available"
  ELSE IF row.state \in {"building", "in_review"} THEN "pending" ELSE "current"

Metadata(c) ==
  /\ At(c, "reading")
  /\ Goto(c, [pc |-> "fence", base |-> calls[c], row |-> result, newest |-> snapshot,
              offer |-> IF result.revision = calls[c].revision
                          THEN Offer(result, calls[c].code) ELSE "unavailable"])
  /\ UNCHANGED stored

Page(state, bound, executed, offer, version) ==
  [pc |-> "shown", state |-> state, link |-> bound /\ state = "released",
   executed |-> executed, offer |-> offer, code |-> version]

\* Mutant: the page is made of what was read before its last awaits.
ShowUnfenced(c) ==
  /\ At(c, "fence")
  /\ LET call == calls[c] IN
       Goto(c, Page(call.base.state, call.base.bound, call.base.executed, call.offer, call.base.code))
  /\ UNCHANGED stored

Show(c) ==
  /\ At(c, "fence")
  /\ LET call == calls[c]
         base == call.base
         moved == \/ result # call.row \/ snapshot # call.newest
                  \/ base.revision # result.revision
                  \/ base.bound /\ snapshot # result.spec.snapshot
     IN  Goto(c, IF ~Live(result, now) THEN Page("expired", FALSE, Null, "expired", base.code)
                 ELSE IF moved THEN Page("stale", FALSE, Null, "unavailable", base.code)
                 ELSE IF Lapsed(result) THEN Page("expired", FALSE, Null, call.offer, base.code)
                 ELSE Page(base.state, base.bound, base.executed, call.offer, base.code))
  /\ UNCHANGED stored

Close(c) == At(c, "shown") /\ Goto(c, Idle) /\ UNCHANGED stored

-----------------------------------------------------------------------------
Begins(c) == Confirm(c) \/ Claim(c) \/ Recover(c) \/ Refresh(c) \/ View(c)

Continues(c) ==
  \/ Save(c) \/ Begin(c) \/ Query(c) \/ Fail(c) \/ Verify(c) \/ Renew(c)
  \/ Compare(c) \/ Recheck(c) \/ Recall(c) \/ Metadata(c) \/ Show(c) \/ Close(c)

Next ==
  \/ Tick \/ NewSnapshot \/ Deploy \/ Maintain
  \/ \E c \in Calls : Begins(c) \/ Continues(c)

Spec == Init /\ [][Next]_vars

-----------------------------------------------------------------------------
(* Properties *)

Row == [state : Open \cup Closing \cup {"stale"}, revision : Nat, spec : Specs,
        attempt : 0..MaxAttempts, lease : Nat \cup {Null}, until : Null..Retention,
        evidence : 1..MaxSnapshot \cup {Null}, deadline : 0..Retention]

\* The row's fields go together: a lease in review and only there, evidence with
\* a release and only there.
TypeOK ==
  /\ now \in 0..MaxTime /\ snapshot \in 1..MaxSnapshot /\ code \in 1..MaxCode
  /\ result \in Row
  /\ (result.until # Null) <=> (result.state = "in_review")
  /\ (result.evidence # Null) <=> (result.state = "released")
  /\ refreshes \in 0..MaxRefresh
  /\ \A h \in confirmations : h.revision < result.revision /\ h.spec \in Specs
  /\ \A c \in Calls :
       calls[c].pc \in {"idle", "save", "leased", "query", "executed", "refresh"} \cup Viewing

\* A result is released only by the holder of a lease that still runs, of a
\* proposal the account confirmed, with rows of the snapshot it names, while that
\* snapshot is the newest: whatever moved during the query and its awaits.
ReleasedOnCurrent ==
  [][result'.state = "released" /\ result.state # "released" =>
       /\ result.state = "in_review" /\ result.until > now
       /\ \E c \in Calls : At(c, "save") /\ At(c, "idle")' /\ calls[c].row = result
       /\ result'.spec.snapshot = snapshot /\ result'.evidence = snapshot
       /\ \E h \in confirmations : h.spec = result'.spec]_vars

\* A page that links to the answer is handed out only while the answer stands: of
\* the newest snapshot and unexpired; it says what a result was executed on only
\* while that result is released, and offers only a refresh that would be taken.
ViewIsCurrent ==
  [][\A c \in Calls : At(c, "shown")' /\ ~At(c, "shown") =>
       LET page == calls'[c] IN
       /\ page.link => /\ result.state = "released" /\ Live(result, now)
                       /\ result.spec.snapshot = snapshot
       /\ page.executed # Null => /\ result.state = "released"
                                  /\ result.evidence = page.executed
       /\ page.offer = "available" => /\ Refreshable(result) /\ refreshes < MaxRefresh
                                      /\ ~Bound(result, page.code)]_vars

\* The answer seen from the account: proposed, approved, answered, withdrawn.
Stage ==
  IF result.state = "confirmation_required" THEN "proposed"
  ELSE IF result.state \in {"building", "in_review"} THEN "approved"
  ELSE IF result.state = "released" THEN "answered" ELSE "withdrawn"

DataOf(spec) == spec.snapshot

Promise == INSTANCE AnswerPromise WITH
  Proposals <- Specs, Data <- DataOf, Versions <- 1..MaxSnapshot, MaxRenewals <- MaxRefresh,
  stage <- Stage, proposal <- result.spec, newest <- snapshot, renewals <- refreshes

\* Leases, retries, races and deployments implement what the account is promised.
KeepsPromise == Promise!Spec
=============================================================================
