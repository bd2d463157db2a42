-------------------------- MODULE NotificationOutbox --------------------------
(***************************************************************************)
(* The notifications about one question (core/question-request-            *)
(* notifications.ts and its D1 store).  The outbox row holds the status    *)
(* that should be told; services lease it and deliver.  Version 1 delivers *)
(* to one issue: created once, bound, then updated.  Version 2, once its   *)
(* tables are installed, replaces it by a ledger row for each payload,     *)
(* whose receipt says that a durable log holds it.                         *)
(*                                                                         *)
(* A request reads the rows and projects the question's state, awaits, and *)
(* writes with the revision of the row and all of the question compared    *)
(* again.  What a service was granted stays in grants until it is granted  *)
(* the like again: it may use a grant late, twice, or never, and lose any  *)
(* reply.  The question is what the projection reads of it: its revision,  *)
(* its state and the time to respond (QuestionResults has the page that    *)
(* reading goes through).  It outlives the model.  A lease is named by the *)
(* revision that granted it, which stands for its owner too.               *)
(* The checks services make before they deliver write nothing.             *)
(***************************************************************************)
EXTENDS Integers

CONSTANTS
  Calls,        \* slots for requests in flight
  Lease,        \* a lease lasts 900 seconds
  Day,          \* the time the account has to respond
  MaxTime,      \* bound of the clock in a model
  MaxChanges,   \* bound of the changes of the question in a model
  MaxTouches,   \* bound of the revisions the outbox row is refreshed at in a model
  LocalChanges, LocalTouches,  \* the same two, from when version 2 is installed
  MaxGranted,   \* bound of the revisions the outbox row is granted at in a model
  MaxEntered    \* bound of the revisions a ledger row is granted at, or bound again at

ASSUME NotificationBounds ==
  /\ {Lease, Day, MaxChanges, MaxTouches, MaxGranted, MaxEntered} \subseteq Nat \ {0}
  /\ MaxTime \in Nat /\ LocalChanges \in 1..MaxChanges /\ LocalTouches \in 0..MaxTouches

VARIABLES
  now,     \* the clock
  source,  \* the question and its result, as the projection reads them
  local,   \* the tables of version 2 are installed
  outbox,  \* the row in question_request_notifications
  ledger,  \* the rows in question_request_local_notifications, by payload revision
  log,     \* payloads a service has made durable
  grants,  \* what services have been granted
  calls    \* requests in flight

vars == <<now, source, local, outbox, ledger, log, grants, calls>>

Null == -1
LateOf(a, b) == IF a < b THEN b ELSE a
Idle == [pc |-> "idle"]
States == {"confirmation_required", "released"}
Statuses == States \cup {"expired"}
Payloads == 1..LateOf(MaxTouches, MaxGranted)
Revisions == 1..LateOf(MaxTouches, LateOf(MaxGranted, MaxEntered)) + 2

NoRow == [revision |-> 0]
NoPayload == [revision |-> 0, status |-> "none"]
SourceIn(state, revision) == [state |-> state, revision |-> revision, deadline |-> now + Day]

Init ==
  /\ now = 0 /\ local = FALSE
  /\ source = SourceIn("confirmation_required", 1)
  /\ outbox = NoRow /\ ledger = [p \in Payloads |-> NoRow]
  /\ log = {} /\ grants = {}
  /\ calls = [c \in Calls |-> Idle]

-----------------------------------------------------------------------------
(* The environment. *)

Tick ==
  /\ now < MaxTime /\ now' = now + 1
  /\ UNCHANGED <<source, local, outbox, ledger, log, grants, calls>>

\* The question moves on, also back to a state it was in before.
Change ==
  /\ source.revision < IF local THEN LocalChanges ELSE MaxChanges
  /\ \E state \in States : source' = SourceIn(state, source.revision + 1)
  /\ UNCHANGED <<now, local, outbox, ledger, log, grants, calls>>

\* What was granted in version 1 is refused from here on.
Install ==
  /\ source.revision <= LocalChanges /\ outbox.revision <= LocalTouches
  /\ ~local /\ local' = TRUE /\ grants' = {}
  /\ UNCHANGED <<now, source, outbox, ledger, log, calls>>

\* A service appends what it was granted to its durable log, once.
Append(g) ==
  /\ g.version = 2 /\ g.payload \notin log
  /\ log' = log \cup {g.payload}
  /\ UNCHANGED <<now, source, local, outbox, ledger, grants, calls>>

-----------------------------------------------------------------------------
(* The projection, and the fence every write puts around it. *)

\* A deadline passes without any write to the question.
StatusOf(s) ==
  IF s.state = "confirmation_required" /\ s.deadline <= now THEN "expired" ELSE s.state

Projection == [source |-> source, status |-> StatusOf(source)]

Fenced(p) == Projection = p

Running(row) == row.until > now
Free(row) == row.lease = Null

At(c, pc) == calls[c].pc = pc
Goto(c, state) == calls' = [calls EXCEPT ![c] = state]
Resumes(c, pc, state) ==
  /\ At(c, pc) /\ Goto(c, state)
  /\ UNCHANGED <<now, source, local, ledger, log, grants>>
Reads(c, state) == Resumes(c, "idle", state)
Ends(c) == Goto(c, Idle) /\ UNCHANGED <<now, source, local, log>>

Touched(row) == [row EXCEPT !.revision = @ + 1]
\* Mutant: a lease is given up, what it carries is not.
ClearedKeepingPayload(row) == [Touched(row) EXCEPT !.lease = Null, !.until = Null]

Cleared(row) == [Touched(row) EXCEPT !.lease = Null, !.until = Null, !.inflight = NoPayload]

Desired == [revision |-> outbox.desired, status |-> outbox.status]

-----------------------------------------------------------------------------
(* Reading lists the rows without a live lease, then refreshes each: clears   *)
(* its lease if that has expired, reads it again, and brings its desired      *)
(* payload up to date.  A row leased after it was listed is refreshed too,    *)
(* under its lease.                                                           *)

Expired(row) == ~Free(row) /\ ~Running(row)

Read(c) ==
  /\ outbox # NoRow => Free(outbox) \/ Expired(outbox)
  /\ Reads(c, [pc |-> "listed"]) /\ UNCHANGED outbox

Recovered ==
  IF outbox # NoRow /\ Expired(outbox) THEN Cleared(outbox) ELSE outbox

Get(c) ==
  /\ Recovered.revision < IF local THEN LocalTouches ELSE MaxTouches
  /\ outbox' = Recovered
  /\ Resumes(c, "listed", [pc |-> "refresh", revision |-> Recovered.revision, p |-> Projection])

NewRow(status) ==
  [revision |-> 1, desired |-> 1, status |-> status, delivered |-> 0, create |-> "ready",
   creation |-> NoPayload, inflight |-> NoPayload, lease |-> Null, until |-> Null]

\* The table refuses a write that leaves an expired lease in place.
Refresh(c) ==
  /\ At(c, "refresh")
  /\ LET call == calls[c]
         moved == IF outbox.status = call.p.status THEN 0 ELSE 1
     IN  outbox' =
           IF ~Fenced(call.p) \/ outbox.revision # call.revision THEN outbox
           ELSE IF outbox = NoRow THEN NewRow(call.p.status)
           ELSE IF Expired(outbox) THEN outbox
           ELSE [Touched(outbox) EXCEPT !.desired = @ + moved, !.status = call.p.status]
  /\ Ends(c) /\ UNCHANGED <<ledger, grants>>

-----------------------------------------------------------------------------
(* Version 1: one issue, created under a payload that is frozen until the   *)
(* issue is bound.                                                          *)

\* A row that is behind is refreshed instead.
Prepare(c) ==
  /\ ~local /\ outbox # NoRow /\ Free(outbox)
  /\ outbox.revision < MaxGranted
  /\ Reads(c, IF outbox.status = StatusOf(source)
                THEN [pc |-> "prepare", revision |-> outbox.revision, p |-> Projection]
                ELSE [pc |-> "listed"])
  /\ UNCHANGED outbox

Action(row) ==
  IF row.create = "ready" THEN "create" ELSE IF row.create = "pending" THEN "reconcile" ELSE "update"

Leased(row, revision) ==
  [row EXCEPT !.lease = revision, !.until = now + Lease, !.revision = @ + 1]

\* Mutant: a grant before the issue is bound carries what is desired by then.
InflightDesired(row) == [row EXCEPT !.create = IF @ = "ready" THEN "pending" ELSE @,
                                    !.creation = IF row.create = "ready" THEN Desired ELSE @,
                                    !.inflight = Desired]

Inflight(row) ==
  LET creation == IF row.create = "ready" THEN Desired ELSE row.creation IN
  [row EXCEPT !.create = IF @ = "ready" THEN "pending" ELSE @,
              !.creation = creation,
              !.inflight = IF row.create = "bound" THEN Desired ELSE creation]

\* The revision has moved past a grant when the next is made: it is of no more use.
Replaced(g, action) == g.version = 1 /\ g.action = action /\ action # "create"

Grant(c) ==
  /\ At(c, "prepare")
  /\ LET call == calls[c]
         row == Leased(Inflight(outbox), outbox.revision)
     IN  IF outbox.revision = call.revision /\ Free(outbox) /\ Fenced(call.p)
           THEN /\ outbox' = row
                /\ grants' = {g \in grants : ~Replaced(g, Action(outbox))} \cup
                      {[version |-> 1, action |-> Action(outbox), payload |-> row.inflight,
                        lease |-> row.lease, revision |-> row.revision]}
           ELSE UNCHANGED <<outbox, grants>>
  /\ Ends(c) /\ UNCHANGED ledger

\* Mutant: the lease is compared, the revision is not.
HoldsLease(row, g) == row.lease = g.lease /\ Running(row)

Holds(row, g) == row.revision = g.revision /\ row.lease = g.lease /\ Running(row)

\* One statement; once version 2 is there, a trigger keeps issues from changing.
Bind(g) ==
  /\ ~local /\ g.version = 1 /\ outbox.create = "pending" /\ Holds(outbox, g)
  /\ outbox' = [Cleared(outbox) EXCEPT !.create = "bound"]
  /\ UNCHANGED <<now, source, local, ledger, log, grants, calls>>

\* An update that may have been delivered keeps its lease.
Retry(g) ==
  /\ ~local /\ g.version = 1 /\ outbox.create = "pending" /\ Holds(outbox, g)
  /\ outbox' = Cleared(outbox)
  /\ UNCHANGED <<now, source, local, ledger, log, grants, calls>>

Ack(c, g) ==
  /\ ~local /\ g.version = 1
  /\ outbox.inflight.status = StatusOf(source)
  /\ Reads(c, [pc |-> "ack", g |-> g, p |-> Projection])
  /\ UNCHANGED outbox

Acked(c) ==
  /\ At(c, "ack")
  /\ LET call == calls[c] IN
       IF Holds(outbox, call.g) /\ outbox.create = "bound" /\ Fenced(call.p)
         THEN outbox' = [Cleared(outbox) EXCEPT !.delivered = LateOf(@, outbox.inflight.revision)]
         ELSE UNCHANGED outbox
  /\ Ends(c) /\ UNCHANGED <<ledger, grants>>

-----------------------------------------------------------------------------
(* Version 2: a ledger row for every desired payload. *)

LocalRow(status) ==
  [revision |-> 1, status |-> status, lease |-> Null, until |-> Null, receipt |-> Null,
   delivered |-> FALSE]

LocalPrepare(c) ==
  /\ local /\ outbox # NoRow /\ outbox.status = StatusOf(source)
  /\ Reads(c, [pc |-> "enter", expected |-> outbox.revision, key |-> outbox.desired, p |-> Projection])
  /\ UNCHANGED outbox

StillDesired(call) ==
  outbox.revision = call.expected /\ outbox.desired = call.key /\ Fenced(call.p)

\* The row is there once, whoever enters it.
Enter(c) ==
  /\ At(c, "enter")
  /\ LET call == calls[c]
         key == call.key
         entered == IF ledger[key] = NoRow /\ StillDesired(call)
                      THEN LocalRow(call.p.status) ELSE ledger[key]
     IN  /\ ledger' = [ledger EXCEPT ![key] = entered]
         /\ Goto(c, IF entered = NoRow THEN Idle
                    ELSE IF entered.delivered \/ entered.status # call.p.status THEN Idle
                    ELSE [pc |-> "lease", expected |-> call.expected, key |-> key, p |-> call.p,
                          revision |-> entered.revision])
  /\ UNCHANGED <<now, source, local, outbox, log, grants>>

LocalGrant(c) ==
  /\ At(c, "lease")
  /\ LET call == calls[c]
         key == call.key
         old == ledger[key]
         row == Leased(old, old.revision)
     IN  IF /\ old.revision = call.revision /\ old.revision < MaxEntered
            /\ ~old.delivered /\ (Free(old) \/ ~Running(old)) /\ StillDesired(call)
           THEN /\ ledger' = [ledger EXCEPT ![key] = row]
                /\ grants' = {g \in grants : g.payload.revision # key} \cup
                      {[version |-> 2,
                        action |-> IF row.receipt = Null THEN "append" ELSE "reconcile",
                        payload |-> [revision |-> key, status |-> row.status],
                        lease |-> row.lease, revision |-> row.revision]}
           ELSE UNCHANGED <<ledger, grants>>
  /\ Ends(c) /\ UNCHANGED outbox

Entry(g) == ledger[g.payload.revision]

\* What a grant of version 2 may do is read, and compared when it is written.
\* The caller names the revision, which the reply to a bind told it; a bind may
\* be sent again.
Mutate(c, g, kind) ==
  /\ local /\ g.version = 2
  /\ Entry(g).lease = g.lease /\ ~Entry(g).delivered
  /\ Entry(g).status = StatusOf(source)
  /\ kind = "bind" => g.payload \in log /\ (Entry(g).revision = g.revision \/ Entry(g).revision < MaxEntered)
  /\ kind = "done" => Entry(g).receipt = g.lease
  /\ Reads(c, [pc |-> "mutate", kind |-> kind, g |-> g, revision |-> Entry(g).revision, p |-> Projection])
  /\ UNCHANGED outbox

Settles(call) ==
  /\ Entry(call.g).revision = call.revision /\ Entry(call.g).lease = call.g.lease
  /\ Running(Entry(call.g))
  /\ Desired = call.g.payload
  /\ Fenced(call.p)

Settled(row, kind) ==
  IF kind = "bind" THEN [Touched(row) EXCEPT !.receipt = row.lease]
  ELSE [Touched(row) EXCEPT !.lease = Null, !.until = Null, !.delivered = (kind = "done")]

LocalMutate(c) ==
  /\ At(c, "mutate")
  /\ LET call == calls[c] IN
       ledger' = IF Settles(call)
                   THEN [ledger EXCEPT ![call.g.payload.revision] = Settled(@, call.kind)]
                   ELSE ledger
  /\ Ends(c) /\ UNCHANGED <<outbox, grants>>

-----------------------------------------------------------------------------
Deliveries ==
  \E g \in grants :
    \/ Append(g) \/ Bind(g) \/ Retry(g)
    \/ \E c \in Calls : Ack(c, g) \/ \E kind \in {"bind", "done", "again"} : Mutate(c, g, kind)

Handle(c) ==
  \/ Read(c) \/ Get(c) \/ Refresh(c) \/ Prepare(c) \/ Grant(c) \/ Acked(c)
  \/ LocalPrepare(c) \/ Enter(c) \/ LocalGrant(c) \/ LocalMutate(c)

Next == Tick \/ Change \/ Install \/ Deliveries \/ \E c \in Calls : Handle(c)

Spec == Init /\ [][Next]_vars

-----------------------------------------------------------------------------
(* Properties *)

Payload == [revision : {0} \cup Payloads, status : Statuses \cup {"none"}]

OutboxRow == [revision : Revisions, desired : Payloads, status : Statuses, delivered : {0} \cup Payloads,
              create : {"ready", "pending", "bound"}, creation : Payload, inflight : Payload,
              lease : {Null} \cup Revisions, until : Null..MaxTime + Lease]
LedgerRow == [revision : Revisions, status : Statuses, lease : {Null} \cup Revisions,
              until : Null..MaxTime + Lease, receipt : {Null} \cup Revisions, delivered : BOOLEAN]

\* A grant is out exactly while its row is leased; nothing is delivered that was
\* never desired, and a delivered entry has its receipt.
TypeOK ==
  /\ now \in 0..MaxTime /\ source.revision \in 1..MaxChanges /\ local \in BOOLEAN
  /\ outbox # NoRow =>
       /\ outbox \in OutboxRow
       /\ Free(outbox) <=> outbox.inflight = NoPayload
       /\ outbox.delivered <= outbox.desired /\ outbox.creation.revision <= outbox.desired
  /\ \A p \in Payloads : ledger[p] # NoRow =>
       /\ ledger[p] \in LedgerRow /\ p <= outbox.desired
       /\ ledger[p].delivered => ledger[p].receipt # Null /\ Free(ledger[p])

\* Told is told for good, and only when it is so: a payload is marked delivered
\* while it is the one desired, the question still projects to it, and a receipt
\* of the same lease stands for its durable copy. A slow service cannot mark an
\* older payload as the news.
DeliveredIsCurrent ==
  [][/\ \A p \in Payloads : ledger'[p] # ledger[p] /\ ledger'[p].delivered =>
          /\ [revision |-> p, status |-> ledger[p].status] = Desired
          /\ Desired.status = StatusOf(source)
          /\ Desired \in log /\ ledger[p].receipt = ledger[p].lease
     /\ outbox # NoRow /\ outbox'.delivered # outbox.delivered =>
          /\ outbox.inflight = Desired /\ Desired.status = StatusOf(source)
          /\ outbox'.delivered > outbox.delivered]_vars

\* However grants expire and replies are lost, the issue is created under one
\* grant only; until it is bound, every grant asks for the same payload, so that
\* a service can recognise an issue it does not know of.
CreatedOnce ==
  \A g, h \in {k \in grants : k.version = 1 /\ k.action \in {"create", "reconcile"}} :
    /\ g.payload = h.payload
    /\ g.action = "create" /\ h.action = "create" => g = h
=============================================================================
