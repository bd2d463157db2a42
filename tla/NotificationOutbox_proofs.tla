---------------------- MODULE NotificationOutbox_proofs ----------------------
(***************************************************************************)
(* Proofs about the notifications of one question, for any number of       *)
(* requests in flight, any lease and any bounds.                           *)
(*                                                                         *)
(* The outbox row and each ledger row count their writes in a revision,    *)
(* and a write compares the revision it read.  So what a request or a      *)
(* grant knows of a row is true of it, or the row has moved on: also when  *)
(* it was a refresh that moved it, under the lease of another.  The        *)
(* invariant says what each of them knows, that the payload of a creation  *)
(* is frozen once it is granted, and that a receipt stands for a payload   *)
(* in the durable log.                                                     *)
(***************************************************************************)
EXTENDS NotificationOutbox, TLAPS

-----------------------------------------------------------------------------
(* The fields of the rows, under names, so that a proof need not look inside. *)

Top == LateOf(MaxTouches, MaxGranted)
Marks == {0} \cup Payloads
Told == Statuses \cup {"none"}
Creates == {"ready", "pending", "bound"}
Leases == {Null} \cup Revisions
Untils == Null..MaxTime + Lease

Contents == [revision : Marks, status : Told]

Rows == [revision : Revisions, desired : Payloads, status : Statuses, delivered : Marks,
         create : Creates, creation : Contents, inflight : Contents, lease : Leases,
         until : Untils]

Entries == [revision : Revisions, status : Statuses, lease : Leases, until : Untils,
            receipt : Leases, delivered : BOOLEAN]

\* The outbox row. Every payload took a revision of its own, and so did every
\* grant: what is desired has not outrun the revision.
RowOK(row) ==
  /\ row \in Rows
  /\ Free(row) <=> row.inflight = NoPayload
  /\ row.delivered <= row.desired
  /\ row.creation.revision <= row.desired /\ row.inflight.revision <= row.desired
  /\ row.create # "ready" => row.creation # NoPayload
  /\ row.desired <= row.revision /\ row.revision <= Top + 1
  /\ ~Free(row) => row.desired < row.revision /\ row.revision <= Top

\* The ledger row of payload p.
EntryOK(p, row, held, durable) ==
  /\ row \in Entries /\ row.revision <= MaxEntered + 2
  /\ ~Free(row) => row.revision <= MaxEntered + 1
  /\ row.delivered => row.receipt # Null /\ Free(row)
  /\ held # NoRow /\ p <= held.desired
  /\ row.receipt # Null => [revision |-> p, status |-> row.status] \in durable

\* Once the issue is bound, the row a grant left carries what is desired.
CarriesDesired(g, row) ==
  /\ g.revision \in Revisions /\ g.revision <= row.revision
  /\ g.revision = row.revision /\ row.create = "bound" =>
       row.inflight = [revision |-> row.desired, status |-> row.status]

\* A grant to create the issue, or to look for it, carries what was frozen then.
GrantOK(g, row, entries) ==
  /\ g.version \in {1, 2} /\ g.lease \in Revisions
  /\ g.version = 1 => row # NoRow /\ CarriesDesired(g, row)
  /\ g.version = 1 /\ g.action \in {"create", "reconcile"} =>
       row.create # "ready" /\ g.payload = row.creation
  /\ g.version = 2 =>
       /\ g.payload = [revision |-> g.payload.revision, status |-> g.payload.status]
       /\ g.payload.revision \in Payloads /\ g.revision \in 1..MaxEntered
       /\ entries[g.payload.revision] # NoRow
       /\ entries[g.payload.revision].status = g.payload.status

\* A request that refreshes or prepares names a revision the row has had, leased
\* or not.
RefreshOK(call, row) ==
  call.revision \in Nat /\ call.revision < MaxTouches /\ call.revision <= row.revision

PrepareOK(call, row) ==
  call.revision \in Nat \ {0} /\ call.revision < MaxGranted /\ call.revision <= row.revision

\* An acknowledgement was let in while what is in flight was still so.
AckOK(call, row) ==
  /\ row # NoRow /\ call.g.lease \in Revisions /\ CarriesDesired(call.g, row)
  /\ call.g.revision = row.revision => row.inflight.status = call.p.status

\* A request that mutates a ledger row read it under its own lease.
MutateOK(call, entries, durable) ==
  LET key == call.g.payload.revision
      entry == entries[key]
  IN  /\ key \in Payloads /\ call.g.lease \in Revisions
      /\ call.kind \in {"bind", "done", "again"}
      /\ call.kind = "bind" => call.g.payload \in durable /\ call.revision <= MaxEntered
      /\ call.revision \in 1..MaxEntered + 1 /\ call.revision <= entry.revision
      /\ call.revision = entry.revision =>
           /\ entry.lease = call.g.lease /\ ~entry.delivered
           /\ entry.status = call.p.status
           /\ call.g.payload = [revision |-> key, status |-> entry.status]
           /\ call.kind = "done" => entry.receipt = call.g.lease

CallOK(call, row, entries, durable) ==
  /\ call.pc \in {"refresh", "prepare", "ack", "enter", "lease", "mutate"} =>
       call.p.status \in Statuses
  /\ call.pc = "refresh" => RefreshOK(call, row)
  /\ call.pc = "prepare" => PrepareOK(call, row)
  /\ call.pc = "ack" => AckOK(call, row)
  /\ call.pc \in {"enter", "lease"} => call.key \in Payloads /\ call.expected \in Nat \ {0}
  /\ call.pc = "lease" => call.revision \in Revisions
  /\ call.pc = "mutate" => MutateOK(call, entries, durable)

SourceOK ==
  /\ now \in 0..MaxTime /\ local \in BOOLEAN
  /\ source.revision \in 1..MaxChanges /\ source.state \in States

LedgerOK ==
  /\ ledger \in [Payloads -> Entries \cup {NoRow}]
  /\ \A p \in Payloads : ledger[p] # NoRow => EntryOK(p, ledger[p], outbox, log)

GrantsOK ==
  /\ \A g \in grants : GrantOK(g, outbox, ledger)
  /\ \A g, h \in grants :
       g.version = 1 /\ h.version = 1 /\ g.action = "create" /\ h.action = "create" => g = h

CallsOK ==
  /\ calls = [c \in Calls |-> calls[c]]
  /\ \A c \in Calls : CallOK(calls[c], outbox, ledger, log)

\* The inductive invariant.
IInv ==
  SourceOK /\ (outbox = NoRow \/ RowOK(outbox)) /\ LedgerOK /\ GrantsOK /\ CallsOK

-----------------------------------------------------------------------------
(* The values of the constants, and the types of a row's fields. *)

\* The limits and times are natural numbers.
LEMMA Times ==
  /\ Lease \in Nat \ {0} /\ Day \in Nat \ {0} /\ MaxChanges \in Nat \ {0}
  /\ MaxTouches \in Nat \ {0} /\ MaxGranted \in Nat \ {0} /\ MaxEntered \in Nat \ {0}
  /\ MaxTime \in Nat /\ LocalChanges \in 1..MaxChanges /\ LocalTouches \in 0..MaxTouches
BY NotificationBounds

\* The bound of the payloads is the larger of the bounds of the revisions.
LEMMA Tops ==
  /\ Top \in Nat \ {0} /\ MaxTouches <= Top /\ MaxGranted <= Top
  /\ Payloads = 1..Top
  /\ Revisions \subseteq Nat \ {0}
  /\ \A n \in Nat : n \in 1..Top + 1 => n \in Revisions
  /\ \A n \in Nat : n \in 1..MaxEntered + 2 => n \in Revisions
<1>1. Top \in Nat \ {0} /\ MaxTouches <= Top /\ MaxGranted <= Top
  BY Times DEF Top, LateOf
<1> DEFINE high == LateOf(MaxTouches, LateOf(MaxGranted, MaxEntered))
<1>2. high \in Nat /\ Top <= high /\ MaxEntered <= high
  BY Times DEF Top, LateOf
<1>3. Revisions = 1..high + 2  BY DEF Revisions
<1> HIDE DEF high
<1>4. QED  BY <1>1, <1>2, <1>3, Times DEF Payloads, Top

\* The types of the fields of the outbox row.
LEMMA RowFields ==
  ASSUME NEW r \in Rows
  PROVE  /\ r.revision \in Revisions /\ r.desired \in Payloads /\ r.status \in Statuses
         /\ r.delivered \in Marks /\ r.create \in Creates /\ r.creation \in Contents
         /\ r.inflight \in Contents /\ r.lease \in Leases /\ r.until \in Untils
BY DEF Rows

\* A payload names a revision and a status.
LEMMA ContentFields ==
  ASSUME NEW k \in Contents
  PROVE  /\ k.revision \in Nat /\ k.status \in Told
         /\ k = [revision |-> k.revision, status |-> k.status]
<1>1. k.revision \in Marks /\ k.status \in Told
      /\ k = [revision |-> k.revision, status |-> k.status]
  BY DEF Contents
<1>2. QED  BY <1>1, Tops DEF Marks

\* The numbers among the fields of the outbox row.
LEMMA RowNumbers ==
  ASSUME NEW r \in Rows
  PROVE  /\ r.revision \in Nat \ {0} /\ r.desired \in Nat \ {0} /\ r.desired <= Top
         /\ r.delivered \in Nat /\ r.creation.revision \in Nat /\ r.inflight.revision \in Nat
<1>1. /\ r.revision \in Revisions /\ r.desired \in Payloads /\ r.delivered \in Marks
      /\ r.creation \in Contents /\ r.inflight \in Contents
  BY RowFields
<1>2. r.creation.revision \in Nat /\ r.inflight.revision \in Nat  BY <1>1, ContentFields
<1>3. r.revision \in Nat \ {0}  BY <1>1, Tops
<1>4. r.desired \in Nat \ {0} /\ r.desired <= Top  BY <1>1, Tops
<1>5. r.delivered \in Nat  BY <1>1, Tops DEF Marks
<1>6. QED  BY <1>2, <1>3, <1>4, <1>5

\* A row that is there is not a missing one.
LEMMA RowThere ==
  ASSUME NEW r \in Rows
  PROVE  r # NoRow
<1>1. r.revision # 0  BY RowNumbers
<1>2. QED  BY <1>1 DEF NoRow

\* The types of the fields of a ledger row.
LEMMA EntryFields ==
  ASSUME NEW r \in Entries
  PROVE  /\ r.revision \in Revisions /\ r.status \in Statuses /\ r.lease \in Leases
         /\ r.until \in Untils /\ r.receipt \in Leases /\ r.delivered \in BOOLEAN
         /\ r.revision \in Nat \ {0} /\ r # NoRow
<1>1. /\ r.revision \in Revisions /\ r.status \in Statuses /\ r.lease \in Leases
      /\ r.until \in Untils /\ r.receipt \in Leases /\ r.delivered \in BOOLEAN
  BY DEF Entries
<1>2. r.revision \in Nat \ {0}  BY <1>1, Tops
<1>3. r # NoRow  BY <1>2 DEF NoRow
<1>4. QED  BY <1>1, <1>2, <1>3

\* The types of the rows as the module states them.
LEMMA RowTypes == Rows = OutboxRow /\ Entries = LedgerRow
BY DEF OutboxRow, LedgerRow, Rows, Entries, Contents, Payload, Marks, Told, Creates, Leases,
   Untils

\* What is desired, and no payload.
LEMMA DesiredContent ==
  ASSUME outbox \in Rows
  PROVE  /\ Desired \in Contents /\ Desired # NoPayload
         /\ Desired.revision = outbox.desired /\ Desired.status = outbox.status
<1>1. outbox.desired \in Marks /\ outbox.status \in Told
  BY RowFields DEF Marks, Told
<1>2. outbox.desired # 0  BY RowNumbers
<1>3. Desired = [revision |-> outbox.desired, status |-> outbox.status]  BY DEF Desired
<1>4. QED  BY <1>1, <1>2, <1>3 DEF Contents, NoPayload

\* No payload is one of the contents.
LEMMA NoContent == NoPayload \in Contents /\ NoPayload.revision = 0
BY DEF NoPayload, Contents, Marks, Told

-----------------------------------------------------------------------------
(* What becomes of the outbox row. *)

\* A lease that is given up takes a revision and what was in flight with it.
LEMMA ClearedRow ==
  ASSUME NEW r, RowOK(r), ~Free(r)
  PROVE  LET next == Cleared(r)
         IN  /\ RowOK(next) /\ Free(next) /\ next.revision = r.revision + 1
             /\ next.desired = r.desired /\ next.status = r.status
             /\ next.delivered = r.delivered /\ next.create = r.create
             /\ next.creation = r.creation /\ next.desired < Top
             /\ next.revision <= Top + 1
<1> DEFINE revision == r.revision + 1
           next == [r EXCEPT !.revision = revision, !.lease = Null, !.until = Null,
                             !.inflight = NoPayload]
<1>1. /\ r \in Rows /\ r.desired < r.revision /\ r.revision <= Top
      /\ r.delivered <= r.desired /\ r.creation.revision <= r.desired
      /\ r.create # "ready" => r.creation # NoPayload
  BY DEF RowOK
<1>2. /\ r.revision \in Nat \ {0} /\ r.desired \in Nat /\ r.delivered \in Nat
      /\ r.creation.revision \in Nat
  BY <1>1, RowNumbers
<1>3. /\ revision \in Nat \ {0} /\ r.desired <= revision /\ revision <= Top + 1
      /\ r.desired < Top
  BY <1>1, <1>2, Times, Tops
<1>4. revision \in Revisions  BY <1>3, Tops
<1>5. Null \in Leases /\ Null \in Untils
  BY Times DEF Leases, Untils, Null
<1>6. Cleared(r) = next  BY <1>1 DEF Cleared, Touched, Rows
<1> HIDE DEF revision
<1>7. next \in Rows  BY <1>1, <1>4, <1>5, NoContent DEF Rows
<1>8. /\ next.revision = revision /\ next.desired = r.desired /\ next.status = r.status
      /\ next.delivered = r.delivered /\ next.create = r.create /\ next.creation = r.creation
      /\ next.inflight = NoPayload /\ next.lease = Null
  BY <1>1, RowFields DEF Rows
<1> HIDE DEF next
<1>9. Free(next)  BY <1>8 DEF Free
<1>10. next.inflight.revision <= next.desired
  BY <1>2, <1>8, NoContent
<1>11. RowOK(next)  BY <1>1, <1>3, <1>7, <1>8, <1>9, <1>10 DEF RowOK
<1>12. QED  BY <1>3, <1>6, <1>8, <1>9, <1>11 DEF revision

\* The issue is bound.
LEMMA BoundRow ==
  ASSUME NEW r, RowOK(r), Free(r), r.create = "pending"
  PROVE  LET next == [r EXCEPT !.create = "bound"]
         IN  /\ RowOK(next) /\ next.revision = r.revision /\ next.creation = r.creation
             /\ next.create = "bound" /\ next.desired = r.desired
             /\ next.delivered = r.delivered
<1> DEFINE next == [r EXCEPT !.create = "bound"]
<1>1. r \in Rows  BY DEF RowOK
<1>2. "bound" \in Creates  BY DEF Creates
<1>3. next \in Rows  BY <1>1, <1>2 DEF Rows
<1>4. /\ next.revision = r.revision /\ next.desired = r.desired /\ next.delivered = r.delivered
      /\ next.create = "bound" /\ next.creation = r.creation
      /\ next.inflight = r.inflight /\ next.lease = r.lease
  BY <1>1, <1>2, RowFields DEF Rows
<1> HIDE DEF next
<1>5. RowOK(next)  BY <1>3, <1>4 DEF RowOK, Free
<1>6. QED  BY <1>4, <1>5 DEF next

\* What was delivered is noted.
LEMMA DeliveredRow ==
  ASSUME NEW r, RowOK(r), Free(r), NEW n \in Nat, n <= r.desired
  PROVE  LET next == [r EXCEPT !.delivered = LateOf(@, n)]
         IN  /\ RowOK(next) /\ next.revision = r.revision /\ next.creation = r.creation
             /\ next.create = r.create /\ next.desired = r.desired
             /\ next.delivered = LateOf(r.delivered, n)
<1> DEFINE delivered == LateOf(r.delivered, n)
           next == [r EXCEPT !.delivered = delivered]
<1>1. r \in Rows /\ r.delivered <= r.desired  BY DEF RowOK
<1>2. r.delivered \in Nat /\ r.desired \in Nat /\ r.desired <= Top  BY <1>1, RowNumbers
<1>3. delivered \in Marks /\ delivered <= r.desired
  BY <1>1, <1>2, Tops DEF LateOf, Marks
<1>4. [r EXCEPT !.delivered = LateOf(@, n)] = next  BY <1>1 DEF Rows
<1> HIDE DEF delivered
<1>5. next \in Rows  BY <1>1, <1>3 DEF Rows
<1>6. /\ next.revision = r.revision /\ next.desired = r.desired /\ next.delivered = delivered
      /\ next.create = r.create /\ next.creation = r.creation
      /\ next.inflight = r.inflight /\ next.lease = r.lease
  BY <1>1, <1>3, RowFields DEF Rows
<1> HIDE DEF next
<1>7. RowOK(next)  BY <1>3, <1>5, <1>6 DEF RowOK, Free
<1>8. QED  BY <1>4, <1>6, <1>7 DEF delivered

\* A refresh brings the desired payload up to date; a lease and what it carries stay.
LEMMA RefreshedRow ==
  ASSUME NEW r, RowOK(r), r.revision < Top,
         NEW moved \in {0, 1}, NEW status \in Statuses
  PROVE  LET next == [Touched(r) EXCEPT !.desired = @ + moved, !.status = status]
         IN  /\ RowOK(next) /\ next.revision = r.revision + 1 /\ next.desired >= r.desired
             /\ next.create = r.create /\ next.creation = r.creation
             /\ next.delivered = r.delivered
<1> DEFINE revision == r.revision + 1
           desired == r.desired + moved
           next == [r EXCEPT !.revision = revision, !.desired = desired, !.status = status]
<1>1. /\ r \in Rows /\ r.desired <= r.revision /\ r.delivered <= r.desired
      /\ r.creation.revision <= r.desired /\ r.inflight.revision <= r.desired
      /\ r.create # "ready" => r.creation # NoPayload
      /\ Free(r) <=> r.inflight = NoPayload
      /\ ~Free(r) => r.desired < r.revision
  BY DEF RowOK
<1>2. /\ r.revision \in Nat \ {0} /\ r.desired \in Nat \ {0} /\ r.delivered \in Nat
      /\ r.creation.revision \in Nat /\ r.inflight.revision \in Nat
  BY <1>1, RowNumbers
<1>3. /\ revision \in Nat \ {0} /\ desired \in Nat \ {0} /\ desired <= Top
      /\ desired <= revision /\ revision <= Top /\ r.desired <= desired
      /\ r.delivered <= desired /\ r.creation.revision <= desired
      /\ r.inflight.revision <= desired
  BY <1>1, <1>2, Tops
<1>4. ~Free(r) => desired < revision  BY <1>1, <1>2
<1>5. revision \in Revisions /\ desired \in Payloads /\ revision <= Top + 1
  BY <1>3, Tops
<1>6. [Touched(r) EXCEPT !.desired = @ + moved, !.status = status] = next
  BY <1>1 DEF Touched, Rows
<1>7. next.desired >= r.desired
  BY <1>1, <1>2, <1>3 DEF Rows
<1> HIDE DEF revision, desired
<1>8. next \in Rows  BY <1>1, <1>5 DEF Rows
<1>9. /\ next.revision = revision /\ next.desired = desired /\ next.delivered = r.delivered
      /\ next.create = r.create /\ next.creation = r.creation
      /\ next.inflight = r.inflight /\ next.lease = r.lease
  BY <1>1, <1>5, RowFields DEF Rows
<1> HIDE DEF next
<1>10. Free(next) <=> Free(r)  BY <1>9 DEF Free
<1>11. RowOK(next)  BY <1>1, <1>3, <1>4, <1>5, <1>8, <1>9, <1>10 DEF RowOK
<1>12. QED  BY <1>6, <1>7, <1>9, <1>11 DEF revision, next

\* The row as it is entered first.
LEMMA FirstRow ==
  ASSUME NEW status \in Statuses
  PROVE  /\ RowOK(NewRow(status)) /\ NewRow(status).revision = 1
         /\ NewRow(status).create = "ready"
<1> DEFINE next == [revision |-> 1, desired |-> 1, status |-> status, delivered |-> 0,
                    create |-> "ready", creation |-> NoPayload, inflight |-> NoPayload,
                    lease |-> Null, until |-> Null]
<1>1. NewRow(status) = next  BY DEF NewRow
<1>2. 1 \in Revisions /\ 1 \in Payloads /\ 0 \in Marks  BY Tops DEF Marks
<1>3. "ready" \in Creates /\ Null \in Leases /\ Null \in Untils
  BY Times DEF Creates, Leases, Untils, Null
<1>4. next \in Rows  BY <1>2, <1>3, NoContent DEF Rows
<1>5. /\ Free(next) /\ next.inflight = NoPayload /\ next.creation = NoPayload
      /\ next.create = "ready" /\ next.desired = 1 /\ next.revision = 1
      /\ next.delivered = 0
  BY DEF Free
<1> HIDE DEF next
<1>6. RowOK(next)  BY <1>4, <1>5, NoContent, Tops DEF RowOK
<1>7. QED  BY <1>1, <1>5, <1>6

\* A grant freezes what it carries: what is desired, unless the issue is not bound
\* and a creation was frozen before.
LEMMA GrantedRow ==
  ASSUME RowOK(outbox), Free(outbox), outbox.revision < MaxGranted, now \in 0..MaxTime
  PROVE  LET next == Leased(Inflight(outbox), outbox.revision)
         IN  /\ RowOK(next) /\ next.revision = outbox.revision + 1
             /\ next.lease = outbox.revision /\ next.create # "ready"
             /\ next.delivered = outbox.delivered /\ next.desired = outbox.desired
             /\ outbox.create # "ready" => next.creation = outbox.creation
             /\ outbox.create # "bound" => next.inflight = next.creation
             /\ next.create = "bound" =>
                  next.inflight = [revision |-> next.desired, status |-> next.status]
<1> DEFINE revision == outbox.revision + 1
           until == now + Lease
           create == IF outbox.create = "ready" THEN "pending" ELSE outbox.create
           creation == IF outbox.create = "ready" THEN Desired ELSE outbox.creation
           inflight == IF outbox.create = "bound" THEN Desired ELSE creation
           next == [outbox EXCEPT !.revision = revision, !.create = create,
                                  !.creation = creation, !.inflight = inflight,
                                  !.lease = outbox.revision, !.until = until]
<1>1. /\ outbox \in Rows /\ outbox.desired <= outbox.revision
      /\ outbox.delivered <= outbox.desired /\ outbox.creation.revision <= outbox.desired
      /\ outbox.create # "ready" => outbox.creation # NoPayload
  BY DEF RowOK
<1>2. /\ outbox.revision \in Nat \ {0} /\ outbox.desired \in Nat \ {0}
      /\ outbox.delivered \in Nat /\ outbox.creation.revision \in Nat
  BY <1>1, RowNumbers
<1>3. /\ revision \in Nat \ {0} /\ outbox.desired < revision /\ outbox.desired <= revision
      /\ revision <= Top /\ revision <= Top + 1
  BY <1>1, <1>2, Times, Tops
<1>4. revision \in Revisions /\ outbox.revision \in Leases
  BY <1>1, <1>3, RowFields, Tops DEF Leases
<1>5. until \in Untils  BY Times DEF Untils, Null
<1>6. create \in Creates /\ create # "ready"  BY <1>1, RowFields DEF Creates
<1>7. creation \in Contents /\ creation # NoPayload /\ creation.revision <= outbox.desired
  BY <1>1, <1>2, DesiredContent, RowFields
<1>8. inflight \in Contents /\ inflight # NoPayload /\ inflight.revision <= outbox.desired
  BY <1>1, <1>2, <1>7, DesiredContent
<1>9. Leased(Inflight(outbox), outbox.revision) = next
  BY <1>1 DEF Leased, Inflight, Rows
<1>10. /\ outbox.create # "ready" => creation = outbox.creation
       /\ outbox.create # "bound" => inflight = creation
       /\ create = "bound" =>
            inflight = [revision |-> outbox.desired, status |-> outbox.status]
  BY DEF Desired
<1>11. outbox.revision # Null  BY <1>2 DEF Null
<1> HIDE DEF revision, until, create, creation, inflight
<1>12. next \in Rows  BY <1>1, <1>4, <1>5, <1>6, <1>7, <1>8 DEF Rows
<1>13. /\ next.revision = revision /\ next.desired = outbox.desired
       /\ next.delivered = outbox.delivered /\ next.create = create
       /\ next.creation = creation /\ next.inflight = inflight
       /\ next.lease = outbox.revision /\ next.status = outbox.status
  BY <1>1, <1>4, <1>5, <1>6, <1>7, <1>8, RowFields DEF Rows
<1> HIDE DEF next
<1>14. ~Free(next)  BY <1>11, <1>13 DEF Free
<1>15. RowOK(next)
  BY <1>1, <1>3, <1>6, <1>7, <1>8, <1>12, <1>13, <1>14 DEF RowOK
<1>16. QED  BY <1>6, <1>9, <1>10, <1>13, <1>15 DEF revision

-----------------------------------------------------------------------------
(* What becomes of a ledger row. *)

\* A payload is entered.
LEMMA EnteredEntry ==
  ASSUME NEW status \in Statuses
  PROVE  LET next == LocalRow(status)
         IN  /\ next \in Entries /\ next.revision = 1 /\ next.status = status
             /\ ~next.delivered /\ next.receipt = Null
<1>1. 1 \in Revisions /\ Null \in Leases /\ Null \in Untils
  BY Times, Tops DEF Leases, Untils, Null
<1>2. QED  BY <1>1 DEF LocalRow, Entries

\* An entry is leased.
LEMMA LeasedEntry ==
  ASSUME NEW r \in Entries, r.revision < MaxEntered, now \in 0..MaxTime
  PROVE  LET next == Leased(r, r.revision)
         IN  /\ next \in Entries /\ next.revision = r.revision + 1 /\ next.status = r.status
             /\ next.delivered = r.delivered /\ next.receipt = r.receipt
             /\ next.lease = r.revision /\ next.revision <= MaxEntered
<1> DEFINE revision == r.revision + 1
           until == now + Lease
           next == [r EXCEPT !.lease = r.revision, !.until = until, !.revision = revision]
<1>1. r.revision \in Nat \ {0} /\ r.revision \in Revisions  BY EntryFields
<1>2. revision \in Nat /\ revision \in 1..MaxEntered + 2 /\ revision <= MaxEntered
  BY <1>1, Times
<1>3. revision \in Revisions /\ r.revision \in Leases  BY <1>1, <1>2, Tops DEF Leases
<1>4. until \in Untils  BY Times DEF Untils, Null
<1>5. Leased(r, r.revision) = next  BY DEF Leased, Entries
<1> HIDE DEF until, revision
<1>6. next \in Entries  BY <1>3, <1>4 DEF Entries
<1>7. /\ next.revision = revision /\ next.status = r.status /\ next.delivered = r.delivered
      /\ next.receipt = r.receipt /\ next.lease = r.revision
  BY <1>3, <1>4, EntryFields DEF Entries
<1> HIDE DEF next
<1>8. QED  BY <1>2, <1>5, <1>6, <1>7 DEF revision

\* An entry is settled: it gets its receipt, or gives its lease up, told or not.
LEMMA SettledEntry ==
  ASSUME NEW r \in Entries, r.revision \in 1..MaxEntered + 1, ~r.delivered,
         NEW kind \in {"bind", "done", "again"}, kind = "bind" => r.revision <= MaxEntered
  PROVE  LET next == Settled(r, kind)
         IN  /\ next \in Entries /\ next.revision = r.revision + 1 /\ next.status = r.status
             /\ next.revision <= MaxEntered + 2
             /\ ~Free(next) => next.revision <= MaxEntered + 1
             /\ next.delivered => kind = "done" /\ Free(next)
             /\ next.receipt = (IF kind = "bind" THEN r.lease ELSE r.receipt)
<1> DEFINE revision == r.revision + 1
<1>1. r.revision \in Nat \ {0} /\ r.lease \in Leases /\ r.receipt \in Leases  BY EntryFields
<1>2. revision \in Nat /\ revision \in 1..MaxEntered + 2 /\ revision <= MaxEntered + 2
  BY <1>1, Times
<1>3. revision \in Revisions  BY <1>2, Tops
<1>4. Null \in Leases /\ Null \in Untils  BY Times DEF Leases, Untils, Null
<1>5. CASE kind = "bind"
  <2> DEFINE next == [r EXCEPT !.revision = revision, !.receipt = r.lease]
  <2>1. Settled(r, kind) = next  BY <1>5 DEF Settled, Touched, Entries
  <2> HIDE DEF revision
  <2>2. next \in Entries  BY <1>1, <1>3 DEF Entries
  <2>3. /\ next.revision = revision /\ next.status = r.status /\ next.delivered = r.delivered
        /\ next.receipt = r.lease
    BY <1>1, <1>3, EntryFields DEF Entries
  <2> HIDE DEF next
  <2>4. revision <= MaxEntered + 1  BY <1>1, <1>5, Times DEF revision
  <2>5. QED  BY <1>2, <1>5, <2>1, <2>2, <2>3, <2>4 DEF revision
<1>6. ASSUME kind # "bind", NEW told \in BOOLEAN, told => kind = "done",
             Settled(r, kind) = [Touched(r) EXCEPT !.lease = Null, !.until = Null,
                                                   !.delivered = told]
      PROVE  LET next == Settled(r, kind)
             IN  /\ next \in Entries /\ next.revision = r.revision + 1
                 /\ next.status = r.status /\ next.revision <= MaxEntered + 2
                 /\ Free(next)
                 /\ next.delivered => kind = "done" /\ Free(next)
                 /\ next.receipt = (IF kind = "bind" THEN r.lease ELSE r.receipt)
  <2> DEFINE next == [r EXCEPT !.revision = revision, !.lease = Null, !.until = Null,
                               !.delivered = told]
  <2>1. Settled(r, kind) = next  BY <1>6 DEF Touched, Entries
  <2> HIDE DEF revision
  <2>2. next \in Entries  BY <1>3, <1>4, <1>6 DEF Entries
  <2>3. /\ next.revision = revision /\ next.status = r.status /\ next.receipt = r.receipt
        /\ next.lease = Null
    BY <1>1, <1>3, <1>4, EntryFields DEF Entries
  <2>4. next.delivered = told
    BY <1>3, <1>4, <1>6, EntryFields DEF Entries
  <2> HIDE DEF next
  <2>5. QED  BY <1>2, <1>6, <2>1, <2>2, <2>3, <2>4 DEF revision, Free
<1>7. CASE kind = "done"
  <2>1. Settled(r, kind) = [Touched(r) EXCEPT !.lease = Null, !.until = Null,
                                              !.delivered = TRUE]
    BY <1>7 DEF Settled
  <2>2. QED  BY <1>6, <1>7, <2>1
<1>8. CASE kind = "again"
  <2>1. Settled(r, kind) = [Touched(r) EXCEPT !.lease = Null, !.until = Null,
                                              !.delivered = FALSE]
    BY <1>8 DEF Settled
  <2>2. QED  BY <1>6, <1>8, <2>1
<1>9. QED  BY <1>5, <1>7, <1>8

-----------------------------------------------------------------------------
(* What requests and grants know, while something else is written. *)

\* The revisions of rows that are there or missing are numbers.
LEMMA RevisionOf ==
  ASSUME NEW r
  PROVE  /\ (r = NoRow \/ RowOK(r)) => r.revision \in Nat
         /\ (r \in Entries \cup {NoRow}) => r.revision \in Nat
BY RowNumbers, EntryFields DEF RowOK, NoRow

\* What a grant left behind it stays true of a row that moves on.
LEMMA CarriesKept ==
  ASSUME NEW g, NEW old, NEW new, old = NoRow \/ RowOK(old), new.revision = old.revision + 1,
         CarriesDesired(g, old)
  PROVE  CarriesDesired(g, new) /\ g.revision # new.revision
<1>1. old.revision \in Nat  BY RevisionOf
<1>2. g.revision \in Nat /\ g.revision \in Revisions /\ g.revision <= old.revision
  BY Tops DEF CarriesDesired
<1>3. g.revision <= new.revision /\ g.revision # new.revision  BY <1>1, <1>2
<1>4. QED  BY <1>2, <1>3 DEF CarriesDesired

\* What a request knows stays true when the outbox row takes its next revision.
LEMMA CallKept ==
  ASSUME NEW k, NEW old, NEW new, NEW entries, NEW durable,
         old = NoRow \/ RowOK(old), RowOK(new), new.revision = old.revision + 1,
         CallOK(k, old, entries, durable)
  PROVE  CallOK(k, new, entries, durable)
<1>1. old.revision \in Nat  BY RevisionOf
<1>2. new \in Rows /\ new # NoRow  BY RowThere DEF RowOK
<1>3. ASSUME k.pc = "refresh"  PROVE RefreshOK(k, new)
  <2>1. RefreshOK(k, old)  BY <1>3 DEF CallOK
  <2>2. QED  BY <1>1, <2>1 DEF RefreshOK
<1>4. ASSUME k.pc = "prepare"  PROVE PrepareOK(k, new)
  <2>1. PrepareOK(k, old)  BY <1>4 DEF CallOK
  <2>2. QED  BY <1>1, <2>1 DEF PrepareOK
<1>5. ASSUME k.pc = "ack"  PROVE AckOK(k, new)
  <2>1. AckOK(k, old)  BY <1>5 DEF CallOK
  <2>2. CarriesDesired(k.g, new) /\ k.g.revision # new.revision
    BY <2>1, CarriesKept DEF AckOK
  <2>3. QED  BY <1>2, <2>1, <2>2 DEF AckOK
<1>6. QED  BY <1>3, <1>4, <1>5 DEF CallOK

\* What it knows of a ledger row stays true when a ledger row takes its next.
LEMMA EntryKept ==
  ASSUME NEW k, NEW row, NEW durable, NEW entries \in [Payloads -> Entries \cup {NoRow}],
         NEW key \in Payloads, NEW entry \in Entries,
         entry.revision = entries[key].revision + 1,
         CallOK(k, row, entries, durable)
  PROVE  CallOK(k, row, [entries EXCEPT ![key] = entry], durable)
<1> DEFINE new == [entries EXCEPT ![key] = entry]
<1>1. ASSUME k.pc = "mutate"  PROVE MutateOK(k, new, durable)
  <2> DEFINE at == k.g.payload.revision
  <2>1. MutateOK(k, entries, durable)  BY <1>1 DEF CallOK
  <2>2. /\ at \in Payloads /\ k.revision \in 1..MaxEntered + 1
        /\ k.revision <= entries[at].revision
    BY <2>1 DEF MutateOK
  <2>3. k.revision \in Nat /\ entries[key].revision \in Nat
    BY <2>2, RevisionOf, Times
  <2>4. CASE at = key
    <3>1. new[at] = entry  BY <2>4
    <3>2. k.revision <= entry.revision /\ k.revision # entry.revision
      BY <2>2, <2>3, <2>4
    <3> HIDE DEF new
    <3>3. QED  BY <2>1, <3>1, <3>2 DEF MutateOK
  <2>5. CASE at # key
    <3>1. new[at] = entries[at]  BY <2>2, <2>5
    <3> HIDE DEF new
    <3>2. QED  BY <2>1, <3>1 DEF MutateOK
  <2>6. QED  BY <2>4, <2>5
<1> HIDE DEF new
<1>2. CallOK(k, row, new, durable)  BY <1>1 DEF CallOK
<1>3. QED  BY <1>2 DEF new

\* A slot that is free knows nothing.
LEMMA IdleOK ==
  ASSUME NEW row, NEW entries, NEW durable
  PROVE  CallOK(Idle, row, entries, durable)
BY DEF CallOK, Idle

\* A step of one request leaves the others alone.
LEMMA CallOnly ==
  ASSUME NEW row, NEW entries, NEW durable, NEW c \in Calls, NEW state,
         calls = [d \in Calls |-> calls[d]], Goto(c, state),
         \A d \in Calls : CallOK(calls[d], row, entries, durable),
         CallOK(state, row, entries, durable)
  PROVE  /\ calls' = [d \in Calls |-> calls'[d]]
         /\ \A d \in Calls : CallOK(calls'[d], row, entries, durable)
<1>1. calls' = [calls EXCEPT ![c] = state]  BY DEF Goto
<1>2. QED  BY <1>1

\* The outbox row takes its next revision.
LEMMA RowMoved ==
  ASSUME IInv, NEW next, RowOK(next), next.revision = outbox.revision + 1,
         outbox # NoRow => next.desired >= outbox.desired,
         outbox # NoRow /\ outbox.create # "ready" =>
           next.create # "ready" /\ next.creation = outbox.creation,
         outbox' = next, UNCHANGED <<now, source, local, ledger, log>>
  PROVE  /\ SourceOK' /\ RowOK(outbox') /\ LedgerOK'
         /\ \A g \in grants : GrantOK(g, outbox', ledger')
         /\ \A d \in Calls : CallOK(calls[d], outbox', ledger', log')
<1>1. outbox = NoRow \/ RowOK(outbox)  BY DEF IInv
<1>2. next \in Rows /\ next # NoRow  BY RowThere DEF RowOK
<1>3. SourceOK'  BY DEF IInv, SourceOK
<1>4. ASSUME NEW p \in Payloads, ledger[p] # NoRow
      PROVE  EntryOK(p, ledger[p], next, log)
  <2>1. EntryOK(p, ledger[p], outbox, log)  BY <1>4 DEF IInv, LedgerOK
  <2>2. outbox # NoRow /\ p <= outbox.desired /\ p \in Nat
    BY <2>1, Tops DEF EntryOK
  <2>3. outbox \in Rows  BY <1>1, <2>2 DEF RowOK
  <2>4. outbox.desired \in Nat /\ next.desired \in Nat  BY <1>2, <2>3, RowNumbers
  <2>5. p <= next.desired  BY <2>2, <2>4
  <2>6. QED  BY <1>2, <2>1, <2>5 DEF EntryOK
<1>5. LedgerOK'  BY <1>4 DEF IInv, LedgerOK
<1>6. ASSUME NEW g \in grants  PROVE GrantOK(g, next, ledger)
  <2>1. GrantOK(g, outbox, ledger)  BY DEF IInv, GrantsOK
  <2>2. g.version = 1 => CarriesDesired(g, next)
    BY <1>1, <2>1, CarriesKept DEF GrantOK
  <2>3. QED  BY <1>2, <2>1, <2>2 DEF GrantOK
<1>7. \A d \in Calls : CallOK(calls[d], next, ledger, log)
  BY <1>1, CallKept DEF IInv, CallsOK
<1>8. QED  BY <1>3, <1>5, <1>6, <1>7

\* A ledger row takes its next revision.
LEMMA EntryMoved ==
  ASSUME IInv, NEW key \in Payloads, NEW entry, EntryOK(key, entry, outbox, log),
         entry.revision = ledger[key].revision + 1,
         ledger[key] # NoRow => entry.status = ledger[key].status,
         ledger' = [ledger EXCEPT ![key] = entry], UNCHANGED <<now, source, local, outbox, log>>
  PROVE  /\ SourceOK' /\ (outbox' = NoRow \/ RowOK(outbox')) /\ LedgerOK'
         /\ \A g \in grants : GrantOK(g, outbox', ledger')
         /\ \A d \in Calls : CallOK(calls[d], outbox', ledger', log')
         /\ ledger'[key] = entry
<1>1. SourceOK' /\ (outbox' = NoRow \/ RowOK(outbox'))  BY DEF IInv, SourceOK
<1>2. ledger \in [Payloads -> Entries \cup {NoRow}] /\ entry \in Entries
  BY DEF IInv, LedgerOK, EntryOK
<1>3. entry # NoRow  BY <1>2, EntryFields
<1>4. ledger'[key] = entry /\ \A p \in Payloads : p # key => ledger'[p] = ledger[p]
  BY <1>2
<1>5. LedgerOK'
  <2>1. ledger' \in [Payloads -> Entries \cup {NoRow}]  BY <1>2
  <2>2. ASSUME NEW p \in Payloads, ledger'[p] # NoRow
        PROVE  EntryOK(p, ledger'[p], outbox, log)
    BY <1>4, <2>2 DEF IInv, LedgerOK
  <2>3. QED  BY <2>1, <2>2 DEF LedgerOK
<1>6. ASSUME NEW g \in grants  PROVE GrantOK(g, outbox, ledger')
  <2>1. GrantOK(g, outbox, ledger)  BY <1>6 DEF IInv, GrantsOK
  <2>2. QED  BY <1>3, <1>4, <2>1 DEF GrantOK
<1>7. \A d \in Calls : CallOK(calls[d], outbox, ledger', log)
  BY <1>2, EntryKept DEF IInv, CallsOK
<1>8. QED  BY <1>1, <1>4, <1>5, <1>6, <1>7

\* A request that writes nothing goes on.
LEMMA StepOnly ==
  ASSUME IInv, NEW c \in Calls, NEW state, Goto(c, state),
         UNCHANGED <<now, source, local, outbox, ledger, log, grants>>,
         CallOK(state, outbox, ledger, log)
  PROVE  IInv'
<1>1. /\ calls' = [d \in Calls |-> calls'[d]]
      /\ \A d \in Calls : CallOK(calls'[d], outbox, ledger, log)
  BY CallOnly DEF IInv, CallsOK
<1>2. CallsOK'  BY <1>1 DEF CallsOK
<1>3. SourceOK' /\ (outbox' = NoRow \/ RowOK(outbox')) /\ LedgerOK' /\ GrantsOK'
  BY DEF IInv, SourceOK, LedgerOK, GrantsOK
<1>4. QED  BY <1>2, <1>3 DEF IInv

\* The projection has a status that can be told.
LEMMA ProjectedStatus ==
  ASSUME SourceOK
  PROVE  StatusOf(source) \in Statuses /\ Projection.status = StatusOf(source)
BY DEF SourceOK, StatusOf, Statuses, Projection

-----------------------------------------------------------------------------
(* The first state, the environment and the durable log. *)

\* Nothing is there at first.
LEMMA InvInit == Init => IInv
<1> SUFFICES ASSUME Init PROVE IInv  OBVIOUS
<1>1. SourceOK
  <2>1. source.revision = 1 /\ source.state = "confirmation_required"
    BY DEF Init, SourceIn
  <2>2. now = 0 /\ local \in BOOLEAN  BY DEF Init
  <2>3. QED  BY <2>1, <2>2, Times DEF SourceOK, States
<1>2. LedgerOK  BY DEF Init, LedgerOK
<1>3. GrantsOK  BY DEF Init, GrantsOK
<1>4. CallsOK  BY IdleOK DEF Init, CallsOK
<1>5. QED  BY <1>1, <1>2, <1>3, <1>4 DEF Init, IInv

\* The clock, the question and the installation of version 2 touch no row.
LEMMA EnvironmentInv == IInv /\ (Tick \/ Change \/ Install) => IInv'
<1> SUFFICES ASSUME IInv, Tick \/ Change \/ Install PROVE IInv'  OBVIOUS
<1>1. /\ outbox' = outbox /\ ledger' = ledger /\ log' = log /\ calls' = calls
      /\ grants' \subseteq grants
  BY DEF Tick, Change, Install
<1>2. SourceOK'
  <2>1. CASE Tick  BY <2>1, Times DEF Tick, IInv, SourceOK
  <2>2. CASE Change
    <3>1. /\ source.revision < IF local THEN LocalChanges ELSE MaxChanges
          /\ \E state \in States : source' = SourceIn(state, source.revision + 1)
          /\ now' = now /\ local' = local
      BY <2>2 DEF Change
    <3>2. source.revision \in 1..MaxChanges  BY DEF IInv, SourceOK
    <3>3. source.revision + 1 \in 1..MaxChanges  BY <3>1, <3>2, Times
    <3>4. QED  BY <3>1, <3>3 DEF SourceIn, IInv, SourceOK
  <2>3. CASE Install  BY <2>3 DEF Install, IInv, SourceOK
  <2>4. QED  BY <2>1, <2>2, <2>3
<1>3. LedgerOK' /\ CallsOK'  BY <1>1 DEF IInv, LedgerOK, CallsOK
<1>4. GrantsOK'  BY <1>1 DEF IInv, GrantsOK
<1>5. QED  BY <1>1, <1>2, <1>3, <1>4 DEF IInv

\* What the log holds it holds for good.
LEMMA AppendInv == \A g \in grants : IInv /\ Append(g) => IInv'
<1> SUFFICES ASSUME NEW g \in grants, IInv, Append(g) PROVE IInv'  OBVIOUS
<1>1. /\ outbox' = outbox /\ ledger' = ledger /\ grants' = grants /\ calls' = calls
      /\ now' = now /\ source' = source /\ local' = local /\ log \subseteq log'
  BY DEF Append
<1>2. SourceOK' /\ GrantsOK' /\ (outbox' = NoRow \/ RowOK(outbox'))
  BY <1>1 DEF IInv, SourceOK, GrantsOK
<1>3. ASSUME NEW p \in Payloads, ledger[p] # NoRow
      PROVE  EntryOK(p, ledger[p], outbox, log')
  BY <1>1, <1>3 DEF IInv, LedgerOK, EntryOK
<1>4. LedgerOK'  BY <1>1, <1>3 DEF IInv, LedgerOK
<1>5. ASSUME NEW c \in Calls  PROVE CallOK(calls[c], outbox, ledger, log')
  <2>1. CallOK(calls[c], outbox, ledger, log)  BY DEF IInv, CallsOK
  <2>2. QED  BY <1>1, <2>1 DEF CallOK, MutateOK
<1>6. CallsOK'  BY <1>1, <1>5 DEF IInv, CallsOK
<1>7. QED  BY <1>2, <1>4, <1>6 DEF IInv

-----------------------------------------------------------------------------
(* Requests and services that write the outbox row. *)

\* A step that only reads frees no slot and writes no row.
LEMMA ReadStep ==
  ASSUME NEW c \in Calls, NEW state, Reads(c, state), UNCHANGED outbox
  PROVE  Goto(c, state) /\ UNCHANGED <<now, source, local, outbox, ledger, log, grants>>
BY DEF Reads, Resumes

\* A list of the rows to refresh says nothing of them.
LEMMA ListedOK ==
  ASSUME NEW row, NEW entries, NEW durable
  PROVE  CallOK([pc |-> "listed"], row, entries, durable)
BY DEF CallOK

\* Reading lists.
LEMMA ReadInv == \A c \in Calls : IInv /\ Read(c) => IInv'
<1> SUFFICES ASSUME NEW c \in Calls, IInv, Read(c) PROVE IInv'  OBVIOUS
<1>1. Reads(c, [pc |-> "listed"]) /\ UNCHANGED outbox  BY DEF Read
<1>2. QED  BY <1>1, ListedOK, ReadStep, StepOnly

\* Getting a row clears a lease that ran out, and keeps the revision it has then.
LEMMA GetInv == \A c \in Calls : IInv /\ Get(c) => IInv'
<1> SUFFICES ASSUME NEW c \in Calls, IInv, Get(c) PROVE IInv'  OBVIOUS
<1> DEFINE revision == Recovered.revision
           state == [pc |-> "refresh", revision |-> revision, p |-> Projection]
<1>1. /\ revision < IF local THEN LocalTouches ELSE MaxTouches
      /\ outbox' = Recovered /\ Goto(c, state)
      /\ UNCHANGED <<now, source, local, ledger, log, grants>>
  BY DEF Get, Resumes
<1>2. outbox = NoRow \/ RowOK(outbox)  BY DEF IInv
<1>3. \/ Recovered = outbox
      \/ outbox # NoRow /\ ~Free(outbox) /\ Recovered = Cleared(outbox)
  BY DEF Recovered, Expired
<1>4. state.pc = "refresh" /\ state.revision = revision /\ state.p.status \in Statuses
  BY ProjectedStatus DEF IInv
<1> HIDE DEF state
<1>5. ASSUME NEW row, row = NoRow \/ RowOK(row), Recovered = row
      PROVE  CallOK(state, row, ledger, log)
  <2>1. revision = row.revision /\ revision \in Nat  BY <1>5, RevisionOf
  <2> HIDE DEF revision
  <2>2. revision < MaxTouches  BY <1>1, <2>1, Times
  <2>3. RefreshOK(state, row)  BY <1>4, <2>1, <2>2 DEF RefreshOK
  <2>4. QED  BY <1>4, <2>3 DEF CallOK
<1> HIDE DEF revision
<1>6. CASE Recovered = outbox
  <2>1. CallOK(state, outbox, ledger, log)  BY <1>2, <1>5, <1>6
  <2>2. UNCHANGED <<now, source, local, outbox, ledger, log, grants>>  BY <1>1, <1>6
  <2>3. QED  BY <1>1, <2>1, <2>2, StepOnly
<1>7. CASE outbox # NoRow /\ ~Free(outbox) /\ Recovered = Cleared(outbox)
  <2> DEFINE next == Cleared(outbox)
  <2>1. Recovered = next  BY <1>7
  <2>2. RowOK(outbox) /\ outbox \in Rows  BY <1>2, <1>7 DEF RowOK
  <2>3. /\ RowOK(next) /\ next.revision = outbox.revision + 1
        /\ next.desired = outbox.desired /\ next.create = outbox.create
        /\ next.creation = outbox.creation
    BY <1>7, <2>2, ClearedRow
  <2> HIDE DEF next
  <2>4. next.desired >= outbox.desired  BY <2>2, <2>3, RowNumbers
  <2>5. /\ SourceOK' /\ RowOK(outbox') /\ LedgerOK'
        /\ \A g \in grants : GrantOK(g, outbox', ledger')
        /\ \A d \in Calls : CallOK(calls[d], outbox', ledger', log')
    BY <1>1, <2>1, <2>3, <2>4, RowMoved
  <2>6. CallOK(state, next, ledger, log)  BY <1>5, <2>1, <2>3
  <2>7. CallOK(state, outbox', ledger', log')  BY <1>1, <2>1, <2>6
  <2>8. CallsOK'  BY <1>1, <2>5, <2>7, CallOnly DEF IInv, CallsOK
  <2>9. GrantsOK'  BY <1>1, <2>5 DEF IInv, GrantsOK
  <2>10. QED  BY <2>5, <2>8, <2>9 DEF IInv
<1>8. QED  BY <1>3, <1>6, <1>7

\* A write of the outbox row that ends its request and grants nothing.
LEMMA WriteRow ==
  ASSUME IInv, NEW c \in Calls, Goto(c, Idle), UNCHANGED <<now, source, local, ledger, log, grants>>,
         \/ outbox' = outbox
         \/ /\ RowOK(outbox') /\ outbox'.revision = outbox.revision + 1
            /\ outbox # NoRow => outbox'.desired >= outbox.desired
            /\ outbox # NoRow /\ outbox.create # "ready" =>
                 outbox'.create # "ready" /\ outbox'.creation = outbox.creation
  PROVE  IInv'
<1>1. CASE outbox' = outbox
  BY <1>1, IdleOK, StepOnly
<1>2. CASE ~(outbox' = outbox)
  <2>1. /\ SourceOK' /\ RowOK(outbox') /\ LedgerOK'
        /\ \A g \in grants : GrantOK(g, outbox', ledger')
        /\ \A d \in Calls : CallOK(calls[d], outbox', ledger', log')
    BY <1>2, RowMoved
  <2>2. CallsOK'  BY <2>1, IdleOK, CallOnly DEF IInv, CallsOK
  <2>3. GrantsOK'  BY <2>1 DEF IInv, GrantsOK
  <2>4. QED  BY <2>1, <2>2, <2>3 DEF IInv
<1>3. QED  BY <1>1, <1>2

\* A refresh that writes finds room for a revision, be the row leased or free.
LEMMA Refreshable ==
  ASSUME IInv, NEW c \in Calls, At(c, "refresh"), outbox # NoRow,
         outbox.revision = calls[c].revision
  PROVE  RowOK(outbox) /\ outbox.revision < Top /\ calls[c].p.status \in Statuses
<1>1. RefreshOK(calls[c], outbox) /\ calls[c].p.status \in Statuses
  BY DEF At, IInv, CallsOK, CallOK
<1>2. outbox.revision < Top  BY <1>1, Times, Tops DEF RefreshOK
<1>3. QED  BY <1>1, <1>2 DEF IInv

\* A refresh writes on the revision it got.
LEMMA RefreshInv == \A c \in Calls : IInv /\ Refresh(c) => IInv'
<1> SUFFICES ASSUME NEW c \in Calls, IInv, Refresh(c) PROVE IInv'  OBVIOUS
<1> DEFINE call == calls[c]
           status == call.p.status
           moved == IF outbox.status = status THEN 0 ELSE 1
           next == [Touched(outbox) EXCEPT !.desired = @ + moved, !.status = status]
<1>1. /\ At(c, "refresh") /\ Goto(c, Idle)
      /\ UNCHANGED <<now, source, local, ledger, log, grants>>
      /\ outbox' = IF ~Fenced(call.p) \/ outbox.revision # call.revision THEN outbox
                   ELSE IF outbox = NoRow THEN NewRow(call.p.status)
                   ELSE IF Expired(outbox) THEN outbox ELSE next
  BY DEF Refresh, Ends
<1>2. CASE outbox' = outbox
  BY <1>1, <1>2, WriteRow
<1>3. CASE outbox = NoRow /\ outbox' = NewRow(call.p.status)
  <2>1. call.p.status \in Statuses  BY <1>1 DEF At, IInv, CallsOK, CallOK
  <2> HIDE DEF call
  <2>2. RowOK(outbox') /\ outbox'.revision = 1  BY <1>3, <2>1, FirstRow
  <2>3. outbox'.revision = outbox.revision + 1  BY <1>3, <2>2 DEF NoRow
  <2>4. QED  BY <1>1, <1>3, <2>2, <2>3, WriteRow
<1>4. CASE outbox # NoRow /\ outbox.revision = call.revision /\ outbox' = next
  <2>1. RowOK(outbox) /\ outbox.revision < Top /\ status \in Statuses
    BY <1>1, <1>4, Refreshable
  <2>2. moved \in {0, 1}  OBVIOUS
  <2> HIDE DEF moved, status
  <2>3. /\ RowOK(next) /\ next.revision = outbox.revision + 1
        /\ next.desired >= outbox.desired
        /\ next.create = outbox.create /\ next.creation = outbox.creation
    BY <2>1, <2>2, RefreshedRow
  <2> HIDE DEF next
  <2>4. QED  BY <1>1, <1>4, <2>3, WriteRow
<1>5. QED  BY <1>1, <1>2, <1>3, <1>4

\* Preparing reads, and has a row that is not up to date refreshed.
LEMMA PrepareInv == \A c \in Calls : IInv /\ Prepare(c) => IInv'
<1> SUFFICES ASSUME NEW c \in Calls, IInv, Prepare(c) PROVE IInv'  OBVIOUS
<1> DEFINE read == [pc |-> "prepare", revision |-> outbox.revision, p |-> Projection]
           state == IF outbox.status = StatusOf(source) THEN read ELSE [pc |-> "listed"]
<1>1. /\ outbox # NoRow /\ outbox.revision < MaxGranted
      /\ Reads(c, state) /\ UNCHANGED outbox
  BY DEF Prepare
<1>2. outbox \in Rows  BY <1>1 DEF IInv, RowOK
<1>3. outbox.revision \in Nat \ {0}  BY <1>2, RowNumbers
<1>4. read.pc = "prepare" /\ read.revision = outbox.revision /\ read.p.status \in Statuses
  BY ProjectedStatus DEF IInv
<1> HIDE DEF read
<1>5. PrepareOK(read, outbox)  BY <1>1, <1>3, <1>4 DEF PrepareOK
<1>6. CallOK(read, outbox, ledger, log)  BY <1>4, <1>5 DEF CallOK
<1>7. CallOK(state, outbox, ledger, log)  BY <1>6, ListedOK
<1> HIDE DEF state
<1>8. QED  BY <1>1, <1>7, ReadStep, StepOnly

\* A grant to create or to reconcile carries what is frozen; the first of them
\* freezes it.
LEMMA GrantInv == \A c \in Calls : IInv /\ Grant(c) => IInv'
<1> SUFFICES ASSUME NEW c \in Calls, IInv, Grant(c) PROVE IInv'  OBVIOUS
<1> DEFINE call == calls[c]
           row == Leased(Inflight(outbox), outbox.revision)
           new == [version |-> 1, action |-> Action(outbox), payload |-> row.inflight,
                   lease |-> row.lease, revision |-> row.revision]
           taken == outbox.revision = call.revision /\ Free(outbox) /\ Fenced(call.p)
           kept == {g \in grants : ~Replaced(g, Action(outbox))}
<1>1. /\ call.pc = "prepare" /\ Goto(c, Idle) /\ UNCHANGED <<now, source, local, ledger, log>>
      /\ IF taken THEN outbox' = row /\ grants' = kept \cup {new}
                  ELSE UNCHANGED <<outbox, grants>>
  BY DEF Grant, Ends, At
<1>2. PrepareOK(call, outbox)  BY <1>1 DEF IInv, CallsOK, CallOK
<1>3. CASE ~taken
  <2>1. outbox' = outbox /\ grants' = grants  BY <1>1, <1>3
  <2>2. QED  BY <1>1, <2>1, WriteRow
<1>4. CASE taken
  <2>1. outbox.revision # 0 /\ outbox.revision < MaxGranted  BY <1>2, <1>4 DEF PrepareOK
  <2>2. RowOK(outbox) /\ Free(outbox) /\ outbox.revision < MaxGranted /\ now \in 0..MaxTime
    BY <1>4, <2>1 DEF IInv, SourceOK, NoRow
  <2>3. /\ RowOK(row) /\ row.revision = outbox.revision + 1
        /\ row.lease = outbox.revision /\ row.create # "ready"
        /\ row.desired = outbox.desired
        /\ outbox.create # "ready" => row.creation = outbox.creation
        /\ outbox.create # "bound" => row.inflight = row.creation
        /\ row.create = "bound" =>
             row.inflight = [revision |-> row.desired, status |-> row.status]
    BY <2>2, GrantedRow
  <2>4. outbox' = row /\ grants' = kept \cup {new} /\ kept \subseteq grants  BY <1>1, <1>4
  <2>5. /\ new.version = 1 /\ new.action = Action(outbox) /\ new.payload = row.inflight
        /\ new.lease = row.lease /\ new.revision = row.revision
    OBVIOUS
  <2> HIDE DEF row, new, taken, call, kept
  <2>6. outbox \in Rows /\ row \in Rows /\ row # NoRow  BY <2>2, <2>3, RowThere DEF RowOK
  <2>7. row.desired >= outbox.desired  BY <2>3, <2>6, RowNumbers
  <2>8. /\ SourceOK' /\ RowOK(outbox') /\ LedgerOK'
        /\ \A g \in grants : GrantOK(g, outbox', ledger')
        /\ \A d \in Calls : CallOK(calls[d], outbox', ledger', log')
    BY <1>1, <2>3, <2>4, <2>7, RowMoved
  <2>9. CallsOK'  BY <1>1, <2>8, IdleOK, CallOnly DEF IInv, CallsOK
  <2>10. GrantOK(new, row, ledger)
    <3>1. new.lease \in Revisions  BY <2>3, <2>5, <2>6, RowFields
    <3>2. new.action \in {"create", "reconcile"} => outbox.create # "bound"
      BY <2>5 DEF Action
    <3>3. row.revision \in Revisions /\ row.revision \in Nat
      BY <2>6, RowFields, RowNumbers
    <3>4. CarriesDesired(new, row)  BY <2>3, <2>5, <3>3 DEF CarriesDesired
    <3>5. QED  BY <2>3, <2>5, <2>6, <3>1, <3>2, <3>4 DEF GrantOK
  <2>11. ASSUME new.action = "create", NEW h \in grants, h.version = 1, h.action = "create"
         PROVE  FALSE
    <3>1. outbox.create = "ready"  BY <2>5, <2>11 DEF Action
    <3>2. outbox.create # "ready"  BY <2>11 DEF IInv, GrantsOK, GrantOK
    <3>3. QED  BY <3>1, <3>2
  <2>12. ASSUME NEW g \in grants', NEW h \in grants', g.version = 1, h.version = 1,
                g.action = "create", h.action = "create"
         PROVE  g = h
    <3>1. CASE g \in grants /\ h \in grants  BY <2>12, <3>1 DEF IInv, GrantsOK
    <3>2. CASE g = new \/ h = new  BY <2>4, <2>11, <2>12, <3>2
    <3>3. QED  BY <2>4, <3>1, <3>2
  <2>13. \A g \in grants' : GrantOK(g, outbox', ledger')
    BY <1>1, <2>4, <2>8, <2>10
  <2>14. GrantsOK'  BY <2>12, <2>13 DEF GrantsOK
  <2>15. QED  BY <2>8, <2>9, <2>14 DEF IInv
<1>5. QED  BY <1>3, <1>4

\* A grant that holds a lease holds that of a row that is there.
LEMMA Holder ==
  ASSUME IInv, NEW g, g.lease \in Revisions, outbox # NoRow, Holds(outbox, g)
  PROVE  RowOK(outbox) /\ ~Free(outbox)
<1>1. outbox.lease = g.lease  BY DEF Holds
<1>2. g.lease # Null  BY Tops DEF Null
<1>3. QED  BY <1>1, <1>2 DEF IInv, Free

\* A service that answers to its grant: the row moves on, no slot is used.
LEMMA Answered ==
  ASSUME IInv, RowOK(outbox'), outbox'.revision = outbox.revision + 1,
         outbox # NoRow => outbox'.desired >= outbox.desired,
         outbox # NoRow /\ outbox.create # "ready" =>
           outbox'.create # "ready" /\ outbox'.creation = outbox.creation,
         UNCHANGED <<now, source, local, ledger, log, grants, calls>>
  PROVE  IInv'
<1>1. /\ SourceOK' /\ RowOK(outbox') /\ LedgerOK'
      /\ \A g \in grants : GrantOK(g, outbox', ledger')
      /\ \A d \in Calls : CallOK(calls[d], outbox', ledger', log')
  BY RowMoved
<1>2. CallsOK' /\ GrantsOK'  BY <1>1 DEF IInv, CallsOK, GrantsOK
<1>3. QED  BY <1>1, <1>2 DEF IInv

\* The issue is bound by the holder of the lease.
LEMMA BindInv == \A g \in grants : IInv /\ Bind(g) => IInv'
<1> SUFFICES ASSUME NEW g \in grants, IInv, Bind(g) PROVE IInv'  OBVIOUS
<1> DEFINE base == Cleared(outbox)
           next == [base EXCEPT !.create = "bound"]
<1>1. /\ g.version = 1 /\ outbox.create = "pending" /\ Holds(outbox, g) /\ outbox' = next
      /\ UNCHANGED <<now, source, local, ledger, log, grants, calls>>
  BY DEF Bind
<1>2. GrantOK(g, outbox, ledger)  BY DEF IInv, GrantsOK
<1>3. outbox # NoRow /\ g.lease \in Revisions  BY <1>1, <1>2 DEF GrantOK
<1>4. RowOK(outbox) /\ ~Free(outbox)  BY <1>1, <1>3, Holder
<1>5. /\ RowOK(base) /\ Free(base) /\ base.revision = outbox.revision + 1
      /\ base.desired = outbox.desired /\ base.create = outbox.create
      /\ base.creation = outbox.creation
  BY <1>4, ClearedRow
<1> HIDE DEF base
<1>6. /\ RowOK(next) /\ next.revision = base.revision /\ next.creation = base.creation
      /\ next.create = "bound" /\ next.desired = base.desired
  BY <1>1, <1>5, BoundRow
<1> HIDE DEF next
<1>7. outbox \in Rows /\ outbox.desired \in Nat  BY <1>4, RowNumbers DEF RowOK
<1>8. outbox'.desired >= outbox.desired  BY <1>1, <1>5, <1>6, <1>7
<1>9. QED  BY <1>1, <1>5, <1>6, <1>8, Answered

\* A creation that failed gives its lease up; what is frozen stays.
LEMMA RetryInv == \A g \in grants : IInv /\ Retry(g) => IInv'
<1> SUFFICES ASSUME NEW g \in grants, IInv, Retry(g) PROVE IInv'  OBVIOUS
<1> DEFINE next == Cleared(outbox)
<1>1. /\ g.version = 1 /\ Holds(outbox, g) /\ outbox' = next
      /\ UNCHANGED <<now, source, local, ledger, log, grants, calls>>
  BY DEF Retry
<1>2. GrantOK(g, outbox, ledger)  BY DEF IInv, GrantsOK
<1>3. outbox # NoRow /\ g.lease \in Revisions  BY <1>1, <1>2 DEF GrantOK
<1>4. RowOK(outbox) /\ ~Free(outbox)  BY <1>1, <1>3, Holder
<1>5. /\ RowOK(next) /\ next.revision = outbox.revision + 1
      /\ next.desired = outbox.desired /\ next.create = outbox.create
      /\ next.creation = outbox.creation
  BY <1>4, ClearedRow
<1> HIDE DEF next
<1>6. outbox \in Rows /\ outbox.desired \in Nat  BY <1>4, RowNumbers DEF RowOK
<1>7. outbox'.desired >= outbox.desired  BY <1>1, <1>5, <1>6
<1>8. QED  BY <1>1, <1>5, <1>7, Answered

\* An acknowledgement is let in while what was in flight is still so.
LEMMA AckInv == \A g \in grants : \A c \in Calls : IInv /\ Ack(c, g) => IInv'
<1> SUFFICES ASSUME NEW g \in grants, NEW c \in Calls, IInv, Ack(c, g) PROVE IInv'
  OBVIOUS
<1> DEFINE state == [pc |-> "ack", g |-> g, p |-> Projection]
<1>1. /\ g.version = 1 /\ outbox.inflight.status = StatusOf(source)
      /\ Reads(c, state) /\ UNCHANGED outbox
  BY DEF Ack
<1>2. GrantOK(g, outbox, ledger)  BY DEF IInv, GrantsOK
<1>3. outbox # NoRow /\ g.lease \in Revisions /\ CarriesDesired(g, outbox)
  BY <1>1, <1>2 DEF GrantOK
<1>4. /\ state.pc = "ack" /\ state.g = g /\ state.p.status = StatusOf(source)
      /\ StatusOf(source) \in Statuses
  BY ProjectedStatus DEF IInv
<1> HIDE DEF state
<1>5. AckOK(state, outbox)  BY <1>1, <1>3, <1>4 DEF AckOK
<1>6. CallOK(state, outbox, ledger, log)  BY <1>4, <1>5 DEF CallOK
<1>7. QED  BY <1>1, <1>6, ReadStep, StepOnly

\* What an acknowledgement that is taken writes.
LEMMA AckedRow ==
  ASSUME IInv, NEW c \in Calls, At(c, "ack"), Holds(outbox, calls[c].g),
         outbox.create = "bound"
  PROVE  LET next == [Cleared(outbox) EXCEPT !.delivered = LateOf(@, outbox.inflight.revision)]
         IN  /\ RowOK(next) /\ next.revision = outbox.revision + 1
             /\ next.desired >= outbox.desired /\ next.create = outbox.create
             /\ next.creation = outbox.creation
             /\ next.delivered = LateOf(outbox.delivered, outbox.inflight.revision)
             /\ outbox.delivered \in Nat /\ outbox.inflight.revision \in Nat
             /\ outbox.inflight = Desired /\ Desired.status = calls[c].p.status
<1> DEFINE base == Cleared(outbox)
           n == outbox.inflight.revision
           next == [base EXCEPT !.delivered = LateOf(@, n)]
<1>1. AckOK(calls[c], outbox)  BY DEF At, IInv, CallsOK, CallOK
<1>2. outbox # NoRow /\ calls[c].g.lease \in Revisions  BY <1>1 DEF AckOK
<1>3. RowOK(outbox) /\ ~Free(outbox)  BY <1>2, Holder
<1>4. outbox.inflight = Desired /\ Desired.status = calls[c].p.status
  <2>1. outbox.revision = calls[c].g.revision  BY DEF Holds
  <2>2. outbox.inflight.status = calls[c].p.status  BY <1>1, <2>1 DEF AckOK
  <2>3. CarriesDesired(calls[c].g, outbox)  BY <1>1 DEF AckOK
  <2>4. outbox.inflight = Desired  BY <2>1, <2>3 DEF CarriesDesired, Desired
  <2>5. QED  BY <2>2, <2>4
<1>5. /\ RowOK(base) /\ Free(base) /\ base.revision = outbox.revision + 1
      /\ base.desired = outbox.desired /\ base.create = outbox.create
      /\ base.creation = outbox.creation /\ base.delivered = outbox.delivered
  BY <1>3, ClearedRow
<1>6. /\ outbox \in Rows /\ n \in Nat /\ outbox.desired \in Nat /\ n <= outbox.desired
      /\ outbox.delivered \in Nat
  BY <1>3, RowNumbers DEF RowOK
<1> HIDE DEF base, n
<1>7. n <= base.desired  BY <1>5, <1>6
<1>8. /\ RowOK(next) /\ next.revision = base.revision /\ next.creation = base.creation
      /\ next.create = base.create /\ next.desired = base.desired
      /\ next.delivered = LateOf(base.delivered, n)
  BY <1>5, <1>6, <1>7, DeliveredRow
<1> HIDE DEF next
<1>9. next.desired >= outbox.desired  BY <1>5, <1>6, <1>8
<1>10. QED  BY <1>4, <1>5, <1>6, <1>8, <1>9 DEF base, n, next

\* An acknowledgement notes what was in flight, if its lease still runs.
LEMMA AckedInv == \A c \in Calls : IInv /\ Acked(c) => IInv'
<1> SUFFICES ASSUME NEW c \in Calls, IInv, Acked(c) PROVE IInv'  OBVIOUS
<1> DEFINE call == calls[c]
           next == [Cleared(outbox) EXCEPT !.delivered = LateOf(@, outbox.inflight.revision)]
<1>1. /\ At(c, "ack") /\ Goto(c, Idle)
      /\ UNCHANGED <<now, source, local, ledger, log, grants>>
      /\ \/ Holds(outbox, call.g) /\ outbox.create = "bound" /\ outbox' = next
         \/ outbox' = outbox
  BY DEF Acked, Ends
<1>2. CASE outbox' = outbox  BY <1>1, <1>2, WriteRow
<1>3. CASE Holds(outbox, call.g) /\ outbox.create = "bound" /\ outbox' = next
  <2>1. /\ RowOK(next) /\ next.revision = outbox.revision + 1
        /\ next.desired >= outbox.desired /\ next.create = outbox.create
        /\ next.creation = outbox.creation
    BY <1>1, <1>3, AckedRow
  <2> HIDE DEF next
  <2>2. QED  BY <1>1, <1>3, <2>1, WriteRow
<1>4. QED  BY <1>1, <1>2, <1>3

-----------------------------------------------------------------------------
(* Requests and services that write the ledger. *)

\* Preparing reads what is desired.
LEMMA LocalPrepareInv == \A c \in Calls : IInv /\ LocalPrepare(c) => IInv'
<1> SUFFICES ASSUME NEW c \in Calls, IInv, LocalPrepare(c) PROVE IInv'  OBVIOUS
<1> DEFINE state == [pc |-> "enter", expected |-> outbox.revision, key |-> outbox.desired,
                     p |-> Projection]
<1>1. outbox # NoRow /\ Reads(c, state) /\ UNCHANGED outbox  BY DEF LocalPrepare
<1>2. outbox \in Rows  BY <1>1 DEF IInv, RowOK
<1>3. outbox.desired \in Payloads /\ outbox.revision \in Nat \ {0}
  BY <1>2, RowFields, RowNumbers
<1>4. /\ state.pc = "enter" /\ state.key = outbox.desired /\ state.expected = outbox.revision
      /\ state.p.status \in Statuses
  BY ProjectedStatus DEF IInv
<1> HIDE DEF state
<1>5. CallOK(state, outbox, ledger, log)  BY <1>3, <1>4 DEF CallOK
<1>6. QED  BY <1>1, <1>5, ReadStep, StepOnly

\* A desired payload is entered once.
LEMMA EnterInv == \A c \in Calls : IInv /\ Enter(c) => IInv'
<1> SUFFICES ASSUME NEW c \in Calls, IInv, Enter(c) PROVE IInv'  OBVIOUS
<1> DEFINE call == calls[c]
           key == call.key
           first == ledger[key] = NoRow /\ StillDesired(call)
           entered == IF first THEN LocalRow(call.p.status) ELSE ledger[key]
           next == [pc |-> "lease", expected |-> call.expected, key |-> key, p |-> call.p,
                    revision |-> entered.revision]
           state == IF entered = NoRow THEN Idle
                    ELSE IF entered.delivered \/ entered.status # call.p.status THEN Idle
                    ELSE next
<1>1. /\ call.pc = "enter" /\ ledger' = [ledger EXCEPT ![key] = entered] /\ Goto(c, state)
      /\ UNCHANGED <<now, source, local, outbox, log, grants>>
  BY DEF Enter, At
<1>2. /\ call.key \in Payloads /\ call.expected \in Nat \ {0} /\ call.p.status \in Statuses
  BY <1>1 DEF IInv, CallsOK, CallOK
<1>3. key \in Payloads /\ key \in Nat  BY <1>2, Tops
<1>4. ledger \in [Payloads -> Entries \cup {NoRow}]  BY DEF IInv, LedgerOK
<1>5. entered # NoRow => entered \in Entries
  BY <1>2, <1>3, <1>4, EnteredEntry
<1>6. entered # NoRow => CallOK(next, outbox, ledger', log)
  <2> SUFFICES ASSUME entered # NoRow PROVE CallOK(next, outbox, ledger', log)
    OBVIOUS
  <2>1. entered.revision \in Revisions  BY <1>5, EntryFields
  <2>2. next.pc = "lease" /\ next.key = call.key /\ next.expected = call.expected
        /\ next.p = call.p /\ next.revision = entered.revision
    OBVIOUS
  <2> HIDE DEF next, entered
  <2>3. QED  BY <1>2, <2>1, <2>2 DEF CallOK
<1> HIDE DEF next
<1>7. CallOK(state, outbox, ledger', log)  BY <1>6, IdleOK
<1>8. CASE first
  <2>1. entered = LocalRow(call.p.status) /\ ledger[key] = NoRow  BY <1>8
  <2>2. outbox.revision = call.expected /\ outbox.desired = key
    BY <1>8 DEF StillDesired
  <2>3. outbox # NoRow  BY <1>2, <2>2 DEF NoRow
  <2>4. /\ entered \in Entries /\ entered.revision = 1 /\ ~entered.delivered
        /\ entered.receipt = Null
    BY <1>2, <2>1, EnteredEntry
  <2> HIDE DEF key, entered, state, first, call
  <2>5. key <= outbox.desired  BY <1>3, <2>2
  <2>6. EntryOK(key, entered, outbox, log)
    BY <2>3, <2>4, <2>5, Times DEF EntryOK
  <2>7. entered.revision = ledger[key].revision + 1  BY <2>1, <2>4 DEF NoRow
  <2>8. /\ SourceOK' /\ (outbox' = NoRow \/ RowOK(outbox')) /\ LedgerOK'
        /\ \A g \in grants : GrantOK(g, outbox', ledger')
        /\ \A d \in Calls : CallOK(calls[d], outbox', ledger', log')
    BY <1>1, <1>3, <2>1, <2>6, <2>7, EntryMoved
  <2>9. CallsOK'  BY <1>1, <1>7, <2>8, CallOnly DEF IInv, CallsOK
  <2>10. GrantsOK'  BY <1>1, <2>8 DEF IInv, GrantsOK
  <2>11. QED  BY <2>8, <2>9, <2>10 DEF IInv
<1>9. CASE ~first
  <2>1. ledger' = ledger  BY <1>1, <1>3, <1>4, <1>9
  <2> HIDE DEF state
  <2>2. QED  BY <1>1, <1>7, <2>1, StepOnly
<1>10. QED  BY <1>8, <1>9

\* An entry is leased; the grant names its payload.
LEMMA LocalGrantInv == \A c \in Calls : IInv /\ LocalGrant(c) => IInv'
<1> SUFFICES ASSUME NEW c \in Calls, IInv, LocalGrant(c) PROVE IInv'  OBVIOUS
<1> DEFINE call == calls[c]
           key == call.key
           old == ledger[key]
           row == Leased(old, old.revision)
           new == [version |-> 2,
                   action |-> IF row.receipt = Null THEN "append" ELSE "reconcile",
                   payload |-> [revision |-> key, status |-> row.status],
                   lease |-> row.lease, revision |-> row.revision]
           taken == /\ old.revision = call.revision /\ old.revision < MaxEntered
                    /\ ~old.delivered /\ (Free(old) \/ ~Running(old)) /\ StillDesired(call)
<1>1. /\ call.pc = "lease" /\ Goto(c, Idle) /\ UNCHANGED <<now, source, local, outbox, log>>
      /\ IF taken THEN /\ ledger' = [ledger EXCEPT ![key] = row]
                       /\ grants' = {g \in grants : g.payload.revision # key} \cup {new}
                  ELSE UNCHANGED <<ledger, grants>>
  BY DEF LocalGrant, Ends, At
<1>2. call.key \in Payloads /\ call.revision \in Revisions  BY <1>1 DEF IInv, CallsOK, CallOK
<1>3. CASE ~taken
  <2>1. ledger' = ledger /\ grants' = grants  BY <1>1, <1>3
  <2>2. QED  BY <1>1, <2>1, IdleOK, StepOnly
<1>4. CASE taken
  <2>1. key \in Payloads  BY <1>2
  <2>2. old # NoRow /\ old \in Entries
    <3>1. old.revision # 0  BY <1>2, <1>4, Tops
    <3>2. old # NoRow  BY <3>1 DEF NoRow
    <3>3. QED  BY <2>1, <3>2 DEF IInv, LedgerOK
  <2>3. EntryOK(key, old, outbox, log)  BY <2>1, <2>2 DEF IInv, LedgerOK
  <2>4. old.revision < MaxEntered /\ ~old.delivered /\ now \in 0..MaxTime
    BY <1>4 DEF IInv, SourceOK
  <2>5. ledger' = [ledger EXCEPT ![key] = row]
        /\ grants' = {g \in grants : g.payload.revision # key} \cup {new}
    BY <1>1, <1>4
  <2>6. /\ new.version = 2 /\ new.payload = [revision |-> key, status |-> row.status]
        /\ new.lease = row.lease /\ new.revision = row.revision
        /\ new.action \in {"append", "reconcile"}
    OBVIOUS
  <2>7. old = ledger[key]  OBVIOUS
  <2> HIDE DEF new, taken, key, call, old
  <2>8. /\ row \in Entries /\ row.revision = old.revision + 1 /\ row.status = old.status
        /\ row.delivered = old.delivered /\ row.receipt = old.receipt
        /\ row.lease = old.revision /\ row.revision <= MaxEntered
    BY <2>2, <2>4, LeasedEntry
  <2> HIDE DEF row
  <2>9. row.revision \in Nat \ {0} /\ old.revision \in Revisions
    BY <2>2, <2>8, EntryFields
  <2>10. EntryOK(key, row, outbox, log)
    BY <2>3, <2>4, <2>8, <2>9, Times DEF EntryOK
  <2>11. /\ SourceOK' /\ (outbox' = NoRow \/ RowOK(outbox')) /\ LedgerOK'
         /\ \A g \in grants : GrantOK(g, outbox', ledger')
         /\ \A d \in Calls : CallOK(calls[d], outbox', ledger', log')
         /\ ledger'[key] = row
    BY <1>1, <2>1, <2>5, <2>7, <2>8, <2>10, EntryMoved
  <2>12. CallsOK'  BY <1>1, <2>11, IdleOK, CallOnly DEF IInv, CallsOK
  <2>13. GrantOK(new, outbox', ledger')
    <3>1. row # NoRow /\ new.lease \in Revisions  BY <2>6, <2>8, <2>9, EntryFields
    <3>2. new.revision \in 1..MaxEntered  BY <2>6, <2>8, <2>9, Times
    <3>3. new.payload.revision = key /\ new.payload.status = row.status  BY <2>6
    <3>4. QED  BY <2>1, <2>6, <2>11, <3>1, <3>2, <3>3 DEF GrantOK
  <2>14. \A g \in grants' : (g \in grants \/ g = new)  BY <2>5
  <2>15. GrantsOK'  BY <2>6, <2>11, <2>13, <2>14 DEF IInv, GrantsOK
  <2>16. QED  BY <2>11, <2>12, <2>15 DEF IInv
<1>5. QED  BY <1>3, <1>4

\* What a grant of version 2 may do is read under its lease.
LEMMA MutateInv ==
  \A g \in grants : \A c \in Calls : \A kind \in {"bind", "done", "again"} :
    IInv /\ Mutate(c, g, kind) => IInv'
<1> SUFFICES ASSUME NEW g \in grants, NEW c \in Calls, NEW kind \in {"bind", "done", "again"},
                    IInv, Mutate(c, g, kind)
             PROVE  IInv'
  OBVIOUS
<1> DEFINE entry == Entry(g)
           state == [pc |-> "mutate", kind |-> kind, g |-> g, revision |-> entry.revision,
                     p |-> Projection]
<1>1. /\ g.version = 2 /\ entry.lease = g.lease /\ ~entry.delivered
      /\ entry.status = StatusOf(source)
      /\ kind = "bind" => g.payload \in log
      /\ kind = "bind" => entry.revision = g.revision \/ entry.revision < MaxEntered
      /\ kind = "done" => entry.receipt = g.lease
      /\ Reads(c, state) /\ UNCHANGED outbox
  BY DEF Mutate
<1>2. GrantOK(g, outbox, ledger)  BY DEF IInv, GrantsOK
<1>3. /\ g.payload = [revision |-> g.payload.revision, status |-> g.payload.status]
      /\ g.payload.revision \in Payloads /\ g.revision \in 1..MaxEntered
      /\ entry # NoRow /\ entry.status = g.payload.status /\ g.lease \in Revisions
  BY <1>1, <1>2 DEF GrantOK, Entry
<1>4. entry = ledger[g.payload.revision]  BY DEF Entry
<1>5. EntryOK(g.payload.revision, entry, outbox, log)
  BY <1>3, <1>4 DEF IInv, LedgerOK
<1>6. entry \in Entries /\ entry.revision \in Nat \ {0}
  BY <1>5, EntryFields DEF EntryOK
<1>7. /\ state.pc = "mutate" /\ state.kind = kind /\ state.g = g
      /\ state.revision = entry.revision
      /\ state.p.status = StatusOf(source) /\ StatusOf(source) \in Statuses
  BY ProjectedStatus DEF IInv
<1> HIDE DEF state, entry
<1>8. ~Free(entry)  BY <1>1, <1>3, Tops DEF Free, Null
<1>9. entry.revision <= MaxEntered + 1  BY <1>5, <1>8 DEF EntryOK
<1>10. entry.revision \in 1..MaxEntered + 1  BY <1>6, <1>9, Times
<1>11. kind = "bind" => entry.revision <= MaxEntered  BY <1>1, <1>3, <1>6, Times
<1>12. MutateOK(state, ledger, log)
  <2>1. state.g.payload = [revision |-> g.payload.revision, status |-> entry.status]
    BY <1>3, <1>7
  <2>2. state.revision <= entry.revision  BY <1>6, <1>7
  <2>3. QED
    BY <1>1, <1>3, <1>4, <1>7, <1>10, <1>11, <2>1, <2>2 DEF MutateOK
<1>13. CallOK(state, outbox, ledger, log)  BY <1>7, <1>12 DEF CallOK
<1>14. QED  BY <1>1, <1>13, ReadStep, StepOnly

\* What a mutation that is taken says of the entry it replaces.
LEMMA SettledBy ==
  ASSUME IInv, NEW c \in Calls, At(c, "mutate"), Settles(calls[c])
  PROVE  LET call == calls[c]
             key == call.g.payload.revision
             old == ledger[key]
             next == Settled(old, call.kind)
         IN  /\ key \in Payloads /\ old \in Entries /\ old # NoRow
             /\ EntryOK(key, next, outbox, log) /\ next.revision = old.revision + 1
             /\ next.status = old.status /\ ~old.delivered
             /\ next.delivered =>
                  /\ [revision |-> key, status |-> old.status] = Desired
                  /\ Desired.status = StatusOf(source) /\ Desired \in log
                  /\ old.receipt = old.lease
<1> DEFINE call == calls[c]
           key == call.g.payload.revision
           old == ledger[key]
           next == Settled(old, call.kind)
<1>1. MutateOK(call, ledger, log)  BY DEF At, IInv, CallsOK, CallOK
<1>2. /\ key \in Payloads /\ call.g.lease \in Revisions
      /\ call.kind \in {"bind", "done", "again"}
      /\ call.kind = "bind" => call.g.payload \in log /\ call.revision <= MaxEntered
      /\ call.revision \in 1..MaxEntered + 1
      /\ call.revision = old.revision =>
           /\ old.lease = call.g.lease /\ ~old.delivered /\ old.status = call.p.status
           /\ call.g.payload = [revision |-> key, status |-> old.status]
           /\ call.kind = "done" => old.receipt = call.g.lease
  BY <1>1 DEF MutateOK
<1>3. /\ old.revision = call.revision /\ Desired = call.g.payload /\ Fenced(call.p)
  BY DEF Settles, Entry
<1>4. old # NoRow  BY <1>2, <1>3, Times DEF NoRow
<1>5. old \in Entries  BY <1>2, <1>4 DEF IInv, LedgerOK
<1>6. EntryOK(key, old, outbox, log)  BY <1>2, <1>4 DEF IInv, LedgerOK
<1>7. call.p.status = StatusOf(source)  BY <1>3 DEF Fenced, Projection
<1>8. call.g.lease # Null  BY <1>2, Tops DEF Null
<1> HIDE DEF call, key, old
<1>9. /\ old.revision \in 1..MaxEntered + 1 /\ ~old.delivered /\ old.lease = call.g.lease
      /\ call.kind = "done" => old.receipt = call.g.lease
      /\ call.kind = "bind" => old.revision <= MaxEntered
      /\ old.status = call.p.status
  BY <1>2, <1>3
<1>10. /\ next \in Entries /\ next.revision = old.revision + 1 /\ next.status = old.status
       /\ next.revision <= MaxEntered + 2
       /\ ~Free(next) => next.revision <= MaxEntered + 1
       /\ next.delivered => call.kind = "done" /\ Free(next)
       /\ next.receipt = (IF call.kind = "bind" THEN old.lease ELSE old.receipt)
  BY <1>2, <1>5, <1>9, SettledEntry
<1> HIDE DEF next
<1>11. call.g.payload = [revision |-> key, status |-> old.status]  BY <1>2, <1>3
<1>12. next.receipt # Null => [revision |-> key, status |-> next.status] \in log
  <2>1. CASE call.kind = "bind"  BY <1>2, <1>10, <1>11, <2>1
  <2>2. CASE call.kind # "bind"  BY <1>6, <1>10, <2>2 DEF EntryOK
  <2>3. QED  BY <2>1, <2>2
<1>13. next.delivered => next.receipt # Null  BY <1>8, <1>9, <1>10
<1>14. EntryOK(key, next, outbox, log)  BY <1>6, <1>10, <1>12, <1>13 DEF EntryOK
<1>15. ASSUME next.delivered
       PROVE  /\ [revision |-> key, status |-> old.status] = Desired
              /\ Desired.status = StatusOf(source) /\ Desired \in log
              /\ old.receipt = old.lease
  <2>1. [revision |-> key, status |-> old.status] = Desired  BY <1>3, <1>11
  <2>2. Desired.status = StatusOf(source)  BY <1>7, <1>9, <2>1
  <2>3. old.receipt = old.lease /\ old.receipt # Null  BY <1>8, <1>9, <1>10, <1>15
  <2>4. Desired \in log  BY <1>6, <2>1, <2>3 DEF EntryOK
  <2>5. QED  BY <2>1, <2>2, <2>3, <2>4
<1>16. QED  BY <1>2, <1>4, <1>5, <1>9, <1>10, <1>14, <1>15 DEF call, key, old, next

\* A mutation is written on the entry it read.
LEMMA LocalMutateInv == \A c \in Calls : IInv /\ LocalMutate(c) => IInv'
<1> SUFFICES ASSUME NEW c \in Calls, IInv, LocalMutate(c) PROVE IInv'  OBVIOUS
<1> DEFINE call == calls[c]
           key == call.g.payload.revision
           next == Settled(ledger[key], call.kind)
<1>1. /\ At(c, "mutate") /\ Goto(c, Idle)
      /\ UNCHANGED <<now, source, local, outbox, log, grants>>
      /\ ledger' = IF Settles(call) THEN [ledger EXCEPT ![key] = Settled(@, call.kind)]
                                    ELSE ledger
  BY DEF LocalMutate, Ends
<1>2. CASE ~Settles(call)
  <2>1. ledger' = ledger  BY <1>1, <1>2
  <2>2. QED  BY <1>1, <2>1, IdleOK, StepOnly
<1>3. CASE Settles(call)
  <2>1. /\ key \in Payloads /\ EntryOK(key, next, outbox, log)
        /\ next.revision = ledger[key].revision + 1
        /\ next.status = ledger[key].status
    BY <1>1, <1>3, SettledBy
  <2>2. ledger' = [ledger EXCEPT ![key] = next]
    BY <1>1, <1>3 DEF IInv, LedgerOK
  <2> HIDE DEF next, key, call
  <2>3. /\ SourceOK' /\ (outbox' = NoRow \/ RowOK(outbox')) /\ LedgerOK'
        /\ \A g \in grants : GrantOK(g, outbox', ledger')
        /\ \A d \in Calls : CallOK(calls[d], outbox', ledger', log')
    BY <1>1, <2>1, <2>2, EntryMoved
  <2>4. CallsOK'  BY <1>1, <2>3, IdleOK, CallOnly DEF IInv, CallsOK
  <2>5. GrantsOK'  BY <1>1, <2>3 DEF IInv, GrantsOK
  <2>6. QED  BY <2>3, <2>4, <2>5 DEF IInv
<1>4. QED  BY <1>2, <1>3

\* A step that changes nothing.
LEMMA StutterInv == IInv /\ UNCHANGED vars => IInv'
BY DEF vars, IInv, SourceOK, LedgerOK, GrantsOK, CallsOK

\* Every step keeps the invariant.
LEMMA InvNext == IInv /\ [Next]_vars => IInv'
<1> SUFFICES ASSUME IInv, [Next]_vars PROVE IInv'  OBVIOUS
<1>1. CASE Tick \/ Change \/ Install
  BY <1>1, EnvironmentInv
<1>2. CASE Deliveries
  BY <1>2, AppendInv, BindInv, RetryInv, AckInv, MutateInv DEF Deliveries
<1>3. CASE \E c \in Calls : Handle(c)
  BY <1>3, ReadInv, GetInv, RefreshInv, PrepareInv, GrantInv, AckedInv, LocalPrepareInv, EnterInv,
     LocalGrantInv, LocalMutateInv DEF Handle
<1>4. CASE UNCHANGED vars
  BY <1>4, StutterInv
<1>5. QED  BY <1>1, <1>2, <1>3, <1>4 DEF Next

-----------------------------------------------------------------------------
(* The theorems. *)

\* The inductive invariant: what each request and each grant knows of a row is true
\* of it unless the row has taken another revision since, a refresh under a live
\* lease included; what is to be created is frozen from its first grant on; once the
\* issue is bound, the row a grant left carries what is desired; and a receipt stands
\* for a payload in the durable log.
THEOREM OutboxInvariant == Spec => []IInv
BY InvInit, InvNext, PTL DEF Spec

\* Every reachable state is well typed; a payload is in flight exactly while its row
\* is leased, and nothing is delivered that was never desired.
THEOREM OutboxTyped == Spec => []TypeOK
<1>1. IInv => TypeOK
  <2> SUFFICES ASSUME IInv PROVE TypeOK  OBVIOUS
  <2>1. now \in 0..MaxTime /\ source.revision \in 1..MaxChanges /\ local \in BOOLEAN
    BY DEF IInv, SourceOK
  <2>2. outbox # NoRow =>
          /\ outbox \in OutboxRow
          /\ Free(outbox) <=> outbox.inflight = NoPayload
          /\ outbox.delivered <= outbox.desired
          /\ outbox.creation.revision <= outbox.desired
    BY RowTypes DEF IInv, RowOK
  <2>3. \A p \in Payloads : ledger[p] # NoRow =>
          /\ ledger[p] \in LedgerRow /\ p <= outbox.desired
          /\ ledger[p].delivered => ledger[p].receipt # Null /\ Free(ledger[p])
    BY RowTypes DEF IInv, LedgerOK, EntryOK
  <2>4. QED  BY <2>1, <2>2, <2>3 DEF TypeOK
<1>2. QED  BY <1>1, OutboxInvariant, PTL

\* However grants expire and replies are lost, the issue is created under one grant
\* only, and until it is bound every grant asks for the same payload
\* (prepare of
\* question-request-notification-store.ts).
THEOREM CreationsAgree == Spec => []CreatedOnce
<1>1. IInv => CreatedOnce
  <2> SUFFICES ASSUME IInv,
                      NEW g \in {k \in grants : k.version = 1 /\
                                                k.action \in {"create", "reconcile"}},
                      NEW h \in {k \in grants : k.version = 1 /\
                                                k.action \in {"create", "reconcile"}}
               PROVE  /\ g.payload = h.payload
                      /\ g.action = "create" /\ h.action = "create" => g = h
    BY DEF CreatedOnce
  <2>1. g.payload = outbox.creation /\ h.payload = outbox.creation
    BY DEF IInv, GrantsOK, GrantOK
  <2>2. g.action = "create" /\ h.action = "create" => g = h
    BY DEF IInv, GrantsOK
  <2>3. QED  BY <2>1, <2>2
<1>2. QED  BY <1>1, OutboxInvariant, PTL

\* Only a mutation that is taken marks an entry as delivered.
LEMMA EntryDelivered ==
  ASSUME IInv, Next, NEW p \in Payloads, ledger'[p] # ledger[p], ledger'[p].delivered
  PROVE  \E c \in Calls :
           /\ At(c, "mutate") /\ Settles(calls[c]) /\ calls[c].g.payload.revision = p
           /\ ledger'[p] = Settled(ledger[p], calls[c].kind)
<1>1. ledger \in [Payloads -> Entries \cup {NoRow}]  BY DEF IInv, LedgerOK
<1>2. CASE Tick \/ Change \/ Install
  BY <1>2 DEF Tick, Change, Install
<1>3. CASE Deliveries
  BY <1>3 DEF Deliveries, Append, Bind, Retry, Ack, Mutate, Reads, Resumes
<1>4. ASSUME NEW c \in Calls, Read(c) \/ Get(c) \/ Refresh(c) \/ Prepare(c) \/ Grant(c) \/ Acked(c)
                              \/ LocalPrepare(c)
      PROVE  FALSE
  BY <1>4 DEF Read, Get, Refresh, Prepare, Grant, Acked, LocalPrepare, Reads, Resumes
<1>5. ASSUME NEW c \in Calls, Enter(c)  PROVE FALSE
  <2> DEFINE call == calls[c]
             key == call.key
             first == ledger[key] = NoRow /\ StillDesired(call)
             entered == IF first THEN LocalRow(call.p.status) ELSE ledger[key]
  <2>1. call.pc = "enter" /\ ledger' = [ledger EXCEPT ![key] = entered]
    BY <1>5 DEF Enter, At
  <2>2. ledger'[p] = entered /\ p = key  BY <1>1, <2>1
  <2>3. entered = LocalRow(call.p.status)  BY <2>2
  <2>4. call.p.status \in Statuses  BY <2>1 DEF IInv, CallsOK, CallOK
  <2>5. ~entered.delivered  BY <2>3, <2>4, EnteredEntry
  <2>6. QED  BY <2>2, <2>5
<1>6. ASSUME NEW c \in Calls, LocalGrant(c)  PROVE FALSE
  <2> DEFINE call == calls[c]
             key == call.key
             old == ledger[key]
             row == Leased(old, old.revision)
  <2>1. /\ call.pc = "lease" /\ key = p /\ ledger'[p] = row
        /\ old.revision = call.revision /\ old.revision < MaxEntered /\ ~old.delivered
    BY <1>1, <1>6 DEF LocalGrant, At
  <2>2. call.revision \in Revisions  BY <2>1 DEF IInv, CallsOK, CallOK
  <2>3. old \in Entries
    <3>1. old.revision # 0  BY <2>1, <2>2, Tops
    <3>2. old # NoRow  BY <3>1 DEF NoRow
    <3>3. QED  BY <1>1, <2>1, <3>2
  <2>4. now \in 0..MaxTime  BY DEF IInv, SourceOK
  <2> HIDE DEF old
  <2>5. row.delivered = old.delivered  BY <2>1, <2>3, <2>4, LeasedEntry
  <2>6. QED  BY <2>1, <2>5
<1>7. ASSUME NEW c \in Calls, LocalMutate(c)
      PROVE  /\ At(c, "mutate") /\ Settles(calls[c]) /\ calls[c].g.payload.revision = p
             /\ ledger'[p] = Settled(ledger[p], calls[c].kind)
  BY <1>1, <1>7 DEF LocalMutate
<1>8. QED  BY <1>2, <1>3, <1>4, <1>5, <1>6, <1>7 DEF Next, Handle

\* Only an acknowledgement that is taken changes what was delivered of the row.
LEMMA RowDelivered ==
  ASSUME IInv, Next, outbox # NoRow, outbox'.delivered # outbox.delivered
  PROVE  \E c \in Calls :
           /\ At(c, "ack") /\ Holds(outbox, calls[c].g) /\ Fenced(calls[c].p)
           /\ outbox.create = "bound"
           /\ outbox' = [Cleared(outbox) EXCEPT
                           !.delivered = LateOf(@, outbox.inflight.revision)]
<1>1. RowOK(outbox)  BY DEF IInv
<1>2. CASE Tick \/ Change \/ Install
  BY <1>2 DEF Tick, Change, Install
<1>3. ASSUME NEW g \in grants, Append(g)  PROVE FALSE
  BY <1>3 DEF Append
<1>4. ASSUME NEW g \in grants, Bind(g) \/ Retry(g)  PROVE FALSE
  <2>1. /\ g.version = 1 /\ outbox.create = "pending" /\ Holds(outbox, g)
        /\ outbox' = Cleared(outbox) \/ outbox' = [Cleared(outbox) EXCEPT !.create = "bound"]
    BY <1>4 DEF Bind, Retry
  <2>2. g.lease \in Revisions  BY DEF IInv, GrantsOK, GrantOK
  <2>3. ~Free(outbox)  BY <2>1, <2>2, Holder
  <2> DEFINE base == Cleared(outbox)
  <2>4. /\ RowOK(base) /\ Free(base) /\ base.delivered = outbox.delivered
        /\ base.create = outbox.create
    BY <1>1, <2>3, ClearedRow
  <2>5. outbox' = base \/ outbox' = [base EXCEPT !.create = "bound"]  BY <2>1
  <2> HIDE DEF base
  <2>6. [base EXCEPT !.create = "bound"].delivered = base.delivered
    BY <2>1, <2>4, BoundRow
  <2>7. QED  BY <2>4, <2>5, <2>6
<1>5. ASSUME NEW g \in grants, NEW c \in Calls, Ack(c, g)  PROVE FALSE
  BY <1>5 DEF Ack
<1>6. ASSUME NEW g \in grants, NEW c \in Calls, NEW kind, Mutate(c, g, kind)  PROVE FALSE
  BY <1>6 DEF Mutate
<1>7. ASSUME NEW c \in Calls, Get(c)  PROVE FALSE
  <2>1. outbox' = outbox \/ (~Free(outbox) /\ outbox' = Cleared(outbox))
    BY <1>7 DEF Get, Recovered, Expired
  <2>2. QED  BY <1>1, <2>1, ClearedRow
<1>8. ASSUME NEW c \in Calls, Refresh(c)  PROVE FALSE
  <2> DEFINE status == calls[c].p.status
             moved == IF outbox.status = status THEN 0 ELSE 1
             next == [Touched(outbox) EXCEPT !.desired = @ + moved, !.status = status]
  <2>1. At(c, "refresh") /\ outbox.revision = calls[c].revision /\ outbox' = next
    BY <1>8 DEF Refresh
  <2>2. RowOK(outbox) /\ outbox.revision < Top /\ status \in Statuses
    BY <2>1, Refreshable
  <2>3. moved \in {0, 1}  OBVIOUS
  <2> HIDE DEF moved, status
  <2>4. next.delivered = outbox.delivered  BY <2>2, <2>3, RefreshedRow
  <2> HIDE DEF next
  <2>5. QED  BY <2>1, <2>4
<1>9. ASSUME NEW c \in Calls, Grant(c)  PROVE FALSE
  <2>1. /\ calls[c].pc = "prepare" /\ Free(outbox)
        /\ outbox.revision = calls[c].revision
        /\ outbox' = Leased(Inflight(outbox), outbox.revision)
    BY <1>9 DEF Grant, At
  <2>2. PrepareOK(calls[c], outbox)  BY <2>1 DEF IInv, CallsOK, CallOK
  <2>3. outbox.revision < MaxGranted /\ now \in 0..MaxTime
    BY <2>1, <2>2 DEF PrepareOK, IInv, SourceOK
  <2>4. outbox'.delivered = outbox.delivered  BY <1>1, <2>1, <2>3, GrantedRow
  <2>5. QED  BY <2>4
<1>10. ASSUME NEW c \in Calls,
              \/ Read(c) \/ Prepare(c) \/ LocalPrepare(c)
              \/ Enter(c) \/ LocalGrant(c) \/ LocalMutate(c)
       PROVE  FALSE
  BY <1>10 DEF Read, Prepare, LocalPrepare, Enter, LocalGrant, LocalMutate
<1>11. ASSUME NEW c \in Calls, Acked(c)
       PROVE  /\ At(c, "ack") /\ Holds(outbox, calls[c].g) /\ Fenced(calls[c].p)
              /\ outbox.create = "bound"
              /\ outbox' = [Cleared(outbox) EXCEPT
                              !.delivered = LateOf(@, outbox.inflight.revision)]
  BY <1>11 DEF Acked
<1>12. QED
  BY <1>2, <1>3, <1>4, <1>5, <1>6, <1>7, <1>8, <1>9, <1>10, <1>11
     DEF Next, Deliveries, Handle

\* A payload is marked delivered only while it is the one desired and the question
\* still projects to it, also when a refresh has moved what is desired under the
\* lease of the delivery; an entry of the ledger then has a receipt for its durable
\* copy, and what was delivered of the issue only moves forward (refresh, ack and
\* localMutate of question-request-notification-store.ts).
THEOREM DeliveriesCurrent == Spec => DeliveredIsCurrent
<1> DEFINE Told2 ==
      \A p \in Payloads : ledger'[p] # ledger[p] /\ ledger'[p].delivered =>
          /\ [revision |-> p, status |-> ledger[p].status] = Desired
          /\ Desired.status = StatusOf(source)
          /\ Desired \in log /\ ledger[p].receipt = ledger[p].lease
    Told1 ==
      outbox # NoRow /\ outbox'.delivered # outbox.delivered =>
          /\ outbox.inflight = Desired /\ Desired.status = StatusOf(source)
          /\ outbox'.delivered > outbox.delivered
<1>1. IInv /\ [Next]_vars => Told2
  <2> SUFFICES ASSUME IInv, [Next]_vars, NEW p \in Payloads, ledger'[p] # ledger[p],
                      ledger'[p].delivered
               PROVE  /\ [revision |-> p, status |-> ledger[p].status] = Desired
                      /\ Desired.status = StatusOf(source)
                      /\ Desired \in log /\ ledger[p].receipt = ledger[p].lease
    OBVIOUS
  <2>1. Next  BY DEF vars
  <2>2. PICK c \in Calls :
          /\ At(c, "mutate") /\ Settles(calls[c]) /\ calls[c].g.payload.revision = p
          /\ ledger'[p] = Settled(ledger[p], calls[c].kind)
    BY <2>1, EntryDelivered
  <2>3. QED  BY <2>2, SettledBy
<1>2. IInv /\ [Next]_vars => Told1
  <2> SUFFICES ASSUME IInv, [Next]_vars, outbox # NoRow,
                      outbox'.delivered # outbox.delivered
               PROVE  /\ outbox.inflight = Desired /\ Desired.status = StatusOf(source)
                      /\ outbox'.delivered > outbox.delivered
    OBVIOUS
  <2>1. Next  BY DEF vars
  <2>2. PICK c \in Calls :
          /\ At(c, "ack") /\ Holds(outbox, calls[c].g) /\ Fenced(calls[c].p)
          /\ outbox.create = "bound"
          /\ outbox' = [Cleared(outbox) EXCEPT
                          !.delivered = LateOf(@, outbox.inflight.revision)]
    BY <2>1, RowDelivered
  <2>3. /\ outbox'.delivered = LateOf(outbox.delivered, outbox.inflight.revision)
        /\ outbox.delivered \in Nat /\ outbox.inflight.revision \in Nat
        /\ outbox.inflight = Desired /\ Desired.status = calls[c].p.status
    BY <2>2, AckedRow
  <2>4. calls[c].p.status = StatusOf(source)  BY <2>2 DEF Fenced, Projection
  <2>5. outbox'.delivered > outbox.delivered  BY <2>3 DEF LateOf
  <2>6. QED  BY <2>3, <2>4, <2>5
<1>3. QED  BY <1>1, <1>2, OutboxInvariant, PTL DEF Spec, DeliveredIsCurrent
=============================================================================
