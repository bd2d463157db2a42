------------------------------ MODULE AnswerService ------------------------------
(***************************************************************************)
(* The public pages of the Worker at work (index.ts over core/db.ts).  A   *)
(* page that computes pays the day's budget, names a snapshot, reads D1 in *)
(* several statements with awaits between them, and asks again for the     *)
(* snapshot before it answers.  A seed import may replace every table      *)
(* between two of its reads.  A query may also be answered from the cache. *)
(*                                                                         *)
(* A request in flight holds the stages it has left and, for each of its   *)
(* reads, the snapshot whose tables that read saw.  Snapshots are numbered *)
(* in the order they are imported: upstream bytes that return to an        *)
(* earlier state are left out.  Facts[n] is what D1 holds under snapshot   *)
(* n; what pages make of it is Pages.  The slots of the cache do not know  *)
(* of each other, so there is one, to which every key hashes.              *)
(***************************************************************************)
EXTENDS Pages, TLC

CONSTANTS
  Calls,         \* slots for requests in flight
  Requests,      \* what may be asked, a sequence of [page, ask, account]
  Facts,         \* the tables of each snapshot
  ModelOutputs,  \* what Workers AI may send, a sequence
  FastLimit,     \* the KV counter refuses from here on (800)
  HardLimit,     \* the D1 counter refuses beyond it (1000)
  HistoryLimit,  \* questions kept for an account (50)
  MaxDay,        \* bound of the days in a model
  Sessions       \* bound of the requests in a model: the sequences of them that may arrive

ASSUME AnswerBounds ==
  /\ {FastLimit, HardLimit, HistoryLimit} \subseteq Nat \ {0} /\ MaxDay \in Nat
  /\ \A session \in Sessions : ToSet(session) \subseteq DOMAIN Requests
  /\ \A i \in DOMAIN Requests :
       Requests[i].page \in {"ask", "chat"} => Requests[i].ask.signs \subseteq Signs
  /\ AiMode \in AiModes

\* The routes of the site that are modelled, one of which each request is for.
Routes == {"ask", "chat", "query", "splits", "opponents", "range", "trends", "compare", "season",
           "player", "cl", "health", "home"}
ASSUME RoutesKnown == \A i \in DOMAIN Requests : Requests[i].page \in Routes

\* A seed ends with the run that names its own snapshot, and every row of players' figures
\* is somebody's (player_id is NOT NULL).
ASSUME SeedsSigned ==
  \A n \in 1..Len(Facts) :
    /\ Facts[n].run = Nothing \/ Facts[n].run.snapshot = n
    /\ \A s \in Facts[n].stats : s.person # Nothing

\* What stands for an exception or for a season without figures is no history and no entry.
ASSUME NamesApart ==
  \A n \in 1..Len(Facts) :
    LET entries == [counts : {r.counts : r \in Facts[n].seasons},
                    stage : {Nothing} \cup {t.stage : t \in Facts[n].stages}]
    IN  Gap \notin entries /\ Invalid \notin [EuropeanSeasons(Artifact) -> entries \cup {Gap}]

VARIABLES
  day,       \* the UTC day
  imported,  \* the last snapshot imported, 0 before the first
  kv,        \* counts of each day that KV may return, which is eventually consistent
  budget,    \* the counter of each day in D1
  cache,     \* the slot of query_result_cache_slots
  history,   \* account_question_history of the account, newest last
  playerNames,  \* names of players kept by the isolate, or Nothing
  calls,     \* requests in flight
  asked,     \* the requests that have arrived
  tries,     \* requests of each day that came to the breaker
  admitted   \* requests of each day that the breaker let through

vars == <<day, imported, kv, budget, cache, history, playerNames, calls, asked, tries, admitted>>
world == <<day, imported, asked>>
stored == <<cache, history, playerNames>>
counted == <<kv, budget, tries, admitted>>

Days == 0..MaxDay
NoTables ==
  [players |-> {}, stats |-> {}, seasons |-> {}, splits |-> {}, opponents |-> {}, stages |-> {},
   run |-> Nothing]
Snapshots == 0..Len(Facts)
Tables == [n \in Snapshots |-> IF n = 0 THEN NoTables ELSE Facts[n]]

\* The snapshot's own name, which is no name before the first import.
Name(n) == IF n = 0 THEN Nothing ELSE n
Publication(n) == CurrentPublication(Tables[n].run)

NoEntry == [key |-> <<>>, snapshot |-> Nothing, rows |-> Nothing]
Idle == [outcome |-> "idle"]

Init ==
  /\ day = 0 /\ imported = 0 /\ asked = <<>>
  /\ kv = [d \in Days |-> {0}] /\ budget = [d \in Days |-> 0]
  /\ cache = NoEntry /\ history = <<>> /\ playerNames = Nothing
  /\ calls = [c \in Calls |-> Idle]
  /\ tries = [d \in Days |-> 0] /\ admitted = [d \in Days |-> 0]

----------------------------------------------------------------------------
(***************************************************************************)
(* A request in flight.                                                    *)
(***************************************************************************)

RequestOf(call) == Requests[call.req]

\* The read that gives a page the snapshot it names.
NamedBy(page) ==
  CASE page \in {"splits", "opponents"} -> "publication" [] page = "cl" -> "batch" [] OTHER -> "name"
NamedSnapshot(call) == call.at[NamedBy(RequestOf(call).page)]

\* These statements select the rows of the snapshot the page named.
OwnSnapshotOnly == {"splits", "lineage", "totals", "sums", "records", "labels", "facts", "choices", "stages"}

Saw(call) ==
  [a \in TableReads |->
     IF a \notin DOMAIN call.at THEN NoTables
     ELSE IF a \in OwnSnapshotOnly /\ call.at[a] # NamedSnapshot(call) THEN NoTables
     ELSE Tables[call.at[a]]]

Awaits(c, a) == calls[c].outcome = "pending" /\ calls[c].stages # <<>> /\ a \in Head(calls[c].stages)

\* The call once a is done, which leads to more in its stage.
Done(call, a, more) ==
  LET rest == (Head(call.stages) \ {a}) \cup more
  IN  [call EXCEPT !.stages = IF rest = {} THEN Tail(@) ELSE <<rest>> \o Tail(@)]

Noted(call, a, n) == [call EXCEPT !.at = [b \in {a} \cup DOMAIN @ |-> IF b = a THEN n ELSE @[b]]]
Ends(call, outcome) == [call EXCEPT !.outcome = outcome, !.stages = <<>>]

\* A page whose awaits are over answers.
Becomes(c, call) ==
  calls' = [calls EXCEPT ![c] =
              IF call.stages = <<>> /\ call.outcome = "pending" THEN Ends(call, "answered") ELSE call]

\* The snapshot a page shows, once it has asked for it.
Shown(call) ==
  IF NamedBy(RequestOf(call).page) \in DOMAIN call.at THEN Name(NamedSnapshot(call)) ELSE Nothing

\* The call under a plan for the intent it holds.
Planned(call, plan) ==
  IF plan.outcome = "pending" THEN [call EXCEPT !.stages = plan.stages]
  ELSE IF plan.outcome = "no_rows" THEN [call EXCEPT !.stages = plan.stages, !.answer = NoRows]
  ELSE Ends(call, plan.outcome)

----------------------------------------------------------------------------
(***************************************************************************)
(* Arrival, and how a question becomes an intent.                          *)
(***************************************************************************)

Arrived(i, entry) ==
  [req |-> i, outcome |-> entry.outcome, stages |-> entry.stages, answer |-> Nothing,
   intent |-> IF Requests[i].page = "query" THEN WithDefaults(Requests[i].ask) ELSE Nothing,
   known |-> {}, at |-> <<>>, day |-> day, kv |-> 0]

Accept(c, i) ==
  /\ calls[c] = Idle /\ asked' = Append(asked, i)
  /\ \E session \in Sessions : IsPrefix(asked', session)
  /\ calls' = [calls EXCEPT ![c] = Arrived(i, Enter(Requests[i]))]
  /\ UNCHANGED <<day, imported>> /\ UNCHANGED <<counted, stored>>

AllPlayerNames(tables) == UNION {p.exact : p \in tables.players}

Gated(call, known) ==
  IF GateQuestion(RequestOf(call).ask, known, FALSE) = "allowed"
  THEN [Done(call, "names", {}) EXCEPT !.known = known] ELSE Ends(call, "refused")

\* The list of names is read once in the life of an isolate.  When that read fails, the
\* gate knows no player.
ReadNames(c) ==
  /\ Awaits(c, "names")
  /\ \/ playerNames # Nothing /\ Becomes(c, Gated(calls[c], playerNames)) /\ UNCHANGED playerNames
     \/ /\ playerNames = Nothing /\ playerNames' = AllPlayerNames(Tables[imported])
        /\ Becomes(c, Gated(calls[c], playerNames'))
     \/ playerNames = Nothing /\ Becomes(c, Gated(calls[c], {})) /\ UNCHANGED playerNames
  /\ UNCHANGED <<cache, history>> /\ UNCHANGED <<world, counted>>

\* /api/chat says what it would ask; /ask asks it, unless it is unsure of it.
Proposed(call, proposal) ==
  IF RequestOf(call).page = "chat"
  THEN [Ends(call, "answered") EXCEPT !.answer =
          [proposal |-> proposal, feasibility |-> CheckFeasibility(Artifact, proposal.intent, FALSE)]]
  ELSE IF ParseIntent(proposal.intent) # "ok" \/ ~ValidateQuerySemantics(proposal.intent)
  THEN Ends(call, "refused")
  ELSE IF proposal.confidence = "low" THEN Ends(call, "clarification")
  ELSE [call EXCEPT !.intent = proposal.intent, !.stages = <<{"name"}>>]

ProposeIntent(c, output) ==
  LET call == calls[c]
  IN  /\ Awaits(c, "model")
      /\ Becomes(c, Proposed(call, Propose(RequestOf(call).ask, call.known, Artifact, AiMode, output)))
      /\ UNCHANGED <<world, stored, counted>>

----------------------------------------------------------------------------
(***************************************************************************)
(* The breaker (enforceBudget).                                            *)
(***************************************************************************)

\* KV only saves a write: it may be stale, two requests may read one count, and a
\* failure goes on to D1.  The day is sampled here.
FastCheck(c) ==
  LET call == [calls[c] EXCEPT !.day = day]
  IN  /\ Awaits(c, "kv") /\ tries' = [tries EXCEPT ![day] = @ + 1]
      /\ \/ \E count \in kv[day] :
              Becomes(c, IF count >= FastLimit THEN Ends(call, "over_limit")
                         ELSE [Done(call, "kv", {}) EXCEPT !.kv = count])
         \/ Becomes(c, Done(Done(call, "kv", {}), "kv_put", {}))
      /\ UNCHANGED <<world, stored, kv, budget, admitted>>

FastCount(c) ==
  /\ Awaits(c, "kv_put") /\ Becomes(c, Done(calls[c], "kv_put", {}))
  /\ \/ kv' = [kv EXCEPT ![calls[c].day] = @ \cup {calls[c].kv + 1}]
     \/ UNCHANGED kv
  /\ UNCHANGED <<world, stored, budget, tries, admitted>>

\* Mutant of Charge: compares the count it found, not the count it made.
ChargeLate(c) ==
  LET d == calls[c].day
  IN  /\ Awaits(c, "charge") /\ budget' = [budget EXCEPT ![d] = @ + 1]
      /\ IF budget[d] <= HardLimit
         THEN admitted' = [admitted EXCEPT ![d] = @ + 1] /\ Becomes(c, Done(calls[c], "charge", {}))
         ELSE UNCHANGED admitted /\ Becomes(c, Ends(calls[c], "over_limit"))
      /\ UNCHANGED <<world, stored, kv, tries>>

\* One statement counts the request and returns the count.
Charge(c) ==
  LET d == calls[c].day
  IN  /\ Awaits(c, "charge") /\ budget' = [budget EXCEPT ![d] = @ + 1]
      /\ IF budget'[d] <= HardLimit
         THEN admitted' = [admitted EXCEPT ![d] = @ + 1] /\ Becomes(c, Done(calls[c], "charge", {}))
         ELSE UNCHANGED admitted /\ Becomes(c, Ends(calls[c], "over_limit"))
      /\ UNCHANGED <<world, stored, kv, tries>>

\* D1 fails before or after it counted: nobody computes on a count that is not known.
ChargeFails(c) ==
  LET d == calls[c].day
  IN  /\ Awaits(c, "charge") /\ Becomes(c, Ends(calls[c], "unavailable"))
      /\ budget' = budget \/ budget' = [budget EXCEPT ![d] = @ + 1]
      /\ UNCHANGED <<world, stored, kv, tries, admitted>>

----------------------------------------------------------------------------
(***************************************************************************)
(* Naming a snapshot, and the reads.                                       *)
(***************************************************************************)

\* A page over a range of seasons needs a snapshot; a query learns whether its intent can
\* be answered; the others only print the name.
NameSnapshot(c) ==
  LET call == Noted(calls[c], "name", imported)
      page == RequestOf(call).page
  IN  /\ Awaits(c, "name")
      /\ Becomes(c, IF page \in {"ask", "query"} THEN Planned(call, PlanQuery(call.intent, RequestOf(call).account))
                    ELSE IF page \in {"range", "trends"} /\ (imported = 0 \/ EligibleSeasons = {})
                    THEN Ends(call, "unavailable") ELSE Done(call, "name", {}))
      /\ UNCHANGED <<world, stored, counted>>

ReadPublication(c) ==
  LET call == Noted(calls[c], "publication", imported)
  IN  /\ Awaits(c, "publication")
      /\ Becomes(c, IF RequestOf(call).page \in {"splits", "opponents"} /\ Publication(imported) = Nothing
                    THEN Ends(call, "unavailable") ELSE Done(call, "publication", {}))
      /\ UNCHANGED <<world, stored, counted>>

\* The publication must still be the one that was named.
Check(c) ==
  /\ Awaits(c, "check")
  /\ Becomes(c, IF imported = NamedSnapshot(calls[c]) THEN Done(calls[c], "check", {})
                ELSE Ends(calls[c], "unavailable"))
  /\ UNCHANGED <<world, stored, counted>>

\* A selection of people is refused when one is unknown, or has no name to show.
Selectable(r, a, tables) ==
  CASE a = "people" /\ r.page = "range"     -> RangeSelectable(r.ask, tables)
    [] a = "people" /\ r.page = "trends"    -> r.ask.people \subseteq KnownPeople(tables)
    [] a = "web_names" /\ r.page = "trends" -> r.ask.people = DOMAIN Labels(tables, r.ask.people)
    [] OTHER -> TRUE

ReadPeople(c, a) ==
  LET call == Noted(calls[c], a, imported)
  IN  /\ Awaits(c, a)
      /\ Becomes(c, IF Selectable(RequestOf(call), a, Saw(call)[a]) THEN Done(call, a, {})
                    ELSE Ends(call, "refused"))
      /\ UNCHANGED <<world, stored, counted>>

\* Any other table.  The totals of the European history come with their snapshot.
ReadTable(c, a) ==
  LET call == Noted(calls[c], a, imported)
  IN  /\ Awaits(c, a) /\ Becomes(c, Done(call, a, Follows(RequestOf(call), call.intent, Saw(call), a)))
      /\ UNCHANGED <<world, stored, counted>>

\* A read that D1 fails: most pages give up, three of them do without it.
ReadFails(c, a) ==
  LET page == RequestOf(calls[c]).page
      without == page \in {"home", "health"} \/ (page = "cl" /\ a = "stages")
  IN  /\ Awaits(c, a)
      /\ Becomes(c, IF without THEN Noted(Done(calls[c], a, {}), a, 0) ELSE Ends(calls[c], "unavailable"))
      /\ UNCHANGED <<world, stored, counted>>

\* What the page makes of its reads, which it may throw over.
Replied(call, answer) ==
  IF answer = Invalid THEN Ends(call, "unavailable") ELSE [Done(call, "reply", {}) EXCEPT !.answer = answer]

Reply(c) ==
  LET call == calls[c]
  IN  /\ Awaits(c, "reply")
      /\ Becomes(c, Replied(call, AnswerTo(RequestOf(call), call.intent, Shown(call), Saw(call))))
      /\ UNCHANGED <<world, stored, counted>>

----------------------------------------------------------------------------
(***************************************************************************)
(* The cache (executeWithCache), and the answer.                           *)
(***************************************************************************)

Key(call) == ArtifactKey(call.intent, NamedSnapshot(call), "code")

\* The slot answers for one key and one snapshot.  Before the first import nothing is stored,
\* and nothing is found.
LookUp(c) ==
  LET call == calls[c]
      account == RequestOf(call).account
  IN  /\ Awaits(c, "lookup")
      /\ \/ /\ cache.key = Key(call) /\ cache.snapshot = NamedSnapshot(call)
            /\ Becomes(c, [call EXCEPT !.answer = cache.rows, !.stages = <<{"recheck"}>> \o Saving(account)])
         \/ Becomes(c, Planned(call, PlanOnMiss(call.intent, account)))
      /\ UNCHANGED <<world, stored, counted>>

\* Mutant of Recheck: does not look at the snapshot it asked for.
RecheckBlind(c) ==
  /\ Awaits(c, "recheck") /\ Becomes(c, Done(calls[c], "recheck", {}))
  /\ UNCHANGED <<world, stored, counted>>

\* What was read is answered only if the snapshot is still the one the page names.
Recheck(c) ==
  /\ Awaits(c, "recheck")
  /\ Becomes(c, IF imported = NamedSnapshot(calls[c]) THEN Done(calls[c], "recheck", {})
                ELSE Ends(calls[c], "unavailable"))
  /\ UNCHANGED <<world, stored, counted>>

\* The slot is overwritten if the snapshot is still current; a failure costs nothing.
Store(c) ==
  LET call == calls[c]
  IN  /\ Awaits(c, "store") /\ Becomes(c, Done(call, "store", {}))
      /\ \/ /\ imported = NamedSnapshot(call) /\ imported # 0
            /\ cache' = [key |-> Key(call), snapshot |-> NamedSnapshot(call), rows |-> call.answer]
         \/ UNCHANGED cache
      /\ UNCHANGED <<history, playerNames>> /\ UNCHANGED <<world, counted>>

\* What can be replayed: the intent of a question, the selection of a comparison.
Replay(call) == IF RequestOf(call).page = "ask" THEN call.intent ELSE call.req

\* Mutant of Save: the batch does not trim.
SaveAll(c) ==
  /\ Awaits(c, "save") /\ Becomes(c, Done(calls[c], "save", {}))
  /\ history' = Append(history, Replay(calls[c])) \/ UNCHANGED history
  /\ UNCHANGED <<cache, playerNames>> /\ UNCHANGED <<world, counted>>

\* One batch inserts and trims; a failure costs nothing either.
Save(c) ==
  LET kept == Append(history, Replay(calls[c]))
  IN  /\ Awaits(c, "save") /\ Becomes(c, Done(calls[c], "save", {}))
      /\ \/ history' = SubSeq(kept, Max({1, Len(kept) - HistoryLimit + 1}), Len(kept))
         \/ UNCHANGED history
      /\ UNCHANGED <<cache, playerNames>> /\ UNCHANGED <<world, counted>>

\* The visitor has the answer, or has gone.
Respond(c) ==
  /\ calls[c].outcome \notin {"idle", "pending"} /\ calls' = [calls EXCEPT ![c] = Idle]
  /\ UNCHANGED <<world, stored, counted>>

----------------------------------------------------------------------------
(***************************************************************************)
(* The surroundings.                                                       *)
(***************************************************************************)

ClearHistory ==
  /\ history # <<>> /\ history' = <<>>
  /\ UNCHANGED <<cache, playerNames, calls>> /\ UNCHANGED <<world, counted>>

\* Another isolate serves, with nothing in its memory.
Recycle ==
  /\ playerNames # Nothing /\ playerNames' = Nothing
  /\ UNCHANGED <<cache, history, calls>> /\ UNCHANGED <<world, counted>>

\* D1 imports a seed as one transaction.
Import ==
  /\ imported + 1 \in Snapshots /\ imported' = imported + 1
  /\ UNCHANGED <<day, asked, calls>> /\ UNCHANGED <<stored, counted>>

Midnight ==
  /\ day < MaxDay /\ day' = day + 1
  /\ UNCHANGED <<imported, asked, calls>> /\ UNCHANGED <<stored, counted>>

Next ==
  \/ \E c \in Calls :
       \/ \E i \in DOMAIN Requests : Accept(c, i)
       \/ ReadNames(c)
       \/ \E i \in DOMAIN ModelOutputs : ProposeIntent(c, ModelOutputs[i])
       \/ FastCheck(c) \/ FastCount(c) \/ Charge(c) \/ ChargeFails(c)
       \/ NameSnapshot(c) \/ ReadPublication(c) \/ Check(c) \/ Reply(c)
       \/ \E a \in {"people", "web_names"} : ReadPeople(c, a)
       \/ \E a \in TableReads \ {"publication", "people", "web_names"} : ReadTable(c, a)
       \/ \E a \in TableReads \cup {"name", "check", "recheck"} : ReadFails(c, a)
       \/ LookUp(c) \/ Recheck(c) \/ Store(c) \/ Save(c) \/ Respond(c)
  \/ ClearHistory \/ Recycle \/ Import \/ Midnight

Spec == Init /\ [][Next]_vars
----------------------------------------------------------------------------
(***************************************************************************)
(* What is promised.                                                       *)
(***************************************************************************)

\* Every variable has its type, and an account keeps a bounded number of questions.
TypeOK ==
  /\ day \in Days /\ imported \in Snapshots /\ asked \in Seq(DOMAIN Requests)
  /\ \A d \in Days : kv[d] \subseteq Nat /\ {budget[d], tries[d], admitted[d]} \subseteq Nat
  /\ DOMAIN cache = {"key", "snapshot", "rows"} /\ Len(history) <= HistoryLimit
  /\ \A c \in Calls : calls[c].outcome \in
       {"idle", "pending", "refused", "static", "clarification", "over_limit", "unavailable", "answered"}

\* However the KV counter is lost, stale or unavailable, whichever day a request is counted
\* on, and whether D1 failed before or after it counted: no more requests of a day are let
\* through than the limit of D1, and KV counts no request that did not come (enforceBudget).
BudgetHeld ==
  \A d \in Days : admitted[d] <= HardLimit /\ \A n \in kv[d] : n <= tries[d]

\* What a question asks for is what the rules read in it, whatever the model sent.
Intended(r) ==
  CASE r.page = "ask"   -> ParseRuleBased(r.ask, Artifact).intent
    [] r.page = "query" -> WithDefaults(r.ask)
    [] OTHER            -> Nothing

\* The answer of each page, had it read all its tables under one snapshot.
Promised ==
  [i \in {j \in DOMAIN Requests : Requests[j].page # "chat" /\ Enter(Requests[j]).outcome = "pending"} |->
     [n \in Snapshots |->
        AnswerTo(Requests[i], Intended(Requests[i]), Name(n), [a \in TableReads |-> Tables[n]])]]

\* Figures are those of the snapshot a page of trends names.  What it reads after its last look
\* is not: the names are of that snapshot or a later one, and the players its form offers are
\* those of that snapshot or, when another was imported meanwhile, nobody.
TrendsHonest(call, promised) ==
  LET ask == RequestOf(call).ask
      named == NamedSnapshot(call)
  IN  /\ \E n \in {0, named} : call.answer.choices = TrendChoices(ask, Tables[n])
      /\ ask # Nothing =>
           /\ call.answer.result = promised.result /\ call.answer.leaders = promised.leaders
           /\ \E n \in Snapshots : n >= named /\ call.answer.labels = Labels(Tables[n], ask.people)

Honest(call, promised) ==
  LET r == RequestOf(call)
      fresh(view, claim) == view.state \in {"inconsistent", "unavailable"} \/ view = claim
  IN  CASE r.page \in {"query", "splits", "opponents", "range"} -> call.answer \in {promised, NoRows}
        [] r.page = "ask" ->
             /\ call.intent = Intended(r) /\ call.answer \in {promised, NoRows}
             /\ Nothing \notin {r.ask.metric, r.ask.season}
             /\ ~HasAmbiguousPlayerReference(r.ask, call.known)
        [] r.page = "trends" -> TrendsHonest(call, promised)
        [] r.page = "cl" -> \A s \in DOMAIN promised :
             \/ call.answer[s] = promised[s]
             \/ call.answer[s] = [promised[s] EXCEPT !.stage = Nothing]
        [] r.page = "health" -> fresh(call.answer, promised)
        [] r.page = "home" -> fresh(call.answer.freshness, promised.freshness)

\* A page that asks again for the snapshot it names shows what that snapshot says, although
\* its reads, the cache and the imports interleave; a page of trends does so in its figures,
\* though not in the names it reads afterwards; a question is answered for the intent the
\* rules read, when they were sure of it; Europe leaves a stage blank rather than take it from
\* another snapshot; and data is called current only under the publication it was read from
\* (executeWithCache and the pages of index.ts).
AnsweredAsAsked ==
  \A c \in Calls :
    LET call == calls[c]
    IN  (call.outcome = "answered" /\ RequestOf(call).page \notin {"chat", "compare", "season", "player"}) =>
          Honest(call, Promised[call.req][NamedSnapshot(call)])
=============================================================================
