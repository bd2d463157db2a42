---------------------------- MODULE MCAnswerService ----------------------------
(***************************************************************************)
(* Two seasons, two snapshots made by the pipeline from two fetches, and   *)
(* one request of each kind.  Season 1 is over; season 2 gains a match, a  *)
(* goal and a Champions League record between the fetches.  Two players    *)
(* share a name; one of them changes his.                                  *)
(***************************************************************************)
EXTENDS AnswerService, Ingest, CatalogBuild

CONSTANTS c1, c2, rooney, bruno, mateus, fernandes  \* requests in flight, names

Symmetry == Permutations({c1, c2})

----------------------------------------------------------------------------
(* What the sources sent. *)

Player(id, name, exact, like, goals, minutes) ==
  [code |-> id, id |-> id, name |-> name, exact |-> exact, like |-> like, team |-> 14,
   team_code |-> TEAM_CODE_MUFC, element_type |-> 4,
   goals |-> goals, assists |-> 1, minutes |-> minutes, points |-> 2 * goals]
Week(id, fixture, home, goals, minutes) ==
  [element |-> id, fixture |-> fixture, GW |-> fixture, was_home |-> home, team |-> "Man Utd",
   goals |-> goals, assists |-> IF fixture = 1 THEN 1 ELSE 0, minutes |-> minutes,
   points |-> 2 * goals, xg |-> goals]
Archive(players, gameweeks) ==
  [players |-> players, gameweeks |-> gameweeks,
   fixtures |-> <<[id |-> 1, team_h |-> 14, team_a |-> 3], [id |-> 2, team_h |-> 3, team_a |-> 14]>>]

\* In the second fetch player 8 has another name and a second match.
FetchedArchives(n) ==
  <<Archive(<<Player(7, rooney, {rooney}, {rooney}, 2, 90)>>,
            <<Week(7, 1, TRUE, 1, 60), Week(7, 2, FALSE, 1, 30)>>),
    IF n = 1
    THEN Archive(<<Player(7, rooney, {rooney}, {rooney}, 1, 90),
                   Player(8, fernandes, {fernandes}, {fernandes}, 1, 45)>>,
                 <<Week(7, 1, TRUE, 1, 90), Week(8, 1, TRUE, 1, 45)>>)
    ELSE Archive(<<Player(7, rooney, {rooney}, {rooney}, 1, 90),
                   Player(8, bruno, {bruno, fernandes}, {bruno, fernandes}, 3, 135),
                   Player(9, mateus, {mateus, fernandes}, {mateus, fernandes}, 0, 20)>>,
                 <<Week(7, 1, TRUE, 1, 90), Week(8, 1, TRUE, 1, 45), Week(8, 2, FALSE, 2, 90),
                   [Week(9, 1, TRUE, 0, 20) EXCEPT !.GW = 2]>>)>>

Match(home, away, hg, ag) == [home |-> home, away |-> away, hg |-> hg, ag |-> ag]
FetchedResults(n) ==
  <<<<Match("Man United", "City", 2, 0), Match("City", "Man United", 1, 1)>>,
    IF n = 1 THEN <<Match("Man United", "City", 2, 1)>>
    ELSE <<Match("Man United", "City", 2, 1), Match("City", "Man United", 0, 2)>>>>

Fetched(n) ==
  [archives |-> FetchedArchives(n), results |-> FetchedResults(n),
   cups |-> <<NotPublished,
              IF n = 1 THEN NotPublished ELSE <<Match("Manchester United (ENG)", "Bayern", 3, 1)>>>>]

Settings ==
  [seasons |-> {1, 2}, complete |-> {1}, cups |-> {2}, playersFrom |-> 1, xgFrom |-> 2, rounds |-> 2,
   delta |-> [s \in {1, 2} |-> [c \in Additive |-> 0]]]

\* The other loads of a snapshot: splits by fixture, labels, stages, the publication.
Split(season, venue, scored, conceded) ==
  [season |-> season, venue |-> venue, opponent |-> "city", lineage |-> {"football_data_couk"},
   counts |-> Record(<<<<scored, conceded>>>>)]
Splits(n) ==
  {Split(1, "home", 2, 0), Split(1, "away", 1, 1), Split(2, "home", 2, 1)}
    \cup (IF n = 1 THEN {} ELSE {Split(2, "away", 2, 0)})

FactsOf(n) ==
  LET seed == IngestMain(Fetched(n), Settings)
  IN  [players |-> seed.players, stats |-> seed.stats, seasons |-> seed.seasons, splits |-> Splits(n),
       opponents |-> {[opponent |-> "city", label |-> n]},
       stages |-> IF n = 1 THEN {} ELSE {[season |-> 2, stage |-> "final"]},
       run |-> [snapshot |-> n, sources |-> seed.sources, prepared |-> n, loaded |-> n]]
MCFacts == <<FactsOf(1), FactsOf(2)>>

----------------------------------------------------------------------------
(* The catalog that was compiled beside them. *)

Metric(id, granularity) == [metric_id |-> id, granularity |-> granularity, decimals |-> 0]
Cell(metric, type, season, competition, source) ==
  [metric |-> metric, entity_type |-> type, granularity |-> "box_score", season |-> season,
   competition |-> competition, source_id |-> source, redistributable |-> TRUE,
   cost_class |-> IF metric = "xg" THEN "expensive" ELSE "cheap", display |-> source]
Shots ==
  [Cell("shots", "player", 2, "PL", "statsbomb") EXCEPT !.granularity = "event_with_coords",
                                                        !.redistributable = FALSE]
MCArtifact ==
  [version |-> 1,
   metrics |-> <<Metric("goals", "box_score"), Metric("assists", "box_score"),
                 Metric("minutes", "box_score"), Metric("xg", "box_score"),
                 Metric("shots", "event_with_coords")>>,
   coverage |-> <<Cell("goals", "player", 1, "PL", "fpl"), Cell("goals", "player", 2, "PL", "fpl"),
                  Cell("minutes", "player", 1, "PL", "fpl"), Cell("minutes", "player", 2, "PL", "fpl"),
                  Cell("assists", "player", 1, "PL", "fpl"), Cell("assists", "player", 2, "PL", "fpl"),
                  Cell("xg", "player", 2, "PL", "fpl"),
                  Cell("goals", "season", 1, "PL", "football_data_couk"),
                  Cell("goals", "season", 2, "PL", "football_data_couk"),
                  Cell("goals", "season", 2, "CL", "openfootball"), Shots>>,
   sources |-> <<[source_id |-> "fpl", display |-> "fpl"]>>,
   output_coverage |-> <<[output_id |-> "season_splits", state |-> "clear"]>>]

----------------------------------------------------------------------------
(* What visitors ask. *)

Question(metric, mentions) ==
  [signs |-> {"united", "season", "metric"}, metric |-> metric, season |-> 2, viz |-> Nothing,
   european |-> FALSE, quoted |-> Nothing, mentions |-> mentions, whole |-> {},
   arrival |-> [form |-> "none", date |-> Nothing]]
Goals == [metric |-> "goals", season |-> 2, viz |-> "bar"]
Named8 == Goals @@ [entity_id |-> fernandes]
Players == [people |-> {7, 8}, seasons |-> {1, 2}, metric |-> "goals", normalization |-> "total", minimum |-> 0]
Fixtures == [seasons |-> {1, 2}, group_by |-> "opponent", venue |-> Nothing, opponent |-> "city"]

MCRequests == <<
  [page |-> "ask", ask |-> Question("goals", {}), account |-> TRUE],
  [page |-> "ask", ask |-> Question("goals", {bruno, mateus}), account |-> TRUE],
  [page |-> "query", ask |-> Goals @@ [entity_id |-> All], account |-> FALSE],
  [page |-> "query", ask |-> Named8, account |-> FALSE],
  [page |-> "query", ask |-> [Goals EXCEPT !.metric = "shots", !.viz = "shot_map"], account |-> FALSE],
  [page |-> "query", ask |-> [metric |-> "xg", season |-> 2, entity_id |-> All], account |-> FALSE],
  [page |-> "splits", ask |-> [Fixtures EXCEPT !.group_by = "venue", !.opponent = Nothing], account |-> FALSE],
  [page |-> "opponents", ask |-> Fixtures, account |-> FALSE],
  [page |-> "range", ask |-> Players, account |-> TRUE],
  [page |-> "trends", ask |-> [Players EXCEPT !.people = {8}], account |-> FALSE],
  [page |-> "cl", ask |-> Nothing, account |-> FALSE],
  [page |-> "season", ask |-> 2, account |-> FALSE],
  [page |-> "player", ask |-> fernandes, account |-> FALSE],
  [page |-> "home", ask |-> Nothing, account |-> FALSE],
  [page |-> "health", ask |-> Nothing, account |-> FALSE],
  [page |-> "compare", ask |-> [season |-> 2, metric |-> "goals", minimum |-> 0], account |-> FALSE],
  [page |-> "chat", ask |-> Question(Nothing, {rooney}), account |-> FALSE],
  [page |-> "trends", ask |-> Nothing, account |-> FALSE]>>

\* Each request alone, and those that share the cache, the history or the breaker.
MCSessions == {<<i>> : i \in DOMAIN MCRequests} \cup {<<3, 3>>, <<1, 3>>, <<9, 1>>, <<4, 7>>}

\* The model agrees with the rules, invents a player, or sends nothing of use.
MCModelOutputs == <<
  [kind |-> "intent", raw |-> Goals @@ [entity_id |-> All]],
  [kind |-> "intent", raw |-> Goals @@ [entity_id |-> rooney]],
  [kind |-> "no_json", raw |-> Nothing]>>
----------------------------------------------------------------------------
(* What the definitions without state compute, against what they are for. *)

Intents ==
  {WithDefaults([metric |-> m, entity_type |-> t, entity_id |-> All, season |-> s, competition |-> c, viz |-> v]) :
     m \in {"goals", "xg", "shots", "tackles"}, t \in {"player", "season"}, s \in 1..3,
     c \in {"PL", "CL"}, v \in {"bar", "shot_map"}}
State(intent) == CheckFeasibility(MCArtifact, intent, FALSE).state
Offered(intent) == CheckFeasibility(MCArtifact, intent, FALSE).nearest_alternative

\* What a refusal offers instead is another request, and one that is published; nothing is
\* offered only when the metric is published nowhere in the competition (feasibility.ts).
ASSUME AlternativesHold ==
  \A i \in Intents :
    /\ Offered(i) # Nothing => Offered(i) # i /\ State(Offered(i)) \notin {"no_data", "no_rights"}
    /\ (State(i) = "no_data" /\ Offered(i) = Nothing) =>
         \A j \in Intents : (j.metric = i.metric /\ j.entity_type = i.entity_type /\
                             j.competition = i.competition /\ j.viz \in {i.viz, "bar"}) =>
                               State(j) \in {"no_data", "no_rights"}

\* The catalog is admitted; with a cell twice, a cell finer than its metric, or one source
\* under two displays it is not (catalog-contract.ts).
ASSUME CatalogAdmitted ==
  LET with(cell) == [MCArtifact EXCEPT !.coverage = Append(@, cell)]
      new == Cell("goals", "player", 3, "PL", "fpl")
  IN  /\ DecodeCompiledCatalog(MCArtifact) /\ DecodeCompiledCatalog(with(new))
      /\ ~DecodeCompiledCatalog(with([new EXCEPT !.season = 1]))
      /\ ~DecodeCompiledCatalog(with([new EXCEPT !.granularity = "tracking"]))
      /\ ~DecodeCompiledCatalog(with([new EXCEPT !.display = "else"]))

\* What the pipeline may be given to compile: some of these cells and metrics, and a
\* source that is licensed or not.
Undisplayed(cell) == [f \in DOMAIN cell \ {"display"} |-> cell[f]]
Source(id, licensed) ==
  [source_id |-> id, display |-> id, redistributable |-> licensed, tos_snapshot |-> Kept, age |-> TOS_MAX_AGE]
Producible ==
  {Cell("goals", "player", 1, "PL", "fpl"), Cell("goals", "player", 2, "PL", "fpl"),
   Cell("xg", "player", 2, "PL", "fpl"), Cell("goals", "player", 2, "PL", "unheard"),
   [Cell("goals", "season", 1, "PL", "fpl") EXCEPT !.granularity = "tracking"],
   Shots, [Shots EXCEPT !.season = 1, !.redistributable = TRUE]}
Produced ==
  {[rights |-> <<Source("fpl", TRUE), Source("statsbomb", licensed)>>,
    metrics |-> SelectSeq(MCArtifact.metrics, LAMBDA m : m.metric_id \in declared),
    coverage |-> SetToSeq({Undisplayed(c) : c \in cells})] :
     licensed \in BOOLEAN, declared \in SUBSET {"goals", "xg", "shots"}, cells \in SUBSET Producible}
Sound == {c \in Produced : CheckInvariants(c)}

\* Rights agree within each source, which check_invariants does not ask for.
OneRightEach(c) ==
  \A a, b \in ToSet(c.coverage) : a.source_id = b.source_id => a.redistributable = b.redistributable

\* A sound catalog compiles to one the Worker admits, exactly when the cells of a source
\* agree in their rights, and then both resolve every intent alike (build_catalog.py,
\* feasibility.py against catalog-contract.ts, feasibility.ts).
ASSUME ProducerAgrees ==
  \A c \in Sound :
    /\ DecodeCompiledCatalog(CompileForWorker(c)) <=> OneRightEach(c)
    /\ \A i \in Intents, made \in BOOLEAN :
         ProducerFeasibility(c, i, made) = CheckFeasibility(CompileForWorker(c), i, made)

\* The check before a deployment admits what the Worker admits, but for the output that
\* it does not know (validate_public_catalog.py).
ASSUME ValidatorsAgree ==
  \A c \in Produced, sources \in {<<>>, MCArtifact.sources, <<[source_id |-> "fpl", display |-> "else"]>>},
    output \in {"shot_map", "manager_era_records"} :
      LET root == [CompileForWorker(c) EXCEPT !.sources = sources,
                     !.output_coverage = <<[output_id |-> output, state |-> "clear"]>>]
      IN  ValidatePublicCatalog(root) <=> DecodeCompiledCatalog(root) /\ output \in PublicOutputs

\* An intent has one key however much of it is spelled out, and two that differ have two
\* (intent.ts).
ASSUME KeysDigest ==
  \A i, j \in Intents : ArtifactKey(WithDefaults(i), 1, "code") = ArtifactKey(j, 1, "code") <=> i = j

Lost(s, k) == SubSeq(s, 1, k - 1) \o SubSeq(s, k + 1, Len(s))
Weeks == Fetched(2).archives[2].gameweeks
WithWeeks(rows) == [Fetched(2) EXCEPT !.archives[2].gameweeks = rows]

\* A season's record and the people of its seed add up; a week lost, counted twice or
\* moved to the other side, a match lost and an unreadable file end the run; a cup that
\* cannot be read takes only the cups with it (sources/run.py).
ASSUME SeedAddsUp ==
  LET seed == IngestMain(Fetched(2), Settings)
      ends(fetched) == IngestMain(fetched, Settings) = Fatal
      unread == [Fetched(2) EXCEPT !.cups[2] = Unreadable]
  IN  /\ \A r \in seed.seasons : r.counts.played = r.counts.won + r.counts.drawn + r.counts.lost
      /\ \A k \in DOMAIN Weeks : Weeks[k].minutes > 0 => ends(WithWeeks(Lost(Weeks, k)))
      /\ \A k \in DOMAIN Weeks : ends(WithWeeks([Weeks EXCEPT ![k].was_home = ~@]))
      /\ ends(WithWeeks(Append(Weeks, [Weeks[1] EXCEPT !.GW = 3])))
      /\ ~ends(WithWeeks(Append(Weeks, Weeks[1])))
      /\ ~ends(WithWeeks(Append(Weeks, [Week(7, 1, TRUE, 0, 0) EXCEPT !.GW = 0, !.assists = 0])))
      /\ ends([Fetched(2) EXCEPT !.results[1] = Tail(@)]) /\ ends([Fetched(2) EXCEPT !.results[2] = Unreadable])
      /\ IngestMain(unread, Settings).sources["openfootball_cl"] = Unavailable
      /\ IngestMain(unread, Settings).stats = seed.stats
      /\ SnapshotId(Fetched(1), Settings) # SnapshotId(Fetched(2), Settings)

\* The groups of a selection are its fixtures, and with no filter its seasons (season-splits.ts).
ASSUME SplitsAddUp ==
  \A n \in 1..2, seasons \in {{1}, {2}, {1, 2}}, by \in {"venue", "opponent"}, venue \in {Nothing, "home"} :
    LET ask == [seasons |-> seasons, group_by |-> by, venue |-> venue, opponent |-> Nothing]
        result == QuerySeasonSplits(ask, LeagueSeasons, SplitFacts(ask, [a \in TableReads |-> MCFacts[n]]))
        league == {r \in MCFacts[n].seasons : r.competition = "PL" /\ r.season \in seasons}
    IN  ~result.partial /\ (venue = Nothing => Sum(result.groups) = Sum(league))

Lines ==
  {[person |-> p, total |-> t, minutes |-> m] : p \in 1..2, t \in {Null, 1, 2}, m \in {0, 45, 90}}

\* The order of rates is a total order, by the rate itself first (comparison.ts).
ASSUME RatesOrder ==
  \A a, b \in {l \in Lines : Per90(l.total, l.minutes) # Nothing} :
    /\ Ahead(a, b) => ~Ahead(b, a) /\ (a.person # b.person => Ahead(a, b) \/ Ahead(b, a))
    /\ a.total * b.minutes > b.total * a.minutes => Ahead(a, b)

\* A name finds a person only if nobody else answers to it as well (db.ts).
ASSUME NamesFindOne ==
  LET people(needle, n) == {p.person : p \in {q \in MCFacts[n].players : needle \in q.exact}}
  IN  \A n \in 1..2, needle \in {rooney, bruno, mateus, fernandes} :
        /\ Cardinality(people(needle, n)) = 1 => {ResolvePlayerIdentity(MCFacts[n], needle, "PL")} = people(needle, n)
        /\ Cardinality(people(needle, n)) > 1 => ResolvePlayerIdentity(MCFacts[n], needle, "PL") = Nothing

Era(season, tenure, manager) ==
  [season |-> season, tenure |-> tenure, manager |-> manager, counts |-> Record(<<<<2, 0>>, <<1, 1>>>>)]
Eras == {Era(1, "first", "alex"), Era(2, "first", "alex"), Era(2, "second", "ole"), Era(3, "second", "ole")}

\* An era is the sum of its seasons that are selected and complete, and says when some are
\* not counted (manager-era.ts).
ASSUME ErasAddUp ==
  \A selected \in SUBSET (1..3), complete \in SUBSET (1..3) :
    LET coverage == {[season |-> s, state |-> "complete"] : s \in complete}
        shown == QueryManagerEras(Eras, coverage, {"alex"}, selected)
    IN  /\ DOMAIN shown = IF selected \cap complete \cap {1, 2} = {} THEN {} ELSE {"first"}
        /\ \A t \in DOMAIN shown : shown[t].counts.played = 2 * Cardinality(selected \cap complete \cap {1, 2})
        /\ ParseManagerEraRequest({"alex"}, complete, Nothing, selected).refusal # Nothing
             <=> ~(selected \subseteq complete)

Arrivals ==
  {[Question(Nothing, {}) EXCEPT !.signs = signs, !.arrival = [form |-> form, date |-> date]] :
     signs \in {{}, {"unsafe"}, {"united", "metric"}}, form \in Forms, date \in {Nothing, InvalidDate, 1}}

\* A question about arrivals is carried out only in the closed wording, for one date, when
\* confirmed; the gate lets nothing unsafe through for it, and lets every question through
\* that it would without it (discovery-arrivals.ts, askguard.ts).
ASSUME ArrivalsClosed ==
  \A q \in Arrivals, date \in {Nothing, 1, 2} :
    /\ ValidateArrivalIntent(q, date, TRUE) = "accepted" =>
         q.arrival.form = "pattern" /\ q.arrival.date # InvalidDate
           /\ Cardinality({q.arrival.date, date} \ {Nothing}) = 1
    /\ ValidateArrivalIntent(q, date, FALSE) # "accepted"
    /\ "unsafe" \in q.signs => GateQuestion(q, {}, TRUE) = "unsafe_input"
    /\ GateQuestion(q, {}, FALSE) = "allowed" => GateQuestion(q, {}, TRUE) = "allowed"

\* The comparison starts from a season that can be compared, if there is one.
ASSUME DefaultsCompare ==
  \A goals, assists \in SUBSET (1..2), season \in {Nothing, 1, 2}, metric \in {Nothing, "goals", "assists"} :
    LET seasons == [m \in {"goals", "assists"} |-> IF m = "goals" THEN goals ELSE assists]
        defaults == SelectComparisonDefaults(seasons, season, metric)
    IN  IF goals \cup assists = {} THEN defaults = Nothing ELSE defaults.season \in seasons[defaults.metric]
=============================================================================
