---------------------------------- MODULE Pages ----------------------------------
(***************************************************************************)
(* The pages of the Worker (index.ts): which requests a page accepts, the  *)
(* awaits it goes through and what it makes of what its reads saw.         *)
(*                                                                         *)
(* An entry of a page is its outcome, or "pending" and its stages.  A      *)
(* stage is a set of awaits that run together (Promise.all); Follows are   *)
(* the awaits that come after one of them inside its stage.  At "reply" a  *)
(* page makes its answer of what it read, at "recheck" it asks whether the *)
(* snapshot is still the same.  F is a function from the reads of a page   *)
(* to the tables each of them saw, empty for a read that was not made.     *)
(*                                                                         *)
(* What a visitor sends is ask, a record of the fields the page takes;     *)
(* sets of people and seasons have no duplicates, as the pages require.    *)
(***************************************************************************)
EXTENDS QuestionGate, Statistics

CONSTANTS
  Artifact,  \* the compiled catalog
  Approved,  \* APPROVED_OPPONENT_IDS
  AiMode,    \* whether a model is bound and allowed to propose
  NoRows     \* the answer that there is nothing to show

Refusal == [outcome |-> "refused", stages |-> <<>>]
Static == [outcome |-> "static", stages |-> <<>>]
Reads(stages) == [outcome |-> "pending", stages |-> stages]

Breaker == <<{"kv"}, {"kv_put"}, {"charge"}>>
Saving(account) == IF account THEN <<{"save"}>> ELSE <<>>
Empty(stages) == [outcome |-> "no_rows", stages |-> stages]

TableReads ==
  {"identity", "result", "splits", "lineage", "totals", "sums", "records", "labels", "people",
   "web_names", "facts", "choices", "comparison", "squad_rows", "record", "europe", "history",
   "again", "career", "squad", "publication", "batch", "stages"}

----------------------------------------------------------------------------
(***************************************************************************)
(* Questions and queries.                                                  *)
(***************************************************************************)

\* The gate needs the names of players, the proposal may need the model.
QuestionPage(q) == IF "empty" \in q.signs THEN Refusal ELSE Reads(<<{"names"}, {"model"}>>)

QueryPage(raw) ==
  IF ParseIntent(raw) = "ok" /\ ValidateQuerySemantics(WithDefaults(raw))
  THEN Reads(<<{"name"}>>) ELSE Refusal

\* A named player is two reads, the identity and then its row.
Named(intent) == intent.entity_type = "player" /\ intent.entity_id # All

Compute(intent, account) ==
  Breaker \o <<{IF Named(intent) THEN "identity" ELSE "result"}, {"reply"}, {"recheck"}, {"store"}>> \o Saving(account)

\* What is refused for want of data or rights is answered with no rows; a question is
\* kept all the same, except for want of rights.
PlanQuery(intent, account) ==
  LET state == CheckFeasibility(Artifact, intent, FALSE).state
  IN  IF state = "no_rights" THEN Empty(<<>>)
      ELSE IF state = "no_data" THEN Empty(Saving(account))
      ELSE IF ~ValidateExecutionSupport(intent) THEN Refusal
      ELSE Reads(<<{"lookup"}>>)

\* The cache did not have it: only what is cheap is computed.
PlanOnMiss(intent, account) ==
  IF CheckFeasibility(Artifact, intent, FALSE).state = "computable_but_expensive"
  THEN Empty(Saving(account)) ELSE Reads(Compute(intent, account))

QueryAnswer(intent, F) == RunQuery(F["identity"], F["result"], intent)

----------------------------------------------------------------------------
(***************************************************************************)
(* Splits of seasons, and the history against one opponent.                *)
(***************************************************************************)

LeagueSeasons ==
  {c.season : c \in {d \in ToSet(Artifact.coverage) : d.competition = "PL"}}

SplitsPublished == OutputCapability(Artifact, "season_splits") = "clear"

SplitReads == <<{"check"}, {"splits"}, {"lineage"}, {"totals"}, {"sums"}, {"check"}>>

SplitFacts(ask, F) ==
  SeasonSplitFacts(F["splits"].splits, F["lineage"].splits, F["totals"].seasons, F["sums"].splits, ask)

\* The label of each opponent shown, or its id.
ReadOpponentLabels(rows, ids) == {r \in rows : r.opponent \in ids \cap Approved}

SplitsPage(ask) ==
  IF ~(ask.opponent \in Approved \cup {Nothing} /\ SplitsRequestOk(ask, LeagueSeasons)) THEN Refusal
  ELSE IF ~SplitsPublished THEN Static
  ELSE Reads(Breaker \o <<{"publication"}>> \o SplitReads \o <<{"labels"}, {"reply"}, {"recheck"}>>)

SplitsAnswer(ask, F) ==
  LET facts == SplitFacts(ask, F)
      result == QuerySeasonSplits(ask, LeagueSeasons, facts)
      ids == {r.opponent : r \in facts.rows} \cup {ask.opponent}
  IN  IF result = Invalid THEN Invalid
      ELSE [result |-> result, labels |-> ReadOpponentLabels(F["labels"].opponents, ids)]

\* Without an opponent or a season the page is the form that asks for them.
OpponentsForm(ask) == ask.opponent = Nothing \/ ask.seasons = {}

OpponentsPage(ask) ==
  IF \/ ask.opponent \notin Approved \cup {Nothing}
     \/ ask.opponent = Nothing /\ ask.seasons = {} /\ ask.venue # Nothing
     \/ ask.seasons # {} /\ ~SplitsRequestOk(ask, LeagueSeasons)
  THEN Refusal
  ELSE IF ~SplitsPublished THEN Static
  ELSE Reads(Breaker \o <<{"publication"}>>
               \o (IF OpponentsForm(ask) THEN <<>> ELSE SplitReads \o <<{"records"}>>)
               \o <<{"labels"}, {"reply"}, {"recheck"}>>)

OpponentsAnswer(ask, F) ==
  LET ids == IF OpponentsForm(ask) THEN Approved ELSE {ask.opponent}
      labels == ReadOpponentLabels(F["labels"].opponents, ids)
      record == OpponentHistory(ask, LeagueSeasons, SplitFacts(ask, F).coverage, F["records"].splits)
  IN  IF OpponentsForm(ask) THEN [labels |-> labels]
      ELSE IF record = Invalid THEN Invalid ELSE [result |-> record, labels |-> labels]

----------------------------------------------------------------------------
(***************************************************************************)
(* Players over a range of seasons.                                        *)
(***************************************************************************)

KnownPeople(tables) == {p.person : p \in tables.players}

RangePage(ask, account) ==
  IF ~RangeRequestOk(ask, ask.people) THEN Refusal
  ELSE Reads(Breaker \o <<{"name"}, {"people"}, {"web_names"}, {"facts"}, {"reply"}, {"recheck"}>> \o Saving(account))

\* Somebody unknown or a season without coverage refuses the selection.
RangeSelectable(ask, tables) ==
  /\ ask.people \subseteq KnownPeople(tables)
  /\ \A s \in ask.seasons : Supported(Artifact, ask.metric, s)

RangeAnswer(ask, F) ==
  LET labels == Labels(F["web_names"], ask.people)
      rows == PlayerFacts(Artifact, F["facts"], ask.people, ask.seasons, ask.metric)
      result == CalculatePlayerRange(ask, DOMAIN labels, rows)
  IN  IF result = Invalid THEN Invalid ELSE [result |-> result, labels |-> labels]

EligibleSeasons ==
  {s \in LeagueSeasons : \A m \in {"goals", "assists"} : Supported(Artifact, m, s)}

\* No fields at all is the form, with the players to choose from.
TrendsPage(ask) ==
  IF ask = Nothing THEN Reads(Breaker \o <<{"name"}, {"choices"}, {"reply"}>>)
  ELSE IF \/ ~TrendsRequestOk(ask, ask.people)
          \/ ~(ask.seasons \subseteq EligibleSeasons)
          \/ ask.seasons # Min(ask.seasons)..Max(ask.seasons)
       THEN Refusal
  ELSE Reads(Breaker \o <<{"name"}, {"people"}, {"check"}, {"facts"}, {"check"}, {"check"}, {"recheck"},
                          {"web_names"}, {"choices"}, {"reply"}>>)

\* The players its form offers, with a selection or without.
TrendChoices(ask, tables) ==
  PlayerChoices(tables, IF ask = Nothing THEN {Max(EligibleSeasons)} ELSE ask.seasons, 60)

\* The names of the people selected and the players offered are read after the last look at
\* the snapshot; the names are not those of a snapshot in particular.
TrendsAnswer(ask, F) ==
  LET known == KnownPeople(F["people"])
      rows == PlayerFacts(Artifact, F["facts"], ask.people, ask.seasons, ask.metric)
      trends == CalculatePlayerTrends(Artifact, ask, known, rows)
      choices == TrendChoices(ask, F["choices"])
  IN  IF ask = Nothing THEN [choices |-> choices]
      ELSE IF trends = Invalid THEN Invalid
      ELSE [result |-> trends, labels |-> Labels(F["web_names"], ask.people), choices |-> choices,
            leaders |-> IF ask.normalization = "total" THEN Nothing
                        ELSE CalculatePer90Leaders(ask.people, Max(ask.seasons), ask.minimum, rows)]

----------------------------------------------------------------------------
(***************************************************************************)
(* Pages of one season, one player, Europe, and how fresh the data is.     *)
(***************************************************************************)

\* The seasons a metric can be compared in, by metric.
ComparisonSeasons ==
  [m \in {"goals", "assists"} |->
     {s \in SeasonsFor(Artifact, m, "player", "box_score") :
        \A column \in {m, "minutes"} :
          Covered(Artifact, ComparisonIntent([metric |-> column, season |-> s]))}]

ComparePage(ask) ==
  LET defaults == SelectComparisonDefaults(ComparisonSeasons, ask.season, ask.metric)
      season == IF ask.season = Nothing THEN defaults.season ELSE ask.season
      metric == IF ask.metric = Nothing THEN defaults.metric ELSE ask.metric
  IN  IF defaults = Nothing THEN Refusal
      ELSE IF season \notin ComparisonSeasons[metric] \/ ask.minimum \notin 0..20000 THEN Refusal
      ELSE Reads(<<{"comparison"}, {"reply"}>>)

CompareAnswer(ask, F) ==
  LET defaults == SelectComparisonDefaults(ComparisonSeasons, ask.season, ask.metric)
  IN  ExecuteComparison(Artifact, F["comparison"],
        [metric |-> IF ask.metric = Nothing THEN defaults.metric ELSE ask.metric,
         season |-> IF ask.season = Nothing THEN defaults.season ELSE ask.season,
         minimum |-> ask.minimum])

SeasonPage(ask) == Reads(<<{"squad_rows", "record", "europe", "history"}, {"name"}, {"reply"}>>)

SeasonAnswer(season, F) ==
  LET squad == SeasonSquadRows(F["squad_rows"], season, "PL")
  IN  [squad |-> squad, record |-> SeasonRecordRow(F["record"], season, "PL"),
       europe |-> SeasonRecordRow(F["europe"], season, "CL"),
       comparison |-> BuildSeasonComparison(Artifact, F["history"].seasons,
                        EligibleLeagueSeasons(Artifact, season)),
       indexed |-> squad # <<>> /\ HasSubstance(ColumnFeasibility(Artifact, "player", season, "PL"), 2)]

PlayerPage(needle) == Reads(<<{"identity"}, {"name"}, {"reply"}>>)

\* The career resolves the id again, and is empty when nobody answers to it any more.
Career(person, F) ==
  IF person = Nothing THEN {}
  ELSE IF ResolvePlayerIdentity(F["again"], person, "PL") = Nothing THEN {}
  ELSE PlayerCareerRows(F["career"], person, "PL")

PlayerAnswer(needle, F) ==
  LET person == ResolvePlayerIdentity(F["identity"], needle, "PL")
  IN  [person |-> person, career |-> Career(person, F)]

\* The page lives without any of its reads; its suggestion is a player of the newest
\* season who has minutes there.
HomePage == Reads(<<{"name", "publication", "squad"}, {"reply"}>>)

HomeAnswer(snapshot, F) ==
  LET seasons == ComparisonSeasons["goals"]
      season == Max(seasons)
      squad == SeasonSquadRows(F["squad"], season, "PL")
      career == Career(squad[1].person, F)
  IN  [freshness |-> FreshnessView(snapshot, CurrentPublication(F["publication"].run)),
       career |-> IF seasons = {} THEN Nothing
                  ELSE IF squad = <<>> THEN Nothing
                  ELSE IF \E row \in career : row.season = season
                  THEN [person |-> squad[1].person, season |-> season] ELSE Nothing]

HealthPage == Reads(<<{"name", "publication"}, {"reply"}>>)
HealthAnswer(snapshot, F) == FreshnessView(snapshot, CurrentPublication(F["publication"].run))

ChampionsLeaguePage == Reads(<<{"publication", "batch"}, {"reply"}>>)

\* A season shows what the catalog lets out, and an unavailable source shows nothing.
ChampionsLeagueAnswer(snapshot, F) ==
  LET entries == ClHistoryRows(Artifact, F["batch"].seasons, F["stages"].stages)
      executable(s) == CanExecute(CheckFeasibility(Artifact,
        WithDefaults([metric |-> "goals", entity_type |-> "season", entity_id |-> All, season |-> s,
                      competition |-> "CL", viz |-> "table", limit |-> 1]), FALSE))
      publication == CurrentPublication(F["publication"].run)
  IN  IF snapshot = Nothing \/ publication = Nothing \/ entries = Invalid THEN Invalid
      ELSE IF publication.snapshot # snapshot THEN Invalid
      ELSE IF /\ publication.sources["openfootball_cl"].status = "unavailable"
              /\ \E s \in DOMAIN entries : entries[s] # Gap THEN Invalid
      ELSE [s \in DOMAIN entries |-> IF executable(s) THEN entries[s] ELSE Gap]

----------------------------------------------------------------------------
\* The read that another one leads to, when it found somebody.
Follows(r, intent, F, a) ==
  CASE a = "batch" -> {"stages"}
    [] a = "identity" /\ r.page = "player" ->
         IF ResolvePlayerIdentity(F[a], r.ask, "PL") = Nothing THEN {} ELSE {"again"}
    [] a = "identity" /\ r.page # "player" ->
         IF ResolvePlayerIdentity(F[a], intent.entity_id, intent.competition) = Nothing THEN {} ELSE {"result"}
    [] a = "squad" ->
         IF SeasonSquadRows(F[a], Max(ComparisonSeasons["goals"]), "PL") = <<>> THEN {} ELSE {"again"}
    [] a = "again" -> {"career"}
    [] OTHER -> {}

\* The route of a request.
Enter(r) ==
  CASE r.page \in {"ask", "chat"} -> QuestionPage(r.ask)
    [] r.page = "query"           -> QueryPage(r.ask)
    [] r.page = "splits"          -> SplitsPage(r.ask)
    [] r.page = "opponents"       -> OpponentsPage(r.ask)
    [] r.page = "range"           -> RangePage(r.ask, r.account)
    [] r.page = "trends"          -> TrendsPage(r.ask)
    [] r.page = "compare"         -> ComparePage(r.ask)
    [] r.page = "season"          -> SeasonPage(r.ask)
    [] r.page = "player"          -> PlayerPage(r.ask)
    [] r.page = "cl"              -> ChampionsLeaguePage
    [] r.page = "health"          -> HealthPage
    [] OTHER                      -> HomePage

\* What it answers, naming that snapshot.
AnswerTo(r, intent, snapshot, F) ==
  CASE r.page \in {"ask", "query"} -> QueryAnswer(intent, F)
    [] r.page = "splits"           -> SplitsAnswer(r.ask, F)
    [] r.page = "opponents"        -> OpponentsAnswer(r.ask, F)
    [] r.page = "range"            -> RangeAnswer(r.ask, F)
    [] r.page = "trends"           -> TrendsAnswer(r.ask, F)
    [] r.page = "compare"          -> CompareAnswer(r.ask, F)
    [] r.page = "season"           -> SeasonAnswer(r.ask, F)
    [] r.page = "player"           -> PlayerAnswer(r.ask, F)
    [] r.page = "cl"               -> ChampionsLeagueAnswer(snapshot, F)
    [] r.page = "health"           -> HealthAnswer(snapshot, F)
    [] OTHER                       -> HomeAnswer(snapshot, F)
=============================================================================
