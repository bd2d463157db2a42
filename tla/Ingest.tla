--------------------------------- MODULE Ingest ---------------------------------
(***************************************************************************)
(* The pipeline that makes a seed of the tables from what its sources sent *)
(* (pipeline/sources).  Either every check passes and the whole seed is    *)
(* written, or nothing is.                                                 *)
(*                                                                         *)
(* What a run fetched is a record:                                         *)
(*   archives  by season, the three FPL files [players, gameweeks,         *)
(*             fixtures], each a sequence of rows                          *)
(*   results   by season, a sequence of matches [home, away, hg, ag]       *)
(*   cups      by season, a sequence of matches in the Champions League    *)
(* A file that did not come, lacks a column or holds what is no number is  *)
(* Unreadable; the openfootball file of a season may also be NotPublished. *)
(* The rows of unrelated clubs' players are there to be left out.          *)
(***************************************************************************)
EXTENDS Catalog

CONSTANTS
  Fatal,        \* a run that ends without a seed
  Unreadable,   \* a file the run cannot use
  NotPublished  \* a file its source does not have

NoValue == -1

Additive == {"goals", "assists", "minutes", "points"}
TEAM_CODE_MUFC == 1
TEAM_NAMES_RESULTS == {"Man United", "Manchester United", "Man Utd"}
TEAM_ALIASES == {"Manchester United (ENG)", "Manchester United FC (ENG)"}
POSITION_CODES == 1..4
NON_PLAYER_ELEMENT_TYPES == {5}
MAX_PLAUSIBLE_MINUTES == 3820

Total(rows, column) == MapThenSumSet(LAMBDA r : r[column], rows)

----------------------------------------------------------------------------
(***************************************************************************)
(* One season of the FPL archive.                                          *)
(***************************************************************************)

\* A postponed match leaves a row at the week it was due, all zero, before the real one.
Earlier(rows) ==
  {g \in rows : \E h \in rows : h.element = g.element /\ h.fixture = g.fixture /\ h.GW > g.GW}

Collapsible(rows, published) ==
  /\ \A g, h \in rows :
       g.element = h.element /\ g.fixture = h.fixture /\ g.GW = h.GW => g = h
  /\ \A g \in Earlier(rows) : \A column \in published : g[column] = 0

\* The side a row was played for is the fixture's, whatever club the player is with now.
FixtureTeam(g, fixtures) ==
  LET f == CHOOSE f \in ToSet(fixtures) : f.id = g.fixture IN IF g.was_home THEN f.team_h ELSE f.team_a

Attributable(rows, fixtures, united) ==
  /\ Unique(fixtures, LAMBDA f : f.id)
  /\ \A g \in rows : \E f \in ToSet(fixtures) : f.id = g.fixture
  /\ \A g \in rows : g.team # "" => (g.team = "Man Utd" <=> FixtureTeam(g, fixtures) = united)

Of(rows, element) == {g \in rows : g.element = element}

\* Season totals of the snapshot against the sums of the weeks: archive-wide up to the
\* known anomalies of the season, goals and assists player by player, and every column
\* of whoever is or was with United.
Reconciles(people, rows, ours, delta) ==
  LET adds(p, column) == Total(Of(rows, p.id), column) = p[column]
  IN  /\ \A column \in Additive :
           Total(rows, column) - Total(people, column) = delta[column]
      /\ \A p \in people : adds(p, "goals") /\ adds(p, "assists")
      /\ \A p \in people : p.team_code = TEAM_CODE_MUFC \/ Of(ours, p.id) # {} =>
           \A column \in Additive : adds(p, column)

NoManagers(elements) == {p \in elements : p.element_type \notin NON_PLAYER_ELEMENT_TYPES}
RowsOf(people, rows) == {g \in rows : \E p \in people : p.id = g.element}

\* The people of a season, with what each did in the matches of United.
SeasonRows(season, people, ours, xgFrom) ==
  {[person |-> p.code, season |-> season, name |-> p.name, exact |-> p.exact, like |-> p.like,
    values |-> [c \in Additive \cup {"xg"} |->
                  IF c = "xg" /\ season < xgFrom THEN NoValue ELSE Total(Of(ours, p.id), c)]] :
     p \in {q \in people : Of(ours, q.id) # {}}}

\* elements is everybody in the archive, rows its weeks after the collapse, ours those
\* played for United.
Attributed(season, elements, rows, ours, xgFrom, delta) ==
  LET people == NoManagers(elements)
  IN  IF \/ ours = {} \/ ~Reconciles(people, RowsOf(people, rows), ours, delta)
         \/ \E g \in ours : \A p \in elements : p.id # g.element
         \/ \E p \in people : Of(ours, p.id) # {} /\ p.element_type \notin POSITION_CODES
      THEN Fatal ELSE SeasonRows(season, people, ours, xgFrom)

Collapsed(season, archive, rows, teams, xgFrom, delta) ==
  LET united == CHOOSE t \in teams : TRUE
  IN  IF Cardinality(teams) # 1 \/ ~Attributable(rows, archive.fixtures, united) THEN Fatal
      ELSE Attributed(season, ToSet(archive.players), rows,
             {g \in rows : FixtureTeam(g, archive.fixtures) = united}, xgFrom, delta)

PlayerFrame(season, archive, xgFrom, delta) ==
  LET weeks == ToSet(archive.gameweeks)
      published == Additive \cup (IF season >= xgFrom THEN {"xg"} ELSE {})
  IN  IF Unreadable \in {archive.players, archive.gameweeks, archive.fixtures} THEN Fatal
      ELSE IF \/ \E p \in ToSet(archive.players) : p.code <= 0
              \/ season >= xgFrom /\ \E g \in weeks : g.xg < 0
              \/ ~Collapsible(weeks, published) \/ ~Unique(archive.players, LAMBDA p : p.id)
      THEN Fatal
      ELSE Collapsed(season, archive, weeks \ Earlier(weeks),
             {p.team : p \in {q \in ToSet(archive.players) : q.team_code = TEAM_CODE_MUFC}}, xgFrom, delta)

----------------------------------------------------------------------------
(***************************************************************************)
(* The records of a season.  A match without a score has hg = NoValue.     *)
(***************************************************************************)

Record(scores) ==
  LET count(Ok(_)) == Cardinality({i \in DOMAIN scores : Ok(scores[i])})
      sum(k) == FoldFunction(LAMBDA s, n : s[k] + n, 0, scores)
  IN  [played |-> Cardinality(DOMAIN scores), won |-> count(LAMBDA s : s[1] > s[2]),
       drawn |-> count(LAMBDA s : s[1] = s[2]), lost |-> count(LAMBDA s : s[1] < s[2]),
       for |-> sum(1), against |-> sum(2)]

\* The scores of its matches as United saw them.
Scores(matches, names) ==
  [i \in {j \in DOMAIN matches : /\ matches[j].hg # NoValue
                                 /\ {matches[j].home, matches[j].away} \cap names # {}} |->
     LET m == matches[i] IN IF m.home \in names THEN <<m.hg, m.ag>> ELSE <<m.ag, m.hg>>]

\* A season that is over has as many matches as the league plays.
LoadResults(matches, complete, rounds) ==
  IF matches = Unreadable \/ DOMAIN Scores(matches, TEAM_NAMES_RESULTS) = {} THEN Fatal
  ELSE LET record == Record(Scores(matches, TEAM_NAMES_RESULTS))
       IN  IF complete /\ record.played # rounds THEN Fatal ELSE record

----------------------------------------------------------------------------
(***************************************************************************)
(* The Champions League, which the run does without.                       *)
(***************************************************************************)

\* What comes under a spelling nobody knows is a failure, not a season without United.
Renamed(matches) ==
  /\ DOMAIN Scores(matches, TEAM_ALIASES) = {}
  /\ \E m \in ToSet(matches) : m.hg # NoValue /\ {m.home, m.away} \cap TEAM_NAMES_RESULTS # {}

SeasonRecord(matches) ==
  IF matches = NotPublished THEN NotPublished
  ELSE IF matches = Unreadable THEN Fatal
  ELSE IF Renamed(matches) THEN Fatal
  ELSE IF DOMAIN Scores(matches, TEAM_ALIASES) = {} THEN NotPublished
  ELSE Record(Scores(matches, TEAM_ALIASES))

\* One season that fails takes the others with it.
FetchAll(cups, seasons) ==
  LET records == [s \in seasons \cap DOMAIN cups |-> SeasonRecord(cups[s])]
  IN  IF \E s \in DOMAIN records : records[s] = Fatal THEN {}
      ELSE {[season |-> s, competition |-> "CL", counts |-> records[s]] :
              s \in {t \in DOMAIN records : records[t] # NotPublished}}

----------------------------------------------------------------------------
(***************************************************************************)
(* The checks on the whole, and the seed.                                  *)
(***************************************************************************)

PlayersOk(players) ==
  /\ \A p \in players : /\ \A c \in Additive : p.values[c] >= 0
                        /\ p.values.minutes <= MAX_PLAUSIBLE_MINUTES
  /\ \A p, q \in players : p.person = q.person /\ p.season = q.season => p = q

SeasonStatsOk(rows) ==
  /\ \A r \in rows : /\ r.counts.played \in 0..38
                     /\ r.counts.played = r.counts.won + r.counts.drawn + r.counts.lost
  /\ \A r, s \in rows : r.season = s.season /\ r.competition = s.competition => r = s

Validate(players, rows, seasons) ==
  LET goals(s) == MapThenSumSet(LAMBDA p : p.values.goals, {q \in players : q.season = s})
      league == {r \in rows : r.competition = "PL"}
  IN  /\ PlayersOk(players) /\ SeasonStatsOk(rows) /\ players # {}
      /\ Cardinality(league) = Cardinality(seasons)
      /\ \A r \in league : r.counts.for > 0 => goals(r.season) <= 2 * r.counts.for

Observed(through) == [status |-> "observed", through |-> through]
Unavailable == [status |-> "unavailable", through |-> Nothing]

\* The tables as an import leaves them.  What the deletes of the seed do not reach keeps
\* the snapshot it was loaded with.
EmitSeed(players, rows, sources) ==
  [players |-> {[person |-> p.person, season |-> p.season, name |-> p.name, exact |-> p.exact,
                 like |-> p.like, united |-> TRUE] : p \in players},
   stats |-> {[person |-> p.person, season |-> p.season, competition |-> "PL", values |-> p.values] :
                p \in players},
   seasons |-> rows, sources |-> sources]

LeagueRows(results) ==
  {[season |-> s, competition |-> "PL", counts |-> results[s]] : s \in DOMAIN results}

Sources(withPlayers, seasons, cups) ==
  [fpl |-> Observed(Max(withPlayers)), football_data_couk |-> Observed(Max(seasons)),
   openfootball_cl |-> IF cups = {} THEN Unavailable ELSE Observed(Max({r.season : r \in cups}))]

\* The whole is checked before any of it is written.
Checked(players, rows, seasons, sources) ==
  IF Validate(players, rows, seasons) THEN EmitSeed(players, rows, sources) ELSE Fatal

Parsed(frames, results, cups) ==
  IF \/ frames = <<>> \/ Fatal \in {results[s] : s \in DOMAIN results}
     \/ Fatal \in {frames[s] : s \in DOMAIN frames}
  THEN Fatal
  ELSE Checked(UNION {frames[s] : s \in DOMAIN frames}, LeagueRows(results) \cup cups, DOMAIN results,
               Sources(DOMAIN frames, DOMAIN results, cups))

\* settings: the seasons, those that are over, those of the cup, the first with players
\* and the first with xg, the rounds of the league and the known anomalies.
IngestMain(fetched, settings) ==
  Parsed([s \in {t \in settings.seasons : t >= settings.playersFrom} |->
            PlayerFrame(s, fetched.archives[s], settings.xgFrom, settings.delta[s])],
         [s \in settings.seasons |->
            LoadResults(fetched.results[s], s \in settings.complete, settings.rounds)],
         FetchAll(fetched.cups, settings.cups))

\* The snapshot is named after the bytes the seed was made of.
SnapshotId(fetched, settings) ==
  <<fetched.archives, fetched.results,
    [s \in {r.season : r \in FetchAll(fetched.cups, settings.cups)} |-> fetched.cups[s]]>>
=============================================================================
