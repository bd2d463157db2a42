------------------------------- MODULE Statistics -------------------------------
(***************************************************************************)
(* What pages make of the tables one snapshot holds: the readers of        *)
(* core/db.ts, the calculators beside them, and the checks by which they   *)
(* withhold an answer that the tables do not support.                      *)
(*                                                                         *)
(* The tables of a snapshot are a record of sets of rows:                  *)
(*   players  [person, season, name, exact, like, united], with the        *)
(*            needles that equal one of its names, and those of three      *)
(*            letters or more that occur in one                            *)
(*   stats    [person, season, competition, values], by metric             *)
(*   seasons  [season, competition, counts]                                *)
(*   splits   [season, venue, opponent, counts, lineage], one per fixture  *)
(*   stages   [season, stage]                                              *)
(*   eras     [season, tenure, manager, counts], coverage a set of         *)
(*            [season, state], and the managers that have a label          *)
(*   opponents  [opponent, label]                                          *)
(*   run      the publication run, or Nothing, with the state of each of   *)
(*            its sources                                                  *)
(* A count that SQL holds as NULL is Null.  Rates are kept as fractions    *)
(* and compared exactly.                                                   *)
(***************************************************************************)
EXTENDS Catalog

CONSTANTS
  Invalid,  \* the answer of a reader that throws
  Gap       \* a season that has no row

Null == -1
TheOnly(S) == CHOOSE x \in S : TRUE
Top(n, s) == SubSeq(s, 1, Min({n, Len(s)}))

Counters == {"played", "won", "drawn", "lost", "for", "against"}
Sum(rows) == [k \in Counters |-> MapThenSumSet(LAMBDA r : r.counts[k], rows)]
Points(counts) == 3 * counts.won + counts.drawn

----------------------------------------------------------------------------
(***************************************************************************)
(* Rates.  A rate is never made of what is missing.                        *)
(***************************************************************************)

Per90(total, minutes) == IF total >= 0 /\ minutes > 0 THEN <<90 * total, minutes>> ELSE Nothing

\* The higher rate first, then more minutes, then the smaller id.
Ahead(a, b) ==
  LET left == a.total * b.minutes
      right == b.total * a.minutes
  IN  \/ left > right
      \/ left = right /\ a.minutes > b.minutes
      \/ left = right /\ a.minutes = b.minutes /\ a.person < b.person

RankComparison(rows, minimum) ==
  LET valid == {r \in rows : Per90(r.total, r.minutes) # Nothing /\ r.minutes >= minimum}
  IN  Top(50, SetToSortSeq(valid, Ahead))

----------------------------------------------------------------------------
(***************************************************************************)
(* The query: a season's record, a ranking, or one player.                 *)
(***************************************************************************)

Seen(tables, p, competition) ==
  \E s \in tables.stats : s.person = p.person /\ s.season = p.season /\ s.competition = competition

\* An exact name wins only when one person has it; a name several people answer to
\* names nobody.
ResolvePlayerIdentity(tables, needle, competition) ==
  LET rows == {p \in tables.players : Seen(tables, p, competition)}
      exact == {p.person : p \in {q \in rows : needle \in q.exact \cup {q.person}}}
      loose == exact \cup {p.person : p \in {q \in rows : needle \in q.like}}
      found == IF exact # {} THEN exact ELSE loose
  IN  IF Cardinality(found) = 1 THEN TheOnly(found) ELSE Nothing

StatRows(tables, season, competition) ==
  {s \in tables.stats : s.season = season /\ s.competition = competition}

\* The name shown is the one of that season.
NameIn(tables, person, season) ==
  TheOnly({p.name : p \in {q \in tables.players : q.person = person /\ q.season = season}})

\* The order of equals is left to SQL; here the smaller id comes first.
RankedQuery(tables, intent) ==
  LET m == intent.metric
      before(a, b) == \/ a.values[m] > b.values[m]
                      \/ a.values[m] = b.values[m] /\ a.values.minutes > b.values.minutes
                      \/ /\ a.values[m] = b.values[m] /\ a.values.minutes = b.values.minutes
                         /\ a.person < b.person
      known == {s \in StatRows(tables, intent.season, intent.competition) : s.values[m] # Null}
      rows == Top(Min({intent.limit, 50}), SetToSortSeq(known, before))
  IN  [i \in DOMAIN rows |-> [person |-> rows[i].person, value |-> rows[i].values[m],
                              label |-> NameIn(tables, rows[i].person, intent.season)]]

\* identities and tables are what the two reads of a named query saw.
RunQuery(identities, tables, intent) ==
  IF intent.entity_type = "season"
  THEN {[label |-> intent.season, value |-> s.counts] :
          s \in {t \in tables.seasons : t.season = intent.season /\ t.competition = intent.competition}}
  ELSE IF intent.entity_id = All THEN RankedQuery(tables, intent)
  ELSE LET person == ResolvePlayerIdentity(identities, intent.entity_id, intent.competition)
       IN  {[person |-> s.person, value |-> s.values[intent.metric],
             label |-> NameIn(tables, s.person, s.season)] :
              s \in {t \in StatRows(tables, intent.season, intent.competition) : t.person = person}}

----------------------------------------------------------------------------
(***************************************************************************)
(* Pages over several seasons of a player.                                 *)
(***************************************************************************)

\* One identity, every season it appears under.
PlayerCareerRows(tables, person, competition) ==
  {[season |-> s.season, values |-> s.values] :
     s \in {t \in tables.stats : t.person = person /\ t.competition = competition}}

SeasonSquadRows(tables, season, competition) ==
  SetToSortSeq({[person |-> s.person, values |-> s.values, label |-> NameIn(tables, s.person, season)] :
                  s \in StatRows(tables, season, competition)},
               LAMBDA a, b : \/ a.values.minutes > b.values.minutes
                             \/ a.values.minutes = b.values.minutes /\ a.person < b.person)

SeasonRecordRow(tables, season, competition) ==
  {s.counts : s \in {t \in tables.seasons : t.season = season /\ t.competition = competition}}

\* The latest name of each of the people who have one.
Labels(tables, people) ==
  LET seasons(person) == {p.season : p \in {q \in tables.players : q.person = person}}
  IN  [person \in {p \in people : seasons(p) # {}} |-> NameIn(tables, person, Max(seasons(person)))]

\* Whoever played in these seasons, most minutes first.
PlayerChoices(tables, seasons, limit) ==
  LET minutes(person) ==
        MapThenSumSet(LAMBDA s : s.values.minutes,
          {s \in tables.stats : s.person = person /\ s.season \in seasons /\ s.competition = "PL"})
      people == {s.person : s \in {t \in tables.stats : t.season \in seasons}}
      before(a, b) == minutes(a) > minutes(b) \/ (minutes(a) = minutes(b) /\ a < b)
  IN  Top(limit, SetToSortSeq({p \in people : minutes(p) > 0}, before))

\* A season counts only when the catalog lets both of its columns out of the one source.
Supported(catalog, metric, season) ==
  \A column \in {metric, "minutes"} : \E c \in ToSet(catalog.coverage) :
    /\ CellKey(c) = <<column, "player", "box_score", season, "PL">>
    /\ c.source_id = "fpl" /\ c.redistributable /\ c.cost_class = "cheap"

PlayerFacts(catalog, tables, people, seasons, metric) ==
  {[person |-> s.person, season |-> s.season, total |-> s.values[metric], minutes |-> s.values.minutes] :
     s \in {t \in tables.stats :
              /\ t.person \in people /\ t.season \in seasons /\ t.competition = "PL"
              /\ Supported(catalog, metric, t.season)}}

RangeRequestOk(request, known) ==
  /\ Cardinality(request.people) \in 2..5 /\ Cardinality(request.seasons) \in 1..8
  /\ request.people \subseteq known /\ request.minimum \in 0..20000

\* A cell is whole or missing: no total is summed with the minutes of another season.
RangeCell(rows, person, season) ==
  LET found == {r \in rows : r.person = person /\ r.season = season}
  IN  IF found = {} THEN "missing_row"
      ELSE IF \E r \in found : Null \in {r.total, r.minutes} THEN "missing_support" ELSE "supported"

RangePlayer(request, rows, person) ==
  LET at(season) == RangeCell(rows, person, season)
      support == {r \in rows : r.person = person /\ r.season \in request.seasons
                                 /\ at(r.season) = "supported"}
      total == IF support = {} THEN Null ELSE MapThenSumSet(LAMBDA r : r.total, support)
      minutes == MapThenSumSet(LAMBDA r : r.minutes, support)
      missing == {s \in request.seasons : at(s) # "supported"}
  IN  [person |-> person, total |-> total, minutes |-> minutes, missing |-> missing,
       rate |-> Per90(total, minutes),
       comparable |-> /\ missing = {} /\ support # {} /\ minutes >= request.minimum
                      /\ request.normalization = "per90" => minutes # 0]

\* Only players all of whose seasons are supported are ranked against each other.
CalculatePlayerRange(request, known, rows) ==
  LET players == {RangePlayer(request, rows, p) : p \in request.people}
      before(a, b) ==
        LET left == IF request.normalization = "total" THEN a.total ELSE a.total * b.minutes
            right == IF request.normalization = "total" THEN b.total ELSE b.total * a.minutes
        IN  left > right \/ (left = right /\ a.person < b.person)
      ranked == SetToSortSeq({p \in players : p.comparable}, before)
  IN  IF ~RangeRequestOk(request, known) THEN Invalid
      ELSE [players |-> players, ranked |-> [i \in DOMAIN ranked |-> ranked[i].person]]

TrendsRequestOk(request, known) ==
  /\ Cardinality(request.people) \in 1..5 /\ Cardinality(request.seasons) \in 1..8
  /\ request.people \subseteq known /\ request.minimum \in 0..20000
  /\ request.normalization = "total" => request.minimum = 0

\* Why a season of a player has no value, or that it has one.
TrendReason(found, minimum) ==
  IF found = {} THEN "missing_row"
  ELSE LET r == TheOnly(found)
       IN  CASE r.total = Null                        -> "missing_numerator"
             [] r.total # Null /\ r.minutes = Null    -> "missing_minutes"
             [] r.total # Null /\ r.minutes = 0       -> "zero_minutes"
             [] r.total # Null /\ r.minutes \in 1..(minimum - 1) -> "below_minimum"
             [] OTHER                                 -> "supported"

TrendCell(request, rows, person, season) ==
  LET found == {r \in rows : r.person = person /\ r.season = season}
      minimum == IF request.normalization = "per90" THEN request.minimum ELSE 0
      reason == TrendReason(found, minimum)
  IN  [reason |-> reason,
       value |-> IF reason # "supported" THEN Nothing
                 ELSE LET r == TheOnly(found)
                      IN  IF request.normalization = "total" THEN r.total ELSE Per90(r.total, r.minutes)]

CalculatePlayerTrends(catalog, request, known, rows) ==
  IF \/ ~TrendsRequestOk(request, known)
     \/ \E s \in request.seasons : ~Supported(catalog, request.metric, s)
  THEN Invalid
  ELSE [p \in request.people, s \in request.seasons |-> TrendCell(request, rows, p, s)]

CalculatePer90Leaders(known, season, minimum, rows) ==
  LET of(person) == {r \in rows : r.person = person /\ r.season = season}
      reason(person) == TrendReason(of(person), minimum)
      leads == UNION {of(p) : p \in {q \in known : reason(q) = "supported"}}
  IN  [leaders |-> Top(50, SetToSortSeq(leads, Ahead)),
       excluded |-> [p \in {q \in known : reason(q) # "supported"} |-> reason(p)]]

----------------------------------------------------------------------------
(***************************************************************************)
(* The comparison of a season's players, in one statement.                 *)
(***************************************************************************)

CanExecute(verdict) == verdict.state \in {"available", "computable_now_queued"}

ComparisonIntent(request) ==
  WithDefaults([metric |-> request.metric, season |-> request.season, entity_type |-> "player",
                entity_id |-> All, viz |-> "table", limit |-> 50])

\* A column is published when the catalog permits it and it is the source the SQL reads.
Covered(catalog, intent) ==
  CanExecute(CheckFeasibility(catalog, intent, FALSE)) /\
  \E c \in CellFor(catalog, intent) : c.source_id = "fpl"

\* The rate of the other metric stands beside the ranking, when it is covered too.
ExecuteComparison(catalog, tables, request) ==
  LET intent == ComparisonIntent(request)
      other == IF request.metric = "goals" THEN "assists" ELSE "goals"
      beside == Covered(catalog, [intent EXCEPT !.metric = other])
      united == {s \in StatRows(tables, request.season, "PL") :
                   \E p \in tables.players :
                     p.person = s.person /\ p.season = s.season /\ p.united}
      rows == {[person |-> s.person, total |-> s.values[request.metric], minutes |-> s.values.minutes,
                other |-> IF beside THEN s.values[other] ELSE Null] : s \in united}
  IN  IF \E m \in {request.metric, "minutes"} : ~Covered(catalog, [intent EXCEPT !.metric = m])
      THEN "coverage_or_rights_unavailable"
      ELSE IF united = {} THEN "no_rows"
      ELSE RankComparison(rows, request.minimum)

\* The metric and season a comparison page starts from, where the catalog has one.
SelectComparisonDefaults(seasons, requested, preferred) ==
  LET order == IF preferred = "assists" THEN <<"assists", "goals">> ELSE <<"goals", "assists">>
      first(Ok(_)) == SelectInSeq(order, Ok)
      matching == first(LAMBDA m : requested \in seasons[m])
      any == first(LAMBDA m : seasons[m] # {})
      metric == order[IF matching # 0 THEN matching ELSE any]
  IN  IF matching = 0 /\ any = 0 THEN Nothing
      ELSE [metric |-> metric,
            season |-> IF requested \in seasons[metric] THEN requested ELSE Latest(seasons[metric])]

----------------------------------------------------------------------------
(***************************************************************************)
(* Splits of seasons by venue or opponent.  A season counts only when its  *)
(* fixtures add up to the season's own total and each names its sources.   *)
(***************************************************************************)

SplitSources == {"football_data_couk", "fpl"}
LineageOk(r) == r.lineage # {} /\ r.lineage \subseteq SplitSources

\* The filters of a request, which the statement that reads the rows applies.
Filtered(rows, request) ==
  {r \in rows : /\ r.season \in request.seasons
                /\ request.venue \in {Nothing, r.venue} /\ request.opponent \in {Nothing, r.opponent}}

\* rows, lineage, totals and sums are what its four reads saw.
SeasonCoverage(lineage, totals, sums, season) ==
  LET of(rows) == {r \in rows : r.season = season}
      played == {t.counts.played : t \in {s \in of(totals) : s.competition = "PL"}}
  IN  IF of(sums) # {} /\ (\A r \in of(lineage) : LineageOk(r)) /\ played = {Sum(of(sums)).played}
      THEN "complete" ELSE "missing"

SeasonSplitFacts(rows, lineage, totals, sums, request) ==
  LET coverage == [s \in request.seasons |-> SeasonCoverage(lineage, totals, sums, s)]
  IN  [coverage |-> coverage,
       rows |-> {r \in Filtered(rows, request) : coverage[r.season] = "complete"}]

SplitRowOk(r) ==
  /\ r.counts.played = 1 /\ r.counts.won + r.counts.drawn + r.counts.lost = 1
  /\ r.counts.won = 1 => r.counts.for > r.counts.against
  /\ r.counts.drawn = 1 => r.counts.for = r.counts.against
  /\ r.counts.lost = 1 => r.counts.for < r.counts.against

SplitsRequestOk(request, seasons) ==
  /\ request.group_by \in {"venue", "opponent"} /\ request.venue \in {Nothing, "home", "away"}
  /\ Cardinality(request.seasons) \in 1..16 /\ request.seasons \subseteq seasons

Group(rows, key) ==
  [key |-> key, counts |-> Sum(rows), points |-> Points(Sum(rows)),
   seasons |-> {r.season : r \in rows}, lineage |-> UNION {r.lineage : r \in rows}]

QuerySeasonSplits(request, seasons, facts) ==
  LET rows == Filtered(facts.rows, request)
      keyOf(r) == IF request.group_by = "venue" THEN r.venue ELSE r.opponent
      groups == {Group({s \in rows : keyOf(s) = keyOf(r)}, keyOf(r)) : r \in rows}
      partial == \E s \in request.seasons : facts.coverage[s] # "complete"
  IN  IF ~SplitsRequestOk(request, seasons) \/ \E r \in facts.rows : ~SplitRowOk(r) THEN Invalid
      ELSE [groups |-> groups, partial |-> partial, coverage |-> facts.coverage,
            status |-> IF groups # {} THEN "available"
                       ELSE IF partial THEN "missing_capability" ELSE "no_matches"]

\* The second read of the same rows may not restore a season the first one withheld.
OpponentHistory(request, seasons, coverage, rows) ==
  LET visible == {r \in Filtered(rows, request) : coverage[r.season] # "missing"}
      of(season) == {r \in visible : r.season = season}
      contributing == {s \in request.seasons : of(s) # {}}
      partial == \E s \in request.seasons : coverage[s] # "complete"
  IN  IF \/ ~SplitsRequestOk(request, seasons) \/ request.group_by # "opponent"
         \/ request.opponent = Nothing \/ \E r \in visible : ~(SplitRowOk(r) /\ r.lineage # {})
      THEN Invalid
      ELSE [records |-> [s \in contributing |-> Sum(of(s))], combined |-> Sum(visible),
            status |-> IF partial THEN "partial"
                       ELSE IF contributing # {} THEN "available" ELSE "no_matches"]

----------------------------------------------------------------------------
(***************************************************************************)
(* Seasons side by side, in the league and in Europe, and the eras of      *)
(* managers.  A series with a hole is withheld, never drawn around it.     *)
(***************************************************************************)

LeagueCells(catalog) ==
  {c \in ToSet(catalog.coverage) :
     /\ c.metric = "goals" /\ c.entity_type = "season" /\ c.granularity = "box_score"
     /\ c.competition = "PL"}

EligibleLeagueSeasons(catalog, selected) ==
  LET cells == {c \in LeagueCells(catalog) : c.season <= selected}
  IN  IF /\ \E c \in cells : c.season = selected
         /\ \A c \in cells : c.redistributable /\ c.cost_class = "cheap"
      THEN {c.season : c \in cells} ELSE {}

SeasonRowOk(r) ==
  /\ r.counts.played \in 1..38
  /\ r.counts.played = r.counts.won + r.counts.drawn + r.counts.lost

BuildSeasonComparison(catalog, rows, eligible) ==
  LET found == {r \in rows : r.competition = "PL" /\ r.season \in eligible}
  IN  IF \/ eligible = {} \/ {r.season : r \in found} # eligible
         \/ Cardinality(found) # Cardinality(eligible) \/ \E r \in found : ~SeasonRowOk(r)
         \/ Cardinality({c.source_id : c \in {d \in LeagueCells(catalog) : d.season \in eligible}}) # 1
      THEN "unavailable"
      ELSE [s \in eligible |->
              LET r == TheOnly({q \in found : q.season = s})
              IN  [points |-> Points(r.counts), goals |-> r.counts.for, partial |-> r.counts.played < 38]]

EuropeanSeasons(catalog) ==
  {c.season : c \in {d \in ToSet(catalog.coverage) :
     /\ d.metric = "goals" /\ d.entity_type = "season" /\ d.granularity = "box_score"
     /\ d.competition = "CL" /\ d.source_id = "openfootball"}}

\* Totals come with their snapshot in one batch; stages are read after it, and one that
\* is not of that snapshot, or not the only one of its season, is left blank.
ClHistoryRows(catalog, rows, stages) ==
  LET found == {r \in rows : r.competition = "CL" /\ r.season \in EuropeanSeasons(catalog)}
      stageOf(season) == {t \in stages : t.season = season}
  IN  IF \E r \in found : r.counts.played # r.counts.won + r.counts.drawn + r.counts.lost
      THEN Invalid
      ELSE [s \in EuropeanSeasons(catalog) |->
              IF \E r \in found : r.season = s
              THEN [counts |-> TheOnly({r \in found : r.season = s}).counts,
                    stage |-> IF Cardinality(stageOf(s)) = 1 THEN TheOnly(stageOf(s)).stage ELSE Nothing]
              ELSE Gap]

\* Only the seasons whose every fixture has a manager are summed; an era whose manager
\* has no label is left out, and one cut by the selection says so.
QueryManagerEras(eras, coverage, managers, selected) ==
  LET state(season) == IF \E c \in coverage : c.season = season
                       THEN TheOnly({c \in coverage : c.season = season}).state ELSE "missing"
      of(tenure) == {e \in eras : e.tenure = tenure}
      counted(tenure) == {e \in of(tenure) : e.season \in selected /\ state(e.season) = "complete"}
      whole(tenure) == {e \in of(tenure) : e.season \in selected => state(e.season) = "complete"}
      shown == {t \in {e.tenure : e \in eras} :
                  counted(t) # {} /\ \A e \in of(t) : e.manager \in managers}
  IN  IF \E e, f \in eras : e.tenure = f.tenure /\ e.manager # f.manager THEN Invalid
      ELSE [t \in shown |-> [counts |-> Sum(counted(t)), points |-> Points(Sum(counted(t))),
                             selected_window |-> counted(t) # whole(t)]]

\* A manager and the seasons a visitor selects, or the refusal of the selection.
ParseManagerEraRequest(managers, seasons, manager, selected) ==
  LET window == IF selected = {} THEN seasons ELSE selected
      refusal == IF Cardinality(window) > 16 THEN "season_count"
                 ELSE IF ~(window \subseteq seasons) THEN "unsupported_season"
                 ELSE IF manager \notin managers \cup {Nothing} THEN "manager_not_found"
                 ELSE Nothing
  IN  [refusal |-> refusal, manager_id |-> manager, seasons |-> window]

----------------------------------------------------------------------------
(***************************************************************************)
(* How fresh the data is.                                                  *)
(***************************************************************************)

SourceIds == {"fpl", "football_data_couk", "openfootball_cl"}

\* A run's record names every source: what was observed through which season, or not at all.
CurrentPublication(run) ==
  IF /\ run # Nothing /\ DOMAIN run.sources = SourceIds /\ run.loaded >= run.prepared
     /\ \A id \in SourceIds : LET s == run.sources[id] IN
          \/ s.status = "observed" /\ s.through # Nothing
          \/ s.status = "unavailable" /\ s.through = Nothing
  THEN run ELSE Nothing

PublicationHealth(snapshot, publication) ==
  IF snapshot = Nothing THEN "unavailable"
  ELSE IF publication = Nothing \/ publication.snapshot # snapshot THEN "inconsistent"
  ELSE IF \E id \in {"fpl", "football_data_couk"} : publication.sources[id].status # "observed"
  THEN "inconsistent"
  ELSE IF publication.sources["openfootball_cl"].status = "unavailable" THEN "degraded" ELSE "current"

\* The earliest season through which the two core sources reach.
FreshnessView(snapshot, publication) ==
  LET state == PublicationHealth(snapshot, publication)
  IN  IF state \in {"inconsistent", "unavailable"} THEN [state |-> state]
      ELSE [state |-> state,
            through |-> Min({publication.sources[id].through : id \in {"fpl", "football_data_couk"}})]
=============================================================================
