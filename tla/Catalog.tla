-------------------------------- MODULE Catalog --------------------------------
(***************************************************************************)
(* What the site may publish.  The compiled catalog is decoded when the    *)
(* Worker starts (catalog-contract.ts), an intent is parsed and held       *)
(* against it before anything is computed (validate-intent.ts,             *)
(* feasibility.ts), and two intents that mean the same have one key        *)
(* (intent.ts).                                                            *)
(*                                                                         *)
(* A catalog is a record of sequences, as the arrays of its JSON.  Seasons *)
(* are numbers in the order their names sort; labels, units and            *)
(* attribution texts of a cell or a source are one value, its display.     *)
(***************************************************************************)
EXTENDS Integers, FiniteSets, Sequences, SequencesExt

CONSTANTS
  Nothing,   \* what is absent: null or the empty name in the code
  All,       \* the entity of an intent that ranks everybody
  Malformed  \* a field of the wrong type, an empty name or one too long

Unique(s, Key(_)) == \A i, j \in DOMAIN s : Key(s[i]) = Key(s[j]) => i = j

----------------------------------------------------------------------------
(***************************************************************************)
(* The artifact, as it is admitted when the Worker starts.                 *)
(***************************************************************************)

Granularities == {"box_score", "event_with_coords", "tracking"}
EntityTypes == {"player", "match", "season", "opponent", "competition"}
OutputIds == {"shot_map", "season_splits", "arrival_manager_groups", "manager_era_records"}
OutputStates == {"clear", "absent", "partial", "unknown"}

MetricOk(m) == m.granularity \in Granularities /\ m.decimals \in 0..6
CellOk(c) ==
  /\ c.entity_type \in EntityTypes /\ c.granularity \in Granularities
  /\ c.redistributable \in BOOLEAN /\ c.cost_class \in {"cheap", "expensive"}
OutputOk(o) == o.output_id \in OutputIds /\ o.state \in OutputStates

CellKey(c) == <<c.metric, c.entity_type, c.granularity, c.season, c.competition>>

\* One metric per id, one cell per key, each of its metric's granularity, and one
\* display, rights included, for all the cells of a source.
CoverageConsistent(metrics, coverage) ==
  /\ Unique(metrics, LAMBDA m : m.metric_id) /\ Unique(coverage, CellKey)
  /\ \A c \in ToSet(coverage) : \E m \in ToSet(metrics) :
       m.metric_id = c.metric /\ m.granularity = c.granularity
  /\ \A c, d \in ToSet(coverage) : c.source_id = d.source_id =>
       c.display = d.display /\ c.redistributable = d.redistributable

SourcesConsistent(sources, coverage) ==
  /\ Unique(sources, LAMBDA s : s.source_id)
  /\ \A s \in ToSet(sources), c \in ToSet(coverage) :
       c.source_id = s.source_id => c.display = s.display

DecodeCompiledCatalog(root) ==
  /\ root.version = 1 /\ Len(root.output_coverage) <= 4
  /\ \A m \in ToSet(root.metrics) : MetricOk(m)
  /\ \A c \in ToSet(root.coverage) : CellOk(c)
  /\ \A o \in ToSet(root.output_coverage) : OutputOk(o)
  /\ CoverageConsistent(root.metrics, root.coverage)
  /\ SourcesConsistent(root.sources, root.coverage)
  /\ Unique(root.output_coverage, LAMBDA o : o.output_id)

\* A family of outputs is usable only when the artifact says so.
OutputCapability(catalog, id) ==
  LET said == {o.state : o \in {p \in ToSet(catalog.output_coverage) : p.output_id = id}}
  IN  IF said = {} THEN "unknown" ELSE CHOOSE s \in said : TRUE

----------------------------------------------------------------------------
(***************************************************************************)
(* Intents.  A raw intent is a function of the fields it gives.            *)
(***************************************************************************)

IntentFields == {"metric", "entity_type", "entity_id", "season", "competition",
                 "dimensions", "filters", "viz", "limit"}
Defaults ==
  [entity_type |-> "player", entity_id |-> Nothing, competition |-> "PL", dimensions |-> <<>>,
   filters |-> <<>>, viz |-> "table", limit |-> 10]

WithDefaults(raw) == [f \in IntentFields |-> IF f \in DOMAIN raw THEN raw[f] ELSE Defaults[f]]

VIZ_GRANULARITY(viz) ==
  IF viz \in {"shot_map", "pass_map", "heatmap"} THEN "event_with_coords" ELSE "box_score"
Visualizations == {"table", "bar", "dot_plot", "line", "shot_map", "pass_map", "heatmap"}

\* What parseIntent says of a raw intent: "ok", or the field it refuses.
ParseIntent(raw) ==
  LET bad == {f \in DOMAIN raw : raw[f] = Malformed}
      given(f) == f \in DOMAIN raw
  IN  IF ~(DOMAIN raw \subseteq IntentFields) THEN "unsupported_field"
      ELSE IF /\ bad = {} /\ given("metric") /\ given("season")
              /\ given("entity_type") => raw.entity_type \in EntityTypes
              /\ given("viz") => raw.viz \in Visualizations
              /\ given("limit") => raw.limit \in 1..50
           THEN "ok"
           ELSE "invalid_intent"

ValidateQuerySemantics(intent) ==
  /\ intent.dimensions = <<>> /\ intent.filters = <<>>
  /\ intent.entity_type = "season" => intent.entity_id \in {Nothing, All}

ExecutableMetrics(type) ==
  CASE type = "season" -> {"goals"}
    [] type = "player" -> {"goals", "assists", "minutes", "points", "xg"}
    [] OTHER -> {}

ValidateExecutionSupport(intent) ==
  /\ ValidateQuerySemantics(intent)
  /\ intent.viz \in {"table", "bar", "dot_plot"}
  /\ intent.metric \in ExecutableMetrics(intent.entity_type)
  /\ intent.entity_type = "player" => intent.entity_id # Nothing

\* Order means nothing in dimensions and filters, and an omitted field is its default.
Canonicalize(intent) ==
  [intent EXCEPT !.dimensions = [d \in ToSet(@) |-> Cardinality({i \in DOMAIN @ : @[i] = d})],
                 !.filters = ToSet(@)]

\* The digest of the request, the snapshot and the two code versions.
ArtifactKey(intent, snapshot, code) == <<Canonicalize(intent), snapshot, code>>

----------------------------------------------------------------------------
(***************************************************************************)
(* Feasibility, which is looked up and never inferred.                     *)
(***************************************************************************)

\* "Most recent": names of seasons sort as the seasons do.
Latest(seasons) == Max(seasons)

CellFor(catalog, intent) ==
  {c \in ToSet(catalog.coverage) :
     CellKey(c) = <<intent.metric, intent.entity_type, VIZ_GRANULARITY(intent.viz),
                    intent.season, intent.competition>>}

SeasonsFor(catalog, metric, type, granularity) ==
  {c.season : c \in {d \in ToSet(catalog.coverage) :
     /\ d.metric = metric /\ d.entity_type = type /\ d.granularity = granularity
     /\ d.redistributable}}

\* Another season first, then a coarser picture, then both.
NearestAlternative(catalog, intent) ==
  LET sameMetric == {c \in ToSet(catalog.coverage) :
                       /\ c.metric = intent.metric /\ c.entity_type = intent.entity_type
                       /\ c.competition = intent.competition /\ c.redistributable}
      at(granularity) == {c.season : c \in {d \in sameMetric : d.granularity = granularity}}
      seasons == at(VIZ_GRANULARITY(intent.viz)) \ {intent.season}
      boxScore == at("box_score")
  IN  IF seasons # {} THEN [intent EXCEPT !.season = Latest(seasons)]
      ELSE IF intent.season \in boxScore THEN [intent EXCEPT !.viz = "bar"]
      ELSE IF boxScore # {} THEN [intent EXCEPT !.season = Latest(boxScore), !.viz = "bar"]
      ELSE Nothing

Verdict(state, alternative) == [state |-> state, nearest_alternative |-> alternative]

CheckFeasibility(catalog, intent, artifactExists) ==
  LET cell == CellFor(catalog, intent)
  IN  IF ~\E m \in ToSet(catalog.metrics) : m.metric_id = intent.metric
      THEN Verdict("no_data", Nothing)
      ELSE IF cell = {} THEN Verdict("no_data", NearestAlternative(catalog, intent))
      ELSE LET c == CHOOSE d \in cell : TRUE
           IN  IF ~c.redistributable THEN Verdict("no_rights", NearestAlternative(catalog, intent))
               ELSE IF artifactExists THEN Verdict("available", Nothing)
               ELSE IF c.cost_class = "expensive" THEN Verdict("computable_but_expensive", Nothing)
               ELSE Verdict("computable_now_queued", Nothing)

\* One verdict for each column of a table of metrics.
ColumnFeasibility(catalog, type, season, competition) ==
  [m \in {n.metric_id : n \in ToSet(catalog.metrics)} |->
     CheckFeasibility(catalog,
       WithDefaults([metric |-> m, entity_type |-> type, entity_id |-> All, season |-> season,
                     competition |-> competition, viz |-> "table", limit |-> 50]), FALSE)]

\* A page may be indexed when enough of its columns have a value.
HasSubstance(columns, threshold) ==
  Cardinality({m \in DOMAIN columns :
                 columns[m].state \in {"available", "computable_now_queued"}}) >= threshold
=============================================================================
