------------------------------ MODULE CatalogBuild ------------------------------
(***************************************************************************)
(* How the pipeline makes the catalog the Worker decodes, and what it      *)
(* makes of an intent itself (pipeline/contracts).  The producer's catalog *)
(* is a record of sequences:                                               *)
(*   rights    [source_id, display, redistributable, tos_snapshot, age],   *)
(*             the age in days since the terms were verified               *)
(*   metrics   as Catalog has them                                         *)
(*   coverage  as Catalog has them, without the display of the source      *)
(*                                                                         *)
(* The classes of both languages refuse the same wrong types, which are    *)
(* left out, as is the pattern of source ids.                              *)
(***************************************************************************)
EXTENDS Catalog

TOS_MAX_AGE == 365
Kept == "kept"   \* the snapshot of the terms is in the repository

RightsOf(catalog, id) == {r \in ToSet(catalog.rights) : r.source_id = id}
MetricOf(catalog, id) == {m \in ToSet(catalog.metrics) : m.metric_id = id}

\* What check_invariants of build_catalog.py has to say of a cell ...
CellSound(catalog, cell) ==
  /\ RightsOf(catalog, cell.source_id) # {} /\ MetricOf(catalog, cell.metric) # {}
  /\ \A r \in RightsOf(catalog, cell.source_id) : cell.redistributable => r.redistributable
  /\ \A m \in MetricOf(catalog, cell.metric) : m.granularity = cell.granularity

\* ... and of the terms of a source.
TermsSound(r) == r.tos_snapshot = Kept /\ r.age <= TOS_MAX_AGE

\* Nothing is left to complain about.  A metric is declared only if some cell has it.
CheckInvariants(catalog) ==
  /\ IsInjective([i \in DOMAIN catalog.rights |-> catalog.rights[i].source_id])
  /\ IsInjective([i \in DOMAIN catalog.metrics |-> catalog.metrics[i].metric_id])
  /\ IsInjective([i \in DOMAIN catalog.coverage |-> CellKey(catalog.coverage[i])])
  /\ \A cell \in ToSet(catalog.coverage) : CellSound(catalog, cell)
  /\ \A r \in ToSet(catalog.rights) : TermsSound(r)
  /\ \A m \in ToSet(catalog.metrics) : \E cell \in ToSet(catalog.coverage) : cell.metric = m.metric_id

\* The display of a source travels with each of its cells; its rights do not.
CompileForWorker(catalog) ==
  LET known(cell) == RightsOf(catalog, cell.source_id) # {}
      shown(cell) == cell @@ [display |-> (CHOOSE r \in RightsOf(catalog, cell.source_id) : TRUE).display]
      cells == SelectSeq(catalog.coverage, known)
  IN  [version |-> 1, metrics |-> catalog.metrics, coverage |-> [i \in DOMAIN cells |-> shown(cells[i])],
       sources |-> <<>>, output_coverage |-> <<>>]

\* The committed catalog is read again before a deployment (validate_public_catalog.py).
\* The first cell of a source says how it is displayed.
FirstOf(coverage, id) ==
  coverage[Min({i \in DOMAIN coverage : coverage[i].source_id = id})]

PublicOutputs == {"shot_map", "season_splits", "arrival_manager_groups"}

ValidatePublicCatalog(root) ==
  LET sources == {c.source_id : c \in ToSet(root.coverage)}
  IN  /\ root.version = 1 /\ Len(root.output_coverage) <= 3
      /\ \A m \in ToSet(root.metrics) : m.decimals \in 0..6
      /\ \A o \in ToSet(root.output_coverage) : o.output_id \in PublicOutputs
      /\ IsInjective([i \in DOMAIN root.output_coverage |-> root.output_coverage[i].output_id])
      /\ IsInjective([i \in DOMAIN root.metrics |-> root.metrics[i].metric_id])
      /\ IsInjective([i \in DOMAIN root.coverage |-> CellKey(root.coverage[i])])
      /\ \A c \in ToSet(root.coverage) :
           LET first == FirstOf(root.coverage, c.source_id)
           IN  /\ c.granularity \in {m.granularity : m \in MetricOf(root, c.metric)}
               /\ <<c.display, c.redistributable>> = <<first.display, first.redistributable>>
      /\ IsInjective([i \in DOMAIN root.sources |-> root.sources[i].source_id])
      /\ \A s \in ToSet(root.sources) :
           s.source_id \in sources => s.display = FirstOf(root.coverage, s.source_id).display

----------------------------------------------------------------------------
(***************************************************************************)
(* The producer's own resolver (feasibility.py).                           *)
(***************************************************************************)

\* Most recent first; of cells that are level, the first listed.
NewestFirst(cells) == SortSeq(cells, LAMBDA c, d : c.season > d.season)

ProducerAlternative(catalog, intent) ==
  LET same(c) == /\ c.metric = intent.metric /\ c.entity_type = intent.entity_type
                 /\ c.competition = intent.competition /\ c.redistributable
      cells == SelectSeq(catalog.coverage, same)
      shaped(c) == c.granularity = VIZ_GRANULARITY(intent.viz) /\ c.season # intent.season
      boxScore(c) == c.granularity = "box_score"
      otherSeason == SelectSeq(NewestFirst(cells), shaped)
      coarse == SelectSeq(NewestFirst(cells), boxScore)
  IN  IF otherSeason # <<>> THEN [intent EXCEPT !.season = Head(otherSeason).season]
      ELSE IF \E c \in ToSet(cells) : boxScore(c) /\ c.season = intent.season
      THEN [intent EXCEPT !.viz = "bar"]
      ELSE IF coarse # <<>> THEN [intent EXCEPT !.season = Head(coarse).season, !.viz = "bar"]
      ELSE Nothing

\* Rights are looked up again, which the Worker no longer has.
ProducerFeasibility(catalog, intent, artifactExists) ==
  LET held == CellFor(catalog, intent)
      cell == CHOOSE c \in held : TRUE
      rights == CHOOSE r \in RightsOf(catalog, cell.source_id) : TRUE
  IN  IF MetricOf(catalog, intent.metric) = {} THEN Verdict("no_data", Nothing)
      ELSE IF held = {} THEN Verdict("no_data", ProducerAlternative(catalog, intent))
      ELSE IF ~(cell.redistributable /\ rights.redistributable)
      THEN Verdict("no_rights", ProducerAlternative(catalog, intent))
      ELSE IF artifactExists THEN Verdict("available", Nothing)
      ELSE IF cell.cost_class = "expensive" THEN Verdict("computable_but_expensive", Nothing)
      ELSE Verdict("computable_now_queued", Nothing)
=============================================================================
