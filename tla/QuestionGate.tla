------------------------------ MODULE QuestionGate ------------------------------
(***************************************************************************)
(* From a question to an intent: the gate every question meets first       *)
(* (askguard.ts), the closed language of questions about arrivals          *)
(* (discovery-arrivals.ts), the reading by rules and by the model          *)
(* (parser.ts) and what the site proposes of the two (index.ts, propose).  *)
(*                                                                         *)
(* A question is a record of what its text carries:                        *)
(*   signs     the vocabularies one of whose words it contains             *)
(*   metric, season, viz   what the rules read in it, or Nothing           *)
(*   european  whether it names the Champions League                       *)
(*   quoted    the name it quotes, or Nothing                              *)
(*   mentions  the player names of which it contains a long enough word    *)
(*   whole     those with several words that it contains as they are       *)
(*   arrival   its form in the language of arrivals, [form, date]          *)
(* It carries the sign "metric" whenever a metric is read in it: the       *)
(* gate's list of nouns contains the parser's.                             *)
(***************************************************************************)
EXTENDS Catalog

Signs == {"unsafe", "empty", "too_long", "injection", "unsupported", "other_squad", "united",
          "other_club", "metric", "intent", "season", "competition"}
Forms == {"none", "candidate", "typo", "with_origin", "pattern"}
InvalidDate == Malformed

----------------------------------------------------------------------------
(***************************************************************************)
(* Questions about arrivals.  The closed grammar knows whole questions;    *)
(* anything that only sounds like one is sent back for clarification.      *)
(***************************************************************************)

\* What is proposed for a question of this form, with the squad date selected elsewhere.
ProposeArrival(form, unreadable, date, resolved) ==
  CASE unreadable                             -> "invalid_question"
    [] ~unreadable /\ form = "none"           -> "not_applicable"
    [] ~unreadable /\ form \notin {"none", "pattern"} -> "unsupported_wording"
    [] OTHER ->
         IF InvalidDate \in {date, resolved} THEN "invalid_date"
         ELSE IF date # Nothing /\ resolved # Nothing /\ date # resolved THEN "conflicting_dates"
         ELSE IF date = Nothing /\ resolved = Nothing THEN "date_required" ELSE "proposed"

ProposeArrivalManager(q, resolved) ==
  ProposeArrival(q.arrival.form, q.signs \cap {"unsafe", "empty"} # {}, q.arrival.date, resolved)

\* A proposal is carried out only when the visitor confirms it.
ValidateArrivalIntent(q, resolved, confirmed) ==
  IF ProposeArrivalManager(q, resolved) # "proposed" THEN "clarification"
  ELSE IF confirmed THEN "accepted" ELSE "confirmation_required"

\* The gate reads a misspelt manager, and leaves out one phrase about the academy.
InArrivalScope(q) ==
  /\ q.arrival.form \in {"pattern", "typo", "with_origin"}
  /\ ProposeArrival("pattern", "unsafe" \in q.signs, q.arrival.date, Nothing)
       \in {"proposed", "date_required", "invalid_date"}

----------------------------------------------------------------------------
(***************************************************************************)
(* The gate: "allowed", or the code of the refusal.                        *)
(***************************************************************************)

GateQuestion(q, known, allowArrival) ==
  LET has(sign) == sign \in q.signs
      arrival == allowArrival /\ InArrivalScope(q)
      squad == has("other_squad") \/ (q.arrival.form = "with_origin" /\ ~arrival)
      subject == \/ q.signs \cap {"united", "metric", "season", "competition"} # {}
                 \/ q.mentions \cap known # {} \/ arrival
      statistical == q.signs \cap {"metric", "intent", "season"} # {} \/ arrival
  IN  IF has("unsafe") THEN "unsafe_input"
      ELSE IF has("empty") THEN "empty"
      ELSE IF has("too_long") THEN "too_long"
      ELSE IF has("injection") THEN "injection_attempt"
      ELSE IF has("unsupported") THEN "unsupported_semantics"
      ELSE IF squad THEN "not_mens_first_team"
      ELSE IF (has("other_club") /\ ~has("united")) \/ ~subject THEN "off_topic"
      ELSE IF ~statistical THEN "not_statistical"
      ELSE "allowed"

----------------------------------------------------------------------------
(***************************************************************************)
(* Readings of a question.                                                 *)
(***************************************************************************)

HasAmbiguousPlayerReference(q, known) ==
  /\ q.quoted = Nothing
  /\ Cardinality(q.mentions \cap known) >= 2 /\ q.whole \cap known = {}

ParseRuleBased(q, catalog) ==
  LET or(read, default) == IF read = Nothing THEN default ELSE read
      latest == Latest({c.season : c \in ToSet(catalog.coverage)})
  IN  [intent |-> WithDefaults(
         [metric |-> or(q.metric, "goals"), entity_type |-> "player",
          entity_id |-> or(q.quoted, All), season |-> or(q.season, latest),
          competition |-> IF q.european THEN "CL" ELSE "PL",
          viz |-> or(q.viz, "bar"), limit |-> 10]),
       confidence |-> IF q.metric # Nothing /\ q.season # Nothing THEN "high" ELSE "low"]

\* No failure is what stands for none.
ASSUME NoFailure == Nothing \notin {"provider_error", "invalid_output", "unsupported_intent"}

\* What Workers AI sent: it failed, it sent no JSON, or it sent a raw intent.
ProposeWithAI(output) ==
  IF output.kind = "provider_error" THEN [failure |-> "provider_error"]
  ELSE IF output.kind = "no_json" THEN [failure |-> "invalid_output"]
  ELSE IF ParseIntent(output.raw) # "ok" THEN [failure |-> "invalid_output"]
  ELSE IF ~ValidateQuerySemantics(WithDefaults(output.raw)) THEN [failure |-> "unsupported_intent"]
  ELSE [failure |-> Nothing, intent |-> WithDefaults(output.raw)]

AiModes == {"unbound", "disabled", "enabled"}

\* The rules decide what is asked; the model may only agree with them.
Propose(q, known, catalog, mode, output) ==
  LET rules == ParseRuleBased(q, catalog)
      ambiguous == HasAmbiguousPlayerReference(q, known)
      low == [rules EXCEPT !.confidence = "low"]
      ai == ProposeWithAI(output)
      agrees == /\ ai.failure = Nothing
                /\ \E m \in ToSet(catalog.metrics) : m.metric_id = ai.intent.metric
                /\ Canonicalize(ai.intent) = Canonicalize(rules.intent)
  IN  IF mode # "enabled" \/ rules.confidence = "low" \/ ambiguous
      THEN IF ambiguous THEN low ELSE rules
      ELSE IF agrees THEN [intent |-> ai.intent, confidence |-> "high"] ELSE rules
=============================================================================
