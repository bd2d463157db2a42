---------------------------- MODULE AnswersHonest_proofs ----------------------------
(***************************************************************************)
(* The answers of the pages, for every catalog, every sequence of          *)
(* snapshots and every number of requests: AnsweredAsAsked.                *)
(*                                                                         *)
(* Snapshots are imported in order.  A page that asks again after its      *)
(* reads finds the snapshot it named only if all of them saw that one, so  *)
(* what it made of them is what the snapshot says.  The page of trends     *)
(* asks again before its last two reads, so the names it shows may be of   *)
(* a later snapshot, and its form may offer nobody; its figures are still  *)
(* those of the snapshot it named.  The pages that do not ask again        *)
(* compare what they read: the publication names its snapshot.  The cache  *)
(* is no way around this, because what is stored was asked again before,   *)
(* and a key says which intent and snapshot the rows are of.               *)
(***************************************************************************)
EXTENDS AnswerService_proofs, FiniteSetTheorems

----------------------------------------------------------------------------
(***************************************************************************)
(* The inductive invariant.                                                *)
(***************************************************************************)

Reading == {"splits", "opponents", "range", "trends"}
Querying == {"ask", "query"}
Watching == {"cl", "health", "home"}

\* The awaits that are still to come.
Left(stages) == UNION {stages[i] : i \in 1..Len(stages)}

\* Where an await stands in its page: the breaker, the naming of the snapshot, the reads,
\* the reply, the second look at the snapshot, and what is kept.  Trends looks again before
\* it replies.
Rank(page, a) ==
  CASE a \in {"kv", "kv_put", "charge"} -> 0
    [] a = NamedBy(page)                -> 1
    [] a = "recheck"                    -> IF page = "trends" THEN 3 ELSE 5
    [] a \in {"web_names", "choices"}   -> IF page = "trends" THEN 3 ELSE 2
    [] a = "reply"                      -> 4
    [] a = "store"                      -> 6
    [] a = "save"                       -> 7
    [] OTHER                            -> 2

Awaited(page) ==
  {"kv", "kv_put", "charge", "reply", "recheck", "save", NamedBy(page)} \cup
  (IF page \in Querying THEN {"identity", "result", "store"}
   ELSE {"check", "splits", "lineage", "totals", "sums", "records", "labels", "people", "web_names",
         "facts", "choices"})

\* One await at a time, in the order of their ranks; the snapshot is named once.
Precedes(page, a, b) ==
  Rank(page, a) <= Rank(page, b) /\ ~(Rank(page, a) = 1 /\ Rank(page, b) = 1)

Phased(page, stages) ==
  /\ \A i \in 1..Len(stages) : \E a \in Awaited(page) : stages[i] = {a}
  /\ \A i, j \in 1..Len(stages) : i < j =>
       \A a \in stages[i], b \in stages[j] : Precedes(page, a, b)

\* The reads an answer is made of, up to the second look at the snapshot.
Basis(r) ==
  CASE r.page = "splits" -> {"splits", "lineage", "totals", "sums", "labels"}
    [] r.page = "opponents" -> IF OpponentsForm(r.ask) THEN {"labels"}
                               ELSE {"splits", "lineage", "totals", "sums", "records", "labels"}
    [] r.page = "range"  -> {"web_names", "facts"}
    [] r.page = "trends" -> IF r.ask = Nothing THEN {} ELSE {"people", "facts"}
    [] OTHER             -> {"identity", "result"}

\* Those after it: a page of trends reads the names of the selected and the players its form
\* offers when it has looked again.  Without a selection it is the form, and does not look.
Late(r) ==
  IF r.page # "trends" THEN {} ELSE IF r.ask = Nothing THEN {"choices"} ELSE {"web_names", "choices"}

\* The tables, had every read seen one snapshot.
AllOf(n) == [a \in TableReads |-> Tables[n]]

NameOf(call) == NamedBy(RequestOf(call).page)

\* Reads follow the naming of the snapshot, and so see it or a later one.
ReadsOK(call, imp) ==
  /\ \A a \in DOMAIN call.at : call.at[a] \in 0..imp
  /\ NameOf(call) \in DOMAIN call.at \/ DOMAIN call.at = {}
  /\ \A a \in DOMAIN call.at : call.at[NameOf(call)] <= call.at[a]

\* A named player whom nobody answers to has no row to be read.
Unfound(call) ==
  ResolvePlayerIdentity(Tables[call.at["identity"]], call.intent.entity_id, call.intent.competition) = Nothing

\* Every read of the answer was made or is to come.  The identity of a named player leads to
\* the read of the row.
QueryGathering(call) ==
  LET met(a) == a \in Left(call.stages) \cup DOMAIN call.at
  IN  IF Named(call.intent)
      THEN \/ "identity" \in Left(call.stages)
           \/ "identity" \in DOMAIN call.at /\ (met("result") \/ Unfound(call))
      ELSE met("result")

Gathering(call) ==
  IF RequestOf(call).page \in Querying THEN QueryGathering(call)
  ELSE Basis(RequestOf(call)) \cup Late(RequestOf(call)) \subseteq Left(call.stages) \cup DOMAIN call.at

\* After the reply nothing is read, and the answer is the one of what was read; after the
\* second look what was read up to it is of the snapshot that was named.
RepliedOK(call) ==
  \/ "reply" \in Left(call.stages)
  \/ /\ Left(call.stages) \cap (TableReads \cup {"name"}) = {} /\ call.answer # Invalid
     /\ call.answer = AnswerTo(RequestOf(call), call.intent, Shown(call), Saw(call))

RecheckedOK(call) ==
  \/ "recheck" \in Left(call.stages)
  \/ Basis(RequestOf(call)) = {}
  \/ /\ Left(call.stages) \cap (Basis(RequestOf(call)) \cup {NameOf(call)}) = {}
     /\ \A a \in Basis(RequestOf(call)) \cap DOMAIN call.at : call.at[a] = NamedSnapshot(call)

ComputingOK(call, imp) ==
  /\ Phased(RequestOf(call).page, call.stages) /\ ReadsOK(call, imp)
  /\ IF NameOf(call) \in Left(call.stages) THEN DOMAIN call.at = {} ELSE NameOf(call) \in DOMAIN call.at
  /\ Gathering(call) /\ RepliedOK(call) /\ RecheckedOK(call)

\* A question is asked as the rules read it, and only when they are sure of it.
IntentOK(call) ==
  LET r == RequestOf(call)
  IN  /\ call.intent = Intended(r)
      /\ r.page = "ask" =>
           /\ Nothing \notin {r.ask.metric, r.ask.season}
           /\ ~HasAmbiguousPlayerReference(r.ask, call.known)

\* A query from its question to its rows: it is being read, it is planned, it asks the
\* cache, it computes, it has no rows, or it has those of the cache.
QueryOK(call, imp) ==
  \/ /\ RequestOf(call).page = "ask" /\ call.at = <<>>
     /\ call.stages \in {<<{"names"}, {"model"}>>, <<{"model"}>>}
  \/ IntentOK(call) /\ call.at = <<>> /\ call.stages = <<{"name"}>>
  \/ /\ IntentOK(call) /\ "name" \in DOMAIN call.at /\ ReadsOK(call, imp)
     /\ \/ call.answer = NoRows /\ call.stages \in {<<>>, <<{"save"}>>}
        \/ /\ ValidateExecutionSupport(call.intent)
           /\ \/ DOMAIN call.at = {"name"} /\ call.stages = <<{"lookup"}>>
              \/ ComputingOK(call, imp)
              \/ /\ call.answer = QueryAnswer(call.intent, AllOf(NamedSnapshot(call)))
                 /\ call.stages \in {<<>>, <<{"save"}>>, <<{"recheck"}>>, <<{"recheck"}, {"save"}>>}

\* What the pages that do not ask again read, all at once and then what follows from it.
Watched(page) ==
  CASE page = "cl"     -> {"publication", "batch", "stages"}
    [] page = "health" -> {"name", "publication"}
    [] OTHER           -> {"name", "publication", "squad", "again", "career"}

WatchingOK(call, imp) ==
  LET page == RequestOf(call).page
  IN  /\ \A a \in DOMAIN call.at : call.at[a] \in 0..imp
      /\ {NameOf(call), "publication"} \subseteq Left(call.stages) \cup DOMAIN call.at
      /\ \/ \E s \in SUBSET Watched(page) : s # {} /\ call.stages = <<s, {"reply"}>>
         \/ call.stages = <<{"reply"}>>
         \/ /\ call.stages = <<>> /\ call.answer # Invalid
            /\ call.answer = AnswerTo(RequestOf(call), call.intent, Shown(call), Saw(call))

Follow(call) ==
  /\ call.outcome \in {"pending", "answered"}
  /\ RequestOf(call).page \in Reading \cup Querying \cup Watching

CallHonest(call, imp) ==
  Follow(call) =>
    /\ Enter(RequestOf(call)).outcome = "pending"
    /\ call.outcome = "answered" => call.stages = <<>>
    /\ RequestOf(call).page \in Reading => ComputingOK(call, imp)
    /\ RequestOf(call).page \in Querying => QueryOK(call, imp)
    /\ RequestOf(call).page \in Watching => WatchingOK(call, imp)

CallsHonest == \A c \in Calls : CallHonest(calls[c], imported)

\* The rows of the cache are those of the intent and the snapshot their key is made of.
CacheHonest ==
  \/ cache = NoEntry
  \/ \E i \in DOMAIN Requests, n \in Snapshots :
       LET intent == Intended(Requests[i])
       IN  /\ Requests[i].page \in Querying /\ ValidateExecutionSupport(intent)
           /\ cache.key = ArtifactKey(intent, n, "code") /\ cache.snapshot = n
           /\ cache.rows = QueryAnswer(intent, AllOf(n))

\* Only a query asks the cache and stores in it.
Elsewhere == (PlainAwaits \cup {"kv", "kv_put"}) \ {"lookup", "store"}
Apart(call) == call = Idle \/ RequestOf(call).page \in Querying \/ call.stages \in Seq(SUBSET Elsewhere)
CallsApart == \A c \in Calls : Apart(calls[c])

HInv == IInv /\ CacheHonest /\ CallsHonest /\ CallsApart

----------------------------------------------------------------------------
(***************************************************************************)
(* Stages and what is left of them.                                        *)
(***************************************************************************)

\* The first stage and the others.
LEMMA LeftTail ==
  ASSUME NEW s \in Seq(Stages), s # <<>>
  PROVE  Left(s) = Head(s) \cup Left(Tail(s)) /\ Tail(s) \in Seq(Stages)
<1> DEFINE t == Tail(s)
<1>1. /\ t \in Seq(Stages) /\ Len(s) \in Nat /\ Len(s) > 0 /\ Len(t) = Len(s) - 1
      /\ Head(s) = s[1] /\ \A i \in 1..Len(t) : t[i] = s[i + 1]
  OBVIOUS
<1>2. ASSUME NEW a, a \in Left(s)
      PROVE  a \in Head(s) \cup Left(t)
  <2>1. PICK i \in 1..Len(s) : a \in s[i]
    BY <1>2 DEF Left
  <2>2. CASE i = 1
    BY <1>1, <2>1, <2>2
  <2>3. CASE i # 1
    <3>1. i - 1 \in 1..Len(t) /\ t[i - 1] = s[i]
      BY <1>1, <2>1, <2>3
    <3> QED
      BY <2>1, <3>1 DEF Left
  <2> QED
    BY <2>2, <2>3
<1>3. ASSUME NEW a, a \in Head(s) \cup Left(t)
      PROVE  a \in Left(s)
  <2>1. CASE a \in Head(s)
    <3>1. 1 \in 1..Len(s) /\ a \in s[1]
      BY <1>1, <2>1
    <3> QED
      BY <3>1 DEF Left
  <2>2. CASE a \in Left(t)
    <3>1. PICK i \in 1..Len(t) : a \in t[i]
      BY <2>2 DEF Left
    <3>2. i + 1 \in 1..Len(s) /\ a \in s[i + 1]
      BY <1>1, <3>1
    <3> QED
      BY <3>2 DEF Left
  <2> QED
    BY <1>3, <2>1, <2>2
<1> QED
  BY <1>1, <1>2, <1>3

\* Nothing is left of no stages, and of one stage its awaits.
LEMMA LeftFew == Left(<<>>) = {} /\ \A S : Left(<<S>>) = S
<1>1. Left(<<>>) = {}
  <2>1. Len(<<>>) = 0
    OBVIOUS
  <2>2. 1..0 = {}
    OBVIOUS
  <2> QED
    BY <2>1, <2>2 DEF Left
<1>2. ASSUME NEW S
      PROVE  Left(<<S>>) = S
  <2>1. Len(<<S>>) = 1 /\ <<S>>[1] = S
    OBVIOUS
  <2>2. \A i : i \in 1..1 <=> i = 1
    OBVIOUS
  <2> QED
    BY <2>1, <2>2 DEF Left
<1> QED
  BY <1>1, <1>2

\* Stages after one another.
LEMMA LeftJoined ==
  ASSUME NEW s \in Seq(Stages), NEW t \in Seq(Stages)
  PROVE  Left(s \o t) = Left(s) \cup Left(t) /\ s \o t \in Seq(Stages)
<1>1. /\ Len(s) \in Nat /\ Len(t) \in Nat /\ s \o t \in Seq(Stages) /\ Len(s \o t) = Len(s) + Len(t)
      /\ \A i \in 1..Len(s) : (s \o t)[i] = s[i]
      /\ \A i \in 1..Len(s) + Len(t) : i > Len(s) => (s \o t)[i] = t[i - Len(s)]
  OBVIOUS
<1>2. ASSUME NEW a, a \in Left(s \o t)
      PROVE  a \in Left(s) \cup Left(t)
  <2>1. PICK i \in 1..Len(s) + Len(t) : a \in (s \o t)[i]
    BY <1>1, <1>2 DEF Left
  <2>2. CASE i \in 1..Len(s)
    BY <1>1, <2>1, <2>2 DEF Left
  <2>3. CASE i > Len(s)
    <3>1. i - Len(s) \in 1..Len(t) /\ a \in t[i - Len(s)]
      BY <1>1, <2>1, <2>3
    <3> QED
      BY <3>1 DEF Left
  <2> QED
    BY <1>1, <2>1, <2>2, <2>3
<1>3. ASSUME NEW a, a \in Left(s)
      PROVE  a \in Left(s \o t)
  <2>1. PICK i \in 1..Len(s) : a \in s[i]
    BY <1>3 DEF Left
  <2>2. i \in 1..Len(s \o t) /\ a \in (s \o t)[i]
    BY <1>1, <2>1
  <2> QED
    BY <2>2 DEF Left
<1>4. ASSUME NEW a, a \in Left(t)
      PROVE  a \in Left(s \o t)
  <2>1. PICK i \in 1..Len(t) : a \in t[i]
    BY <1>4 DEF Left
  <2>2. /\ i + Len(s) \in 1..Len(s \o t) /\ i + Len(s) \in 1..Len(s) + Len(t)
        /\ i + Len(s) > Len(s) /\ (i + Len(s)) - Len(s) = i
    BY <1>1, <2>1
  <2>3. (s \o t)[i + Len(s)] = t[i]
    BY <1>1, <2>2
  <2> QED
    BY <2>1, <2>2, <2>3 DEF Left
<1> QED
  BY <1>1, <1>2, <1>3, <1>4

\* One await is in order.
LEMMA PhasedOne ==
  ASSUME NEW page, NEW a \in Awaited(page)
  PROVE  Phased(page, <<{a}>>)
<1>1. Len(<<{a}>>) = 1 /\ <<{a}>>[1] = {a}
  OBVIOUS
<1>2. \A i : i \in 1..1 <=> i = 1
  OBVIOUS
<1>3. \A i, j \in 1..1 : ~(i < j)
  BY <1>2
<1> QED
  BY <1>1, <1>2, <1>3 DEF Phased

\* Stages of higher ranks may follow.
LEMMA PhasedJoined ==
  ASSUME NEW page, NEW s \in Seq(Stages), NEW t \in Seq(Stages), Phased(page, s), Phased(page, t),
         \A a \in Left(s), b \in Left(t) : Precedes(page, a, b)
  PROVE  Phased(page, s \o t)
<1> DEFINE st == s \o t
<1>1. /\ Len(s) \in Nat /\ Len(t) \in Nat /\ Len(st) = Len(s) + Len(t)
      /\ \A i \in 1..Len(s) : st[i] = s[i]
      /\ \A i \in 1..Len(s) + Len(t) : i > Len(s) => st[i] = t[i - Len(s)]
  OBVIOUS
<1> HIDE DEF st
<1>2. \A i \in 1..Len(st) : i \in 1..Len(s) \/ (i > Len(s) /\ i - Len(s) \in 1..Len(t))
  BY <1>1
<1>3. ASSUME NEW i \in 1..Len(st)
      PROVE  \E a \in Awaited(page) : st[i] = {a}
  <2>1. CASE i \in 1..Len(s)
    BY <1>1, <2>1 DEF Phased
  <2>2. CASE i > Len(s) /\ i - Len(s) \in 1..Len(t)
    <3>1. st[i] = t[i - Len(s)]
      BY <1>1, <2>2
    <3> QED
      BY <2>2, <3>1 DEF Phased
  <2> QED
    BY <1>2, <2>1, <2>2
<1>4. ASSUME NEW i \in 1..Len(st), NEW j \in 1..Len(st), i < j, NEW a \in st[i], NEW b \in st[j]
      PROVE  Precedes(page, a, b)
  <2>1. CASE i \in 1..Len(s) /\ j \in 1..Len(s)
    <3>1. a \in s[i] /\ b \in s[j]
      BY <1>1, <2>1
    <3> QED
      BY <1>4, <2>1, <3>1 DEF Phased
  <2>2. CASE i \in 1..Len(s) /\ j > Len(s) /\ j - Len(s) \in 1..Len(t)
    <3>1. a \in s[i] /\ b \in t[j - Len(s)]
      BY <1>1, <2>2
    <3>2. a \in Left(s) /\ b \in Left(t)
      BY <2>2, <3>1 DEF Left
    <3> QED
      BY <3>2
  <2>3. CASE i > Len(s) /\ i - Len(s) \in 1..Len(t) /\ j > Len(s) /\ j - Len(s) \in 1..Len(t)
    <3>1. a \in t[i - Len(s)] /\ b \in t[j - Len(s)]
      BY <1>1, <2>3
    <3>2. i - Len(s) < j - Len(s)
      BY <1>1, <1>4
    <3> QED
      BY <2>3, <3>1, <3>2 DEF Phased
  <2>4. ~(i > Len(s) /\ j \in 1..Len(s))
    BY <1>1, <1>4
  <2> QED
    BY <1>2, <2>1, <2>2, <2>3, <2>4
<1>5. Phased(page, st)
  BY <1>3, <1>4 DEF Phased
<1> QED
  BY <1>5 DEF st

\* The await at the head comes before what is left after it.
LEMMA Popped ==
  ASSUME NEW page, NEW s \in Seq(Stages), Phased(page, s), s # <<>>
  PROVE  \E a \in Awaited(page) :
           /\ Head(s) = {a} /\ Phased(page, Tail(s)) /\ Tail(s) \in Seq(Stages)
           /\ Left(s) = {a} \cup Left(Tail(s))
           /\ \A b \in Left(Tail(s)) : Precedes(page, a, b)
<1> DEFINE t == Tail(s)
<1>1. /\ t \in Seq(Stages) /\ Len(s) \in Nat /\ Len(s) > 0 /\ Len(t) = Len(s) - 1
      /\ Head(s) = s[1] /\ 1 \in 1..Len(s)
      /\ \A i \in 1..Len(t) : i + 1 \in 1..Len(s) /\ 1 < i + 1 /\ t[i] = s[i + 1]
  OBVIOUS
<1>2. PICK a \in Awaited(page) : Head(s) = {a}
  BY <1>1 DEF Phased
<1>3. Left(s) = {a} \cup Left(t)
  BY <1>2, LeftTail
<1> HIDE DEF t
<1>4. Phased(page, t)
  <2>1. \A i \in 1..Len(t) : \E x \in Awaited(page) : t[i] = {x}
    BY <1>1 DEF Phased
  <2>2. ASSUME NEW i \in 1..Len(t), NEW j \in 1..Len(t), i < j, NEW x \in t[i], NEW y \in t[j]
        PROVE  Precedes(page, x, y)
    <3>1. i + 1 \in 1..Len(s) /\ j + 1 \in 1..Len(s) /\ x \in s[i + 1] /\ y \in s[j + 1] /\ i + 1 < j + 1
      BY <1>1, <2>2
    <3> QED
      BY <3>1 DEF Phased
  <2> QED
    BY <2>1, <2>2 DEF Phased
<1>5. ASSUME NEW b \in Left(t)
      PROVE  Precedes(page, a, b)
  <2>1. PICK i \in 1..Len(t) : b \in t[i]
    BY <1>5 DEF Left
  <2>2. b \in s[i + 1] /\ a \in s[1] /\ i + 1 \in 1..Len(s) /\ 1 < i + 1
    BY <1>1, <1>2, <2>1
  <2> QED
    BY <1>1, <2>2 DEF Phased
<1> QED
  BY <1>1, <1>2, <1>3, <1>4, <1>5 DEF t

----------------------------------------------------------------------------
(***************************************************************************)
(* The stages of the pages that ask again.                                 *)
(***************************************************************************)

Again == Reading \cup Querying

\* The snapshot is named by one of two reads.
LEMMA NamesOf ==
  /\ NamedBy("splits") = "publication" /\ NamedBy("opponents") = "publication"
  /\ \A page \in {"range", "trends", "ask", "query", "home", "health"} : NamedBy(page) = "name"
  /\ NamedBy("cl") = "batch"
  BY DEF NamedBy

\* The ranks of the awaits of these pages.
LEMMA Ranks ==
  ASSUME NEW page \in Again
  PROVE  /\ NamedBy(page) \in {"name", "publication"} /\ Rank(page, NamedBy(page)) = 1
         /\ \A a \in {"kv", "kv_put", "charge"} : Rank(page, a) = 0
         /\ \A a \in {"check", "identity", "result", "splits", "lineage", "totals", "sums", "records",
                      "labels", "people", "facts"} : Rank(page, a) = 2
         /\ \A a \in {"web_names", "choices"} : Rank(page, a) = IF page = "trends" THEN 3 ELSE 2
         /\ Rank(page, "recheck") = IF page = "trends" THEN 3 ELSE 5
         /\ Rank(page, "reply") = 4 /\ Rank(page, "store") = 6 /\ Rank(page, "save") = 7
<1>1. NamedBy(page) \in {"name", "publication"}
  BY NamesOf DEF Again, Reading, Querying
<1>2. /\ Rank(page, NamedBy(page)) = 1
      /\ Rank(page, "recheck") = IF page = "trends" THEN 3 ELSE 5
      /\ Rank(page, "reply") = 4 /\ Rank(page, "store") = 6 /\ Rank(page, "save") = 7
  BY <1>1 DEF Rank
<1>3. \A a \in {"kv", "kv_put", "charge"} : Rank(page, a) = 0
  BY <1>1 DEF Rank
<1>4. \A a \in {"check", "identity", "result", "splits", "lineage", "totals", "sums", "records",
                "labels", "people", "facts"} : Rank(page, a) = 2
  BY <1>1 DEF Rank
<1>5. \A a \in {"web_names", "choices"} : Rank(page, a) = IF page = "trends" THEN 3 ELSE 2
  BY <1>1 DEF Rank
<1> QED
  BY <1>1, <1>2, <1>3, <1>4, <1>5

\* An await of theirs is a stage of the Worker.
LEMMA AwaitedStages ==
  ASSUME NEW page \in Again, NEW a \in Awaited(page)
  PROVE  {a} \in Stages /\ Rank(page, a) \in Nat
<1>1. a \in PlainAwaits \cup {"kv", "kv_put"}
  BY Ranks DEF Awaited, PlainAwaits, TableReads
<1>2. Rank(page, a) \in Nat
  BY Ranks DEF Awaited
<1> QED
  BY <1>1, <1>2 DEF Stages

\* A part of a page's stages, whose ranks are within bounds.
Part(page, s, low, high) ==
  /\ s \in Seq(Stages) /\ Phased(page, s)
  /\ \A a \in Left(s) : Rank(page, a) \in low..high

\* Parts follow one another.
LEMMA PartsJoined ==
  ASSUME NEW page \in Again, NEW s, NEW t, NEW low \in Nat, NEW middle \in Nat, NEW next \in Nat, NEW high \in Nat,
         Part(page, s, low, middle), Part(page, t, next, high), middle <= next, low <= next, middle <= high,
         ~(middle = 1 /\ next = 1)
  PROVE  Part(page, s \o t, low, high) /\ Left(s \o t) = Left(s) \cup Left(t)
<1>1. s \in Seq(Stages) /\ t \in Seq(Stages)
  BY DEF Part
<1>2. Left(s \o t) = Left(s) \cup Left(t) /\ s \o t \in Seq(Stages)
  BY <1>1, LeftJoined
<1>3. \A a \in Left(s), b \in Left(t) : Precedes(page, a, b)
  BY DEF Part, Precedes
<1>4. Phased(page, s \o t)
  BY <1>1, <1>3, PhasedJoined DEF Part
<1>5. \A a \in Left(s) \cup Left(t) : Rank(page, a) \in low..high
  BY DEF Part
<1> QED
  BY <1>2, <1>4, <1>5 DEF Part

\* Tuples joined.
LEMMA JoinLiterals ==
  /\ \A a, b : <<a, b>> = <<a>> \o <<b>>
  /\ \A a, b, c : <<a, b, c>> = <<a, b>> \o <<c>>
<1>1. ASSUME NEW a, NEW b
      PROVE  <<a, b>> = <<a>> \o <<b>>
  <2> DEFINE st == <<a>> \o <<b>>
  <2>1. <<a>> \in Seq({a, b}) /\ <<b>> \in Seq({a, b})
    OBVIOUS
  <2>2. Len(<<a>>) = 1 /\ Len(<<b>>) = 1 /\ Len(st) = 2 /\ st \in Seq({a, b})
    BY <2>1
  <2>3. st[1] = a /\ st[2] = b
    BY <2>1, <2>2
  <2> HIDE DEF st
  <2>4. st = <<st[1], st[2]>>
    BY <2>2
  <2> QED
    BY <2>3, <2>4 DEF st
<1>2. ASSUME NEW a, NEW b, NEW c
      PROVE  <<a, b, c>> = <<a, b>> \o <<c>>
  OBVIOUS
<1> QED
  BY <1>1, <1>2

\* Up to three awaits.
LEMMA PartOfOne ==
  ASSUME NEW page \in Again, NEW a \in Awaited(page)
  PROVE  Part(page, <<{a}>>, Rank(page, a), Rank(page, a)) /\ Left(<<{a}>>) = {a}
<1>1. <<{a}>> \in Seq(Stages)
  BY AwaitedStages
<1>2. Left(<<{a}>>) = {a}
  BY LeftFew
<1> QED
  BY <1>1, <1>2, PhasedOne, AwaitedStages DEF Part

\* Two of them.
LEMMA PartOfTwo ==
  ASSUME NEW page \in Again, NEW a \in Awaited(page), NEW b \in Awaited(page),
         Rank(page, a) <= Rank(page, b), ~(Rank(page, a) = 1 /\ Rank(page, b) = 1)
  PROVE  Part(page, <<{a}, {b}>>, Rank(page, a), Rank(page, b)) /\ Left(<<{a}, {b}>>) = {a, b}
<1>1. Rank(page, a) \in Nat /\ Rank(page, b) \in Nat
  BY AwaitedStages
<1>2. /\ Part(page, <<{a}>>, Rank(page, a), Rank(page, a)) /\ Left(<<{a}>>) = {a}
      /\ Part(page, <<{b}>>, Rank(page, b), Rank(page, b)) /\ Left(<<{b}>>) = {b}
  BY PartOfOne
<1> DEFINE low == Rank(page, a)
           high == Rank(page, b)
           s == <<{a}>>
           t == <<{b}>>
<1> HIDE DEF low, high, s, t
<1>3. Part(page, s \o t, low, high) /\ Left(s \o t) = Left(s) \cup Left(t)
  <2>1. /\ Part(page, s, low, low) /\ Part(page, t, high, high) /\ low \in Nat /\ high \in Nat /\ low <= high
        /\ ~(low = 1 /\ high = 1)
    BY <1>1, <1>2 DEF low, high, s, t
  <2> QED
    BY <2>1, PartsJoined
<1>4. s \o t = <<{a}, {b}>>
  BY JoinLiterals, Zenon DEF s, t
<1> QED
  BY <1>2, <1>3, <1>4 DEF low, high, s, t

\* Three of them.
LEMMA PartOfThree ==
  ASSUME NEW page \in Again, NEW a \in Awaited(page), NEW b \in Awaited(page), NEW c \in Awaited(page),
         Rank(page, a) <= Rank(page, b), Rank(page, b) <= Rank(page, c),
         ~(Rank(page, a) = 1 /\ Rank(page, b) = 1), ~(Rank(page, b) = 1 /\ Rank(page, c) = 1)
  PROVE  /\ Part(page, <<{a}, {b}, {c}>>, Rank(page, a), Rank(page, c))
         /\ Left(<<{a}, {b}, {c}>>) = {a, b, c}
<1>1. Rank(page, a) \in Nat /\ Rank(page, b) \in Nat /\ Rank(page, c) \in Nat
  BY AwaitedStages
<1>2. /\ Part(page, <<{a}, {b}>>, Rank(page, a), Rank(page, b)) /\ Left(<<{a}, {b}>>) = {a, b}
      /\ Part(page, <<{c}>>, Rank(page, c), Rank(page, c)) /\ Left(<<{c}>>) = {c}
  BY PartOfOne, PartOfTwo
<1> DEFINE low == Rank(page, a)
           middle == Rank(page, b)
           high == Rank(page, c)
           s == <<{a}, {b}>>
           t == <<{c}>>
<1> HIDE DEF low, middle, high, s, t
<1>3. Part(page, s \o t, low, high) /\ Left(s \o t) = Left(s) \cup Left(t)
  <2>1. /\ Part(page, s, low, middle) /\ Part(page, t, high, high) /\ low \in Nat /\ middle \in Nat
        /\ high \in Nat /\ low <= middle /\ middle <= high /\ low <= high /\ ~(middle = 1 /\ high = 1)
    BY <1>1, <1>2 DEF low, middle, high, s, t
  <2> QED
    BY <2>1, PartsJoined
<1>4. s \o t = <<{a}, {b}, {c}>>
  <2> DEFINE A == {a}
             B == {b}
             C == {c}
  <2> HIDE DEF A, B, C
  <2>1. <<A, B, C>> = <<A, B>> \o <<C>>
    OBVIOUS
  <2> QED
    BY <2>1 DEF s, t, A, B, C
<1> QED
  BY <1>2, <1>3, <1>4 DEF low, high, s, t

\* The breaker comes first, what is kept comes last.
LEMMA PartOfEnds ==
  ASSUME NEW page \in Again
  PROVE  /\ Part(page, Breaker, 0, 0) /\ Left(Breaker) = {"kv", "kv_put", "charge"}
         /\ \A account : Part(page, Saving(account), 7, 7) /\ Left(Saving(account)) \subseteq {"save"}
<1>1. {"kv", "kv_put", "charge", "save"} \subseteq Awaited(page)
  BY DEF Awaited
<1>2. /\ Part(page, <<{"kv"}, {"kv_put"}, {"charge"}>>, Rank(page, "kv"), Rank(page, "charge"))
      /\ Left(<<{"kv"}, {"kv_put"}, {"charge"}>>) = {"kv", "kv_put", "charge"}
  BY <1>1, Ranks, PartOfThree
<1>3. Part(page, <<>>, 7, 7) /\ Left(<<>>) = {}
  <2>1. <<>> \in Seq(Stages) /\ Len(<<>>) = 0
    OBVIOUS
  <2>2. 1..0 = {}
    OBVIOUS
  <2> QED
    BY <2>1, <2>2, LeftFew DEF Part, Phased
<1>4. Part(page, <<{"save"}>>, Rank(page, "save"), Rank(page, "save")) /\ Left(<<{"save"}>>) = {"save"}
  BY <1>1, PartOfOne
<1> QED
  BY <1>2, <1>3, <1>4, Ranks DEF Breaker, Saving

\* The answers are made of reads of this page.
LEMMA BasisAwaited ==
  ASSUME NEW r, r.page \in Again
  PROVE  /\ Basis(r) \cup Late(r) \subseteq Awaited(r.page) \cap TableReads
         /\ \A a \in Basis(r) : Rank(r.page, a) = 2
<1>1. Basis(r) \subseteq {"splits", "lineage", "totals", "sums", "records", "labels", "web_names", "facts",
                          "people", "identity", "result"}
  BY DEF Basis, Again, Reading, Querying
<1>2. r.page \in Querying => Basis(r) = {"identity", "result"}
  BY DEF Basis, Querying
<1>3. r.page \in Reading => Basis(r) \cap {"identity", "result"} = {}
  BY DEF Basis, Reading
<1>4. r.page = "trends" => Basis(r) \subseteq {"people", "facts"}
  BY DEF Basis
<1>5. Basis(r) \subseteq Awaited(r.page) \cap TableReads
  <2>1. CASE r.page \in Querying
    BY <1>2, <2>1 DEF Awaited, TableReads
  <2>2. CASE r.page \in Reading
    <3>1. r.page \notin Querying
      BY <2>2 DEF Reading, Querying
    <3> QED
      BY <1>1, <1>3, <3>1, <2>2 DEF Awaited, TableReads
  <2> QED
    BY <2>1, <2>2 DEF Again
<1>6. \A a \in Basis(r) : Rank(r.page, a) = 2
  BY <1>1, <1>4, Ranks
<1>7. Late(r) \subseteq Awaited(r.page) \cap TableReads
  BY DEF Late, Awaited, TableReads, Querying
<1> QED
  BY <1>5, <1>6, <1>7

\* The reads by which the splits are checked against the totals of their seasons.
LEMMA PartOfSplits ==
  ASSUME NEW page \in {"splits", "opponents"}
  PROVE  /\ Part(page, SplitReads, 2, 2)
         /\ Left(SplitReads) = {"check", "splits", "lineage", "totals", "sums"}
<1> DEFINE s == <<{"check"}, {"splits"}, {"lineage"}>>
           t == <<{"totals"}, {"sums"}, {"check"}>>
<1>1. {"check", "splits", "lineage", "totals", "sums"} \subseteq Awaited(page) /\ page \in Again
  BY DEF Awaited, Querying, Again, Reading
<1>2. \A a \in {"check", "splits", "lineage", "totals", "sums"} : Rank(page, a) = 2
  BY <1>1, Ranks
<1>3. Part(page, s, 2, 2) /\ Left(s) = {"check", "splits", "lineage"}
  BY <1>1, <1>2, PartOfThree
<1>4. Part(page, t, 2, 2) /\ Left(t) = {"totals", "sums", "check"}
  BY <1>1, <1>2, PartOfThree
<1>5. SplitReads = s \o t
  <2> DEFINE A == {"check"}
             B == {"splits"}
             C == {"lineage"}
             D == {"totals"}
             E == {"sums"}
  <2> HIDE DEF A, B, C, D, E
  <2>1. <<A, B, C, D, E, A>> = <<A, B, C>> \o <<D, E, A>>
    OBVIOUS
  <2> QED
    BY <2>1 DEF SplitReads, A, B, C, D, E
<1> HIDE DEF s, t
<1>6. Part(page, s \o t, 2, 2) /\ Left(s \o t) = Left(s) \cup Left(t)
  BY <1>1, <1>3, <1>4, PartsJoined
<1> QED
  BY <1>3, <1>4, <1>5, <1>6

\* What a page that asks again has before it, in order and complete.
Whole(r, stages) ==
  /\ stages \in Seq(Stages) /\ Phased(r.page, stages)
  /\ {NamedBy(r.page), "reply"} \cup Basis(r) \cup Late(r) \subseteq Left(stages)
  /\ "recheck" \in Left(stages) \/ Basis(r) = {}

\* The splits page.
LEMMA SplitsWhole ==
  ASSUME NEW r, r.page = "splits", Enter(r).outcome = "pending"
  PROVE  Whole(r, Enter(r).stages)
<1> DEFINE page == "splits"
           one == Breaker \o <<{"publication"}>>
           two == one \o SplitReads
           last == <<{"labels"}, {"reply"}, {"recheck"}>>
<1>1. Enter(r).stages = two \o last
  BY DEF Enter, SplitsPage, Refusal, Static, Reads
<1>2. /\ page \in Again /\ {"publication", "labels", "reply", "recheck"} \subseteq Awaited(page)
      /\ Rank(page, "publication") = 1
  <2>1. page \in Again
    BY DEF Again, Reading
  <2> QED
    BY <2>1, NamesOf, Ranks DEF Awaited, Querying
<1>3. Part(page, <<{"publication"}>>, 1, 1) /\ Left(<<{"publication"}>>) = {"publication"}
  BY <1>2, PartOfOne
<1>4. Part(page, last, 2, 5) /\ Left(last) = {"labels", "reply", "recheck"}
  BY <1>2, Ranks, PartOfThree
<1>5. Part(page, SplitReads, 2, 2) /\ Left(SplitReads) = {"check", "splits", "lineage", "totals", "sums"}
  BY PartOfSplits
<1>6. Part(page, Breaker, 0, 0)
  BY <1>2, PartOfEnds
<1> HIDE DEF page, last
<1>7. Part(page, one, 0, 1) /\ {"publication"} \subseteq Left(one)
  BY <1>2, <1>3, <1>6, PartsJoined
<1> HIDE DEF one
<1>8. Part(page, two, 0, 2) /\ Left(two) = Left(one) \cup Left(SplitReads)
  BY <1>2, <1>5, <1>7, PartsJoined
<1> HIDE DEF two
<1>9. Part(page, two \o last, 0, 5) /\ Left(two \o last) = Left(two) \cup Left(last)
  BY <1>2, <1>4, <1>8, PartsJoined
<1>10. /\ Basis(r) = {"splits", "lineage", "totals", "sums", "labels"} /\ Late(r) = {}
       /\ NamedBy(r.page) = "publication"
  BY NamesOf DEF Basis, Late
<1> QED
  BY <1>1, <1>3, <1>4, <1>5, <1>7, <1>8, <1>9, <1>10 DEF Whole, Part, page

\* The page of one opponent.
LEMMA OpponentsWhole ==
  ASSUME NEW r, r.page = "opponents", Enter(r).outcome = "pending"
  PROVE  Whole(r, Enter(r).stages)
<1> DEFINE page == "opponents"
           one == Breaker \o <<{"publication"}>>
           reads == IF OpponentsForm(r.ask) THEN <<>> ELSE SplitReads \o <<{"records"}>>
           two == one \o reads
           last == <<{"labels"}, {"reply"}, {"recheck"}>>
<1>1. Enter(r).stages = two \o last
  <2>1. OpponentsPage(r.ask) \in {Refusal, Static, Reads(two \o last)}
    BY DEF OpponentsPage
  <2>2. Enter(r) = OpponentsPage(r.ask)
    BY DEF Enter
  <2> HIDE DEF two, last
  <2> QED
    BY <2>1, <2>2 DEF Refusal, Static, Reads
<1>2. /\ page \in Again /\ {"publication", "labels", "reply", "recheck", "records"} \subseteq Awaited(page)
      /\ Rank(page, "publication") = 1
  <2>1. page \in Again
    BY DEF Again, Reading
  <2> QED
    BY <2>1, NamesOf, Ranks DEF Awaited, Querying
<1>3. Part(page, <<{"publication"}>>, 1, 1) /\ Left(<<{"publication"}>>) = {"publication"}
  BY <1>2, PartOfOne
<1>4. Part(page, last, 2, 5) /\ Left(last) = {"labels", "reply", "recheck"}
  BY <1>2, Ranks, PartOfThree
<1>5. /\ Part(page, reads, 2, 2)
      /\ OpponentsForm(r.ask) \/ {"splits", "lineage", "totals", "sums", "records"} \subseteq Left(reads)
  <2>1. CASE OpponentsForm(r.ask)
    <3>1. reads = <<>>
      BY <2>1
    <3>2. <<>> \in Seq(Stages) /\ Len(<<>>) = 0 /\ Left(<<>>) = {}
      BY LeftFew
    <3>3. 1..0 = {}
      OBVIOUS
    <3> HIDE DEF reads
    <3> QED
      BY <2>1, <3>1, <3>2, <3>3 DEF Part, Phased
  <2>2. CASE ~OpponentsForm(r.ask)
    <3>1. /\ Part(page, SplitReads, 2, 2)
          /\ Left(SplitReads) = {"check", "splits", "lineage", "totals", "sums"}
      BY PartOfSplits
    <3>2. Part(page, <<{"records"}>>, 2, 2) /\ Left(<<{"records"}>>) = {"records"}
      BY <1>2, Ranks, PartOfOne
    <3>3. /\ Part(page, SplitReads \o <<{"records"}>>, 2, 2)
          /\ Left(SplitReads \o <<{"records"}>>) = Left(SplitReads) \cup Left(<<{"records"}>>)
      BY <1>2, <3>1, <3>2, PartsJoined
    <3> QED
      BY <2>2, <3>1, <3>2, <3>3
  <2> QED
    BY <2>1, <2>2
<1>6. Part(page, Breaker, 0, 0)
  BY <1>2, PartOfEnds
<1> HIDE DEF page, last, reads
<1>7. Part(page, one, 0, 1) /\ {"publication"} \subseteq Left(one)
  BY <1>2, <1>3, <1>6, PartsJoined
<1> HIDE DEF one
<1>8. Part(page, two, 0, 2) /\ Left(two) = Left(one) \cup Left(reads)
  BY <1>2, <1>5, <1>7, PartsJoined
<1> HIDE DEF two
<1>9. Part(page, two \o last, 0, 5) /\ Left(two \o last) = Left(two) \cup Left(last)
  BY <1>2, <1>4, <1>8, PartsJoined
<1>10. /\ Basis(r) = IF OpponentsForm(r.ask) THEN {"labels"}
                     ELSE {"splits", "lineage", "totals", "sums", "records", "labels"}
       /\ Late(r) = {} /\ NamedBy(r.page) = "publication"
  BY NamesOf DEF Basis, Late
<1> QED
  BY <1>1, <1>3, <1>4, <1>5, <1>7, <1>8, <1>9, <1>10 DEF Whole, Part, page

\* A range of seasons.
LEMMA RangeWhole ==
  ASSUME NEW r, r.page = "range", Enter(r).outcome = "pending"
  PROVE  Whole(r, Enter(r).stages)
<1> DEFINE page == "range"
           named == <<{"name"}, {"people"}, {"web_names"}>>
           rest == <<{"facts"}, {"reply"}, {"recheck"}>>
           reads == <<{"name"}, {"people"}, {"web_names"}, {"facts"}, {"reply"}, {"recheck"}>>
           one == Breaker \o reads
           save == Saving(r.account)
<1>1. Enter(r).stages = one \o save
  <2>1. RangePage(r.ask, r.account) \in {Refusal, Reads(one \o save)}
    BY DEF RangePage
  <2>2. Enter(r) = RangePage(r.ask, r.account)
    BY DEF Enter
  <2> HIDE DEF one, save
  <2> QED
    BY <2>1, <2>2 DEF Refusal, Reads
<1>2. /\ page \in Again /\ page # "trends" /\ Rank(page, "name") = 1
      /\ {"name", "people", "web_names", "facts", "reply", "recheck"} \subseteq Awaited(page)
  <2>1. page \in Again
    BY DEF Again, Reading
  <2> QED
    BY <2>1, NamesOf, Ranks DEF Awaited, Querying
<1>3. /\ Rank(page, "people") = 2 /\ Rank(page, "web_names") = 2 /\ Rank(page, "facts") = 2
      /\ Rank(page, "reply") = 4 /\ Rank(page, "recheck") = 5
  BY <1>2, Ranks
<1>4. Part(page, named, 1, 2) /\ Left(named) = {"name", "people", "web_names"}
  BY <1>2, <1>3, PartOfThree
<1>5. Part(page, rest, 2, 5) /\ Left(rest) = {"facts", "reply", "recheck"}
  BY <1>2, <1>3, PartOfThree
<1>6. reads = named \o rest
  <2> DEFINE A == {"name"}
             B == {"people"}
             C == {"web_names"}
             D == {"facts"}
             E == {"reply"}
             F == {"recheck"}
  <2> HIDE DEF A, B, C, D, E, F
  <2>1. <<A, B, C, D, E, F>> = <<A, B, C>> \o <<D, E, F>>
    OBVIOUS
  <2> QED
    BY <2>1 DEF A, B, C, D, E, F
<1>7. Part(page, Breaker, 0, 0) /\ Part(page, save, 7, 7)
  BY <1>2, PartOfEnds
<1> HIDE DEF page, named, rest, reads, save
<1>8. Part(page, named \o rest, 1, 5) /\ Left(named \o rest) = Left(named) \cup Left(rest)
  BY <1>2, <1>4, <1>5, PartsJoined
<1>9. Part(page, reads, 1, 5) /\ Left(reads) = Left(named) \cup Left(rest)
  BY <1>6, <1>8
<1>10. Part(page, one, 0, 5) /\ Left(one) = Left(Breaker) \cup Left(reads)
  BY <1>2, <1>7, <1>9, PartsJoined
<1> HIDE DEF one
<1>11. Part(page, one \o save, 0, 7) /\ Left(one \o save) = Left(one) \cup Left(save)
  BY <1>2, <1>7, <1>10, PartsJoined
<1>12. Basis(r) = {"web_names", "facts"} /\ Late(r) = {} /\ NamedBy(r.page) = "name"
  BY NamesOf DEF Basis, Late
<1> QED
  BY <1>1, <1>4, <1>5, <1>9, <1>10, <1>11, <1>12 DEF Whole, Part, page

\* The trends of players, once some are selected.
LEMMA TrendsWhole ==
  ASSUME NEW r, r.page = "trends", r.ask # Nothing, Enter(r).outcome = "pending"
  PROVE  Whole(r, Enter(r).stages)
<1> DEFINE page == "trends"
           first == <<{"name"}, {"people"}, {"check"}>>
           second == <<{"facts"}, {"check"}, {"check"}>>
           third == <<{"recheck"}, {"web_names"}, {"choices"}>>
           last == <<{"reply"}>>
           reads == <<{"name"}, {"people"}, {"check"}, {"facts"}, {"check"}, {"check"}, {"recheck"},
                      {"web_names"}, {"choices"}, {"reply"}>>
<1>1. Enter(r).stages = Breaker \o reads
  <2>1. TrendsPage(r.ask) \in {Refusal, Reads(Breaker \o reads)}
    BY DEF TrendsPage
  <2>2. Enter(r) = TrendsPage(r.ask)
    BY DEF Enter
  <2> HIDE DEF reads
  <2> QED
    BY <2>1, <2>2 DEF Refusal, Reads
<1>2. /\ page \in Again /\ Rank(page, "name") = 1
      /\ {"name", "people", "check", "facts", "recheck", "web_names", "choices", "reply"} \subseteq Awaited(page)
  <2>1. page \in Again
    BY DEF Again, Reading
  <2> QED
    BY <2>1, NamesOf, Ranks DEF Awaited, Querying
<1>3. /\ Rank(page, "people") = 2 /\ Rank(page, "check") = 2 /\ Rank(page, "facts") = 2
      /\ Rank(page, "recheck") = 3 /\ Rank(page, "web_names") = 3 /\ Rank(page, "choices") = 3
      /\ Rank(page, "reply") = 4
  BY <1>2, Ranks
<1>4. Part(page, first, 1, 2) /\ Left(first) = {"name", "people", "check"}
  BY <1>2, <1>3, PartOfThree
<1>5. Part(page, second, 2, 2) /\ Left(second) = {"facts", "check"}
  BY <1>2, <1>3, PartOfThree
<1>6. Part(page, third, 3, 3) /\ Left(third) = {"recheck", "web_names", "choices"}
  BY <1>2, <1>3, PartOfThree
<1>7. Part(page, last, 4, 4) /\ Left(last) = {"reply"}
  BY <1>2, <1>3, PartOfOne
<1>8. reads = ((first \o second) \o third) \o last
  <2> DEFINE A == {"name"}
             B == {"people"}
             C == {"check"}
             D == {"facts"}
             E == {"recheck"}
             F == {"web_names"}
             G == {"choices"}
             H == {"reply"}
  <2> HIDE DEF A, B, C, D, E, F, G, H
  <2>1. <<A, B, C, D, C, C>> = <<A, B, C>> \o <<D, C, C>>
    OBVIOUS
  <2>2. <<A, B, C, D, C, C, E, F, G>> = <<A, B, C, D, C, C>> \o <<E, F, G>>
    OBVIOUS
  <2>3. <<A, B, C, D, C, C, E, F, G, H>> = <<A, B, C, D, C, C, E, F, G>> \o <<H>>
    OBVIOUS
  <2>4. <<A, B, C, D, C, C, E, F, G, H>> = ((<<A, B, C>> \o <<D, C, C>>) \o <<E, F, G>>) \o <<H>>
    BY <2>1, <2>2, <2>3
  <2> QED
    BY <2>4 DEF A, B, C, D, E, F, G, H
<1>9. Part(page, Breaker, 0, 0)
  BY <1>2, PartOfEnds
<1> DEFINE six == first \o second
           nine == six \o third
<1> HIDE DEF page, first, second, third, last, reads
<1>10. Part(page, six, 1, 2) /\ Left(six) = Left(first) \cup Left(second)
  BY <1>2, <1>4, <1>5, PartsJoined
<1> HIDE DEF six
<1>11. Part(page, nine, 1, 3) /\ Left(nine) = Left(six) \cup Left(third)
  BY <1>2, <1>6, <1>10, PartsJoined
<1> HIDE DEF nine
<1>12. Part(page, nine \o last, 1, 4) /\ Left(nine \o last) = Left(nine) \cup Left(last)
  BY <1>2, <1>7, <1>11, PartsJoined
<1>13. reads = nine \o last
  BY <1>8 DEF nine, six
<1>14. Part(page, Breaker \o reads, 0, 4) /\ Left(Breaker \o reads) = Left(Breaker) \cup Left(reads)
  BY <1>2, <1>9, <1>12, <1>13, PartsJoined
<1>15. Basis(r) = {"people", "facts"} /\ Late(r) = {"web_names", "choices"} /\ NamedBy(r.page) = "name"
  BY NamesOf DEF Basis, Late
<1> QED
  BY <1>1, <1>4, <1>5, <1>6, <1>7, <1>10, <1>11, <1>12, <1>13, <1>14, <1>15 DEF Whole, Part, page

\* Its form, when nobody is.
LEMMA FormWhole ==
  ASSUME NEW r, r.page = "trends", r.ask = Nothing
  PROVE  Whole(r, Enter(r).stages)
<1> DEFINE page == "trends"
           reads == <<{"name"}, {"choices"}, {"reply"}>>
<1>1. Enter(r).stages = Breaker \o reads
  BY DEF Enter, TrendsPage, Reads
<1>2. page \in Again /\ {"name", "choices", "reply"} \subseteq Awaited(page)
  <2>1. page \in Again
    BY DEF Again, Reading
  <2> QED
    BY <2>1, NamesOf DEF Awaited, Querying
<1>3. Rank(page, "name") = 1 /\ Rank(page, "choices") = 3 /\ Rank(page, "reply") = 4
  BY <1>2, NamesOf, Ranks
<1>4. Part(page, reads, 1, 4) /\ Left(reads) = {"name", "choices", "reply"}
  BY <1>2, <1>3, PartOfThree
<1>5. Part(page, Breaker, 0, 0)
  BY <1>2, PartOfEnds
<1> HIDE DEF page, reads
<1>6. Part(page, Breaker \o reads, 0, 4) /\ Left(Breaker \o reads) = Left(Breaker) \cup Left(reads)
  BY <1>2, <1>4, <1>5, PartsJoined
<1>7. Basis(r) = {} /\ Late(r) = {"choices"} /\ NamedBy(r.page) = "name"
  BY NamesOf DEF Basis, Late
<1> QED
  BY <1>1, <1>4, <1>6, <1>7 DEF Whole, Part, page

\* Each of them starts with all its awaits ahead of it.
LEMMA ReadingWhole ==
  ASSUME NEW r, r.page \in Reading, Enter(r).outcome = "pending"
  PROVE  Whole(r, Enter(r).stages)
  BY SplitsWhole, OpponentsWhole, RangeWhole, TrendsWhole, FormWhole DEF Reading

\* What a query computes.
LEMMA QueryWhole ==
  ASSUME NEW page \in Querying, NEW intent, NEW account
  PROVE  LET stages == Compute(intent, account)
         IN  /\ stages \in Seq(Stages) /\ Phased(page, stages)
             /\ {"reply", "recheck", IF Named(intent) THEN "identity" ELSE "result"} \subseteq Left(stages)
             /\ "name" \notin Left(stages)
<1> DEFINE read == IF Named(intent) THEN "identity" ELSE "result"
           one == <<{read}, {"reply"}, {"recheck"}>>
           store == <<{"store"}>>
           save == Saving(account)
           four == <<{read}, {"reply"}, {"recheck"}, {"store"}>>
<1>1. Compute(intent, account) = (Breaker \o four) \o save
  BY DEF Compute
<1>2. page \in Again /\ page # "trends" /\ {read, "reply", "recheck", "store"} \subseteq Awaited(page)
  BY DEF Again, Querying, Awaited
<1>3. Rank(page, read) = 2 /\ Rank(page, "reply") = 4 /\ Rank(page, "recheck") = 5 /\ Rank(page, "store") = 6
  BY <1>2, Ranks
<1> HIDE DEF read
<1>4. Part(page, one, 2, 5) /\ Left(one) = {read, "reply", "recheck"}
  BY <1>2, <1>3, PartOfThree
<1>5. Part(page, store, 6, 6) /\ Left(store) = {"store"}
  BY <1>2, <1>3, PartOfOne
<1>6. four = one \o store
  <2> DEFINE A == {read}
             B == {"reply"}
             C == {"recheck"}
             D == {"store"}
  <2> HIDE DEF A, B, C, D
  <2>1. <<A, B, C, D>> = <<A, B, C>> \o <<D>>
    OBVIOUS
  <2> QED
    BY <2>1 DEF A, B, C, D
<1>7. /\ Part(page, Breaker, 0, 0) /\ Part(page, save, 7, 7)
      /\ Left(Breaker) = {"kv", "kv_put", "charge"} /\ Left(save) \subseteq {"save"}
  BY <1>2, PartOfEnds
<1> HIDE DEF one, store, save, four
<1>8. Part(page, four, 2, 6) /\ Left(four) = Left(one) \cup Left(store)
  BY <1>2, <1>4, <1>5, <1>6, PartsJoined
<1> DEFINE five == Breaker \o four
<1>9. Part(page, five, 0, 6) /\ Left(five) = Left(Breaker) \cup Left(four)
  BY <1>2, <1>7, <1>8, PartsJoined
<1> HIDE DEF five
<1>10. Part(page, five \o save, 0, 7) /\ Left(five \o save) = Left(five) \cup Left(save)
  BY <1>2, <1>7, <1>9, PartsJoined
<1>11. Compute(intent, account) = five \o save
  BY <1>1 DEF five
<1>12. "name" \notin Left(five \o save)
  <2>1. read # "name"
    BY DEF read
  <2> QED
    BY <1>4, <1>5, <1>7, <1>8, <1>9, <1>10, <2>1
<1> QED
  BY <1>4, <1>8, <1>9, <1>10, <1>11, <1>12 DEF Part, read

----------------------------------------------------------------------------
(***************************************************************************)
(* One await of a page that asks again.                                    *)
(***************************************************************************)

\* What is left of a page is of that page.
LEMMA LeftAwaited ==
  ASSUME NEW page, NEW s, Phased(page, s)
  PROVE  Left(s) \subseteq Awaited(page)
  BY DEF Phased, Left

\* Nothing is read from the reply on, and the answer's reads precede the second look.
LEMMA LateAwaits ==
  ASSUME NEW r, r.page \in Again, NEW b \in Awaited(r.page)
  PROVE  /\ Rank(r.page, b) >= 4 => b \notin TableReads \cup {"name"}
         /\ Rank(r.page, b) >= 3 => b \notin Basis(r) \cup {NamedBy(r.page)}
         /\ Rank(r.page, b) >= 2 => b # NamedBy(r.page)
<1> DEFINE page == r.page
<1>1. /\ NamedBy(page) \in {"name", "publication"} /\ Rank(page, NamedBy(page)) = 1
      /\ \A a \in Basis(r) : Rank(page, a) = 2
  BY Ranks, BasisAwaited
<1>2. b \in TableReads => b = NamedBy(page) \/ Rank(page, b) \in {2, 3}
  <2>1. b \in TableReads => b \in {NamedBy(page), "identity", "result", "splits", "lineage", "totals", "sums",
                                   "records", "labels", "people", "facts", "web_names", "choices"}
    BY DEF Awaited, TableReads
  <2> QED
    BY <2>1, Ranks
<1>3. b = "name" => b = NamedBy(page)
  BY <1>1 DEF Awaited
<1>4. Rank(page, b) >= 4 => b \notin TableReads \cup {"name"}
  BY <1>1, <1>2, <1>3
<1> QED
  BY <1>1, <1>4

\* A request that has read what another has, for the same question, has seen the same.
LEMMA SameView ==
  ASSUME NEW x, NEW call, x.req = call.req, x.at = call.at, x.intent = call.intent
  PROVE  /\ RequestOf(x) = RequestOf(call) /\ NameOf(x) = NameOf(call)
         /\ NamedSnapshot(x) = NamedSnapshot(call) /\ Shown(x) = Shown(call) /\ Saw(x) = Saw(call)
         /\ Unfound(x) <=> Unfound(call)
<1>1. RequestOf(x) = RequestOf(call)
  BY DEF RequestOf
<1>2. NameOf(x) = NameOf(call) /\ NamedSnapshot(x) = NamedSnapshot(call)
  BY <1>1 DEF NameOf, NamedSnapshot
<1>3. Shown(x) = Shown(call)
  BY <1>1, <1>2 DEF Shown
<1>4. Saw(x) = Saw(call)
  BY <1>1, <1>2 DEF Saw
<1>5. Unfound(x) <=> Unfound(call)
  BY DEF Unfound
<1> QED
  BY <1>1, <1>2, <1>3, <1>4, <1>5

\* The reads that were made are still in order when more is imported.
LEMMA LaterReads ==
  ASSUME NEW call, NEW imp \in Nat, NEW later \in Nat, imp <= later, ReadsOK(call, imp)
  PROVE  ReadsOK(call, later)
<1>1. ASSUME NEW a \in DOMAIN call.at
      PROVE  call.at[a] \in 0..later
  <2>1. call.at[a] \in 0..imp
    BY DEF ReadsOK
  <2> QED
    BY <2>1
<1> QED
  BY <1>1 DEF ReadsOK

\* So is a page.
LEMMA LaterComputing ==
  ASSUME NEW call, NEW imp \in Nat, NEW later \in Nat, imp <= later, ComputingOK(call, imp)
  PROVE  ComputingOK(call, later)
  BY LaterReads DEF ComputingOK

\* A call with one await fewer.
OneFewer(x, call, a) ==
  /\ call.stages \in Seq(Stages) /\ call.stages # <<>> /\ a \in Head(call.stages)
  /\ x.stages = Tail(call.stages) /\ x.req = call.req /\ x.intent = call.intent

\* What that says of the awaits.
LEMMA HeadAwait ==
  ASSUME NEW call, NEW x, NEW a, NEW imp, ComputingOK(call, imp), OneFewer(x, call, a),
         RequestOf(call).page \in Again
  PROVE  /\ a \in Awaited(RequestOf(call).page) /\ Head(call.stages) = {a}
         /\ Phased(RequestOf(call).page, x.stages)
         /\ Left(call.stages) = {a} \cup Left(x.stages)
         /\ \A b \in Left(x.stages) :
              /\ b \in Awaited(RequestOf(call).page) /\ Precedes(RequestOf(call).page, a, b)
              /\ Rank(RequestOf(call).page, a) <= Rank(RequestOf(call).page, b)
<1> DEFINE page == RequestOf(call).page
           s == call.stages
<1>1. Phased(page, s) /\ s \in Seq(Stages) /\ s # <<>> /\ a \in Head(s) /\ x.stages = Tail(s)
  BY DEF ComputingOK, OneFewer
<1>2. PICK b \in Awaited(page) :
         /\ Head(s) = {b} /\ Phased(page, Tail(s)) /\ Tail(s) \in Seq(Stages)
         /\ Left(s) = {b} \cup Left(Tail(s))
         /\ \A c \in Left(Tail(s)) : Precedes(page, b, c)
  BY <1>1, Popped
<1>3. a = b
  BY <1>1, <1>2
<1>4. Left(Tail(s)) \subseteq Awaited(page)
  BY <1>2, LeftAwaited
<1> QED
  BY <1>1, <1>2, <1>3, <1>4 DEF Precedes

\* An await that reads nothing, or nothing of the answer.
LEMMA QuietAwait ==
  ASSUME NEW call, NEW x, NEW a, NEW imp, ComputingOK(call, imp), OneFewer(x, call, a),
         RequestOf(call).page \in Again, x.at = call.at, x.answer = call.answer,
         a \notin Basis(RequestOf(call)) \cup Late(RequestOf(call)) \cup {NameOf(call), "reply", "recheck"}
  PROVE  ComputingOK(x, imp)
<1> DEFINE r == RequestOf(call)
<1>1. /\ Phased(r.page, x.stages) /\ Left(call.stages) = {a} \cup Left(x.stages)
  BY HeadAwait
<1>2. /\ RequestOf(x) = r /\ NameOf(x) = NameOf(call) /\ NamedSnapshot(x) = NamedSnapshot(call)
      /\ Shown(x) = Shown(call) /\ Saw(x) = Saw(call) /\ (Unfound(x) <=> Unfound(call))
      /\ x.intent = call.intent
  BY SameView DEF OneFewer
<1> HIDE DEF r
<1>3. ReadsOK(x, imp)
  BY <1>2 DEF ReadsOK, ComputingOK
<1>4. IF NameOf(x) \in Left(x.stages) THEN DOMAIN x.at = {} ELSE NameOf(x) \in DOMAIN x.at
  BY <1>1, <1>2 DEF ComputingOK
<1>5. Gathering(x)
  <2>1. CASE r.page \in Querying
    <3>1. Basis(r) = {"identity", "result"}
      BY <2>1 DEF Basis, Querying
    <3>2. \A b \in {"identity", "result"} : b \in Left(call.stages) => b \in Left(x.stages)
      BY <1>1, <3>1 DEF r
    <3>3. QueryGathering(call)
      BY <2>1 DEF ComputingOK, Gathering, r
    <3>4. QueryGathering(x)
      BY <1>2, <3>2, <3>3 DEF QueryGathering
    <3> QED
      BY <1>2, <2>1, <3>4 DEF Gathering
  <2>2. CASE r.page \notin Querying
    BY <1>1, <1>2, <2>2 DEF ComputingOK, Gathering, r
  <2> QED
    BY <2>1, <2>2
<1>6. RepliedOK(x)
  BY <1>1, <1>2 DEF ComputingOK, RepliedOK, r
<1>7. RecheckedOK(x)
  BY <1>1, <1>2 DEF ComputingOK, RecheckedOK, r
<1> QED
  BY <1>1, <1>2, <1>3, <1>4, <1>5, <1>6, <1>7 DEF ComputingOK

\* The naming of the snapshot, before any other read.
LEMMA NamingAwait ==
  ASSUME NEW call, NEW x, NEW imp \in Nat, ComputingOK(call, imp), OneFewer(x, call, NameOf(call)),
         RequestOf(call).page \in Reading, x.answer = call.answer,
         x.at = [b \in {NameOf(call)} \cup DOMAIN call.at |-> IF b = NameOf(call) THEN imp ELSE call.at[b]]
  PROVE  ComputingOK(x, imp)
<1> DEFINE r == RequestOf(call)
           a == NameOf(call)
<1>1. r.page \in Again /\ r.page \notin Querying /\ a = NamedBy(r.page)
  BY DEF Again, Reading, Querying, NameOf
<1>2. /\ Phased(r.page, x.stages) /\ Left(call.stages) = {a} \cup Left(x.stages)
      /\ \A b \in Left(x.stages) : Precedes(r.page, a, b)
  BY <1>1, HeadAwait
<1>3. RequestOf(x) = r /\ NameOf(x) = a /\ NamedSnapshot(x) = x.at[a]
  BY DEF OneFewer, RequestOf, NameOf, NamedSnapshot
<1>4. DOMAIN call.at = {}
  BY <1>2 DEF ComputingOK
<1>5. DOMAIN x.at = {a} /\ x.at[a] = imp
  BY <1>4
<1>6. Rank(r.page, a) = 1 /\ a \in {"name", "publication"}
  BY <1>1, Ranks
<1>7. a \notin Left(x.stages)
  BY <1>2, <1>6 DEF Precedes
<1>8. "reply" \in Left(x.stages) /\ ("recheck" \in Left(x.stages) \/ Basis(r) = {})
  <2>1. a \in TableReads \cup {"name"} /\ a # "reply" /\ a # "recheck"
    BY <1>6 DEF TableReads
  <2>2. "reply" \in Left(call.stages)
    BY <1>2, <2>1 DEF ComputingOK, RepliedOK
  <2>3. "recheck" \in Left(call.stages) \/ Basis(r) = {}
    BY <1>2 DEF ComputingOK, RecheckedOK
  <2> QED
    BY <1>2, <2>1, <2>2, <2>3
<1>9. Gathering(x)
  BY <1>1, <1>2, <1>3, <1>4, <1>5 DEF ComputingOK, Gathering
<1> HIDE DEF r, a
<1>10. ReadsOK(x, imp)
  BY <1>3, <1>5 DEF ReadsOK
<1> QED
  BY <1>2, <1>3, <1>5, <1>7, <1>8, <1>9, <1>10 DEF ComputingOK, RepliedOK, RecheckedOK

\* The reads of x are those of call and one more, which sees the last snapshot imported.
OneMoreRead(x, call, a, imp) ==
  x.at = [b \in {a} \cup DOMAIN call.at |-> IF b = a THEN imp ELSE call.at[b]]

\* A read that follows the naming sees the snapshot that was named, or a later one.
LEMMA FurtherRead ==
  ASSUME NEW call, NEW x, NEW a, NEW imp \in Nat, ReadsOK(call, imp), NameOf(call) \in DOMAIN call.at,
         a # NameOf(call), x.req = call.req, OneMoreRead(x, call, a, imp)
  PROVE  /\ ReadsOK(x, imp) /\ NameOf(x) = NameOf(call) /\ NamedSnapshot(x) = NamedSnapshot(call)
         /\ a \in DOMAIN x.at /\ x.at[a] = imp /\ DOMAIN x.at = {a} \cup DOMAIN call.at
         /\ \A b \in DOMAIN call.at : b # a => x.at[b] = call.at[b]
<1> DEFINE n == NameOf(call)
<1>1. /\ DOMAIN x.at = {a} \cup DOMAIN call.at /\ x.at[a] = imp
      /\ \A b \in DOMAIN call.at : b # a => x.at[b] = call.at[b]
  BY DEF OneMoreRead
<1>2. NameOf(x) = n /\ NamedSnapshot(x) = x.at[n] /\ NamedSnapshot(call) = call.at[n]
  BY DEF NameOf, NamedSnapshot, RequestOf
<1> HIDE DEF n
<1>3. n \in DOMAIN call.at /\ n # a
  BY DEF n
<1>4. x.at[n] = call.at[n] /\ call.at[n] \in 0..imp
  BY <1>1, <1>3 DEF ReadsOK
<1>5. ASSUME NEW b \in DOMAIN x.at
      PROVE  x.at[b] \in 0..imp /\ x.at[n] <= x.at[b]
  <2>1. CASE b = a
    BY <1>1, <1>4, <2>1
  <2>2. CASE b # a
    <3>1. b \in DOMAIN call.at /\ x.at[b] = call.at[b]
      BY <1>1, <2>2
    <3> QED
      BY <1>4, <3>1 DEF ReadsOK, n
  <2> QED
    BY <2>1, <2>2
<1>6. ReadsOK(x, imp)
  BY <1>1, <1>2, <1>3, <1>5 DEF ReadsOK
<1> QED
  BY <1>1, <1>2, <1>3, <1>4, <1>6 DEF n

\* What precedes the reply and the second look is still to come.
LEMMA ReadAwait ==
  ASSUME NEW call, NEW x, NEW a \in TableReads, NEW imp \in Nat, ComputingOK(call, imp),
         OneFewer(x, call, a), RequestOf(call).page \in Reading, x.answer = call.answer,
         a # NameOf(call), OneMoreRead(x, call, a, imp)
  PROVE  ComputingOK(x, imp)
<1> DEFINE r == RequestOf(call)
           n == NameOf(call)
<1>1. r.page \in Again /\ r.page \notin Querying /\ n = NamedBy(r.page)
  BY DEF Again, Reading, Querying, NameOf
<1>2. /\ Phased(r.page, x.stages) /\ Left(call.stages) = {a} \cup Left(x.stages)
      /\ \A b \in Left(x.stages) : b \in Awaited(r.page) /\ Rank(r.page, a) <= Rank(r.page, b)
      /\ a \in Awaited(r.page)
  BY <1>1, HeadAwait
<1>3. RequestOf(x) = r
  BY DEF OneFewer, RequestOf
<1>4. Rank(r.page, n) = 1 /\ n \in {"name", "publication"}
  BY <1>1, Ranks
<1>5. Rank(r.page, a) \in {2, 3}
  <2>1. a \in {n, "splits", "lineage", "totals", "sums", "records", "labels", "people", "facts",
               "web_names", "choices"}
    BY <1>1, <1>2 DEF Awaited, TableReads
  <2> QED
    BY <1>1, <2>1, Ranks
<1>6. n \notin Left(x.stages)
  BY <1>1, <1>2, <1>4, <1>5
<1>7. n \in DOMAIN call.at
  BY <1>2, <1>6 DEF ComputingOK
<1>8. /\ ReadsOK(x, imp) /\ NameOf(x) = n /\ NamedSnapshot(x) = NamedSnapshot(call)
      /\ DOMAIN x.at = {a} \cup DOMAIN call.at
      /\ \A b \in DOMAIN call.at : b # a => x.at[b] = call.at[b]
  BY <1>7, FurtherRead DEF ComputingOK, OneFewer
<1>9. a # "reply" /\ a # "recheck"
  BY DEF TableReads
<1>10. "reply" \in Left(x.stages)
  BY <1>2, <1>9 DEF ComputingOK, RepliedOK
<1>11. Gathering(x)
  BY <1>1, <1>2, <1>3, <1>8 DEF ComputingOK, Gathering
<1>12. RecheckedOK(x)
  <2>1. CASE "recheck" \in Left(call.stages)
    BY <1>2, <1>9, <2>1 DEF RecheckedOK
  <2>2. CASE /\ Left(call.stages) \cap (Basis(r) \cup {n}) = {}
             /\ \A b \in Basis(r) \cap DOMAIN call.at : call.at[b] = NamedSnapshot(call)
    <3>1. a \notin Basis(r)
      BY <1>2, <2>2
    <3>2. \A b \in Basis(r) \cap DOMAIN x.at : x.at[b] = NamedSnapshot(x)
      BY <1>8, <2>2, <3>1
    <3> QED
      BY <1>2, <1>3, <1>8, <2>2, <3>2 DEF RecheckedOK
  <2>3. CASE Basis(r) = {}
    BY <1>3, <2>3 DEF RecheckedOK
  <2> QED
    BY <2>1, <2>2, <2>3 DEF ComputingOK, RecheckedOK
<1> QED
  BY <1>2, <1>3, <1>6, <1>7, <1>8, <1>10, <1>11, <1>12 DEF ComputingOK, RepliedOK

\* The reply is made of what was read.
LEMMA ReplyAwait ==
  ASSUME NEW call, NEW x, NEW imp, ComputingOK(call, imp), OneFewer(x, call, "reply"),
         RequestOf(call).page \in Again, x.at = call.at,
         x.answer = AnswerTo(RequestOf(call), call.intent, Shown(call), Saw(call)), x.answer # Invalid
  PROVE  ComputingOK(x, imp)
<1> DEFINE r == RequestOf(call)
<1>1. /\ Phased(r.page, x.stages) /\ Left(call.stages) = {"reply"} \cup Left(x.stages)
      /\ \A b \in Left(x.stages) : b \in Awaited(r.page) /\ Rank(r.page, "reply") <= Rank(r.page, b)
  BY HeadAwait
<1>2. /\ RequestOf(x) = r /\ NameOf(x) = NameOf(call) /\ NamedSnapshot(x) = NamedSnapshot(call)
      /\ Shown(x) = Shown(call) /\ Saw(x) = Saw(call) /\ (Unfound(x) <=> Unfound(call))
      /\ x.intent = call.intent
  BY SameView DEF OneFewer
<1>3. \A b \in Left(x.stages) : Rank(r.page, b) >= 4
  <2>1. \A b \in Left(x.stages) : Rank(r.page, b) \in Nat
    BY <1>1, AwaitedStages
  <2> QED
    BY <1>1, <2>1, Ranks
<1>4. Left(x.stages) \cap (TableReads \cup {"name"}) = {}
  BY <1>1, <1>3, LateAwaits
<1>5. NameOf(call) \in {"name", "publication"} /\ Basis(r) \cup Late(r) \subseteq TableReads
  BY Ranks, BasisAwaited DEF NameOf
<1>6. "reply" \notin TableReads \cup {"name"} /\ "publication" \in TableReads
  BY DEF TableReads
<1> HIDE DEF r
<1>7. \A b \in Basis(r) \cup Late(r) \cup {NameOf(call)} : b \notin Left(call.stages) /\ b \notin Left(x.stages)
  BY <1>1, <1>4, <1>5, <1>6
<1>8. IF NameOf(x) \in Left(x.stages) THEN DOMAIN x.at = {} ELSE NameOf(x) \in DOMAIN x.at
  BY <1>2, <1>7 DEF ComputingOK
<1>9. Gathering(x)
  <2>1. CASE r.page \in Querying
    <3>1. Basis(r) = {"identity", "result"}
      BY <2>1 DEF Basis, Querying
    <3>2. QueryGathering(call)
      BY <2>1 DEF ComputingOK, Gathering, r
    <3>3. QueryGathering(x)
      BY <1>2, <1>7, <3>1, <3>2 DEF QueryGathering
    <3> QED
      BY <1>2, <2>1, <3>3 DEF Gathering
  <2>2. CASE r.page \notin Querying
    BY <1>2, <1>7, <2>2 DEF ComputingOK, Gathering, r
  <2> QED
    BY <2>1, <2>2
<1>10. RepliedOK(x)
  BY <1>2, <1>4 DEF RepliedOK, r
<1>11. RecheckedOK(x)
  <2>1. CASE "recheck" \in Left(call.stages)
    BY <1>1, <2>1 DEF RecheckedOK
  <2>2. CASE "recheck" \notin Left(call.stages)
    BY <1>1, <1>2, <2>2 DEF ComputingOK, RecheckedOK, r
  <2> QED
    BY <2>1, <2>2
<1>12. ReadsOK(x, imp)
  BY <1>2 DEF ReadsOK, ComputingOK
<1> QED
  BY <1>1, <1>2, <1>8, <1>9, <1>10, <1>11, <1>12 DEF ComputingOK

\* If the snapshot is still the one that was named, all that was read is of it.
LEMMA RecheckAwait ==
  ASSUME NEW call, NEW x, NEW imp \in Nat, ComputingOK(call, imp), OneFewer(x, call, "recheck"),
         RequestOf(call).page \in Again, x.at = call.at, x.answer = call.answer, imp = NamedSnapshot(call)
  PROVE  ComputingOK(x, imp)
<1> DEFINE r == RequestOf(call)
           n == NameOf(call)
<1>1. /\ Phased(r.page, x.stages) /\ Left(call.stages) = {"recheck"} \cup Left(x.stages)
      /\ \A b \in Left(x.stages) : b \in Awaited(r.page) /\ Rank(r.page, "recheck") <= Rank(r.page, b)
  BY HeadAwait
<1>2. /\ RequestOf(x) = r /\ NameOf(x) = NameOf(call) /\ NamedSnapshot(x) = NamedSnapshot(call)
      /\ Shown(x) = Shown(call) /\ Saw(x) = Saw(call) /\ (Unfound(x) <=> Unfound(call))
      /\ x.intent = call.intent
  BY SameView DEF OneFewer
<1>3. \A b \in Left(x.stages) : Rank(r.page, b) >= 3
  <2>1. \A b \in Left(x.stages) : Rank(r.page, b) \in Nat
    BY <1>1, AwaitedStages
  <2>2. Rank(r.page, "recheck") \in {3, 5}
    BY Ranks
  <2> QED
    BY <1>1, <2>1, <2>2
<1>4. Left(x.stages) \cap (Basis(r) \cup {n}) = {}
  BY <1>1, <1>3, LateAwaits DEF NameOf
<1>5. "recheck" \notin Basis(r) \cup Late(r) /\ n # "recheck"
  <2>1. "recheck" \notin TableReads
    BY DEF TableReads
  <2> QED
    BY <2>1, Ranks, BasisAwaited DEF NameOf
<1> HIDE DEF r, n
<1>6. n \in DOMAIN call.at
  BY <1>1, <1>4, <1>5 DEF ComputingOK, n
<1>7. ASSUME NEW a \in Basis(r) \cap DOMAIN x.at
      PROVE  x.at[a] = NamedSnapshot(x)
  <2>1. call.at[n] <= call.at[a] /\ call.at[a] \in 0..imp /\ call.at[n] \in 0..imp
    BY <1>6, <1>7 DEF ComputingOK, ReadsOK, n
  <2>2. NamedSnapshot(call) = call.at[n]
    BY DEF NamedSnapshot, n, NameOf
  <2> QED
    BY <1>2, <2>1, <2>2
<1>8. \A b \in Basis(r) \cup Late(r) \cup {n} : b \in Left(call.stages) <=> b \in Left(x.stages)
  BY <1>1, <1>5
<1>9. Gathering(x)
  <2>1. CASE r.page \in Querying
    <3>1. Basis(r) = {"identity", "result"}
      BY <2>1 DEF Basis, Querying
    <3>2. QueryGathering(call)
      BY <2>1 DEF ComputingOK, Gathering, r
    <3>3. QueryGathering(x)
      BY <1>2, <1>8, <3>1, <3>2 DEF QueryGathering
    <3> QED
      BY <1>2, <2>1, <3>3 DEF Gathering
  <2>2. CASE r.page \notin Querying
    BY <1>2, <1>8, <2>2 DEF ComputingOK, Gathering, r
  <2> QED
    BY <2>1, <2>2
<1>10. RecheckedOK(x)
  BY <1>2, <1>4, <1>7 DEF RecheckedOK, n
<1>11. RepliedOK(x)
  BY <1>1, <1>2 DEF ComputingOK, RepliedOK, r
<1>12. ReadsOK(x, imp)
  BY <1>2 DEF ReadsOK, ComputingOK
<1> QED
  BY <1>1, <1>2, <1>4, <1>6, <1>9, <1>10, <1>11, <1>12 DEF ComputingOK, r, n

----------------------------------------------------------------------------
(***************************************************************************)
(* An answer is made of its basis.                                         *)
(***************************************************************************)

\* Pages of seasons and players, but for the trends.
LEMMA ReadingAnswers ==
  ASSUME NEW r, r.page \in Reading \ {"trends"},
         NEW intent, NEW other, NEW snapshot, NEW named, NEW F, NEW G, \A a \in Basis(r) : F[a] = G[a]
  PROVE  AnswerTo(r, intent, snapshot, F) = AnswerTo(r, other, named, G)
<1>1. CASE r.page = "splits"
  <2>1. \A a \in {"splits", "lineage", "totals", "sums", "labels"} : F[a] = G[a]
    BY <1>1 DEF Basis
  <2>2. SplitFacts(r.ask, F) = SplitFacts(r.ask, G)
    BY <2>1 DEF SplitFacts
  <2>3. SplitsAnswer(r.ask, F) = SplitsAnswer(r.ask, G)
    BY <2>1, <2>2 DEF SplitsAnswer
  <2> QED
    BY <1>1, <2>3 DEF AnswerTo
<1>2. CASE r.page = "opponents"
  <2>1. OpponentsAnswer(r.ask, F) = OpponentsAnswer(r.ask, G)
    <3>1. CASE OpponentsForm(r.ask)
      <4>1. F["labels"] = G["labels"]
        BY <1>2, <3>1 DEF Basis
      <4> QED
        BY <3>1, <4>1 DEF OpponentsAnswer
    <3>2. CASE ~OpponentsForm(r.ask)
      <4>1. \A a \in {"splits", "lineage", "totals", "sums", "records", "labels"} : F[a] = G[a]
        BY <1>2, <3>2 DEF Basis
      <4>2. SplitFacts(r.ask, F) = SplitFacts(r.ask, G)
        BY <4>1 DEF SplitFacts
      <4> QED
        BY <3>2, <4>1, <4>2 DEF OpponentsAnswer
    <3> QED
      BY <3>1, <3>2
  <2> QED
    BY <1>2, <2>1 DEF AnswerTo
<1>3. CASE r.page = "range"
  <2>1. F["web_names"] = G["web_names"] /\ F["facts"] = G["facts"]
    BY <1>3 DEF Basis
  <2>2. RangeAnswer(r.ask, F) = RangeAnswer(r.ask, G)
    BY <2>1 DEF RangeAnswer
  <2> QED
    BY <1>3, <2>2 DEF AnswerTo
<1> QED
  BY <1>1, <1>2, <1>3 DEF Reading

\* The figures of a page of trends, which answers at all or not with them.
LEMMA TrendsAnswers ==
  ASSUME NEW ask, ask # Nothing, NEW F, NEW G, F["people"] = G["people"], F["facts"] = G["facts"],
         TrendsAnswer(ask, F) # Invalid
  PROVE  LET f == TrendsAnswer(ask, F)
             g == TrendsAnswer(ask, G)
         IN  /\ f.result = g.result /\ f.leaders = g.leaders
             /\ f.labels = Labels(F["web_names"], ask.people)
             /\ f.choices = TrendChoices(ask, F["choices"])
  BY DEF TrendsAnswer

\* A query that is executed is about a season or about players, and reads every row of a
\* snapshot or, for a player nobody answers to, none.
LEMMA QueryAnswers ==
  ASSUME NEW intent, ValidateExecutionSupport(intent), NEW n \in Snapshots, NEW F,
         IF Named(intent)
         THEN /\ F["identity"] = Tables[n]
              /\ \/ F["result"] = Tables[n]
                 \/ /\ F["result"] = NoTables
                    /\ ResolvePlayerIdentity(Tables[n], intent.entity_id, intent.competition) = Nothing
         ELSE F["result"] = Tables[n]
  PROVE  QueryAnswer(intent, F) = QueryAnswer(intent, AllOf(n))
<1> DEFINE G == AllOf(n)
<1>1. G["identity"] = Tables[n] /\ G["result"] = Tables[n]
  BY DEF AllOf, TableReads
<1> SUFFICES QueryAnswer(intent, F) = QueryAnswer(intent, G)
  OBVIOUS
<1> HIDE DEF G
<1>2. intent.entity_type \in {"season", "player"}
  BY DEF ValidateExecutionSupport, ExecutableMetrics
<1>3. CASE F["result"] = Tables[n] /\ Named(intent)
  BY <1>1, <1>3 DEF QueryAnswer
<1>4. CASE F["result"] = Tables[n] /\ ~Named(intent)
  <2>1. RunQuery(F["identity"], Tables[n], intent) = RunQuery(G["identity"], Tables[n], intent)
    BY <1>2, <1>4 DEF RunQuery, Named
  <2> QED
    BY <1>1, <1>4, <2>1 DEF QueryAnswer
<1>5. CASE /\ Named(intent) /\ F["identity"] = Tables[n] /\ F["result"] = NoTables
           /\ ResolvePlayerIdentity(Tables[n], intent.entity_id, intent.competition) = Nothing
  <2>1. \A s \in Tables[n].stats : s.person # Nothing
    <3>1. Tables[n] = IF n = 0 THEN NoTables ELSE Facts[n]
      BY DEF Tables
    <3>2. n # 0 => n \in 1..Len(Facts)
      BY DEF Snapshots
    <3>3. NoTables.stats = {}
      BY DEF NoTables
    <3> QED
      BY <3>1, <3>2, <3>3, SeedsSigned
  <2> DEFINE rows(tables) ==
               {t \in StatRows(tables, intent.season, intent.competition) : t.person = Nothing}
             show(tables, s) == [person |-> s.person, value |-> s.values[intent.metric],
                                 label |-> NameIn(tables, s.person, s.season)]
  <2>2. rows(Tables[n]) = {} /\ rows(NoTables) = {}
    <3>1. NoTables.stats = {}
      BY DEF NoTables
    <3> QED
      BY <2>1, <3>1 DEF StatRows
  <2>3. \A tables : RunQuery(Tables[n], tables, intent) = {show(tables, s) : s \in rows(tables)}
    BY <1>5 DEF RunQuery, Named
  <2> HIDE DEF rows, show
  <2>4. RunQuery(Tables[n], Tables[n], intent) = {} /\ RunQuery(Tables[n], NoTables, intent) = {}
    BY <2>2, <2>3
  <2> QED
    BY <1>1, <1>5, <2>4 DEF QueryAnswer
<1> QED
  BY <1>3, <1>4, <1>5

\* A read of the snapshot that was named sees its tables, and one that was not made sees
\* none.
LEMMA SawOf ==
  ASSUME NEW call, NEW a \in TableReads
  PROVE  /\ a \notin DOMAIN call.at => Saw(call)[a] = NoTables
         /\ (a \in DOMAIN call.at /\ (call.at[a] = NamedSnapshot(call) \/ a \notin OwnSnapshotOnly)) =>
              Saw(call)[a] = Tables[call.at[a]]
         /\ (a \in DOMAIN call.at /\ call.at[a] # NamedSnapshot(call) /\ a \in OwnSnapshotOnly) =>
              Saw(call)[a] = NoTables
  BY DEF Saw

\* What a page answers after its second look is what the snapshot says that it named.
LEMMA ReadingHonest ==
  ASSUME NEW call, NEW imp, NEW intent, NEW snapshot, ComputingOK(call, imp),
         RequestOf(call).page \in Reading \ {"trends"},
         "reply" \notin Left(call.stages), "recheck" \notin Left(call.stages)
  PROVE  call.answer = AnswerTo(RequestOf(call), intent, snapshot, AllOf(NamedSnapshot(call)))
<1> DEFINE r == RequestOf(call)
           n == NamedSnapshot(call)
           F == Saw(call)
           G == AllOf(n)
<1>1. r.page \in Again /\ r.page \notin Querying
  BY DEF Again, Reading, Querying
<1>2. Basis(r) \subseteq TableReads
  BY <1>1, BasisAwaited
<1>3. /\ \A a \in Basis(r) : a \notin Left(call.stages)
      /\ \A a \in Basis(r) \cap DOMAIN call.at : call.at[a] = n
  BY DEF ComputingOK, RecheckedOK
<1>4. Basis(r) \subseteq Left(call.stages) \cup DOMAIN call.at
  BY <1>1 DEF ComputingOK, Gathering
<1>5. ASSUME NEW a \in Basis(r)
      PROVE  F[a] = G[a]
  <2>1. a \in TableReads /\ a \in DOMAIN call.at /\ call.at[a] = n
    BY <1>2, <1>3, <1>4
  <2>2. F[a] = Tables[n]
    BY <2>1, SawOf
  <2>3. G[a] = Tables[n]
    BY <2>1 DEF AllOf
  <2> QED
    BY <2>2, <2>3
<1>6. call.answer = AnswerTo(r, call.intent, Shown(call), F)
  BY DEF ComputingOK, RepliedOK
<1>7. r.page \in Reading \ {"trends"}
  OBVIOUS
<1> HIDE DEF r, n, F, G
<1>8. AnswerTo(r, call.intent, Shown(call), F) = AnswerTo(r, intent, snapshot, G)
  BY <1>5, <1>7, ReadingAnswers
<1> QED
  BY <1>6, <1>8 DEF r, n, F, G

\* The figures of a page of trends are what that snapshot says; what it read last is of that
\* one or a later one.
LEMMA TrendsFollow ==
  ASSUME NEW call, NEW imp \in Snapshots, ComputingOK(call, imp), RequestOf(call).page = "trends",
         Left(call.stages) = {}
  PROVE  TrendsHonest(call, TrendsAnswer(RequestOf(call).ask, AllOf(NamedSnapshot(call))))
<1> DEFINE r == RequestOf(call)
           ask == r.ask
           n == NamedSnapshot(call)
           F == Saw(call)
           G == AllOf(n)
<1>1. r.page \in Again /\ r.page \notin Querying /\ NameOf(call) = "name"
  BY NamesOf DEF Again, Reading, Querying, NameOf
<1>2. Basis(r) \cup Late(r) \subseteq TableReads \cap DOMAIN call.at
  BY <1>1, BasisAwaited DEF ComputingOK, Gathering
<1>3. "name" \in DOMAIN call.at /\ n = call.at["name"]
  BY <1>1 DEF ComputingOK, NamedSnapshot, NameOf
<1>4. \A a \in DOMAIN call.at : call.at[a] \in 0..imp /\ n <= call.at[a] /\ n \in 0..imp
  BY <1>1, <1>3 DEF ComputingOK, ReadsOK
<1>5. imp \in Nat /\ 0..imp \subseteq Snapshots
  BY DEF Snapshots
<1>6. call.answer = TrendsAnswer(ask, F) /\ call.answer # Invalid
  BY DEF ComputingOK, RepliedOK, AnswerTo
<1>7. "choices" \in OwnSnapshotOnly /\ "web_names" \notin OwnSnapshotOnly /\ Tables[0] = NoTables
  <2>1. 0 \in Snapshots
    BY <1>5
  <2> QED
    BY <2>1 DEF OwnSnapshotOnly, Tables
<1>8. "choices" \in TableReads \cap DOMAIN call.at
  BY <1>2 DEF Late
<1>9. \E k \in {0, n} : F["choices"] = Tables[k]
  <2>1. CASE call.at["choices"] = n
    BY <1>8, <2>1, SawOf
  <2>2. CASE call.at["choices"] # n
    BY <1>7, <1>8, <2>2, SawOf
  <2> QED
    BY <2>1, <2>2
<1>10. ASSUME ask # Nothing
       PROVE  /\ F["people"] = G["people"] /\ F["facts"] = G["facts"]
              /\ \E k \in Snapshots : k >= n /\ F["web_names"] = Tables[k]
  <2>1. Basis(r) = {"people", "facts"} /\ Late(r) = {"web_names", "choices"}
    BY <1>10 DEF Basis, Late
  <2>2. \A a \in {"people", "facts"} : a \in TableReads /\ a \in DOMAIN call.at /\ call.at[a] = n
    BY <1>2, <2>1 DEF ComputingOK, RecheckedOK
  <2>3. \A a \in {"people", "facts"} : F[a] = Tables[n] /\ G[a] = Tables[n]
    BY <2>2, SawOf DEF AllOf
  <2>4. "web_names" \in TableReads /\ "web_names" \in DOMAIN call.at
    BY <1>2, <2>1
  <2>5. F["web_names"] = Tables[call.at["web_names"]]
    BY <1>7, <2>4, SawOf
  <2>6. call.at["web_names"] \in Snapshots /\ call.at["web_names"] >= n
    BY <1>4, <1>5, <2>4
  <2> QED
    BY <2>3, <2>5, <2>6
<1> HIDE DEF F, G
<1>11. CASE ask = Nothing
  <2>1. call.answer.choices = TrendChoices(ask, F["choices"])
    BY <1>6, <1>11 DEF TrendsAnswer
  <2> QED
    BY <1>9, <1>11, <2>1 DEF TrendsHonest
<1>12. CASE ask # Nothing
  <2> DEFINE promised == TrendsAnswer(ask, G)
  <2>1. /\ call.answer.result = promised.result /\ call.answer.leaders = promised.leaders
        /\ call.answer.labels = Labels(F["web_names"], ask.people)
        /\ call.answer.choices = TrendChoices(ask, F["choices"])
    BY <1>6, <1>10, <1>12, TrendsAnswers
  <2> HIDE DEF promised
  <2>2. TrendsHonest(call, promised)
    BY <1>9, <1>10, <1>12, <2>1 DEF TrendsHonest
  <2> QED
    BY <2>2 DEF promised, G
<1> QED
  BY <1>11, <1>12

\* So are the rows of a query.
LEMMA QueryHonest ==
  ASSUME NEW call, NEW imp, ComputingOK(call, imp), RequestOf(call).page \in Querying,
         ValidateExecutionSupport(call.intent), NamedSnapshot(call) \in Snapshots,
         "reply" \notin Left(call.stages), "recheck" \notin Left(call.stages)
  PROVE  call.answer = QueryAnswer(call.intent, AllOf(NamedSnapshot(call)))
<1> DEFINE r == RequestOf(call)
           n == NamedSnapshot(call)
           F == Saw(call)
           intent == call.intent
<1>1. Basis(r) = {"identity", "result"}
  BY DEF Basis, Querying
<1>2. \A a \in {"identity", "result"} :
        /\ a \notin Left(call.stages) /\ a \in TableReads /\ a \notin OwnSnapshotOnly
        /\ a \in DOMAIN call.at => call.at[a] = n
  BY <1>1 DEF ComputingOK, RecheckedOK, TableReads, OwnSnapshotOnly
<1>3. \A a \in {"identity", "result"} :
        F[a] = IF a \in DOMAIN call.at THEN Tables[n] ELSE NoTables
  BY <1>2, SawOf
<1>4. QueryGathering(call)
  BY DEF ComputingOK, Gathering
<1>5. call.answer = QueryAnswer(intent, F)
  BY DEF ComputingOK, RepliedOK, AnswerTo, Querying
<1>6. /\ Named(intent) => /\ "identity" \in DOMAIN call.at
                          /\ \/ "result" \in DOMAIN call.at
                             \/ ResolvePlayerIdentity(Tables[n], intent.entity_id, intent.competition) = Nothing
      /\ ~Named(intent) => "result" \in DOMAIN call.at
  BY <1>2, <1>4 DEF QueryGathering, Unfound
<1>7. ValidateExecutionSupport(intent) /\ n \in Snapshots
  OBVIOUS
<1> HIDE DEF r, n, F, intent
<1>8. QueryAnswer(intent, F) = QueryAnswer(intent, AllOf(n))
  <2>1. CASE Named(intent)
    BY <1>3, <1>6, <1>7, <2>1, QueryAnswers
  <2>2. CASE ~Named(intent)
    BY <1>3, <1>6, <1>7, <2>2, QueryAnswers
  <2> QED
    BY <2>1, <2>2
<1> QED
  BY <1>5, <1>8 DEF r, n, F, intent

----------------------------------------------------------------------------
(***************************************************************************)
(* The pages that compare what they read.                                  *)
(***************************************************************************)

\* A publication that is one names the snapshot it came with.
LEMMA PublicationSigned ==
  ASSUME NEW m \in Snapshots, Publication(m) # Nothing
  PROVE  Publication(m).snapshot = m /\ m # 0 /\ Publication(m) = Tables[m].run
<1>1. Publication(m) = Tables[m].run
  BY DEF Publication, CurrentPublication
<1>2. Tables[m] = IF m = 0 THEN NoTables ELSE Facts[m]
  BY DEF Tables
<1>3. NoTables.run = Nothing
  BY DEF NoTables
<1>4. m # 0 /\ m \in 1..Len(Facts)
  BY <1>1, <1>2, <1>3 DEF Snapshots
<1> QED
  BY <1>1, <1>2, <1>4, SeedsSigned

\* A publication that names this snapshot is the publication of this snapshot.
LEMMA PublicationOf ==
  ASSUME NEW m \in Snapshots, NEW n \in Snapshots, Publication(m) # Nothing, Name(n) # Nothing,
         Publication(m).snapshot = Name(n)
  PROVE  m = n
<1>1. Name(n) = n
  BY DEF Name
<1> QED
  BY <1>1, PublicationSigned

\* Data is called current under its own publication only.
LEMMA FreshHonest ==
  ASSUME NEW m \in Snapshots, NEW n \in Snapshots
  PROVE  LET view == FreshnessView(Name(n), Publication(m))
         IN  view.state \in {"inconsistent", "unavailable"} \/ view = FreshnessView(Name(n), Publication(n))
<1> DEFINE state == PublicationHealth(Name(n), Publication(m))
           view == FreshnessView(Name(n), Publication(m))
<1>1. CASE state \in {"inconsistent", "unavailable"}
  <2>1. view = [state |-> state]
    BY <1>1 DEF FreshnessView
  <2>2. view.state = state
    BY <2>1
  <2> QED
    BY <1>1, <2>2
<1>2. CASE state \notin {"inconsistent", "unavailable"}
  <2>1. /\ Name(n) # Nothing /\ Publication(m) # Nothing
        /\ Publication(m).snapshot = Name(n)
    BY <1>2 DEF PublicationHealth
  <2>2. m = n
    BY <2>1, PublicationOf
  <2> QED
    BY <2>2
<1> QED
  BY <1>1, <1>2

\* What a season of Europe says, with the stage reached or without it.
LEMMA EuropeanEntries ==
  ASSUME NEW n \in Snapshots, NEW stages \in {Tables[n].stages, {}},
         ClHistoryRows(Artifact, Tables[n].seasons, stages) # Invalid
  PROVE  LET some == ClHistoryRows(Artifact, Tables[n].seasons, stages)
             full == ClHistoryRows(Artifact, Tables[n].seasons, Tables[n].stages)
         IN  /\ full # Invalid /\ DOMAIN some = EuropeanSeasons(Artifact) /\ DOMAIN full = EuropeanSeasons(Artifact)
             /\ \A s \in EuropeanSeasons(Artifact) :
                  /\ some[s] = full[s] \/ some[s] = [full[s] EXCEPT !.stage = Nothing]
                  /\ some[s] = Gap <=> full[s] = Gap
<1> DEFINE seasons == EuropeanSeasons(Artifact)
           rows == Tables[n].seasons
           all == Tables[n].stages
           found == {r \in rows : r.competition = "CL" /\ r.season \in seasons}
           wrong == \E r \in found : r.counts.played # r.counts.won + r.counts.drawn + r.counts.lost
           stageOf(given, s) == {t \in given : t.season = s}
           row(s) == TheOnly({r \in found : r.season = s})
           stage(given, s) == IF Cardinality(stageOf(given, s)) = 1 THEN TheOnly(stageOf(given, s)).stage ELSE Nothing
           entry(given, s) == IF \E r \in found : r.season = s
                              THEN [counts |-> row(s).counts, stage |-> stage(given, s)] ELSE Gap
           entries == [counts : {r.counts : r \in rows}, stage : {Nothing} \cup {t.stage : t \in all}]
<1>1. \A given : ClHistoryRows(Artifact, rows, given)
                   = IF wrong THEN Invalid ELSE [s \in seasons |-> entry(given, s)]
  BY DEF ClHistoryRows
<1>2. ~wrong
  BY <1>1
<1>3. \A r \in found : r \in rows
  OBVIOUS
<1>4. ASSUME NEW s \in seasons, \E r \in found : r.season = s
      PROVE  row(s) \in found
  BY <1>4 DEF TheOnly
<1>5. ASSUME NEW given \in {all, {}}, NEW s
      PROVE  stage(given, s) \in {Nothing} \cup {t.stage : t \in all}
  <2>1. CASE Cardinality(stageOf(given, s)) = 1
    <3>1. stageOf(given, s) # {}
      BY <2>1, FS_EmptySet
    <3>2. TheOnly(stageOf(given, s)) \in stageOf(given, s)
      BY <3>1 DEF TheOnly
    <3>3. TheOnly(stageOf(given, s)) \in all
      BY <3>2
    <3> QED
      BY <3>3
  <2>2. CASE Cardinality(stageOf(given, s)) # 1
    BY <2>2
  <2> QED
    BY <2>1, <2>2
<1>6. \A s : stage({}, s) = Nothing
  <2>1. \A s : stageOf({}, s) = {}
    OBVIOUS
  <2>2. Cardinality({}) = 0
    BY FS_EmptySet
  <2> QED
    BY <2>1, <2>2
<1> HIDE DEF seasons, found, wrong, row, stage, stageOf
<1>7. ASSUME NEW given \in {all, {}}, NEW s \in seasons, \E r \in found : r.season = s
      PROVE  entry(given, s) \in entries
  <2>1. row(s).counts \in {r.counts : r \in rows}
    BY <1>3, <1>4, <1>7
  <2> QED
    BY <1>5, <1>7, <2>1
<1>8. \A given \in {all, {}} : ClHistoryRows(Artifact, rows, given) = [s \in seasons |-> entry(given, s)]
  BY <1>1, <1>2
<1>9. ClHistoryRows(Artifact, rows, all) # Invalid
  <2>1. CASE n = 0
    <3>1. all = {}
      BY <2>1 DEF Tables, NoTables, Snapshots
    <3> QED
      BY <3>1
  <2>2. CASE n # 0
    <3>1. n \in 1..Len(Facts) /\ Tables[n] = Facts[n]
      BY <2>2 DEF Tables, Snapshots
    <3>2. Invalid \notin [seasons -> entries \cup {Gap}]
      BY <3>1, NamesApart DEF seasons
    <3>3. \A s \in seasons : entry(all, s) \in entries \cup {Gap}
      BY <1>7
    <3> HIDE DEF entry, entries
    <3>4. [s \in seasons |-> entry(all, s)] \in [seasons -> entries \cup {Gap}]
      BY <3>3
    <3> QED
      BY <1>8, <3>2, <3>4
  <2> QED
    BY <2>1, <2>2
<1>10. ASSUME NEW given \in {all, {}}, NEW s \in seasons
       PROVE  entry(given, s) = Gap <=> ~\E r \in found : r.season = s
  <2>1. CASE \E r \in found : r.season = s
    <3>1. n # 0
      BY <1>3, <2>1 DEF Tables, NoTables, Snapshots
    <3>2. n \in 1..Len(Facts) /\ Tables[n] = Facts[n]
      BY <3>1 DEF Tables, Snapshots
    <3>3. Gap \notin entries
      BY <3>2, NamesApart
    <3>4. entry(given, s) \in entries
      BY <1>7, <2>1
    <3> QED
      BY <2>1, <3>3, <3>4
  <2>2. CASE ~\E r \in found : r.season = s
    BY <2>2
  <2> QED
    BY <2>1, <2>2
<1>11. ASSUME NEW s \in seasons
       PROVE  entry({}, s) = entry(all, s) \/ entry({}, s) = [entry(all, s) EXCEPT !.stage = Nothing]
  <2>1. CASE \E r \in found : r.season = s
    <3>1. /\ entry({}, s) = [counts |-> row(s).counts, stage |-> Nothing]
          /\ entry(all, s) = [counts |-> row(s).counts, stage |-> stage(all, s)]
      BY <1>6, <2>1
    <3> HIDE DEF entry
    <3> QED
      BY <3>1
  <2>2. CASE ~\E r \in found : r.season = s
    BY <2>2
  <2> QED
    BY <2>1, <2>2
<1> DEFINE some == [s \in seasons |-> entry(stages, s)]
           full == [s \in seasons |-> entry(all, s)]
<1>12. ClHistoryRows(Artifact, rows, stages) = some /\ ClHistoryRows(Artifact, rows, all) = full
  BY <1>8
<1>13. ASSUME NEW s \in seasons
       PROVE  /\ entry(stages, s) = entry(all, s) \/ entry(stages, s) = [entry(all, s) EXCEPT !.stage = Nothing]
              /\ entry(stages, s) = Gap <=> entry(all, s) = Gap
  <2>1. stages \in {all, {}}
    OBVIOUS
  <2>2. entry(stages, s) = Gap <=> entry(all, s) = Gap
    BY <1>10, <2>1
  <2> HIDE DEF entry
  <2>3. entry(stages, s) = entry(all, s) \/ entry(stages, s) = [entry(all, s) EXCEPT !.stage = Nothing]
    BY <1>11, <2>1
  <2> QED
    BY <2>2, <2>3
<1> HIDE DEF entry
<1>14. /\ DOMAIN some = seasons /\ DOMAIN full = seasons
       /\ \A s \in seasons : /\ some[s] = full[s] \/ some[s] = [full[s] EXCEPT !.stage = Nothing]
                             /\ some[s] = Gap <=> full[s] = Gap
  BY <1>13
<1> HIDE DEF some, full
<1> QED
  BY <1>9, <1>12, <1>14 DEF seasons

\* Europe shows the totals of the snapshot it names, or nothing; a stage of another snapshot
\* it leaves blank.
LEMMA EuropeHonest ==
  ASSUME NEW n \in Snapshots, NEW F, F["batch"] = Tables[n], NEW m \in Snapshots,
         F["publication"] = Tables[m], F["stages"].stages \in {Tables[n].stages, {}},
         ChampionsLeagueAnswer(Name(n), F) # Invalid
  PROVE  LET shown == ChampionsLeagueAnswer(Name(n), F)
             promised == ChampionsLeagueAnswer(Name(n), AllOf(n))
         IN  \A s \in DOMAIN promised :
               shown[s] = promised[s] \/ shown[s] = [promised[s] EXCEPT !.stage = Nothing]
<1> DEFINE stages == F["stages"].stages
           some == ClHistoryRows(Artifact, Tables[n].seasons, stages)
           full == ClHistoryRows(Artifact, Tables[n].seasons, Tables[n].stages)
           executable(s) == CanExecute(CheckFeasibility(Artifact,
             WithDefaults([metric |-> "goals", entity_type |-> "season", entity_id |-> All, season |-> s,
                           competition |-> "CL", viz |-> "table", limit |-> 1]), FALSE))
           closed(k) == Publication(k).sources["openfootball_cl"].status = "unavailable"
           answer(k, entries) ==
             IF Name(n) = Nothing \/ Publication(k) = Nothing \/ entries = Invalid THEN Invalid
             ELSE IF Publication(k).snapshot # Name(n) THEN Invalid
             ELSE IF closed(k) /\ \E s \in DOMAIN entries : entries[s] # Gap THEN Invalid
             ELSE [s \in DOMAIN entries |-> IF executable(s) THEN entries[s] ELSE Gap]
           shown == ChampionsLeagueAnswer(Name(n), F)
           promised == ChampionsLeagueAnswer(Name(n), AllOf(n))
           seasons == EuropeanSeasons(Artifact)
<1>1. shown = answer(m, some)
  BY DEF ChampionsLeagueAnswer, Publication
<1>2. promised = answer(n, full)
  <2>1. /\ AllOf(n)["batch"] = Tables[n] /\ AllOf(n)["stages"] = Tables[n]
        /\ AllOf(n)["publication"] = Tables[n]
    BY DEF AllOf, TableReads
  <2> QED
    BY <2>1 DEF ChampionsLeagueAnswer, Publication
<1>3. shown # Invalid
  OBVIOUS
<1> HIDE DEF shown, promised, executable, closed, seasons
<1>4. /\ Name(n) # Nothing /\ Publication(m) # Nothing /\ some # Invalid /\ Publication(m).snapshot = Name(n)
      /\ ~(closed(m) /\ \E s \in DOMAIN some : some[s] # Gap)
  BY <1>1, <1>3
<1>5. m = n
  BY <1>4, PublicationOf
<1>6. /\ full # Invalid /\ DOMAIN some = seasons /\ DOMAIN full = seasons
      /\ \A s \in seasons : /\ some[s] = full[s] \/ some[s] = [full[s] EXCEPT !.stage = Nothing]
                            /\ some[s] = Gap <=> full[s] = Gap
  BY <1>4, EuropeanEntries DEF seasons
<1> HIDE DEF some, full
<1>7. ~(closed(n) /\ \E s \in DOMAIN full : full[s] # Gap)
  BY <1>4, <1>5, <1>6
<1>8. /\ shown = [s \in seasons |-> IF executable(s) THEN some[s] ELSE Gap]
      /\ promised = [s \in seasons |-> IF executable(s) THEN full[s] ELSE Gap]
  BY <1>1, <1>2, <1>4, <1>5, <1>6, <1>7
<1>9. ASSUME NEW s \in DOMAIN promised
      PROVE  shown[s] = promised[s] \/ shown[s] = [promised[s] EXCEPT !.stage = Nothing]
  <2>1. s \in seasons
    BY <1>8
  <2>2. CASE executable(s)
    <3>1. shown[s] = some[s] /\ promised[s] = full[s]
      BY <1>8, <2>1, <2>2
    <3> QED
      BY <1>6, <2>1, <3>1
  <2>3. CASE ~executable(s)
    BY <1>8, <2>1, <2>3
  <2> QED
    BY <2>2, <2>3
<1> QED
  BY <1>9 DEF shown, promised

\* What these pages answer is what their snapshot says, or says that it may not be.
LEMMA WatchingHonest ==
  ASSUME NEW call, NEW imp \in Snapshots, WatchingOK(call, imp), RequestOf(call).page \in Watching,
         call.stages = <<>>, NEW intent
  PROVE  /\ NamedSnapshot(call) \in Snapshots
         /\ Honest(call, AnswerTo(RequestOf(call), intent, Name(NamedSnapshot(call)), AllOf(NamedSnapshot(call))))
<1> DEFINE r == RequestOf(call)
           n == NamedSnapshot(call)
           m == call.at["publication"]
           F == Saw(call)
           answer == AnswerTo(r, call.intent, Shown(call), F)
<1>1. Left(call.stages) = {}
  BY LeftFew
<1>2. {NameOf(call), "publication"} \subseteq DOMAIN call.at
  BY <1>1 DEF WatchingOK
<1>3. call.answer = answer /\ call.answer # Invalid
  <2>1. \A s : call.stages # <<s, {"reply"}>>
    <3>1. \A s : Len(<<s, {"reply"}>>) = 2
      OBVIOUS
    <3>2. Len(<<>>) = 0
      OBVIOUS
    <3> QED
      BY <3>1, <3>2
  <2>2. call.stages # <<{"reply"}>>
    OBVIOUS
  <2> QED
    BY <2>1, <2>2 DEF WatchingOK
<1>4. 0..imp \subseteq Snapshots
  BY DEF Snapshots
<1>5. m \in Snapshots /\ n \in Snapshots
  BY <1>2, <1>4 DEF WatchingOK, NamedSnapshot, NameOf
<1>6. F["publication"] = Tables[m]
  <2>1. "publication" \in TableReads /\ "publication" \notin OwnSnapshotOnly
    BY DEF TableReads, OwnSnapshotOnly
  <2> QED
    BY <1>2, <2>1, SawOf
<1>7. Shown(call) = Name(n)
  BY <1>2 DEF Shown, NameOf
<1>8. CASE r.page = "cl"
  <2>1. n = call.at["batch"] /\ "batch" \in DOMAIN call.at
    BY <1>2, <1>8, NamesOf DEF NamedSnapshot, NameOf
  <2>2. F["batch"] = Tables[n]
    <3>1. "batch" \in TableReads
      BY DEF TableReads
    <3> QED
      BY <2>1, <3>1, SawOf
  <2>3. F["stages"] \in {Tables[n], NoTables}
    <3>1. "stages" \in TableReads /\ "stages" \in OwnSnapshotOnly
      BY DEF TableReads, OwnSnapshotOnly
    <3> QED
      BY <3>1, SawOf
  <2>4. F["stages"].stages \in {Tables[n].stages, {}}
    BY <2>3 DEF NoTables
  <2>5. call.answer = ChampionsLeagueAnswer(Name(n), F)
    BY <1>3, <1>7, <1>8 DEF AnswerTo
  <2> HIDE DEF F, n, m, r
  <2>6. \A s \in DOMAIN ChampionsLeagueAnswer(Name(n), AllOf(n)) :
          \/ call.answer[s] = ChampionsLeagueAnswer(Name(n), AllOf(n))[s]
          \/ call.answer[s] = [ChampionsLeagueAnswer(Name(n), AllOf(n))[s] EXCEPT !.stage = Nothing]
    BY <1>3, <1>5, <1>6, <2>2, <2>4, <2>5, EuropeHonest
  <2>7. AnswerTo(r, intent, Name(n), AllOf(n)) = ChampionsLeagueAnswer(Name(n), AllOf(n))
    BY <1>8 DEF AnswerTo
  <2> QED
    BY <1>5, <1>8, <2>6, <2>7 DEF Honest, r, n
<1> DEFINE view == FreshnessView(Name(n), Publication(m))
           claim == FreshnessView(Name(n), Publication(n))
<1>9. view.state \in {"inconsistent", "unavailable"} \/ view = claim
  BY <1>5, FreshHonest
<1>10. CurrentPublication(F["publication"].run) = Publication(m)
  BY <1>6 DEF Publication
<1>11. CurrentPublication(AllOf(n)["publication"].run) = Publication(n)
  BY DEF AllOf, TableReads, Publication
<1>12. CASE r.page = "health"
  <2>1. call.answer = view
    BY <1>3, <1>7, <1>10, <1>12 DEF AnswerTo, HealthAnswer
  <2>2. AnswerTo(r, intent, Name(n), AllOf(n)) = claim
    BY <1>11, <1>12 DEF AnswerTo, HealthAnswer
  <2> HIDE DEF view, claim, n
  <2> QED
    BY <1>5, <1>9, <1>12, <2>1, <2>2 DEF Honest, n
<1>13. CASE r.page = "home"
  <2>1. call.answer.freshness = view
    BY <1>3, <1>7, <1>10, <1>13 DEF AnswerTo, HomeAnswer
  <2>2. AnswerTo(r, intent, Name(n), AllOf(n)).freshness = claim
    BY <1>11, <1>13 DEF AnswerTo, HomeAnswer
  <2> HIDE DEF view, claim, n
  <2> QED
    BY <1>5, <1>9, <1>13, <2>1, <2>2 DEF Honest, n
<1> QED
  BY <1>8, <1>12, <1>13 DEF Watching

----------------------------------------------------------------------------
(***************************************************************************)
(* What the invariant says of the answers.                                 *)
(***************************************************************************)

\* A snapshot that was named is one that was imported.
LEMMA NamedImported ==
  ASSUME NEW call, NEW imp \in Snapshots, ReadsOK(call, imp), NameOf(call) \in DOMAIN call.at
  PROVE  NamedSnapshot(call) \in Snapshots /\ NamedSnapshot(call) \in 0..imp
<1>1. NamedSnapshot(call) \in 0..imp
  BY DEF ReadsOK, NamedSnapshot, NameOf
<1> QED
  BY <1>1 DEF Snapshots

\* A query is answered with its rows, or with none.
LEMMA AnsweredQuery ==
  ASSUME NEW call, NEW imp \in Snapshots, QueryOK(call, imp), RequestOf(call).page \in Querying,
         call.stages = <<>>
  PROVE  /\ NamedSnapshot(call) \in Snapshots /\ IntentOK(call)
         /\ call.answer \in {QueryAnswer(call.intent, AllOf(NamedSnapshot(call))), NoRows}
<1>1. Left(call.stages) = {}
  BY LeftFew
<1>2. \A S, T : <<S>> # <<>> /\ <<S, T>> # <<>>
  <2>1. \A S, T : Len(<<S>>) = 1 /\ Len(<<S, T>>) = 2
    OBVIOUS
  <2>2. Len(<<>>) = 0
    OBVIOUS
  <2> QED
    BY <2>1, <2>2
<1>3. /\ IntentOK(call) /\ "name" \in DOMAIN call.at /\ ReadsOK(call, imp)
      /\ \/ call.answer = NoRows
         \/ ValidateExecutionSupport(call.intent) /\ ComputingOK(call, imp)
         \/ call.answer = QueryAnswer(call.intent, AllOf(NamedSnapshot(call)))
  BY <1>2 DEF QueryOK
<1>4. NameOf(call) = "name"
  BY NamesOf DEF NameOf, Querying
<1>5. NamedSnapshot(call) \in Snapshots
  BY <1>3, <1>4, NamedImported
<1>6. CASE ValidateExecutionSupport(call.intent) /\ ComputingOK(call, imp)
  <2>1. call.answer = QueryAnswer(call.intent, AllOf(NamedSnapshot(call)))
    BY <1>1, <1>5, <1>6, QueryHonest
  <2> QED
    BY <1>3, <1>5, <2>1
<1> QED
  BY <1>3, <1>5, <1>6

\* So every answer is honest.
LEMMA AnswersFollow ==
  ASSUME IInv, CallsHonest
  PROVE  AnsweredAsAsked
<1> SUFFICES ASSUME NEW c \in Calls, calls[c].outcome = "answered",
                    RequestOf(calls[c]).page \notin {"chat", "compare", "season", "player"}
             PROVE  Honest(calls[c], Promised[calls[c].req][NamedSnapshot(calls[c])])
  BY DEF AnsweredAsAsked
<1> DEFINE call == calls[c]
           r == RequestOf(call)
           n == NamedSnapshot(call)
           promised == AnswerTo(r, Intended(r), Name(n), AllOf(n))
<1>1. call.req \in DOMAIN Requests /\ imported \in Snapshots
  <2>1. call # Idle
    BY DEF Idle
  <2> QED
    BY <2>1 DEF IInv, KeptOK, CallsOK, CallOK, Running
<1>2. r.page \in Reading \cup Querying \cup Watching
  BY <1>1, RoutesKnown DEF Routes, Reading, Querying, Watching, RequestOf
<1>3. Honest(call, Promised[call.req][n])
  <2>1. Follow(call) /\ CallHonest(call, imported)
    BY <1>2 DEF Follow, CallsHonest
  <2>2. /\ Enter(r).outcome = "pending" /\ call.stages = <<>>
        /\ r.page \in Reading => ComputingOK(call, imported)
        /\ r.page \in Querying => QueryOK(call, imported)
        /\ r.page \in Watching => WatchingOK(call, imported)
    BY <2>1 DEF CallHonest
  <2>3. n \in Snapshots => Promised[call.req][n] = promised
    <3>1. r.page # "chat"
      OBVIOUS
    <3> QED
      BY <1>1, <2>2, <3>1 DEF Promised, AllOf, RequestOf
  <2>4. CASE r.page \in Reading
    <3>1. ComputingOK(call, imported) /\ Left(call.stages) = {}
      BY <2>2, <2>4, LeftFew
    <3>2. n \in Snapshots
      BY <1>1, <3>1, NamedImported DEF ComputingOK
    <3>3. r.page # "trends" => call.answer = promised
      BY <2>4, <3>1, ReadingHonest
    <3>4. r.page = "trends" => TrendsHonest(call, promised)
      <4>1. r.page = "trends" => promised = TrendsAnswer(r.ask, AllOf(n))
        BY DEF AnswerTo
      <4> QED
        BY <1>1, <3>1, <4>1, TrendsFollow
    <3>5. Honest(call, promised)
      <4> HIDE DEF promised
      <4> QED
        BY <2>4, <3>3, <3>4 DEF Honest, Reading
    <3> QED
      BY <2>3, <3>2, <3>5
  <2>5. CASE r.page \in Querying
    <3>1. /\ n \in Snapshots /\ IntentOK(call)
          /\ call.answer \in {QueryAnswer(call.intent, AllOf(n)), NoRows}
      BY <1>1, <2>2, <2>5, AnsweredQuery
    <3>2. promised = QueryAnswer(call.intent, AllOf(n))
      BY <2>5, <3>1 DEF AnswerTo, IntentOK, Querying
    <3>3. Honest(call, promised)
      <4> HIDE DEF promised
      <4> QED
        BY <2>5, <3>1, <3>2 DEF Honest, Querying, IntentOK
    <3> QED
      BY <2>3, <3>1, <3>3
  <2>6. CASE r.page \in Watching
    <3>1. n \in Snapshots /\ Honest(call, promised)
      BY <1>1, <2>2, <2>6, WatchingHonest
    <3> QED
      BY <2>3, <3>1
  <2> QED
    BY <1>2, <2>4, <2>5, <2>6
<1> QED
  BY <1>3

----------------------------------------------------------------------------
(***************************************************************************)
(* One request steps.                                                      *)
(***************************************************************************)

\* Requests that differ in what they count and in how they end.
Alike(x, call) ==
  /\ x.req = call.req /\ x.stages = call.stages /\ x.answer = call.answer
  /\ x.intent = call.intent /\ x.known = call.known /\ x.at = call.at

\* They are honest alike.
LEMMA AlikeHonest ==
  ASSUME NEW x, NEW call, Alike(x, call), NEW imp
  PROVE  /\ RequestOf(x) = RequestOf(call)
         /\ ComputingOK(call, imp) => ComputingOK(x, imp)
         /\ QueryOK(call, imp) => QueryOK(x, imp)
         /\ WatchingOK(call, imp) => WatchingOK(x, imp)
<1>1. /\ x.req = call.req /\ x.stages = call.stages /\ x.answer = call.answer
      /\ x.intent = call.intent /\ x.known = call.known /\ x.at = call.at
  BY DEF Alike
<1>2. /\ RequestOf(x) = RequestOf(call) /\ NameOf(x) = NameOf(call)
      /\ NamedSnapshot(x) = NamedSnapshot(call) /\ Shown(x) = Shown(call) /\ Saw(x) = Saw(call)
      /\ Unfound(x) <=> Unfound(call)
  BY <1>1, SameView
<1>3. /\ ReadsOK(call, imp) => ReadsOK(x, imp)
      /\ Gathering(call) => Gathering(x)
  <2>1. ReadsOK(call, imp) => ReadsOK(x, imp)
    BY <1>1, <1>2 DEF ReadsOK
  <2>2. QueryGathering(call) => QueryGathering(x)
    BY <1>1, <1>2 DEF QueryGathering
  <2> QED
    BY <1>1, <1>2, <2>1, <2>2 DEF Gathering
<1>4. /\ RepliedOK(call) => RepliedOK(x)
      /\ RecheckedOK(call) => RecheckedOK(x)
  BY <1>1, <1>2 DEF RepliedOK, RecheckedOK
<1>5. ComputingOK(call, imp) => ComputingOK(x, imp)
  BY <1>1, <1>2, <1>3, <1>4 DEF ComputingOK
<1>6. IntentOK(call) => IntentOK(x)
  BY <1>1, <1>2 DEF IntentOK
<1>7. QueryOK(call, imp) => QueryOK(x, imp)
  BY <1>1, <1>2, <1>3, <1>5, <1>6 DEF QueryOK
<1>8. WatchingOK(call, imp) => WatchingOK(x, imp)
  BY <1>1, <1>2 DEF WatchingOK
<1> QED
  BY <1>2, <1>5, <1>7, <1>8

\* A request in flight and what it becomes.
LEMMA HonestEnds ==
  ASSUME NEW call, DOMAIN call = CallFields, NEW imp, CallHonest(call, imp), call.stages = <<>>,
         call.outcome = "pending"
  PROVE  CallHonest(Ends(call, "answered"), imp)
<1> DEFINE x == Ends(call, "answered")
<1>1. x.outcome = "answered" /\ x.stages = <<>> /\ Alike(x, call)
  BY DEF Ends, CallFields, Alike
<1>2. /\ RequestOf(x) = RequestOf(call)
      /\ ComputingOK(call, imp) => ComputingOK(x, imp)
      /\ QueryOK(call, imp) => QueryOK(x, imp)
      /\ WatchingOK(call, imp) => WatchingOK(x, imp)
  BY <1>1, AlikeHonest
<1> HIDE DEF x
<1>3. Follow(x) => Follow(call)
  BY <1>1, <1>2 DEF Follow
<1> QED
  BY <1>1, <1>2, <1>3 DEF CallHonest, x

\* Whatever it is, a request that was given up shows nothing.
LEMMA GivenUp ==
  ASSUME NEW call, DOMAIN call = CallFields, NEW outcome \in Ended \ {"answered"}, NEW imp
  PROVE  CallHonest(Ends(call, outcome), imp)
<1>1. Ends(call, outcome).outcome = outcome
  BY DEF Ends, CallFields
<1>2. outcome \notin {"pending", "answered"}
  BY DEF Ended
<1> QED
  BY <1>1, <1>2 DEF CallHonest, Follow

\* One request becomes another or its answer, the others stay.
LEMMA BecomesHonest ==
  ASSUME CallsOK, CallsHonest, NEW c \in Calls, NEW call, Becomes(c, call), DOMAIN call = CallFields,
         CallHonest(call, imported), imported' = imported
  PROVE  CallsHonest'
<1> DEFINE x == IF call.stages = <<>> /\ call.outcome = "pending" THEN Ends(call, "answered") ELSE call
<1>1. CallHonest(x, imported)
  BY HonestEnds
<1>2. calls' = [calls EXCEPT ![c] = x]
  BY DEF Becomes
<1> HIDE DEF x
<1>3. \A e \in Calls : CallHonest(calls'[e], imported)
  BY <1>1, <1>2 DEF CallsOK, CallsHonest
<1> QED
  BY <1>3 DEF CallsHonest

\* The first stage of few.
LEMMA Heads ==
  /\ \A S : Head(<<S>>) = S /\ Tail(<<S>>) = <<>> /\ <<S>> # <<>>
  /\ \A S, T : Head(<<S, T>>) = S /\ Tail(<<S, T>>) = <<T>> /\ <<S, T>> # <<>>
  /\ \A S : Left(<<S>>) = S
  /\ \A S, T : Left(<<S, T>>) = S \cup T
<1>1. \A S : Head(<<S>>) = S /\ Tail(<<S>>) = <<>> /\ <<S>> # <<>>
  <2>1. ASSUME NEW S
        PROVE  Head(<<S>>) = S /\ Tail(<<S>>) = <<>> /\ <<S>> # <<>>
    OBVIOUS
  <2> QED
    BY <2>1
<1>2. ASSUME NEW S, NEW T
      PROVE  Head(<<S, T>>) = S /\ Tail(<<S, T>>) = <<T>> /\ <<S, T>> # <<>>
  <2> DEFINE st == <<S, T>>
  <2>1. st \in Seq({S, T}) /\ Len(st) = 2 /\ st[1] = S /\ st[2] = T
    OBVIOUS
  <2> HIDE DEF st
  <2>2. Tail(st) \in Seq({S, T}) /\ Len(Tail(st)) = 1 /\ Tail(st)[1] = st[2] /\ Head(st) = st[1]
    BY <2>1
  <2>3. Tail(st) = <<Tail(st)[1]>>
    <3> DEFINE t == Tail(st)
    <3>1. t \in Seq({S, T}) /\ Len(t) = 1
      BY <2>2
    <3> HIDE DEF t
    <3>2. t = <<t[1]>>
      BY <3>1
    <3> QED
      BY <3>2 DEF t
  <2>4. st # <<>>
    BY <2>1
  <2> QED
    BY <2>1, <2>2, <2>3, <2>4 DEF st
<1>3. ASSUME NEW S, NEW T
      PROVE  Left(<<S, T>>) = S \cup T
  <2>1. Len(<<S, T>>) = 2 /\ <<S, T>>[1] = S /\ <<S, T>>[2] = T
    OBVIOUS
  <2>2. \A i : i \in 1..2 <=> i = 1 \/ i = 2
    OBVIOUS
  <2> QED
    BY <2>1, <2>2 DEF Left
<1> QED
  BY <1>1, <1>2, <1>3, LeftFew

\* An await that was alone in its stage.
LEMMA DoneAlone ==
  ASSUME NEW call, DOMAIN call = CallFields, NEW a, Head(call.stages) = {a}
  PROVE  LET x == Done(call, a, {})
         IN  /\ x = [call EXCEPT !.stages = Tail(@)] /\ x.stages = Tail(call.stages) /\ DOMAIN x = CallFields
             /\ x.req = call.req /\ x.answer = call.answer /\ x.intent = call.intent /\ x.at = call.at
             /\ x.known = call.known /\ x.outcome = call.outcome
<1>1. (Head(call.stages) \ {a}) \cup {} = {}
  OBVIOUS
<1>2. Done(call, a, {}) = [call EXCEPT !.stages = Tail(@)]
  BY <1>1 DEF Done
<1> QED
  BY <1>2 DEF CallFields

\* What a query may await.
LEMMA QueryAwait ==
  ASSUME NEW call, NEW imp, QueryOK(call, imp), RequestOf(call).page \in Querying,
         call.stages \in Seq(Stages), call.stages # <<>>, NEW a \in Head(call.stages)
  PROVE  /\ Head(call.stages) = {a}
         /\ \/ /\ RequestOf(call).page = "ask" /\ call.at = <<>>
               /\ \/ a = "names" /\ Tail(call.stages) = <<{"model"}>>
                  \/ a = "model" /\ Tail(call.stages) = <<>>
            \/ IntentOK(call) /\ call.at = <<>> /\ a = "name" /\ Tail(call.stages) = <<>>
            \/ /\ IntentOK(call) /\ "name" \in DOMAIN call.at /\ ReadsOK(call, imp)
               /\ \/ call.answer = NoRows /\ a = "save" /\ Tail(call.stages) = <<>>
                  \/ /\ ValidateExecutionSupport(call.intent)
                     /\ \/ DOMAIN call.at = {"name"} /\ a = "lookup"
                        \/ ComputingOK(call, imp) /\ a \in Awaited(RequestOf(call).page) \ {"name"}
                        \/ /\ call.answer = QueryAnswer(call.intent, AllOf(NamedSnapshot(call)))
                           /\ \/ a = "save" /\ Tail(call.stages) = <<>>
                              \/ a = "recheck" /\ Tail(call.stages) \in {<<>>, <<{"save"}>>}
<1> DEFINE s == call.stages
           page == RequestOf(call).page
<1>1. /\ s = <<{"names"}, {"model"}>> => Head(s) = {"names"} /\ Tail(s) = <<{"model"}>>
      /\ s = <<{"model"}>> => Head(s) = {"model"} /\ Tail(s) = <<>>
      /\ s = <<{"name"}>> => Head(s) = {"name"} /\ Tail(s) = <<>>
      /\ s = <<{"save"}>> => Head(s) = {"save"} /\ Tail(s) = <<>>
      /\ s = <<{"lookup"}>> => Head(s) = {"lookup"}
      /\ s = <<{"recheck"}>> => Head(s) = {"recheck"} /\ Tail(s) = <<>>
      /\ s = <<{"recheck"}, {"save"}>> => Head(s) = {"recheck"} /\ Tail(s) = <<{"save"}>>
  BY Heads, Zenon
<1>2. s # <<>> /\ a \in Head(s)
  OBVIOUS
<1>3. CASE page = "ask" /\ call.at = <<>> /\ s \in {<<{"names"}, {"model"}>>, <<{"model"}>>}
  <2> HIDE DEF s, page
  <2>1. Head(s) = {a} /\ \/ a = "names" /\ Tail(s) = <<{"model"}>>
                         \/ a = "model" /\ Tail(s) = <<>>
    BY <1>1, <1>2, <1>3
  <2> QED
    BY <1>3, <2>1 DEF s, page
<1>4. CASE IntentOK(call) /\ call.at = <<>> /\ s = <<{"name"}>>
  BY <1>1, <1>2, <1>4
<1>5. CASE /\ IntentOK(call) /\ "name" \in DOMAIN call.at /\ ReadsOK(call, imp)
           /\ call.answer = NoRows /\ s \in {<<>>, <<{"save"}>>}
  BY <1>1, <1>2, <1>5
<1>6. CASE /\ IntentOK(call) /\ "name" \in DOMAIN call.at /\ ReadsOK(call, imp)
           /\ ValidateExecutionSupport(call.intent) /\ DOMAIN call.at = {"name"} /\ s = <<{"lookup"}>>
  BY <1>1, <1>2, <1>6
<1>7. CASE /\ IntentOK(call) /\ "name" \in DOMAIN call.at /\ ReadsOK(call, imp)
           /\ ValidateExecutionSupport(call.intent) /\ ComputingOK(call, imp)
  <2>1. PICK b \in Awaited(page) : Head(s) = {b} /\ Left(s) = {b} \cup Left(Tail(s))
    BY <1>7, Popped DEF ComputingOK
  <2>2. Head(s) = {a} /\ a \in Awaited(page) /\ a \in Left(s)
    BY <1>2, <2>1
  <2>3. NameOf(call) = "name"
    BY NamesOf DEF NameOf, Querying
  <2>4. a # "name"
    BY <1>7, <2>2, <2>3 DEF ComputingOK
  <2> QED
    BY <1>7, <2>2, <2>4
<1>8. CASE /\ IntentOK(call) /\ "name" \in DOMAIN call.at /\ ReadsOK(call, imp)
           /\ ValidateExecutionSupport(call.intent)
           /\ call.answer = QueryAnswer(call.intent, AllOf(NamedSnapshot(call)))
           /\ s \in {<<>>, <<{"save"}>>, <<{"recheck"}>>, <<{"recheck"}, {"save"}>>}
  <2> HIDE DEF s
  <2>1. /\ Head(s) = {a}
        /\ \/ a = "save" /\ Tail(s) = <<>>
           \/ a = "recheck" /\ Tail(s) \in {<<>>, <<{"save"}>>}
    BY <1>1, <1>2, <1>8
  <2> QED
    BY <1>8, <2>1 DEF s
<1> QED
  BY <1>3, <1>4, <1>5, <1>6, <1>7, <1>8 DEF QueryOK

\* What a page of the others may await.
LEMMA WatchingAwait ==
  ASSUME NEW call, NEW imp, WatchingOK(call, imp), call.stages # <<>>, NEW a \in Head(call.stages)
  PROVE  \/ /\ Head(call.stages) \subseteq Watched(RequestOf(call).page)
            /\ call.stages = <<Head(call.stages), {"reply"}>> /\ Tail(call.stages) = <<{"reply"}>>
         \/ a = "reply" /\ call.stages = <<{"reply"}>> /\ Head(call.stages) = {"reply"}
            /\ Tail(call.stages) = <<>>
<1>1. CASE call.stages = <<{"reply"}>>
  <2>1. Head(<<{"reply"}>>) = {"reply"} /\ Tail(<<{"reply"}>>) = <<>>
    BY Heads
  <2> QED
    BY <1>1, <2>1
<1>2. CASE \E s \in SUBSET Watched(RequestOf(call).page) : s # {} /\ call.stages = <<s, {"reply"}>>
  <2>1. PICK s \in SUBSET Watched(RequestOf(call).page) : call.stages = <<s, {"reply"}>>
    BY <1>2
  <2>2. Head(<<s, {"reply"}>>) = s /\ Tail(<<s, {"reply"}>>) = <<{"reply"}>>
    BY Heads
  <2> QED
    BY <2>1, <2>2
<1> QED
  BY <1>1, <1>2 DEF WatchingOK

\* What a page that asks again may await, when it is no query.
LEMMA ReadingAwait ==
  ASSUME NEW call, NEW imp, ComputingOK(call, imp), RequestOf(call).page \in Reading,
         call.stages \in Seq(Stages), call.stages # <<>>, NEW a \in Head(call.stages)
  PROVE  /\ Head(call.stages) = {a} /\ a \in Awaited(RequestOf(call).page)
         /\ RequestOf(call).page \in Again /\ RequestOf(call).page \notin Querying \cup Watching
<1>1. PICK b \in Awaited(RequestOf(call).page) : Head(call.stages) = {b}
  BY Popped DEF ComputingOK
<1> QED
  BY <1>1 DEF Again, Reading, Querying, Watching

\* A request that awaits something.
Awaiting(call, a) ==
  /\ DOMAIN call = CallFields /\ call.outcome = "pending" /\ call.stages \in Seq(Stages)
  /\ call.stages # <<>> /\ a \in Head(call.stages)

\* A request of this page goes on being what it was.
LEMMA GoesOn ==
  ASSUME NEW x, NEW call, x.req = call.req, call.outcome = "pending", x.outcome = "pending", NEW imp,
         CallHonest(call, imp),
         (Follow(call) /\ RequestOf(call).page \in Reading /\ ComputingOK(call, imp)) => ComputingOK(x, imp),
         (Follow(call) /\ RequestOf(call).page \in Querying /\ QueryOK(call, imp)) => QueryOK(x, imp),
         (Follow(call) /\ RequestOf(call).page \in Watching /\ WatchingOK(call, imp)) => WatchingOK(x, imp)
  PROVE  CallHonest(x, imp)
<1>1. RequestOf(x) = RequestOf(call)
  BY DEF RequestOf
<1>2. Follow(x) => Follow(call)
  BY <1>1 DEF Follow
<1> QED
  BY <1>1, <1>2 DEF CallHonest

\* Awaits that neither read nor answer.
Quiet == {"kv", "kv_put", "charge", "check", "store", "save"}

\* A request goes on after one of them.
LEMMA QuietHonest ==
  ASSUME NEW call, NEW imp, CallHonest(call, imp), NEW a \in Quiet, Awaiting(call, a)
  PROVE  LET x == Done(call, a, {})
         IN  CallHonest(x, imp) /\ DOMAIN x = CallFields /\ x.outcome = "pending"
<1> DEFINE x == Done(call, a, {})
           page == RequestOf(call).page
<1>1. DOMAIN x = CallFields /\ x.outcome = "pending" /\ x.req = call.req
  BY DEF Done, Awaiting, CallFields
<1>2. a \notin TableReads \cup {"name", "reply", "recheck", "names", "model", "lookup"}
  BY DEF Quiet, TableReads
<1>3. Head(call.stages) = {a} => /\ x.stages = Tail(call.stages) /\ x.answer = call.answer
                                 /\ x.intent = call.intent /\ x.at = call.at /\ x.known = call.known
                                 /\ OneFewer(x, call, a)
  BY DoneAlone DEF Awaiting, OneFewer
<1> HIDE DEF x
<1>4. ASSUME page \in Again, ComputingOK(call, imp), Head(call.stages) = {a}
      PROVE  ComputingOK(x, imp)
  <2>1. a \notin Basis(RequestOf(call)) \cup Late(RequestOf(call)) \cup {NameOf(call), "reply", "recheck"}
    <3>1. Basis(RequestOf(call)) \cup Late(RequestOf(call)) \subseteq TableReads
      BY <1>4, BasisAwaited
    <3>2. NameOf(call) \in TableReads \cup {"name"}
      BY <1>4, Ranks DEF NameOf, TableReads
    <3> QED
      BY <1>2, <3>1, <3>2
  <2> QED
    BY <1>3, <1>4, <2>1, QuietAwait
<1>5. ASSUME page \in Reading, ComputingOK(call, imp)
      PROVE  ComputingOK(x, imp)
  <2>1. Head(call.stages) = {a} /\ page \in Again
    BY <1>5, ReadingAwait DEF Awaiting
  <2> QED
    BY <1>4, <1>5, <2>1
<1>6. ASSUME page \in Querying, QueryOK(call, imp)
      PROVE  QueryOK(x, imp)
  <2>1. /\ Head(call.stages) = {a}
        /\ IntentOK(call) /\ "name" \in DOMAIN call.at /\ ReadsOK(call, imp)
        /\ \/ call.answer = NoRows /\ a = "save" /\ Tail(call.stages) = <<>>
           \/ /\ ValidateExecutionSupport(call.intent)
              /\ \/ ComputingOK(call, imp)
                 \/ /\ call.answer = QueryAnswer(call.intent, AllOf(NamedSnapshot(call)))
                    /\ a = "save" /\ Tail(call.stages) = <<>>
    BY <1>2, <1>6, QueryAwait DEF Awaiting
  <2>2. /\ RequestOf(x) = RequestOf(call) /\ NamedSnapshot(x) = NamedSnapshot(call)
        /\ NameOf(x) = NameOf(call)
    BY <1>1, <1>3, <2>1, SameView
  <2>3. IntentOK(x) /\ "name" \in DOMAIN x.at /\ ReadsOK(x, imp)
    BY <1>3, <2>1, <2>2 DEF IntentOK, ReadsOK
  <2>4. page \in Again
    BY <1>6 DEF Again
  <2>5. x.answer = call.answer /\ x.intent = call.intent /\ x.stages = Tail(call.stages)
    BY <1>3, <2>1
  <2> QED
    BY <1>4, <2>1, <2>2, <2>3, <2>4, <2>5 DEF QueryOK
<1>7. ~(page \in Watching /\ WatchingOK(call, imp))
  <2>1. Watched(page) \subseteq TableReads \cup {"name"}
    BY DEF Watched, TableReads
  <2> QED
    BY <1>2, <2>1, WatchingAwait DEF Awaiting
<1>8. CallHonest(x, imp)
  BY <1>1, <1>5, <1>6, <1>7, GoesOn DEF Awaiting
<1> QED
  BY <1>1, <1>8 DEF x

\* What a request counts does not make it less honest.
LEMMA AlikeCalls ==
  ASSUME NEW x, NEW call, Alike(x, call), x.outcome = call.outcome, NEW imp, CallHonest(call, imp)
  PROVE  CallHonest(x, imp)
<1>1. x.stages = call.stages
  BY DEF Alike
<1> QED
  BY <1>1, AlikeHonest DEF CallHonest, Follow

\* A request that awaits something is in flight.
LEMMA AwaitsSomething ==
  ASSUME IInv, CallsHonest, NEW c \in Calls, NEW a, Awaits(c, a)
  PROVE  Awaiting(calls[c], a) /\ CallHonest(calls[c], imported) /\ CallsOK
<1>1. CallsOK
  BY DEF IInv
<1>2. /\ Running(calls[c], tries) /\ calls[c].stages # <<>> /\ a \in Head(calls[c].stages)
      /\ calls[c].outcome = "pending"
  BY <1>1, AwaitsRunning
<1> QED
  BY <1>1, <1>2 DEF Awaiting, Running, Ordered, CallsHonest

\* It is given up.
LEMMA BecomesNothing ==
  ASSUME IInv, CallsHonest, NEW c \in Calls, NEW call, DOMAIN call = CallFields,
         NEW outcome \in Ended \ {"answered"}, Becomes(c, Ends(call, outcome)), imported' = imported
  PROVE  CallsHonest'
<1>1. CallHonest(Ends(call, outcome), imported)
  BY GivenUp
<1>2. DOMAIN Ends(call, outcome) = CallFields
  BY DEF Ends, CallFields
<1> QED
  BY <1>1, <1>2, BecomesHonest DEF IInv

\* It goes on after one of the awaits that neither read nor answer.
LEMMA BecomesQuiet ==
  ASSUME IInv, CallsHonest, NEW c \in Calls, NEW a \in Quiet, Awaits(c, a),
         Becomes(c, Done(calls[c], a, {})), imported' = imported
  PROVE  CallsHonest'
<1>1. Awaiting(calls[c], a) /\ CallHonest(calls[c], imported) /\ CallsOK
  BY AwaitsSomething
<1> DEFINE x == Done(calls[c], a, {})
<1>2. CallHonest(x, imported) /\ DOMAIN x = CallFields
  BY <1>1, QuietHonest
<1> HIDE DEF x
<1> QED
  BY <1>1, <1>2, BecomesHonest DEF x

----------------------------------------------------------------------------
(***************************************************************************)
(* The steps.                                                              *)
(***************************************************************************)

\* The breaker looks at the counter of KV.
LEMMA FastCheckHonest ==
  ASSUME IInv, CallsHonest, NEW c \in Calls, FastCheck(c)
  PROVE  CallsHonest'
<1> DEFINE old == calls[c]
           call == [old EXCEPT !.day = day]
           one == Done(call, "kv", {})
           two == Done(one, "kv_put", {})
<1>1. Awaits(c, "kv") /\ imported' = imported
  BY DEF FastCheck, world
<1>2. Awaiting(old, "kv") /\ CallHonest(old, imported) /\ CallsOK
  BY <1>1, AwaitsSomething
<1>3. Ordered(old.stages) /\ old.stages # <<>> /\ "kv" \in Head(old.stages)
  BY <1>1, <1>2, AwaitsRunning DEF Running
<1> HIDE DEF old
<1>4. Alike(call, old) /\ call.outcome = old.outcome /\ DOMAIN call = CallFields /\ call.stages = old.stages
  BY <1>2 DEF Awaiting, CallFields, Alike
<1> HIDE DEF call
<1>5. CallHonest(call, imported) /\ Awaiting(call, "kv")
  BY <1>2, <1>4, AlikeCalls DEF Awaiting
<1>6. CallHonest(one, imported) /\ DOMAIN one = CallFields /\ one.outcome = "pending"
  BY <1>5, QuietHonest DEF Quiet
<1>7. Head(call.stages) = {"kv"} /\ Tail(call.stages) # <<>> /\ Head(Tail(call.stages)) = {"kv_put"}
  BY <1>3, <1>4, HeadOrdered DEF PlainAwaits, TableReads
<1>8. one.stages = Tail(call.stages) /\ Tail(call.stages) \in Seq(Stages)
  BY <1>5, <1>7, DoneAlone DEF Awaiting
<1> HIDE DEF one
<1>9. Awaiting(one, "kv_put")
  BY <1>6, <1>7, <1>8 DEF Awaiting
<1>10. CallHonest(two, imported) /\ DOMAIN two = CallFields
  BY <1>6, <1>9, QuietHonest DEF Quiet
<1> HIDE DEF two
<1>11. ASSUME NEW count, Becomes(c, Ends(call, "over_limit"))
       PROVE  CallsHonest'
  BY <1>1, <1>4, <1>11, BecomesNothing DEF Ended
<1>12. ASSUME NEW count, Becomes(c, [one EXCEPT !.kv = count])
       PROVE  CallsHonest'
  <2> DEFINE x == [one EXCEPT !.kv = count]
  <2>1. Alike(x, one) /\ x.outcome = one.outcome /\ DOMAIN x = CallFields
    BY <1>6 DEF Alike, CallFields
  <2> HIDE DEF x
  <2>2. CallHonest(x, imported)
    BY <1>6, <2>1, AlikeCalls
  <2> QED
    BY <1>1, <1>2, <1>12, <2>1, <2>2, BecomesHonest DEF x
<1>13. ASSUME Becomes(c, two)
       PROVE  CallsHonest'
  BY <1>1, <1>2, <1>10, <1>13, BecomesHonest
<1>14. \/ \E count : Becomes(c, Ends(call, "over_limit"))
       \/ \E count : Becomes(c, [one EXCEPT !.kv = count])
       \/ Becomes(c, two)
  BY DEF FastCheck, old, call, one, two
<1> QED
  BY <1>11, <1>12, <1>13, <1>14

\* It writes that counter and charges the one of D1; other awaits that neither read nor
\* answer.
LEMMA QuietSteps ==
  ASSUME IInv, CallsHonest, NEW c \in Calls,
         FastCount(c) \/ Charge(c) \/ ChargeFails(c) \/ Check(c) \/ Save(c)
  PROVE  CallsHonest'
<1>1. imported' = imported
  BY DEF FastCount, Charge, ChargeFails, Check, Save, world
<1>2. PICK a \in Quiet : Awaits(c, a) /\ \/ Becomes(c, Done(calls[c], a, {}))
                                         \/ Becomes(c, Ends(calls[c], "unavailable"))
                                         \/ Becomes(c, Ends(calls[c], "over_limit"))
  BY DEF FastCount, Charge, ChargeFails, Check, Save, Quiet
<1>3. DOMAIN calls[c] = CallFields
  BY <1>2, AwaitsSomething DEF Awaiting
<1>4. CASE Becomes(c, Done(calls[c], a, {}))
  BY <1>1, <1>2, <1>4, BecomesQuiet
<1>5. CASE Becomes(c, Ends(calls[c], "unavailable"))
  BY <1>1, <1>3, <1>5, BecomesNothing DEF Ended
<1>6. CASE Becomes(c, Ends(calls[c], "over_limit"))
  BY <1>1, <1>3, <1>6, BecomesNothing DEF Ended
<1> QED
  BY <1>2, <1>4, <1>5, <1>6

\* The awaits of a question and of a plan are of no other page.
LEMMA PlainQuestion ==
  ASSUME NEW a \in {"names", "model", "lookup"}, NEW page
  PROVE  (page \in Again => a \notin Awaited(page)) /\ a \notin Watched(page) \cup {"reply"}
<1>1. page \in Again => NamedBy(page) \in {"name", "publication"}
  BY Ranks
<1> QED
  BY <1>1 DEF Awaited, Watched

\* The gate reads the names of players.
LEMMA ReadNamesHonest ==
  ASSUME IInv, CallsHonest, NEW c \in Calls, ReadNames(c)
  PROVE  CallsHonest'
<1> DEFINE call == calls[c]
<1>1. Awaits(c, "names") /\ imported' = imported
  BY DEF ReadNames, world
<1>2. Awaiting(call, "names") /\ CallHonest(call, imported) /\ CallsOK
  BY <1>1, AwaitsSomething
<1>3. PICK known : Becomes(c, Gated(call, known))
  BY DEF ReadNames
<1> HIDE DEF call
<1> DEFINE one == Done(call, "names", {})
           x == [one EXCEPT !.known = known]
<1>4. DOMAIN one = CallFields /\ one.req = call.req /\ one.outcome = "pending" /\ one.at = call.at
  BY <1>2 DEF Done, Awaiting, CallFields
<1>5. Head(call.stages) = {"names"} => one.stages = Tail(call.stages)
  BY <1>2, DoneAlone DEF Awaiting
<1> HIDE DEF one
<1>6. /\ DOMAIN x = CallFields /\ x.req = call.req /\ x.outcome = "pending" /\ x.at = call.at
      /\ x.stages = one.stages
  BY <1>4 DEF CallFields
<1> HIDE DEF x
<1>7. ASSUME RequestOf(call).page \in Querying, QueryOK(call, imported)
      PROVE  QueryOK(x, imported)
  <2>1. /\ Head(call.stages) = {"names"} /\ RequestOf(call).page = "ask" /\ call.at = <<>>
        /\ Tail(call.stages) = <<{"model"}>>
    BY <1>2, <1>7, QueryAwait, PlainQuestion DEF Awaiting, Again
  <2>2. RequestOf(x) = RequestOf(call)
    BY <1>6 DEF RequestOf
  <2> QED
    BY <1>5, <1>6, <2>1, <2>2 DEF QueryOK
<1>8. ~(RequestOf(call).page \in Reading /\ ComputingOK(call, imported))
  BY <1>2, ReadingAwait, PlainQuestion DEF Awaiting
<1>9. ~(RequestOf(call).page \in Watching /\ WatchingOK(call, imported))
  BY <1>2, WatchingAwait, PlainQuestion DEF Awaiting
<1>10. CallHonest(x, imported)
  BY <1>2, <1>6, <1>7, <1>8, <1>9, GoesOn DEF Awaiting
<1>11. CASE Becomes(c, x)
  BY <1>1, <1>2, <1>6, <1>10, <1>11, BecomesHonest
<1>12. CASE Becomes(c, Ends(call, "refused"))
  BY <1>1, <1>2, <1>12, BecomesNothing DEF Ended, Awaiting
<1> QED
  BY <1>3, <1>11, <1>12 DEF Gated, x, one

\* Intents that mean the same and carry no dimensions and no filters are the same.
LEMMA CanonicalSame ==
  ASSUME NEW i, NEW j, DOMAIN i = IntentFields, DOMAIN j = IntentFields,
         i = [f \in IntentFields |-> i[f]], j = [f \in IntentFields |-> j[f]],
         i.dimensions = <<>>, i.filters = <<>>, j.dimensions = <<>>, j.filters = <<>>,
         Canonicalize(i) = Canonicalize(j)
  PROVE  i = j
<1> DEFINE I == Canonicalize(i)
           J == Canonicalize(j)
<1>1. /\ \A f \in IntentFields \ {"dimensions", "filters"} : I[f] = i[f]
      /\ \A f \in IntentFields \ {"dimensions", "filters"} : J[f] = j[f]
  BY DEF Canonicalize, IntentFields
<1>2. I = J
  OBVIOUS
<1> HIDE DEF I, J
<1>3. \A f \in IntentFields : i[f] = j[f]
  BY <1>1, <1>2 DEF IntentFields
<1> QED
  BY <1>3

\* Defaults are filled in.
LEMMA Filled ==
  ASSUME NEW raw
  PROVE  LET i == WithDefaults(raw)
         IN  DOMAIN i = IntentFields /\ i = [f \in IntentFields |-> i[f]]
  BY DEF WithDefaults

\* The rules ask for no dimensions and no filters.
LEMMA RulesPlain ==
  ASSUME NEW q
  PROVE  LET i == ParseRuleBased(q, Artifact).intent
         IN  /\ DOMAIN i = IntentFields /\ i = [f \in IntentFields |-> i[f]]
             /\ i.dimensions = <<>> /\ i.filters = <<>>
<1> DEFINE or(read, default) == IF read = Nothing THEN default ELSE read
           raw == [metric |-> or(q.metric, "goals"), entity_type |-> "player",
                   entity_id |-> or(q.quoted, All),
                   season |-> or(q.season, Latest({c.season : c \in ToSet(Artifact.coverage)})),
                   competition |-> IF q.european THEN "CL" ELSE "PL",
                   viz |-> or(q.viz, "bar"), limit |-> 10]
<1>1. /\ ParseRuleBased(q, Artifact).intent = WithDefaults(raw)
      /\ DOMAIN raw = {"metric", "entity_type", "entity_id", "season", "competition", "viz", "limit"}
  BY DEF ParseRuleBased
<1> HIDE DEF raw
<1>2. WithDefaults(raw).dimensions = <<>> /\ WithDefaults(raw).filters = <<>>
  BY <1>1 DEF WithDefaults, IntentFields, Defaults
<1> QED
  BY <1>1, <1>2, Filled

\* Whatever the model sends, what is proposed is what the rules read, and it is proposed
\* with confidence only when they read a metric and a season and no name is ambiguous.
LEMMA ProposedByRules ==
  ASSUME NEW q, NEW known, NEW output
  PROVE  LET proposal == Propose(q, known, Artifact, AiMode, output)
         IN  /\ proposal.intent = ParseRuleBased(q, Artifact).intent
             /\ proposal.confidence # "low" =>
                  Nothing \notin {q.metric, q.season} /\ ~HasAmbiguousPlayerReference(q, known)
<1> DEFINE rules == ParseRuleBased(q, Artifact)
           ambiguous == HasAmbiguousPlayerReference(q, known)
           low == [rules EXCEPT !.confidence = "low"]
           ai == ProposeWithAI(output)
           agrees == /\ ai.failure = Nothing
                     /\ \E m \in ToSet(Artifact.metrics) : m.metric_id = ai.intent.metric
                     /\ Canonicalize(ai.intent) = Canonicalize(rules.intent)
           proposal == Propose(q, known, Artifact, AiMode, output)
<1>1. proposal = IF AiMode # "enabled" \/ rules.confidence = "low" \/ ambiguous
                 THEN IF ambiguous THEN low ELSE rules
                 ELSE IF agrees THEN [intent |-> ai.intent, confidence |-> "high"] ELSE rules
  BY DEF Propose
<1>2. /\ DOMAIN rules = {"intent", "confidence"}
      /\ rules.confidence = IF q.metric # Nothing /\ q.season # Nothing THEN "high" ELSE "low"
  BY DEF ParseRuleBased
<1>3. low.intent = rules.intent /\ low.confidence = "low"
  BY <1>2
<1>4. ASSUME agrees
      PROVE  ai.intent = rules.intent
  <2> DEFINE refused == {"provider_error", "invalid_output", "unsupported_intent"}
  <2>1. ASSUME ai = [failure |-> Nothing, intent |-> WithDefaults(output.raw)],
               ValidateQuerySemantics(WithDefaults(output.raw))
        PROVE  ai.intent = rules.intent
    <3> DEFINE i == WithDefaults(output.raw)
               j == rules.intent
    <3>1. i.dimensions = <<>> /\ i.filters = <<>> /\ ai.intent = i
      BY <2>1 DEF ValidateQuerySemantics
    <3>2. Canonicalize(i) = Canonicalize(j)
      BY <1>4, <3>1
    <3>3. DOMAIN i = IntentFields /\ i = [f \in IntentFields |-> i[f]]
      BY Filled
    <3>4. /\ DOMAIN j = IntentFields /\ j = [f \in IntentFields |-> j[f]]
          /\ j.dimensions = <<>> /\ j.filters = <<>>
      BY RulesPlain
    <3> HIDE DEF i, j, ai
    <3>5. i = j
      BY <3>1, <3>2, <3>3, <3>4, CanonicalSame
    <3> QED
      BY <3>1, <3>5 DEF j
  <2>2. ai.failure \notin refused
    BY <1>4, NoFailure
  <2> QED
    BY <2>1, <2>2 DEF ProposeWithAI
<1> HIDE DEF rules, ambiguous, low, ai, agrees, proposal
<1>5. proposal.intent = rules.intent
  BY <1>1, <1>3, <1>4
<1>6. proposal.confidence # "low" => Nothing \notin {q.metric, q.season} /\ ~ambiguous
  BY <1>1, <1>2, <1>3
<1> QED
  BY <1>5, <1>6 DEF rules, ambiguous, proposal

\* A question becomes an intent.
LEMMA ProposeIntentHonest ==
  ASSUME IInv, CallsHonest, NEW c \in Calls, NEW output, ProposeIntent(c, output)
  PROVE  CallsHonest'
<1> DEFINE call == calls[c]
           r == RequestOf(call)
           proposal == Propose(r.ask, call.known, Artifact, AiMode, output)
           x == [call EXCEPT !.intent = proposal.intent, !.stages = <<{"name"}>>]
           said == [Ends(call, "answered") EXCEPT !.answer =
                      [proposal |-> proposal, feasibility |-> CheckFeasibility(Artifact, proposal.intent, FALSE)]]
<1>1. Awaits(c, "model") /\ imported' = imported /\ Becomes(c, Proposed(call, proposal))
  BY DEF ProposeIntent, world
<1>2. Awaiting(call, "model") /\ CallHonest(call, imported) /\ CallsOK
  BY <1>1, AwaitsSomething
<1>3. /\ proposal.intent = ParseRuleBased(r.ask, Artifact).intent
      /\ proposal.confidence # "low" =>
           Nothing \notin {r.ask.metric, r.ask.season} /\ ~HasAmbiguousPlayerReference(r.ask, call.known)
  BY ProposedByRules
<1>4. \/ r.page = "chat" /\ Proposed(call, proposal) = said
      \/ Proposed(call, proposal) \in {Ends(call, "refused"), Ends(call, "clarification")}
      \/ proposal.confidence # "low" /\ Proposed(call, proposal) = x
  BY DEF Proposed
<1> HIDE DEF proposal
<1>5. /\ DOMAIN x = CallFields /\ x.req = call.req /\ x.outcome = "pending" /\ x.at = call.at
      /\ x.stages = <<{"name"}>> /\ x.intent = proposal.intent /\ x.known = call.known
  BY <1>2 DEF Awaiting, CallFields
<1>6. DOMAIN said = CallFields /\ said.req = call.req
  BY <1>2 DEF Awaiting, CallFields, Ends
<1> HIDE DEF call, x, said
<1>7. ASSUME proposal.confidence # "low", RequestOf(call).page \in Querying, QueryOK(call, imported)
      PROVE  QueryOK(x, imported)
  <2>1. r.page = "ask" /\ call.at = <<>>
    BY <1>2, <1>7, QueryAwait, PlainQuestion DEF Awaiting, Again
  <2>2. RequestOf(x) = r
    BY <1>5 DEF RequestOf
  <2>3. IntentOK(x)
    BY <1>3, <1>5, <1>7, <2>1, <2>2 DEF IntentOK, Intended
  <2> QED
    BY <1>5, <2>1, <2>3 DEF QueryOK
<1>8. ~(RequestOf(call).page \in Reading /\ ComputingOK(call, imported))
  BY <1>2, ReadingAwait, PlainQuestion DEF Awaiting
<1>9. ~(RequestOf(call).page \in Watching /\ WatchingOK(call, imported))
  BY <1>2, WatchingAwait, PlainQuestion DEF Awaiting
<1>10. CASE proposal.confidence # "low" /\ Proposed(call, proposal) = x
  <2>1. CallHonest(x, imported)
    BY <1>2, <1>5, <1>7, <1>8, <1>9, <1>10, GoesOn DEF Awaiting
  <2> QED
    BY <1>1, <1>2, <1>5, <1>10, <2>1, BecomesHonest DEF call
<1>11. CASE r.page = "chat" /\ Proposed(call, proposal) = said
  <2>1. RequestOf(said).page = "chat"
    BY <1>6, <1>11 DEF RequestOf
  <2>2. CallHonest(said, imported)
    BY <2>1 DEF CallHonest, Follow, Reading, Querying, Watching
  <2> QED
    BY <1>1, <1>2, <1>6, <1>11, <2>2, BecomesHonest
<1>12. CASE Proposed(call, proposal) \in {Ends(call, "refused"), Ends(call, "clarification")}
  BY <1>1, <1>2, <1>12, BecomesNothing DEF Ended, Awaiting
<1> QED
  BY <1>4, <1>10, <1>11, <1>12

\* What is noted of a read leaves the other fields.
LEMMA NotedFields ==
  ASSUME NEW call, DOMAIN call = CallFields, NEW a, NEW n
  PROVE  /\ DOMAIN Noted(call, a, n) = CallFields /\ Noted(call, a, n).req = call.req
         /\ Noted(call, a, n).outcome = call.outcome /\ Noted(call, a, n).intent = call.intent
         /\ Noted(call, a, n).known = call.known /\ Noted(call, a, n).answer = call.answer
         /\ Noted(call, a, n).stages = call.stages /\ RequestOf(Noted(call, a, n)) = RequestOf(call)
  BY DEF Noted, CallFields, RequestOf

\* The read itself.
LEMMA NotedAt ==
  ASSUME NEW call, DOMAIN call = CallFields, NEW a, NEW n
  PROVE  OneMoreRead(Noted(call, a, n), call, a, n)
  BY DEF Noted, CallFields, OneMoreRead

\* A read and what it leads to, seen from the call before.
LEMMA NotedDone ==
  ASSUME NEW call, NEW a, NEW n, Awaiting(call, a), NEW imp, n = imp
  PROVE  LET x == Done(Noted(call, a, n), a, {})
         IN  /\ DOMAIN x = CallFields /\ x.req = call.req /\ x.answer = call.answer
             /\ x.intent = call.intent /\ x.known = call.known /\ x.outcome = "pending"
             /\ OneMoreRead(x, call, a, imp)
             /\ Head(call.stages) = {a} => x.stages = Tail(call.stages) /\ OneFewer(x, call, a)
<1> DEFINE noted == Noted(call, a, n)
           x == Done(noted, a, {})
<1>1. /\ DOMAIN noted = CallFields /\ noted.req = call.req /\ noted.stages = call.stages
      /\ noted.answer = call.answer /\ noted.intent = call.intent /\ noted.known = call.known
      /\ noted.outcome = "pending"
      /\ noted.at = [b \in {a} \cup DOMAIN call.at |-> IF b = a THEN imp ELSE call.at[b]]
  <2>1. DOMAIN call = CallFields
    BY DEF Awaiting
  <2>2. OneMoreRead(noted, call, a, imp)
    BY <2>1, NotedAt
  <2>3. /\ DOMAIN noted = CallFields /\ noted.req = call.req /\ noted.stages = call.stages
        /\ noted.answer = call.answer /\ noted.intent = call.intent /\ noted.known = call.known
        /\ noted.outcome = "pending"
    BY <2>1, NotedFields DEF Awaiting
  <2> HIDE DEF noted
  <2>4. noted.at = [b \in {a} \cup DOMAIN call.at |-> IF b = a THEN imp ELSE call.at[b]]
    BY <2>2 DEF OneMoreRead
  <2> QED
    BY <2>3, <2>4
<1> HIDE DEF noted
<1>2. /\ DOMAIN x = CallFields /\ x.req = noted.req /\ x.answer = noted.answer /\ x.intent = noted.intent
      /\ x.known = noted.known /\ x.outcome = noted.outcome /\ x.at = noted.at
  BY <1>1 DEF Done, CallFields
<1>3. Head(noted.stages) = {a} => x.stages = Tail(noted.stages)
  BY <1>1, DoneAlone
<1> HIDE DEF x
<1>4. Head(call.stages) = {a} => x.stages = Tail(call.stages) /\ OneFewer(x, call, a)
  BY <1>1, <1>2, <1>3 DEF OneFewer, Awaiting
<1>5. OneMoreRead(x, call, a, imp)
  BY <1>1, <1>2 DEF OneMoreRead
<1> QED
  BY <1>1, <1>2, <1>4, <1>5 DEF x, noted

\* A page of seasons or players reads: it names its snapshot or sees it, or a later one.
LEMMA ReadingReads ==
  ASSUME NEW call, NEW imp \in Nat, NEW a \in TableReads \cup {"name"}, Awaiting(call, a),
         ComputingOK(call, imp), RequestOf(call).page \in Reading
  PROVE  ComputingOK(Done(Noted(call, a, imp), a, {}), imp)
<1> DEFINE x == Done(Noted(call, a, imp), a, {})
           page == RequestOf(call).page
<1>1. Head(call.stages) = {a} /\ page \in Again /\ a \in Awaited(page)
  BY ReadingAwait DEF Awaiting
<1>2. OneMoreRead(x, call, a, imp) /\ OneFewer(x, call, a) /\ x.answer = call.answer
  BY <1>1, NotedDone
<1> SUFFICES ComputingOK(x, imp)
  OBVIOUS
<1> HIDE DEF x
<1>3. CASE a = NameOf(call)
  BY <1>2, <1>3, NamingAwait DEF OneMoreRead
<1>4. CASE a # NameOf(call)
  <2>1. a \in TableReads
    <3>1. NamedBy(page) \in {"name", "publication"}
      BY <1>1, Ranks
    <3>2. a = "name" => a = NamedBy(page)
      BY <1>1, <3>1 DEF Awaited
    <3> QED
      BY <1>4, <3>2 DEF NameOf
  <2> QED
    BY <1>2, <1>4, <2>1, ReadAwait
<1> QED
  BY <1>3, <1>4

\* A page of the others reads, and goes on to what follows from it.
LEMMA WatchingReads ==
  ASSUME NEW call, NEW imp \in Nat, NEW a \in TableReads \cup {"name"}, Awaiting(call, a),
         WatchingOK(call, imp), NEW more \in SUBSET Watched(RequestOf(call).page), NEW n \in 0..imp,
         NEW x, x.req = call.req,
         x.at = [b \in {a} \cup DOMAIN call.at |-> IF b = a THEN n ELSE call.at[b]],
         LET rest == (Head(call.stages) \ {a}) \cup more
         IN  x.stages = IF rest = {} THEN Tail(call.stages) ELSE <<rest>> \o Tail(call.stages)
  PROVE  WatchingOK(x, imp)
<1> DEFINE page == RequestOf(call).page
           first == Head(call.stages)
           rest == (first \ {a}) \cup more
<1>1. a # "reply"
  BY DEF TableReads
<1>2. /\ first \subseteq Watched(page) /\ call.stages = <<first, {"reply"}>>
      /\ Tail(call.stages) = <<{"reply"}>>
  BY <1>1, WatchingAwait DEF Awaiting
<1>3. RequestOf(x).page = page /\ NameOf(x) = NameOf(call)
  BY DEF RequestOf, NameOf
<1>4. Left(call.stages) = first \cup {"reply"}
  <2>1. Left(<<first, {"reply"}>>) = first \cup {"reply"}
    BY Heads
  <2> HIDE DEF first
  <2> QED
    BY <1>2, <2>1
<1>5. \/ rest = {} /\ x.stages = <<{"reply"}>>
      \/ rest # {} /\ rest \in SUBSET Watched(page) /\ x.stages = <<rest, {"reply"}>>
  <2>1. CASE rest = {}
    BY <1>2, <2>1
  <2>2. CASE rest # {}
    <3>1. x.stages = <<rest>> \o <<{"reply"}>>
      BY <1>2, <2>2
    <3>2. rest \in SUBSET Watched(page)
      BY <1>2
    <3> HIDE DEF rest
    <3>3. <<rest, {"reply"}>> = <<rest>> \o <<{"reply"}>>
      BY JoinLiterals, Zenon
    <3> QED
      BY <2>2, <3>1, <3>2, <3>3
  <2> QED
    BY <2>1, <2>2
<1>6. Left(x.stages) = rest \cup {"reply"}
  <2>1. Left(<<{"reply"}>>) = {"reply"}
    BY Heads
  <2>2. Left(<<rest, {"reply"}>>) = rest \cup {"reply"}
    BY Heads
  <2> HIDE DEF rest
  <2> QED
    BY <1>5, <2>1, <2>2
<1>7. DOMAIN x.at = {a} \cup DOMAIN call.at /\ \A b \in DOMAIN x.at : x.at[b] \in 0..imp
  BY DEF WatchingOK
<1>8. {NameOf(x), "publication"} \subseteq Left(x.stages) \cup DOMAIN x.at
  <2>1. {NameOf(call), "publication"} \subseteq Left(call.stages) \cup DOMAIN call.at
    BY DEF WatchingOK
  <2>2. Left(call.stages) \subseteq Left(x.stages) \cup {a}
    BY <1>4, <1>6
  <2> QED
    BY <1>3, <1>7, <2>1, <2>2
<1> HIDE DEF rest, first
<1> QED
  BY <1>3, <1>5, <1>7, <1>8 DEF WatchingOK

\* What follows from a read.
LEMMA FollowsOf ==
  ASSUME NEW r, NEW intent, NEW F, NEW a
  PROVE  /\ (r.page \in Reading /\ a \in Awaited(r.page)) => Follows(r, intent, F, a) = {}
         /\ (r.page \in Watching /\ a \in Watched(r.page)) => Follows(r, intent, F, a) \in SUBSET Watched(r.page)
<1>1. ASSUME r.page \in Reading, a \in Awaited(r.page)
      PROVE  Follows(r, intent, F, a) = {}
  <2>1. r.page \in Again /\ r.page \notin Querying
    BY <1>1 DEF Again, Reading, Querying
  <2>2. a \notin {"batch", "identity", "squad", "again"}
    BY <1>1, <2>1, Ranks DEF Awaited
  <2> QED
    BY <2>2 DEF Follows
<1>2. ASSUME r.page \in Watching, a \in Watched(r.page)
      PROVE  Follows(r, intent, F, a) \in SUBSET Watched(r.page)
  <2>1. CASE r.page = "cl"
    <3>1. Watched(r.page) = {"publication", "batch", "stages"}
      BY <2>1 DEF Watched
    <3>2. Follows(r, intent, F, a) \in {{}, {"stages"}}
      BY <1>2, <3>1 DEF Follows
    <3> QED
      BY <3>1, <3>2
  <2>2. CASE r.page = "health"
    <3>1. Watched(r.page) = {"name", "publication"}
      BY <2>2 DEF Watched
    <3>2. Follows(r, intent, F, a) = {}
      BY <1>2, <3>1 DEF Follows
    <3> QED
      BY <3>2
  <2>3. CASE r.page = "home"
    <3>1. Watched(r.page) = {"name", "publication", "squad", "again", "career"}
      BY <2>3 DEF Watched
    <3>2. Follows(r, intent, F, a) \in {{}, {"again"}, {"career"}}
      BY <1>2, <3>1 DEF Follows
    <3> QED
      BY <3>1, <3>2
  <2> QED
    BY <1>2, <2>1, <2>2, <2>3 DEF Watching
<1> QED
  BY <1>1, <1>2

\* A read of such a page.
LEMMA WatchingDone ==
  ASSUME NEW call, NEW imp \in Nat, NEW a \in TableReads \cup {"name"}, Awaiting(call, a),
         WatchingOK(call, imp), NEW more \in SUBSET Watched(RequestOf(call).page)
  PROVE  /\ WatchingOK(Done(Noted(call, a, imp), a, more), imp)
         /\ WatchingOK(Noted(Done(call, a, {}), a, 0), imp)
<1> DEFINE noted == Noted(call, a, imp)
           x == Done(noted, a, more)
           done == Done(call, a, {})
           y == Noted(done, a, 0)
           next(some) == LET rest == (Head(call.stages) \ {a}) \cup some
                         IN  IF rest = {} THEN Tail(call.stages) ELSE <<rest>> \o Tail(call.stages)
<1>1. /\ DOMAIN noted = CallFields /\ noted.req = call.req /\ noted.stages = call.stages
      /\ noted.at = [b \in {a} \cup DOMAIN call.at |-> IF b = a THEN imp ELSE call.at[b]]
  <2>1. DOMAIN call = CallFields
    BY DEF Awaiting
  <2>2. DOMAIN noted = CallFields /\ noted.req = call.req /\ noted.stages = call.stages
    BY <2>1, NotedFields
  <2>3. OneMoreRead(noted, call, a, imp)
    BY <2>1, NotedAt
  <2> HIDE DEF noted
  <2>4. noted.at = [b \in {a} \cup DOMAIN call.at |-> IF b = a THEN imp ELSE call.at[b]]
    BY <2>3 DEF OneMoreRead
  <2> QED
    BY <2>2, <2>4
<1> HIDE DEF noted
<1>2. x.req = call.req /\ x.at = noted.at /\ x.stages = next(more)
  BY <1>1 DEF Done, CallFields
<1>3. DOMAIN done = CallFields /\ done.req = call.req /\ done.at = call.at /\ done.stages = next({})
  BY DEF Done, CallFields, Awaiting
<1> HIDE DEF done
<1>4. /\ y.req = done.req /\ y.stages = done.stages
      /\ y.at = [b \in {a} \cup DOMAIN done.at |-> IF b = a THEN 0 ELSE done.at[b]]
  <2>1. y.req = done.req /\ y.stages = done.stages
    BY <1>3, NotedFields
  <2>2. OneMoreRead(y, done, a, 0)
    BY <1>3, NotedAt
  <2> HIDE DEF y
  <2>3. y.at = [b \in {a} \cup DOMAIN done.at |-> IF b = a THEN 0 ELSE done.at[b]]
    BY <2>2 DEF OneMoreRead
  <2> QED
    BY <2>1, <2>3
<1> HIDE DEF x, y
<1>5. WatchingOK(x, imp)
  <2>1. imp \in 0..imp
    OBVIOUS
  <2> QED
    BY <1>1, <1>2, <2>1, WatchingReads
<1>6. WatchingOK(y, imp)
  <2>1. 0 \in 0..imp /\ {} \in SUBSET Watched(RequestOf(call).page)
    OBVIOUS
  <2>2. /\ y.req = call.req /\ y.stages = next({})
        /\ y.at = [b \in {a} \cup DOMAIN call.at |-> IF b = a THEN 0 ELSE call.at[b]]
    BY <1>3, <1>4
  <2> HIDE DEF y
  <2> QED
    BY <2>1, <2>2, WatchingReads
<1> QED
  BY <1>5, <1>6 DEF x, y, noted, done

\* A query reads the identity of a player, which leads to his row if there is somebody, or
\* it reads rows.
LEMMA QueryReads ==
  ASSUME NEW call, NEW imp \in Nat, NEW a \in {"identity", "result"}, Awaiting(call, a),
         ComputingOK(call, imp), RequestOf(call).page \in Querying,
         NEW x, x.req = call.req, x.intent = call.intent, x.answer = call.answer,
         OneMoreRead(x, call, a, imp),
         \/ /\ x.stages = Tail(call.stages)
            /\ a = "identity" =>
                 ResolvePlayerIdentity(Tables[imp], call.intent.entity_id, call.intent.competition) = Nothing
         \/ a = "identity" /\ x.stages = <<{"result"}>> \o Tail(call.stages)
  PROVE  ComputingOK(x, imp)
<1> DEFINE r == RequestOf(call)
           t == Tail(call.stages)
<1>1. r.page \in Again /\ NameOf(call) = "name" /\ Basis(r) = {"identity", "result"}
  BY NamesOf DEF Again, Querying, NameOf, Basis
<1>2. PICK b \in Awaited(r.page) :
        /\ Head(call.stages) = {b} /\ Phased(r.page, t) /\ t \in Seq(Stages)
        /\ Left(call.stages) = {b} \cup Left(t)
        /\ \A d \in Left(t) : Precedes(r.page, b, d)
  BY Popped DEF ComputingOK, Awaiting
<1>3. b = a
  BY <1>2 DEF Awaiting
<1>4. /\ Rank(r.page, "identity") = 2 /\ Rank(r.page, "result") = 2 /\ Rank(r.page, "name") = 1
      /\ "result" \in Awaited(r.page)
  BY <1>1, Ranks DEF Awaited, NameOf
<1>5. Phased(r.page, x.stages) /\ Left(t) \subseteq Left(x.stages) /\ Left(x.stages) \subseteq Left(t) \cup {"result"}
  <2>1. CASE x.stages = t
    BY <1>2, <2>1
  <2>2. CASE a = "identity" /\ x.stages = <<{"result"}>> \o t
    <3> DEFINE one == <<{"result"}>>
    <3>1. Phased(r.page, one) /\ Left(one) = {"result"} /\ one \in Seq(Stages)
      BY <1>1, <1>4, PartOfOne DEF Part
    <3> HIDE DEF one, t
    <3>2. \A d \in Left(t) : Precedes(r.page, "result", d)
      BY <1>2, <1>3, <1>4, <2>2 DEF Precedes
    <3>3. Phased(r.page, one \o t)
      BY <1>2, <3>1, <3>2, PhasedJoined
    <3>4. Left(one \o t) = Left(one) \cup Left(t)
      BY <1>2, <3>1, LeftJoined
    <3> QED
      BY <2>2, <3>1, <3>3, <3>4 DEF one
  <2> QED
    BY <2>1, <2>2
<1>6. a = "identity" =>
        \/ "result" \in Left(x.stages)
        \/ ResolvePlayerIdentity(Tables[imp], call.intent.entity_id, call.intent.competition) = Nothing
  <2>1. CASE a = "identity" /\ x.stages = <<{"result"}>> \o t
    <3>1. Left(<<{"result"}>> \o t) = Left(<<{"result"}>>) \cup Left(t)
      <4> DEFINE one == <<{"result"}>>
      <4>1. one \in Seq(Stages)
        BY <1>1, <1>4, PartOfOne DEF Part
      <4> HIDE DEF one, t
      <4> QED
        BY <1>2, <4>1, LeftJoined DEF one
    <3>2. Left(<<{"result"}>>) = {"result"}
      BY LeftFew
    <3> QED
      BY <2>1, <3>1, <3>2
  <2> QED
    BY <2>1
<1> HIDE DEF t
<1>7. a # "name" /\ a # "reply" /\ a # "recheck" /\ a \in TableReads
  BY DEF TableReads
<1>8. "name" \notin Left(t)
  BY <1>2, <1>3, <1>4 DEF Precedes
<1>9. "name" \in DOMAIN call.at /\ "name" \notin Left(x.stages)
  BY <1>1, <1>2, <1>3, <1>5, <1>7, <1>8 DEF ComputingOK
<1>10. /\ ReadsOK(x, imp) /\ NameOf(x) = NameOf(call) /\ NamedSnapshot(x) = NamedSnapshot(call)
       /\ a \in DOMAIN x.at /\ x.at[a] = imp /\ DOMAIN x.at = {a} \cup DOMAIN call.at
       /\ \A d \in DOMAIN call.at : d # a => x.at[d] = call.at[d]
  BY <1>1, <1>7, <1>9, FurtherRead DEF ComputingOK
<1>11. RequestOf(x) = r
  BY DEF RequestOf
<1>12. "reply" \in Left(x.stages) /\ "recheck" \in Left(x.stages)
  <2>1. "reply" \in Left(call.stages)
    BY <1>2, <1>3, <1>7 DEF ComputingOK, RepliedOK
  <2>2. "recheck" \in Left(call.stages)
    BY <1>1, <1>2, <1>3 DEF ComputingOK, RecheckedOK
  <2> QED
    BY <1>2, <1>3, <1>5, <1>7, <2>1, <2>2
<1>13. QueryGathering(call)
  BY DEF ComputingOK, Gathering
<1>14. \A d \in {"identity", "result"} :
         (d # a /\ d \in Left(call.stages) \cup DOMAIN call.at) => d \in Left(x.stages) \cup DOMAIN x.at
  BY <1>2, <1>3, <1>5, <1>10
<1>15. QueryGathering(x)
  <2>1. CASE a = "result"
    <3>1. "result" \in DOMAIN x.at
      BY <1>10, <2>1
    <3>2. "identity" \in Left(call.stages) => "identity" \in Left(x.stages)
      BY <1>2, <1>3, <1>5, <2>1
    <3> QED
      BY <1>10, <1>13, <2>1, <3>1, <3>2 DEF QueryGathering
  <2>2. CASE a = "identity"
    <3>1. Unfound(x) <=>
            ResolvePlayerIdentity(Tables[imp], call.intent.entity_id, call.intent.competition) = Nothing
      BY <1>10, <2>2 DEF Unfound
    <3> QED
      BY <1>6, <1>10, <1>13, <1>14, <2>2, <3>1 DEF QueryGathering
  <2> QED
    BY <2>1, <2>2
<1> QED
  BY <1>1, <1>5, <1>9, <1>10, <1>11, <1>12, <1>15 DEF ComputingOK, Gathering, RepliedOK, RecheckedOK

\* A request goes on to its next await.
LEMMA BecomesNext ==
  ASSUME IInv, CallsHonest, NEW c \in Calls, NEW a, Awaits(c, a), NEW x, DOMAIN x = CallFields,
         x.req = calls[c].req, x.outcome = "pending", Becomes(c, x), imported' = imported,
         (RequestOf(calls[c]).page \in Reading /\ ComputingOK(calls[c], imported)) => ComputingOK(x, imported),
         (RequestOf(calls[c]).page \in Querying /\ QueryOK(calls[c], imported)) => QueryOK(x, imported),
         (RequestOf(calls[c]).page \in Watching /\ WatchingOK(calls[c], imported)) => WatchingOK(x, imported)
  PROVE  CallsHonest'
<1> DEFINE call == calls[c]
<1>1. Awaiting(call, a) /\ CallHonest(call, imported) /\ CallsOK
  BY AwaitsSomething
<1> HIDE DEF call
<1>2. call.outcome = "pending"
  BY <1>1 DEF Awaiting
<1>3. CallHonest(x, imported)
  BY <1>1, <1>2, GoesOn DEF call
<1> QED
  BY <1>1, <1>3, BecomesHonest

\* The snapshots that may be named.
LEMMA Imported ==
  ASSUME IInv
  PROVE  imported \in Snapshots /\ imported \in Nat /\ Snapshots \subseteq Nat /\ KeptOK
<1>1. imported \in Snapshots /\ KeptOK
  BY DEF IInv, KeptOK
<1> QED
  BY <1>1 DEF Snapshots

\* The snapshot that a query names is the one it finds.
LEMMA QueryNamed ==
  ASSUME NEW call, NEW imp \in Nat, RequestOf(call).page \in Querying, DOMAIN call = CallFields,
         IntentOK(call), call.at = <<>>
  PROVE  LET x == Noted(call, "name", imp)
         IN  IntentOK(x) /\ DOMAIN x.at = {"name"} /\ ReadsOK(x, imp) /\ RequestOf(x) = RequestOf(call)
<1> DEFINE x == Noted(call, "name", imp)
<1>1. /\ x.req = call.req /\ x.intent = call.intent /\ x.known = call.known
      /\ x.at = [b \in {"name"} \cup DOMAIN call.at |-> IF b = "name" THEN imp ELSE call.at[b]]
  <2>1. x.req = call.req /\ x.intent = call.intent /\ x.known = call.known
    BY NotedFields
  <2>2. OneMoreRead(x, call, "name", imp)
    BY NotedAt
  <2> HIDE DEF x
  <2>3. x.at = [b \in {"name"} \cup DOMAIN call.at |-> IF b = "name" THEN imp ELSE call.at[b]]
    BY <2>2 DEF OneMoreRead
  <2> QED
    BY <2>1, <2>3
<1> HIDE DEF x
<1>2. RequestOf(x) = RequestOf(call)
  BY <1>1 DEF RequestOf
<1>3. DOMAIN call.at = {}
  OBVIOUS
<1>4. DOMAIN x.at = {"name"} /\ x.at["name"] = imp
  BY <1>1, <1>3
<1>5. NameOf(x) = "name"
  BY <1>2, NamesOf DEF NameOf, Querying
<1>6. ReadsOK(x, imp)
  BY <1>4, <1>5 DEF ReadsOK
<1>7. IntentOK(x)
  BY <1>1, <1>2 DEF IntentOK
<1> QED
  BY <1>2, <1>4, <1>6, <1>7 DEF x

\* A query without rows.
LEMMA WithoutRows ==
  ASSUME NEW call, NEW imp, DOMAIN call = CallFields, IntentOK(call), "name" \in DOMAIN call.at,
         ReadsOK(call, imp), NEW stages \in {<<>>, <<{"save"}>>}
  PROVE  QueryOK([call EXCEPT !.stages = stages, !.answer = NoRows], imp)
<1> DEFINE x == [call EXCEPT !.stages = stages, !.answer = NoRows]
<1>1. /\ x.req = call.req /\ x.intent = call.intent /\ x.known = call.known /\ x.at = call.at
      /\ x.stages = stages /\ x.answer = NoRows
  BY DEF CallFields
<1> HIDE DEF x
<1>2. RequestOf(x) = RequestOf(call)
  BY <1>1 DEF RequestOf
<1>3. NameOf(x) = NameOf(call)
  BY <1>2 DEF NameOf
<1>4. IntentOK(x) /\ ReadsOK(x, imp)
  BY <1>1, <1>2, <1>3 DEF IntentOK, ReadsOK
<1>5. QueryOK(x, imp)
  BY <1>1, <1>4 DEF QueryOK
<1> QED
  BY <1>5 DEF x

\* The plan of a query.
LEMMA PlansOf ==
  ASSUME NEW intent, NEW account
  PROVE  LET plan == PlanQuery(intent, account)
             miss == PlanOnMiss(intent, account)
         IN  /\ \/ plan.outcome = "no_rows" /\ plan.stages \in {<<>>, <<{"save"}>>}
                \/ plan.outcome = "refused"
                \/ ValidateExecutionSupport(intent) /\ plan.outcome = "pending" /\ plan.stages = <<{"lookup"}>>
             /\ \/ miss.outcome = "no_rows" /\ miss.stages \in {<<>>, <<{"save"}>>}
                \/ miss.outcome = "pending" /\ miss.stages = Compute(intent, account)
<1>1. Saving(account) \in {<<>>, <<{"save"}>>}
  BY DEF Saving
<1>2. LET plan == PlanQuery(intent, account)
      IN  \/ plan = Empty(<<>>) \/ plan = Empty(Saving(account)) \/ plan = Refusal
          \/ ValidateExecutionSupport(intent) /\ plan = Reads(<<{"lookup"}>>)
  BY DEF PlanQuery
<1>3. LET miss == PlanOnMiss(intent, account)
      IN  miss = Empty(Saving(account)) \/ miss = Reads(Compute(intent, account))
  BY DEF PlanOnMiss
<1> QED
  BY <1>1, <1>2, <1>3 DEF Empty, Refusal, Reads

\* A page names its snapshot; a query is planned.
LEMMA NameSnapshotHonest ==
  ASSUME IInv, CallsHonest, NEW c \in Calls, NameSnapshot(c)
  PROVE  CallsHonest'
<1> DEFINE call == calls[c]
           noted == Noted(call, "name", imported)
           page == RequestOf(call).page
           plan == PlanQuery(noted.intent, RequestOf(noted).account)
           x == Done(noted, "name", {})
           none == [noted EXCEPT !.stages = plan.stages, !.answer = NoRows]
           next == [noted EXCEPT !.stages = plan.stages]
<1>1. Awaits(c, "name") /\ imported' = imported
  BY DEF NameSnapshot, world
<1>2. Awaiting(call, "name") /\ CallHonest(call, imported) /\ CallsOK /\ DOMAIN call = CallFields
  BY <1>1, AwaitsSomething DEF Awaiting
<1>3. imported \in Nat
  BY Imported
<1>4. /\ DOMAIN noted = CallFields /\ noted.req = call.req /\ noted.outcome = "pending"
      /\ noted.intent = call.intent /\ RequestOf(noted) = RequestOf(call)
  <2>1. call.outcome = "pending"
    BY <1>2 DEF Awaiting
  <2> QED
    BY <1>2, <2>1, NotedFields
<1>5. \/ page \in Querying /\ Becomes(c, Planned(noted, plan))
      \/ page \notin Querying /\ Becomes(c, Ends(noted, "unavailable"))
      \/ page \notin Querying /\ Becomes(c, x)
  BY <1>4 DEF NameSnapshot, Querying
<1> HIDE DEF call
<1>6. CASE page \in Querying /\ Becomes(c, Planned(noted, plan))
  <2>1. \/ plan.outcome = "no_rows" /\ plan.stages \in {<<>>, <<{"save"}>>}
        \/ plan.outcome = "refused"
        \/ ValidateExecutionSupport(noted.intent) /\ plan.outcome = "pending" /\ plan.stages = <<{"lookup"}>>
    BY PlansOf
  <2>2. \/ plan.outcome = "no_rows" /\ plan.stages \in {<<>>, <<{"save"}>>} /\ Planned(noted, plan) = none
        \/ Planned(noted, plan) = Ends(noted, "refused")
        \/ /\ ValidateExecutionSupport(noted.intent) /\ plan.stages = <<{"lookup"}>>
           /\ Planned(noted, plan) = next
    BY <2>1 DEF Planned
  <2>3. ASSUME QueryOK(call, imported)
        PROVE  IntentOK(noted) /\ DOMAIN noted.at = {"name"} /\ ReadsOK(noted, imported)
    <3>1. IntentOK(call) /\ call.at = <<>>
      <4>1. \/ IntentOK(call) /\ call.at = <<>>
            \/ "name" \notin {"name"}
        <5>1. "name" \notin {"names", "model", "save", "lookup", "recheck"}
          OBVIOUS
        <5> QED
          BY <1>2, <1>6, <2>3, <5>1, QueryAwait DEF Awaiting
      <4> QED
        BY <4>1
    <3> QED
      BY <1>2, <1>3, <1>6, <3>1, QueryNamed
  <2> HIDE DEF noted, plan
  <2>4. /\ DOMAIN none = CallFields /\ none.req = call.req /\ none.outcome = "pending"
        /\ DOMAIN next = CallFields /\ next.req = call.req /\ next.outcome = "pending"
        /\ next.at = noted.at /\ next.intent = noted.intent /\ next.known = noted.known
        /\ next.stages = plan.stages
    BY <1>4 DEF CallFields
  <2>5. page \notin Reading /\ page \notin Watching
    BY <1>6 DEF Querying, Reading, Watching
  <2>6. CASE plan.stages \in {<<>>, <<{"save"}>>} /\ Planned(noted, plan) = none
    <3>1. QueryOK(call, imported) => QueryOK(none, imported)
      BY <1>4, <2>3, <2>6, WithoutRows
    <3> HIDE DEF none
    <3> QED
      BY <1>1, <1>6, <2>4, <2>5, <2>6, <3>1, BecomesNext DEF call
  <2>7. CASE Planned(noted, plan) = Ends(noted, "refused")
    BY <1>1, <1>4, <1>6, <2>7, BecomesNothing DEF Ended
  <2>8. CASE /\ ValidateExecutionSupport(noted.intent) /\ plan.stages = <<{"lookup"}>>
             /\ Planned(noted, plan) = next
    <3> HIDE DEF next
    <3>1. RequestOf(next) = RequestOf(noted) /\ NameOf(next) = NameOf(noted)
      BY <1>4, <2>4 DEF RequestOf, NameOf
    <3>2. QueryOK(call, imported) => QueryOK(next, imported)
      <4>1. QueryOK(call, imported) => IntentOK(next) /\ ReadsOK(next, imported) /\ DOMAIN next.at = {"name"}
        BY <2>3, <2>4, <3>1 DEF IntentOK, ReadsOK
      <4> QED
        BY <2>4, <2>8, <4>1 DEF QueryOK
    <3> QED
      BY <1>1, <1>6, <2>4, <2>5, <2>8, <3>2, BecomesNext DEF call
  <2> QED
    BY <2>2, <2>6, <2>7, <2>8
<1>7. CASE page \notin Querying /\ Becomes(c, Ends(noted, "unavailable"))
  BY <1>1, <1>4, <1>7, BecomesNothing DEF Ended
<1>8. CASE page \notin Querying /\ Becomes(c, x)
  <2>1. DOMAIN x = CallFields /\ x.req = call.req /\ x.outcome = "pending"
    BY <1>2, NotedDone
  <2>2. (page \in Reading /\ ComputingOK(call, imported)) => ComputingOK(x, imported)
    BY <1>2, <1>3, ReadingReads
  <2>3. (page \in Watching /\ WatchingOK(call, imported)) => WatchingOK(x, imported)
    <3>1. {} \in SUBSET Watched(page)
      OBVIOUS
    <3> QED
      BY <1>2, <1>3, <3>1, WatchingDone
  <2> HIDE DEF x
  <2> QED
    BY <1>1, <1>8, <2>1, <2>2, <2>3, BecomesNext DEF call
<1> QED
  BY <1>5, <1>6, <1>7, <1>8

\* The call after a read, whatever follows from it.
LEMMA ReadFields ==
  ASSUME NEW call, NEW a, NEW n, NEW more, Awaiting(call, a)
  PROVE  LET x == Done(Noted(call, a, n), a, more)
         IN  /\ DOMAIN x = CallFields /\ x.req = call.req /\ x.outcome = "pending" /\ x.intent = call.intent
             /\ x.answer = call.answer /\ x.known = call.known
<1> DEFINE noted == Noted(call, a, n)
<1>1. /\ DOMAIN noted = CallFields /\ noted.req = call.req /\ noted.outcome = "pending"
      /\ noted.intent = call.intent /\ noted.answer = call.answer /\ noted.known = call.known
  BY NotedFields DEF Awaiting
<1> HIDE DEF noted
<1>2. LET x == Done(noted, a, more)
      IN  /\ DOMAIN x = CallFields /\ x.req = noted.req /\ x.outcome = noted.outcome
          /\ x.intent = noted.intent /\ x.answer = noted.answer /\ x.known = noted.known
  BY <1>1 DEF Done, CallFields
<1> QED
  BY <1>1, <1>2 DEF noted

\* Its awaits, and its reads.
LEMMA ReadStages ==
  ASSUME NEW call, NEW a, NEW n, NEW more, Awaiting(call, a), Head(call.stages) = {a}
  PROVE  /\ Done(Noted(call, a, n), a, more).stages =
              IF more = {} THEN Tail(call.stages) ELSE <<more>> \o Tail(call.stages)
         /\ OneMoreRead(Done(Noted(call, a, n), a, more), call, a, n)
         /\ OneMoreRead(Noted(call, a, n), call, a, n)
<1> DEFINE noted == Noted(call, a, n)
           x == Done(noted, a, more)
<1>1. DOMAIN noted = CallFields /\ noted.stages = call.stages
  BY NotedFields DEF Awaiting
<1>2. OneMoreRead(noted, call, a, n)
  BY DEF Noted, Awaiting, OneMoreRead, CallFields
<1>3. /\ x.at = noted.at
      /\ x.stages = IF (Head(noted.stages) \ {a}) \cup more = {} THEN Tail(noted.stages)
                    ELSE <<(Head(noted.stages) \ {a}) \cup more>> \o Tail(noted.stages)
  BY <1>1 DEF Done, CallFields
<1>4. (Head(noted.stages) \ {a}) \cup more = more
  BY <1>1
<1> HIDE DEF x
<1>5. x.stages = IF more = {} THEN Tail(call.stages) ELSE <<more>> \o Tail(call.stages)
  BY <1>1, <1>3, <1>4
<1>6. OneMoreRead(x, call, a, n)
  BY <1>2, <1>3 DEF OneMoreRead
<1> QED
  BY <1>2, <1>5, <1>6 DEF x, noted

\* Queries read identities and rows only.
LEMMA QueryTables ==
  ASSUME NEW call, NEW imp, RequestOf(call).page \in Querying, QueryOK(call, imp),
         NEW a \in TableReads, Awaiting(call, a)
  PROVE  /\ a \in {"identity", "result"} /\ Head(call.stages) = {a}
         /\ IntentOK(call) /\ "name" \in DOMAIN call.at /\ ReadsOK(call, imp)
         /\ ValidateExecutionSupport(call.intent) /\ ComputingOK(call, imp)
<1>1. a \notin {"names", "model", "name", "save", "lookup", "recheck"}
  BY DEF TableReads
<1>2. /\ Head(call.stages) = {a}
      /\ IntentOK(call) /\ "name" \in DOMAIN call.at /\ ReadsOK(call, imp)
      /\ ValidateExecutionSupport(call.intent) /\ ComputingOK(call, imp)
      /\ a \in Awaited(RequestOf(call).page) \ {"name"}
  BY <1>1, QueryAwait DEF Awaiting
<1>3. RequestOf(call).page \in Again /\ NamedBy(RequestOf(call).page) = "name"
  BY NamesOf DEF Again, Querying
<1>4. a \in {"identity", "result"}
  BY <1>2, <1>3 DEF Awaited, TableReads
<1> QED
  BY <1>2, <1>4

\* A page that is no query reads a table.
LEMMA PageReads ==
  ASSUME IInv, CallsHonest, NEW c \in Calls, NEW a \in TableReads, Awaits(c, a), NEW F, NEW more,
         more = {} \/ more = Follows(RequestOf(calls[c]), calls[c].intent, F, a),
         a \in {"identity", "result"} => RequestOf(calls[c]).page \notin Querying,
         Becomes(c, Done(Noted(calls[c], a, imported), a, more)), imported' = imported
  PROVE  CallsHonest'
<1> DEFINE call == calls[c]
           page == RequestOf(call).page
           x == Done(Noted(call, a, imported), a, more)
<1>1. Awaiting(call, a) /\ imported \in Nat
  BY AwaitsSomething, Imported
<1>2. DOMAIN x = CallFields /\ x.req = call.req /\ x.outcome = "pending"
  BY <1>1, ReadFields
<1>3. ASSUME page \in Reading, ComputingOK(call, imported)
      PROVE  ComputingOK(x, imported)
  <2>1. a \in Awaited(page)
    BY <1>1, <1>3, ReadingAwait DEF Awaiting
  <2>2. more = {}
    BY <1>3, <2>1, FollowsOf
  <2> QED
    BY <1>1, <1>3, <2>2, ReadingReads
<1>4. ASSUME page \in Watching, WatchingOK(call, imported)
      PROVE  WatchingOK(x, imported)
  <2>1. a # "reply"
    BY DEF TableReads
  <2>2. a \in Watched(page)
    BY <1>1, <1>4, <2>1, WatchingAwait DEF Awaiting
  <2>3. more \in SUBSET Watched(page)
    BY <1>4, <2>2, FollowsOf
  <2> QED
    BY <1>1, <1>4, <2>3, WatchingDone
<1>5. ~(page \in Querying /\ QueryOK(call, imported))
  BY <1>1, QueryTables
<1> HIDE DEF x
<1> QED
  BY <1>2, <1>3, <1>4, <1>5, BecomesNext DEF x

\* A publication is read, or there is none to be read under.
LEMMA ReadPublicationHonest ==
  ASSUME IInv, CallsHonest, NEW c \in Calls, ReadPublication(c)
  PROVE  CallsHonest'
<1> DEFINE noted == Noted(calls[c], "publication", imported)
<1>1. Awaits(c, "publication") /\ imported' = imported
  BY DEF ReadPublication, world
<1>2. DOMAIN noted = CallFields
  BY <1>1, AwaitsSomething, NotedFields DEF Awaiting
<1>3. Becomes(c, Ends(noted, "unavailable")) \/ Becomes(c, Done(noted, "publication", {}))
  BY DEF ReadPublication
<1>4. "publication" \in TableReads /\ "publication" \notin {"identity", "result"}
  BY DEF TableReads
<1>5. CASE Becomes(c, Ends(noted, "unavailable"))
  BY <1>1, <1>2, <1>5, BecomesNothing DEF Ended
<1>6. CASE Becomes(c, Done(noted, "publication", {}))
  BY <1>1, <1>4, <1>6, PageReads
<1> QED
  BY <1>3, <1>5, <1>6

\* People are read, and refused when there is one that nobody is.
LEMMA ReadPeopleHonest ==
  ASSUME IInv, CallsHonest, NEW c \in Calls, NEW a \in {"people", "web_names"}, ReadPeople(c, a)
  PROVE  CallsHonest'
<1> DEFINE noted == Noted(calls[c], a, imported)
<1>1. Awaits(c, a) /\ imported' = imported
  BY DEF ReadPeople, world
<1>2. DOMAIN noted = CallFields
  BY <1>1, AwaitsSomething, NotedFields DEF Awaiting
<1>3. Becomes(c, Ends(noted, "refused")) \/ Becomes(c, Done(noted, a, {}))
  BY DEF ReadPeople
<1>4. a \in TableReads /\ a \notin {"identity", "result"}
  BY DEF TableReads
<1>5. CASE Becomes(c, Ends(noted, "refused"))
  BY <1>1, <1>2, <1>5, BecomesNothing DEF Ended
<1>6. CASE Becomes(c, Done(noted, a, {}))
  BY <1>1, <1>4, <1>6, PageReads
<1> QED
  BY <1>3, <1>5, <1>6

\* The tables of a query.
LEMMA QueryTableHonest ==
  ASSUME IInv, CallsHonest, NEW c \in Calls, NEW a \in {"identity", "result"}, ReadTable(c, a),
         RequestOf(calls[c]).page \in Querying
  PROVE  CallsHonest'
<1> DEFINE call == calls[c]
           r == RequestOf(call)
           noted == Noted(call, a, imported)
           F == Saw(noted)
           more == Follows(r, call.intent, F, a)
           x == Done(noted, a, more)
           found == ResolvePlayerIdentity(Tables[imported], call.intent.entity_id, call.intent.competition)
<1>1. Awaits(c, a) /\ imported' = imported
  BY DEF ReadTable, world
<1>2. Awaiting(call, a) /\ imported \in Nat /\ DOMAIN call = CallFields /\ a \in TableReads
  BY <1>1, AwaitsSomething, Imported DEF Awaiting, TableReads
<1>3. RequestOf(noted) = r /\ noted.intent = call.intent
  BY <1>2, NotedFields
<1>4. Becomes(c, x)
  BY <1>3 DEF ReadTable
<1>5. DOMAIN x = CallFields /\ x.req = call.req /\ x.outcome = "pending" /\ x.intent = call.intent
      /\ x.answer = call.answer /\ x.known = call.known
  BY <1>2, ReadFields
<1>6. ASSUME QueryOK(call, imported)
      PROVE  Head(call.stages) = {a} /\ IntentOK(call) /\ "name" \in DOMAIN call.at
             /\ ValidateExecutionSupport(call.intent) /\ ComputingOK(call, imported)
  BY <1>2, <1>6, QueryTables
<1> SUFFICES ASSUME Head(call.stages) = {a}, QueryOK(call, imported)
             PROVE  QueryOK(x, imported)
  <2>1. r.page \notin Reading /\ r.page \notin Watching
    BY DEF Querying, Reading, Watching
  <2>2. QueryOK(call, imported) => QueryOK(x, imported)
    BY <1>6
  <2> HIDE DEF x
  <2> QED
    BY <1>1, <1>4, <1>5, <2>1, <2>2, BecomesNext
<1>7. /\ x.stages = IF more = {} THEN Tail(call.stages) ELSE <<more>> \o Tail(call.stages)
      /\ OneMoreRead(x, call, a, imported) /\ OneMoreRead(noted, call, a, imported)
  BY <1>2, ReadStages
<1>8. r.page # "player"
  BY DEF Querying
<1> HIDE DEF call, x
<1>9. a \in DOMAIN noted.at /\ noted.at[a] = imported
  BY <1>7 DEF OneMoreRead
<1> HIDE DEF noted
<1>10. F[a] = Tables[imported]
  <2>1. a \notin OwnSnapshotOnly
    BY DEF OwnSnapshotOnly
  <2> QED
    BY <1>2, <1>9, <2>1, SawOf
<1> HIDE DEF F
<1>11. \/ more = {} /\ (a = "identity" => found = Nothing)
       \/ more = {"result"} /\ a = "identity"
  <2>1. CASE a = "identity"
    BY <1>8, <1>10, <2>1 DEF Follows
  <2>2. CASE a = "result"
    BY <2>2 DEF Follows
  <2> QED
    BY <2>1, <2>2
<1> HIDE DEF more
<1>12. \/ x.stages = Tail(call.stages) /\ (a = "identity" => found = Nothing)
       \/ a = "identity" /\ x.stages = <<{"result"}>> \o Tail(call.stages)
  <2>1. {"result"} # {}
    OBVIOUS
  <2> QED
    BY <1>7, <1>11, <2>1
<1>13. ComputingOK(x, imported)
  BY <1>2, <1>5, <1>6, <1>7, <1>12, QueryReads DEF call
<1>14. RequestOf(x) = RequestOf(call)
  BY <1>5 DEF RequestOf
<1>15. IntentOK(x)
  BY <1>5, <1>6, <1>14 DEF IntentOK
<1>16. "name" \in DOMAIN x.at
  BY <1>6, <1>7 DEF OneMoreRead
<1>17. ReadsOK(x, imported)
  BY <1>13 DEF ComputingOK
<1> QED
  BY <1>5, <1>6, <1>13, <1>15, <1>16, <1>17 DEF QueryOK

\* Any other table.
LEMMA ReadTableHonest ==
  ASSUME IInv, CallsHonest, NEW c \in Calls, NEW a \in TableReads, ReadTable(c, a)
  PROVE  CallsHonest'
<1> DEFINE call == calls[c]
           noted == Noted(call, a, imported)
<1>1. Awaits(c, a) /\ imported' = imported
  BY DEF ReadTable, world
<1>2. RequestOf(noted) = RequestOf(call) /\ noted.intent = call.intent
  BY <1>1, AwaitsSomething, NotedFields DEF Awaiting
<1>3. Becomes(c, Done(noted, a, Follows(RequestOf(call), call.intent, Saw(noted), a)))
  BY <1>2 DEF ReadTable
<1>4. CASE a \in {"identity", "result"} /\ RequestOf(call).page \in Querying
  BY <1>4, QueryTableHonest
<1>5. CASE ~(a \in {"identity", "result"} /\ RequestOf(call).page \in Querying)
  BY <1>1, <1>3, <1>5, PageReads
<1> QED
  BY <1>4, <1>5

\* A read fails, and the page gives up or does without it.
LEMMA ReadFailsHonest ==
  ASSUME IInv, CallsHonest, NEW c \in Calls, NEW a \in TableReads \cup {"name", "check", "recheck"},
         ReadFails(c, a)
  PROVE  CallsHonest'
<1> DEFINE call == calls[c]
           page == RequestOf(call).page
           done == Done(call, a, {})
           x == Noted(done, a, 0)
<1>1. Awaits(c, a) /\ imported' = imported
  BY DEF ReadFails, world
<1>2. Awaiting(call, a) /\ imported \in Nat /\ DOMAIN call = CallFields
  BY <1>1, AwaitsSomething, Imported DEF Awaiting
<1>3. \/ Becomes(c, Ends(call, "unavailable"))
      \/ page \in {"home", "health", "cl"} /\ Becomes(c, x)
  BY DEF ReadFails
<1>4. CASE Becomes(c, Ends(call, "unavailable"))
  BY <1>1, <1>2, <1>4, BecomesNothing DEF Ended
<1>5. CASE page \in {"home", "health", "cl"} /\ Becomes(c, x)
  <2>1. page \notin Reading /\ page \notin Querying /\ page \in Watching
    BY <1>5 DEF Reading, Querying, Watching
  <2>2. DOMAIN done = CallFields /\ done.req = call.req /\ done.outcome = "pending"
    BY <1>2 DEF Done, CallFields, Awaiting
  <2>3. ASSUME WatchingOK(call, imported)
        PROVE  WatchingOK(x, imported)
    <3>1. a \in TableReads \cup {"name"}
      <4>1. Watched(page) \subseteq TableReads \cup {"name"}
        BY DEF Watched, TableReads
      <4>2. a \in Watched(page) \/ a = "reply"
        BY <1>2, <2>3, WatchingAwait DEF Awaiting
      <4>3. "reply" \notin TableReads \cup {"name", "check", "recheck"}
        BY DEF TableReads
      <4> QED
        BY <4>1, <4>2, <4>3
    <3>2. {} \in SUBSET Watched(page)
      OBVIOUS
    <3> QED
      BY <1>2, <2>3, <3>1, <3>2, WatchingDone
  <2> HIDE DEF done
  <2>4. DOMAIN x = CallFields /\ x.req = call.req /\ x.outcome = "pending"
    BY <2>2, NotedFields
  <2> HIDE DEF x
  <2> QED
    BY <1>1, <1>5, <2>1, <2>3, <2>4, BecomesNext
<1> QED
  BY <1>3, <1>4, <1>5

\* The reply.
LEMMA ReplyHonest ==
  ASSUME IInv, CallsHonest, NEW c \in Calls, Reply(c)
  PROVE  CallsHonest'
<1> DEFINE call == calls[c]
           r == RequestOf(call)
           answer == AnswerTo(r, call.intent, Shown(call), Saw(call))
           done == Done(call, "reply", {})
           x == [done EXCEPT !.answer = answer]
<1>1. Awaits(c, "reply") /\ imported' = imported
  BY DEF Reply, world
<1>2. Awaiting(call, "reply") /\ imported \in Nat /\ DOMAIN call = CallFields
  BY <1>1, AwaitsSomething, Imported DEF Awaiting
<1>3. Becomes(c, Ends(call, "unavailable")) \/ (answer # Invalid /\ Becomes(c, x))
  BY DEF Reply, Replied
<1> HIDE DEF answer, call
<1>4. CASE Becomes(c, Ends(call, "unavailable"))
  BY <1>1, <1>2, <1>4, BecomesNothing DEF Ended
<1>5. CASE answer # Invalid /\ Becomes(c, x)
  <2>1. DOMAIN done = CallFields /\ done.req = call.req /\ done.outcome = "pending"
        /\ done.intent = call.intent /\ done.known = call.known /\ done.at = call.at
    BY <1>2 DEF Done, CallFields, Awaiting
  <2>2. Head(call.stages) = {"reply"} => done.stages = Tail(call.stages)
    BY <1>2, DoneAlone
  <2> HIDE DEF done
  <2>3. /\ DOMAIN x = CallFields /\ x.req = call.req /\ x.outcome = "pending" /\ x.answer = answer
        /\ x.intent = call.intent /\ x.known = call.known /\ x.at = call.at /\ x.stages = done.stages
    BY <2>1 DEF CallFields
  <2> HIDE DEF x
  <2>4. Head(call.stages) = {"reply"} => OneFewer(x, call, "reply")
    BY <1>2, <2>2, <2>3 DEF OneFewer, Awaiting
  <2>5. ASSUME r.page \in Again, ComputingOK(call, imported), Head(call.stages) = {"reply"}
        PROVE  ComputingOK(x, imported)
    BY <1>5, <2>3, <2>4, <2>5, ReplyAwait DEF answer
  <2>6. ASSUME r.page \in Reading, ComputingOK(call, imported)
        PROVE  ComputingOK(x, imported)
    <3>1. Head(call.stages) = {"reply"} /\ r.page \in Again
      BY <1>2, <2>6, ReadingAwait DEF Awaiting
    <3> QED
      BY <2>5, <2>6, <3>1
  <2>7. ASSUME r.page \in Querying, QueryOK(call, imported)
        PROVE  QueryOK(x, imported)
    <3>1. /\ Head(call.stages) = {"reply"}
          /\ IntentOK(call) /\ "name" \in DOMAIN call.at /\ ReadsOK(call, imported)
          /\ ValidateExecutionSupport(call.intent) /\ ComputingOK(call, imported)
      <4>1. "reply" \notin {"names", "model", "name", "save", "lookup", "recheck"}
        OBVIOUS
      <4> QED
        BY <1>2, <2>7, <4>1, QueryAwait DEF Awaiting
    <3>2. r.page \in Again
      BY <2>7 DEF Again
    <3>3. ComputingOK(x, imported)
      BY <2>5, <3>1, <3>2
    <3>4. RequestOf(x) = r
      BY <2>3 DEF RequestOf
    <3>5. IntentOK(x) /\ ReadsOK(x, imported)
      BY <2>3, <3>1, <3>3, <3>4 DEF IntentOK, ComputingOK
    <3> QED
      BY <2>3, <3>1, <3>3, <3>5 DEF QueryOK
  <2>8. ASSUME r.page \in Watching, WatchingOK(call, imported)
        PROVE  WatchingOK(x, imported)
    <3>1. "reply" \notin Watched(r.page)
      BY DEF Watched
    <3>2. call.stages = <<{"reply"}>> /\ Head(call.stages) = {"reply"} /\ Tail(call.stages) = <<>>
      BY <1>2, <2>8, <3>1, WatchingAwait DEF Awaiting
    <3>3. x.stages = <<>> /\ Left(x.stages) = {} /\ Left(call.stages) = {"reply"}
      BY <2>2, <2>3, <3>2, LeftFew
    <3>4. /\ RequestOf(x) = r /\ NameOf(x) = NameOf(call) /\ Shown(x) = Shown(call) /\ Saw(x) = Saw(call)
      BY <2>3, SameView
    <3>5. NameOf(call) # "reply"
      BY <2>8, NamesOf DEF NameOf, Watching
    <3>6. {NameOf(x), "publication"} \subseteq Left(x.stages) \cup DOMAIN x.at
      BY <2>3, <2>8, <3>3, <3>4, <3>5 DEF WatchingOK
    <3>7. x.answer = AnswerTo(RequestOf(x), x.intent, Shown(x), Saw(x)) /\ x.answer # Invalid
      BY <1>5, <2>3, <3>4 DEF answer
    <3> QED
      BY <2>3, <2>8, <3>3, <3>6, <3>7 DEF WatchingOK
  <2> QED
    BY <1>1, <1>5, <2>3, <2>6, <2>7, <2>8, BecomesNext DEF call
<1> QED
  BY <1>3, <1>4, <1>5

\* The second look at the snapshot.
LEMMA RecheckHonest ==
  ASSUME IInv, CallsHonest, NEW c \in Calls, Recheck(c)
  PROVE  CallsHonest'
<1> DEFINE call == calls[c]
           r == RequestOf(call)
           x == Done(call, "recheck", {})
<1>1. Awaits(c, "recheck") /\ imported' = imported
  BY DEF Recheck, world
<1>2. Awaiting(call, "recheck") /\ imported \in Nat /\ DOMAIN call = CallFields
  BY <1>1, AwaitsSomething, Imported DEF Awaiting
<1>3. Becomes(c, Ends(call, "unavailable")) \/ (imported = NamedSnapshot(call) /\ Becomes(c, x))
  BY DEF Recheck
<1> HIDE DEF call
<1>4. CASE Becomes(c, Ends(call, "unavailable"))
  BY <1>1, <1>2, <1>4, BecomesNothing DEF Ended
<1>5. CASE imported = NamedSnapshot(call) /\ Becomes(c, x)
  <2>1. DOMAIN x = CallFields /\ x.req = call.req /\ x.outcome = "pending"
        /\ x.intent = call.intent /\ x.known = call.known /\ x.at = call.at /\ x.answer = call.answer
    BY <1>2 DEF Done, CallFields, Awaiting
  <2>2. Head(call.stages) = {"recheck"} => x.stages = Tail(call.stages)
    BY <1>2, DoneAlone
  <2> HIDE DEF x
  <2>3. Head(call.stages) = {"recheck"} => OneFewer(x, call, "recheck")
    BY <1>2, <2>1, <2>2 DEF OneFewer, Awaiting
  <2>4. ASSUME r.page \in Again, ComputingOK(call, imported), Head(call.stages) = {"recheck"}
        PROVE  ComputingOK(x, imported)
    BY <1>2, <1>5, <2>1, <2>3, <2>4, RecheckAwait
  <2>5. ASSUME r.page \in Reading, ComputingOK(call, imported)
        PROVE  ComputingOK(x, imported)
    <3>1. Head(call.stages) = {"recheck"} /\ r.page \in Again
      BY <1>2, <2>5, ReadingAwait DEF Awaiting
    <3> QED
      BY <2>4, <2>5, <3>1
  <2>6. ASSUME r.page \in Querying, QueryOK(call, imported)
        PROVE  QueryOK(x, imported)
    <3>1. /\ Head(call.stages) = {"recheck"}
          /\ IntentOK(call) /\ "name" \in DOMAIN call.at /\ ReadsOK(call, imported)
          /\ ValidateExecutionSupport(call.intent)
          /\ \/ ComputingOK(call, imported)
             \/ /\ call.answer = QueryAnswer(call.intent, AllOf(NamedSnapshot(call)))
                /\ Tail(call.stages) \in {<<>>, <<{"save"}>>}
      <4>1. "recheck" \notin {"names", "model", "name", "save", "lookup"}
        OBVIOUS
      <4> QED
        BY <1>2, <2>6, <4>1, QueryAwait DEF Awaiting
    <3>2. r.page \in Again
      BY <2>6 DEF Again
    <3>3. /\ RequestOf(x) = r /\ NameOf(x) = NameOf(call) /\ NamedSnapshot(x) = NamedSnapshot(call)
      BY <2>1, SameView
    <3>4. IntentOK(x) /\ ReadsOK(x, imported) /\ "name" \in DOMAIN x.at
      BY <2>1, <3>1, <3>3 DEF IntentOK, ReadsOK
    <3>5. CASE ComputingOK(call, imported)
      <4>1. ComputingOK(x, imported)
        BY <2>4, <3>1, <3>2, <3>5
      <4> QED
        BY <2>1, <3>1, <3>4, <4>1 DEF QueryOK
    <3>6. CASE /\ call.answer = QueryAnswer(call.intent, AllOf(NamedSnapshot(call)))
               /\ Tail(call.stages) \in {<<>>, <<{"save"}>>}
      <4>1. /\ x.answer = QueryAnswer(x.intent, AllOf(NamedSnapshot(x)))
            /\ x.stages \in {<<>>, <<{"save"}>>}
        BY <2>1, <2>2, <3>1, <3>3, <3>6
      <4> QED
        BY <2>1, <3>1, <3>4, <4>1 DEF QueryOK
    <3> QED
      BY <3>1, <3>5, <3>6
  <2>7. ~(r.page \in Watching /\ WatchingOK(call, imported))
    <3>1. "recheck" \notin Watched(r.page)
      BY DEF Watched
    <3> QED
      BY <1>2, <3>1, WatchingAwait DEF Awaiting
  <2> QED
    BY <1>1, <1>5, <2>1, <2>5, <2>6, <2>7, BecomesNext DEF call
<1> QED
  BY <1>3, <1>4, <1>5

\* An intent that a query computes with has all fields, no dimensions and no filters.
LEMMA Computable ==
  ASSUME NEW r, r.page \in Querying, ValidateExecutionSupport(Intended(r))
  PROVE  LET i == Intended(r)
         IN  /\ DOMAIN i = IntentFields /\ i = [f \in IntentFields |-> i[f]]
             /\ i.dimensions = <<>> /\ i.filters = <<>>
<1> DEFINE i == Intended(r)
<1>1. CASE r.page = "ask"
  <2>1. i = ParseRuleBased(r.ask, Artifact).intent
    BY <1>1 DEF Intended
  <2> QED
    BY <2>1, RulesPlain
<1>2. CASE r.page = "query"
  <2>1. i = WithDefaults(r.ask)
    BY <1>2 DEF Intended
  <2>2. DOMAIN i = IntentFields /\ i = [f \in IntentFields |-> i[f]]
    BY <2>1, Filled
  <2>3. i.dimensions = <<>> /\ i.filters = <<>>
    BY DEF ValidateExecutionSupport, ValidateQuerySemantics
  <2> QED
    BY <2>2, <2>3
<1> QED
  BY <1>1, <1>2 DEF Querying

\* A key says which intent and which snapshot its rows are of.
LEMMA KeySays ==
  ASSUME NEW q, q.page \in Querying, ValidateExecutionSupport(Intended(q)), NEW n,
         NEW r, r.page \in Querying, ValidateExecutionSupport(Intended(r)), NEW m,
         ArtifactKey(Intended(q), n, "code") = ArtifactKey(Intended(r), m, "code")
  PROVE  Intended(q) = Intended(r) /\ n = m
<1> DEFINE i == Intended(q)
           j == Intended(r)
           I == Canonicalize(i)
           J == Canonicalize(j)
<1>1. /\ DOMAIN i = IntentFields /\ i = [f \in IntentFields |-> i[f]]
      /\ i.dimensions = <<>> /\ i.filters = <<>>
  BY Computable
<1>2. /\ DOMAIN j = IntentFields /\ j = [f \in IntentFields |-> j[f]]
      /\ j.dimensions = <<>> /\ j.filters = <<>>
  BY Computable
<1>3. <<I, n, "code">> = <<J, m, "code">>
  BY DEF ArtifactKey
<1> HIDE DEF I, J
<1>4. I = J /\ n = m
  BY <1>3
<1>5. Canonicalize(i) = Canonicalize(j)
  BY <1>4 DEF I, J
<1> HIDE DEF i, j
<1>6. i = j
  BY <1>1, <1>2, <1>5, CanonicalSame
<1> QED
  BY <1>4, <1>6 DEF i, j

\* What the cache has under the key of a call is what the call is to answer.
LEMMA CacheAnswers ==
  ASSUME CacheHonest, NEW call, RequestOf(call).page \in Querying, IntentOK(call),
         ValidateExecutionSupport(call.intent), cache.key = Key(call)
  PROVE  cache.rows = QueryAnswer(call.intent, AllOf(NamedSnapshot(call)))
<1> DEFINE r == RequestOf(call)
           n == NamedSnapshot(call)
<1>1. call.intent = Intended(r)
  BY DEF IntentOK
<1>2. cache.key = ArtifactKey(call.intent, n, "code")
  BY DEF Key
<1>3. cache # NoEntry
  <2> DEFINE I == Canonicalize(call.intent)
  <2>1. cache.key = <<I, n, "code">>
    BY <1>2 DEF ArtifactKey
  <2> HIDE DEF I, n
  <2>2. <<I, n, "code">> # <<>>
    OBVIOUS
  <2>3. NoEntry.key = <<>>
    BY DEF NoEntry
  <2> QED
    BY <2>1, <2>2, <2>3
<1>4. PICK i \in DOMAIN Requests, m \in Snapshots :
        /\ Requests[i].page \in Querying /\ ValidateExecutionSupport(Intended(Requests[i]))
        /\ cache.key = ArtifactKey(Intended(Requests[i]), m, "code") /\ cache.snapshot = m
        /\ cache.rows = QueryAnswer(Intended(Requests[i]), AllOf(m))
  BY <1>3 DEF CacheHonest
<1> HIDE DEF r, n
<1>5. r.page \in Querying /\ ValidateExecutionSupport(Intended(r))
  BY <1>1 DEF r
<1>6. Intended(r) = Intended(Requests[i]) /\ n = m
  BY <1>1, <1>2, <1>4, <1>5, KeySays
<1> QED
  BY <1>1, <1>4, <1>6 DEF n

\* A query that asked the cache in vain computes.
LEMMA ComputesFirst ==
  ASSUME NEW call, NEW imp, RequestOf(call).page \in Querying, IntentOK(call),
         ValidateExecutionSupport(call.intent), DOMAIN call.at = {"name"}, ReadsOK(call, imp),
         NEW x, x.req = call.req, x.intent = call.intent, x.known = call.known, x.at = call.at,
         NEW account, x.stages = Compute(call.intent, account)
  PROVE  QueryOK(x, imp)
<1> DEFINE r == RequestOf(call)
<1>1. RequestOf(x) = r /\ NameOf(x) = "name" /\ NameOf(call) = "name"
  <2>1. RequestOf(x) = r
    BY DEF RequestOf
  <2> QED
    BY <2>1, NamesOf DEF NameOf, Querying
<1>2. IntentOK(x) /\ ReadsOK(x, imp) /\ ValidateExecutionSupport(x.intent)
  BY <1>1 DEF IntentOK, ReadsOK
<1>3. /\ Phased(r.page, x.stages)
      /\ {"reply", "recheck", IF Named(x.intent) THEN "identity" ELSE "result"} \subseteq Left(x.stages)
      /\ "name" \notin Left(x.stages)
  BY QueryWhole
<1>4. Gathering(x)
  <2>1. QueryGathering(x)
    BY <1>3 DEF QueryGathering
  <2> QED
    BY <1>1, <2>1 DEF Gathering
<1>5. RepliedOK(x) /\ RecheckedOK(x)
  BY <1>3 DEF RepliedOK, RecheckedOK
<1> HIDE DEF r
<1>6. ComputingOK(x, imp)
  BY <1>1, <1>2, <1>3, <1>4, <1>5 DEF ComputingOK
<1> QED
  BY <1>2, <1>6 DEF QueryOK

\* The cache is asked.
LEMMA LookUpHonest ==
  ASSUME IInv, CacheHonest, CallsHonest, NEW c \in Calls, LookUp(c)
  PROVE  CallsHonest'
<1> DEFINE call == calls[c]
           r == RequestOf(call)
           account == r.account
           plan == PlanOnMiss(call.intent, account)
           stages == <<{"recheck"}>> \o Saving(account)
           hit == [call EXCEPT !.answer = cache.rows, !.stages = stages]
           none == [call EXCEPT !.stages = plan.stages, !.answer = NoRows]
           miss == [call EXCEPT !.stages = plan.stages]
<1>1. Awaits(c, "lookup") /\ imported' = imported
  BY DEF LookUp, world
<1>2. Awaiting(call, "lookup") /\ imported \in Nat /\ DOMAIN call = CallFields /\ call.outcome = "pending"
  BY <1>1, AwaitsSomething, Imported DEF Awaiting
<1>3. \/ plan.outcome = "no_rows" /\ plan.stages \in {<<>>, <<{"save"}>>}
      \/ plan.outcome = "pending" /\ plan.stages = Compute(call.intent, account)
  BY PlansOf
<1>4. \/ cache.key = Key(call) /\ Becomes(c, hit)
      \/ plan.stages \in {<<>>, <<{"save"}>>} /\ Becomes(c, none)
      \/ plan.stages = Compute(call.intent, account) /\ Becomes(c, miss)
  BY <1>3 DEF LookUp, Planned
<1>5. stages \in {<<{"recheck"}>>, <<{"recheck"}, {"save"}>>}
  <2>1. CASE account
    <3> DEFINE A == {"recheck"}
               B == {"save"}
    <3> HIDE DEF A, B
    <3>1. <<A, B>> = <<A>> \o <<B>>
      BY JoinLiterals, Zenon
    <3> QED
      BY <2>1, <3>1 DEF Saving, A, B
  <2>2. CASE ~account
    <3> DEFINE A == <<{"recheck"}>>
    <3>1. A \in Seq({{"recheck"}})
      OBVIOUS
    <3> HIDE DEF A
    <3>2. A \o <<>> = A
      BY <3>1
    <3> QED
      BY <2>2, <3>2 DEF Saving, A
  <2> QED
    BY <2>1, <2>2
<1> HIDE DEF call, plan, stages
<1>6. ASSUME r.page \in Querying, QueryOK(call, imported)
      PROVE  /\ IntentOK(call) /\ DOMAIN call.at = {"name"} /\ ReadsOK(call, imported)
             /\ ValidateExecutionSupport(call.intent)
  <2>1. "lookup" \notin {"names", "model", "name", "save", "recheck"} /\ "lookup" \notin Awaited(r.page)
    <3>1. r.page \in Again
      BY <1>6 DEF Again
    <3> QED
      BY <3>1, PlainQuestion
  <2> QED
    BY <1>2, <1>6, <2>1, QueryAwait DEF Awaiting
<1>7. ~(r.page \in Reading /\ ComputingOK(call, imported))
  BY <1>2, ReadingAwait, PlainQuestion DEF Awaiting
<1>8. ~(r.page \in Watching /\ WatchingOK(call, imported))
  BY <1>2, WatchingAwait, PlainQuestion DEF Awaiting
<1>9. /\ DOMAIN hit = CallFields /\ hit.req = call.req /\ hit.outcome = "pending" /\ hit.intent = call.intent
      /\ hit.known = call.known /\ hit.at = call.at /\ hit.stages = stages /\ hit.answer = cache.rows
      /\ DOMAIN none = CallFields /\ none.req = call.req /\ none.outcome = "pending"
      /\ DOMAIN miss = CallFields /\ miss.req = call.req /\ miss.outcome = "pending"
      /\ miss.intent = call.intent /\ miss.known = call.known /\ miss.at = call.at /\ miss.stages = plan.stages
  BY <1>2 DEF CallFields
<1>10. CASE cache.key = Key(call) /\ Becomes(c, hit)
  <2> HIDE DEF hit
  <2>1. ASSUME r.page \in Querying, QueryOK(call, imported)
        PROVE  QueryOK(hit, imported)
    <3>1. cache.rows = QueryAnswer(call.intent, AllOf(NamedSnapshot(call)))
      BY <1>6, <1>10, <2>1, CacheAnswers
    <3>2. RequestOf(hit) = r /\ NameOf(hit) = NameOf(call) /\ NamedSnapshot(hit) = NamedSnapshot(call)
      BY <1>9, SameView
    <3>3. IntentOK(hit) /\ ReadsOK(hit, imported) /\ "name" \in DOMAIN hit.at
      BY <1>6, <1>9, <2>1, <3>2 DEF IntentOK, ReadsOK
    <3>4. hit.answer = QueryAnswer(hit.intent, AllOf(NamedSnapshot(hit)))
      BY <1>9, <3>1, <3>2
    <3> QED
      BY <1>5, <1>6, <1>9, <2>1, <3>3, <3>4 DEF QueryOK
  <2> QED
    BY <1>1, <1>7, <1>8, <1>9, <1>10, <2>1, BecomesNext DEF call
<1>11. CASE plan.stages \in {<<>>, <<{"save"}>>} /\ Becomes(c, none)
  <2>1. ASSUME r.page \in Querying, QueryOK(call, imported)
        PROVE  QueryOK(none, imported)
    BY <1>2, <1>6, <1>11, <2>1, WithoutRows
  <2> HIDE DEF none
  <2> QED
    BY <1>1, <1>7, <1>8, <1>9, <1>11, <2>1, BecomesNext DEF call
<1>12. CASE plan.stages = Compute(call.intent, account) /\ Becomes(c, miss)
  <2> HIDE DEF miss
  <2>1. ASSUME r.page \in Querying, QueryOK(call, imported)
        PROVE  QueryOK(miss, imported)
    BY <1>6, <1>9, <1>12, <2>1, ComputesFirst
  <2> QED
    BY <1>1, <1>7, <1>8, <1>9, <1>12, <2>1, BecomesNext DEF call
<1> QED
  BY <1>4, <1>10, <1>11, <1>12

----------------------------------------------------------------------------
(***************************************************************************)
(* Only queries ask the cache and store in it.                             *)
(***************************************************************************)

\* The stages of a page before and after an await of its.
LEMMA ApartDone ==
  ASSUME NEW s \in Seq(SUBSET Elsewhere), s # <<>>, NEW a, NEW more \in SUBSET Elsewhere
  PROVE  LET rest == (Head(s) \ {a}) \cup more
         IN  (IF rest = {} THEN Tail(s) ELSE <<rest>> \o Tail(s)) \in Seq(SUBSET Elsewhere)
<1> DEFINE rest == (Head(s) \ {a}) \cup more
           t == Tail(s)
<1>1. t \in Seq(SUBSET Elsewhere) /\ Head(s) \in SUBSET Elsewhere
  OBVIOUS
<1>2. rest \in SUBSET Elsewhere
  BY <1>1
<1> SUFFICES (IF rest = {} THEN t ELSE <<rest>> \o t) \in Seq(SUBSET Elsewhere)
  OBVIOUS
<1> HIDE DEF rest, t
<1>3. <<rest>> \in Seq(SUBSET Elsewhere)
  BY <1>2
<1>4. <<rest>> \o t \in Seq(SUBSET Elsewhere)
  BY <1>1, <1>3
<1> QED
  BY <1>1, <1>4

\* What follows from a read on another page.
LEMMA FollowsElsewhere ==
  ASSUME NEW r, NEW intent, NEW F, NEW a
  PROVE  Follows(r, intent, F, a) \in SUBSET Elsewhere /\ {} \in SUBSET Elsewhere
<1>1. /\ {"stages"} \in SUBSET Elsewhere /\ {"again"} \in SUBSET Elsewhere
      /\ {"result"} \in SUBSET Elsewhere /\ {"career"} \in SUBSET Elsewhere
  BY DEF Elsewhere, PlainAwaits, TableReads
<1> QED
  BY <1>1 DEF Follows

\* Nothing of it is asked or stored on arrival.
LEMMA EntersApart ==
  ASSUME NEW r, r.page \notin Querying
  PROVE  Enter(r).stages \in Seq(SUBSET Elsewhere)
<1>1. \A a \in {"kv", "kv_put", "charge", "names", "model", "name", "reply", "recheck", "check",
                "publication", "labels", "records", "people", "web_names", "facts", "choices", "save",
                "splits", "lineage", "totals", "sums", "comparison", "identity"} :
        {a} \in SUBSET Elsewhere
  BY DEF Elsewhere, PlainAwaits, TableReads
<1>2. /\ {"squad_rows", "record", "europe", "history"} \in SUBSET Elsewhere
      /\ {"publication", "batch"} \in SUBSET Elsewhere /\ {"name", "publication"} \in SUBSET Elsewhere
      /\ {"name", "publication", "squad"} \in SUBSET Elsewhere
  BY DEF Elsewhere, PlainAwaits, TableReads
<1> DEFINE S == Seq(SUBSET Elsewhere)
<1> HIDE DEF Elsewhere
<1>3. <<>> \in S /\ Breaker \in S /\ SplitReads \in S
  <2>1. <<>> \in S
    OBVIOUS
  <2>2. Breaker \in S
    BY <1>1 DEF Breaker
  <2>3. SplitReads \in S
    BY <1>1 DEF SplitReads
  <2> QED
    BY <2>1, <2>2, <2>3
<1>4. \A some : Saving(some) \in S
  <2>1. <<{"save"}>> \in S
    BY <1>1
  <2> QED
    BY <1>3, <2>1 DEF Saving
<1>5. \A s \in S, t \in S : s \o t \in S
  OBVIOUS
<1>6. /\ <<{"publication"}>> \in S /\ <<{"labels"}, {"reply"}, {"recheck"}>> \in S /\ <<{"records"}>> \in S
      /\ <<{"name"}, {"choices"}, {"reply"}>> \in S
  BY <1>1
<1>7. <<{"name"}, {"people"}, {"web_names"}, {"facts"}, {"reply"}, {"recheck"}>> \in S
  BY <1>1
<1>8. <<{"name"}, {"people"}, {"check"}, {"facts"}, {"check"}, {"check"}, {"recheck"},
        {"web_names"}, {"choices"}, {"reply"}>> \in S
  BY <1>1
<1>9. /\ <<{"names"}, {"model"}>> \in S /\ <<{"comparison"}, {"reply"}>> \in S
      /\ <<{"identity"}, {"name"}, {"reply"}>> \in S
  BY <1>1
<1>10. /\ <<{"squad_rows", "record", "europe", "history"}, {"name"}, {"reply"}>> \in S
       /\ <<{"publication", "batch"}, {"reply"}>> \in S /\ <<{"name", "publication"}, {"reply"}>> \in S
       /\ <<{"name", "publication", "squad"}, {"reply"}>> \in S
  BY <1>1, <1>2
<1> SUFFICES Enter(r).stages \in S
  OBVIOUS
<1> HIDE DEF S
<1>11. CASE r.page = "splits"
  <2> DEFINE stages == Breaker \o <<{"publication"}>> \o SplitReads \o <<{"labels"}, {"reply"}, {"recheck"}>>
  <2>1. stages \in S
    BY <1>3, <1>5, <1>6
  <2>2. SplitsPage(r.ask) = Refusal \/ SplitsPage(r.ask) = Static \/ SplitsPage(r.ask) = Reads(stages)
    BY DEF SplitsPage
  <2> HIDE DEF stages
  <2> QED
    BY <1>3, <1>11, <2>1, <2>2 DEF Enter, Refusal, Static, Reads
<1>12. CASE r.page = "opponents"
  <2> DEFINE reads == IF OpponentsForm(r.ask) THEN <<>> ELSE SplitReads \o <<{"records"}>>
             stages == Breaker \o <<{"publication"}>> \o reads \o <<{"labels"}, {"reply"}, {"recheck"}>>
  <2>1. reads \in S
    BY <1>3, <1>5, <1>6
  <2> HIDE DEF reads
  <2>2. stages \in S
    BY <1>3, <1>5, <1>6, <2>1
  <2>3. OpponentsPage(r.ask) = Refusal \/ OpponentsPage(r.ask) = Static \/ OpponentsPage(r.ask) = Reads(stages)
    BY DEF OpponentsPage, reads
  <2> HIDE DEF stages
  <2> QED
    BY <1>3, <1>12, <2>2, <2>3 DEF Enter, Refusal, Static, Reads
<1>13. CASE r.page = "range"
  <2> DEFINE reads == <<{"name"}, {"people"}, {"web_names"}, {"facts"}, {"reply"}, {"recheck"}>>
             stages == Breaker \o reads \o Saving(r.account)
  <2>1. stages \in S
    BY <1>3, <1>4, <1>5, <1>7
  <2>2. RangePage(r.ask, r.account) = Refusal \/ RangePage(r.ask, r.account) = Reads(stages)
    BY DEF RangePage
  <2> HIDE DEF stages
  <2> QED
    BY <1>3, <1>13, <2>1, <2>2 DEF Enter, Refusal, Reads
<1>14. CASE r.page = "trends"
  <2> DEFINE form == Breaker \o <<{"name"}, {"choices"}, {"reply"}>>
             stages == Breaker \o <<{"name"}, {"people"}, {"check"}, {"facts"}, {"check"}, {"check"},
                                    {"recheck"}, {"web_names"}, {"choices"}, {"reply"}>>
  <2>1. form \in S /\ stages \in S
    BY <1>3, <1>5, <1>6, <1>8
  <2>2. TrendsPage(r.ask) = Reads(form) \/ TrendsPage(r.ask) = Refusal \/ TrendsPage(r.ask) = Reads(stages)
    BY DEF TrendsPage
  <2> HIDE DEF form, stages
  <2> QED
    BY <1>3, <1>14, <2>1, <2>2 DEF Enter, Refusal, Reads
<1>15. CASE r.page = "compare"
  <2> DEFINE stages == <<{"comparison"}, {"reply"}>>
  <2>1. ComparePage(r.ask) = Refusal \/ ComparePage(r.ask) = Reads(stages)
    <3> DEFINE q == r.ask
               defaults == SelectComparisonDefaults(ComparisonSeasons, q.season, q.metric)
               season == IF q.season = Nothing THEN defaults.season ELSE q.season
               metric == IF q.metric = Nothing THEN defaults.metric ELSE q.metric
               refused == season \notin ComparisonSeasons[metric] \/ q.minimum \notin 0..20000
    <3>1. ComparePage(q) = IF defaults = Nothing THEN Refusal ELSE IF refused THEN Refusal ELSE Reads(stages)
      BY DEF ComparePage
    <3> HIDE DEF defaults, refused
    <3> QED
      BY <3>1
  <2>2. stages \in S
    BY <1>9
  <2> HIDE DEF stages
  <2> QED
    BY <1>3, <1>15, <2>1, <2>2 DEF Enter, Refusal, Reads
<1>16. CASE r.page \in {"ask", "chat"}
  <2> DEFINE stages == <<{"names"}, {"model"}>>
  <2>1. QuestionPage(r.ask) = Refusal \/ QuestionPage(r.ask) = Reads(stages)
    BY DEF QuestionPage
  <2>2. stages \in S
    BY <1>9
  <2> HIDE DEF stages
  <2> QED
    BY <1>3, <1>16, <2>1, <2>2 DEF Enter, Refusal, Reads
<1>17. CASE r.page = "season"
  BY <1>10, <1>17 DEF Enter, SeasonPage, Reads
<1>18. CASE r.page = "player"
  BY <1>9, <1>18 DEF Enter, PlayerPage, Reads
<1>19. CASE r.page = "cl"
  BY <1>10, <1>19 DEF Enter, ChampionsLeaguePage, Reads
<1>20. CASE r.page = "health"
  BY <1>10, <1>20 DEF Enter, HealthPage, Reads
<1>21. CASE r.page \notin {"ask", "chat", "query", "splits", "opponents", "range", "trends", "compare",
                           "season", "player", "cl", "health"}
  BY <1>10, <1>21 DEF Enter, HomePage, Reads
<1>22. r.page # "query"
  BY DEF Querying
<1> QED
  BY <1>11, <1>12, <1>13, <1>14, <1>15, <1>16, <1>17, <1>18, <1>19, <1>20, <1>21, <1>22

\* One request becomes another that keeps apart.
LEMMA BecomesApart ==
  ASSUME CallsOK, CallsApart, NEW c \in Calls, NEW x, Becomes(c, x), DOMAIN x = CallFields, Apart(x)
  PROVE  CallsApart'
<1> DEFINE y == IF x.stages = <<>> /\ x.outcome = "pending" THEN Ends(x, "answered") ELSE x
<1>1. Apart(Ends(x, "answered"))
  <2>1. Ends(x, "answered").stages = <<>>
    BY DEF Ends, CallFields
  <2>2. <<>> \in Seq(SUBSET Elsewhere)
    OBVIOUS
  <2> QED
    BY <2>1, <2>2 DEF Apart
<1>2. Apart(y)
  BY <1>1
<1>3. calls' = [calls EXCEPT ![c] = y]
  BY DEF Becomes
<1> HIDE DEF y
<1>4. \A e \in Calls : Apart(calls'[e])
  BY <1>2, <1>3 DEF CallsOK, CallsApart
<1> QED
  BY <1>4 DEF CallsApart

\* x is what call becomes, and it asks and stores no more than call does.
KeepsApart(x, call) ==
  /\ DOMAIN x = CallFields /\ x.req = call.req
  /\ (RequestOf(call).page \notin Querying /\ call.stages \in Seq(SUBSET Elsewhere)) =>
       x.stages \in Seq(SUBSET Elsewhere)

\* What a step does to a call keeps it apart.
LEMMA Keeps ==
  ASSUME NEW call, DOMAIN call = CallFields
  PROVE  /\ \A outcome : KeepsApart(Ends(call, outcome), call)
         /\ \A a, n : KeepsApart(Noted(call, a, n), call) /\ Noted(call, a, n).stages = call.stages
         /\ call.stages # <<>> =>
              \A a : \A more \in SUBSET Elsewhere : KeepsApart(Done(call, a, more), call)
         /\ \A v : /\ KeepsApart([call EXCEPT !.answer = v], call)
                   /\ KeepsApart([call EXCEPT !.known = v], call)
                   /\ KeepsApart([call EXCEPT !.kv = v], call)
                   /\ KeepsApart([call EXCEPT !.day = v], call)
<1>1. ASSUME NEW outcome
      PROVE  KeepsApart(Ends(call, outcome), call)
  <2> DEFINE x == Ends(call, outcome)
  <2>1. DOMAIN x = CallFields /\ x.req = call.req /\ x.stages = <<>>
    BY DEF Ends, CallFields
  <2>2. <<>> \in Seq(SUBSET Elsewhere)
    OBVIOUS
  <2> HIDE DEF x
  <2>3. KeepsApart(x, call)
    BY <2>1, <2>2 DEF KeepsApart
  <2> QED
    BY <2>3 DEF x
<1>2. ASSUME NEW a, NEW n
      PROVE  KeepsApart(Noted(call, a, n), call) /\ Noted(call, a, n).stages = call.stages
  BY NotedFields DEF KeepsApart
<1>3. ASSUME call.stages # <<>>, NEW a, NEW more \in SUBSET Elsewhere
      PROVE  KeepsApart(Done(call, a, more), call)
  <2> DEFINE x == Done(call, a, more)
             s == call.stages
             rest == (Head(s) \ {a}) \cup more
             next == IF rest = {} THEN Tail(s) ELSE <<rest>> \o Tail(s)
  <2>1. s \in Seq(SUBSET Elsewhere) => next \in Seq(SUBSET Elsewhere)
    BY <1>3, ApartDone
  <2> HIDE DEF next
  <2>2. x = [call EXCEPT !.stages = next]
    BY DEF Done, next
  <2> HIDE DEF x
  <2>3. DOMAIN x = CallFields /\ x.req = call.req /\ x.stages = next
    BY <2>2 DEF CallFields
  <2>4. KeepsApart(x, call)
    BY <2>1, <2>3 DEF KeepsApart
  <2> QED
    BY <2>4 DEF x
<1>4. ASSUME NEW v
      PROVE  /\ KeepsApart([call EXCEPT !.answer = v], call) /\ KeepsApart([call EXCEPT !.known = v], call)
             /\ KeepsApart([call EXCEPT !.kv = v], call) /\ KeepsApart([call EXCEPT !.day = v], call)
  BY DEF KeepsApart, CallFields
<1> QED
  BY <1>1, <1>2, <1>3, <1>4

\* One after another.
LEMMA KeepsTwice ==
  ASSUME NEW x, NEW y, NEW z, KeepsApart(x, y), KeepsApart(y, z)
  PROVE  KeepsApart(x, z)
<1>1. y.req = z.req
  BY DEF KeepsApart
<1>2. RequestOf(y) = RequestOf(z)
  BY <1>1 DEF RequestOf
<1> QED
  BY <1>2 DEF KeepsApart

\* A request in flight keeps apart.
LEMMA ApartNext ==
  ASSUME CallsOK, CallsApart, NEW c \in Calls, NEW a, Awaits(c, a), NEW x, KeepsApart(x, calls[c]),
         Becomes(c, x)
  PROVE  CallsApart'
<1> DEFINE call == calls[c]
<1>1. call.outcome = "pending" /\ Apart(call)
  BY AwaitsRunning DEF CallsApart
<1> HIDE DEF call
<1>2. call # Idle
  BY <1>1 DEF Idle
<1>3. KeepsApart(x, call)
  BY DEF call
<1>4. DOMAIN x = CallFields /\ x.req = call.req
  BY <1>3 DEF KeepsApart
<1>5. RequestOf(x) = RequestOf(call)
  BY <1>4 DEF RequestOf
<1>6. Apart(x)
  BY <1>1, <1>2, <1>3, <1>5 DEF Apart, KeepsApart
<1> QED
  BY <1>4, <1>6, BecomesApart

\* A request in flight has its fields and an await.
LEMMA InFlight ==
  ASSUME CallsOK, NEW c \in Calls, NEW a, Awaits(c, a)
  PROVE  DOMAIN calls[c] = CallFields /\ calls[c].stages # <<>> /\ a \in Head(calls[c].stages)
  BY AwaitsRunning DEF Running

\* It goes on after a read, and after one that failed.
LEMMA ReadsApart ==
  ASSUME CallsOK, NEW c \in Calls, NEW a, Awaits(c, a), NEW n, NEW more \in SUBSET Elsewhere
  PROVE  /\ KeepsApart(Done(Noted(calls[c], a, n), a, more), calls[c])
         /\ KeepsApart(Noted(Done(calls[c], a, {}), a, n), calls[c])
         /\ \A outcome : KeepsApart(Ends(Noted(calls[c], a, n), outcome), calls[c])
<1> DEFINE call == calls[c]
           noted == Noted(call, a, n)
           done == Done(call, a, {})
<1>1. DOMAIN call = CallFields /\ call.stages # <<>> /\ {} \in SUBSET Elsewhere
  BY InFlight
<1> HIDE DEF call
<1>2. KeepsApart(noted, call) /\ noted.stages = call.stages /\ KeepsApart(done, call)
  BY <1>1, Keeps
<1> HIDE DEF noted, done
<1>3. DOMAIN noted = CallFields /\ DOMAIN done = CallFields
  BY <1>2 DEF KeepsApart
<1>4. KeepsApart(Done(noted, a, more), noted)
  BY <1>1, <1>2, <1>3, Keeps
<1>5. KeepsApart(Noted(done, a, n), done)
  BY <1>3, Keeps
<1>6. \A outcome : KeepsApart(Ends(noted, outcome), noted)
  BY <1>3, Keeps
<1>7. \A outcome : KeepsApart(Ends(noted, outcome), call)
  BY <1>2, <1>6, KeepsTwice
<1> QED
  BY <1>2, <1>4, <1>5, <1>7, KeepsTwice DEF noted, done, call
\* It ends.
LEMMA EndsApart ==
  ASSUME CallsOK, CallsApart, NEW c \in Calls, NEW a, Awaits(c, a), NEW outcome,
         Becomes(c, Ends(calls[c], outcome))
  PROVE  CallsApart'
<1>1. DOMAIN calls[c] = CallFields
  BY InFlight
<1>2. KeepsApart(Ends(calls[c], outcome), calls[c])
  BY <1>1, Keeps
<1> QED
  BY <1>2, ApartNext

\* It goes on.
LEMMA GoesOnApart ==
  ASSUME CallsOK, CallsApart, NEW c \in Calls, NEW a, Awaits(c, a),
         Becomes(c, Done(calls[c], a, {}))
  PROVE  CallsApart'
<1>1. DOMAIN calls[c] = CallFields /\ calls[c].stages # <<>> /\ {} \in SUBSET Elsewhere
  BY InFlight
<1>2. KeepsApart(Done(calls[c], a, {}), calls[c])
  BY <1>1, Keeps
<1> QED
  BY <1>2, ApartNext

\* The steps of the breaker, the looks at the snapshot, and what is kept.
LEMMA PlainStepsApart ==
  ASSUME CallsOK, CallsApart, NEW c \in Calls,
         FastCount(c) \/ Charge(c) \/ ChargeFails(c) \/ Check(c) \/ Save(c) \/ Store(c) \/ Recheck(c)
  PROVE  CallsApart'
<1>1. \E a \in {"kv_put", "charge", "check", "save", "store", "recheck"} :
         Awaits(c, a) /\ \/ Becomes(c, Done(calls[c], a, {}))
                         \/ Becomes(c, Ends(calls[c], "unavailable"))
                         \/ Becomes(c, Ends(calls[c], "over_limit"))
  BY DEF FastCount, Charge, ChargeFails, Check, Save, Store, Recheck
<1> QED
  BY <1>1, EndsApart, GoesOnApart

\* The breaker looks at the counter of KV.
LEMMA FastCheckApart ==
  ASSUME CallsOK, CallsApart, NEW c \in Calls, FastCheck(c)
  PROVE  CallsApart'
<1> DEFINE old == calls[c]
           call == [old EXCEPT !.day = day]
           one == Done(call, "kv", {})
           two == Done(one, "kv_put", {})
<1>1. Awaits(c, "kv")
  BY DEF FastCheck
<1>2. DOMAIN old = CallFields /\ old.stages # <<>> /\ "kv" \in Head(old.stages) /\ {} \in SUBSET Elsewhere
  BY <1>1, InFlight
<1>3. Ordered(old.stages)
  BY <1>1, AwaitsRunning DEF Running
<1>4. \/ \E count : Becomes(c, Ends(call, "over_limit"))
      \/ \E count : Becomes(c, [one EXCEPT !.kv = count])
      \/ Becomes(c, two)
  BY DEF FastCheck
<1> HIDE DEF old
<1>5. KeepsApart(call, old) /\ DOMAIN call = CallFields /\ call.stages = old.stages
  BY <1>2, Keeps DEF CallFields
<1> HIDE DEF call
<1>6. KeepsApart(one, call) /\ \A outcome : KeepsApart(Ends(call, outcome), call)
  BY <1>2, <1>5, Keeps
<1>7. Head(call.stages) = {"kv"} /\ Tail(call.stages) # <<>>
  BY <1>2, <1>3, <1>5, HeadOrdered DEF PlainAwaits, TableReads
<1>8. DOMAIN one = CallFields /\ one.stages # <<>>
  BY <1>5, <1>7, DoneAlone
<1> HIDE DEF one
<1>9. KeepsApart(two, one) /\ \A count : KeepsApart([one EXCEPT !.kv = count], one)
  BY <1>2, <1>8, Keeps
<1> HIDE DEF two
<1>10. KeepsApart(one, old)
  BY <1>5, <1>6, KeepsTwice
<1>11. KeepsApart(two, old)
  BY <1>9, <1>10, KeepsTwice
<1>12. \A outcome : KeepsApart(Ends(call, outcome), old)
  BY <1>5, <1>6, KeepsTwice
<1>13. \A count : KeepsApart([one EXCEPT !.kv = count], old)
  BY <1>9, <1>10, KeepsTwice
<1>14. \E x : KeepsApart(x, old) /\ Becomes(c, x)
  BY <1>4, <1>11, <1>12, <1>13
<1> QED
  BY <1>1, <1>14, ApartNext DEF old

\* The gate reads the names of players.
LEMMA ReadNamesApart ==
  ASSUME CallsOK, CallsApart, NEW c \in Calls, ReadNames(c)
  PROVE  CallsApart'
<1> DEFINE call == calls[c]
           one == Done(call, "names", {})
<1>1. Awaits(c, "names")
  BY DEF ReadNames
<1>2. PICK known : Becomes(c, Gated(call, known))
  BY DEF ReadNames
<1>3. DOMAIN call = CallFields /\ call.stages # <<>> /\ {} \in SUBSET Elsewhere
  BY <1>1, InFlight
<1>4. Gated(call, known) = [one EXCEPT !.known = known] \/ Gated(call, known) = Ends(call, "refused")
  BY DEF Gated
<1> HIDE DEF call
<1>5. KeepsApart(one, call) /\ KeepsApart(Ends(call, "refused"), call)
  BY <1>3, Keeps
<1> HIDE DEF one
<1>6. KeepsApart([one EXCEPT !.known = known], one)
  BY <1>5, Keeps DEF KeepsApart
<1>7. KeepsApart([one EXCEPT !.known = known], call)
  BY <1>5, <1>6, KeepsTwice
<1> QED
  BY <1>1, <1>2, <1>4, <1>5, <1>7, ApartNext DEF call

\* A question becomes an intent.
LEMMA ProposeIntentApart ==
  ASSUME CallsOK, CallsApart, NEW c \in Calls, NEW output, ProposeIntent(c, output)
  PROVE  CallsApart'
<1> DEFINE call == calls[c]
           r == RequestOf(call)
           proposal == Propose(r.ask, call.known, Artifact, AiMode, output)
           answer == [proposal |-> proposal, feasibility |-> CheckFeasibility(Artifact, proposal.intent, FALSE)]
           x == [call EXCEPT !.intent = proposal.intent, !.stages = <<{"name"}>>]
           end == Ends(call, "answered")
<1>1. Awaits(c, "model") /\ Becomes(c, Proposed(call, proposal))
  BY DEF ProposeIntent
<1>2. \/ Proposed(call, proposal) = [end EXCEPT !.answer = answer]
      \/ Proposed(call, proposal) \in {Ends(call, "refused"), Ends(call, "clarification")}
      \/ Proposed(call, proposal) = x
  BY DEF Proposed
<1> HIDE DEF proposal, answer
<1>3. DOMAIN call = CallFields
  BY <1>1, InFlight
<1> HIDE DEF call
<1>4. \A outcome : KeepsApart(Ends(call, outcome), call)
  BY <1>3, Keeps
<1>5. KeepsApart(end, call)
  BY <1>4
<1> HIDE DEF end
<1>6. KeepsApart([end EXCEPT !.answer = answer], end)
  BY <1>5, Keeps DEF KeepsApart
<1>7. KeepsApart([end EXCEPT !.answer = answer], call)
  BY <1>5, <1>6, KeepsTwice
<1>8. KeepsApart(x, call)
  <2>1. DOMAIN x = CallFields /\ x.req = call.req /\ x.stages = <<{"name"}>>
    BY <1>3 DEF CallFields
  <2>2. {"name"} \in SUBSET Elsewhere
    BY DEF Elsewhere, PlainAwaits
  <2>3. <<{"name"}>> \in Seq(SUBSET Elsewhere)
    BY <2>2
  <2> HIDE DEF x
  <2> QED
    BY <2>1, <2>3 DEF KeepsApart
<1>9. KeepsApart(Proposed(call, proposal), call)
  BY <1>2, <1>4, <1>7, <1>8
<1> QED
  BY <1>1, <1>9, ApartNext DEF call

\* What a plan makes of a query.
LEMMA PlannedApart ==
  ASSUME NEW call, DOMAIN call = CallFields, RequestOf(call).page \in Querying, NEW plan
  PROVE  KeepsApart(Planned(call, plan), call)
<1>1. DOMAIN Planned(call, plan) = CallFields /\ Planned(call, plan).req = call.req
  BY DEF Planned, Ends, CallFields
<1> QED
  BY <1>1 DEF KeepsApart

\* A page names its snapshot.
LEMMA NameSnapshotApart ==
  ASSUME CallsOK, CallsApart, NEW c \in Calls, NameSnapshot(c)
  PROVE  CallsApart'
<1> DEFINE call == calls[c]
           noted == Noted(call, "name", imported)
           page == RequestOf(noted).page
           plan == PlanQuery(noted.intent, RequestOf(noted).account)
<1>1. Awaits(c, "name")
  BY DEF NameSnapshot
<1>2. \/ page \in Querying /\ Becomes(c, Planned(noted, plan))
      \/ Becomes(c, Ends(noted, "unavailable"))
      \/ Becomes(c, Done(noted, "name", {}))
  BY DEF NameSnapshot, Querying
<1>3. {} \in SUBSET Elsewhere
  OBVIOUS
<1>4. KeepsApart(Done(noted, "name", {}), call) /\ KeepsApart(Ends(noted, "unavailable"), call)
  BY <1>1, <1>3, ReadsApart
<1>5. DOMAIN call = CallFields
  BY <1>1, InFlight
<1> HIDE DEF call
<1>6. KeepsApart(noted, call) /\ DOMAIN noted = CallFields
  BY <1>5, Keeps, NotedFields
<1> HIDE DEF noted, plan
<1>7. page \in Querying => KeepsApart(Planned(noted, plan), call)
  BY <1>6, PlannedApart, KeepsTwice
<1> QED
  BY <1>1, <1>2, <1>4, <1>7, ApartNext DEF call

\* The reads.
LEMMA TablesApart ==
  ASSUME CallsOK, CallsApart, NEW c \in Calls,
         \/ ReadPublication(c)
         \/ \E a : ReadPeople(c, a) \/ ReadTable(c, a) \/ ReadFails(c, a)
  PROVE  CallsApart'
<1>1. {} \in SUBSET Elsewhere
  OBVIOUS
<1> DEFINE steps(a) ==
             /\ Awaits(c, a)
             /\ \/ \E more \in SUBSET Elsewhere : Becomes(c, Done(Noted(calls[c], a, imported), a, more))
                \/ Becomes(c, Noted(Done(calls[c], a, {}), a, 0))
                \/ \E outcome : Becomes(c, Ends(Noted(calls[c], a, imported), outcome))
                \/ \E outcome : Becomes(c, Ends(calls[c], outcome))
<1>2. \E a : steps(a)
  <2>1. CASE ReadPublication(c)
    BY <1>1, <2>1 DEF ReadPublication
  <2>2. ASSUME NEW a, ReadPeople(c, a)
        PROVE  \E b : steps(b)
    BY <1>1, <2>2 DEF ReadPeople
  <2>3. ASSUME NEW a, ReadTable(c, a)
        PROVE  \E b : steps(b)
    <3> DEFINE noted == Noted(calls[c], a, imported)
               more == Follows(RequestOf(noted), noted.intent, Saw(noted), a)
    <3>1. Awaits(c, a) /\ Becomes(c, Done(noted, a, more))
      BY <2>3 DEF ReadTable
    <3>2. more \in SUBSET Elsewhere
      BY FollowsElsewhere
    <3> HIDE DEF more
    <3> QED
      BY <3>1, <3>2
  <2>4. ASSUME NEW a, ReadFails(c, a)
        PROVE  \E b : steps(b)
    BY <2>4 DEF ReadFails
  <2> QED
    BY <2>1, <2>2, <2>3, <2>4
<1>3. PICK a : steps(a)
  BY <1>2
<1>4. \E x : KeepsApart(x, calls[c]) /\ Becomes(c, x)
  <2>1. \A more \in SUBSET Elsewhere : KeepsApart(Done(Noted(calls[c], a, imported), a, more), calls[c])
    BY <1>3, ReadsApart
  <2>2. KeepsApart(Noted(Done(calls[c], a, {}), a, 0), calls[c])
    BY <1>1, <1>3, ReadsApart
  <2>3. \A outcome : KeepsApart(Ends(Noted(calls[c], a, imported), outcome), calls[c])
    BY <1>1, <1>3, ReadsApart
  <2>4. DOMAIN calls[c] = CallFields
    BY <1>3, InFlight
  <2>5. \A outcome : KeepsApart(Ends(calls[c], outcome), calls[c])
    BY <2>4, Keeps
  <2> QED
    BY <1>3, <2>1, <2>2, <2>3, <2>5
<1> QED
  BY <1>3, <1>4, ApartNext

\* The reply.
LEMMA ReplyApart ==
  ASSUME CallsOK, CallsApart, NEW c \in Calls, Reply(c)
  PROVE  CallsApart'
<1> DEFINE call == calls[c]
           answer == AnswerTo(RequestOf(call), call.intent, Shown(call), Saw(call))
           done == Done(call, "reply", {})
<1>1. Awaits(c, "reply")
  BY DEF Reply
<1>2. Becomes(c, Ends(call, "unavailable")) \/ Becomes(c, [done EXCEPT !.answer = answer])
  BY DEF Reply, Replied
<1> HIDE DEF answer
<1>3. DOMAIN call = CallFields /\ call.stages # <<>> /\ {} \in SUBSET Elsewhere
  BY <1>1, InFlight
<1> HIDE DEF call
<1>4. KeepsApart(done, call) /\ KeepsApart(Ends(call, "unavailable"), call)
  BY <1>3, Keeps
<1> HIDE DEF done
<1>5. KeepsApart([done EXCEPT !.answer = answer], done)
  BY <1>4, Keeps DEF KeepsApart
<1>6. KeepsApart([done EXCEPT !.answer = answer], call)
  BY <1>4, <1>5, KeepsTwice
<1> QED
  BY <1>1, <1>2, <1>4, <1>6, ApartNext DEF call

\* Who asks the cache or stores in it is a query.
LEMMA QueriesOnly ==
  ASSUME CallsOK, CallsApart, NEW c \in Calls, NEW a \in {"lookup", "store"}, Awaits(c, a)
  PROVE  RequestOf(calls[c]).page \in Querying
<1> DEFINE call == calls[c]
<1>1. Apart(call) /\ call.outcome = "pending" /\ call.stages # <<>> /\ a \in Head(call.stages)
  BY DEF CallsApart, Awaits
<1> HIDE DEF call
<1>2. call # Idle
  BY <1>1 DEF Idle
<1>3. ASSUME call.stages \in Seq(SUBSET Elsewhere)
      PROVE  FALSE
  <2>1. Head(call.stages) \in SUBSET Elsewhere
    BY <1>1, <1>3
  <2>2. a \in Elsewhere
    BY <1>1, <2>1
  <2> QED
    BY <2>2 DEF Elsewhere
<1> QED
  BY <1>1, <1>2, <1>3 DEF Apart, call

\* A query asks the cache.
LEMMA LookUpApart ==
  ASSUME CallsOK, CallsApart, NEW c \in Calls, LookUp(c)
  PROVE  CallsApart'
<1> DEFINE call == calls[c]
           account == RequestOf(call).account
           stages == <<{"recheck"}>> \o Saving(account)
           plan == PlanOnMiss(call.intent, account)
           hit == [call EXCEPT !.answer = cache.rows, !.stages = stages]
<1>1. Awaits(c, "lookup")
  BY DEF LookUp
<1>2. Becomes(c, hit) \/ Becomes(c, Planned(call, plan))
  BY DEF LookUp
<1>3. RequestOf(call).page \in Querying /\ DOMAIN call = CallFields
  BY <1>1, QueriesOnly, InFlight
<1> HIDE DEF call, plan, stages
<1>4. KeepsApart(hit, call)
  <2>1. DOMAIN hit = CallFields /\ hit.req = call.req
    BY <1>3 DEF CallFields
  <2> QED
    BY <1>3, <2>1 DEF KeepsApart
<1>5. KeepsApart(Planned(call, plan), call)
  BY <1>3, PlannedApart
<1> QED
  BY <1>1, <1>2, <1>4, <1>5, ApartNext DEF call

\* A request arrives, or its visitor leaves.
LEMMA ComesAndGoesApart ==
  ASSUME CallsOK, CallsApart, NEW c \in Calls,
         Respond(c) \/ \E i \in DOMAIN Requests : Accept(c, i)
  PROVE  CallsApart'
<1>1. ASSUME NEW x, Apart(x), calls' = [calls EXCEPT ![c] = x]
      PROVE  CallsApart'
  <2>1. \A e \in Calls : Apart(calls'[e])
    BY <1>1 DEF CallsOK, CallsApart
  <2> QED
    BY <2>1 DEF CallsApart
<1>2. CASE Respond(c)
  <2>1. calls' = [calls EXCEPT ![c] = Idle] /\ Apart(Idle)
    BY <1>2 DEF Respond, Apart
  <2> QED
    BY <1>1, <2>1
<1>3. ASSUME NEW i \in DOMAIN Requests, Accept(c, i)
      PROVE  CallsApart'
  <2> DEFINE x == Arrived(i, Enter(Requests[i]))
  <2>1. calls' = [calls EXCEPT ![c] = x]
    BY <1>3 DEF Accept
  <2>2. x.req = i /\ x.stages = Enter(Requests[i]).stages
    BY DEF Arrived
  <2> HIDE DEF x
  <2>3. RequestOf(x) = Requests[i]
    BY <2>2 DEF RequestOf
  <2>4. Apart(x)
    BY <2>2, <2>3, EntersApart DEF Apart
  <2> QED
    BY <1>1, <2>1, <2>4
<1> QED
  BY <1>2, <1>3

\* Every step keeps apart.
LEMMA StepsApart ==
  ASSUME CallsOK, CallsApart, Next \/ UNCHANGED vars
  PROVE  CallsApart'
<1>1. CASE ClearHistory \/ Recycle \/ Import \/ Midnight \/ UNCHANGED vars
  <2>1. calls' = calls
    BY <1>1 DEF ClearHistory, Recycle, Import, Midnight, vars
  <2> QED
    BY <2>1 DEF CallsApart
<1>2. ASSUME NEW c \in Calls,
             FastCount(c) \/ Charge(c) \/ ChargeFails(c) \/ Check(c) \/ Save(c) \/ Store(c) \/ Recheck(c)
      PROVE  CallsApart'
  BY <1>2, PlainStepsApart
<1>3. ASSUME NEW c \in Calls,
             ReadPublication(c) \/ \E a : ReadPeople(c, a) \/ ReadTable(c, a) \/ ReadFails(c, a)
      PROVE  CallsApart'
  BY <1>3, TablesApart
<1>4. ASSUME NEW c \in Calls, Respond(c) \/ \E i \in DOMAIN Requests : Accept(c, i)
      PROVE  CallsApart'
  BY <1>4, ComesAndGoesApart
<1> QED
  BY <1>1, <1>2, <1>3, <1>4, ReadNamesApart, ProposeIntentApart, FastCheckApart, NameSnapshotApart,
     ReplyApart, LookUpApart DEF Next

----------------------------------------------------------------------------
(***************************************************************************)
(* What is stored.                                                         *)
(***************************************************************************)

\* What a query stores was read under the snapshot that it names.
LEMMA Stored ==
  ASSUME IInv, CallsHonest, CallsApart, NEW c \in Calls, Awaits(c, "store")
  PROVE  LET call == calls[c]
         IN  /\ call.req \in DOMAIN Requests /\ Requests[call.req].page \in Querying
             /\ call.intent = Intended(Requests[call.req]) /\ ValidateExecutionSupport(call.intent)
             /\ NamedSnapshot(call) \in Snapshots
             /\ call.answer = QueryAnswer(call.intent, AllOf(NamedSnapshot(call)))
<1> DEFINE call == calls[c]
           r == RequestOf(call)
<1>1. Awaiting(call, "store") /\ CallHonest(call, imported) /\ CallsOK
  BY AwaitsSomething
<1>2. call.req \in DOMAIN Requests /\ r = Requests[call.req] /\ call.outcome = "pending"
  BY <1>1, AwaitsRunning DEF Running, RequestOf
<1>3. r.page \in Querying
  BY <1>1, QueriesOnly
<1>4. imported \in Snapshots
  BY Imported
<1> HIDE DEF call
<1>5. Follow(call)
  BY <1>2, <1>3 DEF Follow, Querying
<1>6. QueryOK(call, imported)
  BY <1>1, <1>3, <1>5 DEF CallHonest
<1>7. /\ Head(call.stages) = {"store"} /\ IntentOK(call) /\ "name" \in DOMAIN call.at
      /\ ReadsOK(call, imported) /\ ValidateExecutionSupport(call.intent) /\ ComputingOK(call, imported)
  <2>1. "store" \notin {"names", "model", "name", "save", "lookup", "recheck"}
    OBVIOUS
  <2> QED
    BY <1>1, <1>3, <1>6, <2>1, QueryAwait DEF Awaiting
<1>8. NamedSnapshot(call) \in Snapshots
  <2>1. NameOf(call) = "name"
    BY <1>3, NamesOf DEF NameOf, Querying
  <2> QED
    BY <1>4, <1>7, <2>1, NamedImported
<1>9. "reply" \notin Left(call.stages) /\ "recheck" \notin Left(call.stages)
  <2>1. r.page \in Again /\ r.page # "trends"
    BY <1>3 DEF Again, Querying
  <2>2. PICK a \in Awaited(r.page) :
          /\ Head(call.stages) = {a} /\ Left(call.stages) = {a} \cup Left(Tail(call.stages))
          /\ \A b \in Left(Tail(call.stages)) : Precedes(r.page, a, b)
    BY <1>1, <1>7, Popped DEF ComputingOK, Awaiting
  <2>3. a = "store"
    BY <1>7, <2>2
  <2>4. Rank(r.page, "store") = 6 /\ Rank(r.page, "reply") = 4 /\ Rank(r.page, "recheck") = 5
    BY <2>1, Ranks
  <2>5. ~Precedes(r.page, "store", "reply") /\ ~Precedes(r.page, "store", "recheck")
    BY <2>4 DEF Precedes
  <2>6. "reply" # "store" /\ "recheck" # "store"
    OBVIOUS
  <2> QED
    BY <2>2, <2>3, <2>5, <2>6
<1>10. call.answer = QueryAnswer(call.intent, AllOf(NamedSnapshot(call)))
  BY <1>3, <1>7, <1>8, <1>9, QueryHonest
<1>11. call.intent = Intended(Requests[call.req])
  BY <1>2, <1>7 DEF IntentOK
<1> QED
  BY <1>2, <1>3, <1>7, <1>8, <1>10, <1>11 DEF call

\* A query stores its rows.
LEMMA StoreHonest ==
  ASSUME IInv, CacheHonest, CallsHonest, CallsApart, NEW c \in Calls, Store(c)
  PROVE  CallsHonest' /\ CacheHonest'
<1> DEFINE call == calls[c]
<1>1. Awaits(c, "store") /\ imported' = imported /\ Becomes(c, Done(call, "store", {}))
  BY DEF Store, world
<1>2. CallsHonest'
  BY <1>1, BecomesQuiet DEF Quiet
<1>3. CASE UNCHANGED cache
  BY <1>2, <1>3 DEF CacheHonest
<1>4. CASE cache' = [key |-> Key(call), snapshot |-> NamedSnapshot(call), rows |-> call.answer]
  <2> DEFINE i == call.req
             n == NamedSnapshot(call)
             intent == Intended(Requests[i])
  <2>1. /\ i \in DOMAIN Requests /\ Requests[i].page \in Querying
        /\ call.intent = intent /\ ValidateExecutionSupport(intent) /\ n \in Snapshots
        /\ call.answer = QueryAnswer(intent, AllOf(n))
    BY <1>1, Stored
  <2>2. Key(call) = ArtifactKey(intent, n, "code")
    BY <2>1 DEF Key
  <2>3. /\ cache'.key = ArtifactKey(intent, n, "code") /\ cache'.snapshot = n
        /\ cache'.rows = QueryAnswer(intent, AllOf(n))
    BY <1>4, <2>1, <2>2
  <2> HIDE DEF call
  <2>4. \E j \in DOMAIN Requests, m \in Snapshots :
          /\ Requests[j].page \in Querying /\ ValidateExecutionSupport(Intended(Requests[j]))
          /\ cache'.key = ArtifactKey(Intended(Requests[j]), m, "code") /\ cache'.snapshot = m
          /\ cache'.rows = QueryAnswer(Intended(Requests[j]), AllOf(m))
    BY <2>1, <2>3
  <2> QED
    BY <1>2, <2>4 DEF CacheHonest
<1>5. UNCHANGED cache \/ cache' = [key |-> Key(call), snapshot |-> NamedSnapshot(call), rows |-> call.answer]
  BY DEF Store
<1> QED
  BY <1>2, <1>3, <1>4, <1>5

----------------------------------------------------------------------------
(***************************************************************************)
(* A request arrives, an answer is taken away, a seed is imported.         *)
(***************************************************************************)

\* The form in which the requests that promise something arrive.
LEMMA Arrives ==
  ASSUME NEW i, NEW imp \in Nat
  PROVE  CallHonest(Arrived(i, Enter(Requests[i])), imp)
<1> DEFINE r == Requests[i]
           x == Arrived(i, Enter(r))
<1>1. /\ x.req = i /\ x.outcome = Enter(r).outcome /\ x.stages = Enter(r).stages /\ x.at = <<>>
      /\ x.intent = IF r.page = "query" THEN WithDefaults(r.ask) ELSE Nothing
  BY DEF Arrived
<1>2. RequestOf(x) = r
  BY <1>1 DEF RequestOf
<1>3. Enter(r).outcome # "answered"
  BY EntriesOrdered DEF EntryOK
<1> HIDE DEF x
<1>4. DOMAIN x.at = {}
  BY <1>1
<1>5. ReadsOK(x, imp)
  BY <1>4 DEF ReadsOK
<1> SUFFICES ASSUME Follow(x)
             PROVE  CallHonest(x, imp)
  BY DEF CallHonest, x
<1>6. Enter(r).outcome = "pending" /\ x.outcome = "pending"
  BY <1>1, <1>3 DEF Follow
<1>7. ASSUME r.page \in Reading
      PROVE  ComputingOK(x, imp)
  <2>1. Whole(r, Enter(r).stages)
    BY <1>2, <1>6, <1>7, ReadingWhole
  <2>2. NameOf(x) \in Left(x.stages)
    BY <1>1, <1>2, <2>1 DEF Whole, NameOf
  <2>3. Gathering(x)
    <3>1. r.page \notin Querying
      BY <1>7 DEF Reading, Querying
    <3> QED
      BY <1>1, <1>2, <2>1, <3>1 DEF Whole, Gathering
  <2>4. RepliedOK(x) /\ RecheckedOK(x)
    BY <1>1, <1>2, <2>1 DEF Whole, RepliedOK, RecheckedOK
  <2>5. Phased(RequestOf(x).page, x.stages)
    BY <1>1, <1>2, <2>1 DEF Whole
  <2> QED
    BY <1>4, <1>5, <2>2, <2>3, <2>4, <2>5 DEF ComputingOK
<1>8. ASSUME r.page \in Querying
      PROVE  QueryOK(x, imp)
  <2>1. CASE r.page = "ask"
    <3> DEFINE stages == <<{"names"}, {"model"}>>
    <3>1. Enter(r) = Refusal \/ Enter(r) = Reads(stages)
      BY <2>1 DEF Enter, QuestionPage
    <3> HIDE DEF stages
    <3>2. x.stages = stages
      BY <1>1, <1>6, <3>1 DEF Refusal, Reads
    <3> QED
      BY <1>1, <1>2, <2>1, <3>2 DEF QueryOK, stages
  <2>2. CASE r.page = "query"
    <3> DEFINE stages == <<{"name"}>>
    <3>1. Enter(r) = Refusal \/ Enter(r) = Reads(stages)
      BY <2>2 DEF Enter, QueryPage
    <3> HIDE DEF stages
    <3>2. x.stages = stages
      BY <1>1, <1>6, <3>1 DEF Refusal, Reads
    <3>3. IntentOK(x)
      BY <1>1, <1>2, <2>2 DEF IntentOK, Intended
    <3> QED
      BY <1>1, <3>2, <3>3 DEF QueryOK, stages
  <2> QED
    BY <1>8, <2>1, <2>2 DEF Querying
<1>9. ASSUME r.page \in Watching
      PROVE  WatchingOK(x, imp)
  <2> DEFINE first == CASE r.page = "cl" -> {"publication", "batch"} [] r.page = "health" -> {"name", "publication"}
                        [] OTHER -> {"name", "publication", "squad"}
             stages == <<first, {"reply"}>>
  <2>1. Enter(r) = Reads(stages)
    BY <1>9 DEF Enter, Watching, ChampionsLeaguePage, HealthPage, HomePage
  <2>2. first \in SUBSET Watched(r.page) /\ {NamedBy(r.page), "publication"} \subseteq first
    BY <1>9, NamesOf DEF Watching, Watched
  <2> HIDE DEF first
  <2>3. x.stages = stages
    BY <1>1, <2>1 DEF Reads
  <2>4. first \subseteq Left(x.stages)
    BY <2>3, Heads
  <2>5. {NameOf(x), "publication"} \subseteq Left(x.stages)
    BY <1>2, <2>2, <2>4 DEF NameOf
  <2>6. first # {}
    BY <2>2
  <2>7. \E s \in SUBSET Watched(r.page) : s # {} /\ x.stages = <<s, {"reply"}>>
    BY <2>2, <2>3, <2>6
  <2> QED
    BY <1>2, <1>4, <2>5, <2>7 DEF WatchingOK
<1> QED
  BY <1>2, <1>6, <1>7, <1>8, <1>9 DEF CallHonest

\* A request arrives, or its visitor leaves.
LEMMA ComesAndGoesHonest ==
  ASSUME IInv, CallsHonest, NEW c \in Calls,
         Respond(c) \/ \E i \in DOMAIN Requests : Accept(c, i)
  PROVE  CallsHonest'
<1>1. imported' = imported /\ imported \in Nat /\ CallsOK
  BY Imported DEF Respond, Accept, world, IInv
<1>2. ASSUME NEW x, CallHonest(x, imported), calls' = [calls EXCEPT ![c] = x]
      PROVE  CallsHonest'
  <2>1. \A e \in Calls : CallHonest(calls'[e], imported)
    BY <1>1, <1>2 DEF CallsOK, CallsHonest
  <2> QED
    BY <1>1, <2>1 DEF CallsHonest
<1>3. CASE Respond(c)
  <2>1. calls' = [calls EXCEPT ![c] = Idle]
    BY <1>3 DEF Respond
  <2>2. CallHonest(Idle, imported)
    BY DEF CallHonest, Follow, Idle
  <2> QED
    BY <1>2, <2>1, <2>2
<1>4. ASSUME NEW i \in DOMAIN Requests, Accept(c, i)
      PROVE  CallsHonest'
  <2>1. calls' = [calls EXCEPT ![c] = Arrived(i, Enter(Requests[i]))]
    BY <1>4 DEF Accept
  <2>2. CallHonest(Arrived(i, Enter(Requests[i])), imported)
    BY <1>1, Arrives
  <2> QED
    BY <1>2, <2>1, <2>2
<1> QED
  BY <1>3, <1>4

\* What was read of earlier snapshots was read all the same.
LEMMA LaterHonest ==
  ASSUME NEW call, NEW imp \in Nat, NEW later \in Nat, imp <= later, CallHonest(call, imp)
  PROVE  CallHonest(call, later)
<1>1. ComputingOK(call, imp) => ComputingOK(call, later)
  BY LaterComputing
<1>2. ReadsOK(call, imp) => ReadsOK(call, later)
  BY LaterReads
<1>3. QueryOK(call, imp) => QueryOK(call, later)
  BY <1>1, <1>2 DEF QueryOK
<1>4. 0..imp \subseteq 0..later
  OBVIOUS
<1>5. WatchingOK(call, imp) => WatchingOK(call, later)
  BY <1>4 DEF WatchingOK
<1> QED
  BY <1>1, <1>3, <1>5 DEF CallHonest

\* The surroundings.
LEMMA SurroundingsHonest ==
  ASSUME IInv, CallsHonest, ClearHistory \/ Recycle \/ Import \/ Midnight \/ UNCHANGED vars
  PROVE  CallsHonest'
<1>1. calls' = calls /\ (imported' = imported \/ (imported' = imported + 1 /\ imported + 1 \in Snapshots))
  BY DEF ClearHistory, Recycle, Import, Midnight, vars, world
<1>2. imported \in Nat /\ imported' \in Nat /\ imported <= imported'
  BY <1>1, Imported
<1>3. \A c \in Calls : CallHonest(calls[c], imported')
  BY <1>2, LaterHonest DEF CallsHonest
<1> QED
  BY <1>1, <1>3 DEF CallsHonest

----------------------------------------------------------------------------
(***************************************************************************)
(* Every step.                                                             *)
(***************************************************************************)

\* No other step stores.
LEMMA StepsStore ==
  ASSUME IInv, CacheHonest, CallsHonest, CallsApart, [Next]_vars
  PROVE  CacheHonest'
<1>1. cache' = cache \/ \E c \in Calls : Store(c)
  BY DEF Next, vars, stored, Accept, ReadNames, ProposeIntent, FastCheck, FastCount, Charge, ChargeFails,
         NameSnapshot, ReadPublication, Check, Reply, ReadPeople, ReadTable, ReadFails, LookUp, Recheck,
         Save, Respond, ClearHistory, Recycle, Import, Midnight
<1>2. CASE cache' = cache
  BY <1>2 DEF CacheHonest
<1> QED
  BY <1>1, <1>2, StoreHonest

\* Every step keeps the requests honest.
LEMMA StepsHonest ==
  ASSUME IInv, CacheHonest, CallsHonest, CallsApart, [Next]_vars
  PROVE  CallsHonest'
<1>1. CASE ClearHistory \/ Recycle \/ Import \/ Midnight \/ UNCHANGED vars
  BY <1>1, SurroundingsHonest
<1>2. ASSUME NEW c \in Calls,
             FastCount(c) \/ Charge(c) \/ ChargeFails(c) \/ Check(c) \/ Save(c)
      PROVE  CallsHonest'
  BY <1>2, QuietSteps
<1>3. ASSUME NEW c \in Calls, Respond(c) \/ \E i \in DOMAIN Requests : Accept(c, i)
      PROVE  CallsHonest'
  BY <1>3, ComesAndGoesHonest
<1>4. ASSUME NEW c \in Calls, NEW a \in TableReads \ {"publication", "people", "web_names"}, ReadTable(c, a)
      PROVE  CallsHonest'
  BY <1>4, ReadTableHonest
<1>5. ASSUME NEW c \in Calls, NEW a \in TableReads \cup {"name", "check", "recheck"}, ReadFails(c, a)
      PROVE  CallsHonest'
  BY <1>5, ReadFailsHonest
<1>6. ASSUME NEW c \in Calls, NEW a \in {"people", "web_names"}, ReadPeople(c, a)
      PROVE  CallsHonest'
  BY <1>6, ReadPeopleHonest
<1>7. ASSUME NEW c \in Calls, NEW output, ProposeIntent(c, output)
      PROVE  CallsHonest'
  BY <1>7, ProposeIntentHonest
<1>8. ASSUME NEW c \in Calls, ReadNames(c) \/ FastCheck(c) \/ NameSnapshot(c) \/ ReadPublication(c)
      PROVE  CallsHonest'
  BY <1>8, ReadNamesHonest, FastCheckHonest, NameSnapshotHonest, ReadPublicationHonest
<1>9. ASSUME NEW c \in Calls, Reply(c) \/ LookUp(c) \/ Recheck(c) \/ Store(c)
      PROVE  CallsHonest'
  BY <1>9, ReplyHonest, LookUpHonest, RecheckHonest, StoreHonest
<1> QED
  BY <1>1, <1>2, <1>3, <1>4, <1>5, <1>6, <1>7, <1>8, <1>9 DEF Next

\* Every request is where its page puts it: what it read so far is of the snapshot it named
\* or of later ones; once it has looked again, what it read up to there is of that one, which
\* leaves out the names and the choices a page of trends reads afterwards; its answer is made
\* of those reads; and the cache has no other rows than those its key and its snapshot name
\* (index.ts, executeWithCache).  This is the inductive invariant of the answers.
THEOREM HonestInvariant == Spec => []HInv
<1>1. Init => HInv
  <2> SUFFICES ASSUME Init
               PROVE  HInv
    OBVIOUS
  <2>1. IInv
    BY Initially
  <2>2. \A c \in Calls : calls[c] = Idle
    BY DEF Init
  <2>3. CallHonest(Idle, imported) /\ Apart(Idle)
    BY DEF CallHonest, Follow, Apart, Idle
  <2>4. CallsHonest /\ CallsApart
    BY <2>2, <2>3 DEF CallsHonest, CallsApart
  <2>5. CacheHonest
    BY DEF Init, CacheHonest
  <2> QED
    BY <2>1, <2>4, <2>5 DEF HInv
<1>2. HInv /\ [Next]_vars => HInv'
  <2> SUFFICES ASSUME HInv, [Next]_vars
               PROVE  HInv'
    OBVIOUS
  <2>1. IInv /\ CacheHonest /\ CallsHonest /\ CallsApart /\ CallsOK
    BY DEF HInv, IInv
  <2>2. IInv'
    BY <2>1, Stepwise
  <2>3. CacheHonest'
    BY <2>1, StepsStore
  <2>4. CallsHonest'
    BY <2>1, StepsHonest
  <2>5. CallsApart'
    BY <2>1, StepsApart
  <2> QED
    BY <2>2, <2>3, <2>4, <2>5 DEF HInv
<1> QED
  BY <1>1, <1>2, PTL DEF Spec

\* A page that asks again for the snapshot it names shows what that snapshot says, whatever is
\* imported between its reads and whatever the cache holds.  A page of trends shows its figures,
\* with names of that snapshot or of a later one, and a form of its players or of none.  A
\* question is answered for the intent the rules read, when they were sure of it; data is
\* called current only under its own publication (executeWithCache and the pages of index.ts).
THEOREM AnswersHonest == Spec => []AnsweredAsAsked
<1>1. HInv => AnsweredAsAsked
  BY AnswersFollow DEF HInv
<1> QED
  BY <1>1, HonestInvariant, PTL
=============================================================================
