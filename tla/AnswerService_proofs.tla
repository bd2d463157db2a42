---------------------------- MODULE AnswerService_proofs ----------------------------
(***************************************************************************)
(* The pages and the breaker for every number of requests, every limit and *)
(* every catalog: the budget of a day is held, and what the types say.     *)
(*                                                                         *)
(* Two counters meet in the budget.  D1 counts and compares in one         *)
(* statement, so what it let through never exceeds its counter or its      *)
(* limit.  KV is read in one await and written in another: a request that  *)
(* is between the two carries a count that was true of some earlier        *)
(* moment, and Ordered says that it can only come to the write through the *)
(* read.                                                                   *)
(***************************************************************************)
EXTENDS AnswerService, TLAPS

----------------------------------------------------------------------------
(***************************************************************************)
(* The inductive invariant.                                                *)
(***************************************************************************)

\* The awaits that are not those of the KV counter.
PlainAwaits ==
  TableReads \cup {"names", "model", "charge", "name", "check", "recheck", "reply", "lookup", "store", "save"}
Stages == SUBSET (PlainAwaits \cup {"kv", "kv_put"})

\* The KV counter is read in a stage of its own, and written in the stage after it.
Ordered(stages) ==
  /\ stages \in Seq(Stages)
  /\ \A i \in 1..Len(stages) :
       \/ stages[i] \subseteq PlainAwaits
       \/ stages[i] = {"kv"} /\ i < Len(stages) /\ stages[i + 1] = {"kv_put"}
       \/ stages[i] = {"kv_put"} /\ (i = 1 \/ stages[i - 1] = {"kv"})

CallFields == {"req", "outcome", "stages", "answer", "intent", "known", "at", "day", "kv"}
Ended == {"refused", "static", "clarification", "over_limit", "unavailable", "answered"}

\* A request in flight: the count it is about to write is at most what came that day.
Running(call, arrivals) ==
  /\ DOMAIN call = CallFields /\ call.outcome \in Ended \cup {"pending"}
  /\ call.req \in DOMAIN Requests /\ call.day \in Days /\ call.kv \in Nat /\ Ordered(call.stages)
  /\ (call.stages # <<>> /\ Head(call.stages) = {"kv_put"}) => call.kv + 1 <= arrivals[call.day]

CallOK(call, arrivals) == call = Idle \/ Running(call, arrivals)

\* The counters of each day: D1 let through no more than it counted, and KV knows of no
\* request that did not come.
CountersOK ==
  /\ kv \in [Days -> SUBSET Nat] /\ budget \in [Days -> Nat]
  /\ tries \in [Days -> Nat] /\ admitted \in [Days -> Nat]
  /\ \A d \in Days :
       /\ admitted[d] <= budget[d] /\ admitted[d] <= HardLimit
       /\ \A n \in kv[d] : n <= tries[d]

\* What is kept, and how much of it.
KeptOK ==
  /\ day \in Days /\ imported \in Snapshots /\ asked \in Seq(DOMAIN Requests)
  /\ DOMAIN cache = {"key", "snapshot", "rows"}
  /\ history \in Seq({history[i] : i \in DOMAIN history}) /\ Len(history) <= HistoryLimit

CallsOK == DOMAIN calls = Calls /\ \A c \in Calls : CallOK(calls[c], tries)

IInv == KeptOK /\ CountersOK /\ CallsOK

----------------------------------------------------------------------------
(***************************************************************************)
(* The stages of a page.                                                   *)
(***************************************************************************)

\* The constants that the counters are compared with are numbers.
LEMMA Limits ==
  /\ FastLimit \in Nat \ {0} /\ HardLimit \in Nat \ {0} /\ HistoryLimit \in Nat \ {0}
  /\ MaxDay \in Nat /\ Days \subseteq Nat /\ 0 \in Days
  BY AnswerBounds DEF Days

\* Stages without the KV counter are ordered.
LEMMA PlainOrdered ==
  ASSUME NEW s \in Seq(SUBSET PlainAwaits)
  PROVE  Ordered(s)
<1>1. s \in Seq(Stages)
  BY DEF Stages
<1>2. \A i \in 1..Len(s) : s[i] \subseteq PlainAwaits
  OBVIOUS
<1> QED
  BY <1>1, <1>2 DEF Ordered

\* They may follow any stages that are ordered.
LEMMA Extended ==
  ASSUME NEW s, Ordered(s), NEW t \in Seq(SUBSET PlainAwaits)
  PROVE  Ordered(s \o t)
<1>1. /\ s \in Seq(Stages) /\ t \in Seq(Stages) /\ Len(s) \in Nat /\ Len(t) \in Nat
      /\ \A i \in 1..Len(t) : t[i] \subseteq PlainAwaits
  BY DEF Ordered, Stages
<1>2. /\ s \o t \in Seq(Stages) /\ Len(s \o t) = Len(s) + Len(t)
      /\ \A i \in 1..Len(s) : (s \o t)[i] = s[i]
      /\ \A i \in 1..Len(s) + Len(t) : i > Len(s) => (s \o t)[i] = t[i - Len(s)]
  BY <1>1
<1>3. ASSUME NEW i \in 1..Len(s \o t)
      PROVE  \/ (s \o t)[i] \subseteq PlainAwaits
             \/ (s \o t)[i] = {"kv"} /\ i < Len(s \o t) /\ (s \o t)[i + 1] = {"kv_put"}
             \/ (s \o t)[i] = {"kv_put"} /\ (i = 1 \/ (s \o t)[i - 1] = {"kv"})
  <2>1. CASE i \in 1..Len(s)
    <3>1. (s \o t)[i] = s[i]
      BY <1>2, <2>1
    <3>2. CASE s[i] \subseteq PlainAwaits
      BY <3>1, <3>2
    <3>3. CASE s[i] = {"kv"} /\ i < Len(s) /\ s[i + 1] = {"kv_put"}
      BY <1>1, <1>2, <2>1, <3>1, <3>3
    <3>4. CASE s[i] = {"kv_put"} /\ (i = 1 \/ s[i - 1] = {"kv"})
      BY <1>1, <1>2, <2>1, <3>1, <3>4
    <3> QED
      BY <2>1, <3>2, <3>3, <3>4 DEF Ordered
  <2>2. CASE i > Len(s)
    <3>1. i - Len(s) \in 1..Len(t)
      BY <1>1, <1>2, <2>2
    <3> QED
      BY <1>1, <1>2, <2>2, <3>1
  <2> QED
    BY <1>1, <1>2, <2>1, <2>2
<1> QED
  BY <1>2, <1>3 DEF Ordered

\* The breaker comes first where a page has one.
LEMMA BreakerOrdered == Ordered(Breaker)
<1>1. {"kv"} \in Stages /\ {"kv_put"} \in Stages /\ {"charge"} \in Stages
  BY DEF Stages, PlainAwaits
<1>2. Breaker = <<{"kv"}, {"kv_put"}, {"charge"}>>
  BY DEF Breaker
<1>3. Breaker \in Seq(Stages) /\ Len(Breaker) = 3
  BY <1>1, <1>2
<1>4. Breaker[1] = {"kv"} /\ Breaker[2] = {"kv_put"} /\ Breaker[3] = {"charge"}
  BY <1>2
<1>5. {"charge"} \subseteq PlainAwaits
  BY DEF PlainAwaits
<1>6. \A i \in 1..3 : i = 1 \/ i = 2 \/ i = 3
  OBVIOUS
<1> QED
  BY <1>3, <1>4, <1>5, <1>6 DEF Ordered

\* The other stages of the pages are plain.
LEMMA PlainStages ==
  /\ <<>> \in Seq(SUBSET PlainAwaits)
  /\ \A account : Saving(account) \in Seq(SUBSET PlainAwaits)
  /\ SplitReads \in Seq(SUBSET PlainAwaits)
  /\ \A a \in PlainAwaits : {a} \in SUBSET PlainAwaits
<1>1. \A a \in PlainAwaits : {a} \in SUBSET PlainAwaits
  OBVIOUS
<1>2. \A account : Saving(account) \in Seq(SUBSET PlainAwaits)
  <2>1. {"save"} \in SUBSET PlainAwaits
    BY DEF PlainAwaits
  <2>2. <<{"save"}>> \in Seq(SUBSET PlainAwaits)
    BY <2>1
  <2>3. ASSUME NEW account
        PROVE  Saving(account) \in Seq(SUBSET PlainAwaits)
    <3>1. CASE account
      BY <2>2, <3>1 DEF Saving
    <3>2. CASE ~account
      BY <3>2 DEF Saving
    <3> QED
      BY <3>1, <3>2
  <2> QED
    BY <2>3
<1>3. SplitReads \in Seq(SUBSET PlainAwaits)
  <2>1. /\ {"check"} \in SUBSET PlainAwaits /\ {"splits"} \in SUBSET PlainAwaits
        /\ {"lineage"} \in SUBSET PlainAwaits /\ {"totals"} \in SUBSET PlainAwaits
        /\ {"sums"} \in SUBSET PlainAwaits
    BY DEF PlainAwaits, TableReads
  <2> QED
    BY <2>1 DEF SplitReads
<1> QED
  BY <1>1, <1>2, <1>3

\* The stages of a page that pays begin with the reading of KV.
BreakerFirst(stages) == Ordered(stages) /\ stages # <<>> /\ Head(stages) = {"kv"}

\* They do so whatever follows.
LEMMA BreakerStays ==
  ASSUME NEW s, BreakerFirst(s), NEW t \in Seq(SUBSET PlainAwaits)
  PROVE  BreakerFirst(s \o t)
<1>1. s \in Seq(Stages) /\ s # <<>> /\ t \in Seq(Stages) /\ s[1] = {"kv"}
  BY DEF BreakerFirst, Ordered, Stages
<1>2. Len(s) \in Nat /\ Len(s) > 0 /\ Len(t) \in Nat
  BY <1>1
<1>3. /\ s \o t \in Seq(Stages) /\ Len(s \o t) = Len(s) + Len(t)
      /\ (s \o t)[1] = s[1]
  BY <1>1, <1>2
<1>4. s \o t # <<>> /\ Head(s \o t) = {"kv"}
  BY <1>1, <1>2, <1>3
<1> QED
  BY <1>4, Extended DEF BreakerFirst

\* The breaker itself does.
LEMMA BreakerBegins == BreakerFirst(Breaker)
<1>1. Breaker # <<>> /\ Head(Breaker) = {"kv"}
  BY DEF Breaker
<1> QED
  BY <1>1, BreakerOrdered DEF BreakerFirst

\* What a request may be answered with at once, or the stages it is given.
InOrder(entry) ==
  Ordered(entry.stages) /\ (entry.stages # <<>> => Head(entry.stages) # {"kv_put"})
EntryOK(entry) == entry.outcome \in {"refused", "static", "pending"} /\ InOrder(entry)

\* A query may also be answered with no rows.
PlanOK(plan) == EntryOK(plan) \/ (plan.outcome = "no_rows" /\ InOrder(plan))

\* Plain stages, and those that begin with the breaker, may be given.
LEMMA EntryOfStages ==
  ASSUME NEW s, s \in Seq(SUBSET PlainAwaits) \/ BreakerFirst(s)
  PROVE  EntryOK(Reads(s)) /\ PlanOK(Empty(s))
<1>1. Ordered(s)
  BY PlainOrdered DEF BreakerFirst
<1>2. s # <<>> => Head(s) # {"kv_put"}
  <2>1. CASE s \in Seq(SUBSET PlainAwaits) /\ s # <<>>
    <3>1. Head(s) \in SUBSET PlainAwaits
      BY <2>1
    <3>2. "kv_put" \notin PlainAwaits
      BY DEF PlainAwaits, TableReads
    <3> QED
      BY <3>1, <3>2
  <2>2. CASE BreakerFirst(s)
    <3>1. "kv" # "kv_put"
      OBVIOUS
    <3> QED
      BY <2>2, <3>1 DEF BreakerFirst
  <2> QED
    BY <2>1, <2>2
<1> QED
  BY <1>1, <1>2 DEF EntryOK, PlanOK, InOrder, Reads, Empty

\* So may the answers without stages.
LEMMA EntryOfNone == EntryOK(Refusal) /\ EntryOK(Static) /\ PlanOK(Empty(<<>>))
<1>1. Ordered(<<>>)
  BY PlainOrdered, PlainStages
<1> QED
  BY <1>1 DEF EntryOK, PlanOK, InOrder, Refusal, Static, Empty

\* The plan of a query, before and after the cache was asked.
LEMMA PlansOrdered ==
  ASSUME NEW intent, NEW account
  PROVE  PlanOK(PlanQuery(intent, account)) /\ PlanOK(PlanOnMiss(intent, account))
<1>1. Saving(account) \in Seq(SUBSET PlainAwaits)
  BY PlainStages
<1>2. <<{"lookup"}>> \in Seq(SUBSET PlainAwaits)
  <2>1. {"lookup"} \in SUBSET PlainAwaits
    BY DEF PlainAwaits
  <2> QED
    BY <2>1
<1>3. BreakerFirst(Compute(intent, account))
  <2> DEFINE read == IF Named(intent) THEN "identity" ELSE "result"
             computing == <<{read}, {"reply"}, {"recheck"}, {"store"}>>
  <2>1. read \in PlainAwaits
    BY DEF PlainAwaits, TableReads
  <2>2. /\ {read} \in SUBSET PlainAwaits /\ {"reply"} \in SUBSET PlainAwaits
        /\ {"recheck"} \in SUBSET PlainAwaits /\ {"store"} \in SUBSET PlainAwaits
    BY <2>1 DEF PlainAwaits
  <2> HIDE DEF read
  <2>3. computing \in Seq(SUBSET PlainAwaits)
    BY <2>2
  <2> HIDE DEF computing
  <2>4. BreakerFirst((Breaker \o computing) \o Saving(account))
    BY <1>1, <2>3, BreakerBegins, BreakerStays
  <2> QED
    BY <2>4 DEF Compute, computing, read
<1>4. PlanOK(PlanQuery(intent, account))
  BY <1>1, <1>2, EntryOfStages, EntryOfNone DEF PlanQuery, PlanOK
<1>5. PlanOK(PlanOnMiss(intent, account))
  BY <1>1, <1>3, EntryOfStages DEF PlanOnMiss, PlanOK
<1> QED
  BY <1>4, <1>5

\* The pages that do not pay.
LEMMA FreePages ==
  ASSUME NEW q
  PROVE  /\ EntryOK(QuestionPage(q)) /\ EntryOK(QueryPage(q)) /\ EntryOK(ComparePage(q))
         /\ EntryOK(SeasonPage(q)) /\ EntryOK(PlayerPage(q)) /\ EntryOK(ChampionsLeaguePage)
         /\ EntryOK(HealthPage) /\ EntryOK(HomePage)
<1>1. /\ {"names"} \in SUBSET PlainAwaits /\ {"model"} \in SUBSET PlainAwaits
      /\ {"name"} \in SUBSET PlainAwaits /\ {"reply"} \in SUBSET PlainAwaits
      /\ {"comparison"} \in SUBSET PlainAwaits /\ {"identity"} \in SUBSET PlainAwaits
      /\ {"squad_rows", "record", "europe", "history"} \in SUBSET PlainAwaits
      /\ {"publication", "batch"} \in SUBSET PlainAwaits /\ {"name", "publication"} \in SUBSET PlainAwaits
      /\ {"name", "publication", "squad"} \in SUBSET PlainAwaits
  BY DEF PlainAwaits, TableReads
<1>2. EntryOK(QuestionPage(q))
  <2>1. <<{"names"}, {"model"}>> \in Seq(SUBSET PlainAwaits)
    BY <1>1
  <2> QED
    BY <2>1, EntryOfStages, EntryOfNone DEF QuestionPage
<1>3. EntryOK(QueryPage(q))
  <2>1. <<{"name"}>> \in Seq(SUBSET PlainAwaits)
    BY <1>1
  <2> QED
    BY <2>1, EntryOfStages, EntryOfNone DEF QueryPage
<1>4. EntryOK(ComparePage(q))
  <2>1. <<{"comparison"}, {"reply"}>> \in Seq(SUBSET PlainAwaits)
    BY <1>1
  <2> QED
    <3>1. ComparePage(q) = Refusal \/ ComparePage(q) = Reads(<<{"comparison"}, {"reply"}>>)
      <4> DEFINE defaults == SelectComparisonDefaults(ComparisonSeasons, q.season, q.metric)
                 season == IF q.season = Nothing THEN defaults.season ELSE q.season
                 metric == IF q.metric = Nothing THEN defaults.metric ELSE q.metric
                 refused == season \notin ComparisonSeasons[metric] \/ q.minimum \notin 0..20000
      <4>1. ComparePage(q) = IF defaults = Nothing THEN Refusal ELSE IF refused THEN Refusal
                             ELSE Reads(<<{"comparison"}, {"reply"}>>)
        BY DEF ComparePage
      <4> HIDE DEF defaults, refused
      <4> QED
        BY <4>1
    <3> QED
      BY <2>1, <3>1, EntryOfStages, EntryOfNone
<1>5. EntryOK(SeasonPage(q))
  <2>1. <<{"squad_rows", "record", "europe", "history"}, {"name"}, {"reply"}>> \in Seq(SUBSET PlainAwaits)
    BY <1>1
  <2> QED
    BY <2>1, EntryOfStages DEF SeasonPage
<1>6. EntryOK(PlayerPage(q))
  <2>1. <<{"identity"}, {"name"}, {"reply"}>> \in Seq(SUBSET PlainAwaits)
    BY <1>1
  <2> QED
    BY <2>1, EntryOfStages DEF PlayerPage
<1>7. EntryOK(ChampionsLeaguePage)
  <2>1. <<{"publication", "batch"}, {"reply"}>> \in Seq(SUBSET PlainAwaits)
    BY <1>1
  <2> QED
    BY <2>1, EntryOfStages DEF ChampionsLeaguePage
<1>8. EntryOK(HealthPage)
  <2>1. <<{"name", "publication"}, {"reply"}>> \in Seq(SUBSET PlainAwaits)
    BY <1>1
  <2> QED
    BY <2>1, EntryOfStages DEF HealthPage
<1>9. EntryOK(HomePage)
  <2>1. <<{"name", "publication", "squad"}, {"reply"}>> \in Seq(SUBSET PlainAwaits)
    BY <1>1
  <2> QED
    BY <2>1, EntryOfStages DEF HomePage
<1> QED
  BY <1>2, <1>3, <1>4, <1>5, <1>6, <1>7, <1>8, <1>9

\* The pages that do.
LEMMA PaidPages ==
  ASSUME NEW ask, NEW account
  PROVE  /\ EntryOK(SplitsPage(ask)) /\ EntryOK(OpponentsPage(ask))
         /\ EntryOK(RangePage(ask, account)) /\ EntryOK(TrendsPage(ask))
<1>1. /\ {"publication"} \in SUBSET PlainAwaits /\ {"labels"} \in SUBSET PlainAwaits
      /\ {"reply"} \in SUBSET PlainAwaits /\ {"recheck"} \in SUBSET PlainAwaits
      /\ {"records"} \in SUBSET PlainAwaits /\ {"name"} \in SUBSET PlainAwaits
      /\ {"people"} \in SUBSET PlainAwaits /\ {"web_names"} \in SUBSET PlainAwaits
      /\ {"facts"} \in SUBSET PlainAwaits /\ {"choices"} \in SUBSET PlainAwaits
      /\ {"check"} \in SUBSET PlainAwaits
  BY DEF PlainAwaits, TableReads
<1>2. /\ <<{"publication"}>> \in Seq(SUBSET PlainAwaits)
      /\ <<{"labels"}, {"reply"}, {"recheck"}>> \in Seq(SUBSET PlainAwaits)
      /\ <<{"records"}>> \in Seq(SUBSET PlainAwaits)
      /\ <<{"name"}, {"choices"}, {"reply"}>> \in Seq(SUBSET PlainAwaits)
  BY <1>1
<1>3. <<{"name"}, {"people"}, {"web_names"}, {"facts"}, {"reply"}, {"recheck"}>> \in Seq(SUBSET PlainAwaits)
  BY <1>1
<1>4. <<{"name"}, {"people"}, {"check"}, {"facts"}, {"check"}, {"check"}, {"recheck"},
        {"web_names"}, {"choices"}, {"reply"}>> \in Seq(SUBSET PlainAwaits)
  BY <1>1
<1>5. EntryOK(SplitsPage(ask))
  <2>1. BreakerFirst((Breaker \o <<{"publication"}>>) \o SplitReads)
    BY <1>2, PlainStages, BreakerBegins, BreakerStays
  <2>2. BreakerFirst(((Breaker \o <<{"publication"}>>) \o SplitReads) \o <<{"labels"}, {"reply"}, {"recheck"}>>)
    BY <1>2, <2>1, BreakerStays
  <2> QED
    BY <2>2, EntryOfStages, EntryOfNone DEF SplitsPage
<1>6. EntryOK(OpponentsPage(ask))
  <2> DEFINE reads == IF OpponentsForm(ask) THEN <<>> ELSE SplitReads \o <<{"records"}>>
             stages == ((Breaker \o <<{"publication"}>>) \o reads) \o <<{"labels"}, {"reply"}, {"recheck"}>>
  <2>1. reads \in Seq(SUBSET PlainAwaits)
    <3>1. SplitReads \o <<{"records"}>> \in Seq(SUBSET PlainAwaits)
      BY <1>2, PlainStages
    <3> QED
      BY <3>1, PlainStages
  <2> HIDE DEF reads
  <2>2. BreakerFirst((Breaker \o <<{"publication"}>>) \o reads)
    BY <1>2, <2>1, BreakerBegins, BreakerStays
  <2>3. BreakerFirst(stages)
    BY <1>2, <2>2, BreakerStays
  <2>4. OpponentsPage(ask) = Refusal \/ OpponentsPage(ask) = Static \/ OpponentsPage(ask) = Reads(stages)
    BY DEF OpponentsPage, reads
  <2> HIDE DEF stages
  <2> QED
    BY <2>3, <2>4, EntryOfStages, EntryOfNone
<1>7. EntryOK(RangePage(ask, account))
  <2> DEFINE reads == <<{"name"}, {"people"}, {"web_names"}, {"facts"}, {"reply"}, {"recheck"}>>
             stages == (Breaker \o reads) \o Saving(account)
  <2>1. BreakerFirst(Breaker \o reads)
    BY <1>3, BreakerBegins, BreakerStays
  <2>2. BreakerFirst(stages)
    BY <2>1, PlainStages, BreakerStays
  <2>3. RangePage(ask, account) = Refusal \/ RangePage(ask, account) = Reads(stages)
    BY DEF RangePage
  <2> HIDE DEF stages
  <2> QED
    BY <2>2, <2>3, EntryOfStages, EntryOfNone
<1>8. EntryOK(TrendsPage(ask))
  <2> DEFINE form == Breaker \o <<{"name"}, {"choices"}, {"reply"}>>
             stages == Breaker \o <<{"name"}, {"people"}, {"check"}, {"facts"}, {"check"}, {"check"},
                                    {"recheck"}, {"web_names"}, {"choices"}, {"reply"}>>
  <2>1. BreakerFirst(form) /\ BreakerFirst(stages)
    BY <1>2, <1>4, BreakerBegins, BreakerStays
  <2>2. TrendsPage(ask) = Reads(form) \/ TrendsPage(ask) = Refusal \/ TrendsPage(ask) = Reads(stages)
    BY DEF TrendsPage
  <2> HIDE DEF form, stages
  <2> QED
    BY <2>1, <2>2, EntryOfStages, EntryOfNone
<1> QED
  BY <1>5, <1>6, <1>7, <1>8

\* Whatever is asked, its stages are in order.
LEMMA EntriesOrdered ==
  ASSUME NEW r
  PROVE  EntryOK(Enter(r))
<1> DEFINE ask == r.ask
           account == r.account
<1>1. /\ EntryOK(QuestionPage(ask)) /\ EntryOK(QueryPage(ask)) /\ EntryOK(ComparePage(ask))
      /\ EntryOK(SeasonPage(ask)) /\ EntryOK(PlayerPage(ask)) /\ EntryOK(ChampionsLeaguePage)
      /\ EntryOK(HealthPage) /\ EntryOK(HomePage)
  BY FreePages
<1>2. /\ EntryOK(SplitsPage(ask)) /\ EntryOK(OpponentsPage(ask))
      /\ EntryOK(RangePage(ask, account)) /\ EntryOK(TrendsPage(ask))
  BY PaidPages
<1> QED
  BY <1>1, <1>2 DEF Enter

----------------------------------------------------------------------------
(***************************************************************************)
(* A request that goes on.                                                 *)
(***************************************************************************)

\* The first stage is one of the three kinds, and the one after a stage other than the
\* reading of KV is not the write.
LEMMA HeadOrdered ==
  ASSUME NEW s, Ordered(s), s # <<>>
  PROVE  /\ Len(s) \in Nat /\ Len(s) > 0 /\ Head(s) = s[1] /\ Tail(s) \in Seq(Stages)
         /\ Len(Tail(s)) = Len(s) - 1 /\ \A i \in 1..Len(Tail(s)) : Tail(s)[i] = s[i + 1]
         /\ \/ Head(s) \subseteq PlainAwaits
            \/ Head(s) = {"kv"} /\ Tail(s) # <<>> /\ Head(Tail(s)) = {"kv_put"}
            \/ Head(s) = {"kv_put"}
         /\ (Tail(s) # <<>> /\ Head(s) # {"kv"}) => Head(Tail(s)) # {"kv_put"}
<1>1. s \in Seq(Stages)
  BY DEF Ordered
<1>2. /\ Len(s) \in Nat /\ Len(s) > 0 /\ Head(s) = s[1] /\ Tail(s) \in Seq(Stages)
      /\ Len(Tail(s)) = Len(s) - 1 /\ \A i \in 1..Len(Tail(s)) : Tail(s)[i] = s[i + 1]
  BY <1>1
<1>3. Len(s) > 1 => Tail(s) # <<>> /\ Head(Tail(s)) = s[2]
  <2>1. SUFFICES ASSUME Len(s) > 1
                 PROVE  Tail(s) # <<>> /\ Head(Tail(s)) = s[2]
    OBVIOUS
  <2>2. 1 \in 1..Len(Tail(s)) /\ 1 + 1 = 2
    BY <1>2, <2>1
  <2>3. Tail(s)[1] = s[2]
    BY <1>2, <2>2
  <2>4. Tail(s) # <<>>
    <3> DEFINE rest == Tail(s)
    <3>1. rest \in Seq(Stages) /\ Len(rest) # 0
      BY <1>2, <2>1
    <3> HIDE DEF rest
    <3>2. rest # <<>>
      BY <3>1
    <3> QED
      BY <3>2 DEF rest
  <2>5. Head(Tail(s)) = Tail(s)[1]
    BY <1>2, <2>4
  <2> QED
    BY <2>3, <2>4, <2>5
<1>4. Tail(s) # <<>> => Len(s) > 1
  BY <1>2
<1>5. \/ s[1] \subseteq PlainAwaits
      \/ s[1] = {"kv"} /\ 1 < Len(s) /\ s[2] = {"kv_put"}
      \/ s[1] = {"kv_put"}
  BY <1>2 DEF Ordered
<1>6. Len(s) > 1 /\ s[1] # {"kv"} => s[2] # {"kv_put"}
  <2>1. SUFFICES ASSUME Len(s) > 1, s[1] # {"kv"}, s[2] = {"kv_put"}
                 PROVE  FALSE
    OBVIOUS
  <2>2. ~(s[2] \subseteq PlainAwaits) /\ s[2] # {"kv"}
    BY <2>1 DEF PlainAwaits, TableReads
  <2>3. 2 \in 1..Len(s) /\ 2 - 1 = 1
    BY <1>2, <2>1
  <2> QED
    BY <2>1, <2>2, <2>3 DEF Ordered
<1> QED
  BY <1>2, <1>3, <1>4, <1>5, <1>6

\* What is left after a stage is in order.
LEMMA TailOrdered ==
  ASSUME NEW s, Ordered(s), s # <<>>
  PROVE  Ordered(Tail(s))
<1>1. /\ Len(s) \in Nat /\ Len(s) > 0 /\ Tail(s) \in Seq(Stages) /\ Len(Tail(s)) = Len(s) - 1
      /\ \A i \in 1..Len(Tail(s)) : Tail(s)[i] = s[i + 1]
  BY HeadOrdered
<1>2. ASSUME NEW i \in 1..Len(Tail(s))
      PROVE  \/ Tail(s)[i] \subseteq PlainAwaits
             \/ Tail(s)[i] = {"kv"} /\ i < Len(Tail(s)) /\ Tail(s)[i + 1] = {"kv_put"}
             \/ Tail(s)[i] = {"kv_put"} /\ (i = 1 \/ Tail(s)[i - 1] = {"kv"})
  <2>1. i \in Nat /\ i + 1 \in 1..Len(s) /\ Tail(s)[i] = s[i + 1]
    BY <1>1
  <2>2. CASE s[i + 1] \subseteq PlainAwaits
    BY <2>1, <2>2
  <2>3. CASE s[i + 1] = {"kv"} /\ i + 1 < Len(s) /\ s[(i + 1) + 1] = {"kv_put"}
    BY <1>1, <2>1, <2>3
  <2>4. CASE s[i + 1] = {"kv_put"} /\ (i + 1 = 1 \/ s[(i + 1) - 1] = {"kv"})
    <3>1. (i + 1) - 1 = i /\ i + 1 # 1
      BY <2>1
    <3>2. s[i] = {"kv"}
      BY <2>4, <3>1
    <3>3. i > 1 => i - 1 \in 1..Len(Tail(s)) /\ (i - 1) + 1 = i
      BY <1>1, <2>1
    <3> QED
      BY <1>1, <2>1, <2>4, <3>2, <3>3
  <2> QED
    BY <2>1, <2>2, <2>3, <2>4 DEF Ordered
<1> QED
  BY <1>1, <1>2 DEF Ordered

\* A plain stage may become another plain stage.
LEMMA Restaged ==
  ASSUME NEW s, Ordered(s), s # <<>>, Head(s) \subseteq PlainAwaits,
         NEW rest \in SUBSET PlainAwaits
  PROVE  Ordered(<<rest>> \o Tail(s)) /\ Head(<<rest>> \o Tail(s)) # {"kv_put"}
<1> DEFINE t == <<rest>> \o Tail(s)
<1>1. /\ Len(s) \in Nat /\ Len(s) > 0 /\ Tail(s) \in Seq(Stages) /\ Len(Tail(s)) = Len(s) - 1
      /\ \A i \in 1..Len(Tail(s)) : Tail(s)[i] = s[i + 1]
  BY HeadOrdered
<1>2. rest \in Stages /\ s[1] \subseteq PlainAwaits
  BY HeadOrdered DEF Stages
<1>3. /\ t \in Seq(Stages) /\ Len(t) = Len(s) /\ t[1] = rest
      /\ \A i \in 2..Len(s) : t[i] = Tail(s)[i - 1]
  BY <1>1, <1>2
<1>4. \A i \in 2..Len(s) : t[i] = s[i]
  <2>1. ASSUME NEW i \in 2..Len(s)
        PROVE  t[i] = s[i]
    <3>1. i - 1 \in 1..Len(Tail(s)) /\ (i - 1) + 1 = i
      BY <1>1
    <3> QED
      BY <1>1, <1>3, <3>1
  <2> QED
    BY <2>1
<1> HIDE DEF t
<1>5. {"kv"} # rest /\ {"kv_put"} # rest /\ s[1] # {"kv"}
  BY <1>2 DEF PlainAwaits, TableReads
<1>6. ASSUME NEW i \in 1..Len(t)
      PROVE  \/ t[i] \subseteq PlainAwaits
             \/ t[i] = {"kv"} /\ i < Len(t) /\ t[i + 1] = {"kv_put"}
             \/ t[i] = {"kv_put"} /\ (i = 1 \/ t[i - 1] = {"kv"})
  <2>1. CASE i = 1
    BY <1>3, <2>1
  <2>2. CASE i # 1
    <3>1. i \in Nat /\ i \in 2..Len(s) /\ i \in 1..Len(s) /\ t[i] = s[i]
      BY <1>1, <1>3, <1>4, <2>2
    <3>2. CASE s[i] \subseteq PlainAwaits
      BY <3>1, <3>2
    <3>3. CASE s[i] = {"kv"} /\ i < Len(s) /\ s[i + 1] = {"kv_put"}
      BY <1>1, <1>3, <1>4, <3>1, <3>3
    <3>4. CASE s[i] = {"kv_put"} /\ (i = 1 \/ s[i - 1] = {"kv"})
      <4>1. i - 1 # 1
        BY <1>5, <2>2, <3>4
      <4>2. i - 1 \in 2..Len(s)
        BY <1>1, <3>1, <4>1
      <4> QED
        BY <1>4, <2>2, <3>1, <3>4, <4>2
    <3> QED
      BY <3>1, <3>2, <3>3, <3>4 DEF Ordered
  <2> QED
    BY <2>1, <2>2
<1>7. t # <<>> /\ Head(t) = rest
  BY <1>1, <1>3
<1> QED
  BY <1>3, <1>5, <1>6, <1>7 DEF Ordered, t

\* What a request notes, finds or answers does not matter to the breaker.
LEMMA FieldsSet ==
  ASSUME NEW call, NEW arrivals, Running(call, arrivals), NEW x, NEW n
  PROVE  /\ Running([call EXCEPT !.answer = x], arrivals)
         /\ Running([call EXCEPT !.intent = x], arrivals)
         /\ Running([call EXCEPT !.known = x], arrivals)
         /\ Running(Noted(call, x, n), arrivals)
  BY DEF Running, CallFields, Noted

\* A request ends with any answer, and goes on with any stages that are in order.
LEMMA StagesSet ==
  ASSUME NEW call, NEW arrivals, Running(call, arrivals)
  PROVE  /\ \A outcome \in Ended : Running(Ends(call, outcome), arrivals)
         /\ \A s : (Ordered(s) /\ (s # <<>> => Head(s) # {"kv_put"})) =>
              Running([call EXCEPT !.stages = s], arrivals)
<1>1. Ordered(<<>>)
  BY PlainOrdered, PlainStages
<1>2. \A outcome \in Ended : Running(Ends(call, outcome), arrivals)
  BY <1>1 DEF Running, CallFields, Ends
<1>3. \A s : (Ordered(s) /\ (s # <<>> => Head(s) # {"kv_put"})) =>
        Running([call EXCEPT !.stages = s], arrivals)
  BY DEF Running, CallFields
<1> QED
  BY <1>2, <1>3

\* An await that is over leads to the rest of its stage or to the next stage.
LEMMA StepDone ==
  ASSUME NEW call, NEW arrivals, Running(call, arrivals), call.stages # <<>>,
         NEW a \in Head(call.stages), a # "kv", NEW more \in SUBSET PlainAwaits,
         a = "kv_put" => more = {}
  PROVE  Running(Done(call, a, more), arrivals)
<1> DEFINE s == call.stages
           rest == (Head(s) \ {a}) \cup more
           next == IF rest = {} THEN Tail(s) ELSE <<rest>> \o Tail(s)
<1>1. Ordered(s)
  BY DEF Running
<1>2. Head(s) \subseteq PlainAwaits \/ Head(s) = {"kv_put"}
  BY <1>1, HeadOrdered
<1>3. Head(s) = {"kv_put"} => rest = {}
  BY DEF PlainAwaits, TableReads
<1>4. Head(s) \subseteq PlainAwaits => rest \in SUBSET PlainAwaits
  OBVIOUS
<1>5. Head(s) # {"kv"}
  BY <1>2 DEF PlainAwaits, TableReads
<1>6. Ordered(next) /\ (next # <<>> => Head(next) # {"kv_put"})
  <2>1. CASE rest = {}
    BY <1>1, <1>5, <2>1, TailOrdered, HeadOrdered
  <2>2. CASE rest # {}
    BY <1>1, <1>2, <1>3, <1>4, <2>2, Restaged
  <2> QED
    BY <2>1, <2>2
<1> HIDE DEF next
<1>7. Running([call EXCEPT !.stages = next], arrivals)
  BY <1>6, StagesSet
<1> QED
  BY <1>7 DEF Done, next

\* The reading of KV leads to the write, or past it.
LEMMA CountRead ==
  ASSUME NEW call, NEW arrivals, Running(call, arrivals), call.stages # <<>>,
         "kv" \in Head(call.stages)
  PROVE  /\ \A count \in Nat : count + 1 <= arrivals[call.day] =>
              Running([Done(call, "kv", {}) EXCEPT !.kv = count], arrivals)
         /\ Running(Done(Done(call, "kv", {}), "kv_put", {}), arrivals)
<1> DEFINE s == call.stages
           next == Tail(s)
           third == Tail(next)
<1>1. Ordered(s)
  BY DEF Running
<1>2. Head(s) = {"kv"} /\ next # <<>> /\ Head(next) = {"kv_put"}
  BY <1>1, HeadOrdered DEF PlainAwaits, TableReads
<1>3. Ordered(next)
  BY <1>1, TailOrdered
<1>4. Done(call, "kv", {}) = [call EXCEPT !.stages = next]
  <2>1. (Head(s) \ {"kv"}) \cup {} = {}
    BY <1>2
  <2> QED
    BY <2>1 DEF Done
<1> HIDE DEF next
<1>5. Ordered(third) /\ (third # <<>> => Head(third) # {"kv_put"})
  BY <1>2, <1>3, TailOrdered, HeadOrdered
<1>6. ASSUME NEW count \in Nat, count + 1 <= arrivals[call.day]
      PROVE  Running([[call EXCEPT !.stages = next] EXCEPT !.kv = count], arrivals)
  BY <1>3, <1>6 DEF Running, CallFields
<1>7. Done([call EXCEPT !.stages = next], "kv_put", {}) = [[call EXCEPT !.stages = next] EXCEPT !.stages = third]
  <2>1. [call EXCEPT !.stages = next].stages = next
    BY DEF Running, CallFields
  <2>2. (Head(next) \ {"kv_put"}) \cup {} = {}
    BY <1>2
  <2> QED
    BY <2>1, <2>2 DEF Done
<1> HIDE DEF third
<1>8. Running([[call EXCEPT !.stages = next] EXCEPT !.stages = third], arrivals)
  BY <1>5 DEF Running, CallFields
<1> QED
  BY <1>4, <1>6, <1>7, <1>8

\* A request does not mind that more come.
LEMMA MoreTries ==
  ASSUME NEW call, NEW before, NEW after, before \in [Days -> Nat], after \in [Days -> Nat],
         \A d \in Days : before[d] <= after[d], CallOK(call, before)
  PROVE  CallOK(call, after)
<1>1. CASE call = Idle
  BY <1>1 DEF CallOK
<1>2. CASE Running(call, before)
  <2>1. call.day \in Days /\ call.kv \in Nat
    BY <1>2 DEF Running
  <2>2. before[call.day] \in Nat /\ after[call.day] \in Nat /\ before[call.day] <= after[call.day]
    BY <2>1
  <2>3. call.kv + 1 <= before[call.day] => call.kv + 1 <= after[call.day]
    BY <2>1, <2>2
  <2> QED
    BY <1>2, <2>3 DEF CallOK, Running
<1> QED
  BY <1>1, <1>2 DEF CallOK

\* One request steps, the others stay.
LEMMA OneStep ==
  ASSUME CountersOK, CallsOK, NEW c \in Calls, NEW x, calls' = [calls EXCEPT ![c] = x],
         tries' \in [Days -> Nat], \A d \in Days : tries[d] <= tries'[d], CallOK(x, tries')
  PROVE  CallsOK'
<1>1. DOMAIN calls' = Calls /\ \A e \in Calls : calls'[e] = IF e = c THEN x ELSE calls[e]
  BY DEF CallsOK
<1>2. \A e \in Calls : CallOK(calls[e], tries')
  BY MoreTries DEF CallsOK, CountersOK
<1>3. \A e \in Calls : CallOK(calls'[e], tries')
  BY <1>1, <1>2
<1> QED
  BY <1>1, <1>3 DEF CallsOK

\* It becomes what it is now, or its answer.
LEMMA BecomesRunning ==
  ASSUME CountersOK, CallsOK, NEW c \in Calls, NEW call, Becomes(c, call),
         tries' \in [Days -> Nat], \A d \in Days : tries[d] <= tries'[d], Running(call, tries')
  PROVE  CallsOK'
<1> DEFINE x == IF call.stages = <<>> /\ call.outcome = "pending" THEN Ends(call, "answered") ELSE call
<1>1. Running(x, tries')
  <2>1. Running(Ends(call, "answered"), tries')
    BY StagesSet DEF Ended
  <2> QED
    BY <2>1
<1>2. CallOK(x, tries')
  BY <1>1 DEF CallOK
<1>3. calls' = [calls EXCEPT ![c] = x]
  BY DEF Becomes
<1> HIDE DEF x
<1> QED
  BY <1>2, <1>3, OneStep

\* A step of a request that leaves the counters alone.
LEMMA QuietStep ==
  ASSUME CountersOK, CallsOK, NEW c \in Calls, NEW call, Becomes(c, call), UNCHANGED counted,
         Running(call, tries)
  PROVE  CallsOK' /\ CountersOK'
<1>1. /\ tries' = tries /\ kv' = kv /\ budget' = budget /\ admitted' = admitted
      /\ tries' \in [Days -> Nat]
  BY DEF counted, CountersOK
<1>2. \A d \in Days : tries[d] <= tries'[d]
  BY <1>1
<1>3. Running(call, tries')
  BY <1>1
<1> QED
  BY <1>1, <1>2, <1>3, BecomesRunning DEF CountersOK

\* A request that awaits something runs.
LEMMA AwaitsRunning ==
  ASSUME CallsOK, NEW c \in Calls, NEW a, Awaits(c, a)
  PROVE  /\ Running(calls[c], tries) /\ calls[c].stages # <<>> /\ a \in Head(calls[c].stages)
         /\ calls[c].outcome = "pending"
<1>1. calls[c].outcome = "pending" /\ calls[c].stages # <<>> /\ a \in Head(calls[c].stages)
  BY DEF Awaits
<1>2. calls[c] # Idle
  BY <1>1 DEF Idle
<1> QED
  BY <1>1, <1>2 DEF CallsOK, CallOK

\* What is kept stays when its variables do.
LEMMA KeptStays ==
  ASSUME KeptOK, UNCHANGED <<world, stored>>
  PROVE  KeptOK'
  BY DEF KeptOK, world, stored

\* What a page does with an await other than those of KV.
LEMMA Proceeds ==
  ASSUME CallsOK, NEW c \in Calls, NEW a, Awaits(c, a), a # "kv", a # "kv_put", NEW n, NEW b
  PROVE  /\ Running(calls[c], tries) /\ Running(Noted(calls[c], b, n), tries)
         /\ \A more \in SUBSET PlainAwaits :
              /\ Running(Done(calls[c], a, more), tries)
              /\ Running(Done(Noted(calls[c], b, n), a, more), tries)
              /\ Running(Noted(Done(calls[c], a, more), b, n), tries)
         /\ \A outcome \in Ended :
              Running(Ends(calls[c], outcome), tries) /\ Running(Ends(Noted(calls[c], b, n), outcome), tries)
<1> DEFINE call == calls[c]
           noted == Noted(call, b, n)
<1>1. Running(call, tries) /\ call.stages # <<>> /\ a \in Head(call.stages)
  BY AwaitsRunning
<1>2. Running(noted, tries)
  BY <1>1, FieldsSet
<1>3. noted.stages = call.stages
  BY <1>1 DEF Running, CallFields, Noted
<1> HIDE DEF call, noted
<1>4. ASSUME NEW more \in SUBSET PlainAwaits
      PROVE  Running(Done(call, a, more), tries) /\ Running(Done(noted, a, more), tries)
  BY <1>1, <1>2, <1>3, StepDone
<1>5. ASSUME NEW more \in SUBSET PlainAwaits
      PROVE  Running(Noted(Done(call, a, more), b, n), tries)
  BY <1>4, FieldsSet
<1>6. ASSUME NEW outcome \in Ended
      PROVE  Running(Ends(call, outcome), tries) /\ Running(Ends(noted, outcome), tries)
  BY <1>1, <1>2, StagesSet
<1> QED
  BY <1>1, <1>2, <1>4, <1>5, <1>6 DEF call, noted

\* The plan of a query is followed, or answers it.
LEMMA PlannedRunning ==
  ASSUME NEW call, Running(call, tries), NEW plan, PlanOK(plan)
  PROVE  Running(Planned(call, plan), tries)
<1>1. Running([call EXCEPT !.stages = plan.stages], tries)
  BY StagesSet DEF PlanOK, EntryOK, InOrder
<1>2. Running([call EXCEPT !.stages = plan.stages, !.answer = NoRows], tries)
  <2>1. [call EXCEPT !.stages = plan.stages, !.answer = NoRows]
          = [[call EXCEPT !.stages = plan.stages] EXCEPT !.answer = NoRows]
    OBVIOUS
  <2> QED
    BY <1>1, <2>1, FieldsSet
<1>3. plan.outcome \notin {"pending", "no_rows"} => Running(Ends(call, plan.outcome), tries)
  BY StagesSet DEF PlanOK, EntryOK, InOrder, Ended
<1> QED
  BY <1>1, <1>2, <1>3 DEF Planned

\* The reads that follow a read are plain.
LEMMA FollowsPlain ==
  ASSUME NEW r, NEW intent, NEW F, NEW a
  PROVE  Follows(r, intent, F, a) \in SUBSET PlainAwaits
<1>1. /\ {} \in SUBSET PlainAwaits /\ {"stages"} \in SUBSET PlainAwaits /\ {"again"} \in SUBSET PlainAwaits
      /\ {"result"} \in SUBSET PlainAwaits /\ {"career"} \in SUBSET PlainAwaits
  BY DEF PlainAwaits, TableReads
<1> QED
  BY <1>1 DEF Follows

----------------------------------------------------------------------------
(***************************************************************************)
(* The steps that leave the counters alone.                                *)
(***************************************************************************)

\* The gate.
LEMMA ReadNamesStep ==
  ASSUME IInv, NEW c \in Calls, ReadNames(c)
  PROVE  IInv'
<1>1. Awaits(c, "names") /\ CallsOK /\ CountersOK /\ KeptOK /\ UNCHANGED counted
  BY DEF ReadNames, IInv
<1>2. ASSUME NEW known
      PROVE  Running(Gated(calls[c], known), tries)
  <2>1. Running(Ends(calls[c], "refused"), tries) /\ Running(Done(calls[c], "names", {}), tries)
    BY <1>1, Proceeds DEF Ended
  <2>2. Running([Done(calls[c], "names", {}) EXCEPT !.known = known], tries)
    BY <2>1, FieldsSet
  <2> QED
    BY <2>1, <2>2 DEF Gated
<1>3. PICK known : Becomes(c, Gated(calls[c], known))
  BY DEF ReadNames
<1>4. CallsOK' /\ CountersOK'
  BY <1>1, <1>2, <1>3, QuietStep
<1>5. KeptOK'
  BY <1>1 DEF ReadNames, KeptOK, world
<1> QED
  BY <1>4, <1>5 DEF IInv

\* The proposal.
LEMMA ProposeIntentStep ==
  ASSUME IInv, NEW c \in Calls, NEW output, ProposeIntent(c, output)
  PROVE  IInv'
<1> DEFINE call == calls[c]
           proposal == Propose(RequestOf(call).ask, call.known, Artifact, AiMode, output)
<1>1. /\ Awaits(c, "model") /\ CallsOK /\ CountersOK /\ KeptOK
      /\ UNCHANGED counted /\ UNCHANGED <<world, stored>> /\ Becomes(c, Proposed(call, proposal))
  BY DEF ProposeIntent, IInv
<1>2. Running(call, tries) /\ \A outcome \in Ended : Running(Ends(call, outcome), tries)
  BY <1>1, Proceeds
<1>3. ASSUME NEW answer
      PROVE  Running([Ends(call, "answered") EXCEPT !.answer = answer], tries)
  <2>1. Running(Ends(call, "answered"), tries)
    BY <1>2 DEF Ended
  <2> QED
    BY <2>1, FieldsSet
<1>4. ASSUME NEW intent
      PROVE  Running([call EXCEPT !.intent = intent, !.stages = <<{"name"}>>], tries)
  <2>1. Running([call EXCEPT !.intent = intent], tries)
    BY <1>2, FieldsSet
  <2>2. Ordered(<<{"name"}>>) /\ Head(<<{"name"}>>) # {"kv_put"}
    <3>1. {"name"} \in SUBSET PlainAwaits /\ {"name"} # {"kv_put"}
      BY DEF PlainAwaits
    <3>2. <<{"name"}>> \in Seq(SUBSET PlainAwaits)
      BY <3>1
    <3>3. Head(<<{"name"}>>) = {"name"}
      OBVIOUS
    <3>4. Ordered(<<{"name"}>>)
      BY <3>2, PlainOrdered
    <3> QED
      BY <3>1, <3>3, <3>4
  <2>3. Running([[call EXCEPT !.intent = intent] EXCEPT !.stages = <<{"name"}>>], tries)
    BY <2>1, <2>2, StagesSet
  <2> QED
    BY <2>3
<1> HIDE DEF call, proposal
<1>5. Running(Proposed(call, proposal), tries)
  <2>1. Running(Ends(call, "refused"), tries) /\ Running(Ends(call, "clarification"), tries)
    BY <1>2 DEF Ended
  <2> QED
    BY <1>3, <1>4, <2>1 DEF Proposed
<1> USE DEF call
<1>6. CallsOK' /\ CountersOK'
  BY <1>1, <1>5, QuietStep
<1> QED
  BY <1>1, <1>6, KeptStays DEF IInv

\* A page names its snapshot.
LEMMA NameSnapshotStep ==
  ASSUME IInv, NEW c \in Calls, NameSnapshot(c)
  PROVE  IInv'
<1> DEFINE call == Noted(calls[c], "name", imported)
           plan == PlanQuery(call.intent, RequestOf(call).account)
           goal == IF RequestOf(call).page \in {"ask", "query"} THEN Planned(call, plan)
                   ELSE IF RequestOf(call).page \in {"range", "trends"} /\ (imported = 0 \/ EligibleSeasons = {})
                   THEN Ends(call, "unavailable") ELSE Done(call, "name", {})
<1>1. /\ Awaits(c, "name") /\ CallsOK /\ CountersOK /\ KeptOK
      /\ UNCHANGED counted /\ UNCHANGED <<world, stored>> /\ Becomes(c, goal)
  BY DEF NameSnapshot, IInv
<1>2. /\ Running(call, tries) /\ Running(Ends(call, "unavailable"), tries)
      /\ Running(Done(call, "name", {}), tries)
  BY <1>1, Proceeds DEF Ended
<1>3. PlanOK(plan)
  BY PlansOrdered
<1> HIDE DEF call, plan
<1>4. Running(Planned(call, plan), tries)
  BY <1>2, <1>3, PlannedRunning
<1>5. Running(goal, tries)
  BY <1>2, <1>4
<1> HIDE DEF goal
<1>6. CallsOK' /\ CountersOK'
  BY <1>1, <1>5, QuietStep
<1> QED
  BY <1>1, <1>6, KeptStays DEF IInv

\* The publication is read, or must still be current.
LEMMA PublicationStep ==
  ASSUME IInv, NEW c \in Calls, ReadPublication(c) \/ Check(c) \/ Recheck(c)
  PROVE  IInv'
<1>1. CallsOK /\ CountersOK /\ KeptOK /\ UNCHANGED counted /\ UNCHANGED <<world, stored>>
  BY DEF ReadPublication, Check, Recheck, IInv
<1>2. PICK a \in {"publication", "check", "recheck"}, call \in {calls[c], Noted(calls[c], "publication", imported)} :
        Awaits(c, a) /\ (Becomes(c, Done(call, a, {})) \/ Becomes(c, Ends(call, "unavailable")))
  BY DEF ReadPublication, Check, Recheck
<1>3. Running(Done(call, a, {}), tries) /\ Running(Ends(call, "unavailable"), tries)
  BY <1>1, <1>2, Proceeds DEF Ended
<1>4. CallsOK' /\ CountersOK'
  BY <1>1, <1>2, <1>3, QuietStep
<1> QED
  BY <1>1, <1>4, KeptStays DEF IInv

\* A table is read, or cannot be.
LEMMA ReadsStep ==
  ASSUME IInv, NEW c \in Calls, NEW a \in TableReads \cup {"name", "check", "recheck"},
         \/ a \in {"people", "web_names"} /\ ReadPeople(c, a)
         \/ ReadTable(c, a)
         \/ ReadFails(c, a)
  PROVE  IInv'
<1>1. /\ Awaits(c, a) /\ CallsOK /\ CountersOK /\ KeptOK
      /\ UNCHANGED counted /\ UNCHANGED <<world, stored>>
  BY DEF ReadPeople, ReadTable, ReadFails, IInv
<1>2. a # "kv" /\ a # "kv_put"
  BY DEF TableReads
<1> DEFINE call == Noted(calls[c], a, imported)
<1>3. /\ \A more \in SUBSET PlainAwaits : Running(Done(call, a, more), tries)
      /\ Running(Noted(Done(calls[c], a, {}), a, 0), tries)
      /\ Running(Ends(call, "refused"), tries) /\ Running(Ends(calls[c], "unavailable"), tries)
  BY <1>1, <1>2, Proceeds DEF Ended
<1>4. CASE ReadPeople(c, a)
  <2>1. Becomes(c, Done(call, a, {})) \/ Becomes(c, Ends(call, "refused"))
    BY <1>4 DEF ReadPeople
  <2>2. CallsOK' /\ CountersOK'
    BY <1>1, <1>3, <2>1, QuietStep
  <2> QED
    BY <1>1, <2>2, KeptStays DEF IInv
<1>5. CASE ReadTable(c, a)
  <2> DEFINE more == Follows(RequestOf(call), call.intent, Saw(call), a)
  <2>1. Becomes(c, Done(call, a, more))
    BY <1>5 DEF ReadTable
  <2>2. more \in SUBSET PlainAwaits
    BY FollowsPlain
  <2> HIDE DEF more
  <2>3. CallsOK' /\ CountersOK'
    BY <1>1, <1>3, <2>1, <2>2, QuietStep
  <2> QED
    BY <1>1, <2>3, KeptStays DEF IInv
<1>6. CASE ReadFails(c, a)
  <2>1. Becomes(c, Noted(Done(calls[c], a, {}), a, 0)) \/ Becomes(c, Ends(calls[c], "unavailable"))
    BY <1>6 DEF ReadFails
  <2>2. CallsOK' /\ CountersOK'
    BY <1>1, <1>3, <2>1, QuietStep
  <2> QED
    BY <1>1, <2>2, KeptStays DEF IInv
<1> QED
  BY <1>4, <1>5, <1>6

\* A page makes its answer of what it read.
LEMMA ReplyStep ==
  ASSUME IInv, NEW c \in Calls, Reply(c)
  PROVE  IInv'
<1> DEFINE answer == AnswerTo(RequestOf(calls[c]), calls[c].intent, Shown(calls[c]), Saw(calls[c]))
<1>1. /\ Awaits(c, "reply") /\ CallsOK /\ CountersOK /\ KeptOK
      /\ UNCHANGED counted /\ UNCHANGED <<world, stored>> /\ Becomes(c, Replied(calls[c], answer))
  BY DEF Reply, IInv
<1> HIDE DEF answer
<1>2. Running(Ends(calls[c], "unavailable"), tries) /\ Running(Done(calls[c], "reply", {}), tries)
  BY <1>1, Proceeds DEF Ended
<1>3. Running(Replied(calls[c], answer), tries)
  BY <1>2, FieldsSet DEF Replied
<1>4. CallsOK' /\ CountersOK'
  BY <1>1, <1>3, QuietStep
<1> QED
  BY <1>1, <1>4, KeptStays DEF IInv

\* The cache is asked.
LEMMA LookUpStep ==
  ASSUME IInv, NEW c \in Calls, LookUp(c)
  PROVE  IInv'
<1> DEFINE call == calls[c]
           account == RequestOf(call).account
           found == [call EXCEPT !.answer = cache.rows, !.stages = <<{"recheck"}>> \o Saving(account)]
<1>1. /\ Awaits(c, "lookup") /\ CallsOK /\ CountersOK /\ KeptOK
      /\ UNCHANGED counted /\ UNCHANGED <<world, stored>>
      /\ Becomes(c, found) \/ Becomes(c, Planned(call, PlanOnMiss(call.intent, account)))
  BY DEF LookUp, IInv
<1>2. Running(call, tries)
  BY <1>1, Proceeds
<1>3. Running(found, tries)
  <2> DEFINE stages == <<{"recheck"}>> \o Saving(account)
  <2>1. {"recheck"} \in SUBSET PlainAwaits
    BY DEF PlainAwaits
  <2>2. <<{"recheck"}>> \in Seq(SUBSET PlainAwaits) /\ Saving(account) \in Seq(SUBSET PlainAwaits)
    BY <2>1, PlainStages
  <2>3. stages \in Seq(SUBSET PlainAwaits)
    BY <2>2
  <2> HIDE DEF stages
  <2>4. Ordered(stages) /\ (stages # <<>> => Head(stages) # {"kv_put"})
    BY <2>3, EntryOfStages DEF EntryOK, InOrder, Reads
  <2>5. Running([call EXCEPT !.answer = cache.rows], tries)
    BY <1>2, FieldsSet
  <2>6. Running([[call EXCEPT !.answer = cache.rows] EXCEPT !.stages = stages], tries)
    BY <2>4, <2>5, StagesSet
  <2> QED
    BY <2>6 DEF stages
<1>4. Running(Planned(call, PlanOnMiss(call.intent, account)), tries)
  BY <1>2, PlansOrdered, PlannedRunning
<1> HIDE DEF found
<1>5. CallsOK' /\ CountersOK'
  BY <1>1, <1>3, <1>4, QuietStep
<1> QED
  BY <1>1, <1>5, KeptStays DEF IInv

----------------------------------------------------------------------------
(***************************************************************************)
(* The steps of the breaker.                                               *)
(***************************************************************************)

\* KV is read, the request is counted among those that came.
LEMMA FastCheckStep ==
  ASSUME IInv, NEW c \in Calls, FastCheck(c)
  PROVE  IInv'
<1> DEFINE call == [calls[c] EXCEPT !.day = day]
<1>1. /\ Awaits(c, "kv") /\ CallsOK /\ CountersOK /\ KeptOK /\ UNCHANGED <<world, stored>>
      /\ kv' = kv /\ budget' = budget /\ admitted' = admitted
      /\ tries' = [tries EXCEPT ![day] = @ + 1]
  BY DEF FastCheck, IInv
<1>2. day \in Days /\ tries \in [Days -> Nat] /\ tries' \in [Days -> Nat] /\ tries'[day] = tries[day] + 1
  BY <1>1 DEF CountersOK, KeptOK
<1>3. \A d \in Days : tries[d] <= tries'[d] /\ tries[d] \in Nat
  BY <1>1, <1>2
<1>4. CountersOK'
  <2>1. \A d \in Days : \A n \in kv[d] : n \in Nat /\ n <= tries[d]
    BY <1>1 DEF CountersOK
  <2>2. \A d \in Days : \A n \in kv[d] : n <= tries'[d]
    BY <1>2, <1>3, <2>1
  <2> QED
    BY <1>1, <1>2, <2>2 DEF CountersOK
<1>5. Running(calls[c], tries) /\ calls[c].stages # <<>> /\ "kv" \in Head(calls[c].stages)
  BY <1>1, AwaitsRunning
<1>6. Head(calls[c].stages) # {"kv_put"}
  BY <1>5
<1>7. Running(call, tries') /\ call.stages = calls[c].stages /\ call.day = day
  BY <1>2, <1>5, <1>6 DEF Running, CallFields
<1> HIDE DEF call
<1>8. Running(Done(Done(call, "kv", {}), "kv_put", {}), tries')
  BY <1>5, <1>7, CountRead
<1>9. Running(Ends(call, "over_limit"), tries')
  BY <1>7, StagesSet DEF Ended
<1>10. ASSUME NEW count \in kv[day]
       PROVE  Running([Done(call, "kv", {}) EXCEPT !.kv = count], tries')
  <2>1. count \in Nat /\ count <= tries[day] /\ tries[day] \in Nat
    BY <1>1, <1>2, <1>3 DEF CountersOK
  <2>2. count + 1 <= tries'[day]
    BY <1>2, <2>1
  <2> QED
    BY <1>5, <1>7, <2>1, <2>2, CountRead
<1>11. PICK goal : Becomes(c, goal) /\ Running(goal, tries')
  <2>1. CASE Becomes(c, Done(Done(call, "kv", {}), "kv_put", {}))
    BY <1>8, <2>1
  <2>2. CASE \E count \in kv[day] :
               Becomes(c, IF count >= FastLimit THEN Ends(call, "over_limit")
                          ELSE [Done(call, "kv", {}) EXCEPT !.kv = count])
    <3>1. PICK count \in kv[day] :
            Becomes(c, IF count >= FastLimit THEN Ends(call, "over_limit")
                       ELSE [Done(call, "kv", {}) EXCEPT !.kv = count])
      BY <2>2
    <3> QED
      BY <1>9, <1>10, <3>1
  <2> QED
    BY <2>1, <2>2 DEF FastCheck, call
<1>12. CallsOK'
  BY <1>1, <1>2, <1>3, <1>11, BecomesRunning
<1> QED
  BY <1>1, <1>4, <1>12, KeptStays DEF IInv

\* KV is written: what it may return from now on is no more than came.
LEMMA FastCountStep ==
  ASSUME IInv, NEW c \in Calls, FastCount(c)
  PROVE  IInv'
<1> DEFINE call == calls[c]
<1>1. /\ Awaits(c, "kv_put") /\ CallsOK /\ CountersOK /\ KeptOK /\ UNCHANGED <<world, stored>>
      /\ budget' = budget /\ admitted' = admitted /\ tries' = tries
      /\ Becomes(c, Done(call, "kv_put", {}))
      /\ kv' = [kv EXCEPT ![call.day] = @ \cup {call.kv + 1}] \/ kv' = kv
  BY DEF FastCount, IInv
<1>2. Running(call, tries) /\ call.stages # <<>> /\ "kv_put" \in Head(call.stages)
  BY <1>1, AwaitsRunning
<1>3. Head(call.stages) = {"kv_put"}
  <2>1. "kv_put" \notin PlainAwaits /\ "kv_put" \notin {"kv"}
    BY DEF PlainAwaits, TableReads
  <2>2. Ordered(call.stages)
    BY <1>2 DEF Running
  <2> QED
    BY <1>2, <2>1, <2>2, HeadOrdered
<1>4. call.day \in Days /\ call.kv \in Nat /\ call.kv + 1 <= tries[call.day]
  BY <1>2, <1>3 DEF Running
<1> HIDE DEF call
<1>5. kv \in [Days -> SUBSET Nat]
  BY <1>1 DEF CountersOK
<1>6. kv' \in [Days -> SUBSET Nat]
  BY <1>1, <1>4, <1>5
<1>7. ASSUME NEW d \in Days, NEW n \in kv'[d]
      PROVE  n <= tries'[d]
  <2>1. n \in kv[d] \/ (d = call.day /\ n = call.kv + 1)
    BY <1>1, <1>4, <1>5
  <2> QED
    BY <1>1, <1>4, <2>1 DEF CountersOK
<1>8. CountersOK'
  BY <1>1, <1>6, <1>7 DEF CountersOK
<1>9. Running(Done(call, "kv_put", {}), tries)
  BY <1>2, StepDone
<1>10. tries' \in [Days -> Nat] /\ \A d \in Days : tries[d] <= tries'[d]
  BY <1>1 DEF CountersOK
<1>11. CallsOK'
  BY <1>1, <1>9, <1>10, BecomesRunning
<1> QED
  BY <1>1, <1>8, <1>11, KeptStays DEF IInv

\* D1 counts and compares.
LEMMA ChargeStep ==
  ASSUME IInv, NEW c \in Calls, Charge(c) \/ ChargeFails(c)
  PROVE  IInv'
<1> DEFINE d == calls[c].day
<1>1. /\ Awaits(c, "charge") /\ CallsOK /\ CountersOK /\ KeptOK /\ UNCHANGED <<world, stored>>
      /\ kv' = kv /\ tries' = tries
  BY DEF Charge, ChargeFails, IInv
<1>2. /\ Running(calls[c], tries) /\ Running(Done(calls[c], "charge", {}), tries)
      /\ Running(Ends(calls[c], "over_limit"), tries) /\ Running(Ends(calls[c], "unavailable"), tries)
  BY <1>1, Proceeds DEF Ended
<1>3. d \in Days
  BY <1>2 DEF Running
<1>4. \/ Becomes(c, Done(calls[c], "charge", {})) \/ Becomes(c, Ends(calls[c], "over_limit"))
      \/ Becomes(c, Ends(calls[c], "unavailable"))
  BY DEF Charge, ChargeFails
<1>5. \/ budget' = budget /\ admitted' = admitted
      \/ budget' = [budget EXCEPT ![d] = @ + 1] /\ admitted' = admitted
      \/ /\ budget' = [budget EXCEPT ![d] = @ + 1] /\ budget'[d] <= HardLimit
         /\ admitted' = [admitted EXCEPT ![d] = @ + 1]
  BY DEF Charge, ChargeFails
<1> HIDE DEF d
<1>6. /\ budget \in [Days -> Nat] /\ admitted \in [Days -> Nat]
      /\ \A e \in Days : admitted[e] <= budget[e] /\ admitted[e] <= HardLimit
      /\ HardLimit \in Nat
  BY <1>1, Limits DEF CountersOK
<1>7. budget' \in [Days -> Nat] /\ admitted' \in [Days -> Nat]
  BY <1>3, <1>5, <1>6
<1>8. ASSUME NEW e \in Days
      PROVE  admitted'[e] <= budget'[e] /\ admitted'[e] <= HardLimit
  <2>1. budget[e] \in Nat /\ admitted[e] \in Nat
    BY <1>6
  <2>2. CASE budget' = budget /\ admitted' = admitted
    BY <1>6, <2>2
  <2>3. CASE budget' = [budget EXCEPT ![d] = @ + 1] /\ admitted' = admitted
    BY <1>6, <2>1, <2>3
  <2>4. CASE /\ budget' = [budget EXCEPT ![d] = @ + 1] /\ budget'[d] <= HardLimit
             /\ admitted' = [admitted EXCEPT ![d] = @ + 1]
    <3>1. CASE e = d
      BY <1>6, <2>1, <2>4, <3>1
    <3>2. CASE e # d
      BY <1>6, <2>4, <3>2
    <3> QED
      BY <3>1, <3>2
  <2> QED
    BY <1>5, <2>2, <2>3, <2>4
<1>9. CountersOK'
  BY <1>1, <1>7, <1>8 DEF CountersOK
<1>10. tries' \in [Days -> Nat] /\ \A e \in Days : tries[e] <= tries'[e]
  BY <1>1 DEF CountersOK
<1>11. CallsOK'
  BY <1>1, <1>2, <1>4, <1>10, BecomesRunning
<1> QED
  BY <1>1, <1>9, <1>11, KeptStays DEF IInv

----------------------------------------------------------------------------
(***************************************************************************)
(* The steps that keep something, and the surroundings.                    *)
(***************************************************************************)

\* A request arrives.
LEMMA AcceptStep ==
  ASSUME IInv, NEW c \in Calls, NEW i \in DOMAIN Requests, Accept(c, i)
  PROVE  IInv'
<1> DEFINE entry == Enter(Requests[i])
           call == Arrived(i, entry)
<1>1. /\ CallsOK /\ CountersOK /\ KeptOK /\ UNCHANGED <<day, imported, counted, stored>>
      /\ asked' = Append(asked, i) /\ calls' = [calls EXCEPT ![c] = call]
  BY DEF Accept, IInv
<1>2. EntryOK(entry)
  BY EntriesOrdered
<1> HIDE DEF entry
<1>3. /\ call.outcome = entry.outcome /\ call.stages = entry.stages /\ call.req = i
      /\ call.day = day /\ call.kv = 0 /\ DOMAIN call = CallFields
  BY DEF Arrived, CallFields
<1> HIDE DEF call
<1>4. day \in Days
  BY <1>1 DEF KeptOK
<1>5. Running(call, tries)
  BY <1>2, <1>3, <1>4 DEF Running, EntryOK, InOrder, Ended
<1>6. /\ tries' = tries /\ kv' = kv /\ budget' = budget /\ admitted' = admitted
      /\ tries' \in [Days -> Nat] /\ \A d \in Days : tries[d] <= tries'[d]
  BY <1>1 DEF counted, CountersOK
<1>7. CallOK(call, tries')
  BY <1>5, <1>6 DEF CallOK
<1>8. CallsOK' /\ CountersOK'
  BY <1>1, <1>6, <1>7, OneStep DEF CountersOK
<1>9. asked' \in Seq(DOMAIN Requests)
  BY <1>1 DEF KeptOK
<1>10. KeptOK'
  BY <1>1, <1>9 DEF KeptOK, stored
<1> QED
  BY <1>8, <1>10 DEF IInv

\* The visitor has his answer.
LEMMA RespondStep ==
  ASSUME IInv, NEW c \in Calls, Respond(c)
  PROVE  IInv'
<1>1. /\ CallsOK /\ CountersOK /\ KeptOK /\ UNCHANGED counted /\ UNCHANGED <<world, stored>>
      /\ calls' = [calls EXCEPT ![c] = Idle]
  BY DEF Respond, IInv
<1>2. /\ tries' = tries /\ kv' = kv /\ budget' = budget /\ admitted' = admitted
      /\ tries' \in [Days -> Nat] /\ \A d \in Days : tries[d] <= tries'[d]
  BY <1>1 DEF counted, CountersOK
<1>3. CallOK(Idle, tries')
  BY DEF CallOK
<1>4. CallsOK' /\ CountersOK'
  BY <1>1, <1>2, <1>3, OneStep DEF CountersOK
<1> QED
  BY <1>1, <1>4, KeptStays DEF IInv

\* A slot of the cache is overwritten.
LEMMA StoreStep ==
  ASSUME IInv, NEW c \in Calls, Store(c)
  PROVE  IInv'
<1>1. /\ Awaits(c, "store") /\ CallsOK /\ CountersOK /\ KeptOK /\ UNCHANGED counted
      /\ UNCHANGED <<history, playerNames>> /\ UNCHANGED world
      /\ Becomes(c, Done(calls[c], "store", {}))
  BY DEF Store, IInv
<1>2. DOMAIN cache' = {"key", "snapshot", "rows"}
  BY <1>1 DEF Store, KeptOK
<1>3. Running(Done(calls[c], "store", {}), tries)
  BY <1>1, Proceeds
<1>4. CallsOK' /\ CountersOK'
  BY <1>1, <1>3, QuietStep
<1>5. KeptOK'
  BY <1>1, <1>2 DEF KeptOK, world
<1> QED
  BY <1>4, <1>5 DEF IInv

\* A sequence is a sequence of what is in it.
LEMMA SequenceOfItself ==
  ASSUME NEW S, NEW s \in Seq(S)
  PROVE  s \in Seq({s[i] : i \in DOMAIN s})
<1>1. Len(s) \in Nat /\ DOMAIN s = 1..Len(s) /\ s = [i \in 1..Len(s) |-> s[i]]
  OBVIOUS
<1>2. s \in [1..Len(s) -> {s[i] : i \in DOMAIN s}]
  BY <1>1
<1> QED
  BY <1>1, <1>2

\* The larger of two numbers.
LEMMA LargerOfTwo ==
  ASSUME NEW k \in Int
  PROVE  Max({1, k}) \in {1, k} /\ Max({1, k}) >= 1 /\ Max({1, k}) >= k
<1>1. \E x \in {1, k} : \A y \in {1, k} : x >= y
  BY SMT
<1> QED
  BY <1>1 DEF Max

\* A question is kept, and the oldest beyond the limit is dropped.
LEMMA SaveStep ==
  ASSUME IInv, NEW c \in Calls, Save(c)
  PROVE  IInv'
<1> DEFINE entry == Replay(calls[c])
           kept == Append(history, entry)
           first == Max({1, Len(kept) - HistoryLimit + 1})
           S == {history[i] : i \in DOMAIN history} \cup {entry}
<1>1. /\ Awaits(c, "save") /\ CallsOK /\ CountersOK /\ KeptOK /\ UNCHANGED counted
      /\ UNCHANGED <<cache, playerNames>> /\ UNCHANGED world
      /\ Becomes(c, Done(calls[c], "save", {}))
      /\ history' = SubSeq(kept, first, Len(kept)) \/ history' = history
  BY DEF Save, IInv
<1> HIDE DEF entry
<1>2. kept \in Seq(S) /\ Len(kept) \in Nat /\ HistoryLimit \in Nat \ {0}
  <2>1. history \in Seq(S)
    BY <1>1 DEF KeptOK
  <2> QED
    BY <2>1, Limits
<1> HIDE DEF kept, S
<1>3. first \in Nat /\ first >= 1 /\ first >= Len(kept) - HistoryLimit + 1 /\ first \in {1, Len(kept) - HistoryLimit + 1}
  <2>1. Len(kept) - HistoryLimit + 1 \in Int
    BY <1>2
  <2> QED
    BY <2>1, LargerOfTwo
<1> HIDE DEF first
<1>4. SubSeq(kept, first, Len(kept)) \in Seq(S) /\ Len(SubSeq(kept, first, Len(kept))) <= HistoryLimit
  <2>1. SubSeq(kept, first, Len(kept)) \in Seq(S)
    BY <1>2, <1>3
  <2>2. Len(SubSeq(kept, first, Len(kept))) = IF first <= Len(kept) THEN Len(kept) - first + 1 ELSE 0
    BY <1>2, <1>3
  <2> QED
    BY <1>2, <1>3, <2>1, <2>2
<1>5. history' \in Seq({history'[i] : i \in DOMAIN history'}) /\ Len(history') <= HistoryLimit
  <2>1. CASE history' = history
    BY <1>1, <2>1 DEF KeptOK
  <2>2. CASE history' = SubSeq(kept, first, Len(kept))
    <3>1. history' \in Seq(S)
      BY <1>4, <2>2
    <3>2. history' \in Seq({history'[i] : i \in DOMAIN history'})
      BY <3>1, SequenceOfItself
    <3> QED
      BY <1>4, <2>2, <3>2
  <2> QED
    BY <1>1, <2>1, <2>2
<1>6. Running(Done(calls[c], "save", {}), tries)
  BY <1>1, Proceeds
<1>7. CallsOK' /\ CountersOK'
  BY <1>1, <1>6, QuietStep
<1>8. KeptOK'
  BY <1>1, <1>5 DEF KeptOK, world
<1> QED
  BY <1>7, <1>8 DEF IInv

\* What happens around the requests.
LEMMA SurroundingsStep ==
  ASSUME IInv, ClearHistory \/ Recycle \/ Import \/ Midnight
  PROVE  IInv'
<1>1. CallsOK /\ CountersOK /\ KeptOK /\ UNCHANGED counted /\ UNCHANGED calls
  BY DEF ClearHistory, Recycle, Import, Midnight, IInv
<1>2. CallsOK' /\ CountersOK'
  BY <1>1 DEF CallsOK, CountersOK, counted
<1>3. CASE ClearHistory
  <2>1. <<>> \in Seq({<<>>[i] : i \in DOMAIN <<>>}) /\ Len(<<>>) <= HistoryLimit
    BY Limits
  <2> QED
    BY <1>1, <1>2, <1>3, <2>1 DEF ClearHistory, KeptOK, IInv, world
<1>4. CASE Recycle
  BY <1>1, <1>2, <1>4 DEF Recycle, KeptOK, IInv, world
<1>5. CASE Import
  BY <1>1, <1>2, <1>5 DEF Import, KeptOK, IInv, stored
<1>6. CASE Midnight
  <2>1. day \in Nat /\ MaxDay \in Nat /\ day + 1 \in Days
    BY <1>1, <1>6, Limits DEF KeptOK, Days, Midnight
  <2> QED
    BY <1>1, <1>2, <1>6, <2>1 DEF Midnight, KeptOK, IInv, stored
<1> QED
  BY <1>3, <1>4, <1>5, <1>6

----------------------------------------------------------------------------
(***************************************************************************)
(* The theorems.                                                           *)
(***************************************************************************)

\* At first nothing is counted, kept or under way.
LEMMA Initially ==
  ASSUME Init
  PROVE  IInv
<1>1. day \in Days /\ imported \in Snapshots
  <2>1. 0 \in Snapshots
    BY DEF Init, Snapshots
  <2> QED
    BY <2>1, Limits DEF Init
<1>2. KeptOK
  <2>1. <<>> \in Seq({<<>>[i] : i \in DOMAIN <<>>}) /\ Len(<<>>) <= HistoryLimit
    BY Limits
  <2>2. DOMAIN cache = {"key", "snapshot", "rows"}
    BY DEF Init, NoEntry
  <2> QED
    BY <1>1, <2>1, <2>2 DEF Init, KeptOK
<1>3. CountersOK
  BY Limits DEF Init, CountersOK
<1>4. CallsOK
  BY DEF Init, CallsOK, CallOK
<1> QED
  BY <1>2, <1>3, <1>4 DEF IInv

\* Every step keeps the invariant.
LEMMA Stepwise ==
  ASSUME IInv, [Next]_vars
  PROVE  IInv'
<1>1. CASE UNCHANGED vars
  BY <1>1 DEF IInv, KeptOK, CountersOK, CallsOK, vars
<1>2. ASSUME NEW c \in Calls,
             \/ \E i \in DOMAIN Requests : Accept(c, i)
             \/ ReadNames(c)
             \/ \E i \in DOMAIN ModelOutputs : ProposeIntent(c, ModelOutputs[i])
      PROVE  IInv'
  BY <1>2, AcceptStep, ReadNamesStep, ProposeIntentStep
<1>3. ASSUME NEW c \in Calls, FastCheck(c) \/ FastCount(c) \/ Charge(c) \/ ChargeFails(c)
      PROVE  IInv'
  BY <1>3, FastCheckStep, FastCountStep, ChargeStep
<1>4. ASSUME NEW c \in Calls,
             \/ NameSnapshot(c) \/ ReadPublication(c) \/ Check(c) \/ Reply(c)
             \/ LookUp(c) \/ Recheck(c) \/ Store(c) \/ Save(c) \/ Respond(c)
      PROVE  IInv'
  BY <1>4, NameSnapshotStep, PublicationStep, ReplyStep, LookUpStep, StoreStep, SaveStep, RespondStep
<1>5. ASSUME NEW c \in Calls,
             \/ \E a \in {"people", "web_names"} : ReadPeople(c, a)
             \/ \E a \in TableReads \ {"publication", "people", "web_names"} : ReadTable(c, a)
             \/ \E a \in TableReads \cup {"name", "check", "recheck"} : ReadFails(c, a)
      PROVE  IInv'
  <2>1. {"people", "web_names"} \subseteq TableReads
    BY DEF TableReads
  <2> QED
    BY <1>5, <2>1, ReadsStep
<1>6. CASE ClearHistory \/ Recycle \/ Import \/ Midnight
  BY <1>6, SurroundingsStep
<1> QED
  BY <1>1, <1>2, <1>3, <1>4, <1>5, <1>6 DEF Next

\* The invariant of the pages at work: the counters, the requests in flight and the stages
\* they have left agree in every reachable state.
THEOREM PagesInvariant == Spec => []IInv
<1>1. Init => IInv
  BY Initially
<1>2. IInv /\ [Next]_vars => IInv'
  BY Stepwise
<1> QED
  BY <1>1, <1>2, PTL DEF Spec

\* Every variable has its type, and an account never keeps more questions than the limit,
\* since one batch inserts and trims (saveQuestionHistory).
THEOREM PagesTyped == Spec => []TypeOK
<1>1. IInv => TypeOK
  <2>1. ASSUME IInv, NEW d \in Days
        PROVE  kv[d] \subseteq Nat /\ {budget[d], tries[d], admitted[d]} \subseteq Nat
    BY <2>1 DEF IInv, CountersOK
  <2>2. ASSUME IInv, NEW c \in Calls
        PROVE  calls[c].outcome \in
                 {"idle", "pending", "refused", "static", "clarification", "over_limit", "unavailable", "answered"}
    BY <2>2 DEF IInv, CallsOK, CallOK, Running, Idle, Ended
  <2> QED
    BY <2>1, <2>2 DEF IInv, KeptOK, TypeOK
<1> QED
  BY <1>1, PagesInvariant, PTL

\* No interleaving of requests, no lost, stale or failing KV counter and no failure of D1
\* lets more requests of a day through than the limit, and KV never counts a request that
\* did not come (enforceBudget).
THEOREM BudgetKept == Spec => []BudgetHeld
<1>1. IInv => BudgetHeld
  BY DEF IInv, CountersOK, BudgetHeld
<1> QED
  BY <1>1, PagesInvariant, PTL
=============================================================================
