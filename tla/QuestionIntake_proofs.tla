------------------------ MODULE QuestionIntake_proofs ------------------------
(***************************************************************************)
(* Proofs about question intake, for any number of accounts, texts and     *)
(* submissions in flight and all limits: what racing submissions can and   *)
(* cannot exceed.                                                          *)
(***************************************************************************)
EXTENDS QuestionIntake, FiniteSetTheorems, TLAPS

-----------------------------------------------------------------------------
(* Counting. *)

LEMMA Shrink ==
  ASSUME NEW S, IsFiniteSet(S), NEW P, IsFiniteSet(P),
         NEW T \in SUBSET S, NEW Q \in SUBSET P
  PROVE  /\ Cardinality(T) \in Nat /\ Cardinality(Q) \in Nat
         /\ Cardinality(S) \in Nat /\ Cardinality(P) \in Nat
         /\ Cardinality(T) + Cardinality(Q) <= Cardinality(S) + Cardinality(P)
<1>1. IsFiniteSet(T) /\ Cardinality(T) <= Cardinality(S)
  BY FS_Subset
<1>2. IsFiniteSet(Q) /\ Cardinality(Q) <= Cardinality(P)
  BY FS_Subset
<1>3. /\ Cardinality(T) \in Nat /\ Cardinality(Q) \in Nat
      /\ Cardinality(S) \in Nat /\ Cardinality(P) \in Nat
  BY <1>1, <1>2, FS_CardinalityType
<1> QED
  BY <1>1, <1>2, <1>3

LEMMA AddOne ==
  ASSUME NEW S, IsFiniteSet(S), NEW x
  PROVE  /\ IsFiniteSet(S \cup {x}) /\ Cardinality(S \cup {x}) \in Nat
         /\ Cardinality(S \cup {x}) <= Cardinality(S) + 1
<1>1. IsFiniteSet(S \cup {x}) /\ Cardinality(S \cup {x}) \in Nat /\ Cardinality(S) \in Nat
  BY FS_AddElement, FS_CardinalityType
<1>2. CASE x \in S
  BY <1>1, <1>2, FS_AddElement
<1>3. CASE x \notin S
  BY <1>1, <1>3, FS_AddElement
<1> QED
  BY <1>2, <1>3

\* A submission past its check becomes a question: the sum does not grow.
LEMMA Land ==
  ASSUME NEW S, IsFiniteSet(S), NEW P, IsFiniteSet(P), NEW q, NEW c \in P,
         NEW T \in SUBSET (S \cup {q}), NEW Q \in SUBSET (P \ {c})
  PROVE  /\ Cardinality(T) \in Nat /\ Cardinality(Q) \in Nat
         /\ Cardinality(S) \in Nat /\ Cardinality(P) \in Nat
         /\ Cardinality(T) + Cardinality(Q) <= Cardinality(S) + Cardinality(P)
<1>1. IsFiniteSet(S \cup {q}) /\ Cardinality(S \cup {q}) <= Cardinality(S) + 1
  BY AddOne
<1>2. IsFiniteSet(P \ {c}) /\ Cardinality(P \ {c}) = Cardinality(P) - 1
  BY FS_RemoveElement
<1>3. IsFiniteSet(T) /\ Cardinality(T) <= Cardinality(S \cup {q})
  BY <1>1, FS_Subset
<1>4. IsFiniteSet(Q) /\ Cardinality(Q) <= Cardinality(P \ {c})
  BY <1>2, FS_Subset
<1>5. /\ Cardinality(T) \in Nat /\ Cardinality(Q) \in Nat
      /\ Cardinality(S) \in Nat /\ Cardinality(P) \in Nat
      /\ Cardinality(S \cup {q}) \in Nat
  BY <1>1, <1>3, <1>4, FS_CardinalityType
<1> QED
  BY <1>1, <1>2, <1>3, <1>4, <1>5

LEMMA CallsCount ==
  ASSUME NEW P \in SUBSET Calls
  PROVE  /\ IsFiniteSet(P) /\ Cardinality(P) \in Nat /\ Cardinality(Calls) \in Nat
         /\ Cardinality(P) <= Cardinality(Calls)
BY CallsAssumption, FS_Subset, FS_CardinalityType

LEMMA PastFinite ==
  /\ \A a \in Accounts, d \in Days : IsFiniteSet(PastDaily(a, d))
  /\ \A a \in Accounts : IsFiniteSet(PastPending(a))
  /\ \A d \in Days : IsFiniteSet(PastBudget(d))
BY CallsCount DEF PastDaily, PastPending, PastBudget

LEMMA QuestionsFinite ==
  ASSUME IsFiniteSet(questions), pending \subseteq questions
  PROVE  /\ \A a \in Accounts, d \in Days : IsFiniteSet(StoredOn(a, d))
         /\ \A a \in Accounts : IsFiniteSet(PendingOf(a))
         /\ \A d \in Days : IsFiniteSet({q \in questions : q.day = d})
BY FS_Subset DEF StoredOn, PendingOf

-----------------------------------------------------------------------------
(* Types, finiteness and time. *)

Basics == TypeOK /\ IsFiniteSet(questions) /\ Timely /\ RacedQuestionIsThere

LEMMA BasicsInit == Init => Basics
BY LimitsAssumption, FS_EmptySet
   DEF Init, Basics, TypeOK, Days, Timely, RacedQuestionIsThere, At

LEMMA BasicsStep == Basics /\ [Next]_vars => Basics'
<1> SUFFICES ASSUME Basics, [Next]_vars
             PROVE  Basics'
  OBVIOUS
<1> USE DEF Basics, TypeOK, Timely, RacedQuestionIsThere, Submission, Question, Idle, At
<1> USE LimitsAssumption
<1>1. CASE NextDay
  <2>1. day' \in Days
    BY <1>1 DEF NextDay, Days
  <2> QED
    BY <1>1, <2>1 DEF NextDay, Days
<1>2. ASSUME NEW c \in Calls, NEW a \in Accounts, NEW text \in Texts, Submit(c, a, text)
      PROVE  Basics'
  BY <1>2 DEF Submit, Days
<1>3. ASSUME NEW c \in Calls, LookUp(c) PROVE Basics'
  BY <1>3 DEF LookUp, Goto, Answer
<1>4. ASSUME NEW c \in Calls, CountPending(c) PROVE Basics'
  BY <1>4 DEF CountPending, Goto, Answer
<1>5. ASSUME NEW c \in Calls, CountDaily(c) PROVE Basics'
  BY <1>5 DEF CountDaily, Goto, Answer
<1>6. ASSUME NEW c \in Calls, ChargeBudget(c) PROVE Basics'
  <2>1. calls[c].question.day \in Days
    BY <1>6 DEF ChargeBudget
  <2> QED
    BY <1>6, <2>1 DEF ChargeBudget, Goto, Answer
<1>7. ASSUME NEW c \in Calls, Insert(c) PROVE Basics'
  <2>1. IsFiniteSet(questions')
    BY <1>7, FS_AddElement DEF Insert
  <2> QED
    BY <1>7, <2>1 DEF Insert, Goto, Answer
<1>8. ASSUME NEW c \in Calls, Raced(c) \/ Abandon(c) PROVE Basics'
  BY <1>8 DEF Raced, Abandon, Answer
<1>9. ASSUME NEW q \in questions, Settle(q) \/ Refresh(q) PROVE Basics'
  BY <1>9 DEF Settle, Refresh
<1>10. CASE Purge
  <2>1. PICK page \in SUBSET Expired : /\ questions' = questions \ page
                                       /\ pending' = pending \ page
                                       /\ UNCHANGED <<day, budget, renewed, calls>>
    BY <1>10 DEF Purge
  <2>2. IsFiniteSet(questions')
    BY <2>1, FS_Subset
  \* A question younger than a submission in flight is not expired yet.
  <2>3. ASSUME NEW c \in Calls, At(c, "raced")
        PROVE  calls[c].question \notin page
    <3>1. calls[c].question.day \in {day - 1, day} /\ day \in Nat
      BY <2>3 DEF Days
    <3>2. ~(calls[c].question.day + RetentionDays <= day)
      BY <3>1
    <3> QED
      BY <2>1, <3>2 DEF Expired
  <2> QED
    BY <2>1, <2>2, <2>3
<1>11. CASE UNCHANGED vars
  BY <1>11 DEF vars
<1> QED
  BY <1>1, <1>2, <1>3, <1>4, <1>5, <1>6, <1>7, <1>8, <1>9, <1>10, <1>11 DEF Next, Handle

-----------------------------------------------------------------------------
(* The room that the daily limit leaves. *)

LEMMA DailyShrinks ==
  ASSUME Basics, DailyRoom, questions' \subseteq questions,
         \A a \in Accounts, d \in Days : PastDaily(a, d)' \subseteq PastDaily(a, d)
  PROVE  DailyRoom'
<1> SUFFICES ASSUME NEW a \in Accounts, NEW d \in Days
             PROVE  (Cardinality(StoredOn(a, d)) + Cardinality(PastDaily(a, d))
                       < DailyLimit + Cardinality(Calls))'
  BY DEF DailyRoom
<1> DEFINE S == StoredOn(a, d)  T == StoredOn(a, d)'
           P == PastDaily(a, d)  Q == PastDaily(a, d)'
<1>1. T \subseteq S /\ Q \subseteq P
  BY DEF StoredOn
<1>2. IsFiniteSet(S) /\ IsFiniteSet(P)
  BY QuestionsFinite, PastFinite DEF Basics, TypeOK
<1>3. Cardinality(S) + Cardinality(P) < DailyLimit + Cardinality(Calls)
  BY DEF DailyRoom
<1>4. /\ Cardinality(T) \in Nat /\ Cardinality(Q) \in Nat
      /\ Cardinality(S) \in Nat /\ Cardinality(P) \in Nat
      /\ Cardinality(T) + Cardinality(Q) <= Cardinality(S) + Cardinality(P)
  BY <1>1, <1>2, Shrink
<1> QED
  BY <1>3, <1>4, CallsCount, LimitsAssumption

\* The count passed the limit's check: what is stored leaves room for everyone.
LEMMA DailyPasses ==
  ASSUME Basics, DailyRoom, NEW c \in Calls, CountDaily(c)
  PROVE  DailyRoom'
<1> SUFFICES ASSUME NEW a \in Accounts, NEW d \in Days
             PROVE  (Cardinality(StoredOn(a, d)) + Cardinality(PastDaily(a, d))
                       < DailyLimit + Cardinality(Calls))'
  BY DEF DailyRoom
<1>1. questions' = questions /\ StoredOn(a, d)' = StoredOn(a, d)
  BY DEF CountDaily, StoredOn
<1>2. Cardinality(StoredOn(a, d)) \in Nat
  BY QuestionsFinite, FS_CardinalityType DEF Basics, TypeOK
<1>3. PastDaily(a, d)' \subseteq Calls
  BY DEF PastDaily
<1>4. CASE Cardinality(StoredOn(a, d)) < DailyLimit
  BY <1>1, <1>2, <1>3, <1>4, CallsCount, LimitsAssumption
<1>5. CASE ~(Cardinality(StoredOn(a, d)) < DailyLimit)
  <2>1. Cardinality(StoredOn(a, d)) >= DailyLimit
    BY <1>2, <1>5, LimitsAssumption
  <2>2. PastDaily(a, d)' \subseteq PastDaily(a, d)
    BY <2>1 DEF PastDaily, CountDaily, At, Goto, Answer, Basics, TypeOK, Submission, Idle
  <2>3. IsFiniteSet(PastDaily(a, d))
    BY PastFinite
  <2>4. Cardinality(PastDaily(a, d)) \in Nat /\ Cardinality(PastDaily(a, d)') \in Nat
        /\ Cardinality(PastDaily(a, d)') <= Cardinality(PastDaily(a, d))
    BY <2>2, <2>3, FS_Subset, FS_CardinalityType
  <2>5. Cardinality(StoredOn(a, d)) + Cardinality(PastDaily(a, d))
          < DailyLimit + Cardinality(Calls)
    BY DEF DailyRoom
  <2> QED
    BY <1>1, <1>2, <2>4, <2>5, CallsCount, LimitsAssumption
<1> QED
  BY <1>4, <1>5

\* The question takes the room that its submission had.
LEMMA DailyLands ==
  ASSUME Basics, DailyRoom, NEW c \in Calls, Insert(c)
  PROVE  DailyRoom'
<1>1. CASE calls[c].question \in questions
  BY <1>1, DailyShrinks
     DEF PastDaily, Insert, At, Goto, Basics, TypeOK, Submission, Idle
<1>2. CASE calls[c].question \notin questions
  <2> DEFINE q == calls[c].question
  <2> SUFFICES ASSUME NEW a \in Accounts, NEW d \in Days
               PROVE  (Cardinality(StoredOn(a, d)) + Cardinality(PastDaily(a, d))
                         < DailyLimit + Cardinality(Calls))'
    BY DEF DailyRoom
  <2> DEFINE S == StoredOn(a, d)  T == StoredOn(a, d)'
             P == PastDaily(a, d)  Q == PastDaily(a, d)'
  <2>1. IsFiniteSet(S) /\ IsFiniteSet(P)
    BY QuestionsFinite, PastFinite DEF Basics, TypeOK
  <2>2. Q \subseteq P \ {c}
    BY <1>2 DEF PastDaily, Insert, At, Answer, Basics, TypeOK, Submission, Idle
  <2>3. /\ Cardinality(T) \in Nat /\ Cardinality(Q) \in Nat
        /\ Cardinality(S) \in Nat /\ Cardinality(P) \in Nat
        /\ Cardinality(T) + Cardinality(Q) <= Cardinality(S) + Cardinality(P)
    <3>1. CASE q.account = a /\ q.day = d
      <4>1. c \in P
        BY <3>1 DEF PastDaily, Insert, At
      <4>2. T \subseteq S \cup {q}
        BY <1>2 DEF StoredOn, Insert
      <4> QED
        BY <2>1, <2>2, <4>1, <4>2, Land
    <3>2. CASE ~(q.account = a /\ q.day = d)
      <4>1. T \subseteq S
        BY <1>2, <3>2 DEF StoredOn, Insert
      <4> QED
        BY <2>1, <2>2, <4>1, Shrink
    <3> QED
      BY <3>1, <3>2
  <2>4. Cardinality(S) + Cardinality(P) < DailyLimit + Cardinality(Calls)
    BY DEF DailyRoom
  <2> QED
    BY <2>3, <2>4, CallsCount, LimitsAssumption
<1> QED
  BY <1>1, <1>2

LEMMA DailyStep == Basics /\ DailyRoom /\ [Next]_vars => DailyRoom'
<1> SUFFICES ASSUME Basics, DailyRoom, [Next]_vars
             PROVE  DailyRoom'
  OBVIOUS
<1>1. CASE NextDay \/ Purge \/ UNCHANGED vars \/ \E q \in questions : Settle(q) \/ Refresh(q)
  BY <1>1, DailyShrinks DEF NextDay, Purge, vars, Settle, Refresh, PastDaily
<1>2. ASSUME NEW c \in Calls, Handle(c)
      PROVE  DailyRoom'
  <2> USE DEF PastDaily, At, Goto, Answer, Idle
  <2> USE DEF Basics, TypeOK, Submission
  <2>1. CASE (\E a \in Accounts, text \in Texts : Submit(c, a, text)) \/ LookUp(c)
    BY <2>1, DailyShrinks DEF Submit, LookUp
  <2>2. CASE CountPending(c)
    BY <2>2, DailyShrinks DEF CountPending
  <2>3. CASE CountDaily(c)
    BY <2>3, DailyPasses
  <2>4. CASE ChargeBudget(c)
    BY <2>4, DailyShrinks DEF ChargeBudget
  <2>5. CASE Insert(c)
    BY <2>5, DailyLands
  <2>6. CASE Raced(c) \/ Abandon(c)
    BY <2>6, DailyShrinks DEF Raced, Abandon
  <2> QED
    BY <1>2, <2>1, <2>2, <2>3, <2>4, <2>5, <2>6 DEF Handle
<1> QED
  BY <1>1, <1>2 DEF Next

-----------------------------------------------------------------------------
(* The room that the pending limit leaves. *)

LEMMA PendingShrinks ==
  ASSUME Basics, PendingRoom, pending' \subseteq pending, renewed' = renewed,
         \A a \in Accounts : PastPending(a)' \subseteq PastPending(a)
  PROVE  PendingRoom'
<1> SUFFICES ASSUME NEW a \in Accounts
             PROVE  (Cardinality(PendingOf(a)) + Cardinality(PastPending(a))
                       < PendingLimit + Cardinality(Calls) + renewed[a])'
  BY DEF PendingRoom
<1> DEFINE S == PendingOf(a)  T == PendingOf(a)'
           P == PastPending(a)  Q == PastPending(a)'
<1>1. T \subseteq S /\ Q \subseteq P
  BY DEF PendingOf
<1>2. IsFiniteSet(S) /\ IsFiniteSet(P)
  BY QuestionsFinite, PastFinite DEF Basics, TypeOK
<1>3. Cardinality(S) + Cardinality(P) < PendingLimit + Cardinality(Calls) + renewed[a]
  BY DEF PendingRoom
<1>4. /\ Cardinality(T) \in Nat /\ Cardinality(Q) \in Nat
      /\ Cardinality(S) \in Nat /\ Cardinality(P) \in Nat
      /\ Cardinality(T) + Cardinality(Q) <= Cardinality(S) + Cardinality(P)
  BY <1>1, <1>2, Shrink
<1>5. renewed[a] \in Nat /\ renewed'[a] = renewed[a]
  BY DEF Basics, TypeOK
<1> QED
  BY <1>3, <1>4, <1>5, CallsCount, LimitsAssumption

LEMMA PendingPasses ==
  ASSUME Basics, PendingRoom, NEW c \in Calls, CountPending(c)
  PROVE  PendingRoom'
<1> SUFFICES ASSUME NEW a \in Accounts
             PROVE  (Cardinality(PendingOf(a)) + Cardinality(PastPending(a))
                       < PendingLimit + Cardinality(Calls) + renewed[a])'
  BY DEF PendingRoom
<1>1. PendingOf(a)' = PendingOf(a) /\ renewed'[a] = renewed[a] /\ renewed[a] \in Nat
  BY DEF CountPending, PendingOf, Basics, TypeOK
<1>2. Cardinality(PendingOf(a)) \in Nat
  BY QuestionsFinite, FS_CardinalityType DEF Basics, TypeOK
<1>3. PastPending(a)' \subseteq Calls
  BY DEF PastPending
<1>4. CASE Cardinality(PendingOf(a)) < PendingLimit
  BY <1>1, <1>2, <1>3, <1>4, CallsCount, LimitsAssumption
<1>5. CASE ~(Cardinality(PendingOf(a)) < PendingLimit)
  <2>1. Cardinality(PendingOf(a)) >= PendingLimit
    BY <1>2, <1>5, LimitsAssumption
  <2>2. PastPending(a)' \subseteq PastPending(a)
    BY <2>1 DEF PastPending, CountPending, At, Goto, Answer, Basics, TypeOK, Submission, Idle
  <2>3. IsFiniteSet(PastPending(a))
    BY PastFinite
  <2>4. Cardinality(PastPending(a)) \in Nat /\ Cardinality(PastPending(a)') \in Nat
        /\ Cardinality(PastPending(a)') <= Cardinality(PastPending(a))
    BY <2>2, <2>3, FS_Subset, FS_CardinalityType
  <2>5. Cardinality(PendingOf(a)) + Cardinality(PastPending(a))
          < PendingLimit + Cardinality(Calls) + renewed[a]
    BY DEF PendingRoom
  <2> QED
    BY <1>1, <1>2, <2>4, <2>5, CallsCount, LimitsAssumption
<1> QED
  BY <1>4, <1>5

LEMMA PendingLands ==
  ASSUME Basics, PendingRoom, NEW c \in Calls, Insert(c)
  PROVE  PendingRoom'
<1>1. CASE calls[c].question \in questions
  BY <1>1, PendingShrinks
     DEF PastPending, Insert, At, Goto, Basics, TypeOK, Submission, Idle
<1>2. CASE calls[c].question \notin questions
  <2> DEFINE q == calls[c].question
  <2> SUFFICES ASSUME NEW a \in Accounts
               PROVE  (Cardinality(PendingOf(a)) + Cardinality(PastPending(a))
                         < PendingLimit + Cardinality(Calls) + renewed[a])'
    BY DEF PendingRoom
  <2> DEFINE S == PendingOf(a)  T == PendingOf(a)'
             P == PastPending(a)  Q == PastPending(a)'
  <2>1. IsFiniteSet(S) /\ IsFiniteSet(P)
    BY QuestionsFinite, PastFinite DEF Basics, TypeOK
  <2>2. Q \subseteq P \ {c}
    BY <1>2 DEF PastPending, Insert, At, Answer, Basics, TypeOK, Submission, Idle
  <2>3. /\ Cardinality(T) \in Nat /\ Cardinality(Q) \in Nat
        /\ Cardinality(S) \in Nat /\ Cardinality(P) \in Nat
        /\ Cardinality(T) + Cardinality(Q) <= Cardinality(S) + Cardinality(P)
    <3>1. CASE q.account = a
      <4>1. c \in P
        BY <3>1 DEF PastPending, Insert, At
      <4>2. T \subseteq S \cup {q}
        BY <1>2 DEF PendingOf, Insert
      <4> QED
        BY <2>1, <2>2, <4>1, <4>2, Land
    <3>2. CASE q.account # a
      <4>1. T \subseteq S
        BY <1>2, <3>2 DEF PendingOf, Insert
      <4> QED
        BY <2>1, <2>2, <4>1, Shrink
    <3> QED
      BY <3>1, <3>2
  <2>4. Cardinality(S) + Cardinality(P) < PendingLimit + Cardinality(Calls) + renewed[a]
    BY DEF PendingRoom
  <2>5. renewed[a] \in Nat /\ renewed'[a] = renewed[a]
    BY DEF Insert, Basics, TypeOK
  <2> QED
    BY <2>3, <2>4, <2>5, CallsCount, LimitsAssumption
<1> QED
  BY <1>1, <1>2

\* A refresh makes the room that it takes.
LEMMA PendingReopens ==
  ASSUME Basics, PendingRoom, NEW q \in questions, Refresh(q)
  PROVE  PendingRoom'
<1> SUFFICES ASSUME NEW a \in Accounts
             PROVE  (Cardinality(PendingOf(a)) + Cardinality(PastPending(a))
                       < PendingLimit + Cardinality(Calls) + renewed[a])'
  BY DEF PendingRoom
<1> DEFINE S == PendingOf(a)  T == PendingOf(a)'
           P == PastPending(a)  Q == PastPending(a)'
<1>1. Q = P /\ IsFiniteSet(P) /\ Cardinality(P) \in Nat
  BY CallsCount DEF Refresh, PastPending
<1>2. IsFiniteSet(S) /\ Cardinality(S) \in Nat
  BY QuestionsFinite, FS_CardinalityType DEF Basics, TypeOK
<1>3. Cardinality(S) + Cardinality(P) < PendingLimit + Cardinality(Calls) + renewed[a]
  BY DEF PendingRoom
<1>4. renewed[a] \in Nat
  BY DEF Basics, TypeOK
<1>5. CASE q.account = a
  <2>1. T = S \cup {q} /\ q \notin S
    BY <1>5 DEF Refresh, PendingOf
  <2>2. Cardinality(T) = Cardinality(S) + 1
    BY ONLY <1>2, <2>1, FS_AddElement
  <2>3. renewed'[a] = renewed[a] + 1
    BY <1>5 DEF Refresh, Basics, TypeOK
  <2> QED
    BY <1>1, <1>2, <1>3, <1>4, <2>2, <2>3, CallsCount, LimitsAssumption
<1>6. CASE q.account # a
  <2>1. T = S
    BY <1>6 DEF Refresh, PendingOf
  <2>2. renewed'[a] = renewed[a]
    BY <1>6 DEF Refresh, Basics, TypeOK
  <2> QED
    BY <1>1, <1>3, <2>1, <2>2
<1> QED
  BY <1>5, <1>6

LEMMA PendingStep == Basics /\ PendingRoom /\ [Next]_vars => PendingRoom'
<1> SUFFICES ASSUME Basics, PendingRoom, [Next]_vars
             PROVE  PendingRoom'
  OBVIOUS
<1>1. CASE NextDay \/ Purge \/ UNCHANGED vars \/ \E q \in questions : Settle(q)
  BY <1>1, PendingShrinks DEF NextDay, Purge, vars, Settle, PastPending
<1>2. ASSUME NEW q \in questions, Refresh(q)
      PROVE  PendingRoom'
  BY <1>2, PendingReopens
<1>3. ASSUME NEW c \in Calls, Handle(c)
      PROVE  PendingRoom'
  <2> USE DEF PastPending, At, Goto, Answer, Idle, Basics, TypeOK, Submission
  <2>1. CASE (\E a \in Accounts, text \in Texts : Submit(c, a, text)) \/ LookUp(c)
    BY <2>1, PendingShrinks DEF Submit, LookUp
  <2>2. CASE CountPending(c)
    BY <2>2, PendingPasses
  <2>3. CASE CountDaily(c)
    BY <2>3, PendingShrinks DEF CountDaily
  <2>4. CASE ChargeBudget(c)
    BY <2>4, PendingShrinks DEF ChargeBudget
  <2>5. CASE Insert(c)
    BY <2>5, PendingLands
  <2>6. CASE Raced(c) \/ Abandon(c)
    BY <2>6, PendingShrinks DEF Raced, Abandon
  <2> QED
    BY <1>3, <2>1, <2>2, <2>3, <2>4, <2>5, <2>6 DEF Handle
<1> QED
  BY <1>1, <1>2, <1>3 DEF Next

-----------------------------------------------------------------------------
(* The budget: a unit is spent before the question is stored, so that there is *)
(* never more than the budget stored or about to be.                           *)

Stored(d) == {q \in questions : q.day = d}

Spent(d) == Cardinality(Stored(d)) + Cardinality(PastBudget(d))

LEMMA BudgetShrinks ==
  ASSUME Basics, BudgetSpent, questions' \subseteq questions, Basics',
         \A d \in Days : PastBudget(d)' \subseteq PastBudget(d),
         \A d \in Days : budget'[d] >= budget[d]
  PROVE  BudgetSpent'
<1> SUFFICES ASSUME NEW d \in Days
             PROVE  (Spent(d) <= budget[d] /\ Spent(d) <= IntakeLimit)'
  BY DEF BudgetSpent, Spent, Stored
<1> DEFINE S == Stored(d)  T == Stored(d)'
           P == PastBudget(d)  Q == PastBudget(d)'
<1>1. T \subseteq S /\ Q \subseteq P
  BY DEF Stored
<1>2. IsFiniteSet(S) /\ IsFiniteSet(P)
  BY QuestionsFinite, PastFinite DEF Basics, TypeOK, Stored
<1>3. Spent(d) <= budget[d] /\ Spent(d) <= IntakeLimit
  BY DEF BudgetSpent, Spent, Stored
<1>4. /\ Cardinality(T) \in Nat /\ Cardinality(Q) \in Nat
      /\ Cardinality(S) \in Nat /\ Cardinality(P) \in Nat
      /\ Cardinality(T) + Cardinality(Q) <= Cardinality(S) + Cardinality(P)
  BY <1>1, <1>2, Shrink
<1>5. budget[d] \in Nat /\ budget'[d] \in Nat /\ budget'[d] >= budget[d]
  BY DEF Basics, TypeOK
<1> QED
  BY <1>3, <1>4, <1>5, LimitsAssumption DEF Spent

\* The unit that the call has spent is there for the question it will store.
LEMMA BudgetPasses ==
  ASSUME Basics, BudgetSpent, Basics', NEW c \in Calls, ChargeBudget(c)
  PROVE  BudgetSpent'
<1> SUFFICES ASSUME NEW d \in Days
             PROVE  (Spent(d) <= budget[d] /\ Spent(d) <= IntakeLimit)'
  BY DEF BudgetSpent, Spent, Stored
<1> DEFINE e == calls[c].question.day
           P == PastBudget(d)  Q == PastBudget(d)'
<1> USE DEF Basics, TypeOK, Submission, Question, Idle, At, Goto, Answer
<1>1. e \in Days /\ budget[d] \in Nat /\ Stored(d)' = Stored(d)
  BY DEF ChargeBudget, Stored
<1>2. Cardinality(Stored(d)) \in Nat
  BY QuestionsFinite, FS_CardinalityType DEF Stored
<1>3. IsFiniteSet(P) /\ Cardinality(P) \in Nat
  BY CallsCount DEF PastBudget
<1>4. Spent(d) <= budget[d] /\ Spent(d) <= IntakeLimit
  BY DEF BudgetSpent, Spent, Stored
<1>5. CASE d # e
  <2>1. Q = P /\ budget'[d] = budget[d]
    BY <1>1, <1>5 DEF ChargeBudget, PastBudget
  <2> QED
    BY <1>1, <1>4, <2>1 DEF Spent
<1>6. CASE d = e /\ budget'[e] > IntakeLimit
  <2>1. Q = P
    BY <1>1, <1>6 DEF ChargeBudget, PastBudget
  <2>2. budget'[d] = budget[d] + 1
    BY <1>1, <1>6 DEF ChargeBudget
  <2> QED
    BY <1>1, <1>2, <1>3, <1>4, <2>1, <2>2, LimitsAssumption DEF Spent
<1>7. CASE d = e /\ ~(budget'[e] > IntakeLimit)
  <2>1. budget'[d] = budget[d] + 1 /\ budget'[d] <= IntakeLimit
    BY <1>1, <1>7, LimitsAssumption DEF ChargeBudget
  <2>2. Q = P \cup {c}
    BY <1>1, <1>7 DEF ChargeBudget, PastBudget
  <2>3. Cardinality(Q) \in Nat /\ Cardinality(Q) <= Cardinality(P) + 1
    BY <1>3, <2>2, AddOne
  <2> QED
    BY <1>1, <1>2, <1>3, <1>4, <2>1, <2>3, LimitsAssumption DEF Spent
<1> QED
  BY <1>5, <1>6, <1>7

LEMMA BudgetLands ==
  ASSUME Basics, BudgetSpent, Basics', NEW c \in Calls, Insert(c)
  PROVE  BudgetSpent'
<1>1. budget' = budget
  BY DEF Insert
<1>2. \A d \in Days : budget'[d] >= budget[d]
  BY <1>1 DEF Basics, TypeOK
<1>3. CASE calls[c].question \in questions
  BY <1>2, <1>3, BudgetShrinks
     DEF PastBudget, Insert, At, Goto, Basics, TypeOK, Submission, Idle
<1>4. CASE calls[c].question \notin questions
  <2> DEFINE q == calls[c].question
  <2> SUFFICES ASSUME NEW d \in Days
               PROVE  (Spent(d) <= budget[d] /\ Spent(d) <= IntakeLimit)'
    BY DEF BudgetSpent, Spent, Stored
  <2> DEFINE S == Stored(d)  T == Stored(d)'
             P == PastBudget(d)  Q == PastBudget(d)'
  <2>1. IsFiniteSet(S) /\ IsFiniteSet(P)
    BY QuestionsFinite, PastFinite DEF Basics, TypeOK, Stored
  <2>2. Q \subseteq P \ {c}
    BY <1>4 DEF PastBudget, Insert, At, Answer, Basics, TypeOK, Submission, Idle
  <2>3. /\ Cardinality(T) \in Nat /\ Cardinality(Q) \in Nat
        /\ Cardinality(S) \in Nat /\ Cardinality(P) \in Nat
        /\ Cardinality(T) + Cardinality(Q) <= Cardinality(S) + Cardinality(P)
    <3>1. CASE q.day = d
      <4>1. c \in P
        BY <3>1 DEF PastBudget, Insert, At
      <4>2. T \subseteq S \cup {q}
        BY <1>4 DEF Stored, Insert
      <4> QED
        BY <2>1, <2>2, <4>1, <4>2, Land
    <3>2. CASE q.day # d
      <4>1. T \subseteq S
        BY <1>4, <3>2 DEF Stored, Insert
      <4> QED
        BY <2>1, <2>2, <4>1, Shrink
    <3> QED
      BY <3>1, <3>2
  <2>4. Spent(d) <= budget[d] /\ Spent(d) <= IntakeLimit
    BY DEF BudgetSpent, Spent, Stored
  <2>5. budget[d] \in Nat
    BY DEF Basics, TypeOK
  <2> QED
    BY <1>1, <2>3, <2>4, <2>5, LimitsAssumption DEF Spent
<1> QED
  BY <1>3, <1>4

LEMMA BudgetStep == Basics /\ BudgetSpent /\ [Next]_vars => BudgetSpent'
<1> SUFFICES ASSUME Basics, BudgetSpent, [Next]_vars
             PROVE  BudgetSpent'
  OBVIOUS
<1>1. Basics'
  BY BasicsStep
<1>2. \A d \in Days : budget[d] >= budget[d]
  BY DEF Basics, TypeOK
<1>3. CASE NextDay \/ Purge \/ UNCHANGED vars \/ \E q \in questions : Settle(q) \/ Refresh(q)
  BY <1>1, <1>2, <1>3, BudgetShrinks
     DEF NextDay, Purge, vars, Settle, Refresh, PastBudget, At
<1>4. ASSUME NEW c \in Calls, Handle(c)
      PROVE  BudgetSpent'
  <2> USE DEF PastBudget, At, Goto, Answer, Idle, Basics, TypeOK, Submission
  <2>1. CASE (\E a \in Accounts, text \in Texts : Submit(c, a, text)) \/ LookUp(c)
    BY <1>1, <1>2, <2>1, BudgetShrinks DEF Submit, LookUp
  <2>2. CASE CountPending(c)
    BY <1>1, <1>2, <2>2, BudgetShrinks DEF CountPending
  <2>3. CASE CountDaily(c)
    BY <1>1, <1>2, <2>3, BudgetShrinks DEF CountDaily
  <2>4. CASE ChargeBudget(c)
    BY <1>1, <2>4, BudgetPasses
  <2>5. CASE Insert(c)
    BY <1>1, <2>5, BudgetLands
  <2>6. CASE Raced(c) \/ Abandon(c)
    BY <1>1, <1>2, <2>6, BudgetShrinks DEF Raced, Abandon
  <2> QED
    BY <1>4, <2>1, <2>2, <2>3, <2>4, <2>5, <2>6 DEF Handle
<1> QED
  BY <1>3, <1>4 DEF Next

-----------------------------------------------------------------------------
(* The theorems. *)

LEMMA RoomInit == Init => DailyRoom /\ PendingRoom /\ BudgetSpent
<1> SUFFICES ASSUME Init
             PROVE  DailyRoom /\ PendingRoom /\ BudgetSpent
  OBVIOUS
<1>1. Cardinality({}) = 0 /\ Cardinality(Calls) \in Nat
  BY FS_EmptySet, CallsAssumption, FS_CardinalityType
<1>2. /\ \A a \in Accounts, d \in Days : StoredOn(a, d) = {} /\ PastDaily(a, d) = {}
      /\ \A a \in Accounts : PendingOf(a) = {} /\ PastPending(a) = {}
      /\ \A d \in Days : {q \in questions : q.day = d} = {} /\ PastBudget(d) = {}
  BY DEF Init, StoredOn, PastDaily, PendingOf, PastPending, PastBudget, At
<1>3. DailyRoom
  BY <1>1, <1>2, LimitsAssumption DEF DailyRoom
<1>4. PendingRoom
  <2> SUFFICES ASSUME NEW a \in Accounts
               PROVE  Cardinality(PendingOf(a)) + Cardinality(PastPending(a))
                        < PendingLimit + Cardinality(Calls) + renewed[a]
    BY DEF PendingRoom
  <2>1. renewed[a] = 0
    BY DEF Init
  <2>2. Cardinality(PendingOf(a)) = 0 /\ Cardinality(PastPending(a)) = 0
    BY <1>1, <1>2
  <2> QED
    BY <1>1, <2>1, <2>2, LimitsAssumption
<1>5. BudgetSpent
  BY <1>1, <1>2, LimitsAssumption DEF BudgetSpent, Init
<1> QED
  BY <1>3, <1>4, <1>5

\* The inductive invariant of intake: what is stored and what the submissions past
\* a check may still store, together, respect the limits and the budget.
THEOREM IntakeInvariant == Spec => []IInv
<1>1. Init => IInv
  BY BasicsInit, RoomInit DEF IInv, Basics
<1>2. IInv /\ [Next]_vars => IInv'
  BY BasicsStep, DailyStep, PendingStep, BudgetStep DEF IInv, Basics
<1> QED
  BY <1>1, <1>2, PTL DEF Spec

\* The account's daily limit is exceeded by racing submissions only, and by less
\* than there are submissions in flight.
THEOREM DailyBound == Spec => []DailyOvershootBounded
<1>1. IInv => DailyOvershootBounded
  <2> SUFFICES ASSUME IInv, NEW a \in Accounts, NEW d \in Days
               PROVE  Cardinality(StoredOn(a, d)) < DailyLimit + Cardinality(Calls)
    BY DEF DailyOvershootBounded
  <2>1. /\ Cardinality(StoredOn(a, d)) \in Nat /\ Cardinality(PastDaily(a, d)) \in Nat
        /\ Cardinality(Calls) \in Nat
    BY QuestionsFinite, PastFinite, CallsAssumption, FS_CardinalityType DEF IInv, TypeOK
  <2> QED
    BY <2>1, LimitsAssumption DEF IInv, DailyRoom
<1> QED
  BY <1>1, IntakeInvariant, PTL

\* The pending limit, too, apart from the questions that refreshes reopened.
THEOREM PendingBound == Spec => []PendingOvershootBounded
<1>1. IInv => PendingOvershootBounded
  <2> SUFFICES ASSUME IInv, NEW a \in Accounts
               PROVE  Cardinality(PendingOf(a))
                        < PendingLimit + Cardinality(Calls) + renewed[a]
    BY DEF PendingOvershootBounded
  <2>1. /\ Cardinality(PendingOf(a)) \in Nat /\ Cardinality(PastPending(a)) \in Nat
        /\ Cardinality(Calls) \in Nat
    BY QuestionsFinite, PastFinite, CallsAssumption, FS_CardinalityType DEF IInv, TypeOK
  <2>2. renewed[a] \in Nat
    BY DEF IInv, TypeOK
  <2> QED
    BY <2>1, <2>2, LimitsAssumption DEF IInv, PendingRoom
<1> QED
  BY <1>1, IntakeInvariant, PTL

\* The global budget is never exceeded, whatever races and however midnight falls.
THEOREM BudgetBound == Spec => []BudgetBounds
<1>1. IInv => BudgetBounds
  <2> SUFFICES ASSUME IInv, NEW d \in Days
               PROVE  Cardinality(Stored(d)) <= IntakeLimit
    BY DEF BudgetBounds, Stored
  <2>1. Cardinality(Stored(d)) \in Nat /\ Cardinality(PastBudget(d)) \in Nat
    BY QuestionsFinite, PastFinite, FS_CardinalityType DEF IInv, TypeOK, Stored
  <2> QED
    BY <2>1, LimitsAssumption DEF IInv, BudgetSpent, Stored
<1> QED
  BY <1>1, IntakeInvariant, PTL

\* A submission that lost the race for its question is answered with the winner's.
THEOREM RaceFound == Spec => []RacedQuestionIsThere
<1>1. IInv => RacedQuestionIsThere
  BY DEF IInv
<1> QED
  BY <1>1, IntakeInvariant, PTL

\* Every question, submission and counter of the intake has its type, for any number of
\* accounts, submissions and refreshes.
THEOREM IntakeTyped == Spec => []TypeOK
<1>1. IInv => TypeOK
  BY DEF IInv
<1> QED
  BY <1>1, IntakeInvariant, PTL
=============================================================================
