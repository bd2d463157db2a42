--------------------------- MODULE QuestionIntake ---------------------------
(***************************************************************************)
(* Intake of questions (core/question-requests.ts, storeQuestion): a       *)
(* duplicate check, two limits per account, a global budget and the        *)
(* insert, each an await of its own, so that submissions race between any  *)
(* two of them; and the purge of expired questions.                        *)
(*                                                                         *)
(* Time is counted in UTC days.  A submission keeps the day it sampled     *)
(* when it arrived, and may see one midnight before it ends (no Worker     *)
(* runs for a day, and the database refuses a created_at more than 300     *)
(* seconds from its own clock).                                            *)
(***************************************************************************)
EXTENDS Integers, FiniteSets

CONSTANTS
  Accounts,      \* account subjects
  Texts,         \* normalized question texts
  Calls,         \* slots for submissions in flight
  PendingLimit,  \* open questions an account may have: 20
  DailyLimit,    \* questions an account may store on one day: 10
  IntakeLimit,   \* questions stored on one day by all accounts: 1000
  RetentionDays, \* '+90 days'
  MaxDay,        \* bound of the clock in a model
  MaxCharges,    \* bound of a day's budget counter in a model
  MaxRenewed     \* bound of the refreshes of an account in a model

ASSUME CallsAssumption == IsFiniteSet(Calls)
ASSUME LimitsAssumption ==
  /\ {PendingLimit, DailyLimit, IntakeLimit} \subseteq Nat \ {0}
  /\ RetentionDays \in Nat /\ RetentionDays > 1
  /\ {MaxDay, MaxCharges, MaxRenewed} \subseteq Nat \ {0}

VARIABLES
  day,        \* the current UTC day
  questions,  \* question_requests: account, day of created_at, text
  pending,    \* the questions the pending count sees
  budget,     \* budget_counter, the rows named intake:<day>
  renewed,    \* per account, refreshes that reopened a question
  calls       \* submissions in flight

vars == <<day, questions, pending, budget, renewed, calls>>

Days == 1..MaxDay

\* The primary key is a hash of exactly these three, and so is the unique index.
Question == [account: Accounts, day: Days, text: Texts]

Idle == [pc |-> "idle"]

Submission == [pc: {"lookup", "pending", "daily", "budget", "insert", "raced"},
               question: Question]

-----------------------------------------------------------------------------
Init ==
  /\ day = 1
  /\ questions = {}
  /\ pending = {}
  /\ budget = [d \in Days |-> 0]
  /\ renewed = [a \in Accounts |-> 0]
  /\ calls = [c \in Calls |-> Idle]

\* Midnight. No submission lives to see a second one.
NextDay ==
  /\ day < MaxDay
  /\ \A c \in Calls : calls[c] # Idle => calls[c].question.day = day
  /\ day' = day + 1
  /\ UNCHANGED <<questions, pending, budget, renewed, calls>>

StoredOn(a, d) == {q \in questions : q.account = a /\ q.day = d}

PendingOf(a) == {q \in pending : q.account = a}

At(c, pc) == calls[c] # Idle /\ calls[c].pc = pc

Goto(c, pc) == calls' = [calls EXCEPT ![c].pc = pc]

\* The submission is answered, whatever the answer.
Answer(c) == calls' = [calls EXCEPT ![c] = Idle]

Submit(c, a, text) ==
  /\ calls[c] = Idle
  /\ calls' = [calls EXCEPT ![c] =
       [pc |-> "lookup", question |-> [account |-> a, day |-> day, text |-> text]]]
  /\ UNCHANGED <<day, questions, pending, budget, renewed>>

\* A question stored before is answered with its id and costs nothing.
LookUp(c) ==
  /\ At(c, "lookup")
  /\ IF calls[c].question \in questions THEN Answer(c) ELSE Goto(c, "pending")
  /\ UNCHANGED <<day, questions, pending, budget, renewed>>

\* Mutant: one open question too many.
CountPendingLate(c) ==
  /\ At(c, "pending")
  /\ IF Cardinality(PendingOf(calls[c].question.account)) > PendingLimit
     THEN Answer(c) ELSE Goto(c, "daily")
  /\ UNCHANGED <<day, questions, pending, budget, renewed>>

CountPending(c) ==
  /\ At(c, "pending")
  /\ IF Cardinality(PendingOf(calls[c].question.account)) >= PendingLimit
     THEN Answer(c) ELSE Goto(c, "daily")
  /\ UNCHANGED <<day, questions, pending, budget, renewed>>

\* Mutant: counts the questions of the day it has become meanwhile.
CountToday(c) ==
  /\ At(c, "daily")
  /\ IF Cardinality(StoredOn(calls[c].question.account, day)) >= DailyLimit
     THEN Answer(c) ELSE Goto(c, "budget")
  /\ UNCHANGED <<day, questions, pending, budget, renewed>>

CountDaily(c) ==
  /\ At(c, "daily")
  /\ IF Cardinality(StoredOn(calls[c].question.account, calls[c].question.day)) >= DailyLimit
     THEN Answer(c) ELSE Goto(c, "budget")
  /\ UNCHANGED <<day, questions, pending, budget, renewed>>

\* Mutant: charges the day it has become meanwhile.
ChargeToday(c) ==
  /\ At(c, "budget")
  /\ budget[day] < MaxCharges
  /\ budget' = [budget EXCEPT ![day] = @ + 1]
  /\ IF budget'[day] > IntakeLimit THEN Answer(c) ELSE Goto(c, "insert")
  /\ UNCHANGED <<day, questions, pending, renewed>>

\* The atomic upsert: the unit is spent before the insert, and not given back.
ChargeBudget(c) ==
  LET d == calls[c].question.day IN
  /\ At(c, "budget")
  /\ budget[d] < MaxCharges
  /\ budget' = [budget EXCEPT ![d] = @ + 1]
  /\ IF budget'[d] > IntakeLimit THEN Answer(c) ELSE Goto(c, "insert")
  /\ UNCHANGED <<day, questions, pending, renewed>>

\* question_requests_no_replace ignores the insert of a question that is there.
Insert(c) ==
  /\ At(c, "insert")
  /\ IF calls[c].question \in questions
     THEN /\ Goto(c, "raced")
          /\ UNCHANGED <<questions, pending>>
     ELSE /\ questions' = questions \cup {calls[c].question}
          /\ pending' = pending \cup {calls[c].question}
          /\ Answer(c)
  /\ UNCHANGED <<day, budget, renewed>>

\* The second lookup names the question that won, or the answer is an error.
Raced(c) ==
  /\ At(c, "raced")
  /\ Answer(c)
  /\ UNCHANGED <<day, questions, pending, budget, renewed>>

\* A storage error, an aborted insert or a lost Worker.
Abandon(c) ==
  /\ calls[c] # Idle
  /\ Answer(c)
  /\ UNCHANGED <<day, questions, pending, budget, renewed>>

\* The question leaves the pending count: answered, released, failed, expired.
Settle(q) ==
  /\ q \in pending
  /\ pending' = pending \ {q}
  /\ UNCHANGED <<day, questions, budget, renewed, calls>>

\* refreshQuestionResult asks for confirmation again, without looking at the
\* pending limit.
Refresh(q) ==
  /\ q \in questions \ pending
  /\ day <= q.day + RetentionDays
  /\ renewed[q.account] < MaxRenewed
  /\ pending' = pending \cup {q}
  /\ renewed' = [renewed EXCEPT ![q.account] = @ + 1]
  /\ UNCHANGED <<day, questions, budget, calls>>

Expired == {q \in questions : q.day + RetentionDays <= day}

\* Mutant: the result of a purged question is left behind.
PurgeQuestionsOnly ==
  \E page \in SUBSET Expired :
    /\ page # {}
    /\ questions' = questions \ page
    /\ UNCHANGED <<day, pending, budget, renewed, calls>>

\* Mutant: settled questions need not wait for their expiry.
PurgeSettled ==
  \E page \in SUBSET (questions \ pending) :
    /\ page # {}
    /\ questions' = questions \ page
    /\ UNCHANGED <<day, pending, budget, renewed, calls>>

\* QUESTION_REQUEST_PURGE_SQL deletes a bounded batch of expired questions, and
\* with them, by cascade, their results.
Purge ==
  \E page \in SUBSET Expired :
    /\ page # {}
    /\ questions' = questions \ page
    /\ pending' = pending \ page
    /\ UNCHANGED <<day, budget, renewed, calls>>

Handle(c) ==
  \/ \E a \in Accounts, text \in Texts : Submit(c, a, text)
  \/ LookUp(c)
  \/ CountPending(c)
  \/ CountDaily(c)
  \/ ChargeBudget(c)
  \/ Insert(c)
  \/ Raced(c)
  \/ Abandon(c)

Next ==
  \/ NextDay
  \/ \E c \in Calls : Handle(c)
  \/ \E q \in questions : Settle(q) \/ Refresh(q)
  \/ Purge

Spec == Init /\ [][Next]_vars

-----------------------------------------------------------------------------
(* Properties. *)

\* Stored questions, budgets and submissions in flight are well formed, and only
\* a stored question is pending.
TypeOK ==
  /\ day \in Days
  /\ questions \subseteq Question
  /\ pending \subseteq questions
  /\ budget \in [Days -> Nat]
  /\ renewed \in [Accounts -> Nat]
  /\ calls \in [Calls -> Submission \cup {Idle}]

\* The daily limit is counted before the insert, so racing submissions of one
\* account exceed it; by no more than the submissions that are in flight at once.
DailyOvershootBounded ==
  \A a \in Accounts, d \in Days :
    Cardinality(StoredOn(a, d)) < DailyLimit + Cardinality(Calls)

\* The same of the pending limit, beyond which only refreshes of old questions
\* can go.
PendingOvershootBounded ==
  \A a \in Accounts :
    Cardinality(PendingOf(a)) < PendingLimit + Cardinality(Calls) + renewed[a]

\* The global budget is exact, unlike the limits: however submissions race, and
\* also around midnight, no day stores more questions than its budget.
BudgetBounds ==
  \A d \in Days : Cardinality({q \in questions : q.day = d}) <= IntakeLimit

\* A submission that lost the race for its question finds it: the answer is the
\* winner's id, never an error.
RacedQuestionIsThere ==
  \A c \in Calls : At(c, "raced") => calls[c].question \in questions

-----------------------------------------------------------------------------
(* The inductive invariant: what the submissions past a check will add. *)

PastDaily(a, d) ==
  {c \in Calls : /\ calls[c] # Idle /\ calls[c].pc \in {"budget", "insert"}
                 /\ calls[c].question.account = a /\ calls[c].question.day = d}

PastPending(a) ==
  {c \in Calls : /\ calls[c] # Idle /\ calls[c].pc \in {"daily", "budget", "insert"}
                 /\ calls[c].question.account = a}

PastBudget(d) == {c \in Calls : At(c, "insert") /\ calls[c].question.day = d}

DailyRoom ==
  \A a \in Accounts, d \in Days :
    Cardinality(StoredOn(a, d)) + Cardinality(PastDaily(a, d))
      < DailyLimit + Cardinality(Calls)

PendingRoom ==
  \A a \in Accounts :
    Cardinality(PendingOf(a)) + Cardinality(PastPending(a))
      < PendingLimit + Cardinality(Calls) + renewed[a]

BudgetSpent ==
  \A d \in Days :
    LET n == Cardinality({q \in questions : q.day = d}) + Cardinality(PastBudget(d))
    IN n <= budget[d] /\ n <= IntakeLimit

\* A submission in flight is of today, or saw one midnight.
Timely == \A c \in Calls : calls[c] # Idle => calls[c].question.day \in {day - 1, day}

IInv ==
  /\ TypeOK
  /\ IsFiniteSet(questions)
  /\ Timely
  /\ DailyRoom
  /\ PendingRoom
  /\ BudgetSpent
  /\ RacedQuestionIsThere
=============================================================================
