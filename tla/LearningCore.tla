------------------------------ MODULE LearningCore ------------------------------
(***************************************************************************)
(* The learning services beside the card they serve.  A behaviour is that  *)
(* of one card (CardReview), or asks one of the pure services a question   *)
(* and stays there: their properties range over the samples.               *)
(***************************************************************************)
EXTENDS CardReview, Quiz, Grading, LoadForecast

CONSTANTS
    Prompts, Pools, OptionCounts, Formats,      \* for questions
    Contexts, States, Times,                    \* for selections
    Texts, Answers, Policies, Scripts,          \* for gradings
    Counts, Plans, Horizons, Deadlines, Budgets \* for forecasts

\* The right answer is one of those accepted, an answer has one text, and none is
\* the answer "I do not know".
ASSUME QuestionAssumption ==
    /\ OptionCounts \subseteq Int
    /\ \A prompt \in Prompts :
        prompt.correct.text \in prompt.accepted /\ prompt.correct.answer # "idk"
    /\ \A pool \in Pools :
        /\ pool \in Seq(Range(pool))
        /\ \A i \in DOMAIN pool : pool[i].answer # "idk" /\ pool[i].strategies \subseteq DOMAIN Priority
        /\ \A i, j \in DOMAIN pool : pool[i].answer = pool[j].answer => pool[i].text = pool[j].text

\* A card has finitely many siblings and groups, of some time each, and no gap
\* is negative.
ASSUME SelectionAssumption ==
    /\ Times \subseteq Nat
    /\ \A c \in Contexts :
        /\ IsFiniteSet(c.groups) /\ \A g \in c.groups : g.last \in Nat /\ g.gapDays \in Nat
        /\ IsFiniteSet(c.siblings) /\ c.siblings \subseteq Nat
        /\ c.newGap \in Nat /\ c.reviewGap \in Nat

\* Texts are sequences of characters; that an accepted answer is not empty is what
\* the properties of a grading are about.
ASSUME GradingAssumption ==
    /\ \A text \in Texts \cup Answers : text \in Seq(Range(text))
    /\ <<>> \notin Answers

\* Counts of cards and days, and a budget that is none or some.
ASSUME ForecastAssumption ==
    /\ Counts \subseteq Nat /\ Deadlines \subseteq Nat /\ Budgets \subseteq Nat
    /\ Horizons \subseteq Nat \ {0}
    /\ \A plan \in Plans : plan.maxNew \in Int /\ plan.teasers \in Int

VARIABLES
    asking,     \* which service the behaviour is about, or "card"
    sample      \* what it is asked

coreVars == <<reviewVars, asking, sample>>

CoreInit ==
    /\ Init
    /\ \/ asking = "card" /\ sample = None
       \/ /\ asking = "question"
          /\ sample \in [prompt : Prompts, pool : Pools, n : OptionCounts, format : Formats, balance : {0, 4}]
       \/ asking = "selection" /\ sample \in [context : Contexts, state : States, now : Times]
       \/ /\ asking = "grading"
          /\ sample \in [text : Texts, answer : Answers, policy : Policies, script : Scripts]
       \/ /\ asking = "forecast"
          /\ sample \in [selected : Counts, introduced : Counts, plan : Plans, days : Deadlines,
                         budget : Budgets, horizon : Horizons]

CoreNext == asking = "card" /\ Next /\ UNCHANGED <<asking, sample>>

CoreSpec == CoreInit /\ [][CoreNext]_coreVars

-----------------------------------------------------------------------------
(* Properties. *)

\* The options that would be right, whatever the question says.
Right(prompt, c) == c.answer = prompt.correct.answer \/ c.text \in prompt.accepted

\* Every question has its n options, no two of them alike and one of them right,
\* graded so; a learner is refused a question only if the pool has too few
\* harmless answers, and the right one is in turn at every position.
QuestionsSound ==
    asking = "question" =>
        LET s == sample
            questions == Questions(s.prompt, s.pool, s.n, s.format, s.balance)
            harmless == {s.pool[i].text :
                             i \in {j \in Pool(s.pool, s.format) : Safe(s.prompt, s.pool[j])}}
        IN  /\ \A q \in questions :
                /\ Len(q.options) = s.n
                /\ \A i, j \in DOMAIN q.options : i # j =>
                       q.options[i].answer # q.options[j].answer /\ q.options[i].text # q.options[j].text
                /\ \A i \in DOMAIN q.options :
                       /\ Right(s.prompt, q.options[i]) <=> i = q.correct
                       /\ Result(q, q.options[i].answer) = IF i = q.correct THEN "correct" ELSE "wrong"
                /\ CorrectAt(q.nextBalance, s.n) = (IF q.correct = s.n THEN 1 ELSE q.correct + 1)
            /\ CanBuild(s.prompt, s.pool, s.n, s.format) /\ Cardinality(harmless) >= s.n - 1
                   => questions # {}

\* A card that only has to wait is told until when: it may be asked at that
\* time, and at no minute before.
SelectionOpens ==
    asking = "selection" =>
        LET s == sample
            d == Decide(s.context, s.state, s.now)
        IN  /\ d.eligible => ~d.locked /\ d.until = 0
            /\ ~d.eligible /\ ~d.locked =>
                /\ d.until > s.now
                /\ Decide(s.context, s.state, d.until).eligible
                /\ \A t \in s.now..(d.until - 1) : ~Decide(s.context, s.state, t).eligible

\* An accent that normalizing leaves beside the letter it belongs to: removing
\* the punctuation between the two comes after composing.
AccentSetFree(text, policy) ==
    /\ policy.unpunctuated /\ policy.unicode # "none"
    /\ \E i \in DOMAIN text : i + 1 \in DOMAIN text /\ text[i] = Mark /\ text[i + 1] = Combining

\* Grading a text accepts what normalizes to the answer, or to a word of four
\* letters or more that is one typo, and not just an accent, away from it; the
\* text stored normalized is graded like the text, unless removing punctuation
\* set an accent free; and exchanging what is submitted with what is accepted
\* changes nothing.
GradesAgree ==
    asking = "grading" =>
        LET s == sample
            Normal(t) == NormalizeText(t, s.policy)
            n == Normal(s.text)
            a == Normal(s.answer)
            grade == Grade("fuzzy_normalized", s.text, <<s.answer>>, s.policy, s.script)
        IN  /\ ~AccentSetFree(s.text, s.policy) => Normal(n) = n
            /\ grade = IF s.script \notin s.policy.scripts THEN "error"
                       ELSE IF \/ n = a
                               \/ /\ Len(n) >= 4 /\ Len(a) >= 4 /\ WithinOneEdit(n, a)
                                  /\ Bases(n) # Bases(a)
                            THEN "correct" ELSE "wrong"
            /\ s.text # <<>> =>
                   grade = Grade("fuzzy_normalized", s.answer, <<s.text>>, s.policy, s.script)

\* A text stored normalized is normalized, which the code does not keep; see README.
NormalizedForGood ==
    asking = "grading" =>
        LET n == NormalizeText(sample.text, sample.policy) IN NormalizeText(n, sample.policy) = n

\* The forecast agrees with introducing and reviewing the cards one by one, a
\* target date is feasible exactly if the quota reaches it, and each forecast
\* card is either a notification within its budget or left to a session.
ForecastAgrees ==
    asking = "forecast" =>
        LET s == sample
            f == Forecast(s.selected, s.introduced, s.plan, s.days, s.budget, s.horizon)
            quota == s.plan.maxNew
            weekStart == MostOf(1, s.horizon - 6)
        IN  PlanValid(s.plan) =>
            /\ quota = 0 => f.new = 0 /\ f.reviews = 0
            /\ quota > 0 =>
                /\ f.new = Cardinality({c \in 1..f.remaining : DayOf(c, quota) = s.horizon})
                /\ f.reviews = CeilDiv(Cardinality(ReviewsIn(f.remaining, quota, weekStart, s.horizon)),
                                       s.horizon - weekStart + 1)
            /\ s.days > 0 => (f.feasible <=> quota * s.days >= f.remaining)
            /\ f.split.delivered + f.split.active = f.new + f.reviews
            /\ f.split.delivered <= s.budget
=============================================================================
