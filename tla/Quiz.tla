---------------------------------- MODULE Quiz ----------------------------------
(***************************************************************************)
(* The choice of what to ask: quiz questions with their distractors        *)
(* (core/quiz.py) and whether a card may be asked now (core/selection.py), *)
(* as functions of their arguments.  Distractors of one priority come in   *)
(* an order given by a hash: any order.                                    *)
(***************************************************************************)
EXTENDS Integers, Sequences, FiniteSets, SequencesExt

Priority == [confusable |-> 0, similar |-> 1, type |-> 2, tag |-> 3, level |-> 4, fallback |-> 5]

\* SelectionConstraintService.confusable_distractors_allowed
ConfusablesAllowed(state) == state = "review"

\* _eligible_distractors, but for duplicates: c does not answer the prompt.
Safe(prompt, c) ==
    /\ c.answer # prompt.correct.answer
    /\ c.item # prompt.item
    /\ c.answer \notin prompt.siblings
    /\ c.text \notin prompt.accepted
    /\ c.concepts \cap prompt.concepts = {}
    /\ c.synonyms \cap prompt.synonyms = {}
    /\ "confusable" \in c.strategies => ConfusablesAllowed(prompt.state)

\* A cloze question takes its options from grammar cards only: the places in the
\* pool of those it may take.
Pool(pool, format) ==
    {i \in DOMAIN pool : format = "cloze_mcq" => pool[i].type = "grammar"}

\* Mutant of Eligible: two answers that read the same are both offered.
EligibleSameText(prompt, pool, places) ==
    LET taken[i \in places] ==
            /\ Safe(prompt, pool[i])
            /\ \A j \in {k \in places : k < i} : pool[j].answer = pool[i].answer => ~taken[j]
    IN  {pool[i] : i \in {k \in places : taken[k]}}

\* _eligible_distractors: of those that are, or read, the same, the first.
Eligible(prompt, pool, places) ==
    LET taken[i \in places] ==
            /\ Safe(prompt, pool[i])
            /\ \A j \in {k \in places : k < i} :
                  pool[j].answer = pool[i].answer \/ pool[j].text = pool[i].text => ~taken[j]
    IN  {pool[i] : i \in {k \in places : taken[k]}}

\* _candidate_rank, without the hash that settles ties
Rank(c) ==
    IF c.strategies = {} THEN Priority.fallback
    ELSE CHOOSE r \in 0..5 : /\ \E s \in c.strategies : Priority[s] = r
                             /\ \A s \in c.strategies : r <= Priority[s]

\* The first n - 1 by rank, in any of the orders the hash may give.
Rankings(eligible, n) ==
    {chosen \in [1..(n - 1) -> eligible] :
        /\ \A i, j \in 1..(n - 1) : i < j => chosen[i] # chosen[j] /\ Rank(chosen[i]) <= Rank(chosen[j])
        /\ \A c \in eligible \ Range(chosen) : Rank(chosen[n - 1]) <= Rank(c)}

CanBuild(prompt, pool, n, format) ==
    /\ n \in 4..6
    /\ format = "cloze_mcq" => prompt.type = "grammar" /\ prompt.cloze

\* The right answer takes each position in turn.
CorrectAt(balance, n) == (balance % n) + 1

\* build_question: every question it may build, none when it refuses.
Questions(prompt, pool, n, format, balance) ==
    LET eligible == Eligible(prompt, pool, Pool(pool, format))
        at == CorrectAt(balance, n)
    IN  IF ~CanBuild(prompt, pool, n, format) \/ Cardinality(eligible) < n - 1 THEN {}
        ELSE {[options |-> InsertAt(chosen, at, prompt.correct), correct |-> at,
               nextBalance |-> at % n] : chosen \in Rankings(eligible, n)}

\* _result; answering with what is no option is an error.
Result(question, answer) ==
    IF answer = "idk" THEN "idk"
    ELSE IF answer = question.options[question.correct].answer THEN "correct" ELSE "wrong"

-----------------------------------------------------------------------------
(* Selection constraints.  Times are minutes; None where nothing happened. *)

MinutesPerDay == 1440

\* _metric_value: a prerequisite is a record of its metrics, if known.
PrerequisitesMet(context) ==
    \A p \in context.prerequisites :
        /\ p.known
        /\ IF context.conditions = {} THEN p.seen >= 1
           ELSE \A c \in context.conditions : p[c.metric] >= c.minimum

\* _confusable_blocks: when the groups of a card were introduced, plus their gaps
ConfusableUntil(context, now) ==
    {t \in {g.last + g.gapDays * MinutesPerDay : g \in context.groups} : now < t}

\* _sibling_block
SiblingUntil(context, state, now) ==
    IF state \notin {"new", "review"} \/ context.siblings = {} THEN {}
    ELSE {t \in {s + (IF state = "new" THEN context.newGap ELSE context.reviewGap) :
                    s \in context.siblings} : now < t}

\* Mutant of Decide: the first gap to end opens the card.
DecideFirst(context, state, now) ==
    LET blocks == SiblingUntil(context, state, now) \cup
                  (IF state = "new" THEN ConfusableUntil(context, now) ELSE {})
        locked == state = "new" /\ ~PrerequisitesMet(context)
    IN  [eligible |-> ~locked /\ blocks = {}, locked |-> locked,
         until |-> IF blocks = {} THEN 0 ELSE CHOOSE t \in blocks : \A u \in blocks : t <= u]

\* async_evaluate
Decide(context, state, now) ==
    LET blocks == SiblingUntil(context, state, now) \cup
                  (IF state = "new" THEN ConfusableUntil(context, now) ELSE {})
        locked == state = "new" /\ ~PrerequisitesMet(context)
    IN  [eligible |-> ~locked /\ blocks = {}, locked |-> locked,
         until |-> IF blocks = {} THEN 0 ELSE CHOOSE t \in blocks : \A u \in blocks : t >= u]
=============================================================================
