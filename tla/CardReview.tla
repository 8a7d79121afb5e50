------------------------------- MODULE CardReview -------------------------------
(***************************************************************************)
(* What the learner's answers do to one card: the short learning steps     *)
(* (core/learning.py), the weight an answer is given (core/signals.py) and *)
(* the boxes and intervals of long review (core/review_policy.py).         *)
(*                                                                         *)
(* The callers are free: any call legal in the card's state may come at    *)
(* any time, of a clock that may be set back. A completed sequence of      *)
(* steps is graduated by a second call on the first one's result, which    *)
(* the caller may lose. Minutes are units of time, the difficulty factor   *)
(* is a percentage, and the jitter, a hash of the card, is any of Jitters. *)
(* Mastery is a label derived from what is kept here and is left out, as   *)
(* are the timestamps only displayed.                                      *)
(***************************************************************************)
EXTENDS Integers, Sequences

CONSTANTS
    LearningSteps, RelearningSteps, \* delays, each positive, not decreasing
    BoxInterval,                    \* the base interval of each box
    RelapsePenalty,                 \* boxes lost by a lapse
    VerifiedGateBox,                \* the highest box reached without proof
    Jitters,                        \* per cent, of either sign
    Waits,                          \* how far the clock may move between two calls
    MaxAnswers, MaxTime,            \* bounds on the calls and on the time
    None

StepsValid(steps) ==
    /\ steps \in Seq(Nat \ {0}) /\ steps # <<>>
    /\ \A i, j \in DOMAIN steps : i < j => steps[i] <= steps[j]

ASSUME ReviewAssumption ==
    /\ StepsValid(LearningSteps) /\ StepsValid(RelearningSteps)
    /\ BoxInterval \in Seq(Nat \ {0}) /\ BoxInterval # <<>>
    /\ RelapsePenalty \in Nat /\ VerifiedGateBox \in Nat
    /\ Jitters # {} /\ \A j \in Jitters : j \in Int /\ -25 <= j /\ j <= 25
    /\ \A w \in Waits : w \in Int
    /\ MaxAnswers \in Nat /\ MaxTime \in Nat
    /\ None \notin Nat

VARIABLES
    card,       \* the progress row
    ready,      \* the caller holds a transition that is ready for long review
    now,
    answers,    \* how many calls there were
    proved,     \* history: the last call was a verified success
    earned,     \* history: there was one since the card entered its box or lapsed
    row         \* history: short steps passed in a row, since the first

reviewVars == <<card, ready, now, answers, proved, earned, row>>

NewCard ==
    [state |-> "new", box |-> 0, streak |-> 0, since |-> 0, difficulty |-> 100,
     verifiedAt |-> None, due |-> None]

Init ==
    /\ card = NewCard /\ ready = FALSE
    /\ now = 0 /\ answers = 0
    /\ proved = FALSE /\ earned = FALSE /\ row = 0

Larger(a, b) == IF a < b THEN b ELSE a
Smaller(a, b) == IF a < b THEN a ELSE b
TopBox == Len(BoxInterval)
Called == answers < MaxAnswers /\ answers' = answers + 1

-----------------------------------------------------------------------------
(* Signals: what an interaction means. *)

Modes == {"exposure", "self_assessment_after_retrieval", "verified_mcq",
          "verified_free_text", "verified_cloze", "exam_retrieval"}

\* result: positive and negative stand for the words each mode has for them.
Interactions ==
    [mode : Modes, result : {"positive", "negative", "idk", "unrecognized"},
     retrieved : BOOLEAN, visible : BOOLEAN, hint : BOOLEAN, shared : BOOLEAN, trusted : BOOLEAN]

Decision(outcome, quality, verified, reward) ==
    [outcome |-> outcome, quality |-> quality, verified |-> verified, reward |-> reward]
Neutral == Decision("neutral", "none", FALSE, FALSE)

\* The device may be used by others and is not known to be the learner's.
Trusted(i) == ~i.shared \/ i.trusted

SelfAssessed(i) ==
    IF i.result # "positive" THEN Decision("negative", "weak", FALSE, FALSE)
    ELSE IF i.visible \/ ~i.retrieved THEN Neutral
    ELSE Decision("positive", "weak", FALSE, FALSE)

Quality(i) ==
    IF ~Trusted(i) THEN "reduced"
    ELSE IF i.hint /\ i.result # "idk" THEN "weak"
    ELSE IF i.mode = "verified_mcq" \/ i.result = "idk" THEN "medium" ELSE "strong"

Retrieval(i) ==
    Decision(IF i.result = "positive" THEN "positive" ELSE "negative", Quality(i), Trusted(i),
             i.result = "positive" /\ Trusted(i) /\ ~i.hint)

\* A verified mode without a retrieval is an error.
Meaningful(i) ==
    i.mode \in {"exposure", "self_assessment_after_retrieval"} \/ i.result = "unrecognized" \/ i.retrieved

\* evaluate
Evaluate(i) ==
    IF i.mode = "exposure" \/ i.result = "unrecognized" THEN Neutral
    ELSE IF i.mode = "self_assessment_after_retrieval" THEN SelfAssessed(i)
    ELSE Retrieval(i)

Signals == {[decision |-> Evaluate(i), hint |-> i.hint] : i \in {j \in Interactions : Meaningful(j)}}

-----------------------------------------------------------------------------
(* Short steps. *)

Steps == IF card.state = "learning" THEN LearningSteps ELSE RelearningSteps

\* introduce
Introduce ==
    /\ Called /\ card.state = "new"
    /\ card' = [card EXCEPT !.state = "learning", !.due = now + LearningSteps[1], !.streak = 0]
    /\ ready' = FALSE /\ row' = 0 /\ proved' = FALSE
    /\ UNCHANGED <<now, earned>>

\* learning_result, relearning_result: a failure starts the steps again ...
FailStep ==
    /\ Called /\ card.state \in {"learning", "relearning"}
    /\ card' = [card EXCEPT !.due = now + Steps[1], !.streak = 0]
    /\ ready' = FALSE /\ row' = 0 /\ proved' = FALSE
    /\ UNCHANGED <<now, earned>>

\* ... and after the last one there is no due date until the card graduates.
PassStep ==
    /\ Called /\ card.state \in {"learning", "relearning"}
    /\ LET passed == card.streak + 1 IN
       /\ ready' = (passed >= Len(Steps))
       /\ card' = [card EXCEPT !.streak = passed,
                               !.due = IF passed >= Len(Steps) THEN None ELSE now + Steps[passed + 1]]
    /\ row' = row + 1 /\ proved' = FALSE
    /\ UNCHANGED <<now, earned>>

\* The caller stores the step and forgets its result.
ForgetResult ==
    /\ ready /\ ready' = FALSE
    /\ UNCHANGED <<card, now, answers, proved, earned, row>>

-----------------------------------------------------------------------------
(* Long review. *)

Clamp(difficulty) == Larger(60, Smaller(200, difficulty))
Base(box, difficulty) == (BoxInterval[box] * difficulty) \div 100

\* _jittered_interval
Jittered(interval, j) == Larger(1, (interval * (100 + j)) \div 100)

Elapsed == Larger(0, now - card.verifiedAt)

\* Mutant of SuccessInterval: the jitter may undercut what was demonstrated.
UndercutInterval(box, difficulty, verified, j) ==
    Jittered(IF verified /\ card.verifiedAt # None
             THEN Larger(Base(box, difficulty), Elapsed) ELSE Base(box, difficulty), j)

\* No shorter than the interval the learner has just shown to remember over.
SuccessInterval(box, difficulty, verified, j) ==
    LET floor == IF verified /\ card.verifiedAt # None
                 THEN Larger(Base(box, difficulty), Elapsed) ELSE Base(box, difficulty)
    IN  Larger(floor, Jittered(Base(box, difficulty), j))

\* Mutant of GateSatisfied: any success promotes.
GateOpen(d) == d.outcome = "positive"

\* A box above the gate needs a verified success, now or since the last change.
GateSatisfied(d) ==
    Larger(1, card.box) + 1 > VerifiedGateBox => d.verified \/ card.since > 0

\* review_success
Succeed(d, hint) ==
    LET current == Larger(1, card.box)
        target == IF GateSatisfied(d) THEN Smaller(TopBox, current + 1) ELSE current
        difficulty == IF d.verified /\ d.reward /\ ~hint
                      THEN Clamp((Clamp(card.difficulty) * 105) \div 100) ELSE Clamp(card.difficulty)
    IN  /\ \E j \in Jitters :
               card' = [card EXCEPT
                   !.box = target, !.difficulty = difficulty,
                   !.due = now + SuccessInterval(target, difficulty, d.verified, j),
                   !.streak = @ + 1,
                   !.verifiedAt = IF d.verified THEN now ELSE @,
                   !.since = IF target # current THEN 0 ELSE IF d.verified THEN @ + 1 ELSE @]
        /\ proved' = d.verified
        /\ earned' = (target = current /\ (d.verified \/ earned))
        /\ UNCHANGED row

\* Mutant of Lapsed: the run of successful reviews counts as steps.
LapsedKeepingStreak(d) ==
    [card EXCEPT !.state = "relearning", !.since = 0,
        !.box = IF d.verified THEN Larger(0, @ - RelapsePenalty) ELSE @,
        !.difficulty = IF d.verified THEN Clamp((Clamp(@) * 85) \div 100) ELSE Clamp(@),
        !.verifiedAt = IF d.verified THEN now ELSE @,
        !.due = now + RelearningSteps[1]]

\* review_failure and enter_relearning: only a verified lapse costs boxes.
Lapsed(d) ==
    [card EXCEPT !.state = "relearning", !.since = 0,
        !.box = IF d.verified THEN Larger(0, @ - RelapsePenalty) ELSE @,
        !.difficulty = IF d.verified THEN Clamp((Clamp(@) * 85) \div 100) ELSE Clamp(@),
        !.verifiedAt = IF d.verified THEN now ELSE @,
        !.due = now + RelearningSteps[1], !.streak = 0]

\* apply_review_signal
Review ==
    /\ Called /\ card.state = "review"
    /\ \E s \in Signals :
         \/ s.decision.outcome = "neutral" /\ proved' = FALSE /\ UNCHANGED <<card, earned, row>>
         \/ s.decision.outcome = "positive" /\ Succeed(s.decision, s.hint)
         \/ s.decision.outcome = "negative"
              /\ card' = Lapsed(s.decision)
              /\ proved' = FALSE /\ earned' = FALSE /\ row' = 0
    /\ UNCHANGED <<now, ready>>

\* graduate_short_steps
Graduate ==
    LET box == IF card.state = "learning" THEN 1 ELSE Larger(1, card.box) IN
    /\ Called /\ ready /\ ready' = FALSE
    /\ \E j \in Jitters :
           card' = [card EXCEPT !.state = "review", !.box = box, !.streak = 0,
                       !.due = now + Jittered(Base(box, Clamp(card.difficulty)), j)]
    /\ earned' = (box = card.box /\ earned) /\ proved' = FALSE
    /\ UNCHANGED <<now, row>>

Wait ==
    /\ answers < MaxAnswers
    /\ \E w \in Waits : now' = now + w
    /\ now' \in 0..MaxTime
    /\ UNCHANGED <<card, ready, answers, proved, earned, row>>

Next == Introduce \/ PassStep \/ FailStep \/ ForgetResult \/ Graduate \/ Review \/ Wait

Spec == Init /\ [][Next]_reviewVars

-----------------------------------------------------------------------------
(* Properties. *)

\* A card in long review is in one of the boxes; a card without a due date is
\* new or has passed its last step, and the proof the code counts is real proof.
CardOK ==
    /\ card.state \in {"new", "learning", "review", "relearning"}
    /\ card.box \in 0..TopBox /\ (card.state = "review" => card.box >= 1)
    /\ card.difficulty \in 60..200
    /\ card.streak \in Nat /\ card.since \in Nat /\ now \in Nat
    /\ card.verifiedAt \in Nat \cup {None}
    /\ card.due = None => card.state = "new" \/ (card.state # "review" /\ card.streak >= Len(Steps))
    /\ card.since > 0 => earned

\* No chain of exposures, hints of others or self-assessments takes a card above
\* the gate: each box above it was earned by a verified success in the box before
\* it, after the last lapse ("Boxes above the gate require verified retrieval").
PromotionEarned ==
    [][card'.box > card.box /\ card'.box > Larger(1, VerifiedGateBox)
         => proved' \/ earned]_reviewVars

\* A card comes to long review, first or again after a lapse, only when all its
\* steps were passed one after the other, however reviews, failures and forgotten
\* results came before.
StepsInARow ==
    [][card.state # "review" /\ card'.state = "review"
         => row >= Len(Steps) /\ card'.due # None]_reviewVars

\* After a verified success the card is not asked sooner than the time the
\* learner has just remembered it for, and never before a minute has passed.
DemonstratedInterval ==
    [][card.state = "review" /\ card'.state = "review" /\ card'.streak > card.streak
         => /\ card'.due > now
            /\ (card.verifiedAt # None /\ card'.verifiedAt = now
                  => card'.due - now >= now - card.verifiedAt)]_reviewVars
=============================================================================
