-------------------------- MODULE LearningCore_proofs --------------------------
(***************************************************************************)
(* Proofs about the learning core.                                         *)
(*                                                                         *)
(* One card, for every table of steps and boxes, any penalty, gate and     *)
(* jitter, any movement of the clock and any sequence of calls.  CardOK is *)
(* not inductive: it does not say that a caller holds a complete           *)
(* transition only while the card is still in short steps, nor that the    *)
(* proof counted for a box is gone when the card leaves long review.       *)
(*                                                                         *)
(* Its services, for every sample they may be asked about: selections,     *)
(* the comparison of two texts, gradings, forecasts and questions.  What a *)
(* recursive function computes is found by looking at the least number it  *)
(* would fail at.                                                          *)
(***************************************************************************)
EXTENDS LearningCore, FiniteSetTheorems, WellFoundedInduction, SequenceTheorems, TLAPS

-----------------------------------------------------------------------------
(* One card. *)

Cards ==
    [state : {"new", "learning", "review", "relearning"}, box : 0..TopBox, streak : Nat,
     since : Nat, difficulty : 60..200, verifiedAt : Nat \cup {None}, due : Nat \cup {None}]

CardTypeOK ==
    /\ card \in Cards
    /\ now \in Nat /\ answers \in Nat /\ row \in Nat

\* The streak of a card in short steps is a run of steps passed in a row.
StepsCounted ==
    /\ card.state \in {"learning", "relearning"} => row >= card.streak
    /\ ready => card.state \in {"learning", "relearning"} /\ card.streak >= Len(Steps)

\* Proof is counted in long review only, and real.
ProofCounted ==
    /\ card.state # "review" => card.since = 0
    /\ card.since > 0 => earned

DueOK ==
    /\ card.state = "review" => card.box >= 1 /\ card.due # None
    /\ card.due = None => card.state = "new" \/ (card.state # "review" /\ card.streak >= Len(Steps))

CardInv == CardTypeOK /\ StepsCounted /\ ProofCounted /\ DueOK

-----------------------------------------------------------------------------
(* Helpers *)


LEMMA StepsPositive ==
    ASSUME NEW steps, StepsValid(steps)
    PROVE  /\ Len(steps) \in Nat /\ Len(steps) >= 1
           /\ \A i \in 1..Len(steps) : steps[i] \in Nat /\ steps[i] >= 1
BY DEF StepsValid

LEMMA BoxesPositive ==
    /\ TopBox \in Nat /\ TopBox >= 1
    /\ \A b \in 1..TopBox : BoxInterval[b] \in Nat /\ BoxInterval[b] >= 1
BY ReviewAssumption DEF ReviewAssumption, TopBox

LEMMA StepsOfCard ==
    /\ Len(LearningSteps) \in Nat /\ Len(LearningSteps) >= 1
    /\ Len(RelearningSteps) \in Nat /\ Len(RelearningSteps) >= 1
    /\ LearningSteps[1] \in Nat /\ RelearningSteps[1] \in Nat
    /\ Steps \in {LearningSteps, RelearningSteps}
    /\ Len(Steps) \in Nat /\ Len(Steps) >= 1
    /\ \A i \in 1..Len(Steps) : Steps[i] \in Nat
<1>1. StepsValid(LearningSteps) /\ StepsValid(RelearningSteps)
    BY ReviewAssumption DEF ReviewAssumption
<1>2. Steps \in {LearningSteps, RelearningSteps} BY DEF Steps
<1> QED BY <1>1, <1>2, StepsPositive

LEMMA LargerSmaller ==
    ASSUME NEW a \in Int, NEW b \in Int
    PROVE  /\ Larger(a, b) \in Int /\ Larger(a, b) >= a /\ Larger(a, b) >= b
           /\ Larger(a, b) \in {a, b}
           /\ Smaller(a, b) \in Int /\ Smaller(a, b) <= a /\ Smaller(a, b) <= b
           /\ Smaller(a, b) \in {a, b}
BY DEF Larger, Smaller

LEMMA ClampRange == ASSUME NEW d \in Int PROVE Clamp(d) \in 60..200
BY DEF Clamp, Larger, Smaller

LEMMA JitteredPositive ==
    ASSUME NEW i \in Nat, NEW j \in Jitters
    PROVE  Jittered(i, j) \in Nat /\ Jittered(i, j) >= 1
<1>1. j \in Int BY ReviewAssumption DEF ReviewAssumption
<1>2. i * (100 + j) \in Int BY <1>1
<1> DEFINE x == (i * (100 + j)) \div 100
<1>3. x \in Int BY <1>2
<1>4. Jittered(i, j) = Larger(1, x) BY DEF Jittered
<1> HIDE DEF x
<1>5. Larger(1, x) \in Int /\ Larger(1, x) >= 1 BY <1>3, LargerSmaller
<1> QED BY <1>4, <1>5

LEMMA BaseNat ==
    ASSUME NEW b \in 1..TopBox, NEW d \in 60..200
    PROVE  Base(b, d) \in Nat
<1>1. BoxInterval[b] \in Nat BY BoxesPositive
<1>2. BoxInterval[b] * d \in Nat BY <1>1
<1> QED BY <1>2 DEF Base

LEMMA SignalType ==
    ASSUME NEW s \in Signals
    PROVE  /\ s.decision.verified \in BOOLEAN
           /\ s.decision.outcome \in {"neutral", "positive", "negative"}
<1>1. PICK i \in Interactions : s = [decision |-> Evaluate(i), hint |-> i.hint] BY DEF Signals
<1>2. Trusted(i) \in BOOLEAN BY DEF Trusted
<1>3. /\ Evaluate(i).verified \in BOOLEAN
      /\ Evaluate(i).outcome \in {"neutral", "positive", "negative"}
    BY <1>2 DEF Evaluate, Neutral, SelfAssessed, Retrieval, Decision
<1> QED BY <1>1, <1>3

\* The interval after a success, from a box and a difficulty in range.
LEMMA SuccessIntervalBounds ==
    ASSUME CardTypeOK, NEW b \in 1..TopBox, NEW d \in 60..200, NEW v \in BOOLEAN, NEW j \in Jitters
    PROVE  /\ SuccessInterval(b, d, v, j) \in Nat /\ SuccessInterval(b, d, v, j) >= 1
           /\ v /\ card.verifiedAt # None => SuccessInterval(b, d, v, j) >= now - card.verifiedAt
<1> DEFINE base == Base(b, d)
           jittered == Jittered(base, j)
           floor == IF v /\ card.verifiedAt # None THEN Larger(base, Elapsed) ELSE base
<1>1. base \in Nat BY BaseNat
<1>2. jittered \in Nat /\ jittered >= 1 BY <1>1, JitteredPositive
<1>3. card.verifiedAt # None =>
        Elapsed \in Int /\ Elapsed >= now - card.verifiedAt /\ card.verifiedAt \in Nat
    <2> SUFFICES ASSUME card.verifiedAt # None
                 PROVE  Elapsed \in Int /\ Elapsed >= now - card.verifiedAt /\ card.verifiedAt \in Nat
        OBVIOUS
    <2>1. card.verifiedAt \in Nat /\ now \in Nat BY DEF CardTypeOK, Cards
    <2> DEFINE e == now - card.verifiedAt
    <2>2. e \in Int BY <2>1
    <2>3. Elapsed = Larger(0, e) BY DEF Elapsed
    <2> HIDE DEF e
    <2>4. Larger(0, e) \in Int /\ Larger(0, e) >= e BY <2>2, LargerSmaller
    <2> QED BY <2>1, <2>3, <2>4 DEF e
<1>4. floor \in Int /\ (v /\ card.verifiedAt # None => floor >= Elapsed)
    BY <1>1, <1>3, LargerSmaller
<1>5. SuccessInterval(b, d, v, j) = Larger(floor, jittered) BY DEF SuccessInterval
<1>6. now \in Nat BY DEF CardTypeOK
<1> HIDE DEF floor, jittered, base
<1>7. Larger(floor, jittered) \in Int /\ Larger(floor, jittered) >= floor /\ Larger(floor, jittered) >= jittered
    BY <1>2, <1>4, LargerSmaller
<1> QED BY <1>2, <1>3, <1>4, <1>5, <1>6, <1>7

-----------------------------------------------------------------------------
(* The invariant *)

LEMMA InitInv == Init => CardInv
<1> SUFFICES ASSUME Init PROVE CardInv OBVIOUS
<1>1. NewCard \in Cards BY BoxesPositive DEF NewCard, Cards
<1>2. CardTypeOK BY <1>1 DEF Init, CardTypeOK
<1>3. StepsCounted /\ ProofCounted /\ DueOK
    BY DEF Init, NewCard, StepsCounted, ProofCounted, DueOK
<1> QED BY <1>2, <1>3 DEF CardInv

LEMMA IntroduceInv == CardInv /\ Introduce => CardInv'
<1> SUFFICES ASSUME CardInv, Introduce PROVE CardInv' OBVIOUS
<1>1. card' = [card EXCEPT !.state = "learning", !.due = now + LearningSteps[1], !.streak = 0]
    BY DEF Introduce
<1>2. now + LearningSteps[1] \in Nat BY StepsOfCard DEF CardInv, CardTypeOK
<1>3. card' \in Cards BY <1>1, <1>2 DEF CardInv, CardTypeOK, Cards
<1>4. card'.state = "learning" /\ card'.streak = 0 /\ card'.since = card.since /\ card'.due # None
    BY <1>1, <1>2, ReviewAssumption DEF CardInv, CardTypeOK, Cards, ReviewAssumption
<1>5. CardTypeOK' BY <1>3 DEF Introduce, Called, CardInv, CardTypeOK
<1>6. StepsCounted' BY <1>4 DEF Introduce, StepsCounted
<1>7. ProofCounted' BY <1>4 DEF Introduce, CardInv, ProofCounted
<1>8. DueOK' BY <1>4 DEF DueOK
<1> QED BY <1>5, <1>6, <1>7, <1>8 DEF CardInv

LEMMA FailStepInv == CardInv /\ FailStep => CardInv'
<1> SUFFICES ASSUME CardInv, FailStep PROVE CardInv' OBVIOUS
<1>1. card' = [card EXCEPT !.due = now + Steps[1], !.streak = 0] BY DEF FailStep
<1>2. now + Steps[1] \in Nat BY StepsOfCard DEF CardInv, CardTypeOK
<1>3. card' \in Cards BY <1>1, <1>2 DEF CardInv, CardTypeOK, Cards
<1>4. card'.state = card.state /\ card'.streak = 0 /\ card'.since = card.since /\ card'.due # None
    BY <1>1, <1>2, ReviewAssumption DEF CardInv, CardTypeOK, Cards, ReviewAssumption
<1>5. CardTypeOK' BY <1>3 DEF FailStep, Called, CardInv, CardTypeOK
<1>6. StepsCounted' BY <1>4 DEF FailStep, StepsCounted
<1>7. ProofCounted' BY <1>4 DEF FailStep, CardInv, ProofCounted
<1>8. DueOK' BY <1>4 DEF DueOK, FailStep
<1> QED BY <1>5, <1>6, <1>7, <1>8 DEF CardInv

LEMMA PassStepInv == CardInv /\ PassStep => CardInv'
<1> SUFFICES ASSUME CardInv, PassStep PROVE CardInv' OBVIOUS
<1> DEFINE passed == card.streak + 1
           due == IF passed >= Len(Steps) THEN None ELSE now + Steps[passed + 1]
<1>1. card' = [card EXCEPT !.streak = passed, !.due = due] BY DEF PassStep
<1>2. passed \in Nat /\ passed >= 1 /\ card.streak \in Nat /\ now \in Nat /\ row \in Nat
    BY DEF CardInv, CardTypeOK, Cards
<1>3. due \in Nat \cup {None} /\ (due = None => passed >= Len(Steps))
    <2>1. CASE passed >= Len(Steps) BY <2>1
    <2>2. CASE ~(passed >= Len(Steps))
        <3>1. passed + 1 \in 1..Len(Steps) BY <2>2, <1>2, StepsOfCard
        <3>2. Steps[passed + 1] \in Nat BY <3>1, StepsOfCard
        <3>3. due = now + Steps[passed + 1] BY <2>2
        <3>4. due \in Nat BY <3>2, <3>3, <1>2
        <3> QED BY <3>4, ReviewAssumption DEF ReviewAssumption
    <2> QED BY <2>1, <2>2
<1> HIDE DEF due
<1>4. card' \in Cards BY <1>1, <1>2, <1>3 DEF CardInv, CardTypeOK, Cards
<1>5. card'.state = card.state /\ card'.streak = passed /\ card'.since = card.since /\ card'.due = due
    BY <1>1 DEF CardInv, CardTypeOK, Cards
<1>6. Steps' = Steps BY <1>5 DEF Steps
<1>7. CardTypeOK'
    BY <1>2, <1>4 DEF PassStep, Called, CardInv, CardTypeOK
<1>8. StepsCounted'
    <2>1. row' = row + 1 /\ (ready' => passed >= Len(Steps)) /\ card.state \in {"learning", "relearning"}
        BY DEF PassStep
    <2>2. row >= card.streak BY <2>1 DEF CardInv, StepsCounted
    <2> QED BY <1>2, <1>5, <1>6, <2>1, <2>2 DEF StepsCounted
<1>9. ProofCounted' BY <1>5 DEF PassStep, CardInv, ProofCounted
<1>10. DueOK' BY <1>3, <1>5, <1>6 DEF DueOK, PassStep
<1> QED BY <1>7, <1>8, <1>9, <1>10 DEF CardInv

LEMMA ForgetInv == CardInv /\ ForgetResult => CardInv'
<1> SUFFICES ASSUME CardInv, ForgetResult PROVE CardInv' OBVIOUS
<1>1. CardTypeOK' BY DEF CardInv, CardTypeOK, ForgetResult
<1>2. StepsCounted' BY DEF CardInv, StepsCounted, ForgetResult
<1>3. ProofCounted' /\ DueOK' BY DEF CardInv, ProofCounted, DueOK, ForgetResult, Steps
<1> QED BY <1>1, <1>2, <1>3 DEF CardInv

LEMMA WaitInv == CardInv /\ Wait => CardInv'
<1> SUFFICES ASSUME CardInv, Wait PROVE CardInv' OBVIOUS
<1>1. now' \in Nat BY ReviewAssumption DEF Wait, ReviewAssumption
<1>2. CardTypeOK' BY <1>1 DEF CardInv, CardTypeOK, Wait
<1>3. StepsCounted' /\ ProofCounted' /\ DueOK'
    BY DEF CardInv, StepsCounted, ProofCounted, DueOK, Wait, Steps
<1> QED BY <1>2, <1>3 DEF CardInv

-----------------------------------------------------------------------------
(* Long review *)

\* What a success does, with its decision d, hint and jitter j.
Target(d) == IF GateSatisfied(d) THEN Smaller(TopBox, Larger(1, card.box) + 1) ELSE Larger(1, card.box)

LEMMA TargetBox ==
    ASSUME CardTypeOK, card.box >= 1, NEW d
    PROVE  /\ Larger(1, card.box) = card.box
           /\ Target(d) \in 1..TopBox /\ Target(d) \in {card.box, card.box + 1}
           /\ Target(d) # card.box => GateSatisfied(d)
<1>1. card.box \in 1..TopBox BY BoxesPositive DEF CardTypeOK, Cards
<1>2. Larger(1, card.box) = card.box BY <1>1, BoxesPositive DEF Larger
<1>3. TopBox \in Nat BY BoxesPositive
<1> QED BY <1>1, <1>2, <1>3 DEF Target, Smaller

\* The card after a success, whatever the signal.
LEMMA SuccessCard ==
    ASSUME CardInv, card.state = "review", NEW d, d.verified \in BOOLEAN, NEW hint, Succeed(d, hint)
    PROVE  /\ card' \in Cards
           /\ card'.state = "review" /\ card'.box = Target(d) /\ card'.due # None
           /\ card'.since > 0 => d.verified \/ (Target(d) = card.box /\ card.since > 0)
           /\ card'.since > 0 => Target(d) = card.box
           /\ card'.due > now
           /\ card'.verifiedAt = (IF d.verified THEN now ELSE card.verifiedAt)
           /\ d.verified /\ card.verifiedAt # None => card'.due - now >= now - card.verifiedAt
<1> DEFINE difficulty == IF d.verified /\ d.reward /\ ~hint
                         THEN Clamp((Clamp(card.difficulty) * 105) \div 100) ELSE Clamp(card.difficulty)
           interval(j) == SuccessInterval(Target(d), difficulty, d.verified, j)
<1>1. CardTypeOK /\ card.box >= 1 BY DEF CardInv, DueOK
<1>2. /\ card.box \in Nat /\ card.streak \in Nat /\ card.since \in Nat /\ card.difficulty \in 60..200
      /\ card.verifiedAt \in Nat \cup {None} /\ now \in Nat
    BY <1>1, BoxesPositive DEF CardTypeOK, Cards
<1>3. difficulty \in 60..200
    <2>0. card.difficulty \in Int BY <1>2
    <2>1. Clamp(card.difficulty) \in 60..200 BY <2>0, ClampRange
    <2>2. (Clamp(card.difficulty) * 105) \div 100 \in Int BY <2>1
    <2>3. Clamp((Clamp(card.difficulty) * 105) \div 100) \in 60..200 BY <2>2, ClampRange
    <2> QED BY <2>1, <2>3
<1>4. Larger(1, card.box) = card.box /\ Target(d) \in 1..TopBox BY <1>1, TargetBox
<1> DEFINE seen == IF d.verified THEN now ELSE card.verifiedAt
           since == IF Target(d) # Larger(1, card.box) THEN 0
                    ELSE IF d.verified THEN card.since + 1 ELSE card.since
<1>5. PICK j \in Jitters :
        card' = [card EXCEPT
            !.box = Target(d), !.difficulty = difficulty, !.due = now + interval(j),
            !.streak = card.streak + 1, !.verifiedAt = seen, !.since = since]
    BY Zenon DEF Succeed, Target
<1> HIDE DEF difficulty
<1>6. /\ interval(j) \in Nat /\ interval(j) >= 1
      /\ d.verified /\ card.verifiedAt # None => interval(j) >= now - card.verifiedAt
    BY <1>1, <1>3, <1>4, SuccessIntervalBounds
<1> HIDE DEF interval
<1>7. now + interval(j) \in Nat /\ now + interval(j) > now /\ now + interval(j) # None
    BY <1>2, <1>6, ReviewAssumption DEF ReviewAssumption
<1>8. since \in Nat /\ seen \in Nat \cup {None} /\ card.streak + 1 \in Nat BY <1>2
<1>9. Target(d) \in 0..TopBox BY <1>4, BoxesPositive
<1>10. card \in Cards BY <1>1 DEF CardTypeOK
<1> HIDE DEF since, seen
<1>11. /\ card'.state = "review" /\ card'.box = Target(d) /\ card'.due = now + interval(j)
       /\ card'.verifiedAt = seen /\ card'.since = since
    BY <1>3, <1>5, <1>10 DEF Cards
<1>12. card' \in Cards BY <1>3, <1>5, <1>7, <1>8, <1>9, <1>10 DEF Cards
<1>13. d.verified /\ card.verifiedAt # None => card'.due - now >= now - card.verifiedAt
    BY <1>2, <1>6, <1>11
<1> QED BY <1>2, <1>4, <1>7, <1>11, <1>12, <1>13 DEF since, seen

LEMMA LapsedCard ==
    ASSUME CardInv, NEW d, d.verified \in BOOLEAN
    PROVE  /\ Lapsed(d) \in Cards
           /\ Lapsed(d).state = "relearning" /\ Lapsed(d).streak = 0 /\ Lapsed(d).since = 0
           /\ Lapsed(d).due # None /\ Lapsed(d).box <= card.box
<1> DEFINE box == IF d.verified THEN Larger(0, card.box - RelapsePenalty) ELSE card.box
           difficulty == IF d.verified THEN Clamp((Clamp(card.difficulty) * 85) \div 100)
                         ELSE Clamp(card.difficulty)
           seen == IF d.verified THEN now ELSE card.verifiedAt
           due == now + RelearningSteps[1]
<1>1. /\ card \in Cards /\ card.box \in 0..TopBox /\ card.difficulty \in 60..200
      /\ card.verifiedAt \in Nat \cup {None} /\ now \in Nat
    BY DEF CardInv, CardTypeOK, Cards
<1>2. box \in 0..TopBox /\ box <= card.box
    BY <1>1, BoxesPositive, ReviewAssumption DEF Larger, ReviewAssumption
<1>3. difficulty \in 60..200
    <2>0. card.difficulty \in Int BY <1>1
    <2>1. Clamp(card.difficulty) \in 60..200 BY <2>0, ClampRange
    <2>2. (Clamp(card.difficulty) * 85) \div 100 \in Int BY <2>1
    <2>3. Clamp((Clamp(card.difficulty) * 85) \div 100) \in 60..200 BY <2>2, ClampRange
    <2> QED BY <2>1, <2>3
<1>4. seen \in Nat \cup {None} BY <1>1
<1>5. due \in Nat BY <1>1, StepsOfCard
<1>6. Lapsed(d) = [card EXCEPT !.state = "relearning", !.since = 0, !.box = box,
                     !.difficulty = difficulty, !.verifiedAt = seen,
                     !.due = due, !.streak = 0]
    BY <1>1 DEF Lapsed, Cards
<1> HIDE DEF box, difficulty, seen, due
<1>7. Lapsed(d) \in Cards
    <2>1. [card EXCEPT !.state = "relearning", !.since = 0, !.box = box, !.difficulty = difficulty]
              \in Cards
        BY <1>1, <1>2, <1>3 DEF Cards
    <2> DEFINE c == [card EXCEPT !.state = "relearning", !.since = 0, !.box = box,
                                 !.difficulty = difficulty]
    <2>2. Lapsed(d) = [c EXCEPT !.verifiedAt = seen, !.due = due, !.streak = 0] BY <1>6
    <2>3. c \in Cards BY <2>1
    <2> HIDE DEF c
    <2>4. [c EXCEPT !.verifiedAt = seen, !.due = due, !.streak = 0] \in Cards
        BY <1>4, <1>5, <2>3 DEF Cards
    <2> QED BY <2>2, <2>4
<1>8. due # None BY <1>5, ReviewAssumption DEF ReviewAssumption
<1> QED BY <1>1, <1>2, <1>6, <1>7, <1>8 DEF Cards

LEMMA ReviewInv == CardInv /\ Review => CardInv'
<1> SUFFICES ASSUME CardInv, Review PROVE CardInv' OBVIOUS
<1>1. PICK s \in Signals :
        \/ s.decision.outcome = "neutral" /\ proved' = FALSE /\ UNCHANGED <<card, earned, row>>
        \/ s.decision.outcome = "positive" /\ Succeed(s.decision, s.hint)
        \/ s.decision.outcome = "negative"
             /\ card' = Lapsed(s.decision)
             /\ proved' = FALSE /\ earned' = FALSE /\ row' = 0
    BY DEF Review
<1>2. s.decision.verified \in BOOLEAN BY SignalType
<1>3. card.state = "review" /\ now' = now /\ ready' = ready /\ answers' = answers + 1
    BY DEF Review, Called
<1>4. ~ready BY <1>3 DEF CardInv, StepsCounted
<1>5. now' \in Nat /\ answers' \in Nat BY <1>3 DEF CardInv, CardTypeOK
<1>6. CASE UNCHANGED <<card, earned, row>>
    <2>1. CardTypeOK' BY <1>5, <1>6 DEF CardInv, CardTypeOK
    <2>2. StepsCounted' BY <1>3, <1>4, <1>6 DEF StepsCounted
    <2>3. ProofCounted' /\ DueOK' BY <1>6 DEF CardInv, ProofCounted, DueOK, Steps
    <2> QED BY <2>1, <2>2, <2>3 DEF CardInv
<1>7. CASE Succeed(s.decision, s.hint)
    <2>1. /\ card' \in Cards /\ card'.state = "review" /\ card'.box = Target(s.decision)
          /\ card'.due # None
          /\ card'.since > 0 => s.decision.verified \/ (Target(s.decision) = card.box /\ card.since > 0)
          /\ card'.since > 0 => Target(s.decision) = card.box
        BY <1>2, <1>3, <1>7, SuccessCard
    <2>2. Larger(1, card.box) = card.box /\ Target(s.decision) \in 1..TopBox
        BY <1>3, TargetBox DEF CardInv, DueOK
    <2>3. row' = row /\ (earned' = (Target(s.decision) = card.box /\ (s.decision.verified \/ earned)))
        BY <1>7, <2>2 DEF Succeed, Target
    <2>4. CardTypeOK' BY <1>5, <2>1, <2>3 DEF CardInv, CardTypeOK
    <2>5. StepsCounted' BY <1>3, <1>4, <2>1 DEF StepsCounted
    <2>6. ProofCounted' BY <2>1, <2>3 DEF CardInv, ProofCounted
    <2>7. DueOK' BY <2>1, <2>2, BoxesPositive DEF DueOK
    <2> QED BY <2>4, <2>5, <2>6, <2>7 DEF CardInv
<1>8. CASE card' = Lapsed(s.decision) /\ earned' = FALSE /\ row' = 0
    <2>1. /\ card' \in Cards /\ card'.state = "relearning" /\ card'.streak = 0 /\ card'.since = 0
          /\ card'.due # None
        BY <1>2, <1>8, LapsedCard
    <2>2. CardTypeOK' BY <1>5, <1>8, <2>1 DEF CardTypeOK
    <2>3. StepsCounted' BY <1>3, <1>4, <1>8, <2>1 DEF StepsCounted
    <2>4. ProofCounted' /\ DueOK' BY <2>1 DEF ProofCounted, DueOK
    <2> QED BY <2>2, <2>3, <2>4 DEF CardInv
<1> QED BY <1>1, <1>6, <1>7, <1>8

LEMMA GraduateCard ==
    ASSUME CardInv, Graduate
    PROVE  /\ card' \in Cards /\ card'.state = "review" /\ card'.box >= 1
           /\ card'.box \in {1, card.box} /\ card'.due # None
           /\ card'.since = card.since /\ card.since = 0
<1> DEFINE box == IF card.state = "learning" THEN 1 ELSE Larger(1, card.box)
           due(j) == now + Jittered(Base(box, Clamp(card.difficulty)), j)
<1>1. card \in Cards /\ card.box \in 0..TopBox /\ card.difficulty \in 60..200 /\ now \in Nat
    BY DEF CardInv, CardTypeOK, Cards
<1>2. box \in 1..TopBox /\ box \in {1, card.box} BY <1>1, BoxesPositive DEF Larger
<1>3. Clamp(card.difficulty) \in 60..200
    <2>1. card.difficulty \in Int BY <1>1
    <2> QED BY <2>1, ClampRange
<1>4. PICK j \in Jitters :
        card' = [card EXCEPT !.state = "review", !.box = box, !.streak = 0, !.due = due(j)]
    BY DEF Graduate
<1> HIDE DEF box
<1>5. Base(box, Clamp(card.difficulty)) \in Nat BY <1>2, <1>3, BaseNat
<1>6. Jittered(Base(box, Clamp(card.difficulty)), j) \in Nat BY <1>5, JitteredPositive
<1>7. due(j) \in Nat BY <1>1, <1>6
<1> HIDE DEF due
<1>8. due(j) # None BY <1>7, ReviewAssumption DEF ReviewAssumption
<1>9. box \in 0..TopBox /\ box >= 1 BY <1>2, BoxesPositive
<1>10. card.since = 0 BY DEF Graduate, CardInv, StepsCounted, ProofCounted
<1>11. card' \in Cards BY <1>1, <1>4, <1>7, <1>9 DEF Cards
<1> QED BY <1>1, <1>2, <1>4, <1>8, <1>9, <1>10, <1>11 DEF Cards

LEMMA GraduateInv == CardInv /\ Graduate => CardInv'
<1> SUFFICES ASSUME CardInv, Graduate PROVE CardInv' OBVIOUS
<1>1. card' \in Cards /\ card'.state = "review" /\ card'.box >= 1 /\ card'.due # None /\ card'.since = 0
    BY GraduateCard
<1>2. CardTypeOK' BY <1>1 DEF Graduate, Called, CardInv, CardTypeOK
<1>3. StepsCounted' BY <1>1 DEF Graduate, StepsCounted
<1>4. ProofCounted' /\ DueOK' BY <1>1 DEF ProofCounted, DueOK
<1> QED BY <1>2, <1>3, <1>4 DEF CardInv

LEMMA NextInv == CardInv /\ [Next]_reviewVars => CardInv'
<1> SUFFICES ASSUME CardInv, [Next]_reviewVars PROVE CardInv' OBVIOUS
<1>1. CASE UNCHANGED reviewVars
    <2>1. CardTypeOK' BY <1>1 DEF reviewVars, CardInv, CardTypeOK
    <2>2. StepsCounted' /\ ProofCounted' /\ DueOK'
        BY <1>1 DEF reviewVars, CardInv, StepsCounted, ProofCounted, DueOK, Steps
    <2> QED BY <2>1, <2>2 DEF CardInv
<1>2. CASE Next
    BY <1>2, IntroduceInv, PassStepInv, FailStepInv, ForgetInv, GraduateInv, ReviewInv, WaitInv DEF Next
<1> QED BY <1>1, <1>2

-----------------------------------------------------------------------------
(* The theorems *)

LEMMA CardInvOK == CardInv => CardOK
<1> SUFFICES ASSUME CardInv PROVE CardOK OBVIOUS
<1>1. card \in Cards /\ now \in Nat BY DEF CardInv, CardTypeOK
<1> QED BY <1>1 DEF CardInv, ProofCounted, DueOK, CardOK, Cards

\* A card keeps to its boxes, a card without a due date is new or has passed its
\* last step, and the proof counted is real (the rows progress of state.db).
THEOREM CardSound == Spec => []CardOK
BY InitInv, NextInv, CardInvOK, PTL DEF Spec

LEMMA InvAlways == Spec => []CardInv
BY InitInv, NextInv, PTL DEF Spec

LEMMA PromotionStep ==
    CardInv /\ [Next]_reviewVars =>
        [card'.box > card.box /\ card'.box > Larger(1, VerifiedGateBox) => proved' \/ earned]_reviewVars
<1> SUFFICES ASSUME CardInv, Next, card'.box > card.box, card'.box > Larger(1, VerifiedGateBox)
             PROVE  proved' \/ earned
    OBVIOUS
<1>1. card.box \in Nat /\ VerifiedGateBox \in Nat
    BY BoxesPositive, ReviewAssumption DEF CardInv, CardTypeOK, Cards, ReviewAssumption
<1>2. Larger(1, VerifiedGateBox) >= 1 /\ Larger(1, VerifiedGateBox) >= VerifiedGateBox
      /\ Larger(1, VerifiedGateBox) \in Int
    BY <1>1 DEF Larger
<1>3. CASE Introduce \/ PassStep \/ FailStep \/ ForgetResult \/ Wait
    <2>1. card'.box = card.box
        BY <1>3 DEF Introduce, PassStep, FailStep, ForgetResult, Wait, CardInv, CardTypeOK, Cards
    <2> QED BY <1>1, <2>1
<1>4. CASE Graduate
    <2>1. card'.box \in {1, card.box} BY <1>4, GraduateCard
    <2> QED BY <1>1, <1>2, <2>1
<1>5. CASE Review
    <2>1. PICK s \in Signals :
            \/ UNCHANGED <<card, earned, row>>
            \/ Succeed(s.decision, s.hint)
            \/ card' = Lapsed(s.decision)
        BY <1>5 DEF Review
    <2>2. s.decision.verified \in BOOLEAN /\ card.state = "review" BY <1>5, SignalType DEF Review
    <2>3. CASE UNCHANGED <<card, earned, row>> BY <1>1, <2>3
    <2>4. CASE card' = Lapsed(s.decision)
        <3>1. card'.box <= card.box /\ card'.box \in Int
            BY <2>2, <2>4, LapsedCard, BoxesPositive DEF Cards
        <3> QED BY <1>1, <3>1
    <2>5. CASE Succeed(s.decision, s.hint)
        <3>1. CardTypeOK /\ card.box >= 1 BY <2>2 DEF CardInv, DueOK
        <3>2. /\ Larger(1, card.box) = card.box /\ Target(s.decision) \in {card.box, card.box + 1}
              /\ Target(s.decision) # card.box => GateSatisfied(s.decision)
            BY <3>1, TargetBox
        <3>3. card'.box = Target(s.decision) BY <2>2, <2>5, SuccessCard
        <3>4. GateSatisfied(s.decision) /\ card.box + 1 > VerifiedGateBox
            BY <1>1, <1>2, <3>2, <3>3
        <3>5. s.decision.verified \/ card.since > 0 BY <3>2, <3>4 DEF GateSatisfied
        <3>6. proved' = s.decision.verified BY <2>5 DEF Succeed
        <3>7. card.since > 0 => earned BY DEF CardInv, ProofCounted
        <3> QED BY <3>5, <3>6, <3>7
    <2> QED BY <2>1, <2>3, <2>4, <2>5
<1> QED BY <1>3, <1>4, <1>5 DEF Next

\* Boxes above the gate are earned by a verified success (apply_review_signal).
THEOREM PromotionSound == Spec => PromotionEarned
BY InvAlways, PromotionStep, PTL DEF Spec, PromotionEarned

LEMMA GraduationStep ==
    CardInv /\ [Next]_reviewVars =>
        [card.state # "review" /\ card'.state = "review" => row >= Len(Steps) /\ card'.due # None]_reviewVars
<1> SUFFICES ASSUME CardInv, Next, card.state # "review", card'.state = "review"
             PROVE  row >= Len(Steps) /\ card'.due # None
    OBVIOUS
<1>1. CASE Introduce \/ PassStep \/ FailStep \/ ForgetResult \/ Wait
    <2>1. card'.state # "review"
        BY <1>1 DEF Introduce, PassStep, FailStep, ForgetResult, Wait, CardInv, CardTypeOK, Cards
    <2> QED BY <2>1
<1>2. CASE Review BY <1>2 DEF Review
<1>3. CASE Graduate
    <2>1. card'.due # None BY <1>3, GraduateCard
    <2>2. card.streak >= Len(Steps) /\ row >= card.streak
        BY <1>3 DEF Graduate, CardInv, StepsCounted
    <2>3. card.streak \in Nat /\ row \in Nat BY DEF CardInv, CardTypeOK, Cards
    <2> QED BY <2>1, <2>2, <2>3, StepsOfCard
<1> QED BY <1>1, <1>2, <1>3 DEF Next

\* All steps are passed in a row before long review (graduate_short_steps).
THEOREM GraduationSound == Spec => StepsInARow
BY InvAlways, GraduationStep, PTL DEF Spec, StepsInARow

LEMMA IntervalStep ==
    CardInv /\ [Next]_reviewVars =>
        [card.state = "review" /\ card'.state = "review" /\ card'.streak > card.streak
           => /\ card'.due > now
              /\ (card.verifiedAt # None /\ card'.verifiedAt = now
                    => card'.due - now >= now - card.verifiedAt)]_reviewVars
<1> SUFFICES ASSUME CardInv, Next, card.state = "review", card'.state = "review",
                    card'.streak > card.streak
             PROVE  /\ card'.due > now
                    /\ (card.verifiedAt # None /\ card'.verifiedAt = now
                          => card'.due - now >= now - card.verifiedAt)
    OBVIOUS
<1>1. card.streak \in Nat /\ now \in Nat BY DEF CardInv, CardTypeOK, Cards
<1>2. CASE Introduce \/ PassStep \/ FailStep \/ ForgetResult \/ Wait \/ Graduate
    <2>1. card' = card
        BY <1>2 DEF Introduce, PassStep, FailStep, ForgetResult, Wait, Graduate, CardInv, StepsCounted
    <2> QED BY <1>1, <2>1
<1>3. CASE Review
    <2>1. PICK s \in Signals :
            \/ UNCHANGED <<card, earned, row>>
            \/ Succeed(s.decision, s.hint)
            \/ card' = Lapsed(s.decision)
        BY <1>3 DEF Review
    <2>2. s.decision.verified \in BOOLEAN BY SignalType
    <2>3. CASE UNCHANGED <<card, earned, row>> BY <1>1, <2>3
    <2>4. CASE card' = Lapsed(s.decision)
        <3>1. card'.state = "relearning" BY <2>2, <2>4, LapsedCard
        <3> QED BY <3>1
    <2>5. CASE Succeed(s.decision, s.hint)
        <3>1. /\ card' \in Cards /\ card'.due # None /\ card'.due > now
              /\ card'.verifiedAt = (IF s.decision.verified THEN now ELSE card.verifiedAt)
              /\ s.decision.verified /\ card.verifiedAt # None => card'.due - now >= now - card.verifiedAt
            BY <2>2, <2>5, SuccessCard
        <3>2. card'.due \in Nat BY <3>1 DEF Cards
        <3> QED BY <1>1, <3>1, <3>2
    <2> QED BY <2>1, <2>3, <2>4, <2>5
<1> QED BY <1>2, <1>3 DEF Next

\* An interval never undercuts what was demonstrated (review_success).
THEOREM IntervalSound == Spec => DemonstratedInterval
BY InvAlways, IntervalStep, PTL DEF Spec, DemonstratedInterval

-----------------------------------------------------------------------------
(* Selections. *)

\* A set of numbers has a least one.
LEMMA LeastNumber ==
    ASSUME NEW T \in SUBSET Nat, T # {}
    PROVE  \E n \in T : \A m \in T : n <= m
<1> DEFINE less == {p \in Nat \X Nat : p[1] < p[2]}
<1>1. IsWellFoundedOn(less, Nat) BY NatLessThanWellFounded DEF OpToRel
<1>2. \A m, n \in Nat : <<m, n>> \in less <=> m < n OBVIOUS
<1>3. PICK n \in T : \A m \in T : ~(<<m, n>> \in less)
    <2> HIDE DEF less
    <2> QED BY <1>1, WFMin
<1>4. \A m \in T : ~(m < n)
    <2> HIDE DEF less
    <2> QED BY <1>2, <1>3
<1>5. \A m \in T : n <= m BY <1>4
<1> QED BY <1>5

\* And a finite one a greatest.
LEMMA GreatestNumber ==
    ASSUME NEW S \in SUBSET Nat, IsFiniteSet(S), S # {}
    PROVE  \E x \in S : \A y \in S : y <= x
<1> DEFINE Bad == {n \in Nat : \E T \in SUBSET S :
                      T # {} /\ Cardinality(T) = n /\ ~\E x \in T : \A y \in T : y <= x}
<1>1. Bad = {}
    <2> SUFFICES ASSUME Bad # {} PROVE FALSE OBVIOUS
    <2>1. PICK n \in Bad : \A m \in Bad : n <= m
        <3>1. Bad \in SUBSET Nat OBVIOUS
        <3> HIDE DEF Bad
        <3> QED BY <3>1, LeastNumber
    <2>2. PICK T \in SUBSET S : T # {} /\ Cardinality(T) = n /\ ~\E x \in T : \A y \in T : y <= x
        OBVIOUS
    <2>3. PICK x \in T : TRUE BY <2>2
    <2>4. IsFiniteSet(T) BY FS_Subset
    <2>5. IsFiniteSet(T \ {x}) /\ Cardinality(T \ {x}) = n - 1 BY <2>2, <2>3, <2>4, FS_RemoveElement
    <2>6. Cardinality(T \ {x}) \in Nat BY <2>5, FS_CardinalityType
    <2>7. T \ {x} # {} BY <2>2, <2>3
    <2>8. PICK z \in T \ {x} : \A y \in T \ {x} : y <= z
        <3>1. n - 1 \notin Bad BY <2>1
        <3> QED BY <2>5, <2>6, <2>7, <3>1
    <2>9. x \in Nat /\ z \in Nat /\ T \subseteq Nat OBVIOUS
    <2>10. CASE x <= z BY <2>2, <2>8, <2>9, <2>10
    <2>11. CASE z <= x BY <2>2, <2>3, <2>8, <2>9, <2>11
    <2> QED BY <2>9, <2>10, <2>11
<1>2. Cardinality(S) \in Nat BY FS_CardinalityType
<1> QED BY <1>1, <1>2

\* The image of a finite set is finite.
LEMMA ImageFinite ==
    ASSUME NEW S, IsFiniteSet(S), NEW f
    PROVE  IsFiniteSet({f[x] : x \in S})
<1> DEFINE g == [x \in S |-> f[x]]
<1>1. g \in Surjection(S, {f[x] : x \in S}) BY DEF Surjection
<1> QED BY <1>1, FS_Surjection

\* When the gaps of a card end, whatever time it is.
Ends(context, state) ==
    {g.last + g.gapDays * MinutesPerDay : g \in {h \in context.groups : state = "new"}}
    \cup {s + (IF state = "new" THEN context.newGap ELSE context.reviewGap) :
             s \in {r \in context.siblings : state \in {"new", "review"}}}

Blocks(context, state, t) == {e \in Ends(context, state) : t < e}

\* A card has finitely many gaps, and each ends at some minute.
LEMMA EndsFinite ==
    ASSUME NEW context \in Contexts, NEW state
    PROVE  IsFiniteSet(Ends(context, state)) /\ Ends(context, state) \subseteq Nat
<1> DEFINE G == {h \in context.groups : state = "new"}
           S == {r \in context.siblings : state \in {"new", "review"}}
           gap == IF state = "new" THEN context.newGap ELSE context.reviewGap
           f == [g \in G |-> g.last + g.gapDays * MinutesPerDay]
           h == [s \in S |-> s + gap]
<1>1. IsFiniteSet(G) /\ IsFiniteSet(S) BY SelectionAssumption, FS_Subset
<1>2. IsFiniteSet({f[g] : g \in G}) BY <1>1, ImageFinite
<1>3. IsFiniteSet({h[s] : s \in S}) BY <1>1, ImageFinite
<1>4. Ends(context, state) = {f[g] : g \in G} \cup {h[s] : s \in S} BY DEF Ends
<1>5. IsFiniteSet(Ends(context, state))
    <2> DEFINE FS == {f[g] : g \in G}
               HS == {h[s] : s \in S}
    <2>1. IsFiniteSet(FS) /\ IsFiniteSet(HS) /\ Ends(context, state) = FS \cup HS BY <1>2, <1>3, <1>4
    <2> HIDE DEF FS, HS
    <2> QED BY <2>1, FS_Union
<1>6. \A g \in G : g.last + g.gapDays * MinutesPerDay \in Nat
    BY SelectionAssumption DEF MinutesPerDay
<1>7. gap \in Nat /\ S \subseteq Nat BY SelectionAssumption
<1>8. Ends(context, state) \subseteq Nat
    <2>1. {g.last + g.gapDays * MinutesPerDay : g \in G} \subseteq Nat BY <1>6
    <2>2. {s + gap : s \in S} \subseteq Nat
        <3> HIDE DEF gap
        <3> QED BY <1>7
    <2> QED BY <2>1, <2>2 DEF Ends
<1> QED BY <1>5, <1>8

\* Decide, said with the gaps that block the card.
LEMMA DecideBlocks ==
    ASSUME NEW context, NEW state, NEW t
    PROVE  LET d == Decide(context, state, t)
               locked == state = "new" /\ ~PrerequisitesMet(context)
               B == Blocks(context, state, t)
           IN  /\ d.locked = locked /\ d.eligible = (~locked /\ B = {})
               /\ d.until = IF B = {} THEN 0 ELSE CHOOSE e \in B : \A u \in B : e >= u
<1> DEFINE blocks == SiblingUntil(context, state, t) \cup
                     (IF state = "new" THEN ConfusableUntil(context, t) ELSE {})
<1>1. blocks = Blocks(context, state, t)
    BY DEF Blocks, Ends, SiblingUntil, ConfusableUntil
<1> HIDE DEF blocks
<1>2. Decide(context, state, t) =
        LET locked == state = "new" /\ ~PrerequisitesMet(context) IN
        [eligible |-> ~locked /\ blocks = {}, locked |-> locked,
         until |-> IF blocks = {} THEN 0 ELSE CHOOSE e \in blocks : \A u \in blocks : e >= u]
    BY DEF Decide, blocks
<1> QED BY <1>1, <1>2

\* The last gap to end opens the card, and nothing does before.
LEMMA DecisionSound ==
    ASSUME NEW context \in Contexts, NEW state, NEW t0 \in Nat
    PROVE  LET d == Decide(context, state, t0) IN
           /\ d.eligible => ~d.locked /\ d.until = 0
           /\ ~d.eligible /\ ~d.locked =>
                /\ d.until > t0
                /\ Decide(context, state, d.until).eligible
                /\ \A t \in t0..(d.until - 1) : ~Decide(context, state, t).eligible
<1> DEFINE d == Decide(context, state, t0)
           locked == state = "new" /\ ~PrerequisitesMet(context)
           B(t) == Blocks(context, state, t)
<1>1. \A t : /\ Decide(context, state, t).locked = locked
             /\ Decide(context, state, t).eligible = (~locked /\ B(t) = {})
    BY DecideBlocks
<1>2. d.until = IF B(t0) = {} THEN 0 ELSE CHOOSE e \in B(t0) : \A u \in B(t0) : e >= u
    BY DecideBlocks
<1>3. ASSUME d.eligible PROVE ~d.locked /\ d.until = 0 BY <1>1, <1>2, <1>3
<1>4. ASSUME ~d.eligible, ~d.locked
      PROVE  /\ d.until > t0
             /\ Decide(context, state, d.until).eligible
             /\ \A t \in t0..(d.until - 1) : ~Decide(context, state, t).eligible
    <2>1. B(t0) # {} /\ ~locked BY <1>1, <1>4
    <2>2. IsFiniteSet(B(t0)) /\ B(t0) \in SUBSET Nat
        BY EndsFinite, FS_Subset DEF Blocks
    <2>3. \E e \in B(t0) : \A u \in B(t0) : e >= u
        <3>1. PICK e \in B(t0) : \A u \in B(t0) : u <= e BY <2>1, <2>2, GreatestNumber
        <3>2. \A u \in B(t0) : e >= u BY <2>2, <3>1
        <3> QED BY <3>2
    <2>4. d.until \in B(t0) /\ \A u \in B(t0) : d.until >= u BY <1>2, <2>1, <2>3
    <2> HIDE DEF d
    <2>5. d.until \in Nat /\ d.until \in Ends(context, state) /\ t0 < d.until
        BY <2>2, <2>4 DEF Blocks
    <2>6. B(d.until) = {}
        <3> SUFFICES ASSUME NEW e \in Ends(context, state), d.until < e PROVE FALSE BY DEF Blocks
        <3>1. e \in Nat BY EndsFinite
        <3>2. t0 < e BY <2>5, <3>1
        <3>3. d.until >= e BY <2>4, <3>2 DEF Blocks
        <3> QED BY <2>5, <3>1, <3>3
    <2>7. \A t \in t0..(d.until - 1) : d.until \in B(t) BY <2>5 DEF Blocks
    <2> QED BY <1>1, <2>1, <2>5, <2>6, <2>7
<1> QED BY <1>3, <1>4

\* A question to a service stays what it was.
SampleOK ==
    asking = "selection" => sample \in [context : Contexts, state : States, now : Times]

\* A selection is asked about one sample only.
LEMMA SampleStays == CoreSpec => []SampleOK
<1>1. CoreInit => SampleOK BY DEF CoreInit, SampleOK
<1>2. SampleOK /\ [CoreNext]_coreVars => SampleOK' BY DEF SampleOK, CoreNext, coreVars
<1> QED BY <1>1, <1>2, PTL DEF CoreSpec

\* A card that has to wait is told the first time it may be asked
\* (SelectionConstraintService.async_evaluate).
THEOREM WaitsAreExact == CoreSpec => []SelectionOpens
<1>1. SampleOK => SelectionOpens
    <2> SUFFICES ASSUME SampleOK, asking = "selection" PROVE SelectionOpens BY DEF SelectionOpens
    <2>1. sample.context \in Contexts /\ sample.now \in Nat BY SelectionAssumption DEF SampleOK
    <2> QED BY <2>1, DecisionSound DEF SelectionOpens
<1> QED BY <1>1, SampleStays, PTL

\* The card a service is asked beside is a card of CardReview.
THEOREM CardAmongServices == CoreSpec => Spec
<1>1. CoreInit => Init BY DEF CoreInit
<1>2. [CoreNext]_coreVars => [Next]_reviewVars BY DEF CoreNext, coreVars
<1> QED BY <1>1, <1>2, PTL DEF CoreSpec, Spec

-----------------------------------------------------------------------------
(* The comparison of two texts. *)

\* What is left of the texts is alike, when the longer is d characters ahead; and
\* so it is if one character more is skipped, the first that differs.
Alike(short, long, i, d) ==
    \A x \in i..Len(short) : x + d <= Len(long) => short[x] = long[x + d]

AlikeButOne(short, long, i, d) ==
    \/ Alike(short, long, i, d)
    \/ \E x \in i..Len(short) :
          /\ x + d <= Len(long) /\ short[x] # long[x + d]
          /\ \A y \in i..(x - 1) : short[y] = long[y + d]
          /\ Alike(short, long, x, d + 1)

Places(short, long) == (1..Len(short) + 1) \X (1..Len(long) + 1) \X {0, 1}

Verdict(short, long, p) ==
    IF p[3] = 1 THEN Alike(short, long, p[1], p[2] - p[1])
    ELSE AlikeButOne(short, long, p[1], p[2] - p[1])

WalkStep(short, long, f, p) ==
    LET i == p[1]  j == p[2]  edits == p[3] IN
    IF i > Len(short) \/ j > Len(long) THEN TRUE
    ELSE IF short[i] = long[j] THEN f[<<i + 1, j + 1, edits>>]
    ELSE edits = 0 /\ f[<<i, j + 1, 1>>]

\* Rests that begin alike are alike if what follows is.
LEMMA AlikeSteps ==
    ASSUME NEW short, NEW long, Len(short) \in Nat, Len(long) \in Nat,
           NEW i \in Nat, NEW j \in Nat
    PROVE  /\ i > Len(short) \/ j > Len(long) => Alike(short, long, i, j - i)
           /\ i <= Len(short) /\ j <= Len(long) =>
                /\ short[i] = long[j] =>
                     /\ Alike(short, long, i, j - i) <=> Alike(short, long, i + 1, j - i)
                     /\ AlikeButOne(short, long, i, j - i) <=> AlikeButOne(short, long, i + 1, j - i)
                /\ short[i] # long[j] =>
                     /\ ~Alike(short, long, i, j - i)
                     /\ AlikeButOne(short, long, i, j - i) <=> Alike(short, long, i, (j + 1) - i)
<1> DEFINE d == j - i
<1>d. d \in Int /\ i + d = j OBVIOUS
<1> HIDE DEF d
<1>1. ASSUME i > Len(short) \/ j > Len(long) PROVE Alike(short, long, i, d)
    BY <1>1, <1>d DEF Alike
<1>2. ASSUME i <= Len(short), j <= Len(long), short[i] = long[j]
      PROVE  /\ Alike(short, long, i, d) <=> Alike(short, long, i + 1, d)
             /\ AlikeButOne(short, long, i, d) <=> AlikeButOne(short, long, i + 1, d)
    <2>1. \A x \in Int : x \in i..Len(short) <=> x = i \/ x \in (i + 1)..Len(short) BY <1>2
    <2>2. Alike(short, long, i, d) <=> Alike(short, long, i + 1, d) BY <2>1, <1>2, <1>d DEF Alike
    <2>3. ASSUME NEW x \in (i + 1)..Len(short)
          PROVE  (\A y \in i..(x - 1) : short[y] = long[y + d]) <=>
                 (\A y \in (i + 1)..(x - 1) : short[y] = long[y + d])
        <3>1. \A y \in Int : y \in i..(x - 1) <=> y = i \/ y \in (i + 1)..(x - 1) OBVIOUS
        <3> QED BY <3>1, <1>2, <1>d
    <2>4. ASSUME AlikeButOne(short, long, i, d) PROVE AlikeButOne(short, long, i + 1, d)
        <3>1. CASE Alike(short, long, i, d) BY <2>2, <3>1 DEF AlikeButOne
        <3>2. CASE ~Alike(short, long, i, d)
            <4>1. PICK x \in i..Len(short) :
                      /\ x + d <= Len(long) /\ short[x] # long[x + d]
                      /\ \A y \in i..(x - 1) : short[y] = long[y + d]
                      /\ Alike(short, long, x, d + 1)
                BY <2>4, <3>2 DEF AlikeButOne
            <4>2. x \in (i + 1)..Len(short) BY <2>1, <4>1, <1>2, <1>d
            <4> QED BY <4>1, <4>2, <2>3 DEF AlikeButOne
        <3> QED BY <3>1, <3>2
    <2>5. ASSUME AlikeButOne(short, long, i + 1, d) PROVE AlikeButOne(short, long, i, d)
        <3>1. CASE Alike(short, long, i + 1, d) BY <2>2, <3>1 DEF AlikeButOne
        <3>2. CASE ~Alike(short, long, i + 1, d)
            <4>1. PICK x \in (i + 1)..Len(short) :
                      /\ x + d <= Len(long) /\ short[x] # long[x + d]
                      /\ \A y \in (i + 1)..(x - 1) : short[y] = long[y + d]
                      /\ Alike(short, long, x, d + 1)
                BY <2>5, <3>2 DEF AlikeButOne
            <4>2. x \in i..Len(short) BY <2>1, <4>1
            <4> QED BY <4>1, <4>2, <2>3 DEF AlikeButOne
        <3> QED BY <3>1, <3>2
    <2> QED BY <2>2, <2>4, <2>5
<1>3. ASSUME i <= Len(short), j <= Len(long), short[i] # long[j]
      PROVE  /\ ~Alike(short, long, i, d)
             /\ AlikeButOne(short, long, i, d) <=> Alike(short, long, i, d + 1)
    <2>1. i \in i..Len(short) BY <1>3
    <2>2. ~Alike(short, long, i, d) BY <2>1, <1>3, <1>d DEF Alike
    <2>3. ASSUME Alike(short, long, i, d + 1) PROVE AlikeButOne(short, long, i, d)
        <3>1. i + d <= Len(long) /\ short[i] # long[i + d] BY <1>3, <1>d
        <3>2. \A y \in i..(i - 1) : short[y] = long[y + d] OBVIOUS
        <3> QED BY <2>1, <2>3, <3>1, <3>2 DEF AlikeButOne
    <2>4. ASSUME AlikeButOne(short, long, i, d) PROVE Alike(short, long, i, d + 1)
        <3>1. PICK x \in i..Len(short) :
                  /\ \A y \in i..(x - 1) : short[y] = long[y + d]
                  /\ Alike(short, long, x, d + 1)
            BY <2>2, <2>4 DEF AlikeButOne
        <3>2. i = x
            <4> SUFFICES ASSUME i # x PROVE FALSE OBVIOUS
            <4>1. i \in i..(x - 1) OBVIOUS
            <4> QED BY <4>1, <3>1, <1>3, <1>d
        <3> QED BY <3>1, <3>2
    <2> QED BY <2>2, <2>3, <2>4
<1>4. (j + 1) - i = d + 1 BY DEF d
<1> QED BY <1>1, <1>2, <1>3, <1>4 DEF d

\* The verdict takes the steps of the walk.
LEMMA VerdictWalks ==
    ASSUME NEW short, NEW long, Len(short) \in Nat, Len(long) \in Nat,
           NEW f, NEW p \in Places(short, long),
           \A q \in Places(short, long) : q[2] = p[2] + 1 => f[q] = Verdict(short, long, q)
    PROVE  WalkStep(short, long, f, p) = Verdict(short, long, p)
<1>1. PICK i \in 1..Len(short) + 1, j \in 1..Len(long) + 1, edits \in {0, 1} : p = <<i, j, edits>>
    BY DEF Places
<1>2. WalkStep(short, long, f, p) =
          IF i > Len(short) \/ j > Len(long) THEN TRUE
          ELSE IF short[i] = long[j] THEN f[<<i + 1, j + 1, edits>>]
          ELSE edits = 0 /\ f[<<i, j + 1, 1>>]
    BY <1>1 DEF WalkStep
<1>3. \A a, b, e : Verdict(short, long, <<a, b, e>>) =
          IF e = 1 THEN Alike(short, long, a, b - a) ELSE AlikeButOne(short, long, a, b - a)
    BY DEF Verdict
<1>4. i \in Nat /\ j \in Nat /\ edits \in {0, 1} BY <1>1
<1>b. \A a, d : Alike(short, long, a, d) \in BOOLEAN /\ AlikeButOne(short, long, a, d) \in BOOLEAN
    BY DEF Alike, AlikeButOne
<1>v. Verdict(short, long, p) =
          IF edits = 1 THEN Alike(short, long, i, j - i) ELSE AlikeButOne(short, long, i, j - i)
    BY <1>1, <1>3
<1>5. CASE i > Len(short) \/ j > Len(long)
    <2>1. Alike(short, long, i, j - i) BY <1>4, <1>5, AlikeSteps
    <2>2. AlikeButOne(short, long, i, j - i) BY <2>1 DEF AlikeButOne
    <2>3. WalkStep(short, long, f, p) = TRUE BY <1>2, <1>5
    <2> QED BY <1>b, <1>v, <2>1, <2>2, <2>3
<1>6. CASE i <= Len(short) /\ j <= Len(long) /\ short[i] = long[j]
    <2> DEFINE q == <<i + 1, j + 1, edits>>
    <2>1. q \in Places(short, long) /\ q[2] = j + 1 BY <1>1, <1>6 DEF Places
    <2>2. f[q] = Verdict(short, long, q) BY <1>1, <2>1
    <2>3. (j + 1) - (i + 1) = j - i BY <1>4
    <2>4. Verdict(short, long, q) =
            IF edits = 1 THEN Alike(short, long, i + 1, j - i) ELSE AlikeButOne(short, long, i + 1, j - i)
        BY <1>3, <2>3
    <2>5. WalkStep(short, long, f, p) = f[q]
        <3>1. ~(i > Len(short) \/ j > Len(long)) BY <1>4, <1>6
        <3> QED BY <3>1, <1>2, <1>6, Zenon
    <2>6. /\ Alike(short, long, i, j - i) <=> Alike(short, long, i + 1, j - i)
          /\ AlikeButOne(short, long, i, j - i) <=> AlikeButOne(short, long, i + 1, j - i)
        BY <1>4, <1>6, AlikeSteps
    <2>7. /\ Alike(short, long, i, j - i) = Alike(short, long, i + 1, j - i)
          /\ AlikeButOne(short, long, i, j - i) = AlikeButOne(short, long, i + 1, j - i)
        BY <2>6, <1>b
    <2> QED BY <1>v, <2>2, <2>4, <2>5, <2>7
<1>7. CASE i <= Len(short) /\ j <= Len(long) /\ short[i] # long[j]
    <2> DEFINE q == <<i, j + 1, 1>>
    <2>1. q \in Places(short, long) /\ q[2] = j + 1 BY <1>1, <1>7 DEF Places
    <2>2. f[q] = Verdict(short, long, q) BY <1>1, <2>1
    <2>3. WalkStep(short, long, f, p) = (edits = 0 /\ f[q])
        <3>1. ~(i > Len(short) \/ j > Len(long)) BY <1>4, <1>7
        <3> QED BY <3>1, <1>2, <1>7, Zenon
    <2>4. Verdict(short, long, q) = Alike(short, long, i, (j + 1) - i) BY <1>3
    <2>5. /\ ~Alike(short, long, i, j - i)
          /\ AlikeButOne(short, long, i, j - i) <=> Alike(short, long, i, (j + 1) - i)
        BY <1>4, <1>7, AlikeSteps
    <2>6. WalkStep(short, long, f, p) = (edits = 0 /\ Alike(short, long, i, (j + 1) - i))
        BY <2>2, <2>3, <2>4
    <2>7. CASE edits = 0
        <3>1. WalkStep(short, long, f, p) = Alike(short, long, i, (j + 1) - i) BY <2>6, <2>7, <1>b
        <3>2. Verdict(short, long, p) = AlikeButOne(short, long, i, j - i) BY <1>v, <2>7
        <3> QED BY <3>1, <3>2, <2>5, <1>b
    <2>8. CASE edits = 1
        <3>1. WalkStep(short, long, f, p) = FALSE
            <4>1. edits # 0 BY <2>8
            <4> QED BY <4>1, <2>6, Zenon
        <3>2. Verdict(short, long, p) = Alike(short, long, i, j - i) BY <1>v, <2>8
        <3> QED BY <3>1, <3>2, <2>5, <1>b
    <2> QED BY <1>4, <2>7, <2>8
<1> QED BY <1>1, <1>4, <1>5, <1>6, <1>7

\* The walk over two texts, of which one is a character longer, finds whether
\* leaving out a character of the longer gives the other.
LEMMA WalkVerdict ==
    ASSUME NEW short, NEW long, Len(short) \in Nat, Len(long) \in Nat
    PROVE  WalkFits(short, long) <=> AlikeButOne(short, long, 1, 0)
<1> DEFINE P == Places(short, long)
           Walks(f) == f = [p \in P |-> WalkStep(short, long, f, p)]
           V == [p \in P |-> Verdict(short, long, p)]
           w == CHOOSE f : Walks(f)
<1>1. Walks(V)
    <2>1. ASSUME NEW p \in P PROVE WalkStep(short, long, V, p) = Verdict(short, long, p)
        BY VerdictWalks
    <2> QED BY <2>1
<1>2. Walks(w) BY <1>1
<1>3. WalkFits(short, long) = w[<<1, 1, 0>>] BY DEF WalkFits, WalkStep, Places
<1> HIDE DEF w
<1>4. \A p \in P : w[p] = Verdict(short, long, p)
    <2> DEFINE Bad == {n \in Nat : \E p \in P : n = Len(long) + 1 - p[2] /\ w[p] # Verdict(short, long, p)}
    <2>1. Bad = {}
        <3> SUFFICES ASSUME Bad # {} PROVE FALSE OBVIOUS
        <3>1. PICK n \in Bad : \A m \in Bad : n <= m
            <4>1. Bad \in SUBSET Nat OBVIOUS
            <4> HIDE DEF Bad
            <4> QED BY <4>1, LeastNumber
        <3>2. PICK p \in P : n = Len(long) + 1 - p[2] /\ w[p] # Verdict(short, long, p) OBVIOUS
        <3>3. p[2] \in 1..Len(long) + 1 BY DEF Places
        <3>4. ASSUME NEW q \in P, q[2] = p[2] + 1 PROVE w[q] = Verdict(short, long, q)
            <4>1. q[2] \in 1..Len(long) + 1 BY DEF Places
            <4>2. Len(long) + 1 - q[2] \in Nat /\ Len(long) + 1 - q[2] < n BY SMTT(30), <3>2, <3>3, <3>4, <4>1
            <4>3. Len(long) + 1 - q[2] \notin Bad BY <3>1, <4>2
            <4> QED BY <4>2, <4>3
        <3>5. WalkStep(short, long, w, p) = Verdict(short, long, p) BY <3>4, VerdictWalks
        <3> QED BY <1>2, <3>2, <3>5
    <2>2. ASSUME NEW p \in P PROVE Len(long) + 1 - p[2] \in Nat BY DEF Places
    <2> QED BY <2>1, <2>2
<1>5. <<1, 1, 0>> \in P BY DEF Places
<1>6. Verdict(short, long, <<1, 1, 0>>) = AlikeButOne(short, long, 1, 0)
    <2>1. 1 - 1 = 0 OBVIOUS
    <2> QED BY <2>1 DEF Verdict
<1> QED BY <1>3, <1>4, <1>5, <1>6

\* A text with one character left out, place by place.
LEMMA WithoutAt ==
    ASSUME NEW S, NEW text \in Seq(S), NEW i \in 1..Len(text)
    PROVE  /\ Without(text, i) \in Seq(S) /\ Len(Without(text, i)) = Len(text) - 1
           /\ \A x \in 1..Len(text) - 1 : Without(text, i)[x] = IF x < i THEN text[x] ELSE text[x + 1]
<1> DEFINE a == SubSeq(text, 1, i - 1)
           b == SubSeq(text, i + 1, Len(text))
<1>1. a \in Seq(S) /\ Len(a) = i - 1 /\ \A x \in 1..i - 1 : a[x] = text[x] OBVIOUS
<1>2. b \in Seq(S) /\ Len(b) = Len(text) - i /\ \A x \in 1..Len(text) - i : b[x] = text[x + i]
    OBVIOUS
<1>3. Without(text, i) = a \o b BY DEF Without
<1> HIDE DEF a, b
<1>4. a \o b \in Seq(S) /\ Len(a \o b) = Len(text) - 1
    <2>1. a \o b \in Seq(S) /\ Len(a \o b) = Len(a) + Len(b) BY <1>1, <1>2, ConcatProperties
    <2>2. Len(text) \in Nat OBVIOUS
    <2>3. (i - 1) + (Len(text) - i) = Len(text) - 1 BY <2>2
    <2> QED BY <2>1, <2>3, <1>1, <1>2
<1>5. ASSUME NEW x \in 1..Len(text) - 1
      PROVE  (a \o b)[x] = IF x < i THEN text[x] ELSE text[x + 1]
    <2>1. CASE x < i BY <2>1, <1>1, <1>2
    <2>2. CASE ~(x < i)
        <3>1. (a \o b)[x] = b[x - (i - 1)] BY <2>2, <1>1, <1>2
        <3>2. x - (i - 1) \in 1..Len(text) - i /\ (x - (i - 1)) + i = x + 1 BY <2>2
        <3> QED BY <3>1, <3>2, <2>2, <1>2
    <2> QED BY <2>1, <2>2
<1> QED BY <1>3, <1>4, <1>5

\* Two sequences of one length are the same if their elements are.
LEMMA SameSeq ==
    ASSUME NEW S, NEW a \in Seq(S), NEW b \in Seq(S), Len(a) = Len(b),
           \A x \in 1..Len(a) : a[x] = b[x]
    PROVE  a = b
BY SeqEqual

\* Texts alike but for one character: the shorter is the longer with one left out.
LEMMA OneLeftOut ==
    ASSUME NEW S, NEW short \in Seq(S), NEW long \in Seq(S), Len(long) = Len(short) + 1
    PROVE  AlikeButOne(short, long, 1, 0) <=> \E i \in DOMAIN long : Without(long, i) = short
<1>l. Len(short) \in Nat /\ Len(long) \in Nat /\ DOMAIN long = 1..Len(long) OBVIOUS
<1>w. ASSUME NEW i \in 1..Len(long)
      PROVE  Without(long, i) = short <=>
             /\ \A x \in 1..Len(short) : x < i => short[x] = long[x]
             /\ \A x \in 1..Len(short) : i <= x => short[x] = long[x + 1]
    <2>1. /\ Without(long, i) \in Seq(S) /\ Len(Without(long, i)) = Len(short)
          /\ \A x \in 1..Len(short) : Without(long, i)[x] = IF x < i THEN long[x] ELSE long[x + 1]
        <3>1. Len(long) - 1 = Len(short) BY <1>l
        <3> QED BY <3>1, WithoutAt
    <2>2. ASSUME /\ \A x \in 1..Len(short) : x < i => short[x] = long[x]
                 /\ \A x \in 1..Len(short) : i <= x => short[x] = long[x + 1]
          PROVE  Without(long, i) = short
        <3>1. \A x \in 1..Len(short) : Without(long, i)[x] = short[x] BY <2>1, <2>2, <1>l
        <3> QED BY <3>1, <2>1, SameSeq
    <2>3. ASSUME Without(long, i) = short
          PROVE  /\ \A x \in 1..Len(short) : x < i => short[x] = long[x]
                 /\ \A x \in 1..Len(short) : i <= x => short[x] = long[x + 1]
        BY <2>1, <2>3, <1>l
    <2> QED BY <2>2, <2>3
<1>1. ASSUME AlikeButOne(short, long, 1, 0) PROVE \E i \in DOMAIN long : Without(long, i) = short
    <2>1. CASE Alike(short, long, 1, 0)
        <3>1. \A x \in 1..Len(short) : short[x] = long[x] BY <2>1, <1>l DEF Alike
        <3>2. Len(long) \in 1..Len(long) BY <1>l
        <3> QED BY <3>1, <3>2, <1>l, <1>w
    <2>2. CASE ~Alike(short, long, 1, 0)
        <3>1. PICK i \in 1..Len(short) :
                  /\ \A y \in 1..(i - 1) : short[y] = long[y + 0]
                  /\ Alike(short, long, i, 0 + 1)
            BY <1>1, <2>2 DEF AlikeButOne
        <3>2. i \in 1..Len(long) BY <1>l
        <3>3. \A x \in 1..Len(short) : x < i => short[x] = long[x] BY <3>1, <1>l
        <3>4. \A x \in 1..Len(short) : i <= x => short[x] = long[x + 1] BY <3>1, <1>l DEF Alike
        <3> QED BY <3>2, <3>3, <3>4, <1>l, <1>w
    <2> QED BY <2>1, <2>2
<1>2. ASSUME NEW i \in DOMAIN long, Without(long, i) = short PROVE AlikeButOne(short, long, 1, 0)
    <2> DEFINE Differ == {x \in 1..Len(short) : short[x] # long[x]}
    <2>1. /\ \A x \in 1..Len(short) : x < i => short[x] = long[x]
          /\ \A x \in 1..Len(short) : i <= x => short[x] = long[x + 1]
        BY <1>2, <1>l, <1>w
    <2>2. CASE Differ = {}
        <3>1. Alike(short, long, 1, 0) BY <2>2, <1>l DEF Alike
        <3> QED BY <3>1 DEF AlikeButOne
    <2>3. CASE Differ # {}
        <3>1. PICK x \in Differ : \A y \in Differ : x <= y
            <4>1. Differ \in SUBSET Nat BY <1>l
            <4> HIDE DEF Differ
            <4> QED BY <4>1, <2>3, LeastNumber
        <3>2. x \in 1..Len(short) /\ short[x] # long[x] /\ i <= x BY <2>1, <1>l
        <3>3. \A y \in 1..(x - 1) : short[y] = long[y + 0] BY <3>1, <3>2, <1>l
        <3>4. Alike(short, long, x, 0 + 1) BY <3>2, <2>1, <1>l DEF Alike
        <3>5. x + 0 <= Len(long) /\ short[x] # long[x + 0] BY <3>2, <1>l
        <3> QED BY <3>2, <3>3, <3>4, <3>5 DEF AlikeButOne
    <2> QED BY <2>2, <2>3
<1> QED BY <1>1, <1>2

\* The code's walk over two texts, and its count of the places where texts of the
\* same length differ, find exactly the texts that are one edit apart.
THEOREM OneEditFound ==
    ASSUME NEW S, NEW left \in Seq(S), NEW right \in Seq(S)
    PROVE  AtMostOneEdit(left, right) <=> WithinOneEdit(left, right)
<1>l. /\ Len(left) \in Nat /\ DOMAIN left = 1..Len(left)
      /\ Len(right) \in Nat /\ DOMAIN right = 1..Len(right) OBVIOUS
<1>w. /\ \A i \in 1..Len(left) : Len(Without(left, i)) = Len(left) - 1
      /\ \A i \in 1..Len(right) : Len(Without(right, i)) = Len(right) - 1
    BY WithoutAt
<1>i. Len(left) \in Nat /\ Len(right) \in Nat OBVIOUS
<1>n. Len(left) - 1 # Len(left) /\ Len(right) - 1 # Len(right) BY <1>i
<1>1. CASE Len(left) = Len(right)
    <2>1. /\ \A i \in 1..Len(left) : Without(left, i) # right
          /\ \A i \in 1..Len(right) : Without(right, i) # left
        BY <1>w, <1>n, <1>1
    <2>2. ASSUME NEW i \in 1..Len(left)
          PROVE  Without(left, i) = Without(right, i) <=>
                 \A x \in 1..Len(left) : x # i => left[x] = right[x]
        <3>1. /\ Without(left, i) \in Seq(S) /\ Len(Without(left, i)) = Len(left) - 1
              /\ \A x \in 1..Len(left) - 1 : Without(left, i)[x] = IF x < i THEN left[x] ELSE left[x + 1]
            BY WithoutAt
        <3>2. /\ Without(right, i) \in Seq(S) /\ Len(Without(right, i)) = Len(left) - 1
              /\ \A x \in 1..Len(left) - 1 : Without(right, i)[x] = IF x < i THEN right[x] ELSE right[x + 1]
            BY WithoutAt, <1>1
        <3>3. ASSUME \A x \in 1..Len(left) : x # i => left[x] = right[x]
              PROVE  Without(left, i) = Without(right, i)
            <4>1. \A x \in 1..Len(left) - 1 : Without(left, i)[x] = Without(right, i)[x]
                BY <3>1, <3>2, <3>3, <1>l
            <4> QED BY <4>1, <3>1, <3>2, SameSeq
        <3>4. ASSUME Without(left, i) = Without(right, i), NEW x \in 1..Len(left), x # i
              PROVE  left[x] = right[x]
            <4>1. CASE x < i
                <5>1. x \in 1..Len(left) - 1 BY <4>1, <1>l
                <5> QED BY <5>1, <4>1, <3>1, <3>2, <3>4
            <4>2. CASE x > i
                <5>1. x - 1 \in 1..Len(left) - 1 /\ ~(x - 1 < i) /\ (x - 1) + 1 = x BY <4>2, <1>l
                <5>2. Without(left, i)[x - 1] = left[x] /\ Without(right, i)[x - 1] = right[x]
                    BY <5>1, <3>1, <3>2
                <5> QED BY <5>2, <3>4
            <4> QED BY <4>1, <4>2, <3>4
        <3> QED BY <3>3, <3>4
    <2>3. AtMostOneEdit(left, right) <=>
          \A i, j \in 1..Len(left) : left[i] # right[i] /\ left[j] # right[j] => i = j
        BY <1>l, <1>1 DEF AtMostOneEdit
    <2>4. WithinOneEdit(left, right) <=>
          left = right \/ \E i \in 1..Len(left) : \A x \in 1..Len(left) : x # i => left[x] = right[x]
        BY <1>l, <1>1, <2>1, <2>2 DEF WithinOneEdit
    <2>5. CASE \E i \in 1..Len(left) : left[i] # right[i] BY <2>3, <2>4, <2>5
    <2>6. CASE \A i \in 1..Len(left) : left[i] = right[i]
        <3>1. left = right BY <1>1, <2>6, SameSeq
        <3> QED BY <2>3, <2>4, <2>6, <3>1
    <2> QED BY <2>5, <2>6
<1>2. CASE Len(left) + 1 = Len(right)
    <2>0. Len(left) # Len(right) /\ Len(right) + 1 # Len(left) /\ Len(left) - 1 # Len(right)
        BY <1>i, <1>2
    <2>1. AtMostOneEdit(left, right) <=> WalkFits(left, right) BY <2>0, <1>2, Zenon DEF AtMostOneEdit
    <2>2. WalkFits(left, right) <=> \E i \in DOMAIN right : Without(right, i) = left
        BY <1>l, <1>2, WalkVerdict, OneLeftOut
    <2>3. WithinOneEdit(left, right) <=> \E i \in DOMAIN right : Without(right, i) = left
        <3>1. left # right BY <2>0
        <3>2. \A i \in DOMAIN left : Without(left, i) # right BY <1>l, <1>w, <2>0, Zenon
        <3> QED BY <2>0, <3>1, <3>2, Zenon DEF WithinOneEdit
    <2> QED BY <2>1, <2>2, <2>3
<1>3. CASE Len(right) + 1 = Len(left)
    <2>0. Len(left) # Len(right) /\ Len(left) + 1 # Len(right) /\ Len(right) - 1 # Len(left)
        BY <1>i, <1>3
    <2>1. AtMostOneEdit(left, right) <=> WalkFits(right, left) BY <2>0, <1>3, Zenon DEF AtMostOneEdit
    <2>2. WalkFits(right, left) <=> \E i \in DOMAIN left : Without(left, i) = right
        BY <1>l, <1>3, WalkVerdict, OneLeftOut
    <2>3. WithinOneEdit(left, right) <=> \E i \in DOMAIN left : Without(left, i) = right
        <3>1. left # right BY <2>0
        <3>2. \A i \in DOMAIN right : Without(right, i) # left BY <1>l, <1>w, <2>0, Zenon
        <3> QED BY <2>0, <3>1, <3>2, Zenon DEF WithinOneEdit
    <2> QED BY <2>1, <2>2, <2>3
<1>4. CASE Len(left) # Len(right) /\ Len(left) + 1 # Len(right) /\ Len(right) + 1 # Len(left)
    <2>1. ~AtMostOneEdit(left, right) BY <1>4 DEF AtMostOneEdit
    <2>2. left # right BY <1>4
    <2>3. /\ \A i \in DOMAIN left : Without(left, i) # right
          /\ \A i \in DOMAIN right : Without(right, i) # left
        <3>1. Len(left) - 1 # Len(right) /\ Len(right) - 1 # Len(left) BY <1>i, <1>4
        <3> QED BY <1>l, <1>w, <3>1, Zenon
    <2> QED BY <2>1, <2>2, <2>3, <1>4 DEF WithinOneEdit
<1> QED BY <1>1, <1>2, <1>3, <1>4

-----------------------------------------------------------------------------
(* Gradings. *)

\* How many of the places are at i or before.
Position(places, i) == Cardinality({j \in places : j <= i})
Place(places, k) == CHOOSE i \in places : Position(places, i) = k

\* The places of a set are counted without a gap, in their order.
LEMMA PositionsCount ==
    ASSUME NEW n \in Nat, NEW places \in SUBSET (1..n)
    PROVE  /\ IsFiniteSet(places) /\ Cardinality(places) \in Nat
           /\ \A i \in places : Position(places, i) \in 1..Cardinality(places)
           /\ \A i, j \in places : i < j => Position(places, i) < Position(places, j)
           /\ \A k \in 1..Cardinality(places) : \E i \in places : Position(places, i) = k
<1> DEFINE Upto(i) == {j \in places : j <= i}
           m == Cardinality(places)
<1>0. IsFiniteSet(1..n) BY FS_Interval
<1>1. IsFiniteSet(places) /\ m \in Nat
    BY <1>0, FS_Subset, FS_CardinalityType
<1>2. ASSUME NEW i \in places
      PROVE  /\ Upto(i) \in SUBSET places /\ IsFiniteSet(Upto(i))
             /\ Cardinality(Upto(i)) \in Nat /\ Cardinality(Upto(i)) <= m
             /\ i \in Upto(i) /\ Cardinality(Upto(i)) # 0
    <2>1. Upto(i) \in SUBSET places OBVIOUS
    <2>2. i \in Upto(i) OBVIOUS
    <2> HIDE DEF Upto
    <2>3. IsFiniteSet(Upto(i)) /\ Cardinality(Upto(i)) <= m BY <2>1, <1>1, FS_Subset
    <2>4. Cardinality(Upto(i)) \in Nat /\ Cardinality(Upto(i)) # 0
        BY <2>2, <2>3, FS_CardinalityType, FS_EmptySet
    <2> QED BY <2>1, <2>2, <2>3, <2>4
<1>3. \A i \in places : Position(places, i) \in 1..m
    <2> SUFFICES ASSUME NEW i \in places PROVE Position(places, i) \in 1..m OBVIOUS
    <2>1. Position(places, i) = Cardinality(Upto(i)) BY DEF Position
    <2> HIDE DEF Upto
    <2> QED BY <2>1, <1>2, <1>1
<1>4. ASSUME NEW i \in places, NEW j \in places, i < j PROVE Position(places, i) < Position(places, j)
    <2>0. i \in Int /\ j \in Int /\ places \subseteq Int OBVIOUS
    <2>1. Upto(i) \in SUBSET Upto(j)
        <3> SUFFICES ASSUME NEW x \in places, x <= i PROVE x <= j OBVIOUS
        <3> QED BY <2>0, <1>4
    <2>2. j \notin Upto(i) BY <1>4
    <2>3. Position(places, i) = Cardinality(Upto(i)) /\ Position(places, j) = Cardinality(Upto(j))
        BY DEF Position
    <2> HIDE DEF Upto
    <2>4. j \in Upto(j) BY <1>2
    <2>5. Upto(i) # Upto(j) BY <2>2, <2>4
    <2>6. Cardinality(Upto(i)) <= Cardinality(Upto(j)) /\ Cardinality(Upto(i)) # Cardinality(Upto(j))
        BY <2>1, <2>5, <1>2, FS_Subset
    <2>7. Cardinality(Upto(i)) \in Nat /\ Cardinality(Upto(j)) \in Nat BY <1>2
    <2> QED BY <2>3, <2>6, <2>7
<1>5. ASSUME NEW k \in 1..m PROVE \E i \in places : Position(places, i) = k
    <2> DEFINE f == [i \in places |-> Position(places, i)]
    <2>1. f \in [places -> 1..m] BY <1>3
    <2>2. \A i, j \in places : f[i] = f[j] => i = j
        <3> SUFFICES ASSUME NEW i \in places, NEW j \in places, i # j
                     PROVE Position(places, i) # Position(places, j)
            OBVIOUS
        <3>1. Position(places, i) \in Int /\ Position(places, j) \in Int BY <1>3
        <3>2. i < j \/ j < i OBVIOUS
        <3> QED BY <3>1, <3>2, <1>4
    <2>3. f \in Injection(places, 1..m)
        <3> HIDE DEF f, m
        <3> QED BY <2>1, <2>2 DEF Injection, IsInjective
    <2>4. IsFiniteSet(1..m) /\ Cardinality(1..m) = m BY <1>1, FS_Interval
    <2> HIDE DEF f, m
    <2>5. f \in Surjection(places, 1..m) BY <2>3, <2>4, <1>1, FS_Injection DEF m
    <2>6. \E i \in places : f[i] = k BY <2>5, <1>5 DEF Surjection
    <2> QED BY <2>6 DEF f
<1> QED BY <1>1, <1>3, <1>4, <1>5

\* What is kept of a text is what stands at the places, in the order it had.
LEMMA KeptAt ==
    ASSUME NEW S, NEW text \in Seq(S), NEW places \in SUBSET (DOMAIN text)
    PROVE  /\ Kept(text, places) \in Seq(S)
           /\ \A k \in DOMAIN Kept(text, places) :
                 /\ Place(places, k) \in places
                 /\ Kept(text, places)[k] = text[Place(places, k)]
           /\ \A k, l \in DOMAIN Kept(text, places) : k < l => Place(places, k) < Place(places, l)
           /\ \A i \in places : \E k \in DOMAIN Kept(text, places) : Place(places, k) = i
<1> DEFINE m == Cardinality(places)
           K == Kept(text, places)
<1>0. Len(text) \in Nat /\ DOMAIN text = 1..Len(text) OBVIOUS
<1>1. /\ m \in Nat
      /\ \A i \in places : Position(places, i) \in 1..m
      /\ \A i, j \in places : i < j => Position(places, i) < Position(places, j)
      /\ \A k \in 1..m : \E i \in places : Position(places, i) = k
    BY <1>0, PositionsCount
<1> HIDE DEF m
<1>2. \A k \in 1..m : Place(places, k) \in places /\ Position(places, Place(places, k)) = k
    BY <1>1 DEF Place
<1>3. K = [k \in 1..m |-> text[Place(places, k)]] BY DEF Kept, Place, Position, m
<1>4. \A k \in 1..m : text[Place(places, k)] \in S BY <1>0, <1>2
<1>5. K \in Seq(S) /\ DOMAIN K = 1..m BY <1>1, <1>3, <1>4, IsASeq
<1>6. ASSUME NEW k \in 1..m, NEW l \in 1..m, k < l PROVE Place(places, k) < Place(places, l)
    <2> DEFINE i == Place(places, k)
               j == Place(places, l)
    <2>1. i \in places /\ j \in places /\ Position(places, i) = k /\ Position(places, j) = l BY <1>2
    <2>2. i \in Int /\ j \in Int BY <2>1, <1>0
    <2> HIDE DEF i, j
    <2>3. i # j BY <2>1, <1>6
    <2>4. ~(j < i)
        <3> SUFFICES ASSUME j < i PROVE FALSE OBVIOUS
        <3>1. l < k BY <2>1, <1>1
        <3> QED BY <3>1, <1>6
    <2>5. i < j BY <2>2, <2>3, <2>4
    <2> QED BY <2>5 DEF i, j
<1>7. ASSUME NEW i \in places PROVE \E k \in 1..m : Place(places, k) = i
    <2> DEFINE k == Position(places, i)
               j == Place(places, k)
    <2>1. k \in 1..m /\ j \in places /\ Position(places, j) = k BY <1>1, <1>2
    <2>2. i \in Int /\ j \in Int BY <2>1, <1>0
    <2>3. ~(i < j) /\ ~(j < i)
        <3>1. \A x, y \in places : x < y => Position(places, x) < Position(places, y) BY <1>1
        <3>2. k \in Int BY <2>1
        <3> HIDE DEF j
        <3>3. Position(places, i) = k /\ Position(places, j) = k BY <2>1
        <3> HIDE DEF k
        <3> QED BY <3>1, <3>2, <3>3, <2>1
    <2>4. j = i
        <3> HIDE DEF j, k
        <3> QED BY <2>2, <2>3
    <2> QED BY <2>1, <2>4
<1>8. \A k \in DOMAIN K : Place(places, k) \in places /\ K[k] = text[Place(places, k)]
    BY <1>2, <1>3, <1>5
<1> QED BY <1>5, <1>6, <1>7, <1>8

\* A text at all of its places is the text.
LEMMA KeptAll ==
    ASSUME NEW S, NEW text \in Seq(S)
    PROVE  Kept(text, DOMAIN text) = text
<1> DEFINE n == Len(text)
           K == Kept(text, 1..n)
<1>0. n \in Nat /\ DOMAIN text = 1..n OBVIOUS
<1>1. ASSUME NEW i \in 1..n PROVE Position(1..n, i) = i
    <2>1. {j \in 1..n : j <= i} = 1..i BY <1>0
    <2>2. Cardinality(1..i) = i BY FS_Interval
    <2> QED BY <2>1, <2>2 DEF Position
<1> HIDE DEF n
<1>2. Cardinality(1..n) = n BY <1>0, FS_Interval
<1>3. ASSUME NEW k \in 1..n PROVE Place(1..n, k) = k
    <2>1. Place(1..n, k) \in 1..n /\ Position(1..n, Place(1..n, k)) = k BY <1>1 DEF Place
    <2> QED BY <2>1, <1>1
<1>4. K = [k \in 1..n |-> text[Place(1..n, k)]] BY <1>2 DEF Kept, Place, Position
<1>5. K = [k \in 1..n |-> text[k]] BY <1>3, <1>4
<1> QED BY <1>0, <1>5

\* Spaces stand inside a text, and one at a time.
Trimmed(text) == Inner(text) = DOMAIN text
Collapsed(text) ==
    /\ Trimmed(text)
    /\ \A i \in DOMAIN text : text[i] # Space \/ text[i - 1] # Space

\* What is kept between a text's first and last solid character is trimmed.
LEMMA KeptTrimmed ==
    ASSUME NEW S, NEW text \in Seq(S), NEW places \in SUBSET Inner(text),
           \A i \in DOMAIN text : text[i] # Space => i \in places
    PROVE  Trimmed(Kept(text, places))
<1> DEFINE K == Kept(text, places)
<1>0. places \in SUBSET (DOMAIN text) /\ DOMAIN text \subseteq Int BY DEF Inner
<1>1. /\ K \in Seq(S)
      /\ \A k \in DOMAIN K : Place(places, k) \in places /\ K[k] = text[Place(places, k)]
      /\ \A k, l \in DOMAIN K : k < l => Place(places, k) < Place(places, l)
      /\ \A i \in places : \E k \in DOMAIN K : Place(places, k) = i
    BY <1>0, KeptAt
<1>2. DOMAIN K \subseteq Int BY <1>1
<1> HIDE DEF K
<1>3. ASSUME NEW k \in DOMAIN K
      PROVE  \E a, b \in DOMAIN K : a <= k /\ k <= b /\ K[a] # Space /\ K[b] # Space
    <2> DEFINE i == Place(places, k)
    <2>1. i \in places BY <1>1
    <2>2. PICK a \in DOMAIN text, b \in DOMAIN text :
              a <= i /\ i <= b /\ text[a] # Space /\ text[b] # Space
        BY <2>1 DEF Inner
    <2>3. a \in places /\ b \in places BY <2>2
    <2>4. PICK x \in DOMAIN K : Place(places, x) = a BY <1>1, <2>3
    <2>5. PICK y \in DOMAIN K : Place(places, y) = b BY <1>1, <2>3
    <2>6. K[x] # Space /\ K[y] # Space BY <1>1, <2>2, <2>4, <2>5
    <2>7. a \in Int /\ b \in Int /\ i \in Int BY <1>0, <2>1
    <2>8. x <= k
        <3> SUFFICES ASSUME k < x PROVE FALSE BY <1>2
        <3>1. i < a BY <1>1, <2>4
        <3> HIDE DEF i
        <3> QED BY <3>1, <2>2, <2>7
    <2>9. k <= y
        <3> SUFFICES ASSUME y < k PROVE FALSE BY <1>2
        <3>1. b < i BY <1>1, <2>5
        <3> HIDE DEF i
        <3> QED BY <3>1, <2>2, <2>7
    <2> QED BY <2>6, <2>8, <2>9
<1> QED BY <1>3 DEF Trimmed, Inner, K

\* Trimming leaves no space at either end.
LEMMA TrimTrims ==
    ASSUME NEW S, NEW text \in Seq(S)
    PROVE  Trimmed(TrimSpaces(text))
<1>1. DOMAIN text \subseteq Int OBVIOUS
<1>2. \A i \in DOMAIN text : text[i] # Space => i \in Inner(text) BY <1>1 DEF Inner
<1> QED BY <1>2, KeptTrimmed DEF TrimSpaces

\* Collapsing leaves no space at either end and none beside another.
LEMMA CollapseCollapses ==
    ASSUME NEW S, NEW text \in Seq(S)
    PROVE  Collapsed(CollapseSpaces(text))
<1> DEFINE places == {i \in Inner(text) : text[i] # Space \/ text[i - 1] # Space}
           K == Kept(text, places)
<1>0. DOMAIN text = 1..Len(text) /\ Len(text) \in Nat OBVIOUS
<1>1. \A i \in DOMAIN text : text[i] # Space => i \in places BY <1>0 DEF Inner
<1>2. Trimmed(K)
    <2>1. places \in SUBSET Inner(text) OBVIOUS
    <2> HIDE DEF places
    <2> QED BY <1>1, <2>1, KeptTrimmed
<1>3. places \in SUBSET (DOMAIN text) BY DEF Inner
<1>i. \A i : i \in places <=> i \in Inner(text) /\ (text[i] # Space \/ text[i - 1] # Space)
    OBVIOUS
<1> HIDE DEF places
<1>4. /\ K \in Seq(S)
      /\ \A k \in DOMAIN K : Place(places, k) \in places /\ K[k] = text[Place(places, k)]
      /\ \A k, l \in DOMAIN K : k < l => Place(places, k) < Place(places, l)
      /\ \A i \in places : \E k \in DOMAIN K : Place(places, k) = i
    BY <1>3, KeptAt
<1>5. DOMAIN K = 1..Len(K) /\ Len(K) \in Nat BY <1>4
<1> HIDE DEF K
<1>6. ASSUME NEW k \in DOMAIN K, K[k] = Space PROVE K[k - 1] # Space
    <2> DEFINE i == Place(places, k)
    <2>1. i \in places /\ text[i] = Space /\ text[i - 1] # Space BY <1>4, <1>6, <1>i
    <2>2. PICK a \in DOMAIN text, b \in DOMAIN text :
              a <= i /\ i <= b /\ text[a] # Space /\ text[b] # Space
        BY <2>1, <1>i DEF Inner
    <2> HIDE DEF i
    <2>3. i \in Int /\ a \in Int /\ b \in Int /\ i \in DOMAIN text BY <2>1, <1>0, <1>3
    <2>4. a # i BY <2>1, <2>2
    <2>5. a <= i - 1 /\ i - 1 <= b BY <2>2, <2>3, <2>4
    <2>6. i - 1 \in DOMAIN text BY <2>2, <2>3, <2>5, <1>0
    <2>7. i - 1 \in places BY <2>1, <2>6, <1>1
    <2>8. PICK h \in DOMAIN K : Place(places, h) = i - 1 BY <2>7, <1>4
    <2>9. h < k
        <3> SUFFICES ASSUME k <= h PROVE FALSE BY <1>5
        <3>1. h = k \/ k < h BY <1>5
        <3>2. i = i - 1 \/ i < i - 1 BY <3>1, <2>8, <1>4 DEF i
        <3> QED BY <3>2, <2>3
    <2>10. h = k - 1
        <3> SUFFICES ASSUME h < k - 1 PROVE FALSE BY <2>9, <1>5
        <3> DEFINE j == Place(places, k - 1)
        <3>1. k - 1 \in DOMAIN K /\ k - 1 < k BY <2>9, <1>5
        <3>2. i - 1 < j /\ j < i BY <3>1, <2>8, <1>4 DEF i
        <3>3. j \in Int BY <3>1, <1>0, <1>3, <1>4
        <3> HIDE DEF j
        <3> QED BY <3>2, <3>3, <2>3
    <2> QED BY <2>1, <2>8, <2>10, <1>4
<1>7. Collapsed(K) BY <1>2, <1>6 DEF Collapsed
<1> QED BY <1>7 DEF CollapseSpaces, K, places

\* A character of what is kept is one of the text's.
LEMMA KeptFrom ==
    ASSUME NEW S, NEW text \in Seq(S), NEW places \in SUBSET (DOMAIN text),
           NEW k \in DOMAIN Kept(text, places)
    PROVE  \E i \in places : Kept(text, places)[k] = text[i]
BY KeptAt

\* The treatment of spaces takes every character from the text.
LEMMA SpacedFrom ==
    ASSUME NEW S, NEW text \in Seq(S), NEW policy
    PROVE  /\ Spaced(text, policy) \in Seq(S)
           /\ \A k \in DOMAIN Spaced(text, policy) :
                 \E i \in DOMAIN text : Spaced(text, policy)[k] = text[i]
<1> DEFINE solid == {i \in Inner(text) : text[i] # Space \/ text[i - 1] # Space}
<1>1. Inner(text) \in SUBSET (DOMAIN text) /\ solid \in SUBSET (DOMAIN text) BY DEF Inner
<1>2. Spaced(text, policy) \in {Kept(text, solid), Kept(text, Inner(text)), text}
    BY DEF Spaced, CollapseSpaces, TrimSpaces
<1> HIDE DEF solid
<1>3. \A places \in SUBSET (DOMAIN text) :
        /\ Kept(text, places) \in Seq(S)
        /\ \A k \in DOMAIN Kept(text, places) : \E i \in DOMAIN text : Kept(text, places)[k] = text[i]
    BY KeptAt, KeptFrom
<1> QED BY <1>1, <1>2, <1>3

\* Two characters of what is kept that stand side by side stood side by side in the
\* text, or what stood beside each of them was left out.
LEMMA KeptNeighbours ==
    ASSUME NEW S, NEW text \in Seq(S), NEW places \in SUBSET (DOMAIN text),
           NEW k \in DOMAIN Kept(text, places), k - 1 \in DOMAIN Kept(text, places)
    PROVE  \E p, q \in places :
               /\ p \in Int /\ q \in Int /\ p < q
               /\ Kept(text, places)[k - 1] = text[p] /\ Kept(text, places)[k] = text[q]
               /\ q = p + 1 \/ (p + 1 \notin places /\ q - 1 \notin places)
<1> DEFINE K == Kept(text, places)
           p == Place(places, k - 1)
           q == Place(places, k)
<1>1. /\ K \in Seq(S)
      /\ \A l \in DOMAIN K : Place(places, l) \in places /\ K[l] = text[Place(places, l)]
      /\ \A l, m \in DOMAIN K : l < m => Place(places, l) < Place(places, m)
      /\ \A i \in places : \E l \in DOMAIN K : Place(places, l) = i
    BY KeptAt
<1>2. DOMAIN K = 1..Len(K) /\ Len(K) \in Nat /\ DOMAIN text = 1..Len(text) /\ Len(text) \in Nat
    BY <1>1
<1>3. k \in Int /\ k - 1 < k BY <1>2
<1>4. /\ p \in places /\ q \in places /\ p < q
      /\ K[k - 1] = text[p] /\ K[k] = text[q]
    BY <1>1, <1>3
<1>5. p \in Int /\ q \in Int BY <1>2, <1>4
<1>6. ASSUME NEW i \in places, p < i, i < q PROVE FALSE
    <2>1. PICK l \in DOMAIN K : Place(places, l) = i BY <1>1
    <2>2. l \in Int /\ i \in Int BY <1>2
    <2>3. ~(l < k - 1)
        <3> SUFFICES ASSUME l < k - 1 PROVE FALSE OBVIOUS
        <3>1. i < p BY <1>1, <2>1
        <3> HIDE DEF p
        <3> QED BY <3>1, <1>5, <1>6, <2>2
    <2>4. ~(k < l)
        <3> SUFFICES ASSUME k < l PROVE FALSE OBVIOUS
        <3>1. q < i BY <1>1, <2>1
        <3> HIDE DEF q
        <3> QED BY <3>1, <1>5, <1>6, <2>2
    <2>5. l = k - 1 \/ l = k BY <1>3, <2>2, <2>3, <2>4
    <2>6. i = p \/ i = q BY <2>1, <2>5
    <2> HIDE DEF p, q
    <2> QED BY <1>5, <1>6, <2>2, <2>6
<1> HIDE DEF K
<1>7. q = p + 1 \/ (p + 1 \notin places /\ q - 1 \notin places)
    <2> HIDE DEF p, q
    <2> QED BY <1>4, <1>5, <1>6
<1> QED BY <1>4, <1>5, <1>7 DEF K

\* Nothing in the text is left to compose, and no accent follows a punctuation mark.
Unjoined(text) == \A i \in DOMAIN text : ~Joins(text, i)
MarkFree(text) == \A i \in DOMAIN text : i - 1 \in DOMAIN text => text[i - 1] # Mark \/ text[i] # Combining

Alphabet(S) == S \cup {"e", Accented, AccentedCapital}

LEMMA Characters ==
    /\ Combining \notin {"e", Capital, Accented, AccentedCapital, Mark, Space, Wide}
    /\ {"e", Capital} \cap {Accented, AccentedCapital, Mark, Space, Wide} = {}
    /\ Mark \notin {Accented, AccentedCapital, Space}
    /\ Wide \notin {"e", Accented, AccentedCapital}
    /\ \A c : Acute(c) \in {Accented, AccentedCapital}
    /\ \A c : Casefold(c) \in {c, "e", Accented} /\ (Casefold(c) # c => c \in {Capital, AccentedCapital})
    /\ \A c : Casefold(c) \notin {Capital, AccentedCapital}
    /\ \A c : c # Capital /\ c # AccentedCapital => Casefold(c) = c
    /\ \A c : Casefold(c) \in {"e", Capital} => c \in {"e", Capital}
BY DEF Combining, Capital, Accented, AccentedCapital, Mark, Space, Wide, Acute, Casefold

\* A text in canonical form has its accents joined.
LEMMA CanonicalUnjoined ==
    ASSUME NEW S, NEW text \in Seq(S)
    PROVE  /\ Canonical(text) \in Seq(Alphabet(S))
           /\ Unjoined(Canonical(text))
           /\ MarkFree(text) => MarkFree(Canonical(text))
           /\ \A k \in DOMAIN Canonical(text) :
                 Canonical(text)[k] \in Range(text) \cup {Accented, AccentedCapital}
<1> DEFINE J == Joined(text)
           places == {i \in DOMAIN text : ~Joins(text, i)}
           K == Kept(J, places)
           T == Alphabet(S)
<1>0. DOMAIN text = 1..Len(text) /\ Len(text) \in Nat OBVIOUS
<1>1. \A i \in DOMAIN text :
        /\ J[i] = text[i] \/ J[i] \in {Accented, AccentedCapital}
        /\ J[i] = text[i] \/ text[i] \in {"e", Capital}
        /\ i + 1 \in DOMAIN text /\ Joins(text, i + 1) => J[i] \in {Accented, AccentedCapital}
        /\ J[i] \in T
    <2> SUFFICES ASSUME NEW i \in DOMAIN text
                 PROVE  /\ J[i] = text[i] \/ J[i] \in {Accented, AccentedCapital}
                        /\ J[i] = text[i] \/ text[i] \in {"e", Capital}
                        /\ i + 1 \in DOMAIN text /\ Joins(text, i + 1) => J[i] \in {Accented, AccentedCapital}
                        /\ J[i] \in T
        OBVIOUS
    <2>1. J[i] = IF i + 1 \in DOMAIN text /\ Joins(text, i + 1) THEN Acute(text[i]) ELSE text[i]
        BY DEF Joined
    <2>2. i + 1 - 1 = i BY <1>0
    <2>3. Joins(text, i + 1) => text[i] \in {"e", Capital} BY <2>2 DEF Joins
    <2>4. text[i] \in S OBVIOUS
    <2> HIDE DEF J
    <2> QED BY <2>1, <2>3, <2>4, Characters DEF Alphabet
<1>2. J = [i \in 1..Len(text) |-> J[i]] /\ DOMAIN J = DOMAIN text BY <1>0 DEF Joined
<1> HIDE DEF J, T
<1>3. J \in Seq(T)
    <2>1. \A i \in 1..Len(text) : J[i] \in T BY <1>0, <1>1
    <2> QED BY <1>0, <1>2, <2>1, IsASeq
<1>4. places \in SUBSET (DOMAIN J) BY <1>2
<1>i. \A i \in DOMAIN text : i \notin places => Joins(text, i) OBVIOUS
<1>j. \A i \in places : i \in DOMAIN text /\ ~Joins(text, i) OBVIOUS
<1> HIDE DEF places
<1>5. /\ K \in Seq(T)
      /\ \A k \in DOMAIN K : \E i \in places : K[k] = J[i]
    BY <1>3, <1>4, KeptAt, KeptFrom
<1>6. ASSUME NEW k \in DOMAIN K, k - 1 \in DOMAIN K, K[k] = Combining
      PROVE  \E p \in DOMAIN text : /\ p + 1 \in DOMAIN text /\ K[k - 1] = J[p]
                                    /\ \/ text[p + 1] = Combining /\ ~Joins(text, p + 1)
                                       \/ Joins(text, p + 1)
    <2>1. PICK p \in places, q \in places :
              /\ p \in Int /\ q \in Int /\ p < q
              /\ K[k - 1] = J[p] /\ K[k] = J[q]
              /\ q = p + 1 \/ (p + 1 \notin places /\ q - 1 \notin places)
        BY <1>3, <1>4, <1>6, KeptNeighbours
    <2>2. p \in DOMAIN text /\ q \in DOMAIN text /\ ~Joins(text, q) BY <1>j
    <2>3. p + 1 \in DOMAIN text BY <1>0, <2>1, <2>2
    <2>4. text[q] = Combining BY <1>1, <1>6, <2>1, <2>2, Characters
    <2>5. CASE q = p + 1 BY <2>1, <2>2, <2>3, <2>4, <2>5
    <2>6. CASE p + 1 \notin places BY <1>i, <2>1, <2>2, <2>3, <2>6
    <2> QED BY <2>1, <2>5, <2>6
<1>7. Unjoined(K)
    <2> SUFFICES ASSUME NEW k \in DOMAIN K, Joins(K, k) PROVE FALSE BY DEF Unjoined
    <2>1. k - 1 \in DOMAIN K /\ K[k] = Combining /\ K[k - 1] \in {"e", Capital} BY DEF Joins
    <2>2. PICK p \in DOMAIN text : /\ p + 1 \in DOMAIN text /\ K[k - 1] = J[p]
                                   /\ \/ text[p + 1] = Combining /\ ~Joins(text, p + 1)
                                      \/ Joins(text, p + 1)
        BY <1>6, <2>1
    <2>3. J[p] \notin {Accented, AccentedCapital} BY <2>1, <2>2, Characters
    <2>4. ~Joins(text, p + 1) /\ J[p] = text[p] BY <1>1, <2>2, <2>3
    <2>5. p + 1 - 1 = p BY <1>0
    <2> QED BY <2>1, <2>2, <2>4, <2>5 DEF Joins
<1>8. ASSUME MarkFree(text) PROVE MarkFree(K)
    <2> SUFFICES ASSUME NEW k \in DOMAIN K, k - 1 \in DOMAIN K, K[k - 1] = Mark, K[k] = Combining
                 PROVE  FALSE
        BY DEF MarkFree
    <2>1. PICK p \in DOMAIN text : /\ p + 1 \in DOMAIN text /\ K[k - 1] = J[p]
                                   /\ \/ text[p + 1] = Combining /\ ~Joins(text, p + 1)
                                      \/ Joins(text, p + 1)
        BY <1>6
    <2>2. J[p] = text[p] /\ text[p] = Mark BY <1>1, <2>1, Characters
    <2>3. p + 1 - 1 = p BY <1>0
    <2>4. text[p + 1] = Combining BY <2>1 DEF Joins
    <2>5. p + 1 - 1 \in DOMAIN text /\ text[p + 1 - 1] = Mark BY <2>2, <2>3
    <2>6. text[p + 1 - 1] # Mark \/ text[p + 1] # Combining
        <3>1. PICK i : i = p + 1 OBVIOUS
        <3>2. i \in DOMAIN text /\ i - 1 \in DOMAIN text BY <2>1, <2>5, <3>1
        <3>3. text[i - 1] # Mark \/ text[i] # Combining BY <1>8, <3>2 DEF MarkFree
        <3> QED BY <3>1, <3>3
    <2> QED BY <2>4, <2>5, <2>6
<1>9. \A k \in DOMAIN K : K[k] \in Range(text) \cup {Accented, AccentedCapital}
    <2> SUFFICES ASSUME NEW k \in DOMAIN K PROVE K[k] \in Range(text) \cup {Accented, AccentedCapital}
        OBVIOUS
    <2>1. PICK i \in places : K[k] = J[i] BY <1>5
    <2>2. i \in DOMAIN text BY <1>j
    <2>3. text[i] \in Range(text) BY <2>2 DEF Range
    <2>4. J[i] = text[i] \/ J[i] \in {Accented, AccentedCapital} BY <1>1, <2>2
    <2> QED BY <2>1, <2>3, <2>4
<1>10. Canonical(text) = K BY DEF Canonical, J, places
<1> HIDE DEF K
<1> QED BY <1>5, <1>7, <1>8, <1>9, <1>10 DEF T

\* A text whose accents are joined is in canonical form.
LEMMA UnjoinedCanonical ==
    ASSUME NEW S, NEW text \in Seq(S), Unjoined(text)
    PROVE  Canonical(text) = text
<1>0. DOMAIN text = 1..Len(text) /\ Len(text) \in Nat OBVIOUS
<1>1. \A i \in DOMAIN text : ~(i + 1 \in DOMAIN text /\ Joins(text, i + 1)) BY DEF Unjoined
<1>2. Joined(text) = [i \in DOMAIN text |-> text[i]] BY <1>1 DEF Joined
<1>3. Joined(text) = text BY <1>0, <1>2
<1>4. {i \in DOMAIN text : ~Joins(text, i)} = DOMAIN text BY DEF Unjoined
<1> QED BY <1>3, <1>4, KeptAll DEF Canonical

\* What composing, folding case and removing punctuation leave, whatever the policy.
LEMMA ComposedSound ==
    ASSUME NEW S, NEW text \in Seq(S), NEW policy
    PROVE  LET m == Composed(text, policy) IN
           /\ m \in Seq(Alphabet(S))
           /\ policy.unicode \in {"NFC", "NFKC"} => Unjoined(m) /\ (MarkFree(text) => MarkFree(m))
           /\ policy.unicode = "NFKC" => \A i \in DOMAIN m : m[i] # Wide
<1> DEFINE m == Composed(text, policy)
           plain == [i \in DOMAIN text |-> Compatible(text[i])]
<1>0. DOMAIN text = 1..Len(text) /\ Len(text) \in Nat OBVIOUS
<1>1. CASE policy.unicode = "NFC"
    <2>1. m = Canonical(text) BY <1>1 DEF Composed
    <2> QED BY <1>1, <2>1, CanonicalUnjoined
<1>2. CASE policy.unicode = "NFKC"
    <2>1. m = Canonical(plain) BY <1>2 DEF Composed
    <2>2. \A i \in DOMAIN text :
            /\ plain[i] \in S \cup {"e"} /\ plain[i] # Wide
            /\ plain[i] \in {Mark, Combining} => plain[i] = text[i]
        <3> SUFFICES ASSUME NEW i \in DOMAIN text
                     PROVE  /\ plain[i] \in S \cup {"e"} /\ plain[i] # Wide
                            /\ plain[i] \in {Mark, Combining} => plain[i] = text[i]
            OBVIOUS
        <3>1. plain[i] = IF text[i] = Wide THEN "e" ELSE text[i] BY DEF Compatible
        <3>2. text[i] \in S BY <1>0
        <3> HIDE DEF plain
        <3> QED BY <3>1, <3>2, Characters
    <2>3. DOMAIN plain = DOMAIN text OBVIOUS
    <2>4. plain \in Seq(S \cup {"e"}) BY <1>0, <2>2, IsASeq
    <2>5. MarkFree(text) => MarkFree(plain) BY <2>2, <2>3 DEF MarkFree
    <2>6. Wide \notin Range(plain) \cup {Accented, AccentedCapital}
        BY <2>2, <2>3, Characters DEF Range
    <2> HIDE DEF plain
    <2>7. /\ m \in Seq(Alphabet(S \cup {"e"})) /\ Unjoined(m)
          /\ MarkFree(plain) => MarkFree(m)
          /\ \A k \in DOMAIN m : m[k] \in Range(plain) \cup {Accented, AccentedCapital}
        BY <2>1, <2>4, CanonicalUnjoined
    <2>8. Alphabet(S \cup {"e"}) = Alphabet(S) BY DEF Alphabet
    <2> HIDE DEF m
    <2> QED BY <2>5, <2>6, <2>7, <2>8 DEF m
<1>3. CASE policy.unicode \notin {"NFC", "NFKC"}
    <2>1. m = text BY <1>3 DEF Composed
    <2>2. S \subseteq Alphabet(S) BY DEF Alphabet
    <2>3. text \in Seq(Alphabet(S)) BY <2>2, SeqMonotonic
    <2> QED BY <1>3, <2>1, <2>3
<1> QED BY <1>1, <1>2, <1>3

\* What is composed already stays as it is.
LEMMA ComposedStays ==
    ASSUME NEW S, NEW text \in Seq(S), NEW policy,
           policy.unicode \in {"NFC", "NFKC"} => Unjoined(text),
           policy.unicode = "NFKC" => \A i \in DOMAIN text : text[i] # Wide
    PROVE  Composed(text, policy) = text
<1>1. policy.unicode = "NFC" => Composed(text, policy) = text
    BY UnjoinedCanonical DEF Composed
<1>2. ASSUME policy.unicode = "NFKC" PROVE Composed(text, policy) = text
    <2>1. [i \in DOMAIN text |-> Compatible(text[i])] = [i \in DOMAIN text |-> text[i]]
        BY <1>2 DEF Compatible
    <2>2. [i \in DOMAIN text |-> text[i]] = text OBVIOUS
    <2> QED BY <1>2, <2>1, <2>2, UnjoinedCanonical DEF Composed
<1>3. policy.unicode \notin {"NFC", "NFKC"} => Composed(text, policy) = text BY DEF Composed
<1> QED BY <1>1, <1>2, <1>3

\* Folding case neither makes nor frees an accent.
LEMMA CasedSound ==
    ASSUME NEW S, NEW text \in Seq(Alphabet(S)), NEW policy
    PROVE  LET m == Cased(text, policy) IN
           /\ m \in Seq(Alphabet(S))
           /\ Unjoined(text) => Unjoined(m)
           /\ MarkFree(text) => MarkFree(m)
           /\ (\A i \in DOMAIN text : text[i] # Wide) => \A i \in DOMAIN m : m[i] # Wide
           /\ policy.casefold => \A i \in DOMAIN m : m[i] # Capital /\ m[i] # AccentedCapital
<1> DEFINE m == Cased(text, policy)
<1>0. DOMAIN text = 1..Len(text) /\ Len(text) \in Nat /\ DOMAIN m = DOMAIN text BY DEF Cased
<1>1. \A i \in DOMAIN text :
        /\ m[i] \in {text[i], "e", Accented}
        /\ m[i] \in {"e", Capital} => text[i] \in {"e", Capital}
        /\ policy.casefold => m[i] # Capital /\ m[i] # AccentedCapital
    <2> SUFFICES ASSUME NEW i \in DOMAIN text
                 PROVE  /\ m[i] \in {text[i], "e", Accented}
                        /\ m[i] \in {"e", Capital} => text[i] \in {"e", Capital}
                        /\ policy.casefold => m[i] # Capital /\ m[i] # AccentedCapital
        OBVIOUS
    <2>1. m[i] = IF policy.casefold THEN Casefold(text[i]) ELSE text[i] BY DEF Cased
    <2> HIDE DEF m
    <2> QED BY <2>1, Characters
<1>2. m \in Seq(Alphabet(S))
    <2>1. \A i \in 1..Len(text) : m[i] \in Alphabet(S) BY <1>0, <1>1 DEF Alphabet
    <2>2. m = [i \in 1..Len(text) |-> m[i]] BY <1>0 DEF Cased
    <2> HIDE DEF m
    <2> QED BY <1>0, <2>1, <2>2, IsASeq
<1> HIDE DEF m
<1>3. Unjoined(text) => Unjoined(m) BY <1>0, <1>1, Characters DEF Unjoined, Joins
<1>4. MarkFree(text) => MarkFree(m) BY <1>0, <1>1, Characters DEF MarkFree
<1>5. (\A i \in DOMAIN text : text[i] # Wide) => \A i \in DOMAIN m : m[i] # Wide
    BY <1>0, <1>1, Characters
<1> QED BY <1>0, <1>1, <1>2, <1>3, <1>4, <1>5 DEF m

\* Removing punctuation joins nothing where no accent follows it.
LEMMA PlainSound ==
    ASSUME NEW S, NEW text \in Seq(S), NEW policy
    PROVE  LET m == Plain(text, policy) IN
           /\ m \in Seq(S)
           /\ \A k \in DOMAIN m : \E i \in DOMAIN text : m[k] = text[i]
           /\ policy.unpunctuated => \A k \in DOMAIN m : m[k] # Mark
           /\ Unjoined(text) /\ (policy.unpunctuated => MarkFree(text)) => Unjoined(m)
<1> DEFINE places == {i \in DOMAIN text : text[i] # Mark}
           K == Kept(text, places)
<1>0. DOMAIN text = 1..Len(text) /\ Len(text) \in Nat OBVIOUS
<1>1. places \in SUBSET (DOMAIN text) OBVIOUS
<1>2. \A i \in DOMAIN text : i \in places <=> text[i] # Mark OBVIOUS
<1> HIDE DEF places
<1>3. /\ K \in Seq(S)
      /\ \A k \in DOMAIN K : \E i \in places : K[k] = text[i]
    BY <1>1, KeptAt, KeptFrom
<1>4. ASSUME Unjoined(text), MarkFree(text) PROVE Unjoined(K)
    <2> SUFFICES ASSUME NEW k \in DOMAIN K, Joins(K, k) PROVE FALSE BY DEF Unjoined
    <2>1. k - 1 \in DOMAIN K /\ K[k] = Combining /\ K[k - 1] \in {"e", Capital} BY DEF Joins
    <2>2. PICK p \in places, q \in places :
              /\ p \in Int /\ q \in Int /\ p < q /\ K[k - 1] = text[p] /\ K[k] = text[q]
              /\ q = p + 1 \/ (p + 1 \notin places /\ q - 1 \notin places)
        BY <1>1, <2>1, KeptNeighbours
    <2>3. p \in DOMAIN text /\ q \in DOMAIN text BY <1>1, <2>2
    <2>4. q - 1 \in DOMAIN text BY <1>0, <2>2, <2>3
    <2>5. q # p + 1
        <3> SUFFICES ASSUME q = p + 1 PROVE FALSE OBVIOUS
        <3>1. q - 1 = p BY <2>2
        <3> QED BY <1>4, <2>1, <2>2, <2>3, <3>1 DEF Unjoined, Joins
    <2>6. text[q - 1] = Mark BY <1>2, <2>2, <2>4, <2>5
    <2> QED BY <1>4, <2>1, <2>2, <2>3, <2>4, <2>6 DEF MarkFree
<1>5. Plain(text, policy) = IF policy.unpunctuated THEN K ELSE text BY DEF Plain, K, places
<1> HIDE DEF K
<1>6. \A i \in places : i \in DOMAIN text /\ text[i] # Mark BY <1>1, <1>2
<1> QED BY <1>3, <1>4, <1>5, <1>6

\* The treatment of spaces joins nothing either.
LEMMA SpacedUnjoined ==
    ASSUME NEW S, NEW text \in Seq(S), Unjoined(text), NEW policy
    PROVE  Unjoined(Spaced(text, policy))
<1> DEFINE solid == {i \in Inner(text) : text[i] # Space \/ text[i - 1] # Space}
<1>0. DOMAIN text = 1..Len(text) /\ Len(text) \in Nat OBVIOUS
<1>1. /\ solid \in SUBSET (DOMAIN text) /\ Inner(text) \in SUBSET (DOMAIN text)
      /\ solid \subseteq Inner(text)
    BY DEF Inner
<1>2. \A i \in Inner(text) : i \in solid <=> text[i] # Space \/ text[i - 1] # Space OBVIOUS
<1> HIDE DEF solid
<1>3. ASSUME NEW places \in {solid, Inner(text)} PROVE Unjoined(Kept(text, places))
    <2> DEFINE K == Kept(text, places)
    <2>0. places \in SUBSET (DOMAIN text) BY <1>1, <1>3
    <2> SUFFICES ASSUME NEW k \in DOMAIN K, Joins(K, k) PROVE FALSE BY DEF Unjoined
    <2>1. k - 1 \in DOMAIN K /\ K[k] = Combining /\ K[k - 1] \in {"e", Capital} BY DEF Joins
    <2>2. PICK p \in places, q \in places :
              /\ p \in Int /\ q \in Int /\ p < q /\ K[k - 1] = text[p] /\ K[k] = text[q]
              /\ q = p + 1 \/ (p + 1 \notin places /\ q - 1 \notin places)
        BY <2>0, <2>1, KeptNeighbours
    <2>3. p \in DOMAIN text /\ q \in DOMAIN text BY <2>0, <2>2
    <2>4. p + 1 \in DOMAIN text /\ p <= p + 1 /\ p + 1 <= q BY <1>0, <2>2, <2>3
    <2>5. text[p] # Space /\ text[q] # Space BY <2>1, <2>2, Characters
    <2>6. p + 1 \in Inner(text) BY <2>3, <2>4, <2>5 DEF Inner
    <2>7. PICK i : i = p + 1 OBVIOUS
    <2>8. i - 1 = p /\ i \in Inner(text) /\ i \in DOMAIN text BY <2>2, <2>4, <2>6, <2>7
    <2>9. i \in solid BY <1>2, <2>5, <2>8
    <2>10. i \in places BY <1>3, <2>8, <2>9
    <2>11. q = i BY <2>2, <2>7, <2>10
    <2>12. text[i] = Combining /\ text[i - 1] \in {"e", Capital} BY <2>1, <2>2, <2>8, <2>11
    <2>13. i - 1 \in DOMAIN text BY <2>3, <2>8
    <2> QED BY <2>8, <2>12, <2>13 DEF Unjoined, Joins
<1>4. Spaced(text, policy) \in {Kept(text, solid), Kept(text, Inner(text)), text}
    BY DEF Spaced, CollapseSpaces, TrimSpaces, solid
<1> QED BY <1>3, <1>4

\* A text made of the letters it was made of.
LEMMA NormalizedTyped ==
    ASSUME NEW S, NEW text \in Seq(S), NEW policy
    PROVE  NormalizeText(text, policy) \in Seq(Alphabet(S))
<1>1. Composed(text, policy) \in Seq(Alphabet(S)) BY ComposedSound
<1>2. Cased(Composed(text, policy), policy) \in Seq(Alphabet(S)) BY <1>1, CasedSound
<1>3. Plain(Cased(Composed(text, policy), policy), policy) \in Seq(Alphabet(S)) BY <1>2, PlainSound
<1> QED BY <1>3, SpacedFrom DEF NormalizeText

\* Normalizing a text a second time changes nothing, unless removing punctuation set
\* an accent free (localization.py: normalize_text).
THEOREM NormalizedOnce ==
    ASSUME NEW S, NEW text \in Seq(S), NEW policy, ~AccentSetFree(text, policy)
    PROVE  LET n == NormalizeText(text, policy) IN NormalizeText(n, policy) = n
<1> DEFINE T == Alphabet(S)
           composed == Composed(text, policy)
           cased == Cased(composed, policy)
           plain == Plain(cased, policy)
           n == Spaced(plain, policy)
           canonical == policy.unicode \in {"NFC", "NFKC"}
<1>0. policy.unpunctuated /\ canonical => MarkFree(text)
    <2> SUFFICES ASSUME policy.unpunctuated /\ canonical, NEW i \in DOMAIN text, i - 1 \in DOMAIN text
                 PROVE  text[i - 1] # Mark \/ text[i] # Combining
        BY DEF MarkFree
    <2>1. i - 1 + 1 = i OBVIOUS
    <2> QED BY <2>1 DEF AccentSetFree
<1>1. /\ composed \in Seq(T)
      /\ canonical => Unjoined(composed) /\ (policy.unpunctuated => MarkFree(composed))
      /\ policy.unicode = "NFKC" => \A i \in DOMAIN composed : composed[i] # Wide
    BY <1>0, ComposedSound
<1> HIDE DEF composed
<1>2. /\ cased \in Seq(T)
      /\ canonical => Unjoined(cased) /\ (policy.unpunctuated => MarkFree(cased))
      /\ policy.unicode = "NFKC" => \A i \in DOMAIN cased : cased[i] # Wide
      /\ policy.casefold => \A i \in DOMAIN cased : cased[i] # Capital /\ cased[i] # AccentedCapital
    BY <1>1, CasedSound
<1> HIDE DEF cased
<1>3. /\ plain \in Seq(T)
      /\ \A k \in DOMAIN plain : \E i \in DOMAIN cased : plain[k] = cased[i]
      /\ policy.unpunctuated => \A k \in DOMAIN plain : plain[k] # Mark
      /\ canonical => Unjoined(plain)
    <2>1. /\ plain \in Seq(T)
          /\ \A k \in DOMAIN plain : \E i \in DOMAIN cased : plain[k] = cased[i]
          /\ policy.unpunctuated => \A k \in DOMAIN plain : plain[k] # Mark
          /\ Unjoined(cased) /\ (policy.unpunctuated => MarkFree(cased)) => Unjoined(plain)
        BY <1>2, PlainSound
    <2> HIDE DEF plain, T, canonical
    <2> QED BY <1>2, <2>1, Zenon
<1> HIDE DEF plain, T, canonical
<1>4. /\ n \in Seq(T)
      /\ \A k \in DOMAIN n : \E i \in DOMAIN plain : n[k] = plain[i]
    BY <1>3, SpacedFrom
<1>5. canonical => Unjoined(n) BY <1>3, SpacedUnjoined
<1>6. /\ policy.spaces = "collapse" => Collapsed(n)
      /\ policy.spaces = "trim" => Trimmed(n)
    BY <1>3, TrimTrims, CollapseCollapses DEF Spaced
<1>7. NormalizeText(text, policy) = n BY DEF NormalizeText, n, plain, cased, composed
<1> HIDE DEF n
<1>8. Composed(n, policy) = n
    <2>1. policy.unicode = "NFKC" => \A k \in DOMAIN n : n[k] # Wide BY <1>2, <1>3, <1>4
    <2> QED BY <1>4, <1>5, <2>1, ComposedStays DEF canonical
<1>9. Cased(n, policy) = n
    <2>1. policy.casefold => \A k \in DOMAIN n : n[k] # Capital /\ n[k] # AccentedCapital
        BY <1>2, <1>3, <1>4
    <2>2. Cased(n, policy) = [k \in DOMAIN n |-> n[k]] BY <2>1, Characters DEF Cased
    <2> QED BY <1>4, <2>2
<1>10. Plain(n, policy) = n
    <2>1. policy.unpunctuated => \A k \in DOMAIN n : n[k] # Mark BY <1>3, <1>4
    <2>2. policy.unpunctuated => {k \in DOMAIN n : n[k] # Mark} = DOMAIN n BY <2>1
    <2>3. Kept(n, DOMAIN n) = n BY <1>4, KeptAll
    <2> QED BY <2>2, <2>3 DEF Plain
<1>11. Spaced(n, policy) = n
    <2>1. Kept(n, DOMAIN n) = n BY <1>4, KeptAll
    <2>2. CASE policy.spaces = "collapse"
        <3>1. {i \in Inner(n) : n[i] # Space \/ n[i - 1] # Space} = DOMAIN n
            BY <1>6, <2>2 DEF Collapsed, Trimmed
        <3> QED BY <2>1, <2>2, <3>1 DEF Spaced, CollapseSpaces
    <2>3. CASE policy.spaces = "trim" BY <1>6, <2>1, <2>3 DEF Spaced, TrimSpaces, Trimmed
    <2>4. CASE policy.spaces \notin {"collapse", "trim"} BY <2>4 DEF Spaced
    <2> QED BY <2>2, <2>3, <2>4
<1>12. NormalizeText(n, policy) = n BY <1>8, <1>9, <1>10, <1>11 DEF NormalizeText
<1> QED BY <1>7, <1>12

\* A typo is one edit that is not an accent.
LEMMA TypoIsOneEdit ==
    ASSUME NEW S, NEW left \in Seq(S), NEW right \in Seq(S), left # right
    PROVE  TypoOf(left, right) <=>
               /\ Len(left) >= 4 /\ Len(right) >= 4 /\ WithinOneEdit(left, right)
               /\ Bases(left) # Bases(right)
BY OneEditFound DEF TypoOf, AccentsOnly

\* A grading with one accepted answer, in closed form.
LEMMA GradeOfOne ==
    ASSUME NEW S, NEW text \in Seq(S), NEW answer \in Seq(S), answer # <<>>, NEW policy, NEW script
    PROVE  Grade("fuzzy_normalized", text, <<answer>>, policy, script) =
               LET n == NormalizeText(text, policy)
                   a == NormalizeText(answer, policy)
               IN  IF script \notin policy.scripts THEN "error"
                   ELSE IF \/ n = a
                           \/ /\ Len(n) >= 4 /\ Len(a) >= 4 /\ WithinOneEdit(n, a)
                              /\ Bases(n) # Bases(a)
                        THEN "correct" ELSE "wrong"
<1> DEFINE n == NormalizeText(text, policy)
           a == NormalizeText(answer, policy)
           one == <<answer>>
<1>1. n \in Seq(Alphabet(S)) /\ a \in Seq(Alphabet(S)) BY NormalizedTyped
<1>2. DOMAIN one = {1} /\ one[1] = answer /\ one # <<>> OBVIOUS
<1> HIDE DEF one
<1>3. ~(one = <<>> \/ \E i \in DOMAIN one : one[i] = <<>>) BY <1>2
<1>4. Grade("fuzzy_normalized", text, one, policy, script) =
          IF script \notin policy.scripts THEN "error"
          ELSE IF \E i \in DOMAIN one : \/ n = NormalizeText(one[i], policy)
                                       \/ TypoOf(n, NormalizeText(one[i], policy))
               THEN "correct" ELSE "wrong"
    BY <1>3 DEF Grade
<1>5. (\E i \in DOMAIN one : n = NormalizeText(one[i], policy) \/ TypoOf(n, NormalizeText(one[i], policy)))
        <=> n = a \/ TypoOf(n, a)
    BY <1>2
<1>6. n # a => (TypoOf(n, a) <=> /\ Len(n) >= 4 /\ Len(a) >= 4 /\ WithinOneEdit(n, a)
                                /\ Bases(n) # Bases(a))
    BY <1>1, TypoIsOneEdit
<1> HIDE DEF n, a
<1> QED BY <1>4, <1>5, <1>6 DEF n, a, one

GradingSample ==
    asking = "grading" => sample \in [text : Texts, answer : Answers, policy : Policies, script : Scripts]

\* Free text is graded by what one edit of it is, whichever is submitted
\* (FreeTextGrader.grade, normalize_text).
THEOREM GradesSound == CoreSpec => []GradesAgree
<1>1. CoreInit => GradingSample BY DEF CoreInit, GradingSample
<1>2. GradingSample /\ [CoreNext]_coreVars => GradingSample'
    BY DEF GradingSample, CoreNext, coreVars
<1>3. GradingSample => GradesAgree
    <2> SUFFICES ASSUME GradingSample, asking = "grading" PROVE GradesAgree BY DEF GradesAgree
    <2> DEFINE text == sample.text
               answer == sample.answer
               policy == sample.policy
               script == sample.script
               S == Range(text) \cup Range(answer)
               n == NormalizeText(text, policy)
               a == NormalizeText(answer, policy)
    <2>1. text \in Texts /\ answer \in Answers BY DEF GradingSample
    <2>2. /\ text \in Seq(Range(text))
          /\ answer \in Seq(Range(answer)) /\ answer # <<>>
        BY <2>1, GradingAssumption
    <2> HIDE DEF text, answer, policy, script
    <2>3. text \in Seq(S) /\ answer \in Seq(S) BY <2>2, SeqMonotonic
    <2> HIDE DEF S
    <2>4. ~AccentSetFree(text, policy) => NormalizeText(n, policy) = n BY <2>3, NormalizedOnce
    <2>5. Grade("fuzzy_normalized", text, <<answer>>, policy, script) =
               IF script \notin policy.scripts THEN "error"
               ELSE IF \/ n = a
                       \/ /\ Len(n) >= 4 /\ Len(a) >= 4 /\ WithinOneEdit(n, a)
                          /\ Bases(n) # Bases(a)
                    THEN "correct" ELSE "wrong"
        BY <2>2, <2>3, GradeOfOne
    <2>6. ASSUME text # <<>>
          PROVE  Grade("fuzzy_normalized", answer, <<text>>, policy, script) =
               IF script \notin policy.scripts THEN "error"
               ELSE IF \/ a = n
                       \/ /\ Len(a) >= 4 /\ Len(n) >= 4 /\ WithinOneEdit(a, n)
                          /\ Bases(a) # Bases(n)
                    THEN "correct" ELSE "wrong"
        BY <2>3, <2>6, GradeOfOne
    <2>7. WithinOneEdit(a, n) <=> WithinOneEdit(n, a)
        <3> HIDE DEF n, a
        <3> QED BY DEF WithinOneEdit
    <2>8. text # <<>> => Grade("fuzzy_normalized", text, <<answer>>, policy, script)
                             = Grade("fuzzy_normalized", answer, <<text>>, policy, script)
        <3> HIDE DEF n, a
        <3> QED BY <2>5, <2>6, <2>7
    <2> QED BY <2>4, <2>5, <2>8 DEF GradesAgree, text, answer, policy, script
<1> QED BY <1>1, <1>2, <1>3, PTL DEF CoreSpec

-----------------------------------------------------------------------------
(* Forecasts. *)

Total(f) == FoldFunction(+, 0, f)

\* A sum over a set is what grows by f[x] with each x.
LEMMA SumUnique ==
    ASSUME NEW f, IsFiniteSet(DOMAIN f), NEW W, W[{}] = 0,
           \A s \in SUBSET (DOMAIN f) : \A x \in s : W[s] = f[x] + W[s \ {x}]
    PROVE  Total(f) = W[DOMAIN f]
<1> DEFINE D == DOMAIN f
           Some(s) == CHOOSE x \in s : TRUE
           Sums(it) == it = [s \in SUBSET D |-> IF s = {} THEN 0 ELSE f[Some(s)] + it[s \ {Some(s)}]]
           V == [s \in SUBSET D |-> W[s]]
           sum == CHOOSE it : Sums(it)
<1>0. \A s \in SUBSET D : s # {} => Some(s) \in s /\ s \ {Some(s)} \in SUBSET D OBVIOUS
<1>1. Sums(V)
    <2> HIDE DEF Some
    <2>1. ASSUME NEW s \in SUBSET D
          PROVE  W[s] = IF s = {} THEN 0 ELSE f[Some(s)] + V[s \ {Some(s)}]
        BY <1>0
    <2> QED BY <2>1
<1>2. Sums(sum) BY <1>1
<1>3. Total(f) = sum[D]
    BY DEF Total, FoldFunction, FoldFunctionOnSet, MapThenFoldSet
<1> HIDE DEF sum, Some
<1>4. \A s \in SUBSET D : sum[s] = IF s = {} THEN 0 ELSE f[Some(s)] + sum[s \ {Some(s)}] BY <1>2
<1> HIDE DEF Sums, D
<1>5. \A s \in SUBSET D : sum[s] = W[s]
    <2> DEFINE Bad == {n \in Nat : \E s \in SUBSET D : Cardinality(s) = n /\ sum[s] # W[s]}
    <2>1. Bad = {}
        <3> SUFFICES ASSUME Bad # {} PROVE FALSE OBVIOUS
        <3>1. PICK n \in Bad : \A m \in Bad : n <= m
            <4>1. Bad \in SUBSET Nat OBVIOUS
            <4> HIDE DEF Bad
            <4> QED BY <4>1, LeastNumber
        <3>2. PICK s \in SUBSET D : Cardinality(s) = n /\ sum[s] # W[s] OBVIOUS
        <3>3. s # {} BY <3>2, <1>4
        <3> DEFINE x == Some(s)
                   t == s \ {x}
        <3>4. x \in s /\ t \in SUBSET D BY <3>3, <1>0
        <3>5. IsFiniteSet(s) BY FS_Subset DEF D
        <3>6. Cardinality(t) = n - 1 /\ Cardinality(t) \in Nat
            BY <3>2, <3>4, <3>5, FS_RemoveElement, FS_CardinalityType
        <3>7. Cardinality(t) \notin Bad
            <4>1. n \in Nat OBVIOUS
            <4> HIDE DEF Bad, t
            <4>2. ~(n <= Cardinality(t)) BY <3>6, <4>1
            <4> QED BY <3>1, <4>2
        <3>8. sum[t] = W[t] BY <3>4, <3>6, <3>7
        <3>9. sum[s] = f[x] + sum[t] BY <3>3, <1>4
        <3>10. W[s] = f[x] + W[t] BY <3>4 DEF D
        <3> QED BY <3>2, <3>8, <3>9, <3>10
    <2>2. \A s \in SUBSET D : Cardinality(s) \in Nat BY FS_Subset, FS_CardinalityType DEF D
    <2> QED BY <2>1, <2>2
<1> QED BY <1>3, <1>5 DEF D

\* The quotient is the number whose multiples enclose the dividend.
LEMMA DivBetween ==
    ASSUME NEW a \in Nat, NEW q \in Nat, q > 0, NEW h \in Int
    PROVE  a \div q = h <=> h * q <= a /\ a < h * q + q
OBVIOUS

\* And so is the one rounded up.
LEMMA CeilBetween ==
    ASSUME NEW a \in Nat, NEW q \in Nat, q > 0, NEW h \in Int
    PROVE  /\ CeilDiv(a, q) \in Nat
           /\ CeilDiv(a, q) = h <=> (h - 1) * q < a /\ a <= h * q
           /\ CeilDiv(a, q) <= h <=> a <= h * q
<1> DEFINE d == CeilDiv(a, q)
<1>1. a + q - 1 \in Nat OBVIOUS
<1>2. \A k \in Int : d = k <=> k * q <= a + q - 1 /\ a + q - 1 < k * q + q
    BY <1>1, DivBetween DEF CeilDiv
<1>3. d \in Nat BY <1>1 DEF CeilDiv
<1> HIDE DEF d
<1>4. \A k \in Int : (k - 1) * q = k * q - q OBVIOUS
<1>5. \A k \in Int : k * q \in Int OBVIOUS
<1>6. d = h <=> (h - 1) * q < a /\ a <= h * q BY <1>2, <1>4, <1>5
<1>7. d * q <= a + q - 1 /\ a <= d * q BY <1>2, <1>3, <1>5
<1>8. d <= h <=> a <= h * q
    <2>1. ASSUME d <= h PROVE a <= h * q
        <3>1. d * q <= h * q BY <2>1, <1>3
        <3> QED BY <3>1, <1>7, <1>3, <1>5
    <2>2. ASSUME h < d PROVE h * q < a
        <3>1. h + 1 <= d BY <2>2, <1>3
        <3>2. (h + 1) * q <= d * q BY <3>1, <1>3
        <3>3. (h + 1) * q = h * q + q OBVIOUS
        <3> QED BY <3>2, <3>3, <1>7, <1>3, <1>5
    <2> QED BY <2>1, <2>2, <1>3, <1>5
<1> QED BY <1>3, <1>6, <1>8 DEF d

\* The cards of a day, one by one, are as many as its quota leaves.
LEMMA CardsOfDay ==
    ASSUME NEW remaining \in Nat, NEW quota \in Nat, quota > 0, NEW day \in Nat, day > 0
    PROVE  Cardinality({c \in 1..remaining : DayOf(c, quota) = day})
               = LeastOf(quota, MostOf(0, remaining - quota * (day - 1)))
<1> DEFINE Q == quota * (day - 1)
           last == LeastOf(remaining, Q + quota)
<1>1. Q \in Nat
    <2>1. day - 1 \in Nat OBVIOUS
    <2> QED BY <2>1
<1>2. (day - 1) * quota = Q /\ day * quota = Q + quota OBVIOUS
<1> HIDE DEF Q
<1>3. last \in Nat BY <1>1 DEF LeastOf
<1>4. {c \in 1..remaining : DayOf(c, quota) = day} = (Q + 1)..last
    <2>1. ASSUME NEW c \in 1..remaining PROVE DayOf(c, quota) = day <=> Q < c /\ c <= Q + quota
        <3>1. c \in Nat /\ day \in Int OBVIOUS
        <3>2. CeilDiv(c, quota) = day <=> (day - 1) * quota < c /\ c <= day * quota BY <3>1, CeilBetween
        <3> QED BY <3>2, <1>2 DEF DayOf
    <2>2. \A c \in Int : c \in (Q + 1)..last <=> c \in 1..remaining /\ Q < c /\ c <= Q + quota
        BY <1>1 DEF LeastOf
    <2> QED BY <2>1, <2>2, <1>3, <1>1
<1>5. Cardinality((Q + 1)..last) = IF Q + 1 > last THEN 0 ELSE last - (Q + 1) + 1
    <2>1. Q + 1 \in Int /\ last \in Int BY <1>1, <1>3
    <2> HIDE DEF last
    <2> QED BY <2>1, FS_Interval
<1>6. (IF Q + 1 > last THEN 0 ELSE last - (Q + 1) + 1) = LeastOf(quota, MostOf(0, remaining - Q))
    BY <1>1 DEF LeastOf, MostOf
<1> QED BY <1>4, <1>5, <1>6 DEF Q

\* The reviews due on each day, by their place in the sequence of reviews.
DueIn(start, horizon) ==
    {p \in (start..horizon) \X DOMAIN ReviewDays : p[1] - ReviewDays[p[2]] >= 1}
Loads(remaining, quota, start, horizon) ==
    [p \in DueIn(start, horizon) |-> IntroducedOn(remaining, quota, p[1] - ReviewDays[p[2]])]

\* Summing up the reviews due of the cards of each day counts each review of a
\* card that falls into the week.
LEMMA ReviewsSummed ==
    ASSUME NEW remaining \in Nat, NEW quota \in Nat, quota > 0,
           NEW start \in Nat, start > 0, NEW horizon \in Nat
    PROVE  Total(Loads(remaining, quota, start, horizon))
               = Cardinality(ReviewsIn(remaining, quota, start, horizon))
<1> DEFINE R == DOMAIN ReviewDays
           All == (1..remaining) \X R
           Due == {p \in (start..horizon) \X R : p[1] - ReviewDays[p[2]] >= 1}
           Count(p) == IntroducedOn(remaining, quota, p[1] - ReviewDays[p[2]])
           f == [p \in Due |-> Count(p)]
           When(q) == <<DayOf(q[1], quota) + ReviewDays[q[2]], q[2]>>
           Of(s) == {q \in All : When(q) \in s}
           W == [s \in SUBSET Due |-> Cardinality(Of(s))]
<1>1. R = 1..6 /\ \A r \in R : ReviewDays[r] \in Nat BY DEF ReviewDays
<1>2. IsFiniteSet(R) /\ IsFiniteSet(1..remaining) /\ IsFiniteSet(start..horizon)
    <2>1. \A a, b \in Int : IsFiniteSet(a..b) BY FS_Interval
    <2>0. 1 \in Int /\ 6 \in Int /\ remaining \in Int /\ start \in Int /\ horizon \in Int OBVIOUS
    <2>2. IsFiniteSet(1..6) /\ IsFiniteSet(1..remaining) /\ IsFiniteSet(start..horizon)
        BY <2>0, <2>1, Zenon
    <2>3. R = 1..6 BY <1>1
    <2> QED BY <2>2, <2>3
<1>d. \A c \in 1..remaining : DayOf(c, quota) \in Nat
    <2> SUFFICES ASSUME NEW c \in 1..remaining PROVE CeilDiv(c, quota) \in Nat BY DEF DayOf
    <2>1. c \in Nat /\ 0 \in Int OBVIOUS
    <2> QED BY <2>1, CeilBetween
<1>3. IsFiniteSet(All) BY <1>2, FS_Product
<1>4. IsFiniteSet(Due)
    <2>1. IsFiniteSet((start..horizon) \X R) BY <1>2, FS_Product
    <2> QED BY <2>1, FS_Subset
<1>5. \A s : IsFiniteSet(Of(s)) /\ Cardinality(Of(s)) \in Nat
    <2> SUFFICES ASSUME NEW s PROVE IsFiniteSet(Of(s)) /\ Cardinality(Of(s)) \in Nat OBVIOUS
    <2>1. Of(s) \in SUBSET All OBVIOUS
    <2> HIDE DEF Of, All
    <2> QED BY <2>1, <1>3, FS_Subset, FS_CardinalityType
<1>6. ASSUME NEW x \in Due PROVE Cardinality(Of({x})) = Count(x)
    <2> DEFINE day == x[1] - ReviewDays[x[2]]
               Cs == {c \in 1..remaining : DayOf(c, quota) = day}
               g == [c \in Cs |-> <<c, x[2]>>]
    <2>1. x[1] \in start..horizon /\ x[2] \in R /\ x = <<x[1], x[2]>> /\ day >= 1 OBVIOUS
    <2>2. day \in Nat /\ ReviewDays[x[2]] \in Nat BY <2>1, <1>1
    <2>3. \A c \in 1..remaining : DayOf(c, quota) \in Nat BY <1>d
    <2>4. \A q \in All : q[1] \in 1..remaining /\ q[2] \in R /\ q = <<q[1], q[2]>> OBVIOUS
    <2>5. \A q \in All : When(q) = x <=> q[2] = x[2] /\ DayOf(q[1], quota) = day
        BY <2>1, <2>2, <2>3, <2>4
    <2>6. \A q : q \in Of({x}) <=> \E c \in Cs : q = <<c, x[2]>>
        <3>1. ASSUME NEW q, q \in Of({x}) PROVE \E c \in Cs : q = <<c, x[2]>>
            BY <3>1, <2>4, <2>5
        <3>2. ASSUME NEW c \in Cs PROVE <<c, x[2]>> \in Of({x})
            <4>1. <<c, x[2]>> \in All BY <2>1
            <4> QED BY <4>1, <2>5
        <3> QED BY <3>1, <3>2
    <2> HIDE DEF Of, Cs
    <2>7. g \in Surjection(Cs, Of({x})) BY <2>6 DEF Surjection
    <2>8. g \in Injection(Cs, Of({x})) BY <2>6 DEF Injection, IsInjective
    <2>9. IsFiniteSet(Cs) BY <1>2, FS_Subset DEF Cs
    <2>10. Cardinality(Of({x})) = Cardinality(Cs) BY <2>7, <2>8, <2>9, FS_Surjection
    <2>11. Cardinality(Cs) = LeastOf(quota, MostOf(0, remaining - quota * (day - 1)))
        <3>1. day \in Nat /\ day > 0 BY <2>1, <2>2
        <3> HIDE DEF day
        <3> QED BY <3>1, CardsOfDay DEF Cs
    <2> QED BY <2>10, <2>11 DEF IntroducedOn
<1>7. W[{}] = 0
    <2>1. Of({}) = {} OBVIOUS
    <2> QED BY <2>1, FS_EmptySet
<1>8. ASSUME NEW s \in SUBSET Due, NEW x \in s PROVE W[s] = f[x] + W[s \ {x}]
    <2>1. Of(s) = Of({x}) \cup Of(s \ {x}) /\ Of({x}) \cap Of(s \ {x}) = {} OBVIOUS
    <2> HIDE DEF Of
    <2>2. Cardinality(Of(s)) = Cardinality(Of({x})) + Cardinality(Of(s \ {x})) - Cardinality({})
        BY <2>1, <1>5, FS_Union
    <2>3. Cardinality({}) = 0 BY FS_EmptySet
    <2>4. W[s] = Cardinality(Of(s)) /\ W[s \ {x}] = Cardinality(Of(s \ {x})) OBVIOUS
    <2>5. f[x] = Cardinality(Of({x}))
        <3>1. x \in Due OBVIOUS
        <3> HIDE DEF Due
        <3> QED BY <3>1, <1>6
    <2>6. Cardinality(Of({x})) \in Nat /\ Cardinality(Of(s \ {x})) \in Nat BY <1>5
    <2> HIDE DEF W, f
    <2> QED BY <2>2, <2>3, <2>4, <2>5, <2>6
<1>9. Total(f) = W[Due]
    <2>1. DOMAIN f = Due OBVIOUS
    <2> HIDE DEF f, W, Due
    <2> QED BY <2>1, <1>4, <1>7, <1>8, SumUnique
<1>10. Of(Due) = ReviewsIn(remaining, quota, start, horizon)
    <2>1. ASSUME NEW q \in All PROVE When(q) \in Due <=> DayOf(q[1], quota) + ReviewDays[q[2]] \in start..horizon
        <3>1. q[1] \in 1..remaining /\ q[2] \in R OBVIOUS
        <3>2. DayOf(q[1], quota) \in Nat /\ ReviewDays[q[2]] \in Nat
            BY <3>1, <1>1, <1>d
        <3>3. DayOf(q[1], quota) >= 1
            <4>1. DayOf(q[1], quota) <= 0 <=> q[1] <= 0 * quota BY <3>1, CeilBetween DEF DayOf
            <4> QED BY <4>1, <3>1, <3>2
        <3>4. (DayOf(q[1], quota) + ReviewDays[q[2]]) - ReviewDays[q[2]] >= 1 BY <3>2, <3>3
        <3> QED BY <3>1, <3>4
    <2> QED BY <2>1 DEF ReviewsIn
<1>11. Loads(remaining, quota, start, horizon) = f BY DEF Loads, DueIn
<1> HIDE DEF f, W, Due
<1>12. W[Due] = Cardinality(Of(Due)) BY DEF W
<1> HIDE DEF Of
<1> QED BY <1>9, <1>10, <1>11, <1>12

\* Deliveries and sessions share the forecast cards within the budget.
LEMMA SplitSound ==
    ASSUME NEW new \in Nat, NEW reviews \in Nat, NEW budget \in Nat, NEW teasers \in Nat
    PROVE  LET split == DeliverySplit(new, reviews, budget, teasers) IN
           /\ split.delivered + split.active = new + reviews
           /\ split.delivered <= budget
BY DEF DeliverySplit, LeastOf, MostOf

\* The arithmetic of the forecast counts the cards and their reviews.
LEMMA ForecastSound ==
    ASSUME NEW selected \in Nat, NEW introduced \in Nat, NEW plan, PlanValid(plan),
           plan.maxNew \in Int, plan.teasers \in Int,
           NEW days \in Nat, NEW budget \in Nat, NEW horizon \in Nat, horizon > 0
    PROVE  LET f == Forecast(selected, introduced, plan, days, budget, horizon)
               quota == plan.maxNew
               weekStart == MostOf(1, horizon - 6)
           IN  /\ quota = 0 => f.new = 0 /\ f.reviews = 0
               /\ quota > 0 =>
                   /\ f.new = Cardinality({c \in 1..f.remaining : DayOf(c, quota) = horizon})
                   /\ f.reviews = CeilDiv(Cardinality(ReviewsIn(f.remaining, quota, weekStart, horizon)),
                                          horizon - weekStart + 1)
               /\ days > 0 => (f.feasible <=> quota * days >= f.remaining)
               /\ f.split.delivered + f.split.active = f.new + f.reviews
               /\ f.split.delivered <= budget
<1> DEFINE f == Forecast(selected, introduced, plan, days, budget, horizon)
           quota == plan.maxNew
           start == MostOf(1, horizon - 6)
           target == TargetCards(selected, plan.coverage)
           remaining == MostOf(0, target - LeastOf(introduced, selected))
           required == IF days = 0 THEN LeastOf(quota, remaining) ELSE RequiredPerDay(remaining, days)
           new == ProjectedNewLoad(remaining, quota, horizon)
           reviews == ProjectedReviewLoad(remaining, quota, horizon)
           split == DeliverySplit(new, reviews, budget, plan.teasers)
<1>1. f = [remaining |-> remaining, required |-> required,
           feasible |-> days = 0 \/ required <= quota,
           new |-> new, reviews |-> reviews, split |-> split,
           withinQuota |-> reviews <= plan.maxReviews]
    BY DEF Forecast
<1>2. quota \in Nat /\ plan.teasers \in Nat BY DEF PlanValid
<1>3. target \in Nat
    <2>1. plan.coverage \in Nat BY DEF PlanValid
    <2>2. selected * plan.coverage \in Nat BY <2>1
    <2> QED BY <2>2, CeilBetween DEF TargetCards
<1> HIDE DEF target
<1>4. remaining \in Nat BY <1>3 DEF MostOf, LeastOf
<1>5. start \in Nat /\ start > 0 /\ start <= horizon BY DEF MostOf
<1>6. f.remaining = remaining /\ f.new = new /\ f.reviews = reviews /\ f.split = split
      /\ f.feasible = (days = 0 \/ required <= quota)
    BY <1>1
<1> HIDE DEF f, quota, remaining, start
<1>7. quota = 0 => new = 0 /\ reviews = 0 BY DEF ProjectedNewLoad, ProjectedReviewLoad
<1>8. ASSUME quota > 0
      PROVE  new = Cardinality({c \in 1..remaining : DayOf(c, quota) = horizon})
    <2>1. Cardinality({c \in 1..remaining : DayOf(c, quota) = horizon})
              = LeastOf(quota, MostOf(0, remaining - quota * (horizon - 1)))
        BY <1>2, <1>4, <1>8, CardsOfDay
    <2>2. MostOf(0, horizon - 1) = horizon - 1 BY DEF MostOf
    <2>3. quota * (horizon - 1) \in Nat
        <3>1. horizon - 1 \in Nat OBVIOUS
        <3> QED BY <3>1, <1>2
    <2>4. CASE remaining = 0
        <3>1. LeastOf(quota, MostOf(0, remaining - quota * (horizon - 1))) = 0
            BY <2>3, <2>4, <1>2, <1>8 DEF LeastOf, MostOf
        <3> QED BY <2>1, <2>4, <3>1 DEF ProjectedNewLoad
    <2>5. CASE remaining # 0
        <3>1. new = LeastOf(quota, MostOf(0, remaining - quota * MostOf(0, horizon - 1)))
            BY <2>5, <1>2, <1>8 DEF ProjectedNewLoad
        <3> QED BY <2>1, <2>2, <3>1
    <2> QED BY <2>4, <2>5
<1>9. ASSUME quota > 0
      PROVE  /\ reviews = CeilDiv(Cardinality(ReviewsIn(remaining, quota, start, horizon)), horizon - start + 1)
             /\ Cardinality(ReviewsIn(remaining, quota, start, horizon)) \in Nat
    <2> DEFINE In == ReviewsIn(remaining, quota, start, horizon)
               loads == Loads(remaining, quota, start, horizon)
    <2>1. Total(loads) = Cardinality(In)
        BY <1>2, <1>4, <1>5, <1>9, ReviewsSummed
    <2>2. IsFiniteSet(In) /\ Cardinality(In) \in Nat
        <3>1. IsFiniteSet(1..remaining) /\ IsFiniteSet(DOMAIN ReviewDays)
            <4>1. \A a, b \in Int : IsFiniteSet(a..b) BY FS_Interval
            <4>2. 1 \in Int /\ 6 \in Int /\ remaining \in Int BY <1>4
            <4>3. IsFiniteSet(1..remaining) /\ IsFiniteSet(1..6) BY <4>1, <4>2, Zenon
            <4> QED BY <4>3 DEF ReviewDays
        <3>2. IsFiniteSet((1..remaining) \X DOMAIN ReviewDays) BY <3>1, FS_Product
        <3>3. In \in SUBSET ((1..remaining) \X DOMAIN ReviewDays) BY DEF ReviewsIn
        <3> HIDE DEF In
        <3> QED BY <3>2, <3>3, FS_Subset, FS_CardinalityType
    <2>3. CASE remaining = 0
        <3>1. In = {} BY <2>3 DEF ReviewsIn
        <3>2. Cardinality(In) = 0 BY <3>1, FS_EmptySet
        <3>3. CeilDiv(0, horizon - start + 1) = 0
            <4> DEFINE n == horizon - start + 1
            <4>1. n \in Nat /\ n > 0 BY <1>5
            <4> HIDE DEF n
            <4>2. CeilDiv(0, n) = 0 <=> (0 - 1) * n < 0 /\ 0 <= 0 * n BY <4>1, CeilBetween
            <4>3. CeilDiv(0, n) = 0 BY <4>1, <4>2
            <4> QED BY <4>3 DEF n
        <3>4. reviews = 0 BY <2>3 DEF ProjectedReviewLoad
        <3> QED BY <2>2, <3>2, <3>3, <3>4
    <2>4. CASE remaining # 0
        <3>1. reviews = CeilDiv(Total(loads), horizon - start + 1)
            <4>1. ~(remaining = 0 \/ quota = 0) BY <2>4, <1>2, <1>9
            <4> QED BY <4>1, Zenon DEF ProjectedReviewLoad, start, Loads, DueIn, Total
        <3> HIDE DEF loads
        <3>2. reviews = CeilDiv(Cardinality(In), horizon - start + 1) BY <2>1, <3>1, Zenon
        <3> QED BY <2>2, <3>2
    <2> QED BY <2>3, <2>4
<1>10. ASSUME days > 0 PROVE (days = 0 \/ required <= quota) <=> quota * days >= remaining
    <2>1. required = CeilDiv(remaining, days) BY <1>10 DEF RequiredPerDay, MostOf
    <2>2. CeilDiv(remaining, days) <= quota <=> remaining <= quota * days
        <3>1. quota \in Int BY <1>2
        <3> QED BY <3>1, <1>4, <1>10, CeilBetween
    <2>3. quota * days \in Int BY <1>2
    <2> QED BY <2>1, <2>2, <2>3, <1>4, <1>10
<1>11. new \in Nat /\ reviews \in Nat
    <2>1. CASE quota = 0 BY <2>1, <1>7
    <2>2. CASE quota > 0
        <3>1. new \in Nat
            <4>1. IsFiniteSet({c \in 1..remaining : DayOf(c, quota) = horizon})
                <5>1. IsFiniteSet(1..remaining) BY <1>4, FS_Interval
                <5> QED BY <5>1, FS_Subset
            <4> QED BY <4>1, <2>2, <1>8, FS_CardinalityType
        <3>2. reviews \in Nat
            <4> DEFINE n == horizon - start + 1
                       m == Cardinality(ReviewsIn(remaining, quota, start, horizon))
            <4>1. n \in Nat /\ n > 0 BY <1>5
            <4>2. m \in Nat /\ reviews = CeilDiv(m, n) BY <2>2, <1>9
            <4> HIDE DEF n, m, reviews
            <4> QED BY <4>1, <4>2, CeilBetween
        <3> QED BY <3>1, <3>2
    <2> QED BY <2>1, <2>2, <1>2
<1>12. split.delivered + split.active = new + reviews /\ split.delivered <= budget
    <2> HIDE DEF new, reviews
    <2> QED BY <1>11, <1>2, SplitSound
<1> HIDE DEF new, reviews, split, required
<1>13. /\ quota = 0 => f.new = 0 /\ f.reviews = 0
       /\ quota > 0 =>
            /\ f.new = Cardinality({c \in 1..f.remaining : DayOf(c, quota) = horizon})
            /\ f.reviews = CeilDiv(Cardinality(ReviewsIn(f.remaining, quota, start, horizon)),
                                   horizon - start + 1)
       /\ days > 0 => (f.feasible <=> quota * days >= f.remaining)
       /\ f.split.delivered + f.split.active = f.new + f.reviews
       /\ f.split.delivered <= budget
    BY <1>6, <1>7, <1>8, <1>9, <1>10, <1>12
<1> QED BY <1>13 DEF f, quota, start

ForecastSample ==
    asking = "forecast" =>
        sample \in [selected : Counts, introduced : Counts, plan : Plans, days : Deadlines,
                    budget : Budgets, horizon : Horizons]

\* The load forecast of a learning plan says what introducing and reviewing the
\* cards one by one would come to (LearningPlanService.async_forecast).
THEOREM ForecastCounts == CoreSpec => []ForecastAgrees
<1>1. CoreInit => ForecastSample BY DEF CoreInit, ForecastSample
<1>2. ForecastSample /\ [CoreNext]_coreVars => ForecastSample'
    BY DEF ForecastSample, CoreNext, coreVars
<1>3. ForecastSample => ForecastAgrees
    <2> SUFFICES ASSUME ForecastSample, asking = "forecast", PlanValid(sample.plan) PROVE ForecastAgrees
        BY DEF ForecastAgrees
    <2>0. /\ sample.selected \in Counts /\ sample.introduced \in Counts /\ sample.days \in Deadlines
          /\ sample.budget \in Budgets /\ sample.horizon \in Horizons /\ sample.plan \in Plans
        BY DEF ForecastSample
    <2>1. /\ sample.selected \in Nat /\ sample.introduced \in Nat /\ sample.days \in Nat
          /\ sample.budget \in Nat /\ sample.horizon \in Nat /\ sample.horizon > 0
          /\ sample.plan.maxNew \in Int /\ sample.plan.teasers \in Int
        <3>1. \A h \in Horizons : h \in Nat /\ h > 0 BY ForecastAssumption
        <3>2. \A plan \in Plans : plan.maxNew \in Int /\ plan.teasers \in Int BY ForecastAssumption
        <3>3. Counts \subseteq Nat /\ Deadlines \subseteq Nat /\ Budgets \subseteq Nat
            BY ForecastAssumption
        <3> QED BY <2>0, <3>1, <3>2, <3>3, Zenon
    <2> QED BY <2>1, ForecastSound DEF ForecastAgrees
<1> QED BY <1>1, <1>2, <1>3, PTL DEF CoreSpec

-----------------------------------------------------------------------------
(* Questions. *)

Clash(c, d) == c.answer = d.answer \/ c.text = d.text

\* Which places are taken is decided in their order.
TakenBy(prompt, pool, places, t, i) ==
    /\ Safe(prompt, pool[i])
    /\ \A j \in {k \in places : k < i} : Clash(pool[j], pool[i]) => ~t[j]

\* There is a function that decides every place so.
LEMMA TakenExists ==
    ASSUME NEW prompt, NEW pool, NEW N \in Nat, NEW places \in SUBSET (1..N)
    PROVE  \E t : t = [i \in places |-> TakenBy(prompt, pool, places, t, i)]
<1> DEFINE Body(t, i) == TakenBy(prompt, pool, places, t, i)
           Upto(n) == {i \in places : i <= n}
           Done(n) == \E t \in [Upto(n) -> BOOLEAN] : \A i \in Upto(n) : t[i] = Body(t, i)
           Bad == {n \in Nat : ~Done(n)}
<1>0. \A i \in places : i \in Int /\ 1 <= i /\ i <= N OBVIOUS
<1>1. Bad = {}
    <2> SUFFICES ASSUME Bad # {} PROVE FALSE OBVIOUS
    <2>1. PICK n \in Bad : \A m \in Bad : n <= m
        <3>1. Bad \in SUBSET Nat OBVIOUS
        <3> HIDE DEF Bad
        <3> QED BY <3>1, LeastNumber
    <2>2. n \in Nat /\ ~Done(n) OBVIOUS
    <2>3. n # 0
        <3>1. Upto(0) = {}
            <4>1. \A i \in places : ~(i <= 0) BY <1>0
            <4> QED BY <4>1
        <3>2. [i \in Upto(0) |-> TRUE] \in [Upto(0) -> BOOLEAN] OBVIOUS
        <3>3. Done(0) BY <3>1, <3>2
        <3> HIDE DEF Done
        <3> QED BY <2>2, <3>3
    <2>4. Done(n - 1)
        <3>1. n - 1 \in Nat /\ ~(n <= n - 1) BY <2>2, <2>3
        <3>2. n - 1 \notin Bad BY <2>1, <3>1
        <3> HIDE DEF Done
        <3> QED BY <3>1, <3>2
    <2>5. PICK t \in [Upto(n - 1) -> BOOLEAN] : \A i \in Upto(n - 1) : t[i] = Body(t, i) BY <2>4
    <2> DEFINE u == [i \in Upto(n) |-> IF i \in Upto(n - 1) THEN t[i] ELSE Body(t, i)]
    <2>6. \A i \in Upto(n) : i \in Upto(n - 1) \/ i = n BY <2>2
    <2>7. ASSUME NEW i \in Upto(n) PROVE Body(u, i) = Body(t, i)
        <3>1. \A j \in {k \in places : k < i} : j \in Upto(n - 1) /\ j \in Upto(n) BY <2>2
        <3>2. \A j \in {k \in places : k < i} : u[j] = t[j] BY <3>1
        <3> HIDE DEF u, Upto
        <3> QED BY <3>2 DEF TakenBy
    <2>8. \A i \in Upto(n) : Body(t, i) \in BOOLEAN BY DEF TakenBy
    <2>9. u \in [Upto(n) -> BOOLEAN] BY <2>8
    <2>10. \A i \in Upto(n) : u[i] = Body(u, i)
        <3> SUFFICES ASSUME NEW i \in Upto(n) PROVE u[i] = Body(t, i) BY <2>7
        <3> QED BY <2>5
    <2>11. Done(n)
        <3> HIDE DEF u, Body, Upto
        <3> QED BY <2>9, <2>10
    <2> HIDE DEF Done
    <2> QED BY <2>2, <2>11
<1>2. Done(N)
    <2> HIDE DEF Done
    <2> QED BY <1>1
<1>3. Upto(N) = places BY <1>0
<1>4. PICK t \in [places -> BOOLEAN] : \A i \in places : t[i] = Body(t, i)
    <2> HIDE DEF Upto, Body
    <2> QED BY <1>2, <1>3
<1>5. t = [i \in places |-> Body(t, i)]
    <2> HIDE DEF Body
    <2> QED BY <1>4
<1> QED BY <1>5

\* Those offered are safe and unlike each other; what is safe and not offered is
\* like one that is.
LEMMA EligibleSound ==
    ASSUME NEW prompt, NEW pool, NEW N \in Nat, NEW places \in SUBSET (1..N)
    PROVE  LET E == Eligible(prompt, pool, places) IN
           /\ E \in SUBSET {pool[i] : i \in places} /\ IsFiniteSet(E)
           /\ \A c \in E : Safe(prompt, c)
           /\ \A c, d \in E : c # d => ~Clash(c, d)
           /\ \A i \in places : Safe(prompt, pool[i]) => \E c \in E : Clash(c, pool[i])
<1> DEFINE t == CHOOSE f : f = [i \in places |-> TakenBy(prompt, pool, places, f, i)]
           T == {k \in places : t[k]}
           E == Eligible(prompt, pool, places)
<1>0. \E f : f = [i \in places |-> TakenBy(prompt, pool, places, f, i)] BY TakenExists
<1>1. t = [i \in places |-> TakenBy(prompt, pool, places, t, i)] BY <1>0
<1>2. E = {pool[i] : i \in T} BY DEF Eligible, TakenBy, Clash
<1> HIDE DEF t, E
<1>3. \A i \in places : t[i] = TakenBy(prompt, pool, places, t, i) BY <1>1
<1>4. \A i \in T : i \in places /\ TakenBy(prompt, pool, places, t, i) BY <1>3
<1>5. \A i \in places : TakenBy(prompt, pool, places, t, i) => i \in T BY <1>3
<1>6. E \in SUBSET {pool[i] : i \in places} BY <1>2
<1>7. IsFiniteSet(E)
    <2> DEFINE f == [i \in T |-> pool[i]]
    <2>1. IsFiniteSet(1..N) BY FS_Interval
    <2>2. IsFiniteSet(T) BY <2>1, FS_Subset
    <2>3. f \in Surjection(T, E) BY <1>2 DEF Surjection
    <2> QED BY <2>2, <2>3, FS_Surjection
<1>8. \A c \in E : Safe(prompt, c) BY <1>2, <1>4 DEF TakenBy
<1>9. ASSUME NEW i \in T, NEW j \in T, j < i PROVE ~Clash(pool[j], pool[i])
    <2>1. j \in {k \in places : k < i} BY <1>4, <1>9
    <2>2. t[j] OBVIOUS
    <2> QED BY <1>4, <2>1, <2>2 DEF TakenBy
<1>10. ASSUME NEW c \in E, NEW d \in E, c # d PROVE ~Clash(c, d)
    <2>1. PICK i \in T : c = pool[i] BY <1>2
    <2>2. PICK j \in T : d = pool[j] BY <1>2
    <2>3. i \in Int /\ j \in Int /\ i # j BY <2>1, <2>2, <1>10
    <2>4. CASE j < i BY <2>4, <2>1, <2>2, <1>9 DEF Clash
    <2>5. CASE i < j BY <2>5, <2>1, <2>2, <1>9 DEF Clash
    <2> QED BY <2>3, <2>4, <2>5
<1>11. ASSUME NEW i \in places, Safe(prompt, pool[i]) PROVE \E c \in E : Clash(c, pool[i])
    <2>1. CASE i \in T BY <2>1, <1>2 DEF Clash
    <2>2. CASE i \notin T
        <3>1. ~TakenBy(prompt, pool, places, t, i) BY <2>2, <1>5
        <3>2. PICK j \in places : j < i /\ Clash(pool[j], pool[i]) /\ t[j] BY <3>1, <1>11 DEF TakenBy
        <3> QED BY <3>2, <1>2
    <2> QED BY <2>1, <2>2
<1> QED BY <1>6, <1>7, <1>8, <1>10, <1>11 DEF E

\* Of a finite set, any number of elements can be put in the order of their rank,
\* before all that are left.
LEMMA RankedFirst ==
    ASSUME NEW E, IsFiniteSet(E), NEW r \in [E -> Nat], NEW n \in Nat, n <= Cardinality(E)
    PROVE  \E c \in [1..n -> E] :
               /\ \A i, j \in 1..n : i < j => c[i] # c[j] /\ r[c[i]] <= r[c[j]]
               /\ \A e \in E \ Range(c) : \A i \in 1..n : r[c[i]] <= r[e]
<1> DEFINE First(k, c) == /\ \A i, j \in 1..k : i < j => c[i] # c[j] /\ r[c[i]] <= r[c[j]]
                          /\ \A e \in E \ Range(c) : \A i \in 1..k : r[c[i]] <= r[e]
           Done(k) == \E c \in [1..k -> E] : First(k, c)
           Bad == {k \in Nat : k <= n /\ ~Done(k)}
<1>1. Bad = {}
    <2> SUFFICES ASSUME Bad # {} PROVE FALSE OBVIOUS
    <2>1. PICK k \in Bad : \A m \in Bad : k <= m
        <3>1. Bad \in SUBSET Nat OBVIOUS
        <3> HIDE DEF Bad
        <3> QED BY <3>1, LeastNumber
    <2>2. k \in Nat /\ k <= n /\ ~Done(k) OBVIOUS
    <2>3. k # 0
        <3>1. [i \in 1..0 |-> CHOOSE e \in E : TRUE] \in [1..0 -> E] OBVIOUS
        <3>2. \A c : First(0, c) OBVIOUS
        <3> HIDE DEF First
        <3>3. Done(0) BY <3>1, <3>2
        <3> HIDE DEF Done
        <3> QED BY <3>3, <2>2
    <2>4. Done(k - 1)
        <3>1. k - 1 \in Nat /\ k - 1 <= n /\ ~(k <= k - 1) BY <2>2, <2>3
        <3>2. k - 1 \notin Bad BY <2>1, <3>1
        <3> HIDE DEF Done
        <3> QED BY <3>1, <3>2
    <2>5. PICK c \in [1..(k - 1) -> E] : First(k - 1, c)
        <3> HIDE DEF First
        <3> QED BY <2>4
    <2> DEFINE Left == E \ Range(c)
    <2>6. Left # {}
        <3> SUFFICES ASSUME Left = {} PROVE FALSE OBVIOUS
        <3>1. c \in Surjection(1..(k - 1), E) BY DEF Surjection, Range
        <3>2. IsFiniteSet(1..(k - 1)) /\ Cardinality(1..(k - 1)) = k - 1
            <4>1. 1 \in Int /\ k - 1 \in Int /\ k - 1 \in Nat BY <2>2, <2>3
            <4> QED BY <4>1, FS_Interval
        <3>3. Cardinality(E) <= k - 1 BY <3>1, <3>2, FS_Surjection
        <3>4. Cardinality(E) \in Nat BY FS_CardinalityType
        <3> QED BY <3>3, <3>4, <2>2
    <2>7. PICK x \in Left : \A e \in Left : r[x] <= r[e]
        <3> DEFINE Ranks == {r[e] : e \in Left}
        <3>1. Ranks \in SUBSET Nat /\ Ranks # {} BY <2>6
        <3> HIDE DEF Ranks
        <3>2. PICK q \in Ranks : \A m \in Ranks : q <= m BY <3>1, LeastNumber
        <3> QED BY <3>2 DEF Ranks
    <2> DEFINE d == [i \in 1..k |-> IF i = k THEN x ELSE c[i]]
    <2>8. \A i \in 1..k : i = k \/ i \in 1..(k - 1) BY <2>2
    <2>9. d \in [1..k -> E]
        <3> SUFFICES ASSUME NEW i \in 1..k PROVE (IF i = k THEN x ELSE c[i]) \in E OBVIOUS
        <3> QED BY <2>8
    <2>10. /\ d[k] = x /\ \A i \in 1..(k - 1) : d[i] = c[i] /\ c[i] \in E /\ c[i] # x /\ r[c[i]] <= r[x]
        <3>1. k \in 1..k /\ \A i \in 1..(k - 1) : i \in 1..k /\ i # k BY <2>2, <2>3
        <3>2. \A i \in 1..(k - 1) : c[i] \in Range(c) BY DEF Range
        <3> QED BY <3>1, <3>2, <2>5
    <2> HIDE DEF d
    <2>11. \A i, j \in 1..k : i < j => d[i] # d[j] /\ r[d[i]] <= r[d[j]]
        <3> SUFFICES ASSUME NEW i \in 1..k, NEW j \in 1..k, i < j
                     PROVE d[i] # d[j] /\ r[d[i]] <= r[d[j]]
            OBVIOUS
        <3>1. i \in 1..(k - 1) BY <2>2
        <3>2. CASE j = k BY <3>1, <3>2, <2>10
        <3>3. CASE j \in 1..(k - 1) BY <3>1, <3>3, <2>5, <2>10
        <3> QED BY <3>2, <3>3, <2>8
    <2>12. ASSUME NEW e \in E \ Range(d), NEW i \in 1..k PROVE r[d[i]] <= r[e]
        <3>1. e \in Left
            <4> SUFFICES ASSUME e \in Range(c) PROVE FALSE BY <2>12
            <4>1. PICK j \in 1..(k - 1) : e = c[j] BY DEF Range
            <4>2. j \in 1..k /\ d[j] = e BY <4>1, <2>2, <2>10
            <4>3. d[j] \in Range(d) BY <4>2, <2>9 DEF Range
            <4> QED BY <4>2, <4>3, <2>12
        <3>2. CASE i = k BY <3>1, <3>2, <2>7, <2>10
        <3>3. CASE i \in 1..(k - 1) BY <3>1, <3>3, <2>5, <2>10
        <3> QED BY <3>2, <3>3, <2>8
    <2>13. First(k, d) BY <2>11, <2>12
    <2> HIDE DEF First
    <2> QED BY <2>2, <2>9, <2>13
<1>2. Done(n)
    <2> HIDE DEF Done
    <2> QED BY <1>1
<1> QED BY <1>2

\* A rank is a number.
LEMMA RankInNat ==
    ASSUME NEW c, c.strategies \subseteq DOMAIN Priority
    PROVE  Rank(c) \in Nat
<1>1. CASE c.strategies = {} BY <1>1 DEF Rank, Priority
<1>2. CASE c.strategies # {}
    <2> DEFINE Ps == {Priority[s] : s \in c.strategies}
    <2>1. \A s \in DOMAIN Priority : Priority[s] \in 0..5 BY DEF Priority
    <2>2. Ps \in SUBSET (0..5) /\ Ps # {} BY <2>1, <1>2
    <2>3. \A q \in Ps : \E s \in c.strategies : Priority[s] = q OBVIOUS
    <2>4. \A s \in c.strategies : Priority[s] \in Ps OBVIOUS
    <2> HIDE DEF Ps
    <2>5. Ps \in SUBSET Nat BY <2>2
    <2>6. PICK q \in Ps : \A m \in Ps : q <= m BY <2>2, <2>5, LeastNumber
    <2>7. /\ q \in 0..5 /\ \E s \in c.strategies : Priority[s] = q
          /\ \A s \in c.strategies : q <= Priority[s]
        BY <2>2, <2>3, <2>4, <2>6
    <2>8. Rank(c) \in 0..5 BY <2>7, <1>2 DEF Rank
    <2> QED BY <2>8
<1> QED BY <1>1, <1>2

\* The right answer is put among the others.
IsInserted(options, S, n, chosen, at, c) ==
    /\ options \in Seq(S) /\ Len(options) = n
    /\ \A i \in 1..n : options[i] = IF i < at THEN chosen[i] ELSE IF i = at THEN c ELSE chosen[i - 1]

LEMMA Inserted ==
    ASSUME NEW S, NEW n \in Nat, n >= 2, NEW chosen \in [1..(n - 1) -> S], NEW at \in 1..n, NEW c \in S
    PROVE  IsInserted(InsertAt(chosen, at, c), S, n, chosen, at, c)
<1> DEFINE a == SubSeq(chosen, 1, at - 1)
           b == SubSeq(chosen, at, n - 1)
           m == n - 1
<1>0. m \in Nat /\ n = m + 1 OBVIOUS
<1> HIDE DEF m
<1>1. chosen \in Seq(S) /\ Len(chosen) = m
    <2>1. chosen \in [1..m -> S] BY DEF m
    <2> QED BY <2>1, <1>0
<1>2. /\ SubSeq(chosen, 1, at - 1) \in Seq(S) /\ Len(SubSeq(chosen, 1, at - 1)) = at - 1
      /\ \A i \in 1..at - 1 : SubSeq(chosen, 1, at - 1)[i] = chosen[i]
    BY <1>0, <1>1
<1>3. /\ SubSeq(chosen, at, m) \in Seq(S) /\ Len(SubSeq(chosen, at, m)) = n - at
      /\ \A i \in 1..n - at : SubSeq(chosen, at, m)[i] = chosen[i + at - 1]
    BY <1>0, <1>1
<1>4. InsertAt(chosen, at, c) = (a \o <<c>>) \o b BY <1>1 DEF InsertAt, m
<1>5. /\ a \in Seq(S) /\ Len(a) = at - 1 /\ \A i \in 1..at - 1 : a[i] = chosen[i]
      /\ b \in Seq(S) /\ Len(b) = n - at /\ \A i \in 1..n - at : b[i] = chosen[i + at - 1]
    BY <1>2, <1>3 DEF m
<1> HIDE DEF a, b
<1>6. /\ a \o <<c>> \in Seq(S) /\ Len(a \o <<c>>) = at
      /\ \A i \in 1..at : (a \o <<c>>)[i] = IF i < at THEN chosen[i] ELSE c
    <2>1. <<c>> \in Seq(S) /\ Len(<<c>>) = 1 /\ <<c>>[1] = c OBVIOUS
    <2>2. /\ a \o <<c>> \in Seq(S) /\ Len(a \o <<c>>) = Len(a) + 1
          /\ \A i \in 1..Len(a) + 1 : (a \o <<c>>)[i] = IF i <= Len(a) THEN a[i] ELSE <<c>>[i - Len(a)]
        BY <1>5, <2>1, ConcatProperties
    <2>3. Len(a) + 1 = at /\ at \in Int BY <1>5
    <2>4. ASSUME NEW i \in 1..at PROVE (a \o <<c>>)[i] = IF i < at THEN chosen[i] ELSE c
        <3>1. CASE i < at BY <3>1, <2>2, <2>3, <1>5
        <3>2. CASE i = at
            <4>1. ~(i <= Len(a)) /\ i - Len(a) = 1 BY <3>2, <1>5
            <4> QED BY <4>1, <3>2, <2>1, <2>2, <2>3
        <3>3. i < at \/ i = at OBVIOUS
        <3> QED BY <3>1, <3>2, <3>3
    <2> QED BY <2>2, <2>3, <2>4
<1> DEFINE ac == a \o <<c>>
<1> HIDE DEF ac
<1>7. /\ ac \o b \in Seq(S) /\ Len(ac \o b) = n
      /\ \A i \in 1..n : (ac \o b)[i] = IF i <= at THEN ac[i] ELSE b[i - at]
    <2>1. ac \in Seq(S) /\ Len(ac) = at BY <1>6 DEF ac
    <2>2. at + (n - at) = n OBVIOUS
    <2> QED BY <2>1, <2>2, <1>5, ConcatProperties
<1>8. ASSUME NEW i \in 1..n
      PROVE  (ac \o b)[i] = IF i < at THEN chosen[i] ELSE IF i = at THEN c ELSE chosen[i - 1]
    <2>1. CASE i <= at
        <3>1. (ac \o b)[i] = ac[i] /\ i \in 1..at BY <2>1, <1>7
        <3>2. ac[i] = IF i < at THEN chosen[i] ELSE c BY <3>1, <1>6 DEF ac
        <3> QED BY <2>1, <3>1, <3>2
    <2>2. CASE at < i
        <3>1. (ac \o b)[i] = b[i - at] /\ i - at \in 1..n - at /\ (i - at) + at - 1 = i - 1
            BY <2>2, <1>7
        <3>2. b[i - at] = chosen[i - 1] BY <3>1, <1>5
        <3> QED BY <2>2, <3>1, <3>2
    <2>3. i <= at \/ at < i OBVIOUS
    <2> QED BY <2>1, <2>2, <2>3
<1> QED BY <1>4, <1>7, <1>8 DEF ac, IsInserted

\* The hypotheses on what a question is asked about (QuestionAssumption).
PoolOK(pool) ==
    /\ pool \in Seq(Range(pool))
    /\ \A i \in DOMAIN pool : pool[i].answer # "idk" /\ pool[i].strategies \subseteq DOMAIN Priority
    /\ \A i, j \in DOMAIN pool : pool[i].answer = pool[j].answer => pool[i].text = pool[j].text

PromptOK(prompt) == prompt.correct.text \in prompt.accepted /\ prompt.correct.answer # "idk"

Harmless(prompt, pool, places) == {pool[i].text : i \in {j \in places : Safe(prompt, pool[j])}}

\* A question of n options, no two of them alike and one of them right.
QuestionOK(prompt, n, q) ==
    /\ Len(q.options) = n
    /\ \A i, j \in DOMAIN q.options : i # j =>
           q.options[i].answer # q.options[j].answer /\ q.options[i].text # q.options[j].text
    /\ \A i \in DOMAIN q.options :
           /\ Right(prompt, q.options[i]) <=> i = q.correct
           /\ Result(q, q.options[i].answer) = IF i = q.correct THEN "correct" ELSE "wrong"
    /\ CorrectAt(q.nextBalance, n) = (IF q.correct = n THEN 1 ELSE q.correct + 1)

\* Every question built is such a question.
LEMMA OptionsSound ==
    ASSUME NEW prompt, PromptOK(prompt), NEW E, NEW n \in 4..6,
           \A c \in E : Safe(prompt, c) /\ c.answer # "idk",
           \A c, d \in E : c # d => ~Clash(c, d),
           NEW chosen \in Rankings(E, n), NEW at \in 1..n,
           NEW q, q = [options |-> InsertAt(chosen, at, prompt.correct), correct |-> at,
                       nextBalance |-> at % n]
    PROVE  QuestionOK(prompt, n, q)
<1> DEFINE c0 == prompt.correct
           options == InsertAt(chosen, at, c0)
           S == E \cup {c0}
<1>1. /\ chosen \in [1..(n - 1) -> E]
      /\ \A i, j \in 1..(n - 1) : i < j => chosen[i] # chosen[j]
    BY DEF Rankings
<1>2. chosen \in [1..(n - 1) -> S] /\ c0 \in S /\ n \in Nat /\ n >= 2 BY <1>1
<1> HIDE DEF S
<1>3. /\ options \in Seq(S) /\ Len(options) = n
      /\ \A i \in 1..n : options[i] = IF i < at THEN chosen[i] ELSE IF i = at THEN c0 ELSE chosen[i - 1]
    <2> HIDE DEF c0
    <2>1. IsInserted(options, S, n, chosen, at, c0) BY <1>2, Inserted
    <2> QED BY <2>1 DEF IsInserted
<1>4. q.options = options /\ q.correct = at /\ q.nextBalance = at % n OBVIOUS
<1>5. DOMAIN options = 1..n BY <1>3
<1> HIDE DEF options
<1>6. ASSUME NEW i \in 1..n
      PROVE  IF i = at THEN options[i] = c0 ELSE options[i] \in E
    <2>1. CASE i < at
        <3>1. i \in 1..(n - 1) BY <2>1
        <3> QED BY <3>1, <2>1, <1>1, <1>3
    <2>2. CASE i = at BY <2>2, <1>3
    <2>3. CASE at < i
        <3>1. i - 1 \in 1..(n - 1) BY <2>3
        <3>2. ~(i < at) /\ i # at BY <2>3
        <3> QED BY <3>1, <3>2, <1>1, <1>3
    <2>4. i < at \/ i = at \/ at < i OBVIOUS
    <2> QED BY <2>1, <2>2, <2>3, <2>4
<1>7. ASSUME NEW i \in 1..n, NEW j \in 1..n, i < j, i # at, j # at PROVE options[i] # options[j]
    <2> DEFINE x == IF i < at THEN i ELSE i - 1
               y == IF j < at THEN j ELSE j - 1
    <2>1. x \in 1..(n - 1) /\ y \in 1..(n - 1) /\ x < y BY <1>7
    <2>2. options[i] = chosen[x] BY <1>3, <1>7
    <2>3. options[j] = chosen[y] BY <1>3, <1>7
    <2> HIDE DEF x, y
    <2> QED BY <2>1, <2>2, <2>3, <1>1
<1>8. \A c \in E : c.answer # c0.answer /\ c.text # c0.text /\ ~Right(prompt, c)
    BY DEF Safe, Right, PromptOK
<1>9. ASSUME NEW i \in 1..n, NEW j \in 1..n, i < j
      PROVE  options[i].answer # options[j].answer /\ options[i].text # options[j].text
    <2>1. CASE i = at BY <2>1, <1>6, <1>8, <1>9
    <2>2. CASE j = at BY <2>2, <1>6, <1>8, <1>9
    <2>3. CASE i # at /\ j # at
        <3>1. options[i] \in E /\ options[j] \in E BY <2>3, <1>6
        <3>2. options[i] # options[j] BY <2>3, <1>7, <1>9
        <3> QED BY <3>1, <3>2 DEF Clash
    <2> QED BY <2>1, <2>2, <2>3
<1>10. \A i, j \in 1..n : i # j =>
          options[i].answer # options[j].answer /\ options[i].text # options[j].text
    <2> SUFFICES ASSUME NEW i \in 1..n, NEW j \in 1..n, i # j
                 PROVE  options[i].answer # options[j].answer /\ options[i].text # options[j].text
        OBVIOUS
    <2>1. i < j \/ j < i OBVIOUS
    <2> QED BY <2>1, <1>9
<1>11. ASSUME NEW i \in 1..n
       PROVE  /\ Right(prompt, options[i]) <=> i = at
              /\ Result(q, options[i].answer) = IF i = at THEN "correct" ELSE "wrong"
    <2>1. q.options[q.correct] = c0 BY <1>4, <1>6
    <2>2. CASE i = at
        <3>1. options[i] = c0 BY <2>2, <1>6
        <3> QED BY <3>1, <2>1, <2>2 DEF Right, Result, PromptOK
    <2>3. CASE i # at
        <3>1. options[i] \in E BY <2>3, <1>6
        <3> QED BY <3>1, <2>1, <2>3, <1>8 DEF Result
    <2> QED BY <2>2, <2>3
<1>12. CorrectAt(at % n, n) = IF at = n THEN 1 ELSE at + 1
    <2>1. CASE n = 4 BY <2>1 DEF CorrectAt
    <2>2. CASE n = 5 BY <2>2 DEF CorrectAt
    <2>3. CASE n = 6 BY <2>3 DEF CorrectAt
    <2> QED BY <2>1, <2>2, <2>3
<1> QED BY <1>3, <1>4, <1>5, <1>10, <1>11, <1>12 DEF QuestionOK

\* With enough texts that do no harm there is a question.
LEMMA QuestionExists ==
    ASSUME NEW prompt, NEW pool, PoolOK(pool), NEW places \in SUBSET (DOMAIN pool), NEW n \in 4..6,
           Cardinality(Harmless(prompt, pool, places)) >= n - 1
    PROVE  LET E == Eligible(prompt, pool, places) IN
           ~(Cardinality(E) < n - 1) /\ Rankings(E, n) # {}
<1> DEFINE E == Eligible(prompt, pool, places)
           H == Harmless(prompt, pool, places)
           text == [c \in E |-> c.text]
           rank == [c \in E |-> Rank(c)]
           m == n - 1
<1>0. Len(pool) \in Nat /\ DOMAIN pool = 1..Len(pool) BY DEF PoolOK
<1>1. /\ E \in SUBSET {pool[i] : i \in places} /\ IsFiniteSet(E)
      /\ \A c \in E : Safe(prompt, c)
      /\ \A i \in places : Safe(prompt, pool[i]) => \E c \in E : Clash(c, pool[i])
    BY <1>0, EligibleSound
<1> HIDE DEF E
<1>2. Cardinality(H) <= Cardinality(E)
    <2>1. ASSUME NEW c \in E PROVE c.text \in H
        <3>1. PICK i \in places : c = pool[i] BY <1>1
        <3> QED BY <3>1, <1>1 DEF Harmless
    <2>2. ASSUME NEW h \in H PROVE \E c \in E : c.text = h
        <3>1. PICK i \in places : Safe(prompt, pool[i]) /\ h = pool[i].text BY DEF Harmless
        <3>2. PICK c \in E : Clash(c, pool[i]) BY <3>1, <1>1
        <3>3. PICK j \in places : c = pool[j] BY <1>1
        <3>4. pool[j].answer = pool[i].answer => pool[j].text = pool[i].text BY DEF PoolOK
        <3> QED BY <3>1, <3>2, <3>3, <3>4 DEF Clash
    <2> HIDE DEF H
    <2>3. text \in Surjection(E, H) BY <2>1, <2>2 DEF Surjection
    <2> QED BY <2>3, <1>1, FS_Surjection
<1>3. Cardinality(E) \in Nat /\ Cardinality(H) \in Nat
    <2>1. IsFiniteSet(H)
        <3> DEFINE g == [i \in {j \in places : Safe(prompt, pool[j])} |-> pool[i].text]
        <3>1. g \in Surjection({j \in places : Safe(prompt, pool[j])}, H) BY DEF Surjection, Harmless
        <3>2. IsFiniteSet({j \in places : Safe(prompt, pool[j])})
            <4>1. IsFiniteSet(DOMAIN pool) BY <1>0, FS_Interval
            <4> QED BY <4>1, FS_Subset
        <3> HIDE DEF g, H
        <3> QED BY <3>1, <3>2, FS_Surjection
    <2> QED BY <2>1, <1>1, FS_CardinalityType
<1>4. m \in Nat /\ m <= Cardinality(E)
    <2>1. m <= Cardinality(H) OBVIOUS
    <2> HIDE DEF H
    <2> QED BY <2>1, <1>2, <1>3
<1>5. rank \in [E -> Nat]
    <2> SUFFICES ASSUME NEW c \in E PROVE Rank(c) \in Nat OBVIOUS
    <2>1. PICK i \in places : c = pool[i] BY <1>1
    <2>2. c.strategies \subseteq DOMAIN Priority BY <2>1 DEF PoolOK
    <2> QED BY <2>2, RankInNat
<1>6. PICK c \in [1..m -> E] :
          /\ \A i, j \in 1..m : i < j => c[i] # c[j] /\ rank[c[i]] <= rank[c[j]]
          /\ \A e \in E \ Range(c) : \A i \in 1..m : rank[c[i]] <= rank[e]
    <2> HIDE DEF m, rank
    <2> QED BY <1>1, <1>4, <1>5, RankedFirst
<1>7. c \in Rankings(E, n)
    <2>1. m \in 1..m OBVIOUS
    <2>2. \A i \in 1..m : c[i] \in E /\ rank[c[i]] = Rank(c[i]) BY <1>6
    <2>3. \A e \in E \ Range(c) : Rank(c[m]) <= Rank(e) BY <1>6, <2>1, <2>2
    <2>4. \A i, j \in 1..m : i < j => c[i] # c[j] /\ Rank(c[i]) <= Rank(c[j]) BY <1>6, <2>2
    <2> QED BY <1>6, <2>3, <2>4 DEF Rankings
<1>8. ~(Cardinality(E) < n - 1) BY <1>3, <1>4
<1> QED BY <1>7, <1>8 DEF E

\* While a question is asked it is one of the samples.
QuestionSample ==
    asking = "question" =>
        sample \in [prompt : Prompts, pool : Pools, n : OptionCounts, format : Formats, balance : {0, 4}]

\* No question is built with two right or two like options, whatever the pool, and
\* none is refused for which the pool has enough (QuizEngine.build_question).
THEOREM QuestionsAlwaysSound == CoreSpec => []QuestionsSound
<1>1. CoreInit => QuestionSample BY DEF CoreInit, QuestionSample
<1>2. QuestionSample /\ [CoreNext]_coreVars => QuestionSample' BY DEF QuestionSample, CoreNext, coreVars
<1>3. QuestionSample => QuestionsSound
    <2> SUFFICES ASSUME QuestionSample, asking = "question" PROVE QuestionsSound
        BY DEF QuestionsSound
    <2> DEFINE s == sample
               places == Pool(s.pool, s.format)
               E == Eligible(s.prompt, s.pool, places)
               at == CorrectAt(s.balance, s.n)
               qs == Questions(s.prompt, s.pool, s.n, s.format, s.balance)
    <2>1. /\ s.prompt \in Prompts /\ s.pool \in Pools /\ s.n \in Int /\ s.balance \in {0, 4}
        BY QuestionAssumption DEF QuestionSample
    <2>2. PromptOK(s.prompt) /\ PoolOK(s.pool) BY <2>1, QuestionAssumption DEF PromptOK, PoolOK
    <2>3. places \in SUBSET (DOMAIN s.pool) BY DEF Pool
    <2>4. Len(s.pool) \in Nat /\ DOMAIN s.pool = 1..Len(s.pool) BY <2>2 DEF PoolOK
    <2> HIDE DEF s, places
    <2>5. /\ E \in SUBSET {s.pool[i] : i \in places}
          /\ \A c \in E : Safe(s.prompt, c)
          /\ \A c, d \in E : c # d => ~Clash(c, d)
        BY <2>3, <2>4, EligibleSound
    <2>6. \A c \in E : Safe(s.prompt, c) /\ c.answer # "idk"
        <3> SUFFICES ASSUME NEW c \in E PROVE c.answer # "idk" BY <2>5
        <3>1. PICK i \in places : c = s.pool[i] BY <2>5
        <3> QED BY <3>1, <2>2, <2>3 DEF PoolOK
    <2> HIDE DEF E, at
    <2>7. qs = IF ~CanBuild(s.prompt, s.pool, s.n, s.format) \/ Cardinality(E) < s.n - 1 THEN {}
               ELSE {[options |-> InsertAt(chosen, at, s.prompt.correct), correct |-> at,
                      nextBalance |-> at % s.n] : chosen \in Rankings(E, s.n)}
        BY DEF Questions, E, at, places
    <2> HIDE DEF qs
    <2>8. ASSUME s.n \in 4..6 PROVE at \in 1..s.n
        <3>1. CASE s.n = 4 BY <3>1, <2>1 DEF at, CorrectAt
        <3>2. CASE s.n = 5 BY <3>2, <2>1 DEF at, CorrectAt
        <3>3. CASE s.n = 6 BY <3>3, <2>1 DEF at, CorrectAt
        <3> QED BY <2>8, <3>1, <3>2, <3>3
    <2>9. ASSUME NEW q \in qs PROVE QuestionOK(s.prompt, s.n, q)
        <3>1. s.n \in 4..6 BY <2>7, <2>9 DEF CanBuild
        <3>2. PICK chosen \in Rankings(E, s.n) :
                 q = [options |-> InsertAt(chosen, at, s.prompt.correct), correct |-> at,
                      nextBalance |-> at % s.n]
            BY <2>7, <2>9
        <3>3. at \in 1..s.n BY <3>1, <2>8
        <3> QED BY <2>2, <2>5, <2>6, <3>1, <3>2, <3>3, OptionsSound
    <2>10. ASSUME CanBuild(s.prompt, s.pool, s.n, s.format),
                  Cardinality(Harmless(s.prompt, s.pool, places)) >= s.n - 1
           PROVE  qs # {}
        <3>1. s.n \in 4..6 BY <2>10 DEF CanBuild
        <3>2. ~(Cardinality(E) < s.n - 1) /\ Rankings(E, s.n) # {}
            BY <3>1, <2>2, <2>3, <2>10, QuestionExists DEF E
        <3> QED BY <3>2, <2>7, <2>10
    <2> QED BY <2>9, <2>10 DEF QuestionsSound, QuestionOK, Harmless, qs, places, s
<1> QED BY <1>1, <1>2, <1>3, PTL DEF CoreSpec
=============================================================================
