------------------------------ MODULE LoadForecast ------------------------------
(***************************************************************************)
(* The load forecast of a learning plan (core/planning.py), as functions   *)
(* of the plan's quotas and the counts of the Track.  The coverage is a    *)
(* percentage and exact; the code multiplies floating-point numbers.       *)
(***************************************************************************)
EXTENDS Integers, Sequences, FiniteSets, Functions

LeastOf(a, b) == IF a < b THEN a ELSE b
MostOf(a, b) == IF a < b THEN b ELSE a
CeilDiv(a, b) == (a + b - 1) \div b

\* _BASE_REVIEW_OFFSETS_DAYS, summed up: the days of a card's reviews.
ReviewDays == <<1, 4, 11, 25, 55, 115>>

\* LearningPlan.__post_init__
PlanValid(plan) ==
    /\ plan.maxNew >= 0 /\ plan.maxReviews >= 1
    /\ plan.teasers >= 0 /\ plan.teasers <= plan.maxNew
    /\ plan.coverage \in 1..100

TargetCards(selected, coverage) == CeilDiv(selected * coverage, 100)

\* A target date is in the future when the plan is set and when it is read.
RequiredPerDay(remaining, days) == CeilDiv(remaining, MostOf(1, days))

\* Mutant of ProjectedNewLoad: the horizon itself counts as gone.
ProjectedNewLoadLate(remaining, maxNew, horizon) ==
    IF remaining = 0 \/ maxNew = 0 THEN 0
    ELSE LeastOf(maxNew, MostOf(0, remaining - maxNew * horizon))

\* _projected_new_load: new cards on the day of the horizon.
ProjectedNewLoad(remaining, maxNew, horizon) ==
    IF remaining = 0 \/ maxNew = 0 THEN 0
    ELSE LeastOf(maxNew, MostOf(0, remaining - maxNew * MostOf(0, horizon - 1)))

\* introduced_by_day: the quota, as long as there are cards.
IntroducedOn(remaining, maxNew, day) ==
    LeastOf(maxNew, MostOf(0, remaining - maxNew * (day - 1)))

\* _projected_review_load: the daily average of the week ending at the horizon.
ProjectedReviewLoad(remaining, maxNew, horizon) ==
    IF remaining = 0 \/ maxNew = 0 THEN 0
    ELSE LET start == MostOf(1, horizon - 6)
             Due == {p \in (start..horizon) \X DOMAIN ReviewDays : p[1] - ReviewDays[p[2]] >= 1}
             Count(p) == IntroducedOn(remaining, maxNew, p[1] - ReviewDays[p[2]])
         IN  CeilDiv(FoldFunction(+, 0, [p \in Due |-> Count(p)]), horizon - start + 1)

\* _delivery_split: what goes out as notifications, and what is left to sessions.
DeliverySplit(new, reviews, budget, teasers) ==
    IF budget <= 0 THEN [delivered |-> 0, active |-> new + reviews]
    ELSE LET pushedNew == LeastOf(new, LeastOf(teasers, budget))
             delivered == pushedNew + LeastOf(reviews, MostOf(0, budget - pushedNew))
         IN  [delivered |-> delivered, active |-> MostOf(0, new + reviews - delivered)]

\* async_forecast; days is how far the target date is off, 0 for no date.
Forecast(selected, introducedCards, plan, days, budget, horizon) ==
    LET target == TargetCards(selected, plan.coverage)
        remaining == MostOf(0, target - LeastOf(introducedCards, selected))
        required == IF days = 0 THEN LeastOf(plan.maxNew, remaining) ELSE RequiredPerDay(remaining, days)
        reviews == ProjectedReviewLoad(remaining, plan.maxNew, horizon)
        new == ProjectedNewLoad(remaining, plan.maxNew, horizon)
    IN  [remaining |-> remaining, required |-> required,
         feasible |-> days = 0 \/ required <= plan.maxNew,
         new |-> new, reviews |-> reviews,
         split |-> DeliverySplit(new, reviews, budget, plan.teasers),
         withinQuota |-> reviews <= plan.maxReviews]

-----------------------------------------------------------------------------
(* Reference: the cards one by one. *)

\* Card c of those remaining is introduced on this day and reviewed on those.
DayOf(c, maxNew) == CeilDiv(c, maxNew)
ReviewsIn(remaining, maxNew, first, last) ==
    {p \in (1..remaining) \X DOMAIN ReviewDays :
        DayOf(p[1], maxNew) + ReviewDays[p[2]] \in first..last}
=============================================================================
