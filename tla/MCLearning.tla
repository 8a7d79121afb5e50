------------------------------- MODULE MCLearning -------------------------------
(* Small instances of the learning core for TLC. *)
EXTENDS LearningCore

MCLearningSteps == <<1, 2>>
MCRelearningSteps == <<1, 2>>
MCJitters == {-10, 10}
MCWaits == {-2, 1, 4}
MCBoxes == <<1, 2, 6, 9>>

Candidate(a, text, item, type, concepts, synonyms, strategies) ==
    [answer |-> a, text |-> text, item |-> item, type |-> type, concepts |-> concepts,
     synonyms |-> synonyms, strategies |-> strategies]

\* Harmless answers of several ranks; one that reads like another; the right
\* answer; a sibling; a synonym, a concept and an accepted text of the prompt.
MCPool == <<
    Candidate("a1", "x1", "i1", "grammar", {}, {}, {"tag"}),
    Candidate("a2", "x2", "i2", "grammar", {}, {}, {"confusable", "level"}),
    Candidate("a3", "x3", "i3", "grammar", {}, {}, {}),
    Candidate("a4", "x3", "i4", "word", {}, {}, {"type"}),
    Candidate("a5", "x5", "i5", "grammar", {}, {"s"}, {"similar"}),
    Candidate("a0", "x0", "i0", "grammar", {}, {}, {"tag"}),
    Candidate("a6", "x6", "i6", "grammar", {"c"}, {}, {"level"}),
    Candidate("a7", "x7", "i7", "grammar", {}, {}, {"level"})>>
MCPools == {SelectSeq(order, LAMBDA c : c.answer \notin out) :
                order \in {MCPool, Reverse(MCPool)},
                out \in SUBSET {"a1", "a2", "a4", "a5", "a0", "a6", "a7"}}
Prompt(state, accepted, siblings, concepts, synonyms) ==
    [item |-> "i0", type |-> "grammar", state |-> state, cloze |-> TRUE,
     correct |-> Candidate("a0", "x0", "i0", "grammar", {}, {}, {}),
     accepted |-> accepted, siblings |-> siblings, concepts |-> concepts, synonyms |-> synonyms]
MCPrompts == UNION {{Prompt(state, {"x0", "x7"}, {"a1"}, {"c"}, {"s"}), Prompt(state, {"x0"}, {}, {}, {"s"}),
                     Prompt(state, {"x0"}, {}, {"c"}, {})} : state \in {"learning", "review"}}

MCContexts == [prerequisites : {{}} \cup {{[known |-> k, seen |-> n, box |-> n]} : k \in BOOLEAN, n \in 0..1},
               conditions : {{}, {[metric |-> "box", minimum |-> 1]}},
               groups : SUBSET {[last |-> 0, gapDays |-> 1], [last |-> 1435, gapDays |-> 0],
                                [last |-> 5, gapDays |-> 1]},
               siblings : {{}, {0}, {1436}}, newGap : {0, 10}, reviewGap : {4}]

MCTexts == {<<>>} \cup UNION {[1..k -> {"e", "q"}] : k \in 3..5} \cup [1..4 -> {"e", Accented}]
           \cup {<<"q">> \o w : w \in [1..3 -> {"e", Capital, Wide, Combining, Mark}]}
           \cup {<<Space>> \o w \o <<Space, Mark>> : w \in [1..3 -> {"e", "q", Space, Mark}]}
MCAnswers == {<<"e", "e", "q", "e">>, <<"e", Accented, "q", "e">>, <<"e", "q", "e">>,
              <<"e", "q", Space, "e">>, <<"q", "e", Combining, "e">>, <<"q", "e", "e", Accented>>,
              <<"q", Capital, Mark, Combining, "e">>}
MCPolicies == [unicode : {"none", "NFC", "NFKC"}, casefold : BOOLEAN, unpunctuated : BOOLEAN,
               spaces : {"preserve", "trim", "collapse"}, scripts : {{}, {"Latn"}}]
MCPlans == [maxNew : 0..3, maxReviews : {4}, teasers : {0, 2}, coverage : {50, 93, 100}]
=============================================================================
