-------------------------------- MODULE Grading --------------------------------
(***************************************************************************)
(* Free-text grading (core/grading.py) and the normalization it compares   *)
(* under (core/localization.py), as functions of their arguments.  A text  *)
(* is a sequence of characters: letters, of which "e" has a capital, a     *)
(* full-width and an accented form, the accent as a character that follows *)
(* its letter, a space and a punctuation mark.                             *)
(***************************************************************************)
EXTENDS Integers, Sequences, FiniteSets

Space == " "
Mark == "!"
Capital == "E"
Accented == "e-acute"
AccentedCapital == "E-acute"
Combining == "acute"
Wide == "full-width e"

\* casefold, the compatible letter of NFKC, the letter that an accent after it
\* makes, and the letter without its accent.
Casefold(c) ==
    CASE c = Capital -> "e" [] c = AccentedCapital -> Accented [] OTHER -> c
Compatible(c) == IF c = Wide THEN "e" ELSE c
Acute(c) == IF c = Capital THEN AccentedCapital ELSE Accented
Unaccented(c) ==
    CASE c = Accented -> "e" [] c = AccentedCapital -> Capital [] OTHER -> c

\* The characters of a text at these places, in their order.
Kept(text, places) ==
    [k \in 1..Cardinality(places) |->
        text[CHOOSE i \in places : Cardinality({j \in places : j <= i}) = k]]

\* The places of a text but for the spaces at its ends.
Inner(text) ==
    {i \in DOMAIN text : \E a, b \in DOMAIN text :
        a <= i /\ i <= b /\ text[a] # Space /\ text[b] # Space}

\* text.strip()
TrimSpaces(text) == Kept(text, Inner(text))

\* " ".join(text.split()): the first of several spaces is kept.
CollapseSpaces(text) ==
    Kept(text, {i \in Inner(text) : text[i] # Space \/ text[i - 1] # Space})

\* unicodedata.normalize("NFC", text): an accent joins the letter before it.
Joins(text, i) == i - 1 \in DOMAIN text /\ text[i] = Combining /\ text[i - 1] \in {"e", Capital}
Joined(text) == [i \in DOMAIN text |-> IF i + 1 \in DOMAIN text /\ Joins(text, i + 1)
                                      THEN Acute(text[i]) ELSE text[i]]
Canonical(text) == Kept(Joined(text), {i \in DOMAIN text : ~Joins(text, i)})

Composed(text, policy) ==
    CASE policy.unicode = "NFC" -> Canonical(text)
      [] policy.unicode = "NFKC" -> Canonical([i \in DOMAIN text |-> Compatible(text[i])])
      [] OTHER -> text
Cased(text, policy) ==
    [i \in DOMAIN text |-> IF policy.casefold THEN Casefold(text[i]) ELSE text[i]]
Plain(text, policy) ==
    IF policy.unpunctuated THEN Kept(text, {i \in DOMAIN text : text[i] # Mark}) ELSE text
Spaced(text, policy) ==
    IF policy.spaces = "collapse" THEN CollapseSpaces(text)
    ELSE IF policy.spaces = "trim" THEN TrimSpaces(text) ELSE text

\* Mutant of NormalizeText: blanks are cut before punctuation.
NormalizeSpacesFirst(text, policy) ==
    Plain(Spaced(Cased(Composed(text, policy), policy), policy), policy)

\* normalize_text; the script is checked by the caller below.
NormalizeText(text, policy) ==
    Spaced(Plain(Cased(Composed(text, policy), policy), policy), policy)

\* _diacritic_only_difference compares decomposed texts without their accents.
Bases(text) ==
    Kept([i \in DOMAIN text |-> Unaccented(text[i])], {i \in DOMAIN text : text[i] # Combining})
AccentsOnly(left, right) == left # right /\ Bases(left) = Bases(right)

\* The walk over a text and one that is a character longer: one character of
\* the longer may be skipped.
WalkFits(short, long) ==
    LET walk[p \in (1..Len(short) + 1) \X (1..Len(long) + 1) \X {0, 1}] ==
            LET i == p[1]  j == p[2]  edits == p[3] IN
            IF i > Len(short) \/ j > Len(long) THEN TRUE
            ELSE IF short[i] = long[j] THEN walk[<<i + 1, j + 1, edits>>]
            ELSE edits = 0 /\ walk[<<i, j + 1, 1>>]
    IN  walk[<<1, 1, 0>>]

\* _edit_distance_at_most_one
AtMostOneEdit(left, right) ==
    IF Len(left) = Len(right)
    THEN \A i, j \in DOMAIN left : left[i] # right[i] /\ left[j] # right[j] => i = j
    ELSE \/ Len(left) + 1 = Len(right) /\ WalkFits(left, right)
         \/ Len(right) + 1 = Len(left) /\ WalkFits(right, left)

\* _single_edit_match: a typo in a word too short to carry one is no match.
TypoOf(submitted, answer) ==
    /\ Len(submitted) >= 4 /\ Len(answer) >= 4
    /\ ~AccentsOnly(submitted, answer)
    /\ AtMostOneEdit(submitted, answer)

\* FreeTextGrader.grade
Grade(kind, submitted, accepted, policy, script) ==
    IF accepted = <<>> \/ \E i \in DOMAIN accepted : accepted[i] = <<>> THEN "error"
    ELSE
    CASE kind = "exact" ->
           IF Len(accepted) # 1 THEN "error"
           ELSE IF submitted = accepted[1] THEN "correct" ELSE "wrong"
      [] kind = "any_of" ->
           IF \E i \in DOMAIN accepted : submitted = accepted[i] THEN "correct" ELSE "wrong"
      [] kind = "fuzzy_normalized" ->
           IF script \notin policy.scripts THEN "error"
           ELSE LET n == NormalizeText(submitted, policy)
                    Answer(i) == NormalizeText(accepted[i], policy)
                IN  IF \E i \in DOMAIN accepted : n = Answer(i) \/ TypoOf(n, Answer(i))
                    THEN "correct" ELSE "wrong"
      [] OTHER -> "error"

\* mark_should_be_accepted: only what was not correct can be disputed.
Disputed(outcome) == IF outcome = "correct" THEN "error" ELSE "unrecognized"

-----------------------------------------------------------------------------
(* References: a different definition of the same thing. *)

Without(text, i) == SubSeq(text, 1, i - 1) \o SubSeq(text, i + 1, Len(text))

\* One of them is the other with a character changed, left out or put in.
WithinOneEdit(left, right) ==
    \/ left = right
    \/ \E i \in DOMAIN left : Without(left, i) = right
    \/ \E i \in DOMAIN right : Without(right, i) = left
    \/ Len(left) = Len(right) /\ \E i \in DOMAIN left : Without(left, i) = Without(right, i)
=============================================================================
