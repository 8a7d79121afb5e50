--------------------------- MODULE TrackPins_proofs ---------------------------
(***************************************************************************)
(* Proofs about tracks and the versions they pin, for every set of tracks, *)
(* callers, versions and cards, and any number of installs and removals.   *)
(***************************************************************************)
EXTENDS TrackPins, TLAPS

-----------------------------------------------------------------------------
(* What a request keeps from one await to the next, by operation and step. *)

Option(S) == S \cup {None}
Selected == (SUBSET Cards) \ {{}}

CreateAsked == [at : {"info"}, op : {"create"}, t : Tracks, v : Versions, d : Directions,
                choice : Option(Choices)]
CreateKnown == [at : {"cards"}, op : {"create"}, t : Tracks, v : Versions, d : Directions,
                choice : Option(Choices), gen : Nat]
CreateReady == [at : {"insert"}, op : {"create"}, t : Tracks, v : Versions, d : Directions,
                choice : Option(Choices), gen : Nat, cards : Selected]
UpdateAsked == [at : {"read"}, op : {"update"}, t : Tracks, turn : Option(Directions),
                choice : Option(Choices)]
UpdateOpen == [at : {"rules", "cards"}, op : {"update"}, t : Tracks, choice : Option(Choices),
               pin : Versions, d : Directions, plan : Plans, keys : Option(SUBSET Cards),
               mode : Modes]
UpdateReady == [at : {"write"}, op : {"update"}, t : Tracks, choice : Option(Choices),
                d : Directions, plan : Plans, mode : Modes, cards : Selected]
IntegrateAsked == [at : {"read", "target", "reread"}, op : {"integrate"}, t : Tracks, v : Versions]
IntegratePinned == [at : {"current"}, op : {"integrate"}, t : Tracks, v : Versions, pin : Versions]
IntegrateRead2 == [at : {"recheck"}, op : {"integrate"}, t : Tracks, v : Versions, mode : Modes,
                   d : Directions]
IntegrateOpen == [at : {"rules", "cards"}, op : {"integrate"}, t : Tracks, v : Versions, mode : Modes,
                  d : Directions, gen : Nat, keys : Option(SUBSET Cards)]
IntegrateReady == [at : {"write"}, op : {"integrate"}, t : Tracks, v : Versions, mode : Modes,
                   gen : Nat, cards : Selected]
PlanAsked == [at : {"read"}, op : {"plan"}, t : Tracks, plan : Plans]
PlanReady == [at : {"write"}, op : {"plan"}, t : Tracks, plan : Plans, mode : Modes]

Creates == CreateAsked \cup CreateKnown \cup CreateReady
Updates == UpdateAsked \cup UpdateOpen \cup UpdateReady
Integrates == IntegrateAsked \cup IntegratePinned \cup IntegrateRead2 \cup IntegrateOpen \cup IntegrateReady
PlanForms == PlanAsked \cup PlanReady
Forms == {Idle} \cup Creates \cup Updates \cup Integrates \cup PlanForms

Checked == [at : {"checked"}, op : {"install", "remove"}, installed : Option(Versions)]
Built == [at : {"built"}, op : {"install", "remove"}, parent : Nat, known : SUBSET Versions,
          installed : Option(Versions)]

-----------------------------------------------------------------------------
(* The inductive invariant of any number of callers: the generation a        *)
(* request or a row names is one that listed the version beside it.          *)

TypeInv ==
    /\ track \in [Tracks -> TrackRow \cup {Absent, Deleted}]
    /\ gens \in Seq(Generation) /\ Len(gens) <= MaxGenerations
    /\ active \in 1..Len(gens) /\ retained \in 0..Len(gens)
    /\ manager \in {Idle} \cup Checked \cup Built
    /\ req \in [Callers -> Forms]
    /\ chosen \in [Tracks -> Option(SUBSET Cards)]
    /\ planned \in [Tracks -> Plans]
    /\ repinned \subseteq Tracks
    /\ overtaken \in [Callers -> SUBSET Parts]
    /\ lost \in [Tracks -> SUBSET Parts]

HadPin(gen, v) == gen \in 1..Len(gens) /\ v \in gens[gen].known
RowsRecorded == \A t \in Tracks : Exists(t) => HadPin(track[t].gen, track[t].pin)
Recorded(r) ==
    r \in CreateKnown \cup CreateReady \cup IntegrateOpen \cup IntegrateReady => HadPin(r.gen, r.v)
RequestsRecorded == \A c \in Callers : Recorded(req[c])

PinInv == TypeInv /\ RowsRecorded /\ RequestsRecorded

LEMMA Apart ==
    /\ Absent \notin TrackRow /\ Deleted \notin TrackRow /\ Absent # Deleted
    /\ Idle \notin Creates /\ Idle \notin Updates /\ Idle \notin Integrates /\ Idle \notin PlanForms
    /\ Idle \notin Checked /\ Idle \notin Built
<1>1. Absent \notin TrackRow /\ Deleted \notin TrackRow /\ Absent # Deleted
    BY DEF Absent, Deleted, TrackRow
<1>2. Idle \notin Creates BY DEF Idle, Creates, CreateAsked, CreateKnown, CreateReady
<1>3. Idle \notin Updates BY DEF Idle, Updates, UpdateAsked, UpdateOpen, UpdateReady
<1>4. Idle \notin Integrates
    BY DEF Idle, Integrates, IntegrateAsked, IntegratePinned, IntegrateRead2, IntegrateOpen, IntegrateReady
<1>5. Idle \notin PlanForms BY DEF Idle, PlanForms, PlanAsked, PlanReady
<1>6. Idle \notin Checked /\ Idle \notin Built BY DEF Idle, Checked, Built
<1> QED BY <1>1, <1>2, <1>3, <1>4, <1>5, <1>6

\* The operation of a request tells its family ...
LEMMA Families ==
    ASSUME NEW r \in Forms, r # Idle
    PROVE  /\ r.op = "create" => r \in Creates
           /\ r.op = "update" => r \in Updates
           /\ r.op = "integrate" => r \in Integrates
           /\ r.op = "plan" => r \in PlanForms
<1>1. r \in Creates => r.op = "create" BY DEF Creates, CreateAsked, CreateKnown, CreateReady
<1>2. r \in Updates => r.op = "update" BY DEF Updates, UpdateAsked, UpdateOpen, UpdateReady
<1>3. r \in Integrates => r.op = "integrate"
    BY DEF Integrates, IntegrateAsked, IntegratePinned, IntegrateRead2, IntegrateOpen, IntegrateReady
<1>4. r \in PlanForms => r.op = "plan" BY DEF PlanForms, PlanAsked, PlanReady
<1> QED BY <1>1, <1>2, <1>3, <1>4 DEF Forms

\* ... and its step tells its form.
LEMMA Steps_Create ==
    ASSUME NEW r \in Creates
    PROVE  /\ r.at = "info" => r \in CreateAsked
           /\ r.at = "cards" => r \in CreateKnown
           /\ r.at = "insert" => r \in CreateReady
BY DEF Creates, CreateAsked, CreateKnown, CreateReady

LEMMA Steps_Update ==
    ASSUME NEW r \in Updates
    PROVE  /\ r.at = "read" => r \in UpdateAsked
           /\ r.at \in {"rules", "cards"} => r \in UpdateOpen
           /\ r.at = "write" => r \in UpdateReady
BY DEF Updates, UpdateAsked, UpdateOpen, UpdateReady

LEMMA Steps_Integrate ==
    ASSUME NEW r \in Integrates
    PROVE  /\ r.at \in {"read", "target", "reread"} => r \in IntegrateAsked
           /\ r.at = "current" => r \in IntegratePinned
           /\ r.at = "recheck" => r \in IntegrateRead2
           /\ r.at \in {"rules", "cards"} => r \in IntegrateOpen
           /\ r.at = "write" => r \in IntegrateReady
BY DEF Integrates, IntegrateAsked, IntegratePinned, IntegrateRead2, IntegrateOpen, IntegrateReady

LEMMA Steps_Plan ==
    ASSUME NEW r \in PlanForms
    PROVE  /\ r.at = "read" => r \in PlanAsked
           /\ r.at = "write" => r \in PlanReady
BY DEF PlanForms, PlanAsked, PlanReady

\* What the guard of a step says of the request.
LEMMA FormAt ==
    ASSUME TypeInv, NEW c \in Callers, NEW op, NEW step, At(c, op, step)
    PROVE  /\ req[c] \in Forms /\ req[c] # Idle
           /\ op = "create" => req[c] \in Creates
           /\ op = "update" => req[c] \in Updates
           /\ op = "integrate" => req[c] \in Integrates
           /\ op = "plan" => req[c] \in PlanForms
           /\ req[c].at = step
BY Families DEF TypeInv, At

-----------------------------------------------------------------------------
(* The steps of a request that write nothing. *)

Quietly == UNCHANGED <<trackVars, contentVars>>

\* The request continues with q, which is well formed and names a generation
\* that had its version; one that ends is not overtaken any more.
Moves(c, q) ==
    /\ q \in Forms /\ Recorded(q) /\ req' = [req EXCEPT ![c] = q] /\ Quietly
    /\ overtaken' = overtaken \/ overtaken' = [overtaken EXCEPT ![c] = {}]

Moved(c) == \E q : Moves(c, q)

LEMMA IdleMoves == Idle \in Forms /\ Recorded(Idle)
BY Apart DEF Forms, Recorded, Creates, Integrates

LEMMA FailMoves ==
    ASSUME NEW c \in Callers, Fail(c)
    PROVE  Moves(c, Idle)
BY IdleMoves DEF Fail, Return, Moves, Quietly

LEMMA ContinueMoves ==
    ASSUME NEW c \in Callers, NEW condition, NEW q, Continue(c, condition, q),
           condition => q \in Forms /\ Recorded(q)
    PROVE  Moved(c)
<1>1. CASE condition
    <2>1. Moves(c, q) BY <1>1 DEF Continue, Goto, Moves, Quietly
    <2> QED BY <2>1 DEF Moved
<1>2. CASE ~condition
    <2>1. Moves(c, Idle) BY <1>2, FailMoves DEF Continue
    <2> QED BY <2>1 DEF Moved
<1> QED BY <1>1, <1>2

LEMMA GotoMoves ==
    ASSUME NEW c \in Callers, NEW q, Goto(c, q), q \in Forms, Recorded(q)
    PROVE  Moved(c)
<1>1. Moves(c, q) BY DEF Goto, Moves, Quietly
<1> QED BY <1>1 DEF Moved

\* Forms that name no generation.
LEMMA PlainForms ==
    /\ \A q \in CreateAsked \cup Updates \cup IntegrateAsked \cup IntegratePinned
                \cup IntegrateRead2 \cup PlanForms : q \in Forms /\ Recorded(q)
    /\ \A q \in CreateKnown \cup CreateReady \cup IntegrateOpen \cup IntegrateReady : q \in Forms
<1>1. \A q \in CreateAsked : q \notin CreateKnown \cup CreateReady \cup IntegrateOpen \cup IntegrateReady
    BY DEF CreateAsked, CreateKnown, CreateReady, IntegrateOpen, IntegrateReady
<1>2. \A q \in Updates : q \notin CreateKnown \cup CreateReady \cup IntegrateOpen \cup IntegrateReady
    <2>1. \A q \in Updates : q.op = "update" BY DEF Updates, UpdateAsked, UpdateOpen, UpdateReady
    <2>2. \A q \in CreateKnown \cup CreateReady \cup IntegrateOpen \cup IntegrateReady : q.op # "update"
        BY DEF CreateKnown, CreateReady, IntegrateOpen, IntegrateReady
    <2> QED BY <2>1, <2>2
<1>3. \A q \in IntegrateAsked : q \notin CreateKnown \cup CreateReady \cup IntegrateOpen \cup IntegrateReady
    BY DEF IntegrateAsked, CreateKnown, CreateReady, IntegrateOpen, IntegrateReady
<1>4. \A q \in IntegratePinned \cup IntegrateRead2 :
          q \notin CreateKnown \cup CreateReady \cup IntegrateOpen \cup IntegrateReady
    BY DEF IntegratePinned, IntegrateRead2, CreateKnown, CreateReady, IntegrateOpen, IntegrateReady
<1>5. \A q \in PlanForms : q \notin CreateKnown \cup CreateReady \cup IntegrateOpen \cup IntegrateReady
    BY DEF PlanForms, PlanAsked, PlanReady, CreateKnown, CreateReady, IntegrateOpen, IntegrateReady
<1>6. /\ CreateAsked \cup Updates \cup IntegrateAsked \cup IntegratePinned
             \cup IntegrateRead2 \cup PlanForms \subseteq Forms
      /\ CreateKnown \cup CreateReady \cup IntegrateOpen \cup IntegrateReady \subseteq Forms
    BY DEF Forms, Creates, Integrates
<1> QED BY <1>1, <1>2, <1>3, <1>4, <1>5, <1>6 DEF Recorded

LEMMA ActiveKnown ==
    ASSUME TypeInv, NEW v \in Known
    PROVE  HadPin(active, v) /\ active \in Nat
BY DEF TypeInv, HadPin, Known

LEMMA SelectionTyped ==
    ASSUME TypeInv, NEW v \in Versions, NEW d, NEW keys
    PROVE  /\ Selection(v, d, keys) \subseteq PackCards[v]
           /\ Selection(v, d, keys) # {} => Selection(v, d, keys) \in Selected
<1>1. Selection(v, d, keys) \subseteq PackCards[v]
    BY DEF Selection, DirectionCards, CardsInPack, Active
<1>2. PackCards[v] \subseteq Cards BY DataAssumption DEF DataAssumption
<1>3. \A S : S \subseteq PackCards[v] /\ S # {} => S \in Selected BY <1>2 DEF Selected
<1> QED BY <1>1, <1>3

LEMMA CreateMoves ==
    ASSUME PinInv, NEW c \in Callers, CreateInfo(c) \/ CreateCards(c)
    PROVE  Moved(c)
<1>1. CASE CreateInfo(c)
    <2> DEFINE r == req[c]
               q == [at |-> "cards", op |-> "create", t |-> r.t, v |-> r.v, d |-> r.d,
                     choice |-> r.choice, gen |-> active]
    <2>1. r \in CreateAsked BY <1>1, FormAt, Steps_Create DEF PinInv, CreateInfo
    <2>2. Continue(c, r.v \in Known, q) BY <1>1 DEF CreateInfo
    <2>3. r.v \in Known => q \in CreateKnown /\ HadPin(q.gen, q.v)
        BY <2>1, ActiveKnown DEF PinInv, CreateAsked, CreateKnown
    <2>4. r.v \in Known => q \in Forms /\ Recorded(q) BY <2>3, PlainForms DEF Recorded
    <2> HIDE DEF q
    <2> QED BY <2>2, <2>4, ContinueMoves
<1>2. CASE CreateCards(c)
    <2> DEFINE r == req[c]
               cards == Selection(r.v, r.d, r.choice)
               q == [at |-> "insert", op |-> "create", t |-> r.t, v |-> r.v, d |-> r.d,
                     choice |-> r.choice, gen |-> r.gen, cards |-> cards]
    <2>1. r \in CreateKnown BY <1>2, FormAt, Steps_Create DEF PinInv, CreateCards
    <2>2. Continue(c, Complete(r.v, r.choice) /\ cards # {}, q) BY <1>2 DEF CreateCards
    <2>3. cards # {} => cards \in Selected
        <3>1. r.v \in Versions BY <2>1 DEF CreateKnown
        <3> QED BY <3>1, SelectionTyped DEF PinInv
    <2>4. HadPin(r.gen, r.v) BY <2>1 DEF PinInv, RequestsRecorded, Recorded
    <2> HIDE DEF cards
    <2>5. cards # {} => q \in CreateReady
        BY <2>1, <2>3 DEF CreateKnown, CreateReady
    <2>6. q.gen = r.gen /\ q.v = r.v OBVIOUS
    <2>7. cards # {} => q \in Forms /\ Recorded(q) BY <2>4, <2>5, <2>6, PlainForms DEF Recorded
    <2> HIDE DEF q
    <2> QED BY <2>2, <2>7, ContinueMoves
<1> QED BY <1>1, <1>2

LEMMA RowTyped ==
    ASSUME TypeInv, NEW t \in Tracks, Exists(t)
    PROVE  /\ track[t].pin \in Versions /\ track[t].gen \in Nat /\ track[t].mode \in Modes
           /\ track[t].direction \in Directions /\ track[t].plan \in Plans
           /\ track[t].kind \in Kinds /\ track[t].rules \in Selected
BY DEF Exists, TrackRow, Selected

LEMMA UpdateMoves ==
    ASSUME PinInv, NEW c \in Callers, UpdateRead(c) \/ UpdateRules(c) \/ UpdateCards(c)
    PROVE  Moved(c)
<1> DEFINE r == req[c]
<1>1. CASE UpdateRead(c)
    <2> DEFINE row == track[r.t]
               d == IF r.turn = None THEN row.direction ELSE r.turn
               explicit == r.choice # None \/ row.mode = "explicit"
               q == [at |-> IF r.choice = None /\ explicit THEN "rules" ELSE "cards",
                     op |-> "update", t |-> r.t, choice |-> r.choice,
                     pin |-> row.pin, d |-> d, plan |-> row.plan, keys |-> r.choice,
                     mode |-> IF explicit THEN "explicit" ELSE "direction"]
    <2>1. r \in UpdateAsked BY <1>1, FormAt, Steps_Update DEF PinInv, UpdateRead
    <2>2. CASE ~Exists(r.t)
        <3>1. Moves(c, Idle) BY <1>1, <2>2, FailMoves DEF UpdateRead
        <3> QED BY <3>1 DEF Moved
    <2>3. CASE Exists(r.t)
        <3>1. Goto(c, q) BY <1>1, <2>3 DEF UpdateRead
        <3>2. r.t \in Tracks /\ r.turn \in Option(Directions) /\ r.choice \in Option(Choices)
            BY <2>1 DEF UpdateAsked
        <3>3. row.pin \in Versions /\ row.plan \in Plans /\ row.direction \in Directions
            BY <2>3, <3>2, RowTyped DEF PinInv
        <3>4. d \in Directions BY <3>2, <3>3 DEF Option
        <3>5. r.choice \in Option(SUBSET Cards) BY <3>2, DataAssumption DEF DataAssumption, Option
        <3> HIDE DEF row, d, explicit
        <3>6. q \in UpdateOpen BY <3>2, <3>3, <3>4, <3>5 DEF UpdateOpen, Modes
        <3>7. q \in Forms /\ Recorded(q) BY <3>6, PlainForms DEF Updates
        <3> HIDE DEF q
        <3> QED BY <3>1, <3>7, GotoMoves
    <2> QED BY <2>2, <2>3
<1>2. CASE UpdateRules(c)
    <2> DEFINE q == [r EXCEPT !.at = "cards", !.keys = RulesOf(r.t)]
    <2>1. r \in UpdateOpen BY <1>2, FormAt, Steps_Update DEF PinInv, UpdateRules
    <2>2. Goto(c, q) BY <1>2 DEF UpdateRules
    <2>3. RulesOf(r.t) \in SUBSET Cards
        BY <2>1, RowTyped DEF PinInv, RulesOf, UpdateOpen, Selected
    <2>4. q \in UpdateOpen BY <2>1, <2>3 DEF UpdateOpen, Option
    <2>5. q \in Forms /\ Recorded(q) BY <2>4, PlainForms DEF Updates
    <2> HIDE DEF q
    <2> QED BY <2>2, <2>5, GotoMoves
<1>3. CASE UpdateCards(c)
    <2> DEFINE cards == Selection(r.pin, r.d, r.keys)
               q == [at |-> "write", op |-> "update", t |-> r.t, choice |-> r.choice,
                     d |-> r.d, plan |-> r.plan, mode |-> r.mode, cards |-> cards]
    <2>1. r \in UpdateOpen BY <1>3, FormAt, Steps_Update DEF PinInv, UpdateCards
    <2>2. Continue(c, Complete(r.pin, r.choice) /\ cards # {}, q) BY <1>3 DEF UpdateCards
    <2>3. cards # {} => cards \in Selected
        <3>1. r.pin \in Versions BY <2>1 DEF UpdateOpen
        <3> QED BY <3>1, SelectionTyped DEF PinInv
    <2> HIDE DEF cards
    <2>4. cards # {} => q \in UpdateReady BY <2>1, <2>3 DEF UpdateOpen, UpdateReady
    <2>5. cards # {} => q \in Forms /\ Recorded(q) BY <2>4, PlainForms DEF Updates
    <2> HIDE DEF q
    <2> QED BY <2>2, <2>5, ContinueMoves
<1> QED BY <1>1, <1>2, <1>3

LEMMA IntegrateMoves ==
    ASSUME PinInv, NEW c \in Callers,
           \/ IntegrateRead(c) \/ IntegrateCurrent(c) \/ IntegrateTarget(c)
           \/ IntegrateReread(c) \/ IntegrateRecheck(c) \/ IntegrateRules(c) \/ IntegrateCards(c)
    PROVE  Moved(c)
<1> DEFINE r == req[c]
<1>1. CASE IntegrateRead(c)
    <2> DEFINE q == [at |-> "current", op |-> "integrate", t |-> r.t, v |-> r.v,
                     pin |-> track[r.t].pin]
    <2>1. r \in IntegrateAsked BY <1>1, FormAt, Steps_Integrate DEF PinInv, IntegrateRead
    <2>2. CASE ~Exists(r.t)
        <3>1. Moves(c, Idle) BY <1>1, <2>2, FailMoves DEF IntegrateRead
        <3> QED BY <3>1 DEF Moved
    <2>3. CASE Exists(r.t)
        <3>1. Continue(c, track[r.t].pin # r.v, q) BY <1>1, <2>3 DEF IntegrateRead
        <3>2. r.t \in Tracks /\ r.v \in Versions BY <2>1 DEF IntegrateAsked
        <3>3. track[r.t].pin \in Versions BY <2>3, <3>2, RowTyped DEF PinInv
        <3>4. q \in IntegratePinned BY <3>2, <3>3 DEF IntegratePinned
        <3>5. q \in Forms /\ Recorded(q) BY <3>4, PlainForms
        <3> HIDE DEF q
        <3> QED BY <3>1, <3>5, ContinueMoves
    <2> QED BY <2>2, <2>3
<1>2. CASE IntegrateCurrent(c)
    <2> DEFINE q == [at |-> "target", op |-> "integrate", t |-> r.t, v |-> r.v]
    <2>1. r \in IntegratePinned BY <1>2, FormAt, Steps_Integrate DEF PinInv, IntegrateCurrent
    <2>2. Continue(c, r.pin \in Known, q) BY <1>2 DEF IntegrateCurrent
    <2>3. q \in IntegrateAsked BY <2>1 DEF IntegratePinned, IntegrateAsked
    <2>4. q \in Forms /\ Recorded(q) BY <2>3, PlainForms
    <2> HIDE DEF q
    <2> QED BY <2>2, <2>4, ContinueMoves
<1>3. CASE IntegrateTarget(c)
    <2> DEFINE q == [r EXCEPT !.at = "reread"]
    <2>1. r \in IntegrateAsked BY <1>3, FormAt, Steps_Integrate DEF PinInv, IntegrateTarget
    <2>2. Continue(c, r.v \in Known, q) BY <1>3 DEF IntegrateTarget
    <2>3. q \in IntegrateAsked BY <2>1 DEF IntegrateAsked
    <2>4. q \in Forms /\ Recorded(q) BY <2>3, PlainForms
    <2> HIDE DEF q
    <2> QED BY <2>2, <2>4, ContinueMoves
<1>4. CASE IntegrateReread(c)
    <2> DEFINE row == track[r.t]
               q == [at |-> "recheck", op |-> "integrate", t |-> r.t, v |-> r.v,
                     mode |-> row.mode, d |-> row.direction]
    <2>1. r \in IntegrateAsked BY <1>4, FormAt, Steps_Integrate DEF PinInv, IntegrateReread
    <2>2. CASE ~Exists(r.t)
        <3>1. Moves(c, Idle) BY <1>4, <2>2, FailMoves DEF IntegrateReread
        <3> QED BY <3>1 DEF Moved
    <2>3. CASE Exists(r.t)
        <3>1. Goto(c, q) BY <1>4, <2>3 DEF IntegrateReread
        <3>2. r.t \in Tracks /\ r.v \in Versions BY <2>1 DEF IntegrateAsked
        <3>3. row.mode \in Modes /\ row.direction \in Directions
            BY <2>3, <3>2, RowTyped DEF PinInv
        <3> HIDE DEF row
        <3>4. q \in IntegrateRead2 BY <3>2, <3>3 DEF IntegrateRead2
        <3>5. q \in Forms /\ Recorded(q) BY <3>4, PlainForms
        <3> HIDE DEF q
        <3> QED BY <3>1, <3>5, GotoMoves
    <2> QED BY <2>2, <2>3
<1>5. CASE IntegrateRecheck(c)
    <2> DEFINE q == [at |-> IF r.mode = "explicit" THEN "rules" ELSE "cards",
                     op |-> "integrate", t |-> r.t, v |-> r.v, mode |-> r.mode, d |-> r.d,
                     gen |-> active, keys |-> None]
    <2>1. r \in IntegrateRead2 BY <1>5, FormAt, Steps_Integrate DEF PinInv, IntegrateRecheck
    <2>2. Continue(c, r.v \in Known, q) BY <1>5 DEF IntegrateRecheck
    <2>3. r.v \in Known => HadPin(active, r.v) /\ active \in Nat BY ActiveKnown DEF PinInv
    <2>4. active \in Nat => q \in IntegrateOpen BY <2>1 DEF IntegrateRead2, IntegrateOpen, Option
    <2>5. q.gen = active /\ q.v = r.v OBVIOUS
    <2>6. r.v \in Known => q \in Forms /\ Recorded(q) BY <2>3, <2>4, <2>5, PlainForms DEF Recorded
    <2> HIDE DEF q
    <2> QED BY <2>2, <2>6, ContinueMoves
<1>6. CASE IntegrateRules(c)
    <2> DEFINE q == [r EXCEPT !.at = "cards", !.keys = ExplicitRules(r.t)]
    <2>1. r \in IntegrateOpen BY <1>6, FormAt, Steps_Integrate DEF PinInv, IntegrateRules
    <2>2. Goto(c, q) BY <1>6 DEF IntegrateRules
    <2>3. ExplicitRules(r.t) \in SUBSET Cards
        BY <2>1, RowTyped DEF PinInv, ExplicitRules, IntegrateOpen, Selected
    <2>4. q \in IntegrateOpen /\ q.gen = r.gen /\ q.v = r.v BY <2>1, <2>3 DEF IntegrateOpen, Option
    <2>5. HadPin(r.gen, r.v) BY <2>1 DEF PinInv, RequestsRecorded, Recorded
    <2>6. q \in Forms /\ Recorded(q) BY <2>4, <2>5, PlainForms DEF Recorded
    <2> HIDE DEF q
    <2> QED BY <2>2, <2>6, GotoMoves
<1>7. CASE IntegrateCards(c)
    <2> DEFINE cards == Selection(r.v, r.d, r.keys)
               q == [at |-> "write", op |-> "integrate", t |-> r.t, v |-> r.v,
                     mode |-> r.mode, gen |-> r.gen, cards |-> cards]
    <2>1. r \in IntegrateOpen BY <1>7, FormAt, Steps_Integrate DEF PinInv, IntegrateCards
    <2>2. Continue(c, Complete(r.v, r.keys) /\ cards # {}, q) BY <1>7 DEF IntegrateCards
    <2>3. cards # {} => cards \in Selected
        <3>1. r.v \in Versions BY <2>1 DEF IntegrateOpen
        <3> QED BY <3>1, SelectionTyped DEF PinInv
    <2>4. HadPin(r.gen, r.v) BY <2>1 DEF PinInv, RequestsRecorded, Recorded
    <2> HIDE DEF cards
    <2>5. cards # {} => q \in IntegrateReady BY <2>1, <2>3 DEF IntegrateOpen, IntegrateReady
    <2>6. q.gen = r.gen /\ q.v = r.v OBVIOUS
    <2>7. cards # {} => q \in Forms /\ Recorded(q) BY <2>4, <2>5, <2>6, PlainForms DEF Recorded
    <2> HIDE DEF q
    <2> QED BY <2>2, <2>7, ContinueMoves
<1> QED BY <1>1, <1>2, <1>3, <1>4, <1>5, <1>6, <1>7

LEMMA PlanMoves ==
    ASSUME PinInv, NEW c \in Callers, PlanRead(c)
    PROVE  Moved(c)
<1> DEFINE r == req[c]
           q == [at |-> "write", op |-> "plan", t |-> r.t, plan |-> r.plan,
                 mode |-> track[r.t].mode]
<1>1. r \in PlanAsked BY FormAt, Steps_Plan DEF PinInv, PlanRead
<1>2. CASE ~Exists(r.t)
    <2>1. Moves(c, Idle) BY <1>2, FailMoves DEF PlanRead
    <2> QED BY <2>1 DEF Moved
<1>3. CASE Exists(r.t)
    <2>1. Goto(c, q) BY <1>3 DEF PlanRead
    <2>2. track[r.t].mode \in Modes BY <1>1, <1>3, RowTyped DEF PinInv, PlanAsked
    <2>3. q \in PlanReady BY <1>1, <2>2 DEF PlanAsked, PlanReady
    <2>4. q \in Forms /\ Recorded(q) BY <2>3, PlainForms DEF PlanForms
    <2> HIDE DEF q
    <2> QED BY <2>1, <2>4, GotoMoves
<1> QED BY <1>2, <1>3

-----------------------------------------------------------------------------
(* Frames: what a step that changes one request, or one row, leaves true. *)

LEMMA RequestsKept ==
    ASSUME PinInv, NEW c \in Callers, NEW q \in Forms, Recorded(q),
           req' = [req EXCEPT ![c] = q], gens' = gens
    PROVE  req' \in [Callers -> Forms] /\ RequestsRecorded'
<1>1. req' \in [Callers -> Forms] BY DEF PinInv, TypeInv
<1>2. ASSUME NEW e \in Callers PROVE Recorded(req[e])'
    <2>1. CASE e = c
        <3>1. req'[e] = q BY <2>1 DEF PinInv, TypeInv
        <3> QED BY <3>1 DEF Recorded, HadPin
    <2>2. CASE e # c
        <3>1. req'[e] = req[e] BY <2>2 DEF PinInv, TypeInv
        <3>2. Recorded(req[e]) BY DEF PinInv, RequestsRecorded
        <3> QED BY <3>1, <3>2 DEF Recorded, HadPin
    <2> QED BY <2>1, <2>2
<1> QED BY <1>1, <1>2 DEF RequestsRecorded

LEMMA RowsKept ==
    ASSUME PinInv, NEW t \in Tracks, NEW row \in TrackRow \cup {Absent, Deleted},
           row \in TrackRow => HadPin(row.gen, row.pin),
           track' = [track EXCEPT ![t] = row], gens' = gens
    PROVE  track' \in [Tracks -> TrackRow \cup {Absent, Deleted}] /\ RowsRecorded'
<1>1. track' \in [Tracks -> TrackRow \cup {Absent, Deleted}] BY DEF PinInv, TypeInv
<1>2. ASSUME NEW u \in Tracks, Exists(u)' PROVE HadPin(track[u].gen, track[u].pin)'
    <2>1. CASE u = t
        <3>1. track'[u] = row BY <2>1 DEF PinInv, TypeInv
        <3> QED BY <1>2, <3>1 DEF Exists, HadPin
    <2>2. CASE u # t
        <3>1. track'[u] = track[u] BY <2>2 DEF PinInv, TypeInv
        <3>2. Exists(u) BY <1>2, <3>1 DEF Exists
        <3>3. HadPin(track[u].gen, track[u].pin) BY <3>2 DEF PinInv, RowsRecorded
        <3> QED BY <3>1, <3>3 DEF HadPin
    <2> QED BY <2>1, <2>2
<1> QED BY <1>1, <1>2 DEF RowsRecorded

\* The rest of the type invariant.
Histories ==
    /\ chosen \in [Tracks -> Option(SUBSET Cards)]
    /\ planned \in [Tracks -> Plans]
    /\ repinned \subseteq Tracks
    /\ overtaken \in [Callers -> SUBSET Parts]
    /\ lost \in [Tracks -> SUBSET Parts]
Contents ==
    /\ gens \in Seq(Generation) /\ Len(gens) <= MaxGenerations
    /\ active \in 1..Len(gens) /\ retained \in 0..Len(gens)
    /\ manager \in {Idle} \cup Checked \cup Built

LEMMA TypeParts ==
    /\ TypeInv <=> /\ track \in [Tracks -> TrackRow \cup {Absent, Deleted}]
                   /\ req \in [Callers -> Forms]
                   /\ Contents /\ Histories
    /\ TypeInv' <=> /\ track' \in [Tracks -> TrackRow \cup {Absent, Deleted}]
                    /\ req' \in [Callers -> Forms]
                    /\ Contents' /\ Histories'
BY DEF TypeInv, Contents, Histories

LEMMA ContentsKept ==
    ASSUME TypeInv, UNCHANGED contentVars
    PROVE  Contents' /\ gens' = gens
BY DEF TypeInv, Contents, contentVars

LEMMA MovedKeeps ==
    ASSUME PinInv, NEW c \in Callers, Moved(c)
    PROVE  PinInv'
<1>1. PICK q : Moves(c, q) BY DEF Moved
<1>2. Contents' /\ gens' = gens BY <1>1, ContentsKept DEF Moves, Quietly, PinInv
<1>3. req' \in [Callers -> Forms] /\ RequestsRecorded' BY <1>1, <1>2, RequestsKept DEF Moves
<1>4. /\ UNCHANGED <<track, chosen, planned, repinned, lost>>
      /\ overtaken' = overtaken \/ overtaken' = [overtaken EXCEPT ![c] = {}]
    BY <1>1 DEF Moves, Quietly, trackVars
<1>5. Histories' /\ track' \in [Tracks -> TrackRow \cup {Absent, Deleted}]
    BY <1>4 DEF Histories, PinInv, TypeInv
<1>6. RowsRecorded' BY <1>2, <1>4 DEF PinInv, RowsRecorded, Exists, HadPin
<1> QED BY <1>2, <1>3, <1>5, <1>6, TypeParts DEF PinInv

-----------------------------------------------------------------------------
(* The transactions that write a row *)

\* A writing step replaces one row by one whose generation had its pin.
Writes(c, t, row) ==
    /\ t \in Tracks /\ row \in TrackRow \cup {Absent, Deleted}
    /\ row \in TrackRow => HadPin(row.gen, row.pin)
    /\ track' = [track EXCEPT ![t] = row]
    /\ req' = [req EXCEPT ![c] = Idle] \/ req' = req
    /\ Histories'
    /\ UNCHANGED contentVars

LEMMA WritesKeeps ==
    ASSUME PinInv, NEW c \in Callers, NEW t, NEW row, Writes(c, t, row)
    PROVE  PinInv'
<1>1. Contents' /\ gens' = gens BY ContentsKept DEF Writes, PinInv
<1>2. track' \in [Tracks -> TrackRow \cup {Absent, Deleted}] /\ RowsRecorded'
    BY <1>1, RowsKept DEF Writes
<1>3. req' \in [Callers -> Forms] /\ RequestsRecorded'
    <2>1. CASE req' = [req EXCEPT ![c] = Idle] BY <2>1, <1>1, IdleMoves, RequestsKept
    <2>2. CASE req' = req
        BY <2>2, <1>1 DEF PinInv, TypeInv, RequestsRecorded, Recorded, HadPin
    <2> QED BY <2>1, <2>2 DEF Writes
<1> QED BY <1>1, <1>2, <1>3, TypeParts DEF PinInv, Writes

LEMMA FailKeeps ==
    ASSUME PinInv, NEW c \in Callers, Fail(c)
    PROVE  PinInv'
<1>1. Moved(c) BY FailMoves DEF Moved
<1> QED BY <1>1, MovedKeeps

LEMMA ExplicitlyTyped ==
    ASSUME TypeInv, NEW t \in Tracks, NEW choice \in Option(Choices), Explicitly(t, choice)
    PROVE  chosen' \in [Tracks -> Option(SUBSET Cards)]
<1>1. choice \in Option(SUBSET Cards) BY DataAssumption DEF DataAssumption, Option
<1> QED BY <1>1 DEF TypeInv, Explicitly

LEMMA WritesBackTyped ==
    ASSUME TypeInv, NEW c \in Callers, NEW t \in Tracks, NEW stored \in SUBSET Parts, NEW back,
           WritesBack(c, t, stored, back)
    PROVE  overtaken' \in [Callers -> SUBSET Parts] /\ lost' \in [Tracks -> SUBSET Parts]
<1>1. (lost[t] \ stored) \cup (overtaken[c] \cap back) \in SUBSET Parts BY DEF TypeInv
<1>2. \A d \in Callers : overtaken[d] \cup stored \in SUBSET Parts BY DEF TypeInv
<1> QED BY <1>1, <1>2 DEF TypeInv, WritesBack

LEMMA KindTyped == \A mode : KindOf(mode) \in Kinds
BY DEF KindOf, Kinds

LEMMA CreateInsertKeeps ==
    ASSUME PinInv, NEW c \in Callers, CreateInsert(c)
    PROVE  PinInv'
<1> DEFINE r == req[c]
<1>1. r \in CreateReady BY FormAt, Steps_Create DEF PinInv, CreateInsert
<1>2. CASE track[r.t] # Absent BY <1>2, FailKeeps DEF CreateInsert
<1>3. CASE track[r.t] = Absent
    <2>1. /\ track' = [track EXCEPT ![r.t] = NewRow(r)] /\ Explicitly(r.t, r.choice)
          /\ repinned' = repinned \cup {r.t} /\ req' = [req EXCEPT ![c] = Idle]
          /\ UNCHANGED <<planned, lost, overtaken, contentVars>>
        BY <1>3 DEF CreateInsert, Return
    <2>2. r.t \in Tracks /\ r.choice \in Option(Choices) BY <1>1 DEF CreateReady
    <2>3. NewRow(r) \in TrackRow
        <3>1. /\ r.v \in Versions /\ r.gen \in Nat /\ r.d \in Directions
              /\ r.cards \in (SUBSET Cards) \ {{}}
            BY <1>1 DEF CreateReady, Selected
        <3>2. NoPlan \in Plans BY DataAssumption DEF DataAssumption
        <3> QED BY <3>1, <3>2 DEF NewRow, TrackRow, Modes, Kinds
    <2>4. NewRow(r).gen = r.gen /\ NewRow(r).pin = r.v BY DEF NewRow
    <2>5. HadPin(r.gen, r.v) BY <1>1 DEF PinInv, RequestsRecorded, Recorded
    <2>6. Histories'
        BY <2>1, <2>2, ExplicitlyTyped DEF Histories, PinInv, TypeInv
    <2>7. Writes(c, r.t, NewRow(r)) BY <2>1, <2>2, <2>3, <2>4, <2>5, <2>6 DEF Writes
    <2> QED BY <2>7, WritesKeeps
<1> QED BY <1>2, <1>3

LEMMA UpdateWriteKeeps ==
    ASSUME PinInv, NEW c \in Callers, UpdateWrite(c)
    PROVE  PinInv'
<1> DEFINE r == req[c]
<1>1. r \in UpdateReady BY FormAt, Steps_Update DEF PinInv, UpdateWrite
<1>2. CASE ~Exists(r.t) BY <1>2, FailKeeps DEF UpdateWrite
<1>3. CASE Exists(r.t)
    <2> DEFINE row == Updated(track[r.t], r)
    <2>1. /\ track' = [track EXCEPT ![r.t] = row] /\ Explicitly(r.t, r.choice)
          /\ req' = [req EXCEPT ![c] = Idle] /\ UNCHANGED <<planned, repinned, contentVars>>
        BY <1>3 DEF UpdateWrite, Return
    <2>2. r.t \in Tracks /\ r.choice \in Option(Choices) BY <1>1 DEF UpdateReady
    <2>3. /\ r.d \in Directions /\ r.mode \in Modes /\ r.plan \in Plans
          /\ r.cards \in (SUBSET Cards) \ {{}}
        BY <1>1 DEF UpdateReady, Selected
    <2>4. track[r.t] \in TrackRow BY <1>3 DEF Exists
    <2>5. row \in TrackRow BY <2>3, <2>4, KindTyped DEF Updated, TrackRow
    <2>6. row.gen = track[r.t].gen /\ row.pin = track[r.t].pin BY <2>4 DEF Updated, TrackRow
    <2>7. HadPin(track[r.t].gen, track[r.t].pin) BY <1>3, <2>2 DEF PinInv, RowsRecorded
    <2>a. overtaken' \in [Callers -> SUBSET Parts] /\ lost' \in [Tracks -> SUBSET Parts]
        BY <1>3, <2>2, WritesBackTyped DEF UpdateWrite, PinInv, Parts
    <2>8. Histories' BY <2>1, <2>2, <2>a, ExplicitlyTyped DEF Histories, PinInv, TypeInv
    <2>9. Writes(c, r.t, row) BY <2>1, <2>2, <2>5, <2>6, <2>7, <2>8 DEF Writes
    <2> QED BY <2>9, WritesKeeps
<1> QED BY <1>2, <1>3

LEMMA IntegrateWriteKeeps ==
    ASSUME PinInv, NEW c \in Callers, IntegrateWrite(c)
    PROVE  PinInv'
<1> DEFINE r == req[c]
<1>1. r \in IntegrateReady BY FormAt, Steps_Integrate DEF PinInv, IntegrateWrite
<1>2. CASE ~Exists(r.t) BY <1>2, FailKeeps DEF IntegrateWrite
<1>3. CASE Exists(r.t)
    <2> DEFINE row == Integrated(track[r.t], r)
    <2>1. /\ track' = [track EXCEPT ![r.t] = row] /\ repinned' = repinned \cup {r.t}
          /\ req' = [req EXCEPT ![c] = Idle] /\ UNCHANGED <<chosen, planned, contentVars>>
        BY <1>3 DEF IntegrateWrite, Return
    <2>2. r.t \in Tracks BY <1>1 DEF IntegrateReady
    <2>3. /\ r.v \in Versions /\ r.gen \in Nat
          /\ r.cards \in (SUBSET Cards) \ {{}}
        BY <1>1 DEF IntegrateReady, Selected
    <2>4. track[r.t] \in TrackRow BY <1>3 DEF Exists
    <2>5. row \in TrackRow BY <2>3, <2>4, KindTyped DEF Integrated, TrackRow
    <2>6. row.gen = r.gen /\ row.pin = r.v BY <2>4 DEF Integrated, TrackRow
    <2>7. HadPin(r.gen, r.v) BY <1>1 DEF PinInv, RequestsRecorded, Recorded
    <2>a. overtaken' \in [Callers -> SUBSET Parts] /\ lost' \in [Tracks -> SUBSET Parts]
        BY <1>3, <2>2, WritesBackTyped DEF IntegrateWrite, PinInv, Parts
    <2>8. Histories' BY <2>1, <2>2, <2>a DEF Histories, PinInv, TypeInv
    <2>9. Writes(c, r.t, row) BY <2>1, <2>2, <2>5, <2>6, <2>7, <2>8 DEF Writes
    <2> QED BY <2>9, WritesKeeps
<1> QED BY <1>2, <1>3

LEMMA PlanWriteKeeps ==
    ASSUME PinInv, NEW c \in Callers, PlanWrite(c)
    PROVE  PinInv'
<1> DEFINE r == req[c]
<1>1. r \in PlanReady BY FormAt, Steps_Plan DEF PinInv, PlanWrite
<1>2. CASE ~Exists(r.t) BY <1>2, FailKeeps DEF PlanWrite
<1>3. CASE Exists(r.t)
    <2> DEFINE row == [track[r.t] EXCEPT !.plan = r.plan, !.mode = r.mode]
    <2>1. /\ track' = [track EXCEPT ![r.t] = row] /\ planned' = [planned EXCEPT ![r.t] = r.plan]
          /\ req' = [req EXCEPT ![c] = Idle] /\ UNCHANGED <<chosen, repinned, contentVars>>
        BY <1>3 DEF PlanWrite, Return
    <2>2. r.t \in Tracks /\ r.plan \in Plans /\ r.mode \in Modes BY <1>1 DEF PlanReady
    <2>4. track[r.t] \in TrackRow BY <1>3 DEF Exists
    <2>5. row \in TrackRow BY <2>2, <2>4 DEF TrackRow
    <2>6. row.gen = track[r.t].gen /\ row.pin = track[r.t].pin BY <2>4 DEF TrackRow
    <2>7. HadPin(track[r.t].gen, track[r.t].pin) BY <1>3, <2>2 DEF PinInv, RowsRecorded
    <2>a. overtaken' \in [Callers -> SUBSET Parts] /\ lost' \in [Tracks -> SUBSET Parts]
        BY <1>3, <2>2, WritesBackTyped DEF PlanWrite, PinInv, Parts
    <2>8. Histories' BY <2>1, <2>2, <2>a DEF Histories, PinInv, TypeInv
    <2>9. Writes(c, r.t, row) BY <2>1, <2>2, <2>5, <2>6, <2>7, <2>8 DEF Writes
    <2> QED BY <2>9, WritesKeeps
<1> QED BY <1>2, <1>3

LEMMA DeleteKeeps ==
    ASSUME PinInv, NEW c \in Callers, NEW t \in Tracks, Delete(c, t)
    PROVE  PinInv'
<1>1. NoPlan \in Plans BY DataAssumption DEF DataAssumption
<1>2. Histories' BY <1>1 DEF Delete, Histories, Option, PinInv, TypeInv, callVars
<1>3. Writes(c, t, Deleted) BY <1>2, Apart DEF Delete, Writes, callVars
<1> QED BY <1>3, WritesKeeps

-----------------------------------------------------------------------------
(* New requests, and the dataset manager *)

LEMMA BeginKeeps ==
    ASSUME PinInv, NEW c \in Callers, NEW op, NEW q \in Forms, Recorded(q), Begin(c, op, q)
    PROVE  PinInv'
<1>1. Moves(c, q) BY DEF Begin, Moves, Quietly
<1>2. Moved(c) BY <1>1 DEF Moved
<1> QED BY <1>2, MovedKeeps

LEMMA RequestsKeep ==
    ASSUME PinInv, NEW c \in Callers, Requests(c)
    PROVE  PinInv'
<1>1. ASSUME NEW t \in Tracks, NEW v \in Versions, NEW d \in Directions,
             NEW choice \in Choices \cup {None}, RequestCreate(c, t, v, d, choice)
      PROVE  PinInv'
    <2> DEFINE q == [at |-> "info", op |-> "create", t |-> t, v |-> v, d |-> d, choice |-> choice]
    <2>1. q \in CreateAsked BY DEF CreateAsked, Option
    <2>2. Begin(c, "create", q) BY <1>1 DEF RequestCreate
    <2>3. q \in Forms /\ Recorded(q) BY <2>1, PlainForms
    <2> HIDE DEF q
    <2> QED BY <2>2, <2>3, BeginKeeps
<1>2. ASSUME NEW t \in Tracks, NEW turn \in Directions \cup {None},
             NEW choice \in Choices \cup {None}, RequestUpdate(c, t, turn, choice)
      PROVE  PinInv'
    <2> DEFINE q == [at |-> "read", op |-> "update", t |-> t, turn |-> turn, choice |-> choice]
    <2>1. q \in UpdateAsked BY DEF UpdateAsked, Option
    <2>2. Begin(c, "update", q) BY <1>2 DEF RequestUpdate
    <2>3. q \in Forms /\ Recorded(q) BY <2>1, PlainForms DEF Updates
    <2> HIDE DEF q
    <2> QED BY <2>2, <2>3, BeginKeeps
<1>3. ASSUME NEW t \in Tracks, NEW v \in Versions, RequestIntegrate(c, t, v)
      PROVE  PinInv'
    <2> DEFINE q == [at |-> "read", op |-> "integrate", t |-> t, v |-> v]
    <2>1. q \in IntegrateAsked BY DEF IntegrateAsked
    <2>2. Begin(c, "integrate", q) BY <1>3 DEF RequestIntegrate
    <2>3. q \in Forms /\ Recorded(q) BY <2>1, PlainForms
    <2> HIDE DEF q
    <2> QED BY <2>2, <2>3, BeginKeeps
<1>4. ASSUME NEW t \in Tracks, NEW plan \in Plans, RequestPlan(c, t, plan)
      PROVE  PinInv'
    <2> DEFINE q == [at |-> "read", op |-> "plan", t |-> t, plan |-> plan]
    <2>1. q \in PlanAsked BY DEF PlanAsked
    <2>2. Begin(c, "plan", q) BY <1>4 DEF RequestPlan
    <2>3. q \in Forms /\ Recorded(q) BY <2>1, PlainForms DEF PlanForms
    <2> HIDE DEF q
    <2> QED BY <2>2, <2>3, BeginKeeps
<1> QED BY <1>1, <1>2, <1>3, <1>4, DeleteKeeps DEF Requests

LEMMA StepsKeep ==
    ASSUME PinInv, NEW c \in Callers, Steps(c)
    PROVE  PinInv'
<1>1. Moved(c) => PinInv' BY MovedKeeps
<1> QED BY <1>1, CreateMoves, UpdateMoves, IntegrateMoves, PlanMoves, CreateInsertKeeps,
           UpdateWriteKeeps, IntegrateWriteKeeps, PlanWriteKeeps DEF Steps

\* The catalog of a generation never changes, and generations are never taken away.
LEMMA HadPinKept ==
    ASSUME TypeInv, NEW gen, NEW v, HadPin(gen, v),
           gens' = gens \/ \E g \in Generation : gens' = Append(gens, g)
    PROVE  HadPin(gen, v)'
<1>1. CASE gens' = gens BY <1>1 DEF HadPin
<1>2. ASSUME NEW g \in Generation, gens' = Append(gens, g) PROVE HadPin(gen, v)'
    <2>1. gens \in Seq(Generation) BY DEF TypeInv
    <2>2. Len(gens') = Len(gens) + 1 /\ \A i \in 1..Len(gens) : gens'[i] = gens[i]
        BY <1>2, <2>1
    <2>3. gen \in 1..Len(gens') BY <2>1, <2>2 DEF HadPin
    <2> QED BY <2>2, <2>3 DEF HadPin
<1> QED BY <1>1, <1>2

LEMMA DatasetsContents ==
    ASSUME TypeInv, Datasets
    PROVE  /\ Contents'
           /\ gens' = gens \/ \E g \in Generation : gens' = Append(gens, g)
           /\ UNCHANGED <<track, chosen, planned, lost, callVars>> /\ repinned' \subseteq Tracks
<1>0. gens \in Seq(Generation) /\ Len(gens) \in Nat /\ active \in 1..Len(gens)
    BY DEF TypeInv
<1>1. ASSUME NEW v \in Versions, BeginInstall(v)
      PROVE  Contents' /\ gens' = gens /\ UNCHANGED <<track, chosen, planned, lost, callVars, repinned>>
    <2>1. manager' \in Checked BY <1>1 DEF BeginInstall, Checked, Option
    <2> QED BY <1>1, <2>1 DEF BeginInstall, Contents, TypeInv, trackVars
<1>2. ASSUME BeginRemove
      PROVE  Contents' /\ gens' = gens /\ UNCHANGED <<track, chosen, planned, lost, callVars>> /\ repinned' = {}
    <2>1. manager' \in Checked BY <1>2 DEF BeginRemove, Checked, Option
    <2> QED BY <1>2, <2>1 DEF BeginRemove, Contents, TypeInv
<1>3. ASSUME Build
      PROVE  Contents' /\ gens' = gens /\ UNCHANGED <<track, chosen, planned, lost, callVars, repinned>>
    <2>1. manager \in Checked
        <3>1. \A b \in Built : b.at = "built" BY DEF Built
        <3>2. Idle.at = "idle" BY DEF Idle
        <3> QED BY <1>3, <3>1, <3>2 DEF Build, TypeInv
    <2>2. gens[active] \in Generation BY <1>0
    <2>3. /\ manager.op \in {"install", "remove"} /\ manager.installed \in Option(Versions)
          /\ active \in Nat
        BY <1>0, <2>1 DEF Checked
    <2>4. CandidateKnown(manager.installed) \in SUBSET Versions
        BY <2>2, <2>3 DEF CandidateKnown, Known, Generation, Option
    <2>5. manager' \in Built BY <1>3, <2>3, <2>4 DEF Build, Built
    <2> QED BY <1>3, <2>5 DEF Build, Contents, TypeInv, trackVars
<1>4. ASSUME Activate
      PROVE  /\ Contents' /\ UNCHANGED <<track, chosen, planned, lost, callVars, repinned>>
             /\ \E g \in Generation : gens' = Append(gens, g)
    <2> DEFINE g == [known |-> manager.known, installed |-> manager.installed]
    <2>1. manager \in Built
        <3>1. \A b \in Checked : b.at = "checked" BY DEF Checked
        <3>2. Idle.at = "idle" BY DEF Idle
        <3> QED BY <1>4, <3>1, <3>2 DEF Activate, TypeInv
    <2>2. g \in Generation BY <2>1 DEF Built, Generation, Option
    <2>3. gens' = Append(gens, g) BY <1>4 DEF Activate
    <2> HIDE DEF g
    <2>4. gens' \in Seq(Generation) /\ Len(gens') = Len(gens) + 1 BY <1>0, <2>2, <2>3
    <2>5. Len(gens') <= MaxGenerations
        BY <1>0, <1>4, <2>4, DataAssumption DEF Activate, DataAssumption
    <2>6. active' \in 1..Len(gens') /\ retained' \in 0..Len(gens')
        BY <1>0, <1>4, <2>4 DEF Activate
    <2>7. manager' = Idle BY <1>4 DEF Activate
    <2>8. UNCHANGED <<track, chosen, planned, lost, callVars, repinned>> BY <1>4 DEF Activate, trackVars
    <2> QED BY <2>2, <2>3, <2>4, <2>5, <2>6, <2>7, <2>8 DEF Contents
<1>5. ASSUME ManagerFails
      PROVE  Contents' /\ gens' = gens /\ UNCHANGED <<track, chosen, planned, lost, callVars, repinned>>
    BY <1>5 DEF ManagerFails, Contents, TypeInv, trackVars
<1>6. ASSUME Rollback
      PROVE  Contents' /\ gens' = gens /\ UNCHANGED <<track, chosen, planned, lost, callVars, repinned>>
    BY <1>6, <1>0 DEF Rollback, Contents, TypeInv, trackVars
<1>7. repinned \subseteq Tracks BY DEF TypeInv
<1> QED BY <1>1, <1>2, <1>3, <1>4, <1>5, <1>6, <1>7 DEF Datasets

LEMMA DatasetsKeep ==
    ASSUME PinInv, Datasets
    PROVE  PinInv'
<1>1. /\ Contents' /\ UNCHANGED <<track, chosen, planned, lost, callVars>> /\ repinned' \subseteq Tracks
      /\ gens' = gens \/ \E g \in Generation : gens' = Append(gens, g)
    BY DatasetsContents DEF PinInv
<1>2. \A gen, v : HadPin(gen, v) => HadPin(gen, v)' BY <1>1, HadPinKept DEF PinInv
<1>3. RowsRecorded' BY <1>1, <1>2 DEF PinInv, RowsRecorded, Exists
<1>4. RequestsRecorded' BY <1>1, <1>2 DEF PinInv, RequestsRecorded, Recorded, callVars
<1>5. TypeInv' BY <1>1, TypeParts DEF PinInv, TypeInv, Histories, callVars
<1> QED BY <1>3, <1>4, <1>5 DEF PinInv

LEMMA InitPinInv == Init => PinInv
<1> SUFFICES ASSUME Init PROVE PinInv
    OBVIOUS
<1>1. PICK v \in Versions : gens = << [known |-> {v}, installed |-> v] >> BY DEF Init
<1>2. gens \in Seq(Generation) /\ Len(gens) = 1 BY <1>1 DEF Generation
<1>3. NoPlan \in Plans /\ MaxGenerations \in Nat \ {0} BY DataAssumption DEF DataAssumption
<1>4. TypeInv BY <1>2, <1>3, IdleMoves DEF Init, TypeInv, Option
<1>5. \A t \in Tracks : ~Exists(t) BY Apart DEF Init, Exists
<1>6. \A c \in Callers : req[c] = Idle BY DEF Init
<1> QED BY <1>4, <1>5, <1>6, IdleMoves DEF PinInv, RowsRecorded, RequestsRecorded

LEMMA NextPinInv == PinInv /\ [Next]_vars => PinInv'
<1>1. ASSUME PinInv, Next PROVE PinInv'
    BY <1>1, DatasetsKeep, RequestsKeep, StepsKeep DEF Next
<1>2. ASSUME PinInv, UNCHANGED vars PROVE PinInv'
    BY <1>2 DEF PinInv, TypeInv, RowsRecorded, RequestsRecorded, Recorded, Exists, HadPin,
                vars, trackVars, contentVars, callVars
<1> QED BY <1>1, <1>2

\* Every row and every request names a generation that listed its version
\* (TracksRepository, TrackService).
THEOREM PinInvAlways == Spec => []PinInv
BY InitPinInv, NextPinInv, PTL DEF Spec

\* Rows, generations, requests and the operation under the manager's lock keep
\* their shape, for any number of callers, tracks and generations.
THEOREM TypeCorrect == Spec => []TypeOK
<1>1. PinInv => TypeOK
    <2> SUFFICES ASSUME PinInv PROVE TypeOK
        OBVIOUS
    <2>1. \A t \in Tracks : Exists(t) \/ track[t] \in {Absent, Deleted}
        BY DEF PinInv, TypeInv, Exists
    <2>2. manager.at \in {"idle", "checked", "built"}
        BY DEF PinInv, TypeInv, Idle, Checked, Built
    <2>3. ASSUME NEW c \in Callers
          PROVE  req[c].at \in {"idle", "info", "cards", "insert", "read", "rules", "write",
                                "current", "target", "reread", "recheck"}
        <3> DEFINE r == req[c]
                   steps == {"idle", "info", "cards", "insert", "read", "rules", "write",
                             "current", "target", "reread", "recheck"}
        <3>1. r \in Creates => r.at \in steps
            BY DEF Creates, CreateAsked, CreateKnown, CreateReady
        <3>2. r \in Updates => r.at \in steps
            BY DEF Updates, UpdateAsked, UpdateOpen, UpdateReady
        <3>3. r \in Integrates => r.at \in steps
            BY DEF Integrates, IntegrateAsked, IntegratePinned, IntegrateRead2, IntegrateOpen, IntegrateReady
        <3>4. r \in PlanForms => r.at \in steps BY DEF PlanForms, PlanAsked, PlanReady
        <3>5. r = Idle => r.at \in steps BY DEF Idle
        <3>6. r \in Forms BY DEF PinInv, TypeInv
        <3> QED BY <3>1, <3>2, <3>3, <3>4, <3>5, <3>6 DEF Forms
    <2>4. /\ gens \in Seq(Generation) /\ Len(gens) <= MaxGenerations
          /\ active \in 1..Len(gens) /\ retained \in 0..Len(gens)
          /\ chosen \in [Tracks -> (SUBSET Cards) \cup {None}]
          /\ planned \in [Tracks -> Plans] /\ repinned \subseteq Tracks
          /\ overtaken \in [Callers -> SUBSET Parts] /\ lost \in [Tracks -> SUBSET Parts]
        BY DEF PinInv, TypeInv, Option
    <2> QED BY <2>1, <2>2, <2>3, <2>4 DEF TypeOK
<1> QED BY <1>1, PinInvAlways, PTL

\* The generation recorded beside a pin is one that listed the pinned version,
\* although it was read before other requests, installs and rollbacks.
THEOREM GenerationRecorded == Spec => []RecordedGenerationHadPin
<1>1. PinInv => RecordedGenerationHadPin
    BY DEF PinInv, RowsRecorded, HadPin, RecordedGenerationHadPin
<1> QED BY <1>1, PinInvAlways, PTL

\* A transaction of a request that read the track before it was deleted ends in
\* an error: the row stays deleted.
THEOREM NeverRevived == Spec => DeletedForGood
<1>1. ASSUME PinInv, [Next]_vars, NEW t \in Tracks, track[t] = Deleted
      PROVE  track'[t] = Deleted
    <2>1. ~Exists(t) /\ track[t] # Absent BY <1>1, Apart DEF Exists
    <2>2. track' = track => track'[t] = Deleted BY <1>1
    <2>3. \A u, row : track' = [track EXCEPT ![u] = row] /\ u # t => track'[t] = Deleted
        BY <1>1 DEF PinInv, TypeInv
    <2>4. CASE Datasets
        <3>1. track' = track BY <1>1, <2>4, DatasetsContents DEF PinInv
        <3> QED BY <2>2, <3>1
    <2>5. ASSUME NEW c \in Callers, Requests(c) PROVE track'[t] = Deleted
        <3>1. CASE \E u \in Tracks : Delete(c, u)
            BY <3>1, <1>1 DEF Delete, PinInv, TypeInv
        <3>2. CASE ~ \E u \in Tracks : Delete(c, u)
            <4>1. track' = track
                BY <2>5, <3>2 DEF Requests, RequestCreate, RequestUpdate, RequestIntegrate,
                                  RequestPlan, Begin, trackVars
            <4> QED BY <2>2, <4>1
        <3> QED BY <3>1, <3>2
    <2>6. ASSUME NEW c \in Callers, Steps(c) PROVE track'[t] = Deleted
        <3>1. Moved(c) \/ Fail(c) => track' = track
            BY DEF Moved, Moves, Quietly, Fail, trackVars
        <3>2. CASE CreateInsert(c)
            <4>1. track' = track \/ \E u, row : track' = [track EXCEPT ![u] = row] /\ u # t
                BY <2>1, <3>1, <3>2 DEF CreateInsert
            <4> QED BY <2>2, <2>3, <4>1
        <3>3. CASE UpdateWrite(c)
            <4>1. track' = track \/ \E u, row : track' = [track EXCEPT ![u] = row] /\ u # t
                BY <2>1, <3>1, <3>3 DEF UpdateWrite
            <4> QED BY <2>2, <2>3, <4>1
        <3>4. CASE IntegrateWrite(c)
            <4>1. track' = track \/ \E u, row : track' = [track EXCEPT ![u] = row] /\ u # t
                BY <2>1, <3>1, <3>4 DEF IntegrateWrite
            <4> QED BY <2>2, <2>3, <4>1
        <3>5. CASE PlanWrite(c)
            <4>1. track' = track \/ \E u, row : track' = [track EXCEPT ![u] = row] /\ u # t
                BY <2>1, <3>1, <3>5 DEF PlanWrite
            <4> QED BY <2>2, <2>3, <4>1
        <3>6. CASE Moved(c) BY <2>2, <3>1, <3>6
        <3> QED BY <1>1, <2>6, <3>2, <3>3, <3>4, <3>5, <3>6, CreateMoves, UpdateMoves,
                   IntegrateMoves, PlanMoves DEF Steps
    <2>7. CASE UNCHANGED vars BY <2>2, <2>7 DEF vars, trackVars
    <2> QED BY <1>1, <2>4, <2>5, <2>6, <2>7 DEF Next
<1>2. PinInv /\ [Next]_vars => \A t \in Tracks : track[t] = Deleted => track'[t] = Deleted
    BY <1>1
<1>3. PinInv /\ [Next]_vars => [\A t \in Tracks : track[t] = Deleted => track'[t] = Deleted]_vars
    BY <1>2
<1> QED BY <1>3, PinInvAlways, PTL DEF Spec, DeletedForGood

-----------------------------------------------------------------------------
(* Without rollbacks, the catalog of the active generation lists every version  *)
(* that was ever pinned, so the check of a removal sees every pin there is.     *)

GrowInv ==
    /\ active = Len(gens)
    /\ \A i, j \in 1..Len(gens) : i <= j => gens[i].known \subseteq gens[j].known
    /\ manager \in Built => Known \subseteq manager.known
SparedInv ==
    manager # Idle /\ manager.installed = None => \A t \in Tracks : Exists(t) => t \in repinned
RemovalInv == PinInv /\ GrowInv /\ SparedInv

LEMMA GrowPinsKnown ==
    ASSUME PinInv, GrowInv
    PROVE  PinsKnown
<1> SUFFICES ASSUME NEW t \in Tracks, Exists(t) PROVE track[t].pin \in Known
    BY DEF PinsKnown
<1>1. HadPin(track[t].gen, track[t].pin) BY DEF PinInv, RowsRecorded
<1>2. active \in 1..Len(gens) /\ track[t].gen <= active
    BY <1>1 DEF PinInv, TypeInv, GrowInv, HadPin
<1> QED BY <1>1, <1>2 DEF GrowInv, HadPin, Known

\* A caller never touches the content side, and a track it creates is in repinned.
LEMMA CallersAdd ==
    ASSUME PinInv, NEW c \in Callers, Requests(c) \/ Steps(c)
    PROVE  /\ UNCHANGED contentVars
           /\ repinned \subseteq repinned'
           /\ \A t \in Tracks : Exists(t)' => Exists(t) \/ t \in repinned'
<1>0. UNCHANGED track => \A t \in Tracks : Exists(t)' => Exists(t) BY DEF Exists
<1>1. CASE Moved(c) \/ Fail(c)
    BY <1>0, <1>1 DEF Moved, Moves, Quietly, Fail, trackVars
<1>2. \A t \in Tracks : \A u, row : track' = [track EXCEPT ![u] = row] /\ (u = t => Exists(t) \/ t \in repinned')
          => (Exists(t)' => Exists(t) \/ t \in repinned')
    BY DEF Exists, PinInv, TypeInv
<1>3. CASE Requests(c)
    <2>1. ASSUME NEW u \in Tracks, Delete(c, u)
          PROVE  /\ UNCHANGED <<contentVars, repinned>>
                 /\ \A t \in Tracks : Exists(t)' => Exists(t)
        <3>1. \A t \in Tracks : Exists(t)' => Exists(t)
            BY <2>1, Apart DEF Delete, Exists, PinInv, TypeInv
        <3> QED BY <2>1, <3>1 DEF Delete
    <2>2. CASE ~ \E u \in Tracks : Delete(c, u)
        <3>1. UNCHANGED <<trackVars, contentVars>>
            BY <1>3, <2>2 DEF Requests, RequestCreate, RequestUpdate, RequestIntegrate,
                              RequestPlan, Begin
        <3> QED BY <1>0, <3>1 DEF trackVars
    <2> QED BY <2>1, <2>2
<1>4. CASE CreateInsert(c)
    <2>1. CASE Fail(c) BY <1>1, <2>1
    <2>2. CASE ~Fail(c)
        <3>1. /\ track' = [track EXCEPT ![req[c].t] = NewRow(req[c])]
              /\ repinned' = repinned \cup {req[c].t} /\ UNCHANGED contentVars
            BY <1>4, <2>2 DEF CreateInsert
        <3> QED BY <1>2, <3>1
    <2> QED BY <2>1, <2>2
<1>5. CASE UpdateWrite(c)
    <2>1. CASE Fail(c) BY <1>1, <2>1
    <2>2. CASE ~Fail(c)
        <3>1. /\ track' = [track EXCEPT ![req[c].t] = Updated(@, req[c])]
              /\ Exists(req[c].t) /\ UNCHANGED <<contentVars, repinned>>
            BY <1>5, <2>2 DEF UpdateWrite
        <3>2. track' = [track EXCEPT ![req[c].t] = Updated(track[req[c].t], req[c])]
            BY <3>1
        <3> QED BY <1>2, <3>1, <3>2
    <2> QED BY <2>1, <2>2
<1>6. CASE IntegrateWrite(c)
    <2>1. CASE Fail(c) BY <1>1, <2>1
    <2>2. CASE ~Fail(c)
        <3>1. /\ track' = [track EXCEPT ![req[c].t] = Integrated(@, req[c])]
              /\ repinned' = repinned \cup {req[c].t} /\ UNCHANGED contentVars
            BY <1>6, <2>2 DEF IntegrateWrite
        <3>2. track' = [track EXCEPT ![req[c].t] = Integrated(track[req[c].t], req[c])]
            BY <3>1
        <3> QED BY <1>2, <3>1, <3>2
    <2> QED BY <2>1, <2>2
<1>7. CASE PlanWrite(c)
    <2>1. CASE Fail(c) BY <1>1, <2>1
    <2>2. CASE ~Fail(c)
        <3>1. /\ \E row : track' = [track EXCEPT ![req[c].t] = row]
              /\ Exists(req[c].t) /\ UNCHANGED <<contentVars, repinned>>
            BY <1>7, <2>2 DEF PlanWrite
        <3> QED BY <1>2, <3>1
    <2> QED BY <2>1, <2>2
<1> QED BY <1>1, <1>3, <1>4, <1>5, <1>6, <1>7, CreateMoves, UpdateMoves, IntegrateMoves,
           PlanMoves DEF Steps

LEMMA RemovalKept ==
    ASSUME Rollbacks = FALSE, RemovalInv, [Next]_vars
    PROVE  GrowInv' /\ SparedInv'
<1>0. PinInv /\ GrowInv /\ SparedInv BY DEF RemovalInv
<1>1. gens \in Seq(Generation) /\ Len(gens) \in Nat /\ active \in 1..Len(gens)
    BY <1>0 DEF PinInv, TypeInv
<1>2. ASSUME NEW c \in Callers, Requests(c) \/ Steps(c) PROVE GrowInv' /\ SparedInv'
    <2>1. /\ UNCHANGED <<gens, active, manager>> /\ repinned \subseteq repinned'
          /\ \A t \in Tracks : Exists(t)' => Exists(t) \/ t \in repinned'
        BY <1>0, <1>2, CallersAdd DEF contentVars
    <2>2. GrowInv' BY <1>0, <2>1 DEF GrowInv, Known
    <2> QED BY <1>0, <2>1, <2>2 DEF SparedInv
<1>3. CASE UNCHANGED vars
    BY <1>0, <1>3 DEF vars, trackVars, contentVars, GrowInv, SparedInv, Known, Exists
<1>4. ASSUME NEW v \in Versions, BeginInstall(v) PROVE GrowInv' /\ SparedInv'
    <2>1. manager' \notin Built BY <1>4 DEF BeginInstall, Built
    <2>2. manager'.installed # None BY <1>4, DataAssumption DEF BeginInstall, DataAssumption
    <2> QED BY <1>0, <1>4, <2>1, <2>2 DEF BeginInstall, GrowInv, SparedInv
<1>5. CASE BeginRemove
    <2>1. manager' \notin Built BY <1>5 DEF BeginRemove, Built
    <2>2. \A t \in Tracks : ~Exists(t)
        <3>1. \A t \in Tracks : Exists(t) => track[t].pin \in Known \cap Referenced
            BY <1>0, GrowPinsKnown DEF PinsKnown, Referenced
        <3> QED BY <1>5, <3>1 DEF BeginRemove
    <2>3. \A t \in Tracks : ~Exists(t)' BY <1>5, <2>2 DEF BeginRemove, Exists
    <2> QED BY <1>0, <1>5, <2>1, <2>3 DEF BeginRemove, GrowInv, SparedInv
<1>6. CASE Build
    <2>1. manager # Idle /\ manager'.installed = manager.installed
        BY <1>6 DEF Build, Idle
    <2>2. manager'.known = CandidateKnown(manager.installed) /\ Known \subseteq manager'.known
        BY <1>6 DEF Build, CandidateKnown
    <2>3. UNCHANGED <<gens, active, track, repinned>> BY <1>6 DEF Build, trackVars
    <2> QED BY <1>0, <2>1, <2>2, <2>3 DEF GrowInv, SparedInv, Known, Exists
<1>7. CASE Activate
    <2> DEFINE g == [known |-> manager.known, installed |-> manager.installed]
    <2>1. manager' = Idle /\ manager' \notin Built BY <1>7, Apart DEF Activate
    <2>2. manager \in Built
        <3>1. \A b \in Checked : b.at = "checked" BY DEF Checked
        <3>2. Idle.at = "idle" BY DEF Idle
        <3> QED BY <1>0, <1>7, <3>1, <3>2 DEF Activate, PinInv, TypeInv
    <2>3. g \in Generation BY <2>2 DEF Built, Generation, Option
    <2>4. gens' = Append(gens, g) /\ active' = Len(gens) + 1 BY <1>7 DEF Activate
    <2>5. g.known = manager.known OBVIOUS
    <2> HIDE DEF g
    <2>6. /\ Len(gens') = Len(gens) + 1 /\ gens'[Len(gens) + 1] = g
          /\ \A i \in 1..Len(gens) : gens'[i] = gens[i]
        BY <1>1, <2>3, <2>4
    <2>7. \A i \in 1..Len(gens) : gens[i].known \subseteq g.known
        BY <1>0, <1>1, <2>2, <2>5 DEF GrowInv, Known
    <2>8. ASSUME NEW i \in 1..Len(gens'), NEW j \in 1..Len(gens'), i <= j
          PROVE  gens'[i].known \subseteq gens'[j].known
        <3>1. CASE j = Len(gens) + 1 BY <1>1, <2>6, <2>7, <3>1
        <3>2. CASE j \in 1..Len(gens)
            <4>1. i \in 1..Len(gens) BY <1>1, <2>8, <3>2
            <4> QED BY <1>0, <2>6, <2>8, <3>2, <4>1 DEF GrowInv
        <3> QED BY <1>1, <2>6, <3>1, <3>2
    <2> QED BY <2>1, <2>4, <2>6, <2>8 DEF GrowInv, SparedInv
<1>8. CASE ManagerFails
    <2>1. manager' = Idle /\ manager' \notin Built BY <1>8, Apart DEF ManagerFails
    <2> QED BY <1>0, <1>8, <2>1 DEF ManagerFails, GrowInv, SparedInv
<1>9. ~Rollback BY DEF Rollback
<1> QED BY <1>2, <1>3, <1>4, <1>5, <1>6, <1>7, <1>8, <1>9 DEF Next, Datasets

LEMMA RemovalInvAlways ==
    ASSUME Rollbacks = FALSE
    PROVE  Spec => []RemovalInv
<1>1. Init => RemovalInv
    <2> SUFFICES ASSUME Init PROVE GrowInv /\ SparedInv
        BY InitPinInv DEF RemovalInv
    <2>1. Len(gens) = 1 /\ active = 1 /\ manager = Idle BY DEF Init
    <2>2. manager \notin Built BY <2>1, Apart
    <2> QED BY <2>1, <2>2 DEF GrowInv, SparedInv
<1>2. RemovalInv /\ [Next]_vars => RemovalInv'
    BY NextPinInv, RemovalKept DEF RemovalInv
<1> QED BY <1>1, <1>2, PTL DEF Spec

\* While no generation is rolled back, the version a track pins stays in the
\* active catalog, through every install and removal.
THEOREM PinsStayKnown ==
    ASSUME Rollbacks = FALSE
    PROVE  Spec => []PinsKnown
<1>1. RemovalInv => PinsKnown BY GrowPinsKnown DEF RemovalInv
<1> QED BY <1>1, RemovalInvAlways, PTL

\* A removal that takes effect leaves without cards only tracks that were pinned
\* after the check it made under the manager's lock.
THEOREM RemovalSpares ==
    ASSUME Rollbacks = FALSE
    PROVE  Spec => RemovalSparesCheckedPins
<1> DEFINE Removed == Installed # None /\ Installed' = None /\ active' > Len(gens)
           Spares == Removed => \A t \in Tracks : Exists(t) => t \in repinned
<1>1. ASSUME RemovalInv, [Next]_vars, Removed, NEW t \in Tracks, Exists(t)
      PROVE  t \in repinned
    <2>0. PinInv /\ SparedInv BY <1>1 DEF RemovalInv
    <2>1. gens \in Seq(Generation) /\ Len(gens) \in Nat /\ active \in 1..Len(gens)
        BY <2>0 DEF PinInv, TypeInv
    <2>2. UNCHANGED active => FALSE BY <1>1, <2>1
    <2>3. \A c \in Callers : ~(Requests(c) \/ Steps(c))
        BY <2>0, <2>2, CallersAdd DEF contentVars
    <2>4. Activate
        BY <1>1, <2>2, <2>3 DEF Next, Datasets, vars, contentVars, BeginInstall, BeginRemove,
                                Build, ManagerFails, Rollback
    <2>5. manager \in Built
        <3>1. \A b \in Checked : b.at = "checked" BY DEF Checked
        <3>2. Idle.at = "idle" BY DEF Idle
        <3> QED BY <2>0, <2>4, <3>1, <3>2 DEF Activate, PinInv, TypeInv
    <2>6. [known |-> manager.known, installed |-> manager.installed] \in Generation
        BY <2>5 DEF Built, Generation, Option
    <2>7. gens'[active'].installed = manager.installed BY <2>1, <2>4, <2>6 DEF Activate
    <2>8. manager # Idle BY <2>5, Apart
    <2> QED BY <1>1, <2>0, <2>7, <2>8 DEF SparedInv, Installed
<1>2. RemovalInv /\ [Next]_vars => Spares BY <1>1
<1>3. RemovalInv /\ [Next]_vars => [Spares]_vars BY <1>2
<1> HIDE DEF Spares
<1>4. Spec => [][Spares]_vars BY <1>3, RemovalInvAlways, PTL DEF Spec
<1> QED BY <1>4 DEF Spares, RemovalSparesCheckedPins

-----------------------------------------------------------------------------
(* One caller at a time: what a request read still agrees with the row when it  *)
(* writes, so the places a selection is stored in agree as well.                *)

OneCaller == \A c, d \in Callers : c = d

RowAgrees(t) ==
    /\ track[t].rules \subseteq PackCards[track[t].pin]
    /\ track[t].kind = "direction_card" =>
           \A card \in track[t].rules : DirectionOf[card] = track[t].direction
    /\ track[t].mode = "explicit" <=> track[t].kind = "explicit_card"
RowsAgree == \A t \in Tracks : Exists(t) => RowAgrees(t)

FreshCreate(r) ==
    r.at = "insert" =>
        /\ r.cards \subseteq PackCards[r.v]
        /\ r.choice = None => \A card \in r.cards : DirectionOf[card] = r.d

FreshUpdate(r) ==
    /\ r.at \in {"rules", "cards"} => Exists(r.t) /\ r.pin = track[r.t].pin
    /\ r.at = "rules" => r.mode = "explicit"
    /\ r.at = "cards" => (r.mode = "direction" => r.keys = None)
    /\ r.at = "write" =>
           /\ Exists(r.t) /\ r.cards \subseteq PackCards[track[r.t].pin]
           /\ r.mode = "direction" => \A card \in r.cards : DirectionOf[card] = r.d

FreshIntegrate(r) ==
    /\ r.at \in {"recheck", "rules", "cards", "write"} =>
           Exists(r.t) /\ r.mode = track[r.t].mode
    /\ r.at \in {"recheck", "rules", "cards"} => r.d = track[r.t].direction
    /\ r.at = "rules" => r.mode = "explicit"
    /\ r.at = "cards" => (r.mode = "direction" => r.keys = None)
    /\ r.at = "write" =>
           /\ r.cards \subseteq PackCards[r.v]
           /\ r.mode = "direction" => \A card \in r.cards : DirectionOf[card] = track[r.t].direction

FreshPlan(r) == r.at = "write" => Exists(r.t) /\ r.mode = track[r.t].mode

Fresh(r) == r # Idle =>
    /\ r.op = "create" => FreshCreate(r)
    /\ r.op = "update" => FreshUpdate(r)
    /\ r.op = "integrate" => FreshIntegrate(r)
    /\ r.op = "plan" => FreshPlan(r)

SerialInv == PinInv /\ RowsAgree /\ \A c \in Callers : Fresh(req[c])

LEMMA SelectionIn ==
    ASSUME NEW v, NEW d, NEW keys
    PROVE  /\ Selection(v, d, keys) \subseteq PackCards[v]
           /\ keys = None => \A card \in Selection(v, d, keys) : DirectionOf[card] = d
           /\ keys # None => Selection(v, d, keys) \subseteq keys
BY DEF Selection, DirectionCards, CardsInPack, Active

\* A quiet step keeps the rows, and what the request carries on agrees with them.
FreshMove(c) == Quietly /\ \E q : Fresh(q) /\ req' = [req EXCEPT ![c] = q]

LEMMA FreshContinue ==
    ASSUME NEW c \in Callers, NEW condition, NEW q, Continue(c, condition, q), condition => Fresh(q)
    PROVE  FreshMove(c)
<1>1. Fresh(Idle) BY DEF Fresh
<1> QED BY <1>1 DEF Continue, Goto, Fail, Return, FreshMove, Quietly

LEMMA FreshGoto ==
    ASSUME NEW c \in Callers, NEW q, Goto(c, q), Fresh(q)
    PROVE  FreshMove(c)
BY DEF Goto, FreshMove, Quietly

LEMMA FreshFail ==
    ASSUME NEW c \in Callers, Fail(c)
    PROVE  FreshMove(c)
BY DEF Fail, Return, FreshMove, Quietly, Fresh

LEMMA FreshMoveKeeps ==
    ASSUME OneCaller, SerialInv, NEW c \in Callers, FreshMove(c)
    PROVE  RowsAgree' /\ \A d \in Callers : Fresh(req[d])'
<1>1. UNCHANGED track BY DEF FreshMove, Quietly, trackVars
<1>2. RowsAgree' BY <1>1 DEF SerialInv, RowsAgree, RowAgrees, Exists
<1>3. PICK q : Fresh(q) /\ req' = [req EXCEPT ![c] = q] BY DEF FreshMove
<1>4. ASSUME NEW d \in Callers PROVE Fresh(req[d])'
    <2>1. req'[d] = q BY <1>3 DEF OneCaller, SerialInv, PinInv, TypeInv
    <2> QED BY <1>1, <1>3, <2>1 DEF Fresh, FreshCreate, FreshUpdate, FreshIntegrate, FreshPlan,
                                   Exists
<1> QED BY <1>2, <1>4

LEMMA FreshCreates ==
    ASSUME SerialInv, NEW c \in Callers, CreateInfo(c) \/ CreateCards(c)
    PROVE  FreshMove(c)
<1> DEFINE r == req[c]
<1>1. CASE CreateInfo(c)
    <2> DEFINE q == [at |-> "cards", op |-> "create", t |-> r.t, v |-> r.v, d |-> r.d,
                     choice |-> r.choice, gen |-> active]
    <2>1. Continue(c, r.v \in Known, q) BY <1>1 DEF CreateInfo
    <2>2. Fresh(q) BY DEF Fresh, FreshCreate
    <2> HIDE DEF q
    <2> QED BY <2>1, <2>2, FreshContinue
<1>2. CASE CreateCards(c)
    <2> DEFINE cards == Selection(r.v, r.d, r.choice)
               q == [at |-> "insert", op |-> "create", t |-> r.t, v |-> r.v, d |-> r.d,
                     choice |-> r.choice, gen |-> r.gen, cards |-> cards]
    <2>1. Continue(c, Complete(r.v, r.choice) /\ cards # {}, q) BY <1>2 DEF CreateCards
    <2>2. /\ cards \subseteq PackCards[r.v]
          /\ r.choice = None => \A card \in cards : DirectionOf[card] = r.d
        BY SelectionIn
    <2> HIDE DEF cards
    <2>3. Fresh(q) BY <2>2 DEF Fresh, FreshCreate
    <2> HIDE DEF q
    <2> QED BY <2>1, <2>3, FreshContinue
<1> QED BY <1>1, <1>2

LEMMA FreshUpdates ==
    ASSUME SerialInv, NEW c \in Callers, UpdateRead(c) \/ UpdateRules(c) \/ UpdateCards(c)
    PROVE  FreshMove(c)
<1> DEFINE r == req[c]
<1>0. PinInv /\ RowsAgree /\ Fresh(r) BY DEF SerialInv
<1>1. CASE UpdateRead(c)
    <2> DEFINE row == track[r.t]
               d == IF r.turn = None THEN row.direction ELSE r.turn
               explicit == r.choice # None \/ row.mode = "explicit"
               q == [at |-> IF r.choice = None /\ explicit THEN "rules" ELSE "cards",
                     op |-> "update", t |-> r.t, choice |-> r.choice,
                     pin |-> row.pin, d |-> d, plan |-> row.plan, keys |-> r.choice,
                     mode |-> IF explicit THEN "explicit" ELSE "direction"]
    <2>1. r \in UpdateAsked BY <1>0, <1>1, FormAt, Steps_Update DEF PinInv, UpdateRead
    <2>2. CASE ~Exists(r.t) BY <1>1, <2>2, FreshFail DEF UpdateRead
    <2>3. CASE Exists(r.t)
        <3>1. Goto(c, q) BY <1>1, <2>3 DEF UpdateRead
        <3>2. Exists(q.t) /\ q.pin = track[q.t].pin BY <2>3
        <3>3. q.at = "rules" => q.mode = "explicit" OBVIOUS
        <3>4. q.at = "cards" => (q.mode = "direction" => q.keys = None) OBVIOUS
        <3>5. q.op = "update" /\ q.at # "write" OBVIOUS
        <3> HIDE DEF q
        <3>6. Fresh(q) BY <3>2, <3>3, <3>4, <3>5 DEF Fresh, FreshUpdate
        <3> QED BY <3>1, <3>6, FreshGoto
    <2> QED BY <2>2, <2>3
<1>2. CASE UpdateRules(c)
    <2> DEFINE q == [r EXCEPT !.at = "cards", !.keys = RulesOf(r.t)]
    <2>1. r \in UpdateOpen /\ r.op = "update" /\ r.at = "rules" /\ r # Idle
        BY <1>0, <1>2, FormAt, Steps_Update DEF PinInv, UpdateRules, At
    <2>2. Goto(c, q) BY <1>2 DEF UpdateRules
    <2>3. /\ q.op = "update" /\ q.at = "cards" /\ q.t = r.t
          /\ q.pin = r.pin /\ q.mode = r.mode
        BY <2>1 DEF UpdateOpen
    <2>4. FreshUpdate(r) BY <1>0, <2>1 DEF Fresh
    <2> HIDE DEF q
    <2>5. Fresh(q) BY <2>1, <2>3, <2>4 DEF Fresh, FreshUpdate
    <2> QED BY <2>2, <2>5, FreshGoto
<1>3. CASE UpdateCards(c)
    <2> DEFINE cards == Selection(r.pin, r.d, r.keys)
               q == [at |-> "write", op |-> "update", t |-> r.t, choice |-> r.choice,
                     d |-> r.d, plan |-> r.plan, mode |-> r.mode, cards |-> cards]
    <2>1. r.op = "update" /\ r.at = "cards" /\ r # Idle BY <1>3 DEF UpdateCards, At
    <2>2. Continue(c, Complete(r.pin, r.choice) /\ cards # {}, q) BY <1>3 DEF UpdateCards
    <2>3. FreshUpdate(r) BY <1>0, <2>1 DEF Fresh
    <2>4. /\ cards \subseteq PackCards[r.pin]
          /\ r.keys = None => \A card \in cards : DirectionOf[card] = r.d
        BY SelectionIn
    <2> HIDE DEF cards
    <2>5. /\ q.op = "update" /\ q.at = "write" /\ q.t = r.t
          /\ q.d = r.d /\ q.mode = r.mode /\ q.cards = cards
        OBVIOUS
    <2> HIDE DEF q
    <2>6. Fresh(q) BY <2>1, <2>3, <2>4, <2>5 DEF Fresh, FreshUpdate
    <2> QED BY <2>2, <2>6, FreshContinue
<1> QED BY <1>1, <1>2, <1>3

LEMMA FreshIntegrates ==
    ASSUME SerialInv, NEW c \in Callers,
           \/ IntegrateRead(c) \/ IntegrateCurrent(c) \/ IntegrateTarget(c)
           \/ IntegrateReread(c) \/ IntegrateRecheck(c) \/ IntegrateRules(c) \/ IntegrateCards(c)
    PROVE  FreshMove(c)
<1> DEFINE r == req[c]
<1>0. PinInv /\ RowsAgree /\ Fresh(r) BY DEF SerialInv
<1>1. CASE IntegrateRead(c)
    <2> DEFINE q == [at |-> "current", op |-> "integrate", t |-> r.t, v |-> r.v,
                     pin |-> track[r.t].pin]
    <2>1. CASE ~Exists(r.t) BY <1>1, <2>1, FreshFail DEF IntegrateRead
    <2>2. CASE Exists(r.t)
        <3>1. Continue(c, track[r.t].pin # r.v, q) BY <1>1, <2>2 DEF IntegrateRead
        <3>2. Fresh(q) BY DEF Fresh, FreshIntegrate
        <3> HIDE DEF q
        <3> QED BY <3>1, <3>2, FreshContinue
    <2> QED BY <2>1, <2>2
<1>2. CASE IntegrateCurrent(c)
    <2> DEFINE q == [at |-> "target", op |-> "integrate", t |-> r.t, v |-> r.v]
    <2>1. Continue(c, r.pin \in Known, q) BY <1>2 DEF IntegrateCurrent
    <2>2. Fresh(q) BY DEF Fresh, FreshIntegrate
    <2> HIDE DEF q
    <2> QED BY <2>1, <2>2, FreshContinue
<1>3. CASE IntegrateTarget(c)
    <2> DEFINE q == [r EXCEPT !.at = "reread"]
    <2>1. r \in IntegrateAsked BY <1>0, <1>3, FormAt, Steps_Integrate DEF PinInv, IntegrateTarget
    <2>2. Continue(c, r.v \in Known, q) BY <1>3 DEF IntegrateTarget
    <2>3. q.at = "reread" /\ q.op = "integrate" BY <2>1 DEF IntegrateAsked
    <2> HIDE DEF q
    <2>4. Fresh(q) BY <2>3 DEF Fresh, FreshIntegrate
    <2> QED BY <2>2, <2>4, FreshContinue
<1>4. CASE IntegrateReread(c)
    <2> DEFINE row == track[r.t]
               q == [at |-> "recheck", op |-> "integrate", t |-> r.t, v |-> r.v,
                     mode |-> row.mode, d |-> row.direction]
    <2>1. CASE ~Exists(r.t) BY <1>4, <2>1, FreshFail DEF IntegrateReread
    <2>2. CASE Exists(r.t)
        <3>1. Goto(c, q) BY <1>4, <2>2 DEF IntegrateReread
        <3>2. Fresh(q) BY <2>2 DEF Fresh, FreshIntegrate
        <3> HIDE DEF q
        <3> QED BY <3>1, <3>2, FreshGoto
    <2> QED BY <2>1, <2>2
<1>5. CASE IntegrateRecheck(c)
    <2> DEFINE q == [at |-> IF r.mode = "explicit" THEN "rules" ELSE "cards",
                     op |-> "integrate", t |-> r.t, v |-> r.v, mode |-> r.mode, d |-> r.d,
                     gen |-> active, keys |-> None]
    <2>1. r.op = "integrate" /\ r.at = "recheck" /\ r # Idle BY <1>5 DEF IntegrateRecheck, At
    <2>2. Continue(c, r.v \in Known, q) BY <1>5 DEF IntegrateRecheck
    <2>3. FreshIntegrate(r) BY <1>0, <2>1 DEF Fresh
    <2>4. /\ q.op = "integrate" /\ q.t = r.t /\ q.mode = r.mode /\ q.d = r.d /\ q.keys = None
          /\ q.at = IF r.mode = "explicit" THEN "rules" ELSE "cards"
        OBVIOUS
    <2> HIDE DEF q
    <2>5. Fresh(q) BY <2>1, <2>3, <2>4 DEF Fresh, FreshIntegrate
    <2> QED BY <2>2, <2>5, FreshContinue
<1>6. CASE IntegrateRules(c)
    <2> DEFINE q == [r EXCEPT !.at = "cards", !.keys = ExplicitRules(r.t)]
    <2>1. r \in IntegrateOpen /\ r.op = "integrate" /\ r.at = "rules" /\ r # Idle
        BY <1>0, <1>6, FormAt, Steps_Integrate DEF PinInv, IntegrateRules, At
    <2>2. Goto(c, q) BY <1>6 DEF IntegrateRules
    <2>3. /\ q.op = "integrate" /\ q.at = "cards" /\ q.t = r.t
          /\ q.mode = r.mode /\ q.d = r.d
        BY <2>1 DEF IntegrateOpen
    <2>4. FreshIntegrate(r) BY <1>0, <2>1 DEF Fresh
    <2> HIDE DEF q
    <2>5. Fresh(q) BY <2>1, <2>3, <2>4 DEF Fresh, FreshIntegrate
    <2> QED BY <2>2, <2>5, FreshGoto
<1>7. CASE IntegrateCards(c)
    <2> DEFINE cards == Selection(r.v, r.d, r.keys)
               q == [at |-> "write", op |-> "integrate", t |-> r.t, v |-> r.v,
                     mode |-> r.mode, gen |-> r.gen, cards |-> cards]
    <2>1. r.op = "integrate" /\ r.at = "cards" /\ r # Idle BY <1>7 DEF IntegrateCards, At
    <2>2. Continue(c, Complete(r.v, r.keys) /\ cards # {}, q) BY <1>7 DEF IntegrateCards
    <2>3. FreshIntegrate(r) BY <1>0, <2>1 DEF Fresh
    <2>4. /\ cards \subseteq PackCards[r.v]
          /\ r.keys = None => \A card \in cards : DirectionOf[card] = r.d
        BY SelectionIn
    <2> HIDE DEF cards
    <2>5. /\ q.op = "integrate" /\ q.at = "write" /\ q.t = r.t /\ q.v = r.v
          /\ q.mode = r.mode /\ q.cards = cards
        OBVIOUS
    <2> HIDE DEF q
    <2>6. Fresh(q) BY <2>1, <2>3, <2>4, <2>5 DEF Fresh, FreshIntegrate
    <2> QED BY <2>2, <2>6, FreshContinue
<1> QED BY <1>1, <1>2, <1>3, <1>4, <1>5, <1>6, <1>7

LEMMA FreshPlans ==
    ASSUME SerialInv, NEW c \in Callers, PlanRead(c)
    PROVE  FreshMove(c)
<1> DEFINE r == req[c]
           q == [at |-> "write", op |-> "plan", t |-> r.t, plan |-> r.plan,
                 mode |-> track[r.t].mode]
<1>1. CASE ~Exists(r.t) BY <1>1, FreshFail DEF PlanRead
<1>2. CASE Exists(r.t)
    <2>1. Goto(c, q) BY <1>2 DEF PlanRead
    <2>2. Fresh(q) BY <1>2 DEF Fresh, FreshPlan
    <2> HIDE DEF q
    <2> QED BY <2>1, <2>2, FreshGoto
<1> QED BY <1>1, <1>2

LEMMA FreshRequests ==
    ASSUME SerialInv, NEW c \in Callers, NEW q, NEW op, Begin(c, op, q),
           q.at \in {"info", "read"}
    PROVE  FreshMove(c)
<1>1. Fresh(q) BY DEF Fresh, FreshCreate, FreshUpdate, FreshIntegrate, FreshPlan
<1> QED BY <1>1 DEF Begin, FreshMove, Quietly

\* A writing step of the only caller.
LEMMA SerialWrite ==
    ASSUME OneCaller, SerialInv, NEW c \in Callers, NEW t \in Tracks,
           req' = [req EXCEPT ![c] = Idle] \/ (req' = req /\ req[c] = Idle),
           \A u \in Tracks : u # t => track'[u] = track[u],
           Exists(t)' => RowAgrees(t)'
    PROVE  RowsAgree' /\ \A d \in Callers : Fresh(req[d])'
<1>1. ASSUME NEW u \in Tracks PROVE Exists(u)' => RowAgrees(u)'
    <2>1. CASE u # t BY <2>1 DEF SerialInv, RowsAgree, RowAgrees, Exists
    <2> QED BY <2>1
<1>2. ASSUME NEW d \in Callers PROVE Fresh(req[d])'
    <2>1. req'[d] = Idle BY DEF OneCaller, SerialInv, PinInv, TypeInv
    <2> QED BY <2>1 DEF Fresh
<1> QED BY <1>1, <1>2 DEF RowsAgree

LEMMA SerialCreate ==
    ASSUME OneCaller, SerialInv, NEW c \in Callers, CreateInsert(c), ~Fail(c)
    PROVE  RowsAgree' /\ \A d \in Callers : Fresh(req[d])'
<1> DEFINE r == req[c]
<1>a. PICK t : t = r.t OBVIOUS
<1>0. PinInv /\ RowsAgree /\ Fresh(r) BY DEF SerialInv
<1>1. /\ r \in CreateReady /\ r.op = "create" /\ r.at = "insert" /\ r # Idle
    BY <1>0, FormAt, Steps_Create DEF PinInv, CreateInsert, At
<1>2. /\ track[t] = Absent /\ track' = [track EXCEPT ![t] = NewRow(r)]
      /\ req' = [req EXCEPT ![c] = Idle]
    BY <1>a DEF CreateInsert, Return
<1>3. t \in Tracks BY <1>1, <1>a DEF CreateReady
<1>4. track'[t] = NewRow(r) BY <1>0, <1>2, <1>3 DEF PinInv, TypeInv
<1>5. FreshCreate(r) BY <1>0, <1>1 DEF Fresh
<1>6. RowAgrees(t)' BY <1>1, <1>a, <1>4, <1>5 DEF RowAgrees, NewRow, FreshCreate
<1>7. \A u \in Tracks : u # t => track'[u] = track[u] BY <1>0, <1>2 DEF PinInv, TypeInv
<1> QED BY <1>2, <1>3, <1>6, <1>7, SerialWrite

LEMMA SerialUpdate ==
    ASSUME OneCaller, SerialInv, NEW c \in Callers, UpdateWrite(c), ~Fail(c)
    PROVE  RowsAgree' /\ \A d \in Callers : Fresh(req[d])'
<1> DEFINE r == req[c]
<1>a. PICK t : t = r.t OBVIOUS
<1> DEFINE row == Updated(track[t], r)
<1>0. PinInv /\ RowsAgree /\ Fresh(r) BY DEF SerialInv
<1>1. r \in UpdateReady /\ r.op = "update" /\ r.at = "write" /\ r # Idle
    BY <1>0, FormAt, Steps_Update DEF PinInv, UpdateWrite, At
<1>2. /\ Exists(t) /\ track' = [track EXCEPT ![t] = row]
      /\ req' = [req EXCEPT ![c] = Idle]
    BY <1>a DEF UpdateWrite, Return
<1>3. t \in Tracks /\ r.mode \in Modes BY <1>1, <1>a DEF UpdateReady
<1>4. RowAgrees(t) BY <1>0, <1>2, <1>3 DEF RowsAgree
<1>5. track'[t] = row BY <1>0, <1>2, <1>3 DEF PinInv, TypeInv
<1>6. FreshUpdate(r) BY <1>0, <1>1 DEF Fresh
<1>7. track[t] \in TrackRow BY <1>2 DEF Exists
<1>8. /\ row.pin = track[t].pin /\ row.direction = r.d /\ row.mode = r.mode
      /\ row.rules = r.cards /\ row.kind = KindOf(r.mode)
    BY <1>7 DEF Updated, TrackRow
<1> HIDE DEF row
<1>9. RowAgrees(t)'
    BY ZenonT(40), <1>1, <1>a, <1>2, <1>3, <1>4, <1>5, <1>6, <1>8 DEF RowAgrees, FreshUpdate, KindOf, Modes
<1>10. \A u \in Tracks : u # t => track'[u] = track[u] BY <1>0, <1>2 DEF PinInv, TypeInv
<1> QED BY <1>2, <1>3, <1>9, <1>10, SerialWrite

LEMMA SerialIntegrate ==
    ASSUME OneCaller, SerialInv, NEW c \in Callers, IntegrateWrite(c), ~Fail(c)
    PROVE  RowsAgree' /\ \A d \in Callers : Fresh(req[d])'
<1> DEFINE r == req[c]
<1>a. PICK t : t = r.t OBVIOUS
<1> DEFINE row == Integrated(track[t], r)
<1>0. PinInv /\ RowsAgree /\ Fresh(r) BY DEF SerialInv
<1>1. r \in IntegrateReady /\ r.op = "integrate" /\ r.at = "write" /\ r # Idle
    BY <1>0, FormAt, Steps_Integrate DEF PinInv, IntegrateWrite, At
<1>2. /\ Exists(t) /\ track' = [track EXCEPT ![t] = row]
      /\ req' = [req EXCEPT ![c] = Idle]
    BY <1>a DEF IntegrateWrite, Return
<1>3. t \in Tracks /\ r.mode \in Modes BY <1>1, <1>a DEF IntegrateReady
<1>4. RowAgrees(t) BY <1>0, <1>2, <1>3 DEF RowsAgree
<1>5. track'[t] = row BY <1>0, <1>2, <1>3 DEF PinInv, TypeInv
<1>6. FreshIntegrate(r) BY <1>0, <1>1 DEF Fresh
<1>7. track[t] \in TrackRow BY <1>2 DEF Exists
<1>8. /\ row.pin = r.v /\ row.direction = track[t].direction /\ row.mode = track[t].mode
      /\ row.rules = r.cards /\ row.kind = KindOf(r.mode)
    BY <1>7 DEF Integrated, TrackRow
<1> HIDE DEF row
<1>9. RowAgrees(t)'
    BY ZenonT(40), <1>1, <1>a, <1>2, <1>3, <1>4, <1>5, <1>6, <1>8 DEF RowAgrees, FreshIntegrate, KindOf, Modes
<1>10. \A u \in Tracks : u # t => track'[u] = track[u] BY <1>0, <1>2 DEF PinInv, TypeInv
<1> QED BY <1>2, <1>3, <1>9, <1>10, SerialWrite

LEMMA SerialPlan ==
    ASSUME OneCaller, SerialInv, NEW c \in Callers, PlanWrite(c), ~Fail(c)
    PROVE  RowsAgree' /\ \A d \in Callers : Fresh(req[d])'
<1> DEFINE r == req[c]
<1>a. PICK t : t = r.t OBVIOUS
<1> DEFINE row == [track[t] EXCEPT !.plan = r.plan, !.mode = r.mode]
<1>0. PinInv /\ RowsAgree /\ Fresh(r) BY DEF SerialInv
<1>1. r \in PlanReady /\ r.op = "plan" /\ r.at = "write" /\ r # Idle
    BY <1>0, FormAt, Steps_Plan DEF PinInv, PlanWrite, At
<1>2. /\ Exists(t) /\ track' = [track EXCEPT ![t] = row]
      /\ req' = [req EXCEPT ![c] = Idle]
    BY <1>a DEF PlanWrite, Return
<1>3. t \in Tracks BY <1>1, <1>a DEF PlanReady
<1>4. RowAgrees(t) BY <1>0, <1>2, <1>3 DEF RowsAgree
<1>5. track'[t] = row BY <1>0, <1>2, <1>3 DEF PinInv, TypeInv
<1>6. FreshPlan(r) BY <1>0, <1>1 DEF Fresh
<1>7. track[t] \in TrackRow BY <1>2 DEF Exists
<1>8. /\ row.pin = track[t].pin /\ row.direction = track[t].direction /\ row.mode = r.mode
      /\ row.rules = track[t].rules /\ row.kind = track[t].kind
    BY <1>7 DEF TrackRow
<1> HIDE DEF row
<1>9. RowAgrees(t)' BY ZenonT(40), <1>1, <1>a, <1>2, <1>4, <1>5, <1>6, <1>8 DEF RowAgrees, FreshPlan
<1>10. \A u \in Tracks : u # t => track'[u] = track[u] BY <1>0, <1>2 DEF PinInv, TypeInv
<1> QED BY <1>2, <1>3, <1>9, <1>10, SerialWrite

LEMMA SerialDelete ==
    ASSUME OneCaller, SerialInv, NEW c \in Callers, NEW t \in Tracks, Delete(c, t)
    PROVE  RowsAgree' /\ \A d \in Callers : Fresh(req[d])'
<1>1. /\ track'[t] = Deleted
      /\ \A u \in Tracks : u # t => track'[u] = track[u]
    BY DEF Delete, SerialInv, PinInv, TypeInv
<1>2. ~Exists(t)' BY <1>1, Apart DEF Exists
<1>3. req' = req /\ req[c] = Idle BY DEF Delete, callVars
<1> QED BY <1>1, <1>2, <1>3, SerialWrite

LEMMA SerialKept ==
    ASSUME OneCaller, SerialInv, [Next]_vars
    PROVE  SerialInv'
<1> DEFINE Agree == RowsAgree' /\ \A d \in Callers : Fresh(req[d])'
<1>1. PinInv' BY NextPinInv DEF SerialInv
<1>2. ASSUME NEW c \in Callers, FreshMove(c) PROVE Agree BY <1>2, FreshMoveKeeps
<1>3. UNCHANGED <<track, req>> => Agree
    BY DEF SerialInv, RowsAgree, RowAgrees, Exists, Fresh, FreshCreate, FreshUpdate,
           FreshIntegrate, FreshPlan
<1>4. CASE Datasets
    <2>1. PinInv BY DEF SerialInv
    <2>2. UNCHANGED <<track, req>> BY <1>4, <2>1, DatasetsContents DEF PinInv, callVars
    <2> QED BY <1>1, <1>3, <2>2 DEF SerialInv
<1>5. CASE UNCHANGED vars
    <2>1. UNCHANGED <<track, req>> BY <1>5 DEF vars, trackVars, callVars
    <2> QED BY <1>1, <1>3, <2>1 DEF SerialInv
<1>6. ASSUME NEW c \in Callers, Requests(c) PROVE Agree
    <2>1. ASSUME NEW t \in Tracks, NEW v \in Versions, NEW d \in Directions,
                 NEW choice \in Choices \cup {None}, RequestCreate(c, t, v, d, choice)
          PROVE  Agree
        <3>1. FreshMove(c) BY <2>1, FreshRequests DEF RequestCreate
        <3> QED BY <1>2, <3>1
    <2>2. ASSUME NEW t \in Tracks, NEW turn \in Directions \cup {None},
                 NEW choice \in Choices \cup {None}, RequestUpdate(c, t, turn, choice)
          PROVE  Agree
        <3>1. FreshMove(c) BY <2>2, FreshRequests DEF RequestUpdate
        <3> QED BY <1>2, <3>1
    <2>3. ASSUME NEW t \in Tracks, NEW v \in Versions, RequestIntegrate(c, t, v) PROVE Agree
        <3>1. FreshMove(c) BY <2>3, FreshRequests DEF RequestIntegrate
        <3> QED BY <1>2, <3>1
    <2>4. ASSUME NEW t \in Tracks, NEW plan \in Plans, RequestPlan(c, t, plan) PROVE Agree
        <3>1. FreshMove(c) BY <2>4, FreshRequests DEF RequestPlan
        <3> QED BY <1>2, <3>1
    <2> QED BY <1>6, <2>1, <2>2, <2>3, <2>4, SerialDelete DEF Requests
<1>7. ASSUME NEW c \in Callers, Steps(c) PROVE Agree
    <2>1. Fail(c) => Agree BY <1>2, FreshFail
    <2>2. CreateInsert(c) \/ UpdateWrite(c) \/ IntegrateWrite(c) \/ PlanWrite(c) => Agree
        BY <2>1, SerialCreate, SerialUpdate, SerialIntegrate, SerialPlan
    <2>3. ~(CreateInsert(c) \/ UpdateWrite(c) \/ IntegrateWrite(c) \/ PlanWrite(c)) => FreshMove(c)
        BY <1>7, FreshCreates, FreshUpdates, FreshIntegrates, FreshPlans DEF Steps
    <2> HIDE DEF Agree
    <2> QED BY <1>2, <2>2, <2>3
<1> QED BY <1>1, <1>4, <1>5, <1>6, <1>7 DEF Next, SerialInv

LEMMA SerialAlways ==
    ASSUME OneCaller
    PROVE  Spec => []SerialInv
<1>1. Init => SerialInv
    <2> SUFFICES ASSUME Init PROVE RowsAgree /\ \A c \in Callers : Fresh(req[c])
        BY InitPinInv DEF SerialInv
    <2>1. \A t \in Tracks : ~Exists(t) BY Apart DEF Init, Exists
    <2>2. \A c \in Callers : req[c] = Idle BY DEF Init
    <2> QED BY <2>1, <2>2 DEF RowsAgree, Fresh
<1>2. SerialInv /\ [Next]_vars => SerialInv' BY SerialKept
<1> QED BY <1>1, <1>2, PTL DEF Spec

\* ADR-0020: with one request at a time and no rollback, the pin, the rules and
\* the mode a Track stores are one selection of a version its catalog knows.
THEOREM SelectionStaysConsistent ==
    ASSUME OneCaller, Rollbacks = FALSE
    PROVE  Spec => []SelectionConsistent
<1>1. SerialInv => RulesFollowPin /\ ModeMatchesRules
    BY DEF SerialInv, RowsAgree, RowAgrees, RulesFollowPin, ModeMatchesRules
<1> QED BY <1>1, SerialAlways, PinsStayKnown, PTL DEF SelectionConsistent

-----------------------------------------------------------------------------
(* Any number of callers: a request that was not overtaken writes back the     *)
(* choice and the plan the track has, and one that was is named in lost.       *)

\* What nobody has written over since it was stored.
ChoiceHeld(t) == Exists(t) /\ chosen[t] # None /\ "choice" \notin lost[t]
PlanHeld(t) == Exists(t) /\ "plan" \notin lost[t]

RowHeld(t) ==
    /\ ChoiceHeld(t) => track[t].mode = "explicit" /\ track[t].rules \subseteq chosen[t]
    /\ PlanHeld(t) => track[t].plan = planned[t]
    /\ ~Exists(t) => chosen[t] = None /\ planned[t] = NoPlan

\* The request goes on from what it read, and will leave the cards within S.
Carrying(r) == r.at \in {"recheck", "rules", "cards", "write"} /\ r.op # "create"
Within(r, S) ==
    /\ r.mode = "explicit"
    /\ r.op # "plan" /\ r.at = "cards" => r.keys # None /\ r.keys \subseteq S
    /\ r.op # "plan" /\ r.at = "write" => r.cards \subseteq S

\* What a request carries, given what it was overtaken by.
Own(r) == r.op = "update" /\ r.choice # None
CarriesOwn(r) ==
    /\ r.at = "insert" /\ r.choice # None => r.cards \subseteq r.choice
    /\ Carrying(r) /\ Own(r) => r.at # "rules" /\ Within(r, r.choice)
CarriesChoice(r, over) ==
    Carrying(r) /\ ~Own(r) /\ ChoiceHeld(r.t) /\ "choice" \notin over => Within(r, chosen[r.t])
CarriesPlan(r, over) ==
    Carrying(r) /\ r.op = "update" /\ PlanHeld(r.t) /\ "plan" \notin over => r.plan = planned[r.t]
Carries(r, over) ==
    /\ Carrying(r) => track[r.t] # Absent
    /\ CarriesOwn(r) /\ CarriesChoice(r, over) /\ CarriesPlan(r, over)

RequestHeld(c) == Carries(req[c], overtaken[c])
HeldInv == PinInv /\ (\A t \in Tracks : RowHeld(t)) /\ \A c \in Callers : RequestHeld(c)

HeldMove(c) ==
    /\ Quietly
    /\ \E q, over : /\ Carries(q, over) /\ req' = [req EXCEPT ![c] = q]
                    /\ overtaken' = [overtaken EXCEPT ![c] = over]

LEMMA IdleCarries == \A over : Carries(Idle, over)
BY DEF Carries, CarriesOwn, CarriesChoice, CarriesPlan, Carrying, Idle

LEMMA HeldFail ==
    ASSUME NEW c \in Callers, Fail(c)
    PROVE  HeldMove(c)
BY IdleCarries DEF Fail, Return, HeldMove, Quietly

LEMMA HeldGoto ==
    ASSUME HeldInv, NEW c \in Callers, NEW q, Goto(c, q), Carries(q, overtaken[c])
    PROVE  HeldMove(c)
<1>1. overtaken' = [overtaken EXCEPT ![c] = overtaken[c]]
    BY DEF Goto, HeldInv, PinInv, TypeInv
<1> QED BY <1>1 DEF Goto, HeldMove, Quietly

LEMMA HeldContinue ==
    ASSUME HeldInv, NEW c \in Callers, NEW condition, NEW q, Continue(c, condition, q),
           condition => Carries(q, overtaken[c])
    PROVE  HeldMove(c)
<1>1. CASE condition BY <1>1, HeldGoto DEF Continue
<1>2. CASE ~condition BY <1>2, HeldFail DEF Continue
<1> QED BY <1>1, <1>2

\* A request that begins carries nothing yet.
LEMMA PlainCarries == \A q, over : q.at \notin {"insert", "recheck", "rules", "cards", "write"} => Carries(q, over)
BY DEF Carries, CarriesOwn, CarriesChoice, CarriesPlan, Carrying

LEMMA HeldMoveKeeps ==
    ASSUME HeldInv, NEW c \in Callers, HeldMove(c)
    PROVE  (\A t \in Tracks : RowHeld(t)') /\ \A d \in Callers : RequestHeld(d)'
<1>1. UNCHANGED <<track, chosen, planned, lost>> BY DEF HeldMove, Quietly, trackVars
<1>2. \A t \in Tracks : RowHeld(t)'
    BY <1>1 DEF HeldInv, RowHeld, ChoiceHeld, PlanHeld, Exists
<1>3. \A q, over : Carries(q, over) => Carries(q, over)'
    BY <1>1 DEF Carries, CarriesOwn, CarriesChoice, CarriesPlan, ChoiceHeld, PlanHeld, Exists
<1>4. PICK q, over : /\ Carries(q, over) /\ req' = [req EXCEPT ![c] = q]
                     /\ overtaken' = [overtaken EXCEPT ![c] = over]
    BY DEF HeldMove
<1>5. ASSUME NEW d \in Callers PROVE Carries(req'[d], overtaken'[d])
    <2>1. CASE d = c
        <3>1. req'[d] = q /\ overtaken'[d] = over BY <1>4, <2>1 DEF HeldInv, PinInv, TypeInv
        <3> QED BY <1>4, <3>1
    <2>2. CASE d # c
        <3>1. req'[d] = req[d] /\ overtaken'[d] = overtaken[d]
            BY <1>4, <2>2 DEF HeldInv, PinInv, TypeInv
        <3> QED BY <3>1 DEF HeldInv, RequestHeld
    <2> QED BY <2>1, <2>2
<1>6. ASSUME NEW d \in Callers PROVE RequestHeld(d)'
    <2>1. Carries(req'[d], overtaken'[d]) BY <1>5
    <2> QED BY <1>1, <2>1 DEF RequestHeld, Carries, CarriesOwn, CarriesChoice, CarriesPlan,
                              ChoiceHeld, PlanHeld, Exists
<1> QED BY <1>2, <1>6

LEMMA HeldCreates ==
    ASSUME HeldInv, NEW c \in Callers, CreateInfo(c) \/ CreateCards(c)
    PROVE  HeldMove(c)
<1> DEFINE r == req[c]
<1>1. CASE CreateInfo(c)
    <2> DEFINE q == [at |-> "cards", op |-> "create", t |-> r.t, v |-> r.v, d |-> r.d,
                     choice |-> r.choice, gen |-> active]
    <2>1. Continue(c, r.v \in Known, q) BY <1>1 DEF CreateInfo
    <2>2. q.op = "create" /\ q.at = "cards" OBVIOUS
    <2> HIDE DEF q
    <2>3. Carries(q, overtaken[c])
        BY <2>2 DEF Carries, CarriesOwn, CarriesChoice, CarriesPlan, Carrying
    <2> QED BY <2>1, <2>3, HeldContinue
<1>2. CASE CreateCards(c)
    <2> DEFINE cards == Selection(r.v, r.d, r.choice)
               q == [at |-> "insert", op |-> "create", t |-> r.t, v |-> r.v, d |-> r.d,
                     choice |-> r.choice, gen |-> r.gen, cards |-> cards]
    <2>1. Continue(c, Complete(r.v, r.choice) /\ cards # {}, q) BY <1>2 DEF CreateCards
    <2>2. r.choice # None => cards \subseteq r.choice BY SelectionIn
    <2>3. q.op = "create" /\ q.at = "insert" /\ q.choice = r.choice /\ q.cards = cards OBVIOUS
    <2> HIDE DEF q, cards
    <2>4. Carries(q, overtaken[c])
        BY <2>2, <2>3 DEF Carries, CarriesOwn, CarriesChoice, CarriesPlan, Carrying
    <2> QED BY <2>1, <2>4, HeldContinue
<1> QED BY <1>1, <1>2

LEMMA HeldUpdates ==
    ASSUME HeldInv, NEW c \in Callers, UpdateRead(c) \/ UpdateRules(c) \/ UpdateCards(c)
    PROVE  HeldMove(c)
<1> DEFINE r == req[c]
<1>0. PinInv /\ Carries(r, overtaken[c]) BY DEF HeldInv, RequestHeld
<1>1. CASE UpdateRead(c)
    <2> DEFINE row == track[r.t]
               d == IF r.turn = None THEN row.direction ELSE r.turn
               explicit == r.choice # None \/ row.mode = "explicit"
               q == [at |-> IF r.choice = None /\ explicit THEN "rules" ELSE "cards",
                     op |-> "update", t |-> r.t, choice |-> r.choice,
                     pin |-> row.pin, d |-> d, plan |-> row.plan, keys |-> r.choice,
                     mode |-> IF explicit THEN "explicit" ELSE "direction"]
    <2>1. r \in UpdateAsked BY <1>0, <1>1, FormAt, Steps_Update DEF PinInv, UpdateRead
    <2>2. CASE ~Exists(r.t) BY <1>1, <2>2, HeldFail DEF UpdateRead
    <2>3. CASE Exists(r.t)
        <3>1. Goto(c, q) BY <1>1, <2>3 DEF UpdateRead
        <3>2. /\ q.op = "update" /\ q.t = r.t /\ q.choice = r.choice /\ q.plan = track[r.t].plan
              /\ q.at # "write" /\ q.at # "insert" /\ q.keys = r.choice
              /\ r.choice # None \/ row.mode = "explicit" => q.mode = "explicit"
              /\ r.choice = None /\ row.mode = "explicit" => q.at = "rules"
              /\ r.choice # None => q.at = "cards"
            OBVIOUS
        <3>3. r.t \in Tracks BY <2>1 DEF UpdateAsked
        <3>4. RowHeld(r.t) /\ track[r.t] # Absent BY <2>3, <3>3, Apart DEF HeldInv, Exists
        <3> HIDE DEF q
        <3>5. CarriesOwn(q) BY <3>2 DEF CarriesOwn, Own, Within
        <3>6. CarriesChoice(q, overtaken[c])
            BY <3>2, <3>4 DEF CarriesChoice, Own, Within, RowHeld
        <3>7. CarriesPlan(q, overtaken[c]) BY <3>2, <3>4 DEF CarriesPlan, RowHeld
        <3>8. Carries(q, overtaken[c]) BY <3>2, <3>4, <3>5, <3>6, <3>7 DEF Carries
        <3> QED BY <3>1, <3>8, HeldGoto
    <2> QED BY <2>2, <2>3
<1>2. CASE UpdateRules(c)
    <2> DEFINE q == [r EXCEPT !.at = "cards", !.keys = RulesOf(r.t)]
    <2>1. r \in UpdateOpen /\ r.op = "update" /\ r.at = "rules"
        BY <1>0, <1>2, FormAt, Steps_Update DEF PinInv, UpdateRules, At
    <2>2. Goto(c, q) BY <1>2 DEF UpdateRules
    <2>3. /\ q.op = "update" /\ q.at = "cards" /\ q.t = r.t /\ q.choice = r.choice
          /\ q.plan = r.plan /\ q.mode = r.mode /\ q.keys = RulesOf(r.t)
        BY <2>1 DEF UpdateOpen
    <2>4. r.t \in Tracks /\ RowHeld(r.t) BY <2>1 DEF UpdateOpen, HeldInv
    <2>5. Exists(r.t) => RulesOf(r.t) = track[r.t].rules /\ RulesOf(r.t) # None
        <3>1. Exists(r.t) => track[r.t].rules \in SUBSET Cards
            BY <1>0, <2>4, RowTyped DEF PinInv, Selected
        <3> QED BY <3>1, DataAssumption DEF DataAssumption, RulesOf
    <2>6. Carrying(r) /\ Carrying(q) BY <2>1, <2>3 DEF Carrying
    <2>7. Own(q) <=> Own(r) BY <2>1, <2>3 DEF Own
    <2> HIDE DEF q
    <2>8. ~Own(r) BY <1>0, <2>1, <2>6 DEF Carries, CarriesOwn
    <2>9. CarriesOwn(q) BY <2>3, <2>7, <2>8 DEF CarriesOwn
    <2>10. CarriesChoice(q, overtaken[c])
        BY <1>0, <2>1, <2>3, <2>4, <2>5, <2>6, <2>8
           DEF Carries, CarriesChoice, Within, RowHeld, ChoiceHeld
    <2>11. CarriesPlan(q, overtaken[c]) BY <1>0, <2>1, <2>3, <2>6 DEF Carries, CarriesPlan
    <2>12. Carries(q, overtaken[c]) BY <1>0, <2>3, <2>6, <2>9, <2>10, <2>11 DEF Carries
    <2> QED BY <2>2, <2>12, HeldGoto
<1>3. CASE UpdateCards(c)
    <2> DEFINE cards == Selection(r.pin, r.d, r.keys)
               q == [at |-> "write", op |-> "update", t |-> r.t, choice |-> r.choice,
                     d |-> r.d, plan |-> r.plan, mode |-> r.mode, cards |-> cards]
    <2>1. r.op = "update" /\ r.at = "cards" BY <1>3 DEF UpdateCards, At
    <2>2. Continue(c, Complete(r.pin, r.choice) /\ cards # {}, q) BY <1>3 DEF UpdateCards
    <2>3. r.keys # None => cards \subseteq r.keys BY SelectionIn
    <2>4. /\ q.op = "update" /\ q.at = "write" /\ q.t = r.t /\ q.choice = r.choice
          /\ q.plan = r.plan /\ q.mode = r.mode /\ q.cards = cards
        OBVIOUS
    <2> HIDE DEF q, cards
    <2>5. Carrying(r) /\ Carrying(q) BY <2>1, <2>4 DEF Carrying
    <2>6. Own(q) <=> Own(r) BY <2>1, <2>4 DEF Own
    <2>7. \A S : Within(r, S) => Within(q, S) BY <2>1, <2>3, <2>4 DEF Within
    <2>8. Carries(q, overtaken[c])
        BY <1>0, <2>1, <2>4, <2>5, <2>6, <2>7 DEF Carries, CarriesOwn, CarriesChoice, CarriesPlan
    <2> QED BY <2>2, <2>8, HeldContinue
<1> QED BY <1>1, <1>2, <1>3

LEMMA HeldIntegrates ==
    ASSUME HeldInv, NEW c \in Callers,
           \/ IntegrateRead(c) \/ IntegrateCurrent(c) \/ IntegrateTarget(c)
           \/ IntegrateReread(c) \/ IntegrateRecheck(c) \/ IntegrateRules(c) \/ IntegrateCards(c)
    PROVE  HeldMove(c)
<1> DEFINE r == req[c]
<1>0. PinInv /\ Carries(r, overtaken[c]) BY DEF HeldInv, RequestHeld
<1>1. CASE IntegrateRead(c)
    <2> DEFINE q == [at |-> "current", op |-> "integrate", t |-> r.t, v |-> r.v,
                     pin |-> track[r.t].pin]
    <2>1. CASE ~Exists(r.t) BY <1>1, <2>1, HeldFail DEF IntegrateRead
    <2>2. CASE Exists(r.t)
        <3>1. Continue(c, track[r.t].pin # r.v, q) BY <1>1, <2>2 DEF IntegrateRead
        <3>2. q.at = "current" OBVIOUS
        <3> HIDE DEF q
        <3> QED BY <3>1, <3>2, PlainCarries, HeldContinue
    <2> QED BY <2>1, <2>2
<1>2. CASE IntegrateCurrent(c)
    <2> DEFINE q == [at |-> "target", op |-> "integrate", t |-> r.t, v |-> r.v]
    <2>1. Continue(c, r.pin \in Known, q) BY <1>2 DEF IntegrateCurrent
    <2>2. q.at = "target" OBVIOUS
    <2> HIDE DEF q
    <2> QED BY <2>1, <2>2, PlainCarries, HeldContinue
<1>3. CASE IntegrateTarget(c)
    <2> DEFINE q == [r EXCEPT !.at = "reread"]
    <2>1. r \in IntegrateAsked BY <1>0, <1>3, FormAt, Steps_Integrate DEF PinInv, IntegrateTarget
    <2>2. Continue(c, r.v \in Known, q) BY <1>3 DEF IntegrateTarget
    <2>3. q.at = "reread" BY <2>1 DEF IntegrateAsked
    <2> HIDE DEF q
    <2> QED BY <2>2, <2>3, PlainCarries, HeldContinue
<1>4. CASE IntegrateReread(c)
    <2> DEFINE row == track[r.t]
               q == [at |-> "recheck", op |-> "integrate", t |-> r.t, v |-> r.v,
                     mode |-> row.mode, d |-> row.direction]
    <2>1. CASE ~Exists(r.t) BY <1>4, <2>1, HeldFail DEF IntegrateReread
    <2>2. CASE Exists(r.t)
        <3>1. r.t \in Tracks
            BY <1>0, <1>4, FormAt, Steps_Integrate DEF PinInv, IntegrateReread, IntegrateAsked
        <3>2. Goto(c, q) BY <1>4, <2>2 DEF IntegrateReread
        <3>3. RowHeld(r.t) /\ track[r.t] # Absent BY <2>2, <3>1, Apart DEF HeldInv, Exists
        <3>4. q.at = "recheck" /\ q.op = "integrate" /\ q.t = r.t /\ q.mode = track[r.t].mode
            OBVIOUS
        <3> HIDE DEF q
        <3>5. Carries(q, overtaken[c])
            BY <3>3, <3>4 DEF Carries, CarriesOwn, CarriesChoice, CarriesPlan, Own, Within, RowHeld
        <3> QED BY <3>2, <3>5, HeldGoto
    <2> QED BY <2>1, <2>2
<1>5. CASE IntegrateRecheck(c)
    <2> DEFINE q == [at |-> IF r.mode = "explicit" THEN "rules" ELSE "cards",
                     op |-> "integrate", t |-> r.t, v |-> r.v, mode |-> r.mode, d |-> r.d,
                     gen |-> active, keys |-> None]
    <2>1. r.op = "integrate" /\ r.at = "recheck" BY <1>5 DEF IntegrateRecheck, At
    <2>2. Continue(c, r.v \in Known, q) BY <1>5 DEF IntegrateRecheck
    <2>3. /\ q.op = "integrate" /\ q.t = r.t /\ q.mode = r.mode
          /\ q.at = IF r.mode = "explicit" THEN "rules" ELSE "cards"
        OBVIOUS
    <2> HIDE DEF q
    <2>4. Carrying(r) /\ Carrying(q) /\ ~Own(r) /\ ~Own(q) BY <2>1, <2>3 DEF Carrying, Own
    <2>5. \A S : Within(r, S) => Within(q, S) BY <2>1, <2>3 DEF Within
    <2>6. Carries(q, overtaken[c])
        BY <1>0, <2>3, <2>4, <2>5 DEF Carries, CarriesOwn, CarriesChoice, CarriesPlan
    <2> QED BY <2>2, <2>6, HeldContinue
<1>6. CASE IntegrateRules(c)
    <2> DEFINE q == [r EXCEPT !.at = "cards", !.keys = ExplicitRules(r.t)]
    <2>1. r \in IntegrateOpen /\ r.op = "integrate" /\ r.at = "rules"
        BY <1>0, <1>6, FormAt, Steps_Integrate DEF PinInv, IntegrateRules, At
    <2>2. Goto(c, q) BY <1>6 DEF IntegrateRules
    <2>3. /\ q.op = "integrate" /\ q.at = "cards" /\ q.t = r.t
          /\ q.mode = r.mode /\ q.keys = ExplicitRules(r.t)
        BY <2>1 DEF IntegrateOpen
    <2>4. r.t \in Tracks /\ RowHeld(r.t) BY <2>1 DEF IntegrateOpen, HeldInv
    <2>5. ExplicitRules(r.t) # None /\ (Exists(r.t) => ExplicitRules(r.t) \subseteq track[r.t].rules)
        <3>1. Exists(r.t) => track[r.t].rules \in SUBSET Cards
            BY <1>0, <2>4, RowTyped DEF PinInv, Selected
        <3> QED BY <3>1, DataAssumption DEF DataAssumption, ExplicitRules
    <2> HIDE DEF q
    <2>6. Carrying(r) /\ Carrying(q) /\ ~Own(r) /\ ~Own(q) BY <2>1, <2>3 DEF Carrying, Own
    <2>7. CarriesChoice(q, overtaken[c])
        BY <1>0, <2>1, <2>3, <2>4, <2>5, <2>6
           DEF Carries, CarriesChoice, Within, RowHeld, ChoiceHeld
    <2>8. Carries(q, overtaken[c])
        BY <1>0, <2>3, <2>6, <2>7 DEF Carries, CarriesOwn, CarriesPlan
    <2> QED BY <2>2, <2>8, HeldGoto
<1>7. CASE IntegrateCards(c)
    <2> DEFINE cards == Selection(r.v, r.d, r.keys)
               q == [at |-> "write", op |-> "integrate", t |-> r.t, v |-> r.v,
                     mode |-> r.mode, gen |-> r.gen, cards |-> cards]
    <2>1. r.op = "integrate" /\ r.at = "cards" BY <1>7 DEF IntegrateCards, At
    <2>2. Continue(c, Complete(r.v, r.keys) /\ cards # {}, q) BY <1>7 DEF IntegrateCards
    <2>3. r.keys # None => cards \subseteq r.keys BY SelectionIn
    <2>4. /\ q.op = "integrate" /\ q.at = "write" /\ q.t = r.t
          /\ q.mode = r.mode /\ q.cards = cards
        OBVIOUS
    <2> HIDE DEF q, cards
    <2>5. Carrying(r) /\ Carrying(q) /\ ~Own(r) /\ ~Own(q) BY <2>1, <2>4 DEF Carrying, Own
    <2>6. \A S : Within(r, S) => Within(q, S) BY <2>1, <2>3, <2>4 DEF Within
    <2>7. Carries(q, overtaken[c])
        BY <1>0, <2>4, <2>5, <2>6 DEF Carries, CarriesOwn, CarriesChoice, CarriesPlan
    <2> QED BY <2>2, <2>7, HeldContinue
<1> QED BY <1>1, <1>2, <1>3, <1>4, <1>5, <1>6, <1>7

LEMMA HeldPlans ==
    ASSUME HeldInv, NEW c \in Callers, PlanRead(c)
    PROVE  HeldMove(c)
<1> DEFINE r == req[c]
           q == [at |-> "write", op |-> "plan", t |-> r.t, plan |-> r.plan,
                 mode |-> track[r.t].mode]
<1>1. CASE ~Exists(r.t) BY <1>1, HeldFail DEF PlanRead
<1>2. CASE Exists(r.t)
    <2>1. r.t \in Tracks
        BY FormAt, Steps_Plan DEF HeldInv, PinInv, PlanRead, PlanAsked
    <2>2. Goto(c, q) BY <1>2 DEF PlanRead
    <2>3. RowHeld(r.t) /\ track[r.t] # Absent BY <1>2, <2>1, Apart DEF HeldInv, Exists
    <2>4. q.at = "write" /\ q.op = "plan" /\ q.t = r.t /\ q.mode = track[r.t].mode OBVIOUS
    <2> HIDE DEF q
    <2>5. Carries(q, overtaken[c])
        BY <2>3, <2>4 DEF Carries, CarriesOwn, CarriesChoice, CarriesPlan, Own, Within, RowHeld
    <2> QED BY <2>2, <2>5, HeldGoto
<1> QED BY <1>1, <1>2

LEMMA HeldRequests ==
    ASSUME HeldInv, NEW c \in Callers, NEW q, NEW op, Begin(c, op, q), q.at \in {"info", "read"}
    PROVE  HeldMove(c)
<1>1. Goto(c, q) BY DEF Begin, Goto
<1> QED BY <1>1, PlainCarries, HeldGoto

LEMMA CarryingTrack == \A r \in Forms : Carrying(r) => r.t \in Tracks
<1> SUFFICES ASSUME NEW r \in Forms, Carrying(r) PROVE r.t \in Tracks
    OBVIOUS
<1>1. r # Idle BY DEF Carrying, Idle
<1>2. r \in Creates => r.t \in Tracks BY DEF Creates, CreateAsked, CreateKnown, CreateReady
<1>3. r \in Updates => r.t \in Tracks BY DEF Updates, UpdateAsked, UpdateOpen, UpdateReady
<1>4. r \in Integrates => r.t \in Tracks
    BY DEF Integrates, IntegrateAsked, IntegratePinned, IntegrateRead2, IntegrateOpen, IntegrateReady
<1>5. r \in PlanForms => r.t \in Tracks BY DEF PlanForms, PlanAsked, PlanReady
<1> QED BY <1>1, <1>2, <1>3, <1>4, <1>5 DEF Forms

\* A transaction of c over an existing row: the requests it overtakes carry on
\* what they carried of the parts it does not store.
LEMMA HeldWrite ==
    ASSUME HeldInv, NEW c \in Callers, NEW t \in Tracks, NEW row \in TrackRow,
           NEW stored \in SUBSET Parts, NEW back,
           Exists(t), track' = [track EXCEPT ![t] = row], req' = [req EXCEPT ![c] = Idle],
           WritesBack(c, t, stored, back),
           \A u \in Tracks : u # t => chosen'[u] = chosen[u] /\ planned'[u] = planned[u],
           "choice" \notin stored => chosen'[t] = chosen[t],
           "plan" \notin stored => planned'[t] = planned[t],
           RowHeld(t)'
    PROVE  (\A u \in Tracks : RowHeld(u)') /\ \A d \in Callers : RequestHeld(d)'
<1>0. PinInv /\ TypeInv BY DEF HeldInv, PinInv
<1>1. /\ track'[t] = row /\ \A u \in Tracks : u # t => track'[u] = track[u]
      /\ lost'[t] = (lost[t] \ stored) \cup (overtaken[c] \cap back)
      /\ \A u \in Tracks : u # t => lost'[u] = lost[u]
    BY <1>0 DEF TypeInv, WritesBack
<1>2. ASSUME NEW u \in Tracks PROVE RowHeld(u)'
    <2>1. CASE u # t
        BY <1>1, <2>1 DEF HeldInv, RowHeld, ChoiceHeld, PlanHeld, Exists
    <2> QED BY <2>1
<1>3. ASSUME NEW d \in Callers PROVE RequestHeld(d)'
    <2> DEFINE r == req[d]
    <2>1. CASE d = c
        <3>1. req'[d] = Idle BY <1>0, <2>1 DEF TypeInv
        <3> QED BY <3>1 DEF RequestHeld, Carries, CarriesOwn, CarriesChoice, CarriesPlan, Carrying, Idle
    <2>2. CASE d # c
        <3>1. req'[d] = r BY <1>0, <2>2 DEF TypeInv
        <3>2. Carries(r, overtaken[d]) BY DEF HeldInv, RequestHeld
        <3>3. overtaken'[d] = IF d \in Reading(t) THEN overtaken[d] \cup stored ELSE overtaken[d]
            BY <2>2 DEF WritesBack
        <3>4. r \in Forms BY <1>0 DEF TypeInv
        <3>5. CASE ~Carrying(r)
            BY <3>1, <3>2, <3>5 DEF RequestHeld, Carries, CarriesOwn, CarriesChoice, CarriesPlan
        <3>6. CASE Carrying(r) /\ r.t = t
            <4>1. d \in Reading(t) BY <3>6 DEF Carrying, Reading
            <4>2. overtaken'[d] = overtaken[d] \cup stored BY <3>3, <4>1
            <4>3. track'[r.t] # Absent BY <1>1, <3>6, Apart
            <4>4. CarriesChoice(r, overtaken[d]) => CarriesChoice(req[d], overtaken[d])'
                <5>1. "choice" \notin lost'[t] /\ "choice" \notin overtaken'[d]
                          => /\ "choice" \notin lost[t] /\ "choice" \notin overtaken[d]
                             /\ chosen'[t] = chosen[t]
                    BY <1>1, <4>2
                <5> QED BY <3>1, <3>6, <5>1 DEF CarriesChoice, ChoiceHeld
            <4>5. CarriesPlan(r, overtaken[d]) => CarriesPlan(req[d], overtaken[d])'
                <5>1. "plan" \notin lost'[t] /\ "plan" \notin overtaken'[d]
                          => /\ "plan" \notin lost[t] /\ "plan" \notin overtaken[d]
                             /\ planned'[t] = planned[t]
                    BY <1>1, <4>2
                <5> QED BY <3>1, <3>6, <5>1 DEF CarriesPlan, PlanHeld
            <4>6. CarriesOwn(req[d])' BY <3>1, <3>2 DEF Carries, CarriesOwn
            <4> QED BY <3>1, <3>2, <4>3, <4>4, <4>5, <4>6 DEF RequestHeld, Carries
        <3>7. CASE Carrying(r) /\ r.t # t
            <4>1. r.t \in Tracks BY <3>4, <3>7, CarryingTrack
            <4>2. d \notin Reading(t) BY <3>7 DEF Reading
            <4>3. overtaken'[d] = overtaken[d] BY <3>3, <4>2
            <4>4. /\ track'[r.t] = track[r.t] /\ chosen'[r.t] = chosen[r.t]
                  /\ planned'[r.t] = planned[r.t] /\ lost'[r.t] = lost[r.t]
                BY <1>1, <3>7, <4>1
            <4> QED BY <3>1, <3>2, <4>3, <4>4 DEF RequestHeld, Carries, CarriesOwn, CarriesChoice,
                                                  CarriesPlan, ChoiceHeld, PlanHeld, Exists
        <3> QED BY <3>5, <3>6, <3>7
    <2> QED BY <2>1, <2>2
<1> QED BY <1>2, <1>3

\* A row that appears or disappears: nobody carries on with it.
LEMMA HeldReplace ==
    ASSUME HeldInv, NEW c \in Callers, NEW t \in Tracks, NEW row,
           track' = [track EXCEPT ![t] = row], row # Absent, overtaken' = overtaken,
           req' = [req EXCEPT ![c] = Idle] \/ req' = req,
           \A u \in Tracks : u # t => /\ chosen'[u] = chosen[u] /\ planned'[u] = planned[u]
                                     /\ lost'[u] = lost[u],
           track[t] = Absent \/ ~Exists(t)', RowHeld(t)'
    PROVE  (\A u \in Tracks : RowHeld(u)') /\ \A d \in Callers : RequestHeld(d)'
<1>0. PinInv /\ TypeInv BY DEF HeldInv, PinInv
<1>1. track'[t] = row /\ \A u \in Tracks : u # t => track'[u] = track[u]
    BY <1>0 DEF TypeInv
<1>2. ASSUME NEW u \in Tracks PROVE RowHeld(u)'
    <2>1. CASE u # t
        BY <1>1, <2>1 DEF HeldInv, RowHeld, ChoiceHeld, PlanHeld, Exists
    <2> QED BY <2>1
<1>3. ASSUME NEW d \in Callers PROVE RequestHeld(d)'
    <2> DEFINE r == req[d]
    <2>1. req'[d] = Idle \/ req'[d] = r BY <1>0 DEF TypeInv
    <2>2. CASE req'[d] = Idle
        BY <2>2 DEF RequestHeld, Carries, CarriesOwn, CarriesChoice, CarriesPlan, Carrying, Idle
    <2>3. CASE req'[d] = r
        <3>1. Carries(r, overtaken[d]) BY DEF HeldInv, RequestHeld
        <3>2. CASE ~Carrying(r)
            BY <2>3, <3>1, <3>2 DEF RequestHeld, Carries, CarriesOwn, CarriesChoice, CarriesPlan
        <3>3. CASE Carrying(r) /\ r.t = t
            <4>1. ~Exists(t)' BY <3>1, <3>3 DEF Carries
            <4> QED BY <1>1, <2>3, <3>1, <3>3, <4>1 DEF RequestHeld, Carries, CarriesOwn,
                    CarriesChoice, CarriesPlan, ChoiceHeld, PlanHeld
        <3>4. CASE Carrying(r) /\ r.t # t
            <4>1. r.t \in Tracks BY <1>0, <3>4, CarryingTrack DEF TypeInv
            <4>2. /\ track'[r.t] = track[r.t] /\ chosen'[r.t] = chosen[r.t]
                  /\ planned'[r.t] = planned[r.t] /\ lost'[r.t] = lost[r.t]
                BY <1>1, <3>4, <4>1
            <4> QED BY <2>3, <3>1, <4>2 DEF RequestHeld, Carries, CarriesOwn, CarriesChoice,
                                            CarriesPlan, ChoiceHeld, PlanHeld, Exists
        <3> QED BY <3>2, <3>3, <3>4
    <2> QED BY <2>1, <2>2, <2>3
<1> QED BY <1>2, <1>3

LEMMA HeldCreate ==
    ASSUME HeldInv, NEW c \in Callers, CreateInsert(c), ~Fail(c)
    PROVE  (\A u \in Tracks : RowHeld(u)') /\ \A d \in Callers : RequestHeld(d)'
<1> DEFINE r == req[c]
<1>a. PICK t : t = r.t OBVIOUS
<1>0. PinInv /\ TypeInv /\ Carries(r, overtaken[c]) BY DEF HeldInv, PinInv, RequestHeld
<1>1. r \in CreateReady /\ r.at = "insert"
    BY <1>0, FormAt, Steps_Create DEF CreateInsert, At
<1>2. /\ track[t] = Absent /\ track' = [track EXCEPT ![t] = NewRow(r)]
      /\ Explicitly(t, r.choice) /\ req' = [req EXCEPT ![c] = Idle]
      /\ UNCHANGED <<planned, lost, overtaken>>
    BY <1>a DEF CreateInsert, Return
<1>3. t \in Tracks BY <1>1, <1>a DEF CreateReady
<1>4. chosen[t] = None /\ planned[t] = NoPlan
    BY <1>2, <1>3, Apart DEF HeldInv, RowHeld, Exists
<1>5. track'[t] = NewRow(r) /\ chosen'[t] = r.choice
    BY <1>0, <1>2, <1>3, <1>4 DEF TypeInv, Explicitly
<1>6. r.choice # None => r.cards \subseteq r.choice BY <1>0, <1>1 DEF Carries, CarriesOwn
<1>7. Exists(t)'
    <2>1. PinInv' BY <1>0, CreateInsertKeeps
    <2>2. track'[t] # Absent /\ track'[t] # Deleted BY <1>5 DEF NewRow, Absent, Deleted
    <2> QED BY <1>3, <2>1, <2>2 DEF PinInv, TypeInv, Exists
<1>8. RowHeld(t)'
    BY <1>2, <1>4, <1>5, <1>6, <1>7 DEF RowHeld, ChoiceHeld, NewRow
<1>9. \A u \in Tracks : u # t => /\ chosen'[u] = chosen[u] /\ planned'[u] = planned[u]
                                 /\ lost'[u] = lost[u]
    BY <1>0, <1>2 DEF TypeInv, Explicitly
<1>10. NewRow(r) # Absent BY DEF NewRow, Absent
<1> QED BY <1>2, <1>3, <1>8, <1>9, <1>10, HeldReplace

LEMMA HeldDelete ==
    ASSUME HeldInv, NEW c \in Callers, NEW t \in Tracks, Delete(c, t)
    PROVE  (\A u \in Tracks : RowHeld(u)') /\ \A d \in Callers : RequestHeld(d)'
<1>1. /\ track' = [track EXCEPT ![t] = Deleted] /\ overtaken' = overtaken /\ req' = req
      /\ track'[t] = Deleted /\ chosen'[t] = None /\ planned'[t] = NoPlan
      /\ \A u \in Tracks : u # t => /\ chosen'[u] = chosen[u] /\ planned'[u] = planned[u]
                                   /\ lost'[u] = lost[u]
    BY DEF Delete, callVars, HeldInv, PinInv, TypeInv
<1>2. ~Exists(t)' BY <1>1, Apart DEF Exists
<1>3. RowHeld(t)' BY <1>1, <1>2 DEF RowHeld, ChoiceHeld, PlanHeld
<1> QED BY <1>1, <1>2, <1>3, Apart, HeldReplace

LEMMA HeldUpdate ==
    ASSUME HeldInv, NEW c \in Callers, UpdateWrite(c), ~Fail(c)
    PROVE  (\A u \in Tracks : RowHeld(u)') /\ \A d \in Callers : RequestHeld(d)'
<1> DEFINE r == req[c]
<1>a. PICK t : t = r.t OBVIOUS
<1> DEFINE row == Updated(track[t], r)
           stored == IF r.choice = None THEN {} ELSE {"choice"}
           back == IF r.choice = None THEN {"choice", "plan"} ELSE {"plan"}
<1>0. PinInv /\ TypeInv /\ Carries(r, overtaken[c]) BY DEF HeldInv, PinInv, RequestHeld
<1>1. r \in UpdateReady /\ r.op = "update" /\ r.at = "write"
    BY <1>0, FormAt, Steps_Update DEF UpdateWrite, At
<1>2. /\ Exists(t) /\ track' = [track EXCEPT ![t] = row]
      /\ Explicitly(t, r.choice) /\ req' = [req EXCEPT ![c] = Idle] /\ planned' = planned
      /\ WritesBack(c, t, stored, back)
    BY <1>a DEF UpdateWrite, Return
<1>3. t \in Tracks BY <1>1, <1>a DEF UpdateReady
<1>4. track[t] \in TrackRow BY <1>2 DEF Exists
<1>5. row.mode = r.mode /\ row.plan = r.plan /\ row.rules = r.cards
    BY <1>4 DEF Updated, TrackRow
<1>6. row \in TrackRow
    <2>1. /\ r.d \in Directions /\ r.mode \in Modes /\ r.plan \in Plans
          /\ r.cards \in (SUBSET Cards) \ {{}}
        BY <1>1 DEF UpdateReady, Selected
    <2> QED BY <1>4, <2>1, KindTyped DEF Updated, TrackRow
<1> HIDE DEF row
<1>7. /\ track'[t] = row /\ chosen'[t] = IF r.choice = None THEN chosen[t] ELSE r.choice
      /\ lost'[t] = (lost[t] \ stored) \cup (overtaken[c] \cap back)
    BY <1>0, <1>2, <1>3 DEF TypeInv, Explicitly, WritesBack
<1>8. Carrying(r) /\ (Own(r) <=> r.choice # None) BY <1>1 DEF Carrying, Own
<1>9. ChoiceHeld(t)' => row.mode = "explicit" /\ row.rules \subseteq chosen'[t]
    <2>1. CASE r.choice # None
        <3>1. Within(r, r.choice) BY <1>0, <1>8, <2>1 DEF Carries, CarriesOwn
        <3> QED BY <1>1, <1>5, <1>7, <2>1, <3>1 DEF Within
    <2>2. CASE r.choice = None
        <3>1. ChoiceHeld(t)' => ChoiceHeld(t) /\ "choice" \notin overtaken[c]
            BY <1>2, <1>7, <2>2 DEF ChoiceHeld
        <3>2. ChoiceHeld(t)' => Within(r, chosen[t])
            BY <1>0, <1>a, <1>8, <2>2, <3>1 DEF Carries, CarriesChoice
        <3> QED BY <1>1, <1>5, <1>7, <2>2, <3>2 DEF Within
    <2> QED BY <2>1, <2>2
<1>10. PlanHeld(t)' => row.plan = planned'[t]
    <2>1. PlanHeld(t)' => PlanHeld(t) /\ "plan" \notin overtaken[c]
        BY <1>2, <1>7 DEF PlanHeld
    <2> QED BY <1>0, <1>1, <1>a, <1>2, <1>5, <1>8, <2>1 DEF Carries, CarriesPlan
<1>11. RowHeld(t)' BY <1>6, <1>7, <1>9, <1>10 DEF RowHeld, Exists
<1>12. /\ \A u \in Tracks : u # t => chosen'[u] = chosen[u] /\ planned'[u] = planned[u]
       /\ "choice" \notin stored => chosen'[t] = chosen[t]
       /\ planned'[t] = planned[t]
    BY <1>0, <1>2, <1>7 DEF TypeInv, Explicitly
<1>13. stored \in SUBSET Parts BY DEF Parts
<1> HIDE DEF stored, back
<1> QED BY <1>2, <1>3, <1>6, <1>11, <1>12, <1>13, HeldWrite

LEMMA HeldIntegrate ==
    ASSUME HeldInv, NEW c \in Callers, IntegrateWrite(c), ~Fail(c)
    PROVE  (\A u \in Tracks : RowHeld(u)') /\ \A d \in Callers : RequestHeld(d)'
<1> DEFINE r == req[c]
<1>a. PICK t : t = r.t OBVIOUS
<1> DEFINE row == Integrated(track[t], r)
<1>0. PinInv /\ TypeInv /\ Carries(r, overtaken[c]) BY DEF HeldInv, PinInv, RequestHeld
<1>1. r \in IntegrateReady /\ r.op = "integrate" /\ r.at = "write"
    BY <1>0, FormAt, Steps_Integrate DEF IntegrateWrite, At
<1>2. /\ Exists(t) /\ track' = [track EXCEPT ![t] = row]
      /\ req' = [req EXCEPT ![c] = Idle] /\ UNCHANGED <<chosen, planned>>
      /\ WritesBack(c, t, {}, {"choice"})
    BY <1>a DEF IntegrateWrite, Return
<1>3. t \in Tracks BY <1>1, <1>a DEF IntegrateReady
<1>4. track[t] \in TrackRow BY <1>2 DEF Exists
<1>5. row.mode = track[t].mode /\ row.plan = track[t].plan /\ row.rules = r.cards
    BY <1>4 DEF Integrated, TrackRow
<1>6. row \in TrackRow
    <2>1. r.v \in Versions /\ r.gen \in Nat /\ r.cards \in (SUBSET Cards) \ {{}}
        BY <1>1 DEF IntegrateReady, Selected
    <2> QED BY <1>4, <2>1, KindTyped DEF Integrated, TrackRow
<1> HIDE DEF row
<1>7. track'[t] = row /\ lost'[t] = lost[t] \cup (overtaken[c] \cap {"choice"})
    BY <1>0, <1>2, <1>3 DEF TypeInv, WritesBack
<1>8. Carrying(r) /\ ~Own(r) BY <1>1 DEF Carrying, Own
<1>9. RowHeld(t) BY <1>3 DEF HeldInv
<1>10. ChoiceHeld(t)' => row.mode = "explicit" /\ row.rules \subseteq chosen'[t]
    <2>1. ChoiceHeld(t)' => ChoiceHeld(t) /\ "choice" \notin overtaken[c]
        BY <1>2, <1>7 DEF ChoiceHeld
    <2>2. ChoiceHeld(t)' => Within(r, chosen[t])
        BY <1>0, <1>a, <1>8, <2>1 DEF Carries, CarriesChoice
    <2> QED BY <1>1, <1>2, <1>5, <1>9, <2>1, <2>2 DEF Within, RowHeld
<1>11. PlanHeld(t)' => row.plan = planned'[t]
    BY <1>2, <1>5, <1>7, <1>9 DEF PlanHeld, RowHeld
<1>12. RowHeld(t)' BY <1>6, <1>7, <1>10, <1>11 DEF RowHeld, Exists
<1> QED BY <1>2, <1>3, <1>6, <1>12, HeldWrite

LEMMA HeldPlan ==
    ASSUME HeldInv, NEW c \in Callers, PlanWrite(c), ~Fail(c)
    PROVE  (\A u \in Tracks : RowHeld(u)') /\ \A d \in Callers : RequestHeld(d)'
<1> DEFINE r == req[c]
<1>a. PICK t : t = r.t OBVIOUS
<1> DEFINE row == [track[t] EXCEPT !.plan = r.plan, !.mode = r.mode]
<1>0. PinInv /\ TypeInv /\ Carries(r, overtaken[c]) BY DEF HeldInv, PinInv, RequestHeld
<1>1. r \in PlanReady /\ r.op = "plan" /\ r.at = "write"
    BY <1>0, FormAt, Steps_Plan DEF PlanWrite, At
<1>2. /\ Exists(t) /\ track' = [track EXCEPT ![t] = row]
      /\ req' = [req EXCEPT ![c] = Idle] /\ chosen' = chosen
      /\ planned' = [planned EXCEPT ![t] = r.plan]
      /\ WritesBack(c, t, {"plan"}, {"choice"})
    BY <1>a DEF PlanWrite, Return
<1>3. t \in Tracks /\ r.mode \in Modes /\ r.plan \in Plans BY <1>1, <1>a DEF PlanReady
<1>4. track[t] \in TrackRow BY <1>2 DEF Exists
<1>5. row.mode = r.mode /\ row.plan = r.plan /\ row.rules = track[t].rules
    BY <1>4 DEF TrackRow
<1>6. row \in TrackRow BY <1>3, <1>4 DEF TrackRow
<1> HIDE DEF row
<1>7. /\ track'[t] = row /\ planned'[t] = r.plan
      /\ lost'[t] = (lost[t] \ {"plan"}) \cup (overtaken[c] \cap {"choice"})
      /\ \A u \in Tracks : u # t => planned'[u] = planned[u]
    BY <1>0, <1>2, <1>3 DEF TypeInv, WritesBack
<1>8. Carrying(r) /\ ~Own(r) BY <1>1 DEF Carrying, Own
<1>9. RowHeld(t) BY <1>3 DEF HeldInv
<1>10. ChoiceHeld(t)' => row.mode = "explicit" /\ row.rules \subseteq chosen'[t]
    <2>1. ChoiceHeld(t)' => ChoiceHeld(t) /\ "choice" \notin overtaken[c]
        BY <1>2, <1>7 DEF ChoiceHeld
    <2>2. ChoiceHeld(t)' => Within(r, chosen[t])
        BY <1>0, <1>a, <1>8, <2>1 DEF Carries, CarriesChoice
    <2> QED BY <1>2, <1>5, <1>9, <2>1, <2>2 DEF Within, RowHeld
<1>11. RowHeld(t)' BY <1>5, <1>6, <1>7, <1>10 DEF RowHeld, Exists
<1>12. {"plan"} \in SUBSET Parts BY DEF Parts
<1> QED BY <1>2, <1>3, <1>6, <1>7, <1>11, <1>12, HeldWrite

LEMMA HeldKept ==
    ASSUME HeldInv, [Next]_vars
    PROVE  HeldInv'
<1> DEFINE Hold == (\A t \in Tracks : RowHeld(t)') /\ \A d \in Callers : RequestHeld(d)'
<1>1. PinInv' BY NextPinInv DEF HeldInv
<1>2. ASSUME NEW c \in Callers, HeldMove(c) PROVE Hold BY <1>2, HeldMoveKeeps
<1>3. UNCHANGED <<track, chosen, planned, lost, req, overtaken>> => Hold
    BY DEF HeldInv, RowHeld, ChoiceHeld, PlanHeld, Exists, RequestHeld, Carries, CarriesOwn,
           CarriesChoice, CarriesPlan
<1>4. CASE Datasets
    <2>1. PinInv BY DEF HeldInv
    <2>2. UNCHANGED <<track, chosen, planned, lost, req, overtaken>>
        BY <1>4, <2>1, DatasetsContents DEF PinInv, callVars
    <2> QED BY <1>1, <1>3, <2>2 DEF HeldInv
<1>5. CASE UNCHANGED vars
    <2>1. UNCHANGED <<track, chosen, planned, lost, req, overtaken>>
        BY <1>5 DEF vars, trackVars, callVars
    <2> QED BY <1>1, <1>3, <2>1 DEF HeldInv
<1>6. ASSUME NEW c \in Callers, Requests(c) PROVE Hold
    <2>1. ASSUME NEW t \in Tracks, NEW v \in Versions, NEW d \in Directions,
                 NEW choice \in Choices \cup {None}, RequestCreate(c, t, v, d, choice)
          PROVE  Hold
        <3>1. HeldMove(c) BY <2>1, HeldRequests DEF RequestCreate
        <3> QED BY <1>2, <3>1
    <2>2. ASSUME NEW t \in Tracks, NEW turn \in Directions \cup {None},
                 NEW choice \in Choices \cup {None}, RequestUpdate(c, t, turn, choice)
          PROVE  Hold
        <3>1. HeldMove(c) BY <2>2, HeldRequests DEF RequestUpdate
        <3> QED BY <1>2, <3>1
    <2>3. ASSUME NEW t \in Tracks, NEW v \in Versions, RequestIntegrate(c, t, v) PROVE Hold
        <3>1. HeldMove(c) BY <2>3, HeldRequests DEF RequestIntegrate
        <3> QED BY <1>2, <3>1
    <2>4. ASSUME NEW t \in Tracks, NEW plan \in Plans, RequestPlan(c, t, plan) PROVE Hold
        <3>1. HeldMove(c) BY <2>4, HeldRequests DEF RequestPlan
        <3> QED BY <1>2, <3>1
    <2> HIDE DEF Hold
    <2>5. ASSUME NEW t \in Tracks, Delete(c, t) PROVE Hold BY <2>5, HeldDelete DEF Hold
    <2> QED BY <1>6, <2>1, <2>2, <2>3, <2>4, <2>5 DEF Requests
<1>7. ASSUME NEW c \in Callers, Steps(c) PROVE Hold
    <2>1. Fail(c) => Hold BY <1>2, HeldFail
    <2>2. CreateInsert(c) \/ UpdateWrite(c) \/ IntegrateWrite(c) \/ PlanWrite(c) => Hold
        BY <2>1, HeldCreate, HeldUpdate, HeldIntegrate, HeldPlan
    <2>3. ~(CreateInsert(c) \/ UpdateWrite(c) \/ IntegrateWrite(c) \/ PlanWrite(c)) => HeldMove(c)
        BY <1>7, HeldCreates, HeldUpdates, HeldIntegrates, HeldPlans DEF Steps
    <2> HIDE DEF Hold
    <2> QED BY <1>2, <2>2, <2>3
<1> QED BY <1>1, <1>4, <1>5, <1>6, <1>7 DEF Next, HeldInv

LEMMA HeldAlways == Spec => []HeldInv
<1>1. Init => HeldInv
    <2> SUFFICES ASSUME Init
                 PROVE  (\A t \in Tracks : RowHeld(t)) /\ \A c \in Callers : RequestHeld(c)
        BY InitPinInv DEF HeldInv
    <2>1. \A t \in Tracks : ~Exists(t) /\ chosen[t] = None /\ planned[t] = NoPlan
        BY Apart DEF Init, Exists
    <2>2. \A c \in Callers : req[c] = Idle BY DEF Init
    <2> QED BY <2>1, <2>2, IdleCarries DEF RowHeld, ChoiceHeld, PlanHeld, RequestHeld
<1>2. HeldInv /\ [Next]_vars => HeldInv' BY HeldKept
<1> QED BY <1>1, <1>2, PTL DEF Spec

\* However many requests interleave, with installs, removals and rollbacks, only
\* the write of a request that had read the Track before the learner's choice was
\* stored takes the cards beyond it (TrackService.async_update_track,
\* async_integrate_pack_update, LearningPlanService.async_set_plan).
THEOREM WideningIsOvertaken == Spec => []OnlyOvertakenWiden
<1>1. HeldInv => OnlyOvertakenWiden
    BY DEF HeldInv, RowHeld, ChoiceHeld, OnlyOvertakenWiden
<1> QED BY <1>1, HeldAlways, PTL

\* However many requests interleave, a stored plan is undone only by an edit that
\* had read the settings before and writes them back whole.
THEOREM UndoingIsOvertaken == Spec => []OnlyOvertakenUndoPlans
<1>1. HeldInv => OnlyOvertakenUndoPlans
    BY DEF HeldInv, RowHeld, PlanHeld, OnlyOvertakenUndoPlans
<1> QED BY <1>1, HeldAlways, PTL
=============================================================================
