------------------------------- MODULE TrackPins -------------------------------
(***************************************************************************)
(* Tracks and the PackVersions they pin, across the two databases:         *)
(* core/tracks.py and core/planning.py read and write a track of state.db  *)
(* and resolve its cards in the active content generation, while           *)
(* datasets/manager.py installs, removes and rolls generations back.       *)
(*                                                                         *)
(* Each read and each transaction is a step of its own: no lock and no     *)
(* transaction spans two of them, and no foreign key crosses the databases.*)
(* A dataset with one pack and one PackVersion per dataset version stands  *)
(* for the catalog.  Rules are the set of card keys of a track's enabled   *)
(* rows, which always share one rule_kind.                                 *)
(***************************************************************************)
EXTENDS Naturals, Sequences, FiniteSets

CONSTANTS
    Tracks,         \* track ids
    Callers,        \* WebSocket handlers in progress
    Versions,       \* dataset versions, each with its PackVersion
    Cards,
    Directions,     \* (source, target) language pairs
    PackCards,      \* the cards of the items each PackVersion lists
    PackageCards,   \* the cards each dataset version defines as active
    DirectionOf,    \* the direction of a card
    Choices,        \* the explicit selections the callers make
    Plans,          \* learning plans; NoPlan: a track has none stored yet
    NoPlan,
    None,
    MaxGenerations, \* bound on the generations that become active
    Rollbacks,      \* may the retained generation be reactivated?
    Ops             \* the operations the callers use

ASSUME DataAssumption ==
    /\ PackCards \in [Versions -> SUBSET Cards]
    /\ PackageCards \in [Versions -> SUBSET Cards]
    /\ DirectionOf \in [Cards -> Directions]
    /\ Choices \subseteq (SUBSET Cards) \ {{}}
    /\ NoPlan \in Plans
    /\ None \notin Versions /\ None \notin Directions
    /\ \A choice \in SUBSET Cards : choice # None
    /\ MaxGenerations \in Nat \ {0}
    /\ Rollbacks \in BOOLEAN

VARIABLES
    track,          \* rows of tracks, track_pack_versions and track_card_rules
    gens,           \* the generations activated so far, in order
    active,         \* the one readers see
    retained,       \* the one a rollback returns to, 0 for none
    manager,        \* the dataset operation that holds DatasetManager._lock
    req,            \* the request each caller executes
    chosen,         \* history: the explicit cards last committed for a track
    planned,        \* history: the plan last committed for a track
    repinned,       \* history: tracks pinned since the removal's check
    overtaken,      \* history: what other requests stored for its track since a
                    \* request read it
    lost            \* history: what overtaken requests have written over since it
                    \* was last stored

trackVars == <<track, chosen, planned, repinned, lost>>
contentVars == <<gens, active, retained, manager>>
callVars == <<req, overtaken>>
vars == <<trackVars, contentVars, callVars>>

Modes == {"direction", "explicit"}
Kinds == {"direction_card", "explicit_card"}
TrackRow == [pin : Versions, gen : Nat, mode : Modes, direction : Directions,
             plan : Plans, kind : Kinds, rules : (SUBSET Cards) \ {{}}]
Absent == [row |-> "absent"]
Deleted == [row |-> "deleted"]
Exists(t) == track[t] \in TrackRow

\* What a learner stores for a track and a request writes back.
Parts == {"choice", "plan"}

Generation == [known : SUBSET Versions, installed : Versions \cup {None}]
Idle == [at |-> "idle"]

TypeOK ==
    /\ \A t \in Tracks : Exists(t) \/ track[t] \in {Absent, Deleted}
    /\ gens \in Seq(Generation) /\ Len(gens) <= MaxGenerations
    /\ active \in 1..Len(gens) /\ retained \in 0..Len(gens)
    /\ manager.at \in {"idle", "checked", "built"}
    /\ \A c \in Callers : req[c].at \in
           {"idle", "info", "cards", "insert", "read", "rules", "write",
            "current", "target", "reread", "recheck"}
    /\ chosen \in [Tracks -> (SUBSET Cards) \cup {None}]
    /\ planned \in [Tracks -> Plans]
    /\ repinned \subseteq Tracks
    /\ overtaken \in [Callers -> SUBSET Parts]
    /\ lost \in [Tracks -> SUBSET Parts]

Known == gens[active].known
Installed == gens[active].installed

\* Active cards of a PackVersion: its items that are active in the catalog,
\* with the cards the installed package defines for them.
Active(v) == IF Installed = None THEN {} ELSE PackCards[v] \cap PackageCards[Installed]

\* async_resolve_direction_cards and async_cards_in_pack
DirectionCards(v, d) == {c \in Active(v) : DirectionOf[c] = d}
CardsInPack(v, keys) == keys \cap Active(v)

-----------------------------------------------------------------------------
(* DatasetManager: one operation at a time, under _lock *)

\* An operation past the bound could only fail.
MayBegin == manager = Idle /\ Len(gens) < MaxGenerations

\* async_install refuses the version that is installed.
BeginInstall(v) ==
    /\ MayBegin /\ Installed # v
    /\ manager' = [at |-> "checked", op |-> "install", installed |-> v]
    /\ UNCHANGED <<trackVars, gens, active, retained, callVars>>

\* async_remove compares the dataset's PackVersions with every pin there is.
Referenced == {track[t].pin : t \in {u \in Tracks : Exists(u)}}
\* Mutant of BeginRemove: the reference check is dropped.
BeginRemoveUnchecked ==
    /\ MayBegin /\ Installed # None
    /\ manager' = [at |-> "checked", op |-> "remove", installed |-> None]
    /\ repinned' = {}
    /\ UNCHANGED <<track, chosen, planned, lost, gens, active, retained, callVars>>
BeginRemove ==
    /\ MayBegin /\ Installed # None
    /\ Known \cap Referenced = {}
    /\ manager' = [at |-> "checked", op |-> "remove", installed |-> None]
    /\ repinned' = {}
    /\ UNCHANGED <<track, chosen, planned, lost, gens, active, retained, callVars>>

\* The builder starts from a copy of the active generation, whose PackVersion
\* rows it keeps, and merges the packages that stay installed.
CandidateKnown(v) == Known \cup ({v} \ {None})
Build ==
    /\ manager.at = "checked"
    /\ manager' = [at |-> "built", op |-> manager.op, parent |-> active,
                   known |-> CandidateKnown(manager.installed),
                   installed |-> manager.installed]
    /\ UNCHANGED <<trackVars, gens, active, retained, callVars>>

\* Activation is refused unless the candidate's parent is still active.
Activate ==
    /\ manager.at = "built" /\ manager.parent = active
    /\ Len(gens) < MaxGenerations
    /\ gens' = Append(gens, [known |-> manager.known, installed |-> manager.installed])
    /\ active' = Len(gens) + 1 /\ retained' = active
    /\ manager' = Idle
    /\ UNCHANGED <<trackVars, callVars>>

\* A download, a validation, the build or the activation fails, or the request
\* is cancelled: the candidate is deleted.
ManagerFails ==
    /\ manager # Idle
    /\ manager' = Idle
    /\ UNCHANGED <<trackVars, gens, active, retained, callVars>>

\* async_rollback looks at no pin.
Rollback ==
    /\ Rollbacks /\ manager = Idle /\ retained # 0
    /\ active' = retained /\ retained' = active
    /\ UNCHANGED <<trackVars, gens, manager, callVars>>

-----------------------------------------------------------------------------
(* What every request does.  A handler first checks the permission on the   *)
(* track, which must exist.                                                *)

Begin(c, op, r) ==
    /\ op \in Ops /\ req[c] = Idle
    /\ req' = [req EXCEPT ![c] = r]
    /\ UNCHANGED <<trackVars, contentVars, overtaken>>

At(c, op, step) == req[c] # Idle /\ req[c].op = op /\ req[c].at = step
Goto(c, r) ==
    /\ req' = [req EXCEPT ![c] = r]
    /\ UNCHANGED <<trackVars, contentVars, overtaken>>
Return(c) == req' = [req EXCEPT ![c] = Idle]
Fail(c) ==
    /\ Return(c)
    /\ overtaken' = [overtaken EXCEPT ![c] = {}]
    /\ UNCHANGED <<trackVars, contentVars>>

\* The request continues with r when the condition it read holds; else it ends
\* in an error.
Continue(c, condition, r) == IF condition THEN Goto(c, r) ELSE Fail(c)

\* A selection is committed with a pin, a mode or rules that are all new, so
\* the histories record what the learner was told is stored.
Explicitly(t, choice) ==
    chosen' = IF choice = None THEN chosen ELSE [chosen EXCEPT ![t] = choice]

\* The requests that go on from what they read of the track.
Reading(t) ==
    {c \in Callers : /\ req[c].at \in {"recheck", "rules", "cards", "write"}
                     /\ req[c].op # "create" /\ req[c].t = t}

\* The transaction of c stores some parts of the track and writes others back:
\* the requests that read it before are overtaken, and what had overtaken c is
\* lost where c writes it back.
WritesBack(c, t, stored, back) ==
    /\ lost' = [lost EXCEPT ![t] = (@ \ stored) \cup (overtaken[c] \cap back)]
    /\ overtaken' = [d \in Callers |->
           IF d = c THEN {} ELSE IF d \in Reading(t) THEN overtaken[d] \cup stored
           ELSE overtaken[d]]

-----------------------------------------------------------------------------
(* async_create_track *)

RequestCreate(c, t, v, d, choice) ==
    /\ track[t] = Absent
    /\ Begin(c, "create",
             [at |-> "info", op |-> "create", t |-> t, v |-> v, d |-> d, choice |-> choice])

\* async_pack_version_info reads the PackVersion and the generation at once.
CreateInfo(c) ==
    /\ At(c, "create", "info")
    /\ LET r == req[c] IN
       Continue(c, r.v \in Known,
                [at |-> "cards", op |-> "create", t |-> r.t, v |-> r.v, d |-> r.d,
                 choice |-> r.choice, gen |-> active])

\* Every requested card must be active in the pack; without a choice the
\* direction decides.  An empty selection is refused.
Selection(v, d, choice) == IF choice = None THEN DirectionCards(v, d) ELSE CardsInPack(v, choice)
Complete(v, choice) == choice = None \/ choice \subseteq Active(v)

CreateCards(c) ==
    /\ At(c, "create", "cards")
    /\ LET r == req[c]
           cards == Selection(r.v, r.d, r.choice)
       IN Continue(c, Complete(r.v, r.choice) /\ cards # {},
                   [at |-> "insert", op |-> "create", t |-> r.t, v |-> r.v, d |-> r.d,
                    choice |-> r.choice, gen |-> r.gen, cards |-> cards])

\* Mutant of NewRow: the generation is the one active at the insert.
NewRowLateGeneration(r) ==
    [pin |-> r.v, gen |-> active, direction |-> r.d, plan |-> NoPlan,
     mode |-> IF r.choice = None THEN "direction" ELSE "explicit",
     kind |-> IF r.choice = None THEN "direction_card" ELSE "explicit_card",
     rules |-> r.cards]
NewRow(r) ==
    [pin |-> r.v, gen |-> r.gen, direction |-> r.d, plan |-> NoPlan,
     mode |-> IF r.choice = None THEN "direction" ELSE "explicit",
     kind |-> IF r.choice = None THEN "direction_card" ELSE "explicit_card",
     rules |-> r.cards]
\* The id is fresh: the factory draws a new one for every create.
CreateInsert(c) ==
    /\ At(c, "create", "insert")
    /\ LET r == req[c] IN
       IF track[r.t] # Absent THEN Fail(c) ELSE
       /\ track' = [track EXCEPT ![r.t] = NewRow(r)]
       /\ Explicitly(r.t, r.choice)
       /\ repinned' = repinned \cup {r.t}
       /\ Return(c)
       /\ UNCHANGED <<planned, lost, overtaken, contentVars>>

-----------------------------------------------------------------------------
(* async_update_track: a new selection (choice), a new direction (turn), or    *)
(* neither (a new name, status, priority or weight)                            *)

RequestUpdate(c, t, turn, choice) ==
    /\ Exists(t)
    /\ Begin(c, "update",
             [at |-> "read", op |-> "update", t |-> t, turn |-> turn, choice |-> choice])

\* async_get reads the row and its pin; the cards come from the choice, from the
\* direction, or from the rules of an explicit track.
UpdateRead(c) ==
    /\ At(c, "update", "read")
    /\ LET r == req[c]
           row == track[r.t]
           d == IF r.turn = None THEN row.direction ELSE r.turn
           explicit == r.choice # None \/ row.mode = "explicit"
       IN IF ~Exists(r.t) THEN Fail(c) ELSE
          Goto(c, [at |-> IF r.choice = None /\ explicit THEN "rules" ELSE "cards",
                   op |-> "update", t |-> r.t, choice |-> r.choice,
                   pin |-> row.pin, d |-> d, plan |-> row.plan, keys |-> r.choice,
                   mode |-> IF explicit THEN "explicit" ELSE "direction"])

RulesOf(t) == IF Exists(t) THEN track[t].rules ELSE {}
UpdateRules(c) ==
    /\ At(c, "update", "rules")
    /\ Goto(c, [req[c] EXCEPT !.at = "cards", !.keys = RulesOf(req[c].t)])

\* Only the cards of a new choice must all be there.
UpdateCards(c) ==
    /\ At(c, "update", "cards")
    /\ LET r == req[c]
           cards == Selection(r.pin, r.d, r.keys)
       IN Continue(c, Complete(r.pin, r.choice) /\ cards # {},
                   [at |-> "write", op |-> "update", t |-> r.t, choice |-> r.choice,
                    d |-> r.d, plan |-> r.plan, mode |-> r.mode, cards |-> cards])

\* async_update_configured: settings and rules are replaced, the pin is not
\* looked at.  A track that is gone is an error.
KindOf(mode) == IF mode = "explicit" THEN "explicit_card" ELSE "direction_card"
\* Mutant of Updated: the settings are rebuilt instead of extended.
UpdatedSettings(row, r) ==
    [row EXCEPT !.direction = r.d, !.mode = r.mode, !.plan = NoPlan, !.rules = r.cards,
                !.kind = KindOf(r.mode)]
Updated(row, r) ==
    [row EXCEPT !.direction = r.d, !.mode = r.mode, !.plan = r.plan, !.rules = r.cards,
                !.kind = KindOf(r.mode)]
UpdateWrite(c) ==
    /\ At(c, "update", "write")
    /\ LET r == req[c] IN
       IF ~Exists(r.t) THEN Fail(c) ELSE
       /\ track' = [track EXCEPT ![r.t] = Updated(@, r)]
       /\ Explicitly(r.t, r.choice)
       /\ IF r.choice = None THEN WritesBack(c, r.t, {}, {"choice", "plan"})
          ELSE WritesBack(c, r.t, {"choice"}, {"plan"})
       /\ Return(c)
       /\ UNCHANGED <<planned, repinned, contentVars>>

-----------------------------------------------------------------------------
(* async_integrate_pack_update, which begins with the preview of the update *)

RequestIntegrate(c, t, v) ==
    /\ Exists(t)
    /\ Begin(c, "integrate", [at |-> "read", op |-> "integrate", t |-> t, v |-> v])

IntegrateRead(c) ==
    /\ At(c, "integrate", "read")
    /\ LET r == req[c] IN
       IF ~Exists(r.t) THEN Fail(c) ELSE
       Continue(c, track[r.t].pin # r.v,
                [at |-> "current", op |-> "integrate", t |-> r.t, v |-> r.v,
                 pin |-> track[r.t].pin])

\* The preview needs both PackVersions in the catalog.
IntegrateCurrent(c) ==
    /\ At(c, "integrate", "current")
    /\ LET r == req[c] IN
       Continue(c, r.pin \in Known, [at |-> "target", op |-> "integrate", t |-> r.t, v |-> r.v])

IntegrateTarget(c) ==
    /\ At(c, "integrate", "target")
    /\ Continue(c, req[c].v \in Known, [req[c] EXCEPT !.at = "reread"])

\* The track is read again for its mode and direction, and the target for the
\* generation to record.
IntegrateReread(c) ==
    /\ At(c, "integrate", "reread")
    /\ LET r == req[c]
           row == track[r.t]
       IN IF ~Exists(r.t) THEN Fail(c) ELSE
          Goto(c, [at |-> "recheck", op |-> "integrate", t |-> r.t, v |-> r.v,
                   mode |-> row.mode, d |-> row.direction])

\* Mutant of IntegrateRecheck: the direction decides for every track.
IntegrateRecheckDirection(c) ==
    /\ At(c, "integrate", "recheck")
    /\ LET r == req[c] IN
       Continue(c, r.v \in Known,
                [at |-> "cards", op |-> "integrate", t |-> r.t, v |-> r.v, mode |-> r.mode,
                 d |-> r.d, gen |-> active, keys |-> None])
IntegrateRecheck(c) ==
    /\ At(c, "integrate", "recheck")
    /\ LET r == req[c] IN
       Continue(c, r.v \in Known,
                [at |-> IF r.mode = "explicit" THEN "rules" ELSE "cards",
                 op |-> "integrate", t |-> r.t, v |-> r.v, mode |-> r.mode, d |-> r.d,
                 gen |-> active, keys |-> None])

ExplicitRules(t) ==
    IF Exists(t) /\ track[t].kind = "explicit_card" THEN track[t].rules ELSE {}
IntegrateRules(c) ==
    /\ At(c, "integrate", "rules")
    /\ Goto(c, [req[c] EXCEPT !.at = "cards", !.keys = ExplicitRules(req[c].t)])

\* A card of the explicit selection that is missing blocks the integration, and
\* so does a selection without cards.
IntegrateCards(c) ==
    /\ At(c, "integrate", "cards")
    /\ LET r == req[c]
           cards == Selection(r.v, r.d, r.keys)
       IN Continue(c, Complete(r.v, r.keys) /\ cards # {},
                   [at |-> "write", op |-> "integrate", t |-> r.t, v |-> r.v,
                    mode |-> r.mode, gen |-> r.gen, cards |-> cards])

\* async_integrate_pack_version: pin and rules in one transaction.  On a deleted
\* track the rules violate their foreign key.
\* Mutant of Integrated: the rules are left to another transaction.
IntegratedPinOnly(row, r) == [row EXCEPT !.pin = r.v, !.gen = r.gen]
Integrated(row, r) ==
    [row EXCEPT !.pin = r.v, !.gen = r.gen, !.rules = r.cards, !.kind = KindOf(r.mode)]
IntegrateWrite(c) ==
    /\ At(c, "integrate", "write")
    /\ LET r == req[c] IN
       IF ~Exists(r.t) THEN Fail(c) ELSE
       /\ track' = [track EXCEPT ![r.t] = Integrated(@, r)]
       /\ repinned' = repinned \cup {r.t}
       /\ WritesBack(c, r.t, {}, {"choice"})
       /\ Return(c)
       /\ UNCHANGED <<chosen, planned, contentVars>>

-----------------------------------------------------------------------------
(* LearningPlanService.async_set_plan and async_delete_track *)

RequestPlan(c, t, plan) ==
    /\ Exists(t)
    /\ Begin(c, "plan", [at |-> "read", op |-> "plan", t |-> t, plan |-> plan])

\* The plan is added to a copy of the settings, which hold the mode as well.
PlanRead(c) ==
    /\ At(c, "plan", "read")
    /\ LET r == req[c] IN
       IF ~Exists(r.t) THEN Fail(c) ELSE
       Goto(c, [at |-> "write", op |-> "plan", t |-> r.t, plan |-> r.plan,
                mode |-> track[r.t].mode])

\* Mutant of PlanWrite: the settings are upserted without looking for the row.
PlanWriteUpsert(c) ==
    /\ At(c, "plan", "write")
    /\ LET r == req[c] IN
       /\ track' = [track EXCEPT ![r.t] =
              IF Exists(r.t) THEN [@ EXCEPT !.plan = r.plan, !.mode = r.mode]
              ELSE [pin |-> CHOOSE v \in Versions : TRUE, gen |-> active, mode |-> r.mode,
                    direction |-> CHOOSE d \in Directions : TRUE, plan |-> r.plan,
                    kind |-> "direction_card", rules |-> Cards]]
       /\ planned' = [planned EXCEPT ![r.t] = r.plan]
       /\ WritesBack(c, r.t, {"plan"}, {"choice"})
       /\ Return(c)
       /\ UNCHANGED <<chosen, repinned, contentVars>>
PlanWrite(c) ==
    /\ At(c, "plan", "write")
    /\ LET r == req[c] IN
       IF ~Exists(r.t) THEN Fail(c) ELSE
       /\ track' = [track EXCEPT ![r.t] = [@ EXCEPT !.plan = r.plan, !.mode = r.mode]]
       /\ planned' = [planned EXCEPT ![r.t] = r.plan]
       /\ WritesBack(c, r.t, {"plan"}, {"choice"})
       /\ Return(c)
       /\ UNCHANGED <<chosen, repinned, contentVars>>

Delete(c, t) ==
    /\ "delete" \in Ops /\ req[c] = Idle
    /\ Exists(t)
    /\ track' = [track EXCEPT ![t] = Deleted]
    /\ chosen' = [chosen EXCEPT ![t] = None]
    /\ planned' = [planned EXCEPT ![t] = NoPlan]
    /\ lost' = [lost EXCEPT ![t] = {}]
    /\ UNCHANGED <<repinned, contentVars, callVars>>

-----------------------------------------------------------------------------
\* The first dataset version is installed and no track exists.
Init ==
    /\ track = [t \in Tracks |-> Absent]
    /\ \E v \in Versions : gens = << [known |-> {v}, installed |-> v] >>
    /\ active = 1 /\ retained = 0
    /\ manager = Idle
    /\ req = [c \in Callers |-> Idle]
    /\ chosen = [t \in Tracks |-> None]
    /\ planned = [t \in Tracks |-> NoPlan]
    /\ repinned = {}
    /\ overtaken = [c \in Callers |-> {}]
    /\ lost = [t \in Tracks |-> {}]

Requests(c) ==
    \E t \in Tracks :
        \/ \E v \in Versions, d \in Directions, choice \in Choices \cup {None} :
               RequestCreate(c, t, v, d, choice)
        \/ \E turn \in Directions \cup {None}, choice \in Choices \cup {None} :
               RequestUpdate(c, t, turn, choice)
        \/ \E v \in Versions : RequestIntegrate(c, t, v)
        \/ \E plan \in Plans \ {NoPlan} : RequestPlan(c, t, plan)
        \/ Delete(c, t)

Steps(c) ==
    \/ CreateInfo(c) \/ CreateCards(c) \/ CreateInsert(c)
    \/ UpdateRead(c) \/ UpdateRules(c) \/ UpdateCards(c) \/ UpdateWrite(c)
    \/ IntegrateRead(c) \/ IntegrateCurrent(c) \/ IntegrateTarget(c)
    \/ IntegrateReread(c) \/ IntegrateRecheck(c) \/ IntegrateRules(c)
    \/ IntegrateCards(c) \/ IntegrateWrite(c)
    \/ PlanRead(c) \/ PlanWrite(c)

Datasets ==
    \/ \E v \in Versions : BeginInstall(v)
    \/ BeginRemove \/ Build \/ Activate \/ ManagerFails \/ Rollback

Next == Datasets \/ \E c \in Callers : Requests(c) \/ Steps(c)

Spec == Init /\ [][Next]_vars

-----------------------------------------------------------------------------
\* A track's pin is a PackVersion of the active catalog, so its cards can be
\* resolved and previewed (DATA_UPDATES.md: updates retain historical
\* PackVersions).
PinsKnown == \A t \in Tracks : Exists(t) => track[t].pin \in Known

\* The dataset_generation stored beside a pin is a generation that contained the
\* pinned PackVersion, whatever was installed or rolled back in between.
RecordedGenerationHadPin ==
    \A t \in Tracks : Exists(t) => track[t].pin \in gens[track[t].gen].known

\* ADR-0020: pin and rules are one selection.  The rules only name cards of the
\* pinned PackVersion, and cards a direction selected run in that direction.
RulesFollowPin ==
    \A t \in Tracks : Exists(t) =>
        /\ track[t].rules \subseteq PackCards[track[t].pin]
        /\ track[t].kind = "direction_card" =>
               \A c \in track[t].rules : DirectionOf[c] = track[t].direction

\* Explicit rules and explicit mode go together, so that the next integration
\* treats the selection as what it is.
ModeMatchesRules ==
    \A t \in Tracks : Exists(t) => (track[t].mode = "explicit" <=> track[t].kind = "explicit_card")

\* The selection a Track stores in three places is one selection, of a version
\* its catalog knows, through updates, integrations, installs and removals.
SelectionConsistent == PinsKnown /\ RulesFollowPin /\ ModeMatchesRules

\* The cards of a track go beyond the learner's explicit choice only by the write
\* of a request that read the track before the choice was stored: an integration
\* or an edit that read it afterwards narrows the choice or keeps it.
OnlyOvertakenWiden ==
    \A t \in Tracks : Exists(t) /\ chosen[t] # None /\ "choice" \notin lost[t]
        => track[t].rules \subseteq chosen[t]

\* A plan is replaced by the next plan, or by an edit that read the settings
\* before the plan was stored and writes them back whole: by nothing else.
OnlyOvertakenUndoPlans ==
    \A t \in Tracks : Exists(t) /\ "plan" \notin lost[t] => track[t].plan = planned[t]

\* A removal spares every pin that was there when it checked: only a track
\* pinned after the check can be left with a removed dataset.
RemovalSparesCheckedPins ==
    [][Installed # None /\ Installed' = None /\ active' > Len(gens)
           => \A t \in Tracks : Exists(t) => t \in repinned]_vars

\* No request that was under way brings a deleted track back.
DeletedForGood ==
    [][\A t \in Tracks : track[t] = Deleted => track'[t] = Deleted]_vars

-----------------------------------------------------------------------------
(* What the documents say and the code does not keep; see README *)

\* ADR-0020: an explicit choice is never silently dropped.
ChoiceKept ==
    \A t \in Tracks : Exists(t) /\ chosen[t] # None => track[t].rules = chosen[t]

\* A track whose cards the learner chose never shows a card outside the choice.
ChoiceNotWidened ==
    \A t \in Tracks : Exists(t) /\ chosen[t] # None => track[t].rules \subseteq chosen[t]

\* The plan a track has is the one last stored for it.
PlanKept == \A t \in Tracks : Exists(t) => track[t].plan = planned[t]

\* ADR-0016: no removal takes effect while a track pins the dataset.
RemovalUnreferenced ==
    [][\A v \in Known : Installed # None /\ Installed' = None /\ active' > Len(gens)
           => \A t \in Tracks : Exists(t) => track[t].pin # v]_vars

\* Cards enter an existing track by a choice, a direction or an integration
\* (ADR-0020: a pack update cannot silently inject new cards).
NoInjection ==
    [][\A t \in Tracks : Exists(t) /\ Exists(t)'
           /\ track'[t].pin = track[t].pin /\ track'[t].direction = track[t].direction
           /\ chosen'[t] = chosen[t]
           => track'[t].rules \subseteq track[t].rules]_vars
=============================================================================
