-------------------------------- MODULE ReviewLog --------------------------------
(***************************************************************************)
(* Review events and the progress they project to: ReviewEventService      *)
(* (core/reviews.py), ReviewEventsRepository and the create_if_absent of   *)
(* ProgressRepository (storage/repositories.py), with the deletions of a   *)
(* Track and of a profile.                                                 *)
(*                                                                         *)
(* A record call reads the profile, takes the time, reads the active       *)
(* content and then appends its event and overwrites the progress row in   *)
(* one transaction; other calls run at each of those awaits.  A post-state *)
(* snapshot is as good as the event that carries it, so a progress row     *)
(* holds the id of that event.                                             *)
(***************************************************************************)
EXTENDS Naturals, FiniteSets

CONSTANTS
    Recorders,      \* calls of async_record; a call's number is its event's id
    Tracks,
    Profiles,       \* the sets of Tracks that belong to one profile
    Cards,
    MaxInFlight,    \* how many record calls may overlap
    MaxTime,        \* bound on the clock
    ClockSteps,     \* may the system clock be set back?
    Creates,        \* may progress rows be created for cards not yet reviewed?
    Deletes         \* may a Track or a profile be deleted?

ASSUME ConstantsAssumption ==
    /\ Recorders \subseteq Nat \ {0}
    /\ UNION Profiles = Tracks
    /\ \A p, q \in Profiles : p # q => p \cap q = {}
    /\ {MaxInFlight, MaxTime} \subseteq Nat
    /\ {ClockSteps, Creates, Deletes} \subseteq BOOLEAN

Keys == Tracks \X Cards

VARIABLES
    events,         \* review_events
    progress,       \* progress: "none", a "new" row, or a snapshot
    clock,          \* the last time that was read
    pc,             \* where each record call is
    key,            \* its Track and card
    at,             \* its created_at_utc
    gone,           \* the Tracks deleted
    dead            \* the profiles deleted

vars == <<events, progress, clock, pc, key, at, gone, dead>>

Event(r) == [id |-> r, key |-> key[r], at |-> at[r]]
InFlight == {r \in Recorders : pc[r] \in {"profile", "found", "stamped", "queued"}}
Goto(r, l) == pc' = [pc EXCEPT ![r] = l]

\* A progress row: absent, as create_if_absent leaves it, or a snapshot.
Rows == {<<"none">>, <<"new">>} \cup ({"snapshot"} \X Recorders)
Snapshot(r) == <<"snapshot", r>>

TypeOK ==
    /\ events \subseteq [id : Recorders, key : Keys, at : Nat]
    /\ progress \in [Keys -> Rows]
    /\ clock \in Nat
    /\ pc \in [Recorders -> {"idle", "profile", "found", "stamped", "queued", "done", "failed"}]
    /\ key \in [Recorders -> Keys]
    /\ at \in [Recorders -> Nat]
    /\ gone \subseteq Tracks
    /\ dead \subseteq Profiles

Init ==
    /\ events = {}
    /\ progress = [k \in Keys |-> <<"none">>]
    /\ clock = 0
    /\ pc = [r \in Recorders |-> "idle"]
    /\ key \in [Recorders -> Keys]
    /\ at = [r \in Recorders |-> 0]
    /\ gone = {}
    /\ dead = {}

-----------------------------------------------------------------------------
(* async_record *)

\* A call for any card; its Track is not looked up, then or later.
Call(r) ==
    /\ pc[r] = "idle" /\ Cardinality(InFlight) < MaxInFlight
    /\ Goto(r, "profile")
    /\ UNCHANGED <<events, progress, clock, key, at, gone, dead>>

Owner(k, p) == k[1] \in p

ReadProfile(r) ==
    /\ pc[r] = "profile"
    /\ IF \E p \in dead : Owner(key[r], p)
       THEN Goto(r, "failed")
       ELSE Goto(r, "found")
    /\ UNCHANGED <<events, progress, clock, key, at, gone, dead>>

\* The event takes its time.  Two readings never agree to the microsecond.
Stamp(r) ==
    /\ pc[r] = "found"
    /\ \/ clock < MaxTime /\ clock' = clock + 1
       \/ ClockSteps /\ clock' \in 1..clock
    /\ at' = [at EXCEPT ![r] = clock']
    /\ Goto(r, "stamped")
    /\ UNCHANGED <<events, progress, key, gone, dead>>

\* The card may have left the active content, or the snapshot be incomplete.
Validate(r) ==
    /\ pc[r] = "stamped"
    /\ \E l \in {"queued", "failed"} : Goto(r, l)
    /\ UNCHANGED <<events, progress, clock, key, at, gone, dead>>

\* Mutant of Append: the projection is written by a job of its own, later.
AppendOnly(r) ==
    /\ events' = events \cup {Event(r)}
    /\ UNCHANGED progress

\* The transaction: the event, and the row it leaves behind.
Append(r) ==
    /\ events' = events \cup {Event(r)}
    /\ progress' = [progress EXCEPT ![key[r]] = Snapshot(r)]

\* It commits, or a constraint fails and all of it is rolled back.
Commit(r) ==
    /\ pc[r] = "queued"
    /\ \/ Append(r) /\ Goto(r, "done")
       \/ UNCHANGED <<events, progress>> /\ Goto(r, "failed")
    /\ UNCHANGED <<clock, key, at, gone, dead>>

-----------------------------------------------------------------------------
(* Projection *)

\* create_if_absent leaves an existing row alone.
CreateIfAbsent(k) ==
    /\ Creates /\ progress[k] = <<"none">>
    /\ progress' = [progress EXCEPT ![k] = <<"new">>]
    /\ UNCHANGED <<events, clock, pc, key, at, gone, dead>>

\* ORDER BY created_at_utc, id
Before(e, f) == e.at < f.at \/ (e.at = f.at /\ e.id < f.id)
EventsOf(k) == {e \in events : e.key = k}

Latest(k) == {e \in EventsOf(k) : \A f \in EventsOf(k) : e = f \/ Before(f, e)}

\* What the replay leaves in the row of a card.
RebuiltRow(k) ==
    IF EventsOf(k) = {} THEN {<<"none">>} ELSE {Snapshot(e.id) : e \in Latest(k)}

\* A rebuild is for everything, for a profile or for one Track.
Scopes == {Tracks} \cup Profiles \cup {{t} : t \in Tracks}

\* Mutant of Rebuild: the rows are deleted in every scope.
RebuildWipes(scope) ==
    /\ progress' \in {new \in [Keys -> Rows] : \A k \in Keys :
            IF k[1] \in scope THEN new[k] \in RebuiltRow(k) ELSE new[k] = <<"none">>}
    /\ UNCHANGED <<events, clock, pc, key, at, gone, dead>>

\* The rows of the scope are deleted and the last snapshots replayed, in one
\* transaction.
Rebuild(scope) ==
    /\ progress' \in {new \in [Keys -> Rows] : \A k \in Keys :
            IF k[1] \in scope THEN new[k] \in RebuiltRow(k) ELSE new[k] = progress[k]}
    /\ UNCHANGED <<events, clock, pc, key, at, gone, dead>>

\* The events and the rows of Tracks that are deleted go with them.
Erase(tracks) ==
    /\ events' = {e \in events : e.key[1] \notin tracks}
    /\ progress' = [k \in Keys |-> IF k[1] \in tracks THEN <<"none">> ELSE progress[k]]
    /\ gone' = gone \cup tracks
    /\ UNCHANGED <<clock, pc, key, at>>

DeleteTrack(t) ==
    /\ Deletes /\ t \notin gone
    /\ Erase({t})
    /\ UNCHANGED dead

\* A profile takes its Tracks with it.
DeleteProfile(p) ==
    /\ Deletes /\ p \notin dead
    /\ Erase(p)
    /\ dead' = dead \cup {p}

Next ==
    \/ \E r \in Recorders :
        Call(r) \/ ReadProfile(r) \/ Stamp(r) \/ Validate(r) \/ Commit(r)
    \/ \E k \in Keys : CreateIfAbsent(k)
    \/ \E scope \in Scopes : Rebuild(scope)
    \/ \E t \in Tracks : DeleteTrack(t)
    \/ \E p \in Profiles : DeleteProfile(p)

Spec == Init /\ [][Next]_vars

-----------------------------------------------------------------------------
(* Properties *)

\* "Review events are the audit source": a card with events has the snapshot
\* of one of its own events as its progress, and no row outlives its events.
ProjectionMatchesLog ==
    \A k \in Keys :
        /\ EventsOf(k) # {} => progress[k] \in {Snapshot(e.id) : e \in EventsOf(k)}
        /\ EventsOf(k) = {} => progress[k] \in {<<"none">>, <<"new">>}

\* A record call that returned has its event in the log until its Track or its
\* profile is deleted; one that raised left nothing behind.
AcknowledgedInLog ==
    \A r \in Recorders :
        /\ pc[r] = "done" =>
            \/ Event(r) \in events
            \/ key[r][1] \in gone
        /\ pc[r] # "done" => \A e \in events : e.id # r

\* "ReviewEvent is append-only audit state": an event leaves the log only when
\* its own Track or profile is deleted, never in a rebuild and never with
\* another's.
LogAppendOnly ==
    [][\A e \in events \ events' :
        \/ e.key[1] \in gone' \ gone
        \/ \E p \in dead' \ dead : Owner(e.key, p)]_vars

\* Progress departs from what a rebuild would make of the log only where an
\* event is committed behind a later one of its card, or where a row is created
\* without an event: no deletion, no rebuild of another scope and no other
\* record call can do it.
OnlyOvertakingDrifts ==
    [][\A k \in Keys :
        progress[k] \in RebuiltRow(k) =>
            \/ progress'[k] \in RebuiltRow(k)' \/ progress'[k] = <<"new">>
            \/ \E e \in events' \ events, f \in EventsOf(k) : e.key = k /\ Before(e, f)]_vars

-----------------------------------------------------------------------------
(* What the documents say and the code does not keep; see README *)

\* A rebuild restores what was applied (SPEC_V1.md:1783): wherever it ran, it
\* would leave the progress as it is.
RebuildChangesNothing == \A k \in Keys : progress[k] \in RebuiltRow(k)

\* SPEC_V1.md:4571: deleting a profile permanently removes its review events.
DeletedProfileLeavesNothing ==
    \A p \in dead : \A e \in events : ~Owner(e.key, p)
=============================================================================
