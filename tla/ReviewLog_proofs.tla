---------------------------- MODULE ReviewLog_proofs ----------------------------
(***************************************************************************)
(* Proofs about the review log, for every set of calls, Tracks, profiles   *)
(* and cards, any overlap of the calls and any movement of the clock.      *)
(***************************************************************************)
EXTENDS ReviewLog, TLAPS

-----------------------------------------------------------------------------
(* Type correctness *)

LEMMA InitType == Init => TypeOK
BY ConstantsAssumption DEF Init, TypeOK, Rows, Keys

LEMMA RecordType ==
    ASSUME TypeOK, NEW r \in Recorders,
           Call(r) \/ ReadProfile(r) \/ Stamp(r) \/ Validate(r) \/ Commit(r)
    PROVE  TypeOK'
<1> USE ConstantsAssumption DEF TypeOK, Goto
<1>1. CASE Call(r) BY <1>1 DEF Call
<1>2. CASE ReadProfile(r) BY <1>2 DEF ReadProfile
<1>3. CASE Stamp(r)
    <2>1. clock' \in Nat BY <1>3 DEF Stamp
    <2> QED BY <1>3, <2>1 DEF Stamp
<1>4. CASE Validate(r) BY <1>4 DEF Validate
<1>5. CASE Commit(r)
    <2>1. CASE Append(r) /\ Goto(r, "done")
        <3>1. Event(r) \in [id : Recorders, key : Keys, at : Nat] BY DEF Event
        <3>2. Snapshot(r) \in Rows BY DEF Snapshot, Rows
        <3> QED BY <1>5, <2>1, <3>1, <3>2 DEF Commit, Append
    <2>2. CASE UNCHANGED <<events, progress>> /\ Goto(r, "failed")
        BY <1>5, <2>2 DEF Commit
    <2> QED BY <1>5, <2>1, <2>2 DEF Commit
<1> QED BY <1>1, <1>2, <1>3, <1>4, <1>5

LEMMA EraseType ==
    ASSUME TypeOK, NEW tracks \in SUBSET Tracks, Erase(tracks), dead' \subseteq Profiles
    PROVE  TypeOK'
BY DEF TypeOK, Erase, Rows

LEMMA NextType == TypeOK /\ [Next]_vars => TypeOK'
<1> SUFFICES ASSUME TypeOK, [Next]_vars PROVE TypeOK'
    OBVIOUS
<1>1. CASE UNCHANGED vars BY <1>1 DEF vars, TypeOK
<1>2. CASE \E r \in Recorders :
        Call(r) \/ ReadProfile(r) \/ Stamp(r) \/ Validate(r) \/ Commit(r)
    BY <1>2, RecordType
<1>3. CASE \E k \in Keys : CreateIfAbsent(k)
    BY <1>3 DEF CreateIfAbsent, TypeOK, Rows
<1>4. CASE \E scope \in Scopes : Rebuild(scope)
    <2>1. progress' \in [Keys -> Rows] BY <1>4 DEF Rebuild
    <2> QED BY <1>4, <2>1 DEF Rebuild, TypeOK
<1>5. CASE \E t \in Tracks : DeleteTrack(t)
    <2>1. PICK t \in Tracks : DeleteTrack(t) BY <1>5
    <2> QED BY <2>1, EraseType DEF DeleteTrack, TypeOK
<1>6. CASE \E p \in Profiles : DeleteProfile(p)
    <2>1. PICK p \in Profiles : DeleteProfile(p) BY <1>6
    <2>2. p \in SUBSET Tracks BY ConstantsAssumption
    <2> QED BY <2>1, <2>2, EraseType DEF DeleteProfile, TypeOK
<1> QED BY <1>1, <1>2, <1>3, <1>4, <1>5, <1>6 DEF Next

\* Every variable keeps its type (core/reviews.py and storage/schema.py:106-196).
THEOREM TypeCorrect == Spec => []TypeOK
BY InitType, NextType, PTL DEF Spec

-----------------------------------------------------------------------------
(* The log *)

\* Every event in the log is the one its own call appended before it returned.
LogWritten == \A e \in events : e.id \in Recorders /\ pc[e.id] = "done" /\ e = Event(e.id)

\* A call that returned has its event in the log or lost it with its Track.
Returned ==
    \A r \in Recorders : pc[r] = "done" => Event(r) \in events \/ key[r][1] \in gone

LogInv == LogWritten /\ Returned /\ ProjectionMatchesLog

LEMMA LogInvImplies == LogInv => AcknowledgedInLog
BY DEF LogInv, LogWritten, Returned, AcknowledgedInLog

LEMMA InitLog == Init => LogInv
BY DEF Init, LogInv, LogWritten, Returned, ProjectionMatchesLog, EventsOf

\* A call that does not append moves no event: only calls that have not
\* returned take their time.
LEMMA CallLog ==
    ASSUME TypeOK, LogInv, NEW r \in Recorders,
           pc[r] # "done", UNCHANGED <<events, progress, key, gone>>,
           NEW l \in {"profile", "found", "stamped", "queued", "failed"}, Goto(r, l),
           \A s \in Recorders \ {r} : at'[s] = at[s]
    PROVE  LogInv'
<1>1. \A s \in Recorders \ {r} : pc'[s] = pc[s] /\ Event(s)' = Event(s)
    BY DEF TypeOK, Goto, Event
<1>2. \A e \in events : e.id \in Recorders \ {r} BY DEF LogInv, LogWritten
<1>3. pc'[r] # "done" BY DEF TypeOK, Goto
<1>4. LogWritten' BY <1>1, <1>2 DEF LogInv, LogWritten
<1>5. Returned' BY <1>1, <1>3 DEF LogInv, Returned
<1>6. ProjectionMatchesLog' BY DEF LogInv, ProjectionMatchesLog, EventsOf
<1> QED BY <1>4, <1>5, <1>6 DEF LogInv

LEMMA CommitLog ==
    ASSUME TypeOK, LogInv, NEW r \in Recorders, Commit(r), Append(r), Goto(r, "done")
    PROVE  LogInv'
<1>1. UNCHANGED <<key, at, gone>> /\ pc[r] # "done" BY DEF Commit
<1>2. \A s \in Recorders : Event(s)' = Event(s) BY <1>1 DEF Event
<1>3. /\ \A s \in Recorders \ {r} : pc'[s] = pc[s]
      /\ pc'[r] = "done"
    BY DEF TypeOK, Goto
<1>4. events' = events \cup {Event(r)} BY DEF Append
<1>5. Event(r).id = r /\ Event(r).key = key[r] BY DEF Event
<1>6. LogWritten' BY <1>2, <1>3, <1>4, <1>5 DEF LogInv, LogWritten
<1>7. Returned' BY <1>1, <1>2, <1>3, <1>4 DEF LogInv, Returned
<1>8. ASSUME NEW k \in Keys
      PROVE  /\ EventsOf(k)' # {} => progress'[k] \in {Snapshot(e.id) : e \in EventsOf(k)'}
             /\ EventsOf(k)' = {} => progress'[k] \in {<<"none">>, <<"new">>}
    <2>1. CASE k = key[r]
        <3>1. Event(r) \in EventsOf(k)' BY <1>4, <1>5, <2>1 DEF EventsOf
        <3>2. progress'[k] = Snapshot(r) BY <2>1 DEF TypeOK, Append
        <3> QED BY <1>5, <3>1, <3>2
    <2>2. CASE k # key[r]
        <3>1. EventsOf(k)' = EventsOf(k) BY <1>4, <1>5, <2>2 DEF EventsOf
        <3>2. progress'[k] = progress[k] BY <2>2 DEF TypeOK, Append
        <3> QED BY <3>1, <3>2 DEF LogInv, ProjectionMatchesLog
    <2> QED BY <2>1, <2>2
<1> QED BY <1>6, <1>7, <1>8 DEF LogInv, ProjectionMatchesLog

LEMMA EraseLog ==
    ASSUME TypeOK, LogInv, NEW tracks \in SUBSET Tracks, Erase(tracks)
    PROVE  LogInv'
<1>1. UNCHANGED <<pc, key, at>> BY DEF Erase
<1>2. events' = {e \in events : e.key[1] \notin tracks} BY DEF Erase
<1>3. \A r \in Recorders : Event(r)' = Event(r) /\ Event(r).key = key[r] BY <1>1 DEF Event
<1>4. LogWritten' BY <1>1, <1>2, <1>3 DEF LogInv, LogWritten
<1>5. Returned'
    <2> SUFFICES ASSUME NEW r \in Recorders, pc'[r] = "done"
                 PROVE  Event(r)' \in events' \/ key'[r][1] \in gone'
        BY DEF Returned
    <2>1. Event(r) \in events \/ key[r][1] \in gone BY <1>1 DEF LogInv, Returned
    <2> QED BY <1>1, <1>2, <1>3, <2>1 DEF Erase
<1>6. ASSUME NEW k \in Keys
      PROVE  /\ EventsOf(k)' # {} => progress'[k] \in {Snapshot(e.id) : e \in EventsOf(k)'}
             /\ EventsOf(k)' = {} => progress'[k] \in {<<"none">>, <<"new">>}
    <2>1. CASE k[1] \in tracks
        <3>1. EventsOf(k)' = {} BY <1>2, <2>1 DEF EventsOf
        <3>2. progress'[k] = <<"none">> BY <2>1 DEF Erase
        <3> QED BY <3>1, <3>2
    <2>2. CASE k[1] \notin tracks
        <3>1. EventsOf(k)' = EventsOf(k) BY <1>2, <2>2 DEF EventsOf
        <3>2. progress'[k] = progress[k] BY <2>2 DEF Erase
        <3> QED BY <3>1, <3>2 DEF LogInv, ProjectionMatchesLog
    <2> QED BY <2>1, <2>2
<1> QED BY <1>4, <1>5, <1>6 DEF LogInv, ProjectionMatchesLog

\* Whatever its scope, the replay only uses snapshots the log holds.
LEMMA RebuildLog ==
    ASSUME TypeOK, LogInv, NEW scope, Rebuild(scope)
    PROVE  LogInv'
<1>1. UNCHANGED <<events, pc, key, at, gone>> BY DEF Rebuild
<1>2. LogWritten' /\ Returned' BY <1>1 DEF LogInv, LogWritten, Returned, Event
<1>3. ASSUME NEW k \in Keys
      PROVE  /\ EventsOf(k)' # {} => progress'[k] \in {Snapshot(e.id) : e \in EventsOf(k)'}
             /\ EventsOf(k)' = {} => progress'[k] \in {<<"none">>, <<"new">>}
    <2>1. EventsOf(k)' = EventsOf(k) BY <1>1 DEF EventsOf
    <2>2. IF k[1] \in scope THEN progress'[k] \in RebuiltRow(k) ELSE progress'[k] = progress[k]
        BY DEF Rebuild
    <2>3. Latest(k) \subseteq EventsOf(k) BY DEF Latest
    <2>4. CASE k[1] \in scope BY <2>1, <2>2, <2>3, <2>4 DEF RebuiltRow
    <2>5. CASE k[1] \notin scope BY <2>1, <2>2, <2>5 DEF LogInv, ProjectionMatchesLog
    <2> QED BY <2>4, <2>5
<1> QED BY <1>2, <1>3 DEF LogInv, ProjectionMatchesLog

LEMMA CreateLog ==
    ASSUME TypeOK, LogInv, NEW k \in Keys, CreateIfAbsent(k), progress[k] = <<"none">>
    PROVE  LogInv'
<1>1. UNCHANGED <<events, pc, key, at, gone>> BY DEF CreateIfAbsent
<1>2. LogWritten' /\ Returned' BY <1>1 DEF LogInv, LogWritten, Returned, Event
<1>3. EventsOf(k) = {}
    <2> SUFFICES ASSUME EventsOf(k) # {} PROVE FALSE OBVIOUS
    <2>1. PICK e \in EventsOf(k) : progress[k] = Snapshot(e.id)
        BY DEF LogInv, ProjectionMatchesLog
    <2>2. <<"none">> # <<"snapshot", e.id>> OBVIOUS
    <2> QED BY <2>1, <2>2 DEF Snapshot
<1>4. \A j \in Keys : EventsOf(j)' = EventsOf(j) BY <1>1 DEF EventsOf
<1>5. /\ progress'[k] = <<"new">>
      /\ \A j \in Keys \ {k} : progress'[j] = progress[j]
    BY DEF CreateIfAbsent, TypeOK
<1>6. ProjectionMatchesLog' BY <1>3, <1>4, <1>5 DEF LogInv, ProjectionMatchesLog
<1> QED BY <1>2, <1>6 DEF LogInv

LEMMA NextLog == TypeOK /\ LogInv /\ [Next]_vars => LogInv'
<1> SUFFICES ASSUME TypeOK, LogInv, [Next]_vars PROVE LogInv'
    OBVIOUS
<1>1. CASE UNCHANGED vars
    BY <1>1 DEF vars, LogInv, LogWritten, Returned, ProjectionMatchesLog, EventsOf, Event
<1>2. ASSUME NEW r \in Recorders,
             Call(r) \/ ReadProfile(r) \/ Stamp(r) \/ Validate(r) \/ Commit(r)
      PROVE  LogInv'
    <2>1. CASE Call(r) BY <2>1, CallLog DEF Call
    <2>2. CASE ReadProfile(r) BY <2>2, CallLog DEF ReadProfile
    <2>3. CASE Stamp(r)
        <3>1. \A s \in Recorders \ {r} : at'[s] = at[s] BY <2>3 DEF Stamp, TypeOK
        <3> QED BY <2>3, <3>1, CallLog DEF Stamp
    <2>4. CASE Validate(r) BY <2>4, CallLog DEF Validate
    <2>5. CASE Commit(r)
        <3>1. CASE Append(r) /\ Goto(r, "done") BY <2>5, <3>1, CommitLog
        <3>2. CASE UNCHANGED <<events, progress>> /\ Goto(r, "failed")
            BY <2>5, <3>2, CallLog DEF Commit
        <3> QED BY <2>5, <3>1, <3>2 DEF Commit
    <2> QED BY <1>2, <2>1, <2>2, <2>3, <2>4, <2>5
<1>3. ASSUME NEW k \in Keys, CreateIfAbsent(k) PROVE LogInv'
    BY <1>3, CreateLog DEF CreateIfAbsent
<1>4. ASSUME NEW scope \in Scopes, Rebuild(scope) PROVE LogInv'
    BY <1>4, RebuildLog
<1>5. ASSUME NEW t \in Tracks, DeleteTrack(t) PROVE LogInv'
    BY <1>5, EraseLog DEF DeleteTrack
<1>6. ASSUME NEW p \in Profiles, DeleteProfile(p) PROVE LogInv'
    BY <1>6, EraseLog, ConstantsAssumption DEF DeleteProfile
<1> QED BY <1>1, <1>2, <1>3, <1>4, <1>5, <1>6 DEF Next

LEMMA LogHolds == Spec => [](TypeOK /\ LogInv)
BY InitType, NextType, InitLog, NextLog, PTL DEF Spec

\* The progress of a card is always a snapshot of one of its own events.
THEOREM ProjectionHolds == Spec => []ProjectionMatchesLog
BY LogHolds, PTL DEF LogInv

\* A record call that returned is in the log, one that raised is not.
THEOREM AcknowledgementsHold == Spec => []AcknowledgedInLog
BY LogHolds, LogInvImplies, PTL

\* No rebuild, no record and no deletion of something else removes an event.
THEOREM LogGrows == Spec => LogAppendOnly
<1>1. TypeOK /\ [Next]_vars =>
        [\A e \in events \ events' :
            \/ e.key[1] \in gone' \ gone
            \/ \E p \in dead' \ dead : Owner(e.key, p)]_vars
    <2> SUFFICES ASSUME TypeOK, Next, NEW e \in events \ events'
                 PROVE  \/ e.key[1] \in gone' \ gone
                        \/ \E p \in dead' \ dead : Owner(e.key, p)
        OBVIOUS
    <2>1. CASE \E r \in Recorders :
            Call(r) \/ ReadProfile(r) \/ Stamp(r) \/ Validate(r) \/ Commit(r)
        BY <2>1 DEF Call, ReadProfile, Stamp, Validate, Commit, Append
    <2>2. CASE \E k \in Keys : CreateIfAbsent(k) BY <2>2 DEF CreateIfAbsent
    <2>3. CASE \E scope \in Scopes : Rebuild(scope) BY <2>3 DEF Rebuild
    <2>4. CASE \E t \in Tracks : DeleteTrack(t)
        BY <2>4 DEF DeleteTrack, Erase
    <2>5. CASE \E p \in Profiles : DeleteProfile(p)
        BY <2>5 DEF DeleteProfile, Erase, Owner
    <2> QED BY <2>1, <2>2, <2>3, <2>4, <2>5 DEF Next
<1> QED BY <1>1, TypeCorrect, PTL DEF Spec, LogAppendOnly

-----------------------------------------------------------------------------
(* Drift *)

\* Of two events of the log one is before the other, whatever their times.
LEMMA BeforeTotal ==
    ASSUME NEW e \in [id : Recorders, key : Keys, at : Nat],
           NEW f \in [id : Recorders, key : Keys, at : Nat], e.id # f.id
    PROVE  Before(e, f) \/ Before(f, e)
<1>1. Recorders \subseteq Nat BY ConstantsAssumption
<1>2. e.id \in Nat /\ f.id \in Nat /\ e.at \in Nat /\ f.at \in Nat BY <1>1
<1> QED BY <1>2 DEF Before

\* A card whose events and row a step leaves alone keeps what a rebuild makes of it.
LEMMA SameRebuilt ==
    ASSUME NEW k, EventsOf(k)' = EventsOf(k), progress'[k] = progress[k],
           progress[k] \in RebuiltRow(k)
    PROVE  progress'[k] \in RebuiltRow(k)'
<1>1. RebuiltRow(k)' = RebuiltRow(k) BY DEF RebuiltRow, Latest
<1> QED BY <1>1

\* A committed event that is behind none of its card is the latest.
LEMMA AppendRebuilt ==
    ASSUME TypeOK, LogInv, NEW r \in Recorders, Commit(r), Append(r),
           \A f \in EventsOf(key[r]) : ~Before(Event(r), f)
    PROVE  progress'[key[r]] \in RebuiltRow(key[r])'
<1> DEFINE e == Event(r)
           k == key[r]
<1>1. e \in [id : Recorders, key : Keys, at : Nat] /\ e.id = r /\ e.key = k
    BY DEF TypeOK, Event
<1>2. events' = events \cup {e} /\ progress'[k] = Snapshot(r)
    BY DEF Append, TypeOK
<1>3. \A f \in events : f \in [id : Recorders, key : Keys, at : Nat] /\ f.id # r
    BY DEF TypeOK, Commit, LogInv, LogWritten
<1>4. k' = k BY DEF Commit
<1> HIDE DEF e
<1>5. e \in EventsOf(k)' BY <1>1, <1>2, <1>4 DEF EventsOf
<1>6. ASSUME NEW f \in EventsOf(k)', f # e PROVE Before(f, e)
    <2>1. f \in EventsOf(k) BY <1>2, <1>4, <1>6 DEF EventsOf
    <2>2. ~Before(e, f) BY <2>1 DEF e
    <2>3. f \in [id : Recorders, key : Keys, at : Nat] /\ f.id # e.id
        BY <1>1, <1>3, <2>1 DEF EventsOf
    <2> QED BY <1>1, <2>2, <2>3, BeforeTotal
<1>7. e \in Latest(k)' BY <1>5, <1>6 DEF Latest, Before
<1> QED BY <1>1, <1>2, <1>5, <1>7 DEF RebuiltRow

\* Progress departs from the log only where an event is committed behind a later
\* one of its card or a row is created without an event; no deletion, no rebuild
\* of another scope and no call of another card does it (async_record, rebuild).
THEOREM OnlyOvertakersDrift == Spec => OnlyOvertakingDrifts
<1> DEFINE Drifts(k) ==
        \/ progress'[k] \in RebuiltRow(k)' \/ progress'[k] = <<"new">>
        \/ \E e \in events' \ events, f \in EventsOf(k) : e.key = k /\ Before(e, f)
<1>1. ASSUME TypeOK, LogInv, Next, NEW k \in Keys, progress[k] \in RebuiltRow(k)
      PROVE  Drifts(k)
    <2>1. CASE UNCHANGED <<events, progress>>
        <3>1. EventsOf(k)' = EventsOf(k) /\ progress'[k] = progress[k] BY <2>1 DEF EventsOf
        <3> QED BY <1>1, <3>1, SameRebuilt
    <2>2. ASSUME NEW r \in Recorders, Commit(r), Append(r) PROVE Drifts(k)
        <3>1. events' = events \cup {Event(r)} /\ Event(r).key = key[r] /\ Event(r).id = r
            BY <2>2 DEF Append, Event
        <3>2. Event(r) \notin events BY <1>1, <2>2, <3>1 DEF LogInv, LogWritten, Commit
        <3>3. CASE key[r] # k
            <4>1. EventsOf(k)' = EventsOf(k) BY <3>1, <3>3 DEF EventsOf
            <4>2. progress'[k] = progress[k] BY <1>1, <2>2, <3>3 DEF Append, TypeOK
            <4> QED BY <1>1, <4>1, <4>2, SameRebuilt
        <3>4. CASE key[r] = k /\ \A f \in EventsOf(k) : ~Before(Event(r), f)
            <4>1. progress'[key[r]] \in RebuiltRow(key[r])' BY <1>1, <2>2, <3>4, AppendRebuilt
            <4>2. key' = key BY <2>2 DEF Commit
            <4> QED BY <3>4, <4>1, <4>2
        <3>5. CASE key[r] = k /\ \E f \in EventsOf(k) : Before(Event(r), f)
            <4>1. Event(r) \in events' \ events BY <3>1, <3>2
            <4> QED BY <3>1, <3>5, <4>1
        <3> QED BY <3>3, <3>4, <3>5
    <2>3. ASSUME NEW j \in Keys, CreateIfAbsent(j) PROVE Drifts(k)
        <3>1. CASE j = k BY <1>1, <2>3, <3>1 DEF CreateIfAbsent, TypeOK
        <3>2. CASE j # k
            <4>1. EventsOf(k)' = EventsOf(k) /\ progress'[k] = progress[k]
                BY <1>1, <2>3, <3>2 DEF CreateIfAbsent, TypeOK, EventsOf
            <4> QED BY <1>1, <4>1, SameRebuilt
        <3> QED BY <3>1, <3>2
    <2>4. ASSUME NEW scope \in Scopes, Rebuild(scope) PROVE Drifts(k)
        <3>1. EventsOf(k)' = EventsOf(k) BY <2>4 DEF Rebuild, EventsOf
        <3>2. progress'[k] \in RebuiltRow(k) BY <1>1, <2>4 DEF Rebuild
        <3>3. RebuiltRow(k)' = RebuiltRow(k) BY <3>1 DEF RebuiltRow, Latest
        <3> QED BY <3>2, <3>3
    <2>5. ASSUME NEW tracks, Erase(tracks) PROVE Drifts(k)
        <3>1. CASE k[1] \in tracks
            <4>1. EventsOf(k)' = {} /\ progress'[k] = <<"none">>
                BY <1>1, <2>5, <3>1 DEF Erase, EventsOf
            <4> QED BY <4>1 DEF RebuiltRow
        <3>2. CASE k[1] \notin tracks
            <4>1. EventsOf(k)' = EventsOf(k) /\ progress'[k] = progress[k]
                BY <1>1, <2>5, <3>2 DEF Erase, EventsOf
            <4> QED BY <1>1, <4>1, SameRebuilt
        <3> QED BY <3>1, <3>2
    <2>6. ASSUME NEW r \in Recorders,
                 Call(r) \/ ReadProfile(r) \/ Stamp(r) \/ Validate(r) \/ Commit(r)
          PROVE  UNCHANGED <<events, progress>> \/ (Commit(r) /\ Append(r))
        BY <2>6 DEF Call, ReadProfile, Stamp, Validate, Commit
    <2> HIDE DEF Drifts
    <2> QED BY <1>1, <2>1, <2>2, <2>3, <2>4, <2>5, <2>6 DEF Next, DeleteTrack, DeleteProfile
<1>2. TypeOK /\ LogInv /\ [Next]_vars
          => [\A k \in Keys : progress[k] \in RebuiltRow(k) => Drifts(k)]_vars
    BY <1>1
<1> QED BY <1>2, LogHolds, PTL DEF Spec, OnlyOvertakingDrifts
=============================================================================
