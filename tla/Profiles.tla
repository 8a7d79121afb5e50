------------------------------- MODULE Profiles -------------------------------
(***************************************************************************)
(* Learner profiles and who may touch them (core/profiles.py, core/acl.py, *)
(* core/content_reports.py, the profile handlers of api/websocket.py, and  *)
(* their repositories).  A handler checks the caller's role in a reader    *)
(* job of its own and writes in a later transaction that does not look at  *)
(* the caller again; between any two of its awaits other handlers run.     *)
(*                                                                         *)
(* One step is one reader job, or one transaction on the writer thread.    *)
(* Roles other than owner hold none of the permissions modelled here but   *)
(* ANSWER, so names, presets, timezones and statuses are left out.         *)
(***************************************************************************)
EXTENDS Naturals, FiniteSets

CONSTANTS
    ProfileIds,     \* the uuid4 ids that creations draw, bounding their number
    Found,          \* those an earlier process left in the file
    Users,          \* Home Assistant users
    Requests,       \* calls, which may all be running at the same time
    Granted,        \* roles that share requests give
    Keys,           \* keys of a profile's settings
    Nobody          \* no role, no request

Roles == {"owner", "editor", "viewer"}

ASSUME ProfilesAssumption ==
    /\ IsFiniteSet(Users) /\ Users # {}
    /\ Found \subseteq ProfileIds
    /\ Granted \subseteq Roles
    /\ Nobody \notin Roles \cup Requests \cup Users

VARIABLES
    born,       \* ids ever drawn: a deleted id does not come back
    profiles,   \* rows of profiles
    members,    \* rows of profile_members: the role of a user, or Nobody
    personal,   \* the user a profile was made for by onboarding, or Nobody
    settings,   \* keys present in settings_json
    tracks,     \* profiles with a Track whose card is enabled
    reports,    \* profiles with a content_report row in audit_events
    lock,       \* _personal_profile_lock: the request inside, or Nobody
    req,        \* each handler with its locals
    shared      \* history: users that some share request named

rowVars == <<born, profiles, members, personal, settings, tracks, reports>>
profileVars == <<rowVars, lock, req, shared>>

-----------------------------------------------------------------------------
(* Permissions, rows. *)

Permissions(role) ==
    CASE role = "owner" -> {"edit_profile", "edit_track", "share", "delete", "manage_acl", "answer"}
      [] role = "editor" -> {"edit_track", "answer"}
      [] OTHER -> {}

\* async_can, and the test inside async_require.
Allowed(user, p, permission) ==
    members[p][user] # Nobody /\ permission \in Permissions(members[p][user])

Needed(op) ==
    CASE op = "update" -> "edit_profile"
      [] op = "delete" -> "delete"
      [] op = "share" -> "manage_acl"
      [] op = "remove" -> "manage_acl"
      [] op = "report" -> "answer"

Owners(p) == {u \in Users : members[p][u] = "owner"}

NoMembers == [u \in Users |-> Nobody]

Idle == [pc |-> "idle"]
Done == [pc |-> "done"]

Goto(r, pc) == req' = [req EXCEPT ![r].pc = pc]

\* The reply, or the error, ends the handler.
Finish(r) == req' = [req EXCEPT ![r] = Done]

At(r, pc) == req[r].pc = pc

\* The rows that earlier processes left: profiles that all users came to own.
StartWith(found) ==
    /\ born = found /\ profiles = found /\ tracks = {} /\ reports = {}
    /\ members = [p \in ProfileIds |-> IF p \in found THEN [u \in Users |-> "owner"] ELSE NoMembers]
    /\ personal = [p \in ProfileIds |-> Nobody]
    /\ settings = [p \in ProfileIds |-> {}]
    /\ lock = Nobody
    /\ req = [r \in Requests |-> Idle]
    /\ shared = {}

Init == StartWith(Found)

-----------------------------------------------------------------------------
(* Creation: ws_profiles_create and the onboarding of ws_bootstrap. *)

BeginCreate(r, u) ==
    /\ At(r, "idle")
    /\ req' = [req EXCEPT ![r] = [pc |-> "insert", op |-> "create", user |-> u]]
    /\ UNCHANGED <<rowVars, lock, shared>>

BeginBootstrap(r, u) ==
    /\ At(r, "idle")
    /\ req' = [req EXCEPT ![r] = [pc |-> "lock", op |-> "bootstrap", user |-> u]]
    /\ UNCHANGED <<rowVars, lock, shared>>

\* Mutant of TakeLock: without the lock.
TakeNoLock(r) ==
    /\ At(r, "lock")
    /\ Goto(r, "list")
    /\ UNCHANGED <<rowVars, lock, shared>>

\* "async with self._personal_profile_lock"
TakeLock(r) ==
    /\ At(r, "lock")
    /\ lock = Nobody
    /\ lock' = r
    /\ Goto(r, "list")
    /\ UNCHANGED <<rowVars, shared>>

OwnsPersonal(u) == \E p \in profiles : personal[p] # Nobody /\ members[p][u] = "owner"

\* An owned profile with the marker is returned, whoever it was made for.
ListOwned(r) ==
    /\ At(r, "list")
    /\ IF OwnsPersonal(req[r].user)
       THEN Finish(r) /\ lock' = Nobody
       ELSE Goto(r, "insert") /\ UNCHANGED lock
    /\ UNCHANGED <<rowVars, shared>>

\* async_insert_with_members: the row and its owner in one transaction.
InsertProfile(p, owner, marker) ==
    /\ born' = born \cup {p}
    /\ profiles' = profiles \cup {p}
    /\ members' = [members EXCEPT ![p] = [NoMembers EXCEPT ![owner] = "owner"]]
    /\ personal' = [personal EXCEPT ![p] = marker]
    /\ settings' = [settings EXCEPT ![p] = {}]

\* async_create_profile draws an id for the caller's profile.
Create(r) ==
    LET u == req[r].user
        onboarding == req[r].op = "bootstrap"
    IN
    /\ At(r, "insert")
    /\ \E p \in ProfileIds \ born : InsertProfile(p, u, IF onboarding THEN u ELSE Nobody)
    /\ IF onboarding THEN Goto(r, "reload") ELSE Finish(r)
    /\ UNCHANGED <<tracks, reports, lock, shared>>

\* The re-read of the row ends the critical section.
Reload(r) ==
    /\ At(r, "reload")
    /\ lock' = Nobody
    /\ Finish(r)
    /\ UNCHANGED <<rowVars, shared>>

-----------------------------------------------------------------------------
(* Requests on one profile: role reads, then what the handler does. *)

BeginUpdate(r, u, p) ==
    /\ At(r, "idle")
    /\ \E k \in Keys : req' = [req EXCEPT ![r] =
            [pc |-> "check", op |-> "update", user |-> u, profile |-> p, key |-> k]]
    /\ UNCHANGED <<rowVars, lock, shared>>

BeginDelete(r, u, p) ==
    /\ At(r, "idle")
    /\ req' = [req EXCEPT ![r] = [pc |-> "check", op |-> "delete", user |-> u, profile |-> p]]
    /\ UNCHANGED <<rowVars, lock, shared>>

BeginReport(r, u, p) ==
    /\ At(r, "idle")
    /\ req' = [req EXCEPT ![r] = [pc |-> "check", op |-> "report", user |-> u, profile |-> p]]
    /\ UNCHANGED <<rowVars, lock, shared>>

\* To remove a member is to share no role with him.
BeginShare(r, u, p) ==
    /\ At(r, "idle")
    /\ \E target \in Users, role \in Granted \cup {Nobody} :
         /\ shared' = shared \cup {target}
         /\ req' = [req EXCEPT ![r] = [pc |-> "check", op |-> IF role = Nobody THEN "remove" ELSE "share",
                                       user |-> u, profile |-> p, target |-> target, role |-> role]]
    /\ UNCHANGED <<rowVars, lock>>

\* _require_profile_permission reads the role twice, to tell an unknown profile
\* from a forbidden one; the second read is the one that decides.
Check(r) ==
    LET q == req[r] IN
    /\ At(r, "check")
    /\ req' = [req EXCEPT ![r] =
            IF ~Allowed(q.user, q.profile, Needed(q.op)) THEN Done
            ELSE CASE q.op = "update" -> [pc |-> "read", profile |-> q.profile, key |-> q.key]
                   [] q.op = "report" -> [pc |-> "validate", profile |-> q.profile]
                   [] q.op = "delete" -> [pc |-> "delete", profile |-> q.profile]
                   [] OTHER -> [q EXCEPT !.pc = "require"]]
    /\ UNCHANGED <<rowVars, lock, shared>>

\* async_require in the ACL service; ProfileAccessDenied ends the request.
Require(r) ==
    LET q == req[r] IN
    /\ At(r, "require")
    /\ req' = [req EXCEPT ![r] =
            IF ~Allowed(q.user, q.profile, "manage_acl") THEN Done
            ELSE [pc |-> q.op, profile |-> q.profile, target |-> q.target, role |-> q.role]]
    /\ UNCHANGED <<rowVars, lock, shared>>

-----------------------------------------------------------------------------
(* Sharing.  The owners are counted inside the writing transaction. *)

LosesLastOwner(p, user, role) ==
    members[p][user] = "owner" /\ role # "owner" /\ Cardinality(Owners(p)) <= 1

\* async_set_member_role_preserving_owner; the foreign key refuses a member
\* of a deleted profile.
SetMemberRole(r) ==
    LET q == req[r] IN
    /\ At(r, "share")
    /\ members' = IF LosesLastOwner(q.profile, q.target, q.role) \/ q.profile \notin profiles
                  THEN members
                  ELSE [members EXCEPT ![q.profile][q.target] = q.role]
    /\ Finish(r)
    /\ UNCHANGED <<born, profiles, personal, settings, tracks, reports, lock, shared>>

\* Mutant of RemoveMember: the owners are not counted.
RemoveAnyMember(r) ==
    /\ At(r, "remove")
    /\ members' = [members EXCEPT ![req[r].profile][req[r].target] = Nobody]
    /\ Finish(r)
    /\ UNCHANGED <<born, profiles, personal, settings, tracks, reports, lock, shared>>

\* async_delete_member_preserving_owner
RemoveMember(r) ==
    LET q == req[r] IN
    /\ At(r, "remove")
    /\ members' = IF LosesLastOwner(q.profile, q.target, Nobody)
                  THEN members
                  ELSE [members EXCEPT ![q.profile][q.target] = Nobody]
    /\ Finish(r)
    /\ UNCHANGED <<born, profiles, personal, settings, tracks, reports, lock, shared>>

-----------------------------------------------------------------------------
(* Update and deletion. *)

\* async_update_profile reads the whole row ...
ReadProfile(r) ==
    /\ At(r, "read")
    /\ IF req[r].profile \in profiles
       THEN req' = [req EXCEPT ![r] = [pc |-> "update", profile |-> req[r].profile,
                        key |-> req[r].key, current |-> settings[req[r].profile]]]
       ELSE Finish(r)
    /\ UNCHANGED <<rowVars, lock, shared>>

\* ... and writes it back with the patch, whatever was stored in between.
UpdateProfile(r) ==
    /\ At(r, "update")
    /\ settings' = IF req[r].profile \in profiles
                   THEN [settings EXCEPT ![req[r].profile] = req[r].current \cup {req[r].key}]
                   ELSE settings
    /\ Finish(r)
    /\ UNCHANGED <<born, profiles, members, personal, tracks, reports, lock, shared>>

\* async_delete: the listed tables, and by cascade the members and the Tracks.
DeleteProfile(r) ==
    LET p == req[r].profile IN
    /\ At(r, "delete")
    /\ profiles' = profiles \ {p}
    /\ members' = [members EXCEPT ![p] = NoMembers]
    /\ personal' = [personal EXCEPT ![p] = Nobody]
    /\ settings' = [settings EXCEPT ![p] = {}]
    /\ tracks' = tracks \ {p}
    /\ reports' = reports \ {p}
    /\ Finish(r)
    /\ UNCHANGED <<born, lock, shared>>

-----------------------------------------------------------------------------
(* Content reports. *)

\* Someone creates the profile's Track, or deletes it (see TrackPins).
ToggleTrack(p) ==
    /\ p \in profiles
    /\ tracks' = IF p \in tracks THEN tracks \ {p} ELSE tracks \cup {p}
    /\ UNCHANGED <<born, profiles, members, personal, settings, reports, lock, req, shared>>

\* The handler, the service and the repository look at the Track and the
\* card before the writer runs; the card is in the active content or not.
ValidateReport(r) ==
    /\ At(r, "validate")
    /\ \/ req[r].profile \in tracks /\ Goto(r, "report")
       \/ Finish(r)
    /\ UNCHANGED <<rowVars, lock, shared>>

\* Mutant of WriteReport: relies on the earlier look at the Track.
WriteReportUnchecked(r) ==
    /\ At(r, "report")
    /\ reports' = reports \cup {req[r].profile}
    /\ Finish(r)
    /\ UNCHANGED <<born, profiles, members, personal, settings, tracks, lock, shared>>

\* The transaction looks at the Track and its enabled card again.
WriteReport(r) ==
    /\ At(r, "report")
    /\ reports' = IF req[r].profile \in tracks THEN reports \cup {req[r].profile} ELSE reports
    /\ Finish(r)
    /\ UNCHANGED <<born, profiles, members, personal, settings, tracks, lock, shared>>

-----------------------------------------------------------------------------
Step(r) ==
    \/ TakeLock(r) \/ ListOwned(r) \/ Create(r) \/ Reload(r)
    \/ Check(r) \/ Require(r)
    \/ SetMemberRole(r) \/ RemoveMember(r)
    \/ ReadProfile(r) \/ UpdateProfile(r) \/ DeleteProfile(r)
    \/ ValidateReport(r) \/ WriteReport(r)

Begin(r) == \E u \in Users :
    \/ BeginCreate(r, u) \/ BeginBootstrap(r, u)
    \/ \E p \in born : 
         \/ BeginUpdate(r, u, p) \/ BeginDelete(r, u, p)
         \/ BeginReport(r, u, p) \/ BeginShare(r, u, p)

\* The entry is unloaded or the process ends: the handlers are gone and the
\* service with its lock, what was committed is not.
DropRequests ==
    /\ req' = [r \in Requests |-> IF At(r, "idle") THEN Idle ELSE Done]
    /\ lock' = Nobody
    /\ UNCHANGED <<rowVars, shared>>

Next ==
    \/ \E r \in Requests : Begin(r) \/ Step(r)
    \/ \E p \in ProfileIds : ToggleTrack(p)
    \/ DropRequests

Spec == Init /\ [][Next]_profileVars

-----------------------------------------------------------------------------
(* Properties. *)

\* What a handler remembers, by where it is.
Starting == [pc : {"idle", "done"}]
Creating == [pc : {"lock", "list", "insert", "reload"}, op : {"create", "bootstrap"}, user : Users]
Checking ==
    [pc : {"check"}, op : {"update"}, user : Users, profile : ProfileIds, key : Keys]
    \cup [pc : {"check"}, op : {"delete", "report"}, user : Users, profile : ProfileIds]
Sharing ==
    [pc : {"check", "require"}, op : {"share"}, user : Users, profile : ProfileIds,
     target : Users, role : Granted]
    \cup [pc : {"check", "require"}, op : {"remove"}, user : Users, profile : ProfileIds,
          target : Users, role : {Nobody}]
Writing ==
    [pc : {"read"}, profile : ProfileIds, key : Keys]
    \cup [pc : {"update"}, profile : ProfileIds, key : Keys, current : SUBSET Keys]
    \cup [pc : {"delete", "validate", "report"}, profile : ProfileIds]
    \cup [pc : {"share"}, profile : ProfileIds, target : Users, role : Granted]
    \cup [pc : {"remove"}, profile : ProfileIds, target : Users, role : {Nobody}]

\* The types, that rows of other tables have their profile's row
\* (foreign keys), and that the lock is held exactly inside its block.
RowsOK ==
    /\ profiles \subseteq born /\ born \subseteq ProfileIds
    /\ members \in [ProfileIds -> [Users -> Roles \cup {Nobody}]]
    /\ personal \in [ProfileIds -> Users \cup {Nobody}]
    /\ settings \in [ProfileIds -> SUBSET Keys]
    /\ req \in [Requests -> Starting \cup Creating \cup Checking \cup Sharing \cup Writing]
    /\ tracks \subseteq profiles
    /\ \A p \in ProfileIds \ profiles : members[p] = NoMembers

\* A profile that exists has an owner, however many requests demote, remove
\* and delete at the same time ("Profile must keep an owner", websocket.py:354).
OwnerKept == \A p \in profiles : Owners(p) # {}

\* Bootstraps of one user never make two personal profiles, unless a share
\* request touched that user's roles (_personal_profile_lock, profiles.py:215).
OnePersonalProfile ==
    \A u \in Users \ shared :
        \A p, q \in profiles : personal[p] = u /\ personal[q] = u => p = q

\* No content report is stored for a profile that is gone: the transaction
\* finds no Track (repositories.py:1720), and deletion takes the audit rows.
ReportsHaveProfile == reports \subseteq profiles
=============================================================================
