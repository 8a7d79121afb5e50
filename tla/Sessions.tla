-------------------------------- MODULE Sessions --------------------------------
(***************************************************************************)
(* One persistent session and the clients that share it: the websocket     *)
(* handlers (api/websocket.py), the SessionService that publishes to       *)
(* subscribers (core/sessions.py) and the optimistic version check of      *)
(* storage/database.py.                                                    *)
(*                                                                         *)
(* A handler awaits each read and each write.  One step is a database job  *)
(* (Read, Commit, Reread) or what the event loop runs between two awaits   *)
(* (Call, Admit, Resume, Publish), so anything may happen in between.      *)
(* StateWriter and ContentGenerations model the gate, the executor and     *)
(* the reader leases these jobs run under.                                 *)
(***************************************************************************)
EXTENDS Naturals, FiniteSets

CONSTANTS
    Starter,        \* the request that starts the session
    Answerers,      \* answer requests, each from a connection of its own
    Subscribers,    \* subscribe requests, each from a connection of its own
    Outsiders,      \* those of them sent by another Home Assistant user
    Questions,
    MaxVersion,     \* bound on the version an answer may expect
    None,           \* no entry in the dictionary of listeners
    Unloads,        \* may the config entry be unloaded?
    Deletes,        \* may the Track of the session be deleted?
    Drops           \* may a subscriber's connection drop?

Requests == {Starter} \cup Answerers \cup Subscribers

ASSUME ConstantsAssumption ==
    /\ IsFiniteSet(Requests)
    /\ Starter \notin Answerers \cup Subscribers
    /\ Answerers \cap Subscribers = {}
    /\ Outsiders \subseteq Answerers \cup Subscribers
    /\ None \notin Requests
    /\ MaxVersion \in Nat \ {0}
    /\ {Unloads, Deletes, Drops} \subseteq BOOLEAN

VARIABLES
    version,        \* sessions.version, 0 when there is no row
    answers,        \* session_answers
    stage,          \* how far the unload of the entry is
    pc,             \* where each request is
    row,            \* the version in the row a request last read, 0 for no row
    asked,          \* what each answer request was called with
    entry,          \* the set object _listeners holds for the session, or None
    members,        \* the members of each set object, named by who created it
    joined,         \* the set object an unsubscribe callback closed over
    open,           \* is the subscriber's connection open?
    last            \* the version of the last state a subscriber was sent

dbVars == <<version, answers>>
callVars == <<pc, row, asked>>
listenerVars == <<entry, members, joined, open, last>>
vars == <<dbVars, stage, callVars, listenerVars>>

Versions == 0..(MaxVersion + 1)
Settled == {"done", "subscribed", "refused", "stale", "missing", "failed"}

TypeOK ==
    /\ version \in Versions
    /\ answers \subseteq [by : Answerers, question : Questions, resulting : Versions \ {0, 1}]
    /\ stage \in {"up", "detached", "refusing", "down"}
    /\ pc \in [Requests -> Settled \cup
                {"idle", "reading", "read", "queued", "committed", "rereading", "reread"}]
    /\ row \in [Requests -> Versions]
    /\ asked \in [Answerers -> [expected : 1..MaxVersion, question : Questions]]
    /\ entry \in Subscribers \cup {None}
    /\ members \in [Subscribers -> SUBSET Subscribers]
    /\ joined \in [Subscribers -> Subscribers \cup {None}]
    /\ open \in [Subscribers -> BOOLEAN]
    /\ last \in [Subscribers -> Versions]

Goto(r, l) == pc' = [pc EXCEPT ![r] = l]

Init ==
    /\ version = 0 /\ answers = {}
    /\ stage = "up"
    /\ pc = [r \in Requests |-> "idle"]
    /\ row = [r \in Requests |-> 0]
    /\ asked \in [Answerers -> [expected : {1}, question : Questions]]
    /\ entry = None
    /\ members = [s \in Subscribers |-> {}]
    /\ joined = [s \in Subscribers |-> None]
    /\ open = [s \in Subscribers |-> TRUE]
    /\ last = [s \in Subscribers |-> 0]

-----------------------------------------------------------------------------
(* Requests *)

\* session/start: the runtime is there, so the insert is queued.
Start ==
    /\ stage = "up" /\ pc[Starter] = "idle"
    /\ Goto(Starter, "queued")
    /\ UNCHANGED <<dbVars, stage, row, asked, listenerVars>>

\* session/answer and session/subscribe first read the session, whose id they
\* can only have from the reply to session/start.
Call(r) ==
    /\ stage = "up" /\ pc[r] = "idle" /\ pc[Starter] = "done"
    /\ Goto(r, "reading")
    /\ IF r \in Answerers
       THEN \E v \in 1..MaxVersion, q \in Questions :
                asked' = [asked EXCEPT ![r] = [expected |-> v, question |-> q]]
       ELSE open[r] /\ UNCHANGED asked
    /\ UNCHANGED <<dbVars, stage, row, listenerVars>>

\* A read job: the row as it is now.  A read that had not its lease when the
\* generations closed is refused.
Read(r) ==
    /\ \/ /\ pc[r] = "reading" /\ Goto(r, "read")
          /\ row' = [row EXCEPT ![r] = version]
       \/ /\ pc[r] = "rereading" /\ Goto(r, "reread")
          /\ row' = [row EXCEPT ![r] = version]
       \/ /\ pc[r] \in {"reading", "rereading"} /\ stage = "refusing"
          /\ Goto(r, "failed")
          /\ UNCHANGED row
    /\ UNCHANGED <<dbVars, stage, asked, listenerVars>>

Authorized(r) == row[r] > 0 /\ r \notin Outsiders

Refuse(r) ==
    /\ pc[r] = "read" /\ ~Authorized(r)
    /\ Goto(r, "refused")
    /\ UNCHANGED <<dbVars, stage, row, asked, listenerVars>>

-----------------------------------------------------------------------------
(* Subscriptions *)

\* setdefault: the set the dictionary holds, or a new one named after s.
SetFor(s) == IF entry = None THEN s ELSE entry

\* Registers the listener whatever became of the connection or of the
\* integration, and replies with the state read before.
Subscribe(s) ==
    /\ pc[s] = "read" /\ Authorized(s)
    /\ entry' = SetFor(s)
    /\ members' = [members EXCEPT ![SetFor(s)] = @ \cup {s}]
    /\ joined' = [joined EXCEPT ![s] = SetFor(s)]
    /\ last' = [last EXCEPT ![s] = row[s]]
    /\ Goto(s, "subscribed")
    /\ UNCHANGED <<dbVars, stage, row, asked, open>>

\* Mutant of Unsubscribed: the entry is removed with its first member.
UnsubscribedAll(s) ==
    /\ members' = [members EXCEPT ![joined[s]] = @ \ {s}]
    /\ entry' = None

\* unsubscribe discards the listener from the set it closed over; an empty
\* set removes the entry, whichever set that holds by now.
Unsubscribed(s) ==
    LET rest == members[joined[s]] \ {s}
    IN /\ members' = [members EXCEPT ![joined[s]] = rest]
       /\ entry' = IF rest = {} THEN None ELSE entry

\* Home Assistant runs the callbacks of a closing connection; a handler under
\* way on that connection goes on.
Disconnect(s) ==
    /\ Drops /\ open[s] /\ pc[s] # "idle"
    /\ open' = [open EXCEPT ![s] = FALSE]
    /\ IF pc[s] = "subscribed" THEN Unsubscribed(s) ELSE UNCHANGED <<entry, members>>
    /\ UNCHANGED <<dbVars, stage, callVars, joined, last>>

-----------------------------------------------------------------------------
(* Writes *)

\* The answer is submitted, unless the storage has closed meanwhile.
Submit(a) ==
    /\ pc[a] = "read" /\ Authorized(a)
    /\ Goto(a, IF stage = "down" THEN "failed" ELSE "queued")
    /\ UNCHANGED <<dbVars, stage, row, asked, listenerVars>>

\* The update that bumps the version only where it is the expected one.
Matches(a) == version = asked[a].expected

\* Mutant of AnswerCas: the answer is inserted before the row is compared.
AnswerCasLogsFirst(a) ==
    /\ answers' = answers \cup {[by |-> a, question |-> asked[a].question,
                                 resulting |-> asked[a].expected + 1]}
    /\ IF Matches(a)
       THEN version' = version + 1 /\ Goto(a, "committed")
       ELSE UNCHANGED version /\ Goto(a, IF version = 0 THEN "missing" ELSE "stale")

\* The transaction of one answer: a row not updated is looked up to tell a
\* stale version from a session that is gone.
AnswerCas(a) ==
    IF Matches(a)
    THEN /\ version' = version + 1
         /\ answers' = answers \cup {[by |-> a, question |-> asked[a].question,
                                      resulting |-> asked[a].expected + 1]}
         /\ Goto(a, "committed")
    ELSE /\ Goto(a, IF version = 0 THEN "missing" ELSE "stale")
         /\ UNCHANGED dbVars

\* The insert of async_create_session.
CreateSession(r) == version' = 1 /\ UNCHANGED answers /\ Goto(r, "committed")

\* Mutant of Commit: a job that finds no connection is never completed.
CommitHangs(r) ==
    /\ pc[r] = "queued" /\ stage # "down"
    /\ \/ r = Starter /\ CreateSession(r)
       \/ r \in Answerers /\ AnswerCas(r)
    /\ UNCHANGED <<stage, row, asked, listenerVars>>

\* _run_writer, a job on the writer's thread; without its connection it raises.
Commit(r) ==
    /\ pc[r] = "queued"
    /\ \/ /\ stage = "down" /\ Goto(r, "failed") /\ UNCHANGED dbVars
       \/ /\ stage # "down" /\ r = Starter /\ CreateSession(r)
       \/ /\ stage # "down" /\ r \in Answerers /\ AnswerCas(r)
    /\ UNCHANGED <<stage, row, asked, listenerVars>>

\* Mutant of Resume: the answer returns the row its authorization read.
ResumeWithoutRead(r) ==
    /\ pc[r] = "committed"
    /\ Goto(r, IF r = Starter THEN "rereading" ELSE "reread")
    /\ UNCHANGED <<dbVars, stage, row, asked, listenerVars>>

\* Both writes are followed by a read of the session.
Resume(r) ==
    /\ pc[r] = "committed"
    /\ Goto(r, IF stage \in {"up", "detached"} THEN "rereading" ELSE "failed")
    /\ UNCHANGED <<dbVars, stage, row, asked, listenerVars>>

Listeners == IF entry = None THEN {} ELSE members[entry]

\* The state just read goes to every listener and is the reply; a session that
\* vanished trips the assertion.
Publish(r) ==
    /\ pc[r] = "reread"
    /\ Goto(r, IF row[r] = 0 THEN "failed" ELSE "done")
    /\ last' = [s \in Subscribers |->
                    IF row[r] > 0 /\ r \in Answerers /\ s \in Listeners
                    THEN row[r] ELSE last[s]]
    /\ UNCHANGED <<dbVars, stage, row, asked, entry, members, joined, open>>

\* Deleting the Track deletes its sessions, and their answers by cascade.
DeleteTrack ==
    /\ Deletes /\ stage # "down" /\ version > 0
    /\ version' = 0 /\ answers' = {}
    /\ UNCHANGED <<stage, callVars, listenerVars>>

-----------------------------------------------------------------------------
(* Unload *)

\* The runtime leaves hass.data and SessionService.close forgets every set.
Detach ==
    /\ Unloads /\ stage = "up"
    /\ stage' = "detached" /\ entry' = None
    /\ UNCHANGED <<dbVars, callVars, members, joined, open, last>>

\* The content generations refuse new readers, then wait for the leased ones.
CloseReaders ==
    /\ stage = "detached" /\ stage' = "refusing"
    /\ UNCHANGED <<dbVars, callVars, listenerVars>>

CloseWriter ==
    /\ stage = "refusing" /\ stage' = "down"
    /\ \A r \in Requests : pc[r] \notin {"reading", "rereading"}
    /\ UNCHANGED <<dbVars, callVars, listenerVars>>

Proceed(r) ==
    \/ Read(r) \/ Refuse(r) \/ Commit(r) \/ Resume(r) \/ Publish(r)
    \/ r \in Subscribers /\ Subscribe(r)
    \/ r \in Answerers /\ Submit(r)

Next ==
    \/ Start
    \/ \E r \in Answerers \cup Subscribers : Call(r)
    \/ \E r \in Requests : Proceed(r)
    \/ \E s \in Subscribers : Disconnect(s)
    \/ DeleteTrack
    \/ Detach \/ CloseReaders \/ CloseWriter

Spec == Init /\ [][Next]_vars

\* The threads and the event loop keep running; nobody has to call, drop a
\* connection, delete or unload.
FairSpec ==
    /\ Spec
    /\ \A r \in Requests : WF_vars(Proceed(r))
    /\ WF_vars(CloseReaders) /\ WF_vars(CloseWriter)

-----------------------------------------------------------------------------
(* Properties *)

\* Every version after the first was made by exactly one stored answer of the
\* session's own user, so neither a race nor a retry of an answer whose reply
\* was lost is stored twice.
OneAnswerPerVersion ==
    /\ version > 0 => {e.resulting : e \in answers} = 2..version
    /\ version = 0 => answers = {}
    /\ \A e, f \in answers : e.resulting = f.resulting => e = f
    /\ \A e \in answers : e.by \notin Outsiders

\* What a client is told agrees with the log: an accepted answer is stored and
\* shows in the state returned, until the Track is deleted; a rejected one is
\* nowhere.
ReplyAgreesWithLog ==
    \A a \in Answerers :
        LET stored == \E e \in answers : e.by = a
        IN /\ pc[a] = "done" =>
                /\ row[a] > asked[a].expected
                /\ stored \/ version = 0
           /\ pc[a] \in {"stale", "missing", "refused"} => ~stored

\* Of two answers to the same version at most one is ever accepted, whatever
\* the interleaving of their transactions ("the losing client receives
\* locklearn/stale_session").
OneWinner ==
    \A a, b \in Answerers :
        /\ a # b /\ asked[a].expected = asked[b].expected
        /\ pc[a] \in {"committed", "rereading", "reread", "done"}
        => pc[b] \notin {"committed", "rereading", "reread", "done"}

\* While the integration is loaded, a subscriber that was told it is
\* subscribed and whose connection is open is reached by every publication,
\* whoever else left meanwhile, and nobody else's user is.
SubscribersAttached ==
    stage = "up" =>
        /\ \A s \in Subscribers : pc[s] = "subscribed" /\ open[s] => s \in Listeners
        /\ Listeners \cap Outsiders = {}

\* Every request is answered, also when the entry is unloaded under it, and the
\* unload ends.
RequestsSettle ==
    /\ \A r \in Requests : pc[r] # "idle" ~> pc[r] \in Settled
    /\ stage = "detached" ~> stage = "down"

-----------------------------------------------------------------------------
(* What the documents say and the code does not keep; see README *)

Quiet == \A r \in Requests : pc[r] \in Settled \cup {"idle"}

\* SPEC_V1.md:2634-2640: session/subscribe exists to synchronise the open
\* clients; once nothing is under way each subscriber was sent the current
\* state.
SubscribersSynchronised ==
    Quiet /\ stage = "up" /\ version > 0 =>
        \A s \in Subscribers : pc[s] = "subscribed" /\ open[s] => last[s] = version

\* core/sessions.py:44: an answer publishes the winning state, so what a
\* subscriber was sent never goes back to an older version.
EventsNeverGoBack ==
    [][\A s \in Subscribers : last'[s] >= last[s]]_last

\* docs/plan/P0.md:108: two clients cannot both answer the same question.
OneAnswerPerQuestion ==
    \A e, f \in answers : e.question = f.question => e = f

\* A client that got an error for its answer finds it nowhere: what
\* ReplyAgreesWithLog says of the other replies.
ErrorMeansUnstored ==
    \A a \in Answerers : pc[a] = "failed" => \A e \in answers : e.by # a

\* docs/plan/P0.md:109: subscriptions detach on unload.
DetachedOnUnload == Quiet /\ stage = "down" => Listeners = {}

\* docs/plan/P0.md:109: subscriptions detach when the client disconnects.
DetachedOnDisconnect == Quiet => \A s \in Listeners : open[s]
=============================================================================
