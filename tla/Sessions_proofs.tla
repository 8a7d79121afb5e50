---------------------------- MODULE Sessions_proofs ----------------------------
(***************************************************************************)
(* Proofs about the shared session, for every set of requests and users,   *)
(* with the Track deleted and the entry unloaded at any point.             *)
(***************************************************************************)
EXTENDS Sessions, TLAPS

Callers == Answerers \cup Subscribers

-----------------------------------------------------------------------------
(* Type correctness *)

LEMMA InitType == Init => TypeOK
<1> SUFFICES ASSUME Init PROVE TypeOK OBVIOUS
<1>1. 1 \in 1..MaxVersion /\ 0 \in Versions BY ConstantsAssumption DEF Versions
<1>2. asked \in [Answerers -> [expected : 1..MaxVersion, question : Questions]]
    BY <1>1 DEF Init
<1> QED BY <1>1, <1>2 DEF Init, TypeOK, Settled

LEMMA ReadType ==
    ASSUME TypeOK, NEW r \in Requests, Read(r)
    PROVE  TypeOK'
BY DEF Read, TypeOK, Goto, Settled, dbVars, listenerVars

LEMMA CommitType ==
    ASSUME TypeOK, NEW r \in Requests, Commit(r)
    PROVE  TypeOK'
<1> USE ConstantsAssumption DEF TypeOK, Goto, Settled, Versions, dbVars, listenerVars
<1>1. CASE stage = "down" BY <1>1 DEF Commit, CreateSession
<1>2. CASE r = Starter /\ version' = 1 /\ UNCHANGED answers /\ Goto(r, "committed")
    BY <1>2 DEF Commit, CreateSession
<1>3. CASE r \in Answerers /\ AnswerCas(r)
    <2>1. CASE Matches(r)
        <3>1. asked[r].expected \in 1..MaxVersion /\ asked[r].question \in Questions
            BY <1>3
        <3>2. version' \in Versions /\ asked[r].expected + 1 \in Versions
            BY <1>3, <2>1, <3>1 DEF AnswerCas, Matches
        <3> QED BY <1>3, <2>1, <3>1, <3>2 DEF Commit, CreateSession, AnswerCas
    <2>2. CASE ~Matches(r) BY <1>3, <2>2 DEF Commit, CreateSession, AnswerCas
    <2> QED BY <2>1, <2>2
<1> QED BY <1>1, <1>2, <1>3 DEF Commit, CreateSession

LEMMA SubscribeType ==
    ASSUME TypeOK, NEW s \in Subscribers, Subscribe(s)
    PROVE  TypeOK'
<1>1. SetFor(s) \in Subscribers BY DEF TypeOK, SetFor
<1> QED BY <1>1 DEF Subscribe, TypeOK, Goto, Settled, Requests, dbVars

LEMMA DisconnectType ==
    ASSUME TypeOK, NEW s \in Subscribers, Disconnect(s)
    PROVE  TypeOK'
BY DEF Disconnect, Unsubscribed, TypeOK, callVars, dbVars

LEMMA NextType == TypeOK /\ [Next]_vars => TypeOK'
<1> SUFFICES ASSUME TypeOK, [Next]_vars PROVE TypeOK'
    OBVIOUS
<1> USE DEF dbVars, callVars, listenerVars
<1>1. CASE UNCHANGED vars BY <1>1 DEF vars, TypeOK
<1>2. CASE Start BY <1>2 DEF Start, TypeOK, Goto, Settled, Requests
<1>3. ASSUME NEW r \in Callers, Call(r) PROVE TypeOK'
    <2>1. pc' \in [Requests -> Settled \cup
                {"idle", "reading", "read", "queued", "committed", "rereading", "reread"}]
        BY <1>3 DEF Call, TypeOK, Goto, Requests, Callers
    <2>2. asked' \in [Answerers -> [expected : 1..MaxVersion, question : Questions]]
        BY <1>3 DEF Call, TypeOK
    <2> QED BY <1>3, <2>1, <2>2 DEF Call, TypeOK
<1>4. ASSUME NEW r \in Requests, Proceed(r) PROVE TypeOK'
    <2>1. CASE Read(r) BY <2>1, ReadType
    <2>2. CASE Refuse(r) BY <2>2 DEF Refuse, TypeOK, Goto, Settled
    <2>3. CASE Commit(r) BY <2>3, CommitType
    <2>4. CASE Resume(r) BY <2>4 DEF Resume, TypeOK, Goto, Settled
    <2>5. CASE Publish(r)
        <3>1. last' \in [Subscribers -> Versions] BY <2>5 DEF Publish, TypeOK
        <3> QED BY <2>5, <3>1 DEF Publish, TypeOK, Goto, Settled
    <2>6. CASE r \in Subscribers /\ Subscribe(r) BY <2>6, SubscribeType
    <2>7. CASE r \in Answerers /\ Submit(r) BY <2>7 DEF Submit, TypeOK, Goto, Settled
    <2> QED BY <1>4, <2>1, <2>2, <2>3, <2>4, <2>5, <2>6, <2>7 DEF Proceed
<1>5. ASSUME NEW s \in Subscribers, Disconnect(s) PROVE TypeOK'
    BY <1>5, DisconnectType
<1>6. CASE DeleteTrack BY <1>6, ConstantsAssumption DEF DeleteTrack, TypeOK, Versions
<1>7. CASE Detach \/ CloseReaders \/ CloseWriter
    BY <1>7 DEF Detach, CloseReaders, CloseWriter, TypeOK
<1> QED BY <1>1, <1>2, <1>3, <1>4, <1>5, <1>6, <1>7 DEF Next, Callers

\* Every variable keeps its type (core/sessions.py, storage/schema.py:217-261).
THEOREM TypeCorrect == Spec => []TypeOK
BY InitType, NextType, PTL DEF Spec

-----------------------------------------------------------------------------
(* The version and its answers *)

Won == {"committed", "rereading", "reread", "done"}

\* Nobody knows the session before it has been started and returned.
StartInv ==
    /\ pc[Starter] \notin {"reading", "read"}
    /\ pc[Starter] # "done" => \A r \in Callers : pc[r] = "idle"
    /\ pc[Starter] \in {"idle", "queued"} => version = 0 /\ answers = {}

\* An answer request past its authorization comes from the session's user, and
\* a state it read after its commit shows the answer.
RequestInv ==
    \A a \in Answerers :
        /\ pc[a] \in Won \cup {"queued", "stale", "missing"} => a \notin Outsiders
        /\ pc[a] \in {"reread", "done"} /\ row[a] > 0 => row[a] > asked[a].expected
        /\ pc[a] = "done" => row[a] > 0

\* A winner is stored, and the version has moved past the one it expected,
\* until the Track is deleted.
WinnerInv ==
    \A a \in Answerers : pc[a] \in Won =>
        version = 0 \/ (version > asked[a].expected /\ \E e \in answers : e.by = a)

\* A stored answer is a winner's, for the version it expected.
StoredInv ==
    \A e \in answers :
        /\ e.by \in Answerers /\ pc[e.by] \in Won \cup {"failed"}
        /\ e.by \notin Outsiders
        /\ e.resulting = asked[e.by].expected + 1

SessionInv == StartInv /\ RequestInv /\ WinnerInv /\ StoredInv /\ OneAnswerPerVersion /\ OneWinner

LEMMA SessionInvImplies == TypeOK /\ SessionInv => ReplyAgreesWithLog
<1> SUFFICES ASSUME TypeOK, SessionInv, NEW a \in Answerers
             PROVE  LET stored == \E e \in answers : e.by = a
                    IN /\ pc[a] = "done" => row[a] > asked[a].expected /\ (stored \/ version = 0)
                       /\ pc[a] \in {"stale", "missing", "refused"} => ~stored
    BY DEF ReplyAgreesWithLog
<1>1. pc[a] = "done" => row[a] > asked[a].expected
    BY DEF SessionInv, RequestInv
<1>2. pc[a] = "done" => (\E e \in answers : e.by = a) \/ version = 0
    BY DEF SessionInv, WinnerInv, Won
<1>3. pc[a] \in {"stale", "missing", "refused"} => ~\E e \in answers : e.by = a
    BY DEF SessionInv, StoredInv, Won
<1> QED BY <1>1, <1>2, <1>3

LEMMA InitSession == Init => SessionInv
<1> SUFFICES ASSUME Init PROVE SessionInv OBVIOUS
<1>1. \A r \in Requests : pc[r] = "idle" BY DEF Init
<1>2. version = 0 /\ answers = {} BY DEF Init
<1> QED BY <1>1, <1>2 DEF SessionInv, StartInv, RequestInv, WinnerInv, StoredInv,
           OneAnswerPerVersion, OneWinner, Won, Requests, Callers

LEMMA CallersAreRequests == Callers \subseteq Requests /\ Starter \in Requests \ Callers
BY ConstantsAssumption DEF Callers, Requests

\* A request that moves on without writing keeps what is known of every other;
\* of itself it has to show that it stays on its side of the commit.
LEMMA MoveInv ==
    ASSUME TypeOK, SessionInv, NEW r \in Requests, NEW l, Goto(r, l),
           UNCHANGED <<version, answers, asked>>,
           \A q \in Requests \ {r} : row'[q] = row[q],
           r # Starter => pc[Starter] = "done",
           r = Starter => /\ pc[Starter] # "done"
                          /\ l \notin {"reading", "read", "idle"}
                          /\ l = "queued" => pc[Starter] = "idle",
           r \in Answerers =>
               /\ l \in Won \cup {"queued", "stale", "missing"} => r \notin Outsiders
               /\ l \in {"reread", "done"} /\ row'[r] > 0 => row'[r] > asked[r].expected
               /\ l = "done" => row'[r] > 0
               /\ l \in Won => pc[r] \in Won
               /\ pc[r] \in Won \cup {"failed"} => l \in Won \cup {"failed"}
    PROVE  SessionInv'
<1>1. /\ pc'[r] = l
      /\ \A q \in Requests \ {r} : pc'[q] = pc[q]
    BY DEF TypeOK, Goto
<1>2. Answerers \subseteq Requests BY DEF Requests
<1>3. StartInv'
    <2>1. CASE r = Starter
        <3>1. \A q \in Callers : pc'[q] = pc[q] BY <1>1, <2>1, CallersAreRequests
        <3>2. \A q \in Callers : pc'[q] = "idle"
            BY <2>1, <3>1 DEF SessionInv, StartInv
        <3> QED BY <1>1, <2>1, <3>2 DEF SessionInv, StartInv
    <2>2. CASE r # Starter
        BY <1>1, <2>2, CallersAreRequests DEF SessionInv, StartInv
    <2> QED BY <2>1, <2>2
<1>4. RequestInv'
    <2> SUFFICES ASSUME NEW a \in Answerers
                 PROVE  /\ pc'[a] \in Won \cup {"queued", "stale", "missing"} => a \notin Outsiders
                        /\ pc'[a] \in {"reread", "done"} /\ row'[a] > 0 => row'[a] > asked'[a].expected
                        /\ pc'[a] = "done" => row'[a] > 0
        BY DEF RequestInv
    <2>1. CASE a = r BY <1>1, <2>1
    <2>2. CASE a # r BY <1>1, <1>2, <2>2 DEF SessionInv, RequestInv
    <2> QED BY <2>1, <2>2
<1>5. \A a \in Answerers : pc'[a] \in Won => pc[a] \in Won
    BY <1>1, <1>2
<1>6. WinnerInv' BY <1>5 DEF SessionInv, WinnerInv
<1>7. StoredInv' BY <1>1, <1>2 DEF SessionInv, StoredInv
<1>8. OneAnswerPerVersion' BY DEF SessionInv, OneAnswerPerVersion
<1>9. OneWinner' BY <1>5 DEF SessionInv, OneWinner, Won
<1> QED BY <1>3, <1>4, <1>6, <1>7, <1>8, <1>9 DEF SessionInv

LEMMA SameInv ==
    ASSUME SessionInv, UNCHANGED <<version, answers, asked, pc, row>>
    PROVE  SessionInv'
BY DEF SessionInv, StartInv, RequestInv, WinnerInv, StoredInv, OneAnswerPerVersion, OneWinner

\* The Track goes with its session: nothing is stored any more.
LEMMA DeleteInv ==
    ASSUME SessionInv, version' = 0, answers' = {}, UNCHANGED <<asked, pc, row>>
    PROVE  SessionInv'
BY DEF SessionInv, StartInv, RequestInv, WinnerInv, StoredInv, OneAnswerPerVersion, OneWinner

LEMMA CallInv ==
    ASSUME TypeOK, SessionInv, NEW r \in Callers, Call(r)
    PROVE  SessionInv'
<1>1. /\ pc[r] = "idle" /\ pc[Starter] = "done"
      /\ UNCHANGED <<version, answers, row>>
    BY DEF Call, dbVars
<1>2. /\ pc'[r] = "reading"
      /\ \A q \in Requests \ {r} : pc'[q] = pc[q]
    BY CallersAreRequests DEF Call, Goto, TypeOK
<1>3. \A a \in Answerers \ {r} : asked'[a] = asked[a]
    BY DEF Call, TypeOK
<1>4. Answerers \subseteq Requests BY DEF Requests
<1>5. StartInv' BY <1>1, <1>2, CallersAreRequests DEF SessionInv, StartInv
<1>6. \A a \in Answerers : pc'[a] \in Won \cup {"queued", "stale", "missing", "failed"} =>
          a # r /\ pc[a] = pc'[a]
    BY <1>2, <1>4 DEF Won
<1>7. RequestInv' BY <1>1, <1>3, <1>6 DEF SessionInv, RequestInv, Won
<1>8. WinnerInv' BY <1>1, <1>3, <1>6 DEF SessionInv, WinnerInv
<1>9. StoredInv'
    <2> SUFFICES ASSUME NEW e \in answers
                 PROVE  /\ e.by \in Answerers /\ pc'[e.by] \in Won \cup {"failed"}
                        /\ e.by \notin Outsiders
                        /\ e.resulting = asked'[e.by].expected + 1
        BY <1>1 DEF StoredInv
    <2>1. e.by \in Answerers /\ pc[e.by] \in Won \cup {"failed"}
        BY DEF SessionInv, StoredInv
    <2>2. e.by # r BY <1>1, <2>1 DEF Won
    <2> QED BY <1>2, <1>3, <1>4, <2>1, <2>2 DEF SessionInv, StoredInv
<1>10. OneAnswerPerVersion' BY <1>1 DEF SessionInv, OneAnswerPerVersion
<1>11. OneWinner' BY <1>3, <1>6 DEF SessionInv, OneWinner, Won
<1> QED BY <1>5, <1>7, <1>8, <1>9, <1>10, <1>11 DEF SessionInv

\* The compare-and-set: the winner's version is new, so no earlier winner
\* expected it.
LEMMA WinInv ==
    ASSUME TypeOK, SessionInv, NEW a \in Answerers, pc[a] = "queued",
           Matches(a), AnswerCas(a), UNCHANGED <<asked, row>>
    PROVE  SessionInv'
<1> DEFINE new == [by |-> a, question |-> asked[a].question, resulting |-> asked[a].expected + 1]
<1>1. /\ version = asked[a].expected /\ version \in Nat \ {0} /\ version' = version + 1
      /\ answers' = answers \cup {new}
    BY DEF TypeOK, Matches, AnswerCas
<1>2. Answerers \subseteq Requests /\ Answerers \subseteq Callers BY DEF Requests, Callers
<1>3. /\ pc'[a] = "committed"
      /\ \A q \in Requests \ {a} : pc'[q] = pc[q]
    BY <1>2 DEF TypeOK, Matches, AnswerCas, Goto
<1>4. pc[Starter] = "done" BY <1>2 DEF SessionInv, StartInv
<1>5. \A b \in Answerers : asked[b].expected \in Nat BY DEF TypeOK
<1>6. a \notin Outsiders BY DEF SessionInv, RequestInv
<1>7. new.by = a /\ new.resulting = version + 1 BY <1>1
<1>8. StartInv' BY <1>2, <1>3, <1>4, CallersAreRequests DEF SessionInv, StartInv
<1>9. RequestInv' BY <1>2, <1>3, <1>6 DEF SessionInv, RequestInv
<1>10. WinnerInv'
    <2> SUFFICES ASSUME NEW b \in Answerers, pc'[b] \in Won
                 PROVE  version' > asked[b].expected /\ \E e \in answers' : e.by = b
        BY DEF WinnerInv
    <2>1. CASE b = a
        <3>1. new \in answers' /\ new.by = b BY <1>1, <1>7, <2>1
        <3>2. version' > asked[b].expected BY <1>1, <2>1
        <3> HIDE DEF new
        <3> QED BY <3>1, <3>2
    <2>2. CASE b # a
        <3>1. version > asked[b].expected /\ \E e \in answers : e.by = b
            BY <1>1, <1>2, <1>3, <2>2 DEF SessionInv, WinnerInv
        <3> QED BY <1>1, <1>5, <3>1
    <2> QED BY <2>1, <2>2
<1>11. StoredInv'
    <2> SUFFICES ASSUME NEW e \in answers'
                 PROVE  /\ e.by \in Answerers /\ pc'[e.by] \in Won \cup {"failed"}
                        /\ e.by \notin Outsiders
                        /\ e.resulting = asked[e.by].expected + 1
        BY DEF StoredInv
    <2>1. CASE e = new BY <1>1, <1>3, <1>6, <1>7, <2>1 DEF Won
    <2>2. CASE e \in answers
        <3>1. e.by \in Answerers /\ pc[e.by] \in Won \cup {"failed"}
            BY <2>2 DEF SessionInv, StoredInv
        <3>2. e.by # a BY <3>1 DEF Won
        <3> QED BY <1>2, <1>3, <2>2, <3>1, <3>2 DEF SessionInv, StoredInv
    <2> QED BY <1>1, <2>1, <2>2
<1>12. \A e \in answers : e.resulting \in 2..version
    BY <1>1 DEF SessionInv, OneAnswerPerVersion
<1>13. OneAnswerPerVersion'
    <2>1. {e.resulting : e \in answers} = 2..version
        BY <1>1 DEF SessionInv, OneAnswerPerVersion
    <2>2. {e.resulting : e \in answers'} = 2..(version + 1)
        <3>1. {e.resulting : e \in answers'} = {e.resulting : e \in answers} \cup {version + 1}
            BY <1>1, <1>7
        <3>2. 2..(version + 1) = (2..version) \cup {version + 1} BY <1>1
        <3> QED BY <2>1, <3>1, <3>2
    <2>3. \A e, f \in answers' : e.resulting = f.resulting => e = f
        <3> SUFFICES ASSUME NEW e \in answers', NEW f \in answers', e.resulting = f.resulting
                     PROVE  e = f
            OBVIOUS
        <3>1. CASE e \in answers /\ f \in answers BY <3>1 DEF SessionInv, OneAnswerPerVersion
        <3>2. CASE e = new /\ f \in answers BY <1>1, <1>7, <1>12, <3>2
        <3>3. CASE e \in answers /\ f = new BY <1>1, <1>7, <1>12, <3>3
        <3> QED BY <1>1, <3>1, <3>2, <3>3
    <2>4. \A e \in answers' : e.by \notin Outsiders
        BY <1>1, <1>6, <1>7 DEF SessionInv, OneAnswerPerVersion
    <2> QED BY <1>1, <2>2, <2>3, <2>4 DEF OneAnswerPerVersion
<1>14. \A b \in Answerers \ {a} : pc[b] \in Won => asked[b].expected # asked[a].expected
    BY <1>1, <1>5 DEF SessionInv, WinnerInv
<1>15. OneWinner'
    BY <1>2, <1>3, <1>14 DEF SessionInv, OneWinner, Won
<1> QED BY <1>8, <1>9, <1>10, <1>11, <1>13, <1>15 DEF SessionInv

LEMMA CreateInv ==
    ASSUME TypeOK, SessionInv, pc[Starter] = "queued", Goto(Starter, "committed"),
           version' = 1, UNCHANGED <<answers, asked, row>>
    PROVE  SessionInv'
<1>1. /\ pc'[Starter] = "committed"
      /\ \A q \in Callers : pc'[q] = pc[q] /\ pc[q] = "idle"
      /\ answers = {}
    BY CallersAreRequests DEF TypeOK, Goto, SessionInv, StartInv
<1>2. Answerers \subseteq Callers BY DEF Callers
<1> QED BY <1>1, <1>2 DEF SessionInv, StartInv, RequestInv, WinnerInv, StoredInv,
           OneAnswerPerVersion, OneWinner, Won

LEMMA CommitInv ==
    ASSUME TypeOK, SessionInv, NEW r \in Requests, Commit(r)
    PROVE  SessionInv'
<1>1. pc[r] = "queued" /\ UNCHANGED <<asked, row>> BY DEF Commit, CreateSession
<1>2. r # Starter => pc[Starter] = "done" BY <1>1 DEF SessionInv, StartInv, Callers, Requests
<1>3. r \in Answerers => r \notin Outsiders BY <1>1 DEF SessionInv, RequestInv
<1>4. CASE stage = "down" /\ Goto(r, "failed") /\ UNCHANGED dbVars
    BY <1>1, <1>2, <1>4, MoveInv DEF dbVars, Won
<1>5. CASE r = Starter /\ version' = 1 /\ UNCHANGED answers /\ Goto(r, "committed")
    BY <1>1, <1>5, CreateInv
<1>6. CASE r \in Answerers /\ AnswerCas(r)
    <2>1. CASE Matches(r) BY <1>1, <1>6, <2>1, WinInv
    <2>2. CASE ~Matches(r)
        <3>1. r # Starter BY <1>6, ConstantsAssumption
        <3>2. PICK l \in {"missing", "stale"} : Goto(r, l)
            BY <1>6, <2>2 DEF AnswerCas
        <3>3. UNCHANGED <<version, answers>> BY <1>6, <2>2 DEF AnswerCas, dbVars
        <3> QED BY <1>1, <1>2, <1>3, <3>1, <3>2, <3>3, MoveInv DEF Won
    <2> QED BY <2>1, <2>2
<1> QED BY <1>4, <1>5, <1>6 DEF Commit, CreateSession

\* After its commit a winner reads a version past the one it expected.
LEMMA ReadInv ==
    ASSUME TypeOK, SessionInv, NEW r \in Requests, Read(r)
    PROVE  SessionInv'
<1>1. UNCHANGED <<version, answers, asked>> BY DEF Read, dbVars
<1>2. \A q \in Requests \ {r} : row'[q] = row[q] BY DEF Read, TypeOK
<1>3. pc[r] \in {"reading", "rereading"} BY DEF Read
<1>4. r # Starter => pc[Starter] = "done" BY <1>3 DEF SessionInv, StartInv, Callers, Requests
<1>5. CASE pc[r] = "reading" /\ Goto(r, "read")
    <2>1. r # Starter BY <1>5 DEF SessionInv, StartInv
    <2> QED BY <1>1, <1>2, <1>4, <1>5, <2>1, MoveInv DEF Won
<1>6. CASE pc[r] = "rereading" /\ Goto(r, "reread") /\ row' = [row EXCEPT ![r] = version]
    <2>1. row'[r] = version BY <1>6 DEF TypeOK
    <2>2. r \in Answerers /\ row'[r] > 0 => row'[r] > asked[r].expected
        BY <1>6, <2>1 DEF SessionInv, WinnerInv, Won
    <2>3. r \in Answerers => r \notin Outsiders BY <1>6 DEF SessionInv, RequestInv, Won
    <2> QED BY <1>1, <1>2, <1>4, <1>6, <2>2, <2>3, MoveInv DEF Won
<1>7. CASE Goto(r, "failed") /\ UNCHANGED row
    BY <1>1, <1>2, <1>3, <1>4, <1>7, MoveInv DEF Won
<1> QED BY <1>5, <1>6, <1>7 DEF Read

LEMMA ProceedInv ==
    ASSUME TypeOK, SessionInv, NEW r \in Requests, Proceed(r)
    PROVE  SessionInv'
<1> USE DEF dbVars
<1>0. pc[r] \notin {"idle", "queued"} /\ r # Starter => pc[Starter] = "done"
    BY DEF SessionInv, StartInv, Callers, Requests
<1>1. CASE Read(r) BY <1>1, ReadInv
<1>2. CASE Refuse(r)
    <2>1. r # Starter BY <1>2 DEF Refuse, SessionInv, StartInv
    <2> QED BY <1>0, <1>2, <2>1, MoveInv DEF Refuse, Won
<1>3. CASE Commit(r) BY <1>3, CommitInv
<1>4. CASE Resume(r)
    <2>1. PICK l \in {"rereading", "failed"} : Goto(r, l) BY <1>4 DEF Resume
    <2>2. r \in Answerers => r \notin Outsiders BY <1>4 DEF Resume, SessionInv, RequestInv, Won
    <2> QED BY <1>0, <1>4, <2>1, <2>2, MoveInv DEF Resume, Won
<1>5. CASE Publish(r)
    <2>1. r \in Answerers => r \notin Outsiders BY <1>5 DEF Publish, SessionInv, RequestInv, Won
    <2>2. pc[r] = "reread" /\ UNCHANGED <<version, answers, asked, row>> BY <1>5 DEF Publish
    <2>3. CASE row[r] = 0
        <3>1. Goto(r, "failed") BY <1>5, <2>3 DEF Publish
        <3> QED BY <1>0, <2>1, <2>2, <3>1, MoveInv DEF Won
    <2>4. CASE row[r] # 0
        <3>1. Goto(r, "done") BY <1>5, <2>4 DEF Publish
        <3>2. row[r] > 0 BY <2>4 DEF TypeOK, Versions
        <3>3. r \in Answerers => row[r] > asked[r].expected
            BY <2>2, <3>2 DEF SessionInv, RequestInv
        <3> QED BY <1>0, <2>1, <2>2, <3>1, <3>2, <3>3, MoveInv DEF Won
    <2> QED BY <2>3, <2>4
<1>6. CASE r \in Subscribers /\ Subscribe(r)
    <2>1. r # Starter /\ r \notin Answerers BY <1>6, ConstantsAssumption
    <2> QED BY <1>0, <1>6, <2>1, MoveInv DEF Subscribe
<1>7. CASE r \in Answerers /\ Submit(r)
    <2>1. r # Starter BY <1>7, ConstantsAssumption
    <2>2. r \notin Outsiders BY <1>7 DEF Submit, Authorized
    <2>3. PICK l \in {"failed", "queued"} : Goto(r, l) BY <1>7 DEF Submit
    <2> QED BY <1>0, <1>7, <2>1, <2>2, <2>3, MoveInv DEF Submit, Won
<1> QED BY <1>1, <1>2, <1>3, <1>4, <1>5, <1>6, <1>7 DEF Proceed

LEMMA NextSession == TypeOK /\ SessionInv /\ [Next]_vars => SessionInv'
<1> SUFFICES ASSUME TypeOK, SessionInv, [Next]_vars PROVE SessionInv'
    OBVIOUS
<1> USE DEF dbVars, callVars, listenerVars
<1>1. CASE UNCHANGED vars BY <1>1, SameInv DEF vars
<1>2. CASE Start BY <1>2, MoveInv, CallersAreRequests, ConstantsAssumption DEF Start
<1>3. ASSUME NEW r \in Callers, Call(r) PROVE SessionInv' BY <1>3, CallInv
<1>4. ASSUME NEW r \in Requests, Proceed(r) PROVE SessionInv' BY <1>4, ProceedInv
<1>5. ASSUME NEW s \in Subscribers, Disconnect(s) PROVE SessionInv'
    BY <1>5, SameInv DEF Disconnect
<1>6. CASE DeleteTrack BY <1>6, DeleteInv DEF DeleteTrack
<1>7. CASE Detach \/ CloseReaders \/ CloseWriter
    BY <1>7, SameInv DEF Detach, CloseReaders, CloseWriter
<1> QED BY <1>1, <1>2, <1>3, <1>4, <1>5, <1>6, <1>7 DEF Next, Callers

LEMMA SessionHolds == Spec => [](TypeOK /\ SessionInv)
BY InitType, NextType, InitSession, NextSession, PTL DEF Spec

\* Each version after the first was made by exactly one stored answer.
THEOREM AnswersLinear == Spec => []OneAnswerPerVersion
BY SessionHolds, PTL DEF SessionInv

\* Two answers that expect the same version never both win.
THEOREM WinnersDistinct == Spec => []OneWinner
BY SessionHolds, PTL DEF SessionInv

\* What a client is told agrees with what is stored.
THEOREM RepliesAgree == Spec => []ReplyAgreesWithLog
BY SessionHolds, SessionInvImplies, PTL

-----------------------------------------------------------------------------
(* The listeners *)

\* While the integration is loaded only the set in the dictionary has members,
\* all of the session's user, and a subscriber told so is in the set its
\* callback closed over: no callback works on a set that was replaced.
ListenerInv ==
    stage = "up" =>
        /\ \A s \in Subscribers : members[s] # {} => entry = s
        /\ \A s \in Subscribers : members[s] \cap Outsiders = {}
        /\ \A s \in Subscribers : pc[s] = "subscribed" /\ open[s]
               => joined[s] \in Subscribers /\ s \in members[joined[s]]

\* A subscription adds to the registered set only.
LEMMA SubscribeListeners ==
    ASSUME TypeOK, ListenerInv, NEW s \in Subscribers, Subscribe(s)
    PROVE  ListenerInv'
<1> SUFFICES ASSUME stage = "up" PROVE ListenerInv'
    BY DEF Subscribe, ListenerInv
<1>1. /\ SetFor(s) \in Subscribers /\ entry' = SetFor(s) /\ s \notin Outsiders
      /\ members' = [members EXCEPT ![SetFor(s)] = @ \cup {s}]
      /\ joined' = [joined EXCEPT ![s] = SetFor(s)]
      /\ pc' = [pc EXCEPT ![s] = "subscribed"] /\ open' = open
    BY DEF TypeOK, SetFor, Subscribe, Authorized, Goto
<1>2. \A t \in Subscribers : t # SetFor(s) => members[t] = {}
    BY ConstantsAssumption DEF ListenerInv, SetFor, Requests, TypeOK
<1>3. \A t \in Subscribers : members'[t] # {} => entry' = t
    BY <1>1, <1>2 DEF TypeOK
<1>4. \A t \in Subscribers : members'[t] \cap Outsiders = {}
    BY <1>1 DEF TypeOK, ListenerInv
<1>5. ASSUME NEW t \in Subscribers, pc'[t] = "subscribed", open'[t]
      PROVE  joined'[t] \in Subscribers /\ t \in members'[joined'[t]]
    <2>1. CASE t = s BY <1>1, <2>1 DEF TypeOK
    <2>2. CASE t # s
        BY <1>1, <1>5, <2>2 DEF TypeOK, ListenerInv, Requests
    <2> QED BY <2>1, <2>2
<1> QED BY <1>3, <1>4, <1>5 DEF ListenerInv

\* A closure removes from the set that is registered, or that is empty.
LEMMA DisconnectListeners ==
    ASSUME TypeOK, ListenerInv, NEW s \in Subscribers, Disconnect(s)
    PROVE  ListenerInv'
<1> SUFFICES ASSUME stage = "up" PROVE ListenerInv'
    BY DEF Disconnect, ListenerInv
<1>1. /\ open' = [open EXCEPT ![s] = FALSE] /\ open[s] /\ UNCHANGED <<pc, joined, stage>>
    BY DEF Disconnect, callVars
<1>2. CASE pc[s] = "subscribed"
    <2>1. joined[s] \in Subscribers /\ s \in members[joined[s]] /\ entry = joined[s]
        BY <1>1, <1>2 DEF ListenerInv
    <2>2. /\ members' = [members EXCEPT ![joined[s]] = @ \ {s}]
          /\ members[joined[s]] \ {s} # {} => entry' = entry
        BY <1>2, <2>1 DEF Disconnect, Unsubscribed, TypeOK
    <2>3. \A t \in Subscribers : members'[t] # {} => entry' = t
        BY <2>1, <2>2 DEF ListenerInv, TypeOK
    <2>4. \A t \in Subscribers : members'[t] \cap Outsiders = {}
        BY <2>1, <2>2 DEF ListenerInv, TypeOK
    <2>5. \A t \in Subscribers : pc'[t] = "subscribed" /\ open'[t]
              => joined'[t] \in Subscribers /\ t \in members'[joined'[t]]
        BY <1>1, <2>1, <2>2 DEF ListenerInv, TypeOK
    <2> QED BY <2>3, <2>4, <2>5 DEF ListenerInv
<1>3. CASE pc[s] # "subscribed"
    BY <1>1, <1>3 DEF Disconnect, ListenerInv, TypeOK
<1> QED BY <1>2, <1>3

\* A step that leaves the sets alone and subscribes nobody keeps the listeners.
LEMMA SameListeners ==
    ASSUME ListenerInv, UNCHANGED <<entry, members, joined, open>>,
           stage' = "up" => stage = "up",
           \A s \in Subscribers : pc'[s] = "subscribed" => pc[s] = "subscribed"
    PROVE  ListenerInv'
BY DEF ListenerInv

LEMMA GotoListeners ==
    ASSUME TypeOK, ListenerInv, UNCHANGED <<entry, members, joined, open, stage>>,
           NEW r, NEW l, l # "subscribed", Goto(r, l)
    PROVE  ListenerInv'
<1>1. pc' = [pc EXCEPT ![r] = l] /\ DOMAIN pc = Requests
    BY DEF Goto, TypeOK
<1>2. \A s \in Subscribers : pc'[s] = "subscribed" => pc[s] = "subscribed"
    BY <1>1 DEF Requests
<1> QED BY <1>2, SameListeners

LEMMA ProceedListeners ==
    ASSUME TypeOK, ListenerInv, NEW r \in Requests, Proceed(r)
    PROVE  ListenerInv'
<1>1. CASE Read(r)
    <2>1. UNCHANGED <<entry, members, joined, open, stage>>
          /\ (Goto(r, "read") \/ Goto(r, "reread") \/ Goto(r, "failed"))
        BY <1>1 DEF Read, listenerVars
    <2> QED BY <2>1, GotoListeners
<1>2. CASE Refuse(r)
    <2>1. UNCHANGED <<entry, members, joined, open, stage>> /\ Goto(r, "refused")
        BY <1>2 DEF Refuse, listenerVars
    <2> QED BY <2>1, GotoListeners
<1>3. CASE Commit(r)
    <2>1. UNCHANGED <<entry, members, joined, open, stage>>
        BY <1>3 DEF Commit, CreateSession, listenerVars
    <2>2. Goto(r, "failed") \/ Goto(r, "committed") \/ AnswerCas(r)
        BY <1>3 DEF Commit, CreateSession
    <2>3. AnswerCas(r) => Goto(r, "committed") \/ Goto(r, "missing") \/ Goto(r, "stale")
        BY DEF AnswerCas, Goto
    <2> QED BY <2>1, <2>2, <2>3, GotoListeners
<1>4. CASE Resume(r)
    <2>1. UNCHANGED <<entry, members, joined, open, stage>>
          /\ (Goto(r, "rereading") \/ Goto(r, "failed"))
        BY <1>4 DEF Resume, Goto, listenerVars
    <2> QED BY <2>1, GotoListeners
<1>5. CASE Publish(r)
    <2>1. UNCHANGED <<entry, members, joined, open, stage>>
          /\ (Goto(r, "done") \/ Goto(r, "failed"))
        BY <1>5 DEF Publish, Goto
    <2> QED BY <2>1, GotoListeners
<1>6. CASE r \in Answerers /\ Submit(r)
    <2>1. UNCHANGED <<entry, members, joined, open, stage>>
          /\ (Goto(r, "queued") \/ Goto(r, "failed"))
        BY <1>6 DEF Submit, Goto, listenerVars
    <2> QED BY <2>1, GotoListeners
<1> QED BY <1>1, <1>2, <1>3, <1>4, <1>5, <1>6, SubscribeListeners DEF Proceed

LEMMA NextListeners == TypeOK /\ ListenerInv /\ [Next]_vars => ListenerInv'
<1> SUFFICES ASSUME TypeOK, ListenerInv, [Next]_vars PROVE ListenerInv'
    OBVIOUS
<1>1. CASE Start
    <2>1. UNCHANGED <<entry, members, joined, open, stage>> /\ Goto(Starter, "queued")
        BY <1>1 DEF Start, listenerVars
    <2> QED BY <2>1, GotoListeners
<1>2. CASE UNCHANGED vars \/ DeleteTrack \/ CloseReaders \/ CloseWriter
    <2>1. UNCHANGED <<entry, members, joined, open, pc>> /\ (stage' = "up" => stage = "up")
        BY <1>2 DEF vars, DeleteTrack, CloseReaders, CloseWriter, listenerVars, callVars
    <2> QED BY <2>1, SameListeners
<1>3. ASSUME NEW r \in Answerers \cup Subscribers, Call(r) PROVE ListenerInv'
    <2>1. UNCHANGED <<entry, members, joined, open, stage>> /\ Goto(r, "reading")
        BY <1>3 DEF Call, listenerVars
    <2> QED BY <2>1, GotoListeners
<1>4. CASE Detach BY <1>4 DEF Detach, ListenerInv
<1> QED BY <1>1, <1>2, <1>3, <1>4, ProceedListeners, DisconnectListeners DEF Next

\* As long as the entry is loaded, a subscriber that was told so and is still
\* connected is among those every publication reaches, whoever leaves or joins
\* meanwhile, and no other user's connection is.
THEOREM SubscribersStay == Spec => []SubscribersAttached
<1>1. Init => ListenerInv
    BY DEF Init, ListenerInv, Requests
<1>2. TypeOK /\ ListenerInv => SubscribersAttached
    <2> SUFFICES ASSUME TypeOK, ListenerInv, stage = "up"
                 PROVE  /\ \A s \in Subscribers : pc[s] = "subscribed" /\ open[s] => s \in Listeners
                        /\ Listeners \cap Outsiders = {}
        BY DEF SubscribersAttached
    <2>1. ASSUME NEW s \in Subscribers, pc[s] = "subscribed", open[s] PROVE s \in Listeners
        <3>1. joined[s] \in Subscribers /\ s \in members[joined[s]] BY <2>1 DEF ListenerInv
        <3>2. entry = joined[s] BY <3>1 DEF ListenerInv
        <3>3. entry # None BY <3>1, <3>2, ConstantsAssumption DEF Requests
        <3> QED BY <3>1, <3>2, <3>3 DEF Listeners
    <2>2. Listeners \cap Outsiders = {} BY DEF Listeners, ListenerInv, TypeOK
    <2> QED BY <2>1, <2>2
<1> QED BY <1>1, <1>2, NextListeners, TypeCorrect, PTL DEF Spec
=============================================================================
