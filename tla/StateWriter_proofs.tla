-------------------------- MODULE StateWriter_proofs --------------------------
(***************************************************************************)
(* Proofs about the gate of state.db: for every number of write calls, of  *)
(* backups, cancellations and timeouts, with or without an unload.         *)
(***************************************************************************)
EXTENDS StateWriter, FiniteSetTheorems, TLAPS

-----------------------------------------------------------------------------
(* Queues: the waiters of the gate and the jobs of the executor hold each task  *)
(* at most once.                                                               *)

Elems(s) == {s[i] : i \in DOMAIN s}
Distinct(s) == \A i, j \in DOMAIN s : s[i] = s[j] => i = j

LEMMA EmptyQueue ==
    ASSUME NEW S, NEW s \in Seq(S)
    PROVE  Elems(s) = {} <=> s = <<>>
BY DEF Elems

LEMMA AppendQueue ==
    ASSUME NEW S, NEW s \in Seq(S), NEW a \in S, a \notin Elems(s), Distinct(s)
    PROVE  /\ Append(s, a) \in Seq(S)
           /\ Elems(Append(s, a)) = Elems(s) \cup {a} /\ Distinct(Append(s, a))
<1> DEFINE q == Append(s, a)
<1>1. q \in Seq(S) /\ Len(q) = Len(s) + 1 /\ q[Len(s) + 1] = a /\ \A i \in 1..Len(s) : q[i] = s[i]
    OBVIOUS
<1>2. DOMAIN s = 1..Len(s) /\ DOMAIN q = 1..(Len(s) + 1) /\ Len(s) \in Nat
    BY <1>1
<1> HIDE DEF q
<1>3. Elems(q) = Elems(s) \cup {a} BY <1>1, <1>2 DEF Elems
<1>4. Distinct(q) BY <1>1, <1>2 DEF Elems, Distinct
<1> QED BY <1>1, <1>3, <1>4 DEF q

LEMMA TailQueue ==
    ASSUME NEW S, NEW s \in Seq(S), s # <<>>, Distinct(s)
    PROVE  /\ Head(s) \in S /\ Head(s) \in Elems(s) /\ Tail(s) \in Seq(S)
           /\ Elems(Tail(s)) = Elems(s) \ {Head(s)} /\ Distinct(Tail(s))
<1> DEFINE q == Tail(s)
<1>1. /\ q \in Seq(S) /\ Len(q) = Len(s) - 1 /\ Head(s) = s[1] /\ Head(s) \in S
      /\ \A i \in 1..(Len(s) - 1) : q[i] = s[i + 1]
    OBVIOUS
<1>2. DOMAIN s = 1..Len(s) /\ DOMAIN q = 1..(Len(s) - 1) /\ Len(s) \in Nat \ {0}
    BY <1>1
<1> HIDE DEF q
<1>3. \A i \in 2..Len(s) : i - 1 \in DOMAIN q /\ q[i - 1] = s[i]
    BY <1>1, <1>2
<1>4. Elems(q) = Elems(s) \ {Head(s)}
    <2>1. \A x \in Elems(q) : x \in Elems(s) /\ x # s[1]
        BY <1>1, <1>2 DEF Elems, Distinct
    <2>2. \A i \in DOMAIN s : s[i] # s[1] => i \in 2..Len(s) BY <1>2
    <2>3. \A x \in Elems(s) : x # s[1] => x \in Elems(q)
        BY <1>2, <1>3, <2>2 DEF Elems
    <2> QED BY <1>1, <2>1, <2>3
<1>5. Distinct(q) BY SMTT(30), <1>1, <1>2 DEF Distinct
<1> QED BY <1>1, <1>2, <1>4, <1>5 DEF q, Elems

LEMMA WithoutQueue ==
    ASSUME NEW S, NEW s \in Seq(S), NEW a, Distinct(s)
    PROVE  /\ Without(s, a) \in Seq(S)
           /\ Elems(Without(s, a)) = Elems(s) \ {a} /\ Distinct(Without(s, a))
<1>1. CASE \A i \in DOMAIN s : s[i] # a BY <1>1 DEF Without, Elems
<1>2. CASE ~ \A i \in DOMAIN s : s[i] # a
    <2> DEFINE k == CHOOSE i \in DOMAIN s : s[i] = a
               q == [i \in 1..(Len(s) - 1) |-> IF i < k THEN s[i] ELSE s[i + 1]]
    <2>1. Without(s, a) = q BY <1>2 DEF Without
    <2>2. k \in 1..Len(s) /\ s[k] = a BY <1>2
    <2> HIDE DEF k
    <2>3. Len(s) \in Nat \ {0} /\ DOMAIN s = 1..Len(s) BY <2>2
    <2>4. \A i \in 1..(Len(s) - 1) : i \in 1..Len(s) /\ i + 1 \in 1..Len(s) BY <2>3
    <2>5. q \in Seq(S)
        <3>1. \A i \in 1..Len(s) : s[i] \in S OBVIOUS
        <3>2. \A i \in 1..(Len(s) - 1) : q[i] \in S BY <2>4, <3>1
        <3>3. Len(s) - 1 \in Nat BY <2>3
        <3>4. q \in [1..(Len(s) - 1) -> S] BY <3>2
        <3> QED BY <3>3, <3>4
    <2>6. DOMAIN q = 1..(Len(s) - 1) OBVIOUS
    <2>7. \A i \in DOMAIN q : q[i] = (IF i < k THEN s[i] ELSE s[i + 1]) OBVIOUS
    <2> HIDE DEF q
    <2>8. \A i \in DOMAIN q : \E j \in DOMAIN s : q[i] = s[j] /\ j # k /\ ((j = i /\ i < k) \/ (j = i + 1 /\ i >= k))
        BY <2>2, <2>3, <2>4, <2>6, <2>7
    <2>9. \A j \in DOMAIN s : j # k => \E i \in DOMAIN q : q[i] = s[j]
        <3> TAKE j \in DOMAIN s
        <3>1. CASE j < k BY <2>2, <2>3, <2>6, <2>7, <3>1
        <3>2. CASE j > k
            <4>1. j - 1 \in DOMAIN q /\ ~(j - 1 < k) /\ (j - 1) + 1 = j BY <2>2, <2>3, <2>6, <3>2
            <4>2. q[j - 1] = s[j] BY <2>7, <4>1
            <4> QED BY <4>1, <4>2
        <3> QED BY <2>2, <2>3, <3>1, <3>2
    <2>10. Elems(q) = Elems(s) \ {a}
        <3>1. \A x \in Elems(q) : x \in Elems(s) /\ x # a
            BY <2>2, <2>3, <2>8 DEF Elems, Distinct
        <3>2. \A x \in Elems(s) : x # a => x \in Elems(q)
            BY <2>2, <2>9 DEF Elems
        <3> QED BY <3>1, <3>2
    <2>11. Distinct(q)
        <3>1. ASSUME NEW i \in DOMAIN q, NEW j \in DOMAIN q, q[i] = q[j] PROVE i = j
            <4>1. PICK m \in DOMAIN s : q[i] = s[m] /\ m # k /\ ((m = i /\ i < k) \/ (m = i + 1 /\ i >= k))
                BY <2>8
            <4>2. PICK n \in DOMAIN s : q[j] = s[n] /\ n # k /\ ((n = j /\ j < k) \/ (n = j + 1 /\ j >= k))
                BY <2>8
            <4>3. m = n BY <3>1, <4>1, <4>2 DEF Distinct
            <4> QED BY <2>2, <2>3, <2>6, <4>1, <4>2, <4>3
        <3> QED BY <3>1 DEF Distinct
    <2> QED BY <2>1, <2>5, <2>10, <2>11
<1> QED BY <1>1, <1>2

-----------------------------------------------------------------------------
(* The inductive invariant *)

\* Blocked in the acquire, or woken from it, of the gate ...
Waiting(a) ==
    \/ a \in Writers /\ wpc[a] = "queued"
    \/ a = HA /\ bpc = "queued"
    \/ a = Unloader /\ upc = "queued"
\* ... and past it, behind a job.
Working(a) ==
    \/ a \in Writers /\ wpc[a] = "submitted"
    \/ a = HA /\ bpc = "checkpoint"
    \/ a = Unloader /\ upc = "closing"

TypeInv ==
    /\ gate \in Actors \cup {Nobody}
    /\ waiters \in Seq(Actors) /\ Distinct(waiters)
    /\ backupActive \in BOOLEAN /\ closed \in BOOLEAN /\ loaded \in BOOLEAN
    /\ wpc \in [Writers -> {"idle", "queued", "submitted", "done", "failed", "cancelled"}]
    /\ write \in [Writers -> Operations]
    /\ bpc \in {"idle", "queued", "checkpoint", "archive", "failed"}
    /\ upc \in {"up", "stopping", "content", "queued", "closing", "shutdown", "joining", "down"}
    /\ backups \in 0..MaxBackups
    /\ jobs \in Seq(Actors) /\ Distinct(jobs)
    /\ running \in [actor : Actors \cup {Nobody}, awaited : BOOLEAN]
    /\ result \in [Actors -> {"none", "ok", "error", "cancelled"}]
    /\ connected \in BOOLEAN /\ inTransaction \in BOOLEAN
    /\ db \subseteq Writers /\ wal \subseteq db

\* Whoever is in the queue waits, and the gate was not handed to one that has not
\* asked for it.
GateInv ==
    /\ \A a \in Elems(waiters) : Waiting(a) /\ a # gate
    /\ \A w \in Writers : wpc[w] = "idle" => gate # w
    /\ gate = Unloader => upc \notin {"up", "stopping", "content"}

\* Each job is that of a task behind it; the thread may still run one whose
\* task was cancelled.
JobInv ==
    /\ \A a \in Elems(jobs) : Working(a) /\ result[a] = "none"
    /\ running.awaited =>
           /\ Working(running.actor) /\ result[running.actor] = "none"
           /\ running.actor \notin Elems(jobs)
    /\ \A w \in Writers : running.actor = w /\ ~running.awaited => wpc[w] = "cancelled"
    /\ \A a \in Actors : result[a] # "none" => Working(a)

\* What is in db, by where each call is.
StoredInv ==
    \A w \in Writers :
        /\ wpc[w] = "done" \/ result[w] = "ok" => w \in db
        /\ wpc[w] \in {"idle", "queued"} \/ result[w] \in {"error", "cancelled"} => w \notin db
        /\ w \in Elems(jobs) \/ running.actor = w => w \notin db
        /\ Undisturbed /\ wpc[w] = "failed" => w \notin db

PhaseInv ==
    /\ loaded <=> upc = "up"
    /\ backups = 0 => bpc = "idle" /\ ~backupActive

\* Until a backup meets an unload, the gate has the owner the code assumes.
OwnInv ==
    Undisturbed =>
        /\ \A a \in Actors : Working(a) => gate = a
        /\ backupActive => gate = HA
        /\ gate # Nobody => Waiting(gate) \/ Working(gate) \/ (gate = HA /\ backupActive)
        /\ bpc \in {"checkpoint", "archive"} => backupActive
        /\ bpc \in {"idle", "queued"} => ~backupActive

\* From the end of the checkpoint until the hook releases the gate no job is left.
FrozenInv ==
    loaded /\ (bpc = "archive" \/ (bpc = "checkpoint" /\ result[HA] = "ok"))
        => jobs = <<>> /\ running = Idle

Inv == TypeInv /\ GateInv /\ JobInv /\ StoredInv /\ PhaseInv /\ OwnInv /\ FrozenInv

LEMMA Apart ==
    /\ HA \notin Writers /\ Unloader \notin Writers /\ Nobody \notin Actors
    /\ HA # Unloader /\ HA \in Actors /\ Unloader \in Actors /\ Writers \subseteq Actors
    /\ HA # Nobody /\ Unloader # Nobody /\ Nobody \notin Writers
    /\ \A a \in Actors : a \in Writers \/ a = HA \/ a = Unloader
BY ConstantsAssumption DEF ConstantsAssumption, Actors

-----------------------------------------------------------------------------
(* What the operations on the gate and on the executor do. *)

LEMMA ReleaseEffect ==
    ASSUME TypeInv, Release
    PROVE  /\ gate' \in Elems(waiters) \cup {Nobody} /\ gate' \in Actors \cup {Nobody}
           /\ waiters' \in Seq(Actors) /\ Distinct(waiters')
           /\ Elems(waiters') = Elems(waiters) \ {gate'}
<1>1. CASE waiters = <<>>
    <2>1. Elems(waiters) = {} BY <1>1, EmptyQueue DEF TypeInv
    <2> QED BY <1>1, <2>1 DEF Release, TypeInv
<1>2. CASE waiters # <<>>
    <2>1. /\ Head(waiters) \in Actors /\ Head(waiters) \in Elems(waiters)
          /\ Tail(waiters) \in Seq(Actors) /\ Distinct(Tail(waiters))
          /\ Elems(Tail(waiters)) = Elems(waiters) \ {Head(waiters)}
        BY <1>2, TailQueue DEF TypeInv
    <2>2. gate' = Head(waiters) /\ waiters' = Tail(waiters) BY <1>2 DEF Release
    <2> QED BY <2>1, <2>2
<1> QED BY <1>1, <1>2

LEMMA QueueEffect ==
    ASSUME TypeInv, NEW a \in Actors, a \notin Elems(waiters), Queue(a)
    PROVE  /\ gate' = gate /\ waiters' \in Seq(Actors) /\ Distinct(waiters')
           /\ Elems(waiters') = Elems(waiters) \cup {a}
BY AppendQueue DEF Queue, TypeInv

LEMMA LeaveEffect ==
    ASSUME TypeInv, NEW a, LeaveQueue(a)
    PROVE  /\ gate' \in Actors \cup {Nobody} /\ waiters' \in Seq(Actors) /\ Distinct(waiters')
           /\ gate = a => gate' \in Elems(waiters) \cup {Nobody} /\ Elems(waiters') = Elems(waiters) \ {gate'}
           /\ gate # a => gate' = gate /\ Elems(waiters') = Elems(waiters) \ {a}
BY ReleaseEffect, WithoutQueue DEF LeaveQueue, TypeInv

LEMMA SubmitEffect ==
    ASSUME TypeInv, NEW a \in Actors, a \notin Elems(jobs), Submit(a)
    PROVE  /\ jobs' \in Seq(Actors) /\ Distinct(jobs') /\ Elems(jobs') = Elems(jobs) \cup {a}
           /\ UNCHANGED <<running, result>>
BY AppendQueue DEF Submit, TypeInv

LEMMA AbandonEffect ==
    ASSUME TypeInv, NEW a \in Actors, Abandon(a)
    PROVE  /\ jobs' \in Seq(Actors) /\ Distinct(jobs') /\ Elems(jobs') = Elems(jobs) \ {a}
           /\ running' \in [actor : Actors \cup {Nobody}, awaited : BOOLEAN]
           /\ running'.actor = running.actor
           /\ running'.awaited <=> running.awaited /\ running.actor # a
           /\ running'.actor = Nobody => running' = running
           /\ result' \in [Actors -> {"none", "ok", "error", "cancelled"}]
           /\ result'[a] = "none" /\ \A b \in Actors : b # a => result'[b] = result[b]
<1>1. jobs' \in Seq(Actors) /\ Distinct(jobs') /\ Elems(jobs') = Elems(jobs) \ {a}
    BY WithoutQueue DEF Abandon, TypeInv
<1>2. a # Nobody BY Apart
<1>3. running \in [actor : Actors \cup {Nobody}, awaited : BOOLEAN] BY DEF TypeInv
<1>4. running' = IF running.actor = a THEN [running EXCEPT !.awaited = FALSE] ELSE running
    BY DEF Abandon
<1>5. /\ running' \in [actor : Actors \cup {Nobody}, awaited : BOOLEAN]
      /\ running'.actor = running.actor
      /\ running'.awaited <=> running.awaited /\ running.actor # a
      /\ running'.actor = Nobody => running' = running
    BY <1>2, <1>3, <1>4
<1>6. /\ result' \in [Actors -> {"none", "ok", "error", "cancelled"}]
      /\ result'[a] = "none" /\ \A b \in Actors : b # a => result'[b] = result[b]
    BY DEF Abandon, TypeInv
<1> QED BY <1>1, <1>5, <1>6

LEMMA CollectEffect ==
    ASSUME TypeInv, NEW a \in Actors, Collect(a)
    PROVE  /\ result' \in [Actors -> {"none", "ok", "error", "cancelled"}]
           /\ result'[a] = "none" /\ \A b \in Actors : b # a => result'[b] = result[b]
           /\ UNCHANGED <<jobs, running>>
BY DEF Collect, TypeInv

LEMMA EndEffect ==
    ASSUME TypeInv, NEW outcome \in {"ok", "error"}, EndJob(outcome)
    PROVE  /\ running' = Idle /\ jobs' = jobs
           /\ result' \in [Actors -> {"none", "ok", "error", "cancelled"}]
           /\ \A a \in Actors :
                  result'[a] = IF running.awaited /\ running.actor = a THEN outcome ELSE result[a]
BY DEF EndJob, TypeInv

LEMMA IdleRunning ==
    /\ Idle \in [actor : Actors \cup {Nobody}, awaited : BOOLEAN]
    /\ Idle.actor = Nobody /\ ~Idle.awaited
BY DEF Idle

LEMMA InvParts ==
    ASSUME Inv
    PROVE  TypeInv /\ GateInv /\ JobInv /\ StoredInv /\ PhaseInv /\ OwnInv /\ FrozenInv
BY DEF Inv

-----------------------------------------------------------------------------
(* A write call *)

LEMMA CallWriterKeeps ==
    ASSUME Inv, NEW w \in Writers, CallWriter(w)
    PROVE  Inv'
<1>0. TypeInv /\ GateInv /\ JobInv /\ StoredInv /\ PhaseInv /\ OwnInv /\ FrozenInv BY InvParts
<1>1. /\ wpc[w] = "idle" /\ write' \in [Writers -> Operations]
      /\ UNCHANGED <<backupActive, closed, loaded, bpc, upc, backups, dbVars>>
    BY <1>0 DEF CallWriter, TypeInv
<1>2. w \in Actors /\ w \notin Elems(waiters) /\ w \notin Elems(jobs) /\ gate # w
    BY <1>0, <1>1, Apart DEF GateInv, JobInv, Working, Waiting
<1>3. /\ gate' \in Actors \cup {Nobody} /\ waiters' \in Seq(Actors) /\ Distinct(waiters')
      /\ jobs' \in Seq(Actors) /\ Distinct(jobs') /\ UNCHANGED <<running, result>>
      /\ \/ /\ wpc' = [wpc EXCEPT ![w] = "failed"]
            /\ gate' = gate /\ Elems(waiters') = Elems(waiters) /\ jobs' = jobs
         \/ /\ wpc' = [wpc EXCEPT ![w] = "submitted"] /\ gate = Nobody /\ Elems(waiters) = {}
            /\ gate' = w /\ Elems(waiters') = {} /\ Elems(jobs') = Elems(jobs) \cup {w}
         \/ /\ wpc' = [wpc EXCEPT ![w] = "queued"]
            /\ gate' = gate /\ Elems(waiters') = Elems(waiters) \cup {w} /\ jobs' = jobs
    BY <1>0, <1>1, <1>2, QueueEffect, SubmitEffect, EmptyQueue DEF CallWriter, Free, TypeInv, execVars
<1>4. TypeInv'
    BY SMTT(60), <1>0, <1>1, <1>2, <1>3, Apart DEF TypeInv, Operations, dbVars
<1>5. GateInv'
    BY <1>0, <1>1, <1>2, <1>3, Apart, IdleRunning DEF GateInv, TypeInv, Waiting, Working, dbVars
<1>6. JobInv'
    BY <1>0, <1>1, <1>2, <1>3, Apart, IdleRunning DEF JobInv, TypeInv, Waiting, Working, dbVars
<1>7. StoredInv'
    BY <1>0, <1>1, <1>2, <1>3, Apart, IdleRunning DEF StoredInv, Undisturbed, TypeInv, dbVars
<1>8. PhaseInv'
    BY <1>0, <1>1, <1>2, <1>3, Apart, IdleRunning DEF PhaseInv, TypeInv, dbVars
<1>9. OwnInv'
    BY <1>0, <1>1, <1>2, <1>3, Apart, IdleRunning DEF OwnInv, Undisturbed, PhaseInv, GateInv, TypeInv, Waiting, Working, dbVars
<1>10. FrozenInv'
    BY <1>0, <1>1, <1>2, <1>3, Apart, IdleRunning DEF FrozenInv, OwnInv, Undisturbed, TypeInv, Waiting, Working, dbVars
<1> QED BY <1>4, <1>5, <1>6, <1>7, <1>8, <1>9, <1>10 DEF Inv

LEMMA ResumeWriterKeeps ==
    ASSUME Inv, NEW w \in Writers, ResumeWriter(w)
    PROVE  Inv'
<1>0. TypeInv /\ GateInv /\ JobInv /\ StoredInv /\ PhaseInv /\ OwnInv /\ FrozenInv BY InvParts
<1>1. /\ wpc[w] = "queued" /\ gate = w /\ w \in Actors
      /\ UNCHANGED <<backupActive, closed, loaded, write, bpc, upc, backups, dbVars>>
    BY Apart DEF ResumeWriter
<1>2. w \notin Elems(waiters) /\ w \notin Elems(jobs)
    BY <1>0, <1>1, Apart DEF GateInv, JobInv, Working
<1>3. \/ /\ wpc' = [wpc EXCEPT ![w] = "failed"] /\ UNCHANGED <<jobs, running, result>>
         /\ gate' \in Elems(waiters) \cup {Nobody} /\ gate' \in Actors \cup {Nobody}
         /\ waiters' \in Seq(Actors) /\ Distinct(waiters')
         /\ Elems(waiters') = Elems(waiters) \ {gate'}
      \/ /\ wpc' = [wpc EXCEPT ![w] = "submitted"] /\ UNCHANGED <<gate, waiters, running, result>>
         /\ jobs' \in Seq(Actors) /\ Distinct(jobs') /\ Elems(jobs') = Elems(jobs) \cup {w}
    BY <1>0, <1>1, <1>2, ReleaseEffect, SubmitEffect DEF ResumeWriter, execVars
<1>4. /\ gate' \in Actors \cup {Nobody} /\ waiters' \in Seq(Actors) /\ Distinct(waiters')
      /\ jobs' \in Seq(Actors) /\ Distinct(jobs') /\ UNCHANGED <<running, result>>
      /\ wpc' \in [Writers -> {"idle", "queued", "submitted", "done", "failed", "cancelled"}]
    BY <1>0, <1>3 DEF TypeInv
<1>5. TypeInv'
    BY <1>0, <1>1, <1>2, <1>3, <1>4, Apart DEF TypeInv, Operations, dbVars
<1>6. GateInv'
    BY <1>0, <1>1, <1>2, <1>3, <1>4, Apart, IdleRunning DEF GateInv, TypeInv, Waiting, Working, dbVars
<1>7. JobInv'
    BY <1>0, <1>1, <1>2, <1>3, <1>4, Apart, IdleRunning DEF JobInv, TypeInv, Waiting, Working, dbVars
<1>8. StoredInv'
    BY <1>0, <1>1, <1>2, <1>3, <1>4, Apart, IdleRunning DEF StoredInv, Undisturbed, TypeInv, dbVars
<1>9. PhaseInv'
    BY <1>0, <1>1, <1>2, <1>3, <1>4, Apart, IdleRunning DEF PhaseInv, TypeInv, dbVars
<1>10. OwnInv'
    BY <1>0, <1>1, <1>2, <1>3, <1>4, Apart, IdleRunning DEF OwnInv, Undisturbed, PhaseInv, GateInv, TypeInv, Waiting, Working, dbVars
<1>11. FrozenInv'
    BY <1>0, <1>1, <1>2, <1>3, <1>4, Apart, IdleRunning DEF FrozenInv, OwnInv, Undisturbed, TypeInv, Waiting, Working, dbVars
<1> QED BY <1>5, <1>6, <1>7, <1>8, <1>9, <1>10, <1>11 DEF Inv

LEMMA ReturnWriterKeeps ==
    ASSUME Inv, NEW w \in Writers, ReturnWriter(w)
    PROVE  Inv'
<1>0. TypeInv /\ GateInv /\ JobInv /\ StoredInv /\ PhaseInv /\ OwnInv /\ FrozenInv BY InvParts
<1>1. /\ wpc[w] = "submitted" /\ result[w] # "none" /\ w \in Actors
      /\ wpc' = [wpc EXCEPT ![w] = WriteOutcome(w)]
      /\ UNCHANGED <<backupActive, closed, loaded, write, bpc, upc, backups, dbVars>>
    BY Apart DEF ReturnWriter
<1>2. /\ WriteOutcome(w) \in {"done", "failed", "cancelled"}
      /\ WriteOutcome(w) = "done" => result[w] = "ok"
      /\ WriteOutcome(w) = "failed" => gate = Nobody \/ result[w] = "error"
    BY <1>0, <1>1 DEF WriteOutcome, TypeInv
<1>3. /\ gate' \in Elems(waiters) \cup {Nobody} /\ gate' \in Actors \cup {Nobody}
      /\ waiters' \in Seq(Actors) /\ Distinct(waiters')
      /\ Elems(waiters') = Elems(waiters) \ {gate'}
    BY <1>0, ReleaseEffect DEF ReturnWriter
<1>4. /\ result' \in [Actors -> {"none", "ok", "error", "cancelled"}]
      /\ result'[w] = "none" /\ \A b \in Actors : b # w => result'[b] = result[b]
      /\ UNCHANGED <<jobs, running>>
    BY <1>0, <1>1, CollectEffect DEF ReturnWriter
<1>5. gate # w => ~Undisturbed
    BY <1>0, <1>1 DEF OwnInv, Working
<1>6. TypeInv'
    BY <1>0, <1>1, <1>2, <1>3, <1>4, <1>5, Apart DEF TypeInv, Operations, dbVars
<1>7. GateInv'
    BY <1>0, <1>1, <1>2, <1>3, <1>4, <1>5, Apart, IdleRunning DEF GateInv, TypeInv, Waiting, Working, dbVars
<1>8. JobInv'
    BY <1>0, <1>1, <1>2, <1>3, <1>4, <1>5, Apart, IdleRunning DEF JobInv, TypeInv, Waiting, Working, dbVars
<1>9. StoredInv'
    BY <1>0, <1>1, <1>2, <1>3, <1>4, <1>5, Apart, IdleRunning DEF StoredInv, Undisturbed, TypeInv, dbVars
<1>10. PhaseInv'
    BY <1>0, <1>1, <1>2, <1>3, <1>4, <1>5, Apart, IdleRunning DEF PhaseInv, TypeInv, dbVars
<1>11. OwnInv'
    BY <1>0, <1>1, <1>2, <1>3, <1>4, <1>5, Apart, IdleRunning DEF OwnInv, Undisturbed, PhaseInv, GateInv, TypeInv, Waiting, Working, dbVars
<1>12. FrozenInv'
    BY <1>0, <1>1, <1>2, <1>3, <1>4, <1>5, Apart, IdleRunning DEF FrozenInv, OwnInv, Undisturbed, TypeInv, Waiting, Working, dbVars
<1> QED BY <1>6, <1>7, <1>8, <1>9, <1>10, <1>11, <1>12 DEF Inv

LEMMA CancelWriterKeeps ==
    ASSUME Inv, NEW w \in Writers, CancelWriter(w)
    PROVE  Inv'
<1>0. TypeInv /\ GateInv /\ JobInv /\ StoredInv /\ PhaseInv /\ OwnInv /\ FrozenInv BY InvParts
<1>1. /\ result[w] = "none" /\ w \in Actors /\ wpc' = [wpc EXCEPT ![w] = "cancelled"]
      /\ UNCHANGED <<backupActive, closed, loaded, write, bpc, upc, backups, dbVars>>
    BY Apart DEF CancelWriter
<1>2. \/ /\ wpc[w] = "queued" /\ UNCHANGED <<jobs, running, result>>
         /\ gate' \in Actors \cup {Nobody} /\ waiters' \in Seq(Actors) /\ Distinct(waiters')
         /\ gate = w => gate' \in Elems(waiters) \cup {Nobody} /\ Elems(waiters') = Elems(waiters) \ {gate'}
         /\ gate # w => gate' = gate /\ Elems(waiters') = Elems(waiters) \ {w}
      \/ /\ wpc[w] = "submitted"
         /\ gate' \in Elems(waiters) \cup {Nobody} /\ gate' \in Actors \cup {Nobody}
         /\ waiters' \in Seq(Actors) /\ Distinct(waiters')
         /\ Elems(waiters') = Elems(waiters) \ {gate'}
         /\ jobs' \in Seq(Actors) /\ Distinct(jobs') /\ Elems(jobs') = Elems(jobs) \ {w}
         /\ running' \in [actor : Actors \cup {Nobody}, awaited : BOOLEAN]
         /\ running'.actor = running.actor
         /\ running'.awaited <=> running.awaited /\ running.actor # w
         /\ running'.actor = Nobody => running' = running
         /\ result' \in [Actors -> {"none", "ok", "error", "cancelled"}]
         /\ result'[w] = "none" /\ \A b \in Actors : b # w => result'[b] = result[b]
    BY <1>0, <1>1, LeaveEffect, ReleaseEffect, AbandonEffect DEF CancelWriter, execVars
<1>3. TypeInv'
    BY <1>0, <1>1, <1>2, Apart DEF TypeInv, Operations, dbVars
<1>4. GateInv'
    BY <1>0, <1>1, <1>2, Apart, IdleRunning DEF GateInv, TypeInv, Waiting, Working, dbVars
<1>5. JobInv'
    BY <1>0, <1>1, <1>2, Apart, IdleRunning DEF JobInv, TypeInv, Waiting, Working, dbVars
<1>6. StoredInv'
    BY <1>0, <1>1, <1>2, Apart, IdleRunning DEF StoredInv, Undisturbed, TypeInv, dbVars
<1>7. PhaseInv'
    BY <1>0, <1>1, <1>2, Apart, IdleRunning DEF PhaseInv, TypeInv, dbVars
<1>8. OwnInv'
    BY <1>0, <1>1, <1>2, Apart, IdleRunning DEF OwnInv, Undisturbed, PhaseInv, GateInv, TypeInv, Waiting, Working, dbVars
<1>9. FrozenInv'
    BY <1>0, <1>1, <1>2, Apart, IdleRunning DEF FrozenInv, OwnInv, Undisturbed, TypeInv, Waiting, Working, dbVars
<1> QED BY <1>3, <1>4, <1>5, <1>6, <1>7, <1>8, <1>9 DEF Inv

-----------------------------------------------------------------------------
(* The writer thread *)

LEMMA StartJobKeeps ==
    ASSUME Inv, StartJob
    PROVE  Inv'
<1>0. TypeInv /\ GateInv /\ JobInv /\ StoredInv /\ PhaseInv /\ OwnInv /\ FrozenInv BY InvParts
<1>1. /\ running.actor = Nobody /\ jobs # <<>> /\ running' = [actor |-> Head(jobs), awaited |-> TRUE]
      /\ UNCHANGED <<gateVars, taskVars, result, dbVars>>
    BY DEF StartJob
<1>2. /\ Head(jobs) \in Actors /\ Head(jobs) \in Elems(jobs) /\ jobs' \in Seq(Actors)
      /\ Elems(jobs') = Elems(jobs) \ {Head(jobs)} /\ Distinct(jobs')
    BY <1>0, <1>1, TailQueue DEF StartJob, TypeInv
<1>3. running'.actor = Head(jobs) /\ running'.awaited /\ running' \in [actor : Actors \cup {Nobody}, awaited : BOOLEAN]
    BY <1>1, <1>2
<1>4. TypeInv'
    BY <1>0, <1>1, <1>2, <1>3, Apart DEF TypeInv, Operations, gateVars, taskVars, dbVars
<1>5. GateInv'
    BY <1>0, <1>1, <1>2, <1>3, Apart, IdleRunning DEF GateInv, TypeInv, Waiting, Working, gateVars, taskVars, dbVars
<1>6. JobInv'
    BY <1>0, <1>1, <1>2, <1>3, Apart, IdleRunning DEF JobInv, TypeInv, Waiting, Working, gateVars, taskVars, dbVars
<1>7. StoredInv'
    BY <1>0, <1>1, <1>2, <1>3, Apart, IdleRunning DEF StoredInv, Undisturbed, TypeInv, gateVars, taskVars, dbVars
<1>8. PhaseInv'
    BY <1>0, <1>1, <1>2, <1>3, Apart, IdleRunning DEF PhaseInv, TypeInv, gateVars, taskVars, dbVars
<1>9. OwnInv'
    BY <1>0, <1>1, <1>2, <1>3, Apart, IdleRunning DEF OwnInv, Undisturbed, PhaseInv, GateInv, TypeInv, Waiting, Working, gateVars, taskVars, dbVars
<1>10. FrozenInv'
    BY <1>0, <1>1, <1>2, <1>3, Apart, IdleRunning DEF FrozenInv, OwnInv, Undisturbed, TypeInv, Waiting, Working, gateVars, taskVars, dbVars
<1> QED BY <1>4, <1>5, <1>6, <1>7, <1>8, <1>9, <1>10 DEF Inv

LEMMA RunWriteKeeps ==
    ASSUME Inv, NEW w \in Writers, running.actor = w, RunWrite(w), UNCHANGED <<connected, gateVars, taskVars>>
    PROVE  Inv'
<1>0. TypeInv /\ GateInv /\ JobInv /\ StoredInv /\ PhaseInv /\ OwnInv /\ FrozenInv BY InvParts
<1>1. w \in Actors
    BY Apart
<1>2. /\ running' = Idle /\ jobs' = jobs
      /\ result' \in [Actors -> {"none", "ok", "error", "cancelled"}]
      /\ \A a \in Actors : a # w => result'[a] = result[a]
      /\ ~running.awaited => result'[w] = result[w]
      /\ \/ /\ db' = db \cup {w} /\ wal' = wal \cup {w} /\ (running.awaited => result'[w] = "ok")
         \/ UNCHANGED <<db, wal>> /\ (running.awaited => result'[w] = "error")
    BY <1>0, <1>1, EndEffect DEF RunWrite, Commit
<1>3. inTransaction' \in BOOLEAN
    BY <1>0 DEF RunWrite, Commit, TypeInv
<1>4. /\ wpc[w] \in {"submitted", "cancelled"} /\ result[w] = "none" /\ w \notin Elems(jobs)
      /\ wpc[w] = "submitted" => running.awaited
    BY <1>0, <1>1, Apart DEF JobInv, Working, TypeInv
<1>5. TypeInv'
    BY <1>0, <1>1, <1>2, <1>3, <1>4, Apart, IdleRunning DEF TypeInv, Operations, gateVars, taskVars
<1>6. GateInv'
    BY <1>0, <1>1, <1>2, <1>3, <1>4, Apart, IdleRunning DEF GateInv, TypeInv, Waiting, Working, gateVars, taskVars
<1>7. JobInv'
    BY <1>0, <1>1, <1>2, <1>3, <1>4, Apart, IdleRunning DEF JobInv, TypeInv, Waiting, Working, gateVars, taskVars
<1>8. StoredInv'
    BY <1>0, <1>1, <1>2, <1>3, <1>4, Apart, IdleRunning DEF StoredInv, Undisturbed, TypeInv, gateVars, taskVars
<1>9. PhaseInv'
    BY <1>0, <1>1, <1>2, <1>3, <1>4, Apart, IdleRunning DEF PhaseInv, TypeInv, gateVars, taskVars
<1>10. OwnInv'
    BY <1>0, <1>1, <1>2, <1>3, <1>4, Apart, IdleRunning DEF OwnInv, Undisturbed, PhaseInv, GateInv, TypeInv, Waiting, Working, gateVars, taskVars
<1>11. FrozenInv'
    BY <1>0, <1>1, <1>2, <1>3, <1>4, Apart, IdleRunning DEF FrozenInv, OwnInv, Undisturbed, TypeInv, Waiting, Working, gateVars, taskVars
<1> QED BY <1>5, <1>6, <1>7, <1>8, <1>9, <1>10, <1>11 DEF Inv

LEMMA RunCheckpointKeeps ==
    ASSUME Inv, running.actor = HA, RunCheckpoint, UNCHANGED <<connected, gateVars, taskVars>>
    PROVE  Inv'
<1>0. TypeInv /\ GateInv /\ JobInv /\ StoredInv /\ PhaseInv /\ OwnInv /\ FrozenInv BY InvParts
<1>1. /\ running' = Idle /\ jobs' = jobs
      /\ result' \in [Actors -> {"none", "ok", "error", "cancelled"}]
      /\ \A a \in Actors : a # HA => result'[a] = result[a]
      /\ ~running.awaited => result'[HA] = result[HA]
      /\ running.awaited => result'[HA] \in {"ok", "error"}
    BY <1>0, Apart, EndEffect DEF RunCheckpoint
<1>2. wal' \in {wal, {}} /\ UNCHANGED <<db, inTransaction>>
    BY DEF RunCheckpoint
<1>3. loaded /\ bpc = "checkpoint" /\ running.awaited => jobs = <<>>
    <2> SUFFICES ASSUME loaded, bpc = "checkpoint", running.awaited PROVE Elems(jobs) = {}
        BY <1>0, EmptyQueue DEF TypeInv
    <2>1. \A a \in Elems(jobs) : a = HA BY <1>0, Apart DEF JobInv, OwnInv, Undisturbed, Working
    <2> QED BY <1>0, <2>1 DEF JobInv
<1>4. TypeInv'
    BY <1>0, <1>1, <1>2, <1>3, Apart, IdleRunning DEF TypeInv, Operations, gateVars, taskVars
<1>5. GateInv'
    BY <1>0, <1>1, <1>2, <1>3, Apart, IdleRunning DEF GateInv, TypeInv, Waiting, Working, gateVars, taskVars
<1>6. JobInv'
    BY <1>0, <1>1, <1>2, <1>3, Apart, IdleRunning DEF JobInv, TypeInv, Waiting, Working, gateVars, taskVars
<1>7. StoredInv'
    BY <1>0, <1>1, <1>2, <1>3, Apart, IdleRunning DEF StoredInv, Undisturbed, TypeInv, gateVars, taskVars
<1>8. PhaseInv'
    BY <1>0, <1>1, <1>2, <1>3, Apart, IdleRunning DEF PhaseInv, TypeInv, gateVars, taskVars
<1>9. OwnInv'
    BY <1>0, <1>1, <1>2, <1>3, Apart, IdleRunning DEF OwnInv, Undisturbed, PhaseInv, GateInv, TypeInv, Waiting, Working, gateVars, taskVars
<1>10. FrozenInv'
    BY <1>0, <1>1, <1>2, <1>3, Apart, IdleRunning DEF FrozenInv, OwnInv, Undisturbed, TypeInv, Waiting, Working, gateVars, taskVars
<1> QED BY <1>4, <1>5, <1>6, <1>7, <1>8, <1>9, <1>10 DEF Inv

LEMMA RunCloseKeeps ==
    ASSUME Inv, running.actor = Unloader, RunClose, UNCHANGED <<gateVars, taskVars>>
    PROVE  Inv'
<1>0. TypeInv /\ GateInv /\ JobInv /\ StoredInv /\ PhaseInv /\ OwnInv /\ FrozenInv BY InvParts
<1>1. /\ running' = Idle /\ jobs' = jobs
      /\ result' \in [Actors -> {"none", "ok", "error", "cancelled"}]
      /\ \A a \in Actors : a # Unloader => result'[a] = result[a]
      /\ ~running.awaited => result'[Unloader] = result[Unloader]
      /\ running.awaited => result'[Unloader] \in {"ok", "error"}
    BY <1>0, Apart, EndEffect DEF RunClose
<1>2. db' = db /\ wal' = {} /\ connected' = FALSE /\ inTransaction' = FALSE
    BY DEF RunClose
<1>3. TypeInv'
    BY <1>0, <1>1, <1>2, Apart, IdleRunning DEF TypeInv, Operations, gateVars, taskVars
<1>4. GateInv'
    BY <1>0, <1>1, <1>2, Apart, IdleRunning DEF GateInv, TypeInv, Waiting, Working, gateVars, taskVars
<1>5. JobInv'
    BY <1>0, <1>1, <1>2, Apart, IdleRunning DEF JobInv, TypeInv, Waiting, Working, gateVars, taskVars
<1>6. StoredInv'
    BY <1>0, <1>1, <1>2, Apart, IdleRunning DEF StoredInv, Undisturbed, TypeInv, gateVars, taskVars
<1>7. PhaseInv'
    BY <1>0, <1>1, <1>2, Apart, IdleRunning DEF PhaseInv, TypeInv, gateVars, taskVars
<1>8. OwnInv'
    BY <1>0, <1>1, <1>2, Apart, IdleRunning DEF OwnInv, Undisturbed, PhaseInv, GateInv, TypeInv, Waiting, Working, gateVars, taskVars
<1>9. FrozenInv'
    BY <1>0, <1>1, <1>2, Apart, IdleRunning DEF FrozenInv, OwnInv, Undisturbed, TypeInv, Waiting, Working, gateVars, taskVars
<1> QED BY <1>3, <1>4, <1>5, <1>6, <1>7, <1>8, <1>9 DEF Inv

-----------------------------------------------------------------------------
(* The backup hooks *)

LEMMA PreBackupKeeps ==
    ASSUME Inv, PreBackup
    PROVE  Inv'
<1>0. TypeInv /\ GateInv /\ JobInv /\ StoredInv /\ PhaseInv /\ OwnInv /\ FrozenInv BY InvParts
<1>1. /\ bpc = "idle" /\ backups < MaxBackups /\ backups' = backups + 1
      /\ UNCHANGED <<closed, loaded, wpc, write, upc, dbVars>>
    BY DEF PreBackup
<1>2. HA \notin Elems(jobs) /\ result[HA] = "none" /\ (loaded => HA \notin Elems(waiters) /\ gate # HA)
    BY <1>0, <1>1, Apart DEF JobInv, GateInv, OwnInv, Undisturbed, Waiting, Working
<1>3. backups' \in 1..MaxBackups
    BY <1>0, <1>1, ConstantsAssumption DEF TypeInv, ConstantsAssumption
<1>4. /\ gate' \in Actors \cup {Nobody} /\ waiters' \in Seq(Actors) /\ Distinct(waiters')
      /\ jobs' \in Seq(Actors) /\ Distinct(jobs') /\ UNCHANGED <<running, result>> /\ backupActive' \in BOOLEAN
    BY <1>0, <1>2, Apart, QueueEffect, SubmitEffect DEF PreBackup, TypeInv, execVars
<1>5. \/ /\ ~loaded \/ backupActive
         /\ bpc' = "archive" /\ UNCHANGED <<gate, waiters, backupActive, jobs>>
      \/ /\ loaded /\ ~backupActive /\ gate = Nobody /\ Elems(waiters) = {}
         /\ gate' = HA /\ backupActive' = TRUE /\ bpc' = "checkpoint"
         /\ waiters' = waiters /\ Elems(jobs') = Elems(jobs) \cup {HA}
      \/ /\ loaded /\ ~backupActive /\ bpc' = "queued" /\ UNCHANGED <<gate, backupActive, jobs>>
         /\ Elems(waiters') = Elems(waiters) \cup {HA}
    BY <1>0, <1>2, Apart, EmptyQueue, QueueEffect, SubmitEffect DEF PreBackup, Free, TypeInv, execVars
<1>6. TypeInv'
    BY <1>0, <1>1, <1>2, <1>3, <1>4, <1>5, Apart DEF TypeInv, Operations, dbVars
<1>7. GateInv'
    BY <1>0, <1>1, <1>2, <1>3, <1>4, <1>5, Apart, IdleRunning DEF GateInv, TypeInv, Waiting, Working, dbVars
<1>8. JobInv'
    BY <1>0, <1>1, <1>2, <1>3, <1>4, <1>5, Apart, IdleRunning DEF JobInv, TypeInv, Waiting, Working, dbVars
<1>9. StoredInv'
    BY <1>0, <1>1, <1>2, <1>3, <1>4, <1>5, Apart, IdleRunning DEF StoredInv, Undisturbed, TypeInv, dbVars
<1>10. PhaseInv'
    BY <1>0, <1>1, <1>2, <1>3, <1>4, <1>5, Apart, IdleRunning DEF PhaseInv, TypeInv, dbVars
<1>11. OwnInv'
    BY <1>0, <1>1, <1>2, <1>3, <1>4, <1>5, Apart, IdleRunning DEF OwnInv, Undisturbed, PhaseInv, GateInv, TypeInv, Waiting, Working, dbVars
<1>12. FrozenInv'
    BY <1>0, <1>1, <1>2, <1>3, <1>4, <1>5, Apart, IdleRunning DEF FrozenInv, OwnInv, Undisturbed, TypeInv, Waiting, Working, dbVars
<1> QED BY <1>6, <1>7, <1>8, <1>9, <1>10, <1>11, <1>12 DEF Inv

LEMMA ResumePrepareKeeps ==
    ASSUME Inv, ResumePrepare
    PROVE  Inv'
<1>0. TypeInv /\ GateInv /\ JobInv /\ StoredInv /\ PhaseInv /\ OwnInv /\ FrozenInv BY InvParts
<1>1. /\ bpc = "queued" /\ gate = HA /\ bpc' = "checkpoint" /\ backupActive' = TRUE
      /\ UNCHANGED <<gate, waiters, closed, loaded, wpc, write, upc, backups, dbVars>>
    BY DEF ResumePrepare
<1>2. HA \notin Elems(jobs) /\ HA \notin Elems(waiters)
    BY <1>0, <1>1, Apart DEF JobInv, GateInv, Working
<1>3. /\ jobs' \in Seq(Actors) /\ Distinct(jobs') /\ Elems(jobs') = Elems(jobs) \cup {HA}
      /\ UNCHANGED <<running, result>>
    BY <1>0, <1>2, Apart, SubmitEffect DEF ResumePrepare
<1>4. result[HA] = "none"
    BY <1>0, <1>1, Apart DEF JobInv, Working
<1>5. TypeInv'
    BY <1>0, <1>1, <1>2, <1>3, <1>4, Apart DEF TypeInv, Operations, dbVars
<1>6. GateInv'
    BY <1>0, <1>1, <1>2, <1>3, <1>4, Apart, IdleRunning DEF GateInv, TypeInv, Waiting, Working, dbVars
<1>7. JobInv'
    BY <1>0, <1>1, <1>2, <1>3, <1>4, Apart, IdleRunning DEF JobInv, TypeInv, Waiting, Working, dbVars
<1>8. StoredInv'
    BY <1>0, <1>1, <1>2, <1>3, <1>4, Apart, IdleRunning DEF StoredInv, Undisturbed, TypeInv, dbVars
<1>9. PhaseInv'
    BY <1>0, <1>1, <1>2, <1>3, <1>4, Apart, IdleRunning DEF PhaseInv, TypeInv, dbVars
<1>10. OwnInv'
    BY <1>0, <1>1, <1>2, <1>3, <1>4, Apart, IdleRunning DEF OwnInv, Undisturbed, PhaseInv, GateInv, TypeInv, Waiting, Working, dbVars
<1>11. FrozenInv'
    BY <1>0, <1>1, <1>2, <1>3, <1>4, Apart, IdleRunning DEF FrozenInv, OwnInv, Undisturbed, TypeInv, Waiting, Working, dbVars
<1> QED BY <1>5, <1>6, <1>7, <1>8, <1>9, <1>10, <1>11 DEF Inv

LEMMA ReturnPrepareKeeps ==
    ASSUME Inv, ReturnPrepare
    PROVE  Inv'
<1>0. TypeInv /\ GateInv /\ JobInv /\ StoredInv /\ PhaseInv /\ OwnInv /\ FrozenInv BY InvParts
<1>1. /\ bpc = "checkpoint" /\ result[HA] # "none"
      /\ UNCHANGED <<closed, loaded, wpc, write, upc, backups, dbVars>>
    BY DEF ReturnPrepare
<1>2. /\ result' \in [Actors -> {"none", "ok", "error", "cancelled"}]
      /\ result'[HA] = "none" /\ \A b \in Actors : b # HA => result'[b] = result[b]
      /\ UNCHANGED <<jobs, running>>
    BY <1>0, Apart, CollectEffect DEF ReturnPrepare
<1>3. \/ /\ result[HA] = "ok" /\ bpc' = "archive" /\ UNCHANGED <<gate, waiters, backupActive>>
      \/ /\ bpc' = "failed" /\ backupActive' = FALSE
         /\ gate' \in Elems(waiters) \cup {Nobody} /\ gate' \in Actors \cup {Nobody}
         /\ waiters' \in Seq(Actors) /\ Distinct(waiters')
         /\ Elems(waiters') = Elems(waiters) \ {gate'}
    BY <1>0, ReleaseEffect DEF ReturnPrepare
<1>4. gate # HA => ~Undisturbed
    BY <1>0, <1>1, Apart DEF OwnInv, Working
<1>5. TypeInv'
    BY ZenonT(40), <1>0, <1>1, <1>2, <1>3, <1>4, Apart DEF TypeInv, Operations, dbVars
<1>6. GateInv'
    BY <1>0, <1>1, <1>2, <1>3, <1>4, Apart, IdleRunning DEF GateInv, TypeInv, Waiting, Working, dbVars
<1>7. JobInv'
    BY <1>0, <1>1, <1>2, <1>3, <1>4, Apart, IdleRunning DEF JobInv, TypeInv, Waiting, Working, dbVars
<1>8. StoredInv'
    BY <1>0, <1>1, <1>2, <1>3, <1>4, Apart, IdleRunning DEF StoredInv, Undisturbed, TypeInv, dbVars
<1>9. PhaseInv'
    BY <1>0, <1>1, <1>2, <1>3, <1>4, Apart, IdleRunning DEF PhaseInv, TypeInv, dbVars
<1>10. OwnInv'
    BY <1>0, <1>1, <1>2, <1>3, <1>4, Apart, IdleRunning DEF OwnInv, Undisturbed, PhaseInv, GateInv, TypeInv, Waiting, Working, dbVars
<1>11. FrozenInv'
    BY <1>0, <1>1, <1>2, <1>3, <1>4, Apart, IdleRunning DEF FrozenInv, OwnInv, Undisturbed, TypeInv, Waiting, Working, dbVars
<1> QED BY <1>5, <1>6, <1>7, <1>8, <1>9, <1>10, <1>11 DEF Inv

LEMMA TimeoutPrepareKeeps ==
    ASSUME Inv, TimeoutPrepare
    PROVE  Inv'
<1>0. TypeInv /\ GateInv /\ JobInv /\ StoredInv /\ PhaseInv /\ OwnInv /\ FrozenInv BY InvParts
<1>1. /\ result[HA] = "none" /\ bpc' = "failed"
      /\ UNCHANGED <<backupActive, closed, loaded, wpc, write, upc, backups, dbVars>>
    BY DEF TimeoutPrepare
<1>2. \/ /\ bpc = "queued" /\ UNCHANGED <<jobs, running, result>>
         /\ gate' \in Actors \cup {Nobody} /\ waiters' \in Seq(Actors) /\ Distinct(waiters')
         /\ gate = HA => gate' \in Elems(waiters) \cup {Nobody} /\ Elems(waiters') = Elems(waiters) \ {gate'}
         /\ gate # HA => gate' = gate /\ Elems(waiters') = Elems(waiters) \ {HA}
      \/ /\ bpc = "checkpoint" /\ UNCHANGED <<gate, waiters>>
         /\ jobs' \in Seq(Actors) /\ Distinct(jobs') /\ Elems(jobs') = Elems(jobs) \ {HA}
         /\ running' \in [actor : Actors \cup {Nobody}, awaited : BOOLEAN]
         /\ running'.actor = running.actor
         /\ running'.awaited <=> running.awaited /\ running.actor # HA
         /\ running'.actor = Nobody => running' = running
         /\ result' \in [Actors -> {"none", "ok", "error", "cancelled"}]
         /\ result'[HA] = "none" /\ \A b \in Actors : b # HA => result'[b] = result[b]
    BY <1>0, Apart, LeaveEffect, AbandonEffect DEF TimeoutPrepare, execVars
<1>3. TypeInv'
    BY <1>0, <1>1, <1>2, Apart DEF TypeInv, Operations, dbVars
<1>4. GateInv'
    BY <1>0, <1>1, <1>2, Apart, IdleRunning DEF GateInv, TypeInv, Waiting, Working, dbVars
<1>5. JobInv'
    BY <1>0, <1>1, <1>2, Apart, IdleRunning DEF JobInv, TypeInv, Waiting, Working, dbVars
<1>6. StoredInv'
    BY <1>0, <1>1, <1>2, Apart, IdleRunning DEF StoredInv, Undisturbed, TypeInv, dbVars
<1>7. PhaseInv'
    BY <1>0, <1>1, <1>2, Apart, IdleRunning DEF PhaseInv, TypeInv, dbVars
<1>8. OwnInv'
    BY <1>0, <1>1, <1>2, Apart, IdleRunning DEF OwnInv, Undisturbed, PhaseInv, GateInv, TypeInv, Waiting, Working, dbVars
<1>9. FrozenInv'
    BY <1>0, <1>1, <1>2, Apart, IdleRunning DEF FrozenInv, OwnInv, Undisturbed, TypeInv, Waiting, Working, dbVars
<1> QED BY <1>3, <1>4, <1>5, <1>6, <1>7, <1>8, <1>9 DEF Inv

LEMMA PostBackupKeeps ==
    ASSUME Inv, PostBackup
    PROVE  Inv'
<1>0. TypeInv /\ GateInv /\ JobInv /\ StoredInv /\ PhaseInv /\ OwnInv /\ FrozenInv BY InvParts
<1>1. /\ bpc \in {"archive", "failed"} /\ bpc' = "idle"
      /\ UNCHANGED <<closed, loaded, wpc, write, upc, backups, execVars, dbVars>>
    BY DEF PostBackup
<1>2. \/ (~loaded \/ ~backupActive) /\ UNCHANGED <<gate, waiters, backupActive>>
      \/ /\ backupActive /\ backupActive' = FALSE
         /\ gate' \in Elems(waiters) \cup {Nobody} /\ gate' \in Actors \cup {Nobody}
         /\ waiters' \in Seq(Actors) /\ Distinct(waiters')
         /\ Elems(waiters') = Elems(waiters) \ {gate'}
    BY <1>0, ReleaseEffect DEF PostBackup, Finish, TypeInv
<1>3. backups = 0 => FALSE
    BY <1>0, <1>1 DEF PhaseInv
<1>4. TypeInv'
    BY ZenonT(40), <1>0, <1>1, <1>2, <1>3, Apart DEF TypeInv, Operations, execVars, dbVars
<1>5. GateInv'
    BY <1>0, <1>1, <1>2, <1>3, Apart, IdleRunning DEF GateInv, TypeInv, Waiting, Working, execVars, dbVars
<1>6. JobInv'
    BY <1>0, <1>1, <1>2, <1>3, Apart, IdleRunning DEF JobInv, TypeInv, Waiting, Working, execVars, dbVars
<1>7. StoredInv'
    BY <1>0, <1>1, <1>2, <1>3, Apart, IdleRunning DEF StoredInv, Undisturbed, TypeInv, execVars, dbVars
<1>8. PhaseInv'
    BY <1>0, <1>1, <1>2, <1>3, Apart, IdleRunning DEF PhaseInv, TypeInv, execVars, dbVars
<1>9. OwnInv'
    BY <1>0, <1>1, <1>2, <1>3, Apart, IdleRunning DEF OwnInv, Undisturbed, PhaseInv, GateInv, TypeInv, Waiting, Working, execVars, dbVars
<1>10. FrozenInv'
    BY <1>0, <1>1, <1>2, <1>3, Apart, IdleRunning DEF FrozenInv, OwnInv, Undisturbed, TypeInv, Waiting, Working, execVars, dbVars
<1> QED BY <1>4, <1>5, <1>6, <1>7, <1>8, <1>9, <1>10 DEF Inv

-----------------------------------------------------------------------------
(* The unload *)

LEMMA UnloadKeeps ==
    ASSUME Inv, Unload
    PROVE  Inv'
<1>0. TypeInv /\ GateInv /\ JobInv /\ StoredInv /\ PhaseInv /\ OwnInv /\ FrozenInv BY InvParts
<1>1. /\ upc = "up" /\ loaded' = FALSE /\ upc' = "stopping"
      /\ UNCHANGED <<gate, waiters, backupActive, closed, wpc, write, bpc, backups, execVars, dbVars>>
    BY DEF Unload
<1>2. TypeInv'
    BY <1>0, <1>1, Apart DEF TypeInv, Operations, execVars, dbVars
<1>3. GateInv'
    BY <1>0, <1>1, Apart, IdleRunning DEF GateInv, TypeInv, Waiting, Working, execVars, dbVars
<1>4. JobInv'
    BY <1>0, <1>1, Apart, IdleRunning DEF JobInv, TypeInv, Waiting, Working, execVars, dbVars
<1>5. StoredInv'
    BY <1>0, <1>1, Apart, IdleRunning DEF StoredInv, Undisturbed, TypeInv, execVars, dbVars
<1>6. PhaseInv'
    BY <1>0, <1>1, Apart, IdleRunning DEF PhaseInv, TypeInv, execVars, dbVars
<1>7. OwnInv'
    BY <1>0, <1>1, Apart, IdleRunning DEF OwnInv, Undisturbed, PhaseInv, GateInv, TypeInv, Waiting, Working, execVars, dbVars
<1>8. FrozenInv'
    BY <1>0, <1>1, Apart, IdleRunning DEF FrozenInv, OwnInv, Undisturbed, TypeInv, Waiting, Working, execVars, dbVars
<1> QED BY <1>2, <1>3, <1>4, <1>5, <1>6, <1>7, <1>8 DEF Inv

LEMMA CloseStorageKeeps ==
    ASSUME Inv, CloseStorage
    PROVE  Inv'
<1>0. TypeInv /\ GateInv /\ JobInv /\ StoredInv /\ PhaseInv /\ OwnInv /\ FrozenInv BY InvParts
<1>1. /\ upc = "stopping" /\ upc' = "content"
      /\ UNCHANGED <<closed, loaded, wpc, write, bpc, backups, execVars, dbVars>>
    BY DEF CloseStorage
<1>2. \/ backupActive = FALSE /\ UNCHANGED <<gate, waiters, backupActive>>
      \/ /\ backupActive /\ backupActive' = FALSE
         /\ gate' \in Elems(waiters) \cup {Nobody} /\ gate' \in Actors \cup {Nobody}
         /\ waiters' \in Seq(Actors) /\ Distinct(waiters')
         /\ Elems(waiters') = Elems(waiters) \ {gate'}
    BY <1>0, ReleaseEffect DEF CloseStorage, Finish, TypeInv
<1>3. Undisturbed => backups = 0 /\ ~backupActive
    BY <1>0, <1>1 DEF PhaseInv, Undisturbed
<1>4. TypeInv'
    BY ZenonT(40), <1>0, <1>1, <1>2, <1>3, Apart DEF TypeInv, Operations, execVars, dbVars
<1>5. GateInv'
    BY <1>0, <1>1, <1>2, <1>3, Apart, IdleRunning DEF GateInv, TypeInv, Waiting, Working, execVars, dbVars
<1>6. JobInv'
    BY <1>0, <1>1, <1>2, <1>3, Apart, IdleRunning DEF JobInv, TypeInv, Waiting, Working, execVars, dbVars
<1>7. StoredInv'
    BY <1>0, <1>1, <1>2, <1>3, Apart, IdleRunning DEF StoredInv, Undisturbed, TypeInv, execVars, dbVars
<1>8. PhaseInv'
    BY <1>0, <1>1, <1>2, <1>3, Apart, IdleRunning DEF PhaseInv, TypeInv, execVars, dbVars
<1>9. OwnInv'
    BY <1>0, <1>1, <1>2, <1>3, Apart, IdleRunning DEF OwnInv, Undisturbed, PhaseInv, GateInv, TypeInv, Waiting, Working, execVars, dbVars
<1>10. FrozenInv'
    BY <1>0, <1>1, <1>2, <1>3, Apart, IdleRunning DEF FrozenInv, OwnInv, Undisturbed, TypeInv, Waiting, Working, execVars, dbVars
<1> QED BY <1>4, <1>5, <1>6, <1>7, <1>8, <1>9, <1>10 DEF Inv

LEMMA CloseAtGateKeeps ==
    ASSUME Inv, CloseAtGate
    PROVE  Inv'
<1>0. TypeInv /\ GateInv /\ JobInv /\ StoredInv /\ PhaseInv /\ OwnInv /\ FrozenInv BY InvParts
<1>1. /\ upc = "content" /\ UNCHANGED <<backupActive, closed, loaded, wpc, write, bpc, backups, dbVars>>
    BY DEF CloseAtGate
<1>2. Unloader \notin Elems(jobs) /\ Unloader \notin Elems(waiters) /\ gate # Unloader
    BY <1>0, <1>1, Apart DEF JobInv, GateInv, Waiting, Working
<1>3. /\ gate' \in Actors \cup {Nobody} /\ waiters' \in Seq(Actors) /\ Distinct(waiters')
      /\ jobs' \in Seq(Actors) /\ Distinct(jobs') /\ UNCHANGED <<running, result>>
    BY <1>0, <1>2, Apart, QueueEffect, SubmitEffect DEF CloseAtGate, TypeInv, execVars
<1>4. \/ /\ gate = Nobody /\ Elems(waiters) = {} /\ gate' = Unloader /\ waiters' = waiters
         /\ upc' = "closing" /\ Elems(jobs') = Elems(jobs) \cup {Unloader}
      \/ /\ upc' = "queued" /\ gate' = gate /\ jobs' = jobs
         /\ Elems(waiters') = Elems(waiters) \cup {Unloader}
    BY <1>0, <1>2, Apart, EmptyQueue, QueueEffect, SubmitEffect DEF CloseAtGate, Free, TypeInv, execVars
<1>5. TypeInv'
    BY <1>0, <1>1, <1>2, <1>3, <1>4, Apart DEF TypeInv, Operations, dbVars
<1>6. GateInv'
    BY <1>0, <1>1, <1>2, <1>3, <1>4, Apart, IdleRunning DEF GateInv, TypeInv, Waiting, Working, dbVars
<1>7. JobInv'
    BY <1>0, <1>1, <1>2, <1>3, <1>4, Apart, IdleRunning DEF JobInv, TypeInv, Waiting, Working, dbVars
<1>8. StoredInv'
    BY <1>0, <1>1, <1>2, <1>3, <1>4, Apart, IdleRunning DEF StoredInv, Undisturbed, TypeInv, dbVars
<1>9. PhaseInv'
    BY <1>0, <1>1, <1>2, <1>3, <1>4, Apart, IdleRunning DEF PhaseInv, TypeInv, dbVars
<1>10. OwnInv'
    BY <1>0, <1>1, <1>2, <1>3, <1>4, Apart, IdleRunning DEF OwnInv, Undisturbed, PhaseInv, GateInv, TypeInv, Waiting, Working, dbVars
<1>11. FrozenInv'
    BY <1>0, <1>1, <1>2, <1>3, <1>4, Apart, IdleRunning DEF FrozenInv, OwnInv, Undisturbed, TypeInv, Waiting, Working, dbVars
<1> QED BY <1>5, <1>6, <1>7, <1>8, <1>9, <1>10, <1>11 DEF Inv

LEMMA ResumeCloseKeeps ==
    ASSUME Inv, ResumeClose
    PROVE  Inv'
<1>0. TypeInv /\ GateInv /\ JobInv /\ StoredInv /\ PhaseInv /\ OwnInv /\ FrozenInv BY InvParts
<1>1. /\ upc = "queued" /\ gate = Unloader /\ upc' = "closing"
      /\ UNCHANGED <<gateVars, wpc, write, bpc, backups, dbVars>>
    BY DEF ResumeClose
<1>2. Unloader \notin Elems(jobs) /\ Unloader \notin Elems(waiters) /\ result[Unloader] = "none"
    BY <1>0, <1>1, Apart DEF JobInv, GateInv, Working
<1>3. /\ jobs' \in Seq(Actors) /\ Distinct(jobs') /\ Elems(jobs') = Elems(jobs) \cup {Unloader}
      /\ UNCHANGED <<running, result>>
    BY <1>0, <1>2, Apart, SubmitEffect DEF ResumeClose
<1>4. TypeInv'
    BY <1>0, <1>1, <1>2, <1>3, Apart DEF TypeInv, Operations, gateVars, dbVars
<1>5. GateInv'
    BY <1>0, <1>1, <1>2, <1>3, Apart, IdleRunning DEF GateInv, TypeInv, Waiting, Working, gateVars, dbVars
<1>6. JobInv'
    BY <1>0, <1>1, <1>2, <1>3, Apart, IdleRunning DEF JobInv, TypeInv, Waiting, Working, gateVars, dbVars
<1>7. StoredInv'
    BY <1>0, <1>1, <1>2, <1>3, Apart, IdleRunning DEF StoredInv, Undisturbed, TypeInv, gateVars, dbVars
<1>8. PhaseInv'
    BY <1>0, <1>1, <1>2, <1>3, Apart, IdleRunning DEF PhaseInv, TypeInv, gateVars, dbVars
<1>9. OwnInv'
    BY <1>0, <1>1, <1>2, <1>3, Apart, IdleRunning DEF OwnInv, Undisturbed, PhaseInv, GateInv, TypeInv, Waiting, Working, gateVars, dbVars
<1>10. FrozenInv'
    BY <1>0, <1>1, <1>2, <1>3, Apart, IdleRunning DEF FrozenInv, OwnInv, Undisturbed, TypeInv, Waiting, Working, gateVars, dbVars
<1> QED BY <1>4, <1>5, <1>6, <1>7, <1>8, <1>9, <1>10 DEF Inv

LEMMA ReturnCloseKeeps ==
    ASSUME Inv, ReturnClose
    PROVE  Inv'
<1>0. TypeInv /\ GateInv /\ JobInv /\ StoredInv /\ PhaseInv /\ OwnInv /\ FrozenInv BY InvParts
<1>1. /\ upc = "closing" /\ result[Unloader] # "none" /\ closed' = TRUE /\ upc' = "shutdown"
      /\ UNCHANGED <<backupActive, loaded, wpc, write, bpc, backups, dbVars>>
    BY DEF ReturnClose
<1>2. /\ gate' \in Elems(waiters) \cup {Nobody} /\ gate' \in Actors \cup {Nobody}
      /\ waiters' \in Seq(Actors) /\ Distinct(waiters')
      /\ Elems(waiters') = Elems(waiters) \ {gate'}
    BY <1>0, ReleaseEffect DEF ReturnClose
<1>3. /\ result' \in [Actors -> {"none", "ok", "error", "cancelled"}]
      /\ result'[Unloader] = "none" /\ \A b \in Actors : b # Unloader => result'[b] = result[b]
      /\ UNCHANGED <<jobs, running>>
    BY <1>0, Apart, CollectEffect DEF ReturnClose
<1>4. gate # Unloader => ~Undisturbed
    BY <1>0, <1>1, Apart DEF OwnInv, Working
<1>5. TypeInv'
    BY <1>0, <1>1, <1>2, <1>3, <1>4, Apart DEF TypeInv, Operations, dbVars
<1>6. GateInv'
    BY <1>0, <1>1, <1>2, <1>3, <1>4, Apart, IdleRunning DEF GateInv, TypeInv, Waiting, Working, dbVars
<1>7. JobInv'
    BY <1>0, <1>1, <1>2, <1>3, <1>4, Apart, IdleRunning DEF JobInv, TypeInv, Waiting, Working, dbVars
<1>8. StoredInv'
    BY <1>0, <1>1, <1>2, <1>3, <1>4, Apart, IdleRunning DEF StoredInv, Undisturbed, TypeInv, dbVars
<1>9. PhaseInv'
    BY <1>0, <1>1, <1>2, <1>3, <1>4, Apart, IdleRunning DEF PhaseInv, TypeInv, dbVars
<1>10. OwnInv'
    BY <1>0, <1>1, <1>2, <1>3, <1>4, Apart, IdleRunning DEF OwnInv, Undisturbed, PhaseInv, GateInv, TypeInv, Waiting, Working, dbVars
<1>11. FrozenInv'
    BY <1>0, <1>1, <1>2, <1>3, <1>4, Apart, IdleRunning DEF FrozenInv, OwnInv, Undisturbed, TypeInv, Waiting, Working, dbVars
<1> QED BY <1>5, <1>6, <1>7, <1>8, <1>9, <1>10, <1>11 DEF Inv

LEMMA ShutdownKeeps ==
    ASSUME Inv, Shutdown
    PROVE  Inv'
<1>0. TypeInv /\ GateInv /\ JobInv /\ StoredInv /\ PhaseInv /\ OwnInv /\ FrozenInv BY InvParts
<1>1. /\ upc = "shutdown" /\ upc' = "joining" /\ jobs' = <<>>
      /\ UNCHANGED <<gateVars, wpc, write, bpc, backups, running, dbVars>>
    BY DEF Shutdown
<1>2. jobs' \in Seq(Actors) /\ Distinct(jobs') /\ Elems(jobs') = {}
    BY <1>1 DEF Distinct, Elems
<1>3. /\ result' \in [Actors -> {"none", "ok", "error", "cancelled"}]
      /\ \A a \in Actors : result'[a] = IF a \in Elems(jobs) THEN "cancelled" ELSE result[a]
    BY <1>0 DEF Shutdown, Elems, TypeInv
<1>4. TypeInv'
    BY <1>0, <1>1, <1>2, <1>3, Apart DEF TypeInv, Operations, gateVars, dbVars
<1>5. GateInv'
    BY <1>0, <1>1, <1>2, <1>3, Apart, IdleRunning DEF GateInv, TypeInv, Waiting, Working, gateVars, dbVars
<1>6. JobInv'
    BY <1>0, <1>1, <1>2, <1>3, Apart, IdleRunning DEF JobInv, TypeInv, Waiting, Working, gateVars, dbVars
<1>7. StoredInv'
    BY <1>0, <1>1, <1>2, <1>3, Apart, IdleRunning DEF StoredInv, Undisturbed, TypeInv, gateVars, dbVars
<1>8. PhaseInv'
    BY <1>0, <1>1, <1>2, <1>3, Apart, IdleRunning DEF PhaseInv, TypeInv, gateVars, dbVars
<1>9. OwnInv'
    BY <1>0, <1>1, <1>2, <1>3, Apart, IdleRunning DEF OwnInv, Undisturbed, PhaseInv, GateInv, TypeInv, Waiting, Working, gateVars, dbVars
<1>10. FrozenInv'
    BY <1>0, <1>1, <1>2, <1>3, Apart, IdleRunning DEF FrozenInv, OwnInv, Undisturbed, TypeInv, Waiting, Working, gateVars, dbVars
<1> QED BY <1>4, <1>5, <1>6, <1>7, <1>8, <1>9, <1>10 DEF Inv

LEMMA JoinedKeeps ==
    ASSUME Inv, Joined
    PROVE  Inv'
<1>0. TypeInv /\ GateInv /\ JobInv /\ StoredInv /\ PhaseInv /\ OwnInv /\ FrozenInv BY InvParts
<1>1. /\ upc = "joining" /\ upc' = "down"
      /\ UNCHANGED <<gateVars, wpc, write, bpc, backups, execVars, dbVars>>
    BY DEF Joined
<1>2. TypeInv'
    BY <1>0, <1>1, Apart DEF TypeInv, Operations, gateVars, execVars, dbVars
<1>3. GateInv'
    BY <1>0, <1>1, Apart, IdleRunning DEF GateInv, TypeInv, Waiting, Working, gateVars, execVars, dbVars
<1>4. JobInv'
    BY <1>0, <1>1, Apart, IdleRunning DEF JobInv, TypeInv, Waiting, Working, gateVars, execVars, dbVars
<1>5. StoredInv'
    BY <1>0, <1>1, Apart, IdleRunning DEF StoredInv, Undisturbed, TypeInv, gateVars, execVars, dbVars
<1>6. PhaseInv'
    BY <1>0, <1>1, Apart, IdleRunning DEF PhaseInv, TypeInv, gateVars, execVars, dbVars
<1>7. OwnInv'
    BY <1>0, <1>1, Apart, IdleRunning DEF OwnInv, Undisturbed, PhaseInv, GateInv, TypeInv, Waiting, Working, gateVars, execVars, dbVars
<1>8. FrozenInv'
    BY <1>0, <1>1, Apart, IdleRunning DEF FrozenInv, OwnInv, Undisturbed, TypeInv, Waiting, Working, gateVars, execVars, dbVars
<1> QED BY <1>2, <1>3, <1>4, <1>5, <1>6, <1>7, <1>8 DEF Inv

-----------------------------------------------------------------------------
(* The specification *)

LEMMA InitInv == Init => Inv
<1> SUFFICES ASSUME Init PROVE Inv
    OBVIOUS
<1>1. waiters \in Seq(Actors) /\ Distinct(waiters) /\ Elems(waiters) = {}
    BY DEF Init, Distinct, Elems
<1>2. jobs \in Seq(Actors) /\ Distinct(jobs) /\ Elems(jobs) = {}
    BY DEF Init, Distinct, Elems
<1>3. TypeInv
    <2>1. backups \in 0..MaxBackups BY ConstantsAssumption DEF Init, ConstantsAssumption
    <2>2. /\ wpc \in [Writers -> {"idle", "queued", "submitted", "done", "failed", "cancelled"}]
          /\ write \in [Writers -> Operations]
          /\ result \in [Actors -> {"none", "ok", "error", "cancelled"}]
        BY DEF Init, Operations
    <2>3. running \in [actor : Actors \cup {Nobody}, awaited : BOOLEAN] BY IdleRunning DEF Init
    <2>4. /\ gate \in Actors \cup {Nobody} /\ backupActive \in BOOLEAN /\ closed \in BOOLEAN
          /\ loaded \in BOOLEAN /\ connected \in BOOLEAN /\ inTransaction \in BOOLEAN
          /\ bpc = "idle" /\ upc = "up" /\ db = {} /\ wal = {}
        BY DEF Init
    <2> QED BY <1>1, <1>2, <2>1, <2>2, <2>3, <2>4 DEF TypeInv
<1>4. GateInv BY <1>1, Apart DEF Init, GateInv
<1>5. JobInv BY <1>2, Apart, IdleRunning DEF Init, JobInv
<1>6. StoredInv BY <1>2, Apart, IdleRunning DEF Init, StoredInv
<1>7. PhaseInv /\ FrozenInv BY DEF Init, PhaseInv, FrozenInv
<1>8. OwnInv BY DEF Init, OwnInv, Working
<1> QED BY <1>3, <1>4, <1>5, <1>6, <1>7, <1>8 DEF Inv

LEMMA NextInv == Inv /\ [Next]_vars => Inv'
<1> SUFFICES ASSUME Inv, [Next]_vars PROVE Inv'
    OBVIOUS
<1>1. ASSUME NEW w \in Writers, WriterStep(w) PROVE Inv'
    BY <1>1, CallWriterKeeps, ResumeWriterKeeps, ReturnWriterKeeps, CancelWriterKeeps DEF WriterStep
<1>2. CASE RunJob
    BY <1>2, RunWriteKeeps, RunCheckpointKeeps, RunCloseKeeps DEF RunJob
<1>3. CASE BackupStep
    BY <1>3, PreBackupKeeps, ResumePrepareKeeps, ReturnPrepareKeeps, TimeoutPrepareKeeps,
       PostBackupKeeps DEF BackupStep
<1>4. CASE UnloadStep
    BY <1>4, UnloadKeeps, CloseStorageKeeps, CloseAtGateKeeps, ResumeCloseKeeps, ReturnCloseKeeps,
       ShutdownKeeps, JoinedKeeps DEF UnloadStep
<1>5. CASE UNCHANGED vars
    BY <1>5 DEF Inv, TypeInv, GateInv, JobInv, StoredInv, PhaseInv, OwnInv, FrozenInv, Undisturbed,
                Waiting, Working, vars, gateVars, taskVars, execVars, dbVars
<1> QED BY <1>1, <1>2, <1>3, <1>4, <1>5, StartJobKeeps DEF Next

\* Gate, jobs, transaction and phases fit together in every state (SQLiteStorage).
THEOREM InvAlways == Spec => []Inv
BY InitInv, NextInv, PTL DEF Spec

\* Every variable keeps its shape, and no task waits for the gate twice, for any
\* number of write calls and backups.
THEOREM TypeCorrect == Spec => []TypeOK
<1>1. Inv => TypeOK
    BY InvParts DEF TypeInv, TypeOK, Distinct
<1> QED BY <1>1, InvAlways, PTL

\* As long as no backup has met an unload, the gate belongs to the task that is
\* between its acquire and its release, through cancellations and timeouts.
THEOREM GateOwned == Spec => []GateOwnership
<1>1. Inv => GateOwnership
    <2> SUFFICES ASSUME Inv, Undisturbed
                 PROVE  /\ \A w \in Writers : wpc[w] = "submitted" => gate = w
                        /\ backupActive => gate = HA
                        /\ upc = "closing" => gate = Unloader
                        /\ gate \in Writers => wpc[gate] \in {"queued", "submitted"}
                        /\ gate = HA => backupActive \/ bpc = "queued"
        BY DEF GateOwnership
    <2> QED BY InvParts, Apart DEF OwnInv, Waiting, Working
<1> QED BY <1>1, InvAlways, PTL

\* What a write call reports is what state.db holds: a result means committed, an
\* error that no trace was left.
THEOREM ResultIsStored == Spec => []AcknowledgedStored
<1>1. Inv => AcknowledgedStored
    BY InvParts DEF StoredInv, AcknowledgedStored
<1> QED BY <1>1, InvAlways, PTL

\* ADR-0004: while Home Assistant archives the configuration of a loaded entry, no
\* job runs, so neither the database nor its WAL changes.
THEOREM ArchiveStaysFrozen == Spec => ArchiveFrozen
<1> DEFINE Frozen == loaded' /\ bpc = "archive" /\ bpc' = "archive" => UNCHANGED <<db, wal>>
<1>1. ASSUME Inv, [Next]_vars, loaded', bpc = "archive" PROVE UNCHANGED <<db, wal>>
    <2>1. TypeInv /\ PhaseInv /\ FrozenInv BY <1>1, InvParts
    <2>2. ~loaded => ~loaded'
        BY <1>1, <2>1 DEF Next, WriterStep, BackupStep, UnloadStep, CallWriter, ResumeWriter,
               ReturnWriter, CancelWriter, StartJob, RunJob, PreBackup, ResumePrepare,
               ReturnPrepare, TimeoutPrepare, PostBackup, Unload, CloseStorage, CloseAtGate,
               ResumeClose, ReturnClose, Shutdown, Joined, vars, gateVars
    <2>3. loaded BY <1>1, <2>1, <2>2 DEF TypeInv
    <2>4. running = Idle BY <1>1, <2>1, <2>3 DEF FrozenInv
    <2>5. ~RunJob BY <2>4, Apart, IdleRunning DEF RunJob
    <2> QED BY <1>1, <2>5 DEF Next, WriterStep, BackupStep, UnloadStep, CallWriter, ResumeWriter,
               ReturnWriter, CancelWriter, StartJob, PreBackup, ResumePrepare,
               ReturnPrepare, TimeoutPrepare, PostBackup, Unload, CloseStorage, CloseAtGate,
               ResumeClose, ReturnClose, Shutdown, Joined, vars, dbVars
<1>2. Inv /\ [Next]_vars => Frozen BY <1>1
<1>3. Inv /\ [Next]_vars => [Frozen]_vars BY <1>2
<1> HIDE DEF Frozen
<1>4. Spec => [][Frozen]_vars BY <1>3, InvAlways, PTL DEF Spec
<1> QED BY <1>4 DEF Frozen, ArchiveFrozen

-----------------------------------------------------------------------------
(* The price of a transaction left open *)

\* The valid operations that have failed, and the invalid ones that may have
\* left a transaction open.
Victims == {w \in Writers : write[w].valid /\ (wpc[w] = "failed" \/ result[w] = "error")}
Spent == {w \in Writers : /\ ~write[w].valid
                          /\ \/ wpc[w] = "failed" \/ result[w] = "error"
                             \/ wpc[w] = "cancelled" /\ running.actor # w}
Debt == IF inTransaction THEN 1 ELSE 0

\* While the entry is loaded every victim, and the transaction that is open now,
\* is paid for by an invalid operation of its own.
DebtInv ==
    loaded => /\ connected /\ ~closed /\ running.actor # Unloader
              /\ Cardinality(Victims) + Debt <= Cardinality(Spent)

\* Any set of writers can be counted.
LEMMA WritersFinite == \A S \in SUBSET Writers : IsFiniteSet(S) /\ Cardinality(S) \in Nat
BY ConstantsAssumption, FS_Subset, FS_CardinalityType

\* A larger set of writers is no fewer of them.
LEMMA Monotone ==
    ASSUME NEW S \in SUBSET Writers, NEW T \in SUBSET Writers, S \subseteq T
    PROVE  Cardinality(S) <= Cardinality(T)
BY WritersFinite, FS_Subset

\* Victims and culprits are writers.
LEMMA VictimsAndSpent == Victims \in SUBSET Writers /\ Spent \in SUBSET Writers
BY DEF Victims, Spent

\* A step that opens no transaction, fails no valid operation and forgets no
\* invalid one keeps the account.
LEMMA DebtKept ==
    ASSUME DebtInv, loaded, connected', ~closed', running'.actor # Unloader,
           inTransaction' => inTransaction, Victims' \subseteq Victims, Spent \subseteq Spent'
    PROVE  DebtInv'
<1>1. /\ Cardinality(Victims') <= Cardinality(Victims) /\ Cardinality(Spent) <= Cardinality(Spent')
      /\ {Cardinality(Victims), Cardinality(Victims'), Cardinality(Spent), Cardinality(Spent')}
             \subseteq Nat
    <2>1. Victims' \in SUBSET Writers /\ Spent' \in SUBSET Writers BY DEF Victims, Spent
    <2> QED BY <2>1, VictimsAndSpent, Monotone, WritersFinite
<1>2. Debt' <= Debt /\ Debt \in Nat /\ Debt' \in Nat BY DEF Debt
<1>3. Cardinality(Victims) + Debt <= Cardinality(Spent) BY DEF DebtInv
<1>4. Cardinality(Victims') + Debt' <= Cardinality(Spent') BY <1>1, <1>2, <1>3
<1> QED BY <1>4 DEF DebtInv

\* The same, in terms of what a step changes.
LEMMA DebtUnmoved ==
    ASSUME DebtInv, loaded, UNCHANGED <<connected, closed, inTransaction>>,
           running'.actor # Unloader,
           \A w \in Writers :
               /\ write'[w].valid = write[w].valid \/ wpc[w] \in {"idle", "queued"}
               /\ (wpc'[w] = "failed" \/ result'[w] = "error")
                      = (wpc[w] = "failed" \/ result[w] = "error")
               /\ wpc[w] \in {"idle", "queued"} => result[w] # "error"
               /\ wpc[w] = "cancelled" /\ running.actor # w
                      => wpc'[w] = "cancelled" /\ running'.actor # w
    PROVE  DebtInv'
<1>1. Victims' \subseteq Victims BY DEF Victims
<1>2. Spent \subseteq Spent' BY DEF Spent
<1> QED BY <1>1, <1>2, DebtKept DEF DebtInv

LEMMA WriterStepDebt ==
    ASSUME Inv, DebtInv, loaded, NEW w \in Writers, WriterStep(w)
    PROVE  DebtInv'
<1>0. TypeInv /\ GateInv /\ JobInv /\ PhaseInv /\ OwnInv BY InvParts
<1>1. /\ UNCHANGED <<connected, closed, inTransaction>> /\ w \in Actors /\ upc = "up"
      /\ Undisturbed /\ ~closed
    BY <1>0, Apart DEF WriterStep, CallWriter, ResumeWriter, ReturnWriter, CancelWriter, dbVars,
                       PhaseInv, DebtInv, Undisturbed
<1>2. \A v \in Writers : wpc[v] \in {"idle", "queued", "cancelled", "failed"} => result[v] = "none"
    BY <1>0, Apart DEF JobInv, Working, TypeInv
<1>3. running'.actor = running.actor
    BY <1>0, <1>1, AbandonEffect
       DEF WriterStep, CallWriter, ResumeWriter, ReturnWriter, CancelWriter, Submit, Collect,
           execVars
<1>4. CASE CallWriter(w)
    <2>1. /\ wpc[w] = "idle" /\ \E pc \in {"submitted", "queued"} : wpc' = [wpc EXCEPT ![w] = pc]
          /\ \E op \in Operations : write' = [write EXCEPT ![w] = op]
          /\ UNCHANGED result
        BY <1>1, <1>4 DEF CallWriter, Submit, execVars
    <2> QED BY <1>0, <1>1, <1>2, <1>3, <2>1, DebtUnmoved DEF TypeInv, DebtInv
<1>5. CASE ResumeWriter(w)
    <2>1. /\ wpc[w] = "queued" /\ wpc' = [wpc EXCEPT ![w] = "submitted"]
          /\ UNCHANGED <<write, result>>
        BY <1>1, <1>5 DEF ResumeWriter, Submit, ExecutorShut
    <2> QED BY <1>0, <1>1, <1>2, <1>3, <2>1, DebtUnmoved DEF TypeInv, DebtInv
<1>6. CASE ReturnWriter(w)
    <2>1. /\ wpc[w] = "submitted" /\ result[w] # "none" /\ gate = w
          /\ wpc' = [wpc EXCEPT ![w] = WriteOutcome(w)] /\ UNCHANGED write
        BY <1>0, <1>1, <1>6 DEF ReturnWriter, OwnInv, Working
    <2>2. /\ result'[w] = "none" /\ \A b \in Actors : b # w => result'[b] = result[b]
        BY <1>0, <1>1, <1>6, CollectEffect DEF ReturnWriter
    <2>3. gate # Nobody BY <2>1, Apart
    <2>4. WriteOutcome(w) = "failed" <=> result[w] = "error"
        BY <1>0, <1>1, <2>1, <2>3 DEF WriteOutcome, TypeInv
    <2> QED BY <1>0, <1>1, <1>2, <1>3, <2>1, <2>2, <2>4, Apart, DebtUnmoved DEF TypeInv, DebtInv
<1>7. CASE CancelWriter(w)
    <2>1. /\ wpc[w] \in {"queued", "submitted"} /\ result[w] = "none"
          /\ wpc' = [wpc EXCEPT ![w] = "cancelled"] /\ UNCHANGED write
        BY <1>7 DEF CancelWriter
    <2>2. \A b \in Actors : result'[b] = result[b]
        BY <1>0, <1>1, <1>7, <2>1, AbandonEffect DEF CancelWriter, execVars
    <2> QED BY <1>0, <1>1, <1>2, <1>3, <2>1, <2>2, Apart, DebtUnmoved DEF TypeInv, DebtInv
<1> QED BY <1>4, <1>5, <1>6, <1>7 DEF WriterStep

\* A write that fails either was invalid, and joins the spent ones, or met an
\* open transaction, which its own rollback ends.
LEMMA RunWriteDebt ==
    ASSUME Inv, DebtInv, loaded, NEW w \in Writers, running.actor = w, RunWrite(w),
           UNCHANGED <<connected, gateVars, taskVars>>
    PROVE  DebtInv'
<1>0. TypeInv /\ JobInv BY InvParts
<1>1. /\ UNCHANGED <<wpc, write, closed>> /\ connected /\ connected' /\ ~closed'
      /\ running'.actor = Nobody /\ w \in Actors /\ w # Nobody
    BY Apart, IdleRunning, <1>0, EndEffect DEF RunWrite, DebtInv, gateVars, taskVars
<1>2. running'.actor # Unloader BY <1>1, Apart
<1>3. CASE write[w].valid /\ ~(write[w].opens /\ inTransaction)
    <2>1. EndJob("ok") /\ inTransaction' = FALSE BY <1>1, <1>3 DEF RunWrite, Commit
    <2>2. \A a \in Actors : result'[a] = "error" <=> (result[a] = "error" /\ ~(running.awaited /\ a = w))
        BY <1>0, <2>1, EndEffect
    <2>3. \A a \in Actors : result'[a] = "error" <=> result[a] = "error"
        BY <1>0, <2>2 DEF JobInv
    <2>4. Victims' \subseteq Victims BY <1>1, <2>3, Apart DEF Victims
    <2>5. Spent \subseteq Spent' BY <1>1, <2>3, Apart DEF Spent
    <2> QED BY <1>1, <1>2, <2>1, <2>4, <2>5, DebtKept
<1>4. CASE ~(write[w].valid /\ ~(write[w].opens /\ inTransaction))
    <2>1. EndJob("error") /\ inTransaction' = ~write[w].opens BY <1>1, <1>4 DEF RunWrite
    <2>2. \A a \in Actors : result'[a] = IF running.awaited /\ a = w THEN "error" ELSE result[a]
        BY <1>0, <2>1, EndEffect
    <2>3. result[w] = "none" /\ wpc[w] \in {"submitted", "cancelled"}
          /\ (wpc[w] = "submitted" => running.awaited) /\ (running.awaited => wpc[w] = "submitted")
        BY <1>0, <1>1, Apart DEF JobInv, Working, TypeInv
    <2>4. /\ IsFiniteSet(Victims) /\ IsFiniteSet(Spent) /\ Cardinality(Victims) \in Nat
          /\ Cardinality(Spent) \in Nat /\ Cardinality(Victims') \in Nat
          /\ Cardinality(Spent') \in Nat
        <3>1. Victims' \in SUBSET Writers /\ Spent' \in SUBSET Writers BY DEF Victims, Spent
        <3> QED BY <3>1, VictimsAndSpent, WritersFinite
    <2>5. Cardinality(Victims) + Debt <= Cardinality(Spent) BY DEF DebtInv
    <2>6. CASE write[w].valid
        <3>1. inTransaction /\ inTransaction' = FALSE BY <1>0, <1>4, <2>1, <2>6
        <3>2. Victims' \subseteq Victims \cup {w} BY <1>1, <2>2, Apart DEF Victims
        <3>3. Spent \subseteq Spent' BY <1>1, <2>2, <2>6, Apart DEF Spent
        <3>4. Cardinality(Victims') <= Cardinality(Victims) + 1
            <4>1. /\ IsFiniteSet(Victims \cup {w})
                  /\ Cardinality(Victims \cup {w}) \in {Cardinality(Victims), Cardinality(Victims) + 1}
                BY <2>4, FS_AddElement
            <4>2. Cardinality(Victims') <= Cardinality(Victims \cup {w})
                BY <3>2, <4>1, FS_Subset
            <4> QED BY <2>4, <4>1, <4>2
        <3>5. Cardinality(Spent) <= Cardinality(Spent')
            <4>1. Spent' \in SUBSET Writers BY DEF Spent
            <4> QED BY <3>3, <4>1, VictimsAndSpent, Monotone
        <3>6. Cardinality(Victims') + Debt' <= Cardinality(Spent')
            BY <2>4, <2>5, <3>1, <3>4, <3>5 DEF Debt
        <3> QED BY <1>1, <1>2, <3>6 DEF DebtInv
    <2>7. CASE ~write[w].valid
        <3>1. Victims' \subseteq Victims BY <1>1, <2>2, <2>7, Apart DEF Victims
        <3>2. Spent \cup {w} \subseteq Spent' BY <1>1, <2>2, <2>3, <2>7, Apart DEF Spent
        <3>3. w \notin Spent BY <2>3, <1>1 DEF Spent
        <3>4. Cardinality(Spent) + 1 <= Cardinality(Spent')
            <4>1. Spent' \in SUBSET Writers /\ Spent \cup {w} \in SUBSET Writers BY DEF Spent
            <4>2. Cardinality(Spent \cup {w}) = Cardinality(Spent) + 1
                BY <2>4, <3>3, FS_AddElement
            <4> QED BY <3>2, <4>1, <4>2, Monotone
        <3>5. Cardinality(Victims') <= Cardinality(Victims)
            <4>1. Victims' \in SUBSET Writers BY DEF Victims
            <4> QED BY <3>1, <4>1, VictimsAndSpent, Monotone
        <3>6. Debt \in {0, 1} /\ Debt' \in {0, 1} BY DEF Debt
        <3>7. Cardinality(Victims') + Debt' <= Cardinality(Spent')
            BY <2>4, <2>5, <3>4, <3>5, <3>6
        <3> QED BY <1>1, <1>2, <3>7 DEF DebtInv
    <2> QED BY <2>6, <2>7
<1> QED BY <1>3, <1>4

LEMMA NextDebt == Inv /\ DebtInv /\ [Next]_vars => DebtInv'
<1> SUFFICES ASSUME Inv, DebtInv, [Next]_vars, loaded, loaded' PROVE DebtInv'
    <2>1. ~loaded => ~loaded' \/ ~[Next]_vars
        BY DEF Next, WriterStep, BackupStep, UnloadStep, CallWriter, ResumeWriter,
               ReturnWriter, CancelWriter, StartJob, RunJob, PreBackup, ResumePrepare,
               ReturnPrepare, TimeoutPrepare, PostBackup, Unload, CloseStorage, CloseAtGate,
               ResumeClose, ReturnClose, Shutdown, Joined, vars, gateVars
    <2> QED BY <2>1 DEF DebtInv
<1>0. TypeInv /\ JobInv /\ PhaseInv BY InvParts
<1>1. upc = "up" /\ ~Working(Unloader) /\ running.actor # Unloader
    BY <1>0, Apart DEF PhaseInv, Working, DebtInv
<1>2. \A v \in Writers : wpc[v] \in {"idle", "queued", "cancelled"} => result[v] = "none"
    BY <1>0, Apart DEF JobInv, Working, TypeInv
<1>3. CASE StartJob
    <2>1. /\ jobs # <<>> /\ running'.actor = Head(jobs)
          /\ UNCHANGED <<closed, connected, inTransaction, wpc, write, result>>
        BY <1>3 DEF StartJob, gateVars, taskVars, dbVars
    <2>2. Working(Head(jobs)) BY <1>0, <2>1, TailQueue DEF TypeInv, JobInv
    <2>3. running'.actor # Unloader BY <1>1, <2>1, <2>2
    <2>4. \A v \in Writers : wpc[v] = "cancelled" => running'.actor # v
        BY <2>1, <2>2, Apart DEF Working
    <2> QED BY <1>2, <2>1, <2>3, <2>4, DebtUnmoved
<1>4. CASE RunJob
    <2>1. CASE running.actor = HA /\ RunCheckpoint /\ UNCHANGED connected
        <3>1. /\ UNCHANGED <<closed, connected, inTransaction, wpc, write>>
              /\ \E outcome \in {"ok", "error"} : EndJob(outcome)
            BY <1>4, <2>1 DEF RunJob, RunCheckpoint, gateVars, taskVars
        <3>2. running'.actor = Nobody /\ \A a \in Actors : a # HA => result'[a] = result[a]
            BY <1>0, <2>1, <3>1, EndEffect, IdleRunning
        <3> QED BY <1>2, <3>1, <3>2, Apart, DebtUnmoved
    <2> QED BY <1>1, <1>4, <2>1, RunWriteDebt DEF RunJob
<1>5. CASE BackupStep
    <2>1. UNCHANGED <<closed, connected, inTransaction, wpc, write>>
        BY <1>5 DEF BackupStep, PreBackup, ResumePrepare, ReturnPrepare, TimeoutPrepare,
                    PostBackup, dbVars
    <2>2. running'.actor = running.actor /\ \A a \in Actors : a # HA => result'[a] = result[a]
        BY <1>0, <1>5, Apart, AbandonEffect, CollectEffect
           DEF BackupStep, PreBackup, ResumePrepare, ReturnPrepare, TimeoutPrepare, PostBackup,
               Submit, execVars
    <2> QED BY <1>1, <1>2, <2>1, <2>2, Apart, DebtUnmoved
<1>6. CASE UnloadStep
    BY <1>1, <1>6 DEF UnloadStep, Unload, CloseStorage, CloseAtGate, ResumeClose, ReturnClose,
                      Shutdown, Joined
<1>7. CASE UNCHANGED vars
    BY <1>1, <1>2, <1>7, DebtUnmoved DEF vars, gateVars, taskVars, execVars, dbVars
<1> QED BY <1>3, <1>4, <1>5, <1>6, <1>7, WriterStepDebt DEF Next

\* While the entry is loaded, the transactions that failed single statements
\* leave open cost no more valid operations than there were failures.
THEOREM CollateralBounded == Spec => []BoundedCollateral
<1>1. Init => DebtInv
    <2> SUFFICES ASSUME Init PROVE DebtInv OBVIOUS
    <2>1. Victims = {} /\ Spent = {}
        BY DEF Init, Victims, Spent, Actors
    <2> QED BY <2>1, FS_EmptySet, Apart, IdleRunning DEF Init, DebtInv, Debt
<1>2. Inv /\ DebtInv => BoundedCollateral
    <2> SUFFICES ASSUME Inv, DebtInv, loaded
                 PROVE  Cardinality(Collateral) <= Cardinality(Culprits)
        BY DEF BoundedCollateral
    <2>1. Collateral \subseteq Victims BY DEF Collateral, Victims
    <2>2. Spent \subseteq Culprits
        <3>1. \A w \in Writers : result[w] = "error" => wpc[w] = "submitted"
            BY InvParts, Apart DEF JobInv, Working
        <3> QED BY <3>1 DEF Spent, Culprits
    <2>3. Collateral \in SUBSET Writers /\ Culprits \in SUBSET Writers
        BY DEF Collateral, Culprits
    <2>4. /\ Cardinality(Collateral) <= Cardinality(Victims)
          /\ Cardinality(Spent) <= Cardinality(Culprits)
          /\ {Cardinality(Collateral), Cardinality(Victims), Cardinality(Spent),
              Cardinality(Culprits)} \subseteq Nat
        BY <2>1, <2>2, <2>3, VictimsAndSpent, Monotone, WritersFinite
    <2>5. Cardinality(Victims) + Debt <= Cardinality(Spent) /\ Debt \in Nat BY DEF DebtInv, Debt
    <2> QED BY <2>4, <2>5
<1> QED BY <1>1, <1>2, NextDebt, InvAlways, PTL DEF Spec
=============================================================================
