------------------------- MODULE DatasetInstall_proofs -------------------------
(***************************************************************************)
(* Proofs about dataset installs: for every set of datasets and packages,  *)
(* of calls, cancellations, reloads and crashes.                           *)
(***************************************************************************)
EXTENDS DatasetInstall, TLAPS

-----------------------------------------------------------------------------
(* One build: the catalog of the candidate *)

\* LifecycleTraced for one catalog, whose tombstones are [life, since] rows.
Traced(catalog) ==
    /\ DOMAIN catalog.tombs = {x \in Known(catalog) : catalog.state[x] # Active}
    /\ \A x \in Known(catalog) : catalog.trail[x].life = catalog.state[x]
    /\ \A x \in DOMAIN catalog.tombs :
           /\ catalog.tombs[x] = catalog.trail[x]
           /\ catalog.tombs[x] = [life |-> catalog.tombs[x].life, since |-> catalog.tombs[x].since]

\* A build keeps tombstones and history in step: what is not changed by it keeps
\* its date in both, what is changed gets the new generation in both.
LEMMA CandidateTraced ==
    ASSUME NEW catalog, Traced(catalog), NEW cs, NEW gen
    PROVE  Traced(Candidate(catalog, cs, gen))
<1> DEFINE state == MergedState(catalog, cs)
           new == Candidate(catalog, cs, gen)
<1>1. /\ new.tombs = Tombstones(catalog, state, gen) /\ new.trail = Trail(catalog, state, gen)
      /\ new.state = state /\ new.owner = MergedOwner(catalog, cs)
    BY DEF Candidate
<1>2. DOMAIN state = DOMAIN new.owner BY <1>1 DEF MergedState, MergedOwner
<1>3. Known(new) = DOMAIN state BY <1>2 DEF Known
<1> HIDE DEF state, new
<1>4. DOMAIN new.tombs = {x \in Known(new) : new.state[x] # Active}
    BY <1>1, <1>3 DEF Tombstones
<1>5. ASSUME NEW x \in Known(new)
      PROVE  /\ new.trail[x].life = state[x]
             /\ state[x] # Active =>
                    /\ new.tombs[x] = [life |-> state[x], since |-> Since(catalog, x, state[x], gen)]
                    /\ new.trail[x] = new.tombs[x]
    <2>1. new.trail[x] = IF x \in Known(catalog) /\ catalog.state[x] = state[x]
                         THEN catalog.trail[x] ELSE [life |-> state[x], since |-> gen]
        BY <1>1, <1>3 DEF Trail
    <2>2. state[x] # Active =>
              new.tombs[x] = [life |-> state[x], since |-> Since(catalog, x, state[x], gen)]
        BY <1>1, <1>3 DEF Tombstones
    <2>3. CASE x \in Known(catalog) /\ catalog.state[x] = state[x]
        <3>1. new.trail[x] = catalog.trail[x] /\ catalog.trail[x].life = state[x]
            BY <2>1, <2>3 DEF Traced
        <3>2. ASSUME state[x] # Active
              PROVE  new.trail[x] = [life |-> state[x], since |-> Since(catalog, x, state[x], gen)]
            <4>1. x \in DOMAIN catalog.tombs BY <2>3, <3>2 DEF Traced
            <4>2. /\ catalog.tombs[x] = catalog.trail[x] /\ catalog.tombs[x].life = state[x]
                  /\ catalog.tombs[x] = [life |-> catalog.tombs[x].life, since |-> catalog.tombs[x].since]
                BY <3>1, <4>1 DEF Traced
            <4>3. Since(catalog, x, state[x], gen) = catalog.tombs[x].since BY <4>1, <4>2 DEF Since
            <4> QED BY <3>1, <4>2, <4>3
        <3> QED BY <2>2, <3>1, <3>2
    <2>4. CASE ~(x \in Known(catalog) /\ catalog.state[x] = state[x])
        <3>1. new.trail[x] = [life |-> state[x], since |-> gen] BY <2>1, <2>4
        <3>2. x \in DOMAIN catalog.tombs => catalog.tombs[x].life # state[x]
            BY <2>4 DEF Traced
        <3>3. Since(catalog, x, state[x], gen) = gen BY <3>2 DEF Since
        <3> QED BY <2>2, <3>1, <3>3
    <2> QED BY <2>3, <2>4
<1>6. ASSUME NEW x \in DOMAIN new.tombs
      PROVE  /\ new.tombs[x] = new.trail[x]
             /\ new.tombs[x] = [life |-> new.tombs[x].life, since |-> new.tombs[x].since]
    <2>1. x \in Known(new) /\ state[x] # Active BY <1>1, <1>4
    <2> DEFINE life == state[x]
               since == Since(catalog, x, state[x], gen)
    <2>2. new.tombs[x] = [life |-> life, since |-> since] /\ new.trail[x] = new.tombs[x]
        BY <1>5, <2>1
    <2> HIDE DEF life, since
    <2>3. new.tombs[x].life = life /\ new.tombs[x].since = since BY <2>2
    <2> QED BY <2>2, <2>3
<1> QED BY <1>1, <1>4, <1>5, <1>6 DEF Traced, new

\* A build takes the package of each dataset from the set it is given.
LEMMA CandidatePackages ==
    ASSUME NEW catalog, NEW cs, NEW gen, NEW d \in Datasets
    PROVE  LET c == Candidate(catalog, cs, gen).packages[d] IN
               \/ c = None /\ \A e \in cs : Package[e].dataset # d
               \/ c \in cs /\ Package[c].dataset = d
BY DEF Candidate, PackageOf

-----------------------------------------------------------------------------
(* What is installed and cached comes from a set S of contents. *)

\* A catalog in step with its history, of packages from S.
CatalogOf(catalog, S) ==
    Traced(catalog) /\ \A d \in Datasets : catalog.packages[d] \in S \cup {None}

\* A job is a record of these fields; changing some keeps the others.
Shaped(j) ==
    j = [at |-> j.at, op |-> j.op, dataset |-> j.dataset, version |-> j.version,
         content |-> j.content, others |-> j.others, candidate |-> j.candidate]

LEMMA ChangesOthers ==
    ASSUME NEW j, Shaped(j), NEW x, NEW y
    PROVE  [j EXCEPT !.at = x, !.others = y] =
           [at |-> x, op |-> j.op, dataset |-> j.dataset, version |-> j.version,
            content |-> j.content, others |-> y, candidate |-> j.candidate]
<1>1. PICK first : first = [j EXCEPT !.at = x] OBVIOUS
<1>2. first = [at |-> x, op |-> j.op, dataset |-> j.dataset, version |-> j.version,
               content |-> j.content, others |-> j.others, candidate |-> j.candidate]
    BY <1>1 DEF Shaped
<1>3. [j EXCEPT !.at = x, !.others = y] = [first EXCEPT !.others = y] BY <1>1 DEF Shaped
<1> QED BY <1>2, <1>3

LEMMA ChangesContent ==
    ASSUME NEW j, Shaped(j), NEW x, NEW y
    PROVE  [j EXCEPT !.at = x, !.content = y] =
           [at |-> x, op |-> j.op, dataset |-> j.dataset, version |-> j.version,
            content |-> y, others |-> j.others, candidate |-> j.candidate]
<1>1. PICK first : first = [j EXCEPT !.at = x] OBVIOUS
<1>2. first = [at |-> x, op |-> j.op, dataset |-> j.dataset, version |-> j.version,
               content |-> j.content, others |-> j.others, candidate |-> j.candidate]
    BY <1>1 DEF Shaped
<1>3. [j EXCEPT !.at = x, !.content = y] = [first EXCEPT !.content = y] BY <1>1 DEF Shaped
<1> QED BY <1>2, <1>3

LEMMA ChangesCandidate ==
    ASSUME NEW j, Shaped(j), NEW x, NEW y
    PROVE  [j EXCEPT !.at = x, !.candidate = y] =
           [at |-> x, op |-> j.op, dataset |-> j.dataset, version |-> j.version,
            content |-> j.content, others |-> j.others, candidate |-> y]
<1>1. PICK first : first = [j EXCEPT !.at = x] OBVIOUS
<1>2. first = [at |-> x, op |-> j.op, dataset |-> j.dataset, version |-> j.version,
               content |-> j.content, others |-> j.others, candidate |-> j.candidate]
    BY <1>1 DEF Shaped
<1>3. [j EXCEPT !.at = x, !.candidate = y] = [first EXCEPT !.candidate = y] BY <1>1 DEF Shaped
<1> QED BY <1>2, <1>3

LEMMA ChangesOp ==
    ASSUME NEW j, Shaped(j), NEW x, NEW y
    PROVE  [j EXCEPT !.op = x, !.others = y] =
           [at |-> j.at, op |-> x, dataset |-> j.dataset, version |-> j.version,
            content |-> j.content, others |-> y, candidate |-> j.candidate]
<1>1. PICK first : first = [j EXCEPT !.op = x] OBVIOUS
<1>2. first = [at |-> j.at, op |-> x, dataset |-> j.dataset, version |-> j.version,
               content |-> j.content, others |-> j.others, candidate |-> j.candidate]
    BY <1>1 DEF Shaped
<1>3. [j EXCEPT !.op = x, !.others = y] = [first EXCEPT !.others = y] BY <1>1 DEF Shaped
<1> QED BY <1>2, <1>3

\* A call under way: past the download it has a content from S.
JobOf(j, S) ==
    /\ Shaped(j)
    /\ j.content \in S \cup {None}
    /\ j.at \in {"inventory", "assets", "place", "package"} => j.content \in S
    /\ j.others \subseteq S
    /\ j.at = "activate" => CatalogOf(j.candidate, S)

CallsInv(S) ==
    /\ call = [k \in Calls |-> call[k]]
    /\ \A k \in Calls : call[k] = Idle \/ JobOf(call[k], S)

DiskInv(S) ==
    /\ \A r \in Releases : packages[r] \in S \cup {None}
    /\ packages = [r \in Releases |-> packages[r]]
    /\ \A s \in strays : s = [content |-> s.content, at |-> s.at] /\ s.content \in S
    /\ CatalogOf(active, S) /\ CatalogOf(retained, S)

DrawnInv(S) == CallsInv(S) /\ DiskInv(S)

\* S is closed under what brings new contents: the download and the bundle.
Closed(S) ==
    /\ S \subseteq Contents /\ Bundled \in S
    /\ \A a \in Artifacts : Acceptable(a) /\ DescribesDatabase(a) => Digest(a, "dataset.db") \in S

LEMMA ReleaseOf == ASSUME NEW c \in Contents PROVE Release(c) \in Releases
    BY PackageAssumption DEF PackageAssumption, IsPackage, Release, Releases

LEMMA EmptyOf == ASSUME NEW S PROVE CatalogOf(EmptyCatalog, S)
    BY DEF CatalogOf, Traced, EmptyCatalog, Known

LEMMA CallMoves ==
    ASSUME NEW S, CallsInv(S), NEW k \in Calls, NEW j, j = Idle \/ JobOf(j, S),
           call' = [call EXCEPT ![k] = j]
    PROVE  CallsInv(S)'
<1>1. /\ call' = [i \in Calls |-> IF i = k THEN j ELSE call[i]]
    BY DEF CallsInv
<1>2. call' = [i \in Calls |-> call'[i]] BY <1>1
<1>3. \A i \in Calls : call'[i] = Idle \/ JobOf(call'[i], S) BY <1>1 DEF CallsInv
<1> QED BY <1>2, <1>3 DEF CallsInv, JobOf, CatalogOf, Traced, Known, Idle

LEMMA DiskStays ==
    ASSUME NEW S, DiskInv(S), UNCHANGED <<packages, strays, active, retained>>
    PROVE  DiskInv(S)'
BY DEF DiskInv, CatalogOf, Traced, Known

LEMMA Stays ==
    ASSUME NEW S, DrawnInv(S), UNCHANGED call, UNCHANGED <<packages, strays, active, retained>>
    PROVE  DrawnInv(S)'
BY DiskStays DEF DrawnInv, CallsInv, JobOf, CatalogOf, Traced, Known

LEMMA Moves ==
    ASSUME NEW S, DrawnInv(S), UNCHANGED <<packages, strays, active, retained>>,
           NEW k \in Calls, NEW j, j = Idle \/ JobOf(j, S), call' = [call EXCEPT ![k] = j]
    PROVE  DrawnInv(S)'
BY DiskStays, CallMoves DEF DrawnInv

\* The job of a call that is at a place of its own.
LEMMA JobAt ==
    ASSUME NEW S, DrawnInv(S), NEW k \in Calls, NEW at, At(k, at)
    PROVE  JobOf(call[k], S) /\ call[k].at = at
BY DEF DrawnInv, CallsInv, At

\* Going on from a place keeps the rest of the job.
LEMMA GoesOn ==
    ASSUME NEW S, DrawnInv(S), UNCHANGED <<packages, strays, active, retained>>,
           NEW k \in Calls, call[k] # Idle, NEW at, at # "activate", Goto(k, at),
           at \in {"inventory", "assets", "place", "package"} => call[k].content \in S
    PROVE  DrawnInv(S)'
<1> DEFINE j == [call[k] EXCEPT !.at = at]
<1>1. JobOf(call[k], S) BY DEF DrawnInv, CallsInv
<1>2. j = [at |-> at, op |-> call[k].op, dataset |-> call[k].dataset, version |-> call[k].version,
           content |-> call[k].content, others |-> call[k].others, candidate |-> call[k].candidate]
    BY <1>1 DEF JobOf, Shaped
<1>3. JobOf(j, S) BY <1>1, <1>2 DEF JobOf, Shaped
<1>4. call' = [call EXCEPT ![k] = j] BY DEF Goto
<1> QED BY <1>3, <1>4, Moves

LEMMA FailKeeps ==
    ASSUME NEW S, DrawnInv(S), UNCHANGED <<packages, strays, active, retained>>,
           NEW k \in Calls, Fail(k)
    PROVE  DrawnInv(S)'
<1>1. call' = [call EXCEPT ![k] = Idle] BY DEF Fail, Leave
<1> QED BY <1>1, Moves

\* A job that enters with a content and no candidate.
LEMMA JobEnters ==
    ASSUME NEW S, NEW d, NEW at, at # "activate", NEW c \in S \cup {None},
           at \in {"inventory", "assets", "place", "package"} => c \in S
    PROVE  JobOf(Job(d, at, c), S)
BY DEF JobOf, Shaped, Job

LEMMA BundledKeeps ==
    ASSUME NEW S, DrawnInv(S), Closed(S), NEW k \in Calls, BeginBundled(k)
    PROVE  DrawnInv(S)'
<1> DEFINE d == PackageOf(Bundled).dataset
<1>1. JobOf(Job(d, "inventory", Bundled), S) BY JobEnters DEF Closed
<1>2. UNCHANGED <<packages, strays, active, retained>>
    BY DEF BeginBundled, diskVars, taskVars
<1>3. \/ UNCHANGED call
      \/ call' = [call EXCEPT ![k] = Job(d, "inventory", Bundled)]
    BY DEF BeginBundled, taskVars, Enter
<1> HIDE DEF d
<1> QED BY <1>1, <1>2, <1>3, Moves, Stays

LEMMA InstallKeeps ==
    ASSUME NEW S, DrawnInv(S), NEW k \in Calls, NEW d, BeginInstall(k, d)
    PROVE  DrawnInv(S)'
<1>1. PICK r : call' = [call EXCEPT ![k] = [Job(d, "fetch", None) EXCEPT !.version = r.version]]
    BY DEF BeginInstall, Enter
<1> DEFINE j == [Job(d, "fetch", None) EXCEPT !.version = r.version]
<1>2. JobOf(j, S) BY DEF JobOf, Shaped, Job
<1>3. UNCHANGED <<packages, strays, active, retained>> BY DEF BeginInstall, diskVars
<1> QED BY <1>1, <1>2, <1>3, Moves

LEMMA RemoveKeeps ==
    ASSUME NEW S, DrawnInv(S), NEW k \in Calls, NEW d \in Datasets, BeginRemove(k, d)
    PROVE  DrawnInv(S)'
<1> DEFINE others == {Installed(e) : e \in Datasets \ {d}} \ {None}
           j == [Job(d, "collect", None) EXCEPT !.op = "remove", !.others = others]
<1>1. others \subseteq S BY DEF DrawnInv, DiskInv, CatalogOf, Installed
<1>2. j = [at |-> "collect", op |-> "remove", dataset |-> d, version |-> 0, content |-> None,
           others |-> others, candidate |-> EmptyCatalog]
    <2>1. PICK base : base = Job(d, "collect", None) OBVIOUS
    <2>2. /\ Shaped(base) /\ base.at = "collect" /\ base.dataset = d /\ base.version = 0
          /\ base.content = None /\ base.candidate = EmptyCatalog
        BY <2>1 DEF Shaped, Job
    <2>3. [base EXCEPT !.op = "remove", !.others = others] =
              [at |-> base.at, op |-> "remove", dataset |-> base.dataset, version |-> base.version,
               content |-> base.content, others |-> others, candidate |-> base.candidate]
        BY <2>2, ChangesOp
    <2> QED BY <2>1, <2>2, <2>3
<1>3. call' = [call EXCEPT ![k] = j] BY DEF BeginRemove, Enter
<1> HIDE DEF others
<1>4. JobOf(j, S) BY <1>1, <1>2 DEF JobOf, Shaped
<1>5. UNCHANGED <<packages, strays, active, retained>> BY DEF BeginRemove, diskVars
<1> QED BY <1>3, <1>4, <1>5, Moves

LEMMA FetchKeeps ==
    ASSUME NEW S, DrawnInv(S), Closed(S), NEW k \in Calls, FetchArtifact(k)
    PROVE  DrawnInv(S)'
<1>1. UNCHANGED <<packages, strays, active, retained>> BY DEF FetchArtifact, diskVars
<1>2. CASE Fail(k) BY <1>1, <1>2, FailKeeps
<1>3. ASSUME NEW a \in Artifacts, Acceptable(a), DescribesDatabase(a),
             call' = [call EXCEPT ![k].at = "inventory", ![k].content = Digest(a, "dataset.db")]
      PROVE  DrawnInv(S)'
    <2> DEFINE c == Digest(a, "dataset.db")
               j == [call[k] EXCEPT !.at = "inventory", !.content = c]
    <2>1. c \in S BY <1>3 DEF Closed
    <2> HIDE DEF c
    <2>2. JobOf(call[k], S) BY JobAt DEF FetchArtifact
    <2>3. j = [at |-> "inventory", op |-> call[k].op, dataset |-> call[k].dataset,
               version |-> call[k].version, content |-> c, others |-> call[k].others,
               candidate |-> call[k].candidate]
        BY <2>2, ChangesContent DEF JobOf
    <2>4. JobOf(j, S) BY <2>1, <2>2, <2>3 DEF JobOf, Shaped
    <2>5. call' = [call EXCEPT ![k] = j] BY <1>3 DEF c
    <2> QED BY <1>1, <2>4, <2>5, Moves
<1> QED BY <1>2, <1>3 DEF FetchArtifact

LEMMA InventoryKeeps ==
    ASSUME NEW S, DrawnInv(S), NEW k \in Calls, ReadInventory(k)
    PROVE  DrawnInv(S)'
<1> DEFINE others == {Installed(e) : e \in Datasets \ {PackageOf(call[k].content).dataset}} \ {None}
           j == [call[k] EXCEPT !.at = "assets", !.others = others]
<1>1. UNCHANGED <<packages, strays, active, retained>> BY DEF ReadInventory, diskVars
<1>2. others \subseteq S BY DEF DrawnInv, DiskInv, CatalogOf, Installed
<1>3. JobOf(call[k], S) /\ call[k].content \in S BY JobAt DEF ReadInventory, JobOf
<1>4. Fail(k) \/ call' = [call EXCEPT ![k] = j] BY DEF ReadInventory
<1> HIDE DEF others
<1>5. j = [at |-> "assets", op |-> call[k].op, dataset |-> call[k].dataset,
           version |-> call[k].version, content |-> call[k].content, others |-> others,
           candidate |-> call[k].candidate]
    BY <1>3, ChangesOthers DEF JobOf
<1>6. JobOf(j, S) BY <1>2, <1>3, <1>5 DEF JobOf, Shaped
<1> QED BY <1>1, <1>4, <1>6, Moves, FailKeeps

LEMMA StoreKeeps ==
    ASSUME NEW S, DrawnInv(S), Closed(S), NEW k \in Calls, StorePackage(k)
    PROVE  DrawnInv(S)'
<1> DEFINE c == call[k].content
           j == [call[k] EXCEPT !.at = "collect"]
<1>1. JobOf(call[k], S) /\ c \in S BY JobAt DEF StorePackage, JobOf
<1>2. j = [at |-> "collect", op |-> call[k].op, dataset |-> call[k].dataset,
           version |-> call[k].version, content |-> call[k].content, others |-> call[k].others,
           candidate |-> call[k].candidate]
    BY <1>1 DEF JobOf, Shaped
<1>3. JobOf(j, S) BY <1>1, <1>2 DEF JobOf, Shaped
<1>4. call' = [call EXCEPT ![k] = j] BY DEF StorePackage, Goto
<1>5. CallsInv(S)' BY <1>3, <1>4, CallMoves DEF DrawnInv
<1>6. packages' = [packages EXCEPT ![Release(c)] = c] /\ UNCHANGED <<strays, active, retained>>
    BY DEF StorePackage
<1> HIDE DEF c
<1>7. DiskInv(S)' BY <1>1, <1>6 DEF DrawnInv, DiskInv, CatalogOf, Traced, Known
<1> QED BY <1>5, <1>7 DEF DrawnInv

LEMMA BuildKeeps ==
    ASSUME NEW S, DrawnInv(S), Closed(S), NEW k \in Calls, BuildGeneration(k)
    PROVE  DrawnInv(S)'
<1> DEFINE cs == {packages[Release(c)] : c \in PackageSet(k)}
           new == Candidate(active, cs, built + 1)
           j == [call[k] EXCEPT !.at = "activate", !.candidate = new]
<1>1. UNCHANGED <<packages, strays, active, retained>> BY DEF BuildGeneration
<1>2. JobOf(call[k], S) BY JobAt DEF BuildGeneration
<1>3. Fail(k) \/ call' = [call EXCEPT ![k] = j] BY DEF BuildGeneration
<1>4. PackageSet(k) \subseteq S BY <1>2 DEF PackageSet, JobOf
<1>5. cs \subseteq S \cup {None}
    BY <1>4, ReleaseOf DEF DrawnInv, DiskInv, Closed
<1>6. Traced(new) BY CandidateTraced DEF DrawnInv, DiskInv, CatalogOf
<1>7. \A d \in Datasets : new.packages[d] = None \/ new.packages[d] \in cs BY CandidatePackages
<1> HIDE DEF new, cs
<1>8. CatalogOf(new, S) BY <1>5, <1>6, <1>7 DEF CatalogOf
<1>9. j = [at |-> "activate", op |-> call[k].op, dataset |-> call[k].dataset,
           version |-> call[k].version, content |-> call[k].content, others |-> call[k].others,
           candidate |-> new]
    BY <1>2, ChangesCandidate DEF JobOf
<1>10. JobOf(j, S) BY <1>2, <1>8, <1>9 DEF JobOf, Shaped
<1> QED BY <1>1, <1>3, <1>10, Moves, FailKeeps

\* A switch makes the candidate active and retains what was.
LEMMA SwitchKeeps ==
    ASSUME NEW S, DrawnInv(S), NEW k \in Calls, At(k, "activate"), Switch(k)
    PROVE  /\ CatalogOf(active, S)' /\ CatalogOf(retained, S)'
           /\ packages' = packages
<1>1. JobOf(call[k], S) /\ call[k].at = "activate" BY JobAt
<1>2. CatalogOf(call[k].candidate, S) BY <1>1 DEF JobOf
<1>3. active' = call[k].candidate /\ retained' = active /\ packages' = packages BY DEF Switch
<1> QED BY <1>2, <1>3 DEF DrawnInv, DiskInv, CatalogOf, Traced, Known

LEMMA ActivateKeeps ==
    ASSUME NEW S, DrawnInv(S), NEW k \in Calls, ActivateGeneration(k)
    PROVE  DrawnInv(S)'
<1>1. call' = [call EXCEPT ![k] = Idle] BY DEF ActivateGeneration, Leave, Fail
<1>2. UNCHANGED strays BY DEF ActivateGeneration
<1>3. CASE UNCHANGED <<active, retained, packages>> BY <1>1, <1>2, <1>3, Moves
<1>4. CASE Switch(k)
    <2>1. CallsInv(S)' BY <1>1, CallMoves DEF DrawnInv
    <2>2. CatalogOf(active, S)' /\ CatalogOf(retained, S)' /\ packages' = packages
        BY <1>4, SwitchKeeps DEF ActivateGeneration
    <2>3. DiskInv(S)' BY <1>2, <2>2 DEF DrawnInv, DiskInv
    <2> QED BY <2>1, <2>3 DEF DrawnInv
<1> QED BY <1>3, <1>4 DEF ActivateGeneration

\* What a call leaves to its thread is its content.
LEMMA StrayOf ==
    ASSUME NEW S, DrawnInv(S), NEW k \in Calls, InThread(k)
    PROVE  Stray(k) = [content |-> Stray(k).content, at |-> Stray(k).at] /\ Stray(k).content \in S
<1>1. JobOf(call[k], S) /\ call[k].at \in {"assets", "place", "package"}
    BY DEF DrawnInv, CallsInv, InThread
<1> QED BY <1>1 DEF JobOf, Stray

LEMMA CancelKeeps ==
    ASSUME NEW S, DrawnInv(S), NEW k \in Calls, CancelCall(k)
    PROVE  DrawnInv(S)'
<1>1. call' = [call EXCEPT ![k] = Idle] BY DEF CancelCall, Leave
<1>2. strays' = strays \cup (IF InThread(k) THEN {Stray(k)} ELSE {}) BY DEF CancelCall
<1>3. CallsInv(S)' BY <1>1, CallMoves DEF DrawnInv
<1>4. \A s \in strays' : s = [content |-> s.content, at |-> s.at] /\ s.content \in S
    BY <1>2, StrayOf DEF DrawnInv, DiskInv
<1>5. CatalogOf(active, S)' /\ CatalogOf(retained, S)' /\ packages' = packages
    <2>1. CASE UNCHANGED <<active, retained, packages>>
        BY <2>1 DEF DrawnInv, DiskInv, CatalogOf, Traced, Known
    <2>2. CASE At(k, "activate") /\ Switch(k) BY <2>2, SwitchKeeps
    <2> QED BY <2>1, <2>2 DEF CancelCall
<1> QED BY <1>3, <1>4, <1>5 DEF DrawnInv, DiskInv

LEMMA StrayKeeps ==
    ASSUME NEW S, DrawnInv(S), Closed(S), NEW s \in strays,
           StrayClears(s) \/ StrayPlaces(s) \/ StrayStores(s)
    PROVE  DrawnInv(S)'
<1>1. UNCHANGED <<call, active, retained>> BY DEF StrayClears, StrayPlaces, StrayStores
<1>2. s = [content |-> s.content, at |-> s.at] /\ s.content \in S BY DEF DrawnInv, DiskInv
<1>3. strays' \subseteq strays \cup {[s EXCEPT !.at = "place"]}
    BY DEF StrayClears, StrayPlaces, StrayStores
<1>4. [s EXCEPT !.at = "place"] = [content |-> s.content, at |-> "place"] BY <1>2
<1>5. \A t \in strays' : t = [content |-> t.content, at |-> t.at] /\ t.content \in S
    BY <1>2, <1>3, <1>4 DEF DrawnInv, DiskInv
<1>6. packages' = packages \/ packages' = [packages EXCEPT ![Release(s.content)] = s.content]
    BY DEF StrayClears, StrayPlaces, StrayStores
<1> DEFINE c == s.content
<1>7. c \in S /\ (packages' = packages \/ packages' = [packages EXCEPT ![Release(c)] = c])
    BY <1>2, <1>6
<1> HIDE DEF c
<1>8. /\ packages' = [r \in Releases |-> packages'[r]]
      /\ \A r \in Releases : packages'[r] \in S \cup {None}
    BY <1>7 DEF DrawnInv, DiskInv
<1> QED BY ZenonT(40), <1>1, <1>5, <1>8 DEF DrawnInv, CallsInv, DiskInv, JobOf, CatalogOf, Traced, Known

LEMMA ForgetKeeps ==
    ASSUME NEW S, DrawnInv(S), Forget, UNCHANGED <<packages, active, retained>>,
           \A s \in strays' : s \in strays \/ \E k \in Calls : InThread(k) /\ s = Stray(k)
    PROVE  DrawnInv(S)'
<1>1. CallsInv(S)' BY DEF Forget, CallsInv
<1>2. \A s \in strays' : s = [content |-> s.content, at |-> s.at] /\ s.content \in S
    BY StrayOf DEF DrawnInv, DiskInv
<1> QED BY <1>1, <1>2 DEF DrawnInv, DiskInv, CatalogOf, Traced, Known

LEMMA StepKeeps ==
    ASSUME NEW S, Closed(S), DrawnInv(S), [Next]_installVars
    PROVE  DrawnInv(S)'
<1> USE DEF diskVars, taskVars, reportVars
<1>1. CASE UNCHANGED installVars BY <1>1, Stays DEF installVars
<1>2. CASE StartUp \/ FinishSetUp BY <1>2, Stays DEF StartUp, FinishSetUp
<1>3. CASE Unload BY <1>3, ForgetKeeps DEF Unload
<1>4. CASE Crash BY <1>4, ForgetKeeps DEF Crash
<1>5. CASE StrayStep BY <1>5, StrayKeeps DEF StrayStep
<1>6. CASE RollBack
    <2>1. /\ active' = retained /\ retained' = active
          /\ UNCHANGED <<packages, strays, call>>
        BY <1>6 DEF RollBack
    <2> QED BY SMTT(30), <2>1 DEF DrawnInv, CallsInv, DiskInv, JobOf, CatalogOf, Traced, Known
<1>7. CASE \E d \in Definitions : Refresh(d) BY <1>7, Stays DEF Refresh
<1>8. ASSUME NEW k \in Calls,
             ClearAssets(k) \/ PlaceAssets(k) \/ FailPlace(k) \/ CollectPackages(k)
      PROVE  DrawnInv(S)'
    <2>1. UNCHANGED <<packages, strays, active, retained>>
        BY <1>8 DEF ClearAssets, PlaceAssets, FailPlace, CollectPackages
    <2>2. CASE Fail(k) BY <2>1, <2>2, FailKeeps
    <2>3. CASE ClearAssets(k)
        <3>1. JobOf(call[k], S) /\ call[k].at = "assets" /\ call[k] # Idle
            BY <2>3, JobAt DEF ClearAssets, At
        <3>2. call[k].content \in S BY <3>1 DEF JobOf
        <3>3. Goto(k, "place") \/ Goto(k, "package") BY <2>3 DEF ClearAssets
        <3> QED BY <2>1, <3>1, <3>2, <3>3, GoesOn
    <2>4. CASE PlaceAssets(k)
        <3>1. JobOf(call[k], S) /\ call[k].at = "place" /\ call[k] # Idle
            BY <2>4, JobAt DEF PlaceAssets, At
        <3>2. call[k].content \in S BY <3>1 DEF JobOf
        <3>3. Goto(k, "package") BY <2>4 DEF PlaceAssets
        <3> QED BY <2>1, <3>1, <3>2, <3>3, GoesOn
    <2>5. CASE CollectPackages(k) /\ Goto(k, "build")
        <3>1. call[k] # Idle BY <2>5 DEF CollectPackages, At
        <3> QED BY <2>1, <2>5, <3>1, GoesOn
    <2> QED BY <1>8, <2>2, <2>3, <2>4, <2>5 DEF FailPlace, CollectPackages
<1>9. ASSUME NEW k \in Calls,
             \/ BeginBundled(k) \/ FetchArtifact(k) \/ ReadInventory(k) \/ StorePackage(k)
             \/ BuildGeneration(k) \/ ActivateGeneration(k) \/ CancelCall(k)
      PROVE  DrawnInv(S)'
    BY <1>9, BundledKeeps, FetchKeeps, InventoryKeeps, StoreKeeps, BuildKeeps, ActivateKeeps,
       CancelKeeps
<1>10. ASSUME NEW k \in Calls,
              (\E d \in Definitions : BeginInstall(k, d)) \/ (\E d \in Datasets : BeginRemove(k, d))
       PROVE  DrawnInv(S)'
    BY <1>10, InstallKeeps, RemoveKeeps
<1> QED BY <1>1, <1>2, <1>3, <1>4, <1>5, <1>6, <1>7, <1>8, <1>9, <1>10 DEF Next

LEMMA InitDrawn == ASSUME NEW S, Init PROVE DrawnInv(S)
<1>1. CatalogOf(active, S) /\ CatalogOf(retained, S) BY EmptyOf DEF Init
<1>2. CallsInv(S) BY DEF Init, CallsInv
<1> QED BY <1>1, <1>2 DEF Init, DrawnInv, DiskInv

-----------------------------------------------------------------------------
(* Theorems. *)

\* Whatever is installed comes from the packages there are.
LEMMA ContentsClosed == Closed(Contents)
    BY InstallAssumption DEF Closed, InstallAssumption, Acceptable, DatabaseMatches

\* Across installs, removals, rollbacks, cancelled calls, reloads and crashes the
\* tombstones and the history of the active and of the retained generation stay
\* in step (_synchronize_lifecycle).
THEOREM TombstonesInStep == Spec => []LifecycleTraced
<1>1. Init => DrawnInv(Contents) BY InitDrawn
<1>2. DrawnInv(Contents) /\ [Next]_installVars => DrawnInv(Contents)'
    BY StepKeeps, ContentsClosed
<1>3. ASSUME DrawnInv(Contents) PROVE LifecycleTraced
    <2>1. \A catalog \in {active, retained} : Traced(catalog)
        BY <1>3 DEF DrawnInv, DiskInv, CatalogOf
    <2> SUFFICES ASSUME NEW catalog \in {active, retained}
                 PROVE  /\ DOMAIN catalog.tombs = {x \in Known(catalog) : catalog.state[x] # Active}
                        /\ \A x \in Known(catalog) : catalog.trail[x].life = catalog.state[x]
                        /\ \A x \in DOMAIN catalog.tombs : catalog.tombs[x] = catalog.trail[x]
        BY DEF LifecycleTraced
    <2>2. Traced(catalog) BY <2>1
    <2> QED BY <2>2 DEF Traced
<1> QED BY <1>1, <1>2, <1>3, PTL DEF Spec

\* No bundled key signs a manifest but LockLearn's own, of a package it published:
\* what the signature scheme promises.
Unforged == \A a \in Artifacts : Trusted(a) => a.manifest.hash \in Published

LEMMA PublishedClosed == ASSUME Unforged PROVE Closed(Contents \cap Published)
BY InstallAssumption
   DEF Closed, InstallAssumption, Unforged, Acceptable, DatabaseMatches, DescribesDatabase

\* Whatever catalogs, archives and manifests say, only published packages are
\* cached or installed (validate_dataset_package, _verify_download).
THEOREM OnlyPublishedInstalled == ASSUME Unforged PROVE Spec => []OnlyPublished
<1> DEFINE S == Contents \cap Published
<1>1. Init => DrawnInv(S) BY InitDrawn
<1>2. DrawnInv(S) /\ [Next]_installVars => DrawnInv(S)' BY StepKeeps, PublishedClosed
<1>3. DrawnInv(S) => OnlyPublished BY DEF DrawnInv, DiskInv, CatalogOf, OnlyPublished
<1> QED BY <1>1, <1>2, <1>3, PTL DEF Spec

-----------------------------------------------------------------------------
(* The other datasets, when a version is published once. *)

\* A version is not published again with another content (ADR-0016).
NoRepublish == \A c, e \in Contents : Release(c) = Release(e) => c = e

\* Each file of the cache holds a package of its release.
CacheOK(cache) ==
    \A r \in Releases : cache[r] # None => cache[r] \in Contents /\ Release(cache[r]) = r

Grows(cache, cache2) ==
    CacheOK(cache2) /\ \A r \in Releases : cache[r] # None => cache2[r] # None

\* Each dataset has at most a package of its own, whose release is cached.
Stocked(catalog, cache) ==
    \A d \in Datasets :
        LET c == catalog.packages[d] IN
        c # None => c \in Contents /\ Package[c].dataset = d /\ cache[Release(c)] # None

\* The dataset a job is about.
Own(j) == IF j.content = None THEN j.dataset ELSE Package[j.content].dataset

\* What a call that has the lock knows of the active catalog and of the cache.
Turn(j, k, owner, catalog, cache) ==
    /\ owner = k
    /\ j.dataset \in Datasets
    /\ j.at \in {"assets", "place", "package", "collect", "build"} =>
           j.others = {catalog.packages[e] : e \in Datasets \ {Own(j)}} \ {None}
    /\ j.at \in {"collect", "build"} /\ j.content # None => cache[Release(j.content)] # None
    /\ j.at = "build" => \A c \in j.others : cache[Release(c)] # None
    /\ j.at = "activate" =>
           /\ Stocked(j.candidate, cache)
           /\ \A e \in Datasets \ {Own(j)} : j.candidate.packages[e] = catalog.packages[e]

HoldInv ==
    /\ CacheOK(packages)
    /\ Stocked(active, packages) /\ Stocked(retained, packages)
    /\ \A k \in Calls : call[k] = Idle \/ Turn(call[k], k, lock, active, packages)

KeptInv == DrawnInv(Contents) /\ HoldInv

LEMMA OwnDataset ==
    ASSUME NEW j, JobOf(j, Contents), j.dataset \in Datasets
    PROVE  Own(j) \in Datasets
BY PackageAssumption DEF PackageAssumption, IsPackage, Own, JobOf

LEMMA StoringGrows ==
    ASSUME KeptInv, NEW c \in Contents
    PROVE  Grows(packages, [packages EXCEPT ![Release(c)] = c])
<1>1. None \notin Contents BY PackageAssumption DEF PackageAssumption
<1> QED BY <1>1 DEF KeptInv, HoldInv, DrawnInv, DiskInv, CacheOK, Grows

LEMMA StockedGrows ==
    ASSUME NEW catalog, NEW cache, NEW cache2, Stocked(catalog, cache), Grows(cache, cache2)
    PROVE  Stocked(catalog, cache2)
BY ReleaseOf DEF Stocked, Grows

LEMMA TurnGrows ==
    ASSUME NEW j, NEW k, NEW owner, NEW catalog, NEW cache, NEW cache2,
           JobOf(j, Contents), Turn(j, k, owner, catalog, cache), Grows(cache, cache2)
    PROVE  Turn(j, k, owner, catalog, cache2)
<1>1. j.content # None => Release(j.content) \in Releases BY ReleaseOf DEF JobOf
<1>2. \A c \in j.others : Release(c) \in Releases BY ReleaseOf DEF JobOf
<1>3. j.at = "activate" => Stocked(j.candidate, cache2) BY StockedGrows DEF Turn
<1>4. \A r \in Releases : cache[r] # None => cache2[r] # None BY DEF Grows
<1> QED BY <1>1, <1>2, <1>3, <1>4 DEF Turn

\* Who has the lock, or takes it, is alone.
LEMMA Alone ==
    ASSUME HoldInv, NEW k \in Calls, call[k] # Idle \/ lock = None
    PROVE  \A i \in Calls : i # k => call[i] = Idle
BY InstallAssumption DEF InstallAssumption, HoldInv, Turn

LEMMA HoldMoves ==
    ASSUME KeptInv, NEW k \in Calls, call[k] # Idle \/ lock = None,
           UNCHANGED <<active, retained>>, Grows(packages, packages'),
           NEW j, j = Idle \/ Turn(j, k, lock', active, packages'), call' = [call EXCEPT ![k] = j]
    PROVE  HoldInv'
<1>1. \A i \in Calls : call'[i] = IF i = k THEN j ELSE Idle
    BY Alone DEF KeptInv, DrawnInv, CallsInv
<1>2. Stocked(active, packages') /\ Stocked(retained, packages')
    BY StockedGrows DEF KeptInv, HoldInv
<1>3. \A i \in Calls : call'[i] = Idle \/ Turn(call'[i], i, lock', active, packages')
    BY <1>1
<1>4. active' = active /\ retained' = retained /\ CacheOK(packages') BY DEF Grows
<1>5. /\ Stocked(active', packages') /\ Stocked(retained', packages')
      /\ \A i \in Calls : call'[i] = Idle \/ Turn(call'[i], i, lock', active', packages')
    BY <1>2, <1>3, <1>4
<1> QED BY <1>4, <1>5 DEF HoldInv, CacheOK, Stocked, Turn, Idle

LEMMA HoldStays ==
    ASSUME KeptInv, UNCHANGED <<call, lock, active, retained>>, Grows(packages, packages')
    PROVE  HoldInv'
<1>1. Stocked(active, packages') /\ Stocked(retained, packages')
    BY StockedGrows DEF KeptInv, HoldInv
<1>2. \A i \in Calls : call[i] = Idle \/ Turn(call[i], i, lock, active, packages')
    BY TurnGrows DEF KeptInv, HoldInv, DrawnInv, CallsInv
<1> QED BY <1>1, <1>2 DEF HoldInv, Grows, Stocked, Turn

LEMMA CacheStays == ASSUME KeptInv, UNCHANGED packages PROVE Grows(packages, packages')
    BY DEF KeptInv, HoldInv, CacheOK, Grows

LEMMA HoldFails ==
    ASSUME KeptInv, NEW k \in Calls, call[k] # Idle, Fail(k),
           UNCHANGED <<packages, active, retained>>
    PROVE  HoldInv'
<1>1. call' = [call EXCEPT ![k] = Idle] BY DEF Fail, Leave
<1> QED BY <1>1, HoldMoves, CacheStays

LEMMA HoldGoesOn ==
    ASSUME KeptInv, NEW k \in Calls, NEW at \in {"place", "package", "collect", "build"},
           call[k] # Idle, call[k].at \in {"assets", "place", "package", "collect"}, Goto(k, at),
           UNCHANGED <<active, retained>>, Grows(packages, packages'),
           at \in {"collect", "build"} /\ call[k].content # None
               => packages'[Release(call[k].content)] # None,
           at = "build" => \A c \in call[k].others : packages'[Release(c)] # None
    PROVE  HoldInv'
<1> DEFINE j == [call[k] EXCEPT !.at = at]
<1>1. JobOf(call[k], Contents) /\ Turn(call[k], k, lock, active, packages)
    BY DEF KeptInv, DrawnInv, CallsInv, HoldInv
<1>2. j = [at |-> at, op |-> call[k].op, dataset |-> call[k].dataset, version |-> call[k].version,
           content |-> call[k].content, others |-> call[k].others, candidate |-> call[k].candidate]
    BY <1>1 DEF JobOf, Shaped
<1>3. Own(j) = Own(call[k]) BY <1>2 DEF Own
<1>4. Turn(j, k, lock, active, packages')
    <2>1. j.others = {active.packages[e] : e \in Datasets \ {Own(j)}} \ {None}
        BY <1>1, <1>2, <1>3 DEF Turn
    <2> QED BY <1>1, <1>2, <2>1 DEF Turn
<1>5. call' = [call EXCEPT ![k] = j] /\ lock' = lock BY DEF Goto
<1> QED BY <1>4, <1>5, HoldMoves

LEMMA BundledHolds ==
    ASSUME KeptInv, NEW k \in Calls, BeginBundled(k)
    PROVE  HoldInv'
<1> DEFINE d == PackageOf(Bundled).dataset
           j == Job(d, "inventory", Bundled)
<1>1. d \in Datasets
    BY InstallAssumption, PackageAssumption
       DEF InstallAssumption, PackageAssumption, IsPackage, PackageOf
<1>2. Turn(j, k, k, active, packages) BY <1>1 DEF Turn, Job
<1>3. UNCHANGED <<packages, active, retained>> BY DEF BeginBundled, diskVars
<1>4. CASE UNCHANGED <<call, lock>> BY <1>3, <1>4, HoldStays, CacheStays
<1>5. CASE lock = None /\ lock' = k /\ call' = [call EXCEPT ![k] = j]
    <2> HIDE DEF j
    <2> QED BY <1>2, <1>3, <1>5, HoldMoves, CacheStays
<1> QED BY <1>4, <1>5 DEF BeginBundled, taskVars, Enter

LEMMA InstallHolds ==
    ASSUME KeptInv, NEW k \in Calls, NEW d \in Definitions, BeginInstall(k, d)
    PROVE  HoldInv'
<1>1. PICK r : Enter(k, [Job(d, "fetch", None) EXCEPT !.version = r.version]) BY DEF BeginInstall
<1> DEFINE j == [Job(d, "fetch", None) EXCEPT !.version = r.version]
<1>2. d \in Datasets BY InstallAssumption DEF InstallAssumption
<1>3. Turn(j, k, k, active, packages) BY <1>2 DEF Turn, Job
<1>4. UNCHANGED <<packages, active, retained>> BY DEF BeginInstall, diskVars
<1>5. lock = None /\ lock' = k /\ call' = [call EXCEPT ![k] = j] BY <1>1 DEF Enter
<1> HIDE DEF j
<1> QED BY <1>3, <1>4, <1>5, HoldMoves, CacheStays

LEMMA RemoveHolds ==
    ASSUME KeptInv, NEW k \in Calls, NEW d \in Datasets, BeginRemove(k, d)
    PROVE  HoldInv'
<1> DEFINE others == {Installed(e) : e \in Datasets \ {d}} \ {None}
           j == [Job(d, "collect", None) EXCEPT !.op = "remove", !.others = others]
<1>1. lock = None /\ lock' = k /\ call' = [call EXCEPT ![k] = j] BY DEF BeginRemove, Enter
<1>2. others = {active.packages[e] : e \in Datasets \ {d}} \ {None} BY DEF Installed
<1> HIDE DEF others
<1>3. PICK base : base = Job(d, "collect", None) OBVIOUS
<1>4. /\ Shaped(base) /\ base.at = "collect" /\ base.dataset = d /\ base.version = 0
      /\ base.content = None /\ base.candidate = EmptyCatalog
    BY <1>3 DEF Shaped, Job
<1>5. [base EXCEPT !.op = "remove", !.others = others] =
          [at |-> base.at, op |-> "remove", dataset |-> base.dataset, version |-> base.version,
           content |-> base.content, others |-> others, candidate |-> base.candidate]
    BY <1>4, ChangesOp
<1>6. j.at = "collect" /\ j.dataset = d /\ j.content = None /\ j.others = others
    BY <1>3, <1>4, <1>5
<1> HIDE DEF j
<1>7. Own(j) = d BY <1>6 DEF Own
<1>8. Turn(j, k, k, active, packages) BY <1>2, <1>6, <1>7 DEF Turn
<1>9. UNCHANGED <<packages, active, retained>> BY DEF BeginRemove, diskVars
<1> QED BY <1>1, <1>8, <1>9, HoldMoves, CacheStays

LEMMA FetchHolds ==
    ASSUME KeptInv, NEW k \in Calls, FetchArtifact(k)
    PROVE  HoldInv'
<1>1. UNCHANGED <<packages, active, retained>> /\ call[k] # Idle
    BY DEF FetchArtifact, diskVars, At
<1>2. CASE Fail(k) BY <1>1, <1>2, HoldFails
<1>3. ASSUME NEW c, lock' = lock,
             call' = [call EXCEPT ![k].at = "inventory", ![k].content = c]
      PROVE  HoldInv'
    <2> DEFINE j == [call[k] EXCEPT !.at = "inventory", !.content = c]
    <2>1. JobOf(call[k], Contents) /\ Turn(call[k], k, lock, active, packages)
        BY <1>1 DEF KeptInv, DrawnInv, CallsInv, HoldInv
    <2>2. j = [at |-> "inventory", op |-> call[k].op, dataset |-> call[k].dataset,
               version |-> call[k].version, content |-> c, others |-> call[k].others,
               candidate |-> call[k].candidate]
        BY <2>1, ChangesContent DEF JobOf
    <2>3. Turn(j, k, lock, active, packages) BY <2>1, <2>2 DEF Turn
    <2>4. call' = [call EXCEPT ![k] = j] BY <1>3
    <2> HIDE DEF j
    <2> QED BY <1>1, <1>3, <2>3, <2>4, HoldMoves, CacheStays
<1>4. \/ Fail(k)
      \/ \E c : /\ lock' = lock
                /\ call' = [call EXCEPT ![k].at = "inventory", ![k].content = c]
    BY DEF FetchArtifact
<1> QED BY <1>2, <1>3, <1>4

LEMMA InventoryHolds ==
    ASSUME KeptInv, NEW k \in Calls, ReadInventory(k)
    PROVE  HoldInv'
<1> DEFINE d == PackageOf(call[k].content).dataset
           others == {Installed(e) : e \in Datasets \ {d}} \ {None}
           j == [call[k] EXCEPT !.at = "assets", !.others = others]
<1>1. UNCHANGED <<packages, active, retained>> /\ call[k] # Idle /\ call[k].at = "inventory"
    BY DEF ReadInventory, diskVars, At
<1>2. JobOf(call[k], Contents) /\ Turn(call[k], k, lock, active, packages)
    BY <1>1 DEF KeptInv, DrawnInv, CallsInv, HoldInv
<1>3. Fail(k) \/ (lock' = lock /\ call' = [call EXCEPT ![k] = j]) BY DEF ReadInventory
<1>4. others = {active.packages[e] : e \in Datasets \ {d}} \ {None} BY DEF Installed
<1> HIDE DEF others
<1>5. j = [at |-> "assets", op |-> call[k].op, dataset |-> call[k].dataset,
           version |-> call[k].version, content |-> call[k].content, others |-> others,
           candidate |-> call[k].candidate]
    BY <1>2, ChangesOthers DEF JobOf
<1>6. call[k].content # None
    BY <1>1, <1>2, PackageAssumption DEF JobOf, PackageAssumption
<1>7. Own(j) = d BY <1>5, <1>6 DEF Own, PackageOf
<1>8. /\ j.at = "assets" /\ j.others = {active.packages[e] : e \in Datasets \ {Own(j)}} \ {None}
      /\ j.dataset = call[k].dataset
    BY <1>4, <1>5, <1>7
<1> HIDE DEF j
<1>9. Turn(j, k, lock, active, packages) BY <1>2, <1>8 DEF Turn
<1> QED BY <1>1, <1>3, <1>9, HoldMoves, CacheStays, HoldFails

\* Clearing and placing the assets, storing the package, collecting the others.
LEMMA PlacesHold ==
    ASSUME KeptInv, NEW k \in Calls, ClearAssets(k) \/ PlaceAssets(k) \/ FailPlace(k)
    PROVE  HoldInv'
<1>1. UNCHANGED <<packages, active, retained>> /\ call[k] # Idle
    BY DEF ClearAssets, PlaceAssets, FailPlace, At
<1>2. CASE Fail(k) BY <1>1, <1>2, HoldFails
<1>3. CASE /\ call[k].at \in {"assets", "place"}
           /\ Goto(k, "place") \/ Goto(k, "package")
    BY <1>1, <1>3, HoldGoesOn, CacheStays
<1> QED BY <1>2, <1>3 DEF ClearAssets, PlaceAssets, FailPlace, At

LEMMA StoreHolds ==
    ASSUME KeptInv, NEW k \in Calls, StorePackage(k)
    PROVE  HoldInv'
<1>1. call[k] # Idle /\ call[k].at = "package" BY DEF StorePackage, At
<1>2. JobOf(call[k], Contents) /\ Turn(call[k], k, lock, active, packages)
    BY <1>1 DEF KeptInv, DrawnInv, CallsInv, HoldInv
<1>3. PICK c : c = call[k].content OBVIOUS
<1>4. c \in Contents BY <1>1, <1>2, <1>3 DEF JobOf
<1>5. packages' = [packages EXCEPT ![Release(c)] = c] BY <1>3 DEF StorePackage
<1>6. Grows(packages, packages') BY <1>4, <1>5, StoringGrows
<1>7. packages'[Release(c)] # None
    BY <1>4, <1>5, ReleaseOf, PackageAssumption
       DEF PackageAssumption, KeptInv, DrawnInv, DiskInv
<1>8. Goto(k, "collect") /\ UNCHANGED <<active, retained>> BY DEF StorePackage
<1> QED BY <1>1, <1>3, <1>6, <1>7, <1>8, HoldGoesOn

LEMMA CollectHolds ==
    ASSUME KeptInv, NEW k \in Calls, CollectPackages(k)
    PROVE  HoldInv'
<1>1. call[k] # Idle /\ call[k].at = "collect" /\ UNCHANGED <<packages, active, retained>>
    BY DEF CollectPackages, At, diskVars
<1>2. JobOf(call[k], Contents) /\ Turn(call[k], k, lock, active, packages)
    BY <1>1 DEF KeptInv, DrawnInv, CallsInv, HoldInv
<1>3. CASE Fail(k) BY <1>1, <1>3, HoldFails
<1>4. CASE Goto(k, "build") /\ \A c \in call[k].others : packages[Release(c)] = c
    <2>1. \A c \in call[k].others : packages'[Release(c)] # None
        BY <1>1, <1>2, <1>4, PackageAssumption DEF PackageAssumption, JobOf
    <2>2. call[k].content # None => packages'[Release(call[k].content)] # None
        BY <1>1, <1>2 DEF Turn
    <2> QED BY <1>1, <1>4, <2>1, <2>2, HoldGoesOn, CacheStays
<1> QED BY <1>3, <1>4 DEF CollectPackages

\* The package of a release in the cache is the one that was asked for.
LEMMA CachedIs ==
    ASSUME NoRepublish, KeptInv, NEW c \in Contents, packages[Release(c)] # None
    PROVE  packages[Release(c)] = c
BY ReleaseOf DEF NoRepublish, KeptInv, HoldInv, CacheOK

\* A build changes the dataset it is for.
LEMMA BuildHolds ==
    ASSUME NoRepublish, KeptInv, NEW k \in Calls, BuildGeneration(k)
    PROVE  HoldInv'
<1> DEFINE cs == {packages[Release(c)] : c \in PackageSet(k)}
           new == Candidate(active, cs, built + 1)
           j == [call[k] EXCEPT !.at = "activate", !.candidate = new]
           own == Own(call[k])
<1>1. call[k] # Idle /\ call[k].at = "build" /\ UNCHANGED <<packages, active, retained>>
    BY DEF BuildGeneration, At
<1>2. JobOf(call[k], Contents) /\ Turn(call[k], k, lock, active, packages)
    BY <1>1 DEF KeptInv, DrawnInv, CallsInv, HoldInv
<1>3. Fail(k) \/ (lock' = lock /\ call' = [call EXCEPT ![k] = j]) BY DEF BuildGeneration
<1>4. None \notin Contents BY PackageAssumption DEF PackageAssumption
<1>5. \A c \in PackageSet(k) : c \in Contents /\ packages[Release(c)] = c
    <2>1. \A c \in PackageSet(k) : c \in Contents /\ packages[Release(c)] # None
        BY <1>1, <1>2 DEF PackageSet, JobOf, Turn
    <2> QED BY <2>1, CachedIs
<1>6. cs = PackageSet(k) /\ cs \subseteq Contents BY <1>5
<1> HIDE DEF cs
<1>7. \A e \in Datasets :
          \/ new.packages[e] = None /\ \A c \in cs : Package[c].dataset # e
          \/ new.packages[e] \in cs /\ Package[new.packages[e]].dataset = e
    BY CandidatePackages
<1> HIDE DEF new
<1>8. Stocked(new, packages) BY <1>4, <1>5, <1>6, <1>7 DEF Stocked
<1>9. \A c \in cs : c \in call[k].others \/ Package[c].dataset = own
    BY <1>6 DEF PackageSet, Own
<1>10. call[k].others = {active.packages[e] : e \in Datasets \ {own}} \ {None}
    BY <1>1, <1>2 DEF Turn
<1>11. ASSUME NEW e \in Datasets, e # own PROVE new.packages[e] = active.packages[e]
    <2>1. \A f \in Datasets : active.packages[f] # None => Package[active.packages[f]].dataset = f
        BY DEF KeptInv, HoldInv, Stocked
    <2>2. active.packages[e] # None => active.packages[e] \in cs
        BY <1>6, <1>10, <1>11 DEF PackageSet
    <2>3. CASE new.packages[e] = None BY <1>4, <1>6, <1>7, <2>1, <2>2, <2>3
    <2>4. CASE new.packages[e] \in cs /\ Package[new.packages[e]].dataset = e
        <3>1. new.packages[e] \in call[k].others BY <1>9, <1>11, <2>4
        <3>2. PICK f \in Datasets : new.packages[e] = active.packages[f] /\ active.packages[f] # None
            BY <1>10, <3>1
        <3> QED BY <2>1, <2>4, <3>2
    <2> QED BY <1>7, <2>3, <2>4
<1>12. j = [at |-> "activate", op |-> call[k].op, dataset |-> call[k].dataset,
            version |-> call[k].version, content |-> call[k].content, others |-> call[k].others,
            candidate |-> new]
    BY <1>2, ChangesCandidate DEF JobOf
<1>13. /\ j.at = "activate" /\ j.candidate = new /\ j.dataset = call[k].dataset
       /\ Own(j) = own
    BY <1>12 DEF Own
<1> HIDE DEF j, own
<1>14. Turn(j, k, lock, active, packages) BY <1>2, <1>8, <1>11, <1>13 DEF Turn
<1> QED BY <1>1, <1>3, <1>14, HoldMoves, CacheStays, HoldFails

\* A switch: the call that ends had the lock.
LEMMA SwitchHolds ==
    ASSUME KeptInv, NEW k \in Calls, At(k, "activate"), Switch(k), Leave(k)
    PROVE  HoldInv'
<1>1. call[k] # Idle /\ call[k].at = "activate" BY DEF At
<1>2. Turn(call[k], k, lock, active, packages) BY <1>1 DEF KeptInv, HoldInv
<1>3. Stocked(call[k].candidate, packages) BY <1>1, <1>2 DEF Turn
<1>4. \A i \in Calls : call'[i] = Idle
    BY <1>1, Alone DEF Leave, KeptInv, DrawnInv, CallsInv
<1>5. /\ active' = call[k].candidate /\ retained' = active /\ packages' = packages
    BY DEF Switch
<1>6. CacheOK(packages) /\ Stocked(active, packages) BY DEF KeptInv, HoldInv
<1>7. CacheOK(packages') /\ Stocked(active', packages') /\ Stocked(retained', packages')
    BY <1>3, <1>5, <1>6
<1> QED BY <1>4, <1>7 DEF HoldInv, CacheOK, Stocked

LEMMA StraysHold ==
    ASSUME KeptInv, NEW s \in strays, StrayClears(s) \/ StrayPlaces(s) \/ StrayStores(s)
    PROVE  HoldInv'
<1>1. UNCHANGED <<call, lock, active, retained>> BY DEF StrayClears, StrayPlaces, StrayStores
<1>2. PICK c \in Contents : c = s.content BY DEF KeptInv, DrawnInv, DiskInv
<1>3. packages' = packages \/ packages' = [packages EXCEPT ![Release(c)] = c]
    BY <1>2 DEF StrayClears, StrayPlaces, StrayStores
<1>4. Grows(packages, packages') BY <1>3, StoringGrows, CacheStays
<1> QED BY <1>1, <1>4, HoldStays

\* When no call is under way, the catalogs and the cache are all there is.
LEMMA IdleHolds ==
    ASSUME KeptInv, UNCHANGED packages, \A k \in Calls : call'[k] = Idle,
           active' \in {active, retained}, retained' \in {active, retained}
    PROVE  HoldInv'
BY DEF KeptInv, HoldInv, CacheOK, Stocked

LEMMA HoldStep ==
    ASSUME NoRepublish, KeptInv, [Next]_installVars
    PROVE  HoldInv'
<1> USE DEF diskVars, taskVars
<1>1. CASE UNCHANGED installVars BY <1>1, HoldStays, CacheStays DEF installVars
<1>2. CASE StartUp \/ FinishSetUp \/ \E d \in Definitions : Refresh(d)
    BY <1>2, HoldStays, CacheStays DEF StartUp, FinishSetUp, Refresh
<1>3. CASE Unload \/ Crash BY <1>3, IdleHolds DEF Unload, Crash, Forget
<1>4. CASE StrayStep BY <1>4, StraysHold DEF StrayStep
<1>5. CASE RollBack
    <2>1. \A k \in Calls : call[k] = Idle
        BY <1>5, InstallAssumption DEF RollBack, InstallAssumption, KeptInv, HoldInv, Turn
    <2> QED BY <1>5, <2>1, IdleHolds DEF RollBack
<1>6. ASSUME NEW k \in Calls,
             \/ BeginBundled(k) \/ FetchArtifact(k) \/ ReadInventory(k) \/ ClearAssets(k)
             \/ PlaceAssets(k) \/ FailPlace(k) \/ StorePackage(k) \/ CollectPackages(k)
             \/ BuildGeneration(k)
      PROVE  HoldInv'
    BY <1>6, BundledHolds, FetchHolds, InventoryHolds, PlacesHold, StoreHolds, CollectHolds,
       BuildHolds
<1>7. ASSUME NEW k \in Calls, ActivateGeneration(k)
      PROVE  HoldInv'
    <2>1. At(k, "activate") /\ call[k] # Idle BY <1>7 DEF ActivateGeneration, At
    <2>2. CASE Switch(k) /\ Leave(k) BY <2>1, <2>2, SwitchHolds
    <2>3. CASE Fail(k) /\ UNCHANGED <<active, retained, packages>> BY <2>1, <2>3, HoldFails
    <2> QED BY <1>7, <2>2, <2>3 DEF ActivateGeneration
<1>8. ASSUME NEW k \in Calls, CancelCall(k)
      PROVE  HoldInv'
    <2>1. Leave(k) /\ call[k] # Idle BY <1>8 DEF CancelCall
    <2>2. CASE At(k, "activate") /\ Switch(k) BY <2>1, <2>2, SwitchHolds
    <2>3. CASE UNCHANGED <<active, retained, packages>>
        <3>1. call' = [call EXCEPT ![k] = Idle] BY <2>1 DEF Leave
        <3> QED BY <2>1, <2>3, <3>1, HoldMoves, CacheStays
    <2> QED BY <1>8, <2>2, <2>3 DEF CancelCall
<1>9. ASSUME NEW k \in Calls,
             \/ \E d \in Definitions : BeginInstall(k, d)
             \/ \E d \in Datasets : BeginRemove(k, d)
      PROVE  HoldInv'
    BY <1>9, InstallHolds, RemoveHolds
<1> QED BY <1>1, <1>2, <1>3, <1>4, <1>5, <1>6, <1>7, <1>8, <1>9 DEF Next

LEMMA InitHolds == ASSUME Init PROVE HoldInv
    BY DEF Init, HoldInv, CacheOK, Stocked, EmptyCatalog

LEMMA KeptAlways == ASSUME NoRepublish PROVE Spec => []KeptInv
<1>1. Init => KeptInv BY InitDrawn, InitHolds DEF KeptInv
<1>2. KeptInv /\ [Next]_installVars => KeptInv'
    BY HoldStep, StepKeeps, ContentsClosed DEF KeptInv
<1> QED BY <1>1, <1>2, PTL DEF Spec

\* Whatever is interrupted, the cache has the packages of every dataset of the
\* active generation and of the one a rollback returns to (_complete_package_set,
\* _package_set_without find them).
THEOREM RebuildStaysPossible == ASSUME NoRepublish PROVE Spec => []RebuildPossible
<1>1. ASSUME KeptInv PROVE RebuildPossible
    <2> SUFFICES ASSUME NEW catalog \in {active, retained}, NEW d \in Datasets,
                        catalog.packages[d] # None
                 PROVE  packages[Release(catalog.packages[d])] = catalog.packages[d]
        BY DEF RebuildPossible
    <2>1. Stocked(catalog, packages) BY <1>1 DEF KeptInv, HoldInv
    <2> QED BY <1>1, <2>1, CachedIs DEF Stocked
<1> QED BY <1>1, KeptAlways, PTL

\* An install or a removal changes its own dataset only, however calls, rollbacks
\* and cancellations interleave (async_install, async_remove).
THEOREM OthersStayKept == ASSUME NoRepublish PROVE Spec => OthersKept
<1> DEFINE Kept == active'.packages # active.packages
                       => \/ active' = retained
                          \/ \E d \in Datasets : \A e \in Datasets \ {d} :
                                 active'.packages[e] = active.packages[e]
<1>1. ASSUME KeptInv, NEW k \in Calls, At(k, "activate"), Switch(k)
      PROVE  Kept
    <2>1. /\ JobOf(call[k], Contents) /\ Turn(call[k], k, lock, active, packages)
          /\ call[k].at = "activate"
        BY <1>1 DEF At, KeptInv, DrawnInv, CallsInv, HoldInv
    <2>2. Own(call[k]) \in Datasets BY <2>1, OwnDataset DEF Turn
    <2>3. active' = call[k].candidate BY <1>1 DEF Switch
    <2>4. \A e \in Datasets \ {Own(call[k])} : active'.packages[e] = active.packages[e]
        BY <2>1, <2>3 DEF Turn
    <2> QED BY <2>2, <2>4
<1>2. ASSUME KeptInv, [Next]_installVars PROVE Kept
    <2> USE DEF diskVars
    <2>1. \/ active' = active \/ active' = retained
          \/ \E k \in Calls : ActivateGeneration(k) \/ CancelCall(k)
        BY <1>2
           DEF Next, installVars, StartUp, FinishSetUp, Unload, Crash, StrayStep, StrayClears,
               StrayPlaces, StrayStores, RollBack, Refresh, BeginBundled, FetchArtifact,
               ReadInventory, ClearAssets, PlaceAssets, FailPlace, StorePackage, CollectPackages,
               BuildGeneration, BeginInstall, BeginRemove
    <2>2. ASSUME NEW k \in Calls, ActivateGeneration(k) \/ CancelCall(k)
          PROVE  active' = active \/ (At(k, "activate") /\ Switch(k))
        BY <2>2 DEF ActivateGeneration, CancelCall
    <2> QED BY <1>1, <1>2, <2>1, <2>2
<1>3. KeptInv /\ [Next]_installVars => [Kept]_installVars BY <1>2
<1> QED BY <1>3, KeptAlways, PTL DEF Spec, OthersKept

-----------------------------------------------------------------------------
(* The media of what is installed. *)

\* The bytes the rows of a catalog describe are those of the installed package;
\* every medium has an asset.
AssetsOf(catalog) ==
    /\ \A x \in Known(catalog) : catalog.owner[x] \in Datasets
    /\ DOMAIN catalog.assets \subseteq Known(catalog)
    /\ Media \cap Known(catalog) \subseteq DOMAIN catalog.assets
    /\ \A x \in DOMAIN catalog.assets :
           LET c == catalog.packages[catalog.owner[x]] IN
           c # None => x \in DOMAIN Package[c].assets /\ Package[c].assets[x] = catalog.assets[x]

\* The directory of a package with assets is there, is being swapped in, or its
\* swap was cut short.
Shelved(c, dirs, cuts, swaps) ==
    c # None /\ HasAssets(c) => dirs[Release(c)] # None \/ Release(c) \in cuts \/ c \in swaps

InPlace(catalog, dirs, cuts, swaps) ==
    AssetsOf(catalog) /\ \A d \in Datasets : Shelved(catalog.packages[d], dirs, cuts, swaps)

\* What a call under way has put on the shelf.
Prepared(j, dirs, cuts, swaps) ==
    /\ j.at \in {"fetch", "inventory", "assets", "place", "package"} => j.op = "install"
    /\ j.at \in {"package", "collect", "build"} => Shelved(j.content, dirs, cuts, swaps)
    /\ j.at = "activate" => InPlace(j.candidate, dirs, cuts, swaps)

\* Each directory holds the assets of a package of its release.
ShelfOK(dirs) ==
    /\ dirs = [r \in Releases |-> dirs[r]]
    /\ \A r \in Releases : dirs[r] # None => dirs[r] \in Contents /\ Release(dirs[r]) = r

ServedInv ==
    /\ ShelfOK(shelf)
    /\ InPlace(active, shelf, cut, Swaps) /\ InPlace(retained, shelf, cut, Swaps)
    /\ \A k \in Calls : call[k] = Idle \/ Prepared(call[k], shelf, cut, Swaps)

FullInv == KeptInv /\ ServedInv

LEMMA SourceOf ==
    ASSUME NEW cs, NEW x \in Provided(cs)
    PROVE  Source(cs, x) \in cs /\ x \in DOMAIN Package[Source(cs, x)].rows
BY DEF Provided, Source, PackageOf

LEMMA AssetsOfPackage ==
    ASSUME NEW c \in Contents
    PROVE  DOMAIN Package[c].assets = Media \cap DOMAIN Package[c].rows /\ Package[c].dataset \in Datasets
BY PackageAssumption DEF PackageAssumption, IsPackage

\* A build that is accepted replaces the assets of the datasets it merges by those
\* of their packages, and leaves those of the others, which have no package.
LEMMA CandidateAssets ==
    ASSUME NEW catalog, AssetsOf(catalog), NEW cs \in SUBSET Contents, NEW gen,
           Builds(catalog, cs, gen),
           \A c, e \in cs : Package[c].dataset = Package[e].dataset => c = e
    PROVE  AssetsOf(Candidate(catalog, cs, gen))
<1> DEFINE new == Candidate(catalog, cs, gen)
           merged == {PackageOf(c).dataset : c \in cs}
           kept == {x \in DOMAIN catalog.assets : catalog.owner[x] \notin merged}
           fresh == UNION {DOMAIN PackageOf(c).assets : c \in cs}
<1>1. /\ new.owner = MergedOwner(catalog, cs) /\ new.assets = MergedAssets(catalog, cs)
      /\ new.packages = [d \in Datasets |->
             IF \E c \in cs : PackageOf(c).dataset = d
             THEN CHOOSE c \in cs : PackageOf(c).dataset = d ELSE None]
    BY DEF Candidate
<1>2. Media \cap Known(new) \subseteq DOMAIN new.assets
      /\ \A c \in cs : ~Conflicts(catalog, c)
    BY DEF Builds, Valid, MediaHaveAssets
<1> HIDE DEF new
<1>3. Known(new) = Known(catalog) \cup Provided(cs) BY <1>1 DEF Known, MergedOwner
<1>4. \A x \in Provided(cs) : new.owner[x] = Package[Source(cs, x)].dataset
    BY <1>1 DEF MergedOwner, PackageOf
<1>5. \A x \in Known(catalog) : x \notin Provided(cs) => new.owner[x] = catalog.owner[x]
    BY <1>1 DEF MergedOwner
<1>6. \A x \in Known(new) : new.owner[x] \in Datasets
    BY <1>3, <1>4, <1>5, SourceOf, AssetsOfPackage DEF AssetsOf
<1>7. /\ DOMAIN new.assets = kept \cup fresh
      /\ \A x \in fresh : new.assets[x] = Package[Source(cs, x)].assets[x]
    BY <1>1 DEF MergedAssets, PackageOf
<1>8. fresh \subseteq Media \cap Provided(cs)
    BY AssetsOfPackage DEF Provided, PackageOf
<1>9. DOMAIN new.assets \subseteq Known(new)
    BY <1>3, <1>7, <1>8 DEF AssetsOf
<1>10. ASSUME NEW x \in fresh
       PROVE  LET c == new.packages[new.owner[x]] IN
              x \in DOMAIN Package[c].assets /\ Package[c].assets[x] = new.assets[x]
    <2>1. PICK c \in cs : c = Source(cs, x) /\ x \in DOMAIN Package[c].rows
        BY <1>8, <1>10, SourceOf
    <2>2. new.owner[x] = Package[c].dataset /\ Package[c].dataset \in Datasets
        BY <1>4, <1>8, <1>10, <2>1, AssetsOfPackage
    <2>3. new.packages[new.owner[x]] = CHOOSE e \in cs : Package[e].dataset = Package[c].dataset
        BY <1>1, <2>1, <2>2 DEF PackageOf
    <2>4. new.packages[new.owner[x]] = c BY <2>1, <2>3
    <2>5. x \in DOMAIN Package[c].assets BY <1>8, <1>10, <2>1, AssetsOfPackage
    <2> QED BY <1>7, <1>10, <2>1, <2>4, <2>5
<1>11. ASSUME NEW x \in kept, x \notin fresh
       PROVE  new.packages[new.owner[x]] = None
    <2>1. x \in Known(catalog) /\ catalog.owner[x] \notin merged BY <1>11 DEF AssetsOf
    <2>2. x \notin Provided(cs)
        BY <1>2, <2>1 DEF Conflicts, Provided, PackageOf
    <2>3. new.owner[x] = catalog.owner[x] /\ catalog.owner[x] \in Datasets
        BY <1>5, <2>1, <2>2 DEF AssetsOf
    <2> QED BY <1>1, <2>1, <2>3
<1> HIDE DEF kept, fresh
<1>12. \A x \in DOMAIN new.assets :
           LET c == new.packages[new.owner[x]] IN
           c # None => x \in DOMAIN Package[c].assets /\ Package[c].assets[x] = new.assets[x]
    BY <1>7, <1>10, <1>11
<1> QED BY <1>2, <1>6, <1>9, <1>12 DEF AssetsOf, new

\* What a build merges: the package of each dataset that stays installed and the
\* one the call is about, no two of one dataset.
LEMMA BuildSet ==
    ASSUME NoRepublish, KeptInv, NEW k \in Calls, At(k, "build")
    PROVE  LET cs == {packages[Release(c)] : c \in PackageSet(k)} IN
           /\ cs = PackageSet(k) /\ cs \in SUBSET Contents
           /\ \A c, e \in cs : Package[c].dataset = Package[e].dataset => c = e
<1> DEFINE cs == {packages[Release(c)] : c \in PackageSet(k)}
           own == Own(call[k])
<1>1. call[k] # Idle /\ call[k].at = "build" BY DEF At
<1>2. JobOf(call[k], Contents) /\ Turn(call[k], k, lock, active, packages)
    BY <1>1 DEF KeptInv, DrawnInv, CallsInv, HoldInv
<1>3. \A c \in PackageSet(k) : c \in Contents /\ packages[Release(c)] = c
    <2>1. \A c \in PackageSet(k) : c \in Contents /\ packages[Release(c)] # None
        BY <1>1, <1>2 DEF PackageSet, JobOf, Turn
    <2> QED BY <2>1, CachedIs
<1>4. cs = PackageSet(k) /\ cs \in SUBSET Contents BY <1>3
<1>5. call[k].others = {active.packages[e] : e \in Datasets \ {own}} \ {None}
    BY <1>1, <1>2 DEF Turn
<1>6. \A f \in Datasets : active.packages[f] # None => Package[active.packages[f]].dataset = f
    BY DEF KeptInv, HoldInv, Stocked
<1>7. \A c \in call[k].others : Package[c].dataset # own /\ c = active.packages[Package[c].dataset]
    BY <1>5, <1>6
<1>8. call[k].content # None => Package[call[k].content].dataset = own BY DEF Own
<1>9. ASSUME NEW c \in PackageSet(k), NEW e \in PackageSet(k), Package[c].dataset = Package[e].dataset
      PROVE  c = e
    BY <1>7, <1>8, <1>9 DEF PackageSet
<1> QED BY <1>4, <1>9

\* No step puts a directory out of its place, except in a swap of that package.
Lasting ==
    \A c \in Contents \cup {None} : Shelved(c, shelf, cut, Swaps) => Shelved(c, shelf', cut', Swaps')

\* A swap is under way until its call or its thread has placed the directory.
LEMMA SwapsKeep ==
    ASSUME NEW T,
           \A k \in Calls : At(k, "place") =>
               (call'[k] # Idle /\ call'[k].at = "place" /\ call'[k].content = call[k].content)
               \/ [content |-> call[k].content, at |-> "place"] \in strays'
               \/ call[k].content \in T,
           \A t \in strays : t.at = "place" => t \in strays' \/ t.content \in T
    PROVE  Swaps \subseteq Swaps' \cup T
<1>1. ASSUME NEW k \in Calls, At(k, "place") PROVE call[k].content \in Swaps' \cup T
    <2>1. CASE call'[k] # Idle /\ call'[k].at = "place" /\ call'[k].content = call[k].content
        <3>1. call'[k].content \in Swaps' BY <2>1 DEF Swaps, At
        <3> QED BY <2>1, <3>1
    <2>2. CASE [content |-> call[k].content, at |-> "place"] \in strays'
        <3> DEFINE t == [content |-> call[k].content, at |-> "place"]
        <3>1. t \in strays' /\ t.at = "place" /\ t.content = call[k].content BY <2>2
        <3> HIDE DEF t
        <3>2. t.content \in Swaps' BY <3>1 DEF Swaps
        <3> QED BY <3>1, <3>2
    <2> QED BY <1>1, <2>1, <2>2
<1>2. ASSUME NEW t \in strays, t.at = "place" PROVE t.content \in Swaps' \cup T
    BY <1>2 DEF Swaps, At
<1> QED BY <1>1, <1>2 DEF Swaps

LEMMA LastingSame ==
    ASSUME UNCHANGED shelf, cut \subseteq cut', Swaps \subseteq Swaps'
    PROVE  Lasting
BY DEF Lasting, Shelved

\* A step of a call that is not at a swap.
LEMMA LastingMove ==
    ASSUME KeptInv, NEW k \in Calls, ~At(k, "place"), UNCHANGED <<shelf, cut, strays>>,
           NEW j, call' = [call EXCEPT ![k] = j]
    PROVE  Lasting
<1>1. \A i \in Calls : i # k => call'[i] = call[i] BY DEF KeptInv, DrawnInv, CallsInv
<1>2. \A i \in Calls : At(i, "place") => i # k OBVIOUS
<1>3. Swaps \subseteq Swaps' \cup {} BY <1>1, <1>2, SwapsKeep DEF At
<1> QED BY <1>3, LastingSame

\* Clearing a directory begins its swap.
LEMMA LastingClears ==
    ASSUME NoRepublish, NEW e \in Contents, shelf = [r \in Releases |-> shelf[r]],
           shelf' = [shelf EXCEPT ![Release(e)] = None], cut' = cut,
           Swaps \subseteq Swaps', HasAssets(e) => e \in Swaps'
    PROVE  Lasting
<1> SUFFICES ASSUME NEW c \in Contents, HasAssets(c), Shelved(c, shelf, cut, Swaps)
             PROVE  Shelved(c, shelf', cut', Swaps')
    BY DEF Lasting, Shelved
<1>1. CASE c = e BY <1>1 DEF Shelved
<1>2. CASE c # e
    <2>1. Release(c) # Release(e) BY <1>2 DEF NoRepublish
    <2>2. shelf'[Release(c)] = shelf[Release(c)] BY <2>1, ReleaseOf
    <2> QED BY <2>2 DEF Shelved
<1> QED BY <1>1, <1>2

\* Placing it ends the swap, and makes good one that was cut short.
LEMMA LastingPlaces ==
    ASSUME NoRepublish, NEW e \in Contents, shelf = [r \in Releases |-> shelf[r]],
           shelf' = [shelf EXCEPT ![Release(e)] = e], cut' = cut \ {Release(e)},
           Swaps \subseteq Swaps' \cup {e}
    PROVE  Lasting
<1>1. e # None BY PackageAssumption DEF PackageAssumption
<1> SUFFICES ASSUME NEW c \in Contents, HasAssets(c), Shelved(c, shelf, cut, Swaps)
             PROVE  Shelved(c, shelf', cut', Swaps')
    BY DEF Lasting, Shelved
<1>2. CASE c = e BY <1>1, <1>2, ReleaseOf DEF Shelved
<1>3. CASE c # e
    <2>1. Release(c) # Release(e) BY <1>3 DEF NoRepublish
    <2>2. shelf'[Release(c)] = shelf[Release(c)] BY <2>1, ReleaseOf
    <2> QED BY <1>3, <2>1, <2>2 DEF Shelved
<1> QED BY <1>2, <1>3

\* A swap that fails or is interrupted is noted.
LEMMA LastingCut ==
    ASSUME UNCHANGED shelf, cut \subseteq cut', NEW T, Swaps \subseteq Swaps' \cup T,
           \A e \in T : Release(e) \in cut'
    PROVE  Lasting
BY DEF Lasting, Shelved

\* The thread of a call that is at a swap goes on as a stray.
LEMMA StrayAtPlace ==
    ASSUME FullInv, NEW k \in Calls, At(k, "place")
    PROVE  InThread(k) /\ Stray(k) = [content |-> call[k].content, at |-> "place"]
<1>1. call[k] # Idle /\ call[k].at = "place" BY DEF At
<1>2. Prepared(call[k], shelf, cut, Swaps) BY <1>1 DEF FullInv, ServedInv
<1> QED BY <1>1, <1>2 DEF Prepared, InThread, Stray

LEMMA LastingAssets ==
    ASSUME NoRepublish, FullInv, NEW k \in Calls, ClearAssets(k) \/ PlaceAssets(k) \/ FailPlace(k)
    PROVE  Lasting
<1> DEFINE e == call[k].content
<1>1. call[k] # Idle /\ call[k].at \in {"assets", "place"} /\ UNCHANGED strays
    BY DEF ClearAssets, PlaceAssets, FailPlace, At
<1>2. JobOf(call[k], Contents) BY <1>1 DEF FullInv, KeptInv, DrawnInv, CallsInv
<1>3. e \in Contents BY <1>1, <1>2 DEF JobOf
<1>4. shelf = [r \in Releases |-> shelf[r]] BY DEF FullInv, ServedInv, ShelfOK
<1>5. \A i \in Calls : i # k => call'[i] = call[i]
    BY DEF ClearAssets, PlaceAssets, FailPlace, Goto, Fail, Leave, FullInv, KeptInv, DrawnInv, CallsInv
<1>6. Swaps \subseteq Swaps' \cup {e} BY <1>1, <1>5, SwapsKeep DEF At
<1>7. CASE ClearAssets(k)
    <2>1. shelf' = [shelf EXCEPT ![Release(e)] = None] /\ cut' = cut /\ call[k].at = "assets"
        BY <1>7 DEF ClearAssets, ClearShelf, At
    <2>2. Swaps \subseteq Swaps' \cup {} BY <1>1, <1>5, <2>1, SwapsKeep DEF At
    <2>3. HasAssets(e) => e \in Swaps'
        <3> SUFFICES ASSUME HasAssets(e) PROVE e \in Swaps' OBVIOUS
        <3>1. call' = [call EXCEPT ![k].at = "place"] BY <1>7 DEF ClearAssets, Goto
        <3>2. call'[k] = [call[k] EXCEPT !.at = "place"]
            BY <3>1 DEF FullInv, KeptInv, DrawnInv, CallsInv
        <3>3. call'[k].at = "place" /\ call'[k].content = e BY <1>2, <3>2 DEF JobOf, Shaped
        <3>4. call'[k] # Idle BY <3>3 DEF Idle
        <3> QED BY <3>3, <3>4 DEF Swaps, At
    <2> HIDE DEF e
    <2> QED BY <1>3, <1>4, <2>1, <2>2, <2>3, LastingClears
<1>8. CASE PlaceAssets(k)
    <2>1. shelf' = [shelf EXCEPT ![Release(e)] = e] /\ cut' = cut \ {Release(e)}
        BY <1>8 DEF PlaceAssets, PlaceShelf
    <2> HIDE DEF e
    <2> QED BY <1>3, <1>4, <1>6, <2>1, LastingPlaces
<1>9. CASE FailPlace(k)
    <2>1. shelf' = shelf /\ cut' = cut \cup {Release(e)} BY <1>9 DEF FailPlace
    <2> HIDE DEF e
    <2> QED BY <1>6, <2>1, LastingCut
<1> QED BY <1>7, <1>8, <1>9

LEMMA LastingStrays ==
    ASSUME NoRepublish, FullInv, NEW s \in strays, StrayClears(s) \/ StrayPlaces(s) \/ StrayStores(s)
    PROVE  Lasting
<1> DEFINE e == s.content
<1>1. s = [content |-> s.content, at |-> s.at] /\ e \in Contents
    BY DEF FullInv, KeptInv, DrawnInv, DiskInv
<1>2. UNCHANGED call /\ strays \ {s} \subseteq strays'
    BY DEF StrayClears, StrayPlaces, StrayStores
<1>3. shelf = [r \in Releases |-> shelf[r]] BY DEF FullInv, ServedInv, ShelfOK
<1>4. Swaps \subseteq Swaps' \cup {e} BY <1>2, SwapsKeep DEF At
<1>5. s.at # "place" => Swaps \subseteq Swaps' \cup {} BY <1>2, SwapsKeep DEF At
<1>6. CASE StrayClears(s)
    <2>1. shelf' = [shelf EXCEPT ![Release(e)] = None] /\ cut' = cut /\ s.at = "assets"
        BY <1>6 DEF StrayClears, ClearShelf
    <2>2. HasAssets(e) => e \in Swaps'
        <3> SUFFICES ASSUME HasAssets(e) PROVE e \in Swaps' OBVIOUS
        <3>1. [s EXCEPT !.at = "place"] \in strays' BY <1>6 DEF StrayClears
        <3>2. [s EXCEPT !.at = "place"] = [content |-> e, at |-> "place"] BY <1>1
        <3> QED BY <3>1, <3>2 DEF Swaps
    <2>3. Swaps \subseteq Swaps' BY <1>5, <2>1
    <2> HIDE DEF e
    <2> QED BY <1>1, <1>3, <2>1, <2>2, <2>3, LastingClears
<1>7. CASE StrayPlaces(s)
    <2>1. shelf' = [shelf EXCEPT ![Release(e)] = e] /\ cut' = cut \ {Release(e)}
        BY <1>7 DEF StrayPlaces, PlaceShelf
    <2> HIDE DEF e
    <2> QED BY <1>1, <1>3, <1>4, <2>1, LastingPlaces
<1>8. CASE StrayStores(s)
    BY <1>5, <1>8, LastingSame DEF StrayStores
<1> QED BY <1>6, <1>7, <1>8

\* Cancelled calls and unloads leave the swap to its thread; a crash cuts it short.
LEMMA LastingCancel ==
    ASSUME FullInv, NEW k \in Calls, CancelCall(k)
    PROVE  Lasting
<1>1. UNCHANGED <<shelf, cut>> /\ strays \subseteq strays' /\ (InThread(k) => Stray(k) \in strays')
    BY DEF CancelCall
<1>2. \A i \in Calls : i # k => call'[i] = call[i]
    BY DEF CancelCall, Leave, FullInv, KeptInv, DrawnInv, CallsInv
<1>3. At(k, "place") => [content |-> call[k].content, at |-> "place"] \in strays'
    BY <1>1, StrayAtPlace
<1>4. Swaps \subseteq Swaps' \cup {} BY <1>1, <1>2, <1>3, SwapsKeep DEF At
<1> QED BY <1>1, <1>4, LastingSame

LEMMA LastingForgets ==
    ASSUME FullInv, Unload \/ Crash
    PROVE  Lasting
<1>1. CASE Unload
    <2>1. UNCHANGED <<shelf, cut>> /\ strays \subseteq strays'
          /\ \A k \in Calls : InThread(k) => Stray(k) \in strays'
        BY <1>1 DEF Unload, diskVars
    <2>2. \A k \in Calls : At(k, "place") => [content |-> call[k].content, at |-> "place"] \in strays'
        BY <2>1, StrayAtPlace
    <2>3. Swaps \subseteq Swaps' \cup {} BY <2>1, <2>2, SwapsKeep
    <2> QED BY <2>1, <2>3, LastingSame
<1>2. CASE Crash
    BY <1>2, LastingCut DEF Crash
<1> QED BY <1>1, <1>2

LEMMA LastingStep ==
    ASSUME NoRepublish, FullInv, [Next]_installVars
    PROVE  Lasting
<1>1. KeptInv BY DEF FullInv
<1>2. CASE \/ UNCHANGED installVars \/ StartUp \/ FinishSetUp \/ RollBack
           \/ \E d \in Definitions : Refresh(d)
    <2>1. UNCHANGED <<shelf, cut, call, strays>>
        BY <1>2 DEF installVars, StartUp, FinishSetUp, RollBack, Refresh, diskVars, taskVars
    <2>2. Swaps \subseteq Swaps' \cup {} BY <2>1, SwapsKeep DEF At
    <2> QED BY <2>1, <2>2, LastingSame
<1>3. ASSUME NEW k \in Calls,
             \/ BeginBundled(k) \/ FetchArtifact(k) \/ ReadInventory(k) \/ StorePackage(k)
             \/ CollectPackages(k) \/ BuildGeneration(k) \/ ActivateGeneration(k)
             \/ \E d \in Definitions : BeginInstall(k, d)
             \/ \E d \in Datasets : BeginRemove(k, d)
      PROVE  Lasting
    <2>0. UNCHANGED <<shelf, cut, strays>>
        BY <1>3
           DEF BeginBundled, FetchArtifact, ReadInventory, StorePackage, CollectPackages,
               BuildGeneration, ActivateGeneration, BeginInstall, BeginRemove, diskVars, taskVars
    <2>1. ~At(k, "place") \/ UNCHANGED call
        <3>1. CASE FetchArtifact(k) \/ ReadInventory(k) \/ StorePackage(k)
            BY <3>1 DEF FetchArtifact, ReadInventory, StorePackage, At
        <3>2. CASE CollectPackages(k) \/ BuildGeneration(k) \/ ActivateGeneration(k)
            BY <3>2 DEF CollectPackages, BuildGeneration, ActivateGeneration, At
        <3>3. CASE BeginBundled(k) BY <3>3 DEF BeginBundled, Enter, At, taskVars
        <3>4. CASE \/ \E d \in Definitions : BeginInstall(k, d)
                   \/ \E d \in Datasets : BeginRemove(k, d)
            BY <3>4 DEF BeginInstall, BeginRemove, Enter, At
        <3> QED BY <1>3, <3>1, <3>2, <3>3, <3>4
    <2>2. (\E j : call' = [call EXCEPT ![k] = j]) \/ UNCHANGED call
        BY <1>3
           DEF BeginBundled, FetchArtifact, ReadInventory, StorePackage, CollectPackages,
               BuildGeneration, ActivateGeneration, BeginInstall, BeginRemove, Enter, Goto,
               Fail, Leave, taskVars
    <2>3. CASE UNCHANGED call
        <3>1. Swaps \subseteq Swaps' \cup {} BY <2>0, <2>3, SwapsKeep DEF At
        <3> QED BY <2>0, <3>1, LastingSame
    <2> QED BY <1>1, <2>0, <2>1, <2>2, <2>3, LastingMove
<1>4. ASSUME NEW k \in Calls, ClearAssets(k) \/ PlaceAssets(k) \/ FailPlace(k) \/ CancelCall(k)
      PROVE  Lasting
    BY <1>4, LastingAssets, LastingCancel
<1> QED BY <1>2, <1>3, <1>4, LastingStrays, LastingForgets DEF Next, StrayStep

LEMMA InPlaceLasts ==
    ASSUME Lasting, NEW catalog, CatalogOf(catalog, Contents), InPlace(catalog, shelf, cut, Swaps)
    PROVE  InPlace(catalog, shelf', cut', Swaps')
BY DEF Lasting, InPlace, CatalogOf

LEMMA PreparedLasts ==
    ASSUME Lasting, NEW j, JobOf(j, Contents), Prepared(j, shelf, cut, Swaps)
    PROVE  Prepared(j, shelf', cut', Swaps')
<1>1. j.at = "activate" => InPlace(j.candidate, shelf', cut', Swaps')
    BY InPlaceLasts DEF JobOf, Prepared
<1>2. j.at \in {"package", "collect", "build"} => Shelved(j.content, shelf', cut', Swaps')
    BY DEF JobOf, Prepared, Lasting
<1> QED BY <1>1, <1>2 DEF Prepared

LEMMA CatalogsLast ==
    ASSUME FullInv, Lasting
    PROVE  InPlace(active, shelf', cut', Swaps') /\ InPlace(retained, shelf', cut', Swaps')
BY InPlaceLasts DEF FullInv, KeptInv, DrawnInv, DiskInv, ServedInv

LEMMA ServedMoves ==
    ASSUME FullInv, Lasting, ShelfOK(shelf)', UNCHANGED <<active, retained>>,
           NEW k \in Calls, NEW j, j = Idle \/ Prepared(j, shelf', cut', Swaps'),
           call' = [call EXCEPT ![k] = j]
    PROVE  ServedInv'
<1>1. \A i \in Calls : call'[i] = IF i = k THEN j ELSE call[i]
    BY DEF FullInv, KeptInv, DrawnInv, CallsInv
<1>2. ASSUME NEW i \in Calls, i # k PROVE call'[i] = Idle \/ Prepared(call'[i], shelf', cut', Swaps')
    BY <1>1, <1>2, PreparedLasts DEF FullInv, KeptInv, DrawnInv, CallsInv, ServedInv
<1>3. /\ InPlace(active', shelf', cut', Swaps') /\ InPlace(retained', shelf', cut', Swaps')
      /\ ShelfOK(shelf')
      /\ \A i \in Calls : call'[i] = Idle \/ Prepared(call'[i], shelf', cut', Swaps')
    BY <1>1, <1>2, CatalogsLast DEF ShelfOK
<1> QED BY <1>3 DEF ServedInv, InPlace, Prepared, AssetsOf, Shelved, ShelfOK, Idle, Known

LEMMA ServedStays ==
    ASSUME FullInv, Lasting, ShelfOK(shelf)', UNCHANGED <<active, retained, call>>
    PROVE  ServedInv'
<1>1. \A i \in Calls : call[i] = Idle \/ Prepared(call[i], shelf', cut', Swaps')
    BY PreparedLasts DEF FullInv, KeptInv, DrawnInv, CallsInv, ServedInv
<1>2. /\ InPlace(active', shelf', cut', Swaps') /\ InPlace(retained', shelf', cut', Swaps')
      /\ \A i \in Calls : call'[i] = Idle \/ Prepared(call'[i], shelf', cut', Swaps')
    BY <1>1, CatalogsLast
<1> QED BY <1>2 DEF ServedInv, InPlace, Prepared, AssetsOf, Shelved, ShelfOK, Idle, Known

LEMMA ShelfStays == ASSUME FullInv, UNCHANGED shelf PROVE ShelfOK(shelf)'
    BY DEF FullInv, ServedInv, ShelfOK

LEMMA ShelfChanges ==
    ASSUME FullInv, NEW c \in Contents,
           shelf' = [shelf EXCEPT ![Release(c)] = None] \/ shelf' = [shelf EXCEPT ![Release(c)] = c]
    PROVE  ShelfOK(shelf)'
BY DEF FullInv, ServedInv, ShelfOK

\* The job of a call, with where it is and what it knows of the shelf.
LEMMA PreparedAt ==
    ASSUME FullInv, NEW k \in Calls, NEW at, At(k, at)
    PROVE  /\ JobOf(call[k], Contents) /\ Prepared(call[k], shelf, cut, Swaps)
           /\ call[k].at = at /\ call[k] # Idle
BY DEF At, FullInv, KeptInv, DrawnInv, CallsInv, ServedInv

LEMMA FailServed ==
    ASSUME FullInv, Lasting, NEW k \in Calls, Fail(k), UNCHANGED <<active, retained, shelf>>
    PROVE  ServedInv'
<1>1. call' = [call EXCEPT ![k] = Idle] BY DEF Fail, Leave
<1> QED BY <1>1, ServedMoves, ShelfStays

LEMMA EntersServed ==
    ASSUME FullInv, Lasting, NEW k \in Calls,
           BeginBundled(k) \/ (\E d \in Definitions : BeginInstall(k, d))
               \/ (\E d \in Datasets : BeginRemove(k, d))
    PROVE  ServedInv'
<1>1. UNCHANGED <<active, retained, shelf>> BY DEF BeginBundled, BeginInstall, BeginRemove, diskVars
<1>2. CASE BeginBundled(k)
    <2> DEFINE j == Job(PackageOf(Bundled).dataset, "inventory", Bundled)
    <2>1. call' = [call EXCEPT ![k] = j] \/ UNCHANGED call BY <1>2 DEF BeginBundled, Enter, taskVars
    <2>2. Prepared(j, shelf', cut', Swaps') BY DEF Prepared, Job
    <2> HIDE DEF j
    <2> QED BY <1>1, <2>1, <2>2, ServedMoves, ServedStays, ShelfStays
<1>3. ASSUME NEW d \in Definitions, BeginInstall(k, d) PROVE ServedInv'
    <2>1. PICK r : call' = [call EXCEPT ![k] = [Job(d, "fetch", None) EXCEPT !.version = r.version]]
        BY <1>3 DEF BeginInstall, Enter
    <2> DEFINE j == [Job(d, "fetch", None) EXCEPT !.version = r.version]
    <2>2. Prepared(j, shelf', cut', Swaps') BY DEF Prepared, Job
    <2>3. call' = [call EXCEPT ![k] = j] BY <2>1
    <2> HIDE DEF j
    <2> QED BY <1>1, <2>2, <2>3, ServedMoves, ShelfStays
<1>4. ASSUME NEW d \in Datasets, BeginRemove(k, d) PROVE ServedInv'
    <2> DEFINE others == {Installed(e) : e \in Datasets \ {d}} \ {None}
               j == [Job(d, "collect", None) EXCEPT !.op = "remove", !.others = others]
    <2>1. call' = [call EXCEPT ![k] = j] BY <1>4 DEF BeginRemove, Enter
    <2> HIDE DEF others
    <2>2. PICK base : base = Job(d, "collect", None) OBVIOUS
    <2>3. Shaped(base) /\ base.at = "collect" /\ base.content = None BY <2>2 DEF Shaped, Job
    <2>4. j.at = "collect" /\ j.content = None BY <2>2, <2>3, ChangesOp
    <2> HIDE DEF j
    <2>5. Prepared(j, shelf', cut', Swaps') BY <2>4 DEF Prepared, Shelved
    <2> QED BY <1>1, <2>1, <2>5, ServedMoves, ShelfStays
<1> QED BY <1>2, <1>3, <1>4

\* Going on from a place of the same operation and content.
LEMMA GoesOnServed ==
    ASSUME FullInv, Lasting, ShelfOK(shelf)', UNCHANGED <<active, retained>>,
           NEW k \in Calls, call[k] # Idle, NEW at \in {"place", "package", "collect", "build"},
           Goto(k, at),
           at \in {"place", "package"} => call[k].at \in {"assets", "place"},
           at # "place" => Shelved(call[k].content, shelf', cut', Swaps')
    PROVE  ServedInv'
<1> DEFINE j == [call[k] EXCEPT !.at = at]
<1>1. JobOf(call[k], Contents) /\ Prepared(call[k], shelf, cut, Swaps)
    BY DEF FullInv, KeptInv, DrawnInv, CallsInv, ServedInv
<1>2. j = [at |-> at, op |-> call[k].op, dataset |-> call[k].dataset, version |-> call[k].version,
           content |-> call[k].content, others |-> call[k].others, candidate |-> call[k].candidate]
    BY <1>1 DEF JobOf, Shaped
<1>3. j.at = at /\ j.op = call[k].op /\ j.content = call[k].content BY <1>2
<1>4. call' = [call EXCEPT ![k] = j] BY DEF Goto
<1> HIDE DEF j
<1>5. Prepared(j, shelf', cut', Swaps') BY <1>1, <1>3 DEF Prepared
<1> QED BY <1>4, <1>5, ServedMoves

LEMMA FetchServed ==
    ASSUME FullInv, Lasting, NEW k \in Calls, FetchArtifact(k) \/ ReadInventory(k)
    PROVE  ServedInv'
<1>1. UNCHANGED <<active, retained, shelf>> BY DEF FetchArtifact, ReadInventory, diskVars
<1>2. CASE Fail(k) BY <1>1, <1>2, FailServed
<1>3. ASSUME NEW c, At(k, "fetch"),
             call' = [call EXCEPT ![k].at = "inventory", ![k].content = c]
      PROVE  ServedInv'
    <2> DEFINE j == [call[k] EXCEPT !.at = "inventory", !.content = c]
    <2>1. JobOf(call[k], Contents) BY <1>3, PreparedAt
    <2>0. call[k].op = "install" BY <1>3, PreparedAt DEF Prepared
    <2>2. j = [at |-> "inventory", op |-> call[k].op, dataset |-> call[k].dataset,
               version |-> call[k].version, content |-> c, others |-> call[k].others,
               candidate |-> call[k].candidate]
        BY <2>1, ChangesContent DEF JobOf
    <2>3. j.at = "inventory" /\ j.op = "install" BY <2>0, <2>2
    <2>4. call' = [call EXCEPT ![k] = j] BY <1>3
    <2> HIDE DEF j
    <2>5. Prepared(j, shelf', cut', Swaps') BY <2>3 DEF Prepared
    <2> QED BY <1>1, <2>4, <2>5, ServedMoves, ShelfStays
<1>4. ASSUME NEW others, At(k, "inventory"),
             call' = [call EXCEPT ![k].at = "assets", ![k].others = others]
      PROVE  ServedInv'
    <2> DEFINE j == [call[k] EXCEPT !.at = "assets", !.others = others]
    <2>1. JobOf(call[k], Contents) /\ call[k].op = "install" BY <1>4, PreparedAt DEF Prepared
    <2>2. j = [at |-> "assets", op |-> call[k].op, dataset |-> call[k].dataset,
               version |-> call[k].version, content |-> call[k].content, others |-> others,
               candidate |-> call[k].candidate]
        BY <2>1, ChangesOthers DEF JobOf
    <2>3. j.at = "assets" /\ j.op = "install" BY <2>1, <2>2
    <2>4. call' = [call EXCEPT ![k] = j] BY <1>4
    <2> HIDE DEF j
    <2>5. Prepared(j, shelf', cut', Swaps') BY <2>3 DEF Prepared
    <2> QED BY <1>1, <2>4, <2>5, ServedMoves, ShelfStays
<1> QED BY <1>2, <1>3, <1>4 DEF FetchArtifact, ReadInventory

LEMMA AssetsServed ==
    ASSUME FullInv, Lasting, NEW k \in Calls,
           ClearAssets(k) \/ PlaceAssets(k) \/ FailPlace(k) \/ StorePackage(k)
    PROVE  ServedInv'
<1> DEFINE c == call[k].content
<1>1. call[k] # Idle /\ call[k].at \in {"assets", "place", "package"}
      /\ UNCHANGED <<active, retained>>
    BY DEF ClearAssets, PlaceAssets, FailPlace, StorePackage, At
<1>2. JobOf(call[k], Contents) /\ Prepared(call[k], shelf, cut, Swaps)
    BY <1>1 DEF FullInv, KeptInv, DrawnInv, CallsInv, ServedInv
<1>3. c \in Contents BY <1>1, <1>2 DEF JobOf
<1>4. CASE ClearAssets(k)
    <2>1. shelf' = [shelf EXCEPT ![Release(c)] = None] /\ call[k].at = "assets"
        BY <1>4 DEF ClearAssets, ClearShelf, At
    <2>2. Goto(k, IF HasAssets(c) THEN "place" ELSE "package") BY <1>4 DEF ClearAssets
    <2>3. ~HasAssets(c) => Shelved(c, shelf', cut', Swaps') BY DEF Shelved
    <2>4. ShelfOK(shelf)' BY <1>3, <2>1, ShelfChanges DEF c
    <2>5. CASE HasAssets(c) BY <1>1, <2>1, <2>2, <2>4, <2>5, GoesOnServed
    <2>6. CASE ~HasAssets(c) BY <1>1, <2>1, <2>2, <2>3, <2>4, <2>6, GoesOnServed
    <2> QED BY <2>5, <2>6
<1>5. CASE PlaceAssets(k)
    <2>1. shelf' = [shelf EXCEPT ![Release(c)] = c] /\ call[k].at = "place" /\ Goto(k, "package")
        BY <1>5 DEF PlaceAssets, PlaceShelf, At
    <2>2. ShelfOK(shelf)'
        <3> HIDE DEF c
        <3> QED BY <1>3, <2>1, ShelfChanges
    <2>3. Shelved(c, shelf', cut', Swaps')
        <3>1. c # None /\ Release(c) \in Releases
            BY <1>3, ReleaseOf, PackageAssumption DEF PackageAssumption
        <3>2. shelf'[Release(c)] = c
            BY <2>1, <3>1 DEF FullInv, ServedInv, ShelfOK
        <3> QED BY <3>1, <3>2 DEF Shelved
    <2> QED BY <1>1, <2>1, <2>2, <2>3, GoesOnServed
<1>6. CASE FailPlace(k) BY <1>1, <1>6, FailServed DEF FailPlace
<1>7. CASE StorePackage(k)
    <2>1. UNCHANGED shelf /\ call[k].at = "package" /\ Goto(k, "collect")
        BY <1>7 DEF StorePackage, At
    <2>2. Shelved(c, shelf', cut', Swaps') BY <1>2, <1>3, <2>1 DEF Prepared, Lasting
    <2> QED BY <1>1, <2>1, <2>2, GoesOnServed, ShelfStays
<1> QED BY <1>4, <1>5, <1>6, <1>7

LEMMA CollectServed ==
    ASSUME FullInv, Lasting, NEW k \in Calls, CollectPackages(k)
    PROVE  ServedInv'
<1>1. /\ JobOf(call[k], Contents) /\ Prepared(call[k], shelf, cut, Swaps)
      /\ call[k].at = "collect" /\ call[k] # Idle
    BY PreparedAt DEF CollectPackages
<1>2. UNCHANGED <<active, retained, shelf>> BY DEF CollectPackages, diskVars
<1>3. Shelved(call[k].content, shelf', cut', Swaps') BY <1>1 DEF JobOf, Prepared, Lasting
<1>4. CASE Goto(k, "build") BY <1>1, <1>2, <1>3, <1>4, GoesOnServed, ShelfStays
<1>5. CASE Fail(k) BY <1>2, <1>5, FailServed
<1> QED BY <1>4, <1>5 DEF CollectPackages

\* The packages of a candidate are on the shelf: the one the call has just placed
\* there and those of the active generation.
LEMMA BuildServed ==
    ASSUME NoRepublish, FullInv, Lasting, NEW k \in Calls, BuildGeneration(k)
    PROVE  ServedInv'
<1> DEFINE cs == {packages[Release(c)] : c \in PackageSet(k)}
           new == Candidate(active, cs, built + 1)
           j == [call[k] EXCEPT !.at = "activate", !.candidate = new]
<1>1. /\ JobOf(call[k], Contents) /\ Prepared(call[k], shelf, cut, Swaps)
      /\ call[k].at = "build" /\ call[k] # Idle
    BY PreparedAt DEF BuildGeneration
<1>2. UNCHANGED <<active, retained, shelf>> BY DEF BuildGeneration
<1>3. Fail(k) \/ (Builds(active, cs, built + 1) /\ call' = [call EXCEPT ![k] = j])
    BY DEF BuildGeneration
<1>4. /\ cs = PackageSet(k) /\ cs \in SUBSET Contents
      /\ \A c, e \in cs : Package[c].dataset = Package[e].dataset => c = e
    BY BuildSet DEF BuildGeneration, FullInv
<1>5. AssetsOf(active) /\ \A d \in Datasets : Shelved(active.packages[d], shelf, cut, Swaps)
    BY DEF FullInv, ServedInv, InPlace
<1>6. Turn(call[k], k, lock, active, packages) BY <1>1 DEF FullInv, KeptInv, HoldInv
<1>7. \A c \in call[k].others : \E d \in Datasets : c = active.packages[d]
    BY <1>1, <1>6 DEF Turn
<1>8. \A c \in cs : Shelved(c, shelf, cut, Swaps)
    BY <1>1, <1>4, <1>5, <1>7 DEF PackageSet, Prepared
<1> HIDE DEF cs
<1>9. \A d \in Datasets : new.packages[d] = None \/ new.packages[d] \in cs BY CandidatePackages
<1>10. Builds(active, cs, built + 1) => AssetsOf(new) BY <1>4, <1>5, CandidateAssets
<1> HIDE DEF new
<1>11. \A d \in Datasets : Shelved(new.packages[d], shelf', cut', Swaps')
    BY <1>4, <1>8, <1>9 DEF Lasting, Shelved
<1>12. j = [at |-> "activate", op |-> call[k].op, dataset |-> call[k].dataset,
            version |-> call[k].version, content |-> call[k].content, others |-> call[k].others,
            candidate |-> new]
    BY <1>1, ChangesCandidate DEF JobOf
<1>13. j.at = "activate" /\ j.candidate = new BY <1>12
<1> HIDE DEF j
<1>14. Builds(active, cs, built + 1) => Prepared(j, shelf', cut', Swaps')
    BY <1>10, <1>11, <1>13 DEF Prepared, InPlace
<1> QED BY <1>2, <1>3, <1>14, ServedMoves, ShelfStays, FailServed

\* A step after which a call is over and the catalogs are some there were.
LEMMA SwitchServed ==
    ASSUME FullInv, Lasting, NEW k \in Calls, At(k, "activate"), Switch(k), Leave(k), UNCHANGED shelf
    PROVE  ServedInv'
<1>1. /\ JobOf(call[k], Contents) /\ Prepared(call[k], shelf, cut, Swaps)
      /\ call[k].at = "activate" /\ call[k] # Idle
    BY PreparedAt
<1>2. active' = call[k].candidate /\ retained' = active BY DEF Switch
<1>3. InPlace(active', shelf', cut', Swaps')
    BY <1>1, <1>2, InPlaceLasts DEF JobOf, Prepared
<1>4. InPlace(retained', shelf', cut', Swaps') BY <1>2, CatalogsLast
<1>5. \A i \in Calls : call'[i] = Idle \/ call'[i] = call[i]
    BY DEF Leave, FullInv, KeptInv, DrawnInv, CallsInv
<1>6. \A i \in Calls : call[i] = Idle \/ Prepared(call[i], shelf', cut', Swaps')
    BY PreparedLasts DEF FullInv, KeptInv, DrawnInv, CallsInv, ServedInv
<1>7. \A i \in Calls : call'[i] = Idle \/ Prepared(call'[i], shelf', cut', Swaps')
    BY <1>5, <1>6
<1>8. ShelfOK(shelf') BY DEF FullInv, ServedInv, ShelfOK
<1> QED BY <1>3, <1>4, <1>7, <1>8
    DEF ServedInv, InPlace, Prepared, AssetsOf, Shelved, ShelfOK, Idle, Known

LEMMA EndsServed ==
    ASSUME FullInv, Lasting, NEW k \in Calls, ActivateGeneration(k) \/ CancelCall(k)
    PROVE  ServedInv'
<1>1. UNCHANGED shelf /\ call[k] # Idle BY DEF ActivateGeneration, CancelCall, At
<1>2. CASE At(k, "activate") /\ Switch(k) /\ Leave(k) BY <1>1, <1>2, SwitchServed
<1>3. CASE UNCHANGED <<active, retained>> /\ Leave(k)
    <2>1. call' = [call EXCEPT ![k] = Idle] BY <1>3 DEF Leave
    <2> QED BY <1>1, <1>3, <2>1, ServedMoves, ShelfStays
<1> QED BY <1>2, <1>3 DEF ActivateGeneration, CancelCall, Fail

LEMMA StraysServed ==
    ASSUME FullInv, Lasting, NEW s \in strays, StrayClears(s) \/ StrayPlaces(s) \/ StrayStores(s)
    PROVE  ServedInv'
<1>1. UNCHANGED <<call, active, retained>> BY DEF StrayClears, StrayPlaces, StrayStores
<1>2. PICK c \in Contents : c = s.content BY DEF FullInv, KeptInv, DrawnInv, DiskInv
<1>3. \/ UNCHANGED shelf \/ shelf' = [shelf EXCEPT ![Release(c)] = None]
      \/ shelf' = [shelf EXCEPT ![Release(c)] = c]
    BY <1>2 DEF StrayClears, StrayPlaces, StrayStores, ClearShelf, PlaceShelf
<1>4. ShelfOK(shelf)' BY <1>3, ShelfStays, ShelfChanges
<1> QED BY <1>1, <1>4, ServedStays

LEMMA ServedStep ==
    ASSUME NoRepublish, FullInv, [Next]_installVars
    PROVE  ServedInv'
<1>1. Lasting BY LastingStep
<1>2. CASE UNCHANGED installVars \/ StartUp \/ FinishSetUp \/ \E d \in Definitions : Refresh(d)
    <2>1. UNCHANGED <<shelf, call, active, retained>>
        BY <1>2 DEF installVars, StartUp, FinishSetUp, Refresh, diskVars, taskVars
    <2> QED BY <1>1, <2>1, ServedStays, ShelfStays
<1>3. CASE RollBack
    <2>1. /\ active' = retained /\ retained' = active /\ UNCHANGED <<call, shelf, cut, strays>>
        BY <1>3 DEF RollBack, taskVars
    <2>2. /\ InPlace(active', shelf', cut', Swaps') /\ InPlace(retained', shelf', cut', Swaps')
        BY <1>1, <2>1, CatalogsLast
    <2>3. \A i \in Calls : call'[i] = Idle \/ Prepared(call'[i], shelf', cut', Swaps')
        BY <1>1, <2>1, PreparedLasts DEF FullInv, KeptInv, DrawnInv, CallsInv, ServedInv
    <2>4. ShelfOK(shelf') BY <2>1 DEF FullInv, ServedInv, ShelfOK
    <2> QED BY <2>2, <2>3, <2>4
        DEF ServedInv, InPlace, Prepared, AssetsOf, Shelved, ShelfOK, Idle, Known
<1>4. CASE Unload \/ Crash
    <2>1. UNCHANGED <<active, retained, shelf>> /\ \A i \in Calls : call'[i] = Idle
        BY <1>4 DEF Unload, Crash, Forget, diskVars
    <2>2. ShelfOK(shelf') BY <2>1 DEF FullInv, ServedInv, ShelfOK
    <2>3. InPlace(active', shelf', cut', Swaps') /\ InPlace(retained', shelf', cut', Swaps')
        BY <1>1, <2>1, CatalogsLast
    <2> QED BY <2>1, <2>2, <2>3
        DEF ServedInv, InPlace, Prepared, AssetsOf, Shelved, ShelfOK, Idle, Known
<1>5. CASE StrayStep BY <1>1, <1>5, StraysServed DEF StrayStep
<1>6. ASSUME NEW k \in Calls,
             \/ BeginBundled(k) \/ FetchArtifact(k) \/ ReadInventory(k) \/ ClearAssets(k)
             \/ PlaceAssets(k) \/ FailPlace(k) \/ StorePackage(k) \/ CollectPackages(k)
             \/ BuildGeneration(k) \/ ActivateGeneration(k) \/ CancelCall(k)
             \/ (\E d \in Definitions : BeginInstall(k, d))
             \/ (\E d \in Datasets : BeginRemove(k, d))
      PROVE  ServedInv'
    BY <1>1, <1>6, EntersServed, FetchServed, AssetsServed, CollectServed, BuildServed, EndsServed
<1> QED BY <1>2, <1>3, <1>4, <1>5, <1>6 DEF Next

LEMMA InitServed == ASSUME Init PROVE ServedInv
<1>1. InPlace(EmptyCatalog, shelf, cut, Swaps)
    BY DEF InPlace, AssetsOf, Shelved, EmptyCatalog, Known
<1>2. active = EmptyCatalog /\ retained = EmptyCatalog BY DEF Init
<1>3. ShelfOK(shelf) /\ \A k \in Calls : call[k] = Idle BY DEF Init, ShelfOK
<1> QED BY <1>1, <1>2, <1>3 DEF ServedInv

\* Every medium of an installed dataset resolves to the bytes the generation
\* describes, whatever overtakes a swap of its directory, unless that very swap
\* is under way or was cut short (_store_assets_atomically,
\* async_resolve_public_asset).
THEOREM MediaStayServed == ASSUME NoRepublish PROVE Spec => []MediaServed
<1>1. Init => FullInv BY InitDrawn, InitHolds, InitServed DEF FullInv, KeptInv
<1>2. FullInv /\ [Next]_installVars => FullInv'
    BY ServedStep, HoldStep, StepKeeps, ContentsClosed DEF FullInv, KeptInv
<1>3. ASSUME FullInv PROVE MediaServed
    <2> SUFFICES ASSUME NEW x \in Media \cap Known(active), Installed(active.owner[x]) # None
                 PROVE  LET c == Installed(active.owner[x]) IN
                        x \in DOMAIN active.assets /\ (Resolves(x) \/ Release(c) \in cut \/ c \in Swaps)
        BY DEF MediaServed
    <2> DEFINE d == active.owner[x]
    <2>1. PICK c : c = active.packages[d] OBVIOUS
    <2>2. AssetsOf(active) /\ d \in Datasets /\ Shelved(c, shelf, cut, Swaps)
        BY <1>3, <2>1 DEF FullInv, ServedInv, InPlace, AssetsOf
    <2>3. c # None /\ c \in Contents
        BY <1>3, <2>1, <2>2 DEF Installed, FullInv, KeptInv, HoldInv, Stocked
    <2>4. /\ x \in DOMAIN active.assets
          /\ x \in DOMAIN Package[c].assets /\ Package[c].assets[x] = active.assets[x]
        BY <2>1, <2>2, <2>3 DEF AssetsOf
    <2>5. HasAssets(c) BY <2>4 DEF HasAssets, PackageOf
    <2>6. ASSUME shelf[Release(c)] # None PROVE Resolves(x)
        <3>1. shelf[Release(c)] \in Contents /\ Release(shelf[Release(c)]) = Release(c)
            BY <1>3, <2>3, <2>6, ReleaseOf DEF FullInv, ServedInv, ShelfOK
        <3>2. shelf[Release(c)] = c BY <2>3, <3>1 DEF NoRepublish
        <3> QED BY <2>1, <2>4, <2>6, <3>2 DEF Resolves, Installed
    <2> QED BY <2>1, <2>2, <2>3, <2>4, <2>5, <2>6 DEF Shelved, Installed
<1> QED BY <1>1, <1>2, <1>3, PTL DEF Spec
=============================================================================
