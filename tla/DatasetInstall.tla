----------------------------- MODULE DatasetInstall -----------------------------
(***************************************************************************)
(* DatasetManager (datasets/manager.py): discovery, installs, removals and *)
(* rollbacks of signed dataset packages, with their caches on disk, across *)
(* cancelled calls, reloads of the config entry and process ends.          *)
(*                                                                         *)
(* A step ends at an await that gives other tasks a turn; work on private  *)
(* files (download, verification, extraction) is part of the next step.    *)
(* Work in a thread goes on when its caller is cancelled or its runtime is *)
(* unloaded.  Activation is the atomic switch of ContentGenerations.       *)
(***************************************************************************)
EXTENDS PackageTrust

CONSTANTS
    Calls,          \* coroutines that use the manager
    Definitions,    \* datasets with an official definition
    Bundled,        \* the content of the artifact shipped with the integration
    Artifacts,      \* the archives a download may deliver
    Catalogs,       \* release catalogs a dataset's URL may serve
    Published,      \* history: the contents whose packages LockLearn signed
    MaxGenerations, \* bound on the generations built
    MaxUpsets       \* bound on reloads, process ends, cancelled calls and
                    \* file operations that fail half-way

\* A release: a row of a catalog.  Its URL names a trusted host or does not; its
\* checksum binds nothing, as whoever writes the row writes the checksum.
IsRelease(r) == r.dataset \in Datasets /\ r.version \in Nat /\ r.host \in BOOLEAN

ASSUME InstallAssumption ==
    /\ Definitions \subseteq Datasets
    /\ Bundled \in Contents /\ Bundled \in Published
    /\ \A a \in Artifacts : IsArchive(a)
    /\ \A catalog \in Catalogs : \A r \in catalog : IsRelease(r)
    /\ None \notin Calls
    /\ {MaxGenerations, MaxUpsets} \subseteq Nat

VARIABLES
    phase,      \* "down", "setup", "bundling" or "up": the runtime
    active,     \* the active generation's catalog
    retained,   \* the catalog a rollback returns to, or EmptyCatalog
    built,      \* the number of generations built
    packages,   \* packages/: the content in each cached package file
    shelf,      \* assets/: the content whose assets each directory holds
    lock,       \* DatasetManager._lock
    call,       \* what each call is doing
    strays,     \* threads that outlive their call
    available,  \* DatasetManager._available
    errors,     \* the datasets with an entry in DatasetManager._errors
    issues,     \* the Repairs shown
    upsets,     \* how many
    cut         \* history: directories a swap was interrupted in

diskVars == <<active, retained, built, packages, shelf, cut>>
taskVars == <<lock, call, strays>>
reportVars == <<available, errors, issues>>
installVars == <<phase, diskVars, taskVars, reportVars, upsets>>

Releases == Datasets \X {Package[c].version : c \in Contents}
Idle == [at |-> "idle"]

Init ==
    /\ phase = "down"
    /\ active = EmptyCatalog /\ retained = EmptyCatalog /\ built = 0
    /\ packages = [r \in Releases |-> None] /\ shelf = [r \in Releases |-> None]
    /\ lock = None /\ call = [k \in Calls |-> Idle] /\ strays = {}
    /\ available = [d \in Definitions |-> {}] /\ errors = {} /\ issues = {}
    /\ upsets = 0 /\ cut = {}

-----------------------------------------------------------------------------
(* What the manager reports. *)

\* async_dataset_inventory: the content installed of each dataset.
Installed(d) == active.packages[d]

\* async_statuses
Newest(d) == {r.version : r \in {q \in available[d] : \A n \in available[d] : n.version <= q.version}}
Newer(d) ==
    /\ available[d] # {}
    /\ Installed(d) # None => \E v \in Newest(d) : v > Package[Installed(d)].version
Status(d) ==
    IF d \in errors THEN "error"
    ELSE IF Newer(d) THEN "update_available"
    ELSE IF Installed(d) # None THEN "installed"
    ELSE "unknown"

\* async_resolve_public_asset finds the bytes the active generation describes.
Resolves(x) ==
    LET c == Installed(active.owner[x]) IN
    shelf[Release(c)] # None /\ Package[shelf[Release(c)]].assets[x] = active.assets[x]

-----------------------------------------------------------------------------
(* Steps common to every call. *)

Upset == upsets < MaxUpsets /\ upsets' = upsets + 1

At(k, at) == call[k] # Idle /\ call[k].at = at

Goto(k, at) == call' = [call EXCEPT ![k].at = at] /\ UNCHANGED lock

\* Mutant of Enter: no lock.
EnterUnlocked(k, job) ==
    /\ call[k] = Idle
    /\ lock' = k /\ call' = [call EXCEPT ![k] = job]

Enter(k, job) ==
    /\ call[k] = Idle
    /\ lock = None /\ lock' = k
    /\ call' = [call EXCEPT ![k] = job]

Leave(k) ==
    /\ lock' = (IF lock = k THEN None ELSE lock)
    /\ call' = [call EXCEPT ![k] = Idle]

\* An exception in an install is recorded, shown and raised; in a removal raised.
Fail(k) ==
    /\ Leave(k)
    /\ IF call[k].op = "install"
       THEN /\ errors' = errors \cup {call[k].dataset}
            /\ issues' = issues \cup {<<"install", call[k].dataset>>}
       ELSE UNCHANGED <<errors, issues>>
    /\ UNCHANGED available

-----------------------------------------------------------------------------
(* Discovery. *)

Discovered(d, catalog) ==
    /\ available' = [available EXCEPT ![d] = catalog]
    /\ errors' = errors \ {d} /\ issues' = issues \ {<<"discovery", d>>}

\* What was discovered before stays available.
DiscoveryFailed(d) ==
    /\ errors' = errors \cup {d} /\ issues' = issues \cup {<<"discovery", d>>}
    /\ UNCHANGED available

\* async_refresh of one dataset takes no lock.
Refresh(d) ==
    /\ phase = "up"
    /\ \/ \E catalog \in Catalogs : (\A r \in catalog : r.dataset = d) /\ Discovered(d, catalog)
       \/ DiscoveryFailed(d)
    /\ UNCHANGED <<phase, diskVars, taskVars, upsets>>

-----------------------------------------------------------------------------
(* Installs. *)

Job(d, at, c) ==
    [at |-> at, op |-> "install", dataset |-> d, version |-> 0, content |-> c, others |-> {},
     candidate |-> EmptyCatalog]

\* Setup installs the bundled artifact of a dataset that is not installed.
BeginBundled(k) ==
    LET d == PackageOf(Bundled).dataset IN
    /\ phase = "setup"
    /\ IF Installed(d) = None
       THEN phase' = "bundling" /\ Enter(k, Job(d, "inventory", Bundled)) /\ UNCHANGED strays
       ELSE phase' = "up" /\ UNCHANGED taskVars
    /\ UNCHANGED <<diskVars, reportVars, upsets>>

\* Its failure does not fail the setup.
FinishSetUp ==
    /\ phase = "bundling" /\ \A k \in Calls : call[k] = Idle
    /\ phase' = "up"
    /\ UNCHANGED <<diskVars, taskVars, reportVars, upsets>>

\* _select_release takes the latest or the one asked for; a release of another
\* host is refused before the download.
BeginInstall(k, d) ==
    /\ phase = "up"
    /\ \E r \in available[d] :
           r.host /\ Enter(k, [Job(d, "fetch", None) EXCEPT !.version = r.version])
    /\ UNCHANGED <<phase, diskVars, strays, reportVars, upsets>>

\* The download and every check on it; a network or disk error fails as well.
FetchArtifact(k) ==
    /\ At(k, "fetch")
    /\ \/ /\ \E a \in Artifacts :
             /\ Acceptable(a) /\ Contracted(a, call[k].dataset, call[k].version)
             /\ DescribesDatabase(a)
             /\ call' = [call EXCEPT ![k].at = "inventory", ![k].content = Digest(a, "dataset.db")]
          /\ UNCHANGED <<lock, reportVars>>
       \/ Fail(k)
    /\ UNCHANGED <<phase, diskVars, strays, upsets>>

SameVersion(c) ==
    LET installed == Installed(PackageOf(c).dataset) IN
    installed # None /\ Release(installed) = Release(c)

\* The installed version is not installed again, whatever its content.
ReadInventory(k) ==
    /\ At(k, "inventory")
    /\ LET c == call[k].content
           d == PackageOf(c).dataset
       IN  IF SameVersion(c) THEN Fail(k)
           ELSE /\ call' = [call EXCEPT ![k].at = "assets",
                              ![k].others = {Installed(e) : e \in Datasets \ {d}} \ {None}]
                /\ UNCHANGED <<lock, reportVars>>
    /\ UNCHANGED <<phase, diskVars, strays, upsets>>

\* _store_assets_atomically: the extracted directory replaces the one there is,
\* which is removed first ...
ClearShelf(c) == shelf' = [shelf EXCEPT ![Release(c)] = None]
\* ... unless the package has no assets.
PlaceShelf(c) ==
    /\ shelf' = [shelf EXCEPT ![Release(c)] = c]
    /\ cut' = cut \ {Release(c)}

HasAssets(c) == DOMAIN PackageOf(c).assets # {}

ClearAssets(k) ==
    /\ At(k, "assets")
    /\ ClearShelf(call[k].content)
    /\ Goto(k, IF HasAssets(call[k].content) THEN "place" ELSE "package")
    /\ UNCHANGED <<phase, active, retained, built, packages, cut, strays, reportVars, upsets>>

PlaceAssets(k) ==
    /\ At(k, "place")
    /\ PlaceShelf(call[k].content)
    /\ Goto(k, "package")
    /\ UNCHANGED <<phase, active, retained, built, packages, strays, reportVars, upsets>>

\* The rename fails: a full disk, or a directory another thread put there.
FailPlace(k) ==
    /\ At(k, "place")
    /\ Upset
    /\ cut' = cut \cup {Release(call[k].content)}
    /\ Fail(k)
    /\ UNCHANGED <<phase, active, retained, built, packages, shelf, strays>>

\* _store_package_atomically
StorePackage(k) ==
    /\ At(k, "package")
    /\ packages' = [packages EXCEPT ![Release(call[k].content)] = call[k].content]
    /\ Goto(k, "collect")
    /\ UNCHANGED <<phase, active, retained, built, shelf, cut, strays, reportVars, upsets>>

-----------------------------------------------------------------------------
(* Removals; TrackPins has their check against the pins of the Tracks. *)

BeginRemove(k, d) ==
    /\ phase = "up" /\ Installed(d) # None
    /\ Enter(k, [Job(d, "collect", None) EXCEPT !.op = "remove",
                     !.others = {Installed(e) : e \in Datasets \ {d}} \ {None}])
    /\ UNCHANGED <<phase, diskVars, strays, reportVars, upsets>>

-----------------------------------------------------------------------------
(* The generation. *)

\* _complete_package_set, _package_set_without: the other datasets' packages
\* must be cached with the content that is installed.
CollectPackages(k) ==
    /\ At(k, "collect")
    /\ IF \A c \in call[k].others : packages[Release(c)] = c
       THEN Goto(k, "build") /\ UNCHANGED reportVars
       ELSE Fail(k)
    /\ UNCHANGED <<phase, diskVars, strays, upsets>>

PackageSet(k) == call[k].others \cup ({call[k].content} \ {None})

\* async_build_content_generation, from the generation active at that time.
BuildGeneration(k) ==
    /\ At(k, "build")
    /\ LET cs == {packages[Release(c)] : c \in PackageSet(k)} IN
       \/ /\ Builds(active, cs, built + 1) /\ built < MaxGenerations
          /\ built' = built + 1
          /\ call' = [call EXCEPT ![k].at = "activate",
                                  ![k].candidate = Candidate(active, cs, built + 1)]
          /\ UNCHANGED <<lock, reportVars>>
       \/ /\ ~Builds(active, cs, built + 1)
          /\ Fail(k) /\ UNCHANGED built
    /\ UNCHANGED <<phase, active, retained, packages, shelf, cut, strays, upsets>>

\* Mutant of Switch: packages the new generation has no use for are deleted.
SwitchCleaning(k) ==
    /\ active' = call[k].candidate /\ retained' = active
    /\ packages' = [r \in Releases |->
           IF \E d \in Datasets : active'.packages[d] # None /\ Release(active'.packages[d]) = r
           THEN packages[r] ELSE None]

Switch(k) ==
    /\ active' = call[k].candidate /\ retained' = active
    /\ UNCHANGED packages

\* A candidate built from another generation than the active one is refused.
ActivateGeneration(k) ==
    /\ At(k, "activate")
    /\ IF call[k].candidate.parent = active.gen
       THEN /\ Switch(k)
            /\ Leave(k)
            /\ IF call[k].op = "install"
               THEN /\ errors' = errors \ {call[k].dataset}
                    /\ issues' = issues \ {<<"install", call[k].dataset>>}
               ELSE UNCHANGED <<errors, issues>>
            /\ UNCHANGED available
       ELSE Fail(k) /\ UNCHANGED <<active, retained, packages>>
    /\ UNCHANGED <<phase, built, shelf, cut, strays, upsets>>

\* async_rollback, under the lock.
RollBack ==
    /\ phase = "up" /\ lock = None /\ retained.gen # 0
    /\ active' = retained /\ retained' = active
    /\ UNCHANGED <<phase, built, packages, shelf, cut, taskVars, reportVars, upsets>>

-----------------------------------------------------------------------------
(* Cancelled calls, reloads, process ends. *)

Stray(k) == [content |-> call[k].content, at |-> call[k].at]
InThread(k) == call[k] # Idle /\ call[k].op = "install" /\ call[k].at \in {"assets", "place", "package"}

\* CancelledError is no Exception: nothing is recorded.  A build is shielded, and
\* its candidate dropped; a switch that has begun ends first.
CancelCall(k) ==
    /\ phase = "up" /\ call[k] # Idle
    /\ Upset
    /\ Leave(k)
    /\ strays' = strays \cup (IF InThread(k) THEN {Stray(k)} ELSE {})
    /\ \/ UNCHANGED <<active, retained, packages>>
       \/ At(k, "activate") /\ call[k].candidate.parent = active.gen /\ Switch(k)
    /\ UNCHANGED <<phase, built, shelf, cut, reportVars>>

\* The thread of a call that is gone.
StrayClears(s) ==
    /\ s \in strays /\ s.at = "assets"
    /\ ClearShelf(s.content)
    /\ strays' = (strays \ {s}) \cup (IF HasAssets(s.content) THEN {[s EXCEPT !.at = "place"]} ELSE {})
    /\ UNCHANGED <<phase, active, retained, built, packages, cut, lock, call, reportVars, upsets>>

StrayPlaces(s) ==
    /\ s \in strays /\ s.at = "place"
    /\ PlaceShelf(s.content)
    /\ strays' = strays \ {s}
    /\ UNCHANGED <<phase, active, retained, built, packages, lock, call, reportVars, upsets>>

\* Its source may be gone before it is copied.
StrayStores(s) ==
    /\ s \in strays /\ s.at = "package"
    /\ \/ packages' = [packages EXCEPT ![Release(s.content)] = s.content]
       \/ UNCHANGED packages
    /\ strays' = strays \ {s}
    /\ UNCHANGED <<phase, active, retained, built, shelf, cut, lock, call, reportVars, upsets>>

StrayStep == \E s \in strays : StrayClears(s) \/ StrayPlaces(s) \/ StrayStores(s)

StartUp ==
    /\ phase = "down"
    /\ phase' = "setup"
    /\ UNCHANGED <<diskVars, taskVars, reportVars, upsets>>

\* What a runtime keeps in memory is gone; Repairs are persistent.
Forget ==
    /\ phase' = "down"
    /\ lock' = None /\ call' = [k \in Calls |-> Idle]
    /\ available' = [d \in Definitions |-> {}] /\ errors' = {}
    /\ Upset

\* An unload does not wait for installs: their threads go on, and they fail at
\* their next use of the closed storage.
Unload ==
    /\ phase = "up"
    /\ strays' = strays \cup {Stray(k) : k \in {j \in Calls : InThread(j)}}
    /\ issues' = issues \cup
           {<<"install", call[k].dataset>> : k \in {j \in Calls : call[j] # Idle /\ call[j].op = "install"}}
    /\ Forget
    /\ UNCHANGED <<diskVars>>

\* Swaps under way.
Swaps == {call[k].content : k \in {j \in Calls : At(j, "place")}}
             \cup {s.content : s \in {t \in strays : t.at = "place"}}

Crash ==
    /\ phase # "down"
    /\ cut' = cut \cup {Release(c) : c \in Swaps}
    /\ strays' = {}
    /\ Forget
    /\ UNCHANGED <<active, retained, built, packages, shelf, issues>>

Next ==
    \/ StartUp \/ FinishSetUp \/ Unload \/ Crash \/ StrayStep \/ RollBack
    \/ \E d \in Definitions : Refresh(d)
    \/ \E k \in Calls :
         \/ BeginBundled(k) \/ FetchArtifact(k) \/ ReadInventory(k)
         \/ ClearAssets(k) \/ PlaceAssets(k) \/ FailPlace(k) \/ StorePackage(k)
         \/ CollectPackages(k) \/ BuildGeneration(k) \/ ActivateGeneration(k)
         \/ CancelCall(k)
         \/ \E d \in Definitions : BeginInstall(k, d)
         \/ \E d \in Datasets : BeginRemove(k, d)

Spec == Init /\ [][Next]_installVars

-----------------------------------------------------------------------------
(* Properties. *)

\* Whatever runs side by side, an install or a removal changes its own dataset
\* only: the others keep the version that is active at the switch.
OthersKept ==
    [][active'.packages # active.packages
         => \/ active' = retained
            \/ \E d \in Datasets : \A e \in Datasets \ {d} :
                   active'.packages[e] = active.packages[e]]_installVars

\* The packages a rebuild of the active or the retained generation needs are
\* in the cache, so that no install or removal is stuck
\* ("one validated cached package for every other active dataset", ADR-0016:67).
RebuildPossible ==
    \A catalog \in {active, retained}, d \in Datasets :
        LET c == catalog.packages[d] IN c # None => packages[Release(c)] = c

\* Across installs, removals and rollbacks the tombstones of a generation are its
\* inactive identities, and tombstone and history agree on what each has become
\* and since which generation (ADR-0013, "Tombstones and reactivation").
LifecycleTraced ==
    \A catalog \in {active, retained} :
        /\ DOMAIN catalog.tombs = {x \in Known(catalog) : catalog.state[x] # Active}
        /\ \A x \in Known(catalog) : catalog.trail[x].life = catalog.state[x]
        /\ \A x \in DOMAIN catalog.tombs : catalog.tombs[x] = catalog.trail[x]

\* A medium of an installed dataset resolves to its file, unless a swap of that
\* very version is under way or was cut short.
MediaServed ==
    \A x \in Media \cap Known(active) :
        LET c == Installed(active.owner[x]) IN
        c # None => x \in DOMAIN active.assets /\ (Resolves(x) \/ Release(c) \in cut \/ c \in Swaps)

\* Only packages LockLearn has signed are installed or cached, whatever catalogs
\* and downloads deliver ("A compromised discovery catalog cannot authorize
\* unsigned content", ADR-0016:45).
OnlyPublished ==
    /\ \A r \in Releases : packages[r] # None => packages[r] \in Published
    /\ \A d \in Datasets : active.packages[d] # None => active.packages[d] \in Published

=============================================================================
