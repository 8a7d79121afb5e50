------------------------------ MODULE ContentMerge ------------------------------
(***************************************************************************)
(* What one content generation is built from (storage/content.py 883-1316): *)
(* a copy of the active generation, whose identity rows are never deleted, *)
(* with the packages of every installed dataset merged over it, the        *)
(* lifecycle of the identities and its history brought up to date, and the *)
(* result validated.                                                       *)
(*                                                                         *)
(* An identity is a learning item, a facet or a card definition; the three *)
(* tables are treated alike.  A medium is an image or audio facet or       *)
(* content block, whose row names an asset of the same dataset.            *)
(***************************************************************************)
EXTENDS Naturals, FiniteSets, Functions

CONSTANTS
    Datasets,
    Identities,
    Media,      \* identities that name an asset
    Contents,   \* canonical content hashes
    Package,    \* the validated package database with that hash
    None

\* A lifecycle state: active, removed, or superseded by another identity.
Lifecycle == [status : {"active", "removed"}, by : {None}]
                 \cup [status : {"superseded"}, by : Identities]
Active == [status |-> "active", by |-> None]
Removed == [status |-> "removed", by |-> None]

\* rows: the identities of the package (with a tombstone for each that is not
\* active); assets: the bytes of the asset each medium names, without which
\* validate_package refuses it.
IsPackage(p) ==
    /\ p.dataset \in Datasets /\ p.version \in Nat
    /\ DOMAIN p.rows \subseteq Identities
    /\ \A x \in DOMAIN p.rows : p.rows[x] \in Lifecycle /\ p.rows[x].by \in DOMAIN p.rows \cup {None}
    /\ DOMAIN p.assets = Media \cap DOMAIN p.rows
    /\ \A x \in DOMAIN p.assets : p.assets[x] \in Nat

ASSUME PackageAssumption ==
    /\ Media \subseteq Identities
    /\ DOMAIN Package = Contents
    /\ \A c \in Contents : IsPackage(Package[c])
    /\ None \notin Contents \cup Identities

PackageOf(c) == Package[c]
Release(c) == <<Package[c].dataset, Package[c].version>>

\* catalog: packages is dataset_packages; versions the rows of dataset_versions,
\* which outlive them; owner, state and tombs the identity rows and their
\* tombstones; trail the latest row of content_lifecycle_history of each.
EmptyCatalog ==
    [gen |-> 0, parent |-> 0, packages |-> [d \in Datasets |-> None], versions |-> {},
     owner |-> <<>>, state |-> <<>>, assets |-> <<>>, tombs |-> <<>>, trail |-> <<>>]

Known(catalog) == DOMAIN catalog.owner

-----------------------------------------------------------------------------
\* _validate_stable_conflicts, for a package and what is merged before it.
Conflicts(catalog, c) ==
    LET p == PackageOf(c) IN
    \/ \E x \in Known(catalog) \cap DOMAIN p.rows : catalog.owner[x] # p.dataset
    \/ \E x \in DOMAIN catalog.assets \cap DOMAIN p.assets : catalog.assets[x] # p.assets[x]
    \/ \E other \in catalog.versions \ {c} : Release(other) = Release(c)

\* Two packages of one build meet only in a conflict.
Collide(cs) ==
    \E c, e \in cs : c # e /\ DOMAIN PackageOf(c).rows \cap DOMAIN PackageOf(e).rows # {}

\* The package of cs that has identity x.
Source(cs, x) == CHOOSE c \in cs : x \in DOMAIN PackageOf(c).rows
Provided(cs) == UNION {DOMAIN PackageOf(c).rows : c \in cs}

\* _prepare_previous_lifecycle: provisionally removed.
Marked(life) == IF life = Active THEN Removed ELSE life

\* _merge_attached_package, for every package: their rows win.
MergedState(catalog, cs) ==
    [x \in Known(catalog) \cup Provided(cs) |->
        IF x \in Provided(cs) THEN PackageOf(Source(cs, x)).rows[x] ELSE Marked(catalog.state[x])]

MergedOwner(catalog, cs) ==
    [x \in Known(catalog) \cup Provided(cs) |->
        IF x \in Provided(cs) THEN PackageOf(Source(cs, x)).dataset ELSE catalog.owner[x]]

\* The assets of a merged dataset are replaced, those of others stay.
MergedAssets(catalog, cs) ==
    LET merged == {PackageOf(c).dataset : c \in cs}
        kept == {x \in DOMAIN catalog.assets : catalog.owner[x] \notin merged}
        new == UNION {DOMAIN PackageOf(c).assets : c \in cs}
    IN  [x \in kept \cup new |->
            IF x \in new THEN PackageOf(Source(cs, x)).assets[x] ELSE catalog.assets[x]]

\* Mutant of Since: a tombstone is dated anew by each build.
SinceBuild(catalog, x, life, gen) == gen

\* status_since_generation_id of an unchanged tombstone stays.
Since(catalog, x, life, gen) ==
    IF x \in DOMAIN catalog.tombs /\ catalog.tombs[x].life = life
    THEN catalog.tombs[x].since ELSE gen

\* _synchronize_lifecycle: tombstones for what is not active, a history row for
\* what is new or differs from its state in the previous generation.
Tombstones(catalog, state, gen) ==
    [x \in {y \in DOMAIN state : state[y] # Active} |->
        [life |-> state[x], since |-> Since(catalog, x, state[x], gen)]]

Trail(catalog, state, gen) ==
    [x \in DOMAIN state |->
        IF x \in Known(catalog) /\ catalog.state[x] = state[x]
        THEN catalog.trail[x] ELSE [life |-> state[x], since |-> gen]]

-----------------------------------------------------------------------------
\* Mutant of MediaHaveAssets: not looked at.
MediaUnchecked(catalog) == Media \cap Known(catalog) \subseteq Media

\* _validate_assets: every medium, active or not, has an asset of its dataset.
MediaHaveAssets(catalog) == Media \cap Known(catalog) \subseteq DOMAIN catalog.assets

\* _validate_tombstones: of the identities that are not active, all of them, as
\* their rows say.
TombstonesMatch(catalog) ==
    /\ \A x \in DOMAIN catalog.tombs : x \in Known(catalog) /\ catalog.tombs[x].life = catalog.state[x]
    /\ \A x \in Known(catalog) : catalog.state[x] # Active => x \in DOMAIN catalog.tombs

\* validate_generation: references too are to rows there are.
Valid(catalog) ==
    /\ \A x \in Known(catalog) : catalog.state[x].by \in Known(catalog) \cup {None}
    /\ MediaHaveAssets(catalog)
    /\ TombstonesMatch(catalog)

\* ContentGenerationBuilder.build: the candidate, unless a conflict or the
\* validation refuses it.
Candidate(catalog, cs, gen) ==
    LET state == MergedState(catalog, cs) IN
    [gen |-> gen, parent |-> catalog.gen,
     packages |-> [d \in Datasets |->
         IF \E c \in cs : PackageOf(c).dataset = d
         THEN CHOOSE c \in cs : PackageOf(c).dataset = d ELSE None],
     versions |-> catalog.versions \cup cs,
     owner |-> MergedOwner(catalog, cs),
     state |-> state,
     assets |-> MergedAssets(catalog, cs),
     tombs |-> Tombstones(catalog, state, gen),
     trail |-> Trail(catalog, state, gen)]

Builds(catalog, cs, gen) ==
    /\ ~Collide(cs)
    /\ \A c \in cs : ~Conflicts(catalog, c)
    /\ Valid(Candidate(catalog, cs, gen))
=============================================================================
