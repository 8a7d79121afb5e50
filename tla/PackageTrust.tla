------------------------------ MODULE PackageTrust ------------------------------
(***************************************************************************)
(* Which downloaded archive is a dataset package: the checks of            *)
(* datasets/package.py, manifest.py, trust.py and policy.py on bytes that  *)
(* anyone may have written.  A digest stands for the bytes it is of; the   *)
(* digest of dataset.db is the content hash of the package inside.         *)
(***************************************************************************)
EXTENDS ContentMerge, Sequences

CONSTANTS
    Keys,           \* bundled signing keys: id to [status, from, until]
    LicencePolicy,  \* licences.json: id to [commercial, derivatives, official, scopes]
    SourcePolicy,   \* sources.json: id to [licence, scope, commercial]
    MaxEntries      \* ArchiveLimits.max_entries

\* An archive: its entries in order, the manifest it holds and the signature
\* beside it, which is of some manifest by some key.  A manifest's files give a
\* role and a digest to each path; an asset is at the path named as its medium.
IsArchive(a) ==
    /\ \A i \in DOMAIN a.entries : {"name", "folded", "plain", "digest"} = DOMAIN a.entries[i]
    /\ {"dataset", "version", "hash", "key", "builtAt", "files", "licences", "sources"}
           = DOMAIN a.manifest
    /\ {"key", "of"} = DOMAIN a.signature

ASSUME PolicyAssumption ==
    /\ \A k \in DOMAIN Keys : Keys[k].status \in {"active", "deprecated", "revoked"}
    /\ \A s \in DOMAIN SourcePolicy : SourcePolicy[s].commercial \in BOOLEAN
    /\ MaxEntries \in Nat

Members(a) == {a.entries[i].name : i \in DOMAIN a.entries}
Bytes(a, name) == (CHOOSE i \in DOMAIN a.entries : a.entries[i].name = name)
Digest(a, name) == a.entries[Bytes(a, name)].digest
Outside == {"manifest.json", "SIGNATURE.ed25519"}

-----------------------------------------------------------------------------
\* _inspect_archive: every name once, also without regard to case.
WellFormed(a) ==
    /\ Len(a.entries) <= MaxEntries
    /\ \A i, j \in DOMAIN a.entries : i # j => a.entries[i].folded # a.entries[j].folded
    /\ Outside \cup {"dataset.db"} \subseteq Members(a)

\* Paths are normal, in a known place, and of regular files.
PlainMembers(a) == \A i \in DOMAIN a.entries : a.entries[i].plain

Files(m, role) == {f \in DOMAIN m.files : m.files[f].role = role}

\* parse_manifest: one database, a licence file for every licence and no other.
ManifestOk(m) ==
    /\ m.sources # {} /\ m.licences # {}
    /\ Files(m, "database") = {"dataset.db"}
    /\ {l.path : l \in m.licences} = Files(m, "license")
    /\ \A l, n \in m.licences : (l.id = n.id) <=> (l.path = n.path)

\* TrustStore.verify.  Packages that exist may be signed with a deprecated key.
Trusted(a) ==
    LET m == a.manifest IN
    /\ m.key \in DOMAIN Keys
    /\ a.signature = [key |-> m.key, of |-> m]
    /\ Keys[m.key].status # "revoked"
    /\ Keys[m.key].from <= m.builtAt /\ m.builtAt < Keys[m.key].until

\* _validate_membership: what is signed is there, and nothing else.
SignedMembership(a) == Members(a) \ Outside = DOMAIN a.manifest.files

\* Mutant of SignedPayloads: digests are not compared.
UncheckedPayloads(a) == Members(a) \ Outside \subseteq DOMAIN a.manifest.files

\* _verify_payloads
SignedPayloads(a) == \A f \in DOMAIN a.manifest.files : Digest(a, f) = a.manifest.files[f].digest

\* OfficialRegistryPolicy.validate
Approved(l) ==
    /\ l \in DOMAIN LicencePolicy
    /\ LicencePolicy[l].commercial /\ LicencePolicy[l].derivatives /\ LicencePolicy[l].official

SourceAllowed(s) ==
    /\ s \in DOMAIN SourcePolicy /\ SourcePolicy[s].commercial
    /\ SourcePolicy[s].licence \in DOMAIN LicencePolicy
    /\ SourcePolicy[s].scope \in LicencePolicy[SourcePolicy[s].licence].scopes

PolicyAccepts(m) ==
    LET declared == {l.id : l \in m.licences} IN
    /\ \A l \in declared : Approved(l)
    /\ \A s \in m.sources : SourceAllowed(s) /\ SourcePolicy[s].licence \in declared

\* _verify_sqlite: the assets its rows describe are the assets it carries.
DatabaseMatches(a) ==
    LET c == Digest(a, "dataset.db") IN
    /\ c \in Contents
    /\ Package[c].assets = [f \in Files(a.manifest, "asset") |-> a.manifest.files[f].digest]

\* validate_dataset_package, in its order; each check reads what the ones before
\* it have found well formed.
Acceptable(a) ==
    /\ WellFormed(a) /\ PlainMembers(a)
    /\ ManifestOk(a.manifest)
    /\ Trusted(a)
    /\ SignedMembership(a)
    /\ SignedPayloads(a)
    /\ PolicyAccepts(a.manifest)
    /\ DatabaseMatches(a)

\* _validate_manifest_contract: a package is what its release says it is.
Contracted(a, d, v) == a.manifest.dataset = d /\ a.manifest.version = v

\* _validate_package_matches_manifest
DescribesDatabase(a) ==
    LET c == Digest(a, "dataset.db") IN
    /\ a.manifest.hash = c
    /\ Release(c) = <<a.manifest.dataset, a.manifest.version>>
=============================================================================
