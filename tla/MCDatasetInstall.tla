---------------------------- MODULE MCDatasetInstall ----------------------------
(* Two datasets for TLC.  d1 ships version 1; version 2 supersedes b by a, and   *)
(* version 3 drops b and the image p.  Version 4 is forged.                    *)
EXTENDS DatasetInstall, TLC

SupersededByA == [status |-> "superseded", by |-> "a"]
Content(d, v, rows, assets) == [dataset |-> d, version |-> v, rows |-> rows, assets |-> assets]

MCPackage == [c \in {"c1", "c2", "c3", "e1", "forged"} |->
    CASE c = "c1" -> Content("d1", 1, "a" :> Active @@ "b" :> Active @@ "p" :> Active, "p" :> 1)
      [] c = "c2" -> Content("d1", 2, "a" :> Active @@ "b" :> SupersededByA @@ "p" :> Active, "p" :> 1)
      [] c = "c3" -> Content("d1", 3, "a" :> Active, <<>>)
      [] c = "e1" -> Content("d2", 1, "x" :> Active, <<>>)
      [] c = "forged" -> Content("d1", 4, "a" :> Active, <<>>)]

MCKeys == "k" :> [status |-> "deprecated", from |-> 0, until |-> 2]
              @@ "old" :> [status |-> "revoked", from |-> 0, until |-> 2]
MCLicences == "by-sa" :> [commercial |-> TRUE, derivatives |-> TRUE, official |-> TRUE, scopes |-> {"text"}]
                  @@ "by-nc" :> [commercial |-> FALSE, derivatives |-> TRUE, official |-> FALSE, scopes |-> {"text"}]
MCSources == "jmdict" :> [licence |-> "by-sa", scope |-> "text", commercial |-> TRUE]

(* The archive of content c, and archives LockLearn did not publish: other bytes  *)
(* under a signed manifest, another manifest under a signature, a revoked key, a  *)
(* file that is not signed, and one licence that forbids commercial use.          *)
Entry(name, digest) == [name |-> name, folded |-> name, plain |-> TRUE, digest |-> digest]
Manifest(c, licence) ==
    LET p == MCPackage[c] IN
    [dataset |-> p.dataset, version |-> p.version, hash |-> c, key |-> "k", builtAt |-> 1,
     files |-> [f \in {"dataset.db", "LICENSE"} \cup DOMAIN p.assets |->
         CASE f = "dataset.db" -> [role |-> "database", digest |-> c]
           [] f = "LICENSE" -> [role |-> "license", digest |-> licence]
           [] OTHER -> [role |-> "asset", digest |-> p.assets[f]]],
     licences |-> {[id |-> licence, path |-> "LICENSE"]}, sources |-> {"jmdict"}]
Archive(c, m) ==
    [entries |-> <<Entry("manifest.json", "m"), Entry("SIGNATURE.ed25519", "s"),
                   Entry("LICENSE", "by-sa"), Entry("dataset.db", c)>>
                 \o (IF DOMAIN MCPackage[c].assets = {} THEN <<>> ELSE <<Entry("p", MCPackage[c].assets["p"])>>),
     manifest |-> m, signature |-> [key |-> m.key, of |-> m]]
Genuine(c) == Archive(c, Manifest(c, "by-sa"))
Foreign ==
    LET m == Manifest("forged", "by-sa")
        swapped == [m EXCEPT !.files["dataset.db"].digest = "c2"]
    IN  {Archive("forged", swapped),
         [Archive("forged", m) EXCEPT !.signature.of = Manifest("c2", "by-sa")],
         Archive("forged", [m EXCEPT !.key = "old"]),
         [Archive("forged", m) EXCEPT !.entries = Append(@, Entry("x", "x"))],
         [Archive("forged", Manifest("forged", "by-nc")) EXCEPT !.entries[3].digest = "by-nc"]}
MCArtifacts == {Genuine(c) : c \in {"c1", "c2", "c3", "e1"}} \cup Foreign

Row(d, v) == [dataset |-> d, version |-> v, host |-> TRUE]
MCCatalogs == {{Row("d1", v) : v \in 1..4}, {Row("d2", 1)}}
Symmetry == Permutations(Calls)
(* Errors and Repairs are written and never read: states that differ in nothing   *)
(* else have the same steps, and no property here is about them.                  *)
View == <<phase, diskVars, taskVars, available, upsets>>
=============================================================================
