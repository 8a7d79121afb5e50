--------------------------- MODULE StateStore_proofs ---------------------------
(***************************************************************************)
(* Proofs about state.db and the profiles in it, for every set of rows,    *)
(* users, profiles and requests, and any number of crashes, errors and     *)
(* unloads.                                                                *)
(***************************************************************************)
EXTENDS StateStore, FiniteSetTheorems, TLAPS

-----------------------------------------------------------------------------
(* The file.  What the invariant adds to FileTypeOK: where a step of the    *)
(* migration stands, which of the files is the one it started from.         *)

StepsTyped ==
    /\ phase # "opening" => step = "look"
    /\ phase = "opening" /\ step # "look" => file # NoFile
    /\ phase \in {"ready", "published", "loaded", "closing"} => file # NoFile
    /\ step \in {"copy", "verify", "replace"} => candidate # NoFile
    /\ origin # NoFile => origin.version \in Versions /\ origin.tables

Supported == origin # NoFile /\ origin.version <= DB_SCHEMA_VERSION

\* Not upgraded yet: the file is the one found.
Before ==
    /\ file = origin /\ origin.version = 1
    /\ phase \in {"down", "opening"} /\ step # "connect"
    /\ step \in {"clear", "build", "copy", "verify", "replace"} => backup = origin
    /\ step = "copy" => candidate # NoFile /\ candidate.version = 0
    /\ step \in {"verify", "replace"} => candidate = File(DB_SCHEMA_VERSION, TRUE, origin.rows)

After ==
    /\ file.version = DB_SCHEMA_VERSION /\ step \in {"look", "connect"}
    /\ origin.version = 1 => origin.rows \subseteq file.rows /\ backup = origin

Migration ==
    Supported => /\ file # NoFile /\ file.tables
                 /\ step \notin {"script", "stamp"}
                 /\ Before \/ After
                 /\ step = "build" => candidate = NoFile

FileInv == FileTypeOK /\ StepsTyped /\ Migration

LEMMA NoFileOutside == NoFile \notin FileSet
<1> DEFINE V == {0, DB_SCHEMA_VERSION} \cup Versions
<1>a. V \subseteq Nat BY StateFileAssumption DEF StateFileAssumption, DB_SCHEMA_VERSION
<1>b. FileSet = [version : V, tables : BOOLEAN, rows : SUBSET LegacyRows] BY DEF FileSet
<1> HIDE DEF V
<1>1. FileSet \subseteq [version : Nat, tables : BOOLEAN, rows : SUBSET LegacyRows]
    BY <1>a, <1>b
<1> QED BY <1>1, StateFileAssumption DEF StateFileAssumption

LEMMA FileMakes ==
    ASSUME NEW v \in {0, DB_SCHEMA_VERSION}, NEW t \in BOOLEAN, NEW rows \in SUBSET LegacyRows
    PROVE  /\ File(v, t, rows) \in FileSet /\ File(v, t, rows) # NoFile
           /\ File(v, t, rows).version = v /\ File(v, t, rows).tables = t /\ File(v, t, rows).rows = rows
<1>1. File(v, t, rows) \in FileSet BY DEF File, FileSet
<1> QED BY <1>1, NoFileOutside DEF File

LEMMA FileInitInv == FileInit => FileInv
<1> SUFFICES ASSUME FileInit PROVE FileInv OBVIOUS
<1>1. file = NoFile \/ (file \in FileSet /\ file.version \in Versions /\ file.tables)
    <2>1. CASE file = NoFile BY <2>1
    <2>2. CASE file # NoFile
        <3>1. PICK v \in Versions, rows \in SUBSET LegacyRows : file = File(v, TRUE, rows)
            BY <2>2 DEF FileInit
        <3> QED BY <3>1 DEF File, FileSet
    <2> QED BY <2>1, <2>2
<1>2. FileTypeOK BY <1>1, StateFileAssumption DEF FileInit, FileTypeOK, StateFileAssumption
<1>3. StepsTyped BY <1>1 DEF FileInit, StepsTyped
<1>4. Migration
    <2> SUFFICES ASSUME Supported PROVE Migration BY DEF Migration
    <2>1. file = origin /\ file # NoFile /\ step = "look" /\ phase = "down" BY DEF FileInit, Supported
    <2>2. origin.version \in Nat \ {0} /\ origin.version <= 2
        BY <1>1, <2>1, StateFileAssumption DEF Supported, DB_SCHEMA_VERSION, StateFileAssumption
    <2> QED BY <1>1, <2>1, <2>2 DEF Migration, Before, After, DB_SCHEMA_VERSION
<1> QED BY <1>2, <1>3, <1>4 DEF FileInv

LEMMA FileNextInv == FileInv /\ [FileNext]_fileVars => FileInv'
<1> SUFFICES ASSUME FileInv, [FileNext]_fileVars PROVE FileInv' OBVIOUS
<1> USE DEF FileInv
<1>1. {file, backup, candidate, origin} \subseteq FileSet \cup {NoFile} /\ MaxFaults \in Nat
    BY StateFileAssumption DEF FileTypeOK, StateFileAssumption
<1>2. CASE UNCHANGED fileVars
    BY <1>2 DEF fileVars, files, bounds, FileTypeOK, StepsTyped, Migration, Supported, Before, After
<1>3. CASE SetUpEntry
    BY <1>3 DEF SetUpEntry, files, bounds, FileTypeOK, StepsTyped, Migration, Supported, Before, After
<1>4. CASE CreateFile
    <2>1. file' = File(0, FALSE, {}) /\ file' \in FileSet BY <1>4, FileMakes DEF CreateFile
    <2>2. FileTypeOK' BY <1>4, <2>1 DEF CreateFile, Opening, Then, bounds, FileTypeOK
    <2>3. StepsTyped' BY <1>4, <2>1, NoFileOutside DEF CreateFile, Opening, Then, bounds, StepsTyped
    <2>4. ~Supported' BY <1>4 DEF CreateFile, Opening, Then, bounds, Migration, Supported
    <2> QED BY <2>2, <2>3, <2>4 DEF Migration
<1>5. CASE CreateTables
    <2>1. file \in FileSet BY <1>1, <1>5 DEF CreateTables, Opening, StepsTyped
    <2>2. file' \in FileSet BY <1>5, <2>1 DEF CreateTables, FileSet
    <2>3. FileTypeOK' BY <1>5, <2>2 DEF CreateTables, Opening, Then, bounds, FileTypeOK
    <2>4. StepsTyped' BY <1>5, <2>2, NoFileOutside DEF CreateTables, Opening, Then, bounds, StepsTyped
    <2>5. ~Supported' BY <1>5 DEF CreateTables, Opening, Then, bounds, Migration, Supported
    <2> QED BY <2>3, <2>4, <2>5 DEF Migration
<1>6. CASE StampVersion
    <2>1. file \in FileSet BY <1>1, <1>6 DEF StampVersion, Opening, StepsTyped
    <2>2. file' \in FileSet BY <1>6, <2>1 DEF StampVersion, FileSet
    <2>3. FileTypeOK' BY <1>6, <2>2 DEF StampVersion, Opening, Then, bounds, FileTypeOK
    <2>4. StepsTyped' BY <1>6, <2>2, NoFileOutside DEF StampVersion, Opening, Then, bounds, StepsTyped
    <2>5. ~Supported' BY <1>6 DEF StampVersion, Opening, Then, bounds, Migration, Supported
    <2> QED BY <2>3, <2>4, <2>5 DEF Migration
<1>7. CASE RefuseFile \/ FaultInOpen \/ Crash
    <2>1. /\ phase' = "down" /\ step' = "look" /\ faults' \in 0..MaxFaults
          /\ UNCHANGED <<file, backup, candidate, origin>>
        BY <1>1, <1>7 DEF RefuseFile, GiveUp, FaultInOpen, Crash, files, bounds, FileTypeOK
    <2>2. FileTypeOK' BY <2>1 DEF FileTypeOK
    <2>3. StepsTyped' BY <2>1 DEF StepsTyped
    <2>4. Migration' BY <2>1 DEF Migration, Supported, Before, After
    <2> QED BY <2>2, <2>3, <2>4
<1>8. CASE KeepFile
    <2>1. /\ phase = "opening" /\ phase' = "opening" /\ step' = "connect"
          /\ file # NoFile /\ file.version = DB_SCHEMA_VERSION
          /\ UNCHANGED <<file, backup, candidate, origin, faults>>
        BY <1>8 DEF KeepFile, Opening, Then, files, bounds
    <2>2. FileTypeOK' BY <2>1 DEF FileTypeOK
    <2>3. StepsTyped' BY <2>1 DEF StepsTyped
    <2>4. Supported => ~Before
        <3>1. Before => file = origin /\ origin.version = 1 BY Zenon DEF Before
        <3>2. file.version # 1 BY <2>1 DEF DB_SCHEMA_VERSION
        <3> QED BY <3>1, <3>2
    <2>5. Supported => file # NoFile /\ file.tables /\ After BY <2>4 DEF Migration
    <2>6. Migration' BY <2>1, <2>5 DEF Migration, Supported, After
    <2> QED BY <2>2, <2>3, <2>6
<1>9. CASE DropBackup
    <2>1. /\ phase = "opening" /\ phase' = "opening" /\ step = "look" /\ step' = "backup"
          /\ file # NoFile /\ file.version < DB_SCHEMA_VERSION /\ backup' = NoFile
          /\ UNCHANGED <<file, candidate, origin, faults>>
        BY <1>9 DEF DropBackup, Opening, Then, bounds
    <2>2. FileTypeOK' BY <2>1 DEF FileTypeOK
    <2>3. StepsTyped' BY <2>1 DEF StepsTyped
    <2>4. Supported => Before BY <2>1 DEF Migration, After, DB_SCHEMA_VERSION
    <2>5. Migration' BY <2>1, <2>4 DEF Migration, Supported, Before
    <2> QED BY <2>2, <2>3, <2>5
<1>10. CASE TakeBackup
    <2>1. /\ phase = "opening" /\ phase' = "opening" /\ step = "backup" /\ step' = "clear"
          /\ backup' = file /\ UNCHANGED <<file, candidate, origin, faults>>
        BY <1>10 DEF TakeBackup, Opening, Then, bounds
    <2>2. FileTypeOK' BY <2>1 DEF FileTypeOK
    <2>3. StepsTyped' BY <2>1 DEF StepsTyped
    <2>4. Supported => Before BY <2>1 DEF Migration, After
    <2>5. Migration' BY <2>1, <2>4 DEF Migration, Supported, Before
    <2> QED BY <2>2, <2>3, <2>5
<1>11. CASE ClearCandidate
    <2>1. /\ phase = "opening" /\ phase' = "opening" /\ step = "clear" /\ step' = "build"
          /\ candidate' = NoFile /\ UNCHANGED <<file, backup, origin, faults>>
        BY <1>11 DEF ClearCandidate, Opening, Then, bounds
    <2>2. FileTypeOK' BY <2>1 DEF FileTypeOK
    <2>3. StepsTyped' BY <2>1 DEF StepsTyped
    <2>4. Supported => Before BY <2>1 DEF Migration, After
    <2>5. Migration' BY <2>1, <2>4 DEF Migration, Supported, Before
    <2> QED BY <2>2, <2>3, <2>5
<1>12. CASE BuildCandidate
    <2>1. /\ phase = "opening" /\ phase' = "opening" /\ step = "build" /\ step' = "copy"
          /\ candidate' = (IF candidate = NoFile THEN File(0, TRUE, {}) ELSE candidate)
          /\ UNCHANGED <<file, backup, origin, faults>>
        BY <1>12 DEF BuildCandidate, Opening, Then, bounds
    <2>2. candidate' \in FileSet /\ candidate' # NoFile
          /\ (candidate = NoFile => candidate'.version = 0)
        BY <1>1, <2>1, FileMakes, NoFileOutside
    <2>3. FileTypeOK' BY <2>1, <2>2 DEF FileTypeOK
    <2>4. StepsTyped' BY <2>1, <2>2 DEF StepsTyped
    <2>5. Supported => Before /\ candidate = NoFile BY <2>1 DEF Migration, After
    <2>6. Migration' BY <2>1, <2>2, <2>5 DEF Migration, Supported, Before
    <2> QED BY <2>3, <2>4, <2>6
<1>13. CASE CopyRows
    <2>1. phase = "opening" /\ step = "copy" /\ file \in FileSet /\ file.rows \in SUBSET LegacyRows
        BY <1>1, <1>13 DEF CopyRows, Opening, StepsTyped, FileSet
    <2>2. CASE candidate.version = 0
        <3>1. /\ phase' = "opening" /\ step' = "verify"
              /\ candidate' = File(DB_SCHEMA_VERSION, TRUE, file.rows)
              /\ UNCHANGED <<file, backup, origin, faults>>
            BY <1>13, <2>1, <2>2 DEF CopyRows, Opening, Then, bounds
        <3>2. candidate' \in FileSet BY <2>1, <3>1, FileMakes
        <3>3. FileTypeOK' BY <3>1, <3>2 DEF FileTypeOK
        <3>4. StepsTyped' BY <2>1, <3>1, <3>2, NoFileOutside DEF StepsTyped
        <3>5. Supported => Before BY <2>1 DEF Migration, After
        <3>6. Migration' BY <2>1, <3>1, <3>5 DEF Migration, Supported, Before
        <3> QED BY <3>3, <3>4, <3>6
    <2>3. CASE candidate.version # 0
        <3>1. phase' = "down" /\ step' = "look" /\ UNCHANGED <<file, backup, candidate, origin, faults>>
            BY <1>13, <2>3 DEF CopyRows, GiveUp, files, bounds
        <3>2. FileTypeOK' BY <3>1 DEF FileTypeOK
        <3>3. StepsTyped' BY <3>1 DEF StepsTyped
        <3>4. Migration' BY <3>1 DEF Migration, Supported, Before, After
        <3> QED BY <3>2, <3>3, <3>4
    <2> QED BY <2>2, <2>3
<1>14. CASE VerifyCandidate
    <2>1. /\ phase = "opening" /\ phase' = "opening" /\ step = "verify" /\ step' = "replace"
          /\ UNCHANGED <<file, backup, candidate, origin, faults>>
        BY <1>14 DEF VerifyCandidate, Opening, Then, files, bounds
    <2>2. FileTypeOK' BY <2>1 DEF FileTypeOK
    <2>3. StepsTyped' BY <2>1 DEF StepsTyped
    <2>4. Supported => Before BY <2>1 DEF Migration, After
    <2>5. Migration' BY <2>1, <2>4 DEF Migration, Supported, Before
    <2> QED BY <2>2, <2>3, <2>5
<1>15. CASE ReplaceFile
    <2>1. /\ phase = "opening" /\ phase' = "opening" /\ step = "replace" /\ step' = "connect"
          /\ file' = candidate /\ candidate' = NoFile /\ UNCHANGED <<backup, origin, faults>>
        BY <1>15 DEF ReplaceFile, Opening, Then, bounds
    <2>2. FileTypeOK' BY <2>1 DEF FileTypeOK
    <2>3. StepsTyped' BY <2>1 DEF StepsTyped
    <2>4. Supported => Before BY <2>1 DEF Migration, After
    <2>5. Supported => origin.rows \in SUBSET LegacyRows BY <1>1 DEF Supported, FileSet
    <2> DEFINE new == File(DB_SCHEMA_VERSION, TRUE, origin.rows)
    <2>6. Supported => /\ file' = new /\ backup = origin
                       /\ new # NoFile /\ new.tables /\ new.version = DB_SCHEMA_VERSION
                       /\ new.rows = origin.rows
        <3> SUFFICES ASSUME Supported PROVE /\ file' = new /\ backup = origin
                       /\ new # NoFile /\ new.tables /\ new.version = DB_SCHEMA_VERSION
                       /\ new.rows = origin.rows
            OBVIOUS
        <3>1. file' = new /\ backup = origin BY <2>1, <2>4 DEF Before
        <3>2. DB_SCHEMA_VERSION \in {0, DB_SCHEMA_VERSION} /\ TRUE \in BOOLEAN OBVIOUS
        <3> QED BY <2>5, <3>1, <3>2, FileMakes
    <2> HIDE DEF new
    <2>7. Migration' BY <2>1, <2>6 DEF Migration, Supported, After
    <2> QED BY <2>2, <2>3, <2>7
<1>16. CASE ConnectWriter \/ PublishRuntime \/ FinishSetUp \/ WithdrawRuntime \/ CloseStorage
    <2>1. /\ phase # "down" /\ phase' \in {"down", "ready", "published", "loaded", "closing"}
          /\ step \in {"connect", "look"} /\ step' = "look"
          /\ phase = "opening" => step = "connect"
          /\ UNCHANGED <<file, backup, candidate, origin, faults>>
        BY <1>16 DEF ConnectWriter, PublishRuntime, FinishSetUp, WithdrawRuntime, CloseStorage,
                     Opening, files, bounds, FileTypeOK, StepsTyped
    <2>2. FileTypeOK' BY <2>1 DEF FileTypeOK
    <2>3. file # NoFile BY <2>1 DEF StepsTyped, FileTypeOK
    <2>4. StepsTyped' BY <2>1, <2>3 DEF StepsTyped
    <2>5. Supported => After BY <2>1 DEF Migration, Before
    <2>6. Migration' BY <2>1, <2>5 DEF Migration, Supported, After
    <2> QED BY <2>2, <2>4, <2>6
<1>17. CASE CommitRows
    <2>1. PICK row \in LegacyRows \ file.rows : file' = [file EXCEPT !.rows = @ \cup {row}]
        BY <1>17 DEF CommitRows
    <2>2. /\ phase \in {"published", "loaded", "closing"} /\ phase' = phase /\ step' = step
          /\ UNCHANGED <<backup, candidate, origin, faults>>
        BY <1>17 DEF CommitRows, bounds
    <2>3. file \in FileSet BY <1>1, <2>2 DEF StepsTyped
    <2>4. file' \in FileSet BY <2>1, <2>3 DEF FileSet
    <2>5. file'.version = file.version /\ file'.tables = file.tables /\ file.rows \subseteq file'.rows
        BY <2>1, <2>3 DEF FileSet
    <2>6. FileTypeOK' BY <2>2, <2>4 DEF FileTypeOK
    <2>7. StepsTyped' BY <2>2, <2>4, NoFileOutside DEF StepsTyped
    <2>8. Supported => After BY <2>2 DEF Migration, Before
    <2>9. Migration' BY <2>2, <2>4, <2>5, <2>8, NoFileOutside DEF Migration, Supported, After
    <2> QED BY <2>6, <2>7, <2>9
<1> QED
    BY <1>2, <1>3, <1>4, <1>5, <1>6, <1>7, <1>8, <1>9, <1>10, <1>11, <1>12, <1>13, <1>14, <1>15,
       <1>16, <1>17
    DEF FileNext, OpenStep

\* The steps of the composition are steps of its two parts.
LEMMA StoreSteps ==
    [StoreNext]_storeVars => [FileNext]_fileVars /\ [Next]_profileVars
<1> SUFFICES ASSUME [StoreNext]_storeVars PROVE [FileNext]_fileVars /\ [Next]_profileVars OBVIOUS
<1>1. CASE UNCHANGED storeVars BY <1>1 DEF storeVars
<1>2. CASE StartRequest BY <1>2 DEF StartRequest, Next
<1>3. CASE RunRequest BY <1>3 DEF RunRequest, Next
<1>4. CASE StopStorage BY <1>4 DEF StopStorage, Next, FileNext
<1>5. CASE ManageEntry BY <1>5 DEF ManageEntry, FileNext
<1> QED BY <1>1, <1>2, <1>3, <1>4, <1>5 DEF StoreNext

LEMMA FileInvAlways == StoreSpec => []FileInv
<1>1. StoreInit => FileInv BY FileInitInv DEF StoreInit
<1>2. FileInv /\ [StoreNext]_storeVars => FileInv' BY FileNextInv, StoreSteps
<1> QED BY <1>1, <1>2, PTL DEF StoreSpec

LEMMA FileInvUpgrade == FileInv => UpgradeAtomic
<1> SUFFICES ASSUME FileInv, origin # NoFile, origin.version = 1
             PROVE  \/ file = origin
                    \/ /\ file # NoFile /\ file.version = DB_SCHEMA_VERSION
                       /\ origin.rows \subseteq file.rows
                       /\ backup = origin
    BY DEF UpgradeAtomic
<1>1. Supported BY DEF Supported, DB_SCHEMA_VERSION
<1> QED BY <1>1 DEF FileInv, Migration, Before, After

\* The migration of state.db is all or nothing and keeps a backup
\* (_initialize_state_database, _migrate_state_database).
THEOREM MigrationAtomic == StoreSpec => []UpgradeAtomic
BY FileInvAlways, FileInvUpgrade, PTL

LEMMA OpenStep1 ==
    FileInv /\ [FileNext]_fileVars =>
        [origin # NoFile /\ origin.version <= DB_SCHEMA_VERSION /\ phase = "opening" /\ phase' = "down"
           => faults' # faults]_fileVars
<1> SUFFICES ASSUME FileInv, FileNext, Supported, phase = "opening", phase' = "down", faults' = faults
             PROVE  FALSE
    BY DEF Supported
<1>1. file # NoFile /\ file.tables /\ (Before \/ After) BY DEF FileInv, Migration
<1>2. file.version \in {1, 2} BY <1>1 DEF Before, After, DB_SCHEMA_VERSION
<1>3. CASE RefuseFile BY <1>1, <1>2, <1>3 DEF RefuseFile, Unreadable, DB_SCHEMA_VERSION
<1>4. CASE CopyRows
    <2>1. step = "copy" /\ candidate.version # 0
        BY <1>4 DEF CopyRows, Opening, Then
    <2> QED BY <1>1, <2>1 DEF Before, After
<1>5. CASE FaultInOpen \/ Crash
    <2>1. faults \in Nat BY StateFileAssumption DEF FileInv, FileTypeOK, StateFileAssumption
    <2> QED BY <1>5, <2>1 DEF FaultInOpen, Crash
<1>6. CASE CreateFile \/ CreateTables \/ StampVersion \/ KeepFile \/ DropBackup \/ TakeBackup
           \/ ClearCandidate \/ BuildCandidate \/ VerifyCandidate \/ ReplaceFile
    BY <1>6 DEF CreateFile, CreateTables, StampVersion, KeepFile, DropBackup, TakeBackup,
                ClearCandidate, BuildCandidate, VerifyCandidate, ReplaceFile, Opening, Then
<1>7. CASE SetUpEntry \/ ConnectWriter \/ PublishRuntime \/ FinishSetUp \/ WithdrawRuntime
           \/ CloseStorage \/ CommitRows
    BY <1>7 DEF SetUpEntry, ConnectWriter, PublishRuntime, FinishSetUp, WithdrawRuntime,
                CloseStorage, CommitRows
<1> QED BY <1>3, <1>4, <1>5, <1>6, <1>7 DEF FileNext, OpenStep

\* Only an error or a crash of that very setup keeps a supported file from
\* opening: what an earlier one left behind does not.
THEOREM RetriesOpen == StoreSpec => LegacyOpens
<1>1. FileInv /\ [StoreNext]_storeVars =>
        [origin # NoFile /\ origin.version <= DB_SCHEMA_VERSION /\ phase = "opening" /\ phase' = "down"
           => faults' # faults]_fileVars
    BY OpenStep1, StoreSteps
<1> QED BY <1>1, FileInvAlways, PTL DEF StoreSpec, LegacyOpens

-----------------------------------------------------------------------------
(* The profiles.  Onboarding makes one profile because the request that      *)
(* holds the lock is alone between its look and its insert, and because who  *)
(* was never named by a share request still owns what was made for him.      *)

AllRequests == Starting \cup Creating \cup Checking \cup Sharing \cup Writing

BlockLocked ==
    \A r \in Requests :
        /\ req[r].pc \in {"lock", "list", "reload"} => req[r].op = "bootstrap"
        /\ (req[r].pc \in {"list", "reload"} \/ (req[r].pc = "insert" /\ req[r].op = "bootstrap"))
              => lock = r

TargetsShared ==
    \A r \in Requests :
        /\ req[r] \in Sharing => req[r].target \in shared
        /\ req[r].pc \in {"share", "remove"} => req[r].target \in shared

PersonalOwned ==
    \A u \in Users \ shared : \A p \in profiles : personal[p] = u => members[p][u] = "owner"

FirstProfile ==
    \A r \in Requests :
        req[r].pc = "insert" /\ req[r].op = "bootstrap" /\ req[r].user \notin shared =>
            \A p \in profiles : personal[p] # req[r].user

RowInv == RowsOK /\ OwnerKept /\ ReportsHaveProfile
Onboarding == BlockLocked /\ TargetsShared /\ PersonalOwned /\ FirstProfile /\ OnePersonalProfile
ProfileInv == RowInv /\ Onboarding

LEMMA RequestForms ==
    ASSUME RowsOK, NEW r \in Requests
    PROVE  /\ req \in [Requests -> AllRequests] /\ req[r] \in AllRequests
           /\ req[r].pc \in {"lock", "list", "insert", "reload"} => req[r] \in Creating
           /\ req[r].pc = "check" => req[r] \in Checking \cup Sharing
           /\ req[r].pc = "require" => req[r] \in Sharing
           /\ req[r].pc \in {"read", "update", "delete", "validate", "report", "share", "remove"}
                => req[r] \in Writing
<1>1. req \in [Requests -> AllRequests] /\ req[r] \in AllRequests BY DEF RowsOK, AllRequests
<1> QED BY <1>1 DEF AllRequests, Starting, Creating, Checking, Sharing, Writing

LEMMA StartForms == Idle \in Starting /\ Done \in Starting
BY DEF Idle, Done, Starting

\* Steps that write no row keep what holds of the rows.
LEMMA RowsKept ==
    ASSUME RowInv, UNCHANGED rowVars, req' \in [Requests -> AllRequests]
    PROVE  RowInv'
<1>1. RowsOK' BY DEF RowInv, RowsOK, rowVars, AllRequests
<1>2. OwnerKept' BY DEF RowInv, OwnerKept, Owners, rowVars
<1>3. ReportsHaveProfile' BY DEF RowInv, ReportsHaveProfile, rowVars
<1> QED BY <1>1, <1>2, <1>3 DEF RowInv

\* A request that ends, while the rows of profiles grow neither in number nor
\* in owners made for somebody.
LEMMA EndOnboarding ==
    ASSUME Onboarding, req \in [Requests -> AllRequests], NEW r \in Requests, Finish(r),
           req[r].pc \notin {"list", "reload", "insert"}, lock' = lock, shared' = shared,
           profiles' \subseteq profiles,
           \A p \in profiles' : personal'[p] = personal[p],
           \A p \in profiles', u \in Users \ shared : members'[p][u] = members[p][u]
    PROVE  Onboarding'
<1>1. \A s \in Requests : req'[s] = req[s] \/ req'[s] = Done BY DEF Finish
<1>2. Done.pc = "done" /\ Done \notin Sharing BY DEF Done, Sharing
<1>3. BlockLocked' BY <1>1, <1>2 DEF Onboarding, BlockLocked
<1>4. TargetsShared' BY <1>1, <1>2 DEF Onboarding, TargetsShared
<1>5. PersonalOwned' BY DEF Onboarding, PersonalOwned
<1>6. FirstProfile' BY <1>1, <1>2 DEF Onboarding, FirstProfile
<1>7. OnePersonalProfile' BY DEF Onboarding, OnePersonalProfile
<1> QED BY <1>3, <1>4, <1>5, <1>6, <1>7 DEF Onboarding

\* A step of one request that writes no row.
LEMMA MoveOnboarding ==
    ASSUME Onboarding, UNCHANGED rowVars, NEW r \in Requests, NEW q,
           req \in [Requests -> AllRequests], req' = [req EXCEPT ![r] = q],
           shared \subseteq shared',
           \A s \in Requests \ {r} : lock = s => lock' = s,
           q \in Sharing \/ q.pc \in {"share", "remove"} => q.target \in shared',
           q.pc \in {"lock", "list", "reload"} => q.op = "bootstrap",
           q.pc \in {"list", "reload"} \/ (q.pc = "insert" /\ q.op = "bootstrap") => lock' = r,
           q.pc = "insert" /\ q.op = "bootstrap" /\ q.user \notin shared' =>
               \A p \in profiles : personal[p] # q.user
    PROVE  Onboarding'
<1>1. req'[r] = q /\ \A s \in Requests \ {r} : req'[s] = req[s] OBVIOUS
<1>2. BlockLocked' BY <1>1 DEF Onboarding, BlockLocked
<1>3. TargetsShared' BY <1>1 DEF Onboarding, TargetsShared
<1>4. PersonalOwned' BY DEF Onboarding, PersonalOwned, rowVars
<1>5. FirstProfile' BY <1>1 DEF Onboarding, FirstProfile, rowVars
<1>6. OnePersonalProfile' BY DEF Onboarding, OnePersonalProfile, rowVars
<1> QED BY <1>2, <1>3, <1>4, <1>5, <1>6 DEF Onboarding

LEMMA StartInv ==
    ASSUME NEW found \in SUBSET ProfileIds, StartWith(found)
    PROVE  ProfileInv
<1>1. \A p \in profiles, u \in Users : members[p][u] = "owner" BY DEF StartWith
<1>2. req \in [Requests -> AllRequests] BY StartForms DEF StartWith, AllRequests
<1>3. RowsOK
    <2>1. members \in [ProfileIds -> [Users -> Roles \cup {Nobody}]]
        BY DEF StartWith, NoMembers, Roles
    <2>2. \A p \in ProfileIds \ profiles : members[p] = NoMembers BY DEF StartWith
    <2> QED BY <1>2, <2>1, <2>2 DEF StartWith, RowsOK, AllRequests
<1>4. OwnerKept
    <2>1. PICK u \in Users : TRUE BY ProfilesAssumption DEF ProfilesAssumption
    <2> QED BY <1>1, <2>1 DEF OwnerKept, Owners
<1>5. ReportsHaveProfile BY DEF StartWith, ReportsHaveProfile
<1>6. \A r \in Requests : req[r] = Idle BY DEF StartWith
<1>7. BlockLocked /\ TargetsShared /\ FirstProfile
    BY <1>6 DEF Idle, BlockLocked, TargetsShared, FirstProfile, Sharing
<1>8. \A p \in profiles, u \in Users : personal[p] # u
    BY ProfilesAssumption DEF StartWith, ProfilesAssumption
<1>9. PersonalOwned /\ OnePersonalProfile BY <1>8 DEF PersonalOwned, OnePersonalProfile
<1> QED BY <1>3, <1>4, <1>5, <1>7, <1>9 DEF ProfileInv, RowInv, Onboarding

LEMMA BeginInv == ASSUME ProfileInv, NEW r \in Requests, Begin(r) PROVE ProfileInv'
<1> USE DEF ProfileInv
<1>1. RowsOK /\ req \in [Requests -> AllRequests] /\ born \subseteq ProfileIds
    BY DEF RowInv, RowsOK, AllRequests
<1>2. PICK u \in Users :
        \/ BeginCreate(r, u) \/ BeginBootstrap(r, u)
        \/ \E p \in born : \/ BeginUpdate(r, u, p) \/ BeginDelete(r, u, p)
                           \/ BeginReport(r, u, p) \/ BeginShare(r, u, p)
    BY DEF Begin
<1>3. CASE BeginCreate(r, u)
    <2> DEFINE q == [pc |-> "insert", op |-> "create", user |-> u]
    <2>1. req' = [req EXCEPT ![r] = q] /\ UNCHANGED <<rowVars, lock, shared>>
        BY <1>3 DEF BeginCreate
    <2>2. q \in Creating /\ q \notin Sharing /\ q.pc = "insert" /\ q.op = "create"
        BY DEF Creating, Sharing
    <2> HIDE DEF q
    <2>3. RowInv' BY <1>1, <2>1, <2>2, RowsKept DEF AllRequests
    <2>4. Onboarding' BY <1>1, <2>1, <2>2, MoveOnboarding
    <2> QED BY <2>3, <2>4
<1>4. CASE BeginBootstrap(r, u)
    <2> DEFINE q == [pc |-> "lock", op |-> "bootstrap", user |-> u]
    <2>1. req' = [req EXCEPT ![r] = q] /\ UNCHANGED <<rowVars, lock, shared>>
        BY <1>4 DEF BeginBootstrap
    <2>2. q \in Creating /\ q \notin Sharing /\ q.pc = "lock" /\ q.op = "bootstrap"
        BY DEF Creating, Sharing
    <2> HIDE DEF q
    <2>3. RowInv' BY <1>1, <2>1, <2>2, RowsKept DEF AllRequests
    <2>4. Onboarding' BY <1>1, <2>1, <2>2, MoveOnboarding
    <2> QED BY <2>3, <2>4
<1>5. ASSUME NEW p \in born, BeginUpdate(r, u, p) \/ BeginDelete(r, u, p) \/ BeginReport(r, u, p)
      PROVE  ProfileInv'
    <2>1. PICK q \in Checking : req' = [req EXCEPT ![r] = q] /\ UNCHANGED <<rowVars, lock, shared>>
        <3>1. CASE BeginUpdate(r, u, p) BY <1>1, <3>1 DEF BeginUpdate, Checking
        <3>2. CASE BeginDelete(r, u, p) BY <1>1, <3>2 DEF BeginDelete, Checking
        <3>3. CASE BeginReport(r, u, p) BY <1>1, <3>3 DEF BeginReport, Checking
        <3> QED BY <1>5, <3>1, <3>2, <3>3
    <2>2. q \notin Sharing /\ q.pc = "check" BY DEF Checking, Sharing
    <2>3. RowInv' BY <1>1, <2>1, RowsKept DEF AllRequests
    <2>4. Onboarding' BY <1>1, <2>1, <2>2, MoveOnboarding
    <2> QED BY <2>3, <2>4
<1>6. ASSUME NEW p \in born, BeginShare(r, u, p) PROVE ProfileInv'
    <2>1. PICK target \in Users, role \in Granted \cup {Nobody} :
            /\ shared' = shared \cup {target}
            /\ req' = [req EXCEPT ![r] = [pc |-> "check", op |-> IF role = Nobody THEN "remove" ELSE "share",
                                          user |-> u, profile |-> p, target |-> target, role |-> role]]
        BY <1>6 DEF BeginShare
    <2> DEFINE q == [pc |-> "check", op |-> IF role = Nobody THEN "remove" ELSE "share",
                     user |-> u, profile |-> p, target |-> target, role |-> role]
    <2>2. q \in Sharing /\ q.pc = "check" /\ q.target = target
        BY <1>1, ProfilesAssumption DEF Sharing, ProfilesAssumption
    <2>3. req' = [req EXCEPT ![r] = q] /\ UNCHANGED <<rowVars, lock>> BY <1>6, <2>1 DEF BeginShare
    <2> HIDE DEF q
    <2>4. RowInv' BY <1>1, <2>2, <2>3, RowsKept DEF AllRequests
    <2>5. Onboarding' BY <1>1, <2>1, <2>2, <2>3, MoveOnboarding
    <2> QED BY <2>4, <2>5
<1> QED BY <1>2, <1>3, <1>4, <1>5, <1>6

LEMMA MoveInv ==
    ASSUME ProfileInv, NEW r \in Requests,
           TakeLock(r) \/ ListOwned(r) \/ Reload(r) \/ Check(r) \/ Require(r) \/ ReadProfile(r)
             \/ ValidateReport(r)
    PROVE  ProfileInv'
<1> USE DEF ProfileInv
<1>1. RowsOK /\ req \in [Requests -> AllRequests] /\ Nobody \notin Requests
    BY ProfilesAssumption DEF RowInv, RowsOK, AllRequests, ProfilesAssumption
<1>2. Done \in Starting /\ Done \notin Sharing /\ Done.pc = "done" BY DEF Done, Starting, Sharing
<1>3. ASSUME NEW q \in AllRequests, req' = [req EXCEPT ![r] = q], UNCHANGED <<rowVars, shared>>,
             \A s \in Requests \ {r} : lock = s => lock' = s,
             q \in Sharing \/ q.pc \in {"share", "remove"} => q.target \in shared,
             q.pc \in {"lock", "list", "reload"} => q.op = "bootstrap",
             q.pc \in {"list", "reload"} \/ (q.pc = "insert" /\ q.op = "bootstrap") => lock' = r,
             q.pc = "insert" /\ q.op = "bootstrap" /\ q.user \notin shared =>
                 \A p \in profiles : personal[p] # q.user
      PROVE  ProfileInv'
    <2>1. RowInv' BY <1>1, <1>3, RowsKept
    <2>2. Onboarding' BY <1>1, <1>3, MoveOnboarding
    <2> QED BY <2>1, <2>2
<1>4. ASSUME Finish(r), UNCHANGED <<rowVars, shared>>, \A s \in Requests \ {r} : lock = s => lock' = s
      PROVE  ProfileInv'
    BY <1>2, <1>3, <1>4 DEF Finish, AllRequests
<1>5. CASE TakeLock(r)
    <2> DEFINE q == [req[r] EXCEPT !.pc = "list"]
    <2>1. req[r] \in Creating /\ req[r].op = "bootstrap"
        BY <1>1, <1>5, RequestForms DEF TakeLock, At, Onboarding, BlockLocked
    <2>2. q \in Creating /\ q.pc = "list" /\ q.op = "bootstrap" /\ q \notin Sharing
        BY <2>1 DEF Creating, Sharing
    <2>3. req' = [req EXCEPT ![r] = q] /\ lock' = r /\ lock = Nobody /\ UNCHANGED <<rowVars, shared>>
        BY <1>5 DEF TakeLock, Goto
    <2> HIDE DEF q
    <2> QED BY <1>1, <1>3, <2>2, <2>3 DEF AllRequests
<1>6. CASE ListOwned(r)
    <2>1. req[r] \in Creating /\ req[r].op = "bootstrap" /\ lock = r
        BY <1>1, <1>6, RequestForms DEF ListOwned, At, Onboarding, BlockLocked
    <2>2. CASE OwnsPersonal(req[r].user)
        <3>1. Finish(r) /\ lock' = Nobody /\ UNCHANGED <<rowVars, shared>> BY <1>6, <2>2 DEF ListOwned
        <3> QED BY <1>4, <2>1, <3>1
    <2>3. CASE ~OwnsPersonal(req[r].user)
        <3> DEFINE q == [req[r] EXCEPT !.pc = "insert"]
        <3>1. req' = [req EXCEPT ![r] = q] /\ UNCHANGED <<rowVars, lock, shared>>
            BY <1>6, <2>3 DEF ListOwned, Goto
        <3>2. q \in Creating /\ q.pc = "insert" /\ q.user = req[r].user /\ q \notin Sharing
              /\ q.user \in Users
            BY <2>1 DEF Creating, Sharing
        <3> HIDE DEF q
        <3>3. q.user \notin shared => \A p \in profiles : personal[p] # q.user
            <4> SUFFICES ASSUME q.user \notin shared, NEW p \in profiles, personal[p] = q.user
                         PROVE  FALSE
                OBVIOUS
            <4>1. members[p][q.user] = "owner" BY <3>2 DEF Onboarding, PersonalOwned
            <4>2. personal[p] # Nobody BY <3>2, ProfilesAssumption DEF ProfilesAssumption
            <4> QED BY <2>3, <3>2, <4>1, <4>2 DEF OwnsPersonal
        <3> QED BY <1>3, <2>1, <3>1, <3>2, <3>3 DEF AllRequests
    <2> QED BY <2>2, <2>3
<1>7. CASE Reload(r)
    <2>1. lock = r BY <1>7 DEF Reload, At, Onboarding, BlockLocked
    <2>2. Finish(r) /\ lock' = Nobody /\ UNCHANGED <<rowVars, shared>> BY <1>7 DEF Reload
    <2> QED BY <1>4, <2>1, <2>2
<1>8. CASE Check(r)
    <2>1. req[r].pc = "check" /\ UNCHANGED <<rowVars, lock, shared>> BY <1>8 DEF Check, At
    <2>2. req[r] \in Checking \cup Sharing BY <1>1, <2>1, RequestForms
    <2>3. req[r] \in Sharing => req[r].target \in shared BY DEF Onboarding, TargetsShared
    <2>4. CASE ~Allowed(req[r].user, req[r].profile, Needed(req[r].op))
        BY <1>4, <1>8, <2>1, <2>4 DEF Check, Finish
    <2>5. CASE Allowed(req[r].user, req[r].profile, Needed(req[r].op)) /\ req[r] \in Sharing
        <3> DEFINE q == [req[r] EXCEPT !.pc = "require"]
        <3>1. req[r].op \in {"share", "remove"} BY <2>5 DEF Sharing
        <3>2. req' = [req EXCEPT ![r] = q] BY <1>8, <2>5, <3>1 DEF Check
        <3>3. q \in Sharing /\ q.pc = "require" /\ q.target = req[r].target BY <2>5 DEF Sharing
        <3> HIDE DEF q
        <3> QED BY <1>3, <2>1, <2>3, <2>5, <3>2, <3>3 DEF AllRequests
    <2>6. CASE Allowed(req[r].user, req[r].profile, Needed(req[r].op)) /\ req[r] \in Checking
        <3>1. PICK q \in Writing : /\ req' = [req EXCEPT ![r] = q] /\ q \notin Sharing
                                   /\ q.pc \in {"read", "validate", "delete"}
            <4>1. CASE req[r].op = "update"
                <5> DEFINE q == [pc |-> "read", profile |-> req[r].profile, key |-> req[r].key]
                <5>1. q \in Writing /\ q \notin Sharing /\ q.pc = "read"
                    BY <2>6, <4>1 DEF Checking, Writing, Sharing
                <5>2. req' = [req EXCEPT ![r] = q] BY <1>8, <2>6, <4>1 DEF Check
                <5> QED BY <5>1, <5>2
            <4>2. CASE req[r].op = "report"
                <5> DEFINE q == [pc |-> "validate", profile |-> req[r].profile]
                <5>1. q \in Writing /\ q \notin Sharing /\ q.pc = "validate"
                    BY <2>6, <4>2 DEF Checking, Writing, Sharing
                <5>2. req' = [req EXCEPT ![r] = q] BY <1>8, <2>6, <4>2 DEF Check
                <5> QED BY <5>1, <5>2
            <4>3. CASE req[r].op = "delete"
                <5> DEFINE q == [pc |-> "delete", profile |-> req[r].profile]
                <5>1. q \in Writing /\ q \notin Sharing /\ q.pc = "delete"
                    BY <2>6, <4>3 DEF Checking, Writing, Sharing
                <5>2. req' = [req EXCEPT ![r] = q] BY <1>8, <2>6, <4>3 DEF Check
                <5> QED BY <5>1, <5>2
            <4> QED BY <2>6, <4>1, <4>2, <4>3 DEF Checking
        <3> QED BY <1>3, <2>1, <3>1 DEF AllRequests
    <2> QED BY <2>2, <2>4, <2>5, <2>6
<1>9. CASE Require(r)
    <2>1. req[r] \in Sharing /\ req[r].target \in shared /\ UNCHANGED <<rowVars, lock, shared>>
        BY <1>1, <1>9, RequestForms DEF Require, At, Onboarding, TargetsShared
    <2>2. CASE ~Allowed(req[r].user, req[r].profile, "manage_acl")
        BY <1>4, <1>9, <2>1, <2>2 DEF Require, Finish
    <2>3. CASE Allowed(req[r].user, req[r].profile, "manage_acl")
        <3> DEFINE q == [pc |-> req[r].op, profile |-> req[r].profile, target |-> req[r].target,
                         role |-> req[r].role]
        <3>1. q \in Writing /\ q \notin Sharing /\ q.pc \in {"share", "remove"} /\ q.target \in shared
            BY <2>1 DEF Sharing, Writing
        <3>2. req' = [req EXCEPT ![r] = q] BY <1>9, <2>3 DEF Require
        <3> HIDE DEF q
        <3> QED BY <1>3, <2>1, <3>1, <3>2 DEF AllRequests
    <2> QED BY <2>2, <2>3
<1>10. CASE ReadProfile(r)
    <2>1. req[r] \in Writing /\ req[r].pc = "read" /\ UNCHANGED <<rowVars, lock, shared>>
        BY <1>1, <1>10, RequestForms DEF ReadProfile, At
    <2>2. CASE req[r].profile \notin profiles BY <1>4, <1>10, <2>1, <2>2 DEF ReadProfile
    <2>3. CASE req[r].profile \in profiles
        <3> DEFINE q == [pc |-> "update", profile |-> req[r].profile, key |-> req[r].key,
                         current |-> settings[req[r].profile]]
        <3>1. req[r].profile \in ProfileIds /\ req[r].key \in Keys BY <2>1 DEF Writing
        <3>2. settings[req[r].profile] \in SUBSET Keys BY <1>1, <3>1 DEF RowsOK
        <3>3. q \in Writing /\ q \notin Sharing /\ q.pc = "update" BY <3>1, <3>2 DEF Writing, Sharing
        <3>4. req' = [req EXCEPT ![r] = q] BY <1>10, <2>3 DEF ReadProfile
        <3> HIDE DEF q
        <3> QED BY <1>3, <2>1, <3>3, <3>4 DEF AllRequests
    <2> QED BY <2>2, <2>3
<1>11. CASE ValidateReport(r)
    <2>1. req[r] \in Writing /\ req[r].pc = "validate" /\ UNCHANGED <<rowVars, lock, shared>>
        BY <1>1, <1>11, RequestForms DEF ValidateReport, At
    <2>2. CASE Finish(r) BY <1>4, <2>1, <2>2
    <2>3. CASE Goto(r, "report")
        <3> DEFINE q == [req[r] EXCEPT !.pc = "report"]
        <3>1. q \in Writing /\ q \notin Sharing /\ q.pc = "report" BY <2>1 DEF Writing, Sharing
        <3>2. req' = [req EXCEPT ![r] = q] BY <2>3 DEF Goto
        <3> HIDE DEF q
        <3> QED BY <1>3, <2>1, <3>1, <3>2 DEF AllRequests
    <2> QED BY <1>11, <2>2, <2>3 DEF ValidateReport
<1> QED BY <1>5, <1>6, <1>7, <1>8, <1>9, <1>10, <1>11

LEMMA CreateInv == ASSUME ProfileInv, NEW r \in Requests, Create(r) PROVE ProfileInv'
<1> DEFINE u == req[r].user
           marker == IF req[r].op = "bootstrap" THEN u ELSE Nobody
<1>1. RowsOK /\ req[r] \in Creating /\ req[r].pc = "insert" /\ u \in Users
      /\ req \in [Requests -> AllRequests]
    <2>1. RowsOK /\ req[r].pc = "insert" BY DEF Create, At, ProfileInv, RowInv
    <2> QED BY <2>1, RequestForms DEF Creating
<1>2. PICK p \in ProfileIds \ born : InsertProfile(p, u, marker) BY DEF Create
<1>3. /\ \/ req[r].op = "bootstrap" /\ Goto(r, "reload")
         \/ req[r].op = "create" /\ Finish(r)
      /\ UNCHANGED <<tracks, reports, lock, shared>>
    BY <1>1 DEF Create, Creating
<1>4. p \notin profiles /\ profiles' = profiles \cup {p} BY <1>1, <1>2 DEF RowsOK, InsertProfile
<1>5. /\ members' = [members EXCEPT ![p] = [NoMembers EXCEPT ![u] = "owner"]]
      /\ personal' = [personal EXCEPT ![p] = marker]
      /\ settings' = [settings EXCEPT ![p] = {}] /\ born' = born \cup {p}
    BY <1>2 DEF InsertProfile
<1>6. /\ members'[p][u] = "owner" /\ personal'[p] = marker
      /\ \A q \in profiles : members'[q] = members[q] /\ personal'[q] = personal[q]
    BY <1>1, <1>4, <1>5 DEF RowsOK, NoMembers
<1>7. PICK q \in AllRequests :
        /\ req' = [req EXCEPT ![r] = q] /\ q \notin Sharing
        /\ (q.pc = "done" \/ (q.pc = "reload" /\ q.op = "bootstrap" /\ req[r].op = "bootstrap"))
    <2>1. CASE Goto(r, "reload") /\ req[r].op = "bootstrap"
        <3> DEFINE q == [req[r] EXCEPT !.pc = "reload"]
        <3>1. q \in Creating /\ q.pc = "reload" /\ q.op = "bootstrap" /\ q \notin Sharing
            BY <1>1, <2>1 DEF Creating, Sharing
        <3>2. req' = [req EXCEPT ![r] = q] BY <2>1 DEF Goto
        <3> QED BY <2>1, <3>1, <3>2 DEF AllRequests
    <2>2. CASE Finish(r)
        <3>1. Done \in AllRequests /\ Done \notin Sharing /\ Done.pc = "done"
            BY StartForms DEF AllRequests, Done, Sharing
        <3>2. req' = [req EXCEPT ![r] = Done] BY <2>2 DEF Finish
        <3> QED BY <3>1, <3>2
    <2> QED BY <1>3, <2>1, <2>2
<1>8. RowsOK'
    <2>1. members' \in [ProfileIds -> [Users -> Roles \cup {Nobody}]]
        BY <1>1, <1>5 DEF RowsOK, NoMembers, Roles
    <2>2. personal' \in [ProfileIds -> Users \cup {Nobody}] BY <1>1, <1>5 DEF RowsOK
    <2>3. settings' \in [ProfileIds -> SUBSET Keys] BY <1>1, <1>5 DEF RowsOK
    <2>4. req' \in [Requests -> AllRequests] BY <1>1, <1>7
    <2>5. profiles' \subseteq born' /\ born' \subseteq ProfileIds /\ tracks' \subseteq profiles'
        BY <1>1, <1>2, <1>3, <1>4, <1>5 DEF RowsOK
    <2>6. \A s \in ProfileIds \ profiles' : members'[s] = NoMembers
        BY <1>1, <1>4, <1>5 DEF RowsOK
    <2> QED BY <2>1, <2>2, <2>3, <2>4, <2>5, <2>6 DEF RowsOK, AllRequests
<1>9. OwnerKept'
    BY <1>1, <1>4, <1>6 DEF ProfileInv, RowInv, OwnerKept, Owners
<1>10. ReportsHaveProfile'
    BY <1>3, <1>4 DEF ProfileInv, RowInv, ReportsHaveProfile
<1>11. \A s \in Requests : req'[s] = IF s = r THEN q ELSE req[s] BY <1>1, <1>7
<1>12. BlockLocked'
    BY <1>1, <1>3, <1>7, <1>11 DEF ProfileInv, Onboarding, BlockLocked
<1>13. TargetsShared' BY <1>3, <1>7, <1>11 DEF ProfileInv, Onboarding, TargetsShared
<1>14. marker = u \/ marker \notin Users BY ProfilesAssumption DEF ProfilesAssumption
<1>15. PersonalOwned'
    BY <1>3, <1>4, <1>6, <1>14 DEF ProfileInv, Onboarding, PersonalOwned
<1>16. marker \notin Users
       \/ (lock = r /\ (u \notin shared => \A p2 \in profiles : personal[p2] # u))
    BY <1>1, ProfilesAssumption DEF ProfileInv, Onboarding, BlockLocked, FirstProfile, ProfilesAssumption
<1>17. OnePersonalProfile'
    BY <1>3, <1>4, <1>6, <1>14, <1>16 DEF ProfileInv, Onboarding, OnePersonalProfile
<1>18. FirstProfile'
    <2> SUFFICES ASSUME NEW s \in Requests, req'[s].pc = "insert", req'[s].op = "bootstrap",
                        req'[s].user \notin shared', NEW p2 \in profiles'
                 PROVE  personal'[p2] # req'[s].user
        BY DEF FirstProfile
    <2>1. s # r /\ req'[s] = req[s] BY <1>7, <1>11
    <2>2. lock = s /\ lock # r BY <2>1 DEF ProfileInv, Onboarding, BlockLocked
    <2>3. marker \notin Users BY <1>16, <2>2
    <2>4. req[s].user \in Users
        <3>1. req[s] \in Creating BY <1>1, <2>1, RequestForms
        <3> QED BY <3>1 DEF Creating
    <2>5. \A p3 \in profiles : personal[p3] # req[s].user
        BY <1>3, <2>1 DEF ProfileInv, Onboarding, FirstProfile
    <2> QED BY <1>4, <1>6, <2>1, <2>3, <2>4, <2>5
<1> QED BY <1>8, <1>9, <1>10, <1>12, <1>13, <1>15, <1>17, <1>18
        DEF ProfileInv, RowInv, Onboarding

LEMMA OwnersFinite ==
    ASSUME RowsOK, NEW p \in ProfileIds, NEW u \in Users, members[p][u] = "owner",
           ~(Cardinality(Owners(p)) <= 1)
    PROVE  \E v \in Users \ {u} : members[p][v] = "owner"
<1> SUFFICES ASSUME \A v \in Users \ {u} : members[p][v] # "owner" PROVE FALSE OBVIOUS
<1>1. Owners(p) = {u} BY DEF Owners
<1>2. Cardinality({u}) = 1 BY FS_Singleton
<1> QED BY <1>1, <1>2

\* What sharing and removing have in common: one user's role in one profile.
LEMMA RoleInv ==
    ASSUME ProfileInv, NEW r \in Requests, NEW p \in ProfileIds, NEW u \in Users,
           NEW role \in Roles \cup {Nobody}, req[r].pc \in {"share", "remove"}, req[r].target = u,
           Finish(r), UNCHANGED <<born, profiles, personal, settings, tracks, reports, lock, shared>>,
           members' = [members EXCEPT ![p][u] = role],
           ~LosesLastOwner(p, u, role),
           p \in profiles \/ role = Nobody
    PROVE  ProfileInv'
<1>1. RowsOK /\ req \in [Requests -> AllRequests] BY DEF ProfileInv, RowInv, RowsOK, AllRequests
<1>2. members' \in [ProfileIds -> [Users -> Roles \cup {Nobody}]] BY <1>1 DEF RowsOK
<1>3. \A q \in ProfileIds, v \in Users : q # p \/ v # u => members'[q][v] = members[q][v]
    BY <1>1 DEF RowsOK
<1>4. members'[p][u] = role BY <1>1 DEF RowsOK
<1>5. RowsOK'
    <2>1. req' \in [Requests -> AllRequests] BY <1>1, StartForms DEF Finish, AllRequests
    <2>2. \A q \in ProfileIds \ profiles' : members'[q] = NoMembers
        <3> SUFFICES ASSUME NEW q \in ProfileIds \ profiles PROVE members'[q] = NoMembers OBVIOUS
        <3>1. members[q] = NoMembers BY <1>1 DEF RowsOK
        <3>2. CASE q # p BY <1>1, <3>1, <3>2 DEF RowsOK
        <3>3. CASE q = p
            <4>1. role = Nobody BY <3>3
            <4>2. members'[q] = [NoMembers EXCEPT ![u] = Nobody] BY <1>1, <3>1, <3>3, <4>1 DEF RowsOK
            <4> QED BY <4>2 DEF NoMembers
        <3> QED BY <3>2, <3>3
    <2> QED BY <1>1, <1>2, <2>1, <2>2 DEF RowsOK, AllRequests
<1>6. OwnerKept'
    <2> SUFFICES ASSUME NEW q \in profiles PROVE \E v \in Users : members'[q][v] = "owner"
        BY DEF OwnerKept, Owners
    <2>1. q \in ProfileIds BY <1>1 DEF RowsOK
    <2>2. PICK v \in Users : members[q][v] = "owner" BY DEF ProfileInv, RowInv, OwnerKept, Owners
    <2>3. CASE q # p \/ v # u BY <1>3, <2>1, <2>2, <2>3
    <2>4. CASE q = p /\ v = u
        <3>1. CASE role = "owner" BY <1>4, <2>4, <3>1
        <3>2. CASE role # "owner"
            <4>1. ~(Cardinality(Owners(p)) <= 1) BY <2>2, <2>4, <3>2 DEF LosesLastOwner
            <4>2. PICK w \in Users \ {u} : members[p][w] = "owner"
                BY <1>1, <2>2, <2>4, <4>1, OwnersFinite
            <4> QED BY <1>3, <2>1, <2>4, <4>2
        <3> QED BY <3>1, <3>2
    <2> QED BY <2>3, <2>4
<1>7. ReportsHaveProfile' BY DEF ProfileInv, RowInv, ReportsHaveProfile
<1>8. u \in shared BY DEF ProfileInv, Onboarding, TargetsShared
<1>9. \A q \in profiles', v \in Users \ shared : members'[q][v] = members[q][v]
    BY <1>1, <1>3, <1>8 DEF RowsOK
<1>10. Onboarding' BY <1>1, <1>9, EndOnboarding DEF ProfileInv
<1> QED BY <1>5, <1>6, <1>7, <1>10 DEF ProfileInv, RowInv

\* A request that ends without writing.
LEMMA EndInv ==
    ASSUME ProfileInv, NEW r \in Requests, Finish(r), UNCHANGED <<rowVars, lock, shared>>,
           req[r].pc \notin {"list", "reload", "insert"}
    PROVE  ProfileInv'
<1>1. req \in [Requests -> AllRequests] BY DEF ProfileInv, RowInv, RowsOK, AllRequests
<1>2. req' \in [Requests -> AllRequests] BY <1>1, StartForms DEF Finish, AllRequests
<1>3. RowInv' BY <1>2, RowsKept DEF ProfileInv
<1>4. Onboarding' BY <1>1, EndOnboarding DEF ProfileInv, rowVars
<1> QED BY <1>3, <1>4 DEF ProfileInv

LEMMA WriteInv ==
    ASSUME ProfileInv, NEW r \in Requests,
           SetMemberRole(r) \/ RemoveMember(r) \/ UpdateProfile(r) \/ DeleteProfile(r) \/ WriteReport(r)
    PROVE  ProfileInv'
<1>1. RowsOK /\ req \in [Requests -> AllRequests] BY DEF ProfileInv, RowInv, RowsOK, AllRequests
<1>2. CASE SetMemberRole(r)
    <2>1. /\ req[r].pc = "share" /\ Finish(r)
          /\ UNCHANGED <<born, profiles, personal, settings, tracks, reports, lock, shared>>
        BY <1>2 DEF SetMemberRole, At
    <2>2. req[r] \in Writing BY <1>1, <2>1, RequestForms
    <2>3. req[r].profile \in ProfileIds /\ req[r].target \in Users /\ req[r].role \in Roles
        BY <2>1, <2>2, ProfilesAssumption DEF Writing, ProfilesAssumption
    <2>4. CASE members' = members BY <2>1, <2>4, EndInv DEF rowVars
    <2>5. CASE /\ ~LosesLastOwner(req[r].profile, req[r].target, req[r].role)
               /\ req[r].profile \in profiles
               /\ members' = [members EXCEPT ![req[r].profile][req[r].target] = req[r].role]
        BY <2>1, <2>3, <2>5, RoleInv
    <2> QED BY <1>2, <2>4, <2>5 DEF SetMemberRole
<1>3. CASE RemoveMember(r)
    <2>1. /\ req[r].pc = "remove" /\ Finish(r)
          /\ UNCHANGED <<born, profiles, personal, settings, tracks, reports, lock, shared>>
        BY <1>3 DEF RemoveMember, At
    <2>2. req[r] \in Writing BY <1>1, <2>1, RequestForms
    <2>3. req[r].profile \in ProfileIds /\ req[r].target \in Users BY <2>1, <2>2 DEF Writing
    <2>4. CASE members' = members BY <2>1, <2>4, EndInv DEF rowVars
    <2>5. CASE /\ ~LosesLastOwner(req[r].profile, req[r].target, Nobody)
               /\ members' = [members EXCEPT ![req[r].profile][req[r].target] = Nobody]
        BY <2>1, <2>3, <2>5, RoleInv
    <2> QED BY <1>3, <2>4, <2>5 DEF RemoveMember
<1>4. CASE UpdateProfile(r)
    <2>1. /\ req[r].pc = "update" /\ Finish(r)
          /\ UNCHANGED <<born, profiles, members, personal, tracks, reports, lock, shared>>
        BY <1>4 DEF UpdateProfile, At
    <2>2. req[r] \in Writing BY <1>1, <2>1, RequestForms
    <2>3. /\ req[r].profile \in ProfileIds /\ req[r].key \in Keys /\ req[r].current \in SUBSET Keys
        BY <2>1, <2>2 DEF Writing
    <2>4. settings' \in [ProfileIds -> SUBSET Keys] BY <1>1, <1>4, <2>3 DEF UpdateProfile, RowsOK
    <2>5. req' \in [Requests -> AllRequests] BY <1>1, <2>1, StartForms DEF Finish, AllRequests
    <2>6. RowsOK' BY <1>1, <2>1, <2>4, <2>5 DEF RowsOK, AllRequests
    <2>7. OwnerKept' /\ ReportsHaveProfile'
        BY <2>1 DEF ProfileInv, RowInv, OwnerKept, Owners, ReportsHaveProfile
    <2>8. Onboarding' BY <1>1, <2>1, EndOnboarding DEF ProfileInv
    <2> QED BY <2>6, <2>7, <2>8 DEF ProfileInv, RowInv
<1>5. CASE DeleteProfile(r)
    <2> DEFINE p == req[r].profile
    <2>1. /\ req[r].pc = "delete" /\ Finish(r) /\ profiles' = profiles \ {p}
          /\ members' = [members EXCEPT ![p] = NoMembers]
          /\ personal' = [personal EXCEPT ![p] = Nobody] /\ settings' = [settings EXCEPT ![p] = {}]
          /\ tracks' = tracks \ {p} /\ reports' = reports \ {p} /\ UNCHANGED <<born, lock, shared>>
        BY <1>5 DEF DeleteProfile, At
    <2>2. req[r] \in Writing BY <1>1, <2>1, RequestForms
    <2>3. p \in ProfileIds BY <2>1, <2>2 DEF Writing
    <2> HIDE DEF p
    <2>4. \A q \in profiles' : q \in ProfileIds /\ q # p /\ members'[q] = members[q] /\ personal'[q] = personal[q]
        BY <1>1, <2>1 DEF RowsOK
    <2>5. RowsOK'
        <3>1. members' \in [ProfileIds -> [Users -> Roles \cup {Nobody}]]
            BY <1>1, <2>1 DEF RowsOK, NoMembers
        <3>2. personal' \in [ProfileIds -> Users \cup {Nobody}] BY <1>1, <2>1 DEF RowsOK
        <3>3. settings' \in [ProfileIds -> SUBSET Keys] BY <1>1, <2>1 DEF RowsOK
        <3>4. req' \in [Requests -> AllRequests] BY <1>1, <2>1, StartForms DEF Finish, AllRequests
        <3>5. \A q \in ProfileIds \ profiles' : members'[q] = NoMembers BY <1>1, <2>1, <2>3 DEF RowsOK
        <3>6. profiles' \subseteq born' /\ born' \subseteq ProfileIds /\ tracks' \subseteq profiles'
            BY <1>1, <2>1 DEF RowsOK
        <3> QED BY <3>1, <3>2, <3>3, <3>4, <3>5, <3>6 DEF RowsOK, AllRequests
    <2>6. OwnerKept' BY <2>1, <2>4 DEF ProfileInv, RowInv, OwnerKept, Owners
    <2>7. ReportsHaveProfile' BY <2>1 DEF ProfileInv, RowInv, ReportsHaveProfile
    <2>8. Onboarding' BY <1>1, <2>1, <2>4, EndOnboarding DEF ProfileInv
    <2> QED BY <2>5, <2>6, <2>7, <2>8 DEF ProfileInv, RowInv
<1>6. CASE WriteReport(r)
    <2>1. /\ req[r].pc = "report" /\ Finish(r)
          /\ UNCHANGED <<born, profiles, members, personal, settings, tracks, lock, shared>>
          /\ reports' \subseteq reports \cup tracks
        BY <1>6 DEF WriteReport, At
    <2>2. req' \in [Requests -> AllRequests] BY <1>1, <2>1, StartForms DEF Finish, AllRequests
    <2>3. RowsOK' BY <1>1, <2>1, <2>2 DEF RowsOK, AllRequests
    <2>4. OwnerKept' BY <2>1 DEF ProfileInv, RowInv, OwnerKept, Owners
    <2>5. ReportsHaveProfile' BY <1>1, <2>1 DEF ProfileInv, RowInv, ReportsHaveProfile, RowsOK
    <2>6. Onboarding' BY <1>1, <2>1, EndOnboarding DEF ProfileInv
    <2> QED BY <2>3, <2>4, <2>5, <2>6 DEF ProfileInv, RowInv
<1> QED BY <1>2, <1>3, <1>4, <1>5, <1>6

LEMMA ToggleInv == ASSUME ProfileInv, NEW p \in ProfileIds, ToggleTrack(p) PROVE ProfileInv'
<1>1. RowsOK' BY DEF ToggleTrack, ProfileInv, RowInv, RowsOK
<1>2. OwnerKept' /\ ReportsHaveProfile'
    BY DEF ToggleTrack, ProfileInv, RowInv, OwnerKept, Owners, ReportsHaveProfile
<1>3. Onboarding'
    BY DEF ToggleTrack, ProfileInv, Onboarding, BlockLocked, TargetsShared, PersonalOwned,
           FirstProfile, OnePersonalProfile
<1> QED BY <1>1, <1>2, <1>3 DEF ProfileInv, RowInv

LEMMA DropInv == ASSUME ProfileInv, DropRequests PROVE ProfileInv'
<1>1. \A r \in Requests : req'[r] \in {Idle, Done} BY DEF DropRequests
<1>2. req' \in [Requests -> AllRequests] BY StartForms DEF DropRequests, AllRequests
<1>3. RowInv' BY <1>2, RowsKept DEF DropRequests, ProfileInv
<1>4. Idle.pc = "idle" /\ Done.pc = "done" /\ Idle \notin Sharing /\ Done \notin Sharing
    BY DEF Idle, Done, Sharing
<1>5. \A r \in Requests : req'[r].pc \in {"idle", "done"} /\ req'[r] \notin Sharing BY <1>1, <1>4
<1>6. BlockLocked' /\ TargetsShared' /\ FirstProfile'
    BY <1>5 DEF BlockLocked, TargetsShared, FirstProfile
<1>7. PersonalOwned' /\ OnePersonalProfile'
    BY DEF DropRequests, rowVars, ProfileInv, Onboarding, PersonalOwned, OnePersonalProfile
<1> QED BY <1>3, <1>6, <1>7 DEF ProfileInv, Onboarding

LEMMA ProfileNextInv == ProfileInv /\ [Next]_profileVars => ProfileInv'
<1> SUFFICES ASSUME ProfileInv, [Next]_profileVars PROVE ProfileInv' OBVIOUS
<1>1. CASE UNCHANGED profileVars
    <2>1. RowInv' BY <1>1, RowsKept DEF profileVars, ProfileInv, RowInv, RowsOK, AllRequests
    <2>2. Onboarding'
        BY <1>1 DEF profileVars, rowVars, ProfileInv, Onboarding, BlockLocked, TargetsShared,
                    PersonalOwned, FirstProfile, OnePersonalProfile
    <2> QED BY <2>1, <2>2 DEF ProfileInv
<1>2. ASSUME NEW r \in Requests, Begin(r) \/ Step(r) PROVE ProfileInv'
    BY <1>2, BeginInv, MoveInv, CreateInv, WriteInv DEF Step
<1>3. CASE \E p \in ProfileIds : ToggleTrack(p) BY <1>3, ToggleInv
<1>4. CASE DropRequests BY <1>4, DropInv
<1> QED BY <1>1, <1>2, <1>3, <1>4 DEF Next

LEMMA ProfileInvAlways == StoreSpec => []ProfileInv
<1>1. StoreInit => ProfileInv
    <2> SUFFICES ASSUME StoreInit PROVE ProfileInv OBVIOUS
    <2>1. PICK found \in {Found, {}} : StartWith(found) BY DEF StoreInit
    <2>2. found \in SUBSET ProfileIds BY ProfilesAssumption DEF ProfilesAssumption
    <2> QED BY <2>1, <2>2, StartInv
<1>2. ProfileInv /\ [StoreNext]_storeVars => ProfileInv' BY ProfileNextInv, StoreSteps
<1> QED BY <1>1, <1>2, PTL DEF StoreSpec

\* A profile keeps an owner (the counts inside the writing transactions).
THEOREM ProfilesKeepOwners == StoreSpec => []OwnerKept
<1>1. ProfileInv => OwnerKept BY DEF ProfileInv, RowInv
<1> QED BY <1>1, ProfileInvAlways, PTL

\* Onboarding makes one personal profile (_personal_profile_lock).
THEOREM OnboardingOnce == StoreSpec => []OnePersonalProfile
<1>1. ProfileInv => OnePersonalProfile BY DEF ProfileInv, Onboarding
<1> QED BY <1>1, ProfileInvAlways, PTL

\* No content report outlives its profile (async_delete, the transaction of
\* async_create_unrecognized_answer_report).
THEOREM ReportsAttached == StoreSpec => []ReportsHaveProfile
<1>1. ProfileInv => ReportsHaveProfile BY DEF ProfileInv, RowInv
<1> QED BY <1>1, ProfileInvAlways, PTL
===============================================================================
