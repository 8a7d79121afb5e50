---------------------- MODULE ContentGenerations_proofs ----------------------
(***************************************************************************)
(* Proofs about the content generation manager, for every set of           *)
(* generations, readers and switchers and every bound on faults and        *)
(* restarts.                                                               *)
(***************************************************************************)
EXTENDS ContentGenerations, FiniteSetTheorems, TLAPS

-----------------------------------------------------------------------------
(* Type correctness *)

HoldsTyped == hold \in [Clients -> MaybeGen] /\ leases \in [Gens -> Nat]

\* Taking or releasing a pin keeps the lease table a table of counts.
LEMMA PinType ==
    ASSUME TypeOK, NEW c \in Clients, Pin(c)
    PROVE  HoldsTyped'
<1>1. hold' \in [Clients -> MaybeGen]
    BY DEF TypeOK, ManagerType, ClientType, Pin
<1>2. ASSUME NEW g \in Gens PROVE leases[g] \in Nat /\ leases[g] + 1 \in Nat
    BY DEF TypeOK, ManagerType
<1>3. leases' = [g \in Gens |-> IF g = active THEN leases[g] + 1 ELSE leases[g]]
    BY DEF TypeOK, ManagerType, Pin
<1>4. leases' \in [Gens -> Nat]
    BY <1>2, <1>3
<1> QED BY <1>1, <1>4 DEF HoldsTyped

LEMMA UnpinType ==
    ASSUME TypeOK, NEW c \in Clients, Unpin(c)
    PROVE  HoldsTyped'
<1>1. hold' \in [Clients -> MaybeGen]
    BY DEF TypeOK, ClientType, Unpin, MaybeGen
<1>2. ASSUME NEW g \in Gens
      PROVE  leases[g] \in Nat /\ (IF leases[g] <= 1 THEN 0 ELSE leases[g] - 1) \in Nat
    BY DEF TypeOK, ManagerType
<1>3. leases' = [g \in Gens |-> IF g = hold[c] THEN IF leases[g] <= 1 THEN 0 ELSE leases[g] - 1
                                ELSE leases[g]]
    BY DEF TypeOK, ManagerType, Unpin
<1>4. leases' \in [Gens -> Nat]
    BY <1>2, <1>3
<1> QED BY <1>1, <1>4 DEF HoldsTyped

LEMMA ReaderStepType ==
    ASSUME TypeOK, NEW r \in Readers, ReaderStep(r)
    PROVE  TypeOK'
<1>1. /\ UNCHANGED <<job, disk, bounds>>
      /\ UNCHANGED <<phase, active, previous, switching, sw, cand>>
    BY DEF ReaderStep, StartRead, GrantRead, LeaveGate, ThreadStart, ThreadAttach, ThreadClose,
           FinishRead, CancelRead, memory
<1>2. JobType' /\ DiskType' /\ BoundType'
    BY <1>1 DEF TypeOK, JobType, DiskType, BoundType, disk, bounds
<1>3. HoldsTyped'
    <2>1. CASE Pin(r) BY <2>1, PinType DEF Clients
    <2>2. CASE Unpin(r) BY <2>2, UnpinType DEF Clients
    <2>3. CASE UNCHANGED <<hold, leases>>
        BY <2>3 DEF TypeOK, ManagerType, ClientType, HoldsTyped
    <2> QED BY <2>1, <2>2, <2>3
        DEF ReaderStep, StartRead, GrantRead, LeaveGate, ThreadStart, ThreadAttach, ThreadClose,
            FinishRead, CancelRead, memory
<1>4. ManagerType'
    BY <1>1, <1>3 DEF TypeOK, ManagerType, HoldsTyped
<1>5. task' \in [Readers -> {"idle", "waiting", "reading"}]
    BY DEF TypeOK, ClientType, ReaderStep, StartRead, GrantRead, LeaveGate, ThreadStart,
           ThreadAttach, ThreadClose, FinishRead, CancelRead
<1>6. /\ thread' \in [Readers -> {"none", "queued", "starting", "attached"}]
      /\ path' \in [Readers -> MaybeGen]
    <2>1. active \in MaybeGen /\ NoGen \in MaybeGen
        BY DEF TypeOK, ManagerType, MaybeGen
    <2>2. CASE UNCHANGED <<thread, path>>
        BY <2>2 DEF TypeOK, ClientType
    <2>3. CASE EndThread(r)
        BY <2>1, <2>3 DEF TypeOK, ClientType, EndThread
    <2>4. CASE \/ thread' = [thread EXCEPT ![r] = "starting"] /\ UNCHANGED path
               \/ thread' = [thread EXCEPT ![r] = "attached"] /\ UNCHANGED path
        BY <2>4 DEF TypeOK, ClientType
    <2>5. CASE thread' = [thread EXCEPT ![r] = "queued"] /\ path' = [path EXCEPT ![r] = active]
        BY <2>1, <2>5 DEF TypeOK, ClientType
    <2> QED BY <2>2, <2>3, <2>4, <2>5
        DEF ReaderStep, StartRead, GrantRead, LeaveGate, ThreadStart, ThreadAttach, ThreadClose,
            FinishRead, CancelRead
<1>7. ClientType'
    BY <1>1, <1>3, <1>5, <1>6 DEF TypeOK, ClientType, HoldsTyped
<1> QED BY <1>2, <1>4, <1>7 DEF TypeOK

LEMMA SwitcherStepType ==
    ASSUME TypeOK, NEW t \in Switchers, SwitcherStep(t)
    PROVE  TypeOK'
<1> USE DEF SwitcherStep, StartBuild, GrantBuild, FailBuild, RequestRollback, StartSwitch,
            RefuseSwitch, SubmitSwitch, CancelDrain
<1>1. UNCHANGED <<phase, task, thread, path, bounds>>
    BY DEF FinishBuild, FinishSwitch, memory
<1>2. HoldsTyped'
    <2>1. CASE Pin(t) BY <2>1, PinType DEF Clients
    <2>2. CASE Unpin(t) BY <2>2, UnpinType DEF Clients
    <2>3. CASE UNCHANGED <<hold, leases>>
        BY <2>3 DEF TypeOK, ManagerType, ClientType, HoldsTyped
    <2> QED BY <2>1, <2>2, <2>3 DEF FinishBuild, FinishSwitch, memory
<1>3. active' \in MaybeGen /\ previous' \in MaybeGen /\ switching' \in BOOLEAN
    <2>1. CASE FinishSwitch(t)
        BY <2>1 DEF FinishSwitch, TypeOK, ManagerType, JobType
    <2>2. CASE ~FinishSwitch(t)
        BY <2>2 DEF FinishBuild, TypeOK, ManagerType, memory
    <2> QED BY <2>1, <2>2
<1>4. ManagerType'
    BY <1>1, <1>2, <1>3 DEF TypeOK, ManagerType, HoldsTyped
<1>5. sw' \in [Switchers -> SwitchPcs]
    BY DEF FinishBuild, FinishSwitch, Return, TypeOK, ClientType, SwitchPcs
<1>6. cand' \in [Switchers -> MaybeGen]
    BY DEF FinishBuild, FinishSwitch, Return, TypeOK, ClientType, MaybeGen
<1>7. ClientType'
    BY <1>1, <1>2, <1>5, <1>6 DEF TypeOK, ClientType, HoldsTyped
<1>8. JobType'
    <2>1. CASE SubmitSwitch(t)
        BY <2>1 DEF TypeOK, ManagerType, ClientType, JobType, JobPcs, JobOps
    <2>2. CASE FinishSwitch(t)
        BY <2>2 DEF FinishSwitch, JobType, NoJob, JobPcs, JobOps, MaybeGen
    <2>3. CASE UNCHANGED job
        BY <2>3 DEF TypeOK, JobType
    <2> QED BY <2>1, <2>2, <2>3 DEF FinishBuild
<1>9. DiskType'
    <2>1. CASE FinishBuild(t)
        <3>1. PICK g \in Gens : /\ built' = built \cup {g} /\ staged' = staged \cup {g}
                                /\ parent' = [parent EXCEPT ![g] = hold[t]]
            BY <2>1 DEF FinishBuild
        <3>2. hold[t] \in MaybeGen
            BY DEF TypeOK, ClientType, Clients
        <3> QED BY <2>1, <3>1, <3>2 DEF FinishBuild, TypeOK, DiskType
    <2>2. CASE UNCHANGED disk
        BY <2>2 DEF TypeOK, DiskType, disk
    <2> QED BY <2>1, <2>2 DEF FinishSwitch
<1>10. BoundType'
    BY <1>1 DEF TypeOK, BoundType, bounds
<1> QED BY <1>4, <1>7, <1>8, <1>9, <1>10 DEF TypeOK

LEMMA JobStepType ==
    ASSUME TypeOK, JobStep
    PROVE  TypeOK'
<1> USE DEF TypeOK
<1>1. ManagerType' /\ ClientType'
    BY DEF ManagerType, ClientType, JobStep, JobValidate, JobMove, JobJournal, JobLink,
           JobUnjournal, JobCatalog, JobClear, JobCleanup, jobOnly, memory, clients
<1>2. JobType'
    <2>1. CASE JobValidate
        <3>1. \A pc \in JobPcs : Go(pc) /\ (pc # "failed" => job.target \in Gens) => JobType'
            BY DEF JobType, Go
        <3> QED BY <2>1, <3>1 DEF JobValidate, DiskType, JobPcs
    <2>2. CASE ~JobValidate
        <3>1. job.pc \notin {"none", "validate", "failed"}
            BY <2>2 DEF JobStep, JobMove, JobJournal, JobLink, JobUnjournal, JobCatalog, JobClear,
                        JobCleanup
        <3>2. \A pc \in JobPcs : Go(pc) => JobType'
            BY <3>1 DEF JobType, Go
        <3>3. job' = job => JobType'
            BY DEF JobType
        <3>4. job' = job \/ \E pc \in JobPcs : Go(pc)
            BY <2>2 DEF JobStep, JobMove, JobJournal, JobLink, JobUnjournal, JobCatalog,
                JobClear, JobCleanup, AfterBookkeeping, JobPcs
        <3> QED BY <3>2, <3>3, <3>4
    <2> QED BY <2>1, <2>2
<1>3. DiskType'
    <2> USE DEF DiskType, disk
    <2>0. job.target \in MaybeGen /\ job.prev \in MaybeGen BY DEF JobType
    <2>1. CASE JobValidate BY <2>1 DEF JobValidate
    <2>2. CASE JobMove
        <3>1. job.target \in Gens BY <2>2 DEF JobMove, JobType
        <3> QED BY <3>1, <2>2 DEF JobMove
    <2>3. CASE JobJournal BY <2>0, <2>3 DEF JobJournal
    <2>4. CASE JobLink BY <2>0, <2>4 DEF JobLink
    <2>5. CASE JobUnjournal BY <2>5 DEF JobUnjournal
    <2>6. CASE JobCatalog BY <2>0, <2>6 DEF JobCatalog
    <2>7. CASE JobClear BY <2>7 DEF JobClear
    <2>8. CASE JobCleanup BY <2>8 DEF JobCleanup
    <2> QED BY <2>1, <2>2, <2>3, <2>4, <2>5, <2>6, <2>7, <2>8 DEF JobStep
<1>4. BoundType'
    BY ConstantsAssumption DEF BoundType, JobStep, JobValidate, JobMove, JobJournal, JobLink,
           JobUnjournal, JobCatalog, JobClear, JobCleanup, jobOnly, Fault, disk
<1> QED BY <1>1, <1>2, <1>3, <1>4

LEMMA RecoveredType == TypeOK => RecoveredPrevious \in MaybeGen
BY DEF TypeOK, DiskType, MaybeGen, RecoveredPrevious

\* What a new manager object starts from is well typed.
LEMMA FreshType ==
    /\ NoGen \in MaybeGen
    /\ [g \in Gens |-> 0] \in [Gens -> Nat]
    /\ [c \in Clients |-> NoGen] \in [Clients -> MaybeGen]
    /\ [r \in Readers |-> NoGen] \in [Readers -> MaybeGen]
    /\ [t \in Switchers |-> NoGen] \in [Switchers -> MaybeGen]
    /\ [t \in Switchers |-> "idle"] \in [Switchers -> SwitchPcs]
    /\ NoJob \in [pc : JobPcs, op : JobOps, target : MaybeGen, prev : MaybeGen]
    /\ NoJob.pc = "none"
BY DEF MaybeGen, SwitchPcs, NoJob, JobPcs, JobOps

LEMMA ForgetType ==
    ASSUME TypeOK, Forget
    PROVE  TypeOK'
<1> USE FreshType, ConstantsAssumption DEF TypeOK, Forget
<1>1. ManagerType' BY DEF ManagerType
<1>2. ClientType' BY DEF ClientType
<1>3. JobType' BY DEF JobType
<1>4. DiskType' BY DEF DiskType, disk
<1>5. BoundType' BY DEF BoundType
<1> QED BY <1>1, <1>2, <1>3, <1>4, <1>5

LEMMA LifecycleStepType ==
    ASSUME TypeOK, LifecycleStep
    PROVE  TypeOK'
<1> USE ConstantsAssumption DEF TypeOK, ManagerType, ClientType, JobType, DiskType, BoundType,
        MaybeGen, memory, clients, disk, bounds, NoJob, JobPcs, JobOps
<1>1. CASE Open BY <1>1, RecoveredType DEF Open
<1>2. CASE FinishOpen
    <2>1. CASE job.pc = "done" BY <1>2, <2>1 DEF FinishOpen
    <2>2. CASE job.pc # "done" BY <1>2, <2>2 DEF FinishOpen
    <2> QED BY <2>1, <2>2
<1>3. CASE StartClose BY <1>3 DEF StartClose
<1>4. CASE CloseGate BY <1>4 DEF CloseGate
<1>5. CASE FinishClose BY <1>5 DEF FinishClose
<1>6. CASE Reload BY <1>6, ForgetType DEF Reload
<1>7. CASE Crash BY <1>7, ForgetType DEF Crash
<1> QED BY <1>1, <1>2, <1>3, <1>4, <1>5, <1>6, <1>7 DEF LifecycleStep

\* The manager's state keeps its types, and a job past its validation names a
\* generation.
THEOREM TypeCorrect == Spec => []TypeOK
<1>1. Init => TypeOK
    <2> SUFFICES ASSUME Init PROVE TypeOK OBVIOUS
    <2> USE FreshType, ConstantsAssumption DEF Init
    <2>1. ManagerType BY DEF ManagerType
    <2>2. ClientType BY DEF ClientType
    <2>3. JobType BY DEF JobType
    <2>4. DiskType BY DEF DiskType, MaybeGen
    <2>5. BoundType BY DEF BoundType
    <2> QED BY <2>1, <2>2, <2>3, <2>4, <2>5 DEF TypeOK
<1>2. TypeOK /\ [Next]_vars => TypeOK'
    <2> SUFFICES ASSUME TypeOK, [Next]_vars PROVE TypeOK' OBVIOUS
    <2>1. CASE Next
        BY <2>1, ReaderStepType, SwitcherStepType, JobStepType, LifecycleStepType DEF Next
    <2>2. CASE UNCHANGED vars
        BY <2>2 DEF vars, memory, clients, disk, bounds, TypeOK, ManagerType, ClientType, JobType,
                    DiskType, BoundType
    <2> QED BY <2>1, <2>2
<1> QED BY <1>1, <1>2, PTL DEF Spec

-----------------------------------------------------------------------------
(* The switch protocol *)

LEMMA ClientsFinite == IsFiniteSet(Clients)
BY ConstantsAssumption, FS_Union DEF Clients

LEMMA HoldersFinite == \A g : IsFiniteSet(Holders(g))
<1> TAKE g
<1>1. Holders(g) \subseteq Clients BY DEF Holders
<1> QED BY <1>1, ClientsFinite, FS_Subset

\* A pin on the active generation is counted.
LEMMA PinAccounting ==
    ASSUME TypeOK, LeaseAccounting, active \in Gens,
           NEW c \in Clients, hold[c] = NoGen, Pin(c)
    PROVE  LeaseAccounting'
<1> SUFFICES ASSUME NEW g \in Gens PROVE leases'[g] = Cardinality(Holders(g)')
    BY DEF LeaseAccounting
<1>0. /\ leases[g] = Cardinality(Holders(g)) /\ leases[g] \in Nat /\ g # NoGen
      /\ hold \in [Clients -> MaybeGen] /\ leases \in [Gens -> Nat]
    BY ConstantsAssumption DEF LeaseAccounting, TypeOK, ManagerType, ClientType
<1>1. CASE g = active
    <2>1. Holders(g)' = Holders(g) \cup {c} BY <1>0, <1>1 DEF Pin, Holders
    <2>2. c \notin Holders(g) BY <1>0 DEF Holders
    <2>3. Cardinality(Holders(g)') = Cardinality(Holders(g)) + 1
        BY <2>1, <2>2, HoldersFinite, FS_AddElement
    <2>4. leases'[g] = leases[g] + 1 BY <1>0, <1>1 DEF Pin
    <2> QED BY <1>0, <2>3, <2>4
<1>2. CASE g # active
    <2>1. Holders(g)' = Holders(g) BY <1>0, <1>2 DEF Pin, Holders
    <2>2. leases'[g] = leases[g] BY <1>0, <1>2 DEF Pin
    <2> QED BY <1>0, <2>1, <2>2
<1> QED BY <1>1, <1>2

\* A released pin is discounted, once.
LEMMA UnpinAccounting ==
    ASSUME TypeOK, LeaseAccounting,
           NEW c \in Clients, hold[c] # NoGen, Unpin(c)
    PROVE  LeaseAccounting'
<1> SUFFICES ASSUME NEW g \in Gens PROVE leases'[g] = Cardinality(Holders(g)')
    BY DEF LeaseAccounting
<1>0. /\ leases[g] = Cardinality(Holders(g)) /\ leases[g] \in Nat /\ g # NoGen
      /\ hold \in [Clients -> MaybeGen] /\ leases \in [Gens -> Nat]
    BY ConstantsAssumption DEF LeaseAccounting, TypeOK, ManagerType, ClientType
<1>1. CASE g = hold[c]
    <2>1. Holders(g)' = Holders(g) \ {c} BY <1>0, <1>1 DEF Unpin, Holders
    <2>2. c \in Holders(g) BY <1>1 DEF Holders
    <2>3. Cardinality(Holders(g)') = Cardinality(Holders(g)) - 1
        BY <2>1, <2>2, HoldersFinite, FS_RemoveElement
    <2>4. Cardinality(Holders(g)) # 0 BY <2>2, HoldersFinite, FS_EmptySet
    <2>5. leases'[g] = IF leases[g] <= 1 THEN 0 ELSE leases[g] - 1 BY <1>0, <1>1 DEF Unpin
    <2> QED BY <1>0, <2>3, <2>4, <2>5
<1>2. CASE g # hold[c]
    <2>1. Holders(g)' = Holders(g) BY <1>0, <1>2 DEF Unpin, Holders
    <2>2. leases'[g] = leases[g] BY <1>0, <1>2 DEF Unpin
    <2> QED BY <1>0, <2>1, <2>2
<1> QED BY <1>1, <1>2

\* When every count is zero no client holds a lease.
LEMMA DrainedHolders ==
    ASSUME TypeOK, LeaseAccounting, Drained
    PROVE  \A c \in Clients : hold[c] = NoGen
<1> SUFFICES ASSUME NEW c \in Clients, hold[c] # NoGen PROVE FALSE OBVIOUS
<1>1. hold[c] \in Gens BY DEF TypeOK, ClientType, MaybeGen
<1>2. Cardinality(Holders(hold[c])) = 0 BY <1>1 DEF Drained, LeaseAccounting
<1>3. Holders(hold[c]) = {} BY <1>2, HoldersFinite, FS_EmptySet
<1> QED BY <1>3 DEF Holders

LEMMA SameLeases == LeaseAccounting /\ UNCHANGED <<hold, leases>> => LeaseAccounting'
BY DEF LeaseAccounting, Holders

\* The gate is open only while no switch is past it.
LEMMA GateOpenNoSwitch ==
    ASSUME ProtocolInv, ~switching
    PROVE  ~Switch /\ \A t \in Switchers : ~Exclusive(t)
BY DEF ProtocolInv, ExclusionInv, Exclusive

\* What a client changes when it takes a pin, with the rest of the manager as
\* it was, and when it gives one back.
LEMMA PinHolder ==
    ASSUME TypeOK, ProtocolInv, NEW c \in Clients, phase = "open", hold[c] = NoGen, Pin(c),
           UNCHANGED <<phase, active>>
    PROVE  /\ LeaseAccounting'
           /\ hold'[c] # NoGen
           /\ \A d \in Clients : d # c => hold'[d] = hold[d]
           /\ \A d \in Clients : hold'[d] # NoGen => Opened' /\ hold'[d] = active'
<1>1. active \in Gens /\ active # NoGen /\ hold \in [Clients -> MaybeGen]
    BY ConstantsAssumption DEF ProtocolInv, FilesInv, Opened, TypeOK, DiskType, ClientType
<1>2. LeaseAccounting' BY <1>1, PinAccounting DEF ProtocolInv
<1>3. hold' = [hold EXCEPT ![c] = active] BY DEF Pin
<1> QED BY <1>1, <1>2, <1>3 DEF ProtocolInv, HolderInv, Opened

LEMMA UnpinHolder ==
    ASSUME TypeOK, ProtocolInv, NEW c \in Clients, hold[c] # NoGen, Unpin(c),
           UNCHANGED <<phase, active>>
    PROVE  /\ LeaseAccounting'
           /\ hold'[c] = NoGen
           /\ \A d \in Clients : d # c => hold'[d] = hold[d]
           /\ \A d \in Clients : hold'[d] # NoGen => Opened' /\ hold'[d] = active'
<1>1. hold \in [Clients -> MaybeGen] BY DEF TypeOK, ClientType
<1>2. LeaseAccounting' BY UnpinAccounting DEF ProtocolInv
<1>3. hold' = [hold EXCEPT ![c] = NoGen] BY DEF Unpin
<1> QED BY <1>1, <1>2, <1>3 DEF ProtocolInv, HolderInv, Opened

LEMMA ReaderStepInv ==
    ASSUME TypeOK, ProtocolInv, NEW r \in Readers, ReaderStep(r)
    PROVE  ProtocolInv'
<1>0. /\ r \in Clients /\ Readers \subseteq Clients /\ Switchers \subseteq Clients
      /\ r \notin Switchers
      /\ task \in [Readers -> {"idle", "waiting", "reading"}]
    BY ConstantsAssumption DEF Clients, TypeOK, ClientType
<1>1. UNCHANGED <<phase, active, previous, switching, sw, job, disk>>
    BY DEF ReaderStep, StartRead, GrantRead, LeaveGate, ThreadStart, ThreadAttach, ThreadClose,
           FinishRead, CancelRead, memory
<1>2. JobInv' /\ FilesInv'
    BY <1>1 DEF ProtocolInv, JobInv, FilesInv, Opened, disk
<1>3. CASE /\ phase = "open" /\ ~switching /\ task[r] # "reading"
           /\ Pin(r) /\ task' = [task EXCEPT ![r] = "reading"]
    <2>1. hold[r] = NoGen BY <1>3, <1>0 DEF ProtocolInv, HolderInv
    <2>2. /\ LeaseAccounting' /\ hold'[r] # NoGen
          /\ \A d \in Clients : d # r => hold'[d] = hold[d]
          /\ \A d \in Clients : hold'[d] # NoGen => Opened' /\ hold'[d] = active'
        BY <1>0, <1>1, <1>3, <2>1, PinHolder
    <2>3. HolderInv' BY <1>0, <1>1, <1>3, <2>2 DEF ProtocolInv, HolderInv
    <2>4. ExclusionInv'
        BY <1>1, <1>3, GateOpenNoSwitch DEF ProtocolInv, ExclusionInv, Exclusive, Switch
    <2> QED BY <1>2, <2>2, <2>3, <2>4 DEF ProtocolInv
<1>4. CASE task[r] = "reading" /\ Unpin(r) /\ task' = [task EXCEPT ![r] = "idle"]
    <2>1. hold[r] # NoGen BY <1>4, <1>0 DEF ProtocolInv, HolderInv
    <2>2. /\ LeaseAccounting' /\ hold'[r] = NoGen
          /\ \A d \in Clients : d # r => hold'[d] = hold[d]
          /\ \A d \in Clients : hold'[d] # NoGen => Opened' /\ hold'[d] = active'
        BY <1>0, <1>1, <1>4, <2>1, UnpinHolder
    <2>3. HolderInv' BY <1>0, <1>1, <1>4, <2>2 DEF ProtocolInv, HolderInv
    <2>4. ExclusionInv'
        BY <1>0, <1>1, <2>1, <2>2 DEF ProtocolInv, ExclusionInv, Exclusive, Switch
    <2> QED BY <1>2, <2>2, <2>3, <2>4 DEF ProtocolInv
<1>5. CASE /\ UNCHANGED <<hold, leases>>
           /\ \A q \in Readers : (task'[q] = "reading") = (task[q] = "reading")
    <2>1. LeaseAccounting' BY <1>5, SameLeases DEF ProtocolInv
    <2>2. HolderInv' BY <1>1, <1>5 DEF ProtocolInv, HolderInv, Opened
    <2>3. ExclusionInv' BY <1>1, <1>5 DEF ProtocolInv, ExclusionInv, Exclusive, Switch
    <2> QED BY <1>2, <2>1, <2>2, <2>3 DEF ProtocolInv
<1>6. CASE StartRead(r) BY <1>0, <1>3, <1>5, <1>6 DEF StartRead
<1>7. CASE GrantRead(r) BY <1>3, <1>7 DEF GrantRead, GateOpen
<1>8. CASE LeaveGate(r) BY <1>0, <1>5, <1>8 DEF LeaveGate, memory
<1>9. CASE ThreadStart(r) \/ ThreadAttach(r) \/ ThreadClose(r)
    BY <1>5, <1>9 DEF ThreadStart, ThreadAttach, ThreadClose, memory
<1>10. CASE FinishRead(r) BY <1>4, <1>10 DEF FinishRead
<1>11. CASE CancelRead(r) BY <1>4, <1>11 DEF CancelRead
<1> QED BY <1>6, <1>7, <1>8, <1>9, <1>10, <1>11 DEF ReaderStep

LEMMA SwitcherStepInv ==
    ASSUME TypeOK, ProtocolInv, NEW t \in Switchers, SwitcherStep(t)
    PROVE  ProtocolInv'
<1>0. /\ t \in Clients /\ Readers \subseteq Clients /\ Switchers \subseteq Clients
      /\ t \notin Readers
      /\ sw \in [Switchers -> SwitchPcs] /\ job.op \in JobOps
    BY ConstantsAssumption DEF Clients, TypeOK, ClientType, JobType
<1>1. UNCHANGED <<phase, task, files, current>>
    BY DEF SwitcherStep, StartBuild, GrantBuild, FinishBuild, FailBuild, RequestRollback,
           StartSwitch, RefuseSwitch, SubmitSwitch, CancelDrain, FinishSwitch, memory, disk
<1>2. UNCHANGED <<active, previous, job>> => JobInv' /\ FilesInv'
    BY <1>1 DEF ProtocolInv, JobInv, FilesInv, Opened
<1>3. CASE /\ phase = "open" /\ ~switching /\ sw[t] # "building"
           /\ Pin(t) /\ sw' = [sw EXCEPT ![t] = "building"]
           /\ UNCHANGED <<active, previous, switching, job>>
    <2>1. hold[t] = NoGen BY <1>3, <1>0 DEF ProtocolInv, HolderInv
    <2>2. /\ LeaseAccounting' /\ hold'[t] # NoGen
          /\ \A d \in Clients : d # t => hold'[d] = hold[d]
          /\ \A d \in Clients : hold'[d] # NoGen => Opened' /\ hold'[d] = active'
        BY <1>0, <1>1, <1>3, <2>1, PinHolder
    <2>3. HolderInv' BY <1>0, <1>1, <1>3, <2>2 DEF ProtocolInv, HolderInv
    <2>4. ~Switch /\ \A u \in Switchers : ~Exclusive(u) BY <1>3, GateOpenNoSwitch
    <2>5. ~Switch' /\ \A u \in Switchers : ~Exclusive(u)'
        BY <1>0, <1>3, <2>4 DEF Exclusive, Switch
    <2>6. ExclusionInv' BY <2>5 DEF ExclusionInv, Exclusive
    <2> QED BY <1>2, <1>3, <2>2, <2>3, <2>6 DEF ProtocolInv
<1>4. CASE /\ sw[t] = "building" /\ Unpin(t)
           /\ \E pc \in {"idle", "awaitActivate"} : sw' = [sw EXCEPT ![t] = pc]
           /\ UNCHANGED <<active, previous, switching, job>>
    <2>1. hold[t] # NoGen BY <1>4, <1>0 DEF ProtocolInv, HolderInv
    <2>2. /\ LeaseAccounting' /\ hold'[t] = NoGen
          /\ \A d \in Clients : d # t => hold'[d] = hold[d]
          /\ \A d \in Clients : hold'[d] # NoGen => Opened' /\ hold'[d] = active'
        BY <1>0, <1>1, <1>4, <2>1, UnpinHolder
    <2>3. HolderInv' BY <1>0, <1>1, <1>4, <2>2 DEF ProtocolInv, HolderInv
    <2>4. ExclusionInv'
        BY <1>0, <1>1, <1>4, <2>1, <2>2 DEF ProtocolInv, ExclusionInv, Exclusive, Switch
    <2> QED BY <1>2, <1>4, <2>2, <2>3, <2>4 DEF ProtocolInv
<1>5. CASE /\ sw[t] # "building" /\ UNCHANGED <<hold, leases, active, previous, switching, job>>
           /\ \/ sw[t] # "running"
              \/ ~Exclusive(t)
           /\ \E pc \in {"idle", "awaitGate", "awaitRollback"} : sw' = [sw EXCEPT ![t] = pc]
    <2>1. LeaseAccounting' BY <1>5, SameLeases DEF ProtocolInv
    <2>2. HolderInv' BY <1>0, <1>1, <1>5 DEF ProtocolInv, HolderInv, Opened
    <2>3. ExclusionInv'
        BY <1>0, <1>1, <1>5 DEF ProtocolInv, ExclusionInv, Exclusive, Switch
    <2> QED BY <1>2, <1>5, <2>1, <2>2, <2>3 DEF ProtocolInv
<1>6. CASE StartSwitch(t)
    <2>1. LeaseAccounting' BY <1>6, SameLeases DEF ProtocolInv, StartSwitch
    <2>2. HolderInv' BY <1>0, <1>1, <1>6 DEF ProtocolInv, HolderInv, Opened, StartSwitch
    <2>3. phase = "open" /\ ~Switch /\ \A u \in Switchers : ~Exclusive(u)
        BY <1>6, GateOpenNoSwitch DEF StartSwitch, GateOpen
    <2>4. \A u \in Switchers : u # t => ~Exclusive(u)'
        BY <1>0, <1>6, <2>3 DEF Exclusive, StartSwitch
    <2>5. \A u \in Switchers : sw'[u] # "running"
        BY <1>0, <1>6, <2>3 DEF Exclusive, StartSwitch
    <2>6. ExclusionInv' BY <1>1, <1>6, <2>3, <2>4, <2>5 DEF ExclusionInv, Switch, StartSwitch
    <2> QED BY <1>2, <1>6, <2>1, <2>2, <2>6 DEF ProtocolInv, StartSwitch
<1>7. CASE SubmitSwitch(t)
    <2>1. /\ Exclusive(t) /\ phase \in {"open", "closeWait"} /\ switching
          /\ \A u \in Switchers : u # t => ~Exclusive(u)
        BY <1>7 DEF SubmitSwitch, Exclusive, ProtocolInv, ExclusionInv
    <2>2. job.pc = "none"
        <3>1. ~Switch BY <1>7, <2>1 DEF SubmitSwitch, Exclusive, ProtocolInv, ExclusionInv
        <3> QED BY <1>0, <2>1, <3>1 DEF ProtocolInv, JobInv, Switch, JobOps
    <2>3. \A c \in Clients : hold[c] = NoGen
        BY <1>7, DrainedHolders DEF ProtocolInv, SubmitSwitch
    <2>4. /\ job'.pc = "validate" /\ job'.op \in {"activate", "rollback"} /\ job'.prev = active
          /\ sw' = [sw EXCEPT ![t] = "running"]
          /\ UNCHANGED <<active, previous, switching, leases, hold>>
        BY <1>7 DEF SubmitSwitch, memory
    <2>5. LeaseAccounting' BY <2>4, SameLeases DEF ProtocolInv
    <2>6. HolderInv' BY <1>0, <1>1, <1>7, <2>4 DEF ProtocolInv, HolderInv, Opened, SubmitSwitch
    <2>7. ExclusionInv'
        <3>1. sw'[t] = "running" /\ \A u \in Switchers : u # t => ~Exclusive(u)'
            BY <1>0, <2>1, <2>4 DEF Exclusive
        <3> QED BY <1>1, <2>1, <2>3, <2>4, <3>1 DEF ExclusionInv, Switch
    <2>8. JobInv' BY <1>1, <2>1, <2>4 DEF JobInv
    <2>9. FilesInv' BY <1>1, <2>2, <2>4 DEF ProtocolInv, FilesInv, Opened
    <2> QED BY <2>5, <2>6, <2>7, <2>8, <2>9 DEF ProtocolInv
<1>8. CASE FinishSwitch(t)
    <2>1. /\ Exclusive(t) /\ phase \in {"open", "closeWait"} /\ Switch
          /\ \A u \in Switchers : u # t => ~Exclusive(u)
          /\ job.prev = active /\ \A c \in Clients : hold[c] = NoGen
        BY <1>8 DEF FinishSwitch, Exclusive, ProtocolInv, ExclusionInv
    <2>2. /\ job'.pc = "none" /\ job'.op = "none" /\ sw' = [sw EXCEPT ![t] = "idle"]
          /\ UNCHANGED <<leases, hold>>
        BY <1>8 DEF FinishSwitch, NoJob, Return
    <2>3. LeaseAccounting' BY <2>2, SameLeases DEF ProtocolInv
    <2>4. HolderInv' BY <1>0, <1>1, <1>8, <2>1, <2>2 DEF ProtocolInv, HolderInv, FinishSwitch
    <2>5. \A u \in Switchers : ~Exclusive(u)' BY <1>0, <2>1, <2>2 DEF Exclusive
    <2>6. ExclusionInv' BY <2>2, <2>5 DEF ExclusionInv, Exclusive, Switch
    <2>7. JobInv' BY <1>1, <2>1, <2>2 DEF JobInv
    <2>8. FilesInv'
        <3>1. CASE job.pc = "done"
            BY <1>1, <1>8, <2>1, <3>1
               DEF FinishSwitch, ProtocolInv, FilesInv, JobInv, Opened
        <3>2. CASE job.pc = "failed"
            BY <1>1, <1>8, <2>1, <3>2 DEF FinishSwitch, ProtocolInv, FilesInv, Opened
        <3> QED BY <1>8, <3>1, <3>2 DEF FinishSwitch
    <2> QED BY <2>3, <2>4, <2>6, <2>7, <2>8 DEF ProtocolInv
<1>9. CASE StartBuild(t) BY <1>3, <1>5, <1>9 DEF StartBuild
<1>10. CASE GrantBuild(t) BY <1>3, <1>10 DEF GrantBuild, GateOpen
<1>11. CASE FinishBuild(t) BY <1>4, <1>11 DEF FinishBuild
<1>12. CASE FailBuild(t) BY <1>4, <1>12 DEF FailBuild
<1>13. CASE RequestRollback(t) BY <1>5, <1>13 DEF RequestRollback, memory
<1>14. CASE RefuseSwitch(t) BY <1>5, <1>14 DEF RefuseSwitch, Return, memory
<1>15. CASE CancelDrain(t) BY <1>5, <1>15 DEF CancelDrain, Return, memory
<1> QED BY <1>6, <1>7, <1>8, <1>9, <1>10, <1>11, <1>12, <1>13, <1>14, <1>15 DEF SwitcherStep

LEMMA JobStepInv ==
    ASSUME TypeOK, ProtocolInv, JobStep
    PROVE  ProtocolInv'
<1>1. UNCHANGED <<phase, active, previous, switching, leases, hold, task, sw>>
    BY DEF JobStep, JobValidate, JobMove, JobJournal, JobLink, JobUnjournal, JobCatalog,
           JobClear, JobCleanup, jobOnly, memory, clients
<1>2. HolderInv' /\ LeaseAccounting'
    BY <1>1, SameLeases DEF ProtocolInv, HolderInv, Opened
<1>3. job' = job \/ \E pc \in JobPcs \ {"none"} : Go(pc)
    BY DEF JobStep, JobValidate, JobMove, JobJournal, JobLink, JobUnjournal, JobCatalog,
           JobClear, JobCleanup, AfterBookkeeping, JobPcs
<1>4. /\ UNCHANGED <<job.op, job.target, job.prev>>
      /\ job' = job \/ job'.pc # "none"
      /\ job \in [pc : JobPcs, op : JobOps, target : MaybeGen, prev : MaybeGen]
    BY <1>3 DEF Go, TypeOK, JobType
<1>5. ExclusionInv' BY <1>1, <1>4 DEF ProtocolInv, ExclusionInv, Exclusive, Switch
<1>6. job.pc # "none" /\ job.op # "none"
    BY DEF ProtocolInv, JobInv, JobStep, JobValidate, JobMove, JobJournal, JobLink,
           JobUnjournal, JobCatalog, JobClear, JobCleanup
<1>7. job'.pc # "none" /\ job'.op # "none" BY <1>4, <1>6
<1> USE <1>1, <1>4, <1>7 DEF ProtocolInv, JobInv, FilesInv, Opened, Go
<1>8. CASE JobValidate
    <2>1. UNCHANGED <<files, current>> BY <1>8 DEF JobValidate, disk
    <2>2. job'.pc \in {"journal", "move", "failed"} /\ (job'.pc = "journal" => job.target \in files)
        BY <1>8 DEF JobValidate
    <2>3. job.op # "open" BY <1>8 DEF JobValidate
    <2> QED BY <1>2, <1>5, <1>8, <2>1, <2>2, <2>3 DEF JobValidate
<1>9. CASE JobMove
    <2>1. current' = current /\ files \subseteq files' BY <1>9 DEF JobMove
    <2>2. job'.pc \in {"journal", "failed"} /\ (job'.pc = "journal" => job.target \in files')
        BY <1>9 DEF JobMove
    <2> QED BY <1>2, <1>5, <1>9, <2>1, <2>2 DEF JobMove
<1>10. CASE JobJournal BY <1>2, <1>5, <1>10 DEF JobJournal
<1>11. CASE JobLink BY <1>2, <1>5, <1>10, <1>11 DEF JobLink
<1>12. CASE JobUnjournal BY <1>2, <1>5, <1>12 DEF JobUnjournal
<1>13. CASE JobCatalog
    <2>1. UNCHANGED <<files, current>> BY <1>13 DEF JobCatalog
    <2>2. job'.pc \in {"clear", AfterBookkeeping} BY <1>13 DEF JobCatalog
    <2> QED BY <1>2, <1>5, <1>13, <2>1, <2>2 DEF JobCatalog, AfterBookkeeping
<1>14. CASE JobClear
    <2>1. UNCHANGED <<files, current>> BY <1>14 DEF JobClear
    <2>2. job'.pc = AfterBookkeeping BY <1>14 DEF JobClear
    <2> QED BY <1>2, <1>5, <1>14, <2>1, <2>2 DEF JobClear, AfterBookkeeping
<1>15. CASE JobCleanup
    <2>1. job.op # "open" /\ current' = current /\ job'.pc \in {"cleanup", "done"}
        BY <1>15 DEF JobCleanup
    <2>2. files \cap {job.target, job.prev} \subseteq files'
        BY <1>15 DEF JobCleanup, Stale
    <2>3. JobInv' BY <1>15, <2>1, <2>2 DEF JobCleanup
    <2>4. Opened => job.prev = active
        <3> SUFFICES ASSUME Opened PROVE job.prev = active OBVIOUS
        <3>1. job.op \notin {"open", "bootstrap"} BY DEF Opened
        <3>2. Switch BY <1>6, <3>1 DEF Switch, JobOps
        <3> QED BY <3>2 DEF ExclusionInv
    <2>5. FilesInv' BY <1>15, <2>1, <2>2, <2>4 DEF JobCleanup
    <2> QED BY <1>2, <1>5, <2>3, <2>5
<1> QED BY <1>8, <1>9, <1>10, <1>11, <1>12, <1>13, <1>14, <1>15 DEF JobStep

LEMMA ForgetInv ==
    ASSUME TypeOK, Forget
    PROVE  ProtocolInv'
<1>1. /\ \A c \in Clients : hold'[c] = NoGen
      /\ \A r \in Readers : task'[r] = "idle"
      /\ \A t \in Switchers : sw'[t] = "idle"
      /\ phase' = "down" /\ job'.pc = "none" /\ job'.op = "none"
    BY DEF Forget, NoJob
<1>2. LeaseAccounting'
    <2> SUFFICES ASSUME NEW g \in Gens PROVE leases'[g] = Cardinality(Holders(g)')
        BY DEF LeaseAccounting
    <2>1. Holders(g)' = {} BY <1>1, ConstantsAssumption DEF Holders
    <2> QED BY <2>1, FS_EmptySet DEF Forget
<1>3. HolderInv' BY <1>1 DEF HolderInv, Clients
<1>4. ExclusionInv' BY <1>1 DEF ExclusionInv, Exclusive, Switch
<1>5. JobInv' /\ FilesInv' BY <1>1 DEF JobInv, FilesInv, Opened
<1> QED BY <1>2, <1>3, <1>4, <1>5 DEF ProtocolInv

LEMMA LifecycleStepInv ==
    ASSUME TypeOK, ProtocolInv, LifecycleStep
    PROVE  ProtocolInv'
<1>1. CASE Open
    <2>1. /\ ~Opened /\ phase = "down" /\ phase' = "opening" /\ ~Opened'
          /\ UNCHANGED <<hold, task, sw, leases, current>>
        BY <1>1 DEF Open, Opened, clients
    <2>2. /\ \A c \in Clients : hold[c] = NoGen
          /\ \A t \in Switchers : ~Exclusive(t)
        BY <2>1 DEF ProtocolInv, HolderInv, ExclusionInv
    <2>3. HolderInv' BY <2>1, <2>2 DEF ProtocolInv, HolderInv
    <2>4. LeaseAccounting' BY <2>1, SameLeases DEF ProtocolInv
    <2>5. ~Switch' BY <1>1 DEF Open, Switch
    <2>6. ExclusionInv' BY <2>1, <2>2, <2>5 DEF ExclusionInv, Exclusive
    <2>7. JobInv'
        <3>1. RecoveredPrevious \in files \cup {NoGen} BY DEF RecoveredPrevious
        <3> QED BY <1>1, <2>1, <3>1 DEF Open, JobInv
    <2>8. FilesInv' BY <2>1 DEF FilesInv
    <2> QED BY <2>3, <2>4, <2>6, <2>7, <2>8 DEF ProtocolInv
<1>2. CASE FinishOpen
    <2>1. /\ ~Opened /\ phase = "opening" /\ job'.pc = "none" /\ job'.op = "none"
          /\ UNCHANGED <<hold, task, sw, leases, current, files>>
        BY <1>2 DEF FinishOpen, NoJob, Opened, clients, disk
    <2>2. /\ \A c \in Clients : hold[c] = NoGen
          /\ \A t \in Switchers : ~Exclusive(t)
        BY <2>1 DEF ProtocolInv, HolderInv, ExclusionInv
    <2>3. HolderInv' BY <2>1, <2>2 DEF ProtocolInv, HolderInv, Clients
    <2>4. LeaseAccounting' BY <2>1, SameLeases DEF ProtocolInv
    <2>5. ExclusionInv' BY <2>1, <2>2 DEF ExclusionInv, Exclusive, Switch
    <2>6. phase' \in {"open", "down"} BY <1>2 DEF FinishOpen
    <2>7. JobInv' BY <2>1, <2>6 DEF JobInv
    <2>8. FilesInv'
        <3>1. CASE job.pc = "done" BY <1>2, <2>1, <3>1 DEF FinishOpen, ProtocolInv, JobInv, FilesInv
        <3>2. CASE job.pc # "done" BY <1>2, <3>2 DEF FinishOpen, FilesInv, Opened
        <3> QED BY <3>1, <3>2
    <2> QED BY <2>3, <2>4, <2>5, <2>7, <2>8 DEF ProtocolInv
<1>3. CASE StartClose \/ CloseGate \/ FinishClose
    <2>1. /\ UNCHANGED <<active, previous, leases, hold, task, sw, job, current, files>>
          /\ Opened /\ Opened' /\ phase' # "opening" /\ phase # "opening"
        BY <1>3 DEF StartClose, CloseGate, FinishClose, Opened, clients, disk
    <2>2. HolderInv' /\ LeaseAccounting' /\ JobInv' /\ FilesInv'
        BY <2>1, SameLeases DEF ProtocolInv, HolderInv, JobInv, FilesInv
    <2>3. \A t \in Switchers : Exclusive(t) => StartClose
        BY <1>3 DEF ProtocolInv, ExclusionInv, StartClose, CloseGate, FinishClose
    <2>4. ExclusionInv'
        BY <2>1, <2>3 DEF ProtocolInv, ExclusionInv, StartClose, Exclusive, Switch
    <2> QED BY <2>2, <2>4 DEF ProtocolInv
<1>4. CASE Reload \/ Crash BY <1>4, ForgetInv DEF Reload, Crash
<1> QED BY <1>1, <1>2, <1>3, <1>4 DEF LifecycleStep

\* The switch protocol holds in every reachable state: one switch at a time,
\* with every lease returned and counted, over generations that are all there.
THEOREM Protocol == Spec => []ProtocolInv
<1>1. Init => ProtocolInv
    <2> SUFFICES ASSUME Init PROVE ProtocolInv OBVIOUS
    <2> USE DEF Init
    <2>1. LeaseAccounting
        <3> SUFFICES ASSUME NEW g \in Gens PROVE leases[g] = Cardinality(Holders(g))
            BY DEF LeaseAccounting
        <3>1. Holders(g) = {} BY ConstantsAssumption DEF Holders
        <3> QED BY <3>1, FS_EmptySet
    <2>2. HolderInv BY DEF HolderInv, Clients
    <2>3. ExclusionInv BY DEF ExclusionInv, Exclusive, Switch, NoJob
    <2>4. JobInv BY DEF JobInv, NoJob
    <2>5. FilesInv BY DEF FilesInv, Opened
    <2> QED BY <2>1, <2>2, <2>3, <2>4, <2>5 DEF ProtocolInv
<1>2. TypeOK /\ ProtocolInv /\ [Next]_vars => ProtocolInv'
    <2> SUFFICES ASSUME TypeOK, ProtocolInv, [Next]_vars PROVE ProtocolInv' OBVIOUS
    <2>1. CASE Next
        BY <2>1, ReaderStepInv, SwitcherStepInv, JobStepInv, LifecycleStepInv DEF Next
    <2>2. CASE UNCHANGED vars
        BY <2>2 DEF vars, memory, clients, disk, ProtocolInv, HolderInv, ExclusionInv, Exclusive,
                    Switch, JobInv, FilesInv, Opened, LeaseAccounting, Holders
    <2> QED BY <2>1, <2>2
<1> QED BY <1>1, <1>2, TypeCorrect, PTL DEF Spec

\* The lease table counts exactly the unreleased leases, for every number of
\* readers and builders.
THEOREM LeasesCounted == Spec => []LeaseAccounting
<1>1. ProtocolInv => LeaseAccounting BY DEF ProtocolInv
<1> QED BY <1>1, Protocol, PTL

\* A pinned generation's file is never removed while the pin lasts.
THEOREM LeasedFilesKept == Spec => []LeasedFileExists
<1>1. ProtocolInv => LeasedFileExists
    BY DEF ProtocolInv, HolderInv, FilesInv, LeasedFileExists
<1> QED BY <1>1, Protocol, PTL

\* An open manager serves, links and retains generations whose files exist.
THEOREM ServedFilesKept == Spec => []ServedFilesExist
<1>1. TypeOK /\ ProtocolInv => ServedFilesExist
    <2> SUFFICES ASSUME TypeOK, ProtocolInv, phase = "open" PROVE ServedFilesExist
        BY DEF ServedFilesExist
    <2>1. active \in files /\ current \in files BY DEF ProtocolInv, FilesInv, Opened
    <2>2. ASSUME previous # NoGen, ~switching PROVE previous \in files
        <3>1. job.op \notin {"activate", "rollback", "open", "bootstrap"}
            BY <2>2, GateOpenNoSwitch DEF Switch, ProtocolInv, JobInv
        <3>2. job.pc = "none" BY <3>1 DEF TypeOK, JobType, JobOps, ProtocolInv, JobInv
        <3> QED BY <2>2, <3>2 DEF ProtocolInv, FilesInv, Opened
    <2> QED BY <2>1, <2>2 DEF ServedFilesExist
<1> QED BY <1>1, TypeCorrect, Protocol, PTL

-----------------------------------------------------------------------------
(* Draining the connections *)

\* Without cancellation a reader thread works only for a task that awaits it.
ThreadInv == \A r \in Readers : thread[r] # "none" => task[r] = "reading"

\* When no read is cancelled, waiting for the leases is waiting for the
\* connections: no reader thread works on a content file during a switch.
THEOREM ConnectionsDrained ==
    ASSUME CancelReads = FALSE
    PROVE  Spec => []SwitchAfterConnectionsClose
<1>1. Init => ThreadInv
    BY DEF Init, ThreadInv
<1>2. TypeOK /\ ThreadInv /\ [Next]_vars => ThreadInv'
    <2> SUFFICES ASSUME TypeOK, ThreadInv, [Next]_vars PROVE ThreadInv' OBVIOUS
    <2>1. ASSUME NEW r \in Readers, ReaderStep(r) PROVE ThreadInv'
        <3>1. /\ task \in [Readers -> {"idle", "waiting", "reading"}]
              /\ thread \in [Readers -> {"none", "queued", "starting", "attached"}]
            BY DEF TypeOK, ClientType
        <3>2. ~CancelRead(r) BY DEF CancelRead
        <3>3. CASE ThreadAttach(r)
            BY <3>1, <3>3 DEF ThreadAttach, EndThread, ThreadInv
        <3>4. CASE ~ThreadAttach(r)
            BY <2>1, <3>1, <3>2, <3>4 DEF ReaderStep, StartRead, GrantRead, LeaveGate,
               ThreadStart, ThreadClose, FinishRead, EndThread, ThreadInv
        <3> QED BY <3>3, <3>4
    <2>2. CASE UNCHANGED <<task, thread>> BY <2>2 DEF ThreadInv
    <2>3. CASE Forget BY <2>3 DEF Forget, ThreadInv
    <2>4. ASSUME NEW t \in Switchers, SwitcherStep(t) PROVE UNCHANGED <<task, thread>>
        BY <2>4 DEF SwitcherStep, StartBuild, GrantBuild, FinishBuild, FailBuild,
           RequestRollback, StartSwitch, RefuseSwitch, SubmitSwitch, CancelDrain, FinishSwitch
    <2>5. JobStep => UNCHANGED <<task, thread>>
        BY DEF JobStep, JobValidate, JobMove, JobJournal, JobLink, JobUnjournal, JobCatalog,
           JobClear, JobCleanup, jobOnly, clients
    <2>6. LifecycleStep => Forget \/ UNCHANGED <<task, thread>>
        BY DEF LifecycleStep, Open, FinishOpen, StartClose, CloseGate, FinishClose, Reload,
           Crash, clients
    <2>7. UNCHANGED vars => UNCHANGED <<task, thread>> BY DEF vars, clients
    <2> QED BY <2>1, <2>2, <2>3, <2>4, <2>5, <2>6, <2>7 DEF Next
<1>3. ProtocolInv /\ ThreadInv => SwitchAfterConnectionsClose
    BY DEF ProtocolInv, ExclusionInv, HolderInv, Switch, ThreadInv, Clients,
       SwitchAfterConnectionsClose
<1> QED BY <1>1, <1>2, <1>3, TypeCorrect, Protocol, PTL DEF Spec

-----------------------------------------------------------------------------
(* What the disk records of a switch, while no file operation fails *)

\* A job that has not moved the pointer yet, or no job at all.
Uncommitted == job.pc \in {"none", "validate", "move", "journal", "link", "failed"}

\* A linked generation is a file, and so is the one its journal, its catalog or
\* its parent names as the rollback target, which is another one.
DiskInv ==
    /\ files \cup staged \subseteq built
    /\ \A g \in Gens \ built : parent[g] = NoGen
    /\ current = NoGen => catalog = <<NoGen, NoGen>>
    /\ current # NoGen => /\ current \in files
                          /\ RecordedPrevious \in files \cup {NoGen}
                          /\ RecordedPrevious # current

\* Up to the commit point the manager's memory is what the disk records.
SettledInv ==
    Opened /\ Uncommitted => /\ active = current /\ previous = RecordedPrevious
                             /\ job.pc # "link" => journal = <<>>

\* What the executor job has recorded at each of its steps.
CommitInv ==
    /\ job.pc # "unjournal"
    /\ job.op = "bootstrap" /\ Uncommitted => current = NoGen
    /\ job.op = "rollback" /\ Uncommitted => job.target = previous
    /\ job.pc = "move" => job.op # "rollback" /\ job.target \in staged \ files
    /\ job.pc \in {"move", "journal", "link"} /\ job.op # "rollback"
          => /\ parent[job.target] = job.prev /\ job.target # current
             /\ current # NoGen => job.target # RecordedPrevious
    /\ job.pc = "link" => journal = <<job.prev, job.target>>
    /\ job.pc \in {"catalog", "clear", "cleanup", "done"} => job.prev = RecordedPrevious
    /\ job.pc \in {"clear", "cleanup", "done"} => catalog = <<job.target, job.prev>>
    /\ job.pc \in {"cleanup", "done"} => journal = <<>>

\* The history of the pointer, as it must be recorded before every step.
HistoryInv == DiskInv /\ SettledInv /\ CommitInv

\* With no fault allowed none happens.
LEMMA NoFault == MaxFaults = 0 /\ TypeOK => ~Fault
BY DEF Fault, TypeOK, BoundType

\* What the disk records depends on these variables only.
LEMMA SameRecord ==
    ASSUME UNCHANGED <<current, catalog, journal>>, parent'[current] = parent[current]
    PROVE  RecordedPrevious' = RecordedPrevious
BY DEF RecordedPrevious, JournalPrevious, CatalogPrevious

\* A linked generation's rollback target is a file, so a restart recovers it.
LEMMA RecoveredIsRecorded ==
    ASSUME TypeOK, DiskInv
    PROVE  RecoveredPrevious = IF current # NoGen THEN RecordedPrevious ELSE NoGen
BY DEF DiskInv, RecoveredPrevious

\* A step that leaves them alone keeps the history.
LEMMA SameHistory ==
    ASSUME HistoryInv, UNCHANGED <<phase, active, previous, job, disk>>
    PROVE  HistoryInv'
<1>1. RecordedPrevious' = RecordedPrevious BY SameRecord DEF disk
<1> QED BY <1>1 DEF HistoryInv, DiskInv, SettledInv, CommitInv, Uncommitted, Opened, disk

\* A build adds a generation nothing recorded names.
LEMMA FinishBuildHistory ==
    ASSUME TypeOK, ProtocolInv, HistoryInv, NEW t \in Switchers, FinishBuild(t)
    PROVE  HistoryInv'
<1>1. PICK g \in Gens \ built : /\ built' = built \cup {g} /\ staged' = staged \cup {g}
                                /\ parent' = [parent EXCEPT ![g] = hold[t]]
    BY DEF FinishBuild
<1>2. UNCHANGED <<phase, active, previous, job, current, files, catalog, journal>>
    BY DEF FinishBuild
<1>3. \A h \in built : parent'[h] = parent[h]
    BY <1>1 DEF TypeOK, DiskType
<1>4. current # NoGen => RecordedPrevious' = RecordedPrevious
    BY <1>2, <1>3, SameRecord DEF HistoryInv, DiskInv
<1>5. DiskInv'
    BY <1>1, <1>2, <1>3, <1>4 DEF HistoryInv, DiskInv, TypeOK, DiskType
<1>6. Opened \/ job.pc \in {"catalog", "clear", "cleanup", "done"} => current # NoGen
    BY ConstantsAssumption DEF ProtocolInv, FilesInv, JobInv, TypeOK, DiskType, JobType
<1>7. SettledInv'
    BY <1>2, <1>4, <1>6 DEF HistoryInv, SettledInv, Opened, Uncommitted
<1>8. job.pc \in {"move", "journal", "link"} => job.target \in built
    BY DEF ProtocolInv, JobInv, HistoryInv, CommitInv, DiskInv
<1>9. CommitInv'
    BY <1>1, <1>2, <1>3, <1>4, <1>6, <1>8 DEF HistoryInv, CommitInv, Uncommitted
<1> QED BY <1>5, <1>7, <1>9 DEF HistoryInv

\* So does a switcher outside its executor job.
LEMMA SwitcherStepHistory ==
    ASSUME TypeOK, ProtocolInv, HistoryInv, NEW t \in Switchers, SwitcherStep(t)
    PROVE  HistoryInv'
<1>1. CASE FinishBuild(t) BY <1>1, FinishBuildHistory
<1>2. CASE SubmitSwitch(t)
    <2>1. UNCHANGED <<phase, active, previous, disk>>
        BY <1>2 DEF SubmitSwitch, memory
    <2>2. phase \in {"open", "closeWait"} /\ ~Switch
        BY <1>2 DEF SubmitSwitch, ProtocolInv, ExclusionInv, Exclusive
    <2>3. job.pc = "none"
        BY <2>2 DEF ProtocolInv, JobInv, Switch, JobOps, TypeOK, JobType
    <2>4. /\ job'.pc = "validate"
          /\ job'.op \in {"activate", "rollback"}
          /\ job'.op = "rollback" => job'.target = previous
        BY <1>2 DEF SubmitSwitch
    <2>5. RecordedPrevious' = RecordedPrevious BY <2>1, SameRecord DEF disk
    <2>6. DiskInv' BY <2>1, <2>5 DEF HistoryInv, DiskInv, disk
    <2>7. SettledInv'
        BY <2>1, <2>3, <2>4, <2>5 DEF HistoryInv, SettledInv, Opened, Uncommitted, disk
    <2>8. CommitInv' BY <2>1, <2>4 DEF CommitInv
    <2> QED BY <2>6, <2>7, <2>8 DEF HistoryInv
<1>3. CASE FinishSwitch(t)
    <2>1. UNCHANGED <<phase, disk>> /\ job'.pc = "none" /\ job'.op = "none"
        BY <1>3 DEF FinishSwitch, NoJob
    <2>2. RecordedPrevious' = RecordedPrevious BY <2>1, SameRecord DEF disk
    <2>3. DiskInv' BY <2>1, <2>2 DEF HistoryInv, DiskInv, disk
    <2>4. CommitInv' BY <2>1 DEF CommitInv
    <2>5. CASE job.pc = "done"
        <3>1. active' = current /\ previous' = RecordedPrevious /\ journal = <<>>
            BY <1>3, <2>5 DEF FinishSwitch, ProtocolInv, JobInv, HistoryInv, CommitInv
        <3>2. SettledInv' BY <2>1, <2>2, <3>1 DEF SettledInv, disk
        <3> QED BY <2>3, <2>4, <3>2 DEF HistoryInv
    <2>6. CASE job.pc = "failed"
        <3>1. UNCHANGED <<active, previous>> BY <1>3, <2>6 DEF FinishSwitch
        <3>2. SettledInv'
            BY <2>1, <2>2, <2>6, <3>1 DEF HistoryInv, SettledInv, Uncommitted, Opened, disk
        <3> QED BY <2>3, <2>4, <3>2 DEF HistoryInv
    <2> QED BY <1>3, <2>5, <2>6 DEF FinishSwitch
<1>4. CASE ~FinishBuild(t) /\ ~SubmitSwitch(t) /\ ~FinishSwitch(t)
    <2>1. UNCHANGED <<phase, active, previous, job, disk>>
        BY <1>4 DEF SwitcherStep, StartBuild, GrantBuild, FailBuild, RequestRollback,
           StartSwitch, RefuseSwitch, CancelDrain, memory
    <2> QED BY <2>1, SameHistory
<1> QED BY <1>1, <1>2, <1>3, <1>4

\* The pointer's history survives each file operation of the job.
LEMMA JobStepHistory ==
    ASSUME MaxFaults = 0, TypeOK, ProtocolInv, HistoryInv, JobStep
    PROVE  HistoryInv'
<1>0. ~Fault BY NoFault
<1>1. UNCHANGED <<phase, active, previous, parent, built>>
    BY DEF JobStep, JobValidate, JobMove, JobJournal, JobLink, JobUnjournal, JobCatalog,
           JobClear, JobCleanup, jobOnly, memory, disk
<1>2. /\ job.pc # "none" /\ job.op # "none"
      /\ UNCHANGED <<job.op, job.target, job.prev>>
      /\ job \in [pc : JobPcs, op : JobOps, target : MaybeGen, prev : MaybeGen]
    BY DEF JobStep, JobValidate, JobMove, JobJournal, JobLink, JobUnjournal, JobCatalog,
           JobClear, JobCleanup, Go, ProtocolInv, JobInv, TypeOK, JobType
<1>3. Opened => Switch /\ job.prev = active
    BY <1>2 DEF Opened, Switch, JobOps, ProtocolInv, JobInv, ExclusionInv
<1>4. /\ files \subseteq Gens /\ NoGen \notin Gens /\ NoGen \notin files
      /\ job.pc \notin {"none", "validate", "failed"} => job.target \in Gens
    BY ConstantsAssumption DEF TypeOK, DiskType, JobType
<1>5. CASE JobValidate
    <2>1. UNCHANGED disk BY <1>5 DEF JobValidate
    <2>2. RecordedPrevious' = RecordedPrevious BY <2>1, SameRecord DEF disk
    <2>3. job.pc = "validate" /\ job'.pc \in {"journal", "move", "failed"}
        BY <1>2, <1>5 DEF JobValidate, Go
    <2>4. job'.pc = "journal" => job.op = "rollback"
        BY <1>2, <1>5 DEF JobValidate, Go
    <2>5. job'.pc = "move" => /\ job.op # "rollback" /\ job.target \in staged \ files
                              /\ parent[job.target] = job.prev
        BY <1>2, <1>5 DEF JobValidate, Go
    <2>6. DiskInv' BY <2>1, <2>2 DEF HistoryInv, DiskInv, disk
    <2>7. SettledInv'
        BY <1>1, <2>1, <2>2, <2>3 DEF HistoryInv, SettledInv, Uncommitted, Opened, disk
    <2>8. job'.pc = "move" => /\ job.target # current
                              /\ current # NoGen => job.target # RecordedPrevious
        <3> SUFFICES ASSUME job'.pc = "move"
                     PROVE  /\ job.target # current
                            /\ current # NoGen => job.target # RecordedPrevious
            OBVIOUS
        <3>1. job.target \in Gens BY <2>5 DEF TypeOK, DiskType
        <3> QED BY <1>4, <2>5, <3>1 DEF HistoryInv, DiskInv
    <2>9. CommitInv'
        BY <1>1, <1>2, <2>1, <2>2, <2>3, <2>4, <2>5, <2>8
           DEF HistoryInv, CommitInv, Uncommitted, disk
    <2> QED BY <2>6, <2>7, <2>9 DEF HistoryInv
<1>6. CASE JobMove
    <2>1. /\ job.pc = "move" /\ job'.pc = "journal"
          /\ staged' = staged \ {job.target} /\ files' = files \cup {job.target}
          /\ UNCHANGED <<current, catalog, journal>>
        BY <1>0, <1>2, <1>6 DEF JobMove, Go
    <2>2. RecordedPrevious' = RecordedPrevious BY <1>1, <2>1, SameRecord
    <2>3. DiskInv' BY <1>1, <2>1, <2>2 DEF HistoryInv, DiskInv, CommitInv
    <2>4. SettledInv'
        BY <1>1, <2>1, <2>2 DEF HistoryInv, SettledInv, Uncommitted, Opened
    <2>5. CommitInv'
        BY <1>1, <1>2, <2>1, <2>2 DEF HistoryInv, CommitInv, Uncommitted
    <2> QED BY <2>3, <2>4, <2>5 DEF HistoryInv
<1>7. CASE JobJournal
    <2>1. /\ job.pc = "journal" /\ job'.pc = "link" /\ journal' = <<job.prev, job.target>>
          /\ UNCHANGED <<current, files, staged, catalog>>
        BY <1>0, <1>2, <1>7 DEF JobJournal, Go
    <2>2. job.op \in {"bootstrap", "activate", "rollback"}
        BY <1>2, <2>1 DEF JobOps, ProtocolInv, JobInv
    <2>3. current # NoGen => RecordedPrevious' = RecordedPrevious
        <3> SUFFICES ASSUME current # NoGen PROVE RecordedPrevious' = RecordedPrevious OBVIOUS
        <3>1. Switch BY <2>1, <2>2 DEF HistoryInv, CommitInv, Uncommitted, Switch
        <3>2. Opened BY <1>2, <3>1 DEF Switch, ProtocolInv, ExclusionInv, Opened, Exclusive
        <3>3. journal = <<>> /\ active = current /\ previous = RecordedPrevious
            BY <2>1, <3>2 DEF HistoryInv, SettledInv, Uncommitted
        <3>4. job.target # current
            BY <2>1, <3>1, <3>3 DEF HistoryInv, CommitInv, DiskInv, Switch, Uncommitted
        <3>5. JournalPrevious = NoGen /\ JournalPrevious' = NoGen
            BY <2>1, <3>3, <3>4 DEF JournalPrevious
        <3> QED BY <1>1, <2>1, <3>5 DEF RecordedPrevious, CatalogPrevious
    <2>4. DiskInv' BY <1>1, <2>1, <2>3 DEF HistoryInv, DiskInv
    <2>5. Opened => current # NoGen BY <1>4 DEF ProtocolInv, FilesInv
    <2>6. SettledInv'
        BY <1>1, <2>1, <2>3, <2>5 DEF HistoryInv, SettledInv, Uncommitted, Opened
    <2>7. CommitInv'
        BY <1>1, <1>2, <2>1, <2>3 DEF HistoryInv, CommitInv, Uncommitted
    <2> QED BY <2>4, <2>6, <2>7 DEF HistoryInv
<1>8. CASE JobLink
    <2>1. /\ job.pc = "link" /\ job'.pc = "catalog" /\ current' = job.target
          /\ UNCHANGED <<files, staged, catalog, journal>>
        BY <1>0, <1>2, <1>8 DEF JobLink, Go
    <2>2. /\ journal = <<job.prev, job.target>> /\ job.target \in files /\ job.target \in Gens
        BY <1>4, <2>1 DEF HistoryInv, CommitInv, ProtocolInv, JobInv
    <2>3. RecordedPrevious' = job.prev /\ job.prev \in files \cup {NoGen} /\ job.prev # job.target
        <3>1. CASE job.op = "bootstrap"
            <4>1. job.prev = NoGen /\ current = NoGen /\ catalog = <<NoGen, NoGen>>
                BY <2>1, <3>1 DEF ProtocolInv, JobInv, HistoryInv, CommitInv, DiskInv, Uncommitted
            <4>2. parent[job.target] = NoGen
                BY <2>1, <3>1, <4>1 DEF HistoryInv, CommitInv
            <4>3. JournalPrevious' = NoGen /\ CatalogPrevious' = NoGen
                BY <1>4, <2>1, <2>2, <4>1 DEF JournalPrevious, CatalogPrevious
            <4> QED BY <1>1, <1>4, <2>1, <2>2, <4>1, <4>2, <4>3 DEF RecordedPrevious
        <3>2. CASE Switch
            <4>1. Opened BY <1>2, <3>2 DEF Switch, ProtocolInv, ExclusionInv, Opened, Exclusive
            <4>2. job.prev = current /\ current \in files /\ previous = RecordedPrevious
                BY <1>3, <2>1, <4>1
                   DEF HistoryInv, SettledInv, Uncommitted, ProtocolInv, FilesInv
            <4>3. job.target # current
                BY <1>4, <2>1, <3>2, <4>2
                   DEF HistoryInv, CommitInv, DiskInv, Switch, Uncommitted
            <4>4. JournalPrevious' = job.prev BY <2>1, <2>2 DEF JournalPrevious
            <4> QED BY <1>4, <4>2, <4>3, <4>4 DEF RecordedPrevious
        <3> QED BY <1>2, <2>1, <3>1, <3>2 DEF Switch, JobOps, ProtocolInv, JobInv
    <2>4. DiskInv' BY <1>1, <1>4, <2>1, <2>2, <2>3 DEF HistoryInv, DiskInv
    <2>5. SettledInv' BY <2>1 DEF SettledInv, Uncommitted
    <2>6. CommitInv' BY <1>2, <2>1, <2>3 DEF CommitInv, Uncommitted
    <2> QED BY <2>4, <2>5, <2>6 DEF HistoryInv
<1>9. CASE JobUnjournal BY <1>9 DEF JobUnjournal, HistoryInv, CommitInv
<1>10. CASE JobCatalog
    <2>1. /\ job.pc = "catalog" /\ job'.pc = "clear" /\ catalog' = <<job.target, job.prev>>
          /\ UNCHANGED <<current, files, staged, journal>>
        BY <1>0, <1>2, <1>10 DEF JobCatalog, Go
    <2>2. current = job.target /\ job.prev = RecordedPrevious /\ current # NoGen
        BY <1>4, <2>1 DEF ProtocolInv, JobInv, HistoryInv, CommitInv
    <2>3. JournalPrevious' = JournalPrevious BY <2>1 DEF JournalPrevious
    <2>4. CatalogPrevious' = job.prev BY <2>1, <2>2 DEF CatalogPrevious
    <2>5. RecordedPrevious' = RecordedPrevious
        BY <1>1, <2>1, <2>2, <2>3, <2>4 DEF RecordedPrevious
    <2>6. DiskInv' BY <1>1, <2>1, <2>2, <2>5 DEF HistoryInv, DiskInv
    <2>7. SettledInv' BY <2>1 DEF SettledInv, Uncommitted
    <2>8. CommitInv' BY <1>2, <2>1, <2>2, <2>5 DEF CommitInv, Uncommitted
    <2> QED BY <2>6, <2>7, <2>8 DEF HistoryInv
<1>11. CASE JobClear
    <2>1. /\ job.pc = "clear" /\ job'.pc \in {"cleanup", "done"} /\ journal' = <<>>
          /\ UNCHANGED <<current, files, staged, catalog>>
        BY <1>0, <1>2, <1>11 DEF JobClear, Go, AfterBookkeeping
    <2>2. /\ current = job.target /\ job.prev = RecordedPrevious /\ current # NoGen
          /\ catalog = <<job.target, job.prev>>
        BY <1>4, <2>1 DEF ProtocolInv, JobInv, HistoryInv, CommitInv
    <2>3. JournalPrevious' = NoGen BY <2>1 DEF JournalPrevious
    <2>4. CatalogPrevious' = job.prev BY <2>1, <2>2 DEF CatalogPrevious
    <2>5. RecordedPrevious' = RecordedPrevious
        BY <1>1, <2>1, <2>2, <2>3, <2>4 DEF RecordedPrevious
    <2>6. DiskInv' BY <1>1, <2>1, <2>2, <2>5 DEF HistoryInv, DiskInv
    <2>7. SettledInv' BY <2>1 DEF SettledInv, Uncommitted
    <2>8. CommitInv' BY <1>2, <2>1, <2>2, <2>5 DEF CommitInv, Uncommitted
    <2> QED BY <2>6, <2>7, <2>8 DEF HistoryInv
<1>12. CASE JobCleanup
    <2>1. /\ job.pc = "cleanup" /\ job'.pc \in {"cleanup", "done"}
          /\ files \cap {job.target, job.prev} \subseteq files' /\ files' \subseteq files
          /\ UNCHANGED <<current, staged, catalog, journal>>
        BY <1>0, <1>2, <1>12 DEF JobCleanup, Go, Stale
    <2>2. /\ current = job.target /\ job.prev = RecordedPrevious /\ current # NoGen
        BY <1>4, <2>1 DEF ProtocolInv, JobInv, HistoryInv, CommitInv
    <2>3. RecordedPrevious' = RecordedPrevious BY <1>1, <2>1, SameRecord
    <2>4. DiskInv' BY <1>1, <2>1, <2>2, <2>3 DEF HistoryInv, DiskInv
    <2>5. SettledInv' BY <2>1 DEF SettledInv, Uncommitted
    <2>6. CommitInv' BY <1>2, <2>1, <2>3 DEF HistoryInv, CommitInv, Uncommitted
    <2> QED BY <2>4, <2>5, <2>6 DEF HistoryInv
<1> QED BY <1>5, <1>6, <1>7, <1>8, <1>9, <1>10, <1>11, <1>12 DEF JobStep

\* Opening recovers from the record, closing leaves it alone, and a crash
\* leaves it whatever step it hits.
LEMMA LifecycleStepHistory ==
    ASSUME TypeOK, ProtocolInv, HistoryInv, LifecycleStep
    PROVE  HistoryInv'
<1>1. CASE Open
    <2>1. phase' = "opening" /\ UNCHANGED <<active, previous, current, parent, catalog, journal>>
        BY <1>1 DEF Open
    <2>2. RecordedPrevious' = RecordedPrevious BY <2>1, SameRecord
    <2>3. SettledInv' BY <2>1 DEF SettledInv, Opened
    <2>4. CASE current = NoGen
        <3>1. PICK g \in Gens \ built :
                 /\ built' = built \cup {g} /\ staged' = staged \cup {g}
                 /\ job' = [pc |-> "validate", op |-> "bootstrap", target |-> g, prev |-> NoGen]
            BY <1>1, <2>4 DEF Open
        <3>2. files' = files BY <1>1, <2>4 DEF Open
        <3>3. DiskInv' BY <2>1, <2>4, <3>1, <3>2 DEF HistoryInv, DiskInv
        <3>4. CommitInv' BY <2>1, <2>4, <3>1 DEF CommitInv
        <3> QED BY <2>3, <3>3, <3>4 DEF HistoryInv
    <2>5. CASE current # NoGen
        <3>1. /\ job' = [pc |-> "catalog", op |-> "open", target |-> current,
                         prev |-> RecoveredPrevious]
              /\ files' = files \cup {current} /\ UNCHANGED <<built, staged>>
            BY <1>1, <2>5 DEF Open
        <3>2. RecoveredPrevious = RecordedPrevious
            BY <2>5, RecoveredIsRecorded DEF HistoryInv
        <3>3. DiskInv' BY <2>1, <2>2, <2>5, <3>1 DEF HistoryInv, DiskInv
        <3>4. CommitInv' BY <2>2, <3>1, <3>2 DEF CommitInv, Uncommitted
        <3> QED BY <2>3, <3>3, <3>4 DEF HistoryInv
    <2> QED BY <2>4, <2>5
<1>2. CASE FinishOpen
    <2>1. job'.pc = "none" /\ job'.op = "none" /\ UNCHANGED disk
        BY <1>2 DEF FinishOpen, NoJob
    <2>2. RecordedPrevious' = RecordedPrevious BY <2>1, SameRecord DEF disk
    <2>3. DiskInv' /\ CommitInv'
        BY <2>1, <2>2 DEF HistoryInv, DiskInv, CommitInv, disk
    <2>4. SettledInv'
        <3>1. CASE job.pc = "done"
            <4>1. active' = current /\ previous' = RecordedPrevious /\ journal = <<>>
                BY <1>2, <3>1 DEF FinishOpen, ProtocolInv, JobInv, HistoryInv, CommitInv
            <4> QED BY <2>1, <2>2, <4>1 DEF SettledInv, disk
        <3>2. CASE job.pc # "done"
            BY <1>2, <3>2 DEF FinishOpen, SettledInv, Opened
        <3> QED BY <3>1, <3>2
    <2> QED BY <2>3, <2>4 DEF HistoryInv
<1>3. CASE StartClose \/ CloseGate \/ FinishClose
    <2>1. UNCHANGED <<active, previous, job, disk>> /\ Opened /\ Opened'
        BY <1>3 DEF StartClose, CloseGate, FinishClose, Opened
    <2>2. RecordedPrevious' = RecordedPrevious BY <2>1, SameRecord DEF disk
    <2> QED BY <2>1, <2>2 DEF HistoryInv, DiskInv, SettledInv, CommitInv, Uncommitted, disk
<1>4. CASE Reload \/ Crash
    <2>1. phase' = "down" /\ job'.pc = "none" /\ job'.op = "none" /\ UNCHANGED disk
        BY <1>4 DEF Reload, Crash, Forget, NoJob
    <2>2. RecordedPrevious' = RecordedPrevious BY <2>1, SameRecord DEF disk
    <2> QED BY <2>1, <2>2 DEF HistoryInv, DiskInv, SettledInv, CommitInv, Opened, disk
<1> QED BY <1>1, <1>2, <1>3, <1>4 DEF LifecycleStep

\* While no file operation fails, journal, catalog and pointer record before each
\* step of a switch what a crash after it needs (_activate_sync, _rollback_sync).
THEOREM HistoryRecorded ==
    ASSUME MaxFaults = 0
    PROVE  Spec => []HistoryInv
<1>1. Init => HistoryInv
    BY DEF Init, NoJob, HistoryInv, DiskInv, SettledInv, CommitInv, Opened
<1>2. TypeOK /\ ProtocolInv /\ HistoryInv /\ [Next]_vars => HistoryInv'
    <2> SUFFICES ASSUME TypeOK, ProtocolInv, HistoryInv, [Next]_vars PROVE HistoryInv' OBVIOUS
    <2>1. ASSUME NEW r \in Readers, ReaderStep(r) PROVE HistoryInv'
        <3>1. UNCHANGED <<phase, active, previous, job, disk>>
            BY <2>1 DEF ReaderStep, StartRead, GrantRead, LeaveGate, ThreadStart, ThreadAttach,
               ThreadClose, FinishRead, CancelRead, memory
        <3> QED BY <3>1, SameHistory
    <2>2. CASE UNCHANGED vars BY <2>2, SameHistory DEF vars, memory
    <2> QED BY <2>1, <2>2, SwitcherStepHistory, JobStepHistory, LifecycleStepHistory DEF Next
<1> QED BY <1>1, <1>2, TypeCorrect, Protocol, PTL DEF Spec

\* While no file operation fails, a reader let through the gate is handed the
\* generation the current.db pointer names.
THEOREM PointerFollowed ==
    ASSUME MaxFaults = 0
    PROVE  Spec => []ReadersFollowPointer
<1>1. TypeOK /\ ProtocolInv /\ HistoryInv => ReadersFollowPointer
    <2> SUFFICES ASSUME TypeOK, ProtocolInv, HistoryInv, GateOpen PROVE active = current
        BY DEF ReadersFollowPointer
    <2>1. Opened /\ ~Switch BY GateOpenNoSwitch DEF GateOpen, Opened
    <2>2. job.pc = "none"
        BY <2>1 DEF Opened, Switch, ProtocolInv, JobInv, TypeOK, JobType, JobOps
    <2> QED BY <2>1, <2>2 DEF HistoryInv, SettledInv, Uncommitted
<1> QED BY <1>1, TypeCorrect, Protocol, HistoryRecorded, PTL

\* Which steps move the pointer, and from what to what.
LEMMA PointerMove ==
    ASSUME MaxFaults = 0, TypeOK, ProtocolInv, HistoryInv, Next, current' # current
    PROVE  /\ JobLink /\ current' = job.target /\ job.prev = current
           /\ \A c \in Clients : hold[c] = NoGen
           /\ RecoveredPrevious' = current
           /\ \/ /\ parent[job.target] = current
                 /\ job.target \in Gens \ {current, RecoveredPrevious}
              \/ /\ job.target = RecoveredPrevious /\ RecoveredPrevious # NoGen
                 /\ current # NoGen
<1>1. JobLink
    BY DEF Next, ReaderStep, StartRead, GrantRead, LeaveGate, ThreadStart, ThreadAttach,
       ThreadClose, FinishRead, CancelRead, SwitcherStep, StartBuild, GrantBuild, FinishBuild,
       FailBuild, RequestRollback, StartSwitch, RefuseSwitch, SubmitSwitch, CancelDrain,
       FinishSwitch, JobStep, JobValidate, JobMove, JobJournal, JobUnjournal, JobCatalog,
       JobClear, JobCleanup, LifecycleStep, Open, FinishOpen, StartClose, CloseGate,
       FinishClose, Reload, Crash, Forget, disk
<1>2. ~Fault BY NoFault
<1>3. /\ job.pc = "link" /\ job'.pc = "catalog" /\ current' = job.target
      /\ UNCHANGED <<job.prev, job.target, job.op>>
      /\ UNCHANGED <<files, parent, catalog, journal>>
    BY <1>1, <1>2 DEF JobLink, Go, TypeOK, JobType
<1>4. HistoryInv' /\ TypeOK'
    BY <1>1, JobStepHistory, JobStepType DEF JobStep
<1>5. /\ files \subseteq Gens /\ NoGen \notin Gens /\ job.target \in Gens
    BY <1>3, ConstantsAssumption DEF TypeOK, DiskType, JobType
<1>6. RecoveredPrevious' = job.prev
    <2>1. RecordedPrevious' = job.prev BY <1>3, <1>4 DEF HistoryInv, CommitInv
    <2>2. RecoveredPrevious' = IF current' # NoGen THEN RecordedPrevious' ELSE NoGen
        BY <1>4 DEF HistoryInv, DiskInv, RecoveredPrevious
    <2> QED BY <1>3, <1>5, <2>1, <2>2
<1>7. RecoveredPrevious = IF current # NoGen THEN RecordedPrevious ELSE NoGen
    BY RecoveredIsRecorded DEF HistoryInv
<1>8. CASE job.op = "bootstrap"
    <2>1. phase = "opening" /\ job.prev = NoGen /\ current = NoGen
        BY <1>3, <1>8 DEF ProtocolInv, JobInv, HistoryInv, CommitInv, Uncommitted
    <2>2. \A c \in Clients : hold[c] = NoGen
        BY <2>1 DEF ProtocolInv, HolderInv, Opened
    <2>3. parent[job.target] = NoGen
        BY <1>3, <1>8, <2>1 DEF HistoryInv, CommitInv
    <2> QED BY <1>1, <1>3, <1>5, <1>6, <1>7, <2>1, <2>2, <2>3
<1>9. CASE Switch
    <2>1. /\ Opened /\ job.prev = active /\ \A c \in Clients : hold[c] = NoGen
        BY <1>9 DEF Switch, ProtocolInv, ExclusionInv, Opened, Exclusive
    <2>2. active = current /\ previous = RecordedPrevious /\ current # NoGen
        BY <1>3, <1>5, <2>1 DEF HistoryInv, SettledInv, Uncommitted, ProtocolInv, FilesInv
    <2>3. CASE job.op = "rollback"
        <3>1. job.target = RecoveredPrevious
            BY <1>3, <1>7, <2>2, <2>3 DEF HistoryInv, CommitInv, Uncommitted
        <3> QED BY <1>1, <1>3, <1>5, <1>6, <2>1, <2>2, <3>1
    <2>4. CASE job.op = "activate"
        <3>1. parent[job.target] = current /\ job.target \notin {current, RecoveredPrevious}
            BY <1>3, <1>7, <2>1, <2>2, <2>4 DEF HistoryInv, CommitInv
        <3> QED BY <1>1, <1>3, <1>5, <1>6, <2>1, <2>2, <3>1
    <2> QED BY <1>9, <2>3, <2>4 DEF Switch
<1> QED BY <1>3, <1>8, <1>9 DEF Switch, JobOps, ProtocolInv, JobInv, TypeOK, JobType

\* While no file operation fails, the pointer only ever moves to a generation
\* built from the one it leaves, or back to the retained one.
THEOREM ActivationsKept ==
    ASSUME MaxFaults = 0
    PROVE  Spec => NoLostActivation
<1>1. TypeOK /\ ProtocolInv /\ HistoryInv /\ [Next]_vars
        => [current # NoGen => parent[current'] = current \/ current' = RecoveredPrevious]_current
    <2> SUFFICES ASSUME TypeOK, ProtocolInv, HistoryInv, [Next]_vars, current' # current
                 PROVE  parent[current'] = current \/ current' = RecoveredPrevious
        OBVIOUS
    <2>1. Next BY DEF vars, disk
    <2> QED BY <2>1, PointerMove
<1> QED BY <1>1, TypeCorrect, Protocol, HistoryRecorded, PTL DEF Spec, NoLostActivation

-----------------------------------------------------------------------------
(* The refinement of the register *)

\* A step that leaves the pointer alone leaves the rollback target alone: the
\* journal, the catalog and the parent take turns in recording it.
LEMMA RetainedStable ==
    ASSUME MaxFaults = 0, TypeOK, ProtocolInv, HistoryInv, TypeOK', HistoryInv', Next,
           current' = current
    PROVE  RecoveredPrevious' = RecoveredPrevious
<1>1. ASSUME current # NoGen, RecordedPrevious' = RecordedPrevious
      PROVE  RecoveredPrevious' = RecoveredPrevious
    BY <1>1 DEF HistoryInv, DiskInv, RecoveredPrevious
<1>2. CASE current = NoGen BY <1>2 DEF RecoveredPrevious
<1>3. ASSUME current # NoGen, UNCHANGED <<parent, catalog, journal>>
      PROVE  RecordedPrevious' = RecordedPrevious
    BY <1>3, SameRecord
<1>4. ASSUME current # NoGen, JobStep PROVE RecordedPrevious' = RecordedPrevious
    <2>0. /\ ~Fault /\ UNCHANGED <<phase, previous, parent>>
          /\ UNCHANGED <<job.op, job.target, job.prev>>
        BY <1>4, NoFault DEF JobStep, JobValidate, JobMove, JobJournal, JobLink, JobUnjournal,
           JobCatalog, JobClear, JobCleanup, jobOnly, memory, disk, Go, TypeOK, JobType
    <2>1. CASE JobJournal
        <3>1. /\ job.pc = "journal" /\ job'.pc = "link"
            BY <2>0, <2>1 DEF JobJournal, Go, TypeOK, JobType
        <3>2. Switch
            BY <1>4, <3>1 DEF Switch, JobOps, TypeOK, JobType, ProtocolInv, JobInv, HistoryInv,
                              CommitInv, Uncommitted
        <3>3. Opened /\ Opened'
            BY <2>0, <3>2 DEF Switch, ProtocolInv, ExclusionInv, Opened, Exclusive
        <3> QED BY <2>0, <3>1, <3>3 DEF HistoryInv, SettledInv, Uncommitted
    <2>2. CASE JobLink
        <3>1. job.pc = "link" /\ job.target = current
            BY <2>0, <2>2 DEF JobLink
        <3>2. Switch
            BY <1>4, <3>1 DEF Switch, JobOps, TypeOK, JobType, ProtocolInv, JobInv, HistoryInv,
                              CommitInv, Uncommitted
        <3>3. Opened
            BY <3>2 DEF Switch, ProtocolInv, ExclusionInv, Opened, Exclusive
        <3>4. job.op = "rollback" => job.target = RecordedPrevious
            BY <3>1, <3>3 DEF HistoryInv, SettledInv, CommitInv, Uncommitted
        <3> QED BY <1>4, <3>1, <3>4 DEF HistoryInv, CommitInv, DiskInv
    <2>3. CASE JobCatalog
        <3>1. job.pc = "catalog" /\ job'.pc = "clear"
            BY <2>0, <2>3 DEF JobCatalog, Go, TypeOK, JobType
        <3> QED BY <2>0, <3>1 DEF HistoryInv, CommitInv
    <2>4. CASE JobClear
        <3>1. job.pc = "clear" /\ job'.pc \in {"cleanup", "done"}
            BY <2>0, <2>4 DEF JobClear, Go, AfterBookkeeping, TypeOK, JobType
        <3> QED BY <2>0, <3>1 DEF HistoryInv, CommitInv
    <2>5. CASE JobUnjournal BY <2>5 DEF JobUnjournal, HistoryInv, CommitInv
    <2>6. CASE JobValidate \/ JobMove \/ JobCleanup
        BY <1>3, <1>4, <2>6 DEF JobValidate, JobMove, JobCleanup, disk
    <2> QED BY <1>4, <2>1, <2>2, <2>3, <2>4, <2>5, <2>6 DEF JobStep
<1>5. ASSUME current # NoGen, NEW t \in Switchers, FinishBuild(t)
      PROVE  RecordedPrevious' = RecordedPrevious
    <2>1. PICK g \in Gens \ built : parent' = [parent EXCEPT ![g] = hold[t]]
        BY <1>5 DEF FinishBuild
    <2>2. parent'[current] = parent[current]
        BY <1>5, <2>1 DEF TypeOK, DiskType, HistoryInv, DiskInv
    <2> QED BY <1>5, <2>2, SameRecord DEF FinishBuild
<1>6. ASSUME ~JobStep, \A t \in Switchers : ~FinishBuild(t)
      PROVE  UNCHANGED <<parent, catalog, journal>>
    BY <1>6 DEF Next, ReaderStep, StartRead, GrantRead, LeaveGate, ThreadStart, ThreadAttach,
       ThreadClose, FinishRead, CancelRead, SwitcherStep, StartBuild, GrantBuild, FailBuild,
       RequestRollback, StartSwitch, RefuseSwitch, SubmitSwitch, CancelDrain, FinishSwitch,
       LifecycleStep, Open, FinishOpen, StartClose, CloseGate, FinishClose, Reload, Crash,
       Forget, disk
<1> QED BY <1>1, <1>2, <1>3, <1>4, <1>5, <1>6

\* Every step pins the current value for one client, releases one client's pin,
\* drops them all or leaves them alone.
LEMMA PinsStep ==
    ASSUME TypeOK, ProtocolInv, HistoryInv, Next
    PROVE  \/ UNCHANGED hold
           \/ hold' = [c \in Clients |-> NoGen]
           \/ \E c \in Clients : /\ hold[c] = NoGen /\ current # NoGen
                                 /\ hold' = [hold EXCEPT ![c] = current]
           \/ \E c \in Clients : hold[c] # NoGen /\ hold' = [hold EXCEPT ![c] = NoGen]
<1>0. Readers \subseteq Clients /\ Switchers \subseteq Clients BY DEF Clients
<1>1. ASSUME GateOpen PROVE active = current /\ current # NoGen
    <2>1. Opened /\ ~Switch BY <1>1, GateOpenNoSwitch DEF GateOpen, Opened
    <2>2. job.pc = "none"
        BY <2>1 DEF Opened, Switch, ProtocolInv, JobInv, TypeOK, JobType, JobOps
    <2> QED BY <2>1, <2>2, ConstantsAssumption
            DEF HistoryInv, SettledInv, Uncommitted, ProtocolInv, FilesInv, TypeOK, DiskType
<1>2. ASSUME NEW r \in Readers, StartRead(r) \/ GrantRead(r), hold' # hold
      PROVE  hold[r] = NoGen /\ GateOpen /\ hold' = [hold EXCEPT ![r] = active]
    BY <1>2 DEF StartRead, GrantRead, GateOpen, Pin, ProtocolInv, HolderInv
<1>3. ASSUME NEW t \in Switchers, StartBuild(t) \/ GrantBuild(t), hold' # hold
      PROVE  hold[t] = NoGen /\ GateOpen /\ hold' = [hold EXCEPT ![t] = active]
    BY <1>3 DEF StartBuild, GrantBuild, GateOpen, Pin, ProtocolInv, HolderInv
<1>4. ASSUME NEW r \in Readers, FinishRead(r) \/ CancelRead(r)
      PROVE  hold[r] # NoGen /\ hold' = [hold EXCEPT ![r] = NoGen]
    BY <1>4 DEF FinishRead, CancelRead, Unpin, ProtocolInv, HolderInv
<1>5. ASSUME NEW t \in Switchers, FinishBuild(t) \/ FailBuild(t)
      PROVE  hold[t] # NoGen /\ hold' = [hold EXCEPT ![t] = NoGen]
    BY <1>5 DEF FinishBuild, FailBuild, Unpin, ProtocolInv, HolderInv
<1>6. ASSUME NEW r \in Readers, LeaveGate(r) \/ ThreadStart(r) \/ ThreadAttach(r) \/ ThreadClose(r)
      PROVE  UNCHANGED hold
    BY <1>6 DEF LeaveGate, ThreadStart, ThreadAttach, ThreadClose
<1>7. ASSUME NEW t \in Switchers, RequestRollback(t) \/ StartSwitch(t) \/ RefuseSwitch(t)
                                  \/ SubmitSwitch(t) \/ CancelDrain(t) \/ FinishSwitch(t)
      PROVE  UNCHANGED hold
    BY <1>7 DEF RequestRollback, StartSwitch, RefuseSwitch, SubmitSwitch, CancelDrain, FinishSwitch
<1>8. JobStep => UNCHANGED hold
    BY DEF JobStep, JobValidate, JobMove, JobJournal, JobLink, JobUnjournal, JobCatalog,
       JobClear, JobCleanup, jobOnly, clients
<1>9. LifecycleStep => UNCHANGED hold \/ hold' = [c \in Clients |-> NoGen]
    BY DEF LifecycleStep, Open, FinishOpen, StartClose, CloseGate, FinishClose, Reload, Crash,
       Forget, clients
<1>10. ASSUME NEW r \in Readers, ReaderStep(r)
       PROVE  \/ UNCHANGED hold
              \/ hold[r] = NoGen /\ GateOpen /\ hold' = [hold EXCEPT ![r] = active]
              \/ hold[r] # NoGen /\ hold' = [hold EXCEPT ![r] = NoGen]
    BY <1>2, <1>4, <1>6, <1>10 DEF ReaderStep
<1>11. ASSUME NEW t \in Switchers, SwitcherStep(t)
       PROVE  \/ UNCHANGED hold
              \/ hold[t] = NoGen /\ GateOpen /\ hold' = [hold EXCEPT ![t] = active]
              \/ hold[t] # NoGen /\ hold' = [hold EXCEPT ![t] = NoGen]
    BY <1>3, <1>5, <1>7, <1>11 DEF SwitcherStep
<1> QED BY <1>0, <1>1, <1>8, <1>9, <1>10, <1>11 DEF Next

\* While no file operation fails, the manager implements the atomic register
\* through every interleaving, crash and restart: the disk alone determines the
\* value and the rollback target, and both change in the one step that renames
\* the link.
THEOREM RegisterImplemented ==
    ASSUME MaxFaults = 0
    PROVE  Spec => ImplementsRegister
<1>1. Init => Register!Init
    BY DEF Init, Register!Init, RecoveredPrevious
<1>2. /\ TypeOK /\ ProtocolInv /\ HistoryInv /\ [Next]_vars
      /\ TypeOK' /\ HistoryInv'
      => [Register!Next]_(Register!vars)
    <2> SUFFICES ASSUME TypeOK, ProtocolInv, HistoryInv, [Next]_vars, TypeOK', HistoryInv'
                 PROVE  [Register!Next]_(Register!vars)
        OBVIOUS
    <2>1. CASE UNCHANGED vars
        BY <2>1 DEF vars, disk, clients, Register!vars, RecoveredPrevious, RecordedPrevious,
                    JournalPrevious, CatalogPrevious
    <2>2. CASE Next /\ current' # current
        <3>1. /\ current' = job.target /\ RecoveredPrevious' = current
              /\ \A c \in Clients : hold[c] = NoGen
              /\ \/ job.target \in Gens \ {current, RecoveredPrevious}
                 \/ job.target = RecoveredPrevious /\ RecoveredPrevious # NoGen
            BY <2>2, PointerMove
        <3>2. UNCHANGED hold
            BY <2>2, PointerMove DEF JobLink, jobOnly, clients
        <3>3. CASE job.target \in Gens \ {current, RecoveredPrevious}
            BY <3>1, <3>2, <3>3 DEF Register!Next, Register!Activate, Register!Unpinned
        <3>4. CASE job.target = RecoveredPrevious /\ RecoveredPrevious # NoGen
            BY <3>1, <3>2, <3>4 DEF Register!Next, Register!Rollback, Register!Unpinned
        <3> QED BY <3>1, <3>3, <3>4
    <2>3. CASE Next /\ current' = current
        <3>1. RecoveredPrevious' = RecoveredPrevious BY <2>3, RetainedStable
        <3>2. CASE UNCHANGED hold BY <2>3, <3>1, <3>2 DEF Register!vars
        <3>3. CASE hold' = [c \in Clients |-> NoGen]
            BY <2>3, <3>1, <3>3 DEF Register!Next, Register!DropPins
        <3>4. CASE \E c \in Clients : /\ hold[c] = NoGen /\ current # NoGen
                                      /\ hold' = [hold EXCEPT ![c] = current]
            BY <2>3, <3>1, <3>4 DEF Register!Next, Register!Pin
        <3>5. CASE \E c \in Clients : hold[c] # NoGen /\ hold' = [hold EXCEPT ![c] = NoGen]
            BY <2>3, <3>1, <3>5 DEF Register!Next, Register!Release
        <3> QED BY <2>3, <3>2, <3>3, <3>4, <3>5, PinsStep
    <2> QED BY <2>1, <2>2, <2>3
<1> QED BY <1>1, <1>2, TypeCorrect, Protocol, HistoryRecorded, PTL
        DEF Spec, ImplementsRegister, Register!Spec
=============================================================================
