------------------------------ MODULE StateStore ------------------------------
(***************************************************************************)
(* Profiles in the state file: handlers find a runtime only while one is   *)
(* published in hass.data, those that run when the storage closes or the   *)
(* process ends are lost, and what they committed is in the file that the  *)
(* next process opens.                                                     *)
(***************************************************************************)
EXTENDS Profiles, StateFile

storeVars == <<profileVars, fileVars>>

\* Only a schema-2 file has profiles; its other rows matter to no property, and
\* are there.
StoreInit ==
    /\ FileInit
    /\ file # NoFile /\ file.version = 2 => file.rows = LegacyRows
    /\ StartWith(IF file # NoFile /\ file.version = 2 THEN Found ELSE {})

\* _require_runtime answers "not loaded" unless the runtime is published.
StartRequest ==
    /\ phase \in {"published", "loaded"}
    /\ \E r \in Requests : Begin(r)
    /\ UNCHANGED fileVars

\* A handler that has its runtime goes on until the storage closes.
RunRequest ==
    /\ phase \in {"published", "loaded", "closing"}
    /\ \/ \E r \in Requests : Step(r)
       \/ \E p \in ProfileIds : ToggleTrack(p)
    /\ UNCHANGED fileVars

StopStorage ==
    /\ CloseStorage \/ Crash
    /\ DropRequests

ManageEntry ==
    /\ \/ SetUpEntry \/ OpenStep
       \/ PublishRuntime \/ FinishSetUp \/ WithdrawRuntime
       \/ FaultInOpen \/ CommitRows
    /\ UNCHANGED profileVars

StoreNext == StartRequest \/ RunRequest \/ StopStorage \/ ManageEntry

StoreSpec == StoreInit /\ [][StoreNext]_storeVars
=============================================================================
