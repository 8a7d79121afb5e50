-------------------------- MODULE GenerationRegister --------------------------
(***************************************************************************)
(* What the content generation manager promises (ADR-0013): a register     *)
(* holding the active generation and the one a rollback returns to, which  *)
(* readers pin.  A switch is one atomic step, taken only while nothing is  *)
(* pinned.  A crash drops the pins and nothing else: whatever instant of a *)
(* switch it hits, the next process finds a value and a rollback target    *)
(* that some completed switch produced.                                    *)
(***************************************************************************)
CONSTANTS Gens, NoGen, Clients

VARIABLES
    value,      \* the active generation
    retained,   \* the generation a rollback returns to
    pinned      \* the generation each client reads

vars == <<value, retained, pinned>>

Unpinned == \A c \in Clients : pinned[c] = NoGen

Init ==
    /\ value = NoGen /\ retained = NoGen
    /\ pinned = [c \in Clients |-> NoGen]

\* A client pins the value there is now.
Pin(c) ==
    /\ pinned[c] = NoGen /\ value # NoGen
    /\ pinned' = [pinned EXCEPT ![c] = value]
    /\ UNCHANGED <<value, retained>>

Release(c) ==
    /\ pinned[c] # NoGen
    /\ pinned' = [pinned EXCEPT ![c] = NoGen]
    /\ UNCHANGED <<value, retained>>

\* A generation that was never the value replaces it and the value is retained.
Activate(g) ==
    /\ Unpinned /\ g \notin {value, retained}
    /\ value' = g /\ retained' = value
    /\ UNCHANGED pinned

\* The two change places.
Rollback ==
    /\ Unpinned /\ retained # NoGen
    /\ value' = retained /\ retained' = value
    /\ UNCHANGED pinned

DropPins ==
    /\ pinned' = [c \in Clients |-> NoGen]
    /\ UNCHANGED <<value, retained>>

Next ==
    \/ \E c \in Clients : Pin(c) \/ Release(c)
    \/ \E g \in Gens : Activate(g)
    \/ Rollback
    \/ DropPins

Spec == Init /\ [][Next]_vars
=============================================================================
