---------------------------- MODULE MCBackOffice ----------------------------
(***************************************************************************)
(* The collection of an installment, and what operators do all the while:  *)
(* the queue of orders that need a person and the list of what may not be  *)
(* sold.  These components share no variable and are checked side by side: *)
(* a behaviour starts all of them and moves one.                           *)
(***************************************************************************)
EXTENDS MCInstallmentCollection, HumanQueue, Prohibition

CONSTANT ware   \* a prohibited word

\* A page that offers it and a page without it.
SomeTexts == {{ware}, {}}

VARIABLE moving   \* the component that moves

officeVars == <<moving, vars, queueVars, prohibitionVars>>

OfficeInit ==
    /\ moving \in {"collection", "queue", "list"}
    /\ Init /\ QueueInit /\ ProhibitionInit
    /\ moving # "list" => list = NoList

CollectionMoves ==
    /\ moving = "collection" /\ Next
    /\ UNCHANGED <<moving, queueVars, prohibitionVars>>

QueueMoves ==
    /\ moving = "queue" /\ QueueNext
    /\ UNCHANGED <<moving, vars, prohibitionVars>>

ListMoves ==
    /\ moving = "list" /\ ProhibitionNext
    /\ UNCHANGED <<moving, vars, queueVars>>

OfficeNext == CollectionMoves \/ QueueMoves \/ ListMoves

\* No fair action is enabled in an initial state, so that a collection that
\* does not move is treated fairly too.
OfficeSpec == OfficeInit /\ [][OfficeNext]_officeVars /\ Fairness

\* The type invariants of all the components.
OfficeTypeOK == TypeOK /\ QueueTypeOK /\ ProhibitionTypeOK
=============================================================================
