----------------------------- MODULE MCServices -----------------------------
(***************************************************************************)
(* The checkout agent, the notifications, the verification of a customer,  *)
(* the administrators' decisions on an account, and the reconciliations.   *)
(* These components share no variable and are checked side by side: a      *)
(* behaviour starts all of them and moves one.                             *)
(***************************************************************************)
EXTENDS Checkout, Notification, Verification, AccountDesk, Reconciliation

Txn(ref, amount, day) == [ref |-> ref, amount |-> amount, day |-> day]
Line(ref, amount) == [ref |-> ref, amount |-> amount]

\* Two payments of one day.
SomeTxns == {Txn(1, 20, 1), Txn(2, 30, 1)}

\* Their day, their day when one of them is not expected, and a day without
\* payments that comes out differently.
SomeSettlements ==
    { [day |-> 1, expected |-> 50, actual |-> 50],
      [day |-> 1, expected |-> 20, actual |-> 20],
      [day |-> 2, expected |-> 0, actual |-> 10] }

\* A file that is right, two errors that cancel out, and a line that is there
\* twice.
SomeFiles ==
    { << Line(1, 20), Line(2, 30) >>, << Line(1, 30), Line(2, 20) >>,
      << Line(1, 20), Line(1, 20) >> }

VARIABLE moving   \* the component that moves

vars == <<moving, checkoutVars, noteVars, verificationVars, deskVars, reconVars>>

Init ==
    /\ moving \in {"checkout", "note", "kyc", "desk", "recon"}
    /\ CheckoutInit /\ NoteInit /\ VerificationInit /\ DeskInit /\ ReconInit
    /\ moving # "desk" => account.status = "active"

CheckoutMoves ==
    /\ moving = "checkout" /\ CheckoutNext
    /\ UNCHANGED <<moving, noteVars, verificationVars, deskVars, reconVars>>

NoteMoves ==
    /\ moving = "note" /\ NoteNext
    /\ UNCHANGED <<moving, checkoutVars, verificationVars, deskVars, reconVars>>

VerificationMoves ==
    /\ moving = "kyc" /\ VerificationNext
    /\ UNCHANGED <<moving, checkoutVars, noteVars, deskVars, reconVars>>

DeskMoves ==
    /\ moving = "desk" /\ DeskNext
    /\ UNCHANGED <<moving, checkoutVars, noteVars, verificationVars, reconVars>>

ReconMoves ==
    /\ moving = "recon" /\ ReconNext
    /\ UNCHANGED <<moving, checkoutVars, noteVars, verificationVars, deskVars>>

Next ==
    \/ CheckoutMoves \/ NoteMoves \/ VerificationMoves \/ DeskMoves \/ ReconMoves

\* No fair action is enabled in an initial state, so that a component that
\* does not move is treated fairly too.
Spec == Init /\ [][Next]_vars /\ CheckoutFairness /\ NoteFairness

\* The type invariants of all the components.
TypeOK ==
    /\ CheckoutTypeOK /\ NoteTypeOK /\ VerificationTypeOK /\ DeskTypeOK
    /\ ReconTypeOK
=============================================================================
