------------------------------ MODULE MCCards ------------------------------
(***************************************************************************)
(* The down payment of an order with the card it is paid for, the sessions *)
(* of the other endpoint for down payments, the keys of the card numbers,  *)
(* and the migrations of the database.  These components share no variable *)
(* and are checked side by side: a behaviour starts all of them and moves  *)
(* one.                                                                    *)
(***************************************************************************)
EXTENDS DownPayment, PaymentSessions, KeyRotation, Migrations

GatewayOrder == <<"safepay", "jazzcash">>

VARIABLE moving   \* the component that moves

cardsVars == <<moving, vars, sessionVars, keyVars, migrating>>

CardsInit ==
    /\ moving \in {"payment", "session", "keys", "schema"}
    /\ Init /\ SessionInit /\ KeyInit /\ MigrationInit
    /\ moving # "keys" => kms

PaymentMoves ==
    /\ moving = "payment" /\ Next
    /\ UNCHANGED <<moving, sessionVars, keyVars, migrating>>

SessionMoves ==
    /\ moving = "session" /\ SessionNext
    /\ UNCHANGED <<moving, vars, keyVars, migrating>>

KeysMove ==
    /\ moving = "keys" /\ KeyNext
    /\ UNCHANGED <<moving, vars, sessionVars, migrating>>

SchemaMoves ==
    /\ moving = "schema" /\ MigrationNext
    /\ UNCHANGED <<moving, vars, sessionVars, keyVars>>

CardsNext == PaymentMoves \/ SessionMoves \/ KeysMove \/ SchemaMoves

\* No fair action is enabled in an initial state, so that a payment that does
\* not move is treated fairly too.
CardsSpec == CardsInit /\ [][CardsNext]_cardsVars /\ Fairness

\* The type invariants of all the components.
CardsTypeOK == TypeOK /\ SessionTypeOK /\ KeyTypeOK /\ MigrationTypeOK
=============================================================================
