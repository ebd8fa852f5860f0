------------------------------ MODULE MCOrders ------------------------------
(***************************************************************************)
(* The orders of a customer and what else becomes of them: the refund, the *)
(* product's page, the delivery, the credit applications and the virtual   *)
(* card.  These components share no variable and are checked side by side: *)
(* a behaviour starts all of them in their initial states and moves one.   *)
(* Workers, requests and events are interchangeable; the components' sets  *)
(* of actors share their model values, so that the permutations of those   *)
(* three sets serve them all.                                              *)
(***************************************************************************)
EXTENDS OrderLifecycle, Refund, Catalogue, Delivery, CreditApplications,
        CardUse, TLC

Bin(from, below, points) == [from |-> from, below |-> below, points |-> points]

\* The bootstrap policy of rule_policy.py.
BootIdentityBins ==
    << Bin(0, 4000, 0), Bin(4000, 6000, 200), Bin(6000, 7500, 450),
       Bin(7500, 9000, 650), Bin(9000, 10001, 750) >>
BootAltBins ==
    << Bin(0, 4000, 0), Bin(4000, 6000, 40), Bin(6000, 7500, 90),
       Bin(7500, 9000, 120), Bin(9000, 10001, 150) >>
BootCutoff == [A |-> 800, B |-> 700, C |-> 600, D |-> 500]
BootLimit == [A |-> 25000, B |-> 15000, C |-> 8000, D |-> 5000]
BootDown == [A |-> 25, B |-> 25, C |-> 30, D |-> 35]
BootCaps == [A |-> 8000, B |-> 5000, C |-> 3000, D |-> 2000]
BootMultiplier == [general |-> 100, laptops |-> 65, weapons |-> 100]

\* Two states of a user's data, in bands B and A, and two orders.
Known == [kyc |-> TRUE, device |-> TRUE, ip |-> TRUE, nadra |-> 100,
          face |-> 100, liveness |-> 100, days |-> 400, wallet |-> 5500,
          repaid |-> 0, clean |-> TRUE, statement |-> FALSE,
          bank |-> [salary |-> FALSE, expense |-> 0, nsf |-> 0]]
Documented == [Known EXCEPT !.statement = TRUE,
               !.bank = [salary |-> TRUE, expense |-> 20, nsf |-> 0]]
SomeUsers == {Known, Documented}
SomeWishes ==
    { [category |-> "general", amount |-> 15000, first |-> TRUE],
      [category |-> "general", amount |-> 20000, first |-> FALSE] }

VARIABLE moving   \* the component that moves

sideVars == <<refundVars, catalogueVars, deliveryVars, creditVars, cardVars>>
allVars == <<moving, vars, sideVars>>

AllInit ==
    /\ moving \in {"order", "refund", "catalogue", "delivery", "credit", "card"}
    /\ Init /\ RefundInit /\ CatalogueInit /\ DeliveryInit /\ CreditInit
    /\ CardInit
    /\ direct \in IF moving = "card" THEN {Charges, Updates} ELSE {{}}

OrderMoves ==
    moving = "order" /\ Next /\ UNCHANGED <<moving, sideVars>>

RefundMoves ==
    /\ moving = "refund" /\ RefundNext
    /\ UNCHANGED <<moving, vars, catalogueVars, deliveryVars, creditVars, cardVars>>

CatalogueMoves ==
    /\ moving = "catalogue" /\ CatalogueNext
    /\ UNCHANGED <<moving, vars, refundVars, deliveryVars, creditVars, cardVars>>

DeliveryMoves ==
    /\ moving = "delivery" /\ DeliveryNext
    /\ UNCHANGED <<moving, vars, refundVars, catalogueVars, creditVars, cardVars>>

CreditMoves ==
    /\ moving = "credit" /\ CreditNext
    /\ UNCHANGED <<moving, vars, refundVars, catalogueVars, deliveryVars, cardVars>>

CardMoves ==
    /\ moving = "card" /\ CardNext
    /\ UNCHANGED <<moving, vars, refundVars, catalogueVars, deliveryVars,
                   creditVars>>

AllNext ==
    \/ OrderMoves \/ RefundMoves \/ CatalogueMoves \/ DeliveryMoves
    \/ CreditMoves \/ CardMoves

AllSpec == AllInit /\ [][AllNext]_allVars

\* The type invariants of all the components.
AllTypeOK ==
    /\ TypeOK /\ RefundTypeOK /\ CatalogueTypeOK /\ DeliveryTypeOK
    /\ CreditTypeOK /\ CardTypeOK

Symmetry ==
    UNION {Permutations(S) :
              S \in {Workers, Requests, Events}}
=============================================================================
