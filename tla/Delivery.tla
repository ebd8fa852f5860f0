------------------------------- MODULE Delivery -------------------------------
(***************************************************************************)
(* The delivery of one order with an active loan.  The carrier calls the   *)
(* webhook of the notification service, in any order and again until it is *)
(* acknowledged.  The webhook stores the shipment, publishes events and    *)
(* then writes the status of the order itself; the listeners of the        *)
(* gateway service hear the events by pub/sub and write that status too.   *)
(***************************************************************************)
EXTENDS Integers, FiniteSets

CONSTANTS
    Hooks,     \* webhook requests in progress
    Gateways,  \* worker processes of the gateway service
    Parts,     \* the installments of the loan
    MaxCalls,  \* calls of the webhook (a bound)
    MaxDropped \* messages nobody hears or whose handling fails (a bound)

VARIABLES
    shipment,  \* Shipment.status
    untold,    \* it was set to delivered, and no confirmation published since
    orderStatus, \* Order.status, "placed" before any delivery event
    known,     \* tags with a WEBHOOK_DEDUP key
    webhook,   \* webhook requests: place, tag and status of the shipment read
    calls,
    heard,     \* published messages no listener has claimed yet
    gateway,   \* listeners: place, order status read, installments read
    executed,  \* WakalahAgreement.is_executed
    part,      \* Installment.status
    moved,     \* installments whose due date follows from the delivery
    drops

deliveryVars == <<shipment, untold, orderStatus, known, webhook, calls, heard,
                  gateway, executed, part, moved, drops>>

\* OutForDelivery stands for the tags that the order does not follow; their
\* status, and that of a shipment before any tag, counts as "placed".
Tags == {"InTransit", "Delivered", "Returned", "OutForDelivery"}
Mapped == [InTransit |-> "in_transit", Delivered |-> "delivered",
           Returned |-> "returned", OutForDelivery |-> "placed"]
OrderStatuses == {"placed", "in_transit", "delivered", "returned"}
Kinds == {"status", "confirmed"}

NoHook == [at |-> "idle", tag |-> "none", saw |-> "placed"]
NoMessage == [at |-> "idle", saw |-> "placed", parts |-> {}]

DeliveryTypeOK ==
    /\ shipment \in OrderStatuses /\ orderStatus \in OrderStatuses
    /\ untold \in BOOLEAN
    /\ known \subseteq Tags
    /\ webhook \in [Hooks ->
          [at : {"idle", "commit", "refresh", "status", "confirmed", "order",
                 "write", "mark"},
           tag : Tags \cup {"none"}, saw : OrderStatuses]]
    /\ calls \in Nat
    /\ heard \in [Kinds -> Nat]
    /\ gateway \in [Gateways -> [at : Kinds \cup {"idle"}, saw : OrderStatuses,
                                 parts : SUBSET Parts]]
    /\ executed \in BOOLEAN
    /\ part \in [Parts -> {"pending", "paid", "overdue"}]
    /\ moved \subseteq Parts
    /\ drops \in Nat

DeliveryInit ==
    /\ shipment = "placed" /\ untold = FALSE /\ orderStatus = "placed"
    /\ known = {} /\ webhook = [h \in Hooks |-> NoHook] /\ calls = 0
    /\ heard = [k \in Kinds |-> 0]
    /\ gateway = [g \in Gateways |-> NoMessage]
    /\ executed = FALSE
    /\ part = [i \in Parts |-> "pending"] /\ moved = {}
    /\ drops = 0

----------------------------------------------------------------------------
(* aftership_webhook and process_aftership_webhook                         *)

HookAt(h, at) == webhook' = [webhook EXCEPT ![h].at = at]

\* The key is read here and written at the end.
ReceiveHook(h, tag) ==
    /\ webhook[h].at = "idle" /\ tag \notin known
    /\ calls < MaxCalls /\ calls' = calls + 1
    /\ webhook' = [webhook EXCEPT
                     ![h] = [at |-> "commit", tag |-> tag, saw |-> shipment]]
    /\ UNCHANGED <<shipment, untold, orderStatus, known, heard, gateway,
                   executed, part, moved, drops>>

\* A status that was read as the new one is not written.
CommitShipment(h) ==
    LET status == Mapped[webhook[h].tag]
    IN  /\ webhook[h].at = "commit"
        /\ shipment' = IF webhook[h].saw = status THEN shipment ELSE status
        /\ untold' = (untold \/ status = "delivered")
        /\ HookAt(h, "refresh")
        /\ UNCHANGED <<orderStatus, known, calls, heard, gateway, executed,
                       part, moved, drops>>

\* Another request may have committed in between.
RefreshShipment(h) ==
    /\ webhook[h].at = "refresh"
    /\ webhook' = [webhook EXCEPT ![h].at = "status", ![h].saw = shipment]
    /\ UNCHANGED <<shipment, untold, orderStatus, known, calls, heard,
                   gateway, executed, part, moved, drops>>

\* delivery.status_changed, with the status read again; the gateway acts on
\* in_transit alone.  The confirmation goes by the tag.
PublishStatus(h) ==
    /\ webhook[h].at = "status"
    /\ heard' = IF webhook[h].saw = "in_transit"
                  THEN [heard EXCEPT !["status"] = @ + 1] ELSE heard
    /\ HookAt(h, IF webhook[h].tag = "Delivered" THEN "confirmed" ELSE "order")
    /\ UNCHANGED <<shipment, untold, orderStatus, known, calls, gateway,
                   executed, part, moved, drops>>

PublishConfirmed(h) ==
    /\ webhook[h].at = "confirmed"
    /\ heard' = [heard EXCEPT !["confirmed"] = @ + 1]
    /\ untold' = FALSE
    /\ HookAt(h, "order")
    /\ UNCHANGED <<shipment, orderStatus, known, calls, gateway, executed,
                   part, moved, drops>>

\* The order follows the status that the request read again, which may be that
\* of another tag; nothing keeps a late tag from setting it back.
ReadOrder(h) ==
    /\ webhook[h].at = "order"
    /\ HookAt(h, IF webhook[h].saw \in {"placed", orderStatus}
                 THEN "mark" ELSE "write")
    /\ UNCHANGED <<shipment, untold, orderStatus, known, calls, heard,
                   gateway, executed, part, moved, drops>>

WriteOrder(h) ==
    /\ webhook[h].at = "write"
    /\ orderStatus' = webhook[h].saw
    /\ HookAt(h, "mark")
    /\ UNCHANGED <<shipment, untold, known, calls, heard, gateway, executed,
                   part, moved, drops>>

MarkHook(h) ==
    /\ webhook[h].at = "mark"
    /\ known' = known \cup {webhook[h].tag}
    /\ webhook' = [webhook EXCEPT ![h] = NoHook]
    /\ UNCHANGED <<shipment, untold, orderStatus, calls, heard, gateway,
                   executed, part, moved, drops>>

\* RedisTTL.WEBHOOK_DEDUP has passed.
HookKeyLapses(tag) ==
    /\ tag \in known
    /\ known' = known \ {tag}
    /\ UNCHANGED <<shipment, untold, orderStatus, webhook, calls, heard,
                   gateway, executed, part, moved, drops>>

\* The request dies or raises; the carrier calls again.
HookFails(h) ==
    /\ webhook[h].at # "idle"
    /\ webhook' = [webhook EXCEPT ![h] = NoHook]
    /\ UNCHANGED <<shipment, untold, orderStatus, known, calls, heard,
                   gateway, executed, part, moved, drops>>

----------------------------------------------------------------------------
(* delivery_event_listener of the gateway service                          *)

\* One of the workers claims the event id and reads the order and the
\* installments that are still pending.
Claim(g, k) ==
    /\ gateway[g].at = "idle" /\ heard[k] > 0
    /\ heard' = [heard EXCEPT ![k] = @ - 1]
    /\ gateway' = [gateway EXCEPT ![g] =
          [at |-> k, saw |-> orderStatus,
           parts |-> {i \in Parts : part[i] = "pending"}]]
    /\ UNCHANGED <<shipment, untold, orderStatus, known, webhook, calls,
                   executed, part, moved, drops>>

ApplyStatus(g) ==
    /\ gateway[g].at = "status"
    /\ orderStatus' =
          IF gateway[g].saw = "in_transit" THEN orderStatus ELSE "in_transit"
    /\ gateway' = [gateway EXCEPT ![g] = NoMessage]
    /\ UNCHANGED <<shipment, untold, known, webhook, calls, heard, executed,
                   part, moved, drops>>

\* Seeded fault: nothing is done for an order that was delivered already.
ApplyConfirmedOnce(g) ==
    /\ gateway[g].at = "confirmed"
    /\ orderStatus' = "delivered"
    /\ IF gateway[g].saw = "delivered" THEN UNCHANGED <<executed, moved>>
       ELSE executed' = TRUE /\ moved' = moved \cup gateway[g].parts
    /\ gateway' = [gateway EXCEPT ![g] = NoMessage]
    /\ UNCHANGED <<shipment, untold, known, webhook, calls, heard, part,
                   drops>>

\* Only the write of the status is skipped for an order that was delivered.
ApplyConfirmed(g) ==
    /\ gateway[g].at = "confirmed"
    /\ orderStatus' =
          IF gateway[g].saw = "delivered" THEN orderStatus ELSE "delivered"
    /\ executed' = TRUE
    /\ moved' = moved \cup gateway[g].parts
    /\ gateway' = [gateway EXCEPT ![g] = NoMessage]
    /\ UNCHANGED <<shipment, untold, known, webhook, calls, heard, part,
                   drops>>

\* No worker is subscribed, or the handler of the one that claimed it raises.
DropMessage ==
    /\ drops < MaxDropped /\ drops' = drops + 1
    /\ \/ \E k \in Kinds : /\ heard[k] > 0
                           /\ heard' = [heard EXCEPT ![k] = @ - 1]
                           /\ UNCHANGED gateway
       \/ \E g \in Gateways : /\ gateway[g].at # "idle"
                              /\ gateway' = [gateway EXCEPT ![g] = NoMessage]
                              /\ UNCHANGED heard
    /\ UNCHANGED <<shipment, untold, orderStatus, known, webhook, calls,
                   executed, part, moved>>

\* Meanwhile an installment is paid or falls overdue.
PartEnds(i) ==
    /\ part[i] = "pending"
    /\ \E s \in {"paid", "overdue"} : part' = [part EXCEPT ![i] = s]
    /\ UNCHANGED <<shipment, untold, orderStatus, known, webhook, calls,
                   heard, gateway, executed, moved, drops>>

DeliveryNext ==
    \/ \E h \in Hooks : \/ CommitShipment(h) \/ RefreshShipment(h)
                        \/ PublishStatus(h) \/ PublishConfirmed(h)
                        \/ ReadOrder(h) \/ WriteOrder(h)
                        \/ MarkHook(h) \/ HookFails(h)
                        \/ \E tag \in Tags : ReceiveHook(h, tag)
    \/ \E tag \in Tags : HookKeyLapses(tag)
    \/ \E g \in Gateways : \/ ApplyStatus(g) \/ ApplyConfirmed(g)
                           \/ \E k \in Kinds : Claim(g, k)
    \/ DropMessage
    \/ \E i \in Parts : PartEnds(i)

DeliverySpec == DeliveryInit /\ [][DeliveryNext]_deliveryVars

----------------------------------------------------------------------------
(* Properties                                                              *)

\* An order that is delivered, whichever of the two services wrote it first,
\* has its wakalah executed and the due dates of its pending installments
\* moved once a confirmation was published and none is under way, unless a
\* message was lost (delivery_events.py:63-76).
DeliveredExecutes ==
    /\ orderStatus = "delivered" /\ ~untold /\ drops = 0
    /\ heard["confirmed"] = 0
    /\ \A g \in Gateways : gateway[g].at # "confirmed"
    => executed /\ \A i \in Parts : part[i] = "pending" => i \in moved
=============================================================================
