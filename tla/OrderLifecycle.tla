--------------------------- MODULE OrderLifecycle ---------------------------
(***************************************************************************)
(* One customer's orders in the gateway, from the product URL to the       *)
(* signed contracts and the loan, with the credit they hold.               *)
(*                                                                         *)
(* The product service answers by events, of which every worker process    *)
(* gets a copy; the customer's requests run concurrently.  A request reads *)
(* the user when it is authenticated, then the order, and writes both when *)
(* it commits (autoflush is off), over whatever was written in between.    *)
(***************************************************************************)
EXTENDS Naturals, FiniteSets, FiniteSetsExt

CONSTANTS
    Orders,       \* ids an order can get, a set of numbers
    Events,       \* events of the product service, each with its event_id
    Workers,      \* uvicorn workers, each with a delivery_event_listener
    Requests,     \* requests of the customer that run at the same time
    Operations,   \* what the customer asks for
    Nobody,       \* no order, no event
    LIMIT,        \* the credit limit
    PRICE,        \* the sale price of a product
    MAX_ACTIVE,   \* max_active_orders
    MIGRATED,     \* the tables are those of the migrations, with their triggers
                  \* and checks, not those of the models, as in the tests
    MaxContracts, \* contracts of one kind an order ever gets (a bound)
    MaxOverrides  \* credit results and overrides (a bound)

AllOperations ==
    {"initiate", "add_item", "offer", "accept", "cancel", "remove", "wakalah",
     "sign_wakalah", "murabaha", "sign_murabaha"}

ASSUME OrderAssumption ==
    /\ Orders \subseteq Nat
    /\ Operations \subseteq AllOperations
    /\ Nobody \notin Orders \cup Events
    /\ {LIMIT, PRICE, MAX_ACTIVE, MaxContracts, MaxOverrides} \subseteq Nat
    /\ PRICE > 0
    /\ MIGRATED \in BOOLEAN

VARIABLES
    order,    \* status, total_amount, deleted_at and whom its loan finances
    credit,   \* users.available_credit
    cart,     \* the cart an order is an item of, and the carts' status; a cart
    carts,    \* has the id of the order it was created with
    wakalah,  \* wakalah agreements of an order and the signed ones
    murabaha, \* murabaha contracts of an order and the signed ones
    loans,    \* the loan that finances a set of orders
    event,    \* what the product service has published
    inbox,    \* events a worker has not looked at
    claimed,  \* the dedup keys
    job,      \* the event a worker is handling
    req,      \* the customer's requests
    taken,    \* history: reservations an event has led to
    offered,  \* history: times an order was offered
    accepted, \* history: times its offer was accepted
    torn,     \* history: credit or status were overwritten
    overrides

papers == <<cart, carts, wakalah, murabaha, loans>>
events == <<event, inbox, claimed, job>>
history == <<taken, offered, accepted>>
vars == <<order, credit, papers, events, req, history, torn, overrides>>

Status == {"none", "url_received", "extraction_failed", "offer_presented",
           "offer_accepted", "contracts_pending", "contracts_signed",
           "cancelled"}
Order == [at : Status, total : {0, PRICE}, gone : BOOLEAN,
          loan : SUBSET Orders]
NoOrder == [at |-> "none", total |-> 0, gone |-> FALSE, loan |-> {}]
Papers == [made : 0..MaxContracts, signed : SUBSET (1..MaxContracts)]
NoPapers == [made |-> 0, signed |-> {}]
NoEvent == [kind |-> "none", on |-> Nobody]
Event == [kind : {"extracted", "failed"}, on : Orders]
NoJob == [at |-> "idle", ev |-> Nobody, saw |-> NoOrder]
Job == [at : {"commit"}, ev : Events, saw : Order]
NoReq == [at |-> "idle", on |-> Nobody, cash |-> 0, saw |-> NoOrder,
          into |-> Nobody, todo |-> {}, doc |-> 0]
Req == [at : {"idle", "auth", "item", "checkout"} \cup AllOperations,
        on : Orders \cup {Nobody}, cash : Nat, saw : Order,
        into : Orders \cup {Nobody}, todo : SUBSET Orders,
        doc : 0..MaxContracts]

TypeOK ==
    /\ order \in [Orders -> Order]
    /\ credit \in Nat
    /\ cart \in [Orders -> Orders \cup {Nobody}]
    /\ carts \in [Orders -> {"none", "open", "checked_out"}]
    /\ wakalah \in [Orders -> Papers] /\ murabaha \in [Orders -> Papers]
    /\ loans \in [SUBSET Orders -> {"none", "active", "cancelled"}]
    /\ event \in [Events -> Event \cup {NoEvent}]
    /\ inbox \in [Workers -> SUBSET Events]
    /\ claimed \subseteq Events
    /\ job \in [Workers -> Job \cup {NoJob}]
    /\ req \in [Requests -> Req]
    /\ taken \in [Events -> Nat]
    /\ offered \in [Orders -> Nat] /\ accepted \in [Orders -> Nat]
    /\ torn \in BOOLEAN
    /\ overrides \in 0..MaxOverrides

Init ==
    /\ order = [o \in Orders |-> NoOrder]
    /\ credit = LIMIT
    /\ cart = [o \in Orders |-> Nobody]
    /\ carts = [c \in Orders |-> "none"]
    /\ wakalah = [o \in Orders |-> NoPapers]
    /\ murabaha = [o \in Orders |-> NoPapers]
    /\ loans = [S \in SUBSET Orders |-> "none"]
    /\ event = [e \in Events |-> NoEvent]
    /\ inbox = [w \in Workers |-> {}]
    /\ claimed = {}
    /\ job = [w \in Workers |-> NoJob]
    /\ req = [r \in Requests |-> NoReq]
    /\ taken = [e \in Events |-> 0]
    /\ offered = [o \in Orders |-> 0]
    /\ accepted = [o \in Orders |-> 0]
    /\ torn = FALSE
    /\ overrides = 0

----------------------------------------------------------------------------
Live == {"offer_presented", "offer_accepted", "contracts_pending",
         "contracts_signed"}

\* The credit an order holds.
Held(o) == IF order[o].at \in Live /\ ~order[o].gone THEN order[o].total ELSE 0

\* The order is not what it was when the handler read it.
Changed(o, saw) == order[o].at # saw.at \/ order[o].gone # saw.gone

\* A live status is given to an order whose total is not reserved.
Unreserved(o, at) ==
    at \in Live /\ ~order[o].gone /\ Held(o) = 0 /\ order[o].total > 0

\* The column is written if the handler has changed what it read.
Put(o, saw, at) ==
    IF saw.at = at THEN UNCHANGED <<order, torn>>
    ELSE /\ order' = [order EXCEPT ![o].at = at]
         /\ torn' = (torn \/ Changed(o, saw) \/ Unreserved(o, at))

----------------------------------------------------------------------------
(* The product service, from how the gateway uses it                       *)

\* Every request to extract is answered by at most one event, but the
\* gateway repeats a request that timed out, so that an order can get
\* several, each with its own event_id.  Who is not subscribed misses it.
Publish(e, kind, o) ==
    /\ event[e] = NoEvent /\ order[o].at # "none"
    /\ event' = [event EXCEPT ![e] = [kind |-> kind, on |-> o]]
    /\ \E S \in SUBSET Workers :
         inbox' = [w \in Workers |-> IF w \in S THEN inbox[w] \cup {e}
                                               ELSE inbox[w]]
    /\ UNCHANGED <<order, credit, papers, claimed, job, req, history, torn,
                   overrides>>

----------------------------------------------------------------------------
(* delivery_event_listener and apply_product_extraction_result             *)

\* The order is read without a lock; what is past extraction is left alone.
Handle(w, e) ==
    LET o == order[event[e].on]
        open == /\ ~o.gone
                /\ \/ o.at = "url_received"
                   \/ event[e].kind = "failed" /\ o.at # "extraction_failed"
    IN  job' = [job EXCEPT ![w] =
                  IF open THEN [at |-> "commit", ev |-> e, saw |-> o] ELSE NoJob]

\* Seeded fault: the event is claimed by SET without NX.
HandleEventAgain(w, e) ==
    /\ job[w] = NoJob /\ e \in inbox[w]
    /\ inbox' = [inbox EXCEPT ![w] = @ \ {e}]
    /\ claimed' = claimed \cup {e}
    /\ Handle(w, e)
    /\ UNCHANGED <<order, credit, papers, event, req, history, torn, overrides>>

\* SET NX on the event_id; the key outlives the handling.
HandleEvent(w, e) ==
    /\ job[w] = NoJob /\ e \in inbox[w]
    /\ inbox' = [inbox EXCEPT ![w] = @ \ {e}]
    /\ \/ e \notin claimed /\ claimed' = claimed \cup {e} /\ Handle(w, e)
       \/ e \in claimed /\ UNCHANGED <<claimed, job>>
    /\ UNCHANGED <<order, credit, papers, event, req, history, torn, overrides>>

On(w) == event[job[w].ev].on
Kind(w) == event[job[w].ev].kind
JobEnd(w) == job' = [job EXCEPT ![w] = NoJob]

\* "ok": the user is read FOR UPDATE, so his credit is the current one.
OfferPresented(w) ==
    LET o == On(w)
    IN  /\ job[w].at = "commit" /\ Kind(w) = "extracted"
        /\ credit >= PRICE
        /\ order' = [order EXCEPT ![o].at = "offer_presented",
                                  ![o].total = PRICE]
        /\ credit' = credit - PRICE
        /\ torn' = (torn \/ Changed(o, job[w].saw))
        /\ taken' = [taken EXCEPT ![job[w].ev] = @ + 1]
        /\ offered' = [offered EXCEPT ![o] = @ + 1]
        /\ JobEnd(w)
        /\ UNCHANGED <<papers, event, inbox, claimed, req, accepted, overrides>>

\* "insufficient_credit", with the total already set, or "prohibited".
OfferRefused(w) ==
    LET o == On(w)
    IN  /\ job[w].at = "commit" /\ Kind(w) = "extracted"
        /\ order' = [order EXCEPT ![o].at = "extraction_failed",
                       ![o].total = IF credit < PRICE THEN PRICE ELSE @]
        /\ torn' = (torn \/ Changed(o, job[w].saw))
        /\ JobEnd(w)
        /\ UNCHANGED <<credit, papers, event, inbox, claimed, req, history,
                       overrides>>

\* apply_product_extraction_failed_envelope: no look at what the order holds.
ExtractionFailed(w) ==
    LET o == On(w)
    IN  /\ job[w].at = "commit" /\ Kind(w) = "failed"
        /\ order' = [order EXCEPT ![o].at = "extraction_failed"]
        /\ torn' = (torn \/ Changed(o, job[w].saw) \/ Held(o) > 0)
        /\ JobEnd(w)
        /\ UNCHANGED <<credit, papers, event, inbox, claimed, req, history,
                       overrides>>

\* An exception is logged and the event, which is claimed, is gone.
ListenerError(w) ==
    /\ job[w] # NoJob
    /\ JobEnd(w)
    /\ UNCHANGED <<order, credit, papers, event, inbox, claimed, req, history,
                   torn, overrides>>

----------------------------------------------------------------------------
(* The customer's requests                                                 *)

ReqEnd(r) == req' = [req EXCEPT ![r] = NoReq]
Ask(r, op, o) ==
    req' = [req EXCEPT ![r].at = op, ![r].on = o, ![r].saw = order[o],
              ![r].cash = IF op \in {"accept", "cancel", "remove"} THEN @ ELSE 0]

\* get_current_user; available_credit stays as it is now, since a row that is
\* in the session is not read again.
Authenticate(r) ==
    /\ req[r].at = "idle"
    /\ req' = [req EXCEPT ![r].at = "auth", ![r].cash = credit]
    /\ UNCHANGED <<order, credit, papers, events, history, torn, overrides>>

Asks(r, op) == req[r].at = "auth" /\ op \in Operations

Active == {o \in Orders : ~order[o].gone /\ order[o].at \notin
             {"none", "cancelled", "extraction_failed"}}

\* initiate, by itself or from add_item, which has looked for an open cart and
\* creates one when it finds none.
InitiateRead(r, op) ==
    LET opens == {c \in Orders : op = "add_item" /\ carts[c] = "open"}
    IN  /\ Asks(r, op) /\ op \in {"initiate", "add_item"}
        /\ req[r].cash > 0 /\ Cardinality(Active) < MAX_ACTIVE
        /\ \E c \in IF opens = {} THEN {Nobody} ELSE opens :
             req' = [req EXCEPT ![r].at = op, ![r].cash = 0, ![r].into = c]
        /\ UNCHANGED <<order, credit, papers, events, history, torn, overrides>>

Initiate(r, o) ==
    LET item == req[r].at = "add_item"
        fresh == item /\ req[r].into = Nobody
    IN  /\ req[r].at \in {"initiate", "add_item"} /\ order[o] = NoOrder
        /\ order' = [order EXCEPT ![o].at = "url_received"]
        /\ carts' = IF fresh THEN [carts EXCEPT ![o] = "open"] ELSE carts
        /\ IF item THEN req' = [req EXCEPT ![r].at = "item", ![r].on = o,
                                  ![r].into = IF fresh THEN o ELSE @]
           ELSE ReqEnd(r)
        /\ UNCHANGED <<credit, cart, wakalah, murabaha, loans, events, history,
                       torn, overrides>>

\* Only after the product service has been asked, in a commit of its own.
AddItem(r) ==
    /\ req[r].at = "item"
    /\ cart' = [cart EXCEPT ![req[r].on] = req[r].into]
    /\ ReqEnd(r)
    /\ UNCHANGED <<order, credit, carts, wakalah, murabaha, loans, events,
                   history, torn, overrides>>

\* get_offer, after ORDER_STUCK_EXTRACTION_TIMEOUT_SECONDS.
OfferRead(r, o) ==
    /\ Asks(r, "offer")
    /\ ~order[o].gone /\ order[o].at = "url_received"
    /\ Ask(r, "offer", o)
    /\ UNCHANGED <<order, credit, papers, events, history, torn, overrides>>

\* Seeded fault: a status of its own, which no reader knows.
MarkTimedOut(r) ==
    /\ req[r].at = "offer"
    /\ Put(req[r].on, req[r].saw, "extraction_timeout")
    /\ ReqEnd(r)
    /\ UNCHANGED <<credit, papers, events, history, overrides>>

MarkExtractionFailed(r) ==
    /\ req[r].at = "offer"
    /\ Put(req[r].on, req[r].saw, "extraction_failed")
    /\ ReqEnd(r)
    /\ UNCHANGED <<credit, papers, events, history, overrides>>

Items(c) == {o \in Orders : cart[o] = c}

\* checkout accepts the items of the open cart one after the other.
Checkout(r, c) ==
    /\ Asks(r, "accept") /\ carts[c] = "open" /\ Items(c) # {}
    /\ req' = [req EXCEPT ![r].at = "checkout", ![r].into = c,
                          ![r].todo = Items(c)]
    /\ UNCHANGED <<order, credit, papers, events, history, torn, overrides>>

AcceptRead(r, o) ==
    /\ \/ Asks(r, "accept")
       \/ req[r].at = "checkout" /\ o \in req[r].todo
    /\ ~order[o].gone /\ order[o].at = "offer_presented"
    /\ order[o].total <= req[r].cash
    /\ Ask(r, "accept", o)
    /\ UNCHANGED <<order, credit, papers, events, history, torn, overrides>>

Accept(r) ==
    LET o == req[r].on
        left == req[r].todo \ {o}
    IN  /\ order' = [order EXCEPT ![o].at = "offer_accepted"]
        /\ accepted' = [accepted EXCEPT ![o] = @ + 1]
        /\ IF req[r].into = Nobody THEN ReqEnd(r)
           ELSE req' = [req EXCEPT ![r].at = "checkout", ![r].todo = left]
        /\ UNCHANGED <<credit, papers, events, taken, offered, torn, overrides>>

\* Seeded fault: UPDATE ... WHERE id, without the status.
AcceptOfferAnyway(r) ==
    /\ req[r].at = "accept"
    /\ Accept(r)

\* UPDATE ... WHERE status = 'offer_presented' RETURNING id
AcceptOffer(r) ==
    /\ req[r].at = "accept"
    /\ order[req[r].on].at = "offer_presented" /\ ~order[req[r].on].gone
    /\ Accept(r)

\* Every item is accepted; one that is refused leaves the cart open.
CheckedOut(r) ==
    /\ req[r].at = "checkout" /\ req[r].todo = {}
    /\ carts' = [carts EXCEPT ![req[r].into] = "checked_out"]
    /\ ReqEnd(r)
    /\ UNCHANGED <<order, credit, cart, wakalah, murabaha, loans, events, history,
                   torn, overrides>>

----------------------------------------------------------------------------
(* Contracts and the loan                                                  *)

Beside == <<cart, carts, events, history, overrides>>
Contracts == <<credit, Beside>>

\* generate_wakalah looks at no status.
WakalahRead(r, o) ==
    /\ Asks(r, "wakalah")
    /\ order[o].at # "none" /\ ~order[o].gone /\ wakalah[o].made = 0
    /\ Ask(r, "wakalah", o)
    /\ UNCHANGED <<order, wakalah, murabaha, loans, Contracts, torn>>

GenerateWakalah(r) ==
    LET o == req[r].on
    IN  /\ req[r].at = "wakalah" /\ wakalah[o].made < MaxContracts
        /\ wakalah' = [wakalah EXCEPT ![o].made = @ + 1]
        /\ Put(o, req[r].saw, "contracts_pending")
        /\ ReqEnd(r)
        /\ UNCHANGED <<murabaha, loans, Contracts>>

\* Seeded fault: the agency agreement exists, signed or not.
MurabahaReadUnsigned(r, o) ==
    /\ Asks(r, "murabaha")
    /\ ~order[o].gone /\ wakalah[o].made > 0 /\ murabaha[o].made = 0
    /\ Ask(r, "murabaha", o)
    /\ UNCHANGED <<order, wakalah, murabaha, loans, Contracts, torn>>

MurabahaRead(r, o) ==
    /\ Asks(r, "murabaha")
    /\ ~order[o].gone /\ wakalah[o].signed # {} /\ murabaha[o].made = 0
    /\ Ask(r, "murabaha", o)
    /\ UNCHANGED <<order, wakalah, murabaha, loans, Contracts, torn>>

\* chk_murabaha_positive_profit: the cost price must be known by now.
GenerateMurabaha(r) ==
    LET o == req[r].on
    IN  /\ req[r].at = "murabaha" /\ murabaha[o].made < MaxContracts
        /\ req[r].saw.total > 0
        /\ murabaha' = [murabaha EXCEPT ![o].made = @ + 1]
        /\ ReqEnd(r)
        /\ UNCHANGED <<order, wakalah, loans, Contracts, torn>>

\* The contract is locked until the commit; the order is read without a look
\* at deleted_at.
Locked(op, o, c) ==
    \E q \in Requests : req[q].at = op /\ req[q].on = o /\ req[q].doc = c

LockWakalah(r, o, c) ==
    /\ Asks(r, "sign_wakalah")
    /\ c <= wakalah[o].made /\ c \notin wakalah[o].signed
    /\ ~Locked("sign_wakalah", o, c)
    /\ req' = [req EXCEPT ![r] = [NoReq EXCEPT !.at = "sign_wakalah", !.on = o,
                                    !.doc = c, !.saw = order[o]]]
    /\ UNCHANGED <<order, wakalah, murabaha, loans, Contracts, torn>>

SignWakalah(r) ==
    LET o == req[r].on
    IN  /\ req[r].at = "sign_wakalah"
        /\ wakalah' = [wakalah EXCEPT ![o].signed = @ \cup {req[r].doc}]
        /\ Put(o, req[r].saw, "contracts_pending")
        /\ ReqEnd(r)
        /\ UNCHANGED <<murabaha, loans, Contracts>>

Siblings(o) == IF cart[o] = Nobody THEN {o} ELSE Items(cart[o])

\* As many contracts as orders, and all of them signed with this one.
AllSigned(o, c) ==
    /\ MapThenSumSet(LAMBDA p : murabaha[p].made, Siblings(o)) =
          Cardinality(Siblings(o))
    /\ \A p \in Siblings(o) :
         1..murabaha[p].made \subseteq
            murabaha[p].signed \cup (IF p = o THEN {c} ELSE {})

ReadMurabaha(r, o, c) ==
    req' = [req EXCEPT ![r] = [NoReq EXCEPT !.at = "sign_murabaha", !.on = o,
              !.doc = c, !.saw = order[o],
              !.todo = IF AllSigned(o, c) THEN Siblings(o) ELSE {}]]

LockMurabaha(r, o, c) ==
    /\ Asks(r, "sign_murabaha")
    /\ c <= murabaha[o].made /\ c \notin murabaha[o].signed
    /\ ~Locked("sign_murabaha", o, c)
    /\ ReadMurabaha(r, o, c)
    /\ UNCHANGED <<order, wakalah, murabaha, loans, Contracts, torn>>

\* trg_recalculate_credit, when loans become ls: the limit less what the active
\* ones owe, with no look at the orders.
Owed(ls) ==
    PRICE * MapThenSumSet(LAMBDA S : Cardinality(S),
                          {S \in SUBSET Orders : ls[S] = "active"})
Recalculated(ls) == IF Owed(ls) \in 0..LIMIT THEN LIMIT - Owed(ls) ELSE 0

\* The siblings' loan when this is the last signature.
Sign(r) ==
    LET o == req[r].on
        S == req[r].todo
        at == "contracts_signed"
    IN  /\ req[r].at = "sign_murabaha"
        /\ murabaha' = [murabaha EXCEPT ![o].signed = @ \cup {req[r].doc}]
        /\ order' = [p \in Orders |->
             [order[p] EXCEPT
                !.at = IF p = o /\ req[r].saw.at # at THEN at ELSE @,
                !.loan = IF p \in S THEN S ELSE @]]
        /\ torn' = (torn \/ (req[r].saw.at # at /\
                    (Changed(o, req[r].saw) \/ Unreserved(o, at))))
        /\ loans' = IF S = {} THEN loans ELSE [loans EXCEPT ![S] = "active"]
        /\ credit' = IF MIGRATED /\ S # {} THEN Recalculated(loans') ELSE credit
        /\ ReqEnd(r)
        /\ UNCHANGED <<wakalah, Beside>>

\* uq_loans_order_id: the loan has the id of the first sibling, and no loan,
\* a cancelled one either, has had it.
SignMurabaha(r) ==
    /\ \A S \in SUBSET Orders :
         S # {} /\ loans[S] # "none" /\ req[r].todo # {}
            => Min(S) # Min(req[r].todo)
    /\ Sign(r)

----------------------------------------------------------------------------
(* Giving an order up, and writing the credit                              *)

\* STATES_WITH_RESERVATION
Restorable == {"offer_presented", "offer_accepted", "contracts_pending",
               "contracts_signed"}

\* The credit read at authentication, plus the total read with the order.
Restore(r, states) ==
    LET o == req[r].on
        sum == IF req[r].saw.at \in states THEN req[r].saw.total ELSE 0
    IN  /\ credit' = IF sum = 0 THEN credit ELSE req[r].cash + sum
        /\ order' = [order EXCEPT ![o].at = "cancelled", ![o].gone = TRUE]
        /\ torn' = (torn \/ Changed(o, req[r].saw)
                         \/ (sum > 0 /\ credit # req[r].cash))
        /\ ReqEnd(r)

\* An order whose loan finances another live one cannot be cancelled.
Bundled(o) ==
    /\ order[o].loan # {}
    /\ \E p \in Orders \ {o} : ~order[p].gone /\ order[p].loan = order[o].loan

CancelRead(r, o) ==
    /\ Asks(r, "cancel")
    /\ order[o].at \in Restorable \cup {"url_received", "extraction_failed"}
    /\ ~order[o].gone /\ ~Bundled(o)
    /\ Ask(r, "cancel", o)
    /\ UNCHANGED <<order, credit, papers, events, history, torn, overrides>>

\* The loans found under this order's id are cancelled with it;
\* chk_loans_status does not know that status.
Cancel(r) ==
    LET closed == {S \in SUBSET Orders :
                     /\ req[r].saw.at = "contracts_signed"
                     /\ loans[S] = "active" /\ Min(S) = req[r].on}
    IN  /\ req[r].at = "cancel"
        /\ MIGRATED => closed = {}
        /\ Restore(r, Restorable)
        /\ loans' = [S \in SUBSET Orders |->
                        IF S \in closed THEN "cancelled" ELSE loans[S]]
        /\ UNCHANGED <<cart, carts, wakalah, murabaha, events, history, overrides>>

RemoveRead(r, o) ==
    /\ Asks(r, "remove") /\ cart[o] # Nobody /\ carts[cart[o]] = "open"
    /\ order[o].at \in {"url_received", "offer_presented", "extraction_failed"}
    /\ Ask(r, "remove", o)
    /\ UNCHANGED <<order, credit, papers, events, history, torn, overrides>>

RemoveItem(r) ==
    /\ req[r].at = "remove"
    /\ Restore(r, {"offer_presented"})
    /\ cart' = [cart EXCEPT ![req[r].on] = Nobody]
    /\ UNCHANGED <<carts, wakalah, murabaha, loans, events, history, overrides>>

\* The request is refused, or the process dies: nothing is committed.
Refuse(r) ==
    /\ req[r].at # "idle"
    /\ ReqEnd(r)
    /\ UNCHANGED <<order, credit, papers, events, history, torn, overrides>>

\* _apply_credit_result and the administrators' overrides set limit and
\* available credit to the same amount, whatever is reserved.
CreditResult ==
    /\ overrides < MaxOverrides
    /\ overrides' = overrides + 1
    /\ credit' = LIMIT
    /\ torn' = TRUE
    /\ UNCHANGED <<order, papers, events, req, history>>

----------------------------------------------------------------------------
Listener(w) ==
    \/ OfferPresented(w) \/ OfferRefused(w) \/ ExtractionFailed(w)
    \/ ListenerError(w)
    \/ \E e \in Events : HandleEvent(w, e)

Intake(r) ==
    \/ Authenticate(r) \/ Refuse(r)
    \/ MarkExtractionFailed(r)
    \/ \E op \in Operations : InitiateRead(r, op)
    \/ AddItem(r) \/ AcceptOffer(r) \/ CheckedOut(r)
    \/ Cancel(r) \/ RemoveItem(r)
    \/ \E o \in Orders :
         \/ Initiate(r, o) \/ OfferRead(r, o) \/ AcceptRead(r, o)
         \/ CancelRead(r, o) \/ RemoveRead(r, o) \/ Checkout(r, o)

Signing(r) ==
    \/ GenerateWakalah(r) \/ GenerateMurabaha(r)
    \/ SignWakalah(r) \/ SignMurabaha(r)
    \/ \E o \in Orders :
         \/ WakalahRead(r, o) \/ MurabahaRead(r, o)
         \/ \E c \in 1..MaxContracts : LockWakalah(r, o, c) \/ LockMurabaha(r, o, c)

Next ==
    \/ \E e \in Events, kind \in {"extracted", "failed"}, o \in Orders :
         Publish(e, kind, o)
    \/ \E w \in Workers : Listener(w)
    \/ \E r \in Requests : Intake(r) \/ Signing(r)
    \/ CreditResult

Spec == Init /\ [][Next]_vars

----------------------------------------------------------------------------
(* Properties                                                              *)

\* An event of which every worker gets a copy reserves credit once
\* (main.py:63-79).
EventOnce == \A e \in Events : taken[e] <= 1

\* However many requests accept an offer at the same time, one does
\* (order_service.py:274-294).
AcceptOnce == \A o \in Orders : accepted[o] <= offered[o]

\* contract_signer.py:282-283: "Credit is already reserved at extraction ...
\* no further decrement needed here.", so available credit and what the live
\* orders hold make up the limit, unless an override, a failure event for an
\* offered order, a contract for an order without a reservation or a lost
\* update has come in between (torn).
CreditKept == torn \/ credit + MapThenSumSet(Held, Orders) = LIMIT

\* The sale (Murabaha) is only drawn up, and an order only financed by itself,
\* once the customer has signed the agency (Wakalah) under which the goods are
\* bought (contract_generator.py:265-273), whatever requests do meanwhile.
WakalahFirst ==
    \A o \in Orders :
        murabaha[o].made > 0 \/ order[o].loan = {o} => wakalah[o].signed # {}
=============================================================================
