------------------------ MODULE OrderLifecycleProofs ------------------------
(***************************************************************************)
(* For any number of orders, events, workers and requests: an event        *)
(* reserves credit once, an offer is accepted once, and no sale is drawn   *)
(* up before its agency is signed.  Each of the three rests on one guard:  *)
(* SET NX on the event's key, the status in the WHERE of the UPDATE, and   *)
(* the signature that only ever gets company.                              *)
(***************************************************************************)
EXTENDS OrderLifecycle, TLAPS

USE DEF papers, events, history, Beside, Contracts, ReqEnd, JobEnd, On, Kind

----------------------------------------------------------------------------
(* What each group of actions leaves alone                                 *)

LEMMA ListenerFrame ==
    ASSUME NEW w \in Workers, Listener(w)
    PROVE  UNCHANGED <<papers, req, event, accepted, overrides>>
BY DEF Listener, OfferPresented, OfferRefused, ExtractionFailed, ListenerError,
       HandleEvent

LEMMA IntakeFrame ==
    ASSUME NEW r \in Requests, Intake(r)
    PROVE  UNCHANGED <<events, taken, offered, wakalah, murabaha, overrides>>
<1> USE DEF Put, Ask, Restore
<1>1. CASE Authenticate(r) \/ Refuse(r) \/ MarkExtractionFailed(r)
  BY <1>1 DEF Authenticate, Refuse, MarkExtractionFailed
<1>2. CASE \E op \in Operations : InitiateRead(r, op)
  BY <1>2 DEF InitiateRead
<1>3. CASE AddItem(r) \/ AcceptOffer(r) \/ CheckedOut(r)
  BY <1>3 DEF AddItem, AcceptOffer, Accept, CheckedOut
<1>4. CASE Cancel(r) \/ RemoveItem(r)
  BY <1>4 DEF Cancel, RemoveItem
<1>5. ASSUME NEW o \in Orders,
             Initiate(r, o) \/ OfferRead(r, o) \/ AcceptRead(r, o)
      PROVE  UNCHANGED <<events, taken, offered, wakalah, murabaha, overrides>>
  BY <1>5 DEF Initiate, OfferRead, AcceptRead
<1>6. ASSUME NEW o \in Orders,
             CancelRead(r, o) \/ RemoveRead(r, o) \/ Checkout(r, o)
      PROVE  UNCHANGED <<events, taken, offered, wakalah, murabaha, overrides>>
  BY <1>6 DEF CancelRead, RemoveRead, Checkout
<1> QED BY <1>1, <1>2, <1>3, <1>4, <1>5, <1>6 DEF Intake

LEMMA SigningFrame ==
    ASSUME NEW r \in Requests, Signing(r)
    PROVE  UNCHANGED Beside
<1>1. CASE GenerateWakalah(r) \/ GenerateMurabaha(r)
  BY <1>1 DEF GenerateWakalah, GenerateMurabaha
<1>2. CASE SignWakalah(r) \/ SignMurabaha(r)
  BY <1>2 DEF SignWakalah, SignMurabaha, Sign
<1>3. ASSUME NEW o \in Orders, WakalahRead(r, o) \/ MurabahaRead(r, o)
      PROVE  UNCHANGED Beside
  BY <1>3 DEF WakalahRead, MurabahaRead
<1>4. ASSUME NEW o \in Orders, NEW c \in 1..MaxContracts,
             LockWakalah(r, o, c) \/ LockMurabaha(r, o, c)
      PROVE  UNCHANGED Beside
  BY <1>4 DEF LockWakalah, LockMurabaha
<1> QED BY <1>1, <1>2, <1>3, <1>4 DEF Signing

----------------------------------------------------------------------------
(* Types                                                                   *)

\* A worker is only sent events that were published.
Published == \A w \in Workers : \A e \in inbox[w] : event[e] \in Event

\* Whoever signs has a document.
DocNamed ==
    \A r \in Requests :
        req[r].at \in {"sign_wakalah", "sign_murabaha"} => req[r].doc # 0

TypeInv == TypeOK /\ Published /\ DocNamed

\* The fields of an order that are ever written.
LEMMA OrderFields ==
    ASSUME NEW x \in Order
    PROVE  /\ \A at \in Status : [x EXCEPT !.at = at] \in Order
           /\ \A n \in {0, PRICE} : [x EXCEPT !.total = n] \in Order
           /\ [x EXCEPT !.gone = TRUE] \in Order
           /\ \A S \in SUBSET Orders : [x EXCEPT !.loan = S] \in Order
BY DEF Order

LEMMA Nobodys == NoOrder \in Order /\ NoReq \in Req /\ NoPapers \in Papers
<1>1. NoOrder \in Order   BY DEF NoOrder, Order, Status
<1>2. NoReq \in Req       BY OrderAssumption, <1>1 DEF NoReq, Req
<1>3. NoPapers \in Papers BY OrderAssumption DEF NoPapers, Papers
<1> QED BY <1>1, <1>2, <1>3

\* A history counter stays one.
LEMMA CountedByOne ==
    ASSUME NEW S, NEW f \in [S -> Nat], NEW x
    PROVE  [f EXCEPT ![x] = @ + 1] \in [S -> Nat]
<1> SUFFICES ASSUME NEW y \in S PROVE [f EXCEPT ![x] = @ + 1][y] \in Nat
  OBVIOUS
<1>1. [f EXCEPT ![x] = @ + 1][y] = IF y = x THEN f[y] + 1 ELSE f[y]
  OBVIOUS
<1> QED BY <1>1

LEMMA TypeInit == Init => TypeInv
<1> SUFFICES ASSUME Init PROVE TypeInv
  OBVIOUS
<1>1. TypeOK
  <2>1. order \in [Orders -> Order] /\ req \in [Requests -> Req]
    BY Nobodys DEF Init
  <2>2. wakalah \in [Orders -> Papers] /\ murabaha \in [Orders -> Papers]
    BY Nobodys DEF Init
  <2>3. credit \in Nat /\ overrides \in 0..MaxOverrides
    <3> LIMIT \in Nat /\ MaxOverrides \in Nat
      BY OrderAssumption
    <3> QED BY DEF Init
  <2>7. torn \in BOOLEAN
    BY DEF Init
  <2>4. /\ cart \in [Orders -> Orders \cup {Nobody}]
        /\ carts \in [Orders -> {"none", "open", "checked_out"}]
        /\ loans \in [SUBSET Orders -> {"none", "active", "cancelled"}]
    BY DEF Init
  <2>5. /\ event \in [Events -> Event \cup {NoEvent}]
        /\ inbox \in [Workers -> SUBSET Events]
        /\ claimed \subseteq Events
        /\ job \in [Workers -> Job \cup {NoJob}]
    BY DEF Init
  <2>6. /\ taken \in [Events -> Nat]
        /\ offered \in [Orders -> Nat] /\ accepted \in [Orders -> Nat]
    BY DEF Init
  <2> QED BY <2>1, <2>2, <2>3, <2>4, <2>5, <2>6, <2>7 DEF TypeOK
<1>2. Published
  BY DEF Init, Published
<1>3. DocNamed
  BY DEF Init, DocNamed, NoReq
<1> QED BY <1>1, <1>2, <1>3 DEF TypeInv

LEMMA TypePublish ==
    ASSUME TypeInv, NEW e \in Events, NEW kind \in {"extracted", "failed"},
           NEW o \in Orders, Publish(e, kind, o)
    PROVE  TypeInv'
BY DEF Publish, TypeInv, TypeOK, Published, DocNamed, Event

LEMMA TypeListener ==
    ASSUME TypeInv, NEW w \in Workers, Listener(w)
    PROVE  TypeInv'
<1> USE OrderAssumption DEF TypeInv, TypeOK, Published, DocNamed
<1>1. ASSUME NEW e \in Events, HandleEvent(w, e) PROVE TypeInv'
  <2>1. event[e].on \in Orders /\ order[event[e].on] \in Order
    BY <1>1 DEF HandleEvent, Event
  <2>2. job' \in [Workers -> Job \cup {NoJob}]
    BY <1>1, <2>1 DEF HandleEvent, Handle, Job
  <2> QED BY <1>1, <2>2 DEF HandleEvent
<1>2. CASE OfferPresented(w)
  <2>1. credit' \in Nat
    BY <1>2 DEF OfferPresented
  <2>2. order' \in [Orders -> Order]
    <3> DEFINE Offer(x) == [[x EXCEPT !.at = "offer_presented"] EXCEPT !.total = PRICE]
    <3> SUFFICES ASSUME NEW p \in Orders PROVE order'[p] \in Order
      BY <1>2 DEF OfferPresented
    <3>1. order'[p] = order[p] \/ order'[p] = Offer(order[p])
      BY <1>2 DEF OfferPresented
    <3>2. \A x \in Order : Offer(x) \in Order
      BY OrderFields DEF Status
    <3>3. order[p] \in Order
      OBVIOUS
    <3> HIDE DEF Offer
    <3> QED BY <3>1, <3>2, <3>3
  <2>3. torn' \in BOOLEAN
    BY <1>2 DEF OfferPresented
  <2>4. taken' \in [Events -> Nat] /\ offered' \in [Orders -> Nat]
    <3>1. taken' = [taken EXCEPT ![job[w].ev] = @ + 1]
      BY <1>2 DEF OfferPresented
    <3>2. offered' = [offered EXCEPT ![On(w)] = @ + 1]
      BY <1>2 DEF OfferPresented
    <3>3. taken' \in [Events -> Nat]     BY <3>1, CountedByOne
    <3>4. offered' \in [Orders -> Nat]   BY <3>2, CountedByOne
    <3> QED BY <3>3, <3>4
  <2>5. job' \in [Workers -> Job \cup {NoJob}]
    BY <1>2 DEF OfferPresented
  <2> QED BY <1>2, <2>1, <2>2, <2>3, <2>4, <2>5 DEF OfferPresented
<1>3. CASE OfferRefused(w)
  <2>1. order' \in [Orders -> Order]
    <3>1. \A x \in Order : x.total \in {0, PRICE} BY DEF Order
    <3>2. \A x \in Order : [x EXCEPT !.at = "extraction_failed"] \in Order
      BY OrderFields DEF Status
    <3> QED BY <1>3, <3>1, <3>2, OrderFields DEF OfferRefused
  <2>2. torn' \in BOOLEAN
    BY <1>3 DEF OfferRefused
  <2> QED BY <1>3, <2>1, <2>2 DEF OfferRefused
<1>4. CASE ExtractionFailed(w)
  <2>1. order' \in [Orders -> Order]
    BY <1>4, OrderFields DEF ExtractionFailed, Status
  <2>2. torn' \in BOOLEAN
    BY <1>4 DEF ExtractionFailed
  <2> QED BY <1>4, <2>1, <2>2 DEF ExtractionFailed
<1>5. CASE ListenerError(w)
  BY <1>5 DEF ListenerError
<1> QED BY <1>1, <1>2, <1>3, <1>4, <1>5 DEF Listener

\* What Put may write.
LEMMA TypePut ==
    ASSUME TypeOK, NEW o, NEW saw, NEW at \in Status, Put(o, saw, at)
    PROVE  order' \in [Orders -> Order] /\ torn' \in BOOLEAN
<1>1. order' \in [Orders -> Order]
  <2>1. order' = order \/ order' = [order EXCEPT ![o].at = at]
    BY DEF Put
  <2>2. CASE order' = [order EXCEPT ![o].at = at]
    <3> SUFFICES ASSUME NEW p \in Orders PROVE order'[p] \in Order
      BY <2>2 DEF TypeOK
    <3>1. order'[p] = order[p] \/ order'[p] = [order[p] EXCEPT !.at = at]
      BY <2>2 DEF TypeOK
    <3>2. order[p] \in Order
      BY DEF TypeOK
    <3> QED BY <3>1, <3>2, OrderFields
  <2> QED BY <2>1, <2>2 DEF TypeOK
<1>2. torn' \in BOOLEAN
  BY DEF TypeOK, Put
<1> QED BY <1>1, <1>2

LEMMA TypeRestore ==
    ASSUME TypeOK, NEW r \in Requests, NEW states, Restore(r, states)
    PROVE  /\ order' \in [Orders -> Order] /\ credit' \in Nat
           /\ torn' \in BOOLEAN
           /\ req' = [req EXCEPT ![r] = NoReq]
<1>1. order' \in [Orders -> Order]
  <2> DEFINE Cancelled(x) == [[x EXCEPT !.at = "cancelled"] EXCEPT !.gone = TRUE]
  <2> SUFFICES ASSUME NEW p \in Orders PROVE order'[p] \in Order
    BY DEF TypeOK, Restore
  <2>1. order'[p] = order[p] \/ order'[p] = Cancelled(order[p])
    BY DEF TypeOK, Restore
  <2>2. \A x \in Order : Cancelled(x) \in Order
    BY OrderFields DEF Status
  <2>3. order[p] \in Order
    BY DEF TypeOK
  <2> HIDE DEF Cancelled
  <2> QED BY <2>1, <2>2, <2>3
<1>2. credit' \in Nat
  <2>1. req[r].cash \in Nat /\ req[r].saw.total \in Nat
    BY OrderAssumption DEF TypeOK, Req, Order
  <2> QED BY <2>1 DEF TypeOK, Restore
<1>3. torn' \in BOOLEAN
  BY DEF TypeOK, Restore
<1> QED BY <1>1, <1>2, <1>3 DEF Restore

LEMMA ReqFields ==
    ASSUME NEW x \in Req
    PROVE  /\ \A at \in {"idle", "auth", "item", "checkout"} \cup AllOperations :
                 [x EXCEPT !.at = at] \in Req
           /\ \A o \in Orders : [x EXCEPT !.on = o] \in Req
           /\ \A n \in Nat : [x EXCEPT !.cash = n] \in Req
           /\ \A y \in Order : [x EXCEPT !.saw = y] \in Req
           /\ \A c \in Orders \cup {Nobody} : [x EXCEPT !.into = c] \in Req
           /\ \A S \in SUBSET Orders : [x EXCEPT !.todo = S] \in Req
           /\ \A d \in 0..MaxContracts : [x EXCEPT !.doc = d] \in Req
BY DEF Req

\* A request writes nothing but a request, which has a document if it signs.
Asked(r) ==
    \E v \in Req :
        /\ req' = [req EXCEPT ![r] = v]
        /\ v.at \in {"sign_wakalah", "sign_murabaha"} => v.doc # 0

LEMMA TypeReqEnd ==
    ASSUME TypeInv, NEW r \in Requests, ReqEnd(r)
    PROVE  Asked(r)
<1>1. NoReq \in Req /\ NoReq.at = "idle"
  BY Nobodys DEF NoReq
<1> QED BY <1>1 DEF Asked

LEMMA TypeAsk ==
    ASSUME TypeInv, NEW r \in Requests, NEW o \in Orders,
           NEW op \in AllOperations \ {"sign_wakalah", "sign_murabaha"},
           Ask(r, op, o)
    PROVE  Asked(r)
<1> DEFINE cash == IF op \in {"accept", "cancel", "remove"} THEN req[r].cash ELSE 0
           v == [[[[req[r] EXCEPT !.at = op] EXCEPT !.on = o]
                    EXCEPT !.saw = order[o]] EXCEPT !.cash = cash]
<1>1. req[r] \in Req /\ order[o] \in Order /\ req \in [Requests -> Req]
  BY DEF TypeInv, TypeOK
<1>2. cash \in Nat
  BY <1>1 DEF Req
<1>3. v \in Req
  <2> HIDE DEF cash
  <2>1. [req[r] EXCEPT !.at = op] \in Req
    BY <1>1, ReqFields
  <2>2. [[req[r] EXCEPT !.at = op] EXCEPT !.on = o] \in Req
    BY <2>1, ReqFields
  <2>3. [[[req[r] EXCEPT !.at = op] EXCEPT !.on = o] EXCEPT !.saw = order[o]] \in Req
    BY <1>1, <2>2, ReqFields
  <2> QED BY <1>2, <2>3, ReqFields
<1>4. v.at = op
  BY <1>1 DEF Req
<1>5. req' = [req EXCEPT ![r] = v]
  BY <1>1 DEF Ask
<1> HIDE DEF v
<1> QED BY <1>3, <1>4, <1>5 DEF Asked

LEMMA TypeAsked ==
    ASSUME TypeInv, NEW r \in Requests, Asked(r)
    PROVE  req' \in [Requests -> Req] /\ DocNamed'
BY DEF Asked, TypeInv, TypeOK, DocNamed

\* What the requests of an order's intake write.
Written ==
    /\ order' \in [Orders -> Order] /\ credit' \in Nat
    /\ cart' \in [Orders -> Orders \cup {Nobody}]
    /\ carts' \in [Orders -> {"none", "open", "checked_out"}]
    /\ loans' \in [SUBSET Orders -> {"none", "active", "cancelled"}]
    /\ accepted' \in [Orders -> Nat] /\ torn' \in BOOLEAN
    /\ req' \in [Requests -> Req] /\ DocNamed'

LEMMA TypeWritten ==
    ASSUME TypeInv, Written,
           UNCHANGED <<events, taken, offered, wakalah, murabaha, overrides>>
    PROVE  TypeInv'
BY DEF Written, TypeInv, TypeOK, Published

LEMMA TypeSame ==
    ASSUME TypeInv, NEW r \in Requests, Asked(r),
           UNCHANGED <<order, credit, papers, accepted, torn>>
    PROVE  Written
BY TypeAsked DEF Written, TypeInv, TypeOK

LEMMA TypeReading ==
    ASSUME TypeInv, NEW r \in Requests, NEW o \in Orders,
           \/ OfferRead(r, o) \/ AcceptRead(r, o)
           \/ CancelRead(r, o) \/ RemoveRead(r, o)
    PROVE  Written
<1>1. \E op \in {"offer", "accept", "cancel", "remove"} : Ask(r, op, o)
  BY DEF OfferRead, AcceptRead, CancelRead, RemoveRead
<1>2. Asked(r)
  BY <1>1, TypeAsk DEF AllOperations
<1> QED
  BY <1>2, TypeSame DEF OfferRead, AcceptRead, CancelRead, RemoveRead

LEMMA TypeRequested ==
    ASSUME TypeInv, NEW r \in Requests,
           \/ Authenticate(r) \/ Refuse(r)
           \/ \E op \in Operations : InitiateRead(r, op)
           \/ \E o \in Orders : Checkout(r, o)
    PROVE  Written
<1>1. req[r] \in Req /\ req \in [Requests -> Req]
  BY DEF TypeInv, TypeOK
<1>2. CASE Authenticate(r)
  <2> DEFINE v == [[req[r] EXCEPT !.at = "auth"] EXCEPT !.cash = credit]
  <2>1. v \in Req
    <3>1. [req[r] EXCEPT !.at = "auth"] \in Req
      BY <1>1, ReqFields
    <3> QED BY <3>1, ReqFields DEF TypeInv, TypeOK
  <2>2. v.at = "auth" /\ req' = [req EXCEPT ![r] = v]
    BY <1>1, <1>2 DEF Authenticate, Req
  <2>3. Asked(r)
    <3> HIDE DEF v
    <3> QED BY <2>1, <2>2 DEF Asked
  <2> QED BY <1>2, <2>3, TypeSame DEF Authenticate
<1>3. CASE Refuse(r)
  BY <1>3, TypeReqEnd, TypeSame DEF Refuse
<1>4. ASSUME NEW op \in Operations, InitiateRead(r, op) PROVE Written
  <2>1. PICK c \in Orders \cup {Nobody} :
          req' = [req EXCEPT ![r].at = op, ![r].cash = 0, ![r].into = c]
    BY <1>4 DEF InitiateRead
  <2> DEFINE v == [[[req[r] EXCEPT !.at = op] EXCEPT !.cash = 0] EXCEPT !.into = c]
  <2>2. v \in Req
    <3>1. [req[r] EXCEPT !.at = op] \in Req
      BY <1>1, ReqFields, OrderAssumption
    <3>2. [[req[r] EXCEPT !.at = op] EXCEPT !.cash = 0] \in Req
      BY <3>1, ReqFields
    <3> QED BY <3>2, ReqFields
  <2>3. v.at = op /\ req' = [req EXCEPT ![r] = v]
    BY <1>1, <2>1 DEF Req
  <2>4. op \in {"initiate", "add_item"}
    BY <1>4 DEF InitiateRead
  <2>5. Asked(r)
    <3> HIDE DEF v
    <3> QED BY <2>2, <2>3, <2>4 DEF Asked
  <2> QED BY <1>4, <2>5, TypeSame DEF InitiateRead
<1>5. ASSUME NEW c \in Orders, Checkout(r, c) PROVE Written
  <2> DEFINE v == [[[req[r] EXCEPT !.at = "checkout"] EXCEPT !.into = c]
                     EXCEPT !.todo = Items(c)]
  <2>1. v \in Req
    <3>1. [req[r] EXCEPT !.at = "checkout"] \in Req
      BY <1>1, ReqFields
    <3>2. [[req[r] EXCEPT !.at = "checkout"] EXCEPT !.into = c] \in Req
      BY <3>1, ReqFields
    <3>3. Items(c) \in SUBSET Orders
      BY DEF Items
    <3> QED BY <3>2, <3>3, ReqFields
  <2>2. v.at = "checkout" /\ req' = [req EXCEPT ![r] = v]
    BY <1>1, <1>5 DEF Checkout, Req
  <2>3. Asked(r)
    <3> HIDE DEF v
    <3> QED BY <2>1, <2>2 DEF Asked
  <2> QED BY <1>5, <2>3, TypeSame DEF Checkout
<1> QED BY <1>2, <1>3, <1>4, <1>5

LEMMA TypeMark ==
    ASSUME TypeInv, NEW r \in Requests, MarkExtractionFailed(r)
    PROVE  Written
<1>1. order' \in [Orders -> Order] /\ torn' \in BOOLEAN
  <2>1. Put(req[r].on, req[r].saw, "extraction_failed")
    BY DEF MarkExtractionFailed
  <2> QED BY <2>1, TypePut DEF TypeInv, Status
<1>2. Asked(r)
  BY TypeReqEnd DEF MarkExtractionFailed
<1> QED BY <1>1, <1>2, TypeAsked
    DEF MarkExtractionFailed, Written, TypeInv, TypeOK

LEMMA TypeInitiate ==
    ASSUME TypeInv, NEW r \in Requests, NEW o \in Orders, Initiate(r, o)
    PROVE  Written
<1>1. req[r] \in Req /\ req \in [Requests -> Req]
  BY DEF TypeInv, TypeOK
<1>2. order' \in [Orders -> Order]
  BY OrderFields DEF Initiate, TypeInv, TypeOK, Status
<1>3. carts' \in [Orders -> {"none", "open", "checked_out"}]
  BY DEF Initiate, TypeInv, TypeOK
<1>4. Asked(r)
  <2>1. CASE req[r].at = "add_item"
    <3> DEFINE c == IF req[r].into = Nobody THEN o ELSE req[r].into
               v == [[[req[r] EXCEPT !.at = "item"] EXCEPT !.on = o] EXCEPT !.into = c]
    <3>1. v \in Req
      <4>1. [req[r] EXCEPT !.at = "item"] \in Req
        BY <1>1, ReqFields
      <4>2. [[req[r] EXCEPT !.at = "item"] EXCEPT !.on = o] \in Req
        BY <4>1, ReqFields
      <4>3. c \in Orders \cup {Nobody}
        BY <1>1 DEF Req
      <4> HIDE DEF c
      <4> QED BY <4>2, <4>3, ReqFields
    <3>2. v.at = "item" /\ req' = [req EXCEPT ![r] = v]
      BY <1>1, <2>1 DEF Initiate, Req
    <3> HIDE DEF v
    <3> QED BY <3>1, <3>2 DEF Asked
  <2>2. CASE req[r].at # "add_item"
    BY <2>2, TypeReqEnd DEF Initiate
  <2> QED BY <2>1, <2>2
<1> QED BY <1>2, <1>3, <1>4, TypeAsked DEF Initiate, Written, TypeInv, TypeOK

LEMMA TypeCart ==
    ASSUME TypeInv, NEW r \in Requests, AddItem(r) \/ CheckedOut(r)
    PROVE  Written
<1>1. Asked(r)
  BY TypeReqEnd DEF AddItem, CheckedOut
<1>2. CASE AddItem(r)
  <2>1. req[r].into \in Orders \cup {Nobody}
    BY DEF TypeInv, TypeOK, Req
  <2>2. cart' \in [Orders -> Orders \cup {Nobody}]
    BY <1>2, <2>1 DEF AddItem, TypeInv, TypeOK
  <2> QED BY <1>1, <1>2, <2>2, TypeAsked DEF AddItem, Written, TypeInv, TypeOK
<1>3. CASE CheckedOut(r)
  BY <1>1, <1>3, TypeAsked DEF CheckedOut, Written, TypeInv, TypeOK
<1> QED BY <1>2, <1>3

LEMMA TypeAccept ==
    ASSUME TypeInv, NEW r \in Requests, AcceptOffer(r)
    PROVE  Written
<1>1. req[r] \in Req /\ req \in [Requests -> Req]
  BY DEF TypeInv, TypeOK
<1>2. order' \in [Orders -> Order]
  BY OrderFields DEF AcceptOffer, Accept, TypeInv, TypeOK, Status
<1>3. accepted' \in [Orders -> Nat]
  BY CountedByOne DEF AcceptOffer, Accept, TypeInv, TypeOK
<1>4. Asked(r)
  <2>1. CASE req[r].into = Nobody
    BY <2>1, TypeReqEnd DEF AcceptOffer, Accept
  <2>2. CASE req[r].into # Nobody
    <3> DEFINE left == req[r].todo \ {req[r].on}
               v == [[req[r] EXCEPT !.at = "checkout"] EXCEPT !.todo = left]
    <3>1. v \in Req
      <4>1. [req[r] EXCEPT !.at = "checkout"] \in Req
        BY <1>1, ReqFields
      <4>2. left \in SUBSET Orders
        BY <1>1 DEF Req
      <4> QED BY <4>1, <4>2, ReqFields
    <3>2. v.at = "checkout" /\ req' = [req EXCEPT ![r] = v]
      BY <1>1, <2>2 DEF AcceptOffer, Accept, Req
    <3> HIDE DEF v
    <3> QED BY <3>1, <3>2 DEF Asked
  <2> QED BY <2>1, <2>2
<1> QED BY <1>2, <1>3, <1>4, TypeAsked
    DEF AcceptOffer, Accept, Written, TypeInv, TypeOK

LEMMA TypeGiveUp ==
    ASSUME TypeInv, NEW r \in Requests, Cancel(r) \/ RemoveItem(r)
    PROVE  Written
<1>1. PICK states : Restore(r, states)
  BY DEF Cancel, RemoveItem
<1>2. /\ order' \in [Orders -> Order] /\ credit' \in Nat
      /\ torn' \in BOOLEAN /\ req' = [req EXCEPT ![r] = NoReq]
  BY <1>1, TypeRestore DEF TypeInv
<1>3. req' \in [Requests -> Req] /\ DocNamed'
  BY <1>2, TypeReqEnd, TypeAsked
<1>4. CASE Cancel(r)
  <2>1. loans' \in [SUBSET Orders -> {"none", "active", "cancelled"}]
    BY <1>4 DEF Cancel, TypeInv, TypeOK
  <2> QED BY <1>2, <1>3, <1>4, <2>1 DEF Cancel, Written, TypeInv, TypeOK
<1>5. CASE RemoveItem(r)
  BY <1>2, <1>3, <1>5 DEF RemoveItem, Written, TypeInv, TypeOK
<1> QED BY <1>4, <1>5

LEMMA TypeIntake ==
    ASSUME TypeInv, NEW r \in Requests, Intake(r)
    PROVE  TypeInv'
<1>1. Written
  BY TypeReading, TypeRequested, TypeMark, TypeInitiate, TypeCart, TypeAccept,
     TypeGiveUp DEF Intake
<1> QED BY <1>1, IntakeFrame, TypeWritten

\* What the requests about contracts write.
Papered ==
    /\ order' \in [Orders -> Order] /\ torn' \in BOOLEAN /\ credit' \in Nat
    /\ wakalah' \in [Orders -> Papers] /\ murabaha' \in [Orders -> Papers]
    /\ loans' \in [SUBSET Orders -> {"none", "active", "cancelled"}]
    /\ req' \in [Requests -> Req] /\ DocNamed'

LEMMA TypePapered ==
    ASSUME TypeInv, Papered, UNCHANGED Beside
    PROVE  TypeInv'
BY DEF Papered, TypeInv, TypeOK, Published

LEMMA TypePapersSame ==
    ASSUME TypeInv, NEW r \in Requests, Asked(r),
           UNCHANGED <<order, credit, wakalah, murabaha, loans, torn>>
    PROVE  Papered
BY TypeAsked DEF Papered, TypeInv, TypeOK

LEMMA TypeMade ==
    ASSUME NEW f \in [Orders -> Papers], NEW o, f[o].made < MaxContracts
    PROVE  [f EXCEPT ![o].made = @ + 1] \in [Orders -> Papers]
<1> SUFFICES ASSUME NEW p \in Orders
             PROVE  [f EXCEPT ![o].made = @ + 1][p] \in Papers
  OBVIOUS
<1>1. f[p] \in Papers
  OBVIOUS
<1>2. CASE p = o
  <2>1. [f EXCEPT ![o].made = @ + 1][p] = [f[p] EXCEPT !.made = @ + 1]
    BY <1>2
  <2>2. f[p].made \in 0..MaxContracts /\ f[p].made < MaxContracts
    BY <1>1, <1>2 DEF Papers
  <2>3. f[p].made + 1 \in 0..MaxContracts
    BY <2>2, OrderAssumption
  <2> QED BY <1>1, <2>1, <2>3 DEF Papers
<1>3. CASE p # o
  BY <1>1, <1>3
<1> QED BY <1>2, <1>3

LEMMA TypeSigned ==
    ASSUME NEW f \in [Orders -> Papers], NEW o, NEW d \in 1..MaxContracts
    PROVE  [f EXCEPT ![o].signed = @ \cup {d}] \in [Orders -> Papers]
<1> SUFFICES ASSUME NEW p \in Orders
             PROVE  [f EXCEPT ![o].signed = @ \cup {d}][p] \in Papers
  OBVIOUS
<1>1. f[p] \in Papers
  OBVIOUS
<1>2. f[p].signed \cup {d} \in SUBSET (1..MaxContracts)
  BY <1>1 DEF Papers
<1>3. \/ [f EXCEPT ![o].signed = @ \cup {d}][p] = f[p]
      \/ [f EXCEPT ![o].signed = @ \cup {d}][p] = [f[p] EXCEPT !.signed = @ \cup {d}]
  OBVIOUS
<1> QED BY <1>1, <1>2, <1>3 DEF Papers

LEMMA TypeGenerate ==
    ASSUME TypeInv, NEW r \in Requests,
           GenerateWakalah(r) \/ GenerateMurabaha(r)
    PROVE  Papered
<1>1. Asked(r)
  BY TypeReqEnd DEF GenerateWakalah, GenerateMurabaha
<1>2. CASE GenerateWakalah(r)
  <2>1. order' \in [Orders -> Order] /\ torn' \in BOOLEAN
    <3>1. Put(req[r].on, req[r].saw, "contracts_pending")
      BY <1>2 DEF GenerateWakalah
    <3> QED BY <3>1, TypePut DEF TypeInv, Status
  <2>2. wakalah' \in [Orders -> Papers]
    BY <1>2, TypeMade DEF GenerateWakalah, TypeInv, TypeOK
  <2> QED BY <1>1, <1>2, <2>1, <2>2, TypeAsked
          DEF GenerateWakalah, Papered, TypeInv, TypeOK
<1>3. CASE GenerateMurabaha(r)
  <2>1. murabaha' \in [Orders -> Papers]
    BY <1>3, TypeMade DEF GenerateMurabaha, TypeInv, TypeOK
  <2> QED BY <1>1, <1>3, <2>1, TypeAsked
          DEF GenerateMurabaha, Papered, TypeInv, TypeOK
<1> QED BY <1>2, <1>3

\* Credit that is computed from the loans is a number.
LEMMA TypeRecalculated ==
    ASSUME NEW ls
    PROVE  Recalculated(ls) \in Nat
BY OrderAssumption DEF Recalculated

LEMMA TypeSign ==
    ASSUME TypeInv, NEW r \in Requests, SignWakalah(r) \/ SignMurabaha(r)
    PROVE  Papered
<1>1. Asked(r)
  BY TypeReqEnd DEF SignWakalah, SignMurabaha, Sign
<1>2. req[r] \in Req /\ req[r].doc \in 1..MaxContracts
  <2>1. req[r] \in Req
    BY DEF TypeInv, TypeOK
  <2>2. req[r].doc \in 0..MaxContracts /\ req[r].doc # 0
    BY <2>1 DEF TypeInv, DocNamed, Req, SignWakalah, SignMurabaha, Sign
  <2> QED BY <2>1, <2>2, OrderAssumption
<1>3. CASE SignWakalah(r)
  <2>1. order' \in [Orders -> Order] /\ torn' \in BOOLEAN
    <3>1. Put(req[r].on, req[r].saw, "contracts_pending")
      BY <1>3 DEF SignWakalah
    <3> QED BY <3>1, TypePut DEF TypeInv, Status
  <2>2. wakalah' \in [Orders -> Papers]
    BY <1>2, <1>3, TypeSigned DEF SignWakalah, TypeInv, TypeOK
  <2> QED BY <1>1, <1>3, <2>1, <2>2, TypeAsked
          DEF SignWakalah, Papered, TypeInv, TypeOK
<1>4. CASE SignMurabaha(r)
  <2> USE <1>4 DEF SignMurabaha, Sign
  <2>1. murabaha' \in [Orders -> Papers]
    BY <1>2, TypeSigned DEF TypeInv, TypeOK
  <2>2. req[r].todo \in SUBSET Orders
    BY <1>2 DEF Req
  <2>3. order' \in [Orders -> Order]
    <3> SUFFICES ASSUME NEW p \in Orders PROVE order'[p] \in Order
      OBVIOUS
    <3>1. order[p] \in Order
      BY DEF TypeInv, TypeOK
    <3>2. \E at \in Status, S \in SUBSET Orders :
             order'[p] = [[order[p] EXCEPT !.at = at] EXCEPT !.loan = S]
      BY <2>2, <3>1 DEF Status, Order
    <3> QED BY <3>1, <3>2, OrderFields
  <2>4. torn' \in BOOLEAN
    BY DEF TypeInv, TypeOK
  <2>5. loans' \in [SUBSET Orders -> {"none", "active", "cancelled"}]
    BY <2>2 DEF TypeInv, TypeOK
  <2>6. credit' \in Nat
    <3>1. credit \in Nat /\ Recalculated(loans') \in Nat
      BY TypeRecalculated DEF TypeInv, TypeOK
    <3> QED BY <3>1
  <2> QED BY <1>1, <2>1, <2>3, <2>4, <2>5, <2>6, TypeAsked
          DEF Papered, TypeInv, TypeOK
<1> QED BY <1>3, <1>4

LEMMA TypeLock ==
    ASSUME TypeInv, NEW r \in Requests, NEW o \in Orders,
           NEW c \in 1..MaxContracts,
           LockWakalah(r, o, c) \/ LockMurabaha(r, o, c)
    PROVE  Papered
<1> DEFINE v(op) == [[[[NoReq EXCEPT !.at = op] EXCEPT !.on = o]
                        EXCEPT !.doc = c] EXCEPT !.saw = order[o]]
           w(op, S) == [v(op) EXCEPT !.todo = S]
<1>1. order[o] \in Order /\ Siblings(o) \in SUBSET Orders
  BY DEF TypeInv, TypeOK, Siblings, Items
<1>2. \A op \in AllOperations : v(op) \in Req /\ v(op).doc = c
  <2> SUFFICES ASSUME NEW op \in AllOperations
               PROVE  v(op) \in Req /\ v(op).doc = c
    OBVIOUS
  <2>1. [NoReq EXCEPT !.at = op] \in Req
    BY Nobodys, ReqFields
  <2>2. [[NoReq EXCEPT !.at = op] EXCEPT !.on = o] \in Req
    BY <2>1, ReqFields
  <2> DEFINE z == [[NoReq EXCEPT !.at = op] EXCEPT !.on = o]
             x == [z EXCEPT !.doc = c]
  <2> HIDE DEF z
  <2>3. x \in Req /\ x.doc = c
    <3>1. z \in Req   BY <2>2 DEF z
    <3>2. x \in Req   BY <3>1, ReqFields
    <3>3. x.doc = c   BY <3>1 DEF Req
    <3> QED BY <3>2, <3>3
  <2> HIDE DEF x
  <2>4. [x EXCEPT !.saw = order[o]] \in Req
    BY <1>1, <2>3, ReqFields
  <2>5. [x EXCEPT !.saw = order[o]].doc = c
    BY <2>3 DEF Req
  <2> QED BY <2>4, <2>5 DEF x, z
<1>3. CASE LockWakalah(r, o, c)
  <2>1. req' = [req EXCEPT ![r] = v("sign_wakalah")]
    BY <1>3 DEF LockWakalah
  <2> HIDE DEF v
  <2>2. Asked(r)
    BY <1>2, <2>1, c # 0 DEF Asked, AllOperations
  <2> QED BY <1>3, <2>2, TypePapersSame DEF LockWakalah
<1>4. CASE LockMurabaha(r, o, c)
  <2> DEFINE S == IF AllSigned(o, c) THEN Siblings(o) ELSE {}
  <2>1. req' = [req EXCEPT ![r] = w("sign_murabaha", S)]
    BY <1>4 DEF LockMurabaha, ReadMurabaha
  <2>2. S \in SUBSET Orders
    BY <1>1
  <2>3. v("sign_murabaha") \in Req /\ v("sign_murabaha").doc = c
    BY <1>2 DEF AllOperations
  <2> HIDE DEF v, S
  <2>4. w("sign_murabaha", S) \in Req
    BY <2>2, <2>3, ReqFields
  <2>5. w("sign_murabaha", S).doc = c
    BY <2>3 DEF Req
  <2> HIDE DEF w
  <2>6. Asked(r)
    BY <2>1, <2>4, <2>5, c # 0 DEF Asked
  <2> QED BY <1>4, <2>6, TypePapersSame DEF LockMurabaha
<1> QED BY <1>3, <1>4

LEMMA TypeSigning ==
    ASSUME TypeInv, NEW r \in Requests, Signing(r)
    PROVE  TypeInv'
<1>1. ASSUME NEW o \in Orders, WakalahRead(r, o) \/ MurabahaRead(r, o)
      PROVE  Papered
  <2>1. Ask(r, "wakalah", o) \/ Ask(r, "murabaha", o)
    BY <1>1 DEF WakalahRead, MurabahaRead
  <2>2. Asked(r)
    BY <2>1, TypeAsk DEF AllOperations
  <2> QED BY <1>1, <2>2, TypePapersSame DEF WakalahRead, MurabahaRead
<1>2. Papered
  BY <1>1, TypeGenerate, TypeSign, TypeLock DEF Signing
<1> QED BY <1>2, SigningFrame, TypePapered

LEMMA TypeStep == TypeInv /\ [Next]_vars => TypeInv'
<1> SUFFICES ASSUME TypeInv, [Next]_vars PROVE TypeInv'
  OBVIOUS
<1>1. CASE CreditResult
  BY <1>1, OrderAssumption
  DEF CreditResult, TypeInv, TypeOK, Published, DocNamed
<1>2. CASE UNCHANGED vars
  BY <1>2 DEF vars, TypeInv, TypeOK, Published, DocNamed
<1> QED
  BY <1>1, <1>2, TypePublish, TypeListener, TypeIntake, TypeSigning DEF Next

\* Whatever the customer asks for and whatever the workers are sent, every
\* column keeps to its domain (models/order.py, contract_signer.py,
\* cart_service.py): no status is written that the handlers do not know.
THEOREM TypeCorrect == Spec => []TypeOK
<1>1. TypeInv => TypeOK
  BY DEF TypeInv
<1> QED BY <1>1, TypeInit, TypeStep, PTL DEF Spec

----------------------------------------------------------------------------
(* An event is handled once                                                *)

\* One worker at most handles an event, which is claimed by then.
OneHandler ==
    /\ \A v, w \in Workers :
         job[v] # NoJob /\ job[w] # NoJob /\ job[v].ev = job[w].ev => v = w
    /\ \A w \in Workers : job[w] # NoJob => job[w].ev \in claimed

\* Credit is reserved for no event before it is claimed and handled.
NotYet ==
    /\ \A e \in Events : e \notin claimed => taken[e] = 0
    /\ \A w \in Workers : job[w] # NoJob => taken[job[w].ev] = 0

ClaimInv == OneHandler /\ NotYet /\ EventOnce

LEMMA ClaimListener ==
    ASSUME TypeInv, ClaimInv, NEW w \in Workers, Listener(w)
    PROVE  ClaimInv'
<1> USE DEF ClaimInv, OneHandler, NotYet, EventOnce
<1>1. /\ job \in [Workers -> Job \cup {NoJob}]
      /\ taken \in [Events -> Nat] /\ claimed \subseteq Events
  BY DEF TypeInv, TypeOK
<1>2. ASSUME NEW e \in Events, HandleEvent(w, e) PROVE ClaimInv'
  <2>1. \/ UNCHANGED <<claimed, job, taken>>
        \/ /\ e \notin claimed /\ claimed' = claimed \cup {e}
           /\ taken' = taken
           /\ \E n : /\ job' = [job EXCEPT ![w] = n]
                     /\ n = NoJob \/ n.ev = e
    BY <1>2 DEF HandleEvent, Handle
  <2>2. CASE UNCHANGED <<claimed, job, taken>>
    BY <2>2
  <2>3. ASSUME NEW n, e \notin claimed, claimed' = claimed \cup {e},
               taken' = taken, job' = [job EXCEPT ![w] = n],
               n = NoJob \/ n.ev = e
        PROVE  ClaimInv'
    BY <1>1, <2>3
  <2> QED BY <2>1, <2>2, <2>3
<1>3. CASE OfferPresented(w)
  <2>1. /\ job[w] # NoJob /\ job[w].ev \in Events
        /\ taken' = [taken EXCEPT ![job[w].ev] = @ + 1]
        /\ job' = [job EXCEPT ![w] = NoJob] /\ claimed' = claimed
    BY <1>1, <1>3 DEF OfferPresented, NoJob, Job
  <2>2. taken'[job[w].ev] = 1
    BY <1>1, <2>1
  <2>3. \A e \in Events \ {job[w].ev} : taken'[e] = taken[e]
    BY <1>1, <2>1
  <2>4. \A v \in Workers \ {w} : job'[v] = job[v]
    BY <1>1, <2>1
  <2>5. \A v \in Workers : job[v] # NoJob => job[v].ev \in Events
    BY <1>1
  <2>6. OneHandler'
    BY <1>1, <2>1, <2>4
  <2>7. NotYet'
    BY <1>1, <2>1, <2>3, <2>4, <2>5
  <2>8. EventOnce'
    BY <2>1, <2>2, <2>3
  <2> QED BY <2>6, <2>7, <2>8
<1>4. CASE OfferRefused(w) \/ ExtractionFailed(w) \/ ListenerError(w)
  <2>1. job' = [job EXCEPT ![w] = NoJob] /\ UNCHANGED <<claimed, taken>>
    BY <1>4 DEF OfferRefused, ExtractionFailed, ListenerError
  <2> QED BY <1>1, <2>1
<1> QED BY <1>2, <1>3, <1>4 DEF Listener

\* However many workers get a copy of an event, and however often they fail,
\* credit is reserved for it once (main.py:63-79, order_service.py:396-410).
THEOREM HandledOnce == Spec => []EventOnce
<1>1. Init => ClaimInv
  BY DEF Init, ClaimInv, OneHandler, NotYet, EventOnce
<1>2. TypeInv /\ ClaimInv /\ [Next]_vars => ClaimInv'
  <2> SUFFICES ASSUME TypeInv, ClaimInv, [Next]_vars PROVE ClaimInv'
    OBVIOUS
  <2>1. ASSUME UNCHANGED <<job, claimed, taken>> PROVE ClaimInv'
    BY <2>1 DEF ClaimInv, OneHandler, NotYet, EventOnce
  <2>2. ASSUME NEW r \in Requests, Intake(r) \/ Signing(r)
        PROVE  UNCHANGED <<job, claimed, taken>>
    BY <2>2, IntakeFrame, SigningFrame
  <2>3. CASE CreditResult
    BY <2>1, <2>3 DEF CreditResult
  <2>4. ASSUME NEW e \in Events, NEW kind \in {"extracted", "failed"},
               NEW o \in Orders, Publish(e, kind, o)
        PROVE  ClaimInv'
    BY <2>1, <2>4 DEF Publish
  <2>5. CASE UNCHANGED vars
    BY <2>1, <2>5 DEF vars
  <2> QED BY <2>1, <2>2, <2>3, <2>4, <2>5, ClaimListener DEF Next
<1>3. ClaimInv => EventOnce
  BY DEF ClaimInv
<1> QED BY <1>1, <1>2, <1>3, TypeInit, TypeStep, PTL DEF Spec

----------------------------------------------------------------------------
(* An offer is accepted once                                               *)

\* An offer that is still open has not been accepted.
OpenOffer ==
    \A o \in Orders : order[o].at = "offer_presented" => accepted[o] < offered[o]

OfferInv == AcceptOnce /\ OpenOffer

\* A step that neither offers nor accepts, and leaves no order newly offered.
Bystander ==
    /\ UNCHANGED <<offered, accepted>>
    /\ \A o \in Orders : order'[o].at = "offer_presented" =>
                            order[o].at = "offer_presented"

LEMMA BystanderKeeps == OfferInv /\ Bystander => OfferInv'
BY DEF OfferInv, AcceptOnce, OpenOffer, Bystander

LEMMA OfferListener ==
    ASSUME TypeInv, OfferInv, NEW w \in Workers, Listener(w)
    PROVE  OfferInv'
<1>1. /\ order \in [Orders -> Order]
      /\ offered \in [Orders -> Nat] /\ accepted \in [Orders -> Nat]
  BY DEF TypeInv, TypeOK
<1>2. CASE OfferPresented(w)
  <2>1. /\ accepted' = accepted
        /\ offered' = [offered EXCEPT ![On(w)] = @ + 1]
    BY <1>2 DEF OfferPresented
  <2>2. \A o \in Orders \ {On(w)} : order'[o] = order[o]
    BY <1>1, <1>2 DEF OfferPresented
  <2> QED BY <1>1, <2>1, <2>2 DEF OfferInv, AcceptOnce, OpenOffer
<1>3. CASE OfferRefused(w) \/ ExtractionFailed(w)
  <2>1. \A o \in Orders : order'[o] = order[o] \/ order'[o].at = "extraction_failed"
    <3>1. CASE OfferRefused(w)
      <4>1. PICK n : order' = [order EXCEPT ![On(w)].at = "extraction_failed",
                                            ![On(w)].total = n]
        BY <3>1 DEF OfferRefused
      <4>2. \A o \in Orders \ {On(w)} : order'[o] = order[o]
        BY <1>1, <4>1
      <4>3. ASSUME On(w) \in Orders PROVE order'[On(w)].at = "extraction_failed"
        <5>1. order'[On(w)] = [order[On(w)] EXCEPT !.at = "extraction_failed", !.total = n]
          BY <1>1, <4>1, <4>3
        <5>2. order[On(w)] \in Order
          BY <1>1, <4>3
        <5> QED BY <5>1, <5>2 DEF Order
      <4> QED BY <4>2, <4>3
    <3>2. CASE ExtractionFailed(w)
      BY <1>1, <3>2 DEF ExtractionFailed, Order
    <3> QED BY <1>3, <3>1, <3>2
  <2> QED BY <1>3, <2>1, BystanderKeeps DEF Bystander, OfferRefused, ExtractionFailed
<1>4. CASE ListenerError(w) \/ \E e \in Events : HandleEvent(w, e)
  BY <1>4, BystanderKeeps DEF Bystander, ListenerError, HandleEvent
<1> QED BY <1>2, <1>3, <1>4 DEF Listener

LEMMA OfferIntake ==
    ASSUME TypeInv, OfferInv, NEW r \in Requests, Intake(r)
    PROVE  OfferInv'
<1>1. /\ order \in [Orders -> Order]
      /\ offered \in [Orders -> Nat] /\ accepted \in [Orders -> Nat]
  BY DEF TypeInv, TypeOK
<1>2. CASE AcceptOffer(r)
  <2> DEFINE o == req[r].on
  <2>1. /\ offered' = offered /\ order[o].at = "offer_presented"
        /\ accepted' = [accepted EXCEPT ![o] = @ + 1]
        /\ order' = [order EXCEPT ![o].at = "offer_accepted"]
    BY <1>2 DEF AcceptOffer, Accept
  <2>2. \A p \in Orders : p = o => order'[p].at = "offer_accepted"
    BY <1>1, <2>1 DEF Order
  <2>3. \A p \in Orders \ {o} : order'[p] = order[p]
    BY <1>1, <2>1
  <2> QED BY <1>1, <2>1, <2>2, <2>3 DEF OfferInv, AcceptOnce, OpenOffer
<1>3. ASSUME ~AcceptOffer(r) PROVE Bystander
  <2>1. UNCHANGED <<offered, accepted>>
    BY <1>3 DEF Intake, Authenticate, Refuse, MarkExtractionFailed,
       InitiateRead, AddItem, CheckedOut, Cancel, RemoveItem, Initiate,
       OfferRead, AcceptRead, CancelRead, RemoveRead, Checkout, Put, Restore
  <2>2. \/ order' = order
        \/ \E o, at : /\ at \in {"extraction_failed", "url_received"}
                      /\ order' = [order EXCEPT ![o].at = at]
        \/ \E o : order' = [order EXCEPT ![o].at = "cancelled", ![o].gone = TRUE]
    BY <1>3 DEF Intake, Authenticate, Refuse, MarkExtractionFailed,
       InitiateRead, AddItem, CheckedOut, Cancel, RemoveItem, Initiate,
       OfferRead, AcceptRead, CancelRead, RemoveRead, Checkout, Put, Restore
  <2>3. \A o \in Orders : order'[o] = order[o] \/ order'[o].at # "offer_presented"
    BY <1>1, <2>2 DEF Order
  <2> QED BY <2>1, <2>3 DEF Bystander
<1> QED BY <1>2, <1>3, BystanderKeeps

\* Two requests, or a request and a checkout, that accept one offer at the
\* same time: the conditional UPDATE lets one of them through, and an order is
\* accepted no more often than it was offered (order_service.py:274-294).
THEOREM AcceptedOnce == Spec => []AcceptOnce
<1>1. Init => OfferInv
  BY DEF Init, OfferInv, AcceptOnce, OpenOffer, NoOrder
<1>2. TypeInv /\ OfferInv /\ [Next]_vars => OfferInv'
  <2> SUFFICES ASSUME TypeInv, OfferInv, [Next]_vars PROVE OfferInv'
    OBVIOUS
  <2>1. ASSUME NEW r \in Requests, Signing(r) PROVE Bystander
    <3>1. UNCHANGED <<offered, accepted>>
      BY <2>1, SigningFrame
    <3>2. order \in [Orders -> Order]
      BY DEF TypeInv, TypeOK
    <3>3. \A o \in Orders : order'[o].at = order[o].at
                              \/ order'[o].at # "offer_presented"
      <4>1. CASE SignMurabaha(r)
        <5> SUFFICES ASSUME NEW o \in Orders
                     PROVE  order'[o].at \in {order[o].at, "contracts_signed"}
          OBVIOUS
        <5> DEFINE Took == o = req[r].on /\ req[r].saw.at # "contracts_signed"
        <5>1. order'[o] = [order[o] EXCEPT
                 !.at = IF Took THEN "contracts_signed" ELSE @,
                 !.loan = IF o \in req[r].todo THEN req[r].todo ELSE @]
          BY <4>1 DEF SignMurabaha, Sign
        <5> HIDE DEF Took
        <5>2. order[o] \in Order
          BY <3>2
        <5> QED BY <5>1, <5>2 DEF Order
      <4>2. CASE GenerateWakalah(r) \/ SignWakalah(r)
        <5>1. \/ order' = order
              \/ order' = [order EXCEPT ![req[r].on].at = "contracts_pending"]
          BY <4>2 DEF GenerateWakalah, SignWakalah, Put
        <5> QED BY <3>2, <5>1 DEF Order
      <4>3. CASE ~(SignMurabaha(r) \/ GenerateWakalah(r) \/ SignWakalah(r))
        BY <2>1, <4>3 DEF Signing, GenerateMurabaha, WakalahRead, MurabahaRead,
           LockWakalah, LockMurabaha
      <4> QED BY <4>1, <4>2, <4>3
    <3> QED BY <3>1, <3>3 DEF Bystander
  <2>2. ASSUME \/ \E e \in Events, kind \in {"extracted", "failed"}, o \in Orders :
                    Publish(e, kind, o)
               \/ CreditResult \/ UNCHANGED vars
        PROVE  Bystander
    BY <2>2 DEF Publish, CreditResult, vars, Bystander
  <2> QED BY <2>1, <2>2, OfferListener, OfferIntake, BystanderKeeps DEF Next
<1>3. OfferInv => AcceptOnce
  BY DEF OfferInv
<1> QED BY <1>1, <1>2, <1>3, TypeInit, TypeStep, PTL DEF Spec

----------------------------------------------------------------------------
(* The agency is signed first                                              *)

Agency(o) == wakalah[o].signed # {}

\* A request that draws up or signs a sale is about an order whose agency is
\* signed, and a loan it is about to make finances that order.
SaleAfterAgency ==
    \A r \in Requests :
        /\ req[r].at \in {"murabaha", "sign_murabaha"} =>
             req[r].on \in Orders /\ Agency(req[r].on)
        /\ req[r].at = "sign_murabaha" =>
             req[r].todo = {} \/ req[r].on \in req[r].todo

AgencyInv == WakalahFirst /\ SaleAfterAgency

\* A signature is never taken back.
LEMMA AgencyStays ==
    ASSUME TypeInv, [Next]_vars, NEW o \in Orders, Agency(o)
    PROVE  Agency(o)'
<1>1. wakalah \in [Orders -> Papers]
  BY DEF TypeInv, TypeOK
<1>2. CASE UNCHANGED wakalah
  BY <1>2 DEF Agency
<1>3. ASSUME NEW r \in Requests, Signing(r) PROVE Agency(o)'
  <2>1. CASE GenerateWakalah(r)
    BY <1>1, <2>1 DEF GenerateWakalah, Agency, Papers
  <2>2. CASE SignWakalah(r)
    BY <1>1, <2>2 DEF SignWakalah, Agency, Papers
  <2>3. CASE ~(GenerateWakalah(r) \/ SignWakalah(r))
    BY <1>2, <1>3, <2>3 DEF Signing, GenerateMurabaha, SignMurabaha, Sign,
       WakalahRead, MurabahaRead, LockWakalah, LockMurabaha
  <2> QED BY <2>1, <2>2, <2>3
<1> QED
  BY <1>2, <1>3, ListenerFrame, IntakeFrame DEF Next, Publish, CreditResult, vars

\* No contract is drawn up, no order financed and no such request begun.
Aside ==
    /\ UNCHANGED murabaha
    /\ \A o \in Orders : order'[o].loan = order[o].loan
    /\ \A r \in Requests :
         req'[r] = req[r] \/ req'[r].at \notin {"murabaha", "sign_murabaha"}

LEMMA AsideKeeps ==
    ASSUME TypeInv, AgencyInv, [Next]_vars, Aside
    PROVE  AgencyInv'
BY AgencyStays DEF AgencyInv, WakalahFirst, SaleAfterAgency, Aside, Agency

\* The writes of the handlers that do not make a loan.
LEMMA LoanFields ==
    ASSUME NEW x \in Order
    PROVE  /\ \A at \in Status : [x EXCEPT !.at = at].loan = x.loan
           /\ \A n \in {0, PRICE} : [x EXCEPT !.total = n].loan = x.loan
           /\ [x EXCEPT !.gone = TRUE].loan = x.loan
BY DEF Order

LEMMA LoanKept ==
    ASSUME order \in [Orders -> Order], NEW o, NEW at \in Status,
           \/ order' = [order EXCEPT ![o].at = at]
           \/ order' = [order EXCEPT ![o].at = at, ![o].gone = TRUE]
           \/ \E n \in {0, PRICE} :
                order' = [order EXCEPT ![o].at = at, ![o].total = n]
    PROVE  \A p \in Orders : order'[p].loan = order[p].loan
<1> SUFFICES ASSUME NEW p \in Orders, p = o
             PROVE  order'[p].loan = order[p].loan
  OBVIOUS
<1> DEFINE y == [order[p] EXCEPT !.at = at]
<1>1. y \in Order /\ y.loan = order[p].loan
  BY OrderFields, LoanFields
<1>2. \/ order'[p] = y \/ order'[p] = [y EXCEPT !.gone = TRUE]
      \/ \E n \in {0, PRICE} : order'[p] = [y EXCEPT !.total = n]
  OBVIOUS
<1> HIDE DEF y
<1>3. CASE order'[p] = y \/ order'[p] = [y EXCEPT !.gone = TRUE]
  BY <1>1, <1>3, LoanFields
<1>4. ASSUME NEW n \in {0, PRICE}, order'[p] = [y EXCEPT !.total = n]
      PROVE  order'[p].loan = y.loan
  BY <1>1, <1>4, LoanFields
<1> QED BY <1>1, <1>2, <1>3, <1>4

LEMMA ListenerAside ==
    ASSUME TypeInv, NEW w \in Workers, Listener(w)
    PROVE  Aside
<1>1. order \in [Orders -> Order]
  BY DEF TypeInv, TypeOK
<1>2. \A o \in Orders : order'[o].loan = order[o].loan
  <2>1. CASE OfferPresented(w) \/ OfferRefused(w) \/ ExtractionFailed(w)
    <3>1. CASE OfferPresented(w)
      BY <1>1, <3>1, LoanKept DEF OfferPresented, Status
    <3>2. CASE ExtractionFailed(w)
      BY <1>1, <3>2, LoanKept DEF ExtractionFailed, Status
    <3>3. CASE OfferRefused(w)
      <4> DEFINE n == IF credit < PRICE THEN PRICE ELSE order[On(w)].total
      <4>1. order' = [order EXCEPT ![On(w)].at = "extraction_failed",
                                   ![On(w)].total = n]
        BY <1>1, <3>3 DEF OfferRefused
      <4>2. CASE On(w) \in Orders
        <5>1. n \in {0, PRICE}
          BY <1>1, <4>2 DEF Order
        <5> HIDE DEF n
        <5> QED BY <1>1, <4>1, <5>1, LoanKept DEF Status
      <4>3. CASE On(w) \notin Orders
        <5> HIDE DEF n
        <5> QED BY <1>1, <4>1, <4>3
      <4> QED BY <4>2, <4>3
    <3> QED BY <2>1, <3>1, <3>2, <3>3
  <2>2. CASE ListenerError(w) \/ \E e \in Events : HandleEvent(w, e)
    BY <2>2 DEF ListenerError, HandleEvent
  <2> QED BY <2>1, <2>2 DEF Listener
<1> QED BY <1>2, ListenerFrame DEF Aside

LEMMA IntakeAside ==
    ASSUME TypeInv, NEW r \in Requests, Intake(r)
    PROVE  Aside
<1>1. order \in [Orders -> Order] /\ req \in [Requests -> Req]
  BY DEF TypeInv, TypeOK
<1>2. \/ order' = order
      \/ \E o : \E at \in Status :
           \/ order' = [order EXCEPT ![o].at = at]
           \/ order' = [order EXCEPT ![o].at = at, ![o].gone = TRUE]
  <2>1. CASE MarkExtractionFailed(r)
    BY <2>1 DEF MarkExtractionFailed, Put, Status
  <2>2. CASE Cancel(r) \/ RemoveItem(r)
    BY <2>2 DEF Cancel, RemoveItem, Restore, Status
  <2>3. CASE AcceptOffer(r)
    BY <2>3 DEF AcceptOffer, Accept, Status
  <2>4. CASE \E o \in Orders : Initiate(r, o)
    BY <2>4 DEF Initiate, Status
  <2>5. ASSUME ~(MarkExtractionFailed(r) \/ Cancel(r) \/ RemoveItem(r)),
               ~(AcceptOffer(r) \/ \E o \in Orders : Initiate(r, o))
        PROVE  order' = order
    BY <2>5 DEF Intake, Authenticate, Refuse, InitiateRead, AddItem, CheckedOut,
       OfferRead, AcceptRead, CancelRead, RemoveRead, Checkout
  <2> QED BY <2>1, <2>2, <2>3, <2>4, <2>5
<1>3. \A o \in Orders : order'[o].loan = order[o].loan
  BY <1>1, <1>2, LoanKept
<1>4. \A q \in Requests \ {r} : req'[q] = req[q]
  <2>1. CASE \/ Authenticate(r) \/ Refuse(r) \/ MarkExtractionFailed(r)
             \/ \E op \in Operations : InitiateRead(r, op)
    BY <1>1, <2>1 DEF Authenticate, Refuse, MarkExtractionFailed, InitiateRead
  <2>2. CASE AddItem(r) \/ AcceptOffer(r) \/ CheckedOut(r) \/ Cancel(r) \/ RemoveItem(r)
    BY <1>1, <2>2 DEF AddItem, AcceptOffer, Accept, CheckedOut, Cancel, RemoveItem,
                      Restore
  <2>3. ASSUME NEW o \in Orders,
               \/ Initiate(r, o) \/ OfferRead(r, o) \/ AcceptRead(r, o)
               \/ CancelRead(r, o) \/ RemoveRead(r, o) \/ Checkout(r, o)
        PROVE  \A q \in Requests \ {r} : req'[q] = req[q]
    BY <1>1, <2>3 DEF Initiate, OfferRead, AcceptRead, CancelRead, RemoveRead,
                      Checkout, Ask
  <2> QED BY <2>1, <2>2, <2>3 DEF Intake
<1>5. req'[r].at \notin {"murabaha", "sign_murabaha"}
  <2> DEFINE Sale == {"murabaha", "sign_murabaha"}
  <2>1. CASE ReqEnd(r)
    BY <1>1, <2>1 DEF NoReq
  <2>2. ASSUME NEW op \in {"offer", "accept", "cancel", "remove"},
               NEW o \in Orders, Ask(r, op, o)
        PROVE  req'[r].at \notin Sale
    BY <1>1, <2>2 DEF Ask, Req
  <2>3. CASE \E o \in Orders : OfferRead(r, o) \/ AcceptRead(r, o)
                                 \/ CancelRead(r, o) \/ RemoveRead(r, o)
    BY <2>2, <2>3 DEF OfferRead, AcceptRead, CancelRead, RemoveRead
  <2>4. CASE Authenticate(r) \/ \E op \in Operations : InitiateRead(r, op)
    <3>1. ASSUME NEW op \in Operations, InitiateRead(r, op)
          PROVE  req'[r].at \notin Sale
      <4>1. PICK c : req' = [req EXCEPT ![r].at = op, ![r].cash = 0, ![r].into = c]
        BY <3>1 DEF InitiateRead
      <4>2. req'[r].at = op
        BY <1>1, <4>1 DEF Req
      <4> QED BY <3>1, <4>2 DEF InitiateRead
    <3> QED BY <1>1, <2>4, <3>1 DEF Authenticate, Req
  <2>5. CASE \E o \in Orders : Initiate(r, o) \/ Checkout(r, o)
    BY <1>1, <2>1, <2>5 DEF Initiate, Checkout, Req
  <2>6. CASE AcceptOffer(r)
    BY <1>1, <2>1, <2>6 DEF AcceptOffer, Accept, Req
  <2>7. CASE Cancel(r) \/ RemoveItem(r)
    BY <2>1, <2>7 DEF Cancel, RemoveItem, Restore
  <2>8. CASE Refuse(r) \/ MarkExtractionFailed(r) \/ AddItem(r) \/ CheckedOut(r)
    BY <2>1, <2>8 DEF Refuse, MarkExtractionFailed, AddItem, CheckedOut
  <2> QED BY <2>3, <2>4, <2>5, <2>6, <2>7, <2>8 DEF Intake
<1> QED BY <1>3, <1>4, <1>5, IntakeFrame DEF Aside

LEMMA WakalahAside ==
    ASSUME TypeInv, NEW r \in Requests,
           \/ GenerateWakalah(r) \/ SignWakalah(r)
           \/ \E o \in Orders : WakalahRead(r, o)
           \/ \E o \in Orders, c \in 1..MaxContracts : LockWakalah(r, o, c)
    PROVE  Aside
<1>1. order \in [Orders -> Order] /\ req \in [Requests -> Req]
  BY DEF TypeInv, TypeOK
<1>2. CASE GenerateWakalah(r) \/ SignWakalah(r)
  <2>1. UNCHANGED murabaha /\ ReqEnd(r)
    BY <1>2 DEF GenerateWakalah, SignWakalah
  <2>2. order' = order \/ order' = [order EXCEPT ![req[r].on].at = "contracts_pending"]
    BY <1>2 DEF GenerateWakalah, SignWakalah, Put
  <2>3. \A o \in Orders : order'[o].loan = order[o].loan
    BY <1>1, <2>2, LoanKept DEF Status
  <2> QED BY <1>1, <2>1, <2>3 DEF Aside, NoReq
<1>3. ASSUME NEW o \in Orders, WakalahRead(r, o) PROVE Aside
  <2>1. req'[r].at = "wakalah" /\ \A q \in Requests \ {r} : req'[q] = req[q]
    BY <1>1, <1>3 DEF WakalahRead, Ask, Req
  <2> QED BY <1>3, <2>1 DEF Aside, WakalahRead
<1>4. ASSUME NEW o \in Orders, NEW c \in 1..MaxContracts, LockWakalah(r, o, c)
      PROVE  Aside
  <2>1. req'[r].at = "sign_wakalah" /\ \A q \in Requests \ {r} : req'[q] = req[q]
    BY <1>1, <1>4 DEF LockWakalah, NoReq
  <2> QED BY <1>4, <2>1 DEF Aside, LockWakalah
<1> QED BY <1>2, <1>3, <1>4

LEMMA AgencySale ==
    ASSUME TypeInv, AgencyInv, [Next]_vars, NEW r \in Requests,
           \/ GenerateMurabaha(r) \/ SignMurabaha(r)
           \/ \E o \in Orders : MurabahaRead(r, o)
           \/ \E o \in Orders, c \in 1..MaxContracts : LockMurabaha(r, o, c)
    PROVE  AgencyInv'
<1> USE DEF AgencyInv, WakalahFirst, SaleAfterAgency
<1>1. /\ order \in [Orders -> Order] /\ req \in [Requests -> Req]
      /\ murabaha \in [Orders -> Papers]
  BY DEF TypeInv, TypeOK
<1>2. \A o \in Orders : Agency(o) => Agency(o)'
  BY AgencyStays
<1>3. CASE GenerateMurabaha(r)
  <2>1. order' = order /\ req' = [req EXCEPT ![r] = NoReq]
    BY <1>3 DEF GenerateMurabaha
  <2>2. Agency(req[r].on)
    BY <1>3 DEF GenerateMurabaha
  <2>3. \A o \in Orders \ {req[r].on} : murabaha'[o] = murabaha[o]
    BY <1>1, <1>3 DEF GenerateMurabaha
  <2>4. WakalahFirst'
    BY <1>2, <2>1, <2>2, <2>3 DEF Agency
  <2>5. SaleAfterAgency'
    BY <1>1, <1>2, <2>1 DEF NoReq, Agency
  <2> QED BY <2>4, <2>5
<1>4. CASE SignMurabaha(r)
  <2> USE DEF SignMurabaha, Sign
  <2>1. req' = [req EXCEPT ![r] = NoReq]
    BY <1>4
  <2>2. /\ req[r].on \in Orders /\ Agency(req[r].on)
        /\ req[r].todo = {} \/ req[r].on \in req[r].todo
    BY <1>4
  <2>3. \A o \in Orders : murabaha'[o].made = murabaha[o].made
    <3>1. \A x \in Papers : \A S : [x EXCEPT !.signed = S].made = x.made
      BY DEF Papers
    <3>2. murabaha' = [murabaha EXCEPT ![req[r].on].signed = @ \cup {req[r].doc}]
      BY <1>4
    <3> QED BY <1>1, <3>1, <3>2
  <2>4. \A o \in Orders : order'[o].loan \in {order[o].loan, req[r].todo}
    <3> SUFFICES ASSUME NEW o \in Orders
                 PROVE  order'[o].loan \in {order[o].loan, req[r].todo}
      OBVIOUS
    <3> DEFINE at == IF o = req[r].on /\ req[r].saw.at # "contracts_signed"
                     THEN "contracts_signed" ELSE order[o].at
               S == IF o \in req[r].todo THEN req[r].todo ELSE order[o].loan
               y == [order[o] EXCEPT !.at = at]
    <3>1. order'[o] = [y EXCEPT !.loan = S]
      BY <1>4
    <3>2. y \in Order
      <4>1. order[o] \in Order /\ order[o].at \in Status
        BY <1>1 DEF Order
      <4>2. at \in Status
        BY <4>1 DEF Status
      <4> HIDE DEF at
      <4> QED BY <4>1, <4>2, OrderFields
    <3>3. [y EXCEPT !.loan = S].loan = S
      <4> HIDE DEF y, S
      <4> QED BY <3>2 DEF Order
    <3> QED BY <3>1, <3>3
  <2>5. \A o \in Orders : order'[o].loan = {o} => order[o].loan = {o} \/ Agency(o)
    BY <2>2, <2>4
  <2>6. WakalahFirst'
    BY <1>2, <2>3, <2>5 DEF Agency
  <2>7. SaleAfterAgency'
    BY <1>1, <1>2, <2>1 DEF NoReq, Agency
  <2> QED BY <2>6, <2>7
<1>5. ASSUME NEW o \in Orders, MurabahaRead(r, o) PROVE AgencyInv'
  <2>1. /\ UNCHANGED <<order, murabaha, wakalah>> /\ Agency(o)
        /\ \A q \in Requests \ {r} : req'[q] = req[q]
    BY <1>1, <1>5 DEF MurabahaRead, Ask, Agency
  <2>2. req'[r].at = "murabaha" /\ req'[r].on = o
    BY <1>1, <1>5 DEF MurabahaRead, Ask, Req
  <2> QED BY <1>2, <2>1, <2>2 DEF Agency
<1>6. ASSUME NEW o \in Orders, NEW c \in 1..MaxContracts, LockMurabaha(r, o, c)
      PROVE  AgencyInv'
  <2>1. /\ UNCHANGED <<order, murabaha, wakalah>>
        /\ \A q \in Requests \ {r} : req'[q] = req[q]
    BY <1>1, <1>6 DEF LockMurabaha, ReadMurabaha
  <2>2. Agency(o)
    <3>1. murabaha[o].made > 0
      BY <1>1, <1>6, OrderAssumption DEF LockMurabaha, Papers
    <3> QED BY <3>1 DEF Agency
  <2>3. o \in Siblings(o)
    BY DEF Siblings, Items
  <2>4. /\ req'[r].on = o
        /\ req'[r].todo = IF AllSigned(o, c) THEN Siblings(o) ELSE {}
    BY <1>1, <1>6 DEF LockMurabaha, ReadMurabaha, NoReq
  <2>5. req'[r].todo = {} \/ req'[r].on \in req'[r].todo
    BY <2>3, <2>4
  <2>6. WakalahFirst'
    BY <2>1 DEF Agency
  <2>7. SaleAfterAgency'
    BY <1>2, <2>1, <2>2, <2>4, <2>5 DEF Agency
  <2> QED BY <2>6, <2>7
<1> QED BY <1>3, <1>4, <1>5, <1>6

\* Whatever requests, events and cancellations interleave, the sale is drawn
\* up, and an order financed by itself, only after its agency was signed
\* (contract_generator.py:265-273, contract_signer.py:225-240).
THEOREM AgencyFirst == Spec => []WakalahFirst
<1>1. Init => AgencyInv
  <2>1. /\ NoReq.at = "idle" /\ NoPapers.made = 0
        /\ \A o : NoOrder.loan # {o}
    BY DEF NoReq, NoPapers, NoOrder
  <2>2. Init => WakalahFirst
    BY <2>1 DEF Init, WakalahFirst
  <2>3. Init => SaleAfterAgency
    BY <2>1 DEF Init, SaleAfterAgency
  <2> QED BY <2>2, <2>3 DEF AgencyInv
<1>2. TypeInv /\ AgencyInv /\ [Next]_vars => AgencyInv'
  <2> SUFFICES ASSUME TypeInv, AgencyInv, [Next]_vars PROVE AgencyInv'
    OBVIOUS
  <2>1. ASSUME NEW r \in Requests, Signing(r) PROVE AgencyInv'
    BY <2>1, WakalahAside, AsideKeeps, AgencySale DEF Signing
  <2>2. CASE \/ \E e \in Events, kind \in {"extracted", "failed"}, o \in Orders :
                  Publish(e, kind, o)
             \/ CreditResult \/ UNCHANGED vars
    <3>1. Aside
      BY <2>2 DEF Publish, CreditResult, vars, Aside
    <3> QED BY <3>1, AsideKeeps
  <2>3. CASE \/ \E w \in Workers : Listener(w)
             \/ \E r \in Requests : Intake(r)
    BY <2>3, ListenerAside, IntakeAside, AsideKeeps
  <2> QED BY <2>1, <2>2, <2>3 DEF Next
<1>3. AgencyInv => WakalahFirst
  BY DEF AgencyInv
<1> QED BY <1>1, <1>2, <1>3, TypeInit, TypeStep, PTL DEF Spec
=============================================================================
