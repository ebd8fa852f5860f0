---------------------------- MODULE PaymentSessions ----------------------------
(***************************************************************************)
(* The sessions of the down payment endpoint: one payment_workflows row    *)
(* per idempotency key, the choice of a gateway, the retry of a failed or  *)
(* expired session, and the worker that expires sessions.                  *)
(*                                                                         *)
(* A request inserts its row, calls the gateway while the row is not       *)
(* committed, and commits what came of it.  A second insert of the key     *)
(* waits for the unique index.  The order and the card behind a captured   *)
(* payment are in DownPayment.                                             *)
(***************************************************************************)
EXTENDS Integers, Sequences, FiniteSets, FiniteSetsExt, SequencesExt

CONSTANTS
    Payers,     \* requests in progress at the same time
    PayKeys,    \* idempotency keys that customers send
    RetryKeys,  \* keys the retry endpoint generates
    NoPayer,    \* nobody
    GATEWAY_PRIORITY,  \* a sequence of gateways
    ASYNC_GATEWAYS,    \* gateways that only redirect the customer
    GATEWAY_FAILURE_THRESHOLD,
    MaxAsked,   \* charges per key (a bound)
    MaxStrikes  \* failures counted per gateway (a bound)

SessionKeys == PayKeys \cup RetryKeys
PayGateways == ToSet(GATEWAY_PRIORITY)

ASSUME SessionAssumption ==
    /\ GATEWAY_PRIORITY \in Seq(PayGateways) /\ GATEWAY_PRIORITY # <<>>
    /\ "none" \notin PayGateways
    /\ NoPayer \notin Payers \cup SessionKeys
    /\ MaxAsked \in Nat /\ MaxStrikes \in Nat

VARIABLES
    session,  \* the committed row of each key
    holder,   \* the request whose uncommitted insert holds the key
    idem,     \* keys with sk:po:idem in Redis
    payer,    \* the requests in progress
    asked,    \* charges or payment links the gateway made, per key
    strikes,  \* failures of a gateway in the current window
    lost      \* keys whose request died, or got no answer, after the charge

sessionVars == <<session, holder, idem, payer, asked, strikes, lost>>

NoSession == [status |-> "none", gateway |-> "none"]
NotPaying == [at |-> "idle", key |-> NoPayer, gateway |-> "none", retry |-> FALSE]

---------------------------------------------------------------------------
(* GatewayRoutingEngine.                                                   *)
Degraded(g) == strikes[g] >= GATEWAY_FAILURE_THRESHOLD

\* The preferred gateway, the first healthy one, or the one that failed least.
SelectGateway(preferred) ==
    LET healthy == {i \in DOMAIN GATEWAY_PRIORITY : ~Degraded(GATEWAY_PRIORITY[i])}
        least == {i \in DOMAIN GATEWAY_PRIORITY :
                    \A g \in PayGateways : strikes[GATEWAY_PRIORITY[i]] <= strikes[g]}
    IN  IF ~Degraded(preferred) THEN preferred
        ELSE GATEWAY_PRIORITY[Min(IF healthy # {} THEN healthy ELSE least)]

Strike(g) == [strikes EXCEPT ![g] = Min({@ + 1, MaxStrikes})]
Relief(g) == [strikes EXCEPT ![g] = Max({@ - 1, 0})]

\* The counter's key changes with the window.
WindowEnds(g) ==
    /\ strikes[g] > 0 /\ strikes' = [strikes EXCEPT ![g] = 0]
    /\ UNCHANGED <<session, holder, idem, payer, asked, lost>>

---------------------------------------------------------------------------
(* POST /down-payment.                                                     *)
Goes(r, at) == payer' = [payer EXCEPT ![r].at = at]
Leaves(r) == payer' = [payer EXCEPT ![r] = NotPaying]
Releases(r) == holder' = [k \in SessionKeys |->
                            IF holder[k] = r THEN NoPayer ELSE holder[k]]

\* The Redis key and a row: the request is answered with the row's status.
\* Otherwise it goes on, also without a row behind the key.
CheckKey(r, k, preferred) ==
    /\ payer[r] = NotPaying
    /\ ~(k \in idem /\ session[k] # NoSession)
    /\ payer' = [payer EXCEPT ![r] = [at |-> "claim", key |-> k,
                                     gateway |-> SelectGateway(preferred),
                                     retry |-> FALSE]]
    /\ UNCHANGED <<session, holder, idem, asked, strikes, lost>>

\* redis.set without NX, a step after the GET.
ClaimIdem(r) ==
    /\ payer[r].at = "claim" /\ idem' = idem \cup {payer[r].key}
    /\ Goes(r, "find")
    /\ UNCHANGED <<session, holder, asked, strikes, lost>>

\* Seeded fault: only a captured session is returned as it is.
SettledCaptured == {"captured"}

\* initiate_payment finds the row.  A captured or pending one answers the
\* request, a failed or expired one is charged again.
Settled == {"captured", "pending"}

FindSession(r) ==
    /\ payer[r].at = "find" /\ session[payer[r].key] # NoSession
    /\ IF session[payer[r].key].status \in Settled THEN Leaves(r)
       ELSE Goes(r, "charge")
    /\ UNCHANGED <<session, holder, idem, asked, strikes, lost>>

FindNothing(r) ==
    /\ payer[r].at = "find" /\ session[payer[r].key] = NoSession
    /\ Goes(r, "insert")
    /\ UNCHANGED <<session, holder, idem, asked, strikes, lost>>

\* The flush of the insert.
InsertSession(r) ==
    /\ payer[r].at = "insert" /\ holder[payer[r].key] = NoPayer
    /\ IF session[payer[r].key] = NoSession
       THEN holder' = [holder EXCEPT ![payer[r].key] = r] /\ Goes(r, "charge")
       ELSE UNCHANGED holder /\ Leaves(r)   \* IntegrityError
    /\ UNCHANGED <<session, idem, asked, strikes, lost>>

---------------------------------------------------------------------------
(* The gateway call and what is committed after it.                        *)
\* The row as this request's transaction sees it.
StatusSeen(r) ==
    IF holder[payer[r].key] = r THEN "initiated" ELSE session[payer[r].key].status

\* validate_transition, for the transitions these handlers ask for.
Allowed(from, to) ==
    \/ from = to
    \/ from = "initiated"
    \/ from = "pending" /\ to \in {"captured", "failed", "expired"}

\* Commits the new status, or raises PaymentWorkflowError and rolls back.
Transition(r, to) ==
    LET k == payer[r].key
        row == [ status |-> to,
                 gateway |-> IF holder[k] = r THEN payer[r].gateway
                             ELSE session[k].gateway ]
    IN  session' = IF Allowed(StatusSeen(r), to)
                   THEN [session EXCEPT ![k] = row] ELSE session

ChargeGateway(r) ==
    /\ payer[r].at = "charge" /\ asked[payer[r].key] < MaxAsked
    /\ asked' = [asked EXCEPT ![payer[r].key] = @ + 1]
    /\ strikes' = Relief(payer[r].gateway)
    /\ Goes(r, "commit")
    /\ UNCHANGED <<session, holder, idem, lost>>

\* An exception of the adapter: a refusal, or an answer that did not arrive.
GatewayRaises(r, taken) ==
    LET k == payer[r].key IN
    /\ payer[r].at = "charge" /\ asked[k] < MaxAsked
    /\ strikes' = Strike(payer[r].gateway)
    /\ asked' = IF taken THEN [asked EXCEPT ![k] = @ + 1] ELSE asked
    /\ lost' = IF taken THEN lost \cup {k} ELSE lost
    /\ Transition(r, "failed") /\ Releases(r) /\ Leaves(r)
    /\ UNCHANGED idem

\* The retry endpoint marks every gateway's session pending.
CommitSession(r) ==
    /\ payer[r].at = "commit"
    /\ Transition(r, IF payer[r].gateway \in ASYNC_GATEWAYS \/ payer[r].retry
                 THEN "pending" ELSE "captured")
    /\ Releases(r) /\ Leaves(r)
    /\ UNCHANGED <<idem, asked, strikes, lost>>

PayerDies(r) ==
    /\ payer[r].at \notin {"idle", "claim"}
    /\ lost' = IF payer[r].at = "commit" THEN lost \cup {payer[r].key} ELSE lost
    /\ Releases(r) /\ Leaves(r)
    /\ UNCHANGED <<session, idem, asked, strikes>>

---------------------------------------------------------------------------
(* POST /down-payment/{id}/retry: a new key for a failed or expired        *)
(* session; the old row is left as it is.                                  *)
RetrySession(r, k, new) ==
    /\ payer[r] = NotPaying
    /\ session[k].status \in {"failed", "expired"}
    /\ session[new] = NoSession /\ holder[new] = NoPayer
    /\ holder' = [holder EXCEPT ![new] = r]
    /\ payer' = [payer EXCEPT ![r] = [at |-> "charge", key |-> new,
                                     gateway |-> SelectGateway(session[k].gateway),
                                     retry |-> TRUE]]
    /\ UNCHANGED <<session, idem, asked, strikes, lost>>

---------------------------------------------------------------------------
(* Time.                                                                   *)
KeyLapses(k) ==
    /\ k \in idem /\ idem' = idem \ {k}
    /\ UNCHANGED <<session, holder, payer, asked, strikes, lost>>

\* What the sweep selects: session_expires_at may have passed for any row.
Expirable(k) == session[k].status \in {"initiated", "pending"}

\* The expiry worker rereads the row in a session of its own.
ExpireSession(k) ==
    /\ Expirable(k)
    /\ session' = [session EXCEPT ![k].status = "expired"]
    /\ UNCHANGED <<holder, idem, payer, asked, strikes, lost>>

SessionInit ==
    /\ session = [k \in SessionKeys |-> NoSession]
    /\ holder = [k \in SessionKeys |-> NoPayer]
    /\ idem = {} /\ lost = {}
    /\ payer = [r \in Payers |-> NotPaying]
    /\ asked = [k \in SessionKeys |-> 0]
    /\ strikes = [g \in PayGateways |-> 0]

SessionNext ==
    \/ \E r \in Payers :
         \/ \E k \in PayKeys, g \in PayGateways : CheckKey(r, k, g)
         \/ \E k \in SessionKeys, new \in RetryKeys : RetrySession(r, k, new)
         \/ ClaimIdem(r) \/ FindSession(r) \/ FindNothing(r) \/ InsertSession(r)
         \/ ChargeGateway(r) \/ CommitSession(r) \/ PayerDies(r)
         \/ \E taken \in BOOLEAN : GatewayRaises(r, taken)
    \/ \E k \in SessionKeys : KeyLapses(k) \/ ExpireSession(k)
    \/ \E g \in PayGateways : WindowEnds(g)

SessionSpec == SessionInit /\ [][SessionNext]_sessionVars

---------------------------------------------------------------------------
(* Properties.                                                             *)
SessionTypeOK ==
    /\ session \in [SessionKeys ->
                      [status : {"none", "pending", "captured", "failed", "expired"},
                       gateway : PayGateways \cup {"none"}]]
    /\ holder \in [SessionKeys -> Payers \cup {NoPayer}]
    /\ payer \in [Payers -> [at : {"idle", "claim", "find", "insert", "charge",
                                   "commit"},
                             key : SessionKeys \cup {NoPayer},
                             gateway : PayGateways \cup {"none"},
                             retry : BOOLEAN]]
    /\ asked \in [SessionKeys -> 0..MaxAsked]
    /\ strikes \in [PayGateways -> 0..MaxStrikes]
    /\ \A s \in {idem, lost} : s \subseteq SessionKeys
    /\ \A k \in SessionKeys : holder[k] # NoPayer =>
          payer[holder[k]].key = k /\ session[k] = NoSession

\* A key that ended in a pending or captured session was charged once, and a
\* key without a row at most once, however many requests carry it and however
\* often its Redis key lapses; but for a request that died or got no answer
\* after the charge (payments.py:182-240, payment_orchestrator.py:28-47).
OncePerKey ==
    \A k \in SessionKeys \ lost :
        /\ session[k].status \in {"pending", "captured"} => asked[k] = 1
        /\ session[k].status = "none" => asked[k] <= 1

=============================================================================
