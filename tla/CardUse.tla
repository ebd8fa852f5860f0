-------------------------------- MODULE CardUse --------------------------------
(***************************************************************************)
(* A virtual card from its issue to its end: Stripe's events about it, the *)
(* customer's void, the expiry sweep and the poller.                       *)
(*                                                                         *)
(* Stripe delivers an event until it is answered.  At the gateway service  *)
(* it passes a Redis key and a row of processed_webhook_events and is      *)
(* queued for the consumer of the payment orchestrator; at the direct      *)
(* endpoint it passes a Redis key and is handled at once.  An event is     *)
(* delivered to one of the two.  Authorization requests are answered from  *)
(* the card and change nothing here.                                       *)
(***************************************************************************)
EXTENDS Integers, FiniteSets

CONSTANTS
    Charges,     \* ids of issuing_transaction.created events
    Updates,     \* ids of issuing_card.updated events, card inactive
    Receivers,   \* deliveries in progress at the same time
    HookTasks,   \* tasks of the payment_webhook consumer
    Nothing,
    ISSUER,      \* card.issuer, "stripe" or "lithic"
    HOOK_RETRIES,\* DLQ_MAX_RETRIES of the consumer
    MaxHookFaults \* failed calls, crashes and lost keys (a bound)

CardEvents == Charges \cup Updates
Actors == Receivers \cup HookTasks

ASSUME CardAssumption ==
    /\ Charges \cap Updates = {} /\ Receivers \cap HookTasks = {}
    /\ Nothing \notin CardEvents
    /\ HOOK_RETRIES \in Nat

VARIABLES
    card,      \* status and is_used
    issuer,    \* the card at its issuer
    marked,    \* events with their Redis key
    direct,    \* the events that go to the direct endpoint
    rows,      \* events with a processed_webhook_events row
    act,       \* what each delivery and each task is at
    hooks,     \* jobs in the payment_webhook queue, by event and _retry_count
    dead,      \* events in the DLQ
    charged,   \* vcn.charged outbox rows per event
    confirmed, \* sk:vcn:charge:confirmed, what the checkout agent waits for
    ending,    \* the void, the sweep and the poller in progress
    hookFaults,
    raced, lapsed   \* events delivered twice at once; events that lost a key

cardVars == <<card, issuer, direct, marked, rows, act, hooks, dead, charged,
              confirmed, ending, hookFaults, raced, lapsed>>

At(place, e, n) == [at |-> place, event |-> e, retry |-> n, seen |-> "none"]
Idle == At("idle", Nothing, 0)
Enders == {"void", "sweep", "poll"}

Moves(a, at) == act' = [act EXCEPT ![a].at = at]
Rests(a) == act' = [act EXCEPT ![a] = Idle]
HookFault == hookFaults < MaxHookFaults /\ hookFaults' = hookFaults + 1

Card == <<card, issuer, ending, direct>>
Booked == <<charged, confirmed>>
HookJobs == <<hooks, dead>>

---------------------------------------------------------------------------
(* Deliveries.                                                             *)
\* The Redis key is not there.  A delivery that finds it is a duplicate and
\* changes nothing.
Receive(h, e) ==
    /\ act[h] = Idle /\ e \notin marked
    /\ act' = [act EXCEPT ![h] =
                  At(IF e \in direct THEN "claim" ELSE "look", e, 0)]
    /\ raced' = IF e \in direct /\ \E g \in Receivers : act[g].event = e
                THEN raced \cup {e} ELSE raced
    /\ UNCHANGED <<Card, marked, rows, HookJobs, Booked, hookFaults, lapsed>>

\* Redis does not answer: the gateway service goes by the row alone.
ReceiveWithoutRedis(h, e) ==
    /\ act[h] = Idle /\ e \notin direct /\ HookFault
    /\ act' = [act EXCEPT ![h] = At("look", e, 0)]
    /\ UNCHANGED <<Card, marked, rows, HookJobs, Booked, raced, lapsed>>

\* The row is there: the Redis key is put back.
FindRow(h) ==
    /\ act[h].at = "look" /\ act[h].event \in rows
    /\ marked' = marked \cup {act[h].event} /\ Rests(h)
    /\ UNCHANGED <<Card, rows, HookJobs, Booked, hookFaults, raced, lapsed>>

\* Seeded fault: the Redis key alone decides.
NoRowUnchecked(h) ==
    LET e == act[h].event IN
    /\ act[h].at = "look"
    /\ raced' = IF \E g \in Receivers \ {h} :
                      act[g].event = e /\ act[g].at \in {"mark", "row"}
                THEN raced \cup {e} ELSE raced
    /\ Moves(h, "mark")
    /\ UNCHANGED <<Card, marked, rows, HookJobs, Booked, hookFaults, lapsed>>

NoRow(h) ==
    LET e == act[h].event IN
    /\ act[h].at = "look" /\ e \notin rows
    /\ raced' = IF \E g \in Receivers \ {h} :
                      act[g].event = e /\ act[g].at \in {"mark", "row"}
                THEN raced \cup {e} ELSE raced
    /\ Moves(h, "mark")
    /\ UNCHANGED <<Card, marked, rows, HookJobs, Booked, hookFaults, lapsed>>

\* redis.set; an error is logged and ignored.
MarkKey(h) ==
    /\ act[h].at = "mark"
    /\ \/ marked' = marked \cup {act[h].event} /\ UNCHANGED hookFaults
       \/ HookFault /\ UNCHANGED marked
    /\ Moves(h, "row")
    /\ UNCHANGED <<Card, rows, HookJobs, Booked, raced, lapsed>>

\* The commit of the row.  A row that is there already raises IntegrityError,
\* which is rolled back, and the handler goes on to push.
InsertRow(h) ==
    /\ act[h].at = "row" /\ rows' = rows \cup {act[h].event}
    /\ Moves(h, "push")
    /\ UNCHANGED <<Card, marked, HookJobs, Booked, hookFaults, raced, lapsed>>

QueueHook(h) ==
    /\ act[h].at = "push"
    /\ hooks' = [hooks EXCEPT ![act[h].event][0] = @ + 1] /\ Rests(h)
    /\ UNCHANGED <<Card, marked, rows, dead, Booked, hookFaults, raced, lapsed>>

\* The direct endpoint: redis.set without NX, a step after the GET.
ClaimHook(h) ==
    /\ act[h].at = "claim" /\ marked' = marked \cup {act[h].event}
    /\ Moves(h, "handle")
    /\ UNCHANGED <<Card, rows, HookJobs, Booked, hookFaults, raced, lapsed>>

\* The process dies, or Redis or the database fails it; Stripe gets no
\* answer and delivers the event again.
ReceiverFails(h) ==
    /\ act[h] # Idle /\ HookFault /\ Rests(h)
    /\ UNCHANGED <<Card, marked, rows, HookJobs, Booked, raced, lapsed>>

KeyEvicted(e) ==
    /\ e \in marked /\ HookFault
    /\ marked' = marked \ {e} /\ lapsed' = lapsed \cup {e}
    /\ UNCHANGED <<Card, rows, act, HookJobs, Booked, raced>>

---------------------------------------------------------------------------
(* The consumer and VcnOrchestrator.handle_stripe_event.                   *)
TakeHook(w, e, n) ==
    /\ act[w] = Idle /\ hooks[e][n] > 0
    /\ hooks' = [hooks EXCEPT ![e][n] = @ - 1]
    /\ act' = [act EXCEPT ![w] = At("handle", e, n)]
    /\ UNCHANGED <<Card, marked, rows, dead, Booked, hookFaults, raced, lapsed>>

\* Reads the card; the key for the checkout agent is set before the commit.
HandleHook(a) ==
    /\ act[a].at = "handle"
    /\ act' = [act EXCEPT ![a].at = "commit", ![a].seen = card.status]
    /\ confirmed' = (confirmed \/ act[a].event \in Charges)
    /\ UNCHANGED <<Card, marked, rows, HookJobs, charged, hookFaults, raced, lapsed>>

CommitHook(a) ==
    LET e == act[a].event
        used == card.used \/ e \in Charges
        off == e \in Updates /\ act[a].seen = "active"
    IN
    /\ act[a].at = "commit"
    /\ card' = [card EXCEPT !.used = used,
                           !.status = IF off THEN "inactive" ELSE @]
    /\ charged' = IF e \in Charges THEN [charged EXCEPT ![e] = @ + 1] ELSE charged
    /\ Rests(a)
    /\ UNCHANGED <<issuer, ending, direct, marked, rows, HookJobs, confirmed,
                   hookFaults, raced, lapsed>>

\* An exception in a task: a backoff and the queue again, or the DLQ.
TaskRaises(w) ==
    LET e == act[w].event IN
    /\ act[w].at \in {"handle", "commit"} /\ HookFault
    /\ IF act[w].retry < HOOK_RETRIES
       THEN Moves(w, "backoff") /\ UNCHANGED dead
       ELSE Rests(w) /\ dead' = dead \cup {e}
    /\ UNCHANGED <<Card, marked, rows, hooks, Booked, raced, lapsed>>

RequeueHook(w) ==
    LET e == act[w].event IN
    /\ act[w].at = "backoff"
    /\ hooks' = [hooks EXCEPT ![e][act[w].retry + 1] = @ + 1] /\ Rests(w)
    /\ UNCHANGED <<Card, marked, rows, dead, Booked, hookFaults, raced, lapsed>>

TaskDies(w) ==
    /\ act[w] # Idle /\ HookFault /\ Rests(w)
    /\ UNCHANGED <<Card, marked, rows, HookJobs, Booked, raced, lapsed>>

---------------------------------------------------------------------------
(* The end of the card: each reads it, calls the issuer and writes.        *)
Hooked == <<direct, marked, rows, act, HookJobs, Booked, raced, lapsed>>

MayEnd(x) ==
    CASE x = "void" -> card.status # "voided"
      [] x = "sweep" -> card.status = "active"
      [] x = "poll" -> card.status = "active" /\ ISSUER = "stripe"

\* The void uses the Stripe adapter for every card, the sweep, once expires_at
\* has passed, that of the card's issuer; the poller only looks.
BeginEnd(x) ==
    /\ x \notin ending /\ MayEnd(x)
    /\ x = "poll" => issuer = "cancelled"
    /\ ending' = ending \cup {x}
    /\ issuer' = IF x = "sweep" \/ (x = "void" /\ ISSUER = "stripe")
                 THEN "cancelled" ELSE issuer
    /\ UNCHANGED <<card, Hooked, hookFaults>>

\* cancel_card returns FALSE; the card ends in the database all the same.
BeginEndWithoutIssuer(x) ==
    /\ x \in {"void", "sweep"} /\ x \notin ending /\ MayEnd(x) /\ HookFault
    /\ ending' = ending \cup {x}
    /\ UNCHANGED <<card, issuer, Hooked>>

EndCard(x) ==
    /\ x \in ending /\ ending' = ending \ {x}
    /\ card' = [card EXCEPT !.status = IF x = "void" THEN "voided" ELSE "expired"]
    /\ UNCHANGED <<issuer, Hooked, hookFaults>>

EndFails(x) ==
    /\ x \in ending /\ HookFault /\ ending' = ending \ {x}
    /\ UNCHANGED <<card, issuer, Hooked>>

CardInit ==
    /\ card = [status |-> "active", used |-> FALSE]
    /\ direct \in SUBSET CardEvents
    /\ issuer = "open" /\ ending = {} /\ confirmed = FALSE /\ hookFaults = 0
    /\ marked = {} /\ rows = {} /\ dead = {}
    /\ raced = {} /\ lapsed = {}
    /\ act = [a \in Actors |-> Idle]
    /\ hooks = [e \in CardEvents |-> [n \in 0..HOOK_RETRIES |-> 0]]
    /\ charged = [e \in Charges |-> 0]

CardNext ==
    \/ \E h \in Receivers :
         \/ \E e \in CardEvents : Receive(h, e) \/ ReceiveWithoutRedis(h, e)
         \/ FindRow(h) \/ NoRow(h) \/ MarkKey(h) \/ InsertRow(h) \/ QueueHook(h)
         \/ ClaimHook(h) \/ ReceiverFails(h)
    \/ \E w \in HookTasks :
         \/ \E e \in CardEvents, n \in 0..HOOK_RETRIES : TakeHook(w, e, n)
         \/ TaskRaises(w) \/ RequeueHook(w) \/ TaskDies(w)
    \/ \E a \in Actors : HandleHook(a) \/ CommitHook(a)
    \/ \E e \in CardEvents : KeyEvicted(e)
    \/ \E x \in Enders :
         BeginEnd(x) \/ BeginEndWithoutIssuer(x) \/ EndCard(x) \/ EndFails(x)

CardSpec == CardInit /\ [][CardNext]_cardVars

---------------------------------------------------------------------------
(* Properties.                                                             *)
CardTypeOK ==
    /\ card \in [status : {"active", "inactive", "voided", "expired"},
                 used : BOOLEAN]
    /\ issuer \in {"open", "cancelled"} /\ ending \subseteq Enders
    /\ act \in [Actors -> [at : {"idle", "look", "mark", "row", "push", "claim",
                                 "handle", "commit", "backoff"},
                           event : CardEvents \cup {Nothing},
                           retry : 0..HOOK_RETRIES,
                           seen : {"none", "active", "inactive", "voided",
                                   "expired"}]]
    /\ hooks \in [CardEvents -> [0..HOOK_RETRIES -> Nat]]
    /\ charged \in [Charges -> Nat] /\ confirmed \in BOOLEAN
    /\ \A s \in {direct, marked, rows, dead, raced, lapsed} : s \subseteq CardEvents

\* A charge that Stripe delivers again and again is booked at most once: its
\* outbox rows, its jobs and the handlers working on it are one at most,
\* whichever of the two marks of the gateway service is lost.  Not so for two
\* deliveries that overlap, nor at the direct endpoint once its only mark is
\* gone (gateway webhooks.py:56-115, payment_webhook_consumer.py:96-120,
\* payment orchestrator webhooks.py:44-81).
ChargedOnce ==
    \A e \in Charges \ raced :
        e \notin direct \cap lapsed =>
            /\ \A n \in 0..HOOK_RETRIES : hooks[e][n] <= 1
            /\ charged[e]
                 + Cardinality({n \in 0..HOOK_RETRIES : hooks[e][n] > 0})
                 + Cardinality({a \in Actors :
                      act[a].event = e
                      /\ act[a].at \in {"push", "handle", "commit", "backoff"}})
               <= 1

=============================================================================
