------------------------------ MODULE HumanQueue ------------------------------
(***************************************************************************)
(* Orders that a person has to look at: the product service reports how a  *)
(* purchase went, a failed one enters the queue of the operators, and they *)
(* claim, start, resolve and cancel entries, or write the order's status   *)
(* themselves.  A sweep raises an alert for entries past their deadline.   *)
(*                                                                         *)
(* No handler takes a lock.  One reads a row, decides, and commits the     *)
(* columns it changed of what it read, whatever the row is by then.        *)
(***************************************************************************)
EXTENDS Integers, FiniteSets

CONSTANTS
    Operators,  \* administrators
    Nobody,     \* no administrator
    Clients,    \* requests of operators in progress
    Sweeps,     \* runs of the sweep in progress
    MaxItems,   \* entries (a bound)
    MaxAlerts   \* expiries of an alert's key (a bound)

ASSUME QueueAssumption == MaxItems \in Nat /\ Nobody \notin Operators

VARIABLES
    failing,  \* the status of the order
    shipped,  \* it has a shipment
    items,    \* hitl_queue, by id
    client,   \* what the requests have read
    late,     \* entries past sla_deadline
    alerted,  \* entries with the alert's key in Redis
    alerts,   \* alerts raised, per entry
    lapses,   \* keys that expired, per entry
    sweep     \* entries the runs still have to alert about

queueVars == <<failing, shipped, items, client, late, alerted, alerts, lapses, sweep>>
alertVars == <<late, alerted, alerts, lapses, sweep>>

ItemIds == 1..MaxItems
Final == {"resolved", "cancelled"}
Active == {"claimed", "in_progress"}
Unresolved == Active \cup {"pending"}
ItemStatuses == Unresolved \cup Final
NewItem == [status |-> "pending", to |-> Nobody, verdict |-> "none"]
Items == [status : ItemStatuses, to : Operators \cup {Nobody},
          verdict : {"none", "resolved", "cancelled"}]
OrderStatuses == {"purchasing", "purchase_failed", "purchase_confirmed",
                  "delivery_pending", "cancelled"}
Resting == [op |-> "rest", id |-> 0, by |-> Nobody, saw |-> NewItem]
Leave(c) == client' = [client EXCEPT ![c] = Resting]

---------------------------------------------------------------------------
(* The order.                                                              *)
\* The purchase went well, whatever the status was.
ReportSucceeded ==
    /\ failing' = "purchase_confirmed"
    /\ UNCHANGED <<shipped, items, client, alertVars>>

\* It failed: every report makes an entry.
ReportFailed(i) ==
    /\ i = Cardinality(DOMAIN items) + 1
    /\ failing' = "purchase_failed"
    /\ items' = [j \in DOMAIN items \cup {i} |-> IF j = i THEN NewItem ELSE items[j]]
    /\ UNCHANGED <<shipped, client, alertVars>>

\* The second call for an order is answered without a change.
RegisterShipment ==
    /\ ~shipped /\ shipped' = TRUE
    /\ failing' = IF failing = "purchase_confirmed" THEN "delivery_pending" ELSE failing
    /\ UNCHANGED <<items, client, alertVars>>

\* Any known status, from any other; the entries stay as they are.
OverrideStatus(s) ==
    /\ failing' = s
    /\ UNCHANGED <<shipped, items, client, alertVars>>

---------------------------------------------------------------------------
(* The entries.  Allowed: what each call checks in the entry it read.      *)
Allowed(op, row, o) ==
    CASE op = "claim"   -> row.status = "pending"
      [] op = "start"   -> row.to = o /\ row.status \in Active
      [] op = "resolve" -> row.to = o /\ row.status \in Active
      [] op = "cancel"  -> row.to \in {Nobody, o} /\ row.status \notin Final

ReadItem(c, op, i, o) ==
    /\ client[c] = Resting /\ Allowed(op, items[i], o)
    /\ client' = [client EXCEPT ![c] = [op |-> op, id |-> i, by |-> o, saw |-> items[i]]]
    /\ UNCHANGED <<failing, shipped, items, alertVars>>

\* The columns that differ from what was read are written.
CommitItem(c) ==
    LET q == client[c]
        row == items[q.id] IN
      /\ q.op # "rest"
      /\ items' = [items EXCEPT ![q.id] =
           CASE q.op = "claim" ->
                  [row EXCEPT !.status = "claimed", !.to = q.by]
             [] q.op = "start" ->
                  [row EXCEPT !.status = IF q.saw.status = "claimed"
                                         THEN "in_progress" ELSE row.status]
             [] q.op = "resolve" ->
                  [row EXCEPT !.status = "resolved", !.verdict = "resolved"]
             [] q.op = "cancel" ->
                  [row EXCEPT !.status = "cancelled",
                              !.verdict = IF q.saw.verdict = "cancelled"
                                          THEN row.verdict ELSE "cancelled",
                              !.to = IF q.saw.to = Nobody THEN q.by ELSE row.to]]
      /\ Leave(c)
      /\ UNCHANGED <<failing, shipped, alertVars>>

ClientDies(c) ==
    /\ client[c] # Resting /\ Leave(c)
    /\ UNCHANGED <<failing, shipped, items, alertVars>>

---------------------------------------------------------------------------
(* The deadline.                                                           *)
PassDeadline(i) ==
    /\ i \notin late /\ late' = late \cup {i}
    /\ UNCHANGED <<failing, shipped, items, client, alerted, alerts, lapses, sweep>>

\* The open entries past their deadline, in one read.
FindBreaches(w) ==
    /\ sweep[w] = {}
    /\ sweep' = [sweep EXCEPT ![w] = {i \in late : items[i].status \in Unresolved}]
    /\ UNCHANGED <<failing, shipped, items, client, late, alerted, alerts, lapses>>

\* SET NX: who sets the key raises the alert.
Alert(w, i) ==
    /\ i \in sweep[w] /\ \A j \in sweep[w] : i <= j
    /\ sweep' = [sweep EXCEPT ![w] = @ \ {i}]
    /\ alerted' = alerted \cup {i}
    /\ alerts' = IF i \in alerted THEN alerts ELSE [alerts EXCEPT ![i] = @ + 1]
    /\ UNCHANGED <<failing, shipped, items, client, late, lapses>>

AlertLapses(i) ==
    /\ i \in alerted /\ lapses[i] < MaxAlerts
    /\ alerted' = alerted \ {i}
    /\ lapses' = [lapses EXCEPT ![i] = @ + 1]
    /\ UNCHANGED <<failing, shipped, items, client, late, alerts, sweep>>

---------------------------------------------------------------------------
QueueInit ==
    /\ failing = "purchasing" /\ shipped = FALSE
    /\ items = [i \in {} |-> NewItem]
    /\ client = [c \in Clients |-> Resting]
    /\ late = {} /\ alerted = {}
    /\ alerts = [i \in ItemIds |-> 0] /\ lapses = [i \in ItemIds |-> 0]
    /\ sweep = [w \in Sweeps |-> {}]

QueueNext ==
    \/ ReportSucceeded \/ RegisterShipment
    \/ \E s \in OrderStatuses : OverrideStatus(s)
    \/ \E i \in ItemIds : ReportFailed(i)
    \/ \E i \in DOMAIN items :
         \/ PassDeadline(i) \/ AlertLapses(i)
         \/ \E c \in Clients, o \in Operators :
              \E op \in {"claim", "start", "resolve", "cancel"} : ReadItem(c, op, i, o)
         \/ \E w \in Sweeps : Alert(w, i)
    \/ \E c \in Clients : CommitItem(c) \/ ClientDies(c)
    \/ \E w \in Sweeps : FindBreaches(w)

QueueSpec == QueueInit /\ [][QueueNext]_queueVars

\* The type invariant.  An entry that somebody works on or has closed names
\* him, and is closed only with a verdict; one alert for each time the key
\* could be set.
QueueTypeOK ==
    /\ failing \in OrderStatuses /\ shipped \in BOOLEAN
    /\ DOMAIN items \in {1..n : n \in 0..MaxItems}
    /\ \A i \in DOMAIN items :
         /\ items[i] \in Items
         /\ items[i].status # "pending" => items[i].to \in Operators
         /\ items[i].status \in Final => items[i].verdict # "none"
    /\ \A c \in Clients : client[c].op # "rest" => client[c].id \in DOMAIN items
    /\ late \subseteq DOMAIN items
    /\ \A i \in ItemIds : alerts[i] = lapses[i] + (IF i \in alerted THEN 1 ELSE 0)
    /\ sweep \in [Sweeps -> SUBSET late]
=============================================================================
