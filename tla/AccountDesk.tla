------------------------------ MODULE AccountDesk ------------------------------
(***************************************************************************)
(* What the administrators decide on one customer's account: the credit    *)
(* limit, above a threshold with the decision of a second administrator,   *)
(* the status, and the closure with its cooling-off period.                *)
(*                                                                         *)
(* No handler takes a lock: a decision commits what it found to be open    *)
(* when it read it.  Sessions and the audit trail are not modelled.        *)
(***************************************************************************)
EXTENDS Integers, FiniteSets

CONSTANTS
    Desks,       \* requests in progress at the same time
    Deciders,    \* administrators
    NoDecider,   \* nobody
    Limits,      \* credit limits that are asked for
    CREDIT_LIMIT_APPROVAL_THRESHOLD_PKR,
    MaxRaises,   \* requests for approval (a bound)
    MaxClosures  \* requests to close (a bound)

ASSUME DeskAssumption ==
    /\ {MaxRaises, MaxClosures, CREDIT_LIMIT_APPROVAL_THRESHOLD_PKR} \subseteq Nat
    /\ Limits \subseteq Nat
    /\ NoDecider \notin Deciders

VARIABLES
    account,   \* the users row: its status, its two amounts, and whether it
               \* still has its name and phone
    raises,    \* admin_approval_requests
    closures,  \* data_deletion_requests
    desk       \* the requests in progress

deskVars == <<account, raises, closures, desk>>

AtRest == [op |-> "rest", id |-> 0, by |-> NoDecider, saw |-> "none"]
Above(l) == l > CREDIT_LIMIT_APPROVAL_THRESHOLD_PKR
WithId(set, i) == CHOOSE q \in set : q.id = i
Settle(set, i, status) ==
    {IF q.id = i THEN [q EXCEPT !.status = status] ELSE q : q \in set}
Open(set) == {q \in set : q.status = "pending"}
Withdraw(d) == desk' = [desk EXCEPT ![d] = AtRest]

\* Both amounts, whatever is reserved.
Granted(l) == [account EXCEPT !.limit = l, !.available = l]

---------------------------------------------------------------------------
(* The limit.                                                              *)
UpdateLimit(o, l) ==
    /\ IF Above(l)
       THEN /\ Cardinality(raises) < MaxRaises
            /\ raises' = raises \cup {[id |-> Cardinality(raises) + 1, limit |-> l,
                                       status |-> "pending", asker |-> o,
                                       decider |-> NoDecider]}
            /\ UNCHANGED account
       ELSE account' = Granted(l) /\ UNCHANGED raises
    /\ UNCHANGED <<closures, desk>>

\* A pending request of somebody else.
Decidable(q, o) == q.status = "pending" /\ q.asker # o

ReadRaise(d, o) ==
    /\ desk[d] = AtRest
    /\ \E q \in raises :
         /\ Decidable(q, o)
         /\ desk' = [desk EXCEPT ![d] = [AtRest EXCEPT !.op = "raise", !.id = q.id,
                                                       !.by = o]]
    /\ UNCHANGED <<account, raises, closures>>

\* The status is written over a decision that came in between.
DecideRaise(d, approved) ==
    /\ desk[d].op = "raise"
    /\ LET q == WithId(raises, desk[d].id) IN
         /\ raises' = (raises \ {q}) \cup
                      {[q EXCEPT !.status = IF approved THEN "approved" ELSE "rejected",
                                 !.decider = desk[d].by]}
         /\ account' = IF approved THEN Granted(q.limit) ELSE account
    /\ Withdraw(d)
    /\ UNCHANGED closures

---------------------------------------------------------------------------
(* The status and the closure.                                             *)
\* Of one customer, or of those POST /bulk names: a closed account too.
SetStatus(s) ==
    /\ account' = [account EXCEPT !.status = s]
    /\ UNCHANGED <<raises, closures, desk>>

\* No closure is open.  With two open ones the query raises.
AskClosure(d) ==
    /\ desk[d] = AtRest /\ Open(closures) = {}
    /\ desk' = [desk EXCEPT ![d] = [AtRest EXCEPT !.op = "close",
                                                !.saw = account.status]]
    /\ UNCHANGED <<account, raises, closures>>

\* An account read as suspended is not written again.
FileClosure(d) ==
    /\ desk[d].op = "close" /\ Cardinality(closures) < MaxClosures
    /\ closures' = closures \cup {[id |-> Cardinality(closures) + 1,
                                   status |-> "pending", cooled |-> FALSE]}
    /\ account' = IF desk[d].saw = "suspended" THEN account
                  ELSE [account EXCEPT !.status = "suspended"]
    /\ Withdraw(d)
    /\ UNCHANGED raises

\* CLOSURE_COOLING_OFF_DAYS pass.
CoolOff(q) ==
    /\ ~q.cooled
    /\ closures' = (closures \ {q}) \cup {[q EXCEPT !.cooled = TRUE]}
    /\ UNCHANGED <<account, raises, desk>>

\* A pending request; a super_admin does not wait.
ReadClosure(d, q, super) ==
    /\ desk[d] = AtRest /\ q.status = "pending" /\ (q.cooled \/ super)
    /\ desk' = [desk EXCEPT ![d] = [AtRest EXCEPT !.op = "execute", !.id = q.id]]
    /\ UNCHANGED <<account, raises, closures>>

ExecuteClosure(d) ==
    /\ desk[d].op = "execute"
    /\ closures' = Settle(closures, desk[d].id, "completed")
    /\ account' = [account EXCEPT !.status = "closed", !.named = FALSE]
    /\ Withdraw(d)
    /\ UNCHANGED raises

DeskDies(d) ==
    /\ desk[d] # AtRest /\ Withdraw(d)
    /\ UNCHANGED <<account, raises, closures>>

---------------------------------------------------------------------------
\* A customer who signed up, or whom an administrator created.
DeskInit ==
    /\ account \in [status : {"pending_kyc", "active"}, limit : {0}, available : {0},
                    named : {TRUE}]
    /\ raises = {} /\ closures = {}
    /\ desk = [d \in Desks |-> AtRest]

DeskNext ==
    \/ \E o \in Deciders :
         \/ \E l \in Limits : UpdateLimit(o, l)
         \/ \E d \in Desks : ReadRaise(d, o)
    \/ \E s \in {"active", "suspended", "blocked"} : SetStatus(s)
    \/ \E q \in closures :
         CoolOff(q) \/ \E d \in Desks, super \in BOOLEAN : ReadClosure(d, q, super)
    \/ \E d \in Desks :
         \/ \E approved \in BOOLEAN : DecideRaise(d, approved)
         \/ AskClosure(d) \/ FileClosure(d) \/ ExecuteClosure(d) \/ DeskDies(d)

DeskSpec == DeskInit /\ [][DeskNext]_deskVars

\* The type invariant; a limit above the threshold has a request for it that an
\* administrator who did not make it has decided.
DeskTypeOK ==
    /\ account \in [status : {"pending_kyc", "active", "suspended", "blocked", "closed"},
                    limit : Limits \cup {0}, available : Limits \cup {0}, named : BOOLEAN]
    /\ \A q \in raises :
         /\ q.id \in 1..MaxRaises /\ q.limit \in Limits /\ q.asker \in Deciders
         /\ q.status \in {"pending", "approved", "rejected"}
    /\ Cardinality({q.id : q \in raises}) = Cardinality(raises)
    /\ \A q \in closures :
         q.id \in 1..MaxClosures /\ q.status \in {"pending", "completed"}
    /\ Above(account.limit) =>
          \E q \in raises : q.limit = account.limit /\ q.decider \in Deciders \ {q.asker}
    /\ \A d \in Desks :
          /\ desk[d].op \in {"rest", "raise", "close", "execute"}
          /\ desk[d].id \in 0..MaxRaises \cup 0..MaxClosures
=============================================================================
