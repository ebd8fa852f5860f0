-------------------------- MODULE CreditApplications --------------------------
(***************************************************************************)
(* The credit applications of one user.  The customer applies through the  *)
(* service, with an Idempotency-Key, as often as he likes; the consumer of *)
(* the assessment queue applies for him too, and administrators override   *)
(* the limit.  A Redis lock and the lock of the user's row serialise what  *)
(* an approval reads, the highest limit approved so far, with the          *)
(* application it inserts.                                                 *)
(***************************************************************************)
EXTENDS CreditPolicy, FiniteSets

CONSTANTS
    Forms,         \* requests of the customer in progress
    Assessors,     \* processes of the assessment consumer
    Admins,        \* administrators' requests
    Keys,          \* values of the Idempotency-Key header
    NoKey,
    NoHolder,
    Users,         \* the states of the user's data, records of Applicant
    Wishes,        \* records [category, amount, first]
    Overrides,     \* the limits an administrator may set
    MaxStarts,     \* applications begun (a bound)
    MaxLapses      \* locks that run out and processes that die (a bound)

Applicants == Forms \cup Assessors \cup Admins

ASSUME CreditAssumption ==
    /\ Forms \cap Assessors = {} /\ Admins \cap (Forms \cup Assessors) = {}
    /\ NoHolder \notin Applicants /\ NoKey \notin Keys
    /\ Overrides \subseteq Nat
    /\ \A order \in Wishes :
          /\ order.category \in DOMAIN MULTIPLIER /\ order.amount \in Nat
          /\ order.first \in BOOLEAN

VARIABLES
    highest,   \* the highest approved_limit of an approved application
    made,      \* applications inserted for each key
    spoilt,    \* keys whose exclusion or whose answer was lost
    rowLock,   \* the transaction that holds the user's row
    portfolio, \* the Redis lock of the user's portfolio is set
    keyLocks,  \* keys with a lock
    answers,   \* keys with a cached response
    app,       \* place, key and data of the call of each process
    granted,   \* users.credit_limit of the gateway service
    starts, lapses

creditVars == <<highest, made, spoilt, rowLock, portfolio, keyLocks, answers,
                app, granted, starts, lapses>>

NoApplication == [at |-> "idle", key |-> NoKey, score |-> 0, capped |-> FALSE,
                  category |-> "none", amount |-> 0, outcome |-> "none",
                  limit |-> 0, overtaken |-> FALSE]

CreditTypeOK ==
    /\ highest \in Nat /\ granted \in Nat
    /\ made \in [Keys -> Nat] /\ spoilt \subseteq Keys
    /\ rowLock \in Forms \cup Assessors \cup {NoHolder}
    /\ portfolio \in BOOLEAN
    /\ keyLocks \subseteq Keys /\ answers \subseteq Keys
    /\ DOMAIN app = Applicants
    /\ \A c \in Applicants :
          /\ app[c].at \in {"idle", "claim", "lock", "eligible", "fraud",
                             "decide", "portfolio", "insert", "unlock",
                             "answer", "push"}
          /\ app[c].key \in Keys \cup {NoKey}
          /\ app[c].outcome \in {"none", "approved", "partial_approval",
                                  "increase_down_payment", "rejected"}
    /\ starts \in Nat /\ lapses \in Nat

CreditInit ==
    /\ highest = 0 /\ granted = 0
    /\ made = [k \in Keys |-> 0] /\ spoilt = {}
    /\ rowLock = NoHolder /\ portfolio = FALSE
    /\ keyLocks = {} /\ answers = {}
    /\ app = [c \in Applicants |-> NoApplication]
    /\ starts = 0 /\ lapses = 0

CallTo(c, at) == app' = [app EXCEPT ![c].at = at]
EndCall(c) == app' = [app EXCEPT ![c] = NoApplication]

----------------------------------------------------------------------------
(* apply_credit: the locks                                                 *)

\* A response that is cached is returned; otherwise the request goes on to
\* claim its key, or straight to the portfolio lock without one.
Apply(c, k, order) ==
    /\ app[c].at = "idle" /\ k \notin answers
    /\ starts < MaxStarts /\ starts' = starts + 1
    /\ app' = [app EXCEPT ![c] = [NoApplication EXCEPT
          !.at = IF k = NoKey THEN "lock" ELSE "claim", !.key = k,
          !.category = order.category, !.amount = order.amount,
          !.capped = order.first]]
    /\ UNCHANGED <<highest, made, spoilt, rowLock, portfolio, keyLocks,
                   answers, granted, lapses>>

\* Seeded fault: the key is set whether or not another request has set it.
ClaimAnyway(c) ==
    /\ app[c].at = "claim"
    /\ keyLocks' = keyLocks \cup {app[c].key}
    /\ CallTo(c, "lock")
    /\ UNCHANGED <<highest, made, spoilt, rowLock, portfolio, answers, granted,
                   starts, lapses>>

\* SET NX; the request that finds the key is answered 409.
ClaimKey(c) ==
    /\ app[c].at = "claim"
    /\ keyLocks' = keyLocks \cup {app[c].key}
    /\ IF app[c].key \in keyLocks THEN EndCall(c) ELSE CallTo(c, "lock")
    /\ UNCHANGED <<highest, made, spoilt, rowLock, portfolio, answers, granted,
                   starts, lapses>>

LockPortfolio(c) ==
    /\ app[c].at = "lock"
    /\ portfolio' = TRUE
    /\ IF portfolio THEN EndCall(c) ELSE CallTo(c, "eligible")
    /\ UNCHANGED <<highest, made, spoilt, rowLock, keyLocks, answers, granted,
                   starts, lapses>>

\* The consumer takes a job; it claims neither lock.
TakeAssessment(c, order) ==
    /\ app[c].at = "idle"
    /\ starts < MaxStarts /\ starts' = starts + 1
    /\ app' = [app EXCEPT ![c] = [NoApplication EXCEPT !.at = "eligible",
          !.category = order.category, !.amount = order.amount,
          !.capped = order.first]]
    /\ UNCHANGED <<highest, made, spoilt, rowLock, portfolio, keyLocks,
                   answers, granted, lapses>>

----------------------------------------------------------------------------
(* evaluate_credit and create_credit_application                           *)

TurnAway(c) ==
    app' = [app EXCEPT ![c] = [NoApplication EXCEPT
                                   !.at = "insert", !.key = app[c].key,
                                   !.outcome = "rejected"]]

\* The blacklists, the account and the verification, or the category.
CheckEligibility(c) ==
    /\ app[c].at = "eligible"
    /\ \/ TurnAway(c)
       \/ app[c].category \notin PROHIBITED /\ CallTo(c, "fraud")
    /\ UNCHANGED <<highest, made, spoilt, rowLock, portfolio, keyLocks,
                   answers, granted, starts, lapses>>

\* The velocity counters and the composite fraud score, whose alert is
\* committed at once.
CheckFraud(c) ==
    /\ app[c].at = "fraud"
    /\ TurnAway(c) \/ CallTo(c, "decide")
    /\ UNCHANGED <<highest, made, spoilt, rowLock, portfolio, keyLocks,
                   answers, granted, starts, lapses>>

\* The score of the user as the tables are now.
ScoreApplicant(c, user) ==
    /\ app[c].at = "decide"
    /\ LET capped == app[c].capped \/ DataSparse(user)
           score == Score(user)
       IN  app' = [app EXCEPT
              ![c].at = IF score < DECLINE_BELOW THEN "insert" ELSE "portfolio",
              ![c].score = score, ![c].capped = capped,
              ![c].outcome = Outcome(score, capped, app[c].category,
                                     app[c].amount),
              ![c].limit = IF score < DECLINE_BELOW THEN 0
                           ELSE FinalLimit(Band(score), app[c].category,
                                           capped)]
    /\ UNCHANGED <<highest, made, spoilt, rowLock, portfolio, keyLocks,
                   answers, granted, starts, lapses>>

\* Seeded fault: the row is read without FOR UPDATE.
RowReady(c) == TRUE

\* FOR UPDATE waits for the transaction that holds the row.
RowAvailable(c) == rowLock = NoHolder

\* The row is locked until the commit.
CheckPortfolio(c) ==
    /\ app[c].at = "portfolio" /\ RowAvailable(c)
    /\ rowLock' = c
    /\ IF highest + app[c].amount > MAXIMUM_LIMIT
         THEN TurnAway(c) ELSE CallTo(c, "insert")
    /\ UNCHANGED <<highest, made, spoilt, portfolio, keyLocks, answers,
                   granted, starts, lapses>>

Approved(c) == app[c].outcome \in {"approved", "partial_approval"}

\* The application is inserted whatever the outcome, and committed.
InsertApplication(c) ==
    /\ app[c].at = "insert"
    /\ highest' = IF Approved(c) THEN Most(highest, app[c].limit) ELSE highest
    /\ made' = IF app[c].key = NoKey THEN made
               ELSE [made EXCEPT ![app[c].key] = @ + 1]
    /\ rowLock' = IF rowLock = c THEN NoHolder ELSE rowLock
    /\ app' = [app EXCEPT ![c] = [NoApplication EXCEPT
          !.at = IF c \in Forms THEN "unlock" ELSE "push",
          !.key = app[c].key,
          !.outcome = IF Approved(c) THEN app[c].outcome ELSE "rejected",
          !.limit = IF Approved(c) THEN app[c].limit ELSE 0]]
    /\ UNCHANGED <<spoilt, portfolio, keyLocks, answers, granted, starts,
                   lapses>>

\* The lock is deleted, whoever holds it by now.
UnlockPortfolio(c) ==
    /\ app[c].at = "unlock"
    /\ portfolio' = FALSE
    /\ CallTo(c, "answer")
    /\ UNCHANGED <<highest, made, spoilt, rowLock, keyLocks, answers, granted,
                   starts, lapses>>

CacheAnswer(c) ==
    /\ app[c].at = "answer"
    /\ answers' = answers \cup ({app[c].key} \ {NoKey})
    /\ CallTo(c, "push")
    /\ UNCHANGED <<highest, made, spoilt, rowLock, portfolio, keyLocks,
                   granted, starts, lapses>>

----------------------------------------------------------------------------
(* push_credit_result, admin_override_limit, and what goes wrong           *)

\* Up to three attempts, each of which may reach the gateway or not; nothing
\* is pushed of an application that was not approved.
Push(c) ==
    /\ app[c].at = "push"
    /\ \/ Approved(c) /\ granted' = app[c].limit /\ UNCHANGED app
       \/ EndCall(c) /\ UNCHANGED granted
    /\ UNCHANGED <<highest, made, spoilt, rowLock, portfolio, keyLocks,
                   answers, starts, lapses>>

\* An override takes no lock and is pushed like an approval.
Override(c, limit) ==
    /\ app[c].at = "idle"
    /\ starts < MaxStarts /\ starts' = starts + 1
    /\ highest' = Most(highest, limit)
    /\ app' = [d \in Applicants |->
          IF d = c THEN [NoApplication EXCEPT !.at = "push",
                                  !.outcome = "approved", !.limit = limit]
          ELSE IF app[d].at = "insert" THEN [app[d] EXCEPT !.overtaken = TRUE]
          ELSE app[d]]
    /\ UNCHANGED <<made, spoilt, rowLock, portfolio, keyLocks, answers,
                   granted, lapses>>

Lapse == lapses < MaxLapses /\ lapses' = lapses + 1

\* A process dies or raises: its transaction is rolled back, the portfolio
\* lock is deleted if the request could still do so, the key lock stays.
CallFails(c) ==
    /\ Lapse
    /\ app[c].at \notin {"idle", "push"}
    /\ EndCall(c)
    /\ rowLock' = IF rowLock = c THEN NoHolder ELSE rowLock
    /\ \/ portfolio' = portfolio
       \/ /\ c \in Forms
          /\ app[c].at \in {"eligible", "fraud", "decide", "portfolio",
                             "insert", "unlock"}
          /\ portfolio' = FALSE
    /\ spoilt' = IF app[c].at \in {"unlock", "answer"}
                   THEN spoilt \cup ({app[c].key} \ {NoKey}) ELSE spoilt
    /\ UNCHANGED <<highest, made, keyLocks, answers, granted, starts>>

\* Thirty seconds are over.
PortfolioExpires ==
    /\ Lapse /\ portfolio /\ portfolio' = FALSE
    /\ UNCHANGED <<highest, made, spoilt, rowLock, keyLocks, answers, app,
                   granted, starts>>

KeyExpires(k) ==
    /\ Lapse /\ k \in keyLocks /\ keyLocks' = keyLocks \ {k}
    /\ spoilt' = IF \E c \in Forms : app[c].key = k
                   THEN spoilt \cup {k} ELSE spoilt
    /\ UNCHANGED <<highest, made, rowLock, portfolio, answers, app, granted,
                   starts>>

\* RedisTTL.CREDIT_IDEMPOTENCY has passed: the key is as good as new.
AnswerLapses(k) ==
    /\ k \in answers /\ answers' = answers \ {k}
    /\ spoilt' = spoilt \cup {k}
    /\ UNCHANGED <<highest, made, rowLock, portfolio, keyLocks, app, granted,
                   starts, lapses>>

CreditNext ==
    \/ \E c \in Forms :
          \/ ClaimKey(c) \/ LockPortfolio(c) \/ UnlockPortfolio(c)
          \/ CacheAnswer(c)
          \/ \E k \in Keys \cup {NoKey}, order \in Wishes : Apply(c, k, order)
    \/ \E c \in Assessors, order \in Wishes : TakeAssessment(c, order)
    \/ \E c \in Forms \cup Assessors :
          \/ CheckEligibility(c) \/ CheckFraud(c) \/ CheckPortfolio(c)
          \/ InsertApplication(c) \/ CallFails(c)
          \/ \E user \in Users : ScoreApplicant(c, user)
    \/ \E c \in Admins, limit \in Overrides : Override(c, limit)
    \/ \E c \in Applicants : Push(c)
    \/ PortfolioExpires
    \/ \E k \in Keys : KeyExpires(k) \/ AnswerLapses(k)

CreditSpec == CreditInit /\ [][CreditNext]_creditVars

----------------------------------------------------------------------------
(* Properties                                                              *)

\* The application of an order is approved only if the highest limit approved
\* when it commits leaves room for the order, whichever process evaluates it
\* and whatever became of the Redis lock; an override that comes between the
\* check and the commit is excused (limit.py:148-179).
PortfolioKept ==
    [][\A c \in Forms \cup Assessors :
          /\ app[c].at = "insert" /\ app'[c].at \in {"unlock", "push"}
          /\ Approved(c) /\ ~app[c].overtaken
          => highest + app[c].amount <= MAXIMUM_LIMIT]_creditVars

\* At most one application is made for an Idempotency-Key as long as its answer
\* is kept, unless its lock ran out under a request or a request died between
\* its commit and its cached answer (routes.py:125-141, 184-185).
AppliedOnce == \A k \in Keys : made[k] <= 1 \/ k \in spoilt
=============================================================================
