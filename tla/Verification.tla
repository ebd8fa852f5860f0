----------------------------- MODULE Verification -----------------------------
(***************************************************************************)
(* The verification of one customer's identity (KYC): the documents, the   *)
(* automatic checks, the queue of reviews and its decisions, and the       *)
(* status of the account, which decisions and administrators set.          *)
(*                                                                         *)
(* No handler takes a lock.  A request reads the row, works on what it     *)
(* read and writes the attributes it changed when it commits, so that two  *)
(* requests overlap freely.  The customer's sessions and profile, and the  *)
(* messages to the customer, are not part of the module.                   *)
(***************************************************************************)
EXTENDS Integers, FiniteSets

CONSTANTS
    Calls,        \* requests in progress at the same time
    Officers,     \* administrators
    Docs,         \* the documents a customer uploads
    NoOfficer,    \* nobody
    MAX_KYC_ATTEMPTS,
    PRODUCTION,   \* whether settings.ENVIRONMENT is "production"
    MaxRows,      \* rows that requests insert for the customer (a bound)
    MaxEntries,   \* entries of the review queue (a bound)
    MaxTouches    \* changes of users.status by administrators (a bound)

ASSUME VerificationAssumption ==
    /\ {MAX_KYC_ATTEMPTS, MaxRows} \subseteq Nat \ {0}
    /\ {MaxEntries, MaxTouches} \subseteq Nat
    /\ PRODUCTION \in BOOLEAN /\ NoOfficer \notin Officers

VARIABLES
    user,        \* users.status
    kyc,         \* the rows of user_kyc_verifications
    entry,       \* the row of kyc_verification_queue of each of them
    entries,     \* entries made so far
    call,        \* the requests in progress
    touches,     \* changes of users.status by administrators so far
    crossed      \* a resubmission was committed between the steps of another
                 \* request of the same customer, or of a decision

queueVars == <<entry, entries>>
kycVars == <<kyc, queueVars, crossed>>
verificationVars == <<user, touches, kycVars, call>>

Rows == 1..MaxRows
Statuses == {"pending", "submitted", "in_review", "approved", "rejected"}
Blocked == {"suspended"}   \* or "blocked", which is treated alike
NoKyc == [status |-> "none", docs |-> {}, attempt |-> 1]
NoEntry == [id |-> 0, by |-> NoOfficer]
NoCall == [op |-> "idle", next |-> "none", on |-> 1, id |-> 0, saw |-> NoKyc,
         user |-> "none"]

\* Requests of the customer, and approvals.
InKyc == {"create", "upload", "submit", "checks", "enter", "review",
          "resubmit", "clear", "approve", "approved"}

Goes(c, op) == call' = [call EXCEPT ![c].op = op]
Leaves(c) == call' = [call EXCEPT ![c] = NoCall]

\* An attribute is in the UPDATE only when it differs from what was read.
Assign(now, saw, new) == IF new = saw THEN now ELSE new

\* The verification of a call gets a status.
Marks(c, status) ==
    kyc' = [kyc EXCEPT ![call[c].on].status = Assign(@, call[c].saw.status, status)]

---------------------------------------------------------------------------
(* The customer's requests.                                                *)
Known == {r \in Rows : kyc[r] # NoKyc}
Asked == {"upload", "submit", "resubmit"}

\* The requests that set users.status remember what they read.
Needs(op) == IF op \in {"submit", "approve"} THEN user ELSE "none"

\* get_current_user, then get_or_create_kyc: the row, or an insert to come.
\* With two rows scalar_one_or_none raises, and the request changes nothing.
Ask(c, op) ==
    /\ call[c] = NoCall /\ user \notin Blocked
    /\ \/ \E r \in Rows :
            /\ Known = {r}
            /\ call' = [call EXCEPT ![c] = [NoCall EXCEPT !.op = op, !.on = r,
                                            !.saw = kyc[r], !.user = Needs(op)]]
       \/ /\ Known = {}
          /\ call' = [call EXCEPT ![c] = [NoCall EXCEPT !.op = "create", !.next = op,
                                            !.user = Needs(op)]]
    /\ UNCHANGED <<user, touches, kycVars>>

\* Nothing makes user_id unique in the table: every insert is another row.
Create(c) ==
    /\ call[c].op = "create"
    /\ \E r \in Rows :
         /\ kyc[r] = NoKyc /\ \A q \in 1..(r - 1) : kyc[q] # NoKyc
         /\ LET new == [NoKyc EXCEPT !.status = "pending"]
            IN  /\ kyc' = [kyc EXCEPT ![r] = new]
                /\ call' = [call EXCEPT ![c].op = call[c].next, ![c].on = r,
                                        ![c].saw = new]
    /\ UNCHANGED <<user, touches, queueVars, crossed>>

\* The status is not looked at.  A file of the same name is no new value.
Upload(c, d) ==
    /\ call[c].op = "upload"
    /\ \/ kyc' = [kyc EXCEPT ![call[c].on].docs = @ \cup {d}]
       \/ d \in call[c].saw.docs /\ UNCHANGED kyc
    /\ Leaves(c)
    /\ UNCHANGED <<user, touches, queueVars, crossed>>

\* The status is not looked at here either.
Submit(c) ==
    /\ call[c].op = "submit"
    /\ IF call[c].saw.docs = Docs
       THEN /\ Marks(c, "submitted")
            /\ call' = [call EXCEPT ![c].op = "checks",
                                    ![c].saw = [NoKyc EXCEPT !.status = "submitted"]]
       ELSE Leaves(c) /\ UNCHANGED kyc
    /\ UNCHANGED <<user, touches, queueVars, crossed>>

\* Shufti or NADRA refuses, or does not answer.
ChecksFail(c) ==
    /\ call[c].op = "checks" /\ Marks(c, "rejected") /\ Leaves(c)
    /\ UNCHANGED <<user, touches, queueVars, crossed>>

\* Both accept: the queue is asked for an entry of the verification.
ChecksPass(c) ==
    /\ call[c].op = "checks"
    /\ Goes(c, IF entry[call[c].on] = NoEntry THEN "enter" ELSE "review")
    /\ UNCHANGED <<user, touches, kycVars>>

\* Outside production the account is active at once.
Verified(c) ==
    user' = IF PRODUCTION \/ call[c].user = "active" THEN user
            ELSE "active"

Enter(c) ==
    /\ call[c].op = "enter" /\ entries < MaxEntries
    /\ IF entry[call[c].on] = NoEntry
       THEN /\ entries' = entries + 1
            /\ entry' = [entry EXCEPT ![call[c].on] = [NoEntry EXCEPT !.id = entries']]
            /\ Marks(c, "in_review") /\ Verified(c)
       ELSE UNCHANGED <<kyc, entry, entries, user>>   \* IntegrityError
    /\ Leaves(c)
    /\ UNCHANGED <<touches, crossed>>

Review(c) ==
    /\ call[c].op = "review" /\ Marks(c, "in_review") /\ Verified(c) /\ Leaves(c)
    /\ UNCHANGED <<touches, queueVars, crossed>>

\* POST /kyc/resubmit: of a rejected verification, and not while an officer
\* has its entry.
Resubmit(c) ==
    /\ call[c].op = "resubmit"
    /\ IF /\ call[c].saw.status = "rejected"
          /\ call[c].saw.attempt < MAX_KYC_ATTEMPTS
          /\ entry[call[c].on].by = NoOfficer
       THEN Goes(c, "clear") ELSE Leaves(c)
    /\ UNCHANGED <<user, touches, kycVars>>

\* Seeded fault: the entry of the earlier attempt stays in the queue.
EntryStays(r) == entry

EntryGone(r) == [entry EXCEPT ![r] = NoEntry]

\* The documents that were read are cleared, and the entry is deleted.
Clear(c) ==
    /\ call[c].op = "clear"
    /\ entry' = EntryGone(call[c].on)
    /\ kyc' = [kyc EXCEPT ![call[c].on] =
                 [status |-> "pending", docs |-> @.docs \ call[c].saw.docs,
                  attempt |-> call[c].saw.attempt + 1]]
    /\ crossed' = (crossed \/ \E o \in Calls \ {c} : call[o].op \in InKyc)
    /\ Leaves(c)
    /\ UNCHANGED <<user, touches, entries>>

---------------------------------------------------------------------------
(* The review.                                                             *)
\* Anybody may claim, also what another officer has.
Claim(o, r) ==
    /\ entry[r] # NoEntry
    /\ entry' = [entry EXCEPT ![r].by = o]
    /\ UNCHANGED <<user, touches, kyc, entries, call, crossed>>

\* The decision does not ask who claimed the entry.
Decide(c, r, op) ==
    /\ call[c] = NoCall /\ entry[r] # NoEntry
    /\ call' = [call EXCEPT ![c] = [NoCall EXCEPT !.op = op, !.on = r, !.id = entry[r].id,
                                    !.saw.status = kyc[r].status,
                                    !.user = Needs(op)]]
    /\ UNCHANGED <<user, touches, kycVars>>

\* The job of the credit engine, which others model, is pushed before the commit.
PushJob(c) ==
    /\ call[c].op = "approve" /\ Goes(c, "approved")
    /\ UNCHANGED <<user, touches, kycVars>>

\* The DELETE is of the entry that was read; none left is no error.
Deleted(c) ==
    entry' = IF entry[call[c].on].id = call[c].id
             THEN [entry EXCEPT ![call[c].on] = NoEntry] ELSE entry

Approve(c) ==
    /\ call[c].op = "approved"
    /\ Marks(c, "approved") /\ Deleted(c)
    /\ user' = Assign(user, call[c].user, "active")
    /\ Leaves(c)
    /\ UNCHANGED <<touches, entries, crossed>>

Reject(c) ==
    /\ call[c].op = "reject" /\ Marks(c, "rejected") /\ Deleted(c) /\ Leaves(c)
    /\ UNCHANGED <<user, touches, entries, crossed>>

\* The verification has no deleted_at: the exception is caught, and only the
\* user changes.
TriggerReverification ==
    /\ touches < MaxTouches /\ touches' = touches + 1
    /\ user' = "pending_kyc"
    /\ UNCHANGED <<kycVars, call>>

---------------------------------------------------------------------------
(* The account.                                                            *)
\* PUT /status of one user, or POST /bulk of several.
UpdateStatus(s) ==
    /\ touches < MaxTouches /\ touches' = touches + 1
    /\ user' = s
    /\ UNCHANGED <<kycVars, call>>

\* A process dies, or a call to Redis or to the database fails.
Dies(c) ==
    /\ call[c] # NoCall /\ Leaves(c)
    /\ UNCHANGED <<user, touches, kycVars>>

---------------------------------------------------------------------------
\* A customer who signed up.
VerificationInit ==
    /\ user = "pending_kyc"
    /\ kyc = [r \in Rows |-> NoKyc]
    /\ entry = [r \in Rows |-> NoEntry] /\ entries = 0
    /\ call = [c \in Calls |-> NoCall]
    /\ touches = 0
    /\ crossed = FALSE

VerificationNext ==
    \/ \E c \in Calls :
         \/ \E op \in Asked : Ask(c, op)
         \/ Create(c) \/ \E d \in Docs : Upload(c, d)
         \/ Submit(c) \/ ChecksFail(c) \/ ChecksPass(c) \/ Enter(c) \/ Review(c)
         \/ Resubmit(c) \/ Clear(c)
         \/ \E r \in Rows, op \in {"approve", "reject"} : Decide(c, r, op)
         \/ PushJob(c) \/ Approve(c) \/ Reject(c)
         \/ Dies(c)
    \/ \E o \in Officers, r \in Rows : Claim(o, r)
    \/ TriggerReverification
    \/ \E s \in {"active"} \cup Blocked : UpdateStatus(s)

VerificationSpec == VerificationInit /\ [][VerificationNext]_verificationVars

---------------------------------------------------------------------------
(* Properties.                                                             *)
VerificationTypeOK ==
    /\ user \in Blocked \cup {"pending_kyc", "active"}
    /\ kyc \in [Rows -> [status : Statuses \cup {"none"}, docs : SUBSET Docs,
                         attempt : 1..MAX_KYC_ATTEMPTS]]
    /\ entry \in [Rows -> [id : 0..entries, by : Officers \cup {NoOfficer}]]
    /\ entries \in 0..MaxEntries
    /\ touches \in 0..MaxTouches /\ crossed \in BOOLEAN

\* A customer whose verification is approved has all the documents of that
\* attempt on file, also after rejections, second submissions and resubmissions
\* that clear them; but for a resubmission that is committed between the steps
\* of another request (kyc.py:158-183 of the router, kyc.py:70-172 and
\* kyc_queue.py:44-93 of the services).
ApprovedHasDocuments ==
    \A r \in Rows : kyc[r].status = "approved" /\ ~crossed => kyc[r].docs = Docs
=============================================================================
