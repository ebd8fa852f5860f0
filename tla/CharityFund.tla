---------------------------- MODULE CharityFund ----------------------------
(***************************************************************************)
(* The ledger's charity account: late fees are credited to it with an      *)
(* allocation each, and disbursements empty it again.                      *)
(*                                                                         *)
(* A disbursement is made by the scheduled sweep, which takes a Redis      *)
(* lock, or by an administrator's call, which does not.  Both post a       *)
(* journal entry in one transaction and mark the allocations in a second.  *)
(* Journal entries are reversed and the accounting period is closed while  *)
(* that goes on.  The late fee is one fixed amount, the unit of account.   *)
(* A step ends where the code awaits Redis or the database.                *)
(***************************************************************************)
EXTENDS Integers, FiniteSets

CONSTANTS
    Installments, \* overdue installments whose late fee is not waived
    Billers,      \* calls of apply_late_fee_to_installment
    Sweeps,       \* processes that run process_charity_allocation
    Admins,       \* callers of record_disbursement
    Reversers,    \* calls of record_reversal, each with its own key
    AutoRefs,     \* the reference generated in each second (a bound on them)
    References,   \* payment references given by people
    NoOne,        \* no lock owner, no reference, no installment
    NISAB,        \* settings.shariah_nisab_pkr, in late fees
    MaxClosings,  \* how often the period is closed (a bound)
    MaxFaults     \* crashes and expired locks (a bound)

Refs == AutoRefs \cup References
Calls == Sweeps \cup Admins
Originals == Installments \cup Refs

ASSUME FundAssumption ==
    /\ IsFiniteSet(Installments)
    /\ Sweeps \cap Admins = {} /\ AutoRefs \cap References = {}
    /\ Installments \cap Refs = {}
    /\ NoOne \notin Sweeps \cup Originals
    /\ {NISAB, MaxClosings, MaxFaults} \subseteq Nat

VARIABLES
    fee,       \* late-fee journal entries per installment
    alloc,     \* late_fee_charity_allocations
    entry,     \* disbursement entries: reference to allocations paid
    rev,       \* reversals of each entry
    fund,      \* balance of account charity_payable
    unseen,    \* part of it that get_account_balance leaves out
    period,    \* status of the current period, and how often it was closed
    past,      \* generated references of seconds that are over
    lock,      \* LOCK_KEY
    lost,      \* sweeps that run without the lock they took
    late,      \* references of runs that lost their lock or died
    bill, run, undo,   \* the calls in progress
    faults

books == <<fee, alloc, entry, rev, fund, unseen>>
calendar == <<period, past>>
vars == <<books, calendar, lock, lost, late, bill, run, undo, faults>>

NoBill == [at |-> "idle", on |-> NoOne]
NoRun == [at |-> "idle", set |-> {}, ref |-> NoOne, again |-> FALSE]

TypeOK ==
    /\ fee \in [Installments -> Nat]
    /\ alloc \in [Installments -> {"none", "new", "due", "disbursed"}]
    /\ entry \in [Refs -> SUBSET Installments]
    /\ rev \in [Originals -> Nat]
    /\ fund \in Int /\ unseen \in Int
    /\ period \in [is : {"open", "closed"}, times : Nat]
    /\ past \subseteq AutoRefs
    /\ lock \in Sweeps \cup {NoOne}
    /\ lost \subseteq Sweeps
    /\ late \subseteq Refs
    /\ bill \in [Billers -> [at : {"idle", "post"},
                             on : Installments \cup {NoOne}]]
    /\ run \in [Calls -> [at : {"idle", "read", "check", "look", "post",
                                "mark", "release", "delete"},
                          set : SUBSET Installments,
                          ref : Refs \cup {NoOne}, again : BOOLEAN]]
    /\ undo \in [Reversers -> [at : {"new", "read", "done"},
                             on : Originals \cup {NoOne}]]
    /\ faults \in Nat

Init ==
    /\ fee = [i \in Installments |-> 0]
    /\ alloc = [i \in Installments |-> "none"]
    /\ entry = [ref \in Refs |-> {}]
    /\ rev = [o \in Originals |-> 0]
    /\ fund = 0 /\ unseen = 0
    /\ period = [is |-> "open", times |-> 0]
    /\ past = {} /\ lock = NoOne
    /\ lost = {} /\ late = {}
    /\ bill = [c \in Billers |-> NoBill]
    /\ run = [r \in Calls |-> NoRun]
    /\ undo = [v \in Reversers |-> [at |-> "new", on |-> NoOne]]
    /\ faults = 0

----------------------------------------------------------------------------
Fault == faults < MaxFaults /\ faults' = faults + 1

IsOpen == period.is = "open"

\* close_period of a month other than December, which posts no closing entry.
ClosePeriod ==
    /\ IsOpen /\ period.times < MaxClosings
    /\ period' = [is |-> "closed", times |-> period.times + 1]
    /\ UNCHANGED <<books, past, lock, lost, late, bill, run, undo, faults>>

ReopenPeriod ==
    /\ ~IsOpen
    /\ period' = [period EXCEPT !.is = "open"]
    /\ UNCHANGED <<books, past, lock, lost, late, bill, run, undo, faults>>

----------------------------------------------------------------------------
(* apply_late_fee_to_installment and record_late_fee                       *)

BillEnd(c) == bill' = [bill EXCEPT ![c] = NoBill]

\* It and _create_balanced_entry look for an entry, and then at the period:
\* an entry that is there at the first look is there at the second.
ApplyRead(c, i) ==
    /\ bill[c].at = "idle" /\ fee[i] = 0 /\ IsOpen
    /\ bill' = [bill EXCEPT ![c] = [at |-> "post", on |-> i]]
    /\ UNCHANGED <<books, calendar, lock, lost, late, run, undo, faults>>

\* Seeded fault: two entries may carry one source id.
ApplyPostAgain(c) ==
    LET i == bill[c].on
    IN  /\ bill[c].at = "post"
        /\ fee' = [fee EXCEPT ![i] = @ + 1]
        /\ alloc' = [alloc EXCEPT ![i] = "new"]
        /\ fund' = fund + 1
        /\ BillEnd(c)
        /\ UNCHANGED <<entry, rev, unseen, calendar, lock, lost, late, run,
                       undo, faults>>

\* The entry and its allocation, in one commit.
ApplyPost(c) ==
    LET i == bill[c].on
    IN  /\ bill[c].at = "post" /\ fee[i] = 0
        /\ fee' = [fee EXCEPT ![i] = @ + 1]
        /\ alloc' = [alloc EXCEPT ![i] = "new"]
        /\ fund' = fund + 1
        /\ BillEnd(c)
        /\ UNCHANGED <<entry, rev, unseen, calendar, lock, lost, late, run,
                       undo, faults>>

\* IntegrityError: another call was faster.
ApplyConflict(c) ==
    /\ bill[c].at = "post" /\ fee[bill[c].on] > 0
    /\ BillEnd(c)
    /\ UNCHANGED <<books, calendar, lock, lost, late, run, undo, faults>>

\* An allocation reaches charity_disbursement_min_age_days.
ComeOfAge(i) ==
    /\ alloc[i] = "new"
    /\ alloc' = [alloc EXCEPT ![i] = "due"]
    /\ UNCHANGED <<fee, entry, rev, fund, unseen, calendar, lock, lost, late,
                   bill, run, undo, faults>>

----------------------------------------------------------------------------
(* record_reversal of a late fee or of a disbursement                      *)

Posted(o) == IF o \in Refs THEN entry[o] # {} ELSE fee[o] > 0

\* What the reversal of an entry adds to charity_payable.
Refund(o) == IF o \in Refs THEN Cardinality(entry[o]) ELSE -1

ReverseRead(v, o) ==
    /\ undo[v].at = "new"
    /\ Posted(o) /\ rev[o] = 0 /\ IsOpen
    /\ undo' = [undo EXCEPT ![v] = [at |-> "read", on |-> o]]
    /\ UNCHANGED <<books, calendar, lock, lost, late, bill, run, faults>>

\* reversed_by_id is not looked at again.  An entry dated on or before the
\* last balance snapshot is never counted by get_account_balance.
ReverseCommit(v) ==
    LET o == undo[v].on
    IN  /\ undo[v].at = "read"
        /\ rev' = [rev EXCEPT ![o] = @ + 1]
        /\ fund' = fund + Refund(o)
        /\ unseen' \in {unseen, unseen - Refund(o)}
        /\ undo' = [undo EXCEPT ![v].at = "done"]
        /\ UNCHANGED <<fee, alloc, entry, calendar, lock, lost, late, bill,
                       run, faults>>

----------------------------------------------------------------------------
(* process_charity_allocation                                              *)

At(r, at) == run' = [run EXCEPT ![r].at = at]
Leave(r) == run' = [run EXCEPT ![r] = [NoRun EXCEPT !.at =
                        IF r \in Sweeps THEN "release" ELSE "idle"]]

\* Seeded fault: SET without NX.
SweepLockSet(r) ==
    /\ run[r].at = "idle"
    /\ lock' = r
    /\ lost' = lost \ {r}
    /\ At(r, "read")
    /\ UNCHANGED <<books, calendar, late, bill, undo, faults>>

\* SET NX EX; a run that does not get the lock returns.
SweepLock(r) ==
    /\ run[r].at = "idle" /\ lock = NoOne
    /\ lock' = r
    /\ lost' = lost \ {r}
    /\ At(r, "read")
    /\ UNCHANGED <<books, calendar, late, bill, undo, faults>>

Due == {i \in Installments : alloc[i] = "due"}

\* get_pending_disbursements and the nisab threshold.
SweepRead(r) ==
    /\ run[r].at = "read"
    /\ IF Due = {} \/ Cardinality(Due) < NISAB THEN At(r, "release")
       ELSE run' = [run EXCEPT ![r].at = "check", ![r].set = Due]
    /\ UNCHANGED <<books, calendar, lock, lost, late, bill, undo, faults>>

Unmarked(r) == IF run[r].at = "mark" THEN late \cup {run[r].ref} ELSE late

\* GET the owner, and DELETE the key in a second call if it is this run.
SweepRelease(r) ==
    /\ run[r].at = "release"
    /\ IF lock = r THEN At(r, "delete") ELSE run' = [run EXCEPT ![r] = NoRun]
    /\ UNCHANGED <<books, calendar, lock, lost, late, bill, undo, faults>>

\* The key may belong to another run by now, which then has no lock.
SweepDelete(r) ==
    LET robbed == {lock} \ {r, NoOne}
    IN  /\ run[r].at = "delete"
        /\ lock' = NoOne
        /\ lost' = lost \cup robbed
        /\ late' = IF robbed = {} THEN late ELSE Unmarked(lock)
        /\ run' = [run EXCEPT ![r] = NoRun]
        /\ UNCHANGED <<books, calendar, bill, undo, faults>>

\* Seeded fault: a run that is refused renews the key's TTL.
LockRenewed == lock # NoOne /\ UNCHANGED vars

\* LOCK_TTL_SECONDS have passed, while the owner still runs or after it died.
LockExpire ==
    /\ lock # NoOne
    /\ IF run[lock].at = "idle" THEN UNCHANGED <<lost, late, faults>>
       ELSE Fault /\ lost' = lost \cup {lock} /\ late' = Unmarked(lock)
    /\ lock' = NoOne
    /\ UNCHANGED <<books, calendar, bill, run, undo>>

----------------------------------------------------------------------------
(* record_disbursement, and what both ways to disburse share               *)

AdminRead(r, S) ==
    LET open == {i \in S : alloc[i] \in {"new", "due"}}
    IN  /\ run[r].at = "idle" /\ open # {}
        /\ run' = [run EXCEPT ![r].at = "check", ![r].set = open]
        /\ UNCHANGED <<books, calendar, lock, lost, late, bill, undo, faults>>

\* The balance has to cover the total, or ValueError.
Check(r) ==
    /\ run[r].at = "check"
    /\ IF fund + unseen < Cardinality(run[r].set) THEN Leave(r)
       ELSE At(r, "look")
    /\ UNCHANGED <<books, calendar, lock, lost, late, bill, undo, faults>>

\* A generated reference is the time, to the second.
Now == CHOOSE ref \in AutoRefs \ past : TRUE

Tick ==
    /\ AutoRefs \ (past \cup {Now}) # {}
    /\ past' = past \cup {Now}
    /\ UNCHANGED <<books, period, lock, lost, late, bill, run, undo, faults>>

\* A given reference may have been used before, and a generated one by another
\* run of the same second.
RefFor(r, ref) ==
    \/ ref \in References
    \/ r \in Sweeps /\ ref = Now

\* Seeded fault: the refusal of a closed period is swallowed.
LookSwallow(r, ref) ==
    /\ run[r].at = "look" /\ RefFor(r, ref)
    /\ run' = [run EXCEPT ![r].ref = ref, ![r].again = entry[ref] # {},
                 ![r].at = IF entry[ref] = {} /\ IsOpen THEN "post" ELSE "mark"]
    /\ UNCHANGED <<books, calendar, lock, lost, late, bill, undo, faults>>

\* _create_balanced_entry: with an entry of this reference there is nothing
\* to post, and in a closed period nothing may be.
Look(r, ref) ==
    /\ run[r].at = "look" /\ RefFor(r, ref)
    /\ \/ /\ entry[ref] # {}
          /\ run' = [run EXCEPT ![r] = [@ EXCEPT !.at = "mark", !.ref = ref,
                                                !.again = TRUE]]
       \/ /\ entry[ref] = {} /\ IsOpen
          /\ run' = [run EXCEPT ![r] = [@ EXCEPT !.at = "post", !.ref = ref,
                                                !.again = FALSE]]
       \/ entry[ref] = {} /\ ~IsOpen /\ Leave(r)
    /\ UNCHANGED <<books, calendar, lock, lost, late, bill, undo, faults>>

\* record_charity_disbursement commits, or IntegrityError.
Post(r) ==
    LET ref == run[r].ref
    IN  /\ run[r].at = "post"
        /\ \/ /\ entry[ref] = {}
              /\ entry' = [entry EXCEPT ![ref] = run[r].set]
              /\ fund' = fund - Cardinality(run[r].set)
              /\ late' = IF r \in lost THEN late \cup {ref} ELSE late
              /\ At(r, "mark")
           \/ /\ entry[ref] # {}
              /\ Leave(r)
              /\ UNCHANGED <<entry, fund, late>>
        /\ UNCHANGED <<fee, alloc, rev, unseen, calendar, lock, lost, bill,
                       undo, faults>>

\* Seeded fault: the status is not one of the known ones.
MarkUnknown(r) ==
    /\ run[r].at = "mark"
    /\ alloc' = [i \in Installments |->
                   IF i \in run[r].set THEN "paid" ELSE alloc[i]]
    /\ Leave(r)
    /\ UNCHANGED <<fee, entry, rev, fund, unseen, calendar, lock, lost, late,
                   bill, undo, faults>>

\* The second commit: disbursed_at of every allocation read.
Mark(r) ==
    /\ run[r].at = "mark"
    /\ alloc' = [i \in Installments |->
                   IF i \in run[r].set THEN "disbursed" ELSE alloc[i]]
    /\ Leave(r)
    /\ UNCHANGED <<fee, entry, rev, fund, unseen, calendar, lock, lost, late,
                   bill, undo, faults>>

\* The process dies, or a commit fails: after the first commit the entry
\* stays and the allocations are pending again.
Die(r) ==
    /\ run[r].at # "idle"
    /\ Fault
    /\ late' = Unmarked(r)
    /\ run' = [run EXCEPT ![r] = NoRun]
    /\ UNCHANGED <<books, calendar, lock, lost, bill, undo>>

----------------------------------------------------------------------------
BillStep(c) == ApplyPost(c) \/ ApplyConflict(c)

Disburse(r) == Check(r) \/ Post(r) \/ Mark(r) \/ \E ref \in Refs : Look(r, ref)

SweepStep(r) ==
    \/ SweepLock(r) \/ SweepRead(r) \/ SweepRelease(r) \/ SweepDelete(r)
    \/ Disburse(r)

Next ==
    \/ ClosePeriod \/ ReopenPeriod \/ Tick \/ LockExpire
    \/ \E c \in Billers : BillStep(c) \/ \E i \in Installments : ApplyRead(c, i)
    \/ \E i \in Installments : ComeOfAge(i)
    \/ \E v \in Reversers : ReverseCommit(v) \/ \E o \in Originals : ReverseRead(v, o)
    \/ \E r \in Sweeps : SweepStep(r)
    \/ \E r \in Calls : Die(r)
    \/ \E r \in Admins :
         Disburse(r) \/ \E S \in SUBSET Installments : AdminRead(r, S)

Spec == Init /\ [][Next]_vars

\* Calls in progress go on, the sweep is scheduled again and again, and a key
\* expires.
Fairness ==
    /\ \A c \in Billers : WF_vars(BillStep(c))
    /\ \A r \in Sweeps : WF_vars(SweepStep(r))
    /\ \A r \in Admins : WF_vars(Disburse(r))
    /\ WF_vars(LockExpire)

FairSpec == Spec /\ Fairness

----------------------------------------------------------------------------
(* Properties                                                              *)

\* Whatever races, an installment is charged one late fee
\* (late_fee_service.py:41, accounting_service.py:1041).
Fees == INSTANCE JournalOnce WITH Events <- Installments, book <- fee
FeeOnce == Fees!Spec

\* Two sweeps that keep their lock and live to mark their allocations never
\* pay for the same allocation (charity_service.py:183-201).
SweepsDisburseOnce ==
    \A a, b \in AutoRefs \ late : a # b => entry[a] \cap entry[b] = {}

\* An allocation is marked only when it has been paid for: the entry of the
\* call's reference exists, and contains the allocation unless the call found
\* the entry there, because the reference was given before or generated by
\* another run of the same second (charity_service.py:74-82, 241-257).
MarkedIsPaid ==
    [][\A i \in Installments :
         alloc[i] # "disbursed" /\ alloc'[i] = "disbursed" =>
            \E r \in Calls :
                /\ run[r].at = "mark" /\ entry[run[r].ref] # {}
                /\ ~run[r].again => i \in entry[run[r].ref]]_vars

\* What stands in the way of a sweep other than a lock.
Blocked ==
    \/ ~IsOpen \/ Cardinality(Due) < NISAB
    \/ fund + unseen < Cardinality(Due)

\* A due allocation is disbursed in the end, unless the threshold, the
\* balance or a closed period forbids it: no lock of a dead run stays in the
\* way (charity_service.py:183-201).
DueDisbursed ==
    \A i \in Installments : alloc[i] = "due" ~> alloc[i] = "disbursed" \/ Blocked

\* charity_disbursement_worker.py:40-45: the lock keeps the scheduled sweep
\* and an administrator's disbursement from posting twice.
DisbursedOnce ==
    \A a, b \in Refs \ late : a # b => entry[a] \cap entry[b] = {}
============================================================================
