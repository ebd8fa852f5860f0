-------------------------- MODULE CharityFundProofs --------------------------
(***************************************************************************)
(* For any number of callers, sweeps, administrators and references: an    *)
(* installment is charged one late fee, an allocation is only marked as    *)
(* disbursed after an entry that pays for it, and two sweeps never pay for *)
(* one allocation while they keep their locks.                             *)
(***************************************************************************)
EXTENDS MCLedger, FiniteSetTheorems, TLAPS

USE DEF books, calendar, Calls, Refs, At, BillEnd, Leave

----------------------------------------------------------------------------
(* One late fee                                                            *)

\* A call that is about to charge has an installment.
Billed ==
    /\ fee \in [Installments -> Nat]
    /\ bill \in [Billers -> [at : {"idle", "post"},
                             on : Installments \cup {NoOne}]]
    /\ \A c \in Billers : bill[c].at # "idle" => bill[c].on \in Installments

\* Only two of the actions of a late fee touch these variables otherwise.
LEMMA BillFrame ==
    ASSUME [Next]_vars, ~(\E c \in Billers : BillStep(c)),
           ~(\E c \in Billers, i \in Installments : ApplyRead(c, i))
    PROVE  UNCHANGED <<fee, bill>>
BY DEF Next, vars, ClosePeriod, ReopenPeriod, Tick, LockExpire, ComeOfAge,
       ReverseCommit, ReverseRead, SweepStep, SweepLock, SweepRead,
       SweepRelease, SweepDelete, Disburse, Check, Post, Mark, Look, Die,
       AdminRead

LEMMA BilledStays == Billed /\ [Next]_vars => Billed'
<1> SUFFICES ASSUME Billed, [Next]_vars PROVE Billed'
  OBVIOUS
<1> USE DEF Billed
<1>1. ASSUME NEW c \in Billers, NEW i \in Installments, ApplyRead(c, i)
      PROVE  Billed'
  BY <1>1 DEF ApplyRead
<1>3. ASSUME NEW c \in Billers, ApplyPost(c) PROVE Billed'
  BY <1>3, FundAssumption DEF ApplyPost, NoBill
<1>4. ASSUME NEW c \in Billers, ApplyConflict(c) PROVE Billed'
  BY <1>4, FundAssumption DEF ApplyConflict, NoBill
<1>5. CASE /\ ~(\E c \in Billers : BillStep(c))
           /\ ~(\E c \in Billers, i \in Installments : ApplyRead(c, i))
  BY <1>5, BillFrame
<1> QED BY <1>1, <1>3, <1>4, <1>5 DEF BillStep

\* Whoever races for the fee of an installment, the journal of late fees only
\* takes the steps of JournalOnce (late_fee_service.py:41,
\* accounting_service.py:1041).
THEOREM FeeRefined == Spec => FeeOnce
<1>1. Init => Billed /\ Fees!Init
  BY FundAssumption DEF Init, Billed, NoBill, Fees!Init
<1>2. Billed /\ [Next]_vars => [Fees!Next]_fee
  <2> SUFFICES ASSUME Billed, [Next]_vars PROVE [Fees!Next]_fee
    OBVIOUS
  <2>1. ASSUME NEW c \in Billers, ApplyPost(c) PROVE Fees!Next
    <3>1. bill[c].on \in Installments
      BY <2>1 DEF Billed, ApplyPost
    <3>2. Fees!Post(bill[c].on)
      BY <2>1, <3>1 DEF Billed, ApplyPost, Fees!Post
    <3> QED BY <3>1, <3>2 DEF Fees!Next
  <2>2. fee' = fee \/ \E c \in Billers : ApplyPost(c)
    BY BillFrame DEF BillStep, ApplyRead, ApplyConflict
  <2> QED BY <2>1, <2>2
<1> QED BY <1>1, <1>2, BilledStays, PTL DEF Spec, FeeOnce, Fees!Spec

----------------------------------------------------------------------------
(* No allocation is marked unpaid                                          *)

\* A call that is about to post or to mark has allocations and a reference;
\* when it marks, the reference has an entry, which this call has posted unless
\* it found it there.
Backed ==
    /\ entry \in [Refs -> SUBSET Installments]
    /\ \A r \in Calls :
         /\ run[r].at \in {"check", "look", "post", "mark"} =>
              run[r].set # {} /\ run[r].set \subseteq Installments
         /\ run[r].at \in {"post", "mark"} => run[r].ref \in Refs
         /\ run[r].at = "mark" =>
              /\ entry[run[r].ref] # {}
              /\ ~run[r].again => run[r].set \subseteq entry[run[r].ref]

Stages == {"idle", "read", "check", "look", "post", "mark", "release", "delete"}
Run == [at : Stages, set : SUBSET Installments, ref : Refs \cup {NoOne},
        again : BOOLEAN]

\* The part of the state that the calls which disburse read and write.
Shaped == run \in [Calls -> Run] /\ fund \in Int /\ unseen \in Int

LEMMA Sizes ==
    ASSUME NEW S \in SUBSET Installments
    PROVE  Cardinality(S) \in Nat
BY FundAssumption, FS_Subset, FS_CardinalityType

LEMMA RunFields ==
    ASSUME NEW x \in Run
    PROVE  /\ \A at \in Stages : [x EXCEPT !.at = at] \in Run
           /\ \A S \in SUBSET Installments : [x EXCEPT !.set = S] \in Run
           /\ \A f \in Refs \cup {NoOne} : [x EXCEPT !.ref = f] \in Run
           /\ \A b \in BOOLEAN : [x EXCEPT !.again = b] \in Run
BY DEF Run

LEMMA Idle ==
    /\ NoRun \in Run /\ NoRun.at = "idle"
    /\ \A at \in {"idle", "release"} :
         [NoRun EXCEPT !.at = at] \in Run /\ [NoRun EXCEPT !.at = at].at = at
<1>1. NoRun \in Run /\ NoRun.at = "idle"
  BY DEF NoRun, Run, Stages
<1>2. \A x \in Run, at \in Stages : [x EXCEPT !.at = at].at = at
  BY DEF Run
<1>3. {"idle", "release"} \subseteq Stages
  BY DEF Stages
<1> QED BY <1>1, <1>2, <1>3, RunFields

\* A step of one call, which is not about to mark afterwards.
Steps(r, S) ==
    \E v \in Run :
        /\ run' = [run EXCEPT ![r] = v]
        /\ v.at \in S
        /\ v.at \in {"check", "look", "post"} => v.set # {}
        /\ v.at = "post" => v.ref \in Refs

LEMMA LeaveSteps ==
    ASSUME NEW r \in Calls, Leave(r)
    PROVE  Steps(r, {"idle", "release"})
<1> DEFINE at == IF r \in Sweeps THEN "release" ELSE "idle"
           v == [NoRun EXCEPT !.at = at]
<1>1. v \in Run /\ v.at \in {"idle", "release"}
  <2> at \in {"idle", "release"} OBVIOUS
  <2> HIDE DEF at
  <2> QED BY Idle
<1>2. run' = [run EXCEPT ![r] = v]
  OBVIOUS
<1> HIDE DEF v
<1> QED BY <1>1, <1>2 DEF Steps

LEMMA AtSteps ==
    ASSUME Shaped, NEW r \in Calls, NEW at \in {"read", "release", "delete"},
           At(r, at)
    PROVE  Steps(r, {at})
<1> DEFINE v == [run[r] EXCEPT !.at = at]
<1>1. v \in Run /\ v.at = at
  <2>1. run[r] \in Run /\ at \in Stages
    BY DEF Shaped, Stages
  <2>2. v \in Run
    BY <2>1, RunFields
  <2>3. v.at = at
    BY <2>1 DEF Run
  <2> QED BY <2>2, <2>3
<1>2. run' = [run EXCEPT ![r] = v]
  BY DEF Shaped
<1> HIDE DEF v
<1> QED BY <1>1, <1>2 DEF Steps

\* The entry of a reference stays.
EntryStays ==
    /\ entry' \in [Refs -> SUBSET Installments]
    /\ \A f \in Refs : entry[f] # {} => entry'[f] = entry[f]

LEMMA EntryKept == Backed /\ UNCHANGED entry => EntryStays
BY DEF Backed, EntryStays

LEMMA StepsBacked ==
    ASSUME Shaped, Backed, EntryStays, NEW r \in Calls,
           Steps(r, Stages \ {"mark"})
    PROVE  Backed' /\ run' \in [Calls -> Run]
<1>1. PICK v \in Run : /\ run' = [run EXCEPT ![r] = v]
                       /\ v.at # "mark"
                       /\ v.at \in {"check", "look", "post"} => v.set # {}
                       /\ v.at = "post" => v.ref \in Refs
  BY DEF Steps
<1>2. run' \in [Calls -> Run]
  BY <1>1 DEF Shaped
<1>3. v.set \subseteq Installments
  BY DEF Run
<1>4. \A q \in Calls \ {r} : run'[q] = run[q]
  BY <1>1 DEF Shaped
<1>5. run'[r] = v
  BY <1>1 DEF Shaped
<1> QED BY <1>1, <1>2, <1>3, <1>4, <1>5 DEF Backed, EntryStays

\* A step that leaves the disbursing calls and the entries alone.
LEMMA RestBacked ==
    ASSUME Shaped, Backed, UNCHANGED <<run, entry>>
    PROVE  Backed' /\ run' \in [Calls -> Run]
BY DEF Shaped, Backed

PayInv == Shaped /\ Backed
Kept == Backed' /\ run' \in [Calls -> Run]

LEMMA SweepKept ==
    ASSUME PayInv, NEW r \in Sweeps,
           SweepLock(r) \/ SweepRead(r) \/ SweepRelease(r) \/ SweepDelete(r)
    PROVE  Kept
<1> r \in Calls
  OBVIOUS
<1>1. run[r] \in Run /\ run \in [Calls -> Run]
  BY DEF PayInv, Shaped
<1>2. EntryStays
  BY EntryKept DEF PayInv, SweepLock, SweepRead, SweepRelease, SweepDelete
<1>3. CASE SweepLock(r)
  <2>1. Steps(r, {"read"})
    BY <1>3, AtSteps DEF SweepLock, PayInv
  <2> QED BY <1>2, <2>1, StepsBacked DEF PayInv, Kept, Steps, Stages
<1>4. CASE SweepRead(r)
  <2>1. CASE At(r, "release")
    <3>1. Steps(r, {"release"})
      BY <2>1, AtSteps DEF PayInv
    <3> QED BY <1>2, <3>1, StepsBacked DEF PayInv, Kept, Steps, Stages
  <2>2. CASE Due # {} /\ run' = [run EXCEPT ![r].at = "check", ![r].set = Due]
    <3> DEFINE v == [[run[r] EXCEPT !.at = "check"] EXCEPT !.set = Due]
    <3>1. v \in Run
      <4>1. [run[r] EXCEPT !.at = "check"] \in Run
        BY <1>1, RunFields DEF Stages
      <4>2. Due \in SUBSET Installments
        BY DEF Due
      <4> QED BY <4>1, <4>2, RunFields
    <3>2. v.at = "check" /\ v.set = Due /\ run' = [run EXCEPT ![r] = v]
      BY <1>1, <2>2 DEF Run
    <3>3. Steps(r, {"check"})
      <4> HIDE DEF v
      <4> QED BY <2>2, <3>1, <3>2 DEF Steps
    <3> QED BY <1>2, <3>3, StepsBacked DEF PayInv, Kept, Steps, Stages
  <2> QED BY <1>4, <2>1, <2>2 DEF SweepRead
<1>5. CASE SweepRelease(r)
  <2>1. CASE At(r, "delete")
    <3>1. Steps(r, {"delete"})
      BY <2>1, AtSteps DEF PayInv
    <3> QED BY <1>2, <3>1, StepsBacked DEF PayInv, Kept, Steps, Stages
  <2>2. CASE run' = [run EXCEPT ![r] = NoRun]
    <3>1. Steps(r, {"idle"})
      BY <2>2, Idle DEF Steps
    <3> QED BY <1>2, <3>1, StepsBacked DEF PayInv, Kept, Steps, Stages
  <2> QED BY <1>5, <2>1, <2>2 DEF SweepRelease
<1>6. CASE SweepDelete(r)
  <2>1. Steps(r, {"idle"})
    BY <1>6, Idle DEF SweepDelete, Steps
  <2> QED BY <1>2, <2>1, StepsBacked DEF PayInv, Kept, Steps, Stages
<1> QED BY <1>3, <1>4, <1>5, <1>6

LEMMA CheckKept ==
    ASSUME PayInv, NEW r \in Calls, Check(r)
    PROVE  Kept
<1>1. run[r] \in Run /\ run \in [Calls -> Run] /\ EntryStays
  BY EntryKept DEF PayInv, Shaped, Check
<1>2. CASE Leave(r)
  <2>1. Steps(r, {"idle", "release"})
    BY <1>2, LeaveSteps
  <2> QED BY <1>1, <2>1, StepsBacked DEF PayInv, Kept, Steps, Stages
<1>3. CASE At(r, "look")
  <2> DEFINE v == [run[r] EXCEPT !.at = "look"]
  <2>1. v \in Run
    BY <1>1, RunFields DEF Stages
  <2>2. v.at = "look" /\ v.set = run[r].set /\ run' = [run EXCEPT ![r] = v]
    BY <1>1, <1>3 DEF Run
  <2>3. run[r].set # {}
    BY DEF PayInv, Backed, Check
  <2>4. Steps(r, {"look"})
    <3> HIDE DEF v
    <3> QED BY <2>1, <2>2, <2>3 DEF Steps
  <2> QED BY <1>1, <2>4, StepsBacked DEF PayInv, Kept, Steps, Stages
<1> QED BY <1>2, <1>3 DEF Check

LEMMA LookKept ==
    ASSUME PayInv, NEW r \in Calls, NEW f \in Refs, Look(r, f)
    PROVE  Kept
<1>1. /\ run[r] \in Run /\ run \in [Calls -> Run] /\ EntryStays
      /\ run[r].set # {} /\ run[r].set \subseteq Installments
  BY EntryKept DEF PayInv, Shaped, Backed, Look
<1>2. CASE Leave(r)
  <2>1. Steps(r, {"idle", "release"})
    BY <1>2, LeaveSteps
  <2> QED BY <1>1, <2>1, StepsBacked DEF PayInv, Kept, Steps, Stages
<1>3. ASSUME NEW at \in {"post", "mark"}, NEW there \in BOOLEAN,
             at = "mark" => entry[f] # {} /\ there,
             run' = [run EXCEPT ![r] = [@ EXCEPT !.at = at, !.ref = f, !.again = there]]
      PROVE  Kept
  <2> DEFINE v == [[[run[r] EXCEPT !.at = at] EXCEPT !.ref = f] EXCEPT !.again = there]
  <2>1. v \in Run
    <3>1. [run[r] EXCEPT !.at = at] \in Run
      BY <1>1, RunFields DEF Stages
    <3> QED BY <3>1, RunFields
  <2>2. /\ v.at = at /\ v.set = run[r].set /\ v.ref = f /\ v.again = there
        /\ run' = [run EXCEPT ![r] = v]
    BY <1>1, <1>3 DEF Run
  <2> HIDE DEF v
  <2>3. CASE at = "post"
    <3>1. Steps(r, {"post"})
      BY <1>1, <2>1, <2>2, <2>3 DEF Steps
    <3> QED BY <1>1, <3>1, StepsBacked DEF PayInv, Kept, Steps, Stages
  <2>4. CASE at = "mark"
    <3>1. entry' = entry
      BY DEF Look
    <3>2. run'[r] = v /\ \A q \in Calls \ {r} : run'[q] = run[q]
      BY <1>1, <2>2
    <3>3. run' \in [Calls -> Run]
      BY <1>1, <2>1, <2>2
    <3>4. Backed'
      BY <1>1, <1>3, <2>2, <2>4, <3>1, <3>2 DEF PayInv, Backed
    <3> QED BY <3>3, <3>4 DEF Kept
  <2> QED BY <2>3, <2>4
<1> QED BY <1>2, <1>3 DEF Look

LEMMA PostKept ==
    ASSUME PayInv, NEW r \in Calls, Post(r)
    PROVE  Kept
<1> DEFINE f == run[r].ref
<1>1. /\ run[r] \in Run /\ run \in [Calls -> Run]
      /\ run[r].set # {} /\ run[r].set \subseteq Installments /\ f \in Refs
      /\ entry \in [Refs -> SUBSET Installments]
  BY DEF PayInv, Shaped, Backed, Post
<1>2. CASE entry[f] # {}
  <2>1. Leave(r) /\ EntryStays
    BY <1>2, EntryKept DEF Post, PayInv
  <2>2. Steps(r, {"idle", "release"})
    BY <2>1, LeaveSteps
  <2> QED BY <2>1, <2>2, StepsBacked DEF PayInv, Kept, Steps, Stages
<1>3. CASE entry[f] = {}
  <2>1. entry' = [entry EXCEPT ![f] = run[r].set]
    BY <1>3 DEF Post
  <2>2. /\ entry' \in [Refs -> SUBSET Installments]
        /\ entry'[f] = run[r].set
        /\ \A g \in Refs : entry[g] # {} => entry'[g] = entry[g]
    BY <1>1, <1>3, <2>1
  <2> DEFINE v == [run[r] EXCEPT !.at = "mark"]
  <2>3. v \in Run
    <3> HIDE DEF f
    <3> QED BY <1>1, RunFields DEF Stages
  <2>4. /\ v.at = "mark" /\ v.set = run[r].set /\ v.ref = f
        /\ run' = [run EXCEPT ![r] = v]
    BY <1>1, <1>3 DEF Run, Post
  <2> HIDE DEF v
  <2>5. run' \in [Calls -> Run]
    BY <1>1, <2>3, <2>4
  <2>6. run'[r] = v /\ \A q \in Calls \ {r} : run'[q] = run[q]
    BY <1>1, <2>4
  <2>7. Backed'
    BY <1>1, <2>2, <2>4, <2>6 DEF PayInv, Backed
  <2> QED BY <2>5, <2>7 DEF Kept
<1> QED BY <1>2, <1>3

LEMMA EndKept ==
    ASSUME PayInv, NEW r \in Calls, Mark(r) \/ Die(r)
    PROVE  Kept
<1>1. EntryStays
  BY EntryKept DEF PayInv, Mark, Die
<1>2. Steps(r, {"idle", "release"})
  <2>1. CASE Mark(r)
    BY <2>1, LeaveSteps DEF Mark
  <2>2. CASE Die(r)
    BY <2>2, Idle DEF Die, Steps
  <2> QED BY <2>1, <2>2
<1> QED BY <1>1, <1>2, StepsBacked DEF PayInv, Kept, Steps, Stages

LEMMA AdminKept ==
    ASSUME PayInv, NEW r \in Admins, NEW S \in SUBSET Installments,
           AdminRead(r, S)
    PROVE  Kept
<1> r \in Calls
  OBVIOUS
<1>1. run[r] \in Run /\ run \in [Calls -> Run] /\ EntryStays
  BY EntryKept DEF PayInv, Shaped, AdminRead
<1>2. PICK T \in SUBSET Installments :
        T # {} /\ run' = [run EXCEPT ![r].at = "check", ![r].set = T]
  BY DEF AdminRead
<1> DEFINE v == [[run[r] EXCEPT !.at = "check"] EXCEPT !.set = T]
<1>3. v \in Run
  <2>1. [run[r] EXCEPT !.at = "check"] \in Run
    BY <1>1, RunFields DEF Stages
  <2> QED BY <2>1, RunFields
<1>4. v.at = "check" /\ v.set = T /\ run' = [run EXCEPT ![r] = v]
  BY <1>1, <1>2 DEF Run
<1>5. Steps(r, {"check"})
  <2> HIDE DEF v
  <2> QED BY <1>2, <1>3, <1>4 DEF Steps
<1> QED BY <1>1, <1>5, StepsBacked DEF PayInv, Kept, Steps, Stages

\* The balance stays a number.
LEMMA BalanceKept ==
    ASSUME PayInv, [Next]_vars
    PROVE  fund' \in Int /\ unseen' \in Int
<1>1. fund \in Int /\ unseen \in Int /\ entry \in [Refs -> SUBSET Installments]
  BY DEF PayInv, Shaped, Backed
<1>2. ASSUME NEW c \in Billers, ApplyPost(c)
      PROVE  fund' \in Int /\ unseen' \in Int
  BY <1>1, <1>2 DEF ApplyPost
<1>3. ASSUME NEW v \in Reversers, ReverseCommit(v)
      PROVE  fund' \in Int /\ unseen' \in Int
  <2> DEFINE o == undo[v].on
  <2>1. Refund(o) \in Int
    <3>1. CASE o \in Refs
      BY <1>1, <3>1, Sizes DEF Refund
    <3>2. CASE o \notin Refs
      BY <3>2 DEF Refund
    <3> QED BY <3>1, <3>2
  <2> QED BY <1>1, <1>3, <2>1 DEF ReverseCommit
<1>4. ASSUME NEW r \in Calls, Post(r)
      PROVE  fund' \in Int /\ unseen' \in Int
  <2>1. Cardinality(run[r].set) \in Nat
    BY <1>4, Sizes DEF PayInv, Backed, Post
  <2> QED BY <1>1, <1>4, <2>1 DEF Post
<1>5. CASE UNCHANGED <<fund, unseen>>
  BY <1>1, <1>5
<1>6. \/ UNCHANGED <<fund, unseen>>
      \/ \E c \in Billers : ApplyPost(c)
      \/ \E v \in Reversers : ReverseCommit(v)
      \/ \E r \in Calls : Post(r)
  BY DEF Next, vars, ClosePeriod, ReopenPeriod, Tick, LockExpire, ComeOfAge,
         ReverseRead, SweepStep, SweepLock, SweepRead, SweepRelease,
         SweepDelete, Disburse, Check, Mark, Look, Die, AdminRead, BillStep,
         ApplyRead, ApplyConflict
<1> QED BY <1>2, <1>3, <1>4, <1>5, <1>6

\* The steps that neither disburse nor post a disbursement.
LEMMA OtherSteps ==
    ASSUME [Next]_vars
    PROVE  \/ UNCHANGED <<run, entry>>
           \/ \E r \in Sweeps : \/ SweepLock(r) \/ SweepRead(r)
                                \/ SweepRelease(r) \/ SweepDelete(r)
           \/ \E r \in Calls : \/ Check(r) \/ Post(r) \/ Mark(r) \/ Die(r)
                               \/ \E f \in Refs : Look(r, f)
           \/ \E r \in Admins, S \in SUBSET Installments : AdminRead(r, S)
BY DEF Next, vars, ClosePeriod, ReopenPeriod, Tick, LockExpire, ComeOfAge,
       ReverseRead, ReverseCommit, SweepStep, Disburse, BillStep, ApplyRead,
       ApplyPost, ApplyConflict

LEMMA PayInvKept == PayInv /\ [Next]_vars => PayInv'
<1> SUFFICES ASSUME PayInv, [Next]_vars PROVE PayInv'
  OBVIOUS
<1>1. Kept
  BY OtherSteps, RestBacked, SweepKept, CheckKept, LookKept, PostKept,
     EndKept, AdminKept DEF PayInv, Kept
<1> QED BY <1>1, BalanceKept DEF PayInv, Shaped, Kept

\* Whoever disburses, an allocation is only marked by a call whose reference
\* has an entry, which pays for the allocation unless the call found it there:
\* the reference was given before, or another run of the same second generated
\* it (charity_service.py:74-82, 241-257).
THEOREM MarkedPaid == Spec => MarkedIsPaid
<1>1. Init => PayInv
  <2>1. ASSUME Init PROVE Shaped /\ Backed
    BY <2>1, Idle DEF Init, Shaped, Backed
  <2> QED BY <2>1 DEF PayInv
<1> DEFINE Paid == \A i \in Installments :
         alloc[i] # "disbursed" /\ alloc'[i] = "disbursed" =>
            \E r \in Calls :
                /\ run[r].at = "mark" /\ entry[run[r].ref] # {}
                /\ ~run[r].again => i \in entry[run[r].ref]
<1>2. PayInv /\ [Next]_vars => Paid
  <2> SUFFICES ASSUME PayInv, [Next]_vars, NEW i \in Installments,
                      alloc[i] # "disbursed", alloc'[i] = "disbursed"
               PROVE  \E r \in Calls :
                        /\ run[r].at = "mark" /\ entry[run[r].ref] # {}
                        /\ ~run[r].again => i \in entry[run[r].ref]
    OBVIOUS
  <2>1. \E r \in Calls : Mark(r)
    <3>1. ASSUME NEW c \in Billers, ApplyPost(c) PROVE FALSE
      BY <3>1 DEF ApplyPost
    <3>2. ASSUME NEW j \in Installments, ComeOfAge(j) PROVE FALSE
      BY <3>2 DEF ComeOfAge
    <3>3. \/ alloc' = alloc
          \/ \E c \in Billers : ApplyPost(c)
          \/ \E j \in Installments : ComeOfAge(j)
          \/ \E r \in Calls : Mark(r)
      BY DEF Next, vars, ClosePeriod, ReopenPeriod, Tick, LockExpire, ReverseRead,
             ReverseCommit, SweepStep, SweepLock, SweepRead, SweepRelease,
             SweepDelete, Disburse, Check, Post, Look, Die, AdminRead,
             BillStep, ApplyRead, ApplyConflict
    <3> QED BY <3>1, <3>2, <3>3
  <2>2. PICK r \in Calls : Mark(r)
    BY <2>1
  <2>3. run[r].at = "mark" /\ i \in run[r].set
    BY <2>2 DEF Mark
  <2> QED BY <2>3 DEF PayInv, Backed
<1> QED BY <1>1, <1>2, PayInvKept, PTL DEF Spec, MarkedIsPaid

----------------------------------------------------------------------------
(* The types                                                               *)

\* A reversal that has read has read an entry.
Undoing ==
    /\ undo \in [Reversers -> [at : {"new", "read", "done"}, on : Originals \cup {NoOne}]]
    /\ \A v \in Reversers : undo[v].at = "read" => undo[v].on \in Originals

FundInv == TypeOK /\ Backed /\ Billed /\ Undoing

LEMMA FundInvStarts == Init => FundInv
<1> SUFFICES ASSUME Init PROVE FundInv
  OBVIOUS
<1>1. Backed /\ run \in [Calls -> Run]
  BY Idle DEF Init, Backed
<1>2. Billed /\ Undoing
  BY DEF Init, Billed, Undoing, NoBill
<1> QED BY <1>1, <1>2 DEF Init, FundInv, TypeOK, Run, Stages, Billed

\* The actions, told apart by what they leave alone.
LEMMA WritesFew ==
    ASSUME [Next]_vars
    PROVE  /\ \/ \E c \in Billers : ApplyPost(c)
              \/ \E i \in Installments : ComeOfAge(i)
              \/ \E r \in Calls : Mark(r)
              \/ UNCHANGED alloc
           /\ \/ \E v \in Reversers, o \in Originals : ReverseRead(v, o)
              \/ \E v \in Reversers : ReverseCommit(v)
              \/ UNCHANGED <<rev, undo>>
           /\ ClosePeriod \/ ReopenPeriod \/ UNCHANGED period
           /\ \/ \E r \in Sweeps : SweepLock(r) \/ SweepDelete(r)
              \/ LockExpire
              \/ UNCHANGED <<lock, lost>>
           /\ \/ \E r \in Calls : Post(r) \/ Die(r)
              \/ \E r \in Sweeps : SweepDelete(r)
              \/ LockExpire
              \/ UNCHANGED late
           /\ Tick \/ UNCHANGED past
           /\ LockExpire \/ (\E r \in Calls : Die(r)) \/ UNCHANGED faults
BY DEF Next, vars, ClosePeriod, ReopenPeriod, Tick, LockExpire, ComeOfAge,
       ReverseRead, ReverseCommit, SweepStep, SweepLock, SweepRead, SweepRelease,
       SweepDelete, Disburse, Check, Post, Mark, Look, Die, AdminRead, BillStep,
       ApplyRead, ApplyPost, ApplyConflict

\* Only the reference of a call about to mark becomes late, and it has one.
LEMMA LateTyped ==
    ASSUME FundInv, NEW r \in Calls
    PROVE  Unmarked(r) \subseteq Refs /\ late \subseteq Unmarked(r)
BY DEF FundInv, TypeOK, Backed, Unmarked

LEMMA UndoKept == FundInv /\ [Next]_vars => Undoing' /\ rev' \in [Originals -> Nat]
<1> SUFFICES ASSUME FundInv, [Next]_vars
             PROVE  Undoing' /\ rev' \in [Originals -> Nat]
  OBVIOUS
<1> USE DEF FundInv, Undoing, TypeOK
<1>1. ASSUME NEW v \in Reversers, NEW o \in Originals, ReverseRead(v, o)
      PROVE  Undoing' /\ rev' \in [Originals -> Nat]
  BY <1>1 DEF ReverseRead
<1>2. ASSUME NEW v \in Reversers, ReverseCommit(v)
      PROVE  Undoing' /\ rev' \in [Originals -> Nat]
  BY <1>2 DEF ReverseCommit
<1>3. CASE UNCHANGED <<rev, undo>>
  BY <1>3
<1> QED BY <1>1, <1>2, <1>3, WritesFew

LEMMA AllocKept ==
    FundInv /\ [Next]_vars
        => alloc' \in [Installments -> {"none", "new", "due", "disbursed"}]
<1> SUFFICES ASSUME FundInv, [Next]_vars
             PROVE  alloc' \in [Installments -> {"none", "new", "due", "disbursed"}]
  OBVIOUS
<1> USE DEF FundInv, TypeOK
<1>1. ASSUME NEW c \in Billers, ApplyPost(c)
      PROVE  alloc' \in [Installments -> {"none", "new", "due", "disbursed"}]
  BY <1>1 DEF ApplyPost
<1>2. ASSUME NEW i \in Installments, ComeOfAge(i)
      PROVE  alloc' \in [Installments -> {"none", "new", "due", "disbursed"}]
  BY <1>2 DEF ComeOfAge
<1>3. ASSUME NEW r \in Calls, Mark(r)
      PROVE  alloc' \in [Installments -> {"none", "new", "due", "disbursed"}]
  BY <1>3 DEF Mark
<1> QED BY <1>1, <1>2, <1>3, WritesFew

\* The lock, those who lost it and the references that are late.
LEMMA LockKept ==
    FundInv /\ [Next]_vars
        => /\ lock' \in Sweeps \cup {NoOne} /\ lost' \subseteq Sweeps
           /\ late \subseteq late' /\ late' \subseteq Refs
<1> SUFFICES ASSUME FundInv, [Next]_vars
             PROVE  /\ lock' \in Sweeps \cup {NoOne} /\ lost' \subseteq Sweeps
                    /\ late \subseteq late' /\ late' \subseteq Refs
  OBVIOUS
<1>1. lock \in Sweeps \cup {NoOne} /\ lost \subseteq Sweeps /\ late \subseteq Refs
  BY DEF FundInv, TypeOK
<1>2. lock' \in Sweeps \cup {NoOne} /\ lost' \subseteq Sweeps
  BY <1>1, WritesFew DEF SweepLock, SweepDelete, LockExpire
<1>3. ASSUME NEW r \in Calls, Post(r) \/ Die(r)
      PROVE  late \subseteq late' /\ late' \subseteq Refs
  BY <1>1, <1>3, LateTyped DEF Post, Die, FundInv, Backed
<1>4. ASSUME NEW r \in Sweeps, SweepDelete(r)
      PROVE  late \subseteq late' /\ late' \subseteq Refs
  <2>1. {lock} \ {r, NoOne} # {} => lock \in Calls
    BY <1>1
  <2> QED BY <1>1, <1>4, <2>1, LateTyped DEF SweepDelete
<1>5. CASE LockExpire
  <2>1. lock \in Calls
    BY <1>1, <1>5 DEF LockExpire
  <2> QED BY <1>1, <1>5, <2>1, LateTyped DEF LockExpire
<1> QED BY <1>1, <1>2, <1>3, <1>4, <1>5, WritesFew

LEMMA FundInvKept == FundInv /\ [Next]_vars => FundInv'
<1> SUFFICES ASSUME FundInv, [Next]_vars PROVE FundInv'
  OBVIOUS
<1>1. PayInv
  BY DEF FundInv, TypeOK, PayInv, Shaped, Run, Stages
<1>2. PayInv'
  BY <1>1, PayInvKept
<1>3. Billed'
  BY BilledStays DEF FundInv
<1>4. period' \in [is : {"open", "closed"}, times : Nat]
  BY WritesFew DEF FundInv, TypeOK, ClosePeriod, ReopenPeriod
<1>7. past' \subseteq AutoRefs
  <2>1. CASE Tick
    <3>1. Now \in AutoRefs \ past
      BY <2>1 DEF Tick, Now
    <3> QED BY <2>1, <3>1 DEF FundInv, TypeOK, Tick
  <2>2. CASE UNCHANGED past
    BY <2>2 DEF FundInv, TypeOK
  <2> QED BY <2>1, <2>2, WritesFew
<1>5. faults' \in Nat
  BY WritesFew DEF FundInv, TypeOK, LockExpire, Die, Fault
<1>6. run' \in [Calls -> Run] /\ fund' \in Int /\ unseen' \in Int /\ Backed'
  BY <1>2 DEF PayInv, Shaped
<1> QED BY <1>3, <1>4, <1>5, <1>6, <1>7, UndoKept, AllocKept, LockKept
        DEF FundInv, TypeOK, Backed, Billed, Undoing, Run, Stages

\* Every reachable state of the charity fund is well typed, whichever calls
\* race, die or outlive their lock.
THEOREM FundTyped == Spec => []TypeOK
<1>1. FundInv => TypeOK
  BY DEF FundInv
<1> QED BY <1>1, FundInvStarts, FundInvKept, PTL DEF Spec

----------------------------------------------------------------------------
(* Two sweeps do not pay twice                                             *)

\* A run in progress has the lock unless it lost it.
Owned == \A r \in Sweeps : run[r].at # "idle" /\ r \notin lost => lock = r

\* Only what was charged has an allocation, or is about to be paid.
ChargedFirst ==
    /\ \A i \in Installments : fee[i] = 0 => alloc[i] = "none"
    /\ \A r \in Calls : \A i \in run[r].set : i \in Installments => fee[i] > 0

\* An administrator's reference is given, not generated.
Given == \A r \in Admins : run[r].at \in {"post", "mark"} => run[r].ref \notin AutoRefs

\* What a sweep with its lock is about to pay was not paid by another sweep.
Fresh ==
    \A r \in Sweeps \ lost : run[r].at \in {"check", "look", "post"} =>
        \A a \in AutoRefs \ late : entry[a] \cap run[r].set = {}

\* What a sweep has paid it is about to mark, or it is marked.
Settled ==
    \A a \in AutoRefs \ late :
        \/ \E r \in Sweeps \ lost : /\ run[r].at = "mark" /\ run[r].ref = a
                                    /\ entry[a] \subseteq run[r].set
        \/ \A i \in entry[a] : alloc[i] = "disbursed"

SweepInv == FundInv /\ Owned /\ ChargedFirst /\ Given /\ Fresh /\ Settled
            /\ SweepsDisburseOnce

LEMMA SweepInvStarts == Init => SweepInv
<1> SUFFICES ASSUME Init PROVE SweepInv
  OBVIOUS
<1>1. \A r \in Calls : run[r] = NoRun /\ NoRun.at = "idle" /\ NoRun.set = {}
  BY DEF Init, NoRun
<1>2. /\ \A a \in AutoRefs : entry[a] = {}
      /\ \A i \in Installments : alloc[i] = "none"
  BY DEF Init
<1>3. Owned /\ Given /\ Fresh
  BY <1>1 DEF Owned, Given, Fresh
<1> QED BY <1>1, <1>2, <1>3, FundInvStarts
        DEF SweepInv, ChargedFirst, Settled, SweepsDisburseOnce

\* What the proofs below use of the types.
LEMMA FundFacts ==
    ASSUME FundInv
    PROVE  /\ run \in [Calls -> Run] /\ PayInv
           /\ fee \in [Installments -> Nat]
           /\ alloc \in [Installments -> {"none", "new", "due", "disbursed"}]
           /\ entry \in [Refs -> SUBSET Installments]
           /\ lock \in Sweeps \cup {NoOne} /\ lost \subseteq Sweeps /\ late \subseteq Refs
           /\ \A r \in Calls : /\ run[r].set \subseteq Installments
                               /\ run[r].at = "post" => run[r].ref \in Refs
BY DEF FundInv, TypeOK, PayInv, Shaped, Backed, Run, Stages

\* A fee stays charged, and what is charged later was without allocation.
LEMMA FeesStay ==
    ASSUME SweepInv, [Next]_vars
    PROVE  \A i \in Installments : fee[i] > 0 => fee'[i] > 0
<1>1. fee \in [Installments -> Nat]
  BY FundFacts DEF SweepInv
<1>2. ASSUME NEW c \in Billers, ApplyPost(c)
      PROVE  \A i \in Installments : fee[i] > 0 => fee'[i] > 0
  BY <1>1, <1>2 DEF ApplyPost
<1>3. fee' = fee \/ \E c \in Billers : ApplyPost(c)
  BY BillFrame DEF BillStep, ApplyRead, ApplyConflict
<1> QED BY <1>1, <1>2, <1>3

\* What is disbursed stays so.
LEMMA DisbursedStays ==
    ASSUME SweepInv, [Next]_vars
    PROVE  \A i \in Installments : alloc[i] = "disbursed" => alloc'[i] = "disbursed"
<1>1. /\ alloc \in [Installments -> {"none", "new", "due", "disbursed"}]
      /\ \A i \in Installments : fee[i] = 0 => alloc[i] = "none"
  BY FundFacts DEF SweepInv, ChargedFirst
<1>2. ASSUME NEW c \in Billers, ApplyPost(c)
      PROVE  \A i \in Installments : alloc[i] = "disbursed" => alloc'[i] = "disbursed"
  BY <1>1, <1>2 DEF ApplyPost
<1>3. ASSUME NEW i \in Installments, ComeOfAge(i)
      PROVE  \A j \in Installments : alloc[j] = "disbursed" => alloc'[j] = "disbursed"
  BY <1>1, <1>3 DEF ComeOfAge
<1>4. ASSUME NEW r \in Calls, Mark(r)
      PROVE  \A i \in Installments : alloc[i] = "disbursed" => alloc'[i] = "disbursed"
  BY <1>1, <1>4 DEF Mark
<1> QED BY <1>1, <1>2, <1>3, <1>4, WritesFew

LEMMA AllocAfterFee ==
    ASSUME SweepInv, [Next]_vars
    PROVE  \A i \in Installments : fee'[i] = 0 => alloc'[i] = "none"
<1>1. /\ fee \in [Installments -> Nat] /\ ChargedFirst
      /\ alloc \in [Installments -> {"none", "new", "due", "disbursed"}]
      /\ \A r \in Calls : run[r].set \subseteq Installments
  BY FundFacts DEF SweepInv
<1>2. ASSUME NEW c \in Billers, ApplyPost(c)
      PROVE  \A i \in Installments : fee'[i] = 0 => alloc'[i] = "none"
  BY <1>1, <1>2 DEF ApplyPost, ChargedFirst
<1>3. ASSUME NEW i \in Installments, ComeOfAge(i)
      PROVE  \A j \in Installments : fee'[j] = 0 => alloc'[j] = "none"
  BY <1>1, <1>3 DEF ComeOfAge, ChargedFirst
<1>4. ASSUME NEW r \in Calls, Mark(r)
      PROVE  \A i \in Installments : fee'[i] = 0 => alloc'[i] = "none"
  BY <1>1, <1>4 DEF Mark, ChargedFirst
<1>5. CASE UNCHANGED alloc
  BY <1>1, <1>5, FeesStay DEF ChargedFirst, SweepInv, FundInv, Billed
<1> QED BY <1>2, <1>3, <1>4, <1>5, WritesFew

\* A sweep that keeps its lock is the only one.
LEMMA OneOwner ==
    ASSUME SweepInv, NEW r \in Sweeps \ lost, NEW q \in Sweeps \ lost,
           run[r].at # "idle", run[q].at # "idle"
    PROVE  r = q
BY DEF SweepInv, Owned

\* A step of a call that is not about to post or to mark, before or after.
LEMMA RunStep ==
    ASSUME NEW r \in Calls, run \in [Calls -> Run], NEW v, run' = [run EXCEPT ![r] = v]
    PROVE  run'[r] = v /\ \A q \in Calls \ {r} : run'[q] = run[q]
OBVIOUS

\* The sweeps other than those in S keep their lock if they stay owners.
Undisturbed(S) ==
    \A q \in Sweeps \ S : run[q].at # "idle" /\ q \notin lost' => q \notin lost /\ lock' = q

\* A sweep about to mark stays about to mark, has marked, or is late.
Marking ==
    \A q \in Sweeps \ lost : run[q].at = "mark" =>
        \/ run[q].ref \in late'
        \/ run'[q] = run[q] /\ q \notin lost'
        \/ \A i \in run[q].set : alloc'[i] = "disbursed"

LEMMA SettledKept ==
    ASSUME SweepInv, [Next]_vars, entry' = entry, Marking
    PROVE  Settled' /\ SweepsDisburseOnce'
<1>1. late \subseteq late'
  BY LockKept DEF SweepInv
<1>2. entry \in [Refs -> SUBSET Installments]
  BY FundFacts DEF SweepInv
<1>3. ASSUME NEW a \in AutoRefs \ late'
      PROVE  \/ \E r \in Sweeps \ lost' : /\ run'[r].at = "mark" /\ run'[r].ref = a
                                          /\ entry'[a] \subseteq run'[r].set
             \/ \A i \in entry'[a] : alloc'[i] = "disbursed"
  <2>1. CASE \A i \in entry[a] : alloc[i] = "disbursed"
    BY <1>2, <2>1, DisbursedStays
  <2>2. CASE \E r \in Sweeps \ lost : /\ run[r].at = "mark" /\ run[r].ref = a
                                      /\ entry[a] \subseteq run[r].set
    BY <1>3, <2>2 DEF Marking
  <2> QED BY <1>1, <1>3, <2>1, <2>2 DEF SweepInv, Settled
<1> QED BY <1>1, <1>3 DEF Settled, SweepInv, SweepsDisburseOnce

\* A step that leaves every call where it is.
LEMMA RestMoves ==
    ASSUME SweepInv, [Next]_vars, UNCHANGED <<run, entry>>, Undisturbed({}), Marking
    PROVE  SweepInv'
<1>1. FundInv' /\ late \subseteq late'
  BY FundInvKept, LockKept DEF SweepInv
<1>2. Owned' /\ Given' /\ Fresh'
  BY <1>1 DEF SweepInv, Owned, Given, Fresh, Undisturbed
<1>3. ChargedFirst'
  BY FeesStay, AllocAfterFee DEF SweepInv, ChargedFirst
<1> QED BY <1>1, <1>2, <1>3, SettledKept DEF SweepInv

\* A step of one call that posts no entry.
LEMMA CallMoves ==
    ASSUME SweepInv, [Next]_vars, entry' = entry, Marking,
           NEW r \in Calls, NEW v, run' = [run EXCEPT ![r] = v],
           Undisturbed({r}),
           r \in Sweeps /\ v.at # "idle" /\ r \notin lost' => lock' = r,
           \A i \in v.set : i \in Installments => fee[i] > 0,
           r \in Sweeps \ lost' /\ v.at \in {"check", "look", "post"}
               => \A a \in AutoRefs \ late' : entry[a] \cap v.set = {},
           r \in Admins /\ v.at \in {"post", "mark"} => v.ref \notin AutoRefs
    PROVE  SweepInv'
<1>1. FundInv' /\ late \subseteq late'
  BY FundInvKept, LockKept DEF SweepInv
<1>2. run'[r] = v /\ \A q \in Calls \ {r} : run'[q] = run[q]
  BY RunStep, FundFacts DEF SweepInv
<1>3. Owned'
  BY <1>2 DEF Owned, Undisturbed
<1>4. Given'
  BY <1>2 DEF SweepInv, Given
<1>5. Fresh'
  BY <1>1, <1>2 DEF SweepInv, Fresh, Undisturbed
<1>6. ChargedFirst'
  BY <1>2, FeesStay, AllocAfterFee DEF SweepInv, ChargedFirst
<1> QED BY <1>1, <1>3, <1>4, <1>5, <1>6, SettledKept DEF SweepInv

\* As long as nobody touches the lock, who has it keeps it.
LEMMA LockStays ==
    ASSUME SweepInv, UNCHANGED <<lock, lost>>
    PROVE  /\ \A S : Undisturbed(S)
           /\ \A r \in Sweeps : run[r].at # "idle" /\ r \notin lost' => lock' = r
BY DEF SweepInv, Owned, Undisturbed

\* Nobody who still has the lock marks a call that is not about to mark.
LEMMA NotMarking ==
    ASSUME SweepInv, NEW r \in Calls, run[r].at # "mark", NEW v,
           run' = [run EXCEPT ![r] = v], lost' \subseteq lost \cup {r}
    PROVE  Marking
<1>1. run'[r] = v /\ \A q \in Calls \ {r} : run'[q] = run[q]
  BY RunStep, FundFacts DEF SweepInv
<1> QED BY <1>1 DEF Marking

LEMMA LockExpireSafe ==
    ASSUME SweepInv, [Next]_vars, LockExpire
    PROVE  SweepInv'
<1>1. UNCHANGED <<run, entry, alloc>> /\ lock \in Sweeps /\ lock' = NoOne
  BY FundFacts DEF LockExpire, SweepInv
<1>2. \A q \in Sweeps \ lost : run[q].at # "idle" => q = lock
  BY DEF SweepInv, Owned
<1>3. run[lock].at # "idle" => lost' = lost \cup {lock} /\ late' = Unmarked(lock)
  BY DEF LockExpire
<1>4. Undisturbed({})
  BY <1>1, <1>2, <1>3 DEF Undisturbed, LockExpire
<1>5. Marking
  BY <1>1, <1>2, <1>3 DEF Marking, Unmarked
<1> QED BY <1>1, <1>4, <1>5, RestMoves

LEMMA SweepLockSafe ==
    ASSUME SweepInv, [Next]_vars, NEW r \in Sweeps, SweepLock(r)
    PROVE  SweepInv'
<1> DEFINE v == [run[r] EXCEPT !.at = "read"]
<1>1. run[r] \in Run /\ run' = [run EXCEPT ![r] = v] /\ entry' = entry /\ run[r].at = "idle"
      /\ lock = NoOne /\ lock' = r /\ lost' = lost \ {r}
  BY FundFacts DEF SweepInv, SweepLock
<1>2. v.at = "read" /\ v.set = run[r].set
  BY <1>1 DEF Run
<1> HIDE DEF v
<1>3. Undisturbed({r})
  BY <1>1, FundAssumption DEF Undisturbed, SweepInv, Owned
<1>4. Marking
  BY <1>1, NotMarking
<1> QED BY <1>1, <1>2, <1>3, <1>4, CallMoves DEF SweepInv, ChargedFirst

\* What a sweep reads is due, and no sweep that keeps its lock has paid it.
LEMMA DueIsFresh ==
    ASSUME SweepInv, NEW r \in Sweeps \ lost, run[r].at = "read"
    PROVE  \A a \in AutoRefs \ late : entry[a] \cap Due = {}
<1>1. \A q \in Sweeps \ lost : run[q].at # "mark"
  BY OneOwner
<1> QED BY <1>1 DEF SweepInv, Settled, Due

LEMMA SweepReadSafe ==
    ASSUME SweepInv, [Next]_vars, NEW r \in Sweeps, SweepRead(r)
    PROVE  SweepInv'
<1>1. run[r] \in Run /\ run[r].at = "read" /\ UNCHANGED <<entry, lock, lost, late>>
  BY FundFacts DEF SweepInv, SweepRead
<1>2. CASE At(r, "release")
  <2> DEFINE v == [run[r] EXCEPT !.at = "release"]
  <2>1. v.at = "release" /\ v.set = run[r].set /\ run' = [run EXCEPT ![r] = v]
    BY <1>1, <1>2 DEF Run
  <2> HIDE DEF v
  <2>2. Marking
    BY <1>1, <2>1, NotMarking
  <2> QED BY <1>1, <2>1, <2>2, LockStays, CallMoves DEF SweepInv, ChargedFirst
<1>3. CASE run' = [run EXCEPT ![r].at = "check", ![r].set = Due]
  <2> DEFINE v == [[run[r] EXCEPT !.at = "check"] EXCEPT !.set = Due]
  <2>1. v.at = "check" /\ v.set = Due /\ run' = [run EXCEPT ![r] = v]
    BY <1>1, <1>3 DEF Run
  <2> HIDE DEF v
  <2>2. Marking
    BY <1>1, <2>1, NotMarking
  <2>3. \A i \in Due : fee[i] > 0
    BY FundFacts DEF Due, SweepInv, ChargedFirst
  <2>4. r \notin lost => \A a \in AutoRefs \ late' : entry[a] \cap v.set = {}
    BY <1>1, <2>1, DueIsFresh
  <2> QED BY <1>1, <2>1, <2>2, <2>3, <2>4, LockStays, CallMoves
<1> QED BY <1>2, <1>3 DEF SweepRead

LEMMA SweepReleaseSafe ==
    ASSUME SweepInv, [Next]_vars, NEW r \in Sweeps, SweepRelease(r)
    PROVE  SweepInv'
<1>1. run[r] \in Run /\ run[r].at = "release" /\ UNCHANGED <<entry, lock, lost, late>>
  BY FundFacts DEF SweepInv, SweepRelease
<1>2. CASE At(r, "delete")
  <2> DEFINE v == [run[r] EXCEPT !.at = "delete"]
  <2>1. v.at = "delete" /\ v.set = run[r].set /\ run' = [run EXCEPT ![r] = v]
    BY <1>1, <1>2 DEF Run
  <2> HIDE DEF v
  <2>2. Marking
    BY <1>1, <2>1, NotMarking
  <2> QED BY <1>1, <2>1, <2>2, LockStays, CallMoves DEF SweepInv, ChargedFirst
<1>3. CASE run' = [run EXCEPT ![r] = NoRun]
  <2>1. NoRun.at = "idle" /\ NoRun.set = {}
    BY DEF NoRun
  <2>2. Marking
    BY <1>1, <1>3, NotMarking
  <2> QED BY <1>1, <1>3, <2>1, <2>2, LockStays, CallMoves
<1> QED BY <1>2, <1>3 DEF SweepRelease

LEMMA SweepDeleteSafe ==
    ASSUME SweepInv, [Next]_vars, NEW r \in Sweeps, SweepDelete(r)
    PROVE  SweepInv'
<1> DEFINE robbed == {lock} \ {r, NoOne}
<1>1. /\ run[r].at = "delete" /\ entry' = entry /\ lock' = NoOne
      /\ lost' = lost \cup robbed /\ run' = [run EXCEPT ![r] = NoRun]
      /\ robbed # {} => late' = Unmarked(lock)
  BY DEF SweepDelete
<1>2. \A q \in Sweeps \ (lost \cup {r}) : run[q].at # "idle" => q \in robbed /\ q = lock
  BY FundAssumption DEF SweepInv, Owned
<1>3. Undisturbed({r})
  BY <1>1, <1>2 DEF Undisturbed
<1>4. Marking
  BY <1>1, <1>2 DEF Marking, Unmarked
<1>5. NoRun.at = "idle" /\ NoRun.set = {}
  BY DEF NoRun
<1> QED BY <1>1, <1>3, <1>4, <1>5, CallMoves

\* A call that leaves is idle, or a sweep about to release its lock.
LEMMA LeaveSafe ==
    ASSUME SweepInv, [Next]_vars, NEW r \in Calls, run[r].at # "idle",
           run[r].at # "mark" \/ (\A i \in run[r].set : alloc'[i] = "disbursed"),
           Leave(r), UNCHANGED <<entry, lock, lost, late>>
    PROVE  SweepInv'
<1> DEFINE at == IF r \in Sweeps THEN "release" ELSE "idle"
           v == [NoRun EXCEPT !.at = at]
<1>1. v.at = at /\ v.set = {} /\ run' = [run EXCEPT ![r] = v]
  BY DEF NoRun
<1>2. at \in {"idle", "release"} /\ (r \in Sweeps => at = "release")
  OBVIOUS
<1> HIDE DEF v, at
<1>3. run'[r] = v /\ \A q \in Calls \ {r} : run'[q] = run[q]
  BY <1>1, RunStep, FundFacts DEF SweepInv
<1>4. Marking
  BY <1>3 DEF Marking
<1> QED BY <1>1, <1>2, <1>4, LockStays, CallMoves

\* A call that goes on with what it has read.
LEMMA OnwardSafe ==
    ASSUME SweepInv, [Next]_vars, NEW r \in Calls, run[r].at \in {"check", "look"},
           NEW v, run' = [run EXCEPT ![r] = v], v.set = run[r].set,
           v.at \in {"look", "post", "mark"},
           r \in Admins /\ v.at \in {"post", "mark"} => v.ref \notin AutoRefs,
           UNCHANGED <<entry, lock, lost, late>>
    PROVE  SweepInv'
<1>1. Marking
  BY NotMarking
<1>2. r \in Sweeps \ lost' => \A a \in AutoRefs \ late' : entry[a] \cap v.set = {}
  BY DEF SweepInv, Fresh
<1> QED BY <1>1, <1>2, LockStays, CallMoves DEF SweepInv, ChargedFirst

LEMMA CheckSafe ==
    ASSUME SweepInv, [Next]_vars, NEW r \in Calls, Check(r)
    PROVE  SweepInv'
<1>1. run[r] \in Run /\ run[r].at = "check" /\ UNCHANGED <<entry, lock, lost, late>>
  BY FundFacts DEF SweepInv, Check
<1>2. CASE Leave(r)
  BY <1>1, <1>2, LeaveSafe
<1>3. CASE At(r, "look")
  <2> DEFINE v == [run[r] EXCEPT !.at = "look"]
  <2>1. v.at = "look" /\ v.set = run[r].set /\ run' = [run EXCEPT ![r] = v]
    BY <1>1, <1>3 DEF Run
  <2> HIDE DEF v
  <2> QED BY <1>1, <2>1, OnwardSafe
<1> QED BY <1>2, <1>3 DEF Check

LEMMA LookSafe ==
    ASSUME SweepInv, [Next]_vars, NEW r \in Calls, NEW f \in Refs, Look(r, f)
    PROVE  SweepInv'
<1>1. run[r] \in Run /\ run[r].at = "look" /\ UNCHANGED <<entry, lock, lost, late>>
  BY FundFacts DEF SweepInv, Look
<1>2. CASE Leave(r)
  BY <1>1, <1>2, LeaveSafe
<1>3. r \in Admins => f \notin AutoRefs
  BY FundAssumption DEF Look, RefFor
<1>4. ASSUME NEW at \in {"post", "mark"}, NEW there \in BOOLEAN,
             run' = [run EXCEPT ![r] = [@ EXCEPT !.at = at, !.ref = f, !.again = there]]
      PROVE  SweepInv'
  <2> DEFINE v == [[[run[r] EXCEPT !.at = at] EXCEPT !.ref = f] EXCEPT !.again = there]
  <2>1. /\ v.at = at /\ v.set = run[r].set /\ v.ref = f
        /\ run' = [run EXCEPT ![r] = v]
    BY <1>1, <1>4 DEF Run
  <2> HIDE DEF v
  <2> QED BY <1>1, <1>3, <2>1, OnwardSafe
<1> QED BY <1>2, <1>4 DEF Look

\* The entry of a sweep that keeps its lock pays for what no other has paid.
LEMMA PostSafe ==
    ASSUME SweepInv, [Next]_vars, NEW r \in Calls, Post(r)
    PROVE  SweepInv'
<1> DEFINE f == run[r].ref
<1>1. /\ run[r] \in Run /\ run[r].at = "post" /\ f \in Refs
      /\ UNCHANGED <<lock, lost, alloc, fee>>
      /\ entry \in [Refs -> SUBSET Installments]
  BY FundFacts DEF SweepInv, Post
<1>2. CASE entry[f] # {}
  BY <1>1, <1>2, LeaveSafe DEF Post
<1>3. CASE entry[f] = {}
  <2> DEFINE v == [run[r] EXCEPT !.at = "mark"]
  <2>1. /\ v.at = "mark" /\ v.set = run[r].set /\ v.ref = f
        /\ run' = [run EXCEPT ![r] = v]
    BY <1>1, <1>3 DEF Run, Post
  <2> HIDE DEF v
  <2>2. run'[r] = v /\ \A q \in Calls \ {r} : run'[q] = run[q]
    BY <2>1, RunStep, FundFacts DEF SweepInv
  <2>3. /\ entry'[f] = run[r].set
        /\ \A g \in Refs \ {f} : entry'[g] = entry[g]
    BY <1>1, <1>3 DEF Post
  <2>4. late \subseteq late' /\ (r \in lost => f \in late')
    BY <1>3 DEF Post
  <2>5. f \in AutoRefs \ late' => r \in Sweeps \ lost
    BY <1>1, <2>4 DEF SweepInv, Given
  <2>6. FundInv' /\ Owned' /\ Given' /\ ChargedFirst'
    <3>1. FundInv'
      BY FundInvKept DEF SweepInv
    <3>2. Owned'
      BY <1>1, <2>2 DEF SweepInv, Owned
    <3>3. Given'
      BY <1>1, <2>1, <2>2 DEF SweepInv, Given
    <3>4. ChargedFirst'
      BY <1>1, <2>1, <2>2 DEF SweepInv, ChargedFirst
    <3> QED BY <3>1, <3>2, <3>3, <3>4
  <2>7. Fresh'
    <3> SUFFICES ASSUME NEW q \in Sweeps \ lost', run'[q].at \in {"check", "look", "post"},
                        NEW a \in AutoRefs \ late'
                 PROVE  entry'[a] \cap run'[q].set = {}
      BY DEF Fresh
    <3>1. q # r /\ run'[q] = run[q] /\ q \in Sweeps \ lost
      BY <1>1, <2>1, <2>2
    <3>2. a # f
      BY <1>1, <2>5, <3>1, OneOwner
    <3> QED BY <2>3, <2>4, <3>1, <3>2 DEF SweepInv, Fresh
  <2>8. Settled'
    <3> SUFFICES ASSUME NEW a \in AutoRefs \ late'
                 PROVE  \/ \E q \in Sweeps \ lost' : /\ run'[q].at = "mark" /\ run'[q].ref = a
                                                     /\ entry'[a] \subseteq run'[q].set
                        \/ \A i \in entry'[a] : alloc'[i] = "disbursed"
      BY DEF Settled
    <3>1. CASE a = f
      BY <1>1, <2>1, <2>2, <2>3, <2>5, <3>1
    <3>2. CASE a # f
      <4>1. entry'[a] = entry[a]
        BY <2>3, <3>2
      <4> QED BY <1>1, <2>2, <2>4, <4>1 DEF SweepInv, Settled
    <3> QED BY <3>1, <3>2
  <2>9. SweepsDisburseOnce'
    <3>1. f \in AutoRefs \ late' => \A b \in AutoRefs \ late : entry[b] \cap run[r].set = {}
      BY <1>1, <2>5 DEF SweepInv, Fresh
    <3> SUFFICES ASSUME NEW a \in AutoRefs \ late', NEW b \in AutoRefs \ late', a # b
                 PROVE  entry'[a] \cap entry'[b] = {}
      BY DEF SweepsDisburseOnce
    <3>2. CASE a = f
      BY <2>3, <2>4, <3>1, <3>2
    <3>3. CASE b = f
      BY <2>3, <2>4, <3>1, <3>3
    <3>4. CASE a # f /\ b # f
      BY <2>3, <2>4, <3>4 DEF SweepInv, SweepsDisburseOnce
    <3> QED BY <3>2, <3>3, <3>4
  <2> QED BY <2>6, <2>7, <2>8, <2>9 DEF SweepInv
<1> QED BY <1>2, <1>3

LEMMA MarkSafe ==
    ASSUME SweepInv, [Next]_vars, NEW r \in Calls, Mark(r)
    PROVE  SweepInv'
<1>1. run[r].set \subseteq Installments
  BY FundFacts DEF SweepInv
<1>2. \A i \in run[r].set : alloc'[i] = "disbursed"
  BY <1>1 DEF Mark
<1> QED BY <1>2, LeaveSafe DEF Mark

LEMMA DieSafe ==
    ASSUME SweepInv, [Next]_vars, NEW r \in Calls, Die(r)
    PROVE  SweepInv'
<1>1. /\ run' = [run EXCEPT ![r] = NoRun] /\ late' = Unmarked(r)
      /\ UNCHANGED <<entry, lock, lost>>
  BY DEF Die
<1>2. run'[r] = NoRun /\ \A q \in Calls \ {r} : run'[q] = run[q]
  BY <1>1, RunStep, FundFacts DEF SweepInv
<1>3. Marking
  BY <1>1, <1>2 DEF Marking, Unmarked
<1>4. NoRun.at = "idle" /\ NoRun.set = {}
  BY DEF NoRun
<1> QED BY <1>1, <1>3, <1>4, LockStays, CallMoves

LEMMA AdminReadSafe ==
    ASSUME SweepInv, [Next]_vars, NEW r \in Admins, NEW S \in SUBSET Installments,
           AdminRead(r, S)
    PROVE  SweepInv'
<1> DEFINE T == {i \in S : alloc[i] \in {"new", "due"}}
           v == [[run[r] EXCEPT !.at = "check"] EXCEPT !.set = T]
<1>1. run[r] \in Run /\ run[r].at = "idle" /\ UNCHANGED <<entry, lock, lost, late>>
  BY FundFacts DEF SweepInv, AdminRead
<1>2. v.at = "check" /\ v.set = T /\ run' = [run EXCEPT ![r] = v]
  BY <1>1 DEF Run, AdminRead
<1>3. \A i \in T : fee[i] > 0
  BY FundFacts DEF SweepInv, ChargedFirst
<1> HIDE DEF v, T
<1>4. r \in Calls /\ r \notin Sweeps
  BY FundAssumption
<1>5. Marking
  BY <1>1, <1>2, <1>4, NotMarking
<1> QED BY <1>1, <1>2, <1>3, <1>4, <1>5, LockStays, CallMoves

\* The steps that do not disburse: fees, ages, reversals and periods.
LEMMA BesideSafe ==
    ASSUME SweepInv, [Next]_vars, UNCHANGED <<run, entry, lock, lost, late>>
    PROVE  SweepInv'
<1>1. Marking
  BY DEF Marking
<1> QED BY <1>1, LockStays, RestMoves

LEMMA SweepInvKept == SweepInv /\ [Next]_vars => SweepInv'
<1> SUFFICES ASSUME SweepInv, [Next]_vars PROVE SweepInv'
  OBVIOUS
<1>1. \/ UNCHANGED <<run, entry, lock, lost, late>>
      \/ LockExpire
      \/ \E r \in Sweeps : \/ SweepLock(r) \/ SweepRead(r)
                           \/ SweepRelease(r) \/ SweepDelete(r)
      \/ \E r \in Calls : \/ Check(r) \/ Post(r) \/ Mark(r) \/ Die(r)
                          \/ \E f \in Refs : Look(r, f)
      \/ \E r \in Admins, S \in SUBSET Installments : AdminRead(r, S)
  BY DEF Next, vars, ClosePeriod, ReopenPeriod, Tick, ComeOfAge, ReverseRead, ReverseCommit,
         SweepStep, Disburse, BillStep, ApplyRead, ApplyPost, ApplyConflict
<1> QED BY <1>1, BesideSafe, LockExpireSafe, SweepLockSafe, SweepReadSafe,
           SweepReleaseSafe, SweepDeleteSafe, CheckSafe, PostSafe, MarkSafe, DieSafe,
           LookSafe, AdminReadSafe

\* Two sweeps never pay for one allocation under generated references, unless
\* one of them lost its lock or died before it marked what it had paid: as long
\* as a sweep has the lock, what the others paid is marked when it reads
\* (charity_service.py:183-257).
THEOREM SweptOnce == Spec => [](TypeOK /\ SweepsDisburseOnce)
<1>1. SweepInv => TypeOK /\ SweepsDisburseOnce
  BY DEF SweepInv, FundInv
<1> QED BY <1>1, SweepInvStarts, SweepInvKept, PTL DEF Spec

----------------------------------------------------------------------------
(* Side by side with the billing sweep                                     *)

BillingRun == [at : {"idle", "find", "fee", "ask", "compare", "delete"},
               found : SUBSET Dues, left : SUBSET Dues, saw : SUBSET Dues,
               fresh : BOOLEAN]

LEMMA NoBillingTyped ==
    NoBilling \in BillingRun /\ [NoBilling EXCEPT !.at = "compare"] \in BillingRun
BY DEF NoBilling, BillingRun

LEMMA BillingStarts == BillingInit => BillingTypeOK
BY NoBillingTyped DEF BillingInit, BillingTypeOK, BillingRun

LEMMA HandledTyped ==
    ASSUME BillingTypeOK, NEW b \in BillingRuns, NEW i \in Dues, NEW fresh \in BOOLEAN,
           Handled(b, i, fresh)
    PROVE  biller' \in [BillingRuns -> BillingRun]
<1>1. biller \in [BillingRuns -> BillingRun] /\ biller[b] \in BillingRun
  BY DEF BillingTypeOK, BillingRun
<1> DEFINE left == biller[b].left \ {i}
           at == IF biller[b].left = {i} THEN "ask" ELSE "fee"
           either == biller[b].fresh \/ fresh
<1>3. /\ left \in SUBSET Dues /\ at \in {"ask", "fee"} /\ either \in BOOLEAN
  BY <1>1 DEF BillingRun
<1>4. biller' = [biller EXCEPT
         ![b].left = left, ![b].fresh = either, ![b].at = at,
         ![b].saw = IF fresh \/ biller[b].left = {i} THEN {} ELSE @]
  BY DEF Handled
<1> HIDE DEF left, at, either
<1> QED BY <1>1, <1>3, <1>4 DEF BillingRun

LEMMA BillerTyped ==
    ASSUME BillingTypeOK, NEW b \in BillingRuns, TakeLock(b) \/ BillerStep(b) \/ RunEnds(b)
    PROVE  biller' \in [BillingRuns -> BillingRun]
<1>1. biller \in [BillingRuns -> BillingRun] /\ biller[b] \in BillingRun
      /\ unpaid \subseteq Dues /\ waived \subseteq Dues
  BY DEF BillingTypeOK, BillingRun
<1>2. \A at \in {"find", "delete"} :
         BillerAt(b, at) => biller' \in [BillingRuns -> BillingRun]
  BY <1>1 DEF BillerAt, BillingRun
<1>3. CASE TakeLock(b)
  BY <1>2, <1>3 DEF TakeLock
<1>4. CASE FindOverdue(b)
  BY <1>1, <1>4 DEF FindOverdue, Overdue, BillingRun
<1>5. CASE CompareOwner(b)
  BY <1>1, <1>5, NoBillingTyped DEF CompareOwner, BillingRun
<1>6. CASE DeleteLock(b)
  BY <1>1, <1>6, NoBillingTyped DEF DeleteLock
<1>7. CASE \E i \in Dues : ChargeFee(b, i) \/ RefuseFee(b, i)
  BY <1>7, HandledTyped DEF ChargeFee, RefuseFee
<1>8. ASSUME NEW i \in Dues, AskCollection(b, i)
      PROVE  biller' \in [BillingRuns -> BillingRun]
  BY <1>1, <1>8 DEF AskCollection, BillingRun
<1>9. CASE RunEnds(b)
  BY <1>1, <1>9, NoBillingTyped DEF RunEnds
<1> QED BY <1>3, <1>4, <1>5, <1>6, <1>7, <1>8, <1>9 DEF BillerStep

LEMMA BillingKept == BillingTypeOK /\ [BillingNext]_billingVars => BillingTypeOK'
<1> SUFFICES ASSUME BillingTypeOK, [BillingNext]_billingVars PROVE BillingTypeOK'
  OBVIOUS
<1>1. biller' \in [BillingRuns -> BillingRun]
  <2>1. CASE UNCHANGED biller
    BY <2>1 DEF BillingTypeOK, BillingRun
  <2>2. CASE \E b \in BillingRuns : TakeLock(b) \/ BillerStep(b) \/ RunEnds(b)
    BY <2>2, BillerTyped
  <2> QED BY <2>1, <2>2 DEF BillingNext, billingVars, FallDue, Collect, Waive,
                            LockOutlived, LockTimesOut
<1>2. /\ ahead' \subseteq Dues /\ unpaid' \subseteq Dues /\ waived' \subseteq Dues
      /\ charged' \subseteq Dues /\ asked' \subseteq Dues
      /\ billerLock' \in BillingRuns \cup {NoBiller} /\ stops' \in Nat
  <2> USE DEF BillingTypeOK
  <2>1. ASSUME NEW b \in BillingRuns, TakeLock(b) \/ BillerStep(b) \/ RunEnds(b)
        PROVE  /\ UNCHANGED <<ahead, unpaid, waived>>
               /\ charged' \subseteq Dues /\ asked' \subseteq Dues
               /\ billerLock' \in BillingRuns \cup {NoBiller} /\ stops' \in Nat
    <3>1. CASE TakeLock(b)
      BY <3>1 DEF TakeLock
    <3>2. CASE FindOverdue(b) \/ CompareOwner(b) \/ DeleteLock(b)
      BY <3>2 DEF FindOverdue, CompareOwner, DeleteLock
    <3>3. ASSUME NEW i \in Dues, ChargeFee(b, i)
          PROVE  /\ UNCHANGED <<ahead, unpaid, waived, asked, billerLock, stops>>
                 /\ charged' \subseteq Dues
      <4>1. UNCHANGED <<ahead, unpaid, waived, asked, billerLock, stops>>
            /\ (charged' = charged \/ charged' = charged \cup {i})
        BY <3>3, Zenon DEF ChargeFee
      <4> QED BY <4>1
    <3>4. ASSUME NEW i \in Dues, RefuseFee(b, i)
          PROVE  UNCHANGED <<ahead, unpaid, waived, charged, asked, billerLock, stops>>
      BY <3>4, Zenon DEF RefuseFee
    <3>5. ASSUME NEW i \in Dues, AskCollection(b, i)
          PROVE  /\ UNCHANGED <<ahead, unpaid, waived, charged, billerLock, stops>>
                 /\ asked' \subseteq Dues
      BY <3>5 DEF AskCollection
    <3>6. CASE RunEnds(b)
      BY <3>6 DEF RunEnds, BillingStop
    <3> QED BY <2>1, <3>1, <3>2, <3>3, <3>4, <3>5, <3>6 DEF BillerStep
  <2>2. ASSUME NEW i \in Dues, FallDue(i) \/ Collect(i) \/ Waive(i)
        PROVE  /\ ahead' \subseteq Dues /\ unpaid' \subseteq Dues /\ waived' \subseteq Dues
               /\ asked' \subseteq Dues /\ UNCHANGED <<charged, billerLock, stops>>
    BY <2>2 DEF FallDue, Collect, Waive
  <2>3. CASE LockOutlived \/ LockTimesOut
    BY <2>3 DEF LockOutlived, LockTimesOut, BillingStop
  <2>4. CASE UNCHANGED billingVars
    BY <2>4 DEF billingVars
  <2> QED BY <2>1, <2>2, <2>3, <2>4 DEF BillingNext
<1> QED BY <1>1, <1>2 DEF BillingTypeOK, BillingRun

\* Both sweeps keep their types, whichever of them moves, and the properties
\* proved of the charity fund hold of the two side by side.
THEOREM LedgerTypeCorrect == LedgerSpec => [](LedgerTypeOK /\ SweepsDisburseOnce)
<1>1. LedgerInit => SweepInv /\ BillingTypeOK
  BY SweepInvStarts, BillingStarts DEF LedgerInit
<1>2. [LedgerNext]_ledgerVars => [Next]_vars /\ [BillingNext]_billingVars
  BY Zenon DEF LedgerNext, CharityMoves, BillingMoves, ledgerVars
<1>3. SweepInv /\ BillingTypeOK => LedgerTypeOK /\ SweepsDisburseOnce
  BY DEF SweepInv, FundInv, LedgerTypeOK
<1> QED BY <1>1, <1>2, <1>3, SweepInvKept, BillingKept, PTL DEF LedgerSpec
=============================================================================
