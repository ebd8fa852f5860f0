---------------------------- MODULE OfficeProofs ----------------------------
(***************************************************************************)
(* For any set of calls and installments: two pay_installment requests     *)
(* never both charge one installment.  The argument is about the row lock  *)
(* alone; the Redis key plays no part in it.  Nobody who holds that lock   *)
(* waits for another request, and no request goes round.                   *)
(*                                                                         *)
(* For any number of administrators, operators, extractions and sweeps: a  *)
(* cached negative never outlives the announcement of a change of the list *)
(* it was found with, an entry of the human queue that is worked on or     *)
(* closed names its operator and has a verdict, and each alert is raised   *)
(* once.                                                                   *)
(***************************************************************************)
EXTENDS MCBackOffice, TLAPS, FiniteSetTheorems

----------------------------------------------------------------------------
(* Instalments                                                             *)

InCharge(p) == pc[p] \in {"verified", "charged"}

\* A request between its re-check and its commit holds the row lock.
LockHeld == \A p \in PayCalls : InCharge(p) => rowLock[Target[p]] = p

\* While it does, no pay_installment request has recorded a success.
NoneRecorded ==
    \A p, q \in PayCalls :
        InCharge(p) /\ Target[q] = Target[p] => txn[q] # "success"

\* A charge of a pay_installment request is recorded, about to be, or lost.
ChargeTraced ==
    \A p \in PayCalls :
        charges[p] > 0 =>
            \/ pc[p] \in {"charged", "crashed"}
            \/ txn[p] = "success"

\* At most one success per installment comes from pay_installment.
OneRecorded ==
    \A p, q \in PayCalls :
        txn[p] = "success" /\ txn[q] = "success" /\ Target[p] = Target[q]
            => p = q

PayInv == LockHeld /\ NoneRecorded /\ ChargeTraced /\ OneRecorded

IInv == TypeOK /\ PayInv

USE DEF PC, TxnStatus

LEMMA TypeStarts == Init => TypeOK
BY CallsAssumption DEF Init, TypeOK, Calls

LEMMA TypeKept == TypeOK /\ [Next]_vars => TypeOK'
<1> SUFFICES ASSUME TypeOK, [Next]_vars PROVE TypeOK'
  OBVIOUS
<1> USE CallsAssumption DEF TypeOK, Goto
<1>1. ASSUME NEW p \in PayCalls, PayStep(p) PROVE TypeOK'
  <2> p \in Calls /\ Target[p] \in Installments
    BY DEF Calls
  <2>1. CASE PayRead(p)    BY <2>1 DEF PayRead
  <2>2. CASE PayLock(p)    BY <2>2 DEF PayLock
  <2>3. CASE PayVerify(p)  BY <2>3 DEF PayVerify
  <2>4. CASE PayCharge(p)  BY <2>4 DEF PayCharge, Charge
  <2>5. CASE PayDecline(p) BY <2>5 DEF PayDecline, Unlocked
  <2>6. CASE PayCommit(p)  BY <2>6 DEF PayCommit, Unlocked
  <2>7. CASE PayRelease(p) BY <2>7 DEF PayRelease
  <2> QED BY <1>1, <2>1, <2>2, <2>3, <2>4, <2>5, <2>6, <2>7 DEF PayStep
<1>2. ASSUME NEW c \in SweepCalls, SweepStep(c) PROVE TypeOK'
  <2> c \in Calls /\ Target[c] \in Installments
    BY DEF Calls
  <2>1. CASE SweepCheck(c)  BY <2>1 DEF SweepCheck
  <2>2. CASE SweepCharge(c) BY <2>2 DEF SweepCharge, Charge
  <2>3. CASE SweepCommit(c) BY <2>3 DEF SweepCommit
  <2>4. CASE Publish(c)     BY <2>4 DEF Publish
  <2>5. CASE AutoDecline(c) BY <2>5 DEF AutoDecline
  <2>6. CASE TriggerDecline(c) BY <2>6 DEF TriggerDecline
  <2> QED BY <1>2, <2>1, <2>2, <2>3, <2>4, <2>5, <2>6 DEF SweepStep
<1>3. ASSUME NEW j \in Jobs, JobStep(j) PROVE TypeOK'
  <2> j \in Calls /\ Target[j] \in Installments
    BY DEF Calls
  <2>1. CASE Submit(j)     BY <2>1 DEF Submit
  <2>2. CASE Enqueue(j)    BY <2>2 DEF Enqueue
  <2>3. CASE JobTake(j)    BY <2>3 DEF JobTake
  <2>4. CASE JobCharge(j)  BY <2>4 DEF JobCharge, Charge
  <2>5. CASE JobDecline(j) BY <2>5 DEF JobDecline
  <2>6. CASE JobCommit(j)  BY <2>6 DEF JobCommit
  <2>7. CASE JobError(j)   BY <2>7 DEF JobError
  <2>8. CASE Publish(j)    BY <2>8 DEF Publish
  <2> QED
    BY <1>3, <2>1, <2>2, <2>3, <2>4, <2>5, <2>6, <2>7, <2>8 DEF JobStep
<1>4. ASSUME NEW c \in Calls, Crash(c) PROVE TypeOK'
  BY <1>4 DEF Crash
<1>5. ASSUME NEW i \in Installments, LockExpire(i) \/ ManualPay(i)
      PROVE TypeOK'
  BY <1>5 DEF LockExpire, ManualPay
<1>6. CASE UNCHANGED vars
  BY <1>6 DEF vars
<1> QED BY <1>1, <1>2, <1>3, <1>4, <1>5, <1>6 DEF Next

\* No step of pay_installment and its competitors writes a value outside its
\* column's domain (payments.py, payment_initiate_consumer.py).
THEOREM TypeCorrect == Spec => []TypeOK
BY TypeStarts, TypeKept, PTL DEF Spec

\* Two pay_installment requests for one installment never both make a charge
\* that is kept, for any number of requests, sweep calls, jobs, crashes and
\* lock expiries (payments.py 330-415).
THEOREM PayOnce == Spec => []PayChargesOnce
<1>1. Init => IInv
  BY CallsAssumption DEF Init, IInv, TypeOK, PayInv, LockHeld, NoneRecorded,
     ChargeTraced, OneRecorded, InCharge, Calls
<1>2. TypeOK /\ TypeOK' /\ PayInv /\ [Next]_vars => PayInv'
  <2> SUFFICES ASSUME TypeOK, TypeOK', PayInv, [Next]_vars PROVE PayInv'
    OBVIOUS
  <2> USE CallsAssumption DEF TypeOK, Goto, PayInv, LockHeld, NoneRecorded,
          ChargeTraced, OneRecorded, InCharge
  <2>0. PayCalls \subseteq Calls
    BY DEF Calls
  <2>1. ASSUME NEW p \in PayCalls, PayStep(p) PROVE PayInv'
    <3>1. CASE PayRead(p)    BY <2>0, <3>1 DEF PayRead
    <3>2. CASE PayLock(p)    BY <2>0, <3>2 DEF PayLock
    <3>3. CASE PayVerify(p)
      BY <2>0, <3>3 DEF PayVerify, RowFree, Recorded
    <3>4. CASE PayCharge(p)  BY <2>0, <3>4 DEF PayCharge, Charge
    <3>5. CASE PayDecline(p) BY <2>0, <3>5 DEF PayDecline, Unlocked
    <3>6. CASE PayCommit(p)  BY <2>0, <3>6 DEF PayCommit, Unlocked
    <3>7. CASE PayRelease(p) BY <2>0, <3>7 DEF PayRelease
    <3> QED BY <2>1, <3>1, <3>2, <3>3, <3>4, <3>5, <3>6, <3>7 DEF PayStep
  <2>2. ASSUME NEW c \in SweepCalls, SweepStep(c) PROVE PayInv'
    <3>0. c \notin PayCalls /\ c \in Calls
      BY DEF Calls
    <3>1. CASE SweepCheck(c)  BY <2>0, <3>0, <3>1 DEF SweepCheck
    <3>2. CASE SweepCharge(c) BY <2>0, <3>0, <3>2 DEF SweepCharge, Charge
    <3>3. CASE SweepCommit(c) BY <2>0, <3>0, <3>3 DEF SweepCommit
    <3>4. CASE Publish(c)     BY <2>0, <3>0, <3>4 DEF Publish
    <3>5. CASE AutoDecline(c) BY <2>0, <3>0, <3>5 DEF AutoDecline
    <3>6. CASE TriggerDecline(c) BY <2>0, <3>0, <3>6 DEF TriggerDecline
    <3> QED BY <2>2, <3>1, <3>2, <3>3, <3>4, <3>5, <3>6 DEF SweepStep
  <2>3. ASSUME NEW j \in Jobs, JobStep(j) PROVE PayInv'
    <3>0. j \notin PayCalls /\ j \in Calls
      BY DEF Calls
    <3>1. CASE Submit(j)     BY <2>0, <3>0, <3>1 DEF Submit
    <3>2. CASE Enqueue(j)    BY <2>0, <3>0, <3>2 DEF Enqueue
    <3>3. CASE JobTake(j)    BY <2>0, <3>0, <3>3 DEF JobTake
    <3>4. CASE JobCharge(j)  BY <2>0, <3>0, <3>4 DEF JobCharge, Charge
    <3>5. CASE JobDecline(j) BY <2>0, <3>0, <3>5 DEF JobDecline
    <3>6. CASE JobCommit(j)  BY <2>0, <3>0, <3>6 DEF JobCommit
    <3>7. CASE JobError(j)   BY <2>0, <3>0, <3>7 DEF JobError
    <3>8. CASE Publish(j)    BY <2>0, <3>0, <3>8 DEF Publish
    <3> QED
      BY <2>3, <3>1, <3>2, <3>3, <3>4, <3>5, <3>6, <3>7, <3>8 DEF JobStep
  <2>4. ASSUME NEW c \in Calls, Crash(c) PROVE PayInv'
    BY <2>0, <2>4 DEF Crash
  <2>5. ASSUME NEW i \in Installments, LockExpire(i) \/ ManualPay(i)
        PROVE PayInv'
    BY <2>0, <2>5 DEF LockExpire, ManualPay
  <2>6. CASE UNCHANGED vars
    BY <2>6 DEF vars
  <2> QED BY <2>1, <2>2, <2>3, <2>4, <2>5, <2>6 DEF Next
<1>3. TypeOK /\ PayInv => PayChargesOnce
  BY DEF TypeOK, PayInv, PayChargesOnce, Kept, LockHeld, NoneRecorded,
     ChargeTraced, OneRecorded, InCharge, Calls
<1> QED BY <1>1, <1>2, <1>3, TypeCorrect, PTL DEF Spec, IInv

\* What can keep a request waiting: the row of its installment, held by a
\* pay_installment request that waits for nothing but its gateway.
RowHolderRuns ==
    \A i \in Installments :
        rowLock[i] # None =>
            /\ rowLock[i] \in PayCalls /\ Target[rowLock[i]] = i
            /\ InCharge(rowLock[i])

\* The steps that a request has left at most.
StepsLeft ==
    [idle |-> 6, checked |-> 5, locked |-> 4, verified |-> 3, charged |-> 2,
     releasing |-> 1, committed |-> 1, done |-> 0, crashed |-> 0]

\* A request is where a request can be, never where only a job is.
AtItsPlace == \A c \in PayCalls \cup SweepCalls : pc[c] \in DOMAIN StepsLeft

\* A request moves towards its end and at most once for each step it has left.
OnlyForward ==
    \A c \in PayCalls \cup SweepCalls :
        pc'[c] # pc[c] =>
            /\ {pc[c], pc'[c]} \subseteq DOMAIN StepsLeft
            /\ StepsLeft[pc'[c]] < StepsLeft[pc[c]]

\* A row is released by the step that takes its holder out of the charge.
LEMMA HolderKept == TypeOK /\ RowHolderRuns /\ [Next]_vars => RowHolderRuns'
<1> SUFFICES ASSUME TypeOK, RowHolderRuns, [Next]_vars PROVE RowHolderRuns'
  OBVIOUS
<1> USE CallsAssumption DEF TypeOK, Goto, RowHolderRuns, InCharge
<1>0. PayCalls \subseteq Calls
  BY DEF Calls
<1>1. ASSUME NEW p \in PayCalls, PayStep(p) PROVE RowHolderRuns'
  <2>0. p \in Calls /\ Target[p] \in Installments
    BY <1>0
  <2>1. CASE PayRead(p)    BY <1>0, <2>0, <2>1 DEF PayRead
  <2>2. CASE PayLock(p)    BY <1>0, <2>0, <2>2 DEF PayLock
  <2>3. CASE PayVerify(p)  BY <1>0, <2>0, <2>3 DEF PayVerify
  <2>4. CASE PayCharge(p)  BY <1>0, <2>0, <2>4 DEF PayCharge
  <2>5. CASE PayDecline(p) BY <1>0, <2>0, <2>5 DEF PayDecline, Unlocked
  <2>6. CASE PayCommit(p)  BY <1>0, <2>0, <2>6 DEF PayCommit, Unlocked
  <2>7. CASE PayRelease(p) BY <1>0, <2>0, <2>7 DEF PayRelease
  <2> QED BY <1>1, <2>1, <2>2, <2>3, <2>4, <2>5, <2>6, <2>7 DEF PayStep
<1>2. ASSUME NEW c \in SweepCalls, SweepStep(c) PROVE RowHolderRuns'
  <2>0. c \notin PayCalls /\ c \in Calls
    BY DEF Calls
  <2>1. UNCHANGED rowLock /\ \E l \in PC : Goto(c, l)
    BY <1>2 DEF SweepStep, SweepCheck, SweepCharge, SweepCommit, Publish,
                AutoDecline, TriggerDecline
  <2> QED BY <1>0, <2>0, <2>1
<1>3. ASSUME NEW j \in Jobs, JobStep(j) PROVE RowHolderRuns'
  <2>0. j \notin PayCalls /\ j \in Calls
    BY DEF Calls
  <2>1. UNCHANGED rowLock /\ \E l \in PC : Goto(j, l)
    BY <1>3 DEF JobStep, Submit, Enqueue, JobTake, JobCharge, JobDecline,
                JobCommit, JobError, Publish
  <2> QED BY <1>0, <2>0, <2>1
<1>4. ASSUME NEW c \in Calls, Crash(c) PROVE RowHolderRuns'
  BY <1>0, <1>4 DEF Crash
<1>5. ASSUME NEW i \in Installments, LockExpire(i) \/ ManualPay(i)
      PROVE RowHolderRuns'
  BY <1>5 DEF LockExpire, ManualPay
<1>6. CASE UNCHANGED vars
  BY <1>6 DEF vars
<1> QED BY <1>1, <1>2, <1>3, <1>4, <1>5, <1>6 DEF Next

\* No step takes a request back.
LEMMA StepForward == TypeOK /\ AtItsPlace /\ [Next]_vars => OnlyForward
<1> SUFFICES ASSUME TypeOK, AtItsPlace, [Next]_vars, NEW c \in PayCalls \cup SweepCalls,
                    pc'[c] # pc[c]
             PROVE  /\ {pc[c], pc'[c]} \subseteq DOMAIN StepsLeft
                    /\ StepsLeft[pc'[c]] < StepsLeft[pc[c]]
  BY DEF OnlyForward
<1> USE CallsAssumption DEF TypeOK, Goto, StepsLeft, AtItsPlace
<1>0. PayCalls \subseteq Calls /\ SweepCalls \subseteq Calls /\ c \in Calls
  BY DEF Calls
<1>1. ASSUME NEW p \in PayCalls, PayStep(p)
      PROVE  /\ {pc[c], pc'[c]} \subseteq DOMAIN StepsLeft
             /\ StepsLeft[pc'[c]] < StepsLeft[pc[c]]
  <2>0. p = c
    BY <1>0, <1>1 DEF PayStep, PayRead, PayLock, PayVerify, PayCharge,
                      PayDecline, PayCommit, PayRelease
  <2> QED BY <1>0, <1>1, <2>0 DEF PayStep, PayRead, PayLock, PayVerify,
             PayCharge, PayDecline, PayCommit, PayRelease
<1>2. ASSUME NEW s \in SweepCalls, SweepStep(s)
      PROVE  /\ {pc[c], pc'[c]} \subseteq DOMAIN StepsLeft
             /\ StepsLeft[pc'[c]] < StepsLeft[pc[c]]
  <2>0. s = c
    BY <1>0, <1>2 DEF SweepStep, SweepCheck, SweepCharge, SweepCommit, Publish,
                      AutoDecline, TriggerDecline
  <2> QED BY <1>0, <1>2, <2>0 DEF SweepStep, SweepCheck, SweepCharge,
             SweepCommit, Publish, AutoDecline, TriggerDecline
<1>3. ASSUME NEW j \in Jobs, JobStep(j) PROVE FALSE
  <2>0. j # c /\ j \in Calls
    BY <1>0 DEF Calls
  <2> QED BY <1>0, <1>3, <2>0 DEF JobStep, Submit, Enqueue, JobTake, JobCharge,
             JobDecline, JobCommit, JobError, Publish
<1>4. ASSUME NEW d \in Calls, Crash(d)
      PROVE  /\ {pc[c], pc'[c]} \subseteq DOMAIN StepsLeft
             /\ StepsLeft[pc'[c]] < StepsLeft[pc[c]]
  BY <1>0, <1>4 DEF Crash
<1>5. ASSUME NEW i \in Installments, LockExpire(i) \/ ManualPay(i) PROVE FALSE
  BY <1>5 DEF LockExpire, ManualPay
<1>6. CASE UNCHANGED vars
  BY <1>6 DEF vars
<1> QED BY <1>1, <1>2, <1>3, <1>4, <1>5, <1>6 DEF Next

\* Nobody waits on a request that waits: whoever holds the row of an
\* installment is a pay_installment request between its re-check and its
\* commit, however requests crash, are refused or lose their Redis lock
\* (payments.py 341-415).
THEOREM RowsReleased == Spec => []RowHolderRuns
<1>1. Init => RowHolderRuns
  BY DEF Init, RowHolderRuns
<1> QED BY <1>1, HolderKept, TypeCorrect, PTL DEF Spec

\* A request never goes round: each step of it leaves it fewer, whatever the
\* other requests, jobs and expiries do (payments.py 330-415, 816-905).
THEOREM RequestsAdvance == Spec => [][OnlyForward]_vars
<1>1. Init => AtItsPlace
  BY DEF Init, AtItsPlace, StepsLeft, Calls
<1>2. AtItsPlace /\ TypeOK /\ [Next]_vars => AtItsPlace'
  BY StepForward DEF OnlyForward, AtItsPlace
<1>3. AtItsPlace /\ TypeOK /\ [Next]_vars => [OnlyForward]_vars
  BY StepForward
<1> QED BY <1>1, <1>2, <1>3, TypeCorrect, PTL DEF Spec

----------------------------------------------------------------------------
(* The list of what may not be sold                                        *)

USE DEF listVars

KeeperRecord == [at : {"idle", "upsert", "delete", "announce"},
                 add : SUBSET Words, saw : Categories]

CheckerRecord(version) ==
    [at : {"idle", "cache", "list", "url", "note", "refuse", "store"},
     text : Texts \cup {{}}, cached : BOOLEAN, version : 0..version,
     saw : Categories]

\* An extraction that passed the list has a text without its words, unless
\* the list was changed since or another version counts by now.
PassedIsCurrent ==
    ~unannounced =>
        \A c \in Checkers :
            /\ checker[c].at \in {"url", "note"} /\ checker[c].cached
            /\ checker[c].version = catalogVersion
            => checker[c].text \cap list.words = {}

\* What is noted is of a page.
NotesPage ==
    \A c \in Checkers :
        checker[c].at \notin {"idle", "refuse", "store"} => checker[c].text \in Texts

\* Only an extraction with a cache notes what it found.
NotesCached == \A c \in Checkers : checker[c].at = "note" => checker[c].cached

ListInv ==
    /\ ProhibitionTypeOK /\ PassedIsCurrent /\ NotesPage /\ NotesCached
    /\ NegativeIsCurrent

LEMMA CategoryFacts ==
    /\ NoList \in Categories
    /\ \A r \in Categories : r.gen \in Nat /\ r.words \subseteq Words
    /\ \A r \in Categories : r.gen = 0 <=> r = NoList
    /\ \A g \in Nat \ {0}, W \in SUBSET Words :
          /\ [gen |-> g, words |-> W] \in Categories
          /\ [gen |-> g, words |-> W].gen = g
    /\ \A r \in Categories, W \in SUBSET Words :
          r # NoList => /\ [r EXCEPT !.words = W] \in Categories
                        /\ [r EXCEPT !.words = W].gen = r.gen
BY DEF Categories, NoList

LEMMA KeeperStays ==
    ASSUME ListInv, NEW k \in Keepers,
           \/ \E words \in {{}} \cup {{w} : w \in Words} : ReadCategory(k, words)
           \/ CommitUpsert(k) \/ CommitDelete(k) \/ Invalidate(k)
           \/ SyncCategories(k) \/ KeeperDies(k)
    PROVE  keeper' \in [Keepers -> KeeperRecord]
<1>1. AtEase \in KeeperRecord /\ [AtEase EXCEPT !.at = "announce"] \in KeeperRecord
  BY CategoryFacts DEF AtEase, KeeperRecord
<1>2. keeper \in [Keepers -> KeeperRecord] /\ list \in Categories
  BY DEF ListInv, ProhibitionTypeOK, KeeperRecord
<1>3. ASSUME NEW words \in {{}} \cup {{w} : w \in Words}, ReadCategory(k, words)
      PROVE  keeper' \in [Keepers -> KeeperRecord]
  <2>1. words \in SUBSET Words
    OBVIOUS
  <2>2. [at |-> IF words = {} THEN "delete" ELSE "upsert", add |-> words,
         saw |-> list] \in KeeperRecord
    BY <1>2, <2>1 DEF KeeperRecord
  <2> QED BY <1>2, <1>3, <2>2 DEF ReadCategory, MoveKeeper
<1>4. CASE CommitUpsert(k) \/ CommitDelete(k) \/ Invalidate(k)
  BY <1>1, <1>2, <1>4 DEF CommitUpsert, CommitDelete, Invalidate, MoveKeeper
<1>5. CASE SyncCategories(k) \/ KeeperDies(k)
  BY <1>1, <1>2, <1>5 DEF SyncCategories, KeeperDies, MoveKeeper
<1> QED BY <1>3, <1>4, <1>5

LEMMA ListStays ==
    ASSUME ListInv, [ProhibitionNext]_prohibitionVars
    PROVE  list' \in Categories /\ made' \in Nat /\ list'.gen <= made'
<1>1. list \in Categories /\ made \in Nat /\ list.gen <= made
  BY DEF ListInv, ProhibitionTypeOK
<1>2. keeper \in [Keepers -> KeeperRecord]
  BY DEF ListInv, ProhibitionTypeOK, KeeperRecord
<1>3. ASSUME NEW k \in Keepers, CommitUpsert(k)
      PROVE  list' \in Categories /\ made' \in Nat /\ list'.gen <= made'
  <2>1. keeper[k].add \in SUBSET Words /\ keeper[k].saw \in Categories
    BY <1>2 DEF KeeperRecord
  <2>2. CASE keeper[k].saw = NoList /\ list = NoList /\ made' = made + 1
              /\ list' = [gen |-> made + 1, words |-> keeper[k].add]
    <3>1. made + 1 \in Nat \ {0}
      BY <1>1
    <3> QED BY <3>1, <2>1, <2>2, CategoryFacts
  <2>3. CASE /\ keeper[k].saw # NoList /\ keeper[k].saw.gen = list.gen
             /\ made' = made
             /\ list' = [list EXCEPT !.words =
                          IF keeper[k].add \subseteq keeper[k].saw.words
                          THEN list.words
                          ELSE keeper[k].saw.words \cup keeper[k].add]
    <3> DEFINE W == IF keeper[k].add \subseteq keeper[k].saw.words THEN list.words
                    ELSE keeper[k].saw.words \cup keeper[k].add
    <3>1. list # NoList
      BY <1>1, <2>1, <2>3, CategoryFacts
    <3>2. W \in SUBSET Words
      BY <1>1, <2>1, CategoryFacts
    <3>3. list' = [list EXCEPT !.words = W]
      BY <2>3
    <3> HIDE DEF W
    <3> QED BY <1>1, <2>3, <3>1, <3>2, <3>3, CategoryFacts
  <2>4. CASE UNCHANGED <<list, made>>
    BY <1>1, <2>4
  <2> QED BY <1>3, <2>2, <2>3, <2>4 DEF CommitUpsert, Written
<1>4. ASSUME NEW k \in Keepers, CommitDelete(k)
      PROVE  list' \in Categories /\ made' \in Nat /\ list'.gen <= made'
  BY <1>1, <1>4, CategoryFacts DEF CommitDelete, Written
<1>5. CASE UNCHANGED <<list, made>>
  BY <1>1, <1>5
<1> QED
  BY <1>3, <1>4, <1>5
  DEF ProhibitionNext, prohibitionVars, ReadCategory, Invalidate, SyncCategories,
      KeeperDies, ReadVersion, LookInCache, MatchText, CheckUrl, NoteNegative,
      NegativeExpires, Refuse, StoreProduct, ProhibitProduct, DeleteProduct,
      BlockMerchant

ListerStep ==
    \E k \in Keepers :
        \/ \E words \in {{}} \cup {{w} : w \in Words} : ReadCategory(k, words)
        \/ CommitUpsert(k) \/ CommitDelete(k) \/ Invalidate(k)
        \/ SyncCategories(k) \/ KeeperDies(k)

\* The steps of administrators keep what was noted and found, under a version
\* that only grows.
LEMMA ListerFrame ==
    ASSUME ListInv, ListerStep
    PROVE  /\ UNCHANGED <<checker, negative, goods>>
           /\ catalogVersion' \in Nat /\ unannounced' \in BOOLEAN
           /\ \/ catalogVersion' = catalogVersion /\ unannounced' = TRUE
              \/ /\ catalogVersion' = catalogVersion /\ list' = list
                 /\ unannounced' = unannounced
              \/ catalogVersion' = catalogVersion + 1
<1>1. catalogVersion \in Nat /\ unannounced \in BOOLEAN
  BY DEF ListInv, ProhibitionTypeOK
<1>2. ASSUME NEW k \in Keepers, NEW words, ReadCategory(k, words)
      PROVE  UNCHANGED <<checker, negative, goods, catalogVersion, unannounced, list>>
  BY <1>2 DEF ReadCategory
<1>3. ASSUME NEW k \in Keepers, SyncCategories(k) \/ KeeperDies(k)
      PROVE  UNCHANGED <<checker, negative, goods, catalogVersion, unannounced, list>>
  BY <1>3 DEF SyncCategories, KeeperDies
<1>4. ASSUME NEW k \in Keepers, CommitUpsert(k) \/ CommitDelete(k)
      PROVE  /\ UNCHANGED <<checker, negative, goods, catalogVersion>>
             /\ unannounced' = TRUE \/ UNCHANGED <<unannounced, list>>
  BY <1>4 DEF CommitUpsert, CommitDelete, Written
<1>5. ASSUME NEW k \in Keepers, Invalidate(k)
      PROVE  /\ UNCHANGED <<checker, negative, goods>> /\ unannounced' = FALSE
             /\ catalogVersion' = catalogVersion + 1
  BY <1>5 DEF Invalidate
<1>6. UNCHANGED <<checker, negative, goods>>
  BY <1>2, <1>3, <1>4, <1>5 DEF ListerStep
<1>7. \/ catalogVersion' = catalogVersion /\ unannounced' = TRUE
      \/ /\ catalogVersion' = catalogVersion /\ list' = list
         /\ unannounced' = unannounced
      \/ catalogVersion' = catalogVersion + 1 /\ unannounced' = FALSE
  BY <1>2, <1>3, <1>4, <1>5 DEF ListerStep
<1>8. unannounced' \in BOOLEAN
  BY ONLY <1>1, <1>7
<1>9. catalogVersion' \in Nat
  BY ONLY <1>1, <1>7
<1> QED BY <1>6, <1>7, <1>8, <1>9

LEMMA ListerKeeps ==
    ASSUME ListInv, ListerStep
    PROVE  ListInv'
<1>1. /\ catalogVersion \in Nat /\ catalogVersion' \in Nat
      /\ catalogVersion <= catalogVersion'
      /\ 0..catalogVersion \subseteq 0..catalogVersion'
  <2>1. catalogVersion \in Nat
    BY DEF ListInv, ProhibitionTypeOK
  <2>2. catalogVersion' = catalogVersion \/ catalogVersion' = catalogVersion + 1
    BY ListerFrame, Zenon
  <2> QED BY ONLY <2>1, <2>2
<1>2. [ProhibitionNext]_prohibitionVars
  BY DEF ListerStep, ProhibitionNext
<1>3. keeper' \in [Keepers -> KeeperRecord]
  BY KeeperStays DEF ListerStep
<1>4. negative \subseteq [version : 0..catalogVersion, text : Texts]
  BY DEF ListInv, ProhibitionTypeOK
<1>5. checker \in [Checkers -> CheckerRecord(catalogVersion)]
  BY DEF ListInv, ProhibitionTypeOK, CheckerRecord
<1>6. negative' \subseteq [version : 0..catalogVersion', text : Texts]
  BY <1>1, <1>4, ListerFrame
<1>7. checker' \in [Checkers -> CheckerRecord(catalogVersion')]
  <2>1. CheckerRecord(catalogVersion) \subseteq CheckerRecord(catalogVersion')
    BY <1>1 DEF CheckerRecord
  <2> QED BY <1>5, <2>1, ListerFrame
<1>8. ProhibitionTypeOK'
  BY <1>1, <1>2, <1>3, <1>6, <1>7, ListerFrame, ListStays
  DEF ListInv, ProhibitionTypeOK, KeeperRecord, CheckerRecord
<1>9. PassedIsCurrent' /\ NotesPage' /\ NotesCached' /\ NegativeIsCurrent'
  <2>1. CASE unannounced'
    BY <2>1, ListerFrame DEF ListInv, PassedIsCurrent, NotesPage, NotesCached, NegativeIsCurrent
  <2>2. CASE /\ catalogVersion' = catalogVersion /\ list' = list
             /\ unannounced' = unannounced
    BY <2>2, ListerFrame DEF ListInv, PassedIsCurrent, NotesPage, NotesCached, NegativeIsCurrent
  <2>3. CASE catalogVersion' = catalogVersion + 1
    <3>1. \A n \in negative' : n.version # catalogVersion'
      BY <1>1, <1>4, <2>3, ListerFrame
    <3>2. \A c \in Checkers : checker'[c].version # catalogVersion'
      BY <1>1, <1>5, <2>3, ListerFrame DEF CheckerRecord
    <3> QED BY <3>1, <3>2, ListerFrame
            DEF ListInv, PassedIsCurrent, NotesPage, NotesCached, NegativeIsCurrent
  <2> QED BY <2>1, <2>2, <2>3, ListerFrame
<1> QED BY <1>8, <1>9 DEF ListInv

\* What a step of an extraction leaves it at.
CheckerGoes(c, v) ==
    /\ v \in CheckerRecord(catalogVersion)
    /\ checker' = [checker EXCEPT ![c] = v]
    /\ v.at \notin {"idle", "refuse", "store"} => v.text \in Texts
    /\ v.at = "note" => v.cached
    /\ v.at \in {"url", "note"} /\ v.cached /\ v.version = catalogVersion
          /\ ~unannounced
       => v.text \cap list.words = {}

LEMMA CheckerKeeps ==
    ASSUME ListInv, NEW c \in Checkers, NEW v, CheckerGoes(c, v),
           UNCHANGED <<listVars, negative>>,
           goods' \in {"none", "offered", "banned", "deleted"}
    PROVE  ListInv'
<1>1. checker \in [Checkers -> CheckerRecord(catalogVersion)]
  BY DEF ListInv, ProhibitionTypeOK, CheckerRecord
<1>2. /\ checker' \in [Checkers -> CheckerRecord(catalogVersion)]
      /\ checker'[c] = v
      /\ \A d \in Checkers \ {c} : checker'[d] = checker[d]
  BY <1>1 DEF CheckerGoes
<1>3. ProhibitionTypeOK'
  BY <1>2 DEF ListInv, ProhibitionTypeOK, CheckerRecord
<1>4. PassedIsCurrent' /\ NotesPage' /\ NotesCached' /\ NegativeIsCurrent'
  BY <1>2 DEF ListInv, PassedIsCurrent, NotesPage, NotesCached, NegativeIsCurrent, CheckerGoes
<1> QED BY <1>3, <1>4 DEF ListInv

LEMMA AnswerGoes ==
    ASSUME ListInv, NEW c \in Checkers, NEW at \in {"idle", "refuse", "store"},
           checker' = [checker EXCEPT ![c] = [NotChecking EXCEPT !.at = at]]
    PROVE  CheckerGoes(c, [NotChecking EXCEPT !.at = at])
<1>1. NotChecking \in CheckerRecord(catalogVersion)
  BY CategoryFacts DEF ListInv, ProhibitionTypeOK, NotChecking, CheckerRecord
<1>2. /\ [NotChecking EXCEPT !.at = at] \in CheckerRecord(catalogVersion)
      /\ [NotChecking EXCEPT !.at = at].at = at
  BY <1>1 DEF CheckerRecord
<1> HIDE DEF NotChecking
<1> QED BY <1>2 DEF CheckerGoes

LEMMA CheckKeeps ==
    ASSUME ListInv, NEW c \in Checkers,
           \/ \E text \in Texts, cached \in BOOLEAN : ReadVersion(c, text, cached)
           \/ LookInCache(c) \/ MatchText(c) \/ CheckUrl(c)
           \/ Refuse(c) \/ StoreProduct(c)
    PROVE  ListInv'
<1>1. checker[c] \in CheckerRecord(catalogVersion) /\ catalogVersion \in Nat
      /\ list \in Categories
      /\ goods \in {"none", "offered", "banned", "deleted"}
  BY DEF ListInv, ProhibitionTypeOK, CheckerRecord
<1>2. checker[c].at \in {"cache", "list", "url", "note"} => checker[c].text \in Texts
  BY DEF ListInv, NotesPage
<1>a. /\ UNCHANGED <<listVars, negative>>
      /\ goods' \in {"none", "offered", "banned", "deleted"}
  BY <1>1 DEF ReadVersion, LookInCache, MatchText, CheckUrl, Refuse, StoreProduct
<1>3. ASSUME NEW text \in Texts, NEW cached \in BOOLEAN, ReadVersion(c, text, cached)
      PROVE  \E v : CheckerGoes(c, v)
  <2> DEFINE v == [at |-> IF cached THEN "cache" ELSE "list", text |-> text,
                   cached |-> cached, saw |-> NoList,
                   version |-> IF cached THEN catalogVersion ELSE 0]
  <2>1. v \in CheckerRecord(catalogVersion)
    BY <1>1, CategoryFacts DEF CheckerRecord
  <2>2. checker' = [checker EXCEPT ![c] = v]
    BY <1>3 DEF ReadVersion, MoveChecker
  <2>3. v.at \in {"cache", "list"} /\ v.text = text
    OBVIOUS
  <2> HIDE DEF v
  <2> QED BY <2>1, <2>2, <2>3 DEF CheckerGoes
<1>4. CASE LookInCache(c)
  <2>1. CASE Answers(c, "store")
    BY <2>1, AnswerGoes, CheckerKeeps, <1>a DEF Answers, MoveChecker
  <2>2. CASE MoveChecker(c, [checker[c] EXCEPT !.at = "list"])
    <3> DEFINE v == [checker[c] EXCEPT !.at = "list"]
    <3>1. CheckerGoes(c, v)
      BY <1>1, <1>2, <1>4, <2>2 DEF CheckerGoes, CheckerRecord, MoveChecker, LookInCache
    <3> QED BY <3>1, <1>a, CheckerKeeps
  <2> QED BY <1>4, <2>1, <2>2 DEF LookInCache
<1>5. CASE MatchText(c)
  <2>1. CASE Answers(c, "refuse")
    BY <2>1, AnswerGoes, CheckerKeeps, <1>a DEF Answers, MoveChecker
  <2>2. CASE /\ list.words \cap checker[c].text = {}
             /\ MoveChecker(c, [checker[c] EXCEPT !.saw = list, !.at = "url"])
    <3> DEFINE v == [checker[c] EXCEPT !.saw = list, !.at = "url"]
    <3>1. v \in CheckerRecord(catalogVersion) /\ v.text = checker[c].text
      BY <1>1 DEF CheckerRecord
    <3>2. CheckerGoes(c, v)
      BY <1>2, <1>5, <2>2, <3>1 DEF CheckerGoes, MoveChecker, MatchText
    <3> QED BY <3>2, <1>a, CheckerKeeps
  <2> QED BY <1>5, <2>1, <2>2 DEF MatchText
<1>6. CASE CheckUrl(c)
  <2>1. ASSUME NEW at \in {"refuse", "store"}, Answers(c, at)
        PROVE  ListInv'
    BY <2>1, AnswerGoes, CheckerKeeps, <1>a DEF Answers, MoveChecker
  <2>2. CASE /\ checker[c].cached
             /\ MoveChecker(c, [checker[c] EXCEPT !.at = "note", !.saw = NoList])
    <3> DEFINE v == [checker[c] EXCEPT !.at = "note", !.saw = NoList]
    <3>1. /\ v \in CheckerRecord(catalogVersion) /\ v.text = checker[c].text
          /\ v.version = checker[c].version /\ v.cached = checker[c].cached
          /\ v.at = "note"
      BY <1>1, CategoryFacts DEF CheckerRecord
    <3>2. checker[c].at = "url" /\ checker' = [checker EXCEPT ![c] = v]
      BY <1>6, <2>2 DEF MoveChecker, CheckUrl
    <3> HIDE DEF v
    <3>3. CheckerGoes(c, v)
      BY <1>2, <2>2, <3>1, <3>2 DEF ListInv, PassedIsCurrent, CheckerGoes
    <3> QED BY <3>3, <1>a, CheckerKeeps
  <2> QED BY <1>6, <2>1, <2>2 DEF CheckUrl
<1>7. CASE Refuse(c) \/ StoreProduct(c)
  <2>1. NotChecking \in CheckerRecord(catalogVersion) /\ NotChecking.at = "idle"
    BY <1>1, CategoryFacts DEF NotChecking, CheckerRecord
  <2>2. CheckerGoes(c, NotChecking)
    BY <1>7, <2>1 DEF CheckerGoes, Refuse, StoreProduct, MoveChecker
  <2> QED BY <2>2, <1>a, CheckerKeeps
<1> QED BY <1>3, <1>4, <1>5, <1>6, <1>7, <1>a, CheckerKeeps

LEMMA NoteKeeps ==
    ASSUME ListInv, NEW c \in Checkers, NoteNegative(c)
    PROVE  ListInv'
<1>1. checker[c] \in CheckerRecord(catalogVersion) /\ catalogVersion \in Nat
      /\ checker \in [Checkers -> CheckerRecord(catalogVersion)]
      /\ negative \subseteq [version : 0..catalogVersion, text : Texts]
  BY DEF ListInv, ProhibitionTypeOK, CheckerRecord
<1> DEFINE n == [version |-> checker[c].version, text |-> checker[c].text]
           v == [NotChecking EXCEPT !.at = "store"]
<1>2. checker[c].text \in Texts
  BY DEF ListInv, NotesPage, NoteNegative
<1>3. n \in [version : 0..catalogVersion, text : Texts]
  BY <1>1, <1>2 DEF CheckerRecord
<1>4. CheckerGoes(c, v)
  BY AnswerGoes DEF NoteNegative, Answers, MoveChecker
<1>5. /\ checker' \in [Checkers -> CheckerRecord(catalogVersion)]
      /\ checker'[c] = v /\ \A d \in Checkers \ {c} : checker'[d] = checker[d]
  BY <1>1, <1>4 DEF CheckerGoes
<1>6. negative' \subseteq negative \cup {n}
  BY DEF NoteNegative
<1>7. UNCHANGED <<listVars, goods>>
  BY DEF NoteNegative
<1>8. ProhibitionTypeOK'
  BY <1>1, <1>3, <1>5, <1>6, <1>7 DEF ListInv, ProhibitionTypeOK, CheckerRecord
<1>9. PassedIsCurrent' /\ NotesPage' /\ NotesCached'
  BY <1>4, <1>5, <1>7 DEF ListInv, PassedIsCurrent, NotesPage, NotesCached,
      CheckerGoes
<1>10. NegativeIsCurrent'
  <2>1. ~unannounced /\ checker[c].version = catalogVersion
          => checker[c].text \cap list.words = {}
    <3>1. checker[c].cached
      BY DEF ListInv, NotesCached, NoteNegative
    <3> QED BY <3>1 DEF ListInv, PassedIsCurrent, NoteNegative
  <2> QED BY <1>6, <1>7, <2>1 DEF ListInv, NegativeIsCurrent
<1> QED BY <1>8, <1>9, <1>10 DEF ListInv

\* An announced list agrees with every negative the cache answers with, however
\* many administrators, checks, crashes and expiries interleave
\* (prohibited_checker.py:52-104).
LEMMA ListInvKept == ListInv /\ [ProhibitionNext]_prohibitionVars => ListInv'
<1> SUFFICES ASSUME ListInv, [ProhibitionNext]_prohibitionVars PROVE ListInv'
  OBVIOUS
<1>1. CASE ListerStep
  BY <1>1, ListerKeeps
<1>2. ASSUME NEW c \in Checkers,
             \/ \E text \in Texts, cached \in BOOLEAN : ReadVersion(c, text, cached)
             \/ LookInCache(c) \/ MatchText(c) \/ CheckUrl(c)
             \/ Refuse(c) \/ StoreProduct(c)
      PROVE  ListInv'
  BY <1>2, CheckKeeps
<1>3. ASSUME NEW c \in Checkers, NoteNegative(c) PROVE ListInv'
  BY <1>3, NoteKeeps
<1>4. CASE /\ UNCHANGED <<listVars, checker>> /\ negative' \subseteq negative
           /\ goods' \in {"none", "offered", "banned", "deleted"}
  BY <1>4 DEF ListInv, ProhibitionTypeOK, PassedIsCurrent, NotesPage, NotesCached,
              NegativeIsCurrent
<1>5. CASE \/ \E n \in negative : NegativeExpires(n)
           \/ ProhibitProduct \/ DeleteProduct \/ BlockMerchant
           \/ UNCHANGED prohibitionVars
  <2>1. goods \in {"none", "offered", "banned", "deleted"}
    BY DEF ListInv, ProhibitionTypeOK
  <2> QED BY <1>4, <1>5, <2>1
          DEF NegativeExpires, ProhibitProduct, DeleteProduct, BlockMerchant,
              prohibitionVars
<1> QED BY <1>1, <1>2, <1>3, <1>5 DEF ProhibitionNext, ListerStep

LEMMA ListInvStarts == ProhibitionInit => ListInv
<1> SUFFICES ASSUME ProhibitionInit PROVE ListInv
  OBVIOUS
<1>1. list \in Categories /\ made = list.gen /\ made \in Nat
  BY CategoryFacts DEF ProhibitionInit
<1>2. AtEase \in KeeperRecord /\ NotChecking \in CheckerRecord(0)
      /\ NotChecking.at = "idle"
  BY CategoryFacts DEF AtEase, KeeperRecord, NotChecking, CheckerRecord
<1>3. /\ catalogVersion = 0 /\ keeper \in [Keepers -> KeeperRecord]
      /\ checker \in [Checkers -> CheckerRecord(catalogVersion)]
  BY <1>2 DEF ProhibitionInit
<1>4. ProhibitionTypeOK
  <2>1. unannounced \in BOOLEAN /\ negative = {}
    BY DEF ProhibitionInit
  <2> QED BY <1>1, <1>3, <2>1 DEF ProhibitionInit, ProhibitionTypeOK, KeeperRecord, CheckerRecord
<1> QED
  BY <1>2, <1>4
  DEF ListInv, ProhibitionInit, PassedIsCurrent, NotesPage, NotesCached,
      NegativeIsCurrent

\* No negative is read from the cache that was found with an older list than
\* the one whose change was announced, however additions, deletions, the sync
\* and the checks interleave (prohibited_checker.py:40-104).
THEOREM NegativesCurrent == ProhibitionSpec => [](ProhibitionTypeOK /\ NegativeIsCurrent)
<1>1. ListInv => ProhibitionTypeOK /\ NegativeIsCurrent
  BY DEF ListInv
<1> QED BY <1>1, ListInvStarts, ListInvKept, PTL DEF ProhibitionSpec

----------------------------------------------------------------------------
(* The human queue                                                         *)

\* What a request has read is of an entry that went on from there: nothing
\* returns to pending, to nobody or to no verdict.
Went(from, to) ==
    /\ from.status # "pending" => to.status # "pending"
    /\ from.to # Nobody => to.to # Nobody
    /\ from.verdict # "none" => to.verdict # "none"

Requests == [op : {"claim", "start", "resolve", "cancel"}, id : ItemIds,
             by : Operators, saw : Items]

\* A row as the handlers leave it.
Sound(row) ==
    /\ row \in Items
    /\ row.status # "pending" => row.to \in Operators
    /\ row.status \in Final => row.verdict # "none"

ItemsInv ==
    /\ \E n \in 0..MaxItems : DOMAIN items = 1..n
    /\ \A i \in DOMAIN items : Sound(items[i])
    /\ \A c \in Clients : client[c] # Resting =>
         /\ client[c] \in Requests /\ client[c].id \in DOMAIN items
         /\ Allowed(client[c].op, client[c].saw, client[c].by)
         /\ Went(client[c].saw, items[client[c].id])

AlertsInv ==
    /\ late \subseteq DOMAIN items /\ alerted \subseteq ItemIds
    /\ alerts \in [ItemIds -> Nat] /\ lapses \in [ItemIds -> Nat]
    /\ \A i \in ItemIds : alerts[i] = lapses[i] + (IF i \in alerted THEN 1 ELSE 0)
    /\ sweep \in [Sweeps -> SUBSET late]

QueueInv ==
    /\ failing \in OrderStatuses /\ shipped \in BOOLEAN
    /\ DOMAIN client = Clients /\ items = [i \in DOMAIN items |-> items[i]]
    /\ ItemsInv /\ AlertsInv

LEMMA NewSound == Sound(NewItem) /\ NewItem \in Items /\ Resting.op = "rest"
BY DEF Sound, NewItem, Items, ItemStatuses, Unresolved, Active, Final, Resting

LEMMA ReportKeeps ==
    ASSUME QueueInv, NEW i \in ItemIds, ReportFailed(i)
    PROVE  QueueInv'
<1> PICK n \in 0..MaxItems : DOMAIN items = 1..n
  BY DEF QueueInv, ItemsInv
<1>1. MaxItems \in Int /\ n \in Nat /\ n <= MaxItems
  BY QueueAssumption
<1>2. i = n + 1
  <2>1. Cardinality(1..n) = n
    BY <1>1, FS_Interval
  <2> QED BY <2>1 DEF ReportFailed
<1>3. DOMAIN items' = 1..(n + 1) /\ n + 1 \in 0..MaxItems
  BY <1>1, <1>2 DEF ReportFailed, ItemIds
<1>4. /\ items'[i] = NewItem /\ i \notin DOMAIN items
      /\ \A j \in DOMAIN items : j \in DOMAIN items' /\ items'[j] = items[j]
      /\ \A j \in DOMAIN items' : j = i \/ j \in DOMAIN items
  BY <1>1, <1>2 DEF ReportFailed
<1>5. UNCHANGED <<shipped, client, alertVars>> /\ failing' = "purchase_failed"
  BY DEF ReportFailed
<1>6. items' = [j \in DOMAIN items' |-> items'[j]]
  BY DEF ReportFailed
<1>7. ItemsInv'
  BY <1>3, <1>4, <1>5, NewSound DEF QueueInv, ItemsInv
<1>8. AlertsInv'
  BY <1>4, <1>5 DEF QueueInv, AlertsInv, alertVars
<1> QED BY <1>5, <1>6, <1>7, <1>8 DEF QueueInv, OrderStatuses

LEMMA ReadKeeps ==
    ASSUME QueueInv, NEW c \in Clients, NEW i \in DOMAIN items, NEW o \in Operators,
           NEW op \in {"claim", "start", "resolve", "cancel"}, ReadItem(c, op, i, o)
    PROVE  QueueInv'
<1> DEFINE q == [op |-> op, id |-> i, by |-> o, saw |-> items[i]]
<1>1. i \in ItemIds /\ items[i] \in Items
  BY QueueAssumption DEF QueueInv, ItemsInv, Sound, ItemIds
<1>2. q \in Requests /\ Allowed(q.op, q.saw, q.by) /\ Went(q.saw, items[q.id])
  BY <1>1 DEF Requests, ReadItem, Went
<1>3. /\ client'[c] = q /\ DOMAIN client' = Clients
      /\ \A d \in Clients \ {c} : client'[d] = client[d]
      /\ UNCHANGED <<failing, shipped, items, alertVars>>
  BY DEF ReadItem, QueueInv
<1>4. q.id = i
  OBVIOUS
<1> HIDE DEF q
<1>5. ItemsInv'
  BY <1>2, <1>3, <1>4 DEF QueueInv, ItemsInv
<1> QED BY <1>3, <1>5 DEF QueueInv, AlertsInv, alertVars

\* The row a commit writes is sound and went on from the one it found.
LEMMA CommitSound ==
    ASSUME QueueInv, NEW c \in Clients, CommitItem(c)
    PROVE  LET i == client[c].id IN
           /\ i \in DOMAIN items /\ Sound(items'[i]) /\ Went(items[i], items'[i])
           /\ DOMAIN items' = DOMAIN items
           /\ \A j \in DOMAIN items \ {i} : items'[j] = items[j]
<1> DEFINE q == client[c]
           row == items[q.id]
<1>1. q # Resting
  BY NewSound DEF CommitItem
<1>2. /\ q \in Requests /\ q.id \in DOMAIN items
      /\ Allowed(q.op, q.saw, q.by) /\ Went(q.saw, row)
      /\ Sound(row)
  BY <1>1 DEF QueueInv, ItemsInv
<1>3. ASSUME NEW new, items' = [items EXCEPT ![q.id] = new],
             Sound(new), Went(row, new)
      PROVE  /\ Sound(items'[q.id]) /\ Went(row, items'[q.id])
             /\ DOMAIN items' = DOMAIN items
             /\ \A j \in DOMAIN items \ {q.id} : items'[j] = items[j]
  BY <1>2, <1>3 DEF QueueInv
<1>4. /\ row.status \in ItemStatuses /\ row.to \in Operators \cup {Nobody}
      /\ row.verdict \in {"none", "resolved", "cancelled"}
      /\ q.by \in Operators
  BY <1>2 DEF Sound, Items, Requests
<1>5. CASE q.op = "claim"
  <2> DEFINE new == [row EXCEPT !.status = "claimed", !.to = q.by]
  <2>1. items' = [items EXCEPT ![q.id] = new]
    BY <1>5 DEF CommitItem
  <2>2. Sound(new) /\ Went(row, new)
    BY <1>2, <1>4, QueueAssumption
    DEF Sound, Went, Items, ItemStatuses, Unresolved, Active, Final
  <2> QED BY <1>2, <1>3, <2>1, <2>2
<1>6. CASE q.op = "start"
  <2> DEFINE new == [row EXCEPT !.status = IF q.saw.status = "claimed"
                                           THEN "in_progress" ELSE row.status]
  <2>1. items' = [items EXCEPT ![q.id] = new]
    BY <1>6 DEF CommitItem
  <2>2. q.saw.status \in Active /\ row.status # "pending"
    BY <1>2, <1>6 DEF Allowed, Went, Active
  <2>3. Sound(new) /\ Went(row, new)
    BY <1>2, <1>4, <2>2
    DEF Sound, Went, Items, ItemStatuses, Unresolved, Active, Final
  <2> QED BY <1>2, <1>3, <2>1, <2>3
<1>7. CASE q.op = "resolve"
  <2> DEFINE new == [row EXCEPT !.status = "resolved", !.verdict = "resolved"]
  <2>1. items' = [items EXCEPT ![q.id] = new]
    BY <1>7 DEF CommitItem
  <2>2. q.saw.status \in Active /\ row.status # "pending"
    BY <1>2, <1>7 DEF Allowed, Went, Active
  <2>3. Sound(new) /\ Went(row, new)
    BY <1>2, <1>4, <2>2
    DEF Sound, Went, Items, ItemStatuses, Unresolved, Active, Final
  <2> QED BY <1>2, <1>3, <2>1, <2>3
<1>8. CASE q.op = "cancel"
  <2> DEFINE new == [row EXCEPT !.status = "cancelled",
                       !.verdict = IF q.saw.verdict = "cancelled"
                                   THEN row.verdict ELSE "cancelled",
                       !.to = IF q.saw.to = Nobody THEN q.by ELSE row.to]
  <2>1. items' = [items EXCEPT ![q.id] = new]
    BY <1>8 DEF CommitItem
  <2>2. /\ q.saw.to # Nobody => row.to \in Operators
        /\ q.saw.verdict = "cancelled" => row.verdict # "none"
    BY <1>2, <1>4 DEF Went
  <2>3. Sound(new) /\ Went(row, new)
    BY <1>2, <1>4, <2>2, QueueAssumption
    DEF Sound, Went, Items, ItemStatuses, Unresolved, Active, Final
  <2> QED BY <1>2, <1>3, <2>1, <2>3
<1> QED BY <1>2, <1>5, <1>6, <1>7, <1>8 DEF Requests

LEMMA CommitKeeps ==
    ASSUME QueueInv, NEW c \in Clients, CommitItem(c)
    PROVE  QueueInv'
<1> DEFINE i == client[c].id
<1>1. /\ i \in DOMAIN items /\ Sound(items'[i]) /\ Went(items[i], items'[i])
      /\ DOMAIN items' = DOMAIN items
      /\ \A j \in DOMAIN items \ {i} : items'[j] = items[j]
  BY CommitSound
<1>2. items' = [j \in DOMAIN items' |-> items'[j]]
  <2>1. \E new : items' = [items EXCEPT ![i] = new]
    BY Zenon DEF CommitItem
  <2> QED BY <2>1
<1>3. /\ client'[c] = Resting /\ DOMAIN client' = Clients
      /\ \A d \in Clients \ {c} : client'[d] = client[d]
      /\ UNCHANGED <<failing, shipped, alertVars>>
  BY DEF CommitItem, Leave, QueueInv
<1>4. ASSUME NEW d \in Clients, client'[d] # Resting
      PROVE  /\ client'[d] \in Requests /\ client'[d].id \in DOMAIN items'
             /\ Allowed(client'[d].op, client'[d].saw, client'[d].by)
             /\ Went(client'[d].saw, items'[client'[d].id])
  <2>1. client'[d] = client[d] /\ client[d] # Resting
    BY <1>3, <1>4
  <2>2. /\ client[d] \in Requests /\ client[d].id \in DOMAIN items
        /\ Allowed(client[d].op, client[d].saw, client[d].by)
        /\ Went(client[d].saw, items[client[d].id])
    BY <2>1 DEF QueueInv, ItemsInv
  <2>3. Went(client[d].saw, items'[client[d].id])
    <3>1. CASE client[d].id = i
      BY <1>1, <2>2, <3>1 DEF Went
    <3>2. CASE client[d].id # i
      BY <1>1, <2>2, <3>2
    <3> QED BY <3>1, <3>2
  <2> QED BY <1>1, <2>1, <2>2, <2>3
<1>5. \A j \in DOMAIN items' : Sound(items'[j])
  BY <1>1 DEF QueueInv, ItemsInv
<1>6. ItemsInv'
  BY <1>1, <1>4, <1>5 DEF QueueInv, ItemsInv
<1> QED BY <1>1, <1>2, <1>3, <1>6 DEF QueueInv, AlertsInv, alertVars

LEMMA AlertsKeep ==
    ASSUME QueueInv, UNCHANGED <<failing, shipped, items, client>>,
           \/ \E i \in DOMAIN items : PassDeadline(i) \/ AlertLapses(i)
           \/ \E w \in Sweeps : FindBreaches(w)
           \/ \E w \in Sweeps, i \in DOMAIN items : Alert(w, i)
    PROVE  QueueInv'
<1>1. DOMAIN items \subseteq ItemIds
  BY QueueAssumption DEF QueueInv, ItemsInv, ItemIds
<1>2. AlertsInv
  BY DEF QueueInv
<1>3. ASSUME NEW i \in DOMAIN items, PassDeadline(i) PROVE AlertsInv'
  BY <1>2, <1>3 DEF AlertsInv, PassDeadline
<1>4. ASSUME NEW i \in DOMAIN items, AlertLapses(i) PROVE AlertsInv'
  <2>1. /\ lapses' \in [ItemIds -> Nat] /\ lapses'[i] = lapses[i] + 1
        /\ \A j \in ItemIds \ {i} : lapses'[j] = lapses[j]
    BY <1>1, <1>2, <1>4 DEF AlertsInv, AlertLapses
  <2> QED BY <1>1, <1>2, <1>4, <2>1 DEF AlertsInv, AlertLapses
<1>5. ASSUME NEW w \in Sweeps, FindBreaches(w) PROVE AlertsInv'
  BY <1>2, <1>5 DEF AlertsInv, FindBreaches
<1>6. ASSUME NEW w \in Sweeps, NEW i \in DOMAIN items, Alert(w, i) PROVE AlertsInv'
  <2>1. sweep' \in [Sweeps -> SUBSET late]
    BY <1>2, <1>6 DEF AlertsInv, Alert
  <2>2. /\ alerts' \in [ItemIds -> Nat]
        /\ alerts'[i] = IF i \in alerted THEN alerts[i] ELSE alerts[i] + 1
        /\ \A j \in ItemIds \ {i} : alerts'[j] = alerts[j]
    BY <1>1, <1>2, <1>6 DEF AlertsInv, Alert
  <2> QED BY <1>1, <1>2, <1>6, <2>1, <2>2 DEF AlertsInv, Alert
<1>7. AlertsInv'
  BY <1>3, <1>4, <1>5, <1>6
<1> QED BY <1>7 DEF QueueInv, ItemsInv

LEMMA QueueInvKept == QueueInv /\ [QueueNext]_queueVars => QueueInv'
<1> SUFFICES ASSUME QueueInv, [QueueNext]_queueVars PROVE QueueInv'
  OBVIOUS
<1>1. CASE ReportSucceeded
  BY <1>1 DEF ReportSucceeded, QueueInv, ItemsInv, AlertsInv, alertVars, OrderStatuses
<1>2. CASE RegisterShipment
  BY <1>2 DEF RegisterShipment, QueueInv, ItemsInv, AlertsInv, alertVars, OrderStatuses
<1>3. ASSUME NEW s \in OrderStatuses, OverrideStatus(s) PROVE QueueInv'
  BY <1>3 DEF OverrideStatus, QueueInv, ItemsInv, AlertsInv, alertVars
<1>4. ASSUME NEW i \in ItemIds, ReportFailed(i) PROVE QueueInv'
  BY <1>4, ReportKeeps
<1>5. ASSUME NEW i \in DOMAIN items, NEW c \in Clients, NEW o \in Operators,
             NEW op \in {"claim", "start", "resolve", "cancel"}, ReadItem(c, op, i, o)
      PROVE  QueueInv'
  BY <1>5, ReadKeeps
<1>6. ASSUME NEW c \in Clients, CommitItem(c) PROVE QueueInv'
  BY <1>6, CommitKeeps
<1>7. ASSUME NEW c \in Clients, ClientDies(c) PROVE QueueInv'
  <2>1. /\ client'[c] = Resting /\ DOMAIN client' = Clients
        /\ \A d \in Clients \ {c} : client'[d] = client[d]
        /\ UNCHANGED <<failing, shipped, items, alertVars>>
    BY <1>7 DEF ClientDies, Leave, QueueInv
  <2>2. ItemsInv'
    BY <2>1 DEF QueueInv, ItemsInv
  <2> QED BY <2>1, <2>2 DEF QueueInv, AlertsInv, alertVars
<1>8. ASSUME \/ \E i \in DOMAIN items : PassDeadline(i) \/ AlertLapses(i)
             \/ \E w \in Sweeps : FindBreaches(w)
             \/ \E w \in Sweeps, i \in DOMAIN items : Alert(w, i)
      PROVE  QueueInv'
  <2>1. UNCHANGED <<failing, shipped, items, client>>
    BY <1>8 DEF PassDeadline, AlertLapses, FindBreaches, Alert
  <2> QED BY <1>8, <2>1, AlertsKeep
<1>9. CASE UNCHANGED queueVars
  BY <1>9 DEF queueVars, alertVars, QueueInv, ItemsInv, AlertsInv
<1> QED
  BY <1>1, <1>2, <1>3, <1>4, <1>5, <1>6, <1>7, <1>8, <1>9 DEF QueueNext

LEMMA QueueInvStarts == QueueInit => QueueInv
<1> SUFFICES ASSUME QueueInit PROVE QueueInv
  OBVIOUS
<1>1. DOMAIN items = {} /\ items = [i \in DOMAIN items |-> items[i]]
  BY DEF QueueInit
<1>2. 0 \in 0..MaxItems /\ 1..0 = {}
  BY QueueAssumption
<1>3. ItemsInv
  BY <1>1, <1>2 DEF QueueInit, ItemsInv
<1>4. AlertsInv
  BY DEF QueueInit, AlertsInv
<1> QED BY <1>1, <1>3, <1>4 DEF QueueInit, QueueInv, OrderStatuses

LEMMA QueueInvTypes == QueueInv => QueueTypeOK
<1> SUFFICES ASSUME QueueInv PROVE QueueTypeOK
  OBVIOUS
<1>1. DOMAIN items \in {1..n : n \in 0..MaxItems}
  BY DEF QueueInv, ItemsInv
<1>2. ASSUME NEW i \in DOMAIN items
      PROVE  /\ items[i] \in Items
             /\ items[i].status # "pending" => items[i].to \in Operators
             /\ items[i].status \in Final => items[i].verdict # "none"
  BY <1>2 DEF QueueInv, ItemsInv, Sound
<1>3. \A c \in Clients : client[c].op # "rest" => client[c].id \in DOMAIN items
  BY NewSound DEF QueueInv, ItemsInv
<1> QED BY <1>1, <1>2, <1>3 DEF QueueInv, AlertsInv, QueueTypeOK

\* However many requests commit over what others wrote since they read, an entry
\* somebody has taken keeps an operator and a closed one its verdict, and an
\* alert is raised once per key (hitl_queue.py:26-90).
THEOREM QueueKept == QueueSpec => []QueueTypeOK
BY QueueInvStarts, QueueInvKept, QueueInvTypes, PTL DEF QueueSpec

----------------------------------------------------------------------------
(* The components side by side                                             *)

\* Whichever of the three components moves, all of them stay well typed: what
\* QueueTypeOK says of the entries and alerts, and what ProhibitionTypeOK says
\* of the cached negatives, holds in every state of the composed system.
THEOREM OfficeTypeCorrect == OfficeSpec => []OfficeTypeOK
<1> DEFINE Inv == TypeOK /\ QueueInv /\ ListInv
<1>1. OfficeInit => Inv
  BY TypeStarts, QueueInvStarts, ListInvStarts DEF OfficeInit
<1>2. Inv /\ [OfficeNext]_officeVars => Inv'
  <2> SUFFICES ASSUME Inv, [OfficeNext]_officeVars PROVE Inv'
    OBVIOUS
  <2>1. [Next]_vars /\ [QueueNext]_queueVars /\ [ProhibitionNext]_prohibitionVars
    BY Zenon DEF OfficeNext, CollectionMoves, QueueMoves, ListMoves, officeVars
  <2> QED BY <2>1, TypeKept, QueueInvKept, ListInvKept
<1>3. Inv => OfficeTypeOK
  BY QueueInvTypes DEF ListInv, OfficeTypeOK
<1> HIDE DEF Inv
<1> QED BY <1>1, <1>2, <1>3, PTL DEF OfficeSpec
=============================================================================
