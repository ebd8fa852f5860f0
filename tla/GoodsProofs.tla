----------------------------- MODULE GoodsProofs -----------------------------
(***************************************************************************)
(* For any number of calls, jobs, tasks, messages, installments, users and *)
(* events: a reference is refunded once, a job has one payload, a delivery *)
(* executes the agency, a key makes one application, an approval leaves    *)
(* room below the ceiling, and a charge is booked once.                    *)
(***************************************************************************)
EXTENDS MCOrders, OrderLifecycleProofs, FiniteSetTheorems,
        WellFoundedInduction

----------------------------------------------------------------------------
(* Refunds                                                                 *)

RefundCall == [at : {"idle", "check", "insert", "gateway", "commit", "backoff"},
               ref : References \cup {NoCaller}, amount : Nat, to : Statuses,
               retry : Nat]

Holding(c) == call[c].at \in {"gateway", "commit"}

\* A call at work has a reference, and what it commits is a status.
CallsNamed ==
    \A c \in Callers :
       /\ call[c].at \in {"check", "insert", "gateway", "commit"}
             => call[c].ref \in References
       /\ call[c].at = "commit" => call[c].to # "none"

\* Exactly the calls between the INSERT and the commit hold the uncommitted
\* row of their reference, and only while there is no committed one.
RowsHeld ==
    /\ \A c \in Callers : Holding(c) => inserted[call[c].ref] = c
    /\ \A r \in References : inserted[r] # NoCaller =>
          /\ call[inserted[r]].ref = r /\ Holding(inserted[r])
          /\ refund[r].status = "none"

\* The provider has heard of a reference without a row only from the call
\* that is about to commit one.
AskedOnce ==
    \A r \in References \ repeated :
       /\ sent[r] <= 1
       /\ sent[r] = 0 \/ refund[r].status # "none"
            \/ (inserted[r] # NoCaller /\ call[inserted[r]].at = "commit")

RefundInv == RefundTypeOK /\ CallsNamed /\ RowsHeld /\ AskedOnce

\* A step of one call that writes no row and asks no provider, and does not
\* leave a row behind.
LEMMA CallRests ==
    ASSUME RefundInv, NEW c \in Callers, NEW v \in RefundCall,
           call' = [call EXCEPT ![c] = v], ~Holding(c),
           v.at \in {"idle", "check", "insert", "backoff"},
           v.at \in {"check", "insert"} => v.ref \in References,
           refund' = refund, inserted' = inserted, sent' = sent,
           deduped' = deduped, hook' = hook, repeated' = repeated,
           jobs' \in [0..DLQ_MAX_RETRIES -> Nat],
           requests' \in Nat, faults' \in Nat
    PROVE  RefundInv'
<1>1. call' \in [Callers -> RefundCall] /\ call'[c] = v
      /\ \A d \in Callers \ {c} : call'[d] = call[d]
  BY DEF RefundInv, RefundTypeOK, RefundCall
<1>2. RefundTypeOK'
  BY <1>1 DEF RefundInv, RefundTypeOK, RefundCall
<1>3. CallsNamed'
  BY <1>1 DEF RefundInv, CallsNamed
<1>4. \A r \in References : inserted[r] # NoCaller =>
          inserted[r] \in Callers \ {c}
  BY DEF RefundInv, RefundTypeOK, RowsHeld
<1>5. \A d \in Callers : Holding(d)' => d # c /\ Holding(d)
  BY <1>1 DEF Holding
<1>6. RowsHeld'
  BY <1>1, <1>4, <1>5 DEF RefundInv, RowsHeld, Holding
<1>7. AskedOnce'
  BY <1>1, <1>4 DEF RefundInv, AskedOnce
<1> QED BY <1>2, <1>3, <1>6, <1>7 DEF RefundInv

\* The records that the calls go through.
LEMMA CallFields ==
    ASSUME NEW k \in RefundCall
    PROVE  /\ NoCall \in RefundCall
           /\ \A at \in {"idle", "check", "insert", "gateway", "commit", "backoff"} :
                LET f == [k EXCEPT !.at = at] IN
                f \in RefundCall /\ f.at = at /\ f.ref = k.ref
           /\ \A to \in Statuses :
                LET f == [[k EXCEPT !.at = "commit"] EXCEPT !.to = to] IN
                f \in RefundCall /\ f.at = "commit" /\ f.ref = k.ref /\ f.to = to
<1>1. NoCall \in RefundCall
  BY DEF NoCall, RefundCall, Statuses
<1>2. \A at \in {"idle", "check", "insert", "gateway", "commit", "backoff"} :
        LET f == [k EXCEPT !.at = at] IN
        f \in RefundCall /\ f.at = at /\ f.ref = k.ref
  BY DEF RefundCall
<1>3. ASSUME NEW to \in Statuses
      PROVE  LET f == [[k EXCEPT !.at = "commit"] EXCEPT !.to = to] IN
             f \in RefundCall /\ f.at = "commit" /\ f.ref = k.ref /\ f.to = to
  BY DEF RefundCall
<1> QED BY <1>1, <1>2, <1>3

LEMMA CallsTyped == RefundInv => call \in [Callers -> RefundCall]
BY DEF RefundInv, RefundTypeOK, RefundCall

\* A call starts, is turned away, or returns to the queue.
LEMMA AskKeeps ==
    ASSUME RefundInv,
           \/ RequestRefund
           \/ \E c \in Posts, r \in Given, amount \in Amounts :
                 PostRefund(c, r, amount)
           \/ \E w \in RefundWorkers, n \in 0..DLQ_MAX_RETRIES, r \in Fresh :
                 HandleRefund(w, n, r)
           \/ \E w \in RefundWorkers : Backoff(w)
           \/ \E c \in Callers : Existing(c)
    PROVE  RefundInv'
<1> USE CallsTyped
<1>1. ASSUME RequestRefund PROVE RefundInv'
  <2>1. jobs' \in [0..DLQ_MAX_RETRIES -> Nat] /\ requests' \in Nat
    <3>1. jobs \in [0..DLQ_MAX_RETRIES -> Nat] /\ requests \in Nat
      BY DEF RefundInv, RefundTypeOK
    <3>2. 0 \in 0..DLQ_MAX_RETRIES /\ jobs[0] + 1 \in Nat
      BY <3>1, RefundAssumption
    <3> QED BY <1>1, <3>1, <3>2 DEF RequestRefund
  <2>2. UNCHANGED <<refund, inserted, sent, call, deduped, hook, faults, repeated>>
    BY <1>1 DEF RequestRefund
  <2>3. RefundTypeOK'
    BY <2>1, <2>2 DEF RefundInv, RefundTypeOK
  <2> QED
    BY <2>2, <2>3 DEF RefundInv, CallsNamed, RowsHeld, AskedOnce, Holding
<1>2. ASSUME NEW c \in Posts, NEW r \in Given, NEW amount \in Amounts,
             PostRefund(c, r, amount)
      PROVE  RefundInv'
  <2> DEFINE v == [NoCall EXCEPT !.at = "check", !.ref = r, !.amount = amount]
  <2> amount \in Nat /\ r \in References
    BY RefundAssumption DEF References
  <2>1. v \in RefundCall /\ v.at = "check" /\ v.ref = r
    BY DEF NoCall, RefundCall, Statuses
  <2>2. call' = [call EXCEPT ![c] = v] /\ ~Holding(c)
    BY <1>2 DEF PostRefund, Holding
  <2> HIDE DEF v
  <2>3. c \in Callers /\ r \in References
    BY DEF Callers, References
  <2> QED BY <1>2, <2>1, <2>2, <2>3, CallRests DEF PostRefund, RefundInv, RefundTypeOK
<1>3. ASSUME NEW w \in RefundWorkers, NEW n \in 0..DLQ_MAX_RETRIES, NEW r \in Fresh,
             HandleRefund(w, n, r)
      PROVE  RefundInv'
  <2> DEFINE v == [NoCall EXCEPT !.at = "check", !.ref = r,
                                 !.amount = TOTAL, !.retry = n]
  <2> TOTAL \in Nat /\ n \in Nat /\ r \in References /\ DLQ_MAX_RETRIES \in Nat
    BY RefundAssumption DEF References
  <2>1. v \in RefundCall /\ v.at = "check" /\ v.ref = r
    BY DEF NoCall, RefundCall, Statuses
  <2>2. call' = [call EXCEPT ![w] = v] /\ ~Holding(w)
    BY <1>3 DEF HandleRefund, Holding
  <2> HIDE DEF v
  <2>3. jobs' \in [0..DLQ_MAX_RETRIES -> Nat]
    <3>1. jobs[n] \in Nat /\ jobs[n] > 0 /\ jobs' = [jobs EXCEPT ![n] = jobs[n] - 1]
      BY <1>3 DEF HandleRefund, RefundInv, RefundTypeOK
    <3>2. jobs[n] - 1 \in Nat
      BY <3>1
    <3> QED BY <3>1, <3>2 DEF RefundInv, RefundTypeOK
  <2>4. w \in Callers /\ r \in References
    BY DEF Callers, References
  <2> QED
    BY <1>3, <2>1, <2>2, <2>3, <2>4, CallRests DEF HandleRefund, RefundInv, RefundTypeOK
<1>4. ASSUME NEW w \in RefundWorkers, Backoff(w) PROVE RefundInv'
  <2>1. w \in Callers /\ ~Holding(w) /\ NoCall \in RefundCall /\ NoCall.at = "idle"
    BY <1>4, CallFields DEF Callers, Backoff, Holding, NoCall
  <2>2. jobs' \in [0..DLQ_MAX_RETRIES -> Nat]
    <3>1. jobs \in [0..DLQ_MAX_RETRIES -> Nat]
      BY DEF RefundInv, RefundTypeOK
    <3>2. call[w].retry + 1 \in 0..DLQ_MAX_RETRIES
            => jobs[call[w].retry + 1] + 1 \in Nat
      BY <3>1
    <3> QED BY <1>4, <3>1, <3>2 DEF Backoff
  <2> QED
    BY <1>4, <2>1, <2>2, CallRests DEF Backoff, Done, RefundInv, RefundTypeOK
<1>5. ASSUME NEW c \in Callers, Existing(c) PROVE RefundInv'
  <2> DEFINE v == IF refund[call[c].ref].status = "none"
                    THEN [call[c] EXCEPT !.at = "insert"] ELSE NoCall
  <2>1. call[c].ref \in References /\ ~Holding(c)
    BY <1>5 DEF Existing, RefundInv, CallsNamed, Holding
  <2>2. v \in RefundCall /\ v.at \in {"insert", "idle"}
        /\ (v.at = "insert" => v.ref \in References)
    <3>1. CASE refund[call[c].ref].status = "none"
      <4>1. v = [call[c] EXCEPT !.at = "insert"] /\ call[c] \in RefundCall
        BY <3>1
      <4> HIDE DEF v
      <4> QED BY <2>1, <4>1, CallFields
    <3>2. CASE refund[call[c].ref].status # "none"
      <4>1. v = NoCall /\ NoCall.at = "idle"
        BY <3>2 DEF NoCall
      <4> HIDE DEF v
      <4> QED BY <4>1, CallFields
    <3> QED BY <3>1, <3>2
  <2>3. call' = [call EXCEPT ![c] = v]
    BY <1>5 DEF Existing, Go, Done
  <2> HIDE DEF v
  <2> QED BY <1>5, <2>1, <2>2, <2>3, CallRests DEF Existing, RefundInv, RefundTypeOK
<1> QED BY <1>1, <1>2, <1>3, <1>4, <1>5

LEMMA RowInserted ==
    ASSUME RefundInv, NEW c \in Callers, Insert(c)
    PROVE  RefundInv'
<1> USE CallsTyped
<1> DEFINE r == call[c].ref
<1>1. r \in References /\ ~Holding(c) /\ inserted[r] = NoCaller
  BY DEF Insert, RefundInv, CallsNamed, Holding, RowFree
<1>2. CASE refund[r].status # "none"
  <2>1. call' = [call EXCEPT ![c] = NoCall] /\ inserted' = inserted
    BY <1>2 DEF Insert, Done
  <2>2. NoCall \in RefundCall /\ NoCall.at = "idle"
    BY CallFields DEF NoCall
  <2> QED BY <1>1, <2>1, <2>2, CallRests DEF Insert, RefundInv, RefundTypeOK
<1>3. CASE refund[r].status = "none"
  <2> DEFINE v == [call[c] EXCEPT !.at = "gateway"]
  <2>1. v \in RefundCall /\ v.at = "gateway" /\ v.ref = r
    BY CallFields
  <2>2. /\ call' = [call EXCEPT ![c] = v]
        /\ inserted' = [inserted EXCEPT ![r] = c]
    BY <1>3 DEF Insert, Go
  <2>3. UNCHANGED <<refund, sent, jobs, deduped, hook, requests, faults, repeated>>
    BY DEF Insert
  <2> HIDE DEF v
  <2>4. call' \in [Callers -> RefundCall] /\ call'[c] = v
        /\ \A d \in Callers \ {c} : call'[d] = call[d]
    BY <2>1, <2>2
  <2>5. inserted' \in [References -> Callers \cup {NoCaller}]
        /\ inserted'[r] = c /\ \A q \in References \ {r} : inserted'[q] = inserted[q]
    BY <1>1, <2>2 DEF RefundInv, RefundTypeOK
  <2>6. RefundTypeOK'
    BY <2>3, <2>4, <2>5 DEF RefundInv, RefundTypeOK, RefundCall
  <2>7. CallsNamed'
    BY <1>1, <2>1, <2>4 DEF RefundInv, CallsNamed
  <2>8. \A d \in Callers \ {c} : Holding(d)' <=> Holding(d)
    BY <2>4 DEF Holding
  <2>9. \A d \in Callers \ {c} : Holding(d) => call[d].ref # r
    BY <1>1, RefundAssumption DEF RefundInv, RowsHeld
  <2>10. \A q \in References \ {r} : inserted[q] # c
    BY <1>1, RefundAssumption DEF RefundInv, RowsHeld
  <2>11. RowsHeld'
    <3>1. \A d \in Callers : Holding(d)' => inserted'[call'[d].ref] = d
      <4>1. \A d \in Callers \ {c} : Holding(d) => call[d].ref \in References
        BY DEF RefundInv, CallsNamed, Holding
      <4> QED BY <1>1, <2>1, <2>4, <2>5, <2>8, <2>9, <4>1 DEF RefundInv, RowsHeld
    <3>2. Holding(c)'
      BY <2>1, <2>4 DEF Holding
    <3>3. \A q \in References : inserted'[q] # NoCaller =>
            /\ call'[inserted'[q]].ref = q
            /\ call'[inserted'[q]].at \in {"gateway", "commit"}
            /\ refund'[q].status = "none"
      <4>1. ASSUME NEW q \in References \ {r}, inserted'[q] # NoCaller
            PROVE  inserted'[q] \in Callers \ {c} /\ inserted'[q] = inserted[q]
        BY <2>5, <2>10, <4>1
      <4> QED BY <1>3, <2>1, <2>3, <2>4, <2>5, <4>1 DEF RefundInv, RowsHeld, Holding
    <3> QED BY <3>1, <3>3 DEF RowsHeld, Holding
  <2>12. AskedOnce'
    <3>1. r \notin repeated => sent[r] = 0
      BY <1>1, <1>3 DEF RefundInv, AskedOnce
    <3>2. sent[r] = 0 => sent[r] <= 1
      OBVIOUS
    <3>3. \A q \in References \ {r} : inserted'[q] # NoCaller =>
            call'[inserted'[q]] = call[inserted[q]]
      BY <2>4, <2>5, <2>10 DEF RefundInv, RefundTypeOK
    <3> QED BY <2>3, <2>5, <3>1, <3>2, <3>3 DEF RefundInv, AskedOnce
  <2> QED BY <2>6, <2>7, <2>11, <2>12 DEF RefundInv
<1> QED BY <1>2, <1>3

\* The provider refunds or refuses, and is heard or not.
LEMMA GatewayAsked ==
    ASSUME RefundInv, NEW c \in Callers, CallGateway(c) \/ LoseAnswer(c)
    PROVE  RefundInv'
<1> USE CallsTyped
<1> DEFINE r == call[c].ref
<1>1. r \in References /\ Holding(c) /\ call[c].at = "gateway" /\ inserted[r] = c
  BY DEF CallGateway, LoseAnswer, RefundInv, CallsNamed, RowsHeld, Holding
<1>2. PICK to \in {"settled", "pending", "failed"} :
        call' = [call EXCEPT ![c].at = "commit", ![c].to = to]
  BY DEF CallGateway, LoseAnswer
<1>3. /\ sent' = [sent EXCEPT ![r] = @ + 1] \/ sent' = [sent EXCEPT ![r] = @]
      /\ UNCHANGED <<refund, inserted, jobs, deduped, hook, requests, repeated>>
      /\ faults' \in Nat
  BY DEF CallGateway, LoseAnswer, RefundFault, RefundInv, RefundTypeOK
<1> DEFINE v == [[call[c] EXCEPT !.at = "commit"] EXCEPT !.to = to]
<1>4. v \in RefundCall /\ v.at = "commit" /\ v.ref = r /\ v.to = to
  <2>1. to \in Statuses /\ call[c] \in RefundCall
    BY DEF Statuses
  <2> QED BY <2>1, CallFields, ZenonT(60)
<1>5. call' = [call EXCEPT ![c] = v]
  BY <1>2
<1> HIDE DEF v
<1>6. call' \in [Callers -> RefundCall] /\ call'[c] = v
      /\ \A d \in Callers \ {c} : call'[d] = call[d]
  BY <1>4, <1>5
<1>7. sent' \in [References -> Nat] /\ sent'[r] \in {sent[r], sent[r] + 1}
      /\ \A q \in References \ {r} : sent'[q] = sent[q]
  <2>1. sent \in [References -> Nat]
    BY DEF RefundInv, RefundTypeOK
  <2> QED BY <1>1, <1>3, <2>1
<1>8. RefundTypeOK'
  BY <1>3, <1>6, <1>7 DEF RefundInv, RefundTypeOK, RefundCall
<1>9. CallsNamed'
  <2>1. v.ref \in References /\ v.to # "none"
    BY <1>1, <1>4
  <2> QED BY <1>6, <2>1 DEF RefundInv, CallsNamed
<1>10. \A d \in Callers : (Holding(d)' <=> Holding(d)) /\ call'[d].ref = call[d].ref
  BY <1>1, <1>4, <1>6 DEF Holding
<1>11. RowsHeld'
  <2>1. \A d \in Callers : Holding(d)' => inserted'[call'[d].ref] = d
    BY <1>3, <1>10 DEF RefundInv, RowsHeld
  <2>2. ASSUME NEW q \in References, inserted[q] # NoCaller
        PROVE  /\ call'[inserted[q]].ref = q
               /\ call'[inserted[q]].at \in {"gateway", "commit"}
               /\ refund[q].status = "none"
    <3>1. inserted[q] \in Callers
      BY <2>2 DEF RefundInv, RefundTypeOK
    <3>2. call[inserted[q]].ref = q /\ Holding(inserted[q]) /\ refund[q].status = "none"
      BY <2>2 DEF RefundInv, RowsHeld
    <3> QED BY <1>10, <3>1, <3>2 DEF Holding
  <2> QED BY <1>3, <2>1, <2>2 DEF RowsHeld, Holding
<1>12. AskedOnce'
  <2>1. r \notin repeated => sent[r] = 0
    <3>1. refund[r].status = "none" /\ call[inserted[r]].at # "commit"
      BY <1>1, RefundAssumption DEF RefundInv, RowsHeld
    <3> QED BY <1>1, <3>1 DEF RefundInv, AskedOnce
  <2>2. \A q \in References \ {r} : inserted[q] # c
    BY <1>1, RefundAssumption DEF RefundInv, RowsHeld
  <2>3. \A q \in References \ {r} : inserted[q] # NoCaller => inserted[q] \in Callers
    BY DEF RefundInv, RefundTypeOK
  <2>4. inserted'[r] # NoCaller /\ call'[inserted'[r]].at = "commit"
    BY <1>1, <1>3, <1>4, <1>6, RefundAssumption
  <2>5. \A q \in References \ {r} : inserted'[q] # NoCaller =>
          call'[inserted'[q]] = call[inserted[q]]
    BY <1>3, <1>6, <2>2, <2>3
  <2>6. r \notin repeated => sent'[r] <= 1
    BY <1>7, <2>1 DEF RefundInv, RefundTypeOK
  <2> QED BY <1>3, <1>7, <2>4, <2>5, <2>6 DEF RefundInv, AskedOnce
<1> QED BY <1>8, <1>9, <1>11, <1>12 DEF RefundInv

\* A call that holds a row lets go of it, and commits it or leaves.
LEMMA RowReleased ==
    ASSUME RefundInv, NEW c \in Callers, Holding(c),
           NEW v \in RefundCall, v.at \in {"idle", "backoff"},
           call' = [call EXCEPT ![c] = v],
           inserted' = [inserted EXCEPT ![call[c].ref] = NoCaller],
           UNCHANGED <<sent, jobs, deduped, hook, requests>>,
           faults' \in Nat,
           \/ /\ refund' = refund
              /\ repeated' = IF call[c].at = "commit"
                               THEN repeated \cup {call[c].ref} ELSE repeated
           \/ /\ refund' \in [References -> [status : Statuses, amount : Nat]]
              /\ refund'[call[c].ref].status # "none"
              /\ \A q \in References \ {call[c].ref} : refund'[q] = refund[q]
              /\ repeated' = repeated
    PROVE  RefundInv'
<1> USE CallsTyped
<1> DEFINE r == call[c].ref
<1>1. r \in References /\ inserted[r] = c
  BY DEF RefundInv, CallsNamed, RowsHeld, Holding
<1>2. call' \in [Callers -> RefundCall] /\ call'[c] = v
      /\ \A d \in Callers \ {c} : call'[d] = call[d]
  OBVIOUS
<1>3. inserted' \in [References -> Callers \cup {NoCaller}]
      /\ inserted'[r] = NoCaller
      /\ \A q \in References \ {r} : inserted'[q] = inserted[q]
  BY <1>1 DEF RefundInv, RefundTypeOK
<1>4. repeated' \subseteq References
      /\ refund' \in [References -> [status : Statuses, amount : Nat]]
      /\ \A q \in References \ {r} : refund'[q] = refund[q]
  BY <1>1 DEF RefundInv, RefundTypeOK
<1>5. RefundTypeOK'
  BY <1>2, <1>3, <1>4 DEF RefundInv, RefundTypeOK, RefundCall
<1>6. CallsNamed'
  BY <1>2 DEF RefundInv, CallsNamed
<1>7. /\ ~Holding(c)'
      /\ \A d \in Callers \ {c} : /\ Holding(d)' <=> Holding(d)
                                  /\ Holding(d) => call[d].ref # r
                                  /\ Holding(d) => call[d].ref \in References
  BY <1>1, <1>2 DEF Holding, RefundInv, RowsHeld, CallsNamed
<1>8. \A q \in References \ {r} : inserted[q] # NoCaller => inserted[q] \in Callers \ {c}
  BY <1>1 DEF RefundInv, RefundTypeOK, RowsHeld
<1>9. RowsHeld'
  BY <1>1, <1>2, <1>3, <1>4, <1>7, <1>8 DEF RefundInv, RowsHeld
<1>10. AskedOnce'
  <2>1. \A q \in References \ {r} : q \in repeated' <=> q \in repeated
    BY <1>1
  <2>2. r \notin repeated' => sent[r] <= 1 /\ (sent[r] = 0 \/ refund'[r].status # "none")
    BY <1>1 DEF RefundInv, RefundTypeOK, AskedOnce, RowsHeld, Holding
  <2> QED BY <1>1, <1>2, <1>3, <1>4, <1>8, <2>1, <2>2 DEF RefundInv, AskedOnce
<1> QED BY <1>5, <1>6, <1>9, <1>10 DEF RefundInv

LEMMA CommitReleases ==
    ASSUME RefundInv, NEW c \in Callers, CommitRefund(c)
    PROVE  RefundInv'
<1> USE CallsTyped
<1> DEFINE r == call[c].ref
           row == [status |-> call[c].to, amount |-> call[c].amount]
<1>1. Holding(c) /\ r \in References /\ call[c].to # "none"
  BY DEF CommitRefund, Holding, RefundInv, CallsNamed
<1>2. NoCall \in RefundCall /\ NoCall.at \in {"idle", "backoff"}
  BY CallFields DEF NoCall
<1>3. row \in [status : Statuses, amount : Nat] /\ row.status # "none"
  BY <1>1 DEF RefundCall
<1>4. refund' = [refund EXCEPT ![r] = row]
  BY DEF CommitRefund
<1> HIDE DEF row
<1>5. /\ refund' \in [References -> [status : Statuses, amount : Nat]]
      /\ refund'[r].status # "none"
      /\ \A q \in References \ {r} : refund'[q] = refund[q]
  BY <1>1, <1>3, <1>4 DEF RefundInv, RefundTypeOK
<1>6. /\ call' = [call EXCEPT ![c] = NoCall]
      /\ inserted' = [inserted EXCEPT ![r] = NoCaller]
      /\ UNCHANGED <<sent, jobs, deduped, hook, requests, faults, repeated>>
  BY DEF CommitRefund, Done
<1>7. faults' \in Nat
  BY <1>6 DEF RefundInv, RefundTypeOK
<1> QED BY <1>1, <1>2, <1>5, <1>6, <1>7, RowReleased

\* A call that is given up takes its row with it, if it holds one.
LEMMA GivenUp ==
    ASSUME RefundInv, NEW c \in Callers, CrashRefund(c) \/ FailRefund(c)
    PROVE  RefundInv'
<1> USE CallsTyped
<1> DEFINE r == call[c].ref
<1>1. PICK v \in RefundCall :
        v.at \in {"idle", "backoff"} /\ call' = [call EXCEPT ![c] = v]
  <2>1. CASE CrashRefund(c)
    BY <2>1, CallFields DEF CrashRefund, Done, NoCall
  <2>2. CASE FailRefund(c)
    <3> DEFINE v == [call[c] EXCEPT !.at = "backoff"]
    <3>1. v \in RefundCall /\ v.at = "backoff"
      BY CallFields
    <3>2. call' = [call EXCEPT ![c] = v]
      BY <2>2 DEF FailRefund, Go
    <3> HIDE DEF v
    <3> QED BY <3>1, <3>2
  <2> QED BY <2>1, <2>2
<1>2. /\ UNCHANGED <<refund, sent, jobs, deduped, hook, requests>>
      /\ inserted' = [q \in References |->
                         IF inserted[q] = c THEN NoCaller ELSE inserted[q]]
      /\ repeated' = IF call[c].at = "commit" THEN repeated \cup {r} ELSE repeated
      /\ faults' = faults + 1
  BY DEF CrashRefund, FailRefund, Rollback, RefundFault
<1>3. faults' \in Nat /\ jobs \in [0..DLQ_MAX_RETRIES -> Nat] /\ requests \in Nat
      /\ inserted \in [References -> Callers \cup {NoCaller}]
  BY <1>2 DEF RefundInv, RefundTypeOK
<1>4. CASE Holding(c)
  <2>1. \A q \in References : inserted[q] = c <=> q = r
    BY <1>4, RefundAssumption DEF RefundInv, RowsHeld
  <2>2. inserted' = [inserted EXCEPT ![r] = NoCaller]
    BY <1>2, <1>3, <2>1
  <2> QED BY <1>1, <1>2, <1>3, <1>4, <2>2, RowReleased
<1>5. CASE ~Holding(c)
  <2>1. \A q \in References : inserted[q] # c
    BY <1>5, RefundAssumption DEF RefundInv, RowsHeld
  <2>2. inserted' = inserted /\ repeated' = repeated
    BY <1>2, <1>3, <1>5, <2>1 DEF Holding
  <2> QED BY <1>1, <1>2, <1>3, <1>5, <2>2, CallRests
<1> QED BY <1>4, <1>5

LEMMA WebhookKeeps ==
    ASSUME RefundInv, SettleRefund \/ \E r \in References : HearRefund(r)
    PROVE  RefundInv'
<1>1. UNCHANGED <<inserted, sent, call, jobs, requests, faults, repeated>>
  BY DEF SettleRefund, HearRefund
<1>2. /\ refund' \in [References -> [status : Statuses, amount : Nat]]
      /\ \A q \in References : refund'[q].status = "none" <=> refund[q].status = "none"
  <2>1. refund \in [References -> [status : Statuses, amount : Nat]]
    BY DEF RefundInv, RefundTypeOK
  <2>2. CASE refund' = refund
    BY <2>1, <2>2
  <2>3. CASE SettleRefund /\ refund' # refund
    <3> DEFINE v == [refund[hook] EXCEPT !.status = "settled"]
    <3>1. hook \in References /\ refund[hook].status # "none"
          /\ refund' = [refund EXCEPT ![hook] = v]
      BY <2>3 DEF SettleRefund, RefundInv, RefundTypeOK
    <3>2. v \in [status : Statuses, amount : Nat] /\ v.status = "settled"
      BY <2>1, <3>1 DEF Statuses
    <3> HIDE DEF v
    <3> QED BY <2>1, <3>1, <3>2
  <2> QED BY <2>2, <2>3 DEF HearRefund
<1>3. RefundTypeOK'
  BY <1>1, <1>2 DEF RefundInv, RefundTypeOK, SettleRefund, HearRefund
<1> QED
  BY <1>1, <1>2, <1>3 DEF RefundInv, CallsNamed, RowsHeld, AskedOnce, Holding

LEMMA RefundInvStarts == RefundInit => RefundInv
BY RefundAssumption
   DEF RefundInit, RefundInv, RefundTypeOK, CallsNamed, RowsHeld, AskedOnce,
       Holding, NoCall, Statuses

LEMMA RefundInvKept == RefundInv /\ [RefundNext]_refundVars => RefundInv'
<1> SUFFICES ASSUME RefundInv, [RefundNext]_refundVars PROVE RefundInv'
  OBVIOUS
<1>1. CASE UNCHANGED refundVars
  <2>1. UNCHANGED <<refund, inserted, sent, call, jobs, deduped, hook, requests,
                    faults, repeated>>
    BY <1>1 DEF refundVars
  <2> QED BY <2>1 DEF RefundInv, RefundTypeOK, CallsNamed, RowsHeld, AskedOnce, Holding
<1>2. ASSUME NEW c \in Callers,
             \/ Existing(c) \/ Insert(c) \/ CallGateway(c)
             \/ LoseAnswer(c) \/ CommitRefund(c) \/ CrashRefund(c)
      PROVE  RefundInv'
  BY <1>2, AskKeeps, RowInserted, GatewayAsked, CommitReleases, GivenUp
<1>3. ASSUME NEW w \in RefundWorkers, FailRefund(w) PROVE RefundInv'
  BY <1>3, GivenUp DEF Callers
<1> QED BY <1>1, <1>2, <1>3, AskKeeps, WebhookKeeps DEF RefundNext

\* The provider accepts at most one refund under a reference, whichever calls
\* carry it and however often its webhook comes, unless a process or a commit
\* failed after the provider's answer (refund_orchestrator.py:57-149).
THEOREM RefundedOnce == RefundSpec => [](RefundTypeOK /\ ReturnedOncePerReference)
<1>1. RefundInv => RefundTypeOK /\ ReturnedOncePerReference
  BY DEF RefundInv, AskedOnce, ReturnedOncePerReference
<1> QED BY <1>1, RefundInvStarts, RefundInvKept, PTL DEF RefundSpec

----------------------------------------------------------------------------
(* The delivery                                                            *)

Hook == [at : {"idle", "commit", "refresh", "status", "confirmed", "order",
               "write", "mark"},
         tag : Tags \cup {"none"}, saw : OrderStatuses]
Message == [at : Kinds \cup {"idle"}, saw : OrderStatuses, parts : SUBSET Parts]

\* Somebody may have written, or may still write, that the order is delivered.
Announced ==
    \/ orderStatus = "delivered" \/ shipment = "delivered"
    \/ \E h \in Hooks : webhook[h].saw = "delivered"

\* The confirmation is published and not yet handled.
UnderWay ==
    heard["confirmed"] > 0 \/ \E g \in Gateways : gateway[g].at = "confirmed"

Settled == executed /\ \A i \in Parts : part[i] = "pending" => i \in moved

\* If the order may be delivered, and the shipment's delivery was confirmed,
\* the confirmation is handled or under way; who handles one has read every
\* installment still pending.
Confirmed ==
    /\ \A h \in Hooks : webhook[h].at # "idle" => webhook[h].tag \in Tags
    /\ \A g \in Gateways : gateway[g].at = "confirmed" =>
          \A i \in Parts : part[i] = "pending" => i \in gateway[g].parts
    /\ drops = 0 /\ ~untold /\ Announced => Settled \/ UnderWay

DeliveryInv == DeliveryTypeOK /\ Confirmed

LEMMA DeliveryTyped ==
    DeliveryTypeOK =>
       /\ webhook \in [Hooks -> Hook] /\ gateway \in [Gateways -> Message]
       /\ heard \in [Kinds -> Nat] /\ heard["confirmed"] \in Nat
       /\ untold \in BOOLEAN /\ executed \in BOOLEAN
<1> SUFFICES ASSUME DeliveryTypeOK
             PROVE  /\ webhook \in [Hooks -> Hook] /\ gateway \in [Gateways -> Message]
                    /\ heard \in [Kinds -> Nat] /\ heard["confirmed"] \in Nat
                    /\ untold \in BOOLEAN /\ executed \in BOOLEAN
  OBVIOUS
<1>1. untold \in BOOLEAN /\ executed \in BOOLEAN
  BY Zenon DEF DeliveryTypeOK
<1> QED BY <1>1 DEF DeliveryTypeOK, Hook, Message, Kinds

LEMMA HookFields ==
    ASSUME NEW k \in Hook
    PROVE  /\ NoHook \in Hook /\ NoHook.at = "idle" /\ NoHook.saw = "placed"
           /\ \A at \in {"idle", "commit", "refresh", "status", "confirmed",
                         "order", "write", "mark"} :
                LET f == [k EXCEPT !.at = at] IN
                f \in Hook /\ f.at = at /\ f.tag = k.tag /\ f.saw = k.saw
BY DEF Hook, NoHook, OrderStatuses

\* A request of the webhook goes on: it reads and writes the status delivered
\* if there is one, sets the shipment to it while the delivery is untold, and
\* ends that only with a confirmation under way.
LEMMA HookGoes ==
    ASSUME DeliveryInv, NEW h \in Hooks, NEW v \in Hook,
           webhook' = [webhook EXCEPT ![h] = v],
           v.at # "idle" => v.tag \in Tags,
           v.saw = "delivered" => Announced,
           heard' \in [Kinds -> Nat], heard'["confirmed"] >= heard["confirmed"],
           untold' \in BOOLEAN, untold => untold' \/ heard'["confirmed"] > 0,
           shipment' \in OrderStatuses, orderStatus' \in OrderStatuses,
           shipment' = "delivered" => Announced \/ untold',
           orderStatus' = "delivered" => Announced,
           known' \subseteq Tags, calls' \in Nat,
           gateway' = gateway, executed' = executed, part' = part,
           moved' = moved, drops' = drops
    PROVE  DeliveryInv'
<1> USE DeliveryTyped
<1>1. webhook' \in [Hooks -> Hook] /\ webhook'[h] = v
      /\ \A g \in Hooks \ {h} : webhook'[g] = webhook[g]
  BY DEF DeliveryInv
<1>2. DeliveryTypeOK'
  <2>1. executed' \in BOOLEAN /\ untold' \in BOOLEAN
    BY Zenon DEF DeliveryInv, DeliveryTypeOK
  <2> QED BY <1>1, <2>1 DEF DeliveryInv, DeliveryTypeOK, Hook
<1>3. Announced' => Announced \/ untold'
  BY <1>1 DEF Announced
<1>4. UnderWay => UnderWay'
  <2>1. heard["confirmed"] \in Nat /\ heard'["confirmed"] \in Nat
    BY DEF DeliveryInv, Kinds
  <2> QED BY <2>1 DEF UnderWay
<1>5. Settled' <=> Settled
  BY DEF Settled
<1>6. heard'["confirmed"] > 0 => UnderWay'
  BY DEF UnderWay
<1>7. drops = 0 /\ ~untold /\ Announced => Settled \/ UnderWay
  BY DEF DeliveryInv, Confirmed
<1>8. drops' = 0 /\ ~untold' /\ Announced' => Settled' \/ UnderWay'
  BY <1>3, <1>4, <1>5, <1>6, <1>7
<1>9. Confirmed'
  BY <1>1, <1>8 DEF DeliveryInv, Confirmed
<1> QED BY <1>2, <1>9 DEF DeliveryInv

HookMoves(h) ==
    \/ CommitShipment(h) \/ RefreshShipment(h)
    \/ PublishStatus(h) \/ PublishConfirmed(h)
    \/ ReadOrder(h) \/ WriteOrder(h) \/ MarkHook(h) \/ HookFails(h)
    \/ \E tag \in Tags : ReceiveHook(h, tag)

LEMMA HookKeeps ==
    ASSUME DeliveryInv, NEW h \in Hooks, HookMoves(h)
    PROVE  DeliveryInv'
<1> USE DeliveryTyped
<1> DEFINE k == webhook[h]
<1>1. /\ k \in Hook
      /\ k.at # "idle" => k.tag \in Tags
      /\ NoHook \in Hook /\ NoHook.at = "idle" /\ NoHook.saw = "placed"
      /\ heard \in [Kinds -> Nat] /\ calls \in Nat /\ known \subseteq Tags
      /\ shipment \in OrderStatuses /\ orderStatus \in OrderStatuses
      /\ k.saw \in OrderStatuses
      /\ \A t \in Tags : Mapped[t] \in OrderStatuses
  <2>1. \A t \in Tags : Mapped[t] \in OrderStatuses
    BY DEF Mapped, Tags, OrderStatuses
  <2>2. k \in Hook
    BY DEF DeliveryInv
  <2>3. k.saw \in OrderStatuses
    BY <2>2 DEF Hook
  <2> QED BY <2>1, <2>2, <2>3, HookFields DEF DeliveryInv, DeliveryTypeOK, Confirmed
<1>2. k.saw = "delivered" \/ shipment = "delivered" => Announced
  BY DEF Announced
<1>3. ASSUME NEW at \in {"refresh", "status", "confirmed", "order", "write", "mark"},
             webhook' = [webhook EXCEPT ![h].at = at], k.at # "idle"
      PROVE  \E v \in Hook : /\ webhook' = [webhook EXCEPT ![h] = v]
                             /\ v.tag \in Tags /\ v.saw = k.saw
  <2> DEFINE v == [k EXCEPT !.at = at]
  <2>1. v \in Hook /\ v.tag = k.tag /\ v.saw = k.saw
    BY <1>1 DEF Hook
  <2>2. webhook' = [webhook EXCEPT ![h] = v]
    BY <1>3
  <2> HIDE DEF v
  <2> QED BY <1>1, <1>3, <2>1, <2>2
<1>4. heard["confirmed"] >= heard["confirmed"] /\ untold \in BOOLEAN
      /\ (orderStatus = "delivered" => Announced)
  BY DEF DeliveryInv, Announced
<1>5. ASSUME CommitShipment(h) PROVE DeliveryInv'
  <2>1. PICK v \in Hook : /\ webhook' = [webhook EXCEPT ![h] = v]
                          /\ v.tag \in Tags /\ v.saw = k.saw
    BY <1>3, <1>5 DEF CommitShipment, HookAt
  <2>2. k.tag \in Tags
    BY <1>1, <1>5 DEF CommitShipment
  <2>3. /\ shipment' \in OrderStatuses
        /\ shipment' = "delivered" => Announced \/ untold'
        /\ untold => untold'
    BY <1>1, <1>2, <1>5, <2>2 DEF CommitShipment
  <2>4. untold' \in BOOLEAN
    BY <1>5 DEF CommitShipment
  <2> QED BY <1>1, <1>2, <1>4, <1>5, <2>1, <2>3, <2>4, HookGoes DEF CommitShipment
<1>6. ASSUME RefreshShipment(h) PROVE DeliveryInv'
  <2> DEFINE v == [[k EXCEPT !.at = "status"] EXCEPT !.saw = shipment]
  <2>1. v \in Hook /\ v.tag = k.tag /\ v.saw = shipment
    BY <1>1 DEF Hook
  <2>2. webhook' = [webhook EXCEPT ![h] = v] /\ k.tag \in Tags
    BY <1>1, <1>6 DEF RefreshShipment, Hook
  <2> HIDE DEF v
  <2> QED BY <1>1, <1>2, <1>4, <1>6, <2>1, <2>2, HookGoes DEF RefreshShipment
<1>7. ASSUME PublishStatus(h) PROVE DeliveryInv'
  <2>1. PICK v \in Hook : /\ webhook' = [webhook EXCEPT ![h] = v]
                          /\ v.tag \in Tags /\ v.saw = k.saw
    BY <1>3, <1>7 DEF PublishStatus, HookAt
  <2>2. heard' \in [Kinds -> Nat] /\ heard'["confirmed"] = heard["confirmed"]
    BY <1>1, <1>7 DEF PublishStatus, Kinds
  <2>3. heard'["confirmed"] >= heard["confirmed"]
    BY <1>4, <2>2
  <2> QED BY <1>1, <1>2, <1>4, <1>7, <2>1, <2>2, <2>3, HookGoes DEF PublishStatus
<1>8. ASSUME PublishConfirmed(h) PROVE DeliveryInv'
  <2>1. PICK v \in Hook : /\ webhook' = [webhook EXCEPT ![h] = v]
                          /\ v.tag \in Tags /\ v.saw = k.saw
    BY <1>3, <1>8 DEF PublishConfirmed, HookAt
  <2>2. heard' \in [Kinds -> Nat] /\ heard'["confirmed"] = heard["confirmed"] + 1
    BY <1>1, <1>8 DEF PublishConfirmed, Kinds
  <2>3. heard'["confirmed"] > 0 /\ heard'["confirmed"] >= heard["confirmed"]
    BY <2>2 DEF DeliveryInv
  <2>4. untold' = FALSE
    BY <1>8 DEF PublishConfirmed
  <2> QED BY <1>1, <1>2, <1>4, <1>8, <2>1, <2>2, <2>3, <2>4, HookGoes
          DEF PublishConfirmed
<1>9. ASSUME ReadOrder(h) \/ WriteOrder(h) PROVE DeliveryInv'
  <2>1. PICK at \in {"mark", "write"} : webhook' = [webhook EXCEPT ![h].at = at]
    BY <1>9 DEF ReadOrder, WriteOrder, HookAt
  <2>2. PICK v \in Hook : /\ webhook' = [webhook EXCEPT ![h] = v]
                          /\ v.tag \in Tags /\ v.saw = k.saw
    BY <1>3, <1>9, <2>1 DEF ReadOrder, WriteOrder
  <2>3. orderStatus' \in OrderStatuses /\ (orderStatus' = "delivered" => Announced)
    BY <1>1, <1>2, <1>4, <1>9 DEF ReadOrder, WriteOrder
  <2> QED BY <1>1, <1>2, <1>4, <1>9, <2>2, <2>3, HookGoes DEF ReadOrder, WriteOrder
<1>10. ASSUME MarkHook(h) \/ HookFails(h) PROVE DeliveryInv'
  <2>1. webhook' = [webhook EXCEPT ![h] = NoHook] /\ k.tag \in Tags
    BY <1>1, <1>10 DEF MarkHook, HookFails
  <2>2. known' \subseteq Tags
    BY <1>1, <1>10, <2>1 DEF MarkHook, HookFails
  <2> QED BY <1>1, <1>2, <1>4, <1>10, <2>1, <2>2, HookGoes DEF MarkHook, HookFails
<1>11. ASSUME NEW tag \in Tags, ReceiveHook(h, tag) PROVE DeliveryInv'
  <2> DEFINE v == [at |-> "commit", tag |-> tag, saw |-> shipment]
  <2>1. v \in Hook /\ v.at = "commit" /\ v.tag = tag /\ v.saw = shipment
    BY <1>1 DEF Hook
  <2>2. webhook' = [webhook EXCEPT ![h] = v] /\ calls' \in Nat
    BY <1>1, <1>11 DEF ReceiveHook
  <2> HIDE DEF v
  <2> QED BY <1>1, <1>2, <1>4, <1>11, <2>1, <2>2, HookGoes DEF ReceiveHook
<1> QED BY <1>5, <1>6, <1>7, <1>8, <1>9, <1>10, <1>11 DEF HookMoves

\* A worker that neither loses a confirmation nor handles one.
LEMMA ListenerGoes ==
    ASSUME DeliveryInv,
           gateway' \in [Gateways -> Message], heard' \in [Kinds -> Nat],
           \A g \in Gateways : gateway'[g].at = "confirmed" =>
              \A i \in Parts : part[i] = "pending" => i \in gateway'[g].parts,
           orderStatus' \in OrderStatuses,
           orderStatus' = "delivered" => Announced,
           drops' = 0 => drops = 0, drops' \in Nat,
           Settled => Settled',
           drops' = 0 => (UnderWay => Settled' \/ UnderWay'),
           executed' \in BOOLEAN, moved' \subseteq Parts,
           UNCHANGED <<shipment, untold, known, webhook, calls, part>>
    PROVE  DeliveryInv'
<1>1. DeliveryTypeOK'
  <2>1. executed' \in BOOLEAN
    OBVIOUS
  <2> QED BY <2>1, Zenon DEF DeliveryInv, DeliveryTypeOK, Message
<1>2. Announced' => Announced
  BY DEF Announced
<1>3. Confirmed'
  BY <1>2 DEF DeliveryInv, Confirmed
<1> QED BY <1>1, <1>3 DEF DeliveryInv

\* A key that lapses changes nothing else.
LEMMA KeyLapseKeeps ==
    ASSUME DeliveryInv, NEW tag \in Tags, HookKeyLapses(tag)
    PROVE  DeliveryInv'
<1>1. known' \subseteq Tags
  BY DEF DeliveryInv, DeliveryTypeOK, HookKeyLapses
<1>2. UNCHANGED <<shipment, untold, orderStatus, webhook, calls, heard, gateway,
                  executed, part, moved, drops>>
  BY DEF HookKeyLapses
<1> QED BY <1>1, <1>2, Zenon DEF DeliveryInv, DeliveryTypeOK, Confirmed, Announced,
                            UnderWay, Settled

ListenerMoves(g) ==
    ApplyStatus(g) \/ ApplyConfirmed(g) \/ \E k \in Kinds : Claim(g, k)

LEMMA ListenerKeeps ==
    ASSUME DeliveryInv, NEW g \in Gateways, ListenerMoves(g)
    PROVE  DeliveryInv'
<1> USE DeliveryTyped
<1>1. /\ gateway \in [Gateways -> Message] /\ heard \in [Kinds -> Nat]
      /\ NoMessage \in Message /\ NoMessage.at = "idle"
      /\ moved \subseteq Parts /\ drops \in Nat /\ orderStatus \in OrderStatuses
      /\ "in_transit" \in OrderStatuses /\ "delivered" \in OrderStatuses
      /\ executed \in BOOLEAN
  <2>1. NoMessage \in Message /\ NoMessage.at = "idle"
    BY DEF NoMessage, Message, OrderStatuses
  <2>2. executed \in BOOLEAN
    BY Zenon DEF DeliveryInv, DeliveryTypeOK
  <2> QED BY <2>1, <2>2 DEF DeliveryInv, DeliveryTypeOK, OrderStatuses
<1>2. \A d \in Gateways : gateway[d].at = "confirmed" =>
         \A i \in Parts : part[i] = "pending" => i \in gateway[d].parts
  BY DEF DeliveryInv, Confirmed
<1>3. CASE ApplyStatus(g)
  <2>1. gateway' = [gateway EXCEPT ![g] = NoMessage] /\ gateway[g].at = "status"
    BY <1>3 DEF ApplyStatus
  <2>2. /\ gateway' \in [Gateways -> Message]
        /\ \A d \in Gateways : gateway'[d].at = "confirmed"
              <=> gateway[d].at = "confirmed"
        /\ \A d \in Gateways : gateway'[d].at = "confirmed"
              => gateway'[d] = gateway[d]
    BY <1>1, <2>1
  <2>3. /\ UNCHANGED <<shipment, untold, known, webhook, calls, heard, part, moved, drops>>
        /\ executed' = executed
    BY <1>3 DEF ApplyStatus
  <2>4. orderStatus' \in OrderStatuses /\ (orderStatus' = "delivered" => Announced)
    BY <1>1, <1>3 DEF ApplyStatus, Announced
  <2>5. (UnderWay => UnderWay') /\ (Settled => Settled')
    BY <2>2, <2>3 DEF UnderWay, Settled
  <2> QED BY <1>1, <1>2, <2>2, <2>3, <2>4, <2>5, ListenerGoes
<1>4. CASE ApplyConfirmed(g)
  <2>1. gateway' = [gateway EXCEPT ![g] = NoMessage] /\ gateway[g].at = "confirmed"
    BY <1>4 DEF ApplyConfirmed
  <2>2. /\ gateway' \in [Gateways -> Message]
        /\ \A d \in Gateways : gateway'[d].at = "confirmed"
              => gateway[d].at = "confirmed" /\ gateway'[d] = gateway[d]
    BY <1>1, <2>1
  <2>3. /\ UNCHANGED <<shipment, untold, known, webhook, calls, heard, part, drops>>
        /\ executed' = TRUE /\ moved' = moved \cup gateway[g].parts
    BY <1>4 DEF ApplyConfirmed
  <2>4. Settled' /\ moved' \subseteq Parts
    BY <1>1, <1>2, <2>1, <2>3 DEF Settled, Message
  <2>5. orderStatus' \in OrderStatuses
    BY <1>1, <1>4 DEF ApplyConfirmed
  <2>6. DeliveryTypeOK'
    <3>1. executed' \in BOOLEAN
      BY <2>3
    <3> QED BY <2>2, <2>3, <2>4, <2>5, <3>1, Zenon DEF DeliveryInv, DeliveryTypeOK, Message
  <2>7. Confirmed'
    BY <1>2, <2>2, <2>3, <2>4 DEF DeliveryInv, Confirmed
  <2> QED BY <2>6, <2>7 DEF DeliveryInv
<1>5. ASSUME NEW k \in Kinds, Claim(g, k) PROVE DeliveryInv'
  <2> DEFINE v == [at |-> k, saw |-> orderStatus,
                   parts |-> {i \in Parts : part[i] = "pending"}]
  <2>1. v \in Message /\ v.at = k /\ v.parts = {i \in Parts : part[i] = "pending"}
    BY <1>1 DEF Message
  <2>2. gateway' = [gateway EXCEPT ![g] = v] /\ heard[k] > 0
        /\ heard' = [heard EXCEPT ![k] = @ - 1] /\ gateway[g].at = "idle"
    BY <1>5 DEF Claim
  <2> HIDE DEF v
  <2>3. /\ gateway' \in [Gateways -> Message] /\ gateway'[g] = v
        /\ \A d \in Gateways \ {g} : gateway'[d] = gateway[d]
    BY <1>1, <2>1, <2>2
  <2>4. heard' \in [Kinds -> Nat]
        /\ (k # "confirmed" => heard'["confirmed"] = heard["confirmed"])
    <3>1. heard[k] \in Nat /\ "confirmed" \in Kinds
      BY <1>1 DEF Kinds
    <3>2. heard[k] - 1 \in Nat
      BY <2>2, <3>1
    <3> QED BY <1>1, <2>2, <3>1, <3>2
  <2>5. /\ UNCHANGED <<shipment, untold, orderStatus, known, webhook, calls, part,
                       moved, drops>>
        /\ executed' = executed
    BY <1>5 DEF Claim
  <2>6. (UnderWay => UnderWay') /\ (Settled => Settled')
    <3>1. k = "confirmed" => UnderWay'
      BY <2>1, <2>3 DEF UnderWay
    <3>2. k # "confirmed" /\ UnderWay => UnderWay'
      BY <2>2, <2>3, <2>4 DEF UnderWay
    <3> QED BY <2>5, <3>1, <3>2 DEF Settled
  <2>7. orderStatus = "delivered" => Announced
    BY DEF Announced
  <2>8. \A d \in Gateways : gateway'[d].at = "confirmed" =>
           \A i \in Parts : part[i] = "pending" => i \in gateway'[d].parts
    BY <1>2, <2>1, <2>3
  <2> QED BY <1>1, <2>3, <2>4, <2>5, <2>6, <2>7, <2>8, ListenerGoes
<1> QED BY <1>3, <1>4, <1>5 DEF ListenerMoves

LEMMA DropKeeps == ASSUME DeliveryInv, DropMessage PROVE DeliveryInv'
<1> USE DeliveryTyped
<1>1. /\ gateway \in [Gateways -> Message] /\ heard \in [Kinds -> Nat]
      /\ NoMessage \in Message /\ NoMessage.at = "idle"
      /\ moved \subseteq Parts /\ orderStatus \in OrderStatuses
      /\ executed \in BOOLEAN /\ drops \in Nat
  <2>1. NoMessage \in Message /\ NoMessage.at = "idle"
    BY DEF NoMessage, Message, OrderStatuses
  <2>2. executed \in BOOLEAN
    BY Zenon DEF DeliveryInv, DeliveryTypeOK
  <2> QED BY <2>1, <2>2 DEF DeliveryInv, DeliveryTypeOK, OrderStatuses
<1>2. drops' = drops + 1
      /\ UNCHANGED <<shipment, untold, orderStatus, known, webhook, calls, part, moved>>
      /\ executed' = executed
  BY DEF DropMessage
<1>3. drops' \in Nat /\ drops' # 0
  BY <1>1, <1>2
<1>4. heard' \in [Kinds -> Nat]
  <2>1. CASE heard' = heard
    BY <1>1, <2>1
  <2>2. CASE heard' # heard
    <3>1. PICK k \in Kinds : heard[k] > 0 /\ heard' = [heard EXCEPT ![k] = @ - 1]
      BY <2>2 DEF DropMessage
    <3>2. heard[k] \in Nat
      BY <1>1
    <3>3. heard[k] - 1 \in Nat
      BY <3>1, <3>2
    <3> QED BY <1>1, <3>1, <3>3
  <2> QED BY <2>1, <2>2
<1>5. /\ gateway' \in [Gateways -> Message]
      /\ \A d \in Gateways : gateway'[d].at = "confirmed" => gateway'[d] = gateway[d]
  <2>1. CASE gateway' = gateway
    BY <1>1, <2>1
  <2>2. CASE gateway' # gateway
    <3>1. PICK g \in Gateways : gateway' = [gateway EXCEPT ![g] = NoMessage]
      BY <2>2 DEF DropMessage
    <3> QED BY <1>1, <3>1
  <2> QED BY <2>1, <2>2
<1>6. \A d \in Gateways : gateway'[d].at = "confirmed" =>
         \A i \in Parts : part[i] = "pending" => i \in gateway'[d].parts
  BY <1>5 DEF DeliveryInv, Confirmed
<1>7. orderStatus = "delivered" => Announced
  BY DEF Announced
<1>8. Settled => Settled'
  BY <1>2 DEF Settled
<1> QED BY <1>1, <1>2, <1>3, <1>4, <1>5, <1>6, <1>7, <1>8, ListenerGoes

LEMMA PartKeeps ==
    ASSUME DeliveryInv, NEW i \in Parts, PartEnds(i)
    PROVE  DeliveryInv'
<1>1. PICK s \in {"paid", "overdue"} : part' = [part EXCEPT ![i] = s]
  BY DEF PartEnds
<1>2. part \in [Parts -> {"pending", "paid", "overdue"}] /\ executed \in BOOLEAN
  BY Zenon DEF DeliveryInv, DeliveryTypeOK
<1>3. part' \in [Parts -> {"pending", "paid", "overdue"}]
      /\ \A j \in Parts : part'[j] = "pending" => part[j] = "pending"
  BY <1>1, <1>2
<1>4. /\ UNCHANGED <<shipment, untold, orderStatus, known, webhook, calls, heard, gateway,
                     moved, drops>>
      /\ executed' = executed
  BY DEF PartEnds
<1>5. DeliveryTypeOK'
  BY <1>2, <1>3, <1>4, Zenon DEF DeliveryInv, DeliveryTypeOK
<1>6. Settled => Settled'
  BY <1>3, <1>4 DEF Settled
<1>7. (Announced' => Announced) /\ (UnderWay => UnderWay')
  BY <1>4 DEF Announced, UnderWay
<1>8. Confirmed'
  BY <1>3, <1>4, <1>6, <1>7 DEF DeliveryInv, Confirmed
<1> QED BY <1>5, <1>8 DEF DeliveryInv

LEMMA DeliveryInvStarts == DeliveryInit => DeliveryInv
<1> SUFFICES ASSUME DeliveryInit PROVE DeliveryInv
  OBVIOUS
<1>1. DeliveryTypeOK
  BY DEF DeliveryInit, DeliveryTypeOK, NoHook, NoMessage, OrderStatuses, Kinds
<1>2. Confirmed
  BY DEF DeliveryInit, Confirmed, Announced, NoHook, NoMessage
<1> QED BY <1>1, <1>2 DEF DeliveryInv

LEMMA DeliveryInvKept == DeliveryInv /\ [DeliveryNext]_deliveryVars => DeliveryInv'
<1> SUFFICES ASSUME DeliveryInv, [DeliveryNext]_deliveryVars PROVE DeliveryInv'
  OBVIOUS
<1>1. CASE UNCHANGED deliveryVars
  <2>1. /\ UNCHANGED <<shipment, untold, orderStatus, known, webhook, calls, heard,
                       gateway, part, moved, drops>>
        /\ executed' = executed
    BY <1>1 DEF deliveryVars
  <2>2. DeliveryTypeOK'
    BY <2>1, Zenon DEF DeliveryInv, DeliveryTypeOK
  <2>3. Confirmed'
    BY <2>1 DEF DeliveryInv, Confirmed, Announced, UnderWay, Settled
  <2> QED BY <2>2, <2>3 DEF DeliveryInv
<1>2. ASSUME NEW h \in Hooks, HookMoves(h) PROVE DeliveryInv'
  BY <1>2, HookKeeps
<1>3. ASSUME NEW g \in Gateways, ListenerMoves(g) PROVE DeliveryInv'
  BY <1>3, ListenerKeeps
<1>4. ASSUME NEW tag \in Tags, HookKeyLapses(tag) PROVE DeliveryInv'
  BY <1>4, KeyLapseKeeps
<1> QED BY <1>1, <1>2, <1>3, <1>4, DropKeeps, PartKeeps
        DEF DeliveryNext, HookMoves, ListenerMoves

\* Whichever of the two services writes it first, a delivered order has its
\* agency executed and its pending installments moved once a confirmation was
\* published and none is under way, unless a message was lost
\* (delivery_events.py:63-76).
THEOREM DeliveryExecutes == DeliverySpec => [](DeliveryTypeOK /\ DeliveredExecutes)
<1>1. DeliveryInv => DeliveryTypeOK /\ DeliveredExecutes
  <2> SUFFICES ASSUME DeliveryInv, orderStatus = "delivered", ~untold, drops = 0,
                      heard["confirmed"] = 0,
                      \A g \in Gateways : gateway[g].at # "confirmed"
               PROVE  Settled
    BY DEF DeliveryInv, DeliveredExecutes, Settled
  <2> QED BY DEF DeliveryInv, Confirmed, Announced, UnderWay
<1> QED BY <1>1, DeliveryInvStarts, DeliveryInvKept, PTL DEF DeliverySpec

----------------------------------------------------------------------------
(* The scraping jobs                                                       *)

Scraping == [at : {"idle", "begin", "scrape", "sleep", "complete", "announce"},
             on : Jobs \cup {NoScrape}]
Sweeping == [at : {"idle", "push", "commit", "archive"}, on : Jobs \cup {NoScrape}]
Refreshing == [at : {"idle", "commit", "push"}, on : Jobs \cup {NoScrape}]

Stored(j) == scraping[j] + deadJobs[j]
Carries(r, j) == refresher[r].at = "push" /\ refresher[r].on = j

\* There is a payload for the job.
Present(j) ==
    \/ Stored(j) > 0
    \/ \E t \in Scrapers : scraper[t].on = j
    \/ \E r \in Refreshers : Carries(r, j)

\* The payload is in one place: stored, with a task, or with a refresh.
OnePlace(j) ==
    /\ Stored(j) <= 1
    /\ Stored(j) = 0 \/ \A t \in Scrapers : scraper[t].on # j
    /\ \A t, u \in Scrapers : scraper[t].on = j /\ scraper[u].on = j => t = u
    /\ \A r \in Refreshers : Carries(r, j) =>
          Stored(j) = 0 /\ \A t \in Scrapers : scraper[t].on # j

\* A task at work has an open job, one that announces a job that is over.
Attended(j) ==
    \A t \in Scrapers : scraper[t].on = j =>
       /\ scraper[t].at # "idle"
       /\ scraper[t].at \in {"scrape", "sleep", "complete"} => jobStatus[j] \in Open
       /\ scraper[t].at = "announce" => jobStatus[j] \in {"completed", "failed"}

\* One sweep or one refresh makes the job, before which it has no status and,
\* until the sweep has pushed it, no payload.
MadeOnce(j) ==
    /\ \A w \in Sweepers : sweeper[w].on = j =>
          /\ sweeper[w].at \in {"push", "commit"} /\ jobStatus[j] = "none"
          /\ sweeper[w].at = "push" => ~Present(j)
          /\ sweeper[w].at = "commit" => Present(j) \/ j \in dropped
          /\ \A x \in Sweepers : sweeper[x].on = j => x = w
          /\ \A r \in Refreshers : refresher[r].on # j
    /\ \A r \in Refreshers : refresher[r].on = j =>
          /\ refresher[r].at \in {"commit", "push"}
          /\ refresher[r].at = "commit" => jobStatus[j] = "none" /\ ~Present(j)
          /\ \A q \in Refreshers : refresher[q].on = j => q = r

JobInv(j) ==
    /\ OnePlace(j) /\ Attended(j) /\ MadeOnce(j)
    /\ jobStatus[j] \in Open => Present(j) \/ j \in dropped

\* Who is at work on a job names it.
Named ==
    /\ \A t \in Scrapers : scraper[t].at # "idle" => scraper[t].on \in Jobs
    /\ \A w \in Sweepers : sweeper[w].at \in {"push", "commit"}
                              => sweeper[w].on \in Jobs
    /\ \A r \in Refreshers : refresher[r].at # "idle" => refresher[r].on \in Jobs

CatalogueInv == CatalogueTypeOK /\ Named /\ \A j \in Jobs : JobInv(j)

WorkTyped ==
    /\ jobStatus \in [Jobs -> Open \cup {"none", "completed", "failed"}]
    /\ attempt \in [Jobs -> 1..MAX_ATTEMPTS]
    /\ scraping \in [Jobs -> Nat] /\ deadJobs \in [Jobs -> Nat]
    /\ scraper \in [Scrapers -> Scraping] /\ sweeper \in [Sweepers -> Sweeping]
    /\ refresher \in [Refreshers -> Refreshing] /\ dropped \subseteq Jobs

PageTyped ==
    /\ product \in {"none", "live", "archived"}
    /\ banned \in BOOLEAN /\ stale \in BOOLEAN
    /\ asker \in [Askers -> {"idle", "look", "extract", "store", "finish"}]
    /\ sweepLock \in BOOLEAN /\ urlLock \in BOOLEAN
    /\ troubles \in Nat

LEMMA CatalogueTyped == CatalogueTypeOK <=> WorkTyped /\ PageTyped
BY Zenon DEF CatalogueTypeOK, WorkTyped, PageTyped, Scraping, Sweeping, Refreshing

LEMMA TroubleCounts == ASSUME troubles \in Nat, Trouble PROVE troubles' \in Nat
BY DEF Trouble

\* Whatever a step does to the page, its variables keep their types.
LEMMA PageKeeps ==
    ASSUME CatalogueTypeOK, CatalogueNext
    PROVE  PageTyped'
<1> USE DEF item, locks, PageTyped, Upsert
<1> PageTyped
  BY CatalogueTyped
<1>1. CASE GrowStale \/ Ban \/ SweepLockExpires
  BY <1>1, Zenon DEF GrowStale, Ban, SweepLockExpires
<1>2. CASE UrlLockExpires \/ PurgeJobs \/ \E j \in Jobs : ReprocessJob(j)
  <2>1. troubles' \in Nat
    BY <1>2, TroubleCounts DEF UrlLockExpires, PurgeJobs, ReprocessJob
  <2> QED BY <1>2, <2>1, Zenon DEF UrlLockExpires, PurgeJobs, ReprocessJob
<1>3. ASSUME NEW w \in Sweepers,
             \/ SweepPush(w) \/ SweepCommit(w) \/ ArchiveOld(w) \/ SweepCrash(w)
             \/ \E j \in Jobs : SweepRead(w, j)
      PROVE  PageTyped'
  <2>1. troubles' \in Nat
    BY <1>3, TroubleCounts
       DEF SweepPush, SweepCommit, ArchiveOld, SweepCrash, SweepRead
  <2>2. CASE ArchiveOld(w)
    <3>1. product' \in {"none", "live", "archived"}
      BY <2>2 DEF ArchiveOld
    <3> QED BY <2>1, <2>2, <3>1, Zenon DEF ArchiveOld
  <2>3. CASE ~ArchiveOld(w)
    BY <1>3, <2>1, <2>3, Zenon DEF SweepPush, SweepCommit, SweepCrash, SweepRead
  <2> QED BY <2>2, <2>3
<1>4. ASSUME NEW r \in Refreshers,
             \/ RefreshCommit(r) \/ RefreshPush(r) \/ RefreshCrash(r)
             \/ \E j \in Jobs : RefreshRead(r, j)
      PROVE  PageTyped'
  <2>1. troubles' \in Nat
    BY <1>4, TroubleCounts DEF RefreshCommit, RefreshPush, RefreshCrash, RefreshRead
  <2> QED BY <1>4, <2>1, Zenon DEF RefreshCommit, RefreshPush, RefreshCrash, RefreshRead
<1>5. ASSUME NEW t \in Scrapers,
             \/ BeginScrape(t) \/ RetryLater(t) \/ PushJob(t) \/ FailJob(t)
             \/ CacheImage(t) \/ CompleteJob(t) \/ AnnounceJob(t)
             \/ ScrapeRaises(t) \/ ScrapeCrash(t) \/ \E j \in Jobs : PopJob(t, j)
      PROVE  PageTyped'
  <2>1. troubles' \in Nat
    BY <1>5, TroubleCounts
       DEF BeginScrape, RetryLater, PushJob, FailJob, CacheImage, CompleteJob,
           AnnounceJob, ScrapeRaises, ScrapeCrash, PopJob
  <2>2. product' \in {"none", "live", "archived"}
    BY <1>5
       DEF BeginScrape, RetryLater, PushJob, FailJob, CacheImage, CompleteJob,
           AnnounceJob, ScrapeRaises, ScrapeCrash, PopJob
  <2> QED
    BY <1>5, <2>1, <2>2, Zenon
       DEF BeginScrape, RetryLater, PushJob, FailJob, CacheImage, CompleteJob,
           AnnounceJob, ScrapeRaises, ScrapeCrash, PopJob
<1>6. ASSUME NEW a \in Askers,
             \/ AskUrl(a) \/ LookUrl(a) \/ ExtractUrl(a) \/ StoreUrl(a) \/ FinishUrl(a)
      PROVE  PageTyped'
  <2>1. /\ asker' \in [Askers -> {"idle", "look", "extract", "store", "finish"}]
        /\ product' \in {"none", "live", "archived"} /\ troubles' \in Nat
    BY <1>6 DEF AskUrl, LookUrl, ExtractUrl, StoreUrl, FinishUrl, Asker
  <2> QED BY <1>6, <2>1, Zenon DEF AskUrl, LookUrl, ExtractUrl, StoreUrl, FinishUrl
<1> QED BY <1>1, <1>2, <1>3, <1>4, <1>5, <1>6 DEF CatalogueNext

\* A step that touches no job but k and no process on another job.
LEMMA OneJob ==
    ASSUME CatalogueInv, WorkTyped', PageTyped', Named', NEW k \in Jobs,
           JobInv(k)',
           \A j \in Jobs \ {k} :
              /\ jobStatus'[j] = jobStatus[j] /\ scraping'[j] = scraping[j]
              /\ deadJobs'[j] = deadJobs[j] /\ (j \in dropped => j \in dropped'),
           \A t \in Scrapers : scraper'[t] = scraper[t]
              \/ (scraper[t].on \in {k, NoScrape} /\ scraper'[t].on \in {k, NoScrape}),
           \A w \in Sweepers : sweeper'[w] = sweeper[w]
              \/ (sweeper[w].on \in {k, NoScrape} /\ sweeper'[w].on \in {k, NoScrape}),
           \A r \in Refreshers : refresher'[r] = refresher[r]
              \/ (refresher[r].on \in {k, NoScrape} /\ refresher'[r].on \in {k, NoScrape})
    PROVE  CatalogueInv'
<1>1. ASSUME NEW j \in Jobs \ {k} PROVE JobInv(j)'
  <2>1. /\ jobStatus'[j] = jobStatus[j] /\ Stored(j)' = Stored(j)
        /\ j \in dropped => j \in dropped'
        /\ j # k /\ j # NoScrape
    BY CatalogueAssumption DEF Stored
  <2>2. /\ \A t \in Scrapers : scraper'[t].on = j <=> scraper[t].on = j
        /\ \A t \in Scrapers : scraper[t].on = j => scraper'[t] = scraper[t]
    BY <2>1
  <2>3. /\ \A w \in Sweepers : sweeper'[w].on = j <=> sweeper[w].on = j
        /\ \A w \in Sweepers : sweeper[w].on = j => sweeper'[w] = sweeper[w]
    BY <2>1
  <2>4. /\ \A r \in Refreshers : refresher'[r].on = j <=> refresher[r].on = j
        /\ \A r \in Refreshers : refresher[r].on = j => refresher'[r] = refresher[r]
    BY <2>1
  <2>5. \A r \in Refreshers : Carries(r, j)' <=> Carries(r, j)
    BY <2>4 DEF Carries
  <2>6. Present(j)' <=> Present(j)
    BY <2>1, <2>2, <2>5 DEF Present
  <2>7. JobInv(j)
    BY DEF CatalogueInv
  <2>8. OnePlace(j)'
    BY <2>1, <2>2, <2>5, <2>7 DEF JobInv, OnePlace
  <2>9. Attended(j)'
    BY <2>1, <2>2, <2>7 DEF JobInv, Attended
  <2>10. MadeOnce(j)'
    BY <2>1, <2>3, <2>4, <2>6, <2>7 DEF JobInv, MadeOnce
  <2> QED BY <2>1, <2>6, <2>7, <2>8, <2>9, <2>10 DEF JobInv
<1>2. CatalogueTypeOK'
  BY CatalogueTyped, PTL
<1> QED BY <1>1, <1>2 DEF CatalogueInv

\* The records that the processes go through.
LEMMA ScrapingFields ==
    ASSUME NEW k \in Scraping
    PROVE  /\ AtRest \in Scraping /\ AtRest.at = "idle" /\ AtRest.on = NoScrape
           /\ \A at \in {"idle", "begin", "scrape", "sleep", "complete", "announce"} :
                LET f == [k EXCEPT !.at = at] IN
                f \in Scraping /\ f.at = at /\ f.on = k.on
BY DEF Scraping, AtRest

LEMMA BuilderFields ==
    /\ AtRest \in Sweeping /\ AtRest \in Refreshing
    /\ AtRest.at = "idle" /\ AtRest.on = NoScrape
    /\ \A k \in Sweeping : LET f == [k EXCEPT !.at = "commit"] IN
         f \in Sweeping /\ f.at = "commit" /\ f.on = k.on
    /\ \A k \in Refreshing : LET f == [k EXCEPT !.at = "push"] IN
         f \in Refreshing /\ f.at = "push" /\ f.on = k.on
BY DEF Sweeping, Refreshing, AtRest

\* A job that nobody has made has no payload and nobody at work on it.
LEMMA NewJobFree ==
    ASSUME WorkTyped, NEW j \in Jobs, NewJob(j)
    PROVE  /\ ~Present(j) /\ jobStatus[j] = "none" /\ j \notin dropped
           /\ \A w \in Sweepers : sweeper[w].on # j
           /\ \A r \in Refreshers : refresher[r].on # j
<1> DEFINE T == {t \in Scrapers : scraper[t].on = j}
           R == {r \in Refreshers : refresher[r] = [at |-> "push", on |-> j]}
<1>1. IsFiniteSet(T) /\ IsFiniteSet(R)
  BY CatalogueAssumption, FS_Subset
<1>2. Cardinality(T) \in Nat /\ Cardinality(R) \in Nat
      /\ (Cardinality(T) = 0 <=> T = {}) /\ (Cardinality(R) = 0 <=> R = {})
  BY <1>1, FS_CardinalityType, FS_EmptySet
<1>3. scraping[j] \in Nat /\ deadJobs[j] \in Nat
  BY DEF WorkTyped
<1>4. scraping[j] + deadJobs[j] + Cardinality(T) + Cardinality(R) = 0
  BY DEF NewJob, Outstanding
<1>5. scraping[j] = 0 /\ deadJobs[j] = 0 /\ Cardinality(T) = 0 /\ Cardinality(R) = 0
  <2>1. \A a, b, c, d \in Nat : a + b + c + d = 0 => a = 0 /\ b = 0 /\ c = 0 /\ d = 0
    OBVIOUS
  <2> HIDE DEF T, R
  <2> QED BY <1>2, <1>3, <1>4, <2>1, Zenon
<1>6. T = {} /\ R = {}
  BY <1>2, <1>5
<1>7. \A r \in Refreshers : ~Carries(r, j)
  BY <1>6 DEF NewJob, Carries
<1> QED BY <1>5, <1>6, <1>7 DEF NewJob, Present, Stored


\* The other way round, from the one place of a payload to the sum.
LEMMA AtMostOne ==
    ASSUME NEW S, \A x, y \in S : x = y
    PROVE  Cardinality(S) = IF S = {} THEN 0 ELSE 1
<1>1. CASE S = {}
  BY <1>1, FS_EmptySet
<1>2. CASE S # {}
  <2>1. PICK x \in S : S = {x}
    BY <1>2
  <2> QED BY <2>1, FS_Singleton
<1> QED BY <1>1, <1>2

LEMMA OneCounted ==
    ASSUME WorkTyped, NEW j \in Jobs, JobInv(j)
    PROVE  Outstanding(j) = IF Present(j) THEN 1 ELSE 0
<1> DEFINE T == {t \in Scrapers : scraper[t].on = j}
           R == {r \in Refreshers : refresher[r] = [at |-> "push", on |-> j]}
<1>1. \A r \in Refreshers : r \in R <=> Carries(r, j)
  BY DEF Carries, WorkTyped, Refreshing
<1>2. /\ Cardinality(T) = IF T = {} THEN 0 ELSE 1
      /\ Cardinality(R) = IF R = {} THEN 0 ELSE 1
  <2>1. \A t, u \in T : t = u
    BY DEF JobInv, OnePlace
  <2>2. \A q, r \in R : q = r
    BY DEF JobInv, MadeOnce
  <2> HIDE DEF T, R
  <2> QED BY <2>1, <2>2, AtMostOne
<1>3. /\ Present(j) <=> Stored(j) > 0 \/ T # {} \/ R # {}
      /\ Stored(j) <= 1
      /\ Stored(j) = 0 \/ T = {}
      /\ R # {} => Stored(j) = 0 /\ T = {}
  BY <1>1 DEF JobInv, OnePlace, Present
<1>4. Outstanding(j) = Stored(j) + Cardinality(T) + Cardinality(R)
  BY DEF Outstanding, Stored
<1>5. Stored(j) \in Nat
  BY DEF Stored, WorkTyped
<1> HIDE DEF T, R
<1> QED BY <1>2, <1>3, <1>4, <1>5

----------------------------------------------------------------------------
(* What makes jobs: the sweep and the refresh                              *)

\* The process of a sweep goes to the record v.
LEMMA SweepGoes ==
    ASSUME CatalogueInv, NEW w \in Sweepers, NEW v \in Sweeping, NEW k \in Jobs,
           sweeper' = [sweeper EXCEPT ![w] = v],
           sweeper[w].on \in {k, NoScrape}, v.on \in {k, NoScrape},
           v.at \in {"push", "commit"} => v.on = k
    PROVE  /\ sweeper' \in [Sweepers -> Sweeping] /\ sweeper'[w] = v
           /\ \A x \in Sweepers \ {w} : sweeper'[x] = sweeper[x]
           /\ \A x \in Sweepers : sweeper'[x] = sweeper[x]
              \/ (sweeper[x].on \in {k, NoScrape} /\ sweeper'[x].on \in {k, NoScrape})
           /\ \A x \in Sweepers : sweeper'[x].at \in {"push", "commit"}
                                     => sweeper'[x].on \in Jobs
<1>1. sweeper \in [Sweepers -> Sweeping]
  BY CatalogueTyped DEF CatalogueInv, WorkTyped
<1>2. \A x \in Sweepers : sweeper[x].at \in {"push", "commit"} => sweeper[x].on \in Jobs
  BY DEF CatalogueInv, Named
<1>3. /\ sweeper' \in [Sweepers -> Sweeping] /\ sweeper'[w] = v
      /\ \A x \in Sweepers \ {w} : sweeper'[x] = sweeper[x]
  BY <1>1
<1>4. ASSUME NEW x \in Sweepers
      PROVE  /\ sweeper'[x] = sweeper[x]
                \/ (sweeper[x].on \in {k, NoScrape} /\ sweeper'[x].on \in {k, NoScrape})
             /\ sweeper'[x].at \in {"push", "commit"} => sweeper'[x].on \in Jobs
  <2>1. CASE x = w
    BY <1>3, <2>1
  <2>2. CASE x # w
    BY <1>2, <1>3, <2>2
  <2> QED BY <2>1, <2>2
<1> QED BY <1>3, <1>4

LEMMA RefreshGoes ==
    ASSUME CatalogueInv, NEW r \in Refreshers, NEW v \in Refreshing, NEW k \in Jobs,
           refresher' = [refresher EXCEPT ![r] = v],
           refresher[r].on \in {k, NoScrape}, v.on \in {k, NoScrape},
           v.at # "idle" => v.on = k
    PROVE  /\ refresher' \in [Refreshers -> Refreshing] /\ refresher'[r] = v
           /\ \A x \in Refreshers \ {r} : refresher'[x] = refresher[x]
           /\ \A x \in Refreshers : refresher'[x] = refresher[x]
              \/ (refresher[x].on \in {k, NoScrape} /\ refresher'[x].on \in {k, NoScrape})
           /\ \A x \in Refreshers : refresher'[x].at # "idle" => refresher'[x].on \in Jobs
<1>1. refresher \in [Refreshers -> Refreshing]
  BY CatalogueTyped DEF CatalogueInv, WorkTyped
<1>2. \A x \in Refreshers : refresher[x].at # "idle" => refresher[x].on \in Jobs
  BY DEF CatalogueInv, Named
<1>3. /\ refresher' \in [Refreshers -> Refreshing] /\ refresher'[r] = v
      /\ \A x \in Refreshers \ {r} : refresher'[x] = refresher[x]
  BY <1>1
<1>4. ASSUME NEW x \in Refreshers
      PROVE  /\ refresher'[x] = refresher[x]
                \/ (refresher[x].on \in {k, NoScrape} /\ refresher'[x].on \in {k, NoScrape})
             /\ refresher'[x].at # "idle" => refresher'[x].on \in Jobs
  <2>1. CASE x = r
    BY <1>3, <2>1
  <2>2. CASE x # r
    BY <1>2, <1>3, <2>2
  <2> QED BY <2>1, <2>2
<1> QED BY <1>3, <1>4

LEMMA ScraperGoes ==
    ASSUME CatalogueInv, NEW t \in Scrapers, NEW v \in Scraping, NEW k \in Jobs,
           scraper' = [scraper EXCEPT ![t] = v],
           scraper[t].on \in {k, NoScrape}, v.on \in {k, NoScrape},
           v.at # "idle" => v.on = k
    PROVE  /\ scraper' \in [Scrapers -> Scraping] /\ scraper'[t] = v
           /\ \A x \in Scrapers \ {t} : scraper'[x] = scraper[x]
           /\ \A x \in Scrapers : scraper'[x] = scraper[x]
              \/ (scraper[x].on \in {k, NoScrape} /\ scraper'[x].on \in {k, NoScrape})
           /\ \A x \in Scrapers : scraper'[x].at # "idle" => scraper'[x].on \in Jobs
<1>1. scraper \in [Scrapers -> Scraping]
  BY CatalogueTyped DEF CatalogueInv, WorkTyped
<1>2. \A x \in Scrapers : scraper[x].at # "idle" => scraper[x].on \in Jobs
  BY DEF CatalogueInv, Named
<1>3. /\ scraper' \in [Scrapers -> Scraping] /\ scraper'[t] = v
      /\ \A x \in Scrapers \ {t} : scraper'[x] = scraper[x]
  BY <1>1
<1>4. ASSUME NEW x \in Scrapers
      PROVE  /\ scraper'[x] = scraper[x]
                \/ (scraper[x].on \in {k, NoScrape} /\ scraper'[x].on \in {k, NoScrape})
             /\ scraper'[x].at # "idle" => scraper'[x].on \in Jobs
  <2>1. CASE x = t
    BY <1>3, <2>1
  <2>2. CASE x # t
    BY <1>2, <1>3, <2>2
  <2> QED BY <2>1, <2>2
<1> QED BY <1>3, <1>4

\* An idle process names no job.
LEMMA IdleNamesNone ==
    ASSUME CatalogueInv
    PROVE  /\ \A t \in Scrapers : scraper[t].at = "idle" => scraper[t].on = NoScrape
           /\ \A w \in Sweepers : sweeper[w].at \in {"idle", "archive"}
                                     => sweeper[w].on = NoScrape
           /\ \A r \in Refreshers : refresher[r].at = "idle"
                                     => refresher[r].on = NoScrape
<1>1. WorkTyped
  BY CatalogueTyped DEF CatalogueInv
<1>2. \A j \in Jobs : Attended(j) /\ MadeOnce(j)
  BY DEF CatalogueInv, JobInv
<1> QED BY <1>1, <1>2 DEF WorkTyped, Scraping, Sweeping, Refreshing, Attended, MadeOnce

\* The other processes and the other jobs of a step of the scraping worker.
ScrapersStep(k) ==
    /\ UNCHANGED <<sweeper, refresher>>
    /\ \A j \in Jobs \ {k} :
          /\ jobStatus'[j] = jobStatus[j] /\ scraping'[j] = scraping[j]
          /\ deadJobs'[j] = deadJobs[j] /\ (j \in dropped => j \in dropped')

\* A task that keeps its job: it may take the job from open to open or to its
\* end, and leaves a job without status alone.
LEMMA TaskKeeps ==
    ASSUME CatalogueInv, WorkTyped', PageTyped', NEW t \in Scrapers, NEW v \in Scraping,
           NEW k \in Jobs, scraper[t].on = k, v.on = k, v.at # "idle",
           scraper' = [scraper EXCEPT ![t] = v], ScrapersStep(k),
           scraping' = scraping, deadJobs' = deadJobs, dropped' = dropped,
           jobStatus'[k] = jobStatus[k] \/ jobStatus[k] # "none",
           v.at \in {"scrape", "sleep", "complete"} => jobStatus'[k] \in Open,
           v.at = "announce" => jobStatus'[k] \in {"completed", "failed"}
    PROVE  CatalogueInv'
<1>1. /\ scraper' \in [Scrapers -> Scraping] /\ scraper'[t] = v
      /\ \A x \in Scrapers \ {t} : scraper'[x] = scraper[x]
      /\ \A x \in Scrapers : scraper'[x] = scraper[x]
         \/ (scraper[x].on \in {k, NoScrape} /\ scraper'[x].on \in {k, NoScrape})
      /\ \A x \in Scrapers : scraper'[x].at # "idle" => scraper'[x].on \in Jobs
  BY ScraperGoes
<1>2. \A x \in Scrapers : scraper'[x].on = k <=> scraper[x].on = k
  BY <1>1
<1>3. sweeper' = sweeper /\ refresher' = refresher /\ Stored(k)' = Stored(k)
      /\ \A r \in Refreshers : Carries(r, k)' <=> Carries(r, k)
  BY DEF ScrapersStep, Stored, Carries
<1>4. JobInv(k)
  BY DEF CatalogueInv
<1>5. Present(k) /\ Present(k)'
  BY <1>1, <1>2 DEF Present
<1>6. OnePlace(k)'
  BY <1>2, <1>3, <1>4 DEF JobInv, OnePlace
<1>7. Attended(k)'
  <2>1. \A x \in Scrapers : scraper[x].on = k => x = t
    BY <1>4 DEF JobInv, OnePlace
  <2> QED BY <1>1, <1>2, <2>1 DEF Attended
<1>8. MadeOnce(k)'
  <2>1. MadeOnce(k)
    BY <1>4 DEF JobInv
  <2>2. \A w \in Sweepers : sweeper[w].on = k =>
          jobStatus[k] = "none" /\ jobStatus'[k] = "none" /\ sweeper[w].at = "commit"
    BY <1>5, <2>1 DEF MadeOnce
  <2>3. \A r \in Refreshers : refresher[r].on = k => refresher[r].at = "push"
    BY <1>5, <2>1 DEF MadeOnce
  <2> QED BY <1>3, <1>5, <2>1, <2>2, <2>3 DEF MadeOnce
<1>9. JobInv(k)'
  BY <1>5, <1>6, <1>7, <1>8 DEF JobInv
<1>10. Named'
  BY <1>1, <1>3 DEF Named, CatalogueInv
<1> QED BY <1>1, <1>3, <1>9, <1>10, OneJob DEF ScrapersStep

\* A task that leaves its job: the payload is stored again or is lost, which
\* only a job that is over may do without a note.
LEMMA TaskLeaves ==
    ASSUME CatalogueInv, WorkTyped', PageTyped', NEW t \in Scrapers, NEW k \in Jobs,
           scraper[t].on = k,
           scraper' = [scraper EXCEPT ![t] = AtRest], ScrapersStep(k),
           jobStatus' = jobStatus, k \in dropped => k \in dropped',
           \/ scraping'[k] = scraping[k] + 1 /\ deadJobs'[k] = deadJobs[k]
           \/ scraping'[k] = scraping[k] /\ deadJobs'[k] = deadJobs[k] + 1
           \/ /\ scraping'[k] = scraping[k] /\ deadJobs'[k] = deadJobs[k]
              /\ k \in dropped' \/ jobStatus[k] \in {"completed", "failed"}
    PROVE  CatalogueInv'
<1>0. WorkTyped
  BY CatalogueTyped DEF CatalogueInv
<1>1. AtRest \in Scraping /\ AtRest.at = "idle" /\ AtRest.on = NoScrape
      /\ NoScrape # k
  BY ScrapingFields, CatalogueAssumption DEF WorkTyped, AtRest, Scraping
<1>2. /\ scraper' \in [Scrapers -> Scraping] /\ scraper'[t] = AtRest
      /\ \A x \in Scrapers \ {t} : scraper'[x] = scraper[x]
      /\ \A x \in Scrapers : scraper'[x] = scraper[x]
         \/ (scraper[x].on \in {k, NoScrape} /\ scraper'[x].on \in {k, NoScrape})
      /\ \A x \in Scrapers : scraper'[x].at # "idle" => scraper'[x].on \in Jobs
  BY <1>1, ScraperGoes
<1>3. sweeper' = sweeper /\ refresher' = refresher
      /\ \A r \in Refreshers : Carries(r, k)' <=> Carries(r, k)
  BY DEF ScrapersStep, Carries
<1>4. JobInv(k)
  BY DEF CatalogueInv
<1>5. /\ Stored(k) = 0 /\ Present(k) /\ \A r \in Refreshers : ~Carries(r, k)
      /\ \A x \in Scrapers : scraper[x].on = k => x = t
  BY <1>4, <1>0 DEF Present, JobInv, OnePlace, Stored, WorkTyped
<1>6. \A x \in Scrapers : scraper'[x].on # k
  BY <1>1, <1>2, <1>5
<1>7. Stored(k)' = 1 \/ (Stored(k)' = 0 /\ (k \in dropped'
                            \/ jobStatus[k] \in {"completed", "failed"}))
  BY <1>0, <1>5 DEF Stored, WorkTyped
<1>8. Stored(k)' = 1 => Present(k)'
  BY DEF Present
<1>9. OnePlace(k)' /\ Attended(k)'
  BY <1>3, <1>5, <1>6, <1>7 DEF OnePlace, Attended
<1>10. MadeOnce(k)'
  <2>1. MadeOnce(k)
    BY <1>4 DEF JobInv
  <2>2. \A w \in Sweepers : sweeper[w].on = k =>
          sweeper[w].at = "commit" /\ (Present(k)' \/ k \in dropped')
    BY <1>5, <1>7, <1>8, <2>1 DEF MadeOnce
  <2>3. \A r \in Refreshers : refresher[r].on # k
    BY <1>5, <2>1 DEF MadeOnce, Carries
  <2> QED BY <1>3, <2>1, <2>2, <2>3 DEF MadeOnce
<1>11. JobInv(k)'
  BY <1>7, <1>8, <1>9, <1>10 DEF JobInv, Open
<1>12. Named'
  BY <1>2, <1>3 DEF Named, CatalogueInv
<1> QED BY <1>2, <1>3, <1>11, <1>12, OneJob DEF ScrapersStep

LEMMA PopKeeps ==
    ASSUME CatalogueInv, WorkTyped', PageTyped', NEW t \in Scrapers, NEW k \in Jobs,
           PopJob(t, k)
    PROVE  CatalogueInv'
<1>0. WorkTyped
  BY CatalogueTyped DEF CatalogueInv
<1> DEFINE v == [at |-> "begin", on |-> k]
<1>1. v \in Scraping /\ v.at = "begin" /\ v.on = k
  BY DEF Scraping
<1>2. /\ scraper' = [scraper EXCEPT ![t] = v] /\ scraper[t].on = NoScrape
      /\ UNCHANGED <<jobStatus, deadJobs, sweeper, refresher, dropped>>
      /\ scraping[k] > 0 /\ scraping' = [scraping EXCEPT ![k] = @ - 1]
  BY IdleNamesNone DEF PopJob
<1> HIDE DEF v
<1>3. /\ scraper' \in [Scrapers -> Scraping] /\ scraper'[t] = v
      /\ \A x \in Scrapers \ {t} : scraper'[x] = scraper[x]
      /\ \A x \in Scrapers : scraper'[x] = scraper[x]
         \/ (scraper[x].on \in {k, NoScrape} /\ scraper'[x].on \in {k, NoScrape})
      /\ \A x \in Scrapers : scraper'[x].at # "idle" => scraper'[x].on \in Jobs
  BY <1>1, <1>2, ScraperGoes
<1>4. JobInv(k)
  BY DEF CatalogueInv
<1>5. /\ Stored(k) = 1 /\ Present(k) /\ \A r \in Refreshers : ~Carries(r, k)
      /\ \A x \in Scrapers : scraper[x].on # k
  BY <1>0, <1>2, <1>4 DEF Present, JobInv, OnePlace, Stored, WorkTyped
<1>6. /\ Stored(k)' = 0
      /\ \A j \in Jobs \ {k} : scraping'[j] = scraping[j]
      /\ \A x \in Scrapers : scraper'[x].on = k <=> x = t
      /\ Present(k)'
      /\ \A r \in Refreshers : Carries(r, k)' <=> Carries(r, k)
  <2>1. scraping[k] \in Nat /\ deadJobs[k] \in Nat
        /\ scraping'[k] = scraping[k] - 1 /\ deadJobs'[k] = deadJobs[k]
        /\ \A j \in Jobs \ {k} : scraping'[j] = scraping[j]
    BY <1>0, <1>2 DEF WorkTyped
  <2>2. Stored(k)' = 0
    BY <1>5, <2>1 DEF Stored
  <2>3. \A x \in Scrapers : scraper'[x].on = k <=> x = t
    BY <1>1, <1>3, <1>5
  <2> QED BY <1>2, <2>1, <2>2, <2>3 DEF Present, Carries
<1>7. OnePlace(k)' /\ Attended(k)'
  BY <1>1, <1>3, <1>5, <1>6 DEF OnePlace, Attended
<1>8. MadeOnce(k)'
  BY <1>2, <1>4, <1>5, <1>6 DEF JobInv, MadeOnce, Carries
<1>9. JobInv(k)'
  BY <1>6, <1>7, <1>8 DEF JobInv
<1>10. Named'
  BY <1>2, <1>3 DEF Named, CatalogueInv
<1> QED BY <1>2, <1>3, <1>6, <1>9, <1>10, OneJob

\* The payloads that are stored may change their place.
LEMMA StoredKeeps ==
    ASSUME CatalogueInv, WorkTyped', PageTyped', NEW k \in Jobs,
           UNCHANGED <<jobStatus, scraper, sweeper, refresher>>,
           k \in dropped => k \in dropped',
           \A j \in Jobs \ {k} :
              /\ scraping'[j] = scraping[j] /\ deadJobs'[j] = deadJobs[j]
              /\ j \in dropped => j \in dropped',
           Stored(k)' = Stored(k)
    PROVE  CatalogueInv'
<1>1. Present(k)' <=> Present(k)
  BY DEF Present, Carries
<1>2. JobInv(k)
  BY DEF CatalogueInv
<1>3. OnePlace(k)' /\ Attended(k)'
  BY <1>2 DEF JobInv, OnePlace, Attended, Carries
<1>4. MadeOnce(k)'
  BY <1>1, <1>2 DEF JobInv, MadeOnce
<1>5. JobInv(k)' /\ Named'
  BY <1>1, <1>2, <1>3, <1>4 DEF JobInv, CatalogueInv, Named
<1> QED BY <1>5, OneJob

LEMMA DlqKeeps ==
    ASSUME CatalogueInv, WorkTyped', PageTyped',
           PurgeJobs \/ \E j \in Jobs : ReprocessJob(j)
    PROVE  CatalogueInv'
<1>0. WorkTyped
  BY CatalogueTyped DEF CatalogueInv
<1>1. ASSUME NEW k \in Jobs, ReprocessJob(k) PROVE CatalogueInv'
  <2>1. Stored(k)' = Stored(k)
    BY <1>0, <1>1 DEF Stored, WorkTyped, ReprocessJob, Unlisted
  <2> QED
    BY <1>0, <1>1, <2>1, StoredKeeps DEF WorkTyped, ReprocessJob, Unlisted, work
<1>2. CASE PurgeJobs
  <2>1. /\ UNCHANGED <<jobStatus, scraping, scraper, sweeper, refresher>>
        /\ deadJobs' = [j \in Jobs |-> 0]
        /\ dropped' = dropped \cup {j \in Jobs : deadJobs[j] > 0}
    BY <1>2 DEF PurgeJobs
  <2>2. ASSUME NEW j \in Jobs PROVE JobInv(j)'
    <3>1. JobInv(j) /\ scraping[j] \in Nat /\ deadJobs[j] \in Nat
      BY <1>0 DEF CatalogueInv, WorkTyped
    <3>2. /\ Stored(j)' <= Stored(j) /\ Stored(j) \in Nat /\ Stored(j)' \in Nat
          /\ (Stored(j)' = Stored(j) \/ j \in dropped')
          /\ (j \in dropped => j \in dropped')
      BY <2>1, <3>1 DEF Stored
    <3>3. (Present(j)' => Present(j)) /\ (Present(j) => Present(j)' \/ j \in dropped')
      BY <2>1, <3>2 DEF Present, Carries
    <3>4. OnePlace(j)'
      BY <2>1, <3>1, <3>2 DEF JobInv, OnePlace, Carries
    <3>5. Attended(j)'
      BY <2>1, <3>1 DEF JobInv, Attended
    <3>6. MadeOnce(j)'
      BY <2>1, <3>1, <3>2, <3>3 DEF JobInv, MadeOnce
    <3> QED BY <2>1, <3>1, <3>2, <3>3, <3>4, <3>5, <3>6 DEF JobInv
  <2>3. Named'
    BY <2>1 DEF CatalogueInv, Named
  <2>4. CatalogueTypeOK'
    BY CatalogueTyped, PTL
  <2> QED BY <2>2, <2>3, <2>4 DEF CatalogueInv
<1> QED BY <1>1, <1>2

ScraperMoves(t) ==
    \/ BeginScrape(t) \/ RetryLater(t) \/ PushJob(t) \/ FailJob(t)
    \/ CacheImage(t) \/ CompleteJob(t) \/ AnnounceJob(t)
    \/ ScrapeRaises(t) \/ ScrapeCrash(t) \/ \E j \in Jobs : PopJob(t, j)

LEMMA ScraperTypes ==
    ASSUME WorkTyped, Named, NEW t \in Scrapers, ScraperMoves(t)
    PROVE  WorkTyped'
<1> USE DEF work, Step, Rest
<1>0. /\ AtRest \in Scraping
      /\ \A at \in {"idle", "begin", "scrape", "sleep", "complete", "announce"} :
           [scraper[t] EXCEPT !.at = at] \in Scraping
      /\ scraper[t].at # "idle" => scraper[t].on \in Jobs
  BY ScrapingFields DEF WorkTyped, Named
<1>1. scraper' \in [Scrapers -> Scraping]
  <2>1. CASE \E j \in Jobs : PopJob(t, j)
    <3>1. PICK j \in Jobs : PopJob(t, j)
      BY <2>1
    <3>2. [at |-> "begin", on |-> j] \in Scraping
      BY DEF Scraping
    <3> QED BY <3>1, <3>2 DEF PopJob, WorkTyped
  <2>2. CASE ~\E j \in Jobs : PopJob(t, j)
    <3>1. \/ scraper' = [scraper EXCEPT ![t] = AtRest]
          \/ \E at \in {"scrape", "sleep", "complete", "announce"} :
               scraper' = [scraper EXCEPT ![t] = [scraper[t] EXCEPT !.at = at]]
      BY <2>2 DEF ScraperMoves, BeginScrape, RetryLater, PushJob, FailJob, CacheImage,
         CompleteJob, AnnounceJob, ScrapeRaises, ScrapeCrash
    <3> QED BY <1>0, <3>1 DEF WorkTyped
  <2> QED BY <2>1, <2>2
<1>2. UNCHANGED <<sweeper, refresher>>
  BY DEF ScraperMoves, BeginScrape, RetryLater, PushJob, FailJob, CacheImage,
     CompleteJob, AnnounceJob, ScrapeRaises, ScrapeCrash, PopJob
<1>3. jobStatus' \in [Jobs -> Open \cup {"none", "completed", "failed"}]
  BY DEF ScraperMoves, BeginScrape, RetryLater, PushJob, FailJob, CacheImage,
     CompleteJob, AnnounceJob, ScrapeRaises, ScrapeCrash, PopJob, WorkTyped, Open
<1>4. attempt' \in [Jobs -> 1..MAX_ATTEMPTS]
  <2>1. CASE RetryLater(t)
    <3>1. scraper[t].on \in Jobs /\ attempt[scraper[t].on] \in 1..MAX_ATTEMPTS
          /\ attempt[scraper[t].on] < MAX_ATTEMPTS
      BY <1>0, <2>1 DEF RetryLater, AttemptLeft, WorkTyped
    <3>2. attempt[scraper[t].on] + 1 \in 1..MAX_ATTEMPTS
      BY <3>1, CatalogueAssumption
    <3> QED BY <2>1, <3>2 DEF RetryLater, WorkTyped
  <2>2. CASE ~RetryLater(t)
    BY <2>2 DEF ScraperMoves, BeginScrape, PushJob, FailJob, CacheImage,
       CompleteJob, AnnounceJob, ScrapeRaises, ScrapeCrash, PopJob, WorkTyped
  <2> QED BY <2>1, <2>2
<1>5. scraping' \in [Jobs -> Nat] /\ deadJobs' \in [Jobs -> Nat]
  <2>1. scraping \in [Jobs -> Nat] /\ deadJobs \in [Jobs -> Nat]
    BY DEF WorkTyped
  <2>2. \/ scraping' = scraping
        \/ \E j \in Jobs : scraping[j] > 0 /\ scraping' = [scraping EXCEPT ![j] = @ - 1]
        \/ scraping' = [scraping EXCEPT ![scraper[t].on] = @ + 1]
    BY DEF ScraperMoves, BeginScrape, RetryLater, PushJob, FailJob, CacheImage,
       CompleteJob, AnnounceJob, ScrapeRaises, ScrapeCrash, PopJob
  <2>3. \/ deadJobs' = deadJobs
        \/ deadJobs' = [deadJobs EXCEPT ![scraper[t].on] = @ + 1]
    BY DEF ScraperMoves, BeginScrape, RetryLater, PushJob, FailJob, CacheImage,
       CompleteJob, AnnounceJob, ScrapeRaises, ScrapeCrash, PopJob
  <2> QED BY <2>1, <2>2, <2>3
<1>6. dropped' \subseteq Jobs
  BY <1>0 DEF ScraperMoves, BeginScrape, RetryLater, PushJob, FailJob, CacheImage,
     CompleteJob, AnnounceJob, ScrapeRaises, ScrapeCrash, PopJob, WorkTyped
<1> QED BY <1>1, <1>2, <1>3, <1>4, <1>5, <1>6 DEF WorkTyped

LEMMA ScraperKeeps ==
    ASSUME CatalogueInv, PageTyped', NEW t \in Scrapers, ScraperMoves(t)
    PROVE  CatalogueInv'
<1>0. WorkTyped /\ WorkTyped' /\ Named
  BY CatalogueTyped, ScraperTypes DEF CatalogueInv
<1>1. CASE \E j \in Jobs : PopJob(t, j)
  BY <1>0, <1>1, PopKeeps
<1>2. CASE ~\E j \in Jobs : PopJob(t, j)
  <2> DEFINE k == scraper[t].on
             To(at) == [scraper[t] EXCEPT !.at = at]
  <2>1. k \in Jobs /\ scraper[t].at # "idle"
    <3>1. scraper[t].at # "idle"
      BY <1>2 DEF ScraperMoves, BeginScrape, RetryLater, PushJob, FailJob,
         CacheImage, CompleteJob, AnnounceJob, ScrapeRaises, ScrapeCrash
    <3> QED BY <1>0, <3>1 DEF Named
  <2>2. /\ \A at \in {"begin", "scrape", "sleep", "complete", "announce"} :
             To(at) \in Scraping /\ To(at).at = at /\ To(at).on = k
        /\ scraper[t] \in Scraping
    <3>1. scraper[t] \in Scraping
      BY <1>0 DEF WorkTyped
    <3> QED BY <3>1 DEF Scraping
  <2>3. /\ scraper[t].at \in {"scrape", "sleep", "complete"} => jobStatus[k] \in Open
        /\ scraper[t].at = "announce" => jobStatus[k] \in {"completed", "failed"}
    BY <2>1 DEF CatalogueInv, JobInv, Attended
  <2>4. "none" \notin Open /\ {"retrying", "running"} \subseteq Open
    BY DEF Open
  <2>5. /\ scraping \in [Jobs -> Nat] /\ deadJobs \in [Jobs -> Nat]
        /\ jobStatus \in [Jobs -> Open \cup {"none", "completed", "failed"}]
    BY <1>0 DEF WorkTyped
  <2> HIDE DEF To, k
  <2>6. CASE BeginScrape(t) /\ Skipped(t)
    <3>1. /\ scraper' = [scraper EXCEPT ![t] = AtRest] /\ jobStatus' = jobStatus
          /\ UNCHANGED <<scraping, deadJobs>> /\ ScrapersStep(k)
          /\ k \in dropped => k \in dropped'
          /\ k \in dropped' \/ jobStatus[k] \in {"completed", "failed"}
      BY <2>6 DEF BeginScrape, Skipped, Rest, ScrapersStep, work, k
    <3> QED BY <1>0, <2>1, <3>1, TaskLeaves DEF k
  <2>7. CASE BeginScrape(t) /\ ~Skipped(t)
    <3>1. /\ scraper' = [scraper EXCEPT ![t] = To("scrape")] /\ jobStatus' = jobStatus
          /\ UNCHANGED <<scraping, deadJobs, dropped>> /\ ScrapersStep(k)
          /\ jobStatus'[k] \in Open
      BY <2>1, <2>5, <2>7 DEF BeginScrape, Skipped, Step, ScrapersStep, work, k, To, Open
    <3> QED BY <1>0, <2>1, <2>2, <3>1, TaskKeeps DEF k
  <2>8. CASE RetryLater(t)
    <3>1. /\ scraper' = [scraper EXCEPT ![t] = To("sleep")] /\ scraper[t].at = "scrape"
          /\ jobStatus' = [jobStatus EXCEPT ![k] = "retrying"]
          /\ UNCHANGED <<scraping, deadJobs, dropped, sweeper, refresher>>
      BY <2>8 DEF RetryLater, Step, k, To
    <3>2. jobStatus'[k] = "retrying" /\ ScrapersStep(k)
      BY <2>1, <2>5, <3>1 DEF ScrapersStep
    <3> QED BY <1>0, <2>1, <2>2, <2>3, <2>4, <3>1, <3>2, TaskKeeps DEF k
  <2>9. CASE PushJob(t)
    <3>1. /\ scraper' = [scraper EXCEPT ![t] = AtRest] /\ jobStatus' = jobStatus
          /\ scraping' = [scraping EXCEPT ![k] = @ + 1]
          /\ UNCHANGED <<deadJobs, dropped, sweeper, refresher>>
      BY <2>9 DEF PushJob, Rest, k
    <3>2. scraping'[k] = scraping[k] + 1 /\ ScrapersStep(k)
      BY <2>1, <2>5, <3>1 DEF ScrapersStep
    <3> QED BY <1>0, <2>1, <3>1, <3>2, TaskLeaves DEF k
  <2>10. CASE FailJob(t) \/ CompleteJob(t)
    <3>1. /\ scraper' = [scraper EXCEPT ![t] = To("announce")]
          /\ scraper[t].at \in {"scrape", "complete"}
          /\ \E s \in {"completed", "failed"} :
                jobStatus' = [jobStatus EXCEPT ![k] = s]
          /\ UNCHANGED <<scraping, deadJobs, dropped, sweeper, refresher>>
      BY <2>10 DEF FailJob, CompleteJob, Step, k, To
    <3>2. jobStatus'[k] \in {"completed", "failed"} /\ ScrapersStep(k)
      BY <2>1, <2>5, <3>1 DEF ScrapersStep
    <3> QED BY <1>0, <2>1, <2>2, <2>3, <2>4, <3>1, <3>2, TaskKeeps DEF k
  <2>11. CASE CacheImage(t)
    <3>1. /\ scraper' = [scraper EXCEPT ![t] = To("complete")]
          /\ scraper[t].at = "scrape"
          /\ jobStatus' = [jobStatus EXCEPT ![k] = "running"]
          /\ UNCHANGED <<scraping, deadJobs, dropped, sweeper, refresher>>
      BY <2>11 DEF CacheImage, Step, k, To
    <3>2. jobStatus'[k] = "running" /\ ScrapersStep(k)
      BY <2>1, <2>5, <3>1 DEF ScrapersStep
    <3> QED BY <1>0, <2>1, <2>2, <2>3, <2>4, <3>1, <3>2, TaskKeeps DEF k
  <2>12. CASE AnnounceJob(t) \/ ScrapeCrash(t)
    <3>1. /\ scraper' = [scraper EXCEPT ![t] = AtRest] /\ jobStatus' = jobStatus
          /\ UNCHANGED <<scraping, deadJobs, sweeper, refresher>>
          /\ \/ scraper[t].at = "announce" /\ dropped' = dropped
             \/ dropped' = dropped \cup {k}
      BY <2>12 DEF AnnounceJob, ScrapeCrash, Rest, work, k
    <3>2. ScrapersStep(k)
      BY <3>1 DEF ScrapersStep
    <3> QED BY <1>0, <2>1, <2>3, <3>1, <3>2, TaskLeaves DEF k
  <2>13. CASE ScrapeRaises(t)
    <3>1. /\ scraper' = [scraper EXCEPT ![t] = AtRest] /\ jobStatus' = jobStatus
          /\ deadJobs' = [deadJobs EXCEPT ![k] = @ + 1]
          /\ UNCHANGED <<scraping, dropped, sweeper, refresher>>
      BY <2>13 DEF ScrapeRaises, Rest, k
    <3>2. deadJobs'[k] = deadJobs[k] + 1 /\ ScrapersStep(k)
      BY <2>1, <2>5, <3>1 DEF ScrapersStep
    <3> QED BY <1>0, <2>1, <3>1, <3>2, TaskLeaves DEF k
  <2> QED BY <1>2, <2>6, <2>7, <2>8, <2>9, <2>10, <2>11, <2>12, <2>13 DEF ScraperMoves
<1> QED BY <1>1, <1>2

\* A step that makes a job: its builders go on, nobody scrapes for it yet, and
\* its payload, once it has one, stays.
BuilderMoves ==
    \/ \E w \in Sweepers : \/ SweepPush(w) \/ SweepCommit(w) \/ ArchiveOld(w)
                           \/ SweepCrash(w) \/ \E j \in Jobs : SweepRead(w, j)
    \/ \E r \in Refreshers : \/ RefreshCommit(r) \/ RefreshPush(r) \/ RefreshCrash(r)
                             \/ \E j \in Jobs : RefreshRead(r, j)

LEMMA SweepKeeps ==
    ASSUME CatalogueInv, PageTyped', NEW w \in Sweepers, NEW k \in Jobs,
           \/ SweepRead(w, k)
           \/ SweepPush(w) /\ sweeper[w].on = k
           \/ SweepCommit(w) /\ sweeper[w].on = k
           \/ SweepCrash(w) /\ sweeper[w].on \in {k, NoScrape}
    PROVE  CatalogueInv'
<1>0. WorkTyped /\ NoScrape # k
  BY CatalogueTyped, CatalogueAssumption DEF CatalogueInv
<1>1. JobInv(k) /\ MadeOnce(k) /\ OnePlace(k) /\ Attended(k)
  BY DEF CatalogueInv, JobInv
<1>2. /\ scraping \in [Jobs -> Nat] /\ deadJobs \in [Jobs -> Nat]
      /\ jobStatus \in [Jobs -> Open \cup {"none", "completed", "failed"}]
      /\ "queued" \in Open /\ "none" \notin Open
      /\ sweeper[w] \in Sweeping
  BY <1>0 DEF WorkTyped, Open
<1>3. UNCHANGED <<attempt, deadJobs, scraper, refresher, dropped>>
  BY DEF SweepRead, SweepPush, SweepCommit, SweepCrash, work
<1>4. PICK v \in Sweeping :
        /\ sweeper' = [sweeper EXCEPT ![w] = v] /\ v.on \in {k, NoScrape}
        /\ sweeper[w].on \in {k, NoScrape}
        /\ \/ SweepRead(w, k) /\ v.at = "push" /\ v.on = k
           \/ SweepPush(w) /\ sweeper[w].on = k /\ v.at = "commit" /\ v.on = k
           \/ SweepCommit(w) /\ sweeper[w].on = k
                /\ v.at = "archive" /\ v.on = NoScrape
           \/ SweepCrash(w) /\ v.at = "idle" /\ v.on = NoScrape
  <2>1. CASE SweepRead(w, k)
    <3> DEFINE v == [at |-> "push", on |-> k]
    <3>1. v \in Sweeping /\ v.at = "push" /\ v.on = k
      BY DEF Sweeping
    <3>2. sweeper' = [sweeper EXCEPT ![w] = v] /\ sweeper[w].on = NoScrape
      BY <2>1, IdleNamesNone DEF SweepRead
    <3> HIDE DEF v
    <3> QED BY <2>1, <3>1, <3>2
  <2>2. CASE SweepPush(w) /\ sweeper[w].on = k
    <3> DEFINE v == [sweeper[w] EXCEPT !.at = "commit"]
    <3>1. v \in Sweeping /\ v.at = "commit" /\ v.on = k
      BY <1>2, <2>2, BuilderFields
    <3>2. sweeper' = [sweeper EXCEPT ![w] = v]
      BY <2>2 DEF SweepPush
    <3> HIDE DEF v
    <3> QED BY <2>2, <3>1, <3>2
  <2>3. CASE SweepCommit(w) /\ sweeper[w].on = k
    <3> DEFINE v == [at |-> "archive", on |-> NoScrape]
    <3>1. v \in Sweeping /\ v.at = "archive" /\ v.on = NoScrape
      BY DEF Sweeping
    <3>2. sweeper' = [sweeper EXCEPT ![w] = v]
      BY <2>3 DEF SweepCommit
    <3> HIDE DEF v
    <3> QED BY <2>3, <3>1, <3>2
  <2>4. CASE SweepCrash(w) /\ sweeper[w].on \in {k, NoScrape}
    BY <2>4, BuilderFields DEF SweepCrash
  <2> QED BY <2>1, <2>2, <2>3, <2>4
<1>5. /\ sweeper' \in [Sweepers -> Sweeping] /\ sweeper'[w] = v
      /\ \A x \in Sweepers \ {w} : sweeper'[x] = sweeper[x]
      /\ \A x \in Sweepers : sweeper'[x] = sweeper[x]
         \/ (sweeper[x].on \in {k, NoScrape} /\ sweeper'[x].on \in {k, NoScrape})
      /\ \A x \in Sweepers : sweeper'[x].at \in {"push", "commit"}
                                => sweeper'[x].on \in Jobs
  BY <1>4, SweepGoes
<1>6. /\ \A j \in Jobs \ {k} : jobStatus'[j] = jobStatus[j] /\ scraping'[j] = scraping[j]
      /\ jobStatus' \in [Jobs -> Open \cup {"none", "completed", "failed"}]
      /\ scraping' \in [Jobs -> Nat]
  BY <1>2, <1>4 DEF SweepRead, SweepPush, SweepCommit, SweepCrash, work
<1>7. WorkTyped' /\ Named'
  BY <1>0, <1>3, <1>5, <1>6 DEF WorkTyped, Named, CatalogueInv
<1>8. \A r \in Refreshers : Carries(r, k)' <=> Carries(r, k)
  BY <1>3 DEF Carries
<1>9. CASE SweepRead(w, k)
  <2>1. /\ ~Present(k) /\ jobStatus[k] = "none" /\ k \notin dropped
        /\ \A x \in Sweepers : sweeper[x].on # k
        /\ \A r \in Refreshers : refresher[r].on # k
    BY <1>0, <1>9, NewJobFree DEF SweepRead
  <2>2. scraping' = scraping /\ jobStatus' = jobStatus
    BY <1>9 DEF SweepRead, work
  <2>3. v.at = "push" /\ v.on = k
    BY <1>4, <1>9, <1>0, <2>1 DEF SweepPush, SweepCommit, SweepCrash, SweepRead
  <2>4. ~Present(k)'
    BY <1>3, <1>8, <2>1, <2>2 DEF Present, Stored
  <2>5. OnePlace(k)' /\ Attended(k)'
    BY <1>1, <1>3, <1>8, <2>2 DEF OnePlace, Attended, Stored
  <2>6. MadeOnce(k)'
    BY <1>3, <1>5, <2>1, <2>2, <2>3, <2>4 DEF MadeOnce
  <2>7. JobInv(k)'
    BY <1>2, <2>1, <2>2, <2>5, <2>6 DEF JobInv
  <2> QED BY <1>3, <1>5, <1>6, <1>7, <2>7, OneJob
<1>10. CASE SweepPush(w) /\ sweeper[w].on = k
  <2>1. /\ sweeper[w].at = "push" /\ scraping' = [scraping EXCEPT ![k] = @ + 1]
        /\ jobStatus' = jobStatus
    BY <1>10 DEF SweepPush
  <2>2. v.at = "commit" /\ v.on = k
    <3>1. sweeper'[w] = [sweeper[w] EXCEPT !.at = "commit"]
      BY <1>0, <1>10 DEF SweepPush, WorkTyped
    <3> QED BY <1>2, <1>5, <1>10, <3>1, BuilderFields
  <2>3. /\ ~Present(k) /\ jobStatus[k] = "none"
        /\ \A x \in Sweepers : sweeper[x].on = k => x = w
        /\ \A r \in Refreshers : refresher[r].on # k
    BY <1>1, <1>10, <2>1 DEF MadeOnce
  <2>4. Stored(k) = 0 /\ Stored(k)' = 1
    BY <1>2, <1>3, <2>1, <2>3 DEF Present, Stored
  <2>5. Present(k)' /\ (\A x \in Scrapers : scraper[x].on # k)
    BY <2>3, <2>4 DEF Present
  <2>6. OnePlace(k)' /\ Attended(k)'
    BY <1>3, <1>8, <2>3, <2>4, <2>5 DEF OnePlace, Attended, Carries
  <2>7. MadeOnce(k)'
    BY <1>3, <1>5, <2>1, <2>2, <2>3, <2>5 DEF MadeOnce
  <2>8. JobInv(k)'
    BY <2>5, <2>6, <2>7 DEF JobInv
  <2> QED BY <1>3, <1>5, <1>6, <1>7, <2>8, OneJob
<1>11. CASE SweepCommit(w) /\ sweeper[w].on = k
  <2>1. /\ sweeper[w].at = "commit" /\ jobStatus' = [jobStatus EXCEPT ![k] = "queued"]
        /\ scraping' = scraping
    BY <1>11 DEF SweepCommit
  <2>2. v.on = NoScrape
    BY <1>4, <1>11, <1>0, <2>1 DEF SweepPush, SweepCommit, SweepCrash, SweepRead
  <2>3. /\ Present(k) \/ k \in dropped
        /\ jobStatus[k] = "none" /\ jobStatus'[k] = "queued"
        /\ \A x \in Sweepers : sweeper[x].on = k => x = w
        /\ \A r \in Refreshers : refresher[r].on # k
    BY <1>1, <1>2, <1>11, <2>1 DEF MadeOnce
  <2>4. Present(k)' <=> Present(k)
    BY <1>3, <1>8, <2>1 DEF Present, Stored
  <2>5. OnePlace(k)'
    BY <1>1, <1>3, <1>8, <2>1 DEF OnePlace, Stored
  <2>6. Attended(k)'
    BY <1>1, <1>2, <1>3, <2>3 DEF Attended
  <2>7. MadeOnce(k)'
    BY <1>0, <1>3, <1>5, <2>2, <2>3 DEF MadeOnce
  <2>8. JobInv(k)'
    BY <1>3, <2>3, <2>4, <2>5, <2>6, <2>7 DEF JobInv
  <2> QED BY <1>3, <1>5, <1>6, <1>7, <2>8, OneJob
<1>12. CASE SweepCrash(w)
  <2>1. scraping' = scraping /\ jobStatus' = jobStatus
    BY <1>12 DEF SweepCrash, work
  <2>2. v.on = NoScrape
    <3>1. sweeper'[w] = AtRest
      BY <1>0, <1>12 DEF SweepCrash, WorkTyped
    <3> QED BY <1>5, <3>1 DEF AtRest
  <2>4. Present(k)' <=> Present(k)
    BY <1>3, <1>8, <2>1 DEF Present, Stored
  <2>5. OnePlace(k)' /\ Attended(k)'
    BY <1>1, <1>3, <1>8, <2>1 DEF OnePlace, Stored, Attended
  <2>6. MadeOnce(k)'
    <3>1. \A x \in Sweepers : sweeper'[x].on = k => sweeper'[x] = sweeper[x]
      BY <1>0, <1>5, <2>2
    <3> QED BY <1>1, <1>3, <2>1, <2>4, <3>1 DEF MadeOnce
  <2>7. JobInv(k)'
    BY <1>1, <1>3, <2>1, <2>4, <2>5, <2>6 DEF JobInv
  <2> QED BY <1>3, <1>5, <1>6, <1>7, <2>7, OneJob
<1> QED BY <1>9, <1>10, <1>11, <1>12

LEMMA RefreshKeeps ==
    ASSUME CatalogueInv, PageTyped', NEW r \in Refreshers, NEW k \in Jobs,
           \/ RefreshRead(r, k)
           \/ RefreshCommit(r) /\ refresher[r].on = k
           \/ RefreshPush(r) /\ refresher[r].on = k
           \/ RefreshCrash(r) /\ refresher[r].on = k
    PROVE  CatalogueInv'
<1>0. WorkTyped /\ NoScrape # k
  BY CatalogueTyped, CatalogueAssumption DEF CatalogueInv
<1>1. JobInv(k) /\ MadeOnce(k) /\ OnePlace(k) /\ Attended(k)
  BY DEF CatalogueInv, JobInv
<1>2. /\ scraping \in [Jobs -> Nat] /\ deadJobs \in [Jobs -> Nat]
      /\ jobStatus \in [Jobs -> Open \cup {"none", "completed", "failed"}]
      /\ "queued" \in Open /\ "none" \notin Open
      /\ refresher[r] \in Refreshing /\ refresher \in [Refreshers -> Refreshing]
      /\ AtRest \in Refreshing /\ AtRest.at = "idle" /\ AtRest.on = NoScrape
  BY <1>0, BuilderFields DEF WorkTyped, Open
<1>3. UNCHANGED <<attempt, deadJobs, scraper, sweeper>>
  BY DEF RefreshRead, RefreshPush, RefreshCommit, RefreshCrash, work
<1>4. /\ \A j \in Jobs \ {k} :
             /\ jobStatus'[j] = jobStatus[j] /\ scraping'[j] = scraping[j]
             /\ j \in dropped => j \in dropped'
      /\ jobStatus' \in [Jobs -> Open \cup {"none", "completed", "failed"}]
      /\ scraping' \in [Jobs -> Nat] /\ dropped' \subseteq Jobs
  BY <1>0, <1>2 DEF RefreshRead, RefreshPush, RefreshCommit, RefreshCrash, work, WorkTyped
<1>5. CASE RefreshRead(r, k)
  <2> DEFINE v == [at |-> "commit", on |-> k]
  <2>1. v \in Refreshing /\ v.at = "commit" /\ v.on = k
    BY DEF Refreshing
  <2>2. /\ refresher' = [refresher EXCEPT ![r] = v] /\ refresher[r].on = NoScrape
        /\ UNCHANGED <<scraping, jobStatus, dropped>>
    BY <1>5, IdleNamesNone DEF RefreshRead, work
  <2> HIDE DEF v
  <2>3. /\ refresher' \in [Refreshers -> Refreshing] /\ refresher'[r] = v
        /\ \A x \in Refreshers \ {r} : refresher'[x] = refresher[x]
        /\ \A x \in Refreshers : refresher'[x] = refresher[x]
           \/ (refresher[x].on \in {k, NoScrape} /\ refresher'[x].on \in {k, NoScrape})
        /\ \A x \in Refreshers : refresher'[x].at # "idle" => refresher'[x].on \in Jobs
    BY <2>1, <2>2, RefreshGoes
  <2>4. WorkTyped' /\ Named'
    BY <1>0, <1>3, <1>4, <2>3 DEF WorkTyped, Named, CatalogueInv
  <2>5. /\ ~Present(k) /\ jobStatus[k] = "none" /\ k \notin dropped
        /\ \A x \in Sweepers : sweeper[x].on # k
        /\ \A q \in Refreshers : refresher[q].on # k
    BY <1>0, <1>5, NewJobFree DEF RefreshRead
  <2>6. \A q \in Refreshers : ~Carries(q, k) /\ ~Carries(q, k)'
    BY <2>1, <2>3, <2>5 DEF Carries
  <2>7. ~Present(k)'
    BY <1>3, <2>2, <2>5, <2>6 DEF Present, Stored
  <2>8. OnePlace(k)' /\ Attended(k)'
    BY <1>1, <1>3, <2>2, <2>6 DEF OnePlace, Attended, Stored
  <2>9. MadeOnce(k)'
    BY <1>3, <2>1, <2>2, <2>3, <2>5, <2>7 DEF MadeOnce
  <2>10. JobInv(k)'
    BY <1>2, <2>2, <2>5, <2>8, <2>9 DEF JobInv
  <2> QED BY <1>3, <1>4, <2>3, <2>4, <2>10, OneJob
<1>6. CASE RefreshCommit(r) /\ refresher[r].on = k
  <2> DEFINE v == [refresher[r] EXCEPT !.at = "push"]
  <2>1. v \in Refreshing /\ v.at = "push" /\ v.on = k
    BY <1>2, <1>6, BuilderFields
  <2>2. /\ refresher' = [refresher EXCEPT ![r] = v] /\ refresher[r].at = "commit"
        /\ UNCHANGED <<scraping, dropped>>
        /\ jobStatus' = [jobStatus EXCEPT ![k] = "queued"]
    BY <1>6 DEF RefreshCommit
  <2> HIDE DEF v
  <2>3. /\ refresher' \in [Refreshers -> Refreshing] /\ refresher'[r] = v
        /\ \A x \in Refreshers \ {r} : refresher'[x] = refresher[x]
        /\ \A x \in Refreshers : refresher'[x] = refresher[x]
           \/ (refresher[x].on \in {k, NoScrape} /\ refresher'[x].on \in {k, NoScrape})
        /\ \A x \in Refreshers : refresher'[x].at # "idle" => refresher'[x].on \in Jobs
    BY <1>6, <2>1, <2>2, RefreshGoes
  <2>4. WorkTyped' /\ Named'
    BY <1>0, <1>3, <1>4, <2>3 DEF WorkTyped, Named, CatalogueInv
  <2>5. /\ ~Present(k)
        /\ \A x \in Sweepers : sweeper[x].on # k
        /\ \A q \in Refreshers : refresher[q].on = k => q = r
    BY <1>1, <1>6, <2>2 DEF MadeOnce
  <2>6. Carries(r, k)' /\ \A q \in Refreshers : refresher'[q].on = k => q = r
    BY <2>1, <2>3, <2>5 DEF Carries
  <2>7. Present(k)' /\ Stored(k) = 0 /\ Stored(k)' = Stored(k)
        /\ \A x \in Scrapers : scraper[x].on # k
    BY <1>2, <1>3, <2>2, <2>5, <2>6 DEF Present, Stored
  <2>8. OnePlace(k)' /\ Attended(k)'
    BY <1>3, <2>6, <2>7 DEF OnePlace, Attended, Carries
  <2>9. MadeOnce(k)'
    BY <1>3, <2>1, <2>3, <2>5, <2>6 DEF MadeOnce
  <2>10. JobInv(k)'
    BY <2>7, <2>8, <2>9 DEF JobInv
  <2> QED BY <1>3, <1>4, <2>3, <2>4, <2>10, OneJob
<1>7. CASE RefreshPush(r) /\ refresher[r].on = k
  <2>1. /\ refresher' = [refresher EXCEPT ![r] = AtRest] /\ refresher[r].at = "push"
        /\ UNCHANGED <<jobStatus, dropped>>
        /\ scraping' = [scraping EXCEPT ![k] = @ + 1]
    BY <1>7 DEF RefreshPush
  <2>2. /\ refresher' \in [Refreshers -> Refreshing] /\ refresher'[r] = AtRest
        /\ \A x \in Refreshers \ {r} : refresher'[x] = refresher[x]
        /\ \A x \in Refreshers : refresher'[x] = refresher[x]
           \/ (refresher[x].on \in {k, NoScrape} /\ refresher'[x].on \in {k, NoScrape})
        /\ \A x \in Refreshers : refresher'[x].at # "idle" => refresher'[x].on \in Jobs
    BY <1>2, <1>7, <2>1, RefreshGoes
  <2>3. WorkTyped' /\ Named'
    BY <1>0, <1>3, <1>4, <2>2 DEF WorkTyped, Named, CatalogueInv
  <2>4. Carries(r, k)
    BY <1>7, <2>1 DEF Carries
  <2>5. /\ Stored(k) = 0 /\ \A x \in Scrapers : scraper[x].on # k
        /\ \A q \in Refreshers : refresher[q].on = k => q = r
        /\ \A x \in Sweepers : sweeper[x].on # k
    BY <1>1, <1>7, <2>4 DEF OnePlace, MadeOnce
  <2>6. \A q \in Refreshers : refresher'[q].on # k
    BY <1>0, <1>2, <2>2, <2>5
  <2>7. Stored(k)' = 1
    BY <1>2, <1>3, <2>1, <2>5 DEF Stored
  <2>8. Present(k)'
    BY <2>7 DEF Present
  <2>9. OnePlace(k)' /\ Attended(k)'
    BY <1>3, <2>5, <2>6, <2>7 DEF OnePlace, Attended, Carries
  <2>10. MadeOnce(k)'
    BY <1>3, <2>5, <2>6 DEF MadeOnce
  <2>11. JobInv(k)'
    BY <2>8, <2>9, <2>10 DEF JobInv
  <2> QED BY <1>3, <1>4, <2>2, <2>3, <2>11, OneJob
<1>8. CASE RefreshCrash(r) /\ refresher[r].on = k
  <2>1. /\ refresher' = [refresher EXCEPT ![r] = AtRest]
        /\ UNCHANGED <<jobStatus, scraping>>
        /\ dropped' = IF refresher[r].at = "push" THEN dropped \cup {k} ELSE dropped
    BY <1>8 DEF RefreshCrash, work
  <2>2. /\ refresher' \in [Refreshers -> Refreshing] /\ refresher'[r] = AtRest
        /\ \A x \in Refreshers \ {r} : refresher'[x] = refresher[x]
        /\ \A x \in Refreshers : refresher'[x] = refresher[x]
           \/ (refresher[x].on \in {k, NoScrape} /\ refresher'[x].on \in {k, NoScrape})
        /\ \A x \in Refreshers : refresher'[x].at # "idle" => refresher'[x].on \in Jobs
    BY <1>2, <1>8, <2>1, RefreshGoes
  <2>3. WorkTyped' /\ Named'
    BY <1>0, <1>3, <1>4, <2>2 DEF WorkTyped, Named, CatalogueInv
  <2>4. /\ \A q \in Refreshers : refresher[q].on = k => q = r
        /\ \A x \in Sweepers : sweeper[x].on # k
        /\ refresher[r].at \in {"commit", "push"}
    BY <1>1, <1>8 DEF MadeOnce
  <2>5. \A q \in Refreshers : refresher'[q].on # k
    BY <1>0, <1>2, <2>2, <2>4
  <2>6. Stored(k)' = Stored(k)
    BY <1>3, <2>1 DEF Stored
  <2>7. OnePlace(k)' /\ Attended(k)'
    BY <1>1, <1>3, <2>1, <2>5, <2>6 DEF OnePlace, Attended, Carries
  <2>8. MadeOnce(k)'
    BY <1>3, <2>4, <2>5 DEF MadeOnce
  <2>9. jobStatus'[k] \in Open => k \in dropped' \/ Present(k)'
    <3>1. CASE refresher[r].at = "push"
      BY <2>1, <3>1
    <3>2. CASE refresher[r].at = "commit"
      BY <1>1, <1>2, <1>8, <2>1, <3>2 DEF MadeOnce
    <3> QED BY <2>4, <3>1, <3>2
  <2>10. JobInv(k)'
    BY <2>7, <2>8, <2>9 DEF JobInv
  <2> QED BY <1>3, <1>4, <2>2, <2>3, <2>10, OneJob
<1> QED BY <1>5, <1>6, <1>7, <1>8

\* Steps that touch no job at all.
LEMMA JobsAside ==
    ASSUME CatalogueInv, PageTyped', UNCHANGED <<work, scraper, sweeper, refresher, dropped>>
    PROVE  CatalogueInv'
<1>1. UNCHANGED <<jobStatus, attempt, scraping, deadJobs, scraper, sweeper,
                  refresher, dropped>>
  BY DEF work
<1>2. WorkTyped
  BY CatalogueTyped DEF CatalogueInv
<1>3. WorkTyped'
  BY <1>1, <1>2 DEF WorkTyped
<1>4. CatalogueTypeOK'
  BY <1>3, CatalogueTyped, PTL
<1>5. ASSUME NEW j \in Jobs PROVE JobInv(j)'
  <2>1. JobInv(j)
    BY DEF CatalogueInv
  <2> QED
    BY <1>1, <2>1 DEF JobInv, OnePlace, Attended, MadeOnce, Present, Stored, Carries
<1>6. Named'
  BY <1>1 DEF CatalogueInv, Named
<1> QED BY <1>4, <1>5, <1>6 DEF CatalogueInv

\* A sweep that has no job in hand ends.
LEMMA SweepRests ==
    ASSUME CatalogueInv, PageTyped', NEW w \in Sweepers, sweeper[w].on = NoScrape,
           sweeper' = [sweeper EXCEPT ![w] = AtRest],
           UNCHANGED <<work, scraper, refresher, dropped>>
    PROVE  CatalogueInv'
<1>1. UNCHANGED <<jobStatus, attempt, scraping, deadJobs, scraper, refresher, dropped>>
  BY DEF work
<1>2. WorkTyped
  BY CatalogueTyped DEF CatalogueInv
<1>3. /\ sweeper' \in [Sweepers -> Sweeping]
      /\ sweeper'[w].on = NoScrape /\ sweeper'[w].at = "idle"
      /\ \A x \in Sweepers \ {w} : sweeper'[x] = sweeper[x]
  BY <1>2, BuilderFields DEF WorkTyped
<1>4. WorkTyped'
  BY <1>1, <1>2, <1>3 DEF WorkTyped
<1>5. CatalogueTypeOK'
  BY <1>4, CatalogueTyped, PTL
<1>6. ASSUME NEW j \in Jobs PROVE JobInv(j)'
  <2>1. JobInv(j) /\ MadeOnce(j) /\ j # NoScrape
    BY CatalogueAssumption DEF CatalogueInv, JobInv
  <2>2. \A x \in Sweepers : /\ sweeper'[x].on = j <=> sweeper[x].on = j
                            /\ sweeper'[x].on = j => sweeper'[x] = sweeper[x]
    BY <1>3, <2>1
  <2>3. Present(j)' <=> Present(j)
    BY <1>1 DEF Present, Stored, Carries
  <2>4. OnePlace(j)' /\ Attended(j)'
    BY <1>1, <2>1 DEF JobInv, OnePlace, Attended, Stored, Carries
  <2>5. MadeOnce(j)'
    BY <1>1, <2>1, <2>2, <2>3 DEF MadeOnce
  <2> QED BY <1>1, <2>1, <2>3, <2>4, <2>5 DEF JobInv
<1>7. Named'
  BY <1>1, <1>3 DEF CatalogueInv, Named
<1> QED BY <1>5, <1>6, <1>7 DEF CatalogueInv

LEMMA BuilderKeeps ==
    ASSUME CatalogueInv, PageTyped', BuilderMoves
    PROVE  CatalogueInv'
<1>0. WorkTyped /\ Named
  BY CatalogueTyped DEF CatalogueInv
<1>1. ASSUME NEW w \in Sweepers,
             \/ SweepPush(w) \/ SweepCommit(w) \/ SweepCrash(w)
             \/ \E j \in Jobs : SweepRead(w, j)
      PROVE  CatalogueInv'
  <2>1. CASE \E j \in Jobs : SweepRead(w, j)
    BY <2>1, SweepKeeps
  <2>2. CASE SweepPush(w) \/ SweepCommit(w)
    <3>1. sweeper[w].on \in Jobs
      BY <1>0, <2>2 DEF Named, SweepPush, SweepCommit
    <3> QED BY <2>2, <3>1, SweepKeeps
  <2>3. CASE SweepCrash(w) /\ sweeper[w].on \in Jobs
    BY <2>3, SweepKeeps
  <2>4. CASE SweepCrash(w) /\ sweeper[w].on \notin Jobs
    <3>1. sweeper[w].on = NoScrape
      BY <1>0, <2>4 DEF WorkTyped, Sweeping
    <3> QED BY <2>4, <3>1, SweepRests DEF SweepCrash
  <2> QED BY <1>1, <2>1, <2>2, <2>3, <2>4
<1>2. ASSUME NEW w \in Sweepers, ArchiveOld(w) PROVE CatalogueInv'
  <2>1. sweeper[w].on = NoScrape
    BY <1>2, IdleNamesNone DEF ArchiveOld
  <2> QED BY <1>2, <2>1, SweepRests DEF ArchiveOld
<1>3. ASSUME NEW r \in Refreshers,
             \/ RefreshCommit(r) \/ RefreshPush(r) \/ RefreshCrash(r)
             \/ \E j \in Jobs : RefreshRead(r, j)
      PROVE  CatalogueInv'
  <2>1. CASE \E j \in Jobs : RefreshRead(r, j)
    BY <2>1, RefreshKeeps
  <2>2. CASE RefreshCommit(r) \/ RefreshPush(r) \/ RefreshCrash(r)
    <3>1. refresher[r].on \in Jobs
      BY <1>0, <2>2 DEF Named, RefreshCommit, RefreshPush, RefreshCrash
    <3> QED BY <2>2, <3>1, RefreshKeeps
  <2> QED BY <1>3, <2>1, <2>2
<1> QED BY <1>1, <1>2, <1>3 DEF BuilderMoves

LEMMA DlqTypes ==
    ASSUME WorkTyped, PurgeJobs \/ \E j \in Jobs : ReprocessJob(j)
    PROVE  WorkTyped'
<1>1. CASE PurgeJobs
  BY <1>1 DEF PurgeJobs, WorkTyped
<1>2. ASSUME NEW j \in Jobs, ReprocessJob(j) PROVE WorkTyped'
  <2>1. deadJobs[j] \in Nat /\ deadJobs[j] > 0 /\ scraping[j] \in Nat
        /\ deadJobs' = [deadJobs EXCEPT ![j] = deadJobs[j] - 1]
        /\ scraping' = [scraping EXCEPT ![j] = scraping[j] + 1]
    BY <1>2 DEF ReprocessJob, Unlisted, WorkTyped
  <2>2. deadJobs[j] - 1 \in Nat /\ scraping[j] + 1 \in Nat
    BY <2>1
  <2> QED BY <1>2, <2>1, <2>2 DEF ReprocessJob, WorkTyped, work
<1> QED BY <1>1, <1>2

LEMMA CatalogueInvKept ==
    CatalogueInv /\ [CatalogueNext]_catalogueVars => CatalogueInv'
<1> SUFFICES ASSUME CatalogueInv, [CatalogueNext]_catalogueVars PROVE CatalogueInv'
  OBVIOUS
<1>1. CASE UNCHANGED catalogueVars
  <2>1. PageTyped
    BY CatalogueTyped DEF CatalogueInv
  <2>2. PageTyped' /\ UNCHANGED <<work, scraper, sweeper, refresher, dropped>>
    BY <1>1, <2>1, Zenon DEF catalogueVars, item, locks, PageTyped
  <2> QED BY <2>2, JobsAside
<1>2. CASE CatalogueNext
  <2>1. PageTyped' /\ WorkTyped
    BY <1>2, PageKeeps, CatalogueTyped DEF CatalogueInv
  <2>2. CASE PurgeJobs \/ \E j \in Jobs : ReprocessJob(j)
    BY <2>1, <2>2, DlqTypes, DlqKeeps
  <2>3. ASSUME NEW t \in Scrapers, ScraperMoves(t) PROVE CatalogueInv'
    BY <2>1, <2>3, ScraperKeeps
  <2>4. CASE BuilderMoves
    BY <2>1, <2>4, BuilderKeeps
  <2>5. CASE \/ GrowStale \/ Ban \/ SweepLockExpires \/ UrlLockExpires
             \/ \E a \in Askers : \/ AskUrl(a) \/ LookUrl(a) \/ ExtractUrl(a)
                                  \/ StoreUrl(a) \/ FinishUrl(a)
    <3>1. UNCHANGED <<work, scraper, sweeper, refresher, dropped>>
      BY <2>5, Zenon DEF GrowStale, Ban, SweepLockExpires, UrlLockExpires, AskUrl,
         LookUrl, ExtractUrl, StoreUrl, FinishUrl
    <3> QED BY <2>1, <3>1, JobsAside
  <2>6. \/ PurgeJobs \/ \E j \in Jobs : ReprocessJob(j)
        \/ \E t \in Scrapers : ScraperMoves(t)
        \/ BuilderMoves
        \/ GrowStale \/ Ban \/ SweepLockExpires \/ UrlLockExpires
        \/ \E a \in Askers : \/ AskUrl(a) \/ LookUrl(a) \/ ExtractUrl(a)
                             \/ StoreUrl(a) \/ FinishUrl(a)
    BY <1>2, Zenon DEF CatalogueNext, ScraperMoves, BuilderMoves
  <2> QED BY <2>2, <2>3, <2>4, <2>5, <2>6
<1> QED BY <1>1, <1>2

LEMMA CatalogueInvStarts == CatalogueInit => CatalogueInv
<1> SUFFICES ASSUME CatalogueInit PROVE CatalogueInv
  OBVIOUS
<1>1. /\ jobStatus = [j \in Jobs |-> "none"] /\ attempt = [j \in Jobs |-> 1]
      /\ scraping = [j \in Jobs |-> 0] /\ deadJobs = [j \in Jobs |-> 0]
      /\ scraper = [t \in Scrapers |-> AtRest] /\ sweeper = [w \in Sweepers |-> AtRest]
      /\ refresher = [r \in Refreshers |-> AtRest] /\ dropped = {}
  BY DEF CatalogueInit
<1>2. AtRest \in Scraping /\ AtRest \in Sweeping /\ AtRest \in Refreshing
      /\ AtRest.at = "idle" /\ AtRest.on = NoScrape
  BY DEF AtRest, Scraping, Sweeping, Refreshing
<1>3. WorkTyped
  BY <1>1, <1>2, CatalogueAssumption DEF WorkTyped
<1>4. PageTyped
  BY Zenon DEF CatalogueInit, PageTyped
<1>5. Named
  BY <1>1, <1>2 DEF Named
<1>6. ASSUME NEW j \in Jobs PROVE JobInv(j)
  <2>1. Stored(j) = 0 /\ jobStatus[j] = "none" /\ j # NoScrape
    BY <1>1, CatalogueAssumption DEF Stored
  <2>2. /\ \A t \in Scrapers : scraper[t].on # j
        /\ \A w \in Sweepers : sweeper[w].on # j
        /\ \A r \in Refreshers : refresher[r].on # j
    BY <1>1, <1>2, <2>1
  <2> QED BY <2>1, <2>2
          DEF JobInv, OnePlace, Attended, MadeOnce, Present, Carries, Open
<1> QED BY <1>3, <1>4, <1>5, <1>6, CatalogueTyped DEF CatalogueInv

\* No job has two payloads, and an open one has its payload unless a process
\* died with it, the DLQ was purged, or a task took it before the sweep had
\* committed the job (scraping_worker.py:158-209,
\* price_staleness_worker.py:51-106).
THEOREM PayloadOnce == CatalogueSpec => [](CatalogueTypeOK /\ OnePayload)
<1>1. CatalogueInv => CatalogueTypeOK /\ OnePayload
  <2> SUFFICES ASSUME CatalogueInv PROVE OnePayload
    BY DEF CatalogueInv
  <2>1. ASSUME NEW j \in Jobs
        PROVE  /\ Outstanding(j) <= 1
               /\ jobStatus[j] \in Open => Outstanding(j) = 1 \/ j \in dropped
    <3>1. Outstanding(j) = IF Present(j) THEN 1 ELSE 0
      BY OneCounted, CatalogueTyped DEF CatalogueInv
    <3>2. jobStatus[j] \in Open => Present(j) \/ j \in dropped
      BY DEF CatalogueInv, JobInv
    <3> QED BY <3>1, <3>2
  <2> QED BY <2>1 DEF OnePayload
<1> QED BY <1>1, CatalogueInvStarts, CatalogueInvKept, PTL DEF CatalogueSpec

----------------------------------------------------------------------------
(* The charges of a card                                                   *)

Places == {"idle", "look", "mark", "row", "push", "claim", "handle", "commit", "backoff"}
Act == [at : Places, event : CardEvents \cup {Nothing}, retry : 0..HOOK_RETRIES,
        seen : {"none", "active", "inactive", "voided", "expired"}]

HooksTyped ==
    /\ act \in [Actors -> Act]
    /\ hooks \in [CardEvents -> [0..HOOK_RETRIES -> Nat]]
    /\ charged \in [Charges -> Nat]
    /\ direct \subseteq CardEvents /\ marked \subseteq CardEvents
    /\ rows \subseteq CardEvents /\ dead \subseteq CardEvents
    /\ raced \subseteq CardEvents /\ lapsed \subseteq CardEvents

CardTyped ==
    /\ card \in [status : {"active", "inactive", "voided", "expired"}, used : BOOLEAN]
    /\ issuer \in {"open", "cancelled"} /\ ending \subseteq Enders
    /\ confirmed \in BOOLEAN

\* What works on an event, what may still begin to, and the jobs for it.
Working(a, e) ==
    act[a].event = e /\ act[a].at \in {"push", "handle", "commit", "backoff"}
Entering(a, e) == act[a].event = e /\ act[a].at \in {"mark", "row"}
Queued(e, n) == hooks[e][n] > 0

Begun(e) == \/ charged[e] > 0
            \/ \E n \in 0..HOOK_RETRIES : Queued(e, n)
            \/ \E a \in Actors : Working(a, e)

\* A charge is in one place: booked, in the queue, or with an actor.
InOnePlace(e) ==
    /\ charged[e] <= 1
    /\ \A n \in 0..HOOK_RETRIES : hooks[e][n] <= 1
    /\ \A m, n \in 0..HOOK_RETRIES : Queued(e, m) /\ Queued(e, n) => m = n
    /\ \A a, b \in Actors : Working(a, e) /\ Working(b, e) => a = b
    /\ charged[e] > 0 => /\ \A n \in 0..HOOK_RETRIES : ~Queued(e, n)
                         /\ \A a \in Actors : ~Working(a, e)
    /\ \A n \in 0..HOOK_RETRIES : Queued(e, n) => \A a \in Actors : ~Working(a, e)

\* Through the queue: one delivery at a time gets past the missing row, and
\* what has begun has its row.
QueuedCharge(e) ==
    /\ InOnePlace(e)
    /\ Begun(e) => e \in rows
    /\ \A a \in Actors : Entering(a, e) => e \notin rows
    /\ \A a, b \in Actors : Entering(a, e) /\ Entering(b, e) => a = b

\* At the direct endpoint: one delivery at a time, and what has begun has its
\* key.
DirectCharge(e) ==
    /\ InOnePlace(e)
    /\ Begun(e) => e \in marked
    /\ \A a, b \in Actors : act[a].event = e /\ act[b].event = e => a = b
    /\ \A a \in Actors : act[a].event = e /\ act[a].at = "claim" => ~Begun(e)

ChargeInv(e) ==
    e \notin raced =>
       /\ e \notin direct => QueuedCharge(e)
       /\ e \in direct /\ e \notin lapsed => DirectCharge(e)

\* A delivery or a task is where its event leads it.
Route(a) ==
    /\ act[a] = Idle \/ (act[a].at # "idle" /\ act[a].event \in CardEvents)
    /\ a \in Receivers /\ act[a].event \in CardEvents =>
          IF act[a].event \in direct THEN act[a].at \in {"claim", "handle", "commit"}
          ELSE act[a].at \in {"look", "mark", "row", "push"}
    /\ a \in HookTasks /\ act[a].event \in CardEvents =>
          act[a].event \notin direct /\ act[a].at \in {"handle", "commit", "backoff"}
    /\ a \in HookTasks /\ act[a].at = "backoff" => act[a].retry < HOOK_RETRIES

Routed ==
    /\ \A a \in Actors : Route(a)
    /\ \A e \in direct, n \in 0..HOOK_RETRIES : ~Queued(e, n)

CardInv == CardTypeOK /\ Routed /\ \A e \in Charges : ChargeInv(e)

LEMMA CardTypes == CardTypeOK <=> HooksTyped /\ CardTyped
BY Zenon DEF CardTypeOK, HooksTyped, CardTyped, Act, Places

LEMMA CardTypedKept ==
    ASSUME CardTypeOK, CardNext
    PROVE  CardTyped'
<1> USE DEF Card, Booked, Hooked, CardTyped
<1> CardTyped /\ HooksTyped
  BY CardTypes
<1>1. ASSUME NEW h \in Receivers,
             \/ \E e \in CardEvents : Receive(h, e) \/ ReceiveWithoutRedis(h, e)
             \/ FindRow(h) \/ NoRow(h) \/ MarkKey(h) \/ InsertRow(h) \/ QueueHook(h)
             \/ ClaimHook(h) \/ ReceiverFails(h)
      PROVE  CardTyped'
  BY <1>1, Zenon DEF Receive, ReceiveWithoutRedis, FindRow, NoRow, MarkKey, InsertRow,
     QueueHook, ClaimHook, ReceiverFails
<1>2. ASSUME NEW w \in HookTasks,
             \/ \E e \in CardEvents, n \in 0..HOOK_RETRIES : TakeHook(w, e, n)
             \/ TaskRaises(w) \/ RequeueHook(w) \/ TaskDies(w)
      PROVE  CardTyped'
  BY <1>2, Zenon DEF TakeHook, TaskRaises, RequeueHook, TaskDies
<1>3. ASSUME NEW a \in Actors, HandleHook(a) PROVE CardTyped'
  BY <1>3, Zenon DEF HandleHook
<1>4. ASSUME NEW a \in Actors, CommitHook(a) PROVE CardTyped'
  <2>1. card' \in [status : {"active", "inactive", "voided", "expired"},
                   used : BOOLEAN]
    BY <1>4 DEF CommitHook
  <2> QED BY <1>4, <2>1, Zenon DEF CommitHook
<1>5. ASSUME NEW e \in CardEvents, KeyEvicted(e) PROVE CardTyped'
  BY <1>5, Zenon DEF KeyEvicted
<1>6. ASSUME NEW x \in Enders,
             \/ BeginEnd(x) \/ BeginEndWithoutIssuer(x) \/ EndCard(x) \/ EndFails(x)
      PROVE  CardTyped'
  <2>1. confirmed' = confirmed
    BY <1>6, Zenon DEF BeginEnd, BeginEndWithoutIssuer, EndCard, EndFails
  <2>2. confirmed' \in BOOLEAN
    BY <2>1, Zenon
  <2>3. card' \in [status : {"active", "inactive", "voided", "expired"},
                   used : BOOLEAN]
    BY <1>6 DEF BeginEnd, BeginEndWithoutIssuer, EndCard, EndFails
  <2>4. issuer' \in {"open", "cancelled"} /\ ending' \subseteq Enders
    BY <1>6 DEF BeginEnd, BeginEndWithoutIssuer, EndCard, EndFails
  <2> QED BY <2>2, <2>3, <2>4, Zenon
<1> QED BY <1>1, <1>2, <1>3, <1>4, <1>5, <1>6 DEF CardNext

\* A step that touches no event but k and nobody who is at another event.
LEMMA OneEvent ==
    ASSUME CardInv, HooksTyped', CardTyped', Routed', NEW k \in CardEvents,
           k \in Charges => ChargeInv(k)', direct' = direct,
           \A e \in CardEvents \ {k} :
              /\ hooks'[e] = hooks[e] /\ (e \in Charges => charged'[e] = charged[e])
              /\ e \in rows' <=> e \in rows
              /\ e \in marked' <=> e \in marked
              /\ e \in raced' <=> e \in raced
              /\ e \in lapsed' <=> e \in lapsed,
           \A a \in Actors : act'[a] = act[a]
              \/ (act[a].event \in {k, Nothing} /\ act'[a].event \in {k, Nothing})
    PROVE  CardInv'
<1>1. ASSUME NEW e \in Charges \ {k} PROVE ChargeInv(e)'
  <2>1. e # Nothing /\ e \in CardEvents /\ ChargeInv(e)
    BY CardAssumption DEF CardEvents, CardInv
  <2>2. \A a \in Actors : /\ act'[a].event = e <=> act[a].event = e
                          /\ act[a].event = e => act'[a] = act[a]
    BY <1>1, <2>1
  <2>3. \A a \in Actors : /\ Working(a, e)' <=> Working(a, e)
                          /\ Entering(a, e)' <=> Entering(a, e)
    BY <2>2 DEF Working, Entering
  <2>4. \A n \in 0..HOOK_RETRIES : Queued(e, n)' <=> Queued(e, n)
    BY <2>1 DEF Queued
  <2>5. Begun(e)' <=> Begun(e)
    BY <2>1, <2>3, <2>4 DEF Begun
  <2>6. InOnePlace(e)' <=> InOnePlace(e)
    BY <2>1, <2>3, <2>4 DEF InOnePlace
  <2>7. QueuedCharge(e) => QueuedCharge(e)'
    BY <2>1, <2>3, <2>5, <2>6 DEF QueuedCharge
  <2>8. DirectCharge(e) => DirectCharge(e)'
    BY <2>1, <2>2, <2>5, <2>6 DEF DirectCharge
  <2> QED BY <2>1, <2>7, <2>8 DEF ChargeInv
<1>2. CardTypeOK'
  BY CardTypes, PTL
<1> QED BY <1>1, <1>2 DEF CardInv

LEMMA IdleAct == Idle \in Act /\ Idle.at = "idle" /\ Idle.event = Nothing
BY CardAssumption DEF Idle, At, Act, Places

LEMMA AtAct ==
    ASSUME NEW p \in Places, NEW e \in CardEvents, NEW n \in 0..HOOK_RETRIES
    PROVE  /\ At(p, e, n) \in Act /\ At(p, e, n).at = p /\ At(p, e, n).event = e
           /\ At(p, e, n).retry = n
BY DEF At, Act, Places

LEMMA ActFields ==
    ASSUME CardInv, NEW a \in Actors
    PROVE  /\ act \in [Actors -> Act] /\ act[a] \in Act /\ act[a].at \in Places
           /\ act[a].event \in CardEvents \cup {Nothing}
           /\ act[a].retry \in 0..HOOK_RETRIES
           /\ act[a].at # "idle" => act[a] # Idle /\ act[a].event \in CardEvents
BY CardTypes, IdleAct DEF CardInv, HooksTyped, Act, Routed, Route

\* What the others are at stays.
Alone(a) == \A b \in Actors \ {a} : act'[b] = act[b]

LEMMA Moved ==
    ASSUME CardInv, NEW a \in Actors, NEW p \in Places, Moves(a, p)
    PROVE  /\ act' \in [Actors -> Act] /\ Alone(a)
           /\ act'[a].at = p /\ act'[a].event = act[a].event
           /\ act'[a].retry = act[a].retry
<1> DEFINE v == [act[a] EXCEPT !.at = p]
<1>1. v \in Act /\ v.at = p /\ v.event = act[a].event /\ v.retry = act[a].retry
  BY ActFields DEF Act
<1>2. act' = [act EXCEPT ![a] = v]
  BY DEF Moves
<1> HIDE DEF v
<1> QED BY <1>1, <1>2, ActFields DEF Alone

LEMMA Placed ==
    ASSUME CardInv, NEW a \in Actors, NEW v \in Act, act' = [act EXCEPT ![a] = v]
    PROVE  act' \in [Actors -> Act] /\ Alone(a) /\ act'[a] = v
BY ActFields DEF Alone

\* A step of one actor at one event.
LEMMA ActorSteps ==
    ASSUME CardInv, NEW a \in Actors, NEW k \in CardEvents, Alone(a), Route(a)',
           HooksTyped', CardTyped', direct' = direct,
           act[a].event \in {k, Nothing}, act'[a].event \in {k, Nothing},
           \A e \in CardEvents \ {k} :
              /\ hooks'[e] = hooks[e] /\ (e \in Charges => charged'[e] = charged[e])
              /\ e \in rows' <=> e \in rows
              /\ e \in marked' <=> e \in marked
              /\ e \in raced' <=> e \in raced
              /\ e \in lapsed' <=> e \in lapsed,
           k \in direct => hooks'[k] = hooks[k],
           k \in Charges => ChargeInv(k)'
    PROVE  CardInv'
<1>1. \A b \in Actors : Route(b)'
  BY DEF CardInv, Routed, Route, Alone
<1>2. \A e \in direct', n \in 0..HOOK_RETRIES : ~Queued(e, n)'
  <2>1. direct \subseteq CardEvents
    BY CardTypes DEF CardInv, HooksTyped
  <2> QED BY <2>1 DEF CardInv, Routed, Queued
<1>3. Routed'
  BY <1>1, <1>2 DEF Routed
<1>4. \A b \in Actors : act'[b] = act[b]
              \/ (act[b].event \in {k, Nothing} /\ act'[b].event \in {k, Nothing})
  BY DEF Alone
<1> QED BY <1>3, <1>4, OneEvent

\* What else is at an event as before.
LEMMA OthersAt ==
    ASSUME NEW a, Alone(a), NEW e
    PROVE  \A b \in Actors \ {a} : /\ act'[b].event = act[b].event /\ act'[b].at = act[b].at
                                   /\ Working(b, e)' <=> Working(b, e)
                                   /\ Entering(b, e)' <=> Entering(b, e)
BY DEF Alone, Working, Entering

LEMMA ChargeFacts ==
    ASSUME CardInv
    PROVE  /\ hooks \in [CardEvents -> [0..HOOK_RETRIES -> Nat]]
           /\ charged \in [Charges -> Nat] /\ Charges \subseteq CardEvents
           /\ Nothing \notin CardEvents /\ 0 \in 0..HOOK_RETRIES
           /\ \A e \in Charges : ChargeInv(e)
           /\ Receivers \cap HookTasks = {} /\ Receivers \subseteq Actors
           /\ HookTasks \subseteq Actors /\ HooksTyped /\ Routed
BY CardTypes, CardAssumption DEF CardInv, HooksTyped, CardEvents, Actors

LEMMA ReceiveKeeps ==
    ASSUME CardInv, CardTyped', NEW h \in Receivers, NEW k \in CardEvents,
           Receive(h, k) \/ ReceiveWithoutRedis(h, k)
    PROVE  CardInv'
<1> DEFINE p == IF k \in direct THEN "claim" ELSE "look"
<1>1. /\ act[h] = Idle /\ act' = [act EXCEPT ![h] = At(p, k, 0)]
      /\ rows' = rows /\ hooks' = hooks /\ charged' = charged /\ direct' = direct
      /\ marked' = marked /\ dead' = dead /\ lapsed' = lapsed
      /\ k \in direct => k \notin marked
      /\ raced' \in {raced, raced \cup {k}}
      /\ k \in direct /\ k \notin raced' => \A g \in Receivers : act[g].event # k
  BY ChargeFacts DEF Receive, ReceiveWithoutRedis, Card, Booked, HookJobs
<1>2. p \in Places
  BY DEF Places
<1>3. At(p, k, 0) \in Act /\ At(p, k, 0).at = p /\ At(p, k, 0).event = k
  BY <1>2, AtAct, ChargeFacts
<1>4. act' \in [Actors -> Act] /\ Alone(h) /\ act'[h].at = p /\ act'[h].event = k
  BY <1>1, <1>3, Placed, ChargeFacts
<1>5. Route(h)'
  BY <1>1, <1>4, ChargeFacts DEF Route
<1>6. HooksTyped'
  BY <1>1, <1>4, ChargeFacts DEF HooksTyped
<1>7. ASSUME k \in Charges PROVE ChargeInv(k)'
  <2>1. \A b \in Actors : /\ Working(b, k)' <=> Working(b, k)
                          /\ Entering(b, k)' <=> Entering(b, k)
    BY <1>1, <1>4, OthersAt, IdleAct, ChargeFacts DEF Working, Entering
  <2>2. InOnePlace(k)' <=> InOnePlace(k)
    BY <1>1, <2>1 DEF InOnePlace, Queued
  <2>3. Begun(k)' <=> Begun(k)
    BY <1>1, <2>1 DEF Begun, Queued
  <2>4. QueuedCharge(k)' <=> QueuedCharge(k)
    BY <1>1, <2>1, <2>2, <2>3 DEF QueuedCharge
  <2>5. ASSUME k \in direct, k \notin raced', DirectCharge(k) PROVE DirectCharge(k)'
    <3>1. \A b \in Actors \ {h} : act'[b].event # k
      <4>1. \A b \in Receivers \ {h} : act'[b].event # k
        BY <1>1, <1>4, <2>5, OthersAt, ChargeFacts
      <4>2. \A b \in HookTasks : act'[b].event # k
        BY <1>4, <2>5, OthersAt, ChargeFacts DEF Routed, Route
      <4> QED BY <4>1, <4>2 DEF Actors
    <3>2. ~Begun(k)
      BY <1>1, <2>5 DEF DirectCharge
    <3> QED BY <1>1, <2>2, <2>3, <2>5, <3>1, <3>2 DEF DirectCharge
  <2> QED BY <1>1, <1>7, <2>4, <2>5, ChargeFacts DEF ChargeInv
<1> QED BY <1>1, <1>4, <1>5, <1>6, <1>7, IdleAct, ChargeFacts, ActorSteps

\* A step within an event that leaves the queue, the rows and the bookings.
LEMMA FindRowKeeps ==
    ASSUME CardInv, CardTyped', NEW h \in Receivers, FindRow(h)
    PROVE  CardInv'
<1>0. act[h].at = "look" /\ h \in Actors /\ act[h].event \in CardEvents
  BY ChargeFacts, ActFields DEF FindRow
<1> PICK k \in CardEvents : k = act[h].event
  BY <1>0
<1>1. /\ act[h].at = "look" /\ k \in CardEvents /\ h \in Actors
      /\ act' = [act EXCEPT ![h] = Idle]
      /\ rows' = rows /\ hooks' = hooks /\ charged' = charged /\ direct' = direct
      /\ marked' = marked \cup {k} /\ dead' = dead /\ lapsed' = lapsed /\ raced' = raced
  BY <1>0 DEF FindRow, Rests, Card, Booked, HookJobs
<1>2. k \notin direct
  BY <1>1, ChargeFacts DEF Routed, Route
<1>3. act' \in [Actors -> Act] /\ Alone(h) /\ act'[h] = Idle
  BY <1>1, IdleAct, Placed
<1>4. Route(h)'
  BY <1>3, IdleAct, ChargeFacts DEF Route
<1>5. HooksTyped'
  BY <1>1, <1>3, ChargeFacts DEF HooksTyped
<1>6. ASSUME k \in Charges PROVE ChargeInv(k)'
  <2>1. \A b \in Actors : /\ Working(b, k)' <=> Working(b, k)
                          /\ Entering(b, k)' <=> Entering(b, k)
    BY <1>1, <1>3, OthersAt, IdleAct, ChargeFacts DEF Working, Entering
  <2>2. InOnePlace(k)' <=> InOnePlace(k)
    BY <1>1, <2>1 DEF InOnePlace, Queued
  <2>3. Begun(k)' <=> Begun(k)
    BY <1>1, <2>1 DEF Begun, Queued
  <2>4. QueuedCharge(k)' <=> QueuedCharge(k)
    BY <1>1, <2>1, <2>2, <2>3 DEF QueuedCharge
  <2> QED BY <1>1, <1>2, <1>6, <2>4, ChargeFacts DEF ChargeInv
<1>7. act[h].event = k /\ act'[h].event = Nothing
  BY <1>3, IdleAct
<1> QED BY <1>1, <1>3, <1>4, <1>5, <1>6, <1>7, ChargeFacts, ActorSteps

LEMMA NoRowKeeps ==
    ASSUME CardInv, CardTyped', NEW h \in Receivers, NoRow(h)
    PROVE  CardInv'
<1>0. act[h].at = "look" /\ h \in Actors /\ act[h].event \in CardEvents
  BY ChargeFacts, ActFields DEF NoRow
<1> PICK k \in CardEvents : k = act[h].event
  BY <1>0
<1>1. /\ Moves(h, "mark") /\ k \notin rows
      /\ rows' = rows /\ hooks' = hooks /\ charged' = charged /\ direct' = direct
      /\ marked' = marked /\ dead' = dead /\ lapsed' = lapsed
      /\ raced' \in {raced, raced \cup {k}}
      /\ k \notin raced' => \A g \in Receivers \ {h} :
            ~(act[g].event = k /\ act[g].at \in {"mark", "row"})
  BY <1>0 DEF NoRow, Card, Booked, HookJobs
<1>2. k \notin direct
  BY <1>0, ChargeFacts DEF Routed, Route
<1>3. act' \in [Actors -> Act] /\ Alone(h) /\ act'[h].at = "mark" /\ act'[h].event = k
  BY <1>0, <1>1, Moved DEF Places
<1>4. Route(h)'
  BY <1>1, <1>2, <1>3, IdleAct, ChargeFacts DEF Route
<1>5. HooksTyped'
  BY <1>1, <1>3, ChargeFacts DEF HooksTyped
<1>6. ASSUME k \in Charges, k \notin raced' PROVE QueuedCharge(k)'
  <2>0. QueuedCharge(k)
    BY <1>1, <1>2, <1>6, ChargeFacts DEF ChargeInv
  <2>1. \A b \in Actors : Working(b, k)' <=> Working(b, k)
    BY <1>0, <1>3, OthersAt DEF Working
  <2>2. InOnePlace(k)' <=> InOnePlace(k)
    BY <1>1, <2>1 DEF InOnePlace, Queued
  <2>3. Begun(k)' <=> Begun(k)
    BY <1>1, <2>1 DEF Begun, Queued
  <2>4. \A b \in Actors \ {h} : ~Entering(b, k)'
    <3>1. \A b \in Receivers \ {h} : ~Entering(b, k)
      BY <1>1, <1>6 DEF Entering
    <3>2. \A b \in HookTasks : ~Entering(b, k)
      BY ChargeFacts DEF Entering, Routed, Route
    <3> QED BY <1>3, <3>1, <3>2, OthersAt DEF Actors
  <2> QED BY <1>1, <2>0, <2>2, <2>3, <2>4 DEF QueuedCharge
<1>7. k \in Charges => ChargeInv(k)'
  BY <1>1, <1>2, <1>6 DEF ChargeInv
<1> QED BY <1>0, <1>1, <1>3, <1>4, <1>5, <1>7, ActorSteps

LEMMA MarkKeyKeeps ==
    ASSUME CardInv, CardTyped', NEW h \in Receivers, MarkKey(h)
    PROVE  CardInv'
<1>0. act[h].at = "mark" /\ h \in Actors /\ act[h].event \in CardEvents
  BY ChargeFacts, ActFields DEF MarkKey
<1> PICK k \in CardEvents : k = act[h].event
  BY <1>0
<1>1. /\ Moves(h, "row") /\ rows' = rows /\ hooks' = hooks /\ charged' = charged
      /\ direct' = direct /\ marked' \in {marked, marked \cup {k}} /\ dead' = dead
      /\ lapsed' = lapsed /\ raced' = raced
  BY <1>0 DEF MarkKey, Card, Booked, HookJobs
<1>2. k \notin direct
  BY <1>0, ChargeFacts DEF Routed, Route
<1>3. act' \in [Actors -> Act] /\ Alone(h) /\ act'[h].at = "row" /\ act'[h].event = k
  BY <1>0, <1>1, Moved DEF Places
<1>4. Route(h)'
  BY <1>1, <1>2, <1>3, IdleAct, ChargeFacts DEF Route
<1>5. HooksTyped'
  BY <1>1, <1>3, ChargeFacts DEF HooksTyped
<1>6. ASSUME k \in Charges PROVE ChargeInv(k)'
  <2>1. \A b \in Actors : /\ Working(b, k)' <=> Working(b, k)
                          /\ Entering(b, k)' <=> Entering(b, k)
    BY <1>0, <1>3, OthersAt DEF Working, Entering
  <2>2. InOnePlace(k)' <=> InOnePlace(k)
    BY <1>1, <2>1 DEF InOnePlace, Queued
  <2>3. Begun(k)' <=> Begun(k)
    BY <1>1, <2>1 DEF Begun, Queued
  <2>4. QueuedCharge(k)' <=> QueuedCharge(k)
    BY <1>1, <2>1, <2>2, <2>3 DEF QueuedCharge
  <2> QED BY <1>1, <1>2, <1>6, <2>4, ChargeFacts DEF ChargeInv
<1> QED BY <1>0, <1>1, <1>3, <1>4, <1>5, <1>6, ActorSteps

LEMMA InsertRowKeeps ==
    ASSUME CardInv, CardTyped', NEW h \in Receivers, InsertRow(h)
    PROVE  CardInv'
<1>0. act[h].at = "row" /\ h \in Actors /\ act[h].event \in CardEvents
  BY ChargeFacts, ActFields DEF InsertRow
<1> PICK k \in CardEvents : k = act[h].event
  BY <1>0
<1>1. /\ Moves(h, "push") /\ rows' = rows \cup {k} /\ hooks' = hooks
      /\ charged' = charged /\ direct' = direct /\ marked' = marked /\ dead' = dead
      /\ lapsed' = lapsed /\ raced' = raced
  BY <1>0 DEF InsertRow, Card, Booked, HookJobs
<1>2. k \notin direct
  BY <1>0, ChargeFacts DEF Routed, Route
<1>3. act' \in [Actors -> Act] /\ Alone(h) /\ act'[h].at = "push" /\ act'[h].event = k
  BY <1>0, <1>1, Moved DEF Places
<1>4. Route(h)'
  BY <1>1, <1>2, <1>3, IdleAct, ChargeFacts DEF Route
<1>5. HooksTyped'
  BY <1>1, <1>3, ChargeFacts DEF HooksTyped
<1>6. ASSUME k \in Charges, k \notin raced PROVE QueuedCharge(k)'
  <2>1. QueuedCharge(k) /\ Entering(h, k)
    BY <1>0, <1>2, <1>6, ChargeFacts DEF ChargeInv, Entering
  <2>2. ~Begun(k) /\ InOnePlace(k) /\ \A b \in Actors \ {h} : ~Entering(b, k)
    BY <1>0, <2>1 DEF QueuedCharge
  <2>3. \A b \in Actors \ {h} : ~Entering(b, k)' /\ ~Working(b, k)'
    BY <1>3, <2>2, OthersAt DEF Begun
  <2>4. ~Entering(h, k)'
    BY <1>3 DEF Entering
  <2>5. /\ ~(charged[k] > 0) /\ charged'[k] = charged[k]
        /\ \A n \in 0..HOOK_RETRIES : ~Queued(k, n)' /\ hooks'[k][n] <= 1
    BY <1>1, <2>2 DEF Begun, Queued, InOnePlace
  <2>6. InOnePlace(k)'
    BY <2>2, <2>3, <2>5 DEF InOnePlace
  <2> QED BY <1>1, <2>3, <2>4, <2>6 DEF QueuedCharge
<1>7. k \in Charges => ChargeInv(k)'
  BY <1>1, <1>2, <1>6 DEF ChargeInv
<1> QED BY <1>0, <1>1, <1>3, <1>4, <1>5, <1>7, ActorSteps

\* Who works on a charge is alone with it, and it is neither queued nor booked.
LEMMA OneWorks ==
    ASSUME NEW k \in Charges, InOnePlace(k), NEW a \in Actors, Working(a, k)
    PROVE  /\ ~(charged[k] > 0) /\ Begun(k)
           /\ \A n \in 0..HOOK_RETRIES : ~Queued(k, n)
           /\ \A b \in Actors \ {a} : ~Working(b, k)
BY DEF InOnePlace, Begun

\* It goes from who works on it to one place more.
LEMMA LeavesForQueue ==
    ASSUME CardInv, HooksTyped', NEW k \in Charges, InOnePlace(k), NEW a \in Actors,
           Working(a, k), ~Working(a, k)', Alone(a), charged' = charged,
           NEW n \in 0..HOOK_RETRIES,
           hooks' = [hooks EXCEPT ![k] = [hooks[k] EXCEPT ![n] = hooks[k][n] + 1]]
    PROVE  InOnePlace(k)'
<1>1. /\ hooks[k] \in [0..HOOK_RETRIES -> Nat] /\ ~Queued(k, n) /\ k \in CardEvents
      /\ \A m \in 0..HOOK_RETRIES : ~Queued(k, m)
      /\ hooks \in [CardEvents -> [0..HOOK_RETRIES -> Nat]]
  BY OneWorks, ChargeFacts
<1>2. hooks[k][n] = 0
  BY <1>1 DEF Queued
<1>3. hooks'[k][n] = 1 /\ \A m \in 0..HOOK_RETRIES : m # n => hooks'[k][m] = hooks[k][m]
  BY <1>1, <1>2
<1>4. \A m \in 0..HOOK_RETRIES : Queued(k, m)' => m = n
  BY <1>1, <1>3 DEF Queued
<1>5. \A b \in Actors : ~Working(b, k)'
  BY OneWorks, OthersAt
<1>6. ~(charged'[k] > 0) /\ charged'[k] <= 1
  BY OneWorks DEF InOnePlace
<1>7. \A m \in 0..HOOK_RETRIES : hooks'[k][m] <= 1
  BY <1>3 DEF InOnePlace
<1> QED BY <1>4, <1>5, <1>6, <1>7 DEF InOnePlace

LEMMA QueueHookKeeps ==
    ASSUME CardInv, CardTyped', NEW h \in Receivers, QueueHook(h)
    PROVE  CardInv'
<1>0. act[h].at = "push" /\ h \in Actors /\ act[h].event \in CardEvents
  BY ChargeFacts, ActFields DEF QueueHook
<1> PICK k \in CardEvents : k = act[h].event
  BY <1>0
<1>1. /\ act' = [act EXCEPT ![h] = Idle]
      /\ rows' = rows /\ charged' = charged /\ direct' = direct /\ marked' = marked
      /\ dead' = dead /\ lapsed' = lapsed /\ raced' = raced
      /\ hooks' = [hooks EXCEPT ![k] = [hooks[k] EXCEPT ![0] = hooks[k][0] + 1]]
  BY <1>0 DEF QueueHook, Rests, Card, Booked, HookJobs
<1>2. k \notin direct
  BY <1>0, ChargeFacts DEF Routed, Route
<1>3. act' \in [Actors -> Act] /\ Alone(h) /\ act'[h] = Idle
  BY <1>0, <1>1, IdleAct, Placed
<1>4. Route(h)'
  BY <1>3, IdleAct, ChargeFacts DEF Route
<1>5. HooksTyped' /\ \A e \in CardEvents \ {k} : hooks'[e] = hooks[e]
  <2>0. hooks[k] \in [0..HOOK_RETRIES -> Nat] /\ hooks[k][0] \in Nat
    BY ChargeFacts
  <2>1. hooks[k] \in [0..HOOK_RETRIES -> Nat] /\ hooks[k][0] + 1 \in Nat
    BY <2>0
  <2>2. [hooks[k] EXCEPT ![0] = hooks[k][0] + 1] \in [0..HOOK_RETRIES -> Nat]
    BY <2>1
  <2>3. hooks' \in [CardEvents -> [0..HOOK_RETRIES -> Nat]]
    BY <1>1, <2>2, ChargeFacts
  <2> QED BY <1>1, <1>3, <2>3, ChargeFacts DEF HooksTyped
<1>6. ASSUME k \in Charges, k \notin raced PROVE QueuedCharge(k)'
  <2>1. QueuedCharge(k) /\ Working(h, k)
    BY <1>0, <1>2, <1>6, ChargeFacts DEF ChargeInv, Working
  <2>2. InOnePlace(k)'
    BY <1>0, <1>1, <1>3, <1>5, <1>6, <2>1, IdleAct, ChargeFacts, LeavesForQueue
       DEF QueuedCharge, Working
  <2>3. k \in rows'
    BY <1>0, <1>1, <1>6, <2>1, OneWorks DEF QueuedCharge
  <2>4. \A b \in Actors : ~Entering(b, k)'
    <3>1. \A b \in Actors : ~Entering(b, k)
      BY <1>1, <2>1, <2>3 DEF QueuedCharge
    <3>2. \A b \in Actors \ {h} : ~Entering(b, k)'
      BY <1>3, <3>1, OthersAt
    <3>3. ~Entering(h, k)'
      BY <1>3, IdleAct, ChargeFacts DEF Entering
    <3> QED BY <3>2, <3>3
  <2> QED BY <2>2, <2>3, <2>4 DEF QueuedCharge
<1>7. k \in Charges => ChargeInv(k)'
  BY <1>1, <1>2, <1>6 DEF ChargeInv
<1>8. act'[h].event = Nothing
  BY <1>3, IdleAct
<1> QED BY <1>0, <1>1, <1>2, <1>3, <1>4, <1>5, <1>7, <1>8, ActorSteps

LEMMA ClaimHookKeeps ==
    ASSUME CardInv, CardTyped', NEW h \in Receivers, ClaimHook(h)
    PROVE  CardInv'
<1>0. act[h].at = "claim" /\ h \in Actors /\ act[h].event \in CardEvents
  BY ChargeFacts, ActFields DEF ClaimHook
<1> PICK k \in CardEvents : k = act[h].event
  BY <1>0
<1>1. /\ Moves(h, "handle") /\ rows' = rows /\ hooks' = hooks /\ charged' = charged
      /\ direct' = direct /\ marked' = marked \cup {k} /\ dead' = dead
      /\ lapsed' = lapsed /\ raced' = raced
  BY <1>0 DEF ClaimHook, Card, Booked, HookJobs
<1>2. k \in direct
  BY <1>0, ChargeFacts DEF Routed, Route
<1>3. act' \in [Actors -> Act] /\ Alone(h) /\ act'[h].at = "handle" /\ act'[h].event = k
  BY <1>0, <1>1, Moved DEF Places
<1>4. Route(h)'
  BY <1>1, <1>2, <1>3, IdleAct, ChargeFacts DEF Route
<1>5. HooksTyped'
  BY <1>1, <1>3, ChargeFacts DEF HooksTyped
<1>6. ASSUME k \in Charges, k \notin raced, k \notin lapsed PROVE DirectCharge(k)'
  <2>1. DirectCharge(k)
    BY <1>2, <1>6, ChargeFacts DEF ChargeInv
  <2>2. ~Begun(k) /\ InOnePlace(k) /\ \A b \in Actors \ {h} : act[b].event # k
    BY <1>0, <2>1 DEF DirectCharge
  <2>3. \A b \in Actors \ {h} : act'[b].event # k /\ ~Working(b, k)'
    BY <1>3, <2>2, OthersAt DEF Begun
  <2>4. /\ ~(charged[k] > 0) /\ charged'[k] = charged[k]
        /\ \A n \in 0..HOOK_RETRIES : ~Queued(k, n)' /\ hooks'[k][n] <= 1
    BY <1>1, <2>2 DEF Begun, Queued, InOnePlace
  <2>5. InOnePlace(k)'
    BY <2>2, <2>3, <2>4 DEF InOnePlace
  <2> QED BY <1>1, <1>3, <2>3, <2>5 DEF DirectCharge
<1>7. k \in Charges => ChargeInv(k)'
  BY <1>1, <1>2, <1>6 DEF ChargeInv
<1> QED BY <1>0, <1>1, <1>3, <1>4, <1>5, <1>7, ActorSteps

\* An actor is gone from its event, and what it did there is undone or is the
\* retry that Stripe sends.
LEMMA LeavesEvent ==
    ASSUME CardInv, CardTyped', NEW a \in Actors, Rests(a),
           rows' = rows, hooks' = hooks, charged' = charged, direct' = direct,
           marked' = marked, dead' = dead \/ dead' = dead \cup {act[a].event},
           lapsed' = lapsed, raced' = raced, act[a].event \in CardEvents
    PROVE  CardInv'
<1> PICK k \in CardEvents : k = act[a].event
  OBVIOUS
<1>1. act' \in [Actors -> Act] /\ Alone(a) /\ act'[a] = Idle
  BY IdleAct, Placed DEF Rests
<1>2. Route(a)'
  BY <1>1, IdleAct, ChargeFacts DEF Route
<1>3. HooksTyped'
  BY <1>1, ChargeFacts DEF HooksTyped
<1>4. ASSUME k \in Charges PROVE ChargeInv(k)'
  <2>1. \A b \in Actors : /\ Working(b, k)' => Working(b, k)
                          /\ Entering(b, k)' => Entering(b, k)
                          /\ act'[b].event = k => act'[b] = act[b]
    BY <1>1, OthersAt, IdleAct, ChargeFacts DEF Working, Entering, Alone
  <2>2. InOnePlace(k) => InOnePlace(k)'
    BY <2>1 DEF InOnePlace, Queued
  <2>3. Begun(k)' => Begun(k)
    BY <2>1 DEF Begun, Queued
  <2>4. QueuedCharge(k) => QueuedCharge(k)'
    BY <2>1, <2>2, <2>3 DEF QueuedCharge
  <2>5. DirectCharge(k) => DirectCharge(k)'
    BY <2>1, <2>2, <2>3 DEF DirectCharge
  <2> QED BY <1>4, <2>4, <2>5, ChargeFacts DEF ChargeInv
<1>5. act'[a].event = Nothing
  BY <1>1, IdleAct
<1> QED BY <1>1, <1>2, <1>3, <1>4, <1>5, ActorSteps

LEMMA FailKeeps ==
    ASSUME CardInv, CardTyped', NEW a \in Actors, ReceiverFails(a) \/ TaskDies(a)
    PROVE  CardInv'
<1>1. act[a].event \in CardEvents
  BY ChargeFacts DEF ReceiverFails, TaskDies, Routed, Route
<1> QED BY <1>1, LeavesEvent
        DEF ReceiverFails, TaskDies, Card, Booked, HookJobs

LEMMA KeyEvictedKeeps ==
    ASSUME CardInv, CardTyped', NEW k \in CardEvents, KeyEvicted(k)
    PROVE  CardInv'
<1>1. /\ rows' = rows /\ act' = act /\ hooks' = hooks /\ charged' = charged
      /\ direct' = direct /\ dead' = dead /\ raced' = raced
      /\ marked' = marked \ {k} /\ lapsed' = lapsed \cup {k}
  BY DEF KeyEvicted, Card, Booked, HookJobs
<1>2. HooksTyped'
  BY <1>1, ChargeFacts DEF HooksTyped
<1>3. Routed'
  <2>1. \A a \in Actors : Route(a)'
    BY <1>1, ChargeFacts DEF Routed, Route
  <2> QED BY <1>1, <2>1, ChargeFacts DEF Routed, Queued
<1>4. ASSUME k \in Charges PROVE ChargeInv(k)'
  <2>1. QueuedCharge(k) => QueuedCharge(k)'
    BY <1>1 DEF QueuedCharge, InOnePlace, Begun, Queued, Working, Entering
  <2> QED BY <1>1, <1>4, <2>1, ChargeFacts DEF ChargeInv
<1> QED BY <1>1, <1>2, <1>3, <1>4, OneEvent

LEMMA HandleHookKeeps ==
    ASSUME CardInv, CardTyped', NEW a \in Actors, HandleHook(a)
    PROVE  CardInv'
<1>0. act[a].at = "handle" /\ act[a].event \in CardEvents
  BY ChargeFacts, ActFields DEF HandleHook
<1> PICK k \in CardEvents : k = act[a].event
  BY <1>0
<1> DEFINE v == [act[a] EXCEPT !.at = "commit", !.seen = card.status]
<1>1. /\ act' = [act EXCEPT ![a] = v]
      /\ rows' = rows /\ hooks' = hooks /\ charged' = charged /\ direct' = direct
      /\ marked' = marked /\ dead' = dead /\ lapsed' = lapsed /\ raced' = raced
  BY <1>0 DEF HandleHook, Card, HookJobs
<1>2. v \in Act /\ v.at = "commit" /\ v.event = k
  <2>1. card.status \in {"active", "inactive", "voided", "expired"}
    BY DEF CardInv, CardTypeOK
  <2> QED BY <1>0, <2>1, ActFields DEF Act, Places
<1> HIDE DEF v
<1>3. act' \in [Actors -> Act] /\ Alone(a) /\ act'[a].at = "commit" /\ act'[a].event = k
  BY <1>1, <1>2, Placed
<1>4. Route(a)'
  BY <1>0, <1>1, <1>3, IdleAct, ChargeFacts DEF Route, Routed
<1>5. HooksTyped'
  BY <1>1, <1>3, ChargeFacts DEF HooksTyped
<1>6. ASSUME k \in Charges PROVE ChargeInv(k)'
  <2>1. \A b \in Actors : /\ Working(b, k)' <=> Working(b, k)
                          /\ Entering(b, k)' <=> Entering(b, k)
                          /\ act'[b].event = act[b].event
                          /\ act'[b].at = "claim" => act[b].at = "claim"
    BY <1>0, <1>3, OthersAt DEF Working, Entering
  <2>2. InOnePlace(k)' <=> InOnePlace(k)
    BY <1>1, <2>1 DEF InOnePlace, Queued
  <2>3. Begun(k)' <=> Begun(k)
    BY <1>1, <2>1 DEF Begun, Queued
  <2>4. QueuedCharge(k)' <=> QueuedCharge(k)
    BY <1>1, <2>1, <2>2, <2>3 DEF QueuedCharge
  <2>5. DirectCharge(k) => DirectCharge(k)'
    BY <1>1, <2>1, <2>2, <2>3 DEF DirectCharge
  <2> QED BY <1>1, <1>6, <2>4, <2>5, ChargeFacts DEF ChargeInv
<1> QED BY <1>0, <1>1, <1>3, <1>4, <1>5, <1>6, ActorSteps

LEMMA CommitHookKeeps ==
    ASSUME CardInv, CardTyped', NEW a \in Actors, CommitHook(a)
    PROVE  CardInv'
<1>0. act[a].at = "commit" /\ act[a].event \in CardEvents
  BY ChargeFacts, ActFields DEF CommitHook
<1> PICK k \in CardEvents : k = act[a].event
  BY <1>0
<1>1. /\ act' = [act EXCEPT ![a] = Idle]
      /\ rows' = rows /\ hooks' = hooks /\ direct' = direct
      /\ marked' = marked /\ dead' = dead /\ lapsed' = lapsed /\ raced' = raced
      /\ charged' = IF k \in Charges THEN [charged EXCEPT ![k] = charged[k] + 1] ELSE charged
  BY <1>0 DEF CommitHook, Rests, HookJobs
<1>2. act' \in [Actors -> Act] /\ Alone(a) /\ act'[a] = Idle
  BY <1>1, IdleAct, Placed
<1>3. Route(a)'
  BY <1>2, IdleAct, ChargeFacts DEF Route
<1>4. charged' \in [Charges -> Nat] /\ \A e \in Charges \ {k} : charged'[e] = charged[e]
  BY <1>1, ChargeFacts
<1>5. HooksTyped'
  BY <1>1, <1>2, <1>4, ChargeFacts DEF HooksTyped
<1>6. ASSUME k \in Charges PROVE ChargeInv(k)'
  <2>1. Working(a, k)
    BY <1>0 DEF Working
  <2>2. \A b \in Actors : /\ Entering(b, k)' => Entering(b, k)
                          /\ act'[b].event = k => act'[b] = act[b]
    BY <1>2, OthersAt, IdleAct, ChargeFacts DEF Entering, Alone
  <2>3. InOnePlace(k) => InOnePlace(k)' /\ Begun(k)
    <3> SUFFICES ASSUME InOnePlace(k) PROVE InOnePlace(k)' /\ Begun(k)
      OBVIOUS
    <3>1. /\ ~(charged[k] > 0) /\ Begun(k)
          /\ \A n \in 0..HOOK_RETRIES : ~Queued(k, n)
          /\ \A b \in Actors \ {a} : ~Working(b, k)
      BY <1>6, <2>1, OneWorks
    <3>2. charged'[k] = 1
      BY <1>1, <1>6, <3>1, ChargeFacts
    <3>3. \A b \in Actors : ~Working(b, k)'
      <4>1. \A b \in Actors \ {a} : ~Working(b, k)'
        BY <1>2, <3>1, OthersAt
      <4>2. ~Working(a, k)'
        BY <1>2, IdleAct, ChargeFacts DEF Working
      <4> QED BY <4>1, <4>2
    <3>4. \A n \in 0..HOOK_RETRIES : ~Queued(k, n)' /\ hooks'[k][n] <= 1
      BY <1>1, <3>1 DEF Queued, InOnePlace
    <3> QED BY <3>1, <3>2, <3>3, <3>4 DEF InOnePlace
  <2>4. QueuedCharge(k) => QueuedCharge(k)'
    BY <1>1, <2>2, <2>3 DEF QueuedCharge
  <2>5. DirectCharge(k) => DirectCharge(k)'
    <3> SUFFICES ASSUME DirectCharge(k) PROVE DirectCharge(k)'
      OBVIOUS
    <3>1. \A b \in Actors : act'[b].event # k
      BY <1>0, <1>2, OthersAt, IdleAct, ChargeFacts DEF DirectCharge
    <3> QED BY <1>1, <2>3, <3>1 DEF DirectCharge
  <2> QED BY <1>1, <1>6, <2>4, <2>5, ChargeFacts DEF ChargeInv
<1>7. act'[a].event = Nothing
  BY <1>2, IdleAct
<1> QED BY <1>0, <1>1, <1>2, <1>3, <1>4, <1>5, <1>6, <1>7, ActorSteps

LEMMA TakeHookKeeps ==
    ASSUME CardInv, CardTyped', NEW w \in HookTasks, NEW k \in CardEvents,
           NEW n \in 0..HOOK_RETRIES, TakeHook(w, k, n)
    PROVE  CardInv'
<1>1. /\ act' = [act EXCEPT ![w] = At("handle", k, n)] /\ act[w] = Idle /\ Queued(k, n)
      /\ rows' = rows /\ charged' = charged /\ direct' = direct /\ marked' = marked
      /\ dead' = dead /\ lapsed' = lapsed /\ raced' = raced
      /\ hooks' = [hooks EXCEPT ![k] = [hooks[k] EXCEPT ![n] = hooks[k][n] - 1]]
  BY DEF TakeHook, Card, Booked, Queued
<1>2. k \notin direct
  BY <1>1, ChargeFacts DEF Routed
<1> DEFINE v == At("handle", k, n)
<1>3. v \in Act /\ v.at = "handle" /\ v.event = k
  BY AtAct DEF Places
<1>a. act' = [act EXCEPT ![w] = v] /\ w \in Actors
  BY <1>1, ChargeFacts
<1> HIDE DEF v
<1>4. /\ act' \in [Actors -> Act] /\ Alone(w)
      /\ act'[w].at = "handle" /\ act'[w].event = k /\ w \in Actors
  BY <1>a, <1>3, Placed
<1>5. Route(w)'
  BY <1>1, <1>2, <1>4, IdleAct, ChargeFacts DEF Route
<1>6. /\ hooks[k] \in [0..HOOK_RETRIES -> Nat] /\ hooks[k][n] \in Nat
      /\ hooks[k][n] - 1 \in Nat
  <2>1. hooks[k] \in [0..HOOK_RETRIES -> Nat] /\ hooks[k][n] \in Nat
    BY ChargeFacts
  <2> QED BY <1>1, <2>1 DEF Queued
<1>7. HooksTyped' /\ \A e \in CardEvents \ {k} : hooks'[e] = hooks[e]
  <2>1. [hooks[k] EXCEPT ![n] = hooks[k][n] - 1] \in [0..HOOK_RETRIES -> Nat]
    BY <1>6
  <2>2. hooks' \in [CardEvents -> [0..HOOK_RETRIES -> Nat]]
    BY <1>1, <2>1, ChargeFacts
  <2> QED BY <1>1, <1>4, <2>2, ChargeFacts DEF HooksTyped
<1>8. ASSUME k \in Charges, k \notin raced PROVE QueuedCharge(k)'
  <2>1. QueuedCharge(k)
    BY <1>2, <1>8, ChargeFacts DEF ChargeInv
  <2>2. /\ hooks[k][n] = 1 /\ ~(charged[k] > 0)
        /\ \A b \in Actors : ~Working(b, k)
        /\ \A m \in 0..HOOK_RETRIES : m # n => ~Queued(k, m)
    BY <1>1, <1>6, <2>1 DEF QueuedCharge, InOnePlace, Queued
  <2>3. /\ hooks'[k][n] = 0
        /\ \A m \in 0..HOOK_RETRIES : m # n => hooks'[k][m] = hooks[k][m]
    BY <1>1, <1>6, <2>2, ChargeFacts
  <2>4. \A m \in 0..HOOK_RETRIES : ~Queued(k, m)' /\ hooks'[k][m] <= 1
    BY <2>1, <2>2, <2>3 DEF Queued, QueuedCharge, InOnePlace
  <2>5. \A b \in Actors \ {w} : ~Working(b, k)'
    BY <1>4, <2>2, OthersAt
  <2>6. InOnePlace(k)'
    BY <1>1, <2>1, <2>2, <2>4, <2>5 DEF InOnePlace, QueuedCharge
  <2>7. k \in rows'
    BY <1>1, <2>1 DEF QueuedCharge, Begun
  <2>8. \A b \in Actors : ~Entering(b, k)'
    <3>1. \A b \in Actors : ~Entering(b, k)
      BY <1>1, <2>1, <2>7 DEF QueuedCharge
    <3> QED BY <1>4, <3>1, OthersAt DEF Entering
  <2> QED BY <2>6, <2>7, <2>8 DEF QueuedCharge
<1>9. k \in Charges => ChargeInv(k)'
  BY <1>1, <1>2, <1>8 DEF ChargeInv
<1>10. act[w].event = Nothing
  BY <1>1, IdleAct
<1> QED BY <1>1, <1>2, <1>4, <1>5, <1>7, <1>9, <1>10, ActorSteps

LEMMA TaskRaisesKeeps ==
    ASSUME CardInv, CardTyped', NEW w \in HookTasks, TaskRaises(w)
    PROVE  CardInv'
<1>0. act[w].at \in {"handle", "commit"} /\ w \in Actors /\ act[w].event \in CardEvents
  BY ChargeFacts, ActFields DEF TaskRaises
<1> PICK k \in CardEvents : k = act[w].event
  BY <1>0
<1>1. /\ rows' = rows /\ hooks' = hooks /\ charged' = charged /\ direct' = direct
      /\ marked' = marked /\ lapsed' = lapsed /\ raced' = raced
      /\ \/ Moves(w, "backoff") /\ act[w].retry < HOOK_RETRIES /\ dead' = dead
         \/ Rests(w) /\ dead' = dead \cup {k}
  BY <1>0 DEF TaskRaises, Card, Booked
<1>2. CASE Rests(w) /\ dead' = dead \cup {k}
  BY <1>0, <1>1, <1>2, LeavesEvent
<1>3. CASE Moves(w, "backoff") /\ act[w].retry < HOOK_RETRIES /\ dead' = dead
  <2>1. k \notin direct
    BY <1>0, ChargeFacts DEF Routed, Route
  <2>2. /\ act' \in [Actors -> Act] /\ Alone(w) /\ act'[w].at = "backoff"
        /\ act'[w].event = k /\ act'[w].retry = act[w].retry
    BY <1>0, <1>3, Moved DEF Places
  <2>3. Route(w)'
    BY <1>1, <1>3, <2>1, <2>2, IdleAct, ChargeFacts DEF Route
  <2>4. HooksTyped'
    BY <1>1, <1>3, <2>2, ChargeFacts DEF HooksTyped
  <2>5. ASSUME k \in Charges PROVE ChargeInv(k)'
    <3>1. \A b \in Actors : /\ Working(b, k)' <=> Working(b, k)
                            /\ Entering(b, k)' <=> Entering(b, k)
      BY <1>0, <2>2, OthersAt DEF Working, Entering
    <3>2. InOnePlace(k)' <=> InOnePlace(k)
      BY <1>1, <3>1 DEF InOnePlace, Queued
    <3>3. Begun(k)' <=> Begun(k)
      BY <1>1, <3>1 DEF Begun, Queued
    <3>4. QueuedCharge(k)' <=> QueuedCharge(k)
      BY <1>1, <3>1, <3>2, <3>3 DEF QueuedCharge
    <3> QED BY <1>1, <2>1, <2>5, <3>4, ChargeFacts DEF ChargeInv
  <2> QED BY <1>0, <1>1, <2>2, <2>3, <2>4, <2>5, ActorSteps
<1> QED BY <1>1, <1>2, <1>3

LEMMA RequeueHookKeeps ==
    ASSUME CardInv, CardTyped', NEW w \in HookTasks, RequeueHook(w)
    PROVE  CardInv'
<1>0. act[w].at = "backoff" /\ w \in Actors /\ act[w].event \in CardEvents
  BY ChargeFacts, ActFields DEF RequeueHook
<1> PICK k \in CardEvents : k = act[w].event
  BY <1>0
<1>n. act[w].retry \in 0..HOOK_RETRIES /\ act[w].retry < HOOK_RETRIES
  BY <1>0, ActFields, ChargeFacts DEF Routed, Route
<1> PICK n \in 0..HOOK_RETRIES : n = act[w].retry + 1
  BY <1>n, CardAssumption
<1>1. /\ act' = [act EXCEPT ![w] = Idle]
      /\ rows' = rows /\ charged' = charged /\ direct' = direct /\ marked' = marked
      /\ dead' = dead /\ lapsed' = lapsed /\ raced' = raced
      /\ hooks' = [hooks EXCEPT ![k] = [hooks[k] EXCEPT ![n] = hooks[k][n] + 1]]
  BY <1>0 DEF RequeueHook, Rests, Card, Booked
<1>2. k \notin direct
  BY <1>0, ChargeFacts DEF Routed, Route
<1>3. act' \in [Actors -> Act] /\ Alone(w) /\ act'[w] = Idle
  BY <1>0, <1>1, IdleAct, Placed
<1>4. Route(w)'
  BY <1>3, IdleAct, ChargeFacts DEF Route
<1>5. HooksTyped' /\ \A e \in CardEvents \ {k} : hooks'[e] = hooks[e]
  <2>0. hooks[k] \in [0..HOOK_RETRIES -> Nat] /\ hooks[k][n] \in Nat
    BY ChargeFacts
  <2>1. hooks[k][n] + 1 \in Nat
    BY <2>0
  <2>2. [hooks[k] EXCEPT ![n] = hooks[k][n] + 1] \in [0..HOOK_RETRIES -> Nat]
    BY <2>0, <2>1
  <2>3. hooks' \in [CardEvents -> [0..HOOK_RETRIES -> Nat]]
    BY <1>1, <2>2, ChargeFacts
  <2> QED BY <1>1, <1>3, <2>3, ChargeFacts DEF HooksTyped
<1>6. ASSUME k \in Charges, k \notin raced PROVE QueuedCharge(k)'
  <2>1. QueuedCharge(k) /\ Working(w, k)
    BY <1>0, <1>2, <1>6, ChargeFacts DEF ChargeInv, Working
  <2>2. InOnePlace(k)'
    BY <1>0, <1>1, <1>3, <1>5, <1>6, <2>1, IdleAct, ChargeFacts, LeavesForQueue
       DEF QueuedCharge, Working
  <2>3. k \in rows'
    BY <1>0, <1>1, <1>6, <2>1, OneWorks DEF QueuedCharge
  <2>4. \A b \in Actors : ~Entering(b, k)'
    <3>1. \A b \in Actors : ~Entering(b, k)
      BY <1>1, <2>1, <2>3 DEF QueuedCharge
    <3>2. \A b \in Actors \ {w} : ~Entering(b, k)'
      BY <1>3, <3>1, OthersAt
    <3>3. ~Entering(w, k)'
      BY <1>3, IdleAct, ChargeFacts DEF Entering
    <3> QED BY <3>2, <3>3
  <2> QED BY <2>2, <2>3, <2>4 DEF QueuedCharge
<1>7. k \in Charges => ChargeInv(k)'
  BY <1>1, <1>2, <1>6 DEF ChargeInv
<1>8. act'[w].event = Nothing
  BY <1>3, IdleAct
<1> QED BY <1>0, <1>1, <1>2, <1>3, <1>4, <1>5, <1>7, <1>8, ActorSteps

LEMMA CardEndKeeps ==
    ASSUME CardInv, CardTyped', UNCHANGED Hooked
    PROVE  CardInv'
<1>1. /\ rows' = rows /\ act' = act /\ hooks' = hooks /\ charged' = charged
      /\ direct' = direct /\ dead' = dead /\ raced' = raced
      /\ marked' = marked /\ lapsed' = lapsed
  BY DEF Hooked, Booked, HookJobs
<1>2. HooksTyped'
  BY <1>1, ChargeFacts DEF HooksTyped
<1>3. Routed'
  <2>1. \A a \in Actors : Route(a)'
    BY <1>1, ChargeFacts DEF Routed, Route
  <2> QED BY <1>1, <2>1, ChargeFacts DEF Routed, Queued
<1>4. \A e \in Charges : ChargeInv(e)'
  <2> SUFFICES ASSUME NEW e \in Charges PROVE ChargeInv(e)'
    OBVIOUS
  <2>1. \A a \in Actors : /\ Working(a, e)' <=> Working(a, e)
                          /\ Entering(a, e)' <=> Entering(a, e)
    BY <1>1 DEF Working, Entering
  <2>2. Begun(e)' <=> Begun(e)
    BY <1>1, <2>1 DEF Begun, Queued
  <2>3. InOnePlace(e)' <=> InOnePlace(e)
    BY <1>1, <2>1 DEF InOnePlace, Queued
  <2>4. (QueuedCharge(e)' <=> QueuedCharge(e)) /\ (DirectCharge(e)' <=> DirectCharge(e))
    BY <1>1, <2>1, <2>2, <2>3 DEF QueuedCharge, DirectCharge
  <2> QED BY <1>1, <2>4, ChargeFacts DEF ChargeInv
<1>5. CardTypeOK'
  BY <1>2, CardTypes, PTL
<1> QED BY <1>3, <1>4, <1>5 DEF CardInv

LEMMA CardInvKept == CardInv /\ [CardNext]_cardVars => CardInv'
<1>1. ASSUME CardInv, CardNext PROVE CardInv'
  <2>1. CardTyped'
    BY <1>1, CardTypedKept DEF CardInv
  <2>2. ASSUME NEW h \in Receivers, NEW e \in CardEvents,
               Receive(h, e) \/ ReceiveWithoutRedis(h, e)
        PROVE  CardInv'
    BY <1>1, <2>1, <2>2, ReceiveKeeps
  <2>3. ASSUME NEW h \in Receivers, FindRow(h) \/ NoRow(h) \/ MarkKey(h)
        PROVE  CardInv'
    BY <1>1, <2>1, <2>3, FindRowKeeps, NoRowKeeps, MarkKeyKeeps
  <2>4. ASSUME NEW h \in Receivers, InsertRow(h) \/ QueueHook(h) \/ ClaimHook(h)
        PROVE  CardInv'
    BY <1>1, <2>1, <2>4, InsertRowKeeps, QueueHookKeeps, ClaimHookKeeps
  <2>5. ASSUME NEW a \in Actors, ReceiverFails(a) \/ TaskDies(a) PROVE CardInv'
    BY <1>1, <2>1, <2>5, FailKeeps
  <2>6. ASSUME NEW w \in HookTasks, NEW e \in CardEvents, NEW n \in 0..HOOK_RETRIES,
               TakeHook(w, e, n)
        PROVE  CardInv'
    BY <1>1, <2>1, <2>6, TakeHookKeeps
  <2>7. ASSUME NEW w \in HookTasks, TaskRaises(w) \/ RequeueHook(w) PROVE CardInv'
    BY <1>1, <2>1, <2>7, TaskRaisesKeeps, RequeueHookKeeps
  <2>8. ASSUME NEW a \in Actors, HandleHook(a) \/ CommitHook(a) PROVE CardInv'
    BY <1>1, <2>1, <2>8, HandleHookKeeps, CommitHookKeeps
  <2>9. ASSUME NEW e \in CardEvents, KeyEvicted(e) PROVE CardInv'
    BY <1>1, <2>1, <2>9, KeyEvictedKeeps
  <2>10. ASSUME NEW x \in Enders,
                BeginEnd(x) \/ BeginEndWithoutIssuer(x) \/ EndCard(x) \/ EndFails(x)
         PROVE  CardInv'
    <3>1. UNCHANGED Hooked
      BY <2>10, Zenon DEF BeginEnd, BeginEndWithoutIssuer, EndCard, EndFails
    <3> QED BY <1>1, <2>1, <3>1, CardEndKeeps
  <2> QED BY <1>1, <2>2, <2>3, <2>4, <2>5, <2>6, <2>7, <2>8, <2>9, <2>10, ChargeFacts
          DEF CardNext
<1>2. ASSUME CardInv, UNCHANGED cardVars PROVE CardInv'
  <2>1. UNCHANGED Hooked
    BY <1>2, Zenon DEF cardVars, Hooked, Booked, HookJobs
  <2>2. CardTyped'
    <3>1. CardTyped
      BY <1>2, CardTypes DEF CardInv
    <3>2. card' = card /\ issuer' = issuer /\ ending' = ending /\ confirmed' = confirmed
      BY <1>2, Zenon DEF cardVars
    <3> QED BY <3>1, <3>2, Zenon DEF CardTyped
  <2> QED BY <1>2, <2>1, <2>2, CardEndKeeps
<1> QED BY <1>1, <1>2

LEMMA CardInvStarts == CardInit => CardInv
<1> SUFFICES ASSUME CardInit PROVE CardInv
  OBVIOUS
<1>1. /\ act = [a \in Actors |-> Idle] /\ direct \in SUBSET CardEvents
      /\ hooks = [e \in CardEvents |-> [n \in 0..HOOK_RETRIES |-> 0]]
      /\ charged = [e \in Charges |-> 0] /\ marked = {} /\ rows = {} /\ dead = {}
      /\ raced = {} /\ lapsed = {}
  BY Zenon DEF CardInit
<1>2. CardTyped
  <2>1. /\ card = [status |-> "active", used |-> FALSE]
        /\ issuer = "open" /\ ending = {} /\ confirmed = FALSE
    BY Zenon DEF CardInit
  <2>2. confirmed \in BOOLEAN
    BY <2>1, Zenon
  <2>3. card \in [status : {"active", "inactive", "voided", "expired"}, used : BOOLEAN]
    BY <2>1
  <2> QED BY <2>1, <2>2, <2>3, Zenon DEF CardTyped
<1>3. HooksTyped
  BY <1>1, IdleAct DEF HooksTyped
<1>4. Routed
  <2>1. \A a \in Actors : Route(a)
    BY <1>1, IdleAct, CardAssumption DEF Route
  <2> QED BY <1>1, <2>1 DEF Routed, Queued
<1>5. \A e \in Charges : ChargeInv(e)
  <2> SUFFICES ASSUME NEW e \in Charges PROVE ChargeInv(e)
    OBVIOUS
  <2>1. e \in CardEvents /\ e # Nothing /\ charged[e] = 0
        /\ \A n \in 0..HOOK_RETRIES : hooks[e][n] = 0
    BY <1>1, CardAssumption DEF CardEvents
  <2>2. \A a \in Actors : act[a].event # e /\ ~Working(a, e) /\ ~Entering(a, e)
    BY <1>1, <2>1, IdleAct DEF Working, Entering
  <2>3. \A n \in 0..HOOK_RETRIES : ~Queued(e, n) /\ hooks[e][n] <= 1
    BY <2>1 DEF Queued
  <2>4. ~Begun(e) /\ InOnePlace(e)
    BY <2>1, <2>2, <2>3 DEF Begun, InOnePlace
  <2> QED BY <2>2, <2>4 DEF ChargeInv, QueuedCharge, DirectCharge
<1> QED BY <1>2, <1>3, <1>4, <1>5, CardTypes DEF CardInv

\* A charge that Stripe delivers again is booked once: in the outbox, in the
\* queue or with one handler, unless two deliveries of it overlapped, or its
\* only mark at the direct endpoint was lost (gateway webhooks.py:56-115,
\* payment_webhook_consumer.py:96-120).
THEOREM ChargeBookedOnce == CardSpec => [](CardTypeOK /\ ChargedOnce)
<1>1. CardInv => CardTypeOK /\ ChargedOnce
  <2> SUFFICES ASSUME CardInv, NEW e \in Charges, e \notin raced, e \notin direct \cap lapsed
               PROVE  /\ \A n \in 0..HOOK_RETRIES : hooks[e][n] <= 1
                      /\ charged[e]
                           + Cardinality({n \in 0..HOOK_RETRIES : hooks[e][n] > 0})
                           + Cardinality({a \in Actors :
                                act[a].event = e
                                /\ act[a].at \in {"push", "handle", "commit", "backoff"}})
                         <= 1
    BY DEF CardInv, ChargedOnce
  <2> DEFINE Q == {n \in 0..HOOK_RETRIES : hooks[e][n] > 0}
             W == {a \in Actors : act[a].event = e
                       /\ act[a].at \in {"push", "handle", "commit", "backoff"}}
  <2>1. InOnePlace(e)
    BY ChargeFacts DEF ChargeInv, QueuedCharge, DirectCharge
  <2>2. /\ \A m, n \in Q : m = n
        /\ \A a, b \in W : a = b
        /\ Q = {} \/ W = {}
        /\ charged[e] > 0 => Q = {} /\ W = {}
    BY <2>1 DEF InOnePlace, Queued, Working
  <2>3. charged[e] \in Nat /\ charged[e] <= 1
    BY <2>1, ChargeFacts DEF InOnePlace
  <2>4. Cardinality(Q) \in {0, 1} /\ (Q = {} => Cardinality(Q) = 0)
    BY <2>2, AtMostOne
  <2>5. Cardinality(W) \in {0, 1} /\ (W = {} => Cardinality(W) = 0)
    BY <2>2, AtMostOne
  <2> HIDE DEF Q, W
  <2>6. charged[e] + Cardinality(Q) + Cardinality(W) <= 1
    BY <2>2, <2>3, <2>4, <2>5
  <2> QED BY <2>1, <2>6 DEF InOnePlace, Q, W
<1> QED BY <1>1, CardInvStarts, CardInvKept, PTL DEF CardSpec

----------------------------------------------------------------------------
(* Credit: the score and the limit are numbers of rupees and points        *)

LEMMA LowestOf ==
    ASSUME NEW S \in SUBSET Nat, S # {}
    PROVE  \E i \in S : \A j \in S : i <= j
<1> DEFINE R == OpToRel(<, Nat)
<1>1. PICK i \in S : \A j \in S : ~(<<j, i>> \in R)
  <2>1. IsWellFoundedOn(R, Nat)
    BY NatLessThanWellFounded
  <2> HIDE DEF R
  <2> QED BY <2>1, WFMin
<1>2. \A j \in S : <<j, i>> \in R <=> j < i
  BY DEF OpToRel
<1> HIDE DEF R
<1>3. \A j \in S : ~(j < i)
  BY <1>1, <1>2
<1> QED BY <1>3

\* Whatever the value, the points are those of one of the bins.
LEMMA BinPointsCount ==
    ASSUME NEW bins \in Seq([from : Nat, below : Nat, points : Nat]), NEW value
    PROVE  BinPoints(bins, value) \in Nat
<1> DEFINE holding == {i \in 1..Len(bins) : /\ bins[i].from <= value
                                            /\ value < bins[i].below}
           first == IF holding = {} THEN Len(bins)
                    ELSE CHOOSE i \in holding : \A j \in holding : i <= j
<1>1. BinPoints(bins, value) = IF bins = << >> THEN 0 ELSE bins[first].points
  BY Zenon DEF BinPoints
<1>2. CASE bins = << >>
  BY <1>1, <1>2
<1>3. CASE bins # << >>
  <2>1. Len(bins) \in 1..Len(bins)
    BY <1>3
  <2>2. holding # {} => first \in holding
    <3>1. ASSUME holding # {} PROVE \E i \in holding : \A j \in holding : i <= j
      <4>1. holding \in SUBSET Nat
        OBVIOUS
      <4> HIDE DEF holding
      <4> QED BY <3>1, <4>1, LowestOf
    <3> QED BY <3>1
  <2>3. first \in 1..Len(bins)
    BY <2>1, <2>2
  <2> HIDE DEF first, holding
  <2> DEFINE T == [from : Nat, below : Nat, points : Nat]
  <2>4. bins \in Seq(T)
    OBVIOUS
  <2> HIDE DEF T
  <2>5. bins[first] \in T
    BY <2>3, <2>4
  <2> QED BY <1>1, <1>3, <2>5 DEF T
<1> QED BY <1>2, <1>3

LEMMA ScoreCounts == ASSUME NEW user PROVE Score(user) \in Nat
<1>1. /\ BinPoints(IDENTITY_BINS, IdentityScore(user)) \in Nat
      /\ BinPoints(ALT_BINS, AltDataScore(user)) \in Nat /\ MAX_RAW \in Nat
  BY BinPointsCount, PolicyAssumption
<1> DEFINE raw == BinPoints(IDENTITY_BINS, IdentityScore(user))
                    + BinPoints(ALT_BINS, AltDataScore(user))
<1>2. raw \in Nat
  BY <1>1
<1>3. Score(user) = Least(MAX_RAW, Most(0, raw))
  BY DEF Score
<1> HIDE DEF raw
<1> QED BY <1>1, <1>2, <1>3 DEF Least, Most

\* A score that is not declined has a band, and the band a limit.
LEMMA LimitCounts ==
    ASSUME NEW score \in Nat, score >= DECLINE_BELOW,
           NEW category \in DOMAIN MULTIPLIER, NEW capped \in BOOLEAN
    PROVE  FinalLimit(Band(score), category, capped) \in Nat
<1>1. Band(score) \in Bands
  BY PolicyAssumption DEF Band, Bands
<1> DEFINE band == Band(score)
<1>2. /\ BASE_LIMIT[band] \in Nat /\ CAPS[band] \in Nat /\ MULTIPLIER[category] \in Nat
      /\ MAXIMUM_LIMIT \in Nat
  BY <1>1, PolicyAssumption
<1> HIDE DEF band
<1>3. OverlayLimit(band, category) \in Nat
  BY <1>2 DEF OverlayLimit
<1>4. ColdStart(OverlayLimit(band, category), band, capped) \in Nat
  BY <1>2, <1>3 DEF ColdStart, Least
<1>5. FinalLimit(band, category, capped) \in Nat
  BY <1>2, <1>4 DEF FinalLimit, Least
<1> QED BY <1>5 DEF band

----------------------------------------------------------------------------
(* Credit: the key of an application and the row of its user               *)

Outcomes == {"none", "approved", "partial_approval", "increase_down_payment", "rejected"}
Stages == {"idle", "claim", "lock", "eligible", "fraud", "decide", "portfolio",
           "insert", "unlock", "answer", "push"}
Application == [at : Stages, key : Keys \cup {NoKey}, score : Nat, capped : BOOLEAN,
                category : DOMAIN MULTIPLIER \cup {"none"}, amount : Nat,
                outcome : Outcomes, limit : Nat, overtaken : BOOLEAN]

AppTyped == app \in [Applicants -> Application]

CreditTyped ==
    /\ highest \in Nat /\ granted \in Nat
    /\ made \in [Keys -> Nat] /\ spoilt \subseteq Keys
    /\ rowLock \in Forms \cup Assessors \cup {NoHolder}
    /\ keyLocks \subseteq Keys /\ answers \subseteq Keys
    /\ starts \in Nat /\ lapses \in Nat

\* Where a request with the key is: in the claim, past it, before the insert,
\* between the commit and the cached answer.
Claiming(c, k) == app[c].key = k /\ app[c].at = "claim"
Inside(c, k) == app[c].key = k /\ app[c].at # "claim"
Early(c, k) == app[c].key = k /\ app[c].at \in {"lock", "eligible", "fraud", "decide",
                                                "portfolio", "insert"}
Answering(c, k) == app[c].key = k /\ app[c].at \in {"unlock", "answer"}

\* One request at a time is past the claim of a key, under its lock; none is
\* about to make a second application, and none can become so.
KeyInv(k) ==
    k \notin spoilt =>
       /\ made[k] <= 1
       /\ \A c, d \in Forms : Inside(c, k) /\ Inside(d, k) => c = d
       /\ \A c \in Forms : Inside(c, k) => k \in keyLocks
       /\ \A c \in Forms : Early(c, k) => made[k] = 0
       /\ made[k] > 0 => k \in answers \/ \E c \in Forms : Answering(c, k)
       /\ k \notin keyLocks => \A c \in Forms : Claiming(c, k) => made[k] = 0

\* Who is about to insert an approval holds the row, and the limit that it
\* compared with the order is still the highest.
RowInv(c) ==
    /\ app[c].key # NoKey => c \in Forms
    /\ app[c].at = "idle" => app[c].key = NoKey
    /\ app[c].at = "claim" => app[c].key # NoKey
    /\ c \in Admins => app[c].at \in {"idle", "push"}
    /\ app[c].at \in {"claim", "lock", "eligible", "fraud", "decide"} =>
          app[c].category \in DOMAIN MULTIPLIER
    /\ app[c].at = "insert" /\ Approved(c) =>
          /\ rowLock = c
          /\ app[c].overtaken \/ highest + app[c].amount <= MAXIMUM_LIMIT

CreditInv ==
    /\ CreditTyped /\ portfolio \in BOOLEAN /\ AppTyped
    /\ \A k \in Keys : KeyInv(k)
    /\ \A c \in Applicants : RowInv(c)

LEMMA CreditTypes == CreditInv => CreditTypeOK
<1> SUFFICES ASSUME CreditInv PROVE CreditTypeOK
  OBVIOUS
<1>1. \A c \in Applicants : app[c] \in Application
  BY DEF CreditInv, AppTyped
<1>2. \A c \in Applicants :
          /\ app[c].at \in {"idle", "claim", "lock", "eligible", "fraud",
                             "decide", "portfolio", "insert", "unlock",
                             "answer", "push"}
          /\ app[c].key \in Keys \cup {NoKey}
          /\ app[c].outcome \in {"none", "approved", "partial_approval",
                                  "increase_down_payment", "rejected"}
  BY <1>1 DEF Application, Stages, Outcomes
<1>3. DOMAIN app = Applicants
  BY DEF CreditInv, AppTyped
<1> QED BY <1>2, <1>3, Zenon DEF CreditInv, CreditTyped, CreditTypeOK

LEMMA ApplicationFields ==
    ASSUME CreditInv, NEW c \in Applicants
    PROVE  /\ app[c] \in Application /\ app[c].at \in Stages
           /\ app[c].key \in Keys \cup {NoKey} /\ app[c].score \in Nat
           /\ app[c].capped \in BOOLEAN
           /\ app[c].category \in DOMAIN MULTIPLIER \cup {"none"}
           /\ app[c].amount \in Nat /\ app[c].outcome \in Outcomes
           /\ app[c].limit \in Nat
BY DEF CreditInv, AppTyped, Application

LEMMA NoApplicationTyped ==
    /\ NoApplication \in Application
    /\ NoApplication.at = "idle" /\ NoApplication.key = NoKey
    /\ NoApplication.outcome = "none" /\ NoApplication.limit = 0
BY DEF NoApplication, Application, Stages, Outcomes

Apart(c) == \A d \in Applicants \ {c} : app'[d] = app[d]

LEMMA AppPut ==
    ASSUME CreditInv, NEW c \in Applicants, NEW v \in Application,
           app' = [app EXCEPT ![c] = v]
    PROVE  AppTyped' /\ Apart(c) /\ app'[c] = v
BY DEF CreditInv, AppTyped, Apart

LEMMA CallGoes ==
    ASSUME CreditInv, NEW c \in Applicants, NEW p \in Stages, CallTo(c, p)
    PROVE  /\ AppTyped' /\ Apart(c) /\ app'[c].at = p /\ app'[c].key = app[c].key
           /\ app'[c].category = app[c].category /\ app'[c].amount = app[c].amount
           /\ app'[c].outcome = app[c].outcome /\ app'[c].overtaken = app[c].overtaken
<1> DEFINE v == [app[c] EXCEPT !.at = p]
<1>1. /\ v \in Application /\ v.at = p /\ v.key = app[c].key
      /\ v.category = app[c].category /\ v.amount = app[c].amount
      /\ v.outcome = app[c].outcome /\ v.overtaken = app[c].overtaken
  BY ApplicationFields DEF Application
<1>2. app' = [app EXCEPT ![c] = v]
  BY DEF CallTo
<1> HIDE DEF v
<1> QED BY <1>1, <1>2, AppPut

LEMMA CallEnds ==
    ASSUME CreditInv, NEW c \in Applicants, EndCall(c)
    PROVE  AppTyped' /\ Apart(c) /\ app'[c] = NoApplication
BY NoApplicationTyped, AppPut DEF EndCall

LEMMA TurnedAway ==
    ASSUME CreditInv, NEW c \in Applicants, TurnAway(c)
    PROVE  /\ AppTyped' /\ Apart(c) /\ app'[c].at = "insert"
           /\ app'[c].key = app[c].key /\ app'[c].outcome = "rejected"
<1> DEFINE v == [NoApplication EXCEPT !.at = "insert", !.key = app[c].key,
                                      !.outcome = "rejected"]
<1>1. /\ v \in Application /\ v.at = "insert" /\ v.key = app[c].key
      /\ v.outcome = "rejected"
  BY ApplicationFields DEF NoApplication, Application, Stages, Outcomes
<1>2. app' = [app EXCEPT ![c] = v]
  BY DEF TurnAway
<1> HIDE DEF v
<1> QED BY <1>1, <1>2, AppPut

LEMMA ApartAt ==
    ASSUME NEW c, Apart(c), NEW k
    PROVE  \A d \in Applicants \ {c} :
              /\ Claiming(d, k)' <=> Claiming(d, k)
              /\ Inside(d, k)' <=> Inside(d, k)
              /\ Early(d, k)' <=> Early(d, k)
              /\ Answering(d, k)' <=> Answering(d, k)
BY DEF Apart, Claiming, Inside, Early, Answering

\* A step that brings nobody to an earlier or another place of the key.
LEMMA KeyGoes ==
    ASSUME CreditInv, NEW c \in Applicants, Apart(c), NEW k \in Keys,
           Claiming(c, k)' => Claiming(c, k),
           Inside(c, k)' => Inside(c, k),
           Early(c, k)' => Early(c, k),
           Answering(c, k) => Answering(c, k)' \/ k \in answers' \/ k \in spoilt',
           made'[k] = made[k], k \in keyLocks' <=> k \in keyLocks,
           k \in answers => k \in answers', k \in spoilt => k \in spoilt'
    PROVE  KeyInv(k)'
<1> SUFFICES ASSUME k \notin spoilt' PROVE KeyInv(k)'
  BY DEF KeyInv
<1>1. KeyInv(k) /\ k \notin spoilt
  BY DEF CreditInv
<1>2. \A d \in Forms : /\ Claiming(d, k)' => Claiming(d, k)
                       /\ Inside(d, k)' => Inside(d, k)
                       /\ Early(d, k)' => Early(d, k)
                       /\ Answering(d, k) => Answering(d, k)' \/ k \in answers'
  BY ApartAt DEF Applicants
<1> QED BY <1>1, <1>2 DEF KeyInv

\* The others keep the row, and the highest limit is theirs.
LEMMA RowGoes ==
    ASSUME CreditInv, NEW c \in Applicants, Apart(c), RowInv(c)',
           \A d \in Applicants \ {c} : rowLock = d => rowLock' = d /\ highest' = highest
    PROVE  \A d \in Applicants : RowInv(d)'
<1>1. \A d \in Applicants \ {c} : app'[d] = app[d] /\ RowInv(d)
  BY DEF Apart, CreditInv
<1>2. \A d \in Applicants \ {c} : Approved(d)' <=> Approved(d)
  BY <1>1 DEF Approved
<1> QED BY <1>1, <1>2 DEF RowInv

\* A step of one applicant that leaves the keys, their answers and what was
\* made alone.
LEMMA AppSteps ==
    ASSUME CreditInv, NEW c \in Applicants, Apart(c), AppTyped', CreditTyped',
           portfolio' \in BOOLEAN, RowInv(c)',
           \A d \in Applicants \ {c} : rowLock = d => rowLock' = d /\ highest' = highest,
           made' = made, keyLocks' = keyLocks, answers \subseteq answers',
           spoilt \subseteq spoilt',
           \A k \in Keys :
              /\ Claiming(c, k)' => Claiming(c, k)
              /\ Inside(c, k)' => Inside(c, k)
              /\ Early(c, k)' => Early(c, k)
              /\ Answering(c, k) => Answering(c, k)' \/ k \in answers' \/ k \in spoilt'
    PROVE  CreditInv'
<1>1. \A k \in Keys : KeyInv(k)'
  BY KeyGoes
<1>2. \A d \in Applicants : RowInv(d)'
  BY RowGoes
<1> QED BY <1>1, <1>2 DEF CreditInv

LEMMA CreditFacts ==
    ASSUME CreditInv
    PROVE  /\ CreditTyped /\ portfolio \in BOOLEAN
           /\ Forms \subseteq Applicants /\ Assessors \subseteq Applicants
           /\ Admins \subseteq Applicants
           /\ \A c \in Forms \cup Assessors : c \notin Admins /\ c # NoHolder
           /\ \A c \in Assessors : c \notin Forms
           /\ NoKey \notin Keys
           /\ \A c \in Applicants : RowInv(c)
           /\ \A k \in Keys : KeyInv(k)
BY CreditAssumption DEF CreditInv, Applicants

\* The places of a call whose key stays, told from its stages.
LEMMA StageSteps ==
    ASSUME NEW c, NEW p, NEW q, app[c].at = p, app'[c].at = q,
           app'[c].key = app[c].key,
           \/ p \in {"eligible", "fraud", "decide", "portfolio", "lock"}
              /\ q \in {"eligible", "fraud", "decide", "portfolio", "insert"}
           \/ p = "unlock" /\ q = "answer"
    PROVE  \A k \in Keys :
              /\ Claiming(c, k)' => Claiming(c, k)
              /\ Inside(c, k)' => Inside(c, k)
              /\ Early(c, k)' => Early(c, k)
              /\ Answering(c, k) => Answering(c, k)'
BY DEF Claiming, Inside, Early, Answering

\* A call that is over is nowhere.
LEMMA NowhereAfter ==
    ASSUME CreditInv, NEW c \in Applicants, app'[c] = NoApplication
    PROVE  /\ RowInv(c)'
           /\ \A k \in Keys : ~Claiming(c, k)' /\ ~Inside(c, k)' /\ ~Early(c, k)'
<1>1. app'[c].key = NoKey /\ app'[c].at = "idle"
  BY NoApplicationTyped
<1> QED BY <1>1, CreditFacts DEF RowInv, Claiming, Inside, Early

LEMMA ApplyKeeps ==
    ASSUME CreditInv, NEW c \in Forms, NEW k \in Keys \cup {NoKey}, NEW wish \in Wishes,
           Apply(c, k, wish)
    PROVE  CreditInv'
<1> DEFINE p == IF k = NoKey THEN "lock" ELSE "claim"
           v == [NoApplication EXCEPT !.at = p, !.key = k, !.category = wish.category,
                    !.amount = wish.amount, !.capped = wish.first]
<1>1. /\ app' = [app EXCEPT ![c] = v] /\ app[c].at = "idle" /\ k \notin answers
      /\ highest' = highest /\ made' = made /\ spoilt' = spoilt /\ rowLock' = rowLock
      /\ keyLocks' = keyLocks /\ answers' = answers /\ granted' = granted
      /\ starts' = starts + 1 /\ lapses' = lapses
  BY DEF Apply
<1>2. wish.category \in DOMAIN MULTIPLIER /\ wish.amount \in Nat /\ wish.first \in BOOLEAN
  BY CreditAssumption
<1>3. /\ v \in Application /\ v.at = p /\ v.key = k /\ v.category \in DOMAIN MULTIPLIER
  BY <1>2 DEF NoApplication, Application, Stages, Outcomes
<1> HIDE DEF v
<1>4. c \in Applicants
  BY CreditFacts
<1>5. AppTyped' /\ Apart(c) /\ app'[c] = v
  BY <1>1, <1>3, <1>4, AppPut
<1>6. CreditTyped'
  BY <1>1, CreditFacts DEF CreditTyped
<1>7. portfolio' \in BOOLEAN
  BY CreditFacts, Zenon DEF Apply
<1>8. RowInv(c)'
  BY <1>3, <1>5, CreditFacts DEF RowInv
<1>9. \A d \in Applicants : RowInv(d)'
  BY <1>1, <1>4, <1>5, <1>8, RowGoes
<1>10. ASSUME NEW m \in Keys PROVE KeyInv(m)'
  <2>1. app[c].key = NoKey
    BY <1>1, <1>4, CreditFacts DEF RowInv
  <2>2. ~Inside(c, m)' /\ ~Early(c, m)' /\ ~Answering(c, m)
    BY <1>3, <1>5, <2>1, CreditFacts DEF Inside, Early, Answering
  <2>3. CASE m # k
    <3>1. ~Claiming(c, m)'
      BY <1>3, <1>5, <2>3 DEF Claiming
    <3> QED BY <1>1, <1>4, <1>5, <2>2, <3>1, KeyGoes
  <2>4. CASE m = k
    <3> SUFFICES ASSUME m \notin spoilt PROVE KeyInv(m)'
      BY <1>1 DEF KeyInv
    <3>1. KeyInv(m) /\ m \notin answers
      BY <1>1, <2>4, CreditFacts
    <3>2. /\ \A d \in Forms : /\ Inside(d, m)' => Inside(d, m)
                              /\ Early(d, m)' => Early(d, m)
                              /\ Answering(d, m) => Answering(d, m)'
      BY <1>4, <1>5, <2>2, ApartAt, CreditFacts
    <3>3. \A d \in Forms : Answering(d, m) => Inside(d, m)
      BY DEF Answering, Inside
    <3>4. m \notin keyLocks => made[m] = 0
      <4>1. made[m] \in Nat
        BY CreditFacts DEF CreditTyped
      <4> QED BY <3>1, <3>3, <4>1 DEF KeyInv
    <3> QED BY <1>1, <3>1, <3>2, <3>4 DEF KeyInv
  <2> QED BY <2>3, <2>4
<1> QED BY <1>5, <1>6, <1>7, <1>9, <1>10 DEF CreditInv

LEMMA ClaimKeyKeeps ==
    ASSUME CreditInv, NEW c \in Forms, ClaimKey(c)
    PROVE  CreditInv'
<1>0. c \in Applicants /\ app[c].at = "claim"
  BY CreditFacts DEF ClaimKey
<1> PICK k \in Keys \cup {NoKey} : k = app[c].key
  BY <1>0, ApplicationFields
<1>1. /\ keyLocks' = keyLocks \cup {k}
      /\ IF k \in keyLocks THEN EndCall(c) ELSE CallTo(c, "lock")
      /\ highest' = highest /\ made' = made /\ spoilt' = spoilt /\ rowLock' = rowLock
      /\ answers' = answers /\ granted' = granted /\ starts' = starts /\ lapses' = lapses
  BY DEF ClaimKey
<1>2. portfolio' \in BOOLEAN
  BY CreditFacts, Zenon DEF ClaimKey
<1>3. k \in Keys
  BY <1>0, CreditFacts DEF RowInv
<1>4. CreditTyped'
  BY <1>1, <1>3, CreditFacts DEF CreditTyped
<1>5. CASE k \in keyLocks
  <2>1. AppTyped' /\ Apart(c) /\ app'[c] = NoApplication /\ keyLocks' = keyLocks
    BY <1>0, <1>1, <1>5, CallEnds
  <2>2. \A m \in Keys : ~Answering(c, m)
    BY <1>0 DEF Answering
  <2> QED BY <1>0, <1>1, <1>2, <1>4, <2>1, <2>2, NowhereAfter, AppSteps
<1>6. CASE k \notin keyLocks
  <2>1. /\ AppTyped' /\ Apart(c) /\ app'[c].at = "lock" /\ app'[c].key = k
        /\ app'[c].category = app[c].category
    BY <1>0, <1>1, <1>6, CallGoes DEF Stages
  <2>2. RowInv(c)'
    BY <1>0, <2>1, CreditFacts DEF RowInv
  <2>3. \A d \in Applicants : RowInv(d)'
    BY <1>0, <1>1, <2>1, <2>2, RowGoes
  <2>4. ASSUME NEW m \in Keys \ {k} PROVE KeyInv(m)'
    <3>1. /\ ~Claiming(c, m)' /\ ~Inside(c, m)' /\ ~Early(c, m)' /\ ~Answering(c, m)
      BY <2>1 DEF Claiming, Inside, Early, Answering
    <3> QED BY <1>0, <1>1, <2>1, <3>1, KeyGoes
  <2>5. KeyInv(k)'
    <3> SUFFICES ASSUME k \notin spoilt PROVE KeyInv(k)'
      BY <1>1 DEF KeyInv
    <3>1. KeyInv(k) /\ Claiming(c, k) /\ made[k] = 0
      BY <1>0, <1>3, <1>6, CreditFacts DEF KeyInv, Claiming
    <3>2. \A d \in Forms \ {c} : ~Inside(d, k)' /\ ~Early(d, k)'
      <4>1. \A d \in Forms : ~Inside(d, k)
        BY <1>6, <3>1 DEF KeyInv
      <4>2. \A d \in Forms : Early(d, k) => Inside(d, k)
        BY DEF Early, Inside
      <4> QED BY <2>1, <4>1, <4>2, ApartAt, CreditFacts
    <3> QED BY <1>1, <3>1, <3>2 DEF KeyInv
  <2> QED BY <1>2, <1>3, <1>4, <2>1, <2>3, <2>4, <2>5 DEF CreditInv
<1> QED BY <1>5, <1>6

LEMMA LockPortfolioKeeps ==
    ASSUME CreditInv, NEW c \in Forms, LockPortfolio(c)
    PROVE  CreditInv'
<1>0. c \in Applicants /\ app[c].at = "lock"
  BY CreditFacts DEF LockPortfolio
<1>1. /\ EndCall(c) \/ CallTo(c, "eligible")
      /\ highest' = highest /\ made' = made /\ spoilt' = spoilt /\ rowLock' = rowLock
      /\ keyLocks' = keyLocks /\ answers' = answers /\ granted' = granted
      /\ starts' = starts /\ lapses' = lapses
  BY DEF LockPortfolio
<1>2. portfolio' \in BOOLEAN
  BY Zenon DEF LockPortfolio
<1>3. CreditTyped'
  BY <1>1, CreditFacts DEF CreditTyped
<1>4. CASE EndCall(c)
  <2>1. AppTyped' /\ Apart(c) /\ app'[c] = NoApplication
    BY <1>0, <1>4, CallEnds
  <2>2. \A m \in Keys : ~Answering(c, m)
    BY <1>0 DEF Answering
  <2> QED BY <1>0, <1>1, <1>2, <1>3, <2>1, <2>2, NowhereAfter, AppSteps
<1>5. CASE CallTo(c, "eligible")
  <2>1. /\ AppTyped' /\ Apart(c) /\ app'[c].at = "eligible" /\ app'[c].key = app[c].key
        /\ app'[c].category = app[c].category
    BY <1>0, <1>5, CallGoes DEF Stages
  <2>2. RowInv(c)'
    BY <1>0, <2>1, CreditFacts DEF RowInv
  <2> QED BY <1>0, <1>1, <1>2, <1>3, <2>1, <2>2, StageSteps, AppSteps
<1> QED BY <1>1, <1>4, <1>5

LEMMA TakeAssessmentKeeps ==
    ASSUME CreditInv, NEW c \in Assessors, NEW wish \in Wishes, TakeAssessment(c, wish)
    PROVE  CreditInv'
<1> DEFINE v == [NoApplication EXCEPT !.at = "eligible", !.category = wish.category,
                    !.amount = wish.amount, !.capped = wish.first]
<1>0. c \in Applicants /\ app[c].at = "idle"
  BY CreditFacts DEF TakeAssessment
<1>1. /\ app' = [app EXCEPT ![c] = v]
      /\ highest' = highest /\ made' = made /\ spoilt' = spoilt /\ rowLock' = rowLock
      /\ keyLocks' = keyLocks /\ answers' = answers /\ granted' = granted
      /\ starts' = starts + 1 /\ lapses' = lapses
  BY DEF TakeAssessment
<1>2. wish.category \in DOMAIN MULTIPLIER /\ wish.amount \in Nat /\ wish.first \in BOOLEAN
  BY CreditAssumption
<1>3. /\ v \in Application /\ v.at = "eligible" /\ v.key = NoKey
      /\ v.category \in DOMAIN MULTIPLIER
  BY <1>2 DEF NoApplication, Application, Stages, Outcomes
<1> HIDE DEF v
<1>4. AppTyped' /\ Apart(c) /\ app'[c] = v
  BY <1>0, <1>1, <1>3, AppPut
<1>5. CreditTyped'
  BY <1>1, CreditFacts DEF CreditTyped
<1>6. portfolio' \in BOOLEAN
  BY CreditFacts, Zenon DEF TakeAssessment
<1>7. RowInv(c)'
  BY <1>3, <1>4, CreditFacts DEF RowInv
<1>8. \A k \in Keys :
    /\ ~Claiming(c, k)' /\ ~Inside(c, k)' /\ ~Early(c, k)'
    /\ ~Answering(c, k)
  BY <1>0, <1>3, <1>4, CreditFacts DEF Claiming, Inside, Early, Answering
<1> QED BY <1>0, <1>1, <1>4, <1>5, <1>6, <1>7, <1>8, AppSteps

\* To the insert with a rejection, or a stage further with the same order.
LEMMA StageKeeps ==
    ASSUME CreditInv, NEW c \in Forms \cup Assessors,
           app[c].at \in {"eligible", "fraud", "decide", "portfolio"},
           \/ TurnAway(c)
           \/ app[c].at = "eligible" /\ CallTo(c, "fraud")
           \/ app[c].at = "fraud" /\ CallTo(c, "decide"),
           CreditTyped', portfolio' \in BOOLEAN, highest' = highest,
           rowLock' = rowLock \/ rowLock = NoHolder,
           made' = made, keyLocks' = keyLocks, answers' = answers, spoilt' = spoilt
    PROVE  CreditInv'
<1>0. c \in Applicants /\ \A d \in Applicants : d = rowLock => rowLock # NoHolder
  BY CreditFacts, CreditAssumption
<1>1. CASE TurnAway(c)
  <2>1. /\ AppTyped' /\ Apart(c) /\ app'[c].at = "insert" /\ app'[c].key = app[c].key
        /\ app'[c].outcome = "rejected"
    BY <1>0, <1>1, TurnedAway
  <2>2. RowInv(c)'
    BY <1>0, <2>1, CreditFacts DEF RowInv, Approved
  <2> QED BY <1>0, <2>1, <2>2, StageSteps, AppSteps
<1>2. ASSUME NEW q \in {"fraud", "decide"}, CallTo(c, q),
             app[c].at = "eligible" \/ app[c].at = "fraud"
      PROVE  CreditInv'
  <2>1. /\ AppTyped' /\ Apart(c) /\ app'[c].at = q /\ app'[c].key = app[c].key
        /\ app'[c].category = app[c].category
    BY <1>0, <1>2, CallGoes DEF Stages
  <2>2. RowInv(c)'
    BY <1>0, <1>2, <2>1, CreditFacts DEF RowInv
  <2> QED BY <1>0, <2>1, <2>2, StageSteps, AppSteps
<1> QED BY <1>1, <1>2

LEMMA ChecksKeep ==
    ASSUME CreditInv, NEW c \in Forms \cup Assessors,
           CheckEligibility(c) \/ CheckFraud(c)
    PROVE  CreditInv'
<1>1. /\ highest' = highest /\ made' = made /\ spoilt' = spoilt /\ rowLock' = rowLock
      /\ keyLocks' = keyLocks /\ answers' = answers /\ granted' = granted
      /\ starts' = starts /\ lapses' = lapses
  BY DEF CheckEligibility, CheckFraud
<1>2. portfolio' \in BOOLEAN
  BY CreditFacts, Zenon DEF CheckEligibility, CheckFraud
<1>3. CreditTyped'
  BY <1>1, CreditFacts DEF CreditTyped
<1>4. /\ app[c].at \in {"eligible", "fraud"}
      /\ \/ TurnAway(c)
         \/ app[c].at = "eligible" /\ CallTo(c, "fraud")
         \/ app[c].at = "fraud" /\ CallTo(c, "decide")
  BY DEF CheckEligibility, CheckFraud
<1> QED BY <1>1, <1>2, <1>3, <1>4, StageKeeps

LEMMA ScoreKeeps ==
    ASSUME CreditInv, NEW c \in Forms \cup Assessors, NEW user, ScoreApplicant(c, user)
    PROVE  CreditInv'
<1>0. c \in Applicants /\ app[c].at = "decide"
  BY CreditFacts DEF ScoreApplicant
<1> DEFINE capped == app[c].capped \/ DataSparse(user)
           score == Score(user)
           verdict == Outcome(score, capped, app[c].category, app[c].amount)
           limit == IF score < DECLINE_BELOW THEN 0
                    ELSE FinalLimit(Band(score), app[c].category, capped)
           p == IF score < DECLINE_BELOW THEN "insert" ELSE "portfolio"
           v == [app[c] EXCEPT !.at = p, !.score = score, !.capped = capped,
                               !.outcome = verdict, !.limit = limit]
<1>1. /\ app' = [app EXCEPT ![c] = v]
      /\ highest' = highest /\ made' = made /\ spoilt' = spoilt /\ rowLock' = rowLock
      /\ keyLocks' = keyLocks /\ answers' = answers /\ granted' = granted
      /\ starts' = starts /\ lapses' = lapses
  BY <1>0 DEF ScoreApplicant
<1>2. portfolio' \in BOOLEAN
  BY CreditFacts, Zenon DEF ScoreApplicant
<1>3. score \in Nat /\ DECLINE_BELOW \in Nat
  BY ScoreCounts, PolicyAssumption
<1>4. capped \in BOOLEAN
  BY Zenon
<1>5. app[c].category \in DOMAIN MULTIPLIER
  BY <1>0, CreditFacts DEF RowInv
<1> HIDE DEF score, capped
<1>6. limit \in Nat
  BY <1>3, <1>4, <1>5, LimitCounts
<1>7. verdict \in Outcomes /\ (score < DECLINE_BELOW => verdict = "rejected")
  <2>1. ASSUME NEW l, NEW d, NEW n PROVE Offer(l, d, n) \in Outcomes
    BY DEF Offer, Outcomes
  <2>2. "rejected" \in Outcomes
    BY DEF Outcomes
  <2> QED BY <2>1, <2>2, Zenon DEF Outcome
<1>8. p \in {"insert", "portfolio"} /\ (p = "insert" => verdict = "rejected")
  BY <1>7
<1> HIDE DEF limit, verdict, p
<1>9. /\ v \in Application /\ v.at = p /\ v.key = app[c].key
      /\ v.outcome = verdict
  BY <1>0, <1>3, <1>4, <1>6, <1>7, <1>8, ApplicationFields DEF Application, Stages
<1> HIDE DEF v
<1>10. AppTyped' /\ Apart(c) /\ app'[c] = v
  BY <1>0, <1>1, <1>9, AppPut
<1>11. CreditTyped'
  BY <1>1, CreditFacts DEF CreditTyped
<1>12. RowInv(c)'
  BY <1>0, <1>8, <1>9, <1>10, CreditFacts DEF RowInv, Approved
<1>13. app'[c].at = p /\ app'[c].key = app[c].key
  BY <1>9, <1>10
<1> QED BY <1>0, <1>1, <1>2, <1>8, <1>10, <1>11, <1>12, <1>13, StageSteps, AppSteps

LEMMA CheckPortfolioKeeps ==
    ASSUME CreditInv, NEW c \in Forms \cup Assessors, CheckPortfolio(c)
    PROVE  CreditInv'
<1>0. c \in Applicants /\ app[c].at = "portfolio"
  BY CreditFacts DEF CheckPortfolio
<1>1. /\ highest' = highest /\ made' = made /\ spoilt' = spoilt
      /\ rowLock = NoHolder /\ rowLock' = c
      /\ keyLocks' = keyLocks /\ answers' = answers /\ granted' = granted
      /\ starts' = starts /\ lapses' = lapses
      /\ IF highest + app[c].amount > MAXIMUM_LIMIT THEN TurnAway(c)
         ELSE CallTo(c, "insert")
  BY DEF CheckPortfolio, RowAvailable
<1>2. portfolio' \in BOOLEAN
  BY CreditFacts, Zenon DEF CheckPortfolio
<1>3. CreditTyped'
  BY <1>1, CreditFacts DEF CreditTyped
<1>4. CASE TurnAway(c)
  BY <1>0, <1>1, <1>2, <1>3, <1>4, StageKeeps
<1>5. CASE CallTo(c, "insert") /\ ~(highest + app[c].amount > MAXIMUM_LIMIT)
  <2>1. /\ AppTyped' /\ Apart(c) /\ app'[c].at = "insert" /\ app'[c].key = app[c].key
        /\ app'[c].amount = app[c].amount
    BY <1>0, <1>5, CallGoes DEF Stages
  <2>2. highest' + app'[c].amount <= MAXIMUM_LIMIT
    <3>1. highest \in Nat /\ app[c].amount \in Nat /\ MAXIMUM_LIMIT \in Nat
      BY <1>0, CreditFacts, ApplicationFields, PolicyAssumption DEF CreditTyped
    <3> QED BY <1>1, <1>5, <2>1, <3>1
  <2>3. RowInv(c)'
    BY <1>0, <1>1, <2>1, <2>2, CreditFacts DEF RowInv
  <2>4. \A d \in Applicants : rowLock # d
    BY <1>1, CreditAssumption
  <2> QED BY <1>0, <1>1, <1>2, <1>3, <2>1, <2>3, <2>4, StageSteps, AppSteps
<1> QED BY <1>1, <1>4, <1>5

LEMMA InsertApplicationKeeps ==
    ASSUME CreditInv, NEW c \in Forms \cup Assessors, InsertApplication(c)
    PROVE  CreditInv'
<1> DEFINE p == IF c \in Forms THEN "unlock" ELSE "push"
           v == [NoApplication EXCEPT !.at = p, !.key = app[c].key,
                    !.outcome = IF Approved(c) THEN app[c].outcome ELSE "rejected",
                    !.limit = IF Approved(c) THEN app[c].limit ELSE 0]
<1>0. c \in Applicants /\ app[c].at = "insert"
  BY CreditFacts DEF InsertApplication
<1> PICK k \in Keys \cup {NoKey} : k = app[c].key
  BY <1>0, ApplicationFields
<1>1. /\ app' = [app EXCEPT ![c] = v]
      /\ highest' = IF Approved(c) THEN Most(highest, app[c].limit) ELSE highest
      /\ made' = IF k = NoKey THEN made ELSE [made EXCEPT ![k] = made[k] + 1]
      /\ rowLock' = IF rowLock = c THEN NoHolder ELSE rowLock
      /\ spoilt' = spoilt /\ keyLocks' = keyLocks /\ answers' = answers
      /\ granted' = granted /\ starts' = starts /\ lapses' = lapses
  BY <1>0 DEF InsertApplication
<1>2. portfolio' \in BOOLEAN
  BY CreditFacts, Zenon DEF InsertApplication
<1>3. /\ v \in Application /\ v.at = p /\ v.key = k
  <2>1. p \in Stages
    BY DEF Stages
  <2>2. (IF Approved(c) THEN app[c].outcome ELSE "rejected") \in Outcomes
    BY <1>0, ApplicationFields DEF Outcomes
  <2>3. (IF Approved(c) THEN app[c].limit ELSE 0) \in Nat
    BY <1>0, ApplicationFields
  <2> HIDE DEF p
  <2> QED BY <2>1, <2>2, <2>3 DEF NoApplication, Application, Outcomes
<1> HIDE DEF v
<1>4. AppTyped' /\ Apart(c) /\ app'[c] = v /\ app'[c].at = p /\ app'[c].key = k
  BY <1>0, <1>1, <1>3, AppPut
<1>5. CreditTyped'
  <2>1. highest' \in Nat
    BY <1>0, <1>1, CreditFacts, ApplicationFields DEF CreditTyped, Most
  <2>2. made' \in [Keys -> Nat]
    BY <1>1, CreditFacts DEF CreditTyped
  <2> QED BY <1>1, <2>1, <2>2, CreditFacts DEF CreditTyped
<1>6. RowInv(c)'
  BY <1>0, <1>4, CreditFacts DEF RowInv
<1>7. \A d \in Applicants : RowInv(d)'
  <2>1. Approved(c) => rowLock = c
    BY <1>0, CreditFacts DEF RowInv
  <2>2. \A d \in Applicants \ {c} : rowLock = d => rowLock' = d /\ highest' = highest
    BY <1>1, <2>1
  <2> QED BY <1>0, <1>4, <1>6, <2>2, RowGoes
<1>8. ASSUME NEW m \in Keys \ {k} PROVE KeyInv(m)'
  <2>1. /\ ~Claiming(c, m)' /\ ~Inside(c, m)' /\ ~Early(c, m)' /\ ~Answering(c, m)
    BY <1>4 DEF Claiming, Inside, Early, Answering
  <2>2. made'[m] = made[m]
    BY <1>1, CreditFacts DEF CreditTyped
  <2> QED BY <1>0, <1>1, <1>4, <2>1, <2>2, KeyGoes
<1>9. ASSUME k \in Keys, k \notin spoilt PROVE KeyInv(k)'
  <2>1. KeyInv(k) /\ Inside(c, k) /\ Early(c, k) /\ c \in Forms
    BY <1>0, <1>9, CreditFacts DEF Inside, Early, RowInv
  <2>2. made[k] = 0 /\ k \in keyLocks /\ \A d \in Forms \ {c} : ~Inside(d, k)
    BY <1>9, <2>1 DEF KeyInv
  <2>3. made'[k] = 1
    BY <1>1, <1>9, <2>2, CreditFacts DEF CreditTyped
  <2>4. Answering(c, k)' /\ ~Early(c, k)'
    BY <1>4, <2>1 DEF Answering, Early
  <2>5. \A d \in Forms \ {c} : ~Inside(d, k)' /\ ~Early(d, k)'
    <3>1. \A d \in Forms : Early(d, k) => Inside(d, k)
      BY DEF Early, Inside
    <3> QED BY <1>4, <2>2, <3>1, ApartAt, CreditFacts
  <2> QED BY <1>1, <2>1, <2>2, <2>3, <2>4, <2>5 DEF KeyInv
<1>10. k \in Keys => KeyInv(k)'
  BY <1>1, <1>9 DEF KeyInv
<1> QED BY <1>2, <1>4, <1>5, <1>7, <1>8, <1>10 DEF CreditInv

LEMMA UnlockKeeps ==
    ASSUME CreditInv, NEW c \in Forms, UnlockPortfolio(c)
    PROVE  CreditInv'
<1>0. c \in Applicants /\ app[c].at = "unlock" /\ CallTo(c, "answer")
  BY CreditFacts DEF UnlockPortfolio
<1>1. /\ highest' = highest /\ made' = made /\ spoilt' = spoilt /\ rowLock' = rowLock
      /\ keyLocks' = keyLocks /\ answers' = answers /\ granted' = granted
      /\ starts' = starts /\ lapses' = lapses
  BY DEF UnlockPortfolio
<1>2. portfolio' \in BOOLEAN
  BY Zenon DEF UnlockPortfolio
<1>3. CreditTyped'
  BY <1>1, CreditFacts DEF CreditTyped
<1>4. AppTyped' /\ Apart(c) /\ app'[c].at = "answer" /\ app'[c].key = app[c].key
  BY <1>0, CallGoes DEF Stages
<1>5. RowInv(c)'
  BY <1>0, <1>4, CreditFacts DEF RowInv
<1> QED BY <1>0, <1>1, <1>2, <1>3, <1>4, <1>5, StageSteps, AppSteps

LEMMA CacheAnswerKeeps ==
    ASSUME CreditInv, NEW c \in Forms, CacheAnswer(c)
    PROVE  CreditInv'
<1>0. c \in Applicants /\ app[c].at = "answer" /\ CallTo(c, "push")
  BY CreditFacts DEF CacheAnswer
<1>1. /\ highest' = highest /\ made' = made /\ spoilt' = spoilt /\ rowLock' = rowLock
      /\ keyLocks' = keyLocks /\ granted' = granted
      /\ answers' = answers \cup ({app[c].key} \ {NoKey})
      /\ starts' = starts /\ lapses' = lapses
  BY DEF CacheAnswer
<1>2. portfolio' \in BOOLEAN
  BY CreditFacts, Zenon DEF CacheAnswer
<1>3. CreditTyped'
  BY <1>0, <1>1, CreditFacts, ApplicationFields DEF CreditTyped
<1>4. AppTyped' /\ Apart(c) /\ app'[c].at = "push" /\ app'[c].key = app[c].key
  BY <1>0, CallGoes DEF Stages
<1>5. RowInv(c)'
  BY <1>0, <1>4, CreditFacts DEF RowInv
<1>6. \A k \in Keys :
    /\ Claiming(c, k)' => Claiming(c, k)
    /\ Inside(c, k)' => Inside(c, k)
    /\ Early(c, k)' => Early(c, k)
    /\ Answering(c, k) => Answering(c, k)' \/ k \in answers' \/ k \in spoilt'
  BY <1>0, <1>1, <1>4, CreditFacts DEF Claiming, Inside, Early, Answering
<1>7. /\ answers \subseteq answers' /\ spoilt \subseteq spoilt'
      /\ \A d \in Applicants \ {c} : rowLock = d => rowLock' = d /\ highest' = highest
  BY <1>1
<1>8. ASSUME NEW k \in Keys PROVE KeyInv(k)'
  BY <1>0, <1>1, <1>4, <1>6, <1>7, KeyGoes
<1>9. \A d \in Applicants : RowInv(d)'
  BY <1>0, <1>4, <1>5, <1>7, RowGoes
<1> QED BY <1>2, <1>3, <1>4, <1>8, <1>9 DEF CreditInv

LEMMA PushKeeps ==
    ASSUME CreditInv, NEW c \in Applicants, Push(c)
    PROVE  CreditInv'
<1>1. /\ highest' = highest /\ made' = made /\ spoilt' = spoilt /\ rowLock' = rowLock
      /\ keyLocks' = keyLocks /\ answers' = answers /\ app[c].at = "push"
      /\ starts' = starts /\ lapses' = lapses
      /\ \/ granted' = app[c].limit /\ app' = app
         \/ granted' = granted /\ EndCall(c)
  BY DEF Push
<1>2. portfolio' \in BOOLEAN
  BY CreditFacts, Zenon DEF Push
<1>3. CreditTyped'
  BY <1>1, CreditFacts, ApplicationFields DEF CreditTyped
<1>4. CASE EndCall(c)
  <2>1. AppTyped' /\ Apart(c) /\ app'[c] = NoApplication
    BY <1>4, CallEnds
  <2>2. \A m \in Keys : ~Answering(c, m)
    BY <1>1 DEF Answering
  <2> QED BY <1>1, <1>2, <1>3, <2>1, <2>2, NowhereAfter, AppSteps
<1>5. CASE app' = app
  <2>1. AppTyped' /\ Apart(c)
    BY <1>5 DEF AppTyped, Apart, CreditInv
  <2>2. RowInv(c)'
    BY <1>1, <1>5, CreditFacts DEF RowInv
  <2>3. \A k \in Keys :
      /\ Claiming(c, k)' => Claiming(c, k)
      /\ Inside(c, k)' => Inside(c, k)
      /\ Early(c, k)' => Early(c, k)
      /\ Answering(c, k) => Answering(c, k)' \/ k \in answers' \/ k \in spoilt'
    BY <1>5 DEF Claiming, Inside, Early, Answering
  <2>4. ASSUME NEW k \in Keys PROVE KeyInv(k)'
    BY <1>1, <2>1, <2>3, KeyGoes
  <2>5. \A d \in Applicants : RowInv(d)'
    BY <1>1, <2>1, <2>2, RowGoes
  <2> QED BY <1>2, <1>3, <2>1, <2>4, <2>5 DEF CreditInv
<1> QED BY <1>1, <1>4, <1>5

LEMMA OverrideKeeps ==
    ASSUME CreditInv, NEW c \in Admins, NEW limit \in Overrides, Override(c, limit)
    PROVE  CreditInv'
<1> DEFINE v == [NoApplication EXCEPT !.at = "push", !.outcome = "approved",
                                      !.limit = limit]
           w(d) == IF d = c THEN v
                   ELSE IF app[d].at = "insert" THEN [app[d] EXCEPT !.overtaken = TRUE]
                   ELSE app[d]
<1>0. c \in Applicants /\ app[c].at = "idle" /\ limit \in Nat
  BY CreditFacts, CreditAssumption DEF Override
<1>1. /\ app' = [d \in Applicants |-> w(d)] /\ highest' = Most(highest, limit)
      /\ made' = made /\ spoilt' = spoilt /\ rowLock' = rowLock
      /\ keyLocks' = keyLocks /\ answers' = answers /\ granted' = granted
      /\ starts' = starts + 1 /\ lapses' = lapses
  BY DEF Override
<1>2. portfolio' \in BOOLEAN
  BY CreditFacts, Zenon DEF Override
<1>3. CreditTyped'
  BY <1>0, <1>1, CreditFacts DEF CreditTyped, Most
<1>4. /\ v \in Application /\ v.at = "push" /\ v.key = NoKey
  BY <1>0 DEF NoApplication, Application, Stages, Outcomes
<1> HIDE DEF v
<1>5. ASSUME NEW d \in Applicants \ {c}
      PROVE  /\ w(d) \in Application /\ w(d).at = app[d].at /\ w(d).key = app[d].key
             /\ w(d).category = app[d].category /\ w(d).outcome = app[d].outcome
             /\ app[d].at = "insert" => w(d).overtaken = TRUE
  BY <1>5, ApplicationFields DEF Application
<1>6. w(c) = v
  OBVIOUS
<1> HIDE DEF w
<1>7. AppTyped'
  BY <1>1, <1>4, <1>5, <1>6 DEF AppTyped
<1>8. \A d \in Applicants : app'[d] = w(d)
  BY <1>1
<1>9. ASSUME NEW d \in Applicants PROVE RowInv(d)'
  <2>1. CASE d = c
    BY <1>4, <1>6, <1>8, <2>1, CreditFacts DEF RowInv
  <2>2. CASE d # c
    <3>1. /\ app'[d].at = app[d].at /\ app'[d].key = app[d].key
          /\ app'[d].category = app[d].category /\ app'[d].outcome = app[d].outcome
          /\ app[d].at = "insert" => app'[d].overtaken = TRUE
      BY <1>5, <1>8, <2>2
    <3>2. Approved(d)' <=> Approved(d)
      BY <3>1 DEF Approved
    <3> QED BY <1>1, <3>1, <3>2, CreditFacts DEF RowInv
  <2> QED BY <2>1, <2>2
<1>10. ASSUME NEW k \in Keys PROVE KeyInv(k)'
  <2>1. \A d \in Forms :
           /\ Claiming(d, k)' <=> Claiming(d, k)
           /\ Inside(d, k)' <=> Inside(d, k)
           /\ Early(d, k)' <=> Early(d, k)
           /\ Answering(d, k)' <=> Answering(d, k)
    <3>1. \A d \in Forms : app'[d].at = app[d].at /\ app'[d].key = app[d].key
      BY <1>5, <1>8, CreditFacts
    <3> QED BY <3>1 DEF Claiming, Inside, Early, Answering
  <2> QED BY <1>1, <2>1, CreditFacts DEF KeyInv
<1> QED BY <1>2, <1>3, <1>7, <1>9, <1>10 DEF CreditInv

LEMMA CallFailsKeeps ==
    ASSUME CreditInv, NEW c \in Forms \cup Assessors, CallFails(c)
    PROVE  CreditInv'
<1>0. c \in Applicants /\ EndCall(c)
  BY CreditFacts DEF CallFails
<1>1. /\ highest' = highest /\ made' = made /\ keyLocks' = keyLocks
      /\ answers' = answers /\ granted' = granted /\ starts' = starts
      /\ lapses' = lapses + 1
      /\ rowLock' = IF rowLock = c THEN NoHolder ELSE rowLock
      /\ spoilt' = IF app[c].at \in {"unlock", "answer"}
                   THEN spoilt \cup ({app[c].key} \ {NoKey}) ELSE spoilt
  BY DEF CallFails, Lapse
<1>2. portfolio' \in BOOLEAN
  <2>1. portfolio' = portfolio \/ portfolio' = FALSE
    BY Zenon DEF CallFails
  <2> QED BY <2>1, CreditFacts, Zenon
<1>3. CreditTyped'
  BY <1>0, <1>1, CreditFacts, ApplicationFields DEF CreditTyped
<1>4. AppTyped' /\ Apart(c) /\ app'[c] = NoApplication
  BY <1>0, CallEnds
<1>5. \A k \in Keys : Answering(c, k) => k \in spoilt'
  BY <1>1, CreditFacts DEF Answering
<1>6. /\ \A d \in Applicants \ {c} : rowLock = d => rowLock' = d /\ highest' = highest
      /\ spoilt \subseteq spoilt'
  BY <1>1
<1> QED BY <1>0, <1>1, <1>2, <1>3, <1>4, <1>5, <1>6, NowhereAfter, AppSteps

\* The applications stay where they are.
LEMMA AppRests ==
    ASSUME CreditInv, app' = app, highest' = highest, rowLock' = rowLock
    PROVE  /\ AppTyped' /\ \A c \in Applicants : RowInv(c)'
           /\ \A c, k : /\ Claiming(c, k)' <=> Claiming(c, k)
                        /\ Inside(c, k)' <=> Inside(c, k)
                        /\ Early(c, k)' <=> Early(c, k)
                        /\ Answering(c, k)' <=> Answering(c, k)
<1>1. \A c \in Applicants : RowInv(c)'
  BY CreditFacts DEF RowInv, Approved
<1> QED BY <1>1 DEF CreditInv, AppTyped, Claiming, Inside, Early, Answering

LEMMA PortfolioLapses ==
    ASSUME CreditInv, PortfolioExpires \/ UNCHANGED creditVars
    PROVE  CreditInv'
<1>1. /\ highest' = highest /\ made' = made /\ spoilt' = spoilt /\ rowLock' = rowLock
      /\ keyLocks' = keyLocks /\ answers' = answers /\ app' = app
      /\ granted' = granted /\ starts' = starts /\ lapses' \in {lapses, lapses + 1}
  <2>1. CASE PortfolioExpires
    BY <2>1 DEF PortfolioExpires, Lapse
  <2>2. CASE UNCHANGED creditVars
    BY <2>2, Zenon DEF creditVars
  <2> QED BY <2>1, <2>2
<1>2. portfolio' \in BOOLEAN
  BY CreditFacts, Zenon DEF PortfolioExpires, creditVars
<1>3. CreditTyped'
  BY <1>1, CreditFacts DEF CreditTyped
<1>4. ASSUME NEW k \in Keys PROVE KeyInv(k)'
  BY <1>1, AppRests, CreditFacts DEF KeyInv
<1> QED BY <1>1, <1>2, <1>3, <1>4, AppRests DEF CreditInv

LEMMA KeyExpiresKeeps ==
    ASSUME CreditInv, NEW k \in Keys, KeyExpires(k)
    PROVE  CreditInv'
<1>1. /\ highest' = highest /\ made' = made /\ rowLock' = rowLock
      /\ keyLocks' = keyLocks \ {k} /\ answers' = answers /\ app' = app
      /\ granted' = granted /\ starts' = starts /\ lapses' = lapses + 1
      /\ spoilt' = IF \E c \in Forms : app[c].key = k THEN spoilt \cup {k} ELSE spoilt
  BY DEF KeyExpires, Lapse
<1>2. portfolio' \in BOOLEAN
  BY CreditFacts, Zenon DEF KeyExpires
<1>3. CreditTyped'
  BY <1>1, CreditFacts DEF CreditTyped
<1>4. ASSUME NEW m \in Keys, m \notin spoilt' PROVE KeyInv(m)'
  <2>1. KeyInv(m) /\ m \notin spoilt
    BY <1>1, <1>4, CreditFacts
  <2>2. CASE m # k
    BY <1>1, <2>1, <2>2, AppRests DEF KeyInv
  <2>3. CASE m = k
    <3>1. \A c \in Forms : ~Claiming(c, m)' /\ ~Inside(c, m)' /\ ~Early(c, m)'
      BY <1>1, <1>4, <2>3 DEF Claiming, Inside, Early
    <3> QED BY <1>1, <2>1, <3>1, AppRests DEF KeyInv
  <2> QED BY <2>2, <2>3
<1>5. \A m \in Keys : KeyInv(m)'
  BY <1>4 DEF KeyInv
<1> QED BY <1>1, <1>2, <1>3, <1>5, AppRests DEF CreditInv

\* Of a key whose answer lapses nothing is claimed any more.
LEMMA AnswerLapsesKeeps ==
    ASSUME CreditInv, NEW k \in Keys, AnswerLapses(k)
    PROVE  CreditInv'
<1>1. /\ highest' = highest /\ made' = made /\ rowLock' = rowLock
      /\ keyLocks' = keyLocks /\ answers' = answers \ {k} /\ app' = app
      /\ granted' = granted /\ starts' = starts /\ lapses' = lapses
      /\ spoilt' = spoilt \cup {k}
  BY DEF AnswerLapses
<1>2. portfolio' \in BOOLEAN
  BY CreditFacts, Zenon DEF AnswerLapses
<1>3. CreditTyped'
  BY <1>1, CreditFacts DEF CreditTyped
<1>4. ASSUME NEW m \in Keys, m \notin spoilt' PROVE KeyInv(m)'
  <2>1. KeyInv(m) /\ m \notin spoilt /\ m # k
    BY <1>1, <1>4, CreditFacts
  <2> QED BY <1>1, <2>1, AppRests DEF KeyInv
<1>5. \A m \in Keys : KeyInv(m)'
  BY <1>4 DEF KeyInv
<1> QED BY <1>1, <1>2, <1>3, <1>5, AppRests DEF CreditInv

LEMMA CreditInvKept == CreditInv /\ [CreditNext]_creditVars => CreditInv'
<1>1. ASSUME CreditInv, CreditNext PROVE CreditInv'
  <2>1. ASSUME NEW c \in Forms,
               \/ ClaimKey(c) \/ LockPortfolio(c) \/ UnlockPortfolio(c) \/ CacheAnswer(c)
               \/ \E k \in Keys \cup {NoKey}, wish \in Wishes : Apply(c, k, wish)
        PROVE  CreditInv'
    BY <1>1, <2>1, ClaimKeyKeeps, LockPortfolioKeeps, UnlockKeeps, CacheAnswerKeeps,
       ApplyKeeps
  <2>2. ASSUME NEW c \in Assessors, NEW wish \in Wishes, TakeAssessment(c, wish)
        PROVE  CreditInv'
    BY <1>1, <2>2, TakeAssessmentKeeps
  <2>3. ASSUME NEW c \in Forms \cup Assessors,
               \/ CheckEligibility(c) \/ CheckFraud(c) \/ CheckPortfolio(c)
               \/ InsertApplication(c) \/ CallFails(c)
               \/ \E user \in Users : ScoreApplicant(c, user)
        PROVE  CreditInv'
    BY <1>1, <2>3, ChecksKeep, CheckPortfolioKeeps, InsertApplicationKeeps,
       CallFailsKeeps, ScoreKeeps
  <2>4. ASSUME NEW c \in Admins, NEW limit \in Overrides, Override(c, limit)
        PROVE  CreditInv'
    BY <1>1, <2>4, OverrideKeeps
  <2>5. ASSUME NEW c \in Applicants, Push(c) PROVE CreditInv'
    BY <1>1, <2>5, PushKeeps
  <2>6. ASSUME NEW k \in Keys, KeyExpires(k) \/ AnswerLapses(k) PROVE CreditInv'
    BY <1>1, <2>6, KeyExpiresKeeps, AnswerLapsesKeeps
  <2> QED BY <1>1, <2>1, <2>2, <2>3, <2>4, <2>5, <2>6, PortfolioLapses DEF CreditNext
<1> QED BY <1>1, PortfolioLapses

LEMMA CreditInvStarts == CreditInit => CreditInv
<1> SUFFICES ASSUME CreditInit PROVE CreditInv
  OBVIOUS
<1>1. /\ highest = 0 /\ granted = 0 /\ made = [k \in Keys |-> 0] /\ spoilt = {}
      /\ rowLock = NoHolder /\ keyLocks = {} /\ answers = {}
      /\ app = [c \in Applicants |-> NoApplication] /\ starts = 0 /\ lapses = 0
  BY Zenon DEF CreditInit
<1>2. portfolio \in BOOLEAN
  BY Zenon DEF CreditInit
<1>3. CreditTyped /\ AppTyped
  BY <1>1, NoApplicationTyped DEF CreditTyped, AppTyped
<1>4. \A c \in Applicants : app[c].at = "idle" /\ app[c].key = NoKey
  BY <1>1, NoApplicationTyped
<1>5. \A c \in Applicants : RowInv(c)
  BY <1>4, NoApplicationTyped DEF RowInv
<1>6. \A k \in Keys : KeyInv(k)
  BY <1>1, <1>4, CreditAssumption
     DEF KeyInv, Claiming, Inside, Early, Answering, Applicants
<1> QED BY <1>2, <1>3, <1>5, <1>6 DEF CreditInv

\* One application at most is made for an Idempotency-Key, however its
\* requests interleave, unless its lock ran out under one of them, one died
\* between its commit and its cached answer, or that answer has lapsed
\* (routes.py:125-141, 184-185).
THEOREM KeyAppliedOnce == CreditSpec => [](CreditTypeOK /\ AppliedOnce)
<1>1. CreditInv => CreditTypeOK /\ AppliedOnce
  BY CreditTypes, CreditFacts DEF KeyInv, AppliedOnce
<1> QED BY <1>1, CreditInvStarts, CreditInvKept, PTL DEF CreditSpec

\* No step commits the approval of an order for which the highest limit that
\* is approved by then leaves no room, unless an administrator's override came
\* in between: what keeps them apart is the row and not the Redis lock
\* (limit.py:148-179).
THEOREM ApprovalHasRoom == CreditSpec => PortfolioKept
<1> DEFINE Room == \A c \in Forms \cup Assessors :
                      /\ app[c].at = "insert" /\ app'[c].at \in {"unlock", "push"}
                      /\ Approved(c) /\ ~app[c].overtaken
                      => highest + app[c].amount <= MAXIMUM_LIMIT
<1>1. CreditInv => Room
  BY CreditFacts DEF RowInv
<1>2. CreditInv /\ [CreditNext]_creditVars => [Room]_creditVars
  BY <1>1
<1> HIDE DEF Room
<1>3. CreditSpec => [][Room]_creditVars
  BY <1>2, CreditInvStarts, CreditInvKept, PTL DEF CreditSpec
<1> QED BY <1>3 DEF Room, PortfolioKept

----------------------------------------------------------------------------
(* Side by side                                                            *)

\* What moves alone moves as it would by itself.
LEMMA AloneOrBeside ==
    ASSUME [AllNext]_allVars
    PROVE  /\ [Next]_vars /\ [RefundNext]_refundVars /\ [CatalogueNext]_catalogueVars
           /\ [DeliveryNext]_deliveryVars /\ [CreditNext]_creditVars
           /\ [CardNext]_cardVars
BY Zenon DEF AllNext, OrderMoves, RefundMoves, CatalogueMoves, DeliveryMoves,
   CreditMoves, CardMoves, allVars, sideVars

\* A behaviour of the components side by side is one of each of them.
LEMMA SideBySide ==
    AllSpec => /\ Spec /\ RefundSpec /\ CatalogueSpec /\ DeliverySpec /\ CreditSpec
               /\ CardSpec
<1>1. AllInit => /\ Init /\ RefundInit /\ CatalogueInit /\ DeliveryInit /\ CreditInit
                 /\ CardInit
  BY Zenon DEF AllInit
<1>2. [AllNext]_allVars => /\ [Next]_vars /\ [RefundNext]_refundVars
                           /\ [CatalogueNext]_catalogueVars
                           /\ [DeliveryNext]_deliveryVars
                           /\ [CreditNext]_creditVars /\ [CardNext]_cardVars
  BY AloneOrBeside
<1> QED BY <1>1, <1>2, PTL DEF AllSpec, Spec, RefundSpec, CatalogueSpec, DeliverySpec,
           CreditSpec, CardSpec

\* Every variable keeps its type in every behaviour of the components.
THEOREM AllTyped == AllSpec => []AllTypeOK
<1>1. TypeOK /\ RefundTypeOK /\ CatalogueTypeOK /\ DeliveryTypeOK /\ CreditTypeOK
        /\ CardTypeOK => AllTypeOK
  BY Zenon DEF AllTypeOK
<1> QED BY <1>1, SideBySide, TypeCorrect, RefundedOnce, PayloadOnce, DeliveryExecutes,
           KeyAppliedOnce, ChargeBookedOnce, PTL
=============================================================================
