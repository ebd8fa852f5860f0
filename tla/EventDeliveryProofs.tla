------------------------ MODULE EventDeliveryProofs ------------------------
(***************************************************************************)
(* For any number of events, publishers, ledger replicas and failures: an  *)
(* event is posted at most once, and a row marked published is in the      *)
(* stream.  In the books kept beside it, each source has one entry, which  *)
(* stays, the postings of any days foot, and every balance is the sum of   *)
(* the entries it rests on.                                                *)
(***************************************************************************)
EXTENDS MCEvents, TLAPS, SequenceTheorems, SumTheorems

Streamed(e) == \E i \in DOMAIN stream : stream[i].ev = e

\* What a publisher has added in the transaction it has not committed yet is
\* in the stream, whatever becomes of the transaction.
AddedStreamed == \A w \in Publishers : \A e \in pub[w].added : Streamed(e)

RowInv == AddedStreamed /\ PublishedRowStreamed

\* Marking entries of a sequence keeps it a sequence.
LEMMA MarkedIsSeq ==
    ASSUME NEW C, NEW s \in Seq(C), NEW t, DOMAIN t = DOMAIN s,
           t = [i \in DOMAIN s |-> t[i]],
           \A i \in DOMAIN s : t[i] \in C
    PROVE  t \in Seq(C)
<1>1. DOMAIN s = 1..Len(s) /\ Len(s) \in Nat
  OBVIOUS
<1>2. t \in [1..Len(s) -> C]
  BY <1>1
<1> QED BY <1>1, <1>2

\* The delivery starts well typed.
LEMMA TypeInit == Init => TypeOK
BY DeliveryAssumption
   DEF Init, TypeOK, Idle, NoRun, Loop, Entry, Row, Run, Letters

\* Every step of the delivery keeps it so.
LEMMA TypeKept == TypeOK /\ [Next]_vars => TypeOK'
<1> SUFFICES ASSUME TypeOK, [Next]_vars PROVE TypeOK'
  OBVIOUS
<1>a. pub \in [Publishers -> Loop]
  BY DEF TypeOK
<1>b. stream \in Seq(Entry) /\ \A w \in Publishers : pub[w].ids \subseteq DOMAIN stream
  BY DEF TypeOK
<1>g. \A i \in DOMAIN stream : stream[i] \in Entry
  BY <1>b
<1>c. job \in [Listeners -> {NoJob} \cup Job]
  BY DEF TypeOK
<1>d. file \in Letters /\ dlq \in Run /\ archive \in SUBSET Events
  BY DEF TypeOK
<1>e. Fault => faults' \in Nat
  BY DEF TypeOK, Fault
<1>f. inbox \in [Listeners -> SUBSET Events]
  BY DEF TypeOK
<1> USE DEF ledger
<1>1. ASSUME NEW w \in Publishers, PublisherStep(w) PROVE TypeOK'
  <2>1. CASE OutboxSelect(w)
    <3>1. pub' \in [Publishers -> Loop]
      <4>1. PICK S \in SUBSET Events :
              pub' = [pub EXCEPT ![w].at = "outbox", ![w].todo = S]
        BY <2>1 DEF OutboxSelect
      <4>2. [pub[w] EXCEPT !.at = "outbox", !.todo = S] \in Loop
        BY <1>a DEF Loop
      <4> QED BY <1>a, <4>1, <4>2
    <3>2. \A v \in Publishers : pub'[v].ids = pub[v].ids
      BY <1>a, <2>1 DEF OutboxSelect, Loop
    <3> QED BY <2>1, <3>1, <3>2 DEF OutboxSelect, TypeOK
  <2>2. CASE OutboxCommit(w)
    <3>1. pub' \in [Publishers -> Loop]
      BY <1>a, <2>2 DEF OutboxCommit, Idle, Loop
    <3>2. \A v \in Publishers : pub'[v].ids \subseteq pub[v].ids
      BY <1>a, <2>2 DEF OutboxCommit, Idle, Loop
    <3>3. row \in [Events -> Row]
      BY DEF TypeOK
    <3>4. row' \in [Events -> Row]
      BY <2>2, <3>3 DEF OutboxCommit, Row
    <3> QED BY <2>2, <3>1, <3>2, <3>4 DEF OutboxCommit, TypeOK
  <2>3. CASE StreamTake(w)
    <3>1. PICK idle \in SUBSET Entries("held") :
            Take(w, idle \cup Entries("new"))
      BY <2>3 DEF StreamTake
    <3> DEFINE S == idle \cup Entries("new")
    <3>2. S \subseteq DOMAIN stream /\ S \in SUBSET Nat
      BY <1>b DEF Entries
    <3>3. pub' \in [Publishers -> Loop]
      <4>1. [pub[w] EXCEPT !.at = "deliver", !.ids = S] \in Loop
        BY <1>a, <3>2 DEF Loop
      <4> QED BY <1>a, <3>1, <4>1 DEF Take
    <3>4. \A v \in Publishers : pub'[v].ids \in {pub[v].ids, S}
      BY <1>a, <3>1 DEF Take, Loop
    <3>5. /\ stream' = [i \in DOMAIN stream |-> stream'[i]]
          /\ DOMAIN stream' = DOMAIN stream
          /\ \A i \in DOMAIN stream : stream'[i] \in Entry
      BY <1>g, <3>1 DEF Take, Entry
    <3>6. stream' \in Seq(Entry)
      BY <1>b, <3>5, MarkedIsSeq
    <3>7. \A v \in Publishers : pub'[v].ids \subseteq DOMAIN stream'
      BY <1>b, <3>2, <3>4, <3>5
    <3> QED BY <3>1, <3>3, <3>6, <3>7 DEF Take, TypeOK
  <2>4. ASSUME NEW i \in pub[w].ids, StreamPublish(w, i) PROVE TypeOK'
    <3>1. pub' \in [Publishers -> Loop]
      BY <1>a, <2>4 DEF StreamPublish, Loop
    <3>2. \A v \in Publishers : pub'[v].ids = pub[v].ids
      BY <1>a, <2>4 DEF StreamPublish, Loop
    <3>3. stream[i].ev \in Events
      BY <1>b, <1>g DEF Entry
    <3>4. inbox' \in [Listeners -> SUBSET Events]
      BY <1>f, <2>4, <3>3 DEF StreamPublish, Broadcast
    <3> QED BY <2>4, <3>1, <3>2, <3>4 DEF StreamPublish, TypeOK
  <2>5. ASSUME NEW i \in pub[w].ids, StreamAck(w, i) PROVE TypeOK'
    <3>1. pub' \in [Publishers -> Loop]
      BY <1>a, <2>5 DEF StreamAck, Loop
    <3>2. \A v \in Publishers : pub'[v].ids \subseteq pub[v].ids
      BY <1>a, <2>5 DEF StreamAck, Loop
    <3>a. stream' = [stream EXCEPT ![i].at = "acked"]
      BY <2>5 DEF StreamAck
    <3>b. stream = [k \in DOMAIN stream |-> stream[k]]
      BY <1>b
    <3>c. [stream[i] EXCEPT !.at = "acked"] \in Entry
      BY <1>b, <1>g DEF Entry
    <3>3. /\ stream' = [k \in DOMAIN stream |-> stream'[k]]
          /\ DOMAIN stream' = DOMAIN stream
          /\ \A k \in DOMAIN stream : stream'[k] \in Entry
      BY <1>g, <3>a, <3>b, <3>c
    <3>4. stream' \in Seq(Entry)
      BY <1>b, <3>3, MarkedIsSeq
    <3>5. \A v \in Publishers : pub'[v].ids \subseteq DOMAIN stream'
      BY <1>b, <3>2, <3>3
    <3> QED BY <2>5, <3>1, <3>4, <3>5 DEF StreamAck, TypeOK
  <2>6. CASE StreamDone(w)
    <3>1. pub' \in [Publishers -> Loop]
      BY <1>a, <2>6 DEF StreamDone, Idle, Loop
    <3>2. \A v \in Publishers : pub'[v].ids \subseteq pub[v].ids
      BY <1>a, <2>6 DEF StreamDone, Idle, Loop
    <3> QED BY <2>6, <3>1, <3>2 DEF StreamDone, TypeOK
  <2>7. ASSUME NEW e \in Events, XAdd(w, e) PROVE TypeOK'
    <3>1. pub' \in [Publishers -> Loop]
      <4>1. [pub[w] EXCEPT !.todo = @ \ {e}, !.added = @ \cup {e}] \in Loop
        BY <1>a DEF Loop
      <4> QED BY <1>a, <2>7, <4>1 DEF XAdd
    <3>2. \A v \in Publishers : pub'[v].ids = pub[v].ids
      BY <1>a, <2>7 DEF XAdd, Loop
    <3>3. stream' \in Seq(Entry) /\ DOMAIN stream \subseteq DOMAIN stream'
      BY <1>b, <2>7 DEF XAdd, Entry
    <3>4. \A v \in Publishers : pub'[v].ids \subseteq DOMAIN stream'
      BY <1>b, <3>2, <3>3
    <3> QED BY <2>7, <3>1, <3>3, <3>4 DEF XAdd, TypeOK
  <2> QED BY <1>1, <2>1, <2>2, <2>3, <2>4, <2>5, <2>6, <2>7 DEF PublisherStep
<1>2. ASSUME NEW l \in Listeners, ListenerStep(l) PROVE TypeOK'
  <2> USE DEF Work, Letter, Ready
  <2>1. CASE ListenCheck(l)
    <3>1. job' \in [Listeners -> {NoJob} \cup Job]
      BY <1>c, <2>1 DEF ListenCheck, NoJob, Job
    <3> QED BY <2>1, <3>1 DEF ListenCheck, TypeOK
  <2>2. CASE ListenInsert(l)
    <3>1. job' \in [Listeners -> {NoJob} \cup Job]
      BY <1>c, <2>2 DEF ListenInsert
    <3>2. job[l].ev \in Events
      BY <1>c, <2>2 DEF ListenInsert, NoJob, Job
    <3>3. book' \in [Events -> Nat]
      BY <2>2, <3>2 DEF ListenInsert, TypeOK
    <3> QED BY <2>2, <3>1, <3>3 DEF ListenInsert, TypeOK
  <2>3. CASE ListenConflict(l)
    <3>1. job' \in [Listeners -> {NoJob} \cup Job]
      BY <1>c, <2>3 DEF ListenConflict
    <3>2. file' \in Letters
      BY <1>c, <1>d, <2>3 DEF ListenConflict, NoJob, Job, Letters
    <3> QED BY <2>3, <3>1, <3>2 DEF ListenConflict, TypeOK
  <2>4. CASE ListenRestart(l) BY <2>4 DEF ListenRestart, TypeOK
  <2>5. ASSUME NEW e \in Events, ListenTake(l, e) PROVE TypeOK'
    <3>1. job' \in [Listeners -> {NoJob} \cup Job]
      BY <1>c, <2>5 DEF ListenTake, Job
    <3> QED BY <2>5, <3>1 DEF ListenTake, TypeOK
  <2> QED BY <1>2, <2>1, <2>2, <2>3, <2>4, <2>5 DEF ListenerStep
<1>3. ASSUME DlqStep PROVE TypeOK'
  <2>1. CASE DlqRead
    <3>a. Exhausted \subseteq file /\ file \ Exhausted \in Letters
      BY <1>d DEF Exhausted, Letters
    <3>b. EventsOf(Exhausted) \subseteq Events
      BY <1>d, <3>a DEF EventsOf, Letters
    <3>c. [NoRun EXCEPT !.at = "retry", !.batch = file \ Exhausted] \in Run
      BY <3>a DEF NoRun, Run, Letters
    <3>1. dlq' \in Run /\ archive' \in SUBSET Events
      BY <1>d, <2>1, <3>b, <3>c DEF DlqRead
    <3>2. faults' \in Nat
      BY <1>e, <2>1 DEF DlqRead, TypeOK
    <3> QED BY <2>1, <3>1, <3>2 DEF DlqRead, TypeOK
  <2>2. CASE DlqRebuild
    <3>1. dlq' \in Run /\ file' \in Letters
      BY <1>d, <2>2 DEF DlqRebuild, NoRun, Run, Letters
    <3> QED BY <2>2, <3>1 DEF DlqRebuild, TypeOK
  <2>3. ASSUME NEW m \in dlq.batch, DlqRetry(m) PROVE TypeOK'
    <3>1. dlq' \in Run /\ m.ev \in Events
      BY <1>d, <2>3 DEF DlqRetry, Run, Letters
    <3>2. inbox' \in [Listeners -> SUBSET Events]
      BY <1>f, <2>3, <3>1 DEF DlqRetry, Broadcast
    <3> QED BY <2>3, <3>1, <3>2 DEF DlqRetry, TypeOK
  <2> QED BY <1>3, <2>1, <2>2, <2>3 DEF DlqStep
<1>4. ASSUME Failure PROVE TypeOK'
  <2> USE DEF Work, Letter, Ready
  <2>1. ASSUME NEW w \in Publishers, PublisherCrash(w) PROVE TypeOK'
    <3>1. pub' \in [Publishers -> Loop]
      BY <1>a, <2>1 DEF PublisherCrash, Idle, Loop
    <3>2. \A v \in Publishers : pub'[v].ids \subseteq pub[v].ids
      BY <1>a, <2>1 DEF PublisherCrash, Idle, Loop
    <3> QED BY <1>e, <2>1, <3>1, <3>2 DEF PublisherCrash, TypeOK
  <2>2. ASSUME NEW w \in Publishers, NEW i \in pub[w].ids,
               StreamError(w, i)
        PROVE  TypeOK'
    <3>1. pub' \in [Publishers -> Loop]
      BY <1>a, <2>2 DEF StreamError, Loop
    <3>2. \A v \in Publishers : pub'[v].ids \subseteq pub[v].ids
      BY <1>a, <2>2 DEF StreamError, Loop
    <3> QED BY <1>e, <2>2, <3>1, <3>2 DEF StreamError, TypeOK
  <2>3. ASSUME NEW w \in Publishers, NEW e \in Events, XAddFail(w, e)
        PROVE  TypeOK'
    <3>1. pub' \in [Publishers -> Loop]
      <4>1. [pub[w] EXCEPT !.todo = @ \ {e}, !.refused = @ \cup {e}] \in Loop
        BY <1>a DEF Loop
      <4> QED BY <1>a, <2>3, <4>1 DEF XAddFail
    <3>2. \A v \in Publishers : pub'[v].ids = pub[v].ids
      BY <1>a, <2>3 DEF XAddFail, Loop
    <3> QED BY <1>e, <2>3, <3>1, <3>2 DEF XAddFail, TypeOK
  <2>4. ASSUME NEW l \in Listeners, ListenRefuse(l) PROVE TypeOK'
    <3>1. job' \in [Listeners -> {NoJob} \cup Job]
      BY <1>c, <2>4 DEF ListenRefuse
    <3>2. file' \in Letters
      BY <1>c, <1>d, <2>4 DEF ListenRefuse, NoJob, Job, Letters
    <3> QED BY <1>e, <2>4, <3>1, <3>2 DEF ListenRefuse, TypeOK
  <2>5. ASSUME NEW l \in Listeners, ListenRetry(l) PROVE TypeOK'
    <3>1. job' \in [Listeners -> {NoJob} \cup Job]
      BY <1>c, <2>5 DEF ListenRetry, NoJob, Job
    <3> QED BY <1>e, <2>5, <3>1 DEF ListenRetry, TypeOK
  <2>6. ASSUME NEW l \in Listeners, ListenGiveUp(l) PROVE TypeOK'
    <3>1. job' \in [Listeners -> {NoJob} \cup Job]
      BY <1>c, <2>6 DEF ListenGiveUp
    <3>2. file' \in Letters
      BY <1>c, <1>d, <2>6 DEF ListenGiveUp, NoJob, Job, Letters
    <3> QED BY <1>e, <2>6, <3>1, <3>2 DEF ListenGiveUp, TypeOK
  <2>7. ASSUME NEW l \in Listeners, ListenDrop(l) PROVE TypeOK'
    <3>1. job' \in [Listeners -> {NoJob} \cup Job]
      BY <1>c, <2>7 DEF ListenDrop
    <3> QED BY <1>e, <2>7, <3>1 DEF ListenDrop, TypeOK
  <2>8. CASE DlqCrash
    <3>1. dlq' \in Run
      BY <2>8 DEF DlqCrash, NoRun, Run, Letters
    <3> QED BY <1>e, <2>8, <3>1 DEF DlqCrash, TypeOK
  <2>9. ASSUME NEW m \in dlq.batch, DlqRetryFail(m) PROVE TypeOK'
    <3>a. [m EXCEPT !.try = @ + 1] \in [ev : Events, try : Nat]
      BY <1>d DEF Run, Letters
    <3>b. dlq.kept \cup {[m EXCEPT !.try = @ + 1]} \in Letters
      BY <1>d, <3>a DEF Run, Letters
    <3>c. dlq.batch \ {m} \in Letters
      BY <1>d DEF Run, Letters
    <3>1. dlq' \in Run
      BY <1>d, <2>9, <3>b, <3>c DEF DlqRetryFail, Run
    <3> QED BY <1>e, <2>9, <3>1 DEF DlqRetryFail, TypeOK
  <2> QED
    BY <1>4, <2>1, <2>2, <2>3, <2>4, <2>5, <2>6, <2>7, <2>8, <2>9 DEF Failure
<1>5. CASE UNCHANGED vars
  BY <1>5 DEF vars, TypeOK
<1> QED BY <1>1, <1>2, <1>3, <1>4, <1>5 DEF Next

\* No step of the publishers, the replicas and the dead-letter consumer
\* writes a value outside its domain (outbox_publisher.py, listener.py,
\* dlq_worker.py).
THEOREM TypeCorrect == Spec => []TypeOK
<1> QED BY TypeInit, TypeKept, PTL DEF Spec

\* XADD appends: no step takes an event out of the stream again.
LEMMA StreamKept ==
    ASSUME TypeOK, [Next]_vars
    PROVE  \A e : Streamed(e) => Streamed(e)'
<1>a. stream \in Seq(Entry) /\ \A w \in Publishers : pub[w].ids \subseteq DOMAIN stream
  BY DEF TypeOK
<1>1. ASSUME NEW w \in Publishers, StreamTake(w)
      PROVE  \A e : Streamed(e) => Streamed(e)'
  <2>1. PICK S \in SUBSET Nat : Take(w, S)
    BY <1>1, <1>a DEF StreamTake, Entries
  <2>2. DOMAIN stream' = DOMAIN stream
    BY <2>1 DEF Take
  <2>3. \A i \in DOMAIN stream : stream'[i].ev = stream[i].ev
    BY <1>a, <2>1 DEF Take, Entry
  <2> QED BY <2>2, <2>3 DEF Streamed
<1>2. ASSUME NEW w \in Publishers, NEW i \in pub[w].ids, StreamAck(w, i)
      PROVE  \A e : Streamed(e) => Streamed(e)'
  <2>1. DOMAIN stream' = DOMAIN stream
    BY <1>2 DEF StreamAck
  <2>2. i \in DOMAIN stream /\ stream[i] \in Entry
    BY <1>a
  <2>3. \A k \in DOMAIN stream : stream'[k].ev = stream[k].ev
    BY <1>a, <1>2, <2>2 DEF StreamAck, Entry
  <2> QED BY <2>1, <2>3 DEF Streamed
<1>3. ASSUME NEW w \in Publishers, NEW e \in Events, XAdd(w, e)
      PROVE  \A f : Streamed(f) => Streamed(f)'
  <2>1. DOMAIN stream \subseteq DOMAIN stream'
    BY <1>a, <1>3 DEF XAdd
  <2>2. \A k \in DOMAIN stream : stream'[k] = stream[k]
    BY <1>a, <1>3 DEF XAdd
  <2> QED BY <2>1, <2>2 DEF Streamed
<1>4. CASE stream' = stream
  BY <1>4 DEF Streamed
<1>5. \/ stream' = stream
      \/ \E w \in Publishers :
           \/ StreamTake(w)
           \/ \E i \in pub[w].ids : StreamAck(w, i)
           \/ \E e \in Events : XAdd(w, e)
  BY DEF Next, PublisherStep, ListenerStep, DlqStep, Failure, OutboxSelect,
         OutboxCommit, StreamDone, StreamPublish, ListenCheck, ListenInsert,
         ListenConflict, ListenRestart, ListenTake, DlqRead, DlqRebuild,
         DlqRetry, PublisherCrash, XAddFail, StreamError, ListenRefuse,
         ListenRetry, ListenGiveUp, ListenDrop, DlqCrash, DlqRetryFail, vars
<1> QED BY <1>1, <1>2, <1>3, <1>4, <1>5

\* What a publisher adds to its batch it has just appended to the stream.
LEMMA AddedKept ==
    ASSUME TypeOK, AddedStreamed, [Next]_vars
    PROVE  AddedStreamed'
<1>a. pub \in [Publishers -> Loop] /\ stream \in Seq(Entry)
  BY DEF TypeOK
<1>1. CASE \A v \in Publishers : pub'[v].added \subseteq pub[v].added
  BY <1>1, StreamKept DEF AddedStreamed
<1>2. ASSUME NEW w \in Publishers, NEW e \in Events, XAdd(w, e)
      PROVE  AddedStreamed'
  <2>1. Len(stream) + 1 \in DOMAIN stream' /\ stream'[Len(stream) + 1].ev = e
    BY <1>a, <1>2 DEF XAdd
  <2>2. Streamed(e)'
    BY <2>1 DEF Streamed
  <2>3. \A v \in Publishers : pub'[v].added \subseteq pub[v].added \cup {e}
    BY <1>a, <1>2 DEF XAdd, Loop
  <2> QED BY <2>2, <2>3, StreamKept DEF AddedStreamed
<1>3. ASSUME NEW w \in Publishers, PublisherStep(w),
             \A e \in Events : ~XAdd(w, e)
      PROVE  \A v \in Publishers : pub'[v].added \subseteq pub[v].added
  <2>1. CASE OutboxSelect(w)
    BY <1>a, <2>1 DEF OutboxSelect, Loop
  <2>2. CASE OutboxCommit(w)
    BY <1>a, <2>2 DEF OutboxCommit, Idle, Loop
  <2>3. CASE StreamTake(w)
    BY <1>a, <2>3 DEF StreamTake, Take, Loop
  <2>4. CASE StreamDone(w)
    BY <1>a, <2>4 DEF StreamDone, Idle, Loop
  <2>5. ASSUME NEW i \in pub[w].ids, StreamPublish(w, i)
        PROVE  \A v \in Publishers : pub'[v].added \subseteq pub[v].added
    BY <1>a, <2>5 DEF StreamPublish, Loop
  <2>6. ASSUME NEW i \in pub[w].ids, StreamAck(w, i)
        PROVE  \A v \in Publishers : pub'[v].added \subseteq pub[v].added
    BY <1>a, <2>6 DEF StreamAck, Loop
  <2> QED BY <1>3, <2>1, <2>2, <2>3, <2>4, <2>5, <2>6 DEF PublisherStep
<1>4. ASSUME Failure
      PROVE  \A v \in Publishers : pub'[v].added \subseteq pub[v].added
  <2>1. ASSUME NEW w \in Publishers, PublisherCrash(w)
        PROVE  \A v \in Publishers : pub'[v].added \subseteq pub[v].added
    BY <1>a, <2>1 DEF PublisherCrash, Idle, Loop
  <2>2. ASSUME NEW w \in Publishers, NEW e \in Events, XAddFail(w, e)
        PROVE  \A v \in Publishers : pub'[v].added \subseteq pub[v].added
    BY <1>a, <2>2 DEF XAddFail, Loop
  <2>3. ASSUME NEW w \in Publishers, NEW i \in pub[w].ids, StreamError(w, i)
        PROVE  \A v \in Publishers : pub'[v].added \subseteq pub[v].added
    BY <1>a, <2>3 DEF StreamError, Loop
  <2>4. pub' = pub \/ \E w \in Publishers :
              \/ PublisherCrash(w)
              \/ \E e \in Events : XAddFail(w, e)
              \/ \E i \in pub[w].ids : StreamError(w, i)
    BY <1>4 DEF Failure, ListenRefuse, ListenRetry, ListenGiveUp, ListenDrop,
                DlqCrash, DlqRetryFail
  <2> QED BY <2>1, <2>2, <2>3, <2>4
<1>5. \/ pub' = pub \/ Failure
      \/ \E w \in Publishers : PublisherStep(w)
  BY DEF Next, ListenerStep, DlqStep, ListenCheck, ListenInsert,
         ListenConflict, ListenRestart, ListenTake, DlqRead, DlqRebuild,
         DlqRetry, vars
<1> QED BY <1>1, <1>2, <1>3, <1>4, <1>5

\* A row marked published is in the stream: the batch is committed only with
\* the rows whose XADD went through, whatever else fails and however the
\* publishers interleave (outbox_publisher.py:94-187).
THEOREM RowStreamed == Spec => []PublishedRowStreamed
<1>1. Init => RowInv
  <2>1. Init => \A w \in Publishers : pub[w].added = {}
    BY DEF Init, Idle
  <2>2. Init => \A e \in Events : row[e].at = "pending"
    BY DEF Init
  <2> QED BY <2>1, <2>2 DEF RowInv, AddedStreamed, PublishedRowStreamed
<1>2. TypeOK /\ RowInv /\ [Next]_vars => RowInv'
  <2> SUFFICES ASSUME TypeOK, RowInv, [Next]_vars PROVE PublishedRowStreamed'
    BY AddedKept DEF RowInv
  <2>a. row \in [Events -> Row] /\ PublishedRowStreamed
    BY DEF TypeOK, RowInv
  <2>1. ASSUME NEW w \in Publishers, OutboxCommit(w)
        PROVE  \A e \in Events :
                 row'[e].at = "published" =>
                     row[e].at = "published" \/ e \in pub[w].added
    BY <2>a, <2>1 DEF OutboxCommit, Row
  <2>2. row' = row \/ \E w \in Publishers : OutboxCommit(w)
    BY DEF Next, PublisherStep, ListenerStep, DlqStep, Failure, OutboxSelect,
           XAdd, StreamTake, Take, StreamAck, StreamDone, StreamPublish,
           ListenCheck, ListenInsert, ListenConflict, ListenRestart,
           ListenTake, DlqRead, DlqRebuild, DlqRetry, PublisherCrash,
           XAddFail, StreamError, ListenRefuse, ListenRetry, ListenGiveUp,
           ListenDrop, DlqCrash, DlqRetryFail, vars
  <2>3. \A e \in Events : row'[e].at = "published" => Streamed(e)
    BY <2>a, <2>1, <2>2 DEF RowInv, AddedStreamed, PublishedRowStreamed,
                            Streamed
  <2> QED BY <2>3, StreamKept DEF PublishedRowStreamed, Streamed
<1> QED BY <1>1, <1>2, TypeCorrect, PTL DEF Spec, RowInv

\* However events are duplicated, replayed or raced for, the journal only ever
\* takes the steps of JournalOnce (accounting_service.py:1025-1108).
THEOREM JournalRefined == Spec => PostedOnce
<1>1. Init => Journal!Init
  BY DEF Init, Journal!Init
<1>2. TypeOK /\ [Next]_vars => [Journal!Next]_book
  <2> SUFFICES ASSUME TypeOK, [Next]_vars PROVE [Journal!Next]_book
    OBVIOUS
  <2>1. ASSUME NEW l \in Listeners, ListenInsert(l) PROVE Journal!Next
    <3>1. Work(l) \in Events
      BY <2>1 DEF TypeOK, ListenInsert, Work, NoJob, Job
    <3>2. Journal!Post(Work(l))
      BY <2>1, <3>1 DEF ListenInsert, Journal!Post, TypeOK
    <3> QED BY <3>1, <3>2 DEF Journal!Next
  <2>2. book' = book \/ \E l \in Listeners : ListenInsert(l)
    BY DEF Next, PublisherStep, ListenerStep, DlqStep, Failure, OutboxSelect,
           OutboxCommit, XAdd, StreamTake, Take, StreamAck, StreamDone,
           StreamPublish, ListenCheck, ListenConflict, ListenRestart,
           ListenTake, DlqRead, DlqRebuild, DlqRetry, PublisherCrash,
           XAddFail, StreamError, ListenRefuse, ListenRetry, ListenGiveUp,
           ListenDrop, DlqCrash, DlqRetryFail, vars, ledger
  <2> QED BY <2>1, <2>2
<1> QED BY <1>1, <1>2, TypeCorrect, PTL DEF Spec, PostedOnce, Journal!Spec

----------------------------------------------------------------------------
(* The books                                                               *)

\* What an entry is made from tells a closing from everything else.
Closes(source) == source[1] = "period-close"

\* The sources of the ledger's entries.
PostedSources ==
    {<<p.rule, p.ref>> : p \in Postings}
      \cup {<<"ledger.manual_entry", m.ref>> : m \in Manuals}
      \cup {<<"ledger.reversal", c>> : c \in Clerks}
Sources == PostedSources \cup {ClosingSource(m) : m \in Closed}

\* Of what may still be committed only the closing entry has the source of a
\* closing, and nobody records that one before it is appended.
SourcesInv ==
    /\ \E S : entries \in Seq(S)
    /\ SourcesUnique
    /\ closing = [month |-> closing.month, at |-> closing.at, entry |-> closing.entry]
    /\ closing.at = "post" =>
         Closes(closing.entry.source) /\ ~Recorded(closing.entry.source)
    /\ draft = [c \in Clerks |-> draft[c]]
    /\ \A c \in Clerks : draft[c] # NoClerk => ~Closes(draft[c].source)

\* A committed entry is the last one, and the others stay.
LEMMA Appended ==
    ASSUME \E S : entries \in Seq(S), NEW e, entries' = Append(entries, e)
    PROVE  /\ \E S : entries' \in Seq(S)
           /\ Len(entries') = Len(entries) + 1
           /\ DOMAIN entries' = DOMAIN entries \cup {Len(entries) + 1}
           /\ \A i \in DOMAIN entries : i <= Len(entries) /\ entries'[i] = entries[i]
           /\ entries'[Len(entries) + 1] = e
<1>1. PICK S : entries \in Seq(S)
  OBVIOUS
<1>2. entries \in Seq(S \cup {e})
  <2>1. entries \in [1..Len(entries) -> S] /\ Len(entries) \in Nat
    BY <1>1
  <2>2. entries \in [1..Len(entries) -> S \cup {e}]
    BY <2>1
  <2> QED BY <2>1, <2>2, SeqDef
<1>3. /\ Len(entries') = Len(entries) + 1 /\ entries' \in Seq(S \cup {e})
      /\ \A i \in 1..Len(entries) : entries'[i] = entries[i]
      /\ entries'[Len(entries) + 1] = e
  BY <1>2, AppendProperties
<1>4. DOMAIN entries' = 1..(Len(entries) + 1) /\ DOMAIN entries = 1..Len(entries)
      /\ Len(entries) \in Nat
  BY <1>2, <1>3
<1>5. 1..(Len(entries) + 1) = 1..Len(entries) \cup {Len(entries) + 1}
  BY <1>4
<1>6. \A i \in 1..Len(entries) : i <= Len(entries)
  BY <1>4
<1> QED BY <1>3, <1>4, <1>5, <1>6

\* An entry whose source is not there yet leaves each source with one entry.
LEMMA AppendedOnce ==
    ASSUME \E S : entries \in Seq(S), SourcesUnique,
           NEW e, ~Recorded(e.source), entries' = Append(entries, e)
    PROVE  /\ \E S : entries' \in Seq(S)
           /\ SourcesUnique'
           /\ \A source : Recorded(source)' => Recorded(source) \/ source = e.source
<1>1. /\ \E S : entries' \in Seq(S)
      /\ \A i \in DOMAIN entries' :
           \/ i \in DOMAIN entries /\ entries'[i] = entries[i]
           \/ i = Len(entries) + 1 /\ entries'[i] = e
  BY Appended
<1>2. SourcesUnique'
  BY <1>1 DEF SourcesUnique, Recorded
<1> QED BY <1>1, <1>2 DEF Recorded

\* A rule of the ledger is not the closing of a period.
LEMMA RulesDoNotClose == \A p \in Postings : p.rule # "period-close"
<1>1. "period-close" \notin DOMAIN CollectionRules
  BY DEF CollectionRules
<1>2. "period-close" \notin DOMAIN PaymentRules
  BY DEF PaymentRules
<1> QED BY <1>1, <1>2, BooksAssumption DEF Rules

\* What a clerk prepares has a source of its own kind and closes no period.
LEMMA PreparedOpen ==
    ASSUME SourcesInv, NEW c \in Clerks,
           \/ \E p \in Postings : PostEvent(c, p)
           \/ \E m \in Manuals, d \in Days : PostManual(c, m, d)
           \/ \E i \in DOMAIN entries, d \in Days : PostReversal(c, i, d)
    PROVE  \E e : /\ draft' = [draft EXCEPT ![c] = e]
                  /\ e.source \in PostedSources /\ ~Closes(e.source)
                  /\ UNCHANGED <<entries, closing>>
<1>1. ASSUME NEW p \in Postings, PostEvent(c, p)
      PROVE  \E e : /\ draft' = [draft EXCEPT ![c] = e]
                    /\ e.source \in PostedSources /\ ~Closes(e.source)
                    /\ UNCHANGED <<entries, closing>>
  <2> DEFINE e == BookEntry(<<p.rule, p.ref>>, today, LinesOf(p), 0)
  <2>1. e.source \in PostedSources /\ ~Closes(e.source)
    BY RulesDoNotClose DEF BookEntry, Closes, PostedSources
  <2> HIDE DEF e
  <2> QED BY <1>1, <2>1 DEF PostEvent, Prepare, e
<1>2. ASSUME NEW m \in Manuals, NEW d \in Days, PostManual(c, m, d)
      PROVE  \E e : /\ draft' = [draft EXCEPT ![c] = e]
                    /\ e.source \in PostedSources /\ ~Closes(e.source)
                    /\ UNCHANGED <<entries, closing>>
  <2> DEFINE lines == Dr(m.debit, m.amount) ++ Cr(m.credit, m.amount)
             e == BookEntry(<<"ledger.manual_entry", m.ref>>, d, lines, 0)
  <2>1. Prepare(c, e)
    BY <1>2 DEF PostManual
  <2> HIDE DEF lines
  <2>2. e.source \in PostedSources /\ ~Closes(e.source)
    BY DEF BookEntry, Closes, PostedSources
  <2> HIDE DEF e
  <2> QED BY <2>1, <2>2 DEF Prepare
<1>3. ASSUME NEW i \in DOMAIN entries, NEW d \in Days, PostReversal(c, i, d)
      PROVE  \E e : /\ draft' = [draft EXCEPT ![c] = e]
                    /\ e.source \in PostedSources /\ ~Closes(e.source)
                    /\ UNCHANGED <<entries, closing>>
  <2> DEFINE lines == [a \in DOMAIN entries[i].lines |-> -entries[i].lines[a]]
             e == BookEntry(<<"ledger.reversal", c>>, d, lines, i)
  <2>1. Prepare(c, e)
    BY <1>3 DEF PostReversal
  <2> HIDE DEF lines
  <2>2. e.source \in PostedSources /\ ~Closes(e.source)
    BY DEF BookEntry, Closes, PostedSources
  <2> HIDE DEF e
  <2> QED BY <2>1, <2>2 DEF Prepare
<1> QED BY <1>1, <1>2, <1>3

LEMMA SourcesKept == SourcesInv /\ [BooksNext]_booksVars => SourcesInv'
<1> SUFFICES ASSUME SourcesInv, [BooksNext]_booksVars PROVE SourcesInv'
  OBVIOUS
<1>1. ASSUME NEW c \in Clerks, NEW e, draft' = [draft EXCEPT ![c] = e],
             e # NoClerk => ~Closes(e.source), UNCHANGED <<entries, closing>>
      PROVE  SourcesInv'
  BY <1>1 DEF SourcesInv, SourcesUnique, Recorded
<1>2. ASSUME NEW c \in Clerks, PostCommit(c)
      PROVE  SourcesInv'
  <2>1. /\ \E S : entries' \in Seq(S)
        /\ SourcesUnique'
        /\ \A source : Recorded(source)' => Recorded(source) \/ source = draft[c].source
    BY <1>2, AppendedOnce DEF PostCommit, SourcesInv
  <2>2. ~Closes(draft[c].source)
    BY <1>2 DEF PostCommit, SourcesInv
  <2>3. draft' = [draft EXCEPT ![c] = NoClerk] /\ closing' = closing
    BY <1>2 DEF PostCommit
  <2>4. (closing.at = "post" =>
           Closes(closing.entry.source) /\ ~Recorded(closing.entry.source))'
    <3>1. closing.at = "post" => ~Recorded(closing.entry.source)
                                 /\ closing.entry.source # draft[c].source
      BY <2>2 DEF SourcesInv
    <3> QED BY <2>1, <2>3, <3>1 DEF SourcesInv
  <2> QED BY <2>1, <2>3, <2>4 DEF SourcesInv
<1>3. ASSUME NEW m \in Closed, CloseDraft(m)
      PROVE  SourcesInv'
  <2> DEFINE e == BookEntry(ClosingSource(m), LastDay(m), ClosingLines(m), 0)
  <2>1. Closes(e.source) /\ ~Recorded(e.source)
    BY <1>3 DEF CloseDraft, BookEntry, ClosingSource, Closes
  <2>2. closing' = [month |-> m, at |-> "post", entry |-> e]
        /\ UNCHANGED <<entries, draft>>
    BY <1>3 DEF CloseDraft
  <2> HIDE DEF e
  <2> QED BY <2>1, <2>2 DEF SourcesInv, SourcesUnique, Recorded
<1>4. CASE CloseCommit
  <2>1. closing.at = "post" /\ ~Recorded(closing.entry.source)
    BY <1>4 DEF CloseCommit, SourcesInv
  <2>2. (\E S : entries' \in Seq(S)) /\ SourcesUnique'
    BY <1>4, <2>1, AppendedOnce DEF CloseCommit, SourcesInv
  <2>3. closing' = [month |-> closing.month, at |-> "mark", entry |-> NoClerk]
    BY <1>4 DEF CloseCommit, SourcesInv
  <2> QED BY <1>4, <2>2, <2>3 DEF CloseCommit, SourcesInv
<1>5. ASSUME UNCHANGED <<entries, draft>>, closing'.at # "post",
             closing' = [month |-> closing'.month, at |-> closing'.at,
                         entry |-> closing'.entry]
      PROVE  SourcesInv'
  BY <1>5 DEF SourcesInv, SourcesUnique
<1>6. CASE CloseDies \/ CloseMark
  BY <1>5, <1>6 DEF CloseDies, CloseMark, NotClosing
<1>7. ASSUME NEW m \in Closed, CloseBegin(m)
      PROVE  SourcesInv'
  BY <1>5, <1>7 DEF CloseBegin
<1>8. CASE UNCHANGED <<entries, draft, closing>>
  BY <1>8 DEF SourcesInv, SourcesUnique, Recorded
<1>9. ASSUME NEW c \in Clerks, PostRollback(c)
      PROVE  SourcesInv'
  BY <1>1, <1>9 DEF PostRollback
<1>10. ASSUME NEW c \in Clerks,
              \/ \E p \in Postings : PostEvent(c, p)
              \/ \E m \in Manuals, d \in Days : PostManual(c, m, d)
              \/ \E i \in DOMAIN entries, d \in Days : PostReversal(c, i, d)
       PROVE  SourcesInv'
  BY <1>1, <1>10, PreparedOpen
<1>11. \/ UNCHANGED <<entries, draft, closing>>
       \/ CloseCommit \/ CloseDies \/ CloseMark
       \/ \E m \in Closed : CloseBegin(m) \/ CloseDraft(m)
       \/ \E c \in Clerks :
            \/ PostCommit(c) \/ PostRollback(c)
            \/ \E p \in Postings : PostEvent(c, p)
            \/ \E m \in Manuals, d \in Days : PostManual(c, m, d)
            \/ \E i \in DOMAIN entries, d \in Days : PostReversal(c, i, d)
  BY Zenon DEF BooksNext, booksVars, Reopen, SnapStart, SnapRead, SnapCommit, SnapDies,
               DayPasses
<1> QED BY <1>2, <1>3, <1>4, <1>6, <1>7, <1>8, <1>9, <1>10, <1>11

\* No source has two entries at the start.
LEMMA SourcesInit == BooksInit => SourcesInv
<1> SUFFICES ASSUME BooksInit PROVE SourcesInv
  OBVIOUS
<1>1. entries = << >> /\ entries \in Seq({}) /\ DOMAIN entries = {}
  BY EmptySeq DEF BooksInit
<1> QED BY <1>1 DEF BooksInit, SourcesInv, SourcesUnique, NotClosing

\* Each source has one entry, however postings, manual entries, reversals,
\* closings that stop in between and reopened months interleave
\* (accounting_service.py:1025-1108).
THEOREM BookedOnce == BooksSpec => []SourcesUnique
<1>1. SourcesInv => SourcesUnique
  BY DEF SourcesInv
<1> QED BY <1>1, SourcesInit, SourcesKept, PTL DEF BooksSpec

----------------------------------------------------------------------------
(* The balances                                                            *)

LinesOK(lines) ==
    /\ DOMAIN lines \subseteq Accounts
    /\ \A a \in DOMAIN lines : lines[a] \in Int
    /\ Balanced(lines)

EntryOK(e) == e.date \in Days /\ LinesOK(e.lines)

\* What is committed, and what is about to be, is balanced and dated.
EntriesInv ==
    /\ \E S : entries \in Seq(S)
    /\ \A i \in DOMAIN entries : EntryOK(entries[i])
    /\ draft = [c \in Clerks |-> draft[c]]
    /\ \A c \in Clerks : draft[c] # NoClerk => EntryOK(draft[c])
    /\ closing = [month |-> closing.month, at |-> closing.at, entry |-> closing.entry]
    /\ closing.at \in {"idle", "post", "mark"}
    /\ closing.at # "idle" => closing.month \in Closed
    /\ closing.at = "post" => EntryOK(closing.entry)
    /\ today \in Days /\ shut \subseteq Closed

\* The entries that the balance of an account rests on.
Kept(a, d) == {i \in DOMAIN entries : entries[i].date <= d /\ ~Missed(i, a, d)}

\* A snapshot is the sum of them, and later entries of its days are missed.
SnapsInv ==
    /\ snaps = [a \in Accounts |-> snaps[a]]
    /\ \A a \in Accounts :
         /\ DOMAIN snaps[a] \subseteq Days
         /\ \A s \in DOMAIN snaps[a] :
              /\ snaps[a][s].value \in Int /\ snaps[a][s].of \in 0..Len(entries)
              /\ snaps[a][s].value = SumFunctionOnSet(AmountsOn(a), Kept(a, s))

\* What the worker has read of an account: its snapshot of the day, or a sum
\* of entries that goes at least as far as any snapshot there is.
RowOK(a, d, found) ==
    /\ found.value \in Int /\ found.of \in 0..Len(entries)
    /\ d \in DOMAIN snaps[a] =>
         found.value = snaps[a][d].value /\ found.of = snaps[a][d].of
    /\ d \notin DOMAIN snaps[a] =>
         /\ \A s \in DOMAIN snaps[a] : snaps[a][s].of <= found.of
         /\ found.value = SumFunctionOnSet(AmountsOn(a), {i \in Kept(a, d) : i <= found.of})

WorkerInv ==
    /\ worker = [next |-> worker.next, asof |-> worker.asof,
                 rows |-> worker.rows, runs |-> worker.runs]
    /\ worker.next \in 0..(Len(CHART) + 1) /\ worker.runs \in 0..MaxSnapshots
    /\ worker.next # 0 =>
         /\ worker.asof \in Days /\ DOMAIN worker.rows \subseteq Accounts
         /\ \A a \in DOMAIN worker.rows : RowOK(a, worker.asof, worker.rows[a])

BalancesInv == EntriesInv /\ SnapsInv /\ WorkerInv

\* The calendar is finite and not empty.
LEMMA DaysFacts ==
    /\ Days = 1..Len(Month) /\ Len(Month) \in Nat /\ 1 \in Days /\ Days \subseteq Nat
    /\ IsFiniteSet(Days)
<1>1. Len(Month) \in Nat /\ Month \in [1..Len(Month) -> Nat]
  BY BooksAssumption
<1>2. Len(Month) # 0
  BY BooksAssumption, EmptySeq
<1>3. IsFiniteSet(1..Len(Month))
  BY <1>1, FS_Interval
<1> QED BY <1>1, <1>2, <1>3 DEF Days

\* Five elements more.
LEMMA FiveMore ==
    ASSUME NEW S, IsFiniteSet(S), NEW a, NEW b, NEW c, NEW d, NEW e
    PROVE  IsFiniteSet(S \cup {a, b, c, d, e})
<1>1. IsFiniteSet(((((S \cup {a}) \cup {b}) \cup {c}) \cup {d}) \cup {e})
  BY FS_AddElement
<1>2. ((((S \cup {a}) \cup {b}) \cup {c}) \cup {d}) \cup {e} = S \cup {a, b, c, d, e}
  OBVIOUS
<1> QED BY <1>1, <1>2

\* The chart is finite.
LEMMA AccountsFinite == IsFiniteSet(Accounts)
<1> DEFINE A == {"cash", "ar_installments", "murabaha_financing_receivable",
                 "vcn_issued", "ap_merchants"}
           B == {"charity_payable", "loan_loss_reserve", "customer_deposits",
                 "murabaha_cost_payable", "deferred_murabaha_profit"}
           C == {"owner_equity", "retained_earnings", "murabaha_profit",
                 "affiliate_commission", "late_fee_collections"}
           D == {"cogs_merchant_payment", "gateway_fees", "vcn_issuance",
                 "loan_loss_provision", "loan_loss_provision"}
<1>1. IsFiniteSet({} \cup A)
  BY FS_EmptySet, FiveMore
<1>2. IsFiniteSet(({} \cup A) \cup B)
  BY <1>1, FiveMore
<1>3. IsFiniteSet((({} \cup A) \cup B) \cup C)
  BY <1>2, FiveMore
<1>4. IsFiniteSet(((({} \cup A) \cup B) \cup C) \cup D)
  BY <1>3, FiveMore
<1>5. Accounts = ((({} \cup A) \cup B) \cup C) \cup D
  BY DEF Accounts
<1> QED BY <1>4, <1>5

\* The journal is a finite sequence of dated entries in whole amounts.
LEMMA EntriesFacts ==
    ASSUME EntriesInv
    PROVE  /\ DOMAIN entries = 1..Len(entries) /\ Len(entries) \in Nat
           /\ IsFiniteSet(DOMAIN entries)
           /\ \A i \in DOMAIN entries : entries[i].date \in Days
           /\ \A a, i : i \in DOMAIN entries => AmountsOn(a)[i] \in Int
<1>1. PICK S : entries \in Seq(S)
  BY DEF EntriesInv
<1>2. DOMAIN entries = 1..Len(entries) /\ Len(entries) \in Nat
  BY <1>1
<1>3. IsFiniteSet(1..Len(entries))
  BY <1>2, FS_Interval
<1>4. \A i \in DOMAIN entries : EntryOK(entries[i])
  BY DEF EntriesInv
<1> QED BY <1>2, <1>3, <1>4 DEF EntryOK, LinesOK, AmountsOn, AmountOn

\* Any balance is the sum of the entries it rests on.
LEMMA BalanceIs ==
    ASSUME EntriesInv, SnapsInv, NEW a \in Accounts, NEW d \in Days
    PROVE  /\ AccountBalance(a, d) = SumFunctionOnSet(AmountsOn(a), Kept(a, d))
           /\ AccountBalance(a, d) \in Int
<1> DEFINE before == {s \in DOMAIN snaps[a] : s <= d}
           m == Max(before)
           Dated(R) == {i \in DOMAIN entries : entries[i].date \in R}
<1>0. Days \subseteq Nat /\ before \subseteq Days
  BY DaysFacts DEF SnapsInv
<1>1. \A R : IsFiniteSet(Dated(R)) /\ \A i \in Dated(R) : AmountsOn(a)[i] \in Int
  BY EntriesFacts, FS_Subset
<1>2. IsFiniteSet(Kept(a, d)) /\ \A i \in Kept(a, d) : AmountsOn(a)[i] \in Int
  BY EntriesFacts, FS_Subset DEF Kept
<1>3. SumFunctionOnSet(AmountsOn(a), Kept(a, d)) \in Int
  BY <1>2, SumType
<1>4. CASE before = {}
  <2>1. \A i : ~Missed(i, a, d)
    BY <1>4 DEF Missed
  <2>2. Kept(a, d) = Dated({s \in Days : s <= d})
    BY <2>1, EntriesFacts DEF Kept
  <2>3. AccountBalance(a, d) = SumFunctionOnSet(AmountsOn(a), Dated({s \in Days : s <= d}))
    BY <1>4 DEF AccountBalance, BalanceFrom, Posted
  <2> QED BY <1>3, <2>2, <2>3
<1>5. CASE before # {}
  <2>1. m \in before /\ \A s \in before : s <= m
    BY <1>0, <1>5, DaysFacts, MaxIs
  <2> DEFINE Later == Dated({s \in Days : m < s /\ s <= d})
  <2>2. AccountBalance(a, d) = snaps[a][m].value + SumFunctionOnSet(AmountsOn(a), Later)
    BY <1>5 DEF AccountBalance, BalanceFrom, Posted
  <2>3. snaps[a][m].value = SumFunctionOnSet(AmountsOn(a), Kept(a, m))
    BY <2>1 DEF SnapsInv
  <2>4. Kept(a, d) = Kept(a, m) \cup Later /\ Kept(a, m) \cap Later = {}
    <3>1. m \in Nat /\ d \in Nat /\ m <= d
      BY <1>0, <2>1
    <3>2. \A i \in DOMAIN entries : entries[i].date \in Nat /\ entries[i].date \in Days
      BY <1>0, EntriesFacts
    <3>3. \A i : Missed(i, a, d) <=> Missed(i, a, m)
      <4> HIDE DEF m
      <4>1. \A s \in DOMAIN snaps[a] : s \in Nat /\ (s <= d <=> s <= m)
        BY <1>0, <2>1, <3>1, DaysFacts DEF SnapsInv
      <4> QED BY <4>1 DEF Missed
    <3>4. \A i \in DOMAIN entries : Missed(i, a, m) => entries[i].date <= m
      <4> HIDE DEF m
      <4>1. \A s \in DOMAIN snaps[a] : s \in Nat
        BY <1>0, DaysFacts DEF SnapsInv
      <4> QED BY <3>1, <3>2, <4>1 DEF Missed
    <3> HIDE DEF m
    <3> QED BY <3>1, <3>2, <3>3, <3>4 DEF Kept
  <2>5. IsFiniteSet(Kept(a, m)) /\ IsFiniteSet(Later)
    BY <1>1, <1>2, <2>4, FS_Subset
  <2>6. SumFunctionOnSet(AmountsOn(a), Kept(a, d))
          = SumFunctionOnSet(AmountsOn(a), Kept(a, m)) + SumFunctionOnSet(AmountsOn(a), Later)
    <3> HIDE DEF Later, m
    <3> QED BY <1>2, <2>4, <2>5, SumUnion
  <2> QED BY <1>3, <2>2, <2>3, <2>6
<1> QED BY <1>4, <1>5

\* Two functions of accounts, the first of which counts, are one.
LEMMA Merged ==
    ASSUME NEW f, NEW g
    PROVE  /\ DOMAIN (f ++ g) = DOMAIN f \cup DOMAIN g
           /\ \A x \in DOMAIN f : (f ++ g)[x] = f[x]
           /\ \A x \in DOMAIN g \ DOMAIN f : (f ++ g)[x] = g[x]
BY DEF ++

\* What posts to accounts in whole amounts.
Lines(l) == DOMAIN l \subseteq Accounts /\ \A a \in DOMAIN l : l[a] \in Int

\* Merged lines are lines.
LEMMA LinesMerged ==
    ASSUME NEW f, NEW g, Lines(f), Lines(g) PROVE Lines(f ++ g)
BY DEF ++, Lines

\* A debit and a credit are lines.
LEMMA LineOK ==
    ASSUME NEW a \in Accounts, NEW n \in Int PROVE Lines(Dr(a, n)) /\ Lines(Cr(a, n))
BY DEF Dr, Cr, Only, Lines

\* The rules with two accounts name accounts of the chart.
LEMMA RuleAccounts ==
    ASSUME NEW r \in DOMAIN SimpleRules
    PROVE  SimpleRules[r][1] \in Accounts /\ SimpleRules[r][2] \in Accounts
<1>1. \A x \in DOMAIN CollectionRules :
        CollectionRules[x][1] \in Accounts /\ CollectionRules[x][2] \in Accounts
  BY DEF CollectionRules, Accounts
<1>2. \A x \in DOMAIN PaymentRules :
        PaymentRules[x][1] \in Accounts /\ PaymentRules[x][2] \in Accounts
  BY DEF PaymentRules, Accounts
<1> HIDE DEF CollectionRules, PaymentRules
<1> QED BY <1>1, <1>2 DEF SimpleRules, ++

\* Every rule posts to accounts of the chart.
LEMMA RuleLines ==
    ASSUME NEW p \in Postings PROVE Lines(LinesOf(p))
<1>1. p.cost \in Int /\ p.profit \in Int /\ p.cost + p.profit \in Int /\ p.rule \in Rules
  BY BooksAssumption
<1>2. CASE p.rule \in DOMAIN SimpleRules
  BY <1>1, <1>2, RuleAccounts, LineOK, LinesMerged DEF LinesOf
<1>3. CASE p.rule \notin DOMAIN SimpleRules
  <2>1. DOMAIN SimpleRules = DOMAIN CollectionRules \cup DOMAIN PaymentRules
    BY Merged DEF SimpleRules
  <2>2. p.rule \in {"payment.down_payment_confirmed", "loan.created", "vcn_charge"}
    BY <1>1, <1>3, <2>1 DEF Rules
  <2>3. \A a \in {"cash", "customer_deposits", "murabaha_financing_receivable",
                  "murabaha_cost_payable", "deferred_murabaha_profit",
                  "ar_installments", "vcn_issued", "murabaha_profit"} :
          a \in Accounts
    BY DEF Accounts
  <2>4. CASE p.rule = "payment.down_payment_confirmed"
    <3>1. OrderRule(p) = Dr("cash", p.cost) ++ Cr("customer_deposits", p.cost)
      BY <2>4 DEF OrderRule
    <3> QED BY <1>1, <1>3, <2>3, <3>1, LineOK, LinesMerged DEF LinesOf
  <2>5. CASE p.rule = "loan.created"
    <3>1. OrderRule(p) = Dr("murabaha_financing_receivable", p.cost + p.profit)
                         ++ Cr("murabaha_cost_payable", p.cost)
                         ++ Cr("deferred_murabaha_profit", p.profit)
      BY <2>5 DEF OrderRule
    <3> QED BY <1>1, <1>3, <2>3, <3>1, LineOK, LinesMerged DEF LinesOf
  <2>6. CASE p.rule = "vcn_charge"
    <3>1. OrderRule(p) = Dr("ar_installments", p.cost + p.profit)
                         ++ Cr("vcn_issued", p.cost) ++ Cr("murabaha_profit", p.profit)
      BY <2>6 DEF OrderRule
    <3> QED BY <1>1, <1>3, <2>3, <3>1, LineOK, LinesMerged DEF LinesOf
  <2> QED BY <2>2, <2>4, <2>5, <2>6
<1> QED BY <1>2, <1>3

\* What the close posts zeroes the accounts it closes, and balances.
LEMMA ClosingOK ==
    ASSUME EntriesInv, SnapsInv, NEW m \in Closed
    PROVE  LastDay(m) \in Days /\ LinesOK(ClosingLines(m))
<1>1. LastDay(m) \in Days
  <2>1. {d \in Days : Month[d] = m} # {}
    BY BooksAssumption
  <2> QED BY <2>1, DaysFacts, MaxIs DEF LastDay
<1> DEFINE bal(a) == AccountBalance(a, LastDay(m))
           closed == {a \in RevenueAccounts : bal(a) < 0}
                     \cup {a \in ExpenseAccounts : bal(a) > 0}
           F == [a \in closed |-> bal(a)]
           G == [a \in closed |-> -bal(a)]
           retained == SumFunction(F)
           rest == IF retained = 0 THEN << >> ELSE Dr("retained_earnings", retained)
           lines == G ++ rest
<1>2. ClosingLines(m) = lines
  BY DEF ClosingLines
<1>3. closed \subseteq Accounts /\ "retained_earnings" \notin closed
      /\ "retained_earnings" \in Accounts
  BY DEF RevenueAccounts, ExpenseAccounts, Accounts
<1>4. \A a \in closed : bal(a) \in Int /\ bal(a) # 0
  <2>1. \A a \in closed : bal(a) \in Int
    BY <1>1, <1>3, BalanceIs
  <2>2. \A a \in closed : bal(a) < 0 \/ bal(a) > 0
    OBVIOUS
  <2> HIDE DEF closed, bal
  <2> QED BY <2>1, <2>2
<1>5. IsFiniteSet(closed)
  BY <1>3, AccountsFinite, FS_Subset
<1> HIDE DEF bal, closed
<1>6. \A a \in closed : F[a] \in Int /\ G[a] = -F[a] /\ G[a] # 0 /\ G[a] \in Int
  BY <1>4
<1>7. DOMAIN F = closed /\ DOMAIN G = closed
  OBVIOUS
<1> HIDE DEF F, G
<1>8. retained = SumFunctionOnSet(F, closed) /\ retained \in Int
  BY <1>5, <1>6, <1>7, SumType DEF SumFunction
<1>9. SumFunctionOnSet(G, closed) = -retained
  BY <1>5, <1>6, <1>8, SumNegative
<1>10. CASE retained = 0
  <2>1. DOMAIN lines = closed /\ \A a \in closed : lines[a] = G[a]
    <3>1. DOMAIN << >> = {}
      BY EmptySeq
    <3> HIDE DEF retained
    <3> QED BY <1>7, <1>10, <3>1 DEF ++
  <2>2. SumFunctionOnSet(lines, closed) = 0
    <3> HIDE DEF lines
    <3>1. SumFunctionOnSet(lines, closed) = SumFunctionOnSet(G, closed)
      BY <1>5, <2>1, SumEqual
    <3> HIDE DEF retained
    <3>2. \A x, y \in Int : y = -x => y + x = 0
      OBVIOUS
    <3>3. SumFunctionOnSet(G, closed) \in Int
      BY <1>5, <1>6, SumType
    <3>4. SumFunctionOnSet(G, closed) = 0
      <4>1. SumFunctionOnSet(G, closed) + retained = 0
        BY <1>8, <1>9, <3>2, <3>3
      <4> QED BY <1>10, <3>3, <4>1
    <3> QED BY <3>1, <3>4
  <2> HIDE DEF lines
  <2> QED BY <1>1, <1>2, <1>3, <1>6, <2>1, <2>2 DEF LinesOK, Balanced, SumFunction
<1>11. CASE retained # 0
  <2>1. /\ DOMAIN lines = closed \cup {"retained_earnings"}
        /\ \A a \in closed : lines[a] = G[a]
        /\ lines["retained_earnings"] = retained
    <3> HIDE DEF retained
    <3> QED BY <1>3, <1>7, <1>8, <1>11 DEF ++, Dr, Only
  <2> HIDE DEF lines, retained
  <2>2. \A a \in closed \cup {"retained_earnings"} : lines[a] \in Int
    BY <1>6, <1>8, <2>1
  <2>3. SumFunctionOnSet(lines, closed \cup {"retained_earnings"})
          = lines["retained_earnings"] + SumFunctionOnSet(lines, closed)
    BY <1>3, <1>5, <2>2, SumAdd
  <2>4. SumFunctionOnSet(lines, closed) = SumFunctionOnSet(G, closed)
    BY <1>5, <2>1, SumEqual
  <2>5. SumFunctionOnSet(lines, closed \cup {"retained_earnings"}) = 0
    BY <1>8, <1>9, <2>1, <2>3, <2>4
  <2> QED BY <1>1, <1>2, <1>3, <1>6, <1>11, <2>1, <2>2, <2>5
          DEF LinesOK, Balanced, SumFunction
<1> QED BY <1>10, <1>11

\* A snapshot does not have the entries committed after it: they change
\* neither what it stands for nor what the worker has read.
LEMMA AppendKeeps ==
    ASSUME BalancesInv, NEW e, EntryOK(e), entries' = Append(entries, e),
           UNCHANGED <<snaps, worker>>
    PROVE  /\ \E S : entries' \in Seq(S)
           /\ \A i \in DOMAIN entries' : EntryOK(entries'[i])
           /\ SnapsInv' /\ WorkerInv'
<1> USE DEF BalancesInv
<1>1. /\ \E S : entries' \in Seq(S)
      /\ Len(entries') = Len(entries) + 1
      /\ DOMAIN entries' = DOMAIN entries \cup {Len(entries) + 1}
      /\ \A i \in DOMAIN entries : i <= Len(entries) /\ entries'[i] = entries[i]
      /\ entries'[Len(entries) + 1] = e
  BY Appended DEF EntriesInv
<1>2. \A i \in DOMAIN entries' : EntryOK(entries'[i])
  BY <1>1 DEF EntriesInv
<1>3. Len(entries) \in Nat /\ IsFiniteSet(DOMAIN entries)
  BY EntriesFacts
<1>4. snaps' = snaps /\ worker' = worker
  OBVIOUS
<1>5. \A a, d : \A i \in DOMAIN entries : Missed(i, a, d)' <=> Missed(i, a, d)
  BY <1>1, <1>4 DEF Missed
<1>6. \A a, d : \A i \in DOMAIN entries : i \in Kept(a, d)' <=> i \in Kept(a, d)
  BY <1>1, <1>5 DEF Kept
<1>7. \A a : \A i \in DOMAIN entries : AmountsOn(a)'[i] = AmountsOn(a)[i]
  BY <1>1 DEF AmountsOn
<1>8. ASSUME NEW a \in Accounts, NEW s \in DOMAIN snaps[a]
      PROVE  Kept(a, s)' = Kept(a, s)
  <2>1. Len(entries) + 1 \notin Kept(a, s)'
    <3>1. PICK n : n = Len(entries) + 1
      OBVIOUS
    <3>2. s \in Nat /\ snaps[a][s].of \in 0..Len(entries)
      BY DaysFacts DEF SnapsInv
    <3>3. e.date <= s => Missed(n, a, s)'
      BY <1>1, <1>3, <1>4, <3>1, <3>2 DEF Missed
    <3> QED BY <1>1, <3>1, <3>3 DEF Kept
  <2>2. Kept(a, s) \subseteq DOMAIN entries
        /\ Kept(a, s)' \subseteq DOMAIN entries \cup {Len(entries) + 1}
    BY <1>1 DEF Kept
  <2> QED BY <1>6, <2>1, <2>2
<1>9. \A a \in Accounts : \A S \in SUBSET DOMAIN entries :
         SumFunctionOnSet(AmountsOn(a)', S) = SumFunctionOnSet(AmountsOn(a), S)
  <2> SUFFICES ASSUME NEW a \in Accounts, NEW S \in SUBSET DOMAIN entries
               PROVE  SumFunctionOnSet(AmountsOn(a)', S) = SumFunctionOnSet(AmountsOn(a), S)
    OBVIOUS
  <2>1. IsFiniteSet(S)
    BY <1>3, FS_Subset
  <2> QED BY <1>7, <2>1, SumEqual
<1>10. SnapsInv'
  <2>1. ASSUME NEW a \in Accounts, NEW s \in DOMAIN snaps[a]
        PROVE  /\ snaps[a][s].value \in Int /\ snaps[a][s].of \in 0..Len(entries')
               /\ snaps[a][s].value = SumFunctionOnSet(AmountsOn(a)', Kept(a, s)')
    <3>1. Kept(a, s)' = Kept(a, s) /\ Kept(a, s) \in SUBSET DOMAIN entries
      BY <1>8 DEF Kept
    <3>2. snaps[a][s].value \in Int /\ snaps[a][s].of \in 0..Len(entries)
          /\ snaps[a][s].value = SumFunctionOnSet(AmountsOn(a), Kept(a, s))
      BY DEF SnapsInv
    <3> QED BY <1>1, <1>3, <1>9, <3>1, <3>2
  <2> QED BY <1>4, <2>1 DEF SnapsInv
<1>11. WorkerInv'
  <2>1. ASSUME NEW a \in DOMAIN worker.rows, worker.next # 0
        PROVE  RowOK(a, worker.asof, worker.rows[a])'
    <3> DEFINE d == worker.asof
               found == worker.rows[a]
    <3>1. a \in Accounts /\ RowOK(a, d, found)
      BY <2>1 DEF WorkerInv
    <3> HIDE DEF d, found
    <3>2. {i \in Kept(a, d)' : i <= found.of} = {i \in Kept(a, d) : i <= found.of}
          /\ {i \in Kept(a, d) : i <= found.of} \in SUBSET DOMAIN entries
      <4>1. ~(Len(entries) + 1 <= found.of)
        BY <1>3, <3>1 DEF RowOK
      <4>2. Kept(a, d) \subseteq DOMAIN entries
            /\ Kept(a, d)' \subseteq DOMAIN entries \cup {Len(entries) + 1}
        BY <1>1 DEF Kept
      <4>3. \A i \in DOMAIN entries : i \in Kept(a, d)' <=> i \in Kept(a, d)
        <5>1. d' = d
          BY <1>4 DEF d
        <5> QED BY <1>6, <5>1 DEF Kept
      <4> QED BY <4>1, <4>2, <4>3
    <3>3. found.of \in 0..Len(entries')
      BY <1>1, <1>3, <3>1 DEF RowOK
    <3>4. /\ found.value \in Int
          /\ d \in DOMAIN snaps[a] =>
               found.value = snaps[a][d].value /\ found.of = snaps[a][d].of
          /\ d \notin DOMAIN snaps[a] =>
               /\ \A s \in DOMAIN snaps[a] : snaps[a][s].of <= found.of
               /\ found.value = SumFunctionOnSet(AmountsOn(a)', {i \in Kept(a, d)' : i <= found.of})
      BY <1>9, <3>1, <3>2 DEF RowOK
    <3>5. d' = d /\ found' = found
      BY <1>4 DEF d, found
    <3>6. RowOK(a, d, found)'
      BY <1>4, <3>3, <3>4, <3>5 DEF RowOK
    <3> QED BY <3>6 DEF d, found
  <2> QED BY <1>4, <2>1 DEF WorkerInv
<1> QED BY <1>1, <1>2, <1>10, <1>11

\* What a clerk prepares is balanced, dated and of accounts of the chart.
LEMMA PreparedOK ==
    ASSUME EntriesInv, NEW c \in Clerks,
           \/ \E p \in Postings : PostEvent(c, p)
           \/ \E m \in Manuals, d \in Days : PostManual(c, m, d)
           \/ \E i \in DOMAIN entries, d \in Days : PostReversal(c, i, d)
    PROVE  \E e : /\ draft' = [draft EXCEPT ![c] = e] /\ EntryOK(e)
                  /\ UNCHANGED <<today, entries, shut, closing, snaps, worker>>
<1> DEFINE Goal == \E e : /\ draft' = [draft EXCEPT ![c] = e] /\ EntryOK(e)
                          /\ UNCHANGED <<today, entries, shut, closing, snaps, worker>>
<1>1. ASSUME NEW source, NEW d \in Days, NEW lines, Lines(lines), NEW i,
             Prepare(c, BookEntry(source, d, lines, i))
      PROVE  Goal
  <2> DEFINE e == BookEntry(source, d, lines, i)
  <2>1. e.date = d /\ e.lines = lines
    BY DEF BookEntry
  <2>2. Prepare(c, e)
    BY <1>1
  <2> HIDE DEF e
  <2>3. EntryOK(e)
    BY <1>1, <2>1, <2>2 DEF Prepare, EntryOK, LinesOK, Lines
  <2> QED BY <2>2, <2>3 DEF Prepare
<1> HIDE DEF Goal
<1>2. ASSUME NEW p \in Postings, PostEvent(c, p) PROVE Goal
  <2>1. Lines(LinesOf(p)) /\ today \in Days
    BY RuleLines DEF EntriesInv
  <2>2. Prepare(c, BookEntry(<<p.rule, p.ref>>, today, LinesOf(p), 0))
    BY <1>2 DEF PostEvent
  <2> QED BY <1>1, <2>1, <2>2
<1>3. ASSUME NEW m \in Manuals, NEW d \in Days, PostManual(c, m, d) PROVE Goal
  <2> DEFINE lines == Dr(m.debit, m.amount) ++ Cr(m.credit, m.amount)
  <2>1. m.debit \in Accounts /\ m.credit \in Accounts /\ m.amount \in Int
    BY BooksAssumption
  <2>2. Lines(lines)
    BY <2>1, LineOK, LinesMerged
  <2>3. Prepare(c, BookEntry(<<"ledger.manual_entry", m.ref>>, d, lines, 0))
    BY <1>3 DEF PostManual
  <2> HIDE DEF lines
  <2> QED BY <1>1, <2>2, <2>3
<1>4. ASSUME NEW i \in DOMAIN entries, NEW d \in Days, PostReversal(c, i, d) PROVE Goal
  <2> DEFINE lines == [a \in DOMAIN entries[i].lines |-> -entries[i].lines[a]]
  <2>1. Lines(lines)
    BY DEF EntriesInv, EntryOK, LinesOK, Lines
  <2>2. Prepare(c, BookEntry(<<"ledger.reversal", c>>, d, lines, i))
    BY <1>4 DEF PostReversal
  <2> HIDE DEF lines
  <2> QED BY <1>1, <2>1, <2>2
<1>5. Goal
  BY <1>2, <1>3, <1>4
<1> QED BY <1>5 DEF Goal

\* The snapshots and the worker rest on the entries only.
LEMMA BalancesStay ==
    ASSUME SnapsInv, WorkerInv, UNCHANGED <<entries, snaps, worker>>
    PROVE  SnapsInv' /\ WorkerInv'
<1>1. entries' = entries /\ snaps' = snaps /\ worker' = worker
  OBVIOUS
<1>2. /\ \A a, d : Kept(a, d)' = Kept(a, d)
      /\ \A a : AmountsOn(a)' = AmountsOn(a)
  BY <1>1 DEF Kept, Missed, AmountsOn
<1>3. SnapsInv'
  BY <1>1, <1>2 DEF SnapsInv
<1>4. WorkerInv'
  <2>1. ASSUME NEW a \in DOMAIN worker.rows, worker.next # 0
        PROVE  RowOK(a, worker.asof, worker.rows[a])'
    <3> DEFINE d == worker.asof
               found == worker.rows[a]
    <3>1. RowOK(a, d, found)
      BY <2>1 DEF WorkerInv
    <3>2. d' = d /\ found' = found
      BY <1>1
    <3> HIDE DEF d, found
    <3>3. RowOK(a, d, found)'
      BY <1>1, <1>2, <3>1, <3>2 DEF RowOK
    <3> QED BY <3>3 DEF d, found
  <2> QED BY <1>1, <2>1 DEF WorkerInv
<1> QED BY <1>3, <1>4

\* A balance that the worker reads is the sum of what is committed.
LEMMA ReadKeeps ==
    ASSUME BalancesInv, SnapRead PROVE BalancesInv'
<1> DEFINE a == CHART[worker.next]
           d == worker.asof
           found == [ value |-> AccountBalance(a, d),
                    of |-> IF d \in DOMAIN snaps[a] THEN snaps[a][d].of
                           ELSE Len(entries) ]
<1> USE DEF BalancesInv
<1>1. /\ UNCHANGED <<today, entries, draft, shut, closing, snaps>>
      /\ worker.next \in DOMAIN CHART
      /\ worker' = [worker EXCEPT !.next = @ + 1, !.rows = Only(a, found) ++ @]
  BY DEF SnapRead
<1>2. DOMAIN CHART = 1..Len(CHART) /\ Len(CHART) \in Nat /\ a \in Accounts
  BY <1>1, BooksAssumption
<1>3. worker.next # 0
  BY <1>1, <1>2
<1>4. d \in Days
  BY <1>3 DEF WorkerInv
<1>5. /\ AccountBalance(a, d) = SumFunctionOnSet(AmountsOn(a), Kept(a, d))
      /\ AccountBalance(a, d) \in Int
  BY <1>2, <1>4, BalanceIs
<1>6. found.value = AccountBalance(a, d)
      /\ found.of = IF d \in DOMAIN snaps[a] THEN snaps[a][d].of ELSE Len(entries)
  OBVIOUS
<1> HIDE DEF a, d, found
<1>7. RowOK(a, d, found)
  <2>1. Len(entries) \in Nat /\ \A i \in DOMAIN entries : i <= Len(entries)
    BY EntriesFacts
  <2>2. \A s \in DOMAIN snaps[a] :
           /\ snaps[a][s].of \in 0..Len(entries)
           /\ snaps[a][s].value = SumFunctionOnSet(AmountsOn(a), Kept(a, s))
    BY <1>2 DEF SnapsInv
  <2>3. CASE d \in DOMAIN snaps[a]
    BY <1>5, <1>6, <2>2, <2>3 DEF RowOK
  <2>4. CASE d \notin DOMAIN snaps[a]
    <3>1. found.of = Len(entries)
      BY <1>6, <2>4
    <3>2. {i \in Kept(a, d) : i <= found.of} = Kept(a, d)
      BY <2>1, <3>1 DEF Kept
    <3>3. \A s \in DOMAIN snaps[a] : snaps[a][s].of <= found.of
      <4> SUFFICES ASSUME NEW s \in DOMAIN snaps[a] PROVE snaps[a][s].of <= found.of
        OBVIOUS
      <4>1. snaps[a][s].of \in 0..Len(entries)
        BY <2>2
      <4> QED BY <2>1, <3>1, <4>1
    <3>4. found.of \in 0..Len(entries)
      BY <2>1, <3>1
    <3> QED BY <1>5, <1>6, <2>4, <3>2, <3>3, <3>4 DEF RowOK
  <2> QED BY <2>3, <2>4
<1>8. /\ worker' = [next |-> worker.next + 1, asof |-> d,
                    rows |-> Only(a, found) ++ worker.rows, runs |-> worker.runs]
      /\ worker.next + 1 \in 0..(Len(CHART) + 1) /\ worker.runs \in 0..MaxSnapshots
  <2>1. worker = [next |-> worker.next, asof |-> worker.asof,
                  rows |-> worker.rows, runs |-> worker.runs]
        /\ worker.runs \in 0..MaxSnapshots
    BY DEF WorkerInv
  <2> DEFINE rows == Only(a, found) ++ worker.rows
  <2>2. worker' = [worker EXCEPT !.next = worker.next + 1, !.rows = rows]
    BY <1>1
  <2> HIDE DEF rows
  <2>3. worker' = [next |-> worker.next + 1, asof |-> worker.asof,
                   rows |-> rows, runs |-> worker.runs]
    BY <2>1, <2>2
  <2>4. worker.next + 1 \in 0..(Len(CHART) + 1)
    BY <1>1, <1>2
  <2> QED BY <2>1, <2>3, <2>4 DEF rows, d
<1>9. /\ DOMAIN worker'.rows = {a} \cup DOMAIN worker.rows
      /\ worker'.rows[a] = found
      /\ \A x \in DOMAIN worker.rows : x # a => worker'.rows[x] = worker.rows[x]
  BY <1>8 DEF ++, Only
<1>10. \A x \in DOMAIN worker'.rows : x \in Accounts /\ RowOK(x, d, worker'.rows[x])
  BY <1>2, <1>3, <1>7, <1>9 DEF WorkerInv, d
<1>11. /\ \A x, y : Kept(x, y)' = Kept(x, y)
       /\ \A x : AmountsOn(x)' = AmountsOn(x)
       /\ entries' = entries /\ snaps' = snaps
  BY <1>1 DEF Kept, Missed, AmountsOn
<1>12. WorkerInv'
  <2>1. ASSUME NEW x \in DOMAIN worker'.rows
        PROVE  RowOK(x, worker.asof, worker.rows[x])'
    <3> DEFINE read == worker.rows[x]
               day == worker.asof
    <3>1. RowOK(x, d, read')
      BY <1>10
    <3>2. day' = d
      BY <1>8
    <3> HIDE DEF read, day
    <3>3. RowOK(x, day, read)'
      BY <1>11, <3>1, <3>2 DEF RowOK
    <3> QED BY <3>3 DEF read, day
  <2>2. worker'.asof \in Days /\ DOMAIN worker'.rows \subseteq Accounts
    BY <1>4, <1>8, <1>10
  <2>3. /\ worker' = [next |-> worker'.next, asof |-> worker'.asof,
                      rows |-> worker'.rows, runs |-> worker'.runs]
        /\ worker'.next \in 0..(Len(CHART) + 1) /\ worker'.runs \in 0..MaxSnapshots
    BY <1>8
  <2> QED BY <2>1, <2>2, <2>3 DEF WorkerInv
<1>13. EntriesInv' /\ SnapsInv'
  BY <1>1, <1>11 DEF EntriesInv, SnapsInv
<1> QED BY <1>12, <1>13

\* The snapshots of an account when its run commits: the new one takes the
\* place of the same values, or goes at least as far as every other one.
LEMMA RowKeeps ==
    ASSUME BalancesInv, NEW a \in Accounts, NEW d \in Days, NEW found, RowOK(a, d, found),
           UNCHANGED entries, snaps'[a] = Only(d, found) ++ snaps[a]
    PROVE  /\ DOMAIN snaps'[a] \subseteq Days
           /\ \A s \in DOMAIN snaps'[a] :
                /\ snaps'[a][s].value \in Int /\ snaps'[a][s].of \in 0..Len(entries)
                /\ snaps'[a][s].value = SumFunctionOnSet(AmountsOn(a), Kept(a, s)')
<1> USE DEF BalancesInv
<1>1. /\ DOMAIN snaps'[a] = {d} \cup DOMAIN snaps[a]
      /\ snaps'[a][d] = found
      /\ \A s \in DOMAIN snaps[a] : s # d => snaps'[a][s] = snaps[a][s]
  BY DEF ++, Only
<1>2. /\ DOMAIN snaps[a] \subseteq Days
      /\ \A s \in DOMAIN snaps[a] :
           /\ snaps[a][s].value \in Int /\ snaps[a][s].of \in 0..Len(entries)
           /\ snaps[a][s].value = SumFunctionOnSet(AmountsOn(a), Kept(a, s))
  BY DEF SnapsInv
<1>3. /\ \A i \in DOMAIN entries : i \in Nat /\ entries[i].date \in Nat
      /\ Len(entries) \in Nat /\ Days \subseteq Nat /\ entries' = entries
  BY EntriesFacts, DaysFacts
<1>4. \A s \in DOMAIN snaps[a] : s \in Nat /\ snaps[a][s].of \in Nat
  <2>1. 0..Len(entries) \subseteq Nat
    BY <1>3
  <2> QED BY <1>2, <1>3, <2>1
<1>5. found.value \in Int /\ found.of \in Nat /\ found.of \in 0..Len(entries)
  BY <1>3 DEF RowOK
<1>6. CASE d \in DOMAIN snaps[a]
  <2>1. found.value = snaps[a][d].value /\ found.of = snaps[a][d].of
    BY <1>6 DEF RowOK
  <2>2. DOMAIN snaps'[a] = DOMAIN snaps[a]
        /\ \A s \in DOMAIN snaps[a] : snaps'[a][s].value = snaps[a][s].value
                                      /\ snaps'[a][s].of = snaps[a][s].of
    BY <1>1, <1>6, <2>1
  <2>3. \A i, s : Missed(i, a, s)' <=> Missed(i, a, s)
    BY <1>3, <2>2 DEF Missed
  <2>4. \A s : Kept(a, s)' = Kept(a, s)
    BY <1>3, <2>3 DEF Kept
  <2> QED BY <1>2, <2>2, <2>4
<1>7. CASE d \notin DOMAIN snaps[a]
  <2>1. /\ \A s \in DOMAIN snaps[a] : snaps[a][s].of <= found.of
        /\ found.value = SumFunctionOnSet(AmountsOn(a), {i \in Kept(a, d) : i <= found.of})
    BY <1>7 DEF RowOK
  <2>2. \A i, x : Missed(i, a, x)'
                  <=> \/ Missed(i, a, x)
                      \/ d <= x /\ entries[i].date <= d /\ found.of < i
    BY <1>1, <1>3, <1>7 DEF Missed
  <2>3. Kept(a, d)' = {i \in Kept(a, d) : i <= found.of}
    <3>1. \A i \in DOMAIN entries : ~(found.of < i) <=> i <= found.of
      BY <1>3, <1>5
    <3> QED BY <1>3, <2>2, <3>1 DEF Kept
  <2>4. ASSUME NEW s \in DOMAIN snaps[a]
        PROVE  Kept(a, s)' = Kept(a, s)
    <3>1. ASSUME NEW i \in DOMAIN entries, d <= s, entries[i].date <= d, found.of < i
          PROVE  Missed(i, a, s)
      <4>1. s \in Nat /\ snaps[a][s].of \in Nat /\ snaps[a][s].of <= found.of
        BY <1>4, <2>1
      <4>2. entries[i].date <= s /\ snaps[a][s].of < i
        BY <1>3, <1>5, <3>1, <4>1
      <4>3. s <= s
        BY <4>1
      <4> QED BY <4>2, <4>3 DEF Missed
    <3> QED BY <1>3, <2>2, <3>1 DEF Kept
  <2>5. ASSUME NEW s \in DOMAIN snaps[a]
        PROVE  /\ s \in Days
               /\ snaps'[a][s].value \in Int /\ snaps'[a][s].of \in 0..Len(entries)
               /\ snaps'[a][s].value = SumFunctionOnSet(AmountsOn(a), Kept(a, s)')
    BY <1>1, <1>2, <1>7, <2>4
  <2>6. /\ snaps'[a][d].value \in Int /\ snaps'[a][d].of \in 0..Len(entries)
        /\ snaps'[a][d].value = SumFunctionOnSet(AmountsOn(a), Kept(a, d)')
    BY <1>1, <1>5, <2>1, <2>3
  <2> QED BY <1>1, <2>5, <2>6
<1> QED BY <1>6, <1>7

\* A snapshot run that commits.
LEMMA SnapCommitKeeps ==
    ASSUME BalancesInv, SnapCommit PROVE BalancesInv'
<1> USE DEF BalancesInv
<1> DEFINE d == worker.asof
<1>1. /\ UNCHANGED <<today, entries, draft, shut, closing>>
      /\ worker.next = Len(CHART) + 1 /\ worker' = NoSnapRun(worker.runs)
      /\ snaps' = [a \in Accounts |->
                     IF a \in DOMAIN worker.rows THEN Only(d, worker.rows[a]) ++ snaps[a]
                     ELSE snaps[a]]
  BY DEF SnapCommit
<1>2. Len(CHART) \in Nat
  BY BooksAssumption
<1>3. /\ d \in Days /\ \A a \in DOMAIN worker.rows : RowOK(a, d, worker.rows[a])
      /\ worker.runs \in 0..MaxSnapshots
  BY <1>1, <1>2 DEF WorkerInv
<1> HIDE DEF d
<1>4. WorkerInv'
  BY <1>1, <1>2, <1>3 DEF WorkerInv, NoSnapRun
<1>5. EntriesInv'
  BY <1>1 DEF EntriesInv
<1>6. ASSUME NEW a \in Accounts
      PROVE  /\ DOMAIN snaps'[a] \subseteq Days
             /\ \A s \in DOMAIN snaps'[a] :
                  /\ snaps'[a][s].value \in Int /\ snaps'[a][s].of \in 0..Len(entries)
                  /\ snaps'[a][s].value = SumFunctionOnSet(AmountsOn(a), Kept(a, s)')
  <2>1. CASE a \in DOMAIN worker.rows
    <3> DEFINE found == worker.rows[a]
    <3>1. RowOK(a, d, found) /\ snaps'[a] = Only(d, found) ++ snaps[a]
      BY <1>1, <1>3, <2>1
    <3> HIDE DEF found
    <3> QED BY <1>1, <1>3, <3>1, RowKeeps
  <2>2. CASE a \notin DOMAIN worker.rows
    <3>1. snaps'[a] = snaps[a] /\ entries' = entries
      BY <1>1, <2>2
    <3>2. \A s : Kept(a, s)' = Kept(a, s)
      BY <3>1 DEF Kept, Missed
    <3> QED BY <3>1, <3>2 DEF SnapsInv
  <2> QED BY <2>1, <2>2
<1>7. \A a : AmountsOn(a)' = AmountsOn(a)
  BY <1>1 DEF AmountsOn
<1>8. snaps' = [a \in Accounts |-> snaps'[a]] /\ entries' = entries
  BY <1>1
<1>9. SnapsInv'
  BY <1>6, <1>7, <1>8 DEF SnapsInv
<1> QED BY <1>4, <1>5, <1>9

\* Every step of the books keeps the balances exact.
LEMMA BalancesKept == BalancesInv /\ [BooksNext]_booksVars => BalancesInv'
<1> SUFFICES ASSUME BalancesInv, [BooksNext]_booksVars PROVE BalancesInv'
  OBVIOUS
<1> USE DEF BalancesInv
<1>1. ASSUME UNCHANGED <<entries, snaps, worker>>, EntriesInv' PROVE BalancesInv'
  BY <1>1, BalancesStay
<1>2. ASSUME NEW c \in Clerks,
             \/ \E p \in Postings : PostEvent(c, p)
             \/ \E m \in Manuals, d \in Days : PostManual(c, m, d)
             \/ \E i \in DOMAIN entries, d \in Days : PostReversal(c, i, d)
      PROVE  BalancesInv'
  <2>1. PICK e : /\ draft' = [draft EXCEPT ![c] = e] /\ EntryOK(e)
                 /\ UNCHANGED <<today, entries, shut, closing, snaps, worker>>
    BY <1>2, PreparedOK
  <2>2. EntriesInv'
    BY <2>1 DEF EntriesInv
  <2> QED BY <1>1, <2>1, <2>2
<1>3. ASSUME NEW c \in Clerks, PostRollback(c) PROVE BalancesInv'
  <2>1. EntriesInv'
    BY <1>3 DEF PostRollback, EntriesInv
  <2> QED BY <1>1, <1>3, <2>1 DEF PostRollback
<1>4. ASSUME NEW c \in Clerks, PostCommit(c) PROVE BalancesInv'
  <2>1. EntryOK(draft[c])
    BY <1>4 DEF PostCommit, EntriesInv
  <2>2. /\ \E S : entries' \in Seq(S)
        /\ \A i \in DOMAIN entries' : EntryOK(entries'[i])
        /\ SnapsInv' /\ WorkerInv'
    BY <1>4, <2>1, AppendKeeps DEF PostCommit
  <2>3. EntriesInv'
    BY <1>4, <2>2 DEF PostCommit, EntriesInv
  <2> QED BY <2>2, <2>3
<1>5. CASE CloseCommit
  <2>1. EntryOK(closing.entry)
    BY <1>5 DEF CloseCommit, EntriesInv
  <2>2. /\ \E S : entries' \in Seq(S)
        /\ \A i \in DOMAIN entries' : EntryOK(entries'[i])
        /\ SnapsInv' /\ WorkerInv'
    BY <1>5, <2>1, AppendKeeps DEF CloseCommit
  <2>3. closing.month \in Closed
        /\ closing' = [month |-> closing.month, at |-> "mark", entry |-> NoClerk]
        /\ UNCHANGED <<today, draft, shut>>
    BY <1>5 DEF CloseCommit, EntriesInv
  <2>4. EntriesInv'
    BY <2>2, <2>3 DEF EntriesInv
  <2> QED BY <2>2, <2>4
<1>6. ASSUME NEW m \in Closed, CloseBegin(m) PROVE BalancesInv'
  <2>1. EntriesInv'
    BY <1>6 DEF CloseBegin, EntriesInv
  <2> QED BY <1>1, <1>6, <2>1 DEF CloseBegin
<1>7. ASSUME NEW m \in Closed, CloseDraft(m) PROVE BalancesInv'
  <2> DEFINE e == BookEntry(ClosingSource(m), LastDay(m), ClosingLines(m), 0)
  <2>1. e.date = LastDay(m) /\ e.lines = ClosingLines(m)
    BY DEF BookEntry
  <2>2. closing' = [month |-> m, at |-> "post", entry |-> e]
        /\ UNCHANGED <<today, entries, draft, shut, snaps, worker>>
    BY <1>7 DEF CloseDraft
  <2> HIDE DEF e
  <2>3. EntryOK(e)
    BY <2>1, ClosingOK DEF EntryOK
  <2>4. EntriesInv'
    BY <2>2, <2>3 DEF EntriesInv
  <2> QED BY <1>1, <2>2, <2>4
<1>8. CASE CloseMark \/ CloseDies
  <2>1. EntriesInv'
    BY <1>8 DEF CloseMark, CloseDies, NotClosing, EntriesInv
  <2> QED BY <1>1, <1>8, <2>1 DEF CloseMark, CloseDies
<1>9. ASSUME NEW m \in Closed, Reopen(m) PROVE BalancesInv'
  <2>1. EntriesInv'
    BY <1>9 DEF Reopen, EntriesInv
  <2> QED BY <1>1, <1>9, <2>1 DEF Reopen
<1>10. CASE DayPasses
  <2>1. today' \in Days
    BY <1>10, DaysFacts DEF DayPasses, EntriesInv
  <2>2. EntriesInv'
    BY <1>10, <2>1 DEF DayPasses, EntriesInv
  <2> QED BY <1>1, <1>10, <2>2 DEF DayPasses
<1>11. ASSUME UNCHANGED <<today, entries, draft, shut, closing, snaps>>,
              \/ worker' = NoSnapRun(worker.runs)
              \/ \E d \in Days : SnapStart(d)
       PROVE  BalancesInv'
  <2>1. Len(CHART) \in Nat /\ MaxSnapshots \in Nat
    BY BooksAssumption
  <2>2. WorkerInv'
    <3>1. CASE worker' = NoSnapRun(worker.runs)
      BY <2>1, <3>1 DEF NoSnapRun, WorkerInv
    <3>2. ASSUME NEW d \in Days, SnapStart(d) PROVE WorkerInv'
      <4>1. worker' = [next |-> 1, asof |-> d, rows |-> << >>, runs |-> worker.runs + 1]
            /\ worker.runs + 1 \in 0..MaxSnapshots /\ DOMAIN << >> = {}
        BY <2>1, <3>2, EmptySeq DEF SnapStart, WorkerInv
      <4> QED BY <2>1, <4>1 DEF WorkerInv
    <3> QED BY <1>11, <3>1, <3>2
  <2>3. /\ \A a, d : Kept(a, d)' = Kept(a, d)
        /\ \A a : AmountsOn(a)' = AmountsOn(a)
        /\ entries' = entries /\ snaps' = snaps
    BY <1>11 DEF Kept, Missed, AmountsOn
  <2> QED BY <1>11, <2>2, <2>3 DEF EntriesInv, SnapsInv
<1>12. CASE SnapDies
  BY <1>11, <1>12 DEF SnapDies
<1>13. ASSUME NEW d \in Days, SnapStart(d) PROVE BalancesInv'
  BY <1>11, <1>13 DEF SnapStart
<1>14. CASE UNCHANGED booksVars
  <2>1. EntriesInv'
    BY <1>14 DEF booksVars, EntriesInv
  <2> QED BY <1>1, <1>14, <2>1 DEF booksVars
<1>15. \/ UNCHANGED booksVars \/ CloseCommit \/ CloseMark \/ CloseDies
       \/ SnapRead \/ SnapCommit \/ SnapDies \/ DayPasses
       \/ \E d \in Days : SnapStart(d)
       \/ \E m \in Closed : CloseBegin(m) \/ CloseDraft(m) \/ Reopen(m)
       \/ \E c \in Clerks :
            \/ PostCommit(c) \/ PostRollback(c)
            \/ \E p \in Postings : PostEvent(c, p)
            \/ \E m \in Manuals, d \in Days : PostManual(c, m, d)
            \/ \E i \in DOMAIN entries, d \in Days : PostReversal(c, i, d)
  BY Zenon DEF BooksNext
<1> QED BY <1>2, <1>3, <1>4, <1>5, <1>6, <1>7, <1>8, <1>9, <1>10, <1>12, <1>13, <1>14,
           <1>15, ReadKeeps, SnapCommitKeeps

\* Empty books.
LEMMA BalancesInit == BooksInit => BalancesInv
<1> SUFFICES ASSUME BooksInit PROVE BalancesInv
  OBVIOUS
<1> USE DEF BooksInit
<1>1. entries \in Seq({}) /\ DOMAIN entries = {} /\ DOMAIN << >> = {}
  BY EmptySeq
<1>2. EntriesInv
  BY <1>1, DaysFacts DEF EntriesInv, NotClosing
<1>3. SnapsInv
  BY <1>1 DEF SnapsInv
<1>4. WorkerInv
  BY <1>1, BooksAssumption DEF WorkerInv, NoSnapRun
<1> QED BY <1>2, <1>3, <1>4 DEF BalancesInv

\* What the trial balance reads is what the snapshots stand for.
LEMMA BalancesExact == BalancesInv => BalanceIsExact
<1> SUFFICES ASSUME BalancesInv, NEW d \in Days, NEW a \in InUse
             PROVE  TrialBalance(d)[a] =
                       SumFunctionOnSet(AmountsOn(a),
                           {i \in DOMAIN entries :
                               entries[i].date <= d /\ ~Missed(i, a, d)})
  BY DEF BalanceIsExact
<1>1. \A i \in DOMAIN entries : DOMAIN entries[i].lines \subseteq Accounts
  BY DEF BalancesInv, EntriesInv, EntryOK, LinesOK
<1>2. a \in Accounts
  BY <1>1 DEF InUse
<1>3. TrialBalance(d)[a] = AccountBalance(a, d)
  BY DEF TrialBalance
<1> QED BY <1>2, <1>3, BalanceIs DEF BalancesInv, Kept

\* Every balance is the sum of the entries up to its day, but for those that a
\* snapshot came too early for, in whatever order entries, snapshot runs and
\* closings interleave (balance_service.py:220-275, 324-358).
THEOREM BalancesAreExact == BooksSpec => []BalanceIsExact
<1> QED BY BalancesInit, BalancesKept, BalancesExact, PTL DEF BooksSpec

\* The lines of an entry, over all accounts, come to nothing.
LEMMA EntryFoots ==
    ASSUME NEW e, EntryOK(e)
    PROVE  SumFunctionOnSet([a \in Accounts |-> AmountOn(a, e)], Accounts) = 0
<1> DEFINE F == [a \in Accounts |-> AmountOn(a, e)]
           D == DOMAIN e.lines
<1>1. D \subseteq Accounts /\ \A a \in D : e.lines[a] \in Int
  BY DEF EntryOK, LinesOK
<1>2. IsFiniteSet(D)
  BY <1>1, AccountsFinite, FS_Subset
<1>3. SumFunctionOnSet(e.lines, D) = 0
  BY DEF EntryOK, LinesOK, Balanced, SumFunction
<1>4. /\ \A a \in Accounts : F[a] \in Int
      /\ \A a \in D : F[a] = e.lines[a]
      /\ \A a \in Accounts \ D : F[a] = 0
  BY <1>1 DEF AmountOn
<1> HIDE DEF F, D
<1>5. SumFunctionOnSet(F, Accounts) = SumFunctionOnSet(F, D)
  BY <1>1, <1>4, AccountsFinite, SumPart
<1>6. SumFunctionOnSet(F, D) = SumFunctionOnSet(e.lines, D)
  BY <1>2, <1>4, SumEqual
<1> QED BY <1>3, <1>5, <1>6 DEF F

\* What is posted to the accounts on some days comes to nothing.
PostingsFoot ==
    \A range \in SUBSET Days :
        SumFunctionOnSet([a \in Accounts |-> Posted(a, range)], Accounts) = 0

\* By accounts or by entries, the sum is the same, and each entry has none.
LEMMA EntriesFoot == BalancesInv => PostingsFoot
<1> SUFFICES ASSUME BalancesInv, NEW range \in SUBSET Days
             PROVE  SumFunctionOnSet([a \in Accounts |-> Posted(a, range)], Accounts) = 0
  BY DEF PostingsFoot
<1> DEFINE D == {i \in DOMAIN entries : entries[i].date \in range}
           P == [a \in Accounts |-> Posted(a, range)]
           F == [a \in Accounts |-> AmountsOn(a)]
           G == [i \in D |-> [a \in Accounts |-> AmountOn(a, entries[i])]]
           C == [i \in D |-> SumFunctionOnSet(G[i], Accounts)]
<1>1. EntriesInv /\ \A i \in DOMAIN entries : EntryOK(entries[i])
  BY DEF BalancesInv, EntriesInv
<1>2. IsFiniteSet(D) /\ D \subseteq DOMAIN entries
  BY <1>1, EntriesFacts, FS_Subset
<1>3. \A a \in Accounts, i \in D : F[a][i] \in Int /\ G[i][a] = F[a][i]
  BY <1>1, EntriesFacts DEF AmountsOn
<1>4. \A a \in Accounts : P[a] = SumFunctionOnSet(F[a], D)
  BY DEF Posted
<1>5. \A i \in D : C[i] = SumFunctionOnSet(G[i], Accounts) /\ C[i] = 0
  BY <1>1, <1>2, EntryFoots
<1> HIDE DEF P, F, G, C, D
<1>6. SumFunctionOnSet(P, Accounts) = SumFunctionOnSet(C, D)
  <2>1. Table(F, G, P, C, Accounts, D)
    BY <1>2, <1>3, <1>4, <1>5, AccountsFinite DEF Table
  <2> QED BY <2>1, SumSwap
<1>7. SumFunctionOnSet(C, D) = 0
  BY <1>2, <1>5, SumZero
<1>8. SumFunctionOnSet(P, Accounts) = 0
  BY <1>6, <1>7
<1> QED BY <1>8 DEF P

\* Double entry: whatever the events, manual entries, reversals and closings
\* post on some days, the accounts' totals over those days come to nothing
\* (accounting_service.py:1025-1108).
THEOREM DoubleEntry == BooksSpec => []PostingsFoot
<1> QED BY BalancesInit, BalancesKept, EntriesFoot, PTL DEF BooksSpec

\* The journal of the books, as JournalOnce counts it.
EntriesOf(source) == {i \in DOMAIN entries : entries[i].source = source}

BooksJournal ==
    INSTANCE JournalOnce WITH
        Events <- Sources,
        book <- [s \in Sources |-> Cardinality(EntriesOf(s))]

\* What may still be committed has one of the sources.
SourcesKnown ==
    /\ \A c \in Clerks : draft[c] # NoClerk => draft[c].source \in Sources
    /\ closing.at = "post" => closing.entry.source \in Sources

LEMMA KnownKept == SourcesInv /\ SourcesKnown /\ [BooksNext]_booksVars => SourcesKnown'
<1> SUFFICES ASSUME SourcesInv, SourcesKnown, [BooksNext]_booksVars PROVE SourcesKnown'
  OBVIOUS
<1>1. ASSUME NEW c \in Clerks, NEW e, draft' = [draft EXCEPT ![c] = e],
             e # NoClerk => e.source \in Sources, closing' = closing
      PROVE  SourcesKnown'
  BY <1>1 DEF SourcesInv, SourcesKnown
<1>2. ASSUME NEW c \in Clerks,
             \/ \E p \in Postings : PostEvent(c, p)
             \/ \E m \in Manuals, d \in Days : PostManual(c, m, d)
             \/ \E i \in DOMAIN entries, d \in Days : PostReversal(c, i, d)
      PROVE  SourcesKnown'
  BY <1>1, <1>2, PreparedOpen DEF Sources
<1>3. ASSUME NEW c \in Clerks, PostCommit(c) \/ PostRollback(c)
      PROVE  SourcesKnown'
  BY <1>1, <1>3 DEF PostCommit, PostRollback
<1>4. ASSUME NEW m \in Closed, CloseDraft(m)
      PROVE  SourcesKnown'
  <2> DEFINE e == BookEntry(ClosingSource(m), LastDay(m), ClosingLines(m), 0)
  <2>1. e.source \in Sources
    BY DEF BookEntry, Sources
  <2>2. closing' = [month |-> m, at |-> "post", entry |-> e] /\ draft' = draft
    BY <1>4 DEF CloseDraft
  <2> HIDE DEF e
  <2> QED BY <2>1, <2>2 DEF SourcesKnown
<1>5. ASSUME closing'.at # "post", draft' = draft
      PROVE  SourcesKnown'
  BY <1>5 DEF SourcesKnown
<1>6. ASSUME NEW m \in Closed, CloseBegin(m)
      PROVE  SourcesKnown'
  BY <1>5, <1>6 DEF CloseBegin
<1>7. CASE CloseCommit \/ CloseMark \/ CloseDies
  <2>1. CASE CloseCommit
    BY <1>5, <2>1 DEF CloseCommit, SourcesInv
  <2> QED BY <1>5, <1>7, <2>1 DEF CloseMark, CloseDies, NotClosing
<1>8. CASE UNCHANGED <<draft, closing>>
  BY <1>8 DEF SourcesKnown
<1> QED BY <1>2, <1>3, <1>4, <1>6, <1>7, <1>8 DEF BooksNext, booksVars, Reopen,
           SnapStart, SnapRead, SnapCommit, SnapDies, DayPasses

\* An entry with a source that has none is a step of JournalOnce.
LEMMA AppendPosts ==
    ASSUME \E S : entries \in Seq(S), NEW e, e.source \in Sources,
           ~Recorded(e.source), entries' = Append(entries, e)
    PROVE  BooksJournal!Next
<1> DEFINE count == [s \in Sources |-> Cardinality(EntriesOf(s))]
           new == Len(entries) + 1
<1>1. /\ DOMAIN entries' = DOMAIN entries \cup {new}
      /\ \A i \in DOMAIN entries : entries'[i] = entries[i]
      /\ entries'[new] = e
  BY Appended
<1> HIDE DEF new
<1>2. EntriesOf(e.source) = {} /\ EntriesOf(e.source)' = {new}
  BY <1>1 DEF EntriesOf, Recorded
<1>3. \A s \in Sources : s # e.source => EntriesOf(s)' = EntriesOf(s)
  BY <1>1 DEF EntriesOf
<1>4. count[e.source] = 0 /\ Cardinality(EntriesOf(e.source)') = 1
  BY <1>2, FS_EmptySet, FS_Singleton
<1>5. count' = [count EXCEPT ![e.source] = 1]
  BY <1>3, <1>4
<1>6. BooksJournal!Post(e.source)
  BY <1>4, <1>5 DEF BooksJournal!Post
<1> QED BY <1>6 DEF BooksJournal!Next

\* The books implement JournalOnce, for events, manual entries, reversals and
\* closings alike: an entry is made once for its source and stays, also when
\* a close dies after its commit and is repeated or its month is reopened
\* (accounting_service.py:1025-1108).
THEOREM BooksRefined == BooksSpec => BooksJournal!Spec
<1>1. BooksInit => SourcesKnown /\ BooksJournal!Init
  <2> SUFFICES ASSUME BooksInit PROVE SourcesKnown /\ BooksJournal!Init
    OBVIOUS
  <2>1. \A s : EntriesOf(s) = {}
    BY DEF BooksInit, EntriesOf
  <2>2. BooksJournal!Init
    BY <2>1, FS_EmptySet DEF BooksJournal!Init
  <2> QED BY <2>2 DEF BooksInit, SourcesKnown, NotClosing
<1>2. SourcesInv /\ SourcesKnown /\ [BooksNext]_booksVars
        => [BooksJournal!Next]_([s \in Sources |-> Cardinality(EntriesOf(s))])
  <2> SUFFICES ASSUME SourcesInv, SourcesKnown, [BooksNext]_booksVars,
                      ~UNCHANGED entries
               PROVE  BooksJournal!Next
    BY DEF EntriesOf
  <2>1. CloseCommit \/ \E c \in Clerks : PostCommit(c)
    BY DEF BooksNext, booksVars, PostEvent, PostManual, PostReversal, Prepare,
           PostRollback, CloseBegin, CloseDraft, CloseMark, CloseDies, Reopen,
           SnapStart, SnapRead, SnapCommit, SnapDies, DayPasses
  <2>2. CASE CloseCommit
    BY <2>2, AppendPosts DEF CloseCommit, SourcesInv, SourcesKnown
  <2>3. ASSUME NEW c \in Clerks, PostCommit(c) PROVE BooksJournal!Next
    BY <2>3, AppendPosts DEF PostCommit, SourcesInv, SourcesKnown
  <2> QED BY <2>1, <2>2, <2>3
<1> QED BY <1>1, <1>2, SourcesInit, SourcesKept, KnownKept, PTL
        DEF BooksSpec, BooksJournal!Spec

\* The two invariants hold the types.
LEMMA BooksTyped == BalancesInv /\ SourcesInv => BooksTypeOK
BY DEF BalancesInv, EntriesInv, SnapsInv, WorkerInv, SourcesInv, BooksTypeOK,
       EntryOK, LinesOK

\* The books' state is what the tables may hold: balanced entries of days of
\* the calendar, one for each source, closed months of those that are closed
\* (accounting_service.py:1025-1108).
THEOREM BooksTypeCorrect == BooksSpec => []BooksTypeOK
<1> QED BY BalancesInit, BalancesKept, SourcesInit, SourcesKept, BooksTyped, PTL DEF BooksSpec

\* The delivery and the books side by side.
THEOREM LedgerTypeCorrect == LedgerSpec => []LedgerTypeOK
<1> DEFINE Inv == TypeOK /\ BalancesInv /\ SourcesInv
<1>1. LedgerInit => Inv
  BY TypeInit, BalancesInit, SourcesInit DEF LedgerInit
<1>2. Inv /\ [LedgerNext]_ledgerVars => Inv'
  <2>1. [LedgerNext]_ledgerVars => [Next]_vars /\ [BooksNext]_booksVars
    BY DEF LedgerNext, DeliveryMoves, BooksMoves, ledgerVars
  <2> QED BY <2>1, TypeKept, BalancesKept, SourcesKept
<1>3. Inv => LedgerTypeOK
  BY BooksTyped DEF LedgerTypeOK
<1> HIDE DEF Inv
<1> QED BY <1>1, <1>2, <1>3, PTL DEF LedgerSpec
=============================================================================
