--------------------------- MODULE EventDelivery ---------------------------
(***************************************************************************)
(* The way of an event from the payment orchestrator's outbox table to the *)
(* ledger's journal.                                                       *)
(*                                                                         *)
(* OutboxPublisher copies rows to a Redis stream and stream entries to a   *)
(* pub/sub channel; every replica of the ledger service that is subscribed *)
(* at that moment receives a copy and posts it; what fails is appended to  *)
(* a dead-letter file, which DLQConsumer publishes again or archives.      *)
(* A step ends where the code awaits Redis or the database.                *)
(***************************************************************************)
EXTENDS Naturals, Sequences, FiniteSets

CONSTANTS
    Events,           \* rows of outbox_events, each with its own source id
    NoEvent,          \* a listener that processes nothing
    Refusable,        \* events the ledger may refuse at each delivery
    Publishers,       \* OutboxPublisher processes
    Listeners,        \* ledger-service replicas
    OUTBOX_RETRIES,   \* retry_count at which a row is given up (5)
    LISTENER_RETRIES, \* max_retries of _run_with_retry (3)
    DLQ_MAX_RETRIES,  \* settings.dlq_max_retries (3)
    MaxStream,        \* entries the stream ever holds (a bound)
    MaxFaults         \* crashes, refused calls and disconnections (a bound)

ASSUME DeliveryAssumption ==
    /\ NoEvent \notin Events /\ Refusable \subseteq Events
    /\ {OUTBOX_RETRIES, LISTENER_RETRIES, DLQ_MAX_RETRIES} \subseteq Nat
    /\ {MaxStream, MaxFaults} \subseteq Nat

VARIABLES
    row,      \* status and retry_count of each outbox row
    pub,      \* the loop of each publisher
    stream,   \* OUTBOX_STREAM_KEY with its pending-entries list
    conn,     \* which listeners are subscribed
    inbox,    \* events a listener has been sent and not taken
    job,      \* the event a listener is processing
    book,     \* journal entries per source id
    file,     \* the distinct lines of event_dlq.jsonl
    dlq,      \* the run of DLQConsumer
    archive,  \* events in a dlq_exhausted file
    faults

vars == <<row, pub, stream, conn, inbox, job, book, file, dlq, archive, faults>>
ledger == <<conn, inbox, job, book, file>>

Idle == [at |-> "idle", todo |-> {}, added |-> {}, refused |-> {},
         ids |-> {}]
Loop == [at : {"idle", "outbox", "take", "deliver", "sent"},
         todo : SUBSET Events, added : SUBSET Events,
         refused : SUBSET Events, ids : SUBSET Nat]
Entry == [ev : Events, at : {"new", "held", "acked"}]
Row == [at : {"pending", "published"}, try : Nat]
NoRun == [at |-> "idle", batch |-> {}, kept |-> {}]
NoJob == [at |-> "idle", ev |-> NoEvent, try |-> 0]
Job == [at : {"check", "insert"}, ev : Events, try : Nat]
Letters == SUBSET [ev : Events, try : Nat]
Run == [at : {"idle", "retry"}, batch : Letters, kept : Letters]

TypeOK ==
    /\ row \in [Events -> Row]
    /\ pub \in [Publishers -> Loop]
    /\ stream \in Seq(Entry)
    /\ \A w \in Publishers : pub[w].ids \subseteq DOMAIN stream
    /\ conn \subseteq Listeners
    /\ inbox \in [Listeners -> SUBSET Events]
    /\ job \in [Listeners -> {NoJob} \cup Job]
    /\ book \in [Events -> Nat]
    /\ file \in Letters
    /\ dlq \in Run
    /\ archive \subseteq Events
    /\ faults \in Nat

Init ==
    /\ row = [e \in Events |-> [at |-> "pending", try |-> 0]]
    /\ pub = [w \in Publishers |-> Idle]
    /\ stream = <<>>
    /\ conn = Listeners
    /\ inbox = [l \in Listeners |-> {}]
    /\ job = [l \in Listeners |-> NoJob]
    /\ book = [e \in Events |-> 0]
    /\ file = {}
    /\ dlq = NoRun
    /\ archive = {}
    /\ faults = 0

----------------------------------------------------------------------------
Fault == faults < MaxFaults /\ faults' = faults + 1

\* redis.publish: a copy for whoever is subscribed now, and for nobody else.
Broadcast(e) ==
    inbox' = [l \in Listeners |->
                IF l \in conn THEN inbox[l] \cup {e} ELSE inbox[l]]

----------------------------------------------------------------------------
(* OutboxPublisher.process_outbox                                          *)

Locked == UNION {pub[w].todo \cup pub[w].added \cup pub[w].refused :
                    w \in Publishers}

\* SELECT ... FOR UPDATE SKIP LOCKED
OutboxSelect(w) ==
    /\ pub[w].at = "idle"
    /\ pub' = [pub EXCEPT ![w].at = "outbox",
                 ![w].todo = {e \in Events \ Locked :
                    row[e].at = "pending" /\ row[e].try < OUTBOX_RETRIES}]
    /\ UNCHANGED <<row, stream, ledger, dlq, archive, faults>>

XAdd(w, e) ==
    /\ e \in pub[w].todo /\ Len(stream) < MaxStream
    /\ stream' = Append(stream, [ev |-> e, at |-> "new"])
    /\ pub' = [pub EXCEPT ![w].todo = @ \ {e}, ![w].added = @ \cup {e}]
    /\ UNCHANGED <<row, ledger, dlq, archive, faults>>

XAddFail(w, e) ==
    /\ e \in pub[w].todo
    /\ Fault
    /\ pub' = [pub EXCEPT ![w].todo = @ \ {e}, ![w].refused = @ \cup {e}]
    /\ UNCHANGED <<row, stream, ledger, dlq, archive>>

\* Seeded fault: mark_published whatever became of the XADD.
OutboxCommitAll(w) ==
    /\ pub[w].at = "outbox" /\ pub[w].todo = {}
    /\ row' = [e \in Events |->
                 IF e \in pub[w].added \cup pub[w].refused
                 THEN [row[e] EXCEPT !.at = "published"] ELSE row[e]]
    /\ pub' = [pub EXCEPT ![w] = [Idle EXCEPT !.at = "take"]]
    /\ UNCHANGED <<stream, ledger, dlq, archive, faults>>

\* mark_published or mark_failed for each row, in one commit.
OutboxCommit(w) ==
    /\ pub[w].at = "outbox" /\ pub[w].todo = {}
    /\ row' = [e \in Events |->
                 IF e \in pub[w].added THEN [row[e] EXCEPT !.at = "published"]
                 ELSE IF e \in pub[w].refused THEN [row[e] EXCEPT !.try = @ + 1]
                 ELSE row[e]]
    /\ pub' = [pub EXCEPT ![w] = [Idle EXCEPT !.at = "take"]]
    /\ UNCHANGED <<stream, ledger, dlq, archive, faults>>

\* The process dies, or the commit fails: rows are rolled back, the stream
\* is not.
PublisherCrash(w) ==
    /\ pub[w].at # "idle"
    /\ Fault
    /\ pub' = [pub EXCEPT ![w] = Idle]
    /\ UNCHANGED <<row, stream, ledger, dlq, archive>>

----------------------------------------------------------------------------
(* OutboxPublisher.deliver_stream_events                                   *)

Entries(at) == {i \in DOMAIN stream : stream[i].at = at}

Take(w, S) ==
    /\ pub[w].at = "take"
    /\ stream' = [i \in DOMAIN stream |->
                    IF i \in S THEN [stream[i] EXCEPT !.at = "held"]
                               ELSE stream[i]]
    /\ pub' = [pub EXCEPT ![w].at = "deliver", ![w].ids = S]
    /\ UNCHANGED <<row, ledger, dlq, archive, faults>>

\* Seeded fault: no XAUTOCLAIM.
StreamTakeNew(w) == Take(w, Entries("new"))

\* XAUTOCLAIM of entries that have been held long enough, whoever holds
\* them, and XREADGROUP of the new ones.
StreamTake(w) ==
    \E idle \in SUBSET Entries("held") : Take(w, idle \cup Entries("new"))

\* Entries are delivered in stream order.
First(w) == {i \in pub[w].ids : \A j \in pub[w].ids : i <= j}

StreamPublish(w, i) ==
    /\ pub[w].at = "deliver" /\ i \in First(w)
    /\ Broadcast(stream[i].ev)
    /\ pub' = [pub EXCEPT ![w].at = "sent"]
    /\ UNCHANGED <<row, stream, conn, job, book, file, dlq, archive, faults>>

\* Seeded fault: acknowledged entries are trimmed while others are held.
StreamAckTrim(w, i) ==
    /\ pub[w].at = "sent" /\ i \in First(w)
    /\ stream' = SubSeq(stream, i + 1, Len(stream))
    /\ pub' = [pub EXCEPT ![w].at = "deliver", ![w].ids = @ \ {i}]
    /\ UNCHANGED <<row, ledger, dlq, archive, faults>>

StreamAck(w, i) ==
    /\ pub[w].at = "sent" /\ i \in First(w)
    /\ stream' = [stream EXCEPT ![i].at = "acked"]
    /\ pub' = [pub EXCEPT ![w].at = "deliver", ![w].ids = @ \ {i}]
    /\ UNCHANGED <<row, ledger, dlq, archive, faults>>

\* PUBLISH or XACK raises: the entry stays in the pending-entries list.
StreamError(w, i) ==
    /\ pub[w].at \in {"deliver", "sent"} /\ i \in First(w)
    /\ Fault
    /\ pub' = [pub EXCEPT ![w].at = "deliver", ![w].ids = @ \ {i}]
    /\ UNCHANGED <<row, stream, ledger, dlq, archive>>

StreamDone(w) ==
    /\ pub[w].at = "deliver" /\ pub[w].ids = {}
    /\ pub' = [pub EXCEPT ![w] = Idle]
    /\ UNCHANGED <<row, stream, ledger, dlq, archive, faults>>

----------------------------------------------------------------------------
(* run_ledger_event_listener, _run_with_retry and _create_balanced_entry   *)

Work(l) == job[l].ev
Letter(l) == [ev |-> Work(l), try |-> job[l].try]
Ready(l) == job' = [job EXCEPT ![l] = NoJob]

ListenTake(l, e) ==
    /\ job[l].at = "idle" /\ e \in inbox[l]
    /\ job' = [job EXCEPT ![l] = [at |-> "check", ev |-> e, try |-> 0]]
    /\ inbox' = [inbox EXCEPT ![l] = @ \ {e}]
    /\ UNCHANGED <<row, pub, stream, conn, book, file, dlq, archive, faults>>

\* Seeded fault: the look for an existing entry is dropped.
ListenCheckNothing(l) ==
    /\ job[l].at = "check"
    /\ job' = [job EXCEPT ![l].at = "insert"]
    /\ UNCHANGED <<row, pub, stream, conn, inbox, book, file, dlq, archive,
                   faults>>

\* The look for an existing entry with this source_type and source_id.
ListenCheck(l) ==
    /\ job[l].at = "check"
    /\ \/ book[Work(l)] > 0 /\ Ready(l)
       \/ book[Work(l)] = 0 /\ job' = [job EXCEPT ![l].at = "insert"]
    /\ UNCHANGED <<row, pub, stream, conn, inbox, book, file, dlq, archive,
                   faults>>

\* ValueError or LookupError, for a content the ledger cannot post or while
\* the period is closed: not transient, so no retry here.  The letter starts
\* with the count of this delivery, and nothing bounds how often a replayed
\* event is refused again.
ListenRefuse(l) ==
    /\ job[l].at = "check" /\ book[Work(l)] = 0
    /\ Work(l) \in Refusable
    /\ file' = file \cup {Letter(l)}
    /\ Ready(l)
    /\ UNCHANGED <<row, pub, stream, conn, inbox, book, dlq, archive, faults>>

\* Seeded fault: the table has no unique constraint.
ListenInsertTwice(l) ==
    /\ job[l].at = "insert"
    /\ book' = [book EXCEPT ![Work(l)] = @ + 1]
    /\ Ready(l)
    /\ UNCHANGED <<row, pub, stream, conn, inbox, file, dlq, archive, faults>>

\* flush and commit; UniqueConstraint(source_type, source_id).
ListenInsert(l) ==
    /\ job[l].at = "insert"
    /\ book[Work(l)] = 0
    /\ book' = [book EXCEPT ![Work(l)] = @ + 1]
    /\ Ready(l)
    /\ UNCHANGED <<row, pub, stream, conn, inbox, file, dlq, archive, faults>>

\* The other replica was faster: IntegrityError, not transient.
ListenConflict(l) ==
    /\ job[l].at = "insert" /\ book[Work(l)] > 0
    /\ file' = file \cup {Letter(l)}
    /\ Ready(l)
    /\ UNCHANGED <<row, pub, stream, conn, inbox, book, dlq, archive, faults>>

\* A connection error: again from the start, up to LISTENER_RETRIES times.
ListenRetry(l) ==
    /\ job[l].at # "idle" /\ job[l].try < LISTENER_RETRIES
    /\ Fault
    /\ job' = [job EXCEPT ![l].at = "check", ![l].try = @ + 1]
    /\ UNCHANGED <<row, pub, stream, conn, inbox, book, file, dlq, archive>>

ListenGiveUp(l) ==
    /\ job[l].at # "idle" /\ job[l].try = LISTENER_RETRIES
    /\ Fault
    /\ file' \in {file, file \cup {Letter(l)}}
    /\ Ready(l)
    /\ UNCHANGED <<row, pub, stream, conn, inbox, book, dlq, archive>>

\* The task or the process dies: subscription, buffer and job are gone.
ListenDrop(l) ==
    /\ l \in conn
    /\ Fault
    /\ conn' = conn \ {l}
    /\ inbox' = [inbox EXCEPT ![l] = {}]
    /\ Ready(l)
    /\ UNCHANGED <<row, pub, stream, book, file, dlq, archive>>

\* _watch_listener starts it again.
ListenRestart(l) ==
    /\ l \notin conn
    /\ conn' = conn \cup {l}
    /\ UNCHANGED <<row, pub, stream, inbox, job, book, file, dlq, archive,
                   faults>>

----------------------------------------------------------------------------
(* DLQConsumer.run_once                                                    *)

Exhausted == {m \in file : m.try >= DLQ_MAX_RETRIES}
EventsOf(S) == {m.ev : m \in S}

\* get_messages and _archive_exhausted, which may fail; without anything
\* archived or to be retried the file is left alone.
DlqRead ==
    LET due == file \ Exhausted
    IN  /\ dlq.at = "idle" /\ file # {}
        /\ \/ /\ archive' = archive \cup EventsOf(Exhausted)
              /\ dlq' = [NoRun EXCEPT !.at = "retry", !.batch = due]
              /\ faults' = faults
           \/ /\ Exhausted # {} /\ archive' = archive
              /\ dlq' = IF due = {} THEN dlq
                        ELSE [NoRun EXCEPT !.at = "retry", !.batch = due]
              /\ Fault
        /\ UNCHANGED <<row, pub, stream, ledger>>

\* _retry_message: published, hence done with.
DlqRetry(m) ==
    /\ m \in dlq.batch
    /\ Broadcast(m.ev)
    /\ dlq' = [dlq EXCEPT !.batch = @ \ {m}]
    /\ UNCHANGED <<row, pub, stream, conn, job, book, file, archive, faults>>

DlqRetryFail(m) ==
    /\ m \in dlq.batch
    /\ Fault
    /\ dlq' = [dlq EXCEPT !.batch = @ \ {m},
                          !.kept = @ \cup {[m EXCEPT !.try = @ + 1]}]
    /\ UNCHANGED <<row, pub, stream, ledger, archive>>

\* _rebuild_dlq rewrites the file, whatever was appended since it was read.
DlqRebuild ==
    /\ dlq.at = "retry" /\ dlq.batch = {}
    /\ file' = dlq.kept
    /\ dlq' = NoRun
    /\ UNCHANGED <<row, pub, stream, conn, inbox, job, book, archive, faults>>

DlqCrash ==
    /\ dlq.at = "retry"
    /\ Fault
    /\ dlq' = NoRun
    /\ UNCHANGED <<row, pub, stream, ledger, archive>>

----------------------------------------------------------------------------
PublisherStep(w) ==
    \/ OutboxSelect(w) \/ OutboxCommit(w) \/ StreamTake(w) \/ StreamDone(w)
    \/ \E e \in Events : XAdd(w, e)
    \/ \E i \in pub[w].ids : StreamPublish(w, i) \/ StreamAck(w, i)

ListenerStep(l) ==
    \/ ListenCheck(l) \/ ListenInsert(l) \/ ListenConflict(l)
    \/ ListenRestart(l)
    \/ \E e \in Events : ListenTake(l, e)

DlqStep == DlqRead \/ DlqRebuild \/ \E m \in dlq.batch : DlqRetry(m)

Failure ==
    \/ \E w \in Publishers :
         \/ PublisherCrash(w)
         \/ \E e \in Events : XAddFail(w, e)
         \/ \E i \in pub[w].ids : StreamError(w, i)
    \/ \E l \in Listeners :
         ListenRefuse(l) \/ ListenRetry(l) \/ ListenGiveUp(l) \/ ListenDrop(l)
    \/ DlqCrash \/ \E m \in dlq.batch : DlqRetryFail(m)

Next ==
    \/ \E w \in Publishers : PublisherStep(w)
    \/ \E l \in Listeners : ListenerStep(l)
    \/ DlqStep
    \/ Failure

Spec == Init /\ [][Next]_vars

\* Every loop keeps running; an entry that nobody acknowledges is idle long
\* enough in the end, so that XAUTOCLAIM returns it; and a buffered message
\* has its turn, since the buffer is a queue.
Fairness ==
    /\ \A w \in Publishers :
         /\ WF_vars(PublisherStep(w))
         /\ SF_vars(StreamTake(w)
                     /\ pub'[w].ids = Entries("held") \cup Entries("new"))
    /\ \A l \in Listeners :
         /\ WF_vars(ListenerStep(l))
         /\ \A e \in Events : SF_vars(ListenTake(l, e))
    /\ WF_vars(DlqStep)

FairSpec == Spec /\ Fairness

----------------------------------------------------------------------------
(* Properties                                                              *)

\* However often an event is streamed, delivered to several replicas or
\* replayed, the journal gets one entry for it (accounting_service.py:1041).
Journal == INSTANCE JournalOnce
PostedOnce == Journal!Spec

\* A row is marked published only after it reached the stream, although both
\* are decided per row and committed per batch (outbox_publisher.py:94-187).
PublishedRowStreamed ==
    \A e \in Events :
        row[e].at = "published" => \E i \in DOMAIN stream : stream[i].ev = e

\* An entry whose publisher died between XREADGROUP and XACK is claimed by
\* another run and acknowledged (outbox_publisher.py:199-245).
NoEntryAbandoned ==
    \A i \in 1..MaxStream :
        i \in DOMAIN stream ~> i \in DOMAIN stream /\ stream[i].at = "acked"

InFlight(e) ==
    \/ e \in EventsOf(file) \cup EventsOf(dlq.batch) \cup EventsOf(dlq.kept)
    \/ \E l \in Listeners :
         Work(l) = e \/ e \in inbox[l]

\* Once an event is posted its copies do not circle for ever between the
\* replicas, the dead-letter file and its consumer: a replica that loses the
\* race, or that had refused the event before, finds the entry when the copy
\* comes round (accounting_service.py:1047, dlq_worker.py:44-104).  The copy
\* of an event that every delivery refuses has no end.
CopiesSettle == \A e \in Events : <>(book[e] > 0) => <>[]~InFlight(e)

\* outbox_publisher.py:11-25: the stream replaces a transport in which a
\* message is gone when the ledger is not connected; a streamed event is
\* delivered, not lost silently.
StreamedReachesLedger ==
    \A e \in Events :
        (\E i \in DOMAIN stream : stream[i].ev = e)
            ~> book[e] > 0 \/ e \in archive
============================================================================
