---------------------------- MODULE Notification ----------------------------
(***************************************************************************)
(* One notification: created under its idempotency key by listeners and    *)
(* sweeps, dispatched channel by channel by tasks of the consumer, retried *)
(* by the retry workers of all replicas, requeued by administrators, and   *)
(* corrected by delivery receipts.                                         *)
(*                                                                         *)
(* A dispatch loads the rows that are due, sends, and commits everything   *)
(* at the end; its first UPDATE, of notifications.status, holds the row    *)
(* until then, unless the status it loaded was "dispatching" already.      *)
(***************************************************************************)
EXTENDS Integers, FiniteSets

CONSTANTS
    Channels,  \* the channels requested for the event, each with a dispatcher
    Creators,  \* listeners and sweeps that create the notification
    Senders,   \* tasks of the notification consumers
    Nil,       \* nobody
    MAX_DISPATCH_RETRIES,
    MaxQueued,     \* copies of the id in the queue (a bound)
    MaxMishaps     \* overlapping dispatches, crashes and administrators'
                   \* retries (a bound); an answer that is lost and an
                   \* exception of a dispatcher are none of them

ASSUME NoteAssumption ==
    /\ MAX_DISPATCH_RETRIES \in Nat \ {0}
    /\ {MaxQueued, MaxMishaps} \subseteq Nat
    /\ Nil \notin Senders

VARIABLES
    note,     \* Notification.status, "none" before it exists
    row,      \* NotificationDispatch per channel; attempts while it is due,
              \* id: has a provider_message_id
    jobQueue, \* copies of the id in NOTIFICATION_QUEUE_KEY
    dead,     \* whether the DLQ has entries for it
    creator, sender, clerk,  \* the processes
    holder,   \* the dispatch whose transaction holds the notification's row
    delivered,   \* messages a provider accepted, per channel: 0, 1, or more
    mishaps,
    raced,    \* whether two dispatches overlapped
    unstored  \* channels with an accepted message that no commit recorded

noteVars == <<note, row, jobQueue, dead, creator, sender, clerk, holder,
              delivered, mishaps, raced, unstored>>

Due == {"pending", "retrying"}
Reached == {"sent", "delivered"}
Over == Reached \cup {"failed", "dlq", "none"}
NoRow == [status |-> "none", attempts |-> 0, id |-> FALSE]
NoSender == [at |-> "idle", due |-> {}, todo |-> {}, saw |-> "none",
             mem |-> [ch \in Channels |-> NoRow]]

Row == [status : Due \cup Over, id : BOOLEAN,
        attempts : 0..(MAX_DISPATCH_RETRIES - 1)]

NoteTypeOK ==
    /\ note \in {"none", "queued", "dispatching", "delivered", "failed"}
    /\ row \in [Channels -> Row]
    /\ jobQueue \in Nat /\ dead \in BOOLEAN
    /\ creator \in [Creators -> {"look", "insert", "push", "done"}]
    /\ sender \in [Senders ->
          [at : {"idle", "load", "mark", "send"}, due : SUBSET Channels,
           todo : SUBSET Channels,
           saw : {"none", "queued", "dispatching", "delivered", "failed"},
           mem : [Channels -> Row]]]
    /\ clerk \in {"idle", "push", "commit", "delete"}
    /\ holder \in Senders \cup {Nil}
    /\ delivered \in [Channels -> 0..2]
    /\ mishaps \in Nat /\ raced \in BOOLEAN /\ unstored \subseteq Channels

NoteInit ==
    /\ note = "none"
    /\ row = [ch \in Channels |-> NoRow]
    /\ jobQueue = 0 /\ dead = FALSE
    /\ creator = [c \in Creators |-> "look"]
    /\ sender = [t \in Senders |-> NoSender]
    /\ clerk = "idle" /\ holder = Nil
    /\ delivered = [ch \in Channels |-> 0]
    /\ mishaps = 0 /\ raced = FALSE /\ unstored = {}

Mishap == mishaps < MaxMishaps /\ mishaps' = mishaps + 1

----------------------------------------------------------------------------
(* create_notification                                                     *)

LookUp(c) ==
    /\ creator[c] = "look"
    /\ creator' = [creator EXCEPT ![c] = IF note = "none" THEN "insert"
                                                          ELSE "done"]
    /\ UNCHANGED <<note, row, jobQueue, dead, sender, clerk, holder, delivered,
                   mishaps, raced, unstored>>

\* The key is unique: whoever comes second returns the row of the first.
\* Preferences and rate limits leave some of the channels, perhaps none.
InsertNote(c) ==
    /\ creator[c] = "insert"
    /\ IF note # "none"
         THEN /\ creator' = [creator EXCEPT ![c] = "done"]
              /\ UNCHANGED <<note, row>>
         ELSE /\ creator' = [creator EXCEPT ![c] = "push"]
              /\ note' = "queued"
              /\ \E chosen \in SUBSET Channels :
                    row' = [ch \in Channels |->
                              IF ch \in chosen
                                THEN [NoRow EXCEPT !.status = "pending"]
                                ELSE NoRow]
    /\ UNCHANGED <<jobQueue, dead, sender, clerk, holder, delivered, mishaps,
                   raced, unstored>>

\* _enqueue swallows a failing LPUSH.
Enqueue(c) ==
    /\ creator[c] = "push" /\ jobQueue < MaxQueued
    /\ creator' = [creator EXCEPT ![c] = "done"]
    /\ jobQueue' \in {jobQueue, jobQueue + 1}
    /\ UNCHANGED <<note, row, dead, sender, clerk, holder, delivered, mishaps,
                   raced, unstored>>

----------------------------------------------------------------------------
(* The consumer and dispatch_notification                                  *)

TakeNote(t) ==
    /\ sender[t].at = "idle" /\ jobQueue > 0
    /\ jobQueue' = jobQueue - 1
    /\ sender' = [sender EXCEPT ![t].at = "load"]
    /\ UNCHANGED <<note, row, dead, creator, clerk, holder, delivered, mishaps,
                   raced, unstored>>

\* Seeded fault: a row that was sent and not yet confirmed is due again.
DueRowsUnconfirmed ==
    {ch \in Channels : row[ch].status \in Due \cup {"sent"}}

DueRows == {ch \in Channels : row[ch].status \in Due}

LoadDue(t) ==
    /\ sender[t].at = "load"
    /\ sender' = [sender EXCEPT ![t] =
          IF DueRows = {} THEN NoSender
          ELSE [at |-> "mark", due |-> DueRows, todo |-> DueRows, saw |-> note,
                mem |-> [ch \in Channels |->
                            IF ch \in DueRows THEN row[ch] ELSE NoRow]]]
    /\ IF \E o \in Senders : sender[o].at \in {"mark", "send"}
         THEN Mishap /\ raced' = TRUE
         ELSE UNCHANGED <<mishaps, raced>>
    /\ UNCHANGED <<note, row, jobQueue, dead, creator, clerk, holder,
                   delivered, unstored>>

MarkDispatching(t) ==
    /\ sender[t].at = "mark"
    /\ IF sender[t].saw = "dispatching" THEN UNCHANGED holder
       ELSE holder = Nil /\ holder' = t
    /\ sender' = [sender EXCEPT ![t].at = "send"]
    /\ UNCHANGED <<note, row, jobQueue, dead, creator, clerk, delivered,
                   mishaps, raced, unstored>>

\* Seeded fault: the attempt is not counted.
AttemptUncounted(r, outcome) ==
    CASE outcome = "accepted" -> [NoRow EXCEPT !.status = "sent", !.id = TRUE]
      [] outcome = "refused" -> [NoRow EXCEPT !.status = "failed", !.id = r.id]
      [] outcome \in {"busy", "lost"} ->
            IF r.attempts + 1 >= MAX_DISPATCH_RETRIES
              THEN [NoRow EXCEPT !.status = "dlq", !.id = r.id]
              ELSE [r EXCEPT !.status = "retrying"]

\* Seeded fault: one attempt too many.
AttemptOneMore(r, outcome) ==
    CASE outcome = "accepted" -> [NoRow EXCEPT !.status = "sent", !.id = TRUE]
      [] outcome = "refused" -> [NoRow EXCEPT !.status = "failed", !.id = r.id]
      [] outcome \in {"busy", "lost"} ->
            IF r.attempts + 1 > MAX_DISPATCH_RETRIES
              THEN [NoRow EXCEPT !.status = "dlq", !.id = r.id]
              ELSE [r EXCEPT !.status = "retrying", !.attempts = @ + 1]

\* What one attempt makes of a row.  A channel without destination fails like
\* one that the provider refuses for good, and a message whose answer is lost
\* is tried again like one that the provider could not take.
Attempt(r, outcome) ==
    CASE outcome = "accepted" -> [NoRow EXCEPT !.status = "sent", !.id = TRUE]
      [] outcome = "refused" -> [NoRow EXCEPT !.status = "failed", !.id = r.id]
      [] outcome \in {"busy", "lost"} ->
            IF r.attempts + 1 >= MAX_DISPATCH_RETRIES
              THEN [NoRow EXCEPT !.status = "dlq", !.id = r.id]
              ELSE [r EXCEPT !.status = "retrying", !.attempts = @ + 1]

Again(n) == IF n = 0 THEN 1 ELSE 2

SendChannel(t, ch, outcome) ==
    LET new == Attempt(sender[t].mem[ch], outcome) IN
    /\ sender[t].at = "send" /\ ch \in sender[t].todo
    /\ sender' = [sender EXCEPT ![t].todo = @ \ {ch}, ![t].mem[ch] = new]
    /\ delivered' = IF outcome \in {"accepted", "lost"}
                      THEN [delivered EXCEPT ![ch] = Again(@)] ELSE delivered
    /\ unstored' = IF outcome = "lost" THEN unstored \cup {ch} ELSE unstored
    /\ dead' = (dead \/ new.status = "dlq")
    /\ UNCHANGED <<note, row, jobQueue, creator, clerk, holder, mishaps, raced>>

\* The status of the notification follows from all its rows, those of other
\* channels included.
Aggregate(rows) ==
    LET seen == {rows[ch].status : ch \in Channels} IN
    CASE seen \cap Reached # {} -> "delivered"
      [] seen \cap Reached = {} /\ seen \cap Due # {} -> "dispatching"
      [] OTHER -> "failed"

FinishDispatch(t) ==
    LET mine == sender[t].due
        new == [ch \in Channels |-> IF ch \in mine THEN sender[t].mem[ch]
                                                   ELSE row[ch]] IN
    /\ sender[t].at = "send" /\ sender[t].todo = {}
    /\ holder \in {Nil, t} /\ holder' = Nil
    /\ row' = new
    /\ note' = Aggregate(new)
    /\ sender' = [sender EXCEPT ![t] = NoSender]
    /\ UNCHANGED <<jobQueue, dead, creator, clerk, delivered, mishaps, raced,
                   unstored>>

\* Messages that were accepted, as this dispatch alone knows.
Unsaved(t) == {ch \in sender[t].due : sender[t].mem[ch].id}

RollBack(t) ==
    /\ sender' = [sender EXCEPT ![t] = NoSender]
    /\ holder' = IF holder = t THEN Nil ELSE holder

\* The process dies or its commit fails: nothing of the dispatch is stored.
CutOff(t) ==
    /\ sender[t].at # "idle" /\ Mishap
    /\ RollBack(t)
    /\ unstored' = unstored \cup Unsaved(t)
    /\ UNCHANGED <<note, row, jobQueue, dead, creator, clerk, delivered, raced>>

\* A dispatcher lets an exception out, before the provider has accepted the
\* message or after: the consumer logs it, and the whole dispatch with its
\* attempt_count is rolled back, the other channels' rows included.
DispatcherRaises(t, ch) ==
    /\ sender[t].at = "send" /\ ch \in sender[t].todo
    /\ RollBack(t)
    /\ \E reached \in SUBSET {ch} :
          /\ unstored' = unstored \cup Unsaved(t) \cup reached
          /\ delivered' = [c \in Channels |-> IF c \in reached
                                THEN Again(delivered[c]) ELSE delivered[c]]
    /\ UNCHANGED <<note, row, jobQueue, dead, creator, clerk, mishaps, raced>>

----------------------------------------------------------------------------
(* Retry workers, administrators, receipts                                 *)

RetryDue == \E ch \in Channels : row[ch].status = "retrying"

\* process_retry_queue: every replica requeues what is due and marks nothing.
RequeueDue ==
    /\ RetryDue
    /\ jobQueue < MaxQueued /\ jobQueue' = jobQueue + 1
    /\ UNCHANGED <<note, row, dead, creator, sender, clerk, holder, delivered,
                   mishaps, raced, unstored>>

Revive == [ch \in Channels |->
              IF row[ch].status = "dlq"
                THEN [row[ch] EXCEPT !.status = "pending"]
                ELSE row[ch]]

\* POST /retry/{id}: commit, then LPUSH.
RetryNote ==
    /\ clerk = "idle" /\ note # "none" /\ holder = Nil /\ Mishap
    /\ note' = "queued" /\ row' = Revive
    /\ clerk' = "push"
    /\ UNCHANGED <<jobQueue, dead, creator, sender, holder, delivered, raced,
                   unstored>>

PushRetry ==
    /\ clerk = "push" /\ clerk' = "idle"
    /\ jobQueue < MaxQueued /\ jobQueue' = jobQueue + 1
    /\ UNCHANGED <<note, row, dead, creator, sender, holder, delivered,
                   mishaps, raced, unstored>>

\* POST /dlq/retry-all: LPUSH, then commit, then the whole list is deleted,
\* with what was added to it in the meantime.
RetryAllPush ==
    /\ clerk = "idle" /\ dead /\ Mishap
    /\ jobQueue < MaxQueued /\ jobQueue' = jobQueue + 1
    /\ clerk' = "commit"
    /\ UNCHANGED <<note, row, dead, creator, sender, holder, delivered, raced,
                   unstored>>

RetryAllCommit ==
    /\ clerk = "commit" /\ clerk' = "delete" /\ row' = Revive
    /\ UNCHANGED <<note, jobQueue, dead, creator, sender, holder, delivered,
                   mishaps, raced, unstored>>

\* Also DELETE /dlq/purge.
DeleteDead ==
    /\ clerk = "delete" \/ (clerk = "idle" /\ dead)
    /\ clerk' = "idle" /\ dead' = FALSE
    /\ UNCHANGED <<note, row, jobQueue, creator, sender, holder, delivered,
                   mishaps, raced, unstored>>

\* Receipts of SendGrid, SMS and WhatsApp find the row by provider_message_id
\* and leave the notification alone.
Receipt(ch, result) ==
    /\ row[ch].id /\ row' = [row EXCEPT ![ch].status = result]
    /\ UNCHANGED <<note, jobQueue, dead, creator, sender, clerk, holder,
                   delivered, mishaps, raced, unstored>>

Outcomes == {"accepted", "refused", "busy", "lost"}

SenderStep(t) ==
    \/ LoadDue(t) \/ MarkDispatching(t) \/ FinishDispatch(t)
    \/ \E ch \in Channels, o \in Outcomes : SendChannel(t, ch, o)

NoteNext ==
    \/ \E c \in Creators : LookUp(c) \/ InsertNote(c) \/ Enqueue(c)
    \/ \E t \in Senders :
          \/ TakeNote(t) \/ SenderStep(t) \/ CutOff(t)
          \/ \E ch \in Channels : DispatcherRaises(t, ch)
    \/ RequeueDue \/ RetryNote \/ PushRetry
    \/ RetryAllPush \/ RetryAllCommit \/ DeleteDead
    \/ \E ch \in Channels, r \in {"delivered", "failed"} : Receipt(ch, r)

\* The retry worker runs every few seconds, the consumer until its queue is
\* empty, and every provider is called with a timeout.
NoteFairness ==
    /\ WF_noteVars(RequeueDue)
    /\ \A t \in Senders : WF_noteVars(TakeNote(t)) /\ WF_noteVars(SenderStep(t))

NoteSpec == NoteInit /\ [][NoteNext]_noteVars /\ NoteFairness

----------------------------------------------------------------------------
(* Properties                                                              *)

\* A channel is not sent again once a provider accepted the message, although
\* the id is queued again for the sake of another channel: a second message
\* takes two dispatches at the same time, or an acceptance that was never
\* stored, because its answer was lost or its dispatch was rolled back
\* (notification_service.py:460-465, 514-519; retry_worker.py:24-28).
SentOnce == ~raced => \A ch \in Channels \ unstored : delivered[ch] <= 1

\* Channels that failed for now do not stay in retry: they are requeued until
\* each is sent, given up or in the DLQ (retry_service.py:41-47,
\* retry_worker.py:10-30), whatever crashes, lost answers or copies of the id
\* do, once no dispatcher lets an exception out any more.
RetryEnds ==
    <>[][\A t \in Senders, ch \in Channels : ~DispatcherRaises(t, ch)]_noteVars
        => (RetryDue ~> ~RetryDue)
=============================================================================
