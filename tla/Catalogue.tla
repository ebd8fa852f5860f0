------------------------------ MODULE Catalogue ------------------------------
(***************************************************************************)
(* One product page in the product service: requests extract it at once,   *)
(* the staleness sweep and refreshes queue scraping jobs for it, tasks of  *)
(* the scraping worker run them with retries and a DLQ, and other sweeps   *)
(* ban or archive the product.                                             *)
(*                                                                         *)
(* products.canonical_url is unique, for archived rows too, but only live  *)
(* rows are looked up.  A job is marked running in the transaction that  *)
(* ends it, so that mostly nobody sees it running.                         *)
(***************************************************************************)
EXTENDS Integers, FiniteSets

CONSTANTS
    Jobs,       \* scraping_jobs
    Scrapers,   \* tasks of the scraping workers
    Sweepers,   \* replicas of the staleness worker
    Refreshers, \* POST /products/{id}/refresh
    Askers,     \* POST /products/extract
    NoScrape,
    MAX_ATTEMPTS,
    MaxTroubles \* crashes, errors, DLQ calls, lock expiries (a bound)

ASSUME CatalogueAssumption ==
    /\ IsFiniteSet(Scrapers) /\ IsFiniteSet(Refreshers)
    /\ NoScrape \notin Jobs
    /\ MAX_ATTEMPTS \in Nat \ {0}

VARIABLES
    product,   \* "none", "live", "archived" (deleted_at is set)
    banned,    \* is_prohibited
    stale,     \* updated_at is before the threshold
    jobStatus, attempt,  \* ScrapingJob.status, attempt_number
    scraping, deadJobs,  \* payloads in QueueName.SCRAPING and in its DLQ
    scraper, sweeper, refresher, asker,   \* the processes
    sweepLock, urlLock,  \* LOCK_KEY of the sweep, the lock of the URL
    dropped,   \* jobs whose payload is gone
    troubles

item == <<product, banned, stale>>
work == <<jobStatus, attempt, scraping, deadJobs>>
locks == <<sweepLock, urlLock>>
catalogueVars == <<item, work, scraper, sweeper, refresher, asker, locks,
                   dropped, troubles>>

Open == {"queued", "running", "retrying"}
AtRest == [at |-> "idle", on |-> NoScrape]

CatalogueTypeOK ==
    /\ product \in {"none", "live", "archived"}
    /\ banned \in BOOLEAN /\ stale \in BOOLEAN
    /\ jobStatus \in [Jobs -> Open \cup {"none", "completed", "failed"}]
    /\ attempt \in [Jobs -> 1..MAX_ATTEMPTS]
    /\ scraping \in [Jobs -> Nat] /\ deadJobs \in [Jobs -> Nat]
    /\ scraper \in [Scrapers ->
          [at : {"idle", "begin", "scrape", "sleep", "complete", "announce"},
           on : Jobs \cup {NoScrape}]]
    /\ sweeper \in [Sweepers -> [at : {"idle", "push", "commit", "archive"},
                                 on : Jobs \cup {NoScrape}]]
    /\ refresher \in [Refreshers -> [at : {"idle", "commit", "push"},
                                     on : Jobs \cup {NoScrape}]]
    /\ asker \in [Askers -> {"idle", "look", "extract", "store", "finish"}]
    /\ sweepLock \in BOOLEAN /\ urlLock \in BOOLEAN
    /\ dropped \subseteq Jobs /\ troubles \in Nat

CatalogueInit ==
    /\ product = "none" /\ banned = FALSE /\ stale = FALSE
    /\ jobStatus = [j \in Jobs |-> "none"] /\ attempt = [j \in Jobs |-> 1]
    /\ scraping = [j \in Jobs |-> 0] /\ deadJobs = [j \in Jobs |-> 0]
    /\ scraper = [t \in Scrapers |-> AtRest]
    /\ sweeper = [w \in Sweepers |-> AtRest]
    /\ refresher = [r \in Refreshers |-> AtRest]
    /\ asker = [a \in Askers |-> "idle"]
    /\ sweepLock = FALSE /\ urlLock = FALSE
    /\ dropped = {} /\ troubles = 0

Trouble == troubles < MaxTroubles /\ troubles' = troubles + 1

\* The payloads of a job, wherever they are; the sweep pushes before it
\* commits the job, a refresh afterwards.
Outstanding(j) ==
    scraping[j] + deadJobs[j]
    + Cardinality({t \in Scrapers : scraper[t].on = j})
    + Cardinality({r \in Refreshers : refresher[r] = [at |-> "push", on |-> j]})

NewJob(j) ==
    /\ jobStatus[j] = "none" /\ Outstanding(j) = 0 /\ j \notin dropped
    /\ \A w \in Sweepers : sweeper[w].on # j
    /\ \A r \in Refreshers : refresher[r].on # j

----------------------------------------------------------------------------
(* The sweeps: staleness and age, prohibited products, blocked merchants   *)

GrowStale ==
    /\ product = "live" /\ ~stale /\ stale' = TRUE
    /\ UNCHANGED <<product, banned, work, scraper, sweeper, refresher, asker,
                   locks, dropped, troubles>>

\* The outer join finds a live product without an open job.
Stale ==
    /\ product = "live" /\ ~banned /\ stale
    /\ \A j \in Jobs : jobStatus[j] \notin Open

SweepRead(w, j) ==
    /\ sweeper[w].at = "idle" /\ ~sweepLock
    /\ Stale /\ NewJob(j)
    /\ sweepLock' = TRUE
    /\ sweeper' = [sweeper EXCEPT ![w] = [at |-> "push", on |-> j]]
    /\ UNCHANGED <<item, work, scraper, refresher, asker, urlLock, dropped,
                   troubles>>

SweepPush(w) ==
    /\ sweeper[w].at = "push"
    /\ scraping' = [scraping EXCEPT ![sweeper[w].on] = @ + 1]
    /\ sweeper' = [sweeper EXCEPT ![w].at = "commit"]
    /\ UNCHANGED <<item, jobStatus, attempt, deadJobs, scraper, refresher,
                   asker,
                   locks, dropped, troubles>>

\* product.status = "stale" also moves updated_at.
SweepCommit(w) ==
    /\ sweeper[w].at = "commit"
    /\ jobStatus' = [jobStatus EXCEPT ![sweeper[w].on] = "queued"]
    /\ stale' = FALSE
    /\ sweeper' = [sweeper EXCEPT ![w] = [at |-> "archive", on |-> NoScrape]]
    /\ UNCHANGED <<product, banned, attempt, scraping, deadJobs, scraper,
                   refresher, asker, locks, dropped, troubles>>

\* _expire_old_products takes the product if it is old; `finally` deletes the
\* lock, whoever holds it.
ArchiveOld(w) ==
    /\ sweeper[w].at = "archive"
    /\ \/ product = "live" /\ product' = "archived"
       \/ UNCHANGED product
    /\ sweepLock' = FALSE
    /\ sweeper' = [sweeper EXCEPT ![w] = AtRest]
    /\ UNCHANGED <<banned, stale, work, scraper, refresher, asker, urlLock,
                   dropped, troubles>>

\* The process dies and keeps the lock: a job that it pushed and did not
\* commit will never exist.
SweepCrash(w) ==
    /\ sweeper[w].at # "idle" /\ Trouble
    /\ sweeper' = [sweeper EXCEPT ![w] = AtRest]
    /\ UNCHANGED <<item, work, scraper, refresher, asker, locks, dropped>>

SweepLockExpires ==
    /\ sweepLock /\ sweepLock' = FALSE
    /\ UNCHANGED <<item, work, scraper, sweeper, refresher, asker, urlLock,
                   dropped, troubles>>

\* _scan_products, MerchantService.block and mark_prohibited.
Ban ==
    /\ product = "live" /\ ~banned /\ banned' = TRUE
    /\ UNCHANGED <<product, stale, work, scraper, sweeper, refresher, asker,
                   locks, dropped, troubles>>

----------------------------------------------------------------------------
(* requeue_job, which asks neither whether the product is banned nor, when *)
(* it commits, whether another job was created in the meantime           *)

RefreshRead(r, j) ==
    /\ refresher[r].at = "idle" /\ Trouble
    /\ product = "live" /\ \A k \in Jobs : jobStatus[k] \notin Open
    /\ NewJob(j)
    /\ refresher' = [refresher EXCEPT ![r] = [at |-> "commit", on |-> j]]
    /\ UNCHANGED <<item, work, scraper, sweeper, asker, locks, dropped>>

RefreshCommit(r) ==
    /\ refresher[r].at = "commit"
    /\ jobStatus' = [jobStatus EXCEPT ![refresher[r].on] = "queued"]
    /\ refresher' = [refresher EXCEPT ![r].at = "push"]
    /\ UNCHANGED <<item, attempt, scraping, deadJobs, scraper, sweeper, asker,
                   locks, dropped, troubles>>

RefreshPush(r) ==
    /\ refresher[r].at = "push"
    /\ scraping' = [scraping EXCEPT ![refresher[r].on] = @ + 1]
    /\ refresher' = [refresher EXCEPT ![r] = AtRest]
    /\ UNCHANGED <<item, jobStatus, attempt, deadJobs, scraper, sweeper, asker,
                   locks, dropped, troubles>>

RefreshCrash(r) ==
    /\ refresher[r].at # "idle" /\ Trouble
    /\ dropped' = IF refresher[r].at = "push"
                    THEN dropped \cup {refresher[r].on} ELSE dropped
    /\ refresher' = [refresher EXCEPT ![r] = AtRest]
    /\ UNCHANGED <<item, work, scraper, sweeper, asker, locks>>

----------------------------------------------------------------------------
(* The scraping worker                                                     *)

Step(t, at) == scraper' = [scraper EXCEPT ![t].at = at]
Rest(t) == scraper' = [scraper EXCEPT ![t] = AtRest]

PopJob(t, j) ==
    /\ scraper[t].at = "idle" /\ scraping[j] > 0
    /\ scraping' = [scraping EXCEPT ![j] = @ - 1]
    /\ scraper' = [scraper EXCEPT ![t] = [at |-> "begin", on |-> j]]
    /\ UNCHANGED <<item, jobStatus, attempt, deadJobs, sweeper, refresher,
                   asker,
                   locks, dropped, troubles>>

\* A job that is over, or that its sweep has not committed, is skipped.
Skipped(t) == jobStatus[scraper[t].on] \in {"none", "completed", "failed"}

BeginScrape(t) ==
    LET j == scraper[t].on IN
    /\ scraper[t].at = "begin"
    /\ IF Skipped(t)
         THEN /\ Rest(t)
              /\ dropped' = IF jobStatus[j] = "none" THEN dropped \cup {j}
                             ELSE dropped
         ELSE Step(t, "scrape") /\ UNCHANGED dropped
    /\ UNCHANGED <<item, work, sweeper, refresher, asker, locks, troubles>>

\* Seeded fault: one attempt too many.
AttemptLeftOrEqual(j) == attempt[j] <= MAX_ATTEMPTS

AttemptLeft(j) == attempt[j] < MAX_ATTEMPTS

\* The waterfall found nothing and an attempt is left: commit, then backoff.
RetryLater(t) ==
    LET j == scraper[t].on IN
    /\ scraper[t].at = "scrape" /\ AttemptLeft(j)
    /\ attempt' = [attempt EXCEPT ![j] = @ + 1]
    /\ jobStatus' = [jobStatus EXCEPT ![j] = "retrying"]
    /\ Step(t, "sleep")
    /\ UNCHANGED <<item, scraping, deadJobs, sweeper, refresher, asker, locks,
                   dropped, troubles>>

PushJob(t) ==
    /\ scraper[t].at = "sleep"
    /\ scraping' = [scraping EXCEPT ![scraper[t].on] = @ + 1]
    /\ Rest(t)
    /\ UNCHANGED <<item, jobStatus, attempt, deadJobs, sweeper, refresher,
                   asker,
                   locks, dropped, troubles>>

\* The attempts are used up, the product is not shipped or prohibited.
FailJob(t) ==
    /\ scraper[t].at = "scrape"
    /\ jobStatus' = [jobStatus EXCEPT ![scraper[t].on] = "failed"]
    /\ Step(t, "announce")
    /\ UNCHANGED <<item, attempt, scraping, deadJobs, sweeper, refresher,
                   asker, locks, dropped, troubles>>

\* upsert_by_canonical_url: an archived row is not found, and then breaks the
\* unique index.
Storable == product # "archived"
Upsert == product' = "live" /\ stale' = FALSE /\ UNCHANGED banned

\* With a cached image there is a commit before the job is completed.
CacheImage(t) ==
    /\ scraper[t].at = "scrape" /\ Storable /\ Upsert
    /\ jobStatus' = [jobStatus EXCEPT ![scraper[t].on] = "running"]
    /\ Step(t, "complete")
    /\ UNCHANGED <<attempt, scraping, deadJobs, sweeper, refresher, asker,
                   locks, dropped, troubles>>

CompleteJob(t) ==
    /\ \/ scraper[t].at = "scrape" /\ Storable /\ Upsert
       \/ scraper[t].at = "complete" /\ UNCHANGED item
    /\ jobStatus' = [jobStatus EXCEPT ![scraper[t].on] = "completed"]
    /\ Step(t, "announce")
    /\ UNCHANGED <<attempt, scraping, deadJobs, sweeper, refresher, asker,
                   locks, dropped, troubles>>

\* The event and, for a completed job, the caches.
AnnounceJob(t) ==
    /\ scraper[t].at = "announce" /\ Rest(t)
    /\ UNCHANGED <<item, work, sweeper, refresher, asker, locks, dropped,
                   troubles>>

\* Anything raised ends in the DLQ, and an archived product always does.
ScrapeRaises(t) ==
    /\ scraper[t].at # "idle"
    /\ IF scraper[t].at = "scrape" /\ ~Storable THEN UNCHANGED troubles
                                                ELSE Trouble
    /\ deadJobs' = [deadJobs EXCEPT ![scraper[t].on] = @ + 1]
    /\ Rest(t)
    /\ UNCHANGED <<item, jobStatus, attempt, scraping, sweeper, refresher,
                   asker,
                   locks, dropped>>

\* The process dies, asleep between two attempts or at work.
ScrapeCrash(t) ==
    /\ scraper[t].at # "idle" /\ Trouble
    /\ dropped' = dropped \cup {scraper[t].on}
    /\ Rest(t)
    /\ UNCHANGED <<item, work, sweeper, refresher, asker, locks>>

\* Seeded fault: reprocess copies the entry and leaves it in the DLQ.
UnlistedStays(j) == [deadJobs EXCEPT ![j] = @]

Unlisted(j) == [deadJobs EXCEPT ![j] = @ - 1]

\* DLQService.reprocess and purge, by one administrator.
ReprocessJob(j) ==
    /\ deadJobs[j] > 0 /\ Trouble
    /\ deadJobs' = Unlisted(j)
    /\ scraping' = [scraping EXCEPT ![j] = @ + 1]
    /\ UNCHANGED <<item, jobStatus, attempt, scraper, sweeper, refresher,
                   asker,
                   locks, dropped>>

PurgeJobs ==
    LET dead == {j \in Jobs : deadJobs[j] > 0} IN
    /\ dead # {} /\ Trouble
    /\ dropped' = dropped \cup dead
    /\ deadJobs' = [j \in Jobs |-> 0]
    /\ UNCHANGED <<item, jobStatus, attempt, scraping, scraper, sweeper,
                   refresher,
                   asker, locks>>

----------------------------------------------------------------------------
(* extract_or_enqueue.  The waterfall never answers "extracting", so that  *)
(* this path creates no job; a request that finds the lock taken reads.  *)

Asker(a, at) == asker' = [asker EXCEPT ![a] = at]

AskUrl(a) ==
    /\ asker[a] = "idle" /\ ~urlLock
    /\ urlLock' = TRUE /\ Asker(a, "look")
    /\ UNCHANGED <<item, work, scraper, sweeper, refresher, sweepLock, dropped,
                   troubles>>

\* A live product is returned, banned or not.
LookUrl(a) ==
    /\ asker[a] = "look"
    /\ Asker(a, IF product = "live" THEN "finish" ELSE "extract")
    /\ UNCHANGED <<item, work, scraper, sweeper, refresher, locks, dropped,
                   troubles>>

\* Nothing found, out of stock, not shipped or prohibited: nothing is stored.
ExtractUrl(a) ==
    /\ asker[a] = "extract"
    /\ \E at \in {"store", "finish"} : Asker(a, at)
    /\ UNCHANGED <<item, work, scraper, sweeper, refresher, locks, dropped,
                   troubles>>

StoreUrl(a) ==
    /\ asker[a] = "store" /\ Asker(a, "finish")
    /\ IF Storable THEN Upsert ELSE UNCHANGED item
    /\ UNCHANGED <<work, scraper, sweeper, refresher, locks, dropped,
                   troubles>>

\* `finally` deletes the lock, whoever holds it.
FinishUrl(a) ==
    /\ asker[a] = "finish" /\ Asker(a, "idle") /\ urlLock' = FALSE
    /\ UNCHANGED <<item, work, scraper, sweeper, refresher, sweepLock, dropped,
                   troubles>>

UrlLockExpires ==
    /\ urlLock /\ Trouble /\ urlLock' = FALSE
    /\ UNCHANGED <<item, work, scraper, sweeper, refresher, asker, sweepLock,
                   dropped>>

CatalogueNext ==
    \/ GrowStale \/ Ban \/ SweepLockExpires \/ UrlLockExpires \/ PurgeJobs
    \/ \E w \in Sweepers : \/ SweepPush(w) \/ SweepCommit(w) \/ ArchiveOld(w)
                           \/ SweepCrash(w)
                           \/ \E j \in Jobs : SweepRead(w, j)
    \/ \E r \in Refreshers : \/ RefreshCommit(r) \/ RefreshPush(r)
                             \/ RefreshCrash(r)
                             \/ \E j \in Jobs : RefreshRead(r, j)
    \/ \E t \in Scrapers : \/ BeginScrape(t) \/ RetryLater(t) \/ PushJob(t)
                           \/ FailJob(t) \/ CacheImage(t) \/ CompleteJob(t)
                           \/ AnnounceJob(t) \/ ScrapeRaises(t)
                           \/ ScrapeCrash(t)
                           \/ \E j \in Jobs : PopJob(t, j)
    \/ \E j \in Jobs : ReprocessJob(j)
    \/ \E a \in Askers : \/ AskUrl(a) \/ LookUrl(a) \/ ExtractUrl(a)
                         \/ StoreUrl(a) \/ FinishUrl(a)

CatalogueSpec == CatalogueInit /\ [][CatalogueNext]_catalogueVars

----------------------------------------------------------------------------
(* Properties                                                              *)

\* A job never has two payloads, in the queue, in a task, asleep before a
\* retry or in the DLQ, so that no two tasks scrape for it; and an open job,
\* which keeps the product out of the staleness sweep, always has one, unless
\* a process died with it, the DLQ was purged, or a task took the payload
\* before the sweep had committed the job (scraping_worker.py:158-209,
\* price_staleness_worker.py:51-66, 92-106).
OnePayload ==
    \A j \in Jobs :
        /\ Outstanding(j) <= 1
        /\ jobStatus[j] \in Open => Outstanding(j) = 1 \/ j \in dropped
=============================================================================
