----------------------------- MODULE Prohibition -----------------------------
(***************************************************************************)
(* What may not be sold.  Administrators keep a category of words and bump *)
(* the version of the list in Redis after each commit; an extraction looks *)
(* for the words in what it read from a page.  A request, but not a task   *)
(* of the scraping worker, first looks in Redis whether the page's address *)
(* passed before under the current version, and notes there that it does.  *)
(* The same product and its shop can be banned, released, deleted and      *)
(* blocked by hand.                                                        *)
(*                                                                         *)
(* One address stands for all of them, since the cache is kept per address.*)
(***************************************************************************)
EXTENDS Integers, FiniteSets

CONSTANTS
    Words,      \* keywords
    AddressWords, \* those in the address of the page
    Denied,     \* the domain is in SHARIAH_DOMAIN_DENYLIST
    Texts,      \* what the page may say: sets of words
    Checkers,   \* extractions in progress
    Keepers,    \* administrators' requests in progress
    MaxVersion, \* changes of the list (a bound)
    MaxRows     \* rows made, but for concurrent ones (a bound)

VARIABLES
    list,       \* the row of prohibited_categories; gen: its id, 0 without one
    made,       \* ids given out
    catalogVersion, \* _CATALOG_VERSION_KEY
    negative,   \* cached negatives; text: what was on the page
    unannounced,\* the list was changed since the version was
    keeper, checker,
    goods       \* the product: "none", "offered", "banned", "deleted"

prohibitionVars == <<list, made, catalogVersion, negative, unannounced, keeper,
                     checker, goods>>
listVars == <<list, made, catalogVersion, unannounced, keeper>>

NoList == [gen |-> 0, words |-> {}]
AtEase == [at |-> "idle", add |-> {}, saw |-> NoList]
NotChecking == [at |-> "idle", text |-> {}, cached |-> FALSE, version |-> 0,
                saw |-> NoList]

ProhibitionInit ==
    /\ list \in {NoList} \cup {[gen |-> 1, words |-> {w}] : w \in Words}
    /\ made = list.gen
    /\ catalogVersion = 0 /\ negative = {} /\ unannounced = FALSE
    /\ keeper = [k \in Keepers |-> AtEase]
    /\ checker = [c \in Checkers |-> NotChecking]
    /\ goods = "none"

---------------------------------------------------------------------------
(* The list.                                                               *)
MoveKeeper(k, s) == keeper' = [keeper EXCEPT ![k] = s]

\* An upsert (words to add) or a deletion reads the row.
ReadCategory(k, words) ==
    /\ keeper[k].at = "idle" /\ catalogVersion < MaxVersion
    /\ words = {} => list # NoList
    /\ list = NoList => made < MaxRows
    /\ MoveKeeper(k, [at |-> IF words = {} THEN "delete" ELSE "upsert",
                      add |-> words, saw |-> list])
    /\ UNCHANGED <<list, made, catalogVersion, unannounced, negative, checker, goods>>

Written(row) ==
    /\ list' = row /\ unannounced' = TRUE
    /\ UNCHANGED <<catalogVersion, negative, checker, goods>>

\* category_name is unique; the words are added to those that were read.
CommitUpsert(k) ==
    /\ keeper[k].at = "upsert"
    /\ \/ /\ keeper[k].saw = NoList /\ list = NoList
          /\ made' = made + 1
          /\ Written([gen |-> made + 1, words |-> keeper[k].add])
          /\ MoveKeeper(k, [AtEase EXCEPT !.at = "announce"])
       \/ /\ keeper[k].saw # NoList /\ keeper[k].saw.gen = list.gen
          /\ Written([list EXCEPT !.words =
                        IF keeper[k].add \subseteq keeper[k].saw.words THEN list.words
                        ELSE keeper[k].saw.words \cup keeper[k].add])
          /\ MoveKeeper(k, [AtEase EXCEPT !.at = "announce"])
          /\ UNCHANGED made
       \/ /\ keeper[k].saw.gen # list.gen
          /\ MoveKeeper(k, AtEase)
          /\ UNCHANGED <<list, made, catalogVersion, unannounced, negative,
                         checker, goods>>

\* A row that is gone already is deleted without an error.
CommitDelete(k) ==
    /\ keeper[k].at = "delete"
    /\ Written(IF keeper[k].saw.gen = list.gen THEN NoList ELSE list)
    /\ MoveKeeper(k, [AtEase EXCEPT !.at = "announce"])
    /\ UNCHANGED made

\* INCR.
Invalidate(k) ==
    /\ keeper[k].at = "announce"
    /\ catalogVersion' = catalogVersion + 1 /\ unannounced' = FALSE
    /\ MoveKeeper(k, AtEase)
    /\ UNCHANGED <<list, made, negative, checker, goods>>

SyncCategories(k) ==
    /\ keeper[k].at = "idle" /\ catalogVersion < MaxVersion
    /\ MoveKeeper(k, [AtEase EXCEPT !.at = "announce"])
    /\ UNCHANGED <<list, made, catalogVersion, unannounced, negative, checker, goods>>

KeeperDies(k) ==
    /\ keeper[k].at # "idle" /\ MoveKeeper(k, AtEase)
    /\ UNCHANGED <<list, made, catalogVersion, unannounced, negative, checker, goods>>

---------------------------------------------------------------------------
(* check_text.                                                             *)
MoveChecker(c, s) == checker' = [checker EXCEPT ![c] = s]

\* Ends the check: only the answer is left.
Answers(c, at) == MoveChecker(c, [NotChecking EXCEPT !.at = at])

\* With a cache, its version is read before anything else.
ReadVersion(c, text, cached) ==
    /\ checker[c].at = "idle"
    /\ MoveChecker(c, [at |-> IF cached THEN "cache" ELSE "list", text |-> text,
                       cached |-> cached, saw |-> NoList,
                       version |-> IF cached THEN catalogVersion ELSE 0])
    /\ UNCHANGED <<listVars, negative, goods>>

Hit(c) == \E n \in negative : n.version = checker[c].version

LookInCache(c) ==
    /\ checker[c].at = "cache"
    /\ IF Hit(c) THEN Answers(c, "store")
       ELSE MoveChecker(c, [checker[c] EXCEPT !.at = "list"])
    /\ UNCHANGED <<listVars, negative, goods>>

MatchText(c) ==
    /\ checker[c].at = "list"
    /\ IF list.words \cap checker[c].text # {} THEN Answers(c, "refuse")
       ELSE MoveChecker(c, [checker[c] EXCEPT !.saw = list, !.at = "url"])
    /\ UNCHANGED <<listVars, negative, goods>>

\* The second query returns a row it returned before as it was then, and a
\* row that came in between as it is.
CheckUrl(c) ==
    LET row == IF list.gen = checker[c].saw.gen THEN checker[c].saw ELSE list IN
      /\ checker[c].at = "url"
      /\ CASE Denied \/ row.words \cap AddressWords # {} -> Answers(c, "refuse")
           [] OTHER ->
                IF checker[c].cached
                THEN MoveChecker(c, [checker[c] EXCEPT !.at = "note", !.saw = NoList])
                ELSE Answers(c, "store")
      /\ UNCHANGED <<listVars, negative, goods>>

\* Seeded fault: the version is read when the negative is noted.
NoteUnderLatest(c) ==
    /\ checker[c].at = "note"
    /\ negative' = {n \in negative : n.version # catalogVersion}
                     \cup {[version |-> catalogVersion, text |-> checker[c].text]}
    /\ Answers(c, "store")
    /\ UNCHANGED <<listVars, goods>>

NoteNegative(c) ==
    /\ checker[c].at = "note"
    /\ negative' = {n \in negative : n.version # checker[c].version}
                     \cup {[version |-> checker[c].version, text |-> checker[c].text]}
    /\ Answers(c, "store")
    /\ UNCHANGED <<listVars, goods>>

NegativeExpires(n) ==
    /\ n \in negative /\ negative' = negative \ {n}
    /\ UNCHANGED <<listVars, checker, goods>>

\* The product is not stored.
Refuse(c) ==
    /\ checker[c].at = "refuse"
    /\ MoveChecker(c, NotChecking)
    /\ UNCHANGED <<listVars, negative, goods>>

\* A ban stays on a stored product.  The merchant's status is not looked at.
StoreProduct(c) ==
    /\ checker[c].at = "store"
    /\ goods' = IF goods = "none" THEN "offered" ELSE goods
    /\ MoveChecker(c, NotChecking)
    /\ UNCHANGED <<listVars, negative>>

---------------------------------------------------------------------------
(* By hand.                                                                *)
ProhibitProduct ==
    /\ goods \in {"offered", "banned"} /\ goods' = "banned"
    /\ UNCHANGED <<listVars, negative, checker>>

DeleteProduct ==
    /\ goods \in {"offered", "banned"} /\ goods' = "deleted"
    /\ UNCHANGED <<listVars, negative, checker>>

BlockMerchant ==
    /\ goods' = IF goods = "offered" THEN "banned" ELSE goods
    /\ UNCHANGED <<listVars, negative, checker>>

---------------------------------------------------------------------------
ProhibitionNext ==
    \/ \E k \in Keepers :
         \/ \E words \in {{}} \cup {{w} : w \in Words} : ReadCategory(k, words)
         \/ CommitUpsert(k) \/ CommitDelete(k) \/ Invalidate(k)
         \/ SyncCategories(k) \/ KeeperDies(k)
    \/ \E c \in Checkers :
         \/ \E text \in Texts, cached \in BOOLEAN : ReadVersion(c, text, cached)
         \/ LookInCache(c) \/ MatchText(c) \/ CheckUrl(c) \/ NoteNegative(c)
         \/ Refuse(c) \/ StoreProduct(c)
    \/ \E n \in negative : NegativeExpires(n)
    \/ ProhibitProduct \/ DeleteProduct \/ BlockMerchant

ProhibitionSpec == ProhibitionInit /\ [][ProhibitionNext]_prohibitionVars

\* The type invariant.
Categories == {NoList} \cup [gen : Nat \ {0}, words : SUBSET Words]

ProhibitionTypeOK ==
    /\ list \in Categories /\ made \in Nat /\ list.gen <= made
    /\ catalogVersion \in Nat /\ unannounced \in BOOLEAN
    /\ negative \subseteq [version : 0..catalogVersion, text : Texts]
    /\ keeper \in [Keepers -> [at : {"idle", "upsert", "delete", "announce"},
                               add : SUBSET Words, saw : Categories]]
    /\ checker \in [Checkers -> [at : {"idle", "cache", "list", "url", "note",
                                      "refuse", "store"},
                                 text : Texts \cup {{}}, cached : BOOLEAN,
                                 version : 0..catalogVersion, saw : Categories]]
    /\ goods \in {"none", "offered", "banned", "deleted"}

\* Once a change of the list is announced, no negative that the cache answers
\* with was found with an older list (prohibited_checker.py:52-104): what it
\* says of the text it was found for is what the list says now, however checks
\* and changes interleaved.
NegativeIsCurrent ==
    ~unannounced =>
        \A n \in negative : n.version = catalogVersion => n.text \cap list.words = {}
=============================================================================
