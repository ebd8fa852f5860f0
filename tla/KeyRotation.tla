----------------------------- MODULE KeyRotation -----------------------------
(***************************************************************************)
(* The keys that card numbers are encrypted with.  A row of virtual_cards  *)
(* names the version of its key.  A version's key is a secret in the       *)
(* configuration of the processes, or, with KMS, a row of                  *)
(* vcn_kms_key_versions that the first transaction to need it inserts.  An *)
(* offline script moves rows to the current version, page by page.  The    *)
(* operators change the current version by restarting one process after    *)
(* the other, and drop an old secret when every process has been restarted *)
(* and a run of the script begun since then found nothing to do.           *)
(***************************************************************************)
EXTENDS Integers, FiniteSets

CONSTANTS
    Processes,  \* those that issue cards
    Script,     \* rotate_vcn_encryption_keys
    Versions,   \* 1, 2 ...: "v1", "v2" ...; a NULL tag is "v1"
    MaxCards,   \* rows (a bound)
    MaxKeys     \* data keys generated (a bound)

ASSUME KeyAssumption ==
    /\ Script \notin Processes
    /\ MaxCards \in Nat /\ MaxKeys \in Nat
    /\ \E n \in 1..MaxKeys : Versions = 1..n

VARIABLES
    kms,        \* ENVIRONMENT is production and KMS_KEY_ARN is set
    key,        \* the key of each version, 0 without one
    given,      \* keys generated so far
    pan,        \* encrypted rows: version and key
    current,    \* VCN_ENCRYPTION_KEY_CURRENT_VERSION, per process
    run,        \* the transaction of each process
    page,       \* where the script is: 0 when it does not run
    found,      \* rows it has rotated in this run
    settled,    \* its run began when all processes used one version
    clean       \* the last complete run was such a run and found nothing

keyVars == <<kms, key, given, pan, current, run, page, found, settled, clean>>
scriptVars == <<page, found, settled, clean>>

Users == Processes \cup {Script}
NoRun == [at |-> "idle", key |-> 0]

KeyInit ==
    /\ kms \in BOOLEAN
    /\ given = IF kms THEN 0 ELSE Cardinality(Versions)
    /\ key = [v \in Versions |-> IF kms THEN 0 ELSE v]
    /\ pan = [i \in {} |-> [version |-> 1, key |-> 1]]
    /\ current = [p \in Users |-> 1]
    /\ run = [p \in Users |-> NoRun]
    /\ page = 0 /\ found = 0 /\ settled = FALSE /\ clean = FALSE

---------------------------------------------------------------------------
(* get_cipher, in the transaction that encrypts.                           *)
\* The row a transaction has inserted and not committed.
Inserting(v) == {p \in Users : run[p].at = "insert" /\ current[p] = v}

Move(p, at, k) == run' = [run EXCEPT ![p] = [at |-> at, key |-> k]]

LocalCipher(p) ==
    /\ ~kms /\ key[current[p]] # 0
    /\ Move(p, "encrypt", key[current[p]])
    /\ UNCHANGED given

\* Every process unwraps the key of the row with KMS.
KmsCipher(p) ==
    /\ kms /\ key[current[p]] # 0
    /\ Move(p, "encrypt", key[current[p]])
    /\ UNCHANGED given

\* The first one generates it; the unique version makes others wait for the
\* end of its transaction.
GenerateKey(p) ==
    /\ kms /\ key[current[p]] = 0 /\ given < MaxKeys
    /\ given' = given + 1
    /\ Move(p, IF Inserting(current[p]) = {} THEN "insert" ELSE "wait", given + 1)

GetCipher(p) == LocalCipher(p) \/ KmsCipher(p) \/ GenerateKey(p)

\* The other transaction was rolled back.
Proceed(p) ==
    /\ run[p].at = "wait"
    /\ Inserting(current[p]) = {} /\ key[current[p]] = 0
    /\ Move(p, "insert", run[p].key)
    /\ UNCHANGED <<kms, key, given, pan, current, scriptVars>>

\* It was committed: the rollback that follows expires what the caller has
\* loaded, so that it fails.
LoseRace(p) ==
    /\ run[p].at = "wait" /\ key[current[p]] # 0
    /\ Move(p, "idle", 0)
    /\ IF p = Script THEN page' = 0 /\ found' = 0 /\ settled' = FALSE
                     ELSE UNCHANGED <<page, found, settled>>
    /\ UNCHANGED <<kms, key, given, pan, current, clean>>

KeyCommitted(p) ==
    key' = [key EXCEPT ![current[p]] = IF run[p].at = "insert" THEN run[p].key ELSE @]

---------------------------------------------------------------------------
(* Issuing a card.                                                         *)
BeginIssue(p) ==
    /\ run[p] = NoRun
    /\ GetCipher(p)
    /\ UNCHANGED <<kms, key, pan, current, scriptVars>>

CommitIssue(p) ==
    /\ run[p].at \in {"insert", "encrypt"} /\ Cardinality(DOMAIN pan) < MaxCards
    /\ pan' = [i \in 1..(Cardinality(DOMAIN pan) + 1) |->
                 IF i \in DOMAIN pan THEN pan[i]
                 ELSE [version |-> current[p], key |-> run[p].key]]
    /\ KeyCommitted(p) /\ Move(p, "idle", 0)
    /\ UNCHANGED <<kms, given, current, scriptVars>>

RollBackIssue(p) ==
    /\ run[p] # NoRun /\ Move(p, "idle", 0)
    /\ UNCHANGED <<kms, key, given, pan, current, scriptVars>>

---------------------------------------------------------------------------
(* The script, with pages of one row.                                      *)
Readable(row) == key[row.version] = row.key

StartScript ==
    /\ page = 0 /\ page' = 1 /\ found' = 0
    /\ settled' = \A p \in Processes : current[p] = current[Script]
    /\ UNCHANGED <<kms, key, given, pan, current, run, clean>>

SkipCard ==
    /\ page \in DOMAIN pan /\ run[Script] = NoRun
    /\ pan[page].version = current[Script]
    /\ page' = page + 1
    /\ UNCHANGED <<kms, key, given, pan, current, run, found, settled, clean>>

\* Decrypted with the key it names, to be encrypted with the current one.
Reencrypt ==
    /\ page \in DOMAIN pan /\ run[Script] = NoRun
    /\ pan[page].version # current[Script] /\ Readable(pan[page])
    /\ GetCipher(Script)
    /\ UNCHANGED <<kms, key, pan, current, scriptVars>>

\* Seeded fault: encryption_key_version is left as it was.
TagForgotten ==
    /\ run[Script].at \in {"insert", "encrypt"}
    /\ pan' = [pan EXCEPT ![page].key = run[Script].key]
    /\ KeyCommitted(Script) /\ Move(Script, "idle", 0)
    /\ page' = page + 1 /\ found' = found + 1
    /\ UNCHANGED <<kms, given, current, settled, clean>>

CommitPage ==
    /\ run[Script].at \in {"insert", "encrypt"}
    /\ pan' = [pan EXCEPT ![page] = [version |-> current[Script],
                                     key |-> run[Script].key]]
    /\ KeyCommitted(Script) /\ Move(Script, "idle", 0)
    /\ page' = page + 1 /\ found' = found + 1
    /\ UNCHANGED <<kms, given, current, settled, clean>>

Report ==
    /\ page > 0 /\ page \notin DOMAIN pan /\ run[Script] = NoRun
    /\ clean' = (settled /\ found = 0)
    /\ page' = 0 /\ found' = 0 /\ settled' = FALSE
    /\ UNCHANGED <<kms, key, given, pan, current, run>>

ScriptDies ==
    /\ page > 0 /\ Move(Script, "idle", 0)
    /\ page' = 0 /\ found' = 0 /\ settled' = FALSE
    /\ UNCHANGED <<kms, key, given, pan, current, clean>>

---------------------------------------------------------------------------
(* The operators.                                                          *)
Restart(p) ==
    /\ run[p] = NoRun
    /\ p = Script => page = 0
    /\ current[p] + 1 \in Versions
    /\ current' = [current EXCEPT ![p] = @ + 1]
    /\ clean' = FALSE
    /\ UNCHANGED <<kms, key, given, pan, run, page, found, settled>>

RetireSecret(v) ==
    /\ ~kms /\ clean /\ page = 0 /\ key[v] # 0
    /\ v < current[Script]
    /\ key' = [key EXCEPT ![v] = 0]
    /\ UNCHANGED <<kms, given, pan, current, run, scriptVars>>

---------------------------------------------------------------------------
KeyNext ==
    \/ \E p \in Processes : BeginIssue(p) \/ CommitIssue(p) \/ RollBackIssue(p)
    \/ \E p \in Users : Proceed(p) \/ LoseRace(p) \/ Restart(p)
    \/ StartScript \/ SkipCard \/ Reencrypt \/ CommitPage \/ Report \/ ScriptDies
    \/ \E v \in Versions : RetireSecret(v)

KeySpec == KeyInit /\ [][KeyNext]_keyVars

\* The type invariant; at most one transaction holds the row of a version.
KeyTypeOK ==
    /\ kms \in BOOLEAN /\ key \in [Versions -> 0..given] /\ given \in 0..MaxKeys
    /\ pan \in [DOMAIN pan -> [version : Versions, key : 1..given]]
    /\ current \in [Users -> Versions]
    /\ run \in [Users -> [at : {"idle", "wait", "insert", "encrypt"}, key : 0..given]]
    /\ \A v \in Versions : Cardinality(Inserting(v)) <= 1
    /\ page \in 0..(Cardinality(DOMAIN pan) + 1) /\ found \in 0..MaxCards
    /\ settled \in BOOLEAN /\ clean \in BOOLEAN

\* Every card in the table can be decrypted with the key its row names
\* (vcn_encryption.py:116-261, rotate_vcn_encryption_keys.py:59-105):
\* through rotations that interleave with issuing, two processes that generate
\* the key of a version at the same time, and the retirement of old secrets.
CardsReadable == \A i \in DOMAIN pan : Readable(pan[i])
=============================================================================
