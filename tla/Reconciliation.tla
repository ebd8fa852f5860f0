---------------------------- MODULE Reconciliation ----------------------------
(***************************************************************************)
(* The two reconciliations of one gateway: the ledger's import of a        *)
(* settlement, against the payment transactions of its day, and the        *)
(* payment orchestrator's report on the records of a settlement.  Both     *)
(* read a table that payments go on writing, without a lock.               *)
(***************************************************************************)
EXTENDS Integers, Sequences, FiniteSets, FiniteSetsExt

CONSTANTS
    Txns,         \* payments that may happen: [ref, amount, day]; a ref (the
                  \* unique gateway_txn_id) belongs to one of them
    Settlements,  \* what is imported for a day: [day, expected, actual]
    Files,        \* lines of settlements: sequences of [ref, amount]
    NoLines,      \* import_snapshot without line_items
    Nothing,      \* no transaction, or no line
    TOLERANCE,    \* what the sum may differ from the expected amount by
    Importers,    \* imports in progress at the same time
    MaxImports,   \* reconciliations made (a bound)
    MaxReports    \* reports made (a bound)

ASSUME ReconAssumption ==
    /\ IsFiniteSet(Txns) /\ \A t \in Txns : t.amount \in Int
    /\ \A t, u \in Txns : t.ref = u.ref => t = u
    /\ Files \subseteq Seq([ref : Nat, amount : Nat])
    /\ NoLines \notin Files
    /\ {MaxImports, MaxReports} \subseteq Nat

VARIABLES
    rowOf,      \* the status of each payment's row of payment_transactions
    recons,     \* the rows of reconciliations with their items
    importing,  \* the imports in progress
    reports     \* the reports of the payment orchestrator

reconVars == <<rowOf, recons, importing, reports>>

\* "refused" is a failed row that the callback gave a gateway_txn_id.
Here == {"initiated", "pending", "success", "confirmed", "failed", "refused"}
NotHere == {"absent", "elsewhere"}   \* no row, or one of another gateway
NoImport == [phase |-> "free"]

\* A row has its gateway_txn_id from the charge on.
RefOf(t) == IF rowOf[t] \in {"initiated", "failed"} THEN Nothing ELSE t.ref

Total(S) == SumFunctionOnSet([t \in Txns |-> t.amount], S)
Distance(a, b) == IF a > b THEN a - b ELSE b - a

---------------------------------------------------------------------------
(* The payments.                                                           *)
\* A row is inserted before the charge (gateway service) or after it.  A row
\* that is rerouted to this gateway is inserted late.
Insert(t, status) ==
    /\ rowOf[t] = "absent" /\ rowOf' = [rowOf EXCEPT ![t] = status]
    /\ UNCHANGED <<recons, importing, reports>>

\* The consumer charges at a gateway, not always the one that was asked for.
Route(t, status) ==
    /\ rowOf[t] = "initiated" /\ rowOf' = [rowOf EXCEPT ![t] = status]
    /\ UNCHANGED <<recons, importing, reports>>

\* The callback sets the status, whatever it was.
Confirm(t, status) ==
    /\ rowOf[t] \in Here /\ rowOf' = [rowOf EXCEPT ![t] = status]
    /\ UNCHANGED <<recons, importing, reports>>

---------------------------------------------------------------------------
(* The ledger's import.                                                    *)
\* Rows of any status count.
OfDay(d) == {t \in Txns : rowOf[t] \in Here /\ t.day = d}

Verdict(s, total) ==
    IF Distance(total, s.expected) <= TOLERANCE /\ s.actual = s.expected
    THEN "matched" ELSE "discrepant"

\* The first read of the day's rows, the verdict, and the flushed insert.
ReadSum(i, s, lines) ==
    /\ importing[i] = NoImport /\ Cardinality(recons) < MaxImports
    /\ importing' = [importing EXCEPT ![i] =
                       [phase |-> "items", settlement |-> s, lines |-> lines,
                        saw |-> OfDay(s.day), status |-> Verdict(s, Total(OfDay(s.day)))]]
    /\ UNCHANGED <<rowOf, recons, reports>>

Item(txn, line, amount, agrees) ==
    [txn |-> txn, line |-> line, amount |-> amount, agrees |-> agrees]

\* Without lines every row mirrors itself.
Mirrored(local) == {Item(t, Nothing, t.amount, TRUE) : t \in local}

\* A line agrees with the row that has its ref and its amount.
OfLine(lines, n, local) ==
    LET found == {t \in local : RefOf(t) = lines[n].ref}
    IN  IF found = {} THEN Item(Nothing, n, lines[n].amount, FALSE)
        ELSE LET t == CHOOSE t \in found : TRUE
             IN  Item(t, n, lines[n].amount, t.amount = lines[n].amount)

Mentioned(lines) == {lines[n].ref : n \in DOMAIN lines}

Unmentioned(lines, local) ==
    {Item(t, Nothing, t.amount, FALSE) :
        t \in {u \in local : RefOf(u) \notin Mentioned(lines) \cup {Nothing}}}

ItemsOf(lines, local) ==
    IF lines = NoLines THEN Mirrored(local)
    ELSE {OfLine(lines, n, local) : n \in DOMAIN lines} \cup Unmentioned(lines, local)

Difference(s) ==
    IF s.actual = s.expected THEN {} ELSE {Item(Nothing, Nothing, s.expected, FALSE)}

\* Seeded fault: lines that disagree are listed, and the verdict on the
\* totals stays.
TotalsDecide(status, items) == status

\* A line that disagrees decides, whatever the totals say.
LinesDecide(status, items) ==
    IF \E item \in items : ~item.agrees THEN "discrepant" ELSE status

\* The second read of the day's rows, the items and the commit.  The event of
\* the matched rows is published before it, and nothing consumes it.
WriteItems(i) ==
    /\ importing[i] # NoImport /\ Cardinality(recons) < MaxImports
    /\ LET now   == importing[i]
           s     == now.settlement
           local == OfDay(s.day)
           items == ItemsOf(now.lines, local)
       IN  recons' = recons \cup
             {[id |-> Cardinality(recons) + 1, settlement |-> s, lines |-> now.lines,
               status |-> LinesDecide(now.status, items),
               items |-> items \cup Difference(s), moved |-> local # now.saw]}
    /\ importing' = [importing EXCEPT ![i] = NoImport]
    /\ UNCHANGED <<rowOf, reports>>

ImportDies(i) ==
    /\ importing[i] # NoImport
    /\ importing' = [importing EXCEPT ![i] = NoImport]
    /\ UNCHANGED <<rowOf, recons, reports>>

\* A super_admin matches by force what is not matched, also twice.
ManualOverride(r) ==
    /\ r.status # "matched"
    /\ recons' = (recons \ {r}) \cup {[r EXCEPT !.status = "force_matched"]}
    /\ UNCHANGED <<rowOf, importing, reports>>

---------------------------------------------------------------------------
(* The payment orchestrator's report.                                      *)
\* Successful rows of any day, and not those that were confirmed.
Internal == {t \in Txns : rowOf[t] = "success" /\ t.ref # Nothing}

\* Of two records of one transaction the last counts.
LastAmount(lines, ref) == lines[Max({n \in DOMAIN lines : lines[n].ref = ref})].amount

Agreeing(lines) ==
    {t \in Internal : t.ref \in Mentioned(lines) /\ LastAmount(lines, t.ref) = t.amount}

Report(d, lines) ==
    LET unmentioned == {t \in Internal : t.ref \notin Mentioned(lines)}
        gateway == MapThenSumSet(LAMBDA ref : LastAmount(lines, ref), Mentioned(lines))
    IN  [day |-> d, matched |-> Cardinality(Agreeing(lines)),
         discrepancies |-> Cardinality(unmentioned) + Cardinality(Mentioned(lines))
                           - Cardinality(Agreeing(lines)),
         net |-> gateway - Total(Internal)]

\* POST /reconciliation: the report is appended to a file of its day.
Reconcile(d, lines) ==
    /\ Len(reports) < MaxReports
    /\ reports' = Append(reports, Report(d, lines))
    /\ UNCHANGED <<rowOf, recons, importing>>

\* The worker, also when POST /reconciliation/trigger starts it: without records
\* there is no report.
RunReconciliation(d, lines) == lines # << >> /\ Reconcile(d, lines)

---------------------------------------------------------------------------
ReconInit ==
    /\ rowOf = [t \in Txns |-> "absent"]
    /\ recons = {} /\ reports = <<>>
    /\ importing = [i \in Importers |-> NoImport]

ReconNext ==
    \/ \E t \in Txns :
         \/ \E status \in {"initiated", "pending", "success"} : Insert(t, status)
         \/ \E status \in {"failed", "pending", "success", "elsewhere"} : Route(t, status)
         \/ \E status \in {"confirmed", "refused"} : Confirm(t, status)
    \/ \E i \in Importers :
         \/ \E s \in Settlements, lines \in Files \cup {NoLines} : ReadSum(i, s, lines)
         \/ WriteItems(i) \/ ImportDies(i)
    \/ \E r \in recons : ManualOverride(r)
    \/ \E s \in Settlements, lines \in Files \cup {<< >>} :
         Reconcile(s.day, lines) \/ RunReconciliation(s.day, lines)

ReconSpec == ReconInit /\ [][ReconNext]_reconVars

---------------------------------------------------------------------------
(* Properties.                                                             *)
ReconTypeOK ==
    /\ rowOf \in [Txns -> Here \cup NotHere]
    /\ \A r \in recons :
         /\ r.id \in 1..MaxImports /\ r.settlement \in Settlements
         /\ r.status \in {"matched", "discrepant", "force_matched"}
    /\ Cardinality({r.id : r \in recons}) = Cardinality(recons)
    /\ \A i \in Importers :
         importing[i] # NoImport => importing[i].status \in {"matched", "discrepant"}
    /\ \A n \in DOMAIN reports : reports[n].matched >= 0 /\ reports[n].discrepancies >= 0

\* What the ledger calls matched agrees with the gateway: the day's actual is
\* the expected amount, no item disagrees, and the items of the rows come to
\* the expected amount within the tolerance, unless lines were compared, which
\* skip rows without a gateway_txn_id, or the day's rows changed between the
\* two reads (reconciliation_service.py:54-270).
MatchedAgrees ==
    \A r \in recons : r.status = "matched" =>
        /\ r.settlement.actual = r.settlement.expected
        /\ \A item \in r.items : item.agrees
        /\ \/ r.lines # NoLines \/ r.moved
           \/ Distance(SumFunction([item \in r.items |-> item.amount]),
                       r.settlement.expected) <= TOLERANCE
=============================================================================
