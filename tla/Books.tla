--------------------------------- MODULE Books ---------------------------------
(***************************************************************************)
(* The books of the ledger service: the posting rules, the entries, the    *)
(* account balances with their snapshots, and the close of a year.         *)
(*                                                                         *)
(* A posting fixes its date and checks its period before it commits.  The  *)
(* balance of an account is its latest snapshot plus the entries dated     *)
(* after it, and the snapshot worker reads the accounts one by one.  The   *)
(* close of December posts a closing entry from those balances, commits    *)
(* it, and only then closes the period.                                    *)
(***************************************************************************)
EXTENDS Integers, Sequences, FiniteSets, FiniteSetsExt

CONSTANTS
    Clerks,      \* tasks that post: events being handled, requests
    Postings,    \* what the events ask for: a rule, a reference, amounts
    Manuals,     \* accounts that manual entries debit and credit
    Month,       \* the month of each day, as a sequence
    Closed,      \* the months that are closed and reopened
    CHART,       \* the accounts in the order of ACCOUNT_CODES
    TextIds,     \* the database takes a text in journal_entries.source_id
    NoClerk,     \* nothing in progress
    MaxEntries,  \* entries (a bound)
    MaxSnapshots \* runs of the snapshot worker (a bound)

Days == DOMAIN Month
Accounts == {"cash", "ar_installments", "murabaha_financing_receivable",
             "vcn_issued", "ap_merchants", "charity_payable",
             "loan_loss_reserve", "customer_deposits", "murabaha_cost_payable",
             "deferred_murabaha_profit", "owner_equity", "retained_earnings",
             "murabaha_profit", "affiliate_commission", "late_fee_collections",
             "cogs_merchant_payment", "gateway_fees", "vcn_issuance",
             "loan_loss_provision"}
RevenueAccounts == {"murabaha_profit", "affiliate_commission",
                    "late_fee_collections"}
ExpenseAccounts == {"cogs_merchant_payment", "gateway_fees", "vcn_issuance",
                    "loan_loss_provision"}

VARIABLES
    today,
    entries,   \* the committed entries, in the order they were committed
    draft,     \* the entry each clerk is about to commit
    shut,      \* closed months
    closing,   \* the close in progress: what it will commit, and its month
    snaps,     \* per account and day: a value, and the entries it was read from
    worker     \* the snapshot run in progress

booksVars == <<today, entries, draft, shut, closing, snaps, worker>>

---------------------------------------------------------------------------
(* The posting rules.  A line is an account with an amount, positive for a *)
(* debit and negative for a credit.                                        *)
Only(x, value) == [y \in {x} |-> value]
Dr(account, n) == Only(account, n)
Cr(account, n) == Only(account, -n)

\* f where it is defined, else g.
f ++ g ==
    [x \in DOMAIN f \cup DOMAIN g |-> IF x \in DOMAIN f THEN f[x] ELSE g[x]]

OrderRule(p) ==
    CASE p.rule = "payment.down_payment_confirmed" ->
            Dr("cash", p.cost) ++ Cr("customer_deposits", p.cost)
      [] p.rule = "loan.created" ->
            Dr("murabaha_financing_receivable", p.cost + p.profit)
            ++ Cr("murabaha_cost_payable", p.cost)
            ++ Cr("deferred_murabaha_profit", p.profit)
      [] p.rule = "vcn_charge" ->
            Dr("ar_installments", p.cost + p.profit)
            ++ Cr("vcn_issued", p.cost) ++ Cr("murabaha_profit", p.profit)

\* The rules with one debited and one credited account.
CollectionRules ==
    [ installment_paid |-> <<"cash", "ar_installments">>,
      late_fee |-> <<"ar_installments", "charity_payable">>,
      charity_disbursement |-> <<"charity_payable", "cash">>,
      vcn_load |-> <<"vcn_issued", "cash">> ]

PaymentRules ==
    [ merchant_payment |-> <<"cogs_merchant_payment", "cash">>,
      gateway_fee |-> <<"gateway_fees", "cash">>,
      refund |-> <<"ar_installments", "cash">>,
      chargeback |-> <<"ar_installments", "cash">>,
      provision |-> <<"loan_loss_provision", "loan_loss_reserve">>,
      write_off |-> <<"loan_loss_reserve", "ar_installments">> ]

SimpleRules == CollectionRules ++ PaymentRules

\* The names of the rules; what events and callers ask for has one of them.
Rules == DOMAIN CollectionRules \cup DOMAIN PaymentRules
         \cup {"payment.down_payment_confirmed", "loan.created", "vcn_charge"}

\* Amounts are whole cents.  A manual entry with an account that does not exist
\* is refused; only months of the calendar are closed.
ASSUME BooksAssumption ==
    /\ \A p \in Postings : p.rule \in Rules /\ {p.cost, p.profit} \subseteq Int
    /\ \A m \in Manuals : {m.debit, m.credit} \subseteq Accounts /\ m.amount \in Int
    /\ Month \in Seq(Nat) /\ Month # << >>
    /\ \A m \in Closed : \E d \in Days : Month[d] = m
    /\ CHART \in Seq(Accounts)
    /\ MaxSnapshots \in Nat

LinesOf(p) ==
    IF p.rule \in DOMAIN SimpleRules
    THEN Dr(SimpleRules[p.rule][1], p.cost) ++ Cr(SimpleRules[p.rule][2], p.cost)
    ELSE OrderRule(p)

Balanced(lines) ==
    /\ SumFunction(lines) = 0
    /\ \A a \in DOMAIN lines : lines[a] # 0

---------------------------------------------------------------------------
(* Balances.                                                               *)
AmountOn(a, e) == IF a \in DOMAIN e.lines THEN e.lines[a] ELSE 0

AmountsOn(a) == [i \in DOMAIN entries |-> AmountOn(a, entries[i])]

Posted(a, range) ==
    SumFunctionOnSet(AmountsOn(a), {i \in DOMAIN entries : entries[i].date \in range})

\* Seeded fault: the day of the snapshot is counted again.
BalanceFromInclusive(rows, a, d) ==
    LET before == {s \in DOMAIN rows[a] : s <= d}
    IN  IF before = {} THEN Posted(a, {s \in Days : s <= d})
        ELSE rows[a][Max(before)].value
             + Posted(a, {s \in Days : Max(before) <= s /\ s <= d})

\* rows: the snapshots the reader sees, per account a function of the day.
BalanceFrom(rows, a, d) ==
    LET before == {s \in DOMAIN rows[a] : s <= d}
    IN  IF before = {} THEN Posted(a, {s \in Days : s <= d})
        ELSE rows[a][Max(before)].value
             + Posted(a, {s \in Days : Max(before) < s /\ s <= d})

AccountBalance(a, d) == BalanceFrom(snaps, a, d)

\* get_trial_balance: one consistent read of the accounts; those without a
\* line or a snapshot are zero and left out.
InUse == {a \in Accounts : snaps[a] # << >>}
         \cup UNION {DOMAIN entries[i].lines : i \in DOMAIN entries}
TrialBalance(d) == [a \in InUse |-> AccountBalance(a, d)]

\* build_profit_loss_report of one month: the revenue is net, of the expense
\* accounts only the debits count.
Revenue(m) ==
    - SumFunction([a \in RevenueAccounts |-> Posted(a, {d \in Days : Month[d] = m})])
Costs(m) ==
    LET debits(i) == SumFunction([a \in ExpenseAccounts |-> Max({AmountOn(a, entries[i]), 0})])
    IN  SumFunctionOnSet([i \in DOMAIN entries |-> debits(i)],
                         {i \in DOMAIN entries : Month[entries[i].date] = m})

---------------------------------------------------------------------------
(* Posting.  reverses is the number of the entry that this one reverses.   *)
BookEntry(source, date, lines, reverses) ==
    [source |-> source, date |-> date, lines |-> lines, reverses |-> reverses]

Recorded(source) == \E i \in DOMAIN entries : entries[i].source = source

\* _create_balanced_entry up to its flush: not there yet, period open, lines
\* balanced.
Prepare(c, e) ==
    /\ draft[c] = NoClerk /\ Len(entries) < MaxEntries
    /\ ~Recorded(e.source)
    /\ Month[e.date] \notin shut
    /\ Balanced(e.lines)
    /\ draft' = [draft EXCEPT ![c] = e]
    /\ UNCHANGED <<today, entries, shut, closing, snaps, worker>>

PostEvent(c, p) == Prepare(c, BookEntry(<<p.rule, p.ref>>, today, LinesOf(p), 0))

\* An administrator's entry carries any date and must not credit
\* late_fee_collections.  Its source_id is a text.
PostManual(c, m, d) ==
    /\ TextIds /\ m.credit # "late_fee_collections"
    /\ Prepare(c, BookEntry(<<"ledger.manual_entry", m.ref>>, d,
                        Dr(m.debit, m.amount) ++ Cr(m.credit, m.amount), 0))

\* The guard on the original is read here and not again at the commit.
PostReversal(c, i, d) ==
    /\ TextIds /\ entries[i].reverses = 0
    /\ \A j \in DOMAIN entries : entries[j].reverses # i
    /\ Prepare(c, BookEntry(<<"ledger.reversal", c>>, d,
                        [a \in DOMAIN entries[i].lines |-> -entries[i].lines[a]],
                        i))

\* The commit; a source that is there by now violates the unique constraint.
PostCommit(c) ==
    /\ draft[c] # NoClerk /\ ~Recorded(draft[c].source)
    /\ Len(entries) < MaxEntries
    /\ entries' = Append(entries, draft[c])
    /\ draft' = [draft EXCEPT ![c] = NoClerk]
    /\ UNCHANGED <<today, shut, closing, snaps, worker>>

PostRollback(c) ==
    /\ draft[c] # NoClerk
    /\ draft' = [draft EXCEPT ![c] = NoClerk]
    /\ UNCHANGED <<today, entries, shut, closing, snaps, worker>>

---------------------------------------------------------------------------
(* The close of a month.                                                   *)
LastDay(m) == Max({d \in Days : Month[d] = m})

NotClosing == [month |-> 0, at |-> "idle", entry |-> NoClerk]

\* Zeroes the accounts on their normal side, the rest goes to the retained
\* earnings.
ClosingLines(m) ==
    LET bal(a) == AccountBalance(a, LastDay(m))
        closed == {a \in RevenueAccounts : bal(a) < 0}
                  \cup {a \in ExpenseAccounts : bal(a) > 0}
        retained == SumFunction([a \in closed |-> bal(a)])
    IN  [a \in closed |-> -bal(a)]
        ++ (IF retained = 0 THEN << >> ELSE Dr("retained_earnings", retained))

\* A manual entry with a reference of its own.
ClosingSource(m) == <<"period-close", m>>

CloseBegin(m) ==
    /\ closing = NotClosing /\ m \notin shut
    /\ closing' =
         [ month |-> m, at |-> "mark", entry |-> NoClerk ]
    /\ \/ m # 12
       \/ Revenue(m) <= 0 /\ Costs(m) <= 0
       \/ ClosingLines(m) = << >>
       \/ TextIds /\ Recorded(ClosingSource(m))
    /\ UNCHANGED <<today, entries, draft, shut, snaps, worker>>

CloseDraft(m) ==
    /\ closing = NotClosing /\ m \notin shut /\ m = 12
    /\ Revenue(m) > 0 \/ Costs(m) > 0
    /\ ClosingLines(m) # << >> /\ TextIds /\ ~Recorded(ClosingSource(m))
    /\ closing' =
         [ month |-> m, at |-> "post",
           entry |-> BookEntry(ClosingSource(m), LastDay(m), ClosingLines(m), 0) ]
    /\ UNCHANGED <<today, entries, draft, shut, snaps, worker>>

\* record_manual_entry commits the closing entry; the month is still open.
CloseCommit ==
    /\ closing.at = "post"
    /\ entries' = Append(entries, closing.entry)
    /\ closing' = [closing EXCEPT !.at = "mark", !.entry = NoClerk]
    /\ UNCHANGED <<today, draft, shut, snaps, worker>>

CloseMark ==
    /\ closing.at = "mark"
    /\ shut' = shut \cup {closing.month}
    /\ closing' = NotClosing
    /\ UNCHANGED <<today, entries, draft, snaps, worker>>

CloseDies ==
    /\ closing # NotClosing /\ closing' = NotClosing
    /\ UNCHANGED <<today, entries, draft, shut, snaps, worker>>

Reopen(m) ==
    /\ m \in shut /\ shut' = shut \ {m}
    /\ UNCHANGED <<today, entries, draft, closing, snaps, worker>>

---------------------------------------------------------------------------
(* The snapshot worker: one transaction, a new read for every account.     *)
NoSnapRun(runs) == [next |-> 0, asof |-> 0, rows |-> << >>, runs |-> runs]

SnapStart(d) ==
    /\ worker.next = 0 /\ worker.runs < MaxSnapshots
    /\ worker' = [next |-> 1, asof |-> d, rows |-> << >>, runs |-> worker.runs + 1]
    /\ UNCHANGED <<today, entries, draft, shut, closing, snaps>>

\* A snapshot of that day is there already: the balance it returns is itself.
SnapRead ==
    /\ worker.next \in DOMAIN CHART
    /\ LET a == CHART[worker.next]
           d == worker.asof
           row == [ value |-> AccountBalance(a, d),
                    of |-> IF d \in DOMAIN snaps[a] THEN snaps[a][d].of
                           ELSE Len(entries) ]
       IN  worker' = [worker EXCEPT !.next = @ + 1, !.rows = Only(a, row) ++ @]
    /\ UNCHANGED <<today, entries, draft, shut, closing, snaps>>

SnapCommit ==
    /\ worker.next = Len(CHART) + 1
    /\ snaps' = [a \in Accounts |->
                    IF a \in DOMAIN worker.rows
                    THEN Only(worker.asof, worker.rows[a]) ++ snaps[a]
                    ELSE snaps[a]]
    /\ worker' = NoSnapRun(worker.runs)
    /\ UNCHANGED <<today, entries, draft, shut, closing>>

SnapDies ==
    /\ worker.next # 0 /\ worker' = NoSnapRun(worker.runs)
    /\ UNCHANGED <<today, entries, draft, shut, closing, snaps>>

DayPasses ==
    /\ today < Len(Month) /\ today' = today + 1
    /\ UNCHANGED <<entries, draft, shut, closing, snaps, worker>>

BooksInit ==
    /\ today = 1 /\ entries = << >> /\ shut = {} /\ closing = NotClosing
    /\ draft = [c \in Clerks |-> NoClerk]
    /\ snaps = [a \in Accounts |-> << >>] /\ worker = NoSnapRun(0)

BooksNext ==
    \/ \E c \in Clerks :
         \/ \E p \in Postings : PostEvent(c, p)
         \/ \E m \in Manuals, d \in Days : PostManual(c, m, d)
         \/ \E i \in DOMAIN entries, d \in Days : PostReversal(c, i, d)
         \/ PostCommit(c) \/ PostRollback(c)
    \/ \E m \in Closed :
         CloseBegin(m) \/ CloseDraft(m) \/ Reopen(m)
    \/ CloseCommit \/ CloseMark \/ CloseDies
    \/ \E d \in Days : SnapStart(d)
    \/ SnapRead \/ SnapCommit \/ SnapDies \/ DayPasses

BooksSpec == BooksInit /\ [][BooksNext]_booksVars

---------------------------------------------------------------------------
(* Properties.                                                             *)
\* One entry for each source, that of a closing included, which is appended
\* without another look (accounting_service.py:1025-1108).
SourcesUnique ==
    \A i, j \in DOMAIN entries : i # j => entries[i].source # entries[j].source

BooksTypeOK ==
    /\ today \in Days /\ shut \subseteq Closed
    /\ closing.at \in {"idle", "post", "mark"}
    /\ worker.next \in 0..(Len(CHART) + 1) /\ worker.runs \in 0..MaxSnapshots
    /\ \A i \in DOMAIN entries :
         entries[i].date \in Days /\ Balanced(entries[i].lines)
    /\ SourcesUnique
    /\ \A c \in Clerks : draft[c] # NoClerk => Balanced(draft[c].lines)
    /\ \A a \in Accounts : DOMAIN snaps[a] \subseteq Days

\* An entry that a snapshot the balance of day d rests on does not have: it
\* is dated no later and was committed after the account was read.
Missed(i, a, d) ==
    \E s \in DOMAIN snaps[a] :
        s <= d /\ entries[i].date <= s /\ snaps[a][s].of < i

\* Every balance is the sum of the entries up to its day, each counted once,
\* but for the entries a snapshot came too early for: whatever the order in
\* which entries, snapshots of any day and closings are made
\* (balance_service.py:220-275, 324-358).
BalanceIsExact ==
    \A d \in Days :
        LET balance == TrialBalance(d)
        IN  \A a \in InUse :
               balance[a] =
                   SumFunctionOnSet(AmountsOn(a),
                       {i \in DOMAIN entries :
                           entries[i].date <= d /\ ~Missed(i, a, d)})

=============================================================================
