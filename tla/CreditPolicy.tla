----------------------------- MODULE CreditPolicy -----------------------------
(***************************************************************************)
(* What the credit engine decides about one application: the scores of the *)
(* applicant, the band they lead to, the limit of the band for a product   *)
(* category, and the outcome for an order.  The constants are the fields   *)
(* of a RulePolicy and of the settings.  Money is in rupees, percentages   *)
(* are integers, and scores are in hundredths of a point.                  *)
(***************************************************************************)
EXTENDS Integers, Sequences

CONSTANTS
    IDENTITY_BINS, ALT_BINS, \* sequences of [from, below, points]
    MAX_RAW,                 \* max_raw_score
    CUTOFF,                  \* score_band_cutoffs
    BASE_LIMIT, BASE_DOWN,   \* band_base_limits, band_down_payment_pct
    PROHIBITED, MULTIPLIER,  \* prohibited categories, category multipliers
    BUMP_BELOW, BUMP,        \* high_risk_multiplier_threshold and its bump
    MAX_DOWN,                \* max_down_payment_pct
    CAPS,                    \* cold_start_caps, for some of the bands
    MIN_REPAID,              \* graduation_min_repaid_loans
    MAX_SUGGESTED,           \* max_suggested_down_payment_pct
    MIN_COVERAGE,            \* partial_approval_min_coverage_ratio, in percent
    DECLINE_BELOW,           \* settings.auto_decline_below
    MAXIMUM_LIMIT            \* settings.maximum_limit

Percent == 0..100
Bands == {"A", "B", "C", "D"}

\* The policies that are meant: a better band never has worse terms.  A band
\* without a cold-start cap is one with a cap that no limit reaches.
ASSUME PolicyAssumption ==
    /\ CUTOFF \in [Bands -> Nat]
    /\ CUTOFF["A"] >= CUTOFF["B"] /\ CUTOFF["B"] >= CUTOFF["C"]
    /\ CUTOFF["C"] >= CUTOFF["D"] /\ DECLINE_BELOW >= CUTOFF["D"]
    /\ BASE_LIMIT \in [Bands -> Nat]
    /\ BASE_LIMIT["A"] >= BASE_LIMIT["B"] /\ BASE_LIMIT["B"] >= BASE_LIMIT["C"]
    /\ BASE_LIMIT["C"] >= BASE_LIMIT["D"]
    /\ BASE_DOWN \in [Bands -> Percent]
    /\ BASE_DOWN["A"] <= BASE_DOWN["B"] /\ BASE_DOWN["B"] <= BASE_DOWN["C"]
    /\ BASE_DOWN["C"] <= BASE_DOWN["D"]
    /\ CAPS \in [Bands -> Nat]
    /\ CAPS["A"] >= CAPS["B"] /\ CAPS["B"] >= CAPS["C"]
    /\ CAPS["C"] >= CAPS["D"]
    /\ \A category \in DOMAIN MULTIPLIER : MULTIPLIER[category] \in Nat
    /\ DECLINE_BELOW \in Nat /\ MAXIMUM_LIMIT \in Nat /\ MIN_REPAID \in Nat
    /\ IDENTITY_BINS \in Seq([from : Nat, below : Nat, points : Nat])
    /\ ALT_BINS \in Seq([from : Nat, below : Nat, points : Nat]) /\ MAX_RAW \in Nat
    /\ BUMP_BELOW \in Nat /\ BUMP \in Percent /\ MAX_DOWN \in Percent
    /\ MAX_SUGGESTED \in Percent /\ MIN_COVERAGE \in Percent

Least(a, b) == IF a <= b THEN a ELSE b
Most(a, b) == IF a >= b THEN a ELSE b

----------------------------------------------------------------------------
(* The applicant: a record of what the tables hold about a user            *)
(*   kyc, device, ip : the verification is approved, a clean row was found *)
(*   nadra, face, liveness : confidences in percent                        *)
(*   days : the age of the account        repaid, clean : its loans        *)
(*   statement : a bank statement is on file (salary, expense, nsf)        *)

Statement == [salary : BOOLEAN, expense : Nat, nsf : Nat]
Applicant == [kyc : BOOLEAN, device : BOOLEAN, ip : BOOLEAN,
              nadra : Percent, face : Percent, liveness : Percent,
              days : Nat, wallet : 0..10000,
              repaid : Nat, clean : BOOLEAN,
              statement : BOOLEAN, bank : Statement]

IdentityScore(u) ==
      (IF u.kyc THEN 3000 ELSE 0)
    + 20 * u.nadra + 20 * u.face + 10 * u.liveness
    + (500 * Least(u.days, 365)) \div 365
    + (IF u.device THEN 1000 ELSE 0) + (IF u.ip THEN 500 ELSE 0)

BankScore(bank) ==
    Least(10000, Most(0,
        5000 + (IF bank.salary THEN 2000 ELSE 0)
             + 30 * Most(0, 100 - bank.expense) - 500 * Least(bank.nsf, 4)))

\* Half the wallet and half the statement, the wallet alone without one.
AltDataScore(u) ==
    IF u.statement THEN (u.wallet + BankScore(u.bank)) \div 2 ELSE u.wallet

\* No evidence from a device, an address or a bank, and no loans repaid in
\* time that would make up for it.
DataSparse(u) ==
    /\ ~u.device /\ ~u.ip /\ ~u.statement
    /\ ~(u.clean /\ u.repaid >= MIN_REPAID)

\* The points of the first bin that holds the value, of the last bin if none
\* does, and none without bins.
BinPoints(bins, value) ==
    LET holding == {i \in 1..Len(bins) : /\ bins[i].from <= value
                                         /\ value < bins[i].below}
        first == IF holding = {} THEN Len(bins)
                 ELSE CHOOSE i \in holding : \A j \in holding : i <= j
    IN  IF bins = << >> THEN 0 ELSE bins[first].points

Score(u) ==
    Least(MAX_RAW, Most(0, BinPoints(IDENTITY_BINS, IdentityScore(u))
                         + BinPoints(ALT_BINS, AltDataScore(u))))

Band(score) ==
    IF score >= CUTOFF["A"] THEN "A" ELSE IF score >= CUTOFF["B"] THEN "B"
    ELSE IF score >= CUTOFF["C"] THEN "C"
    ELSE IF score >= CUTOFF["D"] THEN "D" ELSE "F"

----------------------------------------------------------------------------
(* The order: a category, an amount, and whether it is the first one       *)

OverlayLimit(band, category) ==
    (BASE_LIMIT[band] * MULTIPLIER[category]) \div 100

OverlayDown(band, category) ==
    Least(MAX_DOWN, BASE_DOWN[band]
                      + (IF MULTIPLIER[category] < BUMP_BELOW THEN BUMP ELSE 0))

ColdStart(limit, band, capped) ==
    IF capped THEN Least(limit, CAPS[band]) ELSE limit

FinalLimit(band, category, capped) ==
    Least(MAXIMUM_LIMIT, ColdStart(OverlayLimit(band, category), band, capped))

\* The down payment that a counter-offer asks for, in hundredths of a
\* percent, rounded half up.
Suggested(limit, amount) ==
    (20000 * (amount - limit) + amount) \div (2 * amount)

\* What is offered for an order of the amount: the financed part, the amount
\* less the down payment, is compared with the limit.
Offer(limit, down, amount) ==
    IF amount * (100 - down) <= 100 * limit THEN "approved"
    ELSE IF limit > 0 /\ 100 * (amount - limit) <= MAX_SUGGESTED * amount
      THEN "increase_down_payment"
    ELSE IF 100 * limit >= MIN_COVERAGE * amount THEN "partial_approval"
    ELSE "rejected"

\* The outcome for an applicant with the score who is not turned away by the
\* eligibility, fraud and portfolio checks.
Outcome(score, capped, category, amount) ==
    IF score < DECLINE_BELOW \/ category \in PROHIBITED THEN "rejected"
    ELSE LET band == Band(score)
         IN  Offer(FinalLimit(band, category, capped),
                   OverlayDown(band, category), amount)
=============================================================================
