------------------------------ MODULE Anomaly ------------------------------
(***************************************************************************)
(* detect_anomalies of app/services/anomaly.py, on a sequence of cleaned   *)
(* rows (Cleaning.tla).                                                    *)
(***************************************************************************)
EXTENDS Cleaning, FiniteSets

CONSTANTS
    Lower,            \* str.lower
    DomesticOnly,     \* DOMESTIC_ONLY_MERCHANTS, in lower case
    Suspicious,       \* the texts that contain "suspicious", in lower case
    Multiplier,       \* of the account's median
    FailedThreshold   \* HIGH_VALUE_FAILED_THRESHOLD

ASSUME AnomalyAssumption ==
    /\ Lower \in [Texts -> Texts]
    /\ Multiplier \in Nat
    /\ FailedThreshold \in Nat

(* The rows whose amounts make up the median of an account.                *)
Samples(rows, account) ==
    {i \in DOMAIN rows : /\ rows[i].account_id = account
                         /\ rows[i].amount # None
                         /\ rows[i].status = "SUCCESS"}

(* The n-th smallest amount of the samples S: sorted(amounts)[n - 1].      *)
Smallest(rows, S, n) ==
    LET v == CHOOSE i \in S :
                 /\ Cardinality({k \in S : rows[k].amount < rows[i].amount}) < n
                 /\ n <= Cardinality({k \in S : rows[k].amount <= rows[i].amount})
    IN  rows[v].amount

(* Wrong on purpose: of an even number of amounts the lower middle one.    *)
TwiceLowMedian(rows, S) == 2 * Smallest(rows, S, (Cardinality(S) + 1) \div 2)

(* statistics.median, twice: the middle amounts, or the middle one twice.  *)
TwiceMedian(rows, S) ==
    Smallest(rows, S, (Cardinality(S) + 1) \div 2)
        + Smallest(rows, S, Cardinality(S) \div 2 + 1)

(* amount > median * multiplier, for an account that has a median.         *)
IsOutlier(rows, i) ==
    LET S == Samples(rows, rows[i].account_id)
    IN  /\ rows[i].account_id # None
        /\ rows[i].amount # None
        /\ S # {}
        /\ TwiceMedian(rows, S) > 0
        /\ 2 * rows[i].amount > TwiceMedian(rows, S) * Multiplier

IsForeignAtHome(row) ==
    /\ row.currency = "USD"
    /\ row.merchant # None
    /\ Lower[row.merchant] \in DomesticOnly

IsHighFailed(row) ==
    /\ row.status = "FAILED"
    /\ row.amount # None
    /\ row.amount > FailedThreshold

IsMarked(row) == row.notes # None /\ Lower[row.notes] \in Suspicious

(* The reasons for which row i is an anomaly; it is one if there are any.  *)
Reasons(rows, i) ==
    {r \in {"outlier", "currency", "failed", "notes"} :
        CASE r = "outlier"  -> IsOutlier(rows, i)
          [] r = "currency" -> IsForeignAtHome(rows[i])
          [] r = "failed"   -> IsHighFailed(rows[i])
          [] r = "notes"    -> IsMarked(rows[i])}

DetectAnomalies(rows) == [i \in DOMAIN rows |-> Reasons(rows, i)]
=============================================================================
