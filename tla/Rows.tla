-------------------------------- MODULE Rows --------------------------------
(***************************************************************************)
(* What a task makes of the rows of one file, from the first line to the   *)
(* answer of GET /jobs/{id}/results: cleaning (Cleaning.tla), the anomaly  *)
(* rules (Anomaly.tla), the categories the model adds, the breakdown that  *)
(* the summary stores and the one the results endpoint adds up.            *)
(*                                                                         *)
(* In Pipeline.tla this is the content of one execution: "raised" is its   *)
(* StepError.  How the categories come about is in Classification.tla;     *)
(* here each uncategorised row gets one of Words, or none.                 *)
(***************************************************************************)
EXTENDS Anomaly, FiniteSetsExt

CONSTANT Words   \* VALID_CATEGORIES

ASSUME WordsAssumption == "none" \notin Words /\ "Uncategorised" \notin Words

VARIABLES
    verdicts,  \* anomaly_results: the reasons for each row
    category,  \* the category of each transaction record
    spend      \* category_spend of the summary

vars == <<cleaningVars, verdicts, category, spend>>

Phases == {"opened", "reading", "raised", "cleaned", "detected", "recorded"}

Categories == Texts \cup Words \cup {"Uncategorised"}

Row ==
    [txn_id     : ({"GEN"} \X Nat) \cup ({"file"} \X Texts),
     date       : Texts \cup {None},
     merchant   : Texts \cup {None},
     amount     : (Nat \ {0}) \cup {None},
     currency   : {"INR", "USD", None},
     status     : {"SUCCESS", "FAILED", "PENDING", None},
     category   : Texts \cup {"Uncategorised"},
     account_id : Texts \cup {None},
     notes      : Texts \cup {None},
     raw_index  : Nat]

RowsTypeOK ==
    /\ header \in Headers
    /\ input \in Seq(RawRows)
    /\ phase \in Phases
    /\ kept \in Seq(Row)
    /\ rawCount \in Nat /\ duplicateCount \in Nat /\ cleanCount \in Nat
    /\ phase \in {"detected", "recorded"} =>
          verdicts \in
              [DOMAIN kept -> SUBSET {"outlier", "currency", "failed", "notes"}]
    /\ phase = "recorded" =>
          /\ category \in [DOMAIN kept -> Categories]
          /\ DOMAIN spend \subseteq Texts \cup {"Uncategorised"}

Init ==
    /\ CleaningInit
    /\ verdicts = <<>>
    /\ category = <<>>
    /\ spend = <<>>

-----------------------------------------------------------------------------
Clean ==
    /\ CleaningNext
    /\ UNCHANGED <<verdicts, category, spend>>

Detect ==
    /\ phase = "cleaned"
    /\ phase' = "detected"
    /\ verdicts' = DetectAnomalies(kept)
    /\ UNCHANGED <<header, input, kept, seen, rawCount, duplicateCount,
                   cleanCount, category, spend>>

(* The amount of row n where amounts are added up.                         *)
AmountOf(n) == IF kept[n].amount = None THEN 0 ELSE kept[n].amount

SumOf(rows) == MapThenSumSet(AmountOf, rows)

WithAmount == {n \in DOMAIN kept : kept[n].amount # None}

(* category_spend: over the rows as they came out of cleaning.             *)
Spend ==
    [c \in {kept[n].category : n \in WithAmount} |->
        SumOf({n \in DOMAIN kept : kept[n].category = c})]

(* Wrong on purpose: the model's word replaces any category.               *)
OverridingCategory(n, word) == IF word = "none" THEN kept[n].category ELSE word

FinalCategory(n, word) ==
    IF kept[n].category = "Uncategorised" /\ word # "none" THEN word
    ELSE kept[n].category

(* The records and the summary of one transaction.                         *)
Record ==
    /\ phase = "detected"
    /\ phase' = "recorded"
    /\ \E word \in [DOMAIN kept -> Words \cup {"none"}] :
          category' = [n \in DOMAIN kept |-> FinalCategory(n, word[n])]
    /\ spend' = Spend
    /\ UNCHANGED <<header, input, kept, seen, rawCount, duplicateCount,
                   cleanCount, verdicts>>

Next == Clean \/ Detect \/ Record

Spec == Init /\ [][Next]_vars

(* cat_map of get_job_results: over the records.                           *)
Breakdown ==
    [c \in {category[n] : n \in DOMAIN category} |->
        SumOf({n \in DOMAIN category : category[n] = c})]

-----------------------------------------------------------------------------
(* Guarantees.                                                             *)

(* No row gets lost unseen: at every moment each row read is either kept   *)
(* or counted as a duplicate, and the count the job reports is the number  *)
(* of rows it keeps (cleaning.py:109-156).                                 *)
CountsAddUp ==
    /\ rawCount = Len(input)
    /\ phase # "raised" => Len(kept) + duplicateCount = rawCount
    /\ phase \in {"cleaned", "detected", "recorded"} => cleanCount = Len(kept)

(* Two rows of a file are one transaction only if the file itself gives    *)
(* both the same id, and day, merchant and amount agree.                   *)
SameTransaction(raw, other) ==
    /\ Stripped(raw, "txn_id") # ""
    /\ Stripped(raw, "txn_id") = Stripped(other, "txn_id")
    /\ ParseDate(Stripped(raw, "date")) = ParseDate(Stripped(other, "date"))
    /\ Stripped(raw, "merchant") = Stripped(other, "merchant")
    /\ ParseAmount(Stripped(raw, "amount"))
          = ParseAmount(Stripped(other, "amount"))

FirstOccurrence(i) ==
    \A k \in 1 .. i - 1 : ~SameTransaction(input[k], input[i])

(* Cleaning keeps each transaction once, as its first row has it, in the   *)
(* order of the file, and drops nothing else: above all no row without an  *)
(* id, which nothing shows to be a repetition (cleaning.py:111-139).       *)
FirstOccurrencesKept ==
    phase # "raised" =>
        /\ {kept[n].raw_index + 1 : n \in DOMAIN kept}
              = {i \in DOMAIN input : FirstOccurrence(i)}
        /\ \A n \in DOMAIN kept :
              kept[n] = CleanedRow(input[kept[n].raw_index + 1],
                                   kept[n].raw_index)
        /\ \A m, n \in DOMAIN kept :
              m < n => kept[m].raw_index < kept[n].raw_index

(* Strengthening for the proof: the signatures remembered are those of the *)
(* rows read.                                                              *)
SeenRecorded ==
    phase # "raised" =>
        /\ \A i \in DOMAIN input : Has(input[i], EarlyCells)
        /\ seen = {Signature(input[i], i - 1) : i \in DOMAIN input}

(* An account's own median keeps its outliers few: of the payments that    *)
(* make up the median fewer than half exceed it by the factor, whether     *)
(* their number is even or odd (anomaly.py:48-65).                         *)
OutliersAreAMinority ==
    phase = "detected" =>
        \A n \in DOMAIN kept :
            LET S == Samples(kept, kept[n].account_id)
            IN  S # {} => 2 * Cardinality({k \in S : "outlier" \in verdicts[k]})
                              < Cardinality(S)

(* The two breakdowns a client is shown, the summary's and the one the     *)
(* results endpoint adds up, differ (tasks.py:141 adds up the categories   *)
(* the rows came with), but only in what the model classified: every       *)
(* amount is in both, and none leaves a category the file gave it.         *)
Total(breakdown) ==
    MapThenSumSet(LAMBDA c : breakdown[c], DOMAIN breakdown)

BreakdownsBalance ==
    phase = "recorded" =>
        /\ Total(Breakdown) = Total(spend)
        /\ \A c \in DOMAIN spend \ {"Uncategorised"} :
              c \in DOMAIN Breakdown /\ spend[c] <= Breakdown[c]

(* Strengthening for the proof: what has been recorded is what the kept    *)
(* rows say, but for the category of an uncategorised row.                 *)
SummaryRecorded ==
    phase = "recorded" =>
        /\ spend = Spend
        /\ DOMAIN category = DOMAIN kept
        /\ \A n \in DOMAIN kept :
              kept[n].category # "Uncategorised" =>
                  category[n] = kept[n].category
=============================================================================
