------------------------------ MODULE Cleaning ------------------------------
(***************************************************************************)
(* clean_csv of app/services/cleaning.py: one pass over the rows of a      *)
(* file, which normalises each row and drops the ones it has seen before.  *)
(*                                                                         *)
(* A cell holds a text.  What Python's library makes of a text (strip,     *)
(* upper, strptime, the float of its digits) is given by constant          *)
(* functions; what the code makes of the results is modelled below.        *)
(***************************************************************************)
EXTENDS Integers, Sequences

CONSTANTS
    Texts,     \* what a cell can hold
    None,      \* Python's None; in a cell: the row is too short to have it
    Headers,   \* the sets of columns a file can have
    RawRows,   \* the rows a file can have, as DictReader yields them
    MaxRows,   \* bound: rows of a file
    Strip,     \* str.strip
    Upper,     \* str.upper
    Strptime,  \* Strptime[n][t]: the day t names in the n-th format, or None
    Digits,    \* float(re.sub("[^\d.]", "", t)), or None
    Negative   \* the texts that start with "-"

Columns == {"txn_id", "date", "merchant", "amount", "currency", "status",
            "category", "account_id", "notes"}

Required == Columns \ {"category", "notes"}

FormatCount == 4

ASSUME CleaningAssumption ==
    /\ "" \in Texts
    /\ None \notin Texts \cup Nat
    /\ Headers \subseteq SUBSET Columns
    /\ RawRows \subseteq [Columns -> Texts \cup {None}]
    /\ MaxRows \in Nat
    /\ Strip \in [Texts -> Texts] /\ Strip[""] = ""
    /\ Upper \in [Texts -> Texts]
    /\ Strptime \in [1 .. FormatCount -> [Texts -> Texts \cup {None}]]
    /\ Digits \in [Texts -> Nat \cup {None}]

VARIABLES
    header,          \* the columns of the file
    input,           \* history variable: the rows read so far
    phase,           \* where the task is with the file
    kept,            \* result.rows
    seen,            \* seen_signatures
    rawCount,        \* result.raw_count
    duplicateCount,  \* result.duplicate_count
    cleanCount       \* result.clean_count

cleaningVars ==
    <<header, input, phase, kept, seen, rawCount, duplicateCount, cleanCount>>

-----------------------------------------------------------------------------
(* The columns of one row.                                                 *)

(* raw_row.get(column, "")                                                 *)
Cell(raw, column) == IF column \in header THEN raw[column] ELSE ""

Stripped(raw, column) == Strip[Cell(raw, column)]

OrNone(text) == IF text = "" THEN None ELSE text

OneOf(allowed, text) == IF text \in allowed THEN text ELSE None

(* The first format that fits.                                             *)
ParseDate(text) ==
    LET fits == {n \in 1 .. FormatCount : Strptime[n][text] # None}
    IN  IF fits = {} THEN None
        ELSE Strptime[CHOOSE n \in fits : \A m \in fits : n <= m][text]

(* Wrong on purpose: an amount of nothing is an amount.                    *)
ParseOrZero(text) == IF text \in Negative THEN None ELSE Digits[text]

(* Only a sign in front counts: "$-5" and "(5)" are 5.                     *)
ParseAmount(text) ==
    IF text \in Negative \/ Digits[text] = 0 THEN None ELSE Digits[text]

(* The id of row i: its own, or a random one, taken to be a new one.       *)
TxnId(raw, i) ==
    LET own == Stripped(raw, "txn_id")
    IN  IF own = "" THEN <<"GEN", i>> ELSE <<"file", own>>

(* Wrong on purpose: rows are compared before they get their ids.          *)
SignatureBeforeId(raw, i) ==
    <<Stripped(raw, "txn_id"), ParseDate(Stripped(raw, "date")),
      OrNone(Stripped(raw, "merchant")), ParseAmount(Stripped(raw, "amount"))>>

Signature(raw, i) ==
    <<TxnId(raw, i), ParseDate(Stripped(raw, "date")),
      OrNone(Stripped(raw, "merchant")), ParseAmount(Stripped(raw, "amount"))>>

CleanedRow(raw, i) ==
    [txn_id     |-> TxnId(raw, i),
     date       |-> ParseDate(Stripped(raw, "date")),
     merchant   |-> OrNone(Stripped(raw, "merchant")),
     amount     |-> ParseAmount(Stripped(raw, "amount")),
     currency   |-> OneOf({"INR", "USD"}, Upper[Stripped(raw, "currency")]),
     status     |-> OneOf({"SUCCESS", "FAILED", "PENDING"},
                          Upper[Stripped(raw, "status")]),
     category   |-> IF Stripped(raw, "category") = "" THEN "Uncategorised"
                    ELSE Stripped(raw, "category"),
     account_id |-> OrNone(Stripped(raw, "account_id")),
     notes      |-> OrNone(Stripped(raw, "notes")),
     raw_index  |-> i]

-----------------------------------------------------------------------------
CleaningInit ==
    /\ header \in Headers
    /\ input = <<>>
    /\ phase = "opened"
    /\ kept = <<>>
    /\ seen = {}
    /\ rawCount = 0
    /\ duplicateCount = 0
    /\ cleanCount = 0

CheckHeader ==
    /\ phase = "opened"
    /\ phase' = IF Required \subseteq header THEN "reading" ELSE "raised"
    /\ UNCHANGED <<header, input, kept, seen, rawCount, duplicateCount,
                   cleanCount>>

(* The loop reads one more row.                                            *)
ReadRow(raw) ==
    /\ phase = "reading"
    /\ Len(input) < MaxRows
    /\ input' = Append(input, raw)
    /\ rawCount' = rawCount + 1
    /\ UNCHANGED <<header, cleanCount>>

(* The cells that are stripped after the row is compared, and before.      *)
LateCells == {"account_id", "notes"}
EarlyCells == Columns \ LateCells

Has(raw, columns) == \A c \in columns : Cell(raw, c) # None

(* Wrong on purpose: the signature is not remembered.                      *)
ForgetSignature(raw) ==
    /\ ReadRow(raw)
    /\ Has(raw, Columns)
    /\ Signature(raw, rawCount) \notin seen
    /\ kept' = Append(kept, CleanedRow(raw, rawCount))
    /\ UNCHANGED <<phase, seen, duplicateCount>>

KeepRow(raw) ==
    /\ ReadRow(raw)
    /\ Has(raw, Columns)
    /\ Signature(raw, rawCount) \notin seen
    /\ seen' = seen \cup {Signature(raw, rawCount)}
    /\ kept' = Append(kept, CleanedRow(raw, rawCount))
    /\ UNCHANGED <<phase, duplicateCount>>

(* Wrong on purpose: a duplicate is dropped, but not counted.              *)
DropUncounted(raw) ==
    /\ ReadRow(raw)
    /\ Has(raw, EarlyCells)
    /\ Signature(raw, rawCount) \in seen
    /\ UNCHANGED <<phase, kept, seen, duplicateCount>>

DropDuplicate(raw) ==
    /\ ReadRow(raw)
    /\ Has(raw, EarlyCells)
    /\ Signature(raw, rawCount) \in seen
    /\ duplicateCount' = duplicateCount + 1
    /\ UNCHANGED <<phase, kept, seen>>

(* A short row: None has no strip, and the AttributeError fails the job.   *)
(* A duplicate is dropped before its last cells are looked at.             *)
RaiseOnShortRow(raw) ==
    /\ ReadRow(raw)
    /\ \/ ~Has(raw, EarlyCells)
       \/ /\ Has(raw, EarlyCells)
          /\ ~Has(raw, LateCells)
          /\ Signature(raw, rawCount) \notin seen
    /\ phase' = "raised"
    /\ UNCHANGED <<kept, seen, duplicateCount>>

(* Bytes that are not UTF-8, or a line the csv module refuses.             *)
Unreadable ==
    /\ phase \in {"opened", "reading"}
    /\ phase' = "raised"
    /\ UNCHANGED <<header, input, kept, seen, rawCount, duplicateCount,
                   cleanCount>>

EndOfFile ==
    /\ phase = "reading"
    /\ phase' = "cleaned"
    /\ cleanCount' = Len(kept)
    /\ UNCHANGED <<header, input, kept, seen, rawCount, duplicateCount>>

CleaningNext ==
    \/ CheckHeader
    \/ Unreadable
    \/ \E raw \in RawRows :
          KeepRow(raw) \/ DropDuplicate(raw) \/ RaiseOnShortRow(raw)
    \/ EndOfFile
=============================================================================
