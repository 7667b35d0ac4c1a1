----------------------------- MODULE RowsProofs -----------------------------
(***************************************************************************)
(* Theorems about what becomes of a file's rows, for files of any length   *)
(* and any rows, whatever Python's library makes of their texts.           *)
(***************************************************************************)
EXTENDS Rows, SumTheorems

-----------------------------------------------------------------------------
(* What the columns of a row become.                                       *)

LEMMA StrippedTyped ==
    ASSUME NEW raw \in RawRows, NEW c \in Columns, Cell(raw, c) # None
    PROVE  Stripped(raw, c) \in Texts
<1>1. raw \in [Columns -> Texts \cup {None}]
  BY CleaningAssumption
<1>2. Cell(raw, c) \in Texts
  BY <1>1, CleaningAssumption DEF Cell
<1>3. QED
  BY <1>2, CleaningAssumption DEF Stripped

LEMMA DateTyped ==
    ASSUME NEW text \in Texts
    PROVE  ParseDate(text) \in Texts \cup {None}
<1> DEFINE fits == {n \in 1 .. FormatCount : Strptime[n][text] # None}
<1>1. CASE fits = {}
  BY <1>1 DEF ParseDate
<1>2. CASE fits # {}
  <2>1. \E n \in fits : \A m \in fits : n <= m
    <3>1. fits \subseteq {1, 2, 3, 4}
      BY DEF FormatCount
    <3>2. QED
      BY <1>2, <3>1
  <2>2. PICK n \in 1 .. FormatCount : ParseDate(text) = Strptime[n][text]
    BY <1>2, <2>1 DEF ParseDate
  <2>3. Strptime[n] \in [Texts -> Texts \cup {None}]
    BY CleaningAssumption
  <2>4. QED
    BY <2>2, <2>3
<1>3. QED
  BY <1>1, <1>2

LEMMA AmountTyped ==
    ASSUME NEW text \in Texts
    PROVE  ParseAmount(text) \in (Nat \ {0}) \cup {None}
BY CleaningAssumption DEF ParseAmount

LEMMA CleanedRowTyped ==
    ASSUME NEW raw \in RawRows, NEW i \in Nat, Has(raw, Columns)
    PROVE  CleanedRow(raw, i) \in Row
<1>1. \A c \in Columns : Stripped(raw, c) \in Texts
  BY StrippedTyped DEF Has
<1>2. /\ {"txn_id", "date", "merchant", "amount", "currency", "status",
          "category", "account_id", "notes"} = Columns
  BY DEF Columns
<1>3. ParseDate(Stripped(raw, "date")) \in Texts \cup {None}
  BY <1>1, <1>2, DateTyped
<1>4. ParseAmount(Stripped(raw, "amount")) \in (Nat \ {0}) \cup {None}
  BY <1>1, <1>2, AmountTyped
<1>5. TxnId(raw, i) \in ({"GEN"} \X Nat) \cup ({"file"} \X Texts)
  BY <1>1, <1>2 DEF TxnId
<1>6. \A c \in Columns : OrNone(Stripped(raw, c)) \in Texts \cup {None}
  BY <1>1 DEF OrNone
<1>7. QED
  BY <1>1, <1>2, <1>3, <1>4, <1>5, <1>6 DEF CleanedRow, Row, OneOf

-----------------------------------------------------------------------------
(* Every variable keeps its type.                                          *)
THEOREM TypeCorrect == Spec => []RowsTypeOK
<1> USE DEF RowsTypeOK, Phases
<1>1. Init => RowsTypeOK
  BY DEF Init, CleaningInit
<1>2. RowsTypeOK /\ [Next]_vars => RowsTypeOK'
  <2> SUFFICES ASSUME RowsTypeOK, [Next]_vars PROVE RowsTypeOK'
    OBVIOUS
  <2>1. CASE Clean /\ CheckHeader
    BY <2>1 DEF Clean, CheckHeader
  <2>2. CASE Clean /\ Unreadable
    BY <2>2 DEF Clean, Unreadable
  <2>3. ASSUME NEW raw \in RawRows, Clean, KeepRow(raw) PROVE RowsTypeOK'
    <3>1. CleanedRow(raw, rawCount) \in Row
      BY <2>3, CleanedRowTyped DEF KeepRow
    <3>2. kept' \in Seq(Row) /\ input' \in Seq(RawRows)
      BY <2>3, <3>1 DEF KeepRow, ReadRow
    <3>3. QED
      BY <2>3, <3>2 DEF Clean, KeepRow, ReadRow
  <2>4. ASSUME NEW raw \in RawRows, Clean, DropDuplicate(raw) PROVE RowsTypeOK'
    BY <2>4 DEF Clean, DropDuplicate, ReadRow
  <2>5. ASSUME NEW raw \in RawRows, Clean, RaiseOnShortRow(raw) PROVE RowsTypeOK'
    BY <2>5 DEF Clean, RaiseOnShortRow, ReadRow
  <2>6. CASE Clean /\ EndOfFile
    BY <2>6 DEF Clean, EndOfFile
  <2>7. CASE Detect
    <3>1. \A n : Reasons(kept, n)
                     \in SUBSET {"outlier", "currency", "failed", "notes"}
      BY DEF Reasons
    <3>2. verdicts' \in
            [DOMAIN kept -> SUBSET {"outlier", "currency", "failed", "notes"}]
      BY <2>7, <3>1 DEF Detect, DetectAnomalies
    <3>3. QED
      BY <2>7, <3>2 DEF Detect
  <2>8. CASE Record
    <3>1. \A n \in DOMAIN kept :
             kept[n].category \in Texts \cup {"Uncategorised"}
      <4>1. \A n \in DOMAIN kept : kept[n] \in Row
        OBVIOUS
      <4>2. QED
        BY <4>1 DEF Row
    <3>2. PICK word \in [DOMAIN kept -> Words \cup {"none"}] :
             category' = [n \in DOMAIN kept |-> FinalCategory(n, word[n])]
      BY <2>8 DEF Record
    <3>3. \A n \in DOMAIN kept : FinalCategory(n, word[n]) \in Categories
      BY <3>1 DEF FinalCategory, Categories
    <3>4. category' \in [DOMAIN kept -> Categories]
      BY <3>2, <3>3
    <3>5. DOMAIN spend' \subseteq Texts \cup {"Uncategorised"}
      BY <2>8, <3>1 DEF Record, Spend, WithAmount
    <3>6. QED
      BY <2>8, <3>4, <3>5 DEF Record
  <2>9. CASE UNCHANGED vars
    BY <2>9 DEF vars, cleaningVars
  <2>10. QED
    BY <2>1, <2>2, <2>3, <2>4, <2>5, <2>6, <2>7, <2>8, <2>9
       DEF Next, Clean, CleaningNext
<1>3. QED
  BY <1>1, <1>2, PTL DEF Spec

-----------------------------------------------------------------------------
(* Every row read is kept or counted, and the reported count is that of    *)
(* the rows kept.                                                          *)
THEOREM CountsAlwaysAddUp == Spec => []CountsAddUp
<1>1. Init => CountsAddUp
  BY DEF Init, CleaningInit, CountsAddUp
<1>2. RowsTypeOK /\ CountsAddUp /\ [Next]_vars => CountsAddUp'
  <2> SUFFICES ASSUME RowsTypeOK, CountsAddUp, [Next]_vars PROVE CountsAddUp'
    OBVIOUS
  <2> USE DEF CountsAddUp, RowsTypeOK
  <2>1. ASSUME NEW raw \in RawRows, KeepRow(raw) PROVE CountsAddUp'
    BY <2>1 DEF KeepRow, ReadRow
  <2>2. ASSUME NEW raw \in RawRows, DropDuplicate(raw) PROVE CountsAddUp'
    BY <2>2 DEF DropDuplicate, ReadRow
  <2>3. ASSUME NEW raw \in RawRows, RaiseOnShortRow(raw) PROVE CountsAddUp'
    BY <2>3 DEF RaiseOnShortRow, ReadRow
  <2>4. CASE CheckHeader
    BY <2>4 DEF CheckHeader
  <2>5. CASE Unreadable
    BY <2>5 DEF Unreadable
  <2>6. CASE EndOfFile
    BY <2>6 DEF EndOfFile
  <2>7. CASE Detect
    BY <2>7 DEF Detect
  <2>8. CASE Record
    BY <2>8 DEF Record
  <2>9. CASE UNCHANGED vars
    BY <2>9 DEF vars, cleaningVars
  <2>10. QED
    BY <2>1, <2>2, <2>3, <2>4, <2>5, <2>6, <2>7, <2>8, <2>9
       DEF Next, Clean, CleaningNext
<1>3. QED
  BY <1>1, <1>2, TypeCorrect, PTL DEF Spec
-----------------------------------------------------------------------------
(* Signatures.                                                             *)

LEMMA OrNoneDistinguishes ==
    ASSUME NEW a \in Texts, NEW b \in Texts
    PROVE  OrNone(a) = OrNone(b) <=> a = b
BY CleaningAssumption DEF OrNone

(* Two rows have one signature exactly if they are the same transaction.   *)
LEMMA SignaturesTell ==
    ASSUME NEW raw \in RawRows, NEW other \in RawRows,
           NEW i \in Nat, NEW k \in Nat, i # k,
           Has(raw, EarlyCells), Has(other, EarlyCells)
    PROVE  Signature(raw, i) = Signature(other, k) <=> SameTransaction(raw, other)
<1>1. "merchant" \in EarlyCells /\ "merchant" \in Columns
  BY DEF EarlyCells, LateCells, Columns
<1>2. Stripped(raw, "merchant") \in Texts /\ Stripped(other, "merchant") \in Texts
  BY <1>1, StrippedTyped DEF Has
<1>3. OrNone(Stripped(raw, "merchant")) = OrNone(Stripped(other, "merchant"))
        <=> Stripped(raw, "merchant") = Stripped(other, "merchant")
  BY <1>2, OrNoneDistinguishes
<1>4. TxnId(raw, i) = TxnId(other, k)
        <=> /\ Stripped(raw, "txn_id") # ""
            /\ Stripped(raw, "txn_id") = Stripped(other, "txn_id")
  BY DEF TxnId
<1>5. Signature(raw, i) = Signature(other, k)
        <=> /\ TxnId(raw, i) = TxnId(other, k)
            /\ ParseDate(Stripped(raw, "date"))
                  = ParseDate(Stripped(other, "date"))
            /\ OrNone(Stripped(raw, "merchant"))
                  = OrNone(Stripped(other, "merchant"))
            /\ ParseAmount(Stripped(raw, "amount"))
                  = ParseAmount(Stripped(other, "amount"))
  BY DEF Signature
<1>6. QED
  BY <1>3, <1>4, <1>5 DEF SameTransaction

(* What a row becomes depends on the row, its place and the header alone.  *)
LEMMA HeaderDecides ==
    ASSUME UNCHANGED header
    PROVE  /\ \A raw, i : Signature(raw, i)' = Signature(raw, i)
           /\ \A raw, i : CleanedRow(raw, i)' = CleanedRow(raw, i)
           /\ \A raw, other :
                 SameTransaction(raw, other)' = SameTransaction(raw, other)
           /\ \A raw : Has(raw, EarlyCells)' = Has(raw, EarlyCells)
<1>1. \A raw, c : Stripped(raw, c)' = Stripped(raw, c)
  BY DEF Stripped, Cell
<1>2. \A raw, i : TxnId(raw, i)' = TxnId(raw, i)
  BY <1>1 DEF TxnId
<1>3. \A raw, i : Signature(raw, i)' = Signature(raw, i)
  BY <1>1, <1>2 DEF Signature
<1>4. \A raw, i : CleanedRow(raw, i)' = CleanedRow(raw, i)
  BY <1>1, <1>2 DEF CleanedRow
<1>5. \A raw, other :
         SameTransaction(raw, other)' = SameTransaction(raw, other)
  BY <1>1 DEF SameTransaction
<1>6. \A raw : Has(raw, EarlyCells)' = Has(raw, EarlyCells)
  BY DEF Has, Cell
<1>7. QED
  BY <1>3, <1>4, <1>5, <1>6
-----------------------------------------------------------------------------
(* The remembered signatures.                                              *)
LEMMA SeenRecordedHolds == Spec => []SeenRecorded
<1> USE DEF SeenRecorded
<1>1. Init => SeenRecorded
  BY DEF Init, CleaningInit
<1>2. RowsTypeOK /\ CountsAddUp /\ SeenRecorded /\ [Next]_vars => SeenRecorded'
  <2> SUFFICES ASSUME RowsTypeOK, CountsAddUp, SeenRecorded, [Next]_vars,
                      phase' # "raised"
               PROVE  SeenRecorded'
    OBVIOUS
  <2>1. phase # "raised" /\ UNCHANGED header
    BY DEF Next, Clean, CleaningNext, CheckHeader, Unreadable, KeepRow,
           DropDuplicate, RaiseOnShortRow, ReadRow, EndOfFile, Detect, Record,
           vars, cleaningVars
  <2>2. /\ \A raw, i : Signature(raw, i)' = Signature(raw, i)
        /\ \A raw : Has(raw, EarlyCells)' = Has(raw, EarlyCells)
    BY <2>1, HeaderDecides
  <2>3. ASSUME NEW raw \in RawRows, ReadRow(raw), Has(raw, EarlyCells),
               seen' = seen \cup {Signature(raw, rawCount)}
        PROVE  SeenRecorded'
    <3>1. /\ input \in Seq(RawRows)
          /\ input' = Append(input, raw)
          /\ rawCount = Len(input)
      BY <2>3 DEF RowsTypeOK, CountsAddUp, ReadRow
    <3>2. /\ DOMAIN input' = DOMAIN input \cup {Len(input) + 1}
          /\ \A i \in DOMAIN input : input'[i] = input[i]
          /\ input'[Len(input) + 1] = raw
      BY <3>1
    <3>3. \A i \in DOMAIN input' : Has(input'[i], EarlyCells)
      BY <2>1, <2>3, <3>2
    <3>4. seen' = {Signature(input'[i], i - 1) : i \in DOMAIN input'}
      <4>1. {Signature(input'[i], i - 1) : i \in DOMAIN input'}
              = {Signature(input[i], i - 1) : i \in DOMAIN input}
                   \cup {Signature(raw, (Len(input) + 1) - 1)}
        BY <3>2
      <4>2. (Len(input) + 1) - 1 = rawCount
        BY <3>1
      <4>3. QED
        BY <2>1, <2>3, <4>1, <4>2
    <3>5. QED
      BY <2>2, <3>3, <3>4
  <2>4. CASE UNCHANGED <<input, seen>>
    BY <2>1, <2>2, <2>4
  <2>5. ASSUME NEW raw \in RawRows, KeepRow(raw) PROVE SeenRecorded'
    BY <2>3, <2>5 DEF KeepRow, Has, EarlyCells
  <2>6. ASSUME NEW raw \in RawRows, DropDuplicate(raw) PROVE SeenRecorded'
    BY <2>3, <2>6 DEF DropDuplicate
  <2>7. QED
    BY <2>4, <2>5, <2>6
       DEF Next, Clean, CleaningNext, CheckHeader, Unreadable, RaiseOnShortRow,
           EndOfFile, Detect, Record, vars, cleaningVars
<1>3. QED
  BY <1>1, <1>2, TypeCorrect, CountsAlwaysAddUp, PTL DEF Spec

-----------------------------------------------------------------------------
(* One row is read.                                                        *)

LEMMA FirstOccurrencesGrow ==
    ASSUME UNCHANGED header, NEW raw \in RawRows, input \in Seq(RawRows),
           input' = Append(input, raw)
    PROVE  /\ \A i \in DOMAIN input : FirstOccurrence(i)' <=> FirstOccurrence(i)
           /\ \A i : i = Len(input) + 1 =>
                 (FirstOccurrence(i)'
                    <=> \A k \in DOMAIN input : ~SameTransaction(input[k], raw))
<1>1. \A x, y : SameTransaction(x, y)' = SameTransaction(x, y)
  BY HeaderDecides
<1>2. /\ \A i \in DOMAIN input : input'[i] = input[i]
      /\ input'[Len(input) + 1] = raw
      /\ DOMAIN input = 1 .. Len(input)
      /\ Len(input) \in Nat
  OBVIOUS
<1>3. ASSUME NEW i \in DOMAIN input
      PROVE  FirstOccurrence(i)' <=> FirstOccurrence(i)
  <2>1. \A k \in 1 .. i - 1 : k \in DOMAIN input
    BY <1>2
  <2>2. QED
    BY <1>1, <1>2, <1>3, <2>1 DEF FirstOccurrence
<1>4. ASSUME NEW i, i = Len(input) + 1
      PROVE  FirstOccurrence(i)'
               <=> \A k \in DOMAIN input : ~SameTransaction(input[k], raw)
  <2>1. 1 .. i - 1 = DOMAIN input /\ input'[i] = raw
    BY <1>2, <1>4
  <2>2. QED
    BY <1>1, <1>2, <2>1 DEF FirstOccurrence
<1>5. QED
  BY <1>3, <1>4
-----------------------------------------------------------------------------
(* Each transaction is kept once, as its first row has it, in the order of *)
(* the file, and nothing else is dropped.                                  *)
THEOREM FirstOccurrencesAreKept == Spec => []FirstOccurrencesKept
<1>1. Init => FirstOccurrencesKept
  BY DEF Init, CleaningInit, FirstOccurrencesKept
<1>2. RowsTypeOK /\ CountsAddUp /\ SeenRecorded /\ FirstOccurrencesKept
        /\ [Next]_vars => FirstOccurrencesKept'
  <2> SUFFICES ASSUME RowsTypeOK, CountsAddUp, SeenRecorded, FirstOccurrencesKept,
                      [Next]_vars, phase' # "raised"
               PROVE  FirstOccurrencesKept'
    BY DEF FirstOccurrencesKept
  <2>1. phase # "raised" /\ UNCHANGED header
    BY DEF Next, Clean, CleaningNext, CheckHeader, Unreadable, KeepRow,
           DropDuplicate, RaiseOnShortRow, ReadRow, EndOfFile, Detect, Record,
           vars, cleaningVars
  <2>2. /\ \A raw, i : CleanedRow(raw, i)' = CleanedRow(raw, i)
        /\ \A raw, other :
              SameTransaction(raw, other)' = SameTransaction(raw, other)
    BY <2>1, HeaderDecides
  <2> DEFINE first == {i \in DOMAIN input : FirstOccurrence(i)}
             places == {kept[n].raw_index + 1 : n \in DOMAIN kept}
  <2>3. /\ places = first
        /\ \A n \in DOMAIN kept :
              kept[n] = CleanedRow(input[kept[n].raw_index + 1],
                                   kept[n].raw_index)
        /\ \A m, n \in DOMAIN kept :
              m < n => kept[m].raw_index < kept[n].raw_index
    BY <2>1 DEF FirstOccurrencesKept
  <2>4. /\ input \in Seq(RawRows)
        /\ kept \in Seq(Row)
        /\ \A n \in DOMAIN kept : kept[n].raw_index \in Nat
    <3>1. \A n \in DOMAIN kept : kept[n] \in Row
      BY DEF RowsTypeOK
    <3>2. QED
      BY <3>1 DEF RowsTypeOK, Row
  <2>5. CASE UNCHANGED <<input, kept>>
    <3>1. \A i : FirstOccurrence(i)' <=> FirstOccurrence(i)
      BY <2>2, <2>5 DEF FirstOccurrence
    <3>2. QED
      BY <2>2, <2>3, <2>5, <3>1 DEF FirstOccurrencesKept
  <2>6. ASSUME NEW raw \in RawRows, ReadRow(raw), Has(raw, EarlyCells)
        PROVE  /\ input' = Append(input, raw)
               /\ rawCount = Len(input)
               /\ DOMAIN input' = DOMAIN input \cup {rawCount + 1}
               /\ \A i \in DOMAIN input : input'[i] = input[i]
               /\ input'[rawCount + 1] = raw
               /\ \A i \in DOMAIN input :
                     FirstOccurrence(i)' <=> FirstOccurrence(i)
               /\ \A i : i = rawCount + 1 =>
                     (FirstOccurrence(i)' <=> Signature(raw, rawCount) \notin seen)
    <3>1. input' = Append(input, raw) /\ rawCount = Len(input)
      BY <2>6 DEF ReadRow, CountsAddUp
    <3>2. /\ DOMAIN input' = DOMAIN input \cup {rawCount + 1}
          /\ \A i \in DOMAIN input : input'[i] = input[i]
          /\ input'[rawCount + 1] = raw
          /\ DOMAIN input = 1 .. rawCount
          /\ rawCount \in Nat
      BY <2>4, <3>1
    <3>3. /\ \A i \in DOMAIN input : FirstOccurrence(i)' <=> FirstOccurrence(i)
          /\ \A i : i = Len(input) + 1 =>
                (FirstOccurrence(i)'
                   <=> \A k \in DOMAIN input : ~SameTransaction(input[k], raw))
      BY <2>1, <2>4, <3>1, FirstOccurrencesGrow
    <3>4. \A k \in DOMAIN input :
             Signature(input[k], k - 1) = Signature(raw, rawCount)
               <=> SameTransaction(input[k], raw)
      <4>1. SUFFICES ASSUME NEW k \in DOMAIN input
                     PROVE  Signature(input[k], k - 1) = Signature(raw, rawCount)
                              <=> SameTransaction(input[k], raw)
        OBVIOUS
      <4>2. /\ input[k] \in RawRows /\ Has(input[k], EarlyCells)
            /\ k - 1 \in Nat /\ k - 1 # rawCount
        BY <2>1, <2>4, <3>2 DEF SeenRecorded
      <4>3. QED
        BY <2>6, <3>2, <4>2, SignaturesTell
    <3>5. Signature(raw, rawCount) \in seen
            <=> \E k \in DOMAIN input :
                   Signature(input[k], k - 1) = Signature(raw, rawCount)
      BY <2>1 DEF SeenRecorded
    <3>6. QED
      BY <3>1, <3>2, <3>3, <3>4, <3>5
  <2>7. ASSUME NEW raw \in RawRows, DropDuplicate(raw)
        PROVE  FirstOccurrencesKept'
    <3>1. /\ ReadRow(raw) /\ Has(raw, EarlyCells)
          /\ Signature(raw, rawCount) \in seen
          /\ kept' = kept
      BY <2>7 DEF DropDuplicate
    <3>2. {i \in DOMAIN input' : FirstOccurrence(i)'} = first
      BY <2>6, <3>1
    <3>3. \A n \in DOMAIN kept : kept[n].raw_index + 1 \in DOMAIN input
      BY <2>3
    <3>4. \A n \in DOMAIN kept :
             kept[n] = CleanedRow(input'[kept[n].raw_index + 1],
                                  kept[n].raw_index)
      BY <2>3, <2>6, <3>1, <3>3
    <3>5. QED
      BY <2>2, <2>3, <3>1, <3>2, <3>4 DEF FirstOccurrencesKept
  <2>8. ASSUME NEW raw \in RawRows, KeepRow(raw)
        PROVE  FirstOccurrencesKept'
    <3> DEFINE row == CleanedRow(raw, rawCount)
    <3>1. /\ ReadRow(raw) /\ Has(raw, EarlyCells)
          /\ Signature(raw, rawCount) \notin seen
          /\ kept' = Append(kept, row)
      BY <2>8 DEF KeepRow, Has, EarlyCells
    <3>2. row.raw_index = rawCount
      BY DEF CleanedRow
    <3> HIDE DEF row
    <3>3. /\ DOMAIN kept' = DOMAIN kept \cup {Len(kept) + 1}
          /\ \A n \in DOMAIN kept : kept'[n] = kept[n]
          /\ kept'[Len(kept) + 1] = row
          /\ DOMAIN kept = 1 .. Len(kept) /\ Len(kept) \in Nat
      BY <2>4, <3>1
    <3>4. {i \in DOMAIN input' : FirstOccurrence(i)'} = first \cup {rawCount + 1}
      BY <2>6, <3>1
    <3>5. {kept'[n].raw_index + 1 : n \in DOMAIN kept'}
            = places \cup {rawCount + 1}
      BY <3>2, <3>3
    <3>6. \A n \in DOMAIN kept : /\ kept[n].raw_index + 1 \in DOMAIN input
                                 /\ kept[n].raw_index < rawCount
      <4>1. DOMAIN input = 1 .. rawCount /\ rawCount \in Nat
        BY <2>4, <2>6, <3>1
      <4>2. QED
        BY <2>3, <2>4, <4>1
    <3>7. \A n \in DOMAIN kept' :
             kept'[n] = CleanedRow(input'[kept'[n].raw_index + 1],
                                   kept'[n].raw_index)
      <4>1. \A n \in DOMAIN kept :
               kept[n] = CleanedRow(input'[kept[n].raw_index + 1],
                                    kept[n].raw_index)
        BY <2>3, <2>6, <3>1, <3>6
      <4>2. row = CleanedRow(input'[row.raw_index + 1], row.raw_index)
        BY <2>6, <3>1, <3>2 DEF row
      <4>3. QED
        BY <3>3, <4>1, <4>2
    <3>8. \A m, n \in DOMAIN kept' :
             m < n => kept'[m].raw_index < kept'[n].raw_index
      BY <2>3, <3>2, <3>3, <3>6
    <3>9. QED
      BY <2>2, <2>3, <3>4, <3>5, <3>7, <3>8 DEF FirstOccurrencesKept
  <2>9. QED
    BY <2>5, <2>7, <2>8
       DEF Next, Clean, CleaningNext, CheckHeader, Unreadable, RaiseOnShortRow,
           EndOfFile, Detect, Record, vars, cleaningVars
<1>3. QED
  BY <1>1, <1>2, TypeCorrect, CountsAlwaysAddUp, SeenRecordedHolds, PTL DEF Spec
-----------------------------------------------------------------------------
(* The median.                                                             *)

LEMMA LargestAmount ==
    ASSUME NEW rows, NEW S, IsFiniteSet(S), S # {},
           \A i \in S : rows[i].amount \in Nat
    PROVE  \E i \in S : \A k \in S : rows[k].amount <= rows[i].amount
<1> DEFINE above(i) == {k \in S : rows[k].amount > rows[i].amount}
           sizes == {Cardinality(above(i)) : i \in S}
<1>1. \A i \in S : IsFiniteSet(above(i)) /\ Cardinality(above(i)) \in Nat
  <2>1. SUFFICES ASSUME NEW i \in S
                 PROVE  IsFiniteSet(above(i)) /\ Cardinality(above(i)) \in Nat
    OBVIOUS
  <2>2. above(i) \in SUBSET S
    OBVIOUS
  <2> HIDE DEF above
  <2>3. QED
    BY <2>2, FS_Subset, FS_CardinalityType
<1>2. PICK c \in sizes : \A d \in sizes : c <= d
  <2>1. sizes \in SUBSET Nat /\ sizes # {}
    BY <1>1
  <2> HIDE DEF sizes
  <2>2. QED
    BY <2>1, LeastNatural
<1>3. PICK i \in S : c = Cardinality(above(i))
  OBVIOUS
<1>4. ASSUME NEW k \in above(i) PROVE FALSE
  <2>1. k \in S /\ above(k) \subseteq above(i) /\ k \notin above(k)
    BY <1>3
  <2>2. above(k) \in SUBSET above(i) /\ above(k) # above(i)
    BY <1>4, <2>1
  <2>3. IsFiniteSet(above(i))
    BY <1>1
  <2>4. Cardinality(above(k)) \in sizes
    BY <2>1
  <2>5. Cardinality(above(i)) <= Cardinality(above(k))
    BY <1>2, <1>3, <2>4
  <2>6. Cardinality(above(k)) \in Nat /\ Cardinality(above(i)) \in Nat
    BY <1>1, <2>1
  <2> HIDE DEF above
  <2>7. Cardinality(above(k)) <= Cardinality(above(i))
        /\ (Cardinality(above(i)) = Cardinality(above(k))
              => above(i) = above(k))
    BY <2>2, <2>3, FS_Subset
  <2>8. QED
    BY <2>2, <2>5, <2>6, <2>7
<1>5. QED
  BY <1>3, <1>4

(* Below n elements lie under the n-th smallest of a finite set, and at    *)
(* least n do not lie above it.                                            *)
LEMMA SmallestExists ==
    ASSUME NEW rows, NEW S, IsFiniteSet(S),
           \A i \in S : rows[i].amount \in Nat,
           NEW n \in 1 .. Cardinality(S)
    PROVE  \E i \in S :
              /\ Cardinality({k \in S : rows[k].amount < rows[i].amount}) < n
              /\ n <= Cardinality({k \in S : rows[k].amount <= rows[i].amount})
<1> DEFINE upTo(i) == {k \in S : rows[k].amount <= rows[i].amount}
           under(i) == {k \in S : rows[k].amount < rows[i].amount}
           enough == {i \in S : n <= Cardinality(upTo(i))}
           amounts == {rows[i].amount : i \in enough}
<1>1. \A T \in SUBSET S : IsFiniteSet(T) /\ Cardinality(T) \in Nat
  BY FS_Subset, FS_CardinalityType
<1>2. S # {} /\ n \in Nat /\ n >= 1 /\ n <= Cardinality(S)
  BY <1>1, FS_EmptySet
<1>3. PICK m \in S : \A k \in S : rows[k].amount <= rows[m].amount
  BY <1>2, LargestAmount
<1>4. upTo(m) = S
  BY <1>3
<1>5. m \in enough
  BY <1>2, <1>4
<1>6. PICK v \in amounts : \A w \in amounts : v <= w
  <2>1. amounts \in SUBSET Nat /\ amounts # {}
    BY <1>5
  <2> HIDE DEF amounts
  <2>2. QED
    BY <2>1, LeastNatural
<1>7. PICK i \in enough : v = rows[i].amount
  OBVIOUS
<1>8. i \in S /\ under(i) \in SUBSET S
  OBVIOUS
<1>9. ASSUME n <= Cardinality(under(i)) PROVE FALSE
  <2>1. under(i) # {}
    BY <1>2, <1>9, FS_EmptySet
  <2>2. \A k \in under(i) : rows[k].amount \in Nat
    BY <1>8
  <2>3. IsFiniteSet(under(i))
    BY <1>1, <1>8
  <2>4. PICK l \in under(i) :
           \A k \in under(i) : rows[k].amount <= rows[l].amount
    <3> HIDE DEF under
    <3>1. QED
      BY <2>1, <2>2, <2>3, LargestAmount
  <2>5. l \in S /\ rows[l].amount < rows[i].amount
    OBVIOUS
  <2>6. upTo(l) = under(i)
    <3>1. \A k \in S : rows[k].amount \in Nat
      OBVIOUS
    <3>2. \A k \in S : rows[k].amount <= rows[l].amount
                          <=> rows[k].amount < rows[i].amount
      BY <1>8, <2>4, <2>5, <3>1
    <3>3. QED
      BY <3>2
  <2>7. rows[l].amount \in amounts
    BY <1>9, <2>5, <2>6
  <2>8. v <= rows[l].amount
    BY <1>6, <2>7
  <2>9. rows[l].amount \in Nat /\ rows[i].amount \in Nat
    BY <1>8, <2>5
  <2> HIDE DEF upTo, under, enough, amounts
  <2>10. QED
    BY <1>7, <2>5, <2>8, <2>9
<1>10. Cardinality(under(i)) < n
  <2>1. Cardinality(under(i)) \in Nat
    BY <1>1, <1>8
  <2> HIDE DEF under
  <2>2. QED
    BY <1>2, <1>9, <2>1
<1>11. n <= Cardinality(upTo(i))
  OBVIOUS
<1>12. QED
  BY <1>8, <1>10, <1>11

LEMMA TwiceAtLeast ==
    ASSUME NEW t \in Nat, NEW m \in Nat, m >= 2
    PROVE  t * m >= 2 * t
<1>1. PICK d \in Nat : m = 2 + d
  <2>1. m - 2 \in Nat /\ m = 2 + (m - 2)
    OBVIOUS
  <2>2. QED
    BY <2>1
<1>2. t * m = 2 * t + t * d /\ t * d \in Nat
  BY <1>1
<1>3. QED
  BY <1>2

(* Of the samples that make up a median, fewer than half are outliers.     *)
LEMMA FewSamplesStandOut ==
    ASSUME kept \in Seq(Row), Multiplier >= 2, NEW account,
           Samples(kept, account) # {}
    PROVE  2 * Cardinality({k \in Samples(kept, account) : IsOutlier(kept, k)})
             < Cardinality(Samples(kept, account))
<1> DEFINE S == Samples(kept, account)
           m == Cardinality(S)
           low == (m + 1) \div 2
           high == m \div 2 + 1
           upTo(n) == {k \in S : kept[k].amount <= Smallest(kept, S, n)}
           O == {k \in S : IsOutlier(kept, k)}
<1>1. IsFiniteSet(S)
  <2>1. S \in SUBSET (1 .. Len(kept)) /\ Len(kept) \in Nat
    BY DEF Samples
  <2> HIDE DEF S
  <2>2. IsFiniteSet(1 .. Len(kept))
    BY <2>1, FS_Interval
  <2>3. QED
    BY <2>1, <2>2, FS_Subset
<1>2. \A k \in S : kept[k].amount \in Nat /\ kept[k].account_id = account
  <2>1. \A k \in DOMAIN kept : kept[k] \in Row
    OBVIOUS
  <2>2. QED
    BY <2>1 DEF Samples, Row
<1>3. S # {}
  OBVIOUS
<1> HIDE DEF S
<1>4. m \in Nat /\ m >= 1
  BY <1>1, <1>3, FS_CardinalityType, FS_EmptySet
<1> HIDE DEF m
<1>5. low \in 1 .. m /\ high \in 1 .. m /\ 2 * high > m
  BY <1>4
<1>6. ASSUME NEW n \in 1 .. m
      PROVE  Smallest(kept, S, n) \in Nat /\ n <= Cardinality(upTo(n))
  <2> DEFINE P(i) ==
          /\ Cardinality({k \in S : kept[k].amount < kept[i].amount}) < n
          /\ n <= Cardinality({k \in S : kept[k].amount <= kept[i].amount})
  <2>1. \E i \in S : P(i)
    BY <1>1, <1>2, SmallestExists DEF m
  <2>2. PICK i \in S : P(i) /\ Smallest(kept, S, n) = kept[i].amount
    BY <2>1 DEF Smallest
  <2>3. QED
    BY <1>2, <2>2
<1>7. ASSUME NEW k \in O PROVE k \notin upTo(high)
  <2>1. k \in S /\ IsOutlier(kept, k) /\ kept[k].account_id = account
    BY <1>2
  <2> DEFINE a == Smallest(kept, S, low)
             b == Smallest(kept, S, high)
  <2>2. 2 * kept[k].amount > (a + b) * Multiplier
    BY <2>1 DEF IsOutlier, TwiceMedian, S, m
  <2>3. a \in Nat /\ b \in Nat /\ kept[k].amount \in Nat
    BY <1>2, <1>5, <1>6, <2>1
  <2> HIDE DEF a, b
  <2>4. (a + b) * Multiplier >= 2 * (a + b)
    BY <2>3, AnomalyAssumption, TwiceAtLeast
  <2>5. (a + b) * Multiplier \in Nat
    BY <2>3, AnomalyAssumption
  <2>6. kept[k].amount > b
    BY <2>2, <2>3, <2>4, <2>5
  <2>7. QED
    BY <2>3, <2>6 DEF b
<1>8. O \in SUBSET S /\ upTo(high) \in SUBSET S /\ O \cap upTo(high) = {}
  BY <1>7
<1>9. high <= Cardinality(upTo(high))
  BY <1>5, <1>6
<1> DEFINE U == upTo(high)
<1> HIDE DEF O, U
<1>10. /\ IsFiniteSet(O) /\ IsFiniteSet(U)
       /\ Cardinality(O) \in Nat /\ Cardinality(U) \in Nat
  BY <1>1, <1>8, FS_Subset, FS_CardinalityType DEF U
<1>11. Cardinality(O \cup U) = Cardinality(O) + Cardinality(U)
  <2>1. Cardinality(O \cap U) = 0
    BY <1>8, FS_EmptySet DEF U
  <2>2. Cardinality(O \cup U)
          = Cardinality(O) + Cardinality(U) - Cardinality(O \cap U)
    BY <1>10, FS_Union
  <2>3. QED
    BY <1>10, <2>1, <2>2
<1>12. Cardinality(O \cup U) <= m
  BY <1>1, <1>8, FS_Subset DEF U, m
<1>13. 2 * Cardinality(O) < m
  <2>1. high <= Cardinality(U)
    BY <1>9 DEF U
  <2>2. high \in Nat
    BY <1>5
  <2> HIDE DEF high
  <2>3. 2 * high > m
    BY <1>5
  <2>4. QED
    BY <1>4, <1>10, <1>11, <1>12, <2>1, <2>2, <2>3
<1>14. QED
  BY <1>13 DEF O, S, m

(* For any factor from two on, fewer than half of the payments of an       *)
(* account exceed its median by the factor.                                *)
THEOREM OutliersAreFew ==
    ASSUME Multiplier >= 2
    PROVE  Spec => []OutliersAreAMinority
<1>1. Init => OutliersAreAMinority
  BY DEF Init, CleaningInit, OutliersAreAMinority
<1>2. RowsTypeOK /\ OutliersAreAMinority /\ [Next]_vars => OutliersAreAMinority'
  <2> SUFFICES ASSUME RowsTypeOK, OutliersAreAMinority, [Next]_vars,
                      phase' = "detected"
               PROVE  OutliersAreAMinority'
    BY DEF OutliersAreAMinority
  <2>1. CASE Detect
    <3>1. kept \in Seq(Row) /\ kept' = kept /\ verdicts' = DetectAnomalies(kept)
      BY <2>1 DEF RowsTypeOK, Detect
    <3>2. \A account : Samples(kept, account) # {} =>
             2 * Cardinality({k \in Samples(kept, account) : IsOutlier(kept, k)})
               < Cardinality(Samples(kept, account))
      BY <3>1, FewSamplesStandOut
    <3>3. \A k \in DOMAIN kept : "outlier" \in verdicts'[k] <=> IsOutlier(kept, k)
      BY <3>1 DEF DetectAnomalies, Reasons
    <3>4. \A account :
             {k \in Samples(kept, account) : "outlier" \in verdicts'[k]}
               = {k \in Samples(kept, account) : IsOutlier(kept, k)}
      BY <3>3 DEF Samples
    <3>5. QED
      BY <3>1, <3>2, <3>4 DEF OutliersAreAMinority
  <2>2. CASE UNCHANGED vars
    BY <2>2 DEF vars, cleaningVars, OutliersAreAMinority
  <2>3. QED
    BY <2>1, <2>2
       DEF Next, Clean, CleaningNext, CheckHeader, Unreadable, KeepRow,
           DropDuplicate, RaiseOnShortRow, ReadRow, EndOfFile, Record, RowsTypeOK
<1>3. QED
  BY <1>1, <1>2, TypeCorrect, PTL DEF Spec

-----------------------------------------------------------------------------
(* The breakdowns.                                                         *)
LEMMA SummaryRecordedHolds == Spec => []SummaryRecorded
<1>1. Init => SummaryRecorded
  BY DEF Init, CleaningInit, SummaryRecorded
<1>2. RowsTypeOK /\ SummaryRecorded /\ [Next]_vars => SummaryRecorded'
  <2> SUFFICES ASSUME RowsTypeOK, SummaryRecorded, [Next]_vars,
                      phase' = "recorded"
               PROVE  SummaryRecorded'
    BY DEF SummaryRecorded
  <2>1. kept' = kept
    BY DEF Next, Clean, CleaningNext, CheckHeader, Unreadable, KeepRow,
           DropDuplicate, RaiseOnShortRow, ReadRow, EndOfFile, Detect, Record,
           vars, cleaningVars
  <2>2. Spend' = Spend
    BY <2>1 DEF Spend, SumOf, AmountOf, WithAmount, MapThenSumSet,
                MapThenFoldSet
  <2>3. CASE Record
    BY <2>1, <2>2, <2>3 DEF Record, FinalCategory, SummaryRecorded
  <2>4. CASE UNCHANGED vars
    BY <2>2, <2>4 DEF vars, cleaningVars, SummaryRecorded
  <2>5. QED
    BY <2>3, <2>4
       DEF Next, Clean, CleaningNext, CheckHeader, Unreadable, KeepRow,
           DropDuplicate, RaiseOnShortRow, ReadRow, EndOfFile, Detect, RowsTypeOK
<1>3. QED
  BY <1>1, <1>2, TypeCorrect, PTL DEF Spec

(* The amounts of a set of rows add up to its number of blocks.            *)
LEMMA AmountsCounted ==
    ASSUME NEW S, IsFiniteSet(S), NEW a,
           \A n \in S : a[n] = AmountOf(n) /\ a[n] \in Nat
    PROVE  SumOf(S) = Cardinality(Blocks(a, S))
<1> DEFINE Step(f) ==
             [s \in SUBSET S |->
                 IF s = {} THEN 0 ELSE AmountOf(Any(s)) + f[s \ {Any(s)}]]
           g == CHOOSE f : f = Step(f)
<1>1. \A s \in SUBSET S : s # {} => a[Any(s)] = AmountOf(Any(s))
  BY DEF Any
<1>2. \A f : Step(f) = SumStep(a, S, f)
  BY <1>1 DEF SumStep
<1>3. SumOf(S) = g[S]
  BY DEF SumOf, MapThenSumSet, MapThenFoldSet, Any
<1> HIDE DEF Step
<1>4. \E f : f = Step(f)
  BY <1>2, SumStepCounts
<1>5. g = Step(g)
  BY <1>4
<1> HIDE DEF g
<1>6. g = SumStep(a, S, g)
  BY <1>2, <1>5
<1>7. QED
  BY <1>3, <1>6, SumStepCounts

LEMMA ImageFinite ==
    ASSUME NEW S, IsFiniteSet(S), NEW k
    PROVE  IsFiniteSet({k[x] : x \in S})
<1> DEFINE f == [x \in S |-> k[x]]
<1>1. f \in Surjection(S, {k[x] : x \in S})
  BY DEF Surjection
<1>2. QED
  BY <1>1, FS_Surjection

(* The total of a breakdown that leaves out no amount.                     *)
LEMMA BreakdownTotal ==
    ASSUME NEW N, IsFiniteSet(N), NEW a, \A n \in N : a[n] \in Nat, NEW k,
           NEW b, IsFiniteSet(DOMAIN b),
           \A c \in DOMAIN b :
               b[c] = Cardinality(Blocks(a, OfKey(N, k, c))),
           \A n \in N : k[n] \notin DOMAIN b => a[n] = 0
    PROVE  Total(b) = Cardinality(Blocks(a, N))
<1> DEFINE D == DOMAIN b
           counted == WithKey(N, k, D)
<1>1. counted \in SUBSET N /\ \A n \in N \ counted : a[n] = 0
  BY DEF WithKey
<1>2. Total(b) = MapThenSumSet(LAMBDA c : b[c], D)
  BY DEF Total
<1>3. IsFiniteSet(D) /\ \A c \in D :
         b[c] = Cardinality(Blocks(a, OfKey(N, k, c)))
  OBVIOUS
<1> HIDE DEF D
<1>4. \A c \in D : b[c] \in Nat
  <2>1. \A c : Cardinality(Blocks(a, OfKey(N, k, c))) \in Nat
    BY SumOfKeyTyped
  <2>2. QED
    BY <1>3, <2>1
<1>5. Cardinality(Blocks(b, D)) = Cardinality(Blocks(a, counted))
  BY <1>3, SumByKeys
<1> HIDE DEF counted
<1>6. Cardinality(Blocks(a, counted)) = Cardinality(Blocks(a, N))
  BY <1>1, BlocksWithin
<1>7. MapThenSumSet(LAMBDA c : b[c], D) = Cardinality(Blocks(b, D))
  BY <1>3, <1>4, SumCounts
<1>8. QED
  BY <1>2, <1>5, <1>6, <1>7

(* The two breakdowns add up to the same, and none leaves a category the   *)
(* file gave it.                                                           *)
THEOREM BreakdownsAreBalanced == Spec => []BreakdownsBalance
<1>1. RowsTypeOK /\ SummaryRecorded => BreakdownsBalance
  <2> SUFFICES ASSUME RowsTypeOK, SummaryRecorded, phase = "recorded"
               PROVE  /\ Total(Breakdown) = Total(spend)
                      /\ \A c \in DOMAIN spend \ {"Uncategorised"} :
                            /\ c \in DOMAIN Breakdown
                            /\ spend[c] <= Breakdown[c]
    BY DEF BreakdownsBalance
  <2> DEFINE N == DOMAIN kept
             a == [n \in N |-> AmountOf(n)]
             came == [n \in N |-> kept[n].category]
             rowsOf(key, c) == OfKey(N, key, c)
  <2>1. /\ spend = Spend /\ DOMAIN category = N
        /\ \A n \in N : kept[n].category # "Uncategorised" =>
                            category[n] = kept[n].category
    BY DEF SummaryRecorded
  <2>2. IsFiniteSet(N)
    <3>1. N = 1 .. Len(kept) /\ Len(kept) \in Nat
      BY DEF RowsTypeOK
    <3>2. QED
      BY <3>1, FS_Interval
  <2>3. \A n \in N : a[n] = AmountOf(n) /\ a[n] \in Nat
    <3>1. \A n \in N : kept[n] \in Row
      BY DEF RowsTypeOK
    <3>2. \A n \in N : kept[n].amount \in (Nat \ {0}) \cup {None}
      BY <3>1 DEF Row
    <3>3. QED
      BY <3>2 DEF AmountOf
  <2>4. WithAmount \in SUBSET N /\ \A n \in N \ WithAmount : a[n] = 0
    BY <2>3 DEF WithAmount, AmountOf
  <2>5. \A S \in SUBSET N : SumOf(S) = Cardinality(Blocks(a, S))
    <3> SUFFICES ASSUME NEW S \in SUBSET N
                 PROVE  SumOf(S) = Cardinality(Blocks(a, S))
      OBVIOUS
    <3>1. IsFiniteSet(S)
      BY <2>2, FS_Subset
    <3> HIDE DEF a
    <3>2. QED
      BY <2>3, <3>1, AmountsCounted
  <2>6. /\ DOMAIN spend = {came[n] : n \in WithAmount}
        /\ \A c \in DOMAIN spend :
              spend[c] = Cardinality(Blocks(a, rowsOf(came, c)))
    <3>1. \A c : /\ rowsOf(came, c) = {n \in N : kept[n].category = c}
                /\ rowsOf(came, c) \in SUBSET N
      BY DEF OfKey
    <3>2. DOMAIN spend = {came[n] : n \in WithAmount}
      BY <2>1, <2>4 DEF Spend
    <3>3. \A c \in DOMAIN spend :
             spend[c] = SumOf({n \in N : kept[n].category = c})
      BY <2>1 DEF Spend
    <3> HIDE DEF a, came
    <3>4. QED
      BY <2>5, <3>1, <3>2, <3>3
  <2>7. /\ DOMAIN Breakdown = {category[n] : n \in N}
        /\ \A c \in DOMAIN Breakdown :
              Breakdown[c] = Cardinality(Blocks(a, rowsOf(category, c)))
    <3>1. /\ DOMAIN Breakdown = {category[n] : n \in N}
          /\ \A c \in DOMAIN Breakdown :
                Breakdown[c] = SumOf(rowsOf(category, c))
      BY <2>1 DEF Breakdown, OfKey
    <3>2. \A c : rowsOf(category, c) \in SUBSET N
      BY DEF OfKey
    <3> HIDE DEF a
    <3>3. QED
      BY <2>5, <3>1, <3>2
  <2>8. \A c \in DOMAIN spend \ {"Uncategorised"} :
           /\ rowsOf(came, c) \in SUBSET rowsOf(category, c)
           /\ rowsOf(category, c) \in SUBSET N
    BY <2>1 DEF OfKey
  <2>9. \A c \in DOMAIN spend \ {"Uncategorised"} : c \in DOMAIN Breakdown
    BY <2>1, <2>4, <2>6, <2>7
  <2>10. /\ IsFiniteSet(DOMAIN spend)
         /\ \A n \in N : came[n] \notin DOMAIN spend => a[n] = 0
    <3>1. IsFiniteSet(WithAmount)
      BY <2>2, <2>4, FS_Subset
    <3> HIDE DEF a, came
    <3>2. IsFiniteSet({came[n] : n \in WithAmount})
      BY <3>1, ImageFinite
    <3>3. QED
      BY <2>4, <2>6, <3>2
  <2>11. /\ IsFiniteSet(DOMAIN Breakdown)
         /\ \A n \in N : category[n] \in DOMAIN Breakdown
    <3>1. IsFiniteSet({category[n] : n \in N})
      BY <2>2, ImageFinite
    <3>2. QED
      BY <2>7, <3>1
  <2> HIDE DEF N, a, came
  <2>12. Total(spend) = Cardinality(Blocks(a, N))
    BY <2>2, <2>3, <2>6, <2>10, BreakdownTotal
  <2>13. Total(Breakdown) = Cardinality(Blocks(a, N))
    BY <2>2, <2>3, <2>7, <2>11, BreakdownTotal
  <2>14. ASSUME NEW c \in DOMAIN spend \ {"Uncategorised"}
         PROVE  spend[c] <= Breakdown[c]
    <3> DEFINE S == rowsOf(category, c)
               P == rowsOf(came, c)
    <3>1. S \in SUBSET N /\ P \in SUBSET S
      BY <2>8
    <3>2. /\ spend[c] = Cardinality(Blocks(a, P))
          /\ Breakdown[c] = Cardinality(Blocks(a, S))
      BY <2>6, <2>7, <2>9
    <3> HIDE DEF S, P
    <3>3. IsFiniteSet(S) /\ \A n \in S : a[n] \in Nat
      BY <2>2, <2>3, <3>1, FS_Subset
    <3>4. Cardinality(Blocks(a, P)) <= Cardinality(Blocks(a, S))
      BY <3>1, <3>3, BlocksWithin
    <3>5. QED
      BY <3>2, <3>4
  <2>15. QED
    BY <2>9, <2>12, <2>13, <2>14
<1>2. QED
  BY <1>1, TypeCorrect, SummaryRecordedHolds, PTL
=============================================================================
