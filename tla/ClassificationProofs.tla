------------------------ MODULE ClassificationProofs ------------------------
(***************************************************************************)
(* Theorems about Classification, for any number of rows, any batch size   *)
(* and any answers.                                                        *)
(***************************************************************************)
EXTENDS Classification, FiniteSetTheorems, FunctionTheorems, TLAPS

LEMMA FiniteRows == IsFiniteSet(Uncategorised)
<1>1. RowCount - 1 \in Int
  BY RowsAssumption
<1>2. IsFiniteSet(Positions)
  BY <1>1, FS_Interval DEF Positions
<1> QED
  BY <1>2, RowsAssumption, FS_Subset

(* A row's place in the list of the uncategorised lies within the list.    *)
LEMMA RankInList ==
    ASSUME NEW i \in Uncategorised
    PROVE  Rank(i) \in Nat /\ Rank(i) < Cardinality(Uncategorised)
<1> DEFINE before == {k \in Uncategorised : k < i}
<1>1. IsFiniteSet(Uncategorised)
  BY FiniteRows
<1>2. before \subseteq Uncategorised /\ i \notin before
  BY RowsAssumption DEF Positions
<1>3. /\ IsFiniteSet(before)
      /\ Cardinality(before) <= Cardinality(Uncategorised)
      /\ Cardinality(before) = Cardinality(Uncategorised)
            => before = Uncategorised
  BY <1>1, <1>2, FS_Subset
<1>4. Cardinality(before) \in Nat /\ Cardinality(Uncategorised) \in Nat
  BY <1>1, <1>3, FS_CardinalityType
<1> QED
  BY <1>2, <1>3, <1>4 DEF Rank

LEMMA ListLength == Cardinality(Uncategorised) \in Nat
  BY FiniteRows, FS_CardinalityType

(* What is sent are uncategorised rows, and these are keys.                *)
LEMMA BatchRows == Batch \subseteq Uncategorised /\ Uncategorised \subseteq Keys
  BY RowsAssumption DEF Batch

-----------------------------------------------------------------------------
(* The powers of two, which the provers do not know: there are 2 ^ n sets  *)
(* of numbers up to n, and each of them with n + 1 is one more.            *)
LEMMA PowerIsNat ==
    ASSUME NEW n \in Nat
    PROVE  /\ 2 ^ n \in Nat
           /\ IsFiniteSet(SUBSET (1 .. n))
           /\ Cardinality(SUBSET (1 .. n)) = 2 ^ n
<1>1. IsFiniteSet(1 .. n) /\ Cardinality(1 .. n) = n
  BY FS_Interval
<1>2. /\ IsFiniteSet(SUBSET (1 .. n))
      /\ Cardinality(SUBSET (1 .. n)) = 2 ^ n
  BY <1>1, FS_SUBSET
<1>3. QED
  BY <1>2, FS_CardinalityType

LEMMA PowersOfTwo ==
    /\ 2 ^ 0 = 1
    /\ \A n \in Nat : 2 ^ n \in Nat /\ 2 ^ (n + 1) = 2 * 2 ^ n
<1>1. 2 ^ 0 = 1
  <2>1. SUBSET (1 .. 0) = {{}}
    OBVIOUS
  <2>2. Cardinality({{}}) = 1
    BY FS_Singleton
  <2>3. QED
    BY <2>1, <2>2, PowerIsNat
<1>2. ASSUME NEW n \in Nat PROVE 2 ^ (n + 1) = 2 * 2 ^ n
  <2> DEFINE old == SUBSET (1 .. n)
             new == {T \cup {n + 1} : T \in old}
  <2>1. SUBSET (1 .. n + 1) = old \cup new
    <3>1. 1 .. n + 1 = (1 .. n) \cup {n + 1}
      OBVIOUS
    <3>2. ASSUME NEW T \in SUBSET (1 .. n + 1), n + 1 \in T
          PROVE  T \in new
      <4>1. T \ {n + 1} \in old /\ T = (T \ {n + 1}) \cup {n + 1}
        BY <3>1, <3>2
      <4>2. QED
        BY <4>1
    <3>3. ASSUME NEW T \in SUBSET (1 .. n + 1), n + 1 \notin T
          PROVE  T \in old
      BY <3>1, <3>3
    <3>4. old \cup new \subseteq SUBSET (1 .. n + 1)
      BY <3>1
    <3>5. QED
      BY <3>2, <3>3, <3>4
  <2>2. n + 1 \notin 1 .. n
    OBVIOUS
  <2>3. old \cap new = {}
    BY <2>2
  <2>4. IsFiniteSet(old) /\ Cardinality(old) = 2 ^ n /\ 2 ^ n \in Nat
    BY PowerIsNat
  <2>5. IsFiniteSet(new) /\ Cardinality(new) = 2 ^ n
    <3> DEFINE f == [T \in old |-> T \cup {n + 1}]
    <3>1. f \in Bijection(old, new)
      <4>1. f \in [old -> new]
        OBVIOUS
      <4>2. ASSUME NEW S \in old, NEW T \in old, f[S] = f[T]
            PROVE  S = T
        BY <2>2, <4>2
      <4>3. \A V \in new : \E T \in old : f[T] = V
        OBVIOUS
      <4>4. QED
        BY <4>1, <4>2, <4>3, Fun_IsBij
    <3> HIDE DEF f, old, new
    <3>2. QED
      BY <2>4, <3>1, FS_Bijection DEF ExistsBijection
  <2> HIDE DEF old, new
  <2>6. Cardinality(old \cap new) = 0
    BY <2>3, FS_EmptySet
  <2>7. Cardinality(old \cup new) = 2 ^ n + 2 ^ n
    BY <2>4, <2>5, <2>6, FS_Union
  <2>8. Cardinality(old \cup new) = 2 ^ (n + 1)
    BY <2>1, PowerIsNat
  <2>9. QED
    BY <2>4, <2>7, <2>8
<1>3. QED
  BY <1>1, <1>2, PowerIsNat

-----------------------------------------------------------------------------
(* The results hold valid categories only, whatever the model answers, and *)
(* no call is tried more than llm_retry_max times.                         *)
THEOREM TypeCorrect == Spec => []TypeOK
<1> USE DEF TypeOK, Over
<1>1. Init => TypeOK
  BY SettingsAssumption DEF Init
<1>2. TypeOK /\ [Next]_vars => TypeOK'
  <2> SUFFICES ASSUME TypeOK, [Next]_vars PROVE TypeOK'
    OBVIOUS
  <2> USE SettingsAssumption
  <2>1. CASE AttemptFails
    <3>1. attempt \in 0 .. RetryMax /\ Delay(attempt) \in Nat
      BY PowersOfTwo DEF Delay
    <3> QED BY <2>1, <3>1 DEF AttemptFails, Attempt
  <2>2. CASE WrongShape
    BY <2>2 DEF WrongShape
  <2>3. CASE FailBatch
    <3>1. results' \in [Keys -> ValidCategories \cup {"none", "failed"}]
      BY <2>3, BatchRows DEF FailBatch, Flag
    <3> QED BY <2>3, <3>1, BatchRows DEF FailBatch, NextBatch
  <2>4. CASE AnswerBatch
    <3>1. results' \in [Keys -> ValidCategories \cup {"none", "failed"}]
      BY <2>4, ModelAssumption DEF AnswerBatch, Validated
    <3>2. omitted' \subseteq Uncategorised
      BY <2>4, BatchRows DEF AnswerBatch
    <3> QED BY <2>4, <3>1, <3>2 DEF AnswerBatch, NextBatch
  <2>5. CASE StoreRecords
    BY <2>5 DEF StoreRecords
  <2>6. CASE Narrate
    BY <2>6 DEF Narrate
  <2>7. CASE TimeUp
    BY <2>7 DEF TimeUp
  <2>8. CASE UNCHANGED vars
    BY <2>8 DEF vars
  <2> QED
    BY <2>1, <2>2, <2>3, <2>4, <2>5, <2>6, <2>7, <2>8 DEF Next
<1> QED
  BY <1>1, <1>2, PTL DEF Spec

-----------------------------------------------------------------------------
(* A failed batch flags its own rows and no others, and no row of it is    *)
(* forgotten, in whatever order batches fail and answers stray.            *)
THEOREM FlagsAreTrue == Spec => []FlagsTellTheTruth
<1> USE DEF FlagsTellTheTruth
<1>1. Init => FlagsTellTheTruth
  BY DEF Init
<1>2. TypeOK /\ FlagsTellTheTruth /\ [Next]_vars => FlagsTellTheTruth'
  <2> SUFFICES ASSUME TypeOK, FlagsTellTheTruth, [Next]_vars
               PROVE  FlagsTellTheTruth'
    OBVIOUS
  <2>1. CASE FailBatch
    <3>1. \A k \in Keys :
            results'[k] = IF k \in Batch THEN "failed" ELSE results[k]
      BY <2>1, BatchRows DEF FailBatch, TypeOK, Flag
    <3> QED BY <2>1, <3>1, BatchRows DEF FailBatch, TypeOK
  <2>2. CASE AnswerBatch
    <3>1. PICK a \in Answers :
            results' = [k \in Keys |->
                IF a[k] = "none" THEN results[k] ELSE Validated(a[k])]
      BY <2>2 DEF AnswerBatch
    <3>2. \A c : Validated(c) \notin {"none", "failed"}
      BY ModelAssumption DEF Validated
    <3> QED BY <2>2, <3>1, <3>2, BatchRows DEF AnswerBatch, TypeOK
  <2>3. CASE UNCHANGED <<results, lost>>
    BY <2>3
  <2> QED
    BY <2>1, <2>2, <2>3
       DEF Next, AttemptFails, WrongShape, StoreRecords, Narrate, TimeUp, vars
<1> QED
  BY <1>1, <1>2, TypeCorrect, PTL DEF Spec

-----------------------------------------------------------------------------
(* However batches fail and indices stray, no record lies: rows keep the   *)
(* category they came with, flags and classifications exclude each other,  *)
(* and a row of a failed batch is flagged unless another answer named it.  *)
THEOREM RecordsHonest == Spec => []RecordsAreHonest
<1>1. TypeOK /\ FlagsTellTheTruth => RecordsAreHonest
  <2> SUFFICES ASSUME TypeOK, FlagsTellTheTruth, NEW i \in Positions
               PROVE  LET r == Record(i)
                      IN  /\ i \notin Uncategorised =>
                                r.category = "own" /\ r.llm = "none" /\ ~r.failed
                          /\ r.failed =>
                                i \in lost /\ r.category = "Uncategorised"
                          /\ i \in lost => r.failed \/ r.llm # "none"
                          /\ r.llm # "none" =>
                                r.category = r.llm /\ r.llm \in ValidCategories
    BY DEF RecordsAreHonest
  <2>1. /\ results[i] \in ValidCategories \cup {"none", "failed"}
        /\ results[i] = "failed" => i \in lost
        /\ i \in lost => results[i] # "none" /\ i \in Uncategorised
    BY RowsAssumption DEF TypeOK, FlagsTellTheTruth
  <2>2. CASE i \notin Uncategorised
    BY <2>1, <2>2 DEF Record
  <2>3. CASE i \in Uncategorised /\ results[i] \in {"none", "failed"}
    BY <2>1, <2>3 DEF Record
  <2>4. CASE i \in Uncategorised /\ results[i] \in ValidCategories
    BY <2>1, <2>4, ModelAssumption DEF Record
  <2>5. QED
    BY <2>1, <2>2, <2>3, <2>4
<1>2. QED
  BY <1>1, TypeCorrect, FlagsAreTrue, PTL

-----------------------------------------------------------------------------
(* Every uncategorised row of the stored records is classified or flagged, *)
(* or was left out by the answer to its batch: the batches leave no row    *)
(* out, and no later batch takes a decision away.                          *)
THEOREM RowsDecided == Spec => []EveryRowDecided
<1>1. Init => SentRowsDecided
  <2> SUFFICES ASSUME Init PROVE SentRowsDecided
    OBVIOUS
  <2>1. \A i \in Uncategorised : ~(Rank(i) < start)
    BY RankInList DEF Init
  <2> QED BY <2>1 DEF Init, SentRowsDecided, Stored
<1>2. TypeOK /\ SentRowsDecided /\ [Next]_vars => SentRowsDecided'
  <2> SUFFICES ASSUME TypeOK, SentRowsDecided, [Next]_vars
               PROVE  SentRowsDecided'
    OBVIOUS
  <2>r. \A i \in Uncategorised : Rank(i) \in Nat /\ Rank(i)' = Rank(i)
    BY RankInList DEF Rank
  <2>1. ASSUME FailBatch \/ AnswerBatch,
               omitted \subseteq omitted',
               \A i \in Batch \ omitted' : results'[i] # "none",
               \A i \in Uncategorised :
                  results[i] # "none" => results'[i] # "none"
        PROVE  SentRowsDecided'
    <3>1. start' = start + BatchSize /\ phase' = phase /\ phase = "classifying"
      BY <2>1 DEF FailBatch, AnswerBatch, NextBatch
    <3>2. ASSUME NEW i \in Uncategorised \ omitted', Rank(i) < start'
          PROVE  results'[i] # "none"
      <4>1. CASE Rank(i) < start
        BY <4>1, <2>1 DEF SentRowsDecided
      <4>2. CASE ~(Rank(i) < start)
        <5>1. i \in Batch
          BY <4>2, <3>1, <3>2, <2>r, SettingsAssumption DEF Batch, TypeOK
        <5> QED BY <5>1, <2>1
      <4> QED BY <4>1, <4>2
    <3> QED BY <3>1, <3>2, <2>r DEF SentRowsDecided, Stored
  <2>2. CASE FailBatch
    <3>1. \A k \in Keys :
            results'[k] = IF k \in Batch THEN "failed" ELSE results[k]
      BY <2>2, BatchRows DEF FailBatch, TypeOK, Flag
    <3>2. omitted' = omitted
      BY <2>2 DEF FailBatch
    <3> QED BY <2>1, <2>2, <3>1, <3>2, BatchRows
  <2>3. CASE AnswerBatch
    <3>1. PICK a \in Answers :
            /\ results' = [k \in Keys |->
                  IF a[k] = "none" THEN results[k] ELSE Validated(a[k])]
            /\ omitted' = omitted \cup {i \in Batch : a[i] = "none"}
      BY <2>3 DEF AnswerBatch
    <3>2. \A c : Validated(c) # "none"
      BY ModelAssumption DEF Validated
    <3>3. \A i \in Batch \ omitted' : a[i] # "none"
      BY <3>1
    <3> QED BY <2>1, <2>3, <3>1, <3>2, <3>3, BatchRows
  <2>4. CASE StoreRecords
    BY <2>4, <2>r DEF StoreRecords, SentRowsDecided, Stored, BatchesLeft
  <2>5. CASE Narrate
    BY <2>5, <2>r DEF Narrate, SentRowsDecided, Stored, BatchesLeft
  <2>6. CASE AttemptFails \/ WrongShape \/ TimeUp \/ UNCHANGED vars
    BY <2>6, <2>r
       DEF AttemptFails, WrongShape, TimeUp, vars,
           SentRowsDecided, Stored, BatchesLeft
  <2> QED
    BY <2>2, <2>3, <2>4, <2>5, <2>6 DEF Next
<1>3. TypeOK /\ SentRowsDecided => EveryRowDecided
  <2> SUFFICES ASSUME TypeOK, SentRowsDecided, Stored,
                      NEW i \in Uncategorised \ omitted
               PROVE  Record(i).llm # "none" \/ Record(i).failed
    BY DEF EveryRowDecided
  <2>1. Rank(i) < start
    BY RankInList, ListLength DEF SentRowsDecided, BatchesLeft, TypeOK
  <2>2. results[i] # "none"
    BY <2>1 DEF SentRowsDecided
  <2> QED BY <2>2 DEF Record
<1> QED
  BY <1>1, <1>2, <1>3, TypeCorrect, PTL DEF Spec

-----------------------------------------------------------------------------
(* The time of a task.                                                     *)

(* Powers of two grow with the exponent.                                   *)
LEMMA PowersGrow ==
    ASSUME NEW m \in Nat, NEW a \in 0 .. m
    PROVE  1 <= 2 ^ a /\ 2 ^ a <= 2 ^ m
<1> DEFINE fewer == SUBSET (1 .. a)
           more == SUBSET (1 .. m)
<1>1. a \in Nat /\ fewer \in SUBSET more /\ {} \in fewer
  OBVIOUS
<1>2. /\ IsFiniteSet(fewer) /\ Cardinality(fewer) = 2 ^ a /\ 2 ^ a \in Nat
      /\ IsFiniteSet(more) /\ Cardinality(more) = 2 ^ m /\ 2 ^ m \in Nat
  BY <1>1, PowerIsNat
<1> HIDE DEF fewer, more
<1>3. Cardinality(fewer) <= Cardinality(more)
  BY <1>1, <1>2, FS_Subset
<1>4. Cardinality(fewer) # 0
  BY <1>1, <1>2, FS_EmptySet
<1>5. QED
  BY <1>2, <1>3, <1>4

LEMMA ProductGrows ==
    ASSUME NEW b \in Nat, NEW x \in Nat, NEW y \in Nat, x <= y
    PROVE  b * x <= b * y
<1>1. PICK d \in Nat : y = x + d
  <2>1. y - x \in Nat /\ y = x + (y - x)
    OBVIOUS
  <2>2. QED
    BY <2>1
<1>2. b * y = b * x + b * d /\ b * d \in Nat /\ b * x \in Nat
  BY <1>1
<1>3. QED
  BY <1>2

(* A multiple of the batch size, divided by it.                            *)
LEMMA MultipleDivided ==
    ASSUME NEW n \in Nat, NEW b \in Nat \ {0}
    PROVE  (n * b) \div b = n
OBVIOUS

(* What a call has cost after a failed attempts: one more adds its time    *)
(* and its delay, and no call costs more than all its attempts.            *)
LEMMA CallSoFar ==
    ASSUME NEW a \in 0 .. RetryMax
    PROVE  LET cost(k) == k * CallTimeout + BaseDelay * (2 ^ k - 1)
           IN  /\ cost(a) \in Nat
               /\ Delay(a) \in Nat
               /\ cost(a) + CallTimeout + Delay(a) = cost(a + 1)
               /\ cost(a) <= CallCost
               /\ a < RetryMax => cost(a) + CallTimeout <= CallCost
               /\ CallCost \in Nat
               /\ cost(0) = 0
<1> USE SettingsAssumption
<1>1. /\ 2 ^ a \in Nat /\ 1 <= 2 ^ a /\ 2 ^ a <= 2 ^ RetryMax
      /\ 2 ^ RetryMax \in Nat /\ 2 ^ (a + 1) = 2 * 2 ^ a /\ 2 ^ 0 = 1
  BY PowersGrow, PowersOfTwo
<1> DEFINE p == 2 ^ a
           q == 2 ^ RetryMax
<1>2. /\ BaseDelay * (p - 1) \in Nat /\ BaseDelay * (q - 1) \in Nat
      /\ BaseDelay * p \in Nat
  <2> HIDE DEF p, q
  <2>1. p \in Nat /\ p - 1 \in Nat /\ q - 1 \in Nat
    BY <1>1 DEF p, q
  <2>2. QED
    BY <2>1
<1>3. BaseDelay * (p - 1) <= BaseDelay * (q - 1)
  <2>1. p - 1 \in Nat /\ q - 1 \in Nat /\ p - 1 <= q - 1
    BY <1>1
  <2> HIDE DEF p, q
  <2>2. QED
    BY <2>1, ProductGrows
<1>4. BaseDelay * (p - 1) + BaseDelay * p = BaseDelay * (2 * p - 1)
  <2>1. p \in Nat
    BY <1>1
  <2> HIDE DEF p
  <2>2. QED
    BY <2>1
<1>5. /\ a * CallTimeout \in Nat /\ RetryMax * CallTimeout \in Nat
      /\ a * CallTimeout + CallTimeout = (a + 1) * CallTimeout
      /\ 0 * CallTimeout = 0
  OBVIOUS
<1>6. /\ a * CallTimeout <= RetryMax * CallTimeout
      /\ a < RetryMax => (a + 1) * CallTimeout <= RetryMax * CallTimeout
  <2>1. /\ CallTimeout * a <= CallTimeout * RetryMax
        /\ a < RetryMax => CallTimeout * (a + 1) <= CallTimeout * RetryMax
    BY ProductGrows
  <2>2. /\ CallTimeout * a = a * CallTimeout
        /\ CallTimeout * (a + 1) = (a + 1) * CallTimeout
        /\ CallTimeout * RetryMax = RetryMax * CallTimeout
    OBVIOUS
  <2>3. QED
    BY <2>1, <2>2
<1>7. /\ CallCost = RetryMax * CallTimeout + BaseDelay * (q - 1)
      /\ Delay(a) = BaseDelay * p
      /\ BaseDelay * (2 ^ (a + 1) - 1) = BaseDelay * (2 * p - 1)
      /\ BaseDelay * (2 ^ 0 - 1) = 0
  BY <1>1 DEF CallCost, MaxBackoff, Delay
<1> HIDE DEF p, q
<1> DEFINE x == a * CallTimeout
           y == RetryMax * CallTimeout
           z == (a + 1) * CallTimeout
           b == BaseDelay * (p - 1)
           c == BaseDelay * (q - 1)
<1>8. /\ x + b \in Nat
      /\ BaseDelay * p \in Nat
      /\ x + b + CallTimeout + BaseDelay * p = z + BaseDelay * (2 * p - 1)
      /\ x + b <= y + c
      /\ a < RetryMax => x + b + CallTimeout <= y + c
      /\ y + c \in Nat
  <2>1. /\ x \in Nat /\ y \in Nat /\ b \in Nat /\ c \in Nat
        /\ x + CallTimeout = z /\ x <= y /\ b <= c
        /\ a < RetryMax => z <= y
        /\ BaseDelay * p \in Nat
        /\ b + BaseDelay * p = BaseDelay * (2 * p - 1)
    BY <1>2, <1>3, <1>4, <1>5, <1>6
  <2> HIDE DEF x, y, z, b, c
  <2>2. QED
    BY <2>1
<1>9. QED
  BY <1>5, <1>7, <1>8 DEF p

LEMMA DivisionBounds ==
    ASSUME NEW n \in Nat, NEW b \in Nat \ {0}, NEW c \in Nat, n * b <= c
    PROVE  n <= c \div b
OBVIOUS

(* Each batch that is done has cost at most one call and one pause,        *)
(* however its calls went; the call under way what its attempts have cost  *)
(* so far.                                                                 *)
LEMMA ElapsedSoFarHolds == Spec => []ElapsedSoFar
<1> DEFINE behind(n) == n * (CallCost + BatchPause)
           cost(k) == k * CallTimeout + BaseDelay * (2 ^ k - 1)
<1>1. Init => ElapsedSoFar
  <2> SUFFICES ASSUME Init PROVE ElapsedSoFar
    OBVIOUS
  <2>1. cost(0) = 0 /\ CallCost \in Nat
    BY CallSoFar, SettingsAssumption
  <2>2. behind(0) = 0 /\ 0 * BatchSize = 0
    BY <2>1, SettingsAssumption
  <2>3. CostSoFar = 0
    BY <2>1 DEF Init, CostSoFar, Over
  <2>4. /\ start = 0 * BatchSize
        /\ start < Cardinality(Uncategorised) + BatchSize
        /\ elapsed <= WorkTime + behind(0) + CostSoFar
    BY <2>2, <2>3, ListLength, SettingsAssumption DEF Init
  <2>5. QED
    BY <2>4 DEF ElapsedSoFar
<1>2. TypeOK /\ ElapsedSoFar /\ [Next]_vars => ElapsedSoFar'
  <2> SUFFICES ASSUME TypeOK, ElapsedSoFar, [Next]_vars PROVE ElapsedSoFar'
    OBVIOUS
  <2>1. PICK n \in Nat : /\ start = n * BatchSize
                         /\ start < Cardinality(Uncategorised) + BatchSize
                         /\ elapsed <= WorkTime + behind(n) + CostSoFar
    BY DEF ElapsedSoFar
  <2>2. /\ cost(attempt) \in Nat /\ CallCost \in Nat /\ Delay(attempt) \in Nat
        /\ cost(attempt) <= CallCost /\ cost(0) = 0
        /\ attempt < RetryMax => cost(attempt) + CallTimeout <= CallCost
        /\ cost(attempt) + CallTimeout + Delay(attempt) = cost(attempt + 1)
    BY CallSoFar DEF TypeOK
  <2>3. /\ behind(n) \in Nat
        /\ behind(n + 1) = behind(n) + CallCost + BatchPause
        /\ (n + 1) * BatchSize = n * BatchSize + BatchSize
    BY <2>2, SettingsAssumption
  <2>4. \A s \in CallTimes \cup {0} : s \in Nat /\ s <= CallTimeout
    BY SettingsAssumption
  <2>5. phase \notin Over => CostSoFar = cost(attempt)
    BY DEF CostSoFar
  <2>6. CostSoFar' = IF phase' \in Over THEN CallCost ELSE cost(attempt')
    BY DEF CostSoFar
  <2>s. WorkTime \in Nat /\ BatchPause \in Nat /\ CallTimeout \in Nat
        /\ elapsed \in Nat /\ attempt \in Nat
    BY SettingsAssumption DEF TypeOK
  <2> HIDE DEF behind, cost
  <2>7. CASE AttemptFails
    <3>1. PICK s \in CallTimes : /\ Attempt(s)
                                 /\ elapsed' = elapsed + s + Delay(attempt)
      BY <2>7 DEF AttemptFails
    <3>2. phase \notin Over /\ phase' = phase /\ attempt' = attempt + 1
      BY <2>7, <3>1 DEF AttemptFails, Attempt, Calling, Over
    <3>3. elapsed' <= WorkTime + behind(n) + cost(attempt + 1)
      BY <2>1, <2>2, <2>3, <2>4, <2>5, <2>s, <3>1, <3>2
    <3>4. elapsed' <= WorkTime + behind(n) + CostSoFar'
      BY <2>6, <3>2, <3>3
    <3>5. start' = n * BatchSize /\ start' = start
      BY <2>1, <2>7 DEF AttemptFails
    <3>6. QED
      BY <2>1, <3>4, <3>5 DEF ElapsedSoFar, behind
  <2>8. CASE FailBatch \/ AnswerBatch
    <3>1. PICK s \in CallTimes \cup {0} :
            /\ attempt < RetryMax \/ s = 0
            /\ NextBatch(s)
      BY <2>8 DEF FailBatch, AnswerBatch, CallFails, Attempt
    <3>2. phase = "classifying" /\ BatchesLeft
      BY <2>8 DEF FailBatch, AnswerBatch, CallFails, Attempt, Calling
    <3>3. /\ start' = start + BatchSize /\ attempt' = 0
          /\ elapsed' = elapsed + s + BatchPause /\ phase' = "classifying"
      BY <3>1, <3>2 DEF NextBatch
    <3>4. CostSoFar = cost(attempt) /\ CostSoFar' = 0
      BY <2>2, <2>5, <2>6, <3>2, <3>3 DEF Over
    <3>5. elapsed + s <= WorkTime + behind(n) + CallCost
      BY <2>1, <2>2, <2>3, <2>4, <2>s, <3>1, <3>4
    <3>6. elapsed' <= WorkTime + behind(n + 1) + CostSoFar'
      BY <2>2, <2>3, <2>4, <2>s, <3>3, <3>4, <3>5
    <3>7. start' = (n + 1) * BatchSize
      BY <2>1, <2>3, <3>3
    <3>8. start' < Cardinality(Uncategorised) + BatchSize
      BY <3>2, <3>3, ListLength, SettingsAssumption DEF BatchesLeft, TypeOK
    <3>9. QED
      BY <3>6, <3>7, <3>8 DEF ElapsedSoFar, behind
  <2>9. CASE WrongShape \/ Narrate
    <3>1. PICK s \in CallTimes \cup {0} :
            /\ attempt < RetryMax \/ s = 0
            /\ elapsed' = elapsed + s
      BY <2>9 DEF WrongShape, Narrate, CallFails, Attempt
    <3>2. phase \notin Over /\ phase' \in Over
      BY <2>9 DEF WrongShape, Narrate, Attempt, Calling, Over
    <3>3. elapsed' <= WorkTime + behind(n) + CallCost
      BY <2>1, <2>2, <2>3, <2>4, <2>5, <2>s, <3>1, <3>2
    <3>4. elapsed' <= WorkTime + behind(n) + CostSoFar'
      BY <2>6, <3>2, <3>3
    <3>5. start' = n * BatchSize /\ start' = start
      BY <2>1, <2>9 DEF WrongShape, Narrate
    <3>6. QED
      BY <2>1, <3>4, <3>5 DEF ElapsedSoFar, behind
  <2>10. CASE StoreRecords \/ TimeUp \/ UNCHANGED vars
    <3>1. /\ start' = start /\ attempt' = attempt /\ elapsed' = elapsed
          /\ phase' = phase \/ phase \notin Over
      BY <2>10 DEF StoreRecords, TimeUp, vars, Over
    <3>2. /\ CostSoFar \in Nat /\ CostSoFar' \in Nat
          /\ CostSoFar <= CostSoFar'
      <4>1. CostSoFar = IF phase \in Over THEN CallCost ELSE cost(attempt)
        BY DEF CostSoFar, cost
      <4>2. attempt' = attempt /\ (phase' = phase \/ phase \notin Over)
        BY <3>1
      <4>3. CASE phase' = phase
        BY <2>2, <2>6, <4>1, <4>2, <4>3
      <4>4. CASE phase \notin Over
        BY <2>2, <2>6, <4>1, <4>2, <4>4
      <4>5. QED
        BY <4>2, <4>3, <4>4
    <3>4. elapsed' <= WorkTime + behind(n) + CostSoFar'
      BY <2>1, <2>3, <2>s, <3>1, <3>2
    <3>5. QED
      BY <2>1, <3>1, <3>4 DEF ElapsedSoFar, behind
  <2>11. QED
    BY <2>7, <2>8, <2>9, <2>10 DEF Next
<1>3. QED
  BY <1>1, <1>2, TypeCorrect, PTL DEF Spec

(* What that comes to in any state.                                        *)
LEMMA ElapsedAtMost ==
    ASSUME TypeOK, ElapsedSoFar
    PROVE  /\ elapsed <= WorkTime + (start \div BatchSize) * (CallCost + BatchPause)
                            + CallCost
           /\ start \div BatchSize \in Nat
           /\ start \div BatchSize <= BatchCount
           /\ BatchCount \in Nat
<1> DEFINE behind(n) == n * (CallCost + BatchPause)
           rest == Cardinality(Uncategorised) + BatchSize - 1
<1>1. PICK n \in Nat : /\ start = n * BatchSize
                       /\ start < Cardinality(Uncategorised) + BatchSize
                       /\ elapsed <= WorkTime + behind(n) + CostSoFar
  BY DEF ElapsedSoFar
<1>2. start \div BatchSize = n
  BY <1>1, MultipleDivided, SettingsAssumption
<1>3. /\ CostSoFar \in Nat /\ CallCost \in Nat
      /\ CostSoFar <= CallCost
  BY CallSoFar DEF TypeOK, CostSoFar
<1>4. behind(n) \in Nat
  BY <1>3, SettingsAssumption
<1>5. rest \in Nat /\ n * BatchSize <= rest
  BY <1>1, ListLength, SettingsAssumption DEF TypeOK
<1>6. n <= BatchCount
  <2> HIDE DEF rest
  <2>1. n <= rest \div BatchSize
    BY <1>5, DivisionBounds, SettingsAssumption
  <2>2. QED
    BY <2>1 DEF BatchCount, rest
<1>7. BatchCount \in Nat
  <2> HIDE DEF rest
  <2>1. rest \div BatchSize \in Nat
    BY <1>5, SettingsAssumption
  <2>2. QED
    BY <2>1 DEF BatchCount, rest
<1>8. elapsed <= WorkTime + behind(n) + CallCost
  <2> HIDE DEF behind
  <2>1. QED
    BY <1>1, <1>3, <1>4, SettingsAssumption DEF TypeOK
<1>9. QED
  BY <1>2, <1>6, <1>7, <1>8

(* With any settings and any replies, each batch that is done has cost at  *)
(* most RetryMax time-outs, BaseDelay * (2 ^ RetryMax - 1) seconds of      *)
(* delays and one pause; the call under way, if any, no more than that.    *)
THEOREM TimeIsBounded == Spec => []TimeBounded
<1>1. TypeOK /\ ElapsedSoFar => TimeBounded
  BY ElapsedAtMost DEF TimeBounded
<1>2. QED
  BY <1>1, TypeCorrect, ElapsedSoFarHolds, PTL

(* If the calls of all batches and of the narrative fit the soft limit at  *)
(* their longest, time-outs and pauses included, no outage fails the job,  *)
(* whatever answers, errors and unparsable replies come in which order.    *)
(* Replies of a wrong shape are left out: one of them is enough (run       *)
(* WrongReply).                                                            *)
THEOREM OutagesAreSurvived ==
    ASSUME TimeFits, "wrongShape" \notin Replies
    PROVE  Spec => []OutageDoesNotFailJob
<1>1. Init => OutageDoesNotFailJob
  BY DEF Init, OutageDoesNotFailJob
<1> DEFINE n == start \div BatchSize
           cost == CallCost + BatchPause
           bound == WorkTime + n * cost + CallCost
           total == WorkTime + BatchCount * cost + CallCost
<1>2. ASSUME TypeOK, ElapsedSoFar PROVE bound <= SoftLimit /\ bound \in Nat
  <2>1. n \in Nat /\ n <= BatchCount /\ BatchCount \in Nat
    BY <1>2, ElapsedAtMost
  <2>2. cost \in Nat /\ CallCost \in Nat /\ WorkTime \in Nat /\ SoftLimit \in Nat
    BY <1>2, CallSoFar, SettingsAssumption DEF TypeOK
  <2>3. total <= SoftLimit
    BY DEF TimeFits
  <2> HIDE DEF n, cost
  <2>4. cost * n <= cost * BatchCount
    BY <2>1, <2>2, ProductGrows
  <2>5. /\ n * cost = cost * n /\ cost * n \in Nat
        /\ BatchCount * cost = cost * BatchCount /\ cost * BatchCount \in Nat
    BY <2>1, <2>2
  <2>6. QED
    BY <2>1, <2>2, <2>3, <2>4, <2>5
(* Neither the pauses behind nor the reply that is waited for pass the     *)
(* limit.                                                                  *)
<1>3. TypeOK /\ ElapsedSoFar => ~TimeUp
  <2> SUFFICES ASSUME TypeOK, ElapsedSoFar, TimeUp PROVE FALSE
    OBVIOUS
  <2>1. bound <= SoftLimit /\ bound \in Nat /\ elapsed <= bound
    BY <1>2, ElapsedAtMost
  <2>2. PICK s \in CallTimes : attempt < RetryMax /\ elapsed + s > SoftLimit
    BY <2>1, SettingsAssumption DEF TimeUp, InTime, TypeOK
  <2>3. PICK m \in Nat : /\ start = m * BatchSize
                         /\ elapsed <= WorkTime + m * cost + CostSoFar
    BY DEF ElapsedSoFar
  <2>4. n = m
    BY <2>3, MultipleDivided, SettingsAssumption
  <2>5. /\ CostSoFar \in Nat /\ CallCost \in Nat
        /\ CostSoFar + CallTimeout <= CallCost
    BY <2>2, CallSoFar DEF TimeUp, CostSoFar, TypeOK
  <2>6. m * cost \in Nat /\ s \in Nat /\ s <= CallTimeout
    BY <2>3, <2>5, SettingsAssumption
  <2>7. WorkTime + m * cost + CallCost <= SoftLimit
    BY <2>1, <2>4
  <2> HIDE DEF cost
  <2>8. QED
    BY <2>2, <2>3, <2>5, <2>6, <2>7, SettingsAssumption DEF TypeOK
<1>4. ~TimeUp /\ OutageDoesNotFailJob /\ [Next]_vars => OutageDoesNotFailJob'
  BY DEF OutageDoesNotFailJob, Next, vars, AttemptFails, WrongShape, FailBatch,
         AnswerBatch, NextBatch, StoreRecords, Narrate
<1>5. QED
  BY <1>1, <1>3, <1>4, TypeCorrect, ElapsedSoFarHolds, PTL DEF Spec
=============================================================================
