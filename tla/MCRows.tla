------------------------------- MODULE MCRows -------------------------------
(***************************************************************************)
(* A few rows that differ where the code looks: ids that are missing,      *)
(* blank or padded, one day in two formats, amounts with a sign or none,   *)
(* texts that are no status or currency, rows that end early.              *)
(***************************************************************************)
EXTENDS Rows

SomeTexts ==
    {"", " ", "T1", " T1", "T2", "T3", "T4", "04-09-2024", "2024-09-04",
     "Swiggy", "swiggy", "Amazon", "amazon", "100", "$100", "301", "-5", "0",
     "inr", "INR", "USD", "EUR", "success", "SUCCESS", "failed", "FAILED",
     "Food", "Uncategorised", "A", "SUSPICIOUS", "suspicious"}

(* A conversion that changes only the texts it names.                      *)
But(pairs) ==
    [t \in SomeTexts |->
        IF \E p \in pairs : p[1] = t THEN (CHOOSE p \in pairs : p[1] = t)[2]
        ELSE t]

SomeStrip == But({<<" ", "">>, <<" T1", "T1">>})

SomeUpper == But({<<"inr", "INR">>, <<"success", "SUCCESS">>,
                  <<"failed", "FAILED">>})

SomeLower == But({<<"Swiggy", "swiggy">>, <<"Amazon", "amazon">>,
                  <<"SUSPICIOUS", "suspicious">>})

SomeStrptime ==
    [n \in 1 .. FormatCount |-> [t \in SomeTexts |->
        IF \/ n = 1 /\ t = "04-09-2024"
           \/ n = 3 /\ t = "2024-09-04" THEN "2024-09-04" ELSE None]]

SomeDigits ==
    [t \in SomeTexts |->
        CASE t \in {"100", "$100"} -> 100
          [] t = "301" -> 301
          [] t = "-5" -> 5
          [] t = "0" -> 0
          [] OTHER -> None]

Raw(id, date, merchant, amount, status, cat, account, note) ==
    [txn_id |-> id, date |-> date, merchant |-> merchant, amount |-> amount,
     currency |-> IF status = "failed" THEN "USD" ELSE "inr",
     status |-> status, category |-> cat, account_id |-> account,
     notes |-> note]

SomeRows ==
    {Raw("T1", "04-09-2024", "Swiggy", "100", "success", "Food", "A", ""),
     Raw(" T1", "2024-09-04", "Swiggy", "$100", "SUCCESS", "", "A", ""),
     Raw("T1", "2024-09-04", "Swiggy", "100", "success", "", None, None),
     Raw("T2", "2024-09-04", "Amazon", "301", "success", "", "A", ""),
     Raw("", "2024-09-04", "Amazon", "100", "success", "", "A", ""),
     Raw(" ", "2024-09-04", "Amazon", "100", "success", "Food", "A", ""),
     Raw("T3", "", "Swiggy", "301", "failed", "Food", "A", "SUSPICIOUS"),
     Raw("T4", "Food", "", "0", "EUR", "Uncategorised", "", ""),
     Raw("T4", "04-09-2024", "Amazon", "-5", "success", "", "A", ""),
     Raw("T2", "2024-09-04", "Amazon", None, None, None, None, None)}

SomeHeaders == {Columns, Columns \ {"category", "notes"}, Columns \ {"amount"}}
=============================================================================
