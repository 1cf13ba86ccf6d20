----------------------------- MODULE RowJournal -----------------------------
(***************************************************************************)
(* What the NOR log promises about the rows it has accepted: each log type *)
(* is a journal of dated rows that only grows at its end, in calendar      *)
(* order, until the whole journal is erased.  Power cuts, reboots and      *)
(* daily rotation are invisible here: none of them may drop, change, move  *)
(* or reorder a row.                                                       *)
(***************************************************************************)
EXTENDS Naturals

CONSTANTS Types, Offsets, MaxDay

VARIABLE journal  \* per type, the day of the row at each offset that has one,
                  \* 0 for a row without a date

NoRows == [p \in {} |-> 0]

Init == journal = [t \in Types |-> NoRows]

\* A row of day d goes behind every row there is, at offset p.
AppendRow(t, p, d) ==
  /\ \A q \in DOMAIN journal[t] : q < p /\ (d # 0 => journal[t][q] <= d)
  /\ journal' = [journal EXCEPT
       ![t] = [q \in DOMAIN @ \union {p} |-> IF q = p THEN d ELSE @[q]]]

EraseAll(t) == journal' = [journal EXCEPT ![t] = NoRows]

Next ==
  \E t \in Types :
    \/ EraseAll(t)
    \/ \E p \in Offsets, d \in 0..MaxDay : AppendRow(t, p, d)

Spec == Init /\ [][Next]_journal
=============================================================================
