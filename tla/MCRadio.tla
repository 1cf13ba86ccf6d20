------------------------------ MODULE MCRadio ------------------------------
(* Settings of Radio for TLC: one record per case worth telling apart. *)
EXTENDS Radio

\* Both modes, scans stretched without motion; scanning only.
SmallChoices ==
  {[vitals |-> 2, scan |-> 3, adv |-> 1, multiplier |-> 2, motion |-> TRUE],
   [vitals |-> 2, scan |-> 1, adv |-> 0, multiplier |-> 1, motion |-> FALSE]}

=============================================================================
