----------------------------- MODULE MCJuxtaBle -----------------------------
(***************************************************************************)
(* The reference application for TLC: what is saved, with intervals that   *)
(* nobody checks (0 is "always due", although the documents say none), and *)
(* modes that are NORMAL, ADC_ONLY or neither.                             *)
(***************************************************************************)
EXTENDS JuxtaBle

SavedSettings ==
  {[operating_mode |-> "NORMAL",   adv_interval |-> 1, scan_interval |-> 1],
   [operating_mode |-> "NORMAL",   adv_interval |-> 1, scan_interval |-> 0],
   [operating_mode |-> "ADC_ONLY", adv_interval |-> 1, scan_interval |-> 1],
   [operating_mode |-> "UNKNOWN",  adv_interval |-> 0, scan_interval |-> 1]}

=============================================================================
