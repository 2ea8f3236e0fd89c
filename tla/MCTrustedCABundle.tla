--------------------------- MODULE MCTrustedCABundle ---------------------------
(* A small instance of TrustedCABundle for TLC: two Notebooks, so that their   *)
(* admissions race and an event may go to the other one, and one certificate;  *)
(* an old bundle differs from a current one in the files it was made from.     *)
EXTENDS TrustedCABundle
================================================================================
