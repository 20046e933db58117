----------------------------- MODULE MCAppLoop -----------------------------
(* AppLoop for TLC; the configurations give every constant its value.       *)
EXTENDS AppLoop
=============================================================================
