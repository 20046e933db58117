---------------------------- MODULE MCEditorGate ----------------------------
(* EditorGate for TLC.  A tick is 10 ms: poll 100 ms, grace 80 ms, nap 50 ms;*)
(* the configuration gives the numbers.                                     *)
EXTENDS EditorGate
=============================================================================
