----------------------------- MODULE MCLifecycle -----------------------------
(***************************************************************************)
(* Instances of Lifecycle for TLC.                                         *)
(***************************************************************************)
EXTENDS Lifecycle

AllSignals == {"SIGINT", "SIGTERM", "SIGHUP"}
=============================================================================
