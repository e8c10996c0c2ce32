---------------------------- MODULE MCLifecycle ----------------------------
(* An instance of Lifecycle: one provider, one hook and a handler that may *)
(* call shutdown.                                                          *)
EXTENDS Lifecycle
=============================================================================
