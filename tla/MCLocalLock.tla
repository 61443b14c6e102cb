---------------------------- MODULE MCLocalLock -----------------------------
(***************************************************************************)
(* LocalLock on small instances.                                           *)
(***************************************************************************)
EXTENDS LocalLock

=============================================================================
