--------------------------- MODULE MCChangeListeners ---------------------------
(***************************************************************************)
(* A small instance of ChangeListeners: two local services, two threads.   *)
(***************************************************************************)
EXTENDS ChangeListeners

=============================================================================
