------------------------------- MODULE MCSession -------------------------------
(***************************************************************************)
(* A small instance of Session: a connection two threads use in turn, and  *)
(* the connection of a local service they both notify.                     *)
(***************************************************************************)
EXTENDS Session

=============================================================================
