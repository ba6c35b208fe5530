---------------------------- MODULE MCCrudServer ----------------------------
(* Model-checking instance of CrudServer: as many connections as requests,   *)
(* so that one can wait for the write lock that another has left behind, or  *)
(* borrow the connection it was left on.                                     *)
EXTENDS CrudServer
=============================================================================
