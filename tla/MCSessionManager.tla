-------------------------- MODULE MCSessionManager --------------------------
(***************************************************************************)
(* SessionManager on small instances: the clients and the entries are      *)
(* interchangeable, the users too.                                         *)
(***************************************************************************)
EXTENDS SessionManager, TLC

Symmetry == Permutations(Users) \cup Permutations(Clients) \cup Permutations(Entries)
============================================================================
