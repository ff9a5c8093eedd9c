---------------------------- MODULE MCMailSession ----------------------------
(***************************************************************************)
(* MailSession on small instances: the messages, the POP3 connections and  *)
(* the Watch streams are interchangeable.                                  *)
(***************************************************************************)
EXTENDS MailSession, TLC

Symmetry == Permutations(Bodies) \cup Permutations(Pops) \cup Permutations(Watches)
============================================================================
