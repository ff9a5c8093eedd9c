--------------------------- MODULE MCMaildirFolder ---------------------------
(***************************************************************************)
(* MaildirFolder on small instances.                                       *)
(***************************************************************************)
EXTENDS MaildirFolder, TLC
============================================================================
