-------------------------- MODULE MCOutboundQueue --------------------------
(***************************************************************************)
(* OutboundQueue on small instances.                                       *)
(***************************************************************************)
EXTENDS OutboundQueue, TLC

CONSTANTS m1, m2, a1, a2, b1

\* Two messages, one recipient each, filed in different directories.
MCMsgOf2 == a1 :> m1 @@ b1 :> m2
MCDomain2 == a1 :> <<"example", "com">> @@ b1 :> <<"mail", "example", "org">>

\* One message with two recipients in the same domain.
MCMsgOf1 == a1 :> m1 @@ a2 :> m1
MCDomain1 == a1 :> <<"example", "com">> @@ a2 :> <<"example", "com">>

\* One envelope, for runs with several faults.
MCMsgOf0 == a1 :> m1
MCDomain0 == a1 :> <<"example", "com">>

\* Processes are interchangeable, and so are the two recipients of MCDomain1.
Symmetry == Permutations(Procs) \cup Permutations({a1, a2})
============================================================================
