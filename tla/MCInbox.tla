------------------------------ MODULE MCInbox -------------------------------
(* Instances of Inbox for TLC.                                             *)
EXTENDS Inbox, TLC

Off == {0}
One == {1}

Symmetry == Permutations(Clients) \cup Permutations(Identities)
=============================================================================
