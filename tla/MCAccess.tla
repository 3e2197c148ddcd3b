------------------------------ MODULE MCAccess ------------------------------
(***************************************************************************)
(* Two people, two browsers, two hosts, one household, two invitations.    *)
(***************************************************************************)
EXTENDS AccessControl, TLC

CONSTANTS h1, h2

CallbackKeys == {CallbackKey(host) : host \in Hosts}

\* People, browsers and hosts are interchangeable.
Symmetry == Permutations(Users) \cup Permutations(Browsers) \cup Permutations(Hosts)
=============================================================================
