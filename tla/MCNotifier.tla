------------------------------ MODULE MCNotifier ------------------------------
(***************************************************************************)
(* Values of the constants of Notifier: one client with two connections    *)
(* and one with a single one; a message between them and one that a client *)
(* sends to itself.                                                        *)
(***************************************************************************)
EXTENDS Notifier

CONSTANTS alice, bob, s1, s2, s3, m1, m2

MCClientOf == [s \in Sub |-> IF s = s3 THEN bob ELSE alice]
MCTo == [m \in Message |-> alice]
MCFrom == [m \in Message |-> IF m = m1 THEN bob ELSE alice]
=============================================================================
