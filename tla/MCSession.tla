----------------------------- MODULE MCSession ------------------------------
(* A client and a lawyer whose requests are served by two workers.          *)
EXTENDS Session, TLC
CONSTANTS client, lawyer, p1, p2
Users   == {client, lawyer}
Workers == {p1, p2}
Symmetric == Permutations(Users) \cup Permutations(Workers)
=============================================================================
