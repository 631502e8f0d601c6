----------------------------- MODULE MCBooking ------------------------------
(* A small instance of Booking: two or three half hours of one lawyer, a    *)
(* paid request of an hour and its repetition with the same key, and the    *)
(* physical request of another client for half an hour.                     *)
EXTENDS Booking, TLC

CONSTANTS r1, r2, r3, l1, c1, c2, k1, k2, p1, p2

Requests   == {r1, r2, r3}
Lawyers    == {l1}
Clients    == {c1, c2}
Keys       == {k1, k2}
OneLawyer  == r1 :> l1 @@ r2 :> l1 @@ r3 :> l1
TheClients == r1 :> c1 @@ r2 :> c1 @@ r3 :> c2
TheKeys    == r1 :> k1 @@ r2 :> k1 @@ r3 :> k2
Lengths    == r1 :> 2 @@ r2 :> 2 @@ r3 :> 1
FirstTwo   == {r1, r2}
TwoTimes   == 0..1
ThreeTimes == 0..2
Workers    == {p1, p2}
=============================================================================
