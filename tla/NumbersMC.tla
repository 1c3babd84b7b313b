------------------------------ MODULE NumbersMC ------------------------------
(***************************************************************************)
(* Longs of 7 bits; doubles of 7 bits with three significant ones, the     *)
(* least of which is 1/16: 9 is the first long that is not a double.       *)
(***************************************************************************)
EXTENDS Numbers

\* The extremes, what is next to them, signs, powers of two and multiples;
\* 18 and 19 lie between the doubles 16 and 20.
SomeLongs == {-64, -63, -18, -7, -1, 0, 1, 2, 6, 18, 19, 63}
\* -5., 0., 0.5, 2., 2.5 and 20.
SomeDoubles == {-80, 0, 8, 32, 40, 320}
=============================================================================
