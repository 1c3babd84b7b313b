------------------------------ MODULE SymbolsMC ------------------------------
(* What gensym takes first, in both cases, and every way to put the names *)
(* into two buckets.                                                       *)
EXTENDS Symbols

MCNames == {"if", "gensym-0", "Gensym-0", "gensym-1"}
MCStrlwr == [n \in MCNames |-> IF n = "Gensym-0" THEN "gensym-0" ELSE n]
MCGensymName == [n \in 0..LongMax |-> IF n = 0 THEN "gensym-0" ELSE "gensym-1"]
MCHashFns == [MCNames -> Buckets]
=============================================================================
