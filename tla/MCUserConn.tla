----------------------------- MODULE MCUserConn -----------------------------
(* Instances of UserConn for TLC.                                          *)
EXTENDS UserConn

CONSTANTS s1, s2, s3, orders

NoFeeds == <<>>
OneFeed == <<orders>>

\* No definition tells one symbol from another.
SymbolSymmetry == Permutations(Symbols)
=============================================================================
