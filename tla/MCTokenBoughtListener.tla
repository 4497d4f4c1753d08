----------------------- MODULE MCTokenBoughtListener -----------------------
(* Instances of TokenBoughtListener for TLC: two tokens, the second of     *)
(* which stays buyable for longer.                                         *)
EXTENDS TokenBoughtListener, TLC

CONSTANTS t1, t2

TwoTokens == {t1, t2}
EndsApart == (t1 :> 1) @@ (t2 :> 2)
OneCancellable == {t1}
=============================================================================
