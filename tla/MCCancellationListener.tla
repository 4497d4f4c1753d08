----------------------- MODULE MCCancellationListener -----------------------
(* Instances of CancellationListener for TLC.                              *)
EXTENDS CancellationListener

CONSTANTS t1, t2

TwoTokens == {t1, t2}
\* The bot sells one token and buys the other.
OneSold == {t1}
=============================================================================
