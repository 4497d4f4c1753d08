--------------------------- MODULE MCBotResolver ---------------------------
(* Two requests for one account with two bots.                             *)
EXTENDS BotResolver, TLC

CONSTANTS a1, b1, b2, c1, c2

MCTo == c1 :> a1 @@ c2 :> a1
MCRegistered == a1 :> {b1, b2}
=============================================================================
