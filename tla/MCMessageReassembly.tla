------------------------- MODULE MCMessageReassembly -------------------------
(* The instance of MessageReassembly for TLC. *)
EXTENDS MessageReassembly

CONSTANTS peer, own

\* A peer's two-chunk message and an echo of a message of the bot itself.
MCMsgIDs == {peer, own}
MCOwnIDs == {own}
MCChunksOf == [id \in MCMsgIDs |-> IF id = peer THEN 2 ELSE 1]
=============================================================================
