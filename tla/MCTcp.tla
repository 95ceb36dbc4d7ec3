------------------------------- MODULE MCTcp -------------------------------
(* Initial sequence numbers at the edge of the sequence space, so that both
   streams wrap; the peer may well choose the same one twice. *)
EXTENDS Tcp

MCIss == [p \in Port |-> (SeqSpace - 2 + 4 * (p - 1)) % SeqSpace]
MCPeerIss == [p \in Port |-> SeqSpace - 1]

(* With the main loop polling, a segment in flight is acknowledged or given up, and a
   close ends. *)
Completes == InFlightEnds /\ CloseCompletes
=============================================================================
