-------------------------------- MODULE MCTcp --------------------------------
(***************************************************************************)
(* A client and a server; what the client end is may be a plain socket.    *)
(***************************************************************************)
EXTENDS TcpProperties

CONSTANTS client, server

MCEnds == {client, server}
MCPeer == [e \in MCEnds |-> CHOOSE p \in MCEnds : p # e]
OneStrandEach == [e \in MCEnds |-> e]
MCPlainEnds == {client}

Message(i, size) == [id |-> i, size |-> size]
\* MaxMessageSize is 2: two messages, and one that is too large.
first == Message(1, 1)
second == Message(2, 2)
huge == Message(3, 3)
MCMessages == {first, second, huge}
\* With MaxCalls 2: two from one end, the second of the client's too large, or one from each.
MCOutbox == [e \in MCEnds |-> IF e = server THEN <<first, second>> ELSE <<first, huge>>]
=============================================================================
