-------------------------------- MODULE MCIo --------------------------------
(* Io with two outbound frames and one inbound message.                       *)
EXTENDS Io

CONSTANTS f1, f2, m1

MCFrame == {f1, f2}
MCInbound == {m1}
=============================================================================
