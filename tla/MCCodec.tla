------------------------------ MODULE MCCodec ------------------------------
(* Bytes of four values: a short has sixteen, the largest signed one is 7.  *)
(* The payloads contain what could be taken for a length.                   *)
EXTENDS Codec

Packet(c, s) == [code |-> c, bytes |-> s]

\* The second message does not fit, and its length is not -1.  The length of the
\* third response is negative.
MCPackets ==
  [k \in Kinds |->
     CASE k = "message"  -> {Packet(14, <<>>), Packet(1, <<0, 2, 3, 0, 1, 2, 1>>),
                             Packet(5, <<0, 3, 1>>)}
       [] k = "request"  -> {Packet(3, <<>>), Packet(2, <<2>>)}
       [] k = "response" -> {Packet(14, <<>>), Packet(1, <<0, 1, 2>>),
                             Packet(1, <<3, 0, 1, 2>>)}]

\* A request code that needs its second byte.
MCLargeCodes ==
  [k \in Kinds |-> {Packet(1, <<>>), Packet(6, <<2>>)}]
============================================================================
