------------------------------- MODULE Codec -------------------------------
(***************************************************************************)
(* The packet codecs on the three kinds of connection:                     *)
(*   "message"   between two servers: CocoPacket.writePacket and           *)
(*               MessageDecoder, big endian;                               *)
(*   "request"   from the game client to the gate: the client's            *)
(*               Packet.WritePacket into a send buffer that is flushed     *)
(*               once a frame, and GateDecoder, little endian;             *)
(*   "response"  from the gate to the client: PacketCreator.create and the *)
(*               client's LogicRecvHandler.ProcessPacket, little endian.   *)
(* TCP hands the bytes over in order, cut anywhere, and a SendAsync that    *)
(* completes has sent all the bytes of its array.  One direction of one    *)
(* connection is modelled, of any kind.                                    *)
(*                                                                         *)
(* A packet is its code and its payload bytes; the other fields of         *)
(* MessageHeader travel like the code and are left out.  A byte has Base   *)
(* values, 256 in the code, and a short two bytes.                         *)
(***************************************************************************)
EXTENDS Integers, Sequences, SequencesExt

CONSTANTS
  Base,             \* number of values of a byte
  HeaderLength,     \* MessageHeader.LENGTH: 24 bytes, all of the code here
  Packets,          \* kind -> the packets that are sent
  MaxSent,          \* bound: packets sent
  PushesPerFrame    \* bound: requests the client writes between two flushes

Kinds == {"message", "request", "response"}
Bytes == 0..(Base - 1)
ShortValues == Base * Base

ASSUME CodecAssumption ==
  /\ Base \in Nat \ {0} /\ Base % 2 = 0
  /\ HeaderLength \in Nat \ {0, 1}
  /\ \A k \in Kinds : Packets[k] \subseteq [code : Nat, bytes : Seq(Bytes)]
  /\ MaxSent \in Nat
  /\ PushesPerFrame \in Nat

VARIABLES
  kind,         \* of the connection
  sent,         \* packets given to the encoder
  sendBuf,      \* the client's m_LogicSendBuf, a sequence of encoded packets
  socketBuf,    \* the bytes of the client's one SocketSendBuf
  transferred,  \* its m_iTransferNum
  filled,       \* is the main thread between filling it and its Send?
  sending,      \* the sends under way: how many bytes each was given
  wire,         \* bytes on their way
  in,           \* bytes received and not read by the decoder yet
  length,       \* DecoderState.length, -1 when a length is to be read
  lost,         \* has LogicRecvHandler lost its place?
  out,          \* packets the decoder produced
  intact        \* auxiliary: how many packets, from the first, were written so
                \* that their bytes can be told apart (Followed)

socketVars == <<socketBuf, transferred, filled, sending>>
vars == <<kind, sent, sendBuf, socketVars, wire, in, length, lost, out, intact>>

----------------------------------------------------------------------------
(* Numbers as bytes.                                                       *)

\* v without its last n bytes, v >>> (8 * n).
Shifted(v, n) ==
  LET rest[i \in 0..n] == IF i = 0 THEN v ELSE rest[i - 1] \div Base IN rest[n]

BigEndian(v, n) == [i \in 1..n |-> Shifted(v, n - i) % Base]
LittleEndian(v, n) == Reverse(BigEndian(v, n))
FromBigEndian(s) ==
  LET value[i \in 0..Len(s)] == IF i = 0 THEN 0 ELSE value[i - 1] * Base + s[i]
  IN  value[Len(s)]

\* (short) v, and a byte as Java's signed byte.
AsShort(v) ==
  LET u == v % ShortValues IN IF u >= ShortValues \div 2 THEN u - ShortValues ELSE u
AsByte(b) == IF b >= Base \div 2 THEN b - Base ELSE b

\* Fault: the length is read as an unsigned short.
ReadUnsignedShort(s) == FromBigEndian(SubSeq(s, 1, 2))

\* ByteBuf.readShort, and ReadInt16 and ReadUInt16 of the client's reader.
ReadShort(s) == AsShort(FromBigEndian(SubSeq(s, 1, 2)))
ReadInt16(s) == AsShort(FromBigEndian(Reverse(SubSeq(s, 1, 2))))
ReadUInt16(s) == FromBigEndian(Reverse(SubSeq(s, 1, 2)))

\* LittleEndianByteBufUtil.readShort: + binds closer than &, so that the last
\* mask is applied to the sum.
LittleReadShort(s) ==
  LET a == AsByte(s[1])
      b == AsByte(s[2])
  IN  AsShort((((b * Base) % ShortValues) + a) % Base)

----------------------------------------------------------------------------
(* Encoders.                                                               *)

Init ==
  /\ kind \in Kinds
  /\ sent = <<>>
  /\ sendBuf = <<>>
  /\ socketBuf = <<>>
  /\ transferred = 0
  /\ filled = FALSE
  /\ sending = <<>>
  /\ wire = <<>>
  /\ in = <<>>
  /\ length = -1
  /\ lost = FALSE
  /\ out = <<>>
  /\ intact = 0

\* CocoPacket.writePacket: the length is cast to short when the header is made.
MessageBytes(p) ==
  BigEndian((HeaderLength + Len(p.bytes)) % ShortValues, 2)
    \o BigEndian(p.code, HeaderLength) \o p.bytes

\* PacketCreator.create counts the length and the code field too.
ResponseBytes(p) ==
  LittleEndian((4 + Len(p.bytes)) % ShortValues, 2) \o LittleEndian(p.code, 2) \o p.bytes

\* The client's Packet.WritePacket at the end of a buffer: the length is that
\* of the whole buffer less the length field.
RequestBytes(p, buffered) ==
  LittleEndian((Len(FlattenSeq(buffered)) + 2 + Len(p.bytes)) % ShortValues, 2)
    \o LittleEndian(p.code, 2) \o p.bytes

\* What the length field counts, and the lengths a decoder can follow: a server
\* message's may be negative as a short, which stops MessageDecoder where it is,
\* but not -1, which stands for none; a request's is one byte for the gate's
\* readShort; a response's must not be negative.
FrameLength(p) ==
  (CASE kind = "message" -> HeaderLength [] kind = "request" -> 2 [] kind = "response" -> 4)
    + Len(p.bytes)
Followed(p) ==
  FrameLength(p) < CASE kind = "message"  -> ShortValues - 1
                     [] kind = "request"  -> Base
                     [] kind = "response" -> ShortValues \div 2

\* Packets that have left the client's frame buffer.
Written == Len(sent) - Len(sendBuf)
\* intact, with n packets more written, the first of them p.
IntactWith(n, p) == IF intact = Written /\ n = 1 /\ Followed(p) THEN intact + 1 ELSE intact

Accept(p) ==
  /\ Len(sent) < MaxSent
  /\ sent' = Append(sent, p)
  /\ UNCHANGED <<kind, socketVars, in, length, lost, out>>

encode(p) ==
  /\ kind \in {"message", "response"}
  /\ Accept(p)
  /\ wire' = wire \o (IF kind = "message" THEN MessageBytes(p) ELSE ResponseBytes(p))
  /\ intact' = IntactWith(1, p)
  /\ UNCHANGED sendBuf

\* On the main thread, as Flush.
PushPacket(p) ==
  /\ kind = "request"
  /\ ~filled
  /\ Len(sendBuf) < PushesPerFrame
  /\ Accept(p)
  /\ sendBuf' = Append(sendBuf, RequestBytes(p, sendBuf))
  /\ UNCHANGED <<wire, intact>>

----------------------------------------------------------------------------
(* The client's socket.  SendToSocketBuf runs on the main thread once a     *)
(* frame, OnSend on a thread of the pool.                                   *)

\* Fault: what is counted as sent is not reset.
SendToSocketBufCounted ==
  /\ sendBuf # <<>>
  /\ ~filled
  /\ socketBuf' = FlattenSeq(sendBuf)
  /\ filled' = TRUE
  /\ sendBuf' = <<>>
  /\ intact' = IF sending = <<>> THEN IntactWith(Len(sendBuf), Last(sent)) ELSE intact
  /\ UNCHANGED <<kind, sent, transferred, sending, wire, in, length, lost, out>>

\* GetBuf returns the only buffer (DEFAULT_SOCKET_SEND_QUEUE_SIZE is 1), cleared,
\* also while a send of its bytes is under way.
SendToSocketBuf ==
  /\ sendBuf # <<>>
  /\ ~filled
  /\ socketBuf' = FlattenSeq(sendBuf)
  /\ transferred' = 0
  /\ filled' = TRUE
  /\ sendBuf' = <<>>
  /\ intact' = IF sending = <<>> THEN IntactWith(Len(sendBuf), Last(sent)) ELSE intact
  /\ UNCHANGED <<kind, sent, sending, wire, in, length, lost, out>>

\* SendAsync of a copy of the whole buffer.
SendAsync(underWay) ==
  /\ wire' = wire \o socketBuf
  /\ sending' = Append(underWay, Len(socketBuf))

\* Send, which takes a buffer whose bytes are all counted as sent for sent.
SendBuffer ==
  /\ filled
  /\ filled' = FALSE
  /\ IF transferred = Len(socketBuf) THEN UNCHANGED <<wire, sending>>
                                     ELSE SendAsync(sending)
  /\ UNCHANGED <<kind, sent, sendBuf, socketBuf, transferred, in, length, lost, out, intact>>

\* OnSend adds the bytes of the send that completes to what is counted for the
\* buffer, whatever it holds by now, and as long as that is not its length the
\* whole buffer is sent again.
OnSend ==
  /\ sending # <<>>
  /\ transferred' = IF Head(sending) + transferred > Len(socketBuf) THEN Len(socketBuf)
                    ELSE Head(sending) + transferred
  /\ IF transferred' = Len(socketBuf)
     THEN /\ sending' = Tail(sending)
          /\ UNCHANGED wire
     ELSE SendAsync(Tail(sending))
  /\ UNCHANGED <<kind, sent, sendBuf, socketBuf, filled, in, length, lost, out, intact>>

\* TCP delivers some of the bytes.
Arrive ==
  \E n \in 1..Len(wire) :
    /\ in' = in \o SubSeq(wire, 1, n)
    /\ wire' = SubSeq(wire, n + 1, Len(wire))
    /\ UNCHANGED <<kind, sent, sendBuf, socketVars, length, lost, out, intact>>

----------------------------------------------------------------------------
(* MessageDecoder.decode and GateDecoder.decode.  ByteToMessageDecoder     *)
(* calls decode again while it makes progress; an exception is logged by   *)
(* the handler and the connection goes on.                                 *)

Decodes == kind \in {"message", "request"} /\ in # <<>>
MustReadLength == length = -1
MayRead == MustReadLength => Len(in) >= 2

\* state.length once it has been read, and what is left to read then.
PacketLength ==
  IF MustReadLength
  THEN IF kind = "message" THEN ReadShort(in) ELSE LittleReadShort(in)
  ELSE length
Unread == IF MustReadLength THEN SubSeq(in, 3, Len(in)) ELSE in

CodeLength == IF kind = "message" THEN HeaderLength ELSE 2

\* readHead, or readShort of the code, and the rest as payload.
Decoded(s) ==
  [code |-> IF kind = "message" THEN FromBigEndian(SubSeq(s, 1, HeaderLength))
                                ELSE LittleReadShort(s),
   bytes |-> SubSeq(s, CodeLength + 1, Len(s))]

\* The length is read and the packet is not complete.
decodeLength ==
  /\ Decodes /\ MustReadLength /\ MayRead
  /\ Len(Unread) < PacketLength
  /\ length' = PacketLength
  /\ in' = Unread
  /\ UNCHANGED <<kind, sent, sendBuf, socketVars, wire, lost, out, intact>>

\* Fault: a packet that is there to its last byte is waited for.
decodePacketLate ==
  /\ Decodes /\ MayRead
  /\ Len(Unread) > PacketLength
  /\ PacketLength >= CodeLength
  /\ out' = Append(out, Decoded(SubSeq(Unread, 1, PacketLength)))
  /\ in' = SubSeq(Unread, PacketLength + 1, Len(Unread))
  /\ length' = -1
  /\ UNCHANGED <<kind, sent, sendBuf, socketVars, wire, lost, intact>>

\* The packet is complete.
decodePacket ==
  /\ Decodes /\ MayRead
  /\ Len(Unread) >= PacketLength
  /\ PacketLength >= CodeLength
  /\ out' = Append(out, Decoded(SubSeq(Unread, 1, PacketLength)))
  /\ in' = SubSeq(Unread, PacketLength + 1, Len(Unread))
  /\ length' = -1
  /\ UNCHANGED <<kind, sent, sendBuf, socketVars, wire, lost, intact>>

\* The length is negative, or too small for the header: writeBytes throws, or
\* what is read from the copy does.  state.length keeps its value.
decodeThrows ==
  /\ Decodes /\ MayRead
  /\ Len(Unread) >= PacketLength
  /\ PacketLength < CodeLength
  /\ length' = PacketLength
  /\ in' = IF PacketLength < 0 THEN Unread
           ELSE SubSeq(Unread, PacketLength + 1, Len(Unread))
  /\ UNCHANGED <<kind, sent, sendBuf, socketVars, wire, lost, out, intact>>

\* LogicRecvHandler.ProcessPacket: one turn of its loop.  The length stays in
\* the buffer until the packet is complete.
ProcessPacket ==
  LET n == ReadInt16(in) IN
  /\ kind = "response"
  /\ ~lost
  /\ Len(in) >= 2
  /\ 4 <= n /\ n <= Len(in)
  /\ out' = Append(out, [code |-> ReadUInt16(SubSeq(in, 3, 4)), bytes |-> SubSeq(in, 5, n)])
  /\ in' = SubSeq(in, n + 1, Len(in))
  /\ UNCHANGED <<kind, sent, sendBuf, socketVars, wire, length, lost, intact>>

\* What is read at a wrong place.
Wrong == [code |-> -1, bytes |-> <<>>]

\* A length of less than 4 stops nothing.  When it is negative ReadPacketBody
\* throws, which is caught, and the head moves back: before the buffer, where
\* Seek throws out of the loop and the buffer is gone through again the next
\* time, or into packets gone through already; with 0 to 3 it stays or moves
\* into the packet.  From here on bytes are dropped and read at any place.
ProcessPacketLost ==
  /\ kind = "response"
  /\ lost \/ (Len(in) >= 2 /\ ReadInt16(in) < 4 /\ ReadInt16(in) <= Len(in))
  /\ lost' = TRUE
  /\ \E n \in 0..Len(in) : in' = SubSeq(in, n + 1, Len(in))
  /\ \/ out' = Append(out, Wrong) /\ Len(out) < MaxSent
     \/ UNCHANGED out
  /\ UNCHANGED <<kind, sent, sendBuf, socketVars, wire, length, intact>>

----------------------------------------------------------------------------
Flush == SendToSocketBuf \/ SendBuffer
Receive == decodeLength \/ decodePacket \/ decodeThrows \/ ProcessPacket \/ ProcessPacketLost

Next ==
  \/ \E p \in Packets[kind] : encode(p) \/ PushPacket(p)
  \/ Flush
  \/ OnSend
  \/ Arrive
  \/ Receive

\* The client's frame loop runs, TCP delivers, and a decoder is called until it
\* waits for more bytes.  Nobody is made to send.
Fairness == WF_vars(Flush) /\ WF_vars(Arrive) /\ WF_vars(Receive)

Spec == Init /\ [][Next]_vars /\ Fairness

----------------------------------------------------------------------------
(* Properties.                                                             *)

\* Every variable holds a value of its kind; a length that is waited for was
\* read from two bytes.
TypeOK ==
  /\ kind \in Kinds
  /\ sent \in Seq(Packets[kind])
  /\ sendBuf \in Seq(Seq(Bytes))
  /\ socketBuf \in Seq(Bytes)
  /\ transferred \in Nat
  /\ filled \in BOOLEAN
  /\ sending \in Seq(Nat)
  /\ wire \in Seq(Bytes)
  /\ in \in Seq(Bytes)
  /\ length \in (-(ShortValues \div 2))..((ShortValues \div 2) - 1)
  /\ lost \in BOOLEAN
  /\ out \in Seq([code : Int, bytes : Seq(Bytes)])
  /\ Len(sendBuf) <= Len(sent)
  /\ intact \in 0..Written

\* All that was written can be told apart.  Not so after a packet whose length
\* cannot be followed, two requests in one flush (the second's length counts the
\* whole buffer), or a flush before the send of the one before has completed.
AllIntact == intact = Written

\* The packets before the first that does not fit a signed short (SelectInSeq
\* gives 0 if all do).
Fits(p) == FrameLength(p) < ShortValues \div 2
FirstUnfit(s) == SelectInSeq(s, LAMBDA p : ~Fits(p))
SoundPrefix(s) == IF FirstUnfit(s) = 0 THEN s ELSE SubSeq(s, 1, FirstUnfit(s) - 1)

\* The packets that are to be handed over, and those that are handed over for
\* them: once something could not be told apart, no more are counted.
ToDeliver == SoundPrefix(SubSeq(sent, 1, intact))
Delivered == IF AllIntact \/ Len(out) <= Len(ToDeliver) THEN out
             ELSE SubSeq(out, 1, Len(ToDeliver))

Channel == INSTANCE FrameFifo WITH
  Packets <- UNION {Packets[k] : k \in Kinds},
  written <- ToDeliver,
  delivered <- Delivered

\* Whatever the cuts of the stream, a connection hands over the packets that
\* were written, in order, unchanged and all of them, up to the first that
\* cannot be told apart (AllIntact) or the first server message whose length
\* does not fit a signed short: that one stops the decoder, which hands over
\* nothing else, garbage included.  For requests this is one to a flush, one
\* send at a time, lengths and codes of one byte: no more is true of the client.
DeliversInOrder == Channel!Spec

\* A decoder hands over what was sent: readShort of LittleEndianByteBufUtil
\* reads what its writeShort writes.
DecodesWhatWasSent == IsPrefix(out, sent)

BytesOf(p) ==
  CASE kind = "message" -> MessageBytes(p)
    [] kind = "request" -> RequestBytes(p, <<>>)
    [] kind = "response" -> ResponseBytes(p)

LengthField(n) ==
  IF kind = "message" THEN BigEndian(n % ShortValues, 2) ELSE LittleEndian(n % ShortValues, 2)

\* The length field of the packet the decoder is in, and the packets to come.
LengthRead == IF length = -1 THEN <<>> ELSE LengthField(length)
Due == [i \in 1..(intact - Len(out)) |-> BytesOf(sent[Len(out) + i])]
\* What the main thread is about to send.
ToSend == IF filled THEN socketBuf ELSE <<>>

\* The decoder does not lose its place while all that was written is intact: the
\* length it has read, what it has not read, what is on its way and what the
\* client's socket is about to send are together the bytes of the packets that
\* were written and are still to be handed over.  In particular nothing is sent
\* twice or left out by OnSend and Send when no send is under way at a flush.
StaysInStep == AllIntact => LengthRead \o in \o wire \o ToSend = FlattenSeq(Due)
============================================================================
