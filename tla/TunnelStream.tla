---------------------------- MODULE TunnelStream ----------------------------
(***************************************************************************)
(* DTEP over one established TCP connection: the client's forwarding loop  *)
(* (DatagramTunneler::runClient with sendTCPData) and the server's read    *)
(* loop (DatagramTunneler::runServer), byte by byte.                       *)
(*                                                                         *)
(* A byte on the wire is the pair of the frame it belongs to and its       *)
(* offset in that frame; what a byte says is what its frame says at that   *)
(* offset.  send() may take any part of what it is offered and recv() may  *)
(* return any part of what it is asked for, so every fragmentation of the  *)
(* frames is a behaviour.  Frame lengths are constants, so that the        *)
(* 2 + 16 + 1472 bytes of TunnelPacket can be scaled down for TLC.         *)
(***************************************************************************)
EXTENDS Naturals, Sequences

CONSTANTS
    Preamble,       \* kTunnelPacketPreambleLength: type and version
    Header,         \* kTunnelPacketHeaderLength: preamble, group, length, time
    LenAt,          \* offset of the last byte of datalen_
    MaxLen,         \* kMaxDatagramLength
    ServerVersion,  \* kDtepProtocolVersion of the server
    Versions,       \* versions a client may speak
    TcpWindow,      \* bytes TCP holds between the two processes
    MaxFrames       \* bound: frames a client sends

TypeAt == 0
VersionAt == 1

ASSUME StreamAssumption ==
    /\ Preamble \in Nat /\ VersionAt < Preamble
    /\ LenAt \in Nat /\ Preamble <= LenAt
    /\ Header \in Nat /\ LenAt < Header
    /\ MaxLen \in Nat
    /\ Versions \subseteq Nat \ {0}
    /\ ServerVersion \in Nat \ {0}
    /\ TcpWindow \in Nat \ {0}
    /\ MaxFrames \in Nat

VARIABLES
    version,        \* configuration: the version the client speaks
    cpc,            \* client: where its loop is, or how it ended
    frames,         \* client: every DTEP frame it has begun to send
    sent,           \* client: bytes of the last frame handed to TCP
    forwarded,      \* client: datagrams recorded as forwarded
    taken,          \* history: datagrams taken from the UDP socket
    stream,         \* TCP: every byte written, by its position
    wr, rd,         \* TCP: bytes written and bytes read so far
    spc,            \* server: reading, or how its loop ended
    buf,            \* server: tunnel_pkt seen as bytes, never cleared
    fill,           \* server: p - &tunnel_pkt, bytes of the current packet
    want,           \* server: len_to_read
    consumed,       \* history: frames the server has read to the end
    published       \* history: datagrams given to sendto()

clientVars == <<cpc, frames, sent, forwarded, taken>>
serverVars == <<spc, buf, fill, want, consumed, published>>
vars == <<version, clientVars, stream, wr, rd, serverVars>>

ClientEnds == {"stopped", "failed", "crashed"}
ServerEnds == {"stopped", "failed", "rejected", "silent", "eof"}

-----------------------------------------------------------------------------
(* TunnelPacket *)

BufferIndex == 0..(Header + MaxLen - 1)
Byte == [pkt : Nat, off : Nat]
ZeroByte == [pkt |-> 0, off |-> 0]      \* tunnel_pkt {} before any byte

\* start and nth are history: the position of the frame's first byte on the
\* wire, and how many datagrams had been taken when the frame was built.
Frame == [type : {"Heartbeat", "Datagram"}, len : 0..MaxLen, start : Nat, nth : Nat]

PacketSize(type, len) == IF type = "Heartbeat" THEN Preamble ELSE Header + len
Size(k) == PacketSize(frames[k].type, frames[k].len)

\* The datagram of frame k as a receiver of it sees it: its length and where
\* each of its bytes comes from.
Image(k, len) ==
    [len |-> len, bytes |-> [i \in 0..(len - 1) |-> [pkt |-> k, off |-> Header + i]]]
Datagrams == {Image(k, len) : k \in 1..MaxFrames, len \in 0..MaxLen}

\* Fields of tunnel_pkt as the bytes of b say.  A zeroed packet reads as a
\* heartbeat of version 0.
TypeIn(b) == IF b[TypeAt].pkt = 0 THEN "Heartbeat" ELSE frames[b[TypeAt].pkt].type
VersionIn(b) == IF b[VersionAt].pkt = 0 THEN 0 ELSE version
LenIn(b) == IF b[LenAt].pkt = 0 THEN 0 ELSE frames[b[LenAt].pkt].len
PayloadIn(b) ==
    [len |-> LenIn(b), bytes |-> [i \in 0..(LenIn(b) - 1) |-> b[Header + i]]]

-----------------------------------------------------------------------------
Init ==
    /\ version \in Versions
    /\ cpc = "recv" /\ frames = <<>> /\ sent = 0 /\ forwarded = 0 /\ taken = <<>>
    /\ stream = [j \in {} |-> ZeroByte] /\ wr = 0 /\ rd = 0
    /\ spc = "recv" /\ buf = [i \in BufferIndex |-> ZeroByte]
    /\ fill = 0 /\ want = Preamble /\ consumed = 0 /\ published = <<>>

-----------------------------------------------------------------------------
(* Client *)

Begin(type, len, nth) ==
    /\ frames' = Append(frames, [type |-> type, len |-> len, start |-> wr, nth |-> nth])
    /\ cpc' = "send" /\ sent' = 0
    /\ UNCHANGED <<version, forwarded, stream, wr, rd, serverVars>>

Accepted(len) == len <= MaxLen

\* recv() on the UDP socket returned a datagram; a longer one than MaxLen is
\* discarded and the loop goes round.
ClientTakes(len) ==
    /\ cpc = "recv" /\ Len(frames) < MaxFrames
    /\ Accepted(len)
    /\ taken' = Append(taken, Image(Len(frames) + 1, len))
    /\ Begin("Datagram", len, Len(taken) + 1)

\* recv() on the UDP socket timed out.  The packet keeps the last datagram's
\* length, which a heartbeat does not send.
ClientHeartbeat ==
    /\ cpc = "recv" /\ Len(frames) < MaxFrames
    /\ Begin("Heartbeat", 0, Len(taken))
    /\ UNCHANGED taken

\* Mutant: one send() is taken to send everything.
CompletesAtOnce(n) == TRUE
Completes(n) == sent + n = Size(Len(frames))

\* Mutant: a heartbeat is recorded like a datagram.
RecordsAny(k) == TRUE
Records(k) == frames[k].type = "Datagram"

\* One send() of sendTCPData's loop takes n of the bytes left; the last one
\* completes the frame and a datagram is recorded.
ClientSend(n) ==
    LET k == Len(frames) IN
    /\ cpc = "send"
    /\ n \in 1..(Size(k) - sent)
    /\ wr + n <= rd + TcpWindow
    /\ stream' = [j \in 0..(wr + n - 1) |->
                    IF j < wr THEN stream[j] ELSE [pkt |-> k, off |-> sent + j - wr]]
    /\ wr' = wr + n
    /\ sent' = sent + n
    /\ IF Completes(n)
       THEN /\ cpc' = "recv"
            /\ forwarded' = IF Records(k) THEN forwarded + 1 ELSE forwarded
       ELSE UNCHANGED <<cpc, forwarded>>
    /\ UNCHANGED <<version, frames, taken, rd, serverVars>>

\* send() reports the reset connection: runClient throws.
ClientSendFails ==
    /\ cpc = "send" /\ spc \in ServerEnds
    /\ cpc' = "failed"
    /\ UNCHANGED <<version, frames, sent, forwarded, taken, stream, wr, rd, serverVars>>

\* The stop token is looked at between two frames only.
ClientStop ==
    /\ cpc = "recv"
    /\ cpc' = "stopped"
    /\ UNCHANGED <<version, frames, sent, forwarded, taken, stream, wr, rd, serverVars>>

\* The process dies, within a frame or between two; its kernel still delivers
\* what TCP accepted and closes the connection.
ClientCrash ==
    /\ cpc \in {"recv", "send"}
    /\ cpc' = "crashed"
    /\ UNCHANGED <<version, frames, sent, forwarded, taken, stream, wr, rd, serverVars>>

-----------------------------------------------------------------------------
(* Server *)

\* The packet buffer after recv() stored n more bytes at the write pointer.
Received(n) ==
    [i \in BufferIndex |->
        IF i \in fill..(fill + n - 1) THEN stream[rd + i - fill] ELSE buf[i]]

Arrives(n) ==
    /\ spc = "recv"
    /\ n \in 1..want /\ rd + n <= wr
    /\ rd' = rd + n /\ buf' = Received(n)
    /\ UNCHANGED <<version, clientVars, stream, wr>>

\* Mutant: the version is never looked at.
RejectsNothing(b, count) == FALSE
\* A whole preamble of another version.  (The check of the type that follows
\* never fails here: every frame is a heartbeat or a datagram.)
Rejects(b, count) == count >= Preamble /\ VersionIn(b) # ServerVersion

IsHeartbeat(b) == TypeIn(b) = "Heartbeat"

\* Mutant: the length is believed before the header is complete.
NeededWithoutHeader(b, count) ==
    IF count < Preamble \/ IsHeartbeat(b) THEN Preamble
    ELSE PacketSize(TypeIn(b), LenIn(b))
\* Mutant: the comparison with size() asks for one byte too many.
NeededOffByOne(b, count) ==
    IF count < Preamble \/ IsHeartbeat(b) THEN Preamble
    ELSE IF count < Header THEN Header
    ELSE PacketSize(TypeIn(b), LenIn(b)) + 1
\* How many bytes the packet has, as far as the count bytes in b tell.
Needed(b, count) ==
    IF count < Preamble \/ IsHeartbeat(b) THEN Preamble
    ELSE IF count < Header THEN Header
    ELSE PacketSize(TypeIn(b), LenIn(b))

\* Mutant: len_to_read is not reset with the write pointer.
NextPacketSameLength ==
    /\ fill' = 0 /\ UNCHANGED want
    /\ consumed' = consumed + 1
\* The write pointer goes back to the start of tunnel_pkt.
NextPacket ==
    /\ fill' = 0 /\ want' = Preamble
    /\ consumed' = consumed + 1

ServerReadsPart(n) ==
    LET b == Received(n) IN
    /\ Arrives(n)
    /\ ~Rejects(b, fill + n)
    /\ fill + n < Needed(b, fill + n)
    /\ fill' = fill + n
    /\ want' = Needed(b, fill + n) - (fill + n)
    /\ UNCHANGED <<spc, consumed, published>>

ServerReadsHeartbeat(n) ==
    LET b == Received(n) IN
    /\ Arrives(n)
    /\ ~Rejects(b, fill + n)
    /\ fill + n >= Needed(b, fill + n) /\ IsHeartbeat(b)
    /\ NextPacket
    /\ UNCHANGED <<spc, published>>

\* A whole datagram frame: its payload goes to sendto().
ServerPublishes(n) ==
    LET b == Received(n) IN
    /\ Arrives(n)
    /\ ~Rejects(b, fill + n)
    /\ fill + n >= Needed(b, fill + n) /\ ~IsHeartbeat(b)
    /\ NextPacket
    /\ published' = Append(published, PayloadIn(b))
    /\ UNCHANGED spc

\* sendto() failed: the frame is consumed, nothing is published, run() throws.
ServerPublishFails(n) ==
    LET b == Received(n) IN
    /\ Arrives(n)
    /\ ~Rejects(b, fill + n)
    /\ fill + n >= Needed(b, fill + n) /\ ~IsHeartbeat(b)
    /\ NextPacket
    /\ spc' = "failed"
    /\ UNCHANGED published

ServerRejects(n) ==
    /\ Arrives(n)
    /\ Rejects(Received(n), fill + n)
    /\ spc' = "rejected"
    /\ fill' = fill + n
    /\ UNCHANGED <<want, consumed, published>>

ServerEnd(how) ==
    /\ spc = "recv"
    /\ spc' = how
    /\ UNCHANGED <<version, clientVars, stream, wr, rd, buf, fill, want, consumed, published>>

\* recv() returned 0: the client closed and every byte it sent has been read.
ServerEof == cpc \in ClientEnds /\ rd = wr /\ ServerEnd("eof")

\* recv() timed out; module TunnelSession says when that can happen.
ServerSilent == rd = wr /\ ServerEnd("silent")

ServerStop == ServerEnd("stopped")

-----------------------------------------------------------------------------
ServerReads(n) ==
    ServerReadsPart(n) \/ ServerReadsHeartbeat(n) \/ ServerPublishes(n) \/ ServerRejects(n)

ClientStep ==
    \/ \E len \in 0..(MaxLen + 1) : ClientTakes(len)
    \/ ClientHeartbeat
    \/ \E n \in 1..(Header + MaxLen) : ClientSend(n)
    \/ ClientSendFails
    \/ ClientStop
    \/ ClientCrash

ServerStep ==
    \/ \E n \in 1..(Header + MaxLen) : ServerReads(n) \/ ServerPublishFails(n)
    \/ ServerEof
    \/ ServerSilent
    \/ ServerStop

Next == ClientStep \/ ServerStep

Safety == Init /\ [][Next]_vars

\* sendTCPData loops until its frame is out and the server reads whenever
\* there is something to read; nobody has to send, stop, crash or fail.
Fairness ==
    /\ WF_vars(\E n \in 1..(Header + MaxLen) : ClientSend(n))
    /\ WF_vars((\E n \in 1..(Header + MaxLen) : ServerReads(n)) \/ ServerEof)

Spec == Safety /\ Fairness

-----------------------------------------------------------------------------
(* Properties *)

\* Every variable has its type.
TypeOK ==
    /\ version \in Versions
    /\ cpc \in {"recv", "send"} \cup ClientEnds
    /\ frames \in Seq(Frame)
    /\ sent \in Nat /\ forwarded \in Nat
    /\ taken \in Seq(Datagrams)
    /\ wr \in Nat /\ rd \in 0..wr
    /\ stream \in [0..(wr - 1) -> Byte]
    /\ spc \in {"recv"} \cup ServerEnds
    /\ buf \in [BufferIndex -> Byte]
    /\ fill \in Nat /\ want \in Nat
    /\ consumed \in Nat
    /\ published \in Seq(Datagrams)

\* However the bytes arrive, the server's next recv() asks for no byte beyond
\* the frame it is reassembling, nor beyond tunnel_pkt, and it always asks for
\* at least one: the two assert()s of runServer's loop, and what keeps
\* consecutive frames apart.
NeverReadsPastFrame ==
    spc = "recv" =>
        /\ want > 0
        /\ fill + want <= Header + MaxLen
        /\ consumed < Len(frames) => fill + want <= Size(consumed + 1)

\* The bytes reassembled so far are the first bytes of the frame that follows
\* the frames already consumed: no byte of an older frame left in tunnel_pkt
\* is ever taken for one of this frame.
FrameAligned ==
    spc = "recv" => \A i \in 0..(fill - 1) : buf[i] = [pkt |-> consumed + 1, off |-> i]

\* The counts the two ends show agree: the server is never more than the one
\* datagram in hand ahead of what the client recorded, and when it sees the
\* client's connection end it has published every datagram recorded there.
CountsAgree ==
    /\ forwarded <= Len(taken)
    /\ Len(published) <= forwarded + 1
    /\ spc = "eof" => Len(published) >= forwarded

\* Nothing a client of another protocol version sends is ever published.
OnlyOwnVersion == published # <<>> => version = ServerVersion

Relay == INSTANCE TunnelRelay WITH open <- (spc = "recv")

\* The framing implements the relay: published is at all times a prefix of
\* what the client took, datagram by datagram and byte by byte.
RelaySafety == Relay!Safety

\* A datagram the client took is published in the end, unless the server has
\* ended or the client died before handing it to TCP.
EveryDatagramDelivered ==
    \A i \in 1..MaxFrames :
        Len(taken) >= i ~> (Len(published) >= i \/ spc # "recv")
=============================================================================
