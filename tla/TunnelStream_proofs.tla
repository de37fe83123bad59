------------------------- MODULE TunnelStream_proofs -------------------------
(***************************************************************************)
(* The inductive invariant of TunnelStream and what follows from it.       *)
(***************************************************************************)
EXTENDS TunnelStream, TLAPS

Last == Len(frames)
Nth(k) == IF k = 0 THEN 0 ELSE frames[k].nth

\* Frames follow one another on the wire without gap or overlap.
FramesChained ==
    /\ Last > 0 => frames[1].start = 0
    /\ \A k \in 1..(Last - 1) : frames[k + 1].start = frames[k].start + Size(k)
    /\ \A k, l \in 1..Last : k < l => frames[k].start + Size(k) <= frames[l].start

\* Frames count the datagrams taken.
FramesCounted ==
    /\ \A k \in 1..Last : frames[k].type = "Datagram" => frames[k].nth = Nth(k - 1) + 1
    /\ \A k \in 1..Last : frames[k].type = "Heartbeat" => frames[k].nth = Nth(k - 1)
    /\ Len(taken) = Nth(Last)

\* The datagram a frame carries is the one it was numbered after.
FramesCarryTaken ==
    \A k \in 1..Last : frames[k].type = "Datagram" =>
        /\ frames[k].nth \in 1..Len(taken)
        /\ taken[frames[k].nth] = Image(k, frames[k].len)

\* What the client has written ends within the last frame, at its end when the
\* client is between two frames.
SenderPlaced ==
    /\ Last = 0 => wr = 0 /\ cpc # "send" /\ forwarded = 0
    /\ Last > 0 =>
        /\ wr = frames[Last].start + sent
        /\ sent <= Size(Last)
        /\ cpc = "send" => sent < Size(Last)
        /\ cpc = "recv" => sent = Size(Last)
        /\ forwarded = IF sent = Size(Last) THEN Len(taken) ELSE Nth(Last - 1)

\* Every byte on the wire is at the place its frame and offset say.
StreamPlaced ==
    \A j \in 0..(wr - 1) :
        /\ stream[j].pkt \in 1..Last
        /\ stream[j].off < Size(stream[j].pkt)
        /\ j = frames[stream[j].pkt].start + stream[j].off

\* The server's read position is fill bytes into the frame after those it has
\* consumed.
ReaderPlaced ==
    spc = "recv" =>
        /\ consumed <= Last
        /\ consumed = Last =>
            fill = 0 /\ rd = wr /\ (Last > 0 => sent = Size(Last))
        /\ consumed < Last => rd = frames[consumed + 1].start + fill

\* len_to_read is what is missing of the preamble, the header or the frame,
\* whichever is the first to be incomplete.
ReaderWants ==
    spc = "recv" =>
        \/ fill < Preamble /\ want = Preamble - fill
        \/ /\ fill >= Preamble /\ consumed < Last
           /\ version = ServerVersion
           /\ frames[consumed + 1].type = "Datagram"
           /\ want = IF fill < Header THEN Header - fill ELSE Size(consumed + 1) - fill
           /\ want > 0

PublishedOnly ==
    /\ spc = "recv" => Len(published) = Nth(consumed)
    /\ Len(published) <= Len(taken)
    /\ \A i \in 1..Len(published) : published[i] = taken[i]
    /\ spc = "eof" => cpc \in ClientEnds /\ Len(published) >= forwarded

IInv ==
    /\ TypeOK
    /\ FramesChained
    /\ FramesCounted
    /\ FramesCarryTaken
    /\ SenderPlaced
    /\ StreamPlaced
    /\ ReaderPlaced
    /\ FrameAligned
    /\ ReaderWants
    /\ PublishedOnly
    /\ OnlyOwnVersion

-----------------------------------------------------------------------------
(* Frames *)

\* What the type of frames says of one frame and of its length on the wire.
LEMMA FrameFacts ==
    ASSUME TypeOK, NEW k \in 1..Last
    PROVE  /\ frames[k] \in Frame
           /\ frames[k].type \in {"Heartbeat", "Datagram"}
           /\ frames[k].len \in 0..MaxLen
           /\ frames[k].start \in Nat /\ frames[k].nth \in Nat
           /\ Size(k) \in Nat /\ Preamble <= Size(k) /\ Size(k) <= Header + MaxLen
           /\ frames[k].type = "Heartbeat" => Size(k) = Preamble
           /\ frames[k].type = "Datagram" => Size(k) = Header + frames[k].len
<1>1. frames[k] \in Frame
  BY DEF TypeOK, Last
<1>2. QED
  BY <1>1, StreamAssumption DEF Frame, Size, PacketSize, VersionAt

\* The initial state satisfies the invariant.
LEMMA InitInv == Init => IInv
<1> SUFFICES ASSUME Init PROVE IInv
  OBVIOUS
<1> USE StreamAssumption DEF Init
<1>1. TypeOK
  BY DEF TypeOK, BufferIndex, Byte, ZeroByte, VersionAt
<1>2. FramesChained /\ FramesCounted /\ FramesCarryTaken /\ SenderPlaced /\ StreamPlaced
  BY DEF FramesChained, FramesCounted, FramesCarryTaken, SenderPlaced, StreamPlaced, Last, Nth
<1>3. ReaderPlaced /\ FrameAligned /\ ReaderWants
  BY DEF ReaderPlaced, FrameAligned, ReaderWants, Last, VersionAt
<1>4. PublishedOnly /\ OnlyOwnVersion
  BY DEF PublishedOnly, OnlyOwnVersion, Last, Nth
<1>5. QED
  BY <1>1, <1>2, <1>3, <1>4 DEF IInv

\* A stuttering step keeps the invariant.
LEMMA StutterInv == IInv /\ UNCHANGED vars => IInv'
<1> SUFFICES ASSUME IInv, UNCHANGED vars PROVE IInv'
  OBVIOUS
<1> USE DEF IInv, vars, clientVars, serverVars, Last, Nth, Size
<1>1. TypeOK' /\ SenderPlaced' /\ StreamPlaced' /\ ReaderPlaced'
  BY DEF TypeOK, SenderPlaced, StreamPlaced, ReaderPlaced
<1>2. FramesChained' /\ FramesCounted' /\ FramesCarryTaken'
  BY DEF FramesChained, FramesCounted, FramesCarryTaken
<1>3. FrameAligned' /\ ReaderWants'
  BY DEF FrameAligned, ReaderWants
<1>4. PublishedOnly' /\ OnlyOwnVersion'
  BY DEF PublishedOnly, OnlyOwnVersion
<1> QED BY <1>1, <1>2, <1>3, <1>4

-----------------------------------------------------------------------------
(* A frame begins *)

\* Appending a frame leaves the others as they are.
LEMMA AppendFrame ==
    ASSUME TypeOK, NEW new \in Frame, frames' = Append(frames, new)
    PROVE  /\ Last \in Nat /\ Last' = Last + 1 /\ frames' \in Seq(Frame)
           /\ frames'[Last + 1] = new
           /\ \A l \in 1..Last : frames'[l] = frames[l] /\ Size(l)' = Size(l)
           /\ \A k : k = Last + 1 => Size(k)' = PacketSize(new.type, new.len)
           /\ PacketSize(new.type, new.len) \in Nat \ {0}
<1>1. /\ Last \in Nat /\ Last' = Last + 1 /\ frames' \in Seq(Frame)
      /\ frames'[Last + 1] = new
      /\ \A l \in 1..Last : frames'[l] = frames[l]
  BY DEF TypeOK, Last
<1>2. PacketSize(new.type, new.len) \in Nat \ {0}
  BY StreamAssumption DEF PacketSize, Frame, VersionAt
<1>3. ASSUME NEW l \in 1..Last PROVE Size(l)' = Size(l)
  BY <1>1 DEF Size
<1>4. ASSUME NEW k, k = Last + 1 PROVE Size(k)' = PacketSize(new.type, new.len)
  BY <1>1, <1>4 DEF Size
<1>5. QED
  BY <1>1, <1>2, <1>3, <1>4

\* The client begins a frame when the last one is wholly written.
LEMMA FrameEnds ==
    ASSUME TypeOK, FramesChained, SenderPlaced, cpc = "recv"
    PROVE  /\ Last = 0 => wr = 0
           /\ Last > 0 => wr = frames[Last].start + Size(Last)
           /\ \A l \in 1..Last : frames[l].start + Size(l) <= wr
<1>1. Last \in Nat
  BY DEF TypeOK, Last
<1>2. Last > 0 => wr = frames[Last].start + Size(Last)
  BY DEF SenderPlaced
<1>3. ASSUME NEW l \in 1..Last PROVE frames[l].start + Size(l) <= wr
  <2>1. Last \in 1..Last
    BY <1>1
  <2>2. frames[Last].start \in Nat /\ Size(Last) \in Nat
    BY <2>1, FrameFacts
  <2>3. l < Last => frames[l].start + Size(l) <= frames[Last].start
    BY <2>1 DEF FramesChained
  <2>4. frames[l].start \in Nat /\ Size(l) \in Nat
    BY FrameFacts
  <2>5. QED
    BY <1>1, <1>2, <2>2, <2>3, <2>4
<1>4. QED
  BY <1>1, <1>2, <1>3 DEF SenderPlaced

\* Frames stay chained when the new one starts at the end of what is written.
LEMMA BeginChained ==
    ASSUME TypeOK, FramesChained, SenderPlaced, cpc = "recv",
           NEW new \in Frame, frames' = Append(frames, new), new.start = wr
    PROVE  FramesChained'
<1>1. /\ Last \in Nat /\ Last' = Last + 1
      /\ frames'[Last + 1] = new
      /\ \A l \in 1..Last : frames'[l] = frames[l] /\ Size(l)' = Size(l)
  BY AppendFrame
<1>2. /\ Last = 0 => wr = 0
      /\ Last > 0 => wr = frames[Last].start + Size(Last)
      /\ \A l \in 1..Last : frames[l].start + Size(l) <= wr
  BY FrameEnds
<1>3. Last' > 0 => frames'[1].start = 0
  BY <1>1, <1>2 DEF FramesChained
<1>4. ASSUME NEW l \in 1..(Last' - 1)
      PROVE  frames'[l + 1].start = frames'[l].start + Size(l)'
  <2>1. CASE l = Last
    <3>1. l \in 1..Last /\ Last > 0
      BY <1>1, <2>1
    <3>2. QED
      BY <1>1, <1>2, <2>1, <3>1
  <2>2. CASE l # Last
    <3>1. l \in 1..(Last - 1) /\ l \in 1..Last /\ l + 1 \in 1..Last
      BY <1>1, <2>2
    <3>2. QED
      BY <1>1, <3>1 DEF FramesChained
  <2>3. QED
    BY <2>1, <2>2
<1>5. ASSUME NEW l \in 1..Last', NEW m \in 1..Last', l < m
      PROVE  frames'[l].start + Size(l)' <= frames'[m].start
  <2>1. l \in 1..Last
    BY <1>1, <1>5
  <2>2. CASE m = Last + 1
    BY <1>1, <1>2, <2>1, <2>2
  <2>3. CASE m # Last + 1
    <3>1. m \in 1..Last
      BY <1>1, <2>3
    <3>2. QED
      BY <1>1, <1>5, <2>1, <3>1 DEF FramesChained
  <2>4. QED
    BY <2>2, <2>3
<1>6. QED
  BY <1>3, <1>4, <1>5 DEF FramesChained

\* The count goes on from the last frame.
LEMMA BeginCounted ==
    ASSUME TypeOK, FramesCounted,
           NEW new \in Frame, frames' = Append(frames, new),
           new.type = "Datagram" => new.nth = Len(taken) + 1 /\ Len(taken') = Len(taken) + 1,
           new.type = "Heartbeat" => new.nth = Len(taken) /\ Len(taken') = Len(taken)
    PROVE  FramesCounted'
<1>1. /\ Last \in Nat /\ Last' = Last + 1
      /\ frames'[Last + 1] = new
      /\ \A l \in 1..Last : frames'[l] = frames[l]
  BY AppendFrame
<1>2. ASSUME NEW l \in 0..Last PROVE Nth(l)' = Nth(l)
  <2>1. CASE l = 0
    BY <2>1 DEF Nth
  <2>2. CASE l # 0
    <3>1. l \in 1..Last
      BY <1>1, <2>2
    <3>2. QED
      BY <1>1, <2>2, <3>1 DEF Nth
  <2>3. QED
    BY <2>1, <2>2
<1>3. ASSUME NEW l \in 1..Last' PROVE Nth(l - 1)' = Nth(l - 1)
  BY <1>1, <1>2
<1>4. Len(taken) = Nth(Last) /\ Len(taken') = new.nth
  BY DEF FramesCounted, Frame
<1>5. ASSUME NEW l \in 1..Last'
      PROVE  /\ frames'[l].type = "Datagram" => frames'[l].nth = Nth(l - 1)' + 1
             /\ frames'[l].type = "Heartbeat" => frames'[l].nth = Nth(l - 1)'
  <2>1. CASE l = Last + 1
    <3> l - 1 = Last
      BY <1>1, <2>1
    <3>1. Nth(l - 1)' = Len(taken) /\ frames'[l] = new
      BY <1>1, <1>3, <1>4, <2>1
    <3>2. QED
      BY <3>1
  <2>2. CASE l # Last + 1
    <3>1. l \in 1..Last
      BY <1>1, <2>2
    <3>2. QED
      BY <1>1, <1>3, <3>1 DEF FramesCounted
  <2>3. QED
    BY <2>1, <2>2
<1>6. Len(taken') = Nth(Last)'
  BY <1>1, <1>4 DEF Nth
<1>7. QED
  BY <1>5, <1>6 DEF FramesCounted

\* A datagram frame carries the datagram just taken.
LEMMA BeginCarries ==
    ASSUME TypeOK, FramesCarryTaken,
           NEW new \in Frame, frames' = Append(frames, new),
           \A i \in 1..Len(taken) : taken'[i] = taken[i],
           Len(taken') \in Nat, Len(taken) <= Len(taken'),
           new.type = "Datagram" =>
               new.nth \in 1..Len(taken') /\ taken'[new.nth] = Image(Last + 1, new.len)
    PROVE  FramesCarryTaken'
<1>1. /\ Last \in Nat /\ Last' = Last + 1
      /\ frames'[Last + 1] = new
      /\ \A l \in 1..Last : frames'[l] = frames[l]
  BY AppendFrame
<1>2. ASSUME NEW l \in 1..Last', frames'[l].type = "Datagram"
      PROVE  /\ frames'[l].nth \in 1..Len(taken')
             /\ taken'[frames'[l].nth] = Image(l, frames'[l].len)
  <2>1. CASE l = Last + 1
    BY <1>1, <1>2, <2>1
  <2>2. CASE l # Last + 1
    <3>0. l \in 1..Last
      BY <1>1, <2>2
    <3>1. frames'[l] = frames[l]
      BY <1>1, <3>0
    <3>2. frames[l].nth \in 1..Len(taken) /\ taken[frames[l].nth] = Image(l, frames[l].len)
      BY <1>2, <3>0, <3>1 DEF FramesCarryTaken
    <3>3. Len(taken) \in Nat
      BY DEF TypeOK
    <3>4. QED
      BY <3>1, <3>2, <3>3
  <2>3. QED
    BY <2>1, <2>2
<1>3. QED
  BY <1>2 DEF FramesCarryTaken

\* What the server and the wire keep while a frame is begun.
LEMMA BeginServer ==
    ASSUME TypeOK, FramesChained, FramesCounted, SenderPlaced, StreamPlaced, ReaderPlaced,
           ReaderWants, PublishedOnly, cpc = "recv",
           NEW new \in Frame, frames' = Append(frames, new), new.start = wr,
           cpc' = "send", Len(taken') \in Nat, Len(taken) <= Len(taken'),
           \A i \in 1..Len(taken) : taken'[i] = taken[i],
           UNCHANGED <<version, forwarded, stream, wr, rd, serverVars>>
    PROVE  StreamPlaced' /\ ReaderPlaced' /\ ReaderWants' /\ PublishedOnly'
<1>0. /\ version' = version /\ stream' = stream /\ wr' = wr /\ rd' = rd
      /\ spc' = spc /\ fill' = fill /\ want' = want /\ consumed' = consumed
      /\ published' = published /\ forwarded' = forwarded
  BY DEF serverVars
<1>1. /\ Last \in Nat /\ Last' = Last + 1
      /\ frames'[Last + 1] = new
      /\ \A l \in 1..Last : frames'[l] = frames[l] /\ Size(l)' = Size(l)
  BY AppendFrame
<1>2. StreamPlaced'
  <2> SUFFICES ASSUME NEW j \in 0..(wr - 1)
               PROVE  /\ stream[j].pkt \in 1..(Last + 1)
                      /\ stream[j].off < Size(stream[j].pkt)'
                      /\ j = frames'[stream[j].pkt].start + stream[j].off
    BY <1>0, <1>1 DEF StreamPlaced
  <2>1. /\ stream[j].pkt \in 1..Last
        /\ stream[j].off < Size(stream[j].pkt)
        /\ j = frames[stream[j].pkt].start + stream[j].off
    BY DEF StreamPlaced
  <2>2. PICK k \in 1..Last : k = stream[j].pkt
    BY <2>1
  <2>3. Size(k)' = Size(k) /\ frames'[k] = frames[k]
    BY <1>1, <2>2
  <2>4. QED
    BY <1>0, <1>1, <2>1, <2>2, <2>3
<1> PICK c \in Nat : c = consumed
  BY DEF TypeOK
<1>3. ReaderPlaced'
  <2> SUFFICES ASSUME spc = "recv"
               PROVE  /\ c <= Last + 1
                      /\ c # Last + 1
                      /\ c < Last + 1 => rd = frames'[c + 1].start + fill
    BY <1>0, <1>1 DEF ReaderPlaced
  <2>1. /\ c <= Last
        /\ c = Last => fill = 0 /\ rd = wr
        /\ c < Last => rd = frames[c + 1].start + fill
    BY DEF ReaderPlaced
  <2>2. rd \in Nat /\ wr \in Nat /\ Last \in Nat
    BY <1>1 DEF TypeOK
  <2>3. CASE c = Last
    <3>1. frames'[c + 1] = new
      BY <1>1, <2>3
    <3>2. fill = 0 /\ rd = wr
      BY <2>1, <2>3
    <3>3. frames'[c + 1].start + fill = wr
      BY <2>2, <3>1, <3>2
    <3>4. c <= Last + 1 /\ c # Last + 1
      BY <2>2, <2>3
    <3>5. rd = frames'[c + 1].start + fill
      BY <3>2, <3>3
    <3>6. QED
      BY <3>4, <3>5
  <2>4. CASE c < Last
    <3>1. c + 1 \in 1..Last
      BY <1>1, <2>4
    <3>2. frames'[c + 1] = frames[c + 1]
      BY <1>1, <3>1
    <3>3. QED
      BY <1>1, <2>1, <2>4, <3>2
  <2>5. QED
    <3>1. c = Last \/ c < Last
      BY <2>1, <2>2
    <3>2. QED
      BY <3>1, <2>3, <2>4
<1>4. ReaderWants'
  <2>1. CASE spc = "recv" /\ ~(fill < Preamble /\ want = Preamble - fill)
    <3>1. /\ fill >= Preamble /\ c < Last
          /\ version = ServerVersion
          /\ frames[c + 1].type = "Datagram"
          /\ want = IF fill < Header THEN Header - fill ELSE Size(c + 1) - fill
          /\ want > 0
      BY <2>1 DEF ReaderWants
    <3>2. c + 1 \in 1..Last
      BY <1>1, <3>1
    <3>3. frames'[c + 1] = frames[c + 1] /\ Size(c + 1)' = Size(c + 1)
      BY <1>1, <3>2
    <3>4. c < Last'
      BY <1>1, <3>1
    <3>5. QED
      BY <1>0, <3>1, <3>3, <3>4 DEF ReaderWants
  <2>2. QED
    BY <1>0, <2>1 DEF ReaderWants
<1>5. PublishedOnly'
  <2>1. spc = "recv" => Nth(c)' = Nth(c)
    <3> SUFFICES ASSUME spc = "recv" PROVE Nth(c)' = Nth(c)
      OBVIOUS
    <3>1. c <= Last
      BY DEF ReaderPlaced
    <3>2. CASE c = 0
      BY <3>2 DEF Nth
    <3>3. CASE c # 0
      <4>1. c \in 1..Last
        BY <1>1, <3>1, <3>3
      <4>2. frames'[c] = frames[c]
        BY <1>1, <4>1
      <4>3. QED
        BY <3>3, <4>2 DEF Nth
    <3>4. QED
      BY <3>2, <3>3
  <2>2. Len(published) \in Nat /\ Len(taken) \in Nat
    BY DEF TypeOK
  <2>3. /\ spc = "recv" => Len(published) = Nth(c)
        /\ Len(published) <= Len(taken)
        /\ \A i \in 1..Len(published) : published[i] = taken[i]
        /\ spc # "eof"
    BY DEF PublishedOnly, ClientEnds
  <2>4. (spc = "recv" => Len(published) = Nth(consumed))'
    BY <1>0, <2>1, <2>3
  <2>5. QED
    BY <1>0, <2>2, <2>3, <2>4 DEF PublishedOnly
<1>6. QED
  BY <1>2, <1>3, <1>4, <1>5

\* Beginning a frame keeps the invariant, for a datagram just taken and for a
\* heartbeat.
LEMMA BeginInv ==
    ASSUME IInv, cpc = "recv",
           NEW new \in Frame, frames' = Append(frames, new), new.start = wr,
           \/ /\ new.type = "Datagram" /\ new.nth = Len(taken) + 1
              /\ Image(Last + 1, new.len) \in Datagrams
              /\ taken' = Append(taken, Image(Last + 1, new.len))
           \/ new.type = "Heartbeat" /\ new.nth = Len(taken) /\ taken' = taken,
           cpc' = "send", sent' = 0,
           UNCHANGED <<version, forwarded, stream, wr, rd, serverVars>>
    PROVE  IInv'
<1>0. /\ version' = version /\ stream' = stream /\ wr' = wr /\ rd' = rd
      /\ spc' = spc /\ fill' = fill /\ want' = want /\ consumed' = consumed
      /\ published' = published /\ forwarded' = forwarded /\ buf' = buf
  BY DEF serverVars
<1>1. /\ TypeOK /\ FramesChained /\ FramesCounted /\ FramesCarryTaken /\ SenderPlaced
      /\ StreamPlaced /\ ReaderPlaced /\ FrameAligned /\ ReaderWants /\ PublishedOnly
      /\ OnlyOwnVersion
  BY DEF IInv
<1>2. /\ Last \in Nat /\ Last' = Last + 1 /\ frames' \in Seq(Frame)
      /\ frames'[Last + 1] = new
      /\ \A l \in 1..Last : frames'[l] = frames[l]
      /\ \A k : k = Last + 1 => Size(k)' = PacketSize(new.type, new.len)
      /\ PacketSize(new.type, new.len) \in Nat \ {0}
  BY <1>1, AppendFrame
<1>3. /\ taken' \in Seq(Datagrams) /\ Len(taken) \in Nat /\ Len(taken') \in Nat
      /\ Len(taken') = new.nth /\ Len(taken) <= Len(taken')
      /\ \A i \in 1..Len(taken) : taken'[i] = taken[i]
      /\ new.type = "Datagram" =>
            /\ new.nth = Len(taken) + 1
            /\ taken'[new.nth] = Image(Last + 1, new.len)
      /\ new.type = "Heartbeat" => new.nth = Len(taken)
  <2>1. taken \in Seq(Datagrams)
    BY <1>1 DEF TypeOK
  <2>2. QED
    BY <2>1
<1>4. TypeOK'
  BY <1>0, <1>1, <1>2, <1>3 DEF TypeOK
<1>5. FramesChained'
  BY <1>1, BeginChained
<1>6. FramesCounted'
  BY <1>1, <1>3, BeginCounted
<1>7. FramesCarryTaken'
  BY <1>1, <1>3, BeginCarries
<1>8. SenderPlaced'
  <2> PICK k \in Nat : k = Last + 1
    BY <1>2
  <2>1. forwarded = Len(taken)
    BY <1>1, <1>2 DEF SenderPlaced, FramesCounted, Nth
  <2>2. Nth(k - 1)' = Len(taken)
    <3>1. k - 1 = Last
      BY <1>2
    <3>2. Len(taken) = IF Last = 0 THEN 0 ELSE frames[Last].nth
      BY <1>1 DEF FramesCounted, Nth
    <3>3. Last # 0 => frames'[Last] = frames[Last]
      <4>1. Last # 0 => Last \in 1..Last
        BY <1>2
      <4>2. QED
        BY <4>1, <1>2
    <3>4. QED
      BY <1>2, <3>1, <3>2, <3>3 DEF Nth
  <2>3. Size(k)' \in Nat \ {0}
    BY <1>2
  <2>4. /\ wr = frames'[k].start + 0
        /\ 0 < Size(k)'
        /\ forwarded' = Nth(k - 1)'
    BY <1>0, <1>1, <1>2, <2>1, <2>2, <2>3 DEF TypeOK
  <2>5. Last' = k
    BY <1>2
  <2>6. QED
    <3>1. k # 0 /\ k > 0
      BY <1>2
    <3>2. /\ wr' = frames'[k].start + sent'
          /\ sent' <= Size(k)' /\ sent' < Size(k)' /\ sent' # Size(k)'
      BY <1>0, <2>3, <2>4
    <3>3. cpc' # "recv" /\ forwarded' = Nth(k - 1)'
      BY <2>4
    <3>4. QED
      BY <2>5, <3>1, <3>2, <3>3 DEF SenderPlaced
<1>9. StreamPlaced' /\ ReaderPlaced' /\ ReaderWants' /\ PublishedOnly'
  BY <1>1, <1>3, BeginServer
<1>10. FrameAligned' /\ OnlyOwnVersion'
  BY <1>0, <1>1 DEF FrameAligned, OnlyOwnVersion
<1>11. QED
  BY <1>4, <1>5, <1>6, <1>7, <1>8, <1>9, <1>10 DEF IInv

\* The two ways a frame begins.
LEMMA ClientTakesInv ==
    ASSUME IInv, NEW len \in Nat, ClientTakes(len)
    PROVE  IInv'
<1> DEFINE new == [type |-> "Datagram", len |-> len, start |-> wr, nth |-> Len(taken) + 1]
<1>1. new \in Frame
  BY StreamAssumption DEF IInv, TypeOK, Frame, ClientTakes, Accepted
<1>2. Image(Last + 1, len) \in Datagrams
  <2>1. len \in 0..MaxLen /\ Last + 1 \in 1..MaxFrames
    BY StreamAssumption DEF IInv, TypeOK, Last, ClientTakes, Accepted
  <2>2. QED
    BY <2>1 DEF Datagrams
<1>3. /\ frames' = Append(frames, new) /\ cpc = "recv" /\ cpc' = "send" /\ sent' = 0
      /\ taken' = Append(taken, Image(Last + 1, len))
      /\ UNCHANGED <<version, forwarded, stream, wr, rd, serverVars>>
  BY DEF ClientTakes, Begin, Last
<1>4. /\ new.start = wr /\ new.type = "Datagram" /\ new.nth = Len(taken) + 1
      /\ new.len = len
  OBVIOUS
<1> HIDE DEF new
<1>5. QED
  BY <1>1, <1>2, <1>3, <1>4, BeginInv

LEMMA ClientHeartbeatInv == IInv /\ ClientHeartbeat => IInv'
<1> SUFFICES ASSUME IInv, ClientHeartbeat PROVE IInv'
  OBVIOUS
<1> DEFINE new == [type |-> "Heartbeat", len |-> 0, start |-> wr, nth |-> Len(taken)]
<1>1. new \in Frame
  BY StreamAssumption DEF IInv, TypeOK, Frame
<1>2. /\ frames' = Append(frames, new) /\ cpc = "recv" /\ cpc' = "send" /\ sent' = 0
      /\ taken' = taken
      /\ UNCHANGED <<version, forwarded, stream, wr, rd, serverVars>>
  BY DEF ClientHeartbeat, Begin
<1>3. new.start = wr /\ new.type = "Heartbeat" /\ new.nth = Len(taken)
  OBVIOUS
<1> HIDE DEF new
<1>4. QED
  BY <1>1, <1>2, <1>3, BeginInv

-----------------------------------------------------------------------------
(* The other client steps *)

\* Writing part of a frame keeps the invariant.
LEMMA ClientSendInv ==
    ASSUME IInv, NEW n \in Nat, ClientSend(n)
    PROVE  IInv'
<1>1. /\ TypeOK /\ FramesChained /\ FramesCounted /\ FramesCarryTaken /\ SenderPlaced
      /\ StreamPlaced /\ ReaderPlaced /\ FrameAligned /\ ReaderWants /\ PublishedOnly
      /\ OnlyOwnVersion
  BY DEF IInv
<1>2. /\ version' = version /\ frames' = frames /\ taken' = taken /\ rd' = rd
      /\ spc' = spc /\ buf' = buf /\ fill' = fill /\ want' = want
      /\ consumed' = consumed /\ published' = published
      /\ wr' = wr + n /\ sent' = sent + n /\ cpc = "send"
  BY DEF ClientSend, serverVars
<1>3. Last' = Last /\ (\A l : Size(l)' = Size(l)) /\ (\A l : Nth(l)' = Nth(l))
  BY <1>2 DEF Last, Size, Nth
<1>4. PICK k \in 1..Last : k = Last
  BY <1>1, <1>2 DEF SenderPlaced, TypeOK, Last
<1>5. /\ k \in Nat /\ k > 0 /\ Last \in Nat
      /\ frames[k].start \in Nat /\ Size(k) \in Nat
      /\ frames[k].type \in {"Heartbeat", "Datagram"}
  BY <1>1, <1>4, FrameFacts DEF TypeOK, Last
<1>6. /\ wr = frames[k].start + sent /\ sent < Size(k) /\ forwarded = Nth(k - 1)
      /\ sent \in Nat /\ wr \in Nat /\ rd \in 0..wr
  BY <1>1, <1>2, <1>4, <1>5 DEF SenderPlaced, TypeOK
<1>7. n >= 1 /\ sent + n <= Size(k)
  BY <1>4, <1>5, <1>6 DEF ClientSend, Last
<1>8. stream' = [j \in 0..(wr + n - 1) |->
                    IF j < wr THEN stream[j] ELSE [pkt |-> k, off |-> sent + j - wr]]
  BY <1>4 DEF ClientSend, Last
<1>9. /\ sent + n = Size(k) =>
            /\ cpc' = "recv"
            /\ forwarded' = IF frames[k].type = "Datagram" THEN forwarded + 1 ELSE forwarded
      /\ sent + n # Size(k) => cpc' = cpc /\ forwarded' = forwarded
  BY <1>4 DEF ClientSend, Completes, Records, Last
<1>10. TypeOK'
  <2>1. ASSUME NEW j \in 0..(wr + n - 1) PROVE stream'[j] \in Byte
    <3>1. CASE j < wr
      <4>1. stream'[j] = stream[j] /\ j \in 0..(wr - 1)
        BY <1>6, <1>8, <3>1
      <4>2. stream \in [0..(wr - 1) -> Byte]
        BY <1>1 DEF TypeOK
      <4>3. QED
        BY <4>1, <4>2
    <3>2. CASE ~(j < wr)
      <4>1. sent + j - wr \in Nat
        BY <1>6, <3>2
      <4>2. QED
        BY <1>5, <1>8, <3>2, <4>1 DEF Byte
    <3>3. QED
      BY <3>1, <3>2
  <2>2. stream' \in [0..(wr' - 1) -> Byte]
    <3>1. stream' \in [0..(wr + n - 1) -> Byte]
      BY <1>8, <2>1
    <3>2. wr' - 1 = wr + n - 1
      BY <1>2, <1>6
    <3>3. QED
      BY <3>1, <3>2
  <2>3. forwarded' \in Nat /\ cpc' \in {"recv", "send"} \cup ClientEnds
    BY <1>1, <1>2, <1>9 DEF TypeOK
  <2>4. wr' \in Nat /\ rd' \in 0..wr' /\ sent' \in Nat
    BY <1>2, <1>6
  <2>5. QED
    BY <1>1, <1>2, <2>2, <2>3, <2>4 DEF TypeOK
<1>11. FramesChained' /\ FramesCounted' /\ FramesCarryTaken'
  BY <1>1, <1>2, <1>3 DEF FramesChained, FramesCounted, FramesCarryTaken
<1>12. SenderPlaced'
  <2>1. Len(taken) = IF frames[k].type = "Datagram" THEN Nth(k - 1) + 1 ELSE Nth(k - 1)
    BY <1>1, <1>4, <1>5 DEF FramesCounted, Nth
  <2>2. sent' = Size(k) => forwarded' = Len(taken)
    BY <1>2, <1>6, <1>9, <2>1
  <2>3. sent' # Size(k) => forwarded' = Nth(k - 1)
    BY <1>2, <1>6, <1>9
  <2>4. wr' = frames[k].start + sent' /\ sent' <= Size(k)
    BY <1>2, <1>5, <1>6, <1>7
  <2>5. /\ cpc' = "send" => sent' < Size(k)
        /\ cpc' = "recv" => sent' = Size(k)
    BY <1>2, <1>5, <1>6, <1>7, <1>9
  <2>6. QED
    BY <1>2, <1>3, <1>4, <1>5, <2>2, <2>3, <2>4, <2>5 DEF SenderPlaced
<1>13. StreamPlaced'
  <2>1. ASSUME NEW j \in 0..(wr + n - 1)
        PROVE  /\ stream'[j].pkt \in 1..Last
               /\ stream'[j].off < Size(stream'[j].pkt)
               /\ j = frames[stream'[j].pkt].start + stream'[j].off
    <3>1. CASE j < wr
      <4>1. stream'[j] = stream[j] /\ j \in 0..(wr - 1)
        BY <1>6, <1>8, <3>1
      <4>2. QED
        BY <1>1, <4>1 DEF StreamPlaced
    <3>2. CASE ~(j < wr)
      <4>1. stream'[j].pkt = k /\ stream'[j].off = sent + j - wr
        BY <1>8, <3>2
      <4>2. sent + j - wr < Size(k) /\ j = frames[k].start + (sent + j - wr)
        BY <1>5, <1>6, <1>7
      <4>3. QED
        BY <4>1, <4>2
    <3>3. QED
      BY <3>1, <3>2
  <2>2. wr' - 1 = wr + n - 1 /\ Last' = Last /\ frames' = frames
    BY <1>2, <1>3, <1>6
  <2>3. ASSUME NEW j \in 0..(wr' - 1)
        PROVE  /\ stream'[j].pkt \in 1..Last'
               /\ stream'[j].off < Size(stream[j].pkt)'
               /\ j = frames'[stream'[j].pkt].start + stream'[j].off
    <3>1. PICK p : p = stream'[j].pkt
      OBVIOUS
    <3>2. Size(p)' = Size(p)
      BY <1>3
    <3>3. p \in 1..Last' /\ stream'[j].off < Size(p)' /\ j = frames'[p].start + stream'[j].off
      BY <2>1, <2>2, <3>1, <3>2
    <3>4. QED
      BY <3>1, <3>3
  <2>4. QED
    BY <2>3 DEF StreamPlaced
<1>14. ReaderPlaced'
  <2>1. spc = "recv" => consumed # Last
    BY <1>1, <1>4, <1>5, <1>6 DEF ReaderPlaced
  <2>2. QED
    BY <1>1, <1>2, <1>3, <2>1 DEF ReaderPlaced
<1>15. FrameAligned' /\ OnlyOwnVersion' /\ ReaderWants'
  BY <1>1, <1>2, <1>3 DEF FrameAligned, OnlyOwnVersion, ReaderWants
<1>16. PublishedOnly'
  BY <1>1, <1>2, <1>3 DEF PublishedOnly, ClientEnds
<1>17. QED
  BY <1>10, <1>11, <1>12, <1>13, <1>14, <1>15, <1>16 DEF IInv

\* A client that ends leaves everything else as it is.
LEMMA ClientEndsInv ==
    IInv /\ (ClientSendFails \/ ClientStop \/ ClientCrash) => IInv'
<1> SUFFICES ASSUME IInv, ClientSendFails \/ ClientStop \/ ClientCrash PROVE IInv'
  OBVIOUS
<1>1. /\ cpc \in {"recv", "send"} /\ cpc' \in ClientEnds
      /\ version' = version /\ frames' = frames /\ sent' = sent /\ forwarded' = forwarded
      /\ taken' = taken /\ stream' = stream /\ wr' = wr /\ rd' = rd
      /\ spc' = spc /\ buf' = buf /\ fill' = fill /\ want' = want
      /\ consumed' = consumed /\ published' = published
  BY DEF ClientSendFails, ClientStop, ClientCrash, ClientEnds, serverVars
<1>2. Last' = Last /\ (\A l : Size(l)' = Size(l)) /\ (\A l : Nth(l)' = Nth(l))
  BY <1>1 DEF Last, Size, Nth
<1>3. TypeOK'
  BY <1>1 DEF IInv, TypeOK
<1>4. FramesChained' /\ FramesCounted' /\ FramesCarryTaken'
  BY <1>1, <1>2 DEF IInv, FramesChained, FramesCounted, FramesCarryTaken
<1>5. SenderPlaced' /\ StreamPlaced'
  BY <1>1, <1>2 DEF IInv, SenderPlaced, StreamPlaced, ClientEnds
<1>6. ReaderPlaced' /\ FrameAligned' /\ ReaderWants' /\ OnlyOwnVersion'
  BY <1>1, <1>2 DEF IInv, ReaderPlaced, FrameAligned, ReaderWants, OnlyOwnVersion
<1>7. PublishedOnly'
  BY <1>1, <1>2 DEF IInv, PublishedOnly
<1>8. QED
  BY <1>3, <1>4, <1>5, <1>6, <1>7 DEF IInv

-----------------------------------------------------------------------------
(* What recv() puts in the packet buffer *)

\* The byte of the wire that follows the bytes read is the next one of the
\* frame being read.
LEMMA WireByte ==
    ASSUME TypeOK, FramesChained, StreamPlaced,
           NEW c \in 1..Last, NEW i \in Nat, i < Size(c),
           frames[c].start + i < wr
    PROVE  stream[frames[c].start + i] = [pkt |-> c, off |-> i]
<1>1. frames[c].start \in Nat /\ Size(c) \in Nat /\ wr \in Nat /\ Last \in Nat
  BY FrameFacts DEF TypeOK, Last
<1>2. PICK j \in 0..(wr - 1) : j = frames[c].start + i
  BY <1>1
<1>3. stream[j] \in Byte
  BY <1>2 DEF TypeOK
<1>4. PICK p \in 1..Last : p = stream[j].pkt
  BY <1>2 DEF StreamPlaced
<1>5. stream[j].off < Size(p) /\ j = frames[p].start + stream[j].off /\ stream[j].off \in Nat
  BY <1>2, <1>3, <1>4 DEF StreamPlaced, Byte
<1>6. frames[p].start \in Nat /\ Size(p) \in Nat
  BY FrameFacts
<1>7. p < c => frames[p].start + Size(p) <= frames[c].start
  BY DEF FramesChained
<1>8. c < p => frames[c].start + Size(c) <= frames[p].start
  BY DEF FramesChained
<1>9. p = c
  BY <1>1, <1>2, <1>5, <1>6, <1>7, <1>8
<1>10. stream[j].off = i
  BY <1>1, <1>2, <1>5, <1>9
<1>11. QED
  BY <1>2, <1>3, <1>4, <1>9, <1>10 DEF Byte

\* A recv() never takes bytes of the frame after the one being read, and what
\* the buffer then holds is the beginning of that frame.
LEMMA ReadAligned ==
    ASSUME IInv, NEW n \in Nat, Arrives(n)
    PROVE  /\ consumed \in Nat /\ consumed < Last /\ consumed + 1 \in 1..Last
           /\ fill \in Nat /\ n > 0 /\ fill + n <= Size(consumed + 1)
           /\ rd + n = frames[consumed + 1].start + (fill + n)
           /\ rd + n <= wr /\ rd + n \in Nat
           /\ Received(n) \in [BufferIndex -> Byte]
           /\ \A i \in 0..(fill + n - 1) : Received(n)[i] = [pkt |-> consumed + 1, off |-> i]
<1>1. /\ spc = "recv" /\ n \in 1..want /\ rd + n <= wr
      /\ consumed \in Nat /\ fill \in Nat /\ want \in Nat /\ rd \in Nat /\ wr \in Nat /\ Last \in Nat
  BY DEF Arrives, IInv, TypeOK, Last
<1>2. consumed < Last /\ rd = frames[consumed + 1].start + fill
  BY <1>1 DEF IInv, ReaderPlaced
<1>3. PICK c \in 1..Last : c = consumed + 1
  BY <1>1, <1>2
<1>4. /\ frames[c].start \in Nat /\ Size(c) \in Nat
      /\ Preamble <= Size(c) /\ Size(c) <= Header + MaxLen
      /\ frames[c].type = "Datagram" => Size(c) = Header + frames[c].len
      /\ frames[c].len \in 0..MaxLen
  BY FrameFacts DEF IInv
<1>5. fill + n <= Size(c)
  <2>1. CASE fill < Preamble /\ want = Preamble - fill
    BY <1>1, <1>4, <2>1, StreamAssumption
  <2>2. CASE ~(fill < Preamble /\ want = Preamble - fill)
    <3>1. /\ frames[c].type = "Datagram"
          /\ want = IF fill < Header THEN Header - fill ELSE Size(c) - fill
      BY <1>1, <1>3, <2>2 DEF IInv, ReaderWants
    <3>2. QED
      BY <1>1, <1>4, <3>1, StreamAssumption
  <2>3. QED
    BY <2>1, <2>2
<1>6. ASSUME NEW i \in fill..(fill + n - 1)
      PROVE  stream[rd + i - fill] = [pkt |-> c, off |-> i]
  <2>1. i \in Nat /\ i < Size(c) /\ frames[c].start + i < wr /\ rd + i - fill = frames[c].start + i
    BY <1>1, <1>2, <1>3, <1>4, <1>5
  <2>2. stream[frames[c].start + i] = [pkt |-> c, off |-> i]
    BY <2>1, WireByte DEF IInv
  <2>3. QED
    BY <2>1, <2>2
<1>7. ASSUME NEW i \in 0..(fill + n - 1)
      PROVE  i \in BufferIndex /\ Received(n)[i] = [pkt |-> c, off |-> i]
  <2>1. i \in BufferIndex
    BY <1>1, <1>4, <1>5, StreamAssumption DEF BufferIndex
  <2>2. CASE i < fill
    <3>1. i \in 0..(fill - 1) /\ i \notin fill..(fill + n - 1)
      BY <1>1, <2>2
    <3>2. buf[i] = [pkt |-> consumed + 1, off |-> i]
      BY <1>1, <3>1 DEF IInv, FrameAligned
    <3>3. QED
      BY <1>3, <2>1, <3>1, <3>2 DEF Received
  <2>3. CASE ~(i < fill)
    <3>1. i \in fill..(fill + n - 1)
      BY <1>1, <2>3
    <3>2. QED
      BY <1>6, <2>1, <3>1 DEF Received
  <2>4. QED
    BY <2>1, <2>2, <2>3
<1>8. Received(n) \in [BufferIndex -> Byte]
  <2>1. ASSUME NEW i \in BufferIndex
        PROVE  (IF i \in fill..(fill + n - 1) THEN stream[rd + i - fill] ELSE buf[i]) \in Byte
    <3>1. CASE i \in fill..(fill + n - 1)
      <4>1. [pkt |-> c, off |-> i] \in Byte
        BY <1>1, <3>1 DEF Byte
      <4>2. QED
        BY <1>6, <3>1, <4>1
    <3>2. CASE i \notin fill..(fill + n - 1)
      BY <3>2 DEF IInv, TypeOK
    <3>3. QED
      BY <3>1, <3>2
  <2>2. QED
    BY <2>1 DEF Received
<1>9. QED
  BY <1>1, <1>2, <1>3, <1>4, <1>5, <1>7, <1>8

\* Once the preamble is there its two fields are those of the frame, and once
\* the header is there so is the length.
LEMMA FieldsRead ==
    ASSUME NEW b, NEW c \in 1..Last, NEW count \in Nat,
           \A i \in 0..(count - 1) : b[i] = [pkt |-> c, off |-> i]
    PROVE  /\ count >= Preamble => TypeIn(b) = frames[c].type /\ VersionIn(b) = version
           /\ count >= Header => LenIn(b) = frames[c].len
<1>1. c # 0
  OBVIOUS
<1>2. ASSUME count >= Preamble PROVE b[TypeAt].pkt = c /\ b[VersionAt].pkt = c
  <2>1. TypeAt \in 0..(count - 1) /\ VersionAt \in 0..(count - 1)
    BY <1>2, StreamAssumption DEF TypeAt, VersionAt
  <2>2. b[TypeAt] = [pkt |-> c, off |-> TypeAt] /\ b[VersionAt] = [pkt |-> c, off |-> VersionAt]
    BY <2>1
  <2>3. QED
    BY <2>2
<1>3. ASSUME count >= Header PROVE b[LenAt].pkt = c
  <2>1. LenAt \in 0..(count - 1)
    BY <1>3, StreamAssumption DEF VersionAt
  <2>2. b[LenAt] = [pkt |-> c, off |-> LenAt]
    BY <2>1
  <2>3. QED
    BY <2>2
<1>4. QED
  BY <1>1, <1>2, <1>3 DEF TypeIn, VersionIn, LenIn

-----------------------------------------------------------------------------
(* Server steps *)

\* Reading a part of the frame keeps the invariant: what is still wanted is
\* what the part makes known to be missing.
LEMMA ServerReadsPartInv ==
    ASSUME IInv, NEW n \in Nat, ServerReadsPart(n)
    PROVE  IInv'
<1> PICK b : b = Received(n)
  OBVIOUS
<1> PICK c : c = consumed + 1
  OBVIOUS
<1> PICK count : count = fill + n
  OBVIOUS
<1>1. /\ Arrives(n) /\ ~Rejects(b, count) /\ count < Needed(b, count)
      /\ fill' = count /\ want' = Needed(b, count) - count
      /\ spc = "recv" /\ spc' = spc /\ consumed' = consumed /\ published' = published
      /\ rd' = rd + n /\ buf' = b
      /\ version' = version /\ cpc' = cpc /\ frames' = frames /\ sent' = sent
      /\ forwarded' = forwarded /\ taken' = taken /\ stream' = stream /\ wr' = wr
  BY DEF ServerReadsPart, Arrives, clientVars
<1>2. /\ consumed \in Nat /\ consumed < Last /\ c \in 1..Last
      /\ count \in Nat /\ count <= Size(c) /\ rd + n = frames[c].start + count
      /\ rd + n \in 0..wr /\ b \in [BufferIndex -> Byte]
      /\ \A i \in 0..(count - 1) : b[i] = [pkt |-> c, off |-> i]
  <2>1. wr \in Nat
    BY DEF IInv, TypeOK
  <2>2. QED
    BY <1>1, <2>1, ReadAligned
<1>3. /\ count >= Preamble => TypeIn(b) = frames[c].type /\ VersionIn(b) = version
      /\ count >= Header => LenIn(b) = frames[c].len
  BY <1>2, FieldsRead
<1>4. /\ Preamble \in Nat /\ Header \in Nat /\ Preamble < Header
      /\ frames[c].type \in {"Heartbeat", "Datagram"} /\ Size(c) \in Nat
      /\ frames[c].type = "Datagram" => PacketSize("Datagram", frames[c].len) = Size(c)
  <2>1. frames[c].type = "Datagram" => PacketSize("Datagram", frames[c].len) = Size(c)
    BY DEF Size
  <2>2. QED
    BY <1>2, <2>1, FrameFacts, StreamAssumption DEF IInv
<1>5. ASSUME count < Preamble PROVE TypeOK' /\ ReaderWants'
  <2>1. want' = Preamble - count
    BY <1>1, <1>5 DEF Needed
  <2>2. want' \in Nat
    BY <1>2, <1>4, <1>5, <2>1
  <2>3. TypeOK' /\ ReaderWants'
    BY <1>1, <1>2, <1>5, <2>1, <2>2 DEF IInv, TypeOK, ReaderWants
  <2>4. QED
    BY <2>3
<1>6. ASSUME count >= Preamble PROVE TypeOK' /\ ReaderWants'
  <2>1. version = ServerVersion
    BY <1>1, <1>3, <1>6 DEF Rejects
  <2>2. frames[c].type = "Datagram" /\ ~IsHeartbeat(b)
    BY <1>1, <1>2, <1>3, <1>4, <1>6 DEF Needed, IsHeartbeat
  <2>3. want' = IF count < Header THEN Header - count ELSE Size(c) - count
    <3>1. CASE count < Header
      BY <1>1, <1>2, <1>4, <1>6, <2>2, <3>1 DEF Needed
    <3>2. CASE ~(count < Header)
      <4>1. TypeIn(b) = "Datagram" /\ LenIn(b) = frames[c].len
        BY <1>2, <1>3, <1>4, <1>6, <2>2, <3>2
      <4>2. Needed(b, count) = Size(c)
        BY <1>2, <1>4, <1>6, <2>2, <3>2, <4>1 DEF Needed
      <4>3. QED
        BY <1>1, <3>2, <4>2
    <3>3. QED
      BY <3>1, <3>2
  <2>4. want' > 0 /\ want' \in Nat
    <3>1. CASE count < Header
      BY <1>2, <1>4, <2>3, <3>1
    <3>2. CASE ~(count < Header)
      <4>1. Needed(b, count) = Size(c)
        BY <1>2, <1>3, <1>4, <1>6, <2>2, <3>2 DEF Needed
      <4>2. QED
        BY <1>1, <1>2, <1>4, <4>1
    <3>3. QED
      BY <3>1, <3>2
  <2>5. TypeOK'
    BY <1>1, <1>2, <2>4 DEF IInv, TypeOK
  <2>6. Last' = Last /\ consumed' + 1 = c /\ Size(c)' = Size(c)
    BY <1>1 DEF Last, Size
  <2>7. Size(consumed + 1)' = Size(c)
    BY <1>1, <2>6
  <2>8. ReaderWants'
    BY <1>1, <1>2, <1>6, <2>1, <2>2, <2>3, <2>4, <2>6, <2>7 DEF ReaderWants
  <2>9. QED
    BY <2>5, <2>8
<1>7. Last' = Last /\ (\A l : Size(l)' = Size(l)) /\ (\A l : Nth(l)' = Nth(l))
  BY <1>1 DEF Last, Size, Nth
<1>8. FramesChained' /\ FramesCounted' /\ FramesCarryTaken' /\ SenderPlaced' /\ StreamPlaced'
  BY <1>1, <1>7 DEF IInv, FramesChained, FramesCounted, FramesCarryTaken, SenderPlaced, StreamPlaced
<1>9. ReaderPlaced' /\ FrameAligned'
  <2>1. consumed' + 1 = c /\ fill' - 1 = count - 1
    BY <1>1
  <2>2. rd' = frames'[consumed' + 1].start + fill'
    BY <1>1, <1>2, <2>1
  <2>3. consumed' < Last' /\ consumed' <= Last' /\ consumed' # Last'
    <3>1. Last \in Nat
      BY DEF IInv, TypeOK, Last
    <3>2. QED
      BY <1>1, <1>2, <1>7, <3>1
  <2>4. ReaderPlaced'
    BY <2>2, <2>3 DEF ReaderPlaced
  <2>5. FrameAligned'
    BY <1>1, <1>2, <2>1 DEF FrameAligned
  <2>6. QED
    BY <2>4, <2>5
<1>10. PublishedOnly' /\ OnlyOwnVersion'
  BY <1>1, <1>7 DEF IInv, PublishedOnly, OnlyOwnVersion
<1>11. TypeOK' /\ ReaderWants'
  BY <1>2, <1>4, <1>5, <1>6
<1>12. QED
  BY <1>8, <1>9, <1>10, <1>11 DEF IInv

\* When the server goes on to the next packet it has read the frame to its end
\* and no further, and what it holds is that frame.
LEMMA WholeFrame ==
    ASSUME IInv, NEW n \in Nat, Arrives(n), NEW b, b = Received(n),
           ~Rejects(b, fill + n), fill + n >= Needed(b, fill + n)
    PROVE  /\ fill + n = Size(consumed + 1)
           /\ version = ServerVersion
           /\ IsHeartbeat(b) => frames[consumed + 1].type = "Heartbeat"
           /\ ~IsHeartbeat(b) => frames[consumed + 1].type = "Datagram"
           /\ ~IsHeartbeat(b) => PayloadIn(b) = Image(consumed + 1, frames[consumed + 1].len)
<1> PICK c : c = consumed + 1
  OBVIOUS
<1> PICK count : count = fill + n
  OBVIOUS
<1>1. /\ c \in 1..Last /\ count \in Nat /\ count <= Size(c)
      /\ \A i \in 0..(count - 1) : b[i] = [pkt |-> c, off |-> i]
  BY ReadAligned
<1>2. /\ count >= Preamble => TypeIn(b) = frames[c].type /\ VersionIn(b) = version
      /\ count >= Header => LenIn(b) = frames[c].len
  BY <1>1, FieldsRead, ZenonT(60)
<1>3. /\ Preamble \in Nat /\ Header \in Nat /\ Preamble < Header
      /\ frames[c].type \in {"Heartbeat", "Datagram"} /\ Size(c) \in Nat
      /\ frames[c].len \in Nat
      /\ frames[c].type = "Heartbeat" => Size(c) = Preamble
      /\ frames[c].type = "Datagram" => Size(c) = Header + frames[c].len
  BY <1>1, FrameFacts, StreamAssumption DEF IInv
<1>4. count >= Preamble
  BY <1>1, <1>3 DEF Needed
<1>5. version = ServerVersion
  BY <1>2, <1>4 DEF Rejects
<1>6. IsHeartbeat(b) <=> frames[c].type = "Heartbeat"
  BY <1>2, <1>4 DEF IsHeartbeat
<1>7. CASE frames[c].type = "Heartbeat"
  BY <1>1, <1>3, <1>4, <1>5, <1>6, <1>7
<1>8. CASE frames[c].type = "Datagram"
  <2>1. ~IsHeartbeat(b)
    BY <1>6, <1>8
  <2>2. count >= Header
    BY <1>1, <1>3, <1>4, <2>1 DEF Needed
  <2>3. TypeIn(b) = "Datagram" /\ LenIn(b) = frames[c].len
    BY <1>2, <1>4, <1>8, <2>2
  <2>4. Needed(b, count) = Size(c)
    BY <1>1, <1>3, <1>4, <1>8, <2>1, <2>2, <2>3 DEF Needed, PacketSize
  <2>5. count = Size(c)
    BY <1>1, <1>3, <2>4
  <2>6. PayloadIn(b) = Image(c, frames[c].len)
    <3>1. ASSUME NEW i \in 0..(frames[c].len - 1)
          PROVE  b[Header + i] = [pkt |-> c, off |-> Header + i]
      <4>1. Header + i \in 0..(count - 1)
        BY <1>1, <1>3, <1>8, <2>5
      <4>2. QED
        BY <1>1, <4>1
    <3>2. [i \in 0..(frames[c].len - 1) |-> b[Header + i]]
             = [i \in 0..(frames[c].len - 1) |-> [pkt |-> c, off |-> Header + i]]
      BY <3>1
    <3>3. QED
      BY <2>3, <3>2 DEF PayloadIn, Image
  <2>7. QED
    BY <1>5, <1>8, <2>1, <2>5, <2>6
<1>9. QED
  BY <1>3, <1>7, <1>8

\* After a whole frame the server stands at the start of the next one, whether
\* the loop goes on or ends there.
LEMMA NextPlaced ==
    ASSUME IInv, NEW n \in Nat, Arrives(n), NextPacket,
           fill + n = Size(consumed + 1)
    PROVE  /\ FramesChained' /\ FramesCounted' /\ FramesCarryTaken' /\ SenderPlaced'
           /\ StreamPlaced' /\ ReaderPlaced' /\ FrameAligned' /\ ReaderWants'
           /\ consumed + 1 \in 1..Last
           /\ rd' \in 0..wr' /\ buf' \in [BufferIndex -> Byte]
           /\ fill' \in Nat /\ want' \in Nat /\ consumed' = consumed + 1 /\ consumed \in Nat
           /\ Nth(consumed)' = Nth(consumed + 1)
<1>1. /\ rd' = rd + n /\ buf' = Received(n)
      /\ version' = version /\ cpc' = cpc /\ frames' = frames /\ sent' = sent
      /\ forwarded' = forwarded /\ taken' = taken /\ stream' = stream /\ wr' = wr
      /\ fill' = 0 /\ want' = Preamble /\ consumed' = consumed + 1
  BY DEF Arrives, clientVars, NextPacket
<1>2. PICK c : c = consumed + 1
  OBVIOUS
<1>3. /\ consumed \in Nat /\ c \in 1..Last
      /\ rd + n = frames[c].start + Size(c)
      /\ rd + n \in Nat /\ rd + n <= wr /\ Received(n) \in [BufferIndex -> Byte]
  BY <1>2, ReadAligned
<1>4. Last' = Last /\ (\A l : Size(l)' = Size(l)) /\ (\A l : Nth(l)' = Nth(l))
  BY <1>1 DEF Last, Size, Nth
<1>5. FramesChained' /\ FramesCounted' /\ FramesCarryTaken' /\ SenderPlaced' /\ StreamPlaced'
  BY <1>1, <1>4 DEF IInv, FramesChained, FramesCounted, FramesCarryTaken, SenderPlaced, StreamPlaced
<1>6. wr \in Nat /\ Last \in Nat /\ sent \in Nat /\ Preamble \in Nat /\ Preamble > 0
  BY StreamAssumption DEF IInv, TypeOK, Last, VersionAt
<1>7. ReaderPlaced'
  <2>1. consumed' = c /\ c <= Last
    BY <1>1, <1>2, <1>3, <1>6
  <2>2. CASE c = Last
    <3>1. /\ wr = frames[c].start + sent /\ sent <= Size(c)
          /\ frames[c].start \in Nat /\ Size(c) \in Nat
      BY <1>3, <1>6, <2>2, FrameFacts DEF IInv, SenderPlaced
    <3>2. rd + n = wr /\ sent = Size(c)
      BY <1>3, <1>6, <3>1
    <3>3. sent' = Size(Last)'
      <4>1. Size(c)' = Size(c) /\ Last' = c
        BY <1>4, <2>2
      <4>2. QED
        BY <1>1, <3>2, <4>1
    <3>4. QED
      BY <1>1, <1>4, <2>1, <2>2, <3>2, <3>3 DEF ReaderPlaced
  <2>3. CASE c < Last
    <3>1. c \in 1..(Last - 1)
      BY <1>3, <1>6, <2>3
    <3>2. frames[c + 1].start = frames[c].start + Size(c)
      BY <3>1 DEF IInv, FramesChained
    <3>3. frames[c + 1].start \in Nat
      BY <1>6, <3>1, FrameFacts DEF IInv
    <3>4. rd' = frames'[consumed' + 1].start + fill'
      BY <1>1, <1>3, <2>1, <3>2, <3>3
    <3>5. consumed' <= Last' /\ consumed' # Last'
      BY <1>4, <1>6, <2>1, <2>3
    <3>6. QED
      BY <3>4, <3>5 DEF ReaderPlaced
  <2>4. QED
    BY <1>3, <1>6, <2>2, <2>3
<1>8. FrameAligned' /\ ReaderWants'
  BY <1>1, <1>6 DEF FrameAligned, ReaderWants
<1>9. Nth(consumed)' = Nth(c)
  BY <1>1, <1>2 DEF Nth
<1>10. QED
  BY <1>1, <1>2, <1>3, <1>5, <1>6, <1>7, <1>8, <1>9

\* Consuming a heartbeat publishes nothing and counts nothing.
LEMMA ServerReadsHeartbeatInv ==
    ASSUME IInv, NEW n \in Nat, ServerReadsHeartbeat(n)
    PROVE  IInv'
<1>1. /\ Arrives(n) /\ NextPacket /\ ~Rejects(Received(n), fill + n)
      /\ fill + n >= Needed(Received(n), fill + n) /\ IsHeartbeat(Received(n))
      /\ spc = "recv" /\ spc' = spc /\ published' = published
      /\ version' = version /\ cpc' = cpc /\ frames' = frames /\ sent' = sent
      /\ forwarded' = forwarded /\ taken' = taken /\ stream' = stream /\ wr' = wr
  BY DEF ServerReadsHeartbeat, Arrives, clientVars
<1>2. fill + n = Size(consumed + 1) /\ frames[consumed + 1].type = "Heartbeat"
  BY <1>1, WholeFrame
<1>3. /\ FramesChained' /\ FramesCounted' /\ FramesCarryTaken' /\ SenderPlaced'
      /\ StreamPlaced' /\ ReaderPlaced' /\ FrameAligned' /\ ReaderWants'
      /\ consumed + 1 \in 1..Last
      /\ rd' \in 0..wr' /\ buf' \in [BufferIndex -> Byte]
      /\ fill' \in Nat /\ want' \in Nat /\ consumed' = consumed + 1 /\ consumed \in Nat
      /\ Nth(consumed)' = Nth(consumed + 1)
  BY <1>1, <1>2, NextPlaced
<1>4. TypeOK'
  BY <1>1, <1>3 DEF IInv, TypeOK
<1>5. PublishedOnly' /\ OnlyOwnVersion'
  <2>1. Nth(consumed + 1) = Nth(consumed)
    <3>1. frames[consumed + 1].nth = Nth((consumed + 1) - 1) /\ (consumed + 1) - 1 = consumed
      BY <1>2, <1>3 DEF IInv, FramesCounted
    <3>2. QED
      BY <1>3, <3>1 DEF Nth
  <2>2. Len(published) = Nth(consumed)
    BY <1>1 DEF IInv, PublishedOnly
  <2>3. QED
    BY <1>1, <1>3, <2>1, <2>2 DEF IInv, PublishedOnly, OnlyOwnVersion
<1>6. QED
  BY <1>3, <1>4, <1>5 DEF IInv

\* What the server publishes is the next datagram the client took.
LEMMA PublishesNext ==
    ASSUME IInv, NEW n \in Nat, Arrives(n),
           ~Rejects(Received(n), fill + n), fill + n >= Needed(Received(n), fill + n),
           ~IsHeartbeat(Received(n))
    PROVE  /\ Nth(consumed + 1) = Len(published) + 1
           /\ Len(published) + 1 \in 1..Len(taken)
           /\ PayloadIn(Received(n)) = taken[Len(published) + 1]
<1>1. /\ frames[consumed + 1].type = "Datagram"
      /\ PayloadIn(Received(n)) = Image(consumed + 1, frames[consumed + 1].len)
  BY WholeFrame
<1>2. consumed + 1 \in 1..Last /\ consumed \in Nat
  BY ReadAligned
<1>3. frames[consumed + 1].nth = Nth((consumed + 1) - 1) + 1 /\ (consumed + 1) - 1 = consumed
  BY <1>1, <1>2 DEF IInv, FramesCounted
<1>4. /\ frames[consumed + 1].nth \in 1..Len(taken)
      /\ taken[frames[consumed + 1].nth] = Image(consumed + 1, frames[consumed + 1].len)
  BY <1>1, <1>2 DEF IInv, FramesCarryTaken
<1>5. Nth(consumed) = Len(published)
  BY DEF IInv, PublishedOnly, Arrives
<1>6. Nth(consumed + 1) = frames[consumed + 1].nth
  BY <1>2 DEF Nth
<1>7. QED
  BY <1>1, <1>3, <1>4, <1>5, <1>6

LEMMA ServerPublishesInv ==
    ASSUME IInv, NEW n \in Nat, ServerPublishes(n)
    PROVE  IInv'
<1>1. /\ Arrives(n) /\ NextPacket /\ ~Rejects(Received(n), fill + n)
      /\ fill + n >= Needed(Received(n), fill + n) /\ ~IsHeartbeat(Received(n))
      /\ spc = "recv" /\ spc' = spc
      /\ published' = Append(published, PayloadIn(Received(n)))
      /\ version' = version /\ cpc' = cpc /\ frames' = frames /\ sent' = sent
      /\ forwarded' = forwarded /\ taken' = taken /\ stream' = stream /\ wr' = wr
  BY DEF ServerPublishes, Arrives, clientVars
<1>2. fill + n = Size(consumed + 1) /\ version = ServerVersion
  BY <1>1, WholeFrame
<1>3. /\ FramesChained' /\ FramesCounted' /\ FramesCarryTaken' /\ SenderPlaced'
      /\ StreamPlaced' /\ ReaderPlaced' /\ FrameAligned' /\ ReaderWants'
      /\ consumed + 1 \in 1..Last
      /\ rd' \in 0..wr' /\ buf' \in [BufferIndex -> Byte]
      /\ fill' \in Nat /\ want' \in Nat /\ consumed' = consumed + 1 /\ consumed \in Nat
      /\ Nth(consumed)' = Nth(consumed + 1)
  BY <1>1, <1>2, NextPlaced
<1>4. /\ Nth(consumed + 1) = Len(published) + 1
      /\ Len(published) + 1 \in 1..Len(taken)
      /\ PayloadIn(Received(n)) = taken[Len(published) + 1]
  BY <1>1, PublishesNext
<1>5. published \in Seq(Datagrams) /\ taken \in Seq(Datagrams) /\ Len(published) \in Nat
      /\ Len(taken) \in Nat
  BY DEF IInv, TypeOK
<1>6. /\ published' \in Seq(Datagrams) /\ Len(published') = Len(published) + 1
      /\ published'[Len(published) + 1] = taken[Len(published) + 1]
      /\ \A i \in 1..Len(published) : published'[i] = published[i]
  <2>1. taken[Len(published) + 1] \in Datagrams
    BY <1>4, <1>5
  <2>2. QED
    BY <1>1, <1>4, <1>5, <2>1
<1>7. TypeOK'
  BY <1>1, <1>3, <1>6 DEF IInv, TypeOK
<1>8. PublishedOnly'
  <2>1. \A i \in 1..Len(published') : published'[i] = taken[i]
    <3>1. \A i \in 1..Len(published) : published[i] = taken[i]
      BY DEF IInv, PublishedOnly
    <3>2. ASSUME NEW i \in 1..Len(published') PROVE published'[i] = taken[i]
      <4>1. CASE i \in 1..Len(published)
        BY <1>6, <3>1, <4>1
      <4>2. CASE i \notin 1..Len(published)
        <5>1. i = Len(published) + 1
          BY <1>5, <1>6, <4>2
        <5>2. QED
          BY <1>6, <5>1
      <4>3. QED
        BY <4>1, <4>2
    <3>3. QED
      BY <3>2
  <2>2. Len(published') = Nth(consumed)' /\ Len(published') <= Len(taken)
    BY <1>3, <1>4, <1>5, <1>6
  <2>3. QED
    BY <1>1, <2>1, <2>2 DEF PublishedOnly
<1>9. OnlyOwnVersion'
  BY <1>1, <1>2 DEF OnlyOwnVersion
<1>10. QED
  BY <1>3, <1>7, <1>8, <1>9 DEF IInv

LEMMA ServerPublishFailsInv ==
    ASSUME IInv, NEW n \in Nat, ServerPublishFails(n)
    PROVE  IInv'
<1>1. /\ Arrives(n) /\ NextPacket /\ ~Rejects(Received(n), fill + n)
      /\ fill + n >= Needed(Received(n), fill + n)
      /\ spc' = "failed" /\ published' = published
      /\ version' = version /\ cpc' = cpc /\ frames' = frames /\ sent' = sent
      /\ forwarded' = forwarded /\ taken' = taken /\ stream' = stream /\ wr' = wr
  BY DEF ServerPublishFails, Arrives, clientVars
<1>2. fill + n = Size(consumed + 1)
  BY <1>1, WholeFrame
<1>3. /\ FramesChained' /\ FramesCounted' /\ FramesCarryTaken' /\ SenderPlaced'
      /\ StreamPlaced' /\ ReaderPlaced' /\ FrameAligned' /\ ReaderWants'
      /\ consumed + 1 \in 1..Last
      /\ rd' \in 0..wr' /\ buf' \in [BufferIndex -> Byte]
      /\ fill' \in Nat /\ want' \in Nat /\ consumed' = consumed + 1 /\ consumed \in Nat
  BY <1>1, <1>2, NextPlaced
<1>4. TypeOK' /\ PublishedOnly' /\ OnlyOwnVersion'
  BY <1>1, <1>3 DEF IInv, TypeOK, PublishedOnly, OnlyOwnVersion, ServerEnds
<1>5. QED
  BY <1>3, <1>4 DEF IInv

LEMMA ServerRejectsInv ==
    ASSUME IInv, NEW n \in Nat, ServerRejects(n)
    PROVE  IInv'
<1>1. /\ rd' = rd + n /\ buf' = Received(n) /\ fill' = fill + n
      /\ spc' = "rejected" /\ published' = published /\ want' = want /\ consumed' = consumed
      /\ version' = version /\ cpc' = cpc /\ frames' = frames /\ sent' = sent
      /\ forwarded' = forwarded /\ taken' = taken /\ stream' = stream /\ wr' = wr
  BY DEF ServerRejects, Arrives, clientVars
<1>2. /\ rd + n \in Nat /\ rd + n <= wr /\ Received(n) \in [BufferIndex -> Byte]
      /\ fill + n \in Nat
  BY ReadAligned DEF ServerRejects
<1>3. Last' = Last /\ (\A l : Size(l)' = Size(l)) /\ (\A l : Nth(l)' = Nth(l))
  BY <1>1 DEF Last, Size, Nth
<1>4. TypeOK'
  <2>1. wr \in Nat /\ rd' \in 0..wr'
    BY <1>1, <1>2 DEF IInv, TypeOK
  <2>2. QED
    BY <1>1, <1>2, <2>1 DEF IInv, TypeOK, ServerEnds
<1>5. FramesChained' /\ FramesCounted' /\ FramesCarryTaken' /\ SenderPlaced' /\ StreamPlaced'
  BY <1>1, <1>3 DEF IInv, FramesChained, FramesCounted, FramesCarryTaken, SenderPlaced, StreamPlaced
<1>6. ReaderPlaced' /\ FrameAligned' /\ ReaderWants' /\ PublishedOnly' /\ OnlyOwnVersion'
  BY <1>1 DEF IInv, ReaderPlaced, FrameAligned, ReaderWants, PublishedOnly, OnlyOwnVersion
<1>7. QED
  BY <1>4, <1>5, <1>6 DEF IInv

\* A server that has read everything written is at the end of the last frame,
\* or within a last frame that was never completed.
LEMMA DrainedPublished ==
    ASSUME IInv, spc = "recv", rd = wr
    PROVE  Len(published) >= forwarded
<1>1. /\ Last \in Nat /\ consumed \in Nat /\ fill \in Nat /\ wr \in Nat /\ sent \in Nat
      /\ Len(taken) \in Nat /\ Len(published) \in Nat /\ forwarded \in Nat
      /\ consumed <= Last /\ Len(published) = Nth(consumed)
  BY DEF IInv, TypeOK, Last, ReaderPlaced, PublishedOnly
<1>2. Len(taken) = Nth(Last)
  BY DEF IInv, FramesCounted
<1>3. CASE Last = 0
  BY <1>1, <1>3 DEF IInv, SenderPlaced
<1>4. CASE Last > 0
  <2> PICK k \in 1..Last : k = Last
    BY <1>1, <1>4
  <2>1. /\ wr = frames[k].start + sent /\ sent <= Size(k)
        /\ forwarded = IF sent = Size(k) THEN Len(taken) ELSE Nth(k - 1)
        /\ frames[k].start \in Nat /\ Size(k) \in Nat
    BY <1>4, FrameFacts DEF IInv, SenderPlaced
  <2>2. frames[k].nth = Nth(k - 1) \/ frames[k].nth = Nth(k - 1) + 1
    BY FrameFacts DEF IInv, FramesCounted
  <2>3. Nth(k) = frames[k].nth /\ frames[k].nth \in Nat
    BY <1>1, FrameFacts DEF IInv, Nth
  <2>4. CASE consumed = Last
    <3>1. sent = Size(k) /\ Len(published) = Len(taken)
      BY <1>1, <1>2, <1>4, <2>4 DEF IInv, ReaderPlaced
    <3>2. QED
      BY <1>1, <2>1, <3>1
  <2>5. CASE consumed < Last
    <3> PICK c \in 1..Last : c = consumed + 1
      BY <1>1, <2>5
    <3>1. rd = frames[c].start + fill /\ frames[c].start \in Nat /\ Size(c) \in Nat
      BY <2>5, FrameFacts DEF IInv, ReaderPlaced
    <3>2. fill < Size(c)
      <4>1. Preamble <= Size(c) /\ Preamble \in Nat
            /\ (frames[c].type = "Datagram" => Size(c) = Header + frames[c].len)
            /\ frames[c].len \in Nat /\ Header \in Nat
        BY FrameFacts, StreamAssumption DEF IInv
      <4>2. CASE fill < Preamble
        BY <1>1, <3>1, <4>1, <4>2
      <4>3. CASE ~(fill < Preamble)
        <5>1. /\ frames[c].type = "Datagram" /\ want > 0
              /\ want = IF fill < Header THEN Header - fill ELSE Size(c) - fill
          BY <4>3 DEF IInv, ReaderWants
        <5>2. QED
          BY <1>1, <3>1, <4>1, <5>1
      <4>4. QED
        BY <4>2, <4>3
    <3>3. c < k => frames[c].start + Size(c) <= frames[k].start
      BY DEF IInv, FramesChained
    <3>4. c = k
      <4>1. ~(frames[c].start + Size(c) <= frames[k].start)
        <5>1. frames[c].start + fill = frames[k].start + sent
          BY <2>1, <3>1
        <5>2. /\ fill \in Nat /\ sent \in Nat /\ frames[c].start \in Nat
              /\ frames[k].start \in Nat /\ Size(c) \in Nat
          BY <1>1, <2>1, <3>1
        <5>3. QED
          BY <3>2, <5>1, <5>2
      <4>2. c = k \/ c < k
        BY <1>1
      <4>3. QED
        BY <3>3, <4>1, <4>2
    <3>5. k - 1 = consumed /\ sent # Size(k)
      BY <1>1, <2>1, <3>1, <3>2, <3>4, SMTT(60)
    <3>6. forwarded = Nth(consumed)
      BY <2>1, <3>5
    <3>7. QED
      BY <1>1, <3>6
  <2>6. QED
    BY <1>1, <2>4, <2>5
<1>5. QED
  BY <1>1, <1>3, <1>4

LEMMA ServerEndsInv ==
    IInv /\ (ServerEof \/ ServerSilent \/ ServerStop) => IInv'
<1> SUFFICES ASSUME IInv, ServerEof \/ ServerSilent \/ ServerStop PROVE IInv'
  OBVIOUS
<1>1. /\ spc = "recv" /\ spc' \in {"eof", "silent", "stopped"}
      /\ spc' = "eof" => cpc \in ClientEnds /\ rd = wr
      /\ version' = version /\ cpc' = cpc /\ frames' = frames /\ sent' = sent
      /\ forwarded' = forwarded /\ taken' = taken /\ stream' = stream /\ wr' = wr /\ rd' = rd
      /\ buf' = buf /\ fill' = fill /\ want' = want /\ consumed' = consumed
      /\ published' = published
  BY DEF ServerEof, ServerSilent, ServerStop, ServerEnd, clientVars
<1>2. Last' = Last /\ (\A l : Size(l)' = Size(l)) /\ (\A l : Nth(l)' = Nth(l))
  BY <1>1 DEF Last, Size, Nth
<1>3. TypeOK'
  BY <1>1 DEF IInv, TypeOK, ServerEnds
<1>4. FramesChained' /\ FramesCounted' /\ FramesCarryTaken' /\ SenderPlaced' /\ StreamPlaced'
  BY <1>1, <1>2 DEF IInv, FramesChained, FramesCounted, FramesCarryTaken, SenderPlaced, StreamPlaced
<1>5. ReaderPlaced' /\ FrameAligned' /\ ReaderWants' /\ OnlyOwnVersion'
  BY <1>1 DEF IInv, ReaderPlaced, FrameAligned, ReaderWants, OnlyOwnVersion
<1>6. PublishedOnly'
  BY <1>1, DrainedPublished DEF IInv, PublishedOnly
<1>7. QED
  BY <1>3, <1>4, <1>5, <1>6 DEF IInv

-----------------------------------------------------------------------------
(* Theorems *)

\* Every step keeps the invariant, action by action.
LEMMA StepInv == IInv /\ [Next]_vars => IInv'
<1> SUFFICES ASSUME IInv, [Next]_vars PROVE IInv'
  OBVIOUS
<1>0. Header + MaxLen \in Nat /\ MaxLen + 1 \in Nat
  BY StreamAssumption
<1>1. ASSUME NEW len \in 0..(MaxLen + 1), ClientTakes(len) PROVE IInv'
  BY <1>0, <1>1, ClientTakesInv
<1>2. CASE ClientHeartbeat
  BY <1>2, ClientHeartbeatInv
<1>3. ASSUME NEW n \in 1..(Header + MaxLen), ClientSend(n) PROVE IInv'
  BY <1>0, <1>3, ClientSendInv
<1>4. CASE ClientSendFails \/ ClientStop \/ ClientCrash
  BY <1>4, ClientEndsInv
<1>5. ASSUME NEW n \in 1..(Header + MaxLen), ServerReadsPart(n) PROVE IInv'
  BY <1>0, <1>5, ServerReadsPartInv
<1>6. ASSUME NEW n \in 1..(Header + MaxLen), ServerReadsHeartbeat(n) PROVE IInv'
  BY <1>0, <1>6, ServerReadsHeartbeatInv
<1>7. ASSUME NEW n \in 1..(Header + MaxLen), ServerPublishes(n) PROVE IInv'
  BY <1>0, <1>7, ServerPublishesInv
<1>8. ASSUME NEW n \in 1..(Header + MaxLen), ServerPublishFails(n) PROVE IInv'
  BY <1>0, <1>8, ServerPublishFailsInv
<1>9. ASSUME NEW n \in 1..(Header + MaxLen), ServerRejects(n) PROVE IInv'
  BY <1>0, <1>9, ServerRejectsInv
<1>10. CASE ServerEof \/ ServerSilent \/ ServerStop
  BY <1>10, ServerEndsInv
<1>11. CASE UNCHANGED vars
  BY <1>11, StutterInv
<1>12. QED
  BY <1>1, <1>2, <1>3, <1>4, <1>5, <1>6, <1>7, <1>8, <1>9, <1>10, <1>11
     DEF Next, ClientStep, ServerStep, ServerReads

\* The inductive invariant holds in every behaviour of runClient and runServer.
THEOREM Invariance == Safety => []IInv
<1>1. Init => IInv
  BY InitInv
<1>2. IInv /\ [Next]_vars => IInv'
  BY StepInv
<1>3. QED
  BY <1>1, <1>2, PTL DEF Safety

\* Types, and with them: everything published is a whole datagram of the
\* client's, whatever the sizes of packets and the way TCP cuts them up.
THEOREM TypeCorrect == Safety => []TypeOK
<1>1. IInv => TypeOK
  BY DEF IInv
<1>2. QED
  BY <1>1, Invariance, PTL

\* runServer's next recv() ends within the frame it is reassembling and within
\* tunnel_pkt, and asks for at least one byte.
THEOREM ReadsStayInFrame == Safety => []NeverReadsPastFrame
<1>1. IInv => NeverReadsPastFrame
  <2> SUFFICES ASSUME IInv, spc = "recv"
               PROVE  /\ want > 0 /\ fill + want <= Header + MaxLen
                      /\ consumed < Len(frames) => fill + want <= Size(consumed + 1)
    BY DEF NeverReadsPastFrame
  <2>1. /\ fill \in Nat /\ want \in Nat /\ consumed \in Nat /\ Last \in Nat
        /\ Preamble \in Nat /\ Header \in Nat /\ MaxLen \in Nat /\ Preamble < Header
    BY StreamAssumption DEF IInv, TypeOK, Last
  <2>2. CASE fill < Preamble /\ want = Preamble - fill
    <3>1. want > 0 /\ fill + want = Preamble
      BY <2>1, <2>2
    <3>2. consumed < Last => Preamble <= Size(consumed + 1)
      BY <2>1, FrameFacts DEF IInv
    <3>3. QED
      BY <2>1, <3>1, <3>2 DEF Last
  <2>3. CASE ~(fill < Preamble /\ want = Preamble - fill)
    <3>1. /\ consumed < Last /\ want > 0
          /\ frames[consumed + 1].type = "Datagram"
          /\ want = IF fill < Header THEN Header - fill ELSE Size(consumed + 1) - fill
      BY <2>3 DEF IInv, ReaderWants
    <3>2. /\ Size(consumed + 1) \in Nat /\ Size(consumed + 1) <= Header + MaxLen
          /\ Size(consumed + 1) = Header + frames[consumed + 1].len
          /\ frames[consumed + 1].len \in Nat
      BY <2>1, <3>1, FrameFacts DEF IInv
    <3>3. fill + want <= Size(consumed + 1)
      BY <2>1, <3>1, <3>2
    <3>4. QED
      BY <2>1, <3>1, <3>2, <3>3
  <2>4. QED
    BY <2>2, <2>3
<1>2. QED
  BY <1>1, Invariance, PTL

\* The packet buffer never mixes bytes of two frames.
THEOREM BufferAligned == Safety => []FrameAligned
<1>1. IInv => FrameAligned
  BY DEF IInv
<1>2. QED
  BY <1>1, Invariance, PTL

\* What the two ends count as forwarded and published agrees, to the datagram
\* in hand, and exactly when the server sees the connection end.
THEOREM CountsAgreeAlways == Safety => []CountsAgree
<1>1. IInv => CountsAgree
  <2> SUFFICES ASSUME IInv PROVE CountsAgree
    OBVIOUS
  <2>1. /\ Last \in Nat /\ Len(taken) \in Nat /\ Len(published) \in Nat
        /\ Len(published) <= Len(taken) /\ Len(taken) = Nth(Last) /\ forwarded \in Nat
    BY DEF IInv, TypeOK, Last, PublishedOnly, FramesCounted
  <2>2. forwarded <= Len(taken) /\ Len(taken) <= forwarded + 1
    <3>1. CASE Last = 0
      BY <2>1, <3>1 DEF IInv, SenderPlaced, Nth
    <3>2. CASE Last > 0
      <4> PICK k \in 1..Last : k = Last
        BY <2>1, <3>2
      <4>1. forwarded = Len(taken) \/ forwarded = Nth(k - 1)
        BY <3>2 DEF IInv, SenderPlaced
      <4>2. frames[k].nth = Nth(k - 1) \/ frames[k].nth = Nth(k - 1) + 1
        BY FrameFacts DEF IInv, FramesCounted
      <4>3. Len(taken) = frames[k].nth
        BY <2>1, <3>2 DEF Nth
      <4>4. QED
        BY <2>1, <4>1, <4>2, <4>3
    <3>3. QED
      BY <2>1, <3>1, <3>2
  <2>3. spc = "eof" => Len(published) >= forwarded
    BY DEF IInv, PublishedOnly
  <2>4. QED
    BY <2>1, <2>2, <2>3 DEF CountsAgree
<1>2. QED
  BY <1>1, Invariance, PTL

\* A client of another protocol version gets nothing published.
THEOREM OtherVersionsRejected == Safety => []OnlyOwnVersion
<1>1. IInv => OnlyOwnVersion
  BY DEF IInv
<1>2. QED
  BY <1>1, Invariance, PTL

\* The tunnel implements the relay: each step of the two loops is a step of
\* TunnelRelay or changes nothing a relay shows.
THEOREM ImplementsRelay == Safety => RelaySafety
<1>1. Init => Relay!Init
  BY DEF Init, Relay!Init
<1>2. IInv /\ [Next]_vars => [Relay!Next]_(Relay!vars)
  <2> SUFFICES ASSUME IInv, [Next]_vars PROVE [Relay!Next]_(Relay!vars)
    OBVIOUS
  <2>0. Header + MaxLen \in Nat
    BY StreamAssumption
  <2>1. ASSUME NEW len \in 0..(MaxLen + 1), ClientTakes(len) PROVE Relay!Take
    <3>1. len \in 0..MaxLen /\ Len(frames) + 1 \in 1..MaxFrames
      BY <2>1, StreamAssumption DEF ClientTakes, Accepted, IInv, TypeOK
    <3>2. Image(Len(frames) + 1, len) \in Datagrams
      BY <3>1 DEF Datagrams
    <3>3. /\ taken' = Append(taken, Image(Len(frames) + 1, len))
          /\ published' = published /\ spc' = spc
      BY <2>1 DEF ClientTakes, Begin, serverVars
    <3>4. QED
      BY <3>2, <3>3 DEF Relay!Take
  <2>2. ASSUME NEW n \in 1..(Header + MaxLen), ServerPublishes(n) PROVE Relay!Publish
    <3>1. /\ Len(published) + 1 \in 1..Len(taken)
          /\ PayloadIn(Received(n)) = taken[Len(published) + 1]
      BY <2>0, <2>2, PublishesNext DEF ServerPublishes
    <3>2. /\ published' = Append(published, PayloadIn(Received(n)))
          /\ taken' = taken /\ spc = "recv" /\ spc' = spc
      BY <2>2 DEF ServerPublishes, Arrives, clientVars
    <3>3. Len(published) < Len(taken)
      BY <3>1 DEF IInv, TypeOK
    <3>4. QED
      BY <3>1, <3>2, <3>3 DEF Relay!Publish
  <2>3. ASSUME NEW n \in 1..(Header + MaxLen), ServerPublishFails(n) \/ ServerRejects(n)
        PROVE  Relay!Close
    BY <2>3 DEF ServerPublishFails, ServerRejects, Arrives, clientVars, Relay!Close
  <2>4. ASSUME ServerEof \/ ServerSilent \/ ServerStop PROVE Relay!Close
    BY <2>4 DEF ServerEof, ServerSilent, ServerStop, ServerEnd, clientVars, Relay!Close
  <2>5. ASSUME NEW n \in 1..(Header + MaxLen),
               ClientSend(n) \/ ServerReadsPart(n) \/ ServerReadsHeartbeat(n)
        PROVE  UNCHANGED Relay!vars
    BY <2>5 DEF ClientSend, ServerReadsPart, ServerReadsHeartbeat, Arrives, clientVars,
                serverVars, Relay!vars
  <2>6. ASSUME ClientHeartbeat \/ ClientSendFails \/ ClientStop \/ ClientCrash
        PROVE  UNCHANGED Relay!vars
    BY <2>6 DEF ClientHeartbeat, Begin, ClientSendFails, ClientStop, ClientCrash,
                serverVars, Relay!vars
  <2>7. ASSUME UNCHANGED vars PROVE UNCHANGED Relay!vars
    BY <2>7 DEF vars, clientVars, serverVars, Relay!vars
  <2>8. QED
    BY <2>1, <2>2, <2>3, <2>4, <2>5, <2>6, <2>7
       DEF Next, ClientStep, ServerStep, ServerReads, Relay!Next
<1>3. QED
  BY <1>1, <1>2, Invariance, PTL DEF Safety, RelaySafety, Relay!Safety

\* What the relay is for: nothing is published that was not taken, nothing
\* twice and nothing out of turn, however runServer's recv() cuts the stream.
THEOREM PublishedInOrder == Safety => []Relay!InOrder
<1>1. IInv => Relay!InOrder
  BY DEF IInv, PublishedOnly, Relay!InOrder
<1>2. QED
  BY <1>1, Invariance, PTL
=============================================================================
