------------------------------ MODULE Framing ------------------------------
(* The wire format: how a packet becomes a byte-stuffed frame (protocol.py),  *)
(* and how the two transports find frames again: _recv_packet reads the TCP   *)
(* stream step by step and may be cancelled by its caller's timeout at any    *)
(* await; _parse_all_packets goes over the bytes that BLE has collected.      *)
(* The device is taken to frame its packets as _build_packet does.            *)
EXTENDS Integers, SequencesExt

CONSTANTS
    Payloads,   \* what packets carry: sequences of bytes
    MaxSent,    \* bound: packets the device sends
    MaxScan     \* bytes without a sync that are given up on (200)

Byte == 0..255

\* struct.pack(">H", length) raises for a longer packet.
ASSUME ConstantsAssumption ==
    /\ \A payload \in Payloads : payload \in Seq(Byte) /\ Len(payload) + 5 < 65536
    /\ MaxScan \in Nat \ {0}

VARIABLES
    sent,       \* the payloads sent
    air, wire,  \* the bytes that are under way, that have arrived and are not read
    phase,      \* where _recv_packet is
    buf, need,  \* its buffer; the bytes of the body still to be read
    got,        \* the frames it has returned
    cut         \* has a timeout cut it short?

vars == <<sent, air, wire, phase, buf, need, got, cut>>

-----------------------------------------------------------------------------
(* Frames.  A definition that only PROJECT.json uses (StuffsNothing...) is a *)
(* faulty variant of the one that follows it.                                *)

AA == 170
Esc == 85

Word(n) == <<n \div 256, n % 256>>
ToWord(s, i) == s[i] * 256 + s[i + 1]
SumOf(s) == FoldSeq(+, 0, s)

StuffsNothing(raw, i) == FALSE
StuffsEscapes(raw, i) == i > 2 /\ i < Len(raw) /\ raw[i] = AA /\ raw[i + 1] = Esc
NeedsStuffing(raw, i) == i > 2 /\ i < Len(raw) /\ raw[i] = AA /\ raw[i + 1] \in {AA, Esc}

ByteStuff(raw) ==
    FlattenSeq([i \in DOMAIN raw |-> IF NeedsStuffing(raw, i) THEN <<AA, Esc>> ELSE <<raw[i]>>])

\* A 55 is dropped when it follows an AA: an AA is never dropped itself.
ByteUnstuff(raw) ==
    FlattenSeq([i \in DOMAIN raw |-> IF i > 3 /\ raw[i] = Esc /\ raw[i - 1] = AA THEN <<>> ELSE <<raw[i]>>])

\* Every packet here has identifier 1 and the command of a status answer.
Pid == 1
Cmd == 20

RawPacket(payload) ==
    LET inner == Word(Pid) \o Word(Cmd) \o payload IN
    <<AA, AA>> \o Word(Len(inner) + 1) \o <<SumOf(inner) % 256>> \o inner

BuildPacket(payload) == ByteStuff(RawPacket(payload))

Bad == [cmd |-> 0, pid |-> 0, payload |-> <<>>]

ParsePacket(frame) ==
    LET data == ByteUnstuff(frame)
        end == 4 + ToWord(data, 3)
    IN IF Len(data) < 9 \/ data[1] # AA \/ data[2] # AA THEN Bad
       ELSE [cmd |-> ToWord(data, 8), pid |-> ToWord(data, 6),
             payload |-> SubSeq(data, 10, IF Len(data) >= end THEN end ELSE Len(data))]

\* What _parse_all_packets makes of raw from its i-th byte on.
ForgetsHeader(len) == len
FrameLength(len) == 4 + len
ParseAllFrom(raw) ==
    LET from[i \in Nat \ {0}] ==
            IF i > Len(raw) - 4 THEN <<>>
            ELSE IF raw[i] # AA \/ raw[i + 1] # AA THEN from[i + 1]
            ELSE LET total == FrameLength(ToWord(raw, i + 2)) IN
                 (IF i - 1 + total <= Len(raw)
                  THEN <<ParsePacket(SubSeq(raw, i, i - 1 + total))>> ELSE <<>>)
                 \o from[i + total]
    IN from
ParseAllPackets(raw) == ParseAllFrom(raw)[1]

-----------------------------------------------------------------------------
(* The TCP stream.                                                           *)

Init ==
    /\ sent = <<>> /\ air = <<>> /\ wire = <<>>
    /\ phase = "sync" /\ buf = <<>> /\ need = 0
    /\ got = <<>> /\ cut = FALSE

DeviceSends ==
    /\ Len(sent) < MaxSent /\ phase # "failed"
    /\ \E payload \in Payloads :
        sent' = Append(sent, payload) /\ air' = air \o BuildPacket(payload)
    /\ UNCHANGED <<wire, phase, buf, need, got, cut>>

\* TCP keeps the order, and cuts the stream anywhere.
Arrives ==
    /\ phase # "failed"
    /\ \E n \in 1..Len(air) :
        wire' = wire \o SubSeq(air, 1, n) /\ air' = SubSeq(air, n + 1, Len(air))
    /\ UNCHANGED <<sent, phase, buf, need, got, cut>>

EndsInSync(b) == Len(b) >= 2 /\ b[Len(b)] = AA /\ b[Len(b) - 1] = AA

\* One byte of the search for AA AA; at the last, the buffer is just those.
ReadSync ==
    /\ phase = "sync" /\ wire # <<>>
    /\ LET b == Append(buf, Head(wire)) IN
        IF EndsInSync(b) THEN phase' = "length" /\ buf' = <<AA, AA>>
        ELSE phase' = (IF Len(b) > MaxScan THEN "failed" ELSE "sync") /\ buf' = b
    /\ wire' = Tail(wire) /\ need' = 0
    /\ UNCHANGED <<sent, air, got, cut>>

\* One byte of the length; a 55 after an AA is skipped.  `need` holds the first.
ReadLength ==
    /\ phase \in {"length", "length2"} /\ wire # <<>>
    /\ LET b == Head(wire) IN
        IF b = Esc /\ Last(buf) = AA THEN UNCHANGED <<phase, need>>
        ELSE IF phase = "length" THEN phase' = "length2" /\ need' = b
        ELSE phase' = "body" /\ need' = need * 256 + b
    /\ buf' = Append(buf, Head(wire)) /\ wire' = Tail(wire)
    /\ UNCHANGED <<sent, air, got, cut>>

OneShort == need = 1
BodyRead == need = 0

Chunk == IF need <= Len(wire) THEN need ELSE Len(wire)

\* A chunk of the body: what has arrived of it.
ReadBody ==
    /\ phase = "body" /\ ~BodyRead /\ wire # <<>>
    /\ buf' = buf \o SubSeq(wire, 1, Chunk) /\ need' = need - Chunk
    /\ wire' = SubSeq(wire, Chunk + 1, Len(wire))
    /\ UNCHANGED <<sent, air, phase, got, cut>>

\* The packet is returned; the next call begins with a buffer of its own.
Returns ==
    /\ phase = "body" /\ BodyRead
    /\ got' = Append(got, buf)
    /\ phase' = "sync" /\ buf' = <<>> /\ need' = 0
    /\ UNCHANGED <<sent, air, wire, cut>>

\* The caller's wait_for cancels it: what it had read is gone.
KeepsPhase == UNCHANGED <<phase, buf>>
StartsAfresh == phase' = "sync" /\ buf' = <<>>

TimesOut ==
    /\ phase # "failed" /\ wire = <<>> /\ ~cut
    /\ StartsAfresh /\ need' = 0 /\ cut' = TRUE
    /\ UNCHANGED <<sent, air, wire, got>>

\* An end of the stream where a byte is due.
StreamEnds ==
    /\ phase # "failed" /\ wire = <<>> /\ air = <<>> /\ ~(phase = "body" /\ BodyRead)
    /\ phase' = "failed"
    /\ UNCHANGED <<sent, air, wire, buf, need, got, cut>>

Next == DeviceSends \/ Arrives \/ ReadSync \/ ReadLength \/ ReadBody \/ Returns \/ TimesOut \/ StreamEnds
Spec == Init /\ [][Next]_vars

-----------------------------------------------------------------------------
(* Properties.                                                               *)

Packet(payload) == [cmd |-> Cmd, pid |-> Pid, payload |-> payload]
Parsed == [i \in DOMAIN got |-> ParsePacket(got[i])]
SentPackets == [i \in DOMAIN sent |-> Packet(sent[i])]
Frames == [i \in DOMAIN sent |-> BuildPacket(sent[i])]
AllFrames == FlattenSeq(Frames)
Ends == [i \in 0 .. Len(sent) |-> Len(FlattenSeq(SubSeq(Frames, 1, i)))]

\* No frame sent has a byte that had to be stuffed, or a length that begins with
\* a 55: _recv_packet takes that for the stuffing of the AA before it.
Plain == \A i \in DOMAIN sent :
    BuildPacket(sent[i]) = RawPacket(sent[i]) /\ RawPacket(sent[i])[3] # Esc

\* Parsing undoes building, whatever AA and 55 a packet holds.
RoundTrip == \A i \in DOMAIN sent : ParsePacket(BuildPacket(sent[i])) = Packet(sent[i])

\* How far stuffing lets a reader find frames in the stream: AA AA begins one, or is
\* one byte off: late in a packet of 43520 bytes or more, whose length begins with AA;
\* or early, when the frame before ends with an AA, which ByteStuff does not look behind.
SyncIsNearStart ==
    LET all == AllFrames
        ends == Ends
    IN \A k \in 1 .. Len(all) - 1 :
        all[k] = AA /\ all[k + 1] = AA =>
            \E i \in DOMAIN sent :
                \/ k = ends[i - 1] + 1
                \/ k = ends[i - 1] + 2 /\ Len(sent[i]) + 5 >= AA * 256
                \/ k = ends[i - 1] /\ i > 1 /\ sent[i - 1] # <<>> /\ Last(sent[i - 1]) = AA

\* However the stream is cut into chunks, plain packets arrive, whole and in
\* order, and every one of them.
AllRead == air = <<>> /\ wire = <<>> /\ phase = "sync"
PlainPacketsArrive ==
    Plain /\ ~cut => IsPrefix(Parsed, SentPackets) /\ (AllRead => Parsed = SentPackets)

\* A timeout in the middle of a packet loses packets, and makes none up: what is
\* read after it was sent, as long as no frame has an AA the search could trip over.
Clean == \A i \in DOMAIN sent : LET raw == RawPacket(sent[i]) IN
    raw[3] # Esc /\ \A k \in 3..Len(raw) : raw[k] # AA
NoPhantomPacket == Clean => \A i \in DOMAIN got : \E j \in DOMAIN sent : Parsed[i] = SentPackets[j]

\* BLE finds every plain packet in what it has collected.
BleFindsPackets == Plain => ParseAllPackets(AllFrames) = SentPackets

\* tcp.py: _recv_packet is to "Read one TTLV packet from the stream", "handling
\* 0xAA 0x55 byte-stuffing".
PacketsArrive == ~cut => IsPrefix(Parsed, SentPackets)
=============================================================================
