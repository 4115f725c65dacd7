------------------------------- MODULE Status -------------------------------
(* What a read over TCP makes of the packets that come (_do_read and          *)
(* _collect_data_packets of transport/tcp.py), and what the entities show of  *)
(* it.  The collection does not know which request a packet answers: it ends  *)
(* after 3 s of silence, so an answer may be read in parts, late, or together *)
(* with the next one.  The tasks and the connection are TcpTransport's; here  *)
(* a read runs under the lock, and only a write takes packets between reads.  *)
EXTENDS Ttlv

CONSTANTS
    Reports,     \* external: the reports the device makes, one after another,
                 \* each as a sequence of points (see below)
    MaxPackets,  \* packets one collection may take (range(10))
    MaxOwed      \* bound: requests the device has yet to answer

\* What a field can carry, as the device writes it: 13 bits for its number, 16 for a
\* length, a count, or a magnitude.
MaxId == 8191
MaxWord == 65535
Fields == [id : 0 .. MaxId, type : {"BOOL", "NUM", "BYTES", "STRUCT"}, val : Seq(Int)]
Carries(f) ==
    CASE f.type = "BOOL" -> f.val \in {<<0>>, <<1>>}
      [] f.type = "NUM" -> f.val \in (-MaxWord .. MaxWord) \X (0 .. 15)
      [] f.type = "BYTES" -> f.val \in Seq(Byte) /\ Len(f.val) <= MaxWord
      [] f.type = "STRUCT" -> Len(f.val) = 1 /\ f.val[1] \in 0 .. MaxWord

\* A data point: its field, and its members if that is a STRUCT, each of which is a
\* field or, in a STRUCT of packs, a STRUCT with its fields.
Points == [field : Fields, members : Seq(Seq(Fields))]
IsStruct(point) == point.field.type = "STRUCT"
FieldsOfPoint(point) == <<point.field>> \o FlattenSeq(point.members)

\* A STRUCT counts its members, and a pack its fields.  None of these is a STRUCT
\* itself, and no two have one number.
PlainFields(fs) ==
    /\ \A k \in DOMAIN fs : fs[k].type # "STRUCT"
    /\ \A k, l \in DOMAIN fs : fs[k].id = fs[l].id => k = l
IsAPack(member) ==
    member[1].type = "STRUCT" /\ member[1].val[1] = Len(member) - 1 /\ PlainFields(Tail(member))
MembersFit(point) ==
    IF point.field.id = Packs THEN \A n \in DOMAIN point.members : IsAPack(point.members[n])
    ELSE /\ \A n \in DOMAIN point.members : Len(point.members[n]) = 1
         /\ PlainFields(FlattenSeq(point.members))
PointFits(point) ==
    /\ Carries(point.field)
    /\ \A n \in DOMAIN point.members :
          point.members[n] # <<>> /\ \A k \in DOMAIN point.members[n] : Carries(point.members[n][k])
    /\ IF IsStruct(point) THEN point.field.val[1] = Len(point.members) /\ MembersFit(point)
       ELSE point.members = <<>>

\* No two data points of a report have one number.  (A report without any is a
\* packet without a payload, see Others.)
ReportFits(report) ==
    /\ report # <<>> /\ \A n \in DOMAIN report : PointFits(report[n])
    /\ \A m, n \in DOMAIN report : report[m].field.id = report[n].field.id => m = n

ASSUME ConstantsAssumption ==
    /\ Reports \in Seq(Seq(Points)) /\ \A r \in DOMAIN Reports : ReportFits(Reports[r])
    /\ MaxPackets \in Nat \ {0} /\ MaxOwed \in Nat \ {0}

VARIABLES
    made,    \* how many reports the device has made
    owed,    \* requests it has not answered
    stream,  \* packets not read yet, in order
    phase,   \* "idle", or the read's collection: "first", "second"
    budget,  \* packets this collection may still take
    fields,  \* all_fields
    taken,   \* history: the packets that fields come from
    data,    \* the coordinator's data
    source   \* history: the packets that data come from

device == <<made, owed>>
read == <<phase, budget, fields, taken>>
shown == <<data, source>>
vars == <<device, stream, read, shown>>

-----------------------------------------------------------------------------
(* A report.  Each of its points is a field, and the fields of its members.   *)
(* The device writes a report as the fields of its points, one after another, *)
(* and may spread them over two packets, between any two fields.              *)

FieldsOfPoints(points) == [n \in DOMAIN points |-> FieldsOfPoint(points[n])]
FieldsOf == [r \in DOMAIN Reports |-> FlattenSeq(FieldsOfPoints(Reports[r]))]

\* A packet with the fields from the i-th to the j-th of the r-th report.
Status(r, i, j) == [cmd |-> "status", r |-> r, i |-> i, j |-> j]
Payload(p) == BuildFields(SubSeq(FieldsOf[p.r], p.i, p.j))
Sent(packets) ==
    FlattenSeq([n \in DOMAIN packets |-> SubSeq(FieldsOf[packets[n].r], packets[n].i, packets[n].j)])
Answers ==
    [r \in DOMAIN Reports |->
        LET n == Len(FieldsOf[r]) IN
        {<<Status(r, 1, n)>>} \cup {<<Status(r, 1, k), Status(r, k + 1, n)>> : k \in 1 .. n - 1}]

\* Packets without fields: one that is passed over (an acknowledgement, 0x0012, or
\* a status with no payload), and one of any other kind.
Others == {[cmd |-> cmd, r |-> 0, i |-> 0, j |-> 0] : cmd \in {"void", "other"}}

Init ==
    /\ made = 0 /\ owed = 0 /\ stream = <<>>
    /\ phase = "idle" /\ budget = MaxPackets /\ fields = <<>> /\ taken = <<>>
    /\ data = EmptyKv /\ source = <<>>

-----------------------------------------------------------------------------
(* The device.                                                                *)

\* It answers a request with its next report, before which it may acknowledge it.
Answer ==
    /\ owed > 0 /\ made < Len(Reports)
    /\ owed' = owed - 1 /\ made' = made + 1
    /\ \E answer \in Answers[made'] : stream' = stream \o answer
    /\ UNCHANGED <<read, shown>>

SendOther ==
    /\ stream = <<>>
    /\ \E p \in Others : stream' = <<p>>
    /\ UNCHANGED <<device, read, shown>>

\* The connection goes, and a read that is under way fails with it.
HangUp ==
    /\ owed' = 0 /\ stream' = <<>>
    /\ phase' = "idle" /\ budget' = MaxPackets /\ fields' = <<>> /\ taken' = <<>>
    /\ UNCHANGED <<made, shown>>

\* A write between two reads takes the first packet for its acknowledgement.
WriteTakes ==
    /\ phase = "idle" /\ stream # <<>>
    /\ stream' = Tail(stream)
    /\ UNCHANGED <<device, read, shown>>

-----------------------------------------------------------------------------
(* A read.                                                                    *)

Request(p) ==
    /\ owed < MaxOwed /\ owed' = owed + 1
    /\ phase' = p /\ budget' = MaxPackets

ReadBegin ==
    /\ phase = "idle"
    /\ Request("first")
    /\ UNCHANGED <<made, stream, fields, taken, shown>>

\* The end of a collection.  Without fields the read asks once more; what
\* fields_to_kv makes of them is the coordinator's, unless it raises.
ReadEnds(fs, from) ==
    /\ phase' = "idle" /\ budget' = MaxPackets /\ fields' = <<>> /\ taken' = <<>>
    /\ LET kv == FieldsToKv(fs) IN
        IF kv.ok THEN data' = kv.kv /\ source' = from ELSE UNCHANGED shown
    /\ UNCHANGED device

CollectEnds(fs, from) ==
    IF fs = <<>> /\ phase = "first"
    THEN Request("second") /\ fields' = fs /\ taken' = from /\ UNCHANGED <<made, shown>>
    ELSE ReadEnds(fs, from)

NoLimit(fs, from) ==
    /\ budget' = budget - 1 /\ fields' = fs /\ taken' = from
    /\ UNCHANGED <<device, phase, shown>>
CollectMore(fs, from) ==
    IF budget = 1 THEN CollectEnds(fs, from)
    ELSE /\ budget' = budget - 1 /\ fields' = fs /\ taken' = from
         /\ UNCHANGED <<device, phase, shown>>

CollectPacket ==
    /\ phase # "idle" /\ stream # <<>>
    /\ stream' = Tail(stream)
    /\ LET p == Head(stream) IN
        CASE p.cmd = "void" -> CollectMore(fields, taken)
          [] p.cmd = "status" -> CollectMore(fields \o ParseFields(Payload(p)), Append(taken, p))
          [] OTHER -> CollectEnds(fields, taken)

CollectTimeout ==
    /\ phase # "idle"
    /\ CollectEnds(fields, taken)
    /\ UNCHANGED stream

Next ==
    \/ Answer \/ SendOther \/ HangUp \/ WriteTakes
    \/ ReadBegin \/ CollectPacket \/ CollectTimeout

Spec == Init /\ [][Next]_vars

-----------------------------------------------------------------------------
(* The meaning of a report, told from its points and not from its bytes.      *)

ByNumber(fs) == [id \in {f.id : f \in ToSet(fs)} |-> Leaf(CHOOSE f \in ToSet(fs) : f.id = id)]

Meaning(point) ==
    CASE ~IsStruct(point) -> Leaf(point.field)
      [] IsStruct(point) /\ point.field.id = Packs /\ point.members # <<>> ->
            Entry("list", [n \in DOMAIN point.members |-> ByNumber(Tail(point.members[n]))])
      [] OTHER -> Entry("dict", ByNumber(FlattenSeq(point.members)))

Known(point) == point.field.id \in TslTop
ReportKv ==
    [r \in DOMAIN Reports |->
        LET points == {point \in ToSet(Reports[r]) : Known(point)} IN
        [id \in {point.field.id : point \in points} |->
            Meaning(CHOOSE point \in points : point.field.id = id)]]

AllKnown == {r \in DOMAIN Reports : \A point \in ToSet(Reports[r]) : IsStruct(point) => Known(point)}
Came(packets) == {packets[n].r : n \in DOMAIN packets}

\* All that came of the r-th report came whole, and after anything else.
EndsWith(packets, r) == \E answer \in Answers[r] : IsSuffix(answer, packets)

\* Where the first packet begins: with a point, or among the members of one.
Starts ==
    [r \in DOMAIN Reports |-> {Len(FlattenSeq(FieldsOfPoints(SubSeq(Reports[r], 1, k)))) + 1 : k \in 0 .. Len(Reports[r])}]
BeginsWithPoint(packets) == packets # <<>> => Head(packets).i \in Starts[Head(packets).r]

-----------------------------------------------------------------------------
(* Properties.                                                                *)

\* A read has the very fields of the packets it took, and never more packets than
\* its collections may take.
TypeOK ==
    /\ made \in 0 .. Len(Reports) /\ owed \in 0 .. MaxOwed
    /\ phase \in {"idle", "first", "second"} /\ budget \in 1 .. MaxPackets
    /\ \A n \in DOMAIN stream : stream[n].cmd = "status" \/ stream[n] \in Others
    /\ Len(taken) <= MaxPackets /\ Len(source) <= MaxPackets
    /\ fields = Sent(taken)

\* A read that took one whole answer and nothing else gives the coordinator just
\* what the device reported: every data point with all its members, every pack,
\* and nothing from a member that has the number of another data point.
AnswerIsExact ==
    \A r \in AllKnown : source \in Answers[r] => data = ReportKv[r]

\* A late answer, or the rest of one, that is read together with the next does
\* not hide it: what the last whole answer has of an entity is what it shows.
NewestIsShown ==
    \A r \in AllKnown : EndsWith(source, r) =>
        \A e \in Entities :
            LET reported == At(ReportKv[r], Paths[e][1])
            IN reported # <<>> => Shows(e, data) = Display(e, reported[1])

\* The same, or a dict short of some members.
LessOf(entry, whole) ==
    \/ entry = whole
    \/ /\ entry.shape = "dict" /\ whole.shape = "dict"
       /\ \A id \in DOMAIN entry.of : id \in DOMAIN whole.of /\ entry.of[id] = whole.of[id]

\* What an entity finds for itself is what some answer reported for one of its data
\* points, in whatever parts the answers came; only if that is a STRUCT, which an
\* entity takes as it is, members may be missing that came in another part.  This
\* fails where members are taken for data points, as they are when their STRUCT is
\* unknown or was read before them.
ShownIsReported ==
    BeginsWithPoint(source) /\ Came(source) \subseteq AllKnown =>
        \A e \in Entities :
            LET found == GetField(data, Paths[e])
            IN found # <<>> =>
                \E r \in Came(source), path \in ToSet(Paths[e]) :
                    LET reported == At(ReportKv[r], path)
                    IN reported # <<>> /\ LessOf(found[1], reported[1])

\* A payload that ends too soon loses fields from its end and changes none, but
\* for bytes that are cut short.
CutLosesOnly ==
    stream # <<>> /\ Head(stream).cmd = "status" =>
        LET payload == Payload(Head(stream))
            whole == ParseFields(payload)
        IN \A k \in 0 .. Len(payload) :
            LET cut == ParseFields(SubSeq(payload, 1, k)) IN
            /\ Len(cut) <= Len(whole)
            /\ \A m \in DOMAIN cut :
                \/ cut[m] = whole[m]
                \/ m = Len(cut) /\ cut[m].type = "BYTES" /\ whole[m].type = "BYTES"
                   /\ cut[m].id = whole[m].id /\ IsPrefix(cut[m].val, whole[m].val)
=============================================================================
