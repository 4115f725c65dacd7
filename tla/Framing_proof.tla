--------------------------- MODULE Framing_proof ----------------------------
(* Proofs about the wire format, for every set of payloads: parsing undoes    *)
(* building, and the readers find what was framed however the stream is cut.  *)
EXTENDS Framing, Recursion

-----------------------------------------------------------------------------
(* Stuffing and unstuffing, byte by byte.                                     *)

Piece(raw, i) == IF NeedsStuffing(raw, i) THEN <<AA, Esc>> ELSE <<raw[i]>>
Pieces(raw, n) == [i \in 1 .. n |-> Piece(raw, i)]
Stuffed(raw, n) == FlattenSeq(Pieces(raw, n))

Dropped(s, i) == i > 3 /\ s[i] = Esc /\ s[i - 1] = AA
Kept(s, i) == IF Dropped(s, i) THEN <<>> ELSE <<s[i]>>

LEMMA ByteValues == AA \in Byte /\ Esc \in Byte /\ AA # Esc /\ Byte \subseteq Nat
  BY DEF Byte, AA, Esc

LEMMA PiecesType ==
    ASSUME NEW raw \in Seq(Byte), NEW n \in 0 .. Len(raw)
    PROVE  Pieces(raw, n) \in Seq(Seq(Byte)) /\ \A i \in 1 .. n : Piece(raw, i) \in Seq(Byte)
<1>1. ASSUME NEW i \in 1 .. n PROVE Piece(raw, i) \in Seq(Byte)
  <2>1. raw[i] \in Byte /\ AA \in Byte /\ Esc \in Byte
    BY ByteValues
  <2>2. <<AA, Esc>> \in Seq(Byte) /\ <<raw[i]>> \in Seq(Byte)
    BY <2>1
  <2> QED BY <2>2 DEF Piece
<1>2. n \in Nat
  OBVIOUS
<1> QED BY <1>1, <1>2 DEF Pieces

LEMMA StuffedNext ==
    ASSUME NEW raw \in Seq(Byte)
    PROVE  /\ Stuffed(raw, 0) = <<>>
           /\ \A n \in 0 .. Len(raw) - 1 : Stuffed(raw, n + 1) = Stuffed(raw, n) \o Piece(raw, n + 1)
           /\ \A n \in 0 .. Len(raw) : Stuffed(raw, n) \in Seq(Byte)
           /\ ByteStuff(raw) = Stuffed(raw, Len(raw))
<1>1. Stuffed(raw, 0) = <<>>
  <2>1. Pieces(raw, 0) = <<>>
    BY DEF Pieces
  <2> QED BY <2>1, FlattenEmpty DEF Stuffed
<1>2. ASSUME NEW n \in 0 .. Len(raw) - 1
      PROVE  Stuffed(raw, n + 1) = Stuffed(raw, n) \o Piece(raw, n + 1)
  <2>1. n \in 0 .. Len(raw) /\ n + 1 \in 0 .. Len(raw) /\ n + 1 \in 1 .. n + 1 /\ n \in Nat
    OBVIOUS
  <2>2. Pieces(raw, n) \in Seq(Seq(Byte)) /\ Piece(raw, n + 1) \in Seq(Byte)
    BY <2>1, PiecesType
  <2>3. Pieces(raw, n + 1) = Append(Pieces(raw, n), Piece(raw, n + 1))
    BY <2>1 DEF Pieces
  <2> QED BY <2>2, <2>3, FlattenAppend DEF Stuffed
<1>3. ASSUME NEW n \in 0 .. Len(raw) PROVE Stuffed(raw, n) \in Seq(Byte)
  BY PiecesType, FlattenRec DEF Stuffed
<1>4. ByteStuff(raw) = Stuffed(raw, Len(raw))
  <2>1. DOMAIN raw = 1 .. Len(raw)
    OBVIOUS
  <2> QED BY <2>1 DEF ByteStuff, Stuffed, Pieces, Piece
<1> QED BY <1>1, <1>2, <1>3, <1>4

LEMMA UnstuffNext ==
    ASSUME NEW s \in Seq(Byte), NEW b \in Byte
    PROVE  /\ ByteUnstuff(<<>>) = <<>>
           /\ ByteUnstuff(s) \in Seq(Byte)
           /\ ByteUnstuff(Append(s, b)) =
                IF Len(s) >= 3 /\ b = Esc /\ s[Len(s)] = AA THEN ByteUnstuff(s)
                ELSE Append(ByteUnstuff(s), b)
<1> DEFINE K(t) == [i \in DOMAIN t |-> Kept(t, i)]
           n == Len(s)
           t == Append(s, b)
<1>1. \A u : ByteUnstuff(u) = FlattenSeq(K(u))
  BY DEF ByteUnstuff, Kept, Dropped
<1>2. \A u \in Seq(Byte) : K(u) \in Seq(Seq(Byte))
  <2> SUFFICES ASSUME NEW u \in Seq(Byte) PROVE K(u) \in Seq(Seq(Byte))
    OBVIOUS
  <2>1. \A i \in 1 .. Len(u) : Kept(u, i) \in Seq(Byte)
    BY DEF Kept
  <2>2. DOMAIN u = 1 .. Len(u)
    OBVIOUS
  <2> QED BY <2>1, <2>2
<1>3. K(t) = Append(K(s), Kept(t, n + 1))
  <2>1. n \in Nat /\ DOMAIN s = 1 .. n /\ DOMAIN t = 1 .. n + 1 /\ \A i \in 1 .. n : t[i] = s[i]
    OBVIOUS
  <2> HIDE DEF n, t
  <2>2. \A i \in 1 .. n : Kept(t, i) = Kept(s, i)
    BY <2>1 DEF Kept, Dropped
  <2>3. K(s) = [i \in 1 .. n |-> Kept(s, i)] /\ K(t) = [i \in 1 .. n + 1 |-> Kept(t, i)]
    BY <2>1
  <2> QED BY <2>1, <2>2, <2>3
<1>4. Kept(t, n + 1) = IF Len(s) >= 3 /\ b = Esc /\ s[Len(s)] = AA THEN <<>> ELSE <<b>>
  <2>1. n \in Nat /\ t[n + 1] = b /\ (n >= 3 => t[n] = s[n]) /\ (n + 1) - 1 = n /\ (n + 1 > 3 <=> n >= 3)
    OBVIOUS
  <2> HIDE DEF t
  <2> QED BY <2>1 DEF Kept, Dropped
<1>5. K(<<>>) = <<>>
  OBVIOUS
<1>6. t \in Seq(Byte) /\ Kept(t, n + 1) \in Seq(Byte)
  <2>1. t \in Seq(Byte) /\ <<>> \in Seq(Byte) /\ <<b>> \in Seq(Byte)
    OBVIOUS
  <2> HIDE DEF t, n
  <2> QED BY <1>4, <2>1
<1> HIDE DEF K, t, n
<1>7. ByteUnstuff(<<>>) = <<>>
  BY <1>1, <1>5, FlattenEmpty
<1>8. ByteUnstuff(s) \in Seq(Byte)
  BY <1>1, <1>2, FlattenRec
<1>9. ByteUnstuff(t) = ByteUnstuff(s) \o Kept(t, n + 1)
  <2>1. K(s) \in Seq(Seq(Byte))
    BY <1>2
  <2> QED BY <2>1, <1>1, <1>3, <1>6, FlattenAppend
<1>10. ByteUnstuff(s) \o <<>> = ByteUnstuff(s) /\ ByteUnstuff(s) \o <<b>> = Append(ByteUnstuff(s), b)
  BY <1>8
<1> QED BY <1>4, <1>7, <1>8, <1>9, <1>10 DEF t

\* What stuffing has made of the first n bytes of raw.
StuffedWell(raw, n) ==
    LET s == Stuffed(raw, n) IN
    /\ Len(s) >= n
    /\ n <= 2 => s = SubSeq(raw, 1, n)
    /\ \A i \in 1 .. 3 : i <= n => s[i] = raw[i]
    /\ n > 0 => s[Len(s)] = IF NeedsStuffing(raw, n) THEN Esc ELSE raw[n]
    /\ ByteUnstuff(s) = SubSeq(raw, 1, n)
    /\ \A k \in 3 .. Len(s) - 1 : ~(s[k] = AA /\ s[k + 1] = AA)
    /\ IF \E i \in 1 .. n : NeedsStuffing(raw, i) THEN Len(s) > n ELSE s = SubSeq(raw, 1, n)

LEMMA StuffingStep ==
    ASSUME NEW raw \in Seq(Byte), NEW n \in 0 .. Len(raw) - 1, StuffedWell(raw, n)
    PROVE  StuffedWell(raw, n + 1)
<1> DEFINE s == Stuffed(raw, n)
           t == Stuffed(raw, n + 1)
           b == raw[n + 1]
           needs == NeedsStuffing(raw, n + 1)
<1>1. /\ n \in Nat /\ n + 1 \in 1 .. Len(raw) /\ b \in Byte /\ AA \in Byte /\ Esc \in Byte /\ AA # Esc
      /\ s \in Seq(Byte) /\ Len(s) \in Nat
  <2>1. /\ n \in Nat /\ n + 1 \in 1 .. Len(raw) /\ n \in 0 .. Len(raw)
    OBVIOUS
  <2>2. b \in Byte
    BY <2>1
  <2>3. s \in Seq(Byte)
    BY <2>1, StuffedNext
  <2>4. \A u \in Seq(Byte) : Len(u) \in Nat
    OBVIOUS
  <2> HIDE DEF s, b
  <2> QED BY <2>1, <2>2, <2>3, <2>4, ByteValues
<1>2. t = IF needs THEN Append(Append(s, AA), Esc) ELSE Append(s, b)
  <2>1. t = s \o Piece(raw, n + 1)
    BY StuffedNext
  <2> HIDE DEF s, t, b
  <2>2. s \o <<AA, Esc>> = Append(Append(s, AA), Esc) /\ s \o <<b>> = Append(s, b)
    BY <1>1
  <2> QED BY <2>1, <2>2 DEF Piece, b
<1>3. needs => n >= 2 /\ b = AA
  BY <1>1 DEF NeedsStuffing
<1>4. /\ Len(s) >= n
      /\ n <= 2 => s = SubSeq(raw, 1, n)
      /\ \A i \in 1 .. 3 : i <= n => s[i] = raw[i]
      /\ n > 0 => s[Len(s)] = IF NeedsStuffing(raw, n) THEN Esc ELSE raw[n]
      /\ ByteUnstuff(s) = SubSeq(raw, 1, n)
      /\ \A k \in 3 .. Len(s) - 1 : ~(s[k] = AA /\ s[k + 1] = AA)
      /\ IF \E i \in 1 .. n : NeedsStuffing(raw, i) THEN Len(s) > n ELSE s = SubSeq(raw, 1, n)
  BY DEF StuffedWell
<1>5. SubSeq(raw, 1, n + 1) = Append(SubSeq(raw, 1, n), b)
  <2>1. n + 1 \in 1 .. Len(raw) /\ 1 \in 1 .. Len(raw) /\ n + 1 \in 1 .. Len(raw)
    OBVIOUS
  <2>2. SubSeq(raw, 1, n + 1) = SubSeq(raw, 1, n) \o <<b>>
    BY <2>1, SubSeqRecursiveSecond
  <2>3. SubSeq(raw, 1, n) \in Seq(Byte)
    BY <2>1
  <2> QED BY <2>2, <2>3
\* A byte before b that is AA and came out last was not stuffed, or is one of the first two.
<1>6. n > 2 /\ s[Len(s)] = AA => b \notin {AA, Esc}
  BY <1>1, <1>4 DEF NeedsStuffing
<1>7. n <= 2 => Len(s) = n
  BY <1>1, <1>4
<1> HIDE DEF s, t, b, needs
<1>8. Len(t) >= n + 1 /\ (needs => Len(t) > n + 1)
  <2>1. Len(Append(s, b)) = Len(s) + 1 /\ Len(Append(Append(s, AA), Esc)) = Len(s) + 2
    BY <1>1
  <2>2. Len(t) = IF needs THEN Len(s) + 2 ELSE Len(s) + 1
    BY <2>1, <1>2
  <2> QED BY <2>2, <1>1, <1>4
<1>9. n + 1 <= 2 => t = SubSeq(raw, 1, n + 1)
  BY <1>1, <1>2, <1>3, <1>4, <1>5
<1>10. ASSUME NEW i \in 1 .. 3, i <= n + 1 PROVE t[i] = raw[i]
  <2>1. CASE i <= n
    BY <2>1, <1>1, <1>2, <1>4
  <2>2. CASE i = n + 1
    <3>1. Len(s) = n
      BY <2>2, <1>1, <1>7
    <3>2. t[i] = IF needs THEN AA ELSE b
      BY <3>1, <2>2, <1>1, <1>2
    <3> QED BY <3>2, <2>2, <1>3 DEF b
  <2> QED BY <2>1, <2>2, <1>10
<1>11. t[Len(t)] = IF needs THEN Esc ELSE b
  BY <1>1, <1>2
<1>12. ByteUnstuff(t) = SubSeq(raw, 1, n + 1)
  <2>1. CASE needs
    <3>1. Append(s, AA) \in Seq(Byte) /\ Len(Append(s, AA)) >= 3 /\ Append(s, AA)[Len(Append(s, AA))] = AA
      BY <2>1, <1>1, <1>3, <1>4
    <3>2. ByteUnstuff(Append(Append(s, AA), Esc)) = ByteUnstuff(Append(s, AA))
      BY <3>1, <1>1, UnstuffNext
    <3>3. ByteUnstuff(Append(s, AA)) = Append(ByteUnstuff(s), AA)
      BY <1>1, UnstuffNext
    <3> QED BY <2>1, <3>2, <3>3, <1>2, <1>3, <1>4, <1>5
  <2>2. CASE ~needs
    <3>1. ~(Len(s) >= 3 /\ b = Esc /\ s[Len(s)] = AA)
      BY <1>1, <1>6, <1>7
    <3>2. ByteUnstuff(Append(s, b)) = Append(ByteUnstuff(s), b)
      BY <3>1, <1>1, UnstuffNext
    <3> QED BY <2>2, <3>2, <1>2, <1>4, <1>5
  <2> QED BY <2>1, <2>2
<1>13. ASSUME NEW k \in 3 .. Len(t) - 1 PROVE ~(t[k] = AA /\ t[k + 1] = AA)
  <2>1. CASE k < Len(s)
    <3>1. t[k] = s[k] /\ t[k + 1] = s[k + 1] /\ k \in 3 .. Len(s) - 1
      BY <2>1, <1>1, <1>2
    <3> QED BY <3>1, <1>4
  <2>2. CASE k = Len(s)
    <3>1. t[k] = s[Len(s)] /\ t[k + 1] = IF needs THEN AA ELSE b
      BY <2>2, <1>1, <1>2
    <3>2. n > 2
      BY <2>2, <1>1, <1>7
    <3> QED BY <3>1, <3>2, <1>3, <1>6
  <2>3. CASE k > Len(s)
    <3>1. needs /\ k = Len(s) + 1
      BY <2>3, <1>1, <1>2
    <3>2. t[k + 1] = Esc
      BY <3>1, <1>1, <1>2
    <3> QED BY <3>2, <1>1
  <2>4. k \in Int /\ Len(s) \in Int
    BY <1>1
  <2> QED BY <2>1, <2>2, <2>3, <2>4
<1>14. IF \E i \in 1 .. n + 1 : NeedsStuffing(raw, i) THEN Len(t) > n + 1 ELSE t = SubSeq(raw, 1, n + 1)
  <2>1. (\E i \in 1 .. n + 1 : NeedsStuffing(raw, i)) <=> needs \/ \E i \in 1 .. n : NeedsStuffing(raw, i)
    BY <1>1 DEF needs
  <2>2. CASE needs
    BY <2>1, <2>2, <1>8
  <2>3. CASE ~needs /\ \E i \in 1 .. n : NeedsStuffing(raw, i)
    BY <2>1, <2>3, <1>1, <1>2, <1>4
  <2>4. CASE ~needs /\ ~\E i \in 1 .. n : NeedsStuffing(raw, i)
    BY <2>1, <2>4, <1>2, <1>4, <1>5
  <2> QED BY <2>2, <2>3, <2>4
<1> QED BY <1>8, <1>9, <1>10, <1>11, <1>12, <1>13, <1>14 DEF StuffedWell, t, b, needs

LEMMA StuffingDone ==
    ASSUME NEW raw \in Seq(Byte)
    PROVE  StuffedWell(raw, Len(raw))
<1> DEFINE N == Len(raw)
           T == {n \in 0 .. N : StuffedWell(raw, n)}
<1>1. N \in Nat
  OBVIOUS
<1>2. 0 \in T
  <2>1. Stuffed(raw, 0) = <<>> /\ SubSeq(raw, 1, 0) = <<>> /\ 0 \in 0 .. N
    BY StuffedNext
  <2>2. ByteUnstuff(<<>>) = <<>>
    BY UnstuffNext, ByteValues
  <2>3. ~\E i \in 1 .. 0 : NeedsStuffing(raw, i)
    OBVIOUS
  <2>5. StuffedWell(raw, 0)
    <3>1. \A i \in 1 .. 3 : i <= 0 => Stuffed(raw, 0)[i] = raw[i]
      OBVIOUS
    <3>2. Len(Stuffed(raw, 0)) = 0
      BY <2>1
    <3> DEFINE s == Stuffed(raw, 0)
    <3>4. Len(s) >= 0 /\ ~(0 > 0)
      BY <3>2
    <3>5. ByteUnstuff(s) = SubSeq(raw, 1, 0)
      BY <2>1, <2>2
    <3>6. \A k \in 3 .. Len(s) - 1 : ~(s[k] = AA /\ s[k + 1] = AA)
      <4>1. Len(s) = 0
        BY <3>2
      <4> HIDE DEF s
      <4> QED BY <4>1
    <3>7. s = SubSeq(raw, 1, 0)
      BY <2>1
    <3> HIDE DEF s, N
    <3> QED BY <2>3, <3>1, <3>4, <3>5, <3>6, <3>7 DEF StuffedWell, s
  <2> QED BY <2>1, <2>5
<1>3. \A n \in 0 .. N - 1 : n \in T => n + 1 \in T
  <2> SUFFICES ASSUME NEW n \in 0 .. N - 1, n \in T PROVE n + 1 \in T
    OBVIOUS
  <2>1. StuffedWell(raw, n + 1)
    BY StuffingStep
  <2>2. n + 1 \in 0 .. N
    BY <1>1
  <2> QED BY <2>1, <2>2
<1>4. 0 .. N \subseteq T
  <2> HIDE DEF N, T
  <2> QED BY <1>1, <1>2, <1>3, BoundedInduction
<1> QED BY <1>1, <1>4

-----------------------------------------------------------------------------
(* A packet and its frame.                                                    *)

LEMMA WordBytes ==
    ASSUME NEW n \in Nat, n < 65536
    PROVE  /\ n \div 256 \in Byte /\ n % 256 \in Byte /\ (n \div 256) * 256 + (n % 256) = n
           /\ Word(n) \in Seq(Byte) /\ Len(Word(n)) = 2
           /\ Word(n)[1] = n \div 256 /\ Word(n)[2] = n % 256
<1>1. n \div 256 \in Byte /\ n % 256 \in Byte
  <2>1. n \div 256 \in Int /\ n \div 256 >= 0 /\ n \div 256 < 256
    BY SMT
  <2>2. n % 256 \in Int /\ n % 256 >= 0 /\ n % 256 < 256
    BY SMT
  <2> QED BY <2>1, <2>2 DEF Byte
<1>2. (n \div 256) * 256 + (n % 256) = n
  BY SMT
<1> DEFINE h == n \div 256
           l == n % 256
<1>3. Word(n) = <<h, l>>
  BY DEF Word
<1>4. h \in Byte /\ l \in Byte
  BY <1>1
<1> HIDE DEF h, l
<1>5. Word(n) \in Seq(Byte) /\ Len(Word(n)) = 2 /\ Word(n)[1] = h /\ Word(n)[2] = l
  BY <1>3, <1>4
<1> QED BY <1>1, <1>2, <1>5 DEF h, l

\* The nine bytes before the payload.
LEMMA RawHead ==
    ASSUME NEW p \in Payloads
    PROVE  \E head \in Seq(Byte) :
             /\ RawPacket(p) = head \o p /\ Len(head) = 9
             /\ head[1] = AA /\ head[2] = AA
             /\ head[3] = (Len(p) + 5) \div 256 /\ head[4] = (Len(p) + 5) % 256
             /\ head[6] = 0 /\ head[7] = 1 /\ head[8] = 0 /\ head[9] = 20
<1>1. p \in Seq(Byte) /\ Len(p) + 5 < 65536
  BY ConstantsAssumption
<1>2. Len(p) \in Nat
  BY <1>1, LenProperties
<1> DEFINE n == Len(p) + 5
           sync == <<AA, AA>>
           length == Word(n)
           pid == Word(Pid)
           cmd == Word(Cmd)
           ids == pid \o cmd
           inner == ids \o p
           check == <<SumOf(inner) % 256>>
           front == (sync \o length) \o check
           head == front \o ids
<1>3. n \in Nat /\ n < 65536
  BY <1>1, <1>2, SMT
<1>4. sync \in Seq(Byte) /\ Len(sync) = 2 /\ sync[1] = AA /\ sync[2] = AA
  BY ByteValues
<1>5. /\ length \in Seq(Byte) /\ Len(length) = 2
      /\ length[1] = n \div 256 /\ length[2] = n % 256
  <2> HIDE DEF n
  <2> QED BY <1>3, WordBytes
<1>6. /\ pid \in Seq(Byte) /\ Len(pid) = 2 /\ pid[1] = 0 /\ pid[2] = 1
      /\ cmd \in Seq(Byte) /\ Len(cmd) = 2 /\ cmd[1] = 0 /\ cmd[2] = 20
  <2>1. Word(Pid) = <<0, 1>> /\ Word(Cmd) = <<0, 20>>
    BY DEF Word, Pid, Cmd
  <2>2. 0 \in Byte /\ 1 \in Byte /\ 20 \in Byte
    BY DEF Byte
  <2> QED BY <2>1, <2>2
<1> HIDE DEF sync, length, pid, cmd
<1>7. /\ ids \in Seq(Byte) /\ Len(ids) = 4
      /\ ids[1] = 0 /\ ids[2] = 1 /\ ids[3] = 0 /\ ids[4] = 20
  <2>1. /\ ids \in Seq(Byte) /\ Len(ids) = Len(pid) + Len(cmd)
        /\ \A i \in 1 .. Len(pid) : ids[i] = pid[i]
        /\ \A i \in 1 .. Len(cmd) : ids[Len(pid) + i] = cmd[i]
    BY <1>6, ConcatParts
  <2> HIDE DEF ids
  <2>2. ids[1] = pid[1] /\ ids[2] = pid[2] /\ ids[2 + 1] = cmd[1] /\ ids[2 + 2] = cmd[2]
    BY <2>1, <1>6
  <2> QED BY <2>1, <2>2, <1>6
<1>8. Len(inner) + 1 = n /\ inner \in Seq(Byte)
  <2> HIDE DEF ids
  <2>1. Len(inner) = Len(ids) + Len(p) /\ inner \in Seq(Byte)
    <3>1. ids \in Seq(Byte)
      BY <1>7
    <3> HIDE DEF front
    <3> QED BY <3>1, <1>1, ConcatParts
  <2> QED BY <2>1, <1>2, <1>7
<1>9. check \in Seq(Byte) /\ Len(check) = 1
  <2>1. inner \in Seq(Nat)
    <3> HIDE DEF inner
    <3>1. inner \in [1 .. Len(inner) -> Byte] /\ Len(inner) \in Nat
      BY <1>8, LenProperties
    <3>2. inner \in [1 .. Len(inner) -> Nat]
      BY <3>1, ByteValues
    <3> QED BY <3>1, <3>2, SeqDef
  <2>2. SumOf(inner) \in Nat
    <3> HIDE DEF inner
    <3> QED BY <2>1, SumType DEF SumOf
  <2> DEFINE c == SumOf(inner) % 256
  <2>3. c \in Byte
    <3> HIDE DEF inner
    <3> QED BY <2>2 DEF Byte
  <2> HIDE DEF c
  <2>4. <<c>> \in Seq(Byte) /\ Len(<<c>>) = 1
    BY <2>3
  <2> QED BY <2>4 DEF c
<1>10. RawPacket(p) = front \o inner
  <2>1. Word(Len(inner) + 1) = length
    BY <1>8 DEF length
  <2> QED BY <2>1 DEF RawPacket, sync, pid, cmd
<1> HIDE DEF check, ids, n
<1>11. /\ front \in Seq(Byte) /\ Len(front) = 5
       /\ front[1] = AA /\ front[2] = AA /\ front[3] = length[1] /\ front[4] = length[2]
  <2> DEFINE sl == sync \o length
  <2>0. /\ sl \in Seq(Byte) /\ Len(sl) = Len(sync) + Len(length)
        /\ \A i \in 1 .. Len(sync) : sl[i] = sync[i]
        /\ \A i \in 1 .. Len(length) : sl[Len(sync) + i] = length[i]
    <3>1. sync \in Seq(Byte) /\ length \in Seq(Byte)
      BY <1>4, <1>5
    <3> HIDE DEF front
    <3> QED BY <3>1, ConcatParts
  <2> HIDE DEF sl
  <2>1. /\ sl \in Seq(Byte) /\ Len(sl) = 4
        /\ sl[1] = sync[1] /\ sl[2] = sync[2] /\ sl[2 + 1] = length[1] /\ sl[2 + 2] = length[2]
    BY <2>0, <1>4, <1>5
  <2>2. /\ sl \o check \in Seq(Byte) /\ Len(sl \o check) = 5
        /\ (sl \o check)[1] = sl[1] /\ (sl \o check)[2] = sl[2]
        /\ (sl \o check)[3] = sl[3] /\ (sl \o check)[4] = sl[4]
    <3>1. sl \in Seq(Byte) /\ check \in Seq(Byte)
      BY <2>1, <1>9
    <3>2. /\ sl \o check \in Seq(Byte) /\ Len(sl \o check) = Len(sl) + Len(check)
          /\ \A i \in 1 .. Len(sl) : (sl \o check)[i] = sl[i]
      BY <3>1, ConcatParts
    <3>3. Len(sl) = 4 /\ Len(check) = 1 /\ 1 \in 1 .. 4 /\ 2 \in 1 .. 4 /\ 3 \in 1 .. 4 /\ 4 \in 1 .. 4
      BY <2>1, <1>9
    <3> QED BY <3>2, <3>3
  <2> QED BY <2>1, <2>2, <1>4 DEF sl
<1> HIDE DEF front
<1>12. RawPacket(p) = head \o p
  <2>1. (front \o ids) \o p = front \o (ids \o p)
    <3>1. front \in Seq(Byte) /\ ids \in Seq(Byte) /\ p \in Seq(Byte)
      BY <1>1, <1>7, <1>11
    <3> HIDE DEF head, inner
    <3> QED BY <3>1, ConcatAssociative
  <2> QED BY <2>1, <1>10
<1>13. /\ head \in Seq(Byte) /\ Len(head) = 9
       /\ head[1] = front[1] /\ head[2] = front[2] /\ head[3] = front[3] /\ head[4] = front[4]
       /\ head[6] = ids[1] /\ head[7] = ids[2] /\ head[8] = ids[3] /\ head[9] = ids[4]
  <2>1. /\ head \in Seq(Byte) /\ Len(head) = Len(front) + Len(ids)
        /\ \A i \in 1 .. Len(front) : head[i] = front[i]
        /\ \A i \in 1 .. Len(ids) : head[Len(front) + i] = ids[i]
    <3>1. front \in Seq(Byte) /\ ids \in Seq(Byte)
      BY <1>7, <1>11
    <3> QED BY <3>1, ConcatParts
  <2> HIDE DEF head
  <2>2. head[5 + 1] = ids[1] /\ head[5 + 2] = ids[2] /\ head[5 + 3] = ids[3] /\ head[5 + 4] = ids[4]
    BY <2>1, <1>7, <1>11
  <2> QED BY <2>1, <2>2, <1>7, <1>11
<1> HIDE DEF head
<1>14. /\ head[1] = AA /\ head[2] = AA /\ head[3] = n \div 256 /\ head[4] = n % 256
       /\ head[6] = 0 /\ head[7] = 1 /\ head[8] = 0 /\ head[9] = 20
  BY <1>5, <1>7, <1>11, <1>13
<1> QED BY <1>12, <1>13, <1>14 DEF n

LEMMA RawBytes ==
    ASSUME NEW p \in Payloads
    PROVE  /\ RawPacket(p) \in Seq(Byte) /\ Len(RawPacket(p)) = Len(p) + 9
           /\ RawPacket(p)[1] = AA /\ RawPacket(p)[2] = AA
           /\ RawPacket(p)[3] = (Len(p) + 5) \div 256
           /\ ToWord(RawPacket(p), 3) = Len(p) + 5
           /\ ToWord(RawPacket(p), 6) = Pid /\ ToWord(RawPacket(p), 8) = Cmd
           /\ SubSeq(RawPacket(p), 10, Len(p) + 9) = p
<1> DEFINE raw == RawPacket(p)
           n == Len(p) + 5
<1>1. p \in Seq(Byte) /\ Len(p) + 5 < 65536
  BY ConstantsAssumption
<1>2. Len(p) \in Nat /\ n \in Nat /\ n < 65536
  BY <1>1, LenProperties
<1>3. PICK head \in Seq(Byte) :
             /\ raw = head \o p /\ Len(head) = 9
             /\ head[1] = AA /\ head[2] = AA /\ head[3] = n \div 256 /\ head[4] = n % 256
             /\ head[6] = 0 /\ head[7] = 1 /\ head[8] = 0 /\ head[9] = 20
  BY RawHead
<1> HIDE DEF raw, n
<1>4. raw \in Seq(Byte) /\ Len(raw) = 9 + Len(p) /\ \A i \in 1 .. 9 : raw[i] = head[i]
  <2>1. /\ head \o p \in Seq(Byte) /\ Len(head \o p) = Len(head) + Len(p)
        /\ \A i \in 1 .. Len(head) : (head \o p)[i] = head[i]
    BY <1>1, ConcatParts
  <2> QED BY <2>1, <1>3
<1>5. /\ raw[1] = AA /\ raw[2] = AA /\ raw[3] = n \div 256 /\ raw[4] = n % 256
      /\ raw[6] = 0 /\ raw[7] = 1 /\ raw[8] = 0 /\ raw[9] = 20
  BY <1>3, <1>4, SMTT(30)
<1>6. ToWord(raw, 3) = n
  <2>1. (n \div 256) * 256 + (n % 256) = n
    BY <1>2, SMT
  <2> QED BY <2>1, <1>5 DEF ToWord
<1>7. ToWord(raw, 6) = Pid /\ ToWord(raw, 8) = Cmd
  BY <1>5 DEF ToWord, Pid, Cmd
<1>8. SubSeq(raw, 10, Len(p) + 9) = p
  <2>1. 9 \in 0 .. Len(head)
    BY <1>3
  <2>2. Drop(head \o p, 9) = Drop(head, 9) \o p
    BY <1>1, <2>1, PartOfConcat
  <2>3. Drop(head, 9) = <<>> /\ <<>> \o p = p
    BY <1>1, <1>3 DEF Drop
  <2>4. Len(raw) = Len(p) + 9 /\ 9 + 1 = 10
    BY <1>2, <1>4
  <2> QED BY <2>2, <2>3, <2>4, <1>3 DEF Drop
<1>9. Len(raw) = Len(p) + 9
  BY <1>2, <1>4
<1> QED BY <1>4, <1>5, <1>6, <1>7, <1>8, <1>9 DEF raw, n

\* What holds of every frame.
LEMMA FrameBytes ==
    ASSUME NEW p \in Payloads
    PROVE  /\ BuildPacket(p) \in Seq(Byte) /\ Len(BuildPacket(p)) >= Len(p) + 9 /\ Len(p) \in Nat
           /\ \A i \in 1 .. 3 : BuildPacket(p)[i] = RawPacket(p)[i]
           /\ ByteUnstuff(BuildPacket(p)) = RawPacket(p)
           /\ \A k \in 3 .. Len(BuildPacket(p)) - 1 :
                 ~(BuildPacket(p)[k] = AA /\ BuildPacket(p)[k + 1] = AA)
           /\ IF \E i \in 1 .. Len(RawPacket(p)) : NeedsStuffing(RawPacket(p), i)
              THEN BuildPacket(p) # RawPacket(p) ELSE BuildPacket(p) = RawPacket(p)
<1> DEFINE raw == RawPacket(p)
           n == Len(raw)
           f == BuildPacket(p)
<1>1. raw \in Seq(Byte) /\ n = Len(p) + 9 /\ Len(p) \in Nat
  <2>1. Len(p) \in Nat
    BY ConstantsAssumption
  <2> QED BY <2>1, RawBytes
<1> HIDE DEF raw
<1>2. n \in Nat /\ n >= 9 /\ SubSeq(raw, 1, n) = raw
  BY <1>1
<1>3. f = Stuffed(raw, n) /\ f \in Seq(Byte)
  <2>1. f = Stuffed(raw, n)
    BY <1>1, StuffedNext DEF BuildPacket, raw
  <2>2. n \in 0 .. Len(raw)
    BY <1>2
  <2>3. Stuffed(raw, n) \in Seq(Byte)
    BY <2>2, <1>1, StuffedNext
  <2> QED BY <2>1, <2>3
<1>4. StuffedWell(raw, n)
  BY <1>1, StuffingDone
<1> HIDE DEF f, n
<1>5. /\ Len(f) >= n
      /\ \A i \in 1 .. 3 : i <= n => f[i] = raw[i]
      /\ ByteUnstuff(f) = raw
      /\ \A k \in 3 .. Len(f) - 1 : ~(f[k] = AA /\ f[k + 1] = AA)
      /\ IF \E i \in 1 .. n : NeedsStuffing(raw, i) THEN Len(f) > n ELSE f = raw
  BY <1>2, <1>3, <1>4 DEF StuffedWell
<1>6. \A i \in 1 .. 3 : f[i] = raw[i]
  BY <1>2, <1>5
<1>7. Len(f) > n => f # raw
  BY <1>1, <1>2 DEF n
<1> QED BY <1>1, <1>3, <1>5, <1>6, <1>7 DEF f, raw, n

\* Parsing a frame gives the packet it was built of.
LEMMA ParseBuilt ==
    ASSUME NEW p \in Payloads
    PROVE  ParsePacket(BuildPacket(p)) = Packet(p)
<1> DEFINE raw == RawPacket(p)
<1>1. ByteUnstuff(BuildPacket(p)) = raw /\ Len(p) \in Nat
  BY FrameBytes
<1>2. /\ raw \in Seq(Byte) /\ Len(raw) = Len(p) + 9 /\ raw[1] = AA /\ raw[2] = AA
      /\ ToWord(raw, 3) = Len(p) + 5 /\ ToWord(raw, 6) = Pid /\ ToWord(raw, 8) = Cmd
      /\ SubSeq(raw, 10, Len(p) + 9) = p
  BY RawBytes
<1> HIDE DEF raw
<1>3. 4 + ToWord(raw, 3) = Len(p) + 9 /\ ~(Len(raw) < 9)
  BY <1>1, <1>2
<1> QED BY <1>1, <1>2, <1>3 DEF ParsePacket, Packet

\* A frame in which nothing was stuffed is the packet, with its length in front.
LEMMA PlainFrame ==
    ASSUME NEW p \in Payloads, BuildPacket(p) = RawPacket(p), RawPacket(p)[3] # Esc
    PROVE  LET f == BuildPacket(p) IN
           /\ f \in Seq(Byte) /\ Len(f) \in Nat /\ Len(f) >= 9
           /\ f[1] = AA /\ f[2] = AA /\ f[3] # Esc /\ ~(f[3] = AA /\ f[4] = Esc)
           /\ f[3] * 256 + f[4] = Len(f) - 4
<1> DEFINE f == BuildPacket(p)
<1>1. Len(p) \in Nat /\ f = RawPacket(p)
  BY FrameBytes
<1>2. /\ f \in Seq(Byte) /\ Len(f) = Len(p) + 9 /\ f[1] = AA /\ f[2] = AA
      /\ ToWord(f, 3) = Len(p) + 5
  BY <1>1, RawBytes
<1>3. \A i \in 1 .. Len(f) : ~NeedsStuffing(f, i)
  BY <1>1, FrameBytes
<1> HIDE DEF f
<1>4. Len(f) \in Nat /\ Len(f) >= 9
  BY <1>1, <1>2
<1>5. ~(f[3] = AA /\ f[4] = Esc)
  <2>1. 3 \in 1 .. Len(f) /\ 3 < Len(f) /\ 3 > 2 /\ 3 + 1 = 4
    BY <1>4
  <2> QED BY <2>1, <1>3 DEF NeedsStuffing
<1>6. f[3] * 256 + f[4] = Len(f) - 4
  <2>1. f[3] * 256 + f[3 + 1] = Len(p) + 5
    BY <1>2 DEF ToWord
  <2>2. 3 + 1 = 4 /\ Len(p) + 5 = Len(f) - 4
    BY <1>1, <1>2
  <2> QED BY <2>1, <2>2
<1>7. f[3] # Esc
  BY <1>1 DEF f
<1> QED BY <1>2, <1>4, <1>5, <1>6, <1>7 DEF f

\* A packet without an AA after its first two is such a one.
LEMMA CleanFrame ==
    ASSUME NEW p \in Payloads, \A k \in 3 .. Len(RawPacket(p)) : RawPacket(p)[k] # AA
    PROVE  /\ BuildPacket(p) = RawPacket(p)
           /\ \A k \in 3 .. Len(BuildPacket(p)) : BuildPacket(p)[k] # AA
<1> DEFINE raw == RawPacket(p)
<1>1. \A i \in 1 .. Len(raw) : ~NeedsStuffing(raw, i)
  <2> SUFFICES ASSUME NEW i \in 1 .. Len(raw), NeedsStuffing(raw, i) PROVE FALSE
    OBVIOUS
  <2>1. i > 2 /\ raw[i] = AA
    BY DEF NeedsStuffing
  <2>2. i \in 3 .. Len(raw)
    BY <2>1
  <2> QED BY <2>1, <2>2
<1>2. BuildPacket(p) = raw
  BY <1>1, FrameBytes
<1> QED BY <1>2

LEMMA CleanIsPlain ==
    ASSUME sent \in Seq(Payloads), Clean
    PROVE  Plain
<1> SUFFICES ASSUME NEW i \in DOMAIN sent
             PROVE  BuildPacket(sent[i]) = RawPacket(sent[i]) /\ RawPacket(sent[i])[3] # Esc
  BY DEF Plain
<1>1. sent[i] \in Payloads
  OBVIOUS
<1>2. RawPacket(sent[i])[3] # Esc /\ \A k \in 3 .. Len(RawPacket(sent[i])) : RawPacket(sent[i])[k] # AA
  BY DEF Clean
<1> DEFINE p == sent[i]
<1> HIDE DEF p
<1>3. BuildPacket(p) = RawPacket(p)
  BY <1>1, <1>2, CleanFrame DEF p
<1> QED BY <1>2, <1>3 DEF p

-----------------------------------------------------------------------------
(* What is left of the stream.                                                *)

\* The m-th frame sent, none for 0, and all the later ones in a row.
FrameOf(s, m) == IF m = 0 THEN <<>> ELSE BuildPacket(s[m])
LaterFrames(s, m) == [i \in 1 .. Len(s) - m |-> BuildPacket(s[m + i])]
LaterOf(s, m) == FlattenSeq(LaterFrames(s, m))
Remaining(s, m, k) == Drop(FrameOf(s, m), k) \o LaterOf(s, m)

LEMMA FrameOfType ==
    ASSUME NEW s \in Seq(Payloads), NEW m \in 0 .. Len(s)
    PROVE  /\ FrameOf(s, m) \in Seq(Byte) /\ Len(FrameOf(s, m)) \in Nat
           /\ m > 0 => Len(FrameOf(s, m)) >= 9 /\ FrameOf(s, m)[1] = AA
<1>1. CASE m = 0
  <2>1. FrameOf(s, m) = <<>> /\ ~(m > 0) /\ <<>> \in Seq(Byte) /\ Len(<<>>) = 0
    BY <1>1 DEF FrameOf
  <2> QED BY <2>1
<1>2. CASE m # 0
  <2>1. s[m] \in Payloads
    BY <1>2
  <2> DEFINE p == s[m]
  <2> HIDE DEF p
  <2>2. /\ BuildPacket(p) \in Seq(Byte) /\ Len(BuildPacket(p)) >= Len(p) + 9 /\ Len(p) \in Nat
        /\ BuildPacket(p)[1] = RawPacket(p)[1] /\ RawPacket(p)[1] = AA
    <3>1. p \in Payloads
      BY <2>1 DEF p
    <3>2. /\ BuildPacket(p) \in Seq(Byte) /\ Len(BuildPacket(p)) >= Len(p) + 9 /\ Len(p) \in Nat
          /\ \A i \in 1 .. 3 : BuildPacket(p)[i] = RawPacket(p)[i]
      BY <3>1, FrameBytes
    <3>3. RawPacket(p)[1] = AA
      BY <3>1, RawBytes
    <3> QED BY <3>2, <3>3
  <2>3. FrameOf(s, m) = BuildPacket(p)
    BY <1>2 DEF FrameOf, p
  <2>4. Len(BuildPacket(p)) \in Nat
    BY <2>2, LenProperties
  <2>5. Len(BuildPacket(p)) >= 9
    BY <2>2, <2>4
  <2> QED BY <2>2, <2>3, <2>4, <2>5
<1> QED BY <1>1, <1>2

LEMMA LaterFacts ==
    ASSUME NEW s \in Seq(Payloads), NEW m \in 0 .. Len(s)
    PROVE  /\ LaterFrames(s, m) \in Seq(Seq(Byte)) /\ LaterOf(s, m) \in Seq(Byte)
           /\ m = Len(s) => LaterOf(s, m) = <<>>
           /\ m < Len(s) => LaterOf(s, m) = FrameOf(s, m + 1) \o LaterOf(s, m + 1)
           /\ \A p \in Payloads : LaterOf(Append(s, p), m) = LaterOf(s, m) \o BuildPacket(p)
<1> DEFINE n == Len(s)
<1>1. n \in Nat /\ m \in Nat /\ m <= n /\ n - m \in Nat
  OBVIOUS
<1>2. \A i \in 1 .. n : BuildPacket(s[i]) \in Seq(Byte)
  <2> TAKE i \in 1 .. n
  <2>1. s[i] \in Payloads
    OBVIOUS
  <2> QED BY <2>1, FrameBytes
<1>3. LaterFrames(s, m) \in Seq(Seq(Byte))
  <2>1. \A i \in 1 .. n - m : BuildPacket(s[m + i]) \in Seq(Byte)
    BY <1>1, <1>2
  <2> QED BY <2>1, <1>1 DEF LaterFrames
<1>4. LaterOf(s, m) \in Seq(Byte)
  BY <1>3, FlattenRec DEF LaterOf
<1>5. ASSUME m = n PROVE LaterOf(s, m) = <<>>
  <2>1. LaterFrames(s, m) = <<>>
    BY <1>1, <1>5 DEF LaterFrames
  <2> QED BY <2>1, FlattenEmpty DEF LaterOf
<1>6. ASSUME m < n PROVE LaterOf(s, m) = FrameOf(s, m + 1) \o LaterOf(s, m + 1)
  <2> DEFINE f == BuildPacket(s[m + 1])
             r == LaterFrames(s, m + 1)
  <2>1. m + 1 \in 1 .. n /\ n - (m + 1) \in Nat /\ m + 1 # 0
    BY <1>1, <1>6
  <2>2. r \in Seq(Seq(Byte)) /\ Len(r) = n - (m + 1) /\ \A i \in 1 .. n - (m + 1) : r[i] = BuildPacket(s[m + 1 + i])
    <3>1. \A i \in 1 .. n - (m + 1) : BuildPacket(s[m + 1 + i]) \in Seq(Byte)
      BY <1>1, <1>2
    <3> QED BY <2>1, <3>1 DEF LaterFrames
  <2>3. f \in Seq(Byte)
    BY <1>2, <2>1
  <2> HIDE DEF f, r
  <2>4. <<f>> \in Seq(Seq(Byte)) /\ Len(<<f>>) = 1 /\ <<f>>[1] = f
    BY <2>3
  <2> DEFINE o == <<f>>
  <2>5. o \in Seq(Seq(Byte)) /\ Len(o) = 1 /\ o[1] = f
    BY <2>4
  <2> HIDE DEF o
  <2>6. /\ o \o r \in Seq(Seq(Byte)) /\ Len(o \o r) = Len(o) + Len(r)
        /\ \A i \in 1 .. Len(o) + Len(r) : (o \o r)[i] = IF i <= Len(o) THEN o[i] ELSE r[i - Len(o)]
    BY <2>2, <2>5, ConcatProperties, ZenonT(30)
  <2>7. LaterFrames(s, m) = o \o r
    <3> DEFINE l == LaterFrames(s, m)
    <3>1. l \in Seq(Seq(Byte)) /\ Len(l) = n - m /\ \A i \in 1 .. n - m : l[i] = BuildPacket(s[m + i])
      BY <1>1, <1>3 DEF LaterFrames
    <3> HIDE DEF l
    <3>2. Len(o \o r) = n - m
      BY <2>2, <2>5, <2>6, <1>1
    <3>3. ASSUME NEW i \in 1 .. n - m PROVE l[i] = (o \o r)[i]
      <4>1. CASE i = 1
        <5>1. (o \o r)[1] = o[1] /\ l[1] = BuildPacket(s[m + 1])
          BY <4>1, <3>1, <2>5, <2>6, <2>2, <1>1
        <5> QED BY <4>1, <5>1, <2>5 DEF f
      <4>2. CASE i # 1
        <5>1. i - 1 \in 1 .. n - (m + 1) /\ i \in 1 .. Len(o) + Len(r) /\ ~(i <= Len(o)) /\ Len(o) = 1 /\ m + 1 + (i - 1) = m + i
          BY <4>2, <2>2, <2>5, <1>1
        <5>2. (o \o r)[i] = r[i - 1]
          BY <5>1, <2>6
        <5>3. r[i - 1] = BuildPacket(s[m + 1 + (i - 1)])
          BY <5>1, <2>2
        <5> QED BY <5>1, <5>2, <5>3, <3>1
      <4> QED BY <4>1, <4>2
    <3>4. l = o \o r
      BY <3>1, <3>2, <3>3, <2>6, SeqEqual
    <3> QED BY <3>4 DEF l
  <2>8. FlattenSeq(o \o r) = f \o FlattenSeq(r)
    BY <2>2, <2>3, FlattenCons DEF o
  <2> QED BY <2>1, <2>7, <2>8 DEF LaterOf, FrameOf, f, r
<1>7. ASSUME NEW p \in Payloads PROVE LaterOf(Append(s, p), m) = LaterOf(s, m) \o BuildPacket(p)
  <2> DEFINE t == Append(s, p)
             l == LaterFrames(s, m)
             f == BuildPacket(p)
  <2>1. Len(t) = n + 1 /\ t[n + 1] = p /\ \A i \in 1 .. n : t[i] = s[i]
    OBVIOUS
  <2> HIDE DEF t
  <2>2. f \in Seq(Byte)
    BY FrameBytes
  <2>3. LaterFrames(t, m) = Append(l, f)
    <3>1. LaterFrames(t, m) = [i \in 1 .. (n - m) + 1 |-> BuildPacket(t[m + i])]
      BY <2>1, <1>1 DEF LaterFrames
    <3>2. \A i \in 1 .. n - m : BuildPacket(t[m + i]) = BuildPacket(s[m + i])
      BY <2>1, <1>1, SMTT(30)
    <3>3. BuildPacket(t[m + ((n - m) + 1)]) = f
      <4>1. m + ((n - m) + 1) = n + 1
        BY <1>1
      <4> QED BY <4>1, <2>1
    <3>4. l = [i \in 1 .. n - m |-> BuildPacket(s[m + i])]
      BY DEF LaterFrames
    <3> HIDE DEF f, l
    <3>5. Append(l, f) = [i \in 1 .. (n - m) + 1 |-> IF i = (n - m) + 1 THEN f ELSE l[i]]
      BY <3>4, <1>1
    <3>6. ASSUME NEW i \in 1 .. (n - m) + 1
          PROVE  BuildPacket(t[m + i]) = IF i = (n - m) + 1 THEN f ELSE l[i]
      <4>1. CASE i = (n - m) + 1
        BY <4>1, <3>3
      <4>2. CASE i # (n - m) + 1
        <5>1. i \in 1 .. n - m
          BY <4>2, <1>1
        <5> QED BY <5>1, <4>2, <3>2, <3>4
      <4> QED BY <4>1, <4>2
    <3> QED BY <3>1, <3>5, <3>6
  <2> HIDE DEF l, f
  <2>4. FlattenSeq(Append(l, f)) = FlattenSeq(l) \o f
    BY <1>3, <2>2, FlattenAppend DEF l
  <2> QED BY <2>3, <2>4 DEF LaterOf, t, l, f
<1> QED BY <1>3, <1>4, <1>5, <1>6, <1>7

\* After a frame comes the next one.
LEMMA NextFrame ==
    ASSUME NEW s \in Seq(Payloads), NEW m \in 0 .. Len(s)
    PROVE  Remaining(s, m, Len(FrameOf(s, m))) =
               IF m < Len(s) THEN Remaining(s, m + 1, 0) ELSE <<>>
<1> DEFINE f == FrameOf(s, m)
           l == LaterOf(s, m)
<1>1. f \in Seq(Byte) /\ Len(f) \in Nat
  BY FrameOfType
<1>2. l \in Seq(Byte)
  BY LaterFacts
<1>3. Remaining(s, m, Len(f)) = Drop(f, Len(f)) \o l
  BY DEF Remaining
<1>4. (m < Len(s) => l = FrameOf(s, m + 1) \o LaterOf(s, m + 1)) /\ (m = Len(s) => l = <<>>)
  BY LaterFacts
<1>5. CASE m < Len(s)
  <2>1. m + 1 \in 0 .. Len(s)
    BY <1>5
  <2> DEFINE j == m + 1
             g == FrameOf(s, j)
  <2>2. j \in 0 .. Len(s)
    BY <2>1
  <2> HIDE DEF j
  <2>3. g \in Seq(Byte)
    BY <2>2, FrameOfType
  <2> HIDE DEF g
  <2>4. Drop(g, 0) = g
    BY <2>3 DEF Drop
  <2>5. Remaining(s, j, 0) = Drop(g, 0) \o LaterOf(s, j)
    BY DEF Remaining, g
  <2>6. l = g \o LaterOf(s, j)
    BY <1>4, <1>5 DEF g, j
  <2> HIDE DEF l, f
  <2>7. Drop(f, Len(f)) \o l = l
    BY <1>1, <1>2 DEF Drop
  <2>8. Remaining(s, m, Len(f)) = Remaining(s, j, 0)
    BY <1>3, <2>4, <2>5, <2>6, <2>7
  <2> QED BY <1>5, <2>8 DEF j, f
<1>6. CASE ~(m < Len(s))
  <2>1. m = Len(s)
    BY <1>6
  <2> HIDE DEF f
  <2>2. Drop(f, Len(f)) \o <<>> = <<>>
    BY <1>1 DEF Drop
  <2> QED BY <2>1, <2>2, <1>3, <1>4, <1>6 DEF f
<1> QED BY <1>5, <1>6

\* Bytes that are read from within a frame.
CanTake(s, m, k, w, a, c) ==
    /\ m \in 0 .. Len(s) /\ k \in 0 .. Len(FrameOf(s, m)) /\ w \o a = Remaining(s, m, k)
    /\ c \in 0 .. Len(w) /\ k + c <= Len(FrameOf(s, m))
Takes(s, m, k, w, a, c) ==
    /\ SubSeq(w, 1, c) = SubSeq(FrameOf(s, m), k + 1, k + c)
    /\ Drop(w, c) \in Seq(Byte) /\ Drop(w, c) \o a = Remaining(s, m, k + c)

LEMMA NextBytes ==
    ASSUME NEW s \in Seq(Payloads), NEW m, NEW k, NEW w \in Seq(Byte), NEW a \in Seq(Byte),
           NEW c, CanTake(s, m, k, w, a, c)
    PROVE  Takes(s, m, k, w, a, c)
<1>0. /\ m \in 0 .. Len(s) /\ k \in 0 .. Len(FrameOf(s, m)) /\ w \o a = Remaining(s, m, k)
      /\ c \in 0 .. Len(w) /\ k + c <= Len(FrameOf(s, m))
  BY DEF CanTake
<1> DEFINE f == FrameOf(s, m)
           l == LaterOf(s, m)
           u == Drop(f, k)
<1>1. f \in Seq(Byte) /\ Len(f) \in Nat /\ l \in Seq(Byte)
  BY <1>0, FrameOfType, LaterFacts
<1>2. w \o a = u \o l
  BY <1>0 DEF Remaining
<1>3. k \in 0 .. Len(f) /\ k + c <= Len(f)
  BY <1>0
<1>4. c \in 0 .. Len(w) /\ c \in Nat
  BY <1>0, LenProperties
<1>5. Remaining(s, m, k + c) = Drop(f, k + c) \o l
  BY DEF Remaining
<1> HIDE DEF f, l
<1>6. u \in Seq(Byte) /\ Len(u) = Len(f) - k
  BY <1>1, <1>3, DropType
<1>7. c \in 0 .. Len(f) - k
  BY <1>1, <1>3, <1>4
<1>8. Drop(u, c) = Drop(f, k + c) /\ SubSeq(u, 1, c) = SubSeq(f, k + 1, k + c)
  BY <1>1, <1>3, <1>7, DropDrop
<1>9. c \in 0 .. Len(u)
  BY <1>6, <1>7
<1> HIDE DEF u
<1>10. SubSeq(w \o a, 1, c) = SubSeq(w, 1, c) /\ Drop(w \o a, c) = Drop(w, c) \o a
  BY <1>4, PartOfConcat
<1>11. SubSeq(u \o l, 1, c) = SubSeq(u, 1, c) /\ Drop(u \o l, c) = Drop(u, c) \o l
  <2>1. u \in Seq(Byte) /\ l \in Seq(Byte)
    BY <1>1, <1>6
  <2> QED BY <2>1, <1>9, PartOfConcat
<1>12. Drop(w, c) \in Seq(Byte)
  BY <1>4, DropType
<1> QED BY <1>2, <1>5, <1>8, <1>10, <1>11, <1>12 DEF f, Takes

LEMMA OneByte ==
    ASSUME NEW f \in Seq(Byte), NEW i \in 1 .. Len(f)
    PROVE  SubSeq(f, i, i) = <<f[i]>>
<1> DEFINE l == SubSeq(f, i, i)
           r == <<f[i]>>
<1>1. f[i] \in Byte /\ i \in Int
  OBVIOUS
<1>2. r \in Seq(Byte) /\ Len(r) = 1 /\ r[1] = f[i]
  BY <1>1
<1>3. \A j \in i .. i : f[j] \in Byte
  BY <1>1
<1>4. l \in Seq(Byte) /\ Len(l) = 1 /\ l[1] = f[i]
  <2>1. /\ l \in Seq(Byte)
        /\ Len(l) = IF i <= i THEN i - i + 1 ELSE 0
        /\ \A j \in 1 .. i - i + 1 : l[j] = f[i + j - 1]
    BY <1>1, <1>3, SubSeqProperties
  <2>2. i <= i /\ i - i + 1 = 1 /\ 1 \in 1 .. i - i + 1 /\ i + 1 - 1 = i
    BY <1>1
  <2> HIDE DEF l
  <2> QED BY <2>1, <2>2
<1> HIDE DEF l, r
<1>5. l = r
  BY <1>2, <1>4, SeqEqual
<1> QED BY <1>5 DEF l, r

LEMMA HeadAndTail ==
    ASSUME NEW w \in Seq(Byte), w # <<>>
    PROVE  /\ Head(w) \in Byte /\ Tail(w) \in Seq(Byte) /\ Len(w) \in Nat /\ Len(w) >= 1
           /\ Head(w) = w[1] /\ SubSeq(w, 1, 1) = <<Head(w)>> /\ Drop(w, 1) = Tail(w)
<1>1. Len(w) \in Nat /\ Len(w) >= 1 /\ Head(w) \in Byte /\ Tail(w) \in Seq(Byte) /\ Head(w) = w[1]
  OBVIOUS
<1>2. SubSeq(w, 1, 1) = <<Head(w)>>
  <2>1. 1 \in 1 .. Len(w)
    BY <1>1
  <2> QED BY <2>1, <1>1, OneByte
<1>3. Drop(w, 1) = Tail(w)
  BY <1>1 DEF Drop
<1> QED BY <1>1, <1>2, <1>3

\* One byte that is read, of this frame or of the next one.
ReadsOne(s, m, k, w, a) ==
    IF k < Len(FrameOf(s, m))
    THEN Head(w) = FrameOf(s, m)[k + 1] /\ Tail(w) \o a = Remaining(s, m, k + 1)
    ELSE m < Len(s) /\ Head(w) = AA /\ Tail(w) \o a = Remaining(s, m + 1, 1)

LEMMA NextByte ==
    ASSUME NEW s \in Seq(Payloads), NEW m \in 0 .. Len(s), NEW k \in 0 .. Len(FrameOf(s, m)),
           NEW w \in Seq(Byte), NEW a \in Seq(Byte), w \o a = Remaining(s, m, k), w # <<>>
    PROVE  ReadsOne(s, m, k, w, a)
<1>1. /\ Len(w) \in Nat /\ Len(w) >= 1 /\ Head(w) = w[1] /\ SubSeq(w, 1, 1) = <<Head(w)>>
      /\ Drop(w, 1) = Tail(w)
  BY HeadAndTail
<1>2. 1 \in 0 .. Len(w)
  BY <1>1
<1>3. FrameOf(s, m) \in Seq(Byte) /\ Len(FrameOf(s, m)) \in Nat
  BY FrameOfType
<1>4. CASE k < Len(FrameOf(s, m))
  <2> DEFINE c == 1
  <2>1. CanTake(s, m, k, w, a, c)
    BY <1>2, <1>3, <1>4 DEF CanTake
  <2> HIDE DEF c
  <2>0. Takes(s, m, k, w, a, c)
    BY <2>1, NextBytes
  <2>2. SubSeq(w, 1, 1) = SubSeq(FrameOf(s, m), k + 1, k + 1) /\ Drop(w, 1) \o a = Remaining(s, m, k + 1)
    BY <2>0 DEF c, Takes
  <2> DEFINE f == FrameOf(s, m)
  <2>3. k + 1 \in 1 .. Len(f) /\ f \in Seq(Byte)
    BY <1>3, <1>4
  <2> HIDE DEF f
  <2>4. SubSeq(f, k + 1, k + 1) = <<f[k + 1]>>
    <3> DEFINE i == k + 1
    <3>1. i \in 1 .. Len(f)
      BY <2>3
    <3> HIDE DEF i
    <3>2. SubSeq(f, i, i) = <<f[i]>>
      BY <3>1, <2>3, OneByte
    <3> QED BY <3>2 DEF i
  <2>5. Head(w) = f[k + 1]
    BY <2>2, <2>4, <1>1 DEF f
  <2> QED BY <2>2, <2>5, <1>1, <1>4 DEF f, ReadsOne
<1>5. CASE ~(k < Len(FrameOf(s, m)))
  <2>1. k = Len(FrameOf(s, m))
    BY <1>3, <1>5
  <2>2. w \o a = IF m < Len(s) THEN Remaining(s, m + 1, 0) ELSE <<>>
    BY <2>1, NextFrame
  <2>3. w \o a # <<>>
    <3>1. Len(w \o a) = Len(w) + Len(a) /\ Len(a) \in Nat
      OBVIOUS
    <3>2. Len(w \o a) # 0
      BY <3>1, <1>1
    <3> QED BY <3>2
  <2>4. m < Len(s) /\ w \o a = Remaining(s, m + 1, 0)
    BY <2>2, <2>3
  <2> DEFINE j == m + 1
  <2>5. j \in 0 .. Len(s) /\ j > 0 /\ w \o a = Remaining(s, j, 0)
    BY <2>4
  <2> HIDE DEF j
  <2>6. FrameOf(s, j) \in Seq(Byte) /\ Len(FrameOf(s, j)) \in Nat /\ Len(FrameOf(s, j)) >= 9 /\ FrameOf(s, j)[1] = AA
    BY <2>5, FrameOfType
  <2> DEFINE c == 1
             z == 0
  <2>7. CanTake(s, j, z, w, a, c)
    <3>1. c \in 0 .. Len(w) /\ z \in 0 .. Len(FrameOf(s, j)) /\ z + c <= Len(FrameOf(s, j))
      BY <2>6, <1>2
    <3> QED BY <2>5, <3>1 DEF CanTake
  <2> HIDE DEF c, z
  <2>13. Takes(s, j, z, w, a, c)
    BY <2>7, NextBytes
  <2>8. SubSeq(w, 1, 1) = SubSeq(FrameOf(s, j), 1, 1) /\ Drop(w, 1) \o a = Remaining(s, j, 1)
    <3>1. z + 1 = 1 /\ z + c = 1 /\ c = 1
      BY DEF z, c
    <3> QED BY <2>13, <3>1 DEF Takes
  <2> DEFINE f == FrameOf(s, j)
  <2>9. f \in Seq(Byte) /\ Len(f) >= 9 /\ Len(f) \in Nat /\ f[1] = AA
    BY <2>6
  <2> HIDE DEF f
  <2>10. SubSeq(f, 1, 1) = <<AA>>
    <3>1. 1 \in 1 .. Len(f)
      BY <2>9
    <3>2. SubSeq(f, 1, 1) = <<f[1]>>
      BY <3>1, <2>9, OneByte
    <3> QED BY <3>2, <2>9
  <2>11. Head(w) = AA
    <3>1. SubSeq(w, 1, 1) = <<AA>>
      BY <2>8, <2>10 DEF f
    <3>2. <<Head(w)>> = <<AA>>
      BY <3>1, <1>1
    <3> QED BY <3>2
  <2> QED BY <2>4, <2>8, <2>11, <1>1, <1>5 DEF j, ReadsOne
<1> QED BY <1>4, <1>5

-----------------------------------------------------------------------------
(* Types.                                                                     *)

TypeInv ==
    /\ sent \in Seq(Payloads)
    /\ air \in Seq(Byte) /\ wire \in Seq(Byte) /\ buf \in Seq(Byte) /\ need \in Nat
    /\ phase \in {"sync", "length", "length2", "body", "failed"}
    /\ phase \in {"length", "length2"} => buf # <<>>
    /\ got \in Seq(Seq(Byte)) /\ cut \in BOOLEAN

LEMMA ChunkType ==
    ASSUME need \in Nat, wire \in Seq(Byte)
    PROVE  Chunk \in 0 .. Len(wire) /\ Chunk <= need /\ need - Chunk \in Nat
<1>1. Len(wire) \in Nat
  BY LenProperties
<1> QED BY <1>1 DEF Chunk

LEMMA TypeStep == TypeInv /\ [Next]_vars => TypeInv'
<1> SUFFICES ASSUME TypeInv, [Next]_vars PROVE TypeInv'
  OBVIOUS
<1>0. /\ sent \in Seq(Payloads) /\ air \in Seq(Byte) /\ wire \in Seq(Byte) /\ buf \in Seq(Byte)
      /\ need \in Nat /\ got \in Seq(Seq(Byte)) /\ cut \in BOOLEAN
      /\ phase \in {"sync", "length", "length2", "body", "failed"}
      /\ phase \in {"length", "length2"} => buf # <<>>
  BY DEF TypeInv
<1>1. CASE DeviceSends
  <2>1. PICK p \in Payloads : sent' = Append(sent, p) /\ air' = air \o BuildPacket(p)
    BY <1>1 DEF DeviceSends
  <2>2. BuildPacket(p) \in Seq(Byte)
    BY FrameBytes
  <2>3. sent' \in Seq(Payloads)
    BY <2>1, <1>0
  <2>4. air' \in Seq(Byte)
    BY <2>1, <2>2, <1>0, ConcatParts
  <2> QED BY <2>3, <2>4, <1>0, <1>1 DEF DeviceSends, TypeInv
<1>2. CASE Arrives
  <2>1. PICK n \in 1 .. Len(air) : wire' = wire \o SubSeq(air, 1, n) /\ air' = SubSeq(air, n + 1, Len(air))
    BY <1>2 DEF Arrives
  <2>2. n \in 0 .. Len(air) /\ Len(air) \in Nat
    BY <1>0, LenProperties
  <2>3. air' \in Seq(Byte)
    BY <2>1, <2>2, <1>0, DropType DEF Drop
  <2>4. SubSeq(air, 1, n) \in Seq(Byte)
    BY <2>2, <1>0
  <2>5. wire' \in Seq(Byte)
    BY <2>1, <2>4, <1>0, ConcatParts
  <2> QED BY <2>3, <2>5, <1>0, <1>2 DEF Arrives, TypeInv
<1>3. CASE ReadSync
  <2>1. Head(wire) \in Byte /\ Tail(wire) \in Seq(Byte)
    BY <1>0, <1>3, HeadAndTail DEF ReadSync
  <2>2. Append(buf, Head(wire)) \in Seq(Byte) /\ <<AA, AA>> \in Seq(Byte) /\ <<AA, AA>> # <<>>
    BY <2>1, <1>0, ByteValues
  <2>3. /\ buf' \in Seq(Byte) /\ phase' \in {"sync", "length", "failed"}
        /\ phase' = "length" => buf' # <<>>
    <3>1. CASE EndsInSync(Append(buf, Head(wire)))
      BY <3>1, <2>2, <1>3 DEF ReadSync
    <3>2. CASE ~EndsInSync(Append(buf, Head(wire)))
      BY <3>2, <2>2, <1>3 DEF ReadSync
    <3> QED BY <3>1, <3>2
  <2>4. wire' \in Seq(Byte) /\ need' \in Nat /\ UNCHANGED <<sent, air, got, cut>>
    BY <2>1, <1>3 DEF ReadSync
  <2> QED BY <2>3, <2>4, <1>0 DEF TypeInv
<1>4. CASE ReadLength
  <2>1. Head(wire) \in Byte /\ Head(wire) \in Nat /\ Tail(wire) \in Seq(Byte)
    BY <1>0, <1>4, HeadAndTail, ByteValues DEF ReadLength
  <2>2. buf' = Append(buf, Head(wire)) /\ wire' = Tail(wire) /\ UNCHANGED <<sent, air, got, cut>>
    BY <1>4 DEF ReadLength
  <2>3. buf' \in Seq(Byte) /\ buf' # <<>>
    BY <2>1, <2>2, <1>0, SMTT(30)
  <2>4. need * 256 + Head(wire) \in Nat
    BY <2>1, <1>0
  <2>5. need' \in Nat /\ phase' \in {"length", "length2", "body"}
    BY <2>1, <2>4, <1>0, <1>4 DEF ReadLength
  <2> QED BY <2>1, <2>2, <2>3, <2>5, <1>0 DEF TypeInv
<1>5. CASE ReadBody
  <2>1. Chunk \in 0 .. Len(wire) /\ need - Chunk \in Nat
    BY <1>0, ChunkType
  <2>2. SubSeq(wire, 1, Chunk) \in Seq(Byte)
    BY <2>1, <1>0
  <2>3. SubSeq(wire, Chunk + 1, Len(wire)) \in Seq(Byte)
    BY <2>1, <1>0, DropType DEF Drop
  <2>4. buf' \in Seq(Byte)
    BY <2>2, <1>0, <1>5, ConcatParts DEF ReadBody
  <2> QED BY <2>1, <2>3, <2>4, <1>0, <1>5 DEF ReadBody, TypeInv
<1>6. CASE Returns
  <2>1. got' \in Seq(Seq(Byte))
    BY <1>0, <1>6 DEF Returns
  <2> QED BY <2>1, <1>0, <1>6 DEF Returns, TypeInv
<1>7. CASE TimesOut
  BY <1>0, <1>7 DEF TimesOut, StartsAfresh, TypeInv
<1>8. CASE StreamEnds
  BY <1>0, <1>8 DEF StreamEnds, TypeInv
<1>9. CASE UNCHANGED vars
  BY <1>0, <1>9 DEF vars, TypeInv
<1> QED BY <1>1, <1>2, <1>3, <1>4, <1>5, <1>6, <1>7, <1>8, <1>9 DEF Next

LEMMA TypesHold == Spec => []TypeInv
<1>1. Init => TypeInv
  <2>1. <<>> \in Seq(Payloads) /\ <<>> \in Seq(Byte) /\ <<>> \in Seq(Seq(Byte)) /\ 0 \in Nat
    OBVIOUS
  <2> QED BY <2>1 DEF Init, TypeInv
<1> QED BY <1>1, TypeStep, PTL DEF Spec

-----------------------------------------------------------------------------
(* Where the reader is.  In the m-th frame, of which k bytes have been read   *)
(* (all of none, for m = 0): what is left of the stream is the rest of it and *)
(* the later frames.  In the search for AA AA the buffer ends with the byte   *)
(* read last; later it is the beginning of the frame.                         *)

InSync(f, m, k) ==
    /\ buf # <<>> => m > 0 /\ buf[Len(buf)] = f[k]
    /\ ~cut => (buf = <<>> /\ k = Len(f)) \/ (buf = <<AA>> /\ k = 1 /\ m > 0)
InFrame(f, m, k) ==
    /\ m > 0 /\ buf = SubSeq(f, 1, k)
    /\ phase = "length" => k = 2
    /\ phase = "length2" => k = 3 /\ need = f[3]
    /\ phase = "body" => k >= 4 /\ need = Len(f) - k
Place(m, k) ==
    /\ m \in 0 .. Len(sent) /\ k \in 0 .. Len(FrameOf(sent, m)) /\ (m > 0 => k > 0)
    /\ wire \o air = Remaining(sent, m, k)
    /\ IF phase = "sync" THEN InSync(FrameOf(sent, m), m, k) ELSE InFrame(FrameOf(sent, m), m, k)
    /\ ~cut => Len(got) = IF phase = "sync" /\ buf = <<>> THEN m ELSE m - 1
Placed == \E m \in Nat, k \in Nat : Place(m, k)

GotInv ==
    /\ \A i \in DOMAIN got : \E j \in DOMAIN sent : got[i] = BuildPacket(sent[j])
    /\ ~cut => Len(got) <= Len(sent) /\ \A i \in DOMAIN got : got[i] = BuildPacket(sent[i])

\* Of frames that something was stuffed into nothing is claimed, and after a timeout
\* only of those that are clean.
Readable == Plain /\ (cut => Clean)
StreamInv == Readable => GotInv /\ (phase # "failed" => Placed)

LEMMA FrameIsPlain ==
    ASSUME sent \in Seq(Payloads), Readable, NEW m \in 1 .. Len(sent)
    PROVE  LET f == FrameOf(sent, m) IN
           /\ f \in Seq(Byte) /\ Len(f) \in Nat /\ Len(f) >= 9
           /\ f[1] = AA /\ f[2] = AA /\ f[3] # Esc /\ ~(f[3] = AA /\ f[4] = Esc)
           /\ f[3] * 256 + f[4] = Len(f) - 4
           /\ cut => \A k \in 3 .. Len(f) : f[k] # AA
<1> DEFINE p == sent[m]
<1>1. p \in Payloads /\ m \in DOMAIN sent /\ m # 0
  OBVIOUS
<1>2. BuildPacket(p) = RawPacket(p) /\ RawPacket(p)[3] # Esc
  BY <1>1 DEF Readable, Plain
<1>3. cut => \A k \in 3 .. Len(RawPacket(p)) : RawPacket(p)[k] # AA
  BY <1>1 DEF Readable, Clean
<1>4. FrameOf(sent, m) = BuildPacket(p)
  BY <1>1 DEF FrameOf
<1> HIDE DEF p
<1>5. LET f == BuildPacket(p) IN
           /\ f \in Seq(Byte) /\ Len(f) \in Nat /\ Len(f) >= 9
           /\ f[1] = AA /\ f[2] = AA /\ f[3] # Esc /\ ~(f[3] = AA /\ f[4] = Esc)
           /\ f[3] * 256 + f[4] = Len(f) - 4
  BY <1>1, <1>2, PlainFrame
<1>6. cut => \A k \in 3 .. Len(BuildPacket(p)) : BuildPacket(p)[k] # AA
  BY <1>1, <1>3, CleanFrame
<1> QED BY <1>4, <1>5, <1>6

\* A beginning of a sequence that grows.
LEMMA PrefixGrows ==
    ASSUME NEW f \in Seq(Byte), NEW k \in 0 .. Len(f), NEW c \in 0 .. Len(f) - k
    PROVE  SubSeq(f, 1, k) \o SubSeq(f, k + 1, k + c) = SubSeq(f, 1, k + c)
<1> DEFINE u == SubSeq(f, 1, k)
           v == SubSeq(f, k + 1, k + c)
           w == SubSeq(f, 1, k + c)
<1>1. Len(f) \in Nat /\ k \in Nat /\ c \in Nat /\ k + c <= Len(f)
  OBVIOUS
<1>2. u \in Seq(Byte) /\ Len(u) = k /\ \A i \in 1 .. k : u[i] = f[i]
  <2>1. \A i \in 1 .. k : f[i] \in Byte
    BY <1>1
  <2> QED BY <2>1, <1>1, SubSeqProperties
<1>3. v \in Seq(Byte) /\ Len(v) = c /\ \A i \in 1 .. c : v[i] = f[k + i]
  <2>1. \A i \in k + 1 .. k + c : f[i] \in Byte
    BY <1>1
  <2>2. k + 1 \in Int /\ k + c \in Int
    BY <1>1
  <2>3. /\ v \in Seq(Byte) /\ Len(v) = IF k + 1 <= k + c THEN k + c - (k + 1) + 1 ELSE 0
        /\ \A i \in 1 .. k + c - (k + 1) + 1 : v[i] = f[k + 1 + i - 1]
    <3> DEFINE a == k + 1
               b == k + c
    <3>1. a \in Int /\ b \in Int /\ \A i \in a .. b : f[i] \in Byte
      BY <2>1, <2>2
    <3> HIDE DEF a, b
    <3>2. /\ SubSeq(f, a, b) \in Seq(Byte) /\ Len(SubSeq(f, a, b)) = IF a <= b THEN b - a + 1 ELSE 0
          /\ \A i \in 1 .. b - a + 1 : SubSeq(f, a, b)[i] = f[a + i - 1]
      BY <3>1, SubSeqProperties
    <3> QED BY <3>2 DEF a, b
  <2> HIDE DEF v
  <2>4. k + c - (k + 1) + 1 = c /\ (k + 1 <= k + c <=> c # 0)
    BY <1>1
  <2>5. \A i \in 1 .. c : k + 1 + i - 1 = k + i
    BY <1>1
  <2> QED BY <2>3, <2>4, <2>5, <1>1
<1>4. w \in Seq(Byte) /\ Len(w) = k + c /\ \A i \in 1 .. k + c : w[i] = f[i]
  <2> DEFINE b == k + c
  <2>1. b \in Nat /\ \A i \in 1 .. b : f[i] \in Byte
    BY <1>1
  <2> HIDE DEF b
  <2>2. SubSeq(f, 1, b) \in Seq(Byte) /\ Len(SubSeq(f, 1, b)) = b /\ \A i \in 1 .. b : SubSeq(f, 1, b)[i] = f[i]
    BY <2>1, SubSeqProperties
  <2> QED BY <2>2 DEF b
<1> HIDE DEF u, v, w
<1>5. /\ u \o v \in Seq(Byte) /\ Len(u \o v) = Len(u) + Len(v)
      /\ \A i \in 1 .. Len(u) + Len(v) : (u \o v)[i] = IF i <= Len(u) THEN u[i] ELSE v[i - Len(u)]
  BY <1>2, <1>3, ConcatProperties
<1>6. ASSUME NEW i \in 1 .. k + c PROVE (u \o v)[i] = w[i]
  <2>1. CASE i <= k
    BY <2>1, <1>1, <1>2, <1>3, <1>4, <1>5
  <2>2. CASE ~(i <= k)
    <3>1. i - k \in 1 .. c /\ k + (i - k) = i /\ i \in 1 .. Len(u) + Len(v)
      BY <2>2, <1>1, <1>2, <1>3
    <3> QED BY <3>1, <2>2, <1>2, <1>3, <1>4, <1>5
  <2> QED BY <2>1, <2>2
<1>7. Len(u \o v) = k + c
  BY <1>2, <1>3, <1>5
<1>8. u \o v = w
  BY <1>4, <1>5, <1>6, <1>7, SeqEqual
<1> QED BY <1>8 DEF u, v, w

LEMMA PrefixNext ==
    ASSUME NEW f \in Seq(Byte), NEW k \in 0 .. Len(f) - 1
    PROVE  /\ Append(SubSeq(f, 1, k), f[k + 1]) = SubSeq(f, 1, k + 1)
           /\ Len(SubSeq(f, 1, k)) = k /\ (k > 0 => SubSeq(f, 1, k)[k] = f[k])
<1>1. k + 1 \in 1 .. Len(f) /\ k \in 0 .. Len(f) /\ k \in Nat
  OBVIOUS
<1>2. SubSeq(f, 1, k + 1) = SubSeq(f, 1, k) \o <<f[k + 1]>>
  <2> DEFINE j == k + 1
  <2>1. j \in 1 .. Len(f) /\ 1 \in 1 .. j /\ j - 1 = k
    BY <1>1
  <2>2. SubSeq(f, k + 1, k + 1) = <<f[k + 1]>>
    <3> HIDE DEF j
    <3>1. SubSeq(f, j, j) = <<f[j]>>
      BY <2>1, OneByte
    <3> QED BY <3>1 DEF j
  <2> DEFINE c == 1
  <2>3. c \in 0 .. Len(f) - k
    BY <1>1
  <2> HIDE DEF c
  <2>4. SubSeq(f, 1, k) \o SubSeq(f, k + 1, k + c) = SubSeq(f, 1, k + c)
    BY <1>1, <2>3, PrefixGrows
  <2> QED BY <2>2, <2>4 DEF c
<1>3. /\ SubSeq(f, 1, k) \in Seq(Byte) /\ Len(SubSeq(f, 1, k)) = k
      /\ \A i \in 1 .. k : SubSeq(f, 1, k)[i] = f[i]
  <2>1. \A i \in 1 .. k : f[i] \in Byte
    BY <1>1
  <2> QED BY <2>1, <1>1, SubSeqProperties
<1>4. k > 0 => k \in 1 .. k
  BY <1>1
<1>5. SubSeq(f, 1, k) \o <<f[k + 1]>> = Append(SubSeq(f, 1, k), f[k + 1])
  <2> DEFINE u == SubSeq(f, 1, k)
             b == f[k + 1]
  <2>1. u \in Seq(Byte) /\ b \in Byte
    BY <1>1, <1>3
  <2> HIDE DEF u, b
  <2>2. u \o <<b>> = Append(u, b)
    BY <2>1
  <2> QED BY <2>2 DEF u, b
<1> QED BY <1>2, <1>3, <1>4, <1>5

\* What holds of a frame that the reader is in.
LEMMA PlaceFacts ==
    ASSUME TypeInv, Readable, NEW m, NEW k, Place(m, k)
    PROVE  /\ m \in 0 .. Len(sent) /\ Len(sent) \in Nat /\ m \in Nat /\ k \in Nat
           /\ FrameOf(sent, m) \in Seq(Byte) /\ Len(FrameOf(sent, m)) \in Nat
           /\ k \in 0 .. Len(FrameOf(sent, m))
           /\ m = 0 => Len(FrameOf(sent, m)) = 0
           /\ m > 0 => m \in 1 .. Len(sent) /\ Len(FrameOf(sent, m)) >= 9
<1>1. sent \in Seq(Payloads) /\ m \in 0 .. Len(sent) /\ k \in 0 .. Len(FrameOf(sent, m))
  BY DEF TypeInv, Place
<1>2. Len(sent) \in Nat
  BY <1>1, LenProperties
<1>3. m \in Nat /\ (m > 0 => m \in 1 .. Len(sent))
  BY <1>1, <1>2
<1>4. /\ FrameOf(sent, m) \in Seq(Byte) /\ Len(FrameOf(sent, m)) \in Nat
      /\ m > 0 => Len(FrameOf(sent, m)) >= 9
  BY <1>1, FrameOfType
<1>5. k \in Nat
  BY <1>1, <1>4
<1>6. m = 0 => Len(FrameOf(sent, m)) = 0
  BY DEF FrameOf
<1> QED BY <1>1, <1>2, <1>3, <1>4, <1>5, <1>6

\* A byte that is read.
LEMMA PlaceByte ==
    ASSUME TypeInv, Readable, NEW m, NEW k, Place(m, k), wire # <<>>
    PROVE  /\ Head(wire) \in Byte /\ Tail(wire) \in Seq(Byte)
           /\ IF k < Len(FrameOf(sent, m))
              THEN /\ m > 0 /\ k > 0 /\ Head(wire) = FrameOf(sent, m)[k + 1]
                   /\ Tail(wire) \o air = Remaining(sent, m, k + 1)
              ELSE /\ k = Len(FrameOf(sent, m)) /\ m < Len(sent) /\ Head(wire) = AA
                   /\ Tail(wire) \o air = Remaining(sent, m + 1, 1)
<1>1. /\ sent \in Seq(Payloads) /\ wire \in Seq(Byte) /\ air \in Seq(Byte)
      /\ m \in 0 .. Len(sent) /\ k \in 0 .. Len(FrameOf(sent, m))
      /\ wire \o air = Remaining(sent, m, k) /\ (m > 0 => k > 0)
  BY DEF TypeInv, Place
<1>2. Head(wire) \in Byte /\ Tail(wire) \in Seq(Byte)
  BY <1>1, HeadAndTail
<1>3. ReadsOne(sent, m, k, wire, air)
  BY <1>1, NextByte
<1>4. /\ m \in Nat /\ k \in Nat /\ Len(FrameOf(sent, m)) \in Nat /\ (m = 0 => Len(FrameOf(sent, m)) = 0)
      /\ k \in 0 .. Len(FrameOf(sent, m))
  BY PlaceFacts
<1>5. k < Len(FrameOf(sent, m)) => m > 0 /\ k > 0
  BY <1>1, <1>4
<1>6. ~(k < Len(FrameOf(sent, m))) => k = Len(FrameOf(sent, m))
  BY <1>4
<1> QED BY <1>2, <1>3, <1>5, <1>6 DEF ReadsOne

LEMMA FirstTwo ==
    ASSUME NEW f \in Seq(Byte), Len(f) >= 2, f[1] = AA, f[2] = AA
    PROVE  SubSeq(f, 1, 2) = <<AA, AA>>
<1> DEFINE l == SubSeq(f, 1, 2)
           r == <<AA, AA>>
<1>1. r \in Seq(Byte) /\ Len(r) = 2 /\ r[1] = AA /\ r[2] = AA
  BY ByteValues
<1>2. l \in Seq(Byte) /\ Len(l) = 2 /\ \A i \in 1 .. 2 : l[i] = f[i]
  <2>1. \A i \in 1 .. 2 : f[i] \in Byte
    OBVIOUS
  <2> QED BY <2>1, SubSeqProperties
<1> HIDE DEF l, r
<1>3. \A i \in 1 .. 2 : l[i] = r[i]
  BY <1>1, <1>2
<1> QED BY <1>1, <1>2, <1>3, SeqEqual DEF l, r

LEMMA SyncStep ==
    ASSUME TypeInv, Readable, NEW m, NEW k, Place(m, k), ReadSync, phase' # "failed"
    PROVE  Placed'
<1>0. PICK f : f = FrameOf(sent, m)
  OBVIOUS
<1> DEFINE b == Append(buf, Head(wire))
<1>1. /\ phase = "sync" /\ wire # <<>> /\ wire' = Tail(wire)
      /\ sent' = sent /\ air' = air /\ got' = got /\ cut' = cut
      /\ IF EndsInSync(b) THEN phase' = "length" /\ buf' = <<AA, AA>> ELSE phase' = "sync" /\ buf' = b
  BY DEF ReadSync
<1>2. buf \in Seq(Byte) /\ Len(buf) \in Nat /\ cut \in BOOLEAN
  BY LenProperties DEF TypeInv
<1>3. /\ m \in 0 .. Len(sent) /\ Len(sent) \in Nat /\ m \in Nat /\ k \in Nat
      /\ f \in Seq(Byte) /\ Len(f) \in Nat /\ k \in 0 .. Len(f)
      /\ m = 0 => Len(f) = 0
      /\ m > 0 => m \in 1 .. Len(sent) /\ Len(f) >= 9
  BY <1>0, PlaceFacts
<1>4. /\ Head(wire) \in Byte
      /\ IF k < Len(f)
         THEN /\ m > 0 /\ k > 0 /\ Head(wire) = f[k + 1]
              /\ Tail(wire) \o air = Remaining(sent, m, k + 1)
         ELSE /\ k = Len(f) /\ m < Len(sent) /\ Head(wire) = AA
              /\ Tail(wire) \o air = Remaining(sent, m + 1, 1)
  BY <1>0, <1>1, PlaceByte
<1>5. /\ buf # <<>> => m > 0 /\ k > 0 /\ buf[Len(buf)] = f[k]
      /\ ~cut => (buf = <<>> /\ k = Len(f)) \/ (buf = <<AA>> /\ k = 1 /\ m > 0)
      /\ ~cut => Len(got) = IF buf = <<>> THEN m ELSE m - 1
  BY <1>0, <1>1 DEF Place, InSync
<1>6. m > 0 => f[1] = AA /\ f[2] = AA /\ (cut => \A i \in 3 .. Len(f) : f[i] # AA)
  <2>1. m > 0 => m \in 1 .. Len(sent) /\ sent \in Seq(Payloads)
    BY <1>3 DEF TypeInv
  <2> QED BY <2>1, <1>0, FrameIsPlain
\* The search ends where buf ends with AA and the byte is AA.
<1>7. b \in Seq(Byte) /\ Len(b) = Len(buf) + 1 /\ b[Len(b)] = Head(wire) /\ b # <<>>
  BY <1>2, <1>4
<1>8. EndsInSync(b) <=> buf # <<>> /\ Head(wire) = AA /\ buf[Len(buf)] = AA
  <2>1. Len(b) >= 2 <=> buf # <<>>
    BY <1>2, <1>7
  <2>2. buf # <<>> => b[Len(b) - 1] = buf[Len(buf)]
    BY <1>2
  <2> HIDE DEF b
  <2> QED BY <2>1, <2>2, <1>7 DEF EndsInSync
<1> HIDE DEF b
<1>9. CASE k < Len(f) /\ EndsInSync(b)
  <2>1. m > 0 /\ k > 0 /\ f[k] = AA /\ f[k + 1] = AA /\ buf # <<>>
    BY <1>4, <1>5, <1>8, <1>9
  <2>2. k = 1
    <3>1. CASE cut
      <4>1. k + 1 \in 3 .. Len(f) => f[k + 1] # AA
        BY <2>1, <3>1, <1>6
      <4>2. k # 1 => k + 1 \in 3 .. Len(f)
        BY <2>1, <1>3, <1>9
      <4> QED BY <4>1, <4>2, <2>1
    <3>2. CASE ~cut
      BY <2>1, <3>2, <1>5
    <3> QED BY <3>1, <3>2, <1>2
  <2>3. buf' = SubSeq(f, 1, 2)
    <3>1. Len(f) >= 2
      BY <2>1, <1>3
    <3>2. f[1] = AA /\ f[2] = AA
      BY <2>1, <1>6
    <3>3. SubSeq(f, 1, 2) = <<AA, AA>>
      BY <3>1, <3>2, <1>3, FirstTwo
    <3> QED BY <3>3, <1>1, <1>9
  <2>4. Tail(wire) \o air = Remaining(sent, m, 2)
    <3>1. k + 1 = 2
      BY <2>2
    <3> QED BY <3>1, <1>4, <1>9
  <2>5. InFrame(f, m, 2)'
    BY <2>1, <2>3, <1>1, <1>9 DEF InFrame
  <2>6. ~cut => Len(got) = m - 1
    BY <2>1, <1>5
  <2>7. Place(m, 2)'
    <3>1. 2 \in 0 .. Len(f)
      BY <2>1, <1>3
    <3> QED BY <2>1, <2>4, <2>5, <2>6, <3>1, <1>0, <1>1, <1>3, <1>9 DEF Place
  <2> QED BY <2>7, <1>3 DEF Placed
<1>10. CASE k < Len(f) /\ ~EndsInSync(b)
  <2>1. m > 0 /\ k > 0 /\ Head(wire) = f[k + 1] /\ Tail(wire) \o air = Remaining(sent, m, k + 1)
    BY <1>4, <1>10
  <2>2. cut
    <3> SUFFICES ASSUME ~cut PROVE FALSE
      BY <1>2
    <3>1. buf = <<AA>> /\ k = 1
      BY <1>5, <1>10
    <3>2. Head(wire) = AA
      <4>1. k + 1 = 2
        BY <3>1
      <4> QED BY <2>1, <4>1, <1>6
    <3>3. buf # <<>> /\ buf[Len(buf)] = AA
      BY <3>1
    <3> QED BY <3>2, <3>3, <1>8, <1>10
  <2>3. buf' = b /\ b # <<>> /\ b[Len(b)] = f[k + 1] /\ phase' = "sync"
    BY <2>1, <1>1, <1>7, <1>10
  <2> DEFINE j == k + 1
  <2>4. j \in Nat /\ j \in 0 .. Len(f) /\ j > 0
    BY <1>3, <1>10
  <2>5. InSync(f, m, j)'
    BY <2>1, <2>2, <2>3, <1>1 DEF InSync
  <2>6. Place(m, j)'
    <3>1. wire' \o air' = Remaining(sent', m, j)
      BY <2>1, <1>1
    <3> HIDE DEF j
    <3> QED BY <2>2, <2>3, <2>4, <2>5, <3>1, <1>0, <1>1, <1>3 DEF Place
  <2> HIDE DEF j
  <2> QED BY <2>4, <2>6, <1>3 DEF Placed
<1>11. CASE ~(k < Len(f))
  <2>1. k = Len(f) /\ m < Len(sent) /\ Head(wire) = AA /\ Tail(wire) \o air = Remaining(sent, m + 1, 1)
    BY <1>4, <1>11
  <2>2. m > 0 => k >= 9 /\ k # 1
    BY <2>1, <1>3
  <2>3. ~EndsInSync(b)
    <3> SUFFICES ASSUME EndsInSync(b) PROVE FALSE
      OBVIOUS
    <3>1. buf # <<>> /\ m > 0 /\ f[k] = AA
      BY <1>5, <1>8
    <3>2. ~cut => FALSE
      BY <2>2, <3>1, <1>5
    <3>3. k \in 3 .. Len(f)
      BY <2>1, <2>2, <3>1, <1>3
    <3> QED BY <3>1, <3>2, <3>3, <1>6
  <2>4. ~cut => buf = <<>>
    BY <2>2, <1>5
  <2> DEFINE j == m + 1
  <2>0. PICK g : g = FrameOf(sent, j)
    OBVIOUS
  <2>5. j \in Nat /\ j \in 0 .. Len(sent) /\ j > 0 /\ j - 1 = m
    BY <2>1, <1>3
  <2>6. g \in Seq(Byte) /\ Len(g) \in Nat /\ Len(g) >= 9 /\ g[1] = AA
    <3>1. sent \in Seq(Payloads)
      BY DEF TypeInv
    <3> HIDE DEF j
    <3> QED BY <2>0, <2>5, <3>1, FrameOfType
  <2>7. wire' \o air' = Remaining(sent', j, 1)
    BY <2>1, <1>1
  <2> HIDE DEF j
  <2>8. buf' = b /\ b # <<>> /\ b[Len(b)] = g[1] /\ phase' = "sync"
    BY <2>1, <2>3, <2>6, <1>1, <1>7
  <2>9. ~cut => b = <<AA>>
    BY <2>1, <2>4 DEF b
  <2>10. InSync(g, j, 1)'
    BY <2>5, <2>8, <2>9, <1>1 DEF InSync
  <2>11. Place(j, 1)'
    <3>1. 1 \in 0 .. Len(g)
      BY <2>6
    <3>2. ~cut => Len(got) = j - 1
      BY <2>4, <2>5, <1>5
    <3> QED BY <2>0, <2>5, <2>7, <2>8, <2>10, <3>1, <3>2, <1>1 DEF Place
  <2> QED BY <2>5, <2>11 DEF Placed
<1> QED BY <1>9, <1>10, <1>11

LEMMA LengthStep ==
    ASSUME TypeInv, Readable, NEW m, NEW k, Place(m, k), ReadLength
    PROVE  Placed'
<1>0. PICK f : f = FrameOf(sent, m)
  OBVIOUS
<1> DEFINE b == Head(wire)
<1>1. /\ phase \in {"length", "length2"} /\ wire # <<>> /\ wire' = Tail(wire) /\ buf' = Append(buf, b)
      /\ sent' = sent /\ air' = air /\ got' = got /\ cut' = cut
      /\ IF b = Esc /\ Last(buf) = AA THEN UNCHANGED <<phase, need>>
         ELSE IF phase = "length" THEN phase' = "length2" /\ need' = b
         ELSE phase' = "body" /\ need' = need * 256 + b
  BY DEF ReadLength
<1>2. /\ m \in 0 .. Len(sent) /\ Len(sent) \in Nat /\ m \in Nat /\ k \in Nat
      /\ f \in Seq(Byte) /\ Len(f) \in Nat
      /\ m > 0 => m \in 1 .. Len(sent) /\ Len(f) >= 9
  BY <1>0, PlaceFacts
<1>3. /\ m > 0 /\ buf = SubSeq(f, 1, k)
      /\ phase = "length" => k = 2
      /\ phase = "length2" => k = 3 /\ need = f[3]
      /\ ~cut => Len(got) = m - 1
  BY <1>0, <1>1 DEF Place, InFrame
<1>4. k \in {2, 3} /\ k < Len(f) /\ k \in 0 .. Len(f) - 1 /\ k > 0
  BY <1>1, <1>2, <1>3
<1>5. b = f[k + 1] /\ Tail(wire) \o air = Remaining(sent, m, k + 1)
  BY <1>0, <1>1, <1>4, PlaceByte
<1>6. f[3] # Esc /\ ~(f[3] = AA /\ f[4] = Esc) /\ f[3] * 256 + f[4] = Len(f) - 4
  <2>1. m \in 1 .. Len(sent) /\ sent \in Seq(Payloads)
    BY <1>2, <1>3 DEF TypeInv
  <2> QED BY <2>1, <1>0, FrameIsPlain
<1> HIDE DEF b
<1>7. Last(buf) = f[k] /\ buf' = SubSeq(f, 1, k + 1)
  <2>1. Append(SubSeq(f, 1, k), f[k + 1]) = SubSeq(f, 1, k + 1) /\ Len(SubSeq(f, 1, k)) = k /\ SubSeq(f, 1, k)[k] = f[k]
    BY <1>2, <1>4, PrefixNext
  <2> QED BY <2>1, <1>1, <1>3, <1>5 DEF Last
<1>8. ~(b = Esc /\ Last(buf) = AA)
  <2>1. CASE k = 2
    BY <2>1, <1>5, <1>6
  <2>2. CASE k = 3
    BY <2>2, <1>5, <1>6, <1>7
  <2> QED BY <2>1, <2>2, <1>4
<1> DEFINE j == k + 1
<1>9. j \in Nat /\ j \in 0 .. Len(f) /\ j > 0
  BY <1>2, <1>4
<1>10. InFrame(f, m, j)' /\ phase' \in {"length2", "body"}
  <2>1. CASE phase = "length"
    <3>1. k = 2 /\ phase' = "length2" /\ need' = f[3]
      BY <2>1, <1>1, <1>3, <1>5, <1>8
    <3> QED BY <3>1, <1>3, <1>7 DEF InFrame
  <2>2. CASE phase = "length2"
    <3>1. k = 3 /\ phase' = "body" /\ need' = f[3] * 256 + f[4]
      BY <2>2, <1>1, <1>3, <1>5, <1>8
    <3>2. need' = Len(f) - j /\ j >= 4
      BY <3>1, <1>6
    <3> QED BY <3>1, <3>2, <1>3, <1>7 DEF InFrame
  <2> QED BY <2>1, <2>2, <1>1
<1>11. wire' \o air' = Remaining(sent', m, j)
  BY <1>1, <1>5
<1> HIDE DEF j
<1>12. Place(m, j)'
  <2>1. phase' # "sync"
    BY <1>10
  <2> QED BY <2>1, <1>1, <1>2, <1>3, <1>9, <1>10, <1>11, <1>0 DEF Place
<1> QED BY <1>2, <1>9, <1>12 DEF Placed

LEMMA BodyStep ==
    ASSUME TypeInv, Readable, NEW m, NEW k, Place(m, k), ReadBody
    PROVE  Placed'
<1>0. PICK f, c : f = FrameOf(sent, m) /\ c = Chunk
  OBVIOUS
<1> DEFINE j == k + c
<1>1. /\ phase = "body" /\ phase' = "body" /\ wire # <<>> /\ wire' = SubSeq(wire, c + 1, Len(wire))
      /\ buf' = buf \o SubSeq(wire, 1, c) /\ need' = need - c
      /\ sent' = sent /\ air' = air /\ got' = got /\ cut' = cut
  BY <1>0 DEF ReadBody
<1>2. /\ m \in 0 .. Len(sent) /\ m \in Nat /\ k \in Nat
      /\ f \in Seq(Byte) /\ Len(f) \in Nat /\ k \in 0 .. Len(f)
  BY <1>0, PlaceFacts
<1>3. /\ m > 0 /\ buf = SubSeq(f, 1, k) /\ k >= 4 /\ need = Len(f) - k
      /\ ~cut => Len(got) = m - 1
  BY <1>0, <1>1 DEF Place, InFrame
<1>4. c \in 0 .. Len(wire) /\ c <= need /\ need \in Nat
  BY <1>0, ChunkType DEF TypeInv
<1>5. Len(wire) \in Nat /\ wire \in Seq(Byte) /\ air \in Seq(Byte) /\ sent \in Seq(Payloads)
  BY LenProperties DEF TypeInv
<1>6. c \in Nat /\ c \in 0 .. Len(f) - k /\ j \in Nat /\ j \in 0 .. Len(f) /\ j >= 4 /\ need - c = Len(f) - j
  BY <1>2, <1>3, <1>4, <1>5
<1>7. Takes(sent, m, k, wire, air, c)
  <2>1. CanTake(sent, m, k, wire, air, c)
    BY <1>0, <1>2, <1>4, <1>6 DEF CanTake, Place
  <2> QED BY <2>1, <1>5, NextBytes
<1>8. buf' = SubSeq(f, 1, j)
  <2>1. SubSeq(wire, 1, c) = SubSeq(f, k + 1, k + c)
    BY <1>0, <1>7 DEF Takes
  <2>2. SubSeq(f, 1, k) \o SubSeq(f, k + 1, k + c) = SubSeq(f, 1, k + c)
    BY <1>2, <1>6, PrefixGrows
  <2> QED BY <2>1, <2>2, <1>1, <1>3
<1>9. wire' \o air' = Remaining(sent', m, j)
  BY <1>1, <1>7 DEF Takes, Drop
<1> HIDE DEF j
<1>10. InFrame(f, m, j)'
  BY <1>1, <1>3, <1>6, <1>8 DEF InFrame
<1>11. Place(m, j)'
  <2>1. j > 0 /\ phase' # "sync"
    BY <1>1, <1>6
  <2> QED BY <2>1, <1>1, <1>2, <1>3, <1>6, <1>9, <1>10, <1>0 DEF Place
<1> QED BY <1>2, <1>6, <1>11 DEF Placed

\* What was sent stays sent.
LEMMA SentGrows ==
    ASSUME TypeInv, [Next]_vars
    PROVE  /\ Len(sent) \in Nat /\ Len(sent') \in Nat /\ Len(sent) <= Len(sent')
           /\ \A i \in DOMAIN sent : i \in DOMAIN sent' /\ sent'[i] = sent[i]
           /\ cut => cut'
<1>1. sent \in Seq(Payloads) /\ Len(sent) \in Nat /\ DOMAIN sent = 1 .. Len(sent)
  BY LenProperties DEF TypeInv
<1>2. sent' = sent \/ \E p \in Payloads : sent' = Append(sent, p)
  BY DEF Next, DeviceSends, Arrives, ReadSync, ReadLength, ReadBody, Returns, TimesOut, StreamEnds, vars
<1>3. cut => cut'
  BY DEF Next, DeviceSends, Arrives, ReadSync, ReadLength, ReadBody, Returns, TimesOut, StreamEnds, vars
<1>4. CASE sent' = sent
  BY <1>1, <1>3, <1>4
<1>5. ASSUME NEW p \in Payloads, sent' = Append(sent, p)
      PROVE  /\ Len(sent') \in Nat /\ Len(sent) <= Len(sent')
             /\ \A i \in DOMAIN sent : i \in DOMAIN sent' /\ sent'[i] = sent[i]
  <2> DEFINE t == Append(sent, p)
  <2>1. Len(t) = Len(sent) + 1 /\ DOMAIN t = 1 .. Len(sent) + 1 /\ \A i \in 1 .. Len(sent) : t[i] = sent[i]
    BY <1>1
  <2> HIDE DEF t
  <2>2. sent' = t
    BY <1>5 DEF t
  <2> QED BY <2>1, <2>2, <1>1
<1> QED BY <1>1, <1>2, <1>3, <1>4, <1>5

LEMMA ReadableBefore ==
    ASSUME TypeInv, [Next]_vars, Readable'
    PROVE  Readable
<1>1. /\ \A i \in DOMAIN sent : i \in DOMAIN sent' /\ sent'[i] = sent[i]
      /\ cut => cut'
  BY SentGrows
<1>2. Plain' /\ (cut' => Clean')
  BY DEF Readable
<1>3. Plain
  <2> SUFFICES ASSUME NEW i \in DOMAIN sent
               PROVE  BuildPacket(sent[i]) = RawPacket(sent[i]) /\ RawPacket(sent[i])[3] # Esc
    BY DEF Plain
  <2>1. BuildPacket(sent'[i]) = RawPacket(sent'[i]) /\ RawPacket(sent'[i])[3] # Esc
    BY <1>1, <1>2 DEF Plain
  <2> QED BY <2>1, <1>1
<1>4. ASSUME cut PROVE Clean
  <2> SUFFICES ASSUME NEW i \in DOMAIN sent
               PROVE  LET raw == RawPacket(sent[i]) IN raw[3] # Esc /\ \A k \in 3 .. Len(raw) : raw[k] # AA
    BY DEF Clean
  <2>1. LET raw == RawPacket(sent'[i]) IN raw[3] # Esc /\ \A k \in 3 .. Len(raw) : raw[k] # AA
    BY <1>1, <1>2, <1>4 DEF Clean
  <2> QED BY <2>1, <1>1
<1> QED BY <1>3, <1>4 DEF Readable

LEMMA SendStep ==
    ASSUME TypeInv, Readable, NEW m, NEW k, Place(m, k), DeviceSends
    PROVE  Placed'
<1>1. PICK p \in Payloads : sent' = Append(sent, p) /\ air' = air \o BuildPacket(p)
  BY DEF DeviceSends
<1>2. UNCHANGED <<wire, phase, buf, need, got, cut>>
  BY DEF DeviceSends
<1>3. /\ sent \in Seq(Payloads) /\ air \in Seq(Byte) /\ wire \in Seq(Byte)
      /\ m \in 0 .. Len(sent) /\ Len(sent) \in Nat /\ m \in Nat /\ k \in Nat
      /\ FrameOf(sent, m) \in Seq(Byte) /\ k \in 0 .. Len(FrameOf(sent, m))
  BY PlaceFacts DEF TypeInv
<1>4. PICK f : f = FrameOf(sent, m)
  OBVIOUS
<1>5. FrameOf(sent', m) = f
  <2>1. m # 0 => m \in 1 .. Len(sent)
    BY <1>3
  <2>2. m # 0 => sent'[m] = sent[m]
    BY <2>1, <1>1, <1>3
  <2> QED BY <2>2, <1>4 DEF FrameOf
<1>6. m \in 0 .. Len(sent')
  <2>1. Len(sent') = Len(sent) + 1
    BY <1>1, <1>3
  <2> QED BY <2>1, <1>3
<1>7. wire' \o air' = Remaining(sent', m, k)
  <2> DEFINE d == Drop(f, k)
             l == LaterOf(sent, m)
             g == BuildPacket(p)
  <2>1. LaterOf(sent', m) = l \o g /\ l \in Seq(Byte)
    BY <1>1, <1>3, LaterFacts
  <2>2. g \in Seq(Byte)
    BY FrameBytes
  <2>3. d \in Seq(Byte)
    BY <1>3, <1>4, DropType
  <2>4. wire \o air = d \o l
    BY <1>4 DEF Place, Remaining
  <2>5. Remaining(sent', m, k) = d \o LaterOf(sent', m)
    BY <1>5 DEF Remaining
  <2>6. wire' \o air' = wire \o (air \o g)
    BY <1>1, <1>2
  <2> HIDE DEF d, l, g
  <2>7. (wire \o air) \o g = wire \o (air \o g)
    BY <2>2, <1>3, ConcatAssociative, SMTT(30)
  <2>8. (d \o l) \o g = d \o (l \o g)
    BY <2>1, <2>2, <2>3, ConcatAssociative
  <2> QED BY <2>1, <2>4, <2>5, <2>6, <2>7, <2>8
<1>8. /\ m > 0 => k > 0
      /\ IF phase = "sync" THEN InSync(f, m, k) ELSE InFrame(f, m, k)
      /\ ~cut => Len(got) = IF phase = "sync" /\ buf = <<>> THEN m ELSE m - 1
  BY <1>4 DEF Place
<1>9. (InSync(f, m, k) => InSync(f, m, k)') /\ (InFrame(f, m, k) => InFrame(f, m, k)')
  BY <1>2 DEF InSync, InFrame
<1>10. Place(m, k)'
  BY <1>2, <1>3, <1>4, <1>5, <1>6, <1>7, <1>8, <1>9 DEF Place
<1> QED BY <1>3, <1>10 DEF Placed

LEMMA ArriveStep ==
    ASSUME TypeInv, Readable, NEW m, NEW k, Place(m, k), Arrives
    PROVE  Placed'
<1>1. PICK n \in 1 .. Len(air) : wire' = wire \o SubSeq(air, 1, n) /\ air' = SubSeq(air, n + 1, Len(air))
  BY DEF Arrives
<1>2. UNCHANGED <<sent, phase, buf, need, got, cut>>
  BY DEF Arrives
<1>3. air \in Seq(Byte) /\ wire \in Seq(Byte) /\ Len(air) \in Nat /\ n \in Nat /\ n <= Len(air) /\ n > 0
  BY LenProperties DEF TypeInv
<1>4. wire' \o air' = wire \o air
  <2> DEFINE u == SubSeq(air, 1, n)
             v == SubSeq(air, n + 1, Len(air))
  <2>1. u \o v = air
    <3> DEFINE c == Len(air) - n
    <3>1. n \in 0 .. Len(air) /\ c \in 0 .. Len(air) - n /\ n + c = Len(air)
      BY <1>3
    <3>2. SubSeq(air, 1, Len(air)) = air
      BY <1>3
    <3> HIDE DEF c
    <3>3. SubSeq(air, 1, n) \o SubSeq(air, n + 1, n + c) = SubSeq(air, 1, n + c)
      BY <3>1, <1>3, PrefixGrows
    <3> QED BY <3>1, <3>2, <3>3
  <2>2. u \in Seq(Byte) /\ v \in Seq(Byte)
    <3>1. n \in 0 .. Len(air)
      BY <1>3
    <3>2. v \in Seq(Byte)
      BY <3>1, <1>3, DropType DEF Drop
    <3> QED BY <3>1, <3>2, <1>3
  <2> HIDE DEF u, v
  <2>3. (wire \o u) \o v = wire \o (u \o v)
    <3>1. wire \in Seq(Byte)
      BY <1>3
    <3> QED BY <2>2, <3>1, ConcatAssociative, SMTT(30)
  <2> QED BY <2>1, <2>3, <1>1 DEF u, v
<1>5. Place(m, k)'
  BY <1>2, <1>4 DEF Place, InSync, InFrame
<1> QED BY <1>5, PlaceFacts DEF Placed

LEMMA ReturnStep ==
    ASSUME TypeInv, Readable, NEW m, NEW k, Place(m, k), Returns
    PROVE  Placed' /\ m \in DOMAIN sent /\ buf = BuildPacket(sent[m]) /\ (~cut => Len(got) = m - 1)
<1>1. PICK f : f = FrameOf(sent, m)
  OBVIOUS
<1>2. /\ m \in 0 .. Len(sent) /\ Len(sent) \in Nat /\ m \in Nat /\ k \in Nat
      /\ f \in Seq(Byte) /\ Len(f) \in Nat /\ k \in 0 .. Len(f)
      /\ m > 0 => m \in 1 .. Len(sent)
  BY <1>1, PlaceFacts
<1>3. /\ phase = "body" /\ need = 0 /\ got' = Append(got, buf)
      /\ phase' = "sync" /\ buf' = <<>> /\ need' = 0 /\ UNCHANGED <<sent, air, wire, cut>>
  BY DEF Returns, BodyRead
<1>4. /\ m > 0 /\ buf = SubSeq(f, 1, k) /\ k >= 4 /\ need = Len(f) - k
      /\ ~cut => Len(got) = m - 1
  BY <1>1, <1>3 DEF Place, InFrame
<1>5. k = Len(f) /\ buf = f
  <2>1. k = Len(f)
    BY <1>2, <1>3, <1>4
  <2>2. SubSeq(f, 1, Len(f)) = f
    BY <1>2
  <2> QED BY <2>1, <2>2, <1>4
<1>6. m \in DOMAIN sent /\ buf = BuildPacket(sent[m])
  <2>1. m \in 1 .. Len(sent) /\ m # 0
    BY <1>2, <1>4
  <2>2. sent \in Seq(Payloads)
    BY DEF TypeInv
  <2>3. m \in DOMAIN sent
    BY <2>1, <2>2
  <2>4. f = BuildPacket(sent[m])
    BY <2>1, <1>1 DEF FrameOf
  <2> QED BY <2>3, <2>4, <1>5
<1>7. ~cut => Len(got') = m
  <2>1. got \in Seq(Seq(Byte)) /\ buf \in Seq(Byte)
    BY DEF TypeInv
  <2>2. Len(got') = Len(got) + 1
    BY <2>1, <1>3
  <2> QED BY <2>2, <1>2, <1>4
<1>8. Place(m, k)'
  <2>1. InSync(f, m, k)'
    BY <1>3, <1>5 DEF InSync
  <2>2. k > 0 /\ wire \o air = Remaining(sent, m, k)
    BY <1>2, <1>4 DEF Place
  <2> QED BY <2>1, <2>2, <1>1, <1>2, <1>3, <1>7 DEF Place
<1> QED BY <1>2, <1>4, <1>6, <1>8 DEF Placed

LEMMA CutStep ==
    ASSUME TypeInv, Readable, NEW m, NEW k, Place(m, k), TimesOut
    PROVE  Placed'
<1>1. /\ phase' = "sync" /\ buf' = <<>> /\ cut' /\ UNCHANGED <<sent, air, wire, got>>
  BY DEF TimesOut, StartsAfresh
<1>2. Place(m, k)'
  BY <1>1 DEF Place, InSync
<1> QED BY <1>2, PlaceFacts DEF Placed

\* The frames returned stay frames that were sent.
LEMMA GotSteady ==
    ASSUME TypeInv, [Next]_vars, GotInv, got' = got
    PROVE  GotInv'
<1>1. /\ Len(sent) \in Nat /\ Len(sent') \in Nat /\ Len(sent) <= Len(sent')
      /\ \A i \in DOMAIN sent : i \in DOMAIN sent' /\ sent'[i] = sent[i]
      /\ cut => cut'
  BY SentGrows
<1>2. got \in Seq(Seq(Byte)) /\ sent \in Seq(Payloads) /\ Len(got) \in Nat
  BY LenProperties DEF TypeInv
<1>3. ASSUME NEW i \in DOMAIN got PROVE \E j \in DOMAIN sent' : got[i] = BuildPacket(sent'[j])
  <2>1. PICK j \in DOMAIN sent : got[i] = BuildPacket(sent[j])
    BY DEF GotInv
  <2> QED BY <2>1, <1>1
<1>4. ASSUME ~cut' PROVE Len(got) <= Len(sent') /\ \A i \in DOMAIN got : got[i] = BuildPacket(sent'[i])
  <2>1. Len(got) <= Len(sent) /\ \A i \in DOMAIN got : got[i] = BuildPacket(sent[i])
    BY <1>1, <1>4 DEF GotInv
  <2>2. \A i \in DOMAIN got : i \in DOMAIN sent
    BY <2>1, <1>1, <1>2
  <2> QED BY <2>1, <2>2, <1>1, <1>2
<1> QED BY <1>3, <1>4 DEF GotInv

LEMMA GotGrows ==
    ASSUME TypeInv, Readable, GotInv, NEW m, NEW k, Place(m, k), Returns
    PROVE  GotInv'
<1>1. m \in DOMAIN sent /\ buf = BuildPacket(sent[m]) /\ (~cut => Len(got) = m - 1)
  BY ReturnStep
<1>2. got' = Append(got, buf) /\ sent' = sent /\ cut' = cut
  BY DEF Returns
<1>3. /\ got \in Seq(Seq(Byte)) /\ buf \in Seq(Byte) /\ Len(got) \in Nat
      /\ Len(sent) \in Nat /\ DOMAIN sent = 1 .. Len(sent)
  BY LenProperties DEF TypeInv
<1> DEFINE n == Len(got)
           t == Append(got, buf)
<1>4. Len(t) = n + 1 /\ DOMAIN t = 1 .. n + 1 /\ DOMAIN got = 1 .. n /\ t[n + 1] = buf /\ \A i \in 1 .. n : t[i] = got[i]
  BY <1>3
<1> HIDE DEF n, t
<1>5. n \in Nat
  BY <1>3 DEF n
<1>6. ASSUME NEW i \in DOMAIN t
      PROVE  /\ \E j \in DOMAIN sent : t[i] = BuildPacket(sent[j])
             /\ ~cut => t[i] = BuildPacket(sent[i])
  <2>1. CASE i = n + 1
    <3>1. t[i] = BuildPacket(sent[m])
      BY <2>1, <1>1, <1>4
    <3>2. ~cut => i = m
      BY <2>1, <1>1, <1>3, <1>5 DEF n
    <3> QED BY <3>1, <3>2, <1>1
  <2>2. CASE i # n + 1
    <3>1. i \in DOMAIN got /\ t[i] = got[i]
      BY <2>2, <1>4, <1>5
    <3> QED BY <3>1 DEF GotInv
  <2> QED BY <2>1, <2>2
<1>7. ~cut => Len(t) <= Len(sent)
  BY <1>1, <1>3, <1>4, <1>5 DEF n
<1> QED BY <1>2, <1>6, <1>7 DEF GotInv, t

LEMMA StreamStep == TypeInv /\ StreamInv /\ [Next]_vars => StreamInv'
<1> SUFFICES ASSUME TypeInv, StreamInv, [Next]_vars, Readable' PROVE GotInv' /\ (phase' # "failed" => Placed')
  BY DEF StreamInv
<1>1. Readable /\ GotInv /\ (phase # "failed" => Placed)
  BY ReadableBefore DEF StreamInv
<1>2. CASE DeviceSends
  <2>1. phase # "failed" /\ got' = got
    BY <1>2 DEF DeviceSends
  <2>2. PICK m \in Nat, k \in Nat : Place(m, k)
    BY <2>1, <1>1 DEF Placed
  <2> QED BY <2>1, <2>2, <1>1, <1>2, SendStep, GotSteady
<1>3. CASE Arrives
  <2>1. phase # "failed" /\ got' = got
    BY <1>3 DEF Arrives
  <2>2. PICK m \in Nat, k \in Nat : Place(m, k)
    BY <2>1, <1>1 DEF Placed
  <2> QED BY <2>1, <2>2, <1>1, <1>3, ArriveStep, GotSteady
<1>4. CASE ReadSync
  <2>1. phase # "failed" /\ got' = got
    BY <1>4 DEF ReadSync
  <2>2. PICK m \in Nat, k \in Nat : Place(m, k)
    BY <2>1, <1>1 DEF Placed
  <2> QED BY <2>1, <2>2, <1>1, <1>4, SyncStep, GotSteady
<1>5. CASE ReadLength
  <2>1. phase # "failed" /\ got' = got
    BY <1>5 DEF ReadLength
  <2>2. PICK m \in Nat, k \in Nat : Place(m, k)
    BY <2>1, <1>1 DEF Placed
  <2> QED BY <2>1, <2>2, <1>1, <1>5, LengthStep, GotSteady
<1>6. CASE ReadBody
  <2>1. phase # "failed" /\ got' = got
    BY <1>6 DEF ReadBody
  <2>2. PICK m \in Nat, k \in Nat : Place(m, k)
    BY <2>1, <1>1 DEF Placed
  <2> QED BY <2>1, <2>2, <1>1, <1>6, BodyStep, GotSteady
<1>7. CASE Returns
  <2>1. phase # "failed"
    BY <1>7 DEF Returns
  <2>2. PICK m \in Nat, k \in Nat : Place(m, k)
    BY <2>1, <1>1 DEF Placed
  <2> QED BY <2>1, <2>2, <1>1, <1>7, ReturnStep, GotGrows
<1>8. CASE TimesOut
  <2>1. phase # "failed" /\ got' = got
    BY <1>8 DEF TimesOut
  <2>2. PICK m \in Nat, k \in Nat : Place(m, k)
    BY <2>1, <1>1 DEF Placed
  <2> QED BY <2>1, <2>2, <1>1, <1>8, CutStep, GotSteady
<1>9. CASE StreamEnds
  <2>1. phase' = "failed" /\ got' = got
    BY <1>9 DEF StreamEnds
  <2> QED BY <2>1, <1>1, GotSteady
<1>10. CASE UNCHANGED vars
  <2>1. got' = got /\ phase' = phase
    BY <1>10 DEF vars
  <2>2. Placed => Placed'
    BY <1>10 DEF vars, Placed, Place, InSync, InFrame
  <2> QED BY <2>1, <2>2, <1>1, GotSteady
<1> QED BY <1>2, <1>3, <1>4, <1>5, <1>6, <1>7, <1>8, <1>9, <1>10 DEF Next

LEMMA StreamInit == Init => StreamInv
<1> SUFFICES ASSUME Init PROVE GotInv /\ Placed
  BY DEF StreamInv
<1>1. /\ sent = <<>> /\ air = <<>> /\ wire = <<>>
      /\ phase = "sync" /\ buf = <<>> /\ need = 0 /\ got = <<>> /\ cut = FALSE
  BY DEF Init
<1>2. FrameOf(sent, 0) = <<>> /\ Len(<<>>) = 0 /\ Drop(<<>>, 0) = <<>>
  BY DEF FrameOf, Drop
<1>3. LaterOf(sent, 0) = <<>>
  <2>1. <<>> \in Seq(Payloads) /\ 0 \in 0 .. Len(<<>>) /\ 0 = Len(<<>>)
    OBVIOUS
  <2> QED BY <2>1, <1>1, LaterFacts
<1>4. wire \o air = Remaining(sent, 0, 0)
  BY <1>1, <1>2, <1>3 DEF Remaining
<1>5. Place(0, 0)
  BY <1>1, <1>2, <1>4 DEF Place, InSync
<1>6. GotInv
  BY <1>1 DEF GotInv
<1> QED BY <1>5, <1>6 DEF Placed

LEMMA StreamHolds == Spec => []StreamInv
<1> QED BY StreamInit, StreamStep, TypesHold, PTL DEF Spec

-----------------------------------------------------------------------------
(* The theorems.                                                              *)

\* However the stream is cut into chunks, _recv_packet returns plain packets whole and
\* in order, and has returned every one of them when all that was sent is read.
THEOREM PlainPacketsAlwaysArrive == Spec => []PlainPacketsArrive
<1>1. ASSUME TypeInv, StreamInv, Plain, ~cut
      PROVE  IsPrefix(Parsed, SentPackets) /\ (AllRead => Parsed = SentPackets)
  <2>1. Readable
    BY <1>1 DEF Readable
  <2>2. /\ sent \in Seq(Payloads) /\ Len(sent) \in Nat /\ DOMAIN sent = 1 .. Len(sent)
        /\ got \in Seq(Seq(Byte)) /\ Len(got) \in Nat /\ DOMAIN got = 1 .. Len(got)
    BY <1>1, LenProperties DEF TypeInv
  <2>3. Len(got) <= Len(sent) /\ \A i \in DOMAIN got : got[i] = BuildPacket(sent[i])
    BY <1>1, <2>1 DEF StreamInv, GotInv
  <2>4. \A i \in DOMAIN got : Parsed[i] = Packet(sent[i]) /\ SentPackets[i] = Packet(sent[i])
    <3> SUFFICES ASSUME NEW i \in DOMAIN got
                 PROVE  Parsed[i] = Packet(sent[i]) /\ SentPackets[i] = Packet(sent[i])
      OBVIOUS
    <3>1. i \in DOMAIN sent
      BY <2>2, <2>3
    <3>2. sent[i] \in Payloads
      BY <2>2, <3>1
    <3>3. ParsePacket(got[i]) = Packet(sent[i])
      BY <2>3, <3>2, ParseBuilt
    <3> QED BY <3>1, <3>3 DEF Parsed, SentPackets
  <2> DEFINE S == {Packet(p) : p \in Payloads}
  <2>5. Parsed \in Seq(S) /\ Len(Parsed) = Len(got)
    <3>1. Parsed = [i \in 1 .. Len(got) |-> Parsed[i]]
      BY <2>2 DEF Parsed
    <3>2. \A i \in 1 .. Len(got) : Parsed[i] \in S
      <4> SUFFICES ASSUME NEW i \in 1 .. Len(got) PROVE Parsed[i] \in S
        OBVIOUS
      <4>1. i \in DOMAIN got /\ i \in DOMAIN sent
        BY <2>2, <2>3
      <4>2. sent[i] \in Payloads
        BY <2>2, <4>1
      <4> QED BY <2>4, <4>1, <4>2
    <3> HIDE DEF S
    <3> QED BY <3>1, <3>2, <2>2
  <2>6. SentPackets \in Seq(S) /\ Len(SentPackets) = Len(sent)
    <3>1. SentPackets = [i \in 1 .. Len(sent) |-> Packet(sent[i])]
      BY <2>2 DEF SentPackets
    <3>2. \A i \in 1 .. Len(sent) : Packet(sent[i]) \in S
      BY <2>2
    <3> HIDE DEF S
    <3> QED BY <3>1, <3>2, <2>2
  <2> HIDE DEF S
  <2>7. IsPrefix(Parsed, SentPackets)
    <3>1. \A i \in 1 .. Len(Parsed) : Parsed[i] = SentPackets[i]
      BY <2>2, <2>4, <2>5
    <3>2. Parsed = SubSeq(SentPackets, 1, Len(Parsed))
      <4> DEFINE n == Len(Parsed)
                 w == SubSeq(SentPackets, 1, n)
      <4>1. n \in Nat /\ n <= Len(SentPackets)
        BY <2>2, <2>3, <2>5, <2>6
      <4>2. w \in Seq(S) /\ Len(w) = n /\ \A i \in 1 .. n : w[i] = SentPackets[i]
        <5>1. \A i \in 1 .. n : SentPackets[i] \in S
          BY <2>2, <2>6, <4>1
        <5> HIDE DEF n
        <5> QED BY <4>1, <5>1, SubSeqProperties
      <4> HIDE DEF w
      <4>3. Parsed = w
        BY <3>1, <4>2, <2>5, SeqEqual
      <4> QED BY <4>3 DEF w
    <3>3. Len(Parsed) <= Len(SentPackets)
      BY <2>2, <2>3, <2>5, <2>6
    <3> QED BY <3>2, <3>3 DEF IsPrefix
  <2>8. ASSUME AllRead PROVE Parsed = SentPackets
    <3>1. air = <<>> /\ wire = <<>> /\ phase = "sync"
      BY <2>8 DEF AllRead
    <3>2. PICK m \in Nat, k \in Nat : Place(m, k)
      BY <1>1, <2>1, <3>1 DEF StreamInv, Placed
    <3>3. PICK f, l : f = FrameOf(sent, m) /\ l = LaterOf(sent, m)
      OBVIOUS
    <3>4. /\ m \in 0 .. Len(sent) /\ f \in Seq(Byte) /\ Len(f) \in Nat /\ k \in 0 .. Len(f)
          /\ m > 0 => Len(f) >= 9
      BY <1>1, <2>1, <3>2, <3>3, PlaceFacts
    <3>5. l \in Seq(Byte) /\ (m < Len(sent) => l = FrameOf(sent, m + 1) \o LaterOf(sent, m + 1))
      BY <2>2, <3>3, <3>4, LaterFacts
    <3>6. /\ Drop(f, k) \o l = <<>>
          /\ (buf = <<>> /\ k = Len(f)) \/ (buf = <<AA>> /\ k = 1 /\ m > 0)
      <4>1. wire \o air = <<>>
        BY <3>1
      <4>2. wire \o air = Drop(f, k) \o l /\ InSync(f, m, k)
        BY <3>1, <3>2, <3>3 DEF Place, Remaining
      <4> QED BY <4>1, <4>2, <1>1 DEF InSync
    <3>7. Len(Drop(f, k)) = Len(f) - k /\ Drop(f, k) \in Seq(Byte)
      BY <3>4, DropType
    <3>8. Len(f) - k = 0 /\ Len(l) = 0
      <4> DEFINE d == Drop(f, k)
      <4>1. d \in Seq(Byte) /\ d \o l = <<>>
        BY <3>6, <3>7
      <4> HIDE DEF d
      <4>2. Len(d \o l) = Len(d) + Len(l) /\ Len(d) \in Nat /\ Len(l) \in Nat
        <5>1. d \in Seq(Byte) /\ l \in Seq(Byte)
          BY <4>1, <3>5
        <5> QED BY <5>1
      <4>3. Len(d) = 0 /\ Len(l) = 0
        BY <4>1, <4>2
      <4> QED BY <4>3, <3>7 DEF d
    <3>9. buf = <<>>
      <4>1. k = Len(f)
        BY <3>4, <3>8
      <4>2. m > 0 => k # 1
        BY <4>1, <3>4
      <4> QED BY <4>2, <3>6
    <3>10. Len(got) = m
      BY <1>1, <3>1, <3>2, <3>9 DEF Place
    <3>11. m = Len(sent)
      <4> SUFFICES ASSUME m < Len(sent) PROVE FALSE
        <5>1. m \in 0 .. Len(sent) /\ Len(sent) \in Nat
          BY <2>2, <3>4
        <5> QED BY <5>1
      <4> DEFINE j == m + 1
      <4>1. j \in 0 .. Len(sent) /\ j > 0
        BY <2>2
      <4> HIDE DEF j
      <4>2. FrameOf(sent, j) \in Seq(Byte) /\ Len(FrameOf(sent, j)) >= 9 /\ Len(FrameOf(sent, j)) \in Nat
        BY <2>2, <4>1, FrameOfType
      <4>3. LaterOf(sent, j) \in Seq(Byte)
        BY <2>2, <4>1, LaterFacts
      <4>4. l = FrameOf(sent, j) \o LaterOf(sent, j)
        BY <3>5 DEF j
      <4> DEFINE g == FrameOf(sent, j)
                 h == LaterOf(sent, j)
      <4>5. g \in Seq(Byte) /\ h \in Seq(Byte)
        BY <4>2, <4>3
      <4> HIDE DEF g, h
      <4>6. Len(g \o h) = Len(g) + Len(h) /\ Len(h) \in Nat
        BY <4>5
      <4>7. Len(g) >= 9 /\ Len(g) \in Nat /\ Len(g \o h) = 0
        BY <4>2, <4>4, <3>8 DEF g, h
      <4> QED BY <4>6, <4>7
    <3>12. \A i \in 1 .. Len(Parsed) : Parsed[i] = SentPackets[i]
      BY <2>2, <2>4, <2>5
    <3> QED BY <3>10, <3>11, <3>12, <2>5, <2>6, SeqEqual
  <2> QED BY <2>7, <2>8
<1>2. TypeInv /\ StreamInv => PlainPacketsArrive
  BY <1>1 DEF PlainPacketsArrive
<1> QED BY <1>2, TypesHold, StreamHolds, PTL

\* Whatever a timeout cuts off, every packet that is returned was sent, as long as no frame
\* has an AA behind its first two.
THEOREM NoPhantomPacketEver == Spec => []NoPhantomPacket
<1>1. ASSUME TypeInv, StreamInv, Clean, NEW i \in DOMAIN got
      PROVE  \E j \in DOMAIN sent : Parsed[i] = SentPackets[j]
  <2>1. sent \in Seq(Payloads)
    BY <1>1 DEF TypeInv
  <2>2. Readable
    BY <1>1, <2>1, CleanIsPlain DEF Readable
  <2>3. PICK j \in DOMAIN sent : got[i] = BuildPacket(sent[j])
    BY <1>1, <2>2 DEF StreamInv, GotInv
  <2>4. sent[j] \in Payloads
    BY <2>1
  <2>5. ParsePacket(got[i]) = Packet(sent[j])
    BY <2>3, <2>4, ParseBuilt
  <2> QED BY <2>3, <2>5, <1>1 DEF Parsed, SentPackets
<1>2. TypeInv /\ StreamInv => NoPhantomPacket
  BY <1>1 DEF NoPhantomPacket
<1> QED BY <1>2, TypesHold, StreamHolds, PTL

\* _parse_packet undoes _build_packet, whatever AA and 55 the packet holds.
THEOREM RoundTripAlways == Spec => []RoundTrip
<1>1. TypeInv => RoundTrip
  <2> SUFFICES ASSUME TypeInv, NEW i \in DOMAIN sent PROVE ParsePacket(BuildPacket(sent[i])) = Packet(sent[i])
    BY DEF RoundTrip
  <2>1. sent[i] \in Payloads
    BY DEF TypeInv
  <2> QED BY <2>1, ParseBuilt
<1> QED BY <1>1, TypesHold, PTL

\* A place in a row of sequences is in one of them.
LEMMA PartHolds ==
    ASSUME NEW S, NEW ss \in Seq(Seq(S)), NEW k \in 1 .. Len(FlattenSeq(ss))
    PROVE  \E n \in 1 .. Len(ss) : Upto(ss, n - 1) < k /\ k <= Upto(ss, n)
<1> DEFINE N == Len(ss)
           Holds(m) == k <= Upto(ss, m) => \E n \in 1 .. m : Upto(ss, n - 1) < k /\ k <= Upto(ss, n)
           T == {m \in 0 .. N : Holds(m)}
<1>1. N \in Nat /\ k \in Nat /\ k >= 1
  OBVIOUS
<1>2. Upto(ss, 0) = 0 /\ Upto(ss, N) = Len(FlattenSeq(ss))
  BY UptoEnds
<1>3. 0 \in T
  BY <1>1, <1>2
<1>4. ASSUME NEW m \in 0 .. N - 1, m \in T PROVE m + 1 \in T
  <2> DEFINE j == m + 1
  <2>1. j \in 1 .. N /\ j - 1 = m /\ m \in Nat /\ j \in 0 .. N /\ j \in 1 .. j
    BY <1>1
  <2>2. Upto(ss, m) \in Nat
    <3> HIDE DEF j
    <3>1. Upto(ss, j - 1) \in Nat
      BY <2>1, PartLies
    <3> QED BY <2>1, <3>1
  <2>3. CASE k <= Upto(ss, m)
    <3>1. PICK n \in 1 .. m : Upto(ss, n - 1) < k /\ k <= Upto(ss, n)
      BY <1>4, <2>3
    <3>2. n \in 1 .. j
      BY <2>1
    <3> HIDE DEF j
    <3> QED BY <2>1, <3>1, <3>2 DEF T, Holds
  <2>4. CASE ~(k <= Upto(ss, m))
    <3>1. Upto(ss, j - 1) < k
      BY <1>1, <2>1, <2>2, <2>4
    <3> HIDE DEF j
    <3> QED BY <2>1, <3>1 DEF T, Holds
  <2> QED BY <2>3, <2>4
<1>5. N \in T
  <2>1. 0 .. N \subseteq T
    <3> HIDE DEF T, N
    <3> QED BY <1>1, <1>3, <1>4, BoundedInduction
  <2> QED BY <1>1, <2>1
<1> QED BY <1>2, <1>5

\* The last byte of a frame is the one that its payload ends with.
LEMMA FrameEnds ==
    ASSUME NEW p \in Payloads
    PROVE  /\ BuildPacket(p)[Len(BuildPacket(p))] = RawPacket(p)[Len(p) + 9]
           /\ RawPacket(p)[Len(p) + 9] = AA => p # <<>> /\ Last(p) = AA
<1> DEFINE raw == RawPacket(p)
           n == Len(p) + 9
           m == n - 1
           f == BuildPacket(p)
           s == Stuffed(raw, m)
<1>1. /\ raw \in Seq(Byte) /\ Len(raw) = n /\ Len(p) \in Nat /\ p \in Seq(Byte)
      /\ ToWord(raw, 8) = Cmd /\ SubSeq(raw, 10, n) = p
  <2>1. Len(p) \in Nat /\ p \in Seq(Byte)
    BY ConstantsAssumption
  <2> QED BY <2>1, RawBytes
<1>2. f = Stuffed(raw, n)
  BY <1>1, StuffedNext DEF BuildPacket
<1> HIDE DEF raw, f
<1>3. m \in 0 .. Len(raw) - 1 /\ m \in 0 .. Len(raw) /\ m + 1 = n /\ n \in Nat /\ n \in 1 .. Len(raw)
  BY <1>1
<1>4. Piece(raw, n) = <<raw[n]>> /\ raw[n] \in Byte
  BY <1>1, <1>3 DEF Piece, NeedsStuffing
<1> HIDE DEF n
<1>5. f = s \o <<raw[n]>> /\ s \in Seq(Byte)
  <2> HIDE DEF m
  <2> QED BY <1>1, <1>2, <1>3, <1>4, StuffedNext
<1> HIDE DEF s
<1>6. f[Len(f)] = raw[n]
  BY <1>4, <1>5
<1>7. ASSUME raw[n] = AA PROVE p # <<>> /\ Last(p) = AA
  <2>1. CASE Len(p) = 0
    <3>1. n = 9
      BY <2>1 DEF n
    <3>2. raw[8] * 256 + raw[9] = Cmd /\ raw[8] \in Byte
      <4>1. 8 \in 1 .. Len(raw)
        BY <1>1, <3>1
      <4> QED BY <1>1, <4>1 DEF ToWord
    <3>3. raw[8] * 256 + AA = 20 /\ raw[8] \in 0 .. 255
      BY <1>7, <3>1, <3>2 DEF Cmd, Byte
    <3>4. \A b \in 0 .. 255 : b * 256 + 170 # 20
      OBVIOUS
    <3> QED BY <3>3, <3>4 DEF AA
  <2>2. CASE Len(p) # 0
    <3>1. Len(p) \in 1 .. Len(p) /\ 10 + Len(p) - 1 = n
      BY <1>1, <2>2 DEF n
    <3>2. p[Len(p)] = raw[n]
      <4>1. Len(SubSeq(raw, 10, n)) = n - 9 /\ \A l \in 1 .. n - 9 : SubSeq(raw, 10, n)[l] = raw[10 + l - 1]
        BY <1>1, <1>3 DEF n
      <4>2. Len(p) \in 1 .. n - 9
        BY <1>1, <2>2 DEF n
      <4> QED BY <1>1, <3>1, <4>1, <4>2
    <3> QED BY <1>7, <2>2, <3>2 DEF Last
  <2> QED BY <2>1, <2>2
<1> QED BY <1>6, <1>7 DEF f, raw, n

\* Stuffing leaves no AA AA in the stream but those that frames begin with, or one byte
\* off: at a length of 43520 or more, or behind a payload that ends with an AA.
THEOREM SyncIsAlwaysNearStart == Spec => []SyncIsNearStart
<1>1. ASSUME TypeInv, NEW k \in 1 .. Len(AllFrames) - 1, AllFrames[k] = AA, AllFrames[k + 1] = AA
      PROVE  \E i \in DOMAIN sent :
                \/ k = Ends[i - 1] + 1
                \/ k = Ends[i - 1] + 2 /\ Len(sent[i]) + 5 >= AA * 256
                \/ k = Ends[i - 1] /\ i > 1 /\ sent[i - 1] # <<>> /\ Last(sent[i - 1]) = AA
  <2> DEFINE N == Len(sent)
             all == FlattenSeq(Frames)
  <2>1. sent \in Seq(Payloads) /\ N \in Nat /\ DOMAIN sent = 1 .. N
    BY <1>1 DEF TypeInv
  <2>2. /\ Frames \in Seq(Seq(Byte)) /\ Len(Frames) = N
        /\ \A i \in 1 .. N : sent[i] \in Payloads /\ Frames[i] = BuildPacket(sent[i])
    <3>1. \A i \in 1 .. N : sent[i] \in Payloads
      BY <2>1
    <3>2. \A i \in 1 .. N : BuildPacket(sent[i]) \in Seq(Byte)
      BY <3>1, FrameBytes
    <3>3. Frames = [i \in 1 .. N |-> BuildPacket(sent[i])]
      BY <2>1 DEF Frames
    <3> QED BY <2>1, <3>1, <3>2, <3>3
  <2>3. \A i \in 0 .. N : Ends[i] = Upto(Frames, i)
    BY DEF Ends, Upto
  <2>4. all \in Seq(Byte) /\ Len(all) \in Nat /\ k \in 1 .. Len(all) - 1 /\ all[k] = AA /\ all[k + 1] = AA
    <3>1. all \in Seq(Byte)
      BY <2>2, FlattenRec
    <3> QED BY <1>1, <3>1 DEF AllFrames
  <2>5. k \in 1 .. Len(all) /\ k \in Nat
    BY <2>4
  <2> HIDE DEF N, all
  <2>6. PICK i \in 1 .. N : Upto(Frames, i - 1) < k /\ k <= Upto(Frames, i)
    BY <2>2, <2>5, PartHolds DEF all
  <2> DEFINE c == Upto(Frames, i - 1)
             f == Frames[i]
             p == sent[i]
             l == k - c
  <2>7. /\ c \in Nat /\ Upto(Frames, i) = c + Len(f) /\ Upto(Frames, i) <= Len(all)
        /\ Lies(all, c, f) /\ f = BuildPacket(p) /\ p \in Payloads
    BY <2>2, PartLies DEF all
  <2>8. i - 1 \in 0 .. N /\ Ends[i - 1] = c /\ i \in DOMAIN sent /\ i \in Nat
    BY <2>1, <2>3
  <2> HIDE DEF c, f, p
  <2>9. /\ f \in Seq(Byte) /\ Len(f) \in Nat /\ f[3] = RawPacket(p)[3] /\ Len(p) \in Nat
        /\ \A j \in 3 .. Len(f) - 1 : ~(f[j] = AA /\ f[j + 1] = AA)
    <3>1. 3 \in 1 .. 3
      OBVIOUS
    <3>2. f \in Seq(Byte)
      BY <2>7, FrameBytes
    <3> QED BY <2>7, <3>1, <3>2, FrameBytes, LenProperties
  <2>10. l \in 1 .. Len(f) /\ k = c + l
    BY <2>5, <2>6, <2>7, <2>9 DEF c
  <2> HIDE DEF l
  <2>11. f[l] = AA
    BY <2>4, <2>7, <2>10 DEF Lies
  <2>12. CASE l < Len(f)
    <3>1. f[l + 1] = AA
      <4>1. l + 1 \in 1 .. Len(f) /\ c + (l + 1) = k + 1
        BY <2>7, <2>9, <2>10, <2>12
      <4> QED BY <2>4, <2>7, <4>1 DEF Lies
    <3>2. l \in {1, 2}
      <4>1. l \notin 3 .. Len(f) - 1
        BY <2>9, <2>11, <3>1
      <4> QED BY <2>9, <2>10, <2>12, <4>1
    <3>3. CASE l = 1
      BY <2>8, <2>10, <3>3
    <3>4. CASE l = 2
      <4>1. f[3] = AA
        BY <3>1, <3>4
      <4>2. (Len(p) + 5) \div 256 = AA
        BY <2>7, <2>9, <4>1, RawBytes
      <4>3. Len(p) + 5 >= AA * 256
        <5> DEFINE n == Len(p) + 5
        <5>1. n \in Nat /\ n \div 256 = AA /\ AA \in Nat
          BY <2>9, <4>2, ByteValues
        <5> HIDE DEF n
        <5>2. n >= (n \div 256) * 256
          BY <5>1, SMT
        <5> QED BY <5>1, <5>2 DEF n
      <4> QED BY <2>8, <2>10, <3>4, <4>3 DEF p
    <3> QED BY <3>2, <3>3, <3>4
  <2>13. CASE ~(l < Len(f))
    <3> DEFINE j == i + 1
    <3>1. l = Len(f) /\ k = Upto(Frames, i)
      BY <2>7, <2>9, <2>10, <2>13
    <3>2. i # N
      <4>1. Upto(Frames, N) = Len(all)
        BY <2>2, UptoEnds DEF all
      <4> QED BY <2>4, <3>1, <4>1
    <3>3. j \in 1 .. N /\ j - 1 = i /\ i \in 0 .. N /\ j > 1
      BY <2>1, <3>2
    <3>4. j \in DOMAIN sent /\ k = Ends[j - 1]
      BY <2>1, <2>3, <3>1, <3>3
    <3>5. p # <<>> /\ Last(p) = AA
      <4>1. f[Len(f)] = AA
        BY <2>11, <3>1
      <4> QED BY <2>7, <4>1, FrameEnds
    <3>6. sent[j - 1] # <<>> /\ Last(sent[j - 1]) = AA
      BY <3>3, <3>5 DEF p
    <3> HIDE DEF j
    <3> QED BY <3>3, <3>4, <3>6
  <2> QED BY <2>12, <2>13
<1>2. TypeInv => SyncIsNearStart
  BY <1>1 DEF SyncIsNearStart
<1> QED BY <1>2, TypesHold, PTL

-----------------------------------------------------------------------------
(* What BLE makes of all that it has collected.                               *)

SyncAt(raw, i) == raw[i] = AA /\ raw[i + 1] = AA
TotalAt(raw, i) == FrameLength(ToWord(raw, i + 2))
FoundAt(raw, i) ==
    IF SyncAt(raw, i) /\ i - 1 + TotalAt(raw, i) <= Len(raw)
    THEN <<ParsePacket(SubSeq(raw, i, i - 1 + TotalAt(raw, i)))>> ELSE <<>>
NextPlace(raw, i) == IF SyncAt(raw, i) THEN i + TotalAt(raw, i) ELSE i + 1
Parts(raw) == {ParsePacket(SubSeq(raw, x[1], x[2])) : x \in (Nat \ {0}) \X Nat}

LEMMA FoundType ==
    ASSUME NEW raw \in Seq(Byte), NEW i \in Nat \ {0}
    PROVE  /\ i <= Len(raw) - 4 => /\ TotalAt(raw, i) \in Nat /\ TotalAt(raw, i) >= 4
                                   /\ FoundAt(raw, i) \in Seq(Parts(raw))
                                   /\ NextPlace(raw, i) \in Nat \ {0} /\ NextPlace(raw, i) > i
<1> SUFFICES ASSUME i <= Len(raw) - 4
             PROVE  /\ TotalAt(raw, i) \in Nat /\ TotalAt(raw, i) >= 4
                    /\ FoundAt(raw, i) \in Seq(Parts(raw))
                    /\ NextPlace(raw, i) \in Nat \ {0} /\ NextPlace(raw, i) > i
  OBVIOUS
<1> DEFINE t == TotalAt(raw, i)
<1>1. t \in Nat /\ t >= 4
  <2>1. i + 2 \in 1 .. Len(raw) /\ i + 2 + 1 \in 1 .. Len(raw)
    OBVIOUS
  <2>2. raw[i + 2] \in Nat /\ raw[i + 2 + 1] \in Nat
    <3>1. raw[i + 2] \in Byte /\ raw[i + 2 + 1] \in Byte
      BY <2>1
    <3> QED BY <3>1, ByteValues
  <2>3. \A a, b \in Nat : 4 + (a * 256 + b) \in Nat /\ 4 + (a * 256 + b) >= 4
    BY SMT
  <2> QED BY <2>2, <2>3 DEF TotalAt, FrameLength, ToWord
<1> HIDE DEF t
<1>2. NextPlace(raw, i) \in Nat \ {0} /\ NextPlace(raw, i) > i
  BY <1>1 DEF NextPlace, t
<1>3. FoundAt(raw, i) \in Seq(Parts(raw))
  <2> DEFINE e == i - 1 + t
             x == ParsePacket(SubSeq(raw, i, e))
  <2>1. e \in Nat
    BY <1>1
  <2> HIDE DEF e
  <2>2. x \in Parts(raw)
    <3>1. <<i, e>> \in (Nat \ {0}) \X Nat /\ <<i, e>>[1] = i /\ <<i, e>>[2] = e
      BY <2>1
    <3> QED BY <3>1 DEF Parts
  <2> HIDE DEF x
  <2>3. <<x>> \in Seq(Parts(raw)) /\ <<>> \in Seq(Parts(raw))
    BY <2>2
  <2>4. FoundAt(raw, i) = <<x>> \/ FoundAt(raw, i) = <<>>
    BY DEF FoundAt, x, e, t
  <2> QED BY <2>3, <2>4
<1> QED BY <1>1, <1>2, <1>3 DEF t

\* _parse_all_packets as it goes from one place to the next.
LEMMA ParseAllRec ==
    ASSUME NEW raw \in Seq(Byte), NEW i \in Nat \ {0}
    PROVE  /\ ParseAllFrom(raw)[i] \in Seq(Parts(raw))
           /\ ParseAllFrom(raw)[i] =
                IF i > Len(raw) - 4 THEN <<>>
                ELSE FoundAt(raw, i) \o ParseAllFrom(raw)[NextPlace(raw, i)]
<1> DEFINE T == Seq(Parts(raw))
           N == Len(raw) - 4
           D == Nat \ {0}
           next == [j \in D |-> IF j > N THEN j + 1 ELSE NextPlace(raw, j)]
           make == [x \in D \X T |-> IF x[1] > N THEN <<>> ELSE FoundAt(raw, x[1]) \o x[2]]
           Step(f, j) ==
               IF j > N THEN <<>>
               ELSE IF raw[j] # AA \/ raw[j + 1] # AA THEN f[j + 1]
               ELSE LET total == FrameLength(ToWord(raw, j + 2)) IN
                    (IF j - 1 + total <= Len(raw)
                     THEN <<ParsePacket(SubSeq(raw, j, j - 1 + total))>> ELSE <<>>)
                    \o f[j + total]
           from == CHOOSE f : f = [j \in D |-> Step(f, j)]
<1>1. N \in Int /\ <<>> \in T /\ D = Nat \ {0}
  OBVIOUS
<1>2. ParseAllFrom(raw) = from
  BY DEF ParseAllFrom
<1>3. \A j \in D : j <= N => /\ FoundAt(raw, j) \in T /\ NextPlace(raw, j) \in D
                             /\ NextPlace(raw, j) > j
  <2> HIDE DEF N
  <2> QED BY FoundType DEF N
<1>4. GoesOn(next, N)
  <2> SUFFICES ASSUME NEW j \in D PROVE next[j] \in D /\ (j <= N => next[j] > j)
    BY <1>1 DEF GoesOn
  <2> HIDE DEF N
  <2>1. CASE j > N
    <3>1. next[j] = j + 1 /\ j + 1 \in D /\ ~(j <= N)
      BY <2>1, <1>1
    <3> QED BY <3>1
  <2>2. CASE ~(j > N)
    <3>1. j <= N
      BY <2>2, <1>1
    <3>2. next[j] = NextPlace(raw, j)
      BY <2>2
    <3> QED BY <3>1, <3>2, <1>3
  <2> QED BY <2>1, <2>2
<1>5. \A j \in D : \A t \in T :
         /\ make[<<j, t>>] = IF j > N THEN <<>> ELSE FoundAt(raw, j) \o t
         /\ make[<<j, t>>] \in T
  <2> SUFFICES ASSUME NEW j \in D, NEW t \in T
               PROVE  /\ make[<<j, t>>] = IF j > N THEN <<>> ELSE FoundAt(raw, j) \o t
                      /\ make[<<j, t>>] \in T
    OBVIOUS
  <2> HIDE DEF N
  <2>1. make[<<j, t>>] = IF j > N THEN <<>> ELSE FoundAt(raw, j) \o t
    OBVIOUS
  <2>2. j > N \/ j <= N
    BY <1>1
  <2>3. ASSUME j <= N PROVE FoundAt(raw, j) \o t \in T
    <3>1. FoundAt(raw, j) \in T
      BY <2>3, <1>3
    <3> QED BY <3>1
  <2> HIDE DEF make
  <2> QED BY <1>1, <2>1, <2>2, <2>3
<1>6. PICK f : Forward(f, T, <<>>, N, next, make)
  <2>1. Makes(make, Nat \ {0}, T)
    BY <1>5 DEF Makes
  <2> HIDE DEF T, N, next, make
  <2> QED BY <1>1, <1>4, <2>1, ForwardRecursion
<1>7. f \in [D -> T] /\ \A j \in D : f[j] = IF j > N THEN <<>> ELSE make[<<j, f[next[j]]>>]
  <2> HIDE DEF T, N, next, make
  <2> QED BY <1>6 DEF Forward
<1>8. \A j \in D : f[j] = IF j > N THEN <<>> ELSE FoundAt(raw, j) \o f[NextPlace(raw, j)]
  <2> SUFFICES ASSUME NEW j \in D, ~(j > N) PROVE f[j] = FoundAt(raw, j) \o f[NextPlace(raw, j)]
    BY <1>7
  <2> HIDE DEF N
  <2>1. next[j] = NextPlace(raw, j) /\ next[j] \in D
    BY <1>1, <1>3
  <2>2. f[next[j]] \in T
    BY <2>1, <1>7
  <2>3. f[j] = make[<<j, f[next[j]]>>]
    <3> HIDE DEF make, next
    <3> QED BY <1>7
  <2>4. make[<<j, f[next[j]]>>] = FoundAt(raw, j) \o f[next[j]]
    <3> HIDE DEF make, next
    <3> QED BY <2>2, <1>5
  <2> HIDE DEF next, make
  <2> QED BY <2>1, <2>3, <2>4
<1>9. \A g : (\A j \in D : j <= N => g[j + 1] \in T) => \A j \in D :
         Step(g, j) = IF j > N THEN <<>> ELSE FoundAt(raw, j) \o g[NextPlace(raw, j)]
  <2> SUFFICES ASSUME NEW g, \A j \in D : j <= N => g[j + 1] \in T, NEW j \in D
               PROVE  Step(g, j) = IF j > N THEN <<>> ELSE FoundAt(raw, j) \o g[NextPlace(raw, j)]
    OBVIOUS
  <2> HIDE DEF N
  <2>1. CASE j > N
    BY <2>1
  <2>2. CASE ~(j > N) /\ SyncAt(raw, j)
    BY <2>2 DEF SyncAt, FoundAt, NextPlace, TotalAt
  <2>3. CASE ~(j > N) /\ ~SyncAt(raw, j)
    <3>1. Step(g, j) = g[j + 1] /\ FoundAt(raw, j) = <<>> /\ NextPlace(raw, j) = j + 1
      BY <2>3 DEF SyncAt, FoundAt, NextPlace
    <3>2. g[j + 1] \in T
      BY <2>3, <1>1
    <3>3. <<>> \o g[j + 1] = g[j + 1]
      BY <3>2
    <3> HIDE DEF Step
    <3> QED BY <2>3, <3>1, <3>3
  <2> QED BY <2>1, <2>2, <2>3
<1>10. f = [j \in D |-> Step(f, j)]
  <2>1. \A j \in D : j <= N => f[j + 1] \in T
    <3>1. \A j \in D : j + 1 \in D
      OBVIOUS
    <3> HIDE DEF D, T, N
    <3> QED BY <3>1, <1>7
  <2>2. \A j \in D : f[j] = Step(f, j)
    <3> HIDE DEF Step, D, T, N
    <3> QED BY <2>1, <1>8, <1>9
  <2> HIDE DEF Step
  <2> QED BY <2>2, <1>7
<1>11. from = [j \in D |-> Step(from, j)]
  <2> HIDE DEF Step
  <2> QED BY <1>10
<1> HIDE DEF from
\* There is but one such function.
<1> DEFINE R == {n \in Nat : \A j \in D : j > N - n => from[j] = f[j]}
<1>12. Nat \subseteq R
  <2>1. 0 \in R
    <3> SUFFICES ASSUME NEW j \in D, j > N - 0 PROVE from[j] = f[j]
      OBVIOUS
    <3>1. j > N
      BY <1>1
    <3>2. from[j] = Step(from, j) /\ f[j] = Step(f, j)
      <4> HIDE DEF Step
      <4> QED BY <1>10, <1>11
    <3> QED BY <3>1, <3>2
  <2>2. ASSUME NEW n \in Nat, n \in R PROVE n + 1 \in R
    <3>1. \A j \in D : j > N - n => from[j] = f[j]
      BY <2>2
    <3> SUFFICES ASSUME NEW j \in D, j > N - (n + 1) PROVE from[j] = f[j]
      OBVIOUS
    <3> HIDE DEF N, R
    <3>2. from[j] = Step(from, j) /\ f[j] = Step(f, j)
      <4> HIDE DEF Step
      <4> QED BY <1>10, <1>11
    <3>3. j > N => Step(from, j) = Step(f, j)
      OBVIOUS
    <3>4. ASSUME ~(j > N) PROVE Step(from, j) = Step(f, j)
      <4>1. j <= N /\ j + 1 \in D /\ j + 1 > N - n
        BY <3>4, <1>1
      <4>2. from[j + 1] = f[j + 1]
        BY <3>1, <4>1
      <4>3. SyncAt(raw, j) => from[j + TotalAt(raw, j)] = f[j + TotalAt(raw, j)]
        <5> SUFFICES ASSUME SyncAt(raw, j) PROVE from[j + TotalAt(raw, j)] = f[j + TotalAt(raw, j)]
          OBVIOUS
        <5> DEFINE i2 == j + TotalAt(raw, j)
        <5>1. i2 = NextPlace(raw, j)
          BY DEF NextPlace
        <5>2. i2 \in D /\ i2 > j
          BY <5>1, <4>1, <1>3
        <5> HIDE DEF i2
        <5>3. i2 > N - n
          BY <5>2, <4>1, <1>1
        <5>4. from[i2] = f[i2]
          BY <3>1, <5>2, <5>3
        <5> QED BY <5>4 DEF i2
      <4> HIDE DEF N
      <4>4. CASE SyncAt(raw, j)
        BY <3>4, <4>3, <4>4 DEF SyncAt, TotalAt
      <4>5. CASE ~SyncAt(raw, j)
        BY <3>4, <4>2, <4>5 DEF SyncAt
      <4> QED BY <4>4, <4>5
    <3> HIDE DEF Step
    <3> QED BY <3>2, <3>3, <3>4
  <2> HIDE DEF R
  <2> QED BY <2>1, <2>2, SetInduction
<1>13. \A j \in D : from[j] = f[j]
  <2> SUFFICES ASSUME NEW j \in D PROVE from[j] = f[j]
    OBVIOUS
  <2>1. \E n \in Nat : j > N - n
    <3>1. N \in Nat \/ j > N - 0
      BY <1>1
    <3>2. N \in Nat => j > N - N
      OBVIOUS
    <3> HIDE DEF N
    <3> QED BY <3>1, <3>2
  <2> HIDE DEF N
  <2> QED BY <2>1, <1>12
<1>14. i \in D /\ (i <= N => NextPlace(raw, i) \in D) /\ (i > N \/ i <= N)
  <2> HIDE DEF N
  <2> QED BY <1>1, <1>3
<1> HIDE DEF N, T, D
<1>15. from[i] = f[i] /\ f[i] \in T /\ (i <= N => from[NextPlace(raw, i)] = f[NextPlace(raw, i)])
  BY <1>7, <1>13, <1>14
<1>16. from[i] = IF i > N THEN <<>> ELSE FoundAt(raw, i) \o from[NextPlace(raw, i)]
  BY <1>8, <1>14, <1>15
<1> QED BY <1>2, <1>15, <1>16 DEF T, N

\* The packets from the m-th on.
LaterPackets(s, m) == [i \in 1 .. Len(s) - m |-> Packet(s[m + i])]

\* A plain frame that lies at a place is found there, and the next one after it.
LEMMA FrameFound ==
    ASSUME NEW p \in Payloads, BuildPacket(p) = RawPacket(p), RawPacket(p)[3] # Esc,
           NEW raw \in Seq(Byte), NEW c \in 0 .. Len(raw), NEW l \in Seq(Byte),
           Drop(raw, c) = BuildPacket(p) \o l
    PROVE  \E d \in 0 .. Len(raw) :
              /\ Drop(raw, d) = l
              /\ ParseAllFrom(raw)[c + 1] = <<Packet(p)>> \o ParseAllFrom(raw)[d + 1]
<1> DEFINE f == BuildPacket(p)
           n == Len(f)
           d == c + n
           r == Drop(raw, c)
<1>1. /\ f \in Seq(Byte) /\ n \in Nat /\ n >= 9
      /\ f[1] = AA /\ f[2] = AA /\ f[3] * 256 + f[4] = n - 4
  BY PlainFrame
<1>2. ParsePacket(f) = Packet(p)
  BY ParseBuilt
<1>3. r = f \o l
  OBVIOUS
<1>4. /\ r \in Seq(Byte) /\ Len(r) = Len(raw) - c /\ \A i \in 1 .. Len(raw) - c : r[i] = raw[c + i]
  BY DropType
<1> HIDE DEF f, r
<1>5. Len(r) = n + Len(l) /\ \A i \in 1 .. n : r[i] = f[i]
  BY <1>1, <1>3, ConcatParts DEF n
<1>6. Len(l) \in Nat /\ Len(raw) \in Nat /\ c \in Nat
  OBVIOUS
<1> HIDE DEF n
<1>7. d \in 0 .. Len(raw) /\ c + 1 \in Nat \ {0} /\ ~(c + 1 > Len(raw) - 4) /\ n \in 0 .. Len(raw) - c
  BY <1>1, <1>4, <1>5, <1>6, SMTT(30)
<1>8. \A i \in 1 .. 4 : raw[c + i] = f[i]
  <2> SUFFICES ASSUME NEW i \in 1 .. 4 PROVE raw[c + i] = f[i]
    OBVIOUS
  <2>1. i \in 1 .. n /\ i \in 1 .. Len(raw) - c
    BY <1>1, <1>4, <1>5, <1>6
  <2> QED BY <2>1, <1>4, <1>5
<1>9. SyncAt(raw, c + 1) /\ TotalAt(raw, c + 1) = n
  <2>1. raw[c + 1] = f[1] /\ raw[c + 2] = f[2] /\ raw[c + 3] = f[3] /\ raw[c + 4] = f[4]
    BY <1>8
  <2>2. c + 1 + 1 = c + 2 /\ c + 1 + 2 = c + 3 /\ c + 3 + 1 = c + 4
    BY <1>6
  <2>3. SyncAt(raw, c + 1)
    BY <2>1, <2>2, <1>1 DEF SyncAt
  <2>4. ToWord(raw, c + 1 + 2) = f[3] * 256 + f[4]
    BY <2>1, <2>2 DEF ToWord
  <2>5. TotalAt(raw, c + 1) = 4 + (n - 4)
    BY <2>4, <1>1 DEF TotalAt, FrameLength
  <2> QED BY <2>3, <2>5, <1>1
<1>10. /\ SubSeq(raw, c + 1, c + n) = f /\ Drop(raw, c + n) = l
  <2>1. Drop(r, n) = Drop(raw, c + n) /\ SubSeq(r, 1, n) = SubSeq(raw, c + 1, c + n)
    BY <1>7, DropDrop DEF r
  <2>2. n \in 0 .. Len(f) /\ n = Len(f)
    BY <1>1 DEF n
  <2>3. SubSeq(f \o l, 1, n) = SubSeq(f, 1, n) /\ Drop(f \o l, n) = Drop(f, n) \o l
    BY <1>1, <2>2, PartOfConcat
  <2>4. SubSeq(f, 1, n) = f /\ Drop(f, n) \o l = l
    <3>1. SubSeq(f, 1, Len(f)) = f /\ Drop(f, Len(f)) = <<>>
      BY <1>1 DEF Drop
    <3>2. <<>> \o l = l
      OBVIOUS
    <3> QED BY <2>2, <3>1, <3>2
  <2> QED BY <2>1, <2>3, <2>4, <1>3
<1>11. FoundAt(raw, c + 1) = <<Packet(p)>> /\ NextPlace(raw, c + 1) = d + 1
  <2>1. c + 1 - 1 + n = c + n /\ c + n <= Len(raw) /\ c + 1 + n = d + 1
    BY <1>1, <1>6, <1>7
  <2>2. NextPlace(raw, c + 1) = d + 1
    BY <2>1, <1>9 DEF NextPlace
  <2>3. FoundAt(raw, c + 1) = <<ParsePacket(SubSeq(raw, c + 1, c + n))>>
    BY <2>1, <1>9 DEF FoundAt
  <2> QED BY <2>2, <2>3, <1>2, <1>10
<1>12. ParseAllFrom(raw)[c + 1] = FoundAt(raw, c + 1) \o ParseAllFrom(raw)[NextPlace(raw, c + 1)]
  BY <1>7, ParseAllRec
<1> QED BY <1>7, <1>10, <1>11, <1>12

\* So all the packets are, from any frame on.
LEMMA AllFound ==
    ASSUME NEW s \in Seq(Payloads), NEW raw \in Seq(Byte),
           \A i \in 1 .. Len(s) : BuildPacket(s[i]) = RawPacket(s[i]) /\ RawPacket(s[i])[3] # Esc,
           NEW m \in 0 .. Len(s), NEW c \in 0 .. Len(raw), Drop(raw, c) = LaterOf(s, m)
    PROVE  ParseAllFrom(raw)[c + 1] = LaterPackets(s, m)
<1> DEFINE N == Len(s)
           Fits(k) == \A d \in 0 .. Len(raw) :
                         Drop(raw, d) = LaterOf(s, k) => ParseAllFrom(raw)[d + 1] = LaterPackets(s, k)
           T == {j \in 0 .. N : Fits(N - j)}
<1>1. N \in Nat /\ Len(raw) \in Nat
  OBVIOUS
<1>2. Fits(N)
  <2> SUFFICES ASSUME NEW d \in 0 .. Len(raw), Drop(raw, d) = LaterOf(s, N)
               PROVE  ParseAllFrom(raw)[d + 1] = LaterPackets(s, N)
    OBVIOUS
  <2>1. Drop(raw, d) = <<>>
    <3>1. N \in 0 .. Len(s)
      BY <1>1
    <3> QED BY <3>1, LaterFacts
  <2>2. Len(Drop(raw, d)) = Len(raw) - d
    BY DropType
  <2>3. d = Len(raw)
    <3>1. Len(raw) - d = 0
      BY <2>1, <2>2
    <3> QED BY <3>1, <1>1
  <2>4. d + 1 \in Nat \ {0} /\ d + 1 > Len(raw) - 4
    BY <2>3, <1>1
  <2>5. ParseAllFrom(raw)[d + 1] = <<>>
    BY <2>4, ParseAllRec
  <2>6. LaterPackets(s, N) = <<>>
    BY <1>1 DEF LaterPackets
  <2> QED BY <2>5, <2>6
<1>3. ASSUME NEW k \in 0 .. N - 1, Fits(k + 1) PROVE Fits(k)
  <2> DEFINE j == k + 1
             p == s[j]
             l == LaterOf(s, j)
  <2>1. k \in 0 .. Len(s) /\ k < Len(s) /\ j \in 0 .. Len(s) /\ j \in 1 .. Len(s) /\ j # 0
    BY <1>1
  <2>2. LaterOf(s, k) = FrameOf(s, j) \o l /\ l \in Seq(Byte)
    BY <2>1, LaterFacts
  <2>3. FrameOf(s, j) = BuildPacket(p) /\ p \in Payloads /\ BuildPacket(p) = RawPacket(p) /\ RawPacket(p)[3] # Esc
    BY <2>1 DEF FrameOf
  <2> SUFFICES ASSUME NEW d \in 0 .. Len(raw), Drop(raw, d) = LaterOf(s, k)
               PROVE  ParseAllFrom(raw)[d + 1] = LaterPackets(s, k)
    OBVIOUS
  <2> HIDE DEF l, p
  <2>4. PICK e \in 0 .. Len(raw) :
              /\ Drop(raw, e) = l
              /\ ParseAllFrom(raw)[d + 1] = <<Packet(p)>> \o ParseAllFrom(raw)[e + 1]
    <3>1. Drop(raw, d) = BuildPacket(p) \o l
      BY <2>2, <2>3
    <3> QED BY <2>2, <2>3, <3>1, FrameFound
  <2>5. ParseAllFrom(raw)[e + 1] = LaterPackets(s, j)
    BY <2>4, <1>3 DEF l
  <2>6. LaterPackets(s, k) = <<Packet(p)>> \o LaterPackets(s, j)
    <3> DEFINE S == {Packet(s[i]) : i \in 1 .. Len(s)}
               a == LaterPackets(s, k)
               q == LaterPackets(s, j)
    <3>1. /\ q \in Seq(S) /\ Len(q) = N - j /\ \A i \in 1 .. N - j : q[i] = Packet(s[j + i])
      <4>1. N - j \in Nat
        BY <2>1
      <4>2. \A i \in 1 .. N - j : j + i \in 1 .. Len(s)
        BY <2>1
      <4>3. \A i \in 1 .. N - j : Packet(s[j + i]) \in S
        BY <4>2
      <4> HIDE DEF S, j
      <4> QED BY <4>1, <4>3 DEF LaterPackets
    <3>2. /\ a \in Seq(S) /\ Len(a) = N - k /\ \A i \in 1 .. N - k : a[i] = Packet(s[k + i])
      <4>1. N - k \in Nat
        BY <2>1
      <4>2. \A i \in 1 .. N - k : k + i \in 1 .. Len(s)
        BY <2>1
      <4>3. \A i \in 1 .. N - k : Packet(s[k + i]) \in S
        BY <4>2
      <4> HIDE DEF S
      <4> QED BY <4>1, <4>3 DEF LaterPackets
    <3>3. Packet(p) \in S
      BY <2>1 DEF p
    <3> HIDE DEF S, a, q
    <3> DEFINE h == <<Packet(p)>>
               b == h \o q
    <3>4. h \in Seq(S) /\ Len(h) = 1 /\ h[1] = Packet(p)
      BY <3>3
    <3> HIDE DEF h
    <3>5. /\ b \in Seq(S) /\ Len(b) = Len(h) + Len(q)
          /\ \A i \in 1 .. Len(h) : b[i] = h[i]
          /\ \A i \in 1 .. Len(q) : b[Len(h) + i] = q[i]
      <4>1. h \in Seq(S) /\ q \in Seq(S)
        BY <3>1, <3>4
      <4> QED BY <4>1, ConcatParts
    <3> HIDE DEF b
    <3>6. Len(b) = N - k
      BY <3>1, <3>4, <3>5, <1>1
    <3>7. ASSUME NEW i \in 1 .. N - k PROVE b[i] = a[i]
      <4>1. CASE i = 1
        <5>1. b[1] = Packet(s[k + 1])
          BY <3>4, <3>5 DEF p
        <5> QED BY <5>1, <4>1, <3>2, <3>7
      <4>2. CASE i # 1
        <5>1. i - 1 \in 1 .. N - j /\ 1 + (i - 1) = i /\ j + (i - 1) = k + i
          BY <4>2, <3>7, <1>1
        <5>2. b[i] = q[i - 1]
          <6>1. b[1 + (i - 1)] = q[i - 1]
            BY <5>1, <3>1, <3>4, <3>5
          <6> QED BY <6>1, <5>1
        <5>3. q[i - 1] = Packet(s[k + i])
          <6>1. q[i - 1] = Packet(s[j + (i - 1)])
            BY <5>1, <3>1
          <6> QED BY <6>1, <5>1
        <5> QED BY <5>2, <5>3, <3>2, <3>7
      <4> QED BY <4>1, <4>2
    <3>8. a = b
      <4>1. a \in Seq(S) /\ b \in Seq(S) /\ Len(a) = Len(b)
        BY <3>2, <3>5, <3>6
      <4>2. \A i \in 1 .. Len(a) : a[i] = b[i]
        BY <3>2, <3>7
      <4> QED BY <4>1, <4>2, SeqEqual
    <3> QED BY <3>8 DEF a, b, h, q
  <2> QED BY <2>4, <2>5, <2>6
<1>4. 0 .. N \subseteq T
  <2>1. 0 \in T
    <3>1. N - 0 = N /\ 0 \in 0 .. N
      BY <1>1
    <3> HIDE DEF Fits
    <3> QED BY <1>2, <3>1
  <2>2. ASSUME NEW j \in 0 .. N - 1, j \in T PROVE j + 1 \in T
    <3> DEFINE k == N - (j + 1)
    <3>1. k \in 0 .. N - 1 /\ k + 1 = N - j /\ j + 1 \in 0 .. N
      BY <1>1
    <3>2. Fits(k + 1)
      <4>1. Fits(N - j)
        BY <2>2
      <4> HIDE DEF Fits
      <4> QED BY <4>1, <3>1
    <3>3. Fits(k)
      <4> HIDE DEF Fits, k
      <4> QED BY <3>1, <3>2, <1>3
    <3> HIDE DEF Fits
    <3> QED BY <3>1, <3>3
  <2> HIDE DEF T
  <2> QED BY <2>1, <2>2, <1>1, BoundedInduction
<1>5. Fits(m)
  <2>1. N - m \in 0 .. N /\ N - (N - m) = m
    BY <1>1
  <2>2. N - m \in T
    <3> HIDE DEF T
    <3> QED BY <1>4, <2>1
  <2>3. Fits(N - (N - m))
    BY <2>2
  <2> HIDE DEF Fits
  <2> QED BY <2>1, <2>3
<1> QED BY <1>5

\* _parse_all_packets finds every plain packet in what BLE has collected, and in order.
THEOREM BleFindsEveryPacket == Spec => []BleFindsPackets
<1>1. ASSUME TypeInv, Plain PROVE ParseAllPackets(AllFrames) = SentPackets
  <2>1. sent \in Seq(Payloads) /\ DOMAIN sent = 1 .. Len(sent) /\ Len(sent) \in Nat
    BY <1>1, LenProperties DEF TypeInv
  <2>2. PICK s : s = sent
    OBVIOUS
  <2>3. 0 \in 0 .. Len(s) /\ s \in Seq(Payloads)
    BY <2>1, <2>2
  <2>4. LaterOf(s, 0) = AllFrames
    <3>1. Len(s) - 0 = Len(s) /\ \A i \in 1 .. Len(s) : 0 + i = i
      BY <2>1, <2>2
    <3>2. LaterFrames(s, 0) = [i \in DOMAIN sent |-> BuildPacket(sent[i])]
      BY <3>1, <2>1, <2>2 DEF LaterFrames
    <3> QED BY <3>2 DEF LaterOf, AllFrames, Frames
  <2>5. LaterPackets(s, 0) = SentPackets
    <3>1. Len(s) - 0 = Len(s) /\ \A i \in 1 .. Len(s) : 0 + i = i
      BY <2>1, <2>2
    <3> QED BY <3>1, <2>1, <2>2 DEF LaterPackets, SentPackets
  <2>6. PICK raw : raw = AllFrames
    OBVIOUS
  <2>7. raw \in Seq(Byte)
    BY <2>3, <2>4, <2>6, LaterFacts
  <2>8. 0 \in 0 .. Len(raw) /\ Drop(raw, 0) = LaterOf(s, 0)
    <3>1. Len(raw) \in Nat /\ SubSeq(raw, 0 + 1, Len(raw)) = raw
      BY <2>7
    <3> QED BY <3>1, <2>4, <2>6 DEF Drop
  <2>9. \A i \in 1 .. Len(s) : BuildPacket(s[i]) = RawPacket(s[i]) /\ RawPacket(s[i])[3] # Esc
    BY <1>1, <2>1, <2>2 DEF Plain
  <2>10. ParseAllFrom(raw)[0 + 1] = LaterPackets(s, 0)
    BY <2>3, <2>7, <2>8, <2>9, AllFound
  <2> QED BY <2>5, <2>6, <2>10 DEF ParseAllPackets
<1>2. TypeInv => BleFindsPackets
  BY <1>1 DEF BleFindsPackets
<1> QED BY <1>2, TypesHold, PTL
=============================================================================
