---------------------------- MODULE Status_proof ----------------------------
(* Proofs about what a read makes of the packets that come, for any reports   *)
(* of the device and any bounds: fields come back as they were written, and   *)
(* the dictionary made of them holds what was reported.                       *)
EXTENDS Status, Recursion

-----------------------------------------------------------------------------
(* Bytes as numbers.                                                          *)

Numbers(s) == CHOOSE f : f = [n \in 0 .. Len(s) |-> IF n = 0 THEN 0 ELSE f[n - 1] * 256 + s[n]]

LEMMA NumbersRec ==
    ASSUME NEW s \in Seq(Byte)
    PROVE  /\ FromBytes(s) = Numbers(s)[Len(s)]
           /\ Numbers(s)[0] = 0
           /\ \A n \in 1 .. Len(s) : Numbers(s)[n] = Numbers(s)[n - 1] * 256 + s[n]
           /\ \A n \in 0 .. Len(s) : Numbers(s)[n] \in Nat
<1> DEFINE N == Len(s)
           Fits1(f, m) == f = [n \in 0 .. m |-> IF n = 0 THEN 0 ELSE f[n - 1] * 256 + s[n]]
           S == {m \in 0 .. N : \E f : Fits1(f, m)}
<1>1. N \in Nat
  OBVIOUS
<1>2. 0 \in S
  <2> DEFINE f == [n \in 0 .. 0 |-> 0]
  <2>1. Fits1(f, 0)
    OBVIOUS
  <2> HIDE DEF f, Fits1
  <2> QED BY <2>1, <1>1
<1>3. \A m \in 0 .. N - 1 : m \in S => m + 1 \in S
  <2> SUFFICES ASSUME NEW m \in 0 .. N - 1, m \in S PROVE m + 1 \in S
    OBVIOUS
  <2>1. PICK f : Fits1(f, m)
    OBVIOUS
  <2> DEFINE g == [n \in 0 .. m + 1 |-> IF n <= m THEN f[n] ELSE f[m] * 256 + s[m + 1]]
  <2>2. m \in Nat /\ m + 1 \in 0 .. N
    BY <1>1
  <2>3. \A n \in 0 .. m + 1 : g[n] = IF n = 0 THEN 0 ELSE g[n - 1] * 256 + s[n]
    <3> SUFFICES ASSUME NEW n \in 0 .. m + 1
                 PROVE  g[n] = IF n = 0 THEN 0 ELSE g[n - 1] * 256 + s[n]
      OBVIOUS
    <3>1. \A k \in 0 .. m : g[k] = f[k]
      BY <2>2
    <3>2. \A k \in 0 .. m : f[k] = IF k = 0 THEN 0 ELSE f[k - 1] * 256 + s[k]
      BY <2>1
    <3>3. CASE n <= m
      <4>1. n \in 0 .. m /\ (n # 0 => n - 1 \in 0 .. m)
        BY <3>3, <2>2
      <4>2. g[n] = f[n] /\ (n # 0 => g[n - 1] = f[n - 1])
        BY <3>1, <4>1
      <4>3. f[n] = IF n = 0 THEN 0 ELSE f[n - 1] * 256 + s[n]
        BY <3>2, <4>1
      <4> HIDE DEF g
      <4>4. CASE n = 0
        BY <4>2, <4>3, <4>4
      <4>5. CASE n # 0
        <5>1. g[n] = f[n - 1] * 256 + s[n]
          BY <4>2, <4>3, <4>5
        <5> QED BY <4>2, <4>5, <5>1
      <4> QED BY <4>4, <4>5
    <3>4. CASE ~(n <= m)
      <4>1. n = m + 1 /\ n - 1 = m /\ m \in 0 .. m /\ n # 0 /\ n \in 0 .. m + 1
        BY <3>4, <2>2
      <4>2. g[n] = f[m] * 256 + s[m + 1]
        BY <3>4
      <4>3. g[m] = f[m]
        BY <3>1, <4>1
      <4> HIDE DEF g
      <4> QED BY <4>1, <4>2, <4>3
    <3> QED BY <3>3, <3>4
  <2>4. g = [n \in 0 .. m + 1 |-> g[n]]
    OBVIOUS
  <2> HIDE DEF g
  <2>5. Fits1(g, m + 1)
    BY <2>3, <2>4
  <2> HIDE DEF Fits1
  <2> QED BY <2>2, <2>5
<1>4. N \in S
  <2> HIDE DEF S
  <2>1. 0 .. N \subseteq S
    BY <1>1, <1>2, <1>3, BoundedInduction
  <2> QED BY <1>1, <2>1
<1>5. Fits1(Numbers(s), N)
  BY <1>4 DEF Numbers
<1>6. FromBytes(s) = Numbers(s)[N]
  BY DEF FromBytes, Numbers
<1> DEFINE F == Numbers(s)
<1> HIDE DEF F
<1>7. \A n \in 0 .. N : F[n] = IF n = 0 THEN 0 ELSE F[n - 1] * 256 + s[n]
  BY <1>5 DEF F
<1>8. F[0] = 0 /\ \A n \in 1 .. N : F[n] = F[n - 1] * 256 + s[n]
  <2>1. 0 \in 0 .. N /\ \A n \in 1 .. N : n \in 0 .. N /\ n # 0
    BY <1>1
  <2> QED BY <1>7, <2>1
<1> DEFINE T == {n \in 0 .. N : F[n] \in Nat}
<1>9. 0 .. N \subseteq T
  <2>1. 0 \in T
    BY <1>1, <1>8
  <2>2. \A n \in 0 .. N - 1 : n \in T => n + 1 \in T
    <3> SUFFICES ASSUME NEW n \in 0 .. N - 1, n \in T PROVE n + 1 \in T
      OBVIOUS
    <3>1. n + 1 \in 1 .. N /\ n + 1 \in 0 .. N /\ n + 1 - 1 = n
      BY <1>1
    <3>2. s[n + 1] \in Nat
      <4>1. s[n + 1] \in Byte
        BY <3>1
      <4>2. Byte \subseteq Nat
        BY DEF Byte
      <4> QED BY <4>1, <4>2
    <3>3. F[n + 1] = F[n] * 256 + s[n + 1]
      BY <3>1, <1>8
    <3>4. F[n] \in Nat
      OBVIOUS
    <3>5. F[n] * 256 + s[n + 1] \in Nat
      BY <3>2, <3>4
    <3> QED BY <3>1, <3>3, <3>5
  <2> HIDE DEF T
  <2> QED BY <1>1, <2>1, <2>2, BoundedInduction
<1> QED BY <1>6, <1>8, <1>9 DEF F

LEMMA FewBytes ==
    /\ \A s \in Seq(Byte) : FromBytes(s) \in Nat
    /\ \A a \in Byte : FromBytes(<<a>>) = a
    /\ \A a, b \in Byte : FromBytes(<<a, b>>) = a * 256 + b
<1>1. ASSUME NEW s \in Seq(Byte) PROVE FromBytes(s) \in Nat
  <2>1. Len(s) \in 0 .. Len(s)
    OBVIOUS
  <2> QED BY <2>1, NumbersRec
<1>2. ASSUME NEW a \in Byte PROVE FromBytes(<<a>>) = a
  <2> DEFINE s == <<a>>
  <2>1. s \in Seq(Byte) /\ Len(s) = 1 /\ s[1] = a /\ a \in Nat
    BY DEF Byte
  <2> HIDE DEF s
  <2>2. Numbers(s)[1] = Numbers(s)[0] * 256 + s[1] /\ Numbers(s)[0] = 0 /\ FromBytes(s) = Numbers(s)[1]
    <3>1. 1 \in 1 .. Len(s) /\ 1 - 1 = 0
      BY <2>1
    <3>2. s \in Seq(Byte)
      BY <2>1
    <3>3. /\ FromBytes(s) = Numbers(s)[Len(s)] /\ Numbers(s)[0] = 0
          /\ \A n \in 1 .. Len(s) : Numbers(s)[n] = Numbers(s)[n - 1] * 256 + s[n]
      BY <3>2, NumbersRec
    <3> QED BY <2>1, <3>1, <3>3
  <2>3. FromBytes(s) = a
    BY <2>1, <2>2
  <2> QED BY <2>3 DEF s
<1>3. ASSUME NEW a \in Byte, NEW b \in Byte PROVE FromBytes(<<a, b>>) = a * 256 + b
  <2> DEFINE s == <<a, b>>
  <2>1. s \in Seq(Byte) /\ Len(s) = 2 /\ s[1] = a /\ s[2] = b /\ a \in Nat /\ b \in Nat
    BY DEF Byte
  <2> HIDE DEF s
  <2>2. /\ Numbers(s)[1] = Numbers(s)[0] * 256 + s[1] /\ Numbers(s)[0] = 0
        /\ Numbers(s)[2] = Numbers(s)[1] * 256 + s[2] /\ FromBytes(s) = Numbers(s)[2]
    <3>1. 1 \in 1 .. Len(s) /\ 1 - 1 = 0 /\ 2 \in 1 .. Len(s) /\ 2 - 1 = 1
      BY <2>1
    <3>2. s \in Seq(Byte)
      BY <2>1
    <3>3. /\ FromBytes(s) = Numbers(s)[Len(s)] /\ Numbers(s)[0] = 0
          /\ \A n \in 1 .. Len(s) : Numbers(s)[n] = Numbers(s)[n - 1] * 256 + s[n]
      BY <3>2, NumbersRec
    <3> QED BY <2>1, <3>1, <3>3
  <2>3. FromBytes(s) = a * 256 + b
    BY <2>1, <2>2
  <2> QED BY <2>3 DEF s
<1> QED BY <1>1, <1>2, <1>3

\* A slice is what it says, wherever it lies.
LEMMA SliceType ==
    ASSUME NEW p \in Seq(Byte), NEW i \in Nat \ {0}, NEW n \in Nat
    PROVE  /\ Slice(p, i, n) \in Seq(Byte)
           /\ i + n - 1 <= Len(p) => /\ Len(Slice(p, i, n)) = n
                                     /\ \A k \in 1 .. n : Slice(p, i, n)[k] = p[i + k - 1]
<1> DEFINE e == IF i + n - 1 <= Len(p) THEN i + n - 1 ELSE Len(p)
<1>1. e \in Int /\ e <= Len(p) /\ Len(p) \in Nat
  OBVIOUS
<1>2. \A k \in i .. e : p[k] \in Byte
  <2> TAKE k \in i .. e
  <2>1. k \in 1 .. Len(p)
    BY <1>1
  <2> QED BY <2>1
<1>3. Slice(p, i, n) = SubSeq(p, i, e)
  BY DEF Slice
<1> HIDE DEF e
<1>4. /\ SubSeq(p, i, e) \in Seq(Byte)
      /\ Len(SubSeq(p, i, e)) = IF i <= e THEN e - i + 1 ELSE 0
      /\ \A k \in 1 .. e - i + 1 : SubSeq(p, i, e)[k] = p[i + k - 1]
  BY <1>1, <1>2, SubSeqProperties
<1>5. ASSUME i + n - 1 <= Len(p)
      PROVE  Len(Slice(p, i, n)) = n /\ \A k \in 1 .. n : Slice(p, i, n)[k] = p[i + k - 1]
  <2>1. e = i + n - 1
    BY <1>5 DEF e
  <2>2. e - i + 1 = n /\ (~(i <= e) => n = 0)
    BY <2>1
  <2> QED BY <1>3, <1>4, <2>2
<1> QED BY <1>3, <1>4, <1>5

-----------------------------------------------------------------------------
(* parse_fields, one field at a time.                                         *)

Kinds == {"BOOL", "NUM", "BYTES", "STRUCT"}
Found == [id : Nat, type : Kinds, val : Seq(Int)]

\* The field at a place, if one is whole there, and where the next one begins.
WordAt(p, i) == FromBytes(Slice(p, i, 2))
FieldAt(p, i) ==
    LET id == WordAt(p, i) \div 8
        type == p[i + 1] % 8
        at == i + 2
    IN CASE type \in {0, 1} -> <<Field(id, "BOOL", <<type>>)>>
         [] type = 2 /\ Fits(p, at) ->
               <<Field(id, "NUM", Number(p[at], FromBytes(Slice(p, at + 1, Size(p[at])))))>>
         [] type \in {3, 5} /\ at < Len(p) -> <<Field(id, "BYTES", Slice(p, at + 2, WordAt(p, at)))>>
         [] type = 4 /\ at < Len(p) -> <<Field(id, "STRUCT", <<WordAt(p, at)>>)>>
         [] OTHER -> <<>>
AfterField(p, i) ==
    LET type == p[i + 1] % 8
        at == i + 2
    IN CASE type \in {0, 1} -> at
         [] type = 2 /\ Fits(p, at) -> at + 1 + Size(p[at])
         [] type \in {3, 5} /\ at < Len(p) -> at + 2 + WordAt(p, at)
         [] type = 4 /\ at < Len(p) -> at + 2
         [] OTHER -> at

LEMMA ByteNumbers == Byte \subseteq Nat /\ Byte \subseteq Int
  BY DEF Byte

LEMMA FieldAtType ==
    ASSUME NEW p \in Seq(Byte), NEW i \in Nat \ {0}, i < Len(p)
    PROVE  /\ FieldAt(p, i) \in Seq(Found) /\ Len(FieldAt(p, i)) \in {0, 1}
           /\ AfterField(p, i) \in Nat \ {0} /\ AfterField(p, i) > i
<1> DEFINE type == p[i + 1] % 8
           at == i + 2
           id == WordAt(p, i) \div 8
           word == WordAt(p, at)
<1>1. \A j \in Nat \ {0} : WordAt(p, j) \in Nat
  <2> TAKE j \in Nat \ {0}
  <2>1. Slice(p, j, 2) \in Seq(Byte)
    BY SliceType
  <2> QED BY <2>1, FewBytes DEF WordAt
<1>2. at \in Nat \ {0} /\ at + 2 \in Nat \ {0} /\ at > i
  OBVIOUS
<1>3. type \in Nat
  <2>1. i + 1 \in 1 .. Len(p)
    OBVIOUS
  <2>2. p[i + 1] \in Nat
    <3>1. p[i + 1] \in Byte
      BY <2>1
    <3> QED BY <3>1, ByteNumbers
  <2> QED BY <2>2
<1>4. id \in Nat /\ word \in Nat
  <2>1. WordAt(p, i) \in Nat
    BY <1>1
  <2>2. id \in Nat
    BY <2>1
  <2> QED BY <2>2, <1>1, <1>2
<1>5. Slice(p, at + 2, word) \in Seq(Int)
  <2> HIDE DEF at, word
  <2>1. Slice(p, at + 2, word) \in Seq(Byte)
    BY <1>2, <1>4, SliceType
  <2> DEFINE v == Slice(p, at + 2, word)
  <2> HIDE DEF v
  <2>2. v \in Seq(Byte)
    BY <2>1 DEF v
  <2>3. v \in Seq(Int)
    BY <2>2, ByteNumbers, SeqMonotonic
  <2> QED BY <2>3 DEF v
<1>6. ASSUME Fits(p, at)
      PROVE  /\ Size(p[at]) \in 1 .. 8
             /\ Number(p[at], FromBytes(Slice(p, at + 1, Size(p[at])))) \in Seq(Int)
  <2>1. p[at] \in Nat
    <3>1. at \in 1 .. Len(p)
      BY <1>2, <1>6 DEF Fits
    <3> HIDE DEF at
    <3>2. p[at] \in Byte
      BY <3>1
    <3> QED BY <3>2, ByteNumbers
  <2> HIDE DEF at
  <2>2. Size(p[at]) \in 1 .. 8
    BY <2>1 DEF Size
  <2> DEFINE z == Size(p[at])
             magnitude == FromBytes(Slice(p, at + 1, z))
  <2>3. magnitude \in Nat
    <3>1. z \in Nat /\ at + 1 \in Nat \ {0}
      BY <2>2, <1>2
    <3> HIDE DEF z
    <3>2. Slice(p, at + 1, z) \in Seq(Byte)
      BY <3>1, SliceType
    <3> QED BY <3>2, FewBytes
  <2> HIDE DEF magnitude, z
  <2>4. Number(p[at], magnitude) \in Seq(Int)
    BY <2>1, <2>3 DEF Number
  <2> QED BY <2>2, <2>4 DEF magnitude, z
<1>7. \A t \in Kinds, v \in Seq(Int) : Field(id, t, v) \in Found
  <2> HIDE DEF id
  <2> QED BY <1>4 DEF Field, Found
<1>8. \A x \in Found : <<x>> \in Seq(Found) /\ Len(<<x>>) = 1
  OBVIOUS
<1>9. /\ "BOOL" \in Kinds /\ "NUM" \in Kinds /\ "BYTES" \in Kinds /\ "STRUCT" \in Kinds
      /\ <<>> \in Seq(Found) /\ Len(<<>>) = 0 /\ <<type>> \in Seq(Int) /\ <<word>> \in Seq(Int)
  <2>1. type \in Int /\ word \in Int
    BY <1>3, <1>4
  <2> HIDE DEF type, word
  <2> QED BY <2>1 DEF Kinds
<1>10. CASE type \in {0, 1}
  <2>1. FieldAt(p, i) = <<Field(id, "BOOL", <<type>>)>> /\ AfterField(p, i) = at
    BY <1>10 DEF FieldAt, AfterField
  <2> HIDE DEF type, id, at, word
  <2>2. Field(id, "BOOL", <<type>>) \in Found
    BY <1>7, <1>9
  <2> QED BY <2>1, <2>2, <1>2, <1>8
<1>11. CASE type = 2 /\ Fits(p, at)
  <2>1. /\ FieldAt(p, i) = <<Field(id, "NUM", Number(p[at], FromBytes(Slice(p, at + 1, Size(p[at])))))>>
        /\ AfterField(p, i) = at + 1 + Size(p[at])
    BY <1>11 DEF FieldAt, AfterField
  <2> HIDE DEF type, id, at, word
  <2>2. Field(id, "NUM", Number(p[at], FromBytes(Slice(p, at + 1, Size(p[at]))))) \in Found
    BY <1>6, <1>7, <1>9, <1>11
  <2>3. Size(p[at]) \in 1 .. 8
    BY <1>6, <1>11
  <2>4. AfterField(p, i) \in Nat \ {0} /\ AfterField(p, i) > i
    BY <2>1, <2>3, <1>2
  <2> QED BY <2>1, <2>2, <2>4, <1>8
<1>12. CASE type \in {3, 5} /\ at < Len(p)
  <2>1. /\ FieldAt(p, i) = <<Field(id, "BYTES", Slice(p, at + 2, word))>>
        /\ AfterField(p, i) = at + 2 + word
    BY <1>12 DEF FieldAt, AfterField
  <2> HIDE DEF type, id, at, word
  <2>2. Field(id, "BYTES", Slice(p, at + 2, word)) \in Found
    BY <1>5, <1>7, <1>9
  <2>3. AfterField(p, i) \in Nat \ {0} /\ AfterField(p, i) > i
    BY <2>1, <1>2, <1>4
  <2> QED BY <2>1, <2>2, <2>3, <1>8
<1>13. CASE type = 4 /\ at < Len(p)
  <2>1. FieldAt(p, i) = <<Field(id, "STRUCT", <<word>>)>> /\ AfterField(p, i) = at + 2
    BY <1>13 DEF FieldAt, AfterField
  <2> HIDE DEF type, id, at, word
  <2>2. Field(id, "STRUCT", <<word>>) \in Found
    BY <1>7, <1>9
  <2>3. AfterField(p, i) \in Nat \ {0} /\ AfterField(p, i) > i
    BY <2>1, <1>2
  <2> QED BY <2>1, <2>2, <2>3, <1>8
<1>14. CASE /\ type \notin {0, 1} /\ ~(type = 2 /\ Fits(p, at)) /\ ~(type \in {3, 5} /\ at < Len(p))
            /\ ~(type = 4 /\ at < Len(p))
  <2>1. FieldAt(p, i) = <<>> /\ AfterField(p, i) = at
    BY <1>14 DEF FieldAt, AfterField
  <2> HIDE DEF type, id, at, word
  <2> QED BY <2>1, <1>2, <1>9
<1> HIDE DEF type, id, at, word
<1> QED BY <1>10, <1>11, <1>12, <1>13, <1>14

\* What the fields from a place on are made of.
Onwards(p, i, rest) ==
    IF i >= Len(p) \/ FieldAt(p, i) = <<>> THEN <<>> ELSE FieldAt(p, i) \o rest

\* One round of the loop of parse_fields, at j, where f has what follows.
Step(p, f, j) ==
    IF j >= Len(p) THEN <<>>
    ELSE LET id == WordAt(p, j) \div 8
             type == p[j + 1] % 8
             at == j + 2
             word == WordAt(p, at)
         IN CASE type \in {0, 1} ->
                     <<Field(id, "BOOL", <<type>>)>> \o f[at]
               [] type = 2 /\ Fits(p, at) ->
                     LET magnitude == FromBytes(Slice(p, at + 1, Size(p[at]))) IN
                     <<Field(id, "NUM", Number(p[at], magnitude))>> \o f[at + 1 + Size(p[at])]
               [] type \in {3, 5} /\ at < Len(p) ->
                     <<Field(id, "BYTES", Slice(p, at + 2, word))>> \o f[at + 2 + word]
               [] type = 4 /\ at < Len(p) ->
                     <<Field(id, "STRUCT", <<word>>)>> \o f[at + 2]
               [] OTHER -> <<>>

LEMMA StepIs ==
    ASSUME NEW p \in Seq(Byte), NEW g, NEW j \in Nat \ {0}
    PROVE  Step(p, g, j) = Onwards(p, j, g[AfterField(p, j)])
<1> DEFINE type == p[j + 1] % 8
           at == j + 2
           id == WordAt(p, j) \div 8
           over == j >= Len(p)
           c1 == type \in {0, 1}
           c2 == type = 2 /\ Fits(p, at)
           c3 == type \in {3, 5} /\ at < Len(p)
           c4 == type = 4 /\ at < Len(p)
           x1 == <<Field(id, "BOOL", <<type>>)>>
           x2 == <<Field(id, "NUM", Number(p[at], FromBytes(Slice(p, at + 1, Size(p[at])))))>>
           x3 == <<Field(id, "BYTES", Slice(p, at + 2, WordAt(p, at)))>>
           x4 == <<Field(id, "STRUCT", <<WordAt(p, at)>>)>>
           n2 == at + 1 + Size(p[at])
           n3 == at + 2 + WordAt(p, at)
           n4 == at + 2
<1>1. Step(p, g, j) =
        IF over THEN <<>>
        ELSE CASE c1 -> x1 \o g[at] [] c2 -> x2 \o g[n2] [] c3 -> x3 \o g[n3] [] c4 -> x4 \o g[n4] [] OTHER -> <<>>
  BY DEF Step
<1>2. FieldAt(p, j) = CASE c1 -> x1 [] c2 -> x2 [] c3 -> x3 [] c4 -> x4 [] OTHER -> <<>>
  BY DEF FieldAt
<1>3. AfterField(p, j) = CASE c1 -> at [] c2 -> n2 [] c3 -> n3 [] c4 -> n4 [] OTHER -> at
  BY DEF AfterField
<1>4. x1 # <<>> /\ x2 # <<>> /\ x3 # <<>> /\ x4 # <<>>
  OBVIOUS
<1> HIDE DEF over, c1, c2, c3, c4, x1, x2, x3, x4, n2, n3, n4, at
<1>5. Onwards(p, j, g[AfterField(p, j)]) =
        IF over \/ FieldAt(p, j) = <<>> THEN <<>> ELSE FieldAt(p, j) \o g[AfterField(p, j)]
  BY DEF Onwards, over
<1>6. CASE over
  BY <1>1, <1>5, <1>6
<1>7. CASE ~over
  <2>1. CASE c1
    BY <1>1, <1>2, <1>3, <1>4, <1>5, <1>7, <2>1
  <2>2. CASE ~c1 /\ c2
    BY <1>1, <1>2, <1>3, <1>4, <1>5, <1>7, <2>2
  <2>3. CASE ~c1 /\ ~c2 /\ c3
    BY <1>1, <1>2, <1>3, <1>4, <1>5, <1>7, <2>3
  <2>4. CASE ~c1 /\ ~c2 /\ ~c3 /\ c4
    BY <1>1, <1>2, <1>3, <1>4, <1>5, <1>7, <2>4
  <2>5. CASE ~c1 /\ ~c2 /\ ~c3 /\ ~c4
    BY <1>1, <1>2, <1>3, <1>4, <1>5, <1>7, <2>5
  <2> QED BY <2>1, <2>2, <2>3, <2>4, <2>5
<1> QED BY <1>6, <1>7

LEMMA ParseRec ==
    ASSUME NEW p \in Seq(Byte), NEW i \in Nat \ {0}
    PROVE  /\ ParseFrom(p)[i] \in Seq(Found)
           /\ ParseFrom(p)[i] = Onwards(p, i, ParseFrom(p)[AfterField(p, i)])
<1> DEFINE T == Seq(Found)
           N == Len(p) - 1
           D == Nat \ {0}
           next == [j \in D |-> IF j > N THEN j + 1 ELSE AfterField(p, j)]
           make == [x \in D \X T |-> Onwards(p, x[1], x[2])]
           from == CHOOSE f : f = [j \in D |-> Step(p, f, j)]
<1>1. N \in Int /\ <<>> \in T /\ D = Nat \ {0} /\ \A j \in D : ~(j > N) <=> j < Len(p)
  OBVIOUS
<1>2. ParseFrom(p) = from
  BY DEF ParseFrom, Step, WordAt
<1>3. \A j \in D : j < Len(p) => /\ FieldAt(p, j) \in T /\ AfterField(p, j) \in D
                                 /\ AfterField(p, j) > j
  BY FieldAtType
<1>4. GoesOn(next, N)
  <2> SUFFICES ASSUME NEW j \in D PROVE next[j] \in D /\ (j <= N => next[j] > j)
    BY <1>1 DEF GoesOn
  <2>1. CASE j > N
    <3>1. next[j] = j + 1 /\ j + 1 \in D /\ ~(j <= N)
      BY <2>1, <1>1
    <3> QED BY <3>1
  <2>2. CASE ~(j > N)
    <3>1. j < Len(p)
      BY <2>2, <1>1
    <3>2. next[j] = AfterField(p, j)
      BY <2>2
    <3> HIDE DEF next, D
    <3> QED BY <3>1, <3>2, <1>3
  <2> QED BY <2>1, <2>2
<1>5. \A j \in D : \A t \in T : make[<<j, t>>] = Onwards(p, j, t) /\ make[<<j, t>>] \in T
  <2> SUFFICES ASSUME NEW j \in D, NEW t \in T
               PROVE  make[<<j, t>>] = Onwards(p, j, t) /\ make[<<j, t>>] \in T
    OBVIOUS
  <2>1. make[<<j, t>>] = Onwards(p, j, t)
    OBVIOUS
  <2> HIDE DEF make
  <2>2. CASE j >= Len(p) \/ FieldAt(p, j) = <<>>
    BY <2>1, <2>2, <1>1 DEF Onwards
  <2>3. CASE ~(j >= Len(p) \/ FieldAt(p, j) = <<>>)
    <3>1. j < Len(p)
      BY <2>3
    <3>2. FieldAt(p, j) \in T
      BY <3>1, <1>3
    <3>3. FieldAt(p, j) \o t \in T
      BY <3>2
    <3>4. Onwards(p, j, t) = FieldAt(p, j) \o t
      BY <2>3 DEF Onwards
    <3> HIDE DEF T
    <3> QED BY <2>1, <3>3, <3>4
  <2> QED BY <2>2, <2>3
<1>6. PICK f : Forward(f, T, <<>>, N, next, make)
  <2>1. Makes(make, Nat \ {0}, T)
    BY <1>5 DEF Makes
  <2> HIDE DEF T, N, next, make
  <2> QED BY <1>1, <1>4, <2>1, ForwardRecursion
<1>7. f \in [D -> T] /\ \A j \in D : f[j] = IF j > N THEN <<>> ELSE make[<<j, f[next[j]]>>]
  <2> HIDE DEF T, N, next, make
  <2> QED BY <1>6 DEF Forward
<1>8. \A j \in D : f[j] = Onwards(p, j, f[AfterField(p, j)])
  <2> SUFFICES ASSUME NEW j \in D PROVE f[j] = Onwards(p, j, f[AfterField(p, j)])
    OBVIOUS
  <2>1. CASE j > N
    <3>1. f[j] = <<>>
      <4> HIDE DEF make, next
      <4> QED BY <2>1, <1>7
    <3>2. j >= Len(p)
      BY <2>1
    <3> QED BY <3>1, <3>2 DEF Onwards
  <2>2. CASE ~(j > N)
    <3>1. next[j] = AfterField(p, j)
      BY <2>2
    <3>2. next[j] \in D
      <4> HIDE DEF next
      <4> QED BY <3>1, <2>2, <1>1, <1>3
    <3>3. f[next[j]] \in T
      <4> HIDE DEF next, T
      <4> QED BY <3>2, <1>7
    <3>4. f[j] = make[<<j, f[next[j]]>>]
      <4> HIDE DEF make, next
      <4> QED BY <2>2, <1>7
    <3>5. make[<<j, f[next[j]]>>] = Onwards(p, j, f[next[j]])
      <4> HIDE DEF make, next, T
      <4> QED BY <3>3, <1>5
    <3> HIDE DEF make, next
    <3> QED BY <3>1, <3>4, <3>5
  <2> QED BY <2>1, <2>2
<1>9. \A g : \A j \in D : Step(p, g, j) = Onwards(p, j, g[AfterField(p, j)])
  BY StepIs
<1>10. f = [j \in D |-> Step(p, f, j)]
  <2> HIDE DEF T
  <2> QED BY <1>7, <1>8, <1>9
<1>11. from = [j \in D |-> Step(p, from, j)]
  <2> QED BY <1>10
<1> HIDE DEF from
<1>12. Follows(from, T, <<>>, N, next, make)
  <2>1. ASSUME NEW j \in Nat \ {0} PROVE from[j] = Onwards(p, j, from[AfterField(p, j)])
    <3>1. from[j] = Step(p, from, j)
      <4> QED BY <1>11
    <3> QED BY <3>1, <1>9
  <2>2. ASSUME NEW j \in Nat \ {0}, j > N PROVE from[j] = <<>>
    <3>1. j >= Len(p)
      BY <2>2
    <3> QED BY <3>1, <2>1 DEF Onwards
  <2>3. ASSUME NEW j \in Nat \ {0}, j <= N, from[next[j]] \in T
        PROVE  from[j] = make[<<j, from[next[j]]>>]
    <3>1. ~(j > N)
      BY <2>3
    <3>2. next[j] = AfterField(p, j)
      BY <3>1
    <3>3. make[<<j, from[next[j]]>>] = Onwards(p, j, from[next[j]])
      <4> HIDE DEF make, next, T
      <4> QED BY <2>3, <1>5
    <3> HIDE DEF make, next, T
    <3> QED BY <3>2, <3>3, <2>1
  <2> HIDE DEF make, next, T, N
  <2> QED BY <2>2, <2>3 DEF Follows
<1>13. \A j \in D : from[j] = f[j]
  <2>1. N \in Int /\ <<>> \in T
    BY <1>1
  <2> HIDE DEF make, next, T, N
  <2>2. \A j \in Nat \ {0} : from[j] = f[j]
    BY <2>1, <1>4, <1>6, <1>12, ForwardUnique
  <2> QED BY <2>2
<1>14. from[i] \in T
  <2> HIDE DEF T
  <2> QED BY <1>7, <1>13
<1>15. from[i] = Onwards(p, i, from[AfterField(p, i)])
  <2>1. from[i] = Step(p, from, i)
    <3> QED BY <1>11
  <2> QED BY <2>1, <1>9
<1> QED BY <1>2, <1>14, <1>15 DEF T

-----------------------------------------------------------------------------
(* A field that was written is read back.                                     *)

Words == 0 .. MaxWord
Ids == 0 .. MaxId

LEMMA Bounds ==
    /\ MaxWord \in Nat /\ MaxWord >= 65535 /\ MaxWord <= 65535
    /\ MaxId \in Nat /\ MaxId >= 8191 /\ MaxId <= 8191
  BY DEF MaxWord, MaxId

\* The two bytes of a number.
Spells(s, n) ==
    /\ s \in Seq(Byte) /\ Len(s) = 2
    /\ s[1] * 256 + s[2] = n /\ s[2] = n % 256

LEMMA WordSpells ==
    ASSUME NEW n \in Words
    PROVE  Spells(Word(n), n)
<1> DEFINE a == n \div 256
           b == n % 256
<1>1. n \in Nat /\ n <= 65535
  BY Bounds DEF Words
<1>2. a \in Nat /\ a <= 255 /\ b \in Nat /\ b <= 255 /\ a * 256 + b = n
  BY <1>1
<1>3. a \in Byte /\ b \in Byte
  <2> HIDE DEF a, b
  <2> QED BY <1>2 DEF Byte
<1>4. Word(n) = <<a, b>> /\ b = n % 256
  BY DEF Word
<1> DEFINE w == <<a, b>>
<1> HIDE DEF a, b
<1>5. w \in Seq(Byte) /\ Len(w) = 2 /\ w[1] = a /\ w[2] = b
  BY <1>3
<1> HIDE DEF w
<1>6. Spells(w, n)
  BY <1>2, <1>4, <1>5 DEF Spells
<1> QED BY <1>4, <1>6 DEF w

LEMMA WordAtIs ==
    ASSUME NEW p \in Seq(Byte), NEW j \in Nat \ {0}, j + 1 <= Len(p)
    PROVE  WordAt(p, j) = p[j] * 256 + p[j + 1]
<1> DEFINE s == Slice(p, j, 2)
<1>1. j + 2 - 1 <= Len(p) /\ 1 \in 1 .. 2 /\ 2 \in 1 .. 2 /\ j + 1 - 1 = j /\ j + 2 - 1 = j + 1
  OBVIOUS
<1>2. s \in Seq(Byte) /\ Len(s) = 2 /\ s[1] = p[j] /\ s[2] = p[j + 1]
  <2> DEFINE n == 2
  <2>1. n \in Nat /\ j + n - 1 <= Len(p)
    BY <1>1
  <2> HIDE DEF n
  <2>2. /\ Slice(p, j, n) \in Seq(Byte) /\ Len(Slice(p, j, n)) = n
        /\ \A k \in 1 .. n : Slice(p, j, n)[k] = p[j + k - 1]
    BY <2>1, SliceType
  <2> QED BY <2>2, <1>1 DEF n
<1>3. s = <<s[1], s[2]>>
  <2> HIDE DEF s
  <2> QED BY <1>2
<1>4. p[j] \in Byte /\ p[j + 1] \in Byte
  <2>1. j \in 1 .. Len(p) /\ j + 1 \in 1 .. Len(p)
    OBVIOUS
  <2> QED BY <2>1
<1> HIDE DEF s
<1>5. s = <<p[j], p[j + 1]>>
  BY <1>2, <1>3
<1>6. FromBytes(<<p[j], p[j + 1]>>) = p[j] * 256 + p[j + 1]
  BY <1>4, FewBytes
<1> QED BY <1>5, <1>6 DEF s, WordAt

\* A number of the data point and a type, in one word.
LEMMA HeadWord ==
    ASSUME NEW id \in Ids, NEW t \in Nat, t <= 7
    PROVE  /\ id * 8 + t \in Words /\ (id * 8 + t) \div 8 = id
           /\ ((id * 8 + t) % 256) % 8 = t
<1> DEFINE n == id * 8 + t
           q == n \div 256
           r == n % 256
           m == id - q * 32
<1>1. id \in Nat /\ n \in Nat /\ n \div 8 = id /\ n = id * 8 + t
  BY Bounds, SMT DEF Ids
<1> HIDE DEF n
<1>2. q \in Nat /\ r \in Nat /\ q * 256 + r = n
  BY <1>1, SMT
<1> HIDE DEF q, r
<1>3. m \in Int /\ r = m * 8 + t
  BY <1>1, <1>2, SMT
<1> HIDE DEF m
<1>4. r % 8 = t
  BY <1>2, <1>3, SMT
<1>5. n \in Words
  BY <1>1, Bounds, SMT DEF Ids, Words
<1> QED BY <1>1, <1>4, <1>5 DEF n, r

LEMMA LiesWord ==
    ASSUME NEW p \in Seq(Byte), NEW c \in Nat, NEW n, NEW w, Spells(w, n), Lies(p, c, w)
    PROVE  /\ WordAt(p, c + 1) = n /\ p[c + 2] = n % 256 /\ c + 2 <= Len(p)
<1>1. Len(w) = 2 /\ w[1] * 256 + w[2] = n /\ w[2] = n % 256
  BY DEF Spells
<1>2. c + 2 <= Len(p) /\ p[c + 1] = w[1] /\ p[c + 2] = w[2]
  BY <1>1 DEF Lies
<1>3. c + 1 \in Nat \ {0} /\ c + 1 + 1 = c + 2
  OBVIOUS
<1>4. WordAt(p, c + 1) = p[c + 1] * 256 + p[c + 2]
  <2> DEFINE j == c + 1
  <2>1. j \in Nat \ {0} /\ j + 1 <= Len(p) /\ j + 1 = c + 2
    BY <1>2, <1>3
  <2> HIDE DEF j
  <2>2. WordAt(p, j) = p[j] * 256 + p[j + 1]
    BY <2>1, WordAtIs
  <2> QED BY <2>1, <2>2 DEF j
<1> QED BY <1>1, <1>2, <1>4

LEMMA LiesSlice ==
    ASSUME NEW p \in Seq(Byte), NEW c \in Nat, NEW b \in Seq(Byte), Lies(p, c, b)
    PROVE  Slice(p, c + 1, Len(b)) = b
<1> DEFINE s == Slice(p, c + 1, Len(b))
           n == Len(b)
<1>1. c + 1 \in Nat \ {0} /\ n \in Nat /\ c + 1 + n - 1 = c + n
  OBVIOUS
<1>2. c + n <= Len(p) /\ \A k \in 1 .. n : p[c + k] = b[k]
  BY DEF Lies
<1>3. s \in Seq(Byte) /\ Len(s) = n /\ \A k \in 1 .. n : s[k] = p[c + 1 + k - 1]
  <2> HIDE DEF n
  <2>1. c + 1 + n - 1 <= Len(p)
    BY <1>1, <1>2
  <2>2. /\ Slice(p, c + 1, n) \in Seq(Byte) /\ Len(Slice(p, c + 1, n)) = n
        /\ \A k \in 1 .. n : Slice(p, c + 1, n)[k] = p[c + 1 + k - 1]
    BY <1>1, <2>1, SliceType
  <2> QED BY <2>2 DEF n
<1>4. \A k \in 1 .. n : s[k] = b[k]
  <2> HIDE DEF s, n
  <2> TAKE k \in 1 .. n
  <2>1. c + 1 + k - 1 = c + k
    BY <1>1
  <2> QED BY <2>1, <1>2, <1>3
<1>5. s = b
  <2> HIDE DEF s
  <2> QED BY <1>3, <1>4, SeqEqual
<1> QED BY <1>5

\* Bytes that are read back as a field wherever they lie.
ReadsBack(f, b) ==
    /\ b \in Seq(Byte) /\ Len(b) \in Nat /\ Len(b) >= 2
    /\ \A p \in Seq(Byte), c \in Nat :
          Lies(p, c, b) => FieldAt(p, c + 1) = <<f>> /\ AfterField(p, c + 1) = c + Len(b) + 1

LEMMA HeadRead ==
    ASSUME NEW id \in Ids, NEW t \in Nat, t <= 7,
           NEW p \in Seq(Byte), NEW c \in Nat, Lies(p, c, Word(id * 8 + t))
    PROVE  WordAt(p, c + 1) \div 8 = id /\ p[c + 1 + 1] % 8 = t /\ c + 2 <= Len(p)
<1> DEFINE n == id * 8 + t
           w == Word(n)
<1>1. n \in Words /\ n \div 8 = id /\ (n % 256) % 8 = t
  BY HeadWord
<1> HIDE DEF n
<1>2. Spells(w, n)
  BY <1>1, WordSpells
<1>3. Lies(p, c, w)
  BY DEF n
<1> HIDE DEF w
<1>4. WordAt(p, c + 1) = n /\ p[c + 2] = n % 256 /\ c + 2 <= Len(p)
  BY <1>2, <1>3, LiesWord
<1>5. c + 1 + 1 = c + 2
  OBVIOUS
<1> QED BY <1>1, <1>4, <1>5

LEMMA HeadType ==
    ASSUME NEW id \in Ids, NEW t \in Nat, t <= 7
    PROVE  Word(id * 8 + t) \in Seq(Byte) /\ Len(Word(id * 8 + t)) = 2
<1> DEFINE n == id * 8 + t
<1>1. n \in Words
  BY HeadWord
<1> HIDE DEF n
<1>2. Spells(Word(n), n)
  BY <1>1, WordSpells
<1>3. Word(n) \in Seq(Byte) /\ Len(Word(n)) = 2
  BY <1>2 DEF Spells
<1> QED BY <1>3 DEF n

LEMMA BoolReadsBack ==
    ASSUME NEW id \in Ids, NEW v \in {0, 1}
    PROVE  ReadsBack(Field(id, "BOOL", <<v>>), Word(id * 8 + v))
<1> DEFINE b == Word(id * 8 + v)
<1>1. v \in Nat /\ v <= 7
  OBVIOUS
<1>2. b \in Seq(Byte) /\ Len(b) = 2
  BY <1>1, HeadType
<1>3. ASSUME NEW p \in Seq(Byte), NEW c \in Nat, Lies(p, c, b)
      PROVE  FieldAt(p, c + 1) = <<Field(id, "BOOL", <<v>>)>> /\ AfterField(p, c + 1) = c + 3
  <2>1. WordAt(p, c + 1) \div 8 = id /\ p[c + 1 + 1] % 8 = v
    BY <1>1, <1>3, HeadRead
  <2>2. FieldAt(p, c + 1) = <<Field(id, "BOOL", <<v>>)>>
    BY <2>1, SMTT(30) DEF FieldAt
  <2>3. AfterField(p, c + 1) = c + 1 + 2
    BY <2>1 DEF AfterField
  <2> QED BY <2>2, <2>3
<1> HIDE DEF b
<1>4. ReadsBack(Field(id, "BOOL", <<v>>), b)
  <2>1. Len(b) \in Nat /\ Len(b) >= 2 /\ \A c \in Nat : c + Len(b) + 1 = c + 3
    BY <1>2
  <2> QED BY <1>2, <1>3, <2>1 DEF ReadsBack
<1> QED BY <1>4 DEF b

LEMMA StructReadsBack ==
    ASSUME NEW id \in Ids, NEW n \in Words
    PROVE  ReadsBack(Field(id, "STRUCT", <<n>>), Word(id * 8 + 4) \o Word(n))
<1> DEFINE h == Word(id * 8 + 4)
           w == Word(n)
           f == Field(id, "STRUCT", <<n>>)
<1>1. h \in Seq(Byte) /\ Len(h) = 2
  <2>1. 4 \in Nat /\ 4 <= 7
    OBVIOUS
  <2> QED BY <2>1, HeadType
<1>2. Spells(w, n) /\ w \in Seq(Byte) /\ Len(w) = 2
  BY WordSpells DEF Spells
<1>3. ASSUME NEW p \in Seq(Byte), NEW c \in Nat, Lies(p, c, h \o w)
      PROVE  FieldAt(p, c + 1) = <<f>> /\ AfterField(p, c + 1) = c + 5
  <2>0. Lies(p, c, h) /\ Lies(p, c + 2, w)
    <3> HIDE DEF h, w
    <3>1. Lies(p, c, h) /\ Lies(p, c + Len(h), w)
      BY <1>1, <1>2, <1>3, LiesParts
    <3> QED BY <3>1, <1>1
  <2>1. WordAt(p, c + 1) \div 8 = id /\ p[c + 1 + 1] % 8 = 4
    <3>1. 4 \in Nat /\ 4 <= 7
      OBVIOUS
    <3> QED BY <2>0, <3>1, HeadRead
  <2>2. WordAt(p, c + 3) = n /\ c + 4 <= Len(p)
    <3> DEFINE e == c + 2
    <3>1. e \in Nat /\ e + 1 = c + 3 /\ e + 2 = c + 4 /\ Lies(p, e, w)
      BY <2>0
    <3> HIDE DEF e, w
    <3>2. WordAt(p, e + 1) = n /\ e + 2 <= Len(p)
      BY <3>1, <1>2, LiesWord
    <3> QED BY <3>1, <3>2
  <2>3. c + 1 + 2 = c + 3 /\ c + 3 < Len(p) /\ c + 3 + 2 = c + 5
    BY <2>2
  <2>4. FieldAt(p, c + 1) = <<f>>
    BY <2>1, <2>2, <2>3 DEF FieldAt
  <2>5. AfterField(p, c + 1) = c + 3 + 2
    BY <2>1, <2>3 DEF AfterField
  <2> QED BY <2>3, <2>4, <2>5
<1> DEFINE b == h \o w
<1>4. b \in Seq(Byte) /\ Len(b) = 4
  <2> HIDE DEF h, w
  <2>1. h \in Seq(Byte) /\ w \in Seq(Byte)
    BY <1>1, <1>2
  <2>2. h \o w \in Seq(Byte) /\ Len(h \o w) = Len(h) + Len(w)
    BY <2>1, ConcatProperties
  <2> QED BY <2>2, <1>1, <1>2
<1> HIDE DEF f, h, w, b
<1>5. ReadsBack(f, b)
  <2>1. Len(b) \in Nat /\ Len(b) >= 2 /\ \A c \in Nat : c + Len(b) + 1 = c + 5
    BY <1>4
  <2> QED BY <1>3, <1>4, <2>1 DEF ReadsBack, b
<1> QED BY <1>5 DEF f, h, w, b

LEMMA BytesReadBack ==
    ASSUME NEW id \in Ids, NEW s \in Seq(Byte), Len(s) \in Words
    PROVE  ReadsBack(Field(id, "BYTES", s), Word(id * 8 + 3) \o Word(Len(s)) \o s)
<1> DEFINE h == Word(id * 8 + 3)
           n == Len(s)
           w == Word(n)
           f == Field(id, "BYTES", s)
           a == h \o w
           b == a \o s
<1>1. h \in Seq(Byte) /\ Len(h) = 2
  <2>1. 3 \in Nat /\ 3 <= 7
    OBVIOUS
  <2> QED BY <2>1, HeadType
<1>2. Spells(w, n) /\ w \in Seq(Byte) /\ Len(w) = 2
  <2>1. n \in Words
    OBVIOUS
  <2> HIDE DEF n
  <2> QED BY <2>1, WordSpells DEF Spells
<1>3. a \in Seq(Byte) /\ Len(a) = 4
  <2> HIDE DEF h, w
  <2>1. h \in Seq(Byte) /\ w \in Seq(Byte)
    BY <1>1, <1>2
  <2>2. h \o w \in Seq(Byte) /\ Len(h \o w) = Len(h) + Len(w)
    BY <2>1, ConcatProperties
  <2> QED BY <2>2, <1>1, <1>2
<1>4. b \in Seq(Byte) /\ Len(b) = 4 + n /\ n \in Nat
  <2> HIDE DEF a
  <2>1. a \in Seq(Byte) /\ s \in Seq(Byte)
    BY <1>3
  <2>2. a \o s \in Seq(Byte) /\ Len(a \o s) = Len(a) + Len(s)
    BY <2>1, ConcatProperties
  <2>3. Len(s) \in Nat
    OBVIOUS
  <2> QED BY <2>2, <2>3, <1>3
<1> HIDE DEF n
<1>5. ASSUME NEW p \in Seq(Byte), NEW c \in Nat, Lies(p, c, b)
      PROVE  FieldAt(p, c + 1) = <<f>> /\ AfterField(p, c + 1) = c + 5 + n
  <2>0. Lies(p, c, h) /\ Lies(p, c + 2, w) /\ Lies(p, c + 4, s)
    <3>1. Lies(p, c, a) /\ Lies(p, c + Len(a), s)
      <4> HIDE DEF a
      <4> QED BY <1>3, <1>5, LiesParts
    <3>2. Lies(p, c, h) /\ Lies(p, c + Len(h), w)
      <4> HIDE DEF h, w
      <4> QED BY <1>1, <1>2, <3>1, LiesParts
    <3> HIDE DEF a, h, w
    <3> QED BY <3>1, <3>2, <1>1, <1>3
  <2>1. WordAt(p, c + 1) \div 8 = id /\ p[c + 1 + 1] % 8 = 3
    <3>1. 3 \in Nat /\ 3 <= 7
      OBVIOUS
    <3> QED BY <2>0, <3>1, HeadRead
  <2>2. WordAt(p, c + 3) = n /\ c + 4 <= Len(p)
    <3> DEFINE e == c + 2
    <3>1. e \in Nat /\ e + 1 = c + 3 /\ e + 2 = c + 4 /\ Lies(p, e, w)
      BY <2>0
    <3> HIDE DEF e, w
    <3>2. WordAt(p, e + 1) = n /\ e + 2 <= Len(p)
      BY <3>1, <1>2, LiesWord
    <3> QED BY <3>1, <3>2
  <2>3. Slice(p, c + 5, n) = s
    <3> DEFINE e == c + 4
    <3>1. e \in Nat /\ e + 1 = c + 5 /\ Lies(p, e, s)
      BY <2>0
    <3> HIDE DEF e
    <3>2. Slice(p, e + 1, Len(s)) = s
      BY <3>1, LiesSlice
    <3> QED BY <3>1, <3>2 DEF n
  <2>4. c + 1 + 2 = c + 3 /\ c + 3 < Len(p) /\ c + 3 + 2 = c + 5
    BY <2>2
  <2> HIDE DEF a, b, h, w
  <2>5. FieldAt(p, c + 1) = <<f>>
    BY <2>1, <2>2, <2>3, <2>4 DEF FieldAt
  <2>6. AfterField(p, c + 1) = c + 3 + 2 + n
    BY <2>1, <2>2, <2>4 DEF AfterField
  <2> QED BY <2>4, <2>5, <2>6
<1> HIDE DEF f, h, w, a, b
<1>6. ReadsBack(f, b)
  <2>1. Len(b) \in Nat /\ Len(b) >= 2 /\ \A c \in Nat : c + Len(b) + 1 = c + 5 + n
    BY <1>4
  <2> QED BY <1>4, <1>5, <2>1 DEF ReadsBack
<1> QED BY <1>6 DEF f, h, n, w, a, b

\* The byte of sign, decimals and size.
LEMMA MetaIs ==
    ASSUME NEW g \in {0, 1}, NEW d \in Nat, d <= 15, NEW z \in {1, 2}
    PROVE  LET meta == g * 128 + d * 8 + z - 1 IN
           /\ meta \in Byte /\ Size(meta) = z /\ meta \div 128 = g /\ (meta \div 8) % 16 = d
<1> DEFINE meta == g * 128 + d * 8 + z - 1
<1>1. g \in Nat /\ z \in Nat /\ g <= 1 /\ z >= 1 /\ z <= 2 /\ meta = g * 128 + d * 8 + z - 1
  OBVIOUS
<1> HIDE DEF meta
<1>2. meta \in Nat /\ meta <= 255
  BY <1>1
<1>3. meta % 8 = z - 1
  BY <1>1, <1>2
<1>4. meta \div 8 = g * 16 + d
  BY <1>1, <1>2
<1>5. meta \div 128 = g
  BY <1>1, <1>2
<1>6. (g * 16 + d) % 16 = d
  BY <1>1
<1>7. meta \in Byte
  BY <1>2 DEF Byte
<1>8. Size(meta) = z
  BY <1>1, <1>3 DEF Size
<1> QED BY <1>4, <1>5, <1>6, <1>7, <1>8 DEF meta

LEMMA NumberReadsBack ==
    ASSUME NEW id \in Ids, NEW x \in Int, NEW n \in Words, NEW d \in Nat, d <= 15,
           NEW g \in {0, 1}, (g = 0 /\ x = n) \/ (g = 1 /\ x = -n),
           NEW m \in Seq(Byte), Len(m) \in {1, 2}, FromBytes(m) = n
    PROVE  ReadsBack(Field(id, "NUM", <<x, d>>),
                     Word(id * 8 + 2) \o <<g * 128 + d * 8 + Len(m) - 1>> \o m)
<1> DEFINE h == Word(id * 8 + 2)
           z == Len(m)
           meta == g * 128 + d * 8 + z - 1
           o == <<meta>>
           f == Field(id, "NUM", <<x, d>>)
           a == h \o o
           b == a \o m
<1>1. h \in Seq(Byte) /\ Len(h) = 2
  <2>1. 2 \in Nat /\ 2 <= 7
    OBVIOUS
  <2> QED BY <2>1, HeadType
<1>0. z \in {1, 2} /\ z \in Nat
  OBVIOUS
<1>2. meta \in Byte /\ Size(meta) = z /\ meta \div 128 = g /\ (meta \div 8) % 16 = d
  <2> HIDE DEF z
  <2> QED BY <1>0, MetaIs, SMTT(30)
<1>3. Number(meta, n) = <<x, d>>
  <2> HIDE DEF meta
  <2> QED BY <1>2 DEF Number
<1> HIDE DEF meta
<1>4. o \in Seq(Byte) /\ Len(o) = 1 /\ o[1] = meta
  BY <1>2
<1>5. a \in Seq(Byte) /\ Len(a) = 3
  <2> HIDE DEF h, o
  <2>1. h \in Seq(Byte) /\ o \in Seq(Byte)
    BY <1>1, <1>4
  <2>2. h \o o \in Seq(Byte) /\ Len(h \o o) = Len(h) + Len(o)
    BY <2>1, ConcatProperties
  <2> QED BY <2>2, <1>1, <1>4
<1>6. b \in Seq(Byte) /\ Len(b) = 3 + z
  <2> HIDE DEF a
  <2>1. a \in Seq(Byte) /\ m \in Seq(Byte)
    BY <1>5
  <2>2. a \o m \in Seq(Byte) /\ Len(a \o m) = Len(a) + Len(m)
    BY <2>1, ConcatProperties
  <2> QED BY <2>2, <1>5
<1>7. ASSUME NEW p \in Seq(Byte), NEW c \in Nat, Lies(p, c, b)
      PROVE  FieldAt(p, c + 1) = <<f>> /\ AfterField(p, c + 1) = c + 4 + z
  <2>0. Lies(p, c, h) /\ Lies(p, c + 2, o) /\ Lies(p, c + 3, m)
    <3>1. Lies(p, c, a) /\ Lies(p, c + Len(a), m)
      <4> HIDE DEF a
      <4> QED BY <1>5, <1>7, LiesParts
    <3>2. Lies(p, c, h) /\ Lies(p, c + Len(h), o)
      <4> HIDE DEF h, o
      <4> QED BY <1>1, <1>4, <3>1, LiesParts
    <3> HIDE DEF a, h, o
    <3> QED BY <3>1, <3>2, <1>1, <1>5
  <2>1. WordAt(p, c + 1) \div 8 = id /\ p[c + 1 + 1] % 8 = 2
    <3>1. 2 \in Nat /\ 2 <= 7
      OBVIOUS
    <3> QED BY <2>0, <3>1, HeadRead
  <2>2. p[c + 3] = meta
    <3> HIDE DEF o
    <3>1. 1 \in 1 .. Len(o) /\ c + 2 + 1 = c + 3
      BY <1>4
    <3> QED BY <2>0, <3>1, <1>4 DEF Lies
  <2>3. Slice(p, c + 4, z) = m /\ c + 3 + z <= Len(p)
    <3> DEFINE e == c + 3
    <3>1. e \in Nat /\ e + 1 = c + 4 /\ Lies(p, e, m)
      BY <2>0
    <3> HIDE DEF e
    <3>2. Slice(p, e + 1, Len(m)) = m
      BY <3>1, LiesSlice
    <3> QED BY <3>1, <3>2, <2>0 DEF Lies
  <2>4. c + 1 + 2 = c + 3 /\ c + 3 + 1 = c + 4 /\ Size(p[c + 3]) = z
    BY <2>2, <1>2
  <2>5. Fits(p, c + 3)
    <3>1. c + 3 <= Len(p)
      BY <2>3, <1>0
    <3> HIDE DEF z
    <3> QED BY <3>1, <2>3, <2>4 DEF Fits
  <2>6. Number(p[c + 3], FromBytes(Slice(p, c + 4, z))) = <<x, d>>
    BY <2>2, <2>3, <1>3
  <2> DEFINE j == c + 1
             at == j + 2
  <2>7. at = c + 3 /\ at + 1 = c + 4 /\ j + 1 = c + 1 + 1
    OBVIOUS
  <2> HIDE DEF a, b, h, o, z, j, at
  <2>8. /\ WordAt(p, j) \div 8 = id /\ p[j + 1] % 8 = 2 /\ Fits(p, at) /\ Size(p[at]) = z
        /\ Number(p[at], FromBytes(Slice(p, at + 1, z))) = <<x, d>>
    <3>1. WordAt(p, j) \div 8 = id
      BY <2>1 DEF j
    <3>2. p[j + 1] % 8 = 2
      BY <2>1, <2>7
    <3>3. Fits(p, at) /\ Size(p[at]) = z
      BY <2>4, <2>5, <2>7
    <3>4. Number(p[at], FromBytes(Slice(p, at + 1, z))) = <<x, d>>
      BY <2>6, <2>7
    <3> QED BY <3>1, <3>2, <3>3, <3>4
  <2>9. FieldAt(p, j) = <<f>>
    <3> DEFINE v == Number(p[at], FromBytes(Slice(p, at + 1, Size(p[at]))))
    <3>1. FieldAt(p, j) = <<Field(WordAt(p, j) \div 8, "NUM", v)>>
      BY <2>8 DEF FieldAt, at
    <3>2. v = <<x, d>>
      BY <2>8
    <3> HIDE DEF v
    <3> QED BY <3>1, <3>2, <2>8 DEF f
  <2>10. AfterField(p, j) = at + 1 + z
    BY <2>8 DEF AfterField, at
  <2>11. at + 1 + z = c + 4 + z
    BY <2>7, <1>0
  <2> QED BY <2>9, <2>10, <2>11 DEF j
<1> HIDE DEF f, h, o, a, b
<1>8. ReadsBack(f, b)
  <2> HIDE DEF z
  <2>1. Len(b) \in Nat /\ Len(b) >= 2 /\ \A c \in Nat : c + Len(b) + 1 = c + 4 + z
    BY <1>6, <1>0
  <2> QED BY <1>6, <1>7, <2>1 DEF ReadsBack
<1> QED BY <1>8 DEF f, h, o, a, b, meta, z

Signed == -MaxWord .. MaxWord

LEMMA WrittenReadsBack ==
    ASSUME NEW id \in Ids, NEW t \in Kinds, NEW v \in Seq(Int), Carries(Field(id, t, v))
    PROVE  ReadsBack(Field(id, t, v), BuildField(Field(id, t, v)))
<1> DEFINE f == Field(id, t, v)
<1>1. f.id = id /\ f.type = t /\ f.val = v /\ Carries(f)
  BY DEF Field
<1>2. /\ t = "BOOL" => BuildField(f) = Word(id * 8 + v[1])
      /\ t = "NUM" => BuildField(f) = BuildNumber(f)
      /\ t = "BYTES" => BuildField(f) = Word(id * 8 + 3) \o Word(Len(v)) \o v
      /\ t = "STRUCT" => BuildField(f) = Word(id * 8 + 4) \o Word(v[1])
  <2> HIDE DEF f
  <2> QED BY <1>1 DEF BuildField, BuildBytesField
<1> HIDE DEF f
<1>3. CASE t = "BOOL"
  <2>1. PICK w \in {0, 1} : v = <<w>>
    BY <1>1, <1>3, SMT DEF Carries
  <2>2. ReadsBack(Field(id, "BOOL", <<w>>), Word(id * 8 + w))
    BY BoolReadsBack
  <2>3. v[1] = w
    BY <2>1
  <2> QED BY <1>2, <1>3, <2>1, <2>2, <2>3 DEF f
<1>4. CASE t = "STRUCT"
  <2>1. Len(v) = 1 /\ v[1] \in Words
    BY <1>1, <1>4, SMT DEF Carries, Words
  <2> DEFINE n == v[1]
  <2>2. v = <<n>>
    BY <2>1
  <2>3. n \in Words
    BY <2>1
  <2>4. BuildField(f) = Word(id * 8 + 4) \o Word(n)
    BY <1>2, <1>4
  <2> HIDE DEF n
  <2>5. ReadsBack(Field(id, "STRUCT", <<n>>), Word(id * 8 + 4) \o Word(n))
    BY <2>3, StructReadsBack
  <2> QED BY <1>4, <2>2, <2>4, <2>5 DEF f
<1>5. CASE t = "BYTES"
  <2>1. v \in Seq(Byte) /\ Len(v) <= MaxWord
    BY <1>1, <1>5, SMT DEF Carries
  <2>2. Len(v) \in Words
    <3>1. Len(v) \in Nat
      BY <2>1, SMT
    <3> QED BY <2>1, <3>1, Bounds, SMT DEF Words
  <2>3. v \in Seq(Byte)
    BY <2>1, SMT
  <2>4. ReadsBack(Field(id, "BYTES", v), Word(id * 8 + 3) \o Word(Len(v)) \o v)
    BY <2>2, <2>3, BytesReadBack
  <2> QED BY <1>2, <1>5, <2>4 DEF f
<1>6. CASE t = "NUM"
  <2>1. v \in Signed \X (0 .. 15)
    BY <1>1, <1>6, SMT DEF Carries, Signed
  <2>2. PICK x \in Signed, d \in 0 .. 15 : v = <<x, d>>
    BY <2>1
  <2>3. d \in Nat /\ d <= 15
    OBVIOUS
  <2> DEFINE n == IF x < 0 THEN -x ELSE x
             g == IF x < 0 THEN 1 ELSE 0
             m == IF n < 256 THEN <<n>> ELSE Word(n)
  <2>4. x \in Int /\ n \in Nat /\ g \in {0, 1} /\ ((g = 0 /\ x = n) \/ (g = 1 /\ x = -n))
    BY Bounds, SMT DEF Signed
  <2>5. (IF x < 0 THEN 128 ELSE 0) = g * 128
    BY SMT
  <2>6. BuildNumber(f) = Word(id * 8 + 2) \o <<(IF x < 0 THEN 128 ELSE 0) + d * 8 + Len(m) - 1>> \o m
    <3>1. f.val[1] = x /\ f.val[2] = d /\ f.id = id
      BY <1>1, <2>2
    <3> QED BY <3>1 DEF BuildNumber
  <2>7. n \in Words
    BY Bounds, SMT DEF Signed, Words
  <2> HIDE DEF g, n
  <2>8. m \in Seq(Byte) /\ Len(m) \in {1, 2} /\ FromBytes(m) = n
    <3>1. CASE n < 256
      <4>1. n \in Byte
        BY <2>4, <3>1, SMT DEF Byte
      <4>2. <<n>> \in Seq(Byte) /\ Len(<<n>>) = 1
        BY <4>1, SMT
      <4>3. FromBytes(<<n>>) = n
        BY <4>1, FewBytes
      <4> QED BY <3>1, <4>2, <4>3
    <3>2. CASE ~(n < 256)
      <4> DEFINE w == Word(n)
      <4>1. w \in Seq(Byte) /\ Len(w) = 2 /\ w[1] * 256 + w[2] = n
        BY <2>7, WordSpells DEF Spells
      <4>2. m = w
        BY <3>2
      <4> HIDE DEF w, m
      <4>3. w = <<w[1], w[2]>> /\ w[1] \in Byte /\ w[2] \in Byte
        <5>1. w \in Seq(Byte) /\ Len(w) = 2
          BY <4>1
        <5>2. 1 \in 1 .. Len(w) /\ 2 \in 1 .. Len(w)
          BY <5>1
        <5>3. w[1] \in Byte /\ w[2] \in Byte
          BY <5>1, <5>2, ElementOfSeq
        <5>4. w = <<w[1], w[2]>>
          BY <5>1
        <5> QED BY <5>3, <5>4
      <4>4. FromBytes(<<w[1], w[2]>>) = w[1] * 256 + w[2]
        BY <4>3, FewBytes
      <4> QED BY <4>1, <4>2, <4>3, <4>4
    <3> QED BY <3>1, <3>2
  <2> HIDE DEF m
  <2>9. ReadsBack(Field(id, "NUM", <<x, d>>), Word(id * 8 + 2) \o <<g * 128 + d * 8 + Len(m) - 1>> \o m)
    BY <2>3, <2>4, <2>7, <2>8, NumberReadsBack
  <2>10. BuildField(f) = Word(id * 8 + 2) \o <<g * 128 + d * 8 + Len(m) - 1>> \o m
    BY <1>2, <1>6, <2>5, <2>6
  <2> QED BY <1>6, <2>2, <2>9, <2>10 DEF f
<1> QED BY <1>3, <1>4, <1>5, <1>6 DEF Kinds, f

WellFormed(f) == f \in Fields /\ Carries(f)

LEMMA FieldReadsBack ==
    ASSUME NEW f, WellFormed(f)
    PROVE  ReadsBack(f, BuildField(f)) /\ f \in Found
<1>1. f \in Fields /\ Carries(f)
  BY DEF WellFormed
<1>2. PICK id \in Ids, t \in Kinds, v \in Seq(Int) : f = Field(id, t, v)
  BY <1>1, SMT DEF Fields, Ids, Kinds, Field
<1>3. Field(id, t, v) \in Found
  <2>1. id \in Nat
    BY Bounds, SMT DEF Ids
  <2> QED BY <2>1 DEF Field, Found
<1>4. Carries(Field(id, t, v))
  BY <1>1, <1>2
<1>5. ReadsBack(Field(id, t, v), BuildField(Field(id, t, v)))
  BY <1>4, WrittenReadsBack
<1> QED BY <1>2, <1>3, <1>5

\* The fields a device may write.
Writable == {f \in Fields : Carries(f)}

LEMMA WritableReadsBack ==
    ASSUME NEW f \in Writable
    PROVE  ReadsBack(f, BuildField(f)) /\ f \in Found /\ BuildField(f) \in Seq(Byte)
<1>1. WellFormed(f)
  BY DEF Writable, WellFormed
<1>2. ReadsBack(f, BuildField(f)) /\ f \in Found
  BY <1>1, FieldReadsBack
<1> QED BY <1>2 DEF ReadsBack

\* What the fields of a payload are written as, one after another.
Written(fs) == [i \in DOMAIN fs |-> BuildField(fs[i])]

LEMMA WrittenType ==
    ASSUME NEW fs \in Seq(Writable)
    PROVE  /\ Written(fs) \in Seq(Seq(Byte)) /\ Len(Written(fs)) = Len(fs)
           /\ BuildFields(fs) = FlattenSeq(Written(fs)) /\ BuildFields(fs) \in Seq(Byte)
<1>1. DOMAIN fs = 1 .. Len(fs) /\ Len(fs) \in Nat
  BY LenProperties
<1>2. \A i \in 1 .. Len(fs) : BuildField(fs[i]) \in Seq(Byte)
  <2> TAKE i \in 1 .. Len(fs)
  <2>1. fs[i] \in Writable
    OBVIOUS
  <2> QED BY <2>1, WritableReadsBack
<1>3. Written(fs) = [i \in 1 .. Len(fs) |-> BuildField(fs[i])]
  BY <1>1 DEF Written
<1>4. Written(fs) \in Seq(Seq(Byte)) /\ Len(Written(fs)) = Len(fs)
  BY <1>1, <1>2, <1>3
<1>5. FlattenSeq(Written(fs)) \in Seq(Byte)
  BY <1>4, FlattenRec
<1> QED BY <1>4, <1>5 DEF BuildFields, Written

LEMMA BuildCons ==
    ASSUME NEW f \in Writable, NEW gs \in Seq(Writable)
    PROVE  BuildFields(<<f>> \o gs) = BuildField(f) \o BuildFields(gs)
<1> DEFINE fs == <<f>> \o gs
           w == Written(fs)
           v == <<BuildField(f)>> \o Written(gs)
           n == Len(gs)
<1>1. /\ <<f>> \in Seq(Writable) /\ fs \in Seq(Writable) /\ Len(fs) = n + 1 /\ n \in Nat
      /\ fs[1] = f /\ \A i \in 1 .. n : fs[1 + i] = gs[i]
  <2> DEFINE h == <<f>>
  <2>1. h \in Seq(Writable) /\ Len(h) = 1 /\ h[1] = f /\ 1 \in 1 .. 1
    OBVIOUS
  <2> HIDE DEF h
  <2>2. /\ h \o gs \in Seq(Writable) /\ Len(h \o gs) = Len(h) + Len(gs)
        /\ \A i \in 1 .. Len(h) : (h \o gs)[i] = h[i]
        /\ \A i \in 1 .. Len(gs) : (h \o gs)[Len(h) + i] = gs[i]
    BY <2>1, ConcatParts, SMTT(30)
  <2>3. Len(gs) \in Nat /\ 1 + Len(gs) = Len(gs) + 1
    OBVIOUS
  <2> QED BY <2>1, <2>2, <2>3 DEF h
<1> HIDE DEF fs
<1>2. w \in Seq(Seq(Byte)) /\ Len(w) = n + 1 /\ BuildFields(fs) = FlattenSeq(w)
  <2> HIDE DEF n
  <2> QED BY <1>1, WrittenType
<1>3. \A i \in 1 .. n + 1 : w[i] = BuildField(fs[i])
  <2>1. DOMAIN fs = 1 .. n + 1
    BY <1>1, LenProperties
  <2> QED BY <2>1 DEF Written
<1>4. Written(gs) \in Seq(Seq(Byte)) /\ Len(Written(gs)) = n /\ BuildFields(gs) = FlattenSeq(Written(gs))
  BY WrittenType
<1>5. \A i \in 1 .. n : Written(gs)[i] = BuildField(gs[i])
  <2>1. DOMAIN gs = 1 .. n
    BY LenProperties
  <2> QED BY <2>1 DEF Written
<1>6. BuildField(f) \in Seq(Byte)
  BY WritableReadsBack
<1> DEFINE ws == Written(gs)
           b == BuildField(f)
<1>7. /\ v \in Seq(Seq(Byte)) /\ Len(v) = n + 1
      /\ v[1] = b /\ \A i \in 1 .. n : v[1 + i] = ws[i]
  <2> DEFINE h == <<b>>
  <2>1. h \in Seq(Seq(Byte)) /\ Len(h) = 1 /\ h[1] = b /\ 1 \in 1 .. 1 /\ ws \in Seq(Seq(Byte)) /\ Len(ws) = n
    <3>1. b \in Seq(Byte) /\ ws \in Seq(Seq(Byte)) /\ Len(ws) = n
      BY <1>4, <1>6
    <3> HIDE DEF b, ws
    <3> QED BY <3>1
  <2>2. v = h \o ws
    OBVIOUS
  <2> HIDE DEF h, ws, v, b
  <2>3. /\ h \o ws \in Seq(Seq(Byte)) /\ Len(h \o ws) = Len(h) + Len(ws)
        /\ \A i \in 1 .. Len(h) : (h \o ws)[i] = h[i]
        /\ \A i \in 1 .. Len(ws) : (h \o ws)[Len(h) + i] = ws[i]
    <3>1. h \in Seq(Seq(Byte)) /\ ws \in Seq(Seq(Byte))
      BY <2>1
    <3> QED BY <3>1, ConcatParts
  <2> HIDE DEF n
  <2>4. 1 + n = n + 1
    BY <1>1
  <2> QED BY <2>1, <2>2, <2>3, <2>4
<1> HIDE DEF w, v, n
<1>8. w = v
  <2>1. \A i \in 1 .. n + 1 : w[i] = v[i]
    <3> SUFFICES ASSUME NEW i \in 1 .. n + 1 PROVE w[i] = v[i]
      OBVIOUS
    <3>1. CASE i = 1
      BY <3>1, <1>1, <1>3, <1>7
    <3>2. CASE i # 1
      <4> DEFINE j == i - 1
      <4>1. j \in 1 .. n /\ i = 1 + j
        BY <1>1, <3>2
      <4> HIDE DEF j
      <4> QED BY <4>1, <1>1, <1>3, <1>5, <1>7
    <3> QED BY <3>1, <3>2
  <2>2. Len(w) = Len(v)
    BY <1>2, <1>7
  <2>3. \A i \in 1 .. Len(w) : w[i] = v[i]
    BY <2>1, <1>2
  <2>4. w \in Seq(Seq(Byte)) /\ v \in Seq(Seq(Byte))
    BY <1>2, <1>7
  <2> QED BY <2>2, <2>3, <2>4, SeqEqual
<1>9. FlattenSeq(<<b>> \o ws) = b \o FlattenSeq(ws)
  <2>1. b \in Seq(Byte) /\ ws \in Seq(Seq(Byte))
    BY <1>4, <1>6
  <2> HIDE DEF b, ws
  <2> QED BY <2>1, FlattenCons
<1> QED BY <1>2, <1>4, <1>8, <1>9 DEF v, fs

\* A field that lies at a place is found there, and the next one after it.
LEMMA FieldFound ==
    ASSUME NEW p \in Seq(Byte), NEW c \in 0 .. Len(p), NEW l \in Seq(Byte), NEW f \in Writable,
           Drop(p, c) = BuildField(f) \o l
    PROVE  \E d \in 0 .. Len(p) :
              /\ Drop(p, d) = l
              /\ ParseFrom(p)[c + 1] = <<f>> \o ParseFrom(p)[d + 1]
<1> DEFINE b == BuildField(f)
           n == Len(b)
           d == c + n
           r == Drop(p, c)
<1>1. /\ b \in Seq(Byte) /\ n \in Nat /\ n >= 2
      /\ Lies(p, c, b) => FieldAt(p, c + 1) = <<f>> /\ AfterField(p, c + 1) = c + n + 1
  <2>1. ReadsBack(f, b)
    BY WritableReadsBack
  <2>2. c \in Nat
    OBVIOUS
  <2> HIDE DEF b
  <2> QED BY <2>1, <2>2 DEF ReadsBack
<1>2. r = b \o l
  OBVIOUS
<1>3. /\ r \in Seq(Byte) /\ Len(r) = Len(p) - c /\ \A i \in 1 .. Len(p) - c : r[i] = p[c + i]
  BY DropType
<1> HIDE DEF b, r
<1>4. Len(r) = n + Len(l) /\ \A i \in 1 .. n : r[i] = b[i]
  BY <1>1, <1>2, ConcatParts
<1>5. Len(l) \in Nat /\ Len(p) \in Nat /\ c \in Nat /\ c <= Len(p)
  OBVIOUS
<1> HIDE DEF n
<1>6. d \in 0 .. Len(p) /\ c + 1 \in Nat \ {0} /\ ~(c + 1 >= Len(p)) /\ n \in 0 .. Len(p) - c
  BY <1>1, <1>3, <1>4, <1>5
<1>7. Lies(p, c, b)
  <2>1. c + n <= Len(p)
    BY <1>6
  <2>2. \A k \in 1 .. n : p[c + k] = b[k]
    <3> TAKE k \in 1 .. n
    <3>1. k \in 1 .. Len(p) - c
      BY <1>1, <1>3, <1>4, <1>5
    <3> QED BY <3>1, <1>3, <1>4
  <2> QED BY <2>1, <2>2 DEF Lies, n
<1>8. Drop(p, c + n) = l
  <2>1. Drop(r, n) = Drop(p, c + n)
    BY <1>6, DropDrop DEF r
  <2>2. n \in 0 .. Len(b) /\ n = Len(b)
    BY <1>1 DEF n
  <2>3. Drop(b \o l, n) = Drop(b, n) \o l
    BY <1>1, <2>2, PartOfConcat
  <2>4. Drop(b, n) \o l = l
    <3>1. Drop(b, Len(b)) = <<>>
      BY <1>1 DEF Drop
    <3>2. <<>> \o l = l
      OBVIOUS
    <3> QED BY <2>2, <3>1, <3>2
  <2> QED BY <2>1, <2>3, <2>4, <1>2
<1>9. ParseFrom(p)[c + 1] = Onwards(p, c + 1, ParseFrom(p)[AfterField(p, c + 1)])
  <2> DEFINE i == c + 1
  <2>1. i \in Nat \ {0}
    BY <1>6
  <2> HIDE DEF i
  <2>2. ParseFrom(p)[i] = Onwards(p, i, ParseFrom(p)[AfterField(p, i)])
    BY <2>1, ParseRec
  <2> QED BY <2>2 DEF i
<1>10. ParseFrom(p)[c + 1] = <<f>> \o ParseFrom(p)[d + 1]
  <2>1. FieldAt(p, c + 1) = <<f>> /\ AfterField(p, c + 1) = d + 1 /\ <<f>> # <<>>
    BY <1>1, <1>7
  <2> HIDE DEF d
  <2> QED BY <2>1, <1>6, <1>9 DEF Onwards
<1> QED BY <1>6, <1>8, <1>10

LEMMA FieldsFound ==
    ASSUME NEW p \in Seq(Byte), NEW fs \in Seq(Writable), NEW c \in 0 .. Len(p),
           Drop(p, c) = BuildFields(fs)
    PROVE  ParseFrom(p)[c + 1] = fs
<1> DEFINE Reads(gs) == \A d \in 0 .. Len(p) : Drop(p, d) = BuildFields(gs) => ParseFrom(p)[d + 1] = gs
           T == {n \in Nat : \A gs \in Seq(Writable) : Len(gs) = n => Reads(gs)}
<1>1. 0 \in T
  <2>1. ASSUME NEW gs \in Seq(Writable), Len(gs) = 0, NEW d \in 0 .. Len(p), Drop(p, d) = BuildFields(gs)
        PROVE  ParseFrom(p)[d + 1] = gs
    <3>1. gs = <<>>
      BY <2>1
    <3>2. BuildFields(gs) = <<>>
      <4>1. DOMAIN gs = {}
        BY <3>1
      <4>2. [i \in DOMAIN gs |-> BuildField(gs[i])] = <<>>
        BY <4>1
      <4> QED BY <4>2, FlattenEmpty DEF BuildFields
    <3>3. Len(Drop(p, d)) = Len(p) - d
      BY DropType
    <3>4. d = Len(p) /\ d \in Nat
      <4>1. Len(p) - d = 0
        BY <2>1, <3>2, <3>3
      <4>2. Len(p) \in Nat
        OBVIOUS
      <4> QED BY <4>1, <4>2
    <3> DEFINE j == d + 1
    <3>5. j \in Nat \ {0} /\ j >= Len(p)
      BY <3>4
    <3> HIDE DEF j
    <3>6. ParseFrom(p)[j] = <<>>
      BY <3>5, ParseRec DEF Onwards
    <3> QED BY <3>1, <3>6 DEF j
  <2> QED BY <2>1
<1>2. ASSUME NEW n \in Nat, n \in T PROVE n + 1 \in T
  <2>0. n + 1 \in Nat
    OBVIOUS
  <2>1. ASSUME NEW gs \in Seq(Writable), Len(gs) = n + 1, NEW d \in 0 .. Len(p), Drop(p, d) = BuildFields(gs)
        PROVE  ParseFrom(p)[d + 1] = gs
    <3> DEFINE f == Head(gs)
               hs == Tail(gs)
    <3>1. gs # <<>>
      BY <2>1
    <3>2. f \in Writable /\ hs \in Seq(Writable) /\ Len(hs) = n /\ gs = <<f>> \o hs
      <4>1. f \in Writable /\ hs \in Seq(Writable) /\ Len(hs) = Len(gs) - 1
        BY <3>1, HeadTailProperties
      <4>2. gs = <<f>> \o hs
        BY <3>1
      <4> QED BY <4>1, <4>2, <2>1
    <3> HIDE DEF f, hs
    <3>3. BuildFields(gs) = BuildField(f) \o BuildFields(hs)
      BY <3>2, BuildCons
    <3>4. BuildFields(hs) \in Seq(Byte)
      BY <3>2, WrittenType
    <3> DEFINE l == BuildFields(hs)
    <3> HIDE DEF l
    <3>5. PICK e \in 0 .. Len(p) : Drop(p, e) = l /\ ParseFrom(p)[d + 1] = <<f>> \o ParseFrom(p)[e + 1]
      <4>1. Drop(p, d) = BuildField(f) \o l /\ l \in Seq(Byte)
        BY <2>1, <3>3, <3>4 DEF l
      <4> QED BY <4>1, <3>2, FieldFound
    <3>6. Reads(hs)
      <4> HIDE DEF Reads
      <4> QED BY <1>2, <3>2
    <3>7. ParseFrom(p)[e + 1] = hs
      BY <3>5, <3>6 DEF l
    <3> QED BY <3>2, <3>5, <3>7
  <2> QED BY <2>0, <2>1
<1>3. Nat \subseteq T
  <2> HIDE DEF T
  <2> QED BY <1>1, <1>2, SetInduction
<1>4. Reads(fs)
  <2>1. Len(fs) \in Nat
    OBVIOUS
  <2> HIDE DEF Reads
  <2> QED BY <1>3, <2>1
<1> QED BY <1>4

\* parse_fields gives back the very fields that a device writes into a payload:
\* numbers, decimals and signs, lengths and counts, for any of them.
THEOREM FieldsRoundTrip ==
    \A fs \in Seq(Writable) : ParseFields(BuildFields(fs)) = fs
<1> SUFFICES ASSUME NEW fs \in Seq(Writable) PROVE ParseFields(BuildFields(fs)) = fs
  OBVIOUS
<1> DEFINE p == BuildFields(fs)
<1>1. p \in Seq(Byte)
  BY WrittenType
<1> HIDE DEF p
<1>2. 0 \in 0 .. Len(p) /\ Drop(p, 0) = p
  <2>1. Len(p) \in Nat /\ SubSeq(p, 0 + 1, Len(p)) = p
    BY <1>1
  <2> QED BY <2>1 DEF Drop
<1>3. ParseFrom(p)[0 + 1] = fs
  BY <1>1, <1>2, FieldsFound DEF p
<1> QED BY <1>3 DEF ParseFields, p

-----------------------------------------------------------------------------
(* The packets under way, and what a read has of them.                        *)

StatusPackets ==
    {p \in [cmd : {"status"}, r : DOMAIN Reports, i : Nat, j : Nat] :
        1 <= p.i /\ p.i <= p.j /\ p.j <= Len(FieldsOf[p.r])}
Packets == StatusPackets \cup Others

LEMMA ReportsType ==
    ASSUME NEW r \in DOMAIN Reports
    PROVE  /\ Reports[r] \in Seq(Points) /\ Reports[r] # <<>> /\ ReportFits(Reports[r])
           /\ \A n \in 1 .. Len(Reports[r]) : Reports[r][n] \in Points /\ PointFits(Reports[r][n])
<1> DEFINE R == Reports[r]
<1>1. ReportFits(R) /\ R \in Seq(Points)
  BY ConstantsAssumption DEF ConstantsAssumption
<1> HIDE DEF R
<1>2. R # <<>> /\ \A n \in DOMAIN R : PointFits(R[n])
  BY <1>1 DEF ReportFits
<1>3. DOMAIN R = 1 .. Len(R) /\ \A n \in 1 .. Len(R) : R[n] \in Points
  BY <1>1, LenProperties, ElementOfSeq
<1> QED BY <1>1, <1>2, <1>3 DEF R

\* The fields of a data point are such as a device may write.
LEMMA PointType ==
    ASSUME NEW q \in Points, PointFits(q)
    PROVE  /\ q.field \in Writable /\ q.members \in Seq(Seq(Writable))
           /\ FieldsOfPoint(q) \in Seq(Writable)
           /\ Len(FieldsOfPoint(q)) = 1 + Len(FlattenSeq(q.members))
           /\ FieldsOfPoint(q)[1] = q.field /\ Lies(FieldsOfPoint(q), 1, FlattenSeq(q.members))
<1> DEFINE f == q.field
           M == q.members
           ms == FlattenSeq(M)
           h == <<f>>
<1>1. f \in Writable
  BY DEF Points, PointFits, Writable
<1>2. M \in Seq(Seq(Fields)) /\ DOMAIN M = 1 .. Len(M) /\ Len(M) \in Nat
  <2>1. M \in Seq(Seq(Fields))
    BY DEF Points
  <2> HIDE DEF M
  <2> QED BY <2>1, LenProperties
<1>w. \A n \in DOMAIN M : \A k \in DOMAIN M[n] : Carries(M[n][k])
  BY DEF PointFits
<1>3. ASSUME NEW n \in 1 .. Len(M) PROVE M[n] \in Seq(Writable)
  <2> HIDE DEF M
  <2> DEFINE g == M[n]
  <2>1. g \in Seq(Fields) /\ \A k \in DOMAIN g : Carries(g[k])
    BY <1>2, <1>w, SMTT(30)
  <2> HIDE DEF g
  <2>2. Len(g) \in Nat /\ g \in [1 .. Len(g) -> Fields] /\ DOMAIN g = 1 .. Len(g)
    BY <2>1, LenProperties
  <2>3. g \in [1 .. Len(g) -> Writable]
    BY <2>1, <2>2 DEF Writable
  <2>4. g \in Seq(Writable)
    BY <2>2, <2>3, SeqDef
  <2> QED BY <2>4 DEF g
<1>4. M \in Seq(Seq(Writable))
  <2> HIDE DEF M
  <2> DEFINE S == Seq(Fields)
             T == Seq(Writable)
  <2>1. M \in Seq(S) /\ \A n \in 1 .. Len(M) : M[n] \in T
    BY <1>2, <1>3
  <2> HIDE DEF S, T
  <2>2. M \in [1 .. Len(M) -> S] /\ Len(M) \in Nat
    BY <2>1, LenProperties
  <2>3. M \in [1 .. Len(M) -> T]
    BY <2>1, <2>2
  <2>4. M \in Seq(T)
    BY <2>2, <2>3, SeqDef
  <2> QED BY <2>4 DEF T
<1> HIDE DEF M
<1>5. ms \in Seq(Writable)
  BY <1>4, FlattenRec
<1>6. h \in Seq(Writable) /\ Len(h) = 1 /\ h[1] = f
  <2> HIDE DEF f
  <2> QED BY <1>1
<1>7. FieldsOfPoint(q) = h \o ms
  BY DEF FieldsOfPoint, M
<1> HIDE DEF f, h, ms
<1>8. /\ h \o ms \in Seq(Writable) /\ Len(h \o ms) = Len(h) + Len(ms)
      /\ \A k \in 1 .. Len(h) : (h \o ms)[k] = h[k]
  BY <1>5, <1>6, ConcatParts
<1>9. Lies(h \o ms, 1, ms)
  <2>1. Lies(h \o ms, 0, h \o ms)
    BY <1>8, LiesWhole
  <2>2. Lies(h \o ms, 0 + Len(h), ms)
    BY <2>1, <1>5, <1>6, <1>8, LiesParts
  <2> QED BY <2>2, <1>6
<1>10. (h \o ms)[1] = f /\ Len(h \o ms) = 1 + Len(ms)
  BY <1>6, <1>8
<1> QED BY <1>1, <1>4, <1>7, <1>8, <1>9, <1>10 DEF f, M, ms

\* The data points of a report, each as its fields.
LEMMA PointsType ==
    ASSUME NEW r \in DOMAIN Reports
    PROVE  LET R == Reports[r]
               P == FieldsOfPoints(R)
           IN /\ P \in Seq(Seq(Writable)) /\ Len(P) = Len(R) /\ Len(R) \in Nat /\ Len(R) >= 1
              /\ \A n \in 1 .. Len(R) : P[n] = FieldsOfPoint(R[n]) /\ Len(P[n]) \in Nat /\ Len(P[n]) >= 1
              /\ FieldsOf[r] = FlattenSeq(P)
<1> DEFINE R == Reports[r]
           P == FieldsOfPoints(R)
<1>1. R \in Seq(Points) /\ R # <<>> /\ \A n \in 1 .. Len(R) : R[n] \in Points /\ PointFits(R[n])
  BY ReportsType
<1>2. FieldsOf[r] = FlattenSeq(P)
  BY DEF FieldsOf
<1> HIDE DEF R
<1>3. DOMAIN R = 1 .. Len(R) /\ Len(R) \in Nat /\ Len(R) >= 1
  BY <1>1, LenProperties
<1>4. P = [n \in 1 .. Len(R) |-> FieldsOfPoint(R[n])]
  BY <1>3 DEF FieldsOfPoints
<1>5. ASSUME NEW n \in 1 .. Len(R)
      PROVE  FieldsOfPoint(R[n]) \in Seq(Writable) /\ Len(FieldsOfPoint(R[n])) \in Nat /\ Len(FieldsOfPoint(R[n])) >= 1
  <2> DEFINE q == R[n]
  <2>1. q \in Points /\ PointFits(q)
    BY <1>1
  <2> HIDE DEF q
  <2>2. /\ FieldsOfPoint(q) \in Seq(Writable) /\ q.members \in Seq(Seq(Writable))
        /\ Len(FieldsOfPoint(q)) = 1 + Len(FlattenSeq(q.members))
    BY <2>1, PointType
  <2>3. FlattenSeq(q.members) \in Seq(Writable)
    BY <2>2, FlattenRec
  <2>4. Len(FlattenSeq(q.members)) \in Nat
    BY <2>3, LenProperties
  <2> QED BY <2>2, <2>4 DEF q
<1> HIDE DEF P
<1>6. P \in Seq(Seq(Writable)) /\ Len(P) = Len(R) /\ \A n \in 1 .. Len(R) : P[n] = FieldsOfPoint(R[n])
  BY <1>3, <1>4, <1>5
<1> QED BY <1>2, <1>3, <1>5, <1>6 DEF R, P

LEMMA FieldsOfType ==
    ASSUME NEW r \in DOMAIN Reports
    PROVE  FieldsOf[r] \in Seq(Writable) /\ Len(FieldsOf[r]) >= Len(Reports[r]) /\ Len(FieldsOf[r]) >= 1
<1> DEFINE R == Reports[r]
           P == FieldsOfPoints(R)
           N == Len(R)
           T == {n \in 0 .. N : Upto(P, n) >= n}
<1>1. /\ P \in Seq(Seq(Writable)) /\ Len(P) = N /\ N \in Nat /\ N >= 1
      /\ \A n \in 1 .. N : Len(P[n]) \in Nat /\ Len(P[n]) >= 1
      /\ FieldsOf[r] = FlattenSeq(P)
  BY PointsType
<1> HIDE DEF P, N
<1>2. FlattenSeq(P) \in Seq(Writable)
  BY <1>1, FlattenRec
<1>3. Upto(P, 0) = 0 /\ Upto(P, N) = Len(FlattenSeq(P))
  BY <1>1, UptoEnds
<1>4. 0 .. N \subseteq T
  <2>1. 0 \in T
    BY <1>1, <1>3
  <2>2. ASSUME NEW n \in 0 .. N - 1, n \in T PROVE n + 1 \in T
    <3> DEFINE m == n + 1
    <3>1. m \in 1 .. N /\ m - 1 = n /\ m \in 0 .. N
      BY <1>1
    <3> HIDE DEF m
    <3>2. m \in 1 .. Len(P)
      BY <1>1, <3>1
    <3>3. Upto(P, m) = Upto(P, m - 1) + Len(P[m]) /\ Upto(P, m - 1) \in Nat
      BY <1>1, <3>2, PartLies
    <3>4. Upto(P, n) >= n /\ Len(P[m]) >= 1 /\ Len(P[m]) \in Nat
      BY <1>1, <2>2, <3>1
    <3>5. Upto(P, m) >= m
      BY <3>1, <3>3, <3>4
    <3> QED BY <3>1, <3>5 DEF m
  <2> HIDE DEF T
  <2> QED BY <1>1, <2>1, <2>2, BoundedInduction
<1>5. Len(FlattenSeq(P)) >= N
  <2>1. N \in 0 .. N
    BY <1>1
  <2> QED BY <1>3, <1>4, <2>1
<1>6. Len(FlattenSeq(P)) >= 1
  <2>1. Len(FlattenSeq(P)) \in Nat
    BY <1>2, LenProperties
  <2> QED BY <1>1, <1>5, <2>1
<1> QED BY <1>1, <1>2, <1>5, <1>6 DEF N

\* The fields of a packet.
PartOf(p) == SubSeq(FieldsOf[p.r], p.i, p.j)

LEMMA PartType ==
    ASSUME NEW p \in StatusPackets
    PROVE  /\ PartOf(p) \in Seq(Writable) /\ PartOf(p) # <<>> /\ Len(PartOf(p)) = p.j - p.i + 1
           /\ \A k \in 1 .. p.j - p.i + 1 : PartOf(p)[k] = FieldsOf[p.r][p.i + k - 1]
           /\ Payload(p) \in Seq(Byte) /\ ParseFields(Payload(p)) = PartOf(p)
<1> DEFINE F == FieldsOf[p.r]
<1>1. /\ p.r \in DOMAIN Reports /\ p.i \in Nat /\ p.j \in Nat
      /\ 1 <= p.i /\ p.i <= p.j /\ p.j <= Len(F)
  BY DEF StatusPackets
<1>2. F \in Seq(Writable)
  BY <1>1, FieldsOfType
<1> DEFINE i == p.i
           j == p.j
           q == SubSeq(F, i, j)
<1>3. q \in Seq(Writable) /\ Len(q) = j - i + 1 /\ \A k \in 1 .. j - i + 1 : q[k] = F[i + k - 1]
  <2>1. i \in Nat /\ j \in Nat /\ 1 <= i /\ i <= j /\ j <= Len(F)
    BY <1>1
  <2> HIDE DEF i, j, F
  <2>2. \A k \in i .. j : F[k] \in Writable
    <3> TAKE k \in i .. j
    <3>1. k \in 1 .. Len(F)
      BY <2>1
    <3> QED BY <3>1, <1>2
  <2> QED BY <1>2, <2>1, <2>2, SubSeqProperties
<1>4. Len(q) >= 1
  BY <1>1, <1>3
<1>5. PartOf(p) = q /\ Payload(p) = BuildFields(q)
  BY DEF PartOf, Payload
<1> HIDE DEF q, F
<1>6. BuildFields(q) \in Seq(Byte) /\ ParseFields(BuildFields(q)) = q /\ q # <<>>
  BY <1>3, <1>4, WrittenType, FieldsRoundTrip
<1> QED BY <1>3, <1>5, <1>6 DEF i, j, F

\* What lies at each place of what was sent.
SentParts(packets) == [n \in DOMAIN packets |-> PartOf(packets[n])]

LEMMA SentType ==
    ASSUME NEW s \in Seq(StatusPackets)
    PROVE  /\ SentParts(s) \in Seq(Seq(Writable)) /\ Len(SentParts(s)) = Len(s)
           /\ Sent(s) = FlattenSeq(SentParts(s)) /\ Sent(s) \in Seq(Writable)
<1>1. DOMAIN s = 1 .. Len(s) /\ Len(s) \in Nat
  BY LenProperties
<1>2. \A n \in 1 .. Len(s) : PartOf(s[n]) \in Seq(Writable)
  <2> TAKE n \in 1 .. Len(s)
  <2>1. s[n] \in StatusPackets
    OBVIOUS
  <2> QED BY <2>1, PartType
<1>3. SentParts(s) = [n \in 1 .. Len(s) |-> PartOf(s[n])]
  BY <1>1 DEF SentParts
<1>4. SentParts(s) \in Seq(Seq(Writable)) /\ Len(SentParts(s)) = Len(s)
  BY <1>1, <1>2, <1>3
<1>5. Sent(s) = FlattenSeq(SentParts(s))
  BY DEF Sent, SentParts, PartOf
<1> QED BY <1>4, <1>5, FlattenRec

LEMMA SentAppend ==
    ASSUME NEW s \in Seq(StatusPackets), NEW p \in StatusPackets
    PROVE  /\ Sent(Append(s, p)) = Sent(s) \o PartOf(p) /\ Append(s, p) \in Seq(StatusPackets)
           /\ Sent(s) \o PartOf(p) # <<>>
<1> DEFINE t == Append(s, p)
           ss == SentParts(s)
           q == PartOf(p)
<1>1. /\ t \in Seq(StatusPackets) /\ Len(t) = Len(s) + 1 /\ DOMAIN t = 1 .. Len(s) + 1 /\ Len(s) \in Nat
      /\ t[Len(s) + 1] = p /\ \A n \in 1 .. Len(s) : t[n] = s[n]
  BY AppendProperties
<1>2. ss \in Seq(Seq(Writable)) /\ Len(ss) = Len(s) /\ Sent(s) = FlattenSeq(ss)
  BY SentType
<1>3. \A n \in 1 .. Len(s) : ss[n] = PartOf(s[n])
  BY DEF SentParts
<1>4. q \in Seq(Writable) /\ q # <<>>
  BY PartType
<1> HIDE DEF t, ss
<1>5. SentParts(t) = Append(ss, q)
  <2>1. /\ Append(ss, q) \in Seq(Seq(Writable)) /\ Len(Append(ss, q)) = Len(s) + 1
        /\ Append(ss, q)[Len(s) + 1] = q /\ \A n \in 1 .. Len(s) : Append(ss, q)[n] = ss[n]
    <3> HIDE DEF q
    <3>1. /\ Append(ss, q) \in Seq(Seq(Writable)) /\ Len(Append(ss, q)) = Len(ss) + 1
          /\ Append(ss, q)[Len(ss) + 1] = q /\ \A n \in 1 .. Len(ss) : Append(ss, q)[n] = ss[n]
      <4>1. q \in Seq(Writable) /\ ss \in Seq(Seq(Writable))
        BY <1>2, <1>4
      <4> QED BY <4>1, AppendProperties
    <3> QED BY <3>1, <1>2
  <2>2. /\ SentParts(t) \in Seq(Seq(Writable)) /\ Len(SentParts(t)) = Len(s) + 1
    BY <1>1, SentType
  <2>3. \A n \in 1 .. Len(s) + 1 : SentParts(t)[n] = PartOf(t[n])
    BY <1>1 DEF SentParts
  <2>4. \A n \in 1 .. Len(s) + 1 : SentParts(t)[n] = Append(ss, q)[n]
    <3> HIDE DEF q
    <3> TAKE n \in 1 .. Len(s) + 1
    <3>1. CASE n \in 1 .. Len(s)
      BY <3>1, <2>1, <2>3, <1>1, <1>3
    <3>2. CASE n = Len(s) + 1
      BY <3>2, <2>1, <2>3, <1>1 DEF q
    <3>3. n \in 1 .. Len(s) \/ n = Len(s) + 1
      BY <1>1
    <3> QED BY <3>1, <3>2, <3>3
  <2> HIDE DEF q
  <2>5. Len(SentParts(t)) = Len(Append(ss, q)) /\ \A n \in 1 .. Len(SentParts(t)) : SentParts(t)[n] = Append(ss, q)[n]
    BY <2>1, <2>2, <2>4
  <2> QED BY <2>1, <2>2, <2>5, SeqEqual
<1>6. FlattenSeq(Append(ss, q)) = FlattenSeq(ss) \o q
  <2> HIDE DEF q
  <2>1. ss \in Seq(Seq(Writable)) /\ q \in Seq(Writable)
    BY <1>2, <1>4
  <2> QED BY <2>1, FlattenAppend
<1>7. Sent(t) = FlattenSeq(SentParts(t)) /\ Sent(s) \in Seq(Writable)
  BY <1>1, SentType
<1>8. Sent(s) \o q # <<>>
  <2> DEFINE a == Sent(s)
  <2> HIDE DEF a, q
  <2>1. a \in Seq(Writable)
    BY <1>7 DEF a
  <2>2. a \o q # <<>>
    BY <2>1, <1>4
  <2> QED BY <2>2 DEF a
<1> QED BY <1>1, <1>2, <1>5, <1>6, <1>7, <1>8 DEF t

LEMMA AnswersType ==
    ASSUME NEW r \in DOMAIN Reports, NEW answer \in Answers[r]
    PROVE  answer \in Seq(StatusPackets)
<1> DEFINE n == Len(FieldsOf[r])
<1>1. n \in Nat /\ n >= 1
  BY FieldsOfType
<1>2. \/ answer = <<Status(r, 1, n)>>
      \/ \E k \in 1 .. n - 1 : answer = <<Status(r, 1, k), Status(r, k + 1, n)>>
  BY DEF Answers
<1>3. ASSUME NEW i \in Nat, NEW j \in Nat, 1 <= i, i <= j, j <= n PROVE Status(r, i, j) \in StatusPackets
  BY <1>3 DEF Status, StatusPackets
<1>4. Status(r, 1, n) \in StatusPackets
  <2> HIDE DEF n
  <2>1. 1 \in Nat /\ 1 <= 1 /\ 1 <= n /\ n <= n
    BY <1>1
  <2> QED BY <1>1, <1>3, <2>1
<1>5. ASSUME NEW k \in 1 .. n - 1 PROVE Status(r, 1, k) \in StatusPackets /\ Status(r, k + 1, n) \in StatusPackets
  <2> HIDE DEF n
  <2>1. 1 \in Nat /\ 1 <= 1 /\ k \in Nat /\ 1 <= k /\ k <= n /\ k + 1 \in Nat /\ 1 <= k + 1 /\ k + 1 <= n /\ n <= n
    BY <1>1
  <2>2. Status(r, 1, k) \in StatusPackets
    BY <1>3, <2>1
  <2> DEFINE m == k + 1
  <2>3. m \in Nat /\ 1 <= m /\ m <= n
    BY <2>1
  <2> HIDE DEF m
  <2>4. Status(r, m, n) \in StatusPackets
    BY <1>1, <1>3, <2>1, <2>3
  <2> QED BY <2>2, <2>4 DEF m
<1> HIDE DEF n
<1>6. CASE answer = <<Status(r, 1, n)>>
  BY <1>4, <1>6
<1>7. CASE \E k \in 1 .. n - 1 : answer = <<Status(r, 1, k), Status(r, k + 1, n)>>
  BY <1>5, <1>7
<1> QED BY <1>2, <1>6, <1>7

-----------------------------------------------------------------------------
(* A read has the very fields of the packets it took.                         *)

\* What a collection has of the packets it took.
Took(fs, from) == from \in Seq(StatusPackets) /\ fs = Sent(from) /\ (fs = <<>> => from = <<>>)

BoundsInv ==
    /\ made \in 0 .. Len(Reports) /\ owed \in 0 .. MaxOwed
    /\ phase \in {"idle", "first", "second"} /\ budget \in 1 .. MaxPackets
StreamInv == stream \in Seq(Packets)
TakenInv ==
    /\ Took(fields, taken) /\ Len(taken) <= MaxPackets - budget
    /\ phase = "idle" => taken = <<>> /\ budget = MaxPackets
SourceInv == source \in Seq(StatusPackets) /\ Len(source) <= MaxPackets

ReadInv == BoundsInv /\ StreamInv /\ TakenInv /\ SourceInv

LEMMA Sizes == MaxPackets \in Nat \ {0} /\ MaxOwed \in Nat \ {0} /\ Len(Reports) \in Nat
  BY ConstantsAssumption DEF ConstantsAssumption

LEMMA TookNothing == Took(<<>>, <<>>)
<1>1. <<>> \in Seq(StatusPackets)
  OBVIOUS
<1>2. Sent(<<>>) = <<>>
  <2> DEFINE s == <<>>
  <2>1. s \in Seq(StatusPackets) /\ DOMAIN s = {}
    OBVIOUS
  <2>2. SentParts(s) = <<>>
    BY <2>1 DEF SentParts
  <2> HIDE DEF s
  <2>3. Sent(s) = FlattenSeq(SentParts(s))
    BY <2>1, SentType
  <2> QED BY <2>2, <2>3, FlattenEmpty DEF s
<1> QED BY <1>1, <1>2 DEF Took

LEMMA TookMore ==
    ASSUME NEW fs, NEW s, Took(fs, s), NEW p \in StatusPackets
    PROVE  /\ Took(fs \o ParseFields(Payload(p)), Append(s, p))
           /\ Len(Append(s, p)) = Len(s) + 1
<1>1. s \in Seq(StatusPackets) /\ fs = Sent(s)
  BY DEF Took
<1>2. ParseFields(Payload(p)) = PartOf(p)
  BY PartType
<1>3. /\ Sent(Append(s, p)) = Sent(s) \o PartOf(p) /\ Append(s, p) \in Seq(StatusPackets)
      /\ Sent(s) \o PartOf(p) # <<>>
  BY <1>1, SentAppend
<1>4. Len(Append(s, p)) = Len(s) + 1
  BY <1>1, AppendProperties
<1> QED BY <1>1, <1>2, <1>3, <1>4 DEF Took

LEMMA PacketKinds ==
    ASSUME NEW p \in Packets
    PROVE  (p.cmd = "status" <=> p \in StatusPackets) /\ (p.cmd = "status" \/ p \in Others)
  BY DEF Packets, StatusPackets, Others

LEMMA ReadStarts == Init => ReadInv
<1> SUFFICES ASSUME Init PROVE ReadInv
  OBVIOUS
<1> USE DEF Init
<1>1. BoundsInv
  BY Sizes DEF BoundsInv
<1>2. StreamInv
  BY DEF StreamInv
<1>3. TakenInv
  BY Sizes, TookNothing DEF TakenInv
<1>4. SourceInv
  BY Sizes DEF SourceInv
<1> QED BY <1>1, <1>2, <1>3, <1>4 DEF ReadInv

\* The end of a collection, which may be the beginning of the second.
LEMMA CollectionEnds ==
    ASSUME ReadInv, NEW fs, NEW from, Took(fs, from), Len(from) <= MaxPackets,
           CollectEnds(fs, from), StreamInv'
    PROVE  ReadInv'
<1>1. from \in Seq(StatusPackets)
  BY DEF Took
<1>2. CASE fs = <<>> /\ phase = "first"
  <2>1. /\ owed < MaxOwed /\ owed' = owed + 1 /\ phase' = "second" /\ budget' = MaxPackets
        /\ fields' = fs /\ taken' = from /\ made' = made /\ data' = data /\ source' = source
    BY <1>2 DEF CollectEnds, Request, shown
  <2>2. from = <<>>
    BY <1>2 DEF Took
  <2>3. BoundsInv'
    BY <2>1, Sizes DEF ReadInv, BoundsInv
  <2>4. TakenInv'
    BY <2>1, <2>2, Sizes DEF TakenInv
  <2>5. SourceInv'
    BY <2>1 DEF ReadInv, SourceInv
  <2> QED BY <2>3, <2>4, <2>5 DEF ReadInv
<1>3. CASE ~(fs = <<>> /\ phase = "first")
  <2>1. ReadEnds(fs, from)
    BY <1>3 DEF CollectEnds
  <2>2. /\ phase' = "idle" /\ budget' = MaxPackets /\ fields' = <<>> /\ taken' = <<>>
        /\ source' = from \/ source' = source
        /\ made' = made /\ owed' = owed
    BY <2>1 DEF ReadEnds, shown, device
  <2>3. BoundsInv'
    BY <2>2, Sizes DEF ReadInv, BoundsInv
  <2>4. TakenInv'
    BY <2>2, Sizes, TookNothing DEF TakenInv
  <2>5. SourceInv'
    BY <2>2, <1>1 DEF ReadInv, SourceInv
  <2> QED BY <2>3, <2>4, <2>5 DEF ReadInv
<1> QED BY <1>2, <1>3

\* A packet more, the last one that the collection may take or not.
LEMMA CollectionGoesOn ==
    ASSUME ReadInv, phase # "idle", NEW fs, NEW from, Took(fs, from),
           Len(from) <= MaxPackets - budget + 1, CollectMore(fs, from), StreamInv'
    PROVE  ReadInv'
<1>1. from \in Seq(StatusPackets) /\ Len(from) \in Nat
  BY DEF Took
<1>2. budget \in 1 .. MaxPackets
  BY DEF ReadInv, BoundsInv
<1>3. CASE budget = 1
  <2>1. Len(from) <= MaxPackets /\ CollectEnds(fs, from)
    BY <1>1, <1>3, Sizes DEF CollectMore
  <2> QED BY <2>1, CollectionEnds
<1>4. CASE budget # 1
  <2>1. /\ budget' = budget - 1 /\ fields' = fs /\ taken' = from
        /\ made' = made /\ owed' = owed /\ phase' = phase /\ data' = data /\ source' = source
    BY <1>4 DEF CollectMore, device, shown
  <2>2. BoundsInv'
    BY <2>1, <1>2, <1>4, Sizes DEF ReadInv, BoundsInv
  <2>3. TakenInv'
    <3>1. Len(from) <= MaxPackets - (budget - 1)
      BY <1>1, <1>2, Sizes
    <3> QED BY <2>1, <3>1 DEF TakenInv
  <2>4. SourceInv'
    BY <2>1 DEF ReadInv, SourceInv
  <2> QED BY <2>2, <2>3, <2>4 DEF ReadInv
<1> QED BY <1>3, <1>4

LEMMA ReadGoesOn == ReadInv /\ [Next]_vars => ReadInv'
<1> SUFFICES ASSUME ReadInv, [Next]_vars PROVE ReadInv'
  OBVIOUS
<1>0. /\ BoundsInv /\ StreamInv /\ TakenInv /\ SourceInv
      /\ stream \in Seq(Packets)
  BY DEF ReadInv, StreamInv
<1>t. stream # <<>> => Tail(stream) \in Seq(Packets) /\ Head(stream) \in Packets
  BY <1>0, HeadTailProperties
<1>1. CASE Answer
  <2>1. /\ owed > 0 /\ made < Len(Reports) /\ owed' = owed - 1 /\ made' = made + 1
        /\ phase' = phase /\ budget' = budget /\ fields' = fields /\ taken' = taken
        /\ data' = data /\ source' = source
        /\ \E answer \in Answers[made'] : stream' = stream \o answer
    BY <1>1 DEF Answer, read, shown
  <2>2. PICK answer \in Answers[made'] : stream' = stream \o answer
    BY <2>1
  <2>3. made' \in DOMAIN Reports
    <3>1. made' \in 1 .. Len(Reports)
      BY <1>0, <2>1, Sizes DEF BoundsInv
    <3>2. DOMAIN Reports = 1 .. Len(Reports)
      BY ConstantsAssumption, LenProperties DEF ConstantsAssumption
    <3> QED BY <3>1, <3>2
  <2>4. answer \in Seq(Packets)
    <3>1. answer \in Seq(StatusPackets)
      BY <2>2, <2>3, AnswersType
    <3>2. StatusPackets \subseteq Packets
      BY DEF Packets
    <3> QED BY <3>1, <3>2, SeqMonotonic
  <2>5. StreamInv'
    BY <1>0, <2>2, <2>4, ConcatProperties DEF StreamInv
  <2>6. BoundsInv'
    BY <1>0, <2>1, Sizes DEF BoundsInv
  <2>7. TakenInv' /\ SourceInv'
    BY <1>0, <2>1 DEF TakenInv, SourceInv
  <2> QED BY <2>5, <2>6, <2>7 DEF ReadInv
<1>2. CASE SendOther
  <2>1. /\ made' = made /\ owed' = owed /\ phase' = phase /\ budget' = budget /\ fields' = fields
        /\ taken' = taken /\ data' = data /\ source' = source
        /\ \E p \in Others : stream' = <<p>>
    BY <1>2 DEF SendOther, device, read, shown
  <2>2. StreamInv'
    BY <2>1 DEF StreamInv, Packets
  <2> QED BY <1>0, <2>1, <2>2 DEF ReadInv, BoundsInv, TakenInv, SourceInv
<1>3. CASE HangUp
  <2>1. /\ owed' = 0 /\ stream' = <<>> /\ phase' = "idle" /\ budget' = MaxPackets
        /\ fields' = <<>> /\ taken' = <<>> /\ made' = made /\ data' = data /\ source' = source
    BY <1>3 DEF HangUp, shown
  <2>2. BoundsInv'
    BY <1>0, <2>1, Sizes DEF BoundsInv
  <2>3. StreamInv'
    BY <2>1 DEF StreamInv
  <2>4. TakenInv'
    BY <2>1, Sizes, TookNothing DEF TakenInv
  <2>5. SourceInv'
    BY <1>0, <2>1 DEF SourceInv
  <2> QED BY <2>2, <2>3, <2>4, <2>5 DEF ReadInv
<1>4. CASE WriteTakes
  <2>1. /\ stream # <<>> /\ stream' = Tail(stream)
        /\ made' = made /\ owed' = owed /\ phase' = phase /\ budget' = budget /\ fields' = fields
        /\ taken' = taken /\ data' = data /\ source' = source
    BY <1>4 DEF WriteTakes, device, read, shown
  <2>2. StreamInv'
    BY <1>t, <2>1 DEF StreamInv
  <2> QED BY <1>0, <2>1, <2>2 DEF ReadInv, BoundsInv, TakenInv, SourceInv
<1>5. CASE ReadBegin
  <2>1. /\ phase = "idle" /\ owed < MaxOwed /\ owed' = owed + 1 /\ phase' = "first" /\ budget' = MaxPackets
        /\ made' = made /\ stream' = stream /\ fields' = fields /\ taken' = taken
        /\ data' = data /\ source' = source
    BY <1>5 DEF ReadBegin, Request, shown
  <2>2. BoundsInv'
    BY <1>0, <2>1, Sizes DEF BoundsInv
  <2>3. TakenInv'
    BY <1>0, <2>1, Sizes DEF TakenInv
  <2>4. StreamInv' /\ SourceInv'
    BY <1>0, <2>1 DEF StreamInv, SourceInv
  <2> QED BY <2>2, <2>3, <2>4 DEF ReadInv
<1>6. Took(fields, taken) /\ Len(taken) \in Nat /\ budget \in 1 .. MaxPackets /\ Len(taken) <= MaxPackets - budget
  <2>1. Took(fields, taken) /\ taken \in Seq(StatusPackets)
    BY <1>0 DEF TakenInv, Took
  <2> QED BY <1>0, <2>1 DEF TakenInv, BoundsInv
<1>7. CASE CollectPacket
  <2> DEFINE p == Head(stream)
  <2>1. /\ phase # "idle" /\ stream # <<>> /\ stream' = Tail(stream)
        /\ CASE p.cmd = "void" -> CollectMore(fields, taken)
             [] p.cmd = "status" -> CollectMore(fields \o ParseFields(Payload(p)), Append(taken, p))
             [] OTHER -> CollectEnds(fields, taken)
    BY <1>7 DEF CollectPacket
  <2>2. StreamInv' /\ p \in Packets
    BY <1>t, <2>1 DEF StreamInv
  <2> HIDE DEF p
  <2>3. CASE p.cmd = "status"
    <3>1. p \in StatusPackets
      BY <2>2, <2>3, PacketKinds
    <3> DEFINE fs == fields \o ParseFields(Payload(p))
               from == Append(taken, p)
    <3>2. Took(fs, from) /\ Len(from) = Len(taken) + 1
      BY <1>6, <3>1, TookMore
    <3>3. CollectMore(fs, from)
      BY <2>1, <2>3
    <3> HIDE DEF fs, from
    <3>4. Len(from) <= MaxPackets - budget + 1
      BY <1>6, <3>2, Sizes
    <3> QED BY <2>1, <2>2, <3>2, <3>3, <3>4, CollectionGoesOn
  <2>4. CASE p.cmd = "void"
    <3>1. CollectMore(fields, taken)
      BY <2>1, <2>4
    <3>2. Len(taken) <= MaxPackets - budget + 1
      BY <1>6, Sizes
    <3> QED BY <1>6, <2>1, <2>2, <3>1, <3>2, CollectionGoesOn
  <2>5. CASE p.cmd # "status" /\ p.cmd # "void"
    <3>1. CollectEnds(fields, taken)
      BY <2>1, <2>5
    <3>2. Len(taken) <= MaxPackets
      BY <1>6, Sizes
    <3> QED BY <1>6, <2>2, <3>1, <3>2, CollectionEnds
  <2> QED BY <2>3, <2>4, <2>5
<1>8. CASE CollectTimeout
  <2>1. CollectEnds(fields, taken) /\ stream' = stream
    BY <1>8 DEF CollectTimeout
  <2>2. StreamInv' /\ Len(taken) <= MaxPackets
    BY <1>0, <1>6, <2>1, Sizes DEF StreamInv
  <2> QED BY <1>6, <2>1, <2>2, CollectionEnds
<1>9. CASE UNCHANGED vars
  BY <1>0, <1>9 DEF ReadInv, BoundsInv, StreamInv, TakenInv, SourceInv, vars, device, read, shown
<1> QED BY <1>1, <1>2, <1>3, <1>4, <1>5, <1>7, <1>8, <1>9 DEF Next

LEMMA ReadKept == Spec => []ReadInv
<1>1. Init => ReadInv
  BY ReadStarts
<1>2. ReadInv /\ [Next]_vars => ReadInv'
  BY ReadGoesOn
<1> QED BY <1>1, <1>2, PTL DEF Spec

\* For any reports and any bounds, a read has the very fields that the device wrote
\* into the packets it took, and never more packets than its collections may take:
\* not the fields of a packet that a write took, nor those of the read before.
THEOREM FieldsAreSent == Spec => []TypeOK
<1>1. ReadInv => TypeOK
  <2> SUFFICES ASSUME ReadInv PROVE TypeOK
    OBVIOUS
  <2>1. BoundsInv /\ stream \in Seq(Packets) /\ TakenInv /\ SourceInv
    BY DEF ReadInv, StreamInv
  <2>2. \A n \in DOMAIN stream : stream[n].cmd = "status" \/ stream[n] \in Others
    <3> TAKE n \in DOMAIN stream
    <3>1. stream[n] \in Packets
      BY <2>1, LenProperties, ElementOfSeq
    <3> QED BY <3>1, PacketKinds
  <2>3. Took(fields, taken) /\ Len(taken) \in Nat /\ Len(taken) <= MaxPackets - budget /\ budget \in 1 .. MaxPackets
    <3>1. Took(fields, taken) /\ taken \in Seq(StatusPackets)
      BY <2>1 DEF TakenInv, Took
    <3> QED BY <2>1, <3>1 DEF TakenInv, BoundsInv
  <2>4. Len(taken) <= MaxPackets /\ fields = Sent(taken)
    BY <2>3, Sizes DEF Took
  <2> QED BY <2>1, <2>2, <2>4 DEF TypeOK, BoundsInv, SourceInv
<1> QED BY <1>1, ReadKept, PTL

-----------------------------------------------------------------------------
(* A payload that ends too soon.                                              *)

\* The first k bytes of a payload.
IsCut(c, p, k) ==
    /\ c \in Seq(Byte) /\ p \in Seq(Byte) /\ k \in 0 .. Len(p)
    /\ Len(c) = k /\ \A x \in 1 .. k : c[x] = p[x]

\* What may be lost of the fields.
Loses(cut, whole) ==
    /\ Len(cut) <= Len(whole)
    /\ \A m \in DOMAIN cut :
        \/ cut[m] = whole[m]
        \/ m = Len(cut) /\ cut[m].type = "BYTES" /\ whole[m].type = "BYTES"
           /\ cut[m].id = whole[m].id /\ IsPrefix(cut[m].val, whole[m].val)

\* A slice ends with its payload.
SliceEnd(p, i, n) == IF i + n - 1 <= Len(p) THEN i + n - 1 ELSE Len(p)

LEMMA SliceIs ==
    ASSUME NEW p \in Seq(Byte), NEW i \in Nat \ {0}, NEW n \in Nat
    PROVE  /\ Slice(p, i, n) \in Seq(Byte)
           /\ Len(Slice(p, i, n)) = IF i <= SliceEnd(p, i, n) THEN SliceEnd(p, i, n) - i + 1 ELSE 0
           /\ \A x \in 1 .. Len(Slice(p, i, n)) : Slice(p, i, n)[x] = p[i + x - 1]
<1> DEFINE e == SliceEnd(p, i, n)
<1>1. e \in Int /\ e <= Len(p) /\ Len(p) \in Nat
  BY DEF SliceEnd
<1>2. \A x \in i .. e : p[x] \in Byte
  <2> TAKE x \in i .. e
  <2>1. x \in 1 .. Len(p)
    BY <1>1
  <2> QED BY <2>1
<1>3. Slice(p, i, n) = SubSeq(p, i, e)
  BY DEF Slice, SliceEnd
<1> HIDE DEF e
<1>4. /\ SubSeq(p, i, e) \in Seq(Byte)
      /\ Len(SubSeq(p, i, e)) = IF i <= e THEN e - i + 1 ELSE 0
      /\ \A x \in 1 .. e - i + 1 : SubSeq(p, i, e)[x] = p[i + x - 1]
  BY <1>1, <1>2, SubSeqProperties
<1>5. \A x \in 1 .. Len(SubSeq(p, i, e)) : x \in 1 .. e - i + 1
  BY <1>1, <1>4
<1> QED BY <1>3, <1>4, <1>5 DEF e

LEMMA PrefixIs ==
    ASSUME NEW S, NEW s \in Seq(S), NEW t \in Seq(S), Len(s) <= Len(t), \A x \in 1 .. Len(s) : s[x] = t[x]
    PROVE  IsPrefix(s, t)
<1> DEFINE n == Len(s)
           a == SubSeq(s, 1, n)
           b == SubSeq(t, 1, n)
<1>1. n \in Nat /\ Len(t) \in Nat /\ n <= Len(t) /\ (\A x \in 1 .. n : s[x] \in S) /\ (\A x \in 1 .. n : t[x] \in S)
  BY ElementOfSeq, LenProperties
<1>2. a \in Seq(S) /\ Len(a) = n /\ \A x \in 1 .. n : a[x] = s[x]
  <2> HIDE DEF n
  <2> QED BY <1>1, SubSeqProperties
<1>3. b \in Seq(S) /\ Len(b) = n /\ \A x \in 1 .. n : b[x] = t[x]
  <2> HIDE DEF n
  <2> QED BY <1>1, SubSeqProperties
<1>4. \A x \in 1 .. n : s[x] = t[x]
  OBVIOUS
<1> HIDE DEF a, b, n
<1>5. a = b
  <2>1. Len(a) = Len(b) /\ \A x \in 1 .. Len(a) : a[x] = b[x]
    BY <1>2, <1>3, <1>4
  <2> QED BY <1>2, <1>3, <2>1, SeqEqual
<1> QED BY <1>1, <1>5 DEF IsPrefix, a, b, n

LEMMA SliceOfCut ==
    ASSUME NEW c, NEW p, NEW k, IsCut(c, p, k), NEW i \in Nat \ {0}, NEW n \in Nat
    PROVE  /\ i + n - 1 <= k => Slice(c, i, n) = Slice(p, i, n)
           /\ IsPrefix(Slice(c, i, n), Slice(p, i, n))
<1> DEFINE s == Slice(c, i, n)
           t == Slice(p, i, n)
           d == SliceEnd(c, i, n)
           e == SliceEnd(p, i, n)
<1>1. /\ c \in Seq(Byte) /\ p \in Seq(Byte) /\ k \in Nat /\ Len(p) \in Nat /\ k <= Len(p) /\ Len(c) = k
      /\ \A x \in 1 .. k : c[x] = p[x]
  BY DEF IsCut
<1>2. /\ s \in Seq(Byte) /\ Len(s) = (IF i <= d THEN d - i + 1 ELSE 0)
      /\ \A x \in 1 .. Len(s) : s[x] = c[i + x - 1]
  BY <1>1, SliceIs
<1>3. /\ t \in Seq(Byte) /\ Len(t) = (IF i <= e THEN e - i + 1 ELSE 0)
      /\ \A x \in 1 .. Len(t) : t[x] = p[i + x - 1]
  BY <1>1, SliceIs
<1>4. /\ d \in Int /\ e \in Int /\ d <= e /\ d <= k /\ (i + n - 1 <= k => d = e)
  BY <1>1 DEF SliceEnd
<1> HIDE DEF s, t, d, e
<1>5. Len(s) \in Nat /\ Len(t) \in Nat /\ Len(s) <= Len(t) /\ (i + n - 1 <= k => Len(s) = Len(t))
  BY <1>2, <1>3, <1>4, SMTT(30)
<1>6. \A x \in 1 .. Len(s) : s[x] = t[x]
  <2> TAKE x \in 1 .. Len(s)
  <2>1. x \in 1 .. Len(t) /\ i + x - 1 \in 1 .. k
    <3>1. x \in Nat /\ x >= 1 /\ x <= Len(s) /\ Len(s) = (IF i <= d THEN d - i + 1 ELSE 0)
      BY <1>2, <1>5
    <3>2. i <= d
      BY <1>4, <3>1
    <3>3. i + x - 1 <= d
      BY <1>4, <3>1, <3>2
    <3> QED BY <1>1, <1>4, <1>5, <3>1, <3>3
  <2> DEFINE y == i + x - 1
  <2>2. y \in 1 .. k
    BY <2>1
  <2>3. s[x] = c[y] /\ t[x] = p[y]
    BY <2>1, <1>2, <1>3
  <2> HIDE DEF y
  <2> QED BY <2>2, <2>3, <1>1
<1>7. IsPrefix(s, t)
  BY <1>2, <1>3, <1>5, <1>6, PrefixIs
<1>8. i + n - 1 <= k => s = t
  BY <1>2, <1>3, <1>5, <1>6, SeqEqual
<1> QED BY <1>7, <1>8 DEF s, t

\* What is found at a place that the payload has lost nothing before.
CutHead(c, p, i) ==
    \/ FieldAt(c, i) = <<>>
    \/ FieldAt(c, i) = FieldAt(p, i) /\ AfterField(c, i) = AfterField(p, i)
    \/ \E id, s, t : /\ FieldAt(c, i) = <<Field(id, "BYTES", s)>> /\ FieldAt(p, i) = <<Field(id, "BYTES", t)>>
                     /\ IsPrefix(s, t) /\ AfterField(c, i) > Len(c)

LEMMA WordOfCut ==
    ASSUME NEW c, NEW p, NEW k, IsCut(c, p, k), NEW i \in Nat \ {0}, i < k
    PROVE  WordAt(c, i) = WordAt(p, i) /\ c[i + 1] = p[i + 1]
<1>1. k \in Nat /\ i + 2 - 1 <= k /\ i + 1 \in 1 .. k
  BY DEF IsCut
<1> DEFINE n == 2
<1>2. n \in Nat /\ i + n - 1 <= k
  BY <1>1
<1> HIDE DEF n
<1>3. Slice(c, i, n) = Slice(p, i, n)
  BY <1>2, SliceOfCut
<1>4. c[i + 1] = p[i + 1]
  BY <1>1 DEF IsCut
<1> QED BY <1>3, <1>4 DEF WordAt, n

LEMMA HeadOfCut ==
    ASSUME NEW c, NEW p, NEW k, IsCut(c, p, k), NEW i \in Nat \ {0}, i < k
    PROVE  CutHead(c, p, i)
<1> DEFINE type == p[i + 1] % 8
           at == i + 2
           id == WordAt(p, i) \div 8
           word == WordAt(p, at)
<1>1. /\ c \in Seq(Byte) /\ p \in Seq(Byte) /\ k \in Nat /\ Len(p) \in Nat /\ k <= Len(p) /\ Len(c) = k
      /\ \A x \in 1 .. k : c[x] = p[x]
  BY DEF IsCut
<1>2. WordAt(c, i) = WordAt(p, i) /\ c[i + 1] = p[i + 1]
  BY WordOfCut
<1>3. at \in Nat \ {0}
  OBVIOUS
<1>4. /\ FieldAt(c, i) =
           CASE type \in {0, 1} -> <<Field(id, "BOOL", <<type>>)>>
             [] type = 2 /\ Fits(c, at) ->
                   <<Field(id, "NUM", Number(c[at], FromBytes(Slice(c, at + 1, Size(c[at])))))>>
             [] type \in {3, 5} /\ at < Len(c) -> <<Field(id, "BYTES", Slice(c, at + 2, WordAt(c, at)))>>
             [] type = 4 /\ at < Len(c) -> <<Field(id, "STRUCT", <<WordAt(c, at)>>)>>
             [] OTHER -> <<>>
      /\ AfterField(c, i) =
           CASE type \in {0, 1} -> at
             [] type = 2 /\ Fits(c, at) -> at + 1 + Size(c[at])
             [] type \in {3, 5} /\ at < Len(c) -> at + 2 + WordAt(c, at)
             [] type = 4 /\ at < Len(c) -> at + 2
             [] OTHER -> at
  BY <1>2 DEF FieldAt, AfterField
<1>5. /\ FieldAt(p, i) =
           CASE type \in {0, 1} -> <<Field(id, "BOOL", <<type>>)>>
             [] type = 2 /\ Fits(p, at) ->
                   <<Field(id, "NUM", Number(p[at], FromBytes(Slice(p, at + 1, Size(p[at])))))>>
             [] type \in {3, 5} /\ at < Len(p) -> <<Field(id, "BYTES", Slice(p, at + 2, word))>>
             [] type = 4 /\ at < Len(p) -> <<Field(id, "STRUCT", <<word>>)>>
             [] OTHER -> <<>>
      /\ AfterField(p, i) =
           CASE type \in {0, 1} -> at
             [] type = 2 /\ Fits(p, at) -> at + 1 + Size(p[at])
             [] type \in {3, 5} /\ at < Len(p) -> at + 2 + word
             [] type = 4 /\ at < Len(p) -> at + 2
             [] OTHER -> at
  BY DEF FieldAt, AfterField
<1>6. at < Len(c) => at < Len(p) /\ WordAt(c, at) = word /\ word \in Nat
  <2> HIDE DEF at
  <2> SUFFICES ASSUME at < Len(c) PROVE at < Len(p) /\ WordAt(c, at) = WordAt(p, at) /\ WordAt(p, at) \in Nat
    BY DEF word
  <2>1. at < k /\ at < Len(p)
    BY <1>1, <1>3
  <2>2. WordAt(c, at) = WordAt(p, at)
    BY <1>3, <2>1, WordOfCut
  <2>3. Slice(p, at, 2) \in Seq(Byte)
    BY <1>1, <1>3, SliceType
  <2> QED BY <2>1, <2>2, <2>3, FewBytes DEF WordAt
<1>7. Fits(c, at) => /\ Fits(p, at) /\ c[at] = p[at]
                     /\ Slice(c, at + 1, Size(p[at])) = Slice(p, at + 1, Size(p[at]))
  <2> HIDE DEF at
  <2> SUFFICES ASSUME Fits(c, at)
               PROVE  /\ Fits(p, at) /\ c[at] = p[at]
                      /\ Slice(c, at + 1, Size(p[at])) = Slice(p, at + 1, Size(p[at]))
    OBVIOUS
  <2>1. at \in 1 .. k /\ at \in 1 .. Len(p) /\ at + Size(c[at]) <= k
    BY <1>1, <1>3 DEF Fits
  <2>2. c[at] = p[at] /\ p[at] \in Byte
    BY <1>1, <2>1
  <2> DEFINE n == Size(p[at])
  <2>3. n \in Nat
    BY <2>2, ByteNumbers DEF Size
  <2> HIDE DEF n
  <2>4. at + n <= k /\ n = Size(p[at])
    BY <2>1, <2>2 DEF n
  <2>5. at + n <= Len(p) /\ at + 1 \in Nat \ {0} /\ at + 1 + n - 1 <= k /\ at <= Len(p)
    BY <1>1, <1>3, <2>1, <2>3, <2>4
  <2> DEFINE j == at + 1
  <2>6. j \in Nat \ {0} /\ j + n - 1 <= k
    BY <2>5
  <2> HIDE DEF j
  <2>7. Slice(c, j, n) = Slice(p, j, n)
    BY <2>3, <2>6, SliceOfCut
  <2> QED BY <2>2, <2>4, <2>5, <2>7 DEF Fits, j
<1> DEFINE fc == FieldAt(c, i)
           fp == FieldAt(p, i)
           nc == AfterField(c, i)
           np == AfterField(p, i)
<1>8. CASE type \in {0, 1}
  <2>1. fc = fp /\ nc = np
    BY <1>4, <1>5, <1>8
  <2> QED BY <2>1 DEF CutHead
<1>9. CASE type = 2
  <2>1. CASE Fits(c, at)
    <3>1. fc = <<Field(id, "NUM", Number(c[at], FromBytes(Slice(c, at + 1, Size(c[at])))))>> /\ nc = at + 1 + Size(c[at])
      <4> HIDE DEF at, id, word
      <4> QED BY <1>4, <1>9, <2>1
    <3>2. fp = <<Field(id, "NUM", Number(p[at], FromBytes(Slice(p, at + 1, Size(p[at])))))>> /\ np = at + 1 + Size(p[at])
      <4> HIDE DEF at, id, word
      <4> QED BY <1>5, <1>7, <1>9, <2>1
    <3>3. fc = fp /\ nc = np
      <4> HIDE DEF at, id, word
      <4> QED BY <3>1, <3>2, <1>7, <2>1
    <3> QED BY <3>3 DEF CutHead
  <2>2. CASE ~Fits(c, at)
    <3>1. fc = <<>>
      <4> HIDE DEF at, id, word
      <4> QED BY <1>4, <1>9, <2>2
    <3> QED BY <3>1 DEF CutHead
  <2> QED BY <2>1, <2>2
<1>10. CASE type \in {3, 5}
  <2>1. CASE at < Len(c)
    <3> DEFINE j == at + 2
               s == Slice(c, j, word)
               t == Slice(p, j, word)
    <3>1. /\ fc = <<Field(id, "BYTES", s)>> /\ nc = at + 2 + word
          /\ fp = <<Field(id, "BYTES", t)>> /\ np = at + 2 + word
      <4> HIDE DEF at, id, word
      <4> QED BY <1>4, <1>5, <1>6, <1>10, <2>1, SMTT(30)
    <3>2. j \in Nat \ {0} /\ word \in Nat
      BY <1>3, <1>6, <2>1
    <3>3. nc = j + word
      BY <3>1
    <3> HIDE DEF at, id, word, j
    <3>4. (j + word - 1 <= k => s = t) /\ IsPrefix(s, t)
      BY <3>2, SliceOfCut
    <3>5. CASE j + word - 1 <= k
      BY <3>1, <3>4, <3>5 DEF CutHead
    <3>6. CASE ~(j + word - 1 <= k)
      <4>1. nc > Len(c)
        BY <3>2, <3>3, <3>6, <1>1
      <4>2. \E x, a, b : /\ FieldAt(c, i) = <<Field(x, "BYTES", a)>> /\ FieldAt(p, i) = <<Field(x, "BYTES", b)>>
                         /\ IsPrefix(a, b) /\ AfterField(c, i) > Len(c)
        <5> HIDE DEF s, t
        <5> QED BY <3>1, <3>4, <4>1
      <4> QED BY <4>2 DEF CutHead
    <3> QED BY <3>5, <3>6
  <2>2. CASE ~(at < Len(c))
    <3>1. fc = <<>>
      <4> HIDE DEF at, id, word
      <4> QED BY <1>4, <1>10, <2>2
    <3> QED BY <3>1 DEF CutHead
  <2> QED BY <2>1, <2>2
<1>11. CASE type = 4
  <2>1. CASE at < Len(c)
    <3>1. fc = fp /\ nc = np
      <4> HIDE DEF at, id, word
      <4> QED BY <1>4, <1>5, <1>6, <1>11, <2>1
    <3> QED BY <3>1 DEF CutHead
  <2>2. CASE ~(at < Len(c))
    <3>1. fc = <<>>
      <4> HIDE DEF at, id, word
      <4> QED BY <1>4, <1>11, <2>2
    <3> QED BY <3>1 DEF CutHead
  <2> QED BY <2>1, <2>2
<1>12. CASE type \notin {0, 1} /\ type # 2 /\ type \notin {3, 5} /\ type # 4
  <2>1. fc = <<>>
    <3> HIDE DEF at, id, word, type
    <3> QED BY <1>4, <1>12
  <2> QED BY <2>1 DEF CutHead
<1> HIDE DEF type
<1> QED BY <1>8, <1>9, <1>10, <1>11, <1>12

\* Nothing is lost of the first field, or something of it and all that follows.
LEMMA LosesBehind ==
    ASSUME NEW x \in Seq(Found), NEW a \in Seq(Found), NEW b \in Seq(Found), Loses(a, b)
    PROVE  Loses(x \o a, x \o b)
<1> DEFINE n == Len(x)
           s == x \o a
           t == x \o b
<1>1. /\ s \in Seq(Found) /\ Len(s) = n + Len(a)
      /\ \A m \in 1 .. n : s[m] = x[m]
      /\ \A m \in 1 .. Len(a) : s[n + m] = a[m]
  BY ConcatParts
<1>2. /\ t \in Seq(Found) /\ Len(t) = n + Len(b)
      /\ \A m \in 1 .. n : t[m] = x[m]
      /\ \A m \in 1 .. Len(b) : t[n + m] = b[m]
  BY ConcatParts
<1> DEFINE lost(l) ==
              \/ a[l] = b[l]
              \/ l = Len(a) /\ a[l].type = "BYTES" /\ b[l].type = "BYTES"
                 /\ a[l].id = b[l].id /\ IsPrefix(a[l].val, b[l].val)
<1>d. Len(a) <= Len(b) /\ \A l \in DOMAIN a : lost(l)
  BY Zenon DEF Loses
<1>3. n \in Nat /\ Len(a) \in Nat /\ Len(b) \in Nat /\ Len(a) <= Len(b) /\ DOMAIN a = 1 .. Len(a)
  <2> HIDE DEF lost
  <2>1. Len(a) \in Nat /\ DOMAIN a = 1 .. Len(a) /\ Len(b) \in Nat /\ n \in Nat
    BY LenProperties
  <2> QED BY <1>d, <2>1
<1> HIDE DEF n, s, t
<1>4. DOMAIN s = 1 .. n + Len(a)
  <2>1. DOMAIN s = 1 .. Len(s)
    BY <1>1, LenProperties
  <2> QED BY <1>1, <2>1
<1>5. \A l \in 1 .. Len(a) : lost(l)
  <2> HIDE DEF lost
  <2> QED BY <1>d, <1>3
<1>6. ASSUME NEW m \in DOMAIN s
      PROVE  \/ s[m] = t[m]
             \/ m = Len(s) /\ s[m].type = "BYTES" /\ t[m].type = "BYTES"
                /\ s[m].id = t[m].id /\ IsPrefix(s[m].val, t[m].val)
  <2>1. CASE m <= n
    <3>1. m \in 1 .. n
      BY <1>3, <1>4, <2>1
    <3> QED BY <3>1, <1>1, <1>2
  <2>2. CASE ~(m <= n)
    <3> DEFINE l == m - n
               A == Len(a)
               B == Len(b)
    <3>a. A \in Nat /\ B \in Nat /\ A <= B /\ n \in Nat /\ m \in 1 .. n + A /\ Len(s) = n + A
      BY <1>1, <1>3, <1>4
    <3>1. l \in 1 .. A /\ l \in 1 .. B /\ m = n + l /\ (l = A => m = Len(s))
      <4> DEFINE N == Len(s)
      <4>1. N = n + A
        BY <3>a
      <4> HIDE DEF A, B, N
      <4>2. l \in 1 .. A /\ l \in 1 .. B /\ m = n + l /\ (l = A => m = N)
        BY <2>2, <3>a, <4>1
      <4> QED BY <4>2 DEF N
    <3>2. s[n + l] = a[l] /\ t[n + l] = b[l]
      <4> HIDE DEF l
      <4> QED BY <1>1, <1>2, <3>1
    <3> HIDE DEF l
    <3>3. lost(l)
      BY <1>5, <3>1
    <3> HIDE DEF A, B
    <3>4. s[m] = a[l] /\ t[m] = b[l]
      BY <3>1, <3>2
    <3> QED BY <3>1, <3>3, <3>4 DEF A
  <2> QED BY <2>1, <2>2
<1>7. Len(s) <= Len(t)
  BY <1>1, <1>2, <1>3
<1>8. Loses(s, t)
  BY <1>6, <1>7 DEF Loses
<1> QED BY <1>8 DEF s, t

LEMMA LosesLast ==
    ASSUME NEW id, NEW s, NEW t, IsPrefix(s, t), NEW b \in Seq(Found), <<Field(id, "BYTES", t)>> \in Seq(Found)
    PROVE  Loses(<<Field(id, "BYTES", s)>>, <<Field(id, "BYTES", t)>> \o b)
<1> DEFINE x == Field(id, "BYTES", s)
           y == Field(id, "BYTES", t)
           h == <<y>>
           u == <<x>>
           w == h \o b
<1>1. /\ x.id = y.id /\ x.type = "BYTES" /\ y.type = "BYTES" /\ IsPrefix(x.val, y.val)
  BY DEF Field
<1>2. h \in Seq(Found) /\ Len(h) = 1 /\ h[1] = y /\ 1 \in 1 .. 1 /\ u[1] = x /\ Len(u) = 1 /\ DOMAIN u = {1}
  OBVIOUS
<1> HIDE DEF h, x, y, u
<1>3. Len(w) = 1 + Len(b) /\ w[1] = y /\ Len(b) \in Nat
  <2>0. h \in Seq(Found) /\ b \in Seq(Found)
    BY <1>2
  <2>1. Len(h \o b) = Len(h) + Len(b) /\ \A m \in 1 .. Len(h) : (h \o b)[m] = h[m]
    BY <2>0, ConcatParts
  <2>2. Len(b) \in Nat
    BY <2>0
  <2> QED BY <1>2, <2>1, <2>2
<1>4. Len(u) <= Len(w)
  BY <1>2, <1>3
<1> HIDE DEF w
<1>5. Loses(u, w)
  BY <1>1, <1>2, <1>3, <1>4 DEF Loses
<1> QED BY <1>5 DEF u, w, h, x, y

LEMMA LosesAll ==
    ASSUME NEW b \in Seq(Found)
    PROVE  Loses(<<>>, b)
<1>1. Len(<<>>) = 0 /\ DOMAIN <<>> = {} /\ Len(b) \in Nat
  OBVIOUS
<1> DEFINE a == <<>>
<1>2. Len(a) <= Len(b) /\ DOMAIN a = {}
  BY <1>1
<1> HIDE DEF a
<1>3. Loses(a, b)
  BY <1>2 DEF Loses
<1> QED BY <1>3 DEF a

LEMMA CutLoses ==
    ASSUME NEW c, NEW p, NEW k, IsCut(c, p, k)
    PROVE  Loses(ParseFields(c), ParseFields(p))
<1> DEFINE F == ParseFrom(c)
           G == ParseFrom(p)
           D == Nat \ {0}
           S == {n \in Nat : \A i \in D : i > k - n => Loses(F[i], G[i])}
<1>1. c \in Seq(Byte) /\ p \in Seq(Byte) /\ k \in Nat /\ Len(c) = k /\ Len(p) \in Nat /\ k <= Len(p)
  BY DEF IsCut
<1>2. ASSUME NEW i \in D PROVE F[i] \in Seq(Found) /\ F[i] = Onwards(c, i, F[AfterField(c, i)])
  BY <1>1, ParseRec
<1>3. ASSUME NEW i \in D PROVE G[i] \in Seq(Found) /\ G[i] = Onwards(p, i, G[AfterField(p, i)])
  BY <1>1, ParseRec
<1> HIDE DEF F, G
<1>4. ASSUME NEW i \in D, i >= k PROVE Loses(F[i], G[i])
  <2>1. F[i] = <<>>
    BY <1>1, <1>2, <1>4 DEF Onwards
  <2> QED BY <2>1, <1>3, LosesAll
<1>5. 0 \in S
  <2>1. ASSUME NEW i \in D, i > k - 0 PROVE Loses(F[i], G[i])
    <3>1. i >= k
      BY <1>1, <2>1
    <3> QED BY <1>4, <3>1
  <2> QED BY <2>1
<1>6. ASSUME NEW n \in Nat, n \in S PROVE n + 1 \in S
  <2>1. ASSUME NEW i \in D, i > k - (n + 1) PROVE Loses(F[i], G[i])
    <3>1. CASE i >= k
      BY <1>4, <3>1
    <3>2. CASE ~(i >= k)
      <4> DEFINE x == FieldAt(c, i)
                 y == FieldAt(p, i)
                 j == AfterField(c, i)
                 l == AfterField(p, i)
      <4>1. i < k /\ i < Len(c) /\ i < Len(p) /\ i > k - (n + 1)
        BY <1>1, <2>1, <3>2
      <4>2. x \in Seq(Found) /\ j \in D /\ j > i
        BY <1>1, <4>1, FieldAtType
      <4>3. y \in Seq(Found) /\ l \in D /\ Len(y) \in {0, 1}
        BY <1>1, <4>1, FieldAtType
      <4>4. CutHead(c, p, i)
        BY <4>1, HeadOfCut
      <4>5. F[i] = (IF x = <<>> THEN <<>> ELSE x \o F[j]) /\ G[i] = (IF y = <<>> THEN <<>> ELSE y \o G[l])
        <5>1. F[i] = Onwards(c, i, F[j]) /\ G[i] = Onwards(p, i, G[l])
          BY <1>2, <1>3
        <5>2. ~(i >= Len(c)) /\ ~(i >= Len(p))
          BY <1>1, <4>1
        <5> QED BY <5>1, <5>2 DEF Onwards
      <4>6. CASE x = <<>>
        BY <4>5, <4>6, <1>3, LosesAll
      <4>7. CASE x # <<>> /\ x = y /\ j = l
        <5> HIDE DEF x, y, j, l
        <5>1. j > k - n
          BY <1>1, <4>1, <4>2
        <5>2. Loses(F[j], G[j])
          BY <1>6, <4>2, <5>1
        <5>3. F[j] \in Seq(Found) /\ G[j] \in Seq(Found)
          BY <1>2, <1>3, <4>2
        <5>4. Loses(x \o F[j], x \o G[j])
          BY <4>2, <5>2, <5>3, LosesBehind
        <5> QED BY <4>5, <4>7, <5>4
      <4>8. CASE \E id, s, t : /\ x = <<Field(id, "BYTES", s)>> /\ y = <<Field(id, "BYTES", t)>>
                               /\ IsPrefix(s, t) /\ j > Len(c)
        <5>1. PICK id, s, t : /\ x = <<Field(id, "BYTES", s)>> /\ y = <<Field(id, "BYTES", t)>>
                              /\ IsPrefix(s, t) /\ j > Len(c)
          BY <4>8
        <5> HIDE DEF x, y, j, l
        <5>2. j >= Len(c) /\ F[j] = Onwards(c, j, F[AfterField(c, j)])
          BY <1>1, <1>2, <4>2, <5>1
        <5>3. F[j] = <<>>
          BY <5>2 DEF Onwards
        <5>4. x \o F[j] = x
          BY <4>2, <5>3
        <5>5. G[l] \in Seq(Found)
          BY <1>3, <4>3
        <5>6. Loses(x, y \o G[l])
          BY <4>3, <5>1, <5>5, LosesLast
        <5>7. x # <<>> /\ y # <<>>
          BY <5>1
        <5> QED BY <4>5, <5>4, <5>6, <5>7
      <4> QED BY <4>4, <4>6, <4>7, <4>8 DEF CutHead
    <3> QED BY <3>1, <3>2
  <2> QED BY <2>1
<1>7. Nat \subseteq S
  <2> HIDE DEF S
  <2> QED BY <1>5, <1>6, SetInduction
<1>8. Loses(F[1], G[1])
  <2>1. k \in S
    BY <1>1, <1>7
  <2>2. 1 \in D /\ 1 > k - k
    BY <1>1
  <2> QED BY <2>1, <2>2
<1> QED BY <1>8 DEF F, G, ParseFields

\* Whatever bytes are lost from the end of a payload, its fields before them stand
\* as they were; only bytes that are cut short are given out as if they were whole.
THEOREM CutsLoseOnly == Spec => []CutLosesOnly
<1>1. ReadInv => CutLosesOnly
  <2> SUFFICES ASSUME ReadInv, stream # <<>>, Head(stream).cmd = "status"
               PROVE  LET payload == Payload(Head(stream))
                          whole == ParseFields(payload)
                      IN \A k \in 0 .. Len(payload) : Loses(ParseFields(SubSeq(payload, 1, k)), whole)
    BY DEF CutLosesOnly, Loses
  <2> DEFINE p == Payload(Head(stream))
  <2>1. p \in Seq(Byte)
    <3>1. Head(stream) \in Packets
      BY HeadTailProperties DEF ReadInv, StreamInv
    <3>2. Head(stream) \in StatusPackets
      BY <3>1, PacketKinds
    <3> QED BY <3>2, PartType
  <2> HIDE DEF p
  <2>2. ASSUME NEW k \in 0 .. Len(p) PROVE Loses(ParseFields(SubSeq(p, 1, k)), ParseFields(p))
    <3> DEFINE c == SubSeq(p, 1, k)
    <3>1. \A x \in 1 .. k : p[x] \in Byte
      <4> TAKE x \in 1 .. k
      <4>1. x \in 1 .. Len(p)
        BY <2>1
      <4> QED BY <2>1, <4>1
    <3>2. c \in Seq(Byte) /\ Len(c) = k /\ \A x \in 1 .. k : c[x] = p[x]
      BY <2>1, <3>1, SubSeqProperties
    <3> HIDE DEF c
    <3>3. IsCut(c, p, k)
      BY <2>1, <3>2 DEF IsCut
    <3>4. Loses(ParseFields(c), ParseFields(p))
      BY <3>3, CutLoses
    <3> QED BY <3>4 DEF c
  <2> QED BY <2>2 DEF p
<1> QED BY <1>1, ReadKept, PTL

-----------------------------------------------------------------------------
(* fields_to_kv, one data point at a time.                                    *)

LEMMA TailLies ==
    ASSUME NEW S, NEW p \in Seq(S), NEW c \in Nat, NEW g \in Seq(S), g # <<>>, Lies(p, c, g)
    PROVE  /\ Tail(g) \in Seq(S) /\ Len(Tail(g)) \in Nat /\ Len(g) = Len(Tail(g)) + 1
           /\ \A k \in 1 .. Len(Tail(g)) : Tail(g)[k] = g[k + 1]
           /\ Lies(p, c + 1, Tail(g)) /\ p[c + 1] = g[1] /\ c + Len(g) <= Len(p)
<1> DEFINE t == Tail(g)
<1>1. /\ t \in Seq(S) /\ Len(t) = Len(g) - 1 /\ \A k \in 1 .. Len(t) : t[k] = g[k + 1]
  BY HeadTailProperties
<1>2. Len(g) \in Nat /\ Len(g) >= 1 /\ Len(p) \in Nat
  OBVIOUS
<1>3. c + Len(g) <= Len(p) /\ \A k \in 1 .. Len(g) : p[c + k] = g[k]
  BY DEF Lies
<1> HIDE DEF t
<1>4. \A k \in 1 .. Len(t) : p[c + 1 + k] = t[k]
  <2> TAKE k \in 1 .. Len(t)
  <2>1. k + 1 \in 1 .. Len(g) /\ c + 1 + k = c + (k + 1)
    BY <1>1, <1>2
  <2> QED BY <2>1, <1>1, <1>3
<1>5. c + 1 + Len(t) <= Len(p) /\ Len(t) \in Nat /\ Len(g) = Len(t) + 1
  BY <1>1, <1>2, <1>3
<1>6. p[c + 1] = g[1]
  BY <1>2, <1>3
<1>7. Lies(p, c + 1, t)
  BY <1>4, <1>5 DEF Lies
<1> QED BY <1>1, <1>3, <1>5, <1>6, <1>7 DEF t

\* A pack ends where its fields, of which it has the count, end.
LEMMA PackEndIs ==
    ASSUME NEW fs, NEW j \in Nat, NEW v \in Nat, j + v <= Len(fs), Len(fs) \in Nat,
           fs[j].val[1] = v, \A l \in j + 1 .. j + v : fs[l].type # "STRUCT"
    PROVE  PackEnd(fs, j) = j + v + 1
<1> DEFINE C(k) == {l \in j + 1 .. k - 1 : fs[l].type # "STRUCT"}
           K == {k \in j + 1 .. Len(fs) : Cardinality(C(k)) = v} \cup {Len(fs) + 1}
           e == j + v + 1
<1>1. PackEnd(fs, j) = Min(K)
  BY DEF PackEnd
<1>2. ASSUME NEW k \in j + 1 .. e PROVE Cardinality(C(k)) = k - 1 - j
  <2>1. C(k) = j + 1 .. k - 1
    <3>1. \A l \in j + 1 .. k - 1 : l \in j + 1 .. j + v
      BY <1>2
    <3> QED BY <3>1
  <2> DEFINE a == j + 1
             b == k - 1
  <2>2. a \in Int /\ b \in Int /\ (a > b => k - 1 - j = 0) /\ b - a + 1 = k - 1 - j
    BY <1>2
  <2>3. C(k) = a .. b
    BY <2>1
  <2> HIDE DEF a, b, C
  <2>4. Cardinality(a .. b) = IF a > b THEN 0 ELSE b - a + 1
    BY <2>2, FS_Interval
  <2> QED BY <2>2, <2>3, <2>4
<1>3. e \in K
  <2>1. CASE e <= Len(fs)
    <3>1. e \in j + 1 .. e /\ e \in j + 1 .. Len(fs) /\ e - 1 - j = v
      BY <2>1
    <3> HIDE DEF C
    <3>2. Cardinality(C(e)) = v
      BY <1>2, <3>1
    <3> HIDE DEF e
    <3> QED BY <3>1, <3>2
  <2>2. CASE ~(e <= Len(fs))
    <3>1. e = Len(fs) + 1
      BY <2>2
    <3> QED BY <3>1
  <2> QED BY <2>1, <2>2
<1>4. \A k \in K : e =< k
  <2> SUFFICES ASSUME NEW k \in K, ~(e =< k) PROVE FALSE
    OBVIOUS
  <2>1. CASE k = Len(fs) + 1
    BY <2>1
  <2>2. CASE k \in j + 1 .. Len(fs) /\ Cardinality(C(k)) = v
    <3>1. k \in j + 1 .. e /\ k - 1 - j < v
      BY <2>2
    <3> HIDE DEF C
    <3>2. k - 1 - j = v
      BY <1>2, <2>2, <3>1
    <3> QED BY <3>1, <3>2
  <2> QED BY <2>1, <2>2
<1>5. K \subseteq Int /\ e \in Int
  OBVIOUS
<1> HIDE DEF K, e
<1>6. \A x \in K : (\A y \in K : x =< y) => x = e
  BY <1>3, <1>4, <1>5
<1>7. Min(K) = e
  BY <1>3, <1>4, <1>6 DEF Min
<1> QED BY <1>1, <1>7 DEF e

\* What stands for a field that is no STRUCT is neither a dict nor a list.
LEMMA LeafShape ==
    ASSUME NEW f
    PROVE  Leaf(f).shape \notin {"list", "dict"}
  BY DEF Leaf, Entry

\* The dictionary of fields that lie one after another.
LEMMA DictIs ==
    ASSUME NEW fs \in Seq(Writable), NEW a \in Nat, NEW h \in Seq(Writable), Lies(fs, a, h), PlainFields(h)
    PROVE  Dict(fs, a + 1 .. a + Len(h)) = ByNumber(h)
<1> DEFINE W == a + 1 .. a + Len(h)
           H == ToSet(h)
           I == {f.id : f \in H}
           last(id) == CHOOSE k \in W : fs[k].id = id /\ \A l \in W : fs[l].id = id => l <= k
           one(id) == CHOOSE f \in H : f.id = id
<1>1. Len(h) \in Nat /\ DOMAIN h = 1 .. Len(h) /\ \A k \in 1 .. Len(h) : fs[a + k] = h[k]
  BY LenProperties DEF Lies
<1>2. H = {h[k] : k \in 1 .. Len(h)}
  BY <1>1 DEF ToSet
<1>3. \A k \in W : k - a \in 1 .. Len(h) /\ fs[k] = h[k - a]
  <2> TAKE k \in W
  <2> DEFINE l == k - a
  <2>1. l \in 1 .. Len(h) /\ a + l = k
    BY <1>1
  <2> HIDE DEF l
  <2>2. fs[k] = h[l]
    BY <2>1, <1>1
  <2> QED BY <2>1, <2>2 DEF l
<1>4. \A k \in 1 .. Len(h) : a + k \in W
  BY <1>1
<1> HIDE DEF H, W
<1>5. {fs[k].id : k \in W} = I
  <2>1. \A k \in W : fs[k] \in H
    BY <1>2, <1>3
  <2>2. \A f \in H : \E k \in W : fs[k] = f
    <3> TAKE f \in H
    <3>1. PICK k \in 1 .. Len(h) : f = h[k]
      BY <1>2
    <3> QED BY <3>1, <1>1, <1>4
  <2> QED BY <2>1, <2>2
<1>6. ASSUME NEW id \in I PROVE Leaf(fs[last(id)]) = Leaf(one(id))
  <2>1. PICK f \in H : f.id = id
    OBVIOUS
  <2>2. PICK k \in 1 .. Len(h) : f = h[k]
    BY <1>2, <2>1
  <2>3. \A l \in 1 .. Len(h) : h[l].id = id => l = k
    BY <1>1, <2>1, <2>2 DEF PlainFields
  <2>4. one(id) = f
    <3>1. \A g \in H : g.id = id => g = f
      BY <1>2, <2>2, <2>3
    <3> QED BY <2>1, <3>1
  <2> DEFINE m == a + k
  <2>5. m \in W /\ fs[m] = f
    BY <1>1, <1>4, <2>2
  <2>6. \A l \in W : fs[l].id = id => l = m
    <3> SUFFICES ASSUME NEW l \in W, fs[l].id = id PROVE l = m
      OBVIOUS
    <3> DEFINE n == l - a
    <3>1. n \in 1 .. Len(h) /\ fs[l] = h[n]
      BY <1>3
    <3>2. n = k
      <4> HIDE DEF n
      <4> QED BY <3>1, <2>3
    <3>3. l \in Int
      BY DEF W
    <3> QED BY <3>2, <3>3
  <2>7. last(id) = m
    <3>1. m \in Int
      OBVIOUS
    <3> HIDE DEF m
    <3>2. fs[m].id = id /\ \A l \in W : fs[l].id = id => l <= m
      BY <2>1, <2>5, <2>6, <3>1
    <3> QED BY <2>5, <2>6, <3>2
  <2> HIDE DEF last, one, m
  <2> QED BY <2>4, <2>5, <2>7
<1>7. Dict(fs, W) = [id \in I |-> Leaf(fs[last(id)])]
  BY <1>5 DEF Dict
<1>8. ByNumber(h) = [id \in I |-> Leaf(one(id))]
  BY DEF ByNumber, H
<1> HIDE DEF last, one, I
<1>9. Dict(fs, W) = ByNumber(h)
  BY <1>6, <1>7, <1>8
<1> QED BY <1>9 DEF W

\* What a pack that lies at a place becomes.
LEMMA PackIs ==
    ASSUME NEW fs \in Seq(Writable), NEW c \in Nat, NEW g \in Seq(Writable), g # <<>>, Lies(fs, c, g), IsAPack(g)
    PROVE  /\ PackEnd(fs, c + 1) = c + 1 + Len(g)
           /\ Pack(fs, c + 1) = ByNumber(Tail(g))
           /\ fs[c + 1].type = "STRUCT" /\ c + 1 \in 1 .. Len(fs)
<1> DEFINE t == Tail(g)
           v == Len(t)
           j == c + 1
<1>1. /\ t \in Seq(Writable) /\ v \in Nat /\ Len(g) = v + 1
      /\ Lies(fs, j, t) /\ fs[j] = g[1] /\ c + Len(g) <= Len(fs)
  BY TailLies
<1>2. g[1].type = "STRUCT" /\ g[1].val[1] = Len(g) - 1 /\ PlainFields(t)
  BY DEF IsAPack
<1>3. Len(fs) \in Nat /\ j \in Nat /\ DOMAIN t = 1 .. v
  BY <1>1, LenProperties
<1> HIDE DEF t, v
<1>4. j + v <= Len(fs) /\ j \in 1 .. Len(fs) /\ g[1].val[1] = v
  BY <1>1, <1>2, <1>3
<1>5. \A l \in j + 1 .. j + v : fs[l].type # "STRUCT"
  <2> TAKE l \in j + 1 .. j + v
  <2> DEFINE k == l - j
  <2>1. k \in 1 .. v /\ l = j + k
    BY <1>1
  <2> HIDE DEF k
  <2>2. fs[l] = t[k]
    BY <1>1, <2>1 DEF Lies, v
  <2> QED BY <1>2, <1>3, <2>1, <2>2 DEF PlainFields
<1> HIDE DEF j
<1>6. PackEnd(fs, j) = j + v + 1
  <2>1. fs[j].val[1] = v
    BY <1>1, <1>4
  <2> QED BY <1>1, <1>3, <1>4, <1>5, <2>1, PackEndIs
<1> DEFINE W == {k \in j + 1 .. PackEnd(fs, j) - 1 : fs[k].type # "STRUCT"}
<1>7. W = j + 1 .. j + v
  <2>1. PackEnd(fs, j) - 1 = j + v
    BY <1>1, <1>3, <1>6
  <2> QED BY <2>1, <1>5
<1> HIDE DEF W
<1>8. Pack(fs, j) = Dict(fs, W)
  BY DEF Pack, W
<1>9. Dict(fs, j + 1 .. j + Len(t)) = ByNumber(t)
  BY <1>1, <1>2, <1>3, DictIs
<1>10. Pack(fs, j) = ByNumber(t)
  BY <1>7, <1>8, <1>9 DEF v
<1>11. PackEnd(fs, j) = j + Len(g)
  BY <1>1, <1>3, <1>6
<1> QED BY <1>1, <1>2, <1>4, <1>10, <1>11 DEF j, t

\* Where the fields of a data point and of its members lie.
LEMMA PointLies ==
    ASSUME NEW fs \in Seq(Writable), NEW c \in Nat, NEW q \in Points, PointFits(q), Lies(fs, c, FieldsOfPoint(q))
    PROVE  /\ c + 1 \in 1 .. Len(fs) /\ Len(fs) \in Nat /\ fs[c + 1] = q.field
           /\ Lies(fs, c + 1, FlattenSeq(q.members)) /\ FlattenSeq(q.members) \in Seq(Writable)
           /\ \A n \in 1 .. Len(q.members) :
                 /\ Upto(q.members, n - 1) \in Nat
                 /\ Lies(fs, c + 1 + Upto(q.members, n - 1), q.members[n])
<1> DEFINE M == q.members
           g == FieldsOfPoint(q)
           m == FlattenSeq(M)
<1>1. M \in Seq(Seq(Writable)) /\ g \in Seq(Writable) /\ Len(g) = 1 + Len(m) /\ g[1] = q.field /\ Lies(g, 1, m)
  BY PointType
<1>2. m \in Seq(Writable)
  BY <1>1, FlattenRec
<1> HIDE DEF M, g, m
<1>3. Lies(fs, c, g)
  BY DEF g
<1>4. Lies(fs, c + 1, m)
  <2>1. 1 \in Nat
    OBVIOUS
  <2> QED BY <1>1, <1>2, <1>3, <2>1, LiesWithin
<1>5. c + 1 \in 1 .. Len(fs) /\ Len(fs) \in Nat /\ fs[c + 1] = q.field
  <2>1. Len(g) \in Nat /\ Len(m) \in Nat /\ Len(fs) \in Nat
    BY <1>1, <1>2
  <2>2. c + Len(g) <= Len(fs) /\ \A k \in 1 .. Len(g) : fs[c + k] = g[k]
    BY <1>3 DEF Lies
  <2>3. 1 \in 1 .. Len(g)
    BY <1>1, <2>1
  <2> QED BY <1>1, <2>1, <2>2, <2>3
<1>6. ASSUME NEW n \in 1 .. Len(M)
      PROVE  Upto(M, n - 1) \in Nat /\ Lies(fs, c + 1 + Upto(M, n - 1), M[n])
  <2> DEFINE u == Upto(M, n - 1)
             b == M[n]
             d == c + 1
  <2>1. u \in Nat /\ Lies(m, u, b)
    BY <1>1, PartLies DEF m
  <2>2. b \in Seq(Writable) /\ d \in Nat
    BY <1>1
  <2>3. Lies(fs, d, m)
    BY <1>4
  <2> HIDE DEF u, b, d
  <2>4. Lies(fs, d + u, b)
    BY <1>2, <2>1, <2>2, <2>3, LiesWithin
  <2> QED BY <2>1, <2>4 DEF u, b, d
<1> QED BY <1>2, <1>4, <1>5, <1>6 DEF M, m

\* Where a member ends, and what it is.
LEMMA MemberLies ==
    ASSUME NEW fs \in Seq(Writable), NEW c \in Nat, NEW q \in Points, PointFits(q), Lies(fs, c, FieldsOfPoint(q)),
           IsStruct(q), NEW n \in 1 .. Len(q.members)
    PROVE  LET j == c + 2 + Upto(q.members, n - 1)
           IN /\ j \in 1 .. Len(fs) /\ MemberEnd(fs, c + 1, j) = c + 2 + Upto(q.members, n)
              /\ IF q.field.id = Packs THEN IsPack(fs, c + 1, j) /\ Pack(fs, j) = ByNumber(Tail(q.members[n]))
                 ELSE ~IsPack(fs, c + 1, j) /\ Len(q.members[n]) = 1
<1> DEFINE M == q.members
           b == M[n]
           u == Upto(M, n - 1)
           d == c + 1 + u
           i == c + 1
           j == c + 2 + u
<1>1. /\ fs[i] = q.field /\ u \in Nat /\ Lies(fs, d, b) /\ Len(fs) \in Nat
  BY PointLies
<1>2. M \in Seq(Seq(Writable)) /\ DOMAIN M = 1 .. Len(M) /\ n \in DOMAIN M
  <2>1. M \in Seq(Seq(Writable))
    BY PointType
  <2> HIDE DEF M
  <2>2. DOMAIN M = 1 .. Len(M)
    BY <2>1, LenProperties
  <2>3. n \in 1 .. Len(M)
    BY DEF M
  <2> QED BY <2>1, <2>2, <2>3
<1>3. b # <<>> /\ b \in Seq(Writable) /\ Upto(M, n) = u + Len(b)
  <2>1. b # <<>>
    BY <1>2 DEF PointFits
  <2>2. b \in Seq(Writable)
    <3> HIDE DEF M
    <3> QED BY <1>2, ElementOfSeq
  <2>3. Upto(M, n) = u + Len(b)
    <3>1. n \in 1 .. Len(M)
      OBVIOUS
    <3> HIDE DEF M
    <3> QED BY <1>2, <3>1, PartLies
  <2> QED BY <2>1, <2>2, <2>3
<1>4. MembersFit(q)
  BY DEF PointFits
<1>5. d \in Nat /\ j = d + 1 /\ Len(b) \in Nat
  <2> HIDE DEF b, u
  <2> QED BY <1>1, <1>3
<1>6. CASE q.field.id = Packs
  <2>1. IsAPack(b)
    BY <1>2, <1>4, <1>6 DEF MembersFit
  <2> HIDE DEF b, d, u, M
  <2>2. /\ PackEnd(fs, d + 1) = d + 1 + Len(b) /\ Pack(fs, d + 1) = ByNumber(Tail(b))
        /\ fs[d + 1].type = "STRUCT" /\ d + 1 \in 1 .. Len(fs)
    BY <1>1, <1>3, <1>5, <2>1, PackIs
  <2> HIDE DEF j, i
  <2>3. /\ PackEnd(fs, j) = j + Len(b) /\ Pack(fs, j) = ByNumber(Tail(b))
        /\ fs[j].type = "STRUCT" /\ j \in 1 .. Len(fs)
    BY <1>5, <2>2
  <2>4. IsPack(fs, i, j)
    BY <1>1, <1>6, <2>3 DEF IsPack
  <2>5. ~(j > Len(fs)) /\ j + Len(b) = c + 2 + (u + Len(b))
    <3> USE DEF j
    <3> QED BY <2>3, <1>1, <1>5, SMTT(30)
  <2>6. MemberEnd(fs, i, j) = c + 2 + Upto(M, n)
    BY <1>3, <2>3, <2>4, <2>5 DEF MemberEnd
  <2> QED BY <1>6, <2>3, <2>4, <2>6 DEF b, u, M, i, j
<1>7. CASE q.field.id # Packs
  <2>1. Len(b) = 1
    BY <1>2, <1>4, <1>7 DEF MembersFit
  <2> HIDE DEF b, d, u, M, j, i
  <2>2. ~IsPack(fs, i, j)
    BY <1>1, <1>7 DEF IsPack
  <2>3. j \in 1 .. Len(fs) /\ j + 1 = c + 2 + (u + Len(b))
    <3>1. d + Len(b) <= Len(fs)
      BY <1>1 DEF Lies
    <3>2. d + 1 <= Len(fs)
      BY <2>1, <3>1
    <3>3. j \in 1 .. Len(fs)
      BY <1>1, <1>5, <3>2
    <3>4. j + 1 = c + 2 + (u + 1)
      BY <1>1 DEF j
    <3> QED BY <2>1, <3>3, <3>4
  <2>4. ~(j > Len(fs))
    BY <1>1, <2>3
  <2>5. MemberEnd(fs, i, j) = c + 2 + Upto(M, n)
    BY <1>3, <2>2, <2>3, <2>4 DEF MemberEnd
  <2> QED BY <1>7, <2>1, <2>2, <2>3, <2>5 DEF b, u, M, i, j
<1> QED BY <1>6, <1>7

\* The members of a STRUCT are found where they lie.
LEMMA MembersAt ==
    ASSUME NEW fs \in Seq(Writable), NEW c \in Nat, NEW q \in Points, PointFits(q), Lies(fs, c, FieldsOfPoint(q)),
           IsStruct(q)
    PROVE  /\ Count(fs, c + 1) = Len(q.members)
           /\ \A n \in 0 .. Len(q.members) : MemberAt(fs, c + 1)[n] = c + 2 + Upto(q.members, n)
<1> DEFINE M == q.members
           N == Len(M)
           i == c + 1
           Is(n) == c + 2 + Upto(M, n)
           Eq(f) == f = [n \in 0 .. N |-> IF n = 0 THEN i + 1 ELSE MemberEnd(fs, i, f[n - 1])]
           there == [n \in 0 .. N |-> Is(n)]
           at == CHOOSE f : Eq(f)
<1>1. M \in Seq(Seq(Writable)) /\ N \in Nat
  <2>1. M \in Seq(Seq(Writable))
    BY PointType
  <2> HIDE DEF M
  <2> QED BY <2>1
<1>2. Count(fs, i) = N
  <2>1. fs[i] = q.field /\ q.field.val[1] = N
    BY PointLies DEF PointFits
  <2> QED BY <2>1 DEF Count
<1>3. Is(0) = i + 1
  <2>1. Upto(M, 0) = 0
    <3> HIDE DEF M
    <3> QED BY <1>1, UptoEnds
  <2> QED BY <2>1
<1>4. \A n \in 1 .. N : MemberEnd(fs, i, Is(n - 1)) = Is(n)
  BY MemberLies
<1>5. MemberAt(fs, i) = at
  BY <1>2 DEF MemberAt
<1> HIDE DEF M, N, i, Is
<1>6. Eq(there)
  <2>1. ASSUME NEW n \in 0 .. N PROVE there[n] = IF n = 0 THEN i + 1 ELSE MemberEnd(fs, i, there[n - 1])
    <3>1. CASE n = 0
      BY <3>1, <1>3
    <3>2. CASE n # 0
      <4>1. n \in 1 .. N /\ n - 1 \in 0 .. N
        BY <1>1, <3>2
      <4>2. there[n - 1] = Is(n - 1) /\ there[n] = Is(n)
        BY <4>1
      <4> HIDE DEF there
      <4> QED BY <1>4, <3>2, <4>1, <4>2
    <3> QED BY <3>1, <3>2
  <2> DEFINE g == [n \in 0 .. N |-> IF n = 0 THEN i + 1 ELSE MemberEnd(fs, i, there[n - 1])]
  <2>2. there = g
    BY <2>1
  <2> QED BY <2>2
<1> HIDE DEF there
<1>7. Eq(at)
  BY <1>6
<1> HIDE DEF at
<1>8. at[0] = i + 1 /\ \A n \in 1 .. N : at[n] = MemberEnd(fs, i, at[n - 1])
  <2>1. \A n \in 0 .. N : at[n] = IF n = 0 THEN i + 1 ELSE MemberEnd(fs, i, at[n - 1])
    BY <1>7
  <2>2. 0 \in 0 .. N /\ \A n \in 1 .. N : n \in 0 .. N /\ n # 0
    BY <1>1
  <2> QED BY <2>1, <2>2
<1> DEFINE T == {n \in 0 .. N : at[n] = Is(n)}
<1>9. 0 \in T
  BY <1>1, <1>3, <1>8
<1>10. \A n \in 0 .. N - 1 : n \in T => n + 1 \in T
  <2> SUFFICES ASSUME NEW n \in 0 .. N - 1, n \in T PROVE n + 1 \in T
    OBVIOUS
  <2> DEFINE m == n + 1
  <2>1. m \in 1 .. N /\ m \in 0 .. N /\ m - 1 = n
    BY <1>1
  <2> HIDE DEF m
  <2>2. at[m] = MemberEnd(fs, i, at[m - 1]) /\ MemberEnd(fs, i, Is(m - 1)) = Is(m)
    BY <1>4, <1>8, <2>1
  <2>3. at[m] = Is(m)
    BY <2>1, <2>2
  <2> QED BY <2>1, <2>3 DEF m
<1>11. 0 .. N \subseteq T
  <2> HIDE DEF T
  <2> QED BY <1>1, <1>9, <1>10, BoundedInduction
<1> QED BY <1>2, <1>5, <1>11 DEF i, N, M, Is

\* The packs of a STRUCT, if it is the one of the packs.
LEMMA PacksAre ==
    ASSUME NEW fs \in Seq(Writable), NEW c \in Nat, NEW q \in Points, PointFits(q), Lies(fs, c, FieldsOfPoint(q)),
           IsStruct(q)
    PROVE  PacksIn(fs, c + 1) =
              IF q.field.id = Packs THEN [n \in DOMAIN q.members |-> ByNumber(Tail(q.members[n]))] ELSE <<>>
<1> DEFINE M == q.members
           N == Len(M)
           i == c + 1
           pack(n) == ByNumber(Tail(M[n]))
           S == {pack(n) : n \in 1 .. N}
           part(n) == LET j == MemberAt(fs, i)[n - 1] IN IF j \in DOMAIN fs /\ IsPack(fs, i, j) THEN <<Pack(fs, j)>> ELSE <<>>
           parts == [n \in 1 .. N |-> part(n)]
<1>1. N \in Nat /\ DOMAIN M = 1 .. N /\ DOMAIN fs = 1 .. Len(fs)
  <2>1. M \in Seq(Seq(Writable))
    BY PointType
  <2> HIDE DEF M
  <2>2. DOMAIN M = 1 .. N /\ N \in Nat
    BY <2>1, LenProperties
  <2> QED BY <2>2, LenProperties
<1>2. PacksIn(fs, i) = FlattenSeq(parts)
  <2>1. Count(fs, i) = N
    BY MembersAt
  <2> QED BY <2>1 DEF PacksIn
<1>3. ASSUME NEW n \in 1 .. N PROVE part(n) = IF q.field.id = Packs THEN <<pack(n)>> ELSE <<>>
  <2> DEFINE j == MemberAt(fs, i)[n - 1]
             k == c + 2 + Upto(M, n - 1)
  <2>1. j = k
    <3>1. n - 1 \in 0 .. N
      BY <1>1
    <3> QED BY <3>1, MembersAt
  <2>2. /\ k \in 1 .. Len(fs)
        /\ IF q.field.id = Packs THEN IsPack(fs, i, k) /\ Pack(fs, k) = pack(n) ELSE ~IsPack(fs, i, k)
    BY MemberLies
  <2> HIDE DEF j, k, pack
  <2>3. part(n) = IF j \in DOMAIN fs /\ IsPack(fs, i, j) THEN <<Pack(fs, j)>> ELSE <<>>
    BY DEF j
  <2> HIDE DEF part
  <2> QED BY <1>1, <2>1, <2>2, <2>3
<1> HIDE DEF part
<1>4. CASE q.field.id = Packs
  <2>1. \A n \in 1 .. N : parts[n] = <<pack(n)>>
    BY <1>3, <1>4
  <2>2. DOMAIN parts = 1 .. N
    OBVIOUS
  <2> HIDE DEF parts
  <2>3. \A n \in 1 .. N : pack(n) \in S
    OBVIOUS
  <2> HIDE DEF S, pack
  <2>4. \A n \in 1 .. N : parts[n] \in Seq(S)
    <3> TAKE n \in 1 .. N
    <3> DEFINE x == pack(n)
    <3>1. x \in S /\ parts[n] = <<x>>
      BY <2>1, <2>3
    <3> HIDE DEF x
    <3> QED BY <3>1
  <2> DEFINE Z == Seq(S)
  <2>5. parts \in [1 .. N -> Z]
    <3>1. parts = [n \in 1 .. N |-> parts[n]]
      BY <2>2 DEF parts
    <3> HIDE DEF Z
    <3> QED BY <2>2, <2>4, <3>1 DEF Z
  <2>6. parts \in Seq(Z) /\ Len(parts) = N
    <3> HIDE DEF Z, N
    <3>1. parts \in Seq(Z)
      BY <1>1, <2>5, SeqDef
    <3> QED BY <1>1, <2>2, <3>1, LenProperties
  <2>7. \A n \in 1 .. Len(parts) : Len(parts[n]) = 1 /\ parts[n][1] = pack(n)
    <3> TAKE n \in 1 .. Len(parts)
    <3> DEFINE x == pack(n)
    <3>1. parts[n] = <<x>>
      BY <2>1, <2>6
    <3> HIDE DEF x
    <3>2. Len(<<x>>) = 1 /\ <<x>>[1] = x
      OBVIOUS
    <3>3. Len(parts[n]) = 1 /\ parts[n][1] = x
      BY <3>1, <3>2
    <3> QED BY <3>3 DEF x
  <2> DEFINE s == FlattenSeq(parts)
             t == [n \in 1 .. N |-> pack(n)]
  <2>8. s \in Seq(S) /\ Len(s) = N /\ \A n \in 1 .. N : s[n] = parts[n][1]
    <3>1. parts \in Seq(Seq(S))
      BY <2>6
    <3>2. s \in Seq(S)
      BY <3>1, FlattenRec
    <3> QED BY <2>6, <2>7, <3>1, <3>2, FlattenSingles
  <2>9. DOMAIN s = 1 .. N /\ s = [n \in DOMAIN s |-> s[n]]
    <3> HIDE DEF s
    <3> QED BY <2>8, LenProperties
  <2> HIDE DEF s, N
  <2>10. s = t
    BY <2>6, <2>7, <2>8, <2>9
  <2> QED BY <1>1, <1>2, <1>4, <2>10 DEF s, t, pack, N
<1>5. CASE q.field.id # Packs
  <2>1. \A n \in 1 .. N : parts[n] = <<>>
    BY <1>3, <1>5
  <2> DEFINE Z == Seq(Nat)
  <2>2. parts \in [1 .. N -> Z]
    <3>1. <<>> \in Z
      OBVIOUS
    <3> HIDE DEF Z
    <3> QED BY <1>3, <1>5, <3>1
  <2> HIDE DEF parts
  <2>3. parts \in Seq(Z) /\ Len(parts) = N
    <3>1. DOMAIN parts = 1 .. N
      BY <2>2
    <3> HIDE DEF Z, N
    <3>2. parts \in Seq(Z)
      BY <1>1, <2>2, SeqDef
    <3> QED BY <1>1, <3>1, <3>2, LenProperties
  <2>4. FlattenSeq(parts) = <<>>
    <3>1. parts \in Seq(Seq(Nat))
      BY <2>3
    <3>2. \A n \in 1 .. Len(parts) : parts[n] = <<>>
      BY <2>1, <2>3
    <3> QED BY <3>1, <3>2, FlattenNothing
  <2> QED BY <1>2, <1>5, <2>4 DEF i
<1> QED BY <1>4, <1>5

\* Members that are fields, one after another, become a dictionary.
LEMMA DictOfMembers ==
    ASSUME NEW fs \in Seq(Writable), NEW c \in Nat, NEW q \in Points, PointFits(q), Lies(fs, c, FieldsOfPoint(q)),
           IsStruct(q), q.field.id # Packs \/ q.members = <<>>
    PROVE  Dict(fs, Members(fs, c + 1)) = ByNumber(FlattenSeq(q.members))
<1> DEFINE M == q.members
           N == Len(M)
           i == c + 1
           h == FlattenSeq(M)
<1>1. M \in Seq(Seq(Writable)) /\ Lies(fs, i, h) /\ h \in Seq(Writable) /\ Len(fs) \in Nat
  BY PointType, PointLies
<1>2. N \in Nat /\ DOMAIN M = 1 .. N /\ DOMAIN fs = 1 .. Len(fs)
  <2> HIDE DEF M
  <2>1. DOMAIN M = 1 .. N /\ N \in Nat
    BY <1>1, LenProperties
  <2> QED BY <2>1, LenProperties
<1>3. \A n \in 1 .. N : Len(M[n]) = 1
  <2>1. CASE M = <<>>
    <3>1. N = 0
      BY <2>1
    <3> QED BY <3>1
  <2>2. CASE q.field.id # Packs
    BY <1>2, <2>2 DEF PointFits, MembersFit
  <2> QED BY <2>1, <2>2
<1>4. (\A n \in 0 .. N : Upto(M, n) = n) /\ Len(h) = N
  <2> HIDE DEF M
  <2> QED BY <1>1, <1>3, FlattenSingles
<1>5. PlainFields(h)
  <2>1. CASE M = <<>>
    <3>1. h = <<>>
      BY <2>1, FlattenEmpty
    <3> HIDE DEF h
    <3> QED BY <3>1 DEF PlainFields
  <2>2. CASE q.field.id # Packs
    BY <2>2 DEF PointFits, MembersFit
  <2> QED BY <2>1, <2>2
<1>6. i + N <= Len(fs)
  BY <1>1, <1>4 DEF Lies
<1> DEFINE at == MemberAt(fs, i)
<1>7. Count(fs, i) = N /\ \A n \in 0 .. N : at[n] = i + 1 + n
  <2>1. Count(fs, i) = N /\ \A n \in 0 .. N : at[n] = c + 2 + Upto(M, n)
    BY MembersAt
  <2>2. \A n \in 0 .. N : c + 2 + n = i + 1 + n
    BY <1>2
  <2> HIDE DEF at, M, N, i
  <2> QED BY <2>1, <2>2, <1>4
<1> DEFINE K == {at[n] : n \in 0 .. N - 1} \cap DOMAIN fs
<1>8. Members(fs, i) = K
  BY <1>7 DEF Members
<1>9. K = i + 1 .. i + N
  <2> HIDE DEF at, N
  <2>1. ASSUME NEW k \in K PROVE k \in i + 1 .. i + N
    <3>1. PICK n \in 0 .. N - 1 : k = at[n]
      OBVIOUS
    <3>2. n \in 0 .. N /\ n \in Nat
      BY <1>2
    <3>3. k = i + 1 + n
      BY <1>7, <3>1, <3>2
    <3> QED BY <1>2, <3>1, <3>2, <3>3
  <2>2. ASSUME NEW k \in i + 1 .. i + N PROVE k \in K
    <3> DEFINE n == k - i - 1
    <3>1. n \in 0 .. N - 1 /\ n \in 0 .. N /\ i + 1 + n = k
      BY <1>2
    <3>2. k \in 1 .. Len(fs)
      BY <1>1, <1>2, <1>6
    <3> HIDE DEF n
    <3>3. at[n] = k
      BY <1>7, <3>1
    <3> QED BY <1>2, <3>1, <3>2, <3>3
  <2> HIDE DEF K
  <2>3. \A k : k \in i + 1 .. i + N => k \in K
    BY <2>2
  <2> QED BY <2>1, <2>3
<1>10. Dict(fs, i + 1 .. i + Len(h)) = ByNumber(h)
  <2>1. i \in Nat
    OBVIOUS
  <2> HIDE DEF h, i
  <2> QED BY <1>1, <1>5, <2>1, DictIs
<1> HIDE DEF h, K, N
<1>11. i + 1 .. i + Len(h) = K
  BY <1>4, <1>9
<1> QED BY <1>8, <1>10, <1>11 DEF h

\* What a data point makes of the dictionary, told from its meaning.
Puts(kv, q) ==
    LET old == Get(kv, q.field.id)
        new == Meaning(q)
    IN IF ~Known(q) THEN [ok |-> TRUE, kv |-> kv]
       ELSE IF new.shape = "list"
       THEN [ok |-> old.shape \in {"none", "list"}, kv |-> Set(kv, q.field.id, Entry("list", old.of \o new.of))]
       ELSE [ok |-> TRUE, kv |-> IF new.shape = "dict" /\ old.shape = "list" THEN kv ELSE Set(kv, q.field.id, new)]

LEMMA PutsIsBoolean == \A kv, q : Puts(kv, q).ok \in BOOLEAN
<1> TAKE kv, q
<1> DEFINE old == Get(kv, q.field.id)
           new == Meaning(q)
           fine == old.shape \in {"none", "list"}
           more == Set(kv, q.field.id, Entry("list", old.of \o new.of))
           other == IF new.shape = "dict" /\ old.shape = "list" THEN kv ELSE Set(kv, q.field.id, new)
<1>1. Puts(kv, q) = IF ~Known(q) THEN [ok |-> TRUE, kv |-> kv]
                    ELSE IF new.shape = "list" THEN [ok |-> fine, kv |-> more] ELSE [ok |-> TRUE, kv |-> other]
  BY DEF Puts
<1>2. fine \in BOOLEAN
  OBVIOUS
<1> HIDE DEF new, fine, more, other
<1>3. CASE ~Known(q) \/ new.shape # "list"
  <2>1. Puts(kv, q).ok = TRUE
    BY <1>1, <1>3
  <2> QED BY <2>1
<1>4. CASE Known(q) /\ new.shape = "list"
  <2>1. Puts(kv, q) = [ok |-> fine, kv |-> more]
    BY <1>1, <1>4
  <2>2. Puts(kv, q).ok = fine
    BY <2>1
  <2> QED BY <1>2, <2>2
<1> QED BY <1>3, <1>4

LEMMA PutPoint ==
    ASSUME NEW fs \in Seq(Writable), NEW c \in Nat, NEW q \in Points, PointFits(q), Lies(fs, c, FieldsOfPoint(q)),
           NEW kv
    PROVE  Put(fs, kv, c + 1) = Puts(kv, q)
<1> DEFINE i == c + 1
           id == q.field.id
           M == q.members
           old == Get(kv, id)
           packs == [n \in DOMAIN M |-> ByNumber(Tail(M[n]))]
           dict == ByNumber(FlattenSeq(M))
<1>1. fs[i] = q.field
  BY PointLies
<1>2. M # <<>> <=> packs # <<>>
  <2>1. M \in Seq(Seq(Writable))
    BY PointType
  <2> HIDE DEF M
  <2>2. DOMAIN M = 1 .. Len(M) /\ Len(M) \in Nat
    BY <2>1, LenProperties
  <2>3. CASE M = <<>>
    BY <2>3
  <2>4. CASE M # <<>>
    <3>1. Len(M) # 0
      BY <2>1, <2>4
    <3>2. 1 \in DOMAIN M
      BY <2>2, <3>1
    <3>3. DOMAIN packs = DOMAIN M /\ DOMAIN <<>> = {}
      OBVIOUS
    <3> HIDE DEF packs
    <3> QED BY <2>4, <3>2, <3>3
  <2> QED BY <2>3, <2>4
<1>3. CASE ~Known(q)
  BY <1>1, <1>3 DEF Known, Put, Puts
<1>4. CASE Known(q) /\ ~IsStruct(q)
  <2>1. Meaning(q) = Leaf(q.field)
    BY <1>4 DEF Meaning
  <2>2. Put(fs, kv, i) = [ok |-> TRUE, kv |-> Set(kv, id, Leaf(q.field))]
    BY <1>1, <1>4 DEF Put, Known, IsStruct
  <2>3. Meaning(q).shape \notin {"list", "dict"}
    BY <2>1, LeafShape
  <2> QED BY <1>4, <2>1, <2>2, <2>3 DEF Puts
<1>5. CASE Known(q) /\ IsStruct(q)
  <2>1. PacksIn(fs, i) = IF id = Packs THEN packs ELSE <<>>
    BY <1>5, PacksAre
  <2>2. Put(fs, kv, i) = PutStruct(fs, kv, i)
    BY <1>1, <1>5 DEF Put, Known, IsStruct
  <2>3. CASE id = Packs /\ M # <<>>
    <3>1. Meaning(q) = Entry("list", packs)
      BY <1>5, <2>3 DEF Meaning
    <3>2. Meaning(q).shape = "list" /\ Meaning(q).of = packs
      BY <3>1 DEF Entry
    <3>3. PacksIn(fs, i) = packs /\ packs # <<>>
      BY <1>2, <2>1, <2>3
    <3> HIDE DEF packs, i, id
    <3>4. PutStruct(fs, kv, i) =
             [ok |-> old.shape \in {"none", "list"}, kv |-> Set(kv, id, Entry("list", old.of \o packs))]
      BY <1>1, <3>3 DEF PutStruct, id
    <3> QED BY <1>5, <2>2, <3>2, <3>4 DEF Puts, i, id
  <2>4. CASE ~(id = Packs /\ M # <<>>)
    <3>1. Meaning(q) = Entry("dict", dict)
      BY <1>5, <2>4 DEF Meaning
    <3>2. Meaning(q).shape = "dict"
      BY <3>1 DEF Entry
    <3>3. PacksIn(fs, i) = <<>>
      BY <1>2, <2>1, <2>4
    <3>4. Dict(fs, Members(fs, i)) = dict
      <4>1. id # Packs \/ M = <<>>
        BY <2>4
      <4> QED BY <1>5, <4>1, DictOfMembers
    <3> HIDE DEF dict, i, id
    <3>5. PutStruct(fs, kv, i) =
             [ok |-> TRUE, kv |-> IF old.shape = "list" THEN kv ELSE Set(kv, id, Entry("dict", dict))]
      BY <1>1, <3>3, <3>4 DEF PutStruct, id
    <3> QED BY <1>5, <2>2, <3>1, <3>2, <3>5 DEF Puts, i, id
  <2> QED BY <2>3, <2>4
<1> QED BY <1>3, <1>4, <1>5

\* The next data point begins behind the members of this one.
LEMMA StepPoint ==
    ASSUME NEW fs \in Seq(Writable), NEW c \in Nat, NEW q \in Points, PointFits(q), Lies(fs, c, FieldsOfPoint(q)),
           IsStruct(q) => Known(q)
    PROVE  /\ StepOver(fs, c + 1) = c + 1 + Len(FieldsOfPoint(q))
           /\ c + Len(FieldsOfPoint(q)) <= Len(fs) /\ Len(FieldsOfPoint(q)) \in Nat \ {0}
<1> DEFINE i == c + 1
           M == q.members
           h == FlattenSeq(M)
           l == Len(FieldsOfPoint(q))
<1>1. fs[i] = q.field /\ h \in Seq(Writable) /\ l = 1 + Len(h) /\ M \in Seq(Seq(Writable))
  BY PointLies, PointType
<1>2. Len(h) \in Nat /\ l \in Nat \ {0}
  <2> HIDE DEF h, l
  <2> QED BY <1>1
<1>3. c + l <= Len(fs)
  BY DEF Lies
<1>4. CASE IsStruct(q)
  <2>1. Count(fs, i) = Len(M) /\ \A n \in 0 .. Len(M) : MemberAt(fs, i)[n] = c + 2 + Upto(M, n)
    BY <1>4, MembersAt
  <2>2. Len(M) \in 0 .. Len(M) /\ Upto(M, Len(M)) = Len(h)
    <3> HIDE DEF M
    <3>1. Len(M) \in Nat
      BY <1>1
    <3> QED BY <1>1, <3>1, UptoEnds
  <2>3. StepOver(fs, i) = MemberAt(fs, i)[Count(fs, i)]
    BY <1>1, <1>4 DEF StepOver, IsStruct, Known
  <2> HIDE DEF M, h, l, i
  <2>4. StepOver(fs, i) = c + 2 + Len(h)
    BY <2>1, <2>2, <2>3
  <2>5. c + 2 + Len(h) = c + 1 + l
    BY <1>1, <1>2
  <2>6. StepOver(fs, i) = c + 1 + l
    BY <2>4, <2>5
  <2> QED BY <1>2, <1>3, <2>6 DEF i, l
<1>5. CASE ~IsStruct(q)
  <2>1. StepOver(fs, i) = i + 1
    BY <1>1, <1>5 DEF StepOver, IsStruct
  <2>2. M = <<>>
    BY <1>5 DEF PointFits
  <2>3. h = <<>>
    BY <2>2, FlattenEmpty
  <2> HIDE DEF h, M
  <2>4. l = 1
    BY <1>1, <2>3
  <2> QED BY <1>2, <1>3, <2>1, <2>4
<1> QED BY <1>4, <1>5

-----------------------------------------------------------------------------
(* fields_to_kv, round by round.                                              *)

Done(c, kv) == [ok |-> TRUE, i |-> c + 1, kv |-> kv]
Onward(fs, done) == IF ~done.ok \/ done.i > Len(fs) THEN done ELSE Round(fs, done)

LEMMA RoundsRec ==
    ASSUME NEW fs, Len(fs) \in Nat
    PROVE  /\ Rounds(fs)[0] = Done(0, EmptyKv)
           /\ \A n \in 1 .. Len(fs) : Rounds(fs)[n] = Onward(fs, Rounds(fs)[n - 1])
<1> DEFINE N == Len(fs)
           start == [ok |-> TRUE, i |-> 1, kv |-> EmptyKv]
           Fits1(f, m) == f = [n \in 0 .. m |-> IF n = 0 THEN start ELSE Onward(fs, f[n - 1])]
           S == {m \in 0 .. N : \E f : Fits1(f, m)}
<1>1. N \in Nat
  OBVIOUS
<1>s. start = Done(0, EmptyKv)
  BY DEF Done
<1>r. Rounds(fs) = CHOOSE f : Fits1(f, N)
  BY DEF Rounds, Onward
<1> HIDE DEF start, N
<1>2. 0 \in S
  <2> DEFINE f == [n \in 0 .. 0 |-> start]
  <2>1. Fits1(f, 0)
    OBVIOUS
  <2> HIDE DEF f, Fits1
  <2> QED BY <2>1, <1>1
<1>3. \A m \in 0 .. N - 1 : m \in S => m + 1 \in S
  <2> SUFFICES ASSUME NEW m \in 0 .. N - 1, m \in S PROVE m + 1 \in S
    OBVIOUS
  <2>1. PICK f : Fits1(f, m)
    OBVIOUS
  <2> DEFINE l == m + 1
             last == Onward(fs, f[m])
             g == [n \in 0 .. l |-> IF n <= m THEN f[n] ELSE last]
             h == [n \in 0 .. l |-> IF n = 0 THEN start ELSE Onward(fs, g[n - 1])]
  <2>2. m \in Nat /\ l \in 0 .. N /\ l = m + 1
    BY <1>1
  <2>3. \A k \in 0 .. m : f[k] = IF k = 0 THEN start ELSE Onward(fs, f[k - 1])
    BY <2>1
  <2> HIDE DEF last, l
  <2>4. (\A k \in 0 .. m : g[k] = f[k]) /\ g[l] = last
    BY <2>2
  <2>5. ASSUME NEW n \in 0 .. l PROVE g[n] = IF n = 0 THEN start ELSE Onward(fs, g[n - 1])
    <3> HIDE DEF g
    <3>1. CASE n <= m
      <4>1. n \in 0 .. m /\ (n # 0 => n - 1 \in 0 .. m)
        BY <3>1, <2>2
      <4> QED BY <4>1, <2>3, <2>4
    <3>2. CASE ~(n <= m)
      <4>1. n = l /\ n - 1 = m /\ m \in 0 .. m /\ n # 0
        BY <3>2, <2>2
      <4> QED BY <4>1, <2>4 DEF last
    <3> QED BY <3>1, <3>2
  <2>6. g = h
    BY <2>5
  <2>7. Fits1(g, l)
    <3> HIDE DEF g
    <3> QED BY <2>6
  <2> HIDE DEF g, Fits1
  <2> QED BY <2>2, <2>7
<1>4. N \in S
  <2>1. 0 .. N \subseteq S
    <3> HIDE DEF S
    <3> QED BY <1>1, <1>2, <1>3, BoundedInduction
  <2> QED BY <1>1, <2>1
<1> DEFINE F == CHOOSE f : Fits1(f, N)
<1>5. Fits1(F, N)
  BY <1>4
<1> HIDE DEF F
<1>6. \A n \in 0 .. N : F[n] = IF n = 0 THEN start ELSE Onward(fs, F[n - 1])
  BY <1>5
<1>7. 0 \in 0 .. N /\ \A n \in 1 .. N : n \in 0 .. N /\ n # 0
  BY <1>1
<1>8. F[0] = start /\ \A n \in 1 .. N : F[n] = Onward(fs, F[n - 1])
  BY <1>6, <1>7
<1> QED BY <1>s, <1>r, <1>8 DEF F, N

\* Once it stands still, the loop has ended.
LEMMA RoundsStop ==
    ASSUME NEW fs, Len(fs) \in Nat, NEW n \in 0 .. Len(fs), Onward(fs, Rounds(fs)[n]) = Rounds(fs)[n]
    PROVE  FieldsToKv(fs) = Rounds(fs)[n]
<1> DEFINE N == Len(fs)
           done == Rounds(fs)[n]
           T == {m \in 0 .. N - n : Rounds(fs)[n + m] = done}
<1>1. N \in Nat /\ n \in Nat /\ N - n \in Nat
  OBVIOUS
<1>2. Onward(fs, done) = done
  OBVIOUS
<1>3. 0 \in T
  <2>1. n + 0 = n
    BY <1>1
  <2> QED BY <1>1, <2>1
<1> HIDE DEF done
<1>4. \A m \in 0 .. (N - n) - 1 : m \in T => m + 1 \in T
  <2> SUFFICES ASSUME NEW m \in 0 .. (N - n) - 1, m \in T PROVE m + 1 \in T
    OBVIOUS
  <2> DEFINE l == n + (m + 1)
  <2>1. l \in 1 .. N /\ l - 1 = n + m /\ m + 1 \in 0 .. N - n
    BY <1>1
  <2>2. Rounds(fs)[n + m] = done
    OBVIOUS
  <2> HIDE DEF l
  <2>3. Rounds(fs)[l] = Onward(fs, Rounds(fs)[l - 1])
    BY <2>1, RoundsRec
  <2>4. Rounds(fs)[l] = done
    BY <1>2, <2>1, <2>2, <2>3
  <2> QED BY <2>1, <2>4 DEF l
<1>5. 0 .. N - n \subseteq T
  <2> DEFINE M == N - n
  <2>1. M \in Nat
    BY <1>1
  <2> HIDE DEF T, M
  <2>2. \A m \in 0 .. M - 1 : m \in T => m + 1 \in T
    BY <1>4 DEF M
  <2>3. 0 .. M \subseteq T
    BY <1>3, <2>1, <2>2, BoundedInduction
  <2> QED BY <2>3 DEF M
<1>6. N - n \in 0 .. N - n /\ n + (N - n) = N
  BY <1>1
<1>7. Rounds(fs)[N] = done
  <2>1. N - n \in T
    BY <1>5, <1>6
  <2> QED BY <1>6, <2>1
<1> QED BY <1>7 DEF FieldsToKv, done

\* It has not raised before, if it does not raise.
LEMMA OkSoFar ==
    ASSUME NEW fs, Len(fs) \in Nat, FieldsToKv(fs).ok, NEW n \in 0 .. Len(fs)
    PROVE  Rounds(fs)[n].ok
<1> SUFFICES ASSUME ~Rounds(fs)[n].ok PROVE FALSE
  OBVIOUS
<1>1. Onward(fs, Rounds(fs)[n]) = Rounds(fs)[n]
  BY DEF Onward
<1>2. FieldsToKv(fs) = Rounds(fs)[n]
  BY <1>1, RoundsStop
<1> QED BY <1>2

\* The round of a data point.
LEMMA PointRound ==
    ASSUME NEW fs \in Seq(Writable), NEW c \in Nat, NEW q \in Points, PointFits(q), Lies(fs, c, FieldsOfPoint(q)),
           IsStruct(q) => Known(q), NEW kv
    PROVE  Onward(fs, Done(c, kv)) =
              [ok |-> Puts(kv, q).ok, i |-> c + Len(FieldsOfPoint(q)) + 1, kv |-> Puts(kv, q).kv]
<1> DEFINE i == c + 1
           l == Len(FieldsOfPoint(q))
           done == Done(c, kv)
           put == Puts(kv, q)
<1>1. Put(fs, kv, i) = put
  BY PutPoint
<1>2. StepOver(fs, i) = i + l /\ c + l <= Len(fs) /\ l \in Nat \ {0}
  BY StepPoint
<1>4. done.ok = TRUE /\ done.i = i /\ done.kv = kv
  BY DEF Done
<1>5. ~(i > Len(fs)) /\ i + l = c + l + 1
  <2>1. Len(fs) \in Nat
    OBVIOUS
  <2> HIDE DEF l
  <2> QED BY <1>2, <2>1
<1> HIDE DEF done, put, i, l
<1>6. Onward(fs, done) = [ok |-> put.ok, i |-> i + l, kv |-> put.kv]
  BY <1>1, <1>2, <1>4, <1>5 DEF Onward, Round
<1> QED BY <1>5, <1>6 DEF done, put, l

\* The rounds of a report, wherever its fields lie: one for each of its points.
PointEnd(r, c, k) == c + Upto(FieldsOfPoints(Reports[r]), k)
Reaches(fs, r, c, k, n, kv) == n <= PointEnd(r, c, k) /\ Rounds(fs)[n] = Done(PointEnd(r, c, k), kv)

LEMMA ReportRound ==
    ASSUME NEW fs \in Seq(Writable), NEW r \in AllKnown, NEW c \in Nat, Lies(fs, c, FieldsOf[r]),
           NEW k \in 1 .. Len(Reports[r]), NEW n \in Nat, NEW kv,
           Reaches(fs, r, c, k - 1, n, kv), FieldsToKv(fs).ok \/ Puts(kv, Reports[r][k]).ok
    PROVE  n + 1 \in 1 .. Len(fs) /\ Reaches(fs, r, c, k, n + 1, Puts(kv, Reports[r][k]).kv)
<1> DEFINE R == Reports[r]
           P == FieldsOfPoints(R)
           F == FlattenSeq(P)
           u == Upto(P, k - 1)
           q == R[k]
           b == FieldsOfPoint(q)
           d == c + u
<1>0. r \in DOMAIN Reports /\ \A p \in ToSet(R) : IsStruct(p) => Known(p)
  BY DEF AllKnown
<1>1. q \in Points /\ PointFits(q)
  BY <1>0, ReportsType
<1>2. /\ P \in Seq(Seq(Writable)) /\ Len(P) = Len(R) /\ P[k] = b /\ FieldsOf[r] = F
      /\ Len(b) \in Nat /\ Len(b) >= 1 /\ DOMAIN R = 1 .. Len(R)
  <2>1. LET X == Reports[r]
            Y == FieldsOfPoints(X)
        IN /\ Y \in Seq(Seq(Writable)) /\ Len(Y) = Len(X) /\ Len(X) \in Nat /\ Len(X) >= 1
           /\ \A m \in 1 .. Len(X) : Y[m] = FieldsOfPoint(X[m]) /\ Len(Y[m]) \in Nat /\ Len(Y[m]) >= 1
           /\ FieldsOf[r] = FlattenSeq(Y)
    BY <1>0, PointsType
  <2>2. R \in Seq(Points)
    BY <1>0, ReportsType
  <2>3. DOMAIN R = 1 .. Len(R)
    <3> HIDE DEF R
    <3> QED BY <2>2, LenProperties
  <2> HIDE DEF b
  <2> QED BY <2>1, <2>3 DEF b
<1>3. IsStruct(q) => Known(q)
  <2>1. q \in ToSet(R)
    BY <1>2 DEF ToSet
  <2> QED BY <1>0, <2>1
<1>k. k \in 1 .. Len(P)
  BY <1>2
<1> HIDE DEF R, P, F, q, b
<1>4. u \in Nat /\ Upto(P, k) = u + Len(b) /\ Lies(F, u, b)
  BY <1>2, <1>k, PartLies DEF F
<1> HIDE DEF u
<1>5. b \in Seq(Writable) /\ F \in Seq(Writable) /\ Len(fs) \in Nat
  <2>1. b \in Seq(Writable)
    BY <1>2, <1>k, ElementOfSeq
  <2> QED BY <1>2, <2>1, FlattenRec DEF F
<1>6. Lies(fs, d, b)
  BY <1>2, <1>4, <1>5, LiesWithin
<1>7. d \in Nat /\ n <= d /\ Rounds(fs)[n] = Done(d, kv) /\ c + Upto(P, k) = d + Len(b)
  <2>1. n <= c + Upto(P, k - 1) /\ Rounds(fs)[n] = Done(c + Upto(P, k - 1), kv)
    BY DEF P, R, Reaches, PointEnd
  <2> QED BY <1>2, <1>4, <2>1 DEF u, q, R
<1> HIDE DEF d
<1>8. Onward(fs, Done(d, kv)) = [ok |-> Puts(kv, q).ok, i |-> d + Len(b) + 1, kv |-> Puts(kv, q).kv]
  BY <1>1, <1>3, <1>6, <1>7, PointRound DEF b
<1> DEFINE m == n + 1
           l == Len(b)
<1>9. m \in 1 .. Len(fs) /\ m <= d + l /\ m - 1 = n
  <2>1. d + l <= Len(fs)
    BY <1>6 DEF Lies
  <2>2. l \in Nat /\ l >= 1
    BY <1>2
  <2> HIDE DEF l
  <2> QED BY <1>5, <1>7, <2>1, <2>2
<1> HIDE DEF m
<1>10. Rounds(fs)[m] = Onward(fs, Rounds(fs)[m - 1])
  BY <1>5, <1>9, RoundsRec
<1>11. Rounds(fs)[m] = Done(d + l, Puts(kv, q).kv)
  <2> DEFINE put == Puts(kv, q)
  <2>1. Rounds(fs)[m] = [ok |-> put.ok, i |-> d + l + 1, kv |-> put.kv]
    BY <1>7, <1>8, <1>9, <1>10
  <2>2. put.ok = TRUE
    <3>1. FieldsToKv(fs).ok \/ put.ok
      BY DEF q, R
    <3>2. m \in 0 .. Len(fs)
      BY <1>5, <1>9
    <3>3. FieldsToKv(fs).ok => Rounds(fs)[m].ok
      BY <1>5, <3>2, OkSoFar
    <3>4. put.ok \in BOOLEAN
      BY PutsIsBoolean
    <3> HIDE DEF put
    <3> QED BY <2>1, <3>1, <3>3, <3>4
  <2> HIDE DEF put
  <2>3. Rounds(fs)[m] = Done(d + l, put.kv)
    BY <2>1, <2>2 DEF Done
  <2> QED BY <2>3 DEF put
<1>12. m <= c + Upto(P, k) /\ Rounds(fs)[m] = Done(c + Upto(P, k), Puts(kv, q).kv)
  BY <1>7, <1>9, <1>11
<1> QED BY <1>9, <1>12 DEF m, P, q, R, Reaches, PointEnd

\* What the first k points of a report mean.
KnownTo(r, k) == {q \in {Reports[r][n] : n \in 1 .. k} : Known(q)}
KvTo(r, k) ==
    [id \in {q.field.id : q \in KnownTo(r, k)} |-> Meaning(CHOOSE q \in KnownTo(r, k) : q.field.id = id)]

LEMMA KvEnds ==
    ASSUME NEW r \in DOMAIN Reports
    PROVE  KvTo(r, 0) = EmptyKv /\ KvTo(r, Len(Reports[r])) = ReportKv[r]
<1> DEFINE R == Reports[r]
<1>1. KnownTo(r, 0) = {}
  BY DEF KnownTo
<1>2. KvTo(r, 0) = EmptyKv
  <2> DEFINE I == {q.field.id : q \in KnownTo(r, 0)}
             m(id) == Meaning(CHOOSE q \in KnownTo(r, 0) : q.field.id = id)
  <2>1. I = {}
    BY <1>1
  <2>2. KvTo(r, 0) = [id \in I |-> m(id)]
    BY DEF KvTo
  <2> HIDE DEF I, m
  <2> QED BY <2>1, <2>2 DEF EmptyKv
<1>3. R \in Seq(Points)
  BY ReportsType
<1>4. {R[n] : n \in 1 .. Len(R)} = ToSet(R)
  <2> HIDE DEF R
  <2>1. DOMAIN R = 1 .. Len(R)
    BY <1>3, LenProperties
  <2> QED BY <2>1 DEF ToSet
<1>5. KnownTo(r, Len(R)) = {q \in ToSet(R) : Known(q)}
  BY <1>4 DEF KnownTo
<1>6. KvTo(r, Len(R)) = ReportKv[r]
  BY <1>5 DEF KvTo, ReportKv
<1> QED BY <1>2, <1>6

\* One more of them.
LEMMA KvStep ==
    ASSUME NEW r \in DOMAIN Reports, NEW k \in 1 .. Len(Reports[r])
    PROVE  LET put == Puts(KvTo(r, k - 1), Reports[r][k]) IN put.ok /\ put.kv = KvTo(r, k)
<1> DEFINE R == Reports[r]
           q == R[k]
           id == q.field.id
           A == KnownTo(r, k - 1)
           B == KnownTo(r, k)
           old == KvTo(r, k - 1)
           new == Meaning(q)
<1>1. /\ R \in Seq(Points) /\ ReportFits(R) /\ Len(R) \in Nat
      /\ q \in Points /\ PointFits(q)
  <2>1. R \in Seq(Points) /\ ReportFits(R) /\ q \in Points /\ PointFits(q)
    BY ReportsType
  <2> HIDE DEF R
  <2> QED BY <2>1
<1>2. \A m, n \in 1 .. Len(R) : R[m].field.id = R[n].field.id => m = n
  <2>1. DOMAIN R = 1 .. Len(R)
    <3> HIDE DEF R
    <3> QED BY <1>1, LenProperties
  <2> QED BY <1>1, <2>1 DEF ReportFits
<1>3. k \in Nat /\ k >= 1 /\ k <= Len(R)
  BY <1>1
<1>4. B = IF Known(q) THEN A \cup {q} ELSE A
  <2>1. 1 .. k = (1 .. k - 1) \cup {k}
    BY <1>3
  <2>2. {R[n] : n \in 1 .. k} = {R[n] : n \in 1 .. k - 1} \cup {q}
    BY <2>1
  <2> QED BY <2>2 DEF KnownTo
<1>5. ASSUME NEW p \in A PROVE p.field.id # id
  <2>1. PICK n \in 1 .. k - 1 : p = R[n]
    BY <1>5 DEF KnownTo
  <2>2. n \in 1 .. Len(R) /\ k \in 1 .. Len(R) /\ n # k
    BY <1>3
  <2> QED BY <1>2, <2>1, <2>2
<1>6. CASE ~Known(q)
  <2>1. KvTo(r, k) = old
    BY <1>4, <1>6 DEF KvTo
  <2> QED BY <1>6, <2>1 DEF Puts
<1>7. CASE Known(q)
  <2> DEFINE I == {p.field.id : p \in A}
             J == {p.field.id : p \in B}
             mA(x) == Meaning(CHOOSE p \in A : p.field.id = x)
             mB(x) == Meaning(CHOOSE p \in B : p.field.id = x)
  <2>1. old = [x \in I |-> mA(x)] /\ KvTo(r, k) = [x \in J |-> mB(x)]
    BY DEF KvTo
  <2>2. J = I \cup {id} /\ id \notin I
    BY <1>4, <1>5, <1>7
  <2>3. \A x \in J : mB(x) = IF x = id THEN new ELSE mA(x)
    <3> TAKE x \in J
    <3>1. CASE x = id
      <4>1. q \in B /\ \A p \in B : p.field.id = id => p = q
        BY <1>4, <1>5, <1>7
      <4> DEFINE z == CHOOSE p \in B : p.field.id = x
      <4>2. z = q
        BY <3>1, <4>1
      <4>3. mB(x) = Meaning(z)
        OBVIOUS
      <4> HIDE DEF z, mB
      <4> QED BY <3>1, <4>2, <4>3
    <3>2. CASE x # id
      <4>1. \A p : (p \in B /\ p.field.id = x) <=> (p \in A /\ p.field.id = x)
        BY <1>4, <1>7, <3>2
      <4>2. (CHOOSE p \in B : p.field.id = x) = (CHOOSE p \in A : p.field.id = x)
        <5>1. (CHOOSE p : p \in B /\ p.field.id = x) = (CHOOSE p : p \in A /\ p.field.id = x)
          BY <4>1
        <5> QED BY <5>1
      <4> DEFINE z == CHOOSE p \in B : p.field.id = x
                 y == CHOOSE p \in A : p.field.id = x
      <4>3. z = y /\ mB(x) = Meaning(z) /\ mA(x) = Meaning(y)
        BY <4>2
      <4> HIDE DEF y, z, mA, mB
      <4> QED BY <3>2, <4>3
    <3> QED BY <3>1, <3>2
  <2> HIDE DEF mA, mB, I, J, A, B
  <2>4. KvTo(r, k) = Set(old, id, new)
    <3>1. DOMAIN old = I /\ \A x \in I : old[x] = mA(x)
      BY <2>1
    <3> HIDE DEF old, new, id
    <3>2. Set(old, id, new) = [x \in J |-> IF x = id THEN new ELSE old[x]]
      BY <2>2, <3>1 DEF Set
    <3>3. \A x \in J : mB(x) = IF x = id THEN new ELSE old[x]
      BY <2>2, <2>3, <3>1
    <3> QED BY <2>1, <3>2, <3>3
  <2>5. Get(old, id) = NoEntry
    BY <2>1, <2>2 DEF Get
  <2>6. CASE new.shape = "list"
    <3>1. new = Entry("list", [n \in DOMAIN q.members |-> ByNumber(Tail(q.members[n]))])
      <4>1. IsStruct(q)
        BY <2>6, LeafShape DEF Meaning
      <4> QED BY <2>6, <4>1 DEF Meaning, Entry
    <3> DEFINE s == [n \in DOMAIN q.members |-> ByNumber(Tail(q.members[n]))]
               S == {ByNumber(Tail(q.members[n])) : n \in DOMAIN q.members}
    <3>2. DOMAIN q.members = 1 .. Len(q.members) /\ Len(q.members) \in Nat
      <4> DEFINE M == q.members
      <4>1. M \in Seq(Seq(Writable))
        BY <1>1, PointType
      <4> HIDE DEF M
      <4>2. DOMAIN M = 1 .. Len(M) /\ Len(M) \in Nat
        BY <4>1, LenProperties
      <4> QED BY <4>2 DEF M
    <3>3. s \in [1 .. Len(q.members) -> S]
      BY <3>2
    <3> HIDE DEF s, S, new
    <3>4. s \in Seq(S)
      BY <3>2, <3>3, SeqDef
    <3>5. <<>> \o s = s
      BY <3>4
    <3>6. Get(old, id).shape = "none" /\ Get(old, id).of = <<>>
      BY <2>5 DEF NoEntry, Entry
    <3>7. new.of = s
      BY <3>1 DEF Entry, s
    <3> HIDE DEF old, id
    <3>8. Puts(old, q) = [ok |-> Get(old, id).shape \in {"none", "list"},
                          kv |-> Set(old, id, Entry("list", Get(old, id).of \o new.of))]
      BY <1>7, <2>6 DEF Puts, new, id
    <3>9. Entry("list", Get(old, id).of \o new.of) = new
      BY <3>1, <3>5, <3>6, <3>7 DEF s
    <3> DEFINE put == Set(old, id, new)
               fine == Get(old, id).shape \in {"none", "list"}
    <3>10. Puts(old, q) = [ok |-> fine, kv |-> put] /\ fine
      BY <3>6, <3>8, <3>9
    <3> HIDE DEF put, fine
    <3>11. Puts(old, q).ok /\ Puts(old, q).kv = put
      BY <3>10
    <3> QED BY <2>4, <3>11 DEF old, put
  <2>7. CASE new.shape # "list"
    <3>1. Get(old, id).shape = "none"
      BY <2>5 DEF NoEntry, Entry
    <3> HIDE DEF old, id, new
    <3>2. Puts(old, q) = [ok |-> TRUE, kv |-> Set(old, id, new)]
      BY <1>7, <2>7, <3>1 DEF Puts, new, id
    <3> QED BY <2>4, <3>2 DEF old
  <2> QED BY <2>6, <2>7
<1> QED BY <1>6, <1>7

\* Behind the last field the loop has ended.
LEMMA RoundsEnd ==
    ASSUME NEW fs, Len(fs) \in Nat, NEW n \in 0 .. Len(fs), NEW kv, Rounds(fs)[n] = Done(Len(fs), kv)
    PROVE  FieldsToKv(fs) = Done(Len(fs), kv)
<1>1. Done(Len(fs), kv).i > Len(fs)
  BY DEF Done
<1>2. Onward(fs, Rounds(fs)[n]) = Rounds(fs)[n]
  BY <1>1 DEF Onward
<1> QED BY <1>2, RoundsStop

\* A whole report, and nothing else, becomes what it means.
LEMMA ReportBecomesKv ==
    ASSUME NEW r \in AllKnown
    PROVE  FieldsToKv(FieldsOf[r]).ok /\ FieldsToKv(FieldsOf[r]).kv = ReportKv[r]
<1> DEFINE R == Reports[r]
           P == FieldsOfPoints(R)
           N == Len(R)
           F == FieldsOf[r]
           T == {k \in 0 .. N : k <= Upto(P, k) /\ Upto(P, k) \in Nat /\ Rounds(F)[k] = Done(Upto(P, k), KvTo(r, k))}
<1>0. r \in DOMAIN Reports
  BY DEF AllKnown
<1>1. P \in Seq(Seq(Writable)) /\ Len(P) = N /\ N \in Nat /\ F = FlattenSeq(P)
  BY <1>0, PointsType
<1>2. F \in Seq(Writable) /\ Len(F) \in Nat
  <2>1. F \in Seq(Writable)
    BY <1>0, FieldsOfType
  <2> HIDE DEF F
  <2> QED BY <2>1
<1>3. Upto(P, 0) = 0 /\ Upto(P, N) = Len(F)
  <2> HIDE DEF P, N, F
  <2> QED BY <1>1, UptoEnds
<1>4. 0 \in T
  <2>1. Rounds(F)[0] = Done(0, KvTo(r, 0))
    <3>1. KvTo(r, 0) = EmptyKv
      BY <1>0, KvEnds
    <3> HIDE DEF F
    <3> QED BY <1>2, <3>1, RoundsRec
  <2>2. 0 <= Upto(P, 0) /\ Upto(P, 0) \in Nat /\ 0 \in 0 .. N
    BY <1>1, <1>3
  <2> HIDE DEF P, F, N
  <2> QED BY <1>3, <2>1, <2>2
<1>5. \A m \in 0 .. N - 1 : m \in T => m + 1 \in T
  <2> SUFFICES ASSUME NEW m \in 0 .. N - 1, m \in T PROVE m + 1 \in T
    OBVIOUS
  <2> DEFINE k == m + 1
             old == KvTo(r, m)
             u == Upto(P, k)
  <2>1. m \in Nat /\ k \in 1 .. N /\ k \in 0 .. N /\ k - 1 = m
    BY <1>1
  <2>2. m <= Upto(P, m) /\ Upto(P, m) \in Nat /\ Rounds(F)[m] = Done(Upto(P, m), old)
    OBVIOUS
  <2>l. Lies(F, 0, F)
    <3> HIDE DEF F
    <3> QED BY <1>2, LiesWhole
  <2> HIDE DEF k, N, old, F
  <2>3. Puts(old, R[k]).ok /\ Puts(old, R[k]).kv = KvTo(r, k)
    <3>1. k \in 1 .. Len(Reports[r])
      BY <2>1 DEF N
    <3> QED BY <1>0, <2>1, <3>1, KvStep DEF old
  <2>4. Reaches(F, r, 0, k - 1, m, old)
    <3>1. 0 + Upto(P, m) = Upto(P, m) /\ PointEnd(r, 0, k - 1) = 0 + Upto(P, m)
      BY <2>1, <2>2 DEF PointEnd
    <3> QED BY <2>2, <3>1 DEF Reaches
  <2>5. Reaches(F, r, 0, k, m + 1, Puts(old, R[k]).kv)
    <3>1. k \in 1 .. Len(Reports[r]) /\ Lies(F, 0, FieldsOf[r]) /\ 0 \in Nat /\ m \in Nat
      BY <2>1, <2>l DEF N, F
    <3>2. Puts(old, Reports[r][k]).ok
      BY <2>3
    <3> HIDE DEF R, P, T
    <3>3. Reaches(F, r, 0, k, m + 1, Puts(old, Reports[r][k]).kv)
      BY <1>2, <2>4, <3>1, <3>2, ReportRound
    <3> QED BY <3>3 DEF R
  <2>6. u \in Nat
    <3> HIDE DEF P
    <3> QED BY <1>1, <2>1, PartLies
  <2> HIDE DEF u
  <2>7. PointEnd(r, 0, k) = u /\ m + 1 = k
    <3>1. PointEnd(r, 0, k) = 0 + u
      BY DEF PointEnd, u
    <3> QED BY <2>6, <3>1 DEF k
  <2>8. k <= u /\ Rounds(F)[k] = Done(u, KvTo(r, k))
    BY <2>3, <2>5, <2>7 DEF Reaches
  <2>9. k \in T
    BY <2>1, <2>6, <2>8 DEF u
  <2> QED BY <2>9 DEF k
<1>6. 0 .. N \subseteq T
  <2> HIDE DEF T, N
  <2> QED BY <1>1, <1>4, <1>5, BoundedInduction
<1>7. N <= Len(F) /\ Rounds(F)[N] = Done(Len(F), KvTo(r, N))
  <2>1. N \in 0 .. N
    BY <1>1
  <2>2. N \in T
    BY <1>6, <2>1
  <2> QED BY <1>3, <2>2
<1>8. KvTo(r, N) = ReportKv[r]
  BY <1>0, KvEnds
<1> HIDE DEF N, F
<1>9. FieldsToKv(F) = Done(Len(F), ReportKv[r])
  <2>1. N \in 0 .. Len(F)
    BY <1>1, <1>2, <1>7
  <2> QED BY <1>2, <1>7, <1>8, <2>1, RoundsEnd
<1> QED BY <1>9 DEF Done, F

-----------------------------------------------------------------------------
(* What the coordinator has of an answer.                                     *)

\* A whole answer is the fields of its report.
LEMMA AnswerIsWhole ==
    ASSUME NEW r \in DOMAIN Reports, NEW answer \in Answers[r]
    PROVE  Sent(answer) = FieldsOf[r]
<1> DEFINE F == FieldsOf[r]
           n == Len(F)
<1>1. F \in Seq(Writable) /\ n \in Nat /\ n >= 1
  <2>1. F \in Seq(Writable) /\ n >= 1
    BY FieldsOfType
  <2> HIDE DEF F
  <2> QED BY <2>1
<1>2. \/ answer = <<Status(r, 1, n)>>
      \/ \E k \in 1 .. n - 1 : answer = <<Status(r, 1, k), Status(r, k + 1, n)>>
  BY DEF Answers
<1>3. \A i \in Nat, j \in Nat : 1 <= i /\ i <= j /\ j <= n =>
          Status(r, i, j) \in StatusPackets /\ PartOf(Status(r, i, j)) = SubSeq(F, i, j)
  BY DEF Status, StatusPackets, PartOf
<1>4. Sent(<<>>) = <<>> /\ <<>> \in Seq(StatusPackets)
  BY TookNothing DEF Took
<1>5. SubSeq(F, 1, n) = F
  <2> HIDE DEF F
  <2> QED BY <1>1
<1>6. CASE answer = <<Status(r, 1, n)>>
  <2> DEFINE p == Status(r, 1, n)
  <2>1. p \in StatusPackets /\ PartOf(p) = F
    BY <1>1, <1>3, <1>5
  <2> HIDE DEF p, F
  <2>2. Sent(Append(<<>>, p)) = Sent(<<>>) \o PartOf(p)
    BY <1>4, <2>1, SentAppend
  <2>3. Append(<<>>, p) = <<p>> /\ <<>> \o F = F
    BY <1>1
  <2> QED BY <1>4, <1>6, <2>1, <2>2, <2>3 DEF p, F
<1>7. ASSUME NEW k \in 1 .. n - 1, answer = <<Status(r, 1, k), Status(r, k + 1, n)>>
      PROVE  Sent(answer) = F
  <2> DEFINE p == Status(r, 1, k)
             q == Status(r, k + 1, n)
             a == SubSeq(F, 1, k)
             b == SubSeq(F, k + 1, n)
  <2>1. k \in Nat /\ k + 1 \in Nat /\ 1 <= k /\ k <= n /\ k + 1 <= n /\ 1 <= k + 1
    BY <1>1
  <2>2. p \in StatusPackets /\ PartOf(p) = a /\ q \in StatusPackets /\ PartOf(q) = b
    <3>1. n \in Nat /\ 1 \in Nat /\ 1 <= 1 /\ n <= n
      BY <1>1
    <3> DEFINE l == k + 1
    <3>2. l \in Nat /\ 1 <= l /\ l <= n
      BY <2>1
    <3> HIDE DEF l, n
    <3>3. p \in StatusPackets /\ PartOf(p) = a
      BY <1>3, <2>1, <3>1
    <3>4. Status(r, l, n) \in StatusPackets /\ PartOf(Status(r, l, n)) = SubSeq(F, l, n)
      BY <1>3, <3>1, <3>2
    <3> QED BY <3>3, <3>4 DEF l
  <2>3. a \in Seq(Writable) /\ b \in Seq(Writable) /\ a \o b = F
    <3>1. /\ a \in Seq(Writable) /\ Len(a) = k /\ \A i \in 1 .. k : a[i] = F[i]
          /\ b \in Seq(Writable) /\ Len(b) = n - k /\ \A i \in 1 .. n - k : b[i] = F[k + i]
      <4> HIDE DEF F
      <4>1. (\A i \in 1 .. k : F[i] \in Writable) /\ (\A i \in k + 1 .. n : F[i] \in Writable)
        BY <1>1, <2>1
      <4>2. /\ a \in Seq(Writable) /\ Len(a) = k /\ \A i \in 1 .. k : a[i] = F[i]
        BY <1>1, <2>1, <4>1
      <4>3. b \in Seq(Writable) /\ Len(b) = n - k /\ \A i \in 1 .. n - k : b[i] = F[k + i]
        BY <1>1, <2>1, <4>1
      <4> QED BY <4>2, <4>3
    <3> DEFINE c == a \o b
    <3> HIDE DEF a, b, F
    <3>2. /\ c \in Seq(Writable) /\ Len(c) = k + (n - k)
          /\ \A i \in 1 .. k : c[i] = a[i]
          /\ \A i \in 1 .. n - k : c[k + i] = b[i]
      <4>1. a \in Seq(Writable) /\ b \in Seq(Writable)
        BY <3>1
      <4>2. c \in Seq(Writable)
        BY <4>1, ConcatProperties
      <4>3. /\ Len(c) = Len(a) + Len(b)
            /\ \A i \in 1 .. Len(a) : c[i] = a[i]
            /\ \A i \in 1 .. Len(b) : c[Len(a) + i] = b[i]
        BY <4>1, ConcatParts
      <4> HIDE DEF c
      <4> QED BY <3>1, <4>2, <4>3
    <3> HIDE DEF c
    <3>3. Len(c) = n
      BY <1>1, <2>1, <3>2
    <3>4. \A i \in 1 .. n : c[i] = F[i]
      <4> TAKE i \in 1 .. n
      <4>1. CASE i <= k
        <5>1. i \in 1 .. k
          BY <4>1, <2>1
        <5> QED BY <5>1, <3>1, <3>2
      <4>2. CASE ~(i <= k)
        <5> DEFINE j == i - k
        <5>1. j \in 1 .. n - k /\ k + j = i
          BY <4>2, <1>1, <2>1
        <5> HIDE DEF j
        <5> QED BY <5>1, <3>1, <3>2
      <4> QED BY <4>1, <4>2
    <3>5. c = F
      BY <1>1, <3>2, <3>3, <3>4, SeqEqual
    <3> QED BY <3>1, <3>5 DEF c
  <2> HIDE DEF p, q, a, b, F
  <2> DEFINE s == Append(<<>>, p)
  <2>4. Sent(s) = Sent(<<>>) \o PartOf(p) /\ s \in Seq(StatusPackets)
    BY <1>4, <2>2, SentAppend
  <2>5. Append(<<>>, p) = <<p>> /\ <<>> \o a = a /\ Append(<<p>>, q) = <<p, q>>
    <3>1. Append(<<>>, p) = <<p>>
      <4>1. \A x : Append(<<>>, x) = <<x>>
        OBVIOUS
      <4> QED BY <4>1
    <3>2. <<>> \o a = a
      BY <2>3
    <3>3. Append(<<p>>, q) = <<p, q>>
      <4> DEFINE S == {p, q}
                 l == <<p>>
                 g == <<p, q>>
                 h == Append(l, q)
      <4>1. l \in Seq(S) /\ Len(l) = 1 /\ l[1] = p /\ g \in Seq(S) /\ Len(g) = 2 /\ g[1] = p /\ g[2] = q
        OBVIOUS
      <4>2. q \in S
        OBVIOUS
      <4> HIDE DEF S, l, g
      <4>3. h \in Seq(S) /\ Len(h) = Len(l) + 1 /\ h[Len(l) + 1] = q /\ \A i \in 1 .. Len(l) : h[i] = l[i]
        <5>1. l \in Seq(S)
          BY <4>1
        <5> QED BY <4>2, <5>1, AppendProperties
      <4> HIDE DEF h
      <4>4. Len(h) = 2 /\ h[2] = q /\ h[1] = p
        BY <4>1, <4>3
      <4>5. Len(h) = Len(g) /\ \A i \in 1 .. Len(h) : h[i] = g[i]
        BY <4>1, <4>4
      <4>6. h = g
        BY <4>1, <4>3, <4>5, SeqEqual
      <4> QED BY <4>6 DEF h, g, l
    <3> QED BY <3>1, <3>2, <3>3
  <2> HIDE DEF s
  <2>6. Sent(Append(s, q)) = Sent(s) \o PartOf(q)
    BY <2>2, <2>4, SentAppend
  <2>7. Sent(s) = a
    BY <1>4, <2>2, <2>4, <2>5
  <2>8. Sent(<<p, q>>) = F
    BY <2>2, <2>3, <2>5, <2>6, <2>7 DEF s
  <2> QED BY <1>7, <2>8 DEF p, q, F
<1> QED BY <1>2, <1>6, <1>7 DEF F

\* The coordinator's data are what fields_to_kv makes of the packets they come from.
DataInv == LET made_of == FieldsToKv(Sent(source)) IN made_of.ok /\ data = made_of.kv

LEMMA DataGoesOn == DataInv /\ ReadInv /\ [Next]_vars => DataInv'
<1> SUFFICES ASSUME DataInv, ReadInv, [Next]_vars PROVE DataInv'
  OBVIOUS
<1>0. Took(fields, taken)
  BY DEF ReadInv, TakenInv
<1>1. ASSUME UNCHANGED shown PROVE DataInv'
  BY <1>1 DEF DataInv, shown
<1>2. ASSUME NEW fs, NEW from, Took(fs, from), CollectEnds(fs, from) PROVE DataInv'
  <2> DEFINE kv == FieldsToKv(fs)
  <2>1. UNCHANGED shown \/ (kv.ok /\ data' = kv.kv /\ source' = from)
    BY <1>2 DEF CollectEnds, ReadEnds, Request, shown
  <2>2. fs = Sent(from)
    BY <1>2 DEF Took
  <2>3. CASE kv.ok /\ data' = kv.kv /\ source' = from
    BY <2>2, <2>3 DEF DataInv
  <2> QED BY <1>1, <2>1, <2>3
<1>3. ASSUME NEW fs, NEW from, Took(fs, from), CollectMore(fs, from) PROVE DataInv'
  <2>1. CollectEnds(fs, from) \/ UNCHANGED shown
    BY <1>3 DEF CollectMore
  <2> QED BY <1>1, <1>2, <1>3, <2>1
<1>4. CASE CollectPacket
  <2> DEFINE p == Head(stream)
             fs == fields \o ParseFields(Payload(p))
             from == Append(taken, p)
  <2>1. stream # <<>> /\ CASE p.cmd = "void" -> CollectMore(fields, taken)
                           [] p.cmd = "status" -> CollectMore(fs, from)
                           [] OTHER -> CollectEnds(fields, taken)
    BY <1>4 DEF CollectPacket
  <2>2. p \in Packets
    BY <2>1, HeadTailProperties DEF ReadInv, StreamInv
  <2> HIDE DEF p
  <2>3. p.cmd = "status" => Took(fs, from)
    <3> SUFFICES ASSUME p.cmd = "status" PROVE Took(fs, from)
      OBVIOUS
    <3>1. p \in StatusPackets
      BY <2>2, PacketKinds
    <3> QED BY <1>0, <3>1, TookMore
  <2> HIDE DEF fs, from
  <2> QED BY <1>0, <1>2, <1>3, <2>1, <2>3
<1>5. CASE CollectTimeout
  BY <1>0, <1>2, <1>5 DEF CollectTimeout
<1>6. CASE Answer \/ SendOther \/ HangUp \/ WriteTakes \/ ReadBegin \/ UNCHANGED vars
  <2>1. UNCHANGED shown
    BY <1>6 DEF Answer, SendOther, HangUp, WriteTakes, ReadBegin, vars, shown
  <2> QED BY <1>1, <2>1
<1> QED BY <1>4, <1>5, <1>6 DEF Next

LEMMA DataKept == Spec => []DataInv
<1>1. Init => DataInv
  <2> SUFFICES ASSUME Init PROVE DataInv
    OBVIOUS
  <2>1. data = EmptyKv /\ source = <<>>
    BY DEF Init
  <2>2. Sent(<<>>) = <<>>
    BY TookNothing DEF Took
  <2> DEFINE none == <<>>
  <2>3. Len(none) = 0 /\ 0 \in Nat /\ 0 \in 0 .. 0
    OBVIOUS
  <2> HIDE DEF none
  <2>4. FieldsToKv(none) = Done(0, EmptyKv)
    <3>1. Rounds(none)[0] = Done(0, EmptyKv)
      BY <2>3, RoundsRec
    <3> QED BY <2>3, <3>1 DEF FieldsToKv
  <2> QED BY <2>1, <2>2, <2>4 DEF DataInv, Done, none
<1> QED BY <1>1, DataGoesOn, ReadKept, PTL DEF Spec

\* For any reports, a read that took one whole answer and nothing else gives the
\* coordinator just what the device reported, whether it came in one packet or two,
\* if it names no STRUCT that fields_to_kv does not know.
THEOREM WholeAnswersAreExact == Spec => []AnswerIsExact
<1>1. DataInv => AnswerIsExact
  <2> SUFFICES ASSUME DataInv, NEW r \in AllKnown, source \in Answers[r] PROVE data = ReportKv[r]
    BY DEF AnswerIsExact
  <2>1. r \in DOMAIN Reports
    BY DEF AllKnown
  <2>2. Sent(source) = FieldsOf[r]
    BY <2>1, AnswerIsWhole
  <2> QED BY <2>2, ReportBecomesKv DEF DataInv
<1> QED BY <1>1, DataKept, PTL

-----------------------------------------------------------------------------
(* Where the loop may stand: it never goes past the end of a report, though   *)
(* it may begin among the members of a point.                                 *)

\* An element of a flattened sequence is one of a part.
LEMMA InPart ==
    ASSUME NEW S, NEW ss \in Seq(Seq(S)), NEW x \in 1 .. Len(FlattenSeq(ss))
    PROVE  \E n \in 1 .. Len(ss) : \E y \in 1 .. Len(ss[n]) : x = Upto(ss, n - 1) + y
<1> SUFFICES ASSUME \A n \in 1 .. Len(ss) : \A y \in 1 .. Len(ss[n]) : x # Upto(ss, n - 1) + y PROVE FALSE
  OBVIOUS
<1> DEFINE N == Len(ss)
           T == {n \in 0 .. N : x > Upto(ss, n)}
<1>1. N \in Nat /\ x \in Nat /\ x >= 1
  OBVIOUS
<1>2. Upto(ss, 0) = 0 /\ Upto(ss, N) = Len(FlattenSeq(ss))
  BY UptoEnds
<1>3. 0 \in T
  BY <1>1, <1>2
<1>4. \A m \in 0 .. N - 1 : m \in T => m + 1 \in T
  <2> SUFFICES ASSUME NEW m \in 0 .. N - 1, m \in T PROVE m + 1 \in T
    OBVIOUS
  <2> DEFINE n == m + 1
             u == Upto(ss, m)
             l == Len(ss[n])
  <2>1. n \in 1 .. N /\ n \in 0 .. N /\ n - 1 = m
    BY <1>1
  <2> HIDE DEF n
  <2>2. u \in Nat /\ Upto(ss, n) = u + l /\ Upto(ss, n) \in Nat
    BY <2>1, PartLies
  <2>3. l \in Nat
    <3>1. ss[n] \in Seq(S)
      BY <2>1
    <3> QED BY <3>1
  <2>4. \A y \in 1 .. l : x # u + y
    BY <2>1
  <2>5. x > u
    OBVIOUS
  <2> HIDE DEF u, l
  <2>6. x > u + l
    <3> SUFFICES ASSUME ~(x > u + l) PROVE FALSE
      OBVIOUS
    <3> DEFINE y == x - u
    <3>1. y \in 1 .. l /\ x = u + y
      BY <1>1, <2>2, <2>3, <2>5
    <3> HIDE DEF y
    <3> QED BY <2>4, <3>1
  <2> QED BY <2>1, <2>2, <2>6 DEF n
<1>5. 0 .. N \subseteq T
  <2> HIDE DEF T
  <2> QED BY <1>1, <1>3, <1>4, BoundedInduction
<1>6. x > Len(FlattenSeq(ss))
  <2>1. N \in 0 .. N
    BY <1>1
  <2>2. N \in T
    BY <1>5, <2>1
  <2> QED BY <1>2, <2>2
<1> QED BY <1>1, <1>6

\* The members of a STRUCT whose fields none is a STRUCT lie one after another.
LEMMA PlainMembersAt ==
    ASSUME NEW fs \in Seq(Writable), NEW i \in Nat, NEW v \in Nat, i + v <= Len(fs), Count(fs, i) = v,
           \A l \in i + 1 .. i + v : fs[l].type # "STRUCT"
    PROVE  MemberAt(fs, i)[v] = i + 1 + v
<1> DEFINE Eq(f) == f = [n \in 0 .. v |-> IF n = 0 THEN i + 1 ELSE MemberEnd(fs, i, f[n - 1])]
           there == [n \in 0 .. v |-> i + 1 + n]
           at == CHOOSE f : Eq(f)
<1>1. Len(fs) \in Nat
  OBVIOUS
<1>2. ASSUME NEW n \in 1 .. v PROVE MemberEnd(fs, i, i + 1 + (n - 1)) = i + 1 + n
  <2> DEFINE j == i + 1 + (n - 1)
  <2>1. j \in i + 1 .. i + v /\ ~(j > Len(fs)) /\ j + 1 = i + 1 + n
    BY <1>1
  <2>2. fs[j].type # "STRUCT"
    BY <2>1
  <2> HIDE DEF j
  <2>3. MemberEnd(fs, i, j) = j + 1
    BY <2>1, <2>2 DEF MemberEnd, IsPack
  <2> QED BY <2>1, <2>3 DEF j
<1>3. MemberAt(fs, i) = at
  BY DEF MemberAt
<1>4. Eq(there)
  <2>1. ASSUME NEW n \in 0 .. v PROVE there[n] = IF n = 0 THEN i + 1 ELSE MemberEnd(fs, i, there[n - 1])
    <3>1. CASE n = 0
      BY <3>1
    <3>2. CASE n # 0
      <4>1. n \in 1 .. v /\ n - 1 \in 0 .. v
        BY <3>2
      <4>2. there[n - 1] = i + 1 + (n - 1) /\ there[n] = i + 1 + n
        BY <4>1
      <4> HIDE DEF there
      <4> QED BY <1>2, <3>2, <4>1, <4>2
    <3> QED BY <3>1, <3>2
  <2> DEFINE g == [n \in 0 .. v |-> IF n = 0 THEN i + 1 ELSE MemberEnd(fs, i, there[n - 1])]
  <2>2. there = g
    BY <2>1
  <2> QED BY <2>2
<1> HIDE DEF there
<1>5. Eq(at)
  BY <1>4
<1> HIDE DEF at
<1>6. \A n \in 0 .. v : at[n] = IF n = 0 THEN i + 1 ELSE MemberEnd(fs, i, at[n - 1])
  BY <1>5
<1> DEFINE T == {n \in 0 .. v : at[n] = i + 1 + n}
<1>7. 0 \in T
  BY <1>6
<1>8. \A n \in 0 .. v - 1 : n \in T => n + 1 \in T
  <2> SUFFICES ASSUME NEW n \in 0 .. v - 1, n \in T PROVE n + 1 \in T
    OBVIOUS
  <2> DEFINE m == n + 1
  <2>1. m \in 1 .. v /\ m \in 0 .. v /\ m - 1 = n /\ m # 0
    OBVIOUS
  <2>2. at[n] = i + 1 + n
    OBVIOUS
  <2> HIDE DEF m
  <2>3. at[m] = MemberEnd(fs, i, at[m - 1]) /\ MemberEnd(fs, i, i + 1 + (m - 1)) = i + 1 + m
    BY <1>2, <1>6, <2>1
  <2>4. at[m] = i + 1 + m
    BY <2>1, <2>2, <2>3
  <2> QED BY <2>1, <2>4 DEF m
<1>9. 0 .. v \subseteq T
  <2> HIDE DEF T
  <2> QED BY <1>7, <1>8, BoundedInduction
<1>10. v \in 0 .. v
  OBVIOUS
<1> QED BY <1>3, <1>9, <1>10

\* From a field of a point on, fs goes on like the point.
RestLies(fs, c, g, m) == c + Len(g) <= Len(fs) /\ \A l \in m .. Len(g) : fs[c + l] = g[l]

\* From any field of a point the loop steps no further than to its end.
LEMMA PointStays ==
    ASSUME NEW fs \in Seq(Writable), NEW c \in Int, NEW q \in Points, PointFits(q),
           NEW m \in 1 .. Len(FieldsOfPoint(q)), c + m >= 1, RestLies(fs, c, FieldsOfPoint(q), m)
    PROVE  StepOver(fs, c + m) \in c + m + 1 .. c + Len(FieldsOfPoint(q)) + 1
<1> DEFINE b == FieldsOfPoint(q)
           M == q.members
           h == FlattenSeq(M)
           L == Len(b)
           i == c + m
<1>1. /\ q.field \in Writable /\ M \in Seq(Seq(Writable)) /\ b \in Seq(Writable)
      /\ L = 1 + Len(h) /\ b[1] = q.field /\ Lies(b, 1, h)
  BY PointType
<1>2. h \in Seq(Writable)
  <2> HIDE DEF M
  <2> QED BY <1>1, FlattenRec
<1>3. Len(h) \in Nat /\ L \in Nat /\ Len(fs) \in Nat /\ m \in Nat /\ m >= 1 /\ m <= L
  <2>1. m \in 1 .. L
    OBVIOUS
  <2> HIDE DEF h, b
  <2>2. Len(h) \in Nat /\ L \in Nat
    BY <1>1, <1>2
  <2> HIDE DEF L
  <2> QED BY <2>1, <2>2
<1>4. c + L <= Len(fs) /\ \A l \in m .. L : fs[c + l] = b[l]
  BY DEF RestLies
<1>5. fs[i] = b[m] /\ i \in Nat /\ i \in 1 .. Len(fs)
  <2>1. m \in m .. L
    BY <1>3
  <2> HIDE DEF b
  <2> QED BY <1>3, <1>4, <2>1
<1>6. ASSUME StepOver(fs, i) = i + 1 PROVE StepOver(fs, i) \in i + 1 .. c + L + 1
  <2>1. i + 1 \in i + 1 .. c + L + 1
    BY <1>3, <1>5
  <2> QED BY <1>6, <2>1
<1>7. CASE m = 1
  <2>1. c \in Nat /\ Lies(fs, c, b)
    <3>1. c \in Nat
      BY <1>5, <1>7
    <3> HIDE DEF b
    <3> QED BY <1>4, <1>7, <3>1 DEF Lies
  <2>2. CASE IsStruct(q) /\ ~Known(q)
    <3>1. StepOver(fs, i) = i + 1
      BY <1>1, <1>5, <1>7, <2>2 DEF StepOver, Known
    <3> QED BY <1>6, <3>1
  <2>3. CASE IsStruct(q) => Known(q)
    <3>1. StepOver(fs, c + 1) = c + 1 + L /\ L \in Nat \ {0}
      BY <2>1, <2>3, StepPoint
    <3>2. L \in Nat /\ L >= 1
      BY <1>3, <1>7
    <3> HIDE DEF L
    <3>3. c + 1 + L \in c + 1 + 1 .. c + L + 1
      BY <3>2
    <3>4. StepOver(fs, c + 1) \in c + 1 + 1 .. c + L + 1
      BY <3>1, <3>3
    <3> QED BY <1>7, <3>4 DEF L
  <2> QED BY <2>2, <2>3
<1>8. CASE m # 1 /\ b[m].type # "STRUCT"
  <2>1. StepOver(fs, i) = i + 1
    BY <1>5, <1>8 DEF StepOver
  <2> QED BY <1>6, <2>1
<1>9. CASE m # 1 /\ b[m].type = "STRUCT"
  <2> DEFINE x == m - 1
  <2>1. x \in 1 .. Len(h) /\ b[m] = h[x]
    <3>1. \A k \in 1 .. Len(h) : b[1 + k] = h[k]
      BY <1>1 DEF Lies
    <3>2. x \in 1 .. Len(h) /\ 1 + x = m
      BY <1>1, <1>3, <1>9
    <3> HIDE DEF x, b, h
    <3> QED BY <3>1, <3>2
  <2>2. PICK n \in 1 .. Len(M) : \E y \in 1 .. Len(M[n]) : x = Upto(M, n - 1) + y
    <3> HIDE DEF M, x
    <3> QED BY <1>1, <2>1, InPart DEF h
  <2>3. PICK y \in 1 .. Len(M[n]) : x = Upto(M, n - 1) + y
    BY <2>2
  <2> DEFINE g == M[n]
             u == Upto(M, n - 1)
  <2>4. u \in Nat /\ u + Len(g) <= Len(h) /\ Lies(h, u, g) /\ g \in Seq(Writable) /\ DOMAIN M = 1 .. Len(M)
    <3> HIDE DEF M
    <3>1. u \in Nat /\ Upto(M, n) = u + Len(g) /\ Upto(M, n) <= Len(h) /\ Lies(h, u, g)
      BY <1>1, PartLies
    <3>2. g \in Seq(Writable) /\ DOMAIN M = 1 .. Len(M)
      BY <1>1, LenProperties, ElementOfSeq
    <3> QED BY <3>1, <3>2
  <2>5. h[x] = g[y] /\ Len(g) \in Nat
    <3>1. h[u + y] = g[y]
      BY <2>3, <2>4 DEF Lies
    <3>2. u + y = x
      BY <2>3
    <3> HIDE DEF g, u, x
    <3> QED BY <2>4, <3>1, <3>2
  <2>6. IsStruct(q) /\ MembersFit(q)
    <3>1. CASE ~IsStruct(q)
      <4>1. M = <<>>
        BY <3>1 DEF PointFits
      <4>2. n \in 1 .. 0
        BY <4>1
      <4> QED BY <4>2
    <3>2. CASE IsStruct(q)
      BY <3>2 DEF PointFits
    <3> QED BY <3>1, <3>2
  <2>7. IsAPack(g)
    <3>1. CASE q.field.id = Packs
      BY <2>4, <2>6, <3>1 DEF MembersFit
    <3>2. CASE q.field.id # Packs
      <4>1. PlainFields(h)
        BY <2>6, <3>2 DEF MembersFit
      <4>2. DOMAIN h = 1 .. Len(h)
        <5> HIDE DEF h
        <5> QED BY <1>2, LenProperties
      <4>3. h[x].type # "STRUCT"
        BY <2>1, <4>1, <4>2 DEF PlainFields
      <4> QED BY <1>9, <2>1, <4>3
    <3> QED BY <3>1, <3>2
  <2> DEFINE t == Tail(g)
             v == Len(t)
  <2>8. g # <<>> /\ y \in Nat /\ y >= 1 /\ y <= Len(g)
    <3>1. y \in Nat /\ y >= 1 /\ y <= Len(g)
      BY <2>5
    <3>2. Len(g) # 0
      <4> HIDE DEF g
      <4> QED BY <2>5, <3>1
    <3> QED BY <3>1, <3>2
  <2> HIDE DEF g
  <2>9. /\ t \in Seq(Writable) /\ v = Len(g) - 1 /\ v \in Nat /\ DOMAIN t = 1 .. v
        /\ \A k \in 1 .. v : t[k] = g[k + 1]
    <3>1. t \in Seq(Writable) /\ v = Len(g) - 1 /\ \A k \in 1 .. v : t[k] = g[k + 1]
      BY <2>4, <2>8, HeadTailProperties
    <3> HIDE DEF t
    <3> QED BY <3>1, LenProperties
  <2>10. g[1].type = "STRUCT" /\ g[1].val[1] = v /\ \A k \in 1 .. v : t[k].type # "STRUCT"
    <3>1. g[1].type = "STRUCT" /\ g[1].val[1] = Len(g) - 1 /\ PlainFields(t)
      BY <2>7 DEF IsAPack
    <3>2. \A k \in 1 .. v : t[k].type # "STRUCT"
      BY <2>9, <3>1 DEF PlainFields
    <3> QED BY <2>9, <3>1, <3>2
  <2> HIDE DEF t, v, u, x, h, b, M
  <2>11. y = 1
    <3> SUFFICES ASSUME y # 1 PROVE FALSE
      OBVIOUS
    <3> DEFINE k == y - 1
    <3>1. k \in 1 .. v /\ k + 1 = y
      BY <2>5, <2>8, <2>9
    <3> HIDE DEF k
    <3>2. g[y].type # "STRUCT"
      BY <2>9, <2>10, <3>1
    <3> QED BY <1>9, <2>1, <2>5, <3>2
  <2>12. m = u + 2 /\ x = u + 1
    <3>1. x = u + 1 /\ x = m - 1
      BY <2>3, <2>11 DEF u, x
    <3> QED BY <1>3, <2>4, <3>1
  <2>13. fs[i] = g[1]
    BY <1>5, <2>1, <2>5, <2>11
  <2>14. ASSUME NEW k \in 1 .. v PROVE fs[i + k] = t[k]
    <3>1. m + k \in m .. L /\ c + (m + k) = i + k /\ 1 + (x + k) = m + k /\ x + k \in 1 .. Len(h)
          /\ k + 1 \in 1 .. Len(g) /\ u + (k + 1) = x + k
      <4> DEFINE o == Len(h)
                 w == Len(g)
      <4>1. /\ L = 1 + o /\ o \in Nat /\ L \in Nat /\ u \in Nat /\ u + w <= o /\ v \in Nat
            /\ w = v + 1 /\ m = u + 2 /\ x = u + 1
        BY <1>1, <1>3, <2>4, <2>5, <2>9, <2>12
      <4> HIDE DEF o, w, L
      <4>2. /\ m + k \in m .. L /\ c + (m + k) = i + k /\ 1 + (x + k) = m + k /\ x + k \in 1 .. o
            /\ k + 1 \in 1 .. w /\ u + (k + 1) = x + k
        BY <4>1
      <4> QED BY <4>2 DEF o, w
    <3>2. fs[c + (m + k)] = b[m + k]
      BY <1>4, <3>1
    <3>3. b[1 + (x + k)] = h[x + k]
      BY <1>1, <3>1 DEF Lies
    <3>4. h[u + (k + 1)] = g[k + 1]
      BY <2>4, <3>1 DEF Lies
    <3> QED BY <2>9, <3>1, <3>2, <3>3, <3>4
  <2>15. i + v <= c + L
    BY <1>1, <1>3, <2>4, <2>9, <2>12
  <2>16. CASE fs[i].id \notin TslTop
    <3>1. StepOver(fs, i) = i + 1
      BY <2>16 DEF StepOver
    <3> QED BY <1>6, <3>1
  <2>17. CASE fs[i].id \in TslTop
    <3>1. Count(fs, i) = v
      BY <2>10, <2>13 DEF Count
    <3>2. \A l \in i + 1 .. i + v : fs[l].type # "STRUCT"
      <4> TAKE l \in i + 1 .. i + v
      <4> DEFINE k == l - i
      <4>1. k \in 1 .. v /\ i + k = l
        BY <1>5, <2>9
      <4> HIDE DEF k
      <4> QED BY <2>10, <2>14, <4>1
    <3>3. i + v <= Len(fs)
      BY <1>3, <1>4, <1>5, <2>9, <2>15
    <3> HIDE DEF i
    <3>4. MemberAt(fs, i)[v] = i + 1 + v
      BY <1>5, <2>9, <3>1, <3>2, <3>3, PlainMembersAt
    <3>5. StepOver(fs, i) = i + 1 + v
      BY <2>10, <2>13, <2>17, <3>1, <3>4 DEF StepOver
    <3>6. i + 1 + v \in i + 1 .. c + L + 1
      <4>1. L \in Nat /\ i \in Nat /\ v \in Nat /\ i + v <= c + L
        BY <1>3, <1>5, <2>9, <2>15
      <4> HIDE DEF L
      <4> QED BY <4>1
    <3>7. StepOver(fs, i) \in i + 1 .. c + L + 1
      BY <3>5, <3>6
    <3> QED BY <3>7 DEF i, b
  <2> QED BY <2>16, <2>17
<1>10. StepOver(fs, i) \in i + 1 .. c + L + 1
  BY <1>7, <1>8, <1>9
<1> QED BY <1>10

\* Nor, from any field of a report, further than to the end of the report.
LEMMA ReportStays ==
    ASSUME NEW fs \in Seq(Writable), NEW c \in Int, NEW r \in DOMAIN Reports,
           NEW m \in 1 .. Len(FieldsOf[r]), c + m >= 1, RestLies(fs, c, FieldsOf[r], m)
    PROVE  StepOver(fs, c + m) \in c + m + 1 .. c + Len(FieldsOf[r]) + 1
<1> DEFINE R == Reports[r]
           P == FieldsOfPoints(R)
           F == FieldsOf[r]
           L == Len(F)
<1>1. /\ P \in Seq(Seq(Writable)) /\ Len(P) = Len(R) /\ F = FlattenSeq(P)
      /\ \A n \in 1 .. Len(R) : P[n] = FieldsOfPoint(R[n]) /\ R[n] \in Points /\ PointFits(R[n])
  BY PointsType, ReportsType
<1>2. L \in Nat /\ m \in Nat /\ Len(fs) \in Nat
  <2>1. F \in Seq(Writable)
    BY FieldsOfType
  <2> HIDE DEF F
  <2> QED BY <2>1
<1>3. c + L <= Len(fs) /\ \A l \in m .. L : fs[c + l] = F[l]
  BY DEF RestLies
<1>m. m \in 1 .. Len(F) /\ c + m >= 1
  OBVIOUS
<1> HIDE DEF P, R, F
<1>4. PICK n \in 1 .. Len(P) : \E y \in 1 .. Len(P[n]) : m = Upto(P, n - 1) + y
  BY <1>1, <1>m, InPart
<1>5. PICK y \in 1 .. Len(P[n]) : m = Upto(P, n - 1) + y
  BY <1>4
<1> DEFINE u == Upto(P, n - 1)
           b == P[n]
           d == c + u
           q == R[n]
<1>6. u \in Nat /\ u + Len(b) <= L /\ Lies(F, u, b) /\ b \in Seq(Writable)
  <2>1. u \in Nat /\ Upto(P, n) = u + Len(b) /\ Upto(P, n) <= Len(F) /\ Lies(F, u, b)
    BY <1>1, PartLies
  <2>2. b \in Seq(Writable)
    BY <1>1, ElementOfSeq
  <2> QED BY <2>1, <2>2
<1>7. Len(b) \in Nat /\ m = u + y /\ y \in 1 .. Len(b) /\ d + y = c + m /\ d \in Int
  <2>1. Len(b) \in Nat
    BY <1>6
  <2>2. m = u + y /\ y \in 1 .. Len(b)
    BY <1>5
  <2> HIDE DEF b, u
  <2> QED BY <1>2, <1>6, <2>1, <2>2
<1>8. b = FieldsOfPoint(q) /\ q \in Points /\ PointFits(q)
  BY <1>1
<1> HIDE DEF u, b, q, L
<1>9. \A l \in y .. Len(b) : fs[d + l] = b[l]
  <2> TAKE l \in y .. Len(b)
  <2>1. u + l \in m .. L /\ l \in 1 .. Len(b) /\ c + (u + l) = d + l
    BY <1>2, <1>6, <1>7
  <2>2. F[u + l] = b[l]
    BY <1>6, <2>1 DEF Lies
  <2> QED BY <1>3, <2>1, <2>2
<1>10. d + Len(b) <= Len(fs) /\ d + Len(b) <= c + L
  BY <1>2, <1>3, <1>6, <1>7, SMTT(30)
<1>11. RestLies(fs, d, b, y)
  BY <1>9, <1>10 DEF RestLies
<1> HIDE DEF d
<1>12. StepOver(fs, d + y) \in d + y + 1 .. d + Len(b) + 1
  <2>1. d + y >= 1
    BY <1>7, <1>m
  <2> QED BY <1>7, <1>8, <1>11, <2>1, PointStays
<1>13. StepOver(fs, c + m) \in c + m + 1 .. c + L + 1
  BY <1>2, <1>7, <1>10, <1>12, SMTT(30)
<1> QED BY <1>13 DEF L, F

-----------------------------------------------------------------------------
(* The packets of a read hang together: only the first may be the rest of an  *)
(* answer, and only the last the beginning of one.                            *)

Complete(p) == p.cmd = "status" => p.j = Len(FieldsOf[p.r])
Begins(p) == p.cmd = "status" => p.i = 1
Continues(p, q) ==
    p.cmd = "status" /\ q.cmd = "status" /\ q.r = p.r /\ q.i = p.j + 1 /\ q.j = Len(FieldsOf[q.r])
Linked(p, q) == (Complete(p) /\ Begins(q)) \/ Continues(p, q)
Chain(s) == \A n \in 1 .. Len(s) - 1 : Linked(s[n], s[n + 1])

\* The n-th packet's fields, where they lie among those of all.
LEMMA PacketLies ==
    ASSUME NEW s \in Seq(StatusPackets), NEW n \in 1 .. Len(s)
    PROVE  LET p == s[n]
               u == Upto(SentParts(s), n - 1)
           IN /\ u \in Nat /\ Upto(SentParts(s), n) = u + (p.j - p.i + 1) /\ Upto(SentParts(s), n) <= Len(Sent(s))
              /\ p \in StatusPackets /\ p.r \in DOMAIN Reports /\ p.i \in Nat /\ p.j \in Nat
              /\ 1 <= p.i /\ p.i <= p.j /\ p.j <= Len(FieldsOf[p.r])
              /\ \A l \in p.i .. p.j : Sent(s)[u + (l - p.i + 1)] = FieldsOf[p.r][l]
<1> DEFINE p == s[n]
           SP == SentParts(s)
           u == Upto(SP, n - 1)
           F == FieldsOf[p.r]
           b == PartOf(p)
<1>1. p \in StatusPackets
  OBVIOUS
<1>2. p.r \in DOMAIN Reports /\ p.i \in Nat /\ p.j \in Nat /\ 1 <= p.i /\ p.i <= p.j /\ p.j <= Len(F)
  BY <1>1 DEF StatusPackets
<1>3. SP \in Seq(Seq(Writable)) /\ Len(SP) = Len(s) /\ Sent(s) = FlattenSeq(SP)
  BY SentType
<1>4. SP[n] = b
  <2>1. n \in DOMAIN s
    <3>1. DOMAIN s = 1 .. Len(s)
      BY LenProperties
    <3> QED BY <3>1
  <2> QED BY <2>1 DEF SentParts, PartOf
<1>5. Len(b) = p.j - p.i + 1 /\ \A k \in 1 .. p.j - p.i + 1 : b[k] = F[p.i + k - 1]
  BY <1>1, PartType
<1>6. u \in Nat /\ Upto(SP, n) = u + Len(SP[n]) /\ Upto(SP, n) <= Len(FlattenSeq(SP)) /\ Lies(FlattenSeq(SP), u, SP[n])
  <2>1. n \in 1 .. Len(SP)
    BY <1>3
  <2> HIDE DEF SP
  <2> QED BY <1>3, <2>1, PartLies
<1> HIDE DEF p, SP, u, F, b
<1>7. \A l \in p.i .. p.j : Sent(s)[u + (l - p.i + 1)] = F[l]
  <2> TAKE l \in p.i .. p.j
  <2> DEFINE k == l - p.i + 1
  <2>1. k \in 1 .. p.j - p.i + 1 /\ k \in 1 .. Len(b) /\ p.i + k - 1 = l
    BY <1>2, <1>5
  <2> HIDE DEF k
  <2>2. Sent(s)[u + k] = b[k]
    BY <1>3, <1>4, <1>6, <2>1 DEF Lies
  <2> QED BY <1>5, <2>1, <2>2 DEF k
<1> QED BY <1>1, <1>2, <1>3, <1>4, <1>5, <1>6, <1>7 DEF p, SP, u, F

\* From the fields of whole answers the loop does not step into what follows them.
LEMMA SentStays ==
    ASSUME NEW fs \in Seq(Writable), NEW s \in Seq(StatusPackets), Chain(s), s # <<>> => Complete(s[Len(s)]),
           Lies(fs, 0, Sent(s)), NEW x \in 1 .. Len(Sent(s))
    PROVE  StepOver(fs, x) \in x + 1 .. Len(Sent(s)) + 1
<1> DEFINE SP == SentParts(s)
           A == Sent(s)
<1>1. SP \in Seq(Seq(Writable)) /\ Len(SP) = Len(s) /\ A = FlattenSeq(SP) /\ A \in Seq(Writable)
  BY SentType
<1>a. Len(A) \in Nat /\ Len(fs) \in Nat /\ x \in Nat /\ x >= 1 /\ x <= Len(A) /\ x \in 1 .. Len(A)
  <2>1. x \in 1 .. Len(A)
    OBVIOUS
  <2> HIDE DEF A
  <2>2. Len(A) \in Nat
    BY <1>1
  <2> QED BY <2>1, <2>2
<1>2. 0 + Len(A) <= Len(fs) /\ \A k \in 1 .. Len(A) : fs[0 + k] = A[k]
  BY DEF Lies
<1>3. Len(A) <= Len(fs) /\ \A k \in 1 .. Len(A) : fs[k] = A[k]
  <2> HIDE DEF A
  <2>1. \A k \in 1 .. Len(A) : 0 + k = k
    BY <1>a
  <2> QED BY <1>2, <1>a, <2>1
<1> HIDE DEF SP, A
<1>4. PICK n \in 1 .. Len(SP) : \E y \in 1 .. Len(SP[n]) : x = Upto(SP, n - 1) + y
  BY <1>1, <1>a, InPart
<1>5. PICK y \in 1 .. Len(SP[n]) : x = Upto(SP, n - 1) + y
  BY <1>4
<1> DEFINE p == s[n]
           u == Upto(SP, n - 1)
           F == FieldsOf[p.r]
           L == Len(F)
           c == u - (p.i - 1)
           m == p.i - 1 + y
<1>n. n \in 1 .. Len(s)
  BY <1>1
<1>6. /\ u \in Nat /\ Upto(SP, n) = u + (p.j - p.i + 1) /\ Upto(SP, n) <= Len(A)
      /\ p.r \in DOMAIN Reports /\ p.i \in Nat /\ p.j \in Nat /\ 1 <= p.i /\ p.i <= p.j /\ p.j <= L
      /\ \A l \in p.i .. p.j : A[u + (l - p.i + 1)] = F[l]
  BY <1>n, PacketLies DEF A, SP
<1>7. y \in Nat /\ y >= 1 /\ y <= p.j - p.i + 1 /\ x = u + y
  <2>1. SP[n] \in Seq(Writable)
    BY <1>1
  <2>2. Upto(SP, n) = u + Len(SP[n])
    BY <1>1, PartLies
  <2>3. Len(SP[n]) \in Nat
    BY <2>1
  <2> DEFINE z == Len(SP[n])
  <2>4. y \in 1 .. z /\ x = u + y
    BY <1>5
  <2> HIDE DEF z, u, p, SP
  <2> DEFINE w == Upto(SP, n)
             i == p.i
             j == p.j
  <2>5. w = u + z /\ w = u + (j - i + 1) /\ z \in Nat /\ u \in Nat /\ i \in Nat /\ j \in Nat
    BY <1>6, <2>2, <2>3 DEF z
  <2> HIDE DEF w, i, j
  <2>6. z = j - i + 1
    BY <2>5
  <2>7. y \in Nat /\ y >= 1 /\ y <= j - i + 1 /\ x = u + y
    BY <2>4, <2>5, <2>6
  <2> QED BY <2>7 DEF i, j
<1>8. L \in Nat /\ c \in Int /\ m \in 1 .. L /\ c + m = x /\ m >= p.i /\ m <= p.j
  <2>1. L \in Nat
    <3>1. F \in Seq(Writable)
      BY <1>6, FieldsOfType
    <3> HIDE DEF F
    <3> QED BY <3>1
  <2> DEFINE i == p.i
             j == p.j
  <2>2. c = u - (i - 1) /\ m = i - 1 + y
    OBVIOUS
  <2>3. u \in Nat /\ i \in Nat /\ j \in Nat /\ 1 <= i /\ i <= j /\ j <= L /\ y \in Nat /\ y >= 1 /\ y <= j - i + 1 /\ x = u + y
    BY <1>6, <1>7
  <2> HIDE DEF i, j, u, p, F, L, c, m
  <2>4. c \in Int /\ m \in 1 .. L /\ c + m = x /\ m >= i /\ m <= j
    BY <2>1, <2>2, <2>3
  <2> QED BY <2>1, <2>4 DEF i, j
<1> HIDE DEF u, F, L
<1>9. ASSUME NEW l \in m .. p.j PROVE fs[c + l] = F[l] /\ c + l <= Len(A)
  <2> DEFINE k == u + (l - p.i + 1)
  <2>1. l \in p.i .. p.j /\ c + l = k /\ k \in 1 .. Len(A)
    <3> DEFINE i == p.i
               j == p.j
               o == Len(A)
               w == Upto(SP, n)
    <3>1. c = u - (i - 1) /\ k = u + (l - i + 1) /\ l \in m .. j
      OBVIOUS
    <3>2. /\ u \in Nat /\ i \in Nat /\ j \in Nat /\ 1 <= i /\ w = u + (j - i + 1) /\ w <= o /\ o \in Nat
          /\ m >= i /\ m \in Int
      BY <1>6, <1>8, <1>a
    <3> HIDE DEF i, j, o, w, p, c, k, m
    <3>3. l \in i .. j /\ c + l = k /\ k \in 1 .. o
      BY <3>1, <3>2
    <3> QED BY <3>3 DEF i, j, o
  <2>2. A[k] = F[l]
    BY <1>6, <2>1
  <2> HIDE DEF k, c, p
  <2> QED BY <1>3, <1>a, <2>1, <2>2
<1>10. c + L <= Len(A) /\ \A l \in m .. L : fs[c + l] = F[l]
  <2>1. CASE p.j = L
    <3>1. L \in m .. p.j
      <4> HIDE DEF p, m
      <4> QED BY <1>6, <1>8, <2>1
    <3> HIDE DEF p, m, c
    <3> QED BY <1>9, <2>1, <3>1
  <2>2. CASE p.j # L
    <3> DEFINE q == s[n + 1]
               w == Upto(SP, n)
    <3>p. p.cmd = "status"
      BY <1>n, SMTT(30) DEF StatusPackets
    <3>1. n # Len(s)
      BY <1>n, <2>2, <3>p DEF Complete, L, F
    <3>2. n \in 1 .. Len(s) - 1 /\ n + 1 \in 1 .. Len(s) /\ n + 1 - 1 = n
      <4>1. Len(s) \in Nat
        OBVIOUS
      <4> QED BY <1>n, <3>1, <4>1
    <3>3. Continues(p, q)
      <4>1. Linked(p, q)
        BY <3>2 DEF Chain
      <4> QED BY <2>2, <3>p, <4>1 DEF Linked, Complete, L, F
    <3>4. q.r = p.r /\ q.i = p.j + 1 /\ q.j = L
      BY <3>3 DEF Continues, L, F
    <3>5. /\ w \in Nat /\ Upto(SP, n + 1) = w + (q.j - q.i + 1) /\ Upto(SP, n + 1) <= Len(A)
          /\ \A l \in q.i .. q.j : A[w + (l - q.i + 1)] = FieldsOf[q.r][l]
      <4> DEFINE k == n + 1
      <4>1. k \in 1 .. Len(s) /\ k - 1 = n
        BY <3>2
      <4> HIDE DEF k
      <4>2. LET z == s[k]
                o == Upto(SentParts(s), k - 1)
            IN /\ o \in Nat /\ Upto(SentParts(s), k) = o + (z.j - z.i + 1) /\ Upto(SentParts(s), k) <= Len(Sent(s))
               /\ \A l \in z.i .. z.j : Sent(s)[o + (l - z.i + 1)] = FieldsOf[z.r][l]
        BY <4>1, PacketLies
      <4> QED BY <4>1, <4>2 DEF k, SP, A
    <3>6. w = u + (p.j - p.i + 1)
      BY <1>6
    <3> DEFINE i == p.i
               j == p.j
               o == Len(A)
               z == Upto(SP, n + 1)
    <3>a. c = u - (i - 1)
      OBVIOUS
    <3>b. /\ u \in Nat /\ i \in Nat /\ j \in Nat /\ 1 <= i /\ i <= j /\ o \in Nat /\ L \in Nat
          /\ m >= i /\ m \in Int /\ w = u + (j - i + 1) /\ z = w + (L - (j + 1) + 1) /\ z <= o
      <4>1. u \in Nat /\ i \in Nat /\ j \in Nat /\ 1 <= i /\ i <= j /\ o \in Nat /\ L \in Nat
        BY <1>6, <1>8, <1>a
      <4>2. m >= i /\ m \in Int
        BY <1>6, <1>8
      <4>3. w = u + (j - i + 1)
        BY <3>6
      <4>4. z = w + (L - (j + 1) + 1) /\ z <= o
        <5> HIDE DEF w, z, L, o
        <5> QED BY <3>4, <3>5 DEF z, o
      <4> HIDE DEF w, q, p, i, j, o, z, c, m, L, u
      <4> QED BY <4>1, <4>2, <4>3, <4>4
    <3> HIDE DEF w, q, p, i, j, o, z, c, m
    <3>7. c + L <= Len(A)
      <4>1. c + L <= o
        BY <3>a, <3>b
      <4> QED BY <4>1 DEF o
    <3>8. ASSUME NEW l \in m .. L, ~(l <= p.j) PROVE fs[c + l] = F[l]
      <4> DEFINE k == w + (l - q.i + 1)
      <4>1. l \in q.i .. q.j /\ c + l = k /\ k \in 1 .. Len(A)
        <5>1. q.i = j + 1 /\ q.j = L
          BY <3>4 DEF j
        <5>2. l \in m .. L /\ ~(l <= j) /\ k = w + (l - (j + 1) + 1)
          BY <3>8, <5>1 DEF j
        <5> HIDE DEF k
        <5>3. l \in j + 1 .. L /\ c + l = k /\ k \in 1 .. o
          BY <3>a, <3>b, <5>2
        <5> QED BY <5>1, <5>3 DEF o
      <4>2. A[k] = FieldsOf[q.r][l]
        BY <3>5, <4>1
      <4> HIDE DEF k, c
      <4> QED BY <1>3, <3>4, <4>1, <4>2 DEF F
    <3>9. \A l \in m .. L : fs[c + l] = F[l]
      <4> TAKE l \in m .. L
      <4>1. CASE l <= p.j
        <5>1. l \in m .. p.j
          BY <1>6, <1>8, <4>1
        <5> HIDE DEF m, c
        <5> QED BY <1>9, <5>1
      <4>2. CASE ~(l <= p.j)
        BY <3>8, <4>2
      <4> QED BY <4>1, <4>2
    <3> QED BY <3>7, <3>9
  <2> QED BY <2>1, <2>2
<1>r. p.r \in DOMAIN Reports
  BY <1>6
<1> HIDE DEF c, m
<1>11. RestLies(fs, c, F, m)
  <2>1. c + Len(F) <= Len(fs)
    BY <1>3, <1>8, <1>10, <1>a DEF L
  <2> QED BY <1>10, <2>1 DEF RestLies, L
<1>12. StepOver(fs, c + m) \in c + m + 1 .. c + L + 1
  <2>1. m \in 1 .. Len(F) /\ c + m >= 1
    BY <1>8, <1>a DEF L
  <2> HIDE DEF p
  <2> QED BY <1>8, <1>11, <1>r, <2>1, ReportStays DEF F, L
<1>13. StepOver(fs, x) \in x + 1 .. Len(A) + 1
  <2> HIDE DEF p
  <2> QED BY <1>8, <1>10, <1>12, <1>a, SMTT(30)
<1> QED BY <1>13 DEF A

-----------------------------------------------------------------------------
(* The loop arrives where answers begin.                                      *)

Goes(fs, a, k) == Rounds(fs)[k].i \in 1 .. a /\ Rounds(fs)[k + 1] = Round(fs, Rounds(fs)[k])

LEMMA PutIsBoolean == \A fs, kv, i : Put(fs, kv, i).ok \in BOOLEAN
<1> TAKE fs, kv, i
<1> DEFINE packs == PacksIn(fs, i)
           old == Get(kv, fs[i].id)
           fine == old.shape \in {"none", "list"}
           more == Set(kv, fs[i].id, Entry("list", old.of \o packs))
           dict == IF old.shape = "list" THEN kv ELSE Set(kv, fs[i].id, Entry("dict", Dict(fs, Members(fs, i))))
           value == Set(kv, fs[i].id, Leaf(fs[i]))
<1>1. PutStruct(fs, kv, i) = IF packs # <<>> THEN [ok |-> fine, kv |-> more] ELSE [ok |-> TRUE, kv |-> dict]
  BY DEF PutStruct
<1>2. Put(fs, kv, i) = IF fs[i].id \notin TslTop THEN [ok |-> TRUE, kv |-> kv]
                       ELSE IF fs[i].type = "STRUCT" THEN PutStruct(fs, kv, i)
                       ELSE [ok |-> TRUE, kv |-> value]
  BY DEF Put
<1>3. fine \in BOOLEAN
  OBVIOUS
<1> HIDE DEF packs, fine, more, dict, value
<1>4. PutStruct(fs, kv, i).ok \in BOOLEAN
  <2>1. CASE packs # <<>>
    <3>1. PutStruct(fs, kv, i).ok = fine
      BY <1>1, <2>1
    <3> QED BY <1>3, <3>1
  <2>2. CASE packs = <<>>
    <3>1. PutStruct(fs, kv, i).ok = TRUE
      BY <1>1, <2>2
    <3> QED BY <3>1
  <2> QED BY <2>1, <2>2
<1>5. CASE fs[i].id \notin TslTop \/ fs[i].type # "STRUCT"
  <2>1. Put(fs, kv, i).ok = TRUE
    BY <1>2, <1>5
  <2> QED BY <2>1
<1>6. CASE fs[i].id \in TslTop /\ fs[i].type = "STRUCT"
  BY <1>2, <1>4, <1>6
<1> QED BY <1>5, <1>6

LEMMA RoundsArrive ==
    ASSUME NEW fs \in Seq(Writable), FieldsToKv(fs).ok, NEW a \in 0 .. Len(fs),
           \A x \in 1 .. a : StepOver(fs, x) \in x + 1 .. a + 1
    PROVE  \E m \in 0 .. a : /\ Rounds(fs)[m] = Done(a, Rounds(fs)[m].kv)
                             /\ \A k \in 0 .. m - 1 : Goes(fs, a, k)
<1> DEFINE Go(n) == \A k \in 0 .. n - 1 : Goes(fs, a, k)
           There(n) == Go(n) /\ Rounds(fs)[n].i = a + 1
           T == {n \in 0 .. a : (Go(n) /\ Rounds(fs)[n].i \in n + 1 .. a + 1) \/ \E m \in 0 .. n : There(m)}
<1>1. Len(fs) \in Nat /\ a \in Nat /\ a <= Len(fs)
  <2>1. Len(fs) \in Nat
    OBVIOUS
  <2> QED BY <2>1
<1>2. Rounds(fs)[0] = Done(0, EmptyKv)
  BY <1>1, RoundsRec
<1>3. 0 \in T
  <2>1. Rounds(fs)[0].i = 1
    BY <1>2 DEF Done
  <2>2. Go(0)
    OBVIOUS
  <2>3. 1 \in 0 + 1 .. a + 1 /\ 0 \in 0 .. a
    BY <1>1
  <2> QED BY <2>1, <2>2, <2>3
<1>4. \A n \in 0 .. a - 1 : n \in T => n + 1 \in T
  <2> SUFFICES ASSUME NEW n \in 0 .. a - 1, n \in T PROVE n + 1 \in T
    OBVIOUS
  <2> DEFINE l == n + 1
             i == Rounds(fs)[n].i
  <2>1. n \in Nat /\ l \in 0 .. a /\ l \in 1 .. Len(fs) /\ l - 1 = n /\ n \in 0 .. Len(fs) /\ n \in 0 .. n
    BY <1>1
  <2>2. CASE \E m \in 0 .. n : There(m)
    <3>1. \A m \in 0 .. n : m \in 0 .. l
      BY <2>1
    <3> HIDE DEF There, l
    <3>2. \E m \in 0 .. l : There(m)
      BY <2>2, <3>1
    <3>3. l \in T
      BY <2>1, <3>2
    <3> QED BY <3>3 DEF l
  <2>3. CASE Go(n) /\ i = a + 1
    <3>1. There(n)
      BY <2>3
    <3>2. n \in 0 .. l
      BY <2>1
    <3> HIDE DEF There, l
    <3>3. l \in T
      BY <2>1, <3>1, <3>2
    <3> QED BY <3>3 DEF l
  <2>4. CASE Go(n) /\ i \in n + 1 .. a + 1 /\ i # a + 1
    <3>1. i \in 1 .. a /\ i \in Nat /\ ~(i > Len(fs)) /\ i >= n + 1
      <4>1. i \in n + 1 .. a + 1 /\ i # a + 1
        BY <2>4
      <4>2. a \in Nat /\ Len(fs) \in Nat /\ a <= Len(fs) /\ n \in Nat
        BY <1>1, <2>1
      <4> DEFINE N == Len(fs)
      <4>3. N \in Nat /\ a <= N
        BY <4>2
      <4> HIDE DEF i, N, T, Go, There
      <4>4. i \in 1 .. a /\ i \in Nat /\ ~(i > N) /\ i >= n + 1
        BY <4>1, <4>2, <4>3
      <4> QED BY <4>4 DEF N
    <3> HIDE DEF l
    <3>2. Rounds(fs)[l] = Onward(fs, Rounds(fs)[l - 1])
      BY <1>1, <2>1, RoundsRec
    <3>3. Rounds(fs)[n].ok
      BY <1>1, <2>1, OkSoFar
    <3>4. Rounds(fs)[l] = Round(fs, Rounds(fs)[n])
      BY <2>1, <3>1, <3>2, <3>3 DEF Onward
    <3>5. Goes(fs, a, n)
      BY <3>1, <3>4 DEF Goes, l
    <3>6. Go(l)
      <4> SUFFICES ASSUME NEW k \in 0 .. l - 1 PROVE Goes(fs, a, k)
        OBVIOUS
      <4>1. k = n \/ k \in 0 .. n - 1
        BY <2>1
      <4> QED BY <2>4, <3>5, <4>1
    <3>7. Rounds(fs)[l].i \in l + 1 .. a + 1
      <4>1. Rounds(fs)[l].i = StepOver(fs, i)
        BY <3>4 DEF Round
      <4>2. StepOver(fs, i) \in i + 1 .. a + 1
        BY <3>1
      <4> HIDE DEF i
      <4>3. i + 1 >= l + 1 /\ l \in Nat
        BY <2>1, <3>1 DEF l
      <4> QED BY <1>1, <3>1, <4>1, <4>2, <4>3
    <3>8. l \in T
      BY <2>1, <3>6, <3>7
    <3> QED BY <3>8 DEF l
  <2> QED BY <2>2, <2>3, <2>4
<1>5. 0 .. a \subseteq T
  <2> HIDE DEF T
  <2> QED BY <1>1, <1>3, <1>4, BoundedInduction
<1>6. PICK m \in 0 .. a : There(m)
  <2>1. a \in 0 .. a
    BY <1>1
  <2>2. a \in T
    BY <1>5, <2>1
  <2>3. CASE Go(a) /\ Rounds(fs)[a].i \in a + 1 .. a + 1
    <3>1. Rounds(fs)[a].i = a + 1
      BY <1>1, <2>3
    <3> QED BY <2>1, <2>3, <3>1
  <2>4. CASE \E m \in 0 .. a : There(m)
    BY <2>4
  <2> QED BY <2>2, <2>3, <2>4
<1> HIDE DEF T
<1>7. m \in Nat /\ m \in 0 .. Len(fs) /\ (m # 0 => m - 1 \in 0 .. m - 1 /\ (m - 1) + 1 = m)
  BY <1>1
<1>8. Rounds(fs)[m].ok
  BY <1>1, <1>7, OkSoFar
<1>9. Rounds(fs)[m] = Done(a, Rounds(fs)[m].kv)
  <2>1. CASE m = 0
    <3>1. Rounds(fs)[m].i = 1 /\ Rounds(fs)[m].i = a + 1
      BY <1>2, <1>6, <2>1 DEF Done
    <3>3. a + 1 = 1
      BY <3>1
    <3>2. a = 0
      BY <1>1, <3>3
    <3>4. Rounds(fs)[m] = Done(a, EmptyKv)
      BY <1>2, <2>1, <3>2
    <3>5. Rounds(fs)[m].kv = EmptyKv
      BY <3>4 DEF Done
    <3> QED BY <3>4, <3>5
  <2>2. CASE m # 0
    <3> DEFINE d == Rounds(fs)[m - 1]
               put == Put(fs, d.kv, d.i)
               s == StepOver(fs, d.i)
    <3>1. Rounds(fs)[m] = Round(fs, d)
      BY <1>6, <1>7, <2>2 DEF Goes
    <3>2. Rounds(fs)[m] = [ok |-> put.ok, i |-> s, kv |-> put.kv]
      BY <3>1 DEF Round
    <3>3. put.ok \in BOOLEAN
      BY PutIsBoolean
    <3> HIDE DEF put, s
    <3>5. put.ok = TRUE
      BY <1>8, <3>2, <3>3
    <3>6. Rounds(fs)[m].i = s
      BY <3>2
    <3>4. put.ok = TRUE /\ s = a + 1
      BY <1>6, <3>5, <3>6
    <3>7. Rounds(fs)[m] = Done(a, put.kv)
      BY <3>2, <3>4 DEF Done
    <3>8. Rounds(fs)[m].kv = put.kv
      BY <3>2
    <3> HIDE DEF put
    <3> QED BY <3>7, <3>8
  <2> QED BY <2>1, <2>2
<1> QED BY <1>6, <1>9

\* Only the packs make a list.
ListsArePacks(kv) == \A id \in DOMAIN kv : kv[id].shape = "list" => id = Packs

LEMMA SetIs ==
    ASSUME NEW kv, NEW id, NEW entry
    PROVE  /\ DOMAIN Set(kv, id, entry) = DOMAIN kv \cup {id} /\ Set(kv, id, entry)[id] = entry
           /\ \A x \in DOMAIN kv \ {id} : Set(kv, id, entry)[x] = kv[x]
  BY DEF Set

LEMMA NoPacks ==
    ASSUME NEW fs \in Seq(Writable), NEW i \in 1 .. Len(fs), fs[i].type = "STRUCT", fs[i].id # Packs
    PROVE  PacksIn(fs, i) = <<>>
<1> DEFINE N == Count(fs, i)
           part(n) == LET j == MemberAt(fs, i)[n - 1] IN IF j \in DOMAIN fs /\ IsPack(fs, i, j) THEN <<Pack(fs, j)>> ELSE <<>>
           parts == [n \in 1 .. N |-> part(n)]
           Z == Seq(Nat)
<1>1. N \in Nat
  <2>1. fs[i] \in Writable
    OBVIOUS
  <2>2. fs[i].val[1] \in 0 .. MaxWord
    BY <2>1 DEF Writable, Carries
  <2>3. MaxWord \in Nat
    BY DEF MaxWord
  <2> QED BY <2>2, <2>3 DEF Count
<1>2. PacksIn(fs, i) = FlattenSeq(parts)
  BY DEF PacksIn
<1>3. \A n : part(n) = <<>>
  BY DEF IsPack
<1> HIDE DEF part
<1>4. \A n \in 1 .. N : parts[n] = <<>>
  BY <1>3
<1>5. parts \in [1 .. N -> Z]
  <2>1. <<>> \in Z
    OBVIOUS
  <2> HIDE DEF Z
  <2> QED BY <1>3, <2>1
<1> HIDE DEF parts
<1>6. parts \in Seq(Z) /\ Len(parts) = N
  <2>1. DOMAIN parts = 1 .. N
    BY <1>5
  <2> HIDE DEF Z, N
  <2>2. parts \in Seq(Z)
    BY <1>1, <1>5, SeqDef
  <2> QED BY <1>1, <2>1, <2>2, LenProperties
<1>7. FlattenSeq(parts) = <<>>
  <2>1. parts \in Seq(Seq(Nat))
    BY <1>6
  <2>2. \A n \in 1 .. Len(parts) : parts[n] = <<>>
    BY <1>4, <1>6
  <2> QED BY <2>1, <2>2, FlattenNothing
<1> QED BY <1>2, <1>7

LEMMA PutLists ==
    ASSUME NEW fs \in Seq(Writable), NEW i \in 1 .. Len(fs), NEW kv, ListsArePacks(kv)
    PROVE  ListsArePacks(Put(fs, kv, i).kv)
<1> DEFINE id == fs[i].id
           packs == PacksIn(fs, i)
           old == Get(kv, id)
           list == Entry("list", old.of \o packs)
           dict == Entry("dict", Dict(fs, Members(fs, i)))
           value == Leaf(fs[i])
<1>1. ASSUME NEW entry, entry.shape = "list" => id = Packs PROVE ListsArePacks(Set(kv, id, entry))
  <2> DEFINE new == Set(kv, id, entry)
  <2> HIDE DEF id
  <2>1. DOMAIN new = DOMAIN kv \cup {id} /\ new[id] = entry /\ \A x \in DOMAIN kv \ {id} : new[x] = kv[x]
    BY DEF Set
  <2> HIDE DEF new
  <2>2. ListsArePacks(new)
    BY <1>1, <2>1 DEF ListsArePacks
  <2> QED BY <2>2 DEF new, id
<1>2. dict.shape = "dict" /\ value.shape # "list"
  BY LeafShape DEF Entry
<1>3. PutStruct(fs, kv, i).kv =
         IF packs # <<>> THEN Set(kv, id, list) ELSE IF old.shape = "list" THEN kv ELSE Set(kv, id, dict)
  BY DEF PutStruct
<1>4. Put(fs, kv, i).kv = IF id \notin TslTop THEN kv
                          ELSE IF fs[i].type = "STRUCT" THEN PutStruct(fs, kv, i).kv ELSE Set(kv, id, value)
  BY DEF Put
<1>5. fs[i].type = "STRUCT" /\ packs # <<>> => id = Packs
  BY NoPacks
<1> HIDE DEF list, dict, value, packs, id, old
<1>6. ListsArePacks(Set(kv, id, dict)) /\ ListsArePacks(Set(kv, id, value))
  BY <1>1, <1>2
<1>7. id = Packs => ListsArePacks(Set(kv, id, list))
  BY <1>1
<1>8. fs[i].type = "STRUCT" => ListsArePacks(PutStruct(fs, kv, i).kv)
  BY <1>3, <1>5, <1>6, <1>7
<1> QED BY <1>4, <1>6, <1>8

-----------------------------------------------------------------------------
(* What a read has of the stream hangs together.                              *)

Hangs(s) == Chain(s) /\ (s # <<>> => Complete(s[Len(s)]))
Leads(p, s) == IF s = <<>> THEN Complete(p) ELSE Linked(p, s[1])
ChainInv ==
    /\ Hangs(stream)
    /\ Chain(taken) /\ (taken # <<>> => Leads(taken[Len(taken)], stream))
    /\ Chain(source)

LEMMA NoneHangs == Hangs(<<>>) /\ Chain(<<>>)
<1>1. \A n \in 1 .. Len(<<>>) - 1 : FALSE
  OBVIOUS
<1> QED BY <1>1 DEF Hangs, Chain

LEMMA TailHangs ==
    ASSUME NEW s \in Seq(Packets), s # <<>>, Hangs(s)
    PROVE  Hangs(Tail(s)) /\ Leads(s[1], Tail(s)) /\ Tail(s) \in Seq(Packets)
<1> DEFINE t == Tail(s)
           N == Len(s)
<1>1. /\ t \in Seq(Packets) /\ Len(t) = N - 1 /\ \A n \in 1 .. Len(t) : t[n] = s[n + 1]
  BY HeadTailProperties
<1>2. N \in Nat /\ N >= 1
  OBVIOUS
<1>3. \A n \in 1 .. N - 1 : Linked(s[n], s[n + 1])
  BY DEF Hangs, Chain
<1>4. Complete(s[N])
  BY DEF Hangs
<1> HIDE DEF t, N
<1>5. Chain(t)
  <2> SUFFICES ASSUME NEW n \in 1 .. Len(t) - 1 PROVE Linked(t[n], t[n + 1])
    BY DEF Chain
  <2> DEFINE m == n + 1
  <2>1. n \in 1 .. Len(t) /\ m \in 1 .. Len(t) /\ m \in 1 .. N - 1
    BY <1>1, <1>2
  <2> HIDE DEF m
  <2>2. t[n] = s[m] /\ t[m] = s[m + 1]
    <3>1. t[n] = s[n + 1]
      BY <1>1, <2>1
    <3> QED BY <1>1, <2>1, <3>1 DEF m
  <2> QED BY <1>3, <2>1, <2>2 DEF m
<1>6. CASE t = <<>>
  <2>1. Len(t) = 0
    BY <1>6
  <2>2. N = 1
    BY <1>1, <1>2, <2>1
  <2> QED BY <1>1, <1>4, <1>5, <1>6, <2>2 DEF Hangs, Leads, t
<1>7. CASE t # <<>>
  <2>1. Len(t) \in Nat /\ Len(t) # 0
    BY <1>1, <1>7
  <2>2. 1 \in 1 .. Len(t) /\ Len(t) \in 1 .. Len(t) /\ Len(t) + 1 = N /\ 1 \in 1 .. N - 1
    BY <1>1, <1>2, <2>1
  <2>3. t[1] = s[2] /\ t[Len(t)] = s[N]
    <3>1. t[1] = s[1 + 1] /\ t[Len(t)] = s[Len(t) + 1]
      BY <1>1, <2>2
    <3>2. 1 + 1 = 2
      OBVIOUS
    <3> QED BY <2>2, <3>1, <3>2
  <2>4. Linked(s[1], s[2])
    <3>1. Linked(s[1], s[1 + 1])
      BY <1>3, <2>2
    <3>2. 1 + 1 = 2
      OBVIOUS
    <3> QED BY <3>1, <3>2
  <2> QED BY <1>1, <1>4, <1>5, <1>7, <2>3, <2>4 DEF Hangs, Leads, t
<1> QED BY <1>6, <1>7

\* One packet more.
LEMMA ChainAppend ==
    ASSUME NEW S, NEW s \in Seq(S), NEW p \in S, Chain(s), s # <<>> => Linked(s[Len(s)], p)
    PROVE  LET t == Append(s, p) IN Chain(t) /\ t # <<>> /\ t[Len(t)] = p /\ t[1] = IF s = <<>> THEN p ELSE s[1]
<1> DEFINE t == Append(s, p)
           N == Len(s)
<1>1. t \in Seq(S) /\ Len(t) = N + 1 /\ t[N + 1] = p /\ (\A n \in 1 .. N : t[n] = s[n]) /\ N \in Nat
  BY AppendProperties
<1>2. \A n \in 1 .. N - 1 : Linked(s[n], s[n + 1])
  BY DEF Chain
<1>3. N # 0 <=> s # <<>>
  OBVIOUS
<1> HIDE DEF t, N
<1>4. Chain(t)
  <2> SUFFICES ASSUME NEW n \in 1 .. Len(t) - 1 PROVE Linked(t[n], t[n + 1])
    BY DEF Chain
  <2> DEFINE m == n + 1
  <2>1. n \in 1 .. N
    BY <1>1
  <2>2. t[n] = s[n]
    BY <1>1, <2>1
  <2>3. CASE n = N
    <3>1. t[m] = p /\ s # <<>>
      BY <1>1, <1>3, <2>1, <2>3
    <3> HIDE DEF m
    <3> QED BY <2>2, <2>3, <3>1 DEF N, m
  <2>4. CASE n # N
    <3>1. n \in 1 .. N - 1 /\ m \in 1 .. N
      BY <1>1, <2>1, <2>4
    <3>2. t[m] = s[m]
      BY <1>1, <3>1
    <3> HIDE DEF m
    <3> QED BY <1>2, <2>2, <3>1, <3>2 DEF m
  <2> QED BY <2>3, <2>4
<1>5. t # <<>>
  <2>1. Len(t) # 0
    BY <1>1
  <2> QED BY <1>1, <2>1
<1>6. t[1] = IF s = <<>> THEN p ELSE s[1]
  <2>1. CASE s = <<>>
    <3>1. N = 0
      BY <1>3, <2>1
    <3>2. N + 1 = 1
      BY <3>1
    <3> QED BY <1>1, <2>1, <3>2
  <2>2. CASE s # <<>>
    <3>1. 1 \in 1 .. N
      BY <1>1, <1>3, <2>2
    <3> QED BY <1>1, <2>2, <3>1
  <2> QED BY <2>1, <2>2
<1> QED BY <1>1, <1>4, <1>5, <1>6 DEF t

\* A stream and an answer more.
LEMMA AnswerHangs ==
    ASSUME NEW s \in Seq(Packets), Hangs(s), NEW r \in DOMAIN Reports, NEW answer \in Answers[r]
    PROVE  LET t == s \o answer
           IN Hangs(t) /\ t # <<>> /\ IF s = <<>> THEN Begins(t[1]) ELSE t[1] = s[1]
<1> DEFINE L == Len(FieldsOf[r])
           t == s \o answer
<1>1. L \in Nat
  <2>1. FieldsOf[r] \in Seq(Writable)
    BY FieldsOfType
  <2> QED BY <2>1
<1>2. \/ answer = <<Status(r, 1, L)>>
      \/ \E k \in 1 .. L - 1 : answer = <<Status(r, 1, k), Status(r, k + 1, L)>>
  BY DEF Answers
<1>3. answer \in Seq(Packets)
  <2>1. answer \in Seq(StatusPackets)
    BY AnswersType
  <2>2. StatusPackets \subseteq Packets
    BY DEF Packets
  <2> QED BY <2>1, <2>2
<1>4. \A i, j : Status(r, i, j).cmd = "status" /\ Status(r, i, j).r = r /\ Status(r, i, j).i = i /\ Status(r, i, j).j = j
  BY DEF Status
<1> HIDE DEF t
<1>5. ASSUME NEW p \in Packets, Begins(p)
      PROVE  LET a == Append(s, p) IN
             a \in Seq(Packets) /\ Chain(a) /\ a # <<>> /\ a[Len(a)] = p /\ IF s = <<>> THEN Begins(a[1]) ELSE a[1] = s[1]
  <2>1. s # <<>> => Linked(s[Len(s)], p)
    BY <1>5 DEF Hangs, Linked
  <2>2. Chain(s)
    BY DEF Hangs
  <2> DEFINE a == Append(s, p)
  <2>3. a \in Seq(Packets)
    BY AppendProperties
  <2>4. Chain(a) /\ a # <<>> /\ a[Len(a)] = p /\ a[1] = IF s = <<>> THEN p ELSE s[1]
    BY <2>1, <2>2, ChainAppend
  <2> HIDE DEF a
  <2>5. IF s = <<>> THEN Begins(a[1]) ELSE a[1] = s[1]
    BY <1>5, <2>4
  <2> QED BY <2>3, <2>4, <2>5 DEF a
<1>6. CASE answer = <<Status(r, 1, L)>>
  <2> DEFINE p == Status(r, 1, L)
  <2>1. Begins(p) /\ Complete(p)
    BY <1>4 DEF Begins, Complete
  <2>2. answer = <<p>>
    BY <1>6
  <2> HIDE DEF p
  <2>3. p \in Packets
    <3>1. Len(answer) = 1 /\ answer[1] = p
      BY <2>2
    <3>2. 1 \in 1 .. Len(answer)
      BY <3>1
    <3> QED BY <1>3, <3>1, <3>2, ElementOfSeq
  <2>4. t = Append(s, p)
    <3>1. \A x \in Packets : s \o <<x>> = Append(s, x)
      OBVIOUS
    <3> QED BY <2>2, <2>3, <3>1 DEF t
  <2> QED BY <1>5, <2>1, <2>3, <2>4 DEF Hangs, t
<1>7. ASSUME NEW k \in 1 .. L - 1, answer = <<Status(r, 1, k), Status(r, k + 1, L)>>
      PROVE  Hangs(t) /\ t # <<>> /\ IF s = <<>> THEN Begins(t[1]) ELSE t[1] = s[1]
  <2> DEFINE p == Status(r, 1, k)
             q == Status(r, k + 1, L)
             a == Append(s, p)
  <2>1. Begins(p) /\ Complete(q) /\ Continues(p, q)
    BY <1>4 DEF Begins, Complete, Continues
  <2>2. answer = <<p, q>>
    BY <1>7
  <2> HIDE DEF p, q
  <2>3. p \in Packets /\ q \in Packets
    <3>1. Len(answer) = 2 /\ answer[1] = p /\ answer[2] = q
      BY <2>2
    <3>2. 1 \in 1 .. Len(answer) /\ 2 \in 1 .. Len(answer)
      BY <3>1
    <3> QED BY <1>3, <3>1, <3>2, ElementOfSeq
  <2>4. /\ a \in Seq(Packets) /\ Chain(a) /\ a # <<>> /\ a[Len(a)] = p
        /\ IF s = <<>> THEN Begins(a[1]) ELSE a[1] = s[1]
    BY <1>5, <2>1, <2>3
  <2> HIDE DEF a
  <2>5. Linked(a[Len(a)], q)
    BY <2>1, <2>4 DEF Linked
  <2> DEFINE b == Append(a, q)
  <2>6. Chain(b) /\ b # <<>> /\ b[Len(b)] = q /\ b[1] = IF a = <<>> THEN q ELSE a[1]
    BY <2>3, <2>4, <2>5, ChainAppend
  <2>7. t = b
    <3>1. \A x, y \in Packets : s \o <<x, y>> = Append(Append(s, x), y)
      OBVIOUS
    <3> QED BY <2>2, <2>3, <3>1 DEF t, a
  <2> HIDE DEF b
  <2> QED BY <2>1, <2>4, <2>6, <2>7 DEF Hangs
<1> QED BY <1>2, <1>6, <1>7 DEF t

LEMMA CollectKeepsChain ==
    ASSUME NEW fs, NEW from, CollectEnds(fs, from) \/ CollectMore(fs, from), Hangs(stream'), Chain(source),
           Chain(from), from # <<>> => Leads(from[Len(from)], stream')
    PROVE  ChainInv'
<1>1. /\ taken' = from \/ taken' = <<>>
      /\ source' = from \/ source' = source
  <2>1. CASE CollectEnds(fs, from)
    BY <2>1 DEF CollectEnds, ReadEnds, Request, shown
  <2>2. CASE CollectMore(fs, from)
    <3>1. CollectEnds(fs, from) \/ (taken' = from /\ source' = source)
      BY <2>2 DEF CollectMore, shown
    <3> QED BY <2>1, <3>1
  <2> QED BY <2>1, <2>2
<1>2. Chain(taken') /\ (taken' # <<>> => Leads(taken'[Len(taken')], stream'))
  BY <1>1, NoneHangs
<1>3. Chain(source')
  BY <1>1
<1> QED BY <1>2, <1>3 DEF ChainInv

LEMMA ChainGoesOn == ChainInv /\ ReadInv /\ [Next]_vars => ChainInv'
<1> SUFFICES ASSUME ChainInv, ReadInv, [Next]_vars PROVE ChainInv'
  OBVIOUS
<1>0. /\ stream \in Seq(Packets) /\ Hangs(stream) /\ Chain(taken) /\ Chain(source)
      /\ taken # <<>> => Leads(taken[Len(taken)], stream)
      /\ taken \in Seq(StatusPackets) /\ (phase = "idle" => taken = <<>>)
  BY DEF ChainInv, ReadInv, StreamInv, TakenInv, Took
<1> DEFINE last == taken[Len(taken)]
<1>1. CASE Answer
  <2>1. PICK answer \in Answers[made'] : stream' = stream \o answer
    BY <1>1 DEF Answer
  <2>2. made' \in DOMAIN Reports
    <3>1. made \in 0 .. Len(Reports) /\ made < Len(Reports) /\ made' = made + 1 /\ Len(Reports) \in Nat
      BY <1>1, Sizes DEF Answer, ReadInv, BoundsInv
    <3>2. DOMAIN Reports = 1 .. Len(Reports)
      <4>1. Reports \in Seq(Seq(Points))
        BY ConstantsAssumption DEF ConstantsAssumption
      <4> QED BY <4>1, LenProperties
    <3> QED BY <3>1, <3>2
  <2>3. Hangs(stream') /\ stream' # <<>> /\ IF stream = <<>> THEN Begins(stream'[1]) ELSE stream'[1] = stream[1]
    BY <1>0, <2>1, <2>2, AnswerHangs
  <2>4. taken' = taken /\ source' = source
    BY <1>1 DEF Answer, read, shown
  <2>5. taken # <<>> => Leads(last, stream')
    BY <1>0, <2>3 DEF Leads, Linked
  <2> QED BY <1>0, <2>3, <2>4, <2>5 DEF ChainInv
<1>2. CASE SendOther
  <2>1. PICK p \in Others : stream' = <<p>>
    BY <1>2 DEF SendOther
  <2>2. p.cmd # "status"
    BY DEF Others
  <2>3. stream' # <<>> /\ Len(stream') = 1 /\ stream'[1] = p
    BY <2>1
  <2>4. Hangs(stream')
    <3>1. \A n \in 1 .. Len(stream') - 1 : FALSE
      BY <2>3
    <3> QED BY <2>2, <2>3, <3>1 DEF Hangs, Chain, Complete
  <2>5. taken' = taken /\ source' = source /\ stream = <<>>
    BY <1>2 DEF SendOther, read, shown
  <2>6. taken # <<>> => Leads(last, stream')
    BY <1>0, <2>2, <2>3, <2>5 DEF Leads, Linked, Begins
  <2> QED BY <1>0, <2>4, <2>5, <2>6 DEF ChainInv
<1>3. CASE HangUp
  <2>1. stream' = <<>> /\ taken' = <<>> /\ source' = source
    BY <1>3 DEF HangUp, shown
  <2> QED BY <1>0, <2>1, NoneHangs DEF ChainInv
<1>4. CASE WriteTakes
  <2>1. stream # <<>> /\ stream' = Tail(stream) /\ taken' = <<>> /\ source' = source
    BY <1>0, <1>4 DEF WriteTakes, read, shown
  <2>2. Hangs(stream')
    BY <1>0, <2>1, TailHangs
  <2> QED BY <1>0, <2>1, <2>2, NoneHangs DEF ChainInv
<1>5. CASE ReadBegin
  <2>1. stream' = stream /\ taken' = taken /\ source' = source
    BY <1>5 DEF ReadBegin, shown
  <2> QED BY <1>0, <2>1 DEF ChainInv
<1>6. CASE CollectPacket
  <2> DEFINE p == stream[1]
             more == Append(taken, p)
             fs == fields \o ParseFields(Payload(p))
  <2>1. /\ stream # <<>> /\ stream' = Tail(stream)
        /\ CASE p.cmd = "void" -> CollectMore(fields, taken)
             [] p.cmd = "status" -> CollectMore(fs, more)
             [] OTHER -> CollectEnds(fields, taken)
    BY <1>6 DEF CollectPacket
  <2>2. Hangs(stream') /\ Leads(p, stream')
    BY <1>0, <2>1, TailHangs
  <2>3. p \in Packets
    <3>1. 1 \in 1 .. Len(stream)
      BY <1>0, <2>1
    <3> QED BY <1>0, <3>1, ElementOfSeq
  <2> HIDE DEF fs, p
  <2>4. taken # <<>> => Linked(last, p)
    BY <1>0, <2>1 DEF Leads, p
  <2>5. CASE p.cmd = "status"
    <3>1. CollectMore(fs, more)
      BY <2>1, <2>5
    <3>2. p \in StatusPackets
      BY <2>3, <2>5, PacketKinds
    <3>3. Chain(more) /\ more # <<>> /\ more[Len(more)] = p
      BY <1>0, <2>4, <3>2, ChainAppend
    <3> HIDE DEF more
    <3> QED BY <1>0, <2>2, <3>1, <3>3, CollectKeepsChain
  <2>6. CASE p.cmd # "status"
    <3>1. CollectMore(fields, taken) \/ CollectEnds(fields, taken)
      BY <2>1, <2>6
    <3>2. taken # <<>> => Leads(last, stream')
      BY <2>2, <2>4, <2>6 DEF Leads, Linked, Continues
    <3> QED BY <1>0, <2>2, <3>1, <3>2, CollectKeepsChain
  <2> QED BY <2>5, <2>6
<1>7. CASE CollectTimeout
  <2>1. CollectEnds(fields, taken) /\ stream' = stream
    BY <1>7 DEF CollectTimeout
  <2> QED BY <1>0, <2>1, CollectKeepsChain
<1>8. CASE UNCHANGED vars
  BY <1>8 DEF vars, ChainInv, read, shown
<1> QED BY <1>1, <1>2, <1>3, <1>4, <1>5, <1>6, <1>7, <1>8 DEF Next

LEMMA ChainKept == Spec => []ChainInv
<1>1. Init => ChainInv
  BY NoneHangs DEF Init, ChainInv
<1> QED BY <1>1, ChainGoesOn, ReadKept, PTL DEF Spec

-----------------------------------------------------------------------------
(* A whole answer at the end of what a read took.                             *)

\* The end of a sequence, and what comes before it.
LEMMA SuffixIs ==
    ASSUME NEW S, NEW s \in Seq(S), NEW t \in Seq(S), IsSuffix(s, t)
    PROVE  /\ Len(s) <= Len(t)
           /\ LET a == SubSeq(t, 1, Len(t) - Len(s))
              IN a \in Seq(S) /\ Len(a) = Len(t) - Len(s) /\ (\A n \in 1 .. Len(a) : a[n] = t[n]) /\ t = a \o s
<1> DEFINE m == Len(s)
           n == Len(t)
           a == SubSeq(t, 1, n - m)
           rs == [i \in 1 .. m |-> s[(m - i) + 1]]
           rt == [i \in 1 .. n |-> t[(n - i) + 1]]
<1>1. m \in Nat /\ n \in Nat
  OBVIOUS
<1>2. Reverse(s) = rs /\ Reverse(t) = rt
  BY DEF Reverse
<1>3. IsPrefix(rs, rt)
  BY <1>2 DEF IsSuffix
<1>4. rs \in Seq(S) /\ Len(rs) = m /\ rt \in Seq(S) /\ Len(rt) = n
  <2>1. \A i \in 1 .. m : s[(m - i) + 1] \in S
    <3> TAKE i \in 1 .. m
    <3> DEFINE j == (m - i) + 1
    <3>1. j \in 1 .. m
      BY <1>1
    <3> HIDE DEF j
    <3> QED BY <3>1, ElementOfSeq
  <2>2. \A i \in 1 .. n : t[(n - i) + 1] \in S
    <3> TAKE i \in 1 .. n
    <3> DEFINE j == (n - i) + 1
    <3>1. j \in 1 .. n
      BY <1>1
    <3> HIDE DEF j
    <3> QED BY <3>1, ElementOfSeq
  <2>3. rs \in [1 .. m -> S] /\ rt \in [1 .. n -> S]
    BY <2>1, <2>2
  <2>4. rs \in Seq(S) /\ rt \in Seq(S)
    BY <1>1, <2>3, SeqDef
  <2>5. DOMAIN rs = 1 .. m /\ DOMAIN rt = 1 .. n
    OBVIOUS
  <2> HIDE DEF rs, rt, m, n
  <2> QED BY <1>1, <2>4, <2>5, LenProperties
<1>5. \A i \in 1 .. m : rs[i] = s[(m - i) + 1]
  OBVIOUS
<1>6. \A i \in 1 .. n : rt[i] = t[(n - i) + 1]
  OBVIOUS
<1> HIDE DEF rs, rt
<1>7. m <= n /\ SubSeq(rs, 1, m) = SubSeq(rt, 1, m)
  BY <1>3, <1>4 DEF IsPrefix
<1>8. \A i \in 1 .. m : rs[i] = rt[i]
  <2>1. (\A i \in 1 .. m : SubSeq(rs, 1, m)[i] = rs[i]) /\ \A i \in 1 .. m : SubSeq(rt, 1, m)[i] = rt[i]
    <3>1. \A i \in 1 .. n : rt[i] \in S
      BY <1>4
    <3>2. \A i \in 1 .. m : rs[i] \in S
      BY <1>4
    <3> HIDE DEF m, n
    <3> QED BY <1>1, <1>4, <1>7, <3>1, <3>2
  <2> QED BY <1>7, <2>1
<1>9. \A k \in 1 .. m : t[(n - m) + k] = s[k]
  <2> TAKE k \in 1 .. m
  <2> DEFINE i == (m - k) + 1
  <2>1. i \in 1 .. m /\ i \in 1 .. n /\ (m - i) + 1 = k /\ (n - i) + 1 = (n - m) + k
    BY <1>1, <1>7
  <2> HIDE DEF i
  <2> QED BY <1>5, <1>6, <1>8, <2>1
<1> DEFINE d == n - m
<1>10. d \in 0 .. n
  BY <1>1, <1>7
<1> HIDE DEF m, n
<1>11. a \in Seq(S) /\ Len(a) = d /\ \A i \in 1 .. d : a[i] = t[i]
  <2>1. a = SubSeq(t, 1, d)
    OBVIOUS
  <2>2. \A i \in 1 .. n : t[i] \in S
    BY DEF n
  <2> HIDE DEF d, a
  <2> QED BY <1>1, <1>10, <2>1, <2>2
<1> DEFINE c == a \o s
<1>12. /\ c \in Seq(S) /\ Len(c) = d + m
       /\ (\A i \in 1 .. d : c[i] = a[i]) /\ \A i \in 1 .. m : c[d + i] = s[i]
  <2> HIDE DEF a
  <2>1. /\ a \o s \in Seq(S) /\ Len(a \o s) = Len(a) + Len(s)
        /\ \A i \in 1 .. Len(a) : (a \o s)[i] = a[i]
        /\ \A i \in 1 .. Len(s) : (a \o s)[Len(a) + i] = s[i]
    <3>1. a \in Seq(S) /\ s \in Seq(S)
      BY <1>11
    <3> QED BY <3>1, ConcatParts
  <2> HIDE DEF d
  <2> QED BY <1>11, <2>1 DEF m
<1> HIDE DEF c
<1>13. \A i \in 1 .. n : c[i] = t[i]
  <2> TAKE i \in 1 .. n
  <2>1. CASE i <= d
    <3>1. i \in 1 .. d
      BY <2>1
    <3> HIDE DEF d, a
    <3> QED BY <1>11, <1>12, <3>1
  <2>2. CASE ~(i <= d)
    <3> DEFINE k == i - d
    <3>1. k \in 1 .. m /\ d + k = i /\ (n - m) + k = i
      BY <1>1, <1>10, <2>2
    <3> HIDE DEF k, d
    <3> QED BY <1>9, <1>12, <3>1
  <2> QED BY <2>1, <2>2
<1>14. t = c
  <2>1. Len(c) = Len(t)
    BY <1>1, <1>12 DEF n
  <2> QED BY <1>12, <1>13, <2>1, SeqEqual DEF n
<1> QED BY <1>7, <1>11, <1>14 DEF m, n, d, c

\* Fields of more packets are more fields.
LEMMA SentConcat ==
    ASSUME NEW s \in Seq(StatusPackets), NEW t \in Seq(StatusPackets)
    PROVE  Sent(s \o t) = Sent(s) \o Sent(t) /\ s \o t \in Seq(StatusPackets)
<1> DEFINE u == s \o t
           U == SentParts(s) \o SentParts(t)
           V == SentParts(u)
<1>1. /\ u \in Seq(StatusPackets) /\ Len(u) = Len(s) + Len(t)
      /\ \A i \in 1 .. Len(s) : u[i] = s[i]
      /\ \A i \in 1 .. Len(t) : u[Len(s) + i] = t[i]
  BY ConcatParts
<1>2. /\ SentParts(s) \in Seq(Seq(Writable)) /\ Len(SentParts(s)) = Len(s) /\ Sent(s) = FlattenSeq(SentParts(s))
      /\ SentParts(t) \in Seq(Seq(Writable)) /\ Len(SentParts(t)) = Len(t) /\ Sent(t) = FlattenSeq(SentParts(t))
  BY SentType
<1> HIDE DEF u
<1>3. V \in Seq(Seq(Writable)) /\ Len(V) = Len(u) /\ Sent(u) = FlattenSeq(V)
  BY <1>1, SentType
<1>4. \A p \in {s, t, u} : \A i \in 1 .. Len(p) : SentParts(p)[i] = PartOf(p[i])
  <2> TAKE p \in {s, t, u}
  <2>1. p \in Seq(StatusPackets)
    BY <1>1
  <2>2. DOMAIN p = 1 .. Len(p)
    BY <2>1, LenProperties
  <2> QED BY <2>2 DEF SentParts
<1>5. /\ U \in Seq(Seq(Writable)) /\ Len(U) = Len(s) + Len(t)
      /\ \A i \in 1 .. Len(s) : U[i] = SentParts(s)[i]
      /\ \A i \in 1 .. Len(t) : U[Len(s) + i] = SentParts(t)[i]
  <2> DEFINE x == SentParts(s)
             y == SentParts(t)
  <2> HIDE DEF x, y
  <2>1. /\ x \o y \in Seq(Seq(Writable)) /\ Len(x \o y) = Len(x) + Len(y)
        /\ \A i \in 1 .. Len(x) : (x \o y)[i] = x[i]
        /\ \A i \in 1 .. Len(y) : (x \o y)[Len(x) + i] = y[i]
    <3>1. x \in Seq(Seq(Writable)) /\ y \in Seq(Seq(Writable))
      BY <1>2 DEF x, y
    <3> QED BY <3>1, ConcatParts
  <2>2. Len(x) = Len(s) /\ Len(y) = Len(t)
    BY <1>2 DEF x, y
  <2>3. U = x \o y
    BY DEF x, y
  <2> QED BY <2>1, <2>2, <2>3 DEF x, y
<1> HIDE DEF U, V
<1>6. Len(s) \in Nat /\ Len(t) \in Nat
  OBVIOUS
<1>7. \A i \in 1 .. Len(u) : V[i] = U[i]
  <2> TAKE i \in 1 .. Len(u)
  <2>1. V[i] = PartOf(u[i])
    BY <1>4 DEF V
  <2>2. CASE i <= Len(s)
    <3>1. i \in 1 .. Len(s)
      BY <2>2
    <3> QED BY <1>1, <1>4, <1>5, <2>1, <3>1
  <2>3. CASE ~(i <= Len(s))
    <3> DEFINE k == i - Len(s)
    <3>1. k \in 1 .. Len(t) /\ Len(s) + k = i
      BY <1>1, <1>6, <2>3
    <3> HIDE DEF k
    <3> QED BY <1>1, <1>4, <1>5, <2>1, <3>1
  <2> QED BY <2>2, <2>3
<1>8. V = U
  BY <1>1, <1>3, <1>5, <1>7, SeqEqual
<1>9. FlattenSeq(U) = FlattenSeq(SentParts(s)) \o FlattenSeq(SentParts(t))
  <2> DEFINE x == SentParts(s)
             y == SentParts(t)
  <2> HIDE DEF x, y
  <2>1. x \in Seq(Seq(Writable)) /\ y \in Seq(Seq(Writable))
    BY <1>2 DEF x, y
  <2>2. FlattenSeq(x \o y) = FlattenSeq(x) \o FlattenSeq(y)
    BY <2>1, FlattenConcat
  <2> QED BY <2>2 DEF x, y, U
<1> QED BY <1>1, <1>2, <1>3, <1>8, <1>9 DEF u

\* What came before a whole answer is complete, and the fields are its and the answer's.
LEMMA BeforeAnswer ==
    ASSUME NEW r \in DOMAIN Reports, NEW answer \in Answers[r], NEW s \in Seq(StatusPackets), Chain(s),
           IsSuffix(answer, s)
    PROVE  \E A \in Seq(StatusPackets) :
              Chain(A) /\ (A # <<>> => Complete(A[Len(A)])) /\ Sent(s) = Sent(A) \o FieldsOf[r]
<1> DEFINE A == SubSeq(s, 1, Len(s) - Len(answer))
           N == Len(A)
           m == N + 1
           L == Len(FieldsOf[r])
<1>1. answer \in Seq(StatusPackets)
  BY AnswersType
<1>2. /\ A \in Seq(StatusPackets) /\ N = Len(s) - Len(answer) /\ (\A n \in 1 .. N : A[n] = s[n])
      /\ s = A \o answer
  BY <1>1, SuffixIs
<1> HIDE DEF A
<1>3. Len(answer) \in Nat /\ Len(answer) >= 1 /\ answer[1].cmd = "status" /\ answer[1].i = 1
  <2>1. \/ answer = <<Status(r, 1, L)>>
        \/ \E k \in 1 .. L - 1 : answer = <<Status(r, 1, k), Status(r, k + 1, L)>>
    BY DEF Answers
  <2>2. \A k : Status(r, 1, k).cmd = "status" /\ Status(r, 1, k).i = 1
    BY DEF Status
  <2>3. \A p, q : Len(<<p>>) = 1 /\ <<p>>[1] = p /\ Len(<<p, q>>) = 2 /\ <<p, q>>[1] = p
    OBVIOUS
  <2> HIDE DEF L
  <2>4. (Len(answer) = 1 \/ Len(answer) = 2) /\ \E k : answer[1] = Status(r, 1, k)
    BY <2>1, <2>3
  <2> QED BY <2>2, <2>4
<1>4. N \in Nat /\ Len(s) \in Nat /\ Len(s) = N + Len(answer)
  <2>1. N \in Nat /\ Len(s) \in Nat
    BY <1>2
  <2> HIDE DEF N
  <2> QED BY <1>2, <1>3, <2>1
<1>5. Chain(A)
  <2> SUFFICES ASSUME NEW n \in 1 .. Len(A) - 1 PROVE Linked(A[n], A[n + 1])
    BY DEF Chain
  <2> DEFINE k == n + 1
  <2>1. n \in 1 .. N /\ k \in 1 .. N /\ n \in 1 .. Len(s) - 1
    BY <1>3, <1>4
  <2> HIDE DEF k
  <2>2. A[n] = s[n] /\ A[k] = s[k]
    BY <1>2, <2>1
  <2>3. Linked(s[n], s[k])
    BY <2>1 DEF Chain, k
  <2> QED BY <2>2, <2>3 DEF k
<1>6. ASSUME A # <<>> PROVE Complete(A[Len(A)])
  <2>1. N >= 1
    BY <1>2, <1>6
  <2>2. N \in 1 .. Len(s) - 1 /\ N \in 1 .. N /\ 1 \in 1 .. Len(answer)
    BY <1>3, <1>4, <2>1
  <2>3. Linked(s[N], s[m])
    BY <2>2 DEF Chain
  <2>4. s[N] = A[N]
    BY <1>2, <2>2
  <2>5. s[m] = answer[1]
    <3>1. (A \o answer)[Len(A) + 1] = answer[1]
      BY <1>1, <1>2, <2>2, ConcatParts
    <3> QED BY <1>2, <3>1
  <2> DEFINE p == A[N]
  <2>6. p.j \in Nat /\ 1 <= p.j
    <3>1. p \in StatusPackets
      BY <1>2, <2>2, ElementOfSeq
    <3> HIDE DEF p
    <3>2. p.i \in Nat /\ p.j \in Nat /\ 1 <= p.i /\ p.i <= p.j
      BY <3>1 DEF StatusPackets
    <3> QED BY <3>2
  <2>7. Linked(p, answer[1])
    BY <2>3, <2>4, <2>5
  <2> HIDE DEF p
  <2>8. Complete(p)
    <3>1. p.j + 1 # 1
      BY <2>6
    <3> QED BY <1>3, <2>7, <3>1 DEF Linked, Continues
  <2> QED BY <2>8 DEF p
<1>7. Sent(s) = Sent(A) \o FieldsOf[r]
  <2>1. Sent(A \o answer) = Sent(A) \o Sent(answer)
    BY <1>1, <1>2, SentConcat
  <2> QED BY <1>2, <2>1, AnswerIsWhole
<1> QED BY <1>2, <1>5, <1>6, <1>7

\* Up to there the loop goes without a list but the packs'.
LEMMA ListsArrive ==
    ASSUME NEW fs \in Seq(Writable), FieldsToKv(fs).ok, NEW a \in 0 .. Len(fs),
           \A x \in 1 .. a : StepOver(fs, x) \in x + 1 .. a + 1
    PROVE  \E m \in 0 .. a : Rounds(fs)[m] = Done(a, Rounds(fs)[m].kv) /\ ListsArePacks(Rounds(fs)[m].kv)
<1>1. PICK m \in 0 .. a : /\ Rounds(fs)[m] = Done(a, Rounds(fs)[m].kv)
                          /\ \A k \in 0 .. m - 1 : Goes(fs, a, k)
  BY RoundsArrive
<1> DEFINE T == {k \in 0 .. m : ListsArePacks(Rounds(fs)[k].kv)}
<1>2. m \in Nat /\ Len(fs) \in Nat /\ a \in Nat /\ a <= Len(fs)
  <2>1. Len(fs) \in Nat
    OBVIOUS
  <2> QED BY <2>1
<1>3. 0 \in T
  <2>1. Rounds(fs)[0] = Done(0, EmptyKv)
    BY <1>2, RoundsRec
  <2>2. Done(0, EmptyKv).kv = EmptyKv
    BY DEF Done
  <2>3. DOMAIN EmptyKv = {}
    BY DEF EmptyKv
  <2>4. ListsArePacks(Rounds(fs)[0].kv)
    BY <2>1, <2>2, <2>3 DEF ListsArePacks
  <2> QED BY <1>2, <2>4
<1>4. \A k \in 0 .. m - 1 : k \in T => k + 1 \in T
  <2> SUFFICES ASSUME NEW k \in 0 .. m - 1, k \in T PROVE k + 1 \in T
    OBVIOUS
  <2> DEFINE done == Rounds(fs)[k]
             put == Put(fs, done.kv, done.i)
  <2>1. done.i \in 1 .. a /\ Rounds(fs)[k + 1] = Round(fs, done)
    BY <1>1 DEF Goes
  <2>2. ListsArePacks(done.kv)
    OBVIOUS
  <2> HIDE DEF done, T
  <2>3. done.i \in 1 .. Len(fs)
    BY <1>2, <2>1
  <2>4. ListsArePacks(put.kv)
    BY <2>2, <2>3, PutLists
  <2> HIDE DEF put
  <2>5. Round(fs, done).kv = put.kv
    BY DEF Round, put
  <2>6. k + 1 \in 0 .. m
    BY <1>2
  <2> QED BY <2>1, <2>4, <2>5, <2>6 DEF T
<1>5. m \in T
  <2>1. 0 .. m \subseteq T
    <3> HIDE DEF T
    <3> QED BY <1>2, <1>3, <1>4, BoundedInduction
  <2>2. m \in 0 .. m
    BY <1>2
  <2> QED BY <2>1, <2>2
<1> QED BY <1>1, <1>5

-----------------------------------------------------------------------------
(* The rounds of the last answer, on whatever came before.                    *)

Has(kv, q) == q.field.id \in DOMAIN kv /\ kv[q.field.id] = Meaning(q)
Settled(r, k, kv) ==
    /\ ListsArePacks(kv)
    /\ \A n \in 1 .. k :
          LET q == Reports[r][n] IN Known(q) /\ q.field.id # Packs => Has(kv, q)

\* A meaning is a list for the packs only.
LEMMA MeaningShape ==
    ASSUME NEW q
    PROVE  Meaning(q).shape = "list" => q.field.id = Packs
<1> DEFINE packs == [n \in DOMAIN q.members |-> ByNumber(Tail(q.members[n]))]
           dict == ByNumber(FlattenSeq(q.members))
<1>1. Meaning(q) = CASE ~IsStruct(q) -> Leaf(q.field)
                     [] IsStruct(q) /\ q.field.id = Packs /\ q.members # <<>> -> Entry("list", packs)
                     [] OTHER -> Entry("dict", dict)
  BY DEF Meaning
<1> HIDE DEF packs, dict
<1>2. Leaf(q.field).shape # "list" /\ \A x : Entry("dict", x).shape = "dict"
  BY LeafShape DEF Entry
<1>3. CASE q.field.id # Packs
  <2>1. Meaning(q) = Leaf(q.field) \/ Meaning(q) = Entry("dict", dict)
    BY <1>1, <1>3
  <2> QED BY <1>2, <2>1
<1> QED BY <1>3

\* A data point leaves the dictionary alone, or sets its own entry.
LEMMA PutsIs ==
    ASSUME NEW kv, NEW q
    PROVE  LET new == Puts(kv, q).kv
               old == Get(kv, q.field.id)
               mean == Meaning(q)
           IN \/ new = kv /\ (~Known(q) \/ (mean.shape = "dict" /\ old.shape = "list"))
              \/ new = Set(kv, q.field.id, Entry("list", old.of \o mean.of)) /\ mean.shape = "list" /\ Known(q)
              \/ new = Set(kv, q.field.id, mean) /\ mean.shape # "list" /\ Known(q)
<1> DEFINE id == q.field.id
           old == Get(kv, id)
           mean == Meaning(q)
           list == Entry("list", old.of \o mean.of)
           new == Puts(kv, q).kv
           more == Set(kv, id, list)
           fine == old.shape \in {"none", "list"}
           other == Set(kv, id, mean)
<1> HIDE DEF mean, list, old, id
<1>1. Puts(kv, q) = IF ~Known(q) THEN [ok |-> TRUE, kv |-> kv]
          ELSE IF mean.shape = "list" THEN [ok |-> old.shape \in {"none", "list"}, kv |-> Set(kv, id, list)]
          ELSE [ok |-> TRUE, kv |-> IF mean.shape = "dict" /\ old.shape = "list" THEN kv ELSE Set(kv, id, mean)]
  BY DEF Puts, mean, list, old, id
<1> HIDE DEF more, fine, other
<1>2. Puts(kv, q) = IF ~Known(q) THEN [ok |-> TRUE, kv |-> kv]
          ELSE IF mean.shape = "list" THEN [ok |-> fine, kv |-> more]
          ELSE [ok |-> TRUE, kv |-> IF mean.shape = "dict" /\ old.shape = "list" THEN kv ELSE other]
  BY <1>1 DEF more, fine, other
<1>3. /\ ~Known(q) => new = kv
      /\ Known(q) /\ mean.shape = "list" => new = more
      /\ Known(q) /\ mean.shape # "list" => new = IF mean.shape = "dict" /\ old.shape = "list" THEN kv ELSE other
  BY <1>2
<1> HIDE DEF new
<1>4. \/ new = kv /\ (~Known(q) \/ (mean.shape = "dict" /\ old.shape = "list"))
      \/ new = more /\ mean.shape = "list" /\ Known(q)
      \/ new = other /\ mean.shape # "list" /\ Known(q)
  BY <1>3
<1> QED BY <1>4 DEF new, more, other, list, mean, old, id

\* A data point other than the packs replaces its entry and nothing else.
LEMMA PutsSettle ==
    ASSUME NEW kv, ListsArePacks(kv), NEW q
    PROVE  LET new == Puts(kv, q).kv
           IN /\ ListsArePacks(new)
              /\ Known(q) /\ q.field.id # Packs => Has(new, q)
              /\ \A x \in DOMAIN kv : x # q.field.id => x \in DOMAIN new /\ new[x] = kv[x]
<1> DEFINE id == q.field.id
           old == Get(kv, id)
           mean == Meaning(q)
           list == Entry("list", old.of \o mean.of)
           new == Puts(kv, q).kv
<1>1. \/ new = kv /\ (~Known(q) \/ (mean.shape = "dict" /\ old.shape = "list"))
      \/ new = Set(kv, id, list) /\ mean.shape = "list" /\ Known(q)
      \/ new = Set(kv, id, mean) /\ mean.shape # "list" /\ Known(q)
  BY PutsIs
<1>2. mean.shape = "list" => id = Packs
  BY MeaningShape
<1>3. old.shape = "list" => id = Packs
  <2>1. NoEntry.shape = "none"
    BY DEF NoEntry, Entry
  <2> QED BY <2>1 DEF Get, ListsArePacks
<1> HIDE DEF new, mean, old
<1>4. ASSUME NEW entry, new = Set(kv, id, entry), entry.shape = "list" => id = Packs
      PROVE  /\ ListsArePacks(new) /\ id \in DOMAIN new /\ new[id] = entry
             /\ \A x \in DOMAIN kv : x # id => x \in DOMAIN new /\ new[x] = kv[x]
  <2> HIDE DEF id
  <2>1. DOMAIN new = DOMAIN kv \cup {id} /\ new[id] = entry /\ \A x \in DOMAIN kv \ {id} : new[x] = kv[x]
    <3>1. DOMAIN Set(kv, id, entry) = DOMAIN kv \cup {id} /\ Set(kv, id, entry)[id] = entry
      BY DEF Set
    <3>2. \A x \in DOMAIN kv \ {id} : Set(kv, id, entry)[x] = kv[x]
      BY DEF Set
    <3> QED BY <1>4, <3>1, <3>2
  <2>2. ListsArePacks(new)
    <3> SUFFICES ASSUME NEW x \in DOMAIN new, new[x].shape = "list" PROVE x = Packs
      BY DEF ListsArePacks
    <3>1. CASE x = id
      BY <1>4, <2>1, <3>1
    <3>2. CASE x # id
      BY <2>1, <3>2 DEF ListsArePacks
    <3> QED BY <3>1, <3>2
  <2> QED BY <2>1, <2>2
<1>5. CASE new = kv /\ (~Known(q) \/ (mean.shape = "dict" /\ old.shape = "list"))
  BY <1>3, <1>5 DEF new
<1>6. CASE new = Set(kv, id, list) /\ mean.shape = "list"
  BY <1>2, <1>4, <1>6 DEF new
<1>7. CASE new = Set(kv, id, mean) /\ mean.shape # "list"
  BY <1>4, <1>7 DEF new, Has, mean
<1> QED BY <1>1, <1>5, <1>6, <1>7

LEMMA SettleStep ==
    ASSUME NEW r \in DOMAIN Reports, NEW k \in 1 .. Len(Reports[r]), NEW kv, Settled(r, k - 1, kv)
    PROVE  Settled(r, k, Puts(kv, Reports[r][k]).kv)
<1> DEFINE R == Reports[r]
           q == R[k]
           new == Puts(kv, q).kv
<1>1. \A m, n \in 1 .. Len(R) : R[m].field.id = R[n].field.id => m = n
  <2>1. R \in Seq(Points) /\ ReportFits(R)
    BY ReportsType
  <2>2. DOMAIN R = 1 .. Len(R)
    <3> HIDE DEF R
    <3> QED BY <2>1, LenProperties
  <2> QED BY <2>1, <2>2 DEF ReportFits
<1>2. ListsArePacks(kv)
  BY DEF Settled
<1>3. /\ ListsArePacks(new)
      /\ Known(q) /\ q.field.id # Packs => Has(new, q)
      /\ \A x \in DOMAIN kv : x # q.field.id => x \in DOMAIN new /\ new[x] = kv[x]
  <2> HIDE DEF q
  <2> QED BY <1>2, PutsSettle
<1>4. Len(R) \in Nat
  <2>1. R \in Seq(Points)
    BY ReportsType
  <2> HIDE DEF R
  <2> QED BY <2>1
<1> HIDE DEF new
<1>5. ASSUME NEW n \in 1 .. k, Known(R[n]), R[n].field.id # Packs PROVE Has(new, R[n])
  <2>1. CASE n = k
    BY <1>3, <1>5, <2>1
  <2>2. CASE n # k
    <3>1. n \in 1 .. k - 1 /\ n \in 1 .. Len(R) /\ k \in 1 .. Len(R)
      BY <1>4, <2>2
    <3>2. Has(kv, R[n])
      BY <1>5, <3>1 DEF Settled
    <3>3. R[n].field.id # q.field.id
      BY <1>1, <2>2, <3>1
    <3> HIDE DEF R, q
    <3> QED BY <1>3, <3>2, <3>3 DEF Has
  <2> QED BY <2>1, <2>2
<1> QED BY <1>3, <1>5 DEF Settled, new

\* When the last answer's points are done, the data has what they mean.
LEMMA SettlesAll ==
    ASSUME NEW fs \in Seq(Writable), FieldsToKv(fs).ok, NEW r \in AllKnown, NEW a \in Nat, NEW m \in 0 .. a, NEW kv,
           Lies(fs, a, FieldsOf[r]), Len(fs) = a + Len(FieldsOf[r]),
           Rounds(fs)[m] = Done(a, kv), ListsArePacks(kv)
    PROVE  Settled(r, Len(Reports[r]), FieldsToKv(fs).kv)
<1> DEFINE R == Reports[r]
           P == FieldsOfPoints(R)
           N == Len(R)
           kvAt(n) == Rounds(fs)[n].kv
           T == {k \in 0 .. N : Reaches(fs, r, a, k, m + k, kvAt(m + k)) /\ Settled(r, k, kvAt(m + k))}
<1>0. r \in DOMAIN Reports
  BY DEF AllKnown
<1>1. P \in Seq(Seq(Writable)) /\ Len(P) = N /\ N \in Nat /\ FieldsOf[r] = FlattenSeq(P)
  BY <1>0, PointsType
<1>2. Upto(P, 0) = 0 /\ Upto(P, N) = Len(FieldsOf[r])
  <2> HIDE DEF P, N
  <2> QED BY <1>1, UptoEnds
<1>3. PointEnd(r, a, 0) = a /\ PointEnd(r, a, N) = Len(fs)
  <2>1. PointEnd(r, a, 0) = a + Upto(P, 0) /\ PointEnd(r, a, N) = a + Upto(P, N)
    BY DEF PointEnd
  <2> HIDE DEF P, N
  <2> QED BY <1>2, <2>1
<1>d. \A c, x : Done(c, x).kv = x
  BY DEF Done
<1>4. 0 \in T
  <2>1. kvAt(m) = kv
    BY <1>d
  <2> HIDE DEF kvAt
  <2>2. Reaches(fs, r, a, 0, m, kvAt(m))
    BY <1>3, <2>1 DEF Reaches
  <2>3. Settled(r, 0, kvAt(m))
    BY <2>1 DEF Settled
  <2>4. m + 0 = m /\ 0 \in 0 .. N
    BY <1>1
  <2> HIDE DEF N
  <2> QED BY <2>2, <2>3, <2>4
<1>5. \A l \in 0 .. N - 1 : l \in T => l + 1 \in T
  <2> SUFFICES ASSUME NEW l \in 0 .. N - 1, l \in T PROVE l + 1 \in T
    OBVIOUS
  <2> DEFINE k == l + 1
             n == m + l
             old == kvAt(n)
             new == Puts(old, R[k]).kv
  <2>1. k \in 1 .. N /\ k \in 0 .. N /\ k - 1 = l /\ n \in Nat /\ m + k = n + 1
    <3>1. N \in Nat
      BY <1>1
    <3> HIDE DEF N, T, kvAt
    <3> QED BY <3>1
  <2>2. Reaches(fs, r, a, l, n, old) /\ Settled(r, l, old)
    <3>1. Reaches(fs, r, a, l, m + l, kvAt(m + l)) /\ Settled(r, l, kvAt(m + l))
      <4> HIDE DEF kvAt
      <4> QED OBVIOUS
    <3> QED BY <3>1
  <2> HIDE DEF T, kvAt, old
  <2> HIDE DEF n
  <2> HIDE DEF k
  <2>3. Reaches(fs, r, a, k - 1, n, old) /\ Settled(r, k - 1, old)
    BY <2>1, <2>2
  <2>4. Reaches(fs, r, a, k, n + 1, new)
    <3>1. k \in 1 .. Len(Reports[r])
      BY <2>1
    <3> QED BY <2>1, <2>3, <3>1, ReportRound
  <2>5. Settled(r, k, new)
    <3>1. k \in 1 .. Len(Reports[r])
      BY <2>1
    <3> QED BY <1>0, <2>3, <3>1, SettleStep
  <2> HIDE DEF new
  <2>6. kvAt(n + 1) = new
    <3>1. Rounds(fs)[n + 1] = Done(PointEnd(r, a, k), new)
      BY <2>4 DEF Reaches
    <3> QED BY <1>d, <3>1 DEF kvAt
  <2>7. k \in T
    BY <2>1, <2>4, <2>5, <2>6 DEF T
  <2> QED BY <2>7 DEF k
<1>6. N \in T
  <2>1. 0 .. N \subseteq T
    <3> HIDE DEF T, N
    <3> QED BY <1>1, <1>4, <1>5, BoundedInduction
  <2>2. N \in 0 .. N
    BY <1>1
  <2> QED BY <2>1, <2>2
<1> DEFINE n == m + N
           last == kvAt(n)
<1>7. Reaches(fs, r, a, N, n, last) /\ Settled(r, N, last)
  BY <1>6
<1>8. Len(fs) \in Nat /\ n \in Nat
  BY <1>1
<1> HIDE DEF last, n, T
<1>9. n <= Len(fs) /\ Rounds(fs)[n] = Done(Len(fs), last)
  BY <1>3, <1>7 DEF Reaches
<1>10. FieldsToKv(fs) = Done(Len(fs), last)
  <2>1. n \in 0 .. Len(fs)
    BY <1>8, <1>9
  <2> QED BY <1>8, <1>9, <2>1, RoundsEnd
<1> QED BY <1>7, <1>10, <1>d

\* Where the entities look: at one or two paths, and at none of the packs.
LEMMA PathsAre ==
    ASSUME NEW e \in Entities
    PROVE  1 \in DOMAIN Paths[e] /\ DOMAIN Paths[e] \subseteq {1, 2} /\ \A n \in DOMAIN Paths[e] : Paths[e][n][1] # Packs
<1> DEFINE Good(p) == 1 \in DOMAIN p /\ DOMAIN p \subseteq {1, 2} /\ \A n \in DOMAIN p : p[n][1] # Packs
<1>1. \A x \in DOMAIN SensorFields : Good(SensorFields[x])
  <2>1. DOMAIN SensorFields =
           {"battery_percent", "voltage", "current", "temperature", "battery_temp",
            "charging_plate_temp", "inverter_temp", "charge_status", "total_input_power",
            "total_output_power", "ac_output_power", "ac_output_voltage", "ac_output_hz",
            "ac_output_pf", "ac_input_power", "dc_output_power", "dc_input_power", "remain_time",
            "remain_charging_time", "ac_charging_power", "device_status_hm"}
    BY DEF SensorFields
  <2>2. /\ Good(SensorFields.battery_percent) /\ Good(SensorFields.voltage)
        /\ Good(SensorFields.current) /\ Good(SensorFields.temperature)
        /\ Good(SensorFields.battery_temp) /\ Good(SensorFields.charging_plate_temp)
        /\ Good(SensorFields.inverter_temp) /\ Good(SensorFields.charge_status)
        /\ Good(SensorFields.total_input_power) /\ Good(SensorFields.total_output_power)
        /\ Good(SensorFields.ac_output_power) /\ Good(SensorFields.ac_output_voltage)
        /\ Good(SensorFields.ac_output_hz) /\ Good(SensorFields.ac_output_pf)
        /\ Good(SensorFields.ac_input_power) /\ Good(SensorFields.dc_output_power)
        /\ Good(SensorFields.dc_input_power) /\ Good(SensorFields.remain_time)
        /\ Good(SensorFields.remain_charging_time) /\ Good(SensorFields.ac_charging_power)
        /\ Good(SensorFields.device_status_hm)
    BY SMT DEF SensorFields, Packs
  <2> HIDE DEF Good
  <2> QED BY <2>1, <2>2
<1>2. \A x \in DOMAIN SwitchFields : Good(SwitchFields[x])
  <2>1. DOMAIN SwitchFields =
           {"ac_switch_hm", "dc_switch_hm", "ups_status_hm", "device_touch_locking_as",
            "auto_light_flag_as", "eco_quite_mode_as"}
    BY DEF SwitchFields
  <2>2. /\ Good(SwitchFields.ac_switch_hm) /\ Good(SwitchFields.dc_switch_hm)
        /\ Good(SwitchFields.ups_status_hm) /\ Good(SwitchFields.device_touch_locking_as)
        /\ Good(SwitchFields.auto_light_flag_as) /\ Good(SwitchFields.eco_quite_mode_as)
    BY SMT DEF SwitchFields, Packs
  <2> HIDE DEF Good
  <2> QED BY <2>1, <2>2
<1>3. \A x \in DOMAIN SelectFields : Good(SelectFields[x])
  <2>1. DOMAIN SelectFields =
           {"ac_charging_power_ios", "machine_screen_light_as", "device_standy_times_as",
            "ac_output_voltage_io", "ac_output_frequency_io", "noastime_io"}
    BY DEF SelectFields
  <2>2. /\ Good(SelectFields.ac_charging_power_ios)
        /\ Good(SelectFields.machine_screen_light_as)
        /\ Good(SelectFields.device_standy_times_as) /\ Good(SelectFields.ac_output_voltage_io)
        /\ Good(SelectFields.ac_output_frequency_io) /\ Good(SelectFields.noastime_io)
    BY SMT DEF SelectFields, Packs
  <2> HIDE DEF Good
  <2> QED BY <2>1, <2>2
<1>4. Paths[e] = IF e \in DOMAIN SensorFields THEN SensorFields[e]
                 ELSE IF e \in DOMAIN SwitchFields THEN SwitchFields[e] ELSE SelectFields[e]
  BY DEF Paths
<1>5. e \in DOMAIN SensorFields \/ e \in DOMAIN SwitchFields \/ e \in DOMAIN SelectFields
  BY DEF Entities
<1> HIDE DEF Good
<1>6. Good(Paths[e])
  BY <1>1, <1>2, <1>3, <1>4, <1>5
<1> QED BY <1>6, SMTT(30) DEF Good

\* What there is at a first path is shown.
LEMMA FirstIsShown ==
    ASSUME NEW e \in Entities, NEW kv, At(kv, Paths[e][1]) # <<>>
    PROVE  Shows(e, kv) = Display(e, At(kv, Paths[e][1])[1])
<1> DEFINE p == Paths[e]
           found == {n \in DOMAIN p : At(kv, p[n]) # <<>>}
<1>1. 1 \in found /\ \A n \in found : n \in Nat /\ 1 <= n
  BY PathsAre
<1>2. Min(found) = 1
  <2> HIDE DEF found
  <2> QED BY <1>1 DEF Min
<1>3. GetField(kv, p) = IF found = {} THEN <<>> ELSE At(kv, p[Min(found)])
  BY DEF GetField
<1> HIDE DEF found
<1>4. GetField(kv, p) = At(kv, p[1])
  BY <1>1, <1>2, <1>3
<1> QED BY <1>4 DEF Shows

\* For any reports, what the last answer that came whole has for an entity is what
\* the entity shows, whatever parts of earlier answers were read before it.
THEOREM NewestAnswerIsShown == Spec => []NewestIsShown
<1>1. DataInv /\ ReadInv /\ ChainInv => NewestIsShown
  <2> SUFFICES ASSUME DataInv, ReadInv, ChainInv, NEW r \in AllKnown, EndsWith(source, r),
                      NEW e \in Entities, At(ReportKv[r], Paths[e][1]) # <<>>
               PROVE  Shows(e, data) = Display(e, At(ReportKv[r], Paths[e][1])[1])
    BY DEF NewestIsShown
  <2>1. r \in DOMAIN Reports
    BY DEF AllKnown
  <2>2. PICK answer \in Answers[r] : IsSuffix(answer, source)
    BY DEF EndsWith
  <2> DEFINE fs == Sent(source)
             F == FieldsOf[r]
             N == Len(Reports[r])
  <2>3. source \in Seq(StatusPackets) /\ Chain(source)
    BY DEF ReadInv, SourceInv, ChainInv
  <2>4. PICK A \in Seq(StatusPackets) :
           Chain(A) /\ (A # <<>> => Complete(A[Len(A)])) /\ fs = Sent(A) \o F
    BY <2>1, <2>2, <2>3, BeforeAnswer
  <2> DEFINE B == Sent(A)
             a == Len(B)
  <2>5. fs \in Seq(Writable) /\ B \in Seq(Writable) /\ F \in Seq(Writable)
    BY <2>1, <2>3, <2>4, SentType, FieldsOfType
  <2> HIDE DEF fs, F
  <2>6. Lies(fs, 0, B) /\ Lies(fs, a, F) /\ Len(fs) = a + Len(F) /\ a \in 0 .. Len(fs) /\ a \in Nat
    <3> HIDE DEF B
    <3>1. Lies(fs, 0, B \o F)
      BY <2>4, <2>5, LiesWhole DEF B
    <3>2. Lies(fs, 0, B) /\ Lies(fs, 0 + Len(B), F)
      <4>1. 0 \in Nat
        OBVIOUS
      <4> QED BY <2>5, <3>1, <4>1, LiesParts
    <3>3. Len(B \o F) = Len(B) + Len(F) /\ Len(B) \in Nat /\ Len(F) \in Nat
      BY <2>5, ConcatParts
    <3>4. Len(fs) = Len(B) + Len(F)
      BY <2>4, <3>3 DEF B
    <3> QED BY <3>2, <3>3, <3>4
  <2>7. \A x \in 1 .. a : StepOver(fs, x) \in x + 1 .. a + 1
    BY <2>4, <2>5, <2>6, SentStays
  <2>8. FieldsToKv(fs).ok /\ data = FieldsToKv(fs).kv
    BY DEF DataInv, fs
  <2> HIDE DEF B, a
  <2>9. PICK m \in 0 .. a : Rounds(fs)[m] = Done(a, Rounds(fs)[m].kv) /\ ListsArePacks(Rounds(fs)[m].kv)
    BY <2>5, <2>6, <2>7, <2>8, ListsArrive
  <2>10. Settled(r, N, data)
    <3> DEFINE kv == Rounds(fs)[m].kv
    <3>1. Rounds(fs)[m] = Done(a, kv) /\ ListsArePacks(kv)
      BY <2>9
    <3>2. Lies(fs, a, FieldsOf[r]) /\ Len(fs) = a + Len(FieldsOf[r])
      BY <2>6 DEF F
    <3> HIDE DEF kv
    <3> QED BY <2>5, <2>6, <2>8, <3>1, <3>2, SettlesAll
  <2> DEFINE path == Paths[e][1]
             id == path[1]
             kv == ReportKv[r]
  <2>11. id # Packs
    BY PathsAre
  <2>12. id \in DOMAIN kv
    <3> SUFFICES ASSUME id \notin DOMAIN kv PROVE FALSE
      OBVIOUS
    <3>1. Get(kv, id).shape = "none"
      BY DEF Get, NoEntry, Entry
    <3>2. At(kv, path) = <<>>
      <4> HIDE DEF kv
      <4> QED BY <3>1 DEF At
    <3> QED BY <3>2
  <2>13. PICK q \in ToSet(Reports[r]) : Known(q) /\ q.field.id = id /\ kv[id] = Meaning(q)
    <3> DEFINE points == {q \in ToSet(Reports[r]) : Known(q)}
               z == CHOOSE q \in points : q.field.id = id
               I == {q.field.id : q \in points}
    <3>1. kv = [x \in I |-> Meaning(CHOOSE q \in points : q.field.id = x)]
      BY <2>1 DEF ReportKv
    <3>2. id \in I
      <4> HIDE DEF I, points
      <4> QED BY <2>12, <3>1
    <3>3. \E q \in points : q.field.id = id
      BY <3>2
    <3>4. z \in points /\ z.field.id = id
      <4> HIDE DEF points
      <4> QED BY <3>3
    <3>5. kv[id] = Meaning(z)
      <4> HIDE DEF I, points
      <4> QED BY <3>1, <3>2
    <3> HIDE DEF z
    <3> QED BY <3>4, <3>5
  <2>14. PICK n \in 1 .. N : q = Reports[r][n]
    <3> DEFINE R == Reports[r]
    <3>1. R \in Seq(Points)
      BY <2>1, ReportsType
    <3> HIDE DEF R
    <3>2. DOMAIN R = 1 .. Len(R)
      BY <3>1, LenProperties
    <3> QED BY <3>2, <2>13 DEF R, ToSet
  <2>15. Has(data, q)
    BY <2>10, <2>11, <2>13, <2>14 DEF Settled
  <2>16. Get(data, id) = Get(kv, id)
    BY <2>12, <2>13, <2>15 DEF Has, Get
  <2> HIDE DEF kv
  <2>17. At(data, path) = At(kv, path)
    BY <2>16 DEF At
  <2> QED BY <2>17, FirstIsShown DEF kv
<1> QED BY <1>1, DataKept, ReadKept, ChainKept, PTL

\* The members of a STRUCT one after another: each begins where the one before ends.
LEMMA MemberAtRec ==
    ASSUME NEW fs, NEW i, Count(fs, i) \in Nat
    PROVE  /\ MemberAt(fs, i)[0] = i + 1
           /\ \A n \in 1 .. Count(fs, i) : MemberAt(fs, i)[n] = MemberEnd(fs, i, MemberAt(fs, i)[n - 1])
<1> DEFINE N == Count(fs, i)
           Fits1(f, m) == f = [n \in 0 .. m |-> IF n = 0 THEN i + 1 ELSE MemberEnd(fs, i, f[n - 1])]
           S == {m \in 0 .. N : \E f : Fits1(f, m)}
           start == i + 1
<1>1. N \in Nat
  OBVIOUS
<1>r. MemberAt(fs, i) = CHOOSE f : Fits1(f, N)
  BY DEF MemberAt
<1> HIDE DEF N
<1>2. 0 \in S
  <2> DEFINE f == [n \in 0 .. 0 |-> start]
  <2>1. Fits1(f, 0)
    OBVIOUS
  <2> HIDE DEF f, Fits1
  <2> QED BY <2>1, <1>1
<1> HIDE DEF start
<1>s. \A f, m : Fits1(f, m) <=> f = [n \in 0 .. m |-> IF n = 0 THEN start ELSE MemberEnd(fs, i, f[n - 1])]
  BY DEF start
<1> HIDE DEF Fits1
<1>3. \A m \in 0 .. N - 1 : m \in S => m + 1 \in S
  <2> SUFFICES ASSUME NEW m \in 0 .. N - 1, m \in S PROVE m + 1 \in S
    OBVIOUS
  <2>1. PICK f : Fits1(f, m)
    OBVIOUS
  <2> DEFINE l == m + 1
             last == MemberEnd(fs, i, f[m])
             g == [n \in 0 .. l |-> IF n <= m THEN f[n] ELSE last]
             h == [n \in 0 .. l |-> IF n = 0 THEN start ELSE MemberEnd(fs, i, g[n - 1])]
  <2>2. m \in Nat /\ l \in 0 .. N /\ l = m + 1
    BY <1>1
  <2>3. \A k \in 0 .. m : f[k] = IF k = 0 THEN start ELSE MemberEnd(fs, i, f[k - 1])
    BY <1>s, <2>1
  <2> HIDE DEF last, l
  <2>4. (\A k \in 0 .. m : g[k] = f[k]) /\ g[l] = last
    BY <2>2
  <2>5. ASSUME NEW n \in 0 .. l PROVE g[n] = IF n = 0 THEN start ELSE MemberEnd(fs, i, g[n - 1])
    <3> HIDE DEF g
    <3>1. CASE n <= m
      <4>1. n \in 0 .. m /\ (n # 0 => n - 1 \in 0 .. m)
        BY <3>1, <2>2
      <4> QED BY <4>1, <2>3, <2>4
    <3>2. CASE ~(n <= m)
      <4>1. n = l /\ n - 1 = m /\ m \in 0 .. m /\ n # 0
        BY <3>2, <2>2
      <4> QED BY <4>1, <2>4 DEF last
    <3> QED BY <3>1, <3>2
  <2>6. g = h
    BY <2>5
  <2>7. Fits1(g, l)
    <3> HIDE DEF g
    <3> QED BY <1>s, <2>6
  <2> HIDE DEF g
  <2> QED BY <2>2, <2>7 DEF l
<1>4. N \in S
  <2>1. 0 .. N \subseteq S
    <3> HIDE DEF S
    <3> QED BY <1>1, <1>2, <1>3, BoundedInduction
  <2> QED BY <1>1, <2>1
<1> DEFINE F == CHOOSE f : Fits1(f, N)
<1>5. Fits1(F, N)
  BY <1>4
<1> HIDE DEF F
<1>6. \A n \in 0 .. N : F[n] = IF n = 0 THEN start ELSE MemberEnd(fs, i, F[n - 1])
  BY <1>s, <1>5
<1>7. 0 \in 0 .. N /\ \A n \in 1 .. N : n \in 0 .. N /\ n # 0
  BY <1>1
<1>8. F[0] = start /\ \A n \in 1 .. N : F[n] = MemberEnd(fs, i, F[n - 1])
  BY <1>6, <1>7
<1> QED BY <1>r, <1>8 DEF F, N, start

-----------------------------------------------------------------------------
(* A point at the end of the fields, of which the last ones did not come.     *)

\* What there is of fs behind c is the beginning of g, and not all of it.
Breaks(fs, c, g) == c <= Len(fs) /\ Len(fs) < c + Len(g) /\ \A k \in 1 .. Len(fs) - c : fs[c + k] = g[k]

\* A point of which fields are missing is a STRUCT, and they are its members'.
LEMMA PointBreaks ==
    ASSUME NEW fs \in Seq(Writable), NEW c \in Nat, NEW q \in Points, PointFits(q),
           Breaks(fs, c, FieldsOfPoint(q)), c < Len(fs)
    PROVE  /\ c + 1 \in 1 .. Len(fs) /\ Len(fs) \in Nat /\ fs[c + 1] = q.field /\ IsStruct(q)
           /\ Breaks(fs, c + 1, FlattenSeq(q.members)) /\ FlattenSeq(q.members) \in Seq(Writable)
<1> DEFINE M == q.members
           g == FieldsOfPoint(q)
           h == FlattenSeq(M)
           i == c + 1
<1>1. M \in Seq(Seq(Writable)) /\ g \in Seq(Writable) /\ Len(g) = 1 + Len(h) /\ g[1] = q.field /\ Lies(g, 1, h)
  BY PointType
<1>2. h \in Seq(Writable)
  <2> HIDE DEF M
  <2> QED BY <1>1, FlattenRec
<1>3. IsStruct(q)
  <2> SUFFICES ASSUME ~IsStruct(q) PROVE FALSE
    OBVIOUS
  <2>1. M = <<>>
    BY DEF PointFits
  <2>2. Len(h) = 0
    BY <2>1, FlattenEmpty
  <2>3. Len(g) = 1 /\ Len(fs) < c + Len(g) /\ Len(fs) \in Nat
    <3> HIDE DEF h, g
    <3> QED BY <1>1, <2>2 DEF Breaks, g
  <2> HIDE DEF g
  <2> QED BY <2>3
<1> HIDE DEF M, g, h
<1>4. Len(fs) \in Nat /\ Len(h) \in Nat
  BY <1>2
<1>5. Len(fs) < c + Len(g) /\ \A k \in 1 .. Len(fs) - c : fs[c + k] = g[k]
  BY DEF Breaks, g
<1>6. i \in 1 .. Len(fs) /\ fs[i] = q.field
  <2>1. 1 \in 1 .. Len(fs) - c /\ i \in 1 .. Len(fs)
    BY <1>4
  <2> QED BY <1>1, <1>5, <2>1
<1>7. \A k \in 1 .. Len(fs) - i : fs[i + k] = h[k]
  <2> TAKE k \in 1 .. Len(fs) - i
  <2>1. k + 1 \in 1 .. Len(fs) - c /\ i + k = c + (k + 1) /\ k \in 1 .. Len(h) /\ 1 + k = k + 1
    BY <1>1, <1>4, <1>5
  <2>2. g[1 + k] = h[k]
    BY <1>1, <2>1 DEF Lies
  <2> HIDE DEF i
  <2> QED BY <1>5, <2>1, <2>2
<1>8. Breaks(fs, i, h)
  <2>1. i <= Len(fs) /\ Len(fs) < i + Len(h)
    BY <1>1, <1>4, <1>5
  <2> QED BY <1>7, <2>1 DEF Breaks
<1> QED BY <1>2, <1>3, <1>4, <1>6, <1>8 DEF h, M

\* A pack does not end before it has its count of fields, unless the fields end.
LEMMA PackEndsLate ==
    ASSUME NEW fs, NEW j \in Nat, NEW v \in Nat, Len(fs) \in Nat, j <= Len(fs), Len(fs) < j + v, fs[j].val[1] = v
    PROVE  PackEnd(fs, j) = Len(fs) + 1
<1> DEFINE C(k) == {l \in j + 1 .. k - 1 : fs[l].type # "STRUCT"}
           K == {k \in j + 1 .. Len(fs) : Cardinality(C(k)) = v} \cup {Len(fs) + 1}
           e == Len(fs) + 1
<1>1. PackEnd(fs, j) = Min(K)
  BY DEF PackEnd
<1>2. ASSUME NEW k \in j + 1 .. Len(fs) PROVE Cardinality(C(k)) # v
  <2> DEFINE a == j + 1
             b == k - 1
             I == a .. b
  <2>1. a \in Int /\ b \in Int /\ (a > b => 0 < v) /\ b - a + 1 < v
    BY <1>2
  <2>2. C(k) \subseteq I
    OBVIOUS
  <2> HIDE DEF C
  <2>3. IsFiniteSet(I) /\ Cardinality(I) = IF a > b THEN 0 ELSE b - a + 1
    <3> HIDE DEF a, b
    <3> QED BY <2>1, FS_Interval
  <2>4. Cardinality(C(k)) <= Cardinality(I) /\ Cardinality(C(k)) \in Nat
    <3> HIDE DEF I
    <3> QED BY <2>2, <2>3, FS_Subset, FS_CardinalityType
  <2> HIDE DEF a, b, I
  <2> QED BY <2>1, <2>3, <2>4
<1>3. K = {e}
  <2> HIDE DEF C
  <2> QED BY <1>2
<1> HIDE DEF K, e
<1>4. e \in Int
  BY DEF e
<1>5. Min(K) = e
  BY <1>3, <1>4 DEF Min
<1> QED BY <1>1, <1>5 DEF e

\* A member ends where it should, or behind all fields.
LEMMA MemberBreaks ==
    ASSUME NEW fs \in Seq(Writable), NEW c \in Nat, NEW q \in Points, PointFits(q),
           Breaks(fs, c, FieldsOfPoint(q)), c < Len(fs), NEW n \in 1 .. Len(q.members),
           c + 2 + Upto(q.members, n - 1) <= Len(fs)
    PROVE  LET end == MemberEnd(fs, c + 1, c + 2 + Upto(q.members, n - 1))
           IN end > Len(fs) \/ end = c + 2 + Upto(q.members, n)
<1> DEFINE M == q.members
           h == FlattenSeq(M)
           b == M[n]
           u == Upto(M, n - 1)
           i == c + 1
           j == c + 2 + u
           d == c + 1 + u
<1>1. /\ i \in 1 .. Len(fs) /\ Len(fs) \in Nat /\ fs[i] = q.field /\ IsStruct(q)
      /\ Breaks(fs, i, h) /\ h \in Seq(Writable)
  BY PointBreaks
<1>2. M \in Seq(Seq(Writable)) /\ DOMAIN M = 1 .. Len(M) /\ n \in DOMAIN M
  <2>1. M \in Seq(Seq(Writable))
    BY PointType
  <2>2. n \in 1 .. Len(M)
    OBVIOUS
  <2> HIDE DEF M
  <2>3. DOMAIN M = 1 .. Len(M)
    BY <2>1, LenProperties
  <2> QED BY <2>1, <2>2, <2>3
<1>3. b # <<>> /\ b \in Seq(Writable)
  <2>1. b # <<>>
    BY <1>2 DEF PointFits
  <2>2. b \in Seq(Writable)
    <3> HIDE DEF M
    <3> QED BY <1>2, ElementOfSeq
  <2> QED BY <2>1, <2>2
<1>4. u \in Nat /\ Upto(M, n) = u + Len(b) /\ Lies(h, u, b)
  <2>1. n \in 1 .. Len(M)
    OBVIOUS
  <2> HIDE DEF M
  <2> QED BY <1>2, <2>1, PartLies
<1>5. MembersFit(q)
  BY <1>1 DEF PointFits
<1>m. j <= Len(fs)
  OBVIOUS
<1> HIDE DEF M, h
<1>6. Len(b) \in Nat /\ Len(b) >= 1 /\ Len(h) \in Nat /\ u + Len(b) <= Len(h)
  <2>1. Len(b) \in Nat /\ Len(b) >= 1 /\ Len(h) \in Nat
    <3> HIDE DEF b
    <3> QED BY <1>1, <1>3
  <2> QED BY <1>4, <2>1 DEF Lies
<1> HIDE DEF b, u
<1>7. j \in Nat /\ d \in Nat /\ d + 1 = j /\ i + u = d /\ ~(j > Len(fs))
  BY <1>1, <1>4, <1>m
<1>8. \A k \in 1 .. Len(b) : d + k <= Len(fs) => fs[d + k] = b[k]
  <2> SUFFICES ASSUME NEW k \in 1 .. Len(b), d + k <= Len(fs) PROVE fs[d + k] = b[k]
    OBVIOUS
  <2>1. u + k \in 1 .. Len(fs) - i /\ i + (u + k) = d + k
    BY <1>1, <1>4, <1>6, <1>7
  <2>2. h[u + k] = b[k]
    BY <1>4 DEF Lies
  <2> HIDE DEF i, d
  <2>3. fs[i + (u + k)] = h[u + k]
    BY <1>1, <2>1 DEF Breaks
  <2> QED BY <2>1, <2>2, <2>3
<1>9. fs[j] = b[1]
  BY <1>6, <1>7, <1>8, <1>m
<1>10. c + 2 + Upto(M, n) = j + Len(b)
  BY <1>4, <1>6
<1> HIDE DEF i, j
<1>11. CASE q.field.id = Packs
  <2>1. IsAPack(b)
    BY <1>2, <1>5, <1>11 DEF MembersFit, b, M
  <2>2. IsPack(fs, i, j) /\ fs[j].val[1] = Len(b) - 1
    BY <1>1, <1>9, <1>11, <2>1 DEF IsPack, IsAPack
  <2>3. MemberEnd(fs, i, j) = PackEnd(fs, j)
    BY <1>7, <2>2 DEF MemberEnd
  <2> DEFINE v == Len(b) - 1
  <2>4. v \in Nat
    BY <1>6
  <2>5. CASE Len(fs) < j + v
    <3>1. fs[j].val[1] = v
      BY <2>2
    <3> HIDE DEF v
    <3>2. PackEnd(fs, j) = Len(fs) + 1
      BY <1>1, <1>7, <1>m, <2>4, <2>5, <3>1, PackEndsLate
    <3> QED BY <1>1, <2>3, <3>2 DEF i, j, u, M
  <2>6. CASE ~(Len(fs) < j + v)
    <3>1. d + Len(b) <= Len(fs)
      BY <1>1, <1>6, <1>7, <2>6
    <3>2. Lies(fs, d, b)
      <4>1. \A k \in 1 .. Len(b) : d + k <= Len(fs)
        BY <1>1, <1>6, <1>7, <3>1
      <4> QED BY <1>8, <3>1, <4>1 DEF Lies
    <3> HIDE DEF d
    <3>3. PackEnd(fs, d + 1) = d + 1 + Len(b)
      BY <1>3, <1>7, <2>1, <3>2, PackIs
    <3>4. PackEnd(fs, j) = c + 2 + Upto(M, n)
      BY <1>7, <1>10, <3>3
    <3> QED BY <2>3, <3>4 DEF i, j, u, M
  <2> QED BY <2>5, <2>6
<1>12. CASE q.field.id # Packs
  <2>1. Len(b) = 1
    BY <1>2, <1>5, <1>12 DEF MembersFit, b, M
  <2>2. ~IsPack(fs, i, j)
    BY <1>1, <1>12 DEF IsPack
  <2>3. MemberEnd(fs, i, j) = j + 1
    BY <1>7, <2>2 DEF MemberEnd
  <2> QED BY <1>10, <2>1, <2>3 DEF i, j, u, M
<1> QED BY <1>11, <1>12

\* The members begin where they should, as far as they have come, and the last one
\* ends behind all fields.
LEMMA MembersBreak ==
    ASSUME NEW fs \in Seq(Writable), NEW c \in Nat, NEW q \in Points, PointFits(q),
           Breaks(fs, c, FieldsOfPoint(q)), c < Len(fs)
    PROVE  /\ Count(fs, c + 1) = Len(q.members)
           /\ \A n \in 0 .. Len(q.members) :
                 MemberAt(fs, c + 1)[n] > Len(fs) \/ MemberAt(fs, c + 1)[n] = c + 2 + Upto(q.members, n)
           /\ MemberAt(fs, c + 1)[Len(q.members)] > Len(fs)
<1> DEFINE M == q.members
           N == Len(M)
           i == c + 1
           Is(n) == c + 2 + Upto(M, n)
           at == MemberAt(fs, i)
<1>1. M \in Seq(Seq(Writable)) /\ N \in Nat
  <2>1. M \in Seq(Seq(Writable))
    BY PointType
  <2> HIDE DEF M
  <2> QED BY <2>1
<1>2. Count(fs, i) = N /\ Len(fs) \in Nat /\ Breaks(fs, i, FlattenSeq(M)) /\ FlattenSeq(M) \in Seq(Writable)
  <2>1. fs[i] = q.field /\ IsStruct(q) /\ Len(fs) \in Nat /\ Breaks(fs, i, FlattenSeq(M)) /\ FlattenSeq(M) \in Seq(Writable)
    BY PointBreaks
  <2>2. q.field.val[1] = N
    BY <2>1 DEF PointFits
  <2> QED BY <2>1, <2>2 DEF Count
<1>3. Is(0) = i + 1 /\ Upto(M, N) = Len(FlattenSeq(M))
  <2>1. Upto(M, 0) = 0 /\ Upto(M, N) = Len(FlattenSeq(M))
    <3> HIDE DEF M
    <3> QED BY <1>1, UptoEnds
  <2> QED BY <2>1
<1>4. \A n \in 1 .. N : Is(n - 1) <= Len(fs) =>
         MemberEnd(fs, i, Is(n - 1)) > Len(fs) \/ MemberEnd(fs, i, Is(n - 1)) = Is(n)
  BY MemberBreaks
<1>5. \A n \in 1 .. N : Is(n - 1) \in Int
  <2> TAKE n \in 1 .. N
  <2>1. Upto(M, n - 1) \in Nat
    <3> HIDE DEF M
    <3> QED BY <1>1, PartLies
  <2> QED BY <2>1
<1> HIDE DEF M, N, i, Is
<1>6. at[0] = i + 1 /\ \A n \in 1 .. N : at[n] = MemberEnd(fs, i, at[n - 1])
  BY <1>1, <1>2, MemberAtRec
<1> HIDE DEF at
<1> DEFINE T == {n \in 0 .. N : at[n] > Len(fs) \/ at[n] = Is(n)}
<1>7. 0 \in T
  BY <1>1, <1>3, <1>6
<1>8. \A n \in 0 .. N - 1 : n \in T => n + 1 \in T
  <2> SUFFICES ASSUME NEW n \in 0 .. N - 1, n \in T PROVE n + 1 \in T
    OBVIOUS
  <2> DEFINE m == n + 1
  <2>1. m \in 1 .. N /\ m \in 0 .. N /\ m - 1 = n
    BY <1>1
  <2>2. at[n] > Len(fs) \/ at[n] = Is(n)
    OBVIOUS
  <2> HIDE DEF m
  <2>3. at[m] = MemberEnd(fs, i, at[n])
    BY <1>6, <2>1
  <2>4. CASE at[n] > Len(fs)
    <3>1. at[m] = at[n]
      BY <2>3, <2>4 DEF MemberEnd
    <3>2. m \in T
      BY <2>1, <2>4, <3>1
    <3> QED BY <3>2 DEF m
  <2>5. CASE ~(at[n] > Len(fs))
    <3>1. at[n] = Is(n) /\ Is(n) \in Int
      BY <1>5, <2>1, <2>2, <2>5
    <3>2. Is(n) <= Len(fs)
      BY <1>2, <2>5, <3>1
    <3>3. at[m] > Len(fs) \/ at[m] = Is(m)
      BY <1>4, <2>1, <2>3, <3>1, <3>2
    <3>4. m \in T
      BY <2>1, <3>3
    <3> QED BY <3>4 DEF m
  <2> QED BY <2>4, <2>5
<1>9. 0 .. N \subseteq T
  <2> HIDE DEF T
  <2> QED BY <1>1, <1>7, <1>8, BoundedInduction
<1>10. at[N] > Len(fs)
  <2>1. N \in 0 .. N
    BY <1>1
  <2>2. at[N] > Len(fs) \/ at[N] = Is(N)
    BY <1>9, <2>1
  <2>3. Is(N) > Len(fs)
    <3> DEFINE h == FlattenSeq(M)
    <3>1. h \in Seq(Writable) /\ Len(fs) < i + Len(h) /\ Is(N) = c + 2 + Len(h)
      BY <1>2, <1>3 DEF Breaks, Is
    <3> HIDE DEF h
    <3>2. Len(h) \in Nat
      BY <3>1
    <3> QED BY <1>2, <3>1, <3>2 DEF i
  <2> QED BY <2>2, <2>3
<1> QED BY <1>2, <1>9, <1>10 DEF at, i, N, M, Is

\* Of a STRUCT that breaks off there are no members but its own.
LEMMA BrokenDict ==
    ASSUME NEW fs \in Seq(Writable), NEW c \in Nat, NEW q \in Points, PointFits(q),
           Breaks(fs, c, FieldsOfPoint(q)), c < Len(fs), q.field.id # Packs
    PROVE  LET dict == Dict(fs, Members(fs, c + 1))
               all == ByNumber(FlattenSeq(q.members))
           IN \A x \in DOMAIN dict : x \in DOMAIN all /\ dict[x] = all[x]
<1> DEFINE M == q.members
           N == Len(M)
           h == FlattenSeq(M)
           i == c + 1
           W == Members(fs, i)
           H == ToSet(h)
           at == MemberAt(fs, i)
           last(x) == CHOOSE k \in W : fs[k].id = x /\ \A l \in W : fs[l].id = x => l <= k
           one(x) == CHOOSE f \in H : f.id = x
<1>1. /\ i \in 1 .. Len(fs) /\ Len(fs) \in Nat /\ IsStruct(q) /\ Breaks(fs, i, h) /\ h \in Seq(Writable)
  BY PointBreaks
<1>2. M \in Seq(Seq(Writable)) /\ N \in Nat
  <2>1. M \in Seq(Seq(Writable))
    BY PointType
  <2> HIDE DEF M
  <2> QED BY <2>1
<1>3. PlainFields(h)
  BY <1>1 DEF PointFits, MembersFit
<1>4. Count(fs, i) = N /\ \A n \in 0 .. N : at[n] > Len(fs) \/ at[n] = c + 2 + Upto(M, n)
  BY MembersBreak
<1>5. \A n \in 0 .. N - 1 : Upto(M, n) \in Nat
  <2> TAKE n \in 0 .. N - 1
  <2> DEFINE m == n + 1
  <2>1. m \in 1 .. N /\ m - 1 = n
    BY <1>2
  <2> HIDE DEF M, m
  <2>2. Upto(M, m - 1) \in Nat
    BY <1>2, <2>1, PartLies
  <2> QED BY <2>1, <2>2
<1>6. \A k \in W : k \in 1 .. Len(fs) /\ k >= i + 1
  <2> TAKE k \in W
  <2> HIDE DEF at, M, i
  <2>1. W = {at[n] : n \in 0 .. N - 1} \cap DOMAIN fs
    BY <1>4 DEF Members, at
  <2> HIDE DEF W
  <2>2. PICK n \in 0 .. N - 1 : k = at[n]
    BY <2>1
  <2>3. k \in 1 .. Len(fs)
    <3>1. DOMAIN fs = 1 .. Len(fs)
      BY LenProperties
    <3> QED BY <2>1, <3>1
  <2>4. n \in 0 .. N
    BY <1>2
  <2>5. k = c + 2 + Upto(M, n)
    BY <1>1, <1>4, <2>2, <2>3, <2>4
  <2>6. k >= i + 1
    BY <1>5, <2>5 DEF i
  <2> QED BY <2>3, <2>6
<1> HIDE DEF M, h, W, N, at
<1>7. Len(h) \in Nat /\ DOMAIN h = 1 .. Len(h)
  BY <1>1, LenProperties
<1>8. \A k \in W : k - i \in 1 .. Len(h) /\ fs[k] = h[k - i]
  <2> TAKE k \in W
  <2> DEFINE l == k - i
  <2>1. l \in 1 .. Len(fs) - i /\ i + l = k /\ l \in 1 .. Len(h)
    <3>1. Len(fs) < i + Len(h) /\ i \in Nat /\ k \in Nat /\ k <= Len(fs) /\ k >= i + 1
      BY <1>1, <1>6 DEF Breaks
    <3> HIDE DEF i
    <3> QED BY <1>1, <1>7, <3>1
  <2> HIDE DEF l, i
  <2>2. fs[i + l] = h[l]
    BY <1>1, <2>1 DEF Breaks
  <2> QED BY <2>1, <2>2 DEF l
<1>9. \A k, l \in W : fs[k].id = fs[l].id => k = l
  <2> TAKE k, l \in W
  <2> DEFINE a == k - i
             b == l - i
  <2>1. a \in 1 .. Len(h) /\ b \in 1 .. Len(h) /\ fs[k] = h[a] /\ fs[l] = h[b] /\ k \in Int /\ l \in Int
    BY <1>6, <1>8
  <2>2. a = b => k = l
    BY <1>1, <2>1
  <2> HIDE DEF a, b
  <2> QED BY <1>3, <1>7, <2>1, <2>2 DEF PlainFields
<1> HIDE DEF i
<1>10. ASSUME NEW k \in W PROVE last(fs[k].id) = k /\ fs[k] \in H /\ one(fs[k].id) = fs[k]
  <2> DEFINE x == fs[k].id
             l == k - i
  <2>1. last(x) = k
    <3>1. fs[k].id = x /\ \A y \in W : fs[y].id = x => y <= k
      <4>1. \A y \in W : fs[y].id = x => y = k /\ y <= k
        BY <1>6, <1>9
      <4> QED BY <4>1
    <3> HIDE DEF x
    <3> QED BY <1>9, <3>1
  <2>2. l \in 1 .. Len(h) /\ fs[k] = h[l]
    BY <1>8
  <2> HIDE DEF l
  <2>3. fs[k] \in H
    BY <1>7, <2>2 DEF ToSet
  <2>4. \A f \in H : f.id = x => f = fs[k]
    <3> TAKE f \in H
    <3>1. PICK m \in 1 .. Len(h) : f = h[m]
      BY <1>7 DEF ToSet
    <3> QED BY <1>3, <1>7, <2>2, <3>1 DEF PlainFields
  <2> HIDE DEF H
  <2>5. one(x) = fs[k]
    BY <2>3, <2>4
  <2> QED BY <2>1, <2>3, <2>5 DEF H
<1> DEFINE I == {fs[k].id : k \in W}
           J == {f.id : f \in H}
           dict == Dict(fs, W)
           all == ByNumber(h)
<1>11. dict = [x \in I |-> Leaf(fs[last(x)])] /\ all = [x \in J |-> Leaf(one(x))]
  BY DEF Dict, ByNumber
<1> HIDE DEF last, one, H, dict, all
<1>12. ASSUME NEW x \in DOMAIN dict PROVE x \in DOMAIN all /\ dict[x] = all[x]
  <2>1. PICK k \in W : x = fs[k].id
    BY <1>11
  <2>2. x \in I /\ x \in J
    BY <1>10, <2>1
  <2> HIDE DEF I, J
  <2>3. dict[x] = Leaf(fs[k]) /\ all[x] = Leaf(fs[k])
    BY <1>10, <1>11, <2>1, <2>2
  <2> QED BY <1>11, <2>2, <2>3
<1> QED BY <1>12 DEF dict, all, W, h, M, i

-----------------------------------------------------------------------------
(* What the dictionary holds was reported.                                    *)

\* An entry says what a point means, or less of the members.
SaidBy(S, id, entry) == \E q \in S : Known(q) /\ q.field.id = id /\ LessOf(entry, Meaning(q))
Reported(kv, S) == \A id \in DOMAIN kv : id # Packs => SaidBy(S, id, kv[id])

LEMMA SetReported ==
    ASSUME NEW S, NEW kv, Reported(kv, S), NEW id, NEW entry, id # Packs => SaidBy(S, id, entry)
    PROVE  Reported(Set(kv, id, entry), S)
<1> DEFINE new == Set(kv, id, entry)
<1>1. DOMAIN new = DOMAIN kv \cup {id} /\ new[id] = entry /\ \A x \in DOMAIN kv \ {id} : new[x] = kv[x]
  BY DEF Set
<1> HIDE DEF new
<1>2. ASSUME NEW x \in DOMAIN new, x # Packs PROVE SaidBy(S, x, new[x])
  <2>1. CASE x = id
    BY <1>1, <1>2, <2>1
  <2>2. CASE x # id
    BY <1>1, <1>2, <2>2 DEF Reported
  <2> QED BY <2>1, <2>2
<1> QED BY <1>2 DEF Reported, new

\* A point that came whole.
LEMMA PutsReported ==
    ASSUME NEW S, NEW kv, Reported(kv, S), NEW q \in S
    PROVE  Reported(Puts(kv, q).kv, S)
<1> DEFINE id == q.field.id
           mean == Meaning(q)
           list == Entry("list", Get(kv, id).of \o mean.of)
           new == Puts(kv, q).kv
<1>1. \/ new = kv
      \/ new = Set(kv, id, list) /\ mean.shape = "list"
      \/ new = Set(kv, id, mean) /\ Known(q)
  BY PutsIs
<1>2. mean.shape = "list" => id = Packs
  BY MeaningShape
<1>3. Known(q) => SaidBy(S, id, mean)
  BY DEF SaidBy, LessOf
<1> HIDE DEF new, mean, list, id
<1>4. Reported(new, S)
  BY <1>1, <1>2, <1>3, SetReported
<1> QED BY <1>4 DEF new

\* A STRUCT that breaks off, behind which there is nothing.
LEMMA BrokenReported ==
    ASSUME NEW fs \in Seq(Writable), NEW c \in Nat, NEW q \in Points, PointFits(q),
           Breaks(fs, c, FieldsOfPoint(q)), c < Len(fs), Known(q), NEW S, q \in S, NEW kv, Reported(kv, S)
    PROVE  StepOver(fs, c + 1) > Len(fs) /\ Reported(Put(fs, kv, c + 1).kv, S)
<1> DEFINE i == c + 1
           id == q.field.id
           packs == PacksIn(fs, i)
           old == Get(kv, id)
           list == Entry("list", old.of \o packs)
           members == Dict(fs, Members(fs, i))
           all == ByNumber(FlattenSeq(q.members))
           dict == Entry("dict", members)
<1>1. i \in 1 .. Len(fs) /\ fs[i] = q.field /\ IsStruct(q)
  BY PointBreaks
<1>2. fs[i].type = "STRUCT" /\ fs[i].id \in TslTop /\ fs[i].id = id
  BY <1>1 DEF IsStruct, Known
<1>3. StepOver(fs, i) > Len(fs)
  <2>1. StepOver(fs, i) = MemberAt(fs, i)[Len(q.members)]
    BY <1>2, MembersBreak DEF StepOver
  <2> QED BY <2>1, MembersBreak
<1>4. id # Packs => packs = <<>>
  BY <1>1, <1>2, NoPacks
<1>5. id # Packs => SaidBy(S, id, dict)
  <2> SUFFICES ASSUME id # Packs PROVE SaidBy(S, id, dict)
    OBVIOUS
  <2>1. \A x \in DOMAIN members : x \in DOMAIN all /\ members[x] = all[x]
    BY BrokenDict
  <2>2. Meaning(q) = Entry("dict", all)
    BY <1>1 DEF Meaning
  <2> HIDE DEF members, all
  <2>3. dict.shape = "dict" /\ dict.of = members /\ Meaning(q).shape = "dict" /\ Meaning(q).of = all
    BY <2>2 DEF Entry
  <2> HIDE DEF dict
  <2>4. LessOf(dict, Meaning(q))
    BY <2>1, <2>3 DEF LessOf
  <2> QED BY <2>4 DEF SaidBy
<1>6. Put(fs, kv, i).kv = IF packs # <<>> THEN Set(kv, id, list) ELSE IF old.shape = "list" THEN kv ELSE Set(kv, id, dict)
  <2>1. Put(fs, kv, i) = PutStruct(fs, kv, i)
    BY <1>2 DEF Put
  <2>2. PutStruct(fs, kv, i).kv =
           IF packs # <<>> THEN Set(kv, id, list) ELSE IF old.shape = "list" THEN kv ELSE Set(kv, id, dict)
    BY <1>2 DEF PutStruct
  <2> QED BY <2>1, <2>2
<1> HIDE DEF packs, list, dict, old
<1>7. Reported(Put(fs, kv, i).kv, S)
  <2>1. id = Packs => Reported(Set(kv, id, list), S)
    BY SetReported
  <2>2. Reported(Set(kv, id, dict), S)
    BY <1>5, SetReported
  <2> HIDE DEF id
  <2> QED BY <1>4, <1>6, <2>1, <2>2
<1> QED BY <1>3, <1>7

-----------------------------------------------------------------------------
(* Where the loop stands among the packets of a read.                         *)

\* From its m-th field on, a report lies in the fields behind c as far as they go, and
\* behind its end begins the next.
Begun(s, d) == \E n \in 1 .. Len(s) : s[n].i = 1 /\ Upto(SentParts(s), n - 1) = d
Continued(s, r, c, m) ==
    /\ \A l \in m .. Len(FieldsOf[r]) : c + l <= Len(Sent(s)) => Sent(s)[c + l] = FieldsOf[r][l]
    /\ c + Len(FieldsOf[r]) < Len(Sent(s)) => Begun(s, c + Len(FieldsOf[r]))

LEMMA BegunBehind ==
    ASSUME NEW s \in Seq(StatusPackets), Chain(s), NEW n \in 1 .. Len(s), s[n].j = Len(FieldsOf[s[n].r]),
           Upto(SentParts(s), n) < Len(Sent(s))
    PROVE  Begun(s, Upto(SentParts(s), n))
<1> DEFINE SP == SentParts(s)
           A == Sent(s)
           k == n + 1
           p == s[n]
           q == s[k]
<1>1. SP \in Seq(Seq(Writable)) /\ Len(SP) = Len(s) /\ A = FlattenSeq(SP) /\ A \in Seq(Writable)
  BY SentType
<1>2. Upto(SP, Len(s)) = Len(A) /\ Len(A) \in Nat /\ Len(s) \in Nat
  <2>1. Len(s) \in Nat
    OBVIOUS
  <2> HIDE DEF SP, A
  <2>2. Len(A) \in Nat
    BY <1>1
  <2> QED BY <1>1, <2>1, <2>2, UptoEnds
<1>3. n # Len(s)
  BY <1>2
<1>4. n \in 1 .. Len(s) - 1 /\ k \in 1 .. Len(s) /\ k - 1 = n
  BY <1>2, <1>3
<1>5. Linked(p, q)
  BY <1>4 DEF Chain
<1> HIDE DEF k
<1>6. p \in StatusPackets /\ q \in StatusPackets
  BY <1>4, ElementOfSeq
<1>7. p.j = Len(FieldsOf[p.r])
  OBVIOUS
<1> HIDE DEF p, q, SP, A
<1>8. q.cmd = "status" /\ q.i \in Nat /\ q.j \in Nat /\ q.i <= q.j
  BY <1>6, SMTT(30) DEF StatusPackets
<1>9. ~Continues(p, q)
  <2> SUFFICES ASSUME Continues(p, q) PROVE FALSE
    OBVIOUS
  <2>1. q.r = p.r /\ q.i = p.j + 1 /\ q.j = Len(FieldsOf[q.r])
    BY DEF Continues
  <2>2. q.i = q.j + 1
    BY <1>7, <2>1
  <2> QED BY <1>8, <2>2
<1>10. q.i = 1
  BY <1>5, <1>8, <1>9 DEF Linked, Begins
<1> QED BY <1>4, <1>10 DEF Begun, SP, q

LEMMA PacketContinues ==
    ASSUME NEW s \in Seq(StatusPackets), Chain(s), NEW n \in 1 .. Len(s)
    PROVE  Continued(s, s[n].r, Upto(SentParts(s), n - 1) - (s[n].i - 1), s[n].i)
<1> DEFINE SP == SentParts(s)
           A == Sent(s)
           p == s[n]
           u == Upto(SP, n - 1)
           w == Upto(SP, n)
           F == FieldsOf[p.r]
           L == Len(F)
           i == p.i
           j == p.j
           c == u - (i - 1)
           o == Len(A)
<1>1. SP \in Seq(Seq(Writable)) /\ Len(SP) = Len(s) /\ A = FlattenSeq(SP) /\ A \in Seq(Writable)
  BY SentType
<1>2. /\ u \in Nat /\ w = u + (j - i + 1) /\ w <= o
      /\ p \in StatusPackets /\ p.r \in DOMAIN Reports /\ i \in Nat /\ j \in Nat /\ 1 <= i /\ i <= j /\ j <= L
      /\ \A l \in i .. j : A[u + (l - i + 1)] = F[l]
  BY PacketLies
<1>3. L \in Nat /\ o \in Nat /\ Len(s) \in Nat
  <2>1. F \in Seq(Writable) /\ Len(s) \in Nat
    BY <1>2, FieldsOfType
  <2> HIDE DEF F, A
  <2> QED BY <1>1, <2>1
<1>4. Upto(SP, Len(s)) = o
  <2> HIDE DEF SP, A
  <2> QED BY <1>1, UptoEnds
<1>5. (w < o /\ j = L) => Begun(s, w)
  BY BegunBehind
<1>p. p.cmd = "status"
  BY <1>2, SMTT(30) DEF StatusPackets
<1>c. c = u - (i - 1)
  OBVIOUS
<1> HIDE DEF c
<1> SUFFICES Continued(s, p.r, c, i)
  BY <1>c
<1> HIDE DEF SP, A, u, w, F, L, i, j, o
<1>6. c \in Int /\ w = c + j
  BY <1>2, <1>c
<1>7. ASSUME NEW l \in i .. j PROVE A[c + l] = F[l]
  <2>1. c + l = u + (l - i + 1)
    BY <1>2, <1>c
  <2> QED BY <1>2, <2>1
<1>8. CASE j = L
  <2>1. \A l \in i .. L : c + l <= o => A[c + l] = F[l]
    BY <1>7, <1>8
  <2>2. c + L < o => Begun(s, c + L)
    BY <1>5, <1>6, <1>8
  <2> QED BY <2>1, <2>2 DEF Continued, L, F, A, o
<1>9. CASE j # L /\ n = Len(s)
  <2>1. c + j = o
    BY <1>4, <1>6, <1>9 DEF w
  <2>2. \A l \in i .. L : c + l <= o => A[c + l] = F[l]
    <3> SUFFICES ASSUME NEW l \in i .. L, c + l <= o PROVE A[c + l] = F[l]
      OBVIOUS
    <3>1. l \in i .. j
      BY <1>2, <1>3, <1>6, <2>1
    <3> QED BY <1>7, <3>1
  <2>3. ~(c + L < o)
    BY <1>2, <1>3, <1>6, <1>9, <2>1
  <2> QED BY <2>2, <2>3 DEF Continued, L, F, A, o
<1>10. CASE j # L /\ n # Len(s)
  <2> DEFINE k == n + 1
             q == s[k]
             z == Upto(SP, k)
  <2>1. n \in 1 .. Len(s) - 1 /\ k \in 1 .. Len(s) /\ k - 1 = n
    BY <1>3, <1>10
  <2>2. Linked(p, q)
    BY <2>1 DEF Chain
  <2> HIDE DEF k
  <2>3. Continues(p, q)
    BY <1>10, <1>p, <2>2 DEF Linked, Complete, L, F, j
  <2>4. q.r = p.r /\ q.i = j + 1 /\ q.j = L
    BY <2>3 DEF Continues, L, F, j
  <2>5. /\ z = w + (q.j - q.i + 1) /\ z <= o
        /\ \A l \in q.i .. q.j : A[w + (l - q.i + 1)] = FieldsOf[q.r][l]
    BY <2>1, PacketLies DEF SP, A, w, o
  <2>6. (z < o /\ q.j = Len(FieldsOf[q.r])) => Begun(s, z)
    BY <2>1, BegunBehind DEF SP, A, o
  <2> HIDE DEF q, z, p
  <2>7. z = c + L
    BY <1>2, <1>3, <1>6, <2>4, <2>5
  <2>8. \A l \in i .. L : c + l <= o => A[c + l] = F[l]
    <3> SUFFICES ASSUME NEW l \in i .. L PROVE A[c + l] = F[l]
      OBVIOUS
    <3>1. CASE l <= j
      <4>1. l \in i .. j
        BY <1>2, <3>1
      <4> QED BY <1>7, <4>1
    <3>2. CASE ~(l <= j)
      <4>1. l \in q.i .. q.j /\ w + (l - q.i + 1) = c + l
        BY <1>2, <1>3, <1>6, <2>4, <3>2
      <4> QED BY <2>4, <2>5, <4>1 DEF F
    <3> QED BY <3>1, <3>2
  <2>9. c + L < o => Begun(s, c + L)
    BY <2>4, <2>6, <2>7 DEF L, F
  <2> QED BY <2>8, <2>9 DEF Continued, L, F, A, o
<1> QED BY <1>8, <1>9, <1>10

\* At x the loop has a point of a report before it, whose rest follows; or it has ended.
StandsAt(s, x) ==
    \/ x > Len(Sent(s))
    \/ \E r \in Came(s) : \E k \in 1 .. Len(Reports[r]) : \E c \in Int :
          /\ x = PointEnd(r, c, k - 1) + 1 /\ x >= 1
          /\ Continued(s, r, c, Upto(FieldsOfPoints(Reports[r]), k - 1) + 1)

LEMMA BegunStands ==
    ASSUME NEW s \in Seq(StatusPackets), Chain(s), NEW d, Begun(s, d)
    PROVE  StandsAt(s, d + 1)
<1>1. PICK n \in 1 .. Len(s) : s[n].i = 1 /\ Upto(SentParts(s), n - 1) = d
  BY DEF Begun
<1> DEFINE p == s[n]
           r == p.r
           R == Reports[r]
           P == FieldsOfPoints(R)
<1>2. d \in Nat /\ r \in DOMAIN Reports
  BY <1>1, PacketLies
<1>3. r \in Came(s)
  <2>1. DOMAIN s = 1 .. Len(s)
    BY LenProperties
  <2> QED BY <2>1 DEF Came
<1>4. Continued(s, r, d, 1)
  <2> DEFINE c == Upto(SentParts(s), n - 1) - (s[n].i - 1)
  <2>1. Continued(s, r, c, s[n].i)
    BY PacketContinues
  <2>2. c = d
    BY <1>1, <1>2
  <2> QED BY <1>1, <2>1, <2>2
<1> HIDE DEF r
<1>5. Upto(P, 0) = 0 /\ 1 \in 1 .. Len(R)
  <2>1. P \in Seq(Seq(Writable)) /\ Len(R) \in Nat /\ Len(R) >= 1
    BY <1>2, PointsType
  <2> HIDE DEF P, R
  <2> QED BY <2>1, UptoEnds
<1> HIDE DEF P, R
<1> DEFINE k == 1
<1>6. k \in 1 .. Len(R) /\ Upto(P, k - 1) = 0
  BY <1>5
<1> HIDE DEF k
<1>7. d + 1 = PointEnd(r, d, k - 1) + 1 /\ d + 1 >= 1 /\ Continued(s, r, d, Upto(P, k - 1) + 1)
  <2>1. PointEnd(r, d, k - 1) = d + Upto(P, k - 1)
    BY DEF PointEnd, P, R
  <2>2. Upto(P, k - 1) + 1 = 1 /\ d + 1 = d + Upto(P, k - 1) + 1 /\ d + 1 >= 1
    BY <1>2, <1>6
  <2> QED BY <1>4, <2>1, <2>2
<1>8. d \in Int
  BY <1>2
<1> QED BY <1>3, <1>6, <1>7, <1>8 DEF StandsAt, P, R

\* It starts so, if the first packet begins with a point.
LEMMA StartStands ==
    ASSUME NEW s \in Seq(StatusPackets), Chain(s), BeginsWithPoint(s)
    PROVE  StandsAt(s, 1)
<1>1. CASE s = <<>>
  <2>1. Len(Sent(<<>>)) = 0
    <3>1. Sent(<<>>) = <<>>
      BY TookNothing DEF Took
    <3> QED BY <3>1
  <2>2. 1 > Len(Sent(s))
    BY <1>1, <2>1
  <2> QED BY <2>2 DEF StandsAt
<1>2. CASE s # <<>>
  <2> DEFINE n == 1
             p == s[n]
             r == p.r
             R == Reports[r]
             P == FieldsOfPoints(R)
             F == FieldsOf[r]
             c == Upto(SentParts(s), n - 1) - (s[n].i - 1)
  <2>1. n \in 1 .. Len(s) /\ DOMAIN s = 1 .. Len(s) /\ Head(s) = p
    BY <1>2, LenProperties, HeadTailProperties
  <2>2. Upto(SentParts(s), n - 1) = 0
    <3>1. SentParts(s) \in Seq(Seq(Writable)) /\ n - 1 = 0
      BY SentType
    <3> QED BY <3>1, UptoEnds
  <2> HIDE DEF n
  <2>3. r \in DOMAIN Reports /\ p.i \in Nat /\ 1 <= p.i /\ p.i <= p.j /\ p.j <= Len(F) /\ p.j \in Nat
    BY <2>1, PacketLies
  <2>4. r \in Came(s) /\ Continued(s, r, c, p.i)
    BY <2>1, PacketContinues DEF Came
  <2>5. c = 0 - (p.i - 1)
    BY <2>2
  <2>6. PICK k \in 0 .. Len(R) : p.i = Len(FlattenSeq(FieldsOfPoints(SubSeq(R, 1, k)))) + 1
    BY <1>2, <2>1, <2>3 DEF BeginsWithPoint, Starts
  <2> HIDE DEF p, c
  <2>7. /\ P \in Seq(Seq(Writable)) /\ Len(P) = Len(R) /\ Len(R) \in Nat /\ F = FlattenSeq(P)
        /\ R \in Seq(Points)
    BY <2>3, PointsType, ReportsType
  <2>8. FieldsOfPoints(SubSeq(R, 1, k)) = SubSeq(P, 1, k)
    <3> DEFINE a == SubSeq(R, 1, k)
               Q == FieldsOfPoints(a)
               b == SubSeq(P, 1, k)
    <3>1. k \in Nat /\ k <= Len(R)
      BY <2>7
    <3>2. P = [m \in DOMAIN R |-> FieldsOfPoint(R[m])] /\ Q = [m \in DOMAIN a |-> FieldsOfPoint(a[m])]
      BY DEF FieldsOfPoints
    <3> HIDE DEF Q, P, R
    <3>3. DOMAIN R = 1 .. Len(R) /\ (\A m \in 1 .. k : R[m] \in Points) /\ (\A m \in 1 .. k : P[m] \in Seq(Writable))
      <4>1. \A m \in 1 .. k : m \in 1 .. Len(R)
        BY <2>7, <3>1
      <4> QED BY <2>7, <4>1, LenProperties, ElementOfSeq
    <3>4. a \in Seq(Points) /\ Len(a) = k /\ \A m \in 1 .. k : a[m] = R[m]
      BY <3>1, <3>3, SubSeqProperties
    <3>5. b \in Seq(Seq(Writable)) /\ Len(b) = k /\ \A m \in 1 .. k : b[m] = P[m]
      <4> DEFINE Z == Seq(Writable)
      <4>1. \A m \in 1 .. k : P[m] \in Z
        BY <3>3
      <4> HIDE DEF Z
      <4>2. b \in Seq(Z) /\ Len(b) = k /\ \A m \in 1 .. k : b[m] = P[m]
        BY <3>1, <4>1, SubSeqProperties
      <4> QED BY <4>2 DEF Z
    <3>6. DOMAIN a = 1 .. k /\ DOMAIN b = 1 .. k
      BY <3>4, <3>5, LenProperties
    <3> HIDE DEF a, b
    <3>7. \A m \in 1 .. k : b[m] = FieldsOfPoint(a[m])
      <4> TAKE m \in 1 .. k
      <4>1. m \in DOMAIN R
        BY <2>7, <3>1, <3>3
      <4>2. P[m] = FieldsOfPoint(R[m])
        BY <3>2, <4>1
      <4> QED BY <3>4, <3>5, <4>2
    <3>8. b = [m \in 1 .. k |-> b[m]]
      <4>1. b = [m \in DOMAIN b |-> b[m]]
        BY <3>5, LenProperties
      <4> QED BY <3>6, <4>1
    <3>9. Q = b
      BY <3>2, <3>6, <3>7, <3>8
    <3> QED BY <3>9 DEF Q, a, b
  <2>9. p.i = Upto(P, k) + 1
    BY <2>6, <2>8 DEF Upto
  <2>10. Upto(P, Len(R)) = Len(F)
    <3> HIDE DEF P, R, F
    <3> QED BY <2>7, UptoEnds
  <2> DEFINE l == k + 1
  <2>11. l \in 1 .. Len(R) /\ l - 1 = k
    <3>1. k # Len(R)
      <4> SUFFICES ASSUME k = Len(R) PROVE FALSE
        OBVIOUS
      <4>1. Len(F) \in Nat
        <5>1. F \in Seq(Writable)
          BY <2>3, FieldsOfType
        <5> HIDE DEF F
        <5> QED BY <5>1
      <4>2. p.i = Len(F) + 1
        BY <2>9, <2>10
      <4> HIDE DEF F
      <4> QED BY <2>3, <4>1, <4>2
    <3> QED BY <2>7, <3>1
  <2> HIDE DEF l
  <2>12. 1 = PointEnd(r, c, l - 1) + 1 /\ Continued(s, r, c, Upto(P, l - 1) + 1)
    <3>1. PointEnd(r, c, l - 1) = c + Upto(P, k)
      BY <2>11 DEF PointEnd
    <3>2. Upto(P, k) \in Nat
      <4>1. l \in 1 .. Len(P)
        BY <2>7, <2>11
      <4> HIDE DEF P
      <4>2. Upto(P, l - 1) \in Nat
        BY <2>7, <4>1, PartLies
      <4> QED BY <2>11, <4>2
    <3>3. 1 = c + Upto(P, k) + 1
      <4> DEFINE u == Upto(P, k)
      <4>1. u \in Nat /\ p.i = u + 1
        BY <2>9, <3>2
      <4> HIDE DEF u
      <4>2. 1 = c + u + 1
        BY <2>5, <4>1
      <4> QED BY <4>2 DEF u
    <3> QED BY <2>4, <2>9, <2>11, <3>1, <3>3
  <2>13. c \in Int
    BY <2>3, <2>5
  <2> HIDE DEF r
  <2>14. 1 >= 1
    OBVIOUS
  <2> QED BY <2>4, <2>11, <2>12, <2>13, <2>14 DEF StandsAt
<1> QED BY <1>1, <1>2

\* From there a round leads to the next such place, and puts what was reported.
Told(s) == UNION {ToSet(Reports[r]) : r \in Came(s)}

LEMMA StandStep ==
    ASSUME NEW s \in Seq(StatusPackets), Chain(s), Came(s) \subseteq AllKnown,
           NEW x, StandsAt(s, x), ~(x > Len(Sent(s))), NEW kv, Reported(kv, Told(s))
    PROVE  StandsAt(s, StepOver(Sent(s), x)) /\ Reported(Put(Sent(s), kv, x).kv, Told(s))
<1> DEFINE fs == Sent(s)
           o == Len(fs)
<1>0. fs \in Seq(Writable) /\ o \in Nat
  <2>1. fs \in Seq(Writable)
    BY SentType
  <2> HIDE DEF fs
  <2> QED BY <2>1
<1>r. PICK r \in Came(s) : \E k \in 1 .. Len(Reports[r]) : \E c \in Int :
         /\ x = PointEnd(r, c, k - 1) + 1 /\ x >= 1
         /\ Continued(s, r, c, Upto(FieldsOfPoints(Reports[r]), k - 1) + 1)
  BY DEF StandsAt
<1>p. PICK k \in 1 .. Len(Reports[r]) : \E c \in Int :
         /\ x = PointEnd(r, c, k - 1) + 1 /\ x >= 1
         /\ Continued(s, r, c, Upto(FieldsOfPoints(Reports[r]), k - 1) + 1)
  BY <1>r
<1>1. PICK c \in Int :
         /\ x = PointEnd(r, c, k - 1) + 1 /\ x >= 1
         /\ Continued(s, r, c, Upto(FieldsOfPoints(Reports[r]), k - 1) + 1)
  BY <1>p
<1> DEFINE R == Reports[r]
           P == FieldsOfPoints(R)
           F == FieldsOf[r]
           L == Len(F)
           q == R[k]
           b == FieldsOfPoint(q)
           l == Len(b)
           u == Upto(P, k - 1)
           v == Upto(P, k)
           d == c + u
<1>2. r \in DOMAIN Reports /\ \A p \in ToSet(R) : IsStruct(p) => Known(p)
  BY DEF AllKnown
<1>3. q \in Points /\ PointFits(q) /\ q \in ToSet(R) /\ R \in Seq(Points)
  <2>1. q \in Points /\ PointFits(q) /\ R \in Seq(Points)
    BY <1>2, ReportsType
  <2>2. k \in DOMAIN R
    <3>1. DOMAIN R = 1 .. Len(R)
      <4> HIDE DEF R
      <4> QED BY <2>1, LenProperties
    <3> QED BY <3>1
  <2> QED BY <2>1, <2>2 DEF ToSet
<1>4. q \in Told(s) /\ (IsStruct(q) => Known(q))
  BY <1>2, <1>3 DEF Told
<1>5. /\ P \in Seq(Seq(Writable)) /\ Len(P) = Len(R) /\ Len(R) \in Nat /\ P[k] = b /\ F = FlattenSeq(P)
      /\ l \in Nat /\ l >= 1 /\ b \in Seq(Writable) /\ F \in Seq(Writable) /\ L \in Nat
  <2>1. /\ P \in Seq(Seq(Writable)) /\ Len(P) = Len(R) /\ Len(R) \in Nat /\ P[k] = b /\ F = FlattenSeq(P)
        /\ l \in Nat /\ l >= 1
    BY <1>2, PointsType
  <2>2. b \in Seq(Writable) /\ F \in Seq(Writable)
    BY <1>2, <1>3, PointType, FieldsOfType
  <2>3. L \in Nat
    <3> HIDE DEF F
    <3> QED BY <2>2
  <2> QED BY <2>1, <2>2, <2>3
<1>k. k \in 1 .. Len(R) /\ k \in 1 .. Len(P)
  BY <1>5
<1>6. u \in Nat /\ v = u + l /\ v <= L /\ Lies(F, u, b) /\ Upto(P, Len(R)) = L
  <2> HIDE DEF P, F, R, b
  <2>1. u \in Nat /\ v = u + Len(P[k]) /\ Lies(FlattenSeq(P), u, P[k]) /\ v <= Len(FlattenSeq(P))
    BY <1>5, <1>k, PartLies
  <2>2. Upto(P, Len(P)) = Len(FlattenSeq(P))
    BY <1>5, UptoEnds
  <2> QED BY <1>5, <2>1, <2>2
<1>7. PointEnd(r, c, k - 1) = d /\ PointEnd(r, c, k) = c + v
  BY DEF PointEnd
<1>8. \A m \in u + 1 .. L : c + m <= o => fs[c + m] = F[m]
  BY <1>1 DEF Continued
<1>9. c + L < o => Begun(s, c + L)
  BY <1>1 DEF Continued
<1>a. x = d + 1 /\ x >= 1 /\ ~(x > o)
  BY <1>1, <1>7
<1> HIDE DEF R, P, F, q, b, u, v, fs, o, l, L
<1>10. d \in Nat /\ d < o /\ d + l = c + v /\ x = d + 1
  BY <1>0, <1>6, <1>a, <1>5
<1>11. \A m \in 1 .. l : d + m <= o => fs[d + m] = b[m]
  <2> TAKE m \in 1 .. l
  <2>1. u + m \in u + 1 .. L /\ c + (u + m) = d + m
    BY <1>5, <1>6
  <2>2. F[u + m] = b[m]
    BY <1>6 DEF Lies, l
  <2> HIDE DEF d
  <2> QED BY <1>8, <2>1, <2>2
<1> HIDE DEF d
<1>12. CASE d + l <= o
  <2>1. Lies(fs, d, b)
    <3>1. \A m \in 1 .. l : d + m <= o
      BY <1>0, <1>5, <1>10, <1>12
    <3> QED BY <1>11, <1>12, <3>1 DEF Lies, l, o
  <2>2. StepOver(fs, d + 1) = d + 1 + l
    BY <1>0, <1>3, <1>4, <1>10, <2>1, StepPoint DEF b, l
  <2>3. Put(fs, kv, d + 1) = Puts(kv, q)
    BY <1>0, <1>3, <1>10, <2>1, PutPoint DEF b
  <2>4. Reported(Put(fs, kv, x).kv, Told(s))
    BY <1>4, <1>10, <2>3, PutsReported
  <2>5. StepOver(fs, x) = c + v + 1 /\ c + v >= 0
    BY <1>5, <1>10, <2>2
  <2>6. CASE k < Len(R)
    <3> DEFINE n == k + 1
    <3>1. n \in 1 .. Len(R) /\ n - 1 = k
      BY <1>5, <1>k, <2>6
    <3> HIDE DEF n
    <3>2. c + v + 1 = PointEnd(r, c, n - 1) + 1 /\ c + v + 1 >= 1
      BY <1>5, <1>6, <1>7, <2>5, <3>1
    <3>3. Continued(s, r, c, v + 1)
      <4>1. \A m \in v + 1 .. L : m \in u + 1 .. L
        BY <1>5, <1>6
      <4> QED BY <1>8, <1>9, <4>1 DEF Continued, fs, o, F, L
    <3>4. Continued(s, r, c, Upto(FieldsOfPoints(Reports[r]), n - 1) + 1) /\ n \in 1 .. Len(Reports[r])
      BY <3>1, <3>3 DEF v, P, R
    <3>5. StandsAt(s, c + v + 1)
      BY <3>2, <3>4 DEF StandsAt
    <3> QED BY <2>4, <2>5, <3>5 DEF fs
  <2>7. CASE ~(k < Len(R))
    <3>1. k = Len(R)
      BY <1>5, <1>k, <2>7
    <3>2. v = L
      BY <1>6, <3>1 DEF v
    <3>3. CASE c + L < o
      <4> DEFINE e == c + L
      <4>1. Begun(s, e)
        BY <1>9, <3>3
      <4> HIDE DEF e
      <4>2. StandsAt(s, e + 1)
        BY <4>1, BegunStands
      <4> QED BY <2>4, <2>5, <3>2, <4>2 DEF e, fs
    <3>4. CASE ~(c + L < o)
      <4>1. c + v + 1 > o
        BY <1>0, <1>5, <3>2, <3>4
      <4> QED BY <2>4, <2>5, <4>1 DEF StandsAt, fs, o
    <3> QED BY <3>3, <3>4
  <2> QED BY <2>6, <2>7
<1>13. CASE ~(d + l <= o)
  <2>1. Breaks(fs, d, b)
    <3>1. d <= o /\ o < d + l
      BY <1>0, <1>5, <1>10, <1>13
    <3>2. \A m \in 1 .. o - d : m \in 1 .. l /\ d + m <= o
      BY <1>0, <1>5, <1>10, <3>1
    <3> QED BY <1>11, <3>1, <3>2 DEF Breaks, l, o
  <2>2. IsStruct(q)
    BY <1>0, <1>3, <1>10, <2>1, PointBreaks DEF b, o
  <2>3. StepOver(fs, d + 1) > Len(fs) /\ Reported(Put(fs, kv, d + 1).kv, Told(s))
    BY <1>0, <1>3, <1>4, <1>10, <2>1, <2>2, BrokenReported DEF b, o
  <2> QED BY <1>10, <2>3 DEF StandsAt, fs
<1> QED BY <1>12, <1>13

\* When the loop has ended, it has put nothing else.
LEMMA KvReported ==
    ASSUME NEW s \in Seq(StatusPackets), Chain(s), BeginsWithPoint(s), Came(s) \subseteq AllKnown
    PROVE  Reported(FieldsToKv(Sent(s)).kv, Told(s))
<1> DEFINE fs == Sent(s)
           N == Len(fs)
           Fine(done) == StandsAt(s, done.i) /\ Reported(done.kv, Told(s))
           T == {n \in 0 .. N : Fine(Rounds(fs)[n])}
<1>1. N \in Nat
  <2>1. fs \in Seq(Writable)
    BY SentType
  <2> HIDE DEF fs
  <2> QED BY <2>1
<1>2. Rounds(fs)[0] = Done(0, EmptyKv) /\ \A n \in 1 .. N : Rounds(fs)[n] = Onward(fs, Rounds(fs)[n - 1])
  BY <1>1, RoundsRec
<1>3. Fine(Rounds(fs)[0])
  <2>1. Done(0, EmptyKv).i = 1 /\ Done(0, EmptyKv).kv = EmptyKv
    BY DEF Done
  <2>2. DOMAIN EmptyKv = {}
    BY DEF EmptyKv
  <2>3. Reported(EmptyKv, Told(s))
    BY <2>2 DEF Reported
  <2> QED BY <1>2, <2>1, <2>3, StartStands
<1>4. ASSUME NEW done, Fine(done) PROVE Fine(Onward(fs, done))
  <2>1. CASE ~done.ok \/ done.i > N
    BY <1>4, <2>1 DEF Onward
  <2>2. CASE ~(~done.ok \/ done.i > N)
    <3> DEFINE x == done.i
               kv == done.kv
               put == Put(fs, kv, x)
    <3>1. StandsAt(s, x) /\ Reported(kv, Told(s)) /\ ~(x > Len(Sent(s)))
      BY <1>4, <2>2
    <3>2. Onward(fs, done) = [ok |-> put.ok, i |-> StepOver(fs, x), kv |-> put.kv]
      BY <2>2 DEF Onward, Round
    <3> HIDE DEF x, kv
    <3>3. StandsAt(s, StepOver(fs, x)) /\ Reported(put.kv, Told(s))
      BY <3>1, StandStep
    <3> HIDE DEF put, fs
    <3>4. Onward(fs, done).i = StepOver(fs, x) /\ Onward(fs, done).kv = put.kv
      BY <3>2
    <3> QED BY <3>3, <3>4
  <2> QED BY <2>1, <2>2
<1> HIDE DEF fs, N, Fine
<1>5. 0 \in T
  BY <1>1, <1>3
<1>6. \A n \in 0 .. N - 1 : n \in T => n + 1 \in T
  <2> SUFFICES ASSUME NEW n \in 0 .. N - 1, n \in T PROVE n + 1 \in T
    OBVIOUS
  <2> DEFINE m == n + 1
  <2>1. m \in 1 .. N /\ m \in 0 .. N /\ m - 1 = n
    BY <1>1
  <2>2. Fine(Rounds(fs)[n])
    OBVIOUS
  <2> HIDE DEF m, T
  <2>3. Fine(Rounds(fs)[m])
    BY <1>2, <1>4, <2>1, <2>2
  <2> QED BY <2>1, <2>3 DEF m, T
<1>7. N \in T
  <2>1. 0 .. N \subseteq T
    <3> HIDE DEF T
    <3> QED BY <1>1, <1>5, <1>6, BoundedInduction
  <2> QED BY <1>1, <2>1
<1> QED BY <1>7 DEF Fine, FieldsToKv, N, fs

-----------------------------------------------------------------------------
(* What an entity shows was reported.                                         *)

\* What a data point of a report means is under its number.
LEMMA ReportKvHas ==
    ASSUME NEW r \in DOMAIN Reports, NEW q \in ToSet(Reports[r]), Known(q)
    PROVE  Has(ReportKv[r], q)
<1> DEFINE R == Reports[r]
           id == q.field.id
           points == {p \in ToSet(R) : Known(p)}
           mean(x) == Meaning(CHOOSE p \in points : p.field.id = x)
           I == {p.field.id : p \in points}
           z == CHOOSE p \in points : p.field.id = id
<1>1. ReportKv[r] = [x \in I |-> mean(x)]
  BY DEF ReportKv
<1>2. ReportFits(R)
  BY ReportsType
<1>3. \A p \in points : p.field.id = id => p = q
  BY <1>2 DEF ReportFits, ToSet
<1>4. q \in points /\ id \in I
  OBVIOUS
<1>5. z = q
  <2> HIDE DEF points, id
  <2>1. \E p \in points : p.field.id = id
    BY <1>4 DEF id
  <2> QED BY <1>3, <2>1
<1>6. mean(id) = Meaning(z)
  OBVIOUS
<1> HIDE DEF z, mean, I, points
<1>7. id \in DOMAIN ReportKv[r] /\ ReportKv[r][id] = Meaning(q)
  BY <1>1, <1>4, <1>5, <1>6
<1> QED BY <1>7 DEF Has

\* What an entry has at a path is, or says less than, what it says no more than has
\* there.
LEMMA AtWithin ==
    ASSUME NEW kv, NEW path, At(kv, path) # <<>>, NEW all, path[1] \in DOMAIN all,
           LessOf(kv[path[1]], all[path[1]])
    PROVE  At(all, path) # <<>> /\ LessOf(At(kv, path)[1], At(all, path)[1])
<1> DEFINE id == path[1]
           here == Get(kv, id)
           there == Get(all, id)
<1>1. there = all[id]
  BY DEF Get
<1>2. id \in DOMAIN kv
  <2> SUFFICES ASSUME id \notin DOMAIN kv PROVE FALSE
    OBVIOUS
  <2>1. here.shape = "none"
    BY DEF Get, NoEntry, Entry
  <2> HIDE DEF id, here
  <2>2. At(kv, path) = <<>>
    BY <2>1 DEF At, here, id
  <2> QED BY <2>2
<1>3. here = kv[id]
  BY <1>2 DEF Get
<1>4. LessOf(here, there)
  BY <1>1, <1>3
<1> HIDE DEF here, there
<1>5. CASE here = there
  <2>1. At(all, path) = At(kv, path)
    BY <1>5 DEF At, here, there
  <2> QED BY <2>1 DEF LessOf
<1>6. CASE here # there
  <2>1. /\ here.shape = "dict" /\ there.shape = "dict"
        /\ \A x \in DOMAIN here.of : x \in DOMAIN there.of /\ here.of[x] = there.of[x]
    BY <1>4, <1>6 DEF LessOf
  <2>2. At(kv, path) =
           CASE Len(path) = 1 -> <<here>>
             [] Len(path) = 2 /\ Last(path) \in DOMAIN here.of -> <<here.of[path[2]]>>
             [] OTHER -> <<>>
    BY <2>1 DEF At, here
  <2>3. At(all, path) =
           CASE Len(path) = 1 -> <<there>>
             [] Len(path) = 2 /\ Last(path) \in DOMAIN there.of -> <<there.of[path[2]]>>
             [] OTHER -> <<>>
    BY <2>1 DEF At, there
  <2>4. CASE Len(path) = 1
    <3>1. At(kv, path) = <<here>> /\ At(all, path) = <<there>>
      BY <2>2, <2>3, <2>4
    <3> QED BY <1>4, <3>1
  <2>5. CASE Len(path) = 2 /\ Last(path) \in DOMAIN here.of
    <3>1. Last(path) = path[2]
      BY <2>5 DEF Last
    <3>2. path[2] \in DOMAIN there.of /\ here.of[path[2]] = there.of[path[2]]
      BY <2>1, <2>5, <3>1
    <3>3. At(kv, path) = <<here.of[path[2]]>> /\ At(all, path) = <<there.of[path[2]]>>
      BY <2>2, <2>3, <2>5, <3>1, <3>2
    <3> QED BY <3>2, <3>3 DEF LessOf
  <2> QED BY <2>2, <2>4, <2>5
<1> QED BY <1>5, <1>6

\* An entity that finds something finds what is at one of its paths.
LEMMA FoundIsThere ==
    ASSUME NEW e \in Entities, NEW kv, GetField(kv, Paths[e]) # <<>>
    PROVE  \E n \in DOMAIN Paths[e] : At(kv, Paths[e][n]) # <<>> /\ GetField(kv, Paths[e]) = At(kv, Paths[e][n])
<1> DEFINE p == Paths[e]
           found == {n \in DOMAIN p : At(kv, p[n]) # <<>>}
           m == Min(found)
<1>1. GetField(kv, p) = IF found = {} THEN <<>> ELSE At(kv, p[m])
  BY DEF GetField
<1>2. found \subseteq {1, 2}
  BY PathsAre
<1> HIDE DEF found
<1>4. found # {}
  BY <1>1
<1>5. m \in found
  <2>1. 1 =< 1 /\ 1 =< 2 /\ 2 =< 2
    OBVIOUS
  <2>2. \E x \in found : \A y \in found : x =< y
    <3>1. CASE 1 \in found
      <4>1. \A y \in found : 1 =< y
        BY <1>2, <2>1
      <4> QED BY <3>1, <4>1
    <3>2. CASE 1 \notin found
      <4>1. 2 \in found /\ \A y \in found : y = 2
        BY <1>2, <1>4, <3>2
      <4> QED BY <2>1, <4>1
    <3> QED BY <3>1, <3>2
  <2> QED BY <2>2 DEF Min, m
<1> HIDE DEF m
<1>6. m \in DOMAIN p /\ At(kv, p[m]) # <<>>
  BY <1>5 DEF found
<1>7. GetField(kv, p) = At(kv, p[m])
  BY <1>1, <1>4
<1> QED BY <1>6, <1>7

\* For any reports, in whatever parts their answers were read, an entity finds nothing
\* but what one of them has for one of its data points, of which only a STRUCT may be
\* short of members; if the first part begins with a data point and fields_to_kv knows
\* the STRUCTs.
THEOREM ShownWasReported == Spec => []ShownIsReported
<1>1. DataInv /\ ReadInv /\ ChainInv => ShownIsReported
  <2> SUFFICES ASSUME DataInv, ReadInv, ChainInv, BeginsWithPoint(source), Came(source) \subseteq AllKnown,
                      NEW e \in Entities, GetField(data, Paths[e]) # <<>>
               PROVE  \E r \in Came(source), path \in ToSet(Paths[e]) :
                         LET reported == At(ReportKv[r], path)
                         IN reported # <<>> /\ LessOf(GetField(data, Paths[e])[1], reported[1])
    BY DEF ShownIsReported
  <2>1. source \in Seq(StatusPackets) /\ Chain(source)
    BY DEF ReadInv, SourceInv, ChainInv
  <2>2. Reported(data, Told(source))
    <3>1. data = FieldsToKv(Sent(source)).kv
      BY DEF DataInv
    <3> QED BY <2>1, <3>1, KvReported
  <2>3. PICK n \in DOMAIN Paths[e] :
           At(data, Paths[e][n]) # <<>> /\ GetField(data, Paths[e]) = At(data, Paths[e][n])
    BY FoundIsThere
  <2> DEFINE path == Paths[e][n]
             id == path[1]
  <2>4. path \in ToSet(Paths[e]) /\ id # Packs
    BY PathsAre DEF ToSet
  <2> HIDE DEF path
  <2>5. At(data, path) # <<>> /\ GetField(data, Paths[e]) = At(data, path)
    BY <2>3 DEF path
  <2>6. id \in DOMAIN data
    <3> SUFFICES ASSUME id \notin DOMAIN data PROVE FALSE
      OBVIOUS
    <3>1. Get(data, id).shape = "none"
      BY DEF Get, NoEntry, Entry
    <3>2. At(data, path) = <<>>
      BY <3>1 DEF At
    <3> QED BY <2>5, <3>2
  <2>7. PICK q \in Told(source) : Known(q) /\ q.field.id = id /\ LessOf(data[id], Meaning(q))
    BY <2>2, <2>4, <2>6 DEF Reported, SaidBy
  <2>8. PICK r \in Came(source) : q \in ToSet(Reports[r])
    BY <2>7 DEF Told
  <2>9. Has(ReportKv[r], q)
    <3>1. r \in DOMAIN Reports
      BY DEF AllKnown
    <3> QED BY <2>7, <2>8, <3>1, ReportKvHas
  <2> DEFINE all == ReportKv[r]
  <2>10. id \in DOMAIN all /\ all[id] = Meaning(q)
    BY <2>7, <2>9 DEF Has
  <2> HIDE DEF all
  <2>11. At(all, path) # <<>> /\ LessOf(At(data, path)[1], At(all, path)[1])
    BY <2>5, <2>7, <2>10, AtWithin
  <2>12. At(all, path) # <<>> /\ LessOf(GetField(data, Paths[e])[1], At(all, path)[1])
    BY <2>5, <2>11
  <2> QED BY <2>4, <2>12 DEF all
<1> QED BY <1>1, DataKept, ReadKept, ChainKept, PTL
=============================================================================
