------------------------------ MODULE CodingProofs ------------------------------
(***************************************************************************)
(* Proofs about the two codings of notes for texts of any length: both     *)
(* make bytes, and what is coded comes back, with up to two zeros behind   *)
(* it, unless it has a sextet whose character the decoder does not know.   *)
(* And about the buffering of SHA-256, for data of any length written in   *)
(* any parts: the blocks are those of the whole message with its padding.  *)
(***************************************************************************)
EXTENDS Base64, Sha256, Recursion, Integers, Sequences, TLAPS

-----------------------------------------------------------------------------
(* The coding of notes: what it makes is bytes.                             *)

\* Bytes are numbers.
LEMMA ByteNat == \A b \in Byte : b \in Nat
  BY DEF Byte

\* Every value of six bits has a character.
LEMMA AlphabetTyped == ASSUME NEW x \in 0 .. 63 PROVE Alphabet(x) \in Byte
<1>1. CASE x \in 0 .. 25
  <2>0. ~(x \in 26 .. 51) /\ ~(x \in 52 .. 61) /\ x # 62 /\ x # 63
    BY <1>1
  <2>1. Alphabet(x) = x + 65
    BY <1>1, <2>0, Zenon DEF Alphabet
  <2> QED
    BY <1>1, <2>1 DEF Byte
<1>2. CASE x \in 26 .. 51
  <2>1. ~(x \in 0 .. 25) /\ ~(x \in 52 .. 61) /\ x # 62 /\ x # 63
    BY <1>2
  <2>2. Alphabet(x) = x + 71
    BY <1>2, <2>1, Zenon DEF Alphabet
  <2> QED
    BY <1>2, <2>2 DEF Byte
<1>3. CASE x \in 52 .. 61
  <2>1. ~(x \in 0 .. 25) /\ ~(x \in 26 .. 51) /\ x # 62 /\ x # 63
    BY <1>3
  <2>2. Alphabet(x) = x - 4
    BY <1>3, <2>1, Zenon DEF Alphabet
  <2> QED
    BY <1>3, <2>2 DEF Byte
<1>4. CASE x = 62
  <2>1. ~(x \in 0 .. 25) /\ ~(x \in 26 .. 51) /\ ~(x \in 52 .. 61) /\ x # 63
    BY <1>4
  <2>2. Alphabet(x) = 126
    BY <1>4, <2>1, Zenon DEF Alphabet
  <2> QED
    BY <2>2 DEF Byte
<1>5. CASE x = 63
  <2>1. ~(x \in 0 .. 25) /\ ~(x \in 26 .. 51) /\ ~(x \in 52 .. 61) /\ x # 62
    BY <1>5
  <2>2. Alphabet(x) = 45
    BY <1>5, <2>1, Zenon DEF Alphabet
  <2> QED
    BY <2>2 DEF Byte
<1> QED
  BY <1>1, <1>2, <1>3, <1>4, <1>5

\* A group of bytes is a number.
LEMMA EncodedValueTyped ==
  ASSUME NEW in \in Seq(Byte), NEW g \in Nat
  PROVE  EncodedValue(in, g) \in Nat
<1>1. ASSUME NEW k \in Nat PROVE At(in, k) \in Nat
  <2>1. DOMAIN in = 1 .. Len(in) /\ \A i \in 1 .. Len(in) : in[i] \in Byte
    OBVIOUS
  <2>2. \A i \in DOMAIN in : in[i] \in Nat
    BY <2>1, ByteNat
  <2> QED
    BY <2>2 DEF At
<1>2. 3 * g + 1 \in Nat /\ 3 * g + 2 \in Nat /\ 3 * g + 3 \in Nat
  OBVIOUS
<1>3. At(in, 3 * g + 1) \in Nat /\ At(in, 3 * g + 2) \in Nat /\ At(in, 3 * g + 3) \in Nat
  BY <1>1, <1>2
<1> QED
  BY <1>3 DEF EncodedValue

\* Four digits of six bits.
LEMMA SextetTyped ==
  ASSUME NEW v \in Nat, NEW k \in 0 .. 3
  PROVE  SextetOf(v, k) \in 0 .. 63
<1>1. k + 1 \in 1 .. 4
  OBVIOUS
<1>2. <<262144, 4096, 64, 1>>[k + 1] \in Nat \ {0}
  BY <1>1
<1>3. ASSUME NEW d \in Nat \ {0} PROVE v \div d \in Nat
  BY <1>3
<1>4. ASSUME NEW n \in Nat PROVE n % 64 \in 0 .. 63
  BY <1>4
<1> QED
  BY <1>2, <1>3, <1>4 DEF SextetOf

\* The encoded text is one of bytes.
LEMMA EncodeTyped == ASSUME NEW in \in Seq(Byte) PROVE Encode(in) \in Seq(Byte)
<1> DEFINE n == 4 * ((Len(in) + 2) \div 3)
<1>1. n \in Nat
  <2>1. Len(in) + 2 \in Nat
    OBVIOUS
  <2>2. ASSUME NEW m \in Nat PROVE m \div 3 \in Nat
    BY <2>2
  <2> QED
    BY <2>1, <2>2
<1>2. ASSUME NEW i \in 1 .. n
      PROVE  Alphabet(SextetOf(EncodedValue(in, (i - 1) \div 4), (i - 1) % 4)) \in Byte
  <2> HIDE DEF n
  <2>1. i - 1 \in Nat
    BY <1>1
  <2>2. (i - 1) \div 4 \in Nat /\ (i - 1) % 4 \in 0 .. 3
    BY <2>1
  <2> QED
    BY <2>2, EncodedValueTyped, SextetTyped, AlphabetTyped
<1>3. Encode(in) =
        [i \in 1 .. n |-> Alphabet(SextetOf(EncodedValue(in, (i - 1) \div 4), (i - 1) % 4))]
  BY DEF Encode
<1> QED
  <2> HIDE DEF n
  <2> QED
    BY <1>1, <1>2, <1>3

\* A character stands for a number.
LEMMA DealphabetTyped == ASSUME NEW ch \in Nat PROVE Dealphabet(ch) \in Nat
<1>1. CASE IsUpper(ch)
  <2>1. Dealphabet(ch) = ch - 65
    <3>1. ~IsLower(ch) /\ ~IsDigit(ch) /\ ch # 43 /\ ch # 47
      BY <1>1 DEF IsUpper, IsLower, IsDigit
    <3> QED
      BY <1>1, <3>1, Zenon DEF Dealphabet
  <2> QED
    BY <1>1, <2>1 DEF IsUpper
<1>2. CASE IsLower(ch)
  <2>1. Dealphabet(ch) = ch - 71
    <3>1. ~IsUpper(ch) /\ ~IsDigit(ch) /\ ch # 43 /\ ch # 47
      BY <1>2 DEF IsUpper, IsLower, IsDigit
    <3> QED
      BY <1>2, <3>1, Zenon DEF Dealphabet
  <2> QED
    BY <1>2, <2>1 DEF IsLower
<1>3. CASE IsDigit(ch)
  <2>1. Dealphabet(ch) = ch + 4
    <3>1. ~IsUpper(ch) /\ ~IsLower(ch) /\ ch # 43 /\ ch # 47
      BY <1>3 DEF IsUpper, IsLower, IsDigit
    <3> QED
      BY <1>3, <3>1, Zenon DEF Dealphabet
  <2> QED
    BY <1>3, <2>1 DEF IsDigit
<1>4. CASE ch = 43
  <2>1. Dealphabet(ch) = 62
    <3>1. ~IsUpper(ch) /\ ~IsLower(ch) /\ ~IsDigit(ch) /\ ch # 47
      BY <1>4 DEF IsUpper, IsLower, IsDigit
    <3> QED
      BY <1>4, <3>1, Zenon DEF Dealphabet
  <2> QED
    BY <2>1
<1>5. CASE ch = 47
  <2>1. Dealphabet(ch) = 63
    <3>1. ~IsUpper(ch) /\ ~IsLower(ch) /\ ~IsDigit(ch) /\ ch # 43
      BY <1>5 DEF IsUpper, IsLower, IsDigit
    <3> QED
      BY <1>5, <3>1, Zenon DEF Dealphabet
  <2> QED
    BY <2>1
<1>6. CASE ~IsUpper(ch) /\ ~IsLower(ch) /\ ~IsDigit(ch) /\ ch # 43 /\ ch # 47
  <2>1. Dealphabet(ch) = 255
    BY <1>6, Zenon DEF Dealphabet
  <2> QED
    BY <2>1
<1> QED
  BY <1>1, <1>2, <1>3, <1>4, <1>5, <1>6

\* A place behind the end of a decoded text counts as 0.
DecodedAt(in, g, i) == IF 4 * g + i \in DOMAIN in THEN Dealphabet(in[4 * g + i]) ELSE 0

\* A block of characters is a number.
LEMMA DecodedValueTyped ==
  ASSUME NEW in, \A i \in DOMAIN in : in[i] \in Nat, NEW g \in Nat
  PROVE  DecodedValue(in, g) \in Nat
<1>1. ASSUME NEW i \in Nat PROVE DecodedAt(in, g, i) \in Nat
  BY <1>1, DealphabetTyped DEF DecodedAt
<1>2. DecodedValue(in, g) = DecodedAt(in, g, 1) * 262144 + DecodedAt(in, g, 2) * 4096
                            + DecodedAt(in, g, 3) * 64 + DecodedAt(in, g, 4)
  BY DEF DecodedValue, DecodedAt
<1>3. /\ DecodedAt(in, g, 1) \in Nat /\ DecodedAt(in, g, 2) \in Nat
      /\ DecodedAt(in, g, 3) \in Nat /\ DecodedAt(in, g, 4) \in Nat
  BY <1>1
<1> QED
  BY <1>2, <1>3

\* Three bytes.
LEMMA ByteTyped ==
  ASSUME NEW v \in Nat, NEW k \in 0 .. 2
  PROVE  ByteOf(v, k) \in Byte
<1>1. k + 1 \in 1 .. 3
  OBVIOUS
<1>2. <<65536, 256, 1>>[k + 1] \in Nat \ {0}
  BY <1>1
<1>3. ASSUME NEW d \in Nat \ {0} PROVE v \div d \in Nat
  BY <1>3
<1>4. ASSUME NEW n \in Nat PROVE n % 256 \in Byte
  BY <1>4 DEF Byte
<1> QED
  BY <1>2, <1>3, <1>4 DEF ByteOf

\* There is a place behind which there are only equals signs, and none right
\* before it.
LEMMA StrippedTyped ==
  ASSUME NEW s \in Seq(Byte)
  PROVE  /\ StrippedLength(s) \in 0 .. Len(s)
         /\ StrippedLength(s) = 0 \/ s[StrippedLength(s)] # EqualsSign
         /\ \A i \in StrippedLength(s) + 1 .. Len(s) : s[i] = EqualsSign
<1> DEFINE Ends(n) == (n = 0 \/ s[n] # EqualsSign) /\ \A i \in n + 1 .. Len(s) : s[i] = EqualsSign
           D == {n \in 0 .. Len(s) : \A i \in n + 1 .. Len(s) : s[i] = EqualsSign}
<1>1. Len(s) \in D /\ D \in SUBSET Nat
  OBVIOUS
<1>2. PICK n \in D : \A m \in D : n <= m
  <2> HIDE DEF D
  <2> QED
    BY <1>1, LeastElement
<1>3. n \in 0 .. Len(s) /\ \A i \in n + 1 .. Len(s) : s[i] = EqualsSign
  BY <1>2
<1>4. n = 0 \/ s[n] # EqualsSign
  <2> SUFFICES ASSUME n # 0, s[n] = EqualsSign PROVE FALSE
    OBVIOUS
  <2>1. n - 1 \in 0 .. Len(s) /\ ~(n <= n - 1)
    BY <1>3
  <2>2. ASSUME NEW i \in (n - 1) + 1 .. Len(s) PROVE s[i] = EqualsSign
    <3>1. i = n \/ i \in n + 1 .. Len(s)
      BY <1>3
    <3> QED
      BY <1>3, <3>1
  <2>3. n - 1 \in D
    BY <2>1, <2>2
  <2> QED
    BY <1>2, <2>1, <2>3
<1>5. Ends(n) /\ n \in 0 .. Len(s)
  BY <1>3, <1>4
<1>6. StrippedLength(s) = CHOOSE m \in 0 .. Len(s) : Ends(m)
  BY DEF StrippedLength
<1>7. StrippedLength(s) \in 0 .. Len(s) /\ Ends(StrippedLength(s))
  <2> HIDE DEF Ends
  <2> QED
    BY <1>5, <1>6
<1> QED
  BY <1>7

\* The text without its trailing equals signs is its beginning.
LEMMA StrippedIs ==
  ASSUME NEW s \in Seq(Byte)
  PROVE  LET in == SubSeq(s, 1, StrippedLength(s)) IN
         /\ in \in Seq(Byte) /\ Len(in) = StrippedLength(s)
         /\ \A i \in 1 .. Len(in) : in[i] = s[i]
<1> DEFINE n == StrippedLength(s)
<1>1. n \in 0 .. Len(s)
  BY StrippedTyped
<1> HIDE DEF n
<1>2. SubSeq(s, 1, n) \in Seq(Byte) /\ Len(SubSeq(s, 1, n)) = n
      /\ \A i \in 1 .. n : SubSeq(s, 1, n)[i] = s[i]
  BY <1>1
<1> QED
  BY <1>2 DEF n

\* What is decoded from a text is refused or one of bytes.
LEMMA DecodeTyped ==
  ASSUME NEW s \in Seq(Byte), Decode(s) # Illegal
  PROVE  Decode(s) \in Seq(Byte)
<1> DEFINE in == SubSeq(s, 1, StrippedLength(s))
           n == 3 * (Len(in) \div 4) + (IF Len(in) % 4 = 0 THEN 0 ELSE (Len(in) % 4) - 1)
<1>1. in \in Seq(Byte) /\ \A i \in DOMAIN in : in[i] \in Nat
  <2>1. in \in Seq(Byte)
    BY StrippedIs
  <2> HIDE DEF in
  <2>2. DOMAIN in = 1 .. Len(in) /\ \A i \in 1 .. Len(in) : in[i] \in Byte
    BY <2>1
  <2> QED
    BY <2>1, <2>2, ByteNat
<1>2. Decode(s) = [k \in 1 .. n |-> ByteOf(DecodedValue(in, (k - 1) \div 3), (k - 1) % 3)]
  BY DEF Decode
<1>3. n \in Nat
  <2> HIDE DEF in
  <2>1. Len(in) \in Nat
    BY <1>1
  <2>2. ASSUME NEW m \in Nat PROVE m \div 4 \in Nat /\ m % 4 \in 0 .. 3
    BY <2>2
  <2>3. Len(in) \div 4 \in Nat /\ Len(in) % 4 \in 0 .. 3
    BY <2>1, <2>2
  <2>4. ASSUME NEW q \in Nat, NEW r \in 0 .. 3 PROVE 3 * q + (IF r = 0 THEN 0 ELSE r - 1) \in Nat
    OBVIOUS
  <2> QED
    BY <2>3, <2>4
<1> HIDE DEF n, in
<1>4. ASSUME NEW k \in 1 .. n
      PROVE  ByteOf(DecodedValue(in, (k - 1) \div 3), (k - 1) % 3) \in Byte
  <2>1. k - 1 \in Nat
    BY <1>3
  <2>2. (k - 1) \div 3 \in Nat /\ (k - 1) % 3 \in 0 .. 2
    BY <2>1
  <2> QED
    BY <1>1, <2>2, DecodedValueTyped, ByteTyped
<1> QED
  BY <1>2, <1>3, <1>4

-----------------------------------------------------------------------------
(* What goes in comes back.                                                 *)

\* What the decoder makes of a character of the encoder's: the number it stands
\* for, up to the last two, whose characters it does not know.
LEMMA DealphabetUndoes ==
  ASSUME NEW x \in 0 .. 63
  PROVE  /\ Alphabet(x) # EqualsSign
         /\ x < 62 => IsValid(Alphabet(x)) /\ Dealphabet(Alphabet(x)) = x
         /\ x < 62 <=> Alphabet(x) \notin {126, 45}
         /\ x >= 62 => Dealphabet(Alphabet(x)) = 255
<1>1. CASE x \in 0 .. 25
  <2>1. ~(x \in 26 .. 51) /\ ~(x \in 52 .. 61) /\ x # 62 /\ x # 63
    BY <1>1
  <2>2. PICK ch : ch = Alphabet(x)
    OBVIOUS
  <2>3. ch = x + 65
    BY <1>1, <2>1, <2>2, Zenon DEF Alphabet
  <2>4. IsUpper(ch) /\ ~IsLower(ch) /\ ~IsDigit(ch) /\ ch # 43 /\ ch # 47
    BY <1>1, <2>3 DEF IsUpper, IsLower, IsDigit
  <2>5. Dealphabet(ch) = ch - 65
    BY <2>4, Zenon DEF Dealphabet
  <2> QED
    BY <1>1, <2>2, <2>3, <2>4, <2>5 DEF IsValid, EqualsSign
<1>2. CASE x \in 26 .. 51
  <2>1. ~(x \in 0 .. 25) /\ ~(x \in 52 .. 61) /\ x # 62 /\ x # 63
    BY <1>2
  <2>2. PICK ch : ch = Alphabet(x)
    OBVIOUS
  <2>3. ch = x + 71
    BY <1>2, <2>1, <2>2, Zenon DEF Alphabet
  <2>4. ~IsUpper(ch) /\ IsLower(ch) /\ ~IsDigit(ch) /\ ch # 43 /\ ch # 47
    BY <1>2, <2>3 DEF IsUpper, IsLower, IsDigit
  <2>5. Dealphabet(ch) = ch - 71
    BY <2>4, Zenon DEF Dealphabet
  <2> QED
    BY <1>2, <2>2, <2>3, <2>4, <2>5 DEF IsValid, EqualsSign
<1>3. CASE x \in 52 .. 61
  <2>1. ~(x \in 0 .. 25) /\ ~(x \in 26 .. 51) /\ x # 62 /\ x # 63
    BY <1>3
  <2>2. PICK ch : ch = Alphabet(x)
    OBVIOUS
  <2>3. ch = x - 4
    BY <1>3, <2>1, <2>2, Zenon DEF Alphabet
  <2>4. ~IsUpper(ch) /\ ~IsLower(ch) /\ IsDigit(ch) /\ ch # 43 /\ ch # 47
    BY <1>3, <2>3 DEF IsUpper, IsLower, IsDigit
  <2>5. Dealphabet(ch) = ch + 4
    BY <2>4, Zenon DEF Dealphabet
  <2> QED
    BY <1>3, <2>2, <2>3, <2>4, <2>5 DEF IsValid, EqualsSign
<1>4. CASE x \in {62, 63}
  <2>1. ~(x \in 0 .. 25) /\ ~(x \in 26 .. 51) /\ ~(x \in 52 .. 61)
    BY <1>4
  <2>2. PICK ch : ch = Alphabet(x)
    OBVIOUS
  <2>5. ch \in {126, 45}
    <3>1. CASE x = 62
      <4>1. x # 63
        BY <3>1
      <4>2. ch = 126
        BY <2>1, <2>2, <3>1, <4>1, Zenon DEF Alphabet
      <4> QED
        BY <4>2
    <3>2. CASE x = 63
      <4>1. x # 62
        BY <3>2
      <4>2. ch = 45
        BY <2>1, <2>2, <3>2, <4>1, Zenon DEF Alphabet
      <4> QED
        BY <4>2
    <3> QED
      BY <1>4, <3>1, <3>2
  <2>6. ~IsUpper(ch) /\ ~IsLower(ch) /\ ~IsDigit(ch) /\ ch # 43 /\ ch # 47
    BY <2>5 DEF IsUpper, IsLower, IsDigit
  <2>7. Dealphabet(ch) = 255
    BY <2>6, Zenon DEF Dealphabet
  <2> QED
    BY <1>4, <2>2, <2>5, <2>7 DEF EqualsSign
<1> QED
  BY <1>1, <1>2, <1>3, <1>4

\* Four digits of six bits, and three bytes, are the number they were taken from.
LEMMA DigitsOf ==
  ASSUME NEW v \in Nat, v < 16777216
  PROVE  v = SextetOf(v, 0) * 262144 + SextetOf(v, 1) * 4096 + SextetOf(v, 2) * 64 + SextetOf(v, 3)
<1>1. /\ SextetOf(v, 0) = (v \div 262144) % 64 /\ SextetOf(v, 1) = (v \div 4096) % 64
      /\ SextetOf(v, 2) = (v \div 64) % 64 /\ SextetOf(v, 3) = (v \div 1) % 64
  <2>1. 0 + 1 = 1 /\ 1 + 1 = 2 /\ 2 + 1 = 3 /\ 3 + 1 = 4
    OBVIOUS
  <2>2. /\ <<262144, 4096, 64, 1>>[1] = 262144 /\ <<262144, 4096, 64, 1>>[2] = 4096
        /\ <<262144, 4096, 64, 1>>[3] = 64 /\ <<262144, 4096, 64, 1>>[4] = 1
    OBVIOUS
  <2> QED
    BY <2>1, <2>2, SMT DEF SextetOf
<1>2. v = ((v \div 262144) % 64) * 262144 + ((v \div 4096) % 64) * 4096
          + ((v \div 64) % 64) * 64 + ((v \div 1) % 64)
  OBVIOUS
<1> QED
  BY <1>1, <1>2

\* The bytes of the number that three bytes make are those three.
LEMMA BytesOf ==
  ASSUME NEW a \in Byte, NEW b \in Byte, NEW c \in Byte, NEW v, v = a * 65536 + b * 256 + c
  PROVE  ByteOf(v, 0) = a /\ ByteOf(v, 1) = b /\ ByteOf(v, 2) = c /\ v \in Nat /\ v < 16777216
<1>1. /\ ByteOf(v, 0) = (v \div 65536) % 256 /\ ByteOf(v, 1) = (v \div 256) % 256
      /\ ByteOf(v, 2) = (v \div 1) % 256
  <2>1. 0 + 1 = 1 /\ 1 + 1 = 2 /\ 2 + 1 = 3
    OBVIOUS
  <2>2. <<65536, 256, 1>>[1] = 65536 /\ <<65536, 256, 1>>[2] = 256 /\ <<65536, 256, 1>>[3] = 1
    OBVIOUS
  <2> QED
    BY <2>1, <2>2, SMT DEF ByteOf
<1>2. a \in 0 .. 255 /\ b \in 0 .. 255 /\ c \in 0 .. 255
  BY DEF Byte
<1>3. (v \div 65536) % 256 = a /\ (v \div 256) % 256 = b /\ (v \div 1) % 256 = c
  BY <1>2
<1>4. v \in Nat /\ v < 16777216
  BY <1>2
<1> QED
  BY <1>1, <1>3, <1>4

\* None is an equals sign; of those the decoder knows it makes the number, and the
\* last two it does not know.
LEMMA NoEqualsSign == ASSUME NEW x \in 0 .. 63 PROVE Alphabet(x) # EqualsSign
  BY DealphabetUndoes

\* A character that the decoder knows becomes the sextet it was made of.
LEMMA KnownChar ==
  ASSUME NEW x \in 0 .. 63, Alphabet(x) \notin {126, 45}
  PROVE  IsValid(Alphabet(x)) /\ Dealphabet(Alphabet(x)) = x
  BY DealphabetUndoes

\* One that it does not know becomes what dealphabet returns for no character.
LEMMA OwnChar ==
  ASSUME NEW x \in 0 .. 63, Alphabet(x) \in {126, 45}
  PROVE  Dealphabet(Alphabet(x)) = 255
<1>1. x >= 62
  BY DealphabetUndoes
<1> QED
  BY <1>1, DealphabetUndoes

\* Places of a text count as bytes, those behind its end too.
LEMMA AtTyped ==
  ASSUME NEW in \in Seq(Byte), NEW k
  PROVE  At(in, k) \in Byte
<1>1. DOMAIN in = 1 .. Len(in) /\ \A i \in 1 .. Len(in) : in[i] \in Byte
  OBVIOUS
<1>2. 0 \in Byte
  BY DEF Byte
<1> QED
  BY <1>1, <1>2 DEF At

\* The number of groups of three bytes, the last of which may be shorter.
Groups(in) == (Len(in) + 2) \div 3

\* The groups of three hold the text and at most two bytes more.
LEMMA GroupsFill ==
  ASSUME NEW in \in Seq(Byte)
  PROVE  Groups(in) \in Nat /\ 3 * Groups(in) - Len(in) \in 0 .. 2
<1>1. Len(in) \in Nat
  OBVIOUS
<1>2. ASSUME NEW n \in Nat PROVE (n + 2) \div 3 \in Nat /\ 3 * ((n + 2) \div 3) - n \in 0 .. 2
  OBVIOUS
<1> QED
  BY <1>1, <1>2 DEF Groups

\* A place is one in a group, of four or of three.
LEMMA PlaceInFour ==
  ASSUME NEW G \in Nat, NEW i \in 1 .. 4 * G
  PROVE  /\ (i - 1) \div 4 \in 0 .. G - 1 /\ (i - 1) % 4 \in 0 .. 3
         /\ i = 4 * ((i - 1) \div 4) + ((i - 1) % 4) + 1
  OBVIOUS

\* A place of the decoded text is one of a group and one within it.
LEMMA PlaceInThree ==
  ASSUME NEW G \in Nat, NEW i \in 1 .. 3 * G
  PROVE  /\ (i - 1) \div 3 \in 0 .. G - 1 /\ (i - 1) % 3 \in 0 .. 2
         /\ i = 3 * ((i - 1) \div 3) + ((i - 1) % 3) + 1
  OBVIOUS

\* A group and a place within it are one place of the encoded text.
LEMMA GroupAtPlace ==
  ASSUME NEW G \in Nat, NEW g \in 0 .. G - 1, NEW k \in 0 .. 3, NEW i, i = 4 * g + k + 1
  PROVE  i \in 1 .. 4 * G /\ (i - 1) \div 4 = g /\ (i - 1) % 4 = k
  OBVIOUS

\* The encoded text has four characters for each group.
LEMMA EncodedLength ==
  ASSUME NEW in \in Seq(Byte)
  PROVE  /\ Encode(in) \in Seq(Byte) /\ Len(Encode(in)) = 4 * Groups(in)
         /\ DOMAIN Encode(in) = 1 .. 4 * Groups(in)
<1>1. Encode(in) \in Seq(Byte)
  BY EncodeTyped
<1>2. DOMAIN Encode(in) = 1 .. 4 * Groups(in)
  BY DEF Encode, Groups
<1>3. 4 * Groups(in) \in Nat
  BY GroupsFill
<1>4. ASSUME NEW s \in Seq(Byte), NEW n \in Nat, DOMAIN s = 1 .. n PROVE Len(s) = n
  BY <1>4
<1> QED
  BY <1>1, <1>2, <1>3, <1>4

\* The character at each place of the encoded text.
LEMMA EncodedAt ==
  ASSUME NEW in \in Seq(Byte), NEW g \in 0 .. Groups(in) - 1, NEW k \in 0 .. 3
  PROVE  /\ 4 * g + k + 1 \in 1 .. 4 * Groups(in)
         /\ Encode(in)[4 * g + k + 1] = Alphabet(SextetOf(EncodedValue(in, g), k))
         /\ SextetOf(EncodedValue(in, g), k) \in 0 .. 63
<1>1. PICK i : i = 4 * g + k + 1
  OBVIOUS
<1>2. Groups(in) \in Nat /\ g \in Nat
  BY GroupsFill
<1>3. i \in 1 .. 4 * Groups(in) /\ (i - 1) \div 4 = g /\ (i - 1) % 4 = k
  BY <1>1, <1>2, GroupAtPlace
<1>4. Encode(in)[i] = Alphabet(SextetOf(EncodedValue(in, (i - 1) \div 4), (i - 1) % 4))
  BY <1>3 DEF Encode, Groups
<1>5. SextetOf(EncodedValue(in, g), k) \in 0 .. 63
  BY <1>2, EncodedValueTyped, SextetTyped
<1> QED
  BY <1>1, <1>3, <1>4, <1>5

\* It has no character of its own but those of the alphabet.
LEMMA EncodedChar ==
  ASSUME NEW in \in Seq(Byte), NEW i \in DOMAIN Encode(in)
  PROVE  \E x \in 0 .. 63 : Encode(in)[i] = Alphabet(x)
<1>1. i \in 1 .. 4 * Groups(in) /\ Groups(in) \in Nat
  BY EncodedLength, GroupsFill
<1>2. PICK g, k : g = (i - 1) \div 4 /\ k = (i - 1) % 4
  OBVIOUS
<1>3. g \in 0 .. Groups(in) - 1 /\ k \in 0 .. 3 /\ i = 4 * g + k + 1
  BY <1>1, <1>2, PlaceInFour
<1> QED
  BY <1>3, EncodedAt

\* So nothing is stripped from it.
LEMMA EncodedWhole ==
  ASSUME NEW in \in Seq(Byte)
  PROVE  SubSeq(Encode(in), 1, StrippedLength(Encode(in))) = Encode(in)
<1>1. PICK e : e = Encode(in)
  OBVIOUS
<1>2. e \in Seq(Byte) /\ DOMAIN e = 1 .. Len(e) /\ Len(e) \in Nat
  BY <1>1, EncodedLength
<1>3. PICK n : n = StrippedLength(e)
  OBVIOUS
<1>4. n \in 0 .. Len(e) /\ \A i \in n + 1 .. Len(e) : e[i] = EqualsSign
  BY <1>2, <1>3, StrippedTyped
<1>5. n = Len(e)
  <2> SUFFICES ASSUME n # Len(e) PROVE FALSE
    OBVIOUS
  <2>0. ASSUME NEW b \in Nat, NEW a \in 0 .. b, a # b PROVE a + 1 \in 1 .. b /\ a + 1 \in a + 1 .. b
    BY <2>0
  <2>1. n + 1 \in DOMAIN e /\ n + 1 \in n + 1 .. Len(e)
    BY <1>2, <1>4, <2>0
  <2>2. PICK x \in 0 .. 63 : e[n + 1] = Alphabet(x)
    BY <1>1, <2>1, EncodedChar
  <2>3. Alphabet(x) # EqualsSign
    BY <2>2, NoEqualsSign
  <2> QED
    BY <1>4, <2>1, <2>2, <2>3
<1>6. SubSeq(e, 1, Len(e)) = e
  BY <1>2
<1> QED
  BY <1>1, <1>3, <1>5, <1>6

\* A block of characters that the decoder knows has the value of the group.
LEMMA GroupComesBack ==
  ASSUME NEW in \in Seq(Byte), NEW g \in 0 .. Groups(in) - 1,
         \A i \in DOMAIN Encode(in) : Encode(in)[i] \notin {126, 45}
  PROVE  DecodedValue(Encode(in), g) = EncodedValue(in, g)
<1>1. PICK v, e : v = EncodedValue(in, g) /\ e = Encode(in)
  OBVIOUS
<1>2. Groups(in) \in Nat /\ DOMAIN e = 1 .. 4 * Groups(in) /\ g \in Nat
  <2>1. Groups(in) \in Nat
    BY GroupsFill
  <2> QED
    BY <1>1, <2>1, EncodedLength
<1>3. v \in Nat /\ v < 16777216
  <2>1. At(in, 3 * g + 1) \in Byte /\ At(in, 3 * g + 2) \in Byte /\ At(in, 3 * g + 3) \in Byte
    BY AtTyped
  <2>2. v = At(in, 3 * g + 1) * 65536 + At(in, 3 * g + 2) * 256 + At(in, 3 * g + 3)
    BY <1>1 DEF EncodedValue
  <2> QED
    BY <2>1, <2>2, BytesOf
<1>4. ASSUME NEW k \in 0 .. 3 PROVE DecodedAt(e, g, k + 1) = SextetOf(v, k)
  <2>1. PICK i, x : i = 4 * g + k + 1 /\ x = SextetOf(v, k)
    OBVIOUS
  <2>2. i \in 1 .. 4 * Groups(in) /\ e[i] = Alphabet(x) /\ x \in 0 .. 63
    <3>1. /\ 4 * g + k + 1 \in 1 .. 4 * Groups(in)
          /\ Encode(in)[4 * g + k + 1] = Alphabet(SextetOf(EncodedValue(in, g), k))
          /\ SextetOf(EncodedValue(in, g), k) \in 0 .. 63
      BY EncodedAt
    <3> QED
      BY <1>1, <2>1, <3>1
  <2>3. Alphabet(x) \notin {126, 45}
    BY <1>1, <1>2, <2>2
  <2>4. Dealphabet(Alphabet(x)) = x
    BY <2>2, <2>3, KnownChar
  <2>5. 4 * g + (k + 1) = i /\ i \in DOMAIN e
    BY <1>2, <2>1, <2>2
  <2> QED
    BY <2>1, <2>2, <2>4, <2>5 DEF DecodedAt
<1>5. /\ DecodedAt(e, g, 1) = SextetOf(v, 0) /\ DecodedAt(e, g, 2) = SextetOf(v, 1)
      /\ DecodedAt(e, g, 3) = SextetOf(v, 2) /\ DecodedAt(e, g, 4) = SextetOf(v, 3)
  <2>1. /\ DecodedAt(e, g, 0 + 1) = SextetOf(v, 0) /\ DecodedAt(e, g, 1 + 1) = SextetOf(v, 1)
        /\ DecodedAt(e, g, 2 + 1) = SextetOf(v, 2) /\ DecodedAt(e, g, 3 + 1) = SextetOf(v, 3)
    BY <1>4
  <2>2. 0 + 1 = 1 /\ 1 + 1 = 2 /\ 2 + 1 = 3 /\ 3 + 1 = 4
    OBVIOUS
  <2> QED
    BY <2>1, <2>2
<1>6. DecodedValue(e, g) = SextetOf(v, 0) * 262144 + SextetOf(v, 1) * 4096
                           + SextetOf(v, 2) * 64 + SextetOf(v, 3)
  <2>1. DecodedValue(e, g) = DecodedAt(e, g, 1) * 262144 + DecodedAt(e, g, 2) * 4096
                             + DecodedAt(e, g, 3) * 64 + DecodedAt(e, g, 4)
    BY SMT DEF DecodedValue, DecodedAt
  <2> QED
    BY <1>5, <2>1, SMT
<1>7. v = SextetOf(v, 0) * 262144 + SextetOf(v, 1) * 4096 + SextetOf(v, 2) * 64 + SextetOf(v, 3)
  BY <1>3, DigitsOf
<1> QED
  BY <1>1, <1>6, <1>7, SMT

\* A byte of the decoded text is the one it was made of, or 0 behind the end.
LEMMA ByteComesBack ==
  ASSUME NEW in \in Seq(Byte), NEW k \in 1 .. 3 * Groups(in),
         \A i \in DOMAIN Encode(in) : Encode(in)[i] \notin {126, 45}
  PROVE  ByteOf(DecodedValue(Encode(in), (k - 1) \div 3), (k - 1) % 3) = At(in, k)
<1>1. PICK g, r : g = (k - 1) \div 3 /\ r = (k - 1) % 3
  OBVIOUS
<1>2. Groups(in) \in Nat
  BY GroupsFill
<1>3. g \in 0 .. Groups(in) - 1 /\ r \in 0 .. 2 /\ k = 3 * g + r + 1
  BY <1>1, <1>2, PlaceInThree
<1>4. DecodedValue(Encode(in), g) = EncodedValue(in, g)
  BY <1>3, GroupComesBack
<1>5. PICK v, a, b, c : /\ v = EncodedValue(in, g) /\ a = At(in, 3 * g + 1)
                        /\ b = At(in, 3 * g + 2) /\ c = At(in, 3 * g + 3)
  OBVIOUS
<1>6. a \in Byte /\ b \in Byte /\ c \in Byte
  BY <1>5, AtTyped
<1>7. v = a * 65536 + b * 256 + c
  BY <1>5 DEF EncodedValue
<1>8. ByteOf(v, 0) = a /\ ByteOf(v, 1) = b /\ ByteOf(v, 2) = c
  BY <1>6, <1>7, BytesOf
<1>9. ByteOf(v, r) = At(in, k)
  <2>1. CASE r = 0
    <3>1. k = 3 * g + 1
      BY <1>3, <2>1
    <3> QED
      BY <1>5, <1>8, <2>1, <3>1
  <2>2. CASE r = 1
    <3>1. k = 3 * g + 2
      BY <1>3, <2>2
    <3> QED
      BY <1>5, <1>8, <2>2, <3>1
  <2>3. CASE r = 2
    <3>1. k = 3 * g + 3
      BY <1>3, <2>3
    <3> QED
      BY <1>5, <1>8, <2>3, <3>1
  <2> QED
    BY <1>3, <2>1, <2>2, <2>3
<1> QED
  BY <1>1, <1>4, <1>5, <1>9

\* A text that the decoder takes, and what it makes of it.
LEMMA EncodedDecoded ==
  ASSUME NEW in \in Seq(Byte)
  PROVE  Decode(Encode(in)) =
           IF \E i \in DOMAIN Encode(in) : Encode(in)[i] \in {126, 45} THEN Illegal
           ELSE [k \in 1 .. 3 * Groups(in) |->
                   ByteOf(DecodedValue(Encode(in), (k - 1) \div 3), (k - 1) % 3)]
<1>1. PICK e, n : e = Encode(in) /\ n = Len(e)
  OBVIOUS
<1>2. SubSeq(e, 1, StrippedLength(e)) = e
  BY <1>1, EncodedWhole
<1>3. n % 4 = 0 /\ n \div 4 = Groups(in) /\ Groups(in) \in Nat
  <2>1. n = 4 * Groups(in) /\ Groups(in) \in Nat
    BY <1>1, EncodedLength, GroupsFill
  <2>2. ASSUME NEW G \in Nat PROVE (4 * G) % 4 = 0 /\ (4 * G) \div 4 = G
    OBVIOUS
  <2> QED
    BY <2>1, <2>2
<1>4. Decode(e) =
        IF (\E i \in DOMAIN e : ~IsValid(e[i]) \/ Dealphabet(e[i]) = 255) \/ n % 4 = 1
        THEN Illegal
        ELSE [k \in 1 .. 3 * (n \div 4) + (IF n % 4 = 0 THEN 0 ELSE (n % 4) - 1) |->
                ByteOf(DecodedValue(e, (k - 1) \div 3), (k - 1) % 3)]
  <2>1. PICK s : s = SubSeq(e, 1, StrippedLength(e))
    OBVIOUS
  <2>2. Decode(e) =
          IF \/ \E i \in DOMAIN s : ~IsValid(s[i]) \/ Dealphabet(s[i]) = 255
             \/ Len(s) % 4 = 1
          THEN Illegal
          ELSE [k \in 1 .. 3 * (Len(s) \div 4) + (IF Len(s) % 4 = 0 THEN 0 ELSE (Len(s) % 4) - 1) |->
                  ByteOf(DecodedValue(s, (k - 1) \div 3), (k - 1) % 3)]
    BY <2>1 DEF Decode
  <2>3. s = e
    BY <1>2, <2>1
  <2> QED
    BY <1>1, <2>2, <2>3
<1> DEFINE Unknown(i) == ~IsValid(e[i]) \/ Dealphabet(e[i]) = 255
           Own(i) == e[i] \in {126, 45}
<1>5. ASSUME NEW i \in DOMAIN e PROVE Unknown(i) <=> Own(i)
  <2>1. PICK x \in 0 .. 63 : e[i] = Alphabet(x)
    BY <1>1, <1>5, EncodedChar
  <2>2. Alphabet(x) \notin {126, 45} => IsValid(e[i]) /\ Dealphabet(e[i]) = x
    BY <2>1, KnownChar
  <2>3. Alphabet(x) \in {126, 45} => Dealphabet(e[i]) = 255
    BY <2>1, OwnChar
  <2>4. x # 255
    BY <2>1
  <2> QED
    BY <2>1, <2>2, <2>3, <2>4
<1>6. (\E i \in DOMAIN e : Unknown(i)) <=> \E i \in DOMAIN e : Own(i)
  <2> HIDE DEF Unknown, Own
  <2> QED
    BY <1>5
<1>7. n % 4 # 1 /\ 3 * (n \div 4) + (IF n % 4 = 0 THEN 0 ELSE (n % 4) - 1) = 3 * Groups(in)
  <2>1. 3 * Groups(in) \in Nat
    BY <1>3
  <2> QED
    BY <1>3, <2>1
<1> DEFINE out == 3 * (n \div 4) + (IF n % 4 = 0 THEN 0 ELSE (n % 4) - 1)
           Text(m) == [k \in 1 .. m |-> ByteOf(DecodedValue(e, (k - 1) \div 3), (k - 1) % 3)]
           Short == n % 4 = 1
<1>8. Decode(e) = IF (\E i \in DOMAIN e : Unknown(i)) \/ Short THEN Illegal ELSE Text(out)
  BY <1>4
<1>9. ~Short /\ out = 3 * Groups(in)
  BY <1>7
<1>10. Decode(e) = IF \E i \in DOMAIN e : Own(i) THEN Illegal ELSE Text(3 * Groups(in))
  <2> HIDE DEF Unknown, Own, out, Text, Short
  <2> QED
    BY <1>6, <1>8, <1>9
<1> QED
  BY <1>1, <1>10

\* Decoding undoes encoding, up to zeros that fill the last group; it refuses
\* a text with a character that it does not know.
THEOREM NoteComesBack ==
  ASSUME NEW in \in Seq(Byte), NEW back, back = Decode(Encode(in))
  PROVE  /\ back = Illegal => \E i \in DOMAIN Encode(in) : Encode(in)[i] \in {126, 45}
         /\ back # Illegal =>
              /\ SubSeq(back, 1, Len(in)) = in
              /\ Len(back) - Len(in) \in 0 .. 2 /\ Len(back) % 3 = 0
              /\ \A i \in Len(in) + 1 .. Len(back) : back[i] = 0
<1>1. CASE \E i \in DOMAIN Encode(in) : Encode(in)[i] \in {126, 45}
  <2>1. back = Illegal
    BY <1>1, EncodedDecoded, Zenon
  <2> QED
    BY <1>1, <2>1
<1>2. CASE ~\E i \in DOMAIN Encode(in) : Encode(in)[i] \in {126, 45}
  <2>1. PICK n, m : n = 3 * Groups(in) /\ m = Len(in)
    OBVIOUS
  <2>2. n \in Nat /\ m \in Nat /\ n - m \in 0 .. 2 /\ n % 3 = 0
    <3>1. Groups(in) \in Nat /\ 3 * Groups(in) - Len(in) \in 0 .. 2 /\ Len(in) \in Nat
      BY GroupsFill
    <3>2. ASSUME NEW G \in Nat PROVE (3 * G) % 3 = 0 /\ 3 * G \in Nat
      OBVIOUS
    <3> QED
      BY <2>1, <3>1, <3>2
  <2>3. back = [k \in 1 .. n |-> ByteOf(DecodedValue(Encode(in), (k - 1) \div 3), (k - 1) % 3)]
    BY <1>2, <2>1, EncodedDecoded, Zenon
  <2>4. DOMAIN back = 1 .. n /\ \A k \in 1 .. n : back[k] = At(in, k)
    <3>1. \A i \in DOMAIN Encode(in) : Encode(in)[i] \notin {126, 45}
      BY <1>2
    <3>2. \A k \in 1 .. n :
            ByteOf(DecodedValue(Encode(in), (k - 1) \div 3), (k - 1) % 3) = At(in, k)
      BY <2>1, <3>1, ByteComesBack
    <3> QED
      BY <2>3, <3>2
  <2>5. back = [k \in 1 .. n |-> At(in, k)]
    BY <2>3, <2>4
  <2>6. back \in Seq(Byte) /\ Len(back) = n
    <3>1. \A k : At(in, k) \in Byte
      BY AtTyped
    <3> QED
      BY <2>2, <2>5, <3>1
  <2>7. back # Illegal
    <3>1. ASSUME NEW s \in Seq(Byte), s = Illegal PROVE FALSE
      <4>1. Len(s) = 1 /\ s[1] = -1 /\ s[1] \in Byte
        BY <3>1 DEF Illegal
      <4> QED
        BY <4>1 DEF Byte
    <3> QED
      BY <2>6, <3>1
  <2>8. /\ \A i \in 1 .. m : back[i] = in[i]
        /\ \A i \in m + 1 .. n : back[i] = 0
    <3>1. DOMAIN in = 1 .. m
      BY <2>1
    <3>2. \A i \in 1 .. m : i \in 1 .. n /\ i \in DOMAIN in
      BY <2>2, <3>1
    <3>3. \A i \in m + 1 .. n : i \in 1 .. n /\ i \notin DOMAIN in
      BY <2>2, <3>1
    <3> QED
      BY <2>4, <3>2, <3>3 DEF At
  <2>9. SubSeq(back, 1, m) = in
    <3>1. ASSUME NEW s \in Seq(Byte), NEW t \in Seq(Byte), Len(t) <= Len(s),
                 \A i \in 1 .. Len(t) : s[i] = t[i]
          PROVE  SubSeq(s, 1, Len(t)) = t
      BY <3>1
    <3>2. Len(in) <= Len(back)
      BY <2>1, <2>2, <2>6
    <3> QED
      BY <2>1, <2>6, <2>8, <3>1, <3>2
  <2> QED
    BY <2>1, <2>2, <2>6, <2>7, <2>8, <2>9
<1> QED
  BY <1>1, <1>2

-----------------------------------------------------------------------------
(* Division by a number that is not known.                                  *)

\* Quotient and remainder.
LEMMA DivModIs ==
  ASSUME NEW n \in Nat, NEW b \in Nat \ {0}
  PROVE  n \div b \in Nat /\ n % b \in 0 .. b - 1 /\ n = (n \div b) * b + (n % b)
  OBVIOUS

\* A product grows with its factors.
LEMMA ProductGrows ==
  ASSUME NEW p \in Nat, NEW q \in Nat, p <= q, NEW b \in Nat
  PROVE  p * b \in Nat /\ p * b <= q * b
  OBVIOUS

\* There is no other quotient with a remainder below the divisor.
LEMMA DivModUnique ==
  ASSUME NEW b \in Nat \ {0}, NEW q \in Nat, NEW r \in 0 .. b - 1, NEW n, n = q * b + r
  PROVE  n \div b = q /\ n % b = r
<1>1. PICK d, m : d = n \div b /\ m = n % b
  OBVIOUS
<1>2. n \in Nat
  BY ProductGrows
<1>3. d \in Nat /\ m \in 0 .. b - 1 /\ n = d * b + m
  BY <1>1, <1>2, DivModIs
<1>4. ~(d < q)
  <2> SUFFICES ASSUME d < q PROVE FALSE
    OBVIOUS
  <2>1. (d + 1) * b <= q * b
    BY <1>3, ProductGrows
  <2>2. (d + 1) * b = d * b + b
    BY <1>3
  <2>3. d * b \in Nat /\ q * b \in Nat
    BY <1>3, ProductGrows
  <2> QED
    BY <1>3, <2>1, <2>2, <2>3
<1>5. ~(q < d)
  <2> SUFFICES ASSUME q < d PROVE FALSE
    OBVIOUS
  <2>1. (q + 1) * b <= d * b
    BY <1>3, ProductGrows
  <2>2. (q + 1) * b = q * b + b
    OBVIOUS
  <2>3. d * b \in Nat /\ q * b \in Nat
    BY <1>3, ProductGrows
  <2> QED
    BY <1>3, <2>1, <2>2, <2>3
<1>6. d = q
  BY <1>3, <1>4, <1>5
<1>7. m = r
  <2>1. q * b \in Nat
    BY ProductGrows
  <2> QED
    BY <1>3, <1>6, <2>1
<1> QED
  BY <1>1, <1>6, <1>7

\* The remainder of a sum is that of the sum of a remainder.
LEMMA ModOfSum ==
  ASSUME NEW w \in Nat \ {0}, NEW a \in Nat, NEW t \in Nat
  PROVE  ((a % w) + t) % w = (a + t) % w
<1>1. PICK e, f : e = a \div w /\ f = a % w
  OBVIOUS
<1>2. e \in Nat /\ f \in 0 .. w - 1 /\ a = e * w + f
  BY <1>1, DivModIs
<1>3. PICK g, h : g = (f + t) \div w /\ h = (f + t) % w
  OBVIOUS
<1>4. f + t \in Nat
  BY <1>2
<1>5. g \in Nat /\ h \in 0 .. w - 1 /\ f + t = g * w + h
  BY <1>3, <1>4, DivModIs
<1>6. (e + g) * w = e * w + g * w /\ e * w \in Nat /\ g * w \in Nat
  BY <1>2, <1>5
<1>7. a + t = (e + g) * w + h
  BY <1>2, <1>5, <1>6
<1>8. (a + t) % w = h
  <2>1. PICK q, n : q = e + g /\ n = a + t
    OBVIOUS
  <2>2. q \in Nat /\ n = q * w + h
    BY <1>2, <1>5, <1>7, <2>1
  <2>3. n % w = h
    BY ONLY <1>5, <2>2, w \in Nat \ {0}, DivModUnique
  <2> QED
    BY <2>1, <2>3
<1> QED
  BY <1>1, <1>3, <1>8

\* Two places within a block that leave the same remainder are the same.
LEMMA ModInjective ==
  ASSUME NEW b \in Nat \ {0}, NEW n \in Nat, NEW y \in 0 .. b - 1, NEW z \in 0 .. b - 1,
         (n + y) % b = (n + z) % b
  PROVE  y = z
<1>1. PICK p, q, r : p = (n + y) \div b /\ q = (n + z) \div b /\ r = (n + y) % b
  OBVIOUS
<1>2. p \in Nat /\ r \in 0 .. b - 1 /\ n + y = p * b + r
  <2>1. n + y \in Nat
    OBVIOUS
  <2> QED
    BY <1>1, <2>1, DivModIs
<1>3. q \in Nat /\ n + z = q * b + r
  <2>1. n + z \in Nat
    OBVIOUS
  <2> QED
    BY <1>1, <2>1, DivModIs
<1>4. p * b \in Nat /\ q * b \in Nat
  BY <1>2, <1>3, ProductGrows
<1>5. ~(p < q)
  <2> SUFFICES ASSUME p < q PROVE FALSE
    OBVIOUS
  <2>1. (p + 1) * b <= q * b /\ (p + 1) * b = p * b + b
    BY <1>2, <1>3, ProductGrows
  <2> QED
    BY <1>2, <1>3, <1>4, <2>1
<1>6. ~(q < p)
  <2> SUFFICES ASSUME q < p PROVE FALSE
    OBVIOUS
  <2>1. (q + 1) * b <= p * b /\ (q + 1) * b = q * b + b
    BY <1>2, <1>3, ProductGrows
  <2> QED
    BY <1>2, <1>3, <1>4, <2>1
<1> QED
  BY <1>2, <1>3, <1>4, <1>5, <1>6

-----------------------------------------------------------------------------
(* The length of a message, in two words.                                   *)

\* h and l are the number of bits of n bytes, as far as two words can tell.
Counts(h, l, n) == /\ l = (8 * n) % WordLimit
                   /\ h = ((8 * n) \div WordLimit) % WordLimit

Carry(l, low) == IF l < low THEN 1 ELSE 0

\* What the low word l of a sum tells, where low is that of what was added.
CarryIs(w, x, y, low, l) ==
  low = y % w /\ l = ((x % w) + low) % w =>
    /\ l = (x + y) % w
    /\ (x + y) \div w = (x \div w) + (y \div w) + Carry(l, low)

\* The carry shows in the low word being smaller than what was added to it.
LEMMA CarryShows ==
  ASSUME NEW w \in Nat \ {0}, NEW x \in Nat, NEW y \in Nat, NEW low \in Nat, NEW l \in Nat
  PROVE  CarryIs(w, x, y, low, l)
<1> SUFFICES ASSUME low = y % w, l = ((x % w) + low) % w
             PROVE  /\ l = (x + y) % w
                    /\ (x + y) \div w = (x \div w) + (y \div w) + Carry(l, low)
  BY DEF CarryIs
<1>1. PICK a, r, c : a = x \div w /\ r = x % w /\ c = y \div w
  OBVIOUS
<1>2. /\ a \in Nat /\ r \in 0 .. w - 1 /\ x = a * w + r
      /\ c \in Nat /\ low \in 0 .. w - 1 /\ y = c * w + low
  BY <1>1, DivModIs
<1>3. (a + c) * w = a * w + c * w /\ (a + c + 1) * w = a * w + c * w + w
      /\ a * w \in Nat /\ c * w \in Nat
  BY <1>2
<1>4. ASSUME NEW k \in {0, 1}, NEW v \in 0 .. w - 1, r + low = k * w + v
      PROVE  l = v /\ (x + y) \div w = a + c + k /\ (x + y) % w = v
  <2>1. PICK n, s, q : n = r + low /\ s = x + y /\ q = a + c + k
    OBVIOUS
  <2>2. k \in Nat /\ q \in Nat
    BY <1>2, <2>1
  <2>3. n = k * w + v
    BY <1>4, <2>1
  <2>4. n % w = v
    BY ONLY <1>4, <2>2, <2>3, w \in Nat \ {0}, DivModUnique
  <2>5. q * w = a * w + c * w + k * w
    <3>1. k = 0 => q * w = a * w + c * w + k * w
      BY <1>2, <1>3, <2>1
    <3>2. k = 1 => q * w = a * w + c * w + k * w
      BY <1>2, <1>3, <2>1
    <3> QED
      BY <3>1, <3>2
  <2>6. s = q * w + v
    <3>1. PICK aw, cw, kw : aw = a * w /\ cw = c * w /\ kw = k * w
      OBVIOUS
    <3>2. aw \in Nat /\ cw \in Nat /\ kw \in Nat
      BY <1>2, <2>2, <3>1, ProductGrows
    <3>3. s = aw + r + cw + low /\ r + low = kw + v /\ q * w = aw + cw + kw
      BY <1>2, <1>4, <2>1, <2>5, <3>1
    <3> QED
      BY ONLY <1>2, <1>4, <3>2, <3>3
  <2>7. s \div w = q /\ s % w = v
    BY ONLY <1>4, <2>2, <2>6, w \in Nat \ {0}, DivModUnique
  <2> QED
    BY <1>1, <2>1, <2>4, <2>7
<1>5. CASE r + low < w
  <2>1. r + low \in 0 .. w - 1 /\ r + low = 0 * w + (r + low) /\ 0 \in {0, 1}
    BY <1>2, <1>5
  <2>2. l = r + low /\ (x + y) \div w = a + c + 0 /\ (x + y) % w = r + low
    BY <1>4, <2>1
  <2>3. ~(l < low)
    BY <1>2, <2>2
  <2> QED
    BY <1>1, <1>2, <2>2, <2>3 DEF Carry
<1>6. CASE r + low >= w
  <2>1. r + low - w \in 0 .. w - 1 /\ r + low = 1 * w + (r + low - w) /\ 1 \in {0, 1}
    BY <1>2, <1>6
  <2>2. l = r + low - w /\ (x + y) \div w = a + c + 1 /\ (x + y) % w = r + low - w
    BY <1>4, <2>1
  <2>3. l < low
    BY <1>2, <2>2
  <2> QED
    BY <1>1, <1>2, <2>2, <2>3 DEF Carry
<1> QED
  BY <1>2, <1>5, <1>6 DEF Carry

\* A context with words of four bytes, of elements of T.
Context(T) == [H : Seq(Seq(T)), M : Seq(T), hbits : Nat, lbits : Nat, word : {4}]

\* Data of n bytes are counted.
LEMMA BitsAreCounted ==
  ASSUME NEW U, NEW ctx \in Context(U), NEW m \in Nat, Counts(ctx.hbits, ctx.lbits, m),
         NEW n \in Nat
  PROVE  /\ CountBits(ctx, n) \in Context(U)
         /\ CountBits(ctx, n).H = ctx.H /\ CountBits(ctx, n).M = ctx.M
         /\ Counts(CountBits(ctx, n).hbits, CountBits(ctx, n).lbits, m + n)
<1>0. PICK after : after = CountBits(ctx, n)
  OBVIOUS
<1>1. PICK w : w = WordLimit
  OBVIOUS
<1>2. w \in Nat \ {0}
  BY <1>1, Sha256Assumption
<1>3. PICK low, l, h :
        /\ low = (8 * n) % w /\ l = (ctx.lbits + low) % w
        /\ h = (ctx.hbits + ((8 * n) \div w) + Carry(l, low)) % w
  OBVIOUS
<1>4. after = [ctx EXCEPT !.lbits = l, !.hbits = h]
  <2>1. Limit(ctx.word) = w
    BY <1>1 DEF Limit, Context
  <2> QED
    BY <1>0, <1>1, <1>3, <2>1 DEF CountBits, Carry
<1>5. PICK x, y : x = 8 * m /\ y = 8 * n
  OBVIOUS
<1>6. x \in Nat /\ y \in Nat /\ 8 * (m + n) = x + y
  BY <1>5
<1>7. /\ l = (x + y) % w
      /\ (x + y) \div w = (x \div w) + (y \div w) + Carry(l, low)
  <2>1. l = ((x % w) + low) % w /\ low = y % w
    BY <1>1, <1>3, <1>5 DEF Counts
  <2>2. low \in Nat /\ x % w \in Nat
    BY ONLY <1>2, <1>6, <2>1, DivModIs
  <2>3. (x % w) + low \in Nat
    BY <2>2
  <2>4. l \in Nat
    BY ONLY <1>2, <2>1, <2>3, DivModIs
  <2>5. CarryIs(w, x, y, low, l)
    BY ONLY <1>2, <1>6, <2>2, <2>4, CarryShows
  <2> QED
    BY ONLY <2>1, <2>5, Zenon DEF CarryIs
<1>8. h = ((x + y) \div w) % w
  <2>1. PICK a, c, t, k : a = x \div w /\ c = y \div w /\ k = Carry(l, low) /\ t = c + k
    OBVIOUS
  <2>2. a \in Nat /\ c \in Nat /\ k \in Nat
    <3>1. a \in Nat /\ c \in Nat
      BY ONLY <1>2, <1>6, <2>1, DivModIs
    <3> QED
      BY <2>1, <3>1 DEF Carry
  <2>3. t \in Nat /\ ctx.hbits = a % w
    BY <1>1, <1>5, <2>1, <2>2 DEF Counts
  <2>4. h = ((a % w) + t) % w
    <3>1. PICK e : e = a % w
      OBVIOUS
    <3>2. e \in Nat
      BY ONLY <1>2, <2>2, <3>1, DivModIs
    <3>3. h = (e + c + k) % w
      BY <1>3, <1>5, <2>1, <2>3, <3>1
    <3>4. e + c + k = e + t
      BY <2>1, <2>2, <3>2
    <3> QED
      BY <3>1, <3>3, <3>4
  <2>5. (x + y) \div w = a + t
    <3>1. (x + y) \div w = a + c + k
      BY ONLY <1>7, <2>1
    <3>2. a + c + k = a + t
      BY <2>1, <2>2
    <3> QED
      BY ONLY <3>1, <3>2
  <2>6. ((a % w) + t) % w = (a + t) % w
    BY ONLY <1>2, <2>2, <2>3, ModOfSum
  <2> QED
    BY <2>4, <2>5, <2>6
<1>9. l \in Nat /\ h \in Nat
  <2>1. PICK z, q : z = x + y /\ q = z \div w
    OBVIOUS
  <2>2. z \in Nat
    BY <1>6, <2>1
  <2>3. q \in Nat /\ z % w \in 0 .. w - 1
    BY ONLY <1>2, <2>1, <2>2, DivModIs
  <2>4. q % w \in 0 .. w - 1
    BY ONLY <1>2, <2>3, DivModIs
  <2> QED
    BY <1>2, <1>7, <1>8, <2>1, <2>3, <2>4
<1>10. after \in Context(U) /\ after.H = ctx.H /\ after.M = ctx.M /\ after.hbits = h /\ after.lbits = l
  BY <1>4, <1>9 DEF Context
<1>11. Counts(after.hbits, after.lbits, m + n)
  BY <1>1, <1>6, <1>7, <1>8, <1>10 DEF Counts
<1> QED
  BY <1>0, <1>10, <1>11

-----------------------------------------------------------------------------
(* A message, cut into blocks.                                              *)

\* H are the whole blocks at the start of m, and M is the rest.
Cuts(H, M, m) ==
  /\ Len(m) = Len(H) * BlockBytes + Len(M)
  /\ \A b \in 1 .. Len(H) :
       /\ Len(H[b]) = BlockBytes
       /\ \A i \in 1 .. BlockBytes : H[b][i] = m[(b - 1) * BlockBytes + i]
  /\ \A i \in 1 .. Len(M) : M[i] = m[Len(H) * BlockBytes + i]

\* A block has at least one byte.
LEMMA BlockTyped == BlockBytes \in Nat \ {0}
  BY Sha256Assumption

\* A place of a block is one of those of the blocks.
LEMMA PlaceInBlocks ==
  ASSUME NEW B \in Nat \ {0}, NEW h \in Nat, NEW b \in 1 .. h, NEW i \in 1 .. B
  PROVE  (b - 1) * B + i \in 1 .. h * B
<1>1. PICK p, q : p = b - 1 /\ q = p * B
  OBVIOUS
<1>2. p \in Nat /\ p + 1 <= h
  BY <1>1
<1>3. (p + 1) * B <= h * B /\ (p + 1) * B = q + B /\ q \in Nat /\ h * B \in Nat
  BY <1>1, <1>2, ProductGrows
<1> QED
  BY <1>1, <1>3

\* What comes behind the message comes behind the rest.
LEMMA CutMore ==
  ASSUME NEW U, NEW H \in Seq(Seq(U)), NEW M \in Seq(U), NEW m \in Seq(U), Cuts(H, M, m),
         NEW d \in Seq(U)
  PROVE  Cuts(H, M \o d, m \o d)
<1>1. PICK B, h, t : B = BlockBytes /\ h = Len(H) /\ t = h * B
  OBVIOUS
<1>2. B \in Nat \ {0} /\ h \in Nat /\ t \in Nat
  BY <1>1, BlockTyped, ProductGrows
<1>3. Len(m) = t + Len(M) /\ Len(m) \in Nat /\ Len(M) \in Nat /\ Len(d) \in Nat
  BY <1>1 DEF Cuts
<1>4. Len(m \o d) = t + Len(M \o d)
  <2>1. Len(m \o d) = Len(m) + Len(d) /\ Len(M \o d) = Len(M) + Len(d)
    OBVIOUS
  <2> QED
    BY ONLY <1>2, <1>3, <2>1
<1>5. ASSUME NEW b \in 1 .. h, NEW i \in 1 .. B PROVE H[b][i] = (m \o d)[(b - 1) * B + i]
  <2>1. PICK p : p = (b - 1) * B + i
    OBVIOUS
  <2>2. p \in 1 .. t
    BY <1>1, <1>2, <2>1, PlaceInBlocks
  <2>3. (m \o d)[p] = m[p]
    BY <1>2, <1>3, <2>2
  <2> QED
    BY <1>1, <2>1, <2>3 DEF Cuts
<1>6. ASSUME NEW i \in 1 .. Len(M \o d) PROVE (M \o d)[i] = (m \o d)[t + i]
  <2>1. CASE i <= Len(M)
    <3>1. (M \o d)[i] = M[i] /\ M[i] = m[t + i] /\ t + i \in 1 .. Len(m)
      BY <1>1, <1>2, <1>3, <2>1 DEF Cuts
    <3> QED
      BY <1>3, <3>1
  <2>2. CASE i > Len(M)
    <3>1. PICK j : j = i - Len(M)
      OBVIOUS
    <3>2. j \in 1 .. Len(d) /\ i = Len(M) + j /\ t + i = Len(m) + j
      BY <1>2, <1>3, <2>2, <3>1
    <3> QED
      BY <1>3, <3>2
  <2>3. i \in Nat
    OBVIOUS
  <2>4. i <= Len(M) \/ i > Len(M)
    BY <1>3, <2>3
  <2> QED
    BY ONLY <2>1, <2>2, <2>4, Zenon
<1>7. \A b \in 1 .. h : Len(H[b]) = B
  BY <1>1 DEF Cuts
<1> QED
  BY <1>1, <1>4, <1>5, <1>6, <1>7 DEF Cuts

\* A rest that fills a block is one.
LEMMA CutBlock ==
  ASSUME NEW U, NEW H \in Seq(Seq(U)), NEW M \in Seq(U), NEW m \in Seq(U), Cuts(H, M, m),
         Len(M) = BlockBytes
  PROVE  Cuts(Append(H, M), <<>>, m)
<1>1. PICK B, h, t : B = BlockBytes /\ h = Len(H) /\ t = h * B
  OBVIOUS
<1>2. B \in Nat \ {0} /\ h \in Nat /\ t \in Nat
  BY <1>1, BlockTyped, ProductGrows
<1>3. (h + 1) * B = t + B
  BY <1>1, <1>2
<1>4. Len(Append(H, M)) = h + 1 /\ Len(<<>>) = 0
  BY <1>1, <1>2
<1>5. Len(m) = (h + 1) * B + 0
  BY <1>1, <1>2, <1>3 DEF Cuts
<1>6. ASSUME NEW b \in 1 .. h + 1
      PROVE  /\ Len(Append(H, M)[b]) = B
             /\ \A i \in 1 .. B : Append(H, M)[b][i] = m[(b - 1) * B + i]
  <2>1. CASE b = h + 1
    <3>1. Append(H, M)[b] = M /\ b - 1 = h
      BY <1>1, <1>2, <2>1
    <3>2. (b - 1) * B = t
      BY <1>1, <3>1
    <3> QED
      BY <1>1, <3>1, <3>2 DEF Cuts
  <2>2. CASE b # h + 1
    <3>1. b \in 1 .. h
      BY <1>2, <2>2
    <3>2. Append(H, M)[b] = H[b]
      BY <1>1, <3>1
    <3> QED
      BY <1>1, <3>1, <3>2 DEF Cuts
  <2> QED
    BY <2>1, <2>2
<1>7. PICK G, N : G = Append(H, M) /\ N = <<>>
  OBVIOUS
<1>8. Len(G) = h + 1 /\ Len(N) = 0 /\ 1 .. Len(N) = {}
  BY <1>4, <1>7
<1>9. Len(m) = Len(G) * BlockBytes + Len(N)
  BY ONLY <1>1, <1>5, <1>8
<1>10. ASSUME NEW b \in 1 .. Len(G)
       PROVE  /\ Len(G[b]) = BlockBytes
              /\ \A i \in 1 .. BlockBytes : G[b][i] = m[(b - 1) * BlockBytes + i]
  BY ONLY <1>1, <1>6, <1>7, <1>8, b \in 1 .. Len(G)
<1>11. Cuts(G, N, m)
  BY ONLY <1>8, <1>9, <1>10 DEF Cuts
<1> QED
  BY ONLY <1>7, <1>11

\* A piece of a message is known by its elements.
LEMMA PieceIs ==
  ASSUME NEW U, NEW m \in Seq(U), NEW s \in Seq(U), NEW t \in Nat,
         NEW e \in Nat, e = t + Len(s), e <= Len(m), \A i \in 1 .. Len(s) : s[i] = m[t + i]
  PROVE  s = SubSeq(m, t + 1, e)
<1>1. PICK p : p = SubSeq(m, t + 1, e)
  OBVIOUS
<1>2. p \in Seq(U) /\ Len(p) = Len(s)
  BY <1>1
<1>3. \A i \in 1 .. Len(s) : p[i] = m[t + i]
  BY <1>1
<1>4. p = [i \in 1 .. Len(s) |-> p[i]] /\ s = [i \in 1 .. Len(s) |-> s[i]]
  BY <1>2
<1>5. \A i \in 1 .. Len(s) : p[i] = s[i]
  BY <1>3
<1> QED
  BY ONLY <1>1, <1>4, <1>5

\* What the blocks and the rest are, as pieces of the message.
LEMMA CutsAre ==
  ASSUME NEW U, NEW H \in Seq(Seq(U)), NEW M \in Seq(U), NEW m \in Seq(U), Cuts(H, M, m),
         Len(M) \in 1 .. BlockBytes
  PROVE  Append(H, M) = [b \in 1 .. Len(H) + 1 |->
                           SubSeq(m, (b - 1) * BlockBytes + 1, Smaller(b * BlockBytes, Len(m)))]
<1>1. PICK B, h, t : B = BlockBytes /\ h = Len(H) /\ t = h * B
  OBVIOUS
<1>2. B \in Nat \ {0} /\ h \in Nat /\ t \in Nat
  BY <1>1, BlockTyped, ProductGrows
<1>3. Len(m) = t + Len(M) /\ Len(m) \in Nat /\ Len(M) \in 1 .. B
  BY <1>1 DEF Cuts
<1>4. ASSUME NEW b \in 1 .. h + 1
      PROVE  Append(H, M)[b] = SubSeq(m, (b - 1) * B + 1, Smaller(b * B, Len(m)))
  <2>1. CASE b = h + 1
    <3>1. Append(H, M)[b] = M /\ b - 1 = h
      BY <1>1, <1>2, <2>1
    <3>2. (b - 1) * B = t /\ b * B = t + B
      BY <1>1, <1>2, <2>1, <3>1
    <3>3. Smaller(b * B, Len(m)) = Len(m)
      BY <1>2, <1>3, <3>2 DEF Smaller
    <3>4. M = SubSeq(m, t + 1, Len(m))
      <4>1. \A i \in 1 .. Len(M) : M[i] = m[t + i]
        BY <1>1 DEF Cuts
      <4>2. Len(m) <= Len(m)
        BY <1>3
      <4> QED
        BY ONLY <1>2, <1>3, <4>1, <4>2, M \in Seq(U), m \in Seq(U), PieceIs
    <3> QED
      BY <3>1, <3>2, <3>3, <3>4
  <2>2. CASE b # h + 1
    <3>1. b \in 1 .. h
      BY <1>2, <2>2
    <3>2. Append(H, M)[b] = H[b]
      BY <1>1, <3>1
    <3>3. PICK p, q : p = (b - 1) * B /\ q = b * B
      OBVIOUS
    <3>4. p \in Nat /\ q = p + B /\ q <= t
      <4>1. b \in Nat /\ b - 1 \in Nat /\ b <= h
        BY <1>2, <3>1
      <4>2. p \in Nat /\ q <= t
        <5>1. b * B \in Nat /\ b * B <= h * B
          BY ONLY <1>2, <4>1, ProductGrows
        <5>2. (b - 1) * B \in Nat
          BY ONLY <1>2, <4>1
        <5> QED
          BY ONLY <1>1, <3>3, <5>1, <5>2
      <4>3. q = p + B
        BY ONLY <1>2, <3>3, <4>1
      <4> QED
        BY <4>2, <4>3
    <3>5. Smaller(q, Len(m)) = q
      BY <1>2, <1>3, <3>4 DEF Smaller
    <3>6. H[b] \in Seq(U) /\ Len(H[b]) = B /\ \A i \in 1 .. B : H[b][i] = m[p + i]
      BY <1>1, <3>1, <3>3 DEF Cuts
    <3>7. H[b] = SubSeq(m, p + 1, q)
      BY <1>2, <1>3, <3>4, <3>6, PieceIs
    <3> QED
      BY <3>2, <3>3, <3>5, <3>7
  <2> QED
    BY <2>1, <2>2
<1>5. Append(H, M) = [b \in 1 .. h + 1 |-> Append(H, M)[b]]
  <2>1. PICK a : a = Append(H, M)
    OBVIOUS
  <2>2. a \in Seq(Seq(U)) /\ Len(a) = h + 1
    BY <1>1, <2>1
  <2>3. a = [b \in 1 .. h + 1 |-> a[b]]
    BY <2>2
  <2> QED
    BY <2>1, <2>3
<1> QED
  BY <1>1, <1>4, <1>5

-----------------------------------------------------------------------------
(* SHA256_update.                                                           *)

\* A context that has taken in the message m.
Absorbed(U, ctx, m) ==
  /\ ctx \in Context(U) /\ m \in Seq(U)
  /\ Cuts(ctx.H, ctx.M, m) /\ Len(ctx.M) < BlockBytes
  /\ Counts(ctx.hbits, ctx.lbits, Len(m))

\* A context is empty at first.
LEMMA InitAbsorbs == ASSUME NEW U PROVE Absorbed(U, SHA256_init(4), <<>>)
<1>1. PICK ctx : ctx = SHA256_init(4)
  OBVIOUS
<1>2. ctx.H = <<>> /\ ctx.M = <<>> /\ ctx.hbits = 0 /\ ctx.lbits = 0 /\ ctx \in Context(U)
  BY <1>1 DEF SHA256_init, Context
<1>3. Cuts(<<>>, <<>>, <<>>)
  <2>1. 0 = 0 * BlockBytes + 0
    BY BlockTyped
  <2> QED
    BY <2>1 DEF Cuts
<1>4. Counts(0, 0, 0)
  <2>1. WordLimit \in Nat \ {0}
    BY Sha256Assumption
  <2>2. 0 = 0 * WordLimit + 0 /\ 0 \in 0 .. WordLimit - 1
    BY <2>1
  <2>3. 0 \div WordLimit = 0 /\ 0 % WordLimit = 0
    BY <2>1, <2>2, DivModUnique
  <2>4. 8 * 0 = 0
    OBVIOUS
  <2> QED
    BY <2>3, <2>4 DEF Counts
<1>5. Len(<<>>) = 0 /\ 0 < BlockBytes /\ <<>> \in Seq(U)
  BY BlockTyped
<1> QED
  BY <1>1, <1>2, <1>3, <1>4, <1>5 DEF Absorbed

\* memcpy continues the part of the data that was used.
LEMMA CopyContinues ==
  ASSUME NEW U, NEW data \in Seq(U), NEW u \in 0 .. Len(data), NEW n \in 0 .. Len(data) - u
  PROVE  /\ CopyFrom(data, u, n) \in Seq(U) /\ Len(CopyFrom(data, u, n)) = n
         /\ SubSeq(data, 1, u) \o CopyFrom(data, u, n) = SubSeq(data, 1, u + n)
         /\ SubSeq(data, 1, u) \in Seq(U)
<1>1. PICK a, c, e : /\ a = SubSeq(data, 1, u) /\ c = SubSeq(data, u + 1, u + n)
                     /\ e = SubSeq(data, 1, u + n)
  OBVIOUS
<1>2. u \in Nat /\ n \in Nat /\ u + n <= Len(data) /\ Len(data) \in Nat
  OBVIOUS
<1>3. /\ a \in Seq(U) /\ Len(a) = u
      /\ \A i \in 1 .. u : a[i] = data[i]
  BY <1>1, <1>2
<1>4. /\ c \in Seq(U) /\ Len(c) = n
      /\ \A i \in 1 .. n : c[i] = data[u + i]
  BY <1>1, <1>2
<1>5. e \in Seq(U) /\ Len(e) = u + n /\ \A i \in 1 .. u + n : e[i] = data[i]
  BY <1>1, <1>2
<1>6. PICK s : s = a \o c
  OBVIOUS
<1>7. /\ s \in Seq(U) /\ Len(s) = u + n
      /\ \A i \in 1 .. u : s[i] = a[i]
      /\ \A j \in 1 .. n : s[u + j] = c[j]
  <2>1. /\ a \o c \in Seq(U) /\ Len(a \o c) = Len(a) + Len(c)
        /\ \A i \in 1 .. Len(a) : (a \o c)[i] = a[i]
        /\ \A j \in 1 .. Len(c) : (a \o c)[Len(a) + j] = c[j]
    <3>1. a \in Seq(U) /\ c \in Seq(U)
      BY <1>3, <1>4
    <3>2. a \o c \in Seq(U)
      BY ONLY <3>1
    <3>3. Len(a \o c) = Len(a) + Len(c)
      BY ONLY <3>1
    <3>4. ASSUME NEW i \in 1 .. Len(a) PROVE (a \o c)[i] = a[i]
      BY ONLY <3>1, i \in 1 .. Len(a)
    <3>5. ASSUME NEW j \in 1 .. Len(c) PROVE (a \o c)[Len(a) + j] = c[j]
      BY ONLY <3>1, j \in 1 .. Len(c)
    <3> QED
      BY ONLY <3>2, <3>3, <3>4, <3>5, Zenon
  <2> QED
    BY ONLY <1>3, <1>4, <1>6, <2>1, Zenon
<1>8. ASSUME NEW i \in 1 .. u + n PROVE s[i] = e[i]
  <2>1. CASE i <= u
    BY <1>2, <1>3, <1>5, <1>7, <2>1
  <2>2. CASE i > u
    <3>1. PICK j : j = i - u
      OBVIOUS
    <3>2. j \in 1 .. n /\ i = u + j
      BY <1>2, <2>2, <3>1
    <3> QED
      BY <1>4, <1>5, <1>7, <3>2
  <2> QED
    BY <1>2, <2>1, <2>2
<1>9. s = [i \in 1 .. u + n |-> s[i]] /\ e = [i \in 1 .. u + n |-> e[i]]
  BY <1>5, <1>7
<1>10. s = e
  BY ONLY <1>8, <1>9
<1> QED
  BY <1>1, <1>3, <1>4, <1>6, <1>10 DEF CopyFrom

\* Where SHA256_update is in its loop over the data.
Place(U, data) == [ctx : Context(U), used : 0 .. Len(data)]

\* What is there of a block is all of it, or all there is.
LEMMA SmallerIs ==
  ASSUME NEW a \in Nat, NEW b \in Nat, NEW x, x = Smaller(a, b)
  PROVE  x \in 0 .. b /\ x <= a /\ (x = a \/ x = b)
  BY DEF Smaller

\* A context with another buffer, and one with another block.
LEMMA MoreInBuffer ==
  ASSUME NEW U, NEW ctx \in Context(U), NEW d \in Seq(U)
  PROVE  /\ [ctx EXCEPT !.M = d] \in Context(U)
         /\ [ctx EXCEPT !.M = d].H = ctx.H /\ [ctx EXCEPT !.M = d].M = d
         /\ [ctx EXCEPT !.M = d].hbits = ctx.hbits /\ [ctx EXCEPT !.M = d].lbits = ctx.lbits
  BY DEF Context

\* A block is transformed.
LEMMA TransformIs ==
  ASSUME NEW U, NEW ctx \in Context(U)
  PROVE  /\ SHA256_transform(ctx) \in Context(U)
         /\ SHA256_transform(ctx).H = Append(ctx.H, ctx.M) /\ SHA256_transform(ctx).M = ctx.M
         /\ SHA256_transform(ctx).hbits = ctx.hbits /\ SHA256_transform(ctx).lbits = ctx.lbits
<1>1. PICK H : H = Append(ctx.H, ctx.M)
  OBVIOUS
<1>2. H \in Seq(Seq(U))
  BY <1>1 DEF Context
<1>3. SHA256_transform(ctx) = [ctx EXCEPT !.H = H]
  <2>1. Schedule(ctx) = ctx.M
    BY DEF Schedule, Context
  <2> QED
    BY <1>1, <2>1 DEF SHA256_transform, Context
<1> QED
  BY <1>1, <1>2, <1>3 DEF Context

\* The buffer before the loop, when it has taken the first x bytes.
Filled(U, ctx, m, data, x, t) ==
  /\ x \in 0 .. Len(data) /\ x <= BlockBytes - Len(ctx.M)
  /\ x = BlockBytes - Len(ctx.M) \/ x = Len(data)
  /\ t \in Place(U, data) /\ t.used = x
  /\ t.ctx.H = ctx.H /\ t.ctx.M = ctx.M \o CopyFrom(data, 0, x)
  /\ Counts(t.ctx.hbits, t.ctx.lbits, Len(m) + Len(data))

FirstOf(ctx, data) == Smaller(BlockBytes - Len(ctx.M), Len(data))

\* That is what it is.
LEMMA FillBufferIs ==
  ASSUME NEW U, NEW ctx, NEW m, Absorbed(U, ctx, m), NEW data \in Seq(U)
  PROVE  Filled(U, ctx, m, data, FirstOf(ctx, data), FillBuffer(ctx, data))
<1>0. PICK x, t : x = Smaller(BlockBytes - Len(ctx.M), Len(data)) /\ t = FillBuffer(ctx, data)
  OBVIOUS
<1>1. /\ ctx \in Context(U) /\ Counts(ctx.hbits, ctx.lbits, Len(m))
      /\ Len(ctx.M) \in Nat /\ Len(data) \in Nat /\ Len(m) \in Nat /\ BlockBytes - Len(ctx.M) \in Nat
  BY BlockTyped DEF Absorbed, Context
<1>2. /\ x \in 0 .. Len(data) /\ x <= BlockBytes - Len(ctx.M)
      /\ x = BlockBytes - Len(ctx.M) \/ x = Len(data)
  <2>1. PICK a, b : a = BlockBytes - Len(ctx.M) /\ b = Len(data)
    OBVIOUS
  <2>2. a \in Nat /\ b \in Nat /\ x = Smaller(a, b)
    BY <1>0, <1>1, <2>1
  <2>3. x \in 0 .. b /\ x <= a /\ (x = a \/ x = b)
    BY ONLY <2>2, SmallerIs
  <2> QED
    BY ONLY <2>1, <2>3
<1>3. PICK counted : counted = CountBits(ctx, Len(data))
  OBVIOUS
<1>4. /\ counted \in Context(U) /\ counted.H = ctx.H /\ counted.M = ctx.M
      /\ Counts(counted.hbits, counted.lbits, Len(m) + Len(data))
  <2>1. PICK n, l : n = Len(m) /\ l = Len(data)
    OBVIOUS
  <2>2. n \in Nat /\ l \in Nat /\ Counts(ctx.hbits, ctx.lbits, n)
    BY <1>1, <2>1
  <2>3. /\ CountBits(ctx, l) \in Context(U)
        /\ CountBits(ctx, l).H = ctx.H /\ CountBits(ctx, l).M = ctx.M
        /\ Counts(CountBits(ctx, l).hbits, CountBits(ctx, l).lbits, n + l)
    BY ONLY <1>1, <2>2, BitsAreCounted
  <2> QED
    BY ONLY <1>3, <2>1, <2>3, Zenon
<1>5. PICK copy : copy = CopyFrom(data, 0, x)
  OBVIOUS
<1>6. copy \in Seq(U)
  <2>1. 0 \in 0 .. Len(data) /\ x \in 0 .. Len(data) - 0
    BY <1>1, <1>2
  <2> QED
    BY <1>5, <2>1, CopyContinues
<1>7. t = [ctx |-> [counted EXCEPT !.M = @ \o copy], used |-> x]
  BY <1>0, <1>3, <1>5, Zenon DEF FillBuffer
<1>8. PICK filled : filled = [counted EXCEPT !.M = @ \o copy]
  OBVIOUS
<1>9. /\ filled \in Context(U) /\ filled.H = ctx.H /\ filled.M = ctx.M \o copy
      /\ filled.hbits = counted.hbits /\ filled.lbits = counted.lbits
  <2>1. PICK M : M = counted.M \o copy
    OBVIOUS
  <2>2. M \in Seq(U)
    <3>1. counted.M \in Seq(U)
      BY <1>4 DEF Context
    <3> QED
      BY <1>6, <2>1, <3>1
  <2>3. filled = [counted EXCEPT !.M = M]
    BY <1>8, <2>1
  <2>4. filled \in Context(U) /\ filled.H = counted.H /\ filled.M = M
        /\ filled.hbits = counted.hbits /\ filled.lbits = counted.lbits
    BY <1>4, <2>2, <2>3 DEF Context
  <2> QED
    BY <1>4, <2>1, <2>4
<1>10. t.ctx = filled /\ t.used = x /\ t \in Place(U, data)
  BY <1>2, <1>7, <1>8, <1>9 DEF Place
<1>11. Filled(U, ctx, m, data, x, t)
  BY <1>2, <1>4, <1>5, <1>9, <1>10 DEF Filled
<1> QED
  BY <1>0, <1>11 DEF FirstOf

\* A round with a full buffer.
LEMMA NextBlockIs ==
  ASSUME NEW U, NEW data \in Seq(U), NEW s \in Place(U, data), Len(s.ctx.M) = BlockBytes,
         NEW x, x = Smaller(BlockBytes, Len(data) - s.used), NEW t, t = NextBlock(s, data)
  PROVE  /\ x \in 0 .. Len(data) - s.used /\ x <= BlockBytes
         /\ x = BlockBytes \/ x = Len(data) - s.used
         /\ t \in Place(U, data) /\ t.used = s.used + x
         /\ t.ctx.H = Append(s.ctx.H, s.ctx.M) /\ t.ctx.M = CopyFrom(data, s.used, x)
         /\ t.ctx.hbits = s.ctx.hbits /\ t.ctx.lbits = s.ctx.lbits
<1>1. PICK ctx, u : ctx = s.ctx /\ u = s.used
  OBVIOUS
<1>2. ctx \in Context(U) /\ u \in 0 .. Len(data) /\ Len(data) \in Nat /\ Len(data) - u \in Nat
  BY <1>1 DEF Place
<1>3. x \in 0 .. Len(data) - u /\ x <= BlockBytes /\ (x = BlockBytes \/ x = Len(data) - u)
  <2>1. PICK a, b : a = BlockBytes /\ b = Len(data) - u
    OBVIOUS
  <2>2. a \in Nat /\ b \in Nat /\ x = Smaller(a, b)
    BY <1>1, <1>2, <2>1, BlockTyped
  <2>3. x \in 0 .. b /\ x <= a /\ (x = a \/ x = b)
    BY ONLY <2>2, SmallerIs
  <2> QED
    BY ONLY <2>1, <2>3
<1>4. PICK copy : copy = CopyFrom(data, u, x)
  OBVIOUS
<1>5. copy \in Seq(U)
  BY <1>2, <1>3, <1>4, CopyContinues
<1>6. t = [ctx |-> [SHA256_transform(ctx) EXCEPT !.M = copy], used |-> u + x]
  BY <1>1, <1>4, Zenon DEF NextBlock
<1>7. PICK next : next = [SHA256_transform(ctx) EXCEPT !.M = copy]
  OBVIOUS
<1>8. /\ next \in Context(U) /\ next.H = Append(ctx.H, ctx.M) /\ next.M = copy
      /\ next.hbits = ctx.hbits /\ next.lbits = ctx.lbits
  <2>1. PICK full : full = SHA256_transform(ctx)
    OBVIOUS
  <2>2. full \in Context(U) /\ full.H = Append(ctx.H, ctx.M)
        /\ full.hbits = ctx.hbits /\ full.lbits = ctx.lbits
    BY <1>2, <2>1, TransformIs
  <2>3. next = [full EXCEPT !.M = copy]
    BY <1>7, <2>1
  <2>4. /\ next \in Context(U) /\ next.H = full.H /\ next.M = copy
        /\ next.hbits = full.hbits /\ next.lbits = full.lbits
    BY <1>5, <2>2, <2>3 DEF Context
  <2> QED
    BY <2>2, <2>4
<1>9. u + x \in 0 .. Len(data)
  BY <1>2, <1>3
<1>10. t.ctx = next /\ t.used = u + x /\ t \in Place(U, data)
  BY <1>6, <1>7, <1>8, <1>9 DEF Place
<1> QED
  BY <1>1, <1>3, <1>4, <1>8, <1>10

\* The loop follows its rounds, and the result is what the last one leaves; V is
\* where it is at any of them.
LEMMA UpdateFollows ==
  ASSUME NEW V, NEW ctx, NEW data, FillBuffer(ctx, data) \in V,
         \A s \in V : NextBlock(s, data) \in V,
         NEW n \in Nat, n = 1 + Len(data) \div BlockBytes
  PROVE  \E f : /\ f[0] = FillBuffer(ctx, data)
                /\ \A k \in 1 .. n : f[k] = NextBlock(f[k - 1], data)
                /\ SHA256_update(ctx, data) = f[n].ctx
<1> DEFINE base == FillBuffer(ctx, data)
           step == [p \in (1 .. n) \X V |-> NextBlock(p[2], data)]
           Up(u) == u = [k \in 0 .. 1 + Len(data) \div BlockBytes |->
                           IF k = 0 THEN FillBuffer(ctx, data) ELSE NextBlock(u[k - 1], data)]
           up == CHOOSE u : Up(u)
<1>1. ASSUME NEW s \in V PROVE NextBlock(s, data) \in V
  OBVIOUS
<1>2. base \in V
  OBVIOUS
<1>3. step \in [(1 .. n) \X V -> V]
  <2> SUFFICES ASSUME NEW p \in (1 .. n) \X V PROVE NextBlock(p[2], data) \in V
    OBVIOUS
  <2> QED
    BY <1>1
<1>4. PICK f \in [0 .. n -> V] : Follows(f, n, base, step)
  <2> HIDE DEF base, step
  <2> QED
    BY <1>2, <1>3, RecursionExists
<1>5. ASSUME NEW k \in 1 .. n PROVE f[k] = NextBlock(f[k - 1], data)
  <2> HIDE DEF base
  <2>1. f[k] = step[<<k, f[k - 1]>>]
    BY <1>4 DEF Follows
  <2>2. k - 1 \in 0 .. n
    OBVIOUS
  <2>3. <<k, f[k - 1]>> \in (1 .. n) \X V
    BY <1>4, <2>2
  <2> QED
    BY <2>1, <2>3
<1>6. f[0] = base
  BY <1>4 DEF Follows
<1>7. Up(f)
  <2>1. f = [k \in 0 .. n |-> f[k]]
    BY <1>4
  <2>2. ASSUME NEW k \in 0 .. n
        PROVE  f[k] = IF k = 0 THEN FillBuffer(ctx, data) ELSE NextBlock(f[k - 1], data)
    <3>1. k = 0 \/ k \in 1 .. n
      OBVIOUS
    <3> QED
      BY <1>5, <1>6, <3>1
  <2> QED
    BY <2>1, <2>2
<1>8. Up(up)
  <2> HIDE DEF Up
  <2> QED
    BY <1>7
<1>9. up[0] = FillBuffer(ctx, data)
  <2> HIDE DEF up
  <2>1. 0 \in 0 .. n
    OBVIOUS
  <2> QED
    BY <1>8, <2>1
<1>10. ASSUME NEW k \in 1 .. n PROVE up[k] = NextBlock(up[k - 1], data)
  <2> HIDE DEF up
  <2>1. k \in 0 .. n /\ k # 0
    OBVIOUS
  <2> QED
    BY <1>8, <2>1
<1>11. SHA256_update(ctx, data) = up[n].ctx
  BY DEF SHA256_update
<1> QED
  <2> HIDE DEF up, Up
  <2> QED
    BY <1>9, <1>10, <1>11

\* Putting sequences behind each other.
LEMMA ConcatAssoc ==
  ASSUME NEW U, NEW a \in Seq(U), NEW b \in Seq(U), NEW c \in Seq(U)
  PROVE  (a \o b) \o c = a \o (b \o c)
  OBVIOUS

\* Nothing in front of a sequence leaves it as it is.
LEMMA EmptyFront == ASSUME NEW U, NEW a \in Seq(U) PROVE <<>> \o a = a
  OBVIOUS

\* After k rounds of the loop: what was used of the data is in the blocks and in
\* the buffer; a full buffer means that a block was used in each round.
Within(U, m, data, s, k) ==
  /\ s \in Place(U, data)
  /\ Cuts(s.ctx.H, s.ctx.M, m \o SubSeq(data, 1, s.used))
  /\ Counts(s.ctx.hbits, s.ctx.lbits, Len(m) + Len(data))
  /\ Len(s.ctx.M) <= BlockBytes
  /\ Len(s.ctx.M) = BlockBytes => s.used > k * BlockBytes
  /\ Len(s.ctx.M) < BlockBytes => s.used = Len(data)

\* So it is before the loop,
LEMMA WithinFirst ==
  ASSUME NEW U, NEW ctx, NEW m, Absorbed(U, ctx, m), NEW data \in Seq(U)
  PROVE  Within(U, m, data, FillBuffer(ctx, data), 0)
<1>1. PICK x, t : x = FirstOf(ctx, data) /\ t = FillBuffer(ctx, data)
  OBVIOUS
<1>2. /\ x \in 0 .. Len(data) /\ x <= BlockBytes - Len(ctx.M)
      /\ x = BlockBytes - Len(ctx.M) \/ x = Len(data)
      /\ t \in Place(U, data) /\ t.used = x
      /\ t.ctx.H = ctx.H /\ t.ctx.M = ctx.M \o CopyFrom(data, 0, x)
      /\ Counts(t.ctx.hbits, t.ctx.lbits, Len(m) + Len(data))
  <2>1. Filled(U, ctx, m, data, x, t)
    BY <1>1, FillBufferIs
  <2> QED
    BY <2>1 DEF Filled
<1>3. PICK copy : copy = CopyFrom(data, 0, x)
  OBVIOUS
<1>4. copy \in Seq(U) /\ Len(copy) = x /\ copy = SubSeq(data, 1, x)
  <2>1. 0 \in 0 .. Len(data) /\ x \in 0 .. Len(data) - 0 /\ 0 + 1 = 1 /\ 0 + x = x
    BY <1>2
  <2> QED
    BY <1>3, <2>1, CopyContinues DEF CopyFrom
<1>5. /\ m \in Seq(U) /\ Cuts(ctx.H, ctx.M, m) /\ ctx.H \in Seq(Seq(U)) /\ ctx.M \in Seq(U)
      /\ Len(ctx.M) \in Nat /\ Len(ctx.M) < BlockBytes
  BY DEF Absorbed, Context
<1>6. Cuts(t.ctx.H, t.ctx.M, m \o SubSeq(data, 1, t.used))
  <2>1. Cuts(ctx.H, ctx.M \o copy, m \o copy)
    BY <1>4, <1>5, CutMore
  <2> QED
    BY ONLY <1>2, <1>3, <1>4, <2>1
<1>7. Len(t.ctx.M) = Len(ctx.M) + x
  <2>1. Len(ctx.M \o copy) = Len(ctx.M) + Len(copy)
    BY <1>4, <1>5
  <2> QED
    BY ONLY <1>2, <1>3, <1>4, <2>1
<1>8. /\ Len(t.ctx.M) <= BlockBytes
      /\ Len(t.ctx.M) = BlockBytes => t.used > 0 * BlockBytes
      /\ Len(t.ctx.M) < BlockBytes => t.used = Len(data)
  <2>1. 0 * BlockBytes = 0 /\ BlockBytes \in Nat
    BY BlockTyped
  <2>2. x \in Nat
    BY <1>2
  <2> QED
    BY ONLY <1>2, <1>5, <1>7, <2>1, <2>2
<1> QED
  BY <1>1, <1>2, <1>6, <1>8 DEF Within

\* and it is so after each round.
LEMMA WithinNext ==
  ASSUME NEW U, NEW m \in Seq(U), NEW data \in Seq(U), NEW s, NEW k \in Nat,
         Within(U, m, data, s, k)
  PROVE  Within(U, m, data, NextBlock(s, data), k + 1)
<1>0. s \in Place(U, data) /\ Len(s.ctx.M) \in Nat /\ BlockBytes \in Nat
  BY BlockTyped DEF Within, Place, Context
<1>1. CASE Len(s.ctx.M) # BlockBytes
  <2>1. NextBlock(s, data) = s
    BY <1>1, Zenon DEF NextBlock
  <2> QED
    BY <1>1, <2>1 DEF Within
<1>2. CASE Len(s.ctx.M) = BlockBytes
  <2>1. PICK x, t : x = Smaller(BlockBytes, Len(data) - s.used) /\ t = NextBlock(s, data)
    OBVIOUS
  <2>2. /\ x \in 0 .. Len(data) - s.used /\ x <= BlockBytes
        /\ x = BlockBytes \/ x = Len(data) - s.used
        /\ t \in Place(U, data) /\ t.used = s.used + x
        /\ t.ctx.H = Append(s.ctx.H, s.ctx.M) /\ t.ctx.M = CopyFrom(data, s.used, x)
        /\ t.ctx.hbits = s.ctx.hbits /\ t.ctx.lbits = s.ctx.lbits
    BY <1>0, <1>2, <2>1, NextBlockIs
  <2>3. PICK u, a, copy, H : /\ u = s.used /\ a = SubSeq(data, 1, u) /\ copy = CopyFrom(data, u, x)
                             /\ H = Append(s.ctx.H, s.ctx.M)
    OBVIOUS
  <2>4. u \in 0 .. Len(data) /\ s.ctx.H \in Seq(Seq(U)) /\ s.ctx.M \in Seq(U)
    BY <1>0, <2>3 DEF Place, Context
  <2>5. copy \in Seq(U) /\ Len(copy) = x /\ a \in Seq(U) /\ a \o copy = SubSeq(data, 1, u + x)
    <3>1. u \in 0 .. Len(data) /\ x \in 0 .. Len(data) - u
      BY <2>2, <2>3, <2>4
    <3>2. /\ CopyFrom(data, u, x) \in Seq(U) /\ Len(CopyFrom(data, u, x)) = x
          /\ SubSeq(data, 1, u) \o CopyFrom(data, u, x) = SubSeq(data, 1, u + x)
          /\ SubSeq(data, 1, u) \in Seq(U)
      BY ONLY data \in Seq(U), <3>1, CopyContinues
    <3> QED
      BY ONLY <2>3, <3>2
  <2>6. m \o a \in Seq(U) /\ H \in Seq(Seq(U))
    BY <2>3, <2>4, <2>5
  <2>7. Cuts(H, <<>>, m \o a)
    <3>1. Cuts(s.ctx.H, s.ctx.M, m \o a)
      BY <2>3 DEF Within
    <3> QED
      BY <1>2, <2>3, <2>4, <2>6, <3>1, CutBlock
  <2>8. Cuts(H, <<>> \o copy, (m \o a) \o copy)
    <3>1. <<>> \in Seq(U)
      OBVIOUS
    <3> QED
      BY <2>5, <2>6, <2>7, <3>1, CutMore
  <2>9. Cuts(t.ctx.H, t.ctx.M, m \o SubSeq(data, 1, t.used))
    <3>1. <<>> \o copy = copy
      BY <2>5, EmptyFront
    <3>2. (m \o a) \o copy = m \o (a \o copy)
      <4>1. m \in Seq(U) /\ a \in Seq(U) /\ copy \in Seq(U)
        BY <2>5
      <4> QED
        BY ONLY <4>1, ConcatAssoc
    <3> QED
      BY ONLY <2>2, <2>3, <2>5, <2>8, <3>1, <3>2
  <2>10. /\ Len(t.ctx.M) <= BlockBytes
         /\ Len(t.ctx.M) = BlockBytes => t.used > (k + 1) * BlockBytes
         /\ Len(t.ctx.M) < BlockBytes => t.used = Len(data)
    <3>1. PICK p : p = k * BlockBytes
      OBVIOUS
    <3>2. (k + 1) * BlockBytes = p + BlockBytes /\ p \in Nat
      BY <1>0, <3>1, ProductGrows
    <3>3. u > p
      BY <1>2, <2>3, <3>1 DEF Within
    <3>4. Len(t.ctx.M) = x /\ t.used = u + x /\ Len(data) \in Nat
      BY <2>2, <2>3, <2>5
    <3> QED
      BY ONLY <1>0, <2>2, <2>3, <2>4, <3>2, <3>3, <3>4
  <2>11. Counts(t.ctx.hbits, t.ctx.lbits, Len(m) + Len(data))
    BY <2>2 DEF Within
  <2> QED
    BY <2>1, <2>2, <2>9, <2>10, <2>11 DEF Within
<1> QED
  BY <1>1, <1>2

\* SHA256_update takes in the data.
LEMMA UpdateAbsorbs ==
  ASSUME NEW U, NEW ctx, NEW m, Absorbed(U, ctx, m), NEW data \in Seq(U)
  PROVE  Absorbed(U, SHA256_update(ctx, data), m \o data)
<1>1. PICK n : n = 1 + Len(data) \div BlockBytes
  OBVIOUS
<1>2. /\ n \in Nat /\ Len(data) < n * BlockBytes
  <2>1. PICK l, q, r, B : B = BlockBytes /\ l = Len(data) /\ q = l \div B /\ r = l % B
    OBVIOUS
  <2>2. l \in Nat /\ B \in Nat \ {0}
    BY <2>1, BlockTyped
  <2>3. q \in Nat /\ r \in 0 .. B - 1 /\ l = q * B + r
    BY ONLY <2>1, <2>2, DivModIs
  <2>4. (1 + q) * B = q * B + B /\ q * B \in Nat
    BY <2>2, <2>3
  <2>5. n = 1 + q
    BY <1>1, <2>1
  <2> QED
    BY ONLY <2>1, <2>2, <2>3, <2>4, <2>5
<1>3. Within(U, m, data, FillBuffer(ctx, data), 0)
  BY WithinFirst
<1>4. PICK f : /\ f[0] = FillBuffer(ctx, data)
               /\ \A k \in 1 .. n : f[k] = NextBlock(f[k - 1], data)
               /\ SHA256_update(ctx, data) = f[n].ctx
  <2>1. FillBuffer(ctx, data) \in Place(U, data)
    BY <1>3 DEF Within
  <2>2. ASSUME NEW s \in Place(U, data) PROVE NextBlock(s, data) \in Place(U, data)
    <3>1. CASE Len(s.ctx.M) = BlockBytes
      BY <3>1, NextBlockIs
    <3>2. CASE Len(s.ctx.M) # BlockBytes
      <4>1. NextBlock(s, data) = s
        BY <3>2, Zenon DEF NextBlock
      <4> QED
        BY <4>1
    <3> QED
      BY <3>1, <3>2
  <2> QED
    BY <1>1, <1>2, <2>1, <2>2, UpdateFollows
<1>5. m \in Seq(U)
  BY DEF Absorbed
<1> DEFINE T == {k \in Nat : k <= n => Within(U, m, data, f[k], k)}
<1>6. 0 \in T
  BY <1>3, <1>4
<1>7. ASSUME NEW k \in T PROVE k + 1 \in T
  <2> SUFFICES ASSUME k + 1 <= n PROVE Within(U, m, data, f[k + 1], k + 1)
    OBVIOUS
  <2>1. k \in Nat /\ k <= n /\ Within(U, m, data, f[k], k)
    BY <1>2
  <2>2. k + 1 \in 1 .. n /\ (k + 1) - 1 = k
    BY <1>2, <2>1
  <2>3. f[k + 1] = NextBlock(f[k], data)
    BY <1>4, <2>2
  <2> QED
    BY <1>5, <2>1, <2>3, WithinNext
<1>8. T = Nat
  <2> HIDE DEF T
  <2>1. T \in SUBSET Nat
    BY DEF T
  <2> QED
    BY <1>6, <1>7, <2>1, NatSetInduction
<1>9. PICK s : s = f[n]
  OBVIOUS
<1>10. Within(U, m, data, s, n)
  BY <1>2, <1>8, <1>9
<1> HIDE DEF T
<1>11. s \in Place(U, data) /\ s.ctx \in Context(U) /\ Len(s.ctx.M) \in Nat /\ s.used \in 0 .. Len(data)
  BY <1>10 DEF Within, Place, Context
<1>12. Len(s.ctx.M) < BlockBytes /\ s.used = Len(data)
  <2>1. BlockBytes \in Nat /\ n * BlockBytes \in Nat /\ Len(data) \in Nat
    BY <1>2, BlockTyped, ProductGrows
  <2>2. Len(s.ctx.M) # BlockBytes
    BY <1>2, <1>10, <1>11, <2>1 DEF Within
  <2> QED
    BY <1>10, <1>11, <2>1, <2>2 DEF Within
<1>13. SubSeq(data, 1, s.used) = data
  BY <1>12
<1>14. Len(m \o data) = Len(m) + Len(data) /\ m \o data \in Seq(U)
  BY <1>5
<1> QED
  BY <1>4, <1>9, <1>10, <1>11, <1>12, <1>13, <1>14 DEF Within, Absorbed

-----------------------------------------------------------------------------
(* SHA256_final.                                                            *)

\* The place of the length in the last block.
LengthPlace == BlockBytes - LengthBytes

\* What SHA256_final puts behind the data are elements of U.
HasMarks(U) == Mark \in U /\ <<"zero">> \in U /\ \A h, l \in Nat : <<"length", h, l>> \in U

\* The message with the mark, z zeros and its length behind it; and its blocks.
Padded(m, z) ==
  m \o <<Mark>> \o Zeros(z)
    \o <<<<"length", ((8 * Len(m)) \div WordLimit) % WordLimit, (8 * Len(m)) % WordLimit>>>>
BlocksOf(text, last) ==
  [b \in 1 .. last + 1 |-> SubSeq(text, (b - 1) * BlockBytes + 1, Smaller(b * BlockBytes, Len(text)))]

\* The length has a place of its own in a block, with others before it.
LEMMA LengthPlaceTyped == LengthPlace \in 1 .. BlockBytes - 1
  BY Sha256Assumption DEF LengthPlace

\* So many zeros.
LEMMA ZerosTyped ==
  ASSUME NEW U, <<"zero">> \in U, NEW n \in Nat
  PROVE  Zeros(n) \in Seq(U) /\ Len(Zeros(n)) = n
  BY DEF Zeros

\* Zeros behind zeros.
LEMMA ZerosJoin ==
  ASSUME NEW a \in Nat, NEW b \in Nat
  PROVE  Zeros(a) \o Zeros(b) = Zeros(a + b)
<1> DEFINE zero == <<"zero">>
           U == {zero}
<1>1. PICK x, y, s : x = Zeros(a) /\ y = Zeros(b) /\ s = Zeros(a + b)
  OBVIOUS
<1>2. zero \in U
  OBVIOUS
<1> HIDE DEF U
<1>3. /\ x \in Seq(U) /\ Len(x) = a /\ y \in Seq(U) /\ Len(y) = b
      /\ s \in Seq(U) /\ Len(s) = a + b
  BY <1>1, <1>2, ZerosTyped
<1>4. /\ \A i \in 1 .. a : x[i] = zero
      /\ \A i \in 1 .. b : y[i] = zero
      /\ \A i \in 1 .. a + b : s[i] = zero
  BY <1>1 DEF Zeros
<1> HIDE DEF zero
<1>5. PICK j : j = x \o y
  OBVIOUS
<1>6. j \in Seq(U) /\ Len(j) = a + b
  <2>1. x \o y \in Seq(U)
    BY ONLY <1>3
  <2>2. Len(x \o y) = Len(x) + Len(y)
    BY ONLY <1>3
  <2> QED
    BY ONLY <1>3, <1>5, <2>1, <2>2
<1>7. ASSUME NEW i \in 1 .. a + b PROVE j[i] = zero
  <2>1. CASE i <= a
    <3>1. i \in 1 .. a
      BY <2>1
    <3>2. j[i] = x[i]
      BY ONLY <1>3, <1>5, <3>1, a \in Nat, b \in Nat
    <3> QED
      BY <1>4, <3>1, <3>2
  <2>2. CASE i > a
    <3>1. PICK k : k = i - a
      OBVIOUS
    <3>2. k \in 1 .. b /\ i = a + k
      BY <2>2, <3>1
    <3>3. j[a + k] = y[k]
      BY ONLY <1>3, <1>5, <3>2, a \in Nat
    <3> QED
      BY <1>4, <3>2, <3>3
  <2> QED
    BY <2>1, <2>2
<1>8. j = [i \in 1 .. a + b |-> j[i]] /\ s = [i \in 1 .. a + b |-> s[i]]
  BY <1>3, <1>6
<1>9. j = s
  BY ONLY <1>4, <1>7, <1>8
<1> QED
  BY <1>1, <1>5, <1>9

\* The rest that ends at the place of the length is the last block, with it.
LEMMA LastPlace ==
  ASSUME NEW U, NEW H \in Seq(Seq(U)), NEW M \in Seq(U), NEW m \in Seq(U), Cuts(H, M, m),
         Len(M) = LengthPlace
  PROVE  Len(m) \div BlockBytes = Len(H) /\ Len(m) % BlockBytes = LengthPlace
<1>1. BlockBytes \in Nat \ {0} /\ LengthPlace \in 0 .. BlockBytes - 1
  BY BlockTyped, LengthPlaceTyped
<1>2. PICK q, l : q = Len(H) /\ l = Len(m)
  OBVIOUS
<1>3. q \in Nat /\ l = q * BlockBytes + LengthPlace
  BY <1>2 DEF Cuts
<1>4. l \div BlockBytes = q /\ l % BlockBytes = LengthPlace
  BY ONLY <1>1, <1>3, DivModUnique
<1> QED
  BY ONLY <1>2, <1>4

\* The element at that place completes the last block.
LEMMA LastBlock ==
  ASSUME NEW U, NEW H \in Seq(Seq(U)), NEW M \in Seq(U), NEW m \in Seq(U), Cuts(H, M, m),
         Len(M) = LengthPlace, NEW e \in U
  PROVE  Append(H, M \o <<e>>) = BlocksOf(m \o <<e>>, Len(H))
<1>1. BlockBytes \in Nat \ {0} /\ LengthPlace \in 0 .. BlockBytes - 1 /\ LengthPlace + 1 \in 1 .. BlockBytes
  BY BlockTyped, LengthPlaceTyped
<1>3. PICK N, n : N = M \o <<e>> /\ n = m \o <<e>>
  OBVIOUS
<1>4. <<e>> \in Seq(U)
  OBVIOUS
<1>5. N \in Seq(U) /\ n \in Seq(U) /\ Len(N) = LengthPlace + 1
  BY <1>1, <1>3, <1>4
<1>6. Cuts(H, N, n)
  BY <1>3, <1>4, CutMore
<1>7. Append(H, N) = BlocksOf(n, Len(H))
  <2>1. Len(N) \in 1 .. BlockBytes
    BY ONLY <1>1, <1>5
  <2>2. H \in Seq(Seq(U))
    OBVIOUS
  <2>3. Append(H, N) = [b \in 1 .. Len(H) + 1 |->
                          SubSeq(n, (b - 1) * BlockBytes + 1, Smaller(b * BlockBytes, Len(n)))]
    BY ONLY <1>5, <1>6, <2>1, <2>2, CutsAre
  <2> QED
    BY <2>3 DEF BlocksOf
<1> QED
  BY <1>3, <1>7

\* The blocks that SHA256_final leaves, where N are the buffer and the mark.
LEMMA FinalShort ==
  ASSUME NEW U, NEW ctx \in Context(U), Len(ctx.M) < LengthPlace, NEW N, N = Append(ctx.M, Mark)
  PROVE  SHA256_final(ctx).H =
           Append(ctx.H, Append(N \o Zeros(LengthPlace - Len(N)), <<"length", ctx.hbits, ctx.lbits>>))
<1>1. PICK e : e = LengthField(ctx)
  OBVIOUS
<1>2. PICK marked : marked = [ctx EXCEPT !.M = Append(@, Mark)]
  OBVIOUS
<1>3. PICK padded : padded = [marked EXCEPT !.M = @ \o Zeros(LengthPlace - Len(@))]
  OBVIOUS
<1>4. PICK ready : ready = [padded EXCEPT !.M = Append(@, e)]
  OBVIOUS
<1>5. SHA256_final(ctx) = SHA256_transform(ready)
  BY <1>1, <1>2, <1>3, <1>4, Zenon DEF SHA256_final, LengthPlace
<1>6. ctx.word = 4 /\ DOMAIN ctx = {"H", "M", "hbits", "lbits", "word"}
  BY DEF Context
<1>0. e = <<"length", ctx.hbits, ctx.lbits>>
  BY <1>1, <1>6 DEF LengthField
<1>7. marked.M = N /\ marked.H = ctx.H /\ DOMAIN marked = DOMAIN ctx /\ marked.word = 4
  BY <1>2, <1>6
<1>8. /\ padded.M = N \o Zeros(LengthPlace - Len(N)) /\ padded.H = ctx.H
      /\ DOMAIN padded = DOMAIN ctx /\ padded.word = 4
  BY <1>3, <1>6, <1>7
<1>9. /\ ready.M = Append(N \o Zeros(LengthPlace - Len(N)), e) /\ ready.H = ctx.H
      /\ DOMAIN ready = DOMAIN ctx /\ ready.word = 4
  BY <1>4, <1>6, <1>8
<1>10. SHA256_transform(ready).H = Append(ready.H, ready.M)
  BY <1>6, <1>9 DEF SHA256_transform, Schedule
<1> QED
  BY <1>0, <1>5, <1>9, <1>10

\* SHA256_final when the mark does not leave room for the length.
LEMMA FinalLong ==
  ASSUME NEW U, NEW ctx \in Context(U), ~(Len(ctx.M) < LengthPlace), NEW N, N = Append(ctx.M, Mark)
  PROVE  SHA256_final(ctx).H =
           Append(Append(ctx.H, N \o Zeros(BlockBytes - Len(N))),
                  Append(Zeros(LengthPlace), <<"length", ctx.hbits, ctx.lbits>>))
<1>1. PICK e : e = LengthField(ctx)
  OBVIOUS
<1>2. PICK marked : marked = [ctx EXCEPT !.M = Append(@, Mark)]
  OBVIOUS
<1>3. PICK padded : padded = [marked EXCEPT !.M = @ \o Zeros(BlockBytes - Len(@))]
  OBVIOUS
<1>4. PICK next : next = [SHA256_transform(padded) EXCEPT !.M = Zeros(LengthPlace)]
  OBVIOUS
<1>5. PICK ready : ready = [next EXCEPT !.M = Append(@, e)]
  OBVIOUS
<1>6. SHA256_final(ctx) = SHA256_transform(ready)
  BY <1>1, <1>2, <1>3, <1>4, <1>5, Zenon DEF SHA256_final, LengthPlace
<1>7. ctx.word = 4 /\ DOMAIN ctx = {"H", "M", "hbits", "lbits", "word"}
  BY DEF Context
<1>0. e = <<"length", ctx.hbits, ctx.lbits>>
  BY <1>1, <1>7 DEF LengthField
<1>8. marked.M = N /\ marked.H = ctx.H /\ DOMAIN marked = DOMAIN ctx /\ marked.word = 4
  BY <1>2, <1>7
<1>9. /\ padded.M = N \o Zeros(BlockBytes - Len(N)) /\ padded.H = ctx.H
      /\ DOMAIN padded = DOMAIN ctx /\ padded.word = 4
  BY <1>3, <1>7, <1>8
<1>10. /\ next.M = Zeros(LengthPlace) /\ next.H = Append(ctx.H, N \o Zeros(BlockBytes - Len(N)))
       /\ DOMAIN next = DOMAIN ctx /\ next.word = 4
  BY <1>4, <1>7, <1>9 DEF SHA256_transform, Schedule
<1>11. /\ ready.M = Append(Zeros(LengthPlace), e) /\ ready.H = next.H
       /\ DOMAIN ready = DOMAIN ctx /\ ready.word = 4
  BY <1>5, <1>7, <1>10
<1>12. SHA256_transform(ready).H = Append(ready.H, ready.M)
  BY <1>7, <1>11 DEF SHA256_transform, Schedule
<1> QED
  BY <1>0, <1>6, <1>10, <1>11, <1>12

\* With words of four bytes (Context), SHA256_final leaves the blocks of the padded
\* message: the mark, as many zeros as bring the length to its place, and the
\* length in two words.
THEOREM FinalPads ==
  ASSUME NEW U, HasMarks(U), NEW ctx, NEW m, Absorbed(U, ctx, m)
  PROVE  \E z \in 0 .. BlockBytes - 1 :
           /\ (Len(m) + 1 + z) % BlockBytes = LengthPlace
           /\ SHA256_final(ctx).H = BlocksOf(Padded(m, z), (Len(m) + 1 + z) \div BlockBytes)
<1>1. PICK M, H, l, e : M = ctx.M /\ H = ctx.H /\ l = Len(M) /\ e = <<"length", ctx.hbits, ctx.lbits>>
  OBVIOUS
<1>2. /\ ctx \in Context(U) /\ M \in Seq(U) /\ H \in Seq(Seq(U)) /\ m \in Seq(U) /\ Cuts(H, M, m)
      /\ l \in Nat /\ l < BlockBytes /\ ctx.hbits \in Nat /\ ctx.lbits \in Nat
      /\ Counts(ctx.hbits, ctx.lbits, Len(m)) /\ Len(m) \in Nat
  BY <1>1 DEF Absorbed, Context
<1>3. e \in U /\ Mark \in U /\ <<"zero">> \in U
  BY <1>1, <1>2 DEF HasMarks
<1>4. BlockBytes \in Nat /\ LengthPlace \in 1 .. BlockBytes - 1
  BY BlockTyped, LengthPlaceTyped
<1>5. e = <<"length", ((8 * Len(m)) \div WordLimit) % WordLimit, (8 * Len(m)) % WordLimit>>
  BY <1>1, <1>2 DEF Counts
<1>6. PICK x, N, n : x = <<Mark>> /\ N = M \o x /\ n = m \o x
  OBVIOUS
<1>7. x \in Seq(U) /\ Len(x) = 1
  BY <1>3, <1>6
<1>8. N \in Seq(U) /\ n \in Seq(U) /\ Cuts(H, N, n) /\ Len(N) = l + 1 /\ Len(n) = Len(m) + 1
  <2>1. N \in Seq(U) /\ Len(N) = Len(M) + Len(x)
    BY ONLY <1>2, <1>6, <1>7
  <2>2. n \in Seq(U) /\ Len(n) = Len(m) + Len(x)
    BY ONLY <1>2, <1>6, <1>7
  <2>3. Cuts(H, N, n)
    BY ONLY <1>2, <1>6, <1>7, CutMore
  <2> QED
    BY <1>1, <1>2, <1>7, <2>1, <2>2, <2>3
<1>9. Append(M, Mark) = N
  BY <1>2, <1>3, <1>6
<1>10. ASSUME NEW z \in Nat, NEW G \in Seq(Seq(U)), NEW R \in Seq(U), Len(R) = LengthPlace,
              Cuts(G, R, n \o Zeros(z)), SHA256_final(ctx).H = Append(G, Append(R, e)),
              z < BlockBytes
       PROVE  /\ z \in 0 .. BlockBytes - 1 /\ (Len(m) + 1 + z) % BlockBytes = LengthPlace
              /\ SHA256_final(ctx).H = BlocksOf(Padded(m, z), (Len(m) + 1 + z) \div BlockBytes)
  <2>1. PICK y, t : y = Zeros(z) /\ t = n \o y
    OBVIOUS
  <2>2. y \in Seq(U) /\ Len(y) = z
    BY <1>3, <2>1, ZerosTyped
  <2>3. t \in Seq(U) /\ Len(t) = Len(n) + Len(y)
    <3>1. n \in Seq(U) /\ y \in Seq(U)
      BY <1>8, <2>2
    <3>2. n \o y \in Seq(U)
      BY ONLY <3>1
    <3>3. Len(n \o y) = Len(n) + Len(y)
      BY ONLY <3>1
    <3> QED
      BY ONLY <2>1, <3>2, <3>3
  <2>4. /\ Len(t) \div BlockBytes = Len(G) /\ Len(t) % BlockBytes = LengthPlace
        /\ Append(G, R \o <<e>>) = BlocksOf(t \o <<e>>, Len(G))
    <3>1. /\ G \in Seq(Seq(U)) /\ R \in Seq(U) /\ t \in Seq(U) /\ Cuts(G, R, t)
          /\ Len(R) = LengthPlace /\ e \in U
      BY <1>3, <1>10, <2>1, <2>3
    <3>2. Len(t) \div BlockBytes = Len(G) /\ Len(t) % BlockBytes = LengthPlace
      BY ONLY <3>1, LastPlace
    <3>3. Append(G, R \o <<e>>) = BlocksOf(t \o <<e>>, Len(G))
      BY ONLY <3>1, LastBlock, Zenon
    <3> QED
      BY ONLY <3>1, <3>2, <3>3
  <2>5. Len(t) = Len(m) + 1 + z
    BY <1>2, <1>8, <2>2, <2>3
  <2>6. t \o <<e>> = Padded(m, z)
    BY <1>5, <1>6, <2>1 DEF Padded
  <2>7. Append(R, e) = R \o <<e>>
    BY <1>3, <1>10
  <2>8. z \in 0 .. BlockBytes - 1
    BY <1>4, <1>10
  <2>9. SHA256_final(ctx).H = Append(G, Append(R, e))
    BY <1>10
  <2>10. SHA256_final(ctx).H = BlocksOf(Padded(m, z), Len(G))
    BY ONLY <2>4, <2>6, <2>7, <2>9
  <2> QED
    BY ONLY <2>4, <2>5, <2>8, <2>10
<1>11. CASE l < LengthPlace
  <2>1. PICK z, y : z = LengthPlace - (l + 1) /\ y = Zeros(z)
    OBVIOUS
  <2>2. z \in Nat /\ z < BlockBytes
    BY <1>2, <1>4, <1>11, <2>1
  <2>3. y \in Seq(U) /\ Len(y) = z
    BY <1>3, <2>1, <2>2, ZerosTyped
  <2>4. N \o y \in Seq(U) /\ Cuts(H, N \o y, n \o y)
    BY <1>2, <1>8, <2>3, CutMore
  <2>5. Len(N \o y) = Len(N) + Len(y)
    BY ONLY <1>8, <2>3
  <2>6. Len(N \o y) = LengthPlace
    BY <1>2, <1>4, <1>8, <2>1, <2>3, <2>5
  <2>7. SHA256_final(ctx).H = Append(H, Append(N \o y, e))
    BY <1>1, <1>2, <1>8, <1>9, <1>11, <2>1, FinalShort
  <2> QED
    BY <1>2, <1>10, <2>1, <2>2, <2>4, <2>6, <2>7
<1>12. CASE ~(l < LengthPlace)
  <2>1. PICK a, y, w, z : a = BlockBytes - (l + 1) /\ y = Zeros(a) /\ w = Zeros(LengthPlace) /\ z = a + LengthPlace
    OBVIOUS
  <2>2. a \in Nat /\ z \in Nat /\ z < BlockBytes /\ LengthPlace \in Nat
    BY <1>2, <1>4, <1>12, <2>1
  <2>3. y \in Seq(U) /\ Len(y) = a /\ w \in Seq(U) /\ Len(w) = LengthPlace
    BY <1>3, <2>1, <2>2, ZerosTyped
  <2>4. PICK B, t : B = N \o y /\ t = n \o y
    OBVIOUS
  <2>5. B \in Seq(U) /\ t \in Seq(U) /\ Len(B) = Len(N) + Len(y)
    <3>1. N \in Seq(U) /\ n \in Seq(U) /\ y \in Seq(U)
      BY <1>8, <2>3
    <3>2. N \o y \in Seq(U) /\ n \o y \in Seq(U)
      BY ONLY <3>1
    <3>3. Len(N \o y) = Len(N) + Len(y)
      BY ONLY <3>1
    <3> QED
      BY ONLY <2>4, <3>2, <3>3
  <2>6. Len(B) = BlockBytes
    BY <1>2, <1>4, <1>8, <2>1, <2>3, <2>5
  <2>7. Cuts(H, B, t)
    BY <1>2, <1>8, <2>3, <2>4, CutMore
  <2>8. PICK G : G = Append(H, B)
    OBVIOUS
  <2>9. G \in Seq(Seq(U)) /\ Cuts(G, <<>>, t)
    <3>1. H \in Seq(Seq(U)) /\ B \in Seq(U) /\ t \in Seq(U)
      BY <1>2, <2>5
    <3>2. Append(H, B) \in Seq(Seq(U))
      BY <3>1
    <3>3. Cuts(Append(H, B), <<>>, t)
      BY ONLY <2>6, <2>7, <3>1, CutBlock
    <3> QED
      BY ONLY <2>8, <3>2, <3>3
  <2>10. Cuts(G, w, n \o Zeros(z))
    <3>1. <<>> \in Seq(U)
      OBVIOUS
    <3>2. Cuts(G, <<>> \o w, t \o w)
      BY <2>3, <2>5, <2>9, <3>1, CutMore
    <3>3. <<>> \o w = w
      BY <2>3, EmptyFront
    <3>4. (n \o y) \o w = n \o (y \o w)
      <4>1. n \in Seq(U) /\ y \in Seq(U) /\ w \in Seq(U)
        BY <1>8, <2>3
      <4> QED
        BY ONLY <4>1, ConcatAssoc
    <3>5. y \o w = Zeros(z)
      BY <2>1, <2>2, ZerosJoin
    <3> QED
      BY ONLY <2>4, <3>2, <3>3, <3>4, <3>5
  <2>11. SHA256_final(ctx).H = Append(G, Append(w, e))
    BY <1>1, <1>2, <1>8, <1>9, <1>12, <2>1, <2>4, <2>8, FinalLong
  <2> QED
    BY <1>10, <2>2, <2>3, <2>9, <2>10, <2>11
<1> QED
  BY <1>11, <1>12

-----------------------------------------------------------------------------
(* Words of eight bytes.                                                    *)

\* A context with such words, whose schedules hold Unset as well; and where
\* SHA256_update is in its loop over the data.
WideContext(T) ==
  [H : Seq(Seq(T \cup {Unset})), M : Seq(T), hbits : Nat, lbits : Nat, word : {8}]
Wide(T) == {c \in WideContext(T) : Len(c.M) <= BlockBytes}
WidePlace(T, data) == [ctx : Wide(T), used : 0 .. Len(data)]

\* SHA256_init makes one.
LEMMA WideInit == ASSUME NEW U PROVE SHA256_init(8) \in Wide(U)
<1>1. <<>> \in Seq(U) /\ <<>> \in Seq(Seq(U \cup {Unset})) /\ Len(<<>>) = 0 /\ 0 <= BlockBytes
  BY BlockTyped
<1> QED
  BY <1>1 DEF SHA256_init, Wide, WideContext

\* Another buffer.
LEMMA WideBuffer ==
  ASSUME NEW U, NEW ctx \in WideContext(U), NEW d \in Seq(U), Len(d) <= BlockBytes
  PROVE  [ctx EXCEPT !.M = d] \in Wide(U)
  BY DEF Wide, WideContext

\* The bits are counted.
LEMMA WideBits ==
  ASSUME NEW U, NEW ctx \in WideContext(U), NEW n \in Nat
  PROVE  CountBits(ctx, n) \in WideContext(U) /\ CountBits(ctx, n).M = ctx.M
<1>1. PICK w, limit, bits : w = WordLimit /\ limit = Limit(8) /\ bits = 8 * n
  OBVIOUS
<1>2. w \in Nat \ {0} /\ limit \in Nat \ {0} /\ bits \in Nat
  <2>1. w \in Nat \ {0} /\ limit = w * w
    BY <1>1, Sha256Assumption DEF Limit
  <2>2. w * w \in Nat \ {0}
    BY <2>1, ProductGrows
  <2> QED
    BY <1>1, <2>1, <2>2
<1>3. ASSUME NEW a \in Nat, NEW b \in Nat \ {0} PROVE a \div b \in Nat /\ a % b \in Nat
  BY ONLY <1>3, DivModIs
<1>4. PICK low, lbits, high, hbits :
        /\ low = bits % limit /\ lbits = (ctx.lbits + low) % limit
        /\ high = bits \div w
        /\ hbits = (ctx.hbits + high + (IF lbits < low THEN 1 ELSE 0)) % limit
  OBVIOUS
<1>5. low \in Nat /\ high \in Nat
  BY <1>2, <1>3, <1>4
<1>6. lbits \in Nat
  <2>1. ctx.lbits + low \in Nat
    BY <1>5 DEF WideContext
  <2> QED
    BY <1>2, <1>3, <1>4, <2>1
<1>7. hbits \in Nat
  <2>1. ctx.hbits + high + (IF lbits < low THEN 1 ELSE 0) \in Nat
    BY <1>5 DEF WideContext
  <2> QED
    BY <1>2, <1>3, <1>4, <2>1
<1>8. CountBits(ctx, n) = [ctx EXCEPT !.lbits = lbits, !.hbits = hbits]
  <2>1. Limit(ctx.word) = limit
    BY <1>1 DEF WideContext
  <2> QED
    BY <1>1, <1>4, <2>1 DEF CountBits, WideContext
<1> QED
  BY <1>6, <1>7, <1>8 DEF WideContext

\* The first bytes fill up the buffer.
LEMMA WideFill ==
  ASSUME NEW U, NEW ctx \in Wide(U), NEW data \in Seq(U)
  PROVE  FillBuffer(ctx, data) \in WidePlace(U, data)
<1>1. PICK a, l, x : /\ a = BlockBytes - Len(ctx.M) /\ l = Len(data)
                     /\ x = Smaller(a, l)
  OBVIOUS
<1>2. a \in Nat /\ l \in Nat /\ Len(ctx.M) \in Nat /\ ctx \in WideContext(U) /\ ctx.M \in Seq(U)
  BY <1>1, BlockTyped DEF Wide, WideContext
<1>3. x \in 0 .. l /\ x <= a
  BY ONLY <1>1, <1>2, SmallerIs
<1>4. PICK counted : counted = CountBits(ctx, l)
  OBVIOUS
<1>5. counted \in WideContext(U) /\ counted.M = ctx.M
  BY <1>2, <1>4, WideBits
<1>6. PICK copy : copy = CopyFrom(data, 0, x)
  OBVIOUS
<1>7. copy \in Seq(U) /\ Len(copy) = x
  <2>1. 0 \in 0 .. Len(data) /\ x \in 0 .. Len(data) - 0
    BY <1>1, <1>2, <1>3
  <2> QED
    BY <1>6, <2>1, CopyContinues
<1>8. PICK M : M = ctx.M \o copy
  OBVIOUS
<1>9. M \in Seq(U) /\ Len(M) <= BlockBytes
  BY <1>1, <1>2, <1>3, <1>7, <1>8, BlockTyped
<1>10. PICK filled : filled = [counted EXCEPT !.M = M]
  OBVIOUS
<1>11. filled \in Wide(U)
  BY <1>5, <1>9, <1>10, WideBuffer
<1>12. FillBuffer(ctx, data) = [ctx |-> [counted EXCEPT !.M = @ \o copy], used |-> x]
  BY <1>1, <1>4, <1>6, Zenon DEF FillBuffer
<1>13. filled = [counted EXCEPT !.M = @ \o copy]
  BY <1>5, <1>8, <1>10
<1> QED
  BY <1>1, <1>3, <1>11, <1>12, <1>13 DEF WidePlace

\* A round of the loop.
LEMMA WideNext ==
  ASSUME NEW U, NEW data \in Seq(U), NEW s \in WidePlace(U, data)
  PROVE  NextBlock(s, data) \in WidePlace(U, data)
<1>1. PICK ctx, u, l, x : /\ ctx = s.ctx /\ u = s.used /\ l = Len(data)
                          /\ x = Smaller(BlockBytes, l - u)
  OBVIOUS
<1>2. ctx \in Wide(U) /\ u \in 0 .. l /\ l \in Nat /\ l - u \in Nat
  BY <1>1 DEF WidePlace
<1>3. x \in 0 .. l - u /\ x <= BlockBytes
  BY ONLY <1>1, <1>2, BlockTyped, SmallerIs
<1>4. CASE Len(ctx.M) # BlockBytes
  <2>1. NextBlock(s, data) = s
    BY <1>1, <1>4, Zenon DEF NextBlock
  <2> QED
    BY <2>1
<1>5. CASE Len(ctx.M) = BlockBytes
  <2>1. PICK copy, full, next : /\ copy = CopyFrom(data, u, x)
                                /\ full = SHA256_transform(ctx)
                                /\ next = [full EXCEPT !.M = copy]
    OBVIOUS
  <2>2. copy \in Seq(U) /\ Len(copy) = x
    BY <1>1, <1>2, <1>3, <2>1, CopyContinues
  <2>3. full \in WideContext(U)
    <3>1. PICK B, H : B = Append(ctx.M, Unset) /\ H = Append(ctx.H, B)
      OBVIOUS
    <3>2. B \in Seq(U \cup {Unset})
      <4>1. PICK M, T : M = ctx.M /\ T = U \cup {Unset}
        OBVIOUS
      <4>2. M \in Seq(U) /\ U \subseteq T /\ Unset \in T
        BY <1>2, <4>1 DEF Wide, WideContext
      <4>3. M \in Seq(T)
        BY <4>2
      <4>4. Append(M, Unset) \in Seq(T)
        BY <4>2, <4>3
      <4> QED
        BY <3>1, <4>1, <4>4
    <3>3. H \in Seq(Seq(U \cup {Unset}))
      <4>1. PICK G, Q : G = ctx.H /\ Q = Seq(U \cup {Unset})
        OBVIOUS
      <4>2. G \in Seq(Q) /\ B \in Q
        BY <1>2, <3>2, <4>1 DEF Wide, WideContext
      <4>3. Append(G, B) \in Seq(Q)
        BY <4>2
      <4> QED
        BY <3>1, <4>1, <4>3
    <3>4. Schedule(ctx) = B
      BY <1>2, <3>1 DEF Schedule, Wide, WideContext
    <3>5. full = [ctx EXCEPT !.H = H]
      BY <1>2, <2>1, <3>1, <3>4 DEF SHA256_transform, Wide, WideContext
    <3> QED
      BY <1>2, <3>3, <3>5 DEF Wide, WideContext
  <2>4. next \in Wide(U)
    BY <1>3, <2>1, <2>2, <2>3, WideBuffer
  <2>5. NextBlock(s, data) = [ctx |-> next, used |-> u + x]
    BY <1>1, <1>5, <2>1, Zenon DEF NextBlock
  <2>6. u + x \in 0 .. l
    BY <1>2, <1>3
  <2> QED
    BY <1>1, <2>4, <2>5, <2>6 DEF WidePlace
<1> QED
  BY <1>4, <1>5

\* Such a context remains one.
LEMMA WideUpdate ==
  ASSUME NEW U, NEW ctx \in Wide(U), NEW data \in Seq(U)
  PROVE  SHA256_update(ctx, data) \in Wide(U)
<1> DEFINE V == WidePlace(U, data)
<1>1. PICK n : n = 1 + Len(data) \div BlockBytes
  OBVIOUS
<1>2. n \in Nat
  <2>1. Len(data) \div BlockBytes \in Nat
    BY BlockTyped, DivModIs
  <2> QED
    BY <1>1, <2>1
<1>3. FillBuffer(ctx, data) \in V /\ \A s \in V : NextBlock(s, data) \in V
  BY WideFill, WideNext
<1> HIDE DEF V
<1>4. PICK f : /\ f[0] = FillBuffer(ctx, data)
               /\ \A k \in 1 .. n : f[k] = NextBlock(f[k - 1], data)
               /\ SHA256_update(ctx, data) = f[n].ctx
  BY <1>1, <1>2, <1>3, UpdateFollows
<1> DEFINE T == {k \in Nat : k <= n => f[k] \in V}
<1>5. 0 \in T
  BY <1>3, <1>4
<1>6. ASSUME NEW k \in T PROVE k + 1 \in T
  <2> SUFFICES ASSUME k + 1 <= n PROVE f[k + 1] \in V
    OBVIOUS
  <2>1. k \in Nat /\ f[k] \in V
    BY <1>2
  <2>2. k + 1 \in 1 .. n /\ (k + 1) - 1 = k
    BY <1>2, <2>1
  <2>3. f[k + 1] = NextBlock(f[k], data)
    BY <1>4, <2>2
  <2> QED
    BY <1>3, <2>1, <2>3
<1>7. T = Nat
  <2> HIDE DEF T
  <2>1. T \in SUBSET Nat
    BY DEF T
  <2> QED
    BY <1>5, <1>6, <2>1, NatSetInduction
<1>8. f[n] \in V
  BY <1>2, <1>7
<1> QED
  BY <1>4, <1>8 DEF V, WidePlace

\* What SHA256_final makes of the fields of such a context: lbits is not among them.
WideFinal(H, M, hbits) ==
  LET N == Append(M, Mark)
      last(B) == Append(Append(B, <<"length", hbits>>), Unset)
  IN  IF Len(M) < LengthPlace
      THEN Append(H, last(N \o Zeros(LengthPlace - Len(N))))
      ELSE Append(Append(H, Append(N \o Zeros(BlockBytes - Len(N)), Unset)),
                  last(Zeros(LengthPlace)))

\* With words of eight bytes, the blocks that SHA256_final leaves depend on H, M and
\* hbits only: the bytes after those of hbits are not copied, and lbits, in which the
\* length of all but the longest messages is, does not get into the digest.
THEOREM LowWordIsDropped ==
  ASSUME NEW U, NEW ctx \in WideContext(U)
  PROVE  SHA256_final(ctx).H = WideFinal(ctx.H, ctx.M, ctx.hbits)
<1>1. PICK N, e, free, fields : /\ N = Append(ctx.M, Mark) /\ e = <<"length", ctx.hbits>>
                                /\ free = LengthPlace
                                /\ fields = {"H", "M", "hbits", "lbits", "word"}
  OBVIOUS
<1>2. ctx.word = 8 /\ DOMAIN ctx = fields /\ LengthField(ctx) = e
  BY <1>1 DEF WideContext, LengthField
<1>3. ASSUME NEW c, DOMAIN c = fields, c.word = 8
      PROVE  /\ DOMAIN SHA256_transform(c) = fields /\ SHA256_transform(c).word = 8
             /\ SHA256_transform(c).H = Append(c.H, Append(c.M, Unset))
  BY <1>1, <1>3 DEF SHA256_transform, Schedule
<1>4. ASSUME NEW c, DOMAIN c = fields, c.word = 8, NEW d, NEW M, d = [c EXCEPT !.M = M]
      PROVE  DOMAIN d = fields /\ d.word = 8 /\ d.H = c.H /\ d.M = M
  BY <1>1, <1>4
<1>5. PICK marked : marked = [ctx EXCEPT !.M = Append(@, Mark)]
  OBVIOUS
<1>6. DOMAIN marked = fields /\ marked.word = 8 /\ marked.H = ctx.H /\ marked.M = N
  BY <1>1, <1>2, <1>4, <1>5
<1>7. ASSUME NEW c, DOMAIN c = fields, c.word = 8, NEW d, d = [c EXCEPT !.M = Append(@, e)]
      PROVE  SHA256_transform(d).H = Append(c.H, Append(Append(c.M, e), Unset))
  <2>1. DOMAIN d = fields /\ d.word = 8 /\ d.H = c.H /\ d.M = Append(c.M, e)
    BY <1>4, <1>7
  <2> QED
    BY <1>3, <2>1
<1>8. ASSUME NEW n, NEW d, d = [marked EXCEPT !.M = @ \o Zeros(n - Len(@))]
      PROVE  DOMAIN d = fields /\ d.word = 8 /\ d.H = ctx.H /\ d.M = N \o Zeros(n - Len(N))
  <2>1. d = [marked EXCEPT !.M = N \o Zeros(n - Len(N))]
    BY <1>6, <1>8
  <2> QED
    BY <1>4, <1>6, <2>1
<1>9. CASE Len(ctx.M) < LengthPlace
  <2>1. PICK padded, ready : /\ padded = [marked EXCEPT !.M = @ \o Zeros(free - Len(@))]
                             /\ ready = [padded EXCEPT !.M = Append(@, e)]
    OBVIOUS
  <2>2. SHA256_final(ctx) = SHA256_transform(ready)
    BY <1>1, <1>2, <1>5, <1>9, <2>1, Zenon DEF SHA256_final, LengthPlace
  <2>3. DOMAIN padded = fields /\ padded.word = 8 /\ padded.H = ctx.H
        /\ padded.M = N \o Zeros(free - Len(N))
    BY <1>8, <2>1
  <2>4. SHA256_transform(ready).H = Append(padded.H, Append(Append(padded.M, e), Unset))
    BY <1>7, <2>1, <2>3
  <2> QED
    BY <1>1, <1>9, <2>2, <2>3, <2>4, Zenon DEF WideFinal
<1>10. CASE ~(Len(ctx.M) < LengthPlace)
  <2>1. PICK padded, next, ready :
          /\ padded = [marked EXCEPT !.M = @ \o Zeros(BlockBytes - Len(@))]
          /\ next = [SHA256_transform(padded) EXCEPT !.M = Zeros(free)]
          /\ ready = [next EXCEPT !.M = Append(@, e)]
    OBVIOUS
  <2>2. SHA256_final(ctx) = SHA256_transform(ready)
    BY <1>1, <1>2, <1>5, <1>10, <2>1, Zenon DEF SHA256_final, LengthPlace
  <2>3. DOMAIN padded = fields /\ padded.word = 8 /\ padded.H = ctx.H
        /\ padded.M = N \o Zeros(BlockBytes - Len(N))
    BY <1>8, <2>1
  <2>4. /\ DOMAIN next = fields /\ next.word = 8 /\ next.M = Zeros(free)
        /\ next.H = Append(padded.H, Append(padded.M, Unset))
    <3>1. PICK full : full = SHA256_transform(padded)
      OBVIOUS
    <3>2. DOMAIN full = fields /\ full.word = 8 /\ full.H = Append(padded.H, Append(padded.M, Unset))
      BY <1>3, <2>3, <3>1
    <3>3. next = [full EXCEPT !.M = Zeros(free)]
      BY <2>1, <3>1
    <3>4. DOMAIN next = fields /\ next.word = 8 /\ next.H = full.H /\ next.M = Zeros(free)
      BY <1>4, <3>2, <3>3
    <3> QED
      BY <3>2, <3>4
  <2>5. SHA256_transform(ready).H = Append(next.H, Append(Append(next.M, e), Unset))
    BY <1>7, <2>1, <2>4
  <2> QED
    BY <1>1, <1>10, <2>2, <2>3, <2>4, <2>5, Zenon DEF WideFinal
<1> QED
  BY <1>9, <1>10

=================================================================================
