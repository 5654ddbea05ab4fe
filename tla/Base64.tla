-------------------------------- MODULE Base64 ---------------------------------
(***************************************************************************)
(* The coding of peer notes and file hashes of src/Base64.cpp.  A byte is  *)
(* a number below 256, a text a sequence of character codes below 128, and *)
(* the exception IllegalBase64Exception the value Illegal, which is no     *)
(* sequence of bytes.  The loops write each place of the result once, so   *)
(* they are functions of the place.                                        *)
(***************************************************************************)
EXTENDS Integers, Sequences

Byte == 0 .. 255
Illegal == <<-1>>
EqualsSign == 61

IsDigit(ch) == ch \in 48 .. 57
IsUpper(ch) == ch \in 65 .. 90
IsLower(ch) == ch \in 97 .. 122

\* base64Alphabet: A-Z, a-z, 0-9, ~ and -.
Alphabet(x) ==
  CASE x \in 0 .. 25 -> x + 65
    [] x \in 26 .. 51 -> x + 71
    [] x \in 52 .. 61 -> x - 4
    [] x = 62 -> 126
    [] x = 63 -> 45

\* base64Dealphabet: the last two of another alphabet, + and /; 255 otherwise.
Dealphabet(ch) ==
  CASE IsUpper(ch) -> ch - 65
    [] IsLower(ch) -> ch - 71
    [] IsDigit(ch) -> ch + 4
    [] ch = 43 -> 62
    [] ch = 47 -> 63
    [] OTHER -> 255

\* Place k of a sequence, 0 behind its end.
At(s, k) == IF k \in DOMAIN s THEN s[k] ELSE 0

\* A mutant of EncodedValue: the third byte of a group is forgotten.
EncodedTwoBytes(in, g) == At(in, 3 * g + 1) * 65536 + At(in, 3 * g + 2) * 256

\* val: the three bytes of group g (from 0) as one number.
EncodedValue(in, g) ==
  At(in, 3 * g + 1) * 65536 + At(in, 3 * g + 2) * 256 + At(in, 3 * g + 3)

\* A mutant of ByteOf: what is above the byte is not cut off.
ByteUncut(val, k) == val \div <<65536, 256, 1>>[k + 1]

\* Number k (from 0) of the four digits, or of the three bytes, of a value.
SextetOf(val, k) == (val \div <<262144, 4096, 64, 1>>[k + 1]) % 64
ByteOf(val, k) == (val \div <<65536, 256, 1>>[k + 1]) % 256

\* base64Encode: the result is made of equals signs, but every group writes its
\* four characters over them, the last and shorter one too.
Encode(in) ==
  [i \in 1 .. 4 * ((Len(in) + 2) \div 3) |->
     Alphabet(SextetOf(EncodedValue(in, (i - 1) \div 4), (i - 1) % 4))]

\* The length left after stripping trailing equals signs.
StrippedLength(in) ==
  CHOOSE n \in 0 .. Len(in) :
    /\ n = 0 \/ in[n] # EqualsSign
    /\ \A i \in n + 1 .. Len(in) : in[i] = EqualsSign

IsValid(ch) == IsUpper(ch) \/ IsLower(ch) \/ IsDigit(ch) \/ ch = 126 \/ ch = 45

\* outVal of a block of four characters, or of what is left of it.
DecodedValue(in, g) ==
  LET value(i) == IF 4 * g + i \in DOMAIN in THEN Dealphabet(in[4 * g + i]) ELSE 0
  IN  value(1) * 262144 + value(2) * 4096 + value(3) * 64 + value(4)

\* base64Decode: the characters are checked twice, first by their class and
\* then by the table.
Decode(inStr) ==
  LET in == SubSeq(inStr, 1, StrippedLength(inStr))
      remainder == Len(in) % 4
      outLen == 3 * (Len(in) \div 4) + (IF remainder = 0 THEN 0 ELSE remainder - 1)
  IN  IF \/ \E i \in DOMAIN in : ~IsValid(in[i]) \/ Dealphabet(in[i]) = 255
         \/ remainder = 1
      THEN Illegal
      ELSE [k \in 1 .. outLen |-> ByteOf(DecodedValue(in, (k - 1) \div 3), (k - 1) % 3)]

===============================================================================
