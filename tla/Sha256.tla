-------------------------------- MODULE Sha256 ---------------------------------
(***************************************************************************)
(* The buffering of src/sha256.cc: how writes of any length become blocks, *)
(* how the length is counted, and what SHA256_final puts behind the data.  *)
(* The compression of a block is left out: a context keeps the blocks that *)
(* were given to SHA256_transform, in order.                               *)
(*                                                                         *)
(* A context is a record: H, those blocks; M, the first mlen bytes of the  *)
(* buffer; hbits and lbits, the length in bits as two words; word, the     *)
(* bytes of a word32 in this build.  word32 is an unsigned long, of four   *)
(* bytes on some platforms and of eight on others, and the code is made    *)
(* for four.  The code's block of 64 bytes with a length of 8 is a block   *)
(* of BlockBytes with LengthBytes; WordLimit is 2^32.                      *)
(***************************************************************************)
EXTENDS Naturals, Sequences

CONSTANTS BlockBytes, LengthBytes, WordLimit,
  WordSizes     \* the bytes of an unsigned long in the builds considered

ASSUME Sha256Assumption ==
  /\ BlockBytes \in Nat /\ LengthBytes \in Nat \ {0} /\ WordLimit \in Nat
  /\ LengthBytes < BlockBytes
  /\ 8 * BlockBytes <= WordLimit
  /\ WordSizes # {} /\ WordSizes \subseteq {4, 8}

Smaller(m, n) == IF m < n THEN m ELSE n

\* Where a word wraps.
Limit(word) == IF word = 4 THEN WordLimit ELSE WordLimit * WordLimit

SHA256_init(word) == [H |-> <<>>, M |-> <<>>, hbits |-> 0, lbits |-> 0, word |-> word]

\* What SHA256_transform works on: its W begins with the buffer.  The 64 bytes
\* are W[0 .. 15] in words of four; of eight, they are W[0 .. 7], and the rest
\* of W[0 .. 15] is what was on the stack.
Unset == <<"unset">>
Schedule(ctx) == IF ctx.word = 4 THEN ctx.M ELSE Append(ctx.M, Unset)

SHA256_transform(ctx) == [ctx EXCEPT !.H = Append(@, Schedule(ctx))]

\* hbits and lbits grow by 8 * n: the carry shows in lbits being smaller than
\* what was added.  data_len >> 29 is added to hbits whatever the word, and in
\* words of eight bytes lbits has those bits as well.
CountBits(ctx, n) ==
  LET limit == Limit(ctx.word)
      low == (8 * n) % limit
      lbits == (ctx.lbits + low) % limit
  IN  [ctx EXCEPT !.lbits = lbits,
                  !.hbits = (@ + (8 * n) \div WordLimit + (IF lbits < low THEN 1 ELSE 0))
                            % limit]

\* A mutant of CopyFrom: each block takes the data from their start.
CopyFromStart(data, used, n) == SubSeq(data, 1, n)

\* memcpy of n bytes, past those already used.
CopyFrom(data, used, n) == SubSeq(data, used + 1, used + n)

\* The first bytes fill up the buffer.
FillBuffer(ctx, data) ==
  LET first == Smaller(BlockBytes - Len(ctx.M), Len(data))
  IN  [ctx |-> [CountBits(ctx, Len(data)) EXCEPT !.M = @ \o CopyFrom(data, 0, first)],
       used |-> first]

\* A round of the loop: a full buffer is transformed and takes the next bytes.
NextBlock(s, data) ==
  LET use == Smaller(BlockBytes, Len(data) - s.used)
  IN  IF Len(s.ctx.M) # BlockBytes THEN s
      ELSE [ctx |-> [SHA256_transform(s.ctx) EXCEPT !.M = CopyFrom(data, s.used, use)],
            used |-> s.used + use]

\* SHA256_update: no data need more rounds than these.
SHA256_update(ctx, data) ==
  LET rounds == 1 + Len(data) \div BlockBytes
      round[k \in 0 .. rounds] ==
        IF k = 0 THEN FillBuffer(ctx, data) ELSE NextBlock(round[k - 1], data)
  IN  round[rounds].ctx

\* On a little-endian machine convert_to_bigendian steps over the words of a
\* block, as many as words of four bytes would be.  Where they have eight it goes
\* on for another 64 bytes behind M: over mlen, which is set anew, and behind the
\* context, over the digest and what follows the SHA256 object on the stack.
\* Each transform of SHA256_update comes after such a conversion.
Overruns(ctx) == ctx.word = 8 /\ ctx.H # <<>>

Zeros(n) == [i \in 1 .. n |-> <<"zero">>]
Mark == <<"0x80">>

\* The 8 bytes that are copied from the address of hbits: both words, or the
\* first one only.
LengthField(ctx) ==
  IF ctx.word = 4 THEN <<"length", ctx.hbits, ctx.lbits>> ELSE <<"length", ctx.hbits>>

\* SHA256_final: the mark, zeros up to the place of the length, and the
\* length; in a further block if the mark is at or behind that place.
SHA256_final(ctx) ==
  LET free == BlockBytes - LengthBytes
      marked == [ctx EXCEPT !.M = Append(@, Mark)]
      padded(n) == [marked EXCEPT !.M = @ \o Zeros(n - Len(@))]
      ready == IF Len(ctx.M) < free
               THEN padded(free)
               ELSE [SHA256_transform(padded(BlockBytes)) EXCEPT !.M = Zeros(free)]
  IN  SHA256_transform([ready EXCEPT !.M = Append(@, LengthField(ctx))])

===============================================================================
