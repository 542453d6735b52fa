------------------------------- MODULE Sha384 -------------------------------
(***************************************************************************)
(* The end of a hash (src/sha384.c): sha384_finalize_byte and              *)
(* sha384_finalize pad the message and wait for the hash unit. The unit    *)
(* takes blocks of 128 bytes and is ready with a hash when a block is full *)
(* (external, from how the code uses it).                                  *)
(*                                                                         *)
(* LateBlock and ClearsLate are faulty variants of the definitions that    *)
(* follow them; no action uses them.                                       *)
(***************************************************************************)
EXTENDS Integers

CONSTANTS Sizes    \* the sizes of the messages, in elements

Block == 128       \* bytes in a block of SHA-384

ASSUME SizesAssumption == Sizes \subseteq Nat

VARIABLES
    width,   \* bytes in an element: 1 in sha384_finalize_byte, 4 in sha384_finalize
    size,    \* ulDataSizeByte or ulDataSizeDw
    pad,     \* ulPadByte or ulPadDw
    shaPc,   \* where the function is
    fed,     \* bytes the unit has been given
    one,     \* the place of the 0x80, 0 before
    ready    \* crypt_irq_raw_hash_ready

shaVars == <<width, size, pad, shaPc, fed, one, ready>>

\* The message has been fed with sha384_update.
ShaInit ==
    /\ width \in {1, 4} /\ size \in Sizes /\ pad = 0 /\ shaPc = "pad"
    /\ fed = size * width /\ one = 0 /\ ready \in BOOLEAN

LateBlock(p) == p <= 112 \div width

\* Does the padding end in the block the message ends in?
SameBlock(p) == p < 112 \div width

\* 119 or 247 bytes, 29 or 61 words, less the ones in the block.
Zeros(p) == (IF SameBlock(p) THEN 120 \div width ELSE 248 \div width) - 1 - p

Feed(n) == fed' = fed + n

\* The unit sets the flag when a block is full.
Completes == (fed' % Block) = 0

Pad ==
    /\ shaPc = "pad" /\ shaPc' = "one"
    /\ pad' = Zeros(size % (Block \div width))
    /\ UNCHANGED <<width, size, fed, one, ready>>

One ==
    /\ shaPc = "one" /\ shaPc' = "zero"
    /\ one' = fed + 1 /\ Feed(width) /\ ready' = (ready \/ Completes)
    /\ UNCHANGED <<width, size, pad>>

Zero ==
    /\ shaPc = "zero"
    /\ \/ /\ pad # 0 /\ pad' = pad - 1 /\ Feed(width)
          /\ ready' = (ready \/ Completes) /\ UNCHANGED shaPc
       \/ pad = 0 /\ shaPc' = "length" /\ UNCHANGED <<pad, fed, ready>>
    /\ UNCHANGED <<width, size, one>>

\* The high word of the number of bits; then the flag is cleared.
High ==
    /\ shaPc = "length" /\ shaPc' = "last"
    /\ Feed(4) /\ ready' = FALSE
    /\ UNCHANGED <<width, size, pad, one>>

ClearsLate ==
    /\ shaPc = "last" /\ shaPc' = "wait"
    /\ Feed(4) /\ ready' = FALSE
    /\ UNCHANGED <<width, size, pad, one>>

\* The low word.
Low ==
    /\ shaPc = "last" /\ shaPc' = "wait"
    /\ Feed(4) /\ ready' = (ready \/ Completes)
    /\ UNCHANGED <<width, size, pad, one>>

Wait ==
    /\ shaPc = "wait" /\ ready /\ shaPc' = "done"
    /\ UNCHANGED <<width, size, pad, fed, one, ready>>

ShaNext == Pad \/ One \/ Zero \/ High \/ Low \/ Wait

ShaSpec == ShaInit /\ [][ShaNext]_shaVars /\ WF_shaVars(ShaNext)

-----------------------------------------------------------------------------
\* The variables of the two functions have their types; the unsigned
\* difference that makes up the padding is never negative.
ShaTypeOK ==
    /\ width \in {1, 4} /\ size \in Nat /\ pad \in Nat /\ fed \in Nat /\ one \in Nat
    /\ shaPc \in {"pad", "one", "zero", "length", "last", "wait", "done"}
    /\ ready \in BOOLEAN

\* When the functions wait for the unit, it has been given the message padded
\* as the standard asks: 0x80 behind the message, and up to the first block
\* boundary that leaves 16 bytes for the length (the upper 8 of them zero).
PaddedRight ==
    shaPc \in {"wait", "done"} =>
        /\ one = size * width + 1
        /\ fed = ((size * width + 1 + 16 + Block - 1) \div Block) * Block

\* The wait at the end of sha384_finalize_byte and sha384_finalize is over, for
\* every size of the message.
HashComes == <>(shaPc = "done")
=============================================================================
