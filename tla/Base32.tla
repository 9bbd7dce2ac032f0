------------------------------- MODULE Base32 -------------------------------
(***************************************************************************)
(* The loops of to_base32 (src/src/totp.rs), which writes the TOTP secret  *)
(* for the authenticator.  Its accumulator is never masked: bytes read     *)
(* long ago are pushed out at the top of a u32.                            *)
(***************************************************************************)
EXTENDS Integers, Sequences, SequencesExt

CONSTANTS
    WORD,        \* values of the accumulator (2^32 in the code)
    ByteValues,  \* bytes that occur
    MaxLen       \* bound: length of the input

ASSUME Base32Assumption ==
    /\ WORD \in Nat \ {0}
    /\ WORD % 4096 = 0  \* it has twelve bits or more
    /\ ByteValues \subseteq 0..255
    /\ MaxLen \in Nat

VARIABLES
    bytes,  \* the argument
    pos,    \* bytes taken
    value,  \* the accumulator
    bits,   \* how many of its low bits are not written yet
    out,    \* what is written: positions in the alphabet
    done

vars == <<bytes, pos, value, bits, out, done>>

Init ==
    /\ bytes \in UNION {[1..n -> ByteValues] : n \in 0..MaxLen}
    /\ pos = 0
    /\ value = 0
    /\ bits = 0
    /\ out = <<>>
    /\ done = FALSE

\* The next round of the for loop.
Take ==
    /\ bits < 5
    /\ pos < Len(bytes)
    /\ pos' = pos + 1
    /\ value' = (value * 256 + bytes[pos + 1]) % WORD
    /\ bits' = bits + 8
    /\ UNCHANGED <<bytes, out, done>>

\* A round of the while loop.
Write ==
    /\ bits >= 5
    /\ bits' = bits - 5
    /\ out' = Append(out, (value \div 2^bits') % 32)
    /\ UNCHANGED <<bytes, pos, value, done>>

\* Mutant: the bits that are left are not moved up.
WritesLow ==
    /\ ~done
    /\ bits < 5
    /\ pos = Len(bytes)
    /\ out' = IF bits > 0 THEN Append(out, value % 32) ELSE out
    /\ done' = TRUE
    /\ UNCHANGED <<bytes, pos, value, bits>>

Finish ==
    /\ ~done
    /\ bits < 5
    /\ pos = Len(bytes)
    /\ out' = IF bits > 0 THEN Append(out, ((value * 2^(5 - bits)) % WORD) % 32) ELSE out
    /\ done' = TRUE
    /\ UNCHANGED <<bytes, pos, value, bits>>

Next == Take \/ Write \/ Finish

Spec == Init /\ [][Next]_vars

---------------------------------------------------------------------------
(* Properties.                                                             *)

\* The k-th bit of bs, counted from 0; zeros follow them.
Bit(bs, k) == IF k >= 8 * Len(bs) THEN 0
              ELSE (bs[(k \div 8) + 1] \div 2^(7 - (k % 8))) % 2

\* The number that five bits from the k-th on make.
Five(bs, k) ==
    16 * Bit(bs, k) + 8 * Bit(bs, k + 1) + 4 * Bit(bs, k + 2) + 2 * Bit(bs, k + 3) + Bit(bs, k + 4)

\* The result is the input's bits in groups of five, the last one filled up with
\* zeros, however many bytes have fallen out of the accumulator.
WritesAllBits ==
    done => out = [i \in 1..(8 * Len(bytes) + 4) \div 5 |-> Five(bytes, 5 * (i - 1))]
============================================================================
