---------------------------- MODULE Base32Proofs ----------------------------
(***************************************************************************)
(* Proof that to_base32 (module Base32) writes all bits of its input, in   *)
(* their order, for inputs of every length and an accumulator of any width *)
(* from twelve bits on, the code's 32 among them.                          *)
(***************************************************************************)
EXTENDS Base32, TLAPS

---------------------------------------------------------------------------
(* Bits of a number.                                                       *)

\* The j-th lowest bit of v.
Nth(v, j) == (v \div 2^j) % 2

LEMMA NthType ==
    ASSUME NEW v \in Nat, NEW j \in 0..11
    PROVE  Nth(v, j) \in Int
<1>1. CASE j = 0
  BY <1>1 DEF Nth
<1>2. CASE j = 1
  BY <1>2 DEF Nth
<1>3. CASE j = 2
  BY <1>3 DEF Nth
<1>4. CASE j = 3
  BY <1>4 DEF Nth
<1>5. CASE j = 4
  BY <1>5 DEF Nth
<1>6. CASE j = 5
  BY <1>6 DEF Nth
<1>7. CASE j = 6
  BY <1>7 DEF Nth
<1>8. CASE j = 7
  BY <1>8 DEF Nth
<1>9. CASE j = 8
  BY <1>9 DEF Nth
<1>10. CASE j = 9
  BY <1>10 DEF Nth
<1>11. CASE j = 10
  BY <1>11 DEF Nth
<1>12. CASE j = 11
  BY <1>12 DEF Nth
<1> QED BY <1>1, <1>2, <1>3, <1>4, <1>5, <1>6, <1>7, <1>8, <1>9, <1>10, <1>11, <1>12

\* What leaves the accumulator at its top is a multiple of 4096.
Wrapped(r, v) == r \in Nat /\ \E t \in Nat : r = v - 4096 * t

LEMMA Wraps ==
    ASSUME NEW v \in Nat
    PROVE  Wrapped(v % WORD, v)
<1> DEFINE k == WORD \div 4096
           q == v \div WORD
<1>0. WORD \in Nat \ {0} /\ WORD % 4096 = 0
  BY Base32Assumption
<1>1. WORD = 4096 * k /\ k \in Nat
  BY <1>0
<1>2. v = WORD * q + (v % WORD) /\ q \in Nat /\ v % WORD \in Nat
  BY <1>0
<1> HIDE DEF k, q
<1>3. WORD * q = 4096 * (k * q) /\ k * q \in Nat
  BY <1>0, <1>1, <1>2
<1> DEFINE r == v % WORD
           p == k * q
<1>4. v = 4096 * p + r /\ p \in Nat /\ r \in Nat
  BY <1>2, <1>3
<1> HIDE DEF r, p
<1>5. r = v - 4096 * p
  BY <1>4
<1>6. Wrapped(r, v)
  BY <1>4, <1>5 DEF Wrapped
<1> QED BY <1>6 DEF r

\* The low eight bits after a byte is taken are the byte's, the four above them
\* were the lowest before.
LEMMA TakenBits ==
    ASSUME NEW v, NEW w \in Nat, NEW b \in 0..255, Wrapped(v, w * 256 + b)
    PROVE  /\ \A j \in 0..7 : Nth(v, j) = Nth(b, j)
           /\ \A j \in 8..11 : Nth(v, j) = Nth(w, j - 8)
<1>0. PICK t \in Nat : v = (w * 256 + b) - 4096 * t /\ v \in Nat
  BY DEF Wrapped
<1>1. ASSUME NEW j \in 0..7 PROVE Nth(v, j) = Nth(b, j)
  <2>1. CASE j = 0
    BY <1>0, <2>1 DEF Nth
  <2>2. CASE j = 1
    BY <1>0, <2>2 DEF Nth
  <2>3. CASE j = 2
    BY <1>0, <2>3 DEF Nth
  <2>4. CASE j = 3
    BY <1>0, <2>4 DEF Nth
  <2>5. CASE j = 4
    BY <1>0, <2>5 DEF Nth
  <2>6. CASE j = 5
    BY <1>0, <2>6 DEF Nth
  <2>7. CASE j = 6
    BY <1>0, <2>7 DEF Nth
  <2>8. CASE j = 7
    BY <1>0, <2>8 DEF Nth
  <2> QED BY <2>1, <2>2, <2>3, <2>4, <2>5, <2>6, <2>7, <2>8
<1> DEFINE x == w - 16 * t
<1>2. x \in Nat /\ v = 256 * x + b
  BY <1>0
<1> HIDE DEF x
<1>3. v \div 256 = x
  BY <1>2
<1>4. ASSUME NEW j \in 8..11 PROVE Nth(v, j) = Nth(w, j - 8)
  <2>1. CASE j = 8
    <3>1. v \div 256 = x
      BY <1>3
    <3>2. (x \div 2^0) % 2 = (w \div 2^0) % 2
      BY <1>2 DEF x
    <3>3. Nth(v, 8) = (v \div 256) % 2 /\ Nth(w, 0) = (w \div 2^0) % 2 /\ x \div 2^0 = x
      BY <1>2 DEF Nth
    <3> QED BY <2>1, <3>1, <3>2, <3>3
  <2>2. CASE j = 9
    <3>1. v \div 512 = x \div 2
      <4>1. v \div 512 = (v \div 256) \div 2
        BY <1>0
      <4> QED BY <1>3, <4>1
    <3>2. (x \div 2^1) % 2 = (w \div 2^1) % 2
      BY <1>2 DEF x
    <3> QED BY <2>2, <3>1, <3>2 DEF Nth
  <2>3. CASE j = 10
    <3>1. v \div 1024 = x \div 4
      <4>1. v \div 1024 = (v \div 256) \div 4
        BY <1>0
      <4> QED BY <1>3, <4>1
    <3>2. (x \div 2^2) % 2 = (w \div 2^2) % 2
      BY <1>2 DEF x
    <3> QED BY <2>3, <3>1, <3>2 DEF Nth
  <2>4. CASE j = 11
    <3>1. v \div 2048 = x \div 8
      <4>1. v \div 2048 = (v \div 256) \div 8
        BY <1>0
      <4> QED BY <1>3, <4>1
    <3>2. (x \div 2^3) % 2 = (w \div 2^3) % 2
      BY <1>2 DEF x
    <3> QED BY <2>4, <3>1, <3>2 DEF Nth
  <2> QED BY <2>1, <2>2, <2>3, <2>4
<1> QED BY <1>1, <1>4

\* Five bits make the number that is written.
LEMMA FiveBits ==
    ASSUME NEW v \in Nat, NEW b \in 0..7
    PROVE  (v \div 2^b) % 32 =
              16 * Nth(v, b + 4) + 8 * Nth(v, b + 3) + 4 * Nth(v, b + 2) + 2 * Nth(v, b + 1) + Nth(v, b)
<1>1. ASSUME NEW x \in Nat
      PROVE  x % 32 = 16 * ((x \div 16) % 2) + 8 * ((x \div 8) % 2) + 4 * ((x \div 4) % 2) +
                      2 * ((x \div 2) % 2) + (x % 2)
  OBVIOUS
<1>2. ASSUME NEW x \in Nat, x = v \div 2^b
      PROVE  /\ Nth(v, b) = x % 2 /\ Nth(v, b + 1) = (x \div 2) % 2 /\ Nth(v, b + 2) = (x \div 4) % 2
             /\ Nth(v, b + 3) = (x \div 8) % 2 /\ Nth(v, b + 4) = (x \div 16) % 2
  <2>1. CASE b = 0
    <3>0. x = v \div 1
      BY <1>2, <2>1
    <3>1. /\ v \div 2 = x \div 2 /\ v \div 4 = x \div 4
          /\ v \div 8 = x \div 8 /\ v \div 16 = x \div 16
      BY <3>0
    <3> QED BY <2>1, <3>0, <3>1 DEF Nth
  <2>2. CASE b = 1
    <3>0. x = v \div 2
      BY <1>2, <2>2
    <3>1. /\ v \div 4 = x \div 2 /\ v \div 8 = x \div 4
          /\ v \div 16 = x \div 8 /\ v \div 32 = x \div 16
      BY <3>0
    <3> QED BY <2>2, <3>0, <3>1 DEF Nth
  <2>3. CASE b = 2
    <3>0. x = v \div 4
      BY <1>2, <2>3
    <3>1. /\ v \div 8 = x \div 2 /\ v \div 16 = x \div 4
          /\ v \div 32 = x \div 8 /\ v \div 64 = x \div 16
      BY <3>0
    <3> QED BY <2>3, <3>0, <3>1 DEF Nth
  <2>4. CASE b = 3
    <3>0. x = v \div 8
      BY <1>2, <2>4
    <3>1. /\ v \div 16 = x \div 2 /\ v \div 32 = x \div 4
          /\ v \div 64 = x \div 8 /\ v \div 128 = x \div 16
      BY <3>0
    <3> QED BY <2>4, <3>0, <3>1 DEF Nth
  <2>5. CASE b = 4
    <3>0. x = v \div 16
      BY <1>2, <2>5
    <3>1. /\ v \div 32 = x \div 2 /\ v \div 64 = x \div 4
          /\ v \div 128 = x \div 8 /\ v \div 256 = x \div 16
      BY <3>0
    <3> QED BY <2>5, <3>0, <3>1 DEF Nth
  <2>6. CASE b = 5
    <3>0. x = v \div 32
      BY <1>2, <2>6
    <3>1. /\ v \div 64 = x \div 2 /\ v \div 128 = x \div 4
          /\ v \div 256 = x \div 8 /\ v \div 512 = x \div 16
      BY <3>0
    <3> QED BY <2>6, <3>0, <3>1 DEF Nth
  <2>7. CASE b = 6
    <3>0. x = v \div 64
      BY <1>2, <2>7
    <3>1. /\ v \div 128 = x \div 2 /\ v \div 256 = x \div 4
          /\ v \div 512 = x \div 8 /\ v \div 1024 = x \div 16
      BY <3>0
    <3> QED BY <2>7, <3>0, <3>1 DEF Nth
  <2>8. CASE b = 7
    <3>0. x = v \div 128
      BY <1>2, <2>8
    <3>1. /\ v \div 256 = x \div 2 /\ v \div 512 = x \div 4
          /\ v \div 1024 = x \div 8 /\ v \div 2048 = x \div 16
      BY <3>0
    <3> QED BY <2>8, <3>0, <3>1 DEF Nth
  <2> QED BY <2>1, <2>2, <2>3, <2>4, <2>5, <2>6, <2>7, <2>8
<1>3. v \div 2^b \in Nat
  <2>1. CASE b = 0
    BY <2>1
  <2>2. CASE b = 1
    BY <2>2
  <2>3. CASE b = 2
    BY <2>3
  <2>4. CASE b = 3
    BY <2>4
  <2>5. CASE b = 4
    BY <2>5
  <2>6. CASE b = 5
    BY <2>6
  <2>7. CASE b = 6
    BY <2>7
  <2>8. CASE b = 7
    BY <2>8
  <2> QED BY <2>1, <2>2, <2>3, <2>4, <2>5, <2>6, <2>7, <2>8
<1> QED BY <1>1, <1>2, <1>3

\* The bits that are left, moved up.
LEMMA LastBits ==
    ASSUME NEW v \in Nat, NEW b \in 1..4
    PROVE  LET x == ((v * 2^(5 - b)) % WORD) % 32
           IN  /\ b = 1 => x = 16 * Nth(v, 0)
               /\ b = 2 => x = 16 * Nth(v, 1) + 8 * Nth(v, 0)
               /\ b = 3 => x = 16 * Nth(v, 2) + 8 * Nth(v, 1) + 4 * Nth(v, 0)
               /\ b = 4 => x = 16 * Nth(v, 3) + 8 * Nth(v, 2) + 4 * Nth(v, 1) + 2 * Nth(v, 0)
<1>1. ASSUME NEW x \in Nat PROVE (x % WORD) % 32 = x % 32
  <2> DEFINE r == x % WORD
  <2>1. Wrapped(r, x)
    BY Wraps
  <2> HIDE DEF r
  <2>2. PICK t \in Nat : r = x - 4096 * t /\ r \in Nat
    BY <2>1 DEF Wrapped
  <2>3. r % 32 = x % 32
    BY <2>2
  <2> QED BY <2>3 DEF r
<1>2. Nth(v, 0) = v % 2 /\ Nth(v, 1) = (v \div 2) % 2 /\ Nth(v, 2) = (v \div 4) % 2 /\ Nth(v, 3) = (v \div 8) % 2
  BY DEF Nth
<1>3. ASSUME b = 1 PROVE ((v * 2^(5 - b)) % WORD) % 32 = 16 * Nth(v, 0)
  <2>1. (v * 16) % 32 = 16 * (v % 2)
    OBVIOUS
  <2>2. v * 16 \in Nat /\ 2^(5 - b) = 16
    BY <1>3
  <2>3. ((v * 16) % WORD) % 32 = (v * 16) % 32
    BY <1>1, <2>2
  <2>4. ((v * 16) % WORD) % 32 = 16 * Nth(v, 0)
    BY <1>2, <2>1, <2>3
  <2> QED BY <2>2, <2>4
<1>4. ASSUME b = 2 PROVE ((v * 2^(5 - b)) % WORD) % 32 = 16 * Nth(v, 1) + 8 * Nth(v, 0)
  <2>1. (v * 8) % 32 = 16 * ((v \div 2) % 2) + 8 * (v % 2)
    OBVIOUS
  <2>2. v * 8 \in Nat /\ 2^(5 - b) = 8
    BY <1>4
  <2>3. ((v * 8) % WORD) % 32 = (v * 8) % 32
    BY <1>1, <2>2
  <2>4. ((v * 8) % WORD) % 32 = 16 * Nth(v, 1) + 8 * Nth(v, 0)
    BY <1>2, <2>1, <2>3
  <2> QED BY <2>2, <2>4
<1>5. ASSUME b = 3 PROVE ((v * 2^(5 - b)) % WORD) % 32 = 16 * Nth(v, 2) + 8 * Nth(v, 1) + 4 * Nth(v, 0)
  <2>1. (v * 4) % 32 = 16 * ((v \div 4) % 2) + 8 * ((v \div 2) % 2) + 4 * (v % 2)
    OBVIOUS
  <2>2. v * 4 \in Nat /\ 2^(5 - b) = 4
    BY <1>5
  <2>3. ((v * 4) % WORD) % 32 = (v * 4) % 32
    BY <1>1, <2>2
  <2>4. ((v * 4) % WORD) % 32 = 16 * Nth(v, 2) + 8 * Nth(v, 1) + 4 * Nth(v, 0)
    BY <1>2, <2>1, <2>3
  <2> QED BY <2>2, <2>4
<1>6. ASSUME b = 4 PROVE ((v * 2^(5 - b)) % WORD) % 32 = 16 * Nth(v, 3) + 8 * Nth(v, 2) + 4 * Nth(v, 1) + 2 * Nth(v, 0)
  <2>1. (v * 2) % 32 = 16 * ((v \div 8) % 2) + 8 * ((v \div 4) % 2) + 4 * ((v \div 2) % 2) + 2 * (v % 2)
    OBVIOUS
  <2>2. v * 2 \in Nat /\ 2^(5 - b) = 2
    BY <1>6
  <2>3. ((v * 2) % WORD) % 32 = (v * 2) % 32
    BY <1>1, <2>2
  <2>4. ((v * 2) % WORD) % 32 = 16 * Nth(v, 3) + 8 * Nth(v, 2) + 4 * Nth(v, 1) + 2 * Nth(v, 0)
    BY <1>2, <2>1, <2>3
  <2> QED BY <2>2, <2>4
<1> QED BY <1>3, <1>4, <1>5, <1>6, Zenon

\* Where the bits of a byte are in the input.
LEMMA BitIs ==
    ASSUME NEW bs \in Seq(0..255), NEW p \in Nat
    PROVE  /\ \A j \in 0..7 : p < Len(bs) => Bit(bs, (8 * p + 7) - j) = Nth(bs[p + 1], j)
           /\ \A k \in Nat : k >= 8 * Len(bs) => Bit(bs, k) = 0
<1>1. ASSUME NEW j \in 0..7, p < Len(bs)
      PROVE  Bit(bs, (8 * p + 7) - j) = Nth(bs[p + 1], j)
  <2> DEFINE k == (8 * p + 7) - j
             l == Len(bs)
  <2>1. l \in Nat /\ p < l
    BY <1>1
  <2> HIDE DEF l
  <2>2. k \in Nat /\ ~(k >= 8 * l) /\ k \div 8 = p /\ k % 8 = 7 - j
    BY <2>1
  <2> HIDE DEF k
  <2>3. 7 - (k % 8) = j
    BY <2>2
  <2>4. Bit(bs, k) = (bs[p + 1] \div 2^j) % 2
    BY <2>2, <2>3, Zenon DEF Bit, l
  <2> QED BY <2>4 DEF Nth, k
<1>2. ASSUME NEW k \in Nat, k >= 8 * Len(bs) PROVE Bit(bs, k) = 0
  BY <1>2 DEF Bit
<1> QED BY <1>1, <1>2

---------------------------------------------------------------------------
(* The inductive invariant.                                                *)

\* The bits in the accumulator that are not written yet are the last ones taken.
LowBits == \A j \in 0..11 : j < bits => Nth(value, j) = Bit(bytes, (8 * pos - 1) - j)

Base32Inv ==
    /\ bytes \in Seq(0..255)
    /\ pos \in 0..Len(bytes)
    /\ value \in Nat
    /\ bits \in 0..12
    /\ out \in Seq(Int)
    /\ done \in BOOLEAN
    /\ \A i \in 1..Len(out) : out[i] = Five(bytes, 5 * (i - 1))
    /\ ~done => 5 * Len(out) + bits = 8 * pos /\ LowBits
    /\ done => /\ bits < 5 /\ pos = Len(bytes)
               /\ Len(out) = (8 * Len(bytes) + 4) \div 5

LEMMA InitBase32 ==
    ASSUME Init
    PROVE  Base32Inv
<1>1. PICK n \in 0..MaxLen : bytes \in [1..n -> ByteValues]
  BY DEF Init
<1>2. n \in Nat /\ ByteValues \subseteq 0..255
  BY Base32Assumption
<1>3. bytes \in [1..n -> 0..255]
  BY <1>1, <1>2
<1>4. bytes \in Seq(0..255) /\ Len(bytes) \in Nat
  BY <1>2, <1>3
<1>5. pos = 0 /\ value = 0 /\ bits = 0 /\ out = <<>> /\ done = FALSE
  BY DEF Init
<1>6. out \in Seq(Int) /\ Len(out) = 0
  BY <1>5
<1>7. LowBits
  BY <1>5 DEF LowBits
<1>8. pos \in 0..Len(bytes) /\ 5 * Len(out) + bits = 8 * pos
  BY <1>4, <1>5, <1>6
<1>9. \A i \in 1..Len(out) : out[i] = Five(bytes, 5 * (i - 1))
  BY <1>6
<1>10. value \in Nat /\ bits \in 0..12
  BY <1>5
<1>11. done \in BOOLEAN /\ ~done
  BY <1>5, Zenon
<1> QED BY <1>4, <1>6, <1>7, <1>8, <1>9, <1>10, <1>11, Zenon DEF Base32Inv

LEMMA ElementsOf ==
    ASSUME NEW S, NEW q \in Seq(S)
    PROVE  \A i \in 1..Len(q) : q[i] \in S
OBVIOUS

LEMMA TakeBase32 ==
    ASSUME Base32Inv, Take
    PROVE  Base32Inv'
<1> DEFINE l == Len(bytes)
           b == bytes[pos + 1]
<1>1. /\ bits < 5 /\ pos < l /\ pos' = pos + 1 /\ value' = (value * 256 + b) % WORD
      /\ bits' = bits + 8 /\ bytes' = bytes /\ out' = out /\ done' = done
  BY DEF Take
<1>2. /\ bytes \in Seq(0..255) /\ l \in Nat /\ pos \in Nat /\ value \in Nat /\ bits \in 0..12
      /\ out \in Seq(Int) /\ Len(out) \in Nat
  BY DEF Base32Inv
<1>3. ~done
  BY <1>1, <1>2 DEF Base32Inv
<1>4. 5 * Len(out) + bits = 8 * pos /\ LowBits
  BY <1>3 DEF Base32Inv
<1>5. b \in 0..255
  <2>1. pos + 1 \in 1..l
    BY <1>1, <1>2
  <2>2. \A i \in 1..l : bytes[i] \in 0..255
    BY <1>2, ElementsOf
  <2> QED BY <2>1, <2>2
<1>6. value * 256 + b \in Nat
  <2> HIDE DEF b
  <2> QED BY <1>2, <1>5
<1>7. Wrapped(value', value * 256 + b)
  <2> HIDE DEF b
  <2> QED BY <1>1, <1>6, Wraps
<1>8. /\ \A j \in 0..7 : Nth(value', j) = Nth(b, j)
      /\ \A j \in 8..11 : Nth(value', j) = Nth(value, j - 8)
  <2> HIDE DEF b
  <2>1. value \in Nat
    BY <1>2
  <2> QED BY <1>5, <1>7, <2>1, TakenBits, ZenonT(60)
<1>9. ASSUME NEW j \in 0..11, j < bits' PROVE Nth(value', j) = Bit(bytes, (8 * pos' - 1) - j)
  <2>1. CASE j \in 0..7
    <3>1. Bit(bytes, (8 * pos + 7) - j) = Nth(b, j)
      BY <1>1, <1>2, <2>1, BitIs
    <3>2. (8 * pos' - 1) - j = (8 * pos + 7) - j
      BY <1>1, <1>2
    <3> QED BY <1>8, <2>1, <3>1, <3>2
  <2>2. CASE j \in 8..11
    <3>1. j - 8 \in 0..11 /\ j - 8 < bits /\ (8 * pos' - 1) - j = (8 * pos - 1) - (j - 8)
      BY <1>1, <1>2, <1>9, <2>2
    <3>2. Nth(value, j - 8) = Bit(bytes, (8 * pos - 1) - (j - 8))
      BY <1>4, <3>1 DEF LowBits
    <3> QED BY <1>8, <2>2, <3>1, <3>2
  <2> QED BY <2>1, <2>2
<1>10. LowBits'
  BY <1>1, <1>9 DEF LowBits
<1>11. \A i \in 1..Len(out) : out[i] = Five(bytes, 5 * (i - 1))
  BY DEF Base32Inv
<1>12. bits' \in 0..12 /\ 5 * Len(out) + bits' = 8 * pos' /\ pos' \in 0..l
  BY <1>1, <1>2, <1>4
<1>13. value' \in Nat
  BY <1>7 DEF Wrapped
<1>14. done \in BOOLEAN
  BY DEF Base32Inv
<1> QED BY <1>1, <1>2, <1>3, <1>10, <1>11, <1>12, <1>13, <1>14 DEF Base32Inv

\* A number appended to what is written.
LEMMA OneMoreFive ==
    ASSUME NEW bs, NEW o \in Seq(Int), \A i \in 1..Len(o) : o[i] = Five(bs, 5 * (i - 1)),
           NEW x \in Int, x = Five(bs, 5 * Len(o))
    PROVE  /\ Append(o, x) \in Seq(Int)
           /\ Len(Append(o, x)) = Len(o) + 1
           /\ \A i \in 1..Len(o) + 1 : Append(o, x)[i] = Five(bs, 5 * (i - 1))
<1> DEFINE q == Append(o, x)
           l == Len(o)
<1>1. q \in Seq(Int) /\ Len(q) = l + 1 /\ l \in Nat /\ q[l + 1] = x /\ \A i \in 1..l : q[i] = o[i]
  OBVIOUS
<1>2. \A i \in 1..l : o[i] = Five(bs, 5 * (i - 1))
  OBVIOUS
<1>3. x = Five(bs, 5 * l)
  OBVIOUS
<1> HIDE DEF q, l
<1>4. ASSUME NEW i \in 1..l + 1 PROVE q[i] = Five(bs, 5 * (i - 1))
  <2>1. CASE i \in 1..l
    BY <1>1, <1>2, <2>1
  <2>2. CASE i = l + 1
    <3>1. i - 1 = l
      BY <1>1, <2>2
    <3> QED BY <1>1, <1>3, <2>2, <3>1
  <2> QED BY <1>1, <2>1, <2>2
<1> QED BY <1>1, <1>4 DEF q, l

LEMMA WriteBase32 ==
    ASSUME Base32Inv, Write
    PROVE  Base32Inv'
<1> DEFINE l == Len(bytes)
           m == Len(out)
           b == bits - 5
           k == 5 * m
           x == (value \div 2^b) % 32
<1>1. /\ bits >= 5 /\ bits' = b /\ out' = Append(out, x)
      /\ bytes' = bytes /\ pos' = pos /\ value' = value /\ done' = done
  BY DEF Write
<1>2. /\ bytes \in Seq(0..255) /\ l \in Nat /\ pos \in 0..l /\ value \in Nat /\ bits \in 0..12
      /\ out \in Seq(Int) /\ m \in Nat
  BY DEF Base32Inv
<1>3. ~done /\ done \in BOOLEAN
  BY <1>1, <1>2 DEF Base32Inv
<1>4. k + bits = 8 * pos /\ LowBits
  BY <1>3 DEF Base32Inv
<1>5. b \in 0..7 /\ bits = b + 5 /\ k \in Nat
  BY <1>1, <1>2
<1>6. /\ Nth(value, b + 4) = Bit(bytes, k) /\ Nth(value, b + 3) = Bit(bytes, k + 1)
      /\ Nth(value, b + 2) = Bit(bytes, k + 2) /\ Nth(value, b + 1) = Bit(bytes, k + 3)
      /\ Nth(value, b) = Bit(bytes, k + 4)
  <2> HIDE DEF k, b
  <2>1. /\ (8 * pos - 1) - (b + 4) = k /\ (8 * pos - 1) - (b + 3) = k + 1
        /\ (8 * pos - 1) - (b + 2) = k + 2 /\ (8 * pos - 1) - (b + 1) = k + 3
        /\ (8 * pos - 1) - b = k + 4
    BY <1>2, <1>4, <1>5
  <2>2. /\ b \in 0..11 /\ b + 1 \in 0..11 /\ b + 2 \in 0..11 /\ b + 3 \in 0..11 /\ b + 4 \in 0..11
        /\ b < bits /\ b + 1 < bits /\ b + 2 < bits /\ b + 3 < bits /\ b + 4 < bits
    BY <1>5
  <2>3. \A j \in 0..11 : j < bits => Nth(value, j) = Bit(bytes, (8 * pos - 1) - j)
    BY <1>4 DEF LowBits
  <2>4. Nth(value, b + 4) = Bit(bytes, k)
    BY <2>1, <2>2, <2>3
  <2>5. Nth(value, b + 3) = Bit(bytes, k + 1)
    BY <2>1, <2>2, <2>3
  <2>6. Nth(value, b + 2) = Bit(bytes, k + 2)
    BY <2>1, <2>2, <2>3
  <2>7. Nth(value, b + 1) = Bit(bytes, k + 3)
    BY <2>1, <2>2, <2>3
  <2>8. Nth(value, b) = Bit(bytes, k + 4)
    BY <2>1, <2>2, <2>3
  <2> QED BY <2>4, <2>5, <2>6, <2>7, <2>8
<1>7. x = Five(bytes, k) /\ x \in Int
  <2>1. x = 16 * Nth(value, b + 4) + 8 * Nth(value, b + 3) + 4 * Nth(value, b + 2) +
            2 * Nth(value, b + 1) + Nth(value, b)
    BY <1>2, <1>5, FiveBits
  <2>2. \A j \in 0..11 : Nth(value, j) \in Int
    BY <1>2, NthType
  <2> HIDE DEF x, k
  <2>3. x = Five(bytes, k)
    BY <1>6, <2>1, Zenon DEF Five
  <2> HIDE DEF b
  <2>4. x \in Int
    BY <1>5, <2>1, <2>2
  <2> QED BY <2>3, <2>4
<1>8. \A i \in 1..m : out[i] = Five(bytes, 5 * (i - 1))
  BY DEF Base32Inv
<1> HIDE DEF x
<1>9. /\ out' \in Seq(Int) /\ Len(out') = m + 1
      /\ \A i \in 1..m + 1 : out'[i] = Five(bytes, 5 * (i - 1))
  BY <1>1, <1>2, <1>7, <1>8, OneMoreFive
<1>10. LowBits'
  <2>1. \A j \in 0..11 : j < bits' => j < bits
    BY <1>1, <1>2
  <2> QED BY <1>1, <1>4, <2>1 DEF LowBits
<1>11. 5 * Len(out') + bits' = 8 * pos /\ bits' \in 0..12
  <2> HIDE DEF m
  <2> QED BY <1>1, <1>2, <1>4, <1>5, <1>9
<1> QED BY <1>1, <1>2, <1>3, <1>9, <1>10, <1>11 DEF Base32Inv

\* The last number: the bits that are left, and zeros.
LEMMA LastFive ==
    ASSUME NEW bs \in Seq(0..255), NEW v \in Nat, NEW b \in 1..4, NEW k \in Nat,
           k + b = 8 * Len(bs),
           \A j \in 0..11 : j < b => Nth(v, j) = Bit(bs, (8 * Len(bs) - 1) - j)
    PROVE  ((v * 2^(5 - b)) % WORD) % 32 = Five(bs, k)
<1> DEFINE x == ((v * 2^(5 - b)) % WORD) % 32
           n == 8 * Len(bs)
<1> SUFFICES x = Five(bs, k)
  OBVIOUS
<1>0. Len(bs) \in Nat
  OBVIOUS
<1>1. n \in Nat /\ k + b = n
  BY <1>0
<1>2. \A j \in 0..11 : j < b => Nth(v, j) = Bit(bs, (n - 1) - j)
  OBVIOUS
<1>3. \A i \in Nat : i >= n => Bit(bs, i) = 0
  BY BitIs
<1>4. \A j \in 0..11 : Nth(v, j) \in Int
  BY NthType
<1>5. /\ b = 1 => x = 16 * Nth(v, 0)
      /\ b = 2 => x = 16 * Nth(v, 1) + 8 * Nth(v, 0)
      /\ b = 3 => x = 16 * Nth(v, 2) + 8 * Nth(v, 1) + 4 * Nth(v, 0)
      /\ b = 4 => x = 16 * Nth(v, 3) + 8 * Nth(v, 2) + 4 * Nth(v, 1) + 2 * Nth(v, 0)
  BY LastBits
<1> HIDE DEF x, n
<1>6. Five(bs, k) = 16 * Bit(bs, k) + 8 * Bit(bs, k + 1) + 4 * Bit(bs, k + 2) + 2 * Bit(bs, k + 3) +
                    Bit(bs, k + 4)
  BY Zenon DEF Five
<1>7. CASE b = 1
  <2>1. /\ (n - 1) - 0 = k /\ k + 1 >= n /\ k + 2 >= n /\ k + 3 >= n /\ k + 4 >= n
    BY <1>1, <1>7
  <2>2. Bit(bs, k) = Nth(v, 0) /\ 0 \in 0..11
    BY <1>2, <1>7, <2>1
  <2>3. Bit(bs, k + 1) = 0 /\ Bit(bs, k + 2) = 0 /\ Bit(bs, k + 3) = 0 /\ Bit(bs, k + 4) = 0
    BY <1>3, <2>1
  <2>4. x = 16 * Nth(v, 0)
    BY <1>5, <1>7
  <2>5. Five(bs, k) = 16 * Nth(v, 0) + 8 * 0 + 4 * 0 + 2 * 0 + 0
    BY <1>6, <2>2, <2>3, Zenon
  <2>6. Nth(v, 0) \in Int
    BY <1>4, <2>2
  <2> QED BY <2>4, <2>5, <2>6
<1>8. CASE b = 2
  <2>1. /\ (n - 1) - 1 = k /\ (n - 1) - 0 = k + 1 /\ k + 2 >= n /\ k + 3 >= n /\ k + 4 >= n
    BY <1>1, <1>8
  <2>2. Bit(bs, k) = Nth(v, 1) /\ Bit(bs, k + 1) = Nth(v, 0) /\ 0 \in 0..11 /\ 1 \in 0..11
    BY <1>2, <1>8, <2>1
  <2>3. Bit(bs, k + 2) = 0 /\ Bit(bs, k + 3) = 0 /\ Bit(bs, k + 4) = 0
    BY <1>3, <2>1
  <2>4. x = 16 * Nth(v, 1) + 8 * Nth(v, 0)
    BY <1>5, <1>8
  <2>5. Five(bs, k) = 16 * Nth(v, 1) + 8 * Nth(v, 0) + 4 * 0 + 2 * 0 + 0
    BY <1>6, <2>2, <2>3, Zenon
  <2>6. Nth(v, 1) \in Int /\ Nth(v, 0) \in Int
    BY <1>4, <2>2
  <2> QED BY <2>4, <2>5, <2>6
<1>9. CASE b = 3
  <2>1. /\ (n - 1) - 2 = k /\ (n - 1) - 1 = k + 1 /\ (n - 1) - 0 = k + 2 /\ k + 3 >= n /\ k + 4 >= n
    BY <1>1, <1>9
  <2>2. /\ Bit(bs, k) = Nth(v, 2) /\ Bit(bs, k + 1) = Nth(v, 1) /\ Bit(bs, k + 2) = Nth(v, 0)
        /\ 0 \in 0..11 /\ 1 \in 0..11 /\ 2 \in 0..11
    BY <1>2, <1>9, <2>1
  <2>3. Bit(bs, k + 3) = 0 /\ Bit(bs, k + 4) = 0
    BY <1>3, <2>1
  <2>4. x = 16 * Nth(v, 2) + 8 * Nth(v, 1) + 4 * Nth(v, 0)
    BY <1>5, <1>9
  <2>5. Five(bs, k) = 16 * Nth(v, 2) + 8 * Nth(v, 1) + 4 * Nth(v, 0) + 2 * 0 + 0
    BY <1>6, <2>2, <2>3, Zenon
  <2>6. Nth(v, 2) \in Int /\ Nth(v, 1) \in Int /\ Nth(v, 0) \in Int
    BY <1>4, <2>2
  <2> QED BY <2>4, <2>5, <2>6
<1>10. CASE b = 4
  <2>1. /\ (n - 1) - 3 = k /\ (n - 1) - 2 = k + 1 /\ (n - 1) - 1 = k + 2 /\ (n - 1) - 0 = k + 3
        /\ k + 4 >= n
    BY <1>1, <1>10
  <2>2. /\ Bit(bs, k) = Nth(v, 3) /\ Bit(bs, k + 1) = Nth(v, 2) /\ Bit(bs, k + 2) = Nth(v, 1)
        /\ Bit(bs, k + 3) = Nth(v, 0)
        /\ 0 \in 0..11 /\ 1 \in 0..11 /\ 2 \in 0..11 /\ 3 \in 0..11
    BY <1>2, <1>10, <2>1
  <2>3. Bit(bs, k + 4) = 0
    BY <1>3, <2>1
  <2>4. x = 16 * Nth(v, 3) + 8 * Nth(v, 2) + 4 * Nth(v, 1) + 2 * Nth(v, 0)
    BY <1>5, <1>10
  <2>5. Five(bs, k) = 16 * Nth(v, 3) + 8 * Nth(v, 2) + 4 * Nth(v, 1) + 2 * Nth(v, 0) + 0
    BY <1>6, <2>2, <2>3, Zenon
  <2>6. Nth(v, 3) \in Int /\ Nth(v, 2) \in Int /\ Nth(v, 1) \in Int /\ Nth(v, 0) \in Int
    BY <1>4, <2>2
  <2> QED BY <2>4, <2>5, <2>6
<1> QED BY <1>7, <1>8, <1>9, <1>10

LEMMA FinishBase32 ==
    ASSUME Base32Inv, Finish
    PROVE  Base32Inv'
<1> DEFINE l == Len(bytes)
           m == Len(out)
           k == 5 * m
           x == ((value * 2^(5 - bits)) % WORD) % 32
<1>1. /\ ~done /\ bits < 5 /\ pos = l /\ done' = TRUE
      /\ out' = IF bits > 0 THEN Append(out, x) ELSE out
      /\ bytes' = bytes /\ pos' = pos /\ value' = value /\ bits' = bits
  BY DEF Finish
<1>2. /\ bytes \in Seq(0..255) /\ l \in Nat /\ pos \in 0..l /\ value \in Nat /\ bits \in 0..12
      /\ out \in Seq(Int) /\ m \in Nat /\ k \in Nat
  BY DEF Base32Inv
<1>3. k + bits = 8 * l /\ LowBits
  BY <1>1 DEF Base32Inv
<1>4. \A i \in 1..m : out[i] = Five(bytes, 5 * (i - 1))
  BY DEF Base32Inv
<1>5. /\ out' \in Seq(Int) /\ Len(out') = (8 * l + 4) \div 5
      /\ \A i \in 1..Len(out') : out'[i] = Five(bytes, 5 * (i - 1))
  <2>1. CASE bits = 0
    <3>1. out' = out
      BY <1>1, <2>1
    <3>2. m = (8 * l + 4) \div 5
      <4> HIDE DEF l, m
      <4> QED BY <1>2, <1>3, <2>1
    <3> QED BY <1>2, <1>4, <3>1, <3>2
  <2>2. CASE bits \in 1..4
    <3>1. out' = Append(out, x)
      BY <1>1, <2>2
    <3>2. \A j \in 0..11 : j < bits => Nth(value, j) = Bit(bytes, (8 * l - 1) - j)
      BY <1>1, <1>3 DEF LowBits
    <3>3. x = Five(bytes, k)
      <4> HIDE DEF k
      <4>1. value \in Nat /\ bytes \in Seq(0..255) /\ k \in Nat /\ k + bits = 8 * l
        BY <1>2, <1>3
      <4> QED BY <2>2, <3>2, <4>1, LastFive, ZenonT(60)
    <3>4. x \in Int
      <4> DEFINE y == value * 2^(5 - bits)
      <4>1. y \in Nat
        <5>1. 2^(5 - bits) \in Nat
          <6>1. CASE bits = 1
            BY <6>1
          <6>2. CASE bits = 2
            BY <6>2
          <6>3. CASE bits = 3
            BY <6>3
          <6>4. CASE bits = 4
            BY <6>4
          <6> QED BY <2>2, <6>1, <6>2, <6>3, <6>4
        <5> QED BY <1>2, <5>1
      <4> HIDE DEF y
      <4>2. y % WORD \in Nat
        BY <4>1, Wraps DEF Wrapped
      <4> DEFINE r == y % WORD
      <4>3. r \in Nat
        BY <4>2
      <4> HIDE DEF r
      <4>4. r % 32 \in Int
        BY <4>3
      <4> QED BY <4>4 DEF r, y
    <3> HIDE DEF x
    <3>5. /\ out' \in Seq(Int) /\ Len(out') = m + 1
          /\ \A i \in 1..m + 1 : out'[i] = Five(bytes, 5 * (i - 1))
      BY <1>2, <1>4, <3>1, <3>3, <3>4, OneMoreFive
    <3>6. m + 1 = (8 * l + 4) \div 5
      <4> HIDE DEF l, m
      <4> QED BY <1>2, <1>3, <2>2
    <3> QED BY <3>5, <3>6
  <2>3. bits = 0 \/ bits \in 1..4
    BY <1>1, <1>2
  <2> QED BY <2>1, <2>2, <2>3
<1> QED BY <1>1, <1>2, <1>5 DEF Base32Inv

\* What is written is at every point the input's bits in groups of five, and
\* what is not is in the accumulator's low bits.
THEOREM Base32Invariance == Spec => []Base32Inv
<1>1. Init => Base32Inv
  BY InitBase32
<1>2. Base32Inv /\ [Next]_vars => Base32Inv'
  <2> SUFFICES ASSUME Base32Inv, [Next]_vars PROVE Base32Inv'
    OBVIOUS
  <2>1. CASE Take
    BY <2>1, TakeBase32
  <2>2. CASE Write
    BY <2>2, WriteBase32
  <2>3. CASE Finish
    BY <2>3, FinishBase32
  <2>4. CASE UNCHANGED vars
    <3>1. bytes' = bytes /\ pos' = pos /\ value' = value /\ bits' = bits /\ out' = out /\ done' = done
      BY <2>4 DEF vars
    <3> QED BY <3>1 DEF Base32Inv, LowBits
  <2> QED BY <2>1, <2>2, <2>3, <2>4 DEF Next
<1> QED BY <1>1, <1>2, PTL DEF Spec

\* to_base32 writes the input's bits in groups of five, the last one filled up
\* with zeros, for inputs of every length: that its accumulator is never masked
\* and loses what leaves it at the top does no harm.
THEOREM AllBitsAreWritten == Spec => []WritesAllBits
<1>1. Base32Inv => WritesAllBits
  <2> SUFFICES ASSUME Base32Inv, done PROVE out = [i \in 1..(8 * Len(bytes) + 4) \div 5 |-> Five(bytes, 5 * (i - 1))]
    BY DEF WritesAllBits
  <2> DEFINE n == (8 * Len(bytes) + 4) \div 5
  <2>1. out \in Seq(Int) /\ Len(out) = n /\ \A i \in 1..Len(out) : out[i] = Five(bytes, 5 * (i - 1))
    BY DEF Base32Inv
  <2> HIDE DEF n
  <2>2. DOMAIN out = 1..n
    BY <2>1
  <2>3. out = [i \in 1..n |-> out[i]]
    BY <2>1, <2>2
  <2>4. out = [i \in 1..n |-> Five(bytes, 5 * (i - 1))]
    BY <2>1, <2>3
  <2> QED BY <2>4 DEF n
<1> QED BY <1>1, Base32Invariance, PTL
============================================================================
