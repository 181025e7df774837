------------------------- MODULE FeigFrames_proofs -------------------------
(***************************************************************************)
(* Theorems about FeigFrames, for every number of records that a frame has *)
(* room for, all types of transponders and lengths of their numbers, and   *)
(* every change of the bits of a byte.                                     *)
(***************************************************************************)
EXTENDS FeigFrames, SequenceTheorems, FiniteSetTheorems, WellFoundedInduction,
        TLAPS

Byte == 0 .. 255
Register == SUBSET (0 .. 15)

-----------------------------------------------------------------------------
(***************************************************************************)
(* Numbers and sequences.                                                  *)
(***************************************************************************)
LEMMA Smallest ==
  ASSUME NEW T, T \subseteq Nat, T # {}
  PROVE  \E x \in T : \A y \in T : x <= y
  <1> DEFINE Below(n) == 1 .. n
             B == {Below(n) : n \in T}
             R == StrictSubsetOrdering(Nat)
  <1>1. B \subseteq FiniteSubsetsOf(Nat) /\ B # {}
    <2>1. ASSUME NEW n \in T PROVE Below(n) \in FiniteSubsetsOf(Nat)
      <3>1. IsFiniteSet(1 .. n) /\ 1 .. n \subseteq Nat
        BY FS_Interval
      <3> QED
        BY <3>1 DEF FiniteSubsetsOf
    <2> QED
      BY <2>1
  <1>2. IsWellFoundedOn(R, FiniteSubsetsOf(Nat))
    BY FS_StrictSubsetOrderingWellFounded
  <1> HIDE DEF B, R
  <1>3. PICK b \in B : \A c \in B : ~ (<<c, b>> \in R)
    BY <1>1, <1>2, WFMin
  <1>4. PICK x \in T : b = Below(x)
    BY DEF B
  <1>5. ASSUME NEW y \in T PROVE x <= y
    <2>1. Below(y) \in B
      BY DEF B
    <2>2. ~ (<<Below(y), Below(x)>> \in R)
      BY <2>1, <1>3, <1>4
    <2>3. Below(y) \subseteq Nat /\ Below(x) \subseteq Nat
      OBVIOUS
    <2>4. CASE y < x
      <3>1. Below(y) \subseteq Below(x) /\ x \in Below(x) /\ x \notin Below(y)
        BY <2>4
      <3> QED
        BY <2>2, <2>3, <3>1 DEF R, StrictSubsetOrdering
    <2> QED
      BY <2>4
  <1> QED
    BY <1>5

\* A set that has 0, and each number up to n whose predecessor it has, has all
\* of them.
LEMMA UpTo ==
  ASSUME NEW n \in Nat, NEW G,
         0 \in G, \A i \in 1 .. n : i - 1 \in G => i \in G
  PROVE  \A i \in 0 .. n : i \in G
  <1> DEFINE T == {i \in 0 .. n : i \notin G}
  <1> SUFFICES ASSUME T # {} PROVE FALSE
    OBVIOUS
  <1>1. PICK x \in T : \A y \in T : x <= y
    <2>1. T \subseteq Nat
      OBVIOUS
    <2> HIDE DEF T
    <2> QED
      BY <2>1, Smallest
  <1>2. x - 1 \notin T /\ x # 0
    BY <1>1
  <1> QED
    BY <1>1, <1>2

\* A recursive function exists: G[i] makes the i-th value from the one before.
IsStep(G, n, S) == \A i \in 1 .. n : \A v \in S : G[i][v] \in S

IsRun(r, b, n, G, S) ==
  r \in [0 .. n -> S] /\ r[0] = b /\ \A i \in 1 .. n : r[i] = G[i][r[i - 1]]

LEMMA Recursion ==
  ASSUME NEW S, NEW b, NEW n, NEW G, n \in Nat, b \in S, IsStep(G, n, S)
  PROVE  \E r : IsRun(r, b, n, G, S)
  <1> DEFINE T == {k \in 0 .. n : \A r : ~ IsRun(r, b, k, G, S)}
  <1>1. T = {}
    <2> SUFFICES ASSUME T # {} PROVE FALSE
      OBVIOUS
    <2>1. PICK x \in T : \A y \in T : x <= y
      <3>1. T \subseteq Nat
        OBVIOUS
      <3> HIDE DEF T
      <3> QED
        BY <3>1, Smallest
    <2>2. x \in 0 .. n /\ \A r : ~ IsRun(r, b, x, G, S)
      BY <2>1
    <2>3. CASE x = 0
      <3> DEFINE r == [i \in 0 .. 0 |-> b]
      <3>1. r \in [0 .. 0 -> S] /\ r[0] = b
        OBVIOUS
      <3>2. IsRun(r, b, 0, G, S)
        BY <3>1 DEF IsRun
      <3> QED
        BY <2>2, <2>3, <3>2
    <2>4. CASE x # 0
      <3>1. x - 1 \in 0 .. n /\ x - 1 \notin T
        <4>1. x - 1 \in 0 .. n /\ ~ (x <= x - 1)
          BY <2>2, <2>4
        <4> HIDE DEF T
        <4> QED
          BY <4>1, <2>1
      <3>2. PICK q : IsRun(q, b, x - 1, G, S)
        BY <3>1
      <3> DEFINE r == [i \in 0 .. x |-> IF i = x THEN G[x][q[x - 1]] ELSE q[i]]
      <3>3. /\ q \in [0 .. x - 1 -> S] /\ q[0] = b
            /\ \A i \in 1 .. x - 1 : q[i] = G[i][q[i - 1]]
        BY <3>2 DEF IsRun
      <3>4. x \in 1 .. n /\ q[x - 1] \in S /\ G[x][q[x - 1]] \in S
        BY <2>2, <2>4, <3>3 DEF IsStep
      <3>5. \A i \in 0 .. x : i # x => i \in 0 .. x - 1
        BY <2>2
      <3>6. r \in [0 .. x -> S]
        BY <3>3, <3>4, <3>5
      <3>7. r[0] = b
        BY <2>2, <2>4, <3>3
      <3>8. ASSUME NEW i \in 1 .. x PROVE r[i] = G[i][r[i - 1]]
        <4>1. i - 1 \in 0 .. x /\ i - 1 # x /\ i \in 0 .. x
          BY <2>2
        <4>2. r[i - 1] = q[i - 1]
          BY <4>1
        <4>3. CASE i = x
          BY <4>1, <4>2, <4>3
        <4>4. CASE i # x
          <5>1. i \in 1 .. x - 1
            BY <2>2, <4>4
          <5>2. q[i] = G[i][q[i - 1]]
            BY <3>3, <5>1
          <5> QED
            BY <4>1, <4>2, <4>4, <5>2
        <4> QED
          BY <4>3, <4>4
      <3> HIDE DEF r
      <3>9. IsRun(r, b, x, G, S)
        BY <3>6, <3>7, <3>8 DEF IsRun
      <3> QED
        BY <2>2, <3>9
    <2> QED
      BY <2>3, <2>4
  <1>2. n \in 0 .. n
    OBVIOUS
  <1>3. n \notin T
    <2> HIDE DEF T
    <2> QED
      BY <1>1
  <1> QED
    BY <1>2, <1>3

-----------------------------------------------------------------------------
(***************************************************************************)
(* Bytes and their bits.                                                   *)
(***************************************************************************)
LEMMA BitsOfByte == \A b \in Byte : Bits[b] \in SUBSET (0 .. 7)
  BY DEF Bits, Byte

\* A byte is the sum of its bits: from each half to the one before.
LEMMA Halves ==
  ASSUME NEW b \in Byte
  PROVE  /\ b \div 1 = b
         /\ b \div 1 = 2 * (b \div 2) + ((b \div 1) % 2)
         /\ b \div 2 = 2 * (b \div 4) + ((b \div 2) % 2)
         /\ b \div 4 = 2 * (b \div 8) + ((b \div 4) % 2)
         /\ b \div 8 = 2 * (b \div 16) + ((b \div 8) % 2)
         /\ b \div 16 = 2 * (b \div 32) + ((b \div 16) % 2)
         /\ b \div 32 = 2 * (b \div 64) + ((b \div 32) % 2)
         /\ b \div 64 = 2 * (b \div 128) + ((b \div 64) % 2)
         /\ b \div 128 = (b \div 128) % 2
  BY DEF Byte

LEMMA BitIn ==
  ASSUME NEW b \in Byte
  PROVE  /\ 0 \in Bits[b] <=> (b \div 1) % 2 = 1
         /\ 1 \in Bits[b] <=> (b \div 2) % 2 = 1
         /\ 2 \in Bits[b] <=> (b \div 4) % 2 = 1
         /\ 3 \in Bits[b] <=> (b \div 8) % 2 = 1
         /\ 4 \in Bits[b] <=> (b \div 16) % 2 = 1
         /\ 5 \in Bits[b] <=> (b \div 32) % 2 = 1
         /\ 6 \in Bits[b] <=> (b \div 64) % 2 = 1
         /\ 7 \in Bits[b] <=> (b \div 128) % 2 = 1
  <1>1. \A k \in 0 .. 7 : k \in Bits[b] <=> (b \div Weights[k + 1]) % 2 = 1
    BY DEF Bits, Byte
  <1>2. /\ Weights[0 + 1] = 1 /\ Weights[1 + 1] = 2 /\ Weights[2 + 1] = 4 /\ Weights[3 + 1] = 8
        /\ Weights[4 + 1] = 16 /\ Weights[5 + 1] = 32 /\ Weights[6 + 1] = 64
        /\ Weights[7 + 1] = 128
    BY DEF Weights
  <1>3. /\ 0 \in Bits[b] <=> (b \div 1) % 2 = 1
        /\ 1 \in Bits[b] <=> (b \div 2) % 2 = 1
    BY <1>1, <1>2
  <1>4. /\ 2 \in Bits[b] <=> (b \div 4) % 2 = 1
        /\ 3 \in Bits[b] <=> (b \div 8) % 2 = 1
    BY <1>1, <1>2
  <1>5. /\ 4 \in Bits[b] <=> (b \div 16) % 2 = 1
        /\ 5 \in Bits[b] <=> (b \div 32) % 2 = 1
    BY <1>1, <1>2
  <1>6. /\ 6 \in Bits[b] <=> (b \div 64) % 2 = 1
        /\ 7 \in Bits[b] <=> (b \div 128) % 2 = 1
    BY <1>1, <1>2
  <1> QED
    BY <1>3, <1>4, <1>5, <1>6

\* The value of a bit that is set or not.
Set(k, bits) == IF k \in bits THEN 1 ELSE 0

LEMMA ByteIsSum ==
  ASSUME NEW b \in Byte
  PROVE  b = Set(0, Bits[b]) + 2 * Set(1, Bits[b]) + 4 * Set(2, Bits[b])
             + 8 * Set(3, Bits[b]) + 16 * Set(4, Bits[b]) + 32 * Set(5, Bits[b])
             + 64 * Set(6, Bits[b]) + 128 * Set(7, Bits[b])
  <1>1. \A x \in Int : x % 2 \in {0, 1}
    OBVIOUS
  <1>2. \A d \in {1, 2, 4, 8, 16, 32, 64, 128} : b \div d \in Int
    BY DEF Byte
  <1>3. /\ Set(0, Bits[b]) = (b \div 1) % 2 /\ Set(1, Bits[b]) = (b \div 2) % 2
        /\ Set(2, Bits[b]) = (b \div 4) % 2 /\ Set(3, Bits[b]) = (b \div 8) % 2
        /\ Set(4, Bits[b]) = (b \div 16) % 2 /\ Set(5, Bits[b]) = (b \div 32) % 2
        /\ Set(6, Bits[b]) = (b \div 64) % 2 /\ Set(7, Bits[b]) = (b \div 128) % 2
    BY <1>1, <1>2, BitIn DEF Set
  <1> DEFINE h(d) == b \div d
             v(k) == Set(k, Bits[b])
  <1>4. /\ b = 2 * h(2) + v(0) /\ h(2) = 2 * h(4) + v(1) /\ h(4) = 2 * h(8) + v(2)
        /\ h(8) = 2 * h(16) + v(3) /\ h(16) = 2 * h(32) + v(4)
    BY <1>3, Halves
  <1>5. /\ h(32) = 2 * h(64) + v(5) /\ h(64) = 2 * h(128) + v(6) /\ h(128) = v(7)
    BY <1>3, Halves
  <1>6. /\ h(2) \in Int /\ h(4) \in Int /\ h(8) \in Int /\ h(16) \in Int /\ h(32) \in Int
        /\ h(64) \in Int /\ h(128) \in Int
    BY <1>2
  <1>7. \A k \in 0 .. 7 : v(k) \in Int
    BY DEF Set
  <1> HIDE DEF h, v
  <1>8. b = v(0) + 2 * v(1) + 4 * v(2) + 8 * v(3) + 16 * v(4) + 32 * v(5) + 64 * v(6)
            + 128 * v(7)
    BY <1>4, <1>5, <1>6, <1>7
  <1> QED
    BY <1>8 DEF v

LEMMA BitsInjective ==
  ASSUME NEW b \in Byte, NEW c \in Byte, Bits[b] = Bits[c]
  PROVE  b = c
  BY ByteIsSum

LEMMA ByteOfBits ==
  ASSUME NEW s \in SUBSET (0 .. 7)
  PROVE  ByteOf(s) \in Byte /\ Bits[ByteOf(s)] = s
  <1> DEFINE v(k) == Set(k, s)
  <1>1. \A k \in 0 .. 7 : v(k) \in {0, 1} /\ (v(k) = 1 <=> k \in s)
    BY DEF Set
  <1>2. ByteOf(s) = v(0) + 2 * v(1) + 4 * v(2) + 8 * v(3) + 16 * v(4) + 32 * v(5)
                    + 64 * v(6) + 128 * v(7)
    BY DEF ByteOf, Set, Weights
  <1> HIDE DEF v
  <1> DEFINE b == ByteOf(s)
  <1>3. b \in Byte
    BY <1>1, <1>2 DEF Byte
  <1>4. /\ (b \div 1) % 2 = v(0) /\ (b \div 2) % 2 = v(1) /\ (b \div 4) % 2 = v(2)
        /\ (b \div 8) % 2 = v(3) /\ (b \div 16) % 2 = v(4) /\ (b \div 32) % 2 = v(5)
        /\ (b \div 64) % 2 = v(6) /\ (b \div 128) % 2 = v(7)
    BY <1>1, <1>2
  <1> HIDE DEF b
  <1>5. \A k \in {0, 1, 2, 3, 4, 5, 6, 7} : k \in Bits[b] <=> v(k) = 1
    BY <1>3, <1>4, BitIn
  <1>6. \A k \in 0 .. 7 : k \in Bits[b] <=> k \in s
    BY <1>1, <1>5
  <1>7. Bits[b] \in SUBSET (0 .. 7)
    BY <1>3, BitsOfByte
  <1> QED
    BY <1>3, <1>6, <1>7 DEF b

-----------------------------------------------------------------------------
(***************************************************************************)
(* The register: a shift loses nothing, because bit 15 tells whether the   *)
(* polynomial came in.                                                     *)
(***************************************************************************)
LEMMA ShiftBits ==
  ASSUME NEW c \in Register
  PROVE  /\ Shift(c) \in Register
         /\ 15 \in Shift(c) <=> 0 \in c
         /\ \A k \in 1 .. 15 : k \in c <=> ((k - 1 \in Shift(c)) # (0 \in c /\ k - 1 \in {3, 10, 15}))
  <1>1. /\ Down(c) \in SUBSET (0 .. 14)
        /\ \A k \in 1 .. 15 : k \in c <=> k - 1 \in Down(c)
    BY DEF Down, Register
  <1> QED
    BY <1>1 DEF Shift, SymDiff, Register

LEMMA ShiftInjective ==
  ASSUME NEW c \in Register, NEW d \in Register, Shift(c) = Shift(d)
  PROVE  c = d
  <1>1. 0 \in c <=> 0 \in d
    BY ShiftBits
  <1>2. \A k \in 1 .. 15 : k \in c <=> k \in d
    BY <1>1, ShiftBits
  <1>3. \A k \in 0 .. 15 : k = 0 \/ k \in 1 .. 15
    OBVIOUS
  <1>4. c \subseteq 0 .. 15 /\ d \subseteq 0 .. 15
    BY DEF Register
  <1>5. \A k : k \in c <=> k \in d
    BY <1>1, <1>2, <1>3, <1>4
  <1> QED
    BY <1>5

LEMMA ShiftedInjective ==
  ASSUME NEW c \in Register
  PROVE  /\ Shifted[c] \in Register
         /\ \A d \in Register : Shifted[c] = Shifted[d] => c = d
  <1>1. \A d \in Register : Shift(d) \in Register
    BY ShiftBits
  <1>2. \A x, y \in Register : Shift(x) = Shift(y) => x = y
    BY ShiftInjective
  <1>3. \A d \in Register :
          Shifted[d] = Shift(Shift(Shift(Shift(Shift(Shift(Shift(Shift(d))))))))
    BY DEF Shifted, Register
  <1> QED
    BY <1>1, <1>2, <1>3

LEMMA DiffInjective ==
  ASSUME NEW x, NEW y, NEW z, SymDiff(x, z) = SymDiff(y, z)
  PROVE  x = y
  BY DEF SymDiff

\* A byte takes different registers to different ones, and a register takes
\* different bytes to different ones.
LEMMA UpdateInjective ==
  ASSUME NEW c \in Register, NEW b \in Byte
  PROVE  /\ Update(c, b) \in Register
         /\ \A d \in Register : Update(c, b) = Update(d, b) => c = d
         /\ \A a \in Byte : Update(c, b) = Update(c, a) => b = a
  <1>1. \A d \in Register, a \in Byte : SymDiff(d, Bits[a]) \in Register
    <2>1. \A a \in Byte : Bits[a] \in Register
      BY BitsOfByte DEF Register
    <2> QED
      BY <2>1 DEF SymDiff, Register
  <1>2. \A d \in Register : Update(c, b) = Update(d, b) => c = d
    BY <1>1, ShiftedInjective, DiffInjective DEF Update
  <1>3. \A a \in Byte : Update(c, b) = Update(c, a) => b = a
    <2> SUFFICES ASSUME NEW a \in Byte, Update(c, b) = Update(c, a) PROVE b = a
      OBVIOUS
    <2>1. SymDiff(c, Bits[b]) = SymDiff(c, Bits[a])
      BY <1>1, ShiftedInjective DEF Update
    <2>2. Bits[b] = Bits[a]
      BY <2>1 DEF SymDiff
    <2> QED
      BY <2>2, BitsInjective
  <1> QED
    BY <1>1, <1>2, <1>3, ShiftedInjective DEF Update

-----------------------------------------------------------------------------
(***************************************************************************)
(* The CRC: what it runs through, and that it tells sequences of bytes     *)
(* apart that differ in one byte.                                          *)
(***************************************************************************)
CrcRun(s, r) ==
  /\ r \in [0 .. Len(s) -> Register] /\ r[0] = 0 .. 15
  /\ \A i \in 1 .. Len(s) : r[i] = Update(r[i - 1], s[i])

LEMMA CrcIsRun ==
  ASSUME NEW s \in Seq(Byte)
  PROVE  \E r : CrcRun(s, r) /\ Crc16(s) = r[Len(s)]
  <1> DEFINE n == Len(s)
             G == [i \in 1 .. n |-> [c \in Register |-> Update(c, s[i])]]
             F(f) == [i \in 0 .. n |-> IF i = 0 THEN 0 .. 15 ELSE Update(f[i - 1], s[i])]
             crc == CHOOSE f : f = F(f)
  <1>1. n \in Nat /\ \A i \in 1 .. n : s[i] \in Byte
    OBVIOUS
  <1>2. IsStep(G, n, Register)
    BY <1>1, UpdateInjective DEF IsStep
  <1>3. 0 .. 15 \in Register
    BY DEF Register
  <1>4. PICK r : /\ r \in [0 .. n -> Register] /\ r[0] = 0 .. 15
                 /\ \A i \in 1 .. n : r[i] = G[i][r[i - 1]]
    <2> HIDE DEF G, n
    <2>1. \E r : IsRun(r, 0 .. 15, n, G, Register)
      BY <1>1, <1>2, <1>3, Recursion
    <2> QED
      BY <2>1 DEF IsRun
  <1>5. ASSUME NEW i \in 1 .. n PROVE r[i] = Update(r[i - 1], s[i])
    <2>1. i - 1 \in 0 .. n /\ r[i - 1] \in Register
      BY <1>1, <1>4
    <2> QED
      BY <1>4, <2>1
  <1>6. r = F(r)
    <2>1. \A i \in 0 .. n : i = 0 \/ i \in 1 .. n
      BY <1>1
    <2>2. \A i \in 0 .. n : r[i] = F(r)[i]
      BY <1>4, <1>5, <2>1
    <2> QED
      BY <2>2, <1>4
  <1>7. crc = F(crc)
    BY <1>6
  <1>8. Crc16(s) = crc[n]
    BY DEF Crc16
  <1> HIDE DEF crc
  <1>9. /\ crc[0] = 0 .. 15
        /\ \A i \in 1 .. n : crc[i] = Update(crc[i - 1], s[i])
    <2>1. \A i \in 1 .. n : i \in 0 .. n /\ i # 0
      BY <1>1
    <2>2. 0 \in 0 .. n
      BY <1>1
    <2> QED
      BY <1>7, <2>1, <2>2
  <1>10. \A i \in 0 .. n : crc[i] = r[i]
    <2> DEFINE T == {i \in 0 .. n : crc[i] # r[i]}
    <2> SUFFICES ASSUME T # {} PROVE FALSE
      OBVIOUS
    <2>1. PICK x \in T : \A y \in T : x <= y
      <3>1. T \subseteq Nat
        BY <1>1
      <3> HIDE DEF T
      <3> QED
        BY <3>1, Smallest
    <2>2. x \in 0 .. n /\ crc[x] # r[x] /\ x # 0
      BY <2>1, <1>9, <1>4
    <2>3. x \in 1 .. n /\ x - 1 \in 0 .. n /\ ~ (x <= x - 1)
      BY <2>2, <1>1
    <2>4. crc[x - 1] = r[x - 1]
      BY <2>1, <2>3
    <2> QED
      BY <2>2, <2>3, <2>4, <1>9, <1>5
  <1>11. CrcRun(s, r)
    BY <1>4, <1>5 DEF CrcRun
  <1> QED
    BY <1>1, <1>8, <1>10, <1>11

LEMMA CrcTells ==
  ASSUME NEW s \in Seq(Byte), NEW t \in Seq(Byte), Len(s) = Len(t),
         NEW k \in 1 .. Len(s), s[k] # t[k],
         \A i \in 1 .. Len(s) : i # k => s[i] = t[i]
  PROVE  Crc16(s) # Crc16(t)
  <1> DEFINE n == Len(s)
  <1>1. n \in Nat /\ \A i \in 1 .. n : s[i] \in Byte /\ t[i] \in Byte
    OBVIOUS
  <1>2. PICK r : CrcRun(s, r) /\ Crc16(s) = r[n]
    BY CrcIsRun
  <1>3. PICK q : CrcRun(t, q) /\ Crc16(t) = q[n]
    BY CrcIsRun
  <1>4. /\ \A i \in 0 .. n : r[i] \in Register /\ q[i] \in Register
        /\ r[0] = q[0]
        /\ \A i \in 1 .. n : r[i] = Update(r[i - 1], s[i]) /\ q[i] = Update(q[i - 1], t[i])
    BY <1>2, <1>3 DEF CrcRun
  <1> HIDE DEF n
  <1>5. \A i \in 0 .. k - 1 : r[i] = q[i]
    <2> DEFINE T == {i \in 0 .. k - 1 : r[i] # q[i]}
    <2> SUFFICES ASSUME T # {} PROVE FALSE
      OBVIOUS
    <2>1. PICK x \in T : \A y \in T : x <= y
      <3>1. T \subseteq Nat
        OBVIOUS
      <3> HIDE DEF T
      <3> QED
        BY <3>1, Smallest
    <2>2. x \in 0 .. k - 1 /\ r[x] # q[x] /\ x # 0
      BY <2>1, <1>4
    <2>3. x \in 1 .. n /\ x - 1 \in 0 .. k - 1 /\ ~ (x <= x - 1) /\ x # k
      BY <2>2, <1>1 DEF n
    <2>4. r[x - 1] = q[x - 1]
      BY <2>1, <2>3
    <2> QED
      BY <2>2, <2>3, <2>4, <1>4 DEF n
  <1>6. r[k] # q[k]
    <2>1. k - 1 \in 0 .. n /\ k - 1 \in 0 .. k - 1 /\ k \in 1 .. n
      BY <1>1 DEF n
    <2>2. r[k] = Update(r[k - 1], s[k]) /\ q[k] = Update(r[k - 1], t[k])
      BY <2>1, <1>4, <1>5
    <2>3. r[k - 1] \in Register /\ s[k] \in Byte /\ t[k] \in Byte
      BY <2>1, <1>1, <1>4
    <2> QED
      BY <2>2, <2>3, UpdateInjective
  <1>7. \A i \in k .. n : r[i] # q[i]
    <2> DEFINE T == {i \in k .. n : r[i] = q[i]}
    <2> SUFFICES ASSUME T # {} PROVE FALSE
      OBVIOUS
    <2>1. PICK x \in T : \A y \in T : x <= y
      <3>1. T \subseteq Nat
        BY <1>1
      <3> HIDE DEF T
      <3> QED
        BY <3>1, Smallest
    <2>2. x \in k .. n /\ r[x] = q[x] /\ x # k
      BY <2>1, <1>6
    <2>3. x \in 1 .. n /\ x - 1 \in k .. n /\ x - 1 \in 0 .. n /\ ~ (x <= x - 1)
      BY <2>2, <1>1
    <2>4. r[x - 1] # q[x - 1]
      BY <2>1, <2>3
    <2>5. s[x] = t[x]
      BY <2>2, <2>3 DEF n
    <2>6. Update(r[x - 1], s[x]) = Update(q[x - 1], s[x])
      BY <2>2, <2>3, <2>5, <1>4
    <2>7. r[x - 1] \in Register /\ q[x - 1] \in Register /\ s[x] \in Byte
      BY <2>3, <1>1, <1>4
    <2>8. \A c, d \in Register, b \in Byte : Update(c, b) = Update(d, b) => c = d
      BY UpdateInjective
    <2> QED
      BY <2>4, <2>6, <2>7, <2>8
  <1>8. n \in k .. n
    BY <1>1 DEF n
  <1> QED
    BY <1>2, <1>3, <1>7, <1>8

-----------------------------------------------------------------------------
(***************************************************************************)
(* Frames.                                                                 *)
(***************************************************************************)
\* The register that two bytes stand for, the low one first.
Together(low, high) == Bits[low] \cup {k + 8 : k \in Bits[high]}

LEMMA TwoBytes ==
  ASSUME NEW c \in Register
  PROVE  /\ ByteOf(c \cap 0 .. 7) \in Byte /\ ByteOf({k - 8 : k \in c \ 0 .. 7}) \in Byte
         /\ Together(ByteOf(c \cap 0 .. 7), ByteOf({k - 8 : k \in c \ 0 .. 7})) = c
  <1> DEFINE low == c \cap 0 .. 7
             high == {k - 8 : k \in c \ 0 .. 7}
  <1>1. low \in SUBSET (0 .. 7)
    OBVIOUS
  <1>2. high \in SUBSET (0 .. 7)
    BY DEF Register
  <1>3. /\ ByteOf(low) \in Byte /\ Bits[ByteOf(low)] = low
        /\ ByteOf(high) \in Byte /\ Bits[ByteOf(high)] = high
    <2> HIDE DEF low, high
    <2> QED
      BY <1>1, <1>2, ByteOfBits
  <1>4. low \cup {k + 8 : k \in high} = c
    <2>1. \A k \in c : k \in Int
      BY DEF Register
    <2>2. \A k \in c \ 0 .. 7 : (k - 8) + 8 = k
      BY <2>1
    <2>3. {k + 8 : k \in high} = c \ 0 .. 7
      BY <2>2
    <2> QED
      BY <2>3
  <1> QED
    BY <1>3, <1>4 DEF Together

LEMMA TogetherInjective ==
  ASSUME NEW a \in Byte, NEW b \in Byte, NEW c \in Byte, NEW d \in Byte,
         Together(a, b) = Together(c, d)
  PROVE  a = c /\ b = d
  <1>1. /\ Bits[a] \in SUBSET (0 .. 7) /\ Bits[b] \in SUBSET (0 .. 7)
        /\ Bits[c] \in SUBSET (0 .. 7) /\ Bits[d] \in SUBSET (0 .. 7)
    BY BitsOfByte
  <1>2. \A k \in 0 .. 7 : k \in Bits[a] <=> k \in Bits[c]
    <2>1. \A k \in 0 .. 7 : k \in Together(a, b) <=> k \in Bits[a]
      BY <1>1 DEF Together
    <2>2. \A k \in 0 .. 7 : k \in Together(c, d) <=> k \in Bits[c]
      BY <1>1 DEF Together
    <2> QED
      BY <2>1, <2>2
  <1>3. \A k \in 0 .. 7 : k \in Bits[b] <=> k \in Bits[d]
    <2>1. \A k \in 0 .. 7 : k + 8 \in Together(a, b) <=> k \in Bits[b]
      BY <1>1 DEF Together
    <2>2. \A k \in 0 .. 7 : k + 8 \in Together(c, d) <=> k \in Bits[d]
      BY <1>1 DEF Together
    <2> QED
      BY <2>1, <2>2
  <1>4. Bits[a] = Bits[c] /\ Bits[b] = Bits[d]
    BY <1>1, <1>2, <1>3
  <1> QED
    BY <1>4, BitsInjective

\* The length of a frame, which it has in two bytes.
FrameLength(p) == Len(p) + 6

\* What has room in a frame.
Payloads == {p \in Seq(Byte) : FrameLength(p) <= 65535}

\* The bytes of a frame in front of its CRC.
Packet(p) == <<STX, High(FrameLength(p)), Low(FrameLength(p)), 255>> \o p

LEMMA PacketShape ==
  ASSUME NEW p \in Payloads
  PROVE  /\ Packet(p) \in Seq(Byte) /\ Len(Packet(p)) = Len(p) + 4
         /\ Packet(p)[1] = STX
         /\ Packet(p)[2] * 256 + Packet(p)[3] = FrameLength(p)
         /\ \A i \in 1 .. Len(p) : Packet(p)[i + 4] = p[i]
  <1> DEFINE n == FrameLength(p)
             head == <<STX, High(n), Low(n), 255>>
  <1>1. n \in Nat /\ n <= 65535 /\ Len(p) \in Nat /\ p \in Seq(Byte) /\ n = Len(p) + 6
    BY DEF FrameLength, Payloads
  <1>2. /\ High(n) \in Byte /\ Low(n) \in Byte /\ STX \in Byte /\ 255 \in Byte
        /\ High(n) * 256 + Low(n) = n
    <2>1. n \in Nat /\ n <= 65535
      BY <1>1
    <2> HIDE DEF n
    <2> QED
      BY <2>1 DEF High, Low, STX, Byte
  <1> DEFINE h == High(n)
             l == Low(n)
  <1>3. /\ head \in Seq(Byte) /\ Len(head) = 4
        /\ head[1] = STX /\ head[2] = h /\ head[3] = l /\ head[4] = 255
    <2> HIDE DEF n, h, l
    <2>1. <<STX, h, l, 255>> \in Seq(Byte)
      BY <1>2 DEF h, l
    <2> QED
      BY <2>1 DEF h, l
  <1>4. Packet(p) = head \o p
    BY DEF Packet
  <1> HIDE DEF head, n, h, l
  <1>5. /\ head \o p \in Seq(Byte) /\ Len(head \o p) = 4 + Len(p)
        /\ \A i \in 1 .. 4 + Len(p) : (head \o p)[i] = IF i <= 4 THEN head[i] ELSE p[i - 4]
    <2>1. /\ head \o p \in Seq(Byte) /\ Len(head \o p) = Len(head) + Len(p)
          /\ \A i \in 1 .. Len(head) + Len(p) :
               (head \o p)[i] = IF i <= Len(head) THEN head[i] ELSE p[i - Len(head)]
      <3>1. head \in Seq(Byte) /\ p \in Seq(Byte)
        BY <1>1, <1>3
      <3> QED
        BY <3>1, ConcatProperties
    <2> QED
      BY <1>3, <2>1
  <1>6. /\ (head \o p)[1] = STX /\ (head \o p)[2] = h /\ (head \o p)[3] = l
        /\ \A i \in 1 .. Len(p) : (head \o p)[i + 4] = p[i]
    <2>1. /\ 1 \in 1 .. 4 + Len(p) /\ 2 \in 1 .. 4 + Len(p) /\ 3 \in 1 .. 4 + Len(p)
          /\ \A i \in 1 .. Len(p) : i + 4 \in 1 .. 4 + Len(p) /\ ~ (i + 4 <= 4) /\ i + 4 - 4 = i
      BY <1>1
    <2> QED
      BY <2>1, <1>3, <1>5
  <1> QED
    BY <1>2, <1>4, <1>5, <1>6, <1>1 DEF n, h, l

LEMMA FrameShape ==
  ASSUME NEW p \in Payloads
  PROVE  /\ Frame(p) \in Seq(Byte) /\ Len(Frame(p)) = FrameLength(p)
         /\ \A i \in 1 .. FrameLength(p) - 2 : Frame(p)[i] = Packet(p)[i]
         /\ SubSeq(Frame(p), 1, FrameLength(p) - 2) = Packet(p)
         /\ Crc16(Packet(p))
              = Together(Frame(p)[FrameLength(p) - 1], Frame(p)[FrameLength(p)])
         /\ SubSeq(Frame(p), 5, FrameLength(p) - 2) = p
  <1> DEFINE n == FrameLength(p)
             q == Packet(p)
             c == Crc16(q)
             low == ByteOf(c \cap 0 .. 7)
             high == ByteOf({k - 8 : k \in c \ 0 .. 7})
             f == q \o <<low, high>>
  <1>1. n \in Nat /\ Len(p) \in Nat /\ n = Len(p) + 6 /\ p \in Seq(Byte)
    BY DEF FrameLength, Payloads
  <1>2. /\ q \in Seq(Byte) /\ Len(q) = n - 2
        /\ \A i \in 1 .. Len(p) : q[i + 4] = p[i]
    BY <1>1, PacketShape
  <1>3. Frame(p) = f
    BY DEF Frame, Packet, FrameLength
  <1>4. c \in Register
    <2>1. PICK r : CrcRun(q, r) /\ Crc16(q) = r[Len(q)]
      BY <1>2, CrcIsRun
    <2>2. Len(q) \in 0 .. Len(q)
      BY <1>2
    <2> QED
      BY <2>1, <2>2 DEF CrcRun
  <1> HIDE DEF q, n
  <1>5. low \in Byte /\ high \in Byte /\ Together(low, high) = c
    BY <1>4, TwoBytes
  <1> HIDE DEF c, low, high
  <1>6. <<low, high>> \in Seq(Byte) /\ Len(<<low, high>>) = 2
    BY <1>5
  <1>7. /\ f \in Seq(Byte) /\ Len(f) = n
        /\ \A i \in 1 .. n : f[i] = IF i <= n - 2 THEN q[i] ELSE <<low, high>>[i - (n - 2)]
    BY <1>1, <1>2, <1>6, ConcatProperties
  <1>8. /\ f[n - 1] = low /\ f[n] = high
        /\ \A i \in 1 .. n - 2 : f[i] = q[i]
    <2>1. /\ n - 1 \in 1 .. n /\ n \in 1 .. n /\ n - 1 - (n - 2) = 1 /\ n - (n - 2) = 2
          /\ ~ (n - 1 <= n - 2) /\ ~ (n <= n - 2)
          /\ \A i \in 1 .. n - 2 : i \in 1 .. n /\ i <= n - 2
      BY <1>1
    <2> DEFINE tail == <<low, high>>
    <2>2. tail[1] = low /\ tail[2] = high
      OBVIOUS
    <2>3. \A i \in 1 .. n : f[i] = IF i <= n - 2 THEN q[i] ELSE tail[i - (n - 2)]
      BY <1>7
    <2> HIDE DEF f, tail
    <2>4. f[n - 1] = tail[n - 1 - (n - 2)] /\ f[n] = tail[n - (n - 2)]
      BY <2>1, <2>3
    <2>5. \A i \in 1 .. n - 2 : f[i] = q[i]
      BY <2>1, <2>3
    <2> QED
      BY <2>1, <2>2, <2>4, <2>5
  <1> HIDE DEF f
  <1>9. SubSeq(f, 1, n - 2) = q
    <2>1. \A i \in 1 .. n - 2 : f[i] \in Byte
      BY <1>7, <1>1
    <2>2. /\ SubSeq(f, 1, n - 2) \in Seq(Byte) /\ Len(SubSeq(f, 1, n - 2)) = n - 2
          /\ \A i \in 1 .. n - 2 : SubSeq(f, 1, n - 2)[i] = f[i]
      <3>1. /\ SubSeq(f, 1, n - 2) \in Seq(Byte)
            /\ Len(SubSeq(f, 1, n - 2)) = IF 1 <= n - 2 THEN n - 2 - 1 + 1 ELSE 0
            /\ \A i \in 1 .. n - 2 - 1 + 1 : SubSeq(f, 1, n - 2)[i] = f[1 + i - 1]
        BY <2>1, <1>1, SubSeqProperties
      <3> QED
        BY <3>1, <1>1
    <2> QED
      BY <1>2, <1>8, <2>2, SeqEqual
  <1>10. SubSeq(f, 5, n - 2) = p
    <2>1. \A i \in 5 .. n - 2 : f[i] \in Byte
      BY <1>7, <1>1
    <2>2. /\ SubSeq(f, 5, n - 2) \in Seq(Byte) /\ Len(SubSeq(f, 5, n - 2)) = Len(p)
          /\ \A i \in 1 .. Len(p) : SubSeq(f, 5, n - 2)[i] = f[i + 4]
      <3>1. /\ SubSeq(f, 5, n - 2) \in Seq(Byte)
            /\ Len(SubSeq(f, 5, n - 2)) = IF 5 <= n - 2 THEN n - 2 - 5 + 1 ELSE 0
            /\ \A i \in 1 .. n - 2 - 5 + 1 : SubSeq(f, 5, n - 2)[i] = f[5 + i - 1]
        BY <2>1, <1>1, SubSeqProperties
      <3> QED
        BY <3>1, <1>1
    <2>3. \A i \in 1 .. Len(p) : SubSeq(f, 5, n - 2)[i] = p[i]
      BY <1>1, <1>2, <1>8, <2>2
    <2> DEFINE t == SubSeq(f, 5, n - 2)
    <2>4. t \in Seq(Byte) /\ Len(t) = Len(p) /\ \A i \in 1 .. Len(t) : t[i] = p[i]
      BY <2>2, <2>3
    <2> HIDE DEF t
    <2>5. t = p
      BY <2>4, <1>1, SeqEqual
    <2> QED
      BY <2>5 DEF t
  <1> QED
    BY <1>3, <1>5, <1>7, <1>8, <1>9, <1>10 DEF n, q, c

LEMMA ParseOf ==
  ASSUME NEW f, NEW n \in Nat, f[1] = STX, Len(f) = n, Word(f, 1) = n
  PROVE  ParseResponse(f)
           = IF Together(f[n - 1], f[n]) # Crc16(SubSeq(f, 1, n - 2)) THEN Refused
             ELSE SubSeq(f, 5, n - 2)
  <1>1. ~ (f[1] # STX \/ Len(f) < Word(f, 1))
    OBVIOUS
  <1>2. Slice(f, 0, n - 2) = SubSeq(f, 1, n - 2) /\ Slice(f, 4, n - 2) = SubSeq(f, 5, n - 2)
    BY DEF Slice
  <1> QED
    BY <1>1, <1>2 DEF ParseResponse, Together

LEMMA FrameStart ==
  ASSUME NEW p \in Payloads
  PROVE  /\ Frame(p)[1] = STX /\ Word(Frame(p), 1) = FrameLength(p)
         /\ Len(Frame(p)) = FrameLength(p) /\ FrameLength(p) \in Nat /\ FrameLength(p) >= 6
  <1>1. FrameLength(p) \in Nat /\ FrameLength(p) >= 6
    BY DEF FrameLength, Payloads
  <1>2. 1 \in 1 .. FrameLength(p) - 2 /\ 2 \in 1 .. FrameLength(p) - 2 /\ 3 \in 1 .. FrameLength(p) - 2
    BY <1>1
  <1>3. Frame(p)[1] = Packet(p)[1] /\ Frame(p)[2] = Packet(p)[2] /\ Frame(p)[3] = Packet(p)[3]
    BY <1>2, FrameShape
  <1>4. Frame(p)[2] * 256 + Frame(p)[3] = FrameLength(p)
    BY <1>3, PacketShape
  <1> QED
    BY <1>1, <1>3, <1>4, PacketShape, FrameShape DEF Word

LEMMA FrameCrc ==
  ASSUME NEW p \in Payloads
  PROVE  Crc16(SubSeq(Frame(p), 1, FrameLength(p) - 2))
           = Together(Frame(p)[FrameLength(p) - 1], Frame(p)[FrameLength(p)])
  <1>1. SubSeq(Frame(p), 1, FrameLength(p) - 2) = Packet(p)
    BY FrameShape
  <1>2. Crc16(Packet(p)) = Together(Frame(p)[FrameLength(p) - 1], Frame(p)[FrameLength(p)])
    BY FrameShape
  <1> QED
    BY <1>1, <1>2, Zenon

\* What a frame is made of is what it is parsed to: both sides compute the same
\* CRC and agree on the order of its bytes (create_request, parse_response).
THEOREM FrameIsParsed ==
  ASSUME NEW payload \in Payloads
  PROVE  ParseResponse(Frame(payload)) = payload
  <1> DEFINE f == Frame(payload)
             n == FrameLength(payload)
  <1>1. /\ f[1] = STX /\ Word(f, 1) = n /\ Len(f) = n /\ n \in Nat
    BY FrameStart
  <1>2. /\ Together(f[n - 1], f[n]) = Crc16(SubSeq(f, 1, n - 2))
        /\ SubSeq(f, 5, n - 2) = payload
    BY FrameShape, FrameCrc
  <1> HIDE DEF f, n
  <1>3. ParseResponse(f) = payload
    BY <1>1, <1>2, ParseOf, Zenon
  <1> QED
    BY <1>3 DEF f

\* A frame of which one byte has changed on its way is refused, whatever the
\* byte is now, unless it is one of the two bytes of the length.
THEOREM NoiseIsRefused ==
  ASSUME NEW payload \in Payloads,
         NEW i \in 1 .. FrameLength(payload), i \notin {2, 3},
         NEW byte \in Byte, byte # Frame(payload)[i]
  PROVE  ParseResponse([Frame(payload) EXCEPT ![i] = byte]) = Refused
  <1> DEFINE f == Frame(payload)
             n == FrameLength(payload)
             g == [f EXCEPT ![i] = byte]
  <1>1. /\ f[1] = STX /\ Word(f, 1) = n /\ Len(f) = n /\ n \in Nat /\ n >= 6
    BY FrameStart
  <1>2. f \in Seq(Byte) /\ Together(f[n - 1], f[n]) = Crc16(SubSeq(f, 1, n - 2))
    BY FrameShape, FrameCrc
  <1> HIDE DEF f
  <1>3. /\ g \in Seq(Byte) /\ Len(g) = n
        /\ \A j \in 1 .. n : g[j] = IF j = i THEN byte ELSE f[j]
    <2>1. i \in 1 .. Len(f)
      BY <1>1
    <2> HIDE DEF n
    <2>2. /\ g \in Seq(Byte) /\ Len(g) = Len(f)
          /\ \A j \in 1 .. Len(f) : g[j] = IF j = i THEN byte ELSE f[j]
      BY <2>1, <1>2, ExceptSeq
    <2> QED
      BY <2>2, <1>1
  <1>4. i \in 1 .. n /\ byte # f[i]
    BY DEF f
  <1> HIDE DEF n, g
  <1>5. Word(g, 1) = n
    <2>1. 2 \in 1 .. n /\ 3 \in 1 .. n /\ i # 2 /\ i # 3
      BY <1>1
    <2>2. g[2] = f[2] /\ g[3] = f[3]
      BY <2>1, <1>3
    <2> QED
      BY <2>2, <1>1 DEF Word
  <1>6. CASE i = 1
    <2>1. g[1] # STX
      BY <1>1, <1>3, <1>4, <1>6
    <2> QED
      BY <2>1 DEF ParseResponse, g, f
  <1>7. CASE i # 1
    <2>1. g[1] = STX
      BY <1>1, <1>3, <1>7
    <2>2. ParseResponse(g)
            = IF Together(g[n - 1], g[n]) # Crc16(SubSeq(g, 1, n - 2)) THEN Refused
              ELSE SubSeq(g, 5, n - 2)
      BY <2>1, <1>1, <1>3, <1>5, ParseOf
    <2>3. /\ SubSeq(f, 1, n - 2) \in Seq(Byte) /\ SubSeq(g, 1, n - 2) \in Seq(Byte)
          /\ Len(SubSeq(f, 1, n - 2)) = n - 2 /\ Len(SubSeq(g, 1, n - 2)) = n - 2
          /\ \A j \in 1 .. n - 2 : SubSeq(f, 1, n - 2)[j] = f[j]
          /\ \A j \in 1 .. n - 2 : SubSeq(g, 1, n - 2)[j] = g[j]
      <3>1. /\ \A j \in 1 .. n - 2 : f[j] \in Byte /\ g[j] \in Byte
            /\ 1 <= n - 2 /\ n - 2 \in Int /\ n - 2 - 1 + 1 = n - 2
            /\ \A j \in 1 .. n - 2 : 1 + j - 1 = j
        BY <1>1, <1>2, <1>3
      <3>2. /\ SubSeq(f, 1, n - 2) \in Seq(Byte) /\ Len(SubSeq(f, 1, n - 2)) = n - 2
            /\ \A j \in 1 .. n - 2 : SubSeq(f, 1, n - 2)[j] = f[j]
        BY <3>1, SubSeqProperties
      <3>3. /\ SubSeq(g, 1, n - 2) \in Seq(Byte) /\ Len(SubSeq(g, 1, n - 2)) = n - 2
            /\ \A j \in 1 .. n - 2 : SubSeq(g, 1, n - 2)[j] = g[j]
        BY <3>1, SubSeqProperties
      <3> QED
        BY <3>2, <3>3
    <2>4. /\ n - 1 \in 1 .. n /\ n \in 1 .. n /\ \A j \in 1 .. n - 2 : j \in 1 .. n
          /\ \A j \in 1 .. n : f[j] \in Byte /\ g[j] \in Byte
      BY <1>1, <1>2, <1>3
    <2>5. CASE i <= n - 2
      <3>1. i \in 1 .. n - 2 /\ i # n - 1 /\ i # n
        BY <2>5, <1>1, <1>4
      <3>2. g[n - 1] = f[n - 1] /\ g[n] = f[n]
        BY <3>1, <2>4, <1>3
      <3> DEFINE s == SubSeq(f, 1, n - 2)
                 t == SubSeq(g, 1, n - 2)
      <3>3. /\ s \in Seq(Byte) /\ t \in Seq(Byte) /\ Len(s) = n - 2 /\ Len(t) = n - 2
            /\ s[i] # t[i] /\ \A j \in 1 .. n - 2 : j # i => s[j] = t[j]
        BY <3>1, <2>3, <2>4, <1>3, <1>4
      <3> HIDE DEF s, t
      <3>4. Crc16(s) # Crc16(t)
        <4>1. /\ Len(s) = Len(t) /\ i \in 1 .. Len(s)
              /\ \A j \in 1 .. Len(s) : j # i => s[j] = t[j]
          BY <3>1, <3>3
        <4> QED
          BY <3>3, <4>1, CrcTells, Zenon
      <3>5. Together(g[n - 1], g[n]) # Crc16(SubSeq(g, 1, n - 2))
        BY <3>2, <3>4, <1>2 DEF s, t
      <3> QED
        BY <3>5, <2>2 DEF g, f
    <2>6. CASE ~ (i <= n - 2)
      <3>1. i = n - 1 \/ i = n
        BY <2>6, <1>1, <1>4
      <3> DEFINE s == SubSeq(f, 1, n - 2)
                 t == SubSeq(g, 1, n - 2)
      <3>2. s = t
        <4>1. /\ s \in Seq(Byte) /\ t \in Seq(Byte) /\ Len(s) = n - 2 /\ Len(t) = n - 2
          BY <2>3
        <4>2. \A j \in 1 .. n - 2 : j # i
          BY <2>6
        <4>3. \A j \in 1 .. n - 2 : s[j] = t[j]
          BY <4>2, <2>3, <2>4, <1>3
        <4> HIDE DEF s, t
        <4> QED
          BY <4>1, <4>3, SeqEqual
      <3>3. g[n - 1] # f[n - 1] \/ g[n] # f[n]
        BY <3>1, <2>4, <1>3, <1>4
      <3>4. Together(g[n - 1], g[n]) # Together(f[n - 1], f[n])
        BY <3>3, <2>4, TogetherInjective
      <3>5. Crc16(s) = Together(f[n - 1], f[n])
        BY <1>2
      <3> HIDE DEF s, t
      <3>6. Together(g[n - 1], g[n]) # Crc16(t)
        BY <3>2, <3>4, <3>5
      <3> QED
        BY <3>6, <2>2 DEF g, f, t
    <2> QED
      BY <2>5, <2>6
  <1> QED
    BY <1>6, <1>7

-----------------------------------------------------------------------------
(***************************************************************************)
(* Sequences that are put together, and where their parts are then.        *)
(***************************************************************************)
LEMMA Joined ==
  ASSUME NEW S, NEW s \in Seq(S), NEW t \in Seq(S)
  PROVE  /\ s \o t \in Seq(S) /\ Len(s \o t) = Len(s) + Len(t)
         /\ Len(s) \in Nat /\ Len(t) \in Nat
         /\ \A i \in 1 .. Len(s) : (s \o t)[i] = s[i]
         /\ \A i \in 1 .. Len(t) : (s \o t)[Len(s) + i] = t[i]
  <1>1. /\ s \o t \in Seq(S) /\ Len(s \o t) = Len(s) + Len(t)
        /\ \A i \in 1 .. Len(s) + Len(t) :
             (s \o t)[i] = IF i <= Len(s) THEN s[i] ELSE t[i - Len(s)]
    BY ConcatProperties
  <1>2. Len(s) \in Nat /\ Len(t) \in Nat
    OBVIOUS
  <1>3. ASSUME NEW i \in 1 .. Len(s) PROVE (s \o t)[i] = s[i]
    <2>1. i \in 1 .. Len(s) + Len(t) /\ i <= Len(s)
      BY <1>2
    <2> QED
      BY <2>1, <1>1
  <1>4. ASSUME NEW i \in 1 .. Len(t) PROVE (s \o t)[Len(s) + i] = t[i]
    <2>1. /\ Len(s) + i \in 1 .. Len(s) + Len(t) /\ ~ (Len(s) + i <= Len(s))
          /\ Len(s) + i - Len(s) = i
      BY <1>2
    <2>2. (s \o t)[Len(s) + i] = t[Len(s) + i - Len(s)]
      BY <2>1, <1>1
    <2> QED
      BY <2>1, <2>2
  <1> QED
    BY <1>1, <1>2, <1>3, <1>4

\* Where the parts of a sequence end that is put together from seqs.
Placed(seqs, s, at) ==
  /\ at \in [0 .. Len(seqs) -> Nat] /\ at[0] = 0
  /\ \A i \in 1 .. Len(seqs) : at[i] = at[i - 1] + Len(seqs[i])
  /\ s \in Seq(Byte) /\ Len(s) = at[Len(seqs)]
  /\ \A i \in 1 .. Len(seqs) : \A j \in 1 .. Len(seqs[i]) : s[at[i - 1] + j] = seqs[i][j]

\* The sequences that FlattenSeq goes through.
FlatRun(seqs, r) ==
  /\ r \in [0 .. Len(seqs) -> Seq(Byte)] /\ r[0] = <<>>
  /\ \A i \in 1 .. Len(seqs) : r[i] = r[i - 1] \o seqs[i]

LEMMA FlattenIsRun ==
  ASSUME NEW seqs \in Seq(Seq(Byte))
  PROVE  \E r : FlatRun(seqs, r) /\ FlattenSeq(seqs) = r[Len(seqs)]
  <1> DEFINE n == Len(seqs)
             G == [i \in 1 .. n |-> [v \in Seq(Byte) |-> v \o seqs[i]]]
             F(f) == [i \in 1 .. n |-> IF i = 1 THEN seqs[i] ELSE f[i - 1] \o seqs[i]]
             flat == CHOOSE f : f = F(f)
  <1>1. n \in Nat /\ \A i \in 1 .. n : seqs[i] \in Seq(Byte)
    OBVIOUS
  <1>2. IsStep(G, n, Seq(Byte))
    BY <1>1, ConcatProperties DEF IsStep
  <1>3. <<>> \in Seq(Byte)
    OBVIOUS
  <1>4. PICK r : /\ r \in [0 .. n -> Seq(Byte)] /\ r[0] = <<>>
                 /\ \A i \in 1 .. n : r[i] = G[i][r[i - 1]]
    <2> HIDE DEF G, n
    <2>1. \E r : IsRun(r, <<>>, n, G, Seq(Byte))
      BY <1>1, <1>2, <1>3, Recursion
    <2> QED
      BY <2>1 DEF IsRun
  <1>5. ASSUME NEW i \in 1 .. n PROVE r[i] = r[i - 1] \o seqs[i]
    <2>1. i - 1 \in 0 .. n
      BY <1>1
    <2>2. r[i - 1] \in Seq(Byte)
      BY <2>1, <1>4
    <2>3. r[i] = G[i][r[i - 1]]
      BY <1>4
    <2> QED
      BY <2>2, <2>3
  <1>6. FlatRun(seqs, r)
    BY <1>4, <1>5 DEF FlatRun
  <1>7. CASE n = 0
    <2>1. FlattenSeq(seqs) = seqs /\ seqs = <<>>
      BY <1>7 DEF FlattenSeq
    <2> QED
      BY <2>1, <1>4, <1>6, <1>7
  <1>8. CASE n # 0
    <2> DEFINE g == [i \in 1 .. n |-> r[i]]
    <2>1. g = F(g)
      <3>1. ASSUME NEW i \in 1 .. n PROVE g[i] = F(g)[i]
        <4>1. CASE i = 1
          <5>1. r[1] = <<>> \o seqs[1] /\ seqs[1] \in Seq(Byte)
            <6>1. 1 \in 1 .. n /\ 1 - 1 = 0
              BY <4>1
            <6>2. seqs[1] \in Seq(Byte) /\ r[1] = r[1 - 1] \o seqs[1]
              BY <6>1, <1>1, <1>5
            <6> QED
              BY <6>1, <6>2, <1>4
          <5>2. r[1] = seqs[1]
            BY <5>1, ConcatEmptySeq
          <5> QED
            BY <4>1, <5>2
        <4>2. CASE i # 1
          <5>1. i - 1 \in 1 .. n
            BY <4>2, <1>1
          <5> QED
            BY <4>2, <5>1, <1>5
        <4> QED
          BY <4>1, <4>2
      <3> QED
        BY <3>1
    <2>2. flat = F(flat)
      BY <2>1
    <2>3. FlattenSeq(seqs) = flat[n]
      BY <1>8 DEF FlattenSeq
    <2> HIDE DEF flat
    <2>4. \A i \in 1 .. n : flat[i] = IF i = 1 THEN seqs[i] ELSE flat[i - 1] \o seqs[i]
      BY <2>2
    <2>5. \A i \in 1 .. n : g[i] = IF i = 1 THEN seqs[i] ELSE g[i - 1] \o seqs[i]
      BY <2>1
    <2> DEFINE T == {i \in 0 .. n : i # 0 => flat[i] = g[i]}
    <2>6. 0 \in T
      BY <1>1
    <2>7. \A i \in 1 .. n : i - 1 \in T => i \in T
      <3> HIDE DEF g
      <3> SUFFICES ASSUME NEW i \in 1 .. n, i - 1 \in T PROVE flat[i] = g[i]
        BY <1>1
      <3>1. CASE i = 1
        BY <3>1, <2>4, <2>5
      <3>2. CASE i # 1
        <4>1. flat[i - 1] = g[i - 1]
          BY <3>2, <1>1
        <4> QED
          BY <3>2, <4>1, <2>4, <2>5
      <3> QED
        BY <3>1, <3>2
    <2>8. n \in T
      <3>1. n \in 0 .. n
        BY <1>1
      <3> HIDE DEF T, n
      <3> QED
        BY <3>1, <1>1, <2>6, <2>7, UpTo
    <2>9. n \in 1 .. n
      BY <1>1, <1>8
    <2>10. flat[n] = r[n]
      BY <2>8, <2>9
    <2> QED
      BY <2>3, <2>10, <1>6
  <1> QED
    BY <1>7, <1>8

LEMMA FlattenPlaces ==
  ASSUME NEW seqs \in Seq(Seq(Byte))
  PROVE  \E at : Placed(seqs, FlattenSeq(seqs), at)
  <1> DEFINE n == Len(seqs)
  <1>1. n \in Nat /\ \A i \in 1 .. n : seqs[i] \in Seq(Byte)
    OBVIOUS
  <1>2. PICK r : FlatRun(seqs, r) /\ FlattenSeq(seqs) = r[n]
    BY FlattenIsRun
  <1>3. /\ \A i \in 0 .. n : r[i] \in Seq(Byte)
        /\ r[0] = <<>>
        /\ \A i \in 1 .. n : r[i] = r[i - 1] \o seqs[i]
    BY <1>2 DEF FlatRun
  <1> DEFINE at == [i \in 0 .. n |-> Len(r[i])]
  <1>4. at \in [0 .. n -> Nat] /\ \A i \in 0 .. n : at[i] = Len(r[i])
    BY <1>3
  <1>5. at[0] = 0
    BY <1>1, <1>3, <1>4
  <1> HIDE DEF at
  <1>6. ASSUME NEW i \in 1 .. n
        PROVE  /\ at[i] = at[i - 1] + Len(seqs[i])
               /\ \A j \in 1 .. at[i - 1] : r[i][j] = r[i - 1][j]
               /\ \A j \in 1 .. Len(seqs[i]) : r[i][at[i - 1] + j] = seqs[i][j]
    <2>1. i \in 0 .. n /\ i - 1 \in 0 .. n
      BY <1>1
    <2>2. /\ r[i - 1] \in Seq(Byte) /\ seqs[i] \in Seq(Byte) /\ r[i] = r[i - 1] \o seqs[i]
          /\ at[i] = Len(r[i]) /\ at[i - 1] = Len(r[i - 1])
      BY <2>1, <1>1, <1>3, <1>4
    <2> DEFINE u == r[i - 1]
               v == seqs[i]
    <2>3. u \in Seq(Byte) /\ v \in Seq(Byte) /\ r[i] = u \o v
      BY <2>2
    <2> HIDE DEF u, v
    <2>4. /\ Len(u \o v) = Len(u) + Len(v)
          /\ \A j \in 1 .. Len(u) : (u \o v)[j] = u[j]
          /\ \A j \in 1 .. Len(v) : (u \o v)[Len(u) + j] = v[j]
      BY <2>3, Joined
    <2> QED
      BY <2>2, <2>3, <2>4 DEF u, v
  <1> DEFINE Prefix(k, m) == at[k] <= at[m] /\ \A j \in 1 .. at[k] : r[m][j] = r[k][j]
  <1>7. ASSUME NEW k \in 0 .. n
        PROVE  \A m \in 0 .. n : k <= m => Prefix(k, m)
    <2> DEFINE T == {m \in 0 .. n : k <= m => Prefix(k, m)}
    <2>1. 0 \in T
      <3>1. 0 \in 0 .. n
        BY <1>1
      <3>2. k <= 0 => k = 0
        BY <1>1
      <3>3. at[k] \in Nat
        BY <1>4
      <3>4. Prefix(k, k)
        BY <3>3
      <3> HIDE DEF Prefix
      <3> QED
        BY <3>1, <3>2, <3>4
    <2>2. \A m \in 1 .. n : m - 1 \in T => m \in T
      <3> SUFFICES ASSUME NEW m \in 1 .. n, m - 1 \in T, k <= m PROVE Prefix(k, m)
        BY <1>1
      <3>1. CASE k = m
        <4>1. at[k] \in Nat
          BY <1>4
        <4> QED
          BY <4>1, <3>1
      <3>2. CASE k # m
        <4>1. k <= m - 1 /\ m - 1 \in 0 .. n /\ m \in 0 .. n
          BY <3>2, <1>1
        <4>2. Prefix(k, m - 1)
          BY <4>1
        <4>3. /\ at[k] \in Nat /\ at[m - 1] \in Nat /\ Len(seqs[m]) \in Nat
              /\ at[m] = at[m - 1] + Len(seqs[m])
              /\ \A j \in 1 .. at[m - 1] : r[m][j] = r[m - 1][j]
          BY <4>1, <1>1, <1>4, <1>6
        <4>4. at[k] <= at[m]
          BY <4>2, <4>3
        <4>5. ASSUME NEW j \in 1 .. at[k] PROVE r[m][j] = r[k][j]
          <5>1. j \in 1 .. at[m - 1]
            BY <4>2, <4>3
          <5> QED
            BY <5>1, <4>2, <4>3
        <4> QED
          BY <4>4, <4>5
      <3> QED
        BY <3>1, <3>2
    <2>3. \A m \in 0 .. n : m \in T
      <3> HIDE DEF T, n
      <3> QED
        BY <1>1, <2>1, <2>2, UpTo
    <2> QED
      BY <2>3
  <1>8. ASSUME NEW i \in 1 .. n, NEW j \in 1 .. Len(seqs[i])
        PROVE  r[n][at[i - 1] + j] = seqs[i][j]
    <2>1. i \in 0 .. n /\ n \in 0 .. n /\ i <= n /\ i - 1 \in 0 .. n
      BY <1>1
    <2>2. Prefix(i, n)
      BY <2>1, <1>7
    <2>3. at[i - 1] \in Nat /\ Len(seqs[i]) \in Nat /\ at[i] = at[i - 1] + Len(seqs[i])
      <3>1. at[i - 1] \in Nat
        BY <2>1, <1>4
      <3>2. Len(seqs[i]) \in Nat
        BY <1>1
      <3>3. at[i] = at[i - 1] + Len(seqs[i])
        BY <1>6
      <3> QED
        BY <3>1, <3>2, <3>3
    <2>4. at[i - 1] + j \in 1 .. at[i]
      BY <2>3
    <2> QED
      BY <2>2, <2>4, <1>6
  <1>9. r[n] \in Seq(Byte) /\ Len(r[n]) = at[n]
    <2>1. n \in 0 .. n
      BY <1>1
    <2> QED
      BY <2>1, <1>3, <1>4
  <1>10. Placed(seqs, r[n], at)
    BY <1>4, <1>5, <1>6, <1>8, <1>9 DEF Placed
  <1> QED
    BY <1>2, <1>10

LEMMA PlacedWithin ==
  ASSUME NEW seqs, NEW s, NEW at, Placed(seqs, s, at), Len(seqs) \in Nat,
         NEW m \in Nat, \A i \in 1 .. Len(seqs) : Len(seqs[i]) \in 0 .. m
  PROVE  /\ Len(s) <= Len(seqs) * m
         /\ \A i \in 0 .. Len(seqs) : at[i] <= Len(s)
  <1> DEFINE n == Len(seqs)
  <1>1. /\ n \in Nat /\ \A i \in 0 .. n : at[i] \in Nat
        /\ at[0] = 0 /\ Len(s) = at[n]
        /\ \A i \in 1 .. n : at[i] = at[i - 1] + Len(seqs[i])
    BY DEF Placed
  <1> DEFINE T == {i \in 0 .. n : at[i] <= i * m}
             U == {i \in 0 .. n : at[n - i] <= at[n]}
  <1>2. 0 \in T /\ 0 \in U
    BY <1>1
  <1>3. \A i \in 1 .. n : i - 1 \in T => i \in T
    <2> SUFFICES ASSUME NEW i \in 1 .. n, i - 1 \in T PROVE at[i] <= i * m
      BY <1>1
    <2>1. (i - 1) * m + m = i * m
      OBVIOUS
    <2>2. i - 1 \in 0 .. n /\ i \in 0 .. n
      BY <1>1
    <2>3. at[i] = at[i - 1] + Len(seqs[i]) /\ Len(seqs[i]) \in 0 .. m /\ at[i - 1] \in Nat
      BY <2>2, <1>1
    <2>4. at[i - 1] <= (i - 1) * m /\ (i - 1) * m \in Int
      BY <2>2
    <2> QED
      BY <2>1, <2>3, <2>4
  <1>4. \A i \in 1 .. n : i - 1 \in U => i \in U
    <2> SUFFICES ASSUME NEW i \in 1 .. n, i - 1 \in U PROVE at[n - i] <= at[n]
      BY <1>1
    <2>1. n - i \in 0 .. n /\ n - i + 1 \in 1 .. n /\ n - (i - 1) = n - i + 1 /\ n - i + 1 - 1 = n - i
      BY <1>1
    <2>2. at[n - i + 1] = at[n - i] + Len(seqs[n - i + 1]) /\ Len(seqs[n - i + 1]) \in 0 .. m
      BY <2>1, <1>1
    <2>3. at[n - i] \in Nat /\ at[n] \in Nat /\ at[n - i + 1] \in Nat /\ at[n - i + 1] <= at[n]
      BY <2>1, <1>1
    <2> QED
      BY <2>2, <2>3
  <1> HIDE DEF T, U, n
  <1>5. \A i \in 0 .. n : i \in T /\ i \in U
    BY <1>1, <1>2, <1>3, <1>4, UpTo
  <1>6. n \in 0 .. n /\ \A i \in 0 .. n : n - i \in 0 .. n /\ n - (n - i) = i
    BY <1>1
  <1>7. at[n] <= n * m
    BY <1>5, <1>6 DEF T
  <1>8. \A i \in 0 .. n : at[i] <= at[n]
    <2> SUFFICES ASSUME NEW i \in 0 .. n PROVE at[i] <= at[n]
      OBVIOUS
    <2>1. at[n - (n - i)] <= at[n]
      BY <1>5, <1>6 DEF U
    <2> QED
      BY <2>1, <1>6
  <1> QED
    BY <1>1, <1>7, <1>8 DEF n

-----------------------------------------------------------------------------
(***************************************************************************)
(* The bytes of a record, and what the parser makes of them.               *)
(***************************************************************************)
Parts == {"date", "time", "tag"}
TagNumbers == {s \in Seq(Byte) : Len(s) \in 1 .. 255}
TagRecords == [parts : SUBSET Parts, type : Byte, tag : TagNumbers]

LEMMA ZeroBytes ==
  ASSUME NEW n \in Nat
  PROVE  Zeros(n) \in Seq(Byte) /\ Len(Zeros(n)) = n
  BY DEF Zeros, Byte

\* Which parts a record has, and where its transponder begins.
LayoutByte(r) ==
  (IF "date" \in r.parts THEN 1 ELSE 0) + (IF "time" \in r.parts THEN 2 ELSE 0)
  + (IF "tag" \in r.parts THEN 4 ELSE 0)
TagAt(r) ==
  4 + (IF "date" \in r.parts THEN 5 ELSE 0) + (IF "time" \in r.parts THEN 4 ELSE 0)

LEMMA Layout ==
  ASSUME NEW r \in TagRecords
  PROVE  /\ LayoutByte(r) \in Byte /\ TagAt(r) \in 4 .. 13
         /\ LayoutByte(r) % 2 = 1 <=> "date" \in r.parts
         /\ (LayoutByte(r) \div 2) % 2 = 1 <=> "time" \in r.parts
         /\ (LayoutByte(r) \div 4) % 2 = 0 <=> "tag" \notin r.parts
  BY DEF LayoutByte, TagAt, Byte

LEMMA HeaderBytes ==
  ASSUME NEW type \in Byte, NEW n \in Byte
  PROVE  /\ Header(type, n) \in Seq(Byte) /\ IdAt(type) \in 2 .. 4
         /\ Len(Header(type, n)) = IdAt(type)
         /\ Header(type, n)[1] = type /\ Header(type, n)[IdAt(type)] = n
  <1>1. 0 \in Byte /\ 3 \in Byte
    BY DEF Byte
  <1>2. CASE type = 0
    BY <1>1, <1>2 DEF Header, IdAt
  <1>3. CASE type = 3
    BY <1>1, <1>3 DEF Header, IdAt
  <1>4. CASE type # 0 /\ type # 3
    BY <1>1, <1>4 DEF Header, IdAt
  <1> QED
    BY <1>2, <1>3, <1>4

\* The transponder of a record.
TagPart(r) == Header(r.type, Len(r.tag)) \o r.tag \o Zeros(6)

LEMMA TagPartShape ==
  ASSUME NEW r \in TagRecords
  PROVE  /\ TagPart(r) \in Seq(Byte) /\ Len(r.tag) \in 1 .. 255
         /\ IdAt(r.type) \in 2 .. 4
         /\ Len(TagPart(r)) = IdAt(r.type) + Len(r.tag) + 6
         /\ TagPart(r)[1] = r.type
         /\ TagPart(r)[IdAt(r.type)] = Len(r.tag)
         /\ \A k \in 1 .. Len(r.tag) : TagPart(r)[IdAt(r.type) + k] = r.tag[k]
  <1> DEFINE h == Header(r.type, Len(r.tag))
             t == r.tag
             z == Zeros(6)
             m == IdAt(r.type)
  <1>1. t \in Seq(Byte) /\ Len(t) \in 1 .. 255 /\ r.type \in Byte
    BY DEF TagRecords, TagNumbers
  <1>2. Len(t) \in Byte
    BY <1>1 DEF Byte
  <1>3. /\ h \in Seq(Byte) /\ m \in 2 .. 4 /\ Len(h) = m /\ h[1] = r.type /\ h[m] = Len(t)
    BY <1>1, <1>2, HeaderBytes
  <1>4. z \in Seq(Byte) /\ Len(z) = 6
    BY ZeroBytes
  <1>5. TagPart(r) = (h \o t) \o z
    BY DEF TagPart
  <1> HIDE DEF h, t, z, m
  <1>6. /\ h \o t \in Seq(Byte) /\ Len(h \o t) = Len(h) + Len(t)
        /\ \A i \in 1 .. Len(h) : (h \o t)[i] = h[i]
        /\ \A i \in 1 .. Len(t) : (h \o t)[Len(h) + i] = t[i]
    BY <1>1, <1>3, Joined
  <1> DEFINE u == h \o t
  <1>7. /\ u \in Seq(Byte) /\ Len(u) = m + Len(t)
        /\ \A i \in 1 .. m : u[i] = h[i]
        /\ \A i \in 1 .. Len(t) : u[m + i] = t[i]
    BY <1>3, <1>6
  <1> HIDE DEF u
  <1>8. /\ u \o z \in Seq(Byte) /\ Len(u \o z) = Len(u) + Len(z)
        /\ \A i \in 1 .. Len(u) : (u \o z)[i] = u[i]
    <2>1. u \in Seq(Byte) /\ z \in Seq(Byte)
      BY <1>4, <1>7
    <2> QED
      BY <2>1, Joined
  <1>9. /\ 1 \in 1 .. m /\ m \in 1 .. m /\ 1 \in 1 .. Len(u) /\ m \in 1 .. Len(u)
        /\ \A k \in 1 .. Len(t) : m + k \in 1 .. Len(u)
    BY <1>1, <1>3, <1>7
  <1>10. /\ (u \o z)[1] = h[1] /\ (u \o z)[m] = h[m]
         /\ \A k \in 1 .. Len(t) : (u \o z)[m + k] = t[k]
    BY <1>7, <1>8, <1>9
  <1>11. Len(u \o z) = m + Len(t) + 6
    BY <1>4, <1>7, <1>8
  <1>12. TagPart(r) = u \o z
    BY <1>5 DEF u
  <1> QED
    BY <1>1, <1>3, <1>8, <1>10, <1>11, <1>12 DEF t, m

LEMMA RecordShape ==
  ASSUME NEW r \in TagRecords
  PROVE  /\ RecordBytes(r) \in Seq(Byte)
         /\ Len(RecordBytes(r)) \in 4 .. Len(r.tag) + 23
         /\ RecordBytes(r)[4] = LayoutByte(r)
         /\ "tag" \notin r.parts => Len(RecordBytes(r)) = TagAt(r)
         /\ "tag" \in r.parts =>
              /\ Len(RecordBytes(r)) = TagAt(r) + Len(TagPart(r))
              /\ \A i \in 1 .. Len(TagPart(r)) : RecordBytes(r)[TagAt(r) + i] = TagPart(r)[i]
  <1> DEFINE a == <<0, 0, 0, LayoutByte(r)>>
             d == IF "date" \in r.parts THEN Zeros(5) ELSE <<>>
             t == IF "time" \in r.parts THEN Zeros(4) ELSE <<>>
             g == IF "tag" \in r.parts THEN TagPart(r) ELSE <<>>
  <1>1. RecordBytes(r) = ((a \o d) \o t) \o g
    BY DEF RecordBytes, LayoutByte, TagPart
  <1>2. a \in Seq(Byte) /\ Len(a) = 4 /\ a[4] = LayoutByte(r)
    <2>1. LayoutByte(r) \in Byte /\ 0 \in Byte
      BY Layout DEF Byte
    <2> QED
      BY <2>1
  <1>3. <<>> \in Seq(Byte) /\ Len(<<>>) = 0
    OBVIOUS
  <1>4. d \in Seq(Byte) /\ Len(d) = IF "date" \in r.parts THEN 5 ELSE 0
    BY <1>3, ZeroBytes
  <1>5. t \in Seq(Byte) /\ Len(t) = IF "time" \in r.parts THEN 4 ELSE 0
    BY <1>3, ZeroBytes
  <1>6. g \in Seq(Byte) /\ Len(g) = IF "tag" \in r.parts THEN Len(TagPart(r)) ELSE 0
    BY <1>3, TagPartShape
  <1>7. g = IF "tag" \in r.parts THEN TagPart(r) ELSE <<>>
    OBVIOUS
  <1> HIDE DEF a, d, t, g
  <1> DEFINE u == a \o d
             v == u \o t
  <1>8. u \in Seq(Byte) /\ Len(u) = 4 + Len(d) /\ u[4] = LayoutByte(r)
    <2>1. /\ a \o d \in Seq(Byte) /\ Len(a \o d) = Len(a) + Len(d)
          /\ \A i \in 1 .. Len(a) : (a \o d)[i] = a[i]
      <3>1. a \in Seq(Byte) /\ d \in Seq(Byte)
        BY <1>2, <1>4
      <3> QED
        BY <3>1, Joined
    <2> QED
      BY <2>1, <1>2
  <1> HIDE DEF u
  <1>9. v \in Seq(Byte) /\ Len(v) = TagAt(r) /\ v[4] = LayoutByte(r)
    <2>1. /\ u \o t \in Seq(Byte) /\ Len(u \o t) = Len(u) + Len(t)
          /\ \A i \in 1 .. Len(u) : (u \o t)[i] = u[i]
      <3>1. u \in Seq(Byte) /\ t \in Seq(Byte)
        BY <1>5, <1>8
      <3> QED
        BY <3>1, Joined
    <2>2. Len(u) + Len(t) = TagAt(r) /\ 4 \in 1 .. Len(u)
      BY <1>4, <1>5, <1>8 DEF TagAt
    <2> QED
      BY <2>1, <2>2, <1>8
  <1> HIDE DEF v
  <1>10. /\ v \o g \in Seq(Byte) /\ Len(v \o g) = TagAt(r) + Len(g)
         /\ (v \o g)[4] = LayoutByte(r)
         /\ \A i \in 1 .. Len(g) : (v \o g)[TagAt(r) + i] = g[i]
    <2>1. /\ v \o g \in Seq(Byte) /\ Len(v \o g) = Len(v) + Len(g)
          /\ \A i \in 1 .. Len(v) : (v \o g)[i] = v[i]
          /\ \A i \in 1 .. Len(g) : (v \o g)[Len(v) + i] = g[i]
      <3>1. v \in Seq(Byte) /\ g \in Seq(Byte)
        BY <1>6, <1>9
      <3> QED
        BY <3>1, Joined
    <2>2. 4 \in 1 .. Len(v)
      BY <1>9, Layout
    <2> QED
      BY <2>1, <2>2, <1>9
  <1>11. RecordBytes(r) = v \o g
    BY <1>1 DEF u, v
  <1>12. /\ TagAt(r) \in 4 .. 13 /\ Len(r.tag) \in 1 .. 255 /\ IdAt(r.type) \in 2 .. 4
         /\ Len(TagPart(r)) = IdAt(r.type) + Len(r.tag) + 6
    BY Layout, TagPartShape
  <1>13. Len(v \o g) \in 4 .. Len(r.tag) + 23
    <2>1. CASE "tag" \in r.parts
      <3>1. Len(v \o g) = TagAt(r) + (IdAt(r.type) + Len(r.tag) + 6)
        BY <2>1, <1>6, <1>10, <1>12
      <3>2. \A x \in 4 .. 13, y \in 2 .. 4, z \in 1 .. 255 : x + (y + z + 6) \in 4 .. z + 23
        OBVIOUS
      <3>3. TagAt(r) + (IdAt(r.type) + Len(r.tag) + 6) \in 4 .. Len(r.tag) + 23
        BY <3>2, <1>12, Zenon
      <3> QED
        BY <3>1, <3>3, Zenon
    <2>2. CASE "tag" \notin r.parts
      <3>1. Len(v \o g) = TagAt(r) + 0
        BY <2>2, <1>6, <1>10
      <3> QED
        BY <3>1, <1>12
    <2> QED
      BY <2>1, <2>2
  <1>14. "tag" \notin r.parts => Len(v \o g) = TagAt(r)
    BY <1>6, <1>10, <1>12
  <1>15. "tag" \in r.parts => g = TagPart(r)
    BY <1>7
  <1> QED
    BY <1>10, <1>11, <1>13, <1>14, <1>15

\* The bytes of a record are in the data behind a position.
Holds(p, bytes) ==
  /\ data \in Seq(Byte) /\ p \in Nat /\ p + Len(bytes) <= Len(data)
  /\ \A i \in 1 .. Len(bytes) : data[p + i] = bytes[i]

LEMMA SliceOfData ==
  ASSUME NEW p \in Nat, NEW s \in Seq(Byte), data \in Seq(Byte),
         p + Len(s) <= Len(data), \A i \in 1 .. Len(s) : data[p + i] = s[i]
  PROVE  Slice(data, p, p + Len(s)) = s
  <1> DEFINE n == Len(s)
             t == SubSeq(data, p + 1, p + n)
  <1>1. n \in Nat /\ Len(data) \in Nat
    OBVIOUS
  <1>2. \A i \in p + 1 .. p + n : data[i] \in Byte
    <2>1. \A i \in p + 1 .. p + n : i \in 1 .. Len(data)
      BY <1>1
    <2> QED
      BY <2>1
  <1>3. /\ t \in Seq(Byte) /\ Len(t) = IF p + 1 <= p + n THEN p + n - (p + 1) + 1 ELSE 0
        /\ \A i \in 1 .. p + n - (p + 1) + 1 : t[i] = data[p + 1 + i - 1]
    <2> DEFINE a == p + 1
               b == p + n
    <2>1. a \in Int /\ b \in Int /\ \A i \in a .. b : data[i] \in Byte
      BY <1>1, <1>2
    <2> HIDE DEF a, b
    <2>2. /\ SubSeq(data, a, b) \in Seq(Byte)
          /\ Len(SubSeq(data, a, b)) = IF a <= b THEN b - a + 1 ELSE 0
          /\ \A i \in 1 .. b - a + 1 : SubSeq(data, a, b)[i] = data[a + i - 1]
      BY <2>1, SubSeqProperties
    <2> QED
      BY <2>2 DEF a, b
  <1> HIDE DEF t
  <1>4. Len(t) = n
    BY <1>1, <1>3
  <1>5. \A i \in 1 .. n : i \in 1 .. p + n - (p + 1) + 1 /\ p + 1 + i - 1 = p + i
    BY <1>1
  <1>6. \A i \in 1 .. Len(t) : t[i] = s[i]
    BY <1>3, <1>4, <1>5
  <1>7. t = s
    BY <1>3, <1>4, <1>6, SeqEqual
  <1> QED
    BY <1>7 DEF Slice, t

LEMMA RecordIsRead ==
  ASSUME NEW r \in TagRecords, NEW p \in Nat, Holds(p, RecordBytes(r))
  PROVE  RecordAt(p) = IF Unknown(r) THEN Refused
                       ELSE <<p + Len(RecordBytes(r)),
                              IF "tag" \in r.parts THEN Reverse(r.tag) ELSE <<>> >>
  <1> DEFINE n == Len(RecordBytes(r))
             layout == data[p + 4]
             q == p + 4 + (IF layout % 2 = 1 THEN 5 ELSE 0)
                      + (IF (layout \div 2) % 2 = 1 THEN 4 ELSE 0)
             type == data[q + 1]
             first == q + IdAt(type)
             last == first + data[first]
             at == p + TagAt(r)
  <1>1. RecordAt(p) =
          IF ~Has(p + 4) THEN Refused
          ELSE IF (layout \div 4) % 2 = 0
          THEN IF Has(q) THEN <<q, <<>> >> ELSE Refused
          ELSE IF ~Has(q + 1) \/ type \notin {0, 3, 9} \/ ~Has(first) \/ ~Has(last + 6) THEN Refused
          ELSE <<last + 6, Reverse(Slice(data, first, last))>>
    BY DEF RecordAt
  <1>2. /\ n \in Nat /\ 4 <= n /\ Len(data) \in Nat /\ p + n <= Len(data) /\ data \in Seq(Byte)
        /\ \A i \in 1 .. n : data[p + i] = RecordBytes(r)[i]
        /\ RecordBytes(r)[4] = LayoutByte(r)
    BY RecordShape DEF Holds
  <1>3. layout = LayoutByte(r) /\ Has(p + 4)
    <2>1. 4 \in 1 .. n /\ p + 4 <= Len(data)
      BY <1>2
    <2> QED
      BY <2>1, <1>2 DEF Has
  <1> HIDE DEF layout, n
  <1>4. q = at /\ at \in Nat
    BY <1>3, Layout DEF TagAt
  <1>5. (layout \div 4) % 2 = 0 <=> "tag" \notin r.parts
    BY <1>3, Layout
  <1> HIDE DEF q, at
  <1>6. CASE "tag" \notin r.parts
    <2>1. n = TagAt(r)
      BY <1>6, RecordShape DEF n
    <2>2. at = p + n
      BY <2>1 DEF at
    <2>3. Has(q)
      BY <2>2, <1>2, <1>4 DEF Has
    <2>4. RecordAt(p) = <<q, <<>> >>
      BY <2>3, <1>1, <1>3, <1>5, <1>6
    <2>5. ~ Unknown(r)
      BY <1>6 DEF Unknown
    <2> QED
      BY <2>2, <2>4, <2>5, <1>4, <1>6 DEF n
  <1>7. CASE "tag" \in r.parts
    <2> DEFINE m == IdAt(r.type)
               len == Len(r.tag)
    <2>1. /\ n = TagAt(r) + (m + len + 6) /\ m \in 2 .. 4 /\ len \in 1 .. 255 /\ TagAt(r) \in Nat
          /\ Len(TagPart(r)) = m + len + 6
      <3>1. Len(TagPart(r)) = m + len + 6 /\ m \in 2 .. 4 /\ len \in 1 .. 255
        BY TagPartShape
      <3>2. n = TagAt(r) + Len(TagPart(r))
        BY <1>7, RecordShape DEF n
      <3>3. TagAt(r) \in Nat
        BY Layout
      <3> QED
        BY <3>1, <3>2, <3>3
    <2>2. /\ TagPart(r)[1] = r.type /\ TagPart(r)[m] = len
          /\ \A k \in 1 .. len : TagPart(r)[m + k] = r.tag[k]
      BY TagPartShape
    <2>3. \A i \in 1 .. Len(TagPart(r)) : RecordBytes(r)[TagAt(r) + i] = TagPart(r)[i]
      BY <1>7, RecordShape
    <2> HIDE DEF m, len
    <2>4. \A i \in 1 .. m + len + 6 : data[at + i] = TagPart(r)[i]
      <3> SUFFICES ASSUME NEW i \in 1 .. m + len + 6 PROVE data[at + i] = TagPart(r)[i]
        OBVIOUS
      <3>1. TagAt(r) + i \in 1 .. n /\ p + (TagAt(r) + i) = at + i
        BY <2>1 DEF at
      <3>2. data[p + (TagAt(r) + i)] = RecordBytes(r)[TagAt(r) + i]
        BY <3>1, <1>2
      <3>3. RecordBytes(r)[TagAt(r) + i] = TagPart(r)[i]
        BY <2>1, <2>3
      <3> QED
        BY <3>1, <3>2, <3>3
    <2>5. /\ at \in Nat /\ at + (m + len + 6) = p + n /\ at + (m + len + 6) <= Len(data)
      BY <2>1, <1>2 DEF at
    <2>6. type = r.type /\ Has(q + 1)
      <3>1. 1 \in 1 .. m + len + 6 /\ at + 1 <= Len(data)
        BY <2>1, <2>5, <1>2
      <3>2. data[at + 1] = r.type
        BY <3>1, <2>2, <2>4
      <3> QED
        BY <3>1, <3>2, <1>4 DEF Has
    <2>7. first = at + m
      BY <2>6, <1>4 DEF m
    <2> HIDE DEF type
    <2>8. data[first] = len /\ Has(first)
      <3>1. m \in 1 .. m + len + 6 /\ at + m <= Len(data)
        BY <2>1, <2>5, <1>2
      <3>2. data[at + m] = len
        BY <3>1, <2>2, <2>4
      <3> HIDE DEF first
      <3> QED
        BY <3>1, <3>2, <2>7 DEF Has
    <2> HIDE DEF first
    <2>9. last = at + m + len /\ Has(last + 6) /\ last + 6 = p + n /\ last = first + len
      <3>1. last = first + len
        BY <2>8
      <3> HIDE DEF last
      <3> QED
        BY <3>1, <2>1, <2>5, <2>7, <1>2 DEF Has
    <2> HIDE DEF last
    <2>10. Slice(data, first, last) = r.tag
      <3>1. r.tag \in Seq(Byte)
        BY DEF TagRecords, TagNumbers
      <3>2. \A k \in 1 .. len : data[first + k] = r.tag[k]
        <4> SUFFICES ASSUME NEW k \in 1 .. len PROVE data[first + k] = r.tag[k]
          OBVIOUS
        <4>1. m + k \in 1 .. m + len + 6 /\ at + (m + k) = first + k
          BY <2>1, <2>5, <2>7
        <4>2. data[at + (m + k)] = TagPart(r)[m + k]
          BY <4>1, <2>4
        <4> QED
          BY <4>1, <4>2, <2>2
      <3>3. first \in Nat /\ first + len <= Len(data)
        BY <2>1, <2>5, <2>7, <1>2
      <3>4. Slice(data, first, first + Len(r.tag)) = r.tag
        BY <3>1, <3>2, <3>3, <1>2, SliceOfData DEF len
      <3> QED
        BY <3>4, <2>9 DEF len
    <2>11. CASE Unknown(r)
      BY <2>6, <2>11, <1>1, <1>3, <1>5, <1>7 DEF Unknown
    <2>12. CASE ~ Unknown(r)
      <3>1. type \in {0, 3, 9}
        BY <2>6, <2>12, <1>7 DEF Unknown
      <3>2. RecordAt(p) = <<last + 6, Reverse(Slice(data, first, last))>>
        BY <3>1, <2>6, <2>8, <2>9, <1>1, <1>3, <1>5, <1>7
      <3> QED
        BY <3>2, <2>9, <2>10, <2>12, <1>7 DEF n
    <2> QED
      BY <2>11, <2>12
  <1> QED
    BY <1>6, <1>7

-----------------------------------------------------------------------------
(***************************************************************************)
(* The events of the reader, and their bytes.                              *)
(***************************************************************************)
InputRecords == [on : {0, 1}]

\* The frame has room for the records.
Fit(n, l) == n * (l + 23) + 10 <= 65535
Room(rs, l) ==
  /\ Fit(Len(rs), l)
  /\ \A i \in 1 .. Len(rs) : Len(rs[i].tag) = l

IsTagEvent(e) ==
  /\ e.command = 43 /\ e.status \in Byte /\ e.records \in Seq(TagRecords)
  /\ e.status # 0 => e.records = <<>>
  /\ Len(e.records) <= 255
  /\ \E l \in Nat : Room(e.records, l)

IsInputEvent(e) ==
  /\ e.command = 44 /\ e.status = 0 /\ e.records \in Seq(InputRecords)
  /\ Len(e.records) <= 255

IsOtherEvent(e) == e.command \in {42, 99} /\ e.status \in Byte

LEMMA TagNumber ==
  ASSUME NEW l \in 1 .. 255, NEW i \in Nat
  PROVE  TagOf(l, i) \in TagNumbers /\ Len(TagOf(l, i)) = l
  <1>1. \A k \in 1 .. l : (16 * i + k) % 256 \in Byte
    BY DEF Byte
  <1>2. 224 \in Byte /\ 7 \in Byte
    BY DEF Byte
  <1>3. \A k \in 1 .. l : (IF k = 1 THEN IF i = 1 THEN 224 ELSE 7 ELSE (16 * i + k) % 256) \in Byte
    BY <1>1, <1>2
  <1>4. TagOf(l, i) \in Seq(Byte) /\ Len(TagOf(l, i)) = l
    BY <1>3 DEF TagOf
  <1> QED
    BY <1>4 DEF TagNumbers

LEMMA EventKinds ==
  ASSUME NEW e \in TagEvents \cup InputEvents \cup OtherEvents
  PROVE  IsTagEvent(e) \/ IsInputEvent(e) \/ IsOtherEvent(e)
  <1>1. CASE e \in TagEvents
    <2> DEFINE S(n) ==
          {[command |-> 43, status |-> 0,
            records |-> [i \in 1 .. n |-> [parts |-> p[i], type |-> t[i], tag |-> TagOf(l, i)]]] :
             p \in [1 .. n -> Layouts], t \in [1 .. n -> Transponders], l \in TagLengths}
    <2>a. e \in UNION {S(n) : n \in 0 .. MaxRecords}
      <3>1. TagEvents = UNION {S(n) : n \in 0 .. MaxRecords}
        BY DEF TagEvents
      <3> HIDE DEF S
      <3> QED
        BY <3>1, <1>1
    <2>b. PICK n \in 0 .. MaxRecords : e \in S(n)
      <3> HIDE DEF S
      <3> QED
        BY <2>a
    <2>0. \E p \in [1 .. n -> Layouts], t \in [1 .. n -> Transponders], l \in TagLengths :
            e = [command |-> 43, status |-> 0,
                 records |-> [i \in 1 .. n |-> [parts |-> p[i], type |-> t[i], tag |-> TagOf(l, i)]]]
      BY <2>b
    <2>1. PICK p \in [1 .. n -> Layouts], t \in [1 .. n -> Transponders], l \in TagLengths :
            e = [command |-> 43, status |-> 0,
                 records |-> [i \in 1 .. n |-> [parts |-> p[i], type |-> t[i], tag |-> TagOf(l, i)]]]
      BY <2>0
    <2> DEFINE rs == [i \in 1 .. n |-> [parts |-> p[i], type |-> t[i], tag |-> TagOf(l, i)]]
    <2>2. MaxRecords \in 0 .. 255 /\ n \in 0 .. 255 /\ n <= MaxRecords /\ l \in 1 .. 255
      BY FrameBounds
    <2>3. ASSUME NEW i \in 1 .. n
          PROVE  /\ [parts |-> p[i], type |-> t[i], tag |-> TagOf(l, i)] \in TagRecords
                 /\ Len(TagOf(l, i)) = l
      <3>a. p[i] \in Layouts /\ t[i] \in Transponders
        OBVIOUS
      <3>1. i \in Nat /\ p[i] \in SUBSET Parts /\ t[i] \in Byte
        <4>1. Layouts \subseteq SUBSET Parts /\ Transponders \subseteq Byte
          BY FrameBounds DEF Parts, Byte
        <4> QED
          BY <3>a, <4>1, <2>2
      <3> QED
        BY <3>1, <2>2, TagNumber DEF TagRecords
    <2>4. rs \in Seq(TagRecords) /\ Len(rs) = n /\ \A i \in 1 .. Len(rs) : Len(rs[i].tag) = l
      <3>1. n \in Nat
        BY <2>2
      <3> QED
        BY <3>1, <2>3
    <2>5. n * (l + 23) + 10 <= 65535
      <3>1. MaxRecords * (l + 23) + 10 <= 65535
        BY FrameBounds
      <3>2. \A a, b, x \in Nat : a <= b => a * x <= b * x
        OBVIOUS
      <3>3. n * (l + 23) <= MaxRecords * (l + 23)
        BY <3>2, <2>2
      <3>4. n * (l + 23) \in Int /\ MaxRecords * (l + 23) \in Int
        BY <2>2
      <3> QED
        BY <3>1, <3>3, <3>4
    <2>6. e.command = 43 /\ e.status = 0 /\ e.records = rs
      BY <2>1
    <2>7. 0 \in Byte /\ l \in Nat
      BY <2>2 DEF Byte
    <2> HIDE DEF rs
    <2>8. Room(e.records, l)
      BY <2>4, <2>5, <2>6 DEF Room, Fit
    <2>9. IsTagEvent(e)
      BY <2>2, <2>4, <2>6, <2>7, <2>8 DEF IsTagEvent
    <2> QED
      BY <2>9
  <1>2. CASE e \in InputEvents
    <2>0. PICK n \in 0 .. MaxRecords : \E b \in [1 .. n -> {0, 1}] :
            e = [command |-> 44, status |-> 0, records |-> [i \in 1 .. n |-> [on |-> b[i]]]]
      BY <1>2 DEF InputEvents
    <2>1. PICK b \in [1 .. n -> {0, 1}] :
            e = [command |-> 44, status |-> 0, records |-> [i \in 1 .. n |-> [on |-> b[i]]]]
      BY <2>0
    <2> DEFINE rs == [i \in 1 .. n |-> [on |-> b[i]]]
    <2>2. n \in Nat /\ n <= 255
      BY FrameBounds
    <2>3. rs \in Seq(InputRecords) /\ Len(rs) = n
      BY <2>2 DEF InputRecords
    <2>4. e.command = 44 /\ e.status = 0 /\ e.records = rs
      BY <2>1
    <2> HIDE DEF rs
    <2>5. IsInputEvent(e)
      BY <2>2, <2>3, <2>4 DEF IsInputEvent
    <2> QED
      BY <2>5
  <1>3. CASE e \in OtherEvents
    <2>1. PICK c \in {42, 43, 99}, s \in {0, 146} :
            e = [command |-> c, status |-> s, records |-> <<>>]
      BY <1>3 DEF OtherEvents
    <2>2. e.command = c /\ e.status = s /\ e.records = <<>> /\ s \in Byte
      BY <2>1 DEF Byte
    <2>3. CASE c = 43
      <3>1. <<>> \in Seq(TagRecords) /\ Len(<<>>) = 0
        OBVIOUS
      <3>2. \E l \in Nat : Room(e.records, l)
        <4>1. 0 \in Nat /\ 0 * (0 + 23) + 10 <= 65535 /\ 1 .. 0 = {}
          OBVIOUS
        <4> QED
          BY <4>1, <3>1, <2>2 DEF Room, Fit
      <3> QED
        BY <2>2, <2>3, <3>1, <3>2 DEF IsTagEvent
    <2>4. CASE c # 43
      BY <2>2, <2>4 DEF IsOtherEvent
    <2> QED
      BY <2>3, <2>4
  <1> QED
    BY <1>1, <1>2, <1>3

\* Where the records of an event of tags are in its data.
TagData(e, d, at) ==
  /\ d \in Payloads /\ Len(d) = 4 + at[Len(e.records)]
  /\ d[1] = 43 /\ d[2] = e.status /\ d[3] = 0 /\ d[4] = Len(e.records)
  /\ at[0] = 0
  /\ \A i \in 0 .. Len(e.records) : at[i] \in Nat /\ at[i] <= at[Len(e.records)]
  /\ \A i \in 1 .. Len(e.records) :
       /\ at[i] = at[i - 1] + Len(RecordBytes(e.records[i]))
       /\ \A j \in 1 .. Len(RecordBytes(e.records[i])) :
            d[4 + at[i - 1] + j] = RecordBytes(e.records[i])[j]

LEMMA TagPayload ==
  ASSUME NEW e, IsTagEvent(e)
  PROVE  \E at : TagData(e, Payload(e), at)
  <1> DEFINE n == Len(e.records)
             seqs == [i \in DOMAIN e.records |-> RecordBytes(e.records[i])]
             h == <<43, e.status, 0, n>>
             s == FlattenSeq(seqs)
  <1>1. /\ e.command = 43 /\ e.status \in Byte /\ n \in 0 .. 255
        /\ DOMAIN e.records = 1 .. n /\ \A i \in 1 .. n : e.records[i] \in TagRecords
    <2> DEFINE rs == e.records
    <2>1. e.command = 43 /\ e.status \in Byte /\ rs \in Seq(TagRecords) /\ Len(rs) <= 255
      BY DEF IsTagEvent
    <2> HIDE DEF rs
    <2>2. Len(rs) \in Nat /\ DOMAIN rs = 1 .. Len(rs) /\ \A i \in 1 .. Len(rs) : rs[i] \in TagRecords
      BY <2>1
    <2>3. Len(rs) \in 0 .. 255
      <3>1. \A x \in Nat : x <= 255 => x \in 0 .. 255
        OBVIOUS
      <3> QED
        BY <3>1, <2>1, <2>2, Zenon
    <2> QED
      BY <2>1, <2>2, <2>3, Zenon DEF rs
  <1>a. PICK l \in Nat : Room(e.records, l)
    BY DEF IsTagEvent
  <1>2. Fit(n, l) /\ \A i \in 1 .. n : Len(e.records[i].tag) = l
    <2> DEFINE rs == e.records
    <2>1. Room(rs, l)
      BY <1>a
    <2> HIDE DEF rs
    <2>2. Fit(Len(rs), l) /\ \A i \in 1 .. Len(rs) : Len(rs[i].tag) = l
      BY <2>1, Zenon DEF Room
    <2> QED
      BY <2>2, Zenon DEF rs
  <1>3. \A i \in 1 .. n : /\ RecordBytes(e.records[i]) \in Seq(Byte)
                          /\ Len(RecordBytes(e.records[i])) \in 0 .. l + 23
    <2> SUFFICES ASSUME NEW i \in 1 .. n
                 PROVE  /\ RecordBytes(e.records[i]) \in Seq(Byte)
                        /\ Len(RecordBytes(e.records[i])) \in 0 .. l + 23
      OBVIOUS
    <2> DEFINE r == e.records[i]
    <2>1. r \in TagRecords /\ Len(r.tag) = l
      BY <1>1, <1>2
    <2> HIDE DEF r
    <2>2. RecordBytes(r) \in Seq(Byte) /\ Len(RecordBytes(r)) \in 4 .. Len(r.tag) + 23
      BY <2>1, RecordShape
    <2> QED
      BY <2>1, <2>2 DEF r
  <1>4. /\ seqs \in Seq(Seq(Byte)) /\ Len(seqs) = n
        /\ \A i \in 1 .. n : seqs[i] = RecordBytes(e.records[i])
    BY <1>1, <1>3
  <1>5. Payload(e) = h \o s
    <2>1. e.command = 43
      BY <1>1
    <2> QED
      BY <2>1 DEF Payload
  <1>6. h \in Seq(Byte) /\ Len(h) = 4 /\ h[1] = 43 /\ h[2] = e.status /\ h[3] = 0 /\ h[4] = n
    BY <1>1 DEF Byte
  <1>7. n \in Nat
    BY <1>1
  <1> HIDE DEF seqs, n, h
  <1>8. PICK at : Placed(seqs, s, at)
    BY <1>4, FlattenPlaces
  <1>9. /\ s \in Seq(Byte) /\ Len(s) = at[n] /\ at[0] = 0
        /\ \A i \in 0 .. n : at[i] \in Nat
        /\ \A i \in 1 .. n : /\ at[i] = at[i - 1] + Len(seqs[i])
                             /\ \A j \in 1 .. Len(seqs[i]) : s[at[i - 1] + j] = seqs[i][j]
    BY <1>4, <1>8 DEF Placed
  <1>10. Len(s) <= n * (l + 23) /\ \A i \in 0 .. n : at[i] <= Len(s)
    <2>1. l + 23 \in Nat /\ Len(seqs) \in Nat /\ \A i \in 1 .. Len(seqs) : Len(seqs[i]) \in 0 .. l + 23
      BY <1>3, <1>4, <1>7
    <2> DEFINE m == l + 23
    <2> HIDE DEF m
    <2>2. Len(s) <= Len(seqs) * m /\ \A i \in 0 .. Len(seqs) : at[i] <= Len(s)
      BY <2>1, <1>8, PlacedWithin DEF m
    <2> QED
      BY <2>2, <1>4 DEF m
  <1> HIDE DEF s
  <1>11. /\ h \o s \in Seq(Byte) /\ Len(h \o s) = 4 + Len(s)
         /\ \A i \in 1 .. 4 : (h \o s)[i] = h[i]
         /\ \A i \in 1 .. Len(s) : (h \o s)[4 + i] = s[i]
    <2>1. h \in Seq(Byte) /\ s \in Seq(Byte)
      BY <1>6, <1>9
    <2>2. /\ h \o s \in Seq(Byte) /\ Len(h \o s) = Len(h) + Len(s)
          /\ \A i \in 1 .. Len(h) : (h \o s)[i] = h[i]
          /\ \A i \in 1 .. Len(s) : (h \o s)[Len(h) + i] = s[i]
      BY <2>1, Joined
    <2> QED
      BY <2>2, <1>6
  <1> DEFINE d == h \o s
  <1>12. d \in Payloads
    <2>1. Len(s) \in Nat /\ n * (l + 23) \in Int
      BY <1>2, <1>7, <1>9
    <2>2. Len(d) + 6 <= 65535
      BY <2>1, <1>2, <1>10, <1>11 DEF Fit
    <2> HIDE DEF d
    <2> QED
      BY <2>2, <1>11 DEF Payloads, FrameLength, d
  <1>13. d[1] = 43 /\ d[2] = e.status /\ d[3] = 0 /\ d[4] = n
    <2>1. 1 \in 1 .. 4 /\ 2 \in 1 .. 4 /\ 3 \in 1 .. 4 /\ 4 \in 1 .. 4
      OBVIOUS
    <2> QED
      BY <2>1, <1>6, <1>11
  <1>14. ASSUME NEW i \in 1 .. n, NEW j \in 1 .. Len(seqs[i])
         PROVE  d[4 + at[i - 1] + j] = seqs[i][j]
    <2>1. i - 1 \in 0 .. n /\ i \in 0 .. n
      BY <1>7
    <2>2. /\ at[i - 1] \in Nat /\ at[i] \in Nat /\ Len(seqs[i]) \in Nat /\ Len(s) \in Nat
          /\ at[i] = at[i - 1] + Len(seqs[i]) /\ at[i] <= Len(s)
      BY <2>1, <1>4, <1>7, <1>9, <1>10
    <2>3. at[i - 1] + j \in 1 .. Len(s) /\ 4 + (at[i - 1] + j) = 4 + at[i - 1] + j
      BY <2>2
    <2>4. d[4 + (at[i - 1] + j)] = s[at[i - 1] + j]
      BY <2>3, <1>11
    <2>5. s[at[i - 1] + j] = seqs[i][j]
      BY <1>9
    <2> QED
      BY <2>3, <2>4, <2>5
  <1>15. Payload(e) = d
    BY <1>5
  <1> HIDE DEF d
  <1>16. Len(d) = 4 + at[n]
    BY <1>9, <1>11 DEF d
  <1>17. \A i \in 0 .. n : at[i] \in Nat /\ at[i] <= at[n]
    BY <1>9, <1>10
  <1>18. \A i \in 1 .. n : /\ at[i] = at[i - 1] + Len(RecordBytes(e.records[i]))
                           /\ \A j \in 1 .. Len(RecordBytes(e.records[i])) :
                                d[4 + at[i - 1] + j] = RecordBytes(e.records[i])[j]
    <2> SUFFICES ASSUME NEW i \in 1 .. n
                 PROVE  /\ at[i] = at[i - 1] + Len(RecordBytes(e.records[i]))
                        /\ \A j \in 1 .. Len(RecordBytes(e.records[i])) :
                             d[4 + at[i - 1] + j] = RecordBytes(e.records[i])[j]
      OBVIOUS
    <2>1. seqs[i] = RecordBytes(e.records[i])
      BY <1>4
    <2>2. at[i] = at[i - 1] + Len(seqs[i])
      BY <1>9
    <2>3. \A j \in 1 .. Len(seqs[i]) : d[4 + at[i - 1] + j] = seqs[i][j]
      BY <1>14
    <2> QED
      BY <2>1, <2>2, <2>3, Zenon
  <1>19. TagData(e, d, at)
    BY <1>9, <1>12, <1>13, <1>16, <1>17, <1>18, Zenon DEF TagData, n
  <1> QED
    BY <1>15, <1>19

InputData(e, d) ==
  /\ d \in Payloads /\ Len(d) = 8 * Len(e.records) + 8
  /\ d[1] = 44 /\ d[2] = 0 /\ d[3] = 0 /\ d[4] = Len(e.records) /\ d[7] = 16
  /\ \A i \in 1 .. Len(e.records) : d[8 * i + 8] = e.records[i].on

LEMMA InputRecord ==
  ASSUME NEW b \in {0, 1}
  PROVE  /\ Zeros(7) \o <<b>> \in Seq(Byte) /\ Len(Zeros(7) \o <<b>>) = 8
         /\ (Zeros(7) \o <<b>>)[8] = b
  <1> DEFINE z == Zeros(7)
             t == <<b>>
  <1>1. z \in Seq(Byte) /\ Len(z) = 7
    BY ZeroBytes
  <1>2. t \in Seq(Byte) /\ Len(t) = 1 /\ t[1] = b
    BY DEF Byte
  <1> HIDE DEF z, t
  <1>3. /\ z \o t \in Seq(Byte) /\ Len(z \o t) = Len(z) + Len(t)
        /\ \A i \in 1 .. Len(t) : (z \o t)[Len(z) + i] = t[i]
    <2>1. z \in Seq(Byte) /\ t \in Seq(Byte)
      BY <1>1, <1>2
    <2> QED
      BY <2>1, Joined
  <1>4. 1 \in 1 .. Len(t)
    BY <1>2
  <1>5. Len(z \o t) = 8 /\ (z \o t)[8] = b
    <2>1. 7 + 1 = 8
      OBVIOUS
    <2>2. (z \o t)[Len(z) + 1] = t[1]
      BY <1>3, <1>4
    <2> QED
      BY <2>1, <2>2, <1>1, <1>2, <1>3
  <1> QED
    BY <1>1, <1>2, <1>3, <1>5 DEF z, t

LEMMA InputPayload ==
  ASSUME NEW e, IsInputEvent(e)
  PROVE  InputData(e, Payload(e))
  <1> DEFINE n == Len(e.records)
             seqs == [i \in DOMAIN e.records |-> Zeros(7) \o <<e.records[i].on>>]
             h == <<44, e.status, 0, n, 0, 0, 16, 0>>
             s == FlattenSeq(seqs)
  <1>1. /\ e.command = 44 /\ e.status = 0 /\ n \in 0 .. 255
        /\ DOMAIN e.records = 1 .. n /\ \A i \in 1 .. n : e.records[i].on \in {0, 1}
    <2> DEFINE rs == e.records
    <2>1. e.command = 44 /\ e.status = 0 /\ rs \in Seq(InputRecords) /\ Len(rs) <= 255
      BY DEF IsInputEvent
    <2> HIDE DEF rs
    <2>2. Len(rs) \in Nat /\ DOMAIN rs = 1 .. Len(rs) /\ \A i \in 1 .. Len(rs) : rs[i] \in InputRecords
      BY <2>1
    <2>3. Len(rs) \in 0 .. 255
      <3>1. \A x \in Nat : x <= 255 => x \in 0 .. 255
        OBVIOUS
      <3> QED
        BY <3>1, <2>1, <2>2, Zenon
    <2>4. \A i \in 1 .. Len(rs) : rs[i].on \in {0, 1}
      BY <2>2 DEF InputRecords
    <2> QED
      BY <2>1, <2>2, <2>3, <2>4, Zenon DEF rs
  <1> DEFINE B(i) == Zeros(7) \o <<e.records[i].on>>
  <1>2. \A i \in 1 .. n : B(i) \in Seq(Byte) /\ Len(B(i)) = 8 /\ B(i)[8] = e.records[i].on
    BY <1>1, InputRecord
  <1>3. /\ seqs \in Seq(Seq(Byte)) /\ Len(seqs) = n
        /\ \A i \in 1 .. n : Len(seqs[i]) = 8 /\ seqs[i][8] = e.records[i].on
    <2>1. n \in Nat
      BY <1>1
    <2>2. seqs = [i \in 1 .. n |-> B(i)]
      BY <1>1
    <2> HIDE DEF seqs, B, n
    <2>3. seqs \in Seq(Seq(Byte)) /\ Len(seqs) = n /\ \A i \in 1 .. n : seqs[i] = B(i)
      BY <2>1, <2>2, <1>2
    <2> QED
      BY <2>3, <1>2
  <1>4. Payload(e) = h \o s
    <2>1. e.command = 44 /\ e.command # 43
      BY <1>1
    <2> QED
      BY <2>1 DEF Payload
  <1>5. /\ h \in Seq(Byte) /\ Len(h) = 8 /\ h[1] = 44 /\ h[2] = 0 /\ h[3] = 0 /\ h[4] = n /\ h[7] = 16
    BY <1>1 DEF Byte
  <1>6. n \in Nat
    BY <1>1
  <1> HIDE DEF seqs, n, h
  <1>7. PICK at : Placed(seqs, s, at)
    BY <1>3, FlattenPlaces
  <1>8. /\ s \in Seq(Byte) /\ Len(s) = at[n] /\ at[0] = 0
        /\ \A i \in 1 .. n : /\ at[i] = at[i - 1] + Len(seqs[i])
                             /\ \A j \in 1 .. Len(seqs[i]) : s[at[i - 1] + j] = seqs[i][j]
    BY <1>3, <1>7 DEF Placed
  <1> HIDE DEF s
  <1>9. \A i \in 0 .. n : at[i] = 8 * i
    <2> DEFINE T == {i \in 0 .. n : at[i] = 8 * i}
    <2>1. 0 \in T
      BY <1>6, <1>8
    <2>2. \A i \in 1 .. n : i - 1 \in T => i \in T
      <3> SUFFICES ASSUME NEW i \in 1 .. n, i - 1 \in T PROVE i \in T
        OBVIOUS
      <3>1. at[i] = at[i - 1] + 8 /\ at[i - 1] = 8 * (i - 1)
        BY <1>3, <1>8
      <3> QED
        BY <3>1, <1>6
    <2> HIDE DEF T
    <2>3. \A i \in 0 .. n : i \in T
      BY <1>6, <2>1, <2>2, UpTo
    <2> QED
      BY <2>3 DEF T
  <1>10. /\ h \o s \in Seq(Byte) /\ Len(h \o s) = 8 + Len(s)
         /\ \A i \in 1 .. 8 : (h \o s)[i] = h[i]
         /\ \A i \in 1 .. Len(s) : (h \o s)[8 + i] = s[i]
    <2>1. h \in Seq(Byte) /\ s \in Seq(Byte)
      BY <1>5, <1>8
    <2>2. /\ h \o s \in Seq(Byte) /\ Len(h \o s) = Len(h) + Len(s)
          /\ \A i \in 1 .. Len(h) : (h \o s)[i] = h[i]
          /\ \A i \in 1 .. Len(s) : (h \o s)[Len(h) + i] = s[i]
      BY <2>1, Joined
    <2> QED
      BY <2>2, <1>5
  <1> DEFINE d == h \o s
  <1>11. Len(s) = 8 * n
    BY <1>6, <1>8, <1>9
  <1>12. d \in Payloads /\ Len(d) = 8 * n + 8
    <2>1. Len(d) + 6 <= 65535 /\ Len(d) = 8 * n + 8
      BY <1>1, <1>10, <1>11
    <2> HIDE DEF d
    <2> QED
      BY <2>1, <1>10 DEF Payloads, FrameLength, d
  <1>13. d[1] = 44 /\ d[2] = 0 /\ d[3] = 0 /\ d[4] = n /\ d[7] = 16
    <2>1. 1 \in 1 .. 8 /\ 2 \in 1 .. 8 /\ 3 \in 1 .. 8 /\ 4 \in 1 .. 8 /\ 7 \in 1 .. 8
      OBVIOUS
    <2> QED
      BY <2>1, <1>5, <1>10
  <1>14. ASSUME NEW i \in 1 .. n
         PROVE  d[8 * i + 8] = e.records[i].on
    <2>1. 8 * i \in 1 .. Len(s) /\ 8 + 8 * i = 8 * i + 8 /\ at[i - 1] + 8 = 8 * i
      BY <1>6, <1>9, <1>11
    <2>2. d[8 + 8 * i] = s[8 * i]
      BY <2>1, <1>10
    <2>3. Len(seqs[i]) = 8
      BY <1>3
    <2>4. s[at[i - 1] + 8] = seqs[i][8]
      <3>1. 8 \in 1 .. 8
        OBVIOUS
      <3>2. \A j \in 1 .. Len(seqs[i]) : s[at[i - 1] + j] = seqs[i][j]
        BY <1>8
      <3> QED
        BY <2>3, <3>1, <3>2
    <2> QED
      BY <2>1, <2>2, <2>4, <1>3
  <1>15. Payload(e) = d
    BY <1>4
  <1> HIDE DEF d
  <1> QED
    BY <1>12, <1>13, <1>14, <1>15 DEF InputData, n

LEMMA ReverseTag ==
  ASSUME NEW s \in TagNumbers
  PROVE  Reverse(s) \in Seq(Byte) /\ Reverse(s) # <<>>
  <1>1. s \in Seq(Byte) /\ Len(s) \in 1 .. 255
    BY DEF TagNumbers
  <1>2. Len(s) \in Nat /\ \A i \in 1 .. Len(s) : Len(s) - i + 1 \in 1 .. Len(s)
    BY <1>1
  <1>3. \A i \in 1 .. Len(s) : s[Len(s) - i + 1] \in Byte
    BY <1>1, <1>2
  <1>4. Reverse(s) \in Seq(Byte) /\ Len(Reverse(s)) = Len(s)
    BY <1>2, <1>3 DEF Reverse
  <1>5. Len(Reverse(s)) # 0
    BY <1>1, <1>4
  <1> QED
    BY <1>4, <1>5

\* What is read of the records, one after the other.
NextTags(r, tags) ==
  IF "tag" \in r.parts THEN Append(tags, Reverse(r.tag)) ELSE tags
TagLists == Seq(Seq(Byte))

TagsRun(rs, tg) ==
  /\ tg[0] = <<>>
  /\ \A i \in 0 .. Len(rs) : tg[i] \in TagLists
  /\ \A i \in 1 .. Len(rs) : tg[i] = NextTags(rs[i], tg[i - 1])

LEMMA TagsAreRun ==
  ASSUME NEW e, e.records \in Seq(TagRecords), Readable(e) \in 0 .. Len(e.records)
  PROVE  \E tg : TagsRun(e.records, tg) /\ TagsOf(e) = tg[Readable(e)]
  <1> DEFINE rs == e.records
             n == Len(rs)
             G == [i \in 1 .. n |-> [v \in TagLists |-> NextTags(rs[i], v)]]
             F(f) == [i \in 0 .. n |->
                        IF i = 0 THEN <<>>
                        ELSE IF "tag" \in rs[i].parts
                        THEN Append(f[i - 1], Reverse(rs[i].tag)) ELSE f[i - 1]]
             tags == CHOOSE f : f = F(f)
  <1>0. TagsOf(e) = tags[Readable(e)]
    BY DEF TagsOf
  <1>r. rs \in Seq(TagRecords) /\ Readable(e) \in 0 .. n
    OBVIOUS
  <1> HIDE DEF rs
  <1>1. n \in Nat /\ \A i \in 1 .. n : rs[i] \in TagRecords
    BY <1>r
  <1>2. IsStep(G, n, TagLists)
    <2> SUFFICES ASSUME NEW i \in 1 .. n, NEW v \in TagLists PROVE G[i][v] \in TagLists
      BY DEF IsStep
    <2>1. Reverse(rs[i].tag) \in Seq(Byte)
      BY <1>1, ReverseTag DEF TagRecords
    <2>2. NextTags(rs[i], v) \in TagLists
      BY <2>1, AppendProperties DEF NextTags, TagLists
    <2> QED
      BY <2>2
  <1>3. <<>> \in TagLists
    BY DEF TagLists
  <1>4. PICK r : /\ r \in [0 .. n -> TagLists] /\ r[0] = <<>>
                 /\ \A i \in 1 .. n : r[i] = G[i][r[i - 1]]
    <2> HIDE DEF G, n
    <2>1. \E r : IsRun(r, <<>>, n, G, TagLists)
      BY <1>1, <1>2, <1>3, Recursion
    <2> QED
      BY <2>1 DEF IsRun
  <1>5. ASSUME NEW i \in 1 .. n PROVE r[i] = NextTags(rs[i], r[i - 1])
    <2>1. i - 1 \in 0 .. n
      BY <1>1
    <2>2. r[i - 1] \in TagLists
      BY <2>1, <1>4
    <2> QED
      BY <2>2, <1>4
  <1>6. r = F(r)
    <2>1. \A i \in 0 .. n : i = 0 \/ i \in 1 .. n
      BY <1>1
    <2>2. \A i \in 0 .. n : r[i] = F(r)[i]
      BY <1>4, <1>5, <2>1 DEF NextTags
    <2> QED
      BY <2>2, <1>4
  <1>7. tags = F(tags)
    BY <1>6
  <1> HIDE DEF tags
  <1>8. /\ tags[0] = <<>>
        /\ \A i \in 1 .. n : tags[i] = NextTags(rs[i], tags[i - 1])
    <2>1. \A i \in 1 .. n : i \in 0 .. n /\ i # 0
      BY <1>1
    <2>2. 0 \in 0 .. n
      BY <1>1
    <2> QED
      BY <1>7, <2>1, <2>2 DEF NextTags
  <1>9. \A i \in 0 .. n : tags[i] = r[i]
    <2> DEFINE T == {i \in 0 .. n : tags[i] = r[i]}
    <2>1. 0 \in T
      BY <1>1, <1>4, <1>8
    <2>2. \A i \in 1 .. n : i - 1 \in T => i \in T
      <3> SUFFICES ASSUME NEW i \in 1 .. n, i - 1 \in T PROVE i \in T
        OBVIOUS
      <3>1. tags[i - 1] = r[i - 1] /\ i \in 0 .. n
        BY <1>1
      <3>2. tags[i] = NextTags(rs[i], tags[i - 1]) /\ r[i] = NextTags(rs[i], r[i - 1])
        BY <1>5, <1>8
      <3>3. tags[i] = r[i]
        BY <3>1, <3>2
      <3> QED
        BY <3>1, <3>3
    <2> HIDE DEF T, n
    <2>3. \A i \in 0 .. n : i \in T
      BY <1>1, <2>1, <2>2, UpTo
    <2> QED
      BY <2>3 DEF T
  <1>10. TagsRun(rs, r)
    BY <1>4, <1>5 DEF TagsRun
  <1>11. TagsOf(e) = r[Readable(e)]
    BY <1>0, <1>9, <1>r
  <1> QED
    BY <1>10, <1>11 DEF rs

\* How far the records can be read.
Stops(rs, k) ==
  /\ k \in 0 .. Len(rs)
  /\ \A i \in 1 .. k : ~ Unknown(rs[i])
  /\ k < Len(rs) => Unknown(rs[k + 1])

LEMMA ReadableIs ==
  ASSUME NEW e, Len(e.records) \in Nat, NEW k, Stops(e.records, k)
  PROVE  Readable(e) = k
  <1> DEFINE rs == e.records
             n == Len(rs)
             P(m) == /\ \A i \in 1 .. m : ~ Unknown(rs[i])
                     /\ m < n => Unknown(rs[m + 1])
             c == CHOOSE m \in 0 .. n : P(m)
  <1>1. k \in 0 .. n /\ P(k)
    BY DEF Stops
  <1>2. Readable(e) = c
    BY DEF Readable
  <1>3. c \in 0 .. n /\ P(c)
    BY <1>1
  <1>n. n \in Nat
    OBVIOUS
  <1> HIDE DEF c, n, rs
  <1>4. ~ (c < k)
    <2> SUFFICES ASSUME c < k PROVE FALSE
      OBVIOUS
    <2>1. c + 1 \in 1 .. k /\ c < n
      BY <1>1, <1>3, <1>n
    <2> QED
      BY <2>1, <1>1, <1>3
  <1>5. ~ (k < c)
    <2> SUFFICES ASSUME k < c PROVE FALSE
      OBVIOUS
    <2>1. k + 1 \in 1 .. c /\ k < n
      BY <1>1, <1>3, <1>n
    <2> QED
      BY <2>1, <1>1, <1>3
  <1>6. c = k
    BY <1>1, <1>3, <1>4, <1>5, <1>n
  <1> QED
    BY <1>2, <1>6

LEMMA SomeStop ==
  ASSUME NEW rs, Len(rs) \in Nat
  PROVE  \E k : Stops(rs, k)
  <1> DEFINE n == Len(rs)
             U == {i \in 1 .. n : Unknown(rs[i])}
  <1>n. n \in Nat
    OBVIOUS
  <1>1. CASE U = {}
    <2>1. Stops(rs, n)
      BY <1>1, <1>n DEF Stops
    <2> QED
      BY <2>1
  <1>2. CASE U # {}
    <2>1. U \subseteq Nat
      OBVIOUS
    <2>2. PICK x \in U : \A y \in U : x <= y
      <3> HIDE DEF U
      <3> QED
        BY <1>2, <2>1, Smallest
    <2>3. x \in 1 .. n /\ Unknown(rs[x])
      BY <2>2
    <2>4. \A i \in 1 .. x - 1 : ~ Unknown(rs[i])
      <3> SUFFICES ASSUME NEW i \in 1 .. x - 1 PROVE i \notin U
        BY <2>3, <1>n
      <3>1. ~ (x <= i)
        BY <2>3
      <3> HIDE DEF U
      <3> QED
        BY <3>1, <2>2
    <2>5. x - 1 \in 0 .. n /\ x - 1 + 1 = x
      BY <2>3, <1>n
    <2>6. Stops(rs, x - 1)
      BY <2>3, <2>4, <2>5 DEF Stops
    <2> QED
      BY <2>6
  <1> QED
    BY <1>1, <1>2

-----------------------------------------------------------------------------
(***************************************************************************)
(* The invariant: while the line has disturbed at most one byte or cut the *)
(* frame once, and no byte of the length, the process is at the record that*)
(* it thinks it is at.                                                     *)
(***************************************************************************)
Clean == "shortened" \notin mishaps /\ slips <= 1

Events == TagEvents \cup InputEvents \cup OtherEvents

\* What may come of a frame.
Noisy(s, f) ==
  \E i \in 1 .. Len(f), byte \in Byte :
    (i \in {2, 3} => byte > f[i]) /\ byte # f[i] /\ s = [f EXCEPT ![i] = byte]
Short(s, f) == \E m \in 1 .. Len(f) - 1 : s = SubSeq(f, 1, m)

OnTheWay ==
  /\ slips = 0 => stream = Frame(Payload(event))
  /\ \/ stream = Frame(Payload(event))
     \/ Noisy(stream, Frame(Payload(event)))
     \/ Short(stream, Frame(Payload(event)))
  /\ parsed = <<>>

\* At the record after k = n - left ones.
AtTag(at, tg) ==
  /\ TagData(event, data, at) /\ TagsRun(event.records, tg)
  /\ TagsOf(event) = tg[Readable(event)]
  /\ left \in 0 .. Len(event.records)
  /\ pos = 4 + at[Len(event.records) - left]
  /\ parsed = tg[Len(event.records) - left]
  /\ \A i \in 1 .. Len(event.records) - left : ~ Unknown(event.records[i])

InTags ==
  /\ IsTagEvent(event) /\ event.status = 0 /\ data = Payload(event)
  /\ \E at, tg : AtTag(at, tg)

InInputs ==
  /\ IsInputEvent(event) /\ data = Payload(event)
  /\ left \in 0 .. Len(event.records)
  /\ pos = 8 * (Len(event.records) - left) + 8
  /\ parsed \in Seq({0, 1}) /\ Len(parsed) = Len(event.records) - left
  /\ \A i \in 1 .. Len(event.records) - left : parsed[i] = event.records[i].on

Reading ==
  /\ step = "read" => OnTheWay
  /\ step = "header" => data = Payload(event) /\ parsed = <<>>
  /\ step = "tags" => InTags
  /\ step = "inputs" => InInputs
  /\ step = "done" => data = Payload(event) /\ parsed = SeenBy(event)
  /\ EventsAreRead

FrameInv ==
  /\ event \in Events /\ slips \in Nat
  /\ Clean => Reading

LEMMA OtherPayload ==
  ASSUME NEW e, IsOtherEvent(e)
  PROVE  Payload(e) \in Payloads /\ Payload(e) = <<e.command, e.status>> /\ e.command \in Byte
  <1>1. e.command \in Byte /\ e.status \in Byte /\ e.command # 43 /\ e.command # 44
    BY DEF IsOtherEvent, Byte
  <1>2. Payload(e) = <<e.command, e.status>>
    BY <1>1 DEF Payload
  <1>3. <<e.command, e.status>> \in Payloads
    BY <1>1 DEF Payloads, FrameLength
  <1> QED
    BY <1>1, <1>2, <1>3

LEMMA EventPayload ==
  ASSUME NEW e \in Events
  PROVE  Payload(e) \in Payloads /\ Payload(e)[1] = e.command /\ e.command \in Byte
  <1>1. CASE IsTagEvent(e)
    <2>1. e.command = 43
      BY <1>1 DEF IsTagEvent
    <2>2. PICK at : TagData(e, Payload(e), at)
      BY <1>1, TagPayload
    <2> QED
      BY <2>1, <2>2 DEF TagData, Byte
  <1>2. CASE IsInputEvent(e)
    <2>1. e.command = 44
      BY <1>2 DEF IsInputEvent
    <2>2. InputData(e, Payload(e))
      BY <1>2, InputPayload
    <2> QED
      BY <2>1, <2>2 DEF InputData, Byte
  <1>3. CASE IsOtherEvent(e)
    BY <1>3, OtherPayload
  <1> QED
    BY <1>1, <1>2, <1>3, EventKinds DEF Events

LEMMA WholePrefix ==
  ASSUME NEW s \in Seq(Byte)
  PROVE  SubSeq(s, 1, Len(s)) = s
  <1> DEFINE n == Len(s)
             t == SubSeq(s, 1, n)
  <1>1. n \in Nat /\ n \in Int /\ 1 \in Int /\ \A i \in 1 .. n : s[i] \in Byte
    OBVIOUS
  <1> HIDE DEF n
  <1>2. /\ t \in Seq(Byte) /\ Len(t) = IF 1 <= n THEN n - 1 + 1 ELSE 0
        /\ \A i \in 1 .. n - 1 + 1 : t[i] = s[1 + i - 1]
    BY <1>1, SubSeqProperties
  <1> HIDE DEF t
  <1>3. Len(t) = n /\ \A i \in 1 .. n : t[i] = s[i]
    BY <1>1, <1>2
  <1>4. t = s
    BY <1>1, <1>2, <1>3, SeqEqual DEF n
  <1> QED
    BY <1>4 DEF t, n

\* A frame that was disturbed is not read, and another one as it was sent.
LEMMA NoisyIsRefused ==
  ASSUME NEW payload \in Payloads, Noisy(stream, Frame(payload)), Len(stream) >= Word(stream, 1)
  PROVE  ParseResponse(SubSeq(stream, 1, Word(stream, 1))) = Refused
  <1> DEFINE f == Frame(payload)
             n == FrameLength(payload)
  <1>1. /\ Word(f, 1) = n /\ Len(f) = n /\ n \in Nat /\ n >= 6
    BY FrameStart
  <1>2. f \in Seq(Byte)
    BY FrameShape
  <1>3. PICK i \in 1 .. Len(f), byte \in Byte :
          (i \in {2, 3} => byte > f[i]) /\ byte # f[i] /\ stream = [f EXCEPT ![i] = byte]
    BY DEF Noisy
  <1>4. i \in 1 .. n
    BY <1>1, <1>3
  <1>5. i \notin {2, 3} => ParseResponse([f EXCEPT ![i] = byte]) = Refused
    BY <1>3, <1>4, NoiseIsRefused
  <1>6. i \notin {2, 3} => ParseResponse(stream) = Refused
    BY <1>3, <1>5
  <1> HIDE DEF f, n
  <1>7. /\ stream \in Seq(Byte) /\ Len(stream) = n
        /\ \A j \in 1 .. n : stream[j] = IF j = i THEN byte ELSE f[j]
    <2>1. /\ [f EXCEPT ![i] = byte] \in Seq(Byte) /\ Len([f EXCEPT ![i] = byte]) = Len(f)
          /\ \A j \in 1 .. Len(f) : [f EXCEPT ![i] = byte][j] = IF j = i THEN byte ELSE f[j]
      BY <1>2, <1>3, ExceptSeq
    <2> QED
      BY <2>1, <1>1, <1>3
  <1>8. 2 \in 1 .. n /\ 3 \in 1 .. n /\ f[2] \in Byte /\ f[3] \in Byte
    BY <1>1, <1>2
  \* A length that has grown is more than what came.
  <1>9. i \notin {2, 3}
    <2> SUFFICES ASSUME i \in {2, 3} PROVE FALSE
      OBVIOUS
    <2>1. f[2] * 256 + f[3] = n /\ stream[2] * 256 + stream[3] <= n
      BY <1>1, <1>7 DEF Word
    <2>2. CASE i = 2
      <3>1. stream[2] = byte /\ stream[3] = f[3] /\ byte > f[2]
        BY <2>2, <1>3, <1>7, <1>8
      <3>2. \A a, b, c \in Byte : b > a => ~ (b * 256 + c <= a * 256 + c)
        BY DEF Byte
      <3> QED
        BY <3>1, <3>2, <2>1, <1>3, <1>8
    <2>3. CASE i = 3
      <3>1. stream[2] = f[2] /\ stream[3] = byte /\ byte > f[3]
        BY <2>3, <1>3, <1>7, <1>8
      <3>2. \A a, b, c \in Byte : b > a => ~ (c * 256 + b <= c * 256 + a)
        BY DEF Byte
      <3> QED
        BY <3>1, <3>2, <2>1, <1>3, <1>8
    <2> QED
      BY <2>2, <2>3
  <1>10. Word(stream, 1) = n
    <2>1. stream[2] = f[2] /\ stream[3] = f[3]
      BY <1>7, <1>8, <1>9
    <2> QED
      BY <2>1, <1>1 DEF Word
  <1>11. SubSeq(stream, 1, n) = stream
    BY <1>7, WholePrefix
  <1> QED
    BY <1>6, <1>9, <1>10, <1>11

LEMMA ShortIsNotWhole ==
  ASSUME NEW payload \in Payloads, Short(stream, Frame(payload)), Len(stream) >= 3
  PROVE  ~ (Len(stream) >= Word(stream, 1))
  <1> DEFINE f == Frame(payload)
             n == FrameLength(payload)
  <1>1. /\ Word(f, 1) = n /\ Len(f) = n /\ n \in Nat /\ n >= 6
    BY FrameStart
  <1>2. f \in Seq(Byte)
    BY FrameShape
  <1> HIDE DEF f, n
  <1>3. PICK m \in 1 .. n - 1 : stream = SubSeq(f, 1, m)
    BY <1>1 DEF Short, f
  <1>4. /\ Len(stream) = m /\ \A i \in 1 .. m : stream[i] = f[i]
    <2>1. m \in Int /\ 1 <= m /\ m - 1 + 1 = m /\ \A i \in 1 .. m : 1 + i - 1 = i /\ f[i] \in Byte
      BY <1>1, <1>2
    <2>2. /\ SubSeq(f, 1, m) \in Seq(Byte)
          /\ Len(SubSeq(f, 1, m)) = IF 1 <= m THEN m - 1 + 1 ELSE 0
          /\ \A i \in 1 .. m - 1 + 1 : SubSeq(f, 1, m)[i] = f[1 + i - 1]
      BY <2>1, SubSeqProperties
    <2> QED
      BY <2>1, <2>2, <1>3
  <1>5. 2 \in 1 .. m /\ 3 \in 1 .. m
    BY <1>4
  <1>6. Word(stream, 1) = n
    BY <1>1, <1>4, <1>5 DEF Word
  <1> QED
    BY <1>1, <1>4, <1>6

LEMMA ReadFrameKeeps ==
  ASSUME FrameInv, ReadFrame
  PROVE  FrameInv'
  <1>1. /\ event' = event /\ slips' = slips /\ mishaps' = mishaps /\ step = "read"
        /\ parsed' = parsed
    BY DEF ReadFrame, Abort, Smooth, mishapVars, parserVars
  <1>2. SUFFICES ASSUME Clean, step' # "closed" PROVE Reading'
    <2>1. event' \in Events /\ slips' \in Nat
      BY <1>1 DEF FrameInv
    <2>2. Clean' => Clean
      BY <1>1 DEF Clean
    <2>3. step' = "closed" => Reading'
      BY DEF Reading, EventsAreRead
    <2> QED
      BY <2>1, <2>2, <2>3 DEF FrameInv
  <1>3. event \in Events /\ OnTheWay
    BY <1>1, <1>2 DEF FrameInv, Reading
  <1> DEFINE p == Payload(event)
             f == Frame(p)
             length == Word(stream, 1)
             response == ParseResponse(SubSeq(stream, 1, length))
  <1>4. p \in Payloads
    BY <1>3, EventPayload
  <1>5. /\ Len(stream) >= 3 /\ Len(stream) >= length /\ response # Refused
        /\ step' = "header" /\ data' = response
    BY <1>2 DEF ReadFrame, Abort
  <1>6. ~ Noisy(stream, f)
    BY <1>4, <1>5, NoisyIsRefused
  <1>7. ~ Short(stream, f)
    BY <1>4, <1>5, ShortIsNotWhole
  <1>8. stream = f /\ parsed = <<>>
    BY <1>3, <1>6, <1>7 DEF OnTheWay
  <1>9. response = p
    <2>1. /\ f \in Seq(Byte) /\ Len(f) = FrameLength(p) /\ Word(f, 1) = FrameLength(p)
      BY <1>4, FrameShape, FrameStart
    <2>2. SubSeq(f, 1, Word(f, 1)) = f
      BY <2>1, WholePrefix
    <2>3. ParseResponse(f) = p
      BY <1>4, FrameIsParsed
    <2> QED
      BY <2>2, <2>3, <1>8
  <1>10. data' = Payload(event)' /\ parsed' = <<>>
    BY <1>1, <1>5, <1>8, <1>9 DEF Payload
  <1> QED
    BY <1>5, <1>10 DEF Reading, EventsAreRead

LEMMA DisturbKeeps ==
  ASSUME FrameInv, Disturb
  PROVE  FrameInv'
  <1>1. /\ event' = event /\ step' = step /\ step = "read" /\ parsed' = parsed
        /\ slips' = slips + 1
    BY DEF Disturb, Slip, parserVars
  <1>2. mishaps \subseteq mishaps'
    BY DEF Disturb, Slip
  <1>3. SUFFICES ASSUME Clean' PROVE OnTheWay'
    <2>1. event' \in Events /\ slips' \in Nat
      BY <1>1 DEF FrameInv
    <2> QED
      BY <2>1, <1>1 DEF FrameInv, Reading, EventsAreRead
  <1>4. slips = 0 /\ "shortened" \notin mishaps /\ "shortened" \notin mishaps'
    BY <1>1, <1>2, <1>3 DEF Clean, FrameInv
  <1>5. event \in Events /\ stream = Frame(Payload(event)) /\ parsed = <<>>
    BY <1>1, <1>4 DEF FrameInv, Clean, Reading, OnTheWay
  <1> DEFINE f == Frame(Payload(event))
  <1>6. f \in Seq(Byte)
    BY <1>5, EventPayload, FrameShape
  <1>7. f = Frame(Payload(event))' /\ stream = f
    BY <1>1, <1>5
  <1> HIDE DEF f
  <1>8. Noisy(stream', f) \/ Short(stream', f)
    <2>1. CASE \E i \in DOMAIN stream, burst \in Bursts :
                 LET byte == ByteOf(SymDiff(Bits[stream[i]], burst)) IN
                 /\ Slip(IF i \in {2, 3} /\ byte < stream[i] THEN "shortened" ELSE "noise")
                 /\ stream' = [stream EXCEPT ![i] = byte]
      <3>1. PICK i \in DOMAIN stream, burst \in Bursts :
              LET byte == ByteOf(SymDiff(Bits[stream[i]], burst)) IN
              /\ Slip(IF i \in {2, 3} /\ byte < stream[i] THEN "shortened" ELSE "noise")
              /\ stream' = [stream EXCEPT ![i] = byte]
        BY <2>1
      <3>3. i \in 1 .. Len(f) /\ f[i] \in Byte
        BY <3>1, <1>6, <1>7
      <3> DEFINE bits == SymDiff(Bits[f[i]], burst)
                 byte == ByteOf(bits)
      <3>4. bits \in SUBSET (0 .. 7) /\ bits # Bits[f[i]]
        <4>1. burst \in SUBSET (0 .. 7) /\ burst # {}
          BY <3>1, FrameBounds
        <4>2. Bits[f[i]] \in SUBSET (0 .. 7)
          BY <3>3, BitsOfByte
        <4> QED
          BY <4>1, <4>2 DEF SymDiff
      <3>5. byte \in Byte /\ Bits[byte] = bits
        BY <3>4, ByteOfBits
      <3>2. ~ (i \in {2, 3} /\ byte < f[i])
        BY <3>1, <1>4, <1>7 DEF Slip
      <3>6. byte # f[i]
        BY <3>4, <3>5
      <3>7. stream' = [f EXCEPT ![i] = byte]
        BY <3>1, <1>7
      <3> HIDE DEF byte, bits
      <3>8. i \in {2, 3} => byte > f[i]
        <4>1. \A a, b \in Byte : b # a /\ ~ (b < a) => b > a
          BY DEF Byte
        <4> QED
          BY <4>1, <3>2, <3>3, <3>5, <3>6, Zenon
      <3> QED
        BY <3>3, <3>5, <3>6, <3>7, <3>8 DEF Noisy
    <2>2. CASE \E n \in 1 .. Len(stream) - 1 :
                 Slip("cut") /\ stream' = SubSeq(stream, 1, n)
      BY <2>2, <1>7 DEF Short
    <2> QED
      BY <2>1, <2>2 DEF Disturb
  <1>9. slips' # 0
    BY <1>1, <1>4
  <1>10. parsed' = <<>>
    BY <1>1, <1>5
  <1> QED
    BY <1>7, <1>8, <1>9, <1>10 DEF OnTheWay

LEMMA ParseHeaderKeeps ==
  ASSUME FrameInv, ParseHeader
  PROVE  FrameInv'
  <1>1. /\ event' = event /\ slips' = slips /\ mishaps' = mishaps /\ step = "header"
        /\ data' = data /\ parsed' = parsed /\ step' \in {"done", "tags", "inputs"}
    BY DEF ParseHeader, Smooth, mishapVars
  <1>2. SUFFICES ASSUME Clean PROVE Reading'
    <2>1. event' \in Events /\ slips' \in Nat
      BY <1>1 DEF FrameInv
    <2>2. Clean' => Clean
      BY <1>1 DEF Clean
    <2> QED
      BY <2>1, <2>2 DEF FrameInv
  <1>3. event \in Events /\ data = Payload(event) /\ parsed = <<>>
    BY <1>1, <1>2 DEF FrameInv, Reading
  <1> DEFINE n == Len(event.records)
  <1>4. SUFFICES /\ step' = "tags" => InTags'
                 /\ step' = "inputs" => InInputs'
                 /\ step' = "done" => SeenBy(event) = <<>>
    <2>1. data' = Payload(event)' /\ parsed' = <<>> /\ SeenBy(event)' = SeenBy(event)
      BY <1>1, <1>3
    <2>2. step' # "read" /\ step' # "header" /\ step' # "answered"
      BY <1>1
    <2> QED
      BY <2>1, <2>2 DEF Reading, EventsAreRead
  <1>5. CASE IsTagEvent(event)
    <2>1. /\ event.command = 43 /\ event.records \in Seq(TagRecords)
          /\ event.status # 0 => event.records = <<>>
      BY <1>5 DEF IsTagEvent
    <2>2. n \in Nat
      BY <2>1
    <2>3. PICK at : TagData(event, data, at)
      BY <1>3, <1>5, TagPayload
    <2>4. /\ data[1] = 43 /\ data[2] = event.status /\ data[3] = 0 /\ data[4] = n
          /\ at[0] = 0 /\ Len(data) = 4 + at[n] /\ at[n] \in Nat
      <3>1. n \in 0 .. n
        BY <2>2
      <3> QED
        BY <2>3, <3>1 DEF TagData
    <2>5. Has(2) /\ Has(4)
      BY <2>4 DEF Has
    <2>6. CASE event.status # 0
      <3>1. step' = "done"
        BY <2>4, <2>5, <2>6 DEF ParseHeader
      <3> QED
        BY <3>1, <2>6 DEF SeenBy
    <2>7. CASE event.status = 0
      <3>1. step' = "tags" /\ pos' = 4 /\ left' = Word(data, 2)
        BY <2>4, <2>5, <2>7 DEF ParseHeader
      <3>2. left' = n
        BY <3>1, <2>2, <2>4 DEF Word
      <3>3. PICK k : Stops(event.records, k)
        BY <2>2, SomeStop
      <3>4. Readable(event) \in 0 .. n
        BY <2>2, <3>3, ReadableIs DEF Stops
      <3>5. PICK tg : TagsRun(event.records, tg) /\ TagsOf(event) = tg[Readable(event)]
        BY <2>1, <3>4, TagsAreRun
      <3>6. tg[0] = <<>>
        BY <3>5 DEF TagsRun
      <3>7. n - n = 0 /\ n \in 0 .. n /\ 4 + 0 = 4
        BY <2>2
      <3>8. AtTag(at, tg)'
        <4>1. event' = event /\ data' = data /\ left' = n /\ pos' = 4 /\ parsed' = <<>>
          BY <1>1, <1>3, <3>1, <3>2
        <4>2. /\ n \in 0 .. n /\ 4 = 4 + at[n - n] /\ <<>> = tg[n - n]
              /\ \A i \in 1 .. n - n : ~ Unknown(event.records[i])
          BY <2>4, <3>6, <3>7
        <4> HIDE DEF n
        <4>3. /\ TagData(event', data', at) /\ TagsRun(event'.records, tg)
              /\ TagsOf(event') = tg[Readable(event')]
          BY <4>1, <2>3, <3>5
        <4> QED
          BY <4>1, <4>2, <4>3 DEF AtTag, n
      <3>9. InTags'
        BY <1>1, <1>3, <1>5, <2>7, <3>8 DEF InTags
      <3> QED
        BY <3>1, <3>9
    <2> QED
      BY <2>6, <2>7
  <1>6. CASE IsInputEvent(event)
    <2>1. n \in Nat
      BY <1>6 DEF IsInputEvent
    <2>2. /\ Len(data) = 8 * n + 8 /\ data[1] = 44 /\ data[2] = 0 /\ data[3] = 0 /\ data[4] = n
          /\ data[7] = 16
      BY <1>3, <1>6, InputPayload DEF InputData
    <2>3. Has(2) /\ Has(8) /\ HasInputs
      BY <2>1, <2>2 DEF Has, HasInputs
    <2>4. step' = "inputs" /\ pos' = 8 /\ left' = Word(data, 2)
      BY <2>2, <2>3 DEF ParseHeader
    <2>5. left' = n
      BY <2>1, <2>2, <2>4 DEF Word
    <2>6. InInputs'
      <3>1. <<>> \in Seq({0, 1}) /\ Len(<<>>) = 0
        OBVIOUS
      <3>2. n - n = 0 /\ n \in 0 .. n /\ 8 * 0 + 8 = 8 /\ 1 .. 0 = {}
        BY <2>1
      <3>3. event' = event /\ data' = data /\ left' = n /\ pos' = 8 /\ parsed' = <<>>
        BY <1>1, <1>3, <2>4, <2>5
      <3>4. /\ n \in 0 .. n /\ 8 = 8 * (n - n) + 8 /\ Len(<<>>) = n - n
            /\ \A i \in 1 .. n - n : <<>>[i] = event.records[i].on
        BY <3>1, <3>2
      <3> HIDE DEF n
      <3> QED
        BY <1>3, <1>6, <3>1, <3>3, <3>4 DEF InInputs, n
    <2> QED
      BY <2>4, <2>6
  <1>7. CASE IsOtherEvent(event)
    <2>1. data = <<event.command, event.status>> /\ event.command \in {42, 99}
      BY <1>3, <1>7, OtherPayload DEF IsOtherEvent
    <2>2. data[1] = event.command /\ data[1] \notin {43, 44}
      BY <2>1
    <2>3. step' = "done"
      BY <2>2 DEF ParseHeader
    <2>4. SeenBy(event) = <<>>
      BY <2>1 DEF SeenBy
    <2> QED
      BY <2>3, <2>4
  <1> QED
    BY <1>3, <1>5, <1>6, <1>7, EventKinds DEF Events

LEMMA ParseTagKeeps ==
  ASSUME FrameInv, ParseTag
  PROVE  FrameInv'
  <1>1. /\ event' = event /\ slips' = slips /\ mishaps' = mishaps /\ step = "tags"
        /\ data' = data /\ step' \in {"done", "tags"}
    BY DEF ParseTag, Smooth, mishapVars
  <1>2. SUFFICES ASSUME Clean PROVE Reading'
    <2>1. event' \in Events /\ slips' \in Nat
      BY <1>1 DEF FrameInv
    <2>2. Clean' => Clean
      BY <1>1 DEF Clean
    <2> QED
      BY <2>1, <2>2 DEF FrameInv
  <1>3. InTags
    BY <1>1, <1>2 DEF FrameInv, Reading
  <1>4. PICK at, tg : AtTag(at, tg)
    BY <1>3 DEF InTags
  <1> DEFINE rs == event.records
             n == Len(rs)
             k == n - left
  <1>5. /\ event.command = 43 /\ event.status = 0 /\ rs \in Seq(TagRecords)
        /\ IsTagEvent(event) /\ data = Payload(event)
    BY <1>3 DEF InTags, IsTagEvent
  <1>6. n \in Nat /\ left \in 0 .. n /\ k \in 0 .. n
    BY <1>4, <1>5 DEF AtTag
  <1>7. /\ TagData(event, data, at) /\ TagsRun(rs, tg) /\ TagsOf(event) = tg[Readable(event)]
        /\ pos = 4 + at[k] /\ parsed = tg[k] /\ \A i \in 1 .. k : ~ Unknown(rs[i])
    BY <1>4 DEF AtTag
  <1>8. SUFFICES /\ step' = "tags" => AtTag(at, tg)'
                 /\ step' = "done" => parsed' = TagsOf(event)
    <2>1. step' = "tags" => InTags'
      BY <1>1, <1>5, <1>8 DEF InTags
    <2>2. SeenBy(event) = TagsOf(event)
      BY <1>5 DEF SeenBy
    <2>3. step' = "done" => data' = Payload(event)' /\ parsed' = SeenBy(event)'
      BY <1>1, <1>5, <1>8, <2>2
    <2>4. step' # "read" /\ step' # "header" /\ step' # "answered" /\ step' # "inputs"
      BY <1>1
    <2> QED
      BY <2>1, <2>3, <2>4 DEF Reading, EventsAreRead
  <1>9. ASSUME Stops(rs, k) PROVE TagsOf(event) = parsed
    BY <1>6, <1>7, <1>9, ReadableIs
  <1>10. CASE left = 0
    <2>1. k = n
      BY <1>6, <1>10
    <2> HIDE DEF k
    <2>2. Stops(rs, k)
      BY <2>1, <1>6, <1>7 DEF Stops
    <2>3. step' = "done" /\ parsed' = parsed
      BY <1>10 DEF ParseTag
    <2> QED
      BY <2>2, <2>3, <1>9
  <1>11. CASE left # 0
    <2> DEFINE r == rs[k + 1]
               b == RecordBytes(r)
    <2>1. k + 1 \in 1 .. n /\ k < n /\ k + 1 - 1 = k /\ n - (left - 1) = k + 1 /\ left - 1 \in 0 .. n
      BY <1>6, <1>11
    <2>2. r \in TagRecords
      BY <1>5, <2>1
    <2>3. /\ at[k] \in Nat /\ at[k + 1] = at[k] + Len(b) /\ at[k + 1] <= at[n]
          /\ Len(data) = 4 + at[n] /\ at[n] \in Nat
          /\ \A j \in 1 .. Len(b) : data[4 + at[k] + j] = b[j]
          /\ data \in Seq(Byte)
          /\ tg[k + 1] = NextTags(r, tg[k])
      <3>1. /\ data \in Seq(Byte) /\ Len(data) = 4 + at[n]
            /\ \A i \in 0 .. n : at[i] \in Nat /\ at[i] <= at[n]
        BY <1>7 DEF TagData, Payloads
      <3>2. \A i \in 1 .. n : /\ at[i] = at[i - 1] + Len(RecordBytes(rs[i]))
                              /\ \A j \in 1 .. Len(RecordBytes(rs[i])) :
                                   data[4 + at[i - 1] + j] = RecordBytes(rs[i])[j]
        BY <1>7 DEF TagData
      <3>3. \A i \in 1 .. n : tg[i] = NextTags(rs[i], tg[i - 1])
        BY <1>7 DEF TagsRun
      <3>4. k \in 0 .. n /\ k + 1 \in 0 .. n /\ n \in 0 .. n
        BY <1>6, <2>1
      <3> HIDE DEF n, rs, k
      <3>5. PICK i \in 1 .. n : i = k + 1 /\ i - 1 = k
        BY <2>1, <3>4, <1>6
      <3>6. /\ at[i] = at[i - 1] + Len(RecordBytes(rs[i]))
            /\ \A j \in 1 .. Len(RecordBytes(rs[i])) :
                 data[4 + at[i - 1] + j] = RecordBytes(rs[i])[j]
            /\ tg[i] = NextTags(rs[i], tg[i - 1])
        BY <3>2, <3>3
      <3> QED
        BY <3>1, <3>4, <3>5, <3>6
    <2>5. Len(b) \in Nat
      BY <2>2, RecordShape
    <2> HIDE DEF k, b, n
    <2>6. pos \in Nat /\ pos = 4 + at[k] /\ pos + Len(b) = 4 + at[k + 1]
      <3>1. pos = 4 + at[k]
        BY <1>7
      <3>2. at[k] \in Nat /\ at[k + 1] = at[k] + Len(b)
        BY <2>3
      <3> QED
        BY <3>1, <3>2, <2>5
    <2>7. Holds(pos, b)
      BY <2>3, <2>5, <2>6 DEF Holds
    <2>8. RecordAt(pos) = IF Unknown(r) THEN Refused
                          ELSE <<pos + Len(b), IF "tag" \in r.parts THEN Reverse(r.tag) ELSE <<>> >>
      <3> HIDE DEF r
      <3> QED
        BY <2>2, <2>6, <2>7, RecordIsRead DEF b
    <2>9. CASE Unknown(r)
      <3>1. Stops(rs, k)
        BY <2>9, <1>6, <1>7 DEF Stops, n
      <3>2. step' = "done" /\ parsed' = parsed
        BY <2>8, <2>9 DEF ParseTag
      <3> QED
        BY <3>1, <3>2, <1>9 DEF k
    <2>10. CASE ~ Unknown(r)
      <3> DEFINE t == IF "tag" \in r.parts THEN Reverse(r.tag) ELSE <<>>
      <3>1. RecordAt(pos) = <<pos + Len(b), t>>
        BY <2>8, <2>10
      <3>2. RecordAt(pos) # Refused /\ RecordAt(pos)[1] = pos + Len(b) /\ RecordAt(pos)[2] = t
        <4>1. Len(<<pos + Len(b), t>>) = 2 /\ Len(Refused) = 1
          BY DEF Refused
        <4> HIDE DEF t
        <4> QED
          BY <3>1, <4>1
      <3>3. /\ pos' = 4 + at[k + 1] /\ left' = left - 1 /\ step' = "tags"
            /\ parsed' = IF t = <<>> THEN parsed ELSE Append(parsed, t)
        <4> HIDE DEF t
        <4> QED
          BY <3>2, <2>6, <1>11, <1>1 DEF ParseTag
      <3>4. parsed' = tg[k + 1]
        <4>1. CASE "tag" \in r.parts
          <5>1. t = Reverse(r.tag) /\ t # <<>>
            BY <4>1, <2>2, ReverseTag DEF TagRecords
          <5> QED
            BY <4>1, <5>1, <3>3, <2>3, <1>7 DEF NextTags
        <4>2. CASE "tag" \notin r.parts
          BY <4>2, <3>3, <2>3, <1>7 DEF NextTags
        <4> QED
          BY <4>1, <4>2
      <3>5. \A i \in 1 .. k + 1 : ~ Unknown(rs[i])
        <4>1. \A i \in 1 .. k + 1 : i \in 1 .. k \/ i = k + 1
          BY <1>6
        <4> QED
          BY <4>1, <2>10, <1>7
      <3>6. AtTag(at, tg)'
        <4>1. /\ event' = event /\ data' = data /\ left' \in 0 .. n /\ n - left' = k + 1
              /\ pos' = 4 + at[k + 1] /\ parsed' = tg[k + 1]
          BY <1>1, <2>1, <3>3, <3>4
        <4>2. /\ TagData(event', data', at) /\ TagsRun(event'.records, tg)
              /\ TagsOf(event') = tg[Readable(event')] /\ Len(event'.records) = n
          BY <4>1, <1>7 DEF n
        <4> QED
          BY <4>1, <4>2, <3>5 DEF AtTag
      <3> QED
        BY <3>3, <3>6
    <2> QED
      BY <2>9, <2>10
  <1> QED
    BY <1>10, <1>11

LEMMA ParseInputKeeps ==
  ASSUME FrameInv, ParseInput
  PROVE  FrameInv'
  <1>1. /\ event' = event /\ slips' = slips /\ mishaps' = mishaps /\ step = "inputs"
        /\ data' = data /\ step' \in {"done", "inputs"}
    BY DEF ParseInput, Smooth, mishapVars
  <1>2. SUFFICES ASSUME Clean PROVE Reading'
    <2>1. event' \in Events /\ slips' \in Nat
      BY <1>1 DEF FrameInv
    <2>2. Clean' => Clean
      BY <1>1 DEF Clean
    <2> QED
      BY <2>1, <2>2 DEF FrameInv
  <1>3. InInputs
    BY <1>1, <1>2 DEF FrameInv, Reading
  <1> DEFINE rs == event.records
             n == Len(rs)
             k == n - left
  <1>4. /\ IsInputEvent(event) /\ data = Payload(event) /\ event.command = 44 /\ event.status = 0
        /\ rs \in Seq(InputRecords)
    BY <1>3 DEF InInputs, IsInputEvent
  <1>5. n \in Nat /\ DOMAIN rs = 1 .. n /\ \A i \in 1 .. n : rs[i].on \in {0, 1}
    <2> HIDE DEF rs
    <2>1. n \in Nat /\ DOMAIN rs = 1 .. n /\ \A i \in 1 .. n : rs[i] \in InputRecords
      BY <1>4
    <2> QED
      BY <2>1 DEF InputRecords
  <1>6. /\ left \in 0 .. n /\ pos = 8 * k + 8 /\ parsed \in Seq({0, 1}) /\ Len(parsed) = k
        /\ \A i \in 1 .. k : parsed[i] = rs[i].on
    BY <1>3 DEF InInputs
  <1>7. Len(data) = 8 * n + 8 /\ \A i \in 1 .. n : data[8 * i + 8] = rs[i].on
    BY <1>4, InputPayload DEF InputData
  <1>8. SUFFICES /\ step' = "inputs" => InInputs'
                 /\ step' = "done" => parsed' = [i \in DOMAIN rs |-> rs[i].on]
    <2>1. SeenBy(event) = [i \in DOMAIN rs |-> rs[i].on]
      BY <1>4 DEF SeenBy
    <2>2. step' = "done" => data' = Payload(event)' /\ parsed' = SeenBy(event)'
      <3> HIDE DEF rs
      <3> QED
        BY <1>1, <1>4, <1>8, <2>1
    <2>3. step' # "read" /\ step' # "header" /\ step' # "answered" /\ step' # "tags"
      BY <1>1
    <2> QED
      BY <1>8, <2>2, <2>3 DEF Reading, EventsAreRead
  <1>9. CASE left = 0
    <2>1. k = n
      BY <1>5, <1>9
    <2>2. step' = "done" /\ parsed' = parsed
      BY <1>9 DEF ParseInput
    <2> DEFINE seen == [i \in DOMAIN rs |-> rs[i].on]
    <2>3. seen \in Seq({0, 1}) /\ Len(seen) = n /\ \A i \in 1 .. n : seen[i] = rs[i].on
      <3> HIDE DEF n, rs
      <3> QED
        BY <1>5
    <2> HIDE DEF seen, n, k, rs
    <2>4. parsed = seen
      BY <2>1, <2>3, <1>6, SeqEqual
    <2> QED
      BY <2>2, <2>4 DEF seen
  <1>10. CASE left # 0
    <2> HIDE DEF rs, n
    <2>1. k \in Nat /\ k + 1 \in 1 .. n /\ n - (left - 1) = k + 1 /\ left - 1 \in 0 .. n
      BY <1>5, <1>6, <1>10
    <2> HIDE DEF k
    <2>2. pos + 8 = 8 * (k + 1) + 8 /\ pos + 8 <= 8 * n + 8
      BY <2>1, <1>5, <1>6
    <2>3. Has(pos + 8) /\ data[pos + 8] = rs[k + 1].on
      BY <2>1, <2>2, <1>7 DEF Has
    <2>4. data[pos + 8] \in {0, 1} /\ data[pos + 8] % 2 = rs[k + 1].on
      <3>1. \A x \in {0, 1} : x % 2 = x
        OBVIOUS
      <3>2. rs[k + 1].on \in {0, 1}
        BY <2>1, <1>5
      <3> QED
        BY <3>1, <3>2, <2>3
    <2> DEFINE on == rs[k + 1].on
    <2>5. /\ pos' = pos + 8 /\ left' = left - 1 /\ step' = "inputs" /\ parsed' = Append(parsed, on)
      BY <2>3, <2>4, <1>1, <1>10 DEF ParseInput
    <2>6. on \in {0, 1}
      BY <2>3, <2>4
    <2> HIDE DEF on
    <2>7. /\ parsed' \in Seq({0, 1}) /\ Len(parsed') = k + 1
          /\ \A i \in 1 .. k : parsed'[i] = parsed[i]
          /\ parsed'[k + 1] = on
      BY <2>1, <2>5, <2>6, <1>6, AppendProperties
    <2>8. \A i \in 1 .. k + 1 : parsed'[i] = rs[i].on
      <3>1. \A i \in 1 .. k + 1 : i \in 1 .. k \/ i = k + 1
        BY <2>1
      <3> QED
        BY <3>1, <2>7, <1>6 DEF on
    <2>9. pos' = 8 * (k + 1) + 8 /\ n - left' = k + 1 /\ left' \in 0 .. n
      BY <2>1, <2>2, <2>5
    <2>10. event' = event /\ Len(event'.records) = n /\ event'.records = rs
      BY <1>1 DEF n, rs
    <2>11. InInputs'
      <3>1. IsInputEvent(event') /\ data' = Payload(event')
        BY <2>10, <1>1, <1>4
      <3> QED
        BY <3>1, <2>7, <2>8, <2>9, <2>10 DEF InInputs
    <2> QED
      BY <2>5, <2>11
  <1> QED
    BY <1>9, <1>10

LEMMA AnswerKeeps ==
  ASSUME FrameInv, Answer
  PROVE  FrameInv'
  <1>1. /\ event' = event /\ slips' = slips /\ mishaps' = mishaps /\ step = "done"
        /\ step' = "answered" /\ parsed' = parsed /\ ack' = Frame(<<data[1], Status>>)
    BY DEF Answer, Smooth, mishapVars, parserVars
  <1>2. SUFFICES ASSUME Clean PROVE Reading'
    <2>1. event' \in Events /\ slips' \in Nat
      BY <1>1 DEF FrameInv
    <2>2. Clean' => Clean
      BY <1>1 DEF Clean
    <2> QED
      BY <2>1, <2>2 DEF FrameInv
  <1>3. event \in Events /\ data = Payload(event) /\ parsed = SeenBy(event)
    BY <1>1, <1>2 DEF FrameInv, Reading
  <1> DEFINE p == <<data[1], Status>>
  <1>4. data[1] = event.command /\ data[1] \in Byte
    BY <1>3, EventPayload
  <1>5. Status \in Byte
    BY DEF Status, Byte
  <1>6. p \in Payloads
    BY <1>4, <1>5 DEF Payloads, FrameLength
  <1>7. p[1] = event.command
    BY <1>4
  <1> HIDE DEF p
  <1>8. ParseResponse(Frame(p)) = p
    BY <1>6, FrameIsParsed
  <1>9. ack' = Frame(p)
    BY <1>1 DEF p
  <1>10. ParseResponse(ack')[1] = event.command
    BY <1>7, <1>8, <1>9
  <1> QED
    BY <1>1, <1>3, <1>10 DEF Reading, EventsAreRead

\* EventsAreRead, whatever the records, the types of the transponders and the
\* lengths of their numbers are, and whichever bits of a byte change: when at
\* most one byte of a frame has changed, and its length has not become smaller, or
\* the frame was cut.
THEOREM EventsRead == FrameSpec => [](Clean => EventsAreRead)
  <1>1. MishapInit /\ FrameInit => FrameInv
    <2> SUFFICES ASSUME MishapInit, FrameInit PROVE FrameInv
      OBVIOUS
    <2>1. event \in Events /\ slips \in Nat
      BY DEF MishapInit, FrameInit, Events
    <2>2. OnTheWay /\ step = "read"
      BY DEF FrameInit, OnTheWay
    <2> QED
      BY <2>1, <2>2 DEF FrameInv, Reading, EventsAreRead
  <1>2. FrameInv /\ [FrameNext]_<<mishapVars, frameVars>> => FrameInv'
    <2> SUFFICES ASSUME FrameInv, [FrameNext]_<<mishapVars, frameVars>> PROVE FrameInv'
      OBVIOUS
    <2>1. CASE Disturb
      BY <2>1, DisturbKeeps
    <2>2. CASE ReadFrame
      BY <2>2, ReadFrameKeeps
    <2>3. CASE ParseHeader
      BY <2>3, ParseHeaderKeeps
    <2>4. CASE ParseTag
      BY <2>4, ParseTagKeeps
    <2>5. CASE ParseInput
      BY <2>5, ParseInputKeeps
    <2>6. CASE Answer
      BY <2>6, AnswerKeeps
    <2>7. CASE UNCHANGED <<mishapVars, frameVars>>
      <3>1. /\ event' = event /\ stream' = stream /\ step' = step /\ data' = data /\ pos' = pos
            /\ left' = left /\ parsed' = parsed /\ ack' = ack /\ mishaps' = mishaps /\ slips' = slips
        BY <2>7 DEF mishapVars, frameVars, parserVars
      <3>2. InTags' <=> InTags
        BY <3>1 DEF InTags, AtTag, TagData
      <3>3. InInputs' <=> InInputs
        BY <3>1 DEF InInputs
      <3>4. (OnTheWay' <=> OnTheWay) /\ (EventsAreRead' <=> EventsAreRead) /\ (Clean' <=> Clean)
        BY <3>1 DEF OnTheWay, EventsAreRead, Clean
      <3> QED
        BY <3>1, <3>2, <3>3, <3>4 DEF FrameInv, Reading
    <2> QED
      BY <2>1, <2>2, <2>3, <2>4, <2>5, <2>6, <2>7 DEF FrameNext
  <1>3. FrameInv => (Clean => EventsAreRead)
    BY DEF FrameInv, Reading
  <1> QED
    BY <1>1, <1>2, <1>3, PTL DEF FrameSpec

=============================================================================
