---------------------------- MODULE CodecProofs ----------------------------
(* Proofs about Codec: the decoders stay in step with the encoders, and hand *)
(* over the packets that were sent.                                          *)
EXTENDS Codec, ListLemmas

----------------------------------------------------------------------------
(* Numbers as bytes.                                                       *)

\* The sizes: of a byte, a short, and a short's positive half.
LEMMA SizesAre ==
  /\ Base \in Nat /\ Base >= 2 /\ ShortValues \in Nat
  /\ ShortValues = Base * Base
  /\ 2 * (ShortValues \div 2) = ShortValues /\ Base <= ShortValues \div 2
<1>1. PICK h \in Nat : Base = 2 * h /\ h > 0
  <2>1. Base \in Nat /\ Base > 0 /\ Base % 2 = 0
    BY CodecAssumption
  <2> QED BY <2>1
<1>2. PICK v \in Nat : v = h * h /\ v >= h
  BY <1>1
<1>3. ShortValues = 4 * v
  BY <1>1, <1>2 DEF ShortValues
<1> QED BY <1>1, <1>2, <1>3 DEF ShortValues

\* Division with remainder.
LEMMA Division == ASSUME NEW b \in Nat, b > 0, NEW v \in Nat
  PROVE \E q \in Nat, r \in 0..(b-1) : v = q * b + r /\ v \div b = q /\ v % b = r
<1>1. v \div b \in Int /\ v \div b >= 0 /\ v % b \in 0..(b - 1)
  OBVIOUS
<1>2. v % b = v - b * (v \div b)
  OBVIOUS
<1>3. PICK q \in Nat, r \in 0..(b - 1) : q = v \div b /\ r = v % b
  BY <1>1
<1>4. r = v - b * q
  BY <1>2, <1>3
<1>5. v = q * b + r
  BY <1>4
<1> QED BY <1>3, <1>5

\* The function Shifted defines.
Shifts(v, n, f) == f = [i \in 0..n |-> IF i = 0 THEN v ELSE f[i - 1] \div Base]

\* Shifting is dividing.
LEMMA ShiftsAre ==
  ASSUME NEW v \in Nat, NEW n \in Nat
  PROVE  \E f \in [0..n -> Nat] : /\ Shifts(v, n, f) /\ f[n] = Shifted(v, n)
                                  /\ f[0] = v /\ \A i \in 1..n : f[i] = f[i - 1] \div Base
<1> DEFINE step == [i \in 1..n |-> [w \in Nat |-> w \div Base]]
<1>1. step \in [1..n -> [Nat -> Nat]]
  <2>1. \A w \in Nat : w \div Base \in Nat
    BY CodecAssumption
  <2> QED BY <2>1
<1>2. PICK f \in [0..n -> Nat] : f[0] = v /\ \A i \in 1..n : f[i] = step[i][f[i - 1]]
  <2> HIDE DEF step
  <2>1. PICK st \in [1..n -> [Nat -> Nat]] : st = step
    BY <1>1
  <2>2. \E f : StepsBy(Nat, n, v, st, f)
    BY Recursion
  <2> QED BY <2>1, <2>2 DEF StepsBy
<1>3. \A i \in 1..n : f[i] = f[i - 1] \div Base
  <2>1. ASSUME NEW i \in 1..n PROVE f[i] = f[i - 1] \div Base
    <3>1. i - 1 \in 0..n /\ f[i - 1] \in Nat
      BY <1>2
    <3>2. step[i] = [w \in Nat |-> w \div Base]
      OBVIOUS
    <3> HIDE DEF step
    <3>3. step[i][f[i - 1]] = f[i - 1] \div Base
      BY <3>1, <3>2
    <3> QED BY <1>2, <3>3
  <2> QED BY <2>1
<1> HIDE DEF step
<1>4. f = [i \in 0..n |-> IF i = 0 THEN v ELSE f[i - 1] \div Base]
  <2>1. f = [i \in 0..n |-> f[i]]
    BY <1>2
  <2>2. \A i \in 0..n : f[i] = IF i = 0 THEN v ELSE f[i - 1] \div Base
    BY <1>2, <1>3
  <2> QED BY <2>1, <2>2
<1>5. Shifts(v, n, f)
  BY <1>4 DEF Shifts
<1> DEFINE g == CHOOSE h : Shifts(v, n, h)
<1>6. Shifts(v, n, g)
  BY <1>5
<1>7. Shifted(v, n) = g[n]
  BY DEF Shifted, Shifts
<1> HIDE DEF g
<1>8. g[0] = v /\ \A i \in 1..n : g[i] = g[i - 1] \div Base
  BY <1>6 DEF Shifts
<1>9. \A i \in 0..n : f[i] = g[i]
  <2>1. SameSteps(n, f, g)
    BY <1>2, <1>3, <1>8 DEF SameSteps
  <2> QED BY <2>1, Agreement DEF SameUpTo
<1> QED BY <1>2, <1>3, <1>5, <1>7, <1>9

\* Byte by byte.
LEMMA ShiftedIs ==
  ASSUME NEW v \in Nat, NEW n \in Nat
  PROVE  /\ Shifted(v, n) \in Nat
         /\ Shifted(v, 0) = v
         /\ Shifted(v, n + 1) = Shifted(v, n) \div Base
<1>1. PICK f \in [0..n -> Nat] :
        f[n] = Shifted(v, n) /\ f[0] = v /\ \A i \in 1..n : f[i] = f[i - 1] \div Base
  BY ShiftsAre
<1>2. PICK g \in [0..(n + 1) -> Nat] :
        /\ g[n + 1] = Shifted(v, n + 1) /\ g[0] = v
        /\ \A i \in 1..(n + 1) : g[i] = g[i - 1] \div Base
  <2>1. PICK m \in Nat : m = n + 1
    OBVIOUS
  <2>2. \E g \in [0..m -> Nat] : /\ g[m] = Shifted(v, m) /\ g[0] = v
                                 /\ \A i \in 1..m : g[i] = g[i - 1] \div Base
    BY ShiftsAre
  <2> QED BY <2>1, <2>2
<1>3. \A i \in 1..n : g[i] = g[i - 1] \div Base
  BY <1>2
<1>4. \A i \in 0..n : f[i] = g[i]
  <2>1. SameSteps(n, f, g)
    BY <1>1, <1>2, <1>3 DEF SameSteps
  <2> QED BY <2>1, Agreement DEF SameUpTo
<1>5. n + 1 \in 1..(n + 1) /\ (n + 1) - 1 = n /\ n \in 0..n
  OBVIOUS
<1>6. Shifted(v, n + 1) = Shifted(v, n) \div Base
  BY <1>1, <1>2, <1>4, <1>5
<1>7. Shifted(v, 0) = v
  <2>1. PICK h \in [0..0 -> Nat] : h[0] = Shifted(v, 0) /\ h[0] = v
    BY ShiftsAre
  <2> QED BY <2>1
<1> QED BY <1>1, <1>5, <1>6, <1>7

\* A number in n bytes.
LEMMA BigEndianIs ==
  ASSUME NEW v \in Nat, NEW n \in Nat
  PROVE  /\ BigEndian(v, n) \in Seq(Bytes)
         /\ Len(BigEndian(v, n)) = n
         /\ \A i \in 1..n : BigEndian(v, n)[i] = Shifted(v, n - i) % Base
<1>1. \A i \in 1..n : Shifted(v, n - i) % Base \in Bytes
  <2> SUFFICES ASSUME NEW i \in 1..n PROVE Shifted(v, n - i) % Base \in Bytes
    OBVIOUS
  <2>1. n - i \in Nat
    OBVIOUS
  <2>2. Shifted(v, n - i) \in Nat
    BY <2>1, ShiftedIs
  <2> QED BY <2>2, CodecAssumption DEF Bytes
<1>2. BigEndian(v, n) \in [1..n -> Bytes]
  BY <1>1 DEF BigEndian
<1> QED BY <1>2 DEF BigEndian

\* A list of bytes as a number, byte by byte.
LEMMA ValuesAre ==
  ASSUME NEW s \in Seq(Bytes)
  PROVE  \E f \in [0..Len(s) -> Nat] :
           /\ f[Len(s)] = FromBigEndian(s) /\ f[0] = 0
           /\ \A i \in 1..Len(s) : f[i] = f[i - 1] * Base + s[i]
<1> DEFINE n == Len(s)
           Values(f) == f = [i \in 0..n |-> IF i = 0 THEN 0 ELSE f[i - 1] * Base + s[i]]
           step == [i \in 1..n |-> [w \in Nat |-> w * Base + s[i]]]
<1>1. n \in Nat /\ \A i \in 1..n : s[i] \in Nat
  <2>1. n \in Nat /\ \A i \in 1..n : s[i] \in Bytes
    BY LenProperties, ElementOfSeq
  <2> QED BY <2>1 DEF Bytes
<1>2. step \in [1..n -> [Nat -> Nat]]
  <2>1. \A i \in 1..n, w \in Nat : w * Base + s[i] \in Nat
    BY <1>1, CodecAssumption
  <2> QED BY <2>1
<1>3. PICK f \in [0..n -> Nat] : f[0] = 0 /\ \A i \in 1..n : f[i] = step[i][f[i - 1]]
  <2> HIDE DEF step, n
  <2>1. PICK st \in [1..n -> [Nat -> Nat]] : st = step
    BY <1>2
  <2>2. \E f : StepsBy(Nat, n, 0, st, f)
    BY <1>1, Recursion
  <2> QED BY <2>1, <2>2 DEF StepsBy
<1>4. \A i \in 1..n : f[i] = f[i - 1] * Base + s[i]
  <2>1. ASSUME NEW i \in 1..n PROVE f[i] = f[i - 1] * Base + s[i]
    <3>1. step[i] = [w \in Nat |-> w * Base + s[i]]
      OBVIOUS
    <3> HIDE DEF step
    <3>2. i - 1 \in 0..n
      BY <1>1
    <3>3. step[i][f[i - 1]] = f[i - 1] * Base + s[i]
      BY <3>1, <3>2
    <3> QED BY <1>3, <3>3
  <2> QED BY <2>1
<1> HIDE DEF step
<1>5. Values(f)
  <2>1. f = [i \in 0..n |-> f[i]]
    BY <1>3
  <2>2. \A i \in 0..n : f[i] = IF i = 0 THEN 0 ELSE f[i - 1] * Base + s[i]
    BY <1>1, <1>3, <1>4
  <2> QED BY <2>1, <2>2
<1> DEFINE g == CHOOSE h : Values(h)
<1>6. Values(g)
  <2> HIDE DEF Values
  <2> QED BY <1>5
<1>7. FromBigEndian(s) = g[n]
  BY DEF FromBigEndian
<1> HIDE DEF g
<1>8. g[0] = 0 /\ \A i \in 1..n : g[i] = g[i - 1] * Base + s[i]
  BY <1>1, <1>6
<1>9. \A i \in 0..n : f[i] = g[i]
  <2> HIDE DEF n, Values
  <2>1. SameSteps(n, f, g)
    BY <1>3, <1>4, <1>8 DEF SameSteps
  <2>2. n \in Nat
    BY <1>1
  <2>3. SameUpTo(n, f, g)
    BY <2>1, <2>2, Agreement, Zenon
  <2> QED BY <2>3, Zenon DEF SameUpTo
<1> QED BY <1>1, <1>3, <1>4, <1>7, <1>9

\* The value of a short.
LEMMA ShortIs ==
  ASSUME NEW s \in Seq(Bytes), Len(s) = 2
  PROVE  FromBigEndian(s) = s[1] * Base + s[2]
<1>1. PICK f \in [0..2 -> Nat] :
        /\ f[2] = FromBigEndian(s) /\ f[0] = 0
        /\ \A i \in 1..2 : f[i] = f[i - 1] * Base + s[i]
  BY ValuesAre
<1>2. f[1] = 0 * Base + s[1] /\ f[2] = f[1] * Base + s[2]
  <2>1. 1 \in 1..2 /\ 2 \in 1..2 /\ 1 - 1 = 0 /\ 2 - 1 = 1
    OBVIOUS
  <2> QED BY <1>1, <2>1
<1>3. s[1] \in Nat /\ 0 * Base + s[1] = s[1]
  <2>1. 1 \in 1..Len(s)
    OBVIOUS
  <2>2. s[1] \in Bytes
    BY <2>1, ElementOfSeq
  <2> QED BY <2>2, SizesAre DEF Bytes
<1> QED BY <1>1, <1>2, <1>3

\* A number is read back from its bytes, if they are enough.
LEMMA RoundTrip ==
  ASSUME NEW v \in Nat, NEW n \in Nat, Shifted(v, n) = 0
  PROVE  FromBigEndian(BigEndian(v, n)) = v
<1> DEFINE s == BigEndian(v, n)
<1>1. s \in Seq(Bytes) /\ Len(s) = n /\ \A i \in 1..n : s[i] = Shifted(v, n - i) % Base
  BY BigEndianIs
<1> HIDE DEF s
<1>2. PICK f \in [0..n -> Nat] :
        /\ f[n] = FromBigEndian(s) /\ f[0] = 0
        /\ \A i \in 1..n : f[i] = f[i - 1] * Base + s[i]
  BY <1>1, ValuesAre
<1>3. PICK g : g = [i \in 0..n |-> Shifted(v, n - i)]
  OBVIOUS
<1>4. ASSUME NEW i \in 1..n, f[i - 1] = g[i - 1] PROVE f[i] = g[i]
  <2>1. PICK m \in Nat : m = n - i
    OBVIOUS
  <2>2. g[i] = Shifted(v, m) /\ g[i - 1] = Shifted(v, m + 1)
    <3>1. i - 1 \in 0..n /\ n - (i - 1) = m + 1
      BY <2>1
    <3> QED BY <1>3, <2>1, <3>1
  <2>3. PICK w \in Nat : w = Shifted(v, m) /\ Shifted(v, m + 1) = w \div Base
    <3>1. Shifted(v, m) \in Nat /\ Shifted(v, m + 1) = Shifted(v, m) \div Base
      BY ShiftedIs, Zenon
    <3> QED BY <3>1, Zenon
  <2>4. f[i] = (w \div Base) * Base + (w % Base)
    BY <1>1, <1>2, <1>4, <2>1, <2>2, <2>3
  <2>5. w = (w \div Base) * Base + (w % Base)
    BY Division, CodecAssumption
  <2> QED BY <2>2, <2>3, <2>4, <2>5
<1>5. f[0] = g[0]
  BY <1>2, <1>3
<1>6. f[n] = g[n]
  <2>1. SameSteps(n, f, g)
    BY <1>4, <1>5 DEF SameSteps
  <2> QED BY <2>1, Agreement DEF SameUpTo
<1>7. g[n] = v
  BY <1>3, ShiftedIs
<1> QED BY <1>2, <1>6, <1>7 DEF s

\* Two bytes reversed.
LEMMA TwoReversed ==
  ASSUME NEW t \in Seq(Bytes), Len(t) = 2
  PROVE  /\ Reverse(t) \in Seq(Bytes) /\ Len(Reverse(t)) = 2
         /\ Reverse(t)[1] = t[2] /\ Reverse(t)[2] = t[1]
<1> DEFINE r == Reverse(t)
<1>1. r = [i \in 1..2 |-> t[(2 - i) + 1]]
  BY DEF Reverse
<1>2. t[1] \in Bytes /\ t[2] \in Bytes
  BY ElementOfSeq
<1> HIDE DEF r
<1>3. r[1] = t[2] /\ r[2] = t[1]
  BY <1>1
<1>4. r \in [1..2 -> Bytes]
  BY <1>1, <1>2
<1> QED BY <1>3, <1>4 DEF r

\* A short in two bytes.
LEMMA ShortBytes ==
  ASSUME NEW v \in 0..(ShortValues - 1)
  PROVE  /\ BigEndian(v, 2) \in Seq(Bytes) /\ Len(BigEndian(v, 2)) = 2
         /\ LittleEndian(v, 2) \in Seq(Bytes) /\ Len(LittleEndian(v, 2)) = 2
         /\ \E h, l \in Bytes : /\ v = h * Base + l
                                /\ BigEndian(v, 2)[1] = h /\ BigEndian(v, 2)[2] = l
                                /\ LittleEndian(v, 2)[1] = l /\ LittleEndian(v, 2)[2] = h
<1> DEFINE s == BigEndian(v, 2)  t == LittleEndian(v, 2)
<1>1. v \in Nat /\ v < Base * Base
  BY SizesAre
<1>2. PICK h \in Nat, l \in 0..(Base - 1) :
        v = h * Base + l /\ v \div Base = h /\ v % Base = l
  BY <1>1, Division, SizesAre
<1>3. h < Base
  <2>1. SUFFICES ASSUME h >= Base PROVE FALSE
    BY <1>2, SizesAre
  <2>2. h * Base >= Base * Base
    BY <1>2, <2>1, SizesAre
  <2> QED BY <1>1, <1>2, <2>2, SizesAre
<1>4. s \in Seq(Bytes) /\ Len(s) = 2 /\ s[1] = h /\ s[2] = l
  <2>1. s \in Seq(Bytes) /\ Len(s) = 2 /\ \A i \in 1..2 : s[i] = Shifted(v, 2 - i) % Base
    BY <1>1, BigEndianIs
  <2>2. Shifted(v, 0) = v /\ Shifted(v, 1) = h
    <3>1. Shifted(v, 0) = v /\ Shifted(v, 0 + 1) = Shifted(v, 0) \div Base
      BY <1>1, ShiftedIs
    <3> QED BY <1>2, <3>1
  <2>3. h % Base = h
    BY <1>2, <1>3, SizesAre
  <2> HIDE DEF s
  <2>4. s[1] = Shifted(v, 1) % Base /\ s[2] = Shifted(v, 0) % Base
    BY <2>1
  <2> QED BY <1>2, <2>1, <2>2, <2>3, <2>4
<1> HIDE DEF s
<1>5. t \in Seq(Bytes) /\ Len(t) = 2 /\ t[1] = l /\ t[2] = h
  <2>1. t = Reverse(s)
    BY DEF LittleEndian, s
  <2> QED BY <1>4, <2>1, TwoReversed
<1>6. h \in Bytes /\ l \in Bytes
  BY <1>2, <1>3, SizesAre DEF Bytes
<1> HIDE DEF t
<1> QED BY <1>2, <1>4, <1>5, <1>6 DEF s, t

\* The cast to short.
LEMMA AsShortIs ==
  ASSUME NEW v \in 0..(ShortValues - 1)
  PROVE  /\ AsShort(v) \in (-(ShortValues \div 2))..((ShortValues \div 2) - 1)
         /\ AsShort(v) % ShortValues = v
         /\ AsShort(v) >= 0 <=> v < ShortValues \div 2
         /\ AsShort(v) >= 0 => AsShort(v) = v
         /\ AsShort(v) = -1 => v = ShortValues - 1
<1>1. v % ShortValues = v
  BY SizesAre
<1>2. AsShort(v) = IF v >= ShortValues \div 2 THEN v - ShortValues ELSE v
  BY <1>1 DEF AsShort
<1>3. (v - ShortValues) % ShortValues = v
  BY SizesAre
<1> QED BY <1>1, <1>2, <1>3, SizesAre

----------------------------------------------------------------------------
(* What the readers make of a short's bytes.                               *)

\* The first two bytes.
LEMMA FirstTwo ==
  ASSUME NEW s \in Seq(Bytes), Len(s) >= 2
  PROVE  /\ SubSeq(s, 1, 2) \in Seq(Bytes) /\ Len(SubSeq(s, 1, 2)) = 2
         /\ SubSeq(s, 1, 2)[1] = s[1] /\ SubSeq(s, 1, 2)[2] = s[2]
<1>1. \A i \in 1..2 : s[i] \in Bytes
  BY ElementOfSeq
<1> DEFINE t == SubSeq(s, 1, 2)
<1>2. /\ t \in Seq(Bytes) /\ Len(t) = IF 1 <= 2 THEN 2 - 1 + 1 ELSE 0
      /\ \A i \in 1..(2 - 1 + 1) : t[i] = s[1 + i - 1]
  <2> HIDE DEF t
  <2>1. 1 \in Int /\ 2 \in Int
    OBVIOUS
  <2> QED BY <1>1, <2>1, SubSeqProperties DEF t
<1> HIDE DEF t
<1>3. 1 \in 1..(2 - 1 + 1) /\ 2 \in 1..(2 - 1 + 1) /\ 1 + 1 - 1 = 1 /\ 1 + 2 - 1 = 2
  OBVIOUS
<1>4. Len(t) = 2 /\ t[1] = s[1] /\ t[2] = s[2]
  BY <1>2, <1>3
<1> QED BY <1>2, <1>4 DEF t

\* A byte as a signed byte, and back.
LEMMA AsByteIs ==
  ASSUME NEW b \in Bytes
  PROVE  AsByte(b) \in Int /\ AsByte(b) % Base = b /\ AsByte(0) = 0
<1>1. Base \in Nat /\ Base >= 2 /\ b \in Nat /\ b < Base
  BY SizesAre DEF Bytes
<1>2. (b - Base) % Base = b /\ b % Base = b
  BY <1>1
<1>3. ~(0 >= Base \div 2)
  BY <1>1
<1> QED BY <1>1, <1>2, <1>3 DEF AsByte

\* Each reader reads what the writer of its end of the connection wrote.
LEMMA ReadsWhatWasWritten ==
  ASSUME NEW s \in Seq(Bytes), Len(s) >= 2, NEW v \in 0..(ShortValues - 1)
  PROVE  /\ SubSeq(s, 1, 2) = BigEndian(v, 2) => ReadShort(s) = AsShort(v)
         /\ SubSeq(s, 1, 2) = LittleEndian(v, 2) =>
              /\ ReadInt16(s) = AsShort(v)
              /\ ReadUInt16(s) = v
              /\ v < Base => LittleReadShort(s) = v
<1> DEFINE t == SubSeq(s, 1, 2)
<1>1. t \in Seq(Bytes) /\ Len(t) = 2 /\ t[1] = s[1] /\ t[2] = s[2]
  BY FirstTwo
<1>2. PICK h \in Bytes, l \in Bytes :
        /\ v = h * Base + l
        /\ BigEndian(v, 2)[1] = h /\ BigEndian(v, 2)[2] = l
        /\ LittleEndian(v, 2)[1] = l /\ LittleEndian(v, 2)[2] = h
  BY ShortBytes
<1>3. FromBigEndian(t) = t[1] * Base + t[2]
  <2> HIDE DEF t
  <2> QED BY <1>1, ShortIs
<1>4. FromBigEndian(Reverse(t)) = t[2] * Base + t[1]
  <2> HIDE DEF t
  <2>1. PICK r \in Seq(Bytes) : r = Reverse(t) /\ Len(r) = 2 /\ r[1] = t[2] /\ r[2] = t[1]
    BY <1>1, TwoReversed
  <2>2. FromBigEndian(r) = r[1] * Base + r[2]
    BY <2>1, ShortIs
  <2> QED BY <2>1, <2>2
<1>5. ASSUME t = BigEndian(v, 2) PROVE ReadShort(s) = AsShort(v)
  <2>1. FromBigEndian(t) = v
    <3> HIDE DEF t
    <3> QED BY <1>2, <1>3, <1>5
  <2> QED BY <2>1 DEF ReadShort
<1>6. ASSUME t = LittleEndian(v, 2)
      PROVE  /\ ReadInt16(s) = AsShort(v) /\ ReadUInt16(s) = v
             /\ v < Base => LittleReadShort(s) = v
  <2>1. t[1] = l /\ t[2] = h
    <3> HIDE DEF t
    <3> QED BY <1>2, <1>6
  <2>2. FromBigEndian(Reverse(t)) = v
    <3> HIDE DEF t
    <3> QED BY <1>2, <1>4, <2>1
  <2>3. ASSUME v < Base PROVE LittleReadShort(s) = v
    <3>1. /\ Base \in Nat /\ Base >= 2 /\ ShortValues \in Nat /\ Base <= ShortValues \div 2
          /\ h \in Nat /\ l \in Nat /\ l < Base
      BY SizesAre DEF Bytes
    <3>2. h = 0
      <4>1. SUFFICES ASSUME h >= 1 PROVE FALSE
        BY <3>1
      <4>2. h * Base >= Base
        BY <3>1, <4>1
      <4> QED BY <1>2, <2>3, <3>1, <4>2
    <3>3. l = v
      BY <1>2, <3>1, <3>2
    <3>4. s[1] = l /\ s[2] = 0
      <4> HIDE DEF t
      <4> QED BY <1>1, <2>1, <3>2
    <3>5. AsByte(l) \in Int /\ AsByte(l) % Base = l /\ AsByte(0) = 0
      BY AsByteIs
    <3>6. (0 * Base) % ShortValues = 0
      BY <3>1, SizesAre
    <3>7. (((AsByte(s[2]) * Base) % ShortValues) + AsByte(s[1])) % Base = l
      BY <3>4, <3>5, <3>6
    <3>8. LittleReadShort(s) = AsShort(l)
      BY <3>7 DEF LittleReadShort
    <3>9. AsShort(l) = l
      <4>1. l < ShortValues \div 2
        BY <2>3, <3>1, <3>3
      <4> QED BY <3>3, <4>1, AsShortIs
    <3> QED BY <3>3, <3>8, <3>9
  <2> QED BY <2>2, <2>3 DEF ReadInt16, ReadUInt16
<1> QED BY <1>5, <1>6

\* Division with remainder, of any number.
LEMMA IntDivision == ASSUME NEW b \in Nat, b > 0, NEW v \in Int
  PROVE \E q \in Int, r \in 0..(b - 1) : r = v % b /\ v = q * b + r
<1>1. v \div b \in Int /\ v % b \in 0..(b - 1)
  OBVIOUS
<1>2. v % b = v - b * (v \div b)
  OBVIOUS
<1>3. PICK q \in Int, r \in 0..(b - 1) : q = v \div b /\ r = v % b
  BY <1>1
<1>4. r = v - b * q
  BY <1>2, <1>3
<1>5. v = q * b + r
  BY <1>4
<1> QED BY <1>3, <1>5

\* A remainder is known by its size.
LEMMA RemainderIs ==
  ASSUME NEW b \in Nat, b > 0, NEW q \in Int, NEW r \in 0..(b - 1), NEW v \in Int, v = q * b + r
  PROVE  v % b = r
<1>1. PICK d \in Int, e \in 0..(b - 1) : e = v % b /\ v = d * b + e
  BY IntDivision
<1>2. PICK x \in Int : x = q - d
  OBVIOUS
<1>3. x * b = q * b - d * b
  BY <1>2
<1>4. x * b = e - r
  BY <1>1, <1>3
<1>5. x * b < b /\ x * b > -b
  BY <1>1, <1>4
<1>6. ~(x >= 1)
  <2> SUFFICES ASSUME x >= 1 PROVE FALSE
    OBVIOUS
  <2>1. x * b >= b
    BY <1>2
  <2> QED BY <1>2, <1>5, <2>1
<1>7. ~(x <= -1)
  <2> SUFFICES ASSUME x <= -1 PROVE FALSE
    OBVIOUS
  <2>1. x * b <= -b
    BY <1>2
  <2> QED BY <1>2, <1>5, <2>1
<1>8. x = 0
  BY <1>2, <1>6, <1>7
<1> QED BY <1>1, <1>2, <1>4, <1>8

\* readShort of LittleEndianByteBufUtil returns the first byte and nothing else.
LEMMA LowByteRead ==
  ASSUME NEW s \in Seq(Bytes), Len(s) >= 2
  PROVE  LittleReadShort(s) = s[1]
<1>1. PICK n \in Nat : n = Base /\ n >= 2 /\ ShortValues = n * n /\ n <= ShortValues \div 2
  BY SizesAre
<1>2. PICK l \in Bytes, h \in Bytes : l = s[1] /\ h = s[2]
  BY ElementOfSeq
<1>3. PICK a \in Int, b \in Int : a = AsByte(l) /\ b = AsByte(h) /\ a % n = l
  BY <1>1, AsByteIs
<1>4. l \in 0..(n - 1)
  BY <1>1 DEF Bytes
<1>5. PICK x \in Int : (b * n) % ShortValues = x * n
  <2>1. PICK v \in Int, w \in Nat : v = b * n /\ w = n * n /\ w > 0
    BY <1>1
  <2>2. PICK q \in Int, r \in 0..(w - 1) : r = v % w /\ v = q * w + r
    BY <2>1, IntDivision
  <2>3. r = b * n - q * (n * n)
    BY <2>1, <2>2
  <2>4. b * n - q * (n * n) = (b - q * n) * n
    OBVIOUS
  <2>5. PICK x \in Int : x = b - q * n
    OBVIOUS
  <2>6. v % w = x * n
    BY <2>2, <2>3, <2>4, <2>5
  <2> QED BY <1>1, <2>1, <2>6
<1>6. PICK d \in Int : a = d * n + l
  <2>1. \E d \in Int, r \in 0..(n - 1) : r = a % n /\ a = d * n + r
    BY <1>1, IntDivision
  <2> QED BY <1>3, <2>1
<1>7. (x * n + a) % n = l
  <2>1. PICK q \in Int, v \in Int : q = x + d /\ v = x * n + a
    OBVIOUS
  <2>2. q * n = x * n + d * n
    BY <2>1
  <2>3. v = q * n + l
    BY <1>4, <1>6, <2>1, <2>2
  <2> QED BY <1>1, <1>4, <2>1, <2>3, RemainderIs
<1>8. LittleReadShort(s) = AsShort(l)
  BY <1>1, <1>2, <1>3, <1>5, <1>7 DEF LittleReadShort
<1>9. AsShort(l) = l
  <2>1. l \in 0..(ShortValues - 1) /\ l < ShortValues \div 2
    BY <1>1, <1>4, SizesAre
  <2> QED BY <2>1, AsShortIs
<1> QED BY <1>2, <1>8, <1>9

\* The length field of a connection, and that it says the length.
LEMMA LengthFieldIs ==
  ASSUME kind \in Kinds, NEW v \in 0..(ShortValues - 1)
  PROVE  /\ LengthField(v) \in Seq(Bytes) /\ Len(LengthField(v)) = 2
         /\ \A w \in 0..(ShortValues - 1) : LengthField(w) = LengthField(v) => w = v
<1>1. ASSUME NEW w \in 0..(ShortValues - 1) PROVE w % ShortValues = w
  BY SizesAre
<1>2. LengthField(v) \in Seq(Bytes) /\ Len(LengthField(v)) = 2
  BY <1>1, ShortBytes DEF LengthField
<1>3. ASSUME NEW w \in 0..(ShortValues - 1), LengthField(w) = LengthField(v) PROVE w = v
  <2>1. BigEndian(w, 2) = BigEndian(v, 2) \/ LittleEndian(w, 2) = LittleEndian(v, 2)
    BY <1>1, <1>3 DEF LengthField
  <2>2. PICK h \in Bytes, l \in Bytes :
          /\ v = h * Base + l
          /\ BigEndian(v, 2)[1] = h /\ BigEndian(v, 2)[2] = l
          /\ LittleEndian(v, 2)[1] = l /\ LittleEndian(v, 2)[2] = h
    BY ShortBytes
  <2>3. PICK g \in Bytes, k \in Bytes :
          /\ w = g * Base + k
          /\ BigEndian(w, 2)[1] = g /\ BigEndian(w, 2)[2] = k
          /\ LittleEndian(w, 2)[1] = k /\ LittleEndian(w, 2)[2] = g
    BY ShortBytes
  <2> QED BY <2>1, <2>2, <2>3
<1> QED BY <1>2, <1>3

----------------------------------------------------------------------------
(* Every variable holds a value of its kind, whatever the decoders read.    *)

\* A number in n bytes, least first.
LEMMA LittleEndianIs ==
  ASSUME NEW v \in Nat
  PROVE  LittleEndian(v, 2) \in Seq(Bytes) /\ Len(LittleEndian(v, 2)) = 2
<1>1. PICK t \in Seq(Bytes) : t = BigEndian(v, 2) /\ Len(t) = 2
  BY BigEndianIs
<1>2. Reverse(t) \in Seq(Bytes) /\ Len(Reverse(t)) = 2
  BY <1>1, TwoReversed
<1> QED BY <1>1, <1>2 DEF LittleEndian

\* A part of a list of bytes.
LEMMA PartIs ==
  ASSUME NEW s \in Seq(Bytes), NEW m \in Nat, m >= 1, NEW n \in Nat, n <= Len(s)
  PROVE  /\ SubSeq(s, m, n) \in Seq(Bytes)
         /\ m <= n + 1 => Len(SubSeq(s, m, n)) = n + 1 - m
         /\ \A i \in 1..(n + 1 - m) : SubSeq(s, m, n)[i] = s[m + i - 1]
<1>1. m \in Int /\ n \in Int /\ \A i \in m..n : s[i] \in Bytes
  <2>1. \A i \in m..n : i \in 1..Len(s)
    BY LenProperties
  <2> QED BY <2>1, ElementOfSeq
<1> DEFINE t == SubSeq(s, m, n)
<1>2. /\ t \in Seq(Bytes) /\ Len(t) = IF m <= n THEN n - m + 1 ELSE 0
      /\ \A i \in 1..(n - m + 1) : t[i] = s[m + i - 1]
  <2> HIDE DEF t
  <2> QED BY <1>1, SubSeqProperties DEF t
<1> HIDE DEF t
<1>3. n - m + 1 = n + 1 - m
  OBVIOUS
<1>4. m <= n + 1 => Len(t) = n + 1 - m
  BY <1>2
<1> QED BY <1>2, <1>3, <1>4 DEF t

\* What the decoders produce is a packet.
LEMMA NumbersAre ==
  ASSUME NEW s \in Seq(Bytes)
  PROVE  /\ FromBigEndian(s) \in Nat
         /\ Len(s) >= 2 => LittleReadShort(s) \in Int
         /\ Len(s) >= 2 => ReadUInt16(s) \in Nat
<1>1. FromBigEndian(s) \in Nat
  <2>1. PICK f \in [0..Len(s) -> Nat] : f[Len(s)] = FromBigEndian(s)
    BY ValuesAre
  <2>2. Len(s) \in 0..Len(s)
    BY LenProperties
  <2> QED BY <2>1, <2>2
<1>2. ASSUME Len(s) >= 2 PROVE LittleReadShort(s) \in Int
  <2>1. AsByte(s[1]) \in Int /\ AsByte(s[2]) \in Int
    <3>1. s[1] \in Bytes /\ s[2] \in Bytes
      <4>1. 1 \in 1..Len(s) /\ 2 \in 1..Len(s)
        BY <1>2, LenProperties
      <4> QED BY <4>1, ElementOfSeq
    <3> QED BY <3>1, AsByteIs
  <2>2. PICK a \in Int, b \in Int : a = AsByte(s[1]) /\ b = AsByte(s[2])
    BY <2>1
  <2>3. b * Base \in Int
    BY SizesAre
  <2>4. (b * Base) % ShortValues \in Int
    BY <2>3, SizesAre
  <2>5. (((b * Base) % ShortValues) + a) % Base \in 0..(Base - 1)
    BY <2>4, SizesAre
  <2>6. PICK v \in 0..(ShortValues - 1) : v = (((b * Base) % ShortValues) + a) % Base
    BY <2>5, SizesAre
  <2>7. AsShort(v) \in Int
    BY AsShortIs, SizesAre
  <2> QED BY <2>2, <2>6, <2>7 DEF LittleReadShort
<1>3. ASSUME Len(s) >= 2 PROVE ReadUInt16(s) \in Nat
  <2>1. PICK t \in Seq(Bytes) : t = SubSeq(s, 1, 2) /\ Len(t) = 2
    BY <1>3, FirstTwo
  <2>2. PICK r \in Seq(Bytes) : r = Reverse(t) /\ Len(r) = 2 /\ r[1] = t[2] /\ r[2] = t[1]
    BY <2>1, TwoReversed
  <2>3. FromBigEndian(r) = r[1] * Base + r[2] /\ r[1] \in Bytes /\ r[2] \in Bytes
    <3>1. 1 \in 1..Len(r) /\ 2 \in 1..Len(r)
      BY <2>2
    <3> QED BY <2>2, <3>1, ShortIs, ElementOfSeq
  <2> QED BY <2>1, <2>2, <2>3, SizesAre DEF ReadUInt16, Bytes
<1> QED BY <1>1, <1>2, <1>3

\* Whatever two bytes are read as a length are a signed short.
LEMMA LengthsAre ==
  ASSUME NEW s \in Seq(Bytes), Len(s) >= 2
  PROVE  /\ ReadShort(s) \in (-(ShortValues \div 2))..((ShortValues \div 2) - 1)
         /\ LittleReadShort(s) \in (-(ShortValues \div 2))..((ShortValues \div 2) - 1)
<1>1. PICK n \in Nat : n = Base /\ n >= 2 /\ ShortValues = n * n /\ n <= ShortValues \div 2
  BY SizesAre
<1>2. PICK l \in Bytes, h \in Bytes : l = s[1] /\ h = s[2]
  BY ElementOfSeq
<1>3. l \in 0..(n - 1) /\ h \in 0..(n - 1)
  BY <1>1 DEF Bytes
<1>4. LittleReadShort(s) \in (-(ShortValues \div 2))..((ShortValues \div 2) - 1)
  <2>1. LittleReadShort(s) = l
    BY <1>2, LowByteRead
  <2>2. l \in 0..(ShortValues - 1) /\ l < ShortValues \div 2
    BY <1>1, <1>3, SizesAre
  <2> QED BY <2>1, <2>2, SizesAre
<1>5. ReadShort(s) \in (-(ShortValues \div 2))..((ShortValues \div 2) - 1)
  <2>1. PICK t \in Seq(Bytes) : t = SubSeq(s, 1, 2) /\ Len(t) = 2 /\ t[1] = l /\ t[2] = h
    BY <1>2, FirstTwo
  <2>2. FromBigEndian(t) = l * n + h
    BY <1>1, <2>1, ShortIs
  <2>3. l * n + h \in 0..(ShortValues - 1)
    <3>1. l * n <= (n - 1) * n
      BY <1>1, <1>3
    <3>2. (n - 1) * n = n * n - n
      OBVIOUS
    <3>3. PICK a \in Nat, b \in Nat : a = l * n /\ b = n * n
      BY <1>3
    <3>4. a + h < b
      BY <1>3, <3>1, <3>2, <3>3
    <3> QED BY <1>1, <1>3, <3>3, <3>4
  <2>4. PICK v \in 0..(ShortValues - 1) : v = l * n + h
    BY <2>3
  <2>5. AsShort(v) \in (-(ShortValues \div 2))..((ShortValues \div 2) - 1)
    BY AsShortIs
  <2> QED BY <2>1, <2>2, <2>4, <2>5 DEF ReadShort
<1> QED BY <1>4, <1>5

\* The encoders produce bytes.
LEMMA BytesAre ==
  ASSUME NEW k \in Kinds, NEW p \in Packets[k]
  PROVE  /\ MessageBytes(p) \in Seq(Bytes)
         /\ ResponseBytes(p) \in Seq(Bytes)
         /\ \A buffered : FlattenSeq(buffered) \in Seq(Bytes) =>
              RequestBytes(p, buffered) \in Seq(Bytes)
<1>1. p.code \in Nat /\ p.bytes \in Seq(Bytes) /\ Len(p.bytes) \in Nat
  <2>1. p \in [code : Nat, bytes : Seq(Bytes)]
    BY CodecAssumption
  <2> QED BY <2>1, LenProperties
<1>2. HeaderLength \in Nat /\ HeaderLength >= 2
  BY CodecAssumption
<1>3. \A v \in Nat : v % ShortValues \in Nat
  BY SizesAre
<1>4. ASSUME NEW v \in Nat, NEW n \in Nat PROVE BigEndian(v, n) \in Seq(Bytes)
  BY BigEndianIs
<1>5. ASSUME NEW a \in Seq(Bytes), NEW b \in Seq(Bytes), NEW c \in Seq(Bytes)
      PROVE  a \o b \o c \in Seq(Bytes)
  <2>1. PICK d \in Seq(Bytes) : d = a \o b
    BY ConcatProperties
  <2>2. d \o c \in Seq(Bytes)
    BY ConcatProperties
  <2> QED BY <2>1, <2>2
<1>6. MessageBytes(p) \in Seq(Bytes)
  <2>1. PICK v \in Nat : v = (HeaderLength + Len(p.bytes)) % ShortValues
    BY <1>1, <1>2, <1>3
  <2>2. BigEndian(v, 2) \in Seq(Bytes) /\ BigEndian(p.code, HeaderLength) \in Seq(Bytes)
    BY <1>1, <1>2, <1>4
  <2> QED BY <1>1, <1>5, <2>1, <2>2 DEF MessageBytes
<1>7. ResponseBytes(p) \in Seq(Bytes)
  <2>1. PICK v \in Nat : v = (4 + Len(p.bytes)) % ShortValues
    BY <1>1, <1>3
  <2>2. LittleEndian(v, 2) \in Seq(Bytes) /\ LittleEndian(p.code, 2) \in Seq(Bytes)
    BY <1>1, LittleEndianIs
  <2> QED BY <1>1, <1>5, <2>1, <2>2 DEF ResponseBytes
<1>8. ASSUME NEW buffered, FlattenSeq(buffered) \in Seq(Bytes)
      PROVE  RequestBytes(p, buffered) \in Seq(Bytes)
  <2>1. Len(FlattenSeq(buffered)) \in Nat
    BY <1>8, LenProperties
  <2>2. PICK v \in Nat : v = (Len(FlattenSeq(buffered)) + 2 + Len(p.bytes)) % ShortValues
    <3>1. PICK l \in Nat, m \in Nat : l = Len(FlattenSeq(buffered)) /\ m = Len(p.bytes)
      BY <1>1, <2>1
    <3>2. l + 2 + m \in Nat
      OBVIOUS
    <3>3. (l + 2 + m) % ShortValues \in Nat
      BY <1>3, <3>2
    <3> QED BY <3>1, <3>3
  <2>3. LittleEndian(v, 2) \in Seq(Bytes) /\ LittleEndian(p.code, 2) \in Seq(Bytes)
    BY <1>1, LittleEndianIs
  <2> QED BY <1>1, <1>5, <2>2, <2>3 DEF RequestBytes
<1> QED BY <1>6, <1>7, <1>8

\* What the client has collected is bytes.
LEMMA CollectedIs ==
  ASSUME TypeOK
  PROVE  /\ FlattenSeq(sendBuf) \in Seq(Bytes)
         /\ Len(sent) \in Nat /\ Len(sendBuf) \in Nat /\ Len(out) \in Nat
         /\ Written \in Nat /\ Written = Len(sent) - Len(sendBuf)
         /\ intact \in Nat /\ intact <= Written
<1>1. sendBuf \in Seq(Seq(Bytes)) /\ <<>> \in Seq(Bytes)
  BY EmptySeq DEF TypeOK
<1>2. FlattenSeq(sendBuf) \in Seq(Bytes)
  BY <1>1, FlattenAppend
<1>3. Len(sent) \in Nat /\ Len(sendBuf) \in Nat /\ Len(out) \in Nat
  BY LenProperties DEF TypeOK
<1>4. Written = Len(sent) - Len(sendBuf)
  BY DEF Written
<1>5. Len(sendBuf) <= Len(sent) /\ intact \in 0..Written
  BY DEF TypeOK
<1> QED BY <1>2, <1>3, <1>4, <1>5

\* A packet more is counted only when one more is written.
LEMMA IntactIsBounded ==
  ASSUME TypeOK, NEW n \in Nat, n >= 1, NEW p,
         Written' = Written + n, intact' = IntactWith(n, p)
  PROVE  intact' \in 0..Written'
BY CollectedIs DEF IntactWith

\* The steps of the encoders,
LEMMA SendTyped ==
  ASSUME TypeOK, NEW p \in Packets[kind], encode(p) \/ PushPacket(p)
  PROVE  TypeOK'
<1>1. /\ sent' = Append(sent, p)
      /\ UNCHANGED <<kind, socketBuf, transferred, filled, sending, in, length, lost, out>>
  BY DEF encode, PushPacket, Accept, socketVars
<1>2. kind \in Kinds /\ sent \in Seq(Packets[kind]) /\ wire \in Seq(Bytes)
      /\ sendBuf \in Seq(Seq(Bytes))
  BY DEF TypeOK
<1>3. sent' \in Seq(Packets[kind]) /\ Len(sent') = Len(sent) + 1
  BY <1>1, <1>2, AppendProperties
<1>4. Written' = Len(sent') - Len(sendBuf')
  BY DEF Written
<1>5. CASE encode(p)
  <2>1. MessageBytes(p) \in Seq(Bytes) /\ ResponseBytes(p) \in Seq(Bytes)
    BY <1>2, BytesAre
  <2>2. PICK b \in Seq(Bytes) : wire' = wire \o b
    BY <1>5, <2>1 DEF encode
  <2>3. wire' \in Seq(Bytes)
    BY <1>2, <2>2, ConcatProperties
  <2>4. sendBuf' = sendBuf /\ intact' = IntactWith(1, p)
    BY <1>5 DEF encode
  <2>5. Written' = Written + 1 /\ Len(sendBuf') <= Len(sent')
    BY <1>3, <1>4, <2>4, CollectedIs DEF TypeOK
  <2>6. intact' \in 0..Written'
    BY <2>4, <2>5, IntactIsBounded
  <2> QED BY <1>1, <1>2, <1>3, <2>3, <2>4, <2>5, <2>6 DEF TypeOK
<1>6. CASE PushPacket(p)
  <2>1. PICK b \in Seq(Bytes) : b = RequestBytes(p, sendBuf)
    BY <1>2, BytesAre, CollectedIs
  <2>2. sendBuf' = Append(sendBuf, b) /\ UNCHANGED <<wire, intact>>
    BY <1>6, <2>1 DEF PushPacket
  <2>3. sendBuf' \in Seq(Seq(Bytes)) /\ Len(sendBuf') = Len(sendBuf) + 1
    BY <1>2, <2>2, AppendProperties
  <2>4. Len(sendBuf') <= Len(sent') /\ Written' = Written
    BY <1>3, <1>4, <2>3, CollectedIs DEF TypeOK
  <2>5. intact' \in 0..Written'
    BY <2>2, <2>4, CollectedIs
  <2> QED BY <1>1, <1>2, <1>3, <2>2, <2>3, <2>4, <2>5 DEF TypeOK
<1> QED BY <1>5, <1>6

\* of the client's socket,
LEMMA SendToSocketBufTyped ==
  ASSUME TypeOK, SendToSocketBuf
  PROVE  TypeOK'
<1>1. /\ socketBuf' = FlattenSeq(sendBuf) /\ transferred' = 0 /\ filled' = TRUE
      /\ sendBuf' = <<>> /\ sendBuf # <<>>
      /\ UNCHANGED <<kind, sent, sending, wire, in, length, lost, out>>
      /\ intact' = IF sending = <<>> THEN IntactWith(Len(sendBuf), Last(sent)) ELSE intact
  BY DEF SendToSocketBuf
<1>2. PICK m \in Nat : m = Len(sendBuf) /\ m >= 1
  BY <1>1, EmptySeq DEF TypeOK
<1>3. Len(sendBuf') = 0 /\ sendBuf' \in Seq(Seq(Bytes))
  BY <1>1, EmptySeq
<1>4. Written' = Written + m /\ Len(sendBuf') <= Len(sent')
  <2>1. Written' = Len(sent') - Len(sendBuf')
    BY DEF Written
  <2> QED BY <1>1, <1>2, <1>3, <2>1, CollectedIs
<1>5. intact' \in 0..Written'
  <2>1. CASE intact' = intact
    BY <1>2, <1>4, <2>1, CollectedIs
  <2>2. CASE intact' = IntactWith(m, Last(sent))
    BY <1>2, <1>4, <2>2, IntactIsBounded
  <2> QED BY <1>1, <1>2, <2>1, <2>2
<1> QED BY <1>1, <1>3, <1>4, <1>5, CollectedIs DEF TypeOK

LEMMA SocketTyped ==
  ASSUME TypeOK, SendBuffer \/ OnSend
  PROVE  TypeOK'
<1>1. /\ UNCHANGED <<kind, sent, sendBuf, socketBuf, in, length, lost, out, intact>>
      /\ filled' \in BOOLEAN
  BY DEF SendBuffer, OnSend, TypeOK
<1>2. PICK s \in Seq(Bytes), w \in Seq(Bytes), n \in Nat, u \in Seq(Nat) :
        s = socketBuf /\ w = wire /\ n = Len(socketBuf) /\ u = sending
  BY LenProperties DEF TypeOK
<1>3. w \o s \in Seq(Bytes) /\ Append(u, n) \in Seq(Nat)
  BY <1>2, ConcatProperties, AppendProperties
<1>4. wire' \in Seq(Bytes) /\ sending' \in Seq(Nat) /\ transferred' \in Nat
  <2>1. CASE SendBuffer
    <3>1. UNCHANGED transferred
          /\ (UNCHANGED <<wire, sending>> \/ (wire' = w \o s /\ sending' = Append(u, n)))
      BY <1>2, <2>1 DEF SendBuffer, SendAsync
    <3> QED BY <1>2, <1>3, <3>1 DEF TypeOK
  <2>2. CASE OnSend
    <3>1. Tail(u) \in Seq(Nat) /\ Head(u) \in Nat
      BY <1>2, <2>2, HeadTailProperties DEF OnSend
    <3>2. Append(Tail(u), n) \in Seq(Nat)
      BY <3>1, AppendProperties
    <3>3. transferred' = IF Head(u) + transferred > n THEN n ELSE Head(u) + transferred
      BY <1>2, <2>2 DEF OnSend
    <3>4. transferred' \in Nat
      BY <1>2, <3>1, <3>3 DEF TypeOK
    <3>5. \/ sending' = Tail(u) /\ wire' = w
          \/ sending' = Append(Tail(u), n) /\ wire' = w \o s
      BY <1>2, <2>2 DEF OnSend, SendAsync
    <3> QED BY <1>3, <3>1, <3>2, <3>4, <3>5
  <2> QED BY <2>1, <2>2
<1>5. Written' = Written
  BY <1>1 DEF Written
<1> QED BY <1>1, <1>4, <1>5 DEF TypeOK

\* of TCP,
LEMMA ArriveTyped ==
  ASSUME TypeOK, Arrive
  PROVE  TypeOK'
<1>1. PICK n \in 1..Len(wire) :
        /\ in' = in \o SubSeq(wire, 1, n)
        /\ wire' = SubSeq(wire, n + 1, Len(wire))
        /\ UNCHANGED <<kind, sent, sendBuf, socketVars, length, lost, out, intact>>
  BY DEF Arrive
<1>2. in \in Seq(Bytes) /\ wire \in Seq(Bytes) /\ Len(wire) \in Nat
  BY LenProperties DEF TypeOK
<1>3. PICK b \in Seq(Bytes) : b = SubSeq(wire, 1, n)
  <2>1. SubSeq(wire, 1, n) \in Seq(Bytes)
    BY <1>2, PartIs
  <2> QED BY <2>1
<1>4. SubSeq(wire, n + 1, Len(wire)) \in Seq(Bytes)
  BY <1>2, PartIs
<1>5. in \o b \in Seq(Bytes)
  BY <1>2, ConcatProperties
<1>6. Written' = Written
  BY <1>1 DEF Written
<1> QED BY <1>1, <1>3, <1>4, <1>5, <1>6 DEF TypeOK, socketVars

\* and of the decoders.
LEMMA ReadTyped ==
  ASSUME TypeOK, UNCHANGED <<kind, sent, sendBuf, socketVars, wire, intact>>,
         in' \in Seq(Bytes), lost' \in BOOLEAN,
         length' \in (-(ShortValues \div 2))..((ShortValues \div 2) - 1),
         out' = out \/ \E q \in [code : Int, bytes : Seq(Bytes)] : out' = Append(out, q)
  PROVE  TypeOK'
<1>1. out' \in Seq([code : Int, bytes : Seq(Bytes)])
  <2>1. out \in Seq([code : Int, bytes : Seq(Bytes)])
    BY DEF TypeOK
  <2>2. CASE out' = out
    BY <2>1, <2>2
  <2>3. ASSUME NEW q \in [code : Int, bytes : Seq(Bytes)], out' = Append(out, q)
        PROVE  out' \in Seq([code : Int, bytes : Seq(Bytes)])
    BY <2>1, <2>3, AppendProperties
  <2> QED BY <2>2, <2>3
<1>2. Written' = Written
  BY DEF Written
<1> QED BY <1>1, <1>2 DEF TypeOK, socketVars

\* The length MessageDecoder and GateDecoder go by, and the bytes after it.
LEMMA PacketLengthIs ==
  ASSUME TypeOK, Decodes, MayRead
  PROVE  /\ PacketLength \in (-(ShortValues \div 2))..((ShortValues \div 2) - 1)
         /\ PacketLength \in Int
         /\ Unread \in Seq(Bytes)
<1>1. in \in Seq(Bytes) /\ Len(in) \in Nat
  BY LenProperties DEF TypeOK
<1>2. SubSeq(in, 3, Len(in)) \in Seq(Bytes)
  BY <1>1, PartIs
<1>3. Unread \in Seq(Bytes)
  BY <1>1, <1>2 DEF Unread
<1>4. PacketLength \in (-(ShortValues \div 2))..((ShortValues \div 2) - 1)
  <2>1. CASE MustReadLength
    <3>1. /\ ReadShort(in) \in (-(ShortValues \div 2))..((ShortValues \div 2) - 1)
          /\ LittleReadShort(in) \in (-(ShortValues \div 2))..((ShortValues \div 2) - 1)
      BY <1>1, <2>1, LengthsAre DEF MayRead
    <3> QED BY <2>1, <3>1 DEF PacketLength
  <2>2. CASE ~MustReadLength
    BY <2>2 DEF PacketLength, TypeOK
  <2> QED BY <2>1, <2>2
<1> QED BY <1>3, <1>4, SizesAre

\* What is made of bytes that are enough for the code is a packet.
LEMMA DecodedTyped ==
  ASSUME NEW B \in Seq(Bytes), Len(B) >= CodeLength
  PROVE  Decoded(B) \in [code : Int, bytes : Seq(Bytes)]
<1>1. CodeLength \in Nat /\ CodeLength >= 2 /\ Len(B) \in Nat
  BY CodecAssumption, LenProperties DEF CodeLength
<1>2. CASE kind = "message"
  <2>1. PICK k \in Nat, m \in Nat, c \in Seq(Bytes), b \in Seq(Bytes) :
          /\ k = HeaderLength /\ m = HeaderLength + 1
          /\ c = SubSeq(B, 1, k) /\ b = SubSeq(B, m, Len(B))
    <3>1. HeaderLength \in Nat /\ HeaderLength <= Len(B) /\ Len(B) \in Nat
      BY <1>1, <1>2, CodecAssumption DEF CodeLength
    <3>2. SubSeq(B, 1, HeaderLength) \in Seq(Bytes)
      BY <3>1, PartIs
    <3>3. PICK m \in Nat : m = HeaderLength + 1 /\ m >= 1
      BY <3>1
    <3>4. SubSeq(B, m, Len(B)) \in Seq(Bytes)
      BY <3>1, <3>3, PartIs
    <3> QED BY <3>1, <3>2, <3>3, <3>4
  <2>2. FromBigEndian(c) \in Nat
    BY NumbersAre
  <2> QED BY <1>2, <2>1, <2>2 DEF Decoded, CodeLength
<1>3. CASE kind # "message"
  <2>1. LittleReadShort(B) \in Int
    BY <1>1, NumbersAre
  <2>2. SubSeq(B, 3, Len(B)) \in Seq(Bytes)
    BY <1>1, PartIs
  <2> QED BY <1>3, <2>1, <2>2 DEF Decoded, CodeLength
<1> QED BY <1>2, <1>3

LEMMA DecodeTyped ==
  ASSUME TypeOK, decodeLength \/ decodePacket \/ decodeThrows
  PROVE  TypeOK'
<1>1. /\ Decodes /\ MayRead /\ UNCHANGED <<kind, sent, sendBuf, socketVars, wire, lost, intact>>
      /\ lost' \in BOOLEAN
  BY DEF decodeLength, decodePacket, decodeThrows, TypeOK
<1>2. /\ PacketLength \in (-(ShortValues \div 2))..((ShortValues \div 2) - 1)
      /\ PacketLength \in Int /\ Unread \in Seq(Bytes) /\ Len(Unread) \in Nat
  BY <1>1, PacketLengthIs, LenProperties
<1>3. PacketLength >= 0 => SubSeq(Unread, PacketLength + 1, Len(Unread)) \in Seq(Bytes)
  BY <1>2, PartIs
<1>4. in' \in Seq(Bytes)
  <2>1. CASE decodeLength
    BY <1>2, <2>1 DEF decodeLength
  <2>2. CASE decodePacket
    <3>1. PacketLength >= 0
      BY <1>2, <2>2, CodecAssumption DEF decodePacket, CodeLength
    <3> QED BY <1>3, <2>2, <3>1 DEF decodePacket
  <2>3. CASE decodeThrows
    BY <1>2, <1>3, <2>3 DEF decodeThrows
  <2> QED BY <2>1, <2>2, <2>3
<1>5. length' \in (-(ShortValues \div 2))..((ShortValues \div 2) - 1)
  BY <1>2, SizesAre DEF decodeLength, decodePacket, decodeThrows
<1>6. out' = out \/ \E q \in [code : Int, bytes : Seq(Bytes)] : out' = Append(out, q)
  <2>1. CASE decodePacket
    <3>1. PICK n \in Nat : n = PacketLength /\ n >= CodeLength /\ n <= Len(Unread)
      BY <1>2, <2>1, CodecAssumption DEF decodePacket, CodeLength
    <3>2. PICK B \in Seq(Bytes) : B = SubSeq(Unread, 1, n) /\ Len(B) = n
      <4>1. SubSeq(Unread, 1, n) \in Seq(Bytes)
        BY <1>2, <3>1, PartIs
      <4>2. 1 <= n + 1 => Len(SubSeq(Unread, 1, n)) = n + 1 - 1
        BY <1>2, <3>1, PartIs
      <4>3. 1 <= n + 1 /\ n + 1 - 1 = n
        OBVIOUS
      <4>4. Len(SubSeq(Unread, 1, n)) = n
        BY <4>2, <4>3, Zenon
      <4> QED BY <4>1, <4>4, Zenon
    <3>3. Decoded(B) \in [code : Int, bytes : Seq(Bytes)]
      BY <3>1, <3>2, DecodedTyped
    <3>4. out' = Append(out, Decoded(B))
      BY <2>1, <3>1, <3>2 DEF decodePacket
    <3> QED BY <3>3, <3>4
  <2>2. CASE decodeLength \/ decodeThrows
    BY <2>2 DEF decodeLength, decodeThrows
  <2> QED BY <2>1, <2>2
<1> QED BY <1>1, <1>4, <1>5, <1>6, ReadTyped

LEMMA ProcessPacketTyped ==
  ASSUME TypeOK, ProcessPacket
  PROVE  TypeOK'
<1>1. in \in Seq(Bytes) /\ Len(in) \in Nat
  BY LenProperties DEF TypeOK
<1>2. PICK n \in Nat : n = ReadInt16(in) /\ n >= 4 /\ n <= Len(in)
  <2>1. ReadInt16(in) \in Int
    <3>1. PICK t \in Seq(Bytes) : t = SubSeq(in, 1, 2) /\ Len(t) = 2
      BY <1>1, FirstTwo DEF ProcessPacket
    <3>2. FromBigEndian(Reverse(t)) \in Nat
      BY <3>1, TwoReversed, NumbersAre
    <3>3. ReadInt16(in) = AsShort(FromBigEndian(Reverse(t)))
      BY <3>1 DEF ReadInt16
    <3>4. \A v \in Nat : AsShort(v) \in Int
      BY SizesAre DEF AsShort
    <3> QED BY <3>2, <3>3, <3>4
  <2> QED BY <2>1 DEF ProcessPacket
<1>3. /\ UNCHANGED <<kind, sent, sendBuf, socketVars, wire, length, lost, intact>>
      /\ in' = SubSeq(in, n + 1, Len(in))
      /\ out' = Append(out, [code |-> ReadUInt16(SubSeq(in, 3, 4)), bytes |-> SubSeq(in, 5, n)])
  BY <1>2 DEF ProcessPacket
<1>4. in' \in Seq(Bytes)
  BY <1>1, <1>2, <1>3, PartIs
<1>5. ReadUInt16(SubSeq(in, 3, 4)) \in Int /\ SubSeq(in, 5, n) \in Seq(Bytes)
  <2>1. PICK t \in Seq(Bytes) : t = SubSeq(in, 3, 4) /\ Len(t) >= 2
    <3>1. SubSeq(in, 3, 4) \in Seq(Bytes)
      BY <1>1, <1>2, PartIs
    <3>2. 3 <= 4 + 1 => Len(SubSeq(in, 3, 4)) = 4 + 1 - 3
      BY <1>1, <1>2, PartIs
    <3>3. Len(SubSeq(in, 3, 4)) >= 2
      BY <3>2
    <3> QED BY <3>1, <3>3, Zenon
  <2>2. ReadUInt16(t) \in Nat
    BY <2>1, NumbersAre
  <2>3. SubSeq(in, 5, n) \in Seq(Bytes)
    BY <1>1, <1>2, PartIs
  <2> QED BY <2>1, <2>2, <2>3
<1>6. PICK q \in [code : Int, bytes : Seq(Bytes)] : out' = Append(out, q)
  BY <1>3, <1>5
<1>7. lost' \in BOOLEAN /\ length' \in (-(ShortValues \div 2))..((ShortValues \div 2) - 1)
  BY <1>3 DEF TypeOK
<1> QED BY <1>3, <1>4, <1>6, <1>7, ReadTyped

LEMMA ProcessPacketLostTyped ==
  ASSUME TypeOK, ProcessPacketLost
  PROVE  TypeOK'
<1>1. in \in Seq(Bytes) /\ Len(in) \in Nat
  BY LenProperties DEF TypeOK
<1>2. PICK n \in 0..Len(in) : in' = SubSeq(in, n + 1, Len(in))
  BY DEF ProcessPacketLost
<1>3. in' \in Seq(Bytes)
  BY <1>1, <1>2, PartIs
<1>4. /\ UNCHANGED <<kind, sent, sendBuf, socketVars, wire, intact>> /\ lost' \in BOOLEAN
      /\ length' \in (-(ShortValues \div 2))..((ShortValues \div 2) - 1)
  BY DEF ProcessPacketLost, TypeOK
<1>5. Wrong \in [code : Int, bytes : Seq(Bytes)]
  BY EmptySeq DEF Wrong
<1>6. out' = out \/ \E q \in [code : Int, bytes : Seq(Bytes)] : out' = Append(out, q)
  BY <1>5 DEF ProcessPacketLost
<1> QED BY <1>3, <1>4, <1>6, ReadTyped

\* Every step keeps the type invariant.
LEMMA NextTyped ==
  ASSUME TypeOK, [Next]_vars
  PROVE  TypeOK'
<1>1. CASE UNCHANGED vars
  <2>1. Written' = Written
    BY <1>1 DEF vars, Written
  <2> QED BY <1>1, <2>1 DEF vars, socketVars, TypeOK
<1>2. CASE \E p \in Packets[kind] : encode(p) \/ PushPacket(p)
  BY <1>2, SendTyped
<1> QED
  BY <1>1, <1>2, SendToSocketBufTyped, SocketTyped, ArriveTyped, DecodeTyped,
     ProcessPacketTyped, ProcessPacketLostTyped
  DEF Next, Flush, Receive

LEMMA InitTyped == Init => TypeOK
<1> SUFFICES ASSUME Init PROVE TypeOK
  OBVIOUS
<1>1. -1 \in (-(ShortValues \div 2))..((ShortValues \div 2) - 1)
  BY SizesAre
<1>2. Len(sendBuf) = 0 /\ Len(sent) = 0 /\ Written = 0
  <2>1. Len(sendBuf) = 0 /\ Len(sent) = 0
    BY EmptySeq DEF Init
  <2> QED BY <2>1 DEF Written
<1>3. /\ <<>> \in Seq(Packets[kind]) /\ <<>> \in Seq(Seq(Bytes)) /\ <<>> \in Seq(Bytes)
      /\ <<>> \in Seq(Nat) /\ <<>> \in Seq([code : Int, bytes : Seq(Bytes)])
  BY EmptySeq
<1>4. 0 \in 0..Written /\ Len(sendBuf) <= Len(sent)
  BY <1>2
<1> QED BY <1>1, <1>3, <1>4 DEF Init, TypeOK

\* Every variable holds a value of its kind, whatever is sent and however it is
\* cut: a decoder that has lost its place reads nothing that is not a short.
THEOREM CodecTypeCorrect == Spec => []TypeOK
<1>1. TypeOK /\ [Next]_vars => TypeOK'
  BY NextTyped
<1> QED BY <1>1, InitTyped, PTL DEF Spec

----------------------------------------------------------------------------
(* The inductive invariant.                                                *)

\* Only the client has buffers to send from, and only MessageDecoder and
\* GateDecoder have a DecoderState.
OwnBuffers ==
  /\ kind # "request" => sendBuf = <<>> /\ sending = <<>> /\ ~filled
  /\ kind = "response" => length = -1

\* The client collects requests from the first on.  While all is intact, one
\* send at a time is under way, of the whole buffer, and none of it is counted.
OneSend ==
  /\ sendBuf # <<>> => Head(sendBuf) = BytesOf(sent[Written + 1])
  /\ AllIntact /\ filled => sending = <<>> /\ transferred = 0 /\ socketBuf # <<>>
  /\ AllIntact /\ ~filled /\ sending # <<>> =>
       transferred = 0 /\ sending = <<Len(socketBuf)>>

\* What is counted as intact can be followed, and until all of it is handed over
\* no decoder loses its place.
IntactFirst ==
  /\ \A i \in 1..intact : Followed(sent[i])
  /\ AllIntact => Len(out) <= intact
  /\ lost => ~AllIntact /\ intact <= Len(out)

\* The bytes between the two ends, as far as they are in order.
Ahead == IF AllIntact THEN wire \o ToSend ELSE wire
Stream == LengthRead \o (in \o Ahead)

\* A stream continues with some packets: after them, whatever it may be comes,
\* and nothing if it is whole.
Continues(s, D, whole) ==
  \E J \in Seq(Bytes) : s = FlattenSeq(D) \o J /\ (whole => J = <<>>)

InStep == Len(out) <= intact => Continues(Stream, Due, AllIntact)

Inv == OwnBuffers /\ OneSend /\ IntactFirst /\ InStep
CodecInv == TypeOK /\ Inv

\* What follows the length in the bytes of a packet.
Body(p) ==
  (IF kind = "message" THEN BigEndian(p.code, HeaderLength) ELSE LittleEndian(p.code, 2))
    \o p.bytes
CountsItself == IF kind = "response" THEN 2 ELSE 0

\* The bytes of a packet that can be followed are its length field and its body.
LEMMA FrameIs ==
  ASSUME kind \in Kinds, NEW p \in Packets[kind], Followed(p)
  PROVE  /\ FrameLength(p) \in 0..(ShortValues - 1)
         /\ FrameLength(p) >= (IF kind = "message" THEN HeaderLength ELSE 2)
         /\ Body(p) \in Seq(Bytes)
         /\ Len(Body(p)) = FrameLength(p) - CountsItself
         /\ LengthField(FrameLength(p)) \in Seq(Bytes)
         /\ Len(LengthField(FrameLength(p))) = 2
         /\ BytesOf(p) = LengthField(FrameLength(p)) \o Body(p)
         /\ BytesOf(p) \in Seq(Bytes)
         /\ Len(BytesOf(p)) = FrameLength(p) + 2 - CountsItself
         /\ kind = "message" => FrameLength(p) # ShortValues - 1
         /\ kind = "request" => FrameLength(p) < Base
         /\ kind = "response" => FrameLength(p) >= 4 /\ FrameLength(p) < ShortValues \div 2
<1> DEFINE n == FrameLength(p)
<1>1. p.code \in Nat /\ p.bytes \in Seq(Bytes) /\ Len(p.bytes) \in Nat
  <2>1. p \in [code : Nat, bytes : Seq(Bytes)]
    BY CodecAssumption
  <2> QED BY <2>1, LenProperties
<1>2. HeaderLength \in Nat /\ HeaderLength >= 2
  BY CodecAssumption
<1>3. /\ n \in 0..(ShortValues - 1)
      /\ n >= (IF kind = "message" THEN HeaderLength ELSE 2)
      /\ n = (IF kind = "message" THEN HeaderLength ELSE IF kind = "request" THEN 2 ELSE 4)
               + Len(p.bytes)
      /\ kind = "message" => n # ShortValues - 1
      /\ kind = "request" => n < Base
      /\ kind = "response" => n >= 4 /\ n < ShortValues \div 2
  <2>1. n = (IF kind = "message" THEN HeaderLength ELSE IF kind = "request" THEN 2 ELSE 4)
               + Len(p.bytes)
    BY DEF FrameLength, Kinds
  <2>2. CASE kind = "message"
    <3>1. n = HeaderLength + Len(p.bytes) /\ HeaderLength + Len(p.bytes) < ShortValues - 1
      BY <2>1, <2>2 DEF Followed
    <3> HIDE DEF n
    <3> QED BY <1>1, <1>2, <2>1, <2>2, <3>1, SizesAre
  <2>3. CASE kind = "request"
    <3>1. n = 2 + Len(p.bytes) /\ 2 + Len(p.bytes) < Base
      BY <2>1, <2>3 DEF Followed
    <3> HIDE DEF n
    <3> QED BY <1>1, <2>1, <2>3, <3>1, SizesAre
  <2>4. CASE kind = "response"
    <3>1. n = 4 + Len(p.bytes) /\ 4 + Len(p.bytes) < ShortValues \div 2
      BY <2>1, <2>4 DEF Followed
    <3> HIDE DEF n
    <3> QED BY <1>1, <2>1, <2>4, <3>1, SizesAre
  <2> QED BY <2>2, <2>3, <2>4 DEF Kinds
<1> HIDE DEF n
<1> DEFINE c == IF kind = "message" THEN BigEndian(p.code, HeaderLength)
                                    ELSE LittleEndian(p.code, 2)
<1>4. c \in Seq(Bytes) /\ Len(c) = IF kind = "message" THEN HeaderLength ELSE 2
  BY <1>1, <1>2, BigEndianIs, LittleEndianIs
<1>5. Body(p) = c \o p.bytes
  BY DEF Body
<1>6. /\ LengthField(n) \in Seq(Bytes) /\ Len(LengthField(n)) = 2
  BY <1>3, LengthFieldIs
<1> HIDE DEF c
<1>7. Body(p) \in Seq(Bytes) /\ Len(Body(p)) = n - CountsItself
  <2>1. Body(p) \in Seq(Bytes) /\ Len(Body(p)) = Len(c) + Len(p.bytes)
    <3>1. PICK a \in Seq(Bytes), b \in Seq(Bytes) : a = c /\ b = p.bytes
      BY <1>1, <1>4
    <3>2. a \o b \in Seq(Bytes) /\ Len(a \o b) = Len(a) + Len(b)
      BY ConcatProperties
    <3> QED BY <1>5, <3>1, <3>2
  <2>2. PICK m \in Nat : m = Len(p.bytes)
    BY <1>1
  <2>3. n - CountsItself = Len(c) + m
    <3>1. CASE kind = "message"
      <4>1. n = HeaderLength + m /\ CountsItself = 0 /\ Len(c) = HeaderLength
        BY <1>3, <1>4, <2>2, <3>1 DEF CountsItself
      <4> QED BY <1>2, <4>1
    <3>2. CASE kind = "request"
      <4>1. n = 2 + m /\ CountsItself = 0 /\ Len(c) = 2
        BY <1>3, <1>4, <2>2, <3>2 DEF CountsItself
      <4> QED BY <4>1
    <3>3. CASE kind = "response"
      <4>1. n = 4 + m /\ CountsItself = 2 /\ Len(c) = 2
        BY <1>3, <1>4, <2>2, <3>3 DEF CountsItself
      <4> QED BY <4>1
    <3> QED BY <3>1, <3>2, <3>3 DEF Kinds
  <2> QED BY <2>1, <2>2, <2>3
<1>8. BytesOf(p) = LengthField(n) \o Body(p)
  <2>1. (LengthField(n) \o c) \o p.bytes = LengthField(n) \o (c \o p.bytes)
    <3>1. PICK a \in Seq(Bytes), b \in Seq(Bytes), d \in Seq(Bytes) :
            a = LengthField(n) /\ b = c /\ d = p.bytes
      BY <1>1, <1>4, <1>6
    <3>2. Grouped(a, b, d)
      BY Groups, Zenon
    <3> QED BY <3>1, <3>2 DEF Grouped
  <2>2. BytesOf(p) = (LengthField(n) \o c) \o p.bytes
    <3>1. CASE kind = "message"
      BY <1>3, <3>1 DEF BytesOf, MessageBytes, LengthField, c
    <3>2. CASE kind = "request"
      <4>1. Len(FlattenSeq(<<>>)) + 2 + Len(p.bytes) = n
        <5>1. FlattenSeq(<<>>) = <<>>
          BY DEF FlattenSeq
        <5>2. Len(FlattenSeq(<<>>)) = 0
          BY <5>1, EmptySeq
        <5>3. n = 2 + Len(p.bytes)
          BY <1>3, <3>2
        <5>4. PICK m \in Nat : m = Len(p.bytes)
          BY <1>1
        <5>5. 0 + 2 + m = 2 + m
          OBVIOUS
        <5> QED BY <5>2, <5>3, <5>4, <5>5
      <4> QED BY <3>2, <4>1 DEF BytesOf, RequestBytes, LengthField, c
    <3>3. CASE kind = "response"
      BY <1>3, <3>3 DEF BytesOf, ResponseBytes, LengthField, c
    <3> QED BY <3>1, <3>2, <3>3 DEF Kinds
  <2> QED BY <1>5, <2>1, <2>2
<1>9. BytesOf(p) \in Seq(Bytes) /\ Len(BytesOf(p)) = n + 2 - CountsItself
  <2>1. BytesOf(p) \in Seq(Bytes) /\ Len(BytesOf(p)) = 2 + Len(Body(p))
    <3>1. PICK a \in Seq(Bytes), b \in Seq(Bytes) : a = LengthField(n) /\ b = Body(p)
      BY <1>6, <1>7
    <3>2. a \o b \in Seq(Bytes) /\ Len(a \o b) = Len(a) + Len(b)
      BY ConcatProperties
    <3> QED BY <1>6, <1>8, <3>1, <3>2
  <2> QED BY <1>3, <1>7, <2>1 DEF CountsItself
<1> QED BY <1>3, <1>6, <1>7, <1>8, <1>9 DEF n

\* The bytes of any packet are bytes.
LEMMA BytesOfIs ==
  ASSUME kind \in Kinds, NEW p \in Packets[kind]
  PROVE  BytesOf(p) \in Seq(Bytes)
<1>1. FlattenSeq(<<>>) \in Seq(Bytes)
  BY FlattenShort, EmptySeq
<1>2. /\ MessageBytes(p) \in Seq(Bytes) /\ ResponseBytes(p) \in Seq(Bytes)
      /\ RequestBytes(p, <<>>) \in Seq(Bytes)
  BY <1>1, BytesAre
<1> QED BY <1>2 DEF BytesOf, Kinds

----------------------------------------------------------------------------
(* The bytes between the two ends.                                         *)

\* A length that was read is that of a length field.
LEMMA LengthReadIs ==
  ASSUME TypeOK
  PROVE  /\ LengthRead \in Seq(Bytes)
         /\ length = -1 => LengthRead = <<>>
         /\ length # -1 =>
              /\ Len(LengthRead) = 2
              /\ \A v \in 0..(ShortValues - 1) :
                   LengthRead = LengthField(v) => length = AsShort(v)
<1>1. kind \in Kinds /\ length \in (-(ShortValues \div 2))..((ShortValues \div 2) - 1)
  BY DEF TypeOK
<1>2. CASE length = -1
  BY <1>2, EmptySeq DEF LengthRead
<1>3. CASE length # -1
  <2>1. PICK w \in 0..(ShortValues - 1) :
          w = length % ShortValues /\ w % ShortValues = w /\ AsShort(w) = length
    <3>1. CASE length >= 0
      <4>1. length \in 0..(ShortValues - 1) /\ length < ShortValues \div 2
        BY <1>1, <3>1, SizesAre
      <4>2. length % ShortValues = length
        BY <4>1, SizesAre
      <4>3. AsShort(length) = length
        BY <4>1, AsShortIs
      <4> QED BY <4>1, <4>2, <4>3
    <3>2. CASE length < 0
      <4>1. PICK w \in 0..(ShortValues - 1) : w = length + ShortValues
        BY <1>1, <3>2, SizesAre
      <4>2. w % ShortValues = w /\ length % ShortValues = w /\ w >= ShortValues \div 2
        BY <1>1, <3>2, <4>1, SizesAre
      <4>3. AsShort(w) = w - ShortValues
        BY <4>2 DEF AsShort
      <4> QED BY <1>1, <4>1, <4>2, <4>3, SizesAre
    <3> QED BY <1>1, <3>1, <3>2, SizesAre
  <2>2. LengthRead = LengthField(w)
    BY <1>3, <2>1 DEF LengthRead, LengthField
  <2>3. LengthField(w) \in Seq(Bytes) /\ Len(LengthField(w)) = 2
    BY <1>1, LengthFieldIs
  <2>4. ASSUME NEW v \in 0..(ShortValues - 1), LengthRead = LengthField(v)
        PROVE  length = AsShort(v)
    <3>1. v = w
      BY <1>1, <2>2, <2>4, LengthFieldIs
    <3> QED BY <2>1, <3>1
  <2> QED BY <1>3, <2>2, <2>3, <2>4
<1> QED BY <1>2, <1>3

\* What a step does not change when it leaves these variables alone.
LEMMA SameMeasures ==
  ASSUME UNCHANGED kind
  PROVE  /\ \A p : BytesOf(p)' = BytesOf(p) /\ Followed(p)' = Followed(p)
         /\ \A n : LengthField(n)' = LengthField(n)
         /\ UNCHANGED <<sent, sendBuf>> => UNCHANGED Written
         /\ UNCHANGED <<sent, sendBuf, intact>> => UNCHANGED AllIntact
BY DEF BytesOf, MessageBytes, RequestBytes, ResponseBytes, Followed, FrameLength, LengthField,
       AllIntact, Written

\* The numbers of packets.
LEMMA CountsAre ==
  ASSUME TypeOK
  PROVE  /\ intact \in Nat /\ Len(sent) \in Nat /\ Len(out) \in Nat
         /\ intact <= Written /\ Written <= Len(sent) /\ Written \in Nat
         /\ intact <= Len(sent)
         /\ kind \in Kinds /\ sent \in Seq(Packets[kind])
         /\ AllIntact <=> intact = Written
BY CollectedIs DEF TypeOK, AllIntact

\* The packets that are to come.
LEMMA DueIs ==
  ASSUME CodecInv, Len(out) <= intact
  PROVE  /\ Due \in Seq(Seq(Bytes)) /\ Len(Due) = intact - Len(out)
         /\ \A i \in 1..Len(Due) : Due[i] = BytesOf(sent[Len(out) + i])
<1>1. /\ kind \in Kinds /\ sent \in Seq(Packets[kind])
      /\ Len(sent) \in Nat /\ Len(out) \in Nat /\ intact \in Nat /\ intact <= Len(sent)
  <2>1. TypeOK
    BY DEF CodecInv
  <2> QED BY <2>1, CountsAre, Zenon
<1>2. PICK m \in Nat : m = intact - Len(out)
  <2>1. PICK a \in Nat, b \in Nat : a = intact /\ b = Len(out) /\ b <= a
    BY <1>1
  <2>2. a - b \in Nat
    BY <2>1
  <2> QED BY <2>1, <2>2
<1>3. \A i \in 1..m : BytesOf(sent[Len(out) + i]) \in Seq(Bytes)
  <2> SUFFICES ASSUME NEW i \in 1..m PROVE BytesOf(sent[Len(out) + i]) \in Seq(Bytes)
    OBVIOUS
  <2>1. Len(out) + i \in 1..Len(sent)
    BY <1>1, <1>2
  <2>2. PICK p \in Packets[kind] : p = sent[Len(out) + i]
    BY <1>1, <2>1, ElementOfSeq
  <2>3. BytesOf(p) \in Seq(Bytes)
    BY <1>1, BytesOfIs
  <2> QED BY <2>2, <2>3
<1>4. Due = [i \in 1..m |-> BytesOf(sent[Len(out) + i])]
  BY <1>2 DEF Due
<1>5. PICK f \in [1..m -> Seq(Bytes)] : f = Due
  BY <1>3, <1>4
<1>6. f \in Seq(Seq(Bytes)) /\ Len(f) = m
  OBVIOUS
<1>7. \A i \in 1..m : Due[i] = BytesOf(sent[Len(out) + i])
  BY <1>4
<1> QED BY <1>2, <1>5, <1>6, <1>7

\* When nothing is to come.
LEMMA NothingDue ==
  ASSUME TypeOK, Len(out) >= intact
  PROVE  Due = <<>> /\ FlattenSeq(Due) = <<>>
<1>1. intact - Len(out) <= 0 /\ intact - Len(out) \in Int
  BY CountsAre
<1>2. 1..(intact - Len(out)) = 1..0
  BY <1>1
<1>3. Due = [i \in 1..0 |-> BytesOf(sent[Len(out) + i])]
  BY <1>2 DEF Due
<1>4. Due = <<>>
  <2>1. Due = [i \in 1..0 |-> <<>>]
    BY <1>3
  <2> QED BY <2>1
<1> QED BY <1>4, FlattenShort, EmptySeq

\* What is not read yet.
LEMMA StreamIs ==
  ASSUME TypeOK
  PROVE  /\ LengthRead \in Seq(Bytes) /\ in \in Seq(Bytes) /\ Ahead \in Seq(Bytes)
         /\ wire \in Seq(Bytes) /\ ToSend \in Seq(Bytes)
         /\ in \o Ahead \in Seq(Bytes) /\ Stream \in Seq(Bytes)
<1>1. /\ LengthRead \in Seq(Bytes) /\ in \in Seq(Bytes) /\ wire \in Seq(Bytes)
      /\ socketBuf \in Seq(Bytes)
  BY LengthReadIs DEF TypeOK
<1>2. ToSend \in Seq(Bytes)
  BY <1>1, EmptySeq DEF ToSend
<1>3. wire \o ToSend \in Seq(Bytes)
  BY <1>1, <1>2, ConcatProperties
<1>4. Ahead \in Seq(Bytes)
  BY <1>1, <1>3 DEF Ahead
<1>5. in \o Ahead \in Seq(Bytes)
  BY <1>1, <1>4, ConcatProperties
<1>6. Stream \in Seq(Bytes)
  BY <1>1, <1>5, ConcatProperties DEF Stream
<1> QED BY <1>1, <1>2, <1>4, <1>5, <1>6

\* While packets are to come, the bytes to read are those of the next, and more.
LEMMA NextFrame ==
  ASSUME CodecInv, Len(out) < intact
  PROVE  \E p \in Packets[kind], T \in Seq(Bytes) :
           /\ p = sent[Len(out) + 1] /\ Followed(p)
           /\ Stream = BytesOf(p) \o T
           /\ Continues(T, Tail(Due), AllIntact)
<1>1. /\ Len(sent) \in Nat /\ Len(out) \in Nat /\ intact \in Nat /\ intact <= Len(sent)
      /\ sent \in Seq(Packets[kind]) /\ kind \in Kinds /\ Len(out) <= intact
  BY CountsAre DEF CodecInv
<1>2. /\ Due \in Seq(Seq(Bytes)) /\ Len(Due) = intact - Len(out)
      /\ \A i \in 1..Len(Due) : Due[i] = BytesOf(sent[Len(out) + i])
  BY <1>1, DueIs
<1>3. Len(out) + 1 \in 1..Len(sent) /\ Len(out) + 1 \in 1..intact /\ 1 \in 1..Len(Due)
  BY <1>1, <1>2
<1>4. PICK p \in Packets[kind] : p = sent[Len(out) + 1]
  BY <1>1, <1>3, ElementOfSeq
<1>5. Followed(p)
  BY <1>3, <1>4 DEF CodecInv, Inv, IntactFirst
<1>6. PICK D \in Seq(Seq(Bytes)) : D = Due /\ D # <<>>
  BY <1>2, <1>3, EmptySeq
<1>7. PICK h \in Seq(Bytes), t \in Seq(Seq(Bytes)) : h = Head(D) /\ t = Tail(D)
  BY <1>6, HeadTailProperties
<1>8. h = BytesOf(p)
  BY <1>2, <1>3, <1>4, <1>6, <1>7
<1>9. PICK r \in Seq(Bytes) : r = FlattenSeq(t)
  BY FlattenAppend, EmptySeq
<1>10. FlattenSeq(D) = h \o r
  BY <1>6, <1>7, <1>9, FlattenFirst
<1>11. PICK J \in Seq(Bytes) : Stream = (h \o r) \o J /\ (AllIntact => J = <<>>)
  BY <1>1, <1>6, <1>10 DEF CodecInv, Inv, InStep, Continues
<1>12. PICK T \in Seq(Bytes) : T = r \o J
  BY ConcatProperties
<1>13. Stream = h \o T
  <2>1. Grouped(h, r, J)
    BY Groups, Zenon
  <2> QED BY <1>11, <1>12, <2>1 DEF Grouped
<1>14. Continues(T, Tail(Due), AllIntact)
  BY <1>6, <1>7, <1>9, <1>11, <1>12 DEF Continues
<1> QED BY <1>4, <1>5, <1>8, <1>13, <1>14

\* Once all that is intact is handed over, there is something to read only when
\* more was written than can be told apart.
LEMMA NotWhole ==
  ASSUME CodecInv, intact <= Len(out), in # <<>>
  PROVE  ~AllIntact
<1> SUFFICES ASSUME AllIntact PROVE FALSE
  OBVIOUS
<1>1. Len(out) <= intact
  BY DEF CodecInv, Inv, IntactFirst
<1>2. FlattenSeq(Due) = <<>>
  BY NothingDue, CountsAre DEF CodecInv
<1>3. Stream = <<>>
  <2>1. Stream = <<>> \o <<>>
    BY <1>1, <1>2 DEF CodecInv, Inv, InStep, Continues
  <2> QED BY <2>1
<1>4. PICK a \in Seq(Bytes), b \in Seq(Bytes), c \in Seq(Bytes) :
        a = LengthRead /\ b = in /\ c = Ahead
  BY StreamIs DEF CodecInv
<1>5. PICK bc \in Seq(Bytes) : bc = b \o c /\ Len(bc) = Len(b) + Len(c)
  BY ConcatProperties
<1>6. Len(a \o bc) = Len(a) + Len(bc)
  BY ConcatProperties
<1>7. a \o bc = <<>>
  BY <1>3, <1>4, <1>5 DEF Stream
<1>8. Len(a \o bc) = 0 /\ Len(a) \in Nat /\ Len(b) \in Nat /\ Len(c) \in Nat
  BY <1>7, EmptySeq, LenProperties
<1>9. Len(b) = 0
  BY <1>5, <1>6, <1>8
<1> QED BY <1>4, <1>9, EmptySeq

\* A packet handed over is due no longer,
LEMMA DueAfter ==
  ASSUME CodecInv, UNCHANGED <<kind, sent, intact>>, Len(out) < intact,
         NEW q, out' = Append(out, q)
  PROVE  Due' = Tail(Due)
<1>1. /\ Due \in Seq(Seq(Bytes)) /\ Len(Due) = intact - Len(out)
      /\ \A i \in 1..Len(Due) : Due[i] = BytesOf(sent[Len(out) + i])
      /\ intact \in Nat /\ Len(out) \in Nat
  BY DueIs, CountsAre DEF CodecInv
<1>2. Len(out') = Len(out) + 1
  BY DEF CodecInv, TypeOK
<1>3. Due' = [i \in 1..(intact - (Len(out) + 1)) |-> BytesOf(sent[Len(out) + 1 + i])]
  BY <1>2 DEF Due, BytesOf, MessageBytes, RequestBytes, ResponseBytes
<1>4. PICK s \in Seq(Seq(Bytes)) : s = Due
  BY <1>1
<1>5. Len(s) # 0
  BY <1>1, <1>4
<1>6. Tail(s) = [i \in 1..(Len(s) - 1) |-> s[i + 1]]
  <2>1. /\ s # <<>> /\ Tail(s) \in Seq(Seq(Bytes)) /\ Len(Tail(s)) = Len(s) - 1
        /\ \A i \in 1..Len(Tail(s)) : Tail(s)[i] = s[i + 1]
    BY <1>5, EmptySeq, HeadTailProperties
  <2>2. PICK t \in Seq(Seq(Bytes)) : t = Tail(s)
    BY <2>1
  <2>3. t = [i \in 1..Len(t) |-> t[i]]
    OBVIOUS
  <2> QED BY <2>1, <2>2, <2>3
<1>7. ASSUME NEW i \in 1..(Len(s) - 1) PROVE s[i + 1] = BytesOf(sent[Len(out) + 1 + i])
  <2>1. i + 1 \in 1..Len(Due) /\ Len(out) + (i + 1) = Len(out) + 1 + i
    BY <1>1, <1>4
  <2> QED BY <1>1, <1>4, <2>1
<1>8. Len(s) - 1 = intact - (Len(out) + 1)
  BY <1>1, <1>4
<1> QED BY <1>3, <1>4, <1>6, <1>7, <1>8

\* a packet written is due last,
LEMMA DueSent ==
  ASSUME CodecInv, UNCHANGED <<kind, out>>, Len(out) <= intact,
         NEW p \in Packets[kind], intact' = intact + 1, p = sent'[intact + 1],
         \A i \in 1..intact : sent'[i] = sent[i]
  PROVE  Due' = Append(Due, BytesOf(p))
<1>1. /\ Due \in Seq(Seq(Bytes)) /\ Len(Due) = intact - Len(out)
      /\ \A i \in 1..Len(Due) : Due[i] = BytesOf(sent[Len(out) + i])
      /\ intact \in Nat /\ Len(out) \in Nat
  BY DueIs, CountsAre DEF CodecInv
<1>2. Due' = [i \in 1..((intact + 1) - Len(out)) |-> BytesOf(sent'[Len(out) + i])]
  <2>1. PICK t : t = sent'
    OBVIOUS
  <2>2. PICK u : u = out
    OBVIOUS
  <2>3. PICK n \in Int : n = intact' /\ n = intact + 1
    BY <1>1
  <2>4. PICK l \in Nat : l = Len(u)
    BY <1>1, <2>2
  <2>5. Due' = [i \in 1..(n - l) |-> BytesOf(t[l + i])]
    BY <2>1, <2>2, <2>3, <2>4 DEF Due, BytesOf, MessageBytes, RequestBytes, ResponseBytes
  <2>6. n - l = (intact + 1) - Len(out) /\ l = Len(out)
    BY <2>2, <2>3, <2>4, Zenon
  <2> QED BY <2>1, <2>5, <2>6
<1>3. PICK s \in Seq(Seq(Bytes)) : s = Due
  BY <1>1
<1>4. Append(s, BytesOf(p)) =
        [i \in 1..(Len(s) + 1) |-> IF i = Len(s) + 1 THEN BytesOf(p) ELSE s[i]]
  <2>1. PICK b \in Seq(Bytes) : b = BytesOf(p)
    BY BytesOfIs DEF CodecInv, TypeOK
  <2>2. PICK t \in Seq(Seq(Bytes)) : t = Append(s, b)
    BY AppendProperties
  <2>3. /\ Len(t) = Len(s) + 1 /\ t[Len(s) + 1] = b
        /\ \A i \in 1..Len(s) : t[i] = s[i]
    BY <2>2, AppendProperties
  <2>4. t = [i \in 1..Len(t) |-> t[i]]
    OBVIOUS
  <2>5. \A i \in 1..(Len(s) + 1) : t[i] = IF i = Len(s) + 1 THEN b ELSE s[i]
    <3>1. PICK n \in Nat : n = Len(s)
      BY LenProperties
    <3>2. \A i \in 1..(n + 1) : i = n + 1 \/ (i # n + 1 /\ i \in 1..n)
      OBVIOUS
    <3> QED BY <2>3, <3>1, <3>2
  <2> QED BY <2>1, <2>2, <2>3, <2>4, <2>5
<1>5. ASSUME NEW i \in 1..(Len(s) + 1)
      PROVE  BytesOf(sent'[Len(out) + i]) = IF i = Len(s) + 1 THEN BytesOf(p) ELSE s[i]
  <2>1. CASE i = Len(s) + 1
    <3>1. Len(out) + i = intact + 1
      BY <1>1, <1>3, <2>1
    <3> QED BY <2>1, <3>1
  <2>2. CASE i \in 1..Len(s)
    <3>1. Len(out) + i \in 1..intact /\ i # Len(s) + 1
      BY <1>1, <1>3, <2>2
    <3> QED BY <1>1, <1>3, <2>2, <3>1
  <2>3. i = Len(s) + 1 \/ i \in 1..Len(s)
    <3>1. PICK n \in Nat : n = Len(s)
      BY LenProperties
    <3> QED BY <3>1
  <2> QED BY <2>1, <2>2, <2>3
<1>6. Len(s) + 1 = (intact + 1) - Len(out)
  BY <1>1, <1>3
<1> QED BY <1>2, <1>3, <1>4, <1>5, <1>6

\* and what is due stays so otherwise.
LEMMA DueSame ==
  ASSUME CodecInv, UNCHANGED <<kind, out, intact>>, Len(out) <= intact,
         \A i \in 1..intact : sent'[i] = sent[i]
  PROVE  Due' = Due
<1>1. intact \in Nat /\ Len(out) \in Nat
  BY CountsAre DEF CodecInv
<1>2. Due' = [i \in 1..(intact - Len(out)) |-> BytesOf(sent'[Len(out) + i])]
  <2>1. PICK t : t = sent'
    OBVIOUS
  <2>2. Due' = [i \in 1..(intact - Len(out)) |-> BytesOf(t[Len(out) + i])]
    BY <2>1 DEF Due, BytesOf, MessageBytes, RequestBytes, ResponseBytes
  <2> QED BY <2>1, <2>2
<1>3. ASSUME NEW i \in 1..(intact - Len(out)) PROVE sent'[Len(out) + i] = sent[Len(out) + i]
  <2>1. Len(out) + i \in 1..intact
    BY <1>1
  <2> QED BY <2>1
<1> QED BY <1>2, <1>3 DEF Due

----------------------------------------------------------------------------
(* The decoders.                                                           *)

\* What the decoders leave alone.
Others == <<kind, sent, sendBuf, socketVars, wire, intact>>

LEMMA OthersKept ==
  ASSUME UNCHANGED Others
  PROVE  /\ Ahead' = Ahead /\ Written' = Written /\ AllIntact' = AllIntact
         /\ UNCHANGED <<kind, sent, sendBuf, socketBuf, transferred, filled, sending, wire, intact>>
         /\ Stream' = LengthRead' \o (in' \o Ahead)
BY DEF Others, socketVars, Ahead, ToSend, Written, AllIntact, Stream

LEMMA OthersKeep ==
  ASSUME CodecInv, UNCHANGED Others,
         kind = "response" => length' = -1,
         AllIntact => Len(out') <= intact,
         lost' => ~AllIntact /\ intact <= Len(out'),
         Len(out') <= intact => Continues(Stream', Due', AllIntact)
  PROVE  Inv'
<1>1. /\ Ahead' = Ahead /\ Written' = Written /\ AllIntact' = AllIntact
      /\ UNCHANGED <<kind, sent, sendBuf, socketBuf, transferred, filled, sending, wire, intact>>
  BY OthersKept
<1>2. /\ \A p : BytesOf(p)' = BytesOf(p) /\ Followed(p)' = Followed(p)
  BY <1>1, SameMeasures
<1>3. OwnBuffers'
  BY <1>1 DEF CodecInv, Inv, OwnBuffers
<1>4. OneSend'
  <2>1. PICK p : p = sent[Written + 1]
    OBVIOUS
  <2>2. BytesOf(sent[Written + 1])' = BytesOf(p)'
    BY <1>1, <2>1 DEF BytesOf, MessageBytes, RequestBytes, ResponseBytes
  <2>3. BytesOf(sent[Written + 1])' = BytesOf(sent[Written + 1])
    BY <1>2, <2>1, <2>2
  <2> QED BY <1>1, <2>3 DEF CodecInv, Inv, OneSend
<1>5. IntactFirst'
  BY <1>1 DEF CodecInv, Inv, IntactFirst, Followed, FrameLength
<1>6. InStep'
  BY <1>1 DEF InStep, Continues
<1> QED BY <1>3, <1>4, <1>5, <1>6 DEF Inv

\* A decoder that reads what cannot be told apart.
LEMMA ReadAfterAll ==
  ASSUME CodecInv, TypeOK', UNCHANGED Others, ~AllIntact, intact <= Len(out),
         kind = "response" => length' = -1,
         out' = out \/ \E q : out' = Append(out, q)
  PROVE  Inv'
<1>1. Len(out) \in Nat /\ intact \in Nat
  BY CountsAre DEF CodecInv
<1>2. out \in Seq([code : Int, bytes : Seq(Bytes)])
  BY DEF CodecInv, TypeOK
<1>3. Len(out') >= Len(out) /\ Len(out') \in Nat
  <2>1. CASE out' = out
    BY <1>1, <2>1
  <2>2. ASSUME NEW q, out' = Append(out, q) PROVE Len(out') >= Len(out) /\ Len(out') \in Nat
    <3>1. Len(out') = Len(out) + 1
      BY <1>2, <2>2
    <3> QED BY <1>1, <3>1
  <2> QED BY <2>1, <2>2
<1>4. intact <= Len(out')
  BY <1>1, <1>3
<1>5. Continues(Stream', Due', AllIntact)
  <2>1. (Stream \in Seq(Bytes))'
    BY StreamIs, PTL
  <2>2. (TypeOK /\ Len(out) >= intact)'
    BY <1>1, <1>4 DEF Others
  <2>3. (FlattenSeq(Due) = <<>>)'
    BY <2>2, NothingDue, PTL
  <2>4. Stream' = <<>> \o Stream'
    BY <2>1, ConcatEmptySeq
  <2> QED BY <2>1, <2>3, <2>4 DEF Continues
<1> QED BY <1>4, <1>5, OthersKeep

\* A number of two bytes is that modulo the short's values.
LEMMA ShortIsItself ==
  ASSUME NEW v \in 0..(ShortValues - 1)
  PROVE  v % ShortValues = v
BY SizesAre

\* The decoder knows the length of the next packet, and has its body before it.
LEMMA PacketIs ==
  ASSUME CodecInv, Decodes, MayRead, Len(out) < intact
  PROVE  \E p \in Packets[kind], T \in Seq(Bytes) :
           /\ p = sent[Len(out) + 1] /\ Followed(p)
           /\ Continues(T, Tail(Due), AllIntact)
           /\ PacketLength = AsShort(FrameLength(p))
           /\ Unread \in Seq(Bytes)
           /\ Unread \o Ahead = Body(p) \o T
           /\ LengthField(FrameLength(p)) \o (Unread \o Ahead) = Stream
<1>1. PICK p \in Packets[kind], T \in Seq(Bytes) :
        /\ p = sent[Len(out) + 1] /\ Followed(p)
        /\ LengthRead \o (in \o Ahead) = BytesOf(p) \o T
        /\ Continues(T, Tail(Due), AllIntact)
  BY NextFrame DEF Stream
<1>2. /\ LengthRead \in Seq(Bytes) /\ in \in Seq(Bytes) /\ Ahead \in Seq(Bytes)
      /\ in \o Ahead \in Seq(Bytes)
      /\ LengthRead \o (in \o Ahead) = Stream
  BY StreamIs DEF Stream, CodecInv
<1>3. kind \in Kinds /\ TypeOK
  BY DEF CodecInv, TypeOK
<1>4. PICK n \in 0..(ShortValues - 1), L \in Seq(Bytes), B \in Seq(Bytes) :
        /\ n = FrameLength(p) /\ L = LengthField(n) /\ Len(L) = 2 /\ B = Body(p)
        /\ BytesOf(p) = L \o B
        /\ kind = "request" => n < Base
  BY <1>1, <1>3, FrameIs
<1>5. PICK y \in Seq(Bytes) : y = B \o T
  BY ConcatProperties
<1>6. LengthRead \o (in \o Ahead) = L \o y
  <2>1. Grouped(L, B, T)
    BY Groups, Zenon
  <2> QED BY <1>1, <1>4, <1>5, <2>1 DEF Grouped
<1>7. PacketLength = AsShort(n) /\ Unread \in Seq(Bytes) /\ Unread \o Ahead = y
  <2>1. CASE MustReadLength
    <3>1. LengthRead = <<>> /\ Len(in) >= 2
      BY <1>3, <2>1, LengthReadIs DEF MustReadLength, MayRead
    <3>2. PICK v \in Seq(Bytes) : v = Ahead
      BY <1>2
    <3>3. in \o v = L \o y
      <4>1. <<>> \o (in \o Ahead) = in \o Ahead
        BY <1>2, ConcatEmptySeq
      <4> QED BY <1>6, <3>1, <3>2, <4>1
    <3>4. Len(L) <= Len(in)
      BY <1>4, <3>1
    <3>5. CutsAt(Bytes, in, v, L, y)
      BY <1>2, <3>3, <3>4, Cut
    <3>6. SubSeq(in, 1, 2) = L /\ Unread \in Seq(Bytes) /\ Unread \o Ahead = y
      <4>1. /\ SubSeq(in, 1, Len(L)) = L
            /\ SubSeq(in, Len(L) + 1, Len(in)) \in Seq(Bytes)
            /\ SubSeq(in, Len(L) + 1, Len(in)) \o v = y
        BY <3>5, Zenon DEF CutsAt
      <4>2. Len(L) = 2 /\ Len(L) + 1 = 3
        BY <1>4
      <4>3. Unread = SubSeq(in, 3, Len(in))
        BY <2>1, Zenon DEF Unread
      <4> QED BY <4>1, <4>2, <4>3, <3>2, Zenon
    <3>7. PacketLength = AsShort(n)
      <4>1. n % ShortValues = n
        BY ShortIsItself
      <4>2. CASE kind = "message"
        <5>1. SubSeq(in, 1, 2) = BigEndian(n, 2)
          BY <1>4, <3>6, <4>1, <4>2 DEF LengthField
        <5>2. ReadShort(in) = AsShort(n)
          BY <1>2, <3>1, <5>1, ReadsWhatWasWritten
        <5> QED BY <2>1, <4>2, <5>2 DEF PacketLength
      <4>3. CASE kind = "request"
        <5>1. SubSeq(in, 1, 2) = LittleEndian(n, 2)
          BY <1>4, <3>6, <4>1, <4>3 DEF LengthField
        <5>2. LittleReadShort(in) = n
          BY <1>2, <1>4, <3>1, <4>3, <5>1, ReadsWhatWasWritten
        <5>3. AsShort(n) = n
          BY <1>4, <4>3, AsShortIs, SizesAre
        <5> QED BY <2>1, <4>3, <5>2, <5>3 DEF PacketLength
      <4>4. kind = "message" \/ kind = "request"
        BY DEF Decodes
      <4> QED BY <4>2, <4>3, <4>4
    <3> QED BY <3>6, <3>7
  <2>2. CASE ~MustReadLength
    <3>1. /\ length # -1 /\ Len(LengthRead) = 2
          /\ \A v \in 0..(ShortValues - 1) :
               LengthRead = LengthField(v) => length = AsShort(v)
      BY <1>3, <2>2, LengthReadIs DEF MustReadLength
    <3>2. PICK u \in Seq(Bytes), v \in Seq(Bytes) : u = LengthRead /\ v = in \o Ahead
      BY <1>2
    <3>3. u = L /\ v = y
      <4>1. Len(L) = Len(u) /\ u \o v = L \o y
        BY <1>4, <1>6, <3>1, <3>2
      <4> QED BY <4>1, SameHeads
    <3>4. length = AsShort(n)
      BY <1>4, <3>1, <3>2, <3>3
    <3> QED BY <1>2, <2>2, <3>2, <3>3, <3>4 DEF PacketLength, Unread
  <2> QED BY <2>1, <2>2
<1>8. L \o (Unread \o Ahead) = Stream
  BY <1>2, <1>6, <1>7
<1>9. Unread \o Ahead = Body(p) \o T
  BY <1>4, <1>5, <1>7
<1> QED BY <1>1, <1>4, <1>7, <1>8, <1>9

\* A length that was read and is kept, with the bytes after it.
LEMMA LengthKept ==
  ASSUME CodecInv, TypeOK', Decodes, MayRead, Len(out) < intact,
         length' = PacketLength, in' = Unread,
         UNCHANGED Others, UNCHANGED <<lost, out>>
  PROVE  Inv'
<1>1. PICK p \in Packets[kind], T \in Seq(Bytes) :
        /\ Followed(p)
        /\ PacketLength = AsShort(FrameLength(p))
        /\ LengthField(FrameLength(p)) \o (Unread \o Ahead) = Stream
  BY PacketIs
<1>2. PICK n \in 0..(ShortValues - 1) :
        /\ n = FrameLength(p)
        /\ kind = "message" => n # ShortValues - 1
        /\ kind = "request" => n < Base
  BY <1>1, FrameIs DEF CodecInv, TypeOK
<1>3. /\ AsShort(n) % ShortValues = n
      /\ AsShort(n) # -1
  <2>1. n # ShortValues - 1
    <3>1. Base \in Nat /\ Base >= 2 /\ ShortValues \in Nat /\ 2 * Base <= ShortValues
      BY SizesAre
    <3>2. kind = "message" \/ kind = "request"
      BY DEF Decodes
    <3>3. n < Base => n # ShortValues - 1
      BY <3>1
    <3> QED BY <1>2, <3>2, <3>3
  <2> QED BY <2>1, AsShortIs
<1>4. LengthRead' = LengthField(n)
  <2>1. LengthField(n) = LengthField(AsShort(n))
    <3>1. n % ShortValues = n
      BY ShortIsItself
    <3> QED BY <1>3, <3>1 DEF LengthField
  <2>2. length' = AsShort(n) /\ kind' = kind
    BY <1>1, <1>2 DEF Others
  <2> QED BY <1>3, <2>1, <2>2 DEF LengthRead, LengthField
<1>5. Stream' = Stream
  BY <1>1, <1>2, <1>4, OthersKept
<1>6. Due' = Due
  BY DEF Others, Due, BytesOf, MessageBytes, RequestBytes, ResponseBytes
<1>7. kind # "response"
  BY DEF Decodes
<1> QED BY <1>5, <1>6, <1>7, OthersKeep DEF CodecInv, Inv, IntactFirst, InStep

\* A packet is handed over, and the bytes after it are read next.
LEMMA PacketHandedOver ==
  ASSUME CodecInv, TypeOK', Len(out) < intact,
         NEW q, out' = Append(out, q),
         in' \in Seq(Bytes), Continues(in' \o Ahead, Tail(Due), AllIntact),
         length' = -1, UNCHANGED Others, UNCHANGED lost
  PROVE  Inv'
<1>1. Len(out') = Len(out) + 1 /\ Len(out) \in Nat /\ intact \in Nat
  BY CountsAre DEF CodecInv, TypeOK
<1>2. Due' = Tail(Due)
  BY DueAfter DEF Others
<1>3. Stream' = in' \o Ahead
  <2>1. LengthRead' = <<>>
    BY DEF LengthRead
  <2>2. in' \o Ahead \in Seq(Bytes)
    BY StreamIs, ConcatProperties DEF CodecInv
  <2> QED BY <2>1, <2>2, OthersKept, ConcatEmptySeq
<1>4. ~lost /\ Len(out') <= intact
  BY <1>1 DEF CodecInv, Inv, IntactFirst
<1> QED BY <1>2, <1>3, <1>4, OthersKeep

\* The body a decoder waits for has the length it has read.
LEMMA BodyIs ==
  ASSUME kind \in {"message", "request"}, NEW p \in Packets[kind], Followed(p)
  PROVE  \E n \in 0..(ShortValues - 1), B \in Seq(Bytes) :
           n = FrameLength(p) /\ B = Body(p) /\ Len(B) = n /\ n >= CodeLength
<1>1. kind \in Kinds
  BY DEF Kinds
<1>2. /\ FrameLength(p) \in 0..(ShortValues - 1)
      /\ FrameLength(p) >= (IF kind = "message" THEN HeaderLength ELSE 2)
      /\ Body(p) \in Seq(Bytes)
      /\ Len(Body(p)) = FrameLength(p) - CountsItself
  BY <1>1, FrameIs
<1>3. CountsItself = 0
  BY DEF CountsItself
<1>4. PICK n \in 0..(ShortValues - 1) : n = FrameLength(p)
  BY <1>2
<1>5. n - 0 = n
  BY SizesAre
<1> QED BY <1>2, <1>3, <1>4, <1>5 DEF CodeLength

\* decodeLength and decodeThrows keep the length, and the rest unread:
LEMMA decodeLengthStep ==
  ASSUME CodecInv, TypeOK', decodeLength
  PROVE  Inv'
<1>1. /\ Decodes /\ MayRead /\ length' = PacketLength /\ in' = Unread
      /\ UNCHANGED Others /\ UNCHANGED <<lost, out>>
  BY DEF decodeLength, Others
<1>2. CASE Len(out) < intact
  BY <1>1, <1>2, LengthKept
<1>3. CASE intact <= Len(out)
  <2>1. in # <<>> /\ kind # "response"
    BY <1>1 DEF Decodes
  <2> QED BY <1>1, <1>3, <2>1, NotWhole, ReadAfterAll
<1> QED BY <1>2, <1>3, CountsAre DEF CodecInv

\* the decoder throws for a length that is negative only.
LEMMA decodeThrowsStep ==
  ASSUME CodecInv, TypeOK', decodeThrows
  PROVE  Inv'
<1>1. /\ Decodes /\ MayRead /\ length' = PacketLength /\ PacketLength < CodeLength
      /\ UNCHANGED Others /\ UNCHANGED <<lost, out>>
      /\ PacketLength < 0 => in' = Unread
  BY DEF decodeThrows, Others
<1>2. CASE Len(out) < intact
  <2>1. PICK p \in Packets[kind] : Followed(p) /\ PacketLength = AsShort(FrameLength(p))
    BY <1>1, <1>2, PacketIs
  <2>2. PICK n \in 0..(ShortValues - 1) : n = FrameLength(p) /\ n >= CodeLength
    <3>1. kind \in {"message", "request"}
      BY <1>1 DEF Decodes
    <3> QED BY <2>1, <3>1, BodyIs
  <2>3. PacketLength < 0
    <3>1. AsShort(n) \in Int /\ (AsShort(n) >= 0 => AsShort(n) = n)
      BY AsShortIs, SizesAre
    <3>2. AsShort(n) < CodeLength
      BY <1>1, <2>1, <2>2
    <3>3. CodeLength \in Nat /\ n >= CodeLength /\ n \in Nat
      BY <2>2, CodecAssumption, SizesAre DEF CodeLength
    <3>4. AsShort(n) < 0
      BY <3>1, <3>2, <3>3
    <3> QED BY <2>1, <2>2, <3>4
  <2> QED BY <1>1, <1>2, <2>3, LengthKept
<1>3. CASE intact <= Len(out)
  <2>1. in # <<>> /\ kind # "response"
    BY <1>1 DEF Decodes
  <2> QED BY <1>1, <1>3, <2>1, NotWhole, ReadAfterAll
<1> QED BY <1>2, <1>3, CountsAre DEF CodecInv

\* The decoder takes the body of the next packet.
LEMMA PacketTaken ==
  ASSUME CodecInv, decodePacket, Len(out) < intact
  PROVE  \E p \in Packets[kind] :
           /\ p = sent[Len(out) + 1] /\ Followed(p)
           /\ FrameLength(p) < ShortValues \div 2
           /\ in' \in Seq(Bytes) /\ Continues(in' \o Ahead, Tail(Due), AllIntact)
           /\ out' = Append(out, Decoded(Body(p)))
<1>1. PICK p \in Packets[kind], T \in Seq(Bytes) :
        /\ p = sent[Len(out) + 1] /\ Followed(p)
        /\ Continues(T, Tail(Due), AllIntact)
        /\ PacketLength = AsShort(FrameLength(p))
        /\ Unread \in Seq(Bytes)
        /\ Unread \o Ahead = Body(p) \o T
  BY PacketIs DEF decodePacket
<1>2. PICK n \in 0..(ShortValues - 1), B \in Seq(Bytes) :
        n = FrameLength(p) /\ B = Body(p) /\ Len(B) = n
  <2>1. kind \in {"message", "request"}
    BY DEF decodePacket, Decodes
  <2> QED BY <1>1, <2>1, BodyIs
<1>3. CodeLength \in Nat /\ CodeLength >= 2
  BY CodecAssumption DEF CodeLength
<1>4. PacketLength = n /\ n < ShortValues \div 2
  <2>1. /\ AsShort(n) \in Int /\ (AsShort(n) >= 0 => AsShort(n) = n)
        /\ AsShort(n) >= 0 <=> n < ShortValues \div 2
    BY AsShortIs, SizesAre
  <2>2. AsShort(n) >= CodeLength
    BY <1>1, <1>2 DEF decodePacket
  <2> QED BY <1>1, <1>2, <1>3, <2>1, <2>2
<1>5. PICK u \in Seq(Bytes), v \in Seq(Bytes) :
        u = Unread /\ v = Ahead /\ CutsAt(Bytes, u, v, B, T)
  <2>1. PICK u \in Seq(Bytes), v \in Seq(Bytes) : u = Unread /\ v = Ahead
    BY <1>1, StreamIs DEF CodecInv
  <2>2. u \o v = B \o T /\ Len(B) <= Len(u)
    BY <1>1, <1>2, <1>4, <2>1 DEF decodePacket
  <2>3. CutsAt(Bytes, u, v, B, T)
    BY <2>2, Cut
  <2> QED BY <2>1, <2>3
<1>6. /\ in' \in Seq(Bytes) /\ in' \o Ahead = T
      /\ out' = Append(out, Decoded(B))
  <2>1. /\ in' = SubSeq(u, n + 1, Len(u))
        /\ out' = Append(out, Decoded(SubSeq(u, 1, n)))
    BY <1>4, <1>5 DEF decodePacket
  <2> QED BY <1>2, <1>5, <2>1 DEF CutsAt
<1> QED BY <1>1, <1>2, <1>4, <1>6

\* decodePacket hands over what it makes of the body,
LEMMA decodePacketStep ==
  ASSUME CodecInv, TypeOK', decodePacket
  PROVE  Inv'
<1>1. /\ UNCHANGED Others /\ UNCHANGED lost /\ length' = -1
      /\ \E q : out' = Append(out, q)
  BY DEF decodePacket, Others
<1>2. CASE Len(out) < intact
  <2>1. PICK q : /\ out' = Append(out, q) /\ in' \in Seq(Bytes)
                 /\ Continues(in' \o Ahead, Tail(Due), AllIntact)
    BY <1>2, PacketTaken
  <2> QED BY <1>1, <1>2, <2>1, PacketHandedOver
<1>3. CASE intact <= Len(out)
  <2>1. in # <<>>
    BY DEF decodePacket, Decodes
  <2> QED BY <1>1, <1>3, <2>1, NotWhole, ReadAfterAll
<1> QED BY <1>2, <1>3, CountsAre DEF CodecInv

\* The next response, as far as its length is there.
LEMMA ResponseAhead ==
  ASSUME CodecInv, kind = "response", Len(in) >= 2, Len(out) < intact
  PROVE  \E p \in Packets[kind], T \in Seq(Bytes), f \in Seq(Bytes), n \in Nat :
           /\ p = sent[Len(out) + 1] /\ Followed(p)
           /\ n = FrameLength(p) /\ f = BytesOf(p) /\ Len(f) = n /\ n >= 4
           /\ n < ShortValues \div 2
           /\ ReadInt16(in) = n
           /\ in \o Ahead = f \o T
           /\ Continues(T, Tail(Due), AllIntact)
<1>1. PICK p \in Packets[kind], T \in Seq(Bytes) :
        /\ p = sent[Len(out) + 1] /\ Followed(p)
        /\ LengthRead \o (in \o Ahead) = BytesOf(p) \o T
        /\ Continues(T, Tail(Due), AllIntact)
  BY NextFrame DEF Stream
<1>2. PICK n \in 0..(ShortValues - 1), L \in Seq(Bytes), B \in Seq(Bytes), f \in Seq(Bytes) :
        /\ n = FrameLength(p) /\ L = LengthField(n) /\ Len(L) = 2 /\ B = Body(p)
        /\ f = BytesOf(p) /\ f = L \o B /\ Len(f) = n
        /\ n >= 4 /\ n < ShortValues \div 2
  <2>1. FrameLength(p) + 2 - CountsItself = FrameLength(p)
    BY <1>1, FrameIs DEF CountsItself, CodecInv, TypeOK
  <2> QED BY <1>1, <2>1, FrameIs DEF CodecInv, TypeOK
<1>3. PICK u \in Seq(Bytes), v \in Seq(Bytes) : u = in /\ v = Ahead /\ u \o v = f \o T
  <2>1. LengthRead = <<>>
    BY LengthReadIs DEF CodecInv, Inv, OwnBuffers
  <2>2. in \in Seq(Bytes) /\ Ahead \in Seq(Bytes) /\ in \o Ahead \in Seq(Bytes)
    BY StreamIs DEF CodecInv
  <2>3. <<>> \o (in \o Ahead) = in \o Ahead
    BY <2>2, ConcatEmptySeq
  <2> QED BY <1>1, <1>2, <2>1, <2>2, <2>3
<1>4. SubSeq(u, 1, 2) = L
  <2>1. Grouped(L, B, T)
    BY Groups, Zenon
  <2>2. PICK y \in Seq(Bytes) : y = B \o T
    BY ConcatProperties
  <2>3. u \o v = L \o y /\ Len(L) <= Len(u)
    BY <1>2, <1>3, <2>1, <2>2 DEF Grouped
  <2>4. CutsAt(Bytes, u, v, L, y)
    BY <2>3, Cut
  <2> QED BY <1>2, <2>4 DEF CutsAt
<1>5. ReadInt16(in) = n
  <2>1. L = LittleEndian(n, 2)
    <3>1. n % ShortValues = n
      BY ShortIsItself
    <3> QED BY <1>2, <3>1 DEF LengthField
  <2>2. ReadInt16(u) = AsShort(n)
    BY <1>3, <1>4, <2>1, ReadsWhatWasWritten
  <2>3. AsShort(n) = n
    BY <1>2, AsShortIs
  <2> QED BY <1>3, <2>2, <2>3
<1>6. n \in Nat
  BY SizesAre
<1> QED BY <1>1, <1>2, <1>3, <1>5, <1>6

\* The client takes the bytes of the next packet,
LEMMA ResponseIs ==
  ASSUME CodecInv, ProcessPacket, Len(out) < intact
  PROVE  \E p \in Packets[kind] :
           /\ p = sent[Len(out) + 1] /\ Followed(p)
           /\ ReadInt16(in) = FrameLength(p)
           /\ SubSeq(in, 1, FrameLength(p)) = BytesOf(p)
           /\ in' \in Seq(Bytes) /\ Continues(in' \o Ahead, Tail(Due), AllIntact)
<1>1. /\ kind = "response" /\ Len(in) >= 2 /\ ReadInt16(in) <= Len(in)
      /\ in' = SubSeq(in, ReadInt16(in) + 1, Len(in))
  BY DEF ProcessPacket
<1>2. PICK p \in Packets[kind], T \in Seq(Bytes), f \in Seq(Bytes), n \in Nat :
        /\ p = sent[Len(out) + 1] /\ Followed(p)
        /\ n = FrameLength(p) /\ f = BytesOf(p) /\ Len(f) = n
        /\ ReadInt16(in) = n
        /\ in \o Ahead = f \o T
        /\ Continues(T, Tail(Due), AllIntact)
  BY <1>1, ResponseAhead
<1>3. PICK u \in Seq(Bytes), v \in Seq(Bytes) : u = in /\ v = Ahead
  BY StreamIs DEF CodecInv
<1>4. CutsAt(Bytes, u, v, f, T)
  <2>1. u \o v = f \o T /\ Len(f) <= Len(u)
    BY <1>1, <1>2, <1>3
  <2> QED BY <2>1, Cut
<1>5. SubSeq(in, 1, n) = f /\ in' \in Seq(Bytes) /\ in' \o Ahead = T
  BY <1>1, <1>2, <1>3, <1>4 DEF CutsAt
<1> QED BY <1>2, <1>5

\* ProcessPacket what it makes of them,
LEMMA ProcessPacketStep ==
  ASSUME CodecInv, TypeOK', ProcessPacket
  PROVE  Inv'
<1>1. /\ UNCHANGED Others /\ UNCHANGED lost /\ length' = -1 /\ Len(in) >= 2
      /\ \E q : out' = Append(out, q)
  BY DEF ProcessPacket, Others, CodecInv, Inv, OwnBuffers
<1>2. CASE Len(out) < intact
  <2>1. PICK q : out' = Append(out, q)
    BY <1>1
  <2>2. in' \in Seq(Bytes) /\ Continues(in' \o Ahead, Tail(Due), AllIntact)
    BY <1>2, ResponseIs
  <2> QED BY <1>1, <1>2, <2>1, <2>2, PacketHandedOver
<1>3. CASE intact <= Len(out)
  <2>1. in # <<>>
    BY <1>1, EmptySeq
  <2> QED BY <1>1, <1>3, <2>1, NotWhole, ReadAfterAll
<1> QED BY <1>2, <1>3, CountsAre DEF CodecInv

\* The client loses its place only after all that is counted.
LEMMA LostAfterAll ==
  ASSUME CodecInv, ProcessPacketLost
  PROVE  kind = "response" /\ ~AllIntact /\ intact <= Len(out)
<1>1. kind = "response"
  BY DEF ProcessPacketLost
<1>2. CASE lost
  BY <1>1, <1>2 DEF CodecInv, Inv, IntactFirst
<1>3. CASE ~lost
  <2>1. Len(in) >= 2 /\ ReadInt16(in) < 4
    BY <1>3 DEF ProcessPacketLost
  <2>2. ~(Len(out) < intact)
    <3> SUFFICES ASSUME Len(out) < intact PROVE FALSE
      OBVIOUS
    <3>1. \E n \in Nat : ReadInt16(in) = n /\ n >= 4
      BY <1>1, <2>1, ResponseAhead
    <3> QED BY <2>1, <3>1
  <2>3. intact <= Len(out)
    BY <2>2, CountsAre DEF CodecInv
  <2>4. in # <<>>
    BY <2>1, EmptySeq
  <2> QED BY <1>1, <2>3, <2>4, NotWhole
<1> QED BY <1>1, <1>2, <1>3

\* Which keeps the invariant.
LEMMA ProcessPacketLostStep ==
  ASSUME CodecInv, TypeOK', ProcessPacketLost
  PROVE  Inv'
<1>1. /\ UNCHANGED Others /\ length' = length /\ kind = "response"
      /\ out' = out \/ \E q : out' = Append(out, q)
  BY DEF ProcessPacketLost, Others
<1>2. ~AllIntact /\ intact <= Len(out)
  BY LostAfterAll
<1>3. length' = -1
  BY <1>1 DEF CodecInv, Inv, OwnBuffers
<1> QED BY <1>1, <1>2, <1>3, ReadAfterAll

----------------------------------------------------------------------------
(* TCP, the encoders and the client's socket.                              *)

\* A stream that goes on,
LEMMA StreamGoesOn ==
  ASSUME NEW s \in Seq(Bytes), NEW D, NEW x \in Seq(Bytes), FlattenSeq(D) \in Seq(Bytes),
         Continues(s, D, FALSE)
  PROVE  Continues(s \o x, D, FALSE)
<1>1. PICK J \in Seq(Bytes), d \in Seq(Bytes) : d = FlattenSeq(D) /\ s = d \o J
  BY DEF Continues
<1>2. PICK K \in Seq(Bytes) : K = J \o x
  BY ConcatProperties
<1>3. Grouped(d, J, x)
  BY Groups, Zenon
<1>4. s \o x = d \o K
  BY <1>1, <1>2, <1>3 DEF Grouped
<1> QED BY <1>1, <1>2, <1>4 DEF Continues

\* one that is whole, which goes on with a packet,
LEMMA StreamWithPacket ==
  ASSUME NEW s \in Seq(Bytes), NEW D \in Seq(Seq(Bytes)), NEW x \in Seq(Bytes),
         Continues(s, D, TRUE)
  PROVE  Continues(s \o x, Append(D, x), TRUE)
<1>1. FlattenSeq(D) \in Seq(Bytes) /\ FlattenSeq(Append(D, x)) = FlattenSeq(D) \o x
  BY FlattenAppend
<1>2. s = FlattenSeq(D)
  BY <1>1, ConcatEmptySeq DEF Continues
<1>3. s \o x \in Seq(Bytes)
  BY ConcatProperties
<1>4. s \o x = FlattenSeq(Append(D, x)) \o <<>>
  <2>1. (s \o x) \o <<>> = s \o x
    BY <1>3, ConcatEmptySeq
  <2> QED BY <1>1, <1>2, <2>1
<1>5. <<>> \in Seq(Bytes)
  BY EmptySeq
<1> QED BY <1>4, <1>5 DEF Continues

\* and one that is no longer said to be whole.
LEMMA StreamWeakened ==
  ASSUME NEW s, NEW D, NEW w, Continues(s, D, w)
  PROVE  Continues(s, D, FALSE)
BY DEF Continues

\* What is due is bytes.
LEMMA DueBytes ==
  ASSUME CodecInv, Len(out) <= intact
  PROVE  FlattenSeq(Due) \in Seq(Bytes)
BY DueIs, FlattenAppend, EmptySeq

\* Bytes that are put on the wire.
LEMMA StreamLonger ==
  ASSUME TypeOK, NEW x \in Seq(Bytes)
  PROVE  LengthRead \o (in \o (Ahead \o x)) = Stream \o x
<1>1. PICK a \in Seq(Bytes), b \in Seq(Bytes), c \in Seq(Bytes) :
        a = LengthRead /\ b = in /\ c = Ahead
  BY StreamIs
<1>2. PICK bc \in Seq(Bytes) : bc = b \o c
  BY ConcatProperties
<1>3. Grouped(b, c, x) /\ Grouped(a, bc, x)
  BY Groups, Zenon
<1> QED BY <1>1, <1>2, <1>3 DEF Grouped, Stream

\* TCP moves bytes.
LEMMA ArriveStep ==
  ASSUME CodecInv, TypeOK', Arrive
  PROVE  Inv'
<1>1. PICK n \in 1..Len(wire) :
        /\ in' = in \o SubSeq(wire, 1, n)
        /\ wire' = SubSeq(wire, n + 1, Len(wire))
        /\ UNCHANGED <<kind, sent, sendBuf, socketVars, length, lost, out, intact>>
  BY DEF Arrive
<1>2. in \in Seq(Bytes) /\ wire \in Seq(Bytes) /\ Len(wire) \in Nat /\ ToSend \in Seq(Bytes)
  BY StreamIs, LenProperties DEF CodecInv
<1>3. PICK a \in Seq(Bytes), b \in Seq(Bytes), c \in Seq(Bytes), d \in Seq(Bytes) :
        /\ a = in /\ b = SubSeq(wire, 1, n) /\ c = SubSeq(wire, n + 1, Len(wire))
        /\ d = ToSend /\ b \o c = wire
  <2>1. SubSeq(wire, 1, n) \in Seq(Bytes)
    BY <1>2, PartIs
  <2>2. SubSeq(wire, n + 1, Len(wire)) \in Seq(Bytes)
    BY <1>2, PartIs
  <2>3. SubSeq(wire, 1, n) \o SubSeq(wire, n + 1, Len(wire)) = wire
    <3>1. PICK w \in Seq(Bytes), l \in Nat : w = wire /\ l = Len(w)
      BY <1>2
    <3>2. 1 \in 1..Len(w) + 1 /\ n \in (1 - 1)..Len(w) /\ l \in n..Len(w)
      BY <1>2, <3>1
    <3>3. SubSeq(w, 1, n) \o SubSeq(w, n + 1, l) = SubSeq(w, 1, l)
      BY <3>2, ConcatAdjacentSubSeq
    <3>4. SubSeq(w, 1, Len(w)) = w
      BY SubSeqFull
    <3> QED BY <3>1, <3>3, <3>4
  <2> QED BY <1>2, <2>1, <2>2, <2>3
<1>4. in' = a \o b /\ wire' = c
  BY <1>1, <1>3
<1>5. UNCHANGED <<kind, sent, sendBuf, socketBuf, transferred, filled, sending, length, lost,
                  out, intact>>
  BY <1>1 DEF socketVars
<1>6. Written' = Written /\ AllIntact' = AllIntact /\ ToSend' = ToSend
  BY <1>5 DEF Written, AllIntact, ToSend
<1>7. in' \o Ahead' = in \o Ahead
  <2>1. CASE AllIntact
    <3>1. Ahead' = c \o d /\ Ahead = (b \o c) \o d
      BY <1>3, <1>4, <1>6, <2>1 DEF Ahead
    <3>2. PICK cd \in Seq(Bytes) : cd = c \o d
      BY ConcatProperties
    <3>3. Grouped(b, c, d) /\ Grouped(a, b, cd)
      BY Groups, Zenon
    <3> QED BY <1>3, <1>4, <3>1, <3>2, <3>3 DEF Grouped
  <2>2. CASE ~AllIntact
    <3>1. Ahead' = c /\ Ahead = b \o c
      BY <1>3, <1>4, <1>6, <2>2 DEF Ahead
    <3>2. Grouped(a, b, c)
      BY Groups, Zenon
    <3> QED BY <1>3, <1>4, <3>1, <3>2 DEF Grouped
  <2> QED BY <2>1, <2>2
<1>8. Stream' = Stream /\ Due' = Due
  BY <1>5, <1>7 DEF Stream, LengthRead, LengthField, Due, BytesOf, MessageBytes, RequestBytes,
                    ResponseBytes
<1>9. InStep'
  BY <1>5, <1>6, <1>8 DEF CodecInv, Inv, InStep, Continues
<1>10. OwnBuffers' /\ IntactFirst'
  BY <1>5, <1>6 DEF CodecInv, Inv, OwnBuffers, IntactFirst, Followed, FrameLength
<1>11. OneSend'
  <2>1. PICK p : p = sent[Written + 1]
    OBVIOUS
  <2>2. BytesOf(sent[Written + 1])' = BytesOf(p)
    BY <1>5, <1>6, <2>1 DEF BytesOf, MessageBytes, RequestBytes, ResponseBytes
  <2> QED BY <1>5, <1>6, <2>1, <2>2 DEF CodecInv, Inv, OneSend
<1> QED BY <1>9, <1>10, <1>11 DEF Inv

\* The socket puts the whole buffer on the wire when it is its turn, or, when not
\* all is intact, at any time.
LEMMA SocketStep ==
  ASSUME CodecInv, TypeOK', SendBuffer \/ OnSend
  PROVE  Inv'
<1>1. UNCHANGED <<kind, sent, sendBuf, socketBuf, in, length, lost, out, intact>>
  BY DEF SendBuffer, OnSend
<1>2. Written' = Written /\ AllIntact' = AllIntact /\ LengthRead' = LengthRead /\ Due' = Due
  BY <1>1 DEF Written, AllIntact, LengthRead, LengthField, Due, BytesOf, MessageBytes,
              RequestBytes, ResponseBytes
<1>3. PICK w \in Seq(Bytes), s \in Seq(Bytes), n \in Nat :
        w = wire /\ s = socketBuf /\ n = Len(socketBuf)
  BY LenProperties DEF CodecInv, TypeOK
<1>4. (kind # "request" => sending' = <<>> /\ ~filled') /\ IntactFirst'
  BY <1>1, <1>2 DEF SendBuffer, OnSend, CodecInv, Inv, OwnBuffers, IntactFirst, Followed,
                    FrameLength
<1>5. OwnBuffers'
  BY <1>1, <1>4 DEF CodecInv, Inv, OwnBuffers
<1>6. sendBuf' # <<>> => (Head(sendBuf) = BytesOf(sent[Written + 1]))'
  <2>1. PICK p : p = sent[Written + 1]
    OBVIOUS
  <2>2. BytesOf(sent[Written + 1])' = BytesOf(p)
    BY <1>1, <1>2, <2>1 DEF BytesOf, MessageBytes, RequestBytes, ResponseBytes
  <2> QED BY <1>1, <2>1, <2>2 DEF CodecInv, Inv, OneSend
<1>7. CASE AllIntact /\ SendBuffer
  <2>1. /\ filled /\ ~filled' /\ transferred = 0 /\ sending = <<>> /\ s # <<>>
        /\ UNCHANGED transferred
    BY <1>3, <1>7 DEF SendBuffer, CodecInv, Inv, OneSend
  <2>2. n # 0
    BY <1>3, <2>1, EmptySeq
  <2>3. wire' = w \o s /\ sending' = Append(<<>>, n)
    BY <1>3, <1>7, <2>1, <2>2 DEF SendBuffer, SendAsync
  <2>4. Append(<<>>, n) = <<n>>
    OBVIOUS
  <2>5. OneSend'
    BY <1>1, <1>3, <1>6, <2>1, <2>3, <2>4 DEF OneSend
  <2>6. Ahead' = Ahead
    <3>1. Ahead = w \o s
      BY <1>3, <1>7, <2>1 DEF Ahead, ToSend
    <3>2. Ahead' = (w \o s) \o <<>>
      BY <1>2, <1>7, <2>1, <2>3 DEF Ahead, ToSend
    <3>3. w \o s \in Seq(Bytes)
      BY ConcatProperties
    <3> QED BY <3>1, <3>2, <3>3, ConcatEmptySeq
  <2>7. InStep'
    BY <1>1, <1>2, <2>6 DEF CodecInv, Inv, InStep, Continues, Stream
  <2> QED BY <1>4, <1>5, <2>5, <2>7 DEF Inv
<1>8. CASE AllIntact /\ OnSend
  <2>1. /\ sending # <<>> /\ ~filled /\ UNCHANGED filled /\ transferred = 0 /\ sending = <<n>>
    BY <1>3, <1>8 DEF OnSend, CodecInv, Inv, OneSend
  <2>2. Head(sending) = n /\ Tail(sending) = <<>>
    BY <2>1
  <2>3. transferred' = n
    BY <1>3, <1>8, <2>1, <2>2 DEF OnSend
  <2>4. sending' = <<>> /\ UNCHANGED wire
    BY <1>3, <1>8, <2>2, <2>3 DEF OnSend
  <2>5. OneSend'
    BY <1>6, <2>1, <2>4 DEF OneSend
  <2>6. Ahead' = Ahead
    BY <1>2, <2>1, <2>4 DEF Ahead, ToSend
  <2>7. InStep'
    BY <1>1, <1>2, <2>6 DEF CodecInv, Inv, InStep, Continues, Stream
  <2> QED BY <1>4, <1>5, <2>5, <2>7 DEF Inv
<1>9. CASE ~AllIntact
  <2>1. OneSend'
    BY <1>2, <1>6, <1>9 DEF OneSend
  <2>2. wire' = w \/ wire' = w \o s
    BY <1>3 DEF SendBuffer, OnSend, SendAsync
  <2>3. Ahead = w /\ Ahead' = wire'
    BY <1>2, <1>3, <1>9 DEF Ahead
  <2>4. InStep'
    <3> SUFFICES ASSUME Len(out) <= intact PROVE Continues(Stream', Due, FALSE)
      BY <1>1, <1>2, <1>9 DEF InStep, Continues
    <3>1. Continues(Stream, Due, FALSE)
      BY <1>9 DEF CodecInv, Inv, InStep, Continues
    <3>2. CASE wire' = w
      <4>1. Stream' = Stream
        BY <1>1, <1>2, <2>3, <3>2 DEF Stream
      <4> QED BY <3>1, <4>1
    <3>3. CASE wire' = w \o s
      <4>1. Stream' = LengthRead \o (in \o (Ahead \o s))
        BY <1>1, <1>2, <2>3, <3>3 DEF Stream
      <4>2. Stream' = Stream \o s
        BY <4>1, StreamLonger DEF CodecInv
      <4>3. Stream \in Seq(Bytes) /\ FlattenSeq(Due) \in Seq(Bytes)
        BY StreamIs, DueBytes DEF CodecInv
      <4> QED BY <3>1, <4>2, <4>3, StreamGoesOn
    <3> QED BY <2>2, <3>2, <3>3
  <2> QED BY <1>4, <1>5, <2>1, <2>4 DEF Inv
<1> QED BY <1>7, <1>8, <1>9

\* A packet more, which is counted as intact.
LEMMA CountedStep ==
  ASSUME CodecInv, AllIntact, NEW p \in Packets[kind], Followed(p),
         UNCHANGED <<kind, in, length, lost, out>>,
         intact' = intact + 1, AllIntact', p = sent'[intact + 1],
         \A i \in 1..intact : sent'[i] = sent[i],
         Ahead' = Ahead \o BytesOf(p)
  PROVE  IntactFirst' /\ InStep'
<1>1. /\ Len(out) \in Nat /\ intact \in Nat /\ kind \in Kinds /\ Len(out) <= intact /\ TypeOK
  BY CountsAre DEF CodecInv, Inv, IntactFirst
<1>2. IntactFirst'
  <2>1. \A i \in 1..(intact + 1) : Followed(sent'[i])
    <3>1. \A i \in 1..(intact + 1) : i \in 1..intact \/ i = intact + 1
      BY <1>1
    <3> QED BY <3>1 DEF CodecInv, Inv, IntactFirst
  <2>2. \A i \in 1..intact' : Followed(sent[i])'
    BY <2>1 DEF Followed, FrameLength
  <2>3. Len(out') <= intact' /\ ~lost'
    BY <1>1 DEF CodecInv, Inv, IntactFirst
  <2> QED BY <2>2, <2>3 DEF IntactFirst
<1>3. PICK f \in Seq(Bytes), D \in Seq(Seq(Bytes)), s \in Seq(Bytes) :
        f = BytesOf(p) /\ D = Due /\ s = Stream
  BY <1>1, BytesOfIs, DueIs, StreamIs
<1>4. Due' = Append(D, f)
  BY <1>1, <1>3, DueSent
<1>5. Stream' = s \o f
  <2>1. LengthRead' = LengthRead
    BY DEF LengthRead, LengthField
  <2> QED BY <1>1, <1>3, <2>1, StreamLonger DEF Stream
<1>6. Continues(s, D, TRUE)
  BY <1>1, <1>3 DEF CodecInv, Inv, InStep, Continues
<1>7. Continues(s \o f, Append(D, f), TRUE)
  BY <1>6, StreamWithPacket
<1>8. InStep'
  BY <1>4, <1>5, <1>7 DEF InStep, Continues
<1> QED BY <1>2, <1>8

\* More bytes, of which nothing is counted.
LEMMA UncountedStep ==
  ASSUME CodecInv, UNCHANGED <<kind, in, length, lost, out, intact>>, ~AllIntact',
         \A i \in 1..intact : sent'[i] = sent[i],
         NEW x \in Seq(Bytes), Ahead' = Ahead \/ Ahead' = Ahead \o x, lost => ~AllIntact
  PROVE  IntactFirst' /\ InStep'
<1>1. TypeOK
  BY DEF CodecInv
<1>2. IntactFirst'
  <2>1. \A i \in 1..intact' : Followed(sent[i])'
    BY DEF CodecInv, Inv, IntactFirst, Followed, FrameLength
  <2> QED BY <2>1 DEF CodecInv, Inv, IntactFirst
<1>3. InStep'
  <2> SUFFICES ASSUME Len(out) <= intact PROVE Continues(Stream', Due', FALSE)
    BY DEF InStep, Continues
  <2>1. Due' = Due /\ LengthRead' = LengthRead
    BY DueSame DEF LengthRead, LengthField
  <2>2. Continues(Stream, Due, FALSE)
    BY DEF CodecInv, Inv, InStep, Continues
  <2>3. CASE Ahead' = Ahead
    <3>1. Stream' = Stream
      BY <2>1, <2>3 DEF Stream
    <3> QED BY <2>1, <2>2, <3>1
  <2>4. CASE Ahead' = Ahead \o x
    <3>1. Stream' = Stream \o x
      BY <1>1, <2>1, <2>4, StreamLonger DEF Stream
    <3>2. Stream \in Seq(Bytes) /\ FlattenSeq(Due) \in Seq(Bytes)
      BY <1>1, StreamIs, DueBytes
    <3> QED BY <2>1, <2>2, <3>1, <3>2, StreamGoesOn
  <2> QED BY <2>3, <2>4
<1> QED BY <1>2, <1>3

\* A server sends.
LEMMA encodeStep ==
  ASSUME CodecInv, TypeOK', NEW p \in Packets[kind], encode(p)
  PROVE  Inv'
<1>1. /\ sent' = Append(sent, p) /\ kind # "request"
      /\ UNCHANGED <<kind, sendBuf, socketBuf, transferred, filled, sending, in, length, lost, out>>
      /\ wire' = wire \o BytesOf(p) /\ intact' = IntactWith(1, p)
  BY DEF encode, Accept, socketVars, BytesOf
<1>2. /\ sendBuf = <<>> /\ sending = <<>> /\ ~filled /\ Len(sendBuf) = 0
  BY <1>1, EmptySeq DEF CodecInv, Inv, OwnBuffers
<1>3. /\ kind \in Kinds /\ sent \in Seq(Packets[kind]) /\ wire \in Seq(Bytes)
      /\ Len(sent) \in Nat /\ intact \in Nat /\ intact <= Len(sent)
      /\ AllIntact <=> intact = Written
  BY CountsAre DEF CodecInv, TypeOK
<1>4. /\ Len(sent') = Len(sent) + 1 /\ sent'[Len(sent) + 1] = p
      /\ \A i \in 1..Len(sent) : sent'[i] = sent[i]
  BY <1>1, <1>3, AppendProperties
<1>5. Written = Len(sent) /\ Written' = Len(sent) + 1
  <2>1. Written = Len(sent) - 0 /\ Written' = (Len(sent) + 1) - 0
    BY <1>1, <1>2, <1>4 DEF Written
  <2> QED BY <1>3, <2>1
<1>6. PICK f \in Seq(Bytes) : f = BytesOf(p)
  BY <1>3, BytesOfIs
<1>7. Ahead' = Ahead \o f
  <2>1. Ahead = wire
    BY <1>2, <1>3, ConcatEmptySeq DEF Ahead, ToSend
  <2>2. Ahead' = wire'
    <3>1. wire' \in Seq(Bytes)
      BY DEF TypeOK
    <3> QED BY <1>1, <1>2, <3>1, ConcatEmptySeq DEF Ahead, ToSend
  <2> QED BY <1>1, <1>6, <2>1, <2>2
<1>8. OwnBuffers' /\ OneSend'
  BY <1>1, <1>2 DEF CodecInv, Inv, OwnBuffers, OneSend
<1>9. \A i \in 1..intact : sent'[i] = sent[i]
  BY <1>3, <1>4
<1>10. CASE AllIntact /\ Followed(p)
  <2>1. intact = Len(sent) /\ intact' = intact + 1
    BY <1>1, <1>3, <1>5, <1>10 DEF IntactWith
  <2>2. AllIntact'
    BY <1>5, <2>1 DEF AllIntact
  <2>3. p = sent'[intact + 1]
    BY <1>4, <2>1
  <2> QED BY <1>1, <1>6, <1>7, <1>8, <1>9, <1>10, <2>1, <2>2, <2>3, CountedStep DEF Inv
<1>11. CASE ~(AllIntact /\ Followed(p))
  <2>1. intact' = intact
    BY <1>1, <1>3, <1>11 DEF IntactWith
  <2>2. ~AllIntact'
    BY <1>3, <1>5, <2>1 DEF AllIntact
  <2>3. ~lost \/ ~AllIntact
    BY DEF CodecInv, Inv, IntactFirst
  <2> QED BY <1>1, <1>6, <1>7, <1>8, <1>9, <2>1, <2>2, <2>3, UncountedStep DEF Inv
<1> QED BY <1>10, <1>11

\* The client collects a request.
LEMMA PushPacketStep ==
  ASSUME CodecInv, TypeOK', NEW p \in Packets[kind], PushPacket(p)
  PROVE  Inv'
<1>1. /\ sent' = Append(sent, p) /\ kind = "request" /\ ~filled
      /\ UNCHANGED <<kind, socketBuf, transferred, filled, sending, in, length, lost, out, wire,
                     intact>>
      /\ sendBuf' = Append(sendBuf, RequestBytes(p, sendBuf))
  BY DEF PushPacket, Accept, socketVars
<1>2. /\ kind \in Kinds /\ sent \in Seq(Packets[kind]) /\ sendBuf \in Seq(Seq(Bytes))
      /\ Len(sent) \in Nat /\ intact \in Nat /\ intact <= Len(sent) /\ Len(sendBuf) \in Nat
      /\ Written = Len(sent) - Len(sendBuf) /\ Written \in Nat
  BY CountsAre, CollectedIs DEF CodecInv, TypeOK
<1>3. /\ Len(sent') = Len(sent) + 1 /\ sent'[Len(sent) + 1] = p
      /\ \A i \in 1..Len(sent) : sent'[i] = sent[i]
  BY <1>1, <1>2, AppendProperties
<1>4. PICK f \in Seq(Bytes) : f = RequestBytes(p, sendBuf)
  BY <1>2, BytesAre, CollectedIs DEF CodecInv
<1>5. /\ Len(sendBuf') = Len(sendBuf) + 1 /\ sendBuf' \in Seq(Seq(Bytes))
      /\ \A i \in 1..Len(sendBuf) : sendBuf'[i] = sendBuf[i]
      /\ sendBuf'[Len(sendBuf) + 1] = f
  BY <1>1, <1>2, <1>4, AppendProperties
<1>6. Written' = Written /\ AllIntact' = AllIntact
  <2>1. Written' = (Len(sent) + 1) - (Len(sendBuf) + 1)
    BY <1>3, <1>5 DEF Written
  <2>2. Written' = Written
    BY <1>2, <2>1
  <2> QED BY <1>1, <2>2 DEF AllIntact
<1>7. Ahead' = Ahead /\ LengthRead' = LengthRead /\ in' = in
  BY <1>1, <1>6 DEF Ahead, ToSend, LengthRead, LengthField
<1>8. \A i \in 1..intact : sent'[i] = sent[i]
  BY <1>2, <1>3
<1>9. InStep'
  <2> SUFFICES ASSUME Len(out) <= intact PROVE Continues(Stream', Due', AllIntact)
    BY <1>1, <1>6 DEF InStep, Continues
  <2>1. Due' = Due
    BY <1>1, <1>8, DueSame
  <2>2. Stream' = Stream
    BY <1>7 DEF Stream
  <2> QED BY <2>1, <2>2 DEF CodecInv, Inv, InStep
<1>10. IntactFirst'
  <2>1. \A i \in 1..intact' : Followed(sent[i])'
    BY <1>1, <1>8 DEF CodecInv, Inv, IntactFirst, Followed, FrameLength
  <2> QED BY <1>1, <1>6, <2>1 DEF CodecInv, Inv, IntactFirst
<1>11. OwnBuffers'
  BY <1>1 DEF CodecInv, Inv, OwnBuffers
<1>12. Head(sendBuf') = sendBuf'[1]
  BY <1>5
<1>13. sendBuf'[1] = BytesOf(sent'[Written + 1])
  <2>1. CASE sendBuf = <<>>
    <3>1. Len(sendBuf) = 0
      BY <2>1, EmptySeq
    <3>2. sendBuf'[1] = f /\ Written + 1 = Len(sent) + 1
      BY <1>2, <1>5, <3>1
    <3>3. f = BytesOf(p)
      BY <1>1, <1>4, <2>1 DEF BytesOf
    <3> QED BY <1>3, <3>2, <3>3
  <2>2. CASE sendBuf # <<>>
    <3>1. Len(sendBuf) >= 1
      BY <1>2, <2>2, EmptySeq
    <3>2. 1 \in 1..Len(sendBuf) /\ Written + 1 \in 1..Len(sent)
      BY <1>2, <3>1
    <3>3. sendBuf'[1] = sendBuf[1] /\ Head(sendBuf) = sendBuf[1]
      BY <1>2, <1>5, <2>2, <3>2
    <3>4. sendBuf[1] = BytesOf(sent[Written + 1])
      BY <2>2, <3>3 DEF CodecInv, Inv, OneSend
    <3> QED BY <1>3, <3>2, <3>3, <3>4
  <2> QED BY <2>1, <2>2
<1>14. OneSend'
  <2>1. PICK q : q = sent'[Written + 1]
    OBVIOUS
  <2>2. BytesOf(sent[Written + 1])' = BytesOf(q)
    BY <1>1, <1>6, <2>1 DEF BytesOf, MessageBytes, RequestBytes, ResponseBytes
  <2>3. (Head(sendBuf) = BytesOf(sent[Written + 1]))'
    BY <1>12, <1>13, <2>1, <2>2
  <2> QED BY <1>1, <1>6, <2>3 DEF CodecInv, Inv, OneSend
<1> QED BY <1>9, <1>10, <1>11, <1>14 DEF Inv

\* The client fills its socket's buffer.
LEMMA SendToSocketBufStep ==
  ASSUME CodecInv, TypeOK', SendToSocketBuf
  PROVE  Inv'
<1>1. /\ sendBuf # <<>> /\ ~filled /\ socketBuf' = FlattenSeq(sendBuf) /\ transferred' = 0
      /\ filled' = TRUE /\ sendBuf' = <<>>
      /\ UNCHANGED <<kind, sent, sending, wire, in, length, lost, out>>
      /\ intact' = IF sending = <<>> THEN IntactWith(Len(sendBuf), Last(sent)) ELSE intact
  BY DEF SendToSocketBuf
<1>2. /\ kind \in Kinds /\ sent \in Seq(Packets[kind]) /\ sendBuf \in Seq(Seq(Bytes))
      /\ Len(sent) \in Nat /\ intact \in Nat /\ Len(sendBuf) \in Nat /\ wire \in Seq(Bytes)
      /\ Written = Len(sent) - Len(sendBuf) /\ Written \in Nat /\ intact <= Written
  BY CountsAre, CollectedIs DEF CodecInv, TypeOK
<1>3. kind = "request"
  BY <1>1 DEF CodecInv, Inv, OwnBuffers
<1>4. PICK m \in Nat : m = Len(sendBuf) /\ m >= 1 /\ Len(sent) = Written + m
  <2>1. Len(sendBuf) >= 1
    BY <1>1, <1>2, EmptySeq
  <2> QED BY <1>2, <2>1
<1>5. Written' = Len(sent)
  <2>1. Written' = Len(sent) - 0
    BY <1>1, EmptySeq DEF Written
  <2> QED BY <1>2, <2>1
<1>6. Ahead = wire
  BY <1>1, <1>2, ConcatEmptySeq DEF Ahead, ToSend
<1>7. OwnBuffers'
  BY <1>1, <1>3 DEF CodecInv, Inv, OwnBuffers
<1>8. CASE intact' = intact
  <2>1. ~AllIntact'
    BY <1>2, <1>4, <1>5, <1>8 DEF AllIntact
  <2>2. Ahead' = Ahead
    BY <1>1, <1>6, <2>1 DEF Ahead
  <2>3. OneSend'
    BY <1>1, <2>1 DEF OneSend
  <2>4. ~lost \/ ~AllIntact
    BY DEF CodecInv, Inv, IntactFirst
  <2>5. <<>> \in Seq(Bytes) /\ \A i \in 1..intact : sent'[i] = sent[i]
    BY <1>1, EmptySeq
  <2> QED BY <1>1, <1>7, <1>8, <2>1, <2>2, <2>3, <2>4, <2>5, UncountedStep DEF Inv
<1>9. CASE intact' # intact
  <2>1. /\ sending = <<>> /\ intact = Written /\ m = 1 /\ Followed(Last(sent))
        /\ intact' = intact + 1
    BY <1>1, <1>4, <1>9 DEF IntactWith
  <2>2. PICK p \in Packets[kind] : p = sent[intact + 1]
    <3>1. intact + 1 \in 1..Len(sent)
      BY <1>2, <1>4, <2>1
    <3> QED BY <1>2, <3>1, ElementOfSeq
  <2>3. Last(sent) = p
    <3>1. Len(sent) = intact + 1
      BY <1>4, <2>1
    <3> QED BY <2>2, <3>1 DEF Last
  <2>4. PICK f \in Seq(Bytes) : f = BytesOf(p) /\ Len(f) >= 2
    <3>1. /\ BytesOf(p) \in Seq(Bytes) /\ Len(BytesOf(p)) = FrameLength(p) + 2 - CountsItself
          /\ FrameLength(p) \in 0..(ShortValues - 1)
      BY <1>2, <2>1, <2>3, FrameIs
    <3>2. CountsItself = 0
      BY <1>3 DEF CountsItself
    <3> QED BY <3>1, <3>2, SizesAre
  <2>5. socketBuf' = f
    <3>1. Head(sendBuf) = f
      BY <1>1, <2>1, <2>2, <2>4 DEF CodecInv, Inv, OneSend
    <3>2. sendBuf = <<f>>
      <4>1. Len(sendBuf) = 1 /\ Head(sendBuf) = sendBuf[1]
        BY <1>2, <1>4, <2>1
      <4>2. PICK t \in Seq(Seq(Bytes)) : t = <<f>> /\ Len(t) = 1 /\ t[1] = f
        <5>1. PICK e \in Seq(Seq(Bytes)) : e = <<>> /\ Len(e) = 0
          BY EmptySeq
        <5>2. PICK t \in Seq(Seq(Bytes)) :
                t = Append(e, f) /\ Len(t) = Len(e) + 1 /\ t[Len(e) + 1] = f
          BY AppendProperties
        <5>3. Append(e, f) = <<f>>
          BY <5>1
        <5> QED BY <5>2, <5>3
      <4>3. Len(t) = Len(sendBuf) /\ \A i \in 1..Len(t) : t[i] = sendBuf[i]
        BY <3>1, <4>1, <4>2
      <4> QED BY <1>2, <4>2, <4>3, SeqEqual
    <3> QED BY <1>1, <3>2, FlattenShort
  <2>6. AllIntact /\ AllIntact'
    <3>1. Written' = intact'
      BY <1>4, <1>5, <2>1
    <3> QED BY <2>1, <3>1 DEF AllIntact
  <2>7. Ahead' = Ahead \o f
    BY <1>1, <1>6, <2>5, <2>6 DEF Ahead, ToSend
  <2>8. f # <<>>
    BY <2>4, EmptySeq
  <2>9. OneSend'
    BY <1>1, <2>1, <2>5, <2>8 DEF OneSend
  <2>10. /\ \A i \in 1..intact : sent'[i] = sent[i]
         /\ p = sent'[intact + 1] /\ Followed(p)
    BY <1>1, <2>1, <2>2, <2>3
  <2> QED BY <1>1, <1>7, <2>1, <2>4, <2>6, <2>7, <2>9, <2>10, CountedStep DEF Inv
<1> QED BY <1>8, <1>9

\* Nothing is sent, and nothing is due.
LEMMA InitStep == Init => CodecInv
<1> SUFFICES ASSUME Init PROVE CodecInv
  OBVIOUS
<1>1. TypeOK
  BY InitTyped
<1>2. /\ sendBuf = <<>> /\ wire = <<>> /\ in = <<>> /\ sending = <<>> /\ ~filled /\ ~lost
      /\ length = -1 /\ Len(out) = 0 /\ intact = 0
  BY EmptySeq DEF Init
<1>3. OwnBuffers /\ OneSend /\ IntactFirst
  BY <1>2 DEF OwnBuffers, OneSend, IntactFirst
<1>4. Stream = <<>> /\ FlattenSeq(Due) = <<>> /\ <<>> \in Seq(Bytes)
  <2>1. LengthRead = <<>> /\ ToSend = <<>>
    BY <1>2 DEF LengthRead, ToSend
  <2>2. <<>> \o <<>> = <<>>
    OBVIOUS
  <2>3. Stream = <<>>
    BY <1>2, <2>1, <2>2 DEF Stream, Ahead
  <2>4. FlattenSeq(Due) = <<>>
    BY <1>1, <1>2, NothingDue
  <2> QED BY <2>3, <2>4, EmptySeq
<1>5. InStep
  <2>1. <<>> = <<>> \o <<>>
    OBVIOUS
  <2> QED BY <1>4, <2>1 DEF InStep, Continues
<1> QED BY <1>1, <1>3, <1>5 DEF CodecInv, Inv

\* Every step keeps the decoder in step with the encoder.
LEMMA NextStep ==
  ASSUME CodecInv, [Next]_vars
  PROVE  CodecInv'
<1>1. TypeOK'
  BY NextTyped DEF CodecInv
<1>2. CASE \E p \in Packets[kind] : encode(p) \/ PushPacket(p)
  BY <1>1, <1>2, encodeStep, PushPacketStep DEF CodecInv
<1>3. CASE Flush \/ OnSend
  BY <1>1, <1>3, SendToSocketBufStep, SocketStep DEF CodecInv, Flush
<1>4. CASE Arrive
  BY <1>1, <1>4, ArriveStep DEF CodecInv
<1>5. CASE Receive
  BY <1>1, <1>5, decodeLengthStep, decodePacketStep, decodeThrowsStep, ProcessPacketStep,
     ProcessPacketLostStep
  DEF CodecInv, Receive
<1>6. CASE UNCHANGED vars
  <2>1. UNCHANGED Others /\ UNCHANGED <<in, length, lost, out>>
    BY <1>6 DEF vars, Others
  <2>2. Len(out) <= intact => Due' = Due
    BY <2>1, OthersKept, DueSame
  <2>3. Stream' = Stream
    <3>1. LengthRead' = LengthRead
      BY <2>1, OthersKept DEF LengthRead, LengthField
    <3> QED BY <2>1, <3>1, OthersKept DEF Stream
  <2>4. Inv'
    BY <2>1, <2>2, <2>3, OthersKeep DEF CodecInv, Inv, OwnBuffers, IntactFirst, InStep
  <2> QED BY <1>1, <2>4 DEF CodecInv
<1> QED BY <1>2, <1>3, <1>4, <1>5, <1>6 DEF Next

\* The inductive invariant is one.
THEOREM CodecInvariant == Spec => []CodecInv
<1>1. CodecInv /\ [Next]_vars => CodecInv'
  BY NextStep
<1> QED BY <1>1, InitStep, PTL DEF Spec

\* The decoder does not lose its place while all that was written is intact, also
\* after a server message whose length is negative as a short.  A response of such
\* a length does make the client lose it (ProcessPacketLost), and is not intact.
THEOREM DecoderStaysInStep == Spec => []StaysInStep
<1>1. CodecInv => StaysInStep
  <2> SUFFICES ASSUME CodecInv, AllIntact
               PROVE  LengthRead \o in \o wire \o ToSend = FlattenSeq(Due)
    BY DEF StaysInStep
  <2>1. Len(out) <= intact
    BY DEF CodecInv, Inv, IntactFirst
  <2>2. Stream = FlattenSeq(Due)
    <3>1. FlattenSeq(Due) \in Seq(Bytes)
      BY <2>1, DueBytes
    <3> QED BY <2>1, <3>1, ConcatEmptySeq DEF CodecInv, Inv, InStep, Continues
  <2>3. PICK a \in Seq(Bytes), b \in Seq(Bytes), c \in Seq(Bytes), d \in Seq(Bytes) :
          a = LengthRead /\ b = in /\ c = wire /\ d = ToSend
    BY StreamIs DEF CodecInv
  <2>4. ((a \o b) \o c) \o d = a \o (b \o (c \o d))
    <3>1. Regrouped(Bytes, a, b, c, d)
      BY Regroup
    <3> QED BY <3>1 DEF Regrouped
  <2> QED BY <2>2, <2>3, <2>4 DEF Stream, Ahead
<1> QED BY <1>1, CodecInvariant, PTL

----------------------------------------------------------------------------
(* Codec implements FrameFifo, but for its fairness.                       *)

\* What the codes must be to be read back: the numbers the code field holds.
CodesFit ==
  /\ \A p \in Packets["message"] : Shifted(p.code, HeaderLength) = 0
  /\ \A p \in Packets["request"] : p.code < Base
  /\ \A p \in Packets["response"] : p.code < ShortValues

\* What is handed over is what was sent, as far as it is intact, and it fits.
OutSound == \A i \in 1..Len(out) : i <= intact => out[i] = sent[i] /\ Fits(sent[i])

\* The first packet that does not fit.
FirstUnfitAt(s, k) ==
  /\ k \in 0..Len(s)
  /\ k = 0 => \A i \in 1..Len(s) : Fits(s[i])
  /\ k # 0 => ~Fits(s[k]) /\ \A i \in 1..(k - 1) : Fits(s[i])

\* SelectInSeq finds it.
LEMMA FirstUnfitIs ==
  ASSUME NEW S, NEW s \in Seq(S)
  PROVE  /\ FirstUnfitAt(s, FirstUnfit(s))
         /\ \A k : FirstUnfitAt(s, k) => k = FirstUnfit(s)
<1> DEFINE I == {i \in 1..Len(s) : ~Fits(s[i])}
<1>1. Len(s) \in Nat
  BY LenProperties
<1>2. FirstUnfit(s) = IF I # {} THEN Min(I) ELSE 0
  BY DEF FirstUnfit, SelectInSeq
<1>3. FirstUnfitAt(s, FirstUnfit(s))
  <2>1. CASE I = {}
    BY <1>1, <1>2, <2>1 DEF FirstUnfitAt
  <2>2. CASE I # {}
    <3>1. PICK k \in I : k = FirstUnfit(s) /\ \A j \in I : k <= j
      <4>1. I \subseteq Nat
        BY <1>1
      <4> HIDE DEF I
      <4> QED BY <1>2, <2>2, <4>1, LeastIs
    <3>2. \A i \in 1..(k - 1) : Fits(s[i])
      BY <1>1, <3>1
    <3> QED BY <1>1, <3>1, <3>2 DEF FirstUnfitAt
  <2> QED BY <2>1, <2>2
<1>4. ASSUME NEW k, FirstUnfitAt(s, k) PROVE k = FirstUnfit(s)
  <2>1. PICK m : m = FirstUnfit(s) /\ FirstUnfitAt(s, m)
    BY <1>3
  <2> QED BY <1>1, <1>4, <2>1 DEF FirstUnfitAt
<1> QED BY <1>3, <1>4

\* The sound prefix of packets that fit, and of one more.
LEMMA SoundPrefixIs ==
  ASSUME NEW S, NEW s \in Seq(S), NEW n \in Nat, n <= Len(s),
         \A i \in 1..n : Fits(s[i])
  PROVE  /\ SoundPrefix(s) \in Seq(S)
         /\ n <= Len(SoundPrefix(s)) /\ Len(SoundPrefix(s)) <= Len(s)
         /\ \A i \in 1..Len(SoundPrefix(s)) : SoundPrefix(s)[i] = s[i]
<1>1. PICK k \in 0..Len(s) : k = FirstUnfit(s) /\ FirstUnfitAt(s, k)
  BY FirstUnfitIs DEF FirstUnfitAt
<1>2. CASE k = 0
  <2>1. SoundPrefix(s) = s
    BY <1>1, <1>2 DEF SoundPrefix
  <2> QED BY <2>1, LenProperties
<1>3. CASE k # 0
  <2>1. SoundPrefix(s) = SubSeq(s, 1, k - 1)
    BY <1>1, <1>3 DEF SoundPrefix
  <2>2. n <= k - 1
    <3>1. ~Fits(s[k]) /\ k \in Nat
      BY <1>1, <1>3, LenProperties DEF FirstUnfitAt
    <3>2. k \notin 1..n
      BY <3>1
    <3> QED BY <1>3, <3>1, <3>2
  <2>3. PICK m \in Nat : m = k - 1 /\ m <= Len(s)
    BY <1>1, <1>3, LenProperties
  <2>4. \A i \in 1..m : s[i] \in S
    <3>1. \A i \in 1..m : i \in 1..Len(s)
      BY <2>3, LenProperties
    <3> QED BY <3>1, ElementOfSeq
  <2>5. /\ SubSeq(s, 1, m) \in Seq(S)
        /\ Len(SubSeq(s, 1, m)) = IF 1 <= m THEN m - 1 + 1 ELSE 0
        /\ \A i \in 1..(m - 1 + 1) : SubSeq(s, 1, m)[i] = s[1 + i - 1]
    <3>1. 1 \in Int /\ m \in Int
      OBVIOUS
    <3> QED BY <2>4, <3>1, SubSeqProperties
  <2>6. PICK t \in Seq(S) :
          /\ t = SoundPrefix(s) /\ Len(t) = IF 1 <= m THEN m - 1 + 1 ELSE 0
          /\ \A i \in 1..(m - 1 + 1) : t[i] = s[1 + i - 1]
    BY <2>1, <2>3, <2>5
  <2>7. Len(t) = m /\ \A i \in 1..m : t[i] = s[i]
    BY <2>6
  <2> QED BY <2>2, <2>3, <2>6, <2>7
<1> QED BY <1>2, <1>3

\* A packet sent is written, or comes after one that does not fit.
LEMMA SoundPrefixAppend ==
  ASSUME NEW S, NEW s \in Seq(S), NEW p \in S
  PROVE  SoundPrefix(Append(s, p)) \in {SoundPrefix(s), Append(SoundPrefix(s), p)}
<1>1. PICK t \in Seq(S), n \in Nat :
        /\ t = Append(s, p) /\ n = Len(s) /\ Len(t) = n + 1 /\ t[n + 1] = p
        /\ \A i \in 1..n : t[i] = s[i]
  <2>1. PICK t \in Seq(S) : t = Append(s, p)
    BY AppendProperties
  <2>2. Len(t) = Len(s) + 1 /\ t[Len(s) + 1] = p /\ \A i \in 1..Len(s) : t[i] = s[i]
    BY <2>1, AppendProperties
  <2>3. PICK n \in Nat : n = Len(s)
    BY LenProperties
  <2> QED BY <2>1, <2>2, <2>3
<1>2. PICK k \in 0..n : k = FirstUnfit(s) /\ FirstUnfitAt(s, k)
  BY <1>1, FirstUnfitIs DEF FirstUnfitAt
<1>3. ASSUME NEW m \in 0..n
      PROVE  SubSeq(t, 1, m) = SubSeq(s, 1, m)
  <2>1. \A i \in 1..m : i \in 1..n /\ t[i] = s[i]
    BY <1>1
  <2>2. SubSeq(t, 1, m) = [i \in 1..m |-> t[i]] /\ SubSeq(s, 1, m) = [i \in 1..m |-> s[i]]
    BY <1>1
  <2> QED BY <2>1, <2>2
<1>4. CASE k # 0
  <2>1. FirstUnfitAt(t, k)
    BY <1>1, <1>2, <1>4 DEF FirstUnfitAt
  <2>2. FirstUnfit(t) = k
    BY <2>1, FirstUnfitIs
  <2>3. SubSeq(t, 1, k - 1) = SubSeq(s, 1, k - 1)
    BY <1>3, <1>4
  <2> QED BY <1>1, <1>2, <1>4, <2>2, <2>3 DEF SoundPrefix
<1>5. CASE k = 0 /\ Fits(p)
  <2>1. FirstUnfitAt(t, 0)
    <3>1. \A i \in 1..(n + 1) : i \in 1..n \/ i = n + 1
      OBVIOUS
    <3> QED BY <1>1, <1>2, <1>5, <3>1 DEF FirstUnfitAt
  <2>2. FirstUnfit(t) = 0
    BY <2>1, FirstUnfitIs
  <2> QED BY <1>1, <1>2, <1>5, <2>2 DEF SoundPrefix
<1>6. CASE k = 0 /\ ~Fits(p)
  <2>1. FirstUnfitAt(t, n + 1)
    BY <1>1, <1>2, <1>6 DEF FirstUnfitAt
  <2>2. FirstUnfit(t) = n + 1 /\ n + 1 # 0 /\ (n + 1) - 1 = n
    BY <2>1, FirstUnfitIs
  <2>3. SubSeq(t, 1, n) = SubSeq(s, 1, n) /\ SubSeq(s, 1, n) = s
    BY <1>1, <1>3, SubSeqFull
  <2> QED BY <1>1, <1>2, <1>6, <2>2, <2>3 DEF SoundPrefix
<1> QED BY <1>4, <1>5, <1>6

\* What a decoder makes of the body of a packet is the packet.
LEMMA DecodedIs ==
  ASSUME CodesFit, kind \in {"message", "request"}, NEW p \in Packets[kind],
         Body(p) \in Seq(Bytes)
  PROVE  Decoded(Body(p)) = p
<1>1. /\ p = [code |-> p.code, bytes |-> p.bytes]
      /\ p.code \in Nat /\ p.bytes \in Seq(Bytes)
  <2>1. p \in [code : Nat, bytes : Seq(Bytes)]
    BY CodecAssumption DEF Kinds
  <2> QED BY <2>1
<1>2. HeaderLength \in Nat /\ HeaderLength >= 2
  BY CodecAssumption
<1>3. PICK c \in Seq(Bytes), b \in Seq(Bytes), u \in Seq(Bytes) :
        /\ c = (IF kind = "message" THEN BigEndian(p.code, HeaderLength)
                                    ELSE LittleEndian(p.code, 2))
        /\ b = p.bytes /\ u = Body(p) /\ u = c \o b
        /\ Len(c) = CodeLength
  <2>1. CASE kind = "message"
    BY <1>1, <1>2, <2>1, BigEndianIs DEF Body, CodeLength
  <2>2. CASE kind = "request"
    BY <1>1, <2>2, LittleEndianIs DEF Body, CodeLength
  <2> QED BY <2>1, <2>2
<1>4. SubSeq(u, 1, CodeLength) = c /\ SubSeq(u, CodeLength + 1, Len(u)) = b
  <2>1. u \o <<>> = c \o b
    BY <1>3, ConcatEmptySeq
  <2>2. Len(c) <= Len(u)
    <3>1. Len(u) = Len(c) + Len(b) /\ Len(c) \in Nat /\ Len(b) \in Nat
      BY <1>3, ConcatProperties, LenProperties
    <3> QED BY <3>1
  <2>3. <<>> \in Seq(Bytes)
    BY EmptySeq
  <2>4. CutsAt(Bytes, u, <<>>, c, b)
    BY <2>1, <2>2, <2>3, Cut
  <2>5. PICK w \in Seq(Bytes) : w = SubSeq(u, CodeLength + 1, Len(u)) /\ w \o <<>> = b
    BY <1>3, <2>4 DEF CutsAt
  <2>6. w \o <<>> = w
    BY ConcatEmptySeq
  <2> QED BY <1>3, <2>4, <2>5, <2>6 DEF CutsAt
<1>5. CASE kind = "message"
  <2>1. FromBigEndian(c) = p.code
    <3>1. Shifted(p.code, HeaderLength) = 0
      BY <1>5 DEF CodesFit
    <3> QED BY <1>1, <1>2, <1>3, <1>5, <3>1, RoundTrip
  <2>2. CodeLength = HeaderLength
    BY <1>5 DEF CodeLength
  <2> QED BY <1>1, <1>3, <1>4, <1>5, <2>1, <2>2 DEF Decoded
<1>6. CASE kind = "request"
  <2>1. CodeLength = 2
    BY <1>6 DEF CodeLength
  <2>2. PICK v \in 0..(ShortValues - 1) : v = p.code /\ v < Base
    <3>1. p.code < Base
      BY <1>6 DEF CodesFit
    <3>2. Base <= ShortValues
      BY SizesAre
    <3> QED BY <1>1, <3>1, <3>2, SizesAre
  <2>3. SubSeq(u, 1, 2) = LittleEndian(v, 2)
    BY <1>3, <1>4, <1>6, <2>1, <2>2
  <2>4. Len(u) >= 2
    <3>1. Len(u) = Len(c) + Len(b) /\ Len(c) \in Nat /\ Len(b) \in Nat
      BY <1>3, ConcatProperties, LenProperties
    <3>2. Len(c) = 2
      BY <1>3, <2>1
    <3> QED BY <3>1, <3>2
  <2>5. LittleReadShort(u) = v
    BY <2>2, <2>3, <2>4, ReadsWhatWasWritten
  <2> QED BY <1>1, <1>3, <1>4, <1>6, <2>2, <2>5 DEF Decoded
<1> QED BY <1>5, <1>6

\* What the client makes of the bytes of a packet is the packet.
LEMMA ResponseDecoded ==
  ASSUME CodesFit, kind = "response", NEW p \in Packets[kind], Followed(p),
         NEW s \in Seq(Bytes), NEW n \in Nat, n <= Len(s), n = FrameLength(p),
         SubSeq(s, 1, n) = BytesOf(p)
  PROVE  [code |-> ReadUInt16(SubSeq(s, 3, 4)), bytes |-> SubSeq(s, 5, n)] = p
<1>1. /\ p = [code |-> p.code, bytes |-> p.bytes]
      /\ p.code \in Nat /\ p.bytes \in Seq(Bytes)
  <2>1. p \in [code : Nat, bytes : Seq(Bytes)]
    BY CodecAssumption DEF Kinds
  <2> QED BY <2>1
<1>2. PICK L \in Seq(Bytes), c \in Seq(Bytes), b \in Seq(Bytes), B \in Seq(Bytes),
           f \in Seq(Bytes) :
        /\ Len(L) = 2 /\ Len(c) = 2 /\ c = LittleEndian(p.code, 2) /\ b = p.bytes
        /\ B = c \o b /\ f = L \o B /\ f = BytesOf(p) /\ Len(f) = n /\ n >= 4
  <2>1. kind \in Kinds
    BY DEF Kinds
  <2>2. /\ FrameLength(p) >= 4 /\ FrameLength(p) + 2 - CountsItself = FrameLength(p)
    BY <2>1, FrameIs, SizesAre DEF CountsItself
  <2>3. Body(p) = LittleEndian(p.code, 2) \o p.bytes
    BY DEF Body
  <2>4. /\ LengthField(n) \in Seq(Bytes) /\ Len(LengthField(n)) = 2
        /\ Body(p) \in Seq(Bytes) /\ BytesOf(p) \in Seq(Bytes)
        /\ BytesOf(p) = LengthField(n) \o Body(p) /\ Len(BytesOf(p)) = n
    BY <2>1, <2>2, FrameIs
  <2>5. /\ LittleEndian(p.code, 2) \in Seq(Bytes) /\ Len(LittleEndian(p.code, 2)) = 2
        /\ n >= 4
    BY <1>1, <2>2, LittleEndianIs
  <2> QED BY <1>1, <2>3, <2>4, <2>5, Zenon
<1>3. \A i \in 1..n : s[i] = f[i]
  <2>1. \A i \in 1..n : SubSeq(s, 1, n)[i] = s[i]
    <3>1. \A i \in 1..(n + 1 - 1) : SubSeq(s, 1, n)[i] = s[1 + i - 1]
      BY PartIs
    <3> QED BY <3>1
  <2> QED BY <1>2, <2>1
<1>4. Len(b) = n - 4 /\ Len(B) = n - 2
  <2>1. Len(c \o b) = Len(c) + Len(b) /\ Len(L \o B) = Len(L) + Len(B)
    BY ConcatProperties
  <2>2. PICK i \in Nat, j \in Nat : i = Len(b) /\ j = Len(B)
    BY LenProperties
  <2>3. j = 2 + i /\ n = 2 + j
    BY <1>2, <2>1, <2>2
  <2>4. i = n - 4 /\ j = n - 2
    BY <2>3
  <2> QED BY <2>2, <2>4
<1>5. \A i \in 1..(n - 2) : f[2 + i] = B[i]
  <2> SUFFICES ASSUME NEW i \in 1..(n - 2) PROVE f[2 + i] = B[i]
    OBVIOUS
  <2>1. 2 + i \in 1..(Len(L) + Len(B)) /\ ~(2 + i <= Len(L)) /\ (2 + i) - Len(L) = i
    <3>1. Len(L) = 2 /\ Len(B) = n - 2
      BY <1>2, <1>4
    <3>2. 2 + i \in 1..(2 + (n - 2)) /\ ~(2 + i <= 2) /\ (2 + i) - 2 = i
      OBVIOUS
    <3> QED BY <3>1, <3>2
  <2>2. (L \o B)[2 + i] = B[(2 + i) - Len(L)]
    BY <2>1, ConcatProperties
  <2> QED BY <1>2, <2>1, <2>2
<1>6. B[1] = c[1] /\ B[2] = c[2] /\ \A i \in 1..(n - 4) : B[2 + i] = b[i]
  <2>1. ASSUME NEW i \in 1..2 PROVE B[i] = c[i]
    <3>1. i \in 1..(Len(c) + Len(b)) /\ i <= Len(c)
      BY <1>2, <1>4
    <3>2. (c \o b)[i] = c[i]
      BY <3>1, ConcatProperties
    <3> QED BY <1>2, <3>2
  <2>2. ASSUME NEW i \in 1..(n - 4) PROVE B[2 + i] = b[i]
    <3>1. 2 + i \in 1..(Len(c) + Len(b)) /\ ~(2 + i <= Len(c)) /\ (2 + i) - Len(c) = i
      <4>1. Len(c) = 2 /\ Len(b) = n - 4
        BY <1>2, <1>4
      <4>2. 2 + i \in 1..(2 + (n - 4)) /\ ~(2 + i <= 2) /\ (2 + i) - 2 = i
        OBVIOUS
      <4> QED BY <4>1, <4>2
    <3>2. (c \o b)[2 + i] = b[(2 + i) - Len(c)]
      BY <3>1, ConcatProperties
    <3>3. B = c \o b /\ (2 + i) - Len(c) = i
      BY <1>2, <3>1
    <3>4. b[(2 + i) - Len(c)] = b[i]
      BY <3>3
    <3> QED BY <3>2, <3>3, <3>4
  <2>3. 1 \in 1..2 /\ 2 \in 1..2
    OBVIOUS
  <2> QED BY <2>1, <2>2, <2>3, Zenon
<1>7. ReadUInt16(SubSeq(s, 3, 4)) = p.code
  <2>1. PICK t \in Seq(Bytes) :
          /\ t = SubSeq(s, 3, 4) /\ Len(t) = 4 + 1 - 3
          /\ \A i \in 1..(4 + 1 - 3) : t[i] = s[3 + i - 1]
    <3>1. SubSeq(s, 3, 4) \in Seq(Bytes)
      BY <1>2, PartIs
    <3>2. 3 <= 4 + 1 => Len(SubSeq(s, 3, 4)) = 4 + 1 - 3
      BY <1>2, PartIs
    <3>3. \A i \in 1..(4 + 1 - 3) : SubSeq(s, 3, 4)[i] = s[3 + i - 1]
      BY <1>2, PartIs
    <3>4. 3 <= 4 + 1
      OBVIOUS
    <3> QED BY <3>1, <3>2, <3>3, <3>4, Zenon
  <2>2. Len(t) = 2 /\ t[1] = s[3] /\ t[2] = s[4]
    <3>1. 1 \in 1..(4 + 1 - 3) /\ 2 \in 1..(4 + 1 - 3) /\ 3 + 1 - 1 = 3 /\ 3 + 2 - 1 = 4
          /\ 4 + 1 - 3 = 2
      OBVIOUS
    <3> QED BY <2>1, <3>1
  <2>3. s[3] = c[1] /\ s[4] = c[2]
    <3>1. 3 \in 1..n /\ 4 \in 1..n /\ 1 \in 1..(n - 2) /\ 2 \in 1..(n - 2) /\ 2 + 1 = 3 /\ 2 + 2 = 4
      BY <1>2
    <3> QED BY <1>3, <1>5, <1>6, <3>1
  <2>4. SubSeq(t, 1, 2) = c
    <3>1. PICK w \in Seq(Bytes) : w = SubSeq(t, 1, 2) /\ Len(w) = 2 /\ w[1] = t[1] /\ w[2] = t[2]
      <4>1. Len(t) >= 2
        BY <2>2
      <4>2. /\ SubSeq(t, 1, 2) \in Seq(Bytes) /\ Len(SubSeq(t, 1, 2)) = 2
            /\ SubSeq(t, 1, 2)[1] = t[1] /\ SubSeq(t, 1, 2)[2] = t[2]
        BY <4>1, FirstTwo
      <4> QED BY <4>2, Zenon
    <3>2. Len(w) = Len(c) /\ \A i \in 1..Len(w) : w[i] = c[i]
      BY <1>2, <2>2, <2>3, <3>1
    <3>3. w = c
      BY <3>2, SeqEqual
    <3> QED BY <3>1, <3>3
  <2>5. PICK v \in 0..(ShortValues - 1) : v = p.code
    <3>1. p.code < ShortValues
      BY DEF CodesFit
    <3> QED BY <1>1, <3>1, SizesAre
  <2>6. ReadUInt16(t) = v
    <3>1. SubSeq(t, 1, 2) = LittleEndian(v, 2)
      BY <1>2, <2>4, <2>5
    <3>2. Len(t) >= 2
      BY <2>2
    <3> QED BY <3>1, <3>2, ReadsWhatWasWritten
  <2> QED BY <2>1, <2>5, <2>6
<1>8. SubSeq(s, 5, n) = p.bytes
  <2>1. PICK w \in Seq(Bytes) :
          /\ w = SubSeq(s, 5, n)
          /\ 5 <= n + 1 => Len(w) = n + 1 - 5
          /\ \A i \in 1..(n + 1 - 5) : w[i] = s[5 + i - 1]
    <3>1. SubSeq(s, 5, n) \in Seq(Bytes)
      BY PartIs
    <3>2. 5 <= n + 1 => Len(SubSeq(s, 5, n)) = n + 1 - 5
      BY PartIs
    <3>3. \A i \in 1..(n + 1 - 5) : SubSeq(s, 5, n)[i] = s[5 + i - 1]
      BY PartIs
    <3> QED BY <3>1, <3>2, <3>3, Zenon
  <2>2. Len(w) = n - 4 /\ n + 1 - 5 = n - 4
    BY <1>2, <2>1
  <2>3. ASSUME NEW i \in 1..(n - 4) PROVE w[i] = b[i]
    <3>1. /\ 5 + i - 1 = 4 + i /\ 4 + i \in 1..n /\ 2 + i \in 1..(n - 2)
          /\ 2 + (2 + i) = 4 + i
      OBVIOUS
    <3>2. w[i] = s[4 + i]
      BY <2>1, <2>2, <3>1
    <3>3. s[4 + i] = B[2 + i]
      BY <1>3, <1>5, <3>1
    <3> QED BY <1>6, <3>2, <3>3
  <2>4. Len(w) = Len(b) /\ \A i \in 1..Len(w) : w[i] = b[i]
    BY <1>4, <2>2, <2>3
  <2>5. w = b
    BY <2>4, SeqEqual
  <2> QED BY <1>2, <2>1, <2>5
<1> QED BY <1>1, <1>7, <1>8

\* The same packets have the same sound prefix.
LEMMA SoundPrefixSame ==
  ASSUME UNCHANGED kind
  PROVE  \A s : SoundPrefix(s)' = SoundPrefix(s)
BY DEF SoundPrefix, FirstUnfit, SelectInSeq, Fits, FrameLength

\* What a step does to the packets that are counted.
SentKept == \A i \in 1..intact : sent'[i] = sent[i]
HandsNothing == UNCHANGED <<out, intact>> /\ SentKept
CountsOneMore == UNCHANGED out /\ AllIntact /\ intact' = intact + 1 /\ SentKept
HandsOver == UNCHANGED <<sent, intact>> /\ \E q : out' = Append(out, q)

\* One packet more is handed over.
LEMMA OutLonger ==
  ASSUME CodecInv, [Next]_vars, NEW q, out' = Append(out, q)
  PROVE  /\ Len(out') = Len(out) + 1 /\ Len(out) \in Nat /\ out'[Len(out) + 1] = q
         /\ \A i \in 1..Len(out) : out'[i] = out[i]
         /\ out \in Seq([code : Int, bytes : Seq(Bytes)])
         /\ out' \in Seq([code : Int, bytes : Seq(Bytes)])
<1>1. out \in Seq([code : Int, bytes : Seq(Bytes)]) /\ out' \in Seq([code : Int, bytes : Seq(Bytes)])
  <2>1. TypeOK'
    BY NextTyped DEF CodecInv
  <2> QED BY <2>1 DEF CodecInv, TypeOK
<1>2. Len(out) \in Nat
  BY CountsAre DEF CodecInv
<1> QED BY <1>1, <1>2

\* Every step does one of the three.
LEMMA StepIs ==
  ASSUME CodecInv, [Next]_vars
  PROVE  UNCHANGED kind /\ (HandsNothing \/ CountsOneMore \/ HandsOver)
<1>1. /\ intact \in Nat /\ Len(sent) \in Nat /\ intact <= Len(sent)
      /\ AllIntact <=> intact = Written
      /\ sent \in Seq(Packets[kind])
  BY CountsAre DEF CodecInv
<1>2. ASSUME NEW p \in Packets[kind], encode(p) \/ PushPacket(p)
      PROVE  UNCHANGED kind /\ (HandsNothing \/ CountsOneMore)
  <2>1. /\ sent' = Append(sent, p) /\ UNCHANGED <<kind, out>>
        /\ intact' = intact \/ intact' = IntactWith(1, p)
    BY <1>2 DEF encode, PushPacket, Accept
  <2>2. \A i \in 1..Len(sent) : sent'[i] = sent[i]
    BY <1>1, <2>1, AppendProperties
  <2>3. SentKept
    BY <1>1, <2>2 DEF SentKept
  <2> QED BY <1>1, <2>1, <2>3 DEF IntactWith, HandsNothing, CountsOneMore
<1>3. CASE SendToSocketBuf
  <2>1. /\ UNCHANGED <<kind, sent, out>>
        /\ intact' = intact \/ intact' = IntactWith(Len(sendBuf), Last(sent))
    BY <1>3 DEF SendToSocketBuf
  <2> QED BY <1>1, <2>1 DEF IntactWith, HandsNothing, CountsOneMore, SentKept
<1>4. CASE UNCHANGED <<kind, sent, out, intact>>
  BY <1>4 DEF HandsNothing, SentKept
<1>5. CASE UNCHANGED <<kind, sent, intact>> /\ \E q : out' = Append(out, q)
  BY <1>5 DEF HandsOver
<1>6. CASE SendBuffer \/ OnSend \/ Arrive \/ decodeLength \/ decodeThrows \/ UNCHANGED vars
  BY <1>4, <1>6 DEF SendBuffer, OnSend, Arrive, decodeLength, decodeThrows, vars
<1>7. CASE decodePacket \/ ProcessPacket \/ ProcessPacketLost
  BY <1>4, <1>5, <1>7 DEF decodePacket, ProcessPacket, ProcessPacketLost
<1> QED BY <1>2, <1>3, <1>6, <1>7 DEF Next, Flush, Receive

\* What is handed over while packets are counted that have not been: the next of
\* them, as the decoder makes it.
LEMMA NextIs ==
  ASSUME CodecInv, [Next]_vars, HandsOver, Len(out) < intact
  PROVE  \E p \in Packets[kind] :
           /\ p = sent[Len(out) + 1] /\ Followed(p)
           /\ FrameLength(p) < ShortValues \div 2
           /\ \/ /\ kind \in {"message", "request"}
                 /\ out' = Append(out, Decoded(Body(p)))
              \/ /\ kind = "response" /\ FrameLength(p) \in Nat /\ FrameLength(p) <= Len(in)
                 /\ SubSeq(in, 1, FrameLength(p)) = BytesOf(p)
                 /\ out' = Append(out, [code |-> ReadUInt16(SubSeq(in, 3, 4)),
                                        bytes |-> SubSeq(in, 5, FrameLength(p))])
<1>1. out' # out
  <2>1. Len(out') = Len(out) + 1 /\ Len(out) \in Nat
    BY OutLonger DEF HandsOver
  <2> QED BY <2>1
<1>2. CASE decodePacket
  <2>1. kind \in {"message", "request"}
    BY <1>2 DEF decodePacket, Decodes
  <2> QED BY <1>2, <2>1, PacketTaken
<1>3. CASE ProcessPacket
  <2>1. PICK p \in Packets[kind] :
          /\ p = sent[Len(out) + 1] /\ Followed(p)
          /\ ReadInt16(in) = FrameLength(p)
          /\ SubSeq(in, 1, FrameLength(p)) = BytesOf(p)
    BY <1>3, ResponseIs
  <2>2. kind = "response" /\ kind \in Kinds
    BY <1>3 DEF ProcessPacket, Kinds
  <2>3. FrameLength(p) \in Nat /\ FrameLength(p) < ShortValues \div 2
    BY <2>1, <2>2, FrameIs
  <2>4. /\ FrameLength(p) <= Len(in)
        /\ out' = Append(out, [code |-> ReadUInt16(SubSeq(in, 3, 4)),
                               bytes |-> SubSeq(in, 5, FrameLength(p))])
    BY <1>3, <2>1 DEF ProcessPacket
  <2> QED BY <2>1, <2>2, <2>3, <2>4
<1>4. ~ProcessPacketLost
  BY LostAfterAll, CountsAre DEF CodecInv
<1> QED
  BY <1>1, <1>2, <1>3, <1>4
  DEF Next, encode, PushPacket, Accept, Flush, SendToSocketBuf, SendBuffer, OnSend, Arrive,
      Receive, decodeLength, decodeThrows, vars

\* What was handed over stays what was sent.
LEMMA OutSoundStep ==
  ASSUME CodesFit, CodecInv, OutSound, [Next]_vars
  PROVE  OutSound'
<1>1. /\ intact \in Nat /\ Len(out) \in Nat /\ kind \in Kinds /\ intact <= Len(sent)
      /\ sent \in Seq(Packets[kind]) /\ Len(sent) \in Nat
      /\ UNCHANGED kind
  BY CountsAre, StepIs DEF CodecInv
<1>2. \A p : Fits(p)' = Fits(p)
  BY <1>1 DEF Fits, FrameLength
<1>3. CASE HandsNothing
  <2>1. \A i \in 1..intact : sent'[i] = sent[i]
    BY <1>3 DEF HandsNothing, SentKept
  <2>2. \A i \in 1..Len(out) : i <= intact => out[i] = sent'[i] /\ Fits(sent'[i])
    BY <1>1, <2>1 DEF OutSound
  <2> QED BY <1>1, <1>3, <2>2 DEF OutSound, HandsNothing, Fits, FrameLength
<1>4. CASE CountsOneMore
  <2>1. \A i \in 1..intact : sent'[i] = sent[i]
    BY <1>4 DEF CountsOneMore, SentKept
  <2>2. Len(out) <= intact
    BY <1>4 DEF CodecInv, Inv, IntactFirst, CountsOneMore
  <2>3. \A i \in 1..Len(out) : out[i] = sent'[i] /\ Fits(sent'[i])
    BY <1>1, <2>1, <2>2 DEF OutSound
  <2> QED BY <1>1, <1>4, <2>3 DEF OutSound, CountsOneMore, Fits, FrameLength
<1>5. CASE HandsOver
  <2>1. PICK q : out' = Append(out, q)
    BY <1>5 DEF HandsOver
  <2>2. /\ Len(out') = Len(out) + 1 /\ out'[Len(out) + 1] = q
        /\ \A i \in 1..Len(out) : out'[i] = out[i]
    BY <2>1, OutLonger
  <2>3. Len(out) < intact => q = sent[Len(out) + 1] /\ Fits(sent[Len(out) + 1])
    <3> SUFFICES ASSUME Len(out) < intact
                 PROVE  q = sent[Len(out) + 1] /\ Fits(sent[Len(out) + 1])
      OBVIOUS
    <3>1. PICK p \in Packets[kind] :
            /\ p = sent[Len(out) + 1] /\ Followed(p) /\ FrameLength(p) < ShortValues \div 2
            /\ \/ /\ kind \in {"message", "request"}
                  /\ out' = Append(out, Decoded(Body(p)))
               \/ /\ kind = "response" /\ FrameLength(p) \in Nat /\ FrameLength(p) <= Len(in)
                  /\ SubSeq(in, 1, FrameLength(p)) = BytesOf(p)
                  /\ out' = Append(out, [code |-> ReadUInt16(SubSeq(in, 3, 4)),
                                         bytes |-> SubSeq(in, 5, FrameLength(p))])
      BY <1>5, NextIs
    <3>2. out' = Append(out, p)
      <4>1. Body(p) \in Seq(Bytes) /\ in \in Seq(Bytes)
        BY <1>1, <3>1, FrameIs DEF CodecInv, TypeOK
      <4>2. CASE kind \in {"message", "request"} /\ out' = Append(out, Decoded(Body(p)))
        BY <3>1, <4>1, <4>2, DecodedIs
      <4>3. CASE /\ kind = "response" /\ FrameLength(p) \in Nat /\ FrameLength(p) <= Len(in)
                 /\ SubSeq(in, 1, FrameLength(p)) = BytesOf(p)
                 /\ out' = Append(out, [code |-> ReadUInt16(SubSeq(in, 3, 4)),
                                        bytes |-> SubSeq(in, 5, FrameLength(p))])
        <5>1. [code |-> ReadUInt16(SubSeq(in, 3, 4)), bytes |-> SubSeq(in, 5, FrameLength(p))] = p
          BY <3>1, <4>1, <4>3, ResponseDecoded
        <5> QED BY <4>3, <5>1
      <4> QED BY <3>1, <4>2, <4>3
    <3>3. out'[Len(out) + 1] = p
      BY <3>2, OutLonger
    <3> QED BY <2>2, <3>1, <3>3 DEF Fits
  <2>4. \A i \in 1..(Len(out) + 1) : i <= intact => out'[i] = sent[i] /\ Fits(sent[i])
    <3>1. \A i \in 1..(Len(out) + 1) : i \in 1..Len(out) \/ (i = Len(out) + 1 /\ (i <= intact => Len(out) < intact))
      BY <1>1
    <3> QED BY <2>2, <2>3, <3>1 DEF OutSound
  <2> QED BY <1>1, <1>5, <2>2, <2>4 DEF OutSound, HandsOver, Fits, FrameLength
<1> QED BY <1>3, <1>4, <1>5, StepIs

\* What was handed over is what was sent, and all of it fits.
THEOREM SoundInvariant == CodesFit => (Spec => []OutSound)
<1> SUFFICES ASSUME CodesFit PROVE Spec => []OutSound
  OBVIOUS
<1>1. Init => OutSound
  BY EmptySeq DEF Init, OutSound
<1>2. CodecInv /\ OutSound /\ [Next]_vars => OutSound'
  BY OutSoundStep
<1>3. Spec => []CodecInv
  BY CodecInvariant
<1> QED BY <1>1, <1>2, <1>3, PTL DEF Spec

\* While all that was written is intact, a decoder has handed over what was sent,
\* where the field of the code holds it: the request codes of two bytes are all
\* that stand against it then.
THEOREM SentIsDecoded == CodesFit => (Spec => [](AllIntact => DecodesWhatWasSent))
<1> SUFFICES ASSUME CodesFit PROVE Spec => [](AllIntact => DecodesWhatWasSent)
  OBVIOUS
<1>1. CodecInv /\ OutSound => (AllIntact => DecodesWhatWasSent)
  <2> SUFFICES ASSUME CodecInv, OutSound, AllIntact PROVE DecodesWhatWasSent
    OBVIOUS
  <2>1. /\ Len(out) \in Nat /\ Len(sent) \in Nat /\ intact \in Nat /\ intact <= Len(sent)
        /\ out \in Seq([code : Int, bytes : Seq(Bytes)]) /\ sent \in Seq(Packets[kind])
    BY CountsAre DEF CodecInv, TypeOK
  <2>2. Len(out) <= intact /\ Len(out) <= Len(sent)
    BY <2>1 DEF CodecInv, Inv, IntactFirst
  <2>3. \A i \in 1..Len(out) : out[i] = sent[i] /\ i \in 1..Len(sent)
    BY <2>1, <2>2 DEF OutSound
  <2>4. SubSeq(out, 1, Len(out)) = SubSeq(sent, 1, Len(out))
    <3>1. /\ SubSeq(out, 1, Len(out)) = [i \in 1..Len(out) |-> out[i]]
          /\ SubSeq(sent, 1, Len(out)) = [i \in 1..Len(out) |-> sent[i]]
      BY <2>1
    <3> QED BY <2>3, <3>1
  <2> QED BY <2>1, <2>2, <2>4 DEF DecodesWhatWasSent, IsPrefix
<1> QED BY <1>1, CodecInvariant, SoundInvariant, PTL

\* The first elements of a sequence.
LEMMA FirstOf ==
  ASSUME NEW S, NEW s \in Seq(S), NEW m \in Nat, m <= Len(s)
  PROVE  /\ SubSeq(s, 1, m) \in Seq(S) /\ Len(SubSeq(s, 1, m)) = m
         /\ \A i \in 1..m : SubSeq(s, 1, m)[i] = s[i]
<1>1. \A i \in 1..m : s[i] \in S
  <2>1. \A i \in 1..m : i \in 1..Len(s)
    BY LenProperties
  <2> QED BY <2>1, ElementOfSeq
<1>2. /\ SubSeq(s, 1, m) \in Seq(S)
      /\ Len(SubSeq(s, 1, m)) = IF 1 <= m THEN m - 1 + 1 ELSE 0
      /\ \A i \in 1..(m - 1 + 1) : SubSeq(s, 1, m)[i] = s[1 + i - 1]
  <2>1. 1 \in Int /\ m \in Int
    OBVIOUS
  <2> QED BY <1>1, <2>1, SubSeqProperties
<1>3. PICK t \in Seq(S) :
        /\ t = SubSeq(s, 1, m) /\ Len(t) = IF 1 <= m THEN m - 1 + 1 ELSE 0
        /\ \A i \in 1..(m - 1 + 1) : t[i] = s[1 + i - 1]
  BY <1>2
<1>4. Len(t) = m /\ \A i \in 1..m : t[i] = s[i]
  BY <1>3
<1> QED BY <1>3, <1>4

\* A sequence that is one longer.
LEMMA OneLonger ==
  ASSUME NEW S, NEW s \in Seq(S), NEW t \in Seq(S),
         Len(t) = Len(s) + 1, \A i \in 1..Len(s) : t[i] = s[i]
  PROVE  t[Len(s) + 1] \in S /\ t = Append(s, t[Len(s) + 1])
<1> DEFINE m == Len(s)
<1>0. m \in Nat /\ m = Len(s)
  BY LenProperties
<1> HIDE DEF m
<1>1. m + 1 \in 1..Len(t)
  BY <1>0
<1>2. PICK p \in S : p = t[m + 1]
  BY <1>1, ElementOfSeq
<1>3. PICK u \in Seq(S) :
        /\ u = Append(s, p) /\ Len(u) = m + 1 /\ u[m + 1] = p
        /\ \A i \in 1..m : u[i] = s[i]
  <2>1. PICK u \in Seq(S) : u = Append(s, p)
    BY AppendProperties
  <2>2. Len(u) = Len(s) + 1 /\ u[Len(s) + 1] = p /\ \A i \in 1..Len(s) : u[i] = s[i]
    BY <2>1, AppendProperties
  <2> QED BY <1>0, <2>1, <2>2
<1>4. Len(u) = Len(t) /\ \A i \in 1..Len(u) : u[i] = t[i]
  <2>1. \A i \in 1..(m + 1) : i \in 1..m \/ i = m + 1
    BY <1>0
  <2> QED BY <1>0, <1>2, <1>3, <2>1
<1>5. u = t
  BY <1>4, SeqEqual
<1> QED BY <1>0, <1>2, <1>3, <1>5

\* The packets that are counted.
LEMMA CountedIs ==
  ASSUME TypeOK
  PROVE  /\ SubSeq(sent, 1, intact) \in Seq(Packets[kind])
         /\ Len(SubSeq(sent, 1, intact)) = intact
         /\ \A i \in 1..intact : SubSeq(sent, 1, intact)[i] = sent[i]
BY FirstOf, CountsAre

\* Those that are to be handed over, and those that were.
LEMMA ToDeliverIs ==
  ASSUME CodecInv, OutSound
  PROVE  /\ Len(ToDeliver) \in Nat /\ Len(ToDeliver) <= intact
         /\ Len(out) <= intact => Len(out) <= Len(ToDeliver)
         /\ intact <= Len(out) => Len(ToDeliver) <= Len(out)
         /\ \A i \in 1..Len(ToDeliver) : ToDeliver[i] = sent[i]
         /\ Delivered = IF Len(out) <= Len(ToDeliver) THEN out ELSE SubSeq(out, 1, Len(ToDeliver))
<1>1. PICK s \in Seq(Packets[kind]), m \in Nat, n \in Nat :
        /\ s = SubSeq(sent, 1, intact) /\ m = intact /\ n = Len(out) /\ Len(s) = m
        /\ \A i \in 1..m : s[i] = sent[i]
  BY CountedIs, CountsAre DEF CodecInv
<1>2. \A i \in 1..n : i <= m => Fits(s[i])
  <2>1. \A i \in 1..n : i <= m => i \in 1..m
    BY <1>1
  <2> QED BY <1>1, <2>1 DEF OutSound
<1>3. PICK r \in Nat : /\ r = Len(SoundPrefix(s)) /\ r <= m /\ (n <= m => n <= r)
                       /\ \A i \in 1..r : SoundPrefix(s)[i] = s[i]
  <2>1. PICK k \in Nat : k <= m /\ (n <= m => k = n) /\ \A i \in 1..k : Fits(s[i])
    <3>1. CASE n <= m
      BY <1>2, <3>1
    <3>2. CASE ~(n <= m)
      <4>1. 0 <= m /\ \A i \in 1..0 : Fits(s[i])
        BY <1>1
      <4> QED BY <3>2, <4>1
    <3> QED BY <3>1, <3>2
  <2>2. /\ SoundPrefix(s) \in Seq(Packets[kind])
        /\ k <= Len(SoundPrefix(s)) /\ Len(SoundPrefix(s)) <= Len(s)
        /\ \A i \in 1..Len(SoundPrefix(s)) : SoundPrefix(s)[i] = s[i]
    BY <1>1, <2>1, SoundPrefixIs
  <2>3. PICK r \in Nat : r = Len(SoundPrefix(s))
    BY <2>2, LenProperties
  <2> QED BY <1>1, <2>1, <2>2, <2>3
<1>4. ToDeliver = SoundPrefix(s) /\ Len(ToDeliver) = r
  BY <1>1, <1>3 DEF ToDeliver
<1>5. \A i \in 1..r : i \in 1..m
  BY <1>3
<1>6. AllIntact => n <= r
  BY <1>1, <1>3 DEF CodecInv, Inv, IntactFirst
<1> QED BY <1>1, <1>3, <1>4, <1>5, <1>6 DEF Delivered

\* A step that counts a packet more writes it, or comes after one that does not
\* fit.
LEMMA PacketWritten ==
  ASSUME CodecInv, CodecInv', OutSound, OutSound', CountsOneMore, UNCHANGED kind
  PROVE  [Channel!Next]_<<ToDeliver, Delivered>>
<1>1. PICK s \in Seq(Packets[kind]), m \in Nat :
        /\ s = SubSeq(sent, 1, intact) /\ m = intact /\ Len(s) = m
        /\ \A i \in 1..m : s[i] = sent[i]
  BY CountedIs, CountsAre DEF CodecInv
<1>2. PICK t \in Seq(Packets[kind]) :
        /\ t = SubSeq(sent', 1, intact') /\ Len(t) = m + 1
        /\ \A i \in 1..(m + 1) : t[i] = sent'[i]
  <2>1. (/\ SubSeq(sent, 1, intact) \in Seq(Packets[kind])
         /\ Len(SubSeq(sent, 1, intact)) = intact
         /\ \A i \in 1..intact : SubSeq(sent, 1, intact)[i] = sent[i])'
    <3>1. TypeOK'
      BY DEF CodecInv
    <3> QED BY <3>1, CountedIs, PTL
  <2>2. intact' = m + 1
    BY <1>1 DEF CountsOneMore
  <2> QED BY <2>1, <2>2
<1>3. PICK p \in Packets[kind] : p = t[m + 1] /\ t = Append(s, p)
  <2>1. \A i \in 1..m : t[i] = s[i]
    <3>1. \A i \in 1..m : i \in 1..(m + 1)
      OBVIOUS
    <3> QED BY <1>1, <1>2, <3>1 DEF CountsOneMore, SentKept
  <2>2. t[m + 1] \in Packets[kind] /\ t = Append(s, t[m + 1])
    <3>1. Len(t) = Len(s) + 1 /\ \A i \in 1..Len(s) : t[i] = s[i]
      BY <1>1, <1>2, <2>1
    <3>2. t[Len(s) + 1] \in Packets[kind] /\ t = Append(s, t[Len(s) + 1])
      BY <3>1, OneLonger
    <3> QED BY <1>1, <3>2
  <2> QED BY <2>2
<1>4. t = Append(s, p)
  BY <1>3
<1>5. ToDeliver = SoundPrefix(s) /\ ToDeliver' = SoundPrefix(t)
  <2>1. SoundPrefix(t)' = SoundPrefix(t)
    BY SoundPrefixSame
  <2> QED BY <1>1, <1>2, <2>1 DEF ToDeliver
<1>6. SoundPrefix(t) \in {SoundPrefix(s), Append(SoundPrefix(s), p)}
  BY <1>4, SoundPrefixAppend
<1>7. Delivered' = Delivered
  <2>1. /\ Len(out) \in Nat /\ intact \in Nat /\ intact' = intact + 1 /\ out' = out
        /\ Len(out) <= intact
    BY CountsAre DEF CodecInv, Inv, IntactFirst, CountsOneMore
  <2>2. Delivered = out
    BY <2>1, ToDeliverIs
  <2>3. (/\ Len(out) <= intact => Len(out) <= Len(ToDeliver)
         /\ Delivered = IF Len(out) <= Len(ToDeliver) THEN out ELSE SubSeq(out, 1, Len(ToDeliver)))'
    BY ToDeliverIs, PTL
  <2>4. Len(out') <= intact'
    BY <2>1
  <2> QED BY <2>1, <2>2, <2>3, <2>4
<1>8. p \in UNION {Packets[k] : k \in Kinds}
  BY CountsAre DEF CodecInv
<1>9. CASE SoundPrefix(t) = SoundPrefix(s)
  BY <1>5, <1>7, <1>9
<1>10. CASE SoundPrefix(t) = Append(SoundPrefix(s), p)
  <2>1. Channel!Write(p)
    BY <1>5, <1>7, <1>10 DEF Channel!Write
  <2> QED BY <1>8, <2>1 DEF Channel!Next
<1> QED BY <1>6, <1>9, <1>10

\* A step that hands over the next of the packets that are counted delivers it,
\* and one that hands over anything else later changes nothing.
LEMMA PacketDelivered ==
  ASSUME CodecInv, CodecInv', OutSound, OutSound', [Next]_vars, HandsOver, UNCHANGED kind
  PROVE  [Channel!Next]_<<ToDeliver, Delivered>>
<1>1. PICK q : out' = Append(out, q)
  BY DEF HandsOver
<1>2. PICK n \in Nat :
        /\ n = Len(out) /\ Len(out') = n + 1 /\ out'[n + 1] = q
        /\ \A i \in 1..n : out'[i] = out[i]
        /\ out \in Seq([code : Int, bytes : Seq(Bytes)])
        /\ out' \in Seq([code : Int, bytes : Seq(Bytes)])
  BY <1>1, OutLonger
<1>3. ToDeliver' = ToDeliver
  <2>1. PICK s : s = SubSeq(sent, 1, intact) /\ s = SubSeq(sent', 1, intact')
    BY DEF HandsOver
  <2>2. SoundPrefix(s)' = SoundPrefix(s)
    BY SoundPrefixSame
  <2> QED BY <2>1, <2>2 DEF ToDeliver
<1>4. PICK r \in Nat :
        /\ r = Len(ToDeliver) /\ r <= intact /\ (n <= intact => n <= r) /\ (intact <= n => r <= n)
        /\ \A i \in 1..r : ToDeliver[i] = sent[i]
        /\ Delivered = IF n <= r THEN out ELSE SubSeq(out, 1, r)
  BY <1>2, ToDeliverIs
<1>5. (n + 1 <= intact => n + 1 <= r) /\ Delivered' = IF n + 1 <= r THEN out' ELSE SubSeq(out', 1, r)
  <2>1. (/\ Len(out) <= intact => Len(out) <= Len(ToDeliver)
         /\ Delivered = IF Len(out) <= Len(ToDeliver) THEN out ELSE SubSeq(out, 1, Len(ToDeliver)))'
    BY ToDeliverIs, PTL
  <2>2. Len(ToDeliver)' = r /\ Len(out') = n + 1 /\ intact' = intact
    BY <1>2, <1>3, <1>4 DEF HandsOver
  <2> QED BY <2>1, <2>2
<1>6. intact \in Nat
  BY CountsAre DEF CodecInv
<1>7. CASE n < intact
  <2>1. n + 1 <= intact /\ n + 1 <= r /\ n <= r /\ n < r
    BY <1>4, <1>5, <1>6, <1>7
  <2>2. Delivered = out /\ Delivered' = out'
    BY <1>4, <1>5, <2>1
  <2>3. q = sent[n + 1]
    <3>1. n + 1 \in 1..Len(out') /\ sent' = sent /\ intact' = intact
      BY <1>2 DEF HandsOver
    <3> QED BY <1>2, <2>1, <3>1 DEF OutSound
  <2>4. q = ToDeliver[n + 1]
    <3>1. n + 1 \in 1..r
      BY <2>1
    <3> QED BY <1>4, <2>3, <3>1
  <2>5. Channel!Deliver
    BY <1>1, <1>2, <1>3, <1>4, <2>1, <2>2, <2>4 DEF Channel!Deliver
  <2> QED BY <2>5 DEF Channel!Next
<1>8. CASE ~(n < intact)
  <2>1. r <= n /\ ~(n + 1 <= r)
    BY <1>4, <1>6, <1>8
  <2>2. Delivered = SubSeq(out, 1, r)
    <3>1. CASE n <= r
      <4>1. n = r
        BY <2>1, <3>1
      <4> QED BY <1>2, <1>4, <3>1, <4>1, SubSeqFull
    <3>2. CASE ~(n <= r)
      BY <1>4, <3>2
    <3> QED BY <3>1, <3>2
  <2>3. SubSeq(out', 1, r) = SubSeq(out, 1, r)
    <3>1. /\ SubSeq(out, 1, r) = [i \in 1..r |-> out[i]]
          /\ SubSeq(out', 1, r) = [i \in 1..r |-> out'[i]]
      BY <1>2, <2>1
    <3>2. \A i \in 1..r : i \in 1..n
      BY <2>1
    <3> QED BY <1>2, <3>1, <3>2
  <2>4. UNCHANGED <<ToDeliver, Delivered>>
    BY <1>3, <1>5, <2>1, <2>2, <2>3
  <2> QED BY <2>4
<1> QED BY <1>7, <1>8

\* Every step writes a packet, delivers one, or does neither.
LEMMA ChannelStep ==
  ASSUME CodecInv, CodecInv', OutSound, OutSound', [Next]_vars
  PROVE  [Channel!Next]_<<ToDeliver, Delivered>>
<1>1. UNCHANGED kind
  BY StepIs
<1>2. CASE HandsNothing
  <2>1. ToDeliver' = ToDeliver
    <3>1. PICK s : s = SubSeq(sent, 1, intact)
      OBVIOUS
    <3>2. s = SubSeq(sent', 1, intact')
      <4>1. /\ sent \in Seq(Packets[kind]) /\ intact \in Nat /\ intact <= Len(sent)
            /\ intact' = intact /\ \A i \in 1..intact : sent'[i] = sent[i]
        BY <1>2, CountsAre DEF CodecInv, HandsNothing, SentKept
      <4>2. /\ sent' \in Seq(Packets[kind]) /\ intact' <= Len(sent')
        <5>1. (sent \in Seq(Packets[kind]) /\ intact <= Len(sent))'
          BY CountsAre, PTL DEF CodecInv
        <5> QED BY <1>1, <5>1
      <4>3. /\ SubSeq(sent, 1, intact) = [i \in 1..intact |-> sent[i]]
            /\ SubSeq(sent', 1, intact) = [i \in 1..intact |-> sent'[i]]
        BY <4>1, <4>2
      <4> QED BY <3>1, <4>1, <4>3
    <3>3. SoundPrefix(s)' = SoundPrefix(s)
      BY <1>1, SoundPrefixSame
    <3> QED BY <3>1, <3>2, <3>3 DEF ToDeliver
  <2>2. Delivered' = Delivered
    <3>1. Delivered = IF Len(out) <= Len(ToDeliver) THEN out ELSE SubSeq(out, 1, Len(ToDeliver))
      BY ToDeliverIs
    <3>2. (Delivered = IF Len(out) <= Len(ToDeliver) THEN out ELSE SubSeq(out, 1, Len(ToDeliver)))'
      BY ToDeliverIs, PTL
    <3> QED BY <1>2, <2>1, <3>1, <3>2 DEF HandsNothing
  <2> QED BY <2>1, <2>2
<1>3. CASE CountsOneMore
  BY <1>1, <1>3, PacketWritten
<1>4. CASE HandsOver
  BY <1>1, <1>4, PacketDelivered
<1> QED BY <1>2, <1>3, <1>4, StepIs

\* Codec implements FrameFifo, but for what must happen: a step writes a packet,
\* delivers the next one, or does neither.
THEOREM CodecDelivers ==
  CodesFit => (Spec => Channel!Init /\ [][Channel!Next]_<<ToDeliver, Delivered>>)
<1> SUFFICES ASSUME CodesFit
             PROVE  Spec => Channel!Init /\ [][Channel!Next]_<<ToDeliver, Delivered>>
  OBVIOUS
<1>1. Init => Channel!Init
  <2> SUFFICES ASSUME Init PROVE ToDeliver = <<>> /\ Delivered = <<>>
    BY DEF Channel!Init
  <2>1. sent = <<>> /\ out = <<>> /\ Len(sent) = 0 /\ intact = 0 /\ Len(out) = 0
    BY EmptySeq DEF Init
  <2>2. SubSeq(sent, 1, intact) = <<>> /\ Len(SubSeq(sent, 1, intact)) = 0
    BY <2>1
  <2>3. FirstUnfit(SubSeq(sent, 1, intact)) = 0
    <3>1. PICK s : s = SubSeq(sent, 1, intact) /\ Len(s) = 0
      BY <2>2
    <3>2. {i \in 1..Len(s) : ~Fits(s[i])} = {}
      <4> SUFFICES ASSUME NEW i \in 1..Len(s) PROVE FALSE
        OBVIOUS
      <4>1. Len(s) = 0
        BY <3>1
      <4> QED BY <4>1
    <3> QED BY <3>1, <3>2 DEF FirstUnfit, SelectInSeq
  <2>4. ToDeliver = <<>> /\ Len(ToDeliver) = 0
    BY <2>2, <2>3 DEF ToDeliver, SoundPrefix
  <2> QED BY <2>1, <2>4 DEF Delivered
<1>2. /\ CodecInv /\ CodecInv' /\ OutSound /\ OutSound' /\ [Next]_vars
      => [Channel!Next]_<<ToDeliver, Delivered>>
  BY ChannelStep
<1> QED BY <1>1, <1>2, CodecInvariant, SoundInvariant, PTL DEF Spec

----------------------------------------------------------------------------
(* What the gate makes of a request, whatever its code.                    *)

\* The first byte of a code.
LEMMA LowByteWritten ==
  ASSUME NEW v \in Nat
  PROVE  LittleEndian(v, 2)[1] = v % Base
<1>1. PICK t \in Seq(Bytes) :
        t = BigEndian(v, 2) /\ Len(t) = 2 /\ \A i \in 1..2 : t[i] = Shifted(v, 2 - i) % Base
  BY BigEndianIs
<1>2. t[2] = Shifted(v, 0) % Base
  BY <1>1
<1>3. Shifted(v, 0) = v
  BY ShiftedIs
<1>4. Reverse(t)[1] = t[2]
  BY <1>1, TwoReversed
<1> QED BY <1>1, <1>2, <1>3, <1>4 DEF LittleEndian

\* So a request that is counted arrives with its payload, and its code cut to a
\* byte.
CodeCut(p) == [code |-> p.code % Base, bytes |-> p.bytes]

RequestsRead ==
  kind = "request" =>
    \A i \in 1..Len(out) : i <= intact => i \in 1..Len(sent) /\ out[i] = CodeCut(sent[i])

\* What the gate makes of the body of a request.
LEMMA RequestDecoded ==
  ASSUME kind = "request", NEW p \in Packets[kind], Body(p) \in Seq(Bytes)
  PROVE  Decoded(Body(p)) = CodeCut(p)
<1>1. /\ p.code \in Nat /\ p.bytes \in Seq(Bytes)
  <2>1. p \in [code : Nat, bytes : Seq(Bytes)]
    BY CodecAssumption DEF Kinds
  <2> QED BY <2>1
<1>2. PICK c \in Seq(Bytes), b \in Seq(Bytes), u \in Seq(Bytes) :
        /\ c = LittleEndian(p.code, 2) /\ b = p.bytes /\ u = Body(p) /\ u = c \o b
        /\ Len(c) = 2
  <2>1. Body(p) = LittleEndian(p.code, 2) \o p.bytes
    BY DEF Body
  <2>2. LittleEndian(p.code, 2) \in Seq(Bytes) /\ Len(LittleEndian(p.code, 2)) = 2
    BY <1>1, LittleEndianIs
  <2> QED BY <1>1, <2>1, <2>2
<1>3. PICK n \in Nat : n = Len(u) /\ n >= 2
  <2>1. Len(u) = Len(c) + Len(b) /\ Len(c) \in Nat /\ Len(b) \in Nat
    BY <1>2, ConcatProperties, LenProperties
  <2>2. PICK m \in Nat : m = Len(b) /\ Len(u) = 2 + m
    BY <1>2, <2>1
  <2> QED BY <2>2
<1>4. CutsAt(Bytes, u, <<>>, c, b)
  <2>1. u \o <<>> = c \o b /\ <<>> \in Seq(Bytes)
    BY <1>2, ConcatEmptySeq, EmptySeq
  <2>2. Len(c) <= Len(u)
    BY <1>2, <1>3
  <2> QED BY <2>1, <2>2, Cut
<1>5. SubSeq(u, 1, 2) = c /\ SubSeq(u, 3, n) = b
  <2>1. PICK w \in Seq(Bytes) : w = SubSeq(u, 2 + 1, n) /\ w \o <<>> = b
    BY <1>2, <1>3, <1>4 DEF CutsAt
  <2>2. w \o <<>> = w
    BY ConcatEmptySeq
  <2>3. SubSeq(u, 1, 2) = c
    BY <1>2, <1>4 DEF CutsAt
  <2> QED BY <2>1, <2>2, <2>3
<1>6. LittleReadShort(u) = p.code % Base
  <2>1. LittleReadShort(u) = u[1]
    BY <1>3, LowByteRead
  <2>2. u[1] = c[1]
    <3>1. \A i \in 1..(2 + 1 - 1) : SubSeq(u, 1, 2)[i] = u[1 + i - 1]
      BY <1>3, PartIs
    <3> QED BY <1>5, <3>1
  <2>3. c[1] = p.code % Base
    BY <1>1, <1>2, LowByteWritten
  <2> QED BY <2>1, <2>2, <2>3
<1>7. Decoded(u) = [code |-> LittleReadShort(u), bytes |-> SubSeq(u, 3, n)]
  BY <1>3 DEF Decoded, CodeLength
<1> QED BY <1>2, <1>5, <1>6, <1>7 DEF CodeCut

\* A step keeps what was handed over, or hands over the next request.
LEMMA RequestsReadStep ==
  ASSUME CodecInv, RequestsRead, [Next]_vars
  PROVE  RequestsRead'
<1> SUFFICES ASSUME kind = "request"
             PROVE  \A i \in 1..Len(out') :
                      i <= intact' => i \in 1..Len(sent') /\ out'[i] = CodeCut(sent'[i])
  BY StepIs DEF RequestsRead, CodeCut
<1>1. /\ intact \in Nat /\ Len(out) \in Nat /\ kind \in Kinds /\ intact <= Len(sent)
      /\ Len(sent) \in Nat /\ UNCHANGED kind
  BY CountsAre, StepIs DEF CodecInv
<1>2. (intact \in Nat /\ intact <= Len(sent) /\ Len(sent) \in Nat)'
  <2>1. TypeOK'
    BY NextTyped DEF CodecInv
  <2> QED BY <2>1, CountsAre, PTL
<1>3. \A i \in 1..Len(out) : i <= intact => i \in 1..intact /\ out[i] = CodeCut(sent[i])
  BY <1>1 DEF RequestsRead
<1>4. CASE HandsNothing
  BY <1>1, <1>2, <1>3, <1>4 DEF HandsNothing, SentKept
<1>5. CASE CountsOneMore
  <2>1. Len(out) <= intact
    BY <1>5 DEF CodecInv, Inv, IntactFirst, CountsOneMore
  <2>2. \A i \in 1..Len(out) : i \in 1..intact /\ out[i] = CodeCut(sent'[i])
    BY <1>1, <1>3, <1>5, <2>1 DEF CountsOneMore, SentKept
  <2> QED BY <1>1, <1>2, <1>5, <2>1, <2>2 DEF CountsOneMore
<1>6. CASE HandsOver
  <2>1. PICK q : out' = Append(out, q)
    BY <1>6 DEF HandsOver
  <2>2. /\ Len(out') = Len(out) + 1 /\ out'[Len(out) + 1] = q
        /\ \A i \in 1..Len(out) : out'[i] = out[i]
    BY <2>1, OutLonger
  <2>3. Len(out) < intact => q = CodeCut(sent[Len(out) + 1])
    <3> SUFFICES ASSUME Len(out) < intact PROVE q = CodeCut(sent[Len(out) + 1])
      OBVIOUS
    <3>1. PICK p \in Packets[kind] :
            /\ p = sent[Len(out) + 1] /\ Followed(p)
            /\ out' = Append(out, Decoded(Body(p)))
      BY <1>6, NextIs
    <3>2. Decoded(Body(p)) = CodeCut(p)
      <4>1. Body(p) \in Seq(Bytes)
        BY <1>1, <3>1, FrameIs
      <4> QED BY <4>1, RequestDecoded
    <3>3. out'[Len(out) + 1] = CodeCut(p)
      BY <3>1, <3>2, OutLonger
    <3> QED BY <2>2, <3>1, <3>3
  <2>4. sent' = sent /\ intact' = intact
    BY <1>6 DEF HandsOver
  <2>5. ASSUME NEW i \in 1..(Len(out) + 1), i <= intact
        PROVE  i \in 1..Len(sent) /\ out'[i] = CodeCut(sent[i])
    <3>1. CASE i \in 1..Len(out)
      BY <1>1, <1>3, <2>2, <2>5, <3>1
    <3>2. CASE i = Len(out) + 1
      BY <1>1, <2>2, <2>3, <2>5, <3>2
    <3> QED BY <1>1, <3>1, <3>2
  <2> QED BY <2>2, <2>4, <2>5
<1> QED BY <1>4, <1>5, <1>6, StepIs

\* readShort of LittleEndianByteBufUtil, exactly: whatever the codes, the gate
\* hands over the requests that can be told apart in order, each with its payload
\* and its code modulo the size of a byte.
THEOREM RequestCodeCut == Spec => []RequestsRead
<1>1. Init => RequestsRead
  BY EmptySeq DEF Init, RequestsRead
<1>2. CodecInv /\ RequestsRead /\ [Next]_vars => RequestsRead'
  BY RequestsReadStep
<1> QED BY <1>1, <1>2, CodecInvariant, PTL DEF Spec
============================================================================
