----------------------- MODULE MqttSubscriber_proofs -----------------------
(***************************************************************************)
(* Proofs about MqttSubscriber, for bodies of any length that four bytes   *)
(* can say, any number of events and faults, and misread packets of any    *)
(* length.                                                                 *)
(***************************************************************************)
EXTENDS MqttSubscriber, SequenceTheorems, FiniteSetTheorems, WellFoundedInduction, TLAPS

----------------------------------------------------------------------------
(* The remaining length.                                                    *)

LEMMA WeightsAre ==
    /\ MaxLength \in Nat
    /\ \A k \in 1 .. 4 : Weight[k] \in Nat \ {0}
    /\ Weight[1] = 1
    /\ \A k \in 1 .. 3 : Weight[k + 1] = Base * Weight[k]
    /\ Base * Weight[4] = MaxLength + 1
<1> DEFINE b2 == Base * Base
           b3 == Base * Base * Base
<1>1. Base \in Nat /\ Base > 1
  BY LengthAssumption
<1>2. b2 \in Nat /\ b2 > 1 /\ b3 = Base * b2
  BY <1>1, SMTT(30)
<1>3. b3 \in Nat /\ b3 > 1
  BY <1>1, <1>2, SMTT(30)
<1>4. Base * b3 \in Nat /\ Base * b3 > 1
  BY <1>1, <1>3, SMTT(30)
<1>5. /\ Weight[1] = 1 /\ Weight[2] = Base /\ Weight[3] = b2 /\ Weight[4] = b3
      /\ MaxLength = Base * b3 - 1
  BY DEF Weight, MaxLength
<1>6. Base * 1 = Base /\ Base * Base = b2
  BY <1>1
<1> HIDE DEF b2, b3
<1>7. \A k \in 1 .. 4 : k = 1 \/ k = 2 \/ k = 3 \/ k = 4
  OBVIOUS
<1> QED
  BY <1>1, <1>2, <1>3, <1>4, <1>5, <1>6, <1>7

LEMMA Division ==
    ASSUME NEW s \in Nat \ {0}, NEW n \in Nat
    PROVE  n \div s \in Nat /\ n % s \in 0 .. s - 1 /\ n = s * (n \div s) + (n % s)
<1>1. n = s * (n \div s) + (n % s)
  BY SMTT(30)
<1>2. n % s \in 0 .. s - 1
  BY SMTT(30)
<1>3. n \div s \in Nat
  BY SMTT(30)
<1> QED
  BY <1>1, <1>2, <1>3

\* Division by the base, as the loop of _enc_remlen uses it.
LEMMA LowDigit ==
    ASSUME NEW n \in Nat
    PROVE  /\ n \div Base \in Nat /\ n % Base \in 0 .. Base - 1
           /\ n = Base * (n \div Base) + (n % Base)
           /\ n >= Base => 1 <= n \div Base /\ n \div Base < n
<1>1. Base \in Nat /\ Base > 1 /\ Base \in Nat \ {0}
  BY LengthAssumption
<1>2. n \div Base \in Nat /\ n % Base \in 0 .. Base - 1 /\ n = Base * (n \div Base) + (n % Base)
  BY <1>1, Division, Zenon
<1>3. ASSUME n >= Base PROVE 1 <= n \div Base /\ n \div Base < n
  <2> DEFINE d == n \div Base
             m == n % Base
  <2>1. d \in Nat /\ m \in 0 .. Base - 1 /\ n = Base * d + m
    BY <1>2, Zenon
  <2> HIDE DEF d, m
  <2>2. d # 0
    BY <1>1, <1>3, <2>1, SMTT(30)
  <2>3. Base * d >= 2 * d
    BY <1>1, <2>1, SMTT(30)
  <2>4. 1 <= d /\ d < n
    BY <1>1, <2>1, <2>2, <2>3
  <2> QED
    BY <2>4 DEF d
<1> QED
  BY <1>2, <1>3

\* A quotient has a digit less.
LEMMA QuotientBound ==
    ASSUME NEW n \in Nat, NEW w \in Nat, n < Base * w
    PROVE  n \div Base < w
<1> DEFINE d == n \div Base
<1>1. Base \in Nat /\ Base > 1 /\ d \in Nat /\ Base * d <= n
  <2>1. Base \in Nat /\ Base > 1 /\ d \in Nat /\ n % Base \in Nat /\ n = Base * d + (n % Base)
    BY LowDigit, LengthAssumption
  <2> HIDE DEF d
  <2>2. Base * d \in Nat
    BY <2>1, SMTT(30)
  <2>3. \A x, y \in Nat : n = x + y => x <= n
    OBVIOUS
  <2>4. Base * d <= n
    BY <2>1, <2>2, <2>3, Zenon
  <2> QED
    BY <2>1, <2>4, Zenon
<1> HIDE DEF d
<1>2. Base * d < Base * w
  <2>1. Base * d \in Nat /\ Base * w \in Nat
    BY <1>1, SMTT(30)
  <2> QED
    BY <1>1, <2>1
<1>3. d < w
  BY <1>1, <1>2, SMTT(30)
<1> QED
  BY <1>3 DEF d

\* The recursion says what EncRemlen is: there is such a function, as four steps
\* reach the end.
LEMMA EncRemlenIs ==
    ASSUME NEW n \in 0 .. MaxLength
    PROVE  EncRemlen[n] = IF n < Base THEN <<n>>
                                      ELSE <<(n % Base) + Base>> \o EncRemlen[n \div Base]
<1> DEFINE L(m) == <<(m % Base) + Base>>
           E1(m) == <<m>>
           E2(m) == IF m < Base THEN <<m>> ELSE L(m) \o E1(m \div Base)
           E3(m) == IF m < Base THEN <<m>> ELSE L(m) \o E2(m \div Base)
           E4(m) == IF m < Base THEN <<m>> ELSE L(m) \o E3(m \div Base)
           e == [m \in 0 .. MaxLength |-> E4(m)]
<1>1. /\ Base \in Nat /\ Base > 1 /\ MaxLength \in Nat
      /\ Weight[1] = 1 /\ Weight[2] \in Nat /\ Weight[3] \in Nat /\ Weight[4] \in Nat
      /\ Weight[2] = Base * 1 /\ Weight[3] = Base * Weight[2] /\ Weight[4] = Base * Weight[3]
      /\ Base * Weight[4] = MaxLength + 1
  BY WeightsAre, LengthAssumption
<1>2. \A m \in 0 .. MaxLength :
          m >= Base => m \div Base \in 0 .. MaxLength /\ m \div Base < Weight[4]
  <2> SUFFICES ASSUME NEW m \in 0 .. MaxLength, m >= Base
               PROVE  m \div Base \in 0 .. MaxLength /\ m \div Base < Weight[4]
    OBVIOUS
  <2>1. m \in Nat /\ m < Base * Weight[4]
    BY <1>1
  <2>2. m \div Base \in Nat /\ m \div Base < m /\ m \div Base < Weight[4]
    BY <1>1, <2>1, LowDigit, QuotientBound
  <2> QED
    BY <1>1, <2>2
<1>3. \A m \in Nat : m < Weight[2] => E1(m) = E2(m)
  BY <1>1
<1>4. \A m \in Nat : m < Weight[3] => E2(m) = E3(m)
  <2> SUFFICES ASSUME NEW m \in Nat, m < Weight[3] PROVE E2(m) = E3(m)
    OBVIOUS
  <2>1. m < Base * Weight[2] /\ Weight[2] \in Nat
    BY <1>1
  <2>11. m \div Base \in Nat /\ m \div Base < Weight[2]
    BY <2>1, LowDigit, QuotientBound
  <2>2. E1(m \div Base) = E2(m \div Base)
    BY <1>3, <2>11
  <2> HIDE DEF E1
  <2>3. E3(m) = IF m < Base THEN <<m>> ELSE L(m) \o E1(m \div Base)
    BY <2>2
  <2> QED
    BY <2>3
<1>5. \A m \in Nat : m < Weight[4] => E3(m) = E4(m)
  <2> SUFFICES ASSUME NEW m \in Nat, m < Weight[4] PROVE E3(m) = E4(m)
    OBVIOUS
  <2>1. m < Base * Weight[3] /\ Weight[3] \in Nat
    BY <1>1
  <2>11. m \div Base \in Nat /\ m \div Base < Weight[3]
    BY <2>1, LowDigit, QuotientBound
  <2>2. E2(m \div Base) = E3(m \div Base)
    BY <1>4, <2>11
  <2> HIDE DEF E2
  <2>3. E4(m) = IF m < Base THEN <<m>> ELSE L(m) \o E2(m \div Base)
    BY <2>2
  <2> QED
    BY <2>3
<1>6. e = [m \in 0 .. MaxLength |-> IF m < Base THEN <<m>> ELSE L(m) \o e[m \div Base]]
  <2>1. ASSUME NEW m \in 0 .. MaxLength
        PROVE  E4(m) = IF m < Base THEN <<m>> ELSE L(m) \o e[m \div Base]
    <3>1. CASE m < Base
      BY <3>1
    <3>2. CASE ~(m < Base)
      <4>1. m >= Base /\ m \in Nat
        BY <1>1, <3>2
      <4>2. m \div Base \in 0 .. MaxLength /\ m \div Base < Weight[4]
        BY <1>2, <4>1
      <4>3. e[m \div Base] = E4(m \div Base)
        BY <4>2
      <4>4. E3(m \div Base) = E4(m \div Base)
        <5>1. m \div Base \in Nat /\ m \div Base < Weight[4]
          BY <1>1, <4>2
        <5> HIDE DEF E3, E4
        <5> QED
          BY <1>5, <5>1
      <4>5. e[m \div Base] = E3(m \div Base)
        BY <4>3, <4>4
      <4> HIDE DEF E3, e
      <4> QED
        BY <3>2, <4>5
    <3> QED
      BY <3>1, <3>2
  <2> HIDE DEF E4
  <2> QED
    BY <2>1
<1> HIDE DEF e
<1>7. EncRemlen = [m \in 0 .. MaxLength |-> IF m < Base THEN <<m>>
                                            ELSE <<(m % Base) + Base>> \o EncRemlen[m \div Base]]
  <2>1. EncRemlen = CHOOSE f : f = [m \in 0 .. MaxLength |-> IF m < Base THEN <<m>>
                                            ELSE <<(m % Base) + Base>> \o f[m \div Base]]
    BY DEF EncRemlen
  <2> QED
    BY <1>6, <2>1
<1> QED
  BY <1>7, Zenon

\* One digit for each byte, the low ones first.
LEMMA EncRemlenType ==
    ASSUME NEW n \in 0 .. MaxLength
    PROVE  EncRemlen[n] \in Seq(Nat) /\ Len(EncRemlen[n]) \in Nat \ {0}
<1> DEFINE P(k) == \A m \in 0 .. MaxLength :
                       m < Base * Weight[k] =>
                           EncRemlen[m] \in Seq(Nat) /\ Len(EncRemlen[m]) \in Nat \ {0}
<1>1. /\ Base \in Nat /\ Base > 1 /\ MaxLength \in Nat
      /\ \A k \in 1 .. 4 : Weight[k] \in Nat
      /\ Base * Weight[1] = Base /\ Base * Weight[4] = MaxLength + 1
      /\ \A k \in 1 .. 3 : Weight[k + 1] = Base * Weight[k]
  <2>1. Base * 1 = Base
    BY LengthAssumption
  <2> QED
    BY <2>1, WeightsAre, LengthAssumption
<1>2. P(1)
  <2> SUFFICES ASSUME NEW m \in 0 .. MaxLength, m < Base
               PROVE  EncRemlen[m] \in Seq(Nat) /\ Len(EncRemlen[m]) \in Nat \ {0}
    BY <1>1
  <2>1. EncRemlen[m] = <<m>>
    BY EncRemlenIs
  <2>2. m \in Nat
    BY <1>1
  <2>3. <<m>> \in Seq(Nat) /\ Len(<<m>>) = 1
    BY <2>2
  <2> QED
    BY <2>1, <2>3
<1>3. ASSUME NEW k \in 1 .. 3, P(k)
      PROVE  P(k + 1)
  <2> SUFFICES ASSUME NEW m \in 0 .. MaxLength, m < Base * Weight[k + 1]
               PROVE  EncRemlen[m] \in Seq(Nat) /\ Len(EncRemlen[m]) \in Nat \ {0}
    OBVIOUS
  <2>1. CASE m < Base
    <3>1. m < Base * Weight[1]
      BY <1>1, <2>1
    <3> QED
      BY <1>2, <3>1
  <2>2. CASE ~(m < Base)
    <3> DEFINE q == m \div Base
               d == (m % Base) + Base
    <3>1. /\ m \in Nat /\ Weight[k + 1] \in Nat /\ Weight[k + 1] = Base * Weight[k]
          /\ m >= Base
      BY <1>1, <2>2
    <3>2. q \in Nat /\ q < Weight[k + 1] /\ q < m
      <4>1. q < Weight[k + 1]
        BY <3>1, QuotientBound
      <4>2. q \in Nat /\ q < m
        BY <3>1, LowDigit
      <4> QED
        BY <4>1, <4>2
    <3>3. q \in 0 .. MaxLength /\ q < Base * Weight[k]
      BY <1>1, <3>1, <3>2
    <3>4. EncRemlen[q] \in Seq(Nat) /\ Len(EncRemlen[q]) \in Nat \ {0}
      BY <1>3, <3>3
    <3>5. d \in Nat
      BY <1>1, <3>1, LowDigit
    <3>6. EncRemlen[m] = <<d>> \o EncRemlen[q]
      BY <2>2, EncRemlenIs
    <3> HIDE DEF d, q
    <3>7. <<d>> \in Seq(Nat) /\ Len(<<d>>) = 1
      BY <3>5
    <3> QED
      BY <3>4, <3>6, <3>7, ConcatProperties
  <2> QED
    BY <2>1, <2>2
<1> HIDE DEF P
<1>4. P(2)
  BY <1>2, <1>3
<1>5. P(3)
  BY <1>3, <1>4
<1>6. P(4)
  BY <1>3, <1>5
<1> QED
  BY <1>1, <1>6 DEF P

LEMMA EncRemlenDigits ==
    ASSUME NEW n \in 0 .. MaxLength
    PROVE  /\ n < Base => Len(EncRemlen[n]) = 1 /\ EncRemlen[n][1] = n
           /\ n >= Base =>
                  /\ n \div Base \in 0 .. MaxLength
                  /\ Len(EncRemlen[n]) = 1 + Len(EncRemlen[n \div Base])
                  /\ EncRemlen[n][1] = (n % Base) + Base
                  /\ \A k \in 1 .. Len(EncRemlen[n \div Base]) :
                         EncRemlen[n][1 + k] = EncRemlen[n \div Base][k]
<1>1. Base \in Nat /\ Base > 1 /\ MaxLength \in Nat
  BY WeightsAre, LengthAssumption
<1>2. ASSUME n < Base
      PROVE  Len(EncRemlen[n]) = 1 /\ EncRemlen[n][1] = n
  <2>1. EncRemlen[n] = <<n>>
    BY <1>2, EncRemlenIs
  <2> QED
    BY <2>1
<1>3. ASSUME n >= Base
      PROVE  /\ n \div Base \in 0 .. MaxLength
             /\ Len(EncRemlen[n]) = 1 + Len(EncRemlen[n \div Base])
             /\ EncRemlen[n][1] = (n % Base) + Base
             /\ \A k \in 1 .. Len(EncRemlen[n \div Base]) :
                    EncRemlen[n][1 + k] = EncRemlen[n \div Base][k]
  <2> DEFINE q == n \div Base
             d == (n % Base) + Base
  <2>1. n \in Nat /\ ~(n < Base)
    BY <1>1, <1>3
  <2>2. q \in Nat /\ q < n /\ d \in Nat
    BY <1>1, <1>3, <2>1, LowDigit
  <2>3. q \in 0 .. MaxLength
    BY <1>1, <2>2
  <2>4. EncRemlen[n] = <<d>> \o EncRemlen[q]
    BY <2>1, EncRemlenIs
  <2> HIDE DEF d, q
  <2>5. EncRemlen[q] \in Seq(Nat) /\ Len(EncRemlen[q]) \in Nat
    BY <2>3, EncRemlenType
  <2>6. <<d>> \in Seq(Nat) /\ Len(<<d>>) = 1 /\ <<d>>[1] = d
    BY <2>2
  <2>7. /\ Len(EncRemlen[n]) = 1 + Len(EncRemlen[q])
        /\ \A i \in 1 .. 1 + Len(EncRemlen[q]) :
               EncRemlen[n][i] = IF i <= 1 THEN <<d>>[i] ELSE EncRemlen[q][i - 1]
    BY <2>4, <2>5, <2>6, ConcatProperties
  <2>8. EncRemlen[n][1] = d
    BY <2>5, <2>6, <2>7
  <2>9. ASSUME NEW k \in 1 .. Len(EncRemlen[q])
        PROVE  EncRemlen[n][1 + k] = EncRemlen[q][k]
    <3>1. 1 + k \in 1 .. 1 + Len(EncRemlen[q]) /\ ~(1 + k <= 1) /\ (1 + k) - 1 = k
      BY <2>5
    <3> QED
      BY <2>7, <3>1
  <2> QED
    BY <2>3, <2>7, <2>8, <2>9 DEF d, q
<1> QED
  BY <1>2, <1>3

LEMMA HigherDigit ==
    ASSUME NEW s \in Nat \ {0}, NEW m \in 0 .. s - 1
    PROVE  (m + s) % s = m
<1> DEFINE d == (m + s) \div s
           r == (m + s) % s
<1>1. d \in Nat /\ r \in 0 .. s - 1 /\ m + s = s * d + r
  <2>1. m + s \in Nat
    OBVIOUS
  <2> QED
    BY <2>1, Division, Zenon
<1> HIDE DEF d, r
<1>2. d < 2
  <2> SUFFICES ASSUME d >= 2 PROVE FALSE
    BY <1>1
  <2>1. s * d >= s * 2
    BY <1>1, SMTT(30)
  <2>2. s * d \in Nat /\ s * 2 = s + s
    BY <1>1, SMTT(30)
  <2> QED
    BY <1>1, <2>1, <2>2
<1>3. d # 0
  <2>1. s * 0 = 0
    OBVIOUS
  <2> QED
    BY <1>1, <2>1
<1>4. d = 1 /\ s * 1 = s
  BY <1>1, <1>2, <1>3
<1>5. r = m
  BY <1>1, <1>4
<1> QED
  BY <1>5 DEF r

\* After l bytes of the length n the reader has the value r: what is left, q, has the
\* bytes still to come, and all together makes n.
Reading(n, l, r) ==
    /\ l \in 0 .. 3 /\ r \in Nat
    /\ \E q \in 0 .. MaxLength :
           /\ r + Weight[l + 1] * q = n
           /\ Len(EncRemlen[n]) = l + Len(EncRemlen[q])
           /\ \A k \in 1 .. Len(EncRemlen[q]) : EncRemlen[n][l + k] = EncRemlen[q][k]

LEMMA ReadingStarts ==
    ASSUME NEW n \in 0 .. MaxLength
    PROVE  Reading(n, 0, 0)
<1>1. n \in Nat /\ Weight[1] = 1 /\ Len(EncRemlen[n]) \in Nat
  BY WeightsAre, EncRemlenType
<1>2. 0 + Weight[0 + 1] * n = n
  BY <1>1
<1>3. Len(EncRemlen[n]) = 0 + Len(EncRemlen[n])
  BY <1>1
<1>4. \A k \in 1 .. Len(EncRemlen[n]) : 0 + k = k
  BY <1>1
<1> QED
  BY <1>2, <1>3, <1>4 DEF Reading

\* _read_remlen: it ends with the last byte, at the fourth at the latest, and then has
\* the length.
LEMMA ReadingGoesOn ==
    ASSUME NEW n \in 0 .. MaxLength, NEW l, NEW r, Reading(n, l, r),
           NEW v, v = EncRemlen[n][l + 1],
           NEW value, value = r + (v % Base) * Weight[l + 1]
    PROVE  /\ v \in Nat
           /\ v >= Base => /\ l + 1 < 4 /\ l + 1 < Len(EncRemlen[n])
                           /\ Reading(n, l + 1, value)
           /\ ~(v >= Base) => l + 1 = Len(EncRemlen[n]) /\ value = n
<1>1. PICK q \in 0 .. MaxLength :
          /\ r + Weight[l + 1] * q = n
          /\ Len(EncRemlen[n]) = l + Len(EncRemlen[q])
          /\ \A k \in 1 .. Len(EncRemlen[q]) : EncRemlen[n][l + k] = EncRemlen[q][k]
  BY DEF Reading
<1> DEFINE w == Weight[l + 1]
           d == q \div Base
           m == q % Base
<1>2. /\ Base \in Nat /\ Base > 1 /\ MaxLength \in Nat /\ q \in Nat /\ n \in Nat
      /\ l \in 0 .. 3 /\ r \in Nat /\ w \in Nat \ {0}
      /\ l < 3 => Weight[l + 2] = Base * w
      /\ l = 3 => Base * w = MaxLength + 1
  <2>1. l \in 0 .. 3 /\ r \in Nat
    BY DEF Reading
  <2>2. l + 1 \in 1 .. 4 /\ (l < 3 => l + 1 \in 1 .. 3 /\ (l + 1) + 1 = l + 2)
    BY <2>1
  <2> QED
    BY <2>1, <2>2, WeightsAre, LengthAssumption
<1>3. Len(EncRemlen[q]) \in Nat \ {0}
  BY EncRemlenType
<1>4. v = EncRemlen[q][1]
  BY <1>1, <1>3
<1>5. d \in Nat /\ m \in 0 .. Base - 1 /\ q = Base * d + m
  BY <1>2, LowDigit
<1>8. m \in 0 .. Base - 1
  BY <1>5
<1>6. CASE q < Base
  <2>1. v = q /\ Len(EncRemlen[q]) = 1
    BY <1>4, <1>6, EncRemlenDigits
  <2>2. v % Base = q
    <3>1. d = 0
      BY <1>2, <1>5, <1>6, QuotientBound, SMTT(30)
    <3>2. Base * 0 = 0
      BY <1>2
    <3> HIDE DEF d
    <3>3. q = m
      BY <1>2, <1>5, <3>1, <3>2
    <3> QED
      BY <2>1, <3>3
  <2> HIDE DEF w
  <2>3. q * w = w * q
    BY <1>2
  <2>4. value = n
    BY <1>1, <2>2, <2>3 DEF w
  <2> QED
    BY <1>1, <1>2, <1>6, <2>1, <2>4
<1>7. CASE q >= Base
  <2>1. /\ d \in 0 .. MaxLength /\ Len(EncRemlen[q]) = 1 + Len(EncRemlen[d]) /\ v = m + Base
        /\ \A k \in 1 .. Len(EncRemlen[d]) : EncRemlen[q][1 + k] = EncRemlen[d][k]
    BY <1>4, <1>7, EncRemlenDigits
  <2>2. Len(EncRemlen[d]) \in Nat \ {0}
    BY <2>1, EncRemlenType
  <2> HIDE DEF w, d, m
  <2>3. v \in Nat /\ v >= Base
    <3>1. m \in Nat /\ v = m + Base /\ Base \in Nat
      BY <1>2, <1>8, <2>1
    <3> QED
      BY <3>1
  <2>4. v % Base = m
    <3>1. Base \in Nat \ {0}
      BY <1>2
    <3>2. (m + Base) % Base = m
      BY <1>8, <3>1, HigherDigit, Zenon
    <3> QED
      BY <2>1, <3>2, Zenon
  <2>5. n = r + w * q
    BY <1>1 DEF w
  <2>6. l < 3
    <3> SUFFICES ASSUME l = 3 PROVE FALSE
      BY <1>2
    <3>1. w * q >= w * Base
      BY <1>2, <1>7, SMTT(30)
    <3>2. w * Base = MaxLength + 1 /\ w * q \in Nat
      BY <1>2, SMTT(30)
    <3> QED
      BY <1>2, <2>5, <3>1, <3>2
  <2>7. value \in Nat /\ value + Weight[l + 2] * d = n
    <3>1. value = r + m * w
      BY <2>4 DEF w
    <3>2. m * w \in Nat
      BY <1>2, <1>5, SMTT(30)
    <3>3. w * (Base * d + m) = (Base * w) * d + m * w
      BY <1>2, <1>5, SMTT(30)
    <3>4. (Base * w) * d \in Nat
      BY <1>2, <1>5, SMTT(30)
    <3>5. Weight[l + 2] = Base * w
      BY <1>2, <2>6
    <3>6. n = r + ((Base * w) * d + m * w)
      BY <1>5, <2>5, <3>3
    <3>7. value + (Base * w) * d = n
      BY <1>2, <3>1, <3>2, <3>4, <3>6
    <3> QED
      BY <1>2, <3>1, <3>2, <3>5, <3>7
  <2>8. l + 1 < Len(EncRemlen[n])
    BY <1>1, <1>2, <2>1, <2>2
  <2>9. Reading(n, l + 1, value)
    <3>1. Len(EncRemlen[n]) = (l + 1) + Len(EncRemlen[d])
      <4>1. /\ Len(EncRemlen[n]) = l + Len(EncRemlen[q])
            /\ Len(EncRemlen[q]) = 1 + Len(EncRemlen[d])
        BY <1>1, <2>1
      <4>2. l \in Nat /\ Len(EncRemlen[d]) \in Nat
        BY <1>2, <2>2
      <4>3. \A x, y \in Nat : x + (1 + y) = (x + 1) + y
        OBVIOUS
      <4> QED
        BY <4>1, <4>2, <4>3, Zenon
    <3>2. ASSUME NEW k \in 1 .. Len(EncRemlen[d])
          PROVE  EncRemlen[n][(l + 1) + k] = EncRemlen[d][k]
      <4>1. 1 + k \in 1 .. Len(EncRemlen[q]) /\ l + (1 + k) = (l + 1) + k
        BY <1>2, <2>1, <2>2
      <4> QED
        BY <1>1, <2>1, <4>1
    <3>3. l + 1 \in 0 .. 3 /\ (l + 1) + 1 = l + 2
      BY <1>2, <2>6
    <3> QED
      BY <2>1, <2>7, <3>1, <3>2, <3>3 DEF Reading
  <2> QED
    BY <1>2, <2>3, <2>6, <2>8, <2>9
<1> QED
  BY <1>2, <1>6, <1>7

----------------------------------------------------------------------------
(* Packets on the wire.                                                     *)

Kinds == {CONNACK, SUBACK, PINGRESP} \cup Events

\* What the receive loop is sent
Messages == {PINGRESP} \cup Events

LengthOf(p) == IF p \in Events THEN BodyLength[p] ELSE 0

LEMMA SizeIs ==
    /\ \A p \in Kinds : Size(p) \in Nat /\ Size(p) >= 2
    /\ Size(CONNACK) = 4 /\ Size(SUBACK) = 5
    /\ \A p \in Messages : /\ LengthOf(p) \in 0 .. MaxLength
                           /\ RemLenOf(p) = EncRemlen[LengthOf(p)]
                           /\ Len(RemLenOf(p)) \in Nat \ {0}
                           /\ Size(p) = 1 + Len(RemLenOf(p)) + LengthOf(p)
                           /\ LengthOf(p) = 0 <=> p = PINGRESP
<1>1. /\ CONNACK \notin Events /\ SUBACK \notin Events /\ PINGRESP \notin Events
      /\ CONNACK # SUBACK /\ SUBACK # PINGRESP /\ CONNACK # PINGRESP
  BY LengthAssumption DEF CONNACK, SUBACK, PINGRESP, Events
<1>2. MaxLength \in Nat /\ 0 \in 0 .. MaxLength
  BY WeightsAre
<1>3. \A p \in Events : BodyLength[p] \in 2 .. MaxLength
  BY LengthAssumption
<1>4. ASSUME NEW p \in Events
      PROVE  /\ LengthOf(p) \in 0 .. MaxLength /\ LengthOf(p) >= 2
             /\ RemLenOf(p) = EncRemlen[LengthOf(p)] /\ Len(RemLenOf(p)) \in Nat \ {0}
             /\ Size(p) = 1 + Len(RemLenOf(p)) + LengthOf(p)
  <2>1. LengthOf(p) = BodyLength[p] /\ BodyLength[p] \in 0 .. MaxLength /\ BodyLength[p] >= 2
    BY <1>2, <1>3 DEF LengthOf
  <2>2. RemLenOf(p) = EncRemlen[LengthOf(p)]
    BY <2>1 DEF RemLenOf
  <2>3. Len(RemLenOf(p)) \in Nat \ {0}
    BY <2>1, <2>2, EncRemlenType
  <2>4. Size(p) = 1 + Len(RemLenOf(p)) + BodyLength[p]
    BY <1>1 DEF Size
  <2> QED
    BY <2>1, <2>2, <2>3, <2>4
<1>5. /\ LengthOf(PINGRESP) = 0 /\ RemLenOf(PINGRESP) = EncRemlen[0]
      /\ Len(EncRemlen[0]) = 1 /\ Size(PINGRESP) = 2
  <2>1. 0 < Base
    BY LengthAssumption
  <2>2. Len(EncRemlen[0]) = 1
    BY <1>2, <2>1, EncRemlenDigits
  <2> QED
    BY <1>1, <2>2 DEF LengthOf, RemLenOf, Size
<1>6. Size(CONNACK) = 4 /\ Size(SUBACK) = 5
  BY <1>1 DEF Size
<1>7. ASSUME NEW p \in Events
      PROVE  Size(p) \in Nat /\ Size(p) >= 2
  BY <1>2, <1>4
<1>8. \A p \in Kinds : Size(p) \in Nat /\ Size(p) >= 2
  BY <1>5, <1>6, <1>7 DEF Kinds
<1>9. ASSUME NEW p \in Messages
      PROVE  /\ LengthOf(p) \in 0 .. MaxLength
             /\ RemLenOf(p) = EncRemlen[LengthOf(p)]
             /\ Len(RemLenOf(p)) \in Nat \ {0}
             /\ Size(p) = 1 + Len(RemLenOf(p)) + LengthOf(p)
             /\ LengthOf(p) = 0 <=> p = PINGRESP
  <2>1. CASE p = PINGRESP
    <3>1. LengthOf(p) = 0 /\ RemLenOf(p) = EncRemlen[LengthOf(p)] /\ Size(p) = 2
      BY <1>5, <2>1
    <3>2. Len(RemLenOf(p)) = 1
      BY <1>5, <3>1
    <3> QED
      BY <1>2, <2>1, <3>1, <3>2
  <2>2. CASE p \in Events
    <3>1. p # PINGRESP /\ LengthOf(p) # 0
      BY <1>1, <1>2, <1>4, <2>2
    <3> QED
      BY <1>4, <2>2, <3>1
  <2> QED
    BY <2>1, <2>2 DEF Messages
<1> QED
  BY <1>6, <1>8, <1>9

\* The bytes of w after the i-th are those after byte k of packet p, and then another
\* packet begins.
Continues(w, p, k, i) ==
    \A j \in 1 .. Len(w) :
        i < j => /\ k + (j - i) <= Size(p) => w[j] = <<p, k + (j - i)>>
                 /\ k + (j - i) = Size(p) + 1 => w[j][2] = 1

\* All the rest of packet p is there.
Complete(w, p, k, i) == Size(p) - k <= Len(w) - i

Stream(w) ==
    \A i \in 1 .. Len(w) : /\ w[i][1] \in Kinds /\ w[i][2] \in 1 .. Size(w[i][1])
                           /\ Continues(w, w[i][1], w[i][2], i)

WholePackets(w) == \A i \in 1 .. Len(w) : Complete(w, w[i][1], w[i][2], i)

Opens(w, i) == w[i][1] \in Events /\ w[i][2] = 1

Rising(w) == \A i, j \in 1 .. Len(w) : i < j /\ Opens(w, i) /\ Opens(w, j) => w[i][1] < w[j][1]

\* The events whose first byte is there
Opened(w) == {e \in Events : \E i \in 1 .. Len(w) : Opens(w, i) /\ w[i][1] = e}

\* u is w without its first k bytes,
LEMMA Dropped ==
    ASSUME NEW w, NEW u, NEW k \in Nat, Len(w) \in Nat, k <= Len(w),
           Len(u) = Len(w) - k, \A j \in 1 .. Len(u) : u[j] = w[j + k]
    PROVE  /\ Stream(w) => Stream(u)
           /\ WholePackets(w) => WholePackets(u)
           /\ Rising(w) => Rising(u)
           /\ Opened(u) \subseteq Opened(w)
<1> DEFINE l == Len(w)
           m == Len(u)
<1>1. /\ l \in Nat /\ m \in Nat /\ m = l - k
      /\ \A j \in 1 .. m : j + k \in 1 .. l /\ u[j] = w[j + k]
  OBVIOUS
<1> HIDE DEF l, m
<1>2. ASSUME Stream(w) PROVE Stream(u)
  <2> SUFFICES ASSUME NEW i \in 1 .. m
               PROVE  /\ u[i][1] \in Kinds /\ u[i][2] \in 1 .. Size(u[i][1])
                      /\ Continues(u, u[i][1], u[i][2], i)
    BY DEF Stream, m
  <2> DEFINE p == u[i][1]
             b == u[i][2]
  <2>1. /\ p \in Kinds /\ b \in 1 .. Size(p) /\ Continues(w, p, b, i + k)
        /\ b \in Nat /\ i \in Nat /\ Size(p) \in Nat
    <3>1. p \in Kinds /\ b \in 1 .. Size(p) /\ Continues(w, p, b, i + k)
      BY <1>1, <1>2 DEF Stream, l
    <3> QED
      BY <3>1, <1>1, SizeIs
  <2> HIDE DEF p, b
  <2>2. ASSUME NEW j \in 1 .. m, i < j
        PROVE  /\ b + (j - i) <= Size(p) => u[j] = <<p, b + (j - i)>>
               /\ b + (j - i) = Size(p) + 1 => u[j][2] = 1
    <3>1. j + k \in 1 .. l /\ i + k < j + k /\ (j + k) - (i + k) = j - i /\ u[j] = w[j + k]
      BY <1>1, <2>1, <2>2
    <3> QED
      BY <2>1, <3>1 DEF Continues, l
  <2>3. Continues(u, p, b, i)
    BY <2>2 DEF Continues, m
  <2> QED
    BY <2>1, <2>3 DEF p, b
<1>3. ASSUME WholePackets(w) PROVE WholePackets(u)
  <2> SUFFICES ASSUME NEW i \in 1 .. m
               PROVE  Size(u[i][1]) - u[i][2] <= m - i
    BY DEF WholePackets, Complete, m
  <2>1. Size(u[i][1]) - u[i][2] <= l - (i + k)
    BY <1>1, <1>3 DEF WholePackets, Complete, l
  <2>2. l - (i + k) = m - i
    BY <1>1
  <2> QED
    BY <2>1, <2>2
<1>4. ASSUME Rising(w) PROVE Rising(u)
  <2> SUFFICES ASSUME NEW i \in 1 .. m, NEW j \in 1 .. m, i < j, Opens(u, i), Opens(u, j)
               PROVE  u[i][1] < u[j][1]
    BY DEF Rising, m
  <2>1. i + k \in 1 .. l /\ j + k \in 1 .. l /\ i + k < j + k
    BY <1>1
  <2>2. u[i] = w[i + k] /\ u[j] = w[j + k]
    BY <1>1
  <2> QED
    BY <1>4, <2>1, <2>2 DEF Rising, Opens, l
<1>5. Opened(u) \subseteq Opened(w)
  BY <1>1 DEF Opened, Opens, l, m
<1> QED
  BY <1>2, <1>3, <1>4, <1>5

\* which are the next ones of the packet p, of which the reader had q.
LEMMA DroppedOf ==
    ASSUME NEW w, NEW u, NEW k \in Nat, Len(w) \in Nat, k <= Len(w),
           Len(u) = Len(w) - k, \A j \in 1 .. Len(u) : u[j] = w[j + k],
           NEW p \in Kinds, NEW q \in Nat, q + k <= Size(p), Continues(w, p, q, 0)
    PROVE  /\ Continues(u, p, q + k, 0)
           /\ Complete(w, p, q, 0) => Complete(u, p, q + k, 0)
           /\ q >= 1 \/ p \notin Events => Opened(u) = Opened(w)
<1> DEFINE l == Len(w)
           m == Len(u)
           s == Size(p)
<1>1. /\ l \in Nat /\ m \in Nat /\ m = l - k /\ s \in Nat
      /\ \A j \in 1 .. m : j + k \in 1 .. l /\ u[j] = w[j + k]
  BY SizeIs
<1> HIDE DEF l, m, s
<1>2. Continues(u, p, q + k, 0)
  <2> SUFFICES ASSUME NEW j \in 1 .. m, 0 < j
               PROVE  /\ (q + k) + (j - 0) <= s => u[j] = <<p, (q + k) + (j - 0)>>
                      /\ (q + k) + (j - 0) = s + 1 => u[j][2] = 1
    BY DEF Continues, m, s
  <2>1. /\ j + k \in 1 .. l /\ 0 < j + k /\ q + ((j + k) - 0) = (q + k) + (j - 0)
        /\ u[j] = w[j + k]
    BY <1>1
  <2> QED
    BY <2>1 DEF Continues, l, s
<1>3. Complete(w, p, q, 0) => Complete(u, p, q + k, 0)
  <2>1. s - q <= l - 0 => s - (q + k) <= m - 0
    BY <1>1
  <2> QED
    BY <2>1 DEF Complete, l, m, s
<1>4. ASSUME q >= 1 \/ p \notin Events PROVE Opened(w) \subseteq Opened(u)
  <2> SUFFICES ASSUME NEW i \in 1 .. l, Opens(w, i)
               PROVE  \E j \in 1 .. m : Opens(u, j) /\ u[j][1] = w[i][1]
    BY DEF Opened, l, m
  <2>1. i > k
    <3> SUFFICES ASSUME i <= k PROVE FALSE
      BY <1>1
    <3>1. 0 < i /\ q + (i - 0) <= s /\ (q >= 1 => q + (i - 0) # 1)
      <4>1. q + k <= s /\ i \in Nat
        BY <1>1 DEF s
      <4> QED
        BY <1>1, <4>1
    <3>2. w[i] = <<p, q + (i - 0)>>
      BY <3>1 DEF Continues, l, s
    <3>3. w[i][1] = p /\ w[i][2] = q + (i - 0)
      BY <3>2
    <3> QED
      BY <1>4, <3>1, <3>3 DEF Opens
  <2>2. i - k \in 1 .. m /\ (i - k) + k = i
    BY <1>1, <2>1
  <2>3. u[i - k] = w[i]
    BY <1>1, <2>2
  <2> QED
    BY <2>2, <2>3 DEF Opens
<1>5. Opened(u) \subseteq Opened(w)
  BY Dropped
<1> QED
  BY <1>2, <1>3, <1>4, <1>5

\* The first byte of w is off: of the packet p.
LEMMA FirstDropped ==
    ASSUME NEW w, NEW u, Len(w) \in Nat \ {0}, Len(u) = Len(w) - 1,
           \A j \in 1 .. Len(u) : u[j] = w[j + 1],
           Stream(w), w[1] = <<w[1][1], w[1][2]>>
    PROVE  /\ Continues(u, w[1][1], w[1][2], 0)
           /\ WholePackets(w) => Complete(u, w[1][1], w[1][2], 0)
           /\ Opened(w) = Opened(u) \cup (IF Opens(w, 1) THEN {w[1][1]} ELSE {})
           /\ Rising(w) /\ Opens(w, 1) => \A e \in Opened(u) : w[1][1] < e
<1> DEFINE l == Len(w)
           m == Len(u)
           p == w[1][1]
           b == w[1][2]
<1>1. /\ l \in Nat /\ m \in Nat /\ m = l - 1 /\ 1 \in 1 .. l
      /\ \A j \in 1 .. m : j + 1 \in 1 .. l /\ u[j] = w[j + 1]
      /\ p \in Kinds /\ Continues(w, p, b, 1) /\ b \in Nat
  <2>1. 1 \in 1 .. l
    OBVIOUS
  <2>2. p \in Kinds /\ b \in 1 .. Size(p) /\ Continues(w, p, b, 1) /\ Size(p) \in Nat
    BY <2>1, SizeIs DEF Stream
  <2> HIDE DEF p, b
  <2> QED
    BY <2>1, <2>2
<1>2. \A i \in 1 .. l : i = 1 \/ (i - 1 \in 1 .. m /\ u[i - 1] = w[i])
  BY <1>1
<1> HIDE DEF l, m, p, b
<1>3. Continues(u, p, b, 0)
  <2> SUFFICES ASSUME NEW j \in 1 .. m, 0 < j
               PROVE  /\ b + (j - 0) <= Size(p) => u[j] = <<p, b + (j - 0)>>
                      /\ b + (j - 0) = Size(p) + 1 => u[j][2] = 1
    BY DEF Continues, m
  <2>1. j + 1 \in 1 .. l /\ 1 < j + 1 /\ (j + 1) - 1 = j - 0 /\ u[j] = w[j + 1]
    BY <1>1
  <2> QED
    BY <1>1, <2>1 DEF Continues, l
<1>4. WholePackets(w) => Complete(u, p, b, 0)
  <2>1. l - 1 = m - 0
    BY <1>1
  <2> QED
    BY <1>1, <2>1 DEF WholePackets, Complete, l, m, p, b
<1>5. Opened(w) = Opened(u) \cup (IF Opens(w, 1) THEN {p} ELSE {})
  <2>1. \A e : e \in Opened(w) => e \in Opened(u) \/ (Opens(w, 1) /\ e = p)
    BY <1>2 DEF Opened, Opens, l, m, p
  <2>2. \A e : e \in Opened(u) => e \in Opened(w)
    BY <1>1 DEF Opened, Opens, l, m
  <2>3. Opens(w, 1) => p \in Opened(w)
    BY <1>1 DEF Opened, Opens, l, p
  <2> QED
    BY <2>1, <2>2, <2>3
<1>6. ASSUME Rising(w), Opens(w, 1), NEW e \in Opened(u)
      PROVE  p < e
  <2>1. PICK j \in 1 .. m : Opens(u, j) /\ u[j][1] = e
    BY DEF Opened, m
  <2>2. j + 1 \in 1 .. l /\ 1 < j + 1 /\ u[j] = w[j + 1] /\ 1 \in 1 .. l
    BY <1>1
  <2> QED
    BY <1>6, <2>1, <2>2 DEF Rising, Opens, l, p
<1> QED
  BY <1>3, <1>4, <1>5, <1>6 DEF p, b

\* u is what is left of w when the rest is lost.
LEMMA Truncated ==
    ASSUME NEW w, NEW u, Len(w) \in Nat, Len(u) \in 0 .. Len(w),
           \A j \in 1 .. Len(u) : u[j] = w[j]
    PROVE  /\ Stream(w) => Stream(u)
           /\ Rising(w) => Rising(u)
           /\ \A p, k : Continues(w, p, k, 0) => Continues(u, p, k, 0)
           /\ Opened(u) \subseteq Opened(w)
           /\ Rising(w) => \A e \in Opened(w), f \in Opened(u) : e <= f => e \in Opened(u)
<1> DEFINE l == Len(w)
           m == Len(u)
<1>1. l \in Nat /\ m \in Nat /\ \A j \in 1 .. m : j \in 1 .. l /\ u[j] = w[j]
  OBVIOUS
<1> HIDE DEF l, m
<1>2. \A p, k, i : Continues(w, p, k, i) => Continues(u, p, k, i)
  BY <1>1 DEF Continues, l, m
<1>3. Stream(w) => Stream(u)
  BY <1>1, <1>2 DEF Stream, l, m
<1>4. Rising(w) => Rising(u)
  BY <1>1 DEF Rising, Opens, l, m
<1>5. Opened(u) \subseteq Opened(w)
  BY <1>1 DEF Opened, Opens, l, m
<1>6. ASSUME Rising(w), NEW e \in Opened(w), NEW f \in Opened(u), e <= f
      PROVE  e \in Opened(u)
  <2>1. PICK i \in 1 .. l : Opens(w, i) /\ w[i][1] = e
    BY DEF Opened, l
  <2>2. PICK j \in 1 .. m : Opens(u, j) /\ u[j][1] = f
    BY DEF Opened, m
  <2>3. j \in 1 .. l /\ Opens(w, j) /\ w[j][1] = f
    BY <1>1, <2>2 DEF Opens
  <2>4. e \in Int /\ f \in Int
    BY DEF Opened, Events
  <2>5. i <= j
    <3> SUFFICES ASSUME j < i PROVE FALSE
      BY <1>1
    <3>1. f < e
      BY <1>6, <2>1, <2>3 DEF Rising, l
    <3> QED
      BY <1>6, <2>4, <3>1
  <2>6. i \in 1 .. m /\ u[i] = w[i]
    BY <1>1, <2>5
  <2> QED
    BY <2>1, <2>6 DEF Opened, Opens, m
<1> QED
  BY <1>2, <1>3, <1>4, <1>5, <1>6

\* u is w and after it packet p.
LEMMA Sent ==
    ASSUME NEW w, NEW p \in Kinds, NEW u, Len(w) \in Nat, Len(u) = Len(w) + Size(p),
           \A j \in 1 .. Len(w) : u[j] = w[j],
           \A j \in 1 .. Size(p) : u[Len(w) + j] = <<p, j>>,
           WholePackets(w)
    PROVE  /\ Stream(w) => Stream(u) /\ WholePackets(u)
           /\ \A q \in Kinds : \A k \in 0 .. Size(q) :
                  Continues(w, q, k, 0) /\ Complete(w, q, k, 0)
                      => Continues(u, q, k, 0) /\ Complete(u, q, k, 0)
           /\ Opened(u) = Opened(w) \cup ({p} \cap Events)
           /\ Rising(w) /\ (\A e \in Opened(w) : p \in Events => e < p) => Rising(u)
           /\ (Len(w) # 0 => w[1][2] = 1) => u[1][2] = 1
<1> DEFINE l == Len(w)
           m == Len(u)
           s == Size(p)
<1>1. /\ l \in Nat /\ m \in Nat /\ s \in Nat /\ s >= 2 /\ m = l + s
      /\ \A j \in 1 .. l : j \in 1 .. m /\ u[j] = w[j]
      /\ \A j \in 1 .. m : j > l => j - l \in 1 .. s /\ u[j] = <<p, j - l>>
  <2>1. s \in Nat /\ s >= 2
    BY SizeIs
  <2>2. ASSUME NEW j \in 1 .. m, j > l
        PROVE  j - l \in 1 .. s /\ u[j] = <<p, j - l>>
    <3>1. j - l \in 1 .. s /\ l + (j - l) = j
      BY <2>1, <2>2
    <3> HIDE DEF m
    <3>2. u[l + (j - l)] = <<p, j - l>>
      BY <3>1
    <3> QED
      BY <3>1, <3>2
  <2>3. \A j \in 1 .. l : j \in 1 .. m
    BY <2>1
  <2> QED
    BY <2>1, <2>2, <2>3
<1>2. \A j \in 1 .. m : j \in 1 .. l \/ (j > l /\ j - l \in 1 .. s /\ u[j] = <<p, j - l>>
                                         /\ u[j][1] = p /\ u[j][2] = j - l)
  <2> SUFFICES ASSUME NEW j \in 1 .. m, j \notin 1 .. l
               PROVE  /\ j > l /\ j - l \in 1 .. s /\ u[j] = <<p, j - l>>
                      /\ u[j][1] = p /\ u[j][2] = j - l
    OBVIOUS
  <2> HIDE DEF l, m, s
  <2>1. j > l
    BY <1>1
  <2>2. j - l \in 1 .. s /\ u[j] = <<p, j - l>>
    BY <1>1, <2>1
  <2> QED
    BY <2>1, <2>2
<1> HIDE DEF l, m, s
<1>3. ASSUME NEW q \in Kinds, NEW k \in 0 .. Size(q), NEW i \in 0 .. l,
             Continues(w, q, k, i), Complete(w, q, k, i)
      PROVE  Continues(u, q, k, i) /\ Complete(u, q, k, i)
  <2>1. Size(q) \in Nat /\ Size(q) - k <= l - i /\ k \in Nat /\ i \in Nat
    BY <1>1, <1>3, SizeIs DEF Complete, l
  <2>2. ASSUME NEW j \in 1 .. m, i < j
        PROVE  /\ k + (j - i) <= Size(q) => u[j] = <<q, k + (j - i)>>
               /\ k + (j - i) = Size(q) + 1 => u[j][2] = 1
    <3>1. CASE j \in 1 .. l
      <4>1. u[j] = w[j]
        BY <1>1, <3>1
      <4> QED
        BY <1>3, <2>2, <3>1, <4>1 DEF Continues, l
    <3>2. CASE j \notin 1 .. l
      <4>1. j > l /\ u[j][2] = j - l
        BY <1>2, <3>2
      <4>2. ~(k + (j - i) <= Size(q))
        BY <1>1, <2>1, <4>1
      <4>3. k + (j - i) = Size(q) + 1 => j - l = 1
        BY <1>1, <2>1, <4>1
      <4> QED
        BY <4>1, <4>2, <4>3
    <3> QED
      BY <3>1, <3>2
  <2>3. Size(q) - k <= m - i
    BY <1>1, <2>1
  <2> QED
    BY <2>2, <2>3 DEF Continues, Complete, m
<1>4. ASSUME NEW i \in 1 .. m, i > l
      PROVE  /\ u[i][1] \in Kinds /\ u[i][2] \in 1 .. Size(u[i][1])
             /\ Continues(u, u[i][1], u[i][2], i) /\ Complete(u, u[i][1], u[i][2], i)
  <2>1. u[i][1] = p /\ u[i][2] = i - l /\ i - l \in 1 .. s
    BY <1>1, <1>2, <1>4
  <2>2. ASSUME NEW j \in 1 .. m, i < j
        PROVE  /\ (i - l) + (j - i) <= s => u[j] = <<p, (i - l) + (j - i)>>
               /\ (i - l) + (j - i) = s + 1 => u[j][2] = 1
    <3>1. j > l /\ (i - l) + (j - i) = j - l
      BY <1>1, <1>4, <2>2
    <3>2. u[j] = <<p, j - l>> /\ j - l \in 1 .. s
      BY <1>1, <3>1
    <3> QED
      BY <1>1, <3>1, <3>2
  <2>3. s - (i - l) <= m - i
    BY <1>1
  <2> QED
    BY <2>1, <2>2, <2>3 DEF Continues, Complete, s, m
<1>5. ASSUME Stream(w), NEW i \in 1 .. l
      PROVE  /\ u[i][1] \in Kinds /\ u[i][2] \in 1 .. Size(u[i][1])
             /\ Continues(u, u[i][1], u[i][2], i) /\ Complete(u, u[i][1], u[i][2], i)
  <2>1. /\ u[i] = w[i] /\ w[i][1] \in Kinds /\ w[i][2] \in 1 .. Size(w[i][1])
        /\ Continues(w, w[i][1], w[i][2], i) /\ Complete(w, w[i][1], w[i][2], i)
    BY <1>1, <1>5 DEF Stream, WholePackets, l
  <2>2. w[i][2] \in 0 .. Size(w[i][1]) /\ i \in 0 .. l
    BY <1>1, <2>1, SizeIs
  <2> QED
    BY <1>3, <2>1, <2>2
<1>6. Stream(w) => Stream(u)
  BY <1>2, <1>4, <1>5 DEF Stream, m
<1>7. Stream(w) => WholePackets(u)
  BY <1>2, <1>4, <1>5 DEF WholePackets, m
<1>8. Opened(u) = Opened(w) \cup ({p} \cap Events)
  <2>1. ASSUME NEW i \in 1 .. m, Opens(u, i)
        PROVE  u[i][1] \in Opened(w) \cup ({p} \cap Events)
    <3>1. CASE i \in 1 .. l
      BY <1>1, <2>1, <3>1 DEF Opened, Opens, l
    <3>2. CASE i \notin 1 .. l
      BY <1>2, <2>1, <3>2 DEF Opens
    <3> QED
      BY <3>1, <3>2
  <2>2. ASSUME NEW i \in 1 .. l, Opens(w, i)
        PROVE  w[i][1] \in Opened(u)
    BY <1>1, <2>2 DEF Opened, Opens, m
  <2>3. ASSUME p \in Events
        PROVE  p \in Opened(u)
    <3>1. l + 1 \in 1 .. m /\ l + 1 > l /\ (l + 1) - l = 1
      BY <1>1
    <3>2. u[l + 1] = <<p, 1>>
      BY <1>1, <3>1
    <3> QED
      BY <2>3, <3>1, <3>2 DEF Opened, Opens, m
  <2>4. \A e \in Opened(u) : e \in Opened(w) \cup ({p} \cap Events)
    BY <2>1 DEF Opened, m
  <2>5. \A e \in Opened(w) : e \in Opened(u)
    BY <2>2 DEF Opened, l
  <2> QED
    BY <2>3, <2>4, <2>5
<1>9. ASSUME Rising(w), \A e \in Opened(w) : p \in Events => e < p
      PROVE  Rising(u)
  <2> SUFFICES ASSUME NEW i \in 1 .. m, NEW j \in 1 .. m, i < j, Opens(u, i), Opens(u, j)
               PROVE  u[i][1] < u[j][1]
    BY DEF Rising, m
  <2>1. CASE j \in 1 .. l
    <3>1. i \in 1 .. l
      BY <1>1, <2>1
    <3> QED
      BY <1>1, <1>9, <2>1, <3>1 DEF Rising, Opens, l
  <2>2. CASE j \notin 1 .. l
    <3>1. j > l /\ j - l = 1 /\ u[j][1] = p /\ p \in Events
      BY <1>2, <2>2 DEF Opens
    <3>2. i \in 1 .. l
      BY <1>1, <3>1
    <3>3. u[i] = w[i]
      BY <1>1, <3>2
    <3>4. w[i][1] \in Opened(w)
      BY <3>2, <3>3 DEF Opened, Opens, l
    <3> QED
      BY <1>9, <3>1, <3>3, <3>4
  <2> QED
    BY <2>1, <2>2
<1>10. ASSUME l # 0 => w[1][2] = 1
       PROVE  u[1][2] = 1
  <2>1. CASE l = 0
    <3>1. 1 \in 1 .. m /\ 1 > l /\ 1 - l = 1
      BY <1>1, <2>1
    <3>2. u[1] = <<p, 1>>
      BY <1>1, <3>1
    <3> QED
      BY <3>2
  <2>2. CASE l # 0
    <3>1. 1 \in 1 .. l
      BY <1>1, <2>2
    <3> QED
      BY <1>1, <1>10, <2>2, <3>1
  <2> QED
    BY <2>1, <2>2
<1>11. \A q \in Kinds : \A k \in 0 .. Size(q) :
          Continues(w, q, k, 0) /\ Complete(w, q, k, 0)
              => Continues(u, q, k, 0) /\ Complete(u, q, k, 0)
  <2>1. 0 \in 0 .. l
    BY <1>1
  <2> QED
    BY <1>3, <2>1
<1> QED
  BY <1>6, <1>7, <1>8, <1>9, <1>10, <1>11 DEF l

----------------------------------------------------------------------------
(* The wire as the actions change it.                                       *)

Bytes == Kinds \X Nat

WireOK(w, cn) ==
    /\ w \in Seq(Bytes)
    /\ Stream(w) /\ Rising(w)
    /\ cn = "open" => WholePackets(w)

\* The wire goes on with packet p, of which the reader had k bytes.
Goes(w, cn, p, k) == Continues(w, p, k, 0) /\ (cn = "open" => Complete(w, p, k, 0))

FromBroker(w) == \A i \in 1 .. Len(w) : w[i][1] \in Messages

AtStart(w) == Len(w) # 0 => w[1][2] = 1

LEMMA NothingSent ==
    /\ \A cn : WireOK(<<>>, cn)
    /\ Opened(<<>>) = {} /\ FromBroker(<<>>) /\ AtStart(<<>>) /\ Len(<<>>) = 0
    /\ \A cn, p, k : cn # "open" => Goes(<<>>, cn, p, k)
<1>1. <<>> \in Seq(Bytes) /\ Len(<<>>) = 0
  BY EmptySeq
<1>2. 1 .. Len(<<>>) = {}
  BY <1>1
<1> QED
  BY <1>1, <1>2 DEF WireOK, Stream, Rising, WholePackets, Opened, FromBroker, AtStart, Goes, Continues

LEMMA PacketIs ==
    ASSUME NEW p \in Kinds
    PROVE  /\ Packet(p) \in Seq(Bytes) /\ Len(Packet(p)) = Size(p)
           /\ \A j \in 1 .. Size(p) : Packet(p)[j] = <<p, j>>
<1>1. Size(p) \in Nat
  BY SizeIs
<1>2. \A j \in 1 .. Size(p) : <<p, j>> \in Bytes
  BY DEF Bytes
<1> HIDE DEF Bytes
<1> QED
  BY <1>1, <1>2 DEF Packet

LEMMA WireGrows ==
    ASSUME NEW w, WireOK(w, "open"), NEW p \in Kinds,
           \A e \in Opened(w) : p \in Events => e < p
    PROVE  /\ WireOK(w \o Packet(p), "open")
           /\ Len(w \o Packet(p)) = Len(w) + Size(p)
           /\ \A q \in Kinds : \A k \in 0 .. Size(q) :
                  Goes(w, "open", q, k) => Goes(w \o Packet(p), "open", q, k)
           /\ Opened(w \o Packet(p)) = Opened(w) \cup ({p} \cap Events)
           /\ AtStart(w) => AtStart(w \o Packet(p))
           /\ p \in Messages => \A i \in 1 .. Len(w \o Packet(p)) :
                  (w \o Packet(p))[i][1] \in Messages \/ (i \in 1 .. Len(w) /\ (w \o Packet(p))[i] = w[i])
<1> DEFINE u == w \o Packet(p)
           s == Size(p)
<1>1. w \in Seq(Bytes) /\ Packet(p) \in Seq(Bytes) /\ Len(Packet(p)) = s /\ s \in Nat /\ Len(w) \in Nat
  BY PacketIs, SizeIs, LenProperties DEF WireOK
<1>2. /\ u \in Seq(Bytes) /\ Len(u) = Len(w) + s
      /\ \A i \in 1 .. Len(w) + s : u[i] = IF i <= Len(w) THEN w[i] ELSE Packet(p)[i - Len(w)]
  BY <1>1, ConcatProperties
<1> HIDE DEF u, s
<1>3. \A j \in 1 .. Len(w) : u[j] = w[j]
  BY <1>1, <1>2
<1>4. ASSUME NEW j \in 1 .. s
      PROVE  u[Len(w) + j] = <<p, j>>
  <2>1. Len(w) + j \in 1 .. Len(w) + s /\ ~(Len(w) + j <= Len(w)) /\ (Len(w) + j) - Len(w) = j
    BY <1>1
  <2> QED
    BY <1>2, <2>1, PacketIs DEF s
<1>5. WholePackets(w) /\ Stream(w) /\ Rising(w)
  BY DEF WireOK
<1>6. /\ Stream(u) /\ WholePackets(u) /\ Rising(u)
      /\ \A q \in Kinds : \A k \in 0 .. Size(q) :
                  Continues(w, q, k, 0) /\ Complete(w, q, k, 0)
                      => Continues(u, q, k, 0) /\ Complete(u, q, k, 0)
      /\ Opened(u) = Opened(w) \cup ({p} \cap Events)
      /\ AtStart(w) => u[1][2] = 1
  <2>1. /\ Len(w) \in Nat /\ Len(u) = Len(w) + Size(p)
        /\ \A j \in 1 .. Len(w) : u[j] = w[j]
        /\ \A j \in 1 .. Size(p) : u[Len(w) + j] = <<p, j>>
    BY <1>1, <1>2, <1>3, <1>4 DEF s
  <2>2. /\ Stream(u) /\ WholePackets(u)
        /\ \A q \in Kinds : \A k \in 0 .. Size(q) :
               Continues(w, q, k, 0) /\ Complete(w, q, k, 0)
                   => Continues(u, q, k, 0) /\ Complete(u, q, k, 0)
        /\ Opened(u) = Opened(w) \cup ({p} \cap Events)
        /\ (Len(w) # 0 => w[1][2] = 1) => u[1][2] = 1
    BY <1>5, <2>1, Sent
  <2>3. Rising(u)
    BY <1>5, <2>1, Sent
  <2> QED
    BY <2>2, <2>3 DEF AtStart
<1>7. ASSUME NEW i \in 1 .. Len(u), i \notin 1 .. Len(w)
      PROVE  u[i][1] = p
  <2>1. i - Len(w) \in 1 .. s /\ Len(w) + (i - Len(w)) = i
    BY <1>1, <1>2, <1>7
  <2>2. u[i] = <<p, i - Len(w)>>
    BY <1>4, <2>1
  <2> QED
    BY <2>2
<1>8. p \in Messages => \A i \in 1 .. Len(u) : u[i][1] \in Messages \/ (i \in 1 .. Len(w) /\ u[i] = w[i])
  BY <1>3, <1>7
<1> QED
  BY <1>2, <1>6, <1>8 DEF WireOK, Goes, AtStart, u, s

\* A packet alone on the wire
LEMMA Alone ==
    ASSUME NEW p \in Kinds
    PROVE  /\ WireOK(Packet(p), "open") /\ Goes(Packet(p), "open", p, 0)
           /\ Opened(Packet(p)) = {p} \cap Events
<1>1. Packet(p) \in Seq(Bytes) /\ <<>> \o Packet(p) = Packet(p)
  BY PacketIs, ConcatEmptySeq
<1>2. WireOK(Packet(p), "open") /\ Opened(Packet(p)) = {p} \cap Events
  <2>1. WireOK(<<>>, "open") /\ Opened(<<>>) = {}
    BY NothingSent
  <2>2. /\ WireOK(<<>> \o Packet(p), "open")
        /\ Opened(<<>> \o Packet(p)) = {} \cup ({p} \cap Events)
    BY <2>1, WireGrows
  <2> QED
    BY <1>1, <2>2
<1>3. Goes(Packet(p), "open", p, 0)
  <2>1. Size(p) \in Nat
    BY SizeIs
  <2> QED
    BY <2>1, PacketIs DEF Goes, Continues, Complete
<1> QED
  BY <1>2, <1>3

LEMMA WireCut ==
    ASSUME NEW w, WireOK(w, "open"), NEW n \in 0 .. Len(w), NEW cn, cn # "open"
    PROVE  /\ WireOK(SubSeq(w, 1, n), cn)
           /\ Len(SubSeq(w, 1, n)) = n
           /\ \A i \in 1 .. n : i \in 1 .. Len(w) /\ SubSeq(w, 1, n)[i] = w[i]
           /\ \A p, k : Goes(w, "open", p, k) => Goes(SubSeq(w, 1, n), cn, p, k)
           /\ Opened(SubSeq(w, 1, n)) \subseteq Opened(w)
           /\ \A e \in Opened(w), f \in Opened(SubSeq(w, 1, n)) :
                  e <= f => e \in Opened(SubSeq(w, 1, n))
           /\ FromBroker(w) => FromBroker(SubSeq(w, 1, n))
           /\ AtStart(w) => AtStart(SubSeq(w, 1, n))
<1> DEFINE u == SubSeq(w, 1, n)
<1>1. w \in Seq(Bytes) /\ Len(w) \in Nat
  BY LenProperties DEF WireOK
<1>2. \A i \in 1 .. n : i \in 1 .. Len(w) /\ w[i] \in Bytes
  <2>1. \A i \in 1 .. n : i \in 1 .. Len(w)
    BY <1>1
  <2> QED
    BY <1>1, <2>1, ElementOfSeq
<1>3. /\ u \in Seq(Bytes) /\ Len(u) = n
      /\ \A i \in 1 .. n : u[i] = w[i]
  <2>1. /\ u \in Seq(Bytes) /\ Len(u) = (IF 1 <= n THEN n - 1 + 1 ELSE 0)
        /\ \A i \in 1 .. n - 1 + 1 : u[i] = w[1 + i - 1]
    BY <1>1, <1>2, SubSeqProperties
  <2>2. n \in Nat /\ n - 1 + 1 = n /\ (1 <= n \/ n = 0) /\ \A i \in 1 .. n : 1 + i - 1 = i
    BY <1>1
  <2> QED
    BY <2>1, <2>2
<1> HIDE DEF u
<1>4. /\ Stream(u) /\ Rising(u)
      /\ \A p, k : Continues(w, p, k, 0) => Continues(u, p, k, 0)
      /\ Opened(u) \subseteq Opened(w)
      /\ \A e \in Opened(w), f \in Opened(u) : e <= f => e \in Opened(u)
  BY <1>1, <1>3, Truncated DEF WireOK
<1>5. AtStart(w) => AtStart(u)
  <2>1. n # 0 => 1 \in 1 .. n /\ Len(w) # 0
    BY <1>1
  <2> QED
    BY <1>3, <2>1 DEF AtStart
<1>6. FromBroker(w) => FromBroker(u)
  BY <1>2, <1>3 DEF FromBroker
<1> QED
  BY <1>2, <1>3, <1>4, <1>5, <1>6 DEF WireOK, Goes, u

\* recv returned k bytes.
LEMMA WireRead ==
    ASSUME NEW w, NEW cn, WireOK(w, cn), NEW k \in 0 .. Len(w), NEW u,
           u \in Seq(Bytes), Len(u) = Len(w) - k, \A j \in 1 .. Len(u) : u[j] = w[j + k]
    PROVE  /\ WireOK(u, cn)
           /\ Opened(u) \subseteq Opened(w)
           /\ FromBroker(w) => FromBroker(u)
           /\ \A p \in Kinds : \A q \in Nat :
                  q + k <= Size(p) /\ Goes(w, cn, p, q) =>
                      /\ Goes(u, cn, p, q + k)
                      /\ q >= 1 \/ p \notin Events => Opened(u) = Opened(w)
<1>1. w \in Seq(Bytes) /\ Len(w) \in Nat /\ k \in Nat /\ k <= Len(w)
  <2>1. w \in Seq(Bytes) /\ Len(w) \in Nat
    BY LenProperties DEF WireOK
  <2> QED
    BY <2>1
<1>2. WireOK(u, cn) /\ Opened(u) \subseteq Opened(w)
  BY <1>1, Dropped DEF WireOK
<1>3. FromBroker(w) => FromBroker(u)
  <2>1. \A j \in 1 .. Len(u) : j + k \in 1 .. Len(w)
    BY <1>1
  <2> QED
    BY <2>1 DEF FromBroker
<1>4. ASSUME NEW p \in Kinds, NEW q \in Nat, q + k <= Size(p), Goes(w, cn, p, q)
      PROVE  /\ Goes(u, cn, p, q + k)
             /\ q >= 1 \/ p \notin Events => Opened(u) = Opened(w)
  <2>1. /\ Continues(u, p, q + k, 0)
        /\ Complete(w, p, q, 0) => Complete(u, p, q + k, 0)
        /\ q >= 1 \/ p \notin Events => Opened(u) = Opened(w)
    BY <1>1, <1>4, DroppedOf DEF Goes
  <2> QED
    BY <1>4, <2>1 DEF Goes
<1> QED
  BY <1>2, <1>3, <1>4

LEMMA UnreadIs ==
    ASSUME wire \in Seq(Bytes), NEW k \in 0 .. Len(wire)
    PROVE  /\ Unread(k) \in Seq(Bytes) /\ Len(Unread(k)) = Len(wire) - k
           /\ \A j \in 1 .. Len(Unread(k)) : Unread(k)[j] = wire[j + k]
<1> DEFINE l == Len(wire)
<1>1. l \in Nat /\ k \in 0 .. l
  BY LenProperties
<1>2. \A i \in k + 1 .. l : wire[i] \in Bytes
  <2>1. \A i \in k + 1 .. l : i \in 1 .. Len(wire)
    BY <1>1
  <2> QED
    BY <2>1, ElementOfSeq
<1>3. /\ Unread(k) \in Seq(Bytes)
      /\ Len(Unread(k)) = IF k + 1 <= l THEN l - (k + 1) + 1 ELSE 0
      /\ \A i \in 1 .. l - (k + 1) + 1 : Unread(k)[i] = wire[k + 1 + i - 1]
  BY <1>1, <1>2, SubSeqProperties DEF Unread
<1> HIDE DEF l
<1>4. l - (k + 1) + 1 = l - k /\ (k + 1 <= l \/ l - k = 0)
  BY <1>1
<1>5. Len(Unread(k)) = l - k
  BY <1>3, <1>4
<1>6. \A i \in 1 .. l - k : k + 1 + i - 1 = i + k
  BY <1>1
<1>7. \A j \in 1 .. l - k : Unread(k)[j] = wire[j + k]
  BY <1>3, <1>4, <1>6
<1> QED
  BY <1>3, <1>5, <1>7 DEF l

LEMMA TailIs ==
    ASSUME wire \in Seq(Bytes), 1 <= Len(wire)
    PROVE  /\ Tail(wire) \in Seq(Bytes) /\ Len(Tail(wire)) = Len(wire) - 1
           /\ \A j \in 1 .. Len(Tail(wire)) : Tail(wire)[j] = wire[j + 1]
           /\ Head(wire) = wire[1] /\ wire[1] \in Bytes /\ Len(wire) \in Nat \ {0}
<1>1. wire # <<>> /\ Len(wire) \in Nat \ {0}
  <2>1. Len(<<>>) = 0 /\ ~(1 <= 0)
    OBVIOUS
  <2>2. wire # <<>>
    BY <2>1, Zenon
  <2> QED
    BY <2>2, EmptySeq
<1>2. Head(wire) = wire[1]
  OBVIOUS
<1> HIDE DEF Bytes
<1> QED
  BY <1>1, <1>2, HeadTailProperties

----------------------------------------------------------------------------
(* The reader and the stream.                                               *)

\* Where the reader is with its connection
LinkOK ==
    /\ pc \in {"connect", "connack", "suback", "type", "len", "body", "sleep"}
    /\ conn \in {"none", "open", "silent", "reset"}
    /\ split \in BOOLEAN /\ cut \in BOOLEAN
    /\ pushed \in 0 .. MaxSent /\ faults \in 0 .. MaxFaults
    /\ conn = "none" <=> pc \in {"connect", "sleep"}
    /\ conn = "open" => ~cut
    /\ conn \in {"silent", "reset"} => cut
    /\ pc \notin {"len", "body"} => head = NoByte /\ lens = 0 /\ rem = 0
    /\ pc \in {"connect", "sleep", "type", "len"} => data = 0
    /\ pc \in {"connect", "sleep"} => wire = <<>>
    /\ pc = "body" => lens = 0

\* A packet taken for what it is, of which the reader has the length in part
LenOK ==
    /\ head[1] \in Messages
    /\ Reading(LengthOf(head[1]), lens, rem)
    /\ lens < Len(RemLenOf(head[1]))
    /\ Goes(wire, conn, head[1], 1 + lens)

\* or the length and a part of the body.
BodyOK ==
    /\ head[1] \in Messages
    /\ rem = LengthOf(head[1])
    /\ Goes(wire, conn, head[1], 1 + Len(RemLenOf(head[1])) + data)

\* Inductive: the wire holds packets in the order of their events; who has taken the
\* first byte of one for what it is reads this packet to its end; and only a timeout
\* makes the reader take another byte for a first one.
PositionInv ==
    /\ WireOK(wire, conn)
    /\ head \in Bytes
    /\ pc = "connack" => /\ data \in 0 .. 3 /\ Len(wire) + data <= 4
                         /\ Goes(wire, conn, CONNACK, data)
    /\ pc = "suback" => /\ data \in 0 .. 4
                        /\ Goes(wire, conn, SUBACK, data)
                        /\ \A i \in 1 .. Len(wire) : i > 5 - data => wire[i][1] \in Messages
    /\ pc \in {"type", "len", "body"} => FromBroker(wire)
    /\ pc = "type" /\ ~split => AtStart(wire)
    /\ pc \in {"len", "body"} /\ ~split => Aligned
    /\ pc = "len" => lens \in 0 .. 3 /\ rem \in Nat /\ (Aligned => LenOK)
    /\ pc = "body" => data \in Nat /\ rem \in Nat /\ data < rem /\ (Aligned => BodyOK)

\* The events under way with the first byte h in hand
Flight(h, w) == (IF h[2] = 1 /\ h[1] \in Events THEN {h[1]} ELSE {}) \cup Opened(w)

\* No gap after r, and none up to u
Gapless(F, r) == \A e \in F : r < e /\ \A f \in r + 1 .. e : f \in F
UpTo(F, r, u) == r <= u /\ (\A e \in F : e <= u) /\ \A f \in r + 1 .. u : f \in F

\* Inductive: the event in hand comes before those on the wire, all of them after the
\* last one yielded, and without a timeout inside a packet none is missing between.
EventInv ==
    /\ latest \in 0 .. pushed /\ since \in 0 .. pushed /\ upto \in 0 .. pushed
    /\ \A e \in Opened(wire) : e <= pushed
    /\ Aligned /\ head[1] \in Events => /\ head[1] <= pushed
                                        /\ \A e \in Opened(wire) : head[1] < e
    /\ Subscribed => upto = pushed
    /\ \A e \in Flight(head, wire) : latest < e
    /\ pc \in {"suback", "type", "len", "body"} /\ ~split =>
           /\ Gapless(Flight(head, wire), Reached)
           /\ ~cut => UpTo(Flight(head, wire), Reached, upto)

LEMMA WantedIs ==
    /\ pc = "connack" => Wanted = 4
    /\ pc = "suback" => Wanted = 5
    /\ pc = "body" => Wanted = rem
    /\ pc \in {"connect", "sleep", "type", "len"} => Wanted = 1
BY DEF Wanted

LEMMA LinkInvariant == Spec => []LinkOK
<1>1. Init => LinkOK
  <2>1. 0 \in 0 .. MaxSent /\ 0 \in 0 .. MaxFaults
    BY LengthAssumption
  <2> QED
    BY <2>1 DEF Init, LinkOK
<1>2. LinkOK /\ [Next]_vars => LinkOK'
  <2> SUFFICES ASSUME LinkOK, [Next]_vars PROVE LinkOK'
    OBVIOUS
  <2> USE DEF LinkOK
  <2>1. CASE BrokerPublishes
    BY <2>1, LengthAssumption DEF BrokerPublishes, Subscribed, packetVars
  <2>2. CASE ConnectionBreaks
    BY <2>2, LengthAssumption DEF ConnectionBreaks, Fault, packetVars, eventVars
  <2>3. CASE ConnectFails
    BY <2>3, LengthAssumption DEF ConnectFails, Fault, packetVars, eventVars
  <2>4. CASE SetupFails
    BY <2>4, LengthAssumption DEF SetupFails, Fault, GiveUp, packetVars, eventVars
  <2>5. CASE Sleep
    BY <2>5 DEF Sleep, packetVars, eventVars
  <2>6. CASE Connect
    BY <2>6 DEF Connect, packetVars, eventVars
  <2>7. CASE RecvPart
    <3>1. PICK k \in 1 .. Wanted : Recv(k) /\ ~BufFull(data + k)
      BY <2>7 DEF RecvPart
    <3>2. pc \notin {"connect", "sleep", "type", "len"}
      <4> SUFFICES ASSUME pc \in {"connect", "sleep", "type", "len"} PROVE FALSE
        OBVIOUS
      <4>1. Wanted = 1 /\ data = 0
        BY WantedIs
      <4>2. k = 1
        BY <4>1
      <4> QED
        BY <3>1, <4>1, <4>2 DEF BufFull
    <3> QED
      BY <2>7, <3>2 DEF RecvPart, packetVars, eventVars
  <2>8. CASE RecvConnack
    BY <2>8 DEF RecvConnack, GiveUp
  <2>9. CASE RecvSuback
    BY <2>9 DEF RecvSuback, eventVars
  <2>10. CASE RecvType
    BY <2>10 DEF RecvType, eventVars
  <2>11. CASE RecvLen
    BY <2>11 DEF RecvLen, LenStep, PacketRead, NextPacket, GiveUp
  <2>12. CASE RecvBody
    BY <2>12 DEF RecvBody, PacketRead, NextPacket, GiveUp
  <2>13. CASE RecvRaises
    BY <2>13 DEF RecvRaises, GiveUp, eventVars
  <2>14. CASE Timeout
    BY <2>14 DEF Timeout, Ping, DataAfterTimeout, eventVars
  <2>15. CASE UNCHANGED vars
    BY <2>15 DEF vars, packetVars, eventVars
  <2> QED
    BY <2>1, <2>2, <2>3, <2>4, <2>5, <2>6, <2>7, <2>8, <2>9, <2>10, <2>11, <2>12, <2>13, <2>14, <2>15
       DEF Next, Reader, Receive
<1> QED
  BY <1>1, <1>2, PTL DEF Spec

----------------------------------------------------------------------------
(* What is under way, as the actions change it.                             *)

LEMMA FlightGrows ==
    ASSUME NEW F, NEW r \in Nat, NEW u \in Nat, F \subseteq Int, Gapless(F, r), UpTo(F, r, u)
    PROVE  Gapless(F \cup {u + 1}, r) /\ UpTo(F \cup {u + 1}, r, u + 1)
<1>1. r <= u /\ (\A e \in F : e \in Int /\ e <= u) /\ \A f \in r + 1 .. u : f \in F
  BY DEF UpTo
<1>2. \A f \in r + 1 .. u + 1 : f \in F \cup {u + 1}
  <2>1. \A f \in r + 1 .. u + 1 : f = u + 1 \/ f \in r + 1 .. u
    OBVIOUS
  <2> QED
    BY <1>1, <2>1
<1>3. UpTo(F \cup {u + 1}, r, u + 1)
  <2>1. r <= u + 1 /\ \A e \in F \cup {u + 1} : e <= u + 1
    BY <1>1
  <2> QED
    BY <1>2, <2>1 DEF UpTo
<1>4. \A e \in F \cup {u + 1} : r < e /\ \A f \in r + 1 .. e : f \in F \cup {u + 1}
  <2>1. \A e \in F : r < e /\ \A f \in r + 1 .. e : f \in F
    BY DEF Gapless
  <2>2. r < u + 1
    BY <1>1
  <2> QED
    BY <1>2, <2>1, <2>2
<1> QED
  BY <1>3, <1>4 DEF Gapless

LEMMA FlightCut ==
    ASSUME NEW F, NEW G, NEW r \in Nat, F \subseteq Int, Gapless(F, r), G \subseteq F,
           \A e \in F, f \in G : e <= f => e \in G
    PROVE  Gapless(G, r)
<1> SUFFICES ASSUME NEW e \in G
             PROVE  r < e /\ \A f \in r + 1 .. e : f \in G
  BY DEF Gapless
<1>1. e \in Int /\ r < e /\ \A f \in r + 1 .. e : f \in F
  BY DEF Gapless
<1>2. \A f \in r + 1 .. e : f <= e
  BY <1>1
<1> QED
  BY <1>1, <1>2

\* The packet in hand is the next one.
LEMMA FlightLands ==
    ASSUME NEW p \in Int, NEW O, NEW r \in Nat, O \subseteq Int, \A e \in O : p < e,
           Gapless({p} \cup O, r)
    PROVE  /\ p = r + 1
           /\ Gapless(O, p)
           /\ \A u \in Nat : UpTo({p} \cup O, r, u) => UpTo(O, p, u)
<1>1. /\ r < p /\ \A f \in r + 1 .. p : f \in {p} \cup O
      /\ \A e \in O : r < e /\ \A f \in r + 1 .. e : f \in {p} \cup O
  BY DEF Gapless
<1>2. p = r + 1
  <2> SUFFICES ASSUME p # r + 1 PROVE FALSE
    OBVIOUS
  <2>1. r + 1 \in r + 1 .. p /\ ~(p < r + 1)
    BY <1>1
  <2> QED
    BY <1>1, <2>1
<1>3. Gapless(O, p)
  <2> SUFFICES ASSUME NEW e \in O, NEW f \in p + 1 .. e
               PROVE  f \in O
    BY DEF Gapless
  <2>1. e \in Int /\ f \in r + 1 .. e /\ f # p
    BY <1>2
  <2> QED
    BY <1>1, <2>1
<1>4. ASSUME NEW u \in Nat, UpTo({p} \cup O, r, u)
      PROVE  UpTo(O, p, u)
  <2>1. p <= u /\ (\A e \in O : e <= u) /\ \A f \in r + 1 .. u : f \in {p} \cup O
    BY <1>4 DEF UpTo
  <2>2. \A f \in p + 1 .. u : f \in r + 1 .. u /\ f # p
    BY <1>2
  <2> QED
    BY <2>1, <2>2 DEF UpTo
<1> QED
  BY <1>2, <1>3, <1>4

LEMMA Basics ==
    ASSUME LinkOK, PositionInv, EventInv
    PROVE  /\ wire \in Seq(Bytes) /\ Len(wire) \in Nat /\ head \in Bytes
           /\ MaxSent \in Nat /\ pushed \in 0 .. MaxSent
           /\ latest \in Nat /\ since \in Nat /\ upto \in Nat
           /\ Reached \in Nat /\ Reached >= since
<1>1. wire \in Seq(Bytes) /\ head \in Bytes
  BY DEF PositionInv, WireOK
<1>2. Len(wire) \in Nat
  BY <1>1, LenProperties
<1>3. MaxSent \in Nat /\ pushed \in 0 .. MaxSent
  BY LengthAssumption DEF LinkOK
<1>4. latest \in Nat /\ since \in Nat /\ upto \in Nat
  BY <1>3 DEF EventInv
<1>5. Reached \in Nat /\ Reached >= since
  BY <1>4 DEF Reached
<1> QED
  BY <1>1, <1>2, <1>3, <1>4, <1>5

LEMMA KindsAre ==
    /\ CONNACK \in Kinds /\ SUBACK \in Kinds /\ PINGRESP \in Kinds
    /\ CONNACK \notin Events /\ SUBACK \notin Events /\ PINGRESP \notin Events
    /\ PINGRESP \in Messages /\ Events \subseteq Messages /\ Messages \subseteq Kinds
    /\ Kinds \subseteq Int
    /\ NoByte \in Bytes /\ ~(NoByte[2] = 1)
    /\ \A w : Opened(w) \subseteq Int
    /\ \A h, w : Flight(h, w) \subseteq Int
    /\ \A w : Flight(NoByte, w) = Opened(w)
<1>1. /\ CONNACK \notin Events /\ SUBACK \notin Events /\ PINGRESP \notin Events
      /\ CONNACK \in Int /\ SUBACK \in Int /\ PINGRESP \in Int /\ Events \subseteq Int
  BY LengthAssumption DEF CONNACK, SUBACK, PINGRESP, Events
<1>2. NoByte \in Bytes /\ ~(NoByte[2] = 1)
  BY DEF NoByte, Bytes, Kinds
<1>3. \A w : Opened(w) \subseteq Int
  BY <1>1 DEF Opened
<1>4. \A h, w : Flight(h, w) \subseteq Int
  BY <1>1, <1>3 DEF Flight
<1>5. \A w : Flight(NoByte, w) = Opened(w)
  BY <1>2 DEF Flight
<1> QED
  BY <1>1, <1>2, <1>3, <1>4, <1>5 DEF Kinds, Messages

\* How far the reader is in a packet when it has some bytes of the length, or some of
\* the body.
LEMMA MessageIs ==
    ASSUME NEW p \in Messages
    PROVE  /\ p \in Kinds /\ LengthOf(p) \in Nat /\ Len(RemLenOf(p)) \in Nat
           /\ \A k \in Nat : k < Len(RemLenOf(p)) =>
                  1 + k \in 0 .. Size(p) /\ (1 + k) + 1 <= Size(p)
           /\ \A k \in Nat : k <= LengthOf(p) =>
                  1 + Len(RemLenOf(p)) + k \in 0 .. Size(p)
<1> DEFINE s == Size(p)
           l == Len(RemLenOf(p))
           n == LengthOf(p)
<1>1. p \in Kinds /\ MaxLength \in Nat
  BY KindsAre, WeightsAre
<1>2. n \in 0 .. MaxLength /\ l \in Nat /\ s = 1 + l + n
  BY SizeIs
<1> HIDE DEF s, l, n
<1>3. n \in Nat
  BY <1>1, <1>2
<1>4. \A k \in Nat : k < l => 1 + k \in 0 .. s /\ (1 + k) + 1 <= s
  BY <1>2, <1>3
<1>5. \A k \in Nat : k <= n => 1 + l + k \in 0 .. s
  BY <1>2, <1>3
<1> QED
  BY <1>1, <1>2, <1>3, <1>4, <1>5 DEF s, l, n

\* Without a connection there is nothing to say of the stream.
LEMMA Idle ==
    ASSUME LinkOK, PositionInv, EventInv, LinkOK', pc' \in {"sleep", "connect"},
           wire' = <<>>, head' = NoByte, UNCHANGED eventVars
    PROVE  PositionInv' /\ EventInv'
<1>1. PositionInv'
  BY NothingSent, KindsAre DEF PositionInv
<1>2. EventInv'
  <2>1. /\ Opened(wire') = {} /\ ~Aligned' /\ ~Subscribed'
        /\ Flight(head', wire') = {}
    BY NothingSent, KindsAre DEF Aligned, Subscribed
  <2> QED
    BY <2>1 DEF EventInv, eventVars
<1> QED
  BY <1>1, <1>2

\* What is under way stays.
LEMMA SameFlight ==
    ASSUME EventInv, UNCHANGED <<eventVars, cut, split>>,
           Opened(wire') \subseteq Opened(wire),
           Flight(head', wire') \subseteq Flight(head, wire),
           Aligned' /\ head'[1] \in Events => /\ head'[1] <= pushed
                                              /\ \A e \in Opened(wire') : head'[1] < e,
           Subscribed' => Subscribed,
           pc' \in {"suback", "type", "len", "body"} /\ ~split =>
               /\ pc \in {"suback", "type", "len", "body"}
               /\ Flight(head', wire') = Flight(head, wire)
    PROVE  EventInv'
<1>1. Reached' = Reached
  BY DEF Reached, eventVars
<1>2. /\ latest' \in 0 .. pushed' /\ since' \in 0 .. pushed' /\ upto' \in 0 .. pushed'
      /\ \A e \in Opened(wire') : e <= pushed'
      /\ Subscribed' => upto' = pushed'
      /\ \A e \in Flight(head', wire') : latest' < e
  BY DEF EventInv, eventVars
<1>3. ASSUME pc' \in {"suback", "type", "len", "body"}, ~split'
      PROVE  /\ Gapless(Flight(head', wire'), Reached')
             /\ ~cut' => UpTo(Flight(head', wire'), Reached', upto')
  BY <1>1, <1>3 DEF EventInv, eventVars
<1>4. pushed' = pushed
  BY DEF eventVars
<1> QED
  BY <1>2, <1>3, <1>4 DEF EventInv

----------------------------------------------------------------------------
(* The broker's and the network's steps.                                    *)

LEMMA PublishKeeps ==
    ASSUME LinkOK, PositionInv, EventInv, LinkOK', BrokerPublishes
    PROVE  PositionInv' /\ EventInv'
<1> USE Basics
<1>1. /\ pushed < MaxSent /\ pushed' = pushed + 1 /\ pushed' \in Events /\ pushed \in Nat
      /\ UNCHANGED <<pc, data, head, lens, rem, conn, latest, since, split, cut>>
      /\ Reached' = Reached /\ Aligned' = Aligned /\ Subscribed' = Subscribed
  BY DEF BrokerPublishes, packetVars, Events, Reached, Aligned, Subscribed
<1>2. \A e \in Opened(wire) : e <= pushed
  BY DEF EventInv
<1>3. CASE Subscribed
  <2>1. /\ conn = "open" /\ wire' = wire \o Packet(pushed') /\ upto' = pushed'
        /\ upto = pushed /\ ~cut /\ pc # "connack"
    BY <1>3 DEF BrokerPublishes, Subscribed, EventInv, LinkOK
  <2>2. WireOK(wire, "open") /\ \A e \in Opened(wire) : e < pushed'
    <3>1. \A e \in Opened(wire) : e < pushed'
      BY <1>1, <1>2, KindsAre
    <3> QED
      BY <2>1, <3>1 DEF PositionInv
  <2>3. pushed' \in Kinds /\ pushed' \in Messages
    BY <1>1, KindsAre
  <2>4. /\ WireOK(wire', "open") /\ Len(wire') = Len(wire) + Size(pushed')
        /\ \A q \in Kinds : \A k \in 0 .. Size(q) :
               Goes(wire, "open", q, k) => Goes(wire', "open", q, k)
        /\ Opened(wire') = Opened(wire) \cup {pushed'}
        /\ AtStart(wire) => AtStart(wire')
        /\ \A i \in 1 .. Len(wire') :
               wire'[i][1] \in Messages \/ (i \in 1 .. Len(wire) /\ wire'[i] = wire[i])
    <3>1. {pushed'} \cap Events = {pushed'}
      BY <1>1
    <3> QED
      BY <2>1, <2>2, <2>3, <3>1, WireGrows
  <2>5. PositionInv'
    <3>1. ASSUME pc' = "suback"
          PROVE  /\ data' \in 0 .. 4
                 /\ Goes(wire', conn', SUBACK, data')
                 /\ \A i \in 1 .. Len(wire') : i > 5 - data' => wire'[i][1] \in Messages
      <4>1. /\ data \in 0 .. 4 /\ Goes(wire, "open", SUBACK, data)
            /\ \A i \in 1 .. Len(wire) : i > 5 - data => wire[i][1] \in Messages
        BY <1>1, <2>1, <3>1 DEF PositionInv
      <4>2. SUBACK \in Kinds /\ data \in 0 .. Size(SUBACK)
        BY <4>1, KindsAre, SizeIs
      <4> QED
        BY <1>1, <2>1, <2>4, <4>1, <4>2
    <3>2. FromBroker(wire) => FromBroker(wire')
      BY <2>4 DEF FromBroker
    <3>3. ASSUME pc' = "len", Aligned
          PROVE  LenOK'
      <4>1. /\ head[1] \in Messages /\ lens < Len(RemLenOf(head[1])) /\ lens \in 0 .. 3
            /\ Goes(wire, "open", head[1], 1 + lens)
        BY <1>1, <2>1, <3>3 DEF PositionInv, LenOK
      <4>2. head[1] \in Kinds /\ 1 + lens \in 0 .. Size(head[1])
        BY <4>1, MessageIs
      <4>3. Goes(wire', "open", head[1], 1 + lens)
        BY <2>4, <4>1, <4>2
      <4> QED
        BY <1>1, <2>1, <3>3, <4>3 DEF PositionInv, LenOK
    <3>4. ASSUME pc' = "body", Aligned
          PROVE  BodyOK'
      <4> DEFINE q == 1 + Len(RemLenOf(head[1])) + data
      <4>1. /\ head[1] \in Messages /\ data < rem /\ rem = LengthOf(head[1]) /\ data \in Nat
            /\ Goes(wire, "open", head[1], q)
        BY <1>1, <2>1, <3>4 DEF PositionInv, BodyOK
      <4>2. head[1] \in Kinds /\ q \in 0 .. Size(head[1])
        <5>1. data \in Nat /\ data <= LengthOf(head[1])
          BY <4>1, MessageIs
        <5> QED
          BY <4>1, <5>1, MessageIs
      <4> HIDE DEF q
      <4>3. Goes(wire', "open", head[1], q)
        BY <2>4, <4>1, <4>2
      <4> QED
        BY <1>1, <2>1, <3>4, <4>1, <4>3 DEF BodyOK, q
    <3> QED
      BY <1>1, <2>1, <2>4, <3>1, <3>2, <3>3, <3>4 DEF PositionInv
  <2>6. EventInv'
    <3>1. \A e \in Opened(wire') : e <= pushed'
      BY <1>1, <2>2, <2>4, KindsAre
    <3>2. Aligned' /\ head'[1] \in Events =>
              head'[1] <= pushed' /\ \A e \in Opened(wire') : head'[1] < e
      <4> SUFFICES ASSUME Aligned, head[1] \in Events
                   PROVE  head[1] <= pushed' /\ \A e \in Opened(wire') : head[1] < e
        BY <1>1
      <4>1. head[1] <= pushed /\ \A e \in Opened(wire) : head[1] < e
        BY DEF EventInv
      <4>2. head[1] \in Int /\ head[1] < pushed'
        BY <1>1, <4>1 DEF Events
      <4> QED
        BY <1>1, <2>4, <4>1, <4>2
    <3>3. ASSUME pc' \in {"suback", "type", "len", "body"}, ~split'
          PROVE  /\ Gapless(Flight(head', wire'), Reached')
                 /\ UpTo(Flight(head', wire'), Reached', upto')
      <4>1. Flight(head', wire') = Flight(head, wire) \cup {pushed + 1}
        BY <1>1, <2>4 DEF Flight
      <4>2. Gapless(Flight(head, wire), Reached) /\ UpTo(Flight(head, wire), Reached, pushed)
        BY <1>1, <2>1, <3>3 DEF EventInv
      <4>3. Flight(head, wire) \subseteq Int /\ Reached \in Nat /\ pushed \in Nat
        BY KindsAre
      <4>4. /\ Gapless(Flight(head, wire) \cup {pushed + 1}, Reached)
            /\ UpTo(Flight(head, wire) \cup {pushed + 1}, Reached, pushed + 1)
        BY <4>2, <4>3, FlightGrows
      <4> QED
        BY <1>1, <2>1, <4>1, <4>4
    <3>4. latest' \in 0 .. pushed' /\ since' \in 0 .. pushed' /\ upto' \in 0 .. pushed'
      BY <1>1, <2>1 DEF EventInv
    <3>5. \A e \in Flight(head', wire') : latest' < e
      <4>1. Flight(head', wire') = Flight(head, wire) \cup {pushed'}
        BY <1>1, <2>4 DEF Flight
      <4>2. latest < pushed'
        BY <1>1 DEF EventInv
      <4> QED
        BY <1>1, <4>1, <4>2 DEF EventInv
    <3> QED
      BY <2>1, <3>1, <3>2, <3>3, <3>4, <3>5 DEF EventInv
  <2> QED
    BY <2>5, <2>6
<1>4. CASE ~Subscribed
  <2>1. UNCHANGED <<wire, upto>>
    BY <1>4 DEF BrokerPublishes
  <2>2. PositionInv'
    BY <1>1, <2>1 DEF PositionInv, LenOK, BodyOK
  <2>3. latest' \in 0 .. pushed' /\ since' \in 0 .. pushed' /\ upto' \in 0 .. pushed'
    BY <1>1, <2>1 DEF EventInv
  <2>4. \A e \in Opened(wire') : e <= pushed'
    BY <1>1, <1>2, <2>1, KindsAre
  <2>5. Aligned' /\ head'[1] \in Events =>
            head'[1] <= pushed' /\ \A e \in Opened(wire') : head'[1] < e
    <3>1. \A e \in Events : e <= pushed => e <= pushed'
      BY <1>1 DEF Events
    <3> QED
      BY <1>1, <2>1, <3>1 DEF EventInv
  <2>6. pc' \in {"suback", "type", "len", "body"} /\ ~split' =>
            /\ Gapless(Flight(head', wire'), Reached')
            /\ ~cut' => UpTo(Flight(head', wire'), Reached', upto')
    BY <1>1, <2>1 DEF EventInv
  <2>7. \A e \in Flight(head', wire') : latest' < e
    BY <1>1, <2>1 DEF EventInv
  <2> QED
    BY <1>1, <1>4, <2>2, <2>3, <2>4, <2>5, <2>6, <2>7 DEF EventInv
<1> QED
  BY <1>3, <1>4

LEMMA BreakKeeps ==
    ASSUME LinkOK, PositionInv, EventInv, LinkOK', ConnectionBreaks
    PROVE  PositionInv' /\ EventInv'
<1> USE Basics
<1>1. PICK n \in 0 .. Len(wire) : wire' = SubSeq(wire, 1, n)
  BY DEF ConnectionBreaks
<1>2. /\ conn = "open" /\ conn' # "open" /\ cut'
      /\ UNCHANGED <<pc, data, head, lens, rem, pushed, latest, since, upto, split>>
      /\ Reached' = Reached /\ Aligned' = Aligned /\ ~Subscribed'
  BY DEF ConnectionBreaks, packetVars, eventVars, Reached, Aligned, Subscribed
<1>3. WireOK(wire, "open")
  BY <1>2 DEF PositionInv
<1>4. /\ WireOK(wire', conn') /\ Len(wire') = n
      /\ \A i \in 1 .. n : i \in 1 .. Len(wire) /\ wire'[i] = wire[i]
      /\ \A p, k : Goes(wire, "open", p, k) => Goes(wire', conn', p, k)
      /\ Opened(wire') \subseteq Opened(wire)
      /\ \A e \in Opened(wire), f \in Opened(wire') : e <= f => e \in Opened(wire')
      /\ FromBroker(wire) => FromBroker(wire')
      /\ AtStart(wire) => AtStart(wire')
  BY <1>1, <1>2, <1>3, WireCut
<1>5. PositionInv'
  <2>1. pc = "connack" => Len(wire') + data <= 4
    <3>1. pc = "connack" => data \in 0 .. 3 /\ Len(wire) + data <= 4
      BY DEF PositionInv
    <3> QED
      BY <1>4, <3>1
  <2>2. LenOK => LenOK'
    BY <1>2, <1>4 DEF LenOK
  <2>3. BodyOK => BodyOK'
    BY <1>2, <1>4 DEF BodyOK
  <2> QED
    BY <1>2, <1>4, <2>1, <2>2, <2>3 DEF PositionInv
<1>6. EventInv'
  <2>1. ASSUME pc' \in {"suback", "type", "len", "body"}, ~split'
        PROVE  Gapless(Flight(head', wire'), Reached')
    <3> DEFINE F == Flight(head, wire)
               G == Flight(head, wire')
    <3>1. Gapless(F, Reached)
      BY <1>2, <2>1 DEF EventInv
    <3>2. G \subseteq F
      BY <1>4 DEF Flight
    <3>3. \A e \in F, f \in G : e <= f => e \in G
      <4> SUFFICES ASSUME NEW e \in F, NEW f \in G, e <= f, e \notin G PROVE FALSE
        OBVIOUS
      <4>1. e \in Opened(wire)
        BY DEF Flight
      <4>2. f \in Opened(wire') \/ (Aligned /\ head[1] \in Events /\ f = head[1])
        BY DEF Flight, Aligned
      <4>3. f \notin Opened(wire')
        BY <1>4, <4>1 DEF Flight
      <4>4. f < e
        BY <4>1, <4>2, <4>3 DEF EventInv
      <4>5. e \in Int /\ f \in Int
        BY KindsAre
      <4> QED
        BY <4>4, <4>5
    <3>4. F \subseteq Int
      BY KindsAre
    <3> HIDE DEF F, G
    <3>5. Gapless(G, Reached)
      BY <3>1, <3>2, <3>3, <3>4, FlightCut
    <3> QED
      BY <1>2, <3>5 DEF G
  <2>2. \A e \in Flight(head', wire') : latest' < e
    <3>1. Flight(head', wire') \subseteq Flight(head, wire)
      BY <1>2, <1>4 DEF Flight
    <3> QED
      BY <1>2, <3>1 DEF EventInv
  <2> QED
    BY <1>2, <1>4, <2>1, <2>2 DEF EventInv
<1> QED
  BY <1>5, <1>6

----------------------------------------------------------------------------
(* The reader's steps.                                                      *)

LEMMA ConnectKeeps ==
    ASSUME LinkOK, PositionInv, EventInv, LinkOK', Connect
    PROVE  PositionInv' /\ EventInv'
<1>1. /\ pc = "connect" /\ pc' = "connack" /\ conn' = "open" /\ wire' = Packet(CONNACK)
      /\ data' = 0 /\ head' = NoByte /\ UNCHANGED eventVars
  BY DEF Connect, packetVars, LinkOK
<1>2. /\ WireOK(wire', "open") /\ Goes(wire', "open", CONNACK, 0)
      /\ Opened(wire') = {} /\ Len(wire') = 4
  <2>1. /\ WireOK(Packet(CONNACK), "open") /\ Goes(Packet(CONNACK), "open", CONNACK, 0)
        /\ Opened(Packet(CONNACK)) = {CONNACK} \cap Events
    BY KindsAre, Alone
  <2>2. Len(Packet(CONNACK)) = 4
    BY KindsAre, PacketIs, SizeIs
  <2> QED
    BY <1>1, <2>1, <2>2, KindsAre
<1>3. PositionInv'
  BY <1>1, <1>2, KindsAre DEF PositionInv
<1>4. ~Aligned' /\ ~Subscribed' /\ Flight(head', wire') = {}
  BY <1>1, <1>2, KindsAre DEF Aligned, Subscribed
<1>5. EventInv'
  BY <1>1, <1>2, <1>4 DEF EventInv, eventVars
<1> QED
  BY <1>3, <1>5

\* What recv returns is taken off the wire.
LEMMA UnreadKeeps ==
    ASSUME PositionInv, NEW k \in Nat, k <= Len(wire)
    PROVE  /\ WireOK(Unread(k), conn)
           /\ Opened(Unread(k)) \subseteq Opened(wire)
           /\ FromBroker(wire) => FromBroker(Unread(k))
           /\ Len(Unread(k)) \in Nat /\ Len(Unread(k)) = Len(wire) - k
           /\ \A j \in 1 .. Len(Unread(k)) : j + k \in 1 .. Len(wire) /\ Unread(k)[j] = wire[j + k]
           /\ \A p \in Kinds : \A q \in Nat :
                  q + k <= Size(p) /\ Goes(wire, conn, p, q) =>
                      /\ Goes(Unread(k), conn, p, q + k)
                      /\ q >= 1 \/ p \notin Events => Opened(Unread(k)) = Opened(wire)
<1>1. WireOK(wire, conn) /\ wire \in Seq(Bytes) /\ Len(wire) \in Nat
  BY LenProperties DEF PositionInv, WireOK
<1>2. k \in 0 .. Len(wire)
  BY <1>1
<1>3. /\ Unread(k) \in Seq(Bytes) /\ Len(Unread(k)) = Len(wire) - k
      /\ \A j \in 1 .. Len(Unread(k)) : Unread(k)[j] = wire[j + k]
  BY <1>1, <1>2, UnreadIs
<1>4. \A j \in 1 .. Len(Unread(k)) : j + k \in 1 .. Len(wire)
  BY <1>1, <1>2, <1>3
<1>5. Len(Unread(k)) \in Nat
  BY <1>1, <1>2, <1>3
<1> QED
  BY <1>1, <1>2, <1>3, <1>4, <1>5, WireRead

LEMMA PartKeeps ==
    ASSUME LinkOK, PositionInv, EventInv, LinkOK', RecvPart
    PROVE  PositionInv' /\ EventInv'
<1> USE Basics
<1>1. PICK k \in 1 .. Wanted : /\ Recv(k) /\ ~BufFull(data + k)
                               /\ data' = data + k /\ wire' = Unread(k)
  BY DEF RecvPart
<1>2. /\ k \in Int /\ k >= 1 /\ k <= Len(wire) /\ data + k <= Wanted /\ data + k # Wanted
  BY <1>1 DEF Recv, BufFull
<1>3. /\ UNCHANGED <<pc, head, lens, rem, conn, cut, split>> /\ UNCHANGED eventVars
      /\ Aligned' = Aligned /\ Subscribed' = Subscribed
  BY DEF RecvPart, Aligned, Subscribed
<1>4. pc \in {"connack", "suback", "body"}
  <2> SUFFICES ASSUME pc \in {"connect", "sleep", "type", "len"} PROVE FALSE
    BY DEF LinkOK
  <2>1. Wanted = 1 /\ data = 0
    BY WantedIs DEF LinkOK
  <2> QED
    BY <1>2, <2>1
<1>5. k \in Nat
  BY <1>2
<1>6. /\ WireOK(wire', conn')
      /\ Opened(wire') \subseteq Opened(wire)
      /\ FromBroker(wire) => FromBroker(wire')
      /\ Len(wire') = Len(wire) - k
      /\ \A j \in 1 .. Len(wire') : j + k \in 1 .. Len(wire) /\ wire'[j] = wire[j + k]
      /\ \A p \in Kinds : \A q \in Nat :
             q + k <= Size(p) /\ Goes(wire, conn, p, q) =>
                 /\ Goes(wire', conn', p, q + k)
                 /\ q >= 1 \/ p \notin Events => Opened(wire') = Opened(wire)
  BY <1>1, <1>2, <1>3, <1>5, UnreadKeeps
<1>7. ASSUME pc = "connack"
      PROVE  data' \in 0 .. 3 /\ Len(wire') + data' <= 4 /\ Goes(wire', conn', CONNACK, data')
  <2>1. data \in 0 .. 3 /\ Len(wire) + data <= 4 /\ Goes(wire, conn, CONNACK, data) /\ Wanted = 4
    BY <1>7, WantedIs DEF PositionInv
  <2>2. data' \in 0 .. 3 /\ Len(wire') + data' <= 4
    BY <1>1, <1>2, <1>6, <2>1
  <2>3. data \in Nat /\ data + k <= Size(CONNACK)
    BY <1>2, <2>1, SizeIs
  <2> QED
    BY <1>1, <1>6, <2>1, <2>2, <2>3, KindsAre
<1>8. ASSUME pc = "suback"
      PROVE  /\ data' \in 0 .. 4 /\ Goes(wire', conn', SUBACK, data')
             /\ \A i \in 1 .. Len(wire') : i > 5 - data' => wire'[i][1] \in Messages
             /\ Opened(wire') = Opened(wire)
  <2>1. /\ data \in 0 .. 4 /\ Goes(wire, conn, SUBACK, data) /\ Wanted = 5
        /\ \A i \in 1 .. Len(wire) : i > 5 - data => wire[i][1] \in Messages
    BY <1>8, WantedIs DEF PositionInv
  <2>2. data' \in 0 .. 4
    BY <1>1, <1>2, <2>1
  <2>3. data \in Nat /\ data + k <= Size(SUBACK)
    BY <1>2, <2>1, SizeIs
  <2>4. Goes(wire', conn', SUBACK, data') /\ Opened(wire') = Opened(wire)
    BY <1>1, <1>6, <2>1, <2>3, KindsAre
  <2>5. ASSUME NEW i \in 1 .. Len(wire'), i > 5 - data'
        PROVE  wire'[i][1] \in Messages
    <3>1. i \in Int /\ data \in Int /\ i > 5 - (data + k)
      BY <1>1, <2>1, <2>5
    <3>2. i + k > 5 - data
      BY <1>2, <3>1
    <3> QED
      BY <1>6, <2>1, <3>2
  <2> QED
    BY <2>2, <2>4, <2>5
<1>9. ASSUME pc = "body"
      PROVE  /\ data' \in Nat /\ rem' \in Nat /\ data' < rem'
             /\ Aligned => BodyOK' /\ Opened(wire') = Opened(wire)
  <2>1. data \in Nat /\ rem \in Nat /\ (Aligned => BodyOK) /\ Wanted = rem
    BY <1>9, WantedIs DEF PositionInv
  <2>2. data' \in Nat /\ rem' \in Nat /\ data' < rem'
    BY <1>1, <1>2, <1>3, <2>1
  <2>3. ASSUME Aligned
        PROVE  BodyOK' /\ Opened(wire') = Opened(wire)
    <3> DEFINE p == head[1]
               q == 1 + Len(RemLenOf(p)) + data
    <3>1. p \in Messages /\ rem = LengthOf(p) /\ Goes(wire, conn, p, q)
      BY <2>1, <2>3 DEF BodyOK
    <3>2. q \in Nat /\ q >= 1 /\ q + k = 1 + Len(RemLenOf(p)) + data'
      <4>1. Len(RemLenOf(p)) \in Nat
        BY <3>1, MessageIs
      <4> QED
        BY <1>1, <1>2, <2>1, <4>1
    <3>3. q + k <= Size(p) /\ p \in Kinds
      <4>1. data' <= LengthOf(p)
        BY <1>3, <2>2, <3>1
      <4>2. 1 + Len(RemLenOf(p)) + data' \in 0 .. Size(p) /\ p \in Kinds
        BY <2>2, <3>1, <4>1, MessageIs
      <4> QED
        BY <3>2, <4>2
    <3> HIDE DEF q
    <3>4. Goes(wire', conn', p, q + k) /\ Opened(wire') = Opened(wire)
      BY <1>6, <3>1, <3>2, <3>3
    <3> QED
      BY <1>3, <3>1, <3>2, <3>4 DEF BodyOK
  <2> QED
    BY <2>2, <2>3
<1>10. PositionInv'
  BY <1>3, <1>4, <1>6, <1>7, <1>8, <1>9 DEF PositionInv
<1>11. EventInv'
  <2>1. Aligned' /\ head'[1] \in Events =>
            head'[1] <= pushed /\ \A e \in Opened(wire') : head'[1] < e
    BY <1>3, <1>6 DEF EventInv
  <2>2. ASSUME pc' \in {"suback", "type", "len", "body"}, ~split
        PROVE  Flight(head', wire') = Flight(head, wire)
    <3>1. Opened(wire') = Opened(wire)
      BY <1>3, <1>4, <1>8, <1>9, <2>2 DEF PositionInv
    <3> QED
      BY <1>3, <3>1 DEF Flight
  <2>3. Flight(head', wire') \subseteq Flight(head, wire)
    BY <1>3, <1>6 DEF Flight
  <2> QED
    BY <1>3, <1>6, <2>1, <2>2, <2>3, SameFlight
<1> QED
  BY <1>10, <1>11

LEMMA ConnackKeeps ==
    ASSUME LinkOK, PositionInv, EventInv, LinkOK', RecvConnack
    PROVE  PositionInv' /\ EventInv'
<1> USE Basics
<1>1. PICK k \in 1 .. Wanted :
          /\ Recv(k) /\ BufFull(data + k)
          /\ IF conn = "reset"
             THEN GiveUp /\ UNCHANGED <<since, upto>>
             ELSE /\ pc' = "suback"
                  /\ wire' = IF conn = "open" THEN Unread(k) \o Packet(SUBACK) ELSE Unread(k)
                  /\ data' = 0
                  /\ since' = pushed /\ upto' = pushed
                  /\ UNCHANGED <<head, lens, rem, conn>>
  BY DEF RecvConnack, FirstSent
<1>2. pc = "connack" /\ UNCHANGED <<pushed, latest, split, cut>>
  BY DEF RecvConnack
<1>3. CASE conn = "reset"
  <2>1. pc' = "sleep" /\ wire' = <<>> /\ head' = NoByte /\ UNCHANGED eventVars
    BY <1>1, <1>2, <1>3 DEF GiveUp, eventVars
  <2> QED
    BY <2>1, Idle
<1>4. CASE conn # "reset"
  <2>1. /\ pc' = "suback" /\ data' = 0 /\ since' = pushed /\ upto' = pushed
        /\ wire' = IF conn = "open" THEN Unread(k) \o Packet(SUBACK) ELSE Unread(k)
        /\ conn' = conn /\ head' = NoByte
    BY <1>1, <1>2, <1>4 DEF LinkOK
  <2>2. k \in Nat /\ k <= Len(wire) /\ data + k = 4
    BY <1>1, <1>2, WantedIs DEF Recv, BufFull
  <2>3. Unread(k) = <<>>
    <3>1. Len(wire) + data <= 4 /\ data \in 0 .. 3
      BY <1>2 DEF PositionInv
    <3>2. Len(Unread(k)) = 0 /\ Unread(k) \in Seq(Bytes)
      <4>1. Len(Unread(k)) = Len(wire) - k
        BY <2>2, UnreadKeeps
      <4>2. Len(wire) - k = 0
        BY <2>2, <3>1
      <4>3. Unread(k) \in Seq(Bytes)
        BY <2>2, UnreadIs
      <4> QED
        BY <4>1, <4>2, <4>3
    <3> QED
      BY <3>2, EmptySeq
  <2>4. /\ WireOK(wire', conn') /\ Goes(wire', conn', SUBACK, 0) /\ Opened(wire') = {}
        /\ \A i \in 1 .. Len(wire') : ~(i > 5)
    <3>1. CASE conn = "open"
      <4>1. wire' = Packet(SUBACK)
        <5>1. wire' = <<>> \o Packet(SUBACK)
          BY <2>1, <2>3, <3>1
        <5>2. Packet(SUBACK) \in Seq(Bytes)
          BY KindsAre, PacketIs
        <5> QED
          BY <5>1, <5>2, ConcatEmptySeq
      <4>2. /\ WireOK(wire', "open") /\ Goes(wire', "open", SUBACK, 0)
            /\ Opened(wire') = {SUBACK} \cap Events
        BY <4>1, KindsAre, Alone
      <4>3. Len(wire') = 5
        BY <4>1, KindsAre, PacketIs, SizeIs
      <4> QED
        BY <2>1, <3>1, <4>2, <4>3, KindsAre
    <3>2. CASE conn # "open"
      <4>1. wire' = <<>>
        BY <2>1, <2>3, <3>2
      <4> QED
        BY <2>1, <3>2, <4>1, NothingSent
    <3> QED
      BY <3>1, <3>2
  <2>5. PositionInv'
    <3>1. \A i \in 1 .. Len(wire') : i > 5 - data' => wire'[i][1] \in Messages
      BY <2>1, <2>4
    <3> QED
      BY <2>1, <2>4, <3>1, KindsAre DEF PositionInv
  <2>6. EventInv'
    <3>1. Flight(head', wire') = {} /\ ~Aligned'
      BY <2>1, <2>4, KindsAre DEF Aligned
    <3>2. Reached' = pushed
      BY <1>2, <2>1 DEF Reached, EventInv
    <3>3. Gapless({}, pushed) /\ UpTo({}, pushed, pushed)
      BY DEF Gapless, UpTo
    <3>4. latest' \in 0 .. pushed' /\ since' \in 0 .. pushed' /\ upto' \in 0 .. pushed'
      BY <1>2, <2>1 DEF EventInv
    <3> QED
      BY <1>2, <2>1, <2>4, <3>1, <3>2, <3>3, <3>4 DEF EventInv
  <2> QED
    BY <2>5, <2>6
<1> QED
  BY <1>3, <1>4

LEMMA SubackKeeps ==
    ASSUME LinkOK, PositionInv, EventInv, LinkOK', RecvSuback
    PROVE  PositionInv' /\ EventInv'
<1> USE Basics
<1>1. PICK k \in 1 .. Wanted : Recv(k) /\ BufFull(data + k) /\ wire' = Unread(k)
  BY DEF RecvSuback
<1>2. /\ pc = "suback" /\ pc' = "type" /\ head' = head /\ head = NoByte
      /\ UNCHANGED <<conn, cut, split>> /\ UNCHANGED eventVars
  BY DEF RecvSuback, LinkOK
<1>3. /\ data \in 0 .. 4 /\ Goes(wire, conn, SUBACK, data)
      /\ \A i \in 1 .. Len(wire) : i > 5 - data => wire[i][1] \in Messages
  BY <1>2 DEF PositionInv
<1>4. k \in Nat /\ k <= Len(wire) /\ data + k = 5 /\ data \in Nat /\ data + k <= Size(SUBACK)
  BY <1>1, <1>2, <1>3, WantedIs, SizeIs DEF Recv, BufFull
<1>5. /\ WireOK(wire', conn')
      /\ Goes(wire', conn', SUBACK, 5)
      /\ Opened(wire') = Opened(wire)
      /\ Len(wire') \in Nat
      /\ \A j \in 1 .. Len(wire') : j + k \in 1 .. Len(wire) /\ wire'[j] = wire[j + k]
  <2>1. SUBACK \in Kinds /\ SUBACK \notin Events
    BY KindsAre
  <2>2. /\ WireOK(wire', conn')
        /\ Goes(wire', conn', SUBACK, data + k) /\ Opened(wire') = Opened(wire)
        /\ Len(wire') \in Nat
        /\ \A j \in 1 .. Len(wire') : j + k \in 1 .. Len(wire) /\ wire'[j] = wire[j + k]
    BY <1>1, <1>2, <1>3, <1>4, <2>1, UnreadKeeps
  <2> QED
    BY <1>4, <2>2
<1>6. FromBroker(wire')
  <2>1. \A i \in 1 .. Len(wire') : i + k > 5 - data
    BY <1>4
  <2> QED
    BY <1>3, <1>5, <2>1 DEF FromBroker
<1>7. AtStart(wire')
  <2> SUFFICES ASSUME Len(wire') # 0 PROVE wire'[1][2] = 1
    BY DEF AtStart
  <2>1. 1 \in 1 .. Len(wire') /\ 0 < 1 /\ 5 + (1 - 0) = Size(SUBACK) + 1
    BY <1>5, SizeIs
  <2> QED
    BY <1>5, <2>1 DEF Goes, Continues
<1>8. PositionInv'
  BY <1>2, <1>5, <1>6, <1>7, KindsAre DEF PositionInv
<1>9. EventInv'
  <2>1. ~Aligned' /\ Flight(head', wire') = Flight(head, wire)
    BY <1>2, <1>5, KindsAre DEF Aligned
  <2>2. Subscribed' => Subscribed
    BY <1>2 DEF Subscribed
  <2> QED
    BY <1>2, <1>5, <2>1, <2>2, SameFlight
<1> QED
  BY <1>8, <1>9

LEMMA TypeKeeps ==
    ASSUME LinkOK, PositionInv, EventInv, LinkOK', RecvType
    PROVE  PositionInv' /\ EventInv'
<1> USE Basics
<1>1. /\ pc = "type" /\ pc' = "len" /\ 1 <= Len(wire)
      /\ head' = Head(wire) /\ wire' = Tail(wire) /\ head = NoByte /\ lens' = 0 /\ rem' = 0
      /\ UNCHANGED <<conn, cut, split>> /\ UNCHANGED eventVars
  BY DEF RecvType, Recv, LinkOK
<1>2. /\ wire' \in Seq(Bytes) /\ Len(wire') = Len(wire) - 1
      /\ \A j \in 1 .. Len(wire') : wire'[j] = wire[j + 1]
      /\ head' = wire[1] /\ wire[1] \in Bytes /\ Len(wire) \in Nat \ {0}
  BY <1>1, TailIs
<1>3. WireOK(wire, conn) /\ FromBroker(wire) /\ (~split => AtStart(wire))
  BY <1>1 DEF PositionInv
<1>4. WireOK(wire', conn') /\ FromBroker(wire')
  <2>1. 1 \in 0 .. Len(wire)
    BY <1>2
  <2> QED
    BY <1>1, <1>2, <1>3, <2>1, WireRead
<1>5. /\ Continues(wire', head'[1], head'[2], 0)
      /\ WholePackets(wire) => Complete(wire', head'[1], head'[2], 0)
      /\ Opened(wire) = Opened(wire') \cup (IF Opens(wire, 1) THEN {head'[1]} ELSE {})
      /\ Rising(wire) /\ Opens(wire, 1) => \A e \in Opened(wire') : head'[1] < e
  <2>1. wire[1] = <<wire[1][1], wire[1][2]>>
    BY <1>2 DEF Bytes
  <2>2. Stream(wire)
    BY <1>3 DEF WireOK
  <2> QED
    BY <1>2, <2>1, <2>2, FirstDropped
<1>6. ASSUME Aligned'
      PROVE  LenOK'
  <2>1. head'[1] \in Messages
    BY <1>2, <1>3 DEF FromBroker
  <2>2. LengthOf(head'[1]) \in 0 .. MaxLength /\ Len(RemLenOf(head'[1])) \in Nat \ {0}
    BY <2>1, SizeIs
  <2>3. Reading(LengthOf(head'[1]), 0, 0)
    BY <2>2, ReadingStarts
  <2>4. Goes(wire', conn', head'[1], 1)
    BY <1>1, <1>3, <1>5, <1>6 DEF Goes, WireOK, Aligned
  <2>5. 0 < Len(RemLenOf(head'[1])) /\ 1 + 0 = 1
    BY <2>2
  <2> QED
    BY <1>1, <2>1, <2>3, <2>4, <2>5 DEF LenOK
<1>7. ~split' => Aligned'
  BY <1>1, <1>2, <1>3 DEF AtStart, Aligned
<1>8. PositionInv'
  BY <1>1, <1>2, <1>4, <1>6, <1>7 DEF PositionInv
<1>9. EventInv'
  <2>1. Aligned' /\ head'[1] \in Events <=> Opens(wire, 1)
    BY <1>2 DEF Aligned, Opens
  <2>2. ASSUME Aligned', head'[1] \in Events
        PROVE  head'[1] <= pushed /\ \A e \in Opened(wire') : head'[1] < e
    <3>1. head'[1] \in Opened(wire)
      BY <1>5, <2>1, <2>2
    <3> QED
      BY <1>3, <1>5, <2>1, <2>2, <3>1 DEF EventInv, WireOK
  <2>3. Flight(head', wire') = Flight(head, wire)
    <3>1. Flight(head, wire) = Opened(wire)
      BY <1>1, KindsAre
    <3>2. Flight(head', wire') = (IF Opens(wire, 1) THEN {head'[1]} ELSE {}) \cup Opened(wire')
      BY <1>2 DEF Flight, Opens
    <3> QED
      BY <1>5, <3>1, <3>2
  <2>4. Opened(wire') \subseteq Opened(wire) /\ (Subscribed' => Subscribed)
    BY <1>1, <1>5 DEF Subscribed
  <2> QED
    BY <1>1, <2>2, <2>3, <2>4, SameFlight
<1> QED
  BY <1>8, <1>9

\* The last byte of the packet in hand is read.
LEMMA NextKeeps ==
    ASSUME LinkOK, PositionInv, EventInv, LinkOK', pc \in {"len", "body"}, NextPacket,
           UNCHANGED <<pushed, since, upto, split, cut>>,
           latest' = IF Aligned /\ head[1] \in Events THEN head[1] ELSE latest,
           WireOK(wire', conn), FromBroker(wire'), Opened(wire') \subseteq Opened(wire),
           Aligned => /\ Opened(wire') = Opened(wire)
                      /\ head[1] \in Messages
                      /\ Goes(wire', conn, head[1], Size(head[1]))
    PROVE  PositionInv' /\ EventInv'
<1> USE Basics
<1>1. pc' = "type" /\ conn' = conn /\ head' = NoByte /\ ~Aligned'
  BY KindsAre DEF NextPacket, Aligned
<1>2. ~split => Aligned
  BY DEF PositionInv
<1>3. Aligned => AtStart(wire')
  <2> SUFFICES ASSUME Aligned, Len(wire') # 0 PROVE wire'[1][2] = 1
    BY DEF AtStart
  <2>1. Size(head[1]) \in Nat
    BY KindsAre, SizeIs
  <2>2. Len(wire') \in Nat
    BY LenProperties DEF WireOK
  <2>3. /\ 1 \in 1 .. Len(wire') /\ 0 < 1 /\ Size(head[1]) + (1 - 0) = Size(head[1]) + 1
    BY <2>1, <2>2
  <2> QED
    BY <2>3 DEF Goes, Continues
<1>4. PositionInv'
  BY <1>1, <1>2, <1>3, KindsAre DEF PositionInv
<1>5. CASE ~(Aligned /\ head[1] \in Events)
  <2>1. UNCHANGED eventVars /\ (Subscribed' => Subscribed)
    BY <1>1, <1>5 DEF eventVars, Subscribed
  <2>2. ~split => Flight(head', wire') = Flight(head, wire)
    <3>1. Flight(head', wire') = Opened(wire')
      BY <1>1, KindsAre
    <3>2. Flight(head, wire) = Opened(wire)
      BY <1>5 DEF Flight, Aligned
    <3> QED
      BY <1>2, <3>1, <3>2
  <2>3. EventInv'
    <3>1. Flight(head', wire') \subseteq Flight(head, wire)
      BY <1>1, KindsAre DEF Flight
    <3> QED
      BY <1>1, <2>1, <2>2, <3>1, SameFlight
  <2> QED
    BY <1>4, <2>3
<1>6. CASE Aligned /\ head[1] \in Events
  <2> DEFINE p == head[1]
             O == Opened(wire)
  <2>1. p \in Int /\ latest' = p /\ p \in 0 .. pushed /\ \A e \in O : p < e
    BY <1>6 DEF EventInv, Events
  <2>2. Opened(wire') = O /\ O \subseteq Int /\ Flight(head', wire') = O
    BY <1>1, <1>6, KindsAre
  <2>3. ASSUME ~split
        PROVE  /\ Gapless(O, p) /\ p >= since
               /\ ~cut => UpTo(O, p, upto)
    <3>1. Flight(head, wire) = {p} \cup O
      BY <1>6 DEF Flight, Aligned
    <3>2. /\ Gapless({p} \cup O, Reached)
          /\ ~cut => UpTo({p} \cup O, Reached, upto)
      BY <2>3, <3>1 DEF EventInv
    <3> HIDE DEF p, O
    <3>3. /\ p = Reached + 1 /\ Gapless(O, p)
          /\ \A u \in Nat : UpTo({p} \cup O, Reached, u) => UpTo(O, p, u)
      BY <2>1, <2>2, <3>2, FlightLands
    <3>4. p >= since
      BY <3>3
    <3> QED
      BY <3>2, <3>3, <3>4
  <2> HIDE DEF p, O
  <2>4. ~split => Reached' = p
    <3>1. ASSUME p >= since PROVE (IF p > since THEN p ELSE since) = p
      BY <2>1, <3>1
    <3> QED
      BY <2>1, <2>3, <3>1 DEF Reached
  <2>5. /\ latest' \in 0 .. pushed' /\ since' \in 0 .. pushed' /\ upto' \in 0 .. pushed'
        /\ \A e \in Opened(wire') : e <= pushed'
        /\ Subscribed' => upto' = pushed'
        /\ \A e \in Flight(head', wire') : latest' < e
    BY <1>1, <2>1, <2>2 DEF EventInv, Subscribed
  <2>6. ASSUME ~split'
        PROVE  /\ Gapless(Flight(head', wire'), Reached')
               /\ ~cut' => UpTo(Flight(head', wire'), Reached', upto')
    BY <2>2, <2>3, <2>4, <2>6
  <2>7. EventInv'
    BY <1>1, <2>5, <2>6 DEF EventInv
  <2> QED
    BY <1>4, <2>7
<1> QED
  BY <1>5, <1>6

LEMMA GiveUpKeeps ==
    ASSUME LinkOK, PositionInv, EventInv, LinkOK', GiveUp, UNCHANGED eventVars
    PROVE  PositionInv' /\ EventInv'
BY Idle DEF GiveUp

LEMMA BodyKeeps ==
    ASSUME LinkOK, PositionInv, EventInv, LinkOK', RecvBody
    PROVE  PositionInv' /\ EventInv'
<1> USE Basics
<1>1. PICK k \in 1 .. Wanted :
          Recv(k) /\ BufFull(data + k) /\ PacketRead(data + k, rem, Unread(k))
  BY DEF RecvBody
<1>2. pc = "body" /\ UNCHANGED <<pushed, since, upto, split, cut>>
  BY DEF RecvBody
<1>3. /\ data \in Nat /\ rem \in Nat /\ FromBroker(wire) /\ (Aligned => BodyOK)
      /\ Wanted = rem /\ k \in Nat /\ k >= 1 /\ k <= Len(wire) /\ data + k = rem
  BY <1>1, <1>2, WantedIs DEF PositionInv, Recv, BufFull
<1>4. CASE GiveUp /\ UNCHANGED latest
  BY <1>2, <1>4, GiveUpKeeps DEF eventVars
<1>5. CASE /\ NextPacket /\ wire' = Unread(k)
           /\ latest' = IF Aligned /\ head[1] \in Events /\ data + k = rem THEN head[1] ELSE latest
  <2>1. /\ WireOK(wire', conn) /\ FromBroker(wire') /\ Opened(wire') \subseteq Opened(wire)
        /\ \A p \in Kinds : \A q \in Nat :
               q + k <= Size(p) /\ Goes(wire, conn, p, q) =>
                   /\ Goes(wire', conn, p, q + k)
                   /\ q >= 1 \/ p \notin Events => Opened(wire') = Opened(wire)
    BY <1>3, <1>5, UnreadKeeps
  <2>2. ASSUME Aligned
        PROVE  /\ Opened(wire') = Opened(wire)
               /\ head[1] \in Messages
               /\ Goes(wire', conn, head[1], Size(head[1]))
    <3> DEFINE p == head[1]
               q == 1 + Len(RemLenOf(p)) + data
    <3>1. p \in Messages /\ rem = LengthOf(p) /\ Goes(wire, conn, p, q)
      BY <1>3, <2>2 DEF BodyOK
    <3>2. /\ Len(RemLenOf(p)) \in Nat /\ Size(p) \in Nat /\ p \in Kinds
          /\ Size(p) = 1 + Len(RemLenOf(p)) + rem
      BY <3>1, SizeIs, KindsAre
    <3>3. q \in Nat /\ q >= 1 /\ q + k = Size(p)
      BY <1>3, <3>2
    <3> HIDE DEF q
    <3>4. q + k <= Size(p)
      BY <3>2, <3>3
    <3>5. Goes(wire', conn, p, q + k) /\ Opened(wire') = Opened(wire)
      BY <2>1, <3>1, <3>2, <3>3, <3>4
    <3> QED
      BY <3>1, <3>3, <3>5
  <2>3. latest' = IF Aligned /\ head[1] \in Events THEN head[1] ELSE latest
    BY <1>3, <1>5
  <2> QED
    BY <1>2, <1>5, <2>1, <2>2, <2>3, NextKeeps
<1> QED
  BY <1>1, <1>4, <1>5 DEF PacketRead

\* A byte of the remaining length, read by a reader that is in step
LEMMA LengthByte ==
    ASSUME LinkOK, PositionInv, pc = "len", Aligned,
           NEW v, v = RemLenOf(head[1])[lens + 1],
           NEW value, value = rem + (v % Base) * Weight[lens + 1]
    PROVE  /\ head[1] \in Messages /\ value \in Nat
           /\ v >= Base => /\ lens + 1 < 4 /\ lens + 1 < Len(RemLenOf(head[1]))
                           /\ Reading(LengthOf(head[1]), lens + 1, value)
           /\ ~(v >= Base) => /\ lens + 1 = Len(RemLenOf(head[1]))
                              /\ value = LengthOf(head[1])
<1>1. head[1] \in Messages /\ Reading(LengthOf(head[1]), lens, rem)
  BY DEF PositionInv, LenOK
<1>2. LengthOf(head[1]) \in 0 .. MaxLength /\ RemLenOf(head[1]) = EncRemlen[LengthOf(head[1])]
  BY <1>1, SizeIs
<1>3. v = EncRemlen[LengthOf(head[1])][lens + 1]
  BY <1>2
<1>4. /\ v \in Nat
      /\ v >= Base => /\ lens + 1 < 4 /\ lens + 1 < Len(EncRemlen[LengthOf(head[1])])
                      /\ Reading(LengthOf(head[1]), lens + 1, value)
      /\ ~(v >= Base) => /\ lens + 1 = Len(EncRemlen[LengthOf(head[1])])
                         /\ value = LengthOf(head[1])
  BY <1>1, <1>2, <1>3, ReadingGoesOn
<1>5. value \in Nat
  <2>1. CASE v >= Base
    BY <1>4, <2>1 DEF Reading
  <2>2. CASE ~(v >= Base)
    BY <1>1, <1>4, <2>2, MessageIs
  <2> QED
    BY <2>1, <2>2
<1> QED
  BY <1>1, <1>2, <1>4, <1>5

LEMMA LenKeeps ==
    ASSUME LinkOK, PositionInv, EventInv, LinkOK', RecvLen
    PROVE  PositionInv' /\ EventInv'
<1> USE Basics
<1>1. /\ pc = "len" /\ 1 <= Len(wire) /\ lens \in 0 .. 3 /\ rem \in Nat /\ data = 0
      /\ FromBroker(wire) /\ (Aligned => LenOK)
      /\ UNCHANGED <<pushed, since, upto, split, cut>>
  BY DEF RecvLen, Recv, PositionInv, LinkOK
<1>2. PICK v, value :
          /\ LenStep(v, value)
          /\ Aligned => /\ v = RemLenOf(head[1])[lens + 1]
                        /\ value = rem + (v % Base) * Weight[lens + 1]
          /\ value \in Nat
  <2>1. CASE Aligned
    <3> DEFINE v == RemLenOf(head[1])[lens + 1]
               value == rem + (v % Base) * Weight[lens + 1]
    <3>1. LenStep(v, value)
      BY <2>1 DEF RecvLen
    <3>2. value \in Nat
      BY <1>1, <2>1, LengthByte
    <3> QED
      BY <3>1, <3>2, Zenon
  <2>2. CASE ~Aligned
    <3>1. PICK v \in {0, Base}, value \in 0 .. MaxJunk : LenStep(v, value)
      BY <2>2 DEF RecvLen
    <3>2. value \in Nat
      BY LengthAssumption
    <3> QED
      BY <2>2, <3>1, <3>2, Zenon
  <2> QED
    BY <2>1, <2>2
<1>3. ASSUME Aligned
      PROVE  /\ head[1] \in Messages
             /\ v >= Base => /\ lens + 1 < 4 /\ lens + 1 < Len(RemLenOf(head[1]))
                             /\ Reading(LengthOf(head[1]), lens + 1, value)
             /\ ~(v >= Base) => /\ lens + 1 = Len(RemLenOf(head[1]))
                                /\ value = LengthOf(head[1])
  BY <1>1, <1>2, <1>3, LengthByte
<1>4. ASSUME wire' = Tail(wire)
      PROVE  /\ WireOK(wire', conn) /\ FromBroker(wire') /\ Opened(wire') \subseteq Opened(wire)
             /\ Aligned => /\ Goes(wire', conn, head[1], 1 + (lens + 1))
                           /\ Opened(wire') = Opened(wire)
  <2>1. /\ wire' \in Seq(Bytes) /\ Len(wire') = Len(wire) - 1
        /\ \A j \in 1 .. Len(wire') : wire'[j] = wire[j + 1]
        /\ 1 \in 0 .. Len(wire)
    BY <1>1, <1>4, TailIs
  <2>2. WireOK(wire, conn)
    BY DEF PositionInv
  <2>3. /\ WireOK(wire', conn) /\ FromBroker(wire') /\ Opened(wire') \subseteq Opened(wire)
        /\ \A p \in Kinds : \A q \in Nat :
               q + 1 <= Size(p) /\ Goes(wire, conn, p, q) =>
                   /\ Goes(wire', conn, p, q + 1)
                   /\ q >= 1 \/ p \notin Events => Opened(wire') = Opened(wire)
    BY <1>1, <2>1, <2>2, WireRead
  <2>4. ASSUME Aligned
        PROVE  Goes(wire', conn, head[1], 1 + (lens + 1)) /\ Opened(wire') = Opened(wire)
    <3>1. /\ head[1] \in Messages /\ lens < Len(RemLenOf(head[1]))
          /\ Goes(wire, conn, head[1], 1 + lens)
      BY <1>1, <2>4 DEF LenOK
    <3>2. lens \in Nat /\ 1 + lens \in Nat /\ 1 + lens >= 1 /\ (1 + lens) + 1 = 1 + (lens + 1)
      BY <1>1
    <3>3. head[1] \in Kinds /\ (1 + lens) + 1 <= Size(head[1])
      BY <3>1, <3>2, MessageIs
    <3>4. Goes(wire', conn, head[1], (1 + lens) + 1) /\ Opened(wire') = Opened(wire)
      BY <2>3, <3>1, <3>2, <3>3
    <3> QED
      BY <3>2, <3>4
  <2> QED
    BY <2>3, <2>4
<1>5. CASE /\ v >= Base /\ lens + 1 < 4
           /\ lens' = lens + 1 /\ rem' = value /\ wire' = Tail(wire)
           /\ UNCHANGED <<pc, data, head, conn, latest>>
  <2>1. lens' \in 0 .. 3 /\ rem' \in Nat
    BY <1>1, <1>2, <1>5
  <2>2. Aligned' = Aligned /\ (Subscribed' => Subscribed) /\ UNCHANGED eventVars
    BY <1>1, <1>5 DEF Aligned, Subscribed, eventVars
  <2>3. ASSUME Aligned PROVE LenOK'
    BY <1>3, <1>4, <1>5, <2>3 DEF LenOK
  <2>4. PositionInv'
    BY <1>1, <1>4, <1>5, <2>1, <2>2, <2>3 DEF PositionInv
  <2>5. Aligned => Flight(head', wire') = Flight(head, wire)
    BY <1>4, <1>5 DEF Flight
  <2>6. ~split => Aligned
    BY <1>1 DEF PositionInv
  <2>7. Aligned' /\ head'[1] \in Events =>
            head'[1] <= pushed /\ \A e \in Opened(wire') : head'[1] < e
    BY <1>4, <1>5, <2>2 DEF EventInv
  <2>8. EventInv'
    <3>1. Flight(head', wire') \subseteq Flight(head, wire)
      BY <1>4, <1>5 DEF Flight
    <3> QED
      BY <1>1, <1>4, <1>5, <2>2, <2>5, <2>6, <2>7, <3>1, SameFlight
  <2> QED
    BY <2>4, <2>8
<1>6. CASE GiveUp /\ UNCHANGED latest
  BY <1>1, <1>6, GiveUpKeeps DEF eventVars
<1>7. CASE /\ ~(v >= Base) /\ value # 0
           /\ pc' = "body" /\ rem' = value /\ lens' = 0 /\ wire' = Tail(wire)
           /\ UNCHANGED <<data, head, conn, latest>>
  <2>1. data' = 0 /\ data' \in Nat /\ rem' \in Nat /\ data' < rem'
    BY <1>1, <1>2, <1>7
  <2>2. Aligned' = Aligned /\ (Subscribed' => Subscribed) /\ UNCHANGED eventVars
    BY <1>1, <1>7 DEF Aligned, Subscribed, eventVars
  <2>3. ASSUME Aligned PROVE BodyOK'
    <3>1. lens + 1 = Len(RemLenOf(head[1])) /\ value = LengthOf(head[1]) /\ head[1] \in Messages
      BY <1>3, <1>7, <2>3
    <3>2. 1 + (lens + 1) = 1 + Len(RemLenOf(head[1])) + 0
      BY <1>1, <3>1
    <3>3. Goes(wire', conn', head'[1], 1 + Len(RemLenOf(head'[1])) + data')
      BY <1>4, <1>7, <2>1, <2>3, <3>2
    <3> QED
      BY <1>7, <3>1, <3>3 DEF BodyOK
  <2>4. ~split => Aligned
    BY <1>1 DEF PositionInv
  <2>5. PositionInv'
    BY <1>1, <1>4, <1>7, <2>1, <2>2, <2>3, <2>4 DEF PositionInv
  <2>6. Aligned => Flight(head', wire') = Flight(head, wire)
    BY <1>4, <1>7 DEF Flight
  <2>7. Aligned' /\ head'[1] \in Events =>
            head'[1] <= pushed /\ \A e \in Opened(wire') : head'[1] < e
    BY <1>4, <1>7, <2>2 DEF EventInv
  <2>8. EventInv'
    <3>1. Flight(head', wire') \subseteq Flight(head, wire)
      BY <1>4, <1>7 DEF Flight
    <3> QED
      BY <1>1, <1>4, <1>7, <2>2, <2>4, <2>6, <2>7, <3>1, SameFlight
  <2> QED
    BY <2>5, <2>8
<1>8. CASE /\ ~(v >= Base) /\ value = 0
           /\ NextPacket /\ wire' = Tail(wire)
           /\ latest' = IF Aligned /\ head[1] \in Events THEN head[1] ELSE latest
  <2>1. ASSUME Aligned
        PROVE  Goes(wire', conn, head[1], Size(head[1]))
    <3>1. lens + 1 = Len(RemLenOf(head[1])) /\ LengthOf(head[1]) = 0 /\ head[1] \in Messages
      BY <1>3, <1>8, <2>1
    <3>2. 1 + (lens + 1) = Size(head[1])
      <4>1. Size(head[1]) = 1 + Len(RemLenOf(head[1])) + LengthOf(head[1])
        BY <3>1, SizeIs
      <4> QED
        BY <1>1, <3>1, <4>1
    <3> QED
      BY <1>4, <1>8, <2>1, <3>2
  <2> QED
    BY <1>1, <1>3, <1>4, <1>8, <2>1, NextKeeps
<1> QED
  BY <1>2, <1>5, <1>6, <1>7, <1>8 DEF LenStep, LengthBytes, PacketRead

LEMMA TimeoutKeeps ==
    ASSUME LinkOK, PositionInv, EventInv, LinkOK', Timeout
    PROVE  PositionInv' /\ EventInv'
<1> USE Basics
<1>1. /\ pc \in {"type", "len", "body"} /\ Ping /\ split' = (split \/ pc # "type")
      /\ head' = NoByte /\ cut' = cut /\ UNCHANGED eventVars /\ ~Aligned'
  BY KindsAre DEF Timeout, Aligned
<1>2. FromBroker(wire) /\ WireOK(wire, conn) /\ (~split' => AtStart(wire))
  BY <1>1 DEF PositionInv
<1>3. ASSUME pc' = "type", FromBroker(wire'), WireOK(wire', conn'), AtStart(wire) => AtStart(wire'),
             Opened(wire') = Opened(wire), conn' = "open" => conn = "open"
      PROVE  PositionInv' /\ EventInv'
  <2>1. PositionInv'
    BY <1>1, <1>2, <1>3, KindsAre DEF PositionInv
  <2>2. Reached' = Reached /\ (Subscribed' => Subscribed)
    BY <1>1, <1>3 DEF Reached, eventVars, Subscribed
  <2>3. ASSUME ~split'
        PROVE  /\ Gapless(Flight(head', wire'), Reached')
               /\ ~cut' => UpTo(Flight(head', wire'), Reached', upto')
    <3>1. pc = "type" /\ ~split /\ head = NoByte
      BY <1>1, <2>3 DEF LinkOK
    <3>2. Flight(head', wire') = Flight(head, wire)
      BY <1>1, <1>3, <3>1, KindsAre
    <3> QED
      BY <1>1, <2>2, <3>1, <3>2 DEF EventInv, eventVars
  <2>4. \A e \in Flight(head', wire') : latest' < e
    <3>1. Flight(head', wire') \subseteq Flight(head, wire)
      BY <1>1, <1>3, KindsAre DEF Flight
    <3> QED
      BY <1>1, <3>1 DEF EventInv, eventVars
  <2>5. EventInv'
    BY <1>1, <1>3, <2>2, <2>3, <2>4 DEF EventInv, eventVars
  <2> QED
    BY <2>1, <2>5
<1>4. CASE conn = "open" /\ pc' = "type" /\ wire' = wire \o Packet(PINGRESP) /\ UNCHANGED conn
  <2>1. \A e \in Opened(wire) : PINGRESP \in Events => e < PINGRESP
    BY KindsAre
  <2>2. {PINGRESP} \cap Events = {}
    BY KindsAre
  <2>3. /\ WireOK(wire', "open") /\ Opened(wire') = Opened(wire)
        /\ AtStart(wire) => AtStart(wire')
        /\ \A i \in 1 .. Len(wire') :
               wire'[i][1] \in Messages \/ (i \in 1 .. Len(wire) /\ wire'[i] = wire[i])
    <3>1. WireOK(wire, "open") /\ PINGRESP \in Kinds /\ PINGRESP \in Messages
      BY <1>2, <1>4, KindsAre
    <3>2. Opened(wire) \cup {} = Opened(wire)
      OBVIOUS
    <3>3. Opened(wire') = Opened(wire) \cup ({PINGRESP} \cap Events)
      BY <1>4, <2>1, <3>1, WireGrows
    <3> QED
      BY <1>4, <2>1, <2>2, <3>1, <3>2, <3>3, WireGrows
  <2>4. FromBroker(wire')
    BY <1>2, <2>3 DEF FromBroker
  <2> QED
    BY <1>3, <1>4, <2>3, <2>4
<1>5. CASE conn = "silent" /\ pc' = "type" /\ conn' = "reset" /\ UNCHANGED wire
  <2>1. WireOK(wire', conn')
    BY <1>2, <1>5 DEF WireOK
  <2> QED
    BY <1>2, <1>3, <1>5, <2>1
<1>6. CASE pc' = "sleep" /\ wire' = <<>>
  BY <1>1, <1>6, Idle
<1> QED
  BY <1>1, <1>4, <1>5, <1>6 DEF Ping

----------------------------------------------------------------------------

LEMMA StepKeeps ==
    ASSUME LinkOK, PositionInv, EventInv, LinkOK', [Next]_vars
    PROVE  PositionInv' /\ EventInv'
<1>1. CASE BrokerPublishes
  BY <1>1, PublishKeeps
<1>2. CASE ConnectionBreaks
  BY <1>2, BreakKeeps
<1>3. CASE ConnectFails
  <2>1. pc' = "sleep" /\ wire' = <<>> /\ head' = NoByte /\ UNCHANGED eventVars
    BY <1>3 DEF ConnectFails, packetVars, LinkOK
  <2> QED
    BY <2>1, Idle
<1>4. CASE SetupFails
  BY <1>4, GiveUpKeeps DEF SetupFails
<1>5. CASE Sleep
  <2>1. pc' = "connect" /\ wire' = <<>> /\ head' = NoByte /\ UNCHANGED eventVars
    BY <1>5 DEF Sleep, packetVars, eventVars, LinkOK
  <2> QED
    BY <2>1, Idle
<1>6. CASE Connect
  BY <1>6, ConnectKeeps
<1>7. CASE RecvPart
  BY <1>7, PartKeeps
<1>8. CASE RecvConnack
  BY <1>8, ConnackKeeps
<1>9. CASE RecvSuback
  BY <1>9, SubackKeeps
<1>10. CASE RecvType
  BY <1>10, TypeKeeps
<1>11. CASE RecvLen
  BY <1>11, LenKeeps
<1>12. CASE RecvBody
  BY <1>12, BodyKeeps
<1>13. CASE RecvRaises
  BY <1>13, GiveUpKeeps DEF RecvRaises
<1>14. CASE Timeout
  BY <1>14, TimeoutKeeps
<1>15. CASE UNCHANGED vars
  <2>1. /\ UNCHANGED <<pc, data, head, lens, rem, conn, wire, split, cut>>
        /\ UNCHANGED eventVars
    BY <1>15 DEF vars, packetVars
  <2>2. PositionInv'
    BY <2>1 DEF PositionInv, LenOK, BodyOK, Aligned
  <2>3. Reached' = Reached /\ Subscribed' = Subscribed /\ Aligned' = Aligned
    BY <2>1 DEF Reached, Subscribed, Aligned, eventVars
  <2>4. EventInv'
    BY <2>1, <2>3 DEF EventInv, eventVars
  <2> QED
    BY <2>2, <2>4
<1> QED
  BY <1>1, <1>2, <1>3, <1>4, <1>5, <1>6, <1>7, <1>8, <1>9, <1>10, <1>11, <1>12, <1>13, <1>14, <1>15
     DEF Next, Reader, Receive

StreamInv == LinkOK /\ PositionInv /\ EventInv

\* The reader and the stream fit together, whatever recv returns and whenever it times
\* out.
THEOREM StreamInvariant == Spec => []StreamInv
<1>1. Init => PositionInv /\ EventInv
  <2> SUFFICES ASSUME Init PROVE PositionInv /\ EventInv
    OBVIOUS
  <2>1. pc = "connect" /\ wire = <<>> /\ head = NoByte /\ pushed = 0
        /\ latest = 0 /\ since = 0 /\ upto = 0
    BY DEF Init
  <2>2. PositionInv
    BY <2>1, NothingSent, KindsAre DEF PositionInv
  <2>3. ~Subscribed /\ ~Aligned /\ Opened(wire) = {} /\ Flight(head, wire) = {}
    BY <2>1, NothingSent, KindsAre DEF Subscribed, Aligned
  <2>4. EventInv
    BY <2>1, <2>3 DEF EventInv
  <2> QED
    BY <2>2, <2>4
<1>2. LinkOK /\ LinkOK' /\ (PositionInv /\ EventInv) /\ [Next]_vars => (PositionInv /\ EventInv)'
  BY StepKeeps
<1>3. Spec => [](PositionInv /\ EventInv)
  BY <1>1, <1>2, LinkInvariant, PTL DEF Spec
<1> QED
  BY <1>3, LinkInvariant, PTL DEF StreamInv

\* TypeOK: among it, that the lengths of a packet's parts never go out of what the
\* protocol has room for, and that a read never has more than it asked for.
THEOREM TypeCorrect == Spec => []TypeOK
<1>1. StreamInv => TypeOK
  <2> SUFFICES ASSUME StreamInv PROVE TypeOK
    OBVIOUS
  <2>1. LinkOK /\ PositionInv /\ EventInv
    BY DEF StreamInv
  <2> USE <2>1
  <2>2. /\ wire \in Seq(({CONNACK, SUBACK, PINGRESP} \cup Events) \X Nat)
        /\ head \in ({CONNACK, SUBACK, PINGRESP} \cup Events) \X Nat
    BY Basics DEF Bytes, Kinds
  <2>3. latest \in 0 .. MaxSent /\ since \in 0 .. MaxSent /\ upto \in 0 .. MaxSent
    <3>1. latest \in 0 .. pushed /\ since \in 0 .. pushed /\ upto \in 0 .. pushed
      BY DEF EventInv
    <3> QED
      BY <3>1, Basics
  <2>4. data \in Nat /\ data < Wanted
    <3>1. CASE pc = "connack"
      BY <3>1, WantedIs DEF PositionInv
    <3>2. CASE pc = "suback"
      BY <3>2, WantedIs DEF PositionInv
    <3>3. CASE pc = "body"
      BY <3>3, WantedIs DEF PositionInv
    <3>4. CASE pc \in {"connect", "sleep", "type", "len"}
      BY <3>4, WantedIs DEF LinkOK
    <3> QED
      BY <3>1, <3>2, <3>3, <3>4 DEF LinkOK
  <2>5. lens \in 0 .. 3 /\ rem \in Nat
    BY DEF LinkOK, PositionInv
  <2> QED
    BY <2>2, <2>3, <2>4, <2>5 DEF LinkOK, TypeOK
<1> QED
  BY <1>1, StreamInvariant, PTL

----------------------------------------------------------------------------
(* The properties.                                                          *)

\* LeavesOnlyBroken: a reader that is in step reads lengths of up to four bytes to their
\* ends, so what makes it give up is a connection that broke, or a timeout in a packet.
THEOREM LeavesOnlyThen == Spec => []LeavesOnlyBroken
<1>1. Init => LeavesOnlyBroken
  BY DEF Init, LeavesOnlyBroken
<1>2. StreamInv /\ StreamInv' /\ LeavesOnlyBroken /\ [Next]_vars => LeavesOnlyBroken'
  <2> SUFFICES ASSUME StreamInv, StreamInv', LeavesOnlyBroken, [Next]_vars, pc' = "sleep"
               PROVE  cut' \/ split'
    BY DEF LeavesOnlyBroken
  <2>1. /\ LinkOK /\ PositionInv
        /\ conn = "reset" => cut
        /\ pc \in {"len", "body"} /\ ~Aligned => split
        /\ split \in BOOLEAN /\ cut \in BOOLEAN
    BY DEF StreamInv, LinkOK, PositionInv
  <2>2. CASE BrokerPublishes
    BY <2>2 DEF BrokerPublishes, LeavesOnlyBroken
  <2>3. CASE ConnectionBreaks
    BY <2>3 DEF ConnectionBreaks
  <2>4. CASE ConnectFails
    BY <2>4 DEF ConnectFails
  <2>5. CASE SetupFails
    BY <2>5 DEF SetupFails
  <2>6. CASE Sleep \/ Connect \/ RecvSuback \/ RecvType
    BY <2>6 DEF Sleep, Connect, RecvSuback, RecvType
  <2>7. CASE RecvPart
    BY <2>7 DEF RecvPart, LeavesOnlyBroken
  <2>8. CASE RecvConnack
    BY <2>1, <2>8 DEF RecvConnack
  <2>9. CASE RecvLen
    <3>1. pc = "len" /\ UNCHANGED <<split, cut>>
      BY <2>9 DEF RecvLen
    <3>2. CASE ~Aligned
      BY <2>1, <3>1, <3>2
    <3>3. CASE Aligned
      <4> DEFINE v == RemLenOf(head[1])[lens + 1]
                 value == rem + (v % Base) * Weight[lens + 1]
      <4>1. LenStep(v, value)
        BY <2>9, <3>3 DEF RecvLen
      <4>2. v >= Base => lens + 1 < 4
        BY <2>1, <3>1, <3>3, LengthByte
      <4>3. lens \in 0 .. 3
        BY <2>1, <3>1 DEF PositionInv
      <4> HIDE DEF v, value
      <4>4. ~(v >= Base /\ lens + 1 >= LengthBytes)
        BY <4>2, <4>3 DEF LengthBytes
      <4> QED
        BY <3>1, <3>3, <4>1, <4>4 DEF LenStep, PacketRead, NextPacket
    <3> QED
      BY <3>2, <3>3
  <2>10. CASE RecvBody
    <3>1. pc = "body" /\ UNCHANGED <<split, cut>> /\ ~Aligned
      BY <2>10 DEF RecvBody, PacketRead, NextPacket
    <3> QED
      BY <2>1, <3>1
  <2>11. CASE RecvRaises
    BY <2>1, <2>11 DEF RecvRaises
  <2>12. CASE Timeout
    BY <2>1, <2>12 DEF Timeout, Ping
  <2>13. CASE UNCHANGED vars
    BY <2>13 DEF vars, LeavesOnlyBroken
  <2> QED
    BY <2>2, <2>3, <2>4, <2>5, <2>6, <2>7, <2>8, <2>9, <2>10, <2>11, <2>12, <2>13
       DEF Next, Reader, Receive
<1> QED
  BY <1>1, <1>2, StreamInvariant, PTL DEF Spec

\* What has no gap after r is an interval, and its size says how far it goes.
LEMMA GaplessIsInterval ==
    ASSUME NEW F, F \subseteq Int, NEW r \in Nat, NEW b \in Nat, r <= b,
           Gapless(F, r), \A e \in F : e <= b
    PROVE  /\ F = r + 1 .. r + Cardinality(F)
           /\ \A u \in Nat : UpTo(F, r, u) => r + Cardinality(F) = u
<1>1. \A e \in F : e \in Int /\ r < e /\ \A f \in r + 1 .. e : f \in F
  BY DEF Gapless
<1>2. ASSUME NEW m \in Nat, r <= m, m + 1 \notin F, \A f \in r + 1 .. m : f \in F
      PROVE  F = r + 1 .. m /\ r + Cardinality(F) = m
  <2>1. \A e \in F : e \in r + 1 .. m
    <3> SUFFICES ASSUME NEW e \in F, e > m PROVE FALSE
      BY <1>1, <1>2
    <3>1. m + 1 \in r + 1 .. e
      BY <1>1, <1>2
    <3> QED
      BY <1>1, <1>2, <3>1
  <2>2. F = r + 1 .. m
    BY <1>2, <2>1
  <2>3. Cardinality(r + 1 .. m) = IF r + 1 > m THEN 0 ELSE m - (r + 1) + 1
    BY <1>2, FS_Interval
  <2>4. Cardinality(F) = m - r
    BY <1>2, <2>2, <2>3
  <2> QED
    BY <1>2, <2>2, <2>4
<1>3. \E m \in Nat : r <= m /\ m + 1 \notin F /\ \A f \in r + 1 .. m : f \in F
  <2> DEFINE T == {n \in Nat : r <= n /\ n + 1 \notin F}
  <2>1. b \in T
    OBVIOUS
  <2>2. PICK m \in T : \A n \in T : ~(<<n, m>> \in OpToRel(<, Nat))
    BY <2>1, NatLessThanWellFounded, WFMin, Zenon
  <2>3. ASSUME NEW n \in T PROVE ~(n < m)
    BY <2>2, <2>3 DEF OpToRel
  <2>4. ASSUME NEW f \in r + 1 .. m PROVE f \in F
    <3>1. f - 1 \in Nat /\ r <= f - 1 /\ f - 1 < m /\ (f - 1) + 1 = f
      OBVIOUS
    <3>2. f - 1 \notin T
      BY <2>3, <3>1
    <3> QED
      BY <3>1, <3>2
  <2> QED
    BY <2>4
<1>4. F = r + 1 .. r + Cardinality(F)
  <2>1. PICK m \in Nat : r <= m /\ m + 1 \notin F /\ \A f \in r + 1 .. m : f \in F
    BY <1>3
  <2> QED
    BY <1>2, <2>1
<1>5. ASSUME NEW u \in Nat, UpTo(F, r, u)
      PROVE  r + Cardinality(F) = u
  <2>1. r <= u /\ (\A e \in F : e <= u) /\ \A f \in r + 1 .. u : f \in F
    BY <1>5 DEF UpTo
  <2>2. u + 1 \notin F
    BY <2>1
  <2> QED
    BY <1>2, <2>1, <2>2
<1> QED
  BY <1>4, <1>5

LEMMA InFlightIs == InFlight = Flight(head, wire)
<1>1. {wire[i][1] : i \in {j \in 1 .. Len(wire) : wire[j][1] \in Events /\ wire[j][2] = 1}}
          = Opened(wire)
  BY DEF Opened, Opens
<1> QED
  BY <1>1 DEF InFlight, Flight, Aligned

\* OnlyNewer: no event is yielded twice or after a newer one.
THEOREM NeverRepeats == Spec => []OnlyNewer
<1>1. StreamInv => OnlyNewer
  BY InFlightIs DEF StreamInv, EventInv, OnlyNewer
<1> QED
  BY <1>1, StreamInvariant, PTL

\* InStep: a reader that no timeout caught inside a packet misses nothing and repeats
\* nothing of what it is sent.
THEOREM StaysInStep == Spec => []InStep
<1>1. StreamInv => InStep
  <2> SUFFICES ASSUME StreamInv, pc \in {"type", "len", "body"}, ~split
               PROVE  /\ InFlight = Reached + 1 .. Reached + Cardinality(InFlight)
                      /\ ~cut => Reached + Cardinality(InFlight) = upto
    BY DEF InStep
  <2>1. LinkOK /\ PositionInv /\ EventInv
    BY DEF StreamInv
  <2> DEFINE F == Flight(head, wire)
  <2>2. InFlight = F
    BY InFlightIs
  <2>3. Gapless(F, Reached) /\ (~cut => UpTo(F, Reached, upto))
    BY <2>1 DEF EventInv
  <2>4. \A e \in F : e <= pushed
    BY <2>1 DEF EventInv, Flight, Aligned
  <2>5. F \subseteq Int /\ Reached \in Nat /\ pushed \in Nat /\ upto \in Nat
    BY <2>1, Basics, KindsAre
  <2>6. Reached <= pushed
    <3>1. latest \in 0 .. pushed /\ since \in 0 .. pushed
      BY <2>1 DEF EventInv
    <3> QED
      BY <2>5, <3>1 DEF Reached
  <2> HIDE DEF F
  <2>7. /\ F = Reached + 1 .. Reached + Cardinality(F)
        /\ \A u \in Nat : UpTo(F, Reached, u) => Reached + Cardinality(F) = u
    BY <2>3, <2>4, <2>5, <2>6, GaplessIsInterval
  <2> QED
    BY <2>2, <2>3, <2>5, <2>7
<1> QED
  BY <1>1, StreamInvariant, PTL
=============================================================================
