------------------------- MODULE LmqttCodecTheorems -------------------------
(***************************************************************************)
(* What the decoder makes of the remaining length that the encoder writes, *)
(* for every length, and that the announced lengths are those of the parts *)
(* that follow.                                                            *)
(***************************************************************************)
EXTENDS LmqttCodec, TLAPS

(* Division twice is division by the product.                              *)
LEMMA DivDiv ==
  ASSUME NEW n \in Nat, NEW a \in Nat \ {0}, NEW b \in Nat \ {0}
  PROVE  n \div (a * b) = (n \div a) \div b
<1> DEFINE q == n \div a
           r == n % a
           s == q \div b
           t == q % b
<1>1. q \in Nat /\ r \in 0 .. a - 1 /\ n = a * q + r
  BY SMT
<1>2. s \in Nat /\ t \in 0 .. b - 1 /\ q = b * s + t
  BY <1>1, SMT
<1> HIDE DEF q, r, s, t
<1>3. a * b \in Nat \ {0} /\ n = (a * b) * s + (a * t + r)
  BY <1>1, <1>2, SMT
<1>4. a * t + r \in 0 .. a * b - 1
  BY <1>1, <1>2, SMT
<1>5. n \div (a * b) = s
  BY <1>2, <1>3, <1>4, SMT
<1> QED  BY <1>5 DEF s, q

(* The size that RemainingSize chooses exists, and is what it says.        *)
LEMMA SizeExists ==
  ASSUME NEW n \in 0 .. MaxRemaining
  PROVE  /\ RemainingSize(n) \in 1 .. 4
         /\ n < Weight[RemainingSize(n)] * Radix
         /\ RemainingSize(n) > 1 => n >= Weight[RemainingSize(n)]
<1> DEFINE Fits(k) == n < Weight[k] * Radix /\ (k > 1 => n >= Weight[k])
<1> USE RadixAssumption
<1>1. \E k \in 1 .. 4 : Fits(k)
  <2>1. Weight[1] = 1 /\ Weight[2] = Radix /\ Weight[3] = Radix * Radix
        /\ Weight[4] = Radix * Radix * Radix
    BY DEF Weight
  <2>2. n \in Nat /\ n < Weight[4] * Radix
    BY <2>1, SMT DEF MaxRemaining
  <2>3. CASE n < Radix                  BY <2>1, <2>2, <2>3, SMT
  <2>4. CASE n >= Radix /\ n < Radix * Radix
    BY <2>1, <2>2, <2>4, SMT
  <2>5. CASE n >= Radix * Radix /\ n < Radix * Radix * Radix
    BY <2>1, <2>2, <2>5, SMT
  <2>6. CASE n >= Radix * Radix * Radix  BY <2>1, <2>2, <2>6, SMT
  <2> QED  BY <2>2, <2>3, <2>4, <2>5, <2>6, SMT
<1>2. RemainingSize(n) = CHOOSE k \in 1 .. 4 : Fits(k)
  BY DEF RemainingSize
<1> HIDE DEF Fits
<1>3. RemainingSize(n) \in 1 .. 4 /\ Fits(RemainingSize(n))
  BY <1>1, <1>2
<1> QED  BY <1>3 DEF Fits

(* The digits of a length, and the number they make.                       *)
LEMMA DigitsOf ==
  ASSUME NEW n \in Nat,
         NEW v, v = [i \in 1 .. 4 |-> (n \div Weight[i]) % Radix]
  PROVE  /\ \A i \in 1 .. 4 : v[i] \in 0 .. Radix - 1
         /\ n < Weight[1] * Radix => n = v[1]
         /\ n < Weight[2] * Radix => n = v[1] + v[2] * Weight[2]
         /\ n < Weight[3] * Radix =>
              n = v[1] + v[2] * Weight[2] + v[3] * Weight[3]
         /\ n < Weight[4] * Radix =>
              n = v[1] + v[2] * Weight[2] + v[3] * Weight[3]
                    + v[4] * Weight[4]
<1> DEFINE R == Radix
           q1 == n \div R
           q2 == q1 \div R
           q3 == q2 \div R
           q4 == q3 \div R
<1> USE RadixAssumption
<1>1. /\ Weight[1] = 1 /\ Weight[2] = R /\ Weight[3] = R * R
      /\ Weight[4] = R * R * R
  BY DEF Weight
<1>2. R \in Nat \ {0} /\ R * R \in Nat \ {0}
  BY SMT
<1>3. n \div 1 = n
  BY SMT
<1>4. n \div (R * R) = q2
  BY <1>2, DivDiv
<1>5. n \div (R * R * R) = q3
  <2>1. n \div ((R * R) * R) = (n \div (R * R)) \div R
    BY <1>2, DivDiv
  <2> QED  BY <2>1, <1>4
<1>6. v[1] = n % R /\ v[2] = q1 % R /\ v[3] = q2 % R /\ v[4] = q3 % R
  BY <1>1, <1>3, <1>4, <1>5
<1>7. q1 \in Nat /\ q2 \in Nat /\ q3 \in Nat /\ q4 \in Nat
  <2>1. q1 \in Nat  BY <1>2, SMT
  <2>2. q2 \in Nat  BY <1>2, <2>1, SMT
  <2>3. q3 \in Nat  BY <1>2, <2>2, SMT
  <2>4. q4 \in Nat  BY <1>2, <2>3, SMT
  <2> QED  BY <2>1, <2>2, <2>3, <2>4
<1>8. /\ n % R \in 0 .. R - 1 /\ n = R * q1 + (n % R)
      /\ q1 % R \in 0 .. R - 1 /\ q1 = R * q2 + (q1 % R)
      /\ q2 % R \in 0 .. R - 1 /\ q2 = R * q3 + (q2 % R)
      /\ q3 % R \in 0 .. R - 1 /\ q3 = R * q4 + (q3 % R)
  <2>1. \A m \in Nat : m % R \in 0 .. R - 1 /\ m = R * (m \div R) + (m % R)
    BY <1>2, SMT
  <2> QED  BY <2>1, <1>7
<1> HIDE DEF q1, q2, q3, q4
<1>9. /\ v[1] \in 0 .. R - 1 /\ v[2] \in 0 .. R - 1
      /\ v[3] \in 0 .. R - 1 /\ v[4] \in 0 .. R - 1
      /\ n = R * q1 + v[1] /\ q1 = R * q2 + v[2]
      /\ q2 = R * q3 + v[3] /\ q3 = R * q4 + v[4]
  BY <1>6, <1>8
<1> DEFINE w1 == v[1]
           w2 == v[2]
           w3 == v[3]
           w4 == v[4]
<1>10. /\ w1 \in Nat /\ w2 \in Nat /\ w3 \in Nat /\ w4 \in Nat
       /\ n = R * q1 + w1 /\ q1 = R * q2 + w2
       /\ q2 = R * q3 + w3 /\ q3 = R * q4 + w4
  BY <1>9, SMT
<1> HIDE DEF w1, w2, w3, w4
<1>11. /\ n = w1 + R * q1
       /\ n = w1 + w2 * R + (R * R) * q2
       /\ n = w1 + w2 * R + w3 * (R * R) + (R * R * R) * q3
       /\ n = w1 + w2 * R + w3 * (R * R) + w4 * (R * R * R)
                + (R * R * R * R) * q4
  BY <1>2, <1>7, <1>10, SMT
<1>12. ASSUME NEW P \in Nat \ {0}, NEW q \in Nat, NEW a \in Nat,
              n = a + P * q, n < P
       PROVE  n = a
  <2>1. q = 0 \/ P * q >= P
    BY <1>12, SMT
  <2> QED  BY <2>1, <1>12, SMT
<1>13. n < R => n = w1
  BY <1>2, <1>7, <1>10, <1>11, <1>12
<1>14. n < R * R => n = w1 + w2 * R
  <2>1. w1 + w2 * R \in Nat  BY <1>2, <1>10, SMT
  <2> QED  BY <2>1, <1>2, <1>7, <1>11, <1>12
<1>15. n < R * R * R => n = w1 + w2 * R + w3 * (R * R)
  <2>1. w1 + w2 * R + w3 * (R * R) \in Nat /\ R * R * R \in Nat \ {0}
    BY <1>2, <1>10, SMT
  <2> QED  BY <2>1, <1>7, <1>11, <1>12
<1>16. n < R * R * R * R =>
         n = w1 + w2 * R + w3 * (R * R) + w4 * (R * R * R)
  <2>1. /\ w1 + w2 * R + w3 * (R * R) + w4 * (R * R * R) \in Nat
        /\ R * R * R * R \in Nat \ {0}
    BY <1>2, <1>10, SMT
  <2> QED  BY <2>1, <1>7, <1>11, <1>12
<1>17. \A i \in 1 .. 4 : v[i] \in 0 .. R - 1
  <2>1. 1 .. 4 = {1, 2, 3, 4}  BY SMT
  <2> QED  BY <2>1, <1>9
<1>18. 1 * R = R
  BY <1>2, SMT
<1> QED
  BY <1>1, <1>13, <1>14, <1>15, <1>16, <1>17, <1>18 DEF w1, w2, w3, w4

(* What fixed_header_decode keeps in the middle of a length, and behind    *)
(* its end.                                                                *)
Unread(acc, mult) ==
  [acc |-> acc, mult |-> mult, finished |-> FALSE, bad |-> FALSE]
Ended(acc, mult) ==
  [acc |-> acc, mult |-> mult, finished |-> TRUE, bad |-> FALSE]

(* A byte that it takes no offence at, and the last one.                   *)
LEMMA StepGoesOn ==
  ASSUME NEW acc, NEW mult, NEW v, ~(mult > Weight[3])
  PROVE  LengthStep(Unread(acc, mult), Digit(v, TRUE)) =
           Unread(acc + v * mult, mult * Radix)
<1>1. Digit(v, TRUE).v = v /\ Digit(v, TRUE).more = TRUE
  BY DEF Digit, Blank
<1>2. LengthStep(Unread(acc, mult), Digit(v, TRUE)) =
        [Unread(acc, mult) EXCEPT !.acc = @ + v * mult,
           !.mult = @ * Radix, !.finished = FALSE]
  BY <1>1 DEF LengthStep, Unread
<1> QED  BY <1>2 DEF Unread

LEMMA StepEnds ==
  ASSUME NEW acc, NEW mult, NEW v, ~(mult > 1 /\ v = 0)
  PROVE  LengthStep(Unread(acc, mult), Digit(v, FALSE)) =
           Ended(acc + v * mult, mult * Radix)
<1>1. Digit(v, FALSE).v = v /\ Digit(v, FALSE).more = FALSE
  BY DEF Digit, Blank
<1>2. LengthStep(Unread(acc, mult), Digit(v, FALSE)) =
        [Unread(acc, mult) EXCEPT !.acc = @ + v * mult,
           !.mult = @ * Radix, !.finished = TRUE]
  BY <1>1 DEF LengthStep, Unread
<1> QED  BY <1>2 DEF Unread, Ended

(* THEOREM.  Whatever the length, up to the largest that four bytes can    *)
(* hold, and whatever the radix, fixed_header_decode takes the bytes that  *)
(* encode_remaining_length writes, ends at the last of them and has the    *)
(* length that was encoded.                                                *)
THEOREM RemainingLengthRoundTrip ==
  ASSUME NEW n \in 0 .. MaxRemaining, NEW h,
         h[0] = FreshLength,
         \A i \in 1 .. RemainingSize(n) :
           h[i] = LengthStep(h[i - 1], RemainingBytes(n)[i])
  PROVE  /\ h[RemainingSize(n)].acc = n
         /\ h[RemainingSize(n)].finished /\ ~h[RemainingSize(n)].bad
         /\ \A i \in 1 .. RemainingSize(n) - 1 :
              ~h[i].finished /\ ~h[i].bad
<1> DEFINE k == RemainingSize(n)
           R == Radix
           v == [i \in 1 .. 4 |-> (n \div Weight[i]) % Radix]
<1> USE RadixAssumption
<1>1. /\ k \in 1 .. 4 /\ n < Weight[k] * Radix
      /\ k > 1 => n >= Weight[k]
  BY SizeExists
<1>2. n \in Nat
  <2>1. MaxRemaining \in Int  BY SMT DEF MaxRemaining, Weight
  <2> QED  BY <2>1, SMT
<1>3. /\ Weight[1] = 1 /\ Weight[2] = R /\ Weight[3] = R * R
      /\ Weight[4] = R * R * R
  BY DEF Weight
<1>4. \A i \in 1 .. k : RemainingBytes(n)[i] = Digit(v[i], i < k)
  <2>1. \A i \in 1 .. k : i \in 1 .. 4
    BY <1>1, SMT
  <2> QED  BY <2>1 DEF RemainingBytes
<1>5. /\ \A i \in 1 .. 4 : v[i] \in 0 .. Radix - 1
      /\ n < Weight[1] * Radix => n = v[1]
      /\ n < Weight[2] * Radix => n = v[1] + v[2] * Weight[2]
      /\ n < Weight[3] * Radix =>
           n = v[1] + v[2] * Weight[2] + v[3] * Weight[3]
      /\ n < Weight[4] * Radix =>
           n = v[1] + v[2] * Weight[2] + v[3] * Weight[3]
                 + v[4] * Weight[4]
  BY <1>2, DigitsOf
<1> HIDE DEF k, v
<1>6. v[1] \in Nat /\ v[2] \in Nat /\ v[3] \in Nat /\ v[4] \in Nat
  <2>1. v[1] \in 0 .. R - 1 /\ v[2] \in 0 .. R - 1
        /\ v[3] \in 0 .. R - 1 /\ v[4] \in 0 .. R - 1
    BY <1>5, SMT
  <2> QED  BY <2>1, SMT
<1>7. v[1] < R /\ v[2] < R /\ v[3] < R /\ v[4] < R
  BY <1>5, SMT
<1>8. h[0] = Unread(0, 1)
  BY DEF FreshLength, Unread
<1>9. /\ \A i \in 1 .. k :
            i < k => h[i] = LengthStep(h[i - 1], Digit(v[i], TRUE))
      /\ h[k] = LengthStep(h[k - 1], Digit(v[k], FALSE))
  <2>1. \A i \in 1 .. k : h[i] = LengthStep(h[i - 1], Digit(v[i], i < k))
    BY <1>4 DEF k
  <2>2. ASSUME NEW i \in 1 .. k, i < k
        PROVE  h[i] = LengthStep(h[i - 1], Digit(v[i], TRUE))
    <3>1. (i < k) = TRUE  BY <2>2
    <3> QED  BY <2>1, <3>1
  <2>3. k \in 1 .. k /\ (k < k) = FALSE
    BY <1>1, SMT
  <2> QED  BY <2>1, <2>2, <2>3
<1>10. R * R >= R /\ R * R >= 1 /\ R * R \in Nat /\ R * R * R \in Nat
  BY SMT
(* The last digit is not zero, unless it is the only one.                  *)
<1>11. k > 1 => v[k] # 0
  <2>1. CASE k = 2
    <3>1. n = v[1] + v[2] * R /\ n >= R  BY <1>1, <1>3, <1>5, <2>1
    <3> QED  BY <3>1, <1>6, <1>7, <2>1, SMT
  <2>2. CASE k = 3
    <3>1. n = v[1] + v[2] * R + v[3] * (R * R) /\ n >= R * R
      BY <1>1, <1>3, <1>5, <2>2
    <3>2. v[2] * R <= R * R - R
      BY <1>6, <1>7, SMT
    <3> QED  BY <3>1, <3>2, <1>6, <1>7, <1>10, <2>2, SMT
  <2>3. CASE k = 4
    <3>1. /\ n = v[1] + v[2] * R + v[3] * (R * R) + v[4] * (R * R * R)
          /\ n >= R * R * R
      BY <1>1, <1>3, <1>5, <2>3
    <3>2. v[2] * R <= R * R - R /\ v[3] * (R * R) <= R * R * R - R * R
      BY <1>6, <1>7, SMT
    <3> QED  BY <3>1, <3>2, <1>6, <1>7, <1>10, <2>3, SMT
  <2> QED  BY <1>1, <2>1, <2>2, <2>3, SMT
(* Before the last byte: the number so far, and the weight of the next.    *)
<1> DEFINE s1 == v[1]
           s2 == s1 + v[2] * R
           s3 == s2 + v[3] * (R * R)
           s4 == s3 + v[4] * (R * R * R)
<1>12. k > 1 => h[1] = Unread(s1, R)
  <2> SUFFICES ASSUME k > 1 PROVE h[1] = Unread(s1, R)
    OBVIOUS
  <2>1. h[1] = LengthStep(h[0], Digit(v[1], TRUE))
    <3>1. 1 \in 1 .. k /\ 1 - 1 = 0  BY <1>1, SMT
    <3> QED  BY <3>1, <1>9
  <2>2. LengthStep(Unread(0, 1), Digit(v[1], TRUE)) =
          Unread(0 + v[1] * 1, 1 * R)
    <3>1. ~(1 > Weight[3])  BY <1>3, <1>10, SMT
    <3> QED  BY <3>1, StepGoesOn
  <2>3. 0 + v[1] * 1 = v[1] /\ 1 * R = R
    BY <1>6, SMT
  <2> QED  BY <2>1, <2>2, <2>3, <1>8
<1>13. k > 2 => h[2] = Unread(s2, R * R)
  <2> SUFFICES ASSUME k > 2 PROVE h[2] = Unread(s2, R * R)
    OBVIOUS
  <2>1. h[2] = LengthStep(h[1], Digit(v[2], TRUE))
    <3>1. 2 \in 1 .. k /\ 2 - 1 = 1 /\ 2 < k  BY <1>1, SMT
    <3> QED  BY <3>1, <1>9
  <2>2. LengthStep(Unread(s1, R), Digit(v[2], TRUE)) = Unread(s2, R * R)
    <3>1. ~(R > Weight[3])  BY <1>3, <1>10, SMT
    <3> QED  BY <3>1, StepGoesOn
  <2>3. k > 1  BY <1>1, SMT
  <2> QED  BY <2>1, <2>2, <2>3, <1>12
<1>14. k > 3 => h[3] = Unread(s3, R * R * R)
  <2> SUFFICES ASSUME k > 3 PROVE h[3] = Unread(s3, R * R * R)
    OBVIOUS
  <2>1. h[3] = LengthStep(h[2], Digit(v[3], TRUE))
    <3>1. 3 \in 1 .. k /\ 3 - 1 = 2 /\ 3 < k  BY <1>1, SMT
    <3> QED  BY <3>1, <1>9
  <2>2. LengthStep(Unread(s2, R * R), Digit(v[3], TRUE)) =
          Unread(s3, (R * R) * R)
    <3>1. ~(R * R > Weight[3])  BY <1>3, <1>10, SMT
    <3> QED  BY <3>1, StepGoesOn
  <2>3. k > 2  BY <1>1, SMT
  <2> QED  BY <2>1, <2>2, <2>3, <1>13
<1> HIDE DEF s1, s2, s3
(* Behind it: the length.                                                  *)
<1>15. CASE k = 1
  <2>1. h[1] = LengthStep(Unread(0, 1), Digit(v[1], FALSE))
    <3>1. k - 1 = 0  BY <1>15, SMT
    <3> QED  BY <3>1, <1>8, <1>9, <1>15
  <2>2. h[1] = Ended(0 + v[1] * 1, 1 * R)
    <3>1. ~(1 > 1 /\ v[1] = 0)  BY SMT
    <3> QED  BY <2>1, <3>1, StepEnds
  <2>3. n = v[1] /\ 0 + v[1] * 1 = v[1]  BY <1>1, <1>5, <1>6, <1>15, SMT
  <2>4. h[k].acc = n /\ h[k].finished /\ ~h[k].bad
    BY <2>2, <2>3, <1>15 DEF Ended
  <2>5. 1 .. k - 1 = {}  BY <1>15, SMT
  <2> QED  BY <2>4, <2>5 DEF k
<1>16. CASE k = 2
  <2>1. k > 1 /\ k - 1 = 1 /\ 1 .. k - 1 = {1}  BY <1>16, SMT
  <2>2. h[2] = LengthStep(Unread(s1, R), Digit(v[2], FALSE))
    BY <2>1, <1>9, <1>12, <1>16
  <2>3. h[2] = Ended(s2, R * R)
    <3>1. ~(R > 1 /\ v[2] = 0)  BY <2>1, <1>11, <1>16
    <3> QED  BY <2>2, <3>1, StepEnds DEF s2
  <2>4. n = s2  BY <1>1, <1>3, <1>5, <1>16 DEF s1, s2
  <2>5. h[k].acc = n /\ h[k].finished /\ ~h[k].bad
    BY <2>3, <2>4, <1>16 DEF Ended
  <2>6. ~h[1].finished /\ ~h[1].bad  BY <2>1, <1>12 DEF Unread
  <2> QED  BY <2>1, <2>5, <2>6 DEF k
<1>17. CASE k = 3
  <2>1. k > 1 /\ k > 2 /\ k - 1 = 2 /\ 1 .. k - 1 = {1, 2}
    BY <1>17, SMT
  <2>2. h[3] = LengthStep(Unread(s2, R * R), Digit(v[3], FALSE))
    BY <2>1, <1>9, <1>13, <1>17
  <2>3. h[3] = Ended(s3, (R * R) * R)
    <3>1. ~(R * R > 1 /\ v[3] = 0)  BY <2>1, <1>11, <1>17
    <3> QED  BY <2>2, <3>1, StepEnds DEF s3
  <2>4. n = s3  BY <1>1, <1>3, <1>5, <1>17 DEF s1, s2, s3
  <2>5. h[k].acc = n /\ h[k].finished /\ ~h[k].bad
    BY <2>3, <2>4, <1>17 DEF Ended
  <2>6. ~h[1].finished /\ ~h[1].bad  BY <2>1, <1>12 DEF Unread
  <2>7. ~h[2].finished /\ ~h[2].bad  BY <2>1, <1>13 DEF Unread
  <2> QED  BY <2>1, <2>5, <2>6, <2>7 DEF k
<1>18. CASE k = 4
  <2>1. k > 1 /\ k > 2 /\ k > 3 /\ k - 1 = 3 /\ 1 .. k - 1 = {1, 2, 3}
    BY <1>18, SMT
  <2>2. h[4] = LengthStep(Unread(s3, R * R * R), Digit(v[4], FALSE))
    BY <2>1, <1>9, <1>14, <1>18
  <2>3. h[4] = Ended(s4, (R * R * R) * R)
    <3>1. ~(R * R * R > 1 /\ v[4] = 0)  BY <2>1, <1>11, <1>18
    <3> QED  BY <2>2, <3>1, StepEnds
  <2>4. n = s4  BY <1>1, <1>3, <1>5, <1>18 DEF s1, s2, s3
  <2>5. h[k].acc = n /\ h[k].finished /\ ~h[k].bad
    BY <2>3, <2>4, <1>18 DEF Ended
  <2>6. ~h[1].finished /\ ~h[1].bad  BY <2>1, <1>12 DEF Unread
  <2>7. ~h[2].finished /\ ~h[2].bad  BY <2>1, <1>13 DEF Unread
  <2>8. ~h[3].finished /\ ~h[3].bad  BY <2>1, <1>14 DEF Unread
  <2> QED  BY <2>1, <2>5, <2>6, <2>7, <2>8 DEF k
<1> QED  BY <1>1, <1>15, <1>16, <1>17, <1>18, SMT

(* THEOREM.  The remaining length that CONNECT announces is the number of  *)
(* bytes that the parts behind it have, whichever of the will, the user    *)
(* name and the password are empty: connect_calc_remaining_length counts   *)
(* what the encoders of the parts will leave out.                          *)
THEOREM ConnectLengthAgrees ==
  ASSUME NEW c \in [client_id : Nat, will_topic : Nat, will_message : Nat,
                    user_name : Nat, password : Nat]
  PROVE  ConnectLength(c) =
           ConnectParts(c)[1].size + ConnectParts(c)[2].size
             + ConnectParts(c)[3].size + ConnectParts(c)[4].size
             + ConnectParts(c)[5].size + ConnectParts(c)[6].size
<1>1. \A len \in Nat :
        FieldLength(len) = (IF len = 0 THEN 0 ELSE LenSize + len)
  BY SMT DEF FieldLength
<1>2. /\ ConnectParts(c)[1].size = ConnectHeaderSize
      /\ ConnectParts(c)[2].size = LenSize + c.client_id
      /\ ConnectParts(c)[3].size = FieldLength(c.will_topic)
      /\ ConnectParts(c)[4].size = FieldLength(c.will_message)
      /\ ConnectParts(c)[5].size = FieldLength(c.user_name)
      /\ ConnectParts(c)[6].size = FieldLength(c.password)
  BY <1>1 DEF ConnectParts, Part, Sized, Optional
<1>3. /\ \A len \in Nat : FieldLength(len) \in Nat
      /\ ConnectHeaderSize \in Nat /\ LenSize \in Nat
  BY SMT DEF FieldLength, LenSize, ConnectHeaderSize
<1> QED  BY <1>2, <1>3, SMT DEF ConnectLength

(* THEOREM.  The same of PUBLISH, with a packet id and without             *)
(* (publish_calc_remaining_length, tx_buffer_finder_publish).              *)
THEOREM PublishLengthAgrees ==
  ASSUME NEW p \in [kind : {"PUBLISH_0", "PUBLISH_1", "PUBLISH_2"},
                    topic : Nat, payload : Nat]
  PROVE  PublishLength(p) =
           PublishParts(p)[1].size + PublishParts(p)[2].size
             + (IF p.kind = "PUBLISH_0" THEN 0 ELSE PublishParts(p)[3].size)
<1>1. CASE p.kind = "PUBLISH_0"
  BY <1>1, SMT DEF PublishLength, PublishParts, Part, Sized, LenSize
<1>2. CASE p.kind # "PUBLISH_0"
  BY <1>2, SMT DEF PublishLength, PublishParts, Part, Sized, LenSize, IdSize
<1> QED  BY <1>1, <1>2

(* THEOREM.  A CONNECT that lmqtt_connect_validate accepts fits into the   *)
(* remaining length, with the radix and base of the code: the assertion in *)
(* encode_remaining_length cannot fail, although nothing compares the sum  *)
(* of the fields with it.                                                  *)
THEOREM ValidConnectFits ==
  ASSUME Radix = 128, Base = 256,
         NEW c \in [client_id : Nat, will_topic : Nat, will_message : Nat,
                    user_name : Nat, password : Nat, will_qos : Nat,
                    will_retain : BOOLEAN, clean_session : BOOLEAN],
         ConnectValid(c)
  PROVE  ConnectLength(c) \in Nat /\ ConnectLength(c) <= MaxRemaining
<1>1. MaxRemaining = 268435455
  BY SMT DEF MaxRemaining, Weight
<1>2. \A len \in Nat :
        FieldFits(len) => /\ len <= 65535
                          /\ FieldLength(len) \in Nat
                          /\ FieldLength(len) <= 65537
  BY SMT DEF FieldFits, FieldLength, LenSize
<1>3. /\ c.client_id \in Nat /\ c.will_topic \in Nat
      /\ c.will_message \in Nat /\ c.user_name \in Nat /\ c.password \in Nat
  OBVIOUS
<1>4. /\ FieldFits(c.client_id) /\ FieldFits(c.will_topic)
      /\ FieldFits(c.will_message) /\ FieldFits(c.user_name)
      /\ FieldFits(c.password)
  BY DEF ConnectValid
<1>5. /\ c.client_id <= 65535
      /\ FieldLength(c.will_topic) \in Nat
      /\ FieldLength(c.will_topic) <= 65537
      /\ FieldLength(c.will_message) \in Nat
      /\ FieldLength(c.will_message) <= 65537
      /\ FieldLength(c.user_name) \in Nat
      /\ FieldLength(c.user_name) <= 65537
      /\ FieldLength(c.password) \in Nat
      /\ FieldLength(c.password) <= 65537
  BY <1>2, <1>3, <1>4
<1> QED
  BY <1>1, <1>3, <1>5, SMT DEF ConnectLength, ConnectHeaderSize, LenSize
=============================================================================
