---------------------------- MODULE PrintfProofs ----------------------------
(***************************************************************************)
(* kprintf prints of every format what C prints of it, and vsprintf of     *)
(* every format that it has cases for (KprintfRight, VsprintfRight), for   *)
(* every size of char, short, int and long and every set of arguments.     *)
(*                                                                         *)
(* The invariant IInv says where both printers are in a format.  The       *)
(* locals of kprintf are those of a fresh call between conversions, and    *)
(* in one what its characters so far set, whatever was converted before.   *)
(* vsprintf has no case for a length: it is stuck in one, or it is in step *)
(* with the format.  No argument of a finished conversion is left unread,  *)
(* but for those of a conversion that vsprintf has no case for.            *)
(*                                                                         *)
(* The texts need more than the invariant.  The loop that stores the       *)
(* remainders of a division, and prints them backwards, prints the place   *)
(* values of the number (DigitsRight), padded as C pads (the sign before   *)
(* zeros and after spaces); a word that is converted to a type of another  *)
(* size keeps its value as far as KprintfTells says (KprintfValue); and    *)
(* the decimals of a double are cut off one at a time (FloatPrinted).      *)
(***************************************************************************)
EXTENDS Printf, FiniteSetTheorems, SequenceTheorems, WellFoundedInduction, TLAPS

(* A set of numbers that is not empty has a least one.                     *)
LEMMA LeastNumber ==
    ASSUME NEW S \in SUBSET Nat, S # {}
    PROVE  \E n \in S : \A e \in S : n <= e
  <1>1. IsWellFoundedOn(OpToRel(<, Nat), Nat)
    BY NatLessThanWellFounded
  <1>2. PICK n \in S : \A e \in S : <<e, n>> \notin OpToRel(<, Nat)
    BY <1>1, WFMin
  <1>3. ASSUME NEW e \in S PROVE ~(e < n)
    <2>1. <<e, n>> \notin OpToRel(<, Nat)
      BY <1>2, Zenon
    <2> QED BY <2>1, Zenon DEF OpToRel
  <1>4. \A e \in S : n <= e
    BY <1>3, SMT
  <1> QED BY <1>4, Zenon

-----------------------------------------------------------------------------
(*----------------------- quotients and remainders ------------------------*)

(* A quotient and its remainder.                                           *)
LEMMA DivMod ==
    ASSUME NEW d \in Nat \ {0}, NEW x \in Nat
    PROVE  x \div d \in Nat /\ x % d \in Nat /\ x % d < d /\ x = d * (x \div d) + (x % d)
  <1>1. x \div d \in Nat /\ x % d \in Nat /\ x % d < d
    OBVIOUS
  <1>2. x = d * (x \div d) + (x % d)
    OBVIOUS
  <1> QED BY <1>1, <1>2

(* A number has one quotient and one remainder.                            *)
LEMMA DivUnique ==
    ASSUME NEW b \in Nat \ {0}, NEW q \in Nat, NEW r \in Nat, r < b
    PROVE  (b * q + r) \div b = q /\ (b * q + r) % b = r
  OBVIOUS

(* To divide by a product is to divide by the one and then by the other.   *)
LEMMA DivDiv ==
    ASSUME NEW x \in Nat, NEW a \in Nat \ {0}, NEW b \in Nat \ {0}
    PROVE  x \div (a * b) = (x \div a) \div b
  <1> DEFINE y == x \div a
             s == x % a
             q == y \div b
             t == y % b
             r == a * t + s
  <1>1. y \in Nat /\ s \in Nat /\ s < a /\ x = a * y + s
    BY DivMod
  <1>2. q \in Nat /\ t \in Nat /\ t < b /\ y = b * q + t
    BY <1>1, DivMod
  <1>3. a * b \in Nat \ {0} /\ a * t \in Nat /\ b * q \in Nat
    BY <1>2
  <1> HIDE DEF y, s, q, t
  <1>4. a * (b * q + t) = (a * b) * q + a * t
    BY <1>2
  <1>5. x = (a * b) * q + r
    <2>1. (a * b) * q \in Nat
      BY <1>2, <1>3
    <2> QED BY <1>1, <1>2, <1>3, <1>4, <2>1
  <1>6. r \in Nat /\ r < a * b
    <2>1. a * (t + 1) <= a * b
      BY <1>2
    <2>2. a * (t + 1) = a * t + a
      BY <1>2
    <2> QED BY <1>1, <1>3, <2>1, <2>2
  <1> HIDE DEF r
  <1>7. ((a * b) * q + r) \div (a * b) = q
    BY <1>2, <1>3, <1>6, DivUnique
  <1> QED BY <1>5, <1>7 DEF q, y

(* A common factor does not matter.                                        *)
LEMMA DivCancel ==
    ASSUME NEW x \in Nat, NEW u \in Nat \ {0}, NEW m \in Nat \ {0}
    PROVE  ((x * m) \div u) \div m = x \div u
  <1>1. x * m \in Nat /\ x * m = m * x + 0
    OBVIOUS
  <1>2. (x * m) \div m = x
    BY <1>1, DivUnique
  <1>3. (x * m) \div (u * m) = ((x * m) \div u) \div m
    BY <1>1, DivDiv
  <1>4. (x * m) \div (m * u) = ((x * m) \div m) \div u
    BY <1>1, DivDiv
  <1>5. u * m = m * u
    OBVIOUS
  <1> QED BY <1>2, <1>3, <1>4, <1>5

(* Numbers below the divisor, and their complements.                       *)
LEMMA SmallMod ==
    ASSUME NEW m \in Nat \ {0}, NEW x \in 0..(m - 1)
    PROVE  x % m = x /\ (x - m) % m = x
  <1>1. x % m = x
    OBVIOUS
  <1>2. (x - m) % m = x
    OBVIOUS
  <1> QED BY <1>1, <1>2

(* A divisor of a number that is not 0 is not greater.                     *)
LEMMA DivisorBelow ==
    ASSUME NEW d \in Nat \ {0}, NEW x \in Nat \ {0}, x % d = 0
    PROVE  d <= x
  <1>1. ASSUME x < d PROVE FALSE
    BY <1>1, SmallMod
  <1> QED BY <1>1

-----------------------------------------------------------------------------
(*------------------------------- powers ----------------------------------*)

(* The table of powers that Power looks into: a recursive function, of     *)
(* which it takes some proof that there is one.                            *)
PowerAt(b, p, i)  == IF i = 0 THEN 1 ELSE b * p[i - 1]
Powers(b, n, p)   == p = [i \in 0..n |-> PowerAt(b, p, i)]

(* There is a table of powers, however long.                               *)
LEMMA PowersExist ==
    ASSUME NEW b, NEW n \in Nat
    PROVE  \E p : Powers(b, n, p)
  <1> DEFINE Bad == {i \in Nat : ~\E p : Powers(b, i, p)}
  <1>1. Bad = {}
    <2> SUFFICES ASSUME Bad # {} PROVE FALSE
      OBVIOUS
    <2>1. PICK i \in Bad : \A e \in Bad : i <= e
      BY LeastNumber
    <2>2. i \in Nat
      BY <2>1
    <2>3. CASE i = 0
      <3> DEFINE p == [e \in 0..0 |-> 1]
      <3>1. p = [e \in 0..0 |-> PowerAt(b, p, e)]
        BY DEF PowerAt
      <3> QED BY <2>1, <2>3, <3>1 DEF Powers
    <2>4. CASE i # 0
      <3>1. i - 1 \in Nat /\ i - 1 \notin Bad
        <4> HIDE DEF Bad
        <4> QED BY <2>1, <2>2, <2>4
      <3>2. PICK q : Powers(b, i - 1, q)
        BY <3>1
      <3> DEFINE p == [e \in 0..i |-> PowerAt(b, q, e)]
      <3>3. \A e \in 0..(i - 1) : p[e] = q[e]
        BY <2>2, <3>2 DEF Powers
      <3>4. \A e \in 0..i : PowerAt(b, q, e) = PowerAt(b, p, e)
        <4> TAKE e \in 0..i
        <4>1. e # 0 => e - 1 \in 0..(i - 1)
          BY <2>2
        <4> HIDE DEF p
        <4> QED BY <3>3, <4>1 DEF PowerAt
      <3>5. Powers(b, i, p)
        BY <3>4, Zenon DEF Powers
      <3> QED BY <2>1, <3>5
    <2> QED BY <2>3, <2>4
  <1> QED BY <1>1

(* Two of them agree as far as both go.                                    *)
LEMMA PowersAgree ==
    ASSUME NEW b, NEW m \in Nat, NEW n \in Nat, NEW p, NEW q, Powers(b, m, p), Powers(b, n, q),
           NEW i \in Nat, i <= m, i <= n
    PROVE  p[i] = q[i]
  <1> DEFINE Bad == {e \in Nat : e <= m /\ e <= n /\ p[e] # q[e]}
  <1>1. ASSUME Bad # {} PROVE FALSE
    <2>1. PICK e \in Bad : \A j \in Bad : e <= j
      BY <1>1, LeastNumber
    <2>2. e \in Nat /\ e <= m /\ e <= n /\ p[e] # q[e]
      BY <2>1
    <2>3. p[e] = PowerAt(b, p, e) /\ q[e] = PowerAt(b, q, e)
      <3>1. e \in 0..m /\ e \in 0..n
        BY <2>2
      <3> QED BY <3>1 DEF Powers
    <2>4. e # 0 => p[e - 1] = q[e - 1]
      <3>1. ASSUME e # 0 PROVE e - 1 \in Nat /\ e - 1 <= m /\ e - 1 <= n /\ e - 1 \notin Bad
        <4>1. e - 1 \in Nat /\ e - 1 <= m /\ e - 1 <= n /\ ~(e <= e - 1)
          BY <2>2, <3>1
        <4> HIDE DEF Bad
        <4> QED BY <2>1, <4>1
      <3> QED BY <3>1
    <2> QED BY <2>2, <2>3, <2>4 DEF PowerAt
  <1> QED BY <1>1

(* Power looks into one.                                                   *)
LEMMA PowerIs ==
    ASSUME NEW b, NEW n \in Nat
    PROVE  \E p : Powers(b, n, p) /\ Power(b, n) = p[n]
  <1> DEFINE P == CHOOSE p : Powers(b, n, p)
  <1>1. Powers(b, n, P)
    BY PowersExist
  <1>2. Power(b, n) = P[n]
    BY Zenon DEF Power, Powers, PowerAt
  <1> QED BY <1>1, <1>2

(* The recursion of a power.                                               *)
LEMMA PowerOf ==
    ASSUME NEW b
    PROVE  Power(b, 0) = 1 /\ \A n \in Nat : Power(b, n + 1) = b * Power(b, n)
  <1>1. Power(b, 0) = 1
    <2>1. PICK p : Powers(b, 0, p) /\ Power(b, 0) = p[0]
      BY PowerIs
    <2> QED BY <2>1 DEF Powers, PowerAt
  <1>2. ASSUME NEW n \in Nat PROVE Power(b, n + 1) = b * Power(b, n)
    <2>1. PICK p : Powers(b, n, p) /\ Power(b, n) = p[n]
      BY PowerIs
    <2>2. PICK q : Powers(b, n + 1, q) /\ Power(b, n + 1) = q[n + 1]
      BY PowerIs
    <2>3. q[n + 1] = PowerAt(b, q, n + 1)
      BY <2>2 DEF Powers
    <2>4. q[n + 1] = b * q[n]
      BY <2>3 DEF PowerAt
    <2>5. p[n] = q[n]
      BY <2>1, <2>2, PowersAgree
    <2> QED BY <2>1, <2>2, <2>4, <2>5
  <1> QED BY <1>1, <1>2

(* The powers of a positive number are positive.                           *)
LEMMA PowerNat ==
    ASSUME NEW b \in Nat \ {0}, NEW n \in Nat
    PROVE  Power(b, n) \in Nat \ {0}
  <1> DEFINE Bad == {e \in Nat : Power(b, e) \notin Nat \ {0}}
  <1>1. ASSUME Bad # {} PROVE FALSE
    <2>1. PICK e \in Bad : \A j \in Bad : e <= j
      BY <1>1, LeastNumber
    <2>2. e # 0
      BY <2>1, PowerOf
    <2>3. e - 1 \in Nat /\ e - 1 \notin Bad
      <3>1. e - 1 \in Nat /\ ~(e <= e - 1)
        BY <2>1, <2>2
      <3> HIDE DEF Bad
      <3> QED BY <2>1, <3>1
    <2>4. Power(b, e - 1) \in Nat \ {0}
      BY <2>3
    <2>5. Power(b, (e - 1) + 1) = b * Power(b, e - 1) /\ (e - 1) + 1 = e
      BY <2>1, <2>3, PowerOf
    <2>6. b * Power(b, e - 1) \in Nat \ {0}
      BY <2>4
    <2> QED BY <2>1, <2>5, <2>6
  <1> QED BY <1>1

(* They do not get smaller.                                                *)
LEMMA PowerGrows ==
    ASSUME NEW b \in Nat \ {0}, NEW m \in Nat, NEW n \in Nat, m <= n
    PROVE  Power(b, m) <= Power(b, n)
  <1> DEFINE Bad == {e \in Nat : m <= e /\ Power(b, m) > Power(b, e)}
  <1>1. ASSUME Bad # {} PROVE FALSE
    <2>1. PICK e \in Bad : \A j \in Bad : e <= j
      BY <1>1, LeastNumber
    <2>2. e \in Nat /\ m <= e /\ Power(b, m) > Power(b, e)
      BY <2>1
    <2>3. e # m
      BY <2>2, PowerNat
    <2>4. e - 1 \in Nat /\ m <= e - 1 /\ e - 1 \notin Bad
      <3>1. e - 1 \in Nat /\ m <= e - 1 /\ ~(e <= e - 1)
        BY <2>2, <2>3
      <3> HIDE DEF Bad
      <3> QED BY <2>1, <3>1
    <2>5. Power(b, (e - 1) + 1) = b * Power(b, e - 1) /\ (e - 1) + 1 = e
      <3>1. \A j \in Nat : Power(b, j + 1) = b * Power(b, j)
        BY PowerOf
      <3>2. Power(b, (e - 1) + 1) = b * Power(b, e - 1)
        BY <2>4, <3>1, Zenon
      <3>3. (e - 1) + 1 = e
        BY <2>2
      <3> QED BY <3>2, <3>3
    <2>6. Power(b, m) \in Nat /\ Power(b, e - 1) \in Nat
      BY <2>4, PowerNat
    <2>7. ~(Power(b, m) > Power(b, e - 1))
      BY <2>4
    <2>8. Power(b, e - 1) <= b * Power(b, e - 1)
      BY <2>6
    <2>9. Power(b, e) \in Nat
      BY <2>2, PowerNat
    <2> QED BY <2>2, <2>5, <2>6, <2>7, <2>8, <2>9
  <1>2. Power(b, m) \in Nat /\ Power(b, n) \in Nat
    BY PowerNat
  <1> QED BY <1>1, <1>2

(* The powers of a sum of exponents.                                       *)
LEMMA PowerSum ==
    ASSUME NEW b \in Nat \ {0}, NEW m \in Nat, NEW n \in Nat
    PROVE  Power(b, m + n) = Power(b, m) * Power(b, n)
  <1> DEFINE Bad == {e \in Nat : Power(b, m + e) # Power(b, m) * Power(b, e)}
  <1>1. ASSUME Bad # {} PROVE FALSE
    <2>1. PICK e \in Bad : \A j \in Bad : e <= j
      BY <1>1, LeastNumber
    <2>2. e # 0
      <3>1. Power(b, 0) = 1 /\ m + 0 = m /\ Power(b, m) \in Nat
        BY PowerOf, PowerNat
      <3> QED BY <2>1, <3>1
    <2>3. e - 1 \in Nat /\ e - 1 \notin Bad
      <3>1. e - 1 \in Nat /\ ~(e <= e - 1)
        BY <2>1, <2>2
      <3> HIDE DEF Bad
      <3> QED BY <2>1, <3>1
    <2>4. Power(b, m + (e - 1)) = Power(b, m) * Power(b, e - 1)
      BY <2>3
    <2>5. /\ Power(b, (e - 1) + 1) = b * Power(b, e - 1) /\ (e - 1) + 1 = e
          /\ Power(b, (m + (e - 1)) + 1) = b * Power(b, m + (e - 1)) /\ (m + (e - 1)) + 1 = m + e
      <3>1. \A j \in Nat : Power(b, j + 1) = b * Power(b, j)
        BY PowerOf
      <3>2. e \in Nat
        BY <2>1
      <3> HIDE DEF Bad
      <3>3. m + (e - 1) \in Nat /\ (e - 1) + 1 = e /\ (m + (e - 1)) + 1 = m + e
        BY <2>3, <3>2
      <3>4. /\ Power(b, (e - 1) + 1) = b * Power(b, e - 1)
            /\ Power(b, (m + (e - 1)) + 1) = b * Power(b, m + (e - 1))
        BY <2>3, <3>1, <3>3, Zenon
      <3> QED BY <3>3, <3>4
    <2> DEFINE x == Power(b, m)
               y == Power(b, e - 1)
    <2>6. x \in Nat /\ y \in Nat
      BY <2>3, PowerNat
    <2>7. Power(b, m + e) = b * (x * y) /\ Power(b, e) = b * y
      BY <2>4, <2>5
    <2> HIDE DEF x, y
    <2>8. b * (x * y) = x * (b * y)
      BY <2>6
    <2> QED BY <2>1, <2>7, <2>8 DEF x
  <1> QED BY <1>1

-----------------------------------------------------------------------------
(*------------------------------- digits ----------------------------------*)

(* The radices of octal, decimal and hexadecimal numbers.                  *)
Radices == {8, 10, 16}

(* The digits of the numbers up to n, each from those of its quotient.     *)
LowAt(r, u, f, i)  == <<hexChars(u)[(i % r) + 1]>> \o (IF i < r THEN <<>> ELSE f[i \div r])
Lows(r, u, n, f)   == f = [i \in 0..n |-> LowAt(r, u, f, i)]

(* What is left of a number without its last digit is smaller.             *)
LEMMA QuotientBelow ==
    ASSUME NEW r \in Radices, NEW i \in Nat, i >= r
    PROVE  i \div r \in Nat /\ i \div r <= i - 1 /\ i \div r >= 1 /\ i >= 1
  BY DEF Radices

(* There is a table of digits, however long.                               *)
LEMMA LowsExist ==
    ASSUME NEW r \in Radices, NEW u, NEW n \in Nat
    PROVE  \E f : Lows(r, u, n, f)
  <1> DEFINE Bad == {i \in Nat : ~\E f : Lows(r, u, i, f)}
  <1>1. Bad = {}
    <2> SUFFICES ASSUME Bad # {} PROVE FALSE
      OBVIOUS
    <2>1. PICK i \in Bad : \A e \in Bad : i <= e
      BY LeastNumber
    <2>2. i \in Nat
      BY <2>1
    <2>3. CASE i = 0
      <3> DEFINE f == [e \in 0..0 |-> LowAt(r, u, <<>>, e)]
      <3>1. \A e \in 0..0 : LowAt(r, u, <<>>, e) = LowAt(r, u, f, e)
        BY DEF LowAt, Radices
      <3>2. Lows(r, u, 0, f)
        BY <3>1, Zenon DEF Lows
      <3> QED BY <2>1, <2>3, <3>2
    <2>4. CASE i # 0
      <3>1. i - 1 \in Nat /\ i - 1 \notin Bad
        <4> HIDE DEF Bad
        <4> QED BY <2>1, <2>2, <2>4
      <3>2. PICK q : Lows(r, u, i - 1, q)
        BY <3>1
      <3> DEFINE f == [e \in 0..i |-> LowAt(r, u, q, e)]
      <3>3. \A e \in 0..(i - 1) : f[e] = q[e]
        <4> TAKE e \in 0..(i - 1)
        <4>1. e \in 0..i
          BY <2>2
        <4>2. q[e] = LowAt(r, u, q, e)
          BY <3>2 DEF Lows
        <4> QED BY <4>1, <4>2
      <3>4. \A e \in 0..i : LowAt(r, u, q, e) = LowAt(r, u, f, e)
        <4> TAKE e \in 0..i
        <4>1. e >= r => e \div r \in 0..(i - 1)
          BY <2>2, QuotientBelow
        <4>2. ~(e < r) => e >= r
          BY <2>2 DEF Radices
        <4> HIDE DEF f
        <4>3. ~(e < r) => q[e \div r] = f[e \div r]
          BY <3>3, <4>1, <4>2
        <4> QED BY <4>3, Zenon DEF LowAt
      <3>5. Lows(r, u, i, f)
        BY <3>4, Zenon DEF Lows
      <3> QED BY <2>1, <3>5
    <2> QED BY <2>3, <2>4
  <1> QED BY <1>1

(* The buffer of the printers is an entry of one.                          *)
LEMMA BufferIs ==
    ASSUME NEW r \in Radices, NEW u, NEW n \in Nat
    PROVE  \E f : Lows(r, u, n, f) /\ buffer(n, r, u) = f[n]
  <1> DEFINE F == CHOOSE f : Lows(r, u, n, f)
  <1>1. Lows(r, u, n, F)
    BY LowsExist
  <1>2. buffer(n, r, u) = F[n]
    BY Zenon DEF buffer, Lows, LowAt
  <1> QED BY <1>1, <1>2

(* The places of a number.                                                 *)
HasPlaces(n, r, l) == n < Power(r, l) /\ (l > 1 => n >= Power(r, l - 1))

(* A number has one number of places.                                      *)
LEMMA OnePlaceCount ==
    ASSUME NEW r \in Radices, NEW n \in Nat, NEW l \in Nat \ {0}, NEW m \in Nat \ {0},
           HasPlaces(n, r, l), HasPlaces(n, r, m)
    PROVE  l = m
  <1>1. ASSUME NEW a \in Nat \ {0}, NEW b \in Nat, a < b, HasPlaces(n, r, a), HasPlaces(n, r, b) PROVE FALSE
    <2>1. r \in Nat \ {0} /\ b - 1 \in Nat /\ a <= b - 1 /\ b > 1
      BY <1>1 DEF Radices
    <2>2. Power(r, a) <= Power(r, b - 1) /\ Power(r, a) \in Nat /\ Power(r, b - 1) \in Nat
      BY <2>1, PowerGrows, PowerNat
    <2>3. n < Power(r, a) /\ n >= Power(r, b - 1)
      BY <1>1, <2>1 DEF HasPlaces
    <2> QED BY <2>2, <2>3
  <1> QED BY <1>1

(* What a printer stores of a number: as many digits as it has places, the *)
(* lowest first.                                                           *)
DigitsOf(n, r, u, s) ==
    /\ Len(s) \in 1..(n + 1) /\ HasPlaces(n, r, Len(s))
    /\ s = [i \in 1..Len(s) |-> hexChars(u)[((n \div Power(r, i - 1)) % r) + 1]]

(* The table has the digits of every number in it.                         *)
LEMMA LowsAre ==
    ASSUME NEW r \in Radices, NEW u, NEW n \in Nat, NEW f, Lows(r, u, n, f), NEW m \in 0..n
    PROVE  DigitsOf(m, r, u, f[m])
  <1> DEFINE Bad == {e \in Nat : e <= n /\ ~DigitsOf(e, r, u, f[e])}
             c(e) == hexChars(u)[(e % r) + 1]
  <1>1. ASSUME Bad # {} PROVE FALSE
    <2>1. PICK e \in Bad : \A j \in Bad : e <= j
      BY <1>1, LeastNumber
    <2>2. e \in Nat /\ e <= n /\ ~DigitsOf(e, r, u, f[e])
      BY <2>1
    <2>3. f[e] = LowAt(r, u, f, e)
      BY <2>2 DEF Lows
    <2>4. r \in Nat \ {0} /\ Power(r, 0) = 1 /\ Power(r, 1) = r
      <3>1. r \in Nat \ {0} /\ Power(r, 0) = 1 /\ Power(r, 0 + 1) = r * Power(r, 0)
        BY PowerOf DEF Radices
      <3> QED BY <3>1
    <2>5. CASE e < r
      <3>1. f[e] = <<c(e)>>
        BY <2>3, <2>5 DEF LowAt
      <3>2. e \div Power(r, 0) = e
        BY <2>2, <2>4
      <3> HIDE DEF c
      <3>3. Len(f[e]) = 1 /\ f[e] = [i \in 1..1 |-> c(e)]
        BY <3>1
      <3>4. HasPlaces(e, r, 1) /\ 1 \in 1..(e + 1)
        BY <2>2, <2>4, <2>5 DEF HasPlaces
      <3>5. f[e] = [i \in 1..1 |-> hexChars(u)[((e \div Power(r, i - 1)) % r) + 1]]
        <4>1. \A i \in 1..1 : i - 1 = 0
          OBVIOUS
        <4>2. \A i \in 1..1 : c(e) = hexChars(u)[((e \div Power(r, i - 1)) % r) + 1]
          BY <3>2, <4>1 DEF c
        <4> QED BY <3>3, <4>2, Zenon
      <3> QED BY <2>2, <3>3, <3>4, <3>5 DEF DigitsOf
    <2>6. CASE ~(e < r)
      <3> DEFINE a == e \div r
                 s == f[a]
                 h == Len(s)
      <3>1. a \in Nat /\ a <= e - 1 /\ a >= 1 /\ a \notin Bad
        <4>1. e >= r
          BY <2>2, <2>4, <2>6
        <4>2. a \in Nat /\ a <= e - 1 /\ a >= 1 /\ ~(e <= a)
          BY <2>2, <4>1, QuotientBelow
        <4> HIDE DEF Bad, a
        <4> QED BY <2>1, <4>2
      <3>2. DigitsOf(a, r, u, s)
        BY <2>2, <3>1
      <3>3. f[e] = <<c(e)>> \o s
        BY <2>3, <2>6 DEF LowAt
      <3>4. e = r * a + (e % r) /\ e % r \in Nat /\ e % r < r
        BY <2>2, <2>4, DivMod
      <3>5. h \in 1..(a + 1) /\ HasPlaces(a, r, h)
        BY <3>2 DEF DigitsOf
      <3>6. s = [i \in 1..h |-> hexChars(u)[((a \div Power(r, i - 1)) % r) + 1]]
        BY <3>2 DEF DigitsOf
      <3>7. \A i \in 1..h : a \div Power(r, i - 1) = e \div Power(r, i)
        <4> TAKE i \in 1..h
        <4>1. i - 1 \in Nat /\ (i - 1) + 1 = i
          BY <3>1, <3>5
        <4>2. Power(r, i) = r * Power(r, i - 1) /\ Power(r, i - 1) \in Nat \ {0}
          BY <2>4, <4>1, PowerOf, PowerNat
        <4> DEFINE y == Power(r, i - 1)
        <4> HIDE DEF y
        <4>3. y \in Nat \ {0} /\ Power(r, i) = r * y
          BY <4>2 DEF y
        <4>4. e \div (r * y) = (e \div r) \div y
          BY <2>2, <2>4, <4>3, DivDiv
        <4> QED BY <4>3, <4>4 DEF y
      <3> HIDE DEF a, h, s, c
      <3>8. h \in Nat \ {0} /\ h + 1 \in 1..(e + 1)
        BY <2>2, <3>1, <3>5
      <3>9. HasPlaces(e, r, h + 1)
        <4>1. a < Power(r, h) /\ Power(r, h) \in Nat /\ Power(r, h + 1) = r * Power(r, h)
          BY <2>4, <3>5, <3>8, PowerOf, PowerNat DEF HasPlaces
        <4>2. e < Power(r, h + 1)
          <5> DEFINE x == Power(r, h)
          <5>1. a + 1 <= x /\ x \in Nat
            BY <3>1, <4>1
          <5> HIDE DEF x
          <5>2. r * (a + 1) <= r * x /\ r * (a + 1) = r * a + r
            BY <2>4, <3>1, <5>1
          <5>3. r * x \in Nat /\ r * a \in Nat
            BY <2>4, <3>1, <5>1
          <5> DEFINE z == r * x
                     w == r * a
                     q == e % r
          <5>4. e = w + q /\ q \in Nat /\ q < r /\ w + r <= z
            BY <3>4, <5>2
          <5>5. w \in Nat /\ z \in Nat /\ Power(r, h + 1) = z
            BY <4>1, <5>3 DEF x
          <5> HIDE DEF z, w, q
          <5>6. e < z
            BY <2>4, <5>4, <5>5
          <5> QED BY <5>5, <5>6
        <4>3. e >= Power(r, h)
          <5>1. a >= Power(r, h - 1) /\ Power(r, h - 1) \in Nat
            <6>1. CASE h > 1
              BY <2>4, <3>5, <3>8, <6>1, PowerNat DEF HasPlaces
            <6>2. CASE ~(h > 1)
              <7>1. h - 1 = 0
                BY <3>8, <6>2
              <7> QED BY <2>4, <3>1, <7>1
            <6> QED BY <6>1, <6>2
          <5>2. h - 1 \in Nat /\ (h - 1) + 1 = h
            BY <3>8
          <5>3. Power(r, h) = r * Power(r, h - 1)
            BY <5>2, PowerOf
          <5> DEFINE y == Power(r, h - 1)
          <5> HIDE DEF y
          <5>4. r * y <= r * a /\ r * y \in Nat /\ r * a \in Nat
            BY <2>4, <3>1, <5>1 DEF y
          <5> QED BY <2>2, <3>4, <5>3, <5>4 DEF y
        <4>4. (h + 1) - 1 = h
          BY <3>8
        <4> QED BY <4>2, <4>3, <4>4 DEF HasPlaces
      <3> DEFINE t == [i \in 1..(h + 1) |-> hexChars(u)[((e \div Power(r, i - 1)) % r) + 1]]
      <3>10. f[e] = t
        <4> DEFINE d(i) == hexChars(u)[((e \div Power(r, i)) % r) + 1]
        <4>1. s = [i \in 1..h |-> d(i)]
          BY <3>6, <3>7
        <4>2. t = [i \in 1..(h + 1) |-> d(i - 1)]
          OBVIOUS
        <4>3. c(e) = d(0)
          <5>1. e \div Power(r, 0) = e
            BY <2>2, <2>4
          <5> QED BY <5>1 DEF c
        <4> HIDE DEF d, t
        <4>4. <<d(0)>> \o s = [i \in 1..(h + 1) |-> d(i - 1)]
          BY <3>8, <4>1
        <4> QED BY <3>3, <4>2, <4>3, <4>4
      <3>11. Len(f[e]) = h + 1
        <4> HIDE DEF t
        <4>1. Len(t) = h + 1
          BY <3>8 DEF t
        <4> QED BY <3>10, <4>1
      <3>12. DigitsOf(e, r, u, f[e])
        <4> USE DEF t
        <4> QED BY <3>8, <3>9, <3>10, <3>11 DEF DigitsOf
      <3> QED BY <2>2, <3>12
    <2> QED BY <2>5, <2>6
  <1> QED BY <1>1

(* What the printers store is the numeral backwards.                       *)
LEMMA DigitsRight ==
    ASSUME NEW r \in Radices, NEW u, NEW n \in Nat
    PROVE  /\ DigitsOf(n, r, u, buffer(n, r, u))
           /\ Reverse(buffer(n, r, u)) = Numeral(n, r, u)
           /\ Len(Numeral(n, r, u)) = Len(buffer(n, r, u))
  <1> DEFINE s == buffer(n, r, u)
             h == Len(s)
             p == CHOOSE l \in 1..(n + 1) : HasPlaces(n, r, l)
  <1>1. DigitsOf(n, r, u, s)
    <2>1. PICK f : Lows(r, u, n, f) /\ s = f[n]
      BY BufferIs
    <2> QED BY <2>1, LowsAre
  <1> HIDE DEF s
  <1>2. h \in 1..(n + 1) /\ HasPlaces(n, r, h)
    BY <1>1 DEF DigitsOf
  <1>3. p = h
    <2>1. p \in 1..(n + 1) /\ HasPlaces(n, r, p)
      BY <1>2
    <2> HIDE DEF p, h
    <2> QED BY <1>2, <2>1, OnePlaceCount
  <1>4. Numeral(n, r, u) = [i \in 1..p |-> hexChars(u)[((n \div Power(r, p - i)) % r) + 1]]
    BY DEF Numeral, HasPlaces
  <1>5. s = [i \in 1..h |-> hexChars(u)[((n \div Power(r, i - 1)) % r) + 1]]
    BY <1>1 DEF DigitsOf
  <1> DEFINE t == [i \in 1..h |-> s[(h - i) + 1]]
  <1>6. Reverse(s) = t
    BY DEF Reverse
  <1> HIDE DEF h, p
  <1>7. ASSUME NEW i \in 1..h PROVE s[(h - i) + 1] = hexChars(u)[((n \div Power(r, h - i)) % r) + 1]
    <2>1. (h - i) + 1 \in 1..h /\ ((h - i) + 1) - 1 = h - i
      BY <1>2
    <2> QED BY <1>5, <2>1
  <1>8. t = Numeral(n, r, u)
    BY <1>3, <1>4, <1>7
  <1>9. Len(t) = h
    BY <1>2
  <1> QED BY <1>1, <1>6, <1>8, <1>9 DEF s, h

-----------------------------------------------------------------------------
(*--------------------------- printed numbers -----------------------------*)

(* A number, padded to a width.                                            *)
Spelled(n, r, u, width, flagged) ==
    LET sign   == IF n < 0 THEN <<"-">> ELSE <<>>
        digits == Numeral(IF n < 0 THEN -n ELSE n, r, u)
        gap    == width - Len(sign) - Len(digits)
    IN  IF flagged THEN sign \o times("0", gap) \o digits
        ELSE times(SPACE, gap) \o sign \o digits

(* A space is no zero.                                                     *)
LEMMA SpaceApart == SPACE # "0"
  BY Zenon DEF SPACE

(* The characters that a printed number consists of.                       *)
Glyphs(u) == {hexChars(u)[i] : i \in 1..16} \cup {"-", SPACE, "0"}

(* Some padding is a text, an empty one where nothing is to be padded.     *)
LEMMA TimesSeq ==
    ASSUME NEW S, NEW ch \in S, NEW n \in Int
    PROVE  times(ch, n) \in Seq(S) /\ (n <= 0 => times(ch, n) = <<>>)
  <1>1. CASE n <= 0
    <2>1. 1..n = {}
      BY <1>1
    <2>2. times(ch, n) = <<>>
      BY <2>1 DEF times
    <2> QED BY <2>2
  <1>2. CASE n > 0
    <2>1. n \in Nat /\ times(ch, n) \in [1..n -> S]
      BY <1>2 DEF times
    <2> QED BY <1>2, <2>1
  <1> QED BY <1>1, <1>2

(* A numeral is a text of its glyphs.                                      *)
LEMMA NumeralSeq ==
    ASSUME NEW r \in Radices, NEW u, NEW n \in Nat
    PROVE  Numeral(n, r, u) \in Seq(Glyphs(u))
  <1> DEFINE s == buffer(n, r, u)
             h == Len(s)
  <1>1. DigitsOf(n, r, u, s) /\ Reverse(s) = Numeral(n, r, u)
    BY DigitsRight
  <1> HIDE DEF s
  <1>2. h \in Nat /\ s = [i \in 1..h |-> hexChars(u)[((n \div Power(r, i - 1)) % r) + 1]]
    BY <1>1 DEF DigitsOf
  <1>3. \A i \in 1..h : s[i] \in Glyphs(u)
    <2> TAKE i \in 1..h
    <2> DEFINE x == n \div Power(r, i - 1)
    <2>1. i - 1 \in Nat /\ r \in Nat \ {0}
      BY <1>2 DEF Radices
    <2>2. Power(r, i - 1) \in Nat \ {0}
      BY <2>1, PowerNat
    <2>3. x \in Nat
      BY <2>2, DivMod
    <2>4. s[i] = hexChars(u)[(x % r) + 1]
      BY <1>2
    <2> HIDE DEF x
    <2>5. (x % r) + 1 \in 1..16
      BY <2>3 DEF Radices
    <2> QED BY <2>4, <2>5 DEF Glyphs
  <1> DEFINE t == [i \in 1..h |-> s[(h - i) + 1]]
  <1>4. Reverse(s) = t
    BY DEF Reverse
  <1> HIDE DEF h
  <1>5. \A i \in 1..h : t[i] \in Glyphs(u)
    <2> TAKE i \in 1..h
    <2>1. (h - i) + 1 \in 1..h
      BY <1>2
    <2> QED BY <1>3, <2>1
  <1> HIDE DEF t
  <1>6. t \in [1..h -> Glyphs(u)]
    BY <1>5 DEF t
  <1> QED BY <1>1, <1>2, <1>4, <1>6

(* What both printers print of a number that is not negative.              *)
LEMMA UnsignedPrinted ==
    ASSUME NEW r \in Radices, NEW u, NEW n \in Nat, NEW width \in Int, NEW pad \in {SPACE, "0"}
    PROVE  /\ printf_unsigned(n, r, width, pad, u) = times(pad, width - Len(Numeral(n, r, u))) \o Numeral(n, r, u)
           /\ sprintf_unsigned(n, r, width, pad, u) = printf_unsigned(n, r, width, pad, u)
  BY DigitsRight, Zenon DEF printf_unsigned, sprintf_unsigned

(* A numeral has a length.                                                 *)
LEMMA NumeralLen ==
    ASSUME NEW r \in Radices, NEW u, NEW n \in Nat
    PROVE  Len(Numeral(n, r, u)) \in Nat
  BY DigitsRight DEF DigitsOf

(* printf_unsigned prints a number padded to its width.                    *)
LEMMA UnsignedSpelled ==
    ASSUME NEW r \in Radices, NEW u, NEW n \in Nat, NEW width \in Nat, NEW pad \in {SPACE, "0"}
    PROVE  printf_unsigned(n, r, width, pad, u) = Spelled(n, r, u, width, pad = "0")
  <1> DEFINE D == Numeral(n, r, u)
             g == width - Len(D)
             T == times(pad, g)
  <1>0. width \in Int
    OBVIOUS
  <1>1. printf_unsigned(n, r, width, pad, u) = T \o D
    BY <1>0, UnsignedPrinted, Zenon
  <1>2. D \in Seq(Glyphs(u)) /\ Len(D) \in Nat /\ pad \in Glyphs(u)
    BY NumeralSeq, NumeralLen DEF Glyphs
  <1> HIDE DEF D
  <1>3. T \in Seq(Glyphs(u)) /\ width - Len(<<>>) - Len(D) = g
    BY <1>2, TimesSeq
  <1>4. Spelled(n, r, u, width, pad = "0") =
            IF pad = "0" THEN <<>> \o times("0", width - Len(<<>>) - Len(D)) \o D
            ELSE times(SPACE, width - Len(<<>>) - Len(D)) \o <<>> \o D
    <2>1. ~(n < 0)
      OBVIOUS
    <2> QED BY <2>1, Zenon DEF Spelled, D
  <1> HIDE DEF g
  <1>5. <<>> \o T = T /\ T \o <<>> = T
    BY <1>3, ConcatEmptySeq
  <1> HIDE DEF T
  <1>6. CASE pad = "0"
    <2>1. T = times("0", g)
      BY <1>6 DEF T
    <2> QED BY <1>1, <1>3, <1>4, <1>5, <1>6, <2>1
  <1>7. CASE pad # "0"
    <2>1. T = times(SPACE, g)
      BY <1>7 DEF T
    <2> QED BY <1>1, <1>3, <1>4, <1>5, <1>7, <2>1
  <1> QED BY <1>6, <1>7

(* How a negative number is padded: zeros after the sign, spaces before    *)
(* it.                                                                     *)
LEMMA NegativeSpelled ==
    ASSUME NEW r \in Radices, NEW u, NEW n \in Int, n < 0, NEW width \in Nat
    PROVE  LET D == Numeral(-n, r, u)
               g == (width - 1) - Len(D)
           IN  /\ -n \in Nat /\ D \in Seq(Glyphs(u)) /\ Len(D) \in Nat /\ g \in Int
               /\ Spelled(n, r, u, width, TRUE) = <<"-">> \o (times("0", g) \o D)
               /\ Spelled(n, r, u, width, FALSE) = times(SPACE, g) \o <<"-">> \o D
  <1> DEFINE D == Numeral(-n, r, u)
             g == (width - 1) - Len(D)
  <1>1. -n \in Nat
    OBVIOUS
  <1>2. D \in Seq(Glyphs(u)) /\ Len(D) \in Nat
    BY <1>1, NumeralSeq, NumeralLen
  <1>3. /\ Spelled(n, r, u, width, TRUE) = <<"-">> \o times("0", width - Len(<<"-">>) - Len(D)) \o D
        /\ Spelled(n, r, u, width, FALSE) = times(SPACE, width - Len(<<"-">>) - Len(D)) \o <<"-">> \o D
    BY Zenon DEF Spelled
  <1> HIDE DEF D
  <1>4. Len(<<"-">>) = 1 /\ width - Len(<<"-">>) - Len(D) = g /\ g \in Int
    BY <1>2
  <1>5. <<"-">> \in Seq(Glyphs(u)) /\ times("0", g) \in Seq(Glyphs(u))
    <2>1. "0" \in Glyphs(u) /\ "-" \in Glyphs(u)
      BY DEF Glyphs
    <2> HIDE DEF g
    <2> QED BY <1>4, <2>1, TimesSeq
  <1> DEFINE T == times("0", g)
  <1> HIDE DEF g, T
  <1>6. (<<"-">> \o T) \o D = <<"-">> \o (T \o D)
    BY <1>2, <1>5, ConcatAssociative DEF T
  <1> QED BY <1>1, <1>2, <1>3, <1>4, <1>6 DEF D, g, T

(* kprintf prints a signed number with its padding where it belongs.       *)
LEMMA KprintfSigned ==
    ASSUME NEW r \in Radices, NEW u, NEW n \in Int, NEW width \in Nat, NEW pad \in {SPACE, "0"}
    PROVE  printf_signed(n, r, width, pad, u) = Spelled(n, r, u, width, pad = "0")
  <1>1. CASE n >= 0
    <2>1. printf_signed(n, r, width, pad, u) = printf_unsigned(n, r, width, pad, u)
      BY <1>1 DEF printf_signed
    <2> QED BY <1>1, <2>1, UnsignedSpelled
  <1>2. CASE ~(n >= 0)
    <2> DEFINE D == Numeral(-n, r, u)
               g == (width - 1) - Len(D)
    <2>1. n < 0 /\ ~(n >= 0)
      BY <1>2
    <2>2. /\ -n \in Nat /\ D \in Seq(Glyphs(u)) /\ Len(D) \in Nat /\ g \in Int
          /\ Spelled(n, r, u, width, TRUE) = <<"-">> \o (times("0", g) \o D)
          /\ Spelled(n, r, u, width, FALSE) = times(SPACE, g) \o <<"-">> \o D
      BY <2>1, NegativeSpelled
    <2>3. CASE pad = "0"
      <3>1. printf_signed(n, r, width, pad, u) = <<"-">> \o printf_unsigned(-n, r, width - 1, pad, u)
        BY <2>1, <2>3, Zenon DEF printf_signed
      <3>2. printf_unsigned(-n, r, width - 1, pad, u) = times(pad, g) \o D
        <4>1. width - 1 \in Int
          OBVIOUS
        <4> QED BY <2>2, <4>1, UnsignedPrinted, Zenon
      <3>3. (pad = "0") = TRUE
        BY <2>3
      <3> QED BY <2>2, <2>3, <3>1, <3>2, <3>3, Zenon
    <2>4. CASE pad # "0"
      <3>1. pad = SPACE /\ (pad = "0") = FALSE
        BY <2>4
      <3>2. printf_signed(n, r, width, pad, u) =
              times(pad, width - (Len(buffer(-n, r, u)) + 1)) \o <<"-">> \o Reverse(buffer(-n, r, u))
        BY <2>1, <2>4, Zenon DEF printf_signed
      <3>3. Reverse(buffer(-n, r, u)) = D /\ Len(buffer(-n, r, u)) = Len(D)
        BY <2>2, DigitsRight, Zenon
      <3>4. width - (Len(D) + 1) = g
        <4> HIDE DEF D
        <4> QED BY <2>2
      <3> QED BY <2>2, <3>1, <3>2, <3>3, <3>4, Zenon
    <2> QED BY <2>3, <2>4
  <1> QED BY <1>1, <1>2

(* So does vsprintf, but that spaces would come after the sign.            *)
LEMMA VsprintfSigned ==
    ASSUME NEW r \in Radices, NEW u, NEW n \in Int, NEW width \in Nat, NEW pad \in {SPACE, "0"},
           n >= 0 \/ pad = "0" \/ width = 0
    PROVE  sprintf_signed(n, r, width, pad, u) = Spelled(n, r, u, width, pad = "0")
  <1>1. CASE n >= 0
    <2>0. ~(n < 0) /\ n \in Nat
      BY <1>1
    <2>1. sprintf_signed(n, r, width, pad, u) = sprintf_unsigned(n, r, width, pad, u)
      BY <2>0, Zenon DEF sprintf_signed
    <2>2. sprintf_unsigned(n, r, width, pad, u) = printf_unsigned(n, r, width, pad, u)
      <3>1. width \in Int
        OBVIOUS
      <3> QED BY <2>0, <3>1, UnsignedPrinted, Zenon
    <2>3. printf_unsigned(n, r, width, pad, u) = Spelled(n, r, u, width, pad = "0")
      BY <2>0, UnsignedSpelled
    <2> QED BY <2>1, <2>2, <2>3, Zenon
  <1>2. CASE ~(n >= 0)
    <2> DEFINE D == Numeral(-n, r, u)
               g == (width - 1) - Len(D)
    <2>1. n < 0
      BY <1>2
    <2>2. /\ -n \in Nat /\ D \in Seq(Glyphs(u)) /\ Len(D) \in Nat /\ g \in Int
          /\ Spelled(n, r, u, width, TRUE) = <<"-">> \o (times("0", g) \o D)
          /\ Spelled(n, r, u, width, FALSE) = times(SPACE, g) \o <<"-">> \o D
      BY <2>1, NegativeSpelled
    <2>3. sprintf_signed(n, r, width, pad, u) = <<"-">> \o (times(pad, g) \o D)
      <3>1. sprintf_signed(n, r, width, pad, u) = <<"-">> \o sprintf_unsigned(-n, r, width - 1, pad, u)
        BY <2>1, Zenon DEF sprintf_signed
      <3>2. width - 1 \in Int
        OBVIOUS
      <3>3. /\ printf_unsigned(-n, r, width - 1, pad, u) = times(pad, g) \o D
            /\ sprintf_unsigned(-n, r, width - 1, pad, u) = printf_unsigned(-n, r, width - 1, pad, u)
        <4>1. -n \in Nat
          BY <2>2
        <4> HIDE <2>2
        <4> QED BY <3>2, <4>1, UnsignedPrinted, Zenon
      <3> QED BY <3>1, <3>3, Zenon
    <2>4. CASE pad = "0"
      <3>1. (pad = "0") = TRUE
        BY <2>4
      <3> QED BY <2>2, <2>3, <2>4, <3>1, Zenon
    <2>5. CASE pad # "0"
      <3>1. pad = SPACE /\ (pad = "0") = FALSE /\ width = 0
        BY <1>2, <2>5
      <3>2. times(SPACE, g) = <<>>
        <4>1. g <= 0
          <5> HIDE DEF D
          <5> QED BY <2>2, <3>1
        <4>2. SPACE \in Glyphs(u)
          BY DEF Glyphs
        <4> HIDE DEF g
        <4> QED BY <2>2, <4>1, <4>2, TimesSeq
      <3>3. <<>> \o D = D /\ <<>> \o <<"-">> = <<"-">>
        <4>1. <<"-">> \in Seq({"-"})
          OBVIOUS
        <4> QED BY <2>2, <4>1, ConcatEmptySeq
      <3> QED BY <2>2, <2>3, <3>1, <3>2, <3>3, Zenon
    <2> QED BY <2>4, <2>5
  <1> QED BY <1>1, <1>2

-----------------------------------------------------------------------------
(*----------------------------- doubles -----------------------------------*)

(* And a printed double.                                                   *)
DecimalGlyphs == {Decimals[i] : i \in 1..10} \cup {"-", SPACE, "0", "."} \cup Glyphs(FALSE)

(* vsprintf prints the point and the decimals of a double as C does.       *)
LEMMA FloatPrinted ==
    ASSUME NEW number \in Int
    PROVE  sprintf_float(number, PRECISION) = CFloat(number)
  <1> DEFINE size  == IF number < 0 THEN -number ELSE number
             diff  == size % UNITS
             whole == size \div UNITS
             parts == (diff * Power(10, PRECISION)) \div UNITS
             dec   == [i \in 1..PRECISION |-> Decimals[(((diff * Power(10, i)) \div UNITS) % 10) + 1]]
             S     == IF number < 0 THEN <<"-">> ELSE <<>>
             D     == Numeral(whole, 10, FALSE)
  <1>1. UNITS \in Nat \ {0} /\ PRECISION \in Nat \ {0} /\ size \in Nat
    BY ArgumentAssumption
  <1>2. diff \in Nat /\ whole \in Nat
    <2> HIDE DEF size
    <2> QED BY <1>1, DivMod
  <1>3. 10 \in Nat \ {0} /\ 10 \in Radices
    BY DEF Radices
  <1>4. ASSUME NEW i \in 1..PRECISION
        PROVE  (parts \div Power(10, PRECISION - i)) = (diff * Power(10, i)) \div UNITS
    <2> DEFINE m == Power(10, PRECISION - i)
               x == diff * Power(10, i)
    <2>1. i \in Nat /\ PRECISION - i \in Nat /\ i + (PRECISION - i) = PRECISION
      BY <1>1
    <2>2. m \in Nat \ {0} /\ Power(10, i) \in Nat \ {0} /\ Power(10, PRECISION) = Power(10, i) * m
      <3>1. Power(10, i + (PRECISION - i)) = Power(10, i) * Power(10, PRECISION - i)
        BY <1>3, <2>1, PowerSum
      <3> QED BY <1>3, <2>1, <3>1, PowerNat
    <2>3. x \in Nat
      <3> HIDE DEF diff
      <3> QED BY <1>2, <2>2
    <2>4. diff * Power(10, PRECISION) = x * m
      <3> DEFINE y == Power(10, i)
      <3>1. y \in Nat
        BY <2>2
      <3> HIDE DEF diff, m, y
      <3>2. diff * (y * m) = (diff * y) * m
        BY <1>2, <2>2, <3>1
      <3> QED BY <2>2, <3>2 DEF y
    <2> HIDE DEF x, m, diff
    <2>5. ((x * m) \div UNITS) \div m = x \div UNITS
      BY <1>1, <2>2, <2>3, DivCancel
    <2>6. parts = (x * m) \div UNITS
      BY <2>4
    <2> QED BY <2>5, <2>6 DEF x, m
  <1>5. dec = [i \in 1..PRECISION |-> Decimals[((parts \div Power(10, PRECISION - i)) % 10) + 1]]
    BY <1>4
  <1>6. CFloat(number) = S \o D \o <<".">> \o dec
    <2> HIDE DEF dec
    <2> QED BY <1>5, Zenon DEF CFloat
  <1>7. sprintf_signed(whole, 10, 0, SPACE, FALSE) = D
    <2> HIDE DEF whole
    <2> DEFINE g == 0 - Len(D)
    <2>1. ~(whole < 0) /\ 0 \in Int /\ SPACE \in {SPACE, "0"}
      BY <1>2
    <2>2. sprintf_signed(whole, 10, 0, SPACE, FALSE) = sprintf_unsigned(whole, 10, 0, SPACE, FALSE)
      BY <2>1, Zenon DEF sprintf_signed
    <2>3. /\ printf_unsigned(whole, 10, 0, SPACE, FALSE) = times(SPACE, g) \o D
          /\ sprintf_unsigned(whole, 10, 0, SPACE, FALSE) = printf_unsigned(whole, 10, 0, SPACE, FALSE)
      <3>1. whole \in Nat /\ 10 \in Radices /\ 0 \in Int /\ SPACE \in {SPACE, "0"}
        BY <1>2, <1>3, <2>1
      <3> QED BY <3>1, UnsignedPrinted, Zenon
    <2>4. D \in Seq(Glyphs(FALSE)) /\ Len(D) \in Nat
      BY <1>2, <1>3, NumeralSeq, NumeralLen
    <2> HIDE DEF D
    <2>5. times(SPACE, g) = <<>>
      <3>1. g \in Int /\ g <= 0
        BY <2>4
      <3>2. SPACE \in Glyphs(FALSE)
        BY DEF Glyphs
      <3> HIDE DEF g
      <3> QED BY <3>1, <3>2, TimesSeq
    <2>6. <<>> \o D = D
      BY <2>4, ConcatEmptySeq
    <2> QED BY <2>2, <2>3, <2>5, <2>6
  <1>8. sprintf_float(number, PRECISION) = S \o D \o (<<".">> \o dec)
    <2>1. PRECISION > 0
      BY <1>1
    <2> DEFINE text == sprintf_signed(whole, 10, 0, SPACE, FALSE)
    <2>2. sprintf_float(number, PRECISION) = S \o text \o (IF PRECISION > 0 THEN <<".">> \o dec ELSE <<>>)
      BY Zenon DEF sprintf_float
    <2> HIDE DEF text
    <2> QED BY <1>7, <2>1, <2>2 DEF text
  <1>9. S \o D \in Seq(DecimalGlyphs) /\ <<".">> \in Seq(DecimalGlyphs) /\ dec \in Seq(DecimalGlyphs)
    <2>1. D \in Seq(DecimalGlyphs)
      <3>1. D \in Seq(Glyphs(FALSE)) /\ Glyphs(FALSE) \subseteq DecimalGlyphs
        BY <1>2, <1>3, NumeralSeq DEF DecimalGlyphs
      <3> HIDE DEF D
      <3> QED BY <3>1, SeqMonotonic
    <2>2. S \in Seq(DecimalGlyphs)
      <3>1. "-" \in DecimalGlyphs
        BY DEF DecimalGlyphs
      <3> QED BY <3>1
    <2>3. <<".">> \in Seq(DecimalGlyphs)
      <3>1. "." \in DecimalGlyphs
        BY DEF DecimalGlyphs
      <3> QED BY <3>1
    <2>4. dec \in Seq(DecimalGlyphs)
      <3> DEFINE x(i) == (diff * Power(10, i)) \div UNITS
      <3>1. \A i \in 1..PRECISION : Decimals[(x(i) % 10) + 1] \in DecimalGlyphs
        <4> TAKE i \in 1..PRECISION
        <4>1. i \in Nat
          BY <1>1
        <4>2. Power(10, i) \in Nat
          BY <1>3, <4>1, PowerNat
        <4> HIDE DEF diff
        <4>3. diff * Power(10, i) \in Nat
          BY <1>2, <4>2
        <4>4. x(i) \in Nat
          BY <1>1, <4>3, DivMod
        <4> HIDE DEF x
        <4>5. (x(i) % 10) + 1 \in 1..10
          BY <4>4
        <4> QED BY <4>5 DEF DecimalGlyphs
      <3>2. dec = [i \in 1..PRECISION |-> Decimals[(x(i) % 10) + 1]]
        OBVIOUS
      <3> HIDE DEF x, dec
      <3>3. dec \in [1..PRECISION -> DecimalGlyphs]
        BY <3>1, <3>2
      <3> QED BY <1>1, <3>3
    <2> HIDE DEF S, D, dec
    <2> QED BY <2>1, <2>2, <2>3, <2>4, ConcatProperties
  <1> HIDE DEF S, D, dec
  <1>10. ((S \o D) \o <<".">>) \o dec = (S \o D) \o (<<".">> \o dec)
    BY <1>9, ConcatAssociative
  <1> QED BY <1>6, <1>8, <1>10

-----------------------------------------------------------------------------
(*--------------------------- conversions ---------------------------------*)

(* The value of a digit.                                                   *)
LEMMA DigitsAre == ASSUME NEW ch, IsDigit(ch) PROVE digit(ch) \in 0..9
  <1>1. Len(Decimals) = 10
    BY DEF Decimals
  <1>2. \E i \in 1..10 : Decimals[i] = ch
    BY <1>1, Zenon DEF IsDigit, Contains
  <1> DEFINE i == CHOOSE i \in 1..10 : Decimals[i] = ch
  <1>3. i \in 1..10
    BY <1>2
  <1>4. digit(ch) = i - 1
    BY DEF digit
  <1> HIDE DEF i
  <1> QED BY <1>3, <1>4

(* No digit is a letter of a conversion.                                   *)
LEMMA Letters ==
    ASSUME NEW ch, IsDigit(ch)
    PROVE  ch \notin {"%", "h", "l", "c", "s", "d", "i", "u", "X", "x", "p", "o", "f", "g"}
  <1>1. Len(Decimals) = 10
    BY DEF Decimals
  <1>2. PICK i \in 1..10 : Decimals[i] = ch
    BY <1>1, Zenon DEF IsDigit, Contains
  <1>3. ch \in {"0", "1", "2", "3", "4", "5", "6", "7", "8", "9"}
    BY <1>2 DEF Decimals
  <1> QED BY <1>3

(* A zero is a digit.                                                      *)
LEMMA ZeroDigit == IsDigit("0") /\ digit("0") = 0
  <1>1. Len(Decimals) = 10 /\ Decimals[1] = "0" /\ \A i \in 1..10 : Decimals[i] = "0" => i = 1
    BY DEF Decimals
  <1>2. IsDigit("0")
    BY <1>1, 1 \in 1..10, Zenon DEF IsDigit, Contains
  <1>3. (CHOOSE i \in 1..10 : Decimals[i] = "0") = 1
    BY <1>1
  <1> QED BY <1>2, <1>3 DEF digit

(* The widths after each character of a conversion.                        *)
WidthAt(s, w, i) ==
    IF i = 0 THEN 0
    ELSE IF IsDigit(s[i]) THEN w[i - 1] * 10 + digit(s[i]) ELSE w[i - 1]
(* The table of widths that WidthOf looks into.                            *)
Widths(s, n, w) == w = [i \in 0..n |-> WidthAt(s, w, i)]

(* There is a table of widths for every text.                              *)
LEMMA WidthsExist ==
    ASSUME NEW s, NEW n \in Nat
    PROVE  \E w : Widths(s, n, w)
  <1> DEFINE Bad == {i \in Nat : ~\E w : Widths(s, i, w)}
  <1>1. Bad = {}
    <2> SUFFICES ASSUME Bad # {} PROVE FALSE
      OBVIOUS
    <2>1. PICK i \in Bad : \A e \in Bad : i <= e
      BY LeastNumber
    <2>2. i \in Nat
      BY <2>1
    <2>3. CASE i = 0
      <3> DEFINE w == [e \in 0..0 |-> 0]
      <3>1. w = [e \in 0..0 |-> WidthAt(s, w, e)]
        BY DEF WidthAt
      <3> QED BY <2>1, <2>3, <3>1 DEF Widths
    <2>4. CASE i # 0
      <3>1. i - 1 \in Nat /\ i - 1 \notin Bad
        <4> HIDE DEF Bad
        <4> QED BY <2>1, <2>2, <2>4
      <3>2. PICK q : Widths(s, i - 1, q)
        BY <3>1
      <3> DEFINE w == [e \in 0..i |-> WidthAt(s, q, e)]
      <3>3. \A e \in 0..(i - 1) : w[e] = q[e]
        BY <2>2, <3>2 DEF Widths
      <3>4. \A e \in 0..i : WidthAt(s, q, e) = WidthAt(s, w, e)
        <4> TAKE e \in 0..i
        <4>1. e # 0 => e - 1 \in 0..(i - 1)
          BY <2>2
        <4> HIDE DEF w
        <4> QED BY <3>3, <4>1 DEF WidthAt
      <3>5. Widths(s, i, w)
        BY <3>4, Zenon DEF Widths
      <3> QED BY <2>1, <3>5
    <2> QED BY <2>3, <2>4
  <1> QED BY <1>1

(* Two tables agree as far as their texts do.                              *)
LEMMA WidthsAgree ==
    ASSUME NEW s, NEW t, NEW m \in Nat, NEW n \in Nat, NEW p, NEW q, Widths(s, m, p), Widths(t, n, q),
           NEW i \in Nat, i <= m, i <= n, \A e \in 1..i : s[e] = t[e]
    PROVE  p[i] = q[i]
  <1> DEFINE Bad == {e \in Nat : e <= i /\ p[e] # q[e]}
  <1>1. ASSUME Bad # {} PROVE FALSE
    <2>1. PICK e \in Bad : \A j \in Bad : e <= j
      BY <1>1, LeastNumber
    <2>2. e \in Nat /\ e <= i /\ p[e] # q[e]
      BY <2>1
    <2>3. p[e] = WidthAt(s, p, e) /\ q[e] = WidthAt(t, q, e)
      <3>1. e \in 0..m /\ e \in 0..n
        BY <2>2
      <3> QED BY <3>1 DEF Widths
    <2>4. e # 0 => p[e - 1] = q[e - 1] /\ s[e] = t[e]
      <3>1. ASSUME e # 0 PROVE e - 1 \in Nat /\ e - 1 <= i /\ e - 1 \notin Bad /\ e \in 1..i
        <4>1. e - 1 \in Nat /\ e - 1 <= i /\ ~(e <= e - 1) /\ e \in 1..i
          BY <2>2, <3>1
        <4> HIDE DEF Bad
        <4> QED BY <2>1, <4>1
      <3> QED BY <3>1
    <2> QED BY <2>2, <2>3, <2>4 DEF WidthAt
  <1> QED BY <1>1

(* WidthOf is the last entry of one.                                       *)
LEMMA WidthIs ==
    ASSUME NEW s, Len(s) \in Nat
    PROVE  \E w : Widths(s, Len(s), w) /\ WidthOf(s) = w[Len(s)]
  <1> DEFINE W == CHOOSE w : Widths(s, Len(s), w)
  <1>1. Widths(s, Len(s), W)
    BY WidthsExist
  <1>2. WidthOf(s) = W[Len(s)]
    BY Zenon DEF WidthOf, Widths, WidthAt
  <1> QED BY <1>1, <1>2

(* A digit counts into the width, and nothing else does.                   *)
LEMMA WidthAppend ==
    ASSUME NEW S, NEW s \in Seq(S), NEW ch \in S
    PROVE  WidthOf(Append(s, ch)) = IF IsDigit(ch) THEN WidthOf(s) * 10 + digit(ch) ELSE WidthOf(s)
  <1> DEFINE t == Append(s, ch)
             n == Len(s)
  <1>1. /\ n \in Nat /\ Len(t) = n + 1 /\ t[n + 1] = ch
        /\ \A e \in 1..n : s[e] = t[e]
    OBVIOUS
  <1> HIDE DEF t, n
  <1>2. PICK p : Widths(s, n, p) /\ WidthOf(s) = p[n]
    BY <1>1, WidthIs DEF n
  <1>3. PICK q : Widths(t, n + 1, q) /\ WidthOf(t) = q[n + 1]
    <2>1. Len(t) \in Nat
      BY <1>1
    <2> QED BY <1>1, <2>1, WidthIs
  <1>4. p[n] = q[n]
    BY <1>1, <1>2, <1>3, WidthsAgree
  <1>5. q[n + 1] = WidthAt(t, q, n + 1) /\ (n + 1) - 1 = n /\ n + 1 # 0
    <2>1. n + 1 \in 0..(n + 1) /\ (n + 1) - 1 = n /\ n + 1 # 0
      BY <1>1
    <2>2. q[n + 1] = WidthAt(t, q, n + 1)
      BY <1>3, <2>1, Zenon DEF Widths
    <2> QED BY <2>1, <2>2
  <1> QED BY <1>1, <1>2, <1>3, <1>4, <1>5 DEF WidthAt, t

(* Nothing spells no width.                                                *)
LEMMA WidthEmpty == WidthOf(<<>>) = 0
  <1>1. Len(<<>>) = 0
    OBVIOUS
  <1>2. PICK w : Widths(<<>>, 0, w) /\ WidthOf(<<>>) = w[0]
    BY <1>1, WidthIs
  <1> QED BY <1>2 DEF Widths, WidthAt

(* How often a character occurs, with one character more.                  *)
LEMMA OccursAppend ==
    ASSUME NEW S, NEW s \in Seq(S), NEW ch \in S, NEW c
    PROVE  /\ Occurs(c, s) \in Nat
           /\ Occurs(c, Append(s, ch)) = IF ch = c THEN Occurs(c, s) + 1 ELSE Occurs(c, s)
  <1> DEFINE n == Len(s)
             t == Append(s, ch)
             A == {i \in 1..n : s[i] = c}
             B == {i \in 1..(n + 1) : t[i] = c}
  <1>1. n \in Nat /\ DOMAIN s = 1..n /\ DOMAIN t = 1..(n + 1)
    OBVIOUS
  <1>2. Occurs(c, s) = Cardinality(A) /\ Occurs(c, t) = Cardinality(B)
    BY <1>1, Zenon DEF Occurs
  <1>3. t[n + 1] = ch /\ \A i \in 1..n : t[i] = s[i]
    OBVIOUS
  <1>4. B = IF ch = c THEN A \cup {n + 1} ELSE A
    <2> HIDE DEF t, n
    <2> QED BY <1>1, <1>3
  <1> HIDE DEF n, t
  <1>5. IsFiniteSet(A) /\ Cardinality(A) \in Nat /\ n + 1 \notin A
    <2>1. IsFiniteSet(1..n)
      BY <1>1, FS_Interval
    <2>2. A \subseteq 1..n
      OBVIOUS
    <2>3. IsFiniteSet(A)
      BY <2>1, <2>2, FS_Subset
    <2>4. n + 1 \notin A
      BY <1>1
    <2> QED BY <2>3, <2>4, FS_CardinalityType
  <1> HIDE DEF A, B
  <1>6. Cardinality(A \cup {n + 1}) = Cardinality(A) + 1
    BY <1>5, FS_AddElement
  <1> QED BY <1>2, <1>4, <1>5, <1>6 DEF t

(* Nothing occurs in nothing.                                              *)
LEMMA OccursEmpty == ASSUME NEW c PROVE Occurs(c, <<>>) = 0
  <1>1. {i \in DOMAIN <<>> : <<>>[i] = c} = {}
    OBVIOUS
  <1> QED BY <1>1, FS_EmptySet DEF Occurs

-----------------------------------------------------------------------------
(*------------------------- kprintf's locals ------------------------------*)

(* A conversion so far: its prefixes of one kind, and a width in range.    *)
Unprefixed(c) == Occurs("h", c) = 0 /\ Occurs("l", c) = 0

Spelling(c) ==
    /\ c \in Seq(Alphabet)
    /\ c # <<>> =>
          /\ Occurs("h", c) \in 0..2 /\ Occurs("l", c) \in 0..2
          /\ Occurs("h", c) = 0 \/ Occurs("l", c) = 0
          /\ WidthOf(c) \in 0..(Power(10, MaxDigits) - 1)
          /\ Unprefixed(c) => /\ Len(c) - 1 <= MaxDigits
                              /\ WidthOf(c) < Power(10, Len(c) - 1)

(* The locals that belong to a conversion so far.                          *)
PadOf(c)   == IF Len(c) > 1 /\ c[2] = "0" THEN "0" ELSE SPACE
FlagsOf(c) == IF Len(c) = 1 THEN "FLAGS" ELSE "WIDTH"
StateOf(c) == IF Unprefixed(c) THEN FlagsOf(c)
              ELSE IF Occurs("h", c) = 1 THEN "LENGTH_SHORT"
              ELSE IF Occurs("l", c) = 1 THEN "LENGTH_LONG" ELSE "SPEC"
LengthOf(c) == IF Unprefixed(c) THEN "DEFAULT"
               ELSE IF Occurs("h", c) = 1 THEN "SHORT"
               ELSE IF Occurs("h", c) = 2 THEN "SHORT_SHORT"
               ELSE IF Occurs("l", c) = 1 THEN "LONG" ELSE "LONG_LONG"

(* Names for the truth values: the provers take a name as an argument.     *)
NO  == FALSE
YES == TRUE

Locals(state, length, radix, sign, number, uppercase, width, padding) ==
    [state |-> state, length |-> length, radix |-> radix, sign |-> sign,
     number |-> number, uppercase |-> uppercase, width |-> width, padding |-> padding]

(* What kprintf's locals are after a % and what follows it, whatever was   *)
(* converted before.                                                       *)
LocalsOf(c) == Locals(StateOf(c), LengthOf(c), 10, NO, NO, NO, WidthOf(c), PadOf(c))

(* The state after a conversion is gone, with all it left.                 *)
KInv == kargs = <<>> /\ k = IF conversion = <<>> THEN fresh ELSE LocalsOf(conversion)

(* vsprintf is stuck in a length, or it is where the format is.            *)
Truths  == BOOLEAN
VStates == {"NORMAL", "FLAGS", "WIDTH", "LENGTH_SHORT", "LENGTH_LONG"}
VLocals == [state : VStates, length : {"DEFAULT"}, radix : Radices, sign : Truths, number : Truths,
            uppercase : Truths, width : 0..(Power(10, MaxDigits) - 1), padding : {SPACE, "0"}]
Stuck(p) == p.state \in {"LENGTH_SHORT", "LENGTH_LONG"}
InStep(p, c) ==
    /\ p \in VLocals /\ ~Stuck(p)
    /\ IF c = <<>> THEN p.state = "NORMAL"
       ELSE /\ Unprefixed(c) /\ p.state = FlagsOf(c) /\ p.width = WidthOf(c) /\ p.padding = PadOf(c)
            /\ p.uppercase = NO
(* Once a format is handled that vsprintf has cases for, it has read what  *)
(* was passed.                                                             *)
VInv ==
    /\ v \in VLocals
    /\ Stuck(v) \/ InStep(v, conversion)
    /\ handled => ~Stuck(v) /\ vargs = <<>>

(* Few arguments are unread.                                               *)
Bounded == Len(kargs) <= MaxUnread /\ Len(vargs) <= MaxUnread

(* The inductive invariant.                                                *)
IInv == Spelling(conversion) /\ KInv /\ VInv /\ Bounded

(* An assignment to a local leaves the others.                             *)
LEMMA LocalsRead ==
    ASSUME NEW s, NEW l, NEW r, NEW g, NEW n, NEW u, NEW w, NEW p
    PROVE  LET q == Locals(s, l, r, g, n, u, w, p)
           IN  /\ q.state = s /\ q.length = l /\ q.radix = r /\ q.sign = g
               /\ q.number = n /\ q.uppercase = u /\ q.width = w /\ q.padding = p
  BY DEF Locals

(* An assignment to one local leaves the others, for each of the eight.    *)
LEMMA StateWritten ==
    ASSUME NEW s, NEW l, NEW r, NEW g, NEW n, NEW u, NEW w, NEW p, NEW x
    PROVE  [Locals(s, l, r, g, n, u, w, p) EXCEPT !.state = x] = Locals(x, l, r, g, n, u, w, p)
  BY DEF Locals

LEMMA LengthWritten ==
    ASSUME NEW s, NEW l, NEW r, NEW g, NEW n, NEW u, NEW w, NEW p, NEW x
    PROVE  [Locals(s, l, r, g, n, u, w, p) EXCEPT !.length = x] = Locals(s, x, r, g, n, u, w, p)
  BY DEF Locals

LEMMA RadixWritten ==
    ASSUME NEW s, NEW l, NEW r, NEW g, NEW n, NEW u, NEW w, NEW p, NEW x
    PROVE  [Locals(s, l, r, g, n, u, w, p) EXCEPT !.radix = x] = Locals(s, l, x, g, n, u, w, p)
  BY DEF Locals

LEMMA SignWritten ==
    ASSUME NEW s, NEW l, NEW r, NEW g, NEW n, NEW u, NEW w, NEW p, NEW x
    PROVE  [Locals(s, l, r, g, n, u, w, p) EXCEPT !.sign = x] = Locals(s, l, r, x, n, u, w, p)
  BY DEF Locals

LEMMA NumberWritten ==
    ASSUME NEW s, NEW l, NEW r, NEW g, NEW n, NEW u, NEW w, NEW p, NEW x
    PROVE  [Locals(s, l, r, g, n, u, w, p) EXCEPT !.number = x] = Locals(s, l, r, g, x, u, w, p)
  BY DEF Locals

LEMMA UppercaseWritten ==
    ASSUME NEW s, NEW l, NEW r, NEW g, NEW n, NEW u, NEW w, NEW p, NEW x
    PROVE  [Locals(s, l, r, g, n, u, w, p) EXCEPT !.uppercase = x] = Locals(s, l, r, g, n, x, w, p)
  BY DEF Locals

LEMMA WidthWritten ==
    ASSUME NEW s, NEW l, NEW r, NEW g, NEW n, NEW u, NEW w, NEW p, NEW x
    PROVE  [Locals(s, l, r, g, n, u, w, p) EXCEPT !.width = x] = Locals(s, l, r, g, n, u, x, p)
  BY DEF Locals

LEMMA PaddingWritten ==
    ASSUME NEW s, NEW l, NEW r, NEW g, NEW n, NEW u, NEW w, NEW p, NEW x
    PROVE  [Locals(s, l, r, g, n, u, w, p) EXCEPT !.padding = x] = Locals(s, l, r, g, n, u, w, x)
  BY DEF Locals

(* The locals of a call that begins.                                       *)
LEMMA FreshLocals == fresh = Locals("NORMAL", "DEFAULT", 10, NO, NO, NO, 0, SPACE)
  BY Zenon DEF fresh, Locals, NO

(* A % in NORMAL.                                                          *)
LEMMA PercentLocals ==
    ASSUME NEW s, NEW l, NEW r, NEW g, NEW n, NEW u, NEW w, NEW p
    PROVE  percent(Locals(s, l, r, g, n, u, w, p)) = Locals("FLAGS", l, r, g, n, NO, 0, SPACE)
  <1> DEFINE q == Locals(s, l, r, g, n, u, w, p)
  <1>1. [q EXCEPT !.state = "FLAGS"] = Locals("FLAGS", l, r, g, n, u, w, p)
    BY StateWritten
  <1>2. [Locals("FLAGS", l, r, g, n, u, w, p) EXCEPT !.width = 0] = Locals("FLAGS", l, r, g, n, u, 0, p)
    BY WidthWritten
  <1>3. [Locals("FLAGS", l, r, g, n, u, 0, p) EXCEPT !.padding = SPACE] = Locals("FLAGS", l, r, g, n, u, 0, SPACE)
    BY PaddingWritten
  <1>4. [Locals("FLAGS", l, r, g, n, u, 0, SPACE) EXCEPT !.uppercase = NO] = Locals("FLAGS", l, r, g, n, NO, 0, SPACE)
    BY UppercaseWritten
  <1> HIDE DEF q
  <1>5. percent(q) = Locals("FLAGS", l, r, g, n, NO, 0, SPACE)
    BY <1>1, <1>2, <1>3, <1>4, Zenon DEF percent, NO
  <1> QED BY <1>5 DEF q

(* A conversion of a number.                                               *)
LEMMA NumericLocals ==
    ASSUME NEW s, NEW l, NEW r, NEW g, NEW n, NEW u, NEW w, NEW p, NEW r2, NEW g2, NEW u2
    PROVE  numeric(Locals(s, l, r, g, n, u, w, p), r2, g2, u2) = Locals(s, l, r2, g2, YES, u2, w, p)
  <1> DEFINE q == Locals(s, l, r, g, n, u, w, p)
  <1>1. [q EXCEPT !.radix = r2] = Locals(s, l, r2, g, n, u, w, p)
    BY RadixWritten
  <1>2. [Locals(s, l, r2, g, n, u, w, p) EXCEPT !.sign = g2] = Locals(s, l, r2, g2, n, u, w, p)
    BY SignWritten
  <1>3. [Locals(s, l, r2, g2, n, u, w, p) EXCEPT !.number = YES] = Locals(s, l, r2, g2, YES, u, w, p)
    BY NumberWritten
  <1>4. [Locals(s, l, r2, g2, YES, u, w, p) EXCEPT !.uppercase = u2] = Locals(s, l, r2, g2, YES, u2, w, p)
    BY UppercaseWritten
  <1> HIDE DEF q
  <1>5. numeric(q, r2, g2, u2) = Locals(s, l, r2, g2, YES, u2, w, p)
    BY <1>1, <1>2, <1>3, <1>4, Zenon DEF numeric, YES
  <1> QED BY <1>5 DEF q

(* Two assignments, as the states before a conversion make them.           *)
Padded(p, x, y)     == [p EXCEPT !.padding = x, !.state = y]
Widened(p, x, y)    == [p EXCEPT !.width = x, !.state = y]
(* A length and the state after it are assigned.                           *)
Lengthened(p, x, y) == [p EXCEPT !.length = x, !.state = y]

(* Two assignments to the locals that a conversion has so far.             *)
LEMMA PrefixLocals ==
    ASSUME NEW c, NEW x, NEW y
    PROVE  /\ Padded(LocalsOf(c), x, y) = Locals(y, LengthOf(c), 10, NO, NO, NO, WidthOf(c), x)
           /\ Widened(LocalsOf(c), x, y) = Locals(y, LengthOf(c), 10, NO, NO, NO, x, PadOf(c))
           /\ Lengthened(LocalsOf(c), x, y) = Locals(y, x, 10, NO, NO, NO, WidthOf(c), PadOf(c))
  <1> DEFINE q == LocalsOf(c)
  <1>1. Padded(q, x, y) = Locals(y, LengthOf(c), 10, NO, NO, NO, WidthOf(c), x)
    <2>1. [q EXCEPT !.padding = x] = Locals(StateOf(c), LengthOf(c), 10, NO, NO, NO, WidthOf(c), x)
      BY PaddingWritten DEF LocalsOf
    <2>2. [Locals(StateOf(c), LengthOf(c), 10, NO, NO, NO, WidthOf(c), x) EXCEPT !.state = y] = Locals(y, LengthOf(c), 10, NO, NO, NO, WidthOf(c), x)
      BY StateWritten
    <2> HIDE DEF q
    <2> QED BY <2>1, <2>2, Zenon DEF Padded, Widened, Lengthened
  <1>2. Widened(q, x, y) = Locals(y, LengthOf(c), 10, NO, NO, NO, x, PadOf(c))
    <2>1. [q EXCEPT !.width = x] = Locals(StateOf(c), LengthOf(c), 10, NO, NO, NO, x, PadOf(c))
      BY WidthWritten DEF LocalsOf
    <2>2. [Locals(StateOf(c), LengthOf(c), 10, NO, NO, NO, x, PadOf(c)) EXCEPT !.state = y] = Locals(y, LengthOf(c), 10, NO, NO, NO, x, PadOf(c))
      BY StateWritten
    <2> HIDE DEF q
    <2> QED BY <2>1, <2>2, Zenon DEF Padded, Widened, Lengthened
  <1>3. Lengthened(q, x, y) = Locals(y, x, 10, NO, NO, NO, WidthOf(c), PadOf(c))
    <2>1. [q EXCEPT !.length = x] = Locals(StateOf(c), x, 10, NO, NO, NO, WidthOf(c), PadOf(c))
      BY LengthWritten DEF LocalsOf
    <2>2. [Locals(StateOf(c), x, 10, NO, NO, NO, WidthOf(c), PadOf(c)) EXCEPT !.state = y] = Locals(y, x, 10, NO, NO, NO, WidthOf(c), PadOf(c))
      BY StateWritten
    <2> HIDE DEF q
    <2> QED BY <2>1, <2>2, Zenon DEF Padded, Widened, Lengthened
  <1> HIDE DEF q
  <1> QED BY <1>1, <1>2, <1>3, Zenon DEF q

(* The same of a record with any locals.                                   *)
LEMMA StateRewritten ==
    ASSUME NEW s, NEW l, NEW r, NEW g, NEW n, NEW u, NEW w, NEW p, NEW q, NEW x,
           q = Locals(s, l, r, g, n, u, w, p)
    PROVE  [q EXCEPT !.state = x] = Locals(x, l, r, g, n, u, w, p)
  BY StateWritten

(* A padding and the state after it are assigned.                          *)
LEMMA LocalsPadded ==
    ASSUME NEW s, NEW l, NEW r, NEW g, NEW n, NEW u, NEW w, NEW p, NEW q, NEW x, NEW y,
           q = Locals(s, l, r, g, n, u, w, p)
    PROVE  Padded(q, x, y) = Locals(y, l, r, g, n, u, w, x)
  <1>1. [q EXCEPT !.padding = x] = Locals(s, l, r, g, n, u, w, x)
    BY PaddingWritten
  <1>2. [Locals(s, l, r, g, n, u, w, x) EXCEPT !.state = y] = Locals(y, l, r, g, n, u, w, x)
    BY StateWritten
  <1> QED BY <1>1, <1>2, Zenon DEF Padded

(* A width and the state after it are assigned.                            *)
LEMMA LocalsWidened ==
    ASSUME NEW s, NEW l, NEW r, NEW g, NEW n, NEW u, NEW w, NEW p, NEW q, NEW x, NEW y,
           q = Locals(s, l, r, g, n, u, w, p)
    PROVE  Widened(q, x, y) = Locals(y, l, r, g, n, u, x, p)
  <1>1. [q EXCEPT !.width = x] = Locals(s, l, r, g, n, u, x, p)
    BY WidthWritten
  <1>2. [Locals(s, l, r, g, n, u, x, p) EXCEPT !.state = y] = Locals(y, l, r, g, n, u, x, p)
    BY StateWritten
  <1> QED BY <1>1, <1>2, Zenon DEF Widened

-----------------------------------------------------------------------------
(*--------------------- spelling a conversion -----------------------------*)

(* A conversion with one character more.                                   *)
LEMMA ConversionAppend ==
    ASSUME NEW c \in Seq(Alphabet), NEW ch \in Alphabet
    PROVE  LET s == Append(c, ch)
           IN  /\ s \in Seq(Alphabet) /\ s # <<>> /\ Len(s) = Len(c) + 1 /\ Len(c) \in Nat
               /\ Last(s) = ch /\ (Len(c) > 1 => s[2] = c[2]) /\ (Len(c) = 1 => s[2] = ch)
               /\ c = <<>> <=> Len(c) = 0
  <1> DEFINE s == Append(c, ch)
  <1>1. /\ s \in Seq(Alphabet) /\ Len(s) = Len(c) + 1 /\ s[Len(c) + 1] = ch
        /\ \A i \in 1..Len(c) : s[i] = c[i]
    BY AppendProperties
  <1>2. Len(c) \in Nat /\ (c = <<>> <=> Len(c) = 0) /\ s # <<>>
    OBVIOUS
  <1> HIDE DEF s
  <1>3. (Len(c) > 1 => s[2] = c[2]) /\ (Len(c) = 1 => s[2] = ch)
    BY <1>1, <1>2
  <1>4. Last(s) = ch
    BY <1>1 DEF Last
  <1> QED BY <1>1, <1>2, <1>3, <1>4 DEF s

(* The powers of ten are positive.                                         *)
LEMMA PowerTen == \A n \in Nat : Power(10, n) \in Nat \ {0}
  BY PowerNat

(* A % begins a conversion.                                                *)
LEMMA PercentSpelled ==
    ASSUME "%" \in Alphabet
    PROVE  /\ Spelling(<<"%">>) /\ Unprefixed(<<"%">>) /\ WidthOf(<<"%">>) = 0
           /\ PadOf(<<"%">>) = SPACE /\ FlagsOf(<<"%">>) = "FLAGS"
           /\ percent(fresh) = LocalsOf(<<"%">>)
  <1> DEFINE c == <<"%">>
  <1>1. <<>> \in Seq(Alphabet) /\ c = Append(<<>>, "%") /\ Len(c) = 1 /\ c \in Seq(Alphabet)
    OBVIOUS
  <1>2. ~IsDigit("%")
    BY Letters
  <1>3. WidthOf(c) = 0
    BY <1>1, <1>2, WidthAppend, WidthEmpty
  <1>4. Occurs("h", c) = 0 /\ Occurs("l", c) = 0
    <2>1. ASSUME NEW x, "%" # x PROVE Occurs(x, c) = 0
      <3>1. Occurs(x, Append(<<>>, "%")) = IF "%" = x THEN Occurs(x, <<>>) + 1 ELSE Occurs(x, <<>>)
        BY <1>1, OccursAppend
      <3>2. Occurs(x, <<>>) = 0
        BY OccursEmpty
      <3> HIDE DEF c
      <3> QED BY <1>1, <2>1, <3>1, <3>2
    <2>2. "%" # "h" /\ "%" # "l"
      OBVIOUS
    <2> HIDE DEF c
    <2> QED BY <2>1, <2>2
  <1>5. Unprefixed(c) /\ FlagsOf(c) = "FLAGS"
    BY <1>1, <1>4 DEF Unprefixed, FlagsOf
  <1>6. PadOf(c) = SPACE
    BY <1>1 DEF PadOf
  <1>7. Spelling(c)
    <2>1. MaxDigits \in Nat /\ Power(10, 0) = 1 /\ Power(10, MaxDigits) \in Nat \ {0}
      BY BoundAssumption, PowerOf, PowerTen
    <2>2. Len(c) - 1 = 0
      BY <1>1
    <2> HIDE DEF c
    <2>3. WidthOf(c) < Power(10, Len(c) - 1) /\ Len(c) - 1 <= MaxDigits /\ 0 \in 0..(Power(10, MaxDigits) - 1)
      <3>1. Power(10, Len(c) - 1) = 1
        BY <2>1, <2>2, Zenon
      <3> DEFINE m == Power(10, MaxDigits)
      <3> HIDE DEF m
      <3>2. m \in Nat \ {0}
        BY <2>1 DEF m
      <3>3. 0 \in 0..(m - 1)
        BY <3>2
      <3>4. WidthOf(c) < Power(10, Len(c) - 1)
        <4>1. 0 < 1
          OBVIOUS
        <4> QED BY <1>3, <3>1, <4>1, Zenon
      <3>5. Len(c) - 1 <= MaxDigits
        <4>1. 0 <= MaxDigits
          BY BoundAssumption
        <4> QED BY <2>2, <4>1, Zenon
      <3> QED BY <3>3, <3>4, <3>5 DEF m
    <2>4. 0 \in 0..2
      OBVIOUS
    <2> QED BY <1>1, <1>3, <1>4, <2>3, <2>4 DEF Spelling
  <1>8. StateOf(c) = "FLAGS" /\ LengthOf(c) = "DEFAULT"
    BY <1>5 DEF StateOf, LengthOf
  <1>9. percent(fresh) = LocalsOf(c)
    <2> HIDE DEF c
    <2>1. percent(fresh) = Locals("FLAGS", "DEFAULT", 10, NO, NO, NO, 0, SPACE)
      BY FreshLocals, PercentLocals
    <2> QED BY <1>3, <1>6, <1>8, <2>1, Zenon DEF LocalsOf
  <1> QED BY <1>3, <1>5, <1>6, <1>7, <1>9

(* And it goes on as the grammar has it.                                   *)
LEMMA DigitSpelled ==
    ASSUME NEW c, Spelling(c), c # <<>>, NEW ch \in Alphabet, IsDigit(ch), Continues(c, ch),
           Len(c) <= MaxDigits
    PROVE  /\ Spelling(Append(c, ch)) /\ Unprefixed(c) /\ Unprefixed(Append(c, ch))
           /\ WidthOf(Append(c, ch)) = WidthOf(c) * 10 + digit(ch)
           /\ FlagsOf(Append(c, ch)) = "WIDTH"
           /\ PadOf(Append(c, ch)) = IF Len(c) = 1 /\ ch = "0" THEN "0" ELSE PadOf(c)
  <1> DEFINE s == Append(c, ch)
             n == Len(c)
  <1>1. /\ c \in Seq(Alphabet) /\ s \in Seq(Alphabet) /\ s # <<>> /\ Len(s) = n + 1 /\ n \in Nat \ {0}
        /\ (n > 1 => s[2] = c[2]) /\ (n = 1 => s[2] = ch)
    BY ConversionAppend DEF Spelling
  <1>2. ch # "h" /\ ch # "l" /\ digit(ch) \in 0..9
    BY Letters, DigitsAre
  <1>3. Unprefixed(c)
    BY <1>2 DEF Continues, Unprefixed
  <1>4. Occurs("h", s) = 0 /\ Occurs("l", s) = 0
    BY <1>1, <1>2, <1>3, OccursAppend DEF Unprefixed
  <1>5. WidthOf(s) = WidthOf(c) * 10 + digit(ch)
    BY <1>1, WidthAppend
  <1> HIDE DEF s, n
  <1>6. WidthOf(c) \in Nat /\ WidthOf(c) < Power(10, n - 1) /\ MaxDigits \in Nat /\ n <= MaxDigits
    <2>1. WidthOf(c) \in 0..(Power(10, MaxDigits) - 1)
      BY DEF Spelling
    <2> QED BY <1>3, <2>1, BoundAssumption DEF Spelling, n
  <1>7. WidthOf(s) \in Nat /\ WidthOf(s) < Power(10, n) /\ Power(10, n) <= Power(10, MaxDigits)
        /\ Power(10, MaxDigits) \in Nat
    <2>1. n - 1 \in Nat /\ (n - 1) + 1 = n
      BY <1>1
    <2>2. Power(10, n) = 10 * Power(10, n - 1) /\ Power(10, n - 1) \in Nat
      BY <2>1, PowerOf, PowerTen
    <2>3. Power(10, n) <= Power(10, MaxDigits) /\ Power(10, MaxDigits) \in Nat
      BY <1>1, <1>6, PowerGrows, PowerTen
    <2> QED BY <1>2, <1>5, <1>6, <2>2, <2>3
  <1>8. Spelling(s)
    <2>1. Len(s) - 1 = n
      BY <1>1
    <2>2. WidthOf(s) \in 0..(Power(10, MaxDigits) - 1)
      <3> DEFINE m == Power(10, MaxDigits)
                 e == Power(10, n)
                 x == WidthOf(s)
      <3>1. x \in Nat /\ x < e /\ e <= m /\ m \in Nat /\ e \in Nat
        BY <1>1, <1>7, PowerTen
      <3> HIDE DEF m, e, x
      <3>2. x \in 0..(m - 1)
        BY <3>1
      <3> QED BY <3>2 DEF x, m
    <2> QED BY <1>1, <1>4, <1>6, <1>7, <2>1, <2>2 DEF Spelling
  <1>9. Unprefixed(s)
    BY <1>4 DEF Unprefixed
  <1>10. FlagsOf(s) = "WIDTH"
    BY <1>1 DEF FlagsOf
  <1>11. PadOf(s) = IF n = 1 /\ ch = "0" THEN "0" ELSE PadOf(c)
    <2>1. Len(s) > 1
      BY <1>1
    <2>2. CASE n = 1
      BY <1>1, <2>1, <2>2 DEF PadOf, n
    <2>3. CASE n # 1
      <3>1. n > 1
        BY <1>1, <2>3
      <3> QED BY <1>1, <2>1, <2>3, <3>1 DEF PadOf, n
    <2> QED BY <2>2, <2>3
  <1> QED BY <1>3, <1>5, <1>8, <1>9, <1>10, <1>11 DEF s, n

(* Before the first digit there is no width.                               *)
LEMMA FirstWidth ==
    ASSUME NEW c, Spelling(c), c # <<>>, Unprefixed(c), Len(c) = 1
    PROVE  WidthOf(c) = 0
  <1>1. WidthOf(c) \in 0..(Power(10, MaxDigits) - 1) /\ WidthOf(c) < Power(10, Len(c) - 1)
    BY DEF Spelling
  <1>2. Power(10, Len(c) - 1) = 1
    <2>1. Power(10, 0) = 1 /\ Len(c) - 1 = 0
      BY PowerOf
    <2> QED BY <2>1, Zenon
  <1> DEFINE x == WidthOf(c)
             m == Power(10, MaxDigits) - 1
  <1>3. x \in 0..m /\ x < 1
    BY <1>1, <1>2
  <1> HIDE DEF x, m
  <1>4. x = 0
    BY <1>3
  <1> QED BY <1>4 DEF x

(* A character of a length leaves the width and the padding as they are.   *)
LEMMA LengthSpelled ==
    ASSUME NEW c, Spelling(c), c # <<>>, NEW ch \in Alphabet, ~IsDigit(ch), Continues(c, ch)
    PROVE  /\ Spelling(Append(c, ch)) /\ ~Unprefixed(Append(c, ch))
           /\ WidthOf(Append(c, ch)) = WidthOf(c) /\ PadOf(Append(c, ch)) = PadOf(c)
           /\ \/ /\ ch = "h" /\ Occurs("l", c) = 0 /\ Occurs("l", Append(c, ch)) = 0
                 /\ Occurs("h", c) \in 0..1 /\ Occurs("h", Append(c, ch)) = Occurs("h", c) + 1
              \/ /\ ch = "l" /\ Occurs("h", c) = 0 /\ Occurs("h", Append(c, ch)) = 0
                 /\ Occurs("l", c) \in 0..1 /\ Occurs("l", Append(c, ch)) = Occurs("l", c) + 1
  <1> DEFINE s == Append(c, ch)
             n == Len(c)
  <1>1. /\ c \in Seq(Alphabet) /\ s \in Seq(Alphabet) /\ s # <<>> /\ Len(s) = n + 1 /\ n \in Nat \ {0}
        /\ (n > 1 => s[2] = c[2]) /\ (n = 1 => s[2] = ch)
    BY ConversionAppend DEF Spelling
  <1>2. WidthOf(s) = WidthOf(c)
    BY <1>1, WidthAppend
  <1>3. /\ Occurs("h", c) \in Nat /\ Occurs("l", c) \in Nat
        /\ Occurs("h", s) = IF ch = "h" THEN Occurs("h", c) + 1 ELSE Occurs("h", c)
        /\ Occurs("l", s) = IF ch = "l" THEN Occurs("l", c) + 1 ELSE Occurs("l", c)
    BY <1>1, OccursAppend
  <1>4. \/ ch = "h" /\ Occurs("h", c) < 2 /\ Occurs("l", c) = 0
        \/ ch = "l" /\ Occurs("l", c) < 2 /\ Occurs("h", c) = 0
    BY DEF Continues
  <1> HIDE DEF s, n
  <1>5. \/ /\ ch = "h" /\ Occurs("l", c) = 0 /\ Occurs("l", s) = 0
           /\ Occurs("h", c) \in 0..1 /\ Occurs("h", s) = Occurs("h", c) + 1
        \/ /\ ch = "l" /\ Occurs("h", c) = 0 /\ Occurs("h", s) = 0
           /\ Occurs("l", c) \in 0..1 /\ Occurs("l", s) = Occurs("l", c) + 1
    BY <1>3, <1>4
  <1>6. ~Unprefixed(s) /\ Occurs("h", s) \in 0..2 /\ Occurs("l", s) \in 0..2
        /\ (Occurs("h", s) = 0 \/ Occurs("l", s) = 0)
    BY <1>3, <1>5 DEF Unprefixed
  <1>7. PadOf(s) = PadOf(c)
    <2>1. Len(s) > 1
      BY <1>1
    <2>2. CASE n = 1
      <3>1. s[2] # "0" /\ ~(Len(c) > 1)
        BY <1>1, <1>4, <2>2 DEF n
      <3> QED BY <3>1 DEF PadOf
    <2>3. CASE n # 1
      <3>1. n > 1
        BY <1>1, <2>3
      <3> QED BY <1>1, <2>1, <3>1 DEF PadOf, n
    <2> QED BY <2>2, <2>3
  <1>8. Spelling(s)
    <2>1. WidthOf(c) \in 0..(Power(10, MaxDigits) - 1)
      BY DEF Spelling
    <2> QED BY <1>1, <1>2, <1>6, <2>1 DEF Spelling
  <1> QED BY <1>2, <1>5, <1>6, <1>7, <1>8 DEF s

(* kprintf follows, and prints nothing.                                    *)
LEMMA KprintfSpells ==
    ASSUME NEW c, Spelling(c), c # <<>>, NEW ch \in Alphabet, Continues(c, ch),
           IsDigit(ch) => Len(c) <= MaxDigits, NEW args
    PROVE  kprintf(LocalsOf(c), ch, args) = Gives(LocalsOf(Append(c, ch)), <<>>, args)
  <1> DEFINE p == LocalsOf(c)
             s == Append(c, ch)
             L(st, le, w, d) == Locals(st, le, 10, NO, NO, NO, w, d)
  <1>0. p.state = StateOf(c) /\ p.width = WidthOf(c)
    BY LocalsRead DEF LocalsOf
  <1>1. p.state # "NORMAL"
    BY <1>0 DEF StateOf, FlagsOf
  <1>2. kprintf_prefix(p, ch) = LocalsOf(s)
    <2>1. CASE IsDigit(ch)
      <3>1. /\ Unprefixed(c) /\ Unprefixed(s) /\ WidthOf(s) = WidthOf(c) * 10 + digit(ch)
            /\ FlagsOf(s) = "WIDTH" /\ PadOf(s) = IF Len(c) = 1 /\ ch = "0" THEN "0" ELSE PadOf(c)
        BY <2>1, DigitSpelled
      <3>2. /\ StateOf(c) = FlagsOf(c) /\ LengthOf(c) = "DEFAULT" /\ StateOf(s) = "WIDTH" /\ LengthOf(s) = "DEFAULT"
            /\ p.state \in {"FLAGS", "WIDTH"} /\ ch # "h" /\ ch # "l"
        <4> HIDE DEF p, s
        <4> QED BY <1>0, <2>1, <3>1, Letters DEF StateOf, LengthOf, FlagsOf
      <3>3. kprintf_prefix(p, ch) = flags_or_width(p, ch)
        <4> HIDE DEF p
        <4> QED BY <2>1, <3>2 DEF kprintf_prefix
      <3>4. flags_or_width(p, ch) = LocalsOf(s)
        <4>1. CASE Len(c) = 1 /\ ch = "0"
          <5>1. p.state = "FLAGS"
            BY <1>0, <3>2, <4>1 DEF FlagsOf
          <5>2. WidthOf(c) = 0
            BY <3>1, <4>1, FirstWidth
          <5>3. WidthOf(s) = 0
            BY <3>1, <4>1, <5>2, ZeroDigit
          <5>4. flags_or_width(p, ch) = Padded(p, "0", "WIDTH")
            BY <4>1, <5>1, Zenon DEF flags_or_width, Padded, Widened
          <5>5. Padded(p, "0", "WIDTH") = L("WIDTH", LengthOf(c), WidthOf(c), "0")
            BY PrefixLocals
          <5>6. PadOf(s) = "0"
            BY <3>1, <4>1
          <5> QED BY <3>2, <5>2, <5>3, <5>4, <5>5, <5>6, Zenon DEF LocalsOf
        <4>2. CASE ~(Len(c) = 1 /\ ch = "0")
          <5>1. ~(p.state = "FLAGS" /\ ch = "0")
            BY <1>0, <3>2, <4>2 DEF FlagsOf
          <5>2. flags_or_width(p, ch) = Widened(p, p.width * 10 + digit(ch), "WIDTH")
            BY <5>1, Zenon DEF flags_or_width, Padded, Widened
          <5>3. PadOf(s) = PadOf(c)
            BY <3>1, <4>2
          <5>4. Widened(p, p.width * 10 + digit(ch), "WIDTH")
                  = L("WIDTH", LengthOf(c), p.width * 10 + digit(ch), PadOf(c))
            BY PrefixLocals
          <5> QED BY <1>0, <3>1, <3>2, <5>2, <5>3, <5>4, Zenon DEF LocalsOf
        <4> QED BY <4>1, <4>2
      <3> QED BY <3>3, <3>4
    <2>2. CASE ~IsDigit(ch)
      <3>1. /\ ~Unprefixed(s) /\ WidthOf(s) = WidthOf(c) /\ PadOf(s) = PadOf(c)
            /\ \/ /\ ch = "h" /\ Occurs("l", c) = 0 /\ Occurs("l", s) = 0
                  /\ Occurs("h", c) \in 0..1 /\ Occurs("h", s) = Occurs("h", c) + 1
               \/ /\ ch = "l" /\ Occurs("h", c) = 0 /\ Occurs("h", s) = 0
                  /\ Occurs("l", c) \in 0..1 /\ Occurs("l", s) = Occurs("l", c) + 1
        BY <2>2, LengthSpelled
      <3>2. ASSUME NEW x, NEW y, StateOf(s) = y, LengthOf(s) = x,
                   kprintf_prefix(p, ch) = Lengthened(p, x, y)
            PROVE  kprintf_prefix(p, ch) = LocalsOf(s)
        <4>1. Lengthened(p, x, y) = L(y, x, WidthOf(c), PadOf(c))
          BY PrefixLocals
        <4> QED BY <3>1, <3>2, <4>1, Zenon DEF LocalsOf
      <3> HIDE DEF s, p
      <3>3. CASE ch = "h" /\ Occurs("h", c) = 0
        <4>1. Unprefixed(c) /\ Occurs("h", s) = 1
          BY <3>1, <3>3 DEF Unprefixed
        <4>2. p.state \in {"FLAGS", "WIDTH"} /\ StateOf(s) = "LENGTH_SHORT" /\ LengthOf(s) = "SHORT"
          BY <1>0, <3>1, <4>1 DEF StateOf, LengthOf, FlagsOf
        <4>3. kprintf_prefix(p, ch) = Lengthened(p, "SHORT", "LENGTH_SHORT")
          BY <2>2, <3>3, <4>2 DEF kprintf_prefix, Lengthened
        <4> QED BY <3>2, <4>2, <4>3
      <3>4. CASE ch = "h" /\ Occurs("h", c) # 0
        <4>1. ~Unprefixed(c) /\ Occurs("h", c) = 1 /\ Occurs("h", s) = 2 /\ Occurs("l", s) = 0
          BY <3>1, <3>4 DEF Unprefixed
        <4>2. p.state = "LENGTH_SHORT" /\ StateOf(s) = "SPEC" /\ LengthOf(s) = "SHORT_SHORT"
          BY <1>0, <3>1, <4>1 DEF StateOf, LengthOf
        <4>3. kprintf_prefix(p, ch) = Lengthened(p, "SHORT_SHORT", "SPEC")
          BY <3>4, <4>2 DEF kprintf_prefix, Lengthened
        <4> QED BY <3>2, <4>2, <4>3
      <3>5. CASE ch = "l" /\ Occurs("l", c) = 0
        <4>1. Unprefixed(c) /\ Occurs("l", s) = 1 /\ Occurs("h", s) = 0
          BY <3>1, <3>5 DEF Unprefixed
        <4>2. p.state \in {"FLAGS", "WIDTH"} /\ StateOf(s) = "LENGTH_LONG" /\ LengthOf(s) = "LONG"
          BY <1>0, <3>1, <4>1 DEF StateOf, LengthOf, FlagsOf
        <4>3. kprintf_prefix(p, ch) = Lengthened(p, "LONG", "LENGTH_LONG")
          BY <2>2, <3>5, <4>2 DEF kprintf_prefix, Lengthened
        <4> QED BY <3>2, <4>2, <4>3
      <3>6. CASE ch = "l" /\ Occurs("l", c) # 0
        <4>1. ~Unprefixed(c) /\ Occurs("h", c) = 0 /\ Occurs("l", c) = 1 /\ Occurs("l", s) = 2 /\ Occurs("h", s) = 0
          BY <3>1, <3>6 DEF Unprefixed
        <4>2. p.state = "LENGTH_LONG" /\ StateOf(s) = "SPEC" /\ LengthOf(s) = "LONG_LONG"
          BY <1>0, <3>1, <4>1 DEF StateOf, LengthOf
        <4>3. kprintf_prefix(p, ch) = Lengthened(p, "LONG_LONG", "SPEC")
          BY <3>6, <4>2 DEF kprintf_prefix, Lengthened
        <4> QED BY <3>2, <4>2, <4>3
      <3> QED BY <3>1, <3>3, <3>4, <3>5, <3>6
    <2> QED BY <2>1, <2>2
  <1>3. LocalsOf(s).state # "CONVERT"
    <2>1. LocalsOf(s).state = StateOf(s)
      BY LocalsRead DEF LocalsOf
    <2> QED BY <2>1 DEF StateOf, FlagsOf
  <1> HIDE DEF s, p
  <1>4. kprintf(p, ch, args) = Gives(LocalsOf(s), <<>>, args)
    BY <1>1, <1>2, <1>3, Zenon DEF kprintf
  <1> QED BY <1>4 DEF p, s

(* What does not go on is converted.                                       *)
LEMMA KprintfConverts ==
    ASSUME NEW c, Spelling(c), c # <<>>, NEW ch \in Alphabet, ~Continues(c, ch), NEW args
    PROVE  kprintf(LocalsOf(c), ch, args)
             = kprintf_spec(Locals("CONVERT", LengthOf(c), 10, NO, NO, NO, WidthOf(c), PadOf(c)), ch, args)
  <1> DEFINE p == LocalsOf(c)
             q == Locals("CONVERT", LengthOf(c), 10, NO, NO, NO, WidthOf(c), PadOf(c))
  <1>0. p.state = StateOf(c) /\ q.state = "CONVERT"
    BY LocalsRead DEF LocalsOf
  <1>1. [p EXCEPT !.state = "CONVERT"] = q
    BY StateWritten DEF LocalsOf
  <1>2. Occurs("h", c) \in 0..2 /\ Occurs("l", c) \in 0..2 /\ (Occurs("h", c) = 0 \/ Occurs("l", c) = 0)
    BY DEF Spelling
  <1> HIDE DEF p, q
  <1>3. p.state # "NORMAL"
    BY <1>0 DEF StateOf, FlagsOf
  <1>4. kprintf_prefix(p, ch) = q
    <2>1. CASE Unprefixed(c)
      <3>1. ~IsDigit(ch) /\ ch # "h" /\ ch # "l"
        BY <2>1 DEF Continues, Unprefixed
      <3>2. kprintf_prefix(p, ch) = [p EXCEPT !.state = "CONVERT"]
        BY <3>1, Zenon DEF kprintf_prefix
      <3> QED BY <1>1, <3>2
    <2>2. CASE ~Unprefixed(c)
      <3>1. /\ p.state \notin {"FLAGS", "WIDTH"}
            /\ p.state = "LENGTH_SHORT" => ch # "h"
            /\ p.state = "LENGTH_LONG" => ch # "l"
        BY <1>0, <1>2, <2>2 DEF StateOf, Continues, Unprefixed
      <3>2. kprintf_prefix(p, ch) = [p EXCEPT !.state = "CONVERT"]
        BY <3>1, Zenon DEF kprintf_prefix
      <3> QED BY <1>1, <3>2
    <2> QED BY <2>1, <2>2
  <1>5. kprintf(p, ch, args) = kprintf_spec(q, ch, args)
    BY <1>0, <1>3, <1>4, Zenon DEF kprintf
  <1> QED BY <1>5 DEF p, q

-----------------------------------------------------------------------------
(*---------------------- the values of arguments --------------------------*)

(* The types of C are sizes in the order of WidthAssumption.               *)
LEMMA Sizes ==
    /\ CHAR \in Nat \ {0} /\ SHORT \in Nat \ {0} /\ INT \in Nat \ {0} /\ LONG \in Nat \ {0}
    /\ CHAR <= SHORT /\ SHORT <= INT /\ INT <= LONG
  <1>1. /\ CHAR \in Nat \ {0} /\ SHORT \in Nat \ {0} /\ INT \in Nat \ {0} /\ LONG \in Nat \ {0}
        /\ SHORT % CHAR = 0 /\ INT % SHORT = 0 /\ LONG % INT = 0
    BY WidthAssumption
  <1>2. CHAR <= SHORT /\ SHORT <= INT /\ INT <= LONG
    BY <1>1, DivisorBelow
  <1> QED BY <1>1, <1>2

(* A word as a signed number of some size is that word, but for a multiple *)
(* of the size.                                                            *)
LEMMA SignedIs ==
    ASSUME NEW S \in Nat \ {0}, NEW word \in Nat
    PROVE  Signed(word, S) \in Int /\ Signed(word, S) % S = word % S /\ word % S \in 0..(S - 1)
  <1> DEFINE n == word % S
  <1>1. n \in 0..(S - 1)
    OBVIOUS
  <1>2. n % S = n /\ (n - S) % S = n
    BY <1>1, SmallMod
  <1>3. Signed(word, S) = IF 2 * n >= S THEN n - S ELSE n
    BY Zenon DEF Signed
  <1> HIDE DEF n
  <1>4. Signed(word, S) \in Int /\ Signed(word, S) % S = n
    BY <1>1, <1>2, <1>3
  <1> QED BY <1>1, <1>4 DEF n

(* No conversion takes a type wider than a long.                           *)
LEMMA TypeSizes ==
    ASSUME NEW s
    PROVE  TypeSize(s) \in Nat \ {0} /\ TypeSize(s) <= LONG
  <1>1. TypeSize(s) \in {CHAR, SHORT, INT, LONG}
    BY DEF TypeSize
  <1> QED BY <1>1, Sizes

(* The value of a word is a number, and one of a long where it is not      *)
(* signed.                                                                 *)
LEMMA CValues ==
    ASSUME NEW s, NEW word \in Nat
    PROVE  /\ CValue(s, word) \in Int
           /\ Last(s) \notin {"d", "i"} => CValue(s, word) \in 0..(LONG - 1)
  <1> DEFINE t == TypeSize(s)
  <1>1. t \in Nat \ {0} /\ t <= LONG /\ LONG \in Nat
    BY TypeSizes, Sizes
  <1> HIDE DEF t
  <1>2. Signed(word, t) \in Int /\ word % t \in 0..(t - 1)
    BY <1>1, SignedIs
  <1>3. CASE Last(s) \in {"d", "i"}
    <2>1. CValue(s, word) = Signed(word, t)
      BY <1>3, Zenon DEF CValue, t
    <2> QED BY <1>2, <1>3, <2>1
  <1>4. CASE Last(s) \notin {"d", "i"}
    <2>1. CValue(s, word) = word % t
      BY <1>4, Zenon DEF CValue, t
    <2> QED BY <1>1, <1>2, <1>4, <2>1
  <1> QED BY <1>3, <1>4

(* The conversions of numbers.                                             *)
NumberChars == {"d", "i", "u", "X", "x", "p", "o"}
SignOf(ch)  == ch \in {"d", "i"}
(* What a conversion sets, by its last character.                          *)
UpperOf(ch) == ch = "X"
RadixOf(ch) == IF ch \in {"d", "i", "u"} THEN 10 ELSE IF ch = "o" THEN 8 ELSE 16

(* What kprintf makes of a word that it can tell is its value in C.        *)
LEMMA KprintfValue ==
    ASSUME NEW c, Spelling(c), c # <<>>, NEW s, NEW word \in 0..(LONG - 1), NEW q,
           Occurs("h", s) = Occurs("h", c), Occurs("l", s) = Occurs("l", c),
           q.length = LengthOf(c), q.sign = SignOf(Last(s)), KprintfTells(s, word)
    PROVE  kprintf_value(q, word) = CValue(s, word)
  <1> DEFINE n == CValue(s, word)
             g == Last(s) \in {"d", "i"}
  <1>1. n \in Int /\ (~g => n \in 0..(LONG - 1)) /\ word \in Nat /\ LONG \in Nat \ {0} /\ INT \in Nat \ {0}
    BY CValues, Sizes
  <1>2. /\ Occurs("h", c) \in 0..2 /\ Occurs("l", c) \in 0..2
        /\ Occurs("h", c) = 0 \/ Occurs("l", c) = 0
    BY DEF Spelling
  <1>3. q.sign <=> g
    BY Zenon DEF SignOf
  <1>4. CASE Occurs("l", c) = 2
    <2>1. Occurs("h", c) = 0
      BY <1>2, <1>4
    <2>2. q.length = "LONG_LONG"
      BY <1>4, <2>1 DEF LengthOf, Unprefixed
    <2>3. TypeSize(s) = LONG
      BY <1>4, <2>1 DEF TypeSize
    <2>4. Signed(word, LONG) \in Int /\ Signed(word, LONG) % LONG = word % LONG
      BY <1>1, SignedIs
    <2>5. kprintf_value(q, word) = IF q.sign THEN Signed(word, LONG) ELSE Signed(word, LONG) % LONG
      BY <2>2, Zenon DEF kprintf_value
    <2>6. n = IF g THEN Signed(word, LONG) ELSE word % LONG
      BY <2>3, Zenon DEF CValue
    <2> HIDE DEF n, g
    <2>7. CASE g
      BY <1>3, <2>5, <2>6, <2>7, Zenon DEF n
    <2>8. CASE ~g
      BY <1>3, <2>4, <2>5, <2>6, <2>8, Zenon DEF n
    <2> QED BY <2>7, <2>8
  <1>5. CASE Occurs("l", c) # 2
    <2>1. q.length # "LONG_LONG"
      BY <1>2, <1>5 DEF LengthOf, Unprefixed
    <2>2. n = Signed(word, INT)
      BY <1>5 DEF KprintfTells
    <2>3. kprintf_value(q, word) = IF q.sign THEN Signed(word, INT) ELSE Signed(word, INT) % LONG
      BY <2>1, Zenon DEF kprintf_value
    <2>4. ~g => n % LONG = n
      <3> HIDE DEF n, g
      <3>1. SUFFICES ASSUME ~g PROVE n % LONG = n
        OBVIOUS
      <3>2. n \in 0..(LONG - 1) /\ LONG \in Nat \ {0}
        BY <1>1, <3>1
      <3> QED BY <3>2, SmallMod
    <2> QED BY <1>3, <2>2, <2>3, <2>4, Zenon
  <1> QED BY <1>4, <1>5

(* Both printers set the same locals for a number.                         *)
LEMMA NumberLocals ==
    ASSUME NEW s, NEW l, NEW r, NEW g, NEW n, NEW w, NEW p, NEW ch \in NumberChars
    PROVE  kprintf_numeric(Locals(s, l, r, g, n, NO, w, p), ch)
             = Locals(s, l, RadixOf(ch), SignOf(ch), YES, UpperOf(ch), w, p)
  <1> DEFINE q == Locals(s, l, r, g, n, NO, w, p)
  <1>1. q.uppercase = NO
    BY LocalsRead
  <1> SUFFICES kprintf_numeric(q, ch) = Locals(s, l, RadixOf(ch), SignOf(ch), YES, UpperOf(ch), w, p)
    OBVIOUS
  <1>2. \A r2, g2, u2 : numeric(q, r2, g2, u2) = Locals(s, l, r2, g2, YES, u2, w, p)
    BY NumericLocals
  <1> HIDE DEF q
  <1>3. ASSUME NEW r2, NEW g2, NEW u2, kprintf_numeric(q, ch) = numeric(q, r2, g2, u2),
               RadixOf(ch) = r2, SignOf(ch) = g2, UpperOf(ch) = u2
        PROVE  kprintf_numeric(q, ch) = Locals(s, l, RadixOf(ch), SignOf(ch), YES, UpperOf(ch), w, p)
    BY <1>2, <1>3
  <1>4. CASE ch \in {"d", "i"}
    <2>1. kprintf_numeric(q, ch) = numeric(q, 10, YES, NO)
      BY <1>1, <1>4, Zenon DEF kprintf_numeric, YES
    <2>2. RadixOf(ch) = 10
      BY <1>4 DEF RadixOf
    <2>3. SignOf(ch) = YES
      BY <1>4, Zenon DEF SignOf, YES
    <2>4. UpperOf(ch) = NO
      <3>1. ch # "X"
        BY <1>4
      <3> QED BY <3>1, Zenon DEF UpperOf, NO
    <2> QED BY <1>3, <2>1, <2>2, <2>3, <2>4
  <1>5. CASE ch = "u"
    <2>0. ch \notin {"d", "i"} /\ ch # "X"
      BY <1>5
    <2>1. kprintf_numeric(q, ch) = numeric(q, 10, NO, NO)
      BY <1>1, <1>5, Zenon DEF kprintf_numeric, NO
    <2>2. RadixOf(ch) = 10
      BY <1>5 DEF RadixOf
    <2>3. SignOf(ch) = NO
      BY <2>0 DEF SignOf, NO
    <2>4. UpperOf(ch) = NO
      BY <2>0, Zenon DEF UpperOf, NO
    <2> QED BY <1>3, <2>1, <2>2, <2>3, <2>4
  <1>6. CASE ch = "X"
    <2>0. ch \notin {"d", "i"}
      BY <1>6
    <2>1. kprintf_numeric(q, ch) = numeric(q, 16, NO, YES)
      BY <1>1, <1>6, Zenon DEF kprintf_numeric, NO, YES
    <2>2. RadixOf(ch) = 16
      BY <1>6 DEF RadixOf
    <2>3. SignOf(ch) = NO
      BY <2>0 DEF SignOf, NO
    <2>4. UpperOf(ch) = YES
      BY <1>6, Zenon DEF UpperOf, YES
    <2> QED BY <1>3, <2>1, <2>2, <2>3, <2>4
  <1>7. CASE ch \in {"x", "p"}
    <2>0. ch \notin {"d", "i"} /\ ch # "X"
      BY <1>7
    <2>1. kprintf_numeric(q, ch) = numeric(q, 16, NO, NO)
      BY <1>1, <1>7, Zenon DEF kprintf_numeric, NO
    <2>2. RadixOf(ch) = 16
      BY <1>7 DEF RadixOf
    <2>3. SignOf(ch) = NO
      BY <2>0 DEF SignOf, NO
    <2>4. UpperOf(ch) = NO
      BY <2>0, Zenon DEF UpperOf, NO
    <2> QED BY <1>3, <2>1, <2>2, <2>3, <2>4
  <1>8. CASE ch = "o"
    <2>0. ch \notin {"d", "i"} /\ ch # "X"
      BY <1>8
    <2>1. kprintf_numeric(q, ch) = numeric(q, 8, NO, NO)
      BY <1>1, <1>8, Zenon DEF kprintf_numeric, NO
    <2>2. RadixOf(ch) = 8
      BY <1>8 DEF RadixOf
    <2>3. SignOf(ch) = NO
      BY <2>0 DEF SignOf, NO
    <2>4. UpperOf(ch) = NO
      BY <2>0, Zenon DEF UpperOf, NO
    <2> QED BY <1>3, <2>1, <2>2, <2>3, <2>4
  <1>9. ch \in {"d", "i"} \/ ch = "u" \/ ch = "X" \/ ch \in {"x", "p"} \/ ch = "o"
    BY DEF NumberChars
  <1> QED BY <1>4, <1>5, <1>6, <1>7, <1>8, <1>9

(* Reading the arguments.                                                  *)
LEMMA ArgumentsRead ==
    ASSUME NEW x
    PROVE  /\ after(<<x>>, 0) = <<x>> /\ after(<<x>>, 1) = <<>> /\ va_arg(<<x>>) = x
           /\ after(<<>>, 0) = <<>> /\ <<>> \o <<x>> = <<x>> /\ <<>> \o <<>> = <<>>
  <1>1. after(<<x>>, 0) = <<x>>
    <2>1. <<x>> \in Seq({x}) /\ Len(<<x>>) = 1 /\ 0 + 1 = 1
      OBVIOUS
    <2>2. SubSeq(<<x>>, 1, 1) = <<x>>
      BY <2>1, SubSeqFull
    <2> QED BY <2>1, <2>2, Zenon DEF after
  <1>2. after(<<x>>, 1) = <<>>
    <2>1. Len(<<x>>) = 1 /\ 1 + 1 = 2
      OBVIOUS
    <2>2. SubSeq(<<x>>, 2, 1) = <<>>
      BY SubSeqEmpty
    <2> QED BY <2>1, <2>2, Zenon DEF after
  <1>3. va_arg(<<x>>) = x
    BY DEF va_arg
  <1>4. after(<<>>, 0) = <<>>
    <2>1. Len(<<>>) = 0 /\ 0 + 1 = 1
      OBVIOUS
    <2>2. SubSeq(<<>>, 1, 0) = <<>>
      BY SubSeqEmpty
    <2> QED BY <2>1, <2>2, Zenon DEF after
  <1>5. <<>> \o <<x>> = <<x>> /\ <<>> \o <<>> = <<>>
    OBVIOUS
  <1> QED BY <1>1, <1>2, <1>3, <1>4, <1>5

-----------------------------------------------------------------------------
(*------------------------ kprintf's conversions --------------------------*)

(* A padded number is a text.                                              *)
LEMMA SpelledSeq ==
    ASSUME NEW n \in Int, NEW r \in Radices, NEW u, NEW width \in Int, NEW flagged
    PROVE  Spelled(n, r, u, width, flagged) \in Seq(Glyphs(u))
  <1> DEFINE G      == Glyphs(u)
             sign   == IF n < 0 THEN <<"-">> ELSE <<>>
             m      == IF n < 0 THEN -n ELSE n
             digits == Numeral(m, r, u)
             gap    == width - Len(sign) - Len(digits)
  <1>1. m \in Nat
    OBVIOUS
  <1>2. "-" \in G /\ SPACE \in G /\ "0" \in G
    BY DEF Glyphs
  <1>3. sign \in Seq(G) /\ Len(sign) \in Int
    <2> HIDE DEF G
    <2>1. <<"-">> \in Seq(G) /\ <<>> \in Seq(G)
      BY <1>2
    <2> QED BY <2>1
  <1>4. digits \in Seq(G) /\ Len(digits) \in Int
    <2> HIDE DEF m
    <2> QED BY <1>1, NumeralSeq, NumeralLen
  <1>5. Spelled(n, r, u, width, flagged)
          = IF flagged THEN sign \o times("0", gap) \o digits ELSE times(SPACE, gap) \o sign \o digits
    BY Zenon DEF Spelled
  <1> HIDE DEF G, sign, m, digits
  <1>6. gap \in Int
    BY <1>3, <1>4
  <1> HIDE DEF gap
  <1>7. times("0", gap) \in Seq(G) /\ times(SPACE, gap) \in Seq(G)
    BY <1>2, <1>6, TimesSeq
  <1>8. /\ sign \o times("0", gap) \o digits \in Seq(G)
        /\ times(SPACE, gap) \o sign \o digits \in Seq(G)
    BY <1>3, <1>4, <1>7
  <1> QED BY <1>5, <1>8, Zenon DEF G

(* Whether the conversion has the flag 0.                                  *)
FlagOf(c) == PadOf(c) = "0"

(* A number in C's terms.                                                  *)
LEMMA CNumberSpelled ==
    ASSUME NEW c, Spelling(c), c # <<>>, NEW ch \in Alphabet, ch \in NumberChars, NEW word
    PROVE  LET s == Append(c, ch)
           IN  /\ CNumber(s, word) = Spelled(CValue(s, word), RadixOf(ch), UpperOf(ch), WidthOf(c), FlagOf(c))
               /\ Last(s) = ch /\ WidthOf(s) = WidthOf(c) /\ (Flagged(s) <=> FlagOf(c))
               /\ Occurs("h", s) = Occurs("h", c) /\ Occurs("l", s) = Occurs("l", c)
               /\ TakesWord(s) /\ ~TakesText(s) /\ ~TakesDouble(s) /\ ~IsDigit(ch)
  <1> DEFINE s == Append(c, ch)
             n == CValue(s, word)
             radix == CASE Last(s) \in {"d", "i", "u"} -> 10
                        [] Last(s) = "o" -> 8
                        [] OTHER -> 16
             up == Last(s) = "X"
  <1>1. /\ c \in Seq(Alphabet) /\ s \in Seq(Alphabet) /\ s # <<>> /\ Len(s) = Len(c) + 1
        /\ Len(c) \in Nat \ {0} /\ Last(s) = ch /\ (Len(c) > 1 => s[2] = c[2]) /\ (Len(c) = 1 => s[2] = ch)
    BY ConversionAppend DEF Spelling
  <1>2. ~IsDigit(ch) /\ ch # "h" /\ ch # "l" /\ ch # "0"
    <2>1. ch \in {"d", "i", "u", "X", "x", "p", "o"}
      BY DEF NumberChars
    <2>2. ~IsDigit(ch)
      BY <2>1, Letters
    <2> QED BY <2>1, <2>2
  <1>3. WidthOf(s) = WidthOf(c)
    BY <1>1, <1>2, WidthAppend
  <1>4. Occurs("h", s) = Occurs("h", c) /\ Occurs("l", s) = Occurs("l", c)
    BY <1>1, <1>2, OccursAppend
  <1>5. CNumber(s, word) = Spelled(n, radix, up, WidthOf(s), Flagged(s))
    <2> HIDE DEF s
    <2> QED BY Zenon DEF CNumber, Spelled
  <1> HIDE DEF s
  <1>6. radix = RadixOf(ch)
    BY <1>1 DEF RadixOf
  <1>7. up = UpperOf(ch)
    BY <1>1, Zenon DEF UpperOf
  <1>8. Flagged(s) <=> FlagOf(c)
    <2>1. CASE Len(c) = 1
      <3>1. PadOf(c) = SPACE
        BY <2>1 DEF PadOf
      <3>2. ~FlagOf(c)
        BY <3>1, SpaceApart, Zenon DEF FlagOf
      <3>3. ~Flagged(s)
        BY <1>1, <2>1 DEF Flagged
      <3> QED BY <3>2, <3>3
    <2>2. CASE Len(c) # 1
      <3>1. Len(c) > 1 /\ Len(s) > 2
        <4> DEFINE a == Len(c)
                   b == Len(s)
        <4>1. a \in Nat \ {0} /\ b = a + 1 /\ a # 1
          BY <1>1, <2>2
        <4> HIDE DEF a, b
        <4>2. a > 1 /\ b > 2
          BY <4>1
        <4> QED BY <4>2 DEF a, b
      <3>2. Flagged(s) <=> c[2] = "0"
        BY <1>1, <3>1 DEF Flagged
      <3>3. CASE c[2] = "0"
        <4>1. PadOf(c) = "0"
          BY <3>1, <3>3 DEF PadOf
        <4> QED BY <3>2, <3>3, <4>1 DEF FlagOf
      <3>4. CASE c[2] # "0"
        <4>1. PadOf(c) = SPACE
          BY <3>1, <3>4 DEF PadOf
        <4>2. ~FlagOf(c)
          BY <4>1, SpaceApart, Zenon DEF FlagOf
        <4> QED BY <3>2, <3>4, <4>2
      <3> QED BY <3>3, <3>4
    <2> QED BY <2>1, <2>2
  <1>9. Flagged(s) = FlagOf(c)
    BY <1>8, Zenon DEF Flagged, FlagOf
  <1> HIDE DEF radix, up, n
  <1>10. CNumber(s, word) = Spelled(n, RadixOf(ch), UpperOf(ch), WidthOf(c), FlagOf(c))
    BY <1>3, <1>5, <1>6, <1>7, <1>9
  <1>11. TakesWord(s) /\ ~TakesText(s) /\ ~TakesDouble(s)
    BY <1>1 DEF TakesWord, TakesText, TakesDouble, NumberChars
  <1> QED BY <1>1, <1>2, <1>3, <1>4, <1>8, <1>10, <1>11 DEF s, n

(* A conversion of a number: one argument is read, and what was set is     *)
(* forgotten.                                                              *)
LEMMA KprintfNumber ==
    ASSUME NEW c, Spelling(c), c # <<>>, NEW ch \in Alphabet, ch \in NumberChars, NEW slot,
           slot.word \in 0..(LONG - 1)
    PROVE  \E text :
              /\ kprintf_spec(Locals("CONVERT", LengthOf(c), 10, NO, NO, NO, WidthOf(c), PadOf(c)), ch, <<slot>>)
                    = Gives(fresh, text, <<>>)
              /\ KprintfTells(Append(c, ch), slot.word) => text = CNumber(Append(c, ch), slot.word)
  <1> DEFINE s     == Append(c, ch)
             p     == Locals("CONVERT", LengthOf(c), 10, NO, NO, NO, WidthOf(c), PadOf(c))
             q     == kprintf_numeric(p, ch)
             taken == IF ch \in {"c", "s"} THEN 1 ELSE 0
             plain == IF taken = 1 THEN va_arg(<<slot>>).text ELSE IF ch = "%" THEN <<"%">> ELSE <<>>
             rest  == after(<<slot>>, taken)
             n     == kprintf_value(q, va_arg(rest).word)
             text  == IF q.sign THEN printf_signed(n, q.radix, q.width, q.padding, q.uppercase)
                      ELSE printf_unsigned(n, q.radix, q.width, q.padding, q.uppercase)
  <1>1. kprintf_spec(p, ch, <<slot>>)
          = IF q.number THEN Gives(fresh, plain \o text, after(rest, 1)) ELSE Gives(fresh, plain, rest)
    BY Zenon DEF kprintf_spec, reset
  <1>2. /\ CNumber(s, slot.word) = Spelled(CValue(s, slot.word), RadixOf(ch), UpperOf(ch), WidthOf(c), FlagOf(c))
        /\ Last(s) = ch /\ Occurs("h", s) = Occurs("h", c) /\ Occurs("l", s) = Occurs("l", c)
    BY CNumberSpelled
  <1>3. q = Locals("CONVERT", LengthOf(c), RadixOf(ch), SignOf(ch), YES, UpperOf(ch), WidthOf(c), PadOf(c))
    BY NumberLocals
  <1> HIDE DEF p, s
  <1>4. /\ q.length = LengthOf(c) /\ q.radix = RadixOf(ch) /\ q.sign = SignOf(ch) /\ q.number = YES
        /\ q.uppercase = UpperOf(ch) /\ q.width = WidthOf(c) /\ q.padding = PadOf(c)
    <2> HIDE DEF q
    <2> QED BY <1>3, LocalsRead
  <1>5. taken = 0 /\ taken # 1 /\ ch # "%"
    BY DEF NumberChars
  <1>6. plain = <<>>
    BY <1>5, Zenon
  <1> HIDE DEF q, taken, plain
  <1>7. rest = <<slot>> /\ after(rest, 1) = <<>> /\ va_arg(rest) = slot
    BY <1>5, ArgumentsRead, Zenon
  <1> HIDE DEF rest
  <1>8. q.number
    BY <1>4, Zenon DEF YES
  <1>9. kprintf_spec(p, ch, <<slot>>) = Gives(fresh, <<>> \o text, <<>>)
    BY <1>1, <1>6, <1>7, <1>8, Zenon
  <1>10. KprintfTells(s, slot.word) => <<>> \o text = CNumber(s, slot.word)
    <2> SUFFICES ASSUME KprintfTells(s, slot.word) PROVE <<>> \o text = CNumber(s, slot.word)
      OBVIOUS
    <2>1. n = CValue(s, slot.word)
      <3>1. kprintf_value(q, slot.word) = CValue(s, slot.word)
        BY <1>2, <1>4, KprintfValue
      <3> QED BY <1>7, <3>1, Zenon
    <2> HIDE DEF n
    <2>2. slot.word \in Nat
      BY Sizes
    <2>3. n \in Int /\ (~SignOf(ch) => n \in Nat)
      <3>1. CValue(s, slot.word) \in Int /\ (Last(s) \notin {"d", "i"} => CValue(s, slot.word) \in 0..(LONG - 1))
        BY <2>2, CValues
      <3>2. ~SignOf(ch) => Last(s) \notin {"d", "i"}
        BY <1>2 DEF SignOf
      <3> HIDE DEF s
      <3>3. n \in Int /\ (~SignOf(ch) => n \in 0..(LONG - 1)) /\ LONG \in Nat
        BY <2>1, <3>1, <3>2, Sizes
      <3> QED BY <3>3
    <2>4. RadixOf(ch) \in Radices /\ WidthOf(c) \in Nat /\ WidthOf(c) \in Int /\ PadOf(c) \in {SPACE, "0"}
      <3>1. RadixOf(ch) \in Radices
        BY DEF RadixOf, Radices
      <3>2. PadOf(c) \in {SPACE, "0"}
        BY DEF PadOf
      <3>3. WidthOf(c) \in 0..(Power(10, MaxDigits) - 1)
        BY DEF Spelling
      <3> DEFINE m == Power(10, MaxDigits) - 1
                 x == WidthOf(c)
      <3>4. x \in 0..m
        BY <3>3
      <3> HIDE DEF m, x
      <3>5. x \in Nat /\ x \in Int
        BY <3>4
      <3> QED BY <3>1, <3>2, <3>5 DEF x
    <2>5. text = Spelled(n, RadixOf(ch), UpperOf(ch), WidthOf(c), FlagOf(c))
      <3>1. CASE SignOf(ch)
        <4>1. text = printf_signed(n, RadixOf(ch), WidthOf(c), PadOf(c), UpperOf(ch))
          BY <1>4, <3>1, Zenon
        <4>2. printf_signed(n, RadixOf(ch), WidthOf(c), PadOf(c), UpperOf(ch))
                = Spelled(n, RadixOf(ch), UpperOf(ch), WidthOf(c), PadOf(c) = "0")
          BY <2>3, <2>4, KprintfSigned, Zenon
        <4> QED BY <4>1, <4>2, Zenon DEF FlagOf
      <3>2. CASE ~SignOf(ch)
        <4>1. text = printf_unsigned(n, RadixOf(ch), WidthOf(c), PadOf(c), UpperOf(ch))
          BY <1>4, <3>2, Zenon
        <4>2. printf_unsigned(n, RadixOf(ch), WidthOf(c), PadOf(c), UpperOf(ch))
                = Spelled(n, RadixOf(ch), UpperOf(ch), WidthOf(c), PadOf(c) = "0")
          BY <2>3, <2>4, <3>2, UnsignedSpelled, Zenon
        <4> QED BY <4>1, <4>2, Zenon DEF FlagOf
      <3> QED BY <3>1, <3>2
    <2> HIDE DEF text
    <2>6. text \in Seq(Glyphs(UpperOf(ch)))
      BY <2>3, <2>4, <2>5, SpelledSeq
    <2>7. <<>> \o text = text
      BY <2>6, ConcatEmptySeq
    <2> QED BY <1>2, <2>1, <2>5, <2>7, Zenon
  <1> HIDE DEF text
  <1>11. \E t : /\ kprintf_spec(p, ch, <<slot>>) = Gives(fresh, t, <<>>)
                /\ KprintfTells(s, slot.word) => t = CNumber(s, slot.word)
    BY <1>9, <1>10
  <1> QED BY <1>11 DEF p, s

(* Any other: a text is read and printed, the rest print at most a %.      *)
LEMMA KprintfOther ==
    ASSUME NEW c, NEW ch, ch \notin NumberChars, NEW slot
    PROVE  LET p == Locals("CONVERT", LengthOf(c), 10, NO, NO, NO, WidthOf(c), PadOf(c))
           IN  /\ ch \in {"c", "s"} => kprintf_spec(p, ch, <<slot>>) = Gives(fresh, slot.text, <<>>)
               /\ ch \notin {"c", "s"} =>
                     kprintf_spec(p, ch, <<>>) = Gives(fresh, IF ch = "%" THEN <<"%">> ELSE <<>>, <<>>)
  <1> DEFINE p     == Locals("CONVERT", LengthOf(c), 10, NO, NO, NO, WidthOf(c), PadOf(c))
             q     == kprintf_numeric(p, ch)
             taken == IF ch \in {"c", "s"} THEN 1 ELSE 0
             plain(args) == IF taken = 1 THEN va_arg(args).text ELSE IF ch = "%" THEN <<"%">> ELSE <<>>
             rest(args)  == after(args, taken)
             n(args)     == kprintf_value(q, va_arg(rest(args)).word)
             text(args)  == IF q.sign THEN printf_signed(n(args), q.radix, q.width, q.padding, q.uppercase)
                            ELSE printf_unsigned(n(args), q.radix, q.width, q.padding, q.uppercase)
  <1>1. \A args : kprintf_spec(p, ch, args)
          = IF q.number THEN Gives(fresh, plain(args) \o text(args), after(rest(args), 1))
            ELSE Gives(fresh, plain(args), rest(args))
    BY Zenon DEF kprintf_spec, reset
  <1>2. p.number = NO
    BY LocalsRead
  <1> HIDE DEF p
  <1>3. q = p
    <2>1. /\ ch \notin {"d", "i"} /\ ch # "u" /\ ch # "X" /\ ch \notin {"x", "p"} /\ ch # "o"
      BY DEF NumberChars
    <2> QED BY <2>1, Zenon DEF kprintf_numeric
  <1>4. ~q.number
    BY <1>2, <1>3, Zenon DEF NO
  <1> HIDE DEF q
  <1>5. \A args : kprintf_spec(p, ch, args) = Gives(fresh, plain(args), rest(args))
    BY <1>1, <1>4, Zenon
  <1>6. CASE ch \in {"c", "s"}
    <2>1. taken = 1
      BY <1>6, Zenon
    <2>2. va_arg(<<slot>>) = slot /\ after(<<slot>>, 1) = <<>>
      BY ArgumentsRead
    <2> HIDE DEF taken
    <2>3. plain(<<slot>>) = slot.text /\ rest(<<slot>>) = <<>>
      BY <2>1, <2>2, Zenon
    <2> HIDE DEF plain, rest
    <2>4. kprintf_spec(p, ch, <<slot>>) = Gives(fresh, slot.text, <<>>)
      BY <1>5, <2>3, Zenon
    <2> QED BY <1>6, <2>4, Zenon DEF p
  <1>7. CASE ch \notin {"c", "s"}
    <2>1. taken = 0
      BY <1>7, Zenon
    <2>2. after(<<>>, 0) = <<>>
      BY ArgumentsRead
    <2> HIDE DEF taken
    <2>6. taken # 1
      BY <2>1
    <2>3. plain(<<>>) = IF ch = "%" THEN <<"%">> ELSE <<>>
      BY <2>6, Zenon
    <2>4. rest(<<>>) = <<>>
      BY <2>1, <2>2, Zenon
    <2> HIDE DEF plain, rest
    <2>5. kprintf_spec(p, ch, <<>>) = Gives(fresh, IF ch = "%" THEN <<"%">> ELSE <<>>, <<>>)
      BY <1>5, <2>3, <2>4, Zenon
    <2> QED BY <1>7, <2>5, Zenon DEF p
  <1> QED BY <1>6, <1>7

-----------------------------------------------------------------------------
(*-------------------------- vsprintf's locals ----------------------------*)

(* vsprintf's record of locals, named local by local.                      *)
LEMMA RecordIsLocals ==
    ASSUME NEW p \in VLocals
    PROVE  /\ p = Locals(p.state, "DEFAULT", p.radix, p.sign, p.number, p.uppercase, p.width, p.padding)
           /\ p.state \in VStates /\ p.radix \in Radices /\ p.sign \in Truths /\ p.number \in Truths
           /\ p.uppercase \in Truths /\ p.width \in 0..(Power(10, MaxDigits) - 1) /\ p.padding \in {SPACE, "0"}
  <1> DEFINE W == 0..(Power(10, MaxDigits) - 1)
             D == {SPACE, "0"}
  <1>1. p \in [state : VStates, length : {"DEFAULT"}, radix : Radices, sign : Truths, number : Truths,
               uppercase : Truths, width : W, padding : D]
    BY Zenon DEF VLocals
  <1> HIDE DEF W, D
  <1>2. /\ p = Locals(p.state, "DEFAULT", p.radix, p.sign, p.number, p.uppercase, p.width, p.padding)
        /\ p.state \in VStates /\ p.radix \in Radices /\ p.sign \in Truths /\ p.number \in Truths
        /\ p.uppercase \in Truths /\ p.width \in W /\ p.padding \in D
    BY <1>1 DEF Locals
  <1> QED BY <1>2 DEF W, D

(* Locals in their ranges are vsprintf's record.                           *)
LEMMA LocalsAreRecord ==
    ASSUME NEW s \in VStates, NEW r \in Radices, NEW g \in Truths, NEW n \in Truths, NEW u \in Truths,
           NEW w \in 0..(Power(10, MaxDigits) - 1), NEW p \in {SPACE, "0"}
    PROVE  Locals(s, "DEFAULT", r, g, n, u, w, p) \in VLocals
  <1> DEFINE W == 0..(Power(10, MaxDigits) - 1)
             D == {SPACE, "0"}
             q == Locals(s, "DEFAULT", r, g, n, u, w, p)
  <1>1. w \in W /\ p \in D
    OBVIOUS
  <1> HIDE DEF W, D
  <1>2. q \in [state : VStates, length : {"DEFAULT"}, radix : Radices, sign : Truths, number : Truths,
               uppercase : Truths, width : W, padding : D]
    BY <1>1 DEF Locals
  <1> HIDE DEF q
  <1>3. q \in VLocals
    BY <1>2, Zenon DEF VLocals, W, D
  <1> QED BY <1>3 DEF q

(* What the conversions set is true or false.                              *)
LEMMA TruthsAre == NO \in Truths /\ YES \in Truths /\ \A ch : SignOf(ch) \in Truths /\ UpperOf(ch) \in Truths
  <1>1. NO \in Truths
    BY Zenon DEF NO, Truths
  <1>2. YES \in Truths
    BY Zenon DEF YES, Truths
  <1>3. \A ch : SignOf(ch) \in Truths /\ UpperOf(ch) \in Truths
    BY DEF SignOf, UpperOf, Truths
  <1> QED BY <1>1, <1>2, <1>3, Zenon

(* The radix of a conversion is one of the three.                          *)
LEMMA RadixIs == \A ch : RadixOf(ch) \in Radices
  BY DEF RadixOf, Radices

(* In a length vsprintf has no case for, every character is passed over.   *)
LEMMA VsprintfStuck ==
    ASSUME NEW p, Stuck(p), NEW ch, NEW args, NEW double
    PROVE  vsprintf(p, ch, args, double) = Gives(p, <<>>, args)
  <1>1. p.state # "NORMAL" /\ p.state # "CONVERT" /\ p.state \in {"LENGTH_SHORT", "LENGTH_LONG"}
    BY DEF Stuck
  <1>2. vsprintf_prefix(p, ch) = p
    BY <1>1, Zenon DEF vsprintf_prefix
  <1> QED BY <1>1, <1>2, Zenon DEF vsprintf

(* Outside conversions it prints what it reads, until a %.                 *)
LEMMA VsprintfLiteral ==
    ASSUME NEW p, InStep(p, <<>>), NEW ch \in Alphabet, NEW args, NEW double
    PROVE  IF ch = "%" THEN /\ vsprintf(p, ch, args, double) = Gives(percent(p), <<>>, args)
                            /\ InStep(percent(p), <<"%">>)
           ELSE vsprintf(p, ch, args, double) = Gives(p, <<ch>>, args)
  <1>1. p \in VLocals /\ p.state = "NORMAL"
    BY Zenon DEF InStep
  <1>2. CASE ch = "%"
    <2>1. vsprintf(p, ch, args, double) = Gives(percent(p), <<>>, args)
      BY <1>1, <1>2, Zenon DEF vsprintf
    <2>2. /\ Unprefixed(<<"%">>) /\ WidthOf(<<"%">>) = 0 /\ PadOf(<<"%">>) = SPACE
          /\ FlagsOf(<<"%">>) = "FLAGS"
      BY <1>2, PercentSpelled
    <2> DEFINE q == percent(p)
    <2>3. q = Locals("FLAGS", "DEFAULT", p.radix, p.sign, p.number, NO, 0, SPACE)
      <3>1. p = Locals(p.state, "DEFAULT", p.radix, p.sign, p.number, p.uppercase, p.width, p.padding)
        BY <1>1, RecordIsLocals
      <3> DEFINE s == p.state
                 r == p.radix
                 g == p.sign
                 n == p.number
                 u == p.uppercase
                 w == p.width
                 d == p.padding
      <3> HIDE DEF s, r, g, n, u, w, d
      <3>2. percent(Locals(s, "DEFAULT", r, g, n, u, w, d)) = Locals("FLAGS", "DEFAULT", r, g, n, NO, 0, SPACE)
        BY PercentLocals
      <3> QED BY <3>1, <3>2, Zenon DEF s, r, g, n, u, w, d
    <2> HIDE DEF q
    <2>4. q \in VLocals
      <3>1. "FLAGS" \in VStates /\ SPACE \in {SPACE, "0"} /\ NO \in Truths
        BY TruthsAre DEF VStates
      <3>2. 0 \in 0..(Power(10, MaxDigits) - 1)
        <4> DEFINE m == Power(10, MaxDigits)
        <4>1. m \in Nat \ {0}
          BY BoundAssumption, PowerTen
        <4> HIDE DEF m
        <4>2. 0 \in 0..(m - 1)
          BY <4>1
        <4> QED BY <4>2 DEF m
      <3>3. p.radix \in Radices /\ p.sign \in Truths /\ p.number \in Truths
        BY <1>1, RecordIsLocals
      <3> QED BY <2>3, <3>1, <3>2, <3>3, LocalsAreRecord
    <2>5. q.state = "FLAGS" /\ q.width = 0 /\ q.padding = SPACE /\ q.uppercase = NO
      BY <2>3, LocalsRead
    <2>6. ~Stuck(q)
      BY <2>5 DEF Stuck
    <2>7. <<"%">> # <<>>
      OBVIOUS
    <2>8. InStep(q, <<"%">>)
      BY <2>2, <2>4, <2>5, <2>6, <2>7, Zenon DEF InStep
    <2> QED BY <1>2, <2>1, <2>8 DEF q
  <1>3. CASE ch # "%"
    BY <1>1, <1>3, Zenon DEF vsprintf
  <1> QED BY <1>2, <1>3

(* It takes the characters of a flag and a width as C does, and is stuck   *)
(* from a length on.                                                       *)
LEMMA VsprintfSpells ==
    ASSUME NEW c, Spelling(c), c # <<>>, NEW p, InStep(p, c), NEW ch \in Alphabet, Continues(c, ch),
           IsDigit(ch) => Len(c) <= MaxDigits, NEW args, NEW double
    PROVE  \E q : /\ vsprintf(p, ch, args, double) = Gives(q, <<>>, args) /\ q \in VLocals
                  /\ InStep(q, Append(c, ch)) \/ (Stuck(q) /\ ch \in {"h", "l"})
  <1> DEFINE s == Append(c, ch)
             L(st, w, d) == Locals(st, "DEFAULT", p.radix, p.sign, p.number, p.uppercase, w, d)
  <1>1. /\ p \in VLocals /\ Unprefixed(c) /\ p.state = FlagsOf(c) /\ p.width = WidthOf(c)
        /\ p.padding = PadOf(c) /\ p.uppercase = NO
    BY Zenon DEF InStep
  <1>2. p.state # "NORMAL" /\ p.state \notin {"LENGTH_SHORT", "LENGTH_LONG"}
    BY <1>1 DEF FlagsOf
  <1>3. /\ p = L(p.state, p.width, p.padding)
        /\ p.radix \in Radices /\ p.sign \in Truths /\ p.number \in Truths /\ p.uppercase \in Truths
        /\ p.width \in 0..(Power(10, MaxDigits) - 1) /\ p.padding \in {SPACE, "0"}
    BY <1>1, RecordIsLocals
  <1>4. ASSUME NEW st \in VStates, NEW w \in 0..(Power(10, MaxDigits) - 1), NEW d \in {SPACE, "0"}
        PROVE  /\ L(st, w, d) \in VLocals /\ L(st, w, d).state = st /\ L(st, w, d).width = w
               /\ L(st, w, d).padding = d /\ L(st, w, d).uppercase = NO
    BY <1>1, <1>3, LocalsAreRecord, LocalsRead
  <1>5. s # <<>>
    BY ConversionAppend DEF Spelling
  <1>6. CASE IsDigit(ch)
    <2>1. /\ Spelling(s) /\ Unprefixed(s) /\ WidthOf(s) = WidthOf(c) * 10 + digit(ch) /\ FlagsOf(s) = "WIDTH"
          /\ PadOf(s) = IF Len(c) = 1 /\ ch = "0" THEN "0" ELSE PadOf(c)
      BY <1>6, DigitSpelled
    <2>2. vsprintf_prefix(p, ch) = flags_or_width(p, ch)
      <3>1. ch # "h" /\ ch # "l"
        BY <1>6, Letters
      <3> QED BY <1>2, <1>6, <3>1, Zenon DEF vsprintf_prefix
    <2> DEFINE q == L("WIDTH", WidthOf(s), PadOf(s))
    <2>3. flags_or_width(p, ch) = q
      <3>1. CASE Len(c) = 1 /\ ch = "0"
        <4>1. p.state = "FLAGS"
          BY <1>1, <3>1 DEF FlagsOf
        <4>2. WidthOf(c) = 0
          BY <1>1, <3>1, FirstWidth
        <4>3. WidthOf(s) = 0 /\ PadOf(s) = "0"
          BY <2>1, <3>1, <4>2, ZeroDigit
        <4>4. flags_or_width(p, ch) = Padded(p, "0", "WIDTH")
          BY <3>1, <4>1, Zenon DEF flags_or_width, Padded
        <4>5. Padded(p, "0", "WIDTH") = L("WIDTH", p.width, "0")
          BY <1>3, LocalsPadded
        <4> QED BY <1>1, <4>2, <4>3, <4>4, <4>5, Zenon
      <3>2. CASE ~(Len(c) = 1 /\ ch = "0")
        <4>1. ~(p.state = "FLAGS" /\ ch = "0")
          BY <1>1, <3>2 DEF FlagsOf
        <4>2. flags_or_width(p, ch) = Widened(p, p.width * 10 + digit(ch), "WIDTH")
          BY <4>1, Zenon DEF flags_or_width, Widened
        <4>3. PadOf(s) = PadOf(c)
          BY <2>1, <3>2
        <4>4. Widened(p, p.width * 10 + digit(ch), "WIDTH") = L("WIDTH", p.width * 10 + digit(ch), p.padding)
          BY <1>3, LocalsWidened
        <4> QED BY <1>1, <2>1, <4>2, <4>3, <4>4, Zenon
      <3> QED BY <3>1, <3>2
    <2>4. q \in VLocals /\ q.state = "WIDTH" /\ q.width = WidthOf(s) /\ q.padding = PadOf(s) /\ q.uppercase = NO
      <3>1. "WIDTH" \in VStates
        BY DEF VStates
      <3>2. WidthOf(s) \in 0..(Power(10, MaxDigits) - 1)
        BY <1>5, <2>1 DEF Spelling
      <3>3. PadOf(s) \in {SPACE, "0"}
        BY DEF PadOf
      <3> HIDE DEF s
      <3> QED BY <1>4, <3>1, <3>2, <3>3
    <2> HIDE DEF q, s
    <2>5. ~Stuck(q) /\ q.state # "NORMAL" /\ q.state # "CONVERT"
      BY <2>4 DEF Stuck
    <2>6. InStep(q, s)
      BY <1>5, <2>1, <2>4, <2>5, Zenon DEF InStep
    <2>7. vsprintf(p, ch, args, double) = Gives(q, <<>>, args)
      BY <1>2, <2>2, <2>3, <2>5, Zenon DEF vsprintf
    <2> QED BY <2>4, <2>6, <2>7 DEF s
  <1>7. ASSUME NEW st \in {"LENGTH_SHORT", "LENGTH_LONG"}, ch \in {"h", "l"},
               vsprintf_prefix(p, ch) = [p EXCEPT !.state = st]
        PROVE  \E q : /\ vsprintf(p, ch, args, double) = Gives(q, <<>>, args) /\ q \in VLocals
                      /\ InStep(q, s) \/ (Stuck(q) /\ ch \in {"h", "l"})
    <2> DEFINE q == L(st, p.width, p.padding)
    <2>1. [p EXCEPT !.state = st] = q
      BY <1>3, StateRewritten
    <2>2. st \in VStates
      BY DEF VStates
    <2>3. q \in VLocals /\ q.state = st
      BY <1>3, <1>4, <2>2
    <2> HIDE DEF q
    <2>4. Stuck(q) /\ q.state # "CONVERT"
      BY <2>3 DEF Stuck
    <2>5. vsprintf(p, ch, args, double) = Gives(q, <<>>, args)
      BY <1>2, <1>7, <2>1, <2>4, Zenon DEF vsprintf
    <2> QED BY <1>7, <2>3, <2>4, <2>5
  <1>8. CASE ~IsDigit(ch)
    <2>1. ch \in {"h", "l"}
      BY <1>8 DEF Continues
    <2>2. CASE ch = "h"
      <3>1. vsprintf_prefix(p, ch) = [p EXCEPT !.state = "LENGTH_SHORT"]
        BY <1>2, <1>8, <2>2, Zenon DEF vsprintf_prefix
      <3> QED BY <1>7, <2>1, <3>1
    <2>3. CASE ch = "l"
      <3>1. vsprintf_prefix(p, ch) = [p EXCEPT !.state = "LENGTH_LONG"]
        BY <1>2, <1>8, <2>3, Zenon DEF vsprintf_prefix
      <3> QED BY <1>7, <2>1, <3>1
    <2> QED BY <2>1, <2>2, <2>3
  <1> QED BY <1>6, <1>8

-----------------------------------------------------------------------------
(*----------------------- vsprintf's conversions --------------------------*)

(* The last characters of the numbers that vsprintf has a case for.        *)
VsprintfChars == {"d", "i", "u", "X", "x"}

(* What does not go on is converted, from locals that are as after a %.    *)
LEMMA VsprintfConverts ==
    ASSUME NEW c, Spelling(c), c # <<>>, NEW p, InStep(p, c), NEW ch \in Alphabet, ~Continues(c, ch),
           NEW args, NEW double
    PROVE  vsprintf(p, ch, args, double)
             = vsprintf_spec(Locals("CONVERT", "DEFAULT", p.radix, p.sign, p.number, NO, WidthOf(c), PadOf(c)),
                             ch, args, double)
  <1> DEFINE q == Locals("CONVERT", "DEFAULT", p.radix, p.sign, p.number, NO, WidthOf(c), PadOf(c))
  <1>1. /\ p \in VLocals /\ Unprefixed(c) /\ p.state = FlagsOf(c) /\ p.width = WidthOf(c)
        /\ p.padding = PadOf(c) /\ p.uppercase = NO
    BY Zenon DEF InStep
  <1>2. p.state # "NORMAL" /\ p.state \notin {"LENGTH_SHORT", "LENGTH_LONG"}
    BY <1>1 DEF FlagsOf
  <1>3. ~IsDigit(ch) /\ ch # "h" /\ ch # "l"
    BY <1>1 DEF Continues, Unprefixed
  <1>4. p = Locals(p.state, "DEFAULT", p.radix, p.sign, p.number, p.uppercase, p.width, p.padding)
    BY <1>1, RecordIsLocals
  <1>5. [p EXCEPT !.state = "CONVERT"]
          = Locals("CONVERT", "DEFAULT", p.radix, p.sign, p.number, p.uppercase, p.width, p.padding)
    BY <1>4, StateRewritten
  <1>6. vsprintf_prefix(p, ch) = [p EXCEPT !.state = "CONVERT"]
    BY <1>2, <1>3, Zenon DEF vsprintf_prefix
  <1>7. vsprintf_prefix(p, ch) = q
    BY <1>1, <1>5, <1>6, Zenon
  <1>8. q.state = "CONVERT"
    BY LocalsRead
  <1> HIDE DEF q
  <1>9. vsprintf(p, ch, args, double) = vsprintf_spec(q, ch, args, double)
    BY <1>2, <1>7, <1>8, Zenon DEF vsprintf
  <1> QED BY <1>9 DEF q

(* What a conversion leaves: a number leaves its radix, its sign and its   *)
(* case, any other those of the number before it.                          *)
Left(r, g, w, d, ch) ==
    IF ch \in VsprintfChars
    THEN Locals("CONVERT", "DEFAULT", RadixOf(ch), SignOf(ch), YES, UpperOf(ch), w, d)
    ELSE Locals("CONVERT", "DEFAULT", r, g, NO, NO, w, d)

(* What a conversion of a number leaves in the locals of vsprintf.         *)
LEMMA VsprintfLeft ==
    ASSUME NEW r, NEW g, NEW n, NEW w, NEW d, NEW ch
    PROVE  vsprintf_numeric(vsprintf_unnumber(Locals("CONVERT", "DEFAULT", r, g, n, NO, w, d)), ch)
             = Left(r, g, w, d, ch)
  <1> DEFINE q0 == Locals("CONVERT", "DEFAULT", r, g, n, NO, w, d)
             q  == Locals("CONVERT", "DEFAULT", r, g, NO, NO, w, d)
             p  == vsprintf_numeric(vsprintf_unnumber(q0), ch)
  <1>1. [q0 EXCEPT !.number = NO] = q
    BY NumberWritten
  <1> HIDE DEF q0
  <1>2. vsprintf_unnumber(q0) = q
    BY <1>1, Zenon DEF vsprintf_unnumber, NO
  <1>3. p = vsprintf_numeric(q, ch)
    BY <1>2, Zenon
  <1> HIDE DEF p
  <1>4. p = IF ch \in VsprintfChars
            THEN Locals("CONVERT", "DEFAULT", RadixOf(ch), SignOf(ch), YES, UpperOf(ch), w, d) ELSE q
    <2>1. CASE ch \in VsprintfChars
      <3>1. ch \notin {"o", "p"} /\ ch \in NumberChars
        BY <2>1 DEF VsprintfChars, NumberChars
      <3>2. p = kprintf_numeric(q, ch)
        BY <1>3, <3>1, Zenon DEF vsprintf_numeric
      <3>3. kprintf_numeric(q, ch) = Locals("CONVERT", "DEFAULT", RadixOf(ch), SignOf(ch), YES, UpperOf(ch), w, d)
        BY <3>1, NumberLocals
      <3> QED BY <2>1, <3>2, <3>3, Zenon
    <2>2. CASE ch \notin VsprintfChars
      <3>1. p = q
        <4> HIDE DEF q
        <4>1. ch \in {"o", "p"} \/ (ch \notin {"d", "i"} /\ ch # "u" /\ ch # "X" /\ ch \notin {"x", "p"} /\ ch # "o")
          BY <2>2 DEF VsprintfChars
        <4>2. CASE ch \in {"o", "p"}
          BY <1>3, <4>2, Zenon DEF vsprintf_numeric
        <4>3. CASE ch \notin {"o", "p"}
          <5>1. p = kprintf_numeric(q, ch)
            BY <1>3, <4>3, Zenon DEF vsprintf_numeric
          <5> QED BY <4>1, <4>3, <5>1, Zenon DEF kprintf_numeric
        <4> QED BY <4>2, <4>3
      <3> QED BY <2>2, <3>1, Zenon
    <2> QED BY <2>1, <2>2
  <1> HIDE DEF q
  <1> QED BY <1>4, Zenon DEF Left, p, q, q0

(* Whatever was converted before, it is between conversions again.         *)
LEMMA VsprintfLeaves ==
    ASSUME NEW r \in Radices, NEW g \in Truths, NEW w \in 0..(Power(10, MaxDigits) - 1),
           NEW d \in {SPACE, "0"}, NEW ch
    PROVE  InStep([Left(r, g, w, d, ch) EXCEPT !.state = "NORMAL"], <<>>)
  <1> DEFINE p == Left(r, g, w, d, ch)
             q == Locals("CONVERT", "DEFAULT", r, g, NO, NO, w, d)
             z == [p EXCEPT !.state = "NORMAL"]
  <1>4. p = IF ch \in VsprintfChars
            THEN Locals("CONVERT", "DEFAULT", RadixOf(ch), SignOf(ch), YES, UpperOf(ch), w, d) ELSE q
    BY Zenon DEF Left
  <1> HIDE DEF p
  <1>5. "NORMAL" \in VStates /\ NO \in Truths /\ YES \in Truths /\ SignOf(ch) \in Truths /\ UpperOf(ch) \in Truths
        /\ RadixOf(ch) \in Radices
    <2>1. "NORMAL" \in VStates
      BY DEF VStates
    <2> QED BY <2>1, TruthsAre, RadixIs
  <1>6. z \in VLocals /\ z.state = "NORMAL"
    <2>1. CASE ch \in VsprintfChars
      <3>1. p = Locals("CONVERT", "DEFAULT", RadixOf(ch), SignOf(ch), YES, UpperOf(ch), w, d)
        BY <1>4, <2>1, Zenon
      <3>2. z = Locals("NORMAL", "DEFAULT", RadixOf(ch), SignOf(ch), YES, UpperOf(ch), w, d)
        BY <3>1, StateRewritten
      <3> HIDE DEF z
      <3>3. z \in VLocals
        BY <1>5, <3>2, LocalsAreRecord
      <3>4. z.state = "NORMAL"
        BY <3>2, LocalsRead
      <3> QED BY <3>3, <3>4
    <2>2. CASE ch \notin VsprintfChars
      <3>1. p = q
        BY <1>4, <2>2, Zenon
      <3>2. z = Locals("NORMAL", "DEFAULT", r, g, NO, NO, w, d)
        BY <3>1, StateRewritten
      <3> HIDE DEF z
      <3>3. z \in VLocals
        BY <1>5, <3>2, LocalsAreRecord
      <3>4. z.state = "NORMAL"
        BY <3>2, LocalsRead
      <3> QED BY <3>3, <3>4
    <2> QED BY <2>1, <2>2
  <1> HIDE DEF z
  <1>7. ~Stuck(z)
    BY <1>6 DEF Stuck
  <1>8. InStep(z, <<>>)
    BY <1>6, <1>7, Zenon DEF InStep
  <1> QED BY <1>8, Zenon DEF p, z

(* Whatever arguments there are, a conversion ends in step.                *)
LEMMA VsprintfEnds ==
    ASSUME NEW c, Spelling(c), c # <<>>, NEW p, InStep(p, c), NEW ch \in Alphabet, ~Continues(c, ch),
           NEW args, NEW double
    PROVE  InStep(vsprintf(p, ch, args, double).p, <<>>)
  <1> DEFINE p0    == Locals("CONVERT", "DEFAULT", p.radix, p.sign, p.number, NO, WidthOf(c), PadOf(c))
             q     == vsprintf_numeric(vsprintf_unnumber(p0), ch)
             done  == [q EXCEPT !.state = "NORMAL"]
  <1>1. vsprintf(p, ch, args, double) = vsprintf_spec(p0, ch, args, double)
    BY VsprintfConverts
  <1>2. p \in VLocals /\ WidthOf(c) = p.width /\ PadOf(c) = p.padding
    BY Zenon DEF InStep
  <1>3. /\ p.radix \in Radices /\ p.sign \in Truths /\ p.number \in Truths
        /\ WidthOf(c) \in 0..(Power(10, MaxDigits) - 1) /\ PadOf(c) \in {SPACE, "0"}
    BY <1>2, RecordIsLocals
  <1>4. InStep(done, <<>>)
    <2>1. q = Left(p.radix, p.sign, WidthOf(c), PadOf(c), ch)
      BY VsprintfLeft
    <2>2. InStep([Left(p.radix, p.sign, WidthOf(c), PadOf(c), ch) EXCEPT !.state = "NORMAL"], <<>>)
      BY <1>3, VsprintfLeaves
    <2> HIDE DEF q
    <2> QED BY <2>1, <2>2, Zenon
  <1> HIDE DEF p0
  <1>5. \E text, rest : vsprintf_spec(p0, ch, args, double) = Gives(done, text, rest)
    <2> DEFINE taken == IF ch \in {"c", "s"} THEN 1 ELSE 0
               plain == CASE ch \in {"c", "s"} -> va_arg(args).text
                          [] ch \in {"f", "g"} -> sprintf_float(double, PRECISION)
                          [] ch = "%" -> <<"%">>
                          [] OTHER -> <<>>
               rest  == after(args, taken)
               word  == va_arg(rest).word
               text  == IF q.sign
                        THEN sprintf_signed(Signed(word, LONG), q.radix, q.width, q.padding, q.uppercase)
                        ELSE sprintf_unsigned(word, q.radix, q.width, q.padding, q.uppercase)
    <2>1. vsprintf_spec(p0, ch, args, double)
            = IF q.number THEN Gives(done, plain \o text, after(rest, 1)) ELSE Gives(done, plain, rest)
      BY Zenon DEF vsprintf_spec
    <2> HIDE DEF taken, plain, rest, word, text, q, done
    <2>2. CASE q.number
      BY <2>1, <2>2, Zenon
    <2>3. CASE ~q.number
      BY <2>1, <2>3, Zenon
    <2> QED BY <2>2, <2>3
  <1> HIDE DEF q, done
  <1>6. \A text, rest : Gives(done, text, rest).p = done
    BY DEF Gives
  <1> QED BY <1>1, <1>4, <1>5, <1>6, Zenon

(* A number that vsprintf has a conversion for.                            *)
LEMMA VsprintfNumber ==
    ASSUME NEW c, Spelling(c), c # <<>>, NEW p, InStep(p, c), NEW ch \in Alphabet, ch \in VsprintfChars,
           ~Continues(c, ch), NEW slot, slot.word \in 0..(LONG - 1), NEW double
    PROVE  /\ vsprintf(p, ch, <<slot>>, double).args = <<>>
           /\ VsprintfTells(Append(c, ch), slot.word)
                => vsprintf(p, ch, <<slot>>, double).text = CNumber(Append(c, ch), slot.word)
  <1> DEFINE s     == Append(c, ch)
             p0    == Locals("CONVERT", "DEFAULT", p.radix, p.sign, p.number, NO, WidthOf(c), PadOf(c))
             q     == vsprintf_numeric(vsprintf_unnumber(p0), ch)
             done  == [q EXCEPT !.state = "NORMAL"]
             taken == IF ch \in {"c", "s"} THEN 1 ELSE 0
             plain == CASE ch \in {"c", "s"} -> va_arg(<<slot>>).text
                        [] ch \in {"f", "g"} -> sprintf_float(double, PRECISION)
                        [] ch = "%" -> <<"%">>
                        [] OTHER -> <<>>
             rest  == after(<<slot>>, taken)
             word  == va_arg(rest).word
             text  == IF q.sign
                      THEN sprintf_signed(Signed(word, LONG), q.radix, q.width, q.padding, q.uppercase)
                      ELSE sprintf_unsigned(word, q.radix, q.width, q.padding, q.uppercase)
             result == vsprintf(p, ch, <<slot>>, double)
  <1>1. result = vsprintf_spec(p0, ch, <<slot>>, double)
    BY VsprintfConverts
  <1>2. vsprintf_spec(p0, ch, <<slot>>, double)
          = IF q.number THEN Gives(done, plain \o text, after(rest, 1)) ELSE Gives(done, plain, rest)
    BY Zenon DEF vsprintf_spec
  <1>3. ch \in NumberChars
    BY DEF VsprintfChars, NumberChars
  <1>4. /\ CNumber(s, slot.word) = Spelled(CValue(s, slot.word), RadixOf(ch), UpperOf(ch), WidthOf(c), FlagOf(c))
        /\ Last(s) = ch /\ WidthOf(s) = WidthOf(c) /\ (Flagged(s) <=> FlagOf(c))
    BY <1>3, CNumberSpelled
  <1>5. /\ p.radix \in Radices /\ p.sign \in Truths /\ p.number \in Truths
        /\ WidthOf(c) \in 0..(Power(10, MaxDigits) - 1) /\ PadOf(c) \in {SPACE, "0"}
    <2>1. p \in VLocals /\ WidthOf(c) = p.width /\ PadOf(c) = p.padding
      BY Zenon DEF InStep
    <2> QED BY <2>1, RecordIsLocals
  <1>7. q = Locals("CONVERT", "DEFAULT", RadixOf(ch), SignOf(ch), YES, UpperOf(ch), WidthOf(c), PadOf(c))
    <2>1. q = Left(p.radix, p.sign, WidthOf(c), PadOf(c), ch)
      BY VsprintfLeft
    <2> HIDE DEF q
    <2> QED BY <2>1, Zenon DEF Left
  <1> HIDE DEF p0, q, s, result
  <1>8. /\ q.radix = RadixOf(ch) /\ q.sign = SignOf(ch) /\ q.number = YES
        /\ q.uppercase = UpperOf(ch) /\ q.width = WidthOf(c) /\ q.padding = PadOf(c)
    BY <1>7, LocalsRead
  <1>9. taken = 0 /\ ch \notin {"c", "s"} /\ ch \notin {"f", "g"} /\ ch # "%"
    BY DEF VsprintfChars
  <1>10. plain = <<>>
    BY <1>9, Zenon
  <1> HIDE DEF done, taken, plain
  <1>11. rest = <<slot>> /\ after(rest, 1) = <<>> /\ va_arg(rest) = slot
    BY <1>9, ArgumentsRead, Zenon
  <1> HIDE DEF rest
  <1>12. q.number
    BY <1>8, Zenon DEF YES
  <1>13. result = Gives(done, <<>> \o text, <<>>)
    BY <1>1, <1>2, <1>10, <1>11, <1>12, Zenon
  <1>14. VsprintfTells(s, slot.word) => <<>> \o text = CNumber(s, slot.word)
    <2> SUFFICES ASSUME VsprintfTells(s, slot.word) PROVE <<>> \o text = CNumber(s, slot.word)
      OBVIOUS
    <2> DEFINE n == CValue(s, slot.word)
    <2>1. slot.word \in Nat /\ word = slot.word
      BY <1>11, Sizes
    <2>2. /\ n = IF Last(s) \in {"d", "i"} THEN Signed(slot.word, LONG) ELSE slot.word
          /\ n >= 0 \/ Flagged(s) \/ WidthOf(s) = 0
      BY Zenon DEF VsprintfTells
    <2>3. n \in Int
      BY <2>1, CValues
    <2> HIDE DEF n, word
    <2>4. n = IF SignOf(ch) THEN Signed(slot.word, LONG) ELSE slot.word
      BY <1>4, <2>2, Zenon DEF SignOf
    <2>5. RadixOf(ch) \in Radices /\ WidthOf(c) \in Nat /\ WidthOf(c) \in Int /\ PadOf(c) \in {SPACE, "0"}
      <3> DEFINE m == Power(10, MaxDigits) - 1
                 x == WidthOf(c)
      <3>1. x \in 0..m
        BY <1>5
      <3> HIDE DEF m, x
      <3>2. x \in Nat /\ x \in Int
        BY <3>1
      <3> QED BY <1>5, <3>2, RadixIs DEF x
    <2>6. n >= 0 \/ PadOf(c) = "0" \/ WidthOf(c) = 0
      BY <1>4, <2>2, Zenon DEF FlagOf
    <2>7. text = Spelled(n, RadixOf(ch), UpperOf(ch), WidthOf(c), FlagOf(c))
      <3>1. CASE SignOf(ch)
        <4>1. text = sprintf_signed(n, RadixOf(ch), WidthOf(c), PadOf(c), UpperOf(ch))
          BY <1>8, <2>1, <2>4, <3>1, Zenon
        <4>2. sprintf_signed(n, RadixOf(ch), WidthOf(c), PadOf(c), UpperOf(ch))
                = Spelled(n, RadixOf(ch), UpperOf(ch), WidthOf(c), PadOf(c) = "0")
          BY <2>3, <2>5, <2>6, VsprintfSigned, Zenon
        <4> QED BY <4>1, <4>2, Zenon DEF FlagOf
      <3>2. CASE ~SignOf(ch)
        <4>0. n \in Nat
          BY <2>1, <2>4, <3>2, Zenon
        <4>1. text = sprintf_unsigned(n, RadixOf(ch), WidthOf(c), PadOf(c), UpperOf(ch))
          BY <1>8, <2>1, <2>4, <3>2, Zenon
        <4>2. sprintf_unsigned(n, RadixOf(ch), WidthOf(c), PadOf(c), UpperOf(ch))
                = printf_unsigned(n, RadixOf(ch), WidthOf(c), PadOf(c), UpperOf(ch))
          BY <2>5, <4>0, UnsignedPrinted, Zenon
        <4>3. printf_unsigned(n, RadixOf(ch), WidthOf(c), PadOf(c), UpperOf(ch))
                = Spelled(n, RadixOf(ch), UpperOf(ch), WidthOf(c), PadOf(c) = "0")
          BY <2>5, <4>0, UnsignedSpelled, Zenon
        <4> QED BY <4>1, <4>2, <4>3, Zenon DEF FlagOf
      <3> QED BY <3>1, <3>2
    <2> HIDE DEF text
    <2>8. text \in Seq(Glyphs(UpperOf(ch)))
      BY <2>3, <2>5, <2>7, SpelledSeq
    <2>9. <<>> \o text = text
      BY <2>8, ConcatEmptySeq
    <2> QED BY <1>4, <2>7, <2>9, Zenon DEF n
  <1> HIDE DEF text
  <1>15. result.args = <<>> /\ result.text = <<>> \o text
    BY <1>13 DEF Gives
  <1>16. result.args = <<>> /\ (VsprintfTells(s, slot.word) => result.text = CNumber(s, slot.word))
    BY <1>14, <1>15, Zenon
  <1> QED BY <1>16, Zenon DEF result, s

(* Any other conversion.                                                   *)
LEMMA VsprintfOther ==
    ASSUME NEW c, Spelling(c), c # <<>>, NEW p, InStep(p, c), NEW ch \in Alphabet, ch \notin NumberChars,
           ~Continues(c, ch), NEW slot, NEW double
    PROVE  /\ ch \in {"c", "s"} =>
                 /\ vsprintf(p, ch, <<slot>>, double).text = slot.text
                 /\ vsprintf(p, ch, <<slot>>, double).args = <<>>
           /\ ch \notin {"c", "s"} =>
                 /\ vsprintf(p, ch, <<>>, double).text =
                       IF ch \in {"f", "g"} THEN sprintf_float(double, PRECISION)
                       ELSE IF ch = "%" THEN <<"%">> ELSE <<>>
                 /\ vsprintf(p, ch, <<>>, double).args = <<>>
  <1> DEFINE p0    == Locals("CONVERT", "DEFAULT", p.radix, p.sign, p.number, NO, WidthOf(c), PadOf(c))
             q     == vsprintf_numeric(vsprintf_unnumber(p0), ch)
             done  == [q EXCEPT !.state = "NORMAL"]
             taken == IF ch \in {"c", "s"} THEN 1 ELSE 0
             plain(args) == CASE ch \in {"c", "s"} -> va_arg(args).text
                        [] ch \in {"f", "g"} -> sprintf_float(double, PRECISION)
                        [] ch = "%" -> <<"%">>
                        [] OTHER -> <<>>
             rest(args)  == after(args, taken)
             word(args)  == va_arg(rest(args)).word
             text(args)  == IF q.sign
                      THEN sprintf_signed(Signed(word(args), LONG), q.radix, q.width, q.padding, q.uppercase)
                      ELSE sprintf_unsigned(word(args), q.radix, q.width, q.padding, q.uppercase)
  <1>1. \A args : vsprintf(p, ch, args, double) = vsprintf_spec(p0, ch, args, double)
    BY VsprintfConverts
  <1>2. \A args : vsprintf_spec(p0, ch, args, double)
          = IF q.number THEN Gives(done, plain(args) \o text(args), after(rest(args), 1))
            ELSE Gives(done, plain(args), rest(args))
    BY Zenon DEF vsprintf_spec
  <1>3. ch \notin VsprintfChars
    BY DEF VsprintfChars, NumberChars
  <1>4. /\ p.radix \in Radices /\ p.sign \in Truths /\ p.number \in Truths
        /\ WidthOf(c) \in 0..(Power(10, MaxDigits) - 1) /\ PadOf(c) \in {SPACE, "0"}
    <2>1. p \in VLocals /\ WidthOf(c) = p.width /\ PadOf(c) = p.padding
      BY Zenon DEF InStep
    <2> QED BY <2>1, RecordIsLocals
  <1>6. q = Locals("CONVERT", "DEFAULT", p.radix, p.sign, NO, NO, WidthOf(c), PadOf(c))
    <2>1. q = Left(p.radix, p.sign, WidthOf(c), PadOf(c), ch)
      BY VsprintfLeft
    <2> HIDE DEF q
    <2> QED BY <1>3, <2>1, Zenon DEF Left
  <1> HIDE DEF p0, q
  <1>7. q.number = NO
    BY <1>6, LocalsRead
  <1>8. ~q.number
    BY <1>7, Zenon DEF NO
  <1> HIDE DEF done
  <1>9. \A args : vsprintf(p, ch, args, double) = Gives(done, plain(args), rest(args))
    BY <1>1, <1>2, <1>8, Zenon
  <1>10. \A t, r : Gives(done, t, r).text = t /\ Gives(done, t, r).args = r
    BY DEF Gives
  <1>11. CASE ch \in {"c", "s"}
    <2>1. taken = 1 /\ ch \notin {"f", "g"} /\ ch # "%"
      BY <1>11
    <2>2. va_arg(<<slot>>) = slot /\ after(<<slot>>, 1) = <<>>
      BY ArgumentsRead
    <2> HIDE DEF taken
    <2>3. rest(<<slot>>) = <<>>
      BY <2>1, <2>2, Zenon
    <2>4. plain(<<slot>>) = slot.text
      BY <1>11, <2>1, <2>2, Zenon
    <2> HIDE DEF plain, rest
    <2>5. vsprintf(p, ch, <<slot>>, double) = Gives(done, slot.text, <<>>)
      BY <1>9, <2>3, <2>4, Zenon
    <2> QED BY <1>10, <1>11, <2>5
  <1>12. CASE ch \notin {"c", "s"}
    <2>1. taken = 0
      BY <1>12
    <2>2. after(<<>>, 0) = <<>>
      BY ArgumentsRead
    <2> HIDE DEF taken
    <2>3. rest(<<>>) = <<>>
      BY <2>1, <2>2, Zenon
    <2>4. plain(<<>>) = IF ch \in {"f", "g"} THEN sprintf_float(double, PRECISION)
                        ELSE IF ch = "%" THEN <<"%">> ELSE <<>>
      <3>1. CASE ch \in {"f", "g"}
        <4>1. ch # "%"
          BY <3>1
        <4> QED BY <1>12, <3>1, <4>1, Zenon
      <3>2. CASE ch \notin {"f", "g"} /\ ch = "%"
        BY <1>12, <3>2, Zenon
      <3>3. CASE ch \notin {"f", "g"} /\ ch # "%"
        BY <1>12, <3>3, Zenon
      <3> QED BY <3>1, <3>2, <3>3
    <2> HIDE DEF plain, rest
    <2>5. vsprintf(p, ch, <<>>, double) = Gives(done, plain(<<>>), <<>>)
      BY <1>9, <2>3, Zenon
    <2>6. vsprintf(p, ch, <<>>, double).text = plain(<<>>) /\ vsprintf(p, ch, <<>>, double).args = <<>>
      BY <1>10, <2>5
    <2> QED BY <1>12, <2>4, <2>6, Zenon
  <1> QED BY <1>11, <1>12

-----------------------------------------------------------------------------
(*------------------------ finished conversions ---------------------------*)

(* What a conversion takes is known from its last character.               *)
LEMMA TakesAre ==
    ASSUME NEW c, Spelling(c), c # <<>>, NEW ch \in Alphabet
    PROVE  LET s == Append(c, ch)
           IN  /\ Last(s) = ch /\ Len(s) # 1 /\ s # <<>>
               /\ TakesWord(s) <=> ch \in NumberChars
               /\ TakesText(s) <=> ch \in {"c", "s"}
               /\ TakesDouble(s) <=> ch \in {"f", "g"}
  <1> DEFINE s == Append(c, ch)
             a == Len(c)
             b == Len(s)
  <1>1. s # <<>> /\ b = a + 1 /\ a \in Nat /\ a # 0 /\ Last(s) = ch
    BY ConversionAppend DEF Spelling
  <1> HIDE DEF s, a, b
  <1>2. b > 1 /\ b # 1
    BY <1>1
  <1>3. Len(s) > 1 /\ Len(s) # 1
    BY <1>2 DEF b
  <1>4. /\ TakesWord(s) <=> ch \in NumberChars
        /\ TakesText(s) <=> ch \in {"c", "s"}
        /\ TakesDouble(s) <=> ch \in {"f", "g"}
    BY <1>1, <1>3, Zenon DEF TakesWord, TakesText, TakesDouble, NumberChars
  <1> QED BY <1>1, <1>3, <1>4 DEF s

(* What C prints, by the last character.                                   *)
LEMMA CTexts ==
    ASSUME NEW c, Spelling(c), c # <<>>, NEW ch \in Alphabet, NEW x, NEW double
    PROVE  LET s == Append(c, ch)
           IN  /\ ch \in NumberChars => CText(s, <<x>>, double) = CNumber(s, x.word)
               /\ ch \in {"c", "s"} => CText(s, <<x>>, double) = x.text
  <1> DEFINE s == Append(c, ch)
  <1>1. /\ Last(s) = ch /\ Len(s) # 1
        /\ TakesWord(s) <=> ch \in NumberChars
        /\ TakesText(s) <=> ch \in {"c", "s"}
        /\ TakesDouble(s) <=> ch \in {"f", "g"}
    BY TakesAre
  <1>2. <<x>>[1] = x
    OBVIOUS
  <1> HIDE DEF s
  <1>3. ASSUME ch \in NumberChars PROVE CText(s, <<x>>, double) = CNumber(s, x.word)
    <2>1. ch # "%" /\ ch \notin {"c", "s"} /\ ch \notin {"f", "g"}
      BY <1>3 DEF NumberChars
    <2> QED BY <1>1, <1>2, <1>3, <2>1, Zenon DEF CText
  <1>4. ASSUME ch \in {"c", "s"} PROVE CText(s, <<x>>, double) = x.text
    <2>1. ch # "%" /\ ch \notin NumberChars /\ ch \notin {"f", "g"}
      BY <1>4 DEF NumberChars
    <2> QED BY <1>1, <1>2, <1>4, <2>1, Zenon DEF CText
  <1> QED BY <1>3, <1>4 DEF s

(* What C prints where no argument is read from the list of words and      *)
(* texts.                                                                  *)
LEMMA CTextsUnpassed ==
    ASSUME NEW c, Spelling(c), c # <<>>, NEW ch \in Alphabet, NEW double
    PROVE  LET s == Append(c, ch)
           IN  /\ ch \in {"f", "g"} => CText(s, <<>>, double) = CFloat(double)
               /\ ch \notin NumberChars /\ ch \notin {"c", "s"} /\ ch \notin {"f", "g"} =>
                     CText(s, <<>>, double) = IF ch = "%" THEN <<"%">> ELSE <<>>
  <1> DEFINE s == Append(c, ch)
  <1>1. /\ Last(s) = ch /\ Len(s) # 1
        /\ TakesWord(s) <=> ch \in NumberChars
        /\ TakesText(s) <=> ch \in {"c", "s"}
        /\ TakesDouble(s) <=> ch \in {"f", "g"}
    BY TakesAre
  <1> HIDE DEF s
  <1>2. ASSUME ch \in {"f", "g"} PROVE CText(s, <<>>, double) = CFloat(double)
    <2>1. ch # "%" /\ ch \notin NumberChars /\ ch \notin {"c", "s"}
      BY <1>2 DEF NumberChars
    <2> QED BY <1>1, <1>2, <2>1, Zenon DEF CText
  <1>3. ASSUME ch \notin NumberChars, ch \notin {"c", "s"}, ch \notin {"f", "g"}
        PROVE  CText(s, <<>>, double) = IF ch = "%" THEN <<"%">> ELSE <<>>
    BY <1>1, <1>3, Zenon DEF CText
  <1> QED BY <1>2, <1>3 DEF s

(* The arguments that the caller passes, by the last character.            *)
Fits(ch, slot) ==
    \/ \E x : slot = <<x>> /\ ch \in NumberChars /\ x.word \in 0..(LONG - 1)
    \/ \E x : slot = <<x>> /\ ch \in {"c", "s"}
    \/ slot = <<>> /\ ch \notin NumberChars /\ ch \notin {"c", "s"}

(* The letters of numbers, of texts and of doubles are different ones.     *)
LEMMA CharsApart ==
    ASSUME NEW ch
    PROVE  /\ ch \in NumberChars => ch \notin {"c", "s"} /\ ch \notin {"f", "g"} /\ ch # "%"
           /\ ch \in {"c", "s"} => ch \notin NumberChars /\ ch \notin {"f", "g"}
           /\ ch \in {"f", "g"} => ch # "%"
           /\ ch \in VsprintfChars <=> ch \in NumberChars /\ ch \notin {"o", "p"}
  BY DEF NumberChars, VsprintfChars

(* kprintf finishes a conversion: it has read what was passed, forgets     *)
(* what was set, and printed what C prints.                                *)
LEMMA KprintfFinishes ==
    ASSUME NEW c, Spelling(c), c # <<>>, NEW ch \in Alphabet, ~Continues(c, ch), NEW slot, Fits(ch, slot),
           NEW double
    PROVE  LET s == Append(c, ch)
           IN  \E text : /\ kprintf(LocalsOf(c), ch, slot) = Gives(fresh, text, <<>>)
                         /\ ~TakesDouble(s) /\ (TakesWord(s) => KprintfTells(s, slot[1].word))
                              => text = CText(s, slot, double)
  <1> DEFINE s == Append(c, ch)
             p == Locals("CONVERT", LengthOf(c), 10, NO, NO, NO, WidthOf(c), PadOf(c))
             Goal == \E text : /\ kprintf(LocalsOf(c), ch, slot) = Gives(fresh, text, <<>>)
                               /\ ~TakesDouble(s) /\ (TakesWord(s) => KprintfTells(s, slot[1].word))
                                    => text = CText(s, slot, double)
  <1>1. \A args : kprintf(LocalsOf(c), ch, args) = kprintf_spec(p, ch, args)
    BY KprintfConverts
  <1>2. /\ TakesWord(s) <=> ch \in NumberChars
        /\ TakesDouble(s) <=> ch \in {"f", "g"}
    BY TakesAre
  <1>3. CASE \E x : slot = <<x>> /\ ch \in NumberChars /\ x.word \in 0..(LONG - 1)
    <2> PICK x : slot = <<x>> /\ ch \in NumberChars /\ x.word \in 0..(LONG - 1)
      BY <1>3
    <2>1. slot[1] = x
      OBVIOUS
    <2>2. PICK text : /\ kprintf_spec(p, ch, <<x>>) = Gives(fresh, text, <<>>)
                      /\ KprintfTells(s, x.word) => text = CNumber(s, x.word)
      BY KprintfNumber
    <2>3. CText(s, <<x>>, double) = CNumber(s, x.word)
      BY CTexts
    <2> HIDE DEF s, p
    <2>4. Goal
      BY <1>1, <1>2, <2>1, <2>2, <2>3, Zenon
    <2> QED BY <2>4 DEF s
  <1>4. CASE \E x : slot = <<x>> /\ ch \in {"c", "s"}
    <2> PICK x : slot = <<x>> /\ ch \in {"c", "s"}
      BY <1>4
    <2>1. ch \notin NumberChars
      BY CharsApart
    <2>2. kprintf_spec(p, ch, <<x>>) = Gives(fresh, x.text, <<>>)
      BY <2>1, KprintfOther
    <2>3. CText(s, <<x>>, double) = x.text
      BY CTexts
    <2> HIDE DEF s, p
    <2>4. Goal
      BY <1>1, <2>2, <2>3, Zenon
    <2> QED BY <2>4 DEF s
  <1>5. CASE slot = <<>> /\ ch \notin NumberChars /\ ch \notin {"c", "s"}
    <2>1. kprintf_spec(p, ch, <<>>) = Gives(fresh, IF ch = "%" THEN <<"%">> ELSE <<>>, <<>>)
      BY <1>5, KprintfOther
    <2>2. ch \notin {"f", "g"} => CText(s, <<>>, double) = IF ch = "%" THEN <<"%">> ELSE <<>>
      BY <1>5, CTextsUnpassed
    <2> HIDE DEF s, p
    <2>3. kprintf(LocalsOf(c), ch, slot) = Gives(fresh, IF ch = "%" THEN <<"%">> ELSE <<>>, <<>>)
      BY <1>1, <1>5, <2>1, Zenon
    <2>4. Goal
      <3> DEFINE t == IF ch = "%" THEN <<"%">> ELSE <<>>
      <3>1. kprintf(LocalsOf(c), ch, slot) = Gives(fresh, t, <<>>)
        BY <2>3
      <3>2. ~TakesDouble(s) => CText(s, slot, double) = t
        BY <1>2, <1>5, <2>2, Zenon
      <3> HIDE DEF t
      <3> QED BY <3>1, <3>2, Zenon
    <2> QED BY <2>4 DEF s
  <1> QED BY <1>3, <1>4, <1>5, Zenon DEF Fits

(* So does vsprintf, but for o and p, whose arguments it leaves.           *)
LEMMA VsprintfFinishes ==
    ASSUME NEW c, Spelling(c), c # <<>>, NEW p, InStep(p, c), NEW ch \in Alphabet, ~Continues(c, ch), NEW slot,
           Fits(ch, slot), NEW double \in Int, ch \notin {"o", "p"}
    PROVE  LET s == Append(c, ch)
           IN  /\ vsprintf(p, ch, slot, double).args = <<>>
               /\ (TakesWord(s) => VsprintfTells(s, slot[1].word))
                    => vsprintf(p, ch, slot, double).text = CText(s, slot, double)
  <1> DEFINE s == Append(c, ch)
             result == vsprintf(p, ch, slot, double)
             Goal == /\ result.args = <<>>
                     /\ (TakesWord(s) => VsprintfTells(s, slot[1].word)) => result.text = CText(s, slot, double)
  <1> SUFFICES Goal
    OBVIOUS
  <1>2. TakesWord(s) <=> ch \in NumberChars
    BY TakesAre
  <1>3. CASE \E x : slot = <<x>> /\ ch \in NumberChars /\ x.word \in 0..(LONG - 1)
    <2> PICK x : slot = <<x>> /\ ch \in NumberChars /\ x.word \in 0..(LONG - 1)
      BY <1>3
    <2>1. slot[1] = x /\ ch \in VsprintfChars
      BY CharsApart
    <2>2. /\ vsprintf(p, ch, <<x>>, double).args = <<>>
          /\ VsprintfTells(s, x.word) => vsprintf(p, ch, <<x>>, double).text = CNumber(s, x.word)
      BY <2>1, VsprintfNumber
    <2>3. CText(s, <<x>>, double) = CNumber(s, x.word)
      BY CTexts
    <2> HIDE DEF s
    <2> QED BY <1>2, <2>1, <2>2, <2>3, Zenon
  <1>4. CASE \E x : slot = <<x>> /\ ch \in {"c", "s"}
    <2> PICK x : slot = <<x>> /\ ch \in {"c", "s"}
      BY <1>4
    <2>1. ch \notin NumberChars
      BY CharsApart
    <2>2. vsprintf(p, ch, <<x>>, double).text = x.text /\ vsprintf(p, ch, <<x>>, double).args = <<>>
      BY <2>1, VsprintfOther
    <2>3. CText(s, <<x>>, double) = x.text
      BY CTexts
    <2> HIDE DEF s
    <2> QED BY <2>2, <2>3, Zenon
  <1>5. CASE slot = <<>> /\ ch \notin NumberChars /\ ch \notin {"c", "s"}
    <2>1. /\ vsprintf(p, ch, <<>>, double).args = <<>>
          /\ vsprintf(p, ch, <<>>, double).text = IF ch \in {"f", "g"} THEN sprintf_float(double, PRECISION)
                                                  ELSE IF ch = "%" THEN <<"%">> ELSE <<>>
      BY <1>5, VsprintfOther
    <2>2. vsprintf(p, ch, <<>>, double).text = CText(s, <<>>, double)
      <3>1. CASE ch \in {"f", "g"}
        <4>1. CText(s, <<>>, double) = CFloat(double)
          BY <3>1, CTextsUnpassed
        <4>2. sprintf_float(double, PRECISION) = CFloat(double)
          BY FloatPrinted
        <4> QED BY <2>1, <3>1, <4>1, <4>2, Zenon
      <3>2. CASE ch \notin {"f", "g"}
        <4>1. CText(s, <<>>, double) = IF ch = "%" THEN <<"%">> ELSE <<>>
          BY <1>5, <3>2, CTextsUnpassed
        <4> QED BY <2>1, <3>2, <4>1, Zenon
      <3> QED BY <3>1, <3>2
    <2> HIDE DEF s
    <2> QED BY <1>5, <2>1, <2>2, Zenon
  <1> QED BY <1>3, <1>4, <1>5, Zenon DEF Fits

-----------------------------------------------------------------------------
(*------------------------------ the steps --------------------------------*)

(* The texts of one step, as the two properties have them.                 *)
KText(spelled, slot, double, out) ==
    (/\ Asked(spelled) /\ ~TakesDouble(spelled)
     /\ TakesWord(spelled) => KprintfTells(spelled, slot[1].word))
    => out = CText(spelled, slot, double)
VText(spelled, slot, double, out) ==
    (/\ Asked(spelled)
     /\ TakesWord(spelled) => VsprintfTells(spelled, slot[1].word)
     /\ TakesDouble(spelled) => Last(spelled) = "f" /\ (double * Power(10, PRECISION)) % UNITS = 0)
    => out = CText(spelled, slot, double)

Prints ==
    /\ KText(last.spelled, last.slot, last.double, kout)
    /\ handled => VText(last.spelled, last.slot, last.double, vout)

(* Between conversions nothing is asked of the texts.                      *)
LEMMA NothingAsked ==
    ASSUME NEW slot, NEW double, NEW out
    PROVE  KText(<<>>, slot, double, out) /\ VText(<<>>, slot, double, out)
  <1>1. ~Asked(<<>>)
    BY Zenon DEF Asked
  <1> QED BY <1>1, Zenon DEF KText, VText

(* A character outside conversions prints itself.                          *)
LEMMA LiteralText ==
    ASSUME NEW ch, NEW slot, NEW double
    PROVE  KText(<<ch>>, slot, double, <<ch>>) /\ VText(<<ch>>, slot, double, <<ch>>)
  <1>1. Len(<<ch>>) = 1 /\ <<ch>>[1] = ch /\ ~(1 > 1)
    OBVIOUS
  <1>2. Last(<<ch>>) = ch
    BY <1>1, Zenon DEF Last
  <1>3. ~TakesText(<<ch>>) /\ ~TakesWord(<<ch>>) /\ ~TakesDouble(<<ch>>)
    BY <1>1, Zenon DEF TakesText, TakesWord, TakesDouble
  <1>4. CText(<<ch>>, slot, double) = <<ch>>
    BY <1>1, <1>2, <1>3, Zenon DEF CText
  <1> QED BY <1>4, Zenon DEF KText, VText

(* The parts of what a printer gives.                                      *)
LEMMA GivesRead ==
    ASSUME NEW p, NEW text, NEW args, NEW step, step = Gives(p, text, args)
    PROVE  step.p = p /\ step.text = text /\ step.args = args
  BY DEF Gives

(* What one character makes of the state.                                  *)
Walked(kstep, vstep, ch, spelled, slot, double) ==
    /\ k' = kstep.p /\ kout' = kstep.text /\ kargs' = kstep.args
    /\ v' = vstep.p /\ vout' = vstep.text /\ vargs' = vstep.args
    /\ last'.spelled = spelled /\ last'.slot = slot /\ last'.double = double
    /\ handled' <=> (handled /\ (conversion = <<>> \/ ch \notin {"h", "l", "o", "p"}))
    /\ Bounded'

(* One character of the format makes a step of both printers.              *)
LEMMA Walks ==
    ASSUME NEW ch, NEW spelled, NEW slot, NEW double, Walk(ch, spelled, slot, double)
    PROVE  Walked(kprintf(k, ch, kargs \o slot), vsprintf(v, ch, vargs \o slot, double), ch, spelled, slot, double)
  <1> DEFINE kstep == kprintf(k, ch, kargs \o slot)
             vstep == vsprintf(v, ch, vargs \o slot, double)
             keeps == handled /\ (conversion = <<>> \/ ch \notin {"h", "l", "o", "p"})
             next  == [spelled |-> spelled, slot |-> slot, double |-> double]
  <1>1. /\ k' = kstep.p /\ kout' = kstep.text /\ kargs' = kstep.args
        /\ v' = vstep.p /\ vout' = vstep.text /\ vargs' = vstep.args
        /\ last' = next /\ handled' = keeps
        /\ Len(kargs') <= MaxUnread /\ Len(vargs') <= MaxUnread
    BY Zenon DEF Walk
  <1>2. next.spelled = spelled /\ next.slot = slot /\ next.double = double
    OBVIOUS
  <1> HIDE DEF next
  <1>3. last'.spelled = spelled /\ last'.slot = slot /\ last'.double = double
    BY <1>1, <1>2, Zenon
  <1> HIDE DEF kstep, vstep
  <1>4. handled' <=> keeps
    BY <1>1, Zenon
  <1>5. Bounded'
    BY <1>1, Zenon DEF Bounded
  <1> QED BY <1>1, <1>3, <1>4, <1>5, Zenon DEF Walked, kstep, vstep

(* What the parts of the state are, from what a step makes them.           *)
LEMMA Kept ==
    ASSUME Spelling(conversion'), kargs' = <<>>,
           k' = IF conversion' = <<>> THEN fresh ELSE LocalsOf(conversion'),
           v' \in VLocals, Stuck(v') \/ InStep(v', conversion'), handled' => ~Stuck(v') /\ vargs' = <<>>, Bounded'
    PROVE  IInv'
  BY Zenon DEF IInv, KInv, VInv

(* Between conversions nothing is spelled.                                 *)
LEMMA EmptySpelling == Spelling(<<>>)
  <1>1. <<>> \in Seq(Alphabet)
    OBVIOUS
  <1> QED BY <1>1, Zenon DEF Spelling

(* In step is not stuck.                                                   *)
LEMMA InStepIs ==
    ASSUME NEW p, NEW c, InStep(p, c)
    PROVE  p \in VLocals /\ ~Stuck(p)
  BY Zenon DEF InStep

(* A character outside conversions keeps the invariant.                    *)
LEMMA LiteralKeeps == IInv /\ Literal => IInv' /\ Prints'
  <1> SUFFICES ASSUME IInv, Literal PROVE IInv' /\ Prints'
    OBVIOUS
  <1> DEFINE sp(ch) == IF ch = "%" THEN <<>> ELSE <<ch>>
  <1> PICK ch \in Alphabet : /\ conversion = <<>>
                             /\ conversion' = IF ch = "%" THEN <<ch>> ELSE <<>>
                             /\ Walk(ch, sp(ch), <<>>, 0)
    BY Zenon DEF Literal
  <1> DEFINE kstep == kprintf(k, ch, kargs \o <<>>)
             vstep == vsprintf(v, ch, vargs \o <<>>, 0)
  <1>1. /\ k' = kstep.p /\ kout' = kstep.text /\ kargs' = kstep.args
        /\ v' = vstep.p /\ vout' = vstep.text /\ vargs' = vstep.args
        /\ last'.spelled = sp(ch) /\ last'.slot = <<>> /\ last'.double = 0
        /\ handled' <=> (handled /\ (conversion = <<>> \/ ch \notin {"h", "l", "o", "p"}))
        /\ Bounded'
    <2>1. Walked(kstep, vstep, ch, sp(ch), <<>>, 0)
      BY Walks
    <2> HIDE DEF kstep, vstep
    <2> QED BY <2>1, Zenon DEF Walked
  <1>2. k = fresh /\ kargs = <<>> /\ <<>> \o <<>> = <<>>
    <2>1. <<>> \o <<>> = <<>>
      BY ArgumentsRead
    <2> QED BY <2>1, Zenon DEF IInv, KInv
  <1>3. kstep = IF ch = "%" THEN Gives(LocalsOf(<<"%">>), <<>>, <<>>) ELSE Gives(fresh, <<ch>>, <<>>)
    <2>1. fresh.state = "NORMAL"
      BY FreshLocals, LocalsRead
    <2>2. ch = "%" => percent(fresh) = LocalsOf(<<"%">>)
      BY PercentSpelled
    <2> QED BY <1>2, <2>1, <2>2, Zenon DEF kprintf
  <1> HIDE DEF kstep
  <1>4. ch = "%" => k' = LocalsOf(<<"%">>) /\ kargs' = <<>>
    <2>1. ch = "%" => kstep = Gives(LocalsOf(<<"%">>), <<>>, <<>>)
      BY <1>3, Zenon
    <2>2. ch = "%" => kstep.p = LocalsOf(<<"%">>) /\ kstep.args = <<>>
      BY <2>1, GivesRead
    <2> QED BY <1>1, <2>2, Zenon
  <1>5. ch # "%" => k' = fresh /\ kargs' = <<>> /\ kout' = <<ch>>
    <2>1. ch # "%" => kstep = Gives(fresh, <<ch>>, <<>>)
      BY <1>3, Zenon
    <2>2. ch # "%" => kstep.p = fresh /\ kstep.args = <<>> /\ kstep.text = <<ch>>
      BY <2>1, GivesRead
    <2> QED BY <1>1, <2>2, Zenon
  <1>6. kargs' = <<>> /\ k' = IF conversion' = <<>> THEN fresh ELSE LocalsOf(conversion')
    <2>1. <<"%">> # <<>>
      OBVIOUS
    <2> QED BY <1>4, <1>5, <2>1, Zenon
  <1>7. Spelling(conversion')
    BY EmptySpelling, PercentSpelled, Zenon
  <1>8. VInv
    BY Zenon DEF IInv
  <1>9. handled' => handled
    BY <1>1, Zenon
  <1>10. /\ v' \in VLocals /\ (Stuck(v') \/ InStep(v', conversion'))
         /\ handled' => ~Stuck(v') /\ vargs' = <<>> /\ (ch # "%" => vout' = <<ch>>)
    <2>1. CASE Stuck(v)
      <3>1. vstep = Gives(v, <<>>, vargs \o <<>>)
        BY <2>1, VsprintfStuck
      <3> HIDE DEF vstep
      <3>2. v' = v
        <4>1. vstep.p = v
          BY <3>1, GivesRead
        <4> QED BY <1>1, <4>1, Zenon
      <3>3. ~handled'
        BY <1>8, <1>9, <2>1, Zenon DEF VInv
      <3> QED BY <1>8, <2>1, <3>2, <3>3, Zenon DEF VInv
    <2>2. CASE ~Stuck(v)
      <3>1. InStep(v, <<>>)
        BY <1>8, <2>2, Zenon DEF VInv
      <3>2. IF ch = "%" THEN vstep = Gives(percent(v), <<>>, vargs \o <<>>) /\ InStep(percent(v), <<"%">>)
            ELSE vstep = Gives(v, <<ch>>, vargs \o <<>>)
        BY <3>1, VsprintfLiteral
      <3> HIDE DEF vstep
      <3>3. ASSUME ch = "%" PROVE InStep(v', conversion') /\ vargs' = vargs \o <<>> /\ (ch # "%" => vout' = <<ch>>)
        <4>1. vstep.p = percent(v) /\ vstep.args = vargs \o <<>>
          BY <3>2, <3>3, GivesRead
        <4> QED BY <1>1, <3>2, <3>3, <4>1, Zenon
      <3>4. ASSUME ch # "%" PROVE InStep(v', conversion') /\ vargs' = vargs \o <<>> /\ (ch # "%" => vout' = <<ch>>)
        <4>1. vstep.p = v /\ vstep.args = vargs \o <<>> /\ vstep.text = <<ch>>
          BY <3>2, <3>4, GivesRead
        <4> QED BY <1>1, <3>1, <3>4, <4>1, Zenon
      <3>5. InStep(v', conversion') /\ vargs' = vargs \o <<>> /\ (ch # "%" => vout' = <<ch>>)
        BY <3>3, <3>4
      <3>6. handled' => vargs' = <<>>
        BY <1>2, <1>8, <1>9, <3>5, Zenon DEF VInv
      <3>7. v' \in VLocals /\ ~Stuck(v')
        BY <3>5, InStepIs, Zenon
      <3> QED BY <3>5, <3>6, <3>7, Zenon
    <2> QED BY <2>1, <2>2
  <1>11. IInv'
    BY <1>1, <1>6, <1>7, <1>10, Kept, Zenon
  <1>12. Prints'
    <2>1. /\ KText(last'.spelled, last'.slot, last'.double, kout')
          /\ handled' => VText(last'.spelled, last'.slot, last'.double, vout')
      <3>1. CASE ch = "%"
        BY <1>1, <3>1, NothingAsked, Zenon
      <3>2. CASE ch # "%"
        BY <1>1, <1>5, <1>10, <3>2, LiteralText, Zenon
      <3> QED BY <3>1, <3>2
    <2> QED BY <2>1, Zenon DEF Prints
  <1> QED BY <1>11, <1>12

(* A character that a conversion goes on with keeps it.                    *)
LEMMA SpellKeeps == IInv /\ Spell => IInv' /\ Prints'
  <1> SUFFICES ASSUME IInv, Spell PROVE IInv' /\ Prints'
    OBVIOUS
  <1> PICK ch \in Alphabet : /\ Continues(conversion, ch)
                             /\ IsDigit(ch) => Len(conversion) <= MaxDigits
                             /\ conversion' = Append(conversion, ch)
                             /\ Walk(ch, <<>>, <<>>, 0)
    BY Zenon DEF Spell
  <1> DEFINE kstep == kprintf(k, ch, kargs \o <<>>)
             vstep == vsprintf(v, ch, vargs \o <<>>, 0)
             s     == Append(conversion, ch)
  <1>1. /\ k' = kstep.p /\ kout' = kstep.text /\ kargs' = kstep.args
        /\ v' = vstep.p /\ vout' = vstep.text /\ vargs' = vstep.args
        /\ last'.spelled = <<>> /\ last'.slot = <<>> /\ last'.double = 0
        /\ handled' <=> (handled /\ (conversion = <<>> \/ ch \notin {"h", "l", "o", "p"}))
        /\ Bounded'
    <2>1. Walked(kstep, vstep, ch, <<>>, <<>>, 0)
      BY Walks
    <2> HIDE DEF kstep, vstep
    <2> QED BY <2>1, Zenon DEF Walked
  <1>2. Spelling(conversion) /\ conversion # <<>> /\ conversion \in Seq(Alphabet)
    <2>1. Spelling(conversion) /\ conversion # <<>>
      BY Zenon DEF IInv, Continues
    <2> QED BY <2>1, Zenon DEF Spelling
  <1>3. k = LocalsOf(conversion) /\ kargs \o <<>> = <<>>
    <2>1. <<>> \o <<>> = <<>>
      BY ArgumentsRead
    <2> QED BY <1>2, <2>1, Zenon DEF IInv, KInv
  <1>4. kstep = Gives(LocalsOf(s), <<>>, <<>>)
    <2>1. \A args : kprintf(LocalsOf(conversion), ch, args) = Gives(LocalsOf(s), <<>>, args)
      BY <1>2, KprintfSpells
    <2> QED BY <1>3, <2>1, Zenon
  <1>5. Spelling(s) /\ s # <<>>
    <2>1. Spelling(s)
      BY <1>2, DigitSpelled, LengthSpelled
    <2> QED BY <1>2, <2>1, ConversionAppend
  <1>6. VInv
    BY Zenon DEF IInv
  <1>7. handled' => handled
    BY <1>1, Zenon
  <1>8. \E q : /\ vstep = Gives(q, <<>>, vargs \o <<>>) /\ q \in VLocals
               /\ Stuck(q) \/ InStep(q, s)
               /\ handled' => ~Stuck(q)
    <2>1. CASE Stuck(v)
      <3>1. vstep = Gives(v, <<>>, vargs \o <<>>)
        BY <2>1, VsprintfStuck
      <3> HIDE DEF vstep
      <3>2. ~handled'
        BY <1>6, <1>7, <2>1, Zenon DEF VInv
      <3> QED BY <1>6, <2>1, <3>1, <3>2, Zenon DEF VInv
    <2>2. CASE ~Stuck(v)
      <3>1. InStep(v, conversion)
        BY <1>6, <2>2, Zenon DEF VInv
      <3>2. PICK q : /\ vstep = Gives(q, <<>>, vargs \o <<>>) /\ q \in VLocals
                     /\ InStep(q, s) \/ (Stuck(q) /\ ch \in {"h", "l"})
        BY <1>2, <3>1, VsprintfSpells
      <3> HIDE DEF vstep, s
      <3>3. ch \in {"h", "l"} => ~handled'
        <4>1. ch \in {"h", "l"} => ch \in {"h", "l", "o", "p"}
          OBVIOUS
        <4> QED BY <1>1, <1>2, <4>1, Zenon
      <3>4. InStep(q, s) => ~Stuck(q)
        BY InStepIs
      <3> QED BY <3>2, <3>3, <3>4, Zenon
    <2> QED BY <2>1, <2>2
  <1> HIDE DEF kstep, vstep, s
  <1>9. k' = LocalsOf(s) /\ kargs' = <<>>
    <2>1. kstep.p = LocalsOf(s) /\ kstep.args = <<>>
      BY <1>4, GivesRead
    <2> QED BY <1>1, <2>1, Zenon
  <1>10. v' \in VLocals /\ (Stuck(v') \/ InStep(v', s)) /\ (handled' => ~Stuck(v') /\ vargs' = <<>>)
    <2> PICK q : /\ vstep = Gives(q, <<>>, vargs \o <<>>) /\ q \in VLocals
                 /\ Stuck(q) \/ InStep(q, s)
                 /\ handled' => ~Stuck(q)
      BY <1>8
    <2>1. vstep.p = q /\ vstep.args = vargs \o <<>>
      BY GivesRead
    <2>2. v' = q /\ vargs' = vargs \o <<>>
      BY <1>1, <2>1, Zenon
    <2>3. <<>> \o <<>> = <<>>
      BY ArgumentsRead
    <2>4. handled' => vargs' = <<>>
      BY <1>6, <1>7, <2>2, <2>3, Zenon DEF VInv
    <2> QED BY <2>2, <2>4, Zenon
  <1>11. conversion' = s
    BY DEF s
  <1>12. IInv'
    BY <1>1, <1>5, <1>9, <1>10, <1>11, Kept, Zenon
  <1>13. Prints'
    <2>1. /\ KText(last'.spelled, last'.slot, last'.double, kout')
          /\ handled' => VText(last'.spelled, last'.slot, last'.double, vout')
      BY <1>1, NothingAsked, Zenon
    <2> QED BY <2>1, Zenon DEF Prints
  <1> QED BY <1>12, <1>13

(* The caller passes what the last character takes.                        *)
LEMMA PassedFits ==
    ASSUME NEW c, Spelling(c), c # <<>>, NEW ch \in Alphabet,
           TakesWord(Append(c, ch)) \/ TakesText(Append(c, ch)), NEW given \in Passed(Append(c, ch))
    PROVE  Fits(ch, <<given>>)
  <1> DEFINE s == Append(c, ch)
             none == CHOOSE slot \in Slots : TRUE
  <1>1. /\ TakesWord(s) <=> ch \in NumberChars
        /\ TakesText(s) <=> ch \in {"c", "s"}
    BY TakesAre
  <1> HIDE DEF s
  <1>2. CASE TakesWord(s)
    <2>0. ~TakesText(s)
      BY <1>1, <1>2, CharsApart
    <2>1. given \in {[none EXCEPT !.word = w] : w \in Words}
      BY <1>2, <2>0, Zenon DEF Passed, s
    <2> PICK w \in Words : given = [none EXCEPT !.word = w]
      BY <2>1
    <2>2. PICK t \in Texts : TRUE
      BY ArgumentAssumption
    <2>3. [word |-> w, text |-> t] \in Slots
      BY DEF Slots
    <2>4. none \in Slots
      BY <2>3, Zenon
    <2> HIDE DEF none
    <2>5. given.word = w
      BY <2>4 DEF Slots
    <2>6. w \in 0..(LONG - 1)
      BY ArgumentAssumption
    <2> QED BY <1>1, <1>2, <2>5, <2>6, Zenon DEF Fits
  <1>3. CASE TakesText(s)
    BY <1>1, <1>3, Zenon DEF Fits
  <1> QED BY <1>2, <1>3 DEF s

(* The last character of a conversion keeps it.                            *)
LEMMA FinishKeeps == IInv /\ Finish => IInv' /\ Prints'
  <1> SUFFICES ASSUME IInv, Finish PROVE IInv' /\ Prints'
    OBVIOUS
  <1>1. PICK ch \in Alphabet :
          /\ conversion # <<>> /\ ~Continues(conversion, ch) /\ conversion' = <<>>
          /\ \/ /\ TakesWord(Append(conversion, ch)) \/ TakesText(Append(conversion, ch))
                /\ \E slot \in Passed(Append(conversion, ch)) :
                      Walk(ch, Append(conversion, ch), <<slot>>, 0)
             \/ /\ TakesDouble(Append(conversion, ch))
                /\ \E double \in Doubles : Walk(ch, Append(conversion, ch), <<>>, double)
             \/ /\ ~(\/ TakesWord(Append(conversion, ch)) \/ TakesText(Append(conversion, ch))
                     \/ TakesDouble(Append(conversion, ch)))
                /\ Walk(ch, Append(conversion, ch), <<>>, 0)
    BY Zenon DEF Finish
  <1> DEFINE s == Append(conversion, ch)
  <1>2. Spelling(conversion)
    BY Zenon DEF IInv
  <1>3. PICK slot, double : Walk(ch, s, slot, double) /\ Fits(ch, slot) /\ double \in Int
    <2>0. /\ TakesWord(s) <=> ch \in NumberChars
          /\ TakesText(s) <=> ch \in {"c", "s"}
          /\ TakesDouble(s) <=> ch \in {"f", "g"}
          /\ 0 \in Int
      BY <1>1, <1>2, TakesAre
    <2>1. CASE /\ TakesWord(s) \/ TakesText(s)
               /\ \E slot \in Passed(s) : Walk(ch, s, <<slot>>, 0)
      <3> PICK slot \in Passed(s) : Walk(ch, s, <<slot>>, 0)
        BY <2>1
      <3>1. Fits(ch, <<slot>>)
        BY <1>1, <1>2, <2>1, PassedFits
      <3> QED BY <2>0, <3>1, Zenon
    <2>2. CASE TakesDouble(s) /\ \E double \in Doubles : Walk(ch, s, <<>>, double)
      <3> PICK double \in Doubles : Walk(ch, s, <<>>, double)
        BY <2>2
      <3>1. ch \notin NumberChars /\ ch \notin {"c", "s"}
        BY <2>0, <2>2, CharsApart
      <3>2. Fits(ch, <<>>)
        BY <3>1, Zenon DEF Fits
      <3>3. double \in Int
        BY ArgumentAssumption
      <3> QED BY <3>2, <3>3, Zenon
    <2>3. CASE ~(TakesWord(s) \/ TakesText(s) \/ TakesDouble(s)) /\ Walk(ch, s, <<>>, 0)
      <3>1. Fits(ch, <<>>)
        BY <2>0, <2>3, Zenon DEF Fits
      <3> QED BY <2>0, <2>3, <3>1, Zenon
    <2> QED BY <1>1, <2>1, <2>2, <2>3, Zenon
  <1> DEFINE kstep == kprintf(k, ch, kargs \o slot)
             vstep == vsprintf(v, ch, vargs \o slot, double)
  <1>4. /\ k' = kstep.p /\ kout' = kstep.text /\ kargs' = kstep.args
        /\ v' = vstep.p /\ vout' = vstep.text /\ vargs' = vstep.args
        /\ last'.spelled = s /\ last'.slot = slot /\ last'.double = double
        /\ handled' <=> (handled /\ (conversion = <<>> \/ ch \notin {"h", "l", "o", "p"}))
        /\ Bounded'
    <2>1. Walked(kstep, vstep, ch, s, slot, double)
      BY <1>3, Walks
    <2> HIDE DEF kstep, vstep, s
    <2> QED BY <2>1, Zenon DEF Walked
  <1>5. <<>> \o slot = slot
    <2>1. \A x : <<>> \o <<x>> = <<x>> /\ <<>> \o <<>> = <<>>
      BY ArgumentsRead
    <2> QED BY <1>3, <2>1, Zenon DEF Fits
  <1>6. k = LocalsOf(conversion) /\ kargs \o slot = slot
    BY <1>1, <1>5, Zenon DEF IInv, KInv
  <1>7. PICK text : /\ kstep = Gives(fresh, text, <<>>)
                    /\ ~TakesDouble(s) /\ (TakesWord(s) => KprintfTells(s, slot[1].word))
                         => text = CText(s, slot, double)
    <2>1. \E text : /\ kprintf(LocalsOf(conversion), ch, slot) = Gives(fresh, text, <<>>)
                    /\ ~TakesDouble(s) /\ (TakesWord(s) => KprintfTells(s, slot[1].word))
                         => text = CText(s, slot, double)
      BY <1>1, <1>2, <1>3, KprintfFinishes
    <2>2. kstep = kprintf(LocalsOf(conversion), ch, slot)
      BY <1>6, Zenon
    <2> HIDE DEF kstep, s
    <2> QED BY <2>1, <2>2, Zenon
  <1>8. k' = fresh /\ kargs' = <<>> /\ kout' = text
    <2> HIDE DEF kstep
    <2>1. kstep.p = fresh /\ kstep.args = <<>> /\ kstep.text = text
      BY <1>7, GivesRead
    <2> QED BY <1>4, <2>1, Zenon
  <1>9. VInv
    BY Zenon DEF IInv
  <1>10. handled' => handled /\ ch \notin {"h", "l", "o", "p"}
    BY <1>1, <1>4, Zenon
  <1>11. /\ v' \in VLocals /\ (Stuck(v') \/ InStep(v', <<>>))
         /\ handled' => /\ ~Stuck(v') /\ vargs' = <<>>
                        /\ (TakesWord(s) => VsprintfTells(s, slot[1].word)) => vout' = CText(s, slot, double)
    <2>1. CASE Stuck(v)
      <3>1. vstep = Gives(v, <<>>, vargs \o slot)
        BY <2>1, VsprintfStuck
      <3> HIDE DEF vstep, s
      <3>2. vstep.p = v
        BY <3>1, GivesRead
      <3>3. v' = v
        BY <1>4, <3>2, Zenon
      <3>4. ~handled'
        BY <1>9, <1>10, <2>1, Zenon DEF VInv
      <3> QED BY <1>9, <2>1, <3>3, <3>4, Zenon DEF VInv
    <2>2. CASE ~Stuck(v)
      <3>1. InStep(v, conversion)
        BY <1>9, <2>2, Zenon DEF VInv
      <3>2. InStep(vstep.p, <<>>)
        BY <1>1, <1>2, <3>1, VsprintfEnds
      <3>3. InStep(v', <<>>)
        BY <1>4, <3>2, Zenon
      <3>4. v' \in VLocals /\ ~Stuck(v')
        BY <3>3, InStepIs, Zenon
      <3>5. ASSUME handled'
            PROVE  /\ vargs' = <<>>
                   /\ (TakesWord(s) => VsprintfTells(s, slot[1].word)) => vout' = CText(s, slot, double)
        <4>1. vargs \o slot = slot
          BY <1>5, <1>9, <1>10, <3>5, Zenon DEF VInv
        <4>2. ch \notin {"o", "p"}
          BY <1>10, <3>5
        <4>3. /\ vsprintf(v, ch, slot, double).args = <<>>
              /\ (TakesWord(s) => VsprintfTells(s, slot[1].word))
                   => vsprintf(v, ch, slot, double).text = CText(s, slot, double)
          BY <1>1, <1>2, <1>3, <3>1, <4>2, VsprintfFinishes
        <4>4. vstep = vsprintf(v, ch, slot, double)
          BY <4>1, Zenon
        <4> HIDE DEF vstep, s
        <4> QED BY <1>4, <4>3, <4>4, Zenon
      <3> QED BY <3>3, <3>4, <3>5, Zenon
    <2> QED BY <2>1, <2>2
  <1>12. IInv'
    BY <1>1, <1>4, <1>8, <1>11, EmptySpelling, Kept, Zenon
  <1>13. Prints'
    <2> HIDE DEF s
    <2>1. KText(s, slot, double, kout')
      BY <1>7, <1>8, Zenon DEF KText
    <2>2. handled' => VText(s, slot, double, vout')
      BY <1>11, Zenon DEF VText
    <2>3. /\ KText(last'.spelled, last'.slot, last'.double, kout')
          /\ handled' => VText(last'.spelled, last'.slot, last'.double, vout')
      BY <1>4, <2>1, <2>2, Zenon
    <2> QED BY <2>3, Zenon DEF Prints
  <1> QED BY <1>12, <1>13

(* A call that begins is in step.                                          *)
LEMMA FreshInStep == fresh \in VLocals /\ ~Stuck(fresh) /\ InStep(fresh, <<>>)
  <1>1. fresh = Locals("NORMAL", "DEFAULT", 10, NO, NO, NO, 0, SPACE)
    BY FreshLocals
  <1>2. "NORMAL" \in VStates /\ SPACE \in {SPACE, "0"} /\ NO \in Truths /\ 10 \in Radices
    BY TruthsAre DEF VStates, Radices
  <1>3. 0 \in 0..(Power(10, MaxDigits) - 1)
    <2> DEFINE m == Power(10, MaxDigits)
    <2>1. m \in Nat \ {0}
      BY BoundAssumption, PowerTen
    <2> HIDE DEF m
    <2>2. 0 \in 0..(m - 1)
      BY <2>1
    <2> QED BY <2>2 DEF m
  <1>4. fresh \in VLocals
    BY <1>1, <1>2, <1>3, LocalsAreRecord
  <1>5. fresh.state = "NORMAL"
    BY <1>1, LocalsRead
  <1>6. ~Stuck(fresh)
    BY <1>5 DEF Stuck
  <1> QED BY <1>4, <1>5, <1>6, Zenon DEF InStep

(* The first call begins with the invariant.                               *)
LEMMA InitKeeps == Init => IInv /\ Prints
  <1> SUFFICES ASSUME Init PROVE IInv /\ Prints
    OBVIOUS
  <1> DEFINE none == [spelled |-> <<>>, slot |-> <<>>, double |-> 0]
  <1>1. /\ k = fresh /\ v = fresh /\ kargs = <<>> /\ vargs = <<>> /\ kout = <<>> /\ vout = <<>>
        /\ conversion = <<>> /\ last = none /\ handled
    BY Zenon DEF Init
  <1>2. none.spelled = <<>>
    OBVIOUS
  <1> HIDE DEF none
  <1>3. Len(<<>>) <= MaxUnread
    <2>1. Len(<<>>) = 0
      OBVIOUS
    <2> QED BY <2>1, BoundAssumption
  <1>4. Bounded
    BY <1>1, <1>3, Zenon DEF Bounded
  <1>5. IInv
    BY <1>1, <1>4, EmptySpelling, FreshInStep, Zenon DEF IInv, KInv, VInv
  <1>6. last.spelled = <<>>
    BY <1>1, <1>2, Zenon
  <1>7. Prints
    BY <1>6, NothingAsked, Zenon DEF Prints
  <1> QED BY <1>5, <1>7

(* The end of a format, and the next call, keep it.                        *)
LEMMA EndOfFormatKeeps == EndOfFormat => IInv' /\ Prints'
  <1> SUFFICES ASSUME EndOfFormat PROVE IInv' /\ Prints'
    OBVIOUS
  <1> DEFINE none == [spelled |-> <<>>, slot |-> <<>>, double |-> 0]
  <1>1. /\ k' = fresh /\ v' = fresh /\ kargs' = <<>> /\ vargs' = <<>> /\ kout' = <<>> /\ vout' = <<>>
        /\ conversion' = <<>> /\ last' = none /\ handled'
    BY Zenon DEF EndOfFormat
  <1>2. none.spelled = <<>>
    OBVIOUS
  <1> HIDE DEF none
  <1>3. Len(<<>>) <= MaxUnread
    <2>1. Len(<<>>) = 0
      OBVIOUS
    <2> QED BY <2>1, BoundAssumption
  <1>4. Bounded'
    BY <1>1, <1>3, Zenon DEF Bounded
  <1>5. IInv'
    BY <1>1, <1>4, EmptySpelling, FreshInStep, Kept, Zenon
  <1>6. last'.spelled = <<>>
    BY <1>1, <1>2, Zenon
  <1>7. Prints'
    <2>1. /\ KText(last'.spelled, last'.slot, last'.double, kout')
          /\ handled' => VText(last'.spelled, last'.slot, last'.double, vout')
      BY <1>6, NothingAsked, Zenon
    <2> QED BY <2>1, Zenon DEF Prints
  <1> QED BY <1>5, <1>7

(* The invariant is inductive: every step keeps both printers as far as    *)
(* the format is, and prints the texts of C.                               *)
THEOREM FormatsKept == Spec => [](IInv /\ Prints)
  <1>1. Init => IInv /\ Prints
    BY InitKeeps
  <1>2. IInv /\ Prints /\ [Next]_vars => (IInv /\ Prints)'
    <2> SUFFICES ASSUME IInv, Prints, [Next]_vars PROVE (IInv /\ Prints)'
      OBVIOUS
    <2>1. CASE Literal
      BY <2>1, LiteralKeeps
    <2>2. CASE Spell
      BY <2>2, SpellKeeps
    <2>3. CASE Finish
      BY <2>3, FinishKeeps
    <2>4. CASE EndOfFormat
      BY <2>4, EndOfFormatKeeps
    <2>5. CASE UNCHANGED vars
      <3>1. /\ k' = k /\ v' = v /\ kargs' = kargs /\ vargs' = vargs /\ kout' = kout /\ vout' = vout
            /\ conversion' = conversion /\ last' = last /\ handled' = handled
        BY <2>5, Zenon DEF vars
      <3>2. IInv' /\ Prints'
        BY <3>1, Zenon DEF IInv, KInv, VInv, Bounded, Prints
      <3> QED BY <3>2
    <2> QED BY <2>1, <2>2, <2>3, <2>4, <2>5 DEF Next
  <1> QED BY <1>1, <1>2, PTL DEF Spec

(* kprintf's locals are those of a fresh call, or of what is spelled.      *)
LEMMA KprintfIs ==
    ASSUME IInv
    PROVE  \E st, le, w, d :
              /\ k = Locals(st, le, 10, NO, NO, NO, w, d)
              /\ st \in {"NORMAL", "FLAGS", "WIDTH", "LENGTH_SHORT", "LENGTH_LONG", "SPEC"}
              /\ w \in 0..(Power(10, MaxDigits) - 1) /\ d \in {SPACE, "0"}
              /\ st = "NORMAL" <=> conversion = <<>>
  <1>1. CASE conversion = <<>>
    <2>1. k = Locals("NORMAL", "DEFAULT", 10, NO, NO, NO, 0, SPACE)
      BY <1>1, FreshLocals, Zenon DEF IInv, KInv
    <2>2. 0 \in 0..(Power(10, MaxDigits) - 1)
      <3> DEFINE m == Power(10, MaxDigits)
      <3>1. m \in Nat \ {0}
        BY BoundAssumption, PowerTen
      <3> HIDE DEF m
      <3>2. 0 \in 0..(m - 1)
        BY <3>1
      <3> QED BY <3>2 DEF m
    <2> QED BY <1>1, <2>1, <2>2, Zenon
  <1>2. CASE conversion # <<>>
    <2>1. k = LocalsOf(conversion) /\ Spelling(conversion)
      BY <1>2, Zenon DEF IInv, KInv
    <2>2. WidthOf(conversion) \in 0..(Power(10, MaxDigits) - 1)
      BY <1>2, <2>1 DEF Spelling
    <2> DEFINE st == StateOf(conversion)
               d  == PadOf(conversion)
    <2>3. st \in {"NORMAL", "FLAGS", "WIDTH", "LENGTH_SHORT", "LENGTH_LONG", "SPEC"} /\ st # "NORMAL"
      BY DEF StateOf, FlagsOf
    <2>4. d \in {SPACE, "0"}
      BY DEF PadOf
    <2>5. k = Locals(st, LengthOf(conversion), 10, NO, NO, NO, WidthOf(conversion), d)
      BY <2>1, Zenon DEF LocalsOf
    <2> HIDE DEF st, d
    <2> QED BY <1>2, <2>2, <2>3, <2>4, <2>5, Zenon
  <1> QED BY <1>1, <1>2

(* The locals stay in their ranges and few arguments are left unread.      *)
LEMMA TypesRight == IInv => TypeOK /\ KprintfKeepsStep
  <1> SUFFICES ASSUME IInv PROVE TypeOK /\ KprintfKeepsStep
    OBVIOUS
  <1>1. PICK st, le, w, d :
           /\ k = Locals(st, le, 10, NO, NO, NO, w, d)
           /\ st \in {"NORMAL", "FLAGS", "WIDTH", "LENGTH_SHORT", "LENGTH_LONG", "SPEC"}
           /\ w \in 0..(Power(10, MaxDigits) - 1) /\ d \in {SPACE, "0"}
           /\ st = "NORMAL" <=> conversion = <<>>
    BY KprintfIs
  <1>2. k.state = st /\ k.radix = 10 /\ k.padding = d /\ k.width = w
    BY <1>1, LocalsRead
  <1> DEFINE Right(p) ==
         /\ p.state \in {"NORMAL", "FLAGS", "WIDTH", "LENGTH_SHORT", "LENGTH_LONG", "SPEC"}
         /\ p.radix \in {8, 10, 16} /\ p.padding \in {SPACE, "0"}
         /\ p.width \in 0 .. Power(10, MaxDigits) - 1
  <1>3. Right(k)
    <2>1. 10 \in {8, 10, 16}
      OBVIOUS
    <2> QED BY <1>1, <1>2, <2>1, Zenon
  <1>4. Right(v)
    <2>1. v \in VLocals
      BY Zenon DEF IInv, VInv
    <2>2. /\ v.state \in VStates /\ v.radix \in Radices /\ v.width \in 0..(Power(10, MaxDigits) - 1)
          /\ v.padding \in {SPACE, "0"}
      BY <2>1, RecordIsLocals
    <2>3. v.state \in {"NORMAL", "FLAGS", "WIDTH", "LENGTH_SHORT", "LENGTH_LONG", "SPEC"}
      BY <2>2, Zenon DEF VStates
    <2>4. v.radix \in {8, 10, 16}
      BY <2>2, Zenon DEF Radices
    <2> QED BY <2>2, <2>3, <2>4, Zenon
  <1> HIDE DEF Right
  <1>5. \A p \in {k, v} : Right(p)
    BY <1>3, <1>4
  <1>6. Len(kargs) <= MaxUnread /\ Len(vargs) <= MaxUnread
    BY Zenon DEF IInv, Bounded
  <1>7. TypeOK
    BY <1>5, <1>6, Zenon DEF TypeOK, Right
  <1>8. KprintfKeepsStep
    BY <1>1, <1>2, Zenon DEF KprintfKeepsStep, IInv, KInv
  <1> QED BY <1>7, <1>8

(* kprintf keeps step with every format and prints what C prints.          *)
THEOREM KprintfRight == Spec => []KprintfPrintsAsC
  <1>1. IInv /\ Prints => KprintfPrintsAsC
    <2> SUFFICES ASSUME IInv, Prints PROVE KprintfPrintsAsC
      OBVIOUS
    <2>1. TypeOK /\ KprintfKeepsStep
      BY TypesRight
    <2> QED BY <2>1, Zenon DEF Prints, KText, KprintfPrintsAsC
  <1> QED BY <1>1, FormatsKept, PTL

(* vsprintf prints what C prints of every format that it has cases for.    *)
THEOREM VsprintfRight == Spec => []VsprintfPrintsAsC
  <1>1. IInv /\ Prints => VsprintfPrintsAsC
    <2> SUFFICES ASSUME IInv, Prints, handled PROVE VsprintfPrintsAsC
      BY Zenon DEF VsprintfPrintsAsC
    <2>1. vargs = <<>> /\ InStep(v, conversion)
      BY Zenon DEF IInv, VInv
    <2>2. v.state = "NORMAL" <=> conversion = <<>>
      <3>1. "NORMAL" # FlagsOf(conversion)
        BY DEF FlagsOf
      <3> QED BY <2>1, <3>1, Zenon DEF InStep
    <2> QED BY <2>1, <2>2, Zenon DEF Prints, VText, VsprintfPrintsAsC
  <1> QED BY <1>1, FormatsKept, PTL

=============================================================================
