-------------------------- MODULE PageTableProofs --------------------------
(***************************************************************************)
(* The page tables, for any number of entries and tasks, any maps of the   *)
(* kernel and the tasks, and any tables of the loader.  What keeps the     *)
(* spaces right is that the tables form trees: every table has a level,    *)
(* entries lead one level down, and no two of them to the same table, but  *)
(* for the kernel's half of the top tables.                                *)
(***************************************************************************)
EXTENDS PageTable, TLAPS, WellFoundedInduction, FiniteSetTheorems

-----------------------------------------------------------------------------
(* Numbers *)

LEMMA Widths ==
  ASSUME PageTableAssumption
  PROVE  /\ W \in Nat /\ W >= 2 /\ W \div 2 \in Nat /\ W = 2 * (W \div 2) /\ 0 \in Index
         /\ Index \subseteq Nat
<1>1. W \in Nat \ {0} /\ W % 2 = 0
  BY DEF PageTableAssumption
<1>2. QED BY <1>1 DEF Index

LEMMA Powers ==
  ASSUME PageTableAssumption
  PROVE  /\ Power[0] = 1 /\ Power[1] = W /\ Power[2] = W * W /\ Power[3] = W * (W * W)
         /\ Power[4] = W * (W * (W * W))
<1> DEFINE P(f) == [n \in 0 .. LEVELS |-> IF n = 0 THEN 1 ELSE W * f[n - 1]]
           g == [n \in 0 .. 4 |-> IF n = 0 THEN 1 ELSE IF n = 1 THEN W ELSE IF n = 2 THEN W * W
                                  ELSE IF n = 3 THEN W * (W * W) ELSE W * (W * (W * W))]
<1>1. W \in Nat
  BY Widths
<1>2. g = P(g)
  <2>1. ASSUME NEW n \in 0 .. 4 PROVE g[n] = (IF n = 0 THEN 1 ELSE W * g[n - 1])
    <3>1. n = 0 \/ n = 1 \/ n = 2 \/ n = 3 \/ n = 4
      OBVIOUS
    <3>2. g[0] = 1 /\ g[1] = W /\ g[2] = W * W /\ g[3] = W * (W * W) /\ g[4] = W * (W * (W * W))
      OBVIOUS
    <3>3. W * 1 = W
      BY <1>1
    <3> HIDE DEF g
    <3>4. QED BY <3>1, <3>2, <3>3
  <2>2. g = [n \in 0 .. 4 |-> g[n]]
    OBVIOUS
  <2> HIDE DEF g
  <2>3. QED BY <2>1, <2>2 DEF LEVELS
<1>3. Power = P(Power)
  <2>1. Power = CHOOSE f : f = P(f)
    BY DEF Power
  <2> HIDE DEF P, g
  <2>2. QED BY <1>2, <2>1
<1>4. Power[0] = 1 /\ \A n \in 1 .. 4 : Power[n] = W * Power[n - 1]
  <2>1. \A n \in 0 .. 4 : Power[n] = P(Power)[n]
    BY <1>3
  <2>2. \A n \in 0 .. 4 : Power[n] = (IF n = 0 THEN 1 ELSE W * Power[n - 1])
    BY <2>1 DEF LEVELS
  <2>3. QED BY <2>2
<1>5. Power[1] = W * Power[0] /\ Power[2] = W * Power[1] /\ Power[3] = W * Power[2]
      /\ Power[4] = W * Power[3]
  BY <1>4
<1>6. QED BY <1>1, <1>4, <1>5

\* Division with remainder.
LEMMA Remainder ==
  ASSUME NEW a \in Nat, NEW b \in Nat \ {0}
  PROVE  /\ a \div b \in Nat /\ a % b \in 0 .. b - 1 /\ a = (a \div b) * b + (a % b)
         /\ (a \div b) * b \in Nat /\ (a \div b) * b <= a
<1>1. a \div b \in Nat /\ a % b \in 0 .. b - 1
  OBVIOUS
<1>3. a = b * (a \div b) + (a % b)
  OBVIOUS
<1> DEFINE q == a \div b
<1>2. q \in Nat /\ b * q = q * b /\ q * b \in Nat
  BY <1>1
<1> HIDE DEF q
<1>4. q * b + (a % b) = a /\ q * b <= a
  BY <1>1, <1>2, <1>3 DEF q
<1>5. QED BY <1>1, <1>2, <1>4 DEF q

\* It is unique.
LEMMA Unique ==
  ASSUME NEW b \in Nat, NEW q \in Nat, NEW x \in Nat, NEW r \in Nat, NEW s \in Nat,
         r < b, s < b, q * b + r = x * b + s
  PROVE  q = x /\ r = s
<1>1. CASE q < x
  <2>1. (x - q - 1) * b >= 0
    BY <1>1
  <2>2. x * b >= q * b + b
    BY <2>1
  <2>3. QED BY <2>2
<1>2. CASE q > x
  <2>1. (q - x - 1) * b >= 0
    BY <1>2
  <2>2. q * b >= x * b + b
    BY <2>1
  <2>3. QED BY <2>2
<1>3. QED BY <1>1, <1>2

\* To divide twice is to divide by the product.
LEMMA Nested ==
  ASSUME NEW a \in Nat, NEW b \in Nat \ {0}, NEW c \in Nat \ {0}
  PROVE  (a \div b) \div c = a \div (c * b) /\ c * b \in Nat \ {0}
<1> DEFINE q == a \div b
           r == a % b
           x == q \div c
           s == q % c
           y == a \div (c * b)
           m == a % (c * b)
<1>1. q \in Nat /\ r \in Nat /\ r < b /\ a = q * b + r
  BY Remainder
<1> HIDE DEF q, r
<1>2. x \in Nat /\ s \in Nat /\ s < c /\ q = x * c + s
  BY <1>1, Remainder
<1>3. c * b \in Nat \ {0}
  OBVIOUS
<1>4. y \in Nat /\ m \in Nat /\ m < c * b /\ a = y * (c * b) + m
  <2> DEFINE d == c * b
  <2>1. d \in Nat \ {0}
    BY <1>3
  <2> HIDE DEF d
  <2>2. a \div d \in Nat /\ a % d \in 0 .. d - 1 /\ a = (a \div d) * d + (a % d)
    BY <2>1, Remainder
  <2>3. a % d \in Nat /\ a % d < d
    BY <2>1, <2>2
  <2>4. QED BY <2>2, <2>3 DEF d
<1> HIDE DEF x, s, y, m
<1>5. a = x * (c * b) + (s * b + r)
  BY <1>1, <1>2
<1>6. s * b + r \in Nat /\ s * b + r < c * b
  <2>1. s * b \in Nat
    BY <1>2
  <2>2. s * b + b <= c * b
    <3>1. (c - s - 1) * b >= 0
      BY <1>2
    <3>2. QED BY <1>2, <3>1
  <2>3. QED BY <1>1, <2>1, <2>2
<1> DEFINE z == s * b + r
           d == c * b
<1>7. x = y
  <2>1. z \in Nat /\ z < d /\ d \in Nat /\ x * d + z = y * d + m /\ m < d
    BY <1>3, <1>4, <1>5, <1>6
  <2> HIDE DEF z, d
  <2>2. QED BY <1>2, <1>4, <2>1, Unique
<1>8. QED BY <1>3, <1>7 DEF q, x, y

\* The digits of an address: the indices of a walk.
Digit(v, l) == get_virtual_index(v, l)
Address == 0 .. Power[LEVELS] - 1

LEMMA Digits ==
  ASSUME PageTableAssumption, NEW v \in Nat
  PROVE  /\ \A l \in 1 .. LEVELS : Digit(v, l) \in Index
         /\ Digit(v, 1) = v % W /\ Digit(v, 2) = (v \div W) % W /\ Digit(v, 3) = ((v \div W) \div W) % W
         /\ Digit(v, 4) = (((v \div W) \div W) \div W) % W
<1>1. W \in Nat \ {0} /\ W * W \in Nat \ {0} /\ W * (W * W) \in Nat \ {0}
  BY Widths
<1>2. \A x \in Nat : x % W \in 0 .. W - 1
  BY <1>1
<1>3. (v \div W) \div W = v \div (W * W)
  BY <1>1, Nested
<1>4. (v \div (W * W)) \div W = v \div (W * (W * W))
  BY <1>1, Nested
<1>5. v \div 1 = v
  OBVIOUS
<1>6. /\ Digit(v, 1) = (v \div Power[0]) % W /\ Digit(v, 2) = (v \div Power[1]) % W
      /\ Digit(v, 3) = (v \div Power[2]) % W /\ Digit(v, 4) = (v \div Power[3]) % W
  BY DEF Digit, get_virtual_index
<1>7. \A x \in Nat : \A b \in Nat \ {0} : x \div b \in Nat
  BY Remainder
<1>8. /\ v \div W \in Nat /\ (v \div W) \div W \in Nat /\ ((v \div W) \div W) \div W \in Nat
  BY <1>1, <1>7, Zenon
<1>9. /\ Digit(v, 1) = v % W /\ Digit(v, 2) = (v \div W) % W /\ Digit(v, 3) = ((v \div W) \div W) % W
      /\ Digit(v, 4) = (((v \div W) \div W) \div W) % W
  BY <1>3, <1>4, <1>5, <1>6, Powers, Zenon
<1>10. \A l \in 1 .. LEVELS : l = 1 \/ l = 2 \/ l = 3 \/ l = 4
  BY DEF LEVELS
<1>11. Digit(v, 1) \in Index /\ Digit(v, 2) \in Index /\ Digit(v, 3) \in Index /\ Digit(v, 4) \in Index
  BY <1>2, <1>8, <1>9, Zenon DEF Index
<1>12. QED BY <1>9, <1>10, <1>11, Zenon

\* The top digit needs no cut.
LEMMA TopDigit ==
  ASSUME PageTableAssumption, NEW x \in Address
  PROVE  (((x \div W) \div W) \div W) % W = ((x \div W) \div W) \div W
<1>1. W \in Nat \ {0} /\ W * W \in Nat \ {0} /\ W * (W * W) \in Nat /\ W * (W * (W * W)) \in Nat
  BY Widths
<1>2. x \in Nat
  BY <1>1, Powers DEF Address, LEVELS
<1>3. x \div W \in Nat /\ (x \div W) \div W \in Nat /\ ((x \div W) \div W) \div W \in Nat
  <2>1. \A y \in Nat : y \div W \in Nat
    BY <1>1, Remainder
  <2>2. QED BY <1>2, <2>1, Zenon
<1> DEFINE a == x \div W
           b == a \div W
           c == b \div W
<1>4. a \in Nat /\ b \in Nat /\ c \in Nat
  BY <1>2, <1>3, Zenon
<1>5. x < W * (W * (W * W))
  BY <1>1, <1>2, Powers DEF Address, LEVELS
<1>6. a * W <= x /\ b * W <= a /\ c * W <= b
  BY <1>1, <1>2, <1>4, Remainder
<1> HIDE DEF a, b, c
<1>7. c < W
  <2> SUFFICES ASSUME c >= W PROVE FALSE
    BY <1>1, <1>4
  <2>1. \A m, n, k \in Nat : k <= m /\ m * W <= n => k * W <= n /\ k * W \in Nat
    <3> SUFFICES ASSUME NEW m \in Nat, NEW n \in Nat, NEW k \in Nat, k <= m, m * W <= n
                 PROVE  k * W <= n /\ k * W \in Nat
      OBVIOUS
    <3>1. (m - k) * W >= 0
      BY <1>1
    <3>2. QED BY <1>1, <3>1
  <2>2. W * W <= b
    BY <1>1, <1>4, <1>6, <2>1
  <2>3. (W * W) * W <= a /\ (W * W) * W \in Nat
    BY <1>1, <1>4, <1>6, <2>1, <2>2
  <2>4. ((W * W) * W) * W <= x
    BY <1>1, <1>2, <1>4, <1>6, <2>1, <2>3
  <2>5. ((W * W) * W) * W = W * (W * (W * W))
    BY <1>1
  <2>6. QED BY <1>1, <1>2, <1>5, <2>4, <2>5
<1>8. c % W = c
  BY <1>1, <1>4, <1>7
<1>9. QED BY <1>8 DEF a, b, c

\* An address is determined by its digits, and its huge page by the upper
\* three.
LEMMA Determined ==
  ASSUME PageTableAssumption, NEW v \in Address, NEW w \in Address
  PROVE  /\ v \in Nat /\ w \in Nat
         /\ (Digit(v, 4) = Digit(w, 4) /\ Digit(v, 3) = Digit(w, 3) /\ Digit(v, 2) = Digit(w, 2)) <=> v \div W = w \div W
         /\ (Digit(v, 4) = Digit(w, 4) /\ Digit(v, 3) = Digit(w, 3) /\ Digit(v, 2) = Digit(w, 2) /\ Digit(v, 1) = Digit(w, 1))
               <=> v = w
<1>1. W \in Nat \ {0} /\ W * W \in Nat \ {0} /\ W * (W * W) \in Nat /\ W * (W * (W * W)) \in Nat
  BY Widths
<1>2. v \in Nat /\ w \in Nat
  BY <1>1, Powers DEF Address, LEVELS
<1>3. \A x \in Nat : /\ x \div W \in Nat /\ x % W \in 0 .. W - 1
                     /\ x = (x \div W) * W + (x % W)
  BY <1>1, Remainder
<1>4. \A x, y \in Nat : x \div W = y \div W /\ x % W = y % W => x = y
  BY <1>3, ZenonT(40)
<1>5. \A x \in Nat : /\ x \div W \in Nat /\ (x \div W) \div W \in Nat
                     /\ ((x \div W) \div W) \div W \in Nat
  BY <1>3, Zenon
<1>6. \A x \in Address : (((x \div W) \div W) \div W) % W = ((x \div W) \div W) \div W
  BY TopDigit
<1>7. /\ Digit(v, 1) = v % W /\ Digit(v, 2) = (v \div W) % W /\ Digit(v, 3) = ((v \div W) \div W) % W
      /\ Digit(v, 4) = ((v \div W) \div W) \div W
  BY <1>2, <1>6, Digits, Zenon
<1>8. /\ Digit(w, 1) = w % W /\ Digit(w, 2) = (w \div W) % W /\ Digit(w, 3) = ((w \div W) \div W) % W
      /\ Digit(w, 4) = ((w \div W) \div W) \div W
  BY <1>2, <1>6, Digits, Zenon
<1>9. Digit(v, 4) = Digit(w, 4) /\ Digit(v, 3) = Digit(w, 3) /\ Digit(v, 2) = Digit(w, 2) => v \div W = w \div W
  BY <1>2, <1>4, <1>5, <1>7, <1>8, Zenon
<1>10. v \div W = w \div W => Digit(v, 4) = Digit(w, 4) /\ Digit(v, 3) = Digit(w, 3) /\ Digit(v, 2) = Digit(w, 2)
  BY <1>7, <1>8, Zenon
<1>11. v \div W = w \div W /\ Digit(v, 1) = Digit(w, 1) => v = w
  BY <1>2, <1>4, <1>7, <1>8, Zenon
<1>12. QED BY <1>2, <1>9, <1>10, <1>11, Zenon

\* Addresses of the kernel's half are those of the upper half of a top table.
LEMMA Halves ==
  ASSUME PageTableAssumption, NEW v \in Address
  PROVE  v >= Half <=> Digit(v, 4) >= W \div 2
<1> DEFINE m == W * (W * W)
           h == W \div 2
           d == Digit(v, 4)
<1>1. W \in Nat \ {0} /\ h \in Nat /\ W = 2 * h /\ v \in Nat
  BY Widths, Determined
<1>2. m \in Nat \ {0} /\ W * W \in Nat \ {0}
  BY <1>1
<1>3. Half = h * m
  <2>1. Power[LEVELS] = W * m
    BY Powers DEF LEVELS
  <2> HIDE DEF m, h
  <2>2. W * m = 2 * (h * m) /\ h * m \in Nat
    BY <1>1, <1>2
  <2>3. \A x \in Nat : (2 * x) \div 2 = x
    OBVIOUS
  <2>4. QED BY <2>1, <2>2, <2>3, Zenon DEF Half
<1>4. d = v \div m
  <2>1. d = ((v \div W) \div W) \div W
    BY <1>1, Digits, TopDigit
  <2>2. (v \div W) \div W = v \div (W * W)
    BY <1>1, Nested, ZenonT(40)
  <2>3. (v \div (W * W)) \div W = v \div (W * (W * W))
    <3>1. \A a \in Nat : \A b, c \in Nat \ {0} : (a \div b) \div c = a \div (c * b)
      BY Nested
    <3>2. QED BY <1>1, <1>2, <3>1, Zenon
  <2>4. QED BY <2>1, <2>2, <2>3, Zenon
<1> HIDE DEF m, h, d
<1>5. d \in Nat /\ v % m \in 0 .. m - 1 /\ v = d * m + (v % m)
  BY <1>1, <1>2, <1>4, Remainder
<1> DEFINE q == v % m
<1>6. q \in Nat /\ q < m /\ v = d * m + q
  BY <1>2, <1>5
<1> HIDE DEF q
<1>7. CASE d >= h
  <2>1. (d - h) * m >= 0
    BY <1>1, <1>2, <1>5, <1>7
  <2>2. h * m <= d * m
    BY <1>1, <1>2, <1>5, <2>1
  <2>3. h * m \in Nat /\ d * m \in Nat
    BY <1>1, <1>2, <1>5
  <2>4. QED BY <1>3, <1>6, <1>7, <2>2, <2>3 DEF d, h
<1>8. CASE d < h
  <2>1. (h - d - 1) * m >= 0
    BY <1>1, <1>2, <1>5, <1>8
  <2>2. d * m + m <= h * m
    BY <1>1, <1>2, <1>5, <2>1
  <2>3. h * m \in Nat /\ d * m \in Nat
    BY <1>1, <1>2, <1>5
  <2>4. ~ (v >= Half) /\ ~ (d >= h)
    BY <1>1, <1>2, <1>3, <1>5, <1>6, <1>8, <2>2, <2>3
  <2>5. QED BY <2>4 DEF d, h
<1>9. QED BY <1>1, <1>5, <1>7, <1>8

-----------------------------------------------------------------------------
(* Walks *)

\* Where a walk of v from the top table r comes to, and whether it does.
Leads(t, x, v, l) == t[x][Digit(v, l)].p /\ ~ flags_ps_pat(t[x][Digit(v, l)], l)
Place(t, r, v, l) ==
    LET three == t[r][Digit(v, 4)].base
        two == t[three][Digit(v, 3)].base
    IN IF l = 4 THEN r ELSE IF l = 3 THEN three ELSE IF l = 2 THEN two
       ELSE t[two][Digit(v, 2)].base
Comes(t, r, v, l) ==
    \/ l = 4
    \/ /\ Leads(t, r, v, 4)
       /\ \/ l = 3
          \/ /\ Leads(t, Place(t, r, v, 3), v, 3)
             /\ l = 2 \/ Leads(t, Place(t, r, v, 2), v, 2)

LEMMA PlaceSteps ==
  ASSUME NEW t, NEW r, NEW v
  PROVE  /\ Comes(t, r, v, 4) /\ Place(t, r, v, 4) = r
         /\ \A l \in 2 .. 4 :
               /\ Comes(t, r, v, l - 1) <=> Comes(t, r, v, l) /\ Leads(t, Place(t, r, v, l), v, l)
               /\ Place(t, r, v, l - 1) = t[Place(t, r, v, l)][Digit(v, l)].base
<1>1. Comes(t, r, v, 4) /\ Place(t, r, v, 4) = r
  BY DEF Comes, Place
<1>2. /\ Comes(t, r, v, 3) <=> Leads(t, r, v, 4)
      /\ Comes(t, r, v, 2) <=> Leads(t, r, v, 4) /\ Leads(t, Place(t, r, v, 3), v, 3)
      /\ Comes(t, r, v, 1) <=> /\ Leads(t, r, v, 4) /\ Leads(t, Place(t, r, v, 3), v, 3)
                               /\ Leads(t, Place(t, r, v, 2), v, 2)
  BY DEF Comes
<1>3. /\ Place(t, r, v, 3) = t[r][Digit(v, 4)].base
      /\ Place(t, r, v, 2) = t[Place(t, r, v, 3)][Digit(v, 3)].base
      /\ Place(t, r, v, 1) = t[Place(t, r, v, 2)][Digit(v, 2)].base
  BY DEF Place
<1>4. \A l \in 2 .. 4 : l = 2 \/ l = 3 \/ l = 4
  OBVIOUS
<1>5. 4 - 1 = 3 /\ 3 - 1 = 2 /\ 2 - 1 = 1
  OBVIOUS
<1>6. QED BY <1>1, <1>2, <1>3, <1>4, <1>5, Zenon

\* What follows for the four levels in turn.
LEMMA Downwards ==
  ASSUME NEW S, 4 \in S, \A l \in 2 .. 4 : l \in S => l - 1 \in S
  PROVE  1 .. 4 \subseteq S
<1>1. 3 \in S
  <2>1. 4 \in 2 .. 4 /\ 4 - 1 = 3
    OBVIOUS
  <2>2. QED BY <2>1
<1>2. 2 \in S
  <2>1. 3 \in 2 .. 4 /\ 3 - 1 = 2
    OBVIOUS
  <2>2. QED BY <1>1, <2>1
<1>3. 1 \in S
  <2>1. 2 \in 2 .. 4 /\ 2 - 1 = 1
    OBVIOUS
  <2>2. QED BY <1>2, <2>1
<1>4. \A l \in 1 .. 4 : l = 1 \/ l = 2 \/ l = 3 \/ l = 4
  OBVIOUS
<1>5. QED BY <1>1, <1>2, <1>3, <1>4

\* A top table.
IsTop(t, lv, r) == r \in DOMAIN t /\ lv[r] = LEVELS

LEMMA ShapedFacts ==
  ASSUME NEW t, NEW lv, Shaped(t, lv)
  PROVE  /\ \A x \in DOMAIN t : /\ lv[x] \in 1 .. LEVELS
                                /\ t[x] = [i \in Index |-> t[x][i]]
                                /\ \A i \in Index : t[x][i] \in Entry
         /\ \A x \in DOMAIN t, i \in Index : Points(t, lv, x, i) =>
               t[x][i].base \in DOMAIN t /\ lv[t[x][i].base] = lv[x] - 1
         /\ \A x \in DOMAIN t, i \in Index : lv[x] > 2 /\ t[x][i].p => ~ t[x][i].ps
         /\ \A x, y \in DOMAIN t, i, j \in Index :
               Points(t, lv, x, i) /\ Points(t, lv, y, j) /\ t[x][i].base = t[y][j].base =>
                   i = j /\ (x = y \/ (lv[x] = LEVELS /\ lv[y] = LEVELS /\ i >= W \div 2))
<1>1. t \in [DOMAIN t -> [Index -> Entry]] /\ lv \in [DOMAIN t -> 1 .. LEVELS]
  BY DEF Shaped
<1>2. ASSUME NEW x \in DOMAIN t
      PROVE  /\ lv[x] \in 1 .. LEVELS /\ t[x] = [i \in Index |-> t[x][i]]
             /\ \A i \in Index : t[x][i] \in Entry
  BY <1>1
<1>3. QED BY <1>2 DEF Shaped

\* It comes to a table of the level.
LEMMA Arrives ==
  ASSUME PageTableAssumption, NEW t, NEW lv, Shaped(t, lv), NEW r, IsTop(t, lv, r), NEW v \in Nat,
         NEW l \in 1 .. 4, Comes(t, r, v, l)
  PROVE  Place(t, r, v, l) \in DOMAIN t /\ lv[Place(t, r, v, l)] = l
<1> DEFINE S == {k \in 1 .. 4 : Comes(t, r, v, k) =>
                     Place(t, r, v, k) \in DOMAIN t /\ lv[Place(t, r, v, k)] = k}
<1>1. 4 \in S
  BY PlaceSteps DEF IsTop, LEVELS
<1>2. ASSUME NEW k \in 2 .. 4, k \in S PROVE k - 1 \in S
  <2>1. k - 1 \in 1 .. 4 /\ k \in 1 .. LEVELS /\ k > 1
    BY DEF LEVELS
  <2> SUFFICES ASSUME Comes(t, r, v, k - 1)
               PROVE  Place(t, r, v, k - 1) \in DOMAIN t /\ lv[Place(t, r, v, k - 1)] = k - 1
    BY <2>1
  <2> DEFINE x == Place(t, r, v, k)
             i == Digit(v, k)
  <2>2. Comes(t, r, v, k) /\ Leads(t, x, v, k) /\ Place(t, r, v, k - 1) = t[x][i].base
    BY PlaceSteps
  <2>3. x \in DOMAIN t /\ lv[x] = k
    BY <1>2, <2>2
  <2>4. i \in Index
    BY <2>1, Digits
  <2>5. Points(t, lv, x, i)
    BY <2>1, <2>2, <2>3 DEF Points, Leads
  <2>6. QED BY <2>2, <2>3, <2>4, <2>5, ShapedFacts
<1>3. l \in S
  BY <1>1, <1>2, Downwards, Zenon
<1>4. QED BY <1>3

\* No two ways lead to the same table, but those of the kernel's half.
LEMMA OneWay ==
  ASSUME PageTableAssumption, NEW t, NEW lv, Shaped(t, lv), NEW r, IsTop(t, lv, r), NEW q, IsTop(t, lv, q),
         NEW v \in Nat, NEW w \in Nat, r = q \/ Digit(v, 4) < W \div 2, NEW l \in 2 .. 4,
         Comes(t, r, v, l - 1), Comes(t, q, w, l - 1),
         Place(t, r, v, l - 1) = Place(t, q, w, l - 1)
  PROVE  /\ Digit(v, l) = Digit(w, l) /\ Comes(t, r, v, l) /\ Comes(t, q, w, l)
         /\ Place(t, r, v, l) = Place(t, q, w, l)
<1> DEFINE x == Place(t, r, v, l)
           y == Place(t, q, w, l)
           i == Digit(v, l)
           j == Digit(w, l)
<1>1. l \in 1 .. 4 /\ l \in 1 .. LEVELS /\ l > 1
  BY DEF LEVELS
<1>2. /\ Comes(t, r, v, l) /\ Leads(t, x, v, l) /\ Place(t, r, v, l - 1) = t[x][i].base
      /\ Comes(t, q, w, l) /\ Leads(t, y, w, l) /\ Place(t, q, w, l - 1) = t[y][j].base
  BY PlaceSteps
<1>3. x \in DOMAIN t /\ lv[x] = l /\ y \in DOMAIN t /\ lv[y] = l
  BY <1>1, <1>2, Arrives
<1>4. i \in Index /\ j \in Index
  BY <1>1, Digits
<1>5. Points(t, lv, x, i) /\ Points(t, lv, y, j)
  BY <1>1, <1>2, <1>3 DEF Points, Leads
<1>6. t[x][i].base = t[y][j].base
  BY <1>2
<1>7. i = j /\ (x = y \/ (lv[x] = LEVELS /\ i >= W \div 2))
  BY <1>3, <1>4, <1>5, <1>6, ShapedFacts
<1>8. CASE lv[x] = LEVELS /\ i >= W \div 2
  <2>1. l = 4
    BY <1>3, <1>8 DEF LEVELS
  <2>2. r = q
    <3>1. Digit(v, 4) \in Nat /\ W \div 2 \in Nat /\ Digit(v, 4) >= W \div 2
      BY <1>4, <1>8, <2>1, Widths
    <3>2. QED BY <3>1
  <2>3. x = r /\ y = r
    BY <2>1, <2>2, PlaceSteps
  <2>4. QED BY <1>2, <1>7, <2>3
<1>9. QED BY <1>2, <1>7, <1>8

\* Walks that meet came from the same table, by the same digits.
LEMMA Meets ==
  ASSUME PageTableAssumption, NEW t, NEW lv, Shaped(t, lv), NEW r, IsTop(t, lv, r), NEW q, IsTop(t, lv, q),
         NEW v \in Nat, NEW w \in Nat, r = q \/ Digit(v, 4) < W \div 2, NEW l \in 1 .. 4,
         Comes(t, r, v, l), Comes(t, q, w, l), Place(t, r, v, l) = Place(t, q, w, l)
  PROVE  r = q /\ \A k \in 2 .. 4 : k > l => Digit(v, k) = Digit(w, k)
<1> DEFINE E(k) == Comes(t, r, v, k) /\ Comes(t, q, w, k) /\ Place(t, r, v, k) = Place(t, q, w, k)
           D(k) == Digit(v, k) = Digit(w, k)
<1>1. \A k \in 2 .. 4 : E(k - 1) => E(k) /\ D(k)
  BY OneWay
<1>2. E(l)
  OBVIOUS
<1>3. E(4) => r = q
  BY PlaceSteps
<1>4. 2 \in 2 .. 4 /\ 3 \in 2 .. 4 /\ 4 \in 2 .. 4 /\ 2 - 1 = 1 /\ 3 - 1 = 2 /\ 4 - 1 = 3
  OBVIOUS
<1> HIDE DEF E, D
<1>5. (E(1) => E(2) /\ D(2)) /\ (E(2) => E(3) /\ D(3)) /\ (E(3) => E(4) /\ D(4))
  <2>1. (E(2 - 1) => E(2) /\ D(2)) /\ (E(3 - 1) => E(3) /\ D(3)) /\ (E(4 - 1) => E(4) /\ D(4))
    BY <1>1, <1>4, Zenon
  <2>2. QED BY <1>4, <2>1
<1>6. r = q /\ (l = 1 => D(2) /\ D(3) /\ D(4)) /\ (l = 2 => D(3) /\ D(4)) /\ (l = 3 => D(4))
  <2>1. l = 1 \/ l = 2 \/ l = 3 \/ l = 4
    OBVIOUS
  <2>2. QED BY <1>2, <1>3, <1>5, <2>1
<1>7. \A k \in 2 .. 4 : k > l => D(k)
  <2>1. TAKE k \in 2 .. 4
  <2>2. HAVE k > l
  <2>3. (l = 1 \/ l = 2 \/ l = 3) /\ (k = 2 \/ k = 3 \/ k = 4)
    BY <2>2
  <2>4. QED BY <1>6, <2>2, <2>3
<1>8. QED BY <1>6, <1>7 DEF D

\* Walks by the same digits come to the same place.
LEMMA Follows ==
  ASSUME NEW t, NEW r, NEW v, NEW w, NEW l \in 1 .. 4,
         \A k \in 2 .. 4 : k > l => Digit(v, k) = Digit(w, k), Comes(t, r, v, l)
  PROVE  Comes(t, r, w, l) /\ Place(t, r, w, l) = Place(t, r, v, l)
<1> DEFINE S == {k \in 1 .. 4 : k >= l => /\ Comes(t, r, v, k) => Comes(t, r, w, k)
                                          /\ Place(t, r, w, k) = Place(t, r, v, k)}
<1>1. 4 \in S
  BY PlaceSteps
<1>2. ASSUME NEW k \in 2 .. 4, k \in S PROVE k - 1 \in S
  <2>1. k - 1 \in 1 .. 4
    OBVIOUS
  <2> SUFFICES ASSUME k - 1 >= l
               PROVE  /\ Comes(t, r, v, k - 1) => Comes(t, r, w, k - 1)
                      /\ Place(t, r, w, k - 1) = Place(t, r, v, k - 1)
    BY <2>1
  <2>2. k > l /\ k >= l
    BY <2>1
  <2>3. Digit(v, k) = Digit(w, k) /\ (Comes(t, r, v, k) => Comes(t, r, w, k))
        /\ Place(t, r, w, k) = Place(t, r, v, k)
    BY <1>2, <2>2
  <2>4. Leads(t, Place(t, r, v, k), v, k) => Leads(t, Place(t, r, w, k), w, k)
    BY <2>3 DEF Leads
  <2>5. QED BY <2>3, <2>4, PlaceSteps
<1>3. l \in S
  BY <1>1, <1>2, Downwards, Zenon
<1>4. QED BY <1>3

\* The processor's walk before it looks at its table of level l.
Start(r) == [done |-> FALSE, at |-> r, us |-> TRUE, huge |-> FALSE]
Before(t, r, v, l) ==
    LET three == Step(t, Start(r), v, 4)
        two == Step(t, three, v, 3)
        one == Step(t, two, v, 2)
    IN IF l = 4 THEN Start(r) ELSE IF l = 3 THEN three ELSE IF l = 2 THEN two
       ELSE IF l = 1 THEN one ELSE Step(t, one, v, 1)

LEMMA BeforeSteps ==
  ASSUME NEW t, NEW r, NEW v
  PROVE  /\ Before(t, r, v, 4) = Start(r) /\ Walked(t, r, v) = Before(t, r, v, 0)
         /\ \A l \in 1 .. 4 : Before(t, r, v, l - 1) = Step(t, Before(t, r, v, l), v, l)
<1>1. Before(t, r, v, 4) = Start(r)
  BY Zenon DEF Before
<1>2. /\ Before(t, r, v, 3) = Step(t, Before(t, r, v, 4), v, 4)
      /\ Before(t, r, v, 2) = Step(t, Before(t, r, v, 3), v, 3)
      /\ Before(t, r, v, 1) = Step(t, Before(t, r, v, 2), v, 2)
      /\ Before(t, r, v, 0) = Step(t, Before(t, r, v, 1), v, 1)
  BY DEF Before
<1>3. \A l \in 1 .. 4 : l = 1 \/ l = 2 \/ l = 3 \/ l = 4
  OBVIOUS
<1>4. 4 - 1 = 3 /\ 3 - 1 = 2 /\ 2 - 1 = 1 /\ 1 - 1 = 0
  OBVIOUS
<1>5. Walked(t, r, v) = Before(t, r, v, 0)
  BY <1>1, <1>2, Zenon DEF Walked, Start
<1>6. QED BY <1>1, <1>2, <1>3, <1>4, <1>5, Zenon

\* One step of the processor's walk: it stays where it is done, or reads an entry.
LEMMA StepReads ==
  ASSUME NEW t, NEW w, NEW v, NEW l
  PROVE  /\ w.done => Step(t, w, v, l) = w
         /\ ~ w.done /\ w.at \in DOMAIN t => Step(t, w, v, l) = Read(t[w.at][Digit(v, l)], w, v, l)
<1>1. Step(t, w, v, l) =
          IF w.done THEN w ELSE IF w.at \notin DOMAIN t THEN Nowhere
          ELSE Read(t[w.at][Digit(v, l)], w, v, l)
  BY Zenon DEF Step, Digit
<1>2. QED BY <1>1

LEMMA StepIs ==
  ASSUME NEW t, NEW w, ~ w.done, w.at \in DOMAIN t, NEW v, NEW l \in 1 .. 4
  PROVE  LET e == t[w.at][Digit(v, l)]
             u == Step(t, w, v, l)
         IN /\ ~ e.p => u = Nowhere
            /\ e.p /\ flags_ps_pat(e, l) =>
                  u = [done |-> TRUE, at |-> e.base + (v % Power[l - 1]),
                       us |-> w.us /\ e.p /\ e.us, huge |-> TRUE]
            /\ e.p /\ ~ flags_ps_pat(e, l) =>
                  u = [done |-> l = 1, at |-> e.base, us |-> w.us /\ e.p /\ e.us, huge |-> FALSE]
<1> DEFINE e == t[w.at][Digit(v, l)]
           huge == e.p /\ flags_ps_pat(e, l)
<1>1. Step(t, w, v, l) =
          [done |-> ~ e.p \/ huge \/ l = 1,
           at |-> IF ~ e.p THEN None
                  ELSE IF huge THEN e.base + (v % Power[l - 1]) ELSE e.base,
           us |-> w.us /\ e.p /\ e.us, huge |-> huge]
  <2>1. Step(t, w, v, l) = Read(e, w, v, l)
    BY StepReads
  <2>2. QED BY <2>1, Zenon DEF Read
<1> HIDE DEF e
<1>2. CASE ~ e.p
  BY <1>1, <1>2 DEF Nowhere, e
<1>3. CASE e.p /\ flags_ps_pat(e, l)
  <2>1. huge = TRUE
    BY <1>3
  <2>2. QED BY <1>1, <1>3, <2>1 DEF e
<1>4. CASE e.p /\ ~ flags_ps_pat(e, l)
  <2>1. huge = FALSE
    BY <1>4
  <2>2. QED BY <1>1, <1>4, <2>1 DEF e
<1>5. QED BY <1>2, <1>3, <1>4

LEMMA Done ==
  ASSUME NEW t, NEW w, w.done, NEW v, NEW l
  PROVE  Step(t, w, v, l) = w
  BY SMT DEF Step

\* It is at the place the walk comes to, or done.
LEMMA BeforeIs ==
  ASSUME PageTableAssumption, NEW t, NEW lv, Shaped(t, lv), NEW r, IsTop(t, lv, r), NEW v \in Nat,
         NEW l \in 1 .. 4
  PROVE  LET w == Before(t, r, v, l) IN
         /\ Comes(t, r, v, l) => ~ w.done /\ w.at = Place(t, r, v, l)
         /\ ~ Comes(t, r, v, l) => w.done
<1> DEFINE Is(k) == /\ Comes(t, r, v, k) => /\ ~ Before(t, r, v, k).done
                                            /\ Before(t, r, v, k).at = Place(t, r, v, k)
                    /\ ~ Comes(t, r, v, k) => Before(t, r, v, k).done
           S == {k \in 1 .. 4 : Is(k)}
<1>1. 4 \in S
  <2>1. ~ Start(r).done /\ Start(r).at = r
    BY DEF Start
  <2>2. QED BY <2>1, PlaceSteps, BeforeSteps
<1>2. ASSUME NEW k \in 2 .. 4, k \in S PROVE k - 1 \in S
  <2> DEFINE w == Before(t, r, v, k)
             u == Before(t, r, v, k - 1)
             x == Place(t, r, v, k)
             e == t[x][Digit(v, k)]
  <2>1. k - 1 \in 1 .. 4 /\ k \in 1 .. 4 /\ k # 1
    OBVIOUS
  <2>2. u = Step(t, w, v, k)
    BY <2>1, BeforeSteps
  <2>3. /\ Comes(t, r, v, k - 1) <=> Comes(t, r, v, k) /\ Leads(t, x, v, k)
        /\ Place(t, r, v, k - 1) = e.base
    BY PlaceSteps
  <2>4. CASE ~ Comes(t, r, v, k)
    <3>1. w.done
      BY <1>2, <2>4
    <3>2. u = w
      BY <2>2, <3>1, Done
    <3>3. QED BY <2>1, <2>3, <2>4, <3>1, <3>2
  <2>5. CASE Comes(t, r, v, k)
    <3>1. ~ w.done /\ w.at = x
      BY <1>2, <2>5
    <3>2. x \in DOMAIN t
      BY <2>1, <2>5, Arrives
    <3> HIDE DEF w, u, x
    <3>3. /\ ~ e.p => u = Nowhere
          /\ e.p /\ flags_ps_pat(e, k) =>
                u = [done |-> TRUE, at |-> e.base + (v % Power[k - 1]),
                     us |-> w.us /\ e.p /\ e.us, huge |-> TRUE]
          /\ e.p /\ ~ flags_ps_pat(e, k) =>
                u = [done |-> k = 1, at |-> e.base, us |-> w.us /\ e.p /\ e.us, huge |-> FALSE]
      BY <2>1, <2>2, <3>1, <3>2, StepIs
    <3>4. Leads(t, x, v, k) <=> e.p /\ ~ flags_ps_pat(e, k)
      BY DEF Leads
    <3>5. ~ e.p => u.done
      BY <3>3 DEF Nowhere
    <3> HIDE DEF e
    <3>6. e.p /\ flags_ps_pat(e, k) => u.done
      BY <3>3
    <3>7. e.p /\ ~ flags_ps_pat(e, k) => ~ u.done /\ u.at = e.base
      <4>1. (k = 1) = FALSE
        BY <2>1
      <4> DEFINE us == w.us /\ e.p /\ e.us
      <4>2. e.p /\ ~ flags_ps_pat(e, k) => u = [done |-> FALSE, at |-> e.base, us |-> us, huge |-> FALSE]
        BY <3>3, <4>1, Zenon
      <4> HIDE DEF us
      <4>3. QED BY <4>2
    <3>8. Is(k - 1)
      BY <2>3, <2>5, <3>4, <3>5, <3>6, <3>7, Zenon DEF u, x
    <3>9. QED BY <2>1, <3>8
  <2>6. QED BY <2>4, <2>5
<1>3. l \in S
  <2> HIDE DEF Is
  <2>1. QED BY <1>1, <1>2, Downwards, Zenon
<1>4. QED BY <1>3

\* A walk is the same in tables that agree on the entries it looks at.
LEMMA SameWalk ==
  ASSUME PageTableAssumption, NEW t, NEW lv, Shaped(t, lv), NEW r, IsTop(t, lv, r), NEW v \in Nat,
         NEW g, \A l \in 1 .. 4 : Comes(t, r, v, l) =>
                    /\ Place(t, r, v, l) \in DOMAIN g
                    /\ g[Place(t, r, v, l)][Digit(v, l)] = t[Place(t, r, v, l)][Digit(v, l)]
  PROVE  Walked(g, r, v) = Walked(t, r, v)
<1> DEFINE Same(k) == Before(g, r, v, k) = Before(t, r, v, k)
           S == {k \in 1 .. 4 : Same(k)}
<1>1. Same(4)
  BY BeforeSteps
<1>2. ASSUME NEW k \in 1 .. 4, Same(k) PROVE Same(k - 1)
  <2> DEFINE w == Before(t, r, v, k)
  <2>1. Before(t, r, v, k - 1) = Step(t, w, v, k) /\ Before(g, r, v, k - 1) = Step(g, w, v, k)
    BY <1>2, BeforeSteps
  <2>2. CASE w.done
    BY <2>1, <2>2, Done
  <2>3. CASE ~ w.done
    <3>1. Comes(t, r, v, k) /\ w.at = Place(t, r, v, k)
      BY <2>3, BeforeIs
    <3>2. w.at \in DOMAIN t /\ w.at \in DOMAIN g /\ g[w.at][Digit(v, k)] = t[w.at][Digit(v, k)]
      BY <3>1, Arrives
    <3> HIDE DEF w
    <3>3. Step(g, w, v, k) = Step(t, w, v, k)
      BY <2>3, <3>2, StepReads
    <3>4. QED BY <2>1, <3>3
  <2>4. QED BY <2>2, <2>3
<1>3. 4 \in S /\ \A k \in 2 .. 4 : k \in S => k - 1 \in S
  <2> HIDE DEF Same
  <2>1. \A k \in 2 .. 4 : k \in 1 .. 4 /\ k - 1 \in 1 .. 4
    OBVIOUS
  <2>2. QED BY <1>1, <1>2, <2>1
<1>4. Same(1)
  <2> HIDE DEF Same
  <2>1. 1 .. 4 \subseteq S
    BY <1>3, Downwards, Zenon
  <2>2. QED BY <2>1
<1>5. Same(0)
  <2> HIDE DEF Same
  <2>1. 1 \in 1 .. 4 /\ 1 - 1 = 0
    OBVIOUS
  <2>2. QED BY <1>2, <1>4, <2>1
<1>6. QED BY <1>5, BeforeSteps

\* So it comes to the same place, when they agree on those above.
Agrees(t, g, r, v, l) ==
    \A k \in 1 .. 4 : k > l /\ Comes(t, r, v, k) =>
        g[Place(t, r, v, k)][Digit(v, k)] = t[Place(t, r, v, k)][Digit(v, k)]

LEMMA SamePlace ==
  ASSUME NEW t, NEW g, NEW r, NEW v, NEW l \in 1 .. 4, Comes(t, r, v, l), Agrees(t, g, r, v, l)
  PROVE  Comes(g, r, v, l) /\ Place(g, r, v, l) = Place(t, r, v, l)
<1> DEFINE Same(k) == /\ Comes(t, r, v, k) /\ Comes(g, r, v, k)
                      /\ Place(g, r, v, k) = Place(t, r, v, k)
           S == {k \in 1 .. 4 : k >= l /\ Comes(t, r, v, k) => Same(k)}
<1>1. 4 \in S
  BY PlaceSteps
<1>2. ASSUME NEW k \in 2 .. 4, k \in S PROVE k - 1 \in S
  <2>1. k - 1 \in 1 .. 4 /\ k \in 1 .. 4 /\ k > k - 1
    OBVIOUS
  <2> SUFFICES ASSUME k - 1 >= l, Comes(t, r, v, k - 1) PROVE Same(k - 1)
    BY <2>1
  <2>2. Comes(t, r, v, k) /\ Leads(t, Place(t, r, v, k), v, k)
    BY PlaceSteps
  <2>3. k > l /\ k >= l
    BY <2>1
  <2>4. Same(k)
    BY <1>2, <2>2, <2>3
  <2>5. g[Place(t, r, v, k)][Digit(v, k)] = t[Place(t, r, v, k)][Digit(v, k)]
    BY <2>1, <2>2, <2>3 DEF Agrees
  <2>6. Leads(g, Place(g, r, v, k), v, k)
    BY <2>2, <2>4, <2>5, Zenon DEF Leads
  <2>7. QED BY <2>2, <2>4, <2>5, <2>6, PlaceSteps
<1>3. l \in S
  <2> HIDE DEF Same
  <2>1. QED BY <1>1, <1>2, Downwards, Zenon
<1>4. QED BY <1>3

\* What a walk comes to, by the entry that ends it.
LEMMA Lands ==
  ASSUME PageTableAssumption, NEW t, NEW lv, Shaped(t, lv), NEW r, IsTop(t, lv, r), NEW v \in Nat,
         NEW l \in 1 .. 4, Comes(t, r, v, l)
  PROVE  LET e == t[Place(t, r, v, l)][Digit(v, l)]
             u == Walked(t, r, v)
         IN /\ ~ e.p => u = Nowhere
            /\ e.p /\ flags_ps_pat(e, l) =>
                  u.at = e.base + (v % Power[l - 1]) /\ (u.us => e.us) /\ u.huge
            /\ e.p /\ l = 1 => u.at = e.base /\ (u.us => e.us) /\ ~ u.huge
<1> DEFINE x == Place(t, r, v, l)
           e == t[x][Digit(v, l)]
           w == Before(t, r, v, l)
           u == Before(t, r, v, l - 1)
<1>1. ~ w.done /\ w.at = x /\ x \in DOMAIN t
  BY BeforeIs, Arrives
<1>2. u = Step(t, w, v, l)
  BY BeforeSteps
<1> HIDE DEF w, x, u
<1>3. /\ ~ e.p => u = Nowhere
      /\ e.p /\ flags_ps_pat(e, l) =>
            u = [done |-> TRUE, at |-> e.base + (v % Power[l - 1]),
                 us |-> w.us /\ e.p /\ e.us, huge |-> TRUE]
      /\ e.p /\ ~ flags_ps_pat(e, l) =>
            u = [done |-> l = 1, at |-> e.base, us |-> w.us /\ e.p /\ e.us, huge |-> FALSE]
  BY <1>1, <1>2, StepIs
<1>4. u.done => Walked(t, r, v) = u
  <2>1. \A k \in 1 .. 4 : Before(t, r, v, k).done => Before(t, r, v, k - 1) = Before(t, r, v, k)
    BY BeforeSteps, Done
  <2>2. l = 1 \/ l = 2 \/ l = 3 \/ l = 4
    OBVIOUS
  <2>3. 4 - 1 = 3 /\ 3 - 1 = 2 /\ 2 - 1 = 1 /\ 1 - 1 = 0 /\ 1 \in 1 .. 4 /\ 2 \in 1 .. 4 /\ 3 \in 1 .. 4
    OBVIOUS
  <2>4. Walked(t, r, v) = Before(t, r, v, 0)
    BY BeforeSteps
  <2>5. QED BY <2>1, <2>2, <2>3, <2>4, ZenonT(40) DEF u
<1> HIDE DEF e
<1>5. ~ e.p => Walked(t, r, v) = Nowhere
  BY <1>3, <1>4 DEF Nowhere
<1> DEFINE us == w.us /\ e.p /\ e.us
<1>9. us => e.us
  OBVIOUS
<1>10. /\ e.p /\ flags_ps_pat(e, l) =>
            u = [done |-> TRUE, at |-> e.base + (v % Power[l - 1]), us |-> us, huge |-> TRUE]
       /\ e.p /\ ~ flags_ps_pat(e, l) => u = [done |-> l = 1, at |-> e.base, us |-> us, huge |-> FALSE]
  BY <1>3, Zenon
<1> HIDE DEF us
<1>6. e.p /\ flags_ps_pat(e, l) =>
          /\ Walked(t, r, v).at = e.base + (v % Power[l - 1])
          /\ (Walked(t, r, v).us => e.us) /\ Walked(t, r, v).huge
  <2>1. e.p /\ flags_ps_pat(e, l) => u.done /\ u.us = us /\ u.huge /\ u.at = e.base + (v % Power[l - 1])
    BY <1>10
  <2>2. QED BY <1>4, <1>9, <2>1, Zenon
<1>7. e.p /\ l = 1 =>
          Walked(t, r, v).at = e.base /\ (Walked(t, r, v).us => e.us) /\ ~ Walked(t, r, v).huge
  <2>1. l = 1 => ~ flags_ps_pat(e, l)
    BY DEF flags_ps_pat
  <2>2. l = 1 => (l = 1) = TRUE
    OBVIOUS
  <2>3. e.p /\ l = 1 => u = [done |-> TRUE, at |-> e.base, us |-> us, huge |-> FALSE]
    BY <1>10, <2>1, <2>2, Zenon
  <2>4. e.p /\ l = 1 => u.done /\ u.us = us /\ ~ u.huge /\ u.at = e.base
    BY <2>3
  <2>5. QED BY <1>4, <1>9, <2>4, Zenon
<1>8. QED BY <1>5, <1>6, <1>7, Zenon DEF e, x

-----------------------------------------------------------------------------
(* One entry rewritten *)

\* g is t with another entry i of table x, and without the tables of gone.
Edits(t, g, x, i, gone) ==
    \A y \in DOMAIN t \ gone :
        y \in DOMAIN g /\ \A j \in Index : y # x \/ j # i => g[y][j] = t[y][j]

\* Nothing is gone, or the table that the entry named.
Drops(t, x, v, l, gone) ==
    gone = {} \/ (l >= 2 /\ Leads(t, x, v, l) /\ gone = {t[x][Digit(v, l)].base})

\* A walk that does not come to the entry is not changed.
LEMMA Elsewhere ==
  ASSUME PageTableAssumption, NEW t, NEW lv, Shaped(t, lv), NEW r, IsTop(t, lv, r), NEW q, IsTop(t, lv, q),
         NEW v \in Nat, NEW w \in Nat, r = q \/ Digit(v, 4) < W \div 2, NEW l \in 1 .. 4,
         Comes(t, r, v, l), NEW g, NEW gone, Drops(t, Place(t, r, v, l), v, l, gone),
         Edits(t, g, Place(t, r, v, l), Digit(v, l), gone),
         r # q \/ \E k \in 1 .. 4 : k >= l /\ Digit(v, k) # Digit(w, k)
  PROVE  Walked(g, q, w) = Walked(t, q, w)
<1> DEFINE x == Place(t, r, v, l)
           i == Digit(v, l)
<1>1. ASSUME NEW k \in 1 .. 4, Comes(t, q, w, k)
      PROVE  /\ Place(t, q, w, k) \in DOMAIN g
             /\ g[Place(t, q, w, k)][Digit(w, k)] = t[Place(t, q, w, k)][Digit(w, k)]
  <2> DEFINE y == Place(t, q, w, k)
             j == Digit(w, k)
  <2>1. x \in DOMAIN t /\ lv[x] = l /\ y \in DOMAIN t /\ lv[y] = k
    BY <1>1, Arrives
  <2>2. j \in Index
    BY Digits DEF LEVELS
  <2>3. y # x \/ j # i
    <3> SUFFICES ASSUME y = x, j = i PROVE FALSE
      OBVIOUS
    <3>1. k = l
      BY <2>1
    <3>2. r = q /\ \A m \in 2 .. 4 : m > l => Digit(v, m) = Digit(w, m)
      BY <1>1, <3>1, Meets
    <3>3. PICK m \in 1 .. 4 : m >= l /\ Digit(v, m) # Digit(w, m)
      BY <3>2
    <3>4. m # l
      BY <3>1, <3>3
    <3>5. m > l /\ m \in 2 .. 4
      BY <3>3, <3>4
    <3>6. QED BY <3>2, <3>3, <3>5
  <2>4. y \notin gone
    <3> SUFFICES ASSUME y \in gone PROVE FALSE
      OBVIOUS
    <3>1. l >= 2 /\ Leads(t, x, v, l) /\ y = t[x][i].base
      BY DEF Drops
    <3>2. l \in 2 .. 4 /\ l - 1 \in 1 .. 4
      BY <3>1
    <3>3. Comes(t, r, v, l - 1) /\ Place(t, r, v, l - 1) = y
      BY <3>1, <3>2, PlaceSteps
    <3>4. k = l - 1
      BY <2>1, <3>2, <3>3, Arrives
    <3>5. r = q /\ \A m \in 2 .. 4 : m > l - 1 => Digit(v, m) = Digit(w, m)
      BY <1>1, <3>2, <3>3, <3>4, Meets
    <3>6. PICK m \in 1 .. 4 : m >= l /\ Digit(v, m) # Digit(w, m)
      BY <3>5
    <3>7. m > l - 1 /\ m \in 2 .. 4
      BY <3>2, <3>6
    <3>8. QED BY <3>5, <3>6, <3>7
  <2>5. QED BY <2>1, <2>2, <2>3, <2>4 DEF Edits
<1>2. QED BY <1>1, SameWalk

\* A walk comes to the entry as before.
LEMMA Still ==
  ASSUME PageTableAssumption, NEW t, NEW lv, Shaped(t, lv), NEW r, IsTop(t, lv, r),
         NEW v \in Nat, NEW l \in 1 .. 4,
         Comes(t, r, v, l), NEW g, NEW gone, Drops(t, Place(t, r, v, l), v, l, gone),
         Edits(t, g, Place(t, r, v, l), Digit(v, l), gone)
  PROVE  Comes(g, r, v, l) /\ Place(g, r, v, l) = Place(t, r, v, l)
<1> DEFINE x == Place(t, r, v, l)
           i == Digit(v, l)
<1>1. ASSUME NEW k \in 1 .. 4, k > l, Comes(t, r, v, k)
      PROVE  g[Place(t, r, v, k)][Digit(v, k)] = t[Place(t, r, v, k)][Digit(v, k)]
  <2> DEFINE y == Place(t, r, v, k)
  <2>1. x \in DOMAIN t /\ lv[x] = l /\ y \in DOMAIN t /\ lv[y] = k
    BY <1>1, Arrives
  <2>2. Digit(v, k) \in Index
    BY Digits DEF LEVELS
  <2>3. y # x
    BY <1>1, <2>1
  <2>4. y \notin gone
    <3> SUFFICES ASSUME y \in gone PROVE FALSE
      OBVIOUS
    <3>1. l >= 2 /\ Leads(t, x, v, l) /\ y = t[x][i].base
      BY DEF Drops
    <3>2. l \in 2 .. 4 /\ l - 1 \in 1 .. 4
      BY <3>1
    <3>3. Comes(t, r, v, l - 1) /\ Place(t, r, v, l - 1) = y
      BY <3>1, <3>2, PlaceSteps
    <3>4. k = l - 1
      BY <2>1, <3>2, <3>3, Arrives
    <3>5. QED BY <1>1, <3>2, <3>4
  <2>5. QED BY <2>1, <2>2, <2>3, <2>4, Zenon DEF Edits
<1>2. Agrees(t, g, r, v, l)
  BY <1>1 DEF Agrees
<1>3. QED BY <1>2, SamePlace

\* A new table below an entry that named none.
Grows(t, lv, l, x, i, n, us, g, m) ==
    /\ g = [y \in DOMAIN t \cup {n} |->
               IF y = n THEN EmptyTable
               ELSE IF y = x THEN [t[y] EXCEPT ![i] = Table(n, us)] ELSE t[y]]
    /\ m = [y \in DOMAIN t \cup {n} |-> IF y = n THEN l - 1 ELSE lv[y]]

LEMMA Grown ==
  ASSUME PageTableAssumption, NEW t, NEW lv, Shaped(t, lv), NEW l \in 2 .. 4,
         NEW x \in DOMAIN t, lv[x] = l, NEW i \in Index, ~ Points(t, lv, x, i),
         NEW n \in Nat, n \notin DOMAIN t, NEW us \in BOOLEAN,
         NEW g, NEW m, Grows(t, lv, l, x, i, n, us, g, m)
  PROVE  /\ Shaped(g, m) /\ Edits(t, g, x, i, {})
         /\ g[x][i] = Table(n, us) /\ g[n] = EmptyTable
         /\ \A q : IsTop(t, lv, q) => IsTop(g, m, q)
<1>1. /\ DOMAIN g = DOMAIN t \cup {n} /\ DOMAIN m = DOMAIN t \cup {n}
      /\ g[n] = EmptyTable /\ m[n] = l - 1 /\ x # n
      /\ g[x] = [t[x] EXCEPT ![i] = Table(n, us)]
      /\ \A y \in DOMAIN t : m[y] = lv[y] /\ (y # x => g[y] = t[y])
  BY DEF Grows
<1>2. g = [y \in DOMAIN g |-> g[y]] /\ m = [y \in DOMAIN g |-> m[y]]
  BY DEF Grows
<1>3. \A y \in DOMAIN t : /\ lv[y] \in 1 .. 4 /\ t[y] = [j \in Index |-> t[y][j]]
                          /\ \A j \in Index : t[y][j] \in Entry
  BY ShapedFacts DEF LEVELS
<1> DEFINE e == Table(n, us)
<1>4. e \in Entry /\ e.p /\ ~ e.ps /\ e.base = n
  BY DEF Entry, Table
<1>5. Empty \in Entry /\ ~ Empty.p /\ EmptyTable \in [Index -> Entry]
      /\ \A j \in Index : EmptyTable[j] = Empty
  BY DEF Empty, EmptyTable, Entry
<1> HIDE DEF e
<1>6. g[x] \in [Index -> Entry] /\ g[x][i] = e /\ \A j \in Index : j # i => g[x][j] = t[x][j]
  <2>1. g[x] = [t[x] EXCEPT ![i] = e] /\ t[x] \in [Index -> Entry]
    BY <1>1, <1>3 DEF e
  <2>2. QED BY <1>4, <2>1
<1>7. \A y \in DOMAIN t, j \in Index : y # x \/ j # i => g[y][j] = t[y][j]
  BY <1>1, <1>6
<1>8. g \in [DOMAIN g -> [Index -> Entry]]
  <2>1. \A y \in DOMAIN t : t[y] \in [Index -> Entry]
    BY DEF Shaped
  <2>3. \A y \in DOMAIN g : g[y] \in [Index -> Entry]
    BY <1>1, <1>5, <1>6, <2>1
  <2>2. QED BY <1>2, <2>3
<1>9. m \in [DOMAIN g -> 1 .. 4]
  <2>1. \A y \in DOMAIN g : m[y] \in 1 .. 4
    BY <1>1, <1>3
  <2>2. QED BY <1>2, <2>1
<1> HIDE DEF e
<1>10. \A y \in DOMAIN g, j \in Index :
          Points(g, m, y, j) => \/ y = x /\ j = i
                                \/ y \in DOMAIN t /\ Points(t, lv, y, j) /\ g[y][j] = t[y][j]
  <2>1. TAKE y \in DOMAIN g, j \in Index
  <2>2. HAVE Points(g, m, y, j)
  <2>3. y # n
    BY <1>1, <1>5, <2>2 DEF Points
  <2>4. y \in DOMAIN t /\ m[y] = lv[y]
    BY <1>1, <2>3
  <2>5. CASE ~ (y = x /\ j = i)
    <3>1. g[y][j] = t[y][j]
      BY <1>7, <2>4, <2>5
    <3>2. QED BY <2>2, <2>4, <3>1 DEF Points
  <2>6. QED BY <2>5
<1>11. \A y \in DOMAIN g, j \in Index : Points(g, m, y, j) =>
           g[y][j].base \in DOMAIN g /\ m[g[y][j].base] = m[y] - 1
  <2>1. TAKE y \in DOMAIN g, j \in Index
  <2>2. HAVE Points(g, m, y, j)
  <2>3. CASE y = x /\ j = i
    BY <1>1, <1>4, <1>6, <2>3
  <2>4. CASE y \in DOMAIN t /\ Points(t, lv, y, j) /\ g[y][j] = t[y][j]
    <3>1. t[y][j].base \in DOMAIN t /\ lv[t[y][j].base] = lv[y] - 1
      BY <2>4, ShapedFacts
    <3>2. QED BY <1>1, <2>4, <3>1
  <2>5. QED BY <1>10, <2>2, <2>3, <2>4
<1>12. \A y \in DOMAIN g, j \in Index : m[y] > 2 /\ g[y][j].p => ~ g[y][j].ps
  <2>1. TAKE y \in DOMAIN g, j \in Index
  <2>2. CASE y = n
    BY <1>1, <1>5, <2>2
  <2>3. CASE y = x /\ j = i
    BY <1>4, <1>6, <2>3
  <2>4. CASE y \in DOMAIN t /\ ~ (y = x /\ j = i)
    <3>1. g[y][j] = t[y][j] /\ m[y] = lv[y]
      BY <1>1, <1>7, <2>4
    <3>2. QED BY <2>4, <3>1, ShapedFacts
  <2>5. QED BY <1>1, <2>2, <2>3, <2>4
<1>13. \A y, z \in DOMAIN g, j, k \in Index :
          Points(g, m, y, j) /\ Points(g, m, z, k) /\ g[y][j].base = g[z][k].base =>
              j = k /\ (y = z \/ (m[y] = LEVELS /\ m[z] = LEVELS /\ j >= W \div 2))
  <2>1. TAKE y, z \in DOMAIN g, j, k \in Index
  <2>2. HAVE Points(g, m, y, j) /\ Points(g, m, z, k) /\ g[y][j].base = g[z][k].base
  <2>3. \A a \in DOMAIN t, b \in Index : Points(t, lv, a, b) => t[a][b].base # n
    BY ShapedFacts
  <2>4. g[x][i].base = n
    BY <1>4, <1>6
  <2>5. CASE y = x /\ j = i
    <3>1. z = x /\ k = i
      <4> SUFFICES ASSUME ~ (z = x /\ k = i) PROVE FALSE
        OBVIOUS
      <4>1. z \in DOMAIN t /\ Points(t, lv, z, k) /\ g[z][k] = t[z][k]
        BY <1>10, <2>2, Zenon
      <4>2. t[z][k].base # n
        BY <2>3, <4>1
      <4>3. QED BY <2>2, <2>4, <2>5, <4>1, <4>2
    <3>2. QED BY <2>5, <3>1
  <2>6. CASE z = x /\ k = i
    <3>1. y = x /\ j = i
      <4> SUFFICES ASSUME ~ (y = x /\ j = i) PROVE FALSE
        OBVIOUS
      <4>1. y \in DOMAIN t /\ Points(t, lv, y, j) /\ g[y][j] = t[y][j]
        BY <1>10, <2>2, Zenon
      <4>2. t[y][j].base # n
        BY <2>3, <4>1
      <4>3. QED BY <2>2, <2>4, <2>6, <4>1, <4>2
    <3>2. QED BY <2>6, <3>1
  <2>7. CASE ~ (y = x /\ j = i) /\ ~ (z = x /\ k = i)
    <3>1. /\ y \in DOMAIN t /\ Points(t, lv, y, j) /\ g[y][j] = t[y][j]
          /\ z \in DOMAIN t /\ Points(t, lv, z, k) /\ g[z][k] = t[z][k]
      BY <1>10, <2>2, <2>7
    <3>2. j = k /\ (y = z \/ (lv[y] = LEVELS /\ lv[z] = LEVELS /\ j >= W \div 2))
      BY <2>2, <3>1, ShapedFacts
    <3>3. QED BY <1>1, <3>1, <3>2
  <2>8. QED BY <2>5, <2>6, <2>7
<1>14. Shaped(g, m)
  <2>1. m \in [DOMAIN g -> 1 .. LEVELS]
    BY <1>9 DEF LEVELS
  <2>2. \A y \in DOMAIN g, j \in Index :
           /\ Points(g, m, y, j) => g[y][j].base \in DOMAIN g /\ m[g[y][j].base] = m[y] - 1
           /\ m[y] > 2 /\ g[y][j].p => ~ g[y][j].ps
    BY <1>11, <1>12, Zenon
  <2>3. QED BY <1>8, <1>13, <2>1, <2>2, Zenon DEF Shaped
<1>15. \A q : IsTop(t, lv, q) => IsTop(g, m, q)
  BY <1>1 DEF IsTop
<1>16. QED BY <1>1, <1>6, <1>7, <1>14, <1>15 DEF Edits, e

\* An entry that names no table, and the table gone that it named.
Prunes(t, lv, x, i, e, gone, g, m) ==
    /\ gone = IF Points(t, lv, x, i) THEN {t[x][i].base} ELSE {}
    /\ g = [y \in DOMAIN t \ gone |-> IF y = x THEN [t[y] EXCEPT ![i] = e] ELSE t[y]]
    /\ m = [y \in DOMAIN t \ gone |-> lv[y]]

LEMMA Pruned ==
  ASSUME PageTableAssumption, NEW t, NEW lv, Shaped(t, lv), NEW l \in 1 .. 2,
         NEW x \in DOMAIN t, lv[x] = l, NEW i \in Index, NEW e \in Entry,
         e.p, l = 2 => e.ps,
         NEW gone, NEW g, NEW m, Prunes(t, lv, x, i, e, gone, g, m)
  PROVE  /\ Shaped(g, m) /\ Edits(t, g, x, i, gone) /\ g[x][i] = e
         /\ \A q : IsTop(t, lv, q) => IsTop(g, m, q)
         /\ \A y \in gone : y \in DOMAIN t /\ lv[y] = 1 /\ l = 2
<1>1. x \notin gone /\ \A y \in gone : y \in DOMAIN t /\ lv[y] = l - 1
  BY ShapedFacts DEF Prunes
<1>2. \A y \in gone : y \in DOMAIN t /\ lv[y] = 1 /\ l = 2
  <2>1. \A y \in DOMAIN t : lv[y] >= 1
    BY ShapedFacts
  <2>2. QED BY <1>1, <2>1
<1>3. /\ DOMAIN g = DOMAIN t \ gone /\ DOMAIN m = DOMAIN t \ gone /\ x \in DOMAIN g
      /\ g[x] = [t[x] EXCEPT ![i] = e]
      /\ \A y \in DOMAIN g : y \in DOMAIN t /\ m[y] = lv[y] /\ (y # x => g[y] = t[y])
      /\ g = [y \in DOMAIN g |-> g[y]] /\ m = [y \in DOMAIN g |-> m[y]]
  BY <1>1 DEF Prunes
<1>4. \A y \in DOMAIN t : /\ lv[y] \in 1 .. 4 /\ t[y] = [j \in Index |-> t[y][j]]
                          /\ \A j \in Index : t[y][j] \in Entry
  BY ShapedFacts DEF LEVELS
<1>5. g[x] \in [Index -> Entry] /\ g[x][i] = e /\ \A j \in Index : j # i => g[x][j] = t[x][j]
  BY <1>3, <1>4
<1>6. \A y \in DOMAIN g, j \in Index : y # x \/ j # i => g[y][j] = t[y][j]
  BY <1>3, <1>5
<1>7. g \in [DOMAIN g -> [Index -> Entry]]
  <2>1. \A y \in DOMAIN t : t[y] \in [Index -> Entry]
    BY DEF Shaped
  <2>3. \A y \in DOMAIN g : g[y] \in [Index -> Entry]
    BY <1>3, <1>5, <2>1
  <2>2. QED BY <1>3, <2>3
<1>8. m \in [DOMAIN g -> 1 .. 4]
  <2>1. \A y \in DOMAIN g : m[y] \in 1 .. 4
    BY <1>3, <1>4
  <2>2. QED BY <1>3, <2>1
<1>9. \A y \in DOMAIN g, j \in Index : Points(g, m, y, j) =>
          /\ y # x \/ j # i
          /\ Points(t, lv, y, j) /\ g[y][j] = t[y][j]
  <2>1. TAKE y \in DOMAIN g, j \in Index
  <2>2. HAVE Points(g, m, y, j)
  <2>3. m[y] = lv[y]
    BY <1>3
  <2>4. y # x \/ j # i
    <3> SUFFICES ASSUME y = x, j = i PROVE FALSE
      OBVIOUS
    <3>1. l > 1 /\ ~ flags_ps_pat(e, l)
      BY <1>5, <2>2, <2>3 DEF Points
    <3>2. l = 2
      BY <3>1
    <3>3. QED BY <3>1, <3>2 DEF flags_ps_pat
  <2>5. g[y][j] = t[y][j]
    BY <1>6, <2>4
  <2>6. QED BY <2>2, <2>3, <2>4, <2>5 DEF Points
<1>17. \A y \in DOMAIN g : y \in DOMAIN t /\ m[y] = lv[y]
  BY <1>3
<1>10. \A y \in DOMAIN g, j \in Index : Points(g, m, y, j) =>
           g[y][j].base \in DOMAIN g /\ m[g[y][j].base] = m[y] - 1
  <2>1. TAKE y \in DOMAIN g, j \in Index
  <2>2. HAVE Points(g, m, y, j)
  <2>3. Points(t, lv, y, j) /\ g[y][j] = t[y][j] /\ (y # x \/ j # i) /\ y \in DOMAIN t
    BY <1>9, <1>17, <2>2, Zenon
  <2>4. t[y][j].base \in DOMAIN t /\ lv[t[y][j].base] = lv[y] - 1
    BY <2>3, ShapedFacts
  <2>5. t[y][j].base \notin gone
    <3> SUFFICES ASSUME t[y][j].base \in gone PROVE FALSE
      OBVIOUS
    <3>1. Points(t, lv, x, i) /\ t[y][j].base = t[x][i].base
      BY DEF Prunes
    <3>2. j = i /\ (y = x \/ lv[x] = LEVELS)
      BY <2>3, <3>1, ShapedFacts
    <3>3. QED BY <2>3, <3>2 DEF LEVELS
  <2>6. QED BY <1>3, <2>3, <2>4, <2>5
<1>11. \A y \in DOMAIN g, j \in Index : m[y] > 2 /\ g[y][j].p => ~ g[y][j].ps
  <2>1. TAKE y \in DOMAIN g, j \in Index
  <2>2. m[y] = lv[y] /\ y \in DOMAIN t
    BY <1>3
  <2>3. CASE y = x
    BY <2>2, <2>3
  <2>4. CASE y # x
    <3>1. g[y][j] = t[y][j]
      BY <1>6, <2>4
    <3>2. QED BY <2>2, <3>1, ShapedFacts
  <2>5. QED BY <2>3, <2>4
<1>12. \A y, z \in DOMAIN g, j, k \in Index :
          Points(g, m, y, j) /\ Points(g, m, z, k) /\ g[y][j].base = g[z][k].base =>
              j = k /\ (y = z \/ (m[y] = LEVELS /\ m[z] = LEVELS /\ j >= W \div 2))
  <2>1. TAKE y, z \in DOMAIN g, j, k \in Index
  <2>2. HAVE Points(g, m, y, j) /\ Points(g, m, z, k) /\ g[y][j].base = g[z][k].base
  <2>3. /\ y \in DOMAIN t /\ Points(t, lv, y, j) /\ g[y][j] = t[y][j] /\ m[y] = lv[y]
        /\ z \in DOMAIN t /\ Points(t, lv, z, k) /\ g[z][k] = t[z][k] /\ m[z] = lv[z]
    BY <1>9, <1>17, <2>2, Zenon
  <2>4. j = k /\ (y = z \/ (lv[y] = LEVELS /\ lv[z] = LEVELS /\ j >= W \div 2))
    BY <2>2, <2>3, ShapedFacts
  <2>5. QED BY <2>3, <2>4
<1>13. Shaped(g, m)
  <2>1. m \in [DOMAIN g -> 1 .. LEVELS]
    BY <1>8 DEF LEVELS
  <2>2. \A y \in DOMAIN g, j \in Index :
           /\ Points(g, m, y, j) => g[y][j].base \in DOMAIN g /\ m[g[y][j].base] = m[y] - 1
           /\ m[y] > 2 /\ g[y][j].p => ~ g[y][j].ps
    BY <1>10, <1>11, Zenon
  <2>3. QED BY <1>7, <1>12, <2>1, <2>2, Zenon DEF Shaped
<1>14. \A q : IsTop(t, lv, q) => IsTop(g, m, q)
  <2>1. \A q \in DOMAIN t : lv[q] = 4 => q \notin gone
    BY <1>2
  <2>2. QED BY <1>3, <2>1 DEF IsTop, LEVELS
<1>15. Edits(t, g, x, i, gone)
  BY <1>3, <1>6 DEF Edits
<1>16. QED BY <1>2, <1>5, <1>13, <1>14, <1>15
-----------------------------------------------------------------------------
(* One page of a map *)

\* The tables and the frames that nobody has.
Good(t, f, lv) ==
    Shaped(t, lv) /\ f \cup DOMAIN t \subseteq Pool \cup DOMAIN BootTable /\ f \cap DOMAIN t = {}

\* Top tables stay, and keep their entries but the one that a map of v from r
\* may write.
Kept(t, lv, g, m, r, v) ==
    \A q : IsTop(t, lv, q) =>
        IsTop(g, m, q) /\ \A i \in Index : q # r \/ i # Digit(v, 4) => g[q][i] = t[q][i]

\* A map of v from r is kept apart from the walks of table q.
Apart(r, v, q) == r = q \/ Digit(v, 4) < W \div 2

\* a is in the huge page that gives way to a table.
Taken(t, r, v, q, a) == q = r /\ a \div W = v \div W /\ Walked(t, q, a).huge

\* The way down to the tables of level l.
Opened(t, lv, g, r, v, l) ==
    \A q : \A a \in Address : IsTop(t, lv, q) /\ Apart(r, v, q) =>
        IF l = 1 /\ Taken(t, r, v, q, a) THEN Walked(g, q, a) = Nowhere
        ELSE Walked(g, q, a) = Walked(t, q, a)

Frames(f, h, n) == Cardinality(h) + n >= Cardinality(f)

LEMMA KeptTwice ==
  ASSUME NEW t, NEW lv, NEW g, NEW m, NEW h, NEW k, NEW r, NEW v,
         Kept(t, lv, g, m, r, v), Kept(g, m, h, k, r, v)
  PROVE  Kept(t, lv, h, k, r, v)
<1> SUFFICES ASSUME NEW q, IsTop(t, lv, q)
             PROVE  /\ IsTop(h, k, q)
                    /\ \A i \in Index : q # r \/ i # Digit(v, 4) => h[q][i] = t[q][i]
  BY DEF Kept
<1>1. IsTop(g, m, q) /\ \A i \in Index : q # r \/ i # Digit(v, 4) => g[q][i] = t[q][i]
  BY Zenon DEF Kept
<1>2. IsTop(h, k, q) /\ \A i \in Index : q # r \/ i # Digit(v, 4) => h[q][i] = g[q][i]
  BY <1>1, Zenon DEF Kept
<1>3. QED BY <1>1, <1>2

LEMMA GoodFrames ==
  ASSUME PageTableAssumption, NEW t, NEW f, NEW lv, Good(t, f, lv)
  PROVE  /\ IsFiniteSet(f) /\ Cardinality(f) \in Nat /\ f \subseteq Nat /\ DOMAIN t \subseteq Nat
         /\ Shaped(t, lv) /\ \A x \in f : x \notin DOMAIN t
<1>1. IsFiniteSet(Pool \cup DOMAIN BootTable) /\ Pool \cup DOMAIN BootTable \subseteq Nat
  BY DEF PageTableAssumption
<1>2. f \subseteq Pool \cup DOMAIN BootTable /\ DOMAIN t \subseteq Pool \cup DOMAIN BootTable
  BY DEF Good
<1>3. IsFiniteSet(f)
  BY <1>1, <1>2, FS_Subset
<1>4. Shaped(t, lv) /\ \A x \in f : x \notin DOMAIN t
  BY DEF Good
<1>5. f \subseteq Nat /\ DOMAIN t \subseteq Nat
  BY <1>1, <1>2
<1>6. QED BY <1>3, <1>4, <1>5, FS_CardinalityType

\* The least frame.
Less == {p \in Nat \X Nat : p[1] < p[2]}

LEMMA LessWF == IsWellFoundedOn(Less, Nat)
<1>1. Less = OpToRel(<, Nat)
  BY DEF Less, OpToRel
<1>2. QED BY <1>1, NatLessThanWellFounded DEF Less, OpToRel

LEMMA LeastNat ==
  ASSUME NEW T \in SUBSET Nat, T # {}
  PROVE  \E x \in T : \A y \in T : x <= y
<1>1. PICK x \in T : \A y \in T : ~ (<<y, x>> \in Less)
  BY LessWF, WFMin
<1>2. \A y \in T : ~ (y < x)
  BY <1>1 DEF Less
<1> QED
  BY <1>1, <1>2

LEMMA NewFrameIs ==
  ASSUME NEW f \in SUBSET Nat, f # {}
  PROVE  NewFrame(f) \in f
<1>1. \E x \in f : \A y \in f : x <= y
  BY LeastNat
<1>2. QED BY <1>1 DEF NewFrame

\* One level down.
Descended(t, f, lv, g, h, m, r, v, l, us) ==
    /\ Descend(Walk(t, f, Place(t, r, v, l)), v, l, us) = Walk(g, h, Place(g, r, v, l - 1))
    /\ Good(g, h, m) /\ Comes(g, r, v, l - 1) /\ Frames(f, h, 1)
    /\ Kept(t, lv, g, m, r, v) /\ Opened(t, lv, g, r, v, l - 1)

LEMMA Descends ==
  ASSUME PageTableAssumption, NEW t, NEW f, NEW lv, Good(t, f, lv), NEW r, IsTop(t, lv, r),
         NEW v \in Address, NEW l \in 2 .. 4, Comes(t, r, v, l), f # {}, NEW us \in BOOLEAN
  PROVE  \E g, h, m : Descended(t, f, lv, g, h, m, r, v, l, us)
<1> DEFINE x == Place(t, r, v, l)
           i == Digit(v, l)
           e == t[x][i]
           w == Walk(t, f, x)
           n == NewFrame(f)
<1>1. /\ l \in 1 .. 4 /\ l - 1 \in 1 .. 4 /\ l > 1 /\ v \in Nat
      /\ IsFiniteSet(f) /\ Cardinality(f) \in Nat /\ f \subseteq Nat /\ Shaped(t, lv)
      /\ \A y \in f : y \notin DOMAIN t
  <2>1. v \in Nat
    BY Determined
  <2>2. QED BY <2>1, GoodFrames
<1>2. x \in DOMAIN t /\ lv[x] = l /\ i \in Index
  <2>1. i \in Index
    BY <1>1, Digits DEF LEVELS
  <2>2. QED BY <1>1, <2>1, Arrives
<1>3. w.table = t /\ w.free = f /\ w.at = x
  BY DEF Walk
<1>4. Leads(t, x, v, l) <=> e.p /\ ~ flags_ps_pat(e, l)
  BY DEF Leads
<1>5. CASE Leads(t, x, v, l)
  <2>1. Descend(w, v, l, us) = [w EXCEPT !.at = e.base]
    BY <1>3, <1>4, <1>5, Zenon DEF Descend, Digit
  <2>2. [w EXCEPT !.at = e.base] = Walk(t, f, e.base)
    BY DEF Walk
  <2>3. Comes(t, r, v, l - 1) /\ Place(t, r, v, l - 1) = e.base
    BY <1>5, PlaceSteps
  <2>4. Descend(w, v, l, us) = Walk(t, f, Place(t, r, v, l - 1))
    BY <2>1, <2>2, <2>3, Zenon
  <2>5. Frames(f, f, 1)
    BY <1>1 DEF Frames
  <2>6. Kept(t, lv, t, lv, r, v) /\ Opened(t, lv, t, r, v, l - 1)
    <3>1. ASSUME NEW q, NEW a \in Address, l - 1 = 1, Taken(t, r, v, q, a) PROVE FALSE
      <4>1. a \in Nat /\ a \div W = v \div W /\ Walked(t, r, a).huge
        BY <3>1, Determined DEF Taken
      <4>2. \A k \in 2 .. 4 : k > 1 => Digit(v, k) = Digit(a, k)
        <5>1. Digit(v, 4) = Digit(a, 4) /\ Digit(v, 3) = Digit(a, 3) /\ Digit(v, 2) = Digit(a, 2)
          BY <4>1, Determined
        <5>2. \A k \in 2 .. 4 : k = 2 \/ k = 3 \/ k = 4
          OBVIOUS
        <5>3. QED BY <5>1, <5>2
      <4>3. Comes(t, r, v, 1)
        BY <2>3, <3>1
      <4>4. Comes(t, r, a, 1)
        BY <1>1, <4>1, <4>2, <4>3, Follows
      <4>5. ~ Walked(t, r, a).huge
        <5>1. ~ Nowhere.huge
          BY DEF Nowhere
        <5>2. /\ Shaped(t, lv) /\ a \in Nat /\ 1 \in 1 .. 4
          BY <1>1, <4>1
        <5>3. \/ Walked(t, r, a) = Nowhere
              \/ ~ Walked(t, r, a).huge
          BY <4>4, <5>2, Lands
        <5>4. QED BY <5>1, <5>3, Zenon
      <4>6. QED BY <4>1, <4>5
    <3>2. QED BY <3>1, Zenon DEF Kept, Opened
  <2>7. Descended(t, f, lv, t, f, lv, r, v, l, us)
    BY <2>3, <2>4, <2>5, <2>6, Zenon DEF Descended
  <2>8. QED BY <2>7
<1>6. CASE ~ Leads(t, x, v, l)
  <2> DEFINE g == [y \in DOMAIN t \cup {n} |->
                      IF y = n THEN EmptyTable
                      ELSE IF y = x THEN [t[y] EXCEPT ![i] = Table(n, us)] ELSE t[y]]
             m == [y \in DOMAIN t \cup {n} |-> IF y = n THEN l - 1 ELSE lv[y]]
             h == f \ {n}
  <2>1. n \in f /\ n \in Nat /\ n \notin DOMAIN t
    BY <1>1, NewFrameIs
  <2>2. Descend(w, v, l, us) = Walk(g, h, n)
    BY <1>3, <1>4, <1>6, Zenon DEF Descend, Digit
  <2>3. ~ Points(t, lv, x, i)
    BY <1>2, <1>6 DEF Points, Leads
  <2>4. /\ Shaped(g, m) /\ Edits(t, g, x, i, {})
        /\ g[x][i] = Table(n, us) /\ g[n] = EmptyTable
        /\ \A q : IsTop(t, lv, q) => IsTop(g, m, q)
    <3> HIDE DEF n, x, i
    <3>1. Grows(t, lv, l, x, i, n, us, g, m)
      BY DEF Grows
    <3> HIDE DEF g, m
    <3>2. QED BY <1>1, <1>2, <2>1, <2>3, <3>1, Grown
  <2>5. DOMAIN g = DOMAIN t \cup {n}
    OBVIOUS
  <2>6. Good(g, h, m)
    <3>1. f \cup DOMAIN t \subseteq Pool \cup DOMAIN BootTable /\ f \cap DOMAIN t = {}
      BY DEF Good
    <3> HIDE DEF g, m, n
    <3>2. QED BY <2>1, <2>4, <2>5, <3>1 DEF Good
  <2>7. Frames(f, h, 1)
    <3>1. Cardinality(h) = Cardinality(f) - 1
      BY <1>1, <2>1, FS_RemoveElement
    <3>2. QED BY <1>1, <3>1 DEF Frames
  <2> HIDE DEF g, m, n, h
  <2>8. Drops(t, x, v, l, {})
    BY DEF Drops
  <2>9. Comes(g, r, v, l) /\ Place(g, r, v, l) = x
    BY <1>1, <2>4, <2>8, Still
  <2>10. Table(n, us).p /\ ~ Table(n, us).ps /\ Table(n, us).base = n
    BY DEF Table
  <2>11. Leads(g, x, v, l)
    BY <2>4, <2>10 DEF Leads, flags_ps_pat
  <2>12. Comes(g, r, v, l - 1) /\ Place(g, r, v, l - 1) = n
    BY <2>4, <2>9, <2>10, <2>11, PlaceSteps
  <2>13. Kept(t, lv, g, m, r, v)
    <3> SUFFICES ASSUME NEW q, IsTop(t, lv, q), NEW j \in Index, q # r \/ j # Digit(v, 4)
                 PROVE  g[q][j] = t[q][j]
      BY <2>4 DEF Kept
    <3>1. q # x \/ j # i
      <4> SUFFICES ASSUME q = x PROVE j # i
        OBVIOUS
      <4>1. l = 4
        BY <1>2 DEF IsTop, LEVELS
      <4>2. QED BY <4>1, PlaceSteps
    <3>2. q \in DOMAIN t
      BY DEF IsTop
    <3>3. QED BY <2>4, <3>1, <3>2 DEF Edits
  <2>14. Opened(t, lv, g, r, v, l - 1)
    <3> SUFFICES ASSUME NEW q, NEW a \in Address, IsTop(t, lv, q), Apart(r, v, q)
                 PROVE  IF l - 1 = 1 /\ Taken(t, r, v, q, a) THEN Walked(g, q, a) = Nowhere
                        ELSE Walked(g, q, a) = Walked(t, q, a)
      BY DEF Opened
    <3>1. a \in Nat
      BY Determined
    <3>2. CASE r # q \/ \E k \in 1 .. 4 : k >= l /\ Digit(v, k) # Digit(a, k)
      <4>1. r = q \/ Digit(v, 4) < W \div 2
        BY DEF Apart
      <4>2. Walked(g, q, a) = Walked(t, q, a)
        BY <1>1, <2>4, <2>8, <3>1, <3>2, <4>1, Elsewhere
      <4>3. l - 1 = 1 => ~ Taken(t, r, v, q, a)
        <5>1. \A k \in 1 .. 4 : k >= 2 => k = 2 \/ k = 3 \/ k = 4
          OBVIOUS
        <5>2. a \div W = v \div W => Digit(v, 4) = Digit(a, 4) /\ Digit(v, 3) = Digit(a, 3) /\ Digit(v, 2) = Digit(a, 2)
          BY Determined
        <5>3. l - 1 = 1 => l = 2
          BY <1>1
        <5>4. QED BY <3>2, <5>1, <5>2, <5>3 DEF Taken
      <4>4. QED BY <4>2, <4>3
    <3>3. CASE r = q /\ \A k \in 1 .. 4 : k >= l => Digit(v, k) = Digit(a, k)
      <4>1. /\ \A k \in 2 .. 4 : k > l => Digit(v, k) = Digit(a, k)
            /\ \A k \in 2 .. 4 : k > l - 1 => Digit(v, k) = Digit(a, k)
            /\ Digit(v, l) = Digit(a, l)
        BY <1>1, <3>3
      <4>2. Comes(g, r, a, l - 1) /\ Place(g, r, a, l - 1) = n
        BY <1>1, <2>12, <4>1, Follows
      <4>3. ~ g[n][Digit(a, l - 1)].p
        <5>1. Digit(a, l - 1) \in Index
          BY <1>1, <3>1, Digits DEF LEVELS
        <5>2. QED BY <2>4, <5>1 DEF EmptyTable, Empty
      <4>4. Walked(g, r, a) = Nowhere
        <5>1. Shaped(g, m) /\ IsTop(g, m, r)
          BY <2>4
        <5>2. QED BY <1>1, <3>1, <4>2, <4>3, <5>1, Lands
      <4>5. Comes(t, r, a, l) /\ Place(t, r, a, l) = x
        BY <1>1, <4>1, Follows
      <4>6. CASE ~ e.p
        <5>1. Walked(t, r, a) = Nowhere
          BY <1>1, <3>1, <4>1, <4>5, <4>6, Lands
        <5>2. QED BY <3>3, <4>4, <5>1, Zenon
      <4>7. CASE e.p
        <5>1. flags_ps_pat(e, l)
          BY <1>4, <1>6, <4>7
        <5>2. Walked(t, r, a).huge
          BY <1>1, <3>1, <4>1, <4>5, <4>7, <5>1, Lands
        <5>3. l = 2
          <6>1. l \in {2, 3} /\ e.ps
            BY <5>1 DEF flags_ps_pat
          <6>2. lv[x] > 2 => ~ e.ps
            BY <1>1, <1>2, <4>7, ShapedFacts
          <6>3. QED BY <1>2, <6>1, <6>2
        <5>4. a \div W = v \div W
          <6>1. Digit(v, 4) = Digit(a, 4) /\ Digit(v, 3) = Digit(a, 3) /\ Digit(v, 2) = Digit(a, 2)
            BY <3>3, <5>3
          <6>2. QED BY <6>1, Determined
        <5>5. QED BY <3>3, <4>4, <5>2, <5>3, <5>4 DEF Taken
      <4>8. QED BY <4>6, <4>7
    <3>4. QED BY <3>2, <3>3
  <2>15. Descend(w, v, l, us) = Walk(g, h, Place(g, r, v, l - 1))
    BY <2>2, <2>12
  <2>16. Descended(t, f, lv, g, h, m, r, v, l, us)
    BY <2>6, <2>7, <2>12, <2>13, <2>14, <2>15, Zenon DEF Descended
  <2>17. QED BY <2>16
<1>7. QED BY <1>5, <1>6
\* The page that a map of v by mode writes, and what it makes of it.
Own(a, v, mode) == IF mode = P2Mib THEN a \div W = v \div W ELSE a = v
Mapped(g, q, a, p, mode, us) ==
    /\ Walked(g, q, a).at = IF mode = P2Mib THEN Cut(p) + (a % W) ELSE p
    /\ Walked(g, q, a).us => us
    /\ mode = P4Kib => ~ Walked(g, q, a).huge

Written(t, lv, g, r, p, v, mode, us) ==
    \A q : \A a \in Address : IsTop(t, lv, q) /\ Apart(r, v, q) =>
        IF q = r /\ Own(a, v, mode) THEN Mapped(g, q, a, p, mode, us)
        ELSE Walked(g, q, a) = Walked(t, q, a)

LEMMA Modes ==
  /\ P4Kib = 1 /\ P2Mib = 2 /\ P4Kib # P2Mib
  /\ \A mode \in Mode : mode = P4Kib \/ mode = P2Mib
  BY DEF P4Kib, P2Mib, Mode

\* The entry itself.
Left(t, f, lv, g, h, m, r, p, v, mode, us) ==
    /\ Leaf(Walk(t, f, Place(t, r, v, mode)), p, v, mode, us) = Walk(g, h, Place(t, r, v, mode))
    /\ Good(g, h, m) /\ Frames(f, h, 0)
    /\ Kept(t, lv, g, m, r, v) /\ Written(t, lv, g, r, p, v, mode, us)

LEMMA Leaves ==
  ASSUME PageTableAssumption, NEW t, NEW f, NEW lv, Good(t, f, lv), NEW r, IsTop(t, lv, r),
         NEW v \in Address, NEW mode \in Mode, Comes(t, r, v, mode), NEW p \in Nat, NEW us \in BOOLEAN
  PROVE  \E g, h, m : Left(t, f, lv, g, h, m, r, p, v, mode, us)
<1> DEFINE l == mode
           x == Place(t, r, v, l)
           i == Digit(v, l)
           e == t[x][i]
           w == Walk(t, f, x)
           new == IF mode = P2Mib THEN Huge(p, us) ELSE Small(p, us)
           gone == IF Points(t, lv, x, i) THEN {e.base} ELSE {}
           g == [y \in DOMAIN t \ gone |-> IF y = x THEN [t[y] EXCEPT ![i] = new] ELSE t[y]]
           m == [y \in DOMAIN t \ gone |-> lv[y]]
           h == f \cup gone
<1>1. /\ l \in 1 .. 2 /\ l \in 1 .. 4 /\ v \in Nat
      /\ IsFiniteSet(f) /\ Cardinality(f) \in Nat /\ f \subseteq Nat /\ Shaped(t, lv)
      /\ \A y \in f : y \notin DOMAIN t
  <2>1. v \in Nat
    BY Determined
  <2>2. QED BY <2>1, GoodFrames, Modes
<1>2. x \in DOMAIN t /\ lv[x] = l /\ i \in Index
  <2>1. i \in Index
    BY <1>1, Digits DEF LEVELS
  <2>2. QED BY <1>1, <2>1, Arrives
<1>3. w.table = t /\ w.free = f /\ w.at = x
  BY DEF Walk
<1>4. Cut(p) \in Nat
  <2>1. W \in Nat \ {0}
    BY Widths
  <2>2. QED BY <2>1, Remainder DEF Cut
<1>5. /\ new \in Entry /\ new.p /\ (l = 2 => new.ps) /\ new.us = us
      /\ new.base = IF mode = P2Mib THEN Cut(p) ELSE p
  <2>1. Huge(p, us) \in Entry /\ Huge(p, us).p /\ Huge(p, us).ps /\ Huge(p, us).us = us
        /\ Huge(p, us).base = Cut(p)
    BY <1>4 DEF Huge, Entry
  <2>2. Small(p, us) \in Entry /\ Small(p, us).p /\ Small(p, us).us = us /\ Small(p, us).base = p
    BY DEF Small, Entry
  <2>3. QED BY <2>1, <2>2, Modes
<1>6. gone = IF mode = P2Mib /\ e.p /\ ~ e.ps THEN {e.base} ELSE {}
  <2>1. Points(t, lv, x, i) <=> mode = P2Mib /\ e.p /\ ~ e.ps
    <3>1. mode = P2Mib => (Points(t, lv, x, i) <=> e.p /\ ~ e.ps)
      BY <1>2, Modes DEF Points, flags_ps_pat
    <3>2. mode = P4Kib => ~ Points(t, lv, x, i)
      BY <1>2, Modes DEF Points
    <3>3. QED BY <3>1, <3>2, Modes
  <2>2. QED BY <2>1
<1>7. Leaf(w, p, v, mode, us) = Walk(g, h, x)
  <2> DEFINE old == IF mode = P2Mib /\ e.p /\ ~ e.ps THEN {e.base} ELSE {}
  <2>1. Leaf(w, p, v, mode, us) =
            Walk([y \in DOMAIN t \ old |->
                     IF y = x THEN [t[y] EXCEPT ![i] = new] ELSE t[y]],
                 f \cup old, x)
    BY <1>3, Zenon DEF Leaf, Digit
  <2>2. old = gone
    BY <1>6
  <2> HIDE DEF old, gone
  <2>3. QED BY <2>1, <2>2
<1>8. Prunes(t, lv, x, i, new, gone, g, m)
  BY DEF Prunes
<1>9. DOMAIN g = DOMAIN t \ gone
  OBVIOUS
<1>10. gone = {} \/ (Points(t, lv, x, i) /\ gone = {e.base})
  OBVIOUS
<1> HIDE DEF g, m, new, gone
<1>11. /\ Shaped(g, m) /\ Edits(t, g, x, i, gone) /\ g[x][i] = new
       /\ \A q : IsTop(t, lv, q) => IsTop(g, m, q)
       /\ \A y \in gone : y \in DOMAIN t /\ lv[y] = 1 /\ l = 2
  <2> HIDE DEF l, x, i
  <2>1. QED BY <1>1, <1>2, <1>5, <1>8, Pruned
<1>12. Good(g, h, m)
  <2>1. f \cup DOMAIN t \subseteq Pool \cup DOMAIN BootTable /\ f \cap DOMAIN t = {}
    BY DEF Good
  <2>2. gone \subseteq DOMAIN t
    BY <1>11
  <2>3. QED BY <1>9, <1>11, <2>1, <2>2 DEF Good
<1>13. Frames(f, h, 0)
  <2>1. IsFiniteSet(h) /\ Cardinality(h) \in Nat
    BY <1>12, GoodFrames
  <2>2. f \subseteq h
    OBVIOUS
  <2> HIDE DEF h
  <2>3. Cardinality(f) <= Cardinality(h)
    BY <2>1, <2>2, FS_Subset
  <2>4. QED BY <1>1, <2>1, <2>3 DEF Frames
<1> HIDE DEF h
<1>14. Drops(t, x, v, l, gone)
  <2>1. Points(t, lv, x, i) => l >= 2 /\ Leads(t, x, v, l)
    BY <1>1, <1>2 DEF Points, Leads
  <2>2. QED BY <1>10, <2>1 DEF Drops
<1>15. Comes(g, r, v, l) /\ Place(g, r, v, l) = x
  BY <1>1, <1>11, <1>14, Still
<1>16. Kept(t, lv, g, m, r, v)
  <2> SUFFICES ASSUME NEW q, IsTop(t, lv, q), NEW j \in Index PROVE g[q][j] = t[q][j]
    BY <1>11 DEF Kept
  <2>1. q # x /\ q \notin gone /\ q \in DOMAIN t
    BY <1>1, <1>2, <1>11 DEF IsTop, LEVELS
  <2>2. QED BY <1>11, <2>1 DEF Edits
<1>17. Written(t, lv, g, r, p, v, mode, us)
  <2> SUFFICES ASSUME NEW q, NEW a \in Address, IsTop(t, lv, q), Apart(r, v, q)
               PROVE  IF q = r /\ Own(a, v, mode) THEN Mapped(g, q, a, p, mode, us)
                      ELSE Walked(g, q, a) = Walked(t, q, a)
    BY DEF Written
  <2>1. a \in Nat
    BY Determined
  <2>2. Own(a, v, mode) <=> \A k \in 1 .. 4 : k >= l => Digit(v, k) = Digit(a, k)
    <3>1. \A k \in 1 .. 4 : k = 1 \/ k = 2 \/ k = 3 \/ k = 4
      OBVIOUS
    <3>2. CASE mode = P2Mib
      <4>1. Own(a, v, mode) <=> /\ Digit(v, 4) = Digit(a, 4) /\ Digit(v, 3) = Digit(a, 3)
                                /\ Digit(v, 2) = Digit(a, 2)
        BY <3>2, Determined DEF Own
      <4>2. l = 2
        BY <3>2, Modes
      <4>3. QED BY <3>1, <4>1, <4>2
    <3>3. CASE mode = P4Kib
      <4>1. Own(a, v, mode) <=> /\ Digit(v, 4) = Digit(a, 4) /\ Digit(v, 3) = Digit(a, 3)
                                /\ Digit(v, 2) = Digit(a, 2) /\ Digit(v, 1) = Digit(a, 1)
        BY <3>3, Determined, Modes DEF Own
      <4>2. l = 1
        BY <3>3, Modes
      <4>3. QED BY <3>1, <4>1, <4>2
    <3>4. QED BY <3>2, <3>3, Modes
  <2>3. CASE ~ (q = r /\ Own(a, v, mode))
    <3>1. r # q \/ \E k \in 1 .. 4 : k >= l /\ Digit(v, k) # Digit(a, k)
      BY <2>2, <2>3
    <3>2. r = q \/ Digit(v, 4) < W \div 2
      BY DEF Apart
    <3>3. Walked(g, q, a) = Walked(t, q, a)
      BY <1>1, <1>11, <1>14, <2>1, <3>1, <3>2, Elsewhere
    <3>4. QED BY <2>3, <3>3
  <2>4. CASE q = r /\ Own(a, v, mode)
    <3>1. /\ \A k \in 2 .. 4 : k > l => Digit(v, k) = Digit(a, k)
          /\ Digit(v, l) = Digit(a, l)
      BY <1>1, <2>2, <2>4
    <3>2. Comes(g, r, a, l) /\ Place(g, r, a, l) = x
      BY <1>1, <1>15, <3>1, Follows
    <3>3. g[Place(g, r, a, l)][Digit(a, l)] = new
      BY <1>11, <3>1, <3>2
    <3>4. Shaped(g, m) /\ IsTop(g, m, r)
      BY <1>11
    <3>5. /\ flags_ps_pat(new, l) =>
                /\ Walked(g, r, a).at = new.base + (a % Power[l - 1])
                /\ Walked(g, r, a).us => us
          /\ l = 1 => /\ Walked(g, r, a).at = new.base /\ (Walked(g, r, a).us => us)
                      /\ ~ Walked(g, r, a).huge
      BY <1>1, <1>5, <2>1, <3>2, <3>3, <3>4, Lands
    <3>6. CASE mode = P2Mib
      <4>1. l = 2 /\ l - 1 = 1 /\ flags_ps_pat(new, l)
        BY <1>5, <3>6, Modes DEF flags_ps_pat
      <4>2. new.base = Cut(p) /\ Power[l - 1] = W
        BY <1>5, <3>6, <4>1, Powers
      <4>3. QED BY <2>4, <3>5, <3>6, <4>1, <4>2, Modes DEF Mapped
    <3>7. CASE mode = P4Kib
      <4>1. l = 1 /\ new.base = p
        BY <1>5, <3>7, Modes
      <4>2. QED BY <2>4, <3>5, <3>7, <4>1, Modes DEF Mapped
    <3>8. QED BY <3>6, <3>7, Modes
  <2>5. QED BY <2>3, <2>4
<1>18. Left(t, f, lv, g, h, m, r, p, v, mode, us)
  BY <1>7, <1>12, <1>13, <1>16, <1>17, Zenon DEF Left
<1>19. QED BY <1>18
\* One page of a map.
Entered(t, lv, g, r, p, v, mode, us) ==
    \A q : \A a \in Address : IsTop(t, lv, q) /\ Apart(r, v, q) =>
        IF q = r /\ Own(a, v, mode) THEN Mapped(g, q, a, p, mode, us)
        ELSE IF mode = P4Kib /\ Taken(t, r, v, q, a) THEN Walked(g, q, a) = Nowhere
        ELSE Walked(g, q, a) = Walked(t, q, a)

Put(t, f, lv, g, h, m, r, p, v, mode, us) ==
    /\ Good(g, h, m) /\ Frames(f, h, 3)
    /\ Kept(t, lv, g, m, r, v) /\ Entered(t, lv, g, r, p, v, mode, us)

LEMMA OnePage ==
  ASSUME PageTableAssumption, NEW t, NEW f, NEW lv, Good(t, f, lv), NEW r, IsTop(t, lv, r),
         NEW v \in Address, NEW mode \in Mode, NEW p \in Nat, NEW us \in BOOLEAN,
         Cardinality(f) >= 3, NEW from
  PROVE  \E g, h, m, at : /\ MapPage(Walk(t, f, from), r, p, v, mode, us) = Walk(g, h, at)
                          /\ Put(t, f, lv, g, h, m, r, p, v, mode, us)
<1>1. /\ \A u, g, h, m : Descended(t, f, lv, g, h, m, r, v, 4, u) =>
             /\ Good(g, h, m) /\ Comes(g, r, v, 3) /\ Frames(f, h, 1)
             /\ Kept(t, lv, g, m, r, v) /\ Opened(t, lv, g, r, v, 3)
      /\ Comes(t, r, v, 4) /\ Place(t, r, v, 4) = r
  BY PlaceSteps DEF Descended
<1>2. [Walk(t, f, from) EXCEPT !.at = r] = Walk(t, f, r)
  BY DEF Walk
<1>3. Cardinality(f) \in Nat /\ f # {}
  <2>1. IsFiniteSet(f) /\ Cardinality(f) \in Nat
    BY GoodFrames
  <2>2. QED BY <2>1, FS_EmptySet
<1>4. PICK g3, h3, m3 : Descended(t, f, lv, g3, h3, m3, r, v, 4, us)
  BY <1>1, <1>3, Descends
<1>5. /\ Descend(Walk(t, f, r), v, 4, us) = Walk(g3, h3, Place(g3, r, v, 3))
      /\ Good(g3, h3, m3) /\ Comes(g3, r, v, 3) /\ Frames(f, h3, 1)
      /\ Kept(t, lv, g3, m3, r, v) /\ Opened(t, lv, g3, r, v, 3)
  BY <1>1, <1>4 DEF Descended
<1>6. /\ IsTop(g3, m3, r) /\ Cardinality(h3) \in Nat /\ h3 # {} /\ Cardinality(h3) >= 2
  <2>1. IsFiniteSet(h3) /\ Cardinality(h3) \in Nat
    BY <1>5, GoodFrames
  <2>2. Cardinality(h3) >= 2
    BY <1>3, <1>5, <2>1 DEF Frames
  <2>3. QED BY <1>5, <2>1, <2>2, FS_EmptySet DEF Kept
<1>7. PICK g2, h2, m2 : Descended(g3, h3, m3, g2, h2, m2, r, v, 3, us)
  BY <1>5, <1>6, Descends
<1>8. /\ Descend(Walk(g3, h3, Place(g3, r, v, 3)), v, 3, us) = Walk(g2, h2, Place(g2, r, v, 2))
      /\ Good(g2, h2, m2) /\ Comes(g2, r, v, 2) /\ Frames(h3, h2, 1)
      /\ Kept(g3, m3, g2, m2, r, v) /\ Opened(g3, m3, g2, r, v, 2)
  BY <1>7 DEF Descended
<1>9. /\ IsTop(g2, m2, r) /\ Cardinality(h2) \in Nat /\ h2 # {} /\ Frames(f, h2, 2)
      /\ Kept(t, lv, g2, m2, r, v)
  <2>1. IsFiniteSet(h2) /\ Cardinality(h2) \in Nat
    BY <1>8, GoodFrames
  <2>2. Cardinality(h2) >= 1 /\ Frames(f, h2, 2)
    BY <1>3, <1>5, <1>6, <1>8, <2>1 DEF Frames
  <2>3. Kept(t, lv, g2, m2, r, v)
    BY <1>5, <1>8, KeptTwice
  <2>4. QED BY <2>1, <2>2, <2>3, FS_EmptySet DEF Kept
<1>10. ASSUME NEW q, NEW a \in Address, IsTop(t, lv, q), Apart(r, v, q)
       PROVE  /\ Walked(g3, q, a) = Walked(t, q, a) /\ Walked(g2, q, a) = Walked(t, q, a)
              /\ IsTop(g3, m3, q) /\ IsTop(g2, m2, q)
  <2>1. IsTop(g3, m3, q) /\ IsTop(g2, m2, q)
    BY <1>5, <1>8, <1>10 DEF Kept
  <2>2. Walked(g3, q, a) = Walked(t, q, a)
    <3>1. ~ (3 = 1)
      OBVIOUS
    <3>2. QED BY <1>5, <1>10, <3>1, Zenon DEF Opened
  <2>3. Walked(g2, q, a) = Walked(g3, q, a)
    <3>1. ~ (2 = 1)
      OBVIOUS
    <3>2. QED BY <1>8, <1>10, <2>1, <3>1, Zenon DEF Opened
  <2>4. QED BY <2>1, <2>2, <2>3
<1>11. CASE mode = P2Mib
  <2>1. mode = 2
    BY <1>11, Modes
  <2>2. PICK g, h, m : Left(g2, h2, m2, g, h, m, r, p, v, mode, us)
    BY <1>8, <1>9, <2>1, Leaves
  <2>3. /\ Leaf(Walk(g2, h2, Place(g2, r, v, 2)), p, v, mode, us) = Walk(g, h, Place(g2, r, v, 2))
        /\ Good(g, h, m) /\ Frames(h2, h, 0)
        /\ Kept(g2, m2, g, m, r, v) /\ Written(g2, m2, g, r, p, v, mode, us)
    BY <2>1, <2>2 DEF Left
  <2>4. MapPage(Walk(t, f, from), r, p, v, mode, us) = Walk(g, h, Place(g2, r, v, 2))
    BY <1>2, <1>5, <1>8, <1>11, <2>3, Zenon DEF MapPage
  <2>5. Frames(f, h, 3)
    <3>1. Cardinality(h) \in Nat
      BY <2>3, GoodFrames
    <3>2. QED BY <1>3, <1>9, <2>3, <3>1 DEF Frames
  <2>6. Kept(t, lv, g, m, r, v)
    BY <1>9, <2>3, KeptTwice
  <2>7. Entered(t, lv, g, r, p, v, mode, us)
    <3> SUFFICES ASSUME NEW q, NEW a \in Address, IsTop(t, lv, q), Apart(r, v, q)
                 PROVE  IF q = r /\ Own(a, v, mode) THEN Mapped(g, q, a, p, mode, us)
                        ELSE IF mode = P4Kib /\ Taken(t, r, v, q, a) THEN Walked(g, q, a) = Nowhere
                        ELSE Walked(g, q, a) = Walked(t, q, a)
      BY DEF Entered
    <3>1. Walked(g2, q, a) = Walked(t, q, a) /\ IsTop(g2, m2, q)
      BY <1>10
    <3>2. IF q = r /\ Own(a, v, mode) THEN Mapped(g, q, a, p, mode, us)
          ELSE Walked(g, q, a) = Walked(g2, q, a)
      BY <2>3, <3>1, Zenon DEF Written
    <3>3. mode # P4Kib
      BY <2>1, Modes
    <3>4. QED BY <3>1, <3>2, <3>3, Zenon
  <2>8. Put(t, f, lv, g, h, m, r, p, v, mode, us)
    BY <2>3, <2>5, <2>6, <2>7, Zenon DEF Put
  <2>9. QED BY <2>4, <2>8
<1>12. CASE mode = P4Kib
  <2>1. mode = 1 /\ mode # P2Mib
    BY <1>12, Modes
  <2>2. PICK g1, h1, m1 : Descended(g2, h2, m2, g1, h1, m1, r, v, 2, us)
    BY <1>8, <1>9, Descends
  <2>3. /\ Descend(Walk(g2, h2, Place(g2, r, v, 2)), v, 2, us) = Walk(g1, h1, Place(g1, r, v, 1))
        /\ Good(g1, h1, m1) /\ Comes(g1, r, v, 1) /\ Frames(h2, h1, 1)
        /\ Kept(g2, m2, g1, m1, r, v) /\ Opened(g2, m2, g1, r, v, 1)
    BY <2>2 DEF Descended
  <2>4. IsTop(g1, m1, r) /\ Cardinality(h1) \in Nat
    BY <1>9, <2>3, GoodFrames DEF Kept
  <2>5. PICK g, h, m : Left(g1, h1, m1, g, h, m, r, p, v, mode, us)
    BY <2>1, <2>3, <2>4, Leaves
  <2>6. /\ Leaf(Walk(g1, h1, Place(g1, r, v, 1)), p, v, mode, us) = Walk(g, h, Place(g1, r, v, 1))
        /\ Good(g, h, m) /\ Frames(h1, h, 0)
        /\ Kept(g1, m1, g, m, r, v) /\ Written(g1, m1, g, r, p, v, mode, us)
    BY <2>1, <2>5 DEF Left
  <2>7. MapPage(Walk(t, f, from), r, p, v, mode, us) = Walk(g, h, Place(g1, r, v, 1))
    BY <1>2, <1>5, <1>8, <2>1, <2>3, <2>6, Zenon DEF MapPage
  <2>8. Frames(f, h, 3)
    <3>1. Cardinality(h) \in Nat
      BY <2>6, GoodFrames
    <3>2. QED BY <1>3, <1>9, <2>3, <2>4, <2>6, <3>1 DEF Frames
  <2>9. Kept(t, lv, g, m, r, v)
    BY <1>9, <2>3, <2>6, KeptTwice
  <2>10. Entered(t, lv, g, r, p, v, mode, us)
    <3> SUFFICES ASSUME NEW q, NEW a \in Address, IsTop(t, lv, q), Apart(r, v, q)
                 PROVE  IF q = r /\ Own(a, v, mode) THEN Mapped(g, q, a, p, mode, us)
                        ELSE IF mode = P4Kib /\ Taken(t, r, v, q, a) THEN Walked(g, q, a) = Nowhere
                        ELSE Walked(g, q, a) = Walked(t, q, a)
      BY DEF Entered
    <3>1. Walked(g2, q, a) = Walked(t, q, a) /\ IsTop(g2, m2, q)
      BY <1>10
    <3>2. IF Taken(t, r, v, q, a) THEN Walked(g1, q, a) = Nowhere
          ELSE Walked(g1, q, a) = Walked(g2, q, a)
      <4>1. Taken(t, r, v, q, a) <=> Taken(g2, r, v, q, a)
        BY <3>1, Zenon DEF Taken
      <4>2. QED BY <2>3, <3>1, <4>1, Zenon DEF Opened
    <3>3. IsTop(g1, m1, q)
      BY <2>3, <3>1 DEF Kept
    <3>4. IF q = r /\ Own(a, v, mode) THEN Mapped(g, q, a, p, mode, us)
          ELSE Walked(g, q, a) = Walked(g1, q, a)
      BY <2>6, <3>3, Zenon DEF Written
    <3>5. QED BY <1>12, <3>1, <3>2, <3>4, Zenon
  <2>11. Put(t, f, lv, g, h, m, r, p, v, mode, us)
    BY <2>6, <2>8, <2>9, <2>10, Zenon DEF Put
  <2>12. QED BY <2>7, <2>11
<1>13. QED BY <1>11, <1>12, Modes
-----------------------------------------------------------------------------
(* A map of any number of pages *)

\* A request, and the address of its k-th page.
Request(req) == req \in Nat \X Nat \X Nat \X Mode /\ End(req) <= Power[LEVELS]
Far(req, k) == (k - 1) * check_page_size(req[4])
From(req) == IF req[4] = P2Mib THEN Cut(req[1]) ELSE req[1]
To(req) == IF req[4] = P2Mib THEN Cut(req[2]) ELSE req[2]

\* a is in one of the first k pages.
Among(a, req, k) == a - To(req) \in 0 .. k * check_page_size(req[4]) - 1

LEMMA Cuts ==
  ASSUME PageTableAssumption, NEW x \in Nat
  PROVE  x \div W \in Nat /\ x % W \in Nat /\ x % W < W /\ x = (x \div W) * W + (x % W)
<1> DEFINE d == W
<1>1. d \in Nat \ {0}
  BY Widths
<1> HIDE DEF d
<1>2. /\ x \div d \in Nat /\ x % d \in 0 .. d - 1 /\ x = (x \div d) * d + (x % d)
  BY <1>1, Remainder
<1>3. x % d \in Nat /\ x % d < d
  BY <1>1, <1>2
<1>4. QED BY <1>2, <1>3 DEF d

LEMMA Shifted ==
  ASSUME PageTableAssumption, NEW x \in Nat, NEW j \in Nat
  PROVE  x + j * W \in Nat /\ (x + j * W) \div W = (x \div W) + j
<1> DEFINE q == x \div W
           r == x % W
           y == x + j * W
           z == y \div W
           s == y % W
<1>1. W \in Nat \ {0}
  BY Widths
<1>2. q \in Nat /\ r \in Nat /\ r < W /\ x = q * W + r
  BY Cuts, Zenon
<1>3. y \in Nat
  BY <1>1
<1>4. z \in Nat /\ s \in Nat /\ s < W /\ y = z * W + s
  <2> HIDE DEF y
  <2>1. QED BY <1>3, Cuts, Zenon
<1> HIDE DEF q, r, z, s
<1>5. (q + j) * W + r = z * W + s
  BY <1>1, <1>2, <1>4
<1>6. q + j = z
  BY <1>1, <1>2, <1>4, <1>5, Unique
<1>7. QED BY <1>3, <1>6 DEF q, z

\* A span of huge pages, by addresses and by pages.
LEMMA Spans ==
  ASSUME PageTableAssumption, NEW a \in Nat, NEW b \in Nat, NEW k \in Nat
  PROVE  a - b * W \in 0 .. k * W - 1 <=> (a \div W) - b \in 0 .. k - 1
<1> DEFINE q == a \div W
           r == a % W
<1>1. W \in Nat \ {0}
  BY Widths
<1>2. q \in Nat /\ r \in Nat /\ r < W /\ a = q * W + r
  BY Cuts, Zenon
<1> HIDE DEF q, r
<1>3. b * W \in Nat /\ k * W \in Nat /\ q * W \in Nat
  BY <1>1, <1>2
<1>4. CASE q < b
  <2>1. (b - q - 1) * W >= 0
    BY <1>1, <1>2, <1>4
  <2>2. q * W + W <= b * W
    BY <1>1, <1>2, <2>1
  <2>3. ~ (a - b * W >= 0)
    BY <1>1, <1>2, <1>3, <2>2
  <2>4. a - b * W \notin 0 .. k * W - 1 /\ q - b \notin 0 .. k - 1
    BY <1>2, <1>4, <2>3
  <2>5. QED BY <2>4 DEF q
<1>5. CASE q >= b /\ q < b + k
  <2>1. (q - b) * W >= 0 /\ (b + k - q - 1) * W >= 0
    BY <1>1, <1>2, <1>5
  <2>2. b * W <= q * W /\ q * W + W <= b * W + k * W
    BY <1>1, <1>2, <2>1
  <2>3. a - b * W \in 0 .. k * W - 1 /\ q - b \in 0 .. k - 1
    BY <1>1, <1>2, <1>3, <1>5, <2>2
  <2>4. QED BY <2>3 DEF q
<1>6. CASE q >= b + k
  <2>1. (q - b - k) * W >= 0
    BY <1>1, <1>2, <1>6
  <2>2. b * W + k * W <= q * W
    BY <1>1, <1>2, <2>1
  <2>3. a - b * W \notin 0 .. k * W - 1 /\ q - b \notin 0 .. k - 1
    BY <1>1, <1>2, <1>3, <1>6, <2>2
  <2>4. QED BY <2>3 DEF q
<1>7. QED BY <1>2, <1>4, <1>5, <1>6

\* The k-th page follows those before it.
PageIs(req, k) ==
    LET v == req[2] + Far(req, k)
        p == req[1] + Far(req, k)
    IN /\ p \in Nat /\ v \in Address /\ (End(req) <= Half => v < Half)
       /\ req[4] = P4Kib => v = req[2] + k - 1
       /\ \A a \in Address :
             /\ Among(a, req, k) <=> Among(a, req, k - 1) \/ Own(a, v, req[4])
             /\ Own(a, v, req[4]) =>
                   (IF req[4] = P2Mib THEN Cut(p) + (a % W) ELSE p) = From(req) + (a - To(req))

LEMMA Pages ==
  ASSUME PageTableAssumption, NEW req, Request(req), NEW k \in 1 .. req[3]
  PROVE  PageIs(req, k)
<1> DEFINE size == check_page_size(req[4])
           j == k - 1
           v == req[2] + Far(req, k)
           p == req[1] + Far(req, k)
<1>1. /\ req[1] \in Nat /\ req[2] \in Nat /\ req[3] \in Nat /\ req[4] \in Mode
      /\ End(req) <= Power[LEVELS] /\ W \in Nat \ {0} /\ k \in Nat /\ j \in Nat
  BY Widths DEF Request
<1>2. size \in Nat \ {0}
  BY <1>1 DEF check_page_size
<1>3. Half \in Nat /\ Power[LEVELS] \in Nat
  <2>1. W * W \in Nat
    BY <1>1
  <2>2. W * (W * W) \in Nat
    BY <1>1, <2>1
  <2>3. W * (W * (W * W)) \in Nat
    BY <1>1, <2>2
  <2>4. Power[LEVELS] \in Nat
    BY <2>3, Powers DEF LEVELS
  <2>5. QED BY <2>4 DEF Half
<1>4. Far(req, k) = j * size /\ End(req) = req[2] + req[3] * size
  BY DEF Far, End
<1> HIDE DEF size
<1>5. j * size \in Nat /\ req[2] + j * size < req[2] + req[3] * size /\ req[3] * size \in Nat
  <2>1. (req[3] - j - 1) * size >= 0
    BY <1>1, <1>2
  <2>2. j * size \in Nat /\ req[3] * size \in Nat
    BY <1>1, <1>2
  <2>3. req[3] * size >= j * size + size
    BY <1>1, <1>2, <2>1
  <2>4. QED BY <1>1, <1>2, <2>2, <2>3
<1>6. p \in Nat /\ v \in Address /\ (End(req) <= Half => v < Half)
  <2>1. p \in Nat /\ v \in Nat /\ v < End(req) /\ End(req) \in Nat
    BY <1>1, <1>4, <1>5
  <2> HIDE DEF v, p
  <2>2. QED BY <1>1, <1>3, <2>1 DEF Address
<1>7. CASE req[4] = P4Kib
  <2>1. size = 1 /\ req[4] # P2Mib /\ From(req) = req[1] /\ To(req) = req[2]
    BY <1>7, Modes DEF check_page_size, size, From, To
  <2>2. v = req[2] + j /\ p = req[1] + j
    BY <1>1, <1>4, <2>1
  <2> HIDE DEF v, p
  <2>3. ASSUME NEW a \in Address
        PROVE  /\ Among(a, req, k) <=> Among(a, req, j) \/ Own(a, v, req[4])
               /\ Own(a, v, req[4]) => p = From(req) + (a - To(req))
    <3>1. a \in Nat
      BY <1>3 DEF Address
    <3>2. /\ Among(a, req, k) <=> a - req[2] \in 0 .. k - 1
          /\ Among(a, req, j) <=> a - req[2] \in 0 .. j - 1
      <4>1. k * 1 = k /\ j * 1 = j
        BY <1>1
      <4>2. QED BY <2>1, <4>1 DEF Among, size
    <3>3. Own(a, v, req[4]) <=> a = v
      BY <2>1 DEF Own
    <3>4. QED BY <1>1, <2>1, <2>2, <3>1, <3>2, <3>3
  <2>4. v = req[2] + k - 1
    BY <1>1, <2>2
  <2>5. QED BY <1>6, <2>1, <2>3, <2>4 DEF PageIs, v, p
<1>8. CASE req[4] = P2Mib
  <2> DEFINE b == req[2] \div W
             c == req[1] \div W
  <2>1. size = W /\ From(req) = c * W /\ To(req) = b * W
    BY <1>8 DEF check_page_size, size, From, To, Cut
  <2>2. v = req[2] + j * W /\ p = req[1] + j * W /\ b \in Nat /\ c \in Nat
    BY <1>1, <1>4, <2>1, Remainder
  <2>3. v \div W = b + j /\ Cut(p) = (c + j) * W
    <3>1. req[1] \in Nat /\ req[2] \in Nat /\ j \in Nat
      BY <1>1
    <3>2. (req[2] + j * W) \div W = b + j /\ (req[1] + j * W) \div W = c + j
      BY <3>1, Shifted
    <3> HIDE DEF v, p, b, c
    <3>3. v \div W = b + j /\ p \div W = c + j
      BY <2>2, <3>2, Zenon
    <3>4. QED BY <3>3, Zenon DEF Cut
  <2> HIDE DEF v, p, b, c
  <2>4. ASSUME NEW a \in Address
        PROVE  /\ Among(a, req, k) <=> Among(a, req, j) \/ Own(a, v, req[4])
               /\ Own(a, v, req[4]) => Cut(p) + (a % W) = From(req) + (a - To(req))
    <3> DEFINE q == a \div W
               s == a % W
    <3>1. a \in Nat
      BY <1>3 DEF Address
    <3>2. q \in Nat /\ s \in Nat /\ a = q * W + s
      BY <3>1, Cuts, Zenon
    <3>3. /\ Among(a, req, k) <=> q - b \in 0 .. k - 1
          /\ Among(a, req, j) <=> q - b \in 0 .. j - 1
      BY <1>1, <2>1, <2>2, <3>1, Spans DEF Among, size
    <3>4. Own(a, v, req[4]) <=> q = b + j
      BY <1>8, <2>3 DEF Own
    <3> HIDE DEF q, s
    <3>5. Among(a, req, k) <=> Among(a, req, j) \/ Own(a, v, req[4])
      BY <1>1, <2>2, <3>2, <3>3, <3>4
    <3>6. ASSUME q = b + j PROVE Cut(p) + s = From(req) + (a - To(req))
      <4>1. q * W = b * W + j * W /\ (c + j) * W = c * W + j * W
        BY <1>1, <2>2, <3>6
      <4>2. b * W \in Nat /\ c * W \in Nat /\ j * W \in Nat
        BY <1>1, <2>2
      <4>3. QED BY <2>1, <2>3, <3>2, <4>1, <4>2
    <3>7. QED BY <3>4, <3>5, <3>6 DEF s
  <2>5. P2Mib # P4Kib
    BY Modes
  <2>6. QED BY <1>6, <1>8, <2>4, <2>5 DEF PageIs, v, p
<1>9. QED BY <1>1, <1>7, <1>8, Modes
\* What k pages have made of the tables: the tops, whose upper halves a map
\* below Half leaves alone, and the walks.
Tops(t, lv, g, m, r, low) ==
    \A q : IsTop(t, lv, q) =>
        /\ IsTop(g, m, q)
        /\ \A i \in Index : q # r \/ (low /\ i >= W \div 2) => g[q][i] = t[q][i]

Placed(g, q, a, req, us) ==
    /\ Walked(g, q, a).at = From(req) + (a - To(req))
    /\ Walked(g, q, a).us => us
    /\ req[4] = P4Kib => ~ Walked(g, q, a).huge

\* a was in a huge page where the first k pages of the request are.
Torn(t, q, a, req, k) ==
    /\ req[4] = P4Kib /\ Walked(t, q, a).huge
    /\ \E w \in req[2] .. req[2] + k - 1 : a \div W = w \div W

Walks(t, lv, g, r, req, us, low, k) ==
    \A q : \A a \in Address : IsTop(t, lv, q) /\ (q = r \/ low) =>
        IF q = r /\ Among(a, req, k) THEN Placed(g, q, a, req, us)
        ELSE IF q = r /\ Torn(t, q, a, req, k) THEN Walked(g, q, a) = Nowhere
        ELSE Walked(g, q, a) = Walked(t, q, a)

Progress(t, f, lv, g, h, m, r, req, us, low, k) ==
    /\ Good(g, h, m) /\ Frames(f, h, 3 * k)
    /\ Tops(t, lv, g, m, r, low) /\ Walks(t, lv, g, r, req, us, low, k)

LEMMA Proceeds ==
  ASSUME PageTableAssumption, NEW t, NEW f, NEW lv, Good(t, f, lv), NEW r, IsTop(t, lv, r),
         NEW req, Request(req), Cardinality(f) >= 3 * req[3], NEW us \in BOOLEAN,
         NEW low \in BOOLEAN, low => End(req) <= Half,
         NEW k \in 1 .. req[3], NEW g, NEW h, NEW m, NEW at,
         Progress(t, f, lv, g, h, m, r, req, us, low, k - 1)
  PROVE  \E g2, h2, m2, at2 :
             /\ MapPage(Walk(g, h, at), r, req[1] + Far(req, k), req[2] + Far(req, k), req[4], us)
                    = Walk(g2, h2, at2)
             /\ Progress(t, f, lv, g2, h2, m2, r, req, us, low, k)
<1> DEFINE v == req[2] + Far(req, k)
           p == req[1] + Far(req, k)
           mode == req[4]
<1>1. /\ Good(g, h, m) /\ Frames(f, h, 3 * (k - 1))
      /\ Tops(t, lv, g, m, r, low) /\ Walks(t, lv, g, r, req, us, low, k - 1)
  BY DEF Progress
<1>2. /\ req[1] \in Nat /\ req[2] \in Nat /\ req[3] \in Nat /\ mode \in Mode /\ k \in Nat
  BY DEF Request
<1>3. /\ p \in Nat /\ v \in Address /\ (End(req) <= Half => v < Half)
      /\ mode = P4Kib => v = req[2] + k - 1
      /\ \A a \in Address :
             /\ Among(a, req, k) <=> Among(a, req, k - 1) \/ Own(a, v, mode)
             /\ Own(a, v, mode) =>
                   (IF mode = P2Mib THEN Cut(p) + (a % W) ELSE p) = From(req) + (a - To(req))
  BY Pages DEF PageIs
<1>4. IsTop(g, m, r)
  BY <1>1 DEF Tops
<1>5. Cardinality(f) \in Nat /\ Cardinality(h) \in Nat /\ Cardinality(h) >= 3
  <2>1. Cardinality(f) \in Nat /\ Cardinality(h) \in Nat
    BY <1>1, GoodFrames
  <2>2. QED BY <1>1, <1>2, <2>1 DEF Frames
<1>6. low => Digit(v, 4) < W \div 2
  <2>1. low => ~ (v >= Half)
    <3>1. v \in Nat /\ Half \in Int
      <4>1. Power[LEVELS] \in Int
        <5>1. W \in Nat
          BY Widths
        <5>2. W * W \in Nat
          BY <5>1
        <5>3. W * (W * W) \in Nat
          BY <5>1, <5>2
        <5>4. W * (W * (W * W)) \in Nat
          BY <5>1, <5>3
        <5>5. QED BY <5>4, Powers DEF LEVELS
      <4>2. QED BY <1>3, <4>1, Determined DEF Half
    <3> HIDE DEF v
    <3>2. QED BY <1>3, <3>1
  <2>2. Digit(v, 4) \in Nat /\ W \div 2 \in Nat
    <3>1. v \in Nat /\ 4 \in 1 .. LEVELS
      BY <1>3, Determined DEF LEVELS
    <3>2. Digit(v, 4) \in Index
      BY <3>1, Digits
    <3>3. QED BY <3>2, Widths
  <2>3. v >= Half <=> Digit(v, 4) >= W \div 2
    BY <1>3, Halves
  <2> HIDE DEF v
  <2>4. QED BY <2>1, <2>2, <2>3
<1> HIDE DEF v, p, mode
<1>7. PICK g2, h2, m2, at2 : /\ MapPage(Walk(g, h, at), r, p, v, mode, us) = Walk(g2, h2, at2)
                             /\ Put(g, h, m, g2, h2, m2, r, p, v, mode, us)
  <2>1. \E g2, h2, m2, at2 : /\ MapPage(Walk(g, h, at), r, p, v, mode, us) = Walk(g2, h2, at2)
                             /\ Put(g, h, m, g2, h2, m2, r, p, v, mode, us)
    <3>1. Good(g, h, m) /\ IsTop(g, m, r) /\ Cardinality(h) >= 3 /\ v \in Address /\ mode \in Mode /\ p \in Nat
      BY <1>1, <1>2, <1>3, <1>4, <1>5
    <3>2. QED BY <3>1, OnePage, SMTT(40)
  <2>2. QED BY <2>1, Zenon
<1>8. /\ Good(g2, h2, m2) /\ Frames(h, h2, 3)
      /\ Kept(g, m, g2, m2, r, v) /\ Entered(g, m, g2, r, p, v, mode, us)
  BY <1>7 DEF Put
<1>9. Frames(f, h2, 3 * k)
  <2>1. Cardinality(h2) \in Nat
    BY <1>8, GoodFrames
  <2>2. QED BY <1>1, <1>2, <1>5, <1>8, <2>1 DEF Frames
<1>10. Tops(t, lv, g2, m2, r, low)
  <2> SUFFICES ASSUME NEW q, IsTop(t, lv, q)
               PROVE  /\ IsTop(g2, m2, q)
                      /\ \A i \in Index : q # r \/ (low /\ i >= W \div 2) => g2[q][i] = t[q][i]
    BY DEF Tops
  <2>1. /\ IsTop(g, m, q)
        /\ \A i \in Index : q # r \/ (low /\ i >= W \div 2) => g[q][i] = t[q][i]
    BY <1>1, Zenon DEF Tops
  <2>2. /\ IsTop(g2, m2, q)
        /\ \A i \in Index : q # r \/ i # Digit(v, 4) => g2[q][i] = g[q][i]
    BY <1>8, <2>1, Zenon DEF Kept
  <2>3. \A i \in Index : low /\ i >= W \div 2 => i # Digit(v, 4)
    <3>1. W \div 2 \in Nat
      BY Widths
    <3>2. QED BY <1>6, <3>1 DEF Index
  <2>4. QED BY <2>1, <2>2, <2>3
<1>11. Walks(t, lv, g2, r, req, us, low, k)
  <2> SUFFICES ASSUME NEW q, NEW a \in Address, IsTop(t, lv, q), q = r \/ low
               PROVE  IF q = r /\ Among(a, req, k) THEN Placed(g2, q, a, req, us)
                      ELSE IF q = r /\ Torn(t, q, a, req, k) THEN Walked(g2, q, a) = Nowhere
                      ELSE Walked(g2, q, a) = Walked(t, q, a)
    BY DEF Walks
  <2>1. IF q = r /\ Among(a, req, k - 1) THEN Placed(g, q, a, req, us)
        ELSE IF q = r /\ Torn(t, q, a, req, k - 1) THEN Walked(g, q, a) = Nowhere
        ELSE Walked(g, q, a) = Walked(t, q, a)
    BY <1>1, Zenon DEF Walks
  <2>2. IF q = r /\ Own(a, v, mode) THEN Mapped(g2, q, a, p, mode, us)
        ELSE IF mode = P4Kib /\ Taken(g, r, v, q, a) THEN Walked(g2, q, a) = Nowhere
        ELSE Walked(g2, q, a) = Walked(g, q, a)
    <3>1. IsTop(g, m, q)
      BY <1>1, Zenon DEF Tops
    <3>2. Apart(r, v, q)
      BY <1>6 DEF Apart
    <3>3. QED BY <1>8, <3>1, <3>2, Zenon DEF Entered
  <2>3. Among(a, req, k) <=> Among(a, req, k - 1) \/ Own(a, v, mode)
    BY <1>3
  <2>4. CASE q = r /\ Own(a, v, mode)
    <3>1. (IF mode = P2Mib THEN Cut(p) + (a % W) ELSE p) = From(req) + (a - To(req))
      BY <1>3, <2>4
    <3>2. Mapped(g2, q, a, p, mode, us)
      BY <2>2, <2>4
    <3>3. Placed(g2, q, a, req, us)
      BY <3>1, <3>2, Zenon DEF Placed, Mapped, mode
    <3>4. QED BY <2>3, <2>4, <3>3
  <2>5. CASE ~ (q = r /\ Own(a, v, mode))
    <3>1. q = r => (Torn(t, q, a, req, k) <=>
                        Torn(t, q, a, req, k - 1) \/ (mode = P4Kib /\ Taken(t, r, v, q, a)))
      <4>1. ASSUME mode = P4Kib
            PROVE  \A w : w \in req[2] .. req[2] + k - 1 <=> w \in req[2] .. req[2] + (k - 1) - 1 \/ w = v
        BY <1>2, <1>3, <4>1
      <4>2. /\ Torn(t, q, a, req, k) <=> /\ mode = P4Kib /\ Walked(t, q, a).huge
                                         /\ \E w \in req[2] .. req[2] + k - 1 : a \div W = w \div W
            /\ Torn(t, q, a, req, k - 1) <=> /\ mode = P4Kib /\ Walked(t, q, a).huge
                                             /\ \E w \in req[2] .. req[2] + (k - 1) - 1 : a \div W = w \div W
            /\ q = r => (Taken(t, r, v, q, a) <=> a \div W = v \div W /\ Walked(t, q, a).huge)
        BY Zenon DEF Torn, Taken, mode
      <4>3. ASSUME mode = P4Kib
            PROVE  (\E w \in req[2] .. req[2] + k - 1 : a \div W = w \div W) <=>
                       (\E w \in req[2] .. req[2] + (k - 1) - 1 : a \div W = w \div W) \/ a \div W = v \div W
        BY <4>1, <4>3, Zenon
      <4>4. QED BY <4>2, <4>3, Zenon
    <3>2. ~ Nowhere.huge
      BY DEF Nowhere
    <3>3. CASE mode = P4Kib /\ Taken(g, r, v, q, a)
      <4>1. q = r /\ Walked(g, q, a).huge /\ Walked(g2, q, a) = Nowhere
        BY <2>2, <2>5, <3>3, Zenon DEF Taken
      <4>2. ~ Among(a, req, k - 1)
        BY <2>1, <3>3, <4>1, Zenon DEF Placed, mode
      <4>3. Walked(g, q, a) = Walked(t, q, a)
        BY <2>1, <3>2, <4>1, <4>2, Zenon
      <4>4. Taken(t, r, v, q, a)
        BY <3>3, <4>3, Zenon DEF Taken
      <4>5. QED BY <2>3, <2>5, <3>1, <3>3, <4>1, <4>2, <4>4, Zenon
    <3>4. CASE ~ (mode = P4Kib /\ Taken(g, r, v, q, a))
      <4>1. Walked(g2, q, a) = Walked(g, q, a)
        BY <2>2, <2>5, <3>4, Zenon
      <4>2. Placed(g, q, a, req, us) => Placed(g2, q, a, req, us)
        BY <4>1, Zenon DEF Placed
      <4>3. Walked(g, q, a) = Walked(t, q, a) => (Taken(t, r, v, q, a) <=> Taken(g, r, v, q, a))
        BY Zenon DEF Taken
      <4>4. CASE q # r
        BY <2>1, <4>1, <4>4, Zenon
      <4>5. CASE q = r /\ Among(a, req, k - 1)
        BY <2>1, <2>3, <4>2, <4>5, Zenon
      <4>6. CASE q = r /\ ~ Among(a, req, k - 1)
        <5>1. ~ Among(a, req, k)
          BY <2>3, <2>5, <4>6, Zenon
        <5>2. CASE Torn(t, q, a, req, k - 1)
          <6>1. Walked(g2, q, a) = Nowhere
            BY <2>1, <4>1, <4>6, <5>2, Zenon
          <6>2. Torn(t, q, a, req, k)
            BY <3>1, <4>6, <5>2, Zenon
          <6>3. QED BY <4>6, <5>1, <6>1, <6>2, Zenon
        <5>3. CASE ~ Torn(t, q, a, req, k - 1)
          <6>1. Walked(g, q, a) = Walked(t, q, a)
            BY <2>1, <4>6, <5>3, Zenon
          <6>2. ~ Torn(t, q, a, req, k)
            BY <3>1, <3>4, <4>3, <4>6, <5>3, <6>1, Zenon
          <6>3. QED BY <4>1, <4>6, <5>1, <6>1, <6>2, Zenon
        <5>4. QED BY <5>2, <5>3
      <4>7. QED BY <4>4, <4>5, <4>6
    <3>5. QED BY <3>3, <3>4
  <2>6. QED BY <2>4, <2>5
<1>12. Progress(t, f, lv, g2, h2, m2, r, req, us, low, k)
  BY <1>8, <1>9, <1>10, <1>11, Zenon DEF Progress
<1>13. QED BY <1>7, <1>12 DEF p, v, mode

\* The function that Map chooses exists.
Fills(f, n, r, req, us) ==
    f = [k \in 0 .. n |->
            IF k = 0 THEN Walk(table, free, r)
            ELSE MapPage(f[k - 1], r, req[1] + Far(req, k), req[2] + Far(req, k), req[4], us)]

LEMMA Filled ==
  ASSUME NEW r, NEW req, NEW us, NEW n \in Nat
  PROVE  \E f : Fills(f, n, r, req, us)
<1> DEFINE Put1(x, k) == MapPage(x, r, req[1] + Far(req, k), req[2] + Far(req, k), req[4], us)
           start == Walk(table, free, r)
           Bad == {k \in Nat : ~ \E f : Fills(f, k, r, req, us)}
<1>1. \A f, k : Fills(f, k, r, req, us) <=>
          f = [i \in 0 .. k |-> IF i = 0 THEN start ELSE Put1(f[i - 1], i)]
  BY Zenon DEF Fills
<1> SUFFICES ASSUME Bad # {} PROVE FALSE
  OBVIOUS
<1>2. PICK k \in Bad : \A j \in Bad : k <= j
  BY LeastNat
<1>3. k \in Nat /\ ~ \E f : Fills(f, k, r, req, us)
  BY <1>2
<1> HIDE DEF Put1, start
<1>4. CASE k = 0
  <2> DEFINE f == [i \in 0 .. 0 |-> start]
  <2>1. f = [i \in 0 .. 0 |-> IF i = 0 THEN start ELSE Put1(f[i - 1], i)]
    OBVIOUS
  <2> HIDE DEF f
  <2>2. QED BY <1>1, <1>3, <1>4, <2>1
<1>5. CASE k > 0
  <2>1. k - 1 \in Nat /\ k - 1 \notin Bad
    BY <1>2, <1>3, <1>5
  <2>2. PICK e : Fills(e, k - 1, r, req, us)
    BY <2>1
  <2>3. e = [i \in 0 .. k - 1 |-> IF i = 0 THEN start ELSE Put1(e[i - 1], i)]
    BY <1>1, <2>2
  <2> DEFINE f == [i \in 0 .. k |-> IF i = k THEN Put1(e[k - 1], k) ELSE e[i]]
  <2>4. \A i \in 0 .. k : f[i] = IF i = 0 THEN start ELSE Put1(f[i - 1], i)
    <3>1. TAKE i \in 0 .. k
    <3>2. \A j \in 0 .. k - 1 : f[j] = e[j]
      BY <1>3
    <3>3. f[k] = Put1(e[k - 1], k)
      BY <1>3
    <3>4. \A j \in 0 .. k - 1 : e[j] = IF j = 0 THEN start ELSE Put1(e[j - 1], j)
      BY <2>3
    <3> HIDE DEF f
    <3>5. CASE i = k
      <4>1. k - 1 \in 0 .. k - 1 /\ k # 0
        BY <1>3, <1>5
      <4>2. QED BY <3>2, <3>3, <3>5, <4>1
    <3>6. CASE i # k /\ i # 0
      <4>1. i \in 0 .. k - 1 /\ i - 1 \in 0 .. k - 1
        BY <1>3, <3>6
      <4>2. QED BY <3>2, <3>4, <3>6, <4>1
    <3>7. CASE i = 0
      <4>1. i \in 0 .. k - 1
        BY <1>3, <1>5, <3>7
      <4>2. QED BY <3>2, <3>4, <3>7, <4>1
    <3>8. QED BY <3>5, <3>6, <3>7
  <2>5. f = [i \in 0 .. k |-> f[i]]
    OBVIOUS
  <2> HIDE DEF f
  <2>6. f = [i \in 0 .. k |-> IF i = 0 THEN start ELSE Put1(f[i - 1], i)]
    BY <2>4, <2>5
  <2>7. QED BY <1>1, <1>3, <2>6
<1>6. QED BY <1>3, <1>4, <1>5

\* All of a map.
LEMMA Maps ==
  ASSUME PageTableAssumption, NEW lv, Good(table, free, lv), NEW r, IsTop(table, lv, r),
         NEW req, Request(req), Room(req[3]), NEW us \in BOOLEAN,
         NEW low \in BOOLEAN, low => End(req) <= Half
  PROVE  \E g, h, m, at : /\ Map(r, req, us) = Walk(g, h, at)
                          /\ Progress(table, free, lv, g, h, m, r, req, us, low, req[3])
<1> DEFINE n == req[3]
           Fill(f) == [k \in 0 .. n |->
                          IF k = 0 THEN Walk(table, free, r)
                          ELSE MapPage(f[k - 1], r, req[1] + Far(req, k), req[2] + Far(req, k), req[4], us)]
           pages == CHOOSE f : f = Fill(f)
           Good1(k) == \E g, h, m, at : /\ pages[k] = Walk(g, h, at)
                                        /\ Progress(table, free, lv, g, h, m, r, req, us, low, k)
           Bad == {k \in 0 .. n : ~ Good1(k)}
<1>1. n \in Nat /\ 0 \in 0 .. n /\ n \in 0 .. n
  BY DEF Request
<1>2. Map(r, req, us) = pages[n]
  BY Zenon DEF Map, Far
<1>3. pages = Fill(pages)
  <2>1. \A f : Fills(f, n, r, req, us) <=> f = Fill(f)
    BY Zenon DEF Fills
  <2>2. \E f : Fills(f, n, r, req, us)
    BY <1>1, Filled
  <2> HIDE DEF Fill
  <2>3. QED BY <2>1, <2>2
<1>4. /\ pages[0] = Walk(table, free, r)
      /\ \A k \in 1 .. n : pages[k] = MapPage(pages[k - 1], r, req[1] + Far(req, k), req[2] + Far(req, k), req[4], us)
  <2>1. \A k \in 0 .. n : pages[k] = Fill(pages)[k]
    BY <1>3
  <2> HIDE DEF pages
  <2>2. \A k \in 0 .. n : pages[k] = IF k = 0 THEN Walk(table, free, r)
                          ELSE MapPage(pages[k - 1], r, req[1] + Far(req, k), req[2] + Far(req, k), req[4], us)
    BY <2>1
  <2>3. \A k \in 1 .. n : k \in 0 .. n /\ k # 0
    BY <1>1
  <2>4. QED BY <1>1, <2>2, <2>3
<1> HIDE DEF pages
<1>5. Good1(0)
  <2>1. Frames(free, free, 3 * 0)
    <3>1. Cardinality(free) \in Nat
      BY GoodFrames
    <3>2. QED BY <3>1 DEF Frames
  <2>2. Tops(table, lv, table, lv, r, low)
    BY DEF Tops
  <2>3. \A a \in Address : ~ Among(a, req, 0)
    <3>1. \A x \in Int : 0 * x = 0
      OBVIOUS
    <3>2. check_page_size(req[4]) \in Int
      BY Widths DEF check_page_size
    <3>3. \A a : a \notin 0 .. 0 - 1
      OBVIOUS
    <3>4. QED BY <3>1, <3>2, <3>3 DEF Among
  <2>4. Walks(table, lv, table, r, req, us, low, 0)
    <3>1. \A q, a : ~ Torn(table, q, a, req, 0)
      <4>1. \A w : w \notin req[2] .. req[2] + 0 - 1
        BY DEF Request
      <4>2. QED BY <4>1, Zenon DEF Torn
    <3>2. QED BY <2>3, <3>1, Zenon DEF Walks
  <2>5. Progress(table, free, lv, table, free, lv, r, req, us, low, 0)
    BY <2>1, <2>2, <2>4, Zenon DEF Progress
  <2>6. QED BY <1>4, <2>5
<1>6. ASSUME NEW k \in 1 .. n, Good1(k - 1) PROVE Good1(k)
  <2>1. PICK g, h, m, at : /\ pages[k - 1] = Walk(g, h, at)
                           /\ Progress(table, free, lv, g, h, m, r, req, us, low, k - 1)
    BY <1>6
  <2>2. Cardinality(free) >= 3 * n
    BY DEF Room, LEVELS
  <2>3. PICK g2, h2, m2, at2 :
             /\ MapPage(Walk(g, h, at), r, req[1] + Far(req, k), req[2] + Far(req, k), req[4], us)
                    = Walk(g2, h2, at2)
             /\ Progress(table, free, lv, g2, h2, m2, r, req, us, low, k)
    BY <2>1, <2>2, Proceeds
  <2>4. pages[k] = Walk(g2, h2, at2)
    BY <1>4, <2>1, <2>3
  <2>5. QED BY <2>3, <2>4
<1>7. Good1(n)
  <2> HIDE DEF Good1
  <2> SUFFICES ASSUME Bad # {} PROVE FALSE
    BY <1>1
  <2>1. Bad \subseteq Nat
    BY <1>1
  <2>2. PICK k \in Bad : \A j \in Bad : k <= j
    BY <2>1, LeastNat
  <2>3. k \in 0 .. n /\ ~ Good1(k)
    BY <2>2
  <2>4. k # 0 /\ k \in 1 .. n /\ k - 1 \in 0 .. n
    BY <1>1, <1>5, <2>3
  <2>5. k - 1 \notin Bad
    BY <2>2, <2>3
  <2>6. QED BY <1>6, <2>3, <2>4, <2>5
<1>8. QED BY <1>2, <1>7
-----------------------------------------------------------------------------
(* The invariant *)

\* Spaces have top tables of their own.
Rooted(t, lv, rt) ==
    /\ rt = [s \in Space |-> rt[s]] /\ rt[Kernel] # None
    /\ \A s \in Space : rt[s] # None => IsTop(t, lv, rt[s])
    /\ \A s, u \in Space : rt[s] # None /\ rt[s] = rt[u] => s = u

\* Their upper halves are the kernel's.
Alike(t, rt) ==
    \A s \in Space, i \in Index :
        rt[s] # None /\ i >= W \div 2 => t[rt[s]][i] = t[rt[Kernel]][i]

\* The direct map.
Linear(t, q) ==
    \A v \in Watch : v >= Half =>
        Walked(t, q, v).at \in {None, v - Half} /\ ~ Walked(t, q, v).us

IInv ==
    /\ \E lv : Good(table, free, lv) /\ Rooted(table, lv, root)
    /\ Alike(table, root) /\ Linear(table, root[Kernel])
    /\ active \in Space /\ root[active] # None
    /\ booting => \A s \in Space : root[s] # None => s = Kernel

LEMMA InitInv ==
  ASSUME PageTableAssumption, Init
  PROVE  IInv
<1>1. /\ table = BootTable /\ free = Pool /\ active = Kernel /\ booting = TRUE
      /\ root = [s \in Space |-> IF s = Kernel THEN KernelRoot ELSE None]
  BY DEF Init
<1>2. PICK lv \in [DOMAIN BootTable -> 1 .. LEVELS] :
          Shaped(BootTable, lv) /\ KernelRoot \in DOMAIN BootTable /\ lv[KernelRoot] = LEVELS
  BY DEF PageTableAssumption
<1>3. Kernel \in Space /\ Kernel \notin Task
  BY DEF Space, PageTableAssumption
<1>4. Good(table, free, lv)
  <2>1. Pool \cap DOMAIN BootTable = {}
    BY DEF PageTableAssumption
  <2>2. QED BY <1>1, <1>2, <2>1 DEF Good
<1>5. KernelRoot # None
  <2>1. KernelRoot \in Nat /\ None \notin Nat
    BY <1>2 DEF PageTableAssumption
  <2>2. QED BY <2>1
<1>6. root[Kernel] = KernelRoot /\ \A s \in Space : root[s] # None => s = Kernel
  BY <1>1, <1>3
<1>7. Rooted(table, lv, root)
  <2>1. IsTop(table, lv, KernelRoot)
    BY <1>1, <1>2 DEF IsTop
  <2>2. root = [s \in Space |-> root[s]]
    BY <1>1
  <2>3. QED BY <1>5, <1>6, <2>1, <2>2 DEF Rooted
<1>8. Alike(table, root)
  BY <1>6 DEF Alike
<1>9. Linear(table, root[Kernel])
  <2> SUFFICES ASSUME NEW v \in Watch, v >= Half
               PROVE  Walked(table, root[Kernel], v).at \in {None, v - Half} /\ ~ Walked(table, root[Kernel], v).us
    BY DEF Linear
  <2> DEFINE p == Translate(BootTable, KernelRoot, v)
  <2>1. p.at \in {None, v - Half} /\ ~ p.us
    BY DEF PageTableAssumption
  <2>2. p.at = Walked(BootTable, KernelRoot, v).at /\ p.us = Walked(BootTable, KernelRoot, v).us
    BY DEF Translate
  <2>3. QED BY <1>1, <1>6, <2>1, <2>2
<1>10. QED BY <1>1, <1>3, <1>4, <1>5, <1>6, <1>7, <1>8, <1>9 DEF IInv

\* A new top table, with an empty lower half and the upper half of another.
TopAdds(t, lv, k, n, g, m) ==
    /\ g = [x \in DOMAIN t \cup {n} |->
               IF x = n THEN [i \in Index |-> IF i < W \div 2 THEN Empty ELSE t[k][i]] ELSE t[x]]
    /\ m = [x \in DOMAIN t \cup {n} |-> IF x = n THEN LEVELS ELSE lv[x]]

LEMMA TopAdded ==
  ASSUME PageTableAssumption, NEW t, NEW lv, Shaped(t, lv), NEW k, IsTop(t, lv, k),
         NEW n \in Nat, n \notin DOMAIN t, NEW g, NEW m, TopAdds(t, lv, k, n, g, m)
  PROVE  /\ Shaped(g, m) /\ IsTop(g, m, n) /\ \A i \in Index : i >= W \div 2 => g[n][i] = t[k][i]
         /\ \A x \in DOMAIN t : x \in DOMAIN g /\ g[x] = t[x]
         /\ \A q : IsTop(t, lv, q) => IsTop(g, m, q)
<1> DEFINE e == [i \in Index |-> IF i < W \div 2 THEN Empty ELSE t[k][i]]
<1>1. /\ DOMAIN g = DOMAIN t \cup {n} /\ DOMAIN m = DOMAIN t \cup {n}
      /\ g[n] = e /\ m[n] = LEVELS
      /\ \A y \in DOMAIN t : y # n /\ m[y] = lv[y] /\ g[y] = t[y]
      /\ g = [y \in DOMAIN g |-> g[y]] /\ m = [y \in DOMAIN g |-> m[y]]
  BY DEF TopAdds
<1>2. k \in DOMAIN t /\ lv[k] = LEVELS /\ W \div 2 \in Nat /\ Index \subseteq Nat
  BY Widths DEF IsTop
<1>3. Empty \in Entry /\ ~ Empty.p
  BY DEF Empty, Entry
<1>4. \A i \in Index : /\ i < W \div 2 => e[i] = Empty
                       /\ i >= W \div 2 => e[i] = t[k][i]
                       /\ i < W \div 2 \/ i >= W \div 2
  <2> DEFINE half == W \div 2
  <2>1. half \in Nat
    BY <1>2
  <2> HIDE DEF half
  <2>2. \A i \in Index : (i < half \/ i >= half) /\ (i >= half => ~ (i < half))
    BY <1>2, <2>1
  <2>3. \A i \in Index : e[i] = IF i < half THEN Empty ELSE t[k][i]
    BY DEF half
  <2> HIDE DEF e
  <2>4. QED BY <2>2, <2>3, Zenon DEF half
<1>5. e \in [Index -> Entry]
  <2>1. \A i \in Index : t[k][i] \in Entry
    BY <1>2, ShapedFacts
  <2>2. QED BY <1>3, <2>1
<1> HIDE DEF e
<1>6. g \in [DOMAIN g -> [Index -> Entry]]
  <2>1. \A y \in DOMAIN t : t[y] \in [Index -> Entry]
    BY DEF Shaped
  <2>2. \A y \in DOMAIN g : g[y] \in [Index -> Entry]
    BY <1>1, <1>5, <2>1
  <2>3. QED BY <1>1, <2>2
<1>7. m \in [DOMAIN g -> 1 .. LEVELS]
  <2>1. \A y \in DOMAIN g : m[y] \in 1 .. LEVELS
    BY <1>1, ShapedFacts DEF LEVELS
  <2>2. QED BY <1>1, <2>1
\* An entry of the new table stands for one of k.
<1> DEFINE O(y) == IF y = n THEN k ELSE y
<1>8. \A y \in DOMAIN g : O(y) \in DOMAIN t /\ lv[O(y)] = m[y]
  BY <1>1, <1>2
<1>9. \A y \in DOMAIN g, j \in Index : g[y][j].p =>
          g[y][j] = t[O(y)][j] /\ (y = n => j >= W \div 2)
  <2>1. TAKE y \in DOMAIN g, j \in Index
  <2>2. HAVE g[y][j].p
  <2>3. CASE y = n
    <3>1. j >= W \div 2
      BY <1>1, <1>3, <1>4, <2>2, <2>3
    <3>2. QED BY <1>1, <1>4, <2>3, <3>1
  <2>4. CASE y # n
    BY <1>1, <2>4
  <2>5. QED BY <2>3, <2>4
<1> HIDE DEF O
<1>10. \A y \in DOMAIN g, j \in Index : Points(g, m, y, j) =>
           /\ Points(t, lv, O(y), j) /\ g[y][j] = t[O(y)][j] /\ (y = n => j >= W \div 2)
  <2>1. TAKE y \in DOMAIN g, j \in Index
  <2>2. HAVE Points(g, m, y, j)
  <2>3. g[y][j].p /\ m[y] > 1 /\ ~ flags_ps_pat(g[y][j], m[y])
    BY <2>2 DEF Points
  <2>4. g[y][j] = t[O(y)][j] /\ (y = n => j >= W \div 2) /\ lv[O(y)] = m[y]
    BY <1>8, <1>9, <2>3
  <2>5. QED BY <2>3, <2>4 DEF Points
<1>11. \A y \in DOMAIN g, j \in Index :
           /\ Points(g, m, y, j) => g[y][j].base \in DOMAIN g /\ m[g[y][j].base] = m[y] - 1
           /\ m[y] > 2 /\ g[y][j].p => ~ g[y][j].ps
  <2>1. TAKE y \in DOMAIN g, j \in Index
  <2>2. O(y) \in DOMAIN t /\ lv[O(y)] = m[y]
    BY <1>8
  <2>3. ASSUME Points(g, m, y, j) PROVE g[y][j].base \in DOMAIN g /\ m[g[y][j].base] = m[y] - 1
    <3>1. Points(t, lv, O(y), j) /\ g[y][j] = t[O(y)][j]
      BY <1>10, <2>3, Zenon
    <3>2. t[O(y)][j].base \in DOMAIN t /\ lv[t[O(y)][j].base] = lv[O(y)] - 1
      BY <2>2, <3>1, ShapedFacts
    <3>3. QED BY <1>1, <2>2, <3>1, <3>2
  <2>4. ASSUME m[y] > 2, g[y][j].p PROVE ~ g[y][j].ps
    <3>1. g[y][j] = t[O(y)][j]
      BY <1>9, <2>4, Zenon
    <3>2. QED BY <2>2, <2>4, <3>1, ShapedFacts
  <2>5. QED BY <2>3, <2>4
<1>12. \A y, z \in DOMAIN g, j, i \in Index :
          Points(g, m, y, j) /\ Points(g, m, z, i) /\ g[y][j].base = g[z][i].base =>
              j = i /\ (y = z \/ (m[y] = LEVELS /\ m[z] = LEVELS /\ j >= W \div 2))
  <2>1. TAKE y, z \in DOMAIN g, j, i \in Index
  <2>2. HAVE Points(g, m, y, j) /\ Points(g, m, z, i) /\ g[y][j].base = g[z][i].base
  <2>3. /\ O(y) \in DOMAIN t /\ lv[O(y)] = m[y] /\ O(z) \in DOMAIN t /\ lv[O(z)] = m[z]
        /\ Points(t, lv, O(y), j) /\ Points(t, lv, O(z), i)
        /\ g[y][j] = t[O(y)][j] /\ g[z][i] = t[O(z)][i]
        /\ (y = n => j >= W \div 2) /\ (z = n => i >= W \div 2)
    BY <1>8, <1>10, <2>2, Zenon
  <2>4. t[O(y)][j].base = t[O(z)][i].base
    BY <2>2, <2>3
  <2>5. j = i /\ (O(y) = O(z) \/ (lv[O(y)] = LEVELS /\ lv[O(z)] = LEVELS /\ j >= W \div 2))
    BY <2>3, <2>4, ShapedFacts
  <2>6. CASE O(y) = O(z) /\ y # z
    <3>1. y = n \/ z = n
      BY <2>6 DEF O
    <3>2. m[y] = LEVELS /\ m[z] = LEVELS
      BY <1>1, <2>3, <2>6, <3>1
    <3>3. QED BY <2>3, <2>5, <3>1, <3>2
  <2>7. QED BY <2>3, <2>5, <2>6
<1>13. Shaped(g, m)
  BY <1>6, <1>7, <1>11, <1>12, Zenon DEF Shaped
<1>14. \A q : IsTop(t, lv, q) => IsTop(g, m, q)
  BY <1>1 DEF IsTop
<1>15. IsTop(g, m, n)
  BY <1>1 DEF IsTop
<1>16. QED BY <1>1, <1>4, <1>13, <1>14, <1>15

\* A top table goes: no entry names it.
TopDrops(t, lv, k, g, m) ==
    g = [x \in DOMAIN t \ {k} |-> t[x]] /\ m = [x \in DOMAIN t \ {k} |-> lv[x]]

LEMMA TopDropped ==
  ASSUME PageTableAssumption, NEW t, NEW lv, Shaped(t, lv), NEW k, IsTop(t, lv, k),
         NEW g, NEW m, TopDrops(t, lv, k, g, m)
  PROVE  /\ Shaped(g, m)
         /\ \A x \in DOMAIN t \ {k} : x \in DOMAIN g /\ g[x] = t[x]
         /\ \A q : IsTop(t, lv, q) /\ q # k => IsTop(g, m, q)
<1>1. /\ DOMAIN g = DOMAIN t \ {k}
      /\ \A y \in DOMAIN g : y \in DOMAIN t /\ m[y] = lv[y] /\ g[y] = t[y]
      /\ g = [y \in DOMAIN g |-> g[y]] /\ m = [y \in DOMAIN g |-> m[y]]
  BY DEF TopDrops
<1>2. k \in DOMAIN t /\ lv[k] = LEVELS
  BY DEF IsTop
<1>3. g \in [DOMAIN g -> [Index -> Entry]] /\ m \in [DOMAIN g -> 1 .. LEVELS]
  <2>1. t \in [DOMAIN t -> [Index -> Entry]] /\ lv \in [DOMAIN t -> 1 .. LEVELS]
    BY DEF Shaped
  <2>2. \A y \in DOMAIN g : g[y] \in [Index -> Entry] /\ m[y] \in 1 .. LEVELS
    BY <1>1, <2>1
  <2>3. QED BY <1>1, <2>2
<1>4. \A y \in DOMAIN g, j \in Index : Points(g, m, y, j) => Points(t, lv, y, j)
  BY <1>1 DEF Points
<1>5. \A y \in DOMAIN g, j \in Index :
           /\ Points(g, m, y, j) => g[y][j].base \in DOMAIN g /\ m[g[y][j].base] = m[y] - 1
           /\ m[y] > 2 /\ g[y][j].p => ~ g[y][j].ps
  <2>1. TAKE y \in DOMAIN g, j \in Index
  <2>2. y \in DOMAIN t /\ m[y] = lv[y] /\ g[y] = t[y] /\ lv[y] \in 1 .. LEVELS
    BY <1>1, ShapedFacts
  <2>3. ASSUME Points(g, m, y, j) PROVE g[y][j].base \in DOMAIN g /\ m[g[y][j].base] = m[y] - 1
    <3>1. Points(t, lv, y, j)
      BY <1>4, <2>3, Zenon
    <3>2. t[y][j].base \in DOMAIN t /\ lv[t[y][j].base] = lv[y] - 1
      BY <2>2, <3>1, ShapedFacts
    <3>3. t[y][j].base # k
      BY <1>2, <2>2, <3>2 DEF LEVELS
    <3>4. QED BY <1>1, <2>2, <3>2, <3>3
  <2>4. ASSUME m[y] > 2, g[y][j].p PROVE ~ g[y][j].ps
    BY <2>2, <2>4, ShapedFacts
  <2>5. QED BY <2>3, <2>4
<1>6. \A y, z \in DOMAIN g, j, i \in Index :
          Points(g, m, y, j) /\ Points(g, m, z, i) /\ g[y][j].base = g[z][i].base =>
              j = i /\ (y = z \/ (m[y] = LEVELS /\ m[z] = LEVELS /\ j >= W \div 2))
  <2>1. TAKE y, z \in DOMAIN g, j, i \in Index
  <2>2. HAVE Points(g, m, y, j) /\ Points(g, m, z, i) /\ g[y][j].base = g[z][i].base
  <2>3. /\ y \in DOMAIN t /\ m[y] = lv[y] /\ g[y] = t[y]
        /\ z \in DOMAIN t /\ m[z] = lv[z] /\ g[z] = t[z]
    BY <1>1
  <2>4. Points(t, lv, y, j) /\ Points(t, lv, z, i)
    BY <1>4, <2>2, Zenon
  <2>5. QED BY <2>2, <2>3, <2>4, ShapedFacts
<1>7. Shaped(g, m)
  BY <1>3, <1>5, <1>6, Zenon DEF Shaped
<1>8. \A q : IsTop(t, lv, q) /\ q # k => IsTop(g, m, q)
  BY <1>1 DEF IsTop
<1>9. QED BY <1>1, <1>7, <1>8

\* Walks are the same in tables that keep those of the lower levels and the
\* walk's top.
LEMMA TablesKept ==
  ASSUME PageTableAssumption, NEW t, NEW lv, Shaped(t, lv), NEW r, IsTop(t, lv, r), NEW v \in Nat,
         NEW g, \A x \in DOMAIN t : x = r \/ lv[x] # LEVELS => x \in DOMAIN g /\ g[x] = t[x]
  PROVE  Walked(g, r, v) = Walked(t, r, v)
<1>1. ASSUME NEW l \in 1 .. 4, Comes(t, r, v, l)
      PROVE  /\ Place(t, r, v, l) \in DOMAIN g
             /\ g[Place(t, r, v, l)][Digit(v, l)] = t[Place(t, r, v, l)][Digit(v, l)]
  <2> DEFINE x == Place(t, r, v, l)
  <2>1. x \in DOMAIN t /\ lv[x] = l
    BY <1>1, Arrives
  <2>2. x = r \/ lv[x] # LEVELS
    <3>1. l = 4 => x = r
      BY PlaceSteps
    <3>2. QED BY <2>1, <3>1 DEF LEVELS
  <2> HIDE DEF x
  <2>3. x \in DOMAIN g /\ g[x] = t[x]
    BY <2>1, <2>2
  <2>4. QED BY <2>3 DEF x
<1>2. QED BY <1>1, SameWalk
-----------------------------------------------------------------------------
(* Maps keep it, and are exact *)

LEMMA Limits ==
  ASSUME PageTableAssumption
  PROVE  /\ Power[LEVELS] \in Nat /\ Half \in Nat /\ Half <= Power[LEVELS]
         /\ (W \div 2) * (W * W) \in Nat /\ Half = ((W \div 2) * (W * W)) * W
<1> DEFINE h == W \div 2
           n == h * (W * (W * W))
<1>1. W \in Nat /\ h \in Nat /\ W = 2 * h
  BY Widths
<1>2. Power[LEVELS] = W * (W * (W * W))
  BY Powers DEF LEVELS
<1> HIDE DEF h
<1>3. W * W \in Nat /\ h * (W * W) \in Nat
  BY <1>1
<1>4. n \in Nat /\ n = (h * (W * W)) * W
  BY <1>1, <1>3
<1>5. W * (W * (W * W)) = 2 * n
  <2>1. W * (W * W) \in Nat
    BY <1>1, <1>3
  <2> DEFINE m == W * (W * W)
  <2> HIDE DEF m
  <2>2. W * m = 2 * (h * m)
    BY <1>1, <2>1 DEF m
  <2>3. QED BY <2>2 DEF m
<1> HIDE DEF n
<1>6. (2 * n) \div 2 = n /\ n <= 2 * n /\ 2 * n \in Nat
  BY <1>4
<1>7. Half = n
  BY <1>2, <1>5, <1>6, Zenon DEF Half
<1>8. QED BY <1>2, <1>3, <1>4, <1>5, <1>6, <1>7 DEF h

LEMMA Requests ==
  ASSUME PageTableAssumption
  PROVE  /\ \A req \in KernelMaps : Request(req) /\ req[2] = req[1] + Half
         /\ \A req \in TaskMaps : Request(req) /\ End(req) <= Half
<1>1. /\ KernelMaps \cup TaskMaps \subseteq Nat \X Nat \X Nat \X Mode
      /\ \A req \in KernelMaps : req[2] = req[1] + Half /\ End(req) <= Power[LEVELS]
      /\ \A req \in TaskMaps : End(req) <= Half
  BY DEF PageTableAssumption
<1>2. \A req \in KernelMaps : Request(req)
  BY <1>1 DEF Request
<1>3. ASSUME NEW req \in TaskMaps PROVE Request(req)
  <2>1. req \in Nat \X Nat \X Nat \X Mode /\ End(req) <= Half
    BY <1>1
  <2>2. End(req) \in Nat
    <3>1. req[2] \in Nat /\ req[3] \in Nat /\ check_page_size(req[4]) \in Nat
      BY <2>1, Widths DEF check_page_size
    <3>2. req[3] * check_page_size(req[4]) \in Nat
      BY <3>1
    <3>3. QED BY <3>1, <3>2 DEF End
  <2>3. End(req) <= Power[LEVELS]
    BY <2>1, <2>2, Limits
  <2>4. QED BY <2>1, <2>3 DEF Request
<1>4. QED BY <1>1, <1>2, <1>3

LEMMA Watched ==
  ASSUME PageTableAssumption, NEW v \in Watch
  PROVE  v \in Address /\ v \in Nat
<1>1. v \in Address
  BY DEF PageTableAssumption, Address
<1>2. QED BY <1>1, Determined

\* The kernel's pages go to their linear addresses.
LEMMA KernelPlaces ==
  ASSUME PageTableAssumption, NEW req \in KernelMaps, NEW v \in Nat
  PROVE  From(req) + (v - To(req)) = v - Half
<1>1. req[2] = req[1] + Half /\ req[1] \in Nat /\ Half \in Nat
  BY Requests, Limits DEF Request
<1>2. CASE req[4] # P2Mib
  BY <1>1, <1>2 DEF From, To
<1>3. CASE req[4] = P2Mib
  <2> DEFINE n == (W \div 2) * (W * W)
             q == req[1] \div W
  <2>1. n \in Nat /\ Half = n * W
    BY Limits
  <2> HIDE DEF n
  <2>2. (req[1] + n * W) \div W = q + n
    BY <1>1, <2>1, Shifted
  <2>3. From(req) = q * W /\ To(req) = (q + n) * W
    BY <1>1, <1>3, <2>1, <2>2 DEF From, To, Cut
  <2>4. q \in Nat /\ W \in Nat
    BY <1>1, Cuts, Widths
  <2> HIDE DEF q
  <2>5. (q + n) * W = q * W + n * W /\ q * W \in Nat /\ n * W \in Nat
    BY <2>1, <2>4
  <2>6. QED BY <2>1, <2>3, <2>5
<1>4. QED BY <1>2, <1>3

LEMMA Applied ==
  ASSUME PageTableAssumption, NEW lv, Good(table, free, lv), NEW r, IsTop(table, lv, r),
         NEW req, Request(req), Room(req[3]), NEW us \in BOOLEAN,
         NEW low \in BOOLEAN, low => End(req) <= Half, Apply(Map(r, req, us))
  PROVE  \E m : Progress(table, free, lv, table', free', m, r, req, us, low, req[3])
<1>1. PICK g, h, m, at : /\ Map(r, req, us) = Walk(g, h, at)
                         /\ Progress(table, free, lv, g, h, m, r, req, us, low, req[3])
  BY Maps
<1>2. table' = g /\ free' = h
  <2>1. Walk(g, h, at).table = g /\ Walk(g, h, at).free = h
    BY DEF Walk
  <2>2. QED BY <1>1, <2>1 DEF Apply
<1>3. QED BY <1>1, <1>2

\* The action property, of one space.
LEMMA Exactly ==
  ASSUME PageTableAssumption, NEW lv, NEW m, NEW s \in Space, IsTop(table, lv, root[s]),
         NEW req, Request(req), NEW us \in BOOLEAN, NEW low \in BOOLEAN, root' = root,
         Progress(table, free, lv, table', free', m, root[s], req, us, low, req[3])
  PROVE  MapsExactly(s, req, us)
<1> DEFINE from == IF req[4] = P2Mib THEN Cut(req[1]) ELSE req[1]
           to == IF req[4] = P2Mib THEN Cut(req[2]) ELSE req[2]
<1>1. ASSUME NEW v \in Watch
      PROVE  LET before == Translate(table, root[s], v)
                 after == Translate(table', root'[s], v)
                 far == v - to
             IN IF far \in 0 .. req[3] * check_page_size(req[4]) - 1
                THEN after.at = from + far /\ (after.us => us)
                ELSE IF Walked(table, root[s], v).huge /\ TornBy(req, v) THEN after.at = None
                ELSE after = before
  <2> DEFINE before == Translate(table, root[s], v)
             after == Translate(table', root'[s], v)
             r == root[s]
  <2>1. v \in Address
    BY Watched
  <2>2. IF Among(v, req, req[3]) THEN Placed(table', r, v, req, us)
        ELSE IF Torn(table, r, v, req, req[3]) THEN Walked(table', r, v) = Nowhere
        ELSE Walked(table', r, v) = Walked(table, r, v)
    <3>1. Walks(table, lv, table', r, req, us, low, req[3])
      BY DEF Progress
    <3>2. QED BY <2>1, <3>1, Zenon DEF Walks
  <2>3. /\ after.at = Walked(table', r, v).at /\ after.us = Walked(table', r, v).us
        /\ Walked(table', r, v) = Walked(table, r, v) => after = before
    BY DEF Translate
  <2>4. Among(v, req, req[3]) <=> v - to \in 0 .. req[3] * check_page_size(req[4]) - 1
    BY DEF Among, To
  <2>5. Placed(table', r, v, req, us) => after.at = from + (v - to) /\ (after.us => us)
    BY <2>3, Zenon DEF Placed, From, To
  <2>6. /\ Walked(table', r, v) = Nowhere => after.at = None
        /\ Torn(table, r, v, req, req[3]) <=> Walked(table, r, v).huge /\ TornBy(req, v)
    <3>1. Nowhere.at = None
      BY DEF Nowhere
    <3>2. \A w \in req[2] .. req[2] + req[3] - 1 : v \div W = w \div W <=> Cut(v) = Cut(w)
      <4> SUFFICES ASSUME NEW w \in req[2] .. req[2] + req[3] - 1
                   PROVE  v \div W = w \div W <=> Cut(v) = Cut(w)
        OBVIOUS
      <4>1. W \in Nat \ {0} /\ v \in Nat /\ w \in Nat
        BY <2>1, Widths, Determined DEF Request
      <4>2. v \div W \in Nat /\ w \div W \in Nat
        BY <4>1, Cuts, Zenon
      <4> DEFINE a == v \div W
                 b == w \div W
      <4>3. a * W + 0 = b * W + 0 => a = b
        <5> HIDE DEF a, b
        <5>1. 0 \in Nat /\ 0 < W /\ W \in Nat
          BY <4>1
        <5>2. a \in Nat /\ b \in Nat
          BY <4>2 DEF a, b
        <5>3. QED BY <5>1, <5>2, Unique
      <4>4. a * W \in Nat /\ b * W \in Nat
        <5> HIDE DEF a, b
        <5>1. a \in Nat /\ b \in Nat
          BY <4>2 DEF a, b
        <5>2. QED BY <4>1, <5>1
      <4>5. Cut(v) = a * W /\ Cut(w) = b * W
        BY Zenon DEF Cut
      <4> HIDE DEF a, b
      <4>6. QED BY <4>3, <4>4, <4>5 DEF a, b
    <3> HIDE DEF after
    <3>3. QED BY <2>3, <3>1, <3>2, Zenon DEF Torn, TornBy
  <2> HIDE DEF before, after, from, to, r
  <2>7. QED BY <2>2, <2>3, <2>4, <2>5, <2>6 DEF before, after, from, to, r
<1>2. QED BY <1>1, Zenon DEF MapsExactly

\* A map of the kernel: it is alone.
LEMMA MapKernelInv ==
  ASSUME PageTableAssumption, IInv, NEW req \in KernelMaps, MapKernel(req)
  PROVE  IInv' /\ MapsExactly(Kernel, req, FALSE)
<1>1. PICK lv : Good(table, free, lv) /\ Rooted(table, lv, root)
  BY DEF IInv
<1>2. /\ booting /\ Room(req[3]) /\ Apply(Map(root[Kernel], req, FALSE))
      /\ root' = root /\ active' = active /\ booting' = booting
  BY DEF MapKernel
<1>3. Kernel \in Space
  BY DEF Space
<1>4. /\ IsTop(table, lv, root[Kernel]) /\ root[Kernel] # None
      /\ \A s \in Space : root[s] # None => s = Kernel
  BY <1>1, <1>2, <1>3 DEF Rooted, IInv
<1>5. PICK m : Progress(table, free, lv, table', free', m, root[Kernel], req, FALSE, FALSE, req[3])
  BY <1>1, <1>2, <1>4, Requests, Applied
<1>6. /\ Good(table', free', m) /\ Tops(table, lv, table', m, root[Kernel], FALSE)
      /\ Walks(table, lv, table', root[Kernel], req, FALSE, FALSE, req[3])
  BY <1>5 DEF Progress
<1>7. Rooted(table', m, root')
  <2>1. IsTop(table', m, root[Kernel])
    BY <1>4, <1>6, Zenon DEF Tops
  <2>2. QED BY <1>1, <1>2, <1>4, <2>1 DEF Rooted
<1>8. Alike(table', root')
  BY <1>2, <1>4 DEF Alike
<1>9. Linear(table', root'[Kernel])
  <2> DEFINE r == root[Kernel]
  <2> SUFFICES ASSUME NEW v \in Watch, v >= Half
               PROVE  Walked(table', r, v).at \in {None, v - Half} /\ ~ Walked(table', r, v).us
    BY <1>2 DEF Linear
  <2>1. v \in Address /\ v \in Nat
    BY Watched
  <2>2. IF Among(v, req, req[3]) THEN Placed(table', r, v, req, FALSE)
        ELSE IF Torn(table, r, v, req, req[3]) THEN Walked(table', r, v) = Nowhere
        ELSE Walked(table', r, v) = Walked(table, r, v)
    BY <1>4, <1>6, <2>1, Zenon DEF Walks
  <2>3. Walked(table, r, v).at \in {None, v - Half} /\ ~ Walked(table, r, v).us
    BY DEF IInv, Linear
  <2>4. Nowhere.at = None /\ ~ Nowhere.us
    BY DEF Nowhere
  <2>5. Placed(table', r, v, req, FALSE) => Walked(table', r, v).at = v - Half /\ ~ Walked(table', r, v).us
    <3>1. From(req) + (v - To(req)) = v - Half
      BY <2>1, KernelPlaces
    <3>2. QED BY <3>1, Zenon DEF Placed
  <2> HIDE DEF r
  <2>6. CASE Placed(table', r, v, req, FALSE)
    BY <2>5, <2>6
  <2>7. CASE Walked(table', r, v) = Walked(table, r, v)
    BY <2>3, <2>7
  <2>8. CASE Walked(table', r, v) = Nowhere
    BY <2>4, <2>8
  <2>9. QED BY <2>2, <2>6, <2>7, <2>8
<1>10. IInv'
  BY <1>2, <1>6, <1>7, <1>8, <1>9 DEF IInv
<1>11. MapsExactly(Kernel, req, FALSE)
  BY <1>2, <1>3, <1>4, <1>5, Requests, Exactly
<1>12. QED BY <1>10, <1>11

\* A map of a task: below Half, so that the others keep their walks.
LEMMA MapTaskInv ==
  ASSUME PageTableAssumption, IInv, NEW s \in Task, NEW req \in TaskMaps, MapTask(s, req)
  PROVE  IInv' /\ MapsExactly(s, req, TRUE)
<1>1. PICK lv : Good(table, free, lv) /\ Rooted(table, lv, root)
  BY DEF IInv
<1>2. /\ root[s] # None /\ Room(req[3]) /\ Apply(Map(root[s], req, TRUE))
      /\ root' = root /\ active' = active /\ booting' = booting
  BY DEF MapTask
<1>3. Kernel \in Space /\ s \in Space /\ s # Kernel
  BY DEF Space, PageTableAssumption
<1>4. /\ IsTop(table, lv, root[Kernel]) /\ root[Kernel] # None
      /\ IsTop(table, lv, root[s]) /\ root[s] # root[Kernel]
  BY <1>1, <1>2, <1>3 DEF Rooted
<1>5. PICK m : Progress(table, free, lv, table', free', m, root[s], req, TRUE, TRUE, req[3])
  BY <1>1, <1>2, <1>4, Requests, Applied
<1>6. /\ Good(table', free', m) /\ Tops(table, lv, table', m, root[s], TRUE)
      /\ Walks(table, lv, table', root[s], req, TRUE, TRUE, req[3])
  BY <1>5 DEF Progress
<1>7. \A q : IsTop(table, lv, q) =>
          /\ IsTop(table', m, q)
          /\ \A i \in Index : i >= W \div 2 => table'[q][i] = table[q][i]
  BY <1>6, Zenon DEF Tops
<1>8. Rooted(table', m, root')
  <2>1. \A u \in Space : root[u] # None => IsTop(table, lv, root[u])
    BY <1>1 DEF Rooted
  <2>2. \A u \in Space : root[u] # None => IsTop(table', m, root[u])
    BY <1>7, <2>1, Zenon
  <2>3. QED BY <1>1, <1>2, <2>2 DEF Rooted
<1>9. Alike(table', root')
  <2> SUFFICES ASSUME NEW u \in Space, NEW i \in Index, root[u] # None, i >= W \div 2
               PROVE  table'[root[u]][i] = table'[root[Kernel]][i]
    BY <1>2 DEF Alike
  <2>1. IsTop(table, lv, root[u])
    BY <1>1 DEF Rooted
  <2>2. table'[root[u]][i] = table[root[u]][i] /\ table'[root[Kernel]][i] = table[root[Kernel]][i]
    BY <1>4, <1>7, <2>1, Zenon
  <2>3. table[root[u]][i] = table[root[Kernel]][i]
    BY DEF IInv, Alike
  <2>4. QED BY <2>2, <2>3
<1>10. Linear(table', root'[Kernel])
  <2> DEFINE r == root[Kernel]
  <2> SUFFICES ASSUME NEW v \in Watch, v >= Half
               PROVE  Walked(table', r, v).at \in {None, v - Half} /\ ~ Walked(table', r, v).us
    BY <1>2 DEF Linear
  <2>1. v \in Address
    BY Watched
  <2>2. Walked(table', r, v) = Walked(table, r, v)
    BY <1>4, <1>6, <2>1, Zenon DEF Walks
  <2>3. Walked(table, r, v).at \in {None, v - Half} /\ ~ Walked(table, r, v).us
    BY DEF IInv, Linear
  <2> HIDE DEF r
  <2>4. QED BY <2>2, <2>3
<1>11. IInv'
  BY <1>2, <1>6, <1>8, <1>9, <1>10 DEF IInv
<1>12. MapsExactly(s, req, TRUE)
  BY <1>2, <1>3, <1>4, <1>5, Requests, Exactly
<1>13. QED BY <1>11, <1>12
-----------------------------------------------------------------------------
(* The other actions *)

LEMMA NewSpaceInv ==
  ASSUME PageTableAssumption, IInv, NEW s \in Task, NewSpace(s)
  PROVE  IInv'
<1> DEFINE n == NewFrame(free)
           k == root[Kernel]
<1>1. PICK lv : Good(table, free, lv) /\ Rooted(table, lv, root)
  BY DEF IInv
<1>2. /\ root[s] = None /\ Room(1) /\ root' = [root EXCEPT ![s] = n]
      /\ table' = [x \in DOMAIN table \cup {n} |->
                      IF x = n THEN [i \in Index |-> IF i < W \div 2 THEN Empty ELSE table[k][i]]
                      ELSE table[x]]
      /\ free' = free \ {n} /\ booting' = FALSE /\ active' = active
  BY Zenon DEF NewSpace, Top
<1>3. Kernel \in Space /\ s \in Space /\ s # Kernel
  BY DEF Space, PageTableAssumption
<1>4. /\ IsFiniteSet(free) /\ Cardinality(free) \in Nat /\ free \subseteq Nat /\ Shaped(table, lv)
      /\ \A y \in free : y \notin DOMAIN table
  BY <1>1, GoodFrames
<1>5. n \in free /\ n \in Nat /\ n \notin DOMAIN table /\ n # None
  <2>1. free # {}
    <3>1. Cardinality(free) >= 3
      BY <1>2 DEF Room, LEVELS
    <3>2. QED BY <1>4, <3>1, FS_EmptySet
  <2>2. None \notin Nat
    BY DEF PageTableAssumption
  <2>3. n \in free
    BY <1>4, <2>1, NewFrameIs
  <2>4. QED BY <1>4, <2>2, <2>3
<1> HIDE DEF n
<1>6. IsTop(table, lv, k) /\ k # None
  BY <1>1, <1>3 DEF Rooted
<1> DEFINE m == [x \in DOMAIN table \cup {n} |-> IF x = n THEN LEVELS ELSE lv[x]]
<1>7. TopAdds(table, lv, k, n, table', m)
  BY <1>2, Zenon DEF TopAdds
<1>8. DOMAIN table' = DOMAIN table \cup {n}
  BY <1>2
<1> HIDE DEF m, k
<1>9. /\ Shaped(table', m) /\ IsTop(table', m, n)
      /\ \A i \in Index : i >= W \div 2 => table'[n][i] = table[k][i]
      /\ \A x \in DOMAIN table : x \in DOMAIN table' /\ table'[x] = table[x]
      /\ \A q : IsTop(table, lv, q) => IsTop(table', m, q)
  BY <1>4, <1>5, <1>6, <1>7, TopAdded
<1>10. Good(table', free', m)
  <2>1. free \cup DOMAIN table \subseteq Pool \cup DOMAIN BootTable /\ free \cap DOMAIN table = {}
    BY <1>1 DEF Good
  <2>2. QED BY <1>2, <1>5, <1>8, <1>9, <2>1 DEF Good
<1>11. /\ root'[s] = n /\ \A u \in Space : u # s => root'[u] = root[u]
       /\ root' = [u \in Space |-> root'[u]]
  <2>1. root = [u \in Space |-> root[u]]
    BY <1>1 DEF Rooted
  <2>2. QED BY <1>2, <1>3, <2>1
<1>12. \A u \in Space : root[u] # None => IsTop(table, lv, root[u]) /\ root[u] \in DOMAIN table
  BY <1>1 DEF Rooted, IsTop
<1>13. Rooted(table', m, root')
  <2>1. root'[Kernel] # None
    BY <1>3, <1>6, <1>11 DEF k
  <2>2. \A u \in Space : root'[u] # None => IsTop(table', m, root'[u])
    BY <1>9, <1>11, <1>12
  <2>3. \A u, v \in Space : root[u] # None /\ root[u] = root[v] => u = v
    BY <1>1 DEF Rooted
  <2>4. ASSUME NEW u \in Space, NEW v \in Space, root'[u] # None, root'[u] = root'[v]
        PROVE  u = v
    <3>1. CASE u = s
      BY <1>5, <1>11, <1>12, <2>4, <3>1
    <3>2. CASE v = s
      BY <1>5, <1>11, <1>12, <2>4, <3>2
    <3>3. CASE u # s /\ v # s
      BY <1>11, <2>3, <2>4, <3>3
    <3>4. QED BY <3>1, <3>2, <3>3
  <2>5. QED BY <1>11, <2>1, <2>2, <2>4 DEF Rooted
<1>14. Alike(table', root')
  <2> SUFFICES ASSUME NEW u \in Space, NEW i \in Index, root'[u] # None, i >= W \div 2
               PROVE  table'[root'[u]][i] = table'[root'[Kernel]][i]
    BY DEF Alike
  <2>1. root'[Kernel] = k /\ table'[k] = table[k]
    BY <1>3, <1>6, <1>9, <1>11 DEF k, IsTop
  <2>2. CASE u = s
    BY <1>9, <1>11, <2>1, <2>2
  <2>3. CASE u # s
    <3>1. table[root[u]][i] = table[k][i] /\ root'[u] = root[u] /\ root[u] \in DOMAIN table
      BY <1>11, <1>12, <2>3 DEF IInv, Alike, k
    <3>2. table'[root[u]] = table[root[u]]
      BY <1>9, <3>1
    <3>3. QED BY <2>1, <3>1, <3>2
  <2>4. QED BY <2>2, <2>3
<1>15. Linear(table', root'[Kernel])
  <2>1. root'[Kernel] = k
    BY <1>3, <1>11 DEF k
  <2> SUFFICES ASSUME NEW v \in Watch, v >= Half
               PROVE  Walked(table', k, v).at \in {None, v - Half} /\ ~ Walked(table', k, v).us
    BY <2>1 DEF Linear
  <2>2. v \in Nat
    BY Watched
  <2>3. Walked(table', k, v) = Walked(table, k, v)
    BY <1>4, <1>6, <1>9, <2>2, TablesKept
  <2>4. Walked(table, k, v).at \in {None, v - Half} /\ ~ Walked(table, k, v).us
    BY DEF IInv, Linear, k
  <2>5. QED BY <2>3, <2>4
<1>16. active' \in Space /\ root'[active'] # None
  <2>1. active \in Space /\ root[active] # None
    BY DEF IInv
  <2>2. active # s
    BY <1>2, <2>1
  <2>3. QED BY <1>2, <1>11, <2>1, <2>2
<1>17. QED BY <1>2, <1>10, <1>13, <1>14, <1>15, <1>16 DEF IInv

LEMMA DestroyInv ==
  ASSUME PageTableAssumption, IInv, NEW s \in Task, Destroy(s)
  PROVE  IInv'
<1> DEFINE d == root[s]
           k == root[Kernel]
<1>1. PICK lv : Good(table, free, lv) /\ Rooted(table, lv, root)
  BY DEF IInv
<1>2. /\ d # None /\ s # active /\ root' = [root EXCEPT ![s] = None]
      /\ table' = [x \in DOMAIN table \ {d} |-> table[x]]
      /\ free' = free \cup {d} /\ booting' = booting /\ active' = active
  BY DEF Destroy
<1>3. Kernel \in Space /\ s \in Space /\ s # Kernel
  BY DEF Space, PageTableAssumption
<1>4. Shaped(table, lv)
  BY <1>1 DEF Good
<1>5. /\ IsTop(table, lv, k) /\ k # None /\ IsTop(table, lv, d)
      /\ \A u \in Space : root[u] # None => IsTop(table, lv, root[u]) /\ (u # s => root[u] # d)
  BY <1>1, <1>2, <1>3 DEF Rooted
<1>6. k # d
  BY <1>3, <1>5
<1> DEFINE m == [x \in DOMAIN table \ {d} |-> lv[x]]
<1>7. TopDrops(table, lv, d, table', m)
  BY <1>2, Zenon DEF TopDrops
<1>8. DOMAIN table' = DOMAIN table \ {d}
  BY <1>2
<1> HIDE DEF m, k, d
<1>9. /\ Shaped(table', m)
      /\ \A x \in DOMAIN table \ {d} : x \in DOMAIN table' /\ table'[x] = table[x]
      /\ \A q : IsTop(table, lv, q) /\ q # d => IsTop(table', m, q)
  BY <1>4, <1>5, <1>7, TopDropped
<1>10. Good(table', free', m)
  <2>1. free \cup DOMAIN table \subseteq Pool \cup DOMAIN BootTable /\ free \cap DOMAIN table = {}
    BY <1>1 DEF Good
  <2>2. d \in DOMAIN table
    BY <1>5 DEF IsTop
  <2>3. QED BY <1>2, <1>8, <1>9, <2>1, <2>2 DEF Good
<1>11. /\ root'[s] = None /\ \A u \in Space : u # s => root'[u] = root[u]
       /\ root' = [u \in Space |-> root'[u]]
  <2>1. root = [u \in Space |-> root[u]]
    BY <1>1 DEF Rooted
  <2>2. QED BY <1>2, <1>3, <2>1
<1>12. Rooted(table', m, root')
  <2>1. root'[Kernel] # None
    BY <1>3, <1>5, <1>11 DEF k
  <2>2. \A u \in Space : root'[u] # None => IsTop(table', m, root'[u])
    <3>1. TAKE u \in Space
    <3>2. HAVE root'[u] # None
    <3>3. u # s /\ root'[u] = root[u]
      BY <1>11, <3>2
    <3>4. IsTop(table, lv, root[u]) /\ root[u] # d
      BY <1>5, <3>2, <3>3
    <3>5. IsTop(table', m, root[u])
      BY <1>9, <3>4, Zenon
    <3>6. QED BY <3>3, <3>5
  <2>3. \A u, v \in Space : root[u] # None /\ root[u] = root[v] => u = v
    BY <1>1 DEF Rooted
  <2>4. \A u, v \in Space : root'[u] # None /\ root'[u] = root'[v] => u = v
    BY <1>11, <2>3
  <2>5. QED BY <1>11, <2>1, <2>2, <2>4 DEF Rooted
<1>13. Alike(table', root')
  <2> SUFFICES ASSUME NEW u \in Space, NEW i \in Index, root'[u] # None, i >= W \div 2
               PROVE  table'[root'[u]][i] = table'[root'[Kernel]][i]
    BY DEF Alike
  <2>1. root'[Kernel] = k /\ table'[k] = table[k]
    BY <1>3, <1>5, <1>6, <1>9, <1>11 DEF k, IsTop
  <2>2. u # s /\ root'[u] = root[u]
    BY <1>11
  <2>3. root[u] \in DOMAIN table /\ root[u] # d
    BY <1>5, <2>2 DEF IsTop
  <2>4. table'[root[u]] = table[root[u]]
    BY <1>9, <2>3
  <2>5. table[root[u]][i] = table[k][i]
    BY <2>2 DEF IInv, Alike, k
  <2>6. QED BY <2>1, <2>2, <2>4, <2>5
<1>14. Linear(table', root'[Kernel])
  <2>1. root'[Kernel] = k
    BY <1>3, <1>11 DEF k
  <2> SUFFICES ASSUME NEW v \in Watch, v >= Half
               PROVE  Walked(table', k, v).at \in {None, v - Half} /\ ~ Walked(table', k, v).us
    BY <2>1 DEF Linear
  <2>2. v \in Nat
    BY Watched
  <2>3. \A x \in DOMAIN table : x = k \/ lv[x] # LEVELS => x \in DOMAIN table' /\ table'[x] = table[x]
    BY <1>5, <1>6, <1>9 DEF IsTop
  <2>4. Walked(table', k, v) = Walked(table, k, v)
    BY <1>4, <1>5, <2>2, <2>3, TablesKept
  <2>5. Walked(table, k, v).at \in {None, v - Half} /\ ~ Walked(table, k, v).us
    BY DEF IInv, Linear, k
  <2>6. QED BY <2>4, <2>5
<1>15. active' \in Space /\ root'[active'] # None
  BY <1>2, <1>11 DEF IInv
<1>16. booting' => \A u \in Space : root'[u] # None => u = Kernel
  BY <1>2, <1>11 DEF IInv
<1>17. QED BY <1>10, <1>12, <1>13, <1>14, <1>15, <1>16 DEF IInv

\* Activation, and what changes nothing.
LEMMA QuietInv ==
  ASSUME IInv, UNCHANGED <<table, free, root, booting>>, active' \in Space, root[active'] # None
  PROVE  IInv'
  BY DEF IInv

LEMMA NextInv ==
  ASSUME PageTableAssumption, IInv, [Next]_vars
  PROVE  IInv'
<1>1. CASE UNCHANGED vars
  <2>1. UNCHANGED <<table, free, root, booting>> /\ active' = active
    BY <1>1 DEF vars
  <2>2. active \in Space /\ root[active] # None
    BY DEF IInv
  <2>3. QED BY <2>1, <2>2, QuietInv
<1>2. ASSUME NEW req \in KernelMaps, MapKernel(req) PROVE IInv'
  BY <1>2, MapKernelInv
<1>3. ASSUME NEW s \in Task, NewSpace(s) PROVE IInv'
  BY <1>3, NewSpaceInv
<1>4. ASSUME NEW s \in Task, Unmap(s) PROVE IInv'
  BY <1>1, <1>4 DEF Unmap
<1>5. ASSUME NEW s \in Task, Destroy(s) PROVE IInv'
  BY <1>5, DestroyInv
<1>6. ASSUME NEW s \in Task, NEW req \in TaskMaps, MapTask(s, req) PROVE IInv'
  BY <1>6, MapTaskInv
<1>7. ASSUME NEW s \in Space, Activate(s) PROVE IInv'
  <2>1. active' = s /\ root[s] # None /\ UNCHANGED <<table, free, root, booting>>
    BY <1>7 DEF Activate
  <2>2. QED BY <2>1, QuietInv
<1>8. QED BY <1>1, <1>2, <1>3, <1>4, <1>5, <1>6, <1>7 DEF Next

LEMMA Inductive == Spec => []IInv
<1>1. Init => IInv
  BY PageTableAssumption, InitInv
<1>2. IInv /\ [Next]_vars => IInv'
  BY PageTableAssumption, NextInv
<1>3. QED BY <1>1, <1>2, PTL DEF Spec

-----------------------------------------------------------------------------
(* What it implies *)

\* Walks from tables with the same entry at the top.
LEMMA SameTop ==
  ASSUME PageTableAssumption, NEW t, NEW r \in DOMAIN t, NEW q \in DOMAIN t, NEW v \in Nat,
         t[r][Digit(v, 4)] = t[q][Digit(v, 4)]
  PROVE  Walked(t, r, v) = Walked(t, q, v)
<1>1. Step(t, Start(r), v, 4) = Step(t, Start(q), v, 4)
  <2>1. ~ Start(r).done /\ Start(r).at = r /\ Start(r).us = TRUE
        /\ ~ Start(q).done /\ Start(q).at = q /\ Start(q).us = TRUE
    BY DEF Start
  <2> DEFINE a == Start(r)
             b == Start(q)
  <2> HIDE DEF a, b
  <2>2. ~ a.done /\ a.at = r /\ a.us = TRUE /\ ~ b.done /\ b.at = q /\ b.us = TRUE
    BY <2>1 DEF a, b
  <2>3. Step(t, a, v, 4) = Read(t[r][Digit(v, 4)], a, v, 4)
        /\ Step(t, b, v, 4) = Read(t[r][Digit(v, 4)], b, v, 4)
    BY <2>2, StepReads
  <2>5. Read(t[r][Digit(v, 4)], a, v, 4) = Read(t[r][Digit(v, 4)], b, v, 4)
    BY <2>2, Zenon DEF Read
  <2>4. QED BY <2>3, <2>5 DEF a, b
<1>2. QED BY <1>1, Zenon DEF Walked, Start

LEMMA SharedHolds ==
  ASSUME PageTableAssumption, IInv
  PROVE  KernelIsShared
<1> SUFFICES ASSUME NEW s \in Live, NEW v \in Upper
             PROVE  Translate(table, root[s], v) = Translate(table, root[Kernel], v)
  BY DEF KernelIsShared
<1>1. PICK lv : Good(table, free, lv) /\ Rooted(table, lv, root)
  BY DEF IInv
<1>2. s \in Space /\ root[s] # None /\ Kernel \in Space
  BY DEF Live, Space
<1>3. v \in Watch /\ v >= Half /\ v \in Address /\ v \in Nat
  BY Watched DEF Upper
<1>4. root[s] \in DOMAIN table /\ root[Kernel] \in DOMAIN table
  BY <1>1, <1>2 DEF Rooted, IsTop
<1>5. Digit(v, 4) >= W \div 2 /\ Digit(v, 4) \in Index
  <2>1. 4 \in 1 .. LEVELS
    BY DEF LEVELS
  <2>2. QED BY <1>3, <2>1, Halves, Digits
<1>6. table[root[s]][Digit(v, 4)] = table[root[Kernel]][Digit(v, 4)]
  BY <1>2, <1>5 DEF IInv, Alike
<1>7. Walked(table, root[s], v) = Walked(table, root[Kernel], v)
  BY <1>3, <1>4, <1>6, SameTop
<1>8. QED BY <1>7 DEF Translate

LEMMA LinearHolds ==
  ASSUME PageTableAssumption, IInv
  PROVE  DirectMapIsLinear
<1> SUFFICES ASSUME NEW v \in Upper
             PROVE  LET p == Translate(table, root[Kernel], v) IN
                    p.at \in {None, v - Half} /\ ~ p.us
  BY DEF DirectMapIsLinear
<1>1. v \in Watch /\ v >= Half
  BY DEF Upper
<1>2. /\ Walked(table, root[Kernel], v).at \in {None, v - Half}
      /\ ~ Walked(table, root[Kernel], v).us
  BY <1>1 DEF IInv, Linear
<1>3. QED BY <1>2 DEF Translate

LEMMA TypeHolds ==
  ASSUME PageTableAssumption, IInv
  PROVE  TypeOK
<1>1. PICK lv : Good(table, free, lv) /\ Rooted(table, lv, root)
  BY DEF IInv
<1>2. /\ table \in [DOMAIN table -> [Index -> Entry]]
      /\ free \cap DOMAIN table = {} /\ free \subseteq Pool \cup DOMAIN BootTable
  BY <1>1 DEF Good, Shaped
<1>3. active \in Live
  BY DEF IInv, Live
<1>4. \A s, u \in Live : root[s] = root[u] => s = u
  BY <1>1 DEF Rooted, Live
<1>5. QED BY <1>2, <1>3, <1>4 DEF TypeOK

\* Tables of one level, and what their entries name.
Level(f, lv, l) == \A x \in f : x \in DOMAIN table /\ lv[x] = l

LEMMA DownIs ==
  ASSUME NEW f, NEW y \in Down(f)
  PROVE  \E x \in f \cap DOMAIN table, i \in Index :
             table[x][i].p /\ ~ table[x][i].ps /\ y = table[x][i].base
<1>1. PICK e \in {d \in {table[x][i] : x \in f \cap DOMAIN table, i \in Index} : d.p /\ ~ d.ps} : y = e.base
  BY DEF Down
<1>2. e.p /\ ~ e.ps /\ \E x \in f \cap DOMAIN table, i \in Index : e = table[x][i]
  BY <1>1
<1>3. PICK x \in f \cap DOMAIN table, i \in Index : e = table[x][i]
  BY <1>2
<1>4. QED BY <1>1, <1>2, <1>3

LEMMA DownPoints ==
  ASSUME NEW lv, Shaped(table, lv), NEW l \in 2 .. 4, NEW f, Level(f, lv, l), NEW y \in Down(f)
  PROVE  /\ y \in DOMAIN table /\ lv[y] = l - 1
         /\ \E x \in f, i \in Index : Points(table, lv, x, i) /\ y = table[x][i].base
<1>1. PICK x \in f \cap DOMAIN table, i \in Index :
          table[x][i].p /\ ~ table[x][i].ps /\ y = table[x][i].base
  BY DownIs
<1>2. lv[x] = l /\ x \in DOMAIN table
  BY DEF Level
<1>3. Points(table, lv, x, i)
  BY <1>1, <1>2 DEF Points, flags_ps_pat
<1>4. table[x][i].base \in DOMAIN table /\ lv[table[x][i].base] = lv[x] - 1
  BY <1>2, <1>3, ShapedFacts
<1>5. QED BY <1>1, <1>2, <1>3, <1>4

LEMMA DownApart ==
  ASSUME NEW lv, Shaped(table, lv), NEW l \in 2 .. 3, NEW f, NEW g,
         Level(f, lv, l), Level(g, lv, l), f \cap g = {}
  PROVE  Down(f) \cap Down(g) = {}
<1> SUFFICES ASSUME NEW y, y \in Down(f), y \in Down(g) PROVE FALSE
  OBVIOUS
<1>1. l \in 2 .. 4
  OBVIOUS
<1>2. PICK x \in f, i \in Index : Points(table, lv, x, i) /\ y = table[x][i].base
  <2>1. \E x \in f, i \in Index : Points(table, lv, x, i) /\ y = table[x][i].base
    BY <1>1, DownPoints
  <2>2. QED BY <2>1
<1>3. PICK z \in g, j \in Index : Points(table, lv, z, j) /\ y = table[z][j].base
  <2>1. \E z \in g, j \in Index : Points(table, lv, z, j) /\ y = table[z][j].base
    BY <1>1, DownPoints
  <2>2. QED BY <2>1
<1>4. x \in DOMAIN table /\ z \in DOMAIN table /\ lv[x] = l
  BY DEF Level
<1>5. x = z \/ lv[x] = LEVELS
  <2>1. table[x][i].base = table[z][j].base
    BY <1>2, <1>3
  <2>2. Points(table, lv, x, i) /\ Points(table, lv, z, j)
    BY <1>2, <1>3
  <2>3. QED BY <1>4, <2>1, <2>2, ShapedFacts
<1>6. QED BY <1>4, <1>5 DEF LEVELS

\* The tables down from some of level 3.
LEMMA TreeIs ==
  ASSUME NEW lv, Shaped(table, lv), NEW f, Level(f, lv, 3)
  PROVE  Level(Down(f), lv, 2) /\ Level(Down(Down(f)), lv, 1)
         /\ Tree(f) \subseteq DOMAIN table
         /\ \A y \in Tree(f) : /\ lv[y] = 3 => y \in f
                               /\ lv[y] = 2 => y \in Down(f)
                               /\ lv[y] = 1 => y \in Down(Down(f))
                               /\ lv[y] \in 1 .. 3
<1>1. Level(Down(f), lv, 2)
  <2>1. 3 \in 2 .. 4 /\ 3 - 1 = 2
    OBVIOUS
  <2>2. QED BY <2>1, DownPoints DEF Level
<1>2. Level(Down(Down(f)), lv, 1)
  <2>1. 2 \in 2 .. 4 /\ 2 - 1 = 1
    OBVIOUS
  <2>2. QED BY <1>1, <2>1, DownPoints DEF Level
<1>3. QED BY <1>1, <1>2 DEF Tree, Level

LEMMA TreesApart ==
  ASSUME NEW lv, Shaped(table, lv), NEW f, NEW g, Level(f, lv, 3), Level(g, lv, 3), f \cap g = {}
  PROVE  Tree(f) \cap Tree(g) = {}
<1>1. Down(f) \cap Down(g) = {}
  <2>1. 3 \in 2 .. 3
    OBVIOUS
  <2>2. QED BY <2>1, DownApart
<1>2. Down(Down(f)) \cap Down(Down(g)) = {}
  <2>1. 2 \in 2 .. 3
    OBVIOUS
  <2>2. Level(Down(f), lv, 2) /\ Level(Down(g), lv, 2)
    BY TreeIs
  <2>3. QED BY <1>1, <2>1, <2>2, DownApart
<1> SUFFICES ASSUME NEW y, y \in Tree(f), y \in Tree(g) PROVE FALSE
  OBVIOUS
<1>3. lv[y] = 1 \/ lv[y] = 2 \/ lv[y] = 3
  <2>1. lv[y] \in 1 .. 3
    BY TreeIs
  <2>2. QED BY <2>1
<1>4. /\ lv[y] = 3 => y \in f /\ y \in g
      /\ lv[y] = 2 => y \in Down(f) /\ y \in Down(g)
      /\ lv[y] = 1 => y \in Down(Down(f)) /\ y \in Down(Down(g))
  BY TreeIs
<1>5. QED BY <1>1, <1>2, <1>3, <1>4

LEMMA ApartHolds ==
  ASSUME PageTableAssumption, IInv
  PROVE  TasksAreApart
<1> DEFINE own(s) == {table[root[s]][i].base : i \in {j \in Index : j < W \div 2 /\ table[root[s]][j].p}}
<1>1. PICK lv : Good(table, free, lv) /\ Rooted(table, lv, root)
  BY DEF IInv
<1>2. Shaped(table, lv)
  BY <1>1 DEF Good
<1>3. ASSUME NEW s \in Live, NEW i \in Index, table[root[s]][i].p
      PROVE  /\ Points(table, lv, root[s], i) /\ root[s] \in DOMAIN table
             /\ table[root[s]][i].base \in DOMAIN table /\ lv[table[root[s]][i].base] = 3
  <2>1. root[s] \in DOMAIN table /\ lv[root[s]] = 4
    BY <1>1 DEF Live, Rooted, IsTop, LEVELS
  <2>2. Points(table, lv, root[s], i)
    BY <1>3, <2>1 DEF Points, flags_ps_pat
  <2>3. QED BY <1>2, <2>1, <2>2, ShapedFacts
<1>4. \A s \in Live : Level(own(s), lv, 3)
  BY <1>3 DEF Level
<1>5. ASSUME NEW s \in Live, NEW u \in Live, s # u PROVE own(s) \cap own(u) = {}
  <2> SUFFICES ASSUME NEW y, y \in own(s), y \in own(u) PROVE FALSE
    OBVIOUS
  <2>1. PICK i \in Index : i < W \div 2 /\ table[root[s]][i].p /\ y = table[root[s]][i].base
    OBVIOUS
  <2>2. PICK j \in Index : j < W \div 2 /\ table[root[u]][j].p /\ y = table[root[u]][j].base
    OBVIOUS
  <2>3. root[s] = root[u] \/ i >= W \div 2
    <3>1. table[root[s]][i].base = table[root[u]][j].base
      BY <2>1, <2>2
    <3>2. Points(table, lv, root[s], i) /\ Points(table, lv, root[u], j)
          /\ root[s] \in DOMAIN table /\ root[u] \in DOMAIN table
      BY <1>3, <1>5, <2>1, <2>2
    <3>3. QED BY <1>2, <3>1, <3>2, ShapedFacts
  <2>4. i \in Nat /\ W \div 2 \in Nat
    BY Widths
  <2>5. root[s] = root[u]
    BY <2>1, <2>3, <2>4
  <2>6. QED BY <1>1, <1>5, <2>5 DEF Rooted, Live
<1> HIDE DEF own
<1>6. \A s, u \in Live : s # u => Tree(own(s)) \cap Tree(own(u)) = {}
  BY <1>2, <1>4, <1>5, TreesApart
<1>7. QED BY <1>6, Zenon DEF TasksAreApart, own

LEMMA NoneFree ==
  ASSUME PageTableAssumption, IInv
  PROVE  NoTableIsFree
<1> SUFFICES ASSUME NEW s \in Live PROVE Below(root[s]) \cap free = {}
  BY DEF NoTableIsFree
<1>1. PICK lv : Good(table, free, lv) /\ Rooted(table, lv, root)
  BY DEF IInv
<1>2. Shaped(table, lv) /\ free \cap DOMAIN table = {}
  BY <1>1 DEF Good
<1>3. root[s] \in DOMAIN table /\ lv[root[s]] = 4
  BY <1>1 DEF Live, Rooted, IsTop, LEVELS
<1>4. Level({root[s]}, lv, 4)
  BY <1>3 DEF Level
<1>5. Level(Down({root[s]}), lv, 3)
  <2>1. 4 \in 2 .. 4 /\ 4 - 1 = 3
    OBVIOUS
  <2>2. QED BY <1>2, <1>4, <2>1, DownPoints DEF Level
<1>6. Tree(Down({root[s]})) \subseteq DOMAIN table
  BY <1>2, <1>5, TreeIs
<1>7. QED BY <1>2, <1>3, <1>6 DEF Below

\* The search, from the top: it is where the walk is until an entry is missing.
LEMMA FindHolds ==
  ASSUME PageTableAssumption, IInv
  PROVE  FindAgrees
<1> SUFFICES ASSUME NEW s \in Live, NEW v \in Watch, ~ Walked(table, root[s], v).huge
             PROVE  find_physcial_address(root[s], v, P4Kib) = Translate(table, root[s], v).at
  BY DEF FindAgrees
<1> DEFINE r == root[s]
           at3 == Seek(r, v, 4)
           at2 == Seek(at3, v, 3)
           at1 == Seek(at2, v, 2)
           at0 == Seek(at1, v, 1)
<1>1. PICK lv : Good(table, free, lv) /\ Rooted(table, lv, root)
  BY DEF IInv
<1>2. Shaped(table, lv) /\ DOMAIN table \subseteq Nat /\ None \notin DOMAIN table
  <2>1. None \notin Nat
    BY DEF PageTableAssumption
  <2>2. QED BY <1>1, <2>1, GoodFrames
<1>3. IsTop(table, lv, r)
  BY <1>1 DEF Rooted, Live
<1>4. v \in Nat
  BY Watched
<1>5. find_physcial_address(r, v, P4Kib) = at0
  BY Modes, Zenon DEF find_physcial_address
<1>6. Translate(table, r, v).at = Walked(table, r, v).at
  BY DEF Translate
<1>7. \A l : Seek(None, v, l) = None
  BY <1>2 DEF Seek
<1>8. Nowhere.at = None
  BY DEF Nowhere
<1> DEFINE C(l, a) == \/ Comes(table, r, v, l) /\ a = Place(table, r, v, l)
                      \/ a = None /\ Walked(table, r, v) = Nowhere
<1>9. C(4, r)
  BY PlaceSteps
<1>10. ASSUME NEW l \in 2 .. 4, NEW a, C(l, a) PROVE C(l - 1, Seek(a, v, l))
  <2>1. CASE a = None /\ Walked(table, r, v) = Nowhere
    BY <1>7, <2>1
  <2>2. CASE Comes(table, r, v, l) /\ a = Place(table, r, v, l)
    <3> DEFINE e == table[a][Digit(v, l)]
    <3>1. l \in 1 .. 4 /\ a \in DOMAIN table
      BY <1>2, <1>3, <1>4, <2>2, Arrives
    <3>2. Seek(a, v, l) = IF e.p THEN e.base ELSE None
      BY <3>1, Zenon DEF Seek, Digit
    <3>3. CASE ~ e.p
      <4>1. Walked(table, r, v) = Nowhere
        BY <1>2, <1>3, <1>4, <2>2, <3>1, <3>3, Lands
      <4>2. QED BY <3>2, <3>3, <4>1
    <3>4. CASE e.p
      <4>1. ~ flags_ps_pat(e, l)
        BY <1>2, <1>3, <1>4, <2>2, <3>1, <3>4, Lands
      <4>2. Leads(table, a, v, l)
        BY <3>4, <4>1 DEF Leads
      <4>3. Comes(table, r, v, l - 1) /\ Place(table, r, v, l - 1) = e.base
        BY <2>2, <4>2, PlaceSteps
      <4>4. QED BY <3>2, <3>4, <4>3
    <3>5. QED BY <3>3, <3>4
  <2>3. QED BY <1>10, <2>1, <2>2
<1> HIDE DEF at3, at2, at1, at0
<1>11. C(1, at1)
  <2>1. \A l \in 2 .. 4 : \A a : C(l, a) => C(l - 1, Seek(a, v, l))
    BY <1>10
  <2> HIDE DEF C
  <2>2. 4 \in 2 .. 4 /\ 3 \in 2 .. 4 /\ 2 \in 2 .. 4 /\ 4 - 1 = 3 /\ 3 - 1 = 2 /\ 2 - 1 = 1
    OBVIOUS
  <2>3. C(4 - 1, Seek(r, v, 4))
    BY <1>9, <2>1, <2>2, Zenon
  <2>4. C(3, at3)
    BY <2>2, <2>3 DEF at3
  <2>5. C(3 - 1, Seek(at3, v, 3))
    BY <2>1, <2>2, <2>4, Zenon
  <2>6. C(2, at2)
    BY <2>2, <2>5 DEF at2
  <2>7. C(2 - 1, Seek(at2, v, 2))
    BY <2>1, <2>2, <2>6, Zenon
  <2>8. QED BY <2>2, <2>7 DEF at1
<1>12. at0 = Walked(table, r, v).at
  <2>1. CASE at1 = None /\ Walked(table, r, v) = Nowhere
    BY <1>7, <1>8, <2>1 DEF at0
  <2>2. CASE Comes(table, r, v, 1) /\ at1 = Place(table, r, v, 1)
    <3> DEFINE e == table[at1][Digit(v, 1)]
    <3>1. 1 \in 1 .. 4 /\ at1 \in DOMAIN table
      BY <1>2, <1>3, <1>4, <2>2, Arrives
    <3>2. at0 = IF e.p THEN e.base ELSE None
      BY <3>1, Zenon DEF Seek, Digit, at0
    <3>3. CASE ~ e.p
      <4>1. Walked(table, r, v) = Nowhere
        BY <1>2, <1>3, <1>4, <2>2, <3>1, <3>3, Lands
      <4>2. QED BY <1>8, <3>2, <3>3, <4>1
    <3>4. CASE e.p
      <4>1. Walked(table, r, v).at = e.base
        BY <1>2, <1>3, <1>4, <2>2, <3>1, <3>4, Lands
      <4>2. QED BY <3>2, <3>4, <4>1
    <3>5. QED BY <3>3, <3>4
  <2>3. QED BY <1>11, <2>1, <2>2
<1>13. QED BY <1>5, <1>6, <1>12

-----------------------------------------------------------------------------
(* The theorems *)

\* However spaces are made, mapped and destroyed, every one holds the same
\* kernel, at its linear addresses and closed to tasks, and no two tasks share
\* a table of their halves (page_table.cpp:25-91, 170-184).
THEOREM SpacesStayLaidOut == Spec => []SpacesAreLaidOut
<1>1. IInv => SpacesAreLaidOut
  BY PageTableAssumption, TypeHolds, SharedHolds, LinearHolds, ApartHolds DEF SpacesAreLaidOut
<1>2. QED BY <1>1, Inductive, PTL

\* The processor never walks through a frame that the page allocator may give
\* away, and the kernel's search comes to where the processor does, but for
\* huge pages, which it does not know (page_table.cpp:138-157).
THEOREM WalksStayRight == Spec => []WalksAreRight
<1>1. IInv => WalksAreRight
  BY PageTableAssumption, NoneFree, FindHolds DEF WalksAreRight
<1>2. QED BY <1>1, Inductive, PTL

\* EveryMapIsExact: a map of any number of pages makes those pages what the
\* caller asked for (page_table.cpp:39-90).  Of the others it unmaps what
\* shares a huge page with one of them (:78), which NothingIsTorn, refuted,
\* says it should not, and changes none else.
THEOREM MapsAreExact == Spec => EveryMapIsExact
<1> DEFINE A == /\ \A req \in KernelMaps : MapKernel(req) => MapsExactly(Kernel, req, FALSE)
                /\ \A s \in Task, req \in TaskMaps : MapTask(s, req) => MapsExactly(s, req, TRUE)
<1>1. IInv => A
  BY PageTableAssumption, MapKernelInv, MapTaskInv
<1> HIDE DEF A
<1>2. IInv /\ [Next]_vars => [A]_vars
  BY <1>1
<1>3. Spec => [][A]_vars
  BY <1>2, Inductive, PTL DEF Spec
<1>4. QED BY <1>3 DEF EveryMapIsExact, A
=============================================================================
