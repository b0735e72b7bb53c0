---------------------------- MODULE GemmShapeProofs ----------------------------
(***************************************************************************)
(* Proofs about GemmShape: for any problem, any level and any override of   *)
(* positive sizes, the shape that a kernel is launched with gives each cell *)
(* of C to one thread and copies all that is multiplied.                    *)
(***************************************************************************)
EXTENDS GemmShape, TLAPS

-------------------------------------------------------------------------------
(* Arithmetic of quotients and remainders                                   *)

LEMMA Division ==
  ASSUME NEW a \in Nat, NEW b \in Nat \ {0}
  PROVE  /\ a \div b \in Nat /\ a % b \in 0 .. b - 1
         /\ a = (a \div b) * b + (a % b)
OBVIOUS

(* A number has one quotient and one remainder. *)
LEMMA DivisionUnique ==
  ASSUME NEW b \in Nat \ {0}, NEW q \in Nat, NEW r \in 0 .. b - 1
  PROVE  (q * b + r) \div b = q /\ (q * b + r) % b = r
OBVIOUS

LEMMA Placed ==
  ASSUME NEW b \in Nat \ {0}, NEW m \in Nat, NEW q \in 0 .. m - 1, NEW r \in 0 .. b - 1
  PROVE  q * b + r \in 0 .. m * b - 1
OBVIOUS

LEMMA TwoDigits ==
  ASSUME NEW b \in Nat \ {0}, NEW m \in Nat \ {0}, NEW q \in 0 .. m - 1, NEW r \in 0 .. b - 1
  PROVE  q * b + r \in 0 .. m * b - 1 /\ (q * b + r) \div b = q /\ (q * b + r) % b = r
<1>1. q \in Nat /\ m \in Nat
  OBVIOUS
<1> QED BY <1>1, Placed, DivisionUnique

LEMMA DivisionType ==
  ASSUME NEW a \in Nat, NEW b \in Nat \ {0}
  PROVE  a \div b \in Nat /\ a % b \in Nat
OBVIOUS

LEMMA QuotientBelow ==
  ASSUME NEW b \in Nat \ {0}, NEW m \in Nat, NEW a \in 0 .. m * b - 1
  PROVE  a \div b \in 0 .. m - 1
OBVIOUS

LEMMA Multiple ==
  ASSUME NEW a \in Nat \ {0}, NEW b \in Nat \ {0}, a % b = 0
  PROVE  a \div b \in Nat \ {0} /\ a = (a \div b) * b
OBVIOUS

(* The places of a thread, as OwnedRows and OwnedCols compute them at level 8. *)
WarpSet(T, S, I, W, w, l) == {w * W + l * T + m * S + i : m \in 0 .. I - 1, i \in 0 .. T - 1}

IsPlace(T, S, I, W, w, l, x) ==
  \E m \in 0 .. I - 1, i \in 0 .. T - 1 : x = w * W + l * T + m * S + i

(* This holds of any terms, so that nothing is said of what they are.        *)
LEMMA InWarpSet ==
  ASSUME NEW T, NEW S, NEW I, NEW W, NEW w, NEW l, NEW x
  PROVE  x \in WarpSet(T, S, I, W, w, l) <=> IsPlace(T, S, I, W, w, l, x)
BY DEF WarpSet, IsPlace

(* Places in a row of I patches of S places, where lane l has T of each.      *)
InPatches(T, S, I, l) ==
  /\ \A m \in 0 .. I - 1, i \in 0 .. T - 1 :
       /\ l * T + m * S + i \in 0 .. I * S - 1
       /\ ((l * T + m * S + i) % S) \div T = l
  /\ \A x \in 0 .. I * S - 1 :
       (x % S) \div T = l =>
         \E m \in 0 .. I - 1, i \in 0 .. T - 1 : x = l * T + m * S + i

LEMMA PatchPlaces ==
  ASSUME NEW T \in Nat \ {0}, NEW L \in Nat \ {0}, NEW I \in Nat \ {0},
         NEW S, S = L * T, NEW l \in 0 .. L - 1
  PROVE  InPatches(T, S, I, l)
<1>0. S \in Nat \ {0} /\ I \in Nat /\ I * S \in Nat
  OBVIOUS
<1>1. ASSUME NEW m \in 0 .. I - 1, NEW i \in 0 .. T - 1
      PROVE  /\ l * T + m * S + i \in 0 .. I * S - 1
             /\ ((l * T + m * S + i) % S) \div T = l
  <2> DEFINE r == l * T + i
  <2>1. r \in 0 .. S - 1 /\ r \div T = l
    BY Placed, DivisionUnique
  <2>2. l * T + m * S + i = m * S + r
    OBVIOUS
  <2> HIDE DEF r
  <2>3. m * S + r \in 0 .. I * S - 1
    BY <1>0, <2>1, Placed, Zenon
  <2>4. (m * S + r) % S = r
    <3>1. m \in Nat
      OBVIOUS
    <3> QED BY <1>0, <2>1, <3>1, DivisionUnique, Zenon
  <2> QED BY <2>1, <2>2, <2>3, <2>4
<1>2. ASSUME NEW x \in 0 .. I * S - 1, (x % S) \div T = l
      PROVE  \E m \in 0 .. I - 1, i \in 0 .. T - 1 : x = l * T + m * S + i
  <2> DEFINE m == x \div S
             r == x % S
             i == r % T
  <2>1. m \in 0 .. I - 1
    BY <1>0, QuotientBelow
  <2>2. x = m * S + r /\ r \in 0 .. S - 1
    <3>1. x \in Nat
      BY <1>0
    <3> QED BY <1>0, <3>1, Division, Zenon
  <2>3. r = l * T + i /\ i \in 0 .. T - 1
    <3> HIDE DEF m
    <3>1. r \in Nat
      BY <2>2, <1>0
    <3>2. r \div T = l
      BY <1>2
    <3> HIDE DEF r
    <3> QED BY <3>1, <3>2, Division
  <2> HIDE DEF m, r, i
  <2>4. x = l * T + m * S + i
    <3>1. m * S \in Nat /\ l * T \in Nat
      BY <1>0, <2>1
    <3> QED BY <3>1, <2>2, <2>3
  <2> QED BY <2>1, <2>3, <2>4
<1> QED BY <1>1, <1>2 DEF InPatches

(* The same in rows of n warps, each W places long.                         *)
OfLane(T, S, W, n, w, l, x) ==
  x \in 0 .. n * W - 1 /\ x \div W = w /\ ((x % W) % S) \div T = l

LEMMA WarpPlaces ==
  ASSUME NEW T \in Nat \ {0}, NEW L \in Nat \ {0}, NEW I \in Nat \ {0},
         NEW S, S = L * T, NEW W, W = I * S, NEW n \in Nat,
         NEW w \in 0 .. n - 1, NEW l \in 0 .. L - 1
  PROVE  \A x : x \in WarpSet(T, S, I, W, w, l) <=> OfLane(T, S, W, n, w, l, x)
<1>0. S \in Nat \ {0} /\ W \in Nat \ {0} /\ n * W \in Nat /\ w \in Nat
  <2>1. S \in Nat \ {0}
    OBVIOUS
  <2>2. W \in Nat \ {0}
    BY <2>1
  <2> QED BY <2>1, <2>2
<1>p. InPatches(T, S, I, l)
  BY PatchPlaces
<1>1. ASSUME NEW m \in 0 .. I - 1, NEW i \in 0 .. T - 1,
             NEW x, x = w * W + l * T + m * S + i
      PROVE  x \in 0 .. n * W - 1 /\ x \div W = w /\ ((x % W) % S) \div T = l
  <2> DEFINE y == l * T + m * S + i
  <2>1. y \in 0 .. W - 1 /\ (y % S) \div T = l
    BY <1>p DEF InPatches
  <2>2. x = w * W + y
    <3>1. w * W \in Nat /\ l * T \in Nat /\ m * S \in Nat
      BY <1>0
    <3> QED BY <1>1, <3>1
  <2> HIDE DEF y
  <2>3. w * W + y \in 0 .. n * W - 1
    BY <1>0, <2>1, Placed, Zenon
  <2>4. (w * W + y) \div W = w /\ (w * W + y) % W = y
    <3>1. w \in Nat /\ W \in Nat \ {0}
      BY <1>0
    <3> QED BY <2>1, <3>1, DivisionUnique
  <2> QED BY <2>1, <2>2, <2>3, <2>4
<1>2. ASSUME NEW x \in 0 .. n * W - 1, x \div W = w, ((x % W) % S) \div T = l
      PROVE  \E m \in 0 .. I - 1, i \in 0 .. T - 1 : x = w * W + l * T + m * S + i
  <2> DEFINE y == x % W
  <2>1. x \in Nat
    BY <1>0
  <2>2. x = (x \div W) * W + y /\ y \in 0 .. W - 1
    BY <1>0, <2>1, Division, Zenon
  <2>3. PICK m \in 0 .. I - 1, i \in 0 .. T - 1 : y = l * T + m * S + i
    <3>1. y \in 0 .. I * S - 1 /\ (y % S) \div T = l
      BY <1>2, <2>2
    <3> HIDE DEF y
    <3> QED BY <3>1, <1>p DEF InPatches
  <2>4. w * W \in Nat /\ l * T \in Nat /\ m * S \in Nat
    BY <1>0
  <2> HIDE DEF y
  <2>5. x = w * W + l * T + m * S + i
    BY <1>2, <2>2, <2>3, <2>4
  <2> QED BY <2>5
<1>3. \A x : OfLane(T, S, W, n, w, l, x) <=> IsPlace(T, S, I, W, w, l, x)
  <2>1. ASSUME NEW x, OfLane(T, S, W, n, w, l, x) PROVE IsPlace(T, S, I, W, w, l, x)
    BY <1>2, <2>1 DEF OfLane, IsPlace
  <2>2. ASSUME NEW x, IsPlace(T, S, I, W, w, l, x) PROVE OfLane(T, S, W, n, w, l, x)
    BY <1>1, <2>2 DEF OfLane, IsPlace
  <2> QED BY <2>1, <2>2
<1> QED BY <1>3, InWarpSet

(* At levels up to 7 a thread's rows or columns are T places in a row.      *)
LEMMA ThreadPlaces ==
  ASSUME NEW T \in Nat \ {0}, NEW n \in Nat, NEW w \in 0 .. n - 1
  PROVE  {w * T + i : i \in 0 .. T - 1} = {x \in 0 .. n * T - 1 : x \div T = w}
<1>1. ASSUME NEW i \in 0 .. T - 1
      PROVE  w * T + i \in 0 .. n * T - 1 /\ (w * T + i) \div T = w
  <2>1. w \in Nat
    OBVIOUS
  <2> QED BY <2>1, Placed, DivisionUnique
<1>2. ASSUME NEW x \in 0 .. n * T - 1, x \div T = w
      PROVE  \E i \in 0 .. T - 1 : x = w * T + i
  BY <1>2, Division
<1> QED BY <1>1, <1>2

-------------------------------------------------------------------------------
(* Shapes that a kernel is launched with                                    *)

Sized(s) ==
  /\ s.level \in 2 .. 8
  /\ s.M \in Nat \ {0} /\ s.N \in Nat \ {0} /\ s.K \in Nat \ {0}
  /\ s.BM \in Nat \ {0} /\ s.BN \in Nat \ {0} /\ s.BK \in Nat \ {0}
  /\ s.TM \in Nat \ {0} /\ s.TN \in Nat \ {0}
  /\ s.WM \in Nat \ {0} /\ s.WN \in Nat \ {0} /\ s.WNITER \in Nat \ {0}
  /\ s.bx \in Nat /\ s.by \in Nat

(* At level 3 a thread copies one element of A and of B: its block is square. *)
Square(s) == s.level = 3 => s.BK = s.BM /\ s.BK = s.BN /\ s.TM = 1 /\ s.TN = 1

Proper(s) ==
  /\ Sized(s)
  /\ Square(s)
  /\ IF s.level = 8 THEN DeriveOk(s) ELSE Divisible(s)

(* What deriveOk asks for makes whole warps of whole patches of whole lanes. *)
LEMMA WarpShape ==
  ASSUME NEW s, Sized(s), DeriveOk(s)
  PROVE  /\ s.BM \div s.WM \in Nat \ {0} /\ s.BM = (s.BM \div s.WM) * s.WM
         /\ s.BN \div s.WN \in Nat \ {0} /\ s.BN = (s.BN \div s.WN) * s.WN
         /\ LaneCols(s) \in Nat \ {0}
         /\ WarpSize \div LaneCols(s) \in Nat \ {0}
         /\ WarpSize = (WarpSize \div LaneCols(s)) * LaneCols(s)
         /\ WSUBN(s) = LaneCols(s) * s.TN /\ s.WN = s.WNITER * WSUBN(s)
         /\ WSUBM(s) = (WarpSize \div LaneCols(s)) * s.TM
         /\ WMITER(s) \in Nat \ {0} /\ s.WM = WMITER(s) * WSUBM(s)
<1>1. /\ s.BM \div s.WM \in Nat \ {0} /\ s.BM = (s.BM \div s.WM) * s.WM
      /\ s.BN \div s.WN \in Nat \ {0} /\ s.BN = (s.BN \div s.WN) * s.WN
  BY Multiple DEF Sized, DeriveOk
<1>2. WSUBN(s) \in Nat \ {0} /\ s.WN = WSUBN(s) * s.WNITER
  BY Multiple DEF Sized, DeriveOk, WSUBN
<1>3. LaneCols(s) \in Nat \ {0} /\ WSUBN(s) = LaneCols(s) * s.TN
  <2> HIDE DEF WSUBN
  <2> QED BY <1>2, Multiple DEF Sized, DeriveOk, LaneCols
<1>4. /\ WarpSize \div LaneCols(s) \in Nat \ {0}
      /\ WarpSize = (WarpSize \div LaneCols(s)) * LaneCols(s)
  BY <1>3, Multiple, WidthAssumption DEF DeriveOk
<1>5. WSUBM(s) = (WarpSize \div LaneCols(s)) * s.TM /\ WSUBM(s) \in Nat \ {0}
  BY <1>4 DEF WSUBM, Sized
<1>6. WMITER(s) \in Nat \ {0} /\ s.WM = WMITER(s) * WSUBM(s)
  BY <1>5, Multiple DEF Sized, DeriveOk, WMITER
<1>7. s.WN = s.WNITER * WSUBN(s)
  BY <1>2 DEF Sized
<1> QED BY <1>1, <1>3, <1>4, <1>5, <1>6, <1>7

(* Every cell of a block has one thread, wherever the matrix ends.          *)
OneOwner(s) ==
  /\ \A t \in Thread(s) : OwnedRows(s, t) \subseteq 0 .. s.BM - 1 /\ OwnedCols(s, t) \subseteq 0 .. s.BN - 1
  /\ \A r \in 0 .. s.BM - 1, c \in 0 .. s.BN - 1 :
       \E t \in Thread(s) : r \in OwnedRows(s, t) /\ c \in OwnedCols(s, t)
  /\ \A t, u \in Thread(s) : \A r, c :
       /\ r \in OwnedRows(s, t) /\ r \in OwnedRows(s, u)
       /\ c \in OwnedCols(s, t) /\ c \in OwnedCols(s, u)
       => t = u

(* Two digits determine a number. *)
LEMMA SameDigits ==
  ASSUME NEW b \in Nat \ {0}, NEW t \in Nat, NEW u \in Nat, t \div b = u \div b, t % b = u % b
  PROVE  t = u
BY Division

LEMMA ThreadOwner ==
  ASSUME NEW s, Sized(s), Divisible(s), s.level # 8
  PROVE  OneOwner(s)
<1> DEFINE m == s.BM \div s.TM
           n == s.BN \div s.TN
<1>1. /\ m \in Nat \ {0} /\ s.BM = m * s.TM /\ s.TM \in Nat \ {0}
      /\ n \in Nat \ {0} /\ s.BN = n * s.TN /\ s.TN \in Nat \ {0}
  BY Multiple DEF Sized, Divisible
<1>2. Thread(s) = 0 .. m * n - 1
  BY DEF Thread, ThreadsPerBlock
<1>3. ASSUME NEW t \in Thread(s)
      PROVE  /\ t \in Nat /\ t \div n \in 0 .. m - 1 /\ t % n \in 0 .. n - 1
             /\ OwnedRows(s, t) = {r \in 0 .. s.BM - 1 : r \div s.TM = t \div n}
             /\ OwnedCols(s, t) = {c \in 0 .. s.BN - 1 : c \div s.TN = t % n}
  <2>1. OwnedRows(s, t) = {(t \div n) * s.TM + i : i \in 0 .. s.TM - 1}
    BY DEF OwnedRows
  <2>2. OwnedCols(s, t) = {(t % n) * s.TN + i : i \in 0 .. s.TN - 1}
    BY DEF OwnedCols
  <2> HIDE DEF m, n
  <2>3. t \in 0 .. m * n - 1 /\ m * n \in Nat /\ t \in Nat
    BY <1>1, <1>2
  <2>4. t \div n \in 0 .. m - 1
    BY <1>1, <2>3, QuotientBelow
  <2>5. t % n \in 0 .. n - 1
    BY <1>1, <2>3, Division
  <2>6. {(t \div n) * s.TM + i : i \in 0 .. s.TM - 1}
          = {r \in 0 .. m * s.TM - 1 : r \div s.TM = t \div n}
    BY <1>1, <2>4, ThreadPlaces
  <2>7. {(t % n) * s.TN + i : i \in 0 .. s.TN - 1}
          = {c \in 0 .. n * s.TN - 1 : c \div s.TN = t % n}
    BY <1>1, <2>5, ThreadPlaces
  <2> QED BY <1>1, <2>1, <2>2, <2>3, <2>4, <2>5, <2>6, <2>7
<1> HIDE DEF m, n
<1>4. ASSUME NEW r \in 0 .. s.BM - 1, NEW c \in 0 .. s.BN - 1
      PROVE  \E t \in Thread(s) : r \in OwnedRows(s, t) /\ c \in OwnedCols(s, t)
  <2> DEFINE a == r \div s.TM
             b == c \div s.TN
             t == a * n + b
  <2>1. a \in 0 .. m - 1 /\ b \in 0 .. n - 1
    BY <1>1, QuotientBelow
  <2> HIDE DEF a, b
  <2>2. t \in 0 .. m * n - 1 /\ t \div n = a /\ t % n = b
    <3>1. m \in Nat \ {0} /\ n \in Nat \ {0}
      BY <1>1
    <3> QED BY <2>1, <3>1, TwoDigits
  <2> HIDE DEF t
  <2>3. t \in Thread(s)
    BY <1>2, <2>2
  <2> QED BY <1>3, <2>2, <2>3 DEF a, b
<1>5. ASSUME NEW t \in Thread(s), NEW u \in Thread(s), NEW r, NEW c,
             r \in OwnedRows(s, t), r \in OwnedRows(s, u),
             c \in OwnedCols(s, t), c \in OwnedCols(s, u)
      PROVE  t = u
  <2>1. t \div n = u \div n /\ t % n = u % n
    BY <1>3, <1>5
  <2> QED BY <1>1, <1>3, <2>1, SameDigits
<1>6. \A t \in Thread(s) : OwnedRows(s, t) \subseteq 0 .. s.BM - 1 /\ OwnedCols(s, t) \subseteq 0 .. s.BN - 1
  BY <1>3
<1> QED BY <1>4, <1>5, <1>6 DEF OneOwner

LEMMA WarpOwner ==
  ASSUME NEW s, Sized(s), DeriveOk(s), s.level = 8
  PROVE  OneOwner(s)
<1> DEFINE m == s.BM \div s.WM
           n == s.BN \div s.WN
           rows == WarpSize \div LaneCols(s)
           cols == LaneCols(s)
           warpRow(t) == (t \div WarpSize) \div n
           warpCol(t) == (t \div WarpSize) % n
           laneRow(t) == (t % WarpSize) \div cols
           laneCol(t) == (t % WarpSize) % cols
<1>1. /\ m \in Nat \ {0} /\ s.BM = m * s.WM
      /\ n \in Nat \ {0} /\ s.BN = n * s.WN
      /\ cols \in Nat \ {0} /\ rows \in Nat \ {0} /\ WarpSize = rows * cols
      /\ WSUBN(s) = cols * s.TN /\ s.WN = s.WNITER * WSUBN(s)
      /\ WSUBM(s) = rows * s.TM /\ WMITER(s) \in Nat \ {0} /\ s.WM = WMITER(s) * WSUBM(s)
  BY WarpShape
<1>2. /\ s.TM \in Nat \ {0} /\ s.TN \in Nat \ {0} /\ s.WNITER \in Nat \ {0}
      /\ WarpSize \in Nat \ {0} /\ s.WM \in Nat \ {0} /\ s.WN \in Nat \ {0}
      /\ WSUBM(s) \in Nat \ {0} /\ WSUBN(s) \in Nat \ {0}
  <2>1. /\ s.TM \in Nat \ {0} /\ s.TN \in Nat \ {0} /\ s.WNITER \in Nat \ {0}
        /\ WarpSize \in Nat \ {0} /\ s.WM \in Nat \ {0} /\ s.WN \in Nat \ {0}
    BY WidthAssumption DEF Sized
  <2> HIDE DEF m, n, rows, cols
  <2> QED BY <1>1, <2>1
<1>3. Thread(s) = 0 .. m * n * WarpSize - 1
  BY DEF Thread, ThreadsPerBlock
<1>4. ASSUME NEW t \in Thread(s)
      PROVE  /\ t \in Nat /\ t \div WarpSize \in 0 .. m * n - 1
             /\ warpRow(t) \in 0 .. m - 1 /\ warpCol(t) \in 0 .. n - 1
             /\ t % WarpSize \in 0 .. rows * cols - 1
             /\ laneRow(t) \in 0 .. rows - 1 /\ laneCol(t) \in 0 .. cols - 1
  <2> HIDE DEF m, n, rows, cols
  <2>1. m * n \in Nat /\ m * n * WarpSize \in Nat
    BY <1>1, <1>2
  <2>2. t \in Nat /\ t \in 0 .. (m * n) * WarpSize - 1
    BY <1>3, <2>1
  <2>3. t \div WarpSize \in 0 .. m * n - 1
    BY <1>2, <2>1, <2>2, QuotientBelow
  <2>4. t % WarpSize \in 0 .. rows * cols - 1
    BY <1>1, <1>2, <2>2, Division
  <2>5. warpRow(t) \in 0 .. m - 1 /\ laneRow(t) \in 0 .. rows - 1
    BY <1>1, <2>3, <2>4, QuotientBelow
  <2>6. warpCol(t) \in 0 .. n - 1 /\ laneCol(t) \in 0 .. cols - 1
    <3>1. t \div WarpSize \in Nat /\ t % WarpSize \in Nat
      BY <2>2, <1>2, DivisionType, Zenon
    <3> QED BY <1>1, <3>1, Division
  <2> QED BY <2>2, <2>3, <2>4, <2>5, <2>6
<1>5. ASSUME NEW t \in Thread(s)
      PROVE  /\ \A r : r \in OwnedRows(s, t) <=>
                         OfLane(s.TM, WSUBM(s), s.WM, m, warpRow(t), laneRow(t), r)
             /\ \A c : c \in OwnedCols(s, t) <=>
                         OfLane(s.TN, WSUBN(s), s.WN, n, warpCol(t), laneCol(t), c)
  <2>1. OwnedRows(s, t) = WarpSet(s.TM, WSUBM(s), WMITER(s), s.WM, warpRow(t), laneRow(t))
    BY DEF OwnedRows, WarpSet
  <2>2. OwnedCols(s, t) = WarpSet(s.TN, WSUBN(s), s.WNITER, s.WN, warpCol(t), laneCol(t))
    BY DEF OwnedCols, WarpSet
  <2> HIDE DEF m, n, rows, cols, warpRow, warpCol, laneRow, laneCol
  <2>3. \A r : r \in WarpSet(s.TM, WSUBM(s), WMITER(s), s.WM, warpRow(t), laneRow(t)) <=>
                 OfLane(s.TM, WSUBM(s), s.WM, m, warpRow(t), laneRow(t), r)
    BY <1>1, <1>2, <1>4, WarpPlaces
  <2>4. \A c : c \in WarpSet(s.TN, WSUBN(s), s.WNITER, s.WN, warpCol(t), laneCol(t)) <=>
                 OfLane(s.TN, WSUBN(s), s.WN, n, warpCol(t), laneCol(t), c)
    BY <1>1, <1>2, <1>4, WarpPlaces
  <2> QED BY <2>1, <2>2, <2>3, <2>4
<1>6. \A t \in Thread(s) : OwnedRows(s, t) \subseteq 0 .. s.BM - 1 /\ OwnedCols(s, t) \subseteq 0 .. s.BN - 1
  <2> HIDE DEF m, n, rows, cols, warpRow, warpCol, laneRow, laneCol
  <2> QED BY <1>1, <1>5 DEF OfLane
<1>7. ASSUME NEW r \in 0 .. s.BM - 1, NEW c \in 0 .. s.BN - 1
      PROVE  \E t \in Thread(s) : r \in OwnedRows(s, t) /\ c \in OwnedCols(s, t)
  <2> DEFINE wr == r \div s.WM
             wc == c \div s.WN
             lr == ((r % s.WM) % WSUBM(s)) \div s.TM
             lc == ((c % s.WN) % WSUBN(s)) \div s.TN
             w == wr * n + wc
             l == lr * cols + lc
             t == w * WarpSize + l
  <2> HIDE DEF m, n, rows, cols
  <2>1. wr \in 0 .. m - 1 /\ wc \in 0 .. n - 1
    BY <1>1, <1>2, QuotientBelow
  <2>2. lr \in 0 .. rows - 1
    <3>1. r \in Nat
      OBVIOUS
    <3>2. r % s.WM \in Nat
      BY <1>2, <3>1, DivisionType, Zenon
    <3>3. (r % s.WM) % WSUBM(s) \in 0 .. rows * s.TM - 1
      BY <1>1, <1>2, <3>2, Division
    <3> QED BY <1>1, <1>2, <3>3, QuotientBelow
  <2>3. lc \in 0 .. cols - 1
    <3>1. c \in Nat
      OBVIOUS
    <3>2. c % s.WN \in Nat
      BY <1>2, <3>1, DivisionType, Zenon
    <3>3. (c % s.WN) % WSUBN(s) \in 0 .. cols * s.TN - 1
      BY <1>1, <1>2, <3>2, Division
    <3> QED BY <1>1, <1>2, <3>3, QuotientBelow
  <2>4. OfLane(s.TM, WSUBM(s), s.WM, m, wr, lr, r) /\ OfLane(s.TN, WSUBN(s), s.WN, n, wc, lc, c)
    BY <1>1 DEF OfLane
  <2> HIDE DEF wr, wc, lr, lc
  <2>5. w \in 0 .. m * n - 1 /\ w \div n = wr /\ w % n = wc
    <3>1. n \in Nat \ {0} /\ m \in Nat \ {0}
      BY <1>1
    <3>2. wr * n + wc \in 0 .. m * n - 1 /\ (wr * n + wc) \div n = wr /\ (wr * n + wc) % n = wc
      BY ONLY <2>1, <3>1, TwoDigits
    <3> QED BY <3>2
  <2>6. l \in 0 .. WarpSize - 1 /\ l \div cols = lr /\ l % cols = lc
    <3>1. cols \in Nat \ {0} /\ rows \in Nat \ {0}
      BY <1>1
    <3>2. /\ lr * cols + lc \in 0 .. rows * cols - 1
          /\ (lr * cols + lc) \div cols = lr /\ (lr * cols + lc) % cols = lc
      BY ONLY <2>2, <2>3, <3>1, TwoDigits
    <3> QED BY <1>1, <3>2
  <2> HIDE DEF w, l
  <2>7. t \in 0 .. m * n * WarpSize - 1 /\ t \div WarpSize = w /\ t % WarpSize = l
    <3>1. m * n \in Nat /\ w \in Nat
      BY <1>1, <2>5
    <3> QED BY <1>2, <2>5, <2>6, <3>1, Placed, DivisionUnique
  <2> HIDE DEF t
  <2>8. t \in Thread(s) /\ warpRow(t) = wr /\ warpCol(t) = wc /\ laneRow(t) = lr /\ laneCol(t) = lc
    BY <1>3, <2>5, <2>6, <2>7
  <2> HIDE DEF warpRow, warpCol, laneRow, laneCol
  <2> QED BY <1>5, <2>4, <2>8
<1>8. ASSUME NEW t \in Thread(s), NEW u \in Thread(s), NEW r, NEW c,
             r \in OwnedRows(s, t), r \in OwnedRows(s, u),
             c \in OwnedCols(s, t), c \in OwnedCols(s, u)
      PROVE  t = u
  <2>1. /\ warpRow(t) = warpRow(u) /\ warpCol(t) = warpCol(u)
        /\ laneRow(t) = laneRow(u) /\ laneCol(t) = laneCol(u)
    <3> HIDE DEF m, n, rows, cols, warpRow, warpCol, laneRow, laneCol
    <3> QED BY <1>5, <1>8 DEF OfLane
  <2> HIDE DEF m, n, rows, cols
  <2>2. /\ t \in Nat /\ t \div WarpSize \in Nat /\ t % WarpSize \in Nat
        /\ u \in Nat /\ u \div WarpSize \in Nat /\ u % WarpSize \in Nat
    BY <1>2, <1>4, Division
  <2>3. t \div WarpSize = u \div WarpSize
    BY <1>1, <2>1, <2>2, SameDigits
  <2>4. t % WarpSize = u % WarpSize
    BY <1>1, <2>1, <2>2, SameDigits
  <2> QED BY <1>2, <2>2, <2>3, <2>4, SameDigits
<1> QED BY <1>6, <1>7, <1>8 DEF OneOwner

LEMMA ProperOwner ==
  ASSUME NEW s, Proper(s)
  PROVE  OneOwner(s) /\ OwnedOnce(s)
<1>1. OneOwner(s)
  BY ThreadOwner, WarpOwner DEF Proper
<1>2. UNION {Owned(s, t) : t \in Thread(s)} = Cells(s)
  BY <1>1 DEF OneOwner, Owned, RowsInBounds, ColsInBounds, Cells
<1>3. ASSUME NEW t \in Thread(s), NEW u \in Thread(s), t < u
      PROVE  \/ RowsInBounds(s, t) \cap RowsInBounds(s, u) = {}
             \/ ColsInBounds(s, t) \cap ColsInBounds(s, u) = {}
  <2>1. t # u
    BY <1>3 DEF Thread
  <2> QED BY <1>1, <2>1 DEF OneOwner, RowsInBounds, ColsInBounds
<1> QED BY <1>1, <1>2, <1>3 DEF OwnedOnce

-------------------------------------------------------------------------------
(* Copies to shared memory                                                  *)

(* A row of C elements is loaded W at a time: n loads to a row:     *)
(* where load l of R rows starts, *)
(* and which load brings an element.                                        *)
InLoads(R, C, W, n, size) ==
  /\ \A l \in 0 .. size - 1 :
       /\ l \div n \in 0 .. R - 1
       /\ \A q \in 0 .. W - 1 : (l % n) * W + q \in 0 .. C - 1
  /\ \A r \in 0 .. R - 1, k \in 0 .. C - 1 :
       \E l \in 0 .. size - 1, q \in 0 .. W - 1 :
         l \div n = r /\ (l % n) * W + q = k

LEMMA LoadPlaces ==
  ASSUME NEW R \in Nat \ {0}, NEW n \in Nat \ {0}, NEW W \in Nat \ {0}
  PROVE  InLoads(R, n * W, W, n, R * n)
<1>1. ASSUME NEW l \in 0 .. R * n - 1
      PROVE  l \div n \in 0 .. R - 1 /\ \A q \in 0 .. W - 1 : (l % n) * W + q \in 0 .. n * W - 1
  <2>1. l \in Nat /\ R \in Nat
    OBVIOUS
  <2>2. l \div n \in 0 .. R - 1
    BY <2>1, QuotientBelow
  <2>3. l % n \in 0 .. n - 1
    BY <2>1, Division
  <2>4. ASSUME NEW q \in 0 .. W - 1
        PROVE  (l % n) * W + q \in 0 .. n * W - 1
    BY <2>3, TwoDigits, Zenon
  <2> QED BY <2>2, <2>4
<1>2. ASSUME NEW r \in 0 .. R - 1, NEW k \in 0 .. n * W - 1
      PROVE  \E l \in 0 .. R * n - 1, q \in 0 .. W - 1 : l \div n = r /\ (l % n) * W + q = k
  <2> DEFINE v == k \div W
             q == k % W
             l == r * n + v
  <2>1. k \in Nat
    OBVIOUS
  <2>2. v \in 0 .. n - 1
    BY QuotientBelow
  <2>3. q \in 0 .. W - 1 /\ k = v * W + q
    BY <2>1, Division
  <2> HIDE DEF v, q
  <2>4. l \in 0 .. R * n - 1 /\ l \div n = r /\ l % n = v
    BY <2>2, TwoDigits
  <2> HIDE DEF l
  <2> QED BY <2>3, <2>4
<1> QED BY <1>1, <1>2 DEF InLoads

(* Threads of a block that take turns load each of `size` once, whether they *)
(* go on to the end or have a fixed number of turns.                        *)
LEMMA StridedLoads ==
  ASSUME NEW s, ThreadsPerBlock(s) \in Nat \ {0}, NEW size \in Nat
  PROVE  /\ \A t \in Thread(s) : Strided(s, t, size) \subseteq 0 .. size - 1
         /\ \A l \in 0 .. size - 1 : \E t \in Thread(s) : l \in Strided(s, t, size)
<1> DEFINE T == ThreadsPerBlock(s)
<1>1. T \in Nat \ {0} /\ Thread(s) = 0 .. T - 1
      /\ \A t : Strided(s, t, size) = {t + i * T : i \in 0 .. (size - 1 - t) \div T}
  BY DEF Thread, Strided
<1> HIDE DEF T
<1>2. ASSUME NEW t \in 0 .. T - 1, NEW i \in 0 .. (size - 1 - t) \div T
      PROVE  t + i * T \in 0 .. size - 1
  <2> DEFINE n == (size - 1 - t) \div T
  <2>1. n \in Int /\ n * T <= size - 1 - t
    BY <1>1
  <2> HIDE DEF n
  <2>2. i \in Nat /\ i <= n
    BY <2>1 DEF n
  <2>3. i * T <= n * T /\ i * T \in Nat /\ n * T \in Int
    BY <1>1, <2>1, <2>2
  <2> QED BY <1>1, <2>1, <2>3
<1>3. ASSUME NEW l \in 0 .. size - 1
      PROVE  \E t \in 0 .. T - 1 : \E i \in 0 .. (size - 1 - t) \div T : l = t + i * T
  <2> DEFINE t == l % T
             i == l \div T
  <2>1. t \in 0 .. T - 1 /\ i \in Nat /\ l = i * T + t
    <3>1. l \in Nat
      OBVIOUS
    <3> QED BY <1>1, <3>1, Division
  <2> HIDE DEF t, i
  <2>2. i <= (size - 1 - t) \div T
    <3>1. i * T <= size - 1 - t
      BY <1>1, <2>1
    <3> QED BY <1>1, <2>1, <3>1
  <2>3. i \in 0 .. (size - 1 - t) \div T
    BY <1>1, <2>1, <2>2
  <2>4. l = t + i * T
    BY <1>1, <2>1
  <2> QED BY <2>1, <2>3, <2>4
<1>4. ASSUME NEW t \in Thread(s), NEW x \in Strided(s, t, size)
      PROVE  x \in 0 .. size - 1
  <2>1. PICK i \in 0 .. (size - 1 - t) \div T : x = t + i * T
    BY <1>1
  <2> QED BY <1>1, <1>2, <2>1
<1>5. ASSUME NEW l \in 0 .. size - 1
      PROVE  \E t \in Thread(s) : l \in Strided(s, t, size)
  <2>1. PICK t \in 0 .. T - 1 : \E i \in 0 .. (size - 1 - t) \div T : l = t + i * T
    BY <1>3
  <2>2. l \in {t + i * T : i \in 0 .. (size - 1 - t) \div T}
    BY <2>1
  <2> QED BY <1>1, <2>1, <2>2
<1> QED BY <1>4, <1>5

LEMMA UnrolledLoads ==
  ASSUME NEW s, ThreadsPerBlock(s) \in Nat \ {0}, NEW size \in Nat
  PROVE  /\ \A t \in Thread(s) : Unrolled(s, t, size) \subseteq 0 .. size - 1
         /\ \A l \in 0 .. size - 1 : \E t \in Thread(s) : l \in Unrolled(s, t, size)
<1> DEFINE T == ThreadsPerBlock(s)
           slots == (size + T - 1) \div T
           Turns(t) == {i \in 0 .. slots - 1 : (i + 1) * T > size => t + i * T < size}
<1>1. T \in Nat \ {0} /\ Thread(s) = 0 .. T - 1
      /\ \A t : Unrolled(s, t, size) = {t + i * T : i \in Turns(t)}
  BY DEF Thread, Unrolled
<1> HIDE DEF T
<1>2. slots \in Nat
  BY <1>1
<1>3. ASSUME NEW t \in 0 .. T - 1, NEW i \in Turns(t)
      PROVE  t + i * T \in 0 .. size - 1
  <2>1. i \in Nat /\ i * T \in Nat /\ (i + 1) * T = i * T + T
    BY <1>1, <1>2
  <2> QED BY <1>1, <2>1
<1>4. ASSUME NEW l \in 0 .. size - 1
      PROVE  \E t \in 0 .. T - 1 : \E i \in Turns(t) : l = t + i * T
  <2> DEFINE t == l % T
             i == l \div T
  <2>1. t \in 0 .. T - 1 /\ i \in Nat /\ l = i * T + t
    <3>1. l \in Nat
      OBVIOUS
    <3> QED BY <1>1, <3>1, Division
  <2> HIDE DEF t, i
  <2>2. i < slots
    <3>1. size + T - 1 \in Nat /\ (i + 1) * T = i * T + T /\ i * T \in Nat
      BY <1>1, <2>1
    <3>2. (i + 1) * T <= size + T - 1
      BY <1>1, <2>1, <3>1
    <3>3. i + 1 <= (size + T - 1) \div T
      BY <1>1, <2>1, <3>1, <3>2
    <3> QED BY <1>2, <2>1, <3>3
  <2>3. l = t + i * T
    BY <1>1, <2>1
  <2>4. i \in Turns(t)
    BY <1>2, <2>1, <2>2, <2>3
  <2> HIDE DEF Turns
  <2> QED BY <2>1, <2>3, <2>4
<1>5. ASSUME NEW t \in Thread(s), NEW x \in Unrolled(s, t, size)
      PROVE  x \in 0 .. size - 1
  <2> HIDE DEF Turns
  <2>1. PICK i \in Turns(t) : x = t + i * T
    BY <1>1
  <2> QED BY <1>1, <1>3, <2>1
<1>6. ASSUME NEW l \in 0 .. size - 1
      PROVE  \E t \in Thread(s) : l \in Unrolled(s, t, size)
  <2> HIDE DEF Turns
  <2>1. PICK t \in 0 .. T - 1 : \E i \in Turns(t) : l = t + i * T
    BY <1>4
  <2>2. l \in {t + i * T : i \in Turns(t)}
    BY <2>1
  <2> QED BY <1>1, <2>1, <2>2
<1> QED BY <1>5, <1>6

LEMMA ShapeLoads ==
  ASSUME NEW s, Proper(s), s.level >= 3
  PROVE  /\ Width(s) \in Nat \ {0} /\ ThreadsPerBlock(s) \in Nat \ {0}
         /\ s.BK \div Width(s) \in Nat \ {0} /\ s.BN \div Width(s) \in Nat \ {0}
         /\ SizeA(s) \in Nat /\ InLoads(s.BM, s.BK, Width(s), s.BK \div Width(s), SizeA(s))
         /\ SizeB(s) \in Nat /\ InLoads(s.BK, s.BN, Width(s), s.BN \div Width(s), SizeB(s))
<1>0. Sized(s)
  BY DEF Proper
<1>1. Width(s) \in Nat \ {0}
  BY WidthAssumption DEF Width
<1>2. s.BK % Width(s) = 0 /\ s.BN % Width(s) = 0
  <2>1. CASE s.level >= 6
    BY <2>1 DEF Width, Proper, Divisible, DeriveOk
  <2>2. CASE ~(s.level >= 6)
    <3>1. Width(s) = 1
      BY <2>2 DEF Width
    <3> QED BY <1>0, <3>1 DEF Sized
  <2> QED BY <2>1, <2>2
<1>3. ThreadsPerBlock(s) \in Nat \ {0}
  <2>1. CASE s.level = 8
    <3>1. s.BM \div s.WM \in Nat \ {0} /\ s.BN \div s.WN \in Nat \ {0}
      BY <1>0, <2>1, WarpShape DEF Proper
    <3>2. \A m, n \in Nat \ {0} : m * n * WarpSize \in Nat \ {0}
      BY WidthAssumption
    <3>3. ThreadsPerBlock(s) = (s.BM \div s.WM) * (s.BN \div s.WN) * WarpSize
      BY <2>1 DEF ThreadsPerBlock
    <3> QED BY <3>1, <3>2, <3>3
  <2>2. CASE s.level # 8
    <3>1. s.BM \div s.TM \in Nat \ {0} /\ s.BN \div s.TN \in Nat \ {0}
      BY <1>0, <2>2, Multiple DEF Proper, Divisible, Sized
    <3>2. \A m, n \in Nat \ {0} : m * n \in Nat \ {0}
      OBVIOUS
    <3>3. ThreadsPerBlock(s) = (s.BM \div s.TM) * (s.BN \div s.TN)
      BY <2>2 DEF ThreadsPerBlock
    <3> QED BY <3>1, <3>2, <3>3
  <2> QED BY <2>1, <2>2
<1>4. ASSUME NEW R \in Nat \ {0}, NEW C \in Nat \ {0}, C % Width(s) = 0,
             NEW size, size = (R * C) \div Width(s)
      PROVE  size \in Nat /\ InLoads(R, C, Width(s), C \div Width(s), size)
  <2> DEFINE W == Width(s)
             n == C \div W
  <2>1. n \in Nat \ {0} /\ C = n * W
    BY <1>1, <1>4, Multiple
  <2> HIDE DEF n, W
  <2>2. size = R * n
    <3>1. W \in Nat \ {0} /\ size = (R * C) \div W
      BY <1>1, <1>4 DEF W
    <3>2. R * C = (R * n) * W + 0 /\ R * n \in Nat /\ 0 \in 0 .. W - 1
      BY <2>1, <3>1
    <3>3. ((R * n) * W + 0) \div W = R * n
      BY <3>1, <3>2, DivisionUnique, Zenon
    <3> QED BY <3>1, <3>2, <3>3
  <2>3. InLoads(R, n * W, W, n, R * n)
    BY <1>1, <2>1, LoadPlaces DEF W
  <2>4. R * n \in Nat
    BY <2>1
  <2> QED BY <2>1, <2>2, <2>3, <2>4 DEF n, W
<1>5. SizeA(s) \in Nat /\ InLoads(s.BM, s.BK, Width(s), s.BK \div Width(s), SizeA(s))
  BY <1>0, <1>2, <1>4 DEF Sized, SizeA
<1>6. SizeB(s) \in Nat /\ InLoads(s.BK, s.BN, Width(s), s.BN \div Width(s), SizeB(s))
  BY <1>0, <1>2, <1>4 DEF Sized, SizeB
<1>7. s.BK \div Width(s) \in Nat \ {0} /\ s.BN \div Width(s) \in Nat \ {0}
  BY <1>0, <1>1, <1>2, Multiple DEF Sized
<1> QED BY <1>1, <1>3, <1>5, <1>6, <1>7

(* Threads that make all the loads between them fill all that is multiplied, *)
(* and nothing beyond the buffers.                                          *)
LEMMA LoadsCover ==
  ASSUME NEW s, Proper(s), s.level >= 3, NEW k0 \in Nat, NEW a, NEW b,
         \A t \in Thread(s) : a[t] \subseteq 0 .. SizeA(s) - 1 /\ b[t] \subseteq 0 .. SizeB(s) - 1,
         \A l \in 0 .. SizeA(s) - 1 : \E t \in Thread(s) : l \in a[t],
         \A l \in 0 .. SizeB(s) - 1 : \E t \in Thread(s) : l \in b[t]
  PROVE  Covers(s, k0, UNION {Filled(s, StartsA(s, a[t]), StartsB(s, b[t]), k0) : t \in Thread(s)})
<1> DEFINE W == Width(s)
           nA == s.BK \div W
           nB == s.BN \div W
           Copies(t) == Filled(s, StartsA(s, a[t]), StartsB(s, b[t]), k0)
           copied == UNION {Copies(t) : t \in Thread(s)}
<1>1. /\ W \in Nat \ {0} /\ nA \in Nat \ {0} /\ nB \in Nat \ {0}
      /\ InLoads(s.BM, s.BK, W, nA, SizeA(s)) /\ InLoads(s.BK, s.BN, W, nB, SizeB(s))
  BY ShapeLoads
<1>2. /\ \A t : StartsA(s, a[t]) = {<<l \div nA, (l % nA) * W>> : l \in a[t]}
      /\ \A t : StartsB(s, b[t]) = {<<l \div nB, (l % nB) * W>> : l \in b[t]}
  BY DEF StartsA, StartsB
<1>3. /\ \A l \in 0 .. SizeA(s) - 1 : l \in Nat
      /\ \A l \in 0 .. SizeB(s) - 1 : l \in Nat
  BY ShapeLoads
<1>4. OneOwner(s) /\ s.K \in Nat
  BY ProperOwner DEF Proper, Sized
<1> HIDE DEF W, nA, nB
<1>5. ASSUME NEW t \in Thread(s), NEW slot \in Copies(t)
      PROVE  slot \in Slots(s)
  <2>1. CASE \E e \in StartsA(s, a[t]), q \in 0 .. W - 1 : slot = <<"A", e[1], e[2] + q>>
    <3>0. PICK e \in StartsA(s, a[t]), q \in 0 .. W - 1 : slot = <<"A", e[1], e[2] + q>>
      BY <2>1
    <3>1. PICK l \in a[t] : slot = <<"A", l \div nA, (l % nA) * W + q>>
      <4>1. PICK l \in a[t] : e = <<l \div nA, (l % nA) * W>>
        BY <1>2
      <4>2. e[1] = l \div nA /\ e[2] = (l % nA) * W
        BY <4>1
      <4> QED BY <3>0, <4>2
    <3>2. l \in 0 .. SizeA(s) - 1
      OBVIOUS
    <3>3. l \div nA \in 0 .. s.BM - 1 /\ (l % nA) * W + q \in 0 .. s.BK - 1
      BY <1>1, <3>2 DEF InLoads
    <3> QED BY <3>1, <3>3 DEF Slots
  <2>2. CASE \E e \in StartsB(s, b[t]), q \in 0 .. W - 1 : slot = <<"B", e[1], e[2] + q>>
    <3>0. PICK e \in StartsB(s, b[t]), q \in 0 .. W - 1 : slot = <<"B", e[1], e[2] + q>>
      BY <2>2
    <3>1. PICK l \in b[t] : slot = <<"B", l \div nB, (l % nB) * W + q>>
      <4>1. PICK l \in b[t] : e = <<l \div nB, (l % nB) * W>>
        BY <1>2
      <4>2. e[1] = l \div nB /\ e[2] = (l % nB) * W
        BY <4>1
      <4> QED BY <3>0, <4>2
    <3>2. l \in 0 .. SizeB(s) - 1
      OBVIOUS
    <3>3. l \div nB \in 0 .. s.BK - 1 /\ (l % nB) * W + q \in 0 .. s.BN - 1
      BY <1>1, <3>2 DEF InLoads
    <3> QED BY <3>1, <3>3 DEF Slots
  <2> QED BY <2>1, <2>2 DEF Filled, W
<1>6. ASSUME NEW r \in 0 .. s.BM - 1, NEW k \in 0 .. s.BK - 1,
             RowInBounds(s, r), KInBounds(s, k0 + k)
      PROVE  <<"A", r, k>> \in copied
  <2>1. PICK l \in 0 .. SizeA(s) - 1, q \in 0 .. W - 1 : l \div nA = r /\ (l % nA) * W + q = k
    BY <1>1 DEF InLoads
  <2>2. PICK t \in Thread(s) : l \in a[t]
    OBVIOUS
  <2> DEFINE e == <<r, (l % nA) * W>>
  <2>3. e \in StartsA(s, a[t])
    BY <1>2, <2>1, <2>2
  <2>4. e[1] = r /\ e[2] + q = k
    BY <2>1
  <2>5. KInBounds(s, k0 + e[2])
    <3>1. l % nA \in Nat
      BY <1>1, <1>3, DivisionType
    <3>2. (l % nA) * W \in Nat
      BY <1>1, <3>1
    <3> HIDE DEF e
    <3>3. k0 + e[2] <= k0 + k
      BY <2>1, <2>4, <3>2 DEF e
    <3> QED BY <1>4, <1>6, <2>1, <3>2, <3>3 DEF KInBounds, e
  <2> HIDE DEF e
  <2>6. <<"A", r, k>> \in Copies(t)
    BY <1>6, <2>3, <2>4, <2>5 DEF Filled, W
  <2> QED BY <2>6
<1>7. ASSUME NEW k \in 0 .. s.BK - 1, NEW c \in 0 .. s.BN - 1,
             ColInBounds(s, c), KInBounds(s, k0 + k)
      PROVE  <<"B", k, c>> \in copied
  <2>1. PICK l \in 0 .. SizeB(s) - 1, q \in 0 .. W - 1 : l \div nB = k /\ (l % nB) * W + q = c
    BY <1>1 DEF InLoads
  <2>2. PICK t \in Thread(s) : l \in b[t]
    OBVIOUS
  <2> DEFINE e == <<k, (l % nB) * W>>
  <2>3. e \in StartsB(s, b[t])
    BY <1>2, <2>1, <2>2
  <2>4. e[1] = k /\ e[2] + q = c
    BY <2>1
  <2>5. ColInBounds(s, e[2])
    <3>1. l % nB \in Nat
      BY <1>1, <1>3, DivisionType
    <3>2. (l % nB) * W \in Nat
      BY <1>1, <3>1
    <3>3. e[2] <= c /\ e[2] \in Nat
      BY <2>1, <2>4, <3>2
    <3>4. s.bx * s.BN \in Nat /\ s.N \in Nat
      BY DEF Proper, Sized
    <3> HIDE DEF e
    <3> QED BY <1>7, <3>3, <3>4 DEF ColInBounds
  <2> HIDE DEF e
  <2>6. <<"B", k, c>> \in Copies(t)
    BY <1>7, <2>3, <2>4, <2>5 DEF Filled, W
  <2> QED BY <2>6
<1>8. copied \subseteq Slots(s)
  <2> HIDE DEF Copies
  <2> QED BY <1>5
<1>9. ASSUME NEW t \in Thread(s), NEW k \in 0 .. s.BK - 1, KInBounds(s, k0 + k)
      PROVE  Needed(s, t, k) \subseteq copied
  <2> SUFFICES ASSUME NEW slot \in Needed(s, t, k) PROVE slot \in copied
    OBVIOUS
  <2>1. PICK cell \in Owned(s, t) : slot = <<"A", cell[1], k>> \/ slot = <<"B", k, cell[2]>>
    BY DEF Needed
  <2>2. /\ cell[1] \in 0 .. s.BM - 1 /\ RowInBounds(s, cell[1])
        /\ cell[2] \in 0 .. s.BN - 1 /\ ColInBounds(s, cell[2])
    BY <1>4 DEF Owned, RowsInBounds, ColsInBounds, OneOwner
  <2> HIDE DEF copied
  <2> QED BY <1>6, <1>7, <1>9, <2>1, <2>2
<1> QED BY <1>8, <1>9 DEF Covers

(* At level 3 a thread's own place is its load, of A and of B. *)
LEMMA SquareLoads ==
  ASSUME NEW s, Proper(s), s.level = 3, NEW t \in Thread(s), NEW k0
  PROVE  /\ Stored(s, t, k0) = Filled(s, StartsA(s, {t}), StartsB(s, {t}), k0)
         /\ SizeA(s) = ThreadsPerBlock(s) /\ SizeB(s) = ThreadsPerBlock(s)
<1>1. /\ s.BM \in Nat \ {0} /\ s.BN = s.BM /\ s.BK = s.BM /\ s.TM = 1 /\ s.TN = 1
      /\ Width(s) = 1
  BY DEF Proper, Sized, Square, Width
<1>2. \A n \in Nat : n \div 1 = n
  OBVIOUS
<1>3. ThreadsPerBlock(s) = s.BM * s.BM /\ s.BM * s.BM \in Nat
  BY <1>1, <1>2 DEF ThreadsPerBlock
<1>4. SizeA(s) = ThreadsPerBlock(s) /\ SizeB(s) = ThreadsPerBlock(s)
  BY <1>1, <1>2, <1>3 DEF SizeA, SizeB
<1>5. t \in Nat
  BY <1>3 DEF Thread
<1>6. t % s.BM \in Nat
  BY <1>1, <1>5, DivisionType
<1>7. StartsA(s, {t}) = {<<t \div s.BN, t % s.BN>>} /\ StartsB(s, {t}) = {<<t \div s.BN, t % s.BN>>}
  BY <1>1, <1>2, <1>6 DEF StartsA, StartsB
<1> QED BY <1>4, <1>7 DEF Stored

LEMMA ProperCovers ==
  ASSUME NEW s, Proper(s)
  PROVE  CoversAll(s)
<1>1. ASSUME NEW i \in 0 .. Tiles(s) - 1
      PROVE  i * s.BK \in Nat
  BY DEF Proper, Sized
<1> SUFFICES ASSUME NEW k0 \in {i * s.BK : i \in 0 .. Tiles(s) - 1}, s.level >= 3
             PROVE  /\ Covers(s, k0, UNION {Stored(s, t, k0) : t \in Thread(s)})
                    /\ s.level >= 7 => Covers(s, k0, UNION {Prefetched(s, t, k0) : t \in Thread(s)})
  <2>1. s.level \in 2 .. 8
    BY DEF Proper, Sized
  <2>2. s.level >= 7 => s.level >= 3
    BY <2>1
  <2> QED BY <2>2, Zenon DEF CoversAll
<1>2. k0 \in Nat
  BY <1>1
<1>3. ThreadsPerBlock(s) \in Nat \ {0} /\ SizeA(s) \in Nat /\ SizeB(s) \in Nat
  BY ShapeLoads
<1>4. ASSUME s.level = 3
      PROVE  Covers(s, k0, UNION {Stored(s, t, k0) : t \in Thread(s)})
  <2> DEFINE a == [t \in Thread(s) |-> {t}]
  <2>1. /\ \A t \in Thread(s) : a[t] \subseteq 0 .. SizeA(s) - 1 /\ a[t] \subseteq 0 .. SizeB(s) - 1
        /\ \A l \in 0 .. SizeA(s) - 1 : \E t \in Thread(s) : l \in a[t]
        /\ \A l \in 0 .. SizeB(s) - 1 : \E t \in Thread(s) : l \in a[t]
    <3>1. CASE Thread(s) = {}
      <4>1. ThreadsPerBlock(s) - 1 \in Thread(s)
        BY <1>3 DEF Thread
      <4> QED BY <3>1, <4>1
    <3>2. CASE Thread(s) # {}
      <4>1. SizeA(s) = ThreadsPerBlock(s) /\ SizeB(s) = ThreadsPerBlock(s)
        BY <1>4, <3>2, SquareLoads
      <4> QED BY <4>1 DEF Thread
    <3> QED BY <3>1, <3>2
  <2>2. \A t \in Thread(s) : Stored(s, t, k0) = Filled(s, StartsA(s, a[t]), StartsB(s, a[t]), k0)
    BY <1>4, SquareLoads
  <2> HIDE DEF a
  <2>3. Covers(s, k0, UNION {Filled(s, StartsA(s, a[t]), StartsB(s, a[t]), k0) : t \in Thread(s)})
    BY <1>2, <2>1, LoadsCover
  <2>4. UNION {Stored(s, t, k0) : t \in Thread(s)}
          = UNION {Filled(s, StartsA(s, a[t]), StartsB(s, a[t]), k0) : t \in Thread(s)}
    BY <2>2
  <2> QED BY <2>3, <2>4
<1>5. ASSUME s.level # 3
      PROVE  Covers(s, k0, UNION {Stored(s, t, k0) : t \in Thread(s)})
  <2> DEFINE a == [t \in Thread(s) |-> Strided(s, t, SizeA(s))]
             b == [t \in Thread(s) |-> Strided(s, t, SizeB(s))]
  <2>1. /\ \A t \in Thread(s) : a[t] \subseteq 0 .. SizeA(s) - 1 /\ b[t] \subseteq 0 .. SizeB(s) - 1
        /\ \A l \in 0 .. SizeA(s) - 1 : \E t \in Thread(s) : l \in a[t]
        /\ \A l \in 0 .. SizeB(s) - 1 : \E t \in Thread(s) : l \in b[t]
    BY <1>3, StridedLoads
  <2>2. \A t \in Thread(s) : Stored(s, t, k0) = Filled(s, StartsA(s, a[t]), StartsB(s, b[t]), k0)
    BY <1>5 DEF Stored
  <2> HIDE DEF a, b
  <2>3. Covers(s, k0, UNION {Filled(s, StartsA(s, a[t]), StartsB(s, b[t]), k0) : t \in Thread(s)})
    BY <1>2, <2>1, LoadsCover
  <2>4. UNION {Stored(s, t, k0) : t \in Thread(s)}
          = UNION {Filled(s, StartsA(s, a[t]), StartsB(s, b[t]), k0) : t \in Thread(s)}
    BY <2>2
  <2> QED BY <2>3, <2>4
<1>6. Covers(s, k0, UNION {Prefetched(s, t, k0) : t \in Thread(s)})
  <2> DEFINE a == [t \in Thread(s) |-> Unrolled(s, t, SizeA(s))]
             b == [t \in Thread(s) |-> Unrolled(s, t, SizeB(s))]
  <2>1. /\ \A t \in Thread(s) : a[t] \subseteq 0 .. SizeA(s) - 1 /\ b[t] \subseteq 0 .. SizeB(s) - 1
        /\ \A l \in 0 .. SizeA(s) - 1 : \E t \in Thread(s) : l \in a[t]
        /\ \A l \in 0 .. SizeB(s) - 1 : \E t \in Thread(s) : l \in b[t]
    BY <1>3, UnrolledLoads
  <2>2. \A t \in Thread(s) : Prefetched(s, t, k0) = Filled(s, StartsA(s, a[t]), StartsB(s, b[t]), k0)
    BY DEF Prefetched
  <2> HIDE DEF a, b
  <2>3. Covers(s, k0, UNION {Filled(s, StartsA(s, a[t]), StartsB(s, b[t]), k0) : t \in Thread(s)})
    BY <1>2, <2>1, LoadsCover
  <2>4. UNION {Prefetched(s, t, k0) : t \in Thread(s)}
          = UNION {Filled(s, StartsA(s, a[t]), StartsB(s, b[t]), k0) : t \in Thread(s)}
    BY <2>2
  <2> QED BY <2>3, <2>4
<1>7. Covers(s, k0, UNION {Stored(s, t, k0) : t \in Thread(s)})
  BY <1>4, <1>5
<1> QED BY <1>6, <1>7

-------------------------------------------------------------------------------
(* From the level's defaults to a launched block                            *)

Fields == {"level", "M", "N", "K", "bx", "by", "fused", "BM", "BN", "BK", "TM", "TN",
           "WM", "WN", "WNITER"}

(* The shape is sized at every stage, and once it was checked level 8 has one *)
(* that deriveOk accepts: its own, or the defaults.                         *)
ShapeInv ==
  /\ stage \in {"requested", "overridden", "checked", "launched"}
  /\ DOMAIN shape = Fields
  /\ Sized(shape)
  /\ Square(shape)
  /\ stage \in {"checked", "launched"} /\ shape.level = 8 => DeriveOk(shape)

LEMMA Replaced ==
  ASSUME NEW s, DOMAIN s = Fields, NEW fields
  PROVE  /\ DOMAIN With(s, fields) = Fields
         /\ \A f \in Fields :
              With(s, fields)[f] = IF f \in DOMAIN fields THEN fields[f] ELSE s[f]
BY DEF With

LEMMA ReplacedTile ==
  ASSUME NEW s, DOMAIN s = Fields, NEW BM, NEW BN, NEW BK, NEW TM, NEW TN
  PROVE  LET new == With(s, Tile(BM, BN, BK, TM, TN)) IN
         /\ DOMAIN new = Fields
         /\ new.BM = BM /\ new.BN = BN /\ new.BK = BK /\ new.TM = TM /\ new.TN = TN
         /\ \A f \in Fields \ {"BM", "BN", "BK", "TM", "TN"} : new[f] = s[f]
<1> DEFINE fields == Tile(BM, BN, BK, TM, TN)
<1>1. /\ DOMAIN fields = {"BM", "BN", "BK", "TM", "TN"}
      /\ fields.BM = BM /\ fields.BN = BN /\ fields.BK = BK /\ fields.TM = TM /\ fields.TN = TN
  BY DEF Tile
<1> HIDE DEF fields
<1> QED BY <1>1, Replaced DEF Fields, fields

LEMMA ReplacedWarp ==
  ASSUME NEW s, DOMAIN s = Fields, NEW WM, NEW WN, NEW WNITER
  PROVE  LET new == With(s, Warp(WM, WN, WNITER)) IN
         /\ DOMAIN new = Fields
         /\ new.WM = WM /\ new.WN = WN /\ new.WNITER = WNITER
         /\ \A f \in Fields \ {"WM", "WN", "WNITER"} : new[f] = s[f]
<1> DEFINE fields == Warp(WM, WN, WNITER)
<1>1. /\ DOMAIN fields = {"WM", "WN", "WNITER"}
      /\ fields.WM = WM /\ fields.WN = WN /\ fields.WNITER = WNITER
  BY DEF Warp
<1> HIDE DEF fields
<1> QED BY <1>1, Replaced DEF Fields, fields

LEMMA ShapeInit == Init => ShapeInv
<1> SUFFICES ASSUME Init PROVE ShapeInv
  OBVIOUS
<1>1. PICK level \in Levels, p \in Problems :
        /\ stage = "requested"
        /\ shape = With(With(With(
             [level |-> level, M |-> p.M, N |-> p.N, K |-> p.K, bx |-> 0, by |-> 0,
              fused |-> FALSE, BM |-> 0, BN |-> 0, BK |-> 0, TM |-> 0, TN |-> 0,
              WM |-> 0, WN |-> 0, WNITER |-> 0],
             DefaultTile(level)), DefaultWarp), p)
  BY DEF Init
<1> DEFINE blank == [level |-> level, M |-> p.M, N |-> p.N, K |-> p.K, bx |-> 0, by |-> 0,
                     fused |-> FALSE, BM |-> 0, BN |-> 0, BK |-> 0, TM |-> 0, TN |-> 0,
                     WM |-> 0, WN |-> 0, WNITER |-> 0]
           tiled == With(blank, DefaultTile(level))
           warped == With(tiled, DefaultWarp)
<1>2. shape = With(warped, p)
  BY <1>1
<1>3. /\ DOMAIN blank = Fields /\ blank.level = level /\ blank.bx = 0 /\ blank.by = 0
  BY DEF Fields
<1> HIDE DEF blank
<1>4. level \in 2 .. 8 /\ DOMAIN p = {"M", "N", "K"} /\ p.M \in Nat \ {0} /\ p.N \in Nat \ {0} /\ p.K \in Nat \ {0}
  BY ShapeAssumption
<1>5. PICK BM \in Nat \ {0}, BN \in Nat \ {0}, BK \in Nat \ {0}, TM \in Nat \ {0}, TN \in Nat \ {0} :
        /\ DefaultTile(level) = Tile(BM, BN, BK, TM, TN)
        /\ level = 3 => BK = BM /\ BK = BN /\ TM = 1 /\ TN = 1
  <2>1. CASE level = 2
    <3>1. DefaultTile(level) = Tile(32, 32, 1, 1, 1)
      BY <2>1 DEF DefaultTile
    <3> QED BY <2>1, <3>1
  <2>2. CASE level = 3
    <3>1. DefaultTile(level) = Tile(32, 32, 32, 1, 1)
      BY <2>2 DEF DefaultTile
    <3> QED BY <2>2, <3>1
  <2>3. CASE level = 4
    <3>1. DefaultTile(level) = Tile(64, 64, 8, 8, 1)
      BY <2>3 DEF DefaultTile
    <3> QED BY <2>3, <3>1
  <2>4. CASE level \in 5 .. 7
    <3>1. DefaultTile(level) = Tile(64, 64, 8, 8, 8)
      BY <2>4 DEF DefaultTile
    <3> QED BY <2>4, <3>1
  <2>5. CASE level = 8
    <3>1. DefaultTile(level) = Tile(64, 64, 16, 4, 4)
      BY <2>5 DEF DefaultTile
    <3> QED BY <2>5, <3>1
  <2>6. level = 2 \/ level = 3 \/ level = 4 \/ level \in 5 .. 7 \/ level = 8
    BY <1>4
  <2> QED BY <2>1, <2>2, <2>3, <2>4, <2>5, <2>6
<1>6. /\ DOMAIN tiled = Fields /\ tiled.level = level /\ tiled.bx = 0 /\ tiled.by = 0
      /\ tiled.BM = BM /\ tiled.BN = BN /\ tiled.BK = BK /\ tiled.TM = TM /\ tiled.TN = TN
  BY <1>3, <1>5, ReplacedTile DEF Fields
<1> HIDE DEF tiled
<1>7. /\ DOMAIN warped = Fields /\ warped.level = level /\ warped.bx = 0 /\ warped.by = 0
      /\ warped.BM = BM /\ warped.BN = BN /\ warped.BK = BK /\ warped.TM = TM /\ warped.TN = TN
      /\ warped.WM = 32 /\ warped.WN = 32 /\ warped.WNITER = 2
  BY <1>6, ReplacedWarp DEF Fields, DefaultWarp
<1> HIDE DEF warped
<1>8. /\ DOMAIN shape = Fields /\ shape.level = level /\ shape.bx = 0 /\ shape.by = 0
      /\ shape.M = p.M /\ shape.N = p.N /\ shape.K = p.K
      /\ shape.BM = BM /\ shape.BN = BN /\ shape.BK = BK /\ shape.TM = TM /\ shape.TN = TN
      /\ shape.WM = 32 /\ shape.WN = 32 /\ shape.WNITER = 2
  BY <1>2, <1>4, <1>7, Replaced DEF Fields
<1>9. Sized(shape) /\ Square(shape)
  BY <1>4, <1>5, <1>8 DEF Sized, Square
<1> QED BY <1>1, <1>8, <1>9 DEF ShapeInv

(* The defaults of level 8 are a shape that deriveOk accepts. *)
LEMMA DefaultsOk ==
  ASSUME NEW s, s.BM = 64, s.BN = 64, s.BK = 16, s.TM = 4, s.TN = 4,
         s.WM = 32, s.WN = 32, s.WNITER = 2
  PROVE  DeriveOk(s)
<1>1. WSUBN(s) = 16
  BY DEF WSUBN
<1>2. LaneCols(s) = 4
  BY <1>1 DEF LaneCols
<1>3. WSUBM(s) = 32
  BY <1>2, DefaultsAssumption DEF WSUBM
<1> QED BY <1>1, <1>2, <1>3, DefaultsAssumption DEF DeriveOk

LEMMA OverrideShape ==
  ASSUME ShapeInv, ReadOverride
  PROVE  ShapeInv'
<1>1. CASE UNCHANGED shape
  BY <1>1 DEF ReadOverride, ShapeInv, Sized, Square, DeriveOk, WSUBN, WSUBM, LaneCols
<1>2. CASE /\ shape.level >= 5
           /\ \E vals \in Overrides : Valid(vals) /\ shape' = Overridden(shape, vals)
  <2>1. PICK vals \in Overrides : Valid(vals) /\ shape' = Overridden(shape, vals)
    BY <1>2
  <2>2. vals \in Seq(Nat \ {0}) /\ Len(vals) \in {5, 8}
    BY <2>1, ShapeAssumption DEF Valid
  <2> DEFINE n == Len(vals)
  <2>a. n \in {5, 8} /\ \A i \in 1 .. n : vals[i] \in Nat \ {0}
    BY <2>2
  <2> HIDE DEF n
  <2>3. \A i \in 1 .. 5 : vals[i] \in Nat \ {0}
    BY <2>a
  <2>b. n = 8 => \A i \in 6 .. 8 : vals[i] \in Nat \ {0}
    BY <2>a
  <2>4. Len(vals) = 8 => \A i \in 6 .. 8 : vals[i] \in Nat \ {0}
    BY <2>b DEF n
  <2> DEFINE tiled == With(shape, Tile(vals[1], vals[2], vals[3], vals[4], vals[5]))
  <2>5. /\ DOMAIN tiled = Fields
        /\ tiled.BM = vals[1] /\ tiled.BN = vals[2] /\ tiled.BK = vals[3]
        /\ tiled.TM = vals[4] /\ tiled.TN = vals[5]
        /\ \A f \in Fields \ {"BM", "BN", "BK", "TM", "TN"} : tiled[f] = shape[f]
    BY ReplacedTile DEF ShapeInv
  <2>6. Overridden(shape, vals) = IF shape.level = 8 /\ Len(vals) = 8
                                  THEN With(tiled, Warp(vals[6], vals[7], vals[8])) ELSE tiled
    BY DEF Overridden
  <2> HIDE DEF tiled
  <2>7. Sized(tiled) /\ tiled.level = shape.level
    BY <2>3, <2>5 DEF ShapeInv, Sized, Fields
  <2>8. /\ DOMAIN shape' = Fields /\ Sized(shape') /\ shape'.level = shape.level
    <3>1. CASE shape.level = 8 /\ Len(vals) = 8
      <4> DEFINE new == With(tiled, Warp(vals[6], vals[7], vals[8]))
      <4>1. /\ DOMAIN new = Fields
            /\ new.WM = vals[6] /\ new.WN = vals[7] /\ new.WNITER = vals[8]
            /\ \A f \in Fields \ {"WM", "WN", "WNITER"} : new[f] = tiled[f]
        BY <2>5, ReplacedWarp
      <4>2. shape' = new
        BY <2>1, <2>6, <3>1
      <4> HIDE DEF new
      <4> QED BY <2>4, <2>7, <3>1, <4>1, <4>2 DEF Sized, Fields
    <3>2. CASE ~(shape.level = 8 /\ Len(vals) = 8)
      BY <2>1, <2>5, <2>6, <2>7, <3>2
    <3> QED BY <3>1, <3>2
  <2>9. Square(shape')
    BY <1>2, <2>8 DEF Square
  <2> QED BY <2>8, <2>9 DEF ShapeInv, ReadOverride, Sized, Square
<1> QED BY <1>1, <1>2 DEF ReadOverride

LEMMA CheckShape ==
  ASSUME ShapeInv, Check
  PROVE  ShapeInv'
<1>1. stage' = "checked"
  BY DEF Check
<1>2. CASE shape.level = 8 /\ ~DeriveOk(shape)
  <2> DEFINE tiled == With(shape, Tile(64, 64, 16, 4, 4))
             new == With(tiled, Warp(32, 32, 2))
  <2>1. shape' = new
    BY <1>2 DEF Check, DefaultTile, DefaultWarp
  <2>2. /\ DOMAIN tiled = Fields
        /\ tiled.BM = 64 /\ tiled.BN = 64 /\ tiled.BK = 16 /\ tiled.TM = 4 /\ tiled.TN = 4
        /\ \A f \in Fields \ {"BM", "BN", "BK", "TM", "TN"} : tiled[f] = shape[f]
    BY ReplacedTile DEF ShapeInv
  <2> HIDE DEF tiled
  <2>3. /\ DOMAIN new = Fields
        /\ new.WM = 32 /\ new.WN = 32 /\ new.WNITER = 2
        /\ \A f \in Fields \ {"WM", "WN", "WNITER"} : new[f] = tiled[f]
    BY <2>2, ReplacedWarp
  <2> HIDE DEF new
  <2>4. /\ new.BM = 64 /\ new.BN = 64 /\ new.BK = 16 /\ new.TM = 4 /\ new.TN = 4
        /\ new.level = 8 /\ new.M = shape.M /\ new.N = shape.N /\ new.K = shape.K
        /\ new.bx = shape.bx /\ new.by = shape.by
    BY <1>2, <2>2, <2>3 DEF Fields
  <2>5. DeriveOk(new)
    BY <2>3, <2>4, DefaultsOk
  <2>6. Sized(new) /\ Square(new)
    BY <2>3, <2>4 DEF ShapeInv, Sized, Square
  <2>7. DOMAIN shape' = Fields /\ Sized(shape') /\ Square(shape') /\ DeriveOk(shape')
    BY <2>1, <2>3, <2>5, <2>6
  <2> HIDE DEF Sized, Square, DeriveOk
  <2> QED BY <1>1, <2>7 DEF ShapeInv, Sized, Square, DeriveOk, WSUBN, WSUBM, LaneCols
<1>3. CASE ~(shape.level = 8 /\ ~DeriveOk(shape))
  <2>1. shape' = shape
    BY <1>3 DEF Check
  <2> QED BY <1>1, <1>3, <2>1 DEF ShapeInv, Sized, Square, DeriveOk, WSUBN, WSUBM, LaneCols
<1> QED BY <1>2, <1>3

LEMMA LaunchShape ==
  ASSUME ShapeInv, Launch
  PROVE  ShapeInv'
<1>1. PICK bx \in 0 .. GridX(shape) - 1, by \in 0 .. GridY(shape) - 1 :
        shape' = [shape EXCEPT !.bx = bx, !.by = by]
  BY DEF Launch
<1>2. bx \in Nat /\ by \in Nat
  BY DEF ShapeInv, Sized, GridX, GridY
<1>3. /\ DOMAIN shape' = Fields /\ shape'.bx = bx /\ shape'.by = by
      /\ \A f \in Fields \ {"bx", "by"} : shape'[f] = shape[f]
  BY <1>1 DEF ShapeInv, Fields
<1>4. Sized(shape') /\ Square(shape') /\ shape'.level = shape.level
  BY <1>2, <1>3 DEF ShapeInv, Sized, Square, Fields
<1>5. shape.level = 8 => DeriveOk(shape')
  BY <1>3 DEF ShapeInv, Launch, DeriveOk, WSUBN, WSUBM, LaneCols, Fields
<1> QED BY <1>3, <1>4, <1>5 DEF Launch, ShapeInv, Sized, Square, DeriveOk, WSUBN, WSUBM, LaneCols

LEMMA ShapeNext == ShapeInv /\ [Next]_vars => ShapeInv'
<1>1. ASSUME ShapeInv, UNCHANGED vars PROVE ShapeInv'
  BY <1>1 DEF vars, ShapeInv, Sized, Square, DeriveOk, WSUBN, WSUBM, LaneCols
<1> QED BY <1>1, OverrideShape, CheckShape, LaunchShape DEF Next

LEMMA ShapeInvariant == Spec => []ShapeInv
BY ShapeInit, ShapeNext, PTL DEF Spec

LEMMA CheckedIsProper == ShapeInv /\ Checked => Proper(shape)
BY DEF ShapeInv, Checked, Launched, Proper

(* However a shape is chosen (GemmLowering.cpp:29-59, 750-756, 1874-1902), a  *)
(* kernel of level 8 gives every cell of its block to one thread and no cell  *)
(* to two; a lower level does whenever its tiles divide.                     *)
THEOREM CellsOwnedOnceHolds == Spec => []CellsOwnedOnce
<1>1. ShapeInv => CellsOwnedOnce
  BY CheckedIsProper, ProperOwner DEF CellsOwnedOnce
<1> QED BY <1>1, ShapeInvariant, PTL

(* In the same kernels the strided loops and the unrolled prefetch bring to    *)
(* shared memory all that any thread multiplies, and write nothing beyond it. *)
THEOREM TilesCoveredHolds == Spec => []TilesCovered
<1>1. ShapeInv => TilesCovered
  BY CheckedIsProper, ProperCovers DEF TilesCovered
<1> QED BY <1>1, ShapeInvariant, PTL
===============================================================================
