--------------------------- MODULE FlashBwdProofs ---------------------------
(***************************************************************************)
(* First, the buffer dq_accum holds all that the kernels write: for every  *)
(* tile size, batch, length and number of heads, if the kernel does not    *)
(* pad the head dimension; and in varlen calls, whose buffer ends with 128 *)
(* spare rows, even if it does.  Second, the gradients of a call are exact *)
(* for every batch, length, tile size, number of heads and padding of the  *)
(* head dimension: the tiles of scratch overlap only where nothing that    *)
(* matters is stored or added.                                             *)
(***************************************************************************)
EXTENDS FlashBwd, TLAPS

Fits == \/ HeadDim = DRounded
        \/ HeadDim <= 2 * DRounded /\ \A c \in Calls : c.varlen

-----------------------------------------------------------------------------
(* A product of naturals is natural, and grows with its factors.           *)
LEMMA TimesNat ==
  ASSUME NEW a \in Nat, NEW b \in Nat
  PROVE  a * b \in Nat
  OBVIOUS

LEMMA TimesMono ==
  ASSUME NEW a \in Nat, NEW b \in Nat, NEW c \in Nat, a <= b
  PROVE  a * c <= b * c
<1>1. PICK d \in Nat : b = a + d
  <2>1. b - a \in Nat /\ b = a + (b - a)
    OBVIOUS
  <2>2. QED BY <2>1
<1>2. b * c = a * c + d * c
  BY <1>1
<1>3. a * c \in Nat /\ d * c \in Nat
  BY TimesNat
<1>4. QED BY <1>2, <1>3

(* Tile m begins before row s if and only if it is among the first         *)
(* ceil(s / k) tiles; only the needed direction.                           *)
LEMMA TileBegins ==
  ASSUME NEW s \in Nat, NEW k \in Nat \ {0}, NEW m \in Nat, m <= (s + k - 1) \div k - 1
  PROVE  m * k < s
<1> DEFINE q == (s + k - 1) \div k
<1>1. q \in Int /\ q * k <= s + k - 1
  OBVIOUS
<1>2. (m + 1) * k <= q * k
  <2>1. m + 1 \in Nat /\ q \in Nat /\ m + 1 <= q
    BY <1>1
  <2> HIDE DEF q
  <2>2. QED BY <2>1, TimesMono
<1>3. (m + 1) * k = m * k + k /\ m * k \in Int
  OBVIOUS
<1>4. q * k \in Int
  BY <1>1
<1> HIDE DEF q
<1>5. QED BY <1>1, <1>2, <1>3, <1>4

(* A tile that begins before a multiple of the tile size ends by it.       *)
LEMMA TileEnds ==
  ASSUME NEW k \in Nat \ {0}, NEW m \in Nat, NEW j \in Nat, m * k < j * k
  PROVE  (m + 1) * k <= j * k
<1>1. m < j
  <2>1. SUFFICES ASSUME j <= m PROVE FALSE
    OBVIOUS
  <2>2. j * k <= m * k
    BY <2>1, TimesMono
  <2>3. j * k \in Nat /\ m * k \in Nat
    BY TimesNat
  <2>4. QED BY <2>2, <2>3
<1>2. QED BY <1>1, TimesMono

(* The floats of a row lie before the end of row n: if it is before row n, *)
(* and if there is a row between when its columns are padded.              *)
LEMMA RowInside ==
  ASSUME NEW row \in Nat, NEW n \in Nat, NEW H \in Nat, NEW h \in Nat, h < H,
         NEW D \in Nat, NEW c \in Nat,
         \/ row + 1 <= n /\ c < D
         \/ row + 2 <= n /\ c < 2 * D
  PROVE  /\ (row * H + h) * D + c \in Nat
         /\ (row * H + h) * D + c < (n * H) * D
<1>1. row * H \in Nat /\ n * H \in Nat /\ (n * H) * D \in Nat
  BY TimesNat
<1>2. (row * H + h) * D \in Nat
  BY <1>1, TimesNat
<1>3. CASE row + 1 <= n /\ c < D
  <2>1. (row + 1) * H <= n * H
    BY <1>3, TimesMono
  <2>2. (row + 1) * H = row * H + H
    OBVIOUS
  <2>3. row * H + h + 1 <= n * H
    BY <2>1, <2>2, <1>1
  <2>4. (row * H + h + 1) * D <= (n * H) * D
    BY <2>3, <1>1, TimesMono
  <2> DEFINE u == row * H + h
  <2>5. u \in Nat /\ (u + 1) * D <= (n * H) * D /\ u * D \in Nat
    BY <2>4, <1>1, <1>2
  <2>6. (u + 1) * D = u * D + D
    BY <2>5
  <2> HIDE DEF u
  <2>7. u * D + c < (n * H) * D
    BY <2>5, <2>6, <1>1, <1>3
  <2>8. QED BY <2>7, <1>2 DEF u
<1>4. CASE row + 2 <= n /\ c < 2 * D
  <2>1. (row + 2) * H <= n * H
    BY <1>4, TimesMono
  <2>2. (row + 2) * H = row * H + 2 * H
    OBVIOUS
  <2>3. row * H + h + 2 <= n * H
    BY <2>1, <2>2, <1>1
  <2>4. (row * H + h + 2) * D <= (n * H) * D
    BY <2>3, <1>1, TimesMono
  <2> DEFINE u == row * H + h
  <2>5. u \in Nat /\ (u + 2) * D <= (n * H) * D /\ u * D \in Nat
    BY <2>4, <1>1, <1>2
  <2>6. (u + 2) * D = u * D + 2 * D
    BY <2>5
  <2> HIDE DEF u
  <2>7. u * D + c < (n * H) * D
    BY <2>5, <2>6, <1>1, <1>4
  <2>8. QED BY <2>7, <1>2 DEF u
<1>5. QED BY <1>3, <1>4

-----------------------------------------------------------------------------
(* The numbers of a call.                                                  *)
LEMMA CallNumbers ==
  ASSUME call \in Calls
  PROVE  /\ call.varlen \in BOOLEAN /\ call.b \in Nat \ {0} /\ call.max_q \in Nat \ {0}
         /\ Rounded \in Nat /\ call.max_q <= Rounded
         /\ AccumRows \in Nat /\ AccumSize \in Nat
         /\ \A b \in Batch : SeqlenQ(b) \in Nat /\ FirstRow(b) \in Nat
<1>1. /\ call.varlen \in BOOLEAN /\ call.b \in Nat \ {0} /\ call.max_q \in Nat \ {0}
      /\ call.cu \in [0 .. call.b -> Nat]
      /\ \A i, j \in 0 .. call.b : i <= j => call.cu[i] <= call.cu[j]
  BY FlashBwdAssumption
<1>2. Rounding \in Nat \ {0} /\ HQ \in Nat /\ DRounded \in Nat
  BY FlashBwdAssumption
<1>3. Rounded \in Nat /\ call.max_q <= Rounded
  <2> DEFINE a == call.max_q
             q == (a + Rounding - 1) \div Rounding
  <2>1. a \in Nat \ {0}
    BY <1>1
  <2> HIDE DEF a
  <2>2. q \in Nat /\ a + Rounding - 1 < (q + 1) * Rounding
    BY <2>1, <1>2
  <2> HIDE DEF q
  <2>3. (q + 1) * Rounding = q * Rounding + Rounding /\ q * Rounding \in Nat
    BY <2>2, <1>2
  <2>4. a <= q * Rounding
    BY <2>1, <2>2, <2>3, <1>2
  <2>5. QED BY <2>3, <2>4 DEF Rounded, a, q
<1>4. AccumRows \in Nat
  <2>1. call.b * Rounded \in Nat /\ Rounding * call.b \in Nat
    BY <1>1, <1>2, <1>3, TimesNat
  <2>2. TotalQ \in Nat
    BY <1>1 DEF TotalQ
  <2>3. QED BY <2>1, <2>2 DEF AccumRows
<1>5. AccumSize \in Nat
  BY <1>2, <1>4, TimesNat DEF AccumSize
<1>6. ASSUME NEW b \in Batch PROVE SeqlenQ(b) \in Nat /\ FirstRow(b) \in Nat
  <2>1. b \in Nat /\ b \in 0 .. call.b /\ b + 1 \in 0 .. call.b /\ b <= b + 1
    BY <1>1 DEF Batch
  <2>2. call.cu[b] \in Nat /\ call.cu[b + 1] \in Nat /\ call.cu[b] <= call.cu[b + 1]
    BY <1>1, <2>1
  <2>3. Rounding * b \in Nat /\ b * Rounded \in Nat
    BY <1>2, <1>3, <2>1, TimesNat
  <2>4. QED BY <1>1, <2>2, <2>3 DEF SeqlenQ, FirstRow
<1>7. QED BY <1>1, <1>3, <1>4, <1>5, <1>6

(* Every row of a tile that begins inside its sequence has a row in the    *)
(* buffer, and in a varlen call there is one more behind it.               *)
LEMMA RowFits ==
  ASSUME call \in Calls, NEW b \in Batch, NEW m \in Nat, m * kBlockM < SeqlenQ(b),
         NEW r \in RowsOf(m)
  PROVE  /\ FirstRow(b) + r \in Nat
         /\ FirstRow(b) + r + 1 <= AccumRows
         /\ call.varlen => FirstRow(b) + r + 2 <= AccumRows
<1>1. /\ kBlockM \in Nat \ {0} /\ Rounding \in Nat /\ kBlockM <= Rounding
      /\ Rounding % kBlockM = 0
  BY FlashBwdAssumption
<1>2. /\ call.varlen \in BOOLEAN /\ call.b \in Nat /\ Rounded \in Nat
      /\ FirstRow(b) \in Nat /\ SeqlenQ(b) \in Nat /\ call.max_q <= Rounded
      /\ call.max_q \in Nat
  BY CallNumbers
<1>3. b \in Nat /\ b + 1 \in Nat /\ b + 1 <= call.b
  BY <1>2 DEF Batch
<1>4. /\ m * kBlockM \in Nat /\ (m + 1) * kBlockM = m * kBlockM + kBlockM
  BY <1>1, TimesNat
<1>5. r \in Nat /\ r + 1 <= m * kBlockM + kBlockM
  BY <1>1, <1>4 DEF RowsOf
<1>6. CASE call.varlen
  <2>1. /\ call.cu \in [0 .. call.b -> Nat]
        /\ \A i, j \in 0 .. call.b : i <= j => call.cu[i] <= call.cu[j]
    BY FlashBwdAssumption
  <2>2. /\ b \in 0 .. call.b /\ b + 1 \in 0 .. call.b /\ call.b \in 0 .. call.b
    BY <1>2, <1>3
  <2>3. /\ call.cu[b] \in Nat /\ call.cu[b + 1] \in Nat /\ TotalQ \in Nat
        /\ call.cu[b + 1] <= TotalQ
    BY <2>1, <2>2, <1>3 DEF TotalQ
  <2>4. SeqlenQ(b) = call.cu[b + 1] - call.cu[b]
    BY <1>6 DEF SeqlenQ
  <2>5. (b + 1) * Rounding <= call.b * Rounding
    BY <1>1, <1>2, <1>3, TimesMono
  <2>6. /\ (b + 1) * Rounding = Rounding * b + Rounding
        /\ call.b * Rounding = Rounding * call.b
        /\ Rounding * b \in Nat /\ Rounding * call.b \in Nat
    BY <1>1, <1>2, <1>3, TimesNat
  <2>7. FirstRow(b) = call.cu[b] + Rounding * b
    BY <1>6 DEF FirstRow
  <2>8. AccumRows = TotalQ + Rounding * call.b
    BY <1>6 DEF AccumRows
  <2>9. r + 2 <= SeqlenQ(b) + kBlockM
    BY <1>1, <1>2, <1>4, <1>5
  <2>10. FirstRow(b) + r + 2 <= AccumRows
    BY <1>1, <1>5, <2>3, <2>4, <2>5, <2>6, <2>7, <2>8, <2>9
  <2>11. QED BY <2>10, <1>2, <1>5, <2>3, <2>6, <2>8
<1>7. CASE ~ call.varlen
  <2>1. SeqlenQ(b) = call.max_q /\ FirstRow(b) = b * Rounded /\ AccumRows = call.b * Rounded
    BY <1>7 DEF SeqlenQ, FirstRow, AccumRows
  <2>2. PICK j \in Nat : Rounded = j * kBlockM
    <3> DEFINE u == (call.max_q + Rounding - 1) \div Rounding
               v == Rounding \div kBlockM
    <3>1. u \in Nat
      <4> DEFINE a == call.max_q
      <4>1. a \in Nat /\ Rounding \in Nat \ {0}
        BY <1>1, <1>2
      <4> HIDE DEF a
      <4>2. (a + Rounding - 1) \div Rounding \in Nat
        BY <4>1
      <4>3. QED BY <4>2 DEF a
    <3>2. v \in Nat /\ Rounding = v * kBlockM
      BY <1>1
    <3>3. Rounded = u * Rounding
      BY DEF Rounded
    <3> HIDE DEF u, v
    <3>4. Rounded = (u * v) * kBlockM /\ u * v \in Nat
      BY <3>1, <3>2, <3>3, <1>1, TimesNat
    <3>5. QED BY <3>4
  <2>3. (m + 1) * kBlockM <= Rounded
    <3>1. m * kBlockM < j * kBlockM
      BY <1>2, <1>4, <2>1, <2>2
    <3>2. QED BY <3>1, <2>2, <1>1, TileEnds
  <2>4. r + 1 <= Rounded
    BY <2>3, <1>2, <1>4, <1>5, <1>1
  <2>5. (b + 1) * Rounded <= call.b * Rounded
    BY <1>2, <1>3, TimesMono
  <2>6. (b + 1) * Rounded = b * Rounded + Rounded /\ b * Rounded \in Nat
    BY <1>2, <1>3, TimesNat
  <2>7. call.b * Rounded \in Nat
    BY <1>2, TimesNat
  <2>8. QED BY <1>2, <1>5, <1>7, <2>1, <2>4, <2>5, <2>6, <2>7
<1>8. QED BY <1>2, <1>6, <1>7

(* So every float the kernels touch lies in the buffer.                    *)
LEMMA AddrFits ==
  ASSUME Fits, call \in Calls, NEW b \in Batch, NEW h \in 0 .. HQ - 1, NEW m \in Nat,
         m * kBlockM < SeqlenQ(b), NEW r \in RowsOf(m), NEW c \in 0 .. HeadDim - 1
  PROVE  AccumAddr(b, h, r, c) < AccumSize
<1> DEFINE row == FirstRow(b) + r
<1>1. /\ HQ \in Nat /\ DRounded \in Nat /\ HeadDim \in Nat
  BY FlashBwdAssumption
<1>2. h \in Nat /\ h < HQ /\ c \in Nat /\ c < HeadDim
  BY <1>1
<1>3. /\ row \in Nat /\ row + 1 <= AccumRows /\ (call.varlen => row + 2 <= AccumRows)
      /\ AccumRows \in Nat
  BY RowFits, CallNumbers
<1> HIDE DEF row
<1>4. \/ row + 1 <= AccumRows /\ c < DRounded
      \/ row + 2 <= AccumRows /\ c < 2 * DRounded
  BY <1>1, <1>2, <1>3 DEF Fits
<1>5. (row * HQ + h) * DRounded + c < (AccumRows * HQ) * DRounded
  BY <1>1, <1>2, <1>3, <1>4, RowInside
<1>6. QED BY <1>5 DEF AccumAddr, AccumSize, row

-----------------------------------------------------------------------------
(* Thread blocks work on tiles of their own sequence.                      *)
WorkInv ==
  /\ call \in Calls
  /\ DOMAIN dq_accum \subseteq Int
  /\ stage = "dot_do_o" => todo \subseteq MBlocks
  /\ stage = "columns" =>
       \A x \in todo : /\ x[1] \in Batch /\ x[2] \in 0 .. HQ - 1 /\ x[4] \in Int
                       /\ x[4] <= Blocks(SeqlenQ(x[1])) - 1

BufferInv == WorkInv /\ AccumInBounds

LEMMA BufferInit == Init => BufferInv
<1> SUFFICES ASSUME Init PROVE BufferInv
  OBVIOUS
<1> DEFINE top == AccumSize + kBlockM * HQ * HeadDim
<1>1. call \in Calls /\ stage = "memset"
  BY DEF Init
<1>2. dq_accum = [a \in 0 .. top |-> IF a < AccumSize THEN Junk ELSE Foreign]
  BY DEF Init
<1>3. AccumSize \in Nat
  BY <1>1, CallNumbers
<1> HIDE DEF top
<1>4. DOMAIN dq_accum \subseteq Int
  BY <1>2
<1>5. AccumInBounds
  BY <1>2, <1>3 DEF AccumInBounds
<1>6. QED BY <1>1, <1>4, <1>5 DEF BufferInv, WorkInv

(* What does not depend on variables that a step leaves alone.             *)
LEMMA SameCall ==
  ASSUME call' = call
  PROVE  /\ AccumSize' = AccumSize /\ Batch' = Batch /\ MBlocks' = MBlocks
         /\ \A b : SeqlenQ(b)' = SeqlenQ(b)
  BY DEF AccumSize, AccumRows, TotalQ, Rounded, Batch, MBlocks, MTiles, Blocks, SeqlenQ

LEMMA MemsetKeeps == BufferInv /\ Memset => BufferInv'
<1> SUFFICES ASSUME BufferInv, Memset PROVE BufferInv'
  OBVIOUS
<1>1. /\ call' = call /\ stage' = "dot_do_o" /\ todo' = MBlocks
      /\ dq_accum' = [a \in DOMAIN dq_accum |-> IF a < AccumSize THEN {} ELSE dq_accum[a]]
  BY DEF Memset
<1>2. call \in Calls /\ DOMAIN dq_accum \subseteq Int /\ AccumInBounds
  BY DEF BufferInv, WorkInv
<1>3. AccumSize \in Nat
  BY <1>2, CallNumbers
<1>4. WorkInv'
  BY <1>1, <1>2, SameCall DEF WorkInv
<1>5. AccumInBounds'
  BY <1>1, <1>2, <1>3, SameCall DEF AccumInBounds
<1>6. QED BY <1>4, <1>5 DEF BufferInv

LEMMA DotDoOKeeps ==
  ASSUME Fits, BufferInv, NEW x \in todo, DotDoO(x)
  PROVE  BufferInv'
<1> DEFINE b == x[1]
           h == x[2]
           m == x[3]
<1>1. /\ stage = "dot_do_o" /\ stage' = stage /\ call' = call /\ todo' = todo \ {x}
  BY DEF DotDoO
<1>2. /\ call \in Calls /\ DOMAIN dq_accum \subseteq Int /\ todo \subseteq MBlocks
      /\ AccumInBounds
  BY <1>1 DEF BufferInv, WorkInv
<1>3. b \in Batch /\ h \in 0 .. HQ - 1 /\ m \in Nat
  <2>1. x \in Batch \X (0 .. HQ - 1) \X MTiles
    BY <1>2 DEF MBlocks
  <2>2. QED BY <2>1 DEF MTiles
<1>4. /\ DOMAIN dq_accum' = DOMAIN dq_accum
      /\ \A a \in DOMAIN dq_accum : a >= AccumSize => dq_accum'[a] = dq_accum[a]
  <2>1. CASE m * kBlockM >= SeqlenQ(b)
    <3>1. dq_accum' = dq_accum
      BY <2>1 DEF DotDoO
    <3>2. QED BY <3>1
  <2>2. CASE ~ (m * kBlockM >= SeqlenQ(b))
    <3>1. dq_accum' = [a \in DOMAIN dq_accum |->
             IF \E r \in RowsOf(m), c \in 0 .. HeadDim - 1 : AccumAddr(b, h, r, c) = a
             THEN {} ELSE dq_accum[a]]
      BY <2>2 DEF DotDoO
    <3>2. m * kBlockM < SeqlenQ(b)
      <4>1. SeqlenQ(b) \in Nat
        BY <1>2, <1>3, CallNumbers
      <4>2. m * kBlockM \in Nat
        BY <1>3, FlashBwdAssumption, TimesNat
      <4>3. QED BY <2>2, <4>1, <4>2
    <3> HIDE DEF b, h, m
    <3>3. \A r \in RowsOf(m), c \in 0 .. HeadDim - 1 : AccumAddr(b, h, r, c) < AccumSize
      BY <1>2, <1>3, <3>2, AddrFits
    <3>4. AccumSize \in Nat
      BY <1>2, CallNumbers
    <3>5. QED BY <1>2, <3>1, <3>3, <3>4
  <2>3. QED BY <2>1, <2>2
<1>5. AccumInBounds'
  BY <1>1, <1>2, <1>4, SameCall DEF AccumInBounds
<1>6. WorkInv'
  BY <1>1, <1>2, <1>4, SameCall DEF WorkInv
<1>7. QED BY <1>5, <1>6 DEF BufferInv

LEMMA ColumnKeeps ==
  ASSUME Fits, BufferInv, NEW x \in todo, Column(x)
  PROVE  BufferInv'
<1> DEFINE b == x[1]
           h == x[2]
           n == x[3]
           m == x[4]
<1>1. stage = "columns" /\ stage' = stage /\ call' = call
  BY DEF Column
<1>2. /\ call \in Calls /\ DOMAIN dq_accum \subseteq Int /\ AccumInBounds
      /\ \A y \in todo : /\ y[1] \in Batch /\ y[2] \in 0 .. HQ - 1 /\ y[4] \in Int
                         /\ y[4] <= Blocks(SeqlenQ(y[1])) - 1
  BY <1>1 DEF BufferInv, WorkInv
<1>3. b \in Batch /\ h \in 0 .. HQ - 1 /\ m \in Int /\ m <= Blocks(SeqlenQ(b)) - 1
  BY <1>2
<1>4. SeqlenQ(b) \in Nat /\ AccumSize \in Nat /\ kBlockM \in Nat \ {0}
  BY <1>2, <1>3, CallNumbers, FlashBwdAssumption
<1>5. Blocks(SeqlenQ(b)) \in Int
  BY <1>4 DEF Blocks
<1>6. \A y \in todo' : /\ y[1] \in Batch /\ y[2] \in 0 .. HQ - 1 /\ y[4] \in Int
                       /\ y[4] <= Blocks(SeqlenQ(y[1])) - 1
  <2>1. todo' \subseteq todo \cup {<<b, h, n, i>> : i \in {m - 1} \cap Nat}
    BY DEF Column
  <2>2. ASSUME NEW i \in {m - 1} \cap Nat
        PROVE  /\ <<b, h, n, i>>[1] \in Batch /\ <<b, h, n, i>>[2] \in 0 .. HQ - 1
               /\ <<b, h, n, i>>[4] \in Int
               /\ <<b, h, n, i>>[4] <= Blocks(SeqlenQ(<<b, h, n, i>>[1])) - 1
    BY <1>3, <1>5
  <2> HIDE DEF b, h, n, m
  <2>3. QED BY <1>2, <2>1, <2>2
<1>7. /\ DOMAIN dq_accum' = DOMAIN dq_accum
      /\ \A a \in DOMAIN dq_accum : a >= AccumSize => dq_accum'[a] = dq_accum[a]
  <2>1. CASE m < 0
    <3>1. dq_accum' = dq_accum
      BY <2>1 DEF Column
    <3>2. QED BY <3>1
  <2>2. CASE ~ (m < 0)
    <3> DEFINE Hit(a) == {rc \in RowsOf(m) \X (0 .. HeadDim - 1) :
                            AccumAddr(b, h, rc[1], rc[2]) = a}
               New(a) == Add(dq_accum[a], UNION {Share(b, h, n, rc[1], rc[2]) : rc \in Hit(a)})
    <3>1. dq_accum' = [a \in DOMAIN dq_accum |->
                         IF Hit(a) = {} THEN dq_accum[a] ELSE New(a)]
      BY <2>2 DEF Column
    <3>2. m \in Nat /\ m * kBlockM < SeqlenQ(b)
      <4>1. m \in Nat /\ m <= (SeqlenQ(b) + kBlockM - 1) \div kBlockM - 1
        BY <2>2, <1>3 DEF Blocks
      <4> HIDE DEF m, b
      <4>2. QED BY <4>1, <1>4, TileBegins
    <3>3. ASSUME NEW a \in DOMAIN dq_accum, a >= AccumSize
          PROVE  Hit(a) = {}
      <4>1. \A r \in RowsOf(m), c \in 0 .. HeadDim - 1 : AccumAddr(b, h, r, c) < AccumSize
        <5> HIDE DEF b, h, m
        <5>1. QED BY <1>2, <1>3, <3>2, AddrFits
      <4>2. a \in Int
        BY <1>2
      <4> HIDE DEF b, h, m
      <4>3. QED BY <4>1, <4>2, <3>3, <1>4
    <3> HIDE DEF Hit, New
    <3>4. QED BY <3>1, <3>3
  <2>3. QED BY <2>1, <2>2
<1>8. AccumInBounds'
  BY <1>1, <1>2, <1>7, SameCall DEF AccumInBounds
<1>9. WorkInv'
  <2> HIDE DEF b, h, n, m
  <2>1. \A s : Blocks(s)' = Blocks(s)
    BY DEF Blocks
  <2>2. \A y \in todo' : /\ y[1] \in Batch' /\ y[2] \in 0 .. HQ - 1 /\ y[4] \in Int
                         /\ y[4] <= (Blocks(SeqlenQ(y[1])) - 1)'
    BY <1>1, <1>6, SameCall DEF Blocks
  <2>3. QED BY <1>1, <1>2, <1>7, <2>2 DEF WorkInv
<1>10. QED BY <1>8, <1>9 DEF BufferInv

(* A column block starts at the last tile of its sequence.                 *)
LEMMA LaunchKeeps == BufferInv /\ Launch => BufferInv'
<1> SUFFICES ASSUME BufferInv, Launch PROVE BufferInv'
  OBVIOUS
<1>1. call' = call /\ dq_accum' = dq_accum
  BY DEF Launch, Follow
<1>2. call \in Calls /\ DOMAIN dq_accum \subseteq Int /\ AccumInBounds
  BY DEF BufferInv, WorkInv
<1>3. AccumInBounds'
  BY <1>1, <1>2, SameCall DEF AccumInBounds
<1>4. stage' # "dot_do_o"
  BY DEF Launch, Follow
<1>5. stage' = "columns" => todo' = ColumnBlocks
  BY DEF Launch, Follow
<1>6. \A y \in ColumnBlocks : /\ y[1] \in Batch /\ y[2] \in 0 .. HQ - 1 /\ y[4] \in Int
                              /\ y[4] <= Blocks(SeqlenQ(y[1])) - 1
  <2>1. ASSUME NEW b \in Batch,
               NEW y \in {b} \X (0 .. HQ - 1) \X KeyTiles(b) \X {Blocks(SeqlenQ(b)) - 1}
        PROVE  /\ y[1] \in Batch /\ y[2] \in 0 .. HQ - 1 /\ y[4] \in Int
               /\ y[4] <= Blocks(SeqlenQ(y[1])) - 1
    <3>1. Blocks(SeqlenQ(b)) \in Int
      BY <1>2, CallNumbers, FlashBwdAssumption DEF Blocks
    <3>2. y[1] = b /\ y[2] \in 0 .. HQ - 1 /\ y[4] = Blocks(SeqlenQ(b)) - 1
      OBVIOUS
    <3>3. QED BY <3>1, <3>2
  <2>2. QED BY <2>1 DEF ColumnBlocks
<1>7. WorkInv'
  <2>1. stage' = "columns" =>
          \A y \in todo' : /\ y[1] \in Batch' /\ y[2] \in 0 .. HQ - 1 /\ y[4] \in Int
                           /\ y[4] <= (Blocks(SeqlenQ(y[1])) - 1)'
    BY <1>1, <1>5, <1>6, SameCall DEF Blocks
  <2>2. QED BY <1>1, <1>2, <1>4, <2>1 DEF WorkInv
<1>8. QED BY <1>3, <1>7 DEF BufferInv

LEMMA BufferNext == Fits /\ BufferInv /\ [Next]_vars => BufferInv'
<1> SUFFICES ASSUME Fits, BufferInv, [Next]_vars PROVE BufferInv'
  OBVIOUS
<1>1. CASE Memset
  BY <1>1, MemsetKeeps
<1>2. CASE Launch
  BY <1>2, LaunchKeeps
<1>3. ASSUME NEW x \in todo, DotDoO(x) PROVE BufferInv'
  BY <1>3, DotDoOKeeps
<1>4. ASSUME NEW x \in todo, Column(x) PROVE BufferInv'
  BY <1>4, ColumnKeeps
<1>5. ASSUME NEW x \in todo, ConvertDQ(x) PROVE BufferInv'
  <2>1. call' = call /\ dq_accum' = dq_accum /\ stage' = "convert_dQ"
    BY <1>5 DEF ConvertDQ
  <2>2. QED BY <2>1, SameCall DEF BufferInv, WorkInv, AccumInBounds
<1>6. CASE Reduce
  <2>1. call' = call /\ dq_accum' = dq_accum /\ stage' = "done"
    BY <1>6 DEF Reduce
  <2>2. QED BY <2>1, SameCall DEF BufferInv, WorkInv, AccumInBounds
<1>7. CASE UNCHANGED vars
  <2>1. call' = call /\ dq_accum' = dq_accum /\ stage' = stage /\ todo' = todo
    BY <1>7 DEF vars
  <2>2. \A s : Blocks(s)' = Blocks(s)
    BY DEF Blocks
  <2>3. WorkInv'
    <3>1. \A b : (Blocks(SeqlenQ(b)) - 1)' = Blocks(SeqlenQ(b)) - 1
      BY <2>1, SameCall DEF Blocks
    <3>2. QED BY <2>1, <3>1, SameCall DEF BufferInv, WorkInv
  <2>4. QED BY <2>1, <2>3, SameCall DEF BufferInv, AccumInBounds
<1>8. QED BY <1>1, <1>2, <1>3, <1>4, <1>5, <1>6, <1>7 DEF Next, Done

(* No kernel of the backward pass writes behind dq_accum: for every batch, *)
(* length, tile size and number of heads, if the head dimension is the     *)
(* kernel's own; in varlen calls also if the kernel pads it.               *)
THEOREM WritesStayInBuffer ==
  ASSUME Fits
  PROVE  Spec => []AccumInBounds
<1>1. BufferInv /\ [Next]_vars => BufferInv'
  BY BufferNext
<1>2. BufferInv => AccumInBounds
  BY DEF BufferInv
<1>3. QED BY <1>1, <1>2, BufferInit, PTL DEF Spec

-----------------------------------------------------------------------------
(* The gradients.                                                          *)
Head == 0 .. HQ - 1
Tile(r) == r \div kBlockM             \* the tile of a row
Sums == UNION {{b} \X Head \X KeyTiles(b) : b \in Batch}
Addresses == 0 .. AccumSize + kBlockM * HQ * HeadDim
Work == UNION {{b} \X Head \X KeyTiles(b) \X (-1 .. Blocks(SeqlenQ(b)) - 1) : b \in Batch}

(* The column block of key tile n has yet to do query tile j.              *)
Rest(b, h, n, j) == \E y \in todo : y[1] = b /\ y[2] = h /\ y[3] = n /\ j <= y[4]

Shares(c, tiles) == {<<c[1], c[2], c[3], c[4], n>> : n \in tiles}
Products(h, tiles) == {<<h, HeadOf(h), m>> : m \in tiles}

Shape ==
  /\ call \in Calls
  /\ stage \in {"memset", "dot_do_o", "columns", "convert_dQ", "reduce", "done"}
  /\ DOMAIN dq_accum = Addresses /\ DOMAIN dsoftmax = 0 .. call.b * HQ * Rounded - 1
  /\ DOMAIN dq = Cells /\ (stage # "done" => DOMAIN dk = Sums)
  /\ stage \in {"dot_do_o", "convert_dQ"} => todo \subseteq MBlocks
  /\ stage \in {"memset", "reduce", "done"} => todo = {}
  /\ stage = "columns" =>
       /\ todo \subseteq Work
       /\ \A y, z \in todo : y[1] = z[1] /\ y[2] = z[2] /\ y[3] = z[3] => y = z

(* dP_sum of every row that a thread block has passed.                     *)
StatsInv ==
  /\ \A a \in DOMAIN dsoftmax :
       dsoftmax[a] \in {<<-1>>, Zero} \cup (Batch \X Head \X (0 .. call.max_q - 1))
  /\ stage # "memset" =>
       \A b \in Batch, h \in Head, m \in MTiles :
         m * kBlockM < SeqlenQ(b) =>
           (stage = "dot_do_o" /\ <<b, h, m>> \in todo) \/ StatsRight(b, h, m)

(* What dq_accum holds for a row and column of the batch.                  *)
AccumInv ==
  \A c \in Cells :
    LET sum == dq_accum[AccumAddr(c[1], c[2], c[3], c[4])] IN
    /\ stage = "dot_do_o" => sum = {}
    /\ stage = "columns" =>
         sum = Shares(c, {n \in KeyTiles(c[1]) : ~ Rest(c[1], c[2], n, Tile(c[3]))})
    /\ stage = "convert_dQ" => sum = Shares(c, KeyTiles(c[1]))

ConvertInv ==
  \A c \in Cells :
    /\ stage \in {"memset", "dot_do_o", "columns"} => dq[c] = Unwritten
    /\ stage = "convert_dQ" =>
         \/ dq[c] = Unwritten /\ <<c[1], c[2], Tile(c[3])>> \in todo
         \/ dq[c] = Shares(c, KeyTiles(c[1]))
    /\ stage \in {"reduce", "done"} => dq[c] = Shares(c, KeyTiles(c[1]))

KeySumInv ==
  /\ stage # "done" =>
       \A s \in Sums :
         LET all == 0 .. Blocks(SeqlenQ(s[1])) - 1 IN
         /\ stage \in {"memset", "dot_do_o"} => dk[s] = {}
         /\ stage = "columns" =>
              dk[s] = Products(s[2], {m \in all : ~ Rest(s[1], s[2], s[3], m)})
         /\ stage \in {"convert_dQ", "reduce"} => dk[s] = Products(s[2], all)
  /\ KeyGradientsExact
  /\ stage = "done" => \A c \in DOMAIN dk : Junk \cap dk[c] = {}

SumInv == Shape /\ StatsInv /\ AccumInv /\ ConvertInv /\ KeySumInv

-----------------------------------------------------------------------------
(* Numbers in a mixed base have one representation.                        *)
LEMMA RadixApart ==
  ASSUME NEW D \in Nat \ {0}, NEW x \in Nat, NEW y \in Nat,
         NEW c \in 0 .. D - 1, NEW d \in 0 .. D - 1, x * D + c = y * D + d
  PROVE  x = y /\ c = d
<1>1. ASSUME NEW u \in Nat, NEW v \in Nat, NEW e \in 0 .. D - 1, NEW f \in 0 .. D - 1,
             u * D + e = v * D + f
      PROVE  ~ (u < v)
  <2>1. SUFFICES ASSUME u + 1 <= v PROVE FALSE
    OBVIOUS
  <2>2. (u + 1) * D <= v * D
    BY <2>1, TimesMono
  <2>3. (u + 1) * D = u * D + D /\ u * D \in Nat /\ v * D \in Nat
    BY TimesNat
  <2>4. QED BY <2>2, <2>3, <1>1
<1>2. x = y
  BY <1>1
<1>3. x * D \in Nat
  BY TimesNat
<1>4. QED BY <1>2, <1>3

(* The tile of a row.                                                      *)
LEMMA TileOfRow ==
  ASSUME NEW r \in Nat
  PROVE  /\ Tile(r) \in Nat /\ Tile(r) * kBlockM <= r
         /\ \A m \in Int : r \in RowsOf(m) <=> m = Tile(r)
<1> DEFINE k == kBlockM
           q == r \div k
<1>1. k \in Nat \ {0}
  BY FlashBwdAssumption
<1> HIDE DEF k
<1>2. q \in Nat /\ q * k <= r /\ r < (q + 1) * k
  BY <1>1
<1> HIDE DEF q
<1>3. (q + 1) * k = q * k + k /\ q * k \in Nat
  BY <1>1, <1>2, TimesNat
<1>4. r \in RowsOf(q)
  BY <1>2, <1>3, <1>1 DEF RowsOf, k
<1>5. ASSUME NEW m \in Int, r \in RowsOf(m) PROVE m = q
  <2>1. m * k <= r /\ r <= (m + 1) * k - 1 /\ m * k \in Int
    BY <1>1, <1>5 DEF RowsOf, k
  <2>2. (m + 1) * k = m * k + k
    BY <1>1
  <2>3. m \in Nat
    <3>1. SUFFICES ASSUME m + 1 <= 0 PROVE FALSE
      BY <1>5
    <3>2. -(m + 1) \in Nat /\ (-(m + 1)) * k \in Nat
      BY <1>1, <3>1, TimesNat
    <3>3. (m + 1) * k = -((-(m + 1)) * k)
      BY <1>1
    <3>4. QED BY <2>1, <2>2, <3>2, <3>3, <1>1
  <2>4. ASSUME m + 1 <= q PROVE FALSE
    <3>1. (m + 1) * k <= q * k
      BY <1>1, <1>2, <2>3, <2>4, TimesMono
    <3>2. QED BY <1>1, <1>2, <1>3, <2>1, <2>2, <3>1
  <2>5. ASSUME q + 1 <= m PROVE FALSE
    <3>1. (q + 1) * k <= m * k
      BY <1>1, <1>2, <2>3, <2>5, TimesMono
    <3>2. QED BY <1>1, <1>2, <1>3, <2>1, <3>1
  <2>6. QED BY <1>2, <2>3, <2>4, <2>5
<1>6. Tile(r) = q
  BY DEF Tile, q, k
<1>7. QED BY <1>2, <1>4, <1>5, <1>6 DEF k

LEMMA TileAmong ==
  ASSUME NEW r \in Nat, NEW s \in Nat, r < s
  PROVE  Tile(r) <= Blocks(s) - 1 /\ Blocks(s) \in Nat
<1> DEFINE k == kBlockM
           q == r \div k
           u == (s + k - 1) \div k
<1>1. k \in Nat \ {0}
  BY FlashBwdAssumption
<1>2. Tile(r) = q /\ Blocks(s) = u
  BY DEF Tile, Blocks
<1> HIDE DEF k
<1>3. q \in Nat /\ q * k <= r
  BY <1>1
<1>4. u \in Nat /\ s + k - 1 < (u + 1) * k
  BY <1>1
<1> HIDE DEF q, u
<1>5. ASSUME u <= q PROVE FALSE
  <2>1. u * k <= q * k
    BY <1>1, <1>3, <1>4, <1>5, TimesMono
  <2>2. (u + 1) * k = u * k + k /\ u * k \in Nat /\ q * k \in Nat
    BY <1>1, <1>3, <1>4, TimesNat
  <2>3. QED BY <1>1, <1>3, <1>4, <2>1, <2>2
<1>6. QED BY <1>2, <1>3, <1>4, <1>5

LEMMA BlocksAmong ==
  ASSUME NEW s \in Nat, NEW t \in Nat, s <= t
  PROVE  Blocks(s) \in Nat /\ Blocks(t) \in Nat /\ Blocks(s) <= Blocks(t)
<1> DEFINE k == kBlockM
           u == (s + k - 1) \div k
           v == (t + k - 1) \div k
<1>1. k \in Nat \ {0}
  BY FlashBwdAssumption
<1>2. Blocks(s) = u /\ Blocks(t) = v
  BY DEF Blocks
<1> HIDE DEF k
<1>3. u \in Nat /\ u * k <= s + k - 1
  BY <1>1
<1>4. v \in Nat /\ t + k - 1 < (v + 1) * k
  BY <1>1
<1> HIDE DEF u, v
<1>5. ASSUME v + 1 <= u PROVE FALSE
  <2>1. (v + 1) * k <= u * k
    BY <1>1, <1>3, <1>4, <1>5, TimesMono
  <2>2. (v + 1) * k \in Nat /\ u * k \in Nat
    BY <1>1, <1>3, <1>4, TimesNat
  <2>3. QED BY <1>1, <1>3, <1>4, <2>1, <2>2
<1>6. QED BY <1>2, <1>3, <1>4, <1>5

-----------------------------------------------------------------------------
(* Sequences lie behind one another in dq_accum.                           *)
LEMMA Lengths ==
  ASSUME call \in Calls, NEW b \in Batch
  PROVE  /\ b \in Nat /\ b + 1 <= call.b /\ SeqlenQ(b) \in Nat /\ FirstRow(b) \in Nat
         /\ SeqlenQ(b) <= call.max_q
         /\ FirstRow(b) + SeqlenQ(b) <= AccumRows
         /\ \A i \in Batch : b < i => FirstRow(b) + SeqlenQ(b) <= FirstRow(i)
<1>1. /\ call.varlen \in BOOLEAN /\ call.b \in Nat \ {0} /\ call.max_q \in Nat
      /\ call.cu \in [0 .. call.b -> Nat]
      /\ \A i, j \in 0 .. call.b : i <= j => call.cu[i] <= call.cu[j]
      /\ \A i \in 0 .. call.b - 1 : call.cu[i + 1] - call.cu[i] <= call.max_q
      /\ Rounding \in Nat
  BY FlashBwdAssumption
<1>2. /\ SeqlenQ(b) \in Nat /\ FirstRow(b) \in Nat /\ Rounded \in Nat /\ call.max_q <= Rounded
      /\ AccumRows \in Nat
  BY CallNumbers
<1>3. b \in Nat /\ b + 1 <= call.b /\ b \in 0 .. call.b - 1 /\ b \in 0 .. call.b
      /\ b + 1 \in 0 .. call.b
  BY <1>1 DEF Batch
<1>4. SeqlenQ(b) <= call.max_q
  BY <1>1, <1>3 DEF SeqlenQ
<1>5. ASSUME NEW i \in Nat, b + 1 <= i, i <= call.b
      PROVE  IF call.varlen THEN call.cu[b] + Rounding * b + SeqlenQ(b) <= call.cu[i] + Rounding * i
             ELSE b * Rounded + SeqlenQ(b) <= i * Rounded
  <2>1. CASE call.varlen
    <3>1. i \in 0 .. call.b /\ call.cu[b] \in Nat /\ call.cu[b + 1] \in Nat /\ call.cu[i] \in Nat
      <4>1. i \in 0 .. call.b
        BY <1>1, <1>3, <1>5
      <4>2. QED BY <1>1, <1>3, <4>1
    <3>2. call.cu[b + 1] <= call.cu[i] /\ SeqlenQ(b) = call.cu[b + 1] - call.cu[b]
      BY <1>1, <1>3, <1>5, <2>1, <3>1 DEF SeqlenQ
    <3>3. b * Rounding <= i * Rounding /\ b * Rounding = Rounding * b /\ i * Rounding = Rounding * i
          /\ b * Rounding \in Nat /\ i * Rounding \in Nat
      <4>1. b <= i
        BY <1>3, <1>5
      <4>2. QED BY <1>1, <1>3, <1>5, <4>1, TimesMono, TimesNat
    <3>4. QED BY <2>1, <3>1, <3>2, <3>3
  <2>2. CASE ~ call.varlen
    <3>1. (b + 1) * Rounded <= i * Rounded
      BY <1>2, <1>3, <1>5, TimesMono
    <3>2. (b + 1) * Rounded = b * Rounded + Rounded /\ b * Rounded \in Nat /\ i * Rounded \in Nat
      BY <1>2, <1>3, <1>5, TimesNat
    <3>3. QED BY <1>1, <1>2, <1>4, <2>2, <3>1, <3>2
  <2>3. QED BY <1>1, <2>1, <2>2
<1>6. FirstRow(b) + SeqlenQ(b) <= AccumRows
  <2>1. call.b \in Nat /\ b + 1 <= call.b /\ call.b <= call.b
    BY <1>1, <1>3
  <2>2. IF call.varlen THEN call.cu[b] + Rounding * b + SeqlenQ(b) <= call.cu[call.b] + Rounding * call.b
        ELSE b * Rounded + SeqlenQ(b) <= call.b * Rounded
    BY <1>5, <2>1
  <2>3. QED BY <2>2 DEF FirstRow, AccumRows, TotalQ
<1>7. ASSUME NEW i \in Batch, b < i PROVE FirstRow(b) + SeqlenQ(b) <= FirstRow(i)
  <2>1. i \in Nat /\ b + 1 <= i /\ i <= call.b
    BY <1>1, <1>3, <1>7 DEF Batch
  <2>2. IF call.varlen THEN call.cu[b] + Rounding * b + SeqlenQ(b) <= call.cu[i] + Rounding * i
        ELSE b * Rounded + SeqlenQ(b) <= i * Rounded
    BY <1>5, <2>1
  <2>3. QED BY <2>2 DEF FirstRow
<1>8. QED BY <1>2, <1>3, <1>4, <1>6, <1>7

(* The rows and columns that count have addresses of their own, inside.    *)
LEMMA CellApart ==
  ASSUME call \in Calls, NEW b \in Batch, NEW h \in Head,
         NEW r \in 0 .. SeqlenQ(b) - 1, NEW c \in 0 .. DRounded - 1,
         NEW i \in Batch, NEW g \in Head,
         NEW s \in 0 .. SeqlenQ(i) - 1, NEW d \in 0 .. DRounded - 1,
         AccumAddr(b, h, r, c) = AccumAddr(i, g, s, d)
  PROVE  b = i /\ h = g /\ r = s /\ c = d
<1> DEFINE x == FirstRow(b) + r
           y == FirstRow(i) + s
<1>1. /\ HQ \in Nat /\ DRounded \in Nat \ {0}
      /\ SeqlenQ(b) \in Nat /\ FirstRow(b) \in Nat /\ SeqlenQ(i) \in Nat /\ FirstRow(i) \in Nat
      /\ b \in Nat /\ i \in Nat
  BY Lengths, FlashBwdAssumption
<1>2. /\ HQ \in Nat \ {0} /\ h \in 0 .. HQ - 1 /\ g \in 0 .. HQ - 1 /\ h \in Nat /\ g \in Nat
      /\ r \in Nat /\ r < SeqlenQ(b) /\ s \in Nat /\ s < SeqlenQ(i) /\ x \in Nat /\ y \in Nat
  BY <1>1 DEF Head
<1>3. (x * HQ + h) * DRounded + c = (y * HQ + g) * DRounded + d
  BY DEF AccumAddr
<1> HIDE DEF x, y
<1>4. x * HQ + h \in Nat /\ y * HQ + g \in Nat
  <2>1. x * HQ \in Nat /\ y * HQ \in Nat
    BY <1>2, TimesNat
  <2>2. QED BY <2>1, <1>2
<1>5. x * HQ + h = y * HQ + g /\ c = d
  <2> DEFINE u == x * HQ + h
             v == y * HQ + g
  <2>1. u \in Nat /\ v \in Nat /\ u * DRounded + c = v * DRounded + d
    BY <1>3, <1>4
  <2> HIDE DEF u, v
  <2>2. u = v /\ c = d
    BY <1>1, <2>1, RadixApart
  <2>3. QED BY <2>2 DEF u, v
<1>6. x = y /\ h = g
  BY <1>2, <1>5, RadixApart
<1>7. FirstRow(b) + r = FirstRow(i) + s
  BY <1>6 DEF x, y
<1>8. ~ (b < i)
  <2>1. b < i => FirstRow(b) + SeqlenQ(b) <= FirstRow(i)
    BY Lengths
  <2>2. QED BY <2>1, <1>1, <1>2, <1>7
<1>9. ~ (i < b)
  <2>1. i < b => FirstRow(i) + SeqlenQ(i) <= FirstRow(b)
    BY Lengths
  <2>2. QED BY <2>1, <1>1, <1>2, <1>7
<1>10. b = i
  BY <1>1, <1>8, <1>9
<1>11. r = s
  BY <1>1, <1>2, <1>7, <1>10
<1>12. QED BY <1>5, <1>6, <1>10, <1>11

LEMMA CellInside ==
  ASSUME call \in Calls, NEW b \in Batch, NEW h \in Head,
         NEW r \in 0 .. SeqlenQ(b) - 1, NEW c \in 0 .. DRounded - 1
  PROVE  /\ AccumAddr(b, h, r, c) \in Addresses
         /\ AccumAddr(b, h, r, c) < AccumSize
<1> DEFINE x == FirstRow(b) + r
<1>1. /\ HQ \in Nat /\ DRounded \in Nat /\ kBlockM \in Nat /\ HeadDim \in Nat
      /\ SeqlenQ(b) \in Nat /\ FirstRow(b) \in Nat /\ AccumRows \in Nat /\ AccumSize \in Nat
      /\ FirstRow(b) + SeqlenQ(b) <= AccumRows
  BY Lengths, CallNumbers, FlashBwdAssumption
<1>2. x \in Nat /\ x + 1 <= AccumRows /\ h \in Nat /\ h < HQ /\ c \in Nat /\ c < DRounded
  BY <1>1 DEF Head
<1> HIDE DEF x
<1>3. /\ (x * HQ + h) * DRounded + c \in Nat
      /\ (x * HQ + h) * DRounded + c < (AccumRows * HQ) * DRounded
  BY <1>1, <1>2, RowInside
<1>4. kBlockM * HQ * HeadDim \in Nat
  BY <1>1, TimesNat
<1>5. QED BY <1>1, <1>3, <1>4 DEF AccumAddr, AccumSize, Addresses, x

(* Every row of every tile has a dP_sum of its own.                        *)
LEMMA StatApart ==
  ASSUME call \in Calls, NEW b \in Batch, NEW h \in Head, NEW r \in 0 .. Rounded - 1,
         NEW i \in Batch, NEW g \in Head, NEW s \in 0 .. Rounded - 1,
         DsoftmaxAddr(b, h, r) = DsoftmaxAddr(i, g, s)
  PROVE  b = i /\ h = g /\ r = s
<1>1. b \in Nat /\ i \in Nat /\ Rounded \in Nat /\ HQ \in Nat
  BY Lengths, CallNumbers, FlashBwdAssumption
<1>2. /\ HQ \in Nat \ {0} /\ h \in 0 .. HQ - 1 /\ g \in 0 .. HQ - 1 /\ Rounded \in Nat \ {0}
      /\ h \in Nat /\ g \in Nat
  BY <1>1 DEF Head
<1>3. b * HQ + h \in Nat /\ i * HQ + g \in Nat
  <2>1. b * HQ \in Nat /\ i * HQ \in Nat
    BY <1>1, TimesNat
  <2>2. QED BY <2>1, <1>2
<1>4. (b * HQ + h) * Rounded + r = (i * HQ + g) * Rounded + s
  BY DEF DsoftmaxAddr
<1>5. b * HQ + h = i * HQ + g /\ r = s
  BY <1>2, <1>3, <1>4, RadixApart
<1>6. b = i /\ h = g
  BY <1>1, <1>2, <1>5, RadixApart
<1>7. QED BY <1>5, <1>6

LEMMA StatInside ==
  ASSUME call \in Calls, NEW b \in Batch, NEW h \in Head, NEW r \in 0 .. Rounded - 1
  PROVE  DsoftmaxAddr(b, h, r) \in 0 .. call.b * HQ * Rounded - 1
<1>1. b \in Nat /\ b + 1 <= call.b /\ call.b \in Nat /\ Rounded \in Nat /\ HQ \in Nat
  BY Lengths, CallNumbers, FlashBwdAssumption
<1>2. h \in Nat /\ h < HQ /\ r \in Nat /\ r < Rounded
  BY <1>1 DEF Head
<1>3. /\ (b * HQ + h) * Rounded + r \in Nat
      /\ (b * HQ + h) * Rounded + r < (call.b * HQ) * Rounded
  BY <1>1, <1>2, RowInside
<1>4. (call.b * HQ) * Rounded \in Nat
  BY <1>1, TimesNat
<1>5. QED BY <1>3, <1>4 DEF DsoftmaxAddr

(* Rows of a tile that begins inside a sequence lie in the rounded length. *)
LEMMA TileRounded ==
  ASSUME call \in Calls, NEW b \in Batch, NEW m \in Nat, m * kBlockM < SeqlenQ(b),
         NEW r \in RowsOf(m)
  PROVE  r \in 0 .. Rounded - 1 /\ m \in MTiles
<1>1. /\ kBlockM \in Nat \ {0} /\ Rounding \in Nat /\ Rounding % kBlockM = 0
      /\ call.max_q \in Nat /\ Rounded \in Nat /\ call.max_q <= Rounded
      /\ SeqlenQ(b) \in Nat /\ SeqlenQ(b) <= call.max_q
  BY Lengths, CallNumbers, FlashBwdAssumption
<1>2. m * kBlockM \in Nat
  BY <1>1, TimesNat
<1>3. PICK j \in Nat : Rounded = j * kBlockM
  <2> DEFINE k == kBlockM
             R == Rounding
             u == (call.max_q + R - 1) \div R
             v == R \div k
  <2>1. v \in Nat /\ R = v * k
    BY <1>1
  <2>2. R # 0
    BY FlashBwdAssumption
  <2>3. u \in Nat
    BY <1>1, <2>2
  <2> HIDE DEF k, u, v
  <2>4. Rounded = u * R
    BY DEF Rounded, u
  <2>5. u * R = u * (v * k) /\ u * (v * k) = (u * v) * k
    BY <1>1, <2>1, <2>3 DEF k
  <2>6. u * v \in Nat
    BY <2>1, <2>3, TimesNat
  <2>7. QED BY <2>4, <2>5, <2>6 DEF k
<1>4. (m + 1) * kBlockM <= j * kBlockM
  <2>1. m * kBlockM < j * kBlockM
    BY <1>1, <1>2, <1>3
  <2>2. QED BY <1>1, <2>1, TileEnds
<1>5. r \in 0 .. Rounded - 1
  BY <1>1, <1>2, <1>3, <1>4 DEF RowsOf
<1>6. m \in MTiles
  <2> DEFINE r0 == m * kBlockM
  <2>1. r0 \in Nat /\ r0 < call.max_q
    BY <1>1, <1>2
  <2>2. r0 \in RowsOf(m)
    <3>1. (m + 1) * kBlockM = m * kBlockM + kBlockM
      BY <1>1
    <3>2. QED BY <3>1, <1>1, <1>2 DEF RowsOf
  <2> HIDE DEF r0
  <2>3. m = Tile(r0)
    BY <2>1, <2>2, TileOfRow
  <2>4. Tile(r0) <= Blocks(call.max_q) - 1 /\ Blocks(call.max_q) \in Nat
    BY <1>1, <2>1, TileAmong
  <2>5. QED BY <2>3, <2>4 DEF MTiles
<1>7. QED BY <1>5, <1>6

-----------------------------------------------------------------------------
(* What depends on the call alone.                                         *)
LEMMA SameNumbers ==
  ASSUME call' = call
  PROVE  /\ Batch' = Batch /\ Rounded' = Rounded /\ MTiles' = MTiles /\ MBlocks' = MBlocks
         /\ Cells' = Cells /\ Sums' = Sums /\ Addresses' = Addresses /\ Work' = Work
         /\ AccumSize' = AccumSize
         /\ \A b : SeqlenQ(b)' = SeqlenQ(b) /\ KeyTiles(b)' = KeyTiles(b)
         /\ \A b, h, r, c : AccumAddr(b, h, r, c)' = AccumAddr(b, h, r, c)
         /\ \A b, h, r : DsoftmaxAddr(b, h, r)' = DsoftmaxAddr(b, h, r)
         /\ \A b : Blocks(SeqlenQ(b))' = Blocks(SeqlenQ(b))
<1>1. /\ Batch' = Batch /\ Rounded' = Rounded /\ TotalQ' = TotalQ
      /\ \A b : SeqlenQ(b)' = SeqlenQ(b) /\ KeyTiles(b)' = KeyTiles(b)
  BY DEF Batch, Rounded, TotalQ, SeqlenQ, KeyTiles
<1>2. \A b : FirstRow(b)' = FirstRow(b)
  BY <1>1 DEF FirstRow
<1>3. MTiles' = MTiles
  BY DEF MTiles, Blocks
<1>4. MBlocks' = MBlocks /\ AccumRows' = AccumRows
  BY <1>1, <1>3 DEF MBlocks, AccumRows
<1>5. AccumSize' = AccumSize
  BY <1>4 DEF AccumSize
<1>6. Addresses' = Addresses
  BY <1>5 DEF Addresses
<1>7. \A b : Blocks(SeqlenQ(b))' = Blocks(SeqlenQ(b))
  BY <1>1 DEF Blocks
<1>8. Cells' = Cells
  BY <1>1 DEF Cells
<1>9. Sums' = Sums
  BY <1>1 DEF Sums
<1>10. Work' = Work
  BY <1>1 DEF Work, Blocks
<1>11. \A b, h, r, c : AccumAddr(b, h, r, c)' = AccumAddr(b, h, r, c)
  BY <1>2 DEF AccumAddr
<1>12. \A b, h, r : DsoftmaxAddr(b, h, r)' = DsoftmaxAddr(b, h, r)
  BY <1>1 DEF DsoftmaxAddr
<1>13. QED
  BY <1>1, <1>3, <1>4, <1>5, <1>6, <1>7, <1>8, <1>9, <1>10, <1>11, <1>12

(* The parts of a cell, of a sum and of a thread block.                    *)
LEMMA CellParts ==
  ASSUME NEW c \in Cells
  PROVE  /\ c = <<c[1], c[2], c[3], c[4]>> /\ c[1] \in Batch /\ c[2] \in Head
         /\ c[3] \in 0 .. SeqlenQ(c[1]) - 1 /\ c[4] \in 0 .. DRounded - 1
<1>1. PICK b \in Batch : c \in {b} \X (0 .. HQ - 1) \X (0 .. SeqlenQ(b) - 1) \X (0 .. DRounded - 1)
  BY DEF Cells
<1>2. QED BY <1>1 DEF Head

LEMMA SumParts ==
  ASSUME NEW s \in Sums
  PROVE  s = <<s[1], s[2], s[3]>> /\ s[1] \in Batch /\ s[2] \in Head /\ s[3] \in KeyTiles(s[1])
<1>1. PICK b \in Batch : s \in {b} \X Head \X KeyTiles(b)
  BY DEF Sums
<1>2. QED BY <1>1

LEMMA WorkParts ==
  ASSUME NEW x \in Work
  PROVE  /\ x = <<x[1], x[2], x[3], x[4]>> /\ x[1] \in Batch /\ x[2] \in Head
         /\ x[3] \in KeyTiles(x[1]) /\ x[4] \in -1 .. Blocks(SeqlenQ(x[1])) - 1
<1>1. PICK b \in Batch : x \in {b} \X Head \X KeyTiles(b) \X (-1 .. Blocks(SeqlenQ(b)) - 1)
  BY DEF Work
<1>2. QED BY <1>1

LEMMA MBlockParts ==
  ASSUME NEW x \in MBlocks
  PROVE  x = <<x[1], x[2], x[3]>> /\ x[1] \in Batch /\ x[2] \in Head /\ x[3] \in MTiles
BY DEF MBlocks, Head

LEMMA InitSums == Init => SumInv
<1> SUFFICES ASSUME Init PROVE SumInv
  OBVIOUS
<1>1. /\ call \in Calls /\ stage = "memset" /\ todo = {}
      /\ dq_accum = [a \in Addresses |-> IF a < AccumSize THEN Junk ELSE Foreign]
      /\ dsoftmax = [a \in 0 .. call.b * HQ * Rounded - 1 |-> <<-1>>]
      /\ dq = [c \in Cells |-> Unwritten]
      /\ dk = [s \in Sums |-> {}]
  BY DEF Init, Addresses, Sums, Head
<1>2. Shape
  BY <1>1 DEF Shape
<1>3. StatsInv
  BY <1>1 DEF StatsInv
<1>4. AccumInv
  BY <1>1 DEF AccumInv
<1>5. ConvertInv
  BY <1>1 DEF ConvertInv
<1>6. KeySumInv
  BY <1>1 DEF KeySumInv, KeyGradientsExact
<1>7. QED BY <1>2, <1>3, <1>4, <1>5, <1>6 DEF SumInv

LEMMA MemsetSums == SumInv /\ Memset => SumInv'
<1> SUFFICES ASSUME SumInv, Memset PROVE SumInv'
  OBVIOUS
<1>1. /\ stage = "memset" /\ stage' = "dot_do_o" /\ todo' = MBlocks
      /\ dq_accum' = [a \in DOMAIN dq_accum |-> IF a < AccumSize THEN {} ELSE dq_accum[a]]
      /\ call' = call /\ dsoftmax' = dsoftmax /\ dq' = dq /\ dk' = dk
  BY DEF Memset
<1>2. /\ Shape /\ StatsInv /\ ConvertInv /\ KeySumInv /\ call \in Calls
      /\ DOMAIN dq_accum = Addresses
  BY DEF SumInv, Shape
<1>3. Shape'
  BY <1>1, <1>2, SameNumbers DEF Shape
<1>4. StatsInv'
  <2>1. \A a \in DOMAIN dsoftmax' :
          dsoftmax'[a] \in {<<-1>>, Zero} \cup (Batch' \X Head \X (0 .. call'.max_q - 1))
    BY <1>1, <1>2, SameNumbers DEF StatsInv
  <2>2. \A b \in Batch', h \in Head, m \in MTiles' : <<b, h, m>> \in todo'
    BY <1>1, SameNumbers DEF MBlocks, Head
  <2>3. QED BY <1>1, <2>1, <2>2 DEF StatsInv
<1>5. AccumInv'
  <2>1. ASSUME NEW c \in Cells PROVE dq_accum'[AccumAddr(c[1], c[2], c[3], c[4])] = {}
    BY <1>1, <1>2, CellParts, CellInside
  <2>2. QED BY <1>1, <2>1, SameNumbers DEF AccumInv
<1>6. ConvertInv'
  BY <1>1, <1>2, SameNumbers DEF ConvertInv
<1>7. KeySumInv'
  BY <1>1, <1>2, SameNumbers DEF KeySumInv, KeyGradientsExact
<1>8. QED BY <1>3, <1>4, <1>5, <1>6, <1>7 DEF SumInv

LEMMA SameStats ==
  ASSUME call' = call, dsoftmax' = dsoftmax
  PROVE  \A b, h, m : StatsRight(b, h, m)' <=> StatsRight(b, h, m)
BY SameNumbers DEF StatsRight

(* The first kernel: the dP_sum of a tile, and zeros for what is zero.     *)
LEMMA DotDoOStats ==
  ASSUME SumInv, NEW x \in todo, DotDoO(x)
  PROVE  StatsInv'
<1> DEFINE b == x[1]
           h == x[2]
           m == x[3]
           row(a) == CHOOSE r \in RowsOf(m) : DsoftmaxAddr(b, h, r) = a
<1>1. /\ stage = "dot_do_o" /\ stage' = stage /\ call' = call /\ todo' = todo \ {x}
      /\ Shape /\ StatsInv /\ call \in Calls
      /\ DOMAIN dsoftmax = 0 .. call.b * HQ * Rounded - 1
  BY DEF DotDoO, SumInv, Shape
<1>2. x \in MBlocks /\ x = <<b, h, m>> /\ b \in Batch /\ h \in Head /\ m \in MTiles /\ m \in Nat
  <2>1. x \in MBlocks
    BY <1>1 DEF Shape
  <2>2. QED BY <2>1, MBlockParts DEF MTiles
<1>3. /\ SeqlenQ(b) \in Nat /\ SeqlenQ(b) <= call.max_q /\ m * kBlockM \in Nat /\ call.max_q \in Nat
  BY <1>1, <1>2, Lengths, TimesNat, FlashBwdAssumption
<1>4. CASE m * kBlockM >= SeqlenQ(b)
  <2>1. dsoftmax' = dsoftmax
    BY <1>4 DEF DotDoO
  <2>2. ASSUME NEW i \in Batch, NEW g \in Head, NEW t \in MTiles, t * kBlockM < SeqlenQ(i)
        PROVE  <<i, g, t>> \in todo' \/ StatsRight(i, g, t)'
    <3>1. <<i, g, t>> # x
      <4>1. i = b /\ t = m => FALSE
        BY <1>3, <1>4, <2>2
      <4>2. QED BY <1>2, <4>1
    <3>2. <<i, g, t>> \in todo \/ StatsRight(i, g, t)
      BY <1>1, <2>2 DEF StatsInv
    <3>3. QED BY <1>1, <2>1, <3>1, <3>2, SameStats
  <2>3. \A a \in DOMAIN dsoftmax' :
          dsoftmax'[a] \in {<<-1>>, Zero} \cup (Batch \X Head \X (0 .. call.max_q - 1))
    BY <1>1, <2>1 DEF StatsInv
  <2>4. QED BY <1>1, <2>2, <2>3, SameNumbers DEF StatsInv
<1>5. CASE ~ (m * kBlockM >= SeqlenQ(b))
  <2>1. dsoftmax' = [a \in DOMAIN dsoftmax |->
               IF \E r \in RowsOf(m) : DsoftmaxAddr(b, h, r) = a
               THEN IF row(a) < SeqlenQ(b) THEN <<b, h, row(a)>> ELSE Zero
               ELSE dsoftmax[a]]
    BY <1>5 DEF DotDoO
  <2>2. m * kBlockM < SeqlenQ(b)
    BY <1>3, <1>5
  <2> HIDE DEF b, h, m
  <2>3. ASSUME NEW r \in RowsOf(m)
        PROVE  /\ r \in 0 .. Rounded - 1 /\ r \in Nat /\ m = Tile(r)
               /\ DsoftmaxAddr(b, h, r) \in DOMAIN dsoftmax
               /\ row(DsoftmaxAddr(b, h, r)) = r
    <3>1. r \in 0 .. Rounded - 1 /\ r \in Nat
      BY <1>1, <1>2, <2>2, TileRounded, CallNumbers
    <3>2. \A s \in RowsOf(m) : DsoftmaxAddr(b, h, s) = DsoftmaxAddr(b, h, r) => s = r
      <4>1. ASSUME NEW s \in RowsOf(m), DsoftmaxAddr(b, h, s) = DsoftmaxAddr(b, h, r) PROVE s = r
        <5>1. s \in 0 .. Rounded - 1
          BY <1>1, <1>2, <2>2, TileRounded
        <5>2. QED BY <1>1, <1>2, <3>1, <4>1, <5>1, StatApart
      <4>2. QED BY <4>1
    <3>3. row(DsoftmaxAddr(b, h, r)) = r
      BY <3>2
    <3>4. m = Tile(r)
      BY <1>2, <3>1, TileOfRow
    <3>5. QED BY <1>1, <1>2, <3>1, <3>3, <3>4, StatInside
  <2> HIDE DEF row
  <2>4. ASSUME NEW a \in DOMAIN dsoftmax
        PROVE  dsoftmax'[a] \in {<<-1>>, Zero} \cup (Batch \X Head \X (0 .. call.max_q - 1))
    <3>1. CASE \E r \in RowsOf(m) : DsoftmaxAddr(b, h, r) = a
      <4>1. PICK r \in RowsOf(m) : DsoftmaxAddr(b, h, r) = a
        BY <3>1
      <4>2. r \in Nat /\ row(a) = r
        BY <2>3, <4>1
      <4>3. dsoftmax'[a] = IF r < SeqlenQ(b) THEN <<b, h, r>> ELSE Zero
        BY <2>1, <3>1, <4>2
      <4>4. r < SeqlenQ(b) => r \in 0 .. call.max_q - 1
        BY <1>3, <4>2
      <4>5. QED BY <1>2, <4>3, <4>4
    <3>2. CASE ~ \E r \in RowsOf(m) : DsoftmaxAddr(b, h, r) = a
      BY <1>1, <2>1, <3>2 DEF StatsInv
    <3>3. QED BY <3>1, <3>2
  <2>5. ASSUME NEW i \in Batch, NEW g \in Head, NEW t \in MTiles, t * kBlockM < SeqlenQ(i)
        PROVE  <<i, g, t>> \in todo' \/ StatsRight(i, g, t)'
    <3>1. CASE <<i, g, t>> = x
      <4>1. i = b /\ g = h /\ t = m
        BY <1>2, <3>1
      <4>2. ASSUME NEW r \in RowsOf(m)
            PROVE  dsoftmax'[DsoftmaxAddr(b, h, r)] = IF r < SeqlenQ(b) THEN <<b, h, r>> ELSE Zero
        BY <2>1, <2>3
      <4>3. StatsRight(i, g, t)'
        BY <1>1, <4>1, <4>2, SameNumbers DEF StatsRight
      <4>4. QED BY <4>3
    <3>2. CASE <<i, g, t>> # x
      <4>1. <<i, g, t>> \in todo \/ StatsRight(i, g, t)
        BY <1>1, <2>5 DEF StatsInv
      <4>2. ASSUME NEW s \in RowsOf(t), NEW r \in RowsOf(m),
                   DsoftmaxAddr(b, h, r) = DsoftmaxAddr(i, g, s)
            PROVE  FALSE
        <5>1. t \in Nat
          BY DEF MTiles
        <5>2. s \in 0 .. Rounded - 1 /\ s \in Nat
          BY <1>1, <2>5, <5>1, TileRounded, CallNumbers
        <5>3. r \in 0 .. Rounded - 1 /\ m = Tile(r)
          BY <2>3
        <5>4. b = i /\ h = g /\ r = s
          BY <1>1, <1>2, <4>2, <5>2, <5>3, StatApart
        <5>5. t = Tile(s)
          BY <5>1, <5>2, TileOfRow
        <5>6. QED BY <1>2, <3>2, <5>3, <5>4, <5>5
      <4>3. ASSUME NEW s \in RowsOf(t)
            PROVE  dsoftmax'[DsoftmaxAddr(i, g, s)] = dsoftmax[DsoftmaxAddr(i, g, s)]
        <5>1. DsoftmaxAddr(i, g, s) \in DOMAIN dsoftmax
          <6>1. s \in 0 .. Rounded - 1
            BY <1>1, <2>5, TileRounded DEF MTiles
          <6>2. QED BY <1>1, <6>1, StatInside
        <5>2. QED BY <2>1, <4>2, <5>1
      <4>4. StatsRight(i, g, t) => StatsRight(i, g, t)'
        BY <1>1, <4>3, SameNumbers DEF StatsRight
      <4>5. QED BY <1>1, <3>2, <4>1, <4>4
    <3>3. QED BY <3>1, <3>2
  <2>6. DOMAIN dsoftmax' = DOMAIN dsoftmax
    BY <2>1
  <2>7. QED BY <1>1, <2>4, <2>5, <2>6, SameNumbers DEF StatsInv
<1>6. QED BY <1>4, <1>5

LEMMA DotDoOSums ==
  ASSUME SumInv, NEW x \in todo, DotDoO(x)
  PROVE  SumInv'
<1>1. /\ stage = "dot_do_o" /\ stage' = stage /\ call' = call /\ todo' = todo \ {x}
      /\ dq' = dq /\ dk' = dk
      /\ DOMAIN dsoftmax' = DOMAIN dsoftmax /\ DOMAIN dq_accum' = DOMAIN dq_accum
      /\ \A a \in DOMAIN dq_accum : dq_accum'[a] = {} \/ dq_accum'[a] = dq_accum[a]
  BY DEF DotDoO
<1>2. /\ Shape /\ AccumInv /\ ConvertInv /\ KeySumInv /\ call \in Calls
      /\ DOMAIN dq_accum = Addresses
  BY DEF SumInv, Shape
<1>3. Shape'
  <2>1. todo' \subseteq MBlocks'
    BY <1>1, <1>2, SameNumbers DEF Shape
  <2>2. /\ call' \in Calls /\ DOMAIN dq_accum' = Addresses'
        /\ DOMAIN dsoftmax' = (0 .. call.b * HQ * Rounded - 1)'
        /\ DOMAIN dq' = Cells' /\ DOMAIN dk' = Sums'
    BY <1>1, <1>2, SameNumbers DEF Shape
  <2>3. QED BY <1>1, <2>1, <2>2 DEF Shape
<1>4. AccumInv'
  <2>1. ASSUME NEW c \in Cells PROVE dq_accum'[AccumAddr(c[1], c[2], c[3], c[4])] = {}
    <3>1. AccumAddr(c[1], c[2], c[3], c[4]) \in DOMAIN dq_accum
      BY <1>2, CellParts, CellInside
    <3>2. dq_accum[AccumAddr(c[1], c[2], c[3], c[4])] = {}
      BY <1>1, <1>2 DEF AccumInv
    <3>3. QED BY <1>1, <3>1, <3>2
  <2>2. QED BY <1>1, <2>1, SameNumbers DEF AccumInv
<1>5. ConvertInv'
  BY <1>1, <1>2, SameNumbers DEF ConvertInv
<1>6. KeySumInv'
  BY <1>1, <1>2, SameNumbers DEF KeySumInv, KeyGradientsExact
<1>7. StatsInv'
  BY DotDoOStats
<1>8. QED BY <1>3, <1>4, <1>5, <1>6, <1>7 DEF SumInv

(* When the kernels follow one another, the dP_sum of every row is stored. *)
LEMMA StatsStored ==
  ASSUME Shape, StatsInv, stage # "memset", stage = "dot_do_o" => todo = {},
         NEW b \in Batch, NEW h \in Head, NEW m \in 0 .. Blocks(SeqlenQ(b)) - 1
  PROVE  m \in MTiles /\ m * kBlockM < SeqlenQ(b) /\ StatsRight(b, h, m)
<1>1. /\ SeqlenQ(b) \in Nat /\ call \in Calls /\ kBlockM \in Nat \ {0}
      /\ Blocks(SeqlenQ(b)) \in Nat /\ Blocks(call.max_q) \in Nat
      /\ Blocks(SeqlenQ(b)) <= Blocks(call.max_q)
  BY Lengths, BlocksAmong, CallNumbers, FlashBwdAssumption DEF Shape
<1>2. m \in MTiles /\ m \in Nat
  BY <1>1 DEF MTiles
<1>3. m * kBlockM < SeqlenQ(b)
  <2>1. m <= (SeqlenQ(b) + kBlockM - 1) \div kBlockM - 1
    BY <1>1 DEF Blocks
  <2>2. QED BY <1>1, <1>2, <2>1, TileBegins
<1>4. QED BY <1>2, <1>3 DEF StatsInv

(* A column block that has done query tile m goes on with tile m - 1: of   *)
(* all there is left to do, this pair is struck off.                       *)
LEMMA RestStep ==
  ASSUME Shape, stage = "columns", NEW x \in todo, Column(x)
  PROVE  /\ x[4] >= 0 => Rest(x[1], x[2], x[3], x[4])
         /\ \A b, h, n : \A j \in Nat :
              Rest(b, h, n, j)' <=>
                Rest(b, h, n, j) /\ ~ (b = x[1] /\ h = x[2] /\ n = x[3] /\ j = x[4])
<1>1. /\ todo \subseteq Work
      /\ \A y, z \in todo : y[1] = z[1] /\ y[2] = z[2] /\ y[3] = z[3] => y = z
      /\ call \in Calls
  BY DEF Shape
<1>2. \A y \in todo : y[4] \in Int /\ y[4] >= -1
  <2>1. \A y \in Work : y[1] \in Batch /\ y[4] \in -1 .. Blocks(SeqlenQ(y[1])) - 1
    BY WorkParts
  <2>2. QED BY <1>1, <2>1
<1>3. x[4] >= 0 => Rest(x[1], x[2], x[3], x[4])
  BY <1>2 DEF Rest
<1>4. CASE x[4] < 0
  <2>1. todo' = todo \ {x}
    BY <1>4 DEF Column
  <2>2. ASSUME NEW b, NEW h, NEW n, NEW j \in Nat
        PROVE  Rest(b, h, n, j)' <=>
                 Rest(b, h, n, j) /\ ~ (b = x[1] /\ h = x[2] /\ n = x[3] /\ j = x[4])
    BY <1>2, <1>4, <2>1 DEF Rest
  <2>3. QED BY <1>3, <2>2
<1>5. CASE x[4] >= 0
  <2>1. todo' = (todo \ {x}) \cup {<<x[1], x[2], x[3], i>> : i \in {x[4] - 1} \cap Nat}
    BY <1>2, <1>5 DEF Column
  <2>2. ASSUME NEW b, NEW h, NEW n, NEW j \in Nat
        PROVE  Rest(b, h, n, j)' <=>
                 Rest(b, h, n, j) /\ ~ (b = x[1] /\ h = x[2] /\ n = x[3] /\ j = x[4])
    <3>1. CASE ~ (b = x[1] /\ h = x[2] /\ n = x[3])
      <4>1. ASSUME NEW y, y[1] = b, y[2] = h, y[3] = n PROVE y \in todo' <=> y \in todo
        <5>1. y # x
          BY <3>1, <4>1
        <5>2. \A i : y # <<x[1], x[2], x[3], i>>
          BY <3>1, <4>1
        <5>3. QED BY <2>1, <5>1, <5>2
      <4>2. QED BY <3>1, <4>1 DEF Rest
    <3>2. CASE b = x[1] /\ h = x[2] /\ n = x[3]
      <4>1. Rest(b, h, n, j) <=> j <= x[4]
        <5>1. \A y \in todo : y[1] = b /\ y[2] = h /\ y[3] = n => y = x
          BY <1>1, <3>2
        <5>2. QED BY <3>2, <5>1 DEF Rest
      <4>2. Rest(b, h, n, j)' <=> j <= x[4] - 1
        <5>1. ASSUME NEW y \in todo', y[1] = b, y[2] = h, y[3] = n
              PROVE  y = <<x[1], x[2], x[3], x[4] - 1>>
          <6>1. y \notin todo \ {x}
            BY <1>1, <3>2, <5>1
          <6>2. QED BY <2>1, <5>1, <6>1
        <5>2. Rest(b, h, n, j)' => j <= x[4] - 1
          BY <5>1 DEF Rest
        <5>3. ASSUME j <= x[4] - 1 PROVE Rest(b, h, n, j)'
          <6> DEFINE y == <<x[1], x[2], x[3], x[4] - 1>>
          <6>1. x[4] - 1 \in Nat
            BY <1>2, <5>3
          <6>2. y \in todo'
            BY <2>1, <6>1
          <6>3. y[1] = b /\ y[2] = h /\ y[3] = n /\ j <= y[4]
            BY <3>2, <5>3
          <6> HIDE DEF y
          <6>4. QED BY <6>2, <6>3 DEF Rest
        <5>4. QED BY <5>2, <5>3
      <4>3. QED BY <1>2, <3>2, <4>1, <4>2
    <3>3. QED BY <3>1, <3>2
  <2>3. QED BY <1>3, <2>2
<1>6. QED BY <1>2, <1>4, <1>5

LEMMA ColumnShape ==
  ASSUME Shape, NEW x \in todo, Column(x)
  PROVE  Shape'
<1>1. /\ stage = "columns" /\ stage' = stage /\ call' = call /\ dsoftmax' = dsoftmax /\ dq' = dq
      /\ DOMAIN dq_accum' = DOMAIN dq_accum /\ DOMAIN dk' = DOMAIN dk
  BY DEF Column
<1>2. /\ todo \subseteq Work
      /\ \A y, z \in todo : y[1] = z[1] /\ y[2] = z[2] /\ y[3] = z[3] => y = z
  BY <1>1 DEF Shape
<1>3. todo' \subseteq (todo \ {x}) \cup {<<x[1], x[2], x[3], i>> : i \in {x[4] - 1} \cap Nat}
  BY DEF Column
<1>4. ASSUME NEW y \in todo', y \notin todo \ {x}
      PROVE  y = <<x[1], x[2], x[3], x[4] - 1>> /\ x[4] - 1 \in Nat
  <2>1. PICK i \in {x[4] - 1} \cap Nat : y = <<x[1], x[2], x[3], i>>
    BY <1>3, <1>4
  <2>2. i = x[4] - 1 /\ i \in Nat
    OBVIOUS
  <2>3. QED BY <2>1, <2>2
<1>5. todo' \subseteq Work
  <2>1. <<x[1], x[2], x[3], x[4] - 1>> \in Work \/ x[4] - 1 \notin Nat
    <3>1. x \in Work
      BY <1>2
    <3>2. PICK b \in Batch : x \in {b} \X Head \X KeyTiles(b) \X (-1 .. Blocks(SeqlenQ(b)) - 1)
      BY <3>1 DEF Work
    <3>3. x[4] - 1 \in Nat => x[4] - 1 \in -1 .. Blocks(SeqlenQ(b)) - 1
      <4>1. SeqlenQ(b) \in Nat
        BY Lengths DEF Shape
      <4>2. Blocks(SeqlenQ(b)) \in Nat
        BY <4>1, BlocksAmong
      <4>3. QED BY <3>2, <4>2
    <3>4. QED BY <3>2, <3>3 DEF Work
  <2>2. QED BY <1>2, <1>4, <2>1
<1>6. \A y, z \in todo' : y[1] = z[1] /\ y[2] = z[2] /\ y[3] = z[3] => y = z
  <2> DEFINE w == <<x[1], x[2], x[3], x[4] - 1>>
  <2>1. w[1] = x[1] /\ w[2] = x[2] /\ w[3] = x[3]
    OBVIOUS
  <2>2. \A y \in todo' : y \in todo \ {x} \/ y = w
    BY <1>4
  <2> HIDE DEF w
  <2>3. QED BY <1>2, <2>1, <2>2
<1>7. QED BY <1>1, <1>5, <1>6, SameNumbers DEF Shape

(* What a thread block adds at the address of a row and column that count: *)
(* its own share of them, if they are in its tile, else nothing; for what  *)
(* pads the tile is zero.                                                  *)
LEMMA ShareOfCell ==
  ASSUME Shape, StatsInv, stage = "columns", NEW c \in Cells,
         NEW b \in Batch, NEW h \in Head, NEW n, NEW r \in Nat, NEW d \in Nat,
         AccumAddr(b, h, r, d) = AccumAddr(c[1], c[2], c[3], c[4])
  PROVE  Share(b, h, n, r, d) =
           IF b = c[1] /\ h = c[2] /\ r = c[3] /\ d = c[4]
           THEN {<<c[1], c[2], c[3], c[4], n>>} ELSE {}
<1>1. /\ call \in Calls /\ SeqlenQ(b) \in Nat /\ DRounded \in Nat
      /\ c[1] \in Batch /\ c[2] \in Head
      /\ c[3] \in 0 .. SeqlenQ(c[1]) - 1 /\ c[4] \in 0 .. DRounded - 1
  BY CellParts, Lengths, FlashBwdAssumption DEF Shape
<1>2. CASE r >= SeqlenQ(b) \/ d >= DRounded
  <2>1. Share(b, h, n, r, d) = {}
    BY <1>2 DEF Share
  <2>2. ~ (b = c[1] /\ h = c[2] /\ r = c[3] /\ d = c[4])
    BY <1>1, <1>2
  <2>3. QED BY <2>1, <2>2
<1>3. CASE ~ (r >= SeqlenQ(b) \/ d >= DRounded)
  <2>1. r \in 0 .. SeqlenQ(b) - 1 /\ d \in 0 .. DRounded - 1 /\ r < SeqlenQ(b)
    BY <1>1, <1>3
  <2>2. b = c[1] /\ h = c[2] /\ r = c[3] /\ d = c[4]
    BY <1>1, <2>1, CellApart
  <2>3. Tile(r) \in 0 .. Blocks(SeqlenQ(b)) - 1
    <3>1. Tile(r) \in Nat /\ Tile(r) <= Blocks(SeqlenQ(b)) - 1 /\ Blocks(SeqlenQ(b)) \in Nat
      BY <1>1, <2>1, TileOfRow, TileAmong
    <3>2. QED BY <3>1
  <2>4. StatsRight(b, h, Tile(r))
    BY <2>3, StatsStored
  <2>5. Share(b, h, n, r, d) = {<<b, h, r, d, n>>}
    BY <1>3, <2>4 DEF Share, Tile
  <2>6. QED BY <2>2, <2>5
<1>4. QED BY <1>2, <1>3

LEMMA ColumnAdds ==
  ASSUME SumInv, NEW x \in todo, Column(x), x[4] >= 0, NEW c \in Cells
  PROVE  LET a == AccumAddr(c[1], c[2], c[3], c[4]) IN
         IF c[1] = x[1] /\ c[2] = x[2] /\ Tile(c[3]) = x[4]
         THEN dq_accum'[a] = Add(dq_accum[a], {<<c[1], c[2], c[3], c[4], x[3]>>})
         ELSE dq_accum'[a] = dq_accum[a]
<1> DEFINE a == AccumAddr(c[1], c[2], c[3], c[4])
           b == x[1]
           h == x[2]
           n == x[3]
           m == x[4]
           hit == {rc \in RowsOf(m) \X (0 .. HeadDim - 1) : AccumAddr(b, h, rc[1], rc[2]) = a}
           new == UNION {Share(b, h, n, rc[1], rc[2]) : rc \in hit}
           own == {<<c[1], c[2], c[3], c[4], n>>}
<1>1. /\ stage = "columns" /\ Shape /\ StatsInv /\ call \in Calls /\ x \in Work
  BY DEF Column, SumInv, Shape
<1>2. b \in Batch /\ h \in Head /\ m \in Int /\ m >= 0
  <2>1. m \in -1 .. Blocks(SeqlenQ(b)) - 1 /\ b \in Batch /\ h \in Head
    BY <1>1, WorkParts
  <2>2. QED BY <2>1
<1>3. a \in DOMAIN dq_accum
  BY <1>1, CellParts, CellInside DEF Shape
<1>4. dq_accum'[a] = IF hit = {} THEN dq_accum[a] ELSE Add(dq_accum[a], new)
  <2>1. ~ (m < 0)
    BY <1>2
  <2>2. dq_accum' = [u \in DOMAIN dq_accum |->
               LET hits == {rc \in RowsOf(m) \X (0 .. HeadDim - 1) :
                             AccumAddr(b, h, rc[1], rc[2]) = u}
               IN IF hits = {} THEN dq_accum[u]
                  ELSE Add(dq_accum[u], UNION {Share(b, h, n, rc[1], rc[2]) : rc \in hits})]
    BY <2>1 DEF Column
  <2>3. QED BY <1>3, <2>2
<1>5. /\ c[1] \in Batch /\ c[2] \in Head /\ c[3] \in Nat /\ c[4] \in 0 .. HeadDim - 1
  <2>1. /\ c[1] \in Batch /\ c[2] \in Head /\ c[3] \in 0 .. SeqlenQ(c[1]) - 1
        /\ c[4] \in 0 .. DRounded - 1
    BY CellParts
  <2>2. SeqlenQ(c[1]) \in Nat /\ DRounded \in Nat /\ HeadDim \in Nat /\ DRounded <= HeadDim
    BY <1>1, <2>1, Lengths, FlashBwdAssumption
  <2>3. QED BY <2>1, <2>2
<1>6. /\ c[3] \in RowsOf(m) <=> Tile(c[3]) = m
      /\ RowsOf(m) \subseteq Nat /\ HeadDim \in Nat
  <2>1. kBlockM \in Nat /\ HeadDim \in Nat
    BY FlashBwdAssumption
  <2>2. m * kBlockM \in Nat
    BY <1>2, <2>1, TimesNat
  <2>3. c[3] \in RowsOf(m) <=> m = Tile(c[3])
    BY <1>2, <1>5, TileOfRow
  <2>4. QED BY <2>1, <2>2, <2>3 DEF RowsOf
<1> HIDE DEF a, b, h, n, m
<1>7. \A rc \in hit : Share(b, h, n, rc[1], rc[2]) =
        IF b = c[1] /\ h = c[2] /\ rc[1] = c[3] /\ rc[2] = c[4] THEN own ELSE {}
  <2>1. ASSUME NEW rc \in hit
        PROVE  rc[1] \in Nat /\ rc[2] \in Nat /\ AccumAddr(b, h, rc[1], rc[2]) = a
    BY <1>6
  <2> HIDE DEF hit
  <2>2. QED BY <1>1, <1>2, <2>1, ShareOfCell DEF a
<1>8. CASE c[1] = b /\ c[2] = h /\ Tile(c[3]) = m
  <2>1. <<c[3], c[4]>> \in hit
    BY <1>5, <1>6, <1>8 DEF a
  <2>2. Share(b, h, n, c[3], c[4]) = own
    BY <1>7, <1>8, <2>1
  <2>3. new = own
    <3> HIDE DEF hit
    <3>1. own \subseteq new
      BY <2>1, <2>2
    <3>2. new \subseteq own
      BY <1>7
    <3>3. QED BY <3>1, <3>2
  <2> HIDE DEF hit, new
  <2>4. QED BY <1>4, <1>8, <2>1, <2>3 DEF a, b, h, n, m
<1>9. CASE ~ (c[1] = b /\ c[2] = h /\ Tile(c[3]) = m)
  <2>1. \A rc \in hit : Share(b, h, n, rc[1], rc[2]) = {}
    <3>1. \A rc \in hit : rc[1] \in RowsOf(m)
      OBVIOUS
    <3> HIDE DEF hit
    <3>2. QED BY <1>6, <1>7, <1>9, <3>1
  <2>2. new = {}
    <3> HIDE DEF hit
    <3>1. QED BY <2>1
  <2> HIDE DEF hit, new
  <2>3. Add(dq_accum[a], {}) = dq_accum[a]
    BY DEF Add
  <2>4. QED BY <1>4, <1>9, <2>2, <2>3 DEF a, b, h, n, m
<1>10. QED BY <1>8, <1>9 DEF a, b, h, n, m

LEMMA ColumnAccum ==
  ASSUME SumInv, NEW x \in todo, Column(x)
  PROVE  AccumInv'
<1>1. /\ stage = "columns" /\ stage' = stage /\ call' = call
      /\ Shape /\ AccumInv /\ call \in Calls /\ x \in Work
  BY DEF Column, SumInv, Shape
<1>2. /\ x[3] \in KeyTiles(x[1]) /\ x[4] \in Int
      /\ x[4] >= 0 => Rest(x[1], x[2], x[3], x[4])
      /\ \A b, h, n : \A j \in Nat :
           Rest(b, h, n, j)' <=>
             Rest(b, h, n, j) /\ ~ (b = x[1] /\ h = x[2] /\ n = x[3] /\ j = x[4])
  <2>1. x[3] \in KeyTiles(x[1]) /\ x[4] \in -1 .. Blocks(SeqlenQ(x[1])) - 1
    BY <1>1, WorkParts
  <2>2. QED BY <1>1, <2>1, RestStep
<1>3. ASSUME NEW c \in Cells
      PROVE  dq_accum'[AccumAddr(c[1], c[2], c[3], c[4])] =
               Shares(c, {n \in KeyTiles(c[1]) : ~ Rest(c[1], c[2], n, Tile(c[3]))'})
  <2> DEFINE a == AccumAddr(c[1], c[2], c[3], c[4])
             done == {n \in KeyTiles(c[1]) : ~ Rest(c[1], c[2], n, Tile(c[3]))}
             next == {n \in KeyTiles(c[1]) : ~ Rest(c[1], c[2], n, Tile(c[3]))'}
  <2>1. Tile(c[3]) \in Nat
    <3>1. c[3] \in Nat
      BY CellParts
    <3>2. QED BY <3>1, TileOfRow
  <2>2. dq_accum[a] = Shares(c, done)
    BY <1>1 DEF AccumInv
  <2>3. CASE x[4] >= 0 /\ c[1] = x[1] /\ c[2] = x[2] /\ Tile(c[3]) = x[4]
    <3>1. x[3] \notin done /\ next = done \cup {x[3]}
      BY <1>2, <2>1, <2>3
    <3>2. dq_accum'[a] = Add(dq_accum[a], {<<c[1], c[2], c[3], c[4], x[3]>>})
      BY <2>3, ColumnAdds
    <3> HIDE DEF a, done, next
    <3>3. Shares(c, done) \cap {<<c[1], c[2], c[3], c[4], x[3]>>} = {}
      BY <3>1 DEF Shares
    <3>4. Shares(c, next) = Shares(c, done) \cup {<<c[1], c[2], c[3], c[4], x[3]>>}
      BY <3>1 DEF Shares
    <3>5. dq_accum'[a] = Shares(c, next)
      BY <2>2, <3>2, <3>3, <3>4 DEF Add
    <3>6. QED BY <3>5 DEF a, next
  <2>4. CASE ~ (x[4] >= 0 /\ c[1] = x[1] /\ c[2] = x[2] /\ Tile(c[3]) = x[4])
    <3>1. next = done
      <4>1. ~ (c[1] = x[1] /\ c[2] = x[2] /\ Tile(c[3]) = x[4])
        BY <2>1, <2>4
      <4>2. QED BY <1>2, <2>1, <4>1
    <3>2. dq_accum'[a] = dq_accum[a]
      <4>1. CASE x[4] >= 0
        BY <2>4, <4>1, ColumnAdds
      <4>2. CASE x[4] < 0
        BY <4>2 DEF Column
      <4>3. QED BY <1>2, <4>1, <4>2
    <3> HIDE DEF a, done, next
    <3>3. dq_accum'[a] = Shares(c, next)
      BY <2>2, <3>1, <3>2
    <3>4. QED BY <3>3 DEF a, next
  <2>5. QED BY <2>3, <2>4
<1>4. QED BY <1>1, <1>3, SameNumbers DEF AccumInv

LEMMA ColumnKeys ==
  ASSUME SumInv, NEW x \in todo, Column(x)
  PROVE  KeySumInv'
<1> DEFINE key == <<x[1], x[2], x[3]>>
<1>1. /\ stage = "columns" /\ stage' = stage /\ call' = call
      /\ Shape /\ StatsInv /\ KeySumInv /\ call \in Calls /\ x \in Work /\ DOMAIN dk = Sums
  BY DEF Column, SumInv, Shape
<1>2. /\ x[1] \in Batch /\ x[2] \in Head /\ x[3] \in KeyTiles(x[1])
      /\ x[4] \in -1 .. Blocks(SeqlenQ(x[1])) - 1 /\ x[4] \in Int
      /\ x[4] >= 0 => Rest(x[1], x[2], x[3], x[4])
      /\ \A b, h, n : \A j \in Nat :
           Rest(b, h, n, j)' <=>
             Rest(b, h, n, j) /\ ~ (b = x[1] /\ h = x[2] /\ n = x[3] /\ j = x[4])
  <2>1. /\ x[1] \in Batch /\ x[2] \in Head /\ x[3] \in KeyTiles(x[1])
        /\ x[4] \in -1 .. Blocks(SeqlenQ(x[1])) - 1
    BY <1>1, WorkParts
  <2>2. QED BY <1>1, <2>1, RestStep
<1>3. \A s \in Sums : dk'[s] =
        IF s = key /\ x[4] >= 0 THEN dk[s] \cup {<<x[2], HeadOf(x[2]), x[4]>>} ELSE dk[s]
  <2>1. CASE x[4] < 0
    <3>1. dk' = dk
      BY <2>1 DEF Column
    <3>2. QED BY <1>2, <2>1, <3>1
  <2>2. CASE x[4] >= 0
    <3>1. StatsRight(x[1], x[2], x[4])
      <4>1. x[4] \in 0 .. Blocks(SeqlenQ(x[1])) - 1
        BY <1>2, <2>2
      <4>2. QED BY <1>1, <1>2, <4>1, StatsStored
    <3>2. dk' = [dk EXCEPT ![key] = @ \cup {<<x[2], HeadOf(x[2]), x[4]>>}]
      <4>1. ~ (x[4] < 0)
        BY <1>2, <2>2
      <4>2. QED BY <3>1, <4>1 DEF Column
    <3> HIDE DEF key
    <3>3. QED BY <1>1, <2>2, <3>2
  <2>3. QED BY <1>2, <2>1, <2>2
<1>4. ASSUME NEW s \in Sums
      PROVE  dk'[s] = Products(s[2], {m \in 0 .. Blocks(SeqlenQ(s[1])) - 1 :
                                        ~ Rest(s[1], s[2], s[3], m)'})
  <2> DEFINE all == 0 .. Blocks(SeqlenQ(s[1])) - 1
             done == {m \in all : ~ Rest(s[1], s[2], s[3], m)}
             next == {m \in all : ~ Rest(s[1], s[2], s[3], m)'}
  <2>1. dk[s] = Products(s[2], done)
    BY <1>1 DEF KeySumInv
  <2>2. all \subseteq Nat
    OBVIOUS
  <2>3. s = key <=> s[1] = x[1] /\ s[2] = x[2] /\ s[3] = x[3]
    BY SumParts
  <2> HIDE DEF key, all
  <2>4. CASE s = key /\ x[4] >= 0
    <3>1. x[4] \in all
      BY <1>2, <2>3, <2>4 DEF all
    <3>2. next = done \cup {x[4]}
      BY <1>2, <2>2, <2>3, <2>4, <3>1
    <3>3. dk'[s] = dk[s] \cup {<<s[2], HeadOf(s[2]), x[4]>>}
      BY <1>3, <2>3, <2>4
    <3> HIDE DEF done, next
    <3>4. dk'[s] = Products(s[2], next)
      BY <2>1, <3>2, <3>3 DEF Products
    <3>5. QED BY <3>4 DEF next, all
  <2>5. CASE ~ (s = key /\ x[4] >= 0)
    <3>1. next = done
      <4>1. \A m \in all : ~ (s[1] = x[1] /\ s[2] = x[2] /\ s[3] = x[3] /\ m = x[4])
        BY <2>2, <2>3, <2>5
      <4>2. QED BY <1>2, <2>2, <4>1
    <3>2. dk'[s] = dk[s]
      BY <1>3, <2>5
    <3> HIDE DEF done, next
    <3>3. dk'[s] = Products(s[2], next)
      BY <2>1, <3>1, <3>2
    <3>4. QED BY <3>3 DEF next, all
  <2>6. QED BY <2>4, <2>5
<1>5. QED BY <1>1, <1>4, SameNumbers DEF KeySumInv, KeyGradientsExact

LEMMA ColumnSums ==
  ASSUME SumInv, NEW x \in todo, Column(x)
  PROVE  SumInv'
<1>1. /\ stage = "columns" /\ stage' = stage /\ call' = call /\ dsoftmax' = dsoftmax /\ dq' = dq
      /\ Shape /\ StatsInv /\ ConvertInv
  BY DEF Column, SumInv
<1>2. StatsInv'
  BY <1>1, SameNumbers, SameStats DEF StatsInv
<1>3. ConvertInv'
  BY <1>1, SameNumbers DEF ConvertInv
<1>4. QED BY <1>1, <1>2, <1>3, ColumnShape, ColumnAccum, ColumnKeys DEF SumInv

-----------------------------------------------------------------------------
(* A column block starts at the last query tile: all of it is left to do.  *)
LEMMA AllRest ==
  ASSUME Shape, todo' = ColumnBlocks, NEW b \in Batch, NEW h \in Head, NEW n \in KeyTiles(b),
         NEW j \in 0 .. Blocks(SeqlenQ(b)) - 1
  PROVE  Rest(b, h, n, j)'
<1> DEFINE y == <<b, h, n, Blocks(SeqlenQ(b)) - 1>>
<1>1. y \in todo'
  BY DEF ColumnBlocks, Head
<1>2. y[1] = b /\ y[2] = h /\ y[3] = n /\ j <= y[4]
  OBVIOUS
<1> HIDE DEF y
<1>3. QED BY <1>1, <1>2 DEF Rest

LEMMA CellTile ==
  ASSUME call \in Calls, NEW c \in Cells
  PROVE  /\ Tile(c[3]) \in 0 .. Blocks(SeqlenQ(c[1])) - 1
         /\ <<c[1], c[2], Tile(c[3])>> \in MBlocks
<1>1. c[1] \in Batch /\ c[2] \in Head /\ c[3] \in 0 .. SeqlenQ(c[1]) - 1
  BY CellParts
<1>2. /\ SeqlenQ(c[1]) \in Nat /\ SeqlenQ(c[1]) <= call.max_q /\ call.max_q \in Nat
  BY <1>1, Lengths, CallNumbers
<1>3. c[3] \in Nat /\ c[3] < SeqlenQ(c[1]) /\ c[3] < call.max_q
  BY <1>1, <1>2
<1>4. /\ Tile(c[3]) \in Nat
      /\ Tile(c[3]) <= Blocks(SeqlenQ(c[1])) - 1 /\ Blocks(SeqlenQ(c[1])) \in Nat
      /\ Tile(c[3]) <= Blocks(call.max_q) - 1 /\ Blocks(call.max_q) \in Nat
  BY <1>2, <1>3, TileOfRow, TileAmong
<1>5. QED BY <1>1, <1>4 DEF MBlocks, MTiles, Head

LEMMA ColumnsFollow == SumInv /\ Follow("dot_do_o", "columns", ColumnBlocks) => SumInv'
<1> SUFFICES ASSUME SumInv, Follow("dot_do_o", "columns", ColumnBlocks) PROVE SumInv'
  OBVIOUS
<1>1. /\ stage = "dot_do_o" /\ todo = {} /\ stage' = "columns" /\ todo' = ColumnBlocks
      /\ call' = call /\ dq_accum' = dq_accum /\ dsoftmax' = dsoftmax /\ dq' = dq /\ dk' = dk
      /\ Shape /\ StatsInv /\ AccumInv /\ ConvertInv /\ KeySumInv /\ call \in Calls
  BY DEF Follow, SumInv, Shape
<1>2. ASSUME NEW y \in ColumnBlocks
      PROVE  y \in Work /\ y = <<y[1], y[2], y[3], Blocks(SeqlenQ(y[1])) - 1>>
  <2>1. PICK b \in Batch :
          y \in {b} \X (0 .. HQ - 1) \X KeyTiles(b) \X {Blocks(SeqlenQ(b)) - 1}
    BY DEF ColumnBlocks
  <2>2. Blocks(SeqlenQ(b)) - 1 \in -1 .. Blocks(SeqlenQ(b)) - 1
    <3>1. SeqlenQ(b) \in Nat
      BY <1>1, Lengths
    <3>2. Blocks(SeqlenQ(b)) \in Nat
      BY <3>1, BlocksAmong
    <3>3. QED BY <3>2
  <2>3. y \in Work
    BY <2>1, <2>2 DEF Work, Head
  <2>4. QED BY <2>1, <2>3
<1>3. Shape'
  <2>1. todo' \subseteq Work'
    BY <1>1, <1>2, SameNumbers
  <2>2. \A y, z \in todo' : y[1] = z[1] /\ y[2] = z[2] /\ y[3] = z[3] => y = z
    <3>1. ASSUME NEW y \in ColumnBlocks, NEW z \in ColumnBlocks,
                 y[1] = z[1], y[2] = z[2], y[3] = z[3]
          PROVE  y = z
      <4>1. /\ y = <<y[1], y[2], y[3], Blocks(SeqlenQ(y[1])) - 1>>
            /\ z = <<z[1], z[2], z[3], Blocks(SeqlenQ(z[1])) - 1>>
        BY <1>2
      <4>2. QED BY <3>1, <4>1
    <3>2. QED BY <1>1, <3>1
  <2>3. /\ call' \in Calls /\ DOMAIN dq_accum' = Addresses'
        /\ DOMAIN dsoftmax' = (0 .. call.b * HQ * Rounded - 1)'
        /\ DOMAIN dq' = Cells' /\ DOMAIN dk' = Sums'
    BY <1>1, SameNumbers DEF Shape
  <2>4. QED BY <1>1, <2>1, <2>2, <2>3 DEF Shape
<1>4. StatsInv'
  BY <1>1, SameNumbers, SameStats DEF StatsInv
<1>5. AccumInv'
  <2>1. ASSUME NEW c \in Cells
        PROVE  dq_accum'[AccumAddr(c[1], c[2], c[3], c[4])] =
                 Shares(c, {n \in KeyTiles(c[1]) : ~ Rest(c[1], c[2], n, Tile(c[3]))'})
    <3>1. dq_accum'[AccumAddr(c[1], c[2], c[3], c[4])] = {}
      BY <1>1 DEF AccumInv
    <3>2. \A n \in KeyTiles(c[1]) : Rest(c[1], c[2], n, Tile(c[3]))'
      BY <1>1, CellParts, CellTile, AllRest
    <3>3. QED BY <3>1, <3>2 DEF Shares
  <2>2. QED BY <1>1, <2>1, SameNumbers DEF AccumInv
<1>6. ConvertInv'
  BY <1>1, SameNumbers DEF ConvertInv
<1>7. KeySumInv'
  <2>1. ASSUME NEW s \in Sums
        PROVE  dk'[s] = Products(s[2], {m \in 0 .. Blocks(SeqlenQ(s[1])) - 1 :
                                          ~ Rest(s[1], s[2], s[3], m)'})
    <3>1. dk'[s] = {}
      BY <1>1 DEF KeySumInv
    <3>2. \A m \in 0 .. Blocks(SeqlenQ(s[1])) - 1 : Rest(s[1], s[2], s[3], m)'
      BY <1>1, SumParts, AllRest
    <3>3. QED BY <3>1, <3>2 DEF Products
  <2>2. QED BY <1>1, <2>1, SameNumbers DEF KeySumInv, KeyGradientsExact
<1>8. QED BY <1>3, <1>4, <1>5, <1>6, <1>7 DEF SumInv

LEMMA ConvertFollows == SumInv /\ Follow("columns", "convert_dQ", MBlocks) => SumInv'
<1> SUFFICES ASSUME SumInv, Follow("columns", "convert_dQ", MBlocks) PROVE SumInv'
  OBVIOUS
<1>1. /\ stage = "columns" /\ todo = {} /\ stage' = "convert_dQ" /\ todo' = MBlocks
      /\ call' = call /\ dq_accum' = dq_accum /\ dsoftmax' = dsoftmax /\ dq' = dq /\ dk' = dk
      /\ Shape /\ StatsInv /\ AccumInv /\ ConvertInv /\ KeySumInv /\ call \in Calls
  BY DEF Follow, SumInv, Shape
<1>2. \A b, h, n, j : ~ Rest(b, h, n, j)
  BY <1>1 DEF Rest
<1>3. Shape'
  BY <1>1, SameNumbers DEF Shape
<1>4. StatsInv'
  BY <1>1, SameNumbers, SameStats DEF StatsInv
<1>5. AccumInv'
  <2>1. ASSUME NEW c \in Cells
        PROVE  dq_accum'[AccumAddr(c[1], c[2], c[3], c[4])] = Shares(c, KeyTiles(c[1]))
    <3>1. {n \in KeyTiles(c[1]) : ~ Rest(c[1], c[2], n, Tile(c[3]))} = KeyTiles(c[1])
      BY <1>2
    <3>2. QED BY <1>1, <3>1 DEF AccumInv
  <2>2. QED BY <1>1, <2>1, SameNumbers DEF AccumInv
<1>6. ConvertInv'
  <2>1. ASSUME NEW c \in Cells
        PROVE  dq'[c] = Unwritten /\ <<c[1], c[2], Tile(c[3])>> \in todo'
    BY <1>1, CellTile DEF ConvertInv
  <2>2. QED BY <1>1, <2>1, SameNumbers DEF ConvertInv
<1>7. KeySumInv'
  <2>1. ASSUME NEW s \in Sums
        PROVE  dk'[s] = Products(s[2], 0 .. Blocks(SeqlenQ(s[1])) - 1)
    <3> DEFINE all == 0 .. Blocks(SeqlenQ(s[1])) - 1
    <3>1. dk[s] = Products(s[2], {m \in all : ~ Rest(s[1], s[2], s[3], m)})
      BY <1>1 DEF KeySumInv
    <3> HIDE DEF all
    <3>2. {m \in all : ~ Rest(s[1], s[2], s[3], m)} = all
      BY <1>2
    <3>3. dk'[s] = Products(s[2], all)
      BY <1>1, <3>1, <3>2
    <3>4. QED BY <3>3 DEF all
  <2>2. QED BY <1>1, <2>1, SameNumbers DEF KeySumInv, KeyGradientsExact
<1>8. QED BY <1>3, <1>4, <1>5, <1>6, <1>7 DEF SumInv

LEMMA ReduceFollows == SumInv /\ Follow("convert_dQ", "reduce", {}) => SumInv'
<1> SUFFICES ASSUME SumInv, Follow("convert_dQ", "reduce", {}) PROVE SumInv'
  OBVIOUS
<1>1. /\ stage = "convert_dQ" /\ todo = {} /\ stage' = "reduce" /\ todo' = {}
      /\ call' = call /\ dq_accum' = dq_accum /\ dsoftmax' = dsoftmax /\ dq' = dq /\ dk' = dk
      /\ Shape /\ StatsInv /\ AccumInv /\ ConvertInv /\ KeySumInv /\ call \in Calls
  BY DEF Follow, SumInv, Shape
<1>2. Shape'
  BY <1>1, SameNumbers DEF Shape
<1>3. StatsInv'
  BY <1>1, SameNumbers, SameStats DEF StatsInv
<1>4. AccumInv'
  BY <1>1 DEF AccumInv
<1>5. ConvertInv'
  BY <1>1, SameNumbers DEF ConvertInv
<1>6. KeySumInv'
  BY <1>1, SameNumbers DEF KeySumInv, KeyGradientsExact
<1>7. QED BY <1>2, <1>3, <1>4, <1>5, <1>6 DEF SumInv

LEMMA ConvertSums ==
  ASSUME SumInv, NEW x \in todo, ConvertDQ(x)
  PROVE  SumInv'
<1>1. /\ stage = "convert_dQ" /\ stage' = stage /\ todo' = todo \ {x}
      /\ call' = call /\ dq_accum' = dq_accum /\ dsoftmax' = dsoftmax /\ dk' = dk
      /\ dq' = [c \in DOMAIN dq |->
           IF c[1] = x[1] /\ c[2] = x[2] /\ c[3] \in RowsOf(x[3])
           THEN dq_accum[AccumAddr(c[1], c[2], c[3], c[4])] ELSE dq[c]]
      /\ Shape /\ StatsInv /\ AccumInv /\ ConvertInv /\ KeySumInv /\ call \in Calls
  <2>1. ConvertDQ(x) => dq' = [c \in DOMAIN dq |->
           IF c[1] = x[1] /\ c[2] = x[2] /\ c[3] \in RowsOf(x[3])
           THEN dq_accum[AccumAddr(c[1], c[2], c[3], c[4])] ELSE dq[c]]
    BY DEF ConvertDQ
  <2>2. QED BY <2>1 DEF ConvertDQ, SumInv, Shape
<1>2. x = <<x[1], x[2], x[3]>> /\ x[3] \in Nat
  <2>1. x \in MBlocks
    BY <1>1 DEF Shape
  <2>2. QED BY <2>1, MBlockParts DEF MTiles
<1>3. Shape'
  <2>1. todo' \subseteq MBlocks'
    BY <1>1, SameNumbers DEF Shape
  <2>2. /\ call' \in Calls /\ DOMAIN dq_accum' = Addresses'
        /\ DOMAIN dsoftmax' = (0 .. call.b * HQ * Rounded - 1)'
        /\ DOMAIN dq' = Cells' /\ DOMAIN dk' = Sums'
    BY <1>1, SameNumbers DEF Shape
  <2>3. QED BY <1>1, <2>1, <2>2 DEF Shape
<1>4. StatsInv'
  BY <1>1, SameNumbers, SameStats DEF StatsInv
<1>5. AccumInv'
  BY <1>1, SameNumbers DEF AccumInv
<1>6. ConvertInv'
  <2>1. ASSUME NEW c \in Cells
        PROVE  \/ dq'[c] = Unwritten /\ <<c[1], c[2], Tile(c[3])>> \in todo'
               \/ dq'[c] = Shares(c, KeyTiles(c[1]))
    <3>1. c \in DOMAIN dq
      BY <1>1 DEF Shape
    <3>2. c[3] \in RowsOf(x[3]) <=> x[3] = Tile(c[3])
      <4>1. c[3] \in Nat
        BY CellParts
      <4>2. QED BY <1>2, <4>1, TileOfRow
    <3>3. CASE <<c[1], c[2], Tile(c[3])>> = x
      <4>1. dq'[c] = dq_accum[AccumAddr(c[1], c[2], c[3], c[4])]
        BY <1>1, <1>2, <3>1, <3>2, <3>3
      <4>2. dq_accum[AccumAddr(c[1], c[2], c[3], c[4])] = Shares(c, KeyTiles(c[1]))
        BY <1>1 DEF AccumInv
      <4>3. QED BY <4>1, <4>2
    <3>4. CASE <<c[1], c[2], Tile(c[3])>> # x
      <4>1. dq'[c] = dq[c]
        BY <1>1, <1>2, <3>1, <3>2, <3>4
      <4>2. \/ dq[c] = Unwritten /\ <<c[1], c[2], Tile(c[3])>> \in todo
            \/ dq[c] = Shares(c, KeyTiles(c[1]))
        BY <1>1 DEF ConvertInv
      <4>3. QED BY <1>1, <3>4, <4>1, <4>2
    <3>5. QED BY <3>3, <3>4
  <2>2. QED BY <1>1, <2>1, SameNumbers DEF ConvertInv
<1>7. KeySumInv'
  BY <1>1, SameNumbers DEF KeySumInv, KeyGradientsExact
<1>8. QED BY <1>3, <1>4, <1>5, <1>6, <1>7 DEF SumInv

LEMMA Quotient ==
  ASSUME NEW g \in Nat, NEW q \in Nat \ {0}
  PROVE  /\ g \div q \in Nat /\ g - (g \div q) * q \in 0 .. q - 1
         /\ g = (g \div q) * q + (g - (g \div q) * q)
<1> DEFINE u == g \div q
<1>1. u \in Nat /\ u * q <= g /\ g < (u + 1) * q
  OBVIOUS
<1> HIDE DEF u
<1>2. (u + 1) * q = u * q + q /\ u * q \in Nat
  BY <1>1, TimesNat
<1>3. QED BY <1>1, <1>2 DEF u

(* The heads that the lowering sums are those that read a head of the keys. *)
LEMMA GroupReads ==
  ASSUME NEW kh \in 0 .. HK - 1
  PROVE  Group(kh) = {g \in Head : HeadOf(g) = kh}
<1> DEFINE q == HQ \div HK
<1>1. HK \in Nat \ {0} /\ HQ \in Nat /\ HQ % HK = 0 /\ q \in Nat /\ HQ = q * HK /\ kh \in Nat
  BY FlashBwdAssumption
<1>2. /\ Group(kh) = {kh * q + j : j \in 0 .. q - 1}
      /\ \A g : HeadOf(g) = g \div q
  BY DEF Group, HeadOf
<1> HIDE DEF q
<1>3. CASE q = 0
  BY <1>1, <1>2, <1>3 DEF Head
<1>4. CASE q # 0
  <2>1. q \in Nat \ {0} /\ kh * q \in Nat
    BY <1>1, <1>4, TimesNat
  <2>2. ASSUME NEW j \in 0 .. q - 1
        PROVE  kh * q + j \in Head /\ HeadOf(kh * q + j) = kh
    <3> DEFINE g == kh * q + j
    <3>1. g \in Nat
      BY <2>1
    <3>2. (kh + 1) * q <= HK * q
      BY <1>1, TimesMono
    <3>3. (kh + 1) * q = kh * q + q /\ HK * q = q * HK
      BY <1>1
    <3>4. g < HQ
      BY <1>1, <2>1, <3>2, <3>3
    <3>5. g = kh * q + j
      OBVIOUS
    <3> HIDE DEF g
    <3>6. g \div q = kh
      <4>1. /\ g \div q \in Nat /\ g - (g \div q) * q \in 0 .. q - 1
            /\ g = (g \div q) * q + (g - (g \div q) * q)
        BY <2>1, <3>1, Quotient
      <4> DEFINE u == g \div q
                 v == g - u * q
      <4>2. u \in Nat /\ v \in 0 .. q - 1 /\ u * q + v = kh * q + j
        BY <3>5, <4>1
      <4> HIDE DEF u, v
      <4>3. u = kh
        BY <1>1, <2>1, <4>2, RadixApart
      <4>4. QED BY <4>3 DEF u
    <3>7. g \in Head
      BY <1>1, <3>1, <3>4 DEF Head
    <3>8. QED BY <1>2, <3>5, <3>6, <3>7
  <2>3. ASSUME NEW g \in Head, HeadOf(g) = kh
        PROVE  g - kh * q \in 0 .. q - 1 /\ g = kh * q + (g - kh * q)
    <3>1. g \in Nat
      BY <1>1 DEF Head
    <3>2. g - (g \div q) * q \in 0 .. q - 1
      BY <2>1, <3>1, Quotient
    <3>3. g \div q = kh
      BY <1>2, <2>3
    <3>4. g - kh * q \in 0 .. q - 1
      BY <3>2, <3>3
    <3>5. QED BY <2>1, <3>1, <3>4
  <2>4. QED BY <1>2, <2>2, <2>3
<1>5. QED BY <1>3, <1>4

LEMMA ReduceSums == SumInv /\ Reduce => SumInv'
<1> SUFFICES ASSUME SumInv, Reduce PROVE SumInv'
  OBVIOUS
<1> DEFINE groups == UNION {{b} \X (0 .. HK - 1) \X KeyTiles(b) : b \in Batch}
<1>1. /\ stage = "reduce" /\ stage' = "done" /\ todo' = todo
      /\ call' = call /\ dq_accum' = dq_accum /\ dsoftmax' = dsoftmax /\ dq' = dq
      /\ dk' = [c \in groups |-> UNION {dk[<<c[1], h, c[3]>>] : h \in Group(c[2])}]
      /\ Shape /\ StatsInv /\ AccumInv /\ ConvertInv /\ KeySumInv /\ call \in Calls
  BY DEF Reduce, SumInv, Shape
<1>2. ASSUME NEW c \in groups
      PROVE  /\ c[1] \in Batch /\ c[2] \in 0 .. HK - 1
             /\ \A h \in Head : <<c[1], h, c[3]>> \in Sums
  <2>1. PICK b \in Batch : c \in {b} \X (0 .. HK - 1) \X KeyTiles(b)
    OBVIOUS
  <2>2. QED BY <2>1 DEF Sums
<1> HIDE DEF groups
<1>3. Shape'
  BY <1>1, SameNumbers DEF Shape
<1>4. StatsInv'
  BY <1>1, SameNumbers, SameStats DEF StatsInv
<1>5. AccumInv'
  BY <1>1 DEF AccumInv
<1>6. ConvertInv'
  BY <1>1, SameNumbers DEF ConvertInv
<1>7. ASSUME NEW c \in groups
      PROVE  dk'[c] = {<<h, c[2], m>> : h \in {g \in Head : HeadOf(g) = c[2]},
                                        m \in 0 .. Blocks(SeqlenQ(c[1])) - 1}
  <2> DEFINE all == 0 .. Blocks(SeqlenQ(c[1])) - 1
             heads == {g \in Head : HeadOf(g) = c[2]}
  <2>1. dk'[c] = UNION {dk[<<c[1], h, c[3]>>] : h \in heads}
    BY <1>1, <1>2, GroupReads
  <2>2. ASSUME NEW h \in heads
        PROVE  dk[<<c[1], h, c[3]>>] = {<<h, c[2], m>> : m \in all}
    <3>1. <<c[1], h, c[3]>> \in Sums
      BY <1>2
    <3>2. dk[<<c[1], h, c[3]>>] = Products(h, all)
      BY <1>1, <3>1 DEF KeySumInv
    <3>3. HeadOf(h) = c[2]
      OBVIOUS
    <3> HIDE DEF all
    <3>4. QED BY <3>2, <3>3 DEF Products
  <2> HIDE DEF all, heads
  <2>3. dk'[c] = {<<h, c[2], m>> : h \in heads, m \in all}
    <3>1. ASSUME NEW e \in dk'[c] PROVE \E h \in heads, m \in all : e = <<h, c[2], m>>
      <4>1. PICK h \in heads : e \in dk[<<c[1], h, c[3]>>]
        BY <2>1, <3>1
      <4>2. QED BY <2>2, <4>1
    <3>2. ASSUME NEW h \in heads, NEW m \in all PROVE <<h, c[2], m>> \in dk'[c]
      <4>1. <<h, c[2], m>> \in dk[<<c[1], h, c[3]>>]
        BY <2>2
      <4>2. QED BY <2>1, <4>1
    <3>3. QED BY <3>1, <3>2
  <2>4. QED BY <2>3 DEF all, heads
<1>8. KeySumInv'
  <2>1. DOMAIN dk' = groups
    BY <1>1
  <2>2. KeyGradientsExact'
    <3>1. ASSUME NEW c \in DOMAIN dk'
          PROVE  dk'[c] = {<<h, c[2], m>> : h \in {g \in 0 .. HQ - 1 : HeadOf(g) = c[2]},
                                            m \in (0 .. Blocks(SeqlenQ(c[1])) - 1)'}
      <4>1. c \in groups
        BY <2>1
      <4>2. Blocks(SeqlenQ(c[1]))' = Blocks(SeqlenQ(c[1]))
        BY <1>1, SameNumbers
      <4>3. dk'[c] = {<<h, c[2], m>> : h \in {g \in Head : HeadOf(g) = c[2]},
                                       m \in 0 .. Blocks(SeqlenQ(c[1])) - 1}
        BY <1>7, <4>1
      <4>4. QED BY <4>2, <4>3 DEF Head
    <3>2. QED BY <3>1 DEF KeyGradientsExact
  <2>3. \A c \in DOMAIN dk' : Junk \cap dk'[c] = {}
    <3>1. ASSUME NEW c \in DOMAIN dk', NEW e \in dk'[c] PROVE e # <<-1>>
      <4>1. PICK h, m : e = <<h, c[2], m>>
        BY <1>7, <2>1, <3>1
      <4>2. QED BY <4>1
    <3>2. QED BY <3>1 DEF Junk
  <2>4. QED BY <1>1, <2>2, <2>3 DEF KeySumInv
<1>9. QED BY <1>3, <1>4, <1>5, <1>6, <1>8 DEF SumInv

LEMMA SumNext == SumInv /\ [Next]_vars => SumInv'
<1> SUFFICES ASSUME SumInv, [Next]_vars PROVE SumInv'
  OBVIOUS
<1>1. CASE Memset
  BY <1>1, MemsetSums
<1>2. CASE Launch
  BY <1>2, ColumnsFollow, ConvertFollows, ReduceFollows DEF Launch
<1>3. CASE Reduce
  BY <1>3, ReduceSums
<1>4. ASSUME NEW x \in todo, DotDoO(x) PROVE SumInv'
  BY <1>4, DotDoOSums
<1>5. ASSUME NEW x \in todo, Column(x) PROVE SumInv'
  BY <1>5, ColumnSums
<1>6. ASSUME NEW x \in todo, ConvertDQ(x) PROVE SumInv'
  BY <1>6, ConvertSums
<1>7. CASE UNCHANGED vars
  <2>1. /\ call' = call /\ stage' = stage /\ todo' = todo /\ dq_accum' = dq_accum
        /\ dsoftmax' = dsoftmax /\ dq' = dq /\ dk' = dk
        /\ Shape /\ StatsInv /\ AccumInv /\ ConvertInv /\ KeySumInv
    BY <1>7 DEF vars, SumInv
  <2>2. Shape'
    BY <2>1, SameNumbers DEF Shape
  <2>3. StatsInv'
    BY <2>1, SameNumbers, SameStats DEF StatsInv
  <2>4. \A b, h, n, j : Rest(b, h, n, j)' <=> Rest(b, h, n, j)
    BY <2>1 DEF Rest
  <2>5. AccumInv'
    BY <2>1, <2>4, SameNumbers DEF AccumInv
  <2>6. ConvertInv'
    BY <2>1, SameNumbers DEF ConvertInv
  <2>7. KeyGradientsExact'
    BY <2>1, SameNumbers DEF KeySumInv, KeyGradientsExact
  <2>8. KeySumInv'
    <3>1. ASSUME NEW s \in Sums, stage = "columns"
          PROVE  dk'[s] = Products(s[2], {m \in 0 .. Blocks(SeqlenQ(s[1])) - 1 :
                                            ~ Rest(s[1], s[2], s[3], m)'})
      BY <2>1, <2>4, <3>1 DEF KeySumInv
    <3>2. ASSUME NEW s \in Sums
          PROVE  /\ stage \in {"memset", "dot_do_o"} => dk'[s] = {}
                 /\ stage \in {"convert_dQ", "reduce"} =>
                      dk'[s] = Products(s[2], 0 .. Blocks(SeqlenQ(s[1])) - 1)
      BY <2>1 DEF KeySumInv
    <3>3. stage = "done" => \A c \in DOMAIN dk' : Junk \cap dk'[c] = {}
      BY <2>1 DEF KeySumInv
    <3>4. QED BY <2>1, <2>7, <3>1, <3>2, <3>3, SameNumbers DEF KeySumInv
  <2>9. QED BY <2>2, <2>3, <2>5, <2>6, <2>8 DEF SumInv
<1>8. QED BY <1>1, <1>2, <1>3, <1>4, <1>5, <1>6, <1>7 DEF Next, Done

-----------------------------------------------------------------------------
(* What every launch of the backward pass keeps.                           *)
THEOREM SumInvariant == Spec => []SumInv
<1>1. SumInv /\ [Next]_vars => SumInv'
  BY SumNext
<1>2. QED BY <1>1, InitSums, PTL DEF Spec

(* For every call, tile size, number of heads and head dimension: whatever *)
(* is converted to dq is the sum of the shares of exactly the key tiles of *)
(* its sequence, each added once, in any order of the thread blocks.       *)
THEOREM QueryGradientsAreExact == Spec => []QueryGradientsExact
<1>1. SumInv => QueryGradientsExact
  <2> SUFFICES ASSUME SumInv PROVE QueryGradientsExact
    OBVIOUS
  <2>1. Shape /\ ConvertInv
    BY DEF SumInv
  <2>2. ASSUME NEW c \in Cells
        PROVE  \/ dq[c] = Unwritten /\ stage # "reduce" /\ stage # "done"
               \/ dq[c] = Shares(c, KeyTiles(c[1]))
    BY <2>1 DEF Shape, ConvertInv
  <2>3. QED BY <2>1, <2>2 DEF QueryGradientsExact, Shape, Shares
<1>2. QED BY <1>1, SumInvariant, PTL

(* In the end dk, and dv, of a head of the keys sums the products of the   *)
(* query heads that read it, all of them and no other, with every tile.    *)
THEOREM KeyGradientsAreExact == Spec => []KeyGradientsExact
<1>1. SumInv => KeyGradientsExact
  BY DEF SumInv, KeySumInv
<1>2. QED BY <1>1, SumInvariant, PTL

(* No product of a backward call uses a dP_sum that is not its rows' own,  *)
(* and no gradient holds memory that was never initialised.                *)
THEOREM TypeCorrect == Spec => []TypeOK
<1>1. SumInv => TypeOK
  <2> SUFFICES ASSUME SumInv PROVE TypeOK
    OBVIOUS
  <2>1. Shape /\ StatsInv /\ ConvertInv /\ KeySumInv
    BY DEF SumInv
  <2>2. \A x \in todo : x[1] \in Batch /\ x[2] \in 0 .. HQ - 1
    <3>1. \A x \in MBlocks : x[1] \in Batch /\ x[2] \in 0 .. HQ - 1
      BY MBlockParts DEF Head
    <3>2. \A x \in Work : x[1] \in Batch /\ x[2] \in 0 .. HQ - 1
      BY WorkParts DEF Head
    <3>3. todo \subseteq MBlocks \/ todo \subseteq Work \/ todo = {}
      BY <2>1 DEF Shape
    <3>4. QED BY <3>1, <3>2, <3>3
  <2>3. \A h, tiles : Junk \cap Products(h, tiles) = {}
    <3>1. ASSUME NEW h, NEW tiles, NEW e \in Products(h, tiles) PROVE e # <<-1>>
      <4>1. PICK m : e = <<h, HeadOf(h), m>>
        BY <3>1 DEF Products
      <4>2. QED BY <4>1
    <3>2. QED BY <3>1 DEF Junk
  <2>4. \A c, tiles : Junk \cap Shares(c, tiles) = {}
    <3>1. ASSUME NEW c, NEW tiles, NEW e \in Shares(c, tiles) PROVE e # <<-1>>
      <4>1. PICK n : e = <<c[1], c[2], c[3], c[4], n>>
        BY <3>1 DEF Shares
      <4>2. QED BY <4>1
    <3>2. QED BY <3>1 DEF Junk
  <2>5. \A c \in DOMAIN dk : Junk \cap dk[c] = {}
    <3>1. CASE stage = "done"
      BY <2>1, <3>1 DEF KeySumInv
    <3>2. CASE stage # "done"
      <4>1. ASSUME NEW s \in Sums
            PROVE  dk[s] = {} \/ \E tiles : dk[s] = Products(s[2], tiles)
        <5>1. \/ stage \in {"memset", "dot_do_o"} \/ stage = "columns"
              \/ stage \in {"convert_dQ", "reduce"}
          BY <2>1, <3>2 DEF Shape
        <5>2. CASE stage \in {"memset", "dot_do_o"}
          BY <2>1, <5>2 DEF KeySumInv
        <5>3. CASE stage = "columns"
          BY <2>1, <5>3 DEF KeySumInv
        <5>4. CASE stage \in {"convert_dQ", "reduce"}
          BY <2>1, <5>4 DEF KeySumInv
        <5>5. QED BY <5>1, <5>2, <5>3, <5>4
      <4>2. QED BY <2>1, <2>3, <3>2, <4>1 DEF Shape
    <3>3. QED BY <3>1, <3>2
  <2>6. \A c \in DOMAIN dq : Junk \cap dq[c] = {}
    <3>1. ASSUME NEW c \in Cells PROVE dq[c] = Unwritten \/ dq[c] = Shares(c, KeyTiles(c[1]))
      BY <2>1 DEF Shape, ConvertInv
    <3>2. Junk \cap Unwritten = {}
      BY DEF Junk, Unwritten
    <3>3. QED BY <2>1, <2>4, <3>1, <3>2 DEF Shape
  <2>7. QED BY <2>1, <2>2, <2>5, <2>6 DEF TypeOK, Shape, StatsInv, Head
<1>2. QED BY <1>1, SumInvariant, PTL
=============================================================================
