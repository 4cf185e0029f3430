--------------------------- MODULE FlashMaskProofs ---------------------------
(***************************************************************************)
(* The arithmetic of the mask for every tile size, length and window: the  *)
(* host's window is the mask of the tests (HostKeepsMask), the tiles that  *)
(* a block visits hold all that its rows see (SeenInRange), and what it    *)
(* masks in each of them is what they do not see (KeptIsSeen).             *)
(***************************************************************************)
EXTENDS FlashMask, TLAPS

(* A call in numbers.                                                      *)
MaskCall(c) ==
  /\ c.sq \in Nat /\ c.sk \in Nat /\ c.max_sk \in Nat
  /\ c.wl \in Int /\ c.wr \in Int /\ (c.varlen \/ c.sk > 0)

(* A row of query tile m.                                                  *)
InTile(m, row) == row \in Int /\ m * kBlockM <= row /\ row < (m + 1) * kBlockM

(* Bounds of the tiles are integers; positions can be compared.            *)
LEMMA TileNumbers ==
  ASSUME NEW c, MaskCall(c), NEW m \in Nat
  PROVE  /\ NBlockMin(c, m) \in Int
         /\ NBlockMax(c, m) \in Int
         /\ NMaskingSteps(c) \in Int
         /\ m * kBlockM \in Int /\ (m + 1) * kBlockM \in Int
         /\ WindowLeft(c) \in Int /\ WindowRight(c) \in Int
<1>1. /\ c.sq \in Int /\ c.sk \in Int /\ c.max_sk \in Int
      /\ c.wl \in Int /\ c.wr \in Int /\ m \in Int
      /\ kBlockM \in Int /\ kBlockN \in Int /\ kBlockN # 0 /\ kBlockN > 0
  BY FlashMaskAssumption DEF MaskCall
<1>2. \A a \in Int : Quot(a, kBlockN) \in Int
  BY <1>1 DEF Quot
<1>3. \A a \in Int : CeilDiv(a, kBlockN) \in Int
  BY <1>1, <1>2 DEF CeilDiv
<1>4. \A a, b \in Int : AtLeast(a, b) \in Int /\ AtMost(a, b) \in Int
  BY DEF AtLeast, AtMost
<1>5. /\ m * kBlockM \in Int
      /\ (m + 1) * kBlockM \in Int
  BY <1>1
<1>6. /\ WindowLeft(c) \in Int /\ WindowRight(c) \in Int
  BY <1>1 DEF WindowLeft, WindowRight, HostLeft, HostRight, Clamp
<1>7. NBlockMin(c, m) \in Int
  <2>1. m * kBlockM + c.sk - c.sq - WindowLeft(c) \in Int
    BY <1>1, <1>5, <1>6
  <2>2. QED BY <2>1, <1>2, <1>4 DEF NBlockMin
<1>8. NBlockMax(c, m) \in Int
  <2>1. (m + 1) * kBlockM + c.sk - c.sq + WindowRight(c) \in Int
    BY <1>1, <1>5, <1>6
  <2>2. QED BY <2>1, <1>1, <1>3, <1>4 DEF NBlockMax
<1>9. NMaskingSteps(c) \in Int
  <2>1. CeilDiv(kBlockM, kBlockN) \in Int
    BY <1>1, <1>3
  <2>2. QED BY <2>1 DEF NMaskingSteps
<1>10. QED BY <1>1, <1>5, <1>6, <1>7, <1>8, <1>9

(* Division rounded up: the last tile starts before the end, and ends at   *)
(* the end when the tiles are full.                                        *)
LEMMA TilesCover ==
  ASSUME NEW a \in Nat
  PROVE  /\ CeilDiv(a, kBlockN) \in Nat
         /\ a > 0 => CeilDiv(a, kBlockN) >= 1
         /\ (CeilDiv(a, kBlockN) - 1) * kBlockN <= a
         /\ a % kBlockN = 0 => CeilDiv(a, kBlockN) * kBlockN <= a
<1> DEFINE b == kBlockN
           q == (a + b - 1) \div b
<1>1. b \in Nat /\ b > 0
  BY FlashMaskAssumption
<1>2. CeilDiv(a, b) = q
  BY <1>1 DEF CeilDiv, Quot
<1>3. q \in Int /\ q * b <= a + b - 1 /\ a + b - 1 < (q + 1) * b
  BY <1>1
<1>4. (q + 1) * b = q * b + b /\ (q - 1) * b = q * b - b
  BY <1>1, <1>3
<1>5. q >= 0
  BY <1>1, <1>3
<1>6. a > 0 => q >= 1
  BY <1>1
<1>7. ASSUME a % b = 0 PROVE q * b <= a
  <2> DEFINE p == a \div b
  <2>1. p \in Int /\ a = p * b
    BY <1>1, <1>7
  <2>2. q <= p
    <3>1. SUFFICES ASSUME q >= p + 1 PROVE FALSE
      BY <1>3, <2>1
    <3>2. q * b >= (p + 1) * b
      BY <3>1, <1>1, <1>3, <2>1
    <3>3. (p + 1) * b = p * b + b
      BY <1>1, <2>1
    <3>4. QED BY <3>2, <3>3, <2>1, <1>1, <1>3
  <2>3. QED BY <2>1, <2>2, <1>1, <1>3
<1>8. QED BY <1>1, <1>2, <1>3, <1>4, <1>5, <1>6, <1>7

(* The range of tiles of a call that does not leave at once.               *)
LEMMA TileRange ==
  ASSUME NEW c, MaskCall(c), NEW m \in Nat
  PROVE  /\ NBlockMin(c, m) >= 0
         /\ NBlockMax(c, m) <= CeilDiv(c.sk, kBlockN)
         /\ ~ EarlyExit(c, m) => NBlockMin(c, m) < NBlockMax(c, m)
         /\ NMaskingSteps(c) >= 1
<1>1. /\ NBlockMin(c, m) \in Int /\ NBlockMax(c, m) \in Int
      /\ CeilDiv(c.sk, kBlockN) \in Nat /\ c.sk \in Nat
      /\ c.varlen \/ c.sk > 0
      /\ kBlockM \in Nat /\ kBlockM > 0
  BY TileNumbers, TilesCover, FlashMaskAssumption DEF MaskCall
<1>2. NBlockMin(c, m) >= 0
  <2>1. CASE IsLocal(c)
    BY <1>1, <2>1 DEF NBlockMin, AtLeast
  <2>2. CASE ~ IsLocal(c)
    BY <2>2 DEF NBlockMin
  <2>3. QED BY <2>1, <2>2
<1>3. NBlockMax(c, m) <= CeilDiv(c.sk, kBlockN)
  BY <1>1 DEF NBlockMax, AtMost
<1>4. ASSUME ~ EarlyExit(c, m)
      PROVE  NBlockMin(c, m) < NBlockMax(c, m)
  <2>1. CASE IsCausal(c) \/ IsLocal(c) \/ ~ IsEvenMN(c)
    BY <1>1, <1>4, <2>1 DEF EarlyExit
  <2>2. CASE ~ (IsCausal(c) \/ IsLocal(c) \/ ~ IsEvenMN(c))
    <3>1. c.sk > 0
      BY <1>1, <2>2 DEF IsEvenMN
    <3>2. NBlockMin(c, m) = 0 /\ NBlockMax(c, m) = CeilDiv(c.sk, kBlockN)
      BY <2>2 DEF NBlockMin, NBlockMax
    <3>3. QED BY <3>1, <3>2, <1>1, TilesCover
  <2>3. QED BY <2>1, <2>2
<1>5. NMaskingSteps(c) >= 1
  <2>1. CeilDiv(kBlockM, kBlockN) \in Nat /\ CeilDiv(kBlockM, kBlockN) >= 1
    BY <1>1, TilesCover
  <2>2. QED BY <2>1 DEF NMaskingSteps
<1>6. QED BY <1>2, <1>3, <1>4, <1>5

-----------------------------------------------------------------------------
(* Which columns a row of the kernel sees: the mask that the host's window *)
(* and the template arguments describe, before it is cut into tiles.       *)
Diagonal(c, row) == row + c.sk - c.sq
Seen(c, row) ==
  {col \in 0 .. c.sk - 1 :
     /\ IsCausal(c) \/ IsLocal(c) => col <= Diagonal(c, row) + WindowRight(c)
     /\ IsLocal(c) => col >= Diagonal(c, row) - WindowLeft(c)}

(* Calls as the frontend makes them, whose window the host keeps: lengths  *)
(* within those the host knows, no more queries than it knows keys or a    *)
(* right window that it neither drops nor makes up.                        *)
KeepsWindow(c) ==
  /\ c.sq \in Nat /\ c.sk \in Nat /\ c.max_sq \in Nat /\ c.max_sk \in Nat
  /\ c.sq <= c.max_sq /\ c.sk <= c.max_sk
  /\ c.wl \in Int /\ c.wr \in Int /\ c.wl >= -1 /\ c.wr >= -1
  /\ \/ c.sq <= c.max_sk
     \/ HostRight(c) >= 0
     \/ HostLeft(c) < 0 /\ c.wr = -1

(* The host's parameters mean the mask of the tests.                       *)
THEOREM HostKeepsMask ==
  ASSUME NEW c, KeepsWindow(c), NEW row \in 0 .. c.sq - 1, NEW col \in 0 .. c.sk - 1
  PROVE  Attends(c, row, col) <=> col \in Seen(c, row)
<1>1. /\ c.sq \in Nat /\ c.sk \in Nat /\ c.max_sk \in Nat /\ c.max_sq \in Nat
      /\ c.wl \in Int /\ c.wr \in Int /\ c.wl >= -1 /\ c.wr >= -1
      /\ c.sq <= c.max_sq /\ c.sk <= c.max_sk /\ row \in Int /\ col \in Int
      /\ 0 <= row /\ row < c.sq /\ 0 <= col /\ col < c.sk
      /\ c.sq <= c.max_sk \/ HostRight(c) >= 0 \/ (HostLeft(c) < 0 /\ c.wr = -1)
  BY DEF KeepsWindow
<1> DEFINE d == Diagonal(c, row)
           L == HostLeft(c)
           R == HostRight(c)
<1>2. d \in Int /\ d = row + c.sk - c.sq /\ d < c.sk
  BY <1>1 DEF Diagonal
<1>3. /\ L \in Int /\ L >= -1
      /\ L = -1 => c.wl = -1 \/ c.wl >= c.max_sk
      /\ L # -1 => L = c.wl
  BY <1>1 DEF HostLeft, Clamp
<1>4. /\ R \in Int /\ R >= -1
      /\ HostCausal(c) => R = 0
      /\ ~ HostCausal(c) => (R = -1 => c.wr = -1 \/ c.wr >= c.max_sk) /\ (R # -1 => R = c.wr)
  BY <1>1 DEF HostRight, Clamp
<1>5. Attends(c, row, col) <=>
        /\ c.causal => col <= d
        /\ c.wl # -1 => col >= d - c.wl
        /\ c.wr # -1 => col <= d + c.wr
  BY <1>1, <1>2 DEF Attends
<1> HIDE DEF d, L, R
<1>6. (c.causal => col <= d) <=> (HostCausal(c) => col <= d)
  <2>1. CASE c.max_sq = 1
    BY <1>1, <1>2, <2>1 DEF HostCausal
  <2>2. CASE c.max_sq # 1
    BY <2>2 DEF HostCausal
  <2>3. QED BY <2>1, <2>2
<1>7. (c.wl # -1 => col >= d - c.wl) <=> (L # -1 => col >= d - L)
  BY <1>1, <1>2, <1>3
<1>8. (/\ c.causal => col <= d
       /\ c.wr # -1 => col <= d + c.wr) <=> (R # -1 => col <= d + R)
  <2>1. CASE HostCausal(c)
    BY <1>1, <1>2, <1>4, <1>6, <2>1
  <2>2. CASE ~ HostCausal(c) /\ R # -1
    BY <1>1, <1>2, <1>4, <1>6, <2>2
  <2>3. CASE ~ HostCausal(c) /\ R = -1
    <3>1. c.wr # -1 => c.wr >= c.max_sk /\ c.sq <= c.max_sk
      BY <1>1, <1>4, <2>3 DEF R
    <3>2. c.wr # -1 => col <= d + c.wr
      BY <1>1, <1>2, <3>1
    <3>3. QED BY <1>6, <2>3, <3>2
  <2>4. QED BY <2>1, <2>2, <2>3
<1>9. col \in Seen(c, row) <=>
        /\ IsCausal(c) \/ IsLocal(c) => col <= d + WindowRight(c)
        /\ IsLocal(c) => col >= d - WindowLeft(c)
  BY DEF Seen, d
<1>10. /\ IsCausal(c) <=> L < 0 /\ R = 0
       /\ WindowLeft(c) = IF L < 0 /\ R >= 0 THEN c.max_sk ELSE L
       /\ WindowRight(c) = IF L >= 0 /\ R < 0 THEN c.max_sk ELSE R
  BY DEF IsCausal, WindowLeft, WindowRight, L, R
<1>11. IsLocal(c) <=> (L >= 0 \/ R >= 0) /\ ~ (L < 0 /\ R = 0)
  BY <1>1, <1>3, <1>4, <1>10 DEF IsLocal
<1>12. CASE L < 0 /\ R < 0
  BY <1>3, <1>4, <1>5, <1>7, <1>8, <1>9, <1>10, <1>11, <1>12
<1>13. CASE L < 0 /\ R >= 0
  BY <1>1, <1>2, <1>3, <1>4, <1>5, <1>7, <1>8, <1>9, <1>10, <1>11, <1>13
<1>14. CASE L >= 0 /\ R >= 0
  BY <1>1, <1>2, <1>3, <1>4, <1>5, <1>7, <1>8, <1>9, <1>10, <1>11, <1>14
<1>15. CASE L >= 0 /\ R < 0
  <2>1. c.sq <= c.max_sk
    BY <1>1, <1>3, <1>4, <1>15 DEF L, R
  <2>2. QED BY <1>1, <1>2, <1>3, <1>4, <1>5, <1>7, <1>8, <1>9, <1>10, <1>11, <1>15, <2>1
<1>16. QED BY <1>3, <1>4, <1>12, <1>13, <1>14, <1>15

-----------------------------------------------------------------------------
(* Quot and CeilDiv round towards zero, also below it.                     *)
LEMMA RoundedDown ==
  ASSUME NEW a \in Int, NEW b \in Nat \ {0}
  PROVE  /\ Quot(a, b) \in Int
         /\ Quot(a, b) > 0 => Quot(a, b) * b <= a
<1>1. CASE a >= 0
  <2> DEFINE q == a \div b
  <2>1. Quot(a, b) = q
    BY <1>1 DEF Quot
  <2>2. q \in Int /\ q * b <= a
    BY <1>1
  <2>3. QED BY <2>1, <2>2
<1>2. CASE ~ a >= 0
  <2> DEFINE q == (-a) \div b
  <2>1. Quot(a, b) = -q
    BY <1>2 DEF Quot
  <2>2. q \in Int /\ q >= 0
    BY <1>2
  <2>3. QED BY <2>1, <2>2
<1>3. QED BY <1>1, <1>2

LEMMA RoundedUp ==
  ASSUME NEW a \in Int, NEW b \in Nat \ {0}
  PROVE  /\ CeilDiv(a, b) \in Int
         /\ a <= CeilDiv(a, b) * b
         /\ CeilDiv(a, b) > 0 => CeilDiv(a, b) * b <= a + b - 1
<1>1. CASE a + b - 1 >= 0
  <2> DEFINE q == (a + b - 1) \div b
  <2>1. CeilDiv(a, b) = q
    BY <1>1 DEF CeilDiv, Quot
  <2>2. q \in Int /\ q * b <= a + b - 1 /\ a + b - 1 < (q + 1) * b
    BY <1>1
  <2>3. (q + 1) * b = q * b + b
    BY <2>2
  <2>4. QED BY <2>1, <2>2, <2>3
<1>2. CASE ~ a + b - 1 >= 0
  <2> DEFINE n == -(a + b - 1)
             p == n \div b
  <2>1. CeilDiv(a, b) = -p
    BY <1>2 DEF CeilDiv, Quot
  <2>2. n \in Nat /\ p \in Int /\ p >= 0 /\ p * b <= n
    BY <1>2
  <2>3. (-p) * b = -(p * b) /\ p * b \in Int
    BY <2>2
  <2> HIDE DEF p
  <2>4. a <= (-p) * b /\ ~ (-p > 0) /\ -p \in Int
    BY <2>2, <2>3
  <2>5. QED BY <2>1, <2>4
<1>3. QED BY <1>1, <1>2

(* The numbers of a call and of one of its rows.                           *)
LEMMA MaskNumbers ==
  ASSUME NEW c, MaskCall(c), NEW m \in Nat
  PROVE  /\ c.sq \in Nat /\ c.sk \in Nat
         /\ kBlockM \in Nat \ {0} /\ kBlockN \in Nat \ {0}
         /\ WindowLeft(c) \in Int /\ WindowRight(c) \in Int
         /\ NBlockMin(c, m) \in Int /\ 0 <= NBlockMin(c, m)
         /\ NBlockMax(c, m) \in Int
         /\ NMaskingSteps(c) \in Int /\ 1 <= NMaskingSteps(c)
BY FlashMaskAssumption, TileNumbers, TileRange DEF MaskCall

LEMMA RowInTile ==
  ASSUME NEW m \in Nat, NEW row, InTile(m, row)
  PROVE  /\ row \in Int
         /\ m * kBlockM \in Int /\ (m + 1) * kBlockM \in Int
         /\ (m + 1) * kBlockM = m * kBlockM + kBlockM
         /\ m * kBlockM <= row
         /\ row < (m + 1) * kBlockM
BY FlashMaskAssumption DEF InTile

(* The tiles that a block visits hold every column its rows see.           *)
LEMMA SeenInRange ==
  ASSUME NEW c, MaskCall(c), NEW m \in Nat, NEW row, InTile(m, row),
         NEW col \in Seen(c, row)
  PROVE  /\ NBlockMin(c, m) * kBlockN <= col
         /\ col < NBlockMax(c, m) * kBlockN
<1> DEFINE first == m * kBlockM
           last == (m + 1) * kBlockM
           B == kBlockN
<1>1. /\ c.sq \in Int /\ c.sk \in Nat /\ B \in Nat \ {0}
      /\ WindowLeft(c) \in Int /\ WindowRight(c) \in Int
      /\ row \in Int /\ first \in Int /\ last \in Int /\ first <= row /\ row < last
  BY MaskNumbers, RowInTile
<1>2. /\ col \in Int /\ 0 <= col /\ col < c.sk
      /\ IsCausal(c) \/ IsLocal(c) => col <= row + c.sk - c.sq + WindowRight(c)
      /\ IsLocal(c) => col >= row + c.sk - c.sq - WindowLeft(c)
  BY <1>1 DEF Seen, Diagonal
<1> HIDE DEF first, last, B
<1>3. NBlockMin(c, m) * B <= col
  <2> DEFINE a == first + c.sk - c.sq - WindowLeft(c)
  <2>0. a \in Int
    BY <1>1
  <2>1. CASE ~ IsLocal(c) \/ ~ Quot(a, B) > 0
    <3>1. Quot(a, B) \in Int
      BY <2>0, <1>1, RoundedDown
    <3>2. NBlockMin(c, m) = 0
      BY <2>1, <3>1 DEF NBlockMin, AtLeast, first, B
    <3>3. QED BY <3>2, <1>1, <1>2
  <2>2. CASE IsLocal(c) /\ Quot(a, B) > 0
    <3>1. Quot(a, B) \in Int /\ Quot(a, B) * B <= a
      BY <2>0, <2>2, <1>1, RoundedDown
    <3>2. NBlockMin(c, m) = Quot(a, B)
      BY <2>2, <3>1 DEF NBlockMin, AtLeast, first, B
    <3>3. a <= col
      BY <2>2, <1>1, <1>2
    <3> HIDE DEF a
    <3>4. Quot(a, B) * B \in Int
      BY <3>1, <1>1
    <3>5. QED BY <3>1, <3>2, <3>3, <3>4, <1>2, <2>0
  <2>3. QED BY <2>1, <2>2
<1>4. col < NBlockMax(c, m) * B
  <2> DEFINE a == last + c.sk - c.sq + WindowRight(c)
             all == CeilDiv(c.sk, B)
             seen == CeilDiv(a, B)
  <2>0. a \in Int
    BY <1>1
  <2>1. /\ all \in Int /\ c.sk <= all * B /\ all * B \in Int
        /\ seen \in Int /\ a <= seen * B /\ seen * B \in Int
    <3>1. all \in Int /\ c.sk <= all * B /\ seen \in Int /\ a <= seen * B
      BY <2>0, <1>1, RoundedUp
    <3> HIDE DEF all, seen, a
    <3>2. QED BY <3>1, <1>1
  <2>2. NBlockMax(c, m) =
          IF IsCausal(c) \/ IsLocal(c) THEN AtMost(all, seen) ELSE all
    BY DEF NBlockMax, last, B
  <2>3. IsCausal(c) \/ IsLocal(c) => col < a
    BY <1>1, <1>2
  <2> HIDE DEF a, all, seen
  <2>4. CASE NBlockMax(c, m) = all
    BY <2>1, <2>4, <1>1, <1>2
  <2>5. CASE NBlockMax(c, m) = seen /\ (IsCausal(c) \/ IsLocal(c))
    BY <2>0, <2>1, <2>3, <2>5, <1>1, <1>2
  <2>6. QED BY <2>2, <2>4, <2>5 DEF AtMost
<1>5. QED BY <1>3, <1>4 DEF B

-----------------------------------------------------------------------------
(* Tile sizes of the instances: one is a multiple of the other.  Without   *)
(* it, one masking step too few is made for a causal mask on full tiles.   *)
TilesDivide == kBlockM % kBlockN = 0 \/ kBlockN % kBlockM = 0

(* The number whose multiples are counted.                                 *)
LEMMA Multiple ==
  ASSUME NEW a \in Nat, NEW b \in Nat \ {0}, a % b = 0
  PROVE  \E x \in Nat : a = x * b
<1>1. a \div b \in Nat /\ a = (a \div b) * b
  OBVIOUS
<1>2. QED BY <1>1

LEMMA LeastMultiple ==
  ASSUME NEW x \in Int, NEW y \in Int, NEW b \in Nat \ {0}, x * b < y * b + b
  PROVE  x <= y
<1>1. SUFFICES ASSUME x >= y + 1 PROVE FALSE
  OBVIOUS
<1>2. x * b >= (y + 1) * b
  BY <1>1
<1>3. (y + 1) * b = y * b + b
  OBVIOUS
<1>4. QED BY <1>2, <1>3

LEMMA Distribute ==
  ASSUME NEW x \in Int, NEW y \in Int, NEW b \in Int
  PROVE  /\ x * b \in Int /\ y * b \in Int
         /\ (x + y) * b = x * b + y * b /\ (x - y) * b = x * b - y * b
OBVIOUS

LEMMA Grows ==
  ASSUME NEW x \in Int, NEW y \in Int, NEW b \in Nat, x <= y
  PROVE  x * b <= y * b
OBVIOUS

(* The tiles of the second loop lie below the diagonal of the first row of *)
(* the tile, and so of all its rows.                                       *)
LEMMA BelowDiagonal ==
  ASSUME TilesDivide, NEW c, MaskCall(c), IsCausal(c), NEW m \in Nat,
         NEW t \in Nat, t < NBlockMax(c, m) - NMaskingSteps(c)
  PROVE  (t + 1) * kBlockN <= m * kBlockM + c.sk - c.sq + 1
<1> DEFINE B == kBlockN
           M == kBlockM
           first == m * M
           n == m + 1
           a == n * M + c.sk - c.sq
           seen == CeilDiv(a, B)
           k == CeilDiv(M, B)
<1>1. /\ c.sq \in Nat /\ c.sk \in Nat /\ m \in Nat
      /\ B \in Nat \ {0} /\ M \in Nat \ {0}
      /\ NBlockMax(c, m) \in Int
  BY MaskNumbers
<1>2. WindowRight(c) = 0
  BY DEF IsCausal, WindowRight
<1>3. NBlockMax(c, m) <= seen
  <2>1. a \in Int /\ n * M + c.sk - c.sq + WindowRight(c) = a
    BY <1>1, <1>2
  <2>2. seen \in Int /\ CeilDiv(c.sk, B) \in Int
    <3>1. a \in Int /\ c.sk \in Int /\ B \in Nat \ {0}
      BY <1>1, <2>1
    <3> HIDE DEF a, B
    <3>2. QED BY <3>1, RoundedUp
  <2>3. NBlockMax(c, m) = AtMost(CeilDiv(c.sk, B), seen)
    BY <2>1 DEF NBlockMax
  <2> HIDE DEF seen
  <2>4. QED BY <2>2, <2>3 DEF AtMost
<1>4. a = first + M + c.sk - c.sq /\ a \in Int /\ first \in Int /\ n \in Int
  BY <1>1
<1>5. /\ k \in Int /\ M <= k * B
      /\ k > 0 => k * B <= M + B - 1
      /\ seen \in Int
      /\ seen > 0 => seen * B <= a + B - 1
  <2>1. /\ k \in Int /\ M <= k * B
        /\ k > 0 => k * B <= M + B - 1
    <3>1. M \in Int /\ B \in Nat \ {0}
      BY <1>1
    <3> HIDE DEF M, B
    <3>2. QED BY <3>1, RoundedUp
  <2>2. /\ seen \in Int
        /\ seen > 0 => seen * B <= a + B - 1
    <3>1. a \in Int /\ B \in Nat \ {0}
      BY <1>1, <1>4
    <3> HIDE DEF a, B
    <3>2. QED BY <3>1, RoundedUp
  <2>3. QED BY <2>1, <2>2
<1>6. NMaskingSteps(c) = IF IsEvenMN(c) THEN k ELSE k + 1
  BY DEF NMaskingSteps
<1>7. k >= 1
  BY <1>1, TilesCover, RoundedUp DEF B, M, k
<1> HIDE DEF first, n, a, seen, k, B, M
<1>8. seen > 0 /\ k * B <= M + B - 1 /\ seen * B <= a + B - 1
      /\ t + 1 <= seen - NMaskingSteps(c)
  BY <1>1, <1>3, <1>5, <1>6, <1>7 
<1>9. /\ t \in Int /\ seen * B \in Int /\ k * B \in Int /\ (t + 1) * B \in Int
      /\ (seen - k) * B = seen * B - k * B
      /\ (seen - (k + 1)) * B = seen * B - k * B - B
  <2>1. /\ seen * B \in Int /\ k * B \in Int /\ (seen - k) * B = seen * B - k * B
    BY <1>1, <1>5, Distribute
  <2>2. (seen - (k + 1)) * B = (seen - k) * B - B
    BY <1>1, <1>5
  <2>3. QED BY <1>1, <2>1, <2>2
<1>10. (t + 1) * B <= first + c.sk - c.sq + 1
  <2>1. CASE ~ IsEvenMN(c)
    <3>1. (t + 1) * B <= (seen - (k + 1)) * B
      BY <1>1, <1>5, <1>6, <1>8, <2>1
    <3>2. QED BY <1>1, <1>4, <1>5, <1>8, <1>9, <3>1
  <2>2. CASE IsEvenMN(c) /\ M % B = 0
    <3>1. PICK z \in Nat : M = z * B
      BY <1>1, <2>2, Multiple
    <3>2. PICK x \in Nat : c.sk = x * B
      BY <1>1, <2>2, Multiple DEF IsEvenMN, B
    <3>3. PICK y \in Nat : c.sq = y * M
      BY <1>1, <2>2, Multiple DEF IsEvenMN, M
    <3> DEFINE g == (n - y) * z + x
    <3>4. g \in Int
      BY <1>1, <1>4
    <3>5. a = g * B
      <4>1. n * M - y * M = (n - y) * M
        BY <1>1, <1>4, Distribute
      <4>2. (n - y) * M = ((n - y) * z) * B
        BY <1>1, <1>4, <3>1
      <4>3. ((n - y) * z) * B + x * B = g * B
        BY <1>1, <1>4
      <4>4. QED BY <1>1, <1>4, <3>2, <3>3, <4>1, <4>2, <4>3 DEF a
    <3> HIDE DEF g
    <3>6. seen <= g
      <4>1. g * B \in Int
        BY <1>1, <3>4
      <4>2. seen * B < g * B + B
        BY <1>1, <1>8, <1>9, <3>5, <4>1
      <4>3. QED BY <1>1, <1>5, <3>4, <4>2, LeastMultiple
    <3>7. z <= k
      <4>1. z * B < k * B + B
        BY <1>1, <1>5, <1>9, <3>1
      <4>2. QED BY <1>1, <1>5, <4>1, LeastMultiple
    <3>8. t + 1 <= g - z
      BY <1>5, <1>6, <1>8, <2>2, <3>4, <3>6, <3>7
    <3>9. (t + 1) * B <= (g - z) * B
      BY <1>1, <3>4, <3>8
    <3>10. (g - z) * B = g * B - z * B /\ g * B \in Int /\ z * B \in Int
      BY <1>1, <3>4
    <3>11. QED BY <1>1, <1>4, <1>9, <3>1, <3>5, <3>9, <3>10
  <2>3. CASE IsEvenMN(c) /\ B % M = 0
    <3>1. PICK z \in Nat : B = z * M
      BY <1>1, <2>3, Multiple
    <3>2. PICK x \in Nat : c.sk = x * B
      BY <1>1, <2>3, Multiple DEF IsEvenMN, B
    <3>3. PICK y \in Nat : c.sq = y * M
      BY <1>1, <2>3, Multiple DEF IsEvenMN, M
    <3> DEFINE g == n - y + x * z
               h == (t + 1) * z
    <3>4. g \in Int /\ h \in Int
      BY <1>1, <1>4
    <3>5. a = g * M
      <4>1. c.sk = (x * z) * M
        BY <1>1, <3>1, <3>2
      <4>2. n * M - y * M = (n - y) * M
        BY <1>1, <1>4, Distribute
      <4>3. (n - y) * M + (x * z) * M = g * M
        BY <1>1, <1>4, Distribute
      <4>4. QED BY <1>1, <1>4, <3>3, <4>1, <4>2, <4>3 DEF a
    <3>6. (t + 1) * B = h * M
      BY <1>1, <3>1
    <3> HIDE DEF g, h
    <3>7. (t + 1) * B <= seen * B - B
      <4>1. (t + 1) * B <= (seen - k) * B
        BY <1>1, <1>5, <1>6, <1>8, <2>3
      <4>2. k * B >= B
        BY <1>1, <1>5, <1>7
      <4>3. QED BY <1>1, <1>9, <4>1, <4>2
    <3>8. h <= g - 1
      <4>1. g * M \in Int /\ (g - 1) * M = g * M - M /\ h * M \in Int
        BY <1>1, <3>4
      <4>2. h * M < (g - 1) * M + M
        BY <1>1, <1>8, <1>9, <3>5, <3>6, <3>7, <4>1
      <4>3. QED BY <1>1, <3>4, <4>2, LeastMultiple
    <3>9. h * M <= (g - 1) * M
      BY <1>1, <3>4, <3>8
    <3>10. (g - 1) * M = g * M - M /\ g * M \in Int
      BY <1>1, <3>4
    <3>11. QED BY <1>1, <1>4, <1>9, <3>5, <3>6, <3>9, <3>10
  <2>4. QED BY <2>1, <2>2, <2>3 DEF TilesDivide, B, M
<1>11. QED BY <1>10 DEF first, B, M

(* Columns of a tile before the last one lie before the end of the keys,   *)
(* and so do those of the last one if the tiles are full.                  *)
LEMMA BeforeEnd ==
  ASSUME NEW c, MaskCall(c), NEW m \in Nat, NEW t \in Nat, t < NBlockMax(c, m),
         NEW j \in 0 .. kBlockN - 1, t + 1 < NBlockMax(c, m) \/ IsEvenMN(c)
  PROVE  t * kBlockN + j < c.sk
<1> DEFINE B == kBlockN
           all == CeilDiv(c.sk, B)
<1>1. /\ c.sk \in Nat /\ B \in Nat \ {0} /\ NBlockMax(c, m) \in Int
      /\ j \in Int /\ j < B
  BY MaskNumbers
<1>2. /\ NBlockMax(c, m) <= all /\ all \in Nat
      /\ (all - 1) * B <= c.sk
      /\ c.sk % B = 0 => all * B <= c.sk
  BY <1>1, TileRange, TilesCover
<1> HIDE DEF all, B
<1>3. t * B + j < (t + 1) * B
  BY <1>1, Distribute
<1>4. CASE IsEvenMN(c)
  <2>1. all * B <= c.sk
    BY <1>2, <1>4 DEF IsEvenMN, B
  <2>2. (t + 1) * B <= all * B
    BY <1>1, <1>2, Grows
  <2>3. t * B \in Int /\ (t + 1) * B \in Int /\ all * B \in Int
    BY <1>1, <1>2
  <2>4. QED BY <1>1, <1>3, <2>1, <2>2, <2>3 DEF B
<1>5. CASE t + 1 < NBlockMax(c, m)
  <2>1. (t + 1) * B <= (all - 1) * B
    BY <1>1, <1>2, <1>5, Grows
  <2>2. t * B \in Int /\ (t + 1) * B \in Int /\ (all - 1) * B \in Int
    BY <1>1, <1>2
  <2>3. QED BY <1>1, <1>2, <1>3, <2>1, <2>2 DEF B
<1>6. QED BY <1>4, <1>5

(* In a tile of the second loop a causal row, or one without a mask, sees  *)
(* every column.                                                           *)
LEMMA SecondLoopSeesAll ==
  ASSUME TilesDivide, NEW c, MaskCall(c), NEW m \in Nat, NEW row, InTile(m, row),
         NEW j \in 0 .. kBlockN - 1,
         ~ IsLocal(c), NEW t \in Nat, t < NBlockMax(c, m) - NMaskingSteps(c)
  PROVE  t * kBlockN + j \in Seen(c, row)
<1> DEFINE B == kBlockN
           col == t * B + j
           first == m * kBlockM
<1>1. /\ c.sk \in Nat /\ c.sq \in Nat /\ B \in Nat \ {0}
      /\ NBlockMax(c, m) \in Int
      /\ NMaskingSteps(c) \in Int /\ 1 <= NMaskingSteps(c)
      /\ j \in Int /\ 0 <= j /\ j < B
  BY MaskNumbers
<1>2. row \in Int /\ first \in Int /\ first <= row
  BY RowInTile
<1>3. col < c.sk
  BY <1>1, BeforeEnd
<1> HIDE DEF B, first
<1>4. t * B \in Int /\ t * B >= 0 /\ (t + 1) * B = t * B + B
  BY <1>1
<1>5. col \in 0 .. c.sk - 1
  BY <1>1, <1>3, <1>4
<1>6. ASSUME IsCausal(c) PROVE col <= Diagonal(c, row) + WindowRight(c)
  <2>1. (t + 1) * B <= first + c.sk - c.sq + 1
    BY <1>6, BelowDiagonal DEF B, first
  <2>2. WindowRight(c) = 0
    BY <1>6 DEF IsCausal, WindowRight
  <2>3. col <= first + c.sk - c.sq
    BY <1>1, <1>2, <1>4, <2>1
  <2>4. QED BY <1>1, <1>2, <1>4, <2>2, <2>3 DEF Diagonal
<1>7. QED BY <1>5, <1>6 DEF Seen, B

(* In every tile that is visited, the kernel keeps the columns that a row  *)
(* sees: the two loops and the masks they apply agree with the window.     *)
LEMMA KeptIsSeen ==
  ASSUME TilesDivide, NEW c, MaskCall(c), NEW m \in Nat, NEW row, InTile(m, row),
         NEW j \in 0 .. kBlockN - 1,
         NEW t \in Nat, t < NBlockMax(c, m),
         NEW masking \in BOOLEAN,
         ~ masking => t < NBlockMax(c, m) - NMaskingSteps(c)
  PROVE  MaskedOut(c, masking, row, t * kBlockN + j)
           <=> t * kBlockN + j \notin Seen(c, row)
<1> DEFINE col == t * kBlockN + j
<1>1. /\ c.sk \in Nat /\ c.sq \in Nat /\ col \in Nat /\ row \in Int
      /\ WindowLeft(c) \in Int /\ WindowRight(c) \in Int
      /\ NBlockMax(c, m) \in Int
      /\ NMaskingSteps(c) \in Int
  <2>1. kBlockN \in Nat /\ j \in Nat
    BY MaskNumbers
  <2>2. col \in Nat
    BY <2>1
  <2>3. QED BY <2>2, MaskNumbers, RowInTile
<1>2. t + 1 < NBlockMax(c, m) \/ IsEvenMN(c) => col < c.sk
  BY BeforeEnd
<1>3. ~ masking /\ ~ IsLocal(c) => col \in Seen(c, row)
  BY <1>1, SecondLoopSeesAll
<1> HIDE DEF col
<1>4. /\ col >= LimitRight(c, row) <=>
           ~ (col < c.sk /\ col <= Diagonal(c, row) + WindowRight(c))
      /\ col < LimitLeft(c, row) <=> col < Diagonal(c, row) - WindowLeft(c)
  BY <1>1 DEF LimitRight, LimitLeft, AtMost, AtLeast, Diagonal
<1>5. col \in Seen(c, row) <=>
        /\ col < c.sk
        /\ IsCausal(c) \/ IsLocal(c) => col <= Diagonal(c, row) + WindowRight(c)
        /\ IsLocal(c) => ~ col < Diagonal(c, row) - WindowLeft(c)
  BY <1>1 DEF Seen, Diagonal
<1>6. CASE IsLocal(c)
  <2>1. ~ IsCausal(c)
    BY <1>6 DEF IsLocal
  <2>2. QED BY <1>4, <1>5, <1>6, <2>1 DEF MaskedOut, col
<1>7. CASE ~ IsLocal(c) /\ ~ masking
  BY <1>3, <1>7 DEF MaskedOut, col
<1>8. CASE ~ IsLocal(c) /\ masking /\ IsCausal(c)
  BY <1>4, <1>5, <1>8 DEF MaskedOut, col
<1>9. CASE ~ IsLocal(c) /\ masking /\ ~ IsCausal(c)
  <2>1. IsEvenMN(c) => col < c.sk
    BY <1>2
  <2>2. col >= c.sk <=> ~ col < c.sk
    BY <1>1
  <2>3. QED BY <1>5, <1>9, <2>1, <2>2 DEF MaskedOut, col
<1>10. QED BY <1>6, <1>7, <1>8, <1>9

(* What a row sees from tile t on.                                         *)
SeenFrom(c, row, t) == {col \in Seen(c, row) : col >= t * kBlockN}

LEMMA SeenAddsTile ==
  ASSUME NEW c, MaskCall(c), NEW row, NEW t \in Nat
  PROVE  SeenFrom(c, row, t) =
           SeenFrom(c, row, t + 1)
             \cup {t * kBlockN + j : j \in {i \in 0 .. kBlockN - 1 : t * kBlockN + i \in Seen(c, row)}}
<1> DEFINE B == kBlockN
<1>1. B \in Nat \ {0} /\ t * B \in Nat /\ (t + 1) * B = t * B + B
  <2>1. B \in Nat \ {0}
    BY MaskNumbers
  <2>2. t * B \in Nat /\ (t + 1) * B = t * B + B
    BY <2>1
  <2>3. QED BY <2>1, <2>2
<1>2. \A col \in Seen(c, row) : col \in Int
  BY MaskNumbers DEF Seen
<1>3. ASSUME NEW col \in SeenFrom(c, row, t), col \notin SeenFrom(c, row, t + 1)
      PROVE  col \in {t * kBlockN + j : j \in {i \in 0 .. kBlockN - 1 : t * kBlockN + i \in Seen(c, row)}}
  <2>1. col \in Seen(c, row) /\ col \in Int /\ t * B <= col /\ col < t * B + B
    BY <1>1, <1>2, <1>3 DEF SeenFrom
  <2>2. col - t * B \in 0 .. kBlockN - 1 /\ t * B + (col - t * B) = col
    BY <1>1, <2>1
  <2>3. QED BY <2>1, <2>2
<1>4. ASSUME NEW i \in 0 .. kBlockN - 1, t * B + i \in Seen(c, row)
      PROVE  t * B + i \in SeenFrom(c, row, t)
  BY <1>1, <1>4 DEF SeenFrom
<1>5. SeenFrom(c, row, t + 1) \subseteq SeenFrom(c, row, t)
  BY <1>1, <1>2 DEF SeenFrom
<1>6. QED BY <1>3, <1>4, <1>5
=============================================================================
