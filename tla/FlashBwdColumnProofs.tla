------------------------ MODULE FlashBwdColumnProofs ------------------------
(***************************************************************************)
(* The backward column block reads complete operands only, for every tile  *)
(* size, number of warps, set of calls, variant of the kernel and order of *)
(* copies and warps.  ColumnInv has one part for each warp alone, WarpInv, *)
(* which says where its copies are bound for and what its slices hold at   *)
(* every program counter, and one for all, InStep: two warps wait for the  *)
(* same barrier next, on the same query tile.                              *)
(*                                                                         *)
(* It also implements GradientColumns: GradientInv adds to ColumnInv what  *)
(* every warp has summed, for its columns in dk and dv and for its rows in *)
(* dq, when it has left a query tile behind.                               *)
(***************************************************************************)
EXTENDS FlashBwdColumn, FlashMaskProofs

(* Where a warp can be: copies of the prologue or of FetchQ under way; the *)
(* first products; after the copy of the next Q tile may have been issued; *)
(* on its way to FetchQ; behind the loop.                                  *)
Early   == {"waitV", "syncV", "loadV", "top"}
Middle  == {"syncA", "score", "dp", "prefetchQ"}
Late    == {"storedS", "stored", "syncB", "dv", "summed", "syncC", "fetchdO", "dq", "dk"}
Again   == {"again", "syncD", "fetchQ"}
Ending  == {"epilogue", "syncE"}
InLoop  == Early \cup Middle \cup Late \cup Again
Outside == {"start", "stage", "staged", "syncF", "store", "done"}

(* The barrier a warp waits for next, and its query tile there.            *)
Leaves == PastKeys \/ NoTile
AfterProducts(w) ==
  IF m_block[w] > mMin THEN IF call.double THEN "syncA" ELSE "syncD" ELSE "syncE"

Bound(w) ==
  IF pc[w] = "start" THEN IF Leaves THEN "end" ELSE IF call.v_in_regs THEN "syncV" ELSE "syncA"
  ELSE IF pc[w] \in {"waitV", "syncV"} THEN "syncV"
  ELSE IF pc[w] \in {"loadV", "top", "syncA", "fetchQ"} THEN "syncA"
  ELSE IF pc[w] \in {"score", "dp", "prefetchQ", "storedS", "stored", "syncB"} THEN "syncB"
  ELSE IF pc[w] \in {"dv", "summed", "syncC"} THEN "syncC"
  ELSE IF pc[w] \in {"fetchdO", "dq", "dk"} THEN AfterProducts(w)
  ELSE IF pc[w] \in {"again", "syncD"} THEN "syncD"
  ELSE IF pc[w] \in Ending THEN "syncE"
  ELSE IF pc[w] \in {"stage", "staged", "syncF"} THEN "syncF"
  ELSE "end"

BoundTile(w) ==
  IF pc[w] = "start" THEN IF Leaves THEN 0 ELSE mMax - 1
  ELSE IF pc[w] \in {"fetchdO", "dq", "dk"}
       THEN IF m_block[w] > mMin /\ call.double THEN m_block[w] - 1 ELSE m_block[w]
  ELSE IF pc[w] = "fetchQ" THEN m_block[w] - 1
  ELSE IF pc[w] \in Ending THEN m_block[w] + 1
  ELSE IF pc[w] \in {"stage", "staged", "syncF", "store", "done"} THEN 0
  ELSE m_block[w]

InStep == \A u, w \in Warp : Bound(u) = Bound(w) /\ BoundTile(u) = BoundTile(w)

-----------------------------------------------------------------------------
(* A mode that leaves no stale rows in query tile t, or in the key tile.   *)
RowMode(c, t, mode) == mode \in IF (t + 1) * kBlockM <= c.sq THEN {"all", "zero"} ELSE {"zero"}
KeyMode(c, mode) ==
  mode \in IF (c.n_block + 1) * kBlockN <= c.sk THEN {"all", "zero"} ELSE {"zero"}

HalfOf(c, t) == IF c.double THEN t % 2 ELSE 0     \* the half of sQ for query tile t

Loading(u, buf) == \E x \in copying[u] : x.buf = buf
HasQ(u, t)  == LET s == sQ[HalfOf(call, t)][u] IN s.tile = t /\ RowMode(call, t, s.mode)
HasdO(u, t) == sdO[u].tile = t /\ RowMode(call, t, sdO[u].mode)
HasK(u)     == sK[u].tile = n /\ KeyMode(call, sK[u].mode)
HasV(u)     == sV[u].tile = n /\ KeyMode(call, sV[u].mode)

(* The tiles that copies of Q and dO bring, or brought last.               *)
PrefetchedQ(u) == call.double /\ m_block[u] > mMin /\ pc[u] \in Late
FetcheddO(u)   == m_block[u] > mMin /\ pc[u] \in {"dq", "dk"} \cup Again
NextQ(u)  == IF PrefetchedQ(u) THEN m_block[u] - 1 ELSE m_block[u]
NextdO(u) == IF FetcheddO(u) THEN m_block[u] - 1 ELSE m_block[u]

Flow(u) ==
  /\ pc[u] \in InLoop => m_block[u] <= mMax - 1
  /\ pc[u] \in {"waitV", "syncV", "loadV"} => call.v_in_regs /\ m_block[u] = mMax - 1
  /\ pc[u] = "prefetchQ" => call.double /\ m_block[u] > mMin
  /\ pc[u] \in Again => ~ call.double /\ m_block[u] > mMin

Copies(u) ==
  \A x \in copying[u] :
    /\ x.buf = "Q" => /\ x.tile = NextQ(u) /\ RowMode(call, x.tile, x.mode)
                      /\ (pc[u] \in Early \/ PrefetchedQ(u))
    /\ x.buf = "dO" => /\ x.tile = NextdO(u) /\ RowMode(call, x.tile, x.mode)
                       /\ (pc[u] \in Early \/ FetcheddO(u))
    /\ x.buf \in {"K", "V"} => /\ x.tile = n /\ KeyMode(call, x.mode)
                               /\ pc[u] \in Early /\ m_block[u] = mMax - 1
    /\ x.buf = "V" /\ call.v_in_regs => pc[u] = "waitV"

Pointers(u) ==
  pc[u] \in InLoop => /\ half[u].tQ = HalfOf(call, NextQ(u))
                      /\ half[u].tS = HalfOf(call, NextQ(u))
                      /\ half[u].tdK = HalfOf(call, m_block[u])

(* A warp that has gone on to the next tile, or left the loop, still has   *)
(* the Q and dS of the last one.                                           *)
GoneOn(u) == (pc[u] \in {"top", "syncA"} /\ m_block[u] < mMax - 1) \/ pc[u] \in Ending

SliceQ(u) ==
  /\ pc[u] \in Early /\ ~ Loading(u, "Q") => HasQ(u, m_block[u])
  /\ pc[u] \in Middle \cup Late \cup Again => HasQ(u, m_block[u])
  /\ PrefetchedQ(u) /\ ~ Loading(u, "Q") => HasQ(u, m_block[u] - 1)
  /\ GoneOn(u) /\ (call.double \/ pc[u] \in Ending) => HasQ(u, m_block[u] + 1)

SlicedO(u) ==
  /\ pc[u] \in Early /\ ~ Loading(u, "dO") => HasdO(u, m_block[u])
  /\ pc[u] \in Middle \cup (Late \ {"dq", "dk"}) => HasdO(u, m_block[u])
  /\ FetcheddO(u) /\ ~ Loading(u, "dO") => HasdO(u, m_block[u] - 1)

SliceKV(u) ==
  /\ pc[u] \in InLoop \cup Ending /\ ~ Loading(u, "K") => HasK(u)
  /\ pc[u] \in InLoop \cup Ending /\ ~ call.v_in_regs /\ ~ Loading(u, "V") => HasV(u)
  /\ pc[u] \in Early \cup {"syncA"} /\ m_block[u] = mMax - 1 /\ ~ Loading(u, "V") => HasV(u)
  /\ pc[u] \in InLoop \ {"waitV", "syncV", "loadV"} /\ call.v_in_regs => vreg[u]

Scores(u) ==
  /\ pc[u] \in {"dp", "prefetchQ", "storedS", "stored", "syncB", "dv", "summed", "syncC"}
       => sP[u] = m_block[u]
  /\ pc[u] \in {"prefetchQ", "storedS"} => ds[u] = m_block[u]
  /\ pc[u] \in (Late \ {"storedS"}) \cup Again => sdS[u] = m_block[u]
  /\ GoneOn(u) => sdS[u] = m_block[u] + 1
  /\ pc[u] \in Early \cup Middle \cup (Late \ {"dk"}) => stat[u] = m_block[u]
  /\ pc[u] \in {"dk"} \cup Again /\ m_block[u] > mMin => stat[u] = m_block[u] - 1

WarpInv(u) ==
  Flow(u) /\ Copies(u) /\ Pointers(u) /\ SliceQ(u) /\ SlicedO(u) /\ SliceKV(u) /\ Scores(u)

(* The variables are functions on the warps, and two halves of sQ.         *)
Domains ==
  /\ call \in Calls
  /\ pc \in [Warp -> InLoop \cup Ending \cup Outside] /\ m_block \in [Warp -> Int]
  /\ half \in [Warp -> [tQ : Int, tS : Int, tdK : Int]] /\ stat \in [Warp -> Int]
  /\ copying \in [Warp -> SUBSET [buf : {"Q", "dO", "K", "V"}, tile : Int, mode : Mode]]
  /\ sQ \in [0 .. 1 -> [Warp -> [tile : Int, mode : Mode]]]
  /\ sdO \in [Warp -> [tile : Int, mode : Mode]]
  /\ sK \in [Warp -> [tile : Int, mode : Mode]]
  /\ sV \in [Warp -> [tile : Int, mode : Mode]]
  /\ vreg \in [Warp -> BOOLEAN]
  /\ sP \in [Warp -> Int] /\ sdS \in [Warp -> Int] /\ ds \in [Warp -> Int]

ColumnInv == Domains /\ InStep /\ \A u \in Warp : WarpInv(u)

-----------------------------------------------------------------------------
LEMMA Fixed ==
  ASSUME call' = call
  PROVE  n' = n /\ mMax' = mMax /\ mMin' = mMin /\ (Leaves' <=> Leaves)
<1>1. n' = n
  BY DEF n
<1>2. Causal' = Causal /\ Local' = Local /\ Even' = Even /\ Left' = Left /\ Right' = Right /\ Offset' = Offset
  BY DEF Causal, Local, Even, Left, Right, Offset
<1>3. mMax' = mMax /\ mMin' = mMin
  BY <1>1, <1>2 DEF mMax, mMin
<1>4. QED BY <1>1, <1>2, <1>3 DEF Leaves, PastKeys, NoTile

(* Positions are integers and can be compared.                             *)
LEMMA Numbers ==
  ASSUME call \in Calls
  PROVE  /\ n \in Nat /\ mMax \in Int /\ mMin \in Int /\ mMin >= 0
         /\ call.sq \in Nat /\ call.sk \in Nat
         /\ call.double \in BOOLEAN /\ call.v_in_regs \in BOOLEAN
<1>1. /\ call.sq \in Nat /\ call.sk \in Nat /\ call.max_sk \in Nat
      /\ call.wl \in Int /\ call.wr \in Int /\ n \in Nat
      /\ call.double \in BOOLEAN /\ call.v_in_regs \in BOOLEAN
      /\ kBlockM \in Int /\ kBlockN \in Int /\ kBlockM > 0
  BY FlashBwdColumnAssumption, FlashMaskAssumption DEF n
<1>2. \A a \in Int : Quot(a, kBlockM) \in Int
  BY <1>1 DEF Quot
<1>3. \A a \in Int : CeilDiv(a, kBlockM) \in Int
  BY <1>1, <1>2 DEF CeilDiv
<1>4. Offset \in Int
  BY <1>1 DEF Offset
<1>5. Left \in Int /\ Right \in Int
  BY <1>1 DEF Left, Right, Host, WindowLeft, WindowRight, HostLeft, HostRight, HostCausal, Clamp
<1>6. n * kBlockN \in Int /\ (n + 1) * kBlockN \in Int
  BY <1>1
<1>7. mMax \in Int
  <2>1. (n + 1) * kBlockN + Offset + Left \in Int
    BY <1>4, <1>5, <1>6
  <2>2. QED BY <2>1, <1>1, <1>3 DEF mMax, AtMost
<1>8. mMin \in Int /\ mMin >= 0
  <2>1. n * kBlockN + Offset - Right \in Int
    BY <1>4, <1>5, <1>6
  <2>2. QED BY <2>1, <1>2 DEF mMin, AtLeast
<1>9. QED BY <1>1, <1>7, <1>8

(* The halves of sQ: neighbouring tiles use different ones, and the toggle *)
(* of the code goes to the half of the tile before.                        *)
LEMMA Halves ==
  ASSUME NEW c \in Calls, NEW t \in Int
  PROVE  /\ HalfOf(c, t) \in 0 .. 1
         /\ ~ c.double => HalfOf(c, t) = 0
         /\ c.double => HalfOf(c, t - 1) # HalfOf(c, t) /\ HalfOf(c, t) # HalfOf(c, t + 1)
         /\ c.double => HalfOf(c, t) + Toggle(t) = HalfOf(c, t - 1)
<1>1. t % 2 \in 0 .. 1 /\ (t - 1) % 2 \in 0 .. 1 /\ (t + 1) % 2 \in 0 .. 1
  OBVIOUS
<1>2. (t % 2 = 0 <=> (t - 1) % 2 = 1) /\ (t % 2 = 0 <=> (t + 1) % 2 = 1)
  OBVIOUS
<1>3. QED BY <1>1, <1>2 DEF HalfOf, Toggle

LEMMA Multiples ==
  ASSUME NEW k \in Int, k > 0, NEW a \in Int, NEW b \in Int
  PROVE  /\ a <= b => a * k <= b * k
         /\ a * k < b * k => a < b
         /\ (a \div k) * k <= a
         /\ a % k = 0 => (a \div k) * k = a
         /\ a % k = 0 => (a + k - 1) \div k = a \div k
         /\ (a + 1) * k = a * k + k
<1>1. a <= b => a * k <= b * k
  <2>1. ASSUME a <= b PROVE a * k <= b * k
    <3>1. PICK d \in Nat : b = a + d
      <4>1. b - a \in Nat /\ b = a + (b - a)
        BY <2>1
      <4>2. QED BY <4>1
    <3>2. b * k = a * k + d * k /\ d * k >= 0
      BY <3>1
    <3>3. QED BY <3>2, <2>1
  <2>2. QED BY <2>1
<1>2. a * k < b * k => a < b
  <2>1. ASSUME a >= b PROVE a * k >= b * k
    <3>1. PICK d \in Nat : a = b + d
      <4>1. a - b \in Nat /\ a = b + (a - b)
        BY <2>1
      <4>2. QED BY <4>1
    <3>2. a * k = b * k + d * k /\ d * k >= 0
      BY <3>1
    <3>3. QED BY <3>2, <2>1
  <2>2. QED BY <2>1
<1>3. a \div k \in Int /\ (a \div k) * k <= a
  OBVIOUS
<1>4. ASSUME a % k = 0 PROVE (a \div k) * k = a /\ (a + k - 1) \div k = a \div k
  <2> DEFINE p == a \div k
             q == (a + k - 1) \div k
  <2>1. p \in Int /\ a = p * k
    BY <1>4
  <2>2. q \in Int /\ q * k <= a + k - 1 /\ a + k - 1 < (q + 1) * k
    OBVIOUS
  <2> HIDE DEF p, q
  <2>3. (q + 1) * k = q * k + k /\ (p + 1) * k = p * k + k
    BY <2>1, <2>2
  <2>4. ASSUME q >= p + 1 PROVE FALSE
    <3>1. q * k >= (p + 1) * k
      BY <2>1, <2>2, <2>4
    <3>2. QED BY <3>1, <2>1, <2>2, <2>3
  <2>5. ASSUME p >= q + 1 PROVE FALSE
    <3>1. p * k >= (q + 1) * k
      BY <2>1, <2>2, <2>5
    <3>2. QED BY <3>1, <2>1, <2>2, <2>3
  <2>6. p = q
    BY <2>1, <2>2, <2>4, <2>5
  <2>7. QED BY <2>1, <2>6 DEF p, q
<1>5. (a + 1) * k = a * k + k
  OBVIOUS
<1>6. QED BY <1>1, <1>2, <1>3, <1>4, <1>5

(* Copies that are not predicated stay inside the sequence: no tile but    *)
(* the last that is visited may be incomplete, and none if the lengths are *)
(* even.                                                                   *)
LEMMA FullTiles ==
  ASSUME call \in Calls
  PROVE  \A t \in Int : 0 <= t /\ t < mMax - 1 => RowMode(call, t, "all")
<1> DEFINE tiles_ == CeilDiv(call.sq, kBlockM)
<1>1. /\ call.sq \in Nat /\ mMax \in Int /\ kBlockM \in Int /\ kBlockM > 0
  BY Numbers, FlashMaskAssumption
<1>2. tiles_ = (call.sq + kBlockM - 1) \div kBlockM
  BY <1>1 DEF CeilDiv, Quot
<1>3. tiles_ \in Int /\ tiles_ * kBlockM <= call.sq + kBlockM - 1
  <2>1. call.sq + kBlockM - 1 \in Int
    BY <1>1
  <2>2. QED BY <1>1, <1>2, <2>1, Multiples
<1>4. mMax <= tiles_
  BY <1>1, <1>3 DEF mMax, AtMost
<1> HIDE DEF tiles_
<1>5. ASSUME NEW t \in Int, t < mMax - 1 PROVE (t + 1) * kBlockM <= call.sq
  <2>1. t + 1 + 1 <= tiles_
    BY <1>1, <1>3, <1>4, <1>5
  <2>2. (t + 1 + 1) * kBlockM <= tiles_ * kBlockM
    BY <1>1, <1>3, <2>1, Multiples
  <2>3. (t + 1 + 1) * kBlockM = (t + 1) * kBlockM + kBlockM
    BY <1>1, Multiples
  <2>4. (t + 1) * kBlockM \in Int /\ tiles_ * kBlockM \in Int /\ (t + 1 + 1) * kBlockM \in Int
    BY <1>1, <1>3
  <2>5. QED BY <1>1, <1>3, <2>2, <2>3, <2>4
<1>6. QED BY <1>5 DEF RowMode

LEMMA Modes ==
  ASSUME call \in Calls, ~ PastKeys
  PROVE  RowMode(call, mMax - 1, FirstMode) /\ KeyMode(call, FirstMode)
<1>1. CASE ~ Even
  BY <1>1 DEF FirstMode, RowMode, KeyMode
<1>2. CASE Even
  <2>1. /\ call.sq \in Nat /\ call.sk \in Nat /\ mMax \in Int /\ n \in Nat
        /\ kBlockM \in Int /\ kBlockM > 0 /\ kBlockN \in Int /\ kBlockN > 0
    BY Numbers, FlashMaskAssumption
  <2>2. call.sq % kBlockM = 0 /\ call.sk % kBlockN = 0
    BY <1>2 DEF Even, IsEvenMN, Host
  <2>3. CeilDiv(call.sq, kBlockM) = call.sq \div kBlockM
    <3>1. CeilDiv(call.sq, kBlockM) = (call.sq + kBlockM - 1) \div kBlockM
      BY <2>1 DEF CeilDiv, Quot
    <3>2. call.sq \in Int
      BY <2>1
    <3>3. (call.sq + kBlockM - 1) \div kBlockM = call.sq \div kBlockM
      BY <2>1, <2>2, <3>2, Multiples
    <3>4. QED BY <3>1, <3>3
  <2>4. call.sq \div kBlockM \in Int /\ call.sk \div kBlockN \in Int
    BY <2>1
  <2>5. mMax <= call.sq \div kBlockM
    BY <2>1, <2>3, <2>4 DEF mMax, AtMost
  <2>6. mMax * kBlockM <= call.sq
    BY <2>1, <2>2, <2>4, <2>5, Multiples
  <2>7. (call.sk \div kBlockN) * kBlockN = call.sk
    <3>1. call.sk \in Int
      BY <2>1
    <3>2. QED BY <2>1, <2>2, <3>1, Multiples
  <2>8. n * kBlockN < (call.sk \div kBlockN) * kBlockN
    <3>1. n * kBlockN \in Int
      BY <2>1
    <3>2. QED BY <2>1, <2>7, <3>1 DEF PastKeys
  <2>9. n + 1 <= call.sk \div kBlockN
    BY <2>1, <2>4, <2>8, Multiples
  <2>10. (n + 1) * kBlockN <= call.sk
    BY <2>1, <2>4, <2>7, <2>9, Multiples
  <2>11. mMax - 1 + 1 = mMax
    BY <2>1
  <2>12. QED BY <1>2, <2>6, <2>10, <2>11 DEF FirstMode, RowMode, KeyMode, n
<1>3. QED BY <1>1, <1>2

(* A warp that does not move, and whose slices do not change.              *)
Still(u) ==
  /\ pc'[u] = pc[u] /\ m_block'[u] = m_block[u] /\ half'[u] = half[u]
  /\ stat'[u] = stat[u] /\ copying'[u] = copying[u]
  /\ \A h \in 0 .. 1 : sQ'[h][u] = sQ[h][u]
  /\ sdO'[u] = sdO[u] /\ sK'[u] = sK[u] /\ sV'[u] = sV[u] /\ vreg'[u] = vreg[u]
  /\ sP'[u] = sP[u] /\ sdS'[u] = sdS[u] /\ ds'[u] = ds[u]

LEMMA Others ==
  ASSUME NEW u \in Warp, WarpInv(u), call \in Calls, call' = call, m_block[u] \in Int, Still(u)
  PROVE  WarpInv(u)' /\ Bound(u)' = Bound(u) /\ BoundTile(u)' = BoundTile(u)
<1>1. /\ n' = n /\ mMax' = mMax /\ mMin' = mMin /\ (Leaves' <=> Leaves)
      /\ \A b : Loading(u, b)' <=> Loading(u, b)
  BY Fixed DEF Still, Loading
<1>2. /\ (PrefetchedQ(u)' <=> PrefetchedQ(u)) /\ (FetcheddO(u)' <=> FetcheddO(u))
      /\ (GoneOn(u)' <=> GoneOn(u))
  BY <1>1 DEF Still, PrefetchedQ, FetcheddO, GoneOn
<1>3. NextQ(u)' = NextQ(u) /\ NextdO(u)' = NextdO(u)
  BY <1>2 DEF Still, NextQ, NextdO
<1>4. \A t \in Int : HasQ(u, t)' <=> HasQ(u, t)
  BY Halves DEF Still, HasQ
<1>5. /\ \A t \in Int : HasdO(u, t)' <=> HasdO(u, t)
      /\ (HasK(u)' <=> HasK(u)) /\ (HasV(u)' <=> HasV(u))
  BY <1>1 DEF Still, HasdO, HasK, HasV
<1>6. Flow(u)' /\ Copies(u)' /\ Pointers(u)'
  BY <1>1, <1>2, <1>3 DEF Still, WarpInv, Flow, Copies, Pointers
<1>7. SliceQ(u)' /\ SlicedO(u)' /\ SliceKV(u)'
  BY <1>1, <1>2, <1>4, <1>5 DEF Still, WarpInv, SliceQ, SlicedO, SliceKV
<1>8. Scores(u)'
  BY <1>2, <1>1 DEF Still, WarpInv, Scores
<1>9. Bound(u)' = Bound(u) /\ BoundTile(u)' = BoundTile(u)
  BY <1>1 DEF Still, Bound, BoundTile, AfterProducts
<1>10. QED BY <1>6, <1>7, <1>8, <1>9 DEF WarpInv

(* A step of one warp that leaves it bound for the same barrier.           *)
LEMMA OneMoves ==
  ASSUME ColumnInv, NEW w \in Warp, call' = call, Domains', \A u \in Warp \ {w} : Still(u),
         WarpInv(w)', Bound(w)' = Bound(w), BoundTile(w)' = BoundTile(w)
  PROVE  ColumnInv'
<1>1. ASSUME NEW u \in Warp
      PROVE  WarpInv(u)' /\ Bound(u)' = Bound(u) /\ BoundTile(u)' = BoundTile(u)
  <2>1. CASE u = w
    BY <2>1
  <2>2. CASE u # w
    <3>1. Still(u) /\ WarpInv(u) /\ call \in Calls /\ m_block[u] \in Int
      BY <2>2 DEF ColumnInv, Domains
    <3>2. QED BY <3>1, Others
  <2>3. QED BY <2>1, <2>2
<1>2. InStep'
  BY <1>1 DEF ColumnInv, InStep
<1>3. QED BY <1>1, <1>2 DEF ColumnInv

-----------------------------------------------------------------------------
LEMMA InitColumn == Init => ColumnInv
<1> SUFFICES ASSUME Init PROVE ColumnInv
  OBVIOUS
<1>1. Domains
  <2>1. Torn \in [tile : Int, mode : Mode] /\ "start" \in Outside /\ Garbage \in Int
    BY DEF Torn, Mode, Outside, Garbage
  <2>2. QED BY <2>1 DEF Init, Domains
<1>2. \A u \in Warp : pc[u] = "start" /\ copying[u] = {}
  BY DEF Init
<1>3. InStep
  BY <1>2 DEF InStep, Bound, BoundTile
<1>4. \A u \in Warp : WarpInv(u)
  BY <1>2 DEF WarpInv, Flow, Copies, Pointers, SliceQ, SlicedO, SliceKV, Scores,
              PrefetchedQ, FetcheddO, GoneOn, Early, Middle, Late, Again, Ending, InLoop
<1>5. QED BY <1>1, <1>3, <1>4 DEF ColumnInv

(* A block whose keys no query sees leaves at once.                        *)
LEMMA LeaveColumn ==
  ASSUME ColumnInv, NEW w \in Warp, NoKeys(w) \/ Exit(w)
  PROVE  ColumnInv'
<1>1. /\ Domains /\ WarpInv(w) /\ pc[w] = "start" /\ Leaves
      /\ pc' = [pc EXCEPT ![w] = "done"]
      /\ UNCHANGED <<call, m_block, stat, half, copying, sQ, sdO, sK, sV, vreg, sP, sdS, ds>>
  BY DEF ColumnInv, NoKeys, Exit, Leaves, loop, tiles, grads
<1>2. pc'[w] = "done" /\ \A u \in Warp \ {w} : Still(u)
  BY <1>1 DEF Domains, Still
<1>3. Domains'
  BY <1>1 DEF Domains, Outside
<1>4. Bound(w)' = Bound(w) /\ BoundTile(w)' = BoundTile(w)
  BY <1>1, <1>2 DEF Bound, BoundTile, Ending
<1>5. copying[w] = {}
  BY <1>1 DEF WarpInv, Copies, PrefetchedQ, FetcheddO, Early, Late, Again, Domains
<1>6. WarpInv(w)'
  BY <1>1, <1>2, <1>5 DEF WarpInv, Flow, Copies, Pointers, SliceQ, SlicedO, SliceKV, Scores,
              PrefetchedQ, FetcheddO, GoneOn, Early, Middle, Late, Again, Ending, InLoop
<1>7. QED BY <1>1, <1>2, <1>3, <1>4, <1>6, OneMoves

LEMMA PrologueColumn ==
  ASSUME ColumnInv, NEW w \in Warp, Prologue(w)
  PROVE  ColumnInv'
<1>1. /\ Domains /\ WarpInv(w) /\ pc[w] = "start" /\ ~ Leaves /\ ~ PastKeys
      /\ pc' = [pc EXCEPT ![w] = IF call.v_in_regs THEN "waitV" ELSE "top"]
      /\ m_block' = [m_block EXCEPT ![w] = mMax - 1]
      /\ stat' = [stat EXCEPT ![w] = mMax - 1]
      /\ half' = [half EXCEPT ![w] = [tQ |-> FirstHalf, tS |-> FirstHalf, tdK |-> FirstHalf]]
      /\ copying' = [copying EXCEPT ![w] =
           {Copy("dO", mMax - 1, FirstMode), Copy("Q", mMax - 1, FirstMode),
            Copy("K", n, FirstMode), Copy("V", n, FirstMode)}]
      /\ UNCHANGED <<call, sQ, sdO, sK, sV, vreg, sP, sdS, ds>>
  BY DEF ColumnInv, Prologue, Leaves, tiles, grads
<1>2. /\ n \in Nat /\ mMax \in Int /\ mMin \in Int /\ call \in Calls
      /\ n' = n /\ mMax' = mMax /\ mMin' = mMin /\ (Leaves' <=> Leaves)
      /\ FirstHalf = HalfOf(call, mMax - 1) /\ FirstHalf \in 0 .. 1
      /\ FirstMode \in Mode
      /\ RowMode(call, mMax - 1, FirstMode) /\ KeyMode(call, FirstMode)
  <2>1. call \in Calls
    BY <1>1 DEF Domains
  <2>2. n \in Nat /\ mMax \in Int /\ mMin \in Int
    BY <2>1, Numbers
  <2>3. FirstHalf = HalfOf(call, mMax - 1) /\ FirstHalf \in 0 .. 1
    BY <2>1, <2>2, Halves DEF FirstHalf, HalfOf
  <2>4. QED BY <1>1, <2>1, <2>2, <2>3, Fixed, Modes DEF FirstMode, Mode
<1>3. /\ pc'[w] = IF call.v_in_regs THEN "waitV" ELSE "top"
      /\ m_block'[w] = mMax - 1 /\ stat'[w] = mMax - 1
      /\ half'[w] = [tQ |-> FirstHalf, tS |-> FirstHalf, tdK |-> FirstHalf]
      /\ copying'[w] = {Copy("dO", mMax - 1, FirstMode), Copy("Q", mMax - 1, FirstMode),
                        Copy("K", n, FirstMode), Copy("V", n, FirstMode)}
      /\ \A u \in Warp \ {w} : Still(u)
  BY <1>1 DEF Domains, Still
<1>4. Domains'
  <2>1. pc' \in [Warp -> InLoop \cup Ending \cup Outside]
    BY <1>1 DEF Domains, InLoop, Early
  <2>2. m_block' \in [Warp -> Int] /\ stat' \in [Warp -> Int]
    BY <1>1, <1>2 DEF Domains
  <2>3. half' \in [Warp -> [tQ : Int, tS : Int, tdK : Int]]
    BY <1>1, <1>2 DEF Domains
  <2>4. copying' \in [Warp -> SUBSET [buf : {"Q", "dO", "K", "V"}, tile : Int, mode : Mode]]
    BY <1>1, <1>2 DEF Domains, Copy
  <2>5. QED BY <1>1, <2>1, <2>2, <2>3, <2>4 DEF Domains
<1>5. Bound(w)' = Bound(w) /\ BoundTile(w)' = BoundTile(w)
  BY <1>1, <1>2, <1>3 DEF Bound, BoundTile, Ending
<1>6. /\ Loading(w, "Q")' /\ Loading(w, "dO")' /\ Loading(w, "K")' /\ Loading(w, "V")'
      /\ pc'[w] \in Early /\ ~ PrefetchedQ(w)' /\ ~ FetcheddO(w)' /\ ~ GoneOn(w)'
      /\ NextQ(w)' = mMax - 1 /\ NextdO(w)' = mMax - 1
  <2>1. /\ Loading(w, "Q")' /\ Loading(w, "dO")' /\ Loading(w, "K")' /\ Loading(w, "V")'
    BY <1>3 DEF Loading, Copy
  <2>2. pc'[w] \in Early /\ ~ PrefetchedQ(w)' /\ ~ FetcheddO(w)' /\ ~ GoneOn(w)'
    BY <1>2, <1>3 DEF PrefetchedQ, FetcheddO, GoneOn, Early, Late, Again, Ending
  <2>3. QED BY <2>1, <2>2, <1>3 DEF NextQ, NextdO
<1>7. Flow(w)'
  BY <1>1, <1>2, <1>3 DEF Flow, Early, InLoop, Again
<1>8. Copies(w)'
  BY <1>1, <1>2, <1>3, <1>6 DEF Copies, Copy
<1>9. Pointers(w)'
  BY <1>1, <1>2, <1>3, <1>6 DEF Pointers
<1>10. SliceQ(w)' /\ SlicedO(w)' /\ SliceKV(w)' /\ Scores(w)'
  BY <1>1, <1>2, <1>3, <1>6
     DEF SliceQ, SlicedO, SliceKV, Scores, Early, Middle, Late, Again, Ending, InLoop
<1>11. QED
  BY <1>1, <1>3, <1>4, <1>5, <1>7, <1>8, <1>9, <1>10, OneMoves DEF WarpInv

-----------------------------------------------------------------------------
(* A copy lands: it brings the tile that its buffer is for, to the half of *)
(* sQ that holds neither the tile in use nor the one just used.            *)
LEMMA LandColumn ==
  ASSUME ColumnInv, NEW w \in Warp, NEW x, Land(w, x)
  PROVE  ColumnInv'
<1> DEFINE slice == [tile |-> x.tile, mode |-> x.mode]
<1>1. /\ Domains /\ WarpInv(w) /\ x \in copying[w]
      /\ copying' = [copying EXCEPT ![w] = @ \ {x}]
      /\ sQ' = IF x.buf = "Q" THEN [sQ EXCEPT ![half[w].tQ][w] = slice] ELSE sQ
      /\ sdO' = IF x.buf = "dO" THEN [sdO EXCEPT ![w] = slice] ELSE sdO
      /\ sK' = IF x.buf = "K" THEN [sK EXCEPT ![w] = slice] ELSE sK
      /\ sV' = IF x.buf = "V" THEN [sV EXCEPT ![w] = slice] ELSE sV
      /\ UNCHANGED <<call, pc, m_block, stat, half, vreg, sP, sdS, ds>>
  BY DEF ColumnInv, Land, loop, grads
<1>2. /\ n \in Nat /\ mMax \in Int /\ mMin \in Int /\ call \in Calls
      /\ call.double \in BOOLEAN /\ call.v_in_regs \in BOOLEAN
      /\ n' = n /\ mMax' = mMax /\ mMin' = mMin /\ (Leaves' <=> Leaves)
      /\ m_block[w] \in Int
      /\ x \in [buf : {"Q", "dO", "K", "V"}, tile : Int, mode : Mode]
      /\ slice \in [tile : Int, mode : Mode]
  <2>1. call \in Calls /\ m_block[w] \in Int
        /\ x \in [buf : {"Q", "dO", "K", "V"}, tile : Int, mode : Mode]
    BY <1>1 DEF Domains
  <2>2. QED BY <1>1, <2>1, Numbers, Fixed
<1>3. /\ pc[w] \in InLoop
      /\ half[w].tQ = HalfOf(call, NextQ(w)) /\ half[w].tQ \in 0 .. 1
      /\ x.buf = "Q" => /\ x.tile = NextQ(w) /\ RowMode(call, x.tile, x.mode)
                        /\ (pc[w] \in Early \/ PrefetchedQ(w))
      /\ x.buf = "dO" => /\ x.tile = NextdO(w) /\ RowMode(call, x.tile, x.mode)
                         /\ (pc[w] \in Early \/ FetcheddO(w))
      /\ x.buf \in {"K", "V"} => x.tile = n /\ KeyMode(call, x.mode)
  <2>1. Copies(w) /\ Pointers(w)
    BY <1>1 DEF WarpInv
  <2>2. pc[w] \in InLoop
    BY <1>1, <1>2, <2>1 DEF Copies, PrefetchedQ, FetcheddO, InLoop, Late, Again
  <2>3. NextQ(w) \in Int
    BY <1>2 DEF NextQ
  <2>4. QED BY <1>1, <1>2, <2>1, <2>2, <2>3, Halves DEF Copies, Pointers
<1>4. /\ copying'[w] = copying[w] \ {x}
      /\ \A h \in 0 .. 1 : sQ'[h][w] = IF x.buf = "Q" /\ h = half[w].tQ THEN slice ELSE sQ[h][w]
      /\ sdO'[w] = IF x.buf = "dO" THEN slice ELSE sdO[w]
      /\ sK'[w] = IF x.buf = "K" THEN slice ELSE sK[w]
      /\ sV'[w] = IF x.buf = "V" THEN slice ELSE sV[w]
  BY <1>1, <1>3 DEF Domains
<1>5. \A u \in Warp \ {w} : Still(u)
  BY <1>1, <1>3 DEF Domains, Still
<1>6. Domains'
  <2>1. copying' \in [Warp -> SUBSET [buf : {"Q", "dO", "K", "V"}, tile : Int, mode : Mode]]
    BY <1>1 DEF Domains
  <2>2. sQ' \in [0 .. 1 -> [Warp -> [tile : Int, mode : Mode]]]
    BY <1>1, <1>2, <1>3 DEF Domains
  <2>3. /\ sdO' \in [Warp -> [tile : Int, mode : Mode]]
        /\ sK' \in [Warp -> [tile : Int, mode : Mode]]
        /\ sV' \in [Warp -> [tile : Int, mode : Mode]]
    BY <1>1, <1>2 DEF Domains
  <2>4. QED BY <1>1, <2>1, <2>2, <2>3 DEF Domains
<1>7. /\ (PrefetchedQ(w)' <=> PrefetchedQ(w)) /\ (FetcheddO(w)' <=> FetcheddO(w))
      /\ (GoneOn(w)' <=> GoneOn(w)) /\ NextQ(w)' = NextQ(w) /\ NextdO(w)' = NextdO(w)
      /\ Bound(w)' = Bound(w) /\ BoundTile(w)' = BoundTile(w)
  <2>1. /\ (PrefetchedQ(w)' <=> PrefetchedQ(w)) /\ (FetcheddO(w)' <=> FetcheddO(w))
        /\ (GoneOn(w)' <=> GoneOn(w))
    BY <1>1, <1>2 DEF PrefetchedQ, FetcheddO, GoneOn
  <2>2. NextQ(w)' = NextQ(w) /\ NextdO(w)' = NextdO(w)
    BY <1>1, <2>1 DEF NextQ, NextdO
  <2>3. Bound(w)' = Bound(w) /\ BoundTile(w)' = BoundTile(w)
    BY <1>1, <1>2 DEF Bound, BoundTile, AfterProducts
  <2>4. QED BY <2>1, <2>2, <2>3
<1>8. \A b : b # x.buf => (Loading(w, b)' <=> Loading(w, b))
  BY <1>4 DEF Loading
<1>9. Flow(w)' /\ Copies(w)' /\ Pointers(w)' /\ Scores(w)'
  BY <1>1, <1>2, <1>4, <1>7 DEF WarpInv, Flow, Copies, Pointers, Scores
<1>10. SliceQ(w)'
  <2>1. CASE x.buf # "Q"
    <3>1. \A t \in Int : HasQ(w, t)' <=> HasQ(w, t)
      BY <1>1, <1>2, <1>4, <2>1, Halves DEF HasQ
    <3>2. QED BY <1>1, <1>2, <1>7, <1>8, <2>1, <3>1 DEF WarpInv, SliceQ
  <2>2. CASE x.buf = "Q"
    <3>1. \A t \in Int : t = NextQ(w) => HasQ(w, t)'
      BY <1>1, <1>2, <1>3, <1>4, <2>2 DEF HasQ
    <3>2. \A t \in Int : HalfOf(call, t) # HalfOf(call, NextQ(w)) => (HasQ(w, t)' <=> HasQ(w, t))
      BY <1>1, <1>2, <1>3, <1>4, Halves DEF HasQ
    <3>3. SliceQ(w)
      BY <1>1 DEF WarpInv
    <3>4. CASE PrefetchedQ(w)
      <4>1. /\ NextQ(w) = m_block[w] - 1 /\ pc[w] \in Late
            /\ HalfOf(call, m_block[w] - 1) # HalfOf(call, m_block[w])
        BY <1>2, <3>4, Halves DEF NextQ, PrefetchedQ
      <4>2. \A t \in Int : t \in {m_block[w] - 1, m_block[w]} => HasQ(w, t)'
        <5>1. HasQ(w, m_block[w])
          BY <3>3, <4>1 DEF SliceQ
        <5>2. QED BY <5>1, <1>2, <3>1, <3>2, <4>1
      <4>3. pc[w] \notin Early /\ ~ GoneOn(w)
        BY <4>1 DEF GoneOn, Late, Early, Ending
      <4>4. QED BY <1>1, <1>2, <1>7, <4>2, <4>3 DEF SliceQ
    <3>5. CASE ~ PrefetchedQ(w)
      <4>1. NextQ(w) = m_block[w] /\ pc[w] \in Early
        BY <1>3, <2>2, <3>5 DEF NextQ
      <4>2. call.double => HalfOf(call, m_block[w] + 1) # HalfOf(call, m_block[w])
        BY <1>2, Halves
      <4>3. GoneOn(w) /\ call.double => \A t \in Int : t = m_block[w] + 1 => HasQ(w, t)'
        BY <1>2, <3>2, <3>3, <4>1, <4>2 DEF SliceQ
      <4>4. pc[w] \notin Ending /\ pc[w] \notin Middle \cup Late \cup Again
        BY <4>1 DEF Early, Ending, Middle, Late, Again
      <4>5. \A t \in Int : t = m_block[w] => HasQ(w, t)'
        BY <3>1, <4>1
      <4>6. QED BY <1>1, <1>2, <1>7, <3>5, <4>3, <4>4, <4>5 DEF SliceQ
    <3>6. QED BY <3>4, <3>5
  <2>3. QED BY <2>1, <2>2
<1>11. SlicedO(w)'
  <2>1. CASE x.buf # "dO"
    <3>1. \A t \in Int : HasdO(w, t)' <=> HasdO(w, t)
      BY <1>1, <1>2, <1>4, <2>1 DEF HasdO
    <3>2. QED BY <1>1, <1>2, <1>7, <1>8, <2>1, <3>1 DEF WarpInv, SlicedO
  <2>2. CASE x.buf = "dO"
    <3>1. \A t \in Int : t = NextdO(w) => HasdO(w, t)'
      BY <1>1, <1>2, <1>3, <1>4, <2>2 DEF HasdO
    <3>2. CASE FetcheddO(w)
      <4>1. NextdO(w) = m_block[w] - 1 /\ pc[w] \in {"dq", "dk"} \cup Again
        BY <3>2 DEF NextdO, FetcheddO
      <4>2. pc[w] \notin Early /\ pc[w] \notin Middle \cup (Late \ {"dq", "dk"})
        BY <4>1 DEF Early, Middle, Late, Again
      <4>3. \A t \in Int : t = m_block[w] - 1 => HasdO(w, t)'
        BY <3>1, <4>1
      <4>4. QED BY <1>1, <1>2, <4>2, <4>3 DEF SlicedO
    <3>3. CASE ~ FetcheddO(w)
      <4>1. NextdO(w) = m_block[w] /\ pc[w] \in Early
        BY <1>3, <2>2, <3>3 DEF NextdO
      <4>2. pc[w] \notin Middle \cup (Late \ {"dq", "dk"})
        BY <4>1 DEF Early, Middle, Late, Again
      <4>3. \A t \in Int : t = m_block[w] => HasdO(w, t)'
        BY <3>1, <4>1
      <4>4. QED BY <1>1, <1>2, <1>7, <3>3, <4>2, <4>3 DEF SlicedO
    <3>4. QED BY <3>2, <3>3
  <2>3. QED BY <2>1, <2>2
<1>12. SliceKV(w)'
  <2>1. /\ x.buf = "K" => HasK(w)'
        /\ x.buf # "K" => (HasK(w)' <=> HasK(w))
        /\ x.buf = "V" => HasV(w)'
        /\ x.buf # "V" => (HasV(w)' <=> HasV(w))
    BY <1>1, <1>2, <1>3, <1>4 DEF HasK, HasV
  <2>2. QED BY <1>1, <1>2, <1>8, <2>1 DEF WarpInv, SliceKV
<1>13. QED BY <1>1, <1>5, <1>6, <1>7, <1>9, <1>10, <1>11, <1>12, OneMoves DEF WarpInv

-----------------------------------------------------------------------------
LEMMA Barriers ==
  /\ DOMAIN Sync = {"waitV", "top", "stored", "summed", "again", "epilogue", "staged"}
  /\ Sync["waitV"] = "syncV" /\ Sync["top"] = "syncA" /\ Sync["stored"] = "syncB"
  /\ Sync["summed"] = "syncC" /\ Sync["again"] = "syncD" /\ Sync["epilogue"] = "syncE"
  /\ Sync["staged"] = "syncF"
  /\ DOMAIN After = {"syncV", "syncA", "syncB", "syncC", "syncD", "syncE", "syncF"}
  /\ After["syncV"] = "loadV" /\ After["syncA"] = "score" /\ After["syncB"] = "dv"
  /\ After["syncC"] = "fetchdO" /\ After["syncD"] = "fetchQ" /\ After["syncE"] = "stage"
  /\ After["syncF"] = "store"
  /\ Awaited["waitV"] = {"V"} /\ Awaited["top"] = {"Q", "dO", "K", "V"}
BY DEF Sync, After, Awaited

(* Arriving at a barrier: at the top of the loop no copy is under way, and *)
(* before V goes to registers none of V.                                   *)
LEMMA ArriveColumn ==
  ASSUME ColumnInv, NEW w \in Warp, Arrive(w)
  PROVE  ColumnInv'
<1>1. /\ Domains /\ WarpInv(w) /\ pc[w] \in DOMAIN Sync
      /\ pc' = [pc EXCEPT ![w] = Sync[pc[w]]]
      /\ \A x \in copying[w] : x.buf \notin Awaited[pc[w]]
      /\ UNCHANGED <<call, m_block, stat, half, copying, sQ, sdO, sK, sV, vreg, sP, sdS, ds>>
  BY DEF ColumnInv, Arrive, loop, tiles, grads
<1>2. /\ n' = n /\ mMax' = mMax /\ mMin' = mMin /\ (Leaves' <=> Leaves)
      /\ call \in Calls /\ m_block[w] \in Int
      /\ copying[w] \in SUBSET [buf : {"Q", "dO", "K", "V"}, tile : Int, mode : Mode]
  BY <1>1, Fixed DEF Domains
<1>3. pc'[w] = Sync[pc[w]] /\ \A u \in Warp \ {w} : Still(u)
  BY <1>1 DEF Domains, Still
<1>4. \/ pc[w] = "waitV" /\ pc'[w] = "syncV" /\ \A x \in copying[w] : x.buf # "V"
      \/ pc[w] = "top" /\ pc'[w] = "syncA" /\ copying[w] = {}
      \/ pc[w] = "stored" /\ pc'[w] = "syncB"
      \/ pc[w] = "summed" /\ pc'[w] = "syncC"
      \/ pc[w] = "again" /\ pc'[w] = "syncD"
      \/ pc[w] = "epilogue" /\ pc'[w] = "syncE"
      \/ pc[w] = "staged" /\ pc'[w] = "syncF"
  <2>1. CASE pc[w] = "waitV"
    BY <1>1, <1>3, <2>1, Barriers
  <2>2. CASE pc[w] = "top"
    <3>1. \A x \in copying[w] : x.buf \in {"Q", "dO", "K", "V"}
      BY <1>2
    <3>2. QED BY <1>1, <1>3, <2>2, <3>1, Barriers
  <2>3. CASE pc[w] \notin {"waitV", "top"}
    BY <1>1, <1>3, <2>3, Barriers
  <2>4. QED BY <2>1, <2>2, <2>3
<1>5. Domains'
  <2>1. pc'[w] \in InLoop \cup Ending \cup Outside
    BY <1>4 DEF InLoop, Early, Middle, Late, Again, Ending, Outside
  <2>2. pc' \in [Warp -> InLoop \cup Ending \cup Outside]
    BY <1>1, <1>3, <2>1 DEF Domains
  <2>3. QED BY <1>1, <2>2 DEF Domains
<1>6. /\ (PrefetchedQ(w)' <=> PrefetchedQ(w)) /\ (FetcheddO(w)' <=> FetcheddO(w))
      /\ (GoneOn(w)' <=> GoneOn(w)) /\ NextQ(w)' = NextQ(w) /\ NextdO(w)' = NextdO(w)
      /\ \A b : Loading(w, b)' <=> Loading(w, b)
  <2>1. /\ (PrefetchedQ(w)' <=> PrefetchedQ(w)) /\ (FetcheddO(w)' <=> FetcheddO(w))
        /\ (GoneOn(w)' <=> GoneOn(w))
    BY <1>1, <1>2, <1>4 DEF PrefetchedQ, FetcheddO, GoneOn, Late, Again, Ending
  <2>2. QED BY <1>1, <2>1 DEF NextQ, NextdO, Loading
<1>7. Bound(w)' = Bound(w) /\ BoundTile(w)' = BoundTile(w)
  BY <1>1, <1>2, <1>4 DEF Bound, BoundTile, Ending
<1>8. /\ \A t \in Int : (HasQ(w, t)' <=> HasQ(w, t)) /\ (HasdO(w, t)' <=> HasdO(w, t))
      /\ (HasK(w)' <=> HasK(w)) /\ (HasV(w)' <=> HasV(w))
  BY <1>1, <1>2 DEF HasQ, HasdO, HasK, HasV
<1>9. Flow(w)'
  BY <1>1, <1>2, <1>4 DEF WarpInv, Flow, InLoop, Early, Middle, Late, Again
<1>10. Copies(w)'
  BY <1>1, <1>2, <1>4, <1>6 DEF WarpInv, Copies, Early
<1>11. Pointers(w)'
  BY <1>1, <1>4, <1>6 DEF WarpInv, Pointers, InLoop, Early, Middle, Late, Again
<1>12. SliceQ(w)' /\ SlicedO(w)'
  BY <1>1, <1>2, <1>4, <1>6, <1>8
     DEF WarpInv, SliceQ, SlicedO, Loading, Early, Middle, Late, Again, Ending
<1>13. SliceKV(w)'
  BY <1>1, <1>2, <1>4, <1>6, <1>8
     DEF WarpInv, SliceKV, Loading, InLoop, Early, Middle, Late, Again, Ending
<1>14. Scores(w)'
  BY <1>1, <1>2, <1>4, <1>6 DEF WarpInv, Scores, Early, Middle, Late, Again
<1>15. QED
  BY <1>1, <1>3, <1>5, <1>7, <1>9, <1>10, <1>11, <1>12, <1>13, <1>14, OneMoves DEF WarpInv

(* Leaving a barrier: all warps wait at the same one, on the same tile.    *)
LEMMA ReleaseColumn ==
  ASSUME ColumnInv, Release
  PROVE  ColumnInv'
<1>1. /\ Domains /\ InStep /\ (\A u \in Warp : WarpInv(u) /\ pc[u] \in DOMAIN After)
      /\ pc' = [u \in Warp |-> After[pc[u]]]
      /\ UNCHANGED <<call, m_block, stat, half, copying, sQ, sdO, sK, sV, vreg, sP, sdS, ds>>
  BY DEF ColumnInv, Release, loop, tiles, grads
<1>2. /\ n' = n /\ mMax' = mMax /\ mMin' = mMin /\ (Leaves' <=> Leaves) /\ call \in Calls
      /\ mMin \in Int
  BY <1>1, Fixed, Numbers DEF Domains
<1>3. ASSUME NEW u \in Warp
      PROVE  \/ pc[u] = "syncV" /\ pc'[u] = "loadV"
             \/ pc[u] = "syncA" /\ pc'[u] = "score"
             \/ pc[u] = "syncB" /\ pc'[u] = "dv"
             \/ pc[u] = "syncC" /\ pc'[u] = "fetchdO"
             \/ pc[u] = "syncD" /\ pc'[u] = "fetchQ"
             \/ pc[u] = "syncE" /\ pc'[u] = "stage"
             \/ pc[u] = "syncF" /\ pc'[u] = "store"
  <2>1. pc[u] \in DOMAIN After /\ pc'[u] = After[pc[u]]
    BY <1>1
  <2>2. QED BY <2>1, Barriers
<1>4. Domains'
  <2>1. \A u \in Warp : pc'[u] \in InLoop \cup Ending \cup Outside
    BY <1>3 DEF InLoop, Early, Middle, Late, Again, Ending, Outside
  <2>2. pc' \in [Warp -> InLoop \cup Ending \cup Outside]
    BY <1>1, <2>1
  <2>3. QED BY <1>1, <2>2 DEF Domains
<1>5. ASSUME NEW u \in Warp, NEW v \in Warp
      PROVE  Bound(u)' = Bound(v)' /\ BoundTile(u)' = BoundTile(v)'
  <2>1. Bound(u) = Bound(v) /\ BoundTile(u) = BoundTile(v) /\ m_block[u] \in Int /\ m_block[v] \in Int
    BY <1>1 DEF InStep, Domains
  <2>2. /\ pc[u] \in {"syncV", "syncA", "syncB", "syncC", "syncD", "syncE", "syncF"}
        /\ pc[v] \in {"syncV", "syncA", "syncB", "syncC", "syncD", "syncE", "syncF"}
    BY <1>3
  <2>3. Bound(u) = pc[u] /\ Bound(v) = pc[v]
    BY <2>2 DEF Bound, Ending
  <2>4. pc[u] # "syncF" => m_block[u] = m_block[v]
    <3>1. pc[u] = pc[v]
      BY <2>1, <2>3
    <3>2. CASE pc[u] = "syncE"
      <4>1. BoundTile(u) = m_block[u] + 1 /\ BoundTile(v) = m_block[v] + 1
        BY <3>1, <3>2 DEF BoundTile, Ending
      <4>2. m_block[u] + 1 = m_block[v] + 1
        BY <2>1, <4>1, Zenon
      <4>3. m_block[u] \in Int /\ m_block[v] \in Int
        BY <2>1
      <4>4. QED BY <4>2, <4>3
    <3>3. CASE pc[u] \in {"syncV", "syncA", "syncB", "syncC", "syncD"}
      <4>1. BoundTile(u) = m_block[u] /\ BoundTile(v) = m_block[v]
        BY <3>1, <3>3 DEF BoundTile, Ending
      <4>2. QED BY <2>1, <4>1
    <3>4. QED BY <2>2, <3>2, <3>3
  <2>5. pc'[u] = pc'[v]
    BY <1>1, <2>1, <2>3
  <2>6. pc'[u] \in {"loadV", "score", "dv", "fetchdO", "fetchQ", "stage", "store"}
    BY <1>3
  <2>7. pc'[u] # "store" => m_block'[u] = m_block'[v]
    BY <1>1, <1>3, <2>4
  <2>8. Bound(u)' = Bound(v)'
    BY <1>1, <1>2, <2>5, <2>6, <2>7 DEF Bound, AfterProducts, Ending
  <2>9. BoundTile(u)' = BoundTile(v)'
    BY <1>1, <1>2, <2>5, <2>6, <2>7 DEF BoundTile, Ending
  <2>10. QED BY <2>8, <2>9
<1>6. ASSUME NEW u \in Warp PROVE WarpInv(u)'
  <2>1. /\ WarpInv(u) /\ m_block[u] \in Int
        /\ copying[u] \in SUBSET [buf : {"Q", "dO", "K", "V"}, tile : Int, mode : Mode]
    BY <1>1 DEF Domains
  <2>2. /\ (PrefetchedQ(u)' <=> PrefetchedQ(u)) /\ (FetcheddO(u)' <=> FetcheddO(u))
        /\ (GoneOn(u)' => GoneOn(u) /\ pc'[u] \notin Ending)
        /\ NextQ(u)' = NextQ(u) /\ NextdO(u)' = NextdO(u)
        /\ \A b : Loading(u, b)' <=> Loading(u, b)
    <3>1. /\ (PrefetchedQ(u)' <=> PrefetchedQ(u)) /\ (FetcheddO(u)' <=> FetcheddO(u))
          /\ (GoneOn(u)' => GoneOn(u) /\ pc'[u] \notin Ending)
      BY <1>1, <1>2, <1>3, <2>1 DEF PrefetchedQ, FetcheddO, GoneOn, Late, Again, Ending
    <3>2. QED BY <1>1, <3>1 DEF NextQ, NextdO, Loading
  <2>3. /\ \A t \in Int : (HasQ(u, t)' <=> HasQ(u, t)) /\ (HasdO(u, t)' <=> HasdO(u, t))
        /\ (HasK(u)' <=> HasK(u)) /\ (HasV(u)' <=> HasV(u))
    BY <1>1, <1>2 DEF HasQ, HasdO, HasK, HasV
  <2>4. Flow(u)' /\ Pointers(u)'
    BY <1>1, <1>2, <1>3, <2>1, <2>2 DEF WarpInv, Flow, Pointers, InLoop, Early, Middle, Late, Again
  <2>5. Copies(u)'
    BY <1>1, <1>2, <1>3, <2>1, <2>2 DEF WarpInv, Flow, Copies, Early
  <2>6. SliceQ(u)' /\ SlicedO(u)'
    BY <1>1, <1>2, <1>3, <2>1, <2>2, <2>3
       DEF WarpInv, SliceQ, SlicedO, Early, Middle, Late, Again, Ending
  <2>7. SliceKV(u)'
    BY <1>1, <1>2, <1>3, <2>1, <2>2, <2>3
       DEF WarpInv, SliceKV, InLoop, Early, Middle, Late, Again, Ending
  <2>8. Scores(u)'
    BY <1>1, <1>2, <1>3, <2>1, <2>2 DEF WarpInv, Scores, Early, Middle, Late, Again
  <2>9. QED BY <2>4, <2>5, <2>6, <2>7, <2>8 DEF WarpInv
<1>7. QED BY <1>4, <1>5, <1>6 DEF ColumnInv, InStep

-----------------------------------------------------------------------------
(* Where the others are when a warp reads: on the same side of the same    *)
(* barriers, or gone on to wait for the next.                              *)
LEMMA Together ==
  ASSUME ColumnInv, NEW w \in Warp, NEW u \in Warp
  PROVE  /\ pc[w] = "loadV" => /\ pc[u] \in {"loadV", "top", "syncA"}
                               /\ m_block[u] = mMax - 1 /\ call.v_in_regs
         /\ pc[w] \in {"score", "dp", "prefetchQ", "storedS"} =>
              /\ pc[u] \in {"score", "dp", "prefetchQ", "storedS", "stored", "syncB"}
              /\ m_block[u] = m_block[w]
         /\ pc[w] = "dv" => pc[u] \in {"dv", "summed", "syncC"} /\ m_block[u] = m_block[w]
         /\ pc[w] \in {"dq", "dk"} =>
              \/ pc[u] \in {"fetchdO", "dq", "dk"} \cup Again /\ m_block[u] = m_block[w]
              \/ /\ GoneOn(u) /\ m_block[u] + 1 = m_block[w]
                 /\ call.double \/ pc[u] \in Ending
<1>1. /\ Bound(u) = Bound(w) /\ BoundTile(u) = BoundTile(w) /\ Flow(u) /\ Flow(w)
      /\ m_block[u] \in Int /\ m_block[w] \in Int
      /\ pc[u] \in InLoop \cup Ending \cup Outside
      /\ mMax \in Int /\ mMin \in Int
      /\ call.double \in BOOLEAN /\ call.v_in_regs \in BOOLEAN
  BY Numbers DEF ColumnInv, Domains, InStep, WarpInv
<1>2. ASSUME pc[w] = "loadV"
      PROVE  pc[u] \in {"loadV", "top", "syncA"} /\ m_block[u] = mMax - 1 /\ call.v_in_regs
  <2>1. call.v_in_regs /\ m_block[w] = mMax - 1 /\ Bound(w) = "syncA" /\ BoundTile(w) = mMax - 1
    BY <1>1, <1>2 DEF Flow, Bound, BoundTile, Ending
  <2>2. pc[u] \in {"loadV", "top", "syncA", "fetchQ", "fetchdO", "dq", "dk"}
    BY <1>1, <2>1 DEF Bound, Ending
  <2>3. CASE pc[u] \in {"loadV", "top", "syncA"}
    <3>1. BoundTile(u) = m_block[u]
      BY <2>3 DEF BoundTile, Ending
    <3>2. QED BY <1>1, <2>1, <2>3, <3>1
  <2>4. CASE pc[u] \in {"fetchQ", "fetchdO", "dq", "dk"}
    <3>1. m_block[u] <= mMax - 1
      BY <1>1, <2>4 DEF Flow, InLoop, Late, Again
    <3>2. BoundTile(u) = m_block[u] - 1
      BY <1>1, <2>1, <2>4 DEF BoundTile, Bound, AfterProducts, Ending
    <3>3. m_block[u] - 1 = mMax - 1
      BY <1>1, <2>1, <3>2
    <3>4. QED BY <1>1, <3>1, <3>3
  <2>5. QED BY <2>2, <2>3, <2>4
<1>3. ASSUME pc[w] \in {"score", "dp", "prefetchQ", "storedS"}
      PROVE  /\ pc[u] \in {"score", "dp", "prefetchQ", "storedS", "stored", "syncB"}
             /\ m_block[u] = m_block[w]
  <2>1. Bound(w) = "syncB" /\ BoundTile(w) = m_block[w]
    BY <1>1, <1>3 DEF Bound, BoundTile, Ending
  <2>2. pc[u] \in {"score", "dp", "prefetchQ", "storedS", "stored", "syncB"}
    BY <1>1, <2>1 DEF Bound, AfterProducts, Ending
  <2>3. BoundTile(u) = m_block[u]
    BY <2>2 DEF BoundTile, Ending
  <2>4. QED BY <1>1, <2>1, <2>2, <2>3
<1>4. ASSUME pc[w] = "dv" PROVE pc[u] \in {"dv", "summed", "syncC"} /\ m_block[u] = m_block[w]
  <2>1. Bound(w) = "syncC" /\ BoundTile(w) = m_block[w]
    BY <1>1, <1>4 DEF Bound, BoundTile, Ending
  <2>2. pc[u] \in {"dv", "summed", "syncC"}
    BY <1>1, <2>1 DEF Bound, AfterProducts, Ending
  <2>3. BoundTile(u) = m_block[u]
    BY <2>2 DEF BoundTile, Ending
  <2>4. QED BY <1>1, <2>1, <2>2, <2>3
<1>5. ASSUME pc[w] \in {"dq", "dk"}
      PROVE  \/ pc[u] \in {"fetchdO", "dq", "dk"} \cup Again /\ m_block[u] = m_block[w]
             \/ /\ GoneOn(u) /\ m_block[u] + 1 = m_block[w]
                /\ call.double \/ pc[u] \in Ending
  <2>1. Bound(w) = AfterProducts(w) /\ m_block[w] <= mMax - 1
    BY <1>1, <1>5 DEF Bound, Ending, Flow, InLoop, Late
  <2>2. CASE m_block[w] > mMin /\ call.double
    <3>1. Bound(u) = "syncA" /\ BoundTile(u) = m_block[w] - 1
      BY <1>1, <1>5, <2>1, <2>2 DEF AfterProducts, BoundTile
    <3>2. pc[u] \in {"start", "loadV", "top", "syncA", "fetchQ", "fetchdO", "dq", "dk"}
      BY <1>1, <3>1 DEF Bound, Ending
    <3>3. CASE pc[u] \in {"start", "loadV"}
      <4>1. BoundTile(u) = mMax - 1
        BY <1>1, <3>1, <3>3 DEF BoundTile, Bound, Flow, Ending
      <4>2. QED BY <1>1, <2>1, <3>1, <4>1
    <3>4. CASE pc[u] \in {"top", "syncA"}
      <4>1. BoundTile(u) = m_block[u]
        BY <3>4 DEF BoundTile, Ending
      <4>2. m_block[u] = m_block[w] - 1
        BY <3>1, <4>1
      <4>3. QED BY <1>1, <2>1, <2>2, <3>4, <4>2 DEF GoneOn
    <3>5. CASE pc[u] = "fetchQ"
      BY <1>1, <2>2, <3>5 DEF Flow, Again
    <3>6. CASE pc[u] \in {"fetchdO", "dq", "dk"}
      <4>1. BoundTile(u) = m_block[u] - 1
        BY <1>1, <3>1, <3>6 DEF BoundTile, Bound, AfterProducts, Ending
      <4>2. m_block[u] - 1 = m_block[w] - 1
        BY <3>1, <4>1
      <4>3. QED BY <1>1, <3>6, <4>2
    <3>7. QED BY <3>2, <3>3, <3>4, <3>5, <3>6
  <2>3. CASE m_block[w] > mMin /\ ~ call.double
    <3>1. Bound(u) = "syncD" /\ BoundTile(u) = m_block[w]
      BY <1>1, <1>5, <2>1, <2>3 DEF AfterProducts, BoundTile
    <3>2. pc[u] \in {"again", "syncD", "fetchdO", "dq", "dk"}
      BY <1>1, <3>1 DEF Bound, Ending
    <3>3. BoundTile(u) = m_block[u]
      BY <1>1, <2>3, <3>2 DEF BoundTile, Ending
    <3>4. QED BY <3>1, <3>2, <3>3 DEF Again
  <2>4. CASE ~ (m_block[w] > mMin)
    <3>1. Bound(u) = "syncE" /\ BoundTile(u) = m_block[w]
      BY <1>1, <1>5, <2>1, <2>4 DEF AfterProducts, BoundTile
    <3>2. pc[u] \in Ending \cup {"fetchdO", "dq", "dk"}
      BY <1>1, <3>1 DEF Bound, Ending
    <3>3. CASE pc[u] \in Ending
      <4>1. BoundTile(u) = m_block[u] + 1
        BY <3>3 DEF BoundTile, Ending
      <4>2. QED BY <3>1, <3>3, <4>1 DEF GoneOn
    <3>4. CASE pc[u] \in {"fetchdO", "dq", "dk"}
      <4>1. BoundTile(u) = m_block[u]
        BY <1>1, <3>1, <3>4 DEF BoundTile, Bound, AfterProducts, Ending
      <4>2. QED BY <3>1, <3>4, <4>1
    <3>5. QED BY <3>2, <3>3, <3>4
  <2>5. QED BY <2>2, <2>3, <2>4
<1>6. QED BY <1>2, <1>3, <1>4, <1>5

-----------------------------------------------------------------------------
(* What the slices of all warps hold together: the operands of products.   *)
LEMMA Operands ==
  ASSUME ColumnInv, NEW t \in Int
  PROVE  /\ (\A u \in Warp : HasQ(u, t)) => QIn(HalfOf(call, t), t)
         /\ (\A u \in Warp : HasdO(u, t)) => dOIn(t)
         /\ (\A u \in Warp : HasK(u)) => KIn
         /\ (\A u \in Warp : HasV(u)) => VIn
BY DEF HasQ, HasdO, HasK, HasV, QIn, dOIn, KIn, VIn, Holds, RowMode, KeyMode, RowsFull, KeysFull, n

(* Past the first barrier the keys have arrived.                           *)
LEMMA KeysArrived ==
  ASSUME ColumnInv, NEW u \in Warp, pc[u] \in Middle \cup Late \cup Again \cup Ending \/ GoneOn(u)
  PROVE  HasK(u) /\ (~ call.v_in_regs => HasV(u))
<1>1. Copies(u) /\ SliceKV(u) /\ m_block[u] \in Int /\ mMax \in Int
  BY Numbers DEF ColumnInv, Domains, WarpInv
<1>2. pc[u] \in InLoop \cup Ending
  BY DEF GoneOn, InLoop, Early, Middle
<1>3. ~ (pc[u] \in Early /\ m_block[u] = mMax - 1)
  BY <1>1 DEF GoneOn, Early, Middle, Late, Again, Ending
<1>4. ~ Loading(u, "K") /\ ~ Loading(u, "V")
  BY <1>1, <1>3 DEF Copies, Loading
<1>5. QED BY <1>1, <1>2, <1>4 DEF SliceKV

LEMMA Ready == ColumnInv => OperandsReady
<1> SUFFICES ASSUME ColumnInv PROVE OperandsReady
  OBVIOUS
<1> SUFFICES ASSUME NEW w \in Warp
             PROVE  LET m == m_block[w] IN
                    /\ pc[w] = "loadV" => VIn
                    /\ pc[w] = "score" => QIn(half[w].tS, m) /\ KIn
                    /\ pc[w] = "dp"    => dOIn(m) /\ IF call.v_in_regs THEN vreg[w] ELSE VIn
                    /\ pc[w] = "dv"    => PIn(m) /\ dOIn(m)
                    /\ pc[w] = "dq"    => dSIn(m) /\ KIn
                    /\ pc[w] = "dk"    => dSIn(m) /\ QIn(half[w].tdK, m)
  BY DEF OperandsReady
<1> DEFINE m == m_block[w]
<1>1. m \in Int /\ call \in Calls /\ WarpInv(w)
  BY DEF ColumnInv, Domains
<1>2. CASE pc[w] = "loadV"
  <2>1. ASSUME NEW u \in Warp PROVE HasV(u)
    <3>1. pc[u] \in {"loadV", "top", "syncA"} /\ m_block[u] = mMax - 1 /\ call.v_in_regs
      BY <1>2, Together
    <3>2. Copies(u) /\ SliceKV(u)
      BY DEF ColumnInv, WarpInv
    <3>3. ~ Loading(u, "V")
      BY <3>1, <3>2 DEF Loading, Copies
    <3>4. QED BY <3>1, <3>2, <3>3 DEF SliceKV, Early
  <2>2. VIn
    BY <1>1, <2>1, Operands
  <2>3. QED BY <1>2, <2>2
<1>3. CASE pc[w] \in {"score", "dp"}
  <2>1. ASSUME NEW u \in Warp
        PROVE  HasQ(u, m) /\ HasdO(u, m) /\ HasK(u) /\ (~ call.v_in_regs => HasV(u))
    <3>1. /\ pc[u] \in {"score", "dp", "prefetchQ", "storedS", "stored", "syncB"}
          /\ m_block[u] = m
      BY <1>3, Together
    <3>2. SliceQ(u) /\ SlicedO(u)
      BY DEF ColumnInv, WarpInv
    <3>3. pc[u] \in Middle \cup (Late \ {"dq", "dk"})
      BY <3>1 DEF Middle, Late
    <3>4. HasQ(u, m) /\ HasdO(u, m)
      BY <3>1, <3>2, <3>3 DEF SliceQ, SlicedO
    <3>5. QED BY <3>3, <3>4, KeysArrived
  <2>2. half[w].tS = HalfOf(call, m)
    BY <1>1, <1>3 DEF WarpInv, Pointers, NextQ, PrefetchedQ, InLoop, Middle, Late
  <2>3. QIn(half[w].tS, m) /\ dOIn(m) /\ KIn /\ (~ call.v_in_regs => VIn)
    BY <1>1, <2>1, <2>2, Operands
  <2>4. call.v_in_regs => vreg[w]
    BY <1>1, <1>3 DEF WarpInv, SliceKV, InLoop, Middle
  <2>5. QED BY <1>3, <2>3, <2>4
<1>4. CASE pc[w] = "dv"
  <2>1. ASSUME NEW u \in Warp PROVE sP[u] = m /\ HasdO(u, m)
    <3>1. pc[u] \in {"dv", "summed", "syncC"} /\ m_block[u] = m
      BY <1>4, Together
    <3>2. Scores(u) /\ SlicedO(u)
      BY DEF ColumnInv, WarpInv
    <3>3. QED BY <3>1, <3>2 DEF Scores, SlicedO, Late
  <2>2. PIn(m) /\ dOIn(m)
    BY <1>1, <2>1, Operands DEF PIn
  <2>3. QED BY <1>4, <2>2
<1>5. CASE pc[w] \in {"dq", "dk"}
  <2>1. ASSUME NEW u \in Warp PROVE sdS[u] = m /\ HasQ(u, m) /\ HasK(u)
    <3>1. SliceQ(u) /\ Scores(u)
      BY DEF ColumnInv, WarpInv
    <3>2. CASE pc[u] \in {"fetchdO", "dq", "dk"} \cup Again /\ m_block[u] = m
      <4>1. pc[u] \in Late \cup Again /\ pc[u] # "storedS"
        BY <3>2 DEF Late, Again
      <4>2. sdS[u] = m /\ HasQ(u, m)
        BY <3>1, <3>2, <4>1 DEF SliceQ, Scores
      <4>3. QED BY <4>1, <4>2, KeysArrived
    <3>3. CASE GoneOn(u) /\ m_block[u] + 1 = m /\ (call.double \/ pc[u] \in Ending)
      <4>1. sdS[u] = m /\ HasQ(u, m)
        BY <3>1, <3>3 DEF SliceQ, Scores
      <4>2. QED BY <3>3, <4>1, KeysArrived
    <3>4. QED BY <1>5, <3>2, <3>3, Together
  <2>2. half[w].tdK = HalfOf(call, m)
    BY <1>1, <1>5 DEF WarpInv, Pointers, InLoop, Late
  <2>3. dSIn(m) /\ KIn /\ QIn(half[w].tdK, m)
    BY <1>1, <2>1, <2>2, Operands DEF dSIn
  <2>4. QED BY <1>5, <2>3
<1>6. QED BY <1>2, <1>3, <1>4, <1>5

LEMMA Inside == ColumnInv => NoReadPastEnd
<1> SUFFICES ASSUME ColumnInv, NEW w \in Warp, NEW x \in copying[w], x.mode = "all"
             PROVE  IF x.buf \in {"K", "V"} THEN KeysFull ELSE RowsFull(x.tile)
  BY DEF NoReadPastEnd
<1>1. Copies(w) /\ x.buf \in {"Q", "dO", "K", "V"}
  BY DEF ColumnInv, Domains, WarpInv
<1>2. QED BY <1>1 DEF Copies, RowMode, KeyMode, RowsFull, KeysFull, n

-----------------------------------------------------------------------------
(* V to registers.                                                         *)
LEMMA LoadVColumn ==
  ASSUME ColumnInv, NEW w \in Warp, LoadV(w)
  PROVE  ColumnInv'
<1>1. /\ Domains /\ WarpInv(w) /\ pc[w] = "loadV"
      /\ pc' = [pc EXCEPT ![w] = "top"] /\ vreg' = [vreg EXCEPT ![w] = TRUE]
      /\ UNCHANGED <<call, m_block, stat, half, copying, sQ, sdO, sK, sV, sP, sdS, ds>>
  <2>1. pc[w] = "loadV" => VIn
    BY Ready DEF OperandsReady
  <2>2. QED BY <2>1 DEF ColumnInv, LoadV, loop, tiles, grads
<1>2. /\ n' = n /\ mMax' = mMax /\ mMin' = mMin /\ (Leaves' <=> Leaves)
      /\ call \in Calls /\ m_block[w] \in Int /\ mMax \in Int
  BY <1>1, Fixed, Numbers DEF Domains
<1>3. pc'[w] = "top" /\ vreg'[w] = TRUE /\ \A u \in Warp \ {w} : Still(u)
  BY <1>1 DEF Domains, Still
<1>4. Domains'
  BY <1>1 DEF Domains, InLoop, Early
<1>5. Bound(w)' = Bound(w) /\ BoundTile(w)' = BoundTile(w)
  BY <1>1, <1>3 DEF Bound, BoundTile, Ending
<1>6. /\ ~ PrefetchedQ(w)' /\ ~ PrefetchedQ(w) /\ ~ FetcheddO(w)' /\ ~ FetcheddO(w)
      /\ ~ GoneOn(w)' /\ pc[w] \in Early /\ pc'[w] \in Early /\ call.v_in_regs
  BY <1>1, <1>2, <1>3
     DEF WarpInv, Flow, PrefetchedQ, FetcheddO, GoneOn, Early, Late, Again, Ending
<1>7. NextQ(w)' = NextQ(w) /\ NextdO(w)' = NextdO(w) /\ \A b : Loading(w, b)' <=> Loading(w, b)
  BY <1>1, <1>6 DEF NextQ, NextdO, Loading
<1>8. /\ \A t \in Int : (HasQ(w, t)' <=> HasQ(w, t)) /\ (HasdO(w, t)' <=> HasdO(w, t))
      /\ (HasK(w)' <=> HasK(w)) /\ (HasV(w)' <=> HasV(w))
  BY <1>1, <1>2 DEF HasQ, HasdO, HasK, HasV
<1>9. Flow(w)' /\ Copies(w)' /\ Pointers(w)' /\ Scores(w)'
  BY <1>1, <1>2, <1>3, <1>6, <1>7
     DEF WarpInv, Flow, Copies, Pointers, Scores, InLoop, Early, Middle, Late, Again
<1>10. SliceQ(w)' /\ SlicedO(w)' /\ SliceKV(w)'
  BY <1>1, <1>2, <1>3, <1>6, <1>7, <1>8
     DEF WarpInv, SliceQ, SlicedO, SliceKV, InLoop, Early, Middle, Late, Again, Ending
<1>11. QED BY <1>1, <1>3, <1>4, <1>5, <1>9, <1>10, OneMoves DEF WarpInv

(* P of the tile, where V may have been.                                   *)
LEMMA ScoreColumn ==
  ASSUME ColumnInv, NEW w \in Warp, Score(w)
  PROVE  ColumnInv'
<1>1. /\ Domains /\ WarpInv(w) /\ pc[w] = "score"
      /\ pc' = [pc EXCEPT ![w] = "dp"] /\ sP' = [sP EXCEPT ![w] = m_block[w]]
      /\ sV' = IF call.v_in_regs THEN [sV EXCEPT ![w] = Torn] ELSE sV
      /\ UNCHANGED <<call, m_block, stat, half, copying, sQ, sdO, sK, vreg, sdS, ds>>
  <2>1. pc[w] = "score" => QIn(half[w].tS, m_block[w]) /\ KIn
    BY Ready DEF OperandsReady
  <2>2. pc[w] = "score" => stat[w] = m_block[w]
    BY DEF ColumnInv, WarpInv, Scores, Middle
  <2>3. QED BY <2>1, <2>2 DEF ColumnInv, Score, VUnderP, loop
<1>2. /\ n' = n /\ mMax' = mMax /\ mMin' = mMin /\ (Leaves' <=> Leaves)
      /\ call \in Calls /\ m_block[w] \in Int
  BY <1>1, Fixed DEF Domains
<1>3. /\ pc'[w] = "dp" /\ sP'[w] = m_block[w]
      /\ ~ call.v_in_regs => sV'[w] = sV[w]
      /\ \A u \in Warp \ {w} : Still(u)
  BY <1>1 DEF Domains, Still
<1>4. Domains'
  BY <1>1, <1>2 DEF Domains, InLoop, Middle, Torn, Mode
<1>5. Bound(w)' = Bound(w) /\ BoundTile(w)' = BoundTile(w)
  BY <1>1, <1>3 DEF Bound, BoundTile, Ending
<1>6. /\ ~ PrefetchedQ(w)' /\ ~ PrefetchedQ(w) /\ ~ FetcheddO(w)' /\ ~ FetcheddO(w)
      /\ ~ GoneOn(w)' /\ pc[w] \in Middle /\ pc'[w] \in Middle
  BY <1>1, <1>3 DEF PrefetchedQ, FetcheddO, GoneOn, Middle, Late, Again, Ending
<1>7. NextQ(w)' = NextQ(w) /\ NextdO(w)' = NextdO(w) /\ \A b : Loading(w, b)' <=> Loading(w, b)
  BY <1>1, <1>6 DEF NextQ, NextdO, Loading
<1>8. /\ \A t \in Int : (HasQ(w, t)' <=> HasQ(w, t)) /\ (HasdO(w, t)' <=> HasdO(w, t))
      /\ (HasK(w)' <=> HasK(w)) /\ (~ call.v_in_regs => (HasV(w)' <=> HasV(w)))
  BY <1>1, <1>2, <1>3 DEF HasQ, HasdO, HasK, HasV
<1>9. Flow(w)' /\ Copies(w)' /\ Pointers(w)' /\ Scores(w)'
  BY <1>1, <1>2, <1>3, <1>6, <1>7
     DEF WarpInv, Flow, Copies, Pointers, Scores, InLoop, Early, Middle, Late, Again
<1>10. SliceQ(w)' /\ SlicedO(w)' /\ SliceKV(w)'
  BY <1>1, <1>2, <1>3, <1>6, <1>7, <1>8
     DEF WarpInv, SliceQ, SlicedO, SliceKV, InLoop, Early, Middle, Late, Again, Ending
<1>11. QED BY <1>1, <1>3, <1>4, <1>5, <1>9, <1>10, OneMoves DEF WarpInv

(* dS of the tile.                                                         *)
LEMMA GradScoreColumn ==
  ASSUME ColumnInv, NEW w \in Warp, GradScore(w)
  PROVE  ColumnInv'
<1>1. /\ Domains /\ WarpInv(w) /\ pc[w] = "dp"
      /\ pc' = [pc EXCEPT ![w] =
                  IF call.double /\ m_block[w] > mMin THEN "prefetchQ" ELSE "storedS"]
      /\ ds' = [ds EXCEPT ![w] = m_block[w]]
      /\ UNCHANGED <<call, m_block, stat, half, copying, sQ, sdO, sK, sV, vreg, sP, sdS>>
  <2>1. pc[w] = "dp" => dOIn(m_block[w]) /\ IF call.v_in_regs THEN vreg[w] ELSE VIn
    BY Ready DEF OperandsReady
  <2>2. pc[w] = "dp" => stat[w] = m_block[w] /\ sP[w] = m_block[w]
    BY DEF ColumnInv, WarpInv, Scores, Middle
  <2>3. QED BY <2>1, <2>2 DEF ColumnInv, GradScore, loop, tiles
<1>2. /\ n' = n /\ mMax' = mMax /\ mMin' = mMin /\ (Leaves' <=> Leaves)
      /\ call \in Calls /\ m_block[w] \in Int
  BY <1>1, Fixed DEF Domains
<1>3. /\ pc'[w] = IF call.double /\ m_block[w] > mMin THEN "prefetchQ" ELSE "storedS"
      /\ ds'[w] = m_block[w]
      /\ \A u \in Warp \ {w} : Still(u)
  BY <1>1 DEF Domains, Still
<1>4. Domains'
  BY <1>1, <1>2 DEF Domains, InLoop, Middle, Late
<1>5. Bound(w)' = Bound(w) /\ BoundTile(w)' = BoundTile(w)
  BY <1>1, <1>3 DEF Bound, BoundTile, Ending
<1>6. /\ ~ PrefetchedQ(w)' /\ ~ PrefetchedQ(w) /\ ~ FetcheddO(w)' /\ ~ FetcheddO(w)
      /\ ~ GoneOn(w)' /\ pc[w] \in Middle /\ pc'[w] \in Middle \cup Late
  BY <1>1, <1>2, <1>3 DEF PrefetchedQ, FetcheddO, GoneOn, Middle, Late, Again, Ending
<1>7. NextQ(w)' = NextQ(w) /\ NextdO(w)' = NextdO(w) /\ \A b : Loading(w, b)' <=> Loading(w, b)
  BY <1>1, <1>6 DEF NextQ, NextdO, Loading
<1>8. /\ \A t \in Int : (HasQ(w, t)' <=> HasQ(w, t)) /\ (HasdO(w, t)' <=> HasdO(w, t))
      /\ (HasK(w)' <=> HasK(w)) /\ (HasV(w)' <=> HasV(w))
  BY <1>1, <1>2, <1>3 DEF HasQ, HasdO, HasK, HasV
<1>9. Flow(w)' /\ Copies(w)' /\ Pointers(w)' /\ Scores(w)'
  BY <1>1, <1>2, <1>3, <1>6, <1>7
     DEF WarpInv, Flow, Copies, Pointers, Scores, InLoop, Early, Middle, Late, Again
<1>10. SliceQ(w)' /\ SlicedO(w)' /\ SliceKV(w)'
  BY <1>1, <1>2, <1>3, <1>6, <1>7, <1>8
     DEF WarpInv, SliceQ, SlicedO, SliceKV, InLoop, Early, Middle, Late, Again, Ending
<1>11. QED BY <1>1, <1>3, <1>4, <1>5, <1>9, <1>10, OneMoves DEF WarpInv

(* Where copies can be under way.                                          *)
LEMMA NoCopies ==
  ASSUME NEW u \in Warp, Copies(u), Domains, pc[u] \notin Early
  PROVE  /\ \A x \in copying[u] : x.buf \in {"Q", "dO"}
         /\ ~ PrefetchedQ(u) => \A x \in copying[u] : x.buf # "Q"
         /\ ~ FetcheddO(u) => \A x \in copying[u] : x.buf # "dO"
<1>1. \A x \in copying[u] : x.buf \in {"Q", "dO", "K", "V"}
  BY DEF Domains
<1>2. QED BY <1>1 DEF Copies

(* The copy of the next tile of Q is issued to the other half.             *)
LEMMA PrefetchQColumn ==
  ASSUME ColumnInv, NEW w \in Warp, PrefetchQ(w)
  PROVE  ColumnInv'
<1> DEFINE m == m_block[w]
           other == half[w].tQ + Toggle(m)
<1>1. /\ Domains /\ WarpInv(w) /\ pc[w] = "prefetchQ" /\ pc' = [pc EXCEPT ![w] = "storedS"]
      /\ half' = [half EXCEPT ![w].tQ = other, ![w].tS = @ + Toggle(m)]
      /\ copying' = [copying EXCEPT ![w] = @ \cup {Copy("Q", m - 1, "all")}]
      /\ sQ' = [sQ EXCEPT ![other][w] = Torn]
      /\ UNCHANGED <<call, m_block, stat, sdO, sK, sV, vreg, sP, sdS, ds>>
  BY DEF ColumnInv, PrefetchQ, loop, grads
<1>2. /\ n' = n /\ mMax' = mMax /\ mMin' = mMin /\ (Leaves' <=> Leaves)
      /\ mMin \in Int /\ mMin >= 0 /\ mMax \in Int
      /\ call \in Calls /\ call.double /\ m > mMin /\ m <= mMax - 1
  BY <1>1, Fixed, Numbers DEF Domains, WarpInv, Flow, InLoop, Middle
<1>3. m \in Int /\ half[w] \in [tQ : Int, tS : Int, tdK : Int]
  BY <1>1 DEF Domains
<1>4. /\ half[w].tQ = HalfOf(call, m) /\ half[w].tS = HalfOf(call, m)
      /\ half[w].tdK = HalfOf(call, m)
  BY <1>1 DEF WarpInv, Pointers, NextQ, PrefetchedQ, InLoop, Middle, Late
<1>5. /\ other = HalfOf(call, m - 1) /\ half[w].tS + Toggle(m) = HalfOf(call, m - 1)
      /\ HalfOf(call, m - 1) \in 0 .. 1 /\ HalfOf(call, m - 1) # HalfOf(call, m)
      /\ HalfOf(call, m) \in 0 .. 1
  <2>1. m - 1 \in Int
    BY <1>3
  <2>2. /\ HalfOf(call, m - 1) # HalfOf(call, m)
        /\ HalfOf(call, m) + Toggle(m) = HalfOf(call, m - 1) /\ HalfOf(call, m) \in 0 .. 1
    BY <1>2, <1>3, Halves
  <2>3. HalfOf(call, m - 1) \in 0 .. 1
    BY <1>2, <2>1, Halves
  <2>4. QED BY <1>4, <2>2, <2>3
<1>6. RowMode(call, m - 1, "all")
  <2>1. m - 1 \in Int /\ 0 <= m - 1 /\ m - 1 < mMax - 1
    BY <1>2, <1>3
  <2>2. QED BY <1>2, <2>1, FullTiles
<1>7. /\ pc'[w] = "storedS"
      /\ half'[w].tQ = other /\ half'[w].tS = half[w].tS + Toggle(m) /\ half'[w].tdK = half[w].tdK
      /\ copying'[w] = copying[w] \cup {Copy("Q", m - 1, "all")}
      /\ \A h \in 0 .. 1 : sQ'[h][w] = IF h = other THEN Torn ELSE sQ[h][w]
      /\ \A u \in Warp \ {w} : Still(u)
  BY <1>1, <1>3, <1>5 DEF Domains, Still
<1>8. Domains'
  <2>1. pc' \in [Warp -> InLoop \cup Ending \cup Outside]
    BY <1>1 DEF Domains, InLoop, Late
  <2>2. half' \in [Warp -> [tQ : Int, tS : Int, tdK : Int]]
    <3>1. other \in Int /\ half[w].tS + Toggle(m) \in Int
      BY <1>5
    <3>2. QED BY <1>1, <1>3, <3>1 DEF Domains
  <2>3. copying' \in [Warp -> SUBSET [buf : {"Q", "dO", "K", "V"}, tile : Int, mode : Mode]]
    BY <1>1, <1>3 DEF Domains, Copy, Mode
  <2>4. sQ' \in [0 .. 1 -> [Warp -> [tile : Int, mode : Mode]]]
    BY <1>1, <1>5 DEF Domains, Torn, Mode
  <2>5. QED BY <1>1, <2>1, <2>2, <2>3, <2>4 DEF Domains
<1>9. Bound(w)' = Bound(w) /\ BoundTile(w)' = BoundTile(w)
  BY <1>1, <1>7 DEF Bound, BoundTile, Ending
<1>10. /\ PrefetchedQ(w)' /\ ~ PrefetchedQ(w) /\ ~ FetcheddO(w)' /\ ~ FetcheddO(w)
       /\ ~ GoneOn(w)' /\ pc[w] \in Middle /\ pc[w] \notin Early
  BY <1>1, <1>2, <1>7 DEF PrefetchedQ, FetcheddO, GoneOn, Early, Middle, Late, Again, Ending
<1>11. copying[w] = {} /\ NextQ(w)' = m - 1 /\ Loading(w, "Q")'
  <2>1. copying[w] = {}
    BY <1>1, <1>10, NoCopies DEF WarpInv
  <2>2. NextQ(w)' = m - 1
    BY <1>1, <1>10 DEF NextQ
  <2>3. Loading(w, "Q")'
    <3>1. Copy("Q", m - 1, "all") \in copying'[w]
      BY <1>7
    <3>2. Copy("Q", m - 1, "all").buf = "Q"
      BY DEF Copy
    <3>3. QED BY <3>1, <3>2 DEF Loading
  <2>4. QED BY <2>1, <2>2, <2>3
<1>12. ~ Loading(w, "K") /\ ~ Loading(w, "V")
  BY <1>11 DEF Loading
<1>13. /\ \A t \in Int : t = m => (HasQ(w, t)' <=> HasQ(w, t))
       /\ \A t \in Int : HasdO(w, t)' <=> HasdO(w, t)
       /\ (HasK(w)' <=> HasK(w)) /\ (HasV(w)' <=> HasV(w))
  BY <1>1, <1>2, <1>5, <1>7 DEF HasQ, HasdO, HasK, HasV
<1>14. Flow(w)' /\ Pointers(w)' /\ Scores(w)'
  BY <1>1, <1>2, <1>3, <1>4, <1>5, <1>7, <1>10, <1>11
     DEF WarpInv, Flow, Pointers, Scores, InLoop, Early, Middle, Late, Again
<1>15. Copies(w)'
  BY <1>1, <1>2, <1>6, <1>7, <1>10, <1>11 DEF Copies, Copy
<1>16. SliceQ(w)' /\ SlicedO(w)'
  BY <1>1, <1>2, <1>3, <1>7, <1>10, <1>11, <1>13
     DEF WarpInv, SliceQ, SlicedO, Early, Middle, Late, Again, Ending
<1>17. SliceKV(w)'
  BY <1>1, <1>2, <1>7, <1>10, <1>12, <1>13
     DEF WarpInv, SliceKV, InLoop, Early, Middle, Late, Again, Ending
<1>18. QED BY <1>1, <1>7, <1>8, <1>9, <1>14, <1>15, <1>16, <1>17, OneMoves DEF WarpInv

(* dS to shared memory, where V may have been.                             *)
LEMMA StoreDSColumn ==
  ASSUME ColumnInv, NEW w \in Warp, StoreDS(w)
  PROVE  ColumnInv'
<1>1. /\ Domains /\ WarpInv(w) /\ pc[w] = "storedS"
      /\ pc' = [pc EXCEPT ![w] = "stored"] /\ sdS' = [sdS EXCEPT ![w] = m_block[w]]
      /\ sV' = IF call.v_in_regs THEN [sV EXCEPT ![w] = Torn] ELSE sV
      /\ UNCHANGED <<call, m_block, stat, half, copying, sQ, sdO, sK, vreg, sP, ds>>
  <2>1. pc[w] = "storedS" => ds[w] = m_block[w]
    BY DEF ColumnInv, WarpInv, Scores
  <2>2. QED BY <2>1 DEF ColumnInv, StoreDS, VUnderP, loop
<1>2. /\ n' = n /\ mMax' = mMax /\ mMin' = mMin /\ (Leaves' <=> Leaves)
      /\ call \in Calls /\ m_block[w] \in Int
  BY <1>1, Fixed DEF Domains
<1>3. /\ pc'[w] = "stored" /\ sdS'[w] = m_block[w]
      /\ ~ call.v_in_regs => sV'[w] = sV[w]
      /\ \A u \in Warp \ {w} : Still(u)
  BY <1>1 DEF Domains, Still
<1>4. Domains'
  BY <1>1, <1>2 DEF Domains, InLoop, Late, Torn, Mode
<1>5. Bound(w)' = Bound(w) /\ BoundTile(w)' = BoundTile(w)
  BY <1>1, <1>3 DEF Bound, BoundTile, Ending
<1>6. /\ (PrefetchedQ(w)' <=> PrefetchedQ(w)) /\ ~ FetcheddO(w)' /\ ~ FetcheddO(w)
      /\ ~ GoneOn(w)' /\ pc[w] \in Late /\ pc'[w] \in Late
  BY <1>1, <1>2, <1>3 DEF PrefetchedQ, FetcheddO, GoneOn, Late, Again, Ending
<1>7. NextQ(w)' = NextQ(w) /\ NextdO(w)' = NextdO(w) /\ \A b : Loading(w, b)' <=> Loading(w, b)
  BY <1>1, <1>6 DEF NextQ, NextdO, Loading
<1>8. /\ \A t \in Int : (HasQ(w, t)' <=> HasQ(w, t)) /\ (HasdO(w, t)' <=> HasdO(w, t))
      /\ (HasK(w)' <=> HasK(w)) /\ (~ call.v_in_regs => (HasV(w)' <=> HasV(w)))
  BY <1>1, <1>2, <1>3 DEF HasQ, HasdO, HasK, HasV
<1>9. Flow(w)' /\ Copies(w)' /\ Pointers(w)' /\ Scores(w)'
  BY <1>1, <1>2, <1>3, <1>6, <1>7
     DEF WarpInv, Flow, Copies, Pointers, Scores, InLoop, Early, Middle, Late, Again
<1>10. SliceQ(w)' /\ SlicedO(w)' /\ SliceKV(w)'
  BY <1>1, <1>2, <1>3, <1>6, <1>7, <1>8
     DEF WarpInv, SliceQ, SlicedO, SliceKV, InLoop, Early, Middle, Late, Again, Ending
<1>11. QED BY <1>1, <1>3, <1>4, <1>5, <1>9, <1>10, OneMoves DEF WarpInv

(* dv of the tile.                                                         *)
LEMMA GradVColumn ==
  ASSUME ColumnInv, NEW w \in Warp, GradV(w)
  PROVE  ColumnInv'
<1>1. /\ Domains /\ WarpInv(w) /\ pc[w] = "dv" /\ pc' = [pc EXCEPT ![w] = "summed"]
      /\ UNCHANGED <<call, m_block, stat, half, copying, sQ, sdO, sK, sV, vreg, sP, sdS, ds>>
  BY DEF ColumnInv, GradV, loop, tiles, grads
<1>2. /\ n' = n /\ mMax' = mMax /\ mMin' = mMin /\ (Leaves' <=> Leaves)
      /\ call \in Calls /\ m_block[w] \in Int
  BY <1>1, Fixed DEF Domains
<1>3. pc'[w] = "summed" /\ \A u \in Warp \ {w} : Still(u)
  BY <1>1 DEF Domains, Still
<1>4. Domains'
  BY <1>1, <1>2 DEF Domains, InLoop, Late
<1>5. Bound(w)' = Bound(w) /\ BoundTile(w)' = BoundTile(w)
  BY <1>1, <1>3 DEF Bound, BoundTile, Ending
<1>6. /\ (PrefetchedQ(w)' <=> PrefetchedQ(w)) /\ ~ FetcheddO(w)' /\ ~ FetcheddO(w)
      /\ ~ GoneOn(w)' /\ pc[w] \in Late /\ pc'[w] \in Late
  BY <1>1, <1>2, <1>3 DEF PrefetchedQ, FetcheddO, GoneOn, Late, Again, Ending
<1>7. NextQ(w)' = NextQ(w) /\ NextdO(w)' = NextdO(w) /\ \A b : Loading(w, b)' <=> Loading(w, b)
  BY <1>1, <1>6 DEF NextQ, NextdO, Loading
<1>8. /\ \A t \in Int : (HasQ(w, t)' <=> HasQ(w, t)) /\ (HasdO(w, t)' <=> HasdO(w, t))
      /\ (HasK(w)' <=> HasK(w)) /\ (HasV(w)' <=> HasV(w))
  BY <1>1, <1>2, <1>3 DEF HasQ, HasdO, HasK, HasV
<1>9. Flow(w)' /\ Copies(w)' /\ Pointers(w)' /\ Scores(w)'
  BY <1>1, <1>2, <1>3, <1>6, <1>7
     DEF WarpInv, Flow, Copies, Pointers, Scores, InLoop, Early, Middle, Late, Again
<1>10. SliceQ(w)' /\ SlicedO(w)' /\ SliceKV(w)'
  BY <1>1, <1>2, <1>3, <1>6, <1>7, <1>8
     DEF WarpInv, SliceQ, SlicedO, SliceKV, InLoop, Early, Middle, Late, Again, Ending
<1>11. QED BY <1>1, <1>3, <1>4, <1>5, <1>9, <1>10, OneMoves DEF WarpInv

(* The copy of the next tile of dO is issued.                              *)
LEMMA FetchDOColumn ==
  ASSUME ColumnInv, NEW w \in Warp, FetchDO(w)
  PROVE  ColumnInv'
<1> DEFINE m == m_block[w]
           more == m > mMin
<1>1. /\ Domains /\ WarpInv(w) /\ pc[w] = "fetchdO" /\ pc' = [pc EXCEPT ![w] = "dq"]
      /\ copying' = IF more THEN [copying EXCEPT ![w] = @ \cup {Copy("dO", m - 1, "all")}]
                    ELSE copying
      /\ sdO' = IF more THEN [sdO EXCEPT ![w] = Torn] ELSE sdO
      /\ UNCHANGED <<call, m_block, stat, half, sQ, sK, sV, vreg, sP, sdS, ds>>
  BY DEF ColumnInv, FetchDO, loop, grads
<1>2. /\ n' = n /\ mMax' = mMax /\ mMin' = mMin /\ (Leaves' <=> Leaves)
      /\ mMin \in Int /\ mMin >= 0 /\ mMax \in Int /\ call \in Calls /\ m <= mMax - 1
  BY <1>1, Fixed, Numbers DEF Domains, WarpInv, Flow, InLoop, Late
<1>3. m \in Int
  BY <1>1 DEF Domains
<1>4. more => RowMode(call, m - 1, "all")
  <2>1. more => m - 1 \in Int /\ 0 <= m - 1 /\ m - 1 < mMax - 1
    BY <1>2, <1>3
  <2>2. QED BY <1>2, <2>1, FullTiles
<1>5. /\ pc'[w] = "dq"
      /\ copying'[w] = IF more THEN copying[w] \cup {Copy("dO", m - 1, "all")} ELSE copying[w]
      /\ \A u \in Warp \ {w} : Still(u)
  BY <1>1 DEF Domains, Still
<1>6. Domains'
  <2>1. pc' \in [Warp -> InLoop \cup Ending \cup Outside]
    BY <1>1 DEF Domains, InLoop, Late
  <2>2. copying' \in [Warp -> SUBSET [buf : {"Q", "dO", "K", "V"}, tile : Int, mode : Mode]]
    BY <1>1, <1>3 DEF Domains, Copy, Mode
  <2>3. sdO' \in [Warp -> [tile : Int, mode : Mode]]
    BY <1>1 DEF Domains, Torn, Mode
  <2>4. QED BY <1>1, <2>1, <2>2, <2>3 DEF Domains
<1>7. Bound(w)' = Bound(w) /\ BoundTile(w)' = BoundTile(w)
  BY <1>1, <1>2, <1>5 DEF Bound, BoundTile, AfterProducts, Ending
<1>8. /\ (PrefetchedQ(w)' <=> PrefetchedQ(w)) /\ (FetcheddO(w)' <=> more) /\ ~ FetcheddO(w)
      /\ ~ GoneOn(w)' /\ pc[w] \in Late /\ pc'[w] \in Late /\ pc[w] \notin Early
      /\ pc'[w] \notin Early
  BY <1>1, <1>2, <1>5 DEF PrefetchedQ, FetcheddO, GoneOn, Early, Late, Again, Ending
<1>9. /\ \A x \in copying[w] : x.buf = "Q" /\ PrefetchedQ(w)
      /\ ~ Loading(w, "K") /\ ~ Loading(w, "V")
  <2>1. \A x \in copying[w] : x.buf = "Q" /\ PrefetchedQ(w)
    BY <1>1, <1>8, NoCopies DEF WarpInv
  <2>2. QED BY <2>1 DEF Loading
<1>10. NextQ(w)' = NextQ(w) /\ NextdO(w)' = IF more THEN m - 1 ELSE m
  BY <1>1, <1>8 DEF NextQ, NextdO
<1>11. (more => Loading(w, "dO")') /\ (Loading(w, "Q")' <=> Loading(w, "Q"))
  <2>1. Copy("dO", m - 1, "all").buf = "dO"
    BY DEF Copy
  <2>2. more => Copy("dO", m - 1, "all") \in copying'[w]
    BY <1>5
  <2>3. \A x \in copying'[w] : x \in copying[w] \/ x = Copy("dO", m - 1, "all")
    BY <1>5
  <2>4. copying[w] \subseteq copying'[w]
    BY <1>5
  <2>5. (Loading(w, "Q")' <=> Loading(w, "Q"))
    BY <2>1, <2>3, <2>4 DEF Loading
  <2>6. ASSUME more PROVE Loading(w, "dO")'
    BY <2>1, <2>2, <2>6 DEF Loading
  <2>7. QED BY <2>5, <2>6
<1>12. /\ \A t \in Int : HasQ(w, t)' <=> HasQ(w, t)
       /\ (HasK(w)' <=> HasK(w)) /\ (HasV(w)' <=> HasV(w))
  BY <1>1, <1>2 DEF HasQ, HasK, HasV
<1>13. Flow(w)' /\ Pointers(w)' /\ Scores(w)'
  BY <1>1, <1>2, <1>5, <1>8, <1>10
     DEF WarpInv, Flow, Pointers, Scores, InLoop, Early, Middle, Late, Again
<1>14. Copies(w)'
  <2>1. ASSUME NEW x \in copying[w]
        PROVE  x.buf = "Q" /\ x.tile = NextQ(w) /\ RowMode(call, x.tile, x.mode) /\ PrefetchedQ(w)
    BY <1>1, <1>9 DEF WarpInv, Copies
  <2>2. QED BY <1>1, <1>2, <1>4, <1>5, <1>8, <1>10, <2>1 DEF Copies, Copy
<1>15. SliceQ(w)' /\ SlicedO(w)'
  <2>1. SliceQ(w)'
    <3>1. /\ HasQ(w, m)
          /\ PrefetchedQ(w) /\ ~ Loading(w, "Q") => HasQ(w, m - 1)
          /\ m_block'[w] = m /\ m \in Int /\ m - 1 \in Int
      BY <1>1, <1>3, <1>8 DEF WarpInv, SliceQ
    <3>2. QED BY <3>1, <1>8, <1>11, <1>12 DEF SliceQ
  <2>2. pc'[w] \notin Early /\ pc'[w] \notin Middle \cup (Late \ {"dq", "dk"})
    BY <1>5 DEF Early, Middle, Late
  <2>3. FetcheddO(w)' => Loading(w, "dO")'
    BY <1>8, <1>11
  <2>4. SlicedO(w)'
    BY <2>2, <2>3 DEF SlicedO
  <2>5. QED BY <2>1, <2>4
<1>16. SliceKV(w)'
  BY <1>1, <1>2, <1>5, <1>8, <1>9, <1>12
     DEF WarpInv, SliceKV, InLoop, Early, Middle, Late, Again, Ending
<1>17. QED BY <1>1, <1>5, <1>6, <1>7, <1>13, <1>14, <1>15, <1>16, OneMoves DEF WarpInv

(* dq of the tile; lse and dP_sum of the next one.                         *)
LEMMA GradQColumn ==
  ASSUME ColumnInv, NEW w \in Warp, GradQ(w)
  PROVE  ColumnInv'
<1>1. /\ Domains /\ WarpInv(w) /\ pc[w] = "dq" /\ pc' = [pc EXCEPT ![w] = "dk"]
      /\ stat' = [stat EXCEPT ![w] = IF m_block[w] > mMin THEN @ - 1 ELSE @]
      /\ UNCHANGED <<call, m_block, half, copying, sQ, sdO, sK, sV, vreg, sP, sdS, ds>>
  BY DEF ColumnInv, GradQ, tiles, grads
<1>2. /\ n' = n /\ mMax' = mMax /\ mMin' = mMin /\ (Leaves' <=> Leaves)
      /\ call \in Calls /\ m_block[w] \in Int
  BY <1>1, Fixed DEF Domains
<1>3. /\ pc'[w] = "dk" /\ stat'[w] = IF m_block[w] > mMin THEN m_block[w] - 1 ELSE stat[w]
      /\ \A u \in Warp \ {w} : Still(u)
  <2>1. stat[w] = m_block[w]
    BY <1>1 DEF WarpInv, Scores, Late
  <2>2. QED BY <1>1, <2>1 DEF Domains, Still
<1>4. Domains'
  <2>1. stat' \in [Warp -> Int]
    BY <1>1 DEF Domains
  <2>2. QED BY <1>1, <1>2, <2>1 DEF Domains, InLoop, Late
<1>5. Bound(w)' = Bound(w) /\ BoundTile(w)' = BoundTile(w)
  BY <1>1, <1>2, <1>3 DEF Bound, BoundTile, AfterProducts, Ending
<1>6. /\ (PrefetchedQ(w)' <=> PrefetchedQ(w)) /\ (FetcheddO(w)' <=> FetcheddO(w))
      /\ ~ GoneOn(w)' /\ pc[w] \in Late /\ pc'[w] \in Late
  BY <1>1, <1>2, <1>3 DEF PrefetchedQ, FetcheddO, GoneOn, Late, Again, Ending
<1>7. NextQ(w)' = NextQ(w) /\ NextdO(w)' = NextdO(w) /\ \A b : Loading(w, b)' <=> Loading(w, b)
  BY <1>1, <1>6 DEF NextQ, NextdO, Loading
<1>8. /\ \A t \in Int : (HasQ(w, t)' <=> HasQ(w, t)) /\ (HasdO(w, t)' <=> HasdO(w, t))
      /\ (HasK(w)' <=> HasK(w)) /\ (HasV(w)' <=> HasV(w))
  BY <1>1, <1>2, <1>3 DEF HasQ, HasdO, HasK, HasV
<1>9. Flow(w)' /\ Copies(w)' /\ Pointers(w)' /\ Scores(w)'
  BY <1>1, <1>2, <1>3, <1>6, <1>7
     DEF WarpInv, Flow, Copies, Pointers, Scores, InLoop, Early, Middle, Late, Again
<1>10. SliceQ(w)' /\ SlicedO(w)' /\ SliceKV(w)'
  BY <1>1, <1>2, <1>3, <1>6, <1>7, <1>8
     DEF WarpInv, SliceQ, SlicedO, SliceKV, InLoop, Early, Middle, Late, Again, Ending
<1>11. QED BY <1>1, <1>3, <1>4, <1>5, <1>9, <1>10, OneMoves DEF WarpInv

(* dk and dv leave through the memory of sK and sV, and the block ends.    *)
LEMMA EpilogueColumn ==
  ASSUME ColumnInv, NEW w \in Warp, Stage(w) \/ Store(w)
  PROVE  ColumnInv'
<1>1. /\ Domains /\ WarpInv(w)
      /\ \/ /\ pc[w] = "stage" /\ pc' = [pc EXCEPT ![w] = "staged"]
            /\ sK' = [sK EXCEPT ![w] = Staged] /\ sV' = [sV EXCEPT ![w] = Staged]
            /\ sdS' = IF call.v_in_regs THEN [sdS EXCEPT ![w] = Garbage] ELSE sdS
         \/ /\ pc[w] = "store" /\ pc' = [pc EXCEPT ![w] = "done"]
            /\ UNCHANGED <<sK, sV, sdS>>
      /\ UNCHANGED <<call, m_block, stat, half, copying, sQ, sdO, vreg, sP, ds>>
  BY DEF ColumnInv, Stage, Store, loop, tiles, grads
<1>2. n \in Nat /\ Staged \in [tile : Int, mode : Mode] /\ Garbage \in Int
  BY <1>1, Numbers DEF Domains, Staged, Mode, Garbage
<1>3. pc'[w] \in {"staged", "done"} /\ \A u \in Warp \ {w} : Still(u)
  BY <1>1 DEF Domains, Still
<1>4. Domains'
  <2>1. pc' \in [Warp -> InLoop \cup Ending \cup Outside]
    BY <1>1 DEF Domains, Outside
  <2>2. /\ sK' \in [Warp -> [tile : Int, mode : Mode]] /\ sV' \in [Warp -> [tile : Int, mode : Mode]]
        /\ sdS' \in [Warp -> Int]
    <3>1. /\ sK \in [Warp -> [tile : Int, mode : Mode]] /\ sV \in [Warp -> [tile : Int, mode : Mode]]
          /\ sdS \in [Warp -> Int]
      BY <1>1 DEF Domains
    <3>2. CASE UNCHANGED <<sK, sV, sdS>>
      BY <3>1, <3>2
    <3>3. CASE /\ sK' = [sK EXCEPT ![w] = Staged] /\ sV' = [sV EXCEPT ![w] = Staged]
               /\ sdS' = IF call.v_in_regs THEN [sdS EXCEPT ![w] = Garbage] ELSE sdS
      BY <3>1, <3>3, <1>2
    <3>4. QED BY <1>1, <3>2, <3>3
  <2>3. QED BY <1>1, <2>1, <2>2 DEF Domains
<1>5. Bound(w)' = Bound(w) /\ BoundTile(w)' = BoundTile(w)
  <2>1. \/ pc[w] = "stage" /\ pc'[w] = "staged"
        \/ pc[w] = "store" /\ pc'[w] = "done"
    BY <1>1 DEF Domains
  <2>2. QED BY <2>1 DEF Bound, BoundTile, Ending
<1>6. copying'[w] = {}
  <2>1. pc[w] \notin Early /\ ~ PrefetchedQ(w) /\ ~ FetcheddO(w)
    BY <1>1 DEF PrefetchedQ, FetcheddO, Early, Late, Again
  <2>2. QED BY <1>1, <2>1, NoCopies DEF WarpInv
<1>7. WarpInv(w)'
  BY <1>3, <1>6 DEF WarpInv, Flow, Copies, Pointers, SliceQ, SlicedO, SliceKV, Scores,
              PrefetchedQ, FetcheddO, GoneOn, Early, Middle, Late, Again, Ending, InLoop
<1>8. QED BY <1>1, <1>3, <1>4, <1>5, <1>7, OneMoves

(* dk of the tile, and the way to the next one: out of the loop, straight  *)
(* on to the half of sQ that was prefetched, or to the copy of Q.          *)
LEMMA GradKColumn ==
  ASSUME ColumnInv, NEW w \in Warp, GradK(w)
  PROVE  ColumnInv'
<1> DEFINE m == m_block[w]
           next == IF ~ (m > mMin) THEN "epilogue" ELSE IF call.double THEN "top" ELSE "again"
           tile == IF next = "again" THEN m ELSE m - 1
<1>1. /\ Domains /\ WarpInv(w) /\ pc[w] = "dk" /\ pc' = [pc EXCEPT ![w] = next]
      /\ m_block' = [m_block EXCEPT ![w] = tile]
      /\ half' = IF call.double THEN [half EXCEPT ![w].tdK = @ + Toggle(m)] ELSE half
      /\ UNCHANGED <<call, stat, copying, sQ, sdO, sK, sV, vreg, sP, sdS, ds>>
  <2>1. PcAfterDK(w) = next /\ m_block' = [m_block EXCEPT ![w] = tile]
    BY DEF GradK, PcAfterDK, NextTile, Continue
  <2>2. QED BY <2>1 DEF ColumnInv, GradK, tiles, grads
<1>2. /\ n' = n /\ mMax' = mMax /\ mMin' = mMin /\ (Leaves' <=> Leaves)
      /\ mMin \in Int /\ mMax \in Int /\ call \in Calls /\ m <= mMax - 1
  BY <1>1, Fixed, Numbers DEF Domains, WarpInv, Flow, InLoop, Late
<1>3. m \in Int /\ half[w] \in [tQ : Int, tS : Int, tdK : Int] /\ tile \in Int
  BY <1>1 DEF Domains
<1>4. /\ half[w].tQ = HalfOf(call, NextQ(w)) /\ half[w].tS = HalfOf(call, NextQ(w))
      /\ half[w].tdK = HalfOf(call, m)
      /\ HasQ(w, m) /\ (PrefetchedQ(w) /\ ~ Loading(w, "Q") => HasQ(w, m - 1))
      /\ (FetcheddO(w) /\ ~ Loading(w, "dO") => HasdO(w, m - 1))
      /\ HasK(w) /\ (~ call.v_in_regs => HasV(w)) /\ (call.v_in_regs => vreg[w])
      /\ sdS[w] = m /\ (m > mMin => stat[w] = m - 1)
      /\ \A x \in copying[w] : x.buf \in {"Q", "dO"}
  <2>1. pc[w] \in Late /\ pc[w] \in InLoop
    BY <1>1 DEF Late, InLoop
  <2>2. HasK(w) /\ (~ call.v_in_regs => HasV(w))
    BY <2>1, KeysArrived
  <2>3. \A x \in copying[w] : x.buf \in {"Q", "dO"}
    BY <1>1, NoCopies DEF WarpInv, Early
  <2>4. Pointers(w) /\ SliceQ(w) /\ SlicedO(w) /\ SliceKV(w) /\ Scores(w)
    BY <1>1 DEF WarpInv
  <2>5. call.v_in_regs => vreg[w]
    BY <1>1, <2>1, <2>4 DEF SliceKV
  <2>6. sdS[w] = m /\ (m > mMin => stat[w] = m - 1)
    BY <1>1, <2>1, <2>4 DEF Scores
  <2>7. HasQ(w, m) /\ (PrefetchedQ(w) /\ ~ Loading(w, "Q") => HasQ(w, m - 1))
    BY <2>1, <2>4 DEF SliceQ
  <2>8. QED BY <2>1, <2>2, <2>3, <2>4, <2>5, <2>6, <2>7 DEF Pointers, SlicedO
<1>5. /\ call.double => HalfOf(call, m) + Toggle(m) = HalfOf(call, m - 1)
      /\ HalfOf(call, m) \in Int /\ HalfOf(call, m - 1) \in Int
      /\ ~ call.double => HalfOf(call, m - 1) = HalfOf(call, m)
  <2>1. m - 1 \in Int
    BY <1>3
  <2>2. /\ HalfOf(call, m) \in 0 .. 1 /\ HalfOf(call, m - 1) \in 0 .. 1
        /\ call.double => HalfOf(call, m) + Toggle(m) = HalfOf(call, m - 1)
        /\ ~ call.double => HalfOf(call, m) = 0 /\ HalfOf(call, m - 1) = 0
    BY <1>2, <1>3, <2>1, Halves
  <2>3. QED BY <2>2
<1>6. /\ pc'[w] = next /\ m_block'[w] = tile
      /\ half'[w].tQ = half[w].tQ /\ half'[w].tS = half[w].tS
      /\ half'[w].tdK = IF call.double THEN half[w].tdK + Toggle(m) ELSE half[w].tdK
      /\ \A u \in Warp \ {w} : Still(u)
  BY <1>1, <1>3 DEF Domains, Still
<1>7. Domains'
  <2>1. pc' \in [Warp -> InLoop \cup Ending \cup Outside]
    BY <1>1 DEF Domains, InLoop, Early, Again, Ending
  <2>2. half' \in [Warp -> [tQ : Int, tS : Int, tdK : Int]]
    <3>1. call.double => half[w].tdK + Toggle(m) \in Int
      BY <1>4, <1>5
    <3>2. half \in [Warp -> [tQ : Int, tS : Int, tdK : Int]]
      BY <1>1 DEF Domains
    <3>3. QED BY <1>1, <1>3, <3>1, <3>2
  <2>3. m_block' \in [Warp -> Int]
    BY <1>1, <1>3 DEF Domains
  <2>4. QED BY <1>1, <2>1, <2>2, <2>3 DEF Domains
<1>8. Bound(w)' = Bound(w) /\ BoundTile(w)' = BoundTile(w)
  BY <1>1, <1>2, <1>3, <1>6 DEF Bound, BoundTile, AfterProducts, Ending
<1>9. /\ \A t \in Int : (HasQ(w, t)' <=> HasQ(w, t)) /\ (HasdO(w, t)' <=> HasdO(w, t))
      /\ (HasK(w)' <=> HasK(w)) /\ (HasV(w)' <=> HasV(w))
      /\ \A b : Loading(w, b)' <=> Loading(w, b)
  BY <1>1, <1>2 DEF HasQ, HasdO, HasK, HasV, Loading
<1>10. ~ PrefetchedQ(w)'
  BY <1>6 DEF PrefetchedQ, Late
<1>11. WarpInv(w)'
  <2>1. CASE ~ (m > mMin)
    <3>1. /\ next = "epilogue" /\ pc'[w] = "epilogue" /\ m_block'[w] = m - 1 /\ m_block'[w] + 1 = m
          /\ ~ PrefetchedQ(w) /\ ~ FetcheddO(w)
      BY <1>1, <1>2, <1>3, <1>6, <2>1 DEF PrefetchedQ, FetcheddO
    <3>2. copying'[w] = {}
      BY <1>1, <3>1, NoCopies DEF WarpInv, Early
    <3>3. SliceQ(w)' /\ SlicedO(w)'
      BY <1>3, <1>4, <1>9, <1>10, <3>1
         DEF SliceQ, SlicedO, FetcheddO, Early, Middle, Late, Again, Ending
    <3>4. SliceKV(w)'
      BY <1>1, <1>4, <1>9, <3>1 DEF SliceKV, InLoop, Early, Middle, Late, Again, Ending
    <3>5. Scores(w)'
      BY <1>1, <1>4, <3>1 DEF Scores, GoneOn, Early, Middle, Late, Again, Ending
    <3>6. Flow(w)' /\ Copies(w)' /\ Pointers(w)'
      BY <3>1, <3>2 DEF Flow, Copies, Pointers, InLoop, Early, Middle, Late, Again
    <3>7. QED BY <3>3, <3>4, <3>5, <3>6 DEF WarpInv
  <2>2. CASE m > mMin /\ call.double
    <3>1. /\ next = "top" /\ pc'[w] = "top" /\ m_block'[w] = m - 1 /\ m_block'[w] + 1 = m
          /\ m_block'[w] < mMax - 1
          /\ PrefetchedQ(w) /\ FetcheddO(w) /\ ~ FetcheddO(w)'
      BY <1>1, <1>2, <1>3, <1>6, <2>2 DEF PrefetchedQ, FetcheddO, Late, Again
    <3>2. NextQ(w) = m - 1 /\ NextQ(w)' = m - 1 /\ NextdO(w) = m - 1 /\ NextdO(w)' = m - 1
      BY <1>10, <3>1 DEF NextQ, NextdO
    <3>3. SliceQ(w)' /\ SlicedO(w)'
      BY <1>3, <1>4, <1>9, <1>10, <3>1
         DEF SliceQ, SlicedO, FetcheddO, Early, Middle, Late, Again, Ending
    <3>4. SliceKV(w)'
      BY <1>1, <1>2, <1>4, <1>9, <3>1 DEF SliceKV, InLoop, Early, Middle, Late, Again, Ending
    <3>5. Scores(w)'
      BY <1>1, <1>4, <2>2, <3>1 DEF Scores, GoneOn, Early, Middle, Late, Again, Ending
    <3>6. Flow(w)' /\ Pointers(w)'
      <4>1. Flow(w)'
        BY <1>2, <1>3, <3>1 DEF Flow, Again
      <4>2. half'[w].tQ = HalfOf(call, m - 1) /\ half'[w].tS = HalfOf(call, m - 1)
        BY <1>4, <1>6, <3>2
      <4>3. half'[w].tdK = HalfOf(call, m - 1)
        BY <1>4, <1>5, <1>6, <2>2
      <4>4. QED BY <1>1, <3>1, <3>2, <4>1, <4>2, <4>3 DEF Pointers
    <3>7. Copies(w)'
      <4>1. Copies(w)
        BY <1>1 DEF WarpInv
      <4>2. pc'[w] \in Early
        BY <3>1 DEF Early
      <4>3. QED BY <1>1, <1>4, <3>2, <4>1, <4>2 DEF Copies
    <3>8. QED BY <3>3, <3>4, <3>5, <3>6, <3>7 DEF WarpInv
  <2>3. CASE m > mMin /\ ~ call.double
    <3>1. /\ next = "again" /\ pc'[w] = "again" /\ m_block'[w] = m
          /\ ~ PrefetchedQ(w) /\ FetcheddO(w) /\ FetcheddO(w)' /\ ~ GoneOn(w)'
      BY <1>1, <1>2, <1>3, <1>6, <2>3 DEF PrefetchedQ, FetcheddO, GoneOn, Late, Again, Ending
    <3>2. NextQ(w) = m /\ NextQ(w)' = m /\ NextdO(w) = m - 1 /\ NextdO(w)' = m - 1
      BY <1>10, <3>1 DEF NextQ, NextdO
    <3>3. SliceQ(w)' /\ SlicedO(w)'
      BY <1>3, <1>4, <1>9, <1>10, <3>1
         DEF SliceQ, SlicedO, FetcheddO, Early, Middle, Late, Again, Ending
    <3>4. SliceKV(w)'
      BY <1>1, <1>2, <1>4, <1>9, <3>1 DEF SliceKV, InLoop, Early, Middle, Late, Again, Ending
    <3>5. Scores(w)'
      BY <1>1, <1>2, <1>4, <2>3, <3>1 DEF Scores, Early, Middle, Late, Again, Ending
    <3>6. Flow(w)' /\ Pointers(w)'
      BY <1>2, <1>4, <1>6, <2>3, <3>1, <3>2, <1>1
         DEF Flow, Pointers, InLoop, Early, Middle, Late, Again
    <3>7. Copies(w)'
      <4>1. Copies(w) /\ pc[w] \notin Early
        BY <1>1 DEF WarpInv, Early
      <4>2. QED BY <1>1, <1>4, <3>1, <3>2, <4>1 DEF Copies
    <3>8. QED BY <3>3, <3>4, <3>5, <3>6, <3>7 DEF WarpInv
  <2>4. QED BY <2>1, <2>2, <2>3
<1>12. QED BY <1>1, <1>6, <1>7, <1>8, <1>11, OneMoves

(* Without the second half of sQ: the copy of the next tile of Q.          *)
LEMMA FetchQColumn ==
  ASSUME ColumnInv, NEW w \in Warp, FetchQ(w)
  PROVE  ColumnInv'
<1> DEFINE m == m_block[w]
<1>1. /\ Domains /\ WarpInv(w) /\ pc[w] = "fetchQ" /\ pc' = [pc EXCEPT ![w] = "top"]
      /\ copying' = [copying EXCEPT ![w] = @ \cup {Copy("Q", m - 1, "all")}]
      /\ sQ' = [sQ EXCEPT ![half[w].tQ][w] = Torn]
      /\ m_block' = [m_block EXCEPT ![w] = m - 1]
      /\ UNCHANGED <<call, stat, half, sdO, sK, sV, vreg, sP, sdS, ds>>
  BY DEF ColumnInv, FetchQ, grads
<1>2. /\ n' = n /\ mMax' = mMax /\ mMin' = mMin /\ (Leaves' <=> Leaves)
      /\ mMin \in Int /\ mMin >= 0 /\ mMax \in Int /\ call \in Calls
      /\ m <= mMax - 1 /\ m > mMin /\ ~ call.double
  BY <1>1, Fixed, Numbers DEF Domains, WarpInv, Flow, InLoop, Again
<1>3. m \in Int /\ m - 1 \in Int
  BY <1>1 DEF Domains
<1>4. /\ half[w].tQ = 0 /\ half[w].tS = 0 /\ half[w].tdK = 0 /\ \A t \in Int : HalfOf(call, t) = 0
  <2>1. \A t \in Int : HalfOf(call, t) = 0
    BY <1>2, Halves
  <2>2. NextQ(w) = m
    BY <1>2 DEF NextQ, PrefetchedQ
  <2>3. QED BY <1>1, <1>3, <2>1, <2>2 DEF WarpInv, Pointers, InLoop, Again
<1>5. RowMode(call, m - 1, "all")
  <2>1. 0 <= m - 1 /\ m - 1 < mMax - 1
    BY <1>2, <1>3
  <2>2. QED BY <1>2, <1>3, <2>1, FullTiles
<1>6. /\ pc'[w] = "top" /\ m_block'[w] = m - 1 /\ m_block'[w] + 1 = m
      /\ copying'[w] = copying[w] \cup {Copy("Q", m - 1, "all")}
      /\ \A u \in Warp \ {w} : Still(u)
  BY <1>1, <1>3, <1>4 DEF Domains, Still
<1>7. Domains'
  <2>1. pc' \in [Warp -> InLoop \cup Ending \cup Outside]
    BY <1>1 DEF Domains, InLoop, Early
  <2>2. copying' \in [Warp -> SUBSET [buf : {"Q", "dO", "K", "V"}, tile : Int, mode : Mode]]
    BY <1>1, <1>3 DEF Domains, Copy, Mode
  <2>3. sQ' \in [0 .. 1 -> [Warp -> [tile : Int, mode : Mode]]]
    BY <1>1, <1>4 DEF Domains, Torn, Mode
  <2>4. m_block' \in [Warp -> Int]
    BY <1>1, <1>3 DEF Domains
  <2>5. QED BY <1>1, <2>1, <2>2, <2>3, <2>4 DEF Domains
<1>8. Bound(w)' = Bound(w) /\ BoundTile(w)' = BoundTile(w)
  BY <1>1, <1>6 DEF Bound, BoundTile, Ending
<1>9. /\ ~ PrefetchedQ(w)' /\ ~ PrefetchedQ(w) /\ FetcheddO(w) /\ ~ FetcheddO(w)'
      /\ pc[w] \notin Early /\ pc'[w] \in Early
  BY <1>1, <1>2, <1>6 DEF PrefetchedQ, FetcheddO, Early, Late, Again
<1>10. NextdO(w) = m - 1 /\ NextQ(w)' = m - 1 /\ NextdO(w)' = m - 1
  BY <1>6, <1>9 DEF NextQ, NextdO
<1>11. /\ \A x \in copying[w] : x.buf = "dO" /\ x.tile = m - 1 /\ RowMode(call, x.tile, x.mode)
       /\ ~ Loading(w, "K") /\ ~ Loading(w, "V")
  <2>1. \A x \in copying[w] : x.buf = "dO"
    BY <1>1, <1>9, NoCopies DEF WarpInv
  <2>2. QED BY <1>1, <1>10, <2>1 DEF WarpInv, Copies, Loading
<1>12. Loading(w, "Q")' /\ (Loading(w, "dO")' <=> Loading(w, "dO"))
  <2>1. Copy("Q", m - 1, "all").buf = "Q"
    BY DEF Copy
  <2>2. /\ Copy("Q", m - 1, "all") \in copying'[w] /\ copying[w] \subseteq copying'[w]
        /\ \A x \in copying'[w] : x \in copying[w] \/ x = Copy("Q", m - 1, "all")
    BY <1>6
  <2>3. QED BY <2>1, <2>2 DEF Loading
<1>13. /\ \A t \in Int : HasdO(w, t)' <=> HasdO(w, t)
       /\ (HasK(w)' <=> HasK(w)) /\ (HasV(w)' <=> HasV(w))
  BY <1>1, <1>2 DEF HasdO, HasK, HasV
<1>14. Flow(w)' /\ Pointers(w)'
  BY <1>1, <1>2, <1>3, <1>4, <1>6, <1>10 DEF Flow, Pointers, InLoop, Early, Middle, Late, Again
<1>15. Copies(w)'
  BY <1>1, <1>5, <1>6, <1>9, <1>10, <1>11 DEF Copies, Copy
<1>16. SliceQ(w)' /\ SlicedO(w)'
  <2>1. ~ Loading(w, "dO") => HasdO(w, m - 1)
    BY <1>1, <1>9 DEF WarpInv, SlicedO
  <2>2. SliceQ(w)'
    BY <1>1, <1>2, <1>6, <1>9, <1>12 DEF SliceQ, GoneOn, Early, Middle, Late, Again, Ending
  <2>3. SlicedO(w)'
    BY <1>3, <1>6, <1>9, <1>12, <1>13, <2>1 DEF SlicedO, Early, Middle, Late, Again
  <2>4. QED BY <2>2, <2>3
<1>17. SliceKV(w)'
  <2>1. HasK(w) /\ (~ call.v_in_regs => HasV(w))
    BY <1>1, KeysArrived DEF Again
  <2>2. call.v_in_regs => vreg[w]
    BY <1>1 DEF WarpInv, SliceKV, InLoop, Early, Again
  <2>3. m_block'[w] # mMax - 1
    BY <1>2, <1>3, <1>6
  <2>4. QED BY <1>1, <1>2, <1>6, <1>13, <2>1, <2>2, <2>3 DEF SliceKV
<1>18. Scores(w)'
  <2>1. sdS[w] = m /\ stat[w] = m - 1
    BY <1>1, <1>2 DEF WarpInv, Scores, Again
  <2>2. QED BY <1>1, <1>6, <2>1 DEF Scores, GoneOn, Early, Middle, Late, Again, Ending
<1>19. QED
  BY <1>1, <1>6, <1>7, <1>8, <1>14, <1>15, <1>16, <1>17, <1>18, OneMoves DEF WarpInv

-----------------------------------------------------------------------------
LEMMA StutterColumn ==
  ASSUME ColumnInv, UNCHANGED vars
  PROVE  ColumnInv'
<1>1. /\ call' = call /\ Domains' /\ \A u \in Warp : Still(u)
  BY DEF ColumnInv, Domains, Still, vars
<1>2. ASSUME NEW u \in Warp
      PROVE  WarpInv(u)' /\ Bound(u)' = Bound(u) /\ BoundTile(u)' = BoundTile(u)
  <2>1. Still(u) /\ WarpInv(u) /\ call \in Calls /\ m_block[u] \in Int
    BY <1>1 DEF ColumnInv, Domains
  <2>2. QED BY <1>1, <2>1, Others
<1>3. InStep'
  BY <1>2 DEF ColumnInv, InStep
<1>4. QED BY <1>1, <1>2, <1>3 DEF ColumnInv

LEMMA NextColumn == ColumnInv /\ [Next]_vars => ColumnInv'
<1> SUFFICES ASSUME ColumnInv, [Next]_vars PROVE ColumnInv'
  OBVIOUS
<1>1. CASE UNCHANGED vars
  BY <1>1, StutterColumn
<1>2. CASE Release
  BY <1>2, ReleaseColumn
<1>3. ASSUME NEW w \in Warp, NEW x \in copying[w], Land(w, x) PROVE ColumnInv'
  BY <1>3, LandColumn
<1>4. ASSUME NEW w \in Warp, Execute(w) PROVE ColumnInv'
  <2>1. CASE NoKeys(w) \/ Exit(w)
    BY <2>1, LeaveColumn
  <2>2. CASE Prologue(w)
    BY <2>2, PrologueColumn
  <2>3. CASE Arrive(w)
    BY <2>3, ArriveColumn
  <2>4. CASE LoadV(w)
    BY <2>4, LoadVColumn
  <2>5. CASE Score(w)
    BY <2>5, ScoreColumn
  <2>6. CASE GradScore(w)
    BY <2>6, GradScoreColumn
  <2>7. CASE PrefetchQ(w)
    BY <2>7, PrefetchQColumn
  <2>8. CASE StoreDS(w)
    BY <2>8, StoreDSColumn
  <2>9. CASE GradV(w)
    BY <2>9, GradVColumn
  <2>10. CASE FetchDO(w)
    BY <2>10, FetchDOColumn
  <2>11. CASE GradQ(w)
    BY <2>11, GradQColumn
  <2>12. CASE GradK(w)
    BY <2>12, GradKColumn
  <2>13. CASE FetchQ(w)
    BY <2>13, FetchQColumn
  <2>14. CASE Stage(w) \/ Store(w)
    BY <2>14, EpilogueColumn
  <2>15. QED
    BY <1>4, <2>1, <2>2, <2>3, <2>4, <2>5, <2>6, <2>7, <2>8, <2>9, <2>10, <2>11, <2>12,
       <2>13, <2>14 DEF Execute
<1>5. QED BY <1>1, <1>2, <1>3, <1>4 DEF Next

(* The invariant of the column block.                                      *)
THEOREM ColumnInvariant == Spec => []ColumnInv
<1>1. Init => ColumnInv
  BY InitColumn
<1>2. ColumnInv /\ [Next]_vars => ColumnInv'
  BY NextColumn
<1>3. QED BY <1>1, <1>2, PTL DEF Spec

(* Every product of the backward kernel reads complete tiles, the right    *)
(* ones, with cleared rows past the end: for any tile sizes, number of     *)
(* warps, lengths, masks and order of copies, with one half of sQ or two,  *)
(* and with V in shared memory or in registers.                            *)
THEOREM ColumnReady == Spec => []OperandsReady
<1>1. ColumnInv => OperandsReady
  BY Ready
<1>2. QED BY <1>1, ColumnInvariant, PTL

(* No unpredicated copy of the backward kernel reads past the end.         *)
THEOREM ColumnInside == Spec => []NoReadPastEnd
<1>1. ColumnInv => NoReadPastEnd
  BY Inside
<1>2. QED BY <1>1, ColumnInvariant, PTL

-----------------------------------------------------------------------------
(* The gradients.  What a row sees of the key tile, and the rows from tile *)
(* t on that see a column.                                                 *)
Sees(row, col)   == col \in Seen(Host(call), row)
ColsSeen(row)    == {n * kBlockN + j : j \in {i \in Column : Sees(row, n * kBlockN + i)}}
RowsFrom(t, col) == {row \in 0 .. call.sq - 1 : t * kBlockM <= row /\ Sees(row, col)}

(* The last query tile whose products a warp has added to dv, dq and dk.   *)
DoneV(w) == IF pc[w] \in {"summed", "syncC", "fetchdO", "dq", "dk"} \cup Again
            THEN m_block[w] ELSE m_block[w] + 1
DoneQ(w) == IF pc[w] \in {"dk"} \cup Again THEN m_block[w] ELSE m_block[w] + 1
DoneK(w) == IF pc[w] \in Again THEN m_block[w] ELSE m_block[w] + 1

(* Behind the loop all query tiles are done, and from the staging on the   *)
(* slices of K and V hold gradients.                                       *)
Behind == {"stage", "staged", "syncF", "store"}
Place(w) ==
  /\ pc[w] \in InLoop => mMin <= m_block[w]
  /\ pc[w] \in Ending \cup Behind => m_block[w] = mMin - 1
  /\ pc[w] \notin {"start", "done"} => ~ Leaves
  /\ pc[w] \in {"staged", "syncF", "store"} \/ (pc[w] = "done" /\ ~ Leaves)
       => sK[w] = Staged /\ sV[w] = Staged

(* Halves of sQ, tiles and copies of tiles.                                *)
Kinds ==
  /\ half \in [Warp -> [tQ : 0 .. 1, tS : 0 .. 1, tdK : 0 .. 1]]
  /\ copying \in [Warp -> SUBSET [buf : {"Q", "dO", "K", "V"}, tile : Nat, mode : Mode]]
  /\ sQ \in [0 .. 1 -> [Warp -> Slice]] /\ sdO \in [Warp -> Slice]
  /\ sK \in [Warp -> Slice] /\ sV \in [Warp -> Slice]

(* What a warp has summed for its columns and rows.                        *)
ColumnSums(w) ==
  \A j \in Column : ColOwner(j) = w =>
    /\ dv[j] = IF pc[w] = "start" THEN {} ELSE RowsFrom(DoneV(w), n * kBlockN + j)
    /\ dk[j] = IF pc[w] = "start" THEN {} ELSE RowsFrom(DoneK(w), n * kBlockN + j)
    /\ pc[w] # "done" => out[j] = Unwritten
RowSums(w) ==
  \A row \in 0 .. call.sq - 1, t \in Nat :
    InTile(t, row) /\ RowOwner(row - t * kBlockM) = w =>
      dq[row] = IF pc[w] = "start" \/ t < DoneQ(w) THEN {} ELSE ColsSeen(row)

SumTypes ==
  /\ dv \in [Column -> SUBSET (0 .. call.sq - 1)]
  /\ dk \in [Column -> SUBSET (0 .. call.sq - 1)]
  /\ dq \in [0 .. call.sq - 1 -> SUBSET (0 .. call.sk - 1)]
  /\ DOMAIN out = Column

Places == \A w \in Warp : Place(w)
Sums   == SumTypes /\ \A w \in Warp : ColumnSums(w) /\ RowSums(w)

GradientInv == ColumnInv /\ Places /\ Kinds /\ Sums

-----------------------------------------------------------------------------
(* Calls with queries, if batched, whose window the host keeps.            *)
WindowsKept == \A c \in Calls : KeepsWindow(Host(c)) /\ c.wr >= -1
SomeQueries == \A c \in Calls : c.varlen \/ c.sq > 0

LEMMA HostFields ==
  ASSUME call \in Calls
  PROVE  /\ Host(call).sq = call.sq /\ Host(call).sk = call.sk
         /\ Host(call).max_sk = call.max_sk /\ Host(call).max_sq = call.max_sq
         /\ Host(call).varlen = call.varlen
         /\ Host(call).wl = call.wl /\ Host(call).causal = FALSE
         /\ Host(call).wr = IF call.causal THEN 0 ELSE call.wr
BY DEF Host

(* The mask in numbers.                                                    *)
LEMMA Window ==
  ASSUME call \in Calls
  PROVE  /\ call.sq \in Nat /\ call.sk \in Nat /\ n \in Nat /\ Offset \in Int
         /\ Left \in Int /\ Right \in Int /\ Offset = call.sq - call.sk
         /\ kBlockM \in Nat \ {0} /\ kBlockN \in Nat \ {0}
         /\ n * kBlockN \in Nat /\ (n + 1) * kBlockN = n * kBlockN + kBlockN
         /\ ~ (Causal /\ Local)
         /\ Causal => Right = 0
         /\ Even => call.sk % kBlockN = 0 /\ call.sq % kBlockM = 0 /\ ~ Local /\ ~ call.varlen
<1>1. /\ call.sq \in Nat /\ call.sk \in Nat /\ call.max_sk \in Nat
      /\ call.wl \in Int /\ call.wr \in Int /\ n \in Nat
      /\ kBlockM \in Nat \ {0} /\ kBlockN \in Nat \ {0}
  BY FlashBwdColumnAssumption, FlashMaskAssumption DEF n
<1>2. Left \in Int /\ Right \in Int
  BY <1>1, HostFields DEF Left, Right, WindowLeft, WindowRight, HostLeft, HostRight, HostCausal, Clamp
<1>3. n * kBlockN \in Nat /\ (n + 1) * kBlockN = n * kBlockN + kBlockN
  BY <1>1
<1>4. ~ (Causal /\ Local) /\ (Causal => Right = 0)
  BY DEF Causal, Local, IsLocal, IsCausal, Right, WindowRight
<1>5. Even => call.sk % kBlockN = 0 /\ call.sq % kBlockM = 0 /\ ~ Local /\ ~ call.varlen
  BY HostFields DEF Even, IsEvenMN, Local
<1>6. QED BY <1>1, <1>2, <1>3, <1>4, <1>5 DEF Offset

LEMMA SeesMeans ==
  ASSUME call \in Calls, NEW row \in Int, NEW col \in Int
  PROVE  Sees(row, col) <=>
           /\ 0 <= col /\ col < call.sk
           /\ Causal \/ Local => col <= row - Offset + Right
           /\ Local => col >= row - Offset - Left
<1>1. /\ call.sq \in Int /\ call.sk \in Int /\ Offset = call.sq - call.sk
      /\ Left \in Int /\ Right \in Int
  BY Window
<1>2. Diagonal(Host(call), row) = row - Offset
  BY <1>1, HostFields DEF Diagonal
<1>3. QED BY <1>1, <1>2, HostFields DEF Sees, Seen, Causal, Local, Left, Right

(* What the tests' mask says, the block sees.                              *)
LEMMA SeesAttends ==
  ASSUME call \in Calls, WindowsKept, NEW row \in 0 .. call.sq - 1, NEW col \in 0 .. call.sk - 1
  PROVE  Attends(call, row, col) <=> Sees(row, col)
<1>1. KeepsWindow(Host(call))
  BY DEF WindowsKept
<1>2. Attends(Host(call), row, col) <=> Sees(row, col)
  BY <1>1, HostFields, HostKeepsMask DEF Sees
<1>3. /\ call.sq \in Nat /\ call.sk \in Nat /\ call.wl \in Int /\ call.wr \in Int
      /\ call.wr >= -1
  BY <1>1, HostFields, FlashBwdColumnAssumption DEF KeepsWindow, WindowsKept
<1>4. Attends(call, row, col) <=> Attends(Host(call), row, col)
  <2>1. CASE call.causal
    BY <1>3, <2>1, HostFields DEF Attends
  <2>2. CASE ~ call.causal
    BY <1>3, <2>2, HostFields DEF Attends
  <2>3. QED BY <2>1, <2>2
<1>5. QED BY <1>2, <1>4

(* A tile that is not masked is seen whole, but for rows past the end; so  *)
(* the entries with a probability are those that are seen.                 *)
LEMMA KeptMeans ==
  ASSUME call \in Calls, ~ PastKeys, NEW m \in Nat, NEW r \in Row, NEW j \in Column
  PROVE  <<r, j>> \in Kept(m) <=> /\ m * kBlockM + r < call.sq
                                  /\ Sees(m * kBlockM + r, n * kBlockN + j)
<1> DEFINE lo == m * kBlockM
           row == lo + r
           left == n * kBlockN
           right == (n + 1) * kBlockN
           col == left + j
<1>1. /\ call.sq \in Nat /\ call.sk \in Nat /\ Offset \in Int
      /\ Left \in Int /\ Right \in Int /\ Offset = call.sq - call.sk
      /\ left \in Nat /\ lo \in Nat /\ right = left + kBlockN
      /\ ~ (Causal /\ Local) /\ (Causal => Right = 0)
      /\ kBlockN \in Nat \ {0} /\ kBlockM \in Nat \ {0}
      /\ r \in Nat /\ r < kBlockM /\ j \in Nat /\ j < kBlockN
      /\ left < call.sk
  <2>1. lo \in Nat
    BY Window
  <2>2. left < call.sk
    BY Window DEF PastKeys
  <2> HIDE DEF lo
  <2>3. QED BY <2>1, <2>2, Window DEF Row, Column
<1>2. ~ LastTile => right <= call.sk
  <2>1. CASE ~ Even
    BY <1>1, <2>1 DEF LastTile
  <2>2. CASE Even
    <3>1. PICK x \in Nat : call.sk = x * kBlockN
      BY <1>1, <2>2, Window, Multiple
    <3>2. n < x
      <4>1. n \in Int /\ x \in Int /\ kBlockN \in Int /\ kBlockN > 0
        BY Window
      <4>2. n * kBlockN < x * kBlockN
        BY <1>1, <3>1
      <4>3. QED BY <4>1, <4>2, Multiples
    <3>3. n + 1 <= x
      BY <3>2, Window
    <3>4. (n + 1) * kBlockN <= x * kBlockN
      BY <3>3, Window, Grows
    <3>5. QED BY <3>1, <3>4
  <2>3. QED BY <2>1, <2>2
<1>3. <<r, j>> \in Kept(m) <=> row < call.sq /\ ~ (Masking(m) /\ Hidden(row, col))
  <2>1. \A e \in Row \X Column : e \in Kept(m) <=>
           /\ m * kBlockM + e[1] < call.sq
           /\ ~ (Masking(m) /\ Hidden(m * kBlockM + e[1], n * kBlockN + e[2]))
    BY DEF Kept
  <2>2. <<r, j>> \in Row \X Column
    OBVIOUS
  <2>3. QED BY <2>1, <2>2
<1> HIDE DEF row, col
<1>4. row \in Int /\ col \in Int /\ 0 <= col /\ col < right /\ lo <= row /\ row < lo + kBlockM
      /\ left <= col
  BY <1>1 DEF row, col
<1>5. Sees(row, col) <=>
        /\ col < call.sk
        /\ Causal \/ Local => col <= row - Offset + Right
        /\ Local => col >= row - Offset - Left
  BY <1>4, SeesMeans
<1>6. /\ col >= LimitRight(Host(call), row) <=> ~ (col < call.sk /\ col <= row - Offset + Right)
      /\ col < LimitLeft(Host(call), row) <=> ~ col >= row - Offset - Left
  <2>1. /\ LimitRight(Host(call), row) = AtMost(call.sk, row + 1 + call.sk - call.sq + Right)
        /\ LimitLeft(Host(call), row) = AtLeast(0, row + call.sk - call.sq - Left)
    BY HostFields DEF LimitRight, LimitLeft, Left, Right
  <2>2. QED BY <2>1, <1>1, <1>4 DEF AtMost, AtLeast
<1>7. (Masking(m) /\ Hidden(row, col)) <=> ~ Sees(row, col)
  <2>1. CASE Causal
    <3>1. Masking(m) <=> lo < right + Offset \/ LastTile
      BY <2>1 DEF Masking
    <3>2. Hidden(row, col) <=> ~ Sees(row, col)
      BY <1>1, <1>5, <1>6, <2>1 DEF Hidden
    <3>3. ~ Masking(m) => col < call.sk /\ col <= row - Offset + Right
      <4> HIDE DEF lo, left, right
      <4>1. QED BY <1>1, <1>2, <1>4, <2>1, <3>1
    <3>4. QED BY <1>1, <1>5, <2>1, <3>2, <3>3
  <2>2. CASE Local
    <3>1. Masking(m) <=> \/ lo < right + Offset - Right
                         \/ lo + kBlockM >= left + Offset + Left
                         \/ LastTile
      BY <1>1, <2>2 DEF Masking
    <3>2. Hidden(row, col) <=> ~ Sees(row, col)
      BY <1>1, <1>5, <1>6, <2>2 DEF Hidden
    <3>3. ~ Masking(m) => col < call.sk /\ col <= row - Offset + Right /\ col >= row - Offset - Left
      <4> HIDE DEF lo, left, right
      <4>1. QED BY <1>1, <1>2, <1>4, <3>1
    <3>4. QED BY <1>5, <3>2, <3>3
  <2>3. CASE ~ Causal /\ ~ Local
    <3>1. Masking(m) <=> LastTile
      BY <2>3 DEF Masking
    <3>2. Hidden(row, col) <=> col >= call.sk
      BY <2>3 DEF Hidden
    <3>3. ~ LastTile => col < call.sk
      BY <1>1, <1>2, <1>4
    <3>4. QED BY <1>1, <1>4, <1>5, <2>3, <3>1, <3>2, <3>3
  <2>4. QED BY <2>1, <2>2, <2>3
<1>8. QED BY <1>3, <1>7 DEF row, col

(* The query tiles that the block visits hold every row that sees a column *)
(* of the key tile.                                                        *)
LEMMA RowsInRange ==
  ASSUME call \in Calls, NEW j \in Column, NEW row \in 0 .. call.sq - 1,
         Sees(row, n * kBlockN + j), NEW t \in Nat, InTile(t, row)
  PROVE  mMin <= t /\ t < mMax
<1> DEFINE M == kBlockM
           left == n * kBlockN
           right == (n + 1) * kBlockN
           col == left + j
           all == CeilDiv(call.sq, M)
           up == right + Offset + Left
           seen == CeilDiv(up, M)
           down == left + Offset - Right
           first == Quot(down, M)
<1>1. /\ call.sq \in Nat /\ call.sk \in Nat /\ Offset \in Int
      /\ Left \in Int /\ Right \in Int
      /\ left \in Nat /\ right = left + kBlockN
      /\ kBlockN \in Nat \ {0} /\ M \in Nat \ {0}
      /\ j \in Nat /\ j < kBlockN /\ row \in Nat /\ row < call.sq
  BY Window DEF Column
<1>2. col \in Int /\ left <= col /\ col < right /\ up \in Int /\ down \in Int
  BY <1>1
<1>3. /\ Causal \/ Local => col <= row - Offset + Right
      /\ Local => col >= row - Offset - Left
  BY <1>1, <1>2, SeesMeans
<1>4. t * M \in Int /\ (t + 1) * M = t * M + M /\ t * M <= row /\ row < t * M + M
  BY RowInTile
<1>5. all \in Int /\ call.sq <= all * M /\ seen \in Int /\ up <= seen * M
  <2>1. call.sq \in Int
    BY <1>1
  <2> HIDE DEF M, up
  <2>2. QED BY <1>1, <1>2, <2>1, RoundedUp
<1>6. first \in Int /\ (first > 0 => first * M <= down)
  <2> HIDE DEF M, down
  <2>1. QED BY <1>1, <1>2, RoundedDown
<1>7. /\ mMax = IF Local THEN AtMost(all, seen) ELSE all
      /\ mMin = IF Causal \/ Local THEN AtLeast(0, first) ELSE 0
  BY DEF mMax, mMin
<1> HIDE DEF all, seen, first
<1>8. Local => row < up
  BY <1>1, <1>2, <1>3
<1>9. Causal \/ Local => down <= row
  BY <1>1, <1>2, <1>3
<1> HIDE DEF M, up, down, left, right, col
<1>10. all * M \in Int /\ seen * M \in Int /\ first * M \in Int
  BY <1>1, <1>5, <1>6
<1>11. t < all
  <2>1. t * M < all * M
    BY <1>1, <1>4, <1>5, <1>10
  <2>2. QED BY <2>1, <1>1, <1>5, Multiples
<1>12. Local => t < seen
  <2>1. Local => t * M < seen * M
    BY <1>1, <1>2, <1>4, <1>5, <1>8, <1>10
  <2>2. QED BY <2>1, <1>1, <1>5, Multiples
<1>13. (Causal \/ Local) /\ first > 0 => first <= t
  <2>1. (Causal \/ Local) /\ first > 0 => first * M < t * M + M
    BY <1>1, <1>2, <1>4, <1>6, <1>9, <1>10
  <2>2. QED BY <2>1, <1>1, <1>6, LeastMultiple
<1>14. QED BY <1>5, <1>6, <1>7, <1>11, <1>12, <1>13 DEF AtMost, AtLeast

(* The tile of a row.                                                      *)
LEMMA TileOf ==
  ASSUME NEW row \in Nat
  PROVE  \E t \in Nat : InTile(t, row)
<1>1. kBlockM \in Nat \ {0}
  BY FlashMaskAssumption
<1> DEFINE t == row \div kBlockM
<1>2. t \in Nat /\ t * kBlockM <= row /\ row < (t + 1) * kBlockM
  BY <1>1
<1>3. QED BY <1>2 DEF InTile

(* A block that leaves at once is seen by nobody; otherwise it visits a    *)
(* tile.                                                                   *)
LEMMA LeftUnseen ==
  ASSUME call \in Calls, Leaves, NEW row \in 0 .. call.sq - 1, NEW j \in Column
  PROVE  ~ Sees(row, n * kBlockN + j)
<1> SUFFICES ASSUME Sees(row, n * kBlockN + j) PROVE FALSE
  OBVIOUS
<1>1. row \in Nat /\ j \in Nat
  BY Window DEF Column
<1>2. CASE PastKeys
  <2>1. n * kBlockN + j \in Int /\ n * kBlockN \in Nat /\ call.sk \in Nat
    BY <1>1, Window
  <2>2. n * kBlockN + j < call.sk
    BY <1>1, <2>1, SeesMeans
  <2>3. QED BY <1>1, <1>2, <2>1, <2>2 DEF PastKeys
<1>3. CASE NoTile
  <2>1. PICK t \in Nat : InTile(t, row)
    BY <1>1, TileOf
  <2>2. mMin <= t /\ t < mMax
    BY <2>1, RowsInRange
  <2>3. QED BY <1>3, <2>2, Numbers DEF NoTile
<1>4. QED BY <1>2, <1>3 DEF Leaves

LEMMA SomeTile ==
  ASSUME call \in Calls, SomeQueries, ~ Leaves
  PROVE  mMin <= mMax - 1
<1>1. mMin \in Int /\ mMax \in Int
  BY Numbers
<1>2. CASE Local \/ ~ Even
  BY <1>1, <1>2 DEF Leaves, NoTile
<1>3. CASE ~ Local /\ Even
  <2> DEFINE row == call.sq - 1
  <2>1. row \in 0 .. call.sq - 1 /\ row \in Nat
    BY <1>3, Window DEF SomeQueries
  <2>2. 0 \in Column /\ n * kBlockN + 0 = n * kBlockN /\ n * kBlockN < call.sk
    BY Window DEF Column, Leaves, PastKeys
  <2>3. Sees(row, n * kBlockN + 0)
    <3>1. n * kBlockN \in Int /\ 0 <= n * kBlockN /\ row \in Int
          /\ row - Offset = call.sk - 1 /\ (Causal => Right = 0) /\ call.sk \in Nat
      BY Window, <2>1
    <3>2. n * kBlockN <= row - Offset + 0
      BY <3>1, <2>2
    <3>3. Causal => n * kBlockN <= row - Offset + Right
      BY <3>1, <3>2
    <3> HIDE DEF row
    <3>4. QED BY <1>3, <2>2, <3>1, <3>3, SeesMeans
  <2>4. PICK t \in Nat : InTile(t, row)
    BY <2>1, TileOf
  <2> HIDE DEF row
  <2>5. mMin <= t /\ t < mMax
    BY <2>1, <2>2, <2>3, <2>4, RowsInRange
  <2>6. QED BY <1>1, <2>5
<1>4. QED BY <1>2, <1>3

-----------------------------------------------------------------------------
(* One product adds the rows, or the columns, of its tile.                 *)
LEMMA PlusRows ==
  ASSUME call \in Calls, ~ PastKeys, NEW m \in Nat, NEW j \in Column
  PROVE  Plus(RowsFrom(m + 1, n * kBlockN + j), RowsOf(m, j), TRUE)
           = RowsFrom(m, n * kBlockN + j)
<1> DEFINE M == kBlockM
           col == n * kBlockN + j
           sum == RowsFrom(m + 1, col)
           new == RowsOf(m, j)
<1>1. M \in Nat \ {0} /\ call.sq \in Nat
  BY Window
<1>2. m * M \in Nat /\ (m + 1) * M = m * M + M
  BY <1>1
<1>3. \A r \in Row : r \in Nat /\ r < M
  BY <1>1 DEF Row
<1>4. new = {m * M + r : r \in {i \in Row : <<i, j>> \in Kept(m)}}
  <2>1. Kept(m) \subseteq Row \X Column
    BY DEF Kept
  <2>2. ASSUME NEW x \in new
        PROVE  x \in {m * M + r : r \in {i \in Row : <<i, j>> \in Kept(m)}}
    <3>1. PICK e \in Kept(m) : e[2] = j /\ x = m * M + e[1]
      BY DEF RowsOf
    <3>2. e[1] \in Row /\ e = <<e[1], j>>
      BY <2>1, <3>1
    <3>3. QED BY <3>1, <3>2
  <2>3. ASSUME NEW r \in Row, <<r, j>> \in Kept(m)
        PROVE  m * M + r \in new
    <3>1. <<r, j>>[1] = r /\ <<r, j>>[2] = j
      OBVIOUS
    <3>2. QED BY <2>3, <3>1 DEF RowsOf
  <2>4. QED BY <2>2, <2>3
<1>5. new = {row \in 0 .. call.sq - 1 : m * M <= row /\ row < m * M + M /\ Sees(row, col)}
  <2>1. ASSUME NEW r \in Row
        PROVE  <<r, j>> \in Kept(m) <=> m * M + r < call.sq /\ Sees(m * M + r, col)
    BY KeptMeans
  <2> HIDE DEF M, col, new
  <2>2. ASSUME NEW row \in 0 .. call.sq - 1, m * M <= row, row < m * M + M, Sees(row, col)
        PROVE  row \in new
    <3>1. row - m * M \in Row /\ m * M + (row - m * M) = row /\ row < call.sq
      BY <1>1, <1>2, <2>2 DEF Row, M
    <3>2. QED BY <1>4, <2>1, <2>2, <3>1
  <2>3. ASSUME NEW r \in Row, <<r, j>> \in Kept(m)
        PROVE  /\ m * M + r \in 0 .. call.sq - 1 /\ m * M <= m * M + r
               /\ m * M + r < m * M + M /\ Sees(m * M + r, col)
    BY <1>1, <1>2, <1>3, <2>1, <2>3
  <2>4. QED BY <1>4, <2>2, <2>3
<1> HIDE DEF col, new
<1>6. sum \cap new = {} /\ sum \cup new = RowsFrom(m, col)
  <2>1. sum = {row \in 0 .. call.sq - 1 : m * M + M <= row /\ Sees(row, col)}
    BY <1>2 DEF RowsFrom
  <2>2. RowsFrom(m, col) = {row \in 0 .. call.sq - 1 : m * M <= row /\ Sees(row, col)}
    BY DEF RowsFrom
  <2> HIDE DEF sum, M
  <2>3. \A row \in 0 .. call.sq - 1 :
          /\ (m * M + M <= row => m * M <= row)
          /\ ~ (m * M + M <= row /\ row < m * M + M)
          /\ m * M <= row => m * M + M <= row \/ row < m * M + M
    BY <1>1, <1>2
  <2>4. QED BY <1>5, <2>1, <2>2, <2>3
<1>7. QED BY <1>6 DEF Plus, col, new

LEMMA PlusColumns ==
  ASSUME call \in Calls, ~ PastKeys, NEW m \in Nat, NEW row \in 0 .. call.sq - 1,
         row - m * kBlockM \in Row
  PROVE  Plus({}, ColsOf(m, row - m * kBlockM), TRUE) = ColsSeen(row)
<1> DEFINE r == row - m * kBlockM
<1>1. m * kBlockM + r = row /\ row < call.sq
  <2>1. m * kBlockM \in Int
    BY Window
  <2>2. QED BY <2>1, Window
<1>2. \A j \in Column : <<r, j>> \in Kept(m) <=> Sees(row, n * kBlockN + j)
  BY <1>1, KeptMeans
<1> HIDE DEF r
<1>3. ColsOf(m, r) = {n * kBlockN + j : j \in {i \in Column : <<r, i>> \in Kept(m)}}
  <2>1. Kept(m) \subseteq Row \X Column
    BY DEF Kept
  <2>2. ASSUME NEW x \in ColsOf(m, r)
        PROVE  x \in {n * kBlockN + j : j \in {i \in Column : <<r, i>> \in Kept(m)}}
    <3>1. PICK e \in Kept(m) : e[1] = r /\ x = n * kBlockN + e[2]
      BY DEF ColsOf
    <3>2. e[2] \in Column /\ e = <<r, e[2]>>
      BY <2>1, <3>1
    <3>3. QED BY <3>1, <3>2
  <2>3. ASSUME NEW j \in Column, <<r, j>> \in Kept(m)
        PROVE  n * kBlockN + j \in ColsOf(m, r)
    <3>1. <<r, j>>[1] = r /\ <<r, j>>[2] = j
      OBVIOUS
    <3>2. QED BY <2>3, <3>1 DEF ColsOf
  <2>4. QED BY <2>2, <2>3
<1>4. ColsOf(m, r) = ColsSeen(row)
  BY <1>2, <1>3 DEF ColsSeen
<1>5. QED BY <1>4 DEF Plus, r

(* Before the first tile nothing is summed, behind the last everything.    *)
LEMMA RowsAtEnds ==
  ASSUME call \in Calls, NEW j \in Column
  PROVE  /\ RowsFrom(mMax, n * kBlockN + j) = {}
         /\ RowsFrom(mMin, n * kBlockN + j)
              = {row \in 0 .. call.sq - 1 : Sees(row, n * kBlockN + j)}
<1>1. /\ mMin \in Nat /\ mMax \in Int /\ call.sq \in Nat /\ kBlockM \in Nat \ {0}
  BY Numbers, Window
<1>2. ASSUME NEW row \in 0 .. call.sq - 1, Sees(row, n * kBlockN + j)
      PROVE  mMin * kBlockM <= row /\ ~ mMax * kBlockM <= row
  <2>1. PICK t \in Nat : InTile(t, row)
    BY <1>1, TileOf
  <2>2. mMin <= t /\ t + 1 <= mMax
    BY <1>1, <1>2, <2>1, RowsInRange
  <2>3. t * kBlockM <= row /\ row < (t + 1) * kBlockM
    BY <2>1, RowInTile
  <2>4. mMin * kBlockM <= t * kBlockM /\ (t + 1) * kBlockM <= mMax * kBlockM
    <3>1. t \in Int /\ t + 1 \in Int /\ mMin \in Int
      BY <1>1
    <3>2. QED BY <1>1, <2>2, <3>1, Grows
  <2>5. mMin * kBlockM \in Int /\ t * kBlockM \in Int /\ (t + 1) * kBlockM \in Int
        /\ mMax * kBlockM \in Int /\ row \in Int
    BY <1>1
  <2>6. QED BY <2>3, <2>4, <2>5
<1>3. QED BY <1>2 DEF RowsFrom

(* Nothing is seen of a block that leaves at once, nor of tiles not        *)
(* visited.                                                                *)
LEMMA NothingSeen ==
  ASSUME call \in Calls, NEW row \in 0 .. call.sq - 1
  PROVE  /\ Leaves => ColsSeen(row) = {}
         /\ \A t \in Nat : InTile(t, row) /\ ~ (mMin <= t /\ t < mMax) => ColsSeen(row) = {}
<1>1. Leaves => ColsSeen(row) = {}
  BY LeftUnseen DEF ColsSeen
<1>2. ASSUME NEW t \in Nat, InTile(t, row), ~ (mMin <= t /\ t < mMax)
      PROVE  ColsSeen(row) = {}
  BY <1>2, RowsInRange DEF ColsSeen
<1>3. QED BY <1>1, <1>2

LEMMA SumsTyped ==
  ASSUME call \in Calls
  PROVE  /\ \A row \in 0 .. call.sq - 1 : ColsSeen(row) \subseteq 0 .. call.sk - 1
         /\ \A t, col : RowsFrom(t, col) \subseteq 0 .. call.sq - 1
<1>1. \A row, col : Sees(row, col) => col \in 0 .. call.sk - 1
  BY HostFields DEF Sees, Seen
<1>2. QED BY <1>1 DEF ColsSeen, RowsFrom

-----------------------------------------------------------------------------
(* How a step takes a warp from place to place: nowhere; away at once or   *)
(* into the loop; on in the loop, to the next tile, out of it; and through *)
(* the epilogue.                                                           *)
Rest(u) == pc'[u] = pc[u] /\ m_block'[u] = m_block[u] /\ sK'[u] = sK[u] /\ sV'[u] = sV[u]
Move(u) ==
  \/ pc[u] = "start" /\ pc'[u] = "done" /\ Leaves
  \/ /\ pc[u] = "start" /\ pc'[u] \in {"waitV", "top"} /\ ~ Leaves
     /\ m_block'[u] = mMax - 1
  \/ pc[u] \in InLoop /\ pc'[u] \in InLoop /\ m_block'[u] = m_block[u]
  \/ /\ pc[u] \in {"dk", "fetchQ"} /\ pc'[u] = "top" /\ m_block[u] > mMin
     /\ m_block'[u] = m_block[u] - 1
  \/ /\ pc[u] = "dk" /\ pc'[u] = "epilogue" /\ ~ m_block[u] > mMin
     /\ m_block'[u] = m_block[u] - 1
  \/ /\ <<pc[u], pc'[u]>> \in {<<"epilogue", "syncE">>, <<"syncE", "stage">>}
     /\ m_block'[u] = m_block[u]
  \/ /\ pc[u] = "stage" /\ pc'[u] = "staged" /\ m_block'[u] = m_block[u]
     /\ sK'[u] = Staged /\ sV'[u] = Staged
  \/ /\ <<pc[u], pc'[u]>> \in {<<"staged", "syncF">>, <<"syncF", "store">>, <<"store", "done">>}
     /\ m_block'[u] = m_block[u] /\ sK'[u] = sK[u] /\ sV'[u] = sV[u]

LEMMA Moves ==
  ASSUME ColumnInv, [Next]_vars
  PROVE  call' = call /\ \A u \in Warp : Rest(u) \/ Move(u)
<1>0. /\ Domains /\ \A u \in Warp : WarpInv(u)
  BY DEF ColumnInv
<1>1. CASE UNCHANGED vars
  BY <1>1 DEF vars, Rest
<1>2. CASE Release
  <2>1. /\ pc' = [u \in Warp |-> After[pc[u]]] /\ \A u \in Warp : pc[u] \in DOMAIN After
        /\ UNCHANGED <<call, m_block, sK, sV>>
    BY <1>2 DEF Release, loop, tiles
  <2>2. ASSUME NEW u \in Warp PROVE Move(u)
    <3>1. pc'[u] = After[pc[u]] /\ pc[u] \in DOMAIN After
      BY <2>1
    <3>2. \/ pc[u] \in InLoop /\ pc'[u] \in InLoop
          \/ pc[u] = "syncE" /\ pc'[u] = "stage"
          \/ pc[u] = "syncF" /\ pc'[u] = "store"
      BY <3>1, Barriers DEF InLoop, Early, Middle, Late, Again
    <3>3. QED BY <2>1, <3>2 DEF Move
  <2>3. QED BY <2>1, <2>2
<1>3. ASSUME NEW w \in Warp, NEW x \in copying[w], Land(w, x)
      PROVE  call' = call /\ \A u \in Warp : Rest(u) \/ Move(u)
  <2>1. /\ UNCHANGED <<call, pc, m_block>>
        /\ sK' = IF x.buf = "K" THEN [sK EXCEPT ![w] = [tile |-> x.tile, mode |-> x.mode]] ELSE sK
        /\ sV' = IF x.buf = "V" THEN [sV EXCEPT ![w] = [tile |-> x.tile, mode |-> x.mode]] ELSE sV
    BY <1>3 DEF Land, loop
  <2>2. x.buf \in {"Q", "dO", "K", "V"}
    BY <1>0 DEF Domains
  <2>3. pc[w] \in InLoop
    BY <1>0, <2>2 DEF WarpInv, Copies, PrefetchedQ, FetcheddO, InLoop, Late, Again
  <2>4. Move(w)
    BY <2>1, <2>3 DEF Move
  <2>5. \A u \in Warp \ {w} : Rest(u)
    BY <1>0, <2>1 DEF Rest, Domains
  <2>6. QED BY <2>1, <2>4, <2>5
<1>4. ASSUME NEW w \in Warp, Execute(w)
      PROVE  call' = call /\ \A u \in Warp : Rest(u) \/ Move(u)
  <2> SUFFICES call' = call /\ Move(w) /\ \A u \in Warp \ {w} : Rest(u)
    OBVIOUS
  <2>0. /\ pc \in [Warp -> InLoop \cup Ending \cup Outside] /\ m_block \in [Warp -> Int]
        /\ sK \in [Warp -> [tile : Int, mode : Mode]] /\ sV \in [Warp -> [tile : Int, mode : Mode]]
    BY <1>0 DEF Domains
  <2>1. CASE NoKeys(w) \/ Exit(w)
    <3>1. /\ pc[w] = "start" /\ Leaves /\ pc' = [pc EXCEPT ![w] = "done"]
          /\ UNCHANGED <<call, m_block, sK, sV>>
      BY <2>1 DEF NoKeys, Exit, Leaves, loop, tiles
    <3>2. QED BY <2>0, <3>1 DEF Move, Rest
  <2>2. CASE Prologue(w)
    <3>1. /\ pc[w] = "start" /\ ~ Leaves
          /\ pc' = [pc EXCEPT ![w] = IF call.v_in_regs THEN "waitV" ELSE "top"]
          /\ m_block' = [m_block EXCEPT ![w] = mMax - 1]
          /\ UNCHANGED <<call, sK, sV>>
      BY <2>2 DEF Prologue, Leaves, tiles
    <3>2. QED BY <2>0, <3>1 DEF Move, Rest
  <2>3. CASE Arrive(w)
    <3>1. /\ pc[w] \in DOMAIN Sync /\ pc' = [pc EXCEPT ![w] = Sync[pc[w]]]
          /\ UNCHANGED <<call, m_block, sK, sV>>
      BY <2>3 DEF Arrive, loop, tiles
    <3>2. pc'[w] = Sync[pc[w]] /\ \A u \in Warp \ {w} : Rest(u)
      BY <2>0, <3>1 DEF Rest
    <3>3. \/ pc[w] \in InLoop /\ pc'[w] \in InLoop
          \/ pc[w] = "epilogue" /\ pc'[w] = "syncE"
          \/ pc[w] = "staged" /\ pc'[w] = "syncF"
      BY <3>1, <3>2, Barriers DEF InLoop, Early, Middle, Late, Again
    <3>4. QED BY <3>1, <3>2, <3>3 DEF Move
  <2>4. CASE LoadV(w) \/ GradV(w) \/ FetchDO(w) \/ GradQ(w) \/ GradScore(w) \/ PrefetchQ(w)
    <3>1. \E p \in InLoop : pc[w] \in InLoop /\ pc' = [pc EXCEPT ![w] = p]
      <4>1. CASE LoadV(w)
        BY <4>1 DEF LoadV, InLoop, Early
      <4>2. CASE GradV(w)
        BY <4>2 DEF GradV, InLoop, Late
      <4>3. CASE FetchDO(w)
        BY <4>3 DEF FetchDO, InLoop, Late
      <4>4. CASE GradQ(w)
        BY <4>4 DEF GradQ, InLoop, Late
      <4>5. CASE GradScore(w)
        BY <4>5 DEF GradScore, InLoop, Middle, Late
      <4>6. CASE PrefetchQ(w)
        BY <4>6 DEF PrefetchQ, InLoop, Middle, Late
      <4>7. QED BY <2>4, <4>1, <4>2, <4>3, <4>4, <4>5, <4>6
    <3>2. UNCHANGED <<call, m_block, sK, sV>>
      BY <2>4 DEF LoadV, GradV, FetchDO, GradQ, GradScore, PrefetchQ, loop, tiles
    <3>3. QED BY <2>0, <3>1, <3>2 DEF Move, Rest
  <2>5. CASE Score(w) \/ StoreDS(w)
    <3>1. /\ \E p \in InLoop : pc[w] \in InLoop /\ pc' = [pc EXCEPT ![w] = p]
          /\ UNCHANGED <<call, m_block, sK>>
          /\ sV' = IF call.v_in_regs THEN [sV EXCEPT ![w] = Torn] ELSE sV
      BY <2>5 DEF Score, StoreDS, VUnderP, loop, InLoop, Middle, Late
    <3>2. QED BY <2>0, <3>1 DEF Move, Rest
  <2>6. CASE GradK(w)
    <3> DEFINE next == IF ~ (m_block[w] > mMin) THEN "epilogue"
                       ELSE IF call.double THEN "top" ELSE "again"
    <3>1. /\ pc[w] = "dk" /\ pc' = [pc EXCEPT ![w] = next] /\ UNCHANGED <<call, sK, sV>>
          /\ m_block' = [m_block EXCEPT ![w] = IF next = "again" THEN @ ELSE @ - 1]
      BY <2>6 DEF GradK, PcAfterDK, NextTile, Continue, tiles
    <3>2. /\ \A u \in Warp \ {w} : Rest(u)
          /\ pc'[w] = next /\ m_block'[w] = IF next = "again" THEN m_block[w] ELSE m_block[w] - 1
      BY <2>0, <3>1 DEF Rest
    <3>3. Move(w)
      BY <3>1, <3>2 DEF Move, InLoop, Late, Again
    <3>4. QED BY <3>1, <3>2, <3>3
  <2>7. CASE FetchQ(w)
    <3>1. /\ pc[w] = "fetchQ" /\ pc' = [pc EXCEPT ![w] = "top"] /\ UNCHANGED <<call, sK, sV>>
          /\ m_block' = [m_block EXCEPT ![w] = @ - 1]
      BY <2>7 DEF FetchQ
    <3>2. m_block[w] > mMin
      BY <1>0, <3>1 DEF WarpInv, Flow, Again
    <3>3. QED BY <2>0, <3>1, <3>2 DEF Move, Rest
  <2>8. CASE Stage(w)
    <3>1. /\ pc[w] = "stage" /\ pc' = [pc EXCEPT ![w] = "staged"] /\ UNCHANGED <<call, m_block>>
          /\ sK' = [sK EXCEPT ![w] = Staged] /\ sV' = [sV EXCEPT ![w] = Staged]
      BY <2>8 DEF Stage, loop
    <3>2. QED BY <2>0, <3>1 DEF Move, Rest
  <2>9. CASE Store(w)
    <3>1. /\ pc[w] = "store" /\ pc' = [pc EXCEPT ![w] = "done"]
          /\ UNCHANGED <<call, m_block, sK, sV>>
      BY <2>9 DEF Store, loop, tiles
    <3>2. QED BY <2>0, <3>1 DEF Move, Rest
  <2>10. QED
    BY <1>4, <2>1, <2>2, <2>3, <2>4, <2>5, <2>6, <2>7, <2>8, <2>9 DEF Execute
<1>5. QED BY <1>1, <1>2, <1>3, <1>4 DEF Next

LEMMA PlacesKept ==
  ASSUME ColumnInv, SomeQueries, Places, [Next]_vars
  PROVE  Places'
<1>1. /\ call' = call /\ (\A u \in Warp : Rest(u) \/ Move(u)) /\ call \in Calls
      /\ m_block \in [Warp -> Int]
  BY Moves DEF ColumnInv, Domains
<1>2. /\ n' = n /\ mMax' = mMax /\ mMin' = mMin /\ (Leaves' <=> Leaves)
      /\ mMax \in Int /\ mMin \in Int /\ (~ Leaves => mMin <= mMax - 1) /\ Staged' = Staged
  BY <1>1, Fixed, Numbers, SomeTile DEF Staged
<1> SUFFICES ASSUME NEW u \in Warp PROVE Place(u)'
  BY DEF Places
<1>3. Place(u) /\ m_block[u] \in Int
  BY <1>1 DEF Places
<1>4. CASE Rest(u)
  BY <1>2, <1>3, <1>4 DEF Place, Rest
<1>5. CASE Move(u)
  <2>1. CASE pc[u] = "start"
    BY <1>2, <1>5, <2>1 DEF Move, Place, InLoop, Early, Middle, Late, Again, Ending, Behind
  <2>2. CASE pc[u] \in InLoop
    <3>1. \/ pc'[u] \in InLoop /\ m_block'[u] = m_block[u]
          \/ pc'[u] = "top" /\ m_block[u] > mMin /\ m_block'[u] = m_block[u] - 1
          \/ pc'[u] = "epilogue" /\ ~ m_block[u] > mMin /\ m_block'[u] = m_block[u] - 1
      BY <1>5, <2>2 DEF Move, InLoop, Early, Middle, Late, Again
    <3>2. mMin <= m_block[u] /\ ~ Leaves
      BY <1>3, <2>2 DEF Place, InLoop, Early, Middle, Late, Again
    <3>3. CASE pc'[u] \in InLoop
      <4>1. mMin <= m_block'[u]
        BY <1>2, <1>3, <3>1, <3>2, <3>3 DEF InLoop, Early, Middle, Late, Again
      <4>2. pc'[u] \notin Ending \cup Behind \cup {"done"}
        BY <3>3 DEF InLoop, Early, Middle, Late, Again, Ending, Behind
      <4>3. QED BY <1>2, <3>2, <4>1, <4>2 DEF Place, Behind
    <3>4. CASE pc'[u] = "epilogue"
      <4>1. m_block'[u] = mMin - 1
        BY <1>2, <1>3, <3>1, <3>2, <3>4 DEF InLoop, Early, Middle, Late, Again
      <4>2. QED BY <1>2, <3>2, <3>4, <4>1 DEF Place, InLoop, Early, Middle, Late, Again
    <3>5. QED BY <3>1, <3>3, <3>4 DEF InLoop, Early
  <2>3. CASE pc[u] \in Ending \cup Behind
    <3>1. m_block[u] = mMin - 1 /\ ~ Leaves
      BY <1>3, <2>3 DEF Place, Ending, Behind
    <3>2. /\ pc'[u] \in {"syncE", "stage", "staged", "syncF", "store", "done"}
          /\ m_block'[u] = m_block[u]
          /\ pc[u] = "stage" => pc'[u] = "staged" /\ sK'[u] = Staged /\ sV'[u] = Staged
          /\ pc[u] \in {"staged", "syncF", "store"} => sK'[u] = sK[u] /\ sV'[u] = sV[u]
          /\ pc[u] \in Ending => pc'[u] \in {"syncE", "stage"}
      BY <1>5, <2>3 DEF Move, InLoop, Early, Middle, Late, Again, Ending, Behind
    <3>3. pc'[u] \in {"staged", "syncF", "store", "done"} => sK'[u] = Staged /\ sV'[u] = Staged
      BY <1>3, <2>3, <3>1, <3>2 DEF Place, Ending, Behind
    <3>4. QED BY <1>2, <3>1, <3>2, <3>3
              DEF Place, InLoop, Early, Middle, Late, Again, Ending, Behind
  <2>4. QED BY <1>5, <2>1, <2>2, <2>3 DEF Move, InLoop, Early, Middle, Late, Again, Ending, Behind
<1>6. QED BY <1>1, <1>4, <1>5

LEMMA KindsKept ==
  ASSUME ColumnInv, SomeQueries, Places, Kinds, [Next]_vars
  PROVE  Kinds'
<1>0. /\ Domains /\ call \in Calls /\ (\A u \in Warp : WarpInv(u) /\ Place(u))
      /\ mMin \in Int /\ mMin >= 0 /\ mMax \in Int /\ n \in Nat
      /\ (~ Leaves => mMin <= mMax - 1)
      /\ Torn \in Slice /\ Staged \in Slice
  BY Numbers, SomeTile DEF ColumnInv, Domains, Places, Torn, Staged, Slice, Mode
<1>1. CASE UNCHANGED vars
  BY <1>1 DEF vars, Kinds
<1>2. CASE Release
  BY <1>2 DEF Release, tiles, Kinds
<1>3. ASSUME NEW w \in Warp, NEW x \in copying[w], Land(w, x)
      PROVE  Kinds'
  <2> DEFINE slice == [tile |-> x.tile, mode |-> x.mode]
  <2>1. /\ copying' = [copying EXCEPT ![w] = @ \ {x}]
        /\ sQ' = IF x.buf = "Q" THEN [sQ EXCEPT ![half[w].tQ][w] = slice] ELSE sQ
        /\ sdO' = IF x.buf = "dO" THEN [sdO EXCEPT ![w] = slice] ELSE sdO
        /\ sK' = IF x.buf = "K" THEN [sK EXCEPT ![w] = slice] ELSE sK
        /\ sV' = IF x.buf = "V" THEN [sV EXCEPT ![w] = slice] ELSE sV
        /\ UNCHANGED half
    BY <1>3 DEF Land
  <2>2. x \in [buf : {"Q", "dO", "K", "V"}, tile : Nat, mode : Mode] /\ slice \in Slice
        /\ half[w].tQ \in 0 .. 1
    BY <1>3 DEF Kinds, Slice
  <2> HIDE DEF slice
  <2>3. copying' \in [Warp -> SUBSET [buf : {"Q", "dO", "K", "V"}, tile : Nat, mode : Mode]]
    BY <2>1 DEF Kinds
  <2>4. /\ sQ' \in [0 .. 1 -> [Warp -> Slice]] /\ sdO' \in [Warp -> Slice]
        /\ sK' \in [Warp -> Slice] /\ sV' \in [Warp -> Slice]
    BY <2>1, <2>2 DEF Kinds
  <2>5. QED BY <2>1, <2>3, <2>4 DEF Kinds
<1>4. ASSUME NEW w \in Warp, Execute(w)
      PROVE  Kinds'
  <2>1. CASE NoKeys(w) \/ Exit(w) \/ Arrive(w) \/ LoadV(w) \/ GradScore(w) \/ GradV(w)
             \/ GradQ(w) \/ Store(w)
    <3>1. UNCHANGED <<half, copying, sQ, sdO, sK, sV>>
      BY <2>1 DEF NoKeys, Exit, Arrive, LoadV, GradScore, GradV, GradQ, Store, tiles
    <3>2. QED BY <3>1 DEF Kinds
  <2>2. CASE Prologue(w)
    <3>1. /\ half' = [half EXCEPT ![w] = [tQ |-> FirstHalf, tS |-> FirstHalf, tdK |-> FirstHalf]]
          /\ copying' = [copying EXCEPT ![w] =
               {Copy("dO", mMax - 1, FirstMode), Copy("Q", mMax - 1, FirstMode),
                Copy("K", n, FirstMode), Copy("V", n, FirstMode)}]
          /\ UNCHANGED <<sQ, sdO, sK, sV>> /\ ~ Leaves
      BY <2>2 DEF Prologue, tiles, Leaves
    <3>2. FirstHalf \in 0 .. 1 /\ FirstMode \in Mode /\ mMax - 1 \in Nat
      <4>1. mMax - 1 \in Nat
        BY <1>0, <3>1
      <4>2. FirstHalf \in 0 .. 1
        BY <1>0, <4>1 DEF FirstHalf
      <4>3. QED BY <4>1, <4>2 DEF FirstMode, Mode
    <3>3. half' \in [Warp -> [tQ : 0 .. 1, tS : 0 .. 1, tdK : 0 .. 1]]
      BY <3>1, <3>2 DEF Kinds
    <3>4. copying' \in [Warp -> SUBSET [buf : {"Q", "dO", "K", "V"}, tile : Nat, mode : Mode]]
      BY <1>0, <3>1, <3>2 DEF Kinds, Copy
    <3>5. QED BY <3>1, <3>3, <3>4 DEF Kinds
  <2>3. CASE Score(w) \/ StoreDS(w)
    <3>1. /\ sV' = IF call.v_in_regs THEN [sV EXCEPT ![w] = Torn] ELSE sV
          /\ UNCHANGED <<half, copying, sQ, sdO, sK>>
      BY <2>3 DEF Score, StoreDS, VUnderP
    <3>2. QED BY <1>0, <3>1 DEF Kinds
  <2>4. CASE PrefetchQ(w)
    <3> DEFINE other == half[w].tQ + Toggle(m_block[w])
    <3>1. /\ pc[w] = "prefetchQ"
          /\ half' = [half EXCEPT ![w].tQ = other, ![w].tS = @ + Toggle(m_block[w])]
          /\ copying' = [copying EXCEPT ![w] = @ \cup {Copy("Q", m_block[w] - 1, "all")}]
          /\ sQ' = [sQ EXCEPT ![other][w] = Torn]
          /\ UNCHANGED <<sdO, sK, sV>>
      BY <2>4 DEF PrefetchQ
    <3>2. m_block[w] \in Int /\ m_block[w] > mMin /\ call.double
      BY <1>0, <3>1 DEF Domains, WarpInv, Flow
    <3>3. m_block[w] - 1 \in Nat
      BY <1>0, <3>2
    <3>4. half[w].tQ = HalfOf(call, m_block[w]) /\ half[w].tS = HalfOf(call, m_block[w])
      BY <1>0, <3>1 DEF WarpInv, Pointers, NextQ, PrefetchedQ, InLoop, Middle, Late
    <3>5. other \in 0 .. 1 /\ half[w].tS + Toggle(m_block[w]) \in 0 .. 1
      <4>1. HalfOf(call, m_block[w]) + Toggle(m_block[w]) = HalfOf(call, m_block[w] - 1)
        BY <1>0, <3>2, Halves
      <4>2. HalfOf(call, m_block[w] - 1) \in 0 .. 1
        BY <1>0, <3>3, Halves
      <4>3. QED BY <3>4, <4>1, <4>2
    <3> HIDE DEF other
    <3>6. half' \in [Warp -> [tQ : 0 .. 1, tS : 0 .. 1, tdK : 0 .. 1]]
      BY <3>1, <3>5 DEF Kinds
    <3>7. copying' \in [Warp -> SUBSET [buf : {"Q", "dO", "K", "V"}, tile : Nat, mode : Mode]]
      BY <3>1, <3>3 DEF Kinds, Copy, Mode
    <3>8. sQ' \in [0 .. 1 -> [Warp -> Slice]]
      BY <1>0, <3>1, <3>5 DEF Kinds
    <3>9. QED BY <3>1, <3>6, <3>7, <3>8 DEF Kinds
  <2>5. CASE FetchDO(w)
    <3>1. /\ pc[w] = "fetchdO"
          /\ IF m_block[w] > mMin
             THEN /\ copying' = [copying EXCEPT ![w] = @ \cup {Copy("dO", m_block[w] - 1, "all")}]
                  /\ sdO' = [sdO EXCEPT ![w] = Torn]
             ELSE UNCHANGED <<copying, sdO>>
          /\ UNCHANGED <<half, sQ, sK, sV>>
      BY <2>5 DEF FetchDO
    <3>2. m_block[w] > mMin => m_block[w] - 1 \in Nat
      BY <1>0 DEF Domains
    <3>3. copying' \in [Warp -> SUBSET [buf : {"Q", "dO", "K", "V"}, tile : Nat, mode : Mode]]
      BY <3>1, <3>2 DEF Kinds, Copy, Mode
    <3>4. sdO' \in [Warp -> Slice]
      BY <1>0, <3>1 DEF Kinds
    <3>5. QED BY <3>1, <3>3, <3>4 DEF Kinds
  <2>6. CASE GradK(w)
    <3>1. /\ pc[w] = "dk"
          /\ half' = IF call.double THEN [half EXCEPT ![w].tdK = @ + Toggle(m_block[w])] ELSE half
          /\ UNCHANGED <<copying, sQ, sdO, sK, sV>>
      BY <2>6 DEF GradK, tiles
    <3>2. call.double => half[w].tdK + Toggle(m_block[w]) \in 0 .. 1
      <4>1. m_block[w] \in Int /\ m_block[w] - 1 \in Int /\ half[w].tdK = HalfOf(call, m_block[w])
        BY <1>0, <3>1 DEF Domains, WarpInv, Pointers, InLoop, Late
      <4>2. call.double =>
              HalfOf(call, m_block[w]) + Toggle(m_block[w]) = HalfOf(call, m_block[w] - 1)
        BY <1>0, <4>1, Halves
      <4>3. HalfOf(call, m_block[w] - 1) \in 0 .. 1
        BY <1>0, <4>1, Halves
      <4>4. QED BY <4>1, <4>2, <4>3
    <3>3. half' \in [Warp -> [tQ : 0 .. 1, tS : 0 .. 1, tdK : 0 .. 1]]
      BY <3>1, <3>2 DEF Kinds
    <3>4. QED BY <3>1, <3>3 DEF Kinds
  <2>7. CASE FetchQ(w)
    <3>1. /\ pc[w] = "fetchQ"
          /\ copying' = [copying EXCEPT ![w] = @ \cup {Copy("Q", m_block[w] - 1, "all")}]
          /\ sQ' = [sQ EXCEPT ![half[w].tQ][w] = Torn]
          /\ UNCHANGED <<half, sdO, sK, sV>>
      BY <2>7 DEF FetchQ
    <3>2. m_block[w] \in Int /\ m_block[w] > mMin
      BY <1>0, <3>1 DEF Domains, WarpInv, Flow, Again
    <3>3. m_block[w] - 1 \in Nat
      BY <1>0, <3>2
    <3>4. copying' \in [Warp -> SUBSET [buf : {"Q", "dO", "K", "V"}, tile : Nat, mode : Mode]]
      BY <3>1, <3>3 DEF Kinds, Copy, Mode
    <3>5. sQ' \in [0 .. 1 -> [Warp -> Slice]]
      BY <1>0, <3>1 DEF Kinds
    <3>6. QED BY <3>1, <3>4, <3>5 DEF Kinds
  <2>8. CASE Stage(w)
    <3>1. /\ sK' = [sK EXCEPT ![w] = Staged] /\ sV' = [sV EXCEPT ![w] = Staged]
          /\ UNCHANGED <<half, copying, sQ, sdO>>
      BY <2>8 DEF Stage
    <3>2. QED BY <1>0, <3>1 DEF Kinds
  <2>9. QED
    BY <1>4, <2>1, <2>2, <2>3, <2>4, <2>5, <2>6, <2>7, <2>8 DEF Execute
<1>5. QED BY <1>1, <1>2, <1>3, <1>4 DEF Next

-----------------------------------------------------------------------------
(* A step that leaves every warp with what it has summed: not begun, or as *)
(* far as it was, or just begun or leaving with nothing to do.             *)
Quiet(u) ==
  \/ pc[u] = "start" /\ pc'[u] = "start"
  \/ /\ pc[u] = "start" /\ pc'[u] # "start"
     /\ Leaves \/ (DoneV(u)' = mMax /\ DoneQ(u)' = mMax /\ DoneK(u)' = mMax)
  \/ /\ pc[u] # "start" /\ pc'[u] # "start" /\ (pc[u] = "done" => pc'[u] = "done")
     /\ DoneV(u)' = DoneV(u) /\ DoneQ(u)' = DoneQ(u) /\ DoneK(u)' = DoneK(u)

LEMMA OnFixedCall ==
  ASSUME call' = call
  PROVE  /\ \A t, col : RowsFrom(t, col)' = RowsFrom(t, col)
         /\ \A row : ColsSeen(row)' = ColsSeen(row)
         /\ \A row, col : Sees(row, col)' <=> Sees(row, col)
<1>1. \A row, col : Sees(row, col)' <=> Sees(row, col)
  BY DEF Sees
<1>2. n' = n
  BY DEF n
<1>3. QED BY <1>1, <1>2 DEF RowsFrom, ColsSeen

(* A warp whose sums, and the gradients it writes, do not change.          *)
SumsStill(u) ==
  /\ \A j \in Column : ColOwner(j) = u =>
       dv'[j] = dv[j] /\ dk'[j] = dk[j] /\ (pc'[u] # "done" => out'[j] = out[j])
  /\ \A row \in 0 .. call.sq - 1, t \in Nat :
       InTile(t, row) /\ RowOwner(row - t * kBlockM) = u => dq'[row] = dq[row]

LEMMA QuietSums ==
  ASSUME call \in Calls, call' = call, NEW u \in Warp, m_block[u] \in Int,
         ColumnSums(u), RowSums(u), Quiet(u), SumsStill(u)
  PROVE  ColumnSums(u)' /\ RowSums(u)'
<1>1. /\ n' = n /\ mMax \in Int
      /\ \A t, col : RowsFrom(t, col)' = RowsFrom(t, col)
      /\ \A row : ColsSeen(row)' = ColsSeen(row)
  BY OnFixedCall, Fixed, Numbers
<1>2. ASSUME NEW j \in Column, ColOwner(j) = u
      PROVE  /\ dv'[j] = IF pc'[u] = "start" THEN {} ELSE RowsFrom(DoneV(u)', n * kBlockN + j)
             /\ dk'[j] = IF pc'[u] = "start" THEN {} ELSE RowsFrom(DoneK(u)', n * kBlockN + j)
             /\ pc'[u] # "done" => out'[j] = Unwritten
  <2>0. /\ dv[j] = IF pc[u] = "start" THEN {} ELSE RowsFrom(DoneV(u), n * kBlockN + j)
        /\ dk[j] = IF pc[u] = "start" THEN {} ELSE RowsFrom(DoneK(u), n * kBlockN + j)
        /\ pc[u] # "done" => out[j] = Unwritten
        /\ dv'[j] = dv[j] /\ dk'[j] = dk[j] /\ (pc'[u] # "done" => out'[j] = out[j])
    BY <1>2 DEF ColumnSums, SumsStill
  <2>1. CASE pc[u] = "start" /\ pc'[u] = "start"
    BY <2>0, <2>1
  <2>2. CASE pc[u] = "start" /\ pc'[u] # "start"
    <3>1. CASE Leaves
      <4>1. \A t : RowsFrom(t, n * kBlockN + j) = {}
        BY <3>1, LeftUnseen DEF RowsFrom
      <4>2. QED BY <2>0, <2>2, <4>1
    <3>2. CASE DoneV(u)' = mMax /\ DoneK(u)' = mMax
      <4>1. RowsFrom(mMax, n * kBlockN + j) = {}
        BY RowsAtEnds
      <4>2. QED BY <2>0, <2>2, <3>2, <4>1
    <3>3. QED BY <2>2, <3>1, <3>2 DEF Quiet
  <2>3. CASE pc[u] # "start"
    BY <2>0, <2>3 DEF Quiet
  <2>4. QED BY <2>1, <2>2, <2>3
<1>3. ASSUME NEW row \in 0 .. call.sq - 1, NEW t \in Nat, InTile(t, row),
             RowOwner(row - t * kBlockM) = u
      PROVE  dq'[row] = IF pc'[u] = "start" \/ t < DoneQ(u)' THEN {} ELSE ColsSeen(row)
  <2>0. /\ dq[row] = IF pc[u] = "start" \/ t < DoneQ(u) THEN {} ELSE ColsSeen(row)
        /\ dq'[row] = dq[row]
    BY <1>3 DEF RowSums, SumsStill
  <2>1. CASE pc[u] = "start" /\ pc'[u] = "start"
    BY <2>0, <2>1
  <2>2. CASE pc[u] = "start" /\ pc'[u] # "start"
    <3>1. CASE Leaves
      BY <2>0, <2>2, <3>1, NothingSeen
    <3>2. CASE DoneQ(u)' = mMax
      <4>1. ~ t < mMax => ColsSeen(row) = {}
        BY <1>3, NothingSeen
      <4>2. QED BY <2>0, <2>2, <3>2, <4>1
    <3>3. QED BY <2>2, <3>1, <3>2 DEF Quiet
  <2>3. CASE pc[u] # "start"
    BY <2>0, <2>3 DEF Quiet
  <2>4. QED BY <2>1, <2>2, <2>3
<1>4. ColumnSums(u)'
  BY <1>1, <1>2 DEF ColumnSums
<1>5. RowSums(u)'
  BY <1>1, <1>3 DEF RowSums, InTile
<1>6. QED BY <1>4, <1>5

(* The steps that add nothing to a sum.                                    *)
LEMMA QuietSteps ==
  ASSUME ColumnInv, [Next]_vars, UNCHANGED sums
  PROVE  \/ call' = call /\ \A u \in Warp : Quiet(u)
         \/ \E w \in Warp : GradV(w) \/ GradQ(w) \/ GradK(w)
<1>0. /\ Domains /\ pc \in [Warp -> InLoop \cup Ending \cup Outside]
      /\ m_block \in [Warp -> Int] /\ call \in Calls
      /\ \A u \in Warp : m_block[u] \in Int /\ (m_block[u] - 1) + 1 = m_block[u]
  BY DEF ColumnInv, Domains
<1>1. \A u \in Warp : pc'[u] = pc[u] /\ m_block'[u] = m_block[u] => Quiet(u)
  BY DEF Quiet, DoneV, DoneQ, DoneK
<1>2. CASE UNCHANGED vars
  BY <1>1, <1>2 DEF vars, loop
<1>3. CASE Release
  <2>1. /\ pc' = [u \in Warp |-> After[pc[u]]] /\ \A u \in Warp : pc[u] \in DOMAIN After
        /\ UNCHANGED <<call, m_block>>
    BY <1>3 DEF Release, loop
  <2>2. ASSUME NEW u \in Warp PROVE Quiet(u)
    <3>1. pc'[u] = After[pc[u]] /\ pc[u] \in DOMAIN After /\ m_block'[u] = m_block[u]
      BY <2>1
    <3>2. <<pc[u], pc'[u]>> \in
            {<<"syncV", "loadV">>, <<"syncA", "score">>, <<"syncB", "dv">>, <<"syncC", "fetchdO">>,
             <<"syncD", "fetchQ">>, <<"syncE", "stage">>, <<"syncF", "store">>}
      BY <3>1, Barriers
    <3>3. QED BY <3>1, <3>2 DEF Quiet, DoneV, DoneQ, DoneK, Again
  <2>3. QED BY <2>1, <2>2
<1>4. ASSUME NEW w \in Warp, NEW x \in copying[w], Land(w, x)
      PROVE  call' = call /\ \A u \in Warp : Quiet(u)
  BY <1>1, <1>4 DEF Land, loop
<1>5. ASSUME NEW w \in Warp, Execute(w), ~ (GradV(w) \/ GradQ(w) \/ GradK(w))
      PROVE  call' = call /\ \A u \in Warp : Quiet(u)
  <2>1. CASE NoKeys(w) \/ Exit(w)
    <3>1. /\ pc[w] = "start" /\ Leaves /\ pc' = [pc EXCEPT ![w] = "done"]
          /\ UNCHANGED <<call, m_block>>
      BY <2>1 DEF NoKeys, Exit, Leaves, loop
    <3>2. Quiet(w) /\ \A u \in Warp \ {w} : Quiet(u)
      BY <1>0, <1>1, <3>1 DEF Quiet
    <3>3. QED BY <3>1, <3>2
  <2>2. CASE Prologue(w)
    <3>1. /\ pc[w] = "start" /\ pc' = [pc EXCEPT ![w] = IF call.v_in_regs THEN "waitV" ELSE "top"]
          /\ m_block' = [m_block EXCEPT ![w] = mMax - 1] /\ call' = call
      BY <2>2 DEF Prologue
    <3>2. /\ pc'[w] \in {"waitV", "top"} /\ m_block'[w] + 1 = mMax
          /\ \A u \in Warp \ {w} : Quiet(u)
      <4>1. mMax \in Int
        BY <1>0, Numbers
      <4>2. QED BY <1>0, <1>1, <3>1, <4>1
    <3>3. Quiet(w)
      BY <3>1, <3>2 DEF Quiet, DoneV, DoneQ, DoneK, Again
    <3>4. QED BY <3>1, <3>2, <3>3
  <2>3. CASE Arrive(w)
    <3>1. /\ pc[w] \in DOMAIN Sync /\ pc' = [pc EXCEPT ![w] = Sync[pc[w]]]
          /\ UNCHANGED <<call, m_block>>
      BY <2>3 DEF Arrive, loop
    <3>2. pc'[w] = Sync[pc[w]] /\ m_block'[w] = m_block[w] /\ \A u \in Warp \ {w} : Quiet(u)
      BY <1>0, <1>1, <3>1
    <3>3. <<pc[w], pc'[w]>> \in
            {<<"waitV", "syncV">>, <<"top", "syncA">>, <<"stored", "syncB">>, <<"summed", "syncC">>,
             <<"again", "syncD">>, <<"epilogue", "syncE">>, <<"staged", "syncF">>}
      BY <3>1, <3>2, Barriers
    <3>4. Quiet(w)
      BY <3>2, <3>3 DEF Quiet, DoneV, DoneQ, DoneK, Again
    <3>5. QED BY <3>1, <3>2, <3>4
  <2>4. CASE LoadV(w) \/ Score(w) \/ GradScore(w) \/ PrefetchQ(w) \/ StoreDS(w) \/ FetchDO(w)
             \/ Stage(w) \/ Store(w)
    <3>1. /\ UNCHANGED <<call, m_block>>
          /\ \E p \in {"top", "dp", "prefetchQ", "storedS", "stored", "dq", "staged", "done"} :
               /\ pc' = [pc EXCEPT ![w] = p]
               /\ <<pc[w], p>> \in
                    {<<"loadV", "top">>, <<"score", "dp">>, <<"dp", "prefetchQ">>,
                     <<"dp", "storedS">>, <<"prefetchQ", "storedS">>, <<"storedS", "stored">>,
                     <<"fetchdO", "dq">>, <<"stage", "staged">>, <<"store", "done">>}
      <4>1. CASE LoadV(w)
        BY <4>1 DEF LoadV, loop
      <4>2. CASE Score(w)
        BY <4>2 DEF Score, loop
      <4>3. CASE GradScore(w)
        BY <4>3 DEF GradScore, loop
      <4>4. CASE PrefetchQ(w)
        BY <4>4 DEF PrefetchQ, loop
      <4>5. CASE StoreDS(w)
        BY <4>5 DEF StoreDS, loop
      <4>6. CASE FetchDO(w)
        BY <4>6 DEF FetchDO, loop
      <4>7. CASE Stage(w)
        BY <4>7 DEF Stage, loop
      <4>8. CASE Store(w)
        BY <4>8 DEF Store, loop
      <4>9. QED BY <2>4, <4>1, <4>2, <4>3, <4>4, <4>5, <4>6, <4>7, <4>8
    <3>2. /\ m_block'[w] = m_block[w] /\ \A u \in Warp \ {w} : Quiet(u)
          /\ <<pc[w], pc'[w]>> \in
                    {<<"loadV", "top">>, <<"score", "dp">>, <<"dp", "prefetchQ">>,
                     <<"dp", "storedS">>, <<"prefetchQ", "storedS">>, <<"storedS", "stored">>,
                     <<"fetchdO", "dq">>, <<"stage", "staged">>, <<"store", "done">>}
      BY <1>0, <1>1, <3>1
    <3>3. Quiet(w)
      BY <3>2 DEF Quiet, DoneV, DoneQ, DoneK, Again
    <3>4. QED BY <3>1, <3>2, <3>3
  <2>5. CASE FetchQ(w)
    <3>1. /\ pc[w] = "fetchQ" /\ pc' = [pc EXCEPT ![w] = "top"] /\ call' = call
          /\ m_block' = [m_block EXCEPT ![w] = @ - 1]
      BY <2>5 DEF FetchQ
    <3>2. /\ pc'[w] = "top" /\ m_block'[w] + 1 = m_block[w]
          /\ \A u \in Warp \ {w} : Quiet(u)
      BY <1>0, <1>1, <3>1
    <3>3. Quiet(w)
      BY <3>1, <3>2 DEF Quiet, DoneV, DoneQ, DoneK, Again
    <3>4. QED BY <3>1, <3>2, <3>3
  <2>6. QED BY <1>5, <2>1, <2>2, <2>3, <2>4, <2>5 DEF Execute
<1>6. QED BY <1>2, <1>3, <1>4, <1>5 DEF Next

LEMMA OneTile ==
  ASSUME NEW row \in Nat, NEW t \in Nat, NEW m \in Nat, InTile(t, row)
  PROVE  /\ row - t * kBlockM \in Row
         /\ row - m * kBlockM \in Row => t = m
<1>1. /\ kBlockM \in Nat \ {0} /\ t * kBlockM \in Int /\ m * kBlockM \in Int
      /\ (t + 1) * kBlockM = t * kBlockM + kBlockM
      /\ t * kBlockM <= row /\ row < t * kBlockM + kBlockM
  BY FlashMaskAssumption DEF InTile
<1>2. row - t * kBlockM \in Row
  BY <1>1 DEF Row
<1>3. ASSUME row - m * kBlockM \in Row PROVE t = m
  <2>1. m * kBlockM <= row /\ row < m * kBlockM + kBlockM
    BY <1>1, <1>3 DEF Row
  <2>2. t <= m
    <3>1. t * kBlockM < m * kBlockM + kBlockM
      BY <1>1, <2>1
    <3>2. QED BY <1>1, <3>1, LeastMultiple
  <2>3. m <= t
    <3>1. m * kBlockM < t * kBlockM + kBlockM
      BY <1>1, <2>1
    <3>2. QED BY <1>1, <3>1, LeastMultiple
  <2>4. QED BY <2>2, <2>3
<1>4. QED BY <1>2, <1>3

(* What holds where a product is about to be added.                        *)
LEMMA AtProduct ==
  ASSUME ColumnInv, Places, NEW w \in Warp, pc[w] \in {"dv", "dq", "dk"}
  PROVE  /\ call \in Calls /\ ~ PastKeys /\ m_block[w] \in Nat
<1>1. call \in Calls /\ mMin \in Int /\ mMin >= 0 /\ m_block[w] \in Int
  BY Numbers DEF ColumnInv, Domains
<1>2. Place(w)
  BY DEF Places
<1>3. mMin <= m_block[w] /\ ~ Leaves
  BY <1>2 DEF Place, InLoop, Late
<1>4. QED BY <1>1, <1>3 DEF Leaves

(* dv of the tile.                                                         *)
LEMMA GradVSums ==
  ASSUME ColumnInv, Places, Sums, NEW w \in Warp, GradV(w)
  PROVE  Sums'
<1> DEFINE m == m_block[w]
<1>1. /\ pc[w] = "dv" /\ pc' = [pc EXCEPT ![w] = "summed"]
      /\ UNCHANGED <<call, m_block, dk, dq, out>>
      /\ dv' = [j \in Column |-> IF ColOwner(j) = w THEN Plus(dv[j], RowsOf(m, j), TRUE)
                                 ELSE dv[j]]
  <2>1. pc[w] = "dv" => PIn(m) /\ dOIn(m)
    BY Ready DEF OperandsReady
  <2>2. QED BY <2>1 DEF GradV, loop
<1>2. call \in Calls /\ ~ PastKeys /\ m \in Nat /\ pc \in [Warp -> InLoop \cup Ending \cup Outside]
      /\ \A u \in Warp : m_block[u] \in Int
  BY <1>1, AtProduct DEF ColumnInv, Domains
<1>3. pc'[w] = "summed" /\ \A u \in Warp \ {w} : pc'[u] = pc[u]
  BY <1>1, <1>2
<1>4. DoneV(w) = m + 1 /\ DoneV(w)' = m /\ DoneK(w)' = DoneK(w) /\ DoneQ(w)' = DoneQ(w)
  BY <1>1, <1>3 DEF DoneV, DoneK, DoneQ, Again
<1>5. ASSUME NEW j \in Column, ColOwner(j) = w
      PROVE  dv'[j] = RowsFrom(m, n * kBlockN + j)
  <2>1. dv[j] = RowsFrom(m + 1, n * kBlockN + j)
    <3>1. ColumnSums(w)
      BY DEF Sums
    <3>2. dv[j] = RowsFrom(DoneV(w), n * kBlockN + j)
      BY <1>1, <1>5, <3>1 DEF ColumnSums
    <3>3. QED BY <1>4, <3>2
  <2>2. dv'[j] = Plus(dv[j], RowsOf(m, j), TRUE)
    BY <1>1, <1>5
  <2>3. QED BY <1>2, <2>1, <2>2, PlusRows
<1>6. /\ n' = n /\ \A t, col : RowsFrom(t, col)' = RowsFrom(t, col)
      /\ \A row : ColsSeen(row)' = ColsSeen(row)
  BY <1>1, Fixed, OnFixedCall
<1>7. ASSUME NEW u \in Warp PROVE ColumnSums(u)' /\ RowSums(u)'
  <2>0. ColumnSums(u) /\ RowSums(u)
    BY DEF Sums
  <2>1. CASE u = w
    <3>1. ColumnSums(w)'
      BY <1>1, <1>3, <1>4, <1>5, <1>6, <2>0, <2>1 DEF ColumnSums
    <3>2. RowSums(w)'
      BY <1>1, <1>3, <1>4, <1>6, <2>0, <2>1 DEF RowSums, InTile
    <3>3. QED BY <2>1, <3>1, <3>2
  <2>2. CASE u # w
    <3>1. Quiet(u)
      BY <1>1, <1>3, <2>2 DEF Quiet, DoneV, DoneK, DoneQ
    <3>2. SumsStill(u)
      BY <1>1, <2>2 DEF SumsStill
    <3>3. QED BY <1>1, <1>2, <2>0, <3>1, <3>2, QuietSums
  <2>3. QED BY <2>1, <2>2
<1>8. SumTypes'
  <2>1. SumTypes
    BY DEF Sums
  <2>2. dv' \in [Column -> SUBSET (0 .. call.sq - 1)]
    <3>1. \A j \in Column : ColOwner(j) = w => dv'[j] \subseteq 0 .. call.sq - 1
      BY <1>2, <1>5, SumsTyped
    <3>2. QED BY <1>1, <2>1, <3>1 DEF SumTypes
  <2>3. QED BY <1>1, <2>1, <2>2 DEF SumTypes
<1>9. QED BY <1>7, <1>8 DEF Sums

(* dk of the tile.                                                         *)
LEMMA GradKSums ==
  ASSUME ColumnInv, Places, Sums, NEW w \in Warp, GradK(w)
  PROVE  Sums'
<1> DEFINE m == m_block[w]
           next == IF ~ (m > mMin) THEN "epilogue" ELSE IF call.double THEN "top" ELSE "again"
<1>1. /\ pc[w] = "dk" /\ pc' = [pc EXCEPT ![w] = next]
      /\ m_block' = [m_block EXCEPT ![w] = IF next = "again" THEN @ ELSE @ - 1]
      /\ UNCHANGED <<call, dv, dq, out>>
      /\ dk' = [j \in Column |-> IF ColOwner(j) = w THEN Plus(dk[j], RowsOf(m, j), TRUE)
                                 ELSE dk[j]]
  <2>1. pc[w] = "dk" => dSIn(m) /\ QIn(half[w].tdK, m)
    BY Ready DEF OperandsReady
  <2>2. QED BY <2>1 DEF GradK, PcAfterDK, NextTile, Continue
<1>2. call \in Calls /\ ~ PastKeys /\ m \in Nat /\ pc \in [Warp -> InLoop \cup Ending \cup Outside]
      /\ m_block \in [Warp -> Int] /\ \A u \in Warp : m_block[u] \in Int
  BY <1>1, AtProduct DEF ColumnInv, Domains
<1>3. /\ pc'[w] = next /\ m_block'[w] = IF next = "again" THEN m ELSE m - 1
      /\ \A u \in Warp \ {w} : pc'[u] = pc[u] /\ m_block'[u] = m_block[u]
  BY <1>1, <1>2
<1>4. DoneK(w) = m + 1 /\ DoneK(w)' = m /\ DoneV(w)' = DoneV(w) /\ DoneQ(w)' = DoneQ(w)
  <2>1. m - 1 + 1 = m
    BY <1>2
  <2>2. QED BY <1>1, <1>3, <2>1 DEF DoneV, DoneK, DoneQ, Again
<1>5. ASSUME NEW j \in Column, ColOwner(j) = w
      PROVE  dk'[j] = RowsFrom(m, n * kBlockN + j)
  <2>1. dk[j] = RowsFrom(m + 1, n * kBlockN + j)
    <3>1. ColumnSums(w)
      BY DEF Sums
    <3>2. dk[j] = RowsFrom(DoneK(w), n * kBlockN + j)
      BY <1>1, <1>5, <3>1 DEF ColumnSums
    <3>3. QED BY <1>4, <3>2
  <2>2. dk'[j] = Plus(dk[j], RowsOf(m, j), TRUE)
    BY <1>1, <1>5
  <2>3. QED BY <1>2, <2>1, <2>2, PlusRows
<1>6. /\ n' = n /\ \A t, col : RowsFrom(t, col)' = RowsFrom(t, col)
      /\ \A row : ColsSeen(row)' = ColsSeen(row)
  BY <1>1, Fixed, OnFixedCall
<1>7. ASSUME NEW u \in Warp PROVE ColumnSums(u)' /\ RowSums(u)'
  <2>0. ColumnSums(u) /\ RowSums(u)
    BY DEF Sums
  <2>1. CASE u = w
    <3>0. pc'[w] # "start" /\ pc[w] # "start" /\ pc[w] # "done"
      BY <1>1, <1>3
    <3>1. ColumnSums(w)'
      BY <1>1, <1>4, <1>5, <1>6, <2>0, <2>1, <3>0 DEF ColumnSums
    <3>2. RowSums(w)'
      BY <1>1, <1>4, <1>6, <2>0, <2>1, <3>0 DEF RowSums, InTile
    <3>3. QED BY <2>1, <3>1, <3>2
  <2>2. CASE u # w
    <3>1. Quiet(u)
      BY <1>3, <2>2 DEF Quiet, DoneV, DoneK, DoneQ
    <3>2. SumsStill(u)
      BY <1>1, <2>2 DEF SumsStill
    <3>3. QED BY <1>1, <1>2, <2>0, <3>1, <3>2, QuietSums
  <2>3. QED BY <2>1, <2>2
<1>8. SumTypes'
  <2>1. SumTypes
    BY DEF Sums
  <2>2. dk' \in [Column -> SUBSET (0 .. call.sq - 1)]
    <3>1. \A j \in Column : ColOwner(j) = w => dk'[j] \subseteq 0 .. call.sq - 1
      BY <1>2, <1>5, SumsTyped
    <3>2. QED BY <1>1, <2>1, <3>1 DEF SumTypes
  <2>3. QED BY <1>1, <2>1, <2>2 DEF SumTypes
<1>9. QED BY <1>7, <1>8 DEF Sums

(* dq of the rows of the tile that are the warp's.                         *)
LEMMA GradQAdds ==
  ASSUME ColumnInv, Places, Sums, NEW w \in Warp, GradQ(w),
         NEW row \in 0 .. call.sq - 1, NEW t \in Nat, InTile(t, row)
  PROVE  IF t = m_block[w] /\ RowOwner(row - t * kBlockM) = w
         THEN dq[row] = {} /\ dq'[row] = ColsSeen(row) ELSE dq'[row] = dq[row]
<1> DEFINE m == m_block[w]
<1>1. /\ pc[w] = "dq"
      /\ dq' = [r \in DOMAIN dq |->
                  IF r - m * kBlockM \in Row /\ RowOwner(r - m * kBlockM) = w
                  THEN Plus(dq[r], ColsOf(m, r - m * kBlockM), TRUE) ELSE dq[r]]
  <2>1. pc[w] = "dq" => dSIn(m) /\ KIn
    BY Ready DEF OperandsReady
  <2>2. QED BY <2>1 DEF GradQ
<1>2. call \in Calls /\ ~ PastKeys /\ m \in Nat /\ call.sq \in Nat
  BY <1>1, AtProduct, Numbers DEF ColumnInv, Domains
<1>3. DOMAIN dq = 0 .. call.sq - 1 /\ RowSums(w)
  BY DEF Sums, SumTypes
<1>4. row \in Nat /\ row - t * kBlockM \in Row /\ (row - m * kBlockM \in Row => t = m)
  <2>1. row \in Nat
    BY <1>2
  <2>2. QED BY <1>2, <2>1, OneTile
<1>5. CASE t = m /\ RowOwner(row - t * kBlockM) = w
  <2>1. dq[row] = {}
    <3>1. DoneQ(w) = m + 1
      BY <1>1 DEF DoneQ, Again
    <3>2. t < DoneQ(w)
      BY <1>2, <1>5, <3>1
    <3>3. QED BY <1>3, <1>5, <3>2 DEF RowSums
  <2>2. dq'[row] = Plus({}, ColsOf(m, row - m * kBlockM), TRUE)
    BY <1>1, <1>3, <1>4, <1>5, <2>1
  <2>3. QED BY <1>2, <1>4, <1>5, <2>1, <2>2, PlusColumns
<1>6. CASE ~ (t = m /\ RowOwner(row - t * kBlockM) = w)
  BY <1>1, <1>3, <1>4, <1>6
<1>7. QED BY <1>5, <1>6

LEMMA GradQSums ==
  ASSUME ColumnInv, Places, Sums, NEW w \in Warp, GradQ(w)
  PROVE  Sums'
<1> DEFINE m == m_block[w]
<1>1. /\ pc[w] = "dq" /\ pc' = [pc EXCEPT ![w] = "dk"]
      /\ UNCHANGED <<call, m_block, dk, dv, out>>
      /\ DOMAIN dq' = DOMAIN dq /\ dq' = [row \in DOMAIN dq |-> dq'[row]]
  BY DEF GradQ
<1>2. call \in Calls /\ ~ PastKeys /\ m \in Nat /\ pc \in [Warp -> InLoop \cup Ending \cup Outside]
      /\ (\A u \in Warp : m_block[u] \in Int) /\ call.sq \in Nat
  BY <1>1, AtProduct, Numbers DEF ColumnInv, Domains
<1>3. pc'[w] = "dk" /\ \A u \in Warp \ {w} : pc'[u] = pc[u]
  BY <1>1, <1>2
<1>4. DoneQ(w) = m + 1 /\ DoneQ(w)' = m /\ DoneK(w)' = DoneK(w) /\ DoneV(w)' = DoneV(w)
  BY <1>1, <1>3 DEF DoneV, DoneK, DoneQ, Again
<1>5. SumTypes /\ DOMAIN dq = 0 .. call.sq - 1 /\ \A u \in Warp : ColumnSums(u) /\ RowSums(u)
  BY DEF Sums, SumTypes
<1>6. /\ n' = n /\ \A t, col : RowsFrom(t, col)' = RowsFrom(t, col)
      /\ \A row : ColsSeen(row)' = ColsSeen(row)
  BY <1>1, Fixed, OnFixedCall
<1>7. ASSUME NEW row \in 0 .. call.sq - 1, NEW t \in Nat, InTile(t, row)
      PROVE  dq'[row] = IF t = m /\ RowOwner(row - t * kBlockM) = w THEN ColsSeen(row) ELSE dq[row]
  BY <1>7, GradQAdds
<1>8. ASSUME NEW u \in Warp PROVE ColumnSums(u)' /\ RowSums(u)'
  <2>1. CASE u = w
    <3>1. ColumnSums(w)'
      BY <1>1, <1>3, <1>4, <1>5, <1>6, <2>1 DEF ColumnSums
    <3>2. ASSUME NEW row \in 0 .. call.sq - 1, NEW t \in Nat, InTile(t, row),
                 RowOwner(row - t * kBlockM) = w
          PROVE  dq'[row] = IF t < m THEN {} ELSE ColsSeen(row)
      <4>1. dq[row] = IF t < m + 1 THEN {} ELSE ColsSeen(row)
        <5>1. RowSums(w)
          BY <1>5
        <5>2. QED BY <1>1, <1>4, <3>2, <5>1 DEF RowSums
      <4>2. dq'[row] = IF t = m THEN ColsSeen(row) ELSE dq[row]
        BY <1>7, <3>2
      <4>3. t < m + 1 <=> t < m \/ t = m
        BY <1>2
      <4>4. ~ (t = m /\ t < m)
        BY <1>2
      <4>5. QED BY <4>1, <4>2, <4>3, <4>4
    <3>3. RowSums(w)'
      BY <1>1, <1>3, <1>4, <1>6, <3>2 DEF RowSums, InTile
    <3>4. QED BY <2>1, <3>1, <3>3
  <2>2. CASE u # w
    <3>1. Quiet(u)
      BY <1>1, <1>3, <2>2 DEF Quiet, DoneV, DoneK, DoneQ
    <3>2. SumsStill(u)
      BY <1>1, <1>7, <2>2 DEF SumsStill
    <3>3. QED BY <1>1, <1>2, <1>5, <3>1, <3>2, QuietSums
  <2>3. QED BY <2>1, <2>2
<1>9. SumTypes'
  <2>1. ASSUME NEW row \in 0 .. call.sq - 1 PROVE dq'[row] \subseteq 0 .. call.sk - 1
    <3>1. row \in Nat
      BY <1>2
    <3>2. PICK t \in Nat : InTile(t, row)
      BY <3>1, TileOf
    <3>3. dq[row] \subseteq 0 .. call.sk - 1
      BY <1>5 DEF SumTypes
    <3>4. ColsSeen(row) \subseteq 0 .. call.sk - 1
      BY <1>2, SumsTyped
    <3>5. QED BY <1>7, <3>2, <3>3, <3>4
  <2>2. dq' \in [0 .. call.sq - 1 -> SUBSET (0 .. call.sk - 1)]
    BY <1>1, <1>5, <2>1
  <2>3. QED BY <1>1, <1>5, <2>2 DEF SumTypes
<1>10. QED BY <1>8, <1>9 DEF Sums

LEMMA SumsKept ==
  ASSUME ColumnInv, Places, Sums, [Next]_vars
  PROVE  Sums'
<1>1. CASE \E w \in Warp : GradV(w) \/ GradQ(w) \/ GradK(w)
  BY <1>1, GradVSums, GradQSums, GradKSums
<1>2. CASE ~ \E w \in Warp : GradV(w) \/ GradQ(w) \/ GradK(w)
  <2>1. /\ UNCHANGED sums
        /\ \/ UNCHANGED out
           \/ \E w \in Warp : /\ pc'[w] = "done"
                              /\ DOMAIN out' = Column
                              /\ \A j \in Column : ~ Mine(w, j) => out'[j] = out[j]
    <3>1. CASE UNCHANGED vars \/ Release
      BY <3>1 DEF vars, Release, sums
    <3>2. ASSUME NEW w \in Warp, NEW x \in copying[w], Land(w, x) PROVE UNCHANGED <<sums, out>>
      BY <3>2 DEF Land
    <3>3. ASSUME NEW w \in Warp, Execute(w), ~ (Exit(w) \/ Store(w))
          PROVE  UNCHANGED <<sums, out>>
      BY <3>3, <1>2 DEF Execute, NoKeys, Prologue, Arrive, LoadV, Score, GradScore, PrefetchQ,
                    StoreDS, FetchDO, FetchQ, Stage
    <3>4. ASSUME NEW w \in Warp, Exit(w) \/ Store(w)
          PROVE  /\ UNCHANGED sums /\ pc'[w] = "done" /\ DOMAIN out' = Column
                 /\ \A j \in Column : ~ Mine(w, j) => out'[j] = out[j]
      <4>1. pc \in [Warp -> InLoop \cup Ending \cup Outside]
        BY DEF ColumnInv, Domains
      <4>2. CASE Exit(w)
        BY <4>1, <4>2 DEF Exit
      <4>3. CASE Store(w)
        BY <4>1, <4>3 DEF Store
      <4>4. QED BY <3>4, <4>2, <4>3
    <3>5. QED BY <3>1, <3>2, <3>3, <3>4 DEF Next
  <2>2. /\ call' = call /\ (\A u \in Warp : Quiet(u)) /\ call \in Calls
        /\ \A u \in Warp : m_block[u] \in Int
    BY <1>2, <2>1, QuietSteps DEF ColumnInv, Domains
  <2>3. \A u \in Warp : SumsStill(u)
    BY <2>1 DEF SumsStill, sums, Mine
  <2>4. \A u \in Warp : ColumnSums(u)' /\ RowSums(u)'
    BY <2>2, <2>3, QuietSums DEF Sums
  <2>5. SumTypes'
    BY <2>1, <2>2 DEF Sums, SumTypes, sums
  <2>6. QED BY <2>4, <2>5 DEF Sums
<1>3. QED BY <1>1, <1>2

(* The types of the variables; what is summed and held is in GradientInv.  *)
LEMMA InitGradients == Init => Places /\ Kinds /\ Sums
<1> SUFFICES ASSUME Init PROVE Places /\ Kinds /\ Sums
  OBVIOUS
<1>1. Places
  BY DEF Init, Places, Place, InLoop, Early, Middle, Late, Again, Ending, Behind
<1>2. Kinds
  BY DEF Init, Kinds, Slice, Torn, Mode
<1>3. Sums
  <2>1. SumTypes
    BY DEF Init, SumTypes
  <2>2. \A w \in Warp : ColumnSums(w) /\ RowSums(w)
    BY DEF Init, ColumnSums, RowSums
  <2>3. QED BY <2>1, <2>2 DEF Sums
<1>4. QED BY <1>1, <1>2, <1>3

(* What every warp has summed at every program counter: exactly the rows   *)
(* and columns that see one another in the tiles it has left behind.       *)
THEOREM GradientInvariant ==
  ASSUME SomeQueries
  PROVE  Spec => []GradientInv
<1>1. Init => GradientInv
  BY InitColumn, InitGradients DEF GradientInv
<1>2. GradientInv /\ [Next]_vars => GradientInv'
  BY NextColumn, PlacesKept, KindsKept, SumsKept DEF GradientInv
<1>3. QED BY <1>1, <1>2, PTL DEF Spec

(* No operand and no gradient holds memory never written, and every        *)
(* variable keeps its type.                                                *)
THEOREM TypeCorrect ==
  ASSUME SomeQueries
  PROVE  Spec => []TypeOK
<1>1. GradientInv => TypeOK
  <2> SUFFICES ASSUME GradientInv PROVE TypeOK
    OBVIOUS
  <2>1. Domains /\ Kinds /\ SumTypes
    BY DEF GradientInv, ColumnInv, Sums
  <2>2. InLoop \cup Ending \cup Outside
          \subseteq {"start", "prefetchQ", "storedS", "dp", "dq", "dk", "done"}
                      \cup DOMAIN Sync \cup DOMAIN After \cup {After[p] : p \in DOMAIN After}
    <3>1. {"loadV", "score", "dv", "fetchdO", "fetchQ", "stage", "store"}
            \subseteq {After[p] : p \in DOMAIN After}
      BY Barriers
    <3> HIDE DEF After
    <3>2. QED BY <3>1, Barriers DEF InLoop, Early, Middle, Late, Again, Ending, Outside
  <2>3. pc \in [Warp -> {"start", "prefetchQ", "storedS", "dp", "dq", "dk", "done"}
                     \cup DOMAIN Sync \cup DOMAIN After \cup {After[p] : p \in DOMAIN After}]
    BY <2>1, <2>2 DEF Domains
  <2>4. QED BY <2>1, <2>3 DEF TypeOK, Domains, Kinds, SumTypes
<1>2. QED BY <1>1, GradientInvariant, PTL

-----------------------------------------------------------------------------
(* The refinement.                                                         *)
LEMMA Promised ==
  ASSUME call \in Calls, WindowsKept
  PROVE  /\ \A row \in 0 .. call.sq - 1 : GC!Share(call, row) = ColsSeen(row)
         /\ \A j \in Column : n * kBlockN + j < call.sk =>
              GC!Wanted(call, j)
                = {row \in 0 .. call.sq - 1 : Sees(row, n * kBlockN + j)}
<1>1. \A row, col : GC!Attends(call, row, col) <=> Attends(call, row, col)
  BY DEF GC!Attends, Attends
<1>2. /\ call.sk \in Nat /\ kBlockN \in Nat \ {0}
      /\ \A j \in Column : n * kBlockN + j \in Nat
      /\ \A j : GC!ColOf(call, j) = n * kBlockN + j
  BY Window DEF Column, GC!ColOf, n
<1>3. ASSUME NEW row \in 0 .. call.sq - 1, NEW j \in Column, n * kBlockN + j < call.sk
      PROVE  GC!Attends(call, row, n * kBlockN + j) <=> Sees(row, n * kBlockN + j)
  <2>1. n * kBlockN + j \in 0 .. call.sk - 1
    BY <1>2, <1>3
  <2>2. QED BY <1>1, <2>1, SeesAttends
<1>4. ASSUME NEW row \in 0 .. call.sq - 1, NEW j \in Column, Sees(row, n * kBlockN + j)
      PROVE  n * kBlockN + j < call.sk
  <2>1. row \in Int /\ n * kBlockN + j \in Int
    BY <1>2, Window
  <2>2. QED BY <1>4, <2>1, SeesMeans
<1>5. ASSUME NEW row \in 0 .. call.sq - 1
      PROVE  GC!Share(call, row) = ColsSeen(row)
  <2>1. GC!Share(call, row)
          = {n * kBlockN + j : j \in {i \in Column : /\ n * kBlockN + i < call.sk
                                                     /\ GC!Attends(call, row, n * kBlockN + i)}}
    BY <1>2 DEF GC!Share, GC!Keys, Column
  <2>2. \A i \in Column : n * kBlockN + i < call.sk /\ GC!Attends(call, row, n * kBlockN + i)
                            <=> Sees(row, n * kBlockN + i)
    BY <1>3, <1>4
  <2>3. QED BY <2>1, <2>2 DEF ColsSeen
<1>6. ASSUME NEW j \in Column, n * kBlockN + j < call.sk
      PROVE  GC!Wanted(call, j)
                = {row \in 0 .. call.sq - 1 : Sees(row, n * kBlockN + j)}
  BY <1>2, <1>3, <1>6 DEF GC!Wanted, GC!Rows
<1>7. QED BY <1>5, <1>6

(* A warp that stores finds all gradients staged.                          *)
LEMMA AllStaged ==
  ASSUME ColumnInv, Places, NEW w \in Warp, pc[w] = "store"
  PROVE  \A u \in Warp : sK[u] = Staged /\ sV[u] = Staged
<1> SUFFICES ASSUME NEW u \in Warp PROVE sK[u] = Staged /\ sV[u] = Staged
  OBVIOUS
<1>1. ~ Leaves /\ Place(u)
  BY DEF Places, Place
<1>2. Bound(w) = "end"
  BY DEF Bound, Ending
<1>3. Bound(u) = "end" /\ pc[u] \in InLoop \cup Ending \cup Outside
  BY <1>2 DEF ColumnInv, InStep, Domains
<1>4. pc[u] \in {"store", "done"}
  BY <1>1, <1>3 DEF Bound, AfterProducts, InLoop, Early, Middle, Late, Again, Ending, Outside
<1>5. QED BY <1>1, <1>4 DEF Place

(* A key is written once, with all rows that attend to it.                 *)
LEMMA WritesGradient ==
  ASSUME GradientInv, WindowsKept, NEW w \in Warp, Exit(w) \/ Store(w), NEW j \in Column
  PROVE  GC!Write(j) \/ out'[j] = out[j]
<1>1. /\ call \in Calls /\ ColumnInv /\ Places /\ ColumnSums(w) /\ Place(w)
      /\ mMin \in Int /\ mMin - 1 + 1 = mMin
  BY Numbers DEF GradientInv, ColumnInv, Domains, Places, Sums
<1>2. CASE ~ Mine(w, j)
  BY <1>2 DEF Exit, Store
<1>3. CASE Mine(w, j)
  <2> DEFINE all == {row \in 0 .. call.sq - 1 : Sees(row, n * kBlockN + j)}
  <2>1. n * kBlockN + j < call.sk /\ ColOwner(j) = w
    BY <1>3 DEF Mine
  <2>2. out'[j] = [dk |-> all, dv |-> all] /\ pc[w] # "done"
    <3>1. CASE Exit(w)
      <4>1. out'[j] = [dk |-> {}, dv |-> {}] /\ pc[w] = "start" /\ Leaves
        BY <1>3, <3>1 DEF Exit, Leaves
      <4>2. all = {}
        BY <1>1, <4>1, LeftUnseen
      <4>3. QED BY <4>1, <4>2
    <3>2. CASE Store(w)
      <4>1. pc[w] = "store"
        BY <3>2 DEF Store
      <4>2. \A u \in Warp : sK[u] = Staged /\ sV[u] = Staged
        BY <1>1, <4>1, AllStaged
      <4>3. out'[j] = [dk |-> dk[j], dv |-> dv[j]]
        BY <1>3, <3>2, <4>2 DEF Store
      <4>4. m_block[w] = mMin - 1
        BY <1>1, <4>1 DEF Place, Behind
      <4>5. DoneV(w) = mMin /\ DoneK(w) = mMin
        BY <1>1, <4>1, <4>4 DEF DoneV, DoneK, Again
      <4>6. dk[j] = RowsFrom(mMin, n * kBlockN + j) /\ dv[j] = RowsFrom(mMin, n * kBlockN + j)
        BY <1>1, <2>1, <4>1, <4>5 DEF ColumnSums
      <4>7. dk[j] = all /\ dv[j] = all
        BY <1>1, <4>6, RowsAtEnds
      <4>8. QED BY <4>1, <4>3, <4>7
    <3>3. QED BY <3>1, <3>2
  <2>3. out[j] = GC!Unwritten
    BY <1>1, <2>1, <2>2 DEF ColumnSums, Unwritten, GC!Unwritten
  <2>4. j \in GC!Keys(call)
    BY <2>1 DEF GC!Keys, GC!ColOf, Column, n
  <2>5. GC!Wanted(call, j) = all
    BY <1>1, <2>1, Promised
  <2>6. QED BY <2>2, <2>3, <2>4, <2>5 DEF GC!Write
<1>4. QED BY <1>2, <1>3

(* The column block implements the gradients of its keys under the mask of *)
(* the tests, for every tile size, number of warps, variant of the kernel, *)
(* call whose window the host keeps, and order of copies and warps.        *)
THEOREM ColumnImplementsGradients ==
  ASSUME SomeQueries, WindowsKept
  PROVE  Spec => ImplementsGradients
<1>1. Init => GC!Init
  BY DEF Init, GC!Init, GC!Rows, Column, Unwritten, GC!Unwritten
<1>2. GradientInv /\ GradientInv' /\ [Next]_vars
        => [GC!Next]_<<call, dq, out>>
  <2> SUFFICES ASSUME GradientInv, GradientInv', [Next]_vars PROVE GC!Next
    OBVIOUS
  <2>1. /\ call' = call /\ call \in Calls /\ ColumnInv /\ Places /\ Sums
        /\ DOMAIN dq = 0 .. call.sq - 1 /\ DOMAIN dq' = DOMAIN dq
        /\ DOMAIN out = Column /\ DOMAIN out' = Column
    BY Moves DEF GradientInv, ColumnInv, Domains, Sums, SumTypes
  <2>2. ASSUME NEW row \in DOMAIN dq, dq'[row] # dq[row] PROVE GC!Add(row)
    <3>1. PICK w \in Warp : GradQ(w)
      <4>1. \/ UNCHANGED dq
            \/ \E w \in Warp : GradQ(w)
        BY DEF Next, vars, Execute, Release, Land, sums, NoKeys, Exit, Prologue, Arrive, LoadV,
               Score, GradScore, PrefetchQ, StoreDS, GradV, FetchDO, GradK, FetchQ, Stage, Store
      <4>2. QED BY <2>2, <4>1
    <3>2. row \in 0 .. call.sq - 1 /\ row \in Nat
      BY <2>1, Window
    <3>3. PICK t \in Nat : InTile(t, row)
      BY <3>2, TileOf
    <3>4. dq[row] = {} /\ dq'[row] = ColsSeen(row)
      BY <2>1, <2>2, <3>1, <3>2, <3>3, GradQAdds
    <3>5. QED BY <2>1, <3>2, <3>4, Promised DEF GC!Add
  <2>3. ASSUME NEW j \in Column PROVE GC!Write(j) \/ out'[j] = out[j]
    <3>1. \/ UNCHANGED out
          \/ \E w \in Warp : Exit(w) \/ Store(w)
      BY DEF Next, vars, Execute, Release, Land, NoKeys, Prologue, Arrive, LoadV,
             Score, GradScore, PrefetchQ, StoreDS, GradV, GradQ, FetchDO, GradK, FetchQ, Stage
    <3>2. QED BY <3>1, WritesGradient
  <2>4. QED BY <2>1, <2>2, <2>3 DEF GC!Next
<1>3. QED BY <1>1, <1>2, GradientInvariant, PTL DEF Spec, ImplementsGradients, GC!Spec
=============================================================================
