------------------------ MODULE FlashFwdKernelProofs ------------------------
(***************************************************************************)
(* The forward kernel, for every tile size, number of warps, set of calls  *)
(* and order of copies and warps. TileInv of FlashFwdKernel is an          *)
(* inductive invariant and implies TilesReady; RangeInv keeps copies       *)
(* inside the sequence; KernelInv says what every row has summed, from     *)
(* which the kernel implements AttentionRows where the host keeps the      *)
(* window (WindowsKept) and one tile size divides the other (TilesDivide). *)
(***************************************************************************)
EXTENDS FlashFwdKernel, FlashMaskProofs

(* The numbers of a call and of one of its rows.                           *)
LEMMA CallNumbers ==
  ASSUME NEW c \in Calls
  PROVE  /\ MaskCall(c) /\ c.m_block \in Nat
         /\ c.sq \in Nat /\ c.sk \in Nat
         /\ kBlockM \in Nat \ {0} /\ kBlockN \in Nat \ {0}
         /\ NBlockMin(c, c.m_block) \in Int /\ 0 <= NBlockMin(c, c.m_block)
         /\ NBlockMax(c, c.m_block) \in Int
         /\ NMaskingSteps(c) \in Int /\ 1 <= NMaskingSteps(c)
<1>1. MaskCall(c) /\ c.m_block \in Nat
  BY FlashFwdKernelAssumption DEF MaskCall
<1>2. QED BY <1>1, MaskNumbers

LEMMA RowNumbers ==
  ASSUME NEW c \in Calls, NEW r \in Row
  PROVE  InTile(c.m_block, RowOf(c, r))
<1>1. c.m_block \in Nat /\ kBlockM \in Nat \ {0} /\ r \in Int /\ 0 <= r /\ r < kBlockM
  BY CallNumbers DEF Row
<1>2. c.m_block * kBlockM \in Int
  BY <1>1
<1>3. (c.m_block + 1) * kBlockM = c.m_block * kBlockM + kBlockM
  BY <1>1
<1>4. QED BY <1>1, <1>2, <1>3 DEF RowOf, InTile

LEMMA RowInRange ==
  ASSUME NEW c \in Calls, NEW r \in Row, NEW col \in Seen(c, RowOf(c, r))
  PROVE  /\ NBlockMin(c, c.m_block) * kBlockN <= col
         /\ col < NBlockMax(c, c.m_block) * kBlockN
BY CallNumbers, RowNumbers, SeenInRange

LEMMA Bounds ==
  ASSUME call \in Calls
  PROVE  /\ nMin \in Int /\ nMax \in Int /\ steps \in Int
         /\ call.m_block * kBlockM \in Int /\ call.sq \in Int
BY CallNumbers DEF nMin, nMax, steps

LEMMA Fixed ==
  ASSUME call' = call
  PROVE  nMin' = nMin /\ nMax' = nMax /\ steps' = steps /\ (Leaves' <=> Leaves)
BY DEF nMin, nMax, steps, Leaves

(* A warp that does not move stays bound for the same place.               *)
LEMMA SameBound ==
  ASSUME call' = call, NEW u \in Warp,
         pc'[u] = pc[u], n_block'[u] = n_block[u], step'[u] = step[u]
  PROVE  Bound(u)' = Bound(u) /\ BoundTile(u)' = BoundTile(u) /\ BoundStep(u)' = BoundStep(u)
BY Fixed DEF Bound, BoundTile, BoundStep, NextPc, NextStep, Last, Masking

(* The steps that keep a warp bound for the same place keep InStep.        *)
LEMMA InStepKept ==
  ASSUME InStep, call' = call, NEW w \in Warp,
         \A u \in Warp \ {w} : /\ pc'[u] = pc[u] /\ n_block'[u] = n_block[u]
                               /\ step'[u] = step[u],
         Bound(w)' = Bound(w), BoundTile(w)' = BoundTile(w), BoundStep(w)' = BoundStep(w)
  PROVE  InStep'
<1>1. \A u \in Warp : /\ Bound(u)' = Bound(u) /\ BoundTile(u)' = BoundTile(u)
                      /\ BoundStep(u)' = BoundStep(u)
  BY SameBound
<1>2. QED BY <1>1 DEF InStep

(* Where warps are bound for, by position.                                 *)
LEMMA Destinations ==
  ASSUME NEW u \in Warp
  PROVE  /\ NextPc(u) \in {"top", "epilogue"}
         /\ pc[u] \in {"loadK", "pv"} => Bound(u) = NextPc(u)
         /\ pc[u] \in Products => Bound(u) = "products" /\ BoundTile(u) = n_block[u]
         /\ Bound(u) = "products" => pc[u] \in Products
         /\ pc[u] \in {"top", "sync1"} => Bound(u) = "top"
         /\ pc[u] \in {"epilogue", "sync3"} => Bound(u) = "epilogue"
BY DEF Bound, BoundTile, Products, NextPc

(* A warp multiplying by V and one multiplying by K are never together.    *)
LEMMA Apart ==
  ASSUME InStep, NEW u \in Warp, NEW w \in Warp,
         pc[u] \in Products, pc[w] \in {"loadK", "pv"}
  PROVE  FALSE
BY Destinations DEF InStep

-----------------------------------------------------------------------------
LEMMA InitTileInv == Init => TileInv
<1> SUFFICES ASSUME Init PROVE TileInv
  OBVIOUS
<1>1. Typing
  BY DEF Init, Typing, Torn, Mode
<1>2. InStep
  BY DEF Init, InStep, Bound, BoundTile, BoundStep
<1>3. CopyInv /\ SliceInv
  BY DEF Init, CopyInv, SliceInv, Products
<1>4. QED BY <1>1, <1>2, <1>3 DEF TileInv

(* A block without rows or without key tiles leaves at once.               *)
LEMMA LeaveTileInv ==
  ASSUME TileInv, NEW w \in Warp, NoRows(w) \/ Exit(w)
  PROVE  TileInv'
<1>0. /\ Typing /\ InStep /\ CopyInv /\ SliceInv
      /\ call' = call /\ pc[w] = "start" /\ pc' = [pc EXCEPT ![w] = "done"]
      /\ UNCHANGED <<n_block, step, copying, sQ, sK, sV>>
      /\ Leaves
  BY DEF TileInv, NoRows, Exit, Leaves, regs
<1>1. Typing'
  BY <1>0 DEF Typing
<1>2. InStep'
  <2>1. \A u \in Warp \ {w} : pc'[u] = pc[u] /\ n_block'[u] = n_block[u] /\ step'[u] = step[u]
    BY <1>0 DEF Typing
  <2>2. /\ Bound(w)' = Bound(w) /\ BoundTile(w)' = BoundTile(w)
        /\ BoundStep(w)' = BoundStep(w)
    BY <1>0, Fixed DEF Typing, Bound, BoundTile, BoundStep
  <2>3. QED BY <1>0, <2>1, <2>2, InStepKept
<1>3. CopyInv' /\ SliceInv'
  BY <1>0, Fixed DEF Typing, CopyInv, SliceInv, Products, Lands
<1>4. QED BY <1>1, <1>2, <1>3 DEF TileInv

LEMMA PrologueTileInv ==
  ASSUME TileInv, NEW w \in Warp, Prologue(w)
  PROVE  TileInv'
<1>0. /\ Typing /\ InStep /\ CopyInv /\ SliceInv
      /\ call' = call /\ pc[w] = "start" /\ pc' = [pc EXCEPT ![w] = "top"]
      /\ n_block' = [n_block EXCEPT ![w] = nMax - 1]
      /\ UNCHANGED <<step, sQ, sK, sV>>
  BY DEF TileInv, Prologue
<1>1. /\ nMax \in Int /\ call.m_block \in Int /\ ~ Leaves
  BY <1>0, Bounds, FlashFwdKernelAssumption DEF Prologue, Leaves, Typing
<1> DEFINE k == Copy("K", nMax - 1, KVMode(TRUE, FALSE))
           q == Copy("Q", call.m_block, "bound")
<1>2. /\ copying' = [copying EXCEPT ![w] = {q, k}]
      /\ q.buf = "Q" /\ k.buf = "K" /\ k.tile = nMax - 1
      /\ {q, k} \in SUBSET [buf : {"Q", "K", "V"}, tile : Int, mode : Mode]
  BY <1>1 DEF Prologue, Copy, KVMode, Mode
<1> HIDE DEF k, q
<1>3. Typing'
  BY <1>0, <1>1, <1>2 DEF Typing
<1>4. InStep'
  <2>1. \A u \in Warp \ {w} : pc'[u] = pc[u] /\ n_block'[u] = n_block[u] /\ step'[u] = step[u]
    BY <1>0 DEF Typing
  <2>2. /\ Bound(w)' = Bound(w) /\ BoundTile(w)' = BoundTile(w)
        /\ BoundStep(w)' = BoundStep(w)
    BY <1>0, <1>1, Fixed DEF Typing, Bound, BoundTile, BoundStep, Products
  <2>3. QED BY <1>0, <2>1, <2>2, InStepKept
<1>5. CopyInv'
  BY <1>0, <1>2, Fixed DEF Typing, CopyInv
<1>6. SliceInv'
  BY <1>0, <1>2, Fixed DEF Typing, SliceInv, Products, Lands
<1>7. QED BY <1>3, <1>4, <1>5, <1>6 DEF TileInv

(* A copy that lands leaves in its slice what the warps expect there; none *)
(* lands in V while another warp multiplies by it.                         *)
LEMMA LandTileInv ==
  ASSUME TileInv, NEW w \in Warp, NEW x \in copying[w], Land(w, x)
  PROVE  TileInv'
<1>0. /\ Typing /\ InStep /\ CopyInv /\ SliceInv
      /\ call' = call /\ pc' = pc
      /\ copying' = [copying EXCEPT ![w] = @ \ {x}]
      /\ UNCHANGED <<n_block, step>>
      /\ x \in [buf : {"Q", "K", "V"}, tile : Int, mode : Mode]
  BY DEF TileInv, Typing, Land, regs
<1>1. Typing'
  BY <1>0 DEF Typing, Land
<1>2. InStep'
  BY <1>0, SameBound DEF InStep
<1>3. CopyInv'
  BY <1>0, Fixed DEF Typing, CopyInv
<1>4. SliceInv'
  <2>1. \A u \in Warp : copying'[u] \subseteq copying[u] /\ (u # w => copying'[u] = copying[u])
    BY <1>0 DEF Typing
  <2>2. CASE x.buf = "Q"
    <3>1. sQ' = [sQ EXCEPT ![w] = "Q"] /\ UNCHANGED <<sK, sV>>
      BY <2>2 DEF Land
    <3>2. QED BY <1>0, <2>1, <2>2, <3>1, Fixed DEF Typing, SliceInv, Lands
  <2>3. CASE x.buf = "K"
    <3>1. /\ UNCHANGED <<sQ, sV>> /\ sK'[w].tile = x.tile
          /\ \A u \in Warp : u # w => sK'[u] = sK[u]
      BY <1>0, <2>3 DEF Land, Typing
    <3>2. \/ pc[w] = "top" /\ x.tile = n_block[w]
          \/ pc[w] = "pv" /\ x.tile = n_block[w] - 1
      BY <1>0, <2>3 DEF CopyInv
    <3>3. QED BY <1>0, <2>1, <2>3, <3>1, <3>2, Fixed DEF Typing, SliceInv, Lands, Products
  <2>4. CASE x.buf = "V"
    <3>1. /\ UNCHANGED <<sQ, sK>> /\ sV'[w].tile = x.tile
          /\ \A u \in Warp : u # w => sV'[u] = sV[u]
      BY <1>0, <2>4 DEF Land, Typing
    <3>2. pc[w] \in {"qk", "scored"} /\ x.tile = n_block[w]
      BY <1>0, <2>4 DEF CopyInv
    <3>3. \A u \in Warp : pc[u] \notin {"loadK", "pv"}
      BY <1>0, <3>2, Apart DEF Products
    <3>4. QED BY <1>0, <2>1, <2>4, <3>1, <3>2, <3>3, Fixed DEF Typing, SliceInv, Lands, Products
  <2>5. QED BY <1>0, <2>2, <2>3, <2>4
<1>5. QED BY <1>1, <1>2, <1>3, <1>4 DEF TileInv

(* A warp arrives with none of its copies in flight.                       *)
LEMMA ArriveTileInv ==
  ASSUME TileInv, NEW w \in Warp, Arrive(w)
  PROVE  TileInv'
<1>0. /\ Typing /\ InStep /\ CopyInv /\ SliceInv
      /\ call' = call /\ copying[w] = {}
      /\ UNCHANGED <<n_block, step, copying, sQ, sK, sV>>
      /\ \/ pc[w] = "top" /\ pc' = [pc EXCEPT ![w] = "sync1"]
         \/ pc[w] = "scored" /\ pc' = [pc EXCEPT ![w] = "sync2"]
  BY DEF TileInv, Arrive, regs
<1>1. Typing'
  BY <1>0 DEF Typing
<1>2. InStep'
  <2>1. \A u \in Warp \ {w} : pc'[u] = pc[u] /\ n_block'[u] = n_block[u] /\ step'[u] = step[u]
    BY <1>0 DEF Typing
  <2>2. /\ Bound(w)' = Bound(w) /\ BoundTile(w)' = BoundTile(w)
        /\ BoundStep(w)' = BoundStep(w)
    BY <1>0, Fixed DEF Typing, Bound, BoundTile, BoundStep, Products
  <2>3. QED BY <1>0, <2>1, <2>2, InStepKept
<1>3. CopyInv'
  BY <1>0, Fixed DEF Typing, CopyInv
<1>4. SliceInv'
  BY <1>0, Fixed DEF Typing, SliceInv, Lands, Products
<1>5. QED BY <1>1, <1>2, <1>3, <1>4 DEF TileInv

(* Warps that wait at a barrier wait at the same one, for the same tile,   *)
(* and every copy has landed: the barrier makes all slices visible.        *)
LEMMA ReleaseTileInv ==
  ASSUME TileInv, Release
  PROVE  TileInv'
<1>0. /\ Typing /\ InStep /\ CopyInv /\ SliceInv
      /\ call' = call /\ \A w \in Warp : pc[w] \in Barrier
      /\ pc' = [w \in Warp |-> After(pc[w])]
      /\ UNCHANGED <<n_block, step, copying, sQ, sK, sV>>
  BY DEF TileInv, Release, regs
<1>1. \A w \in Warp : copying[w] = {}
  BY <1>0 DEF CopyInv, Barrier
<1>2. \A u, w \in Warp : /\ pc[u] = pc[w] /\ n_block[u] = n_block[w] /\ step[u] = step[w]
  BY <1>0 DEF InStep, Bound, BoundTile, BoundStep, Barrier, Products
<1>3. \A w \in Warp : /\ pc[w] = "sync1" => pc'[w] = "loadV"
                      /\ pc[w] = "sync2" => pc'[w] = "loadK"
                      /\ pc[w] = "sync3" => pc'[w] = "store"
  BY <1>0 DEF After
<1>4. Typing'
  BY <1>0, <1>3 DEF Typing, Barrier, After
<1>5. InStep'
  BY <1>0, <1>2, Fixed DEF InStep, Bound, BoundTile, BoundStep, NextPc, NextStep, Last, Masking
<1>6. CopyInv'
  BY <1>0, <1>1 DEF CopyInv
<1>7. SliceInv'
  BY <1>0, <1>1, <1>2, <1>3, Fixed DEF SliceInv, Lands, Products, Barrier
<1>8. QED BY <1>4, <1>5, <1>6, <1>7 DEF TileInv

(* V is overwritten only while every warp is bound for the products of the *)
(* same tile.                                                              *)
LEMMA LoadVTileInv ==
  ASSUME TileInv, NEW w \in Warp, LoadV(w)
  PROVE  TileInv'
<1> DEFINE v == Copy("V", n_block[w], KVMode(step[w] = 0, TRUE))
<1>0. /\ Typing /\ InStep /\ CopyInv /\ SliceInv
      /\ call' = call /\ pc[w] = "loadV" /\ pc' = [pc EXCEPT ![w] = "qk"]
      /\ sV' = [sV EXCEPT ![w] = Torn]
      /\ copying' = [copying EXCEPT ![w] = @ \cup {v}]
      /\ UNCHANGED <<n_block, step, sQ, sK>>
  BY DEF TileInv, LoadV, regs
<1>1. /\ v.buf = "V" /\ v.tile = n_block[w] /\ copying[w] = {}
      /\ v \in [buf : {"Q", "K", "V"}, tile : Int, mode : Mode]
  BY <1>0 DEF Typing, CopyInv, Copy, KVMode, Mode
<1>2. \A u \in Warp : pc[u] \notin {"loadK", "pv"}
  BY <1>0, Apart DEF Products
<1> HIDE DEF v
<1>3. Typing'
  BY <1>0, <1>1 DEF Typing, Torn, Mode
<1>4. InStep'
  <2>1. \A u \in Warp \ {w} : pc'[u] = pc[u] /\ n_block'[u] = n_block[u] /\ step'[u] = step[u]
    BY <1>0 DEF Typing
  <2>2. /\ Bound(w)' = Bound(w) /\ BoundTile(w)' = BoundTile(w)
        /\ BoundStep(w)' = BoundStep(w)
    BY <1>0, Fixed DEF Typing, Bound, BoundTile, BoundStep, Products
  <2>3. QED BY <1>0, <2>1, <2>2, InStepKept
<1>5. CopyInv'
  BY <1>0, <1>1, Fixed DEF Typing, CopyInv
<1>6. SliceInv'
  BY <1>0, <1>1, <1>2, Fixed DEF Typing, SliceInv, Lands, Products
<1>7. QED BY <1>3, <1>4, <1>5, <1>6 DEF TileInv

LEMMA ScoreQKTileInv ==
  ASSUME TileInv, NEW w \in Warp, ScoreQK(w)
  PROVE  TileInv'
<1>0. /\ Typing /\ InStep /\ CopyInv /\ SliceInv
      /\ call' = call /\ pc[w] = "qk" /\ pc' = [pc EXCEPT ![w] = "scored"]
      /\ UNCHANGED <<n_block, step, copying, sQ, sK, sV>>
  BY DEF TileInv, ScoreQK
<1>1. Typing'
  BY <1>0 DEF Typing
<1>2. InStep'
  <2>1. \A u \in Warp \ {w} : pc'[u] = pc[u] /\ n_block'[u] = n_block[u] /\ step'[u] = step[u]
    BY <1>0 DEF Typing
  <2>2. /\ Bound(w)' = Bound(w) /\ BoundTile(w)' = BoundTile(w)
        /\ BoundStep(w)' = BoundStep(w)
    BY <1>0, Fixed DEF Typing, Bound, BoundTile, BoundStep, Products
  <2>3. QED BY <1>0, <2>1, <2>2, InStepKept
<1>3. CopyInv'
  BY <1>0, Fixed DEF Typing, CopyInv
<1>4. SliceInv'
  BY <1>0, Fixed DEF Typing, SliceInv, Lands, Products
<1>5. QED BY <1>1, <1>2, <1>3, <1>4 DEF TileInv

(* K is overwritten only when no warp needs the scores of the old tile.    *)
LEMMA LoadKTileInv ==
  ASSUME TileInv, NEW w \in Warp, LoadK(w)
  PROVE  TileInv'
<1> DEFINE k == Copy("K", n_block[w] - 1, KVMode(FALSE, FALSE))
<1>0. /\ Typing /\ InStep /\ CopyInv /\ SliceInv
      /\ call' = call /\ pc[w] = "loadK" /\ pc' = [pc EXCEPT ![w] = "pv"]
      /\ \/ /\ n_block[w] > nMin /\ sK' = [sK EXCEPT ![w] = Torn]
            /\ copying' = [copying EXCEPT ![w] = @ \cup {k}]
         \/ ~ n_block[w] > nMin /\ UNCHANGED <<copying, sK>>
      /\ UNCHANGED <<n_block, step, sQ, sV>>
  BY DEF TileInv, LoadK, regs
<1>1. /\ k.buf = "K" /\ k.tile = n_block[w] - 1 /\ copying[w] = {}
      /\ k \in [buf : {"Q", "K", "V"}, tile : Int, mode : Mode]
  BY <1>0 DEF Typing, CopyInv, Copy, KVMode, Mode
<1> HIDE DEF k
<1>2. Typing'
  <2>1. /\ sK' \in [Warp -> [tile : Int, mode : Mode]]
        /\ copying' \in [Warp -> SUBSET [buf : {"Q", "K", "V"}, tile : Int, mode : Mode]]
    <3>1. CASE n_block[w] > nMin
      <4>1. Torn \in [tile : Int, mode : Mode]
        BY DEF Torn, Mode
      <4>2. QED BY <1>0, <1>1, <3>1, <4>1 DEF Typing
    <3>2. CASE ~ n_block[w] > nMin
      BY <1>0, <3>2 DEF Typing
    <3>3. QED BY <3>1, <3>2
  <2>2. QED BY <1>0, <2>1 DEF Typing
<1>3. InStep'
  <2>1. \A u \in Warp \ {w} : pc'[u] = pc[u] /\ n_block'[u] = n_block[u] /\ step'[u] = step[u]
    BY <1>0 DEF Typing
  <2>2. /\ Bound(w)' = Bound(w) /\ BoundTile(w)' = BoundTile(w)
        /\ BoundStep(w)' = BoundStep(w)
    BY <1>0, Fixed DEF Typing, Bound, BoundTile, BoundStep, Products, NextPc, NextStep,
                       Last, Masking
  <2>3. QED BY <1>0, <2>1, <2>2, InStepKept
<1>4. CopyInv'
  BY <1>0, <1>1, Fixed DEF Typing, CopyInv
<1>5. SliceInv'
  BY <1>0, <1>1, Fixed DEF Typing, SliceInv, Lands, Products
<1>6. QED BY <1>2, <1>3, <1>4, <1>5 DEF TileInv

(* A warp goes round the loop only when the copy of the next K tile was    *)
(* issued.                                                                 *)
LEMMA NextTileIssued ==
  ASSUME Typing, NEW w \in Warp
  PROVE  /\ NextPc(w) = "top" <=> n_block[w] > nMin
         /\ NextStep(w) \in Nat
BY Bounds DEF Typing, NextPc, NextStep, Last, Masking

LEMMA AccumulateTileInv ==
  ASSUME TileInv, NEW w \in Warp, Accumulate(w)
  PROVE  TileInv'
<1>0. /\ Typing /\ InStep /\ CopyInv /\ SliceInv
      /\ call' = call /\ pc[w] = "pv" /\ pc' = [pc EXCEPT ![w] = NextPc(w)]
      /\ step' = [step EXCEPT ![w] = NextStep(w)]
      /\ n_block' = [n_block EXCEPT ![w] = @ - 1]
      /\ UNCHANGED <<copying, sQ, sK, sV>>
  BY DEF TileInv, Accumulate
<1>1. /\ NextPc(w) = "top" <=> n_block[w] > nMin
      /\ NextPc(w) \in {"top", "epilogue"} /\ NextStep(w) \in Nat
  BY <1>0, NextTileIssued, Destinations
<1>2. Typing'
  BY <1>0, <1>1 DEF Typing
<1>3. InStep'
  <2>1. \A u \in Warp \ {w} : pc'[u] = pc[u] /\ n_block'[u] = n_block[u] /\ step'[u] = step[u]
    BY <1>0 DEF Typing
  <2>2. /\ Bound(w)' = Bound(w) /\ BoundTile(w)' = BoundTile(w)
        /\ BoundStep(w)' = BoundStep(w)
    BY <1>0, <1>1, Fixed DEF Typing, Bound, BoundTile, BoundStep, Products
  <2>3. QED BY <1>0, <2>1, <2>2, InStepKept
<1>4. CopyInv'
  BY <1>0, <1>1, Fixed DEF Typing, CopyInv
<1>5. SliceInv'
  BY <1>0, <1>1, Fixed DEF Typing, SliceInv, Lands, Products
<1>6. QED BY <1>2, <1>3, <1>4, <1>5 DEF TileInv

(* The output reuses the memory of Q when no warp needs Q any more.        *)
LEMMA EpilogueTileInv ==
  ASSUME TileInv, NEW w \in Warp, StageO(w) \/ Store(w)
  PROVE  TileInv'
<1>0. /\ Typing /\ InStep /\ CopyInv /\ SliceInv
      /\ call' = call
      /\ \/ /\ pc[w] = "epilogue" /\ pc' = [pc EXCEPT ![w] = "sync3"]
            /\ sQ' = [sQ EXCEPT ![w] = "O"]
         \/ pc[w] = "store" /\ pc' = [pc EXCEPT ![w] = "done"] /\ sQ' = sQ
      /\ UNCHANGED <<n_block, step, copying, sK, sV>>
  BY DEF TileInv, StageO, Store, regs
<1>1. Typing'
  BY <1>0 DEF Typing
<1>2. InStep'
  <2>1. \A u \in Warp \ {w} : pc'[u] = pc[u] /\ n_block'[u] = n_block[u] /\ step'[u] = step[u]
    BY <1>0 DEF Typing
  <2>2. /\ Bound(w)' = Bound(w) /\ BoundTile(w)' = BoundTile(w)
        /\ BoundStep(w)' = BoundStep(w)
    BY <1>0, Fixed DEF Typing, Bound, BoundTile, BoundStep, Products
  <2>3. QED BY <1>0, <2>1, <2>2, InStepKept
<1>3. CopyInv'
  BY <1>0, Fixed DEF Typing, CopyInv
<1>4. SliceInv'
  BY <1>0, Fixed DEF Typing, SliceInv, Lands, Products
<1>5. QED BY <1>1, <1>2, <1>3, <1>4 DEF TileInv

-----------------------------------------------------------------------------
(* Inductiveness: one step per action.                                     *)
LEMMA NextTileInv == TileInv /\ [Next]_vars => TileInv'
<1> SUFFICES ASSUME TileInv, [Next]_vars PROVE TileInv'
  OBVIOUS
<1>1. CASE UNCHANGED vars
  <2>1. /\ UNCHANGED <<call, pc, n_block, step, copying, sQ, sK, sV>>
        /\ Typing /\ InStep /\ CopyInv /\ SliceInv
    BY <1>1 DEF vars, TileInv
  <2>2. Typing' /\ CopyInv'
    BY <2>1, Fixed DEF Typing, CopyInv
  <2>3. InStep'
    BY <2>1, SameBound DEF InStep
  <2>4. SliceInv'
    BY <2>1, Fixed DEF SliceInv, Lands
  <2>5. QED BY <2>2, <2>3, <2>4 DEF TileInv
<1>2. ASSUME NEW w \in Warp, Execute(w) PROVE TileInv'
  BY <1>2, LeaveTileInv, PrologueTileInv, ArriveTileInv, LoadVTileInv, ScoreQKTileInv,
     LoadKTileInv, AccumulateTileInv, EpilogueTileInv DEF Execute
<1>3. ASSUME NEW w \in Warp, NEW x \in copying[w], Land(w, x) PROVE TileInv'
  BY <1>3, LandTileInv
<1>4. CASE Release
  BY <1>4, ReleaseTileInv
<1>5. QED BY <1>1, <1>2, <1>3, <1>4 DEF Next

(* In every reachable state of the kernel, warps between two barriers are  *)
(* bound for the same tile and their copies are those of that tile.        *)
THEOREM TileInvariant == Spec => []TileInv
BY InitTileInv, NextTileInv, PTL DEF Spec

(* Between two barriers every slice is that of the tile it is wanted for.  *)
LEMMA TileInvReady == TileInv => TilesReady
<1> SUFFICES ASSUME TileInv, NEW w \in Warp
             PROVE  /\ pc[w] = "qk" => \A u \in Warp : sK[u].tile = n_block[w] /\ sQ[u] = "Q"
                    /\ pc[w] = "pv" => \A u \in Warp : sV[u].tile = n_block[w]
  BY DEF TilesReady
<1>1. ASSUME pc[w] = "qk", NEW u \in Warp
      PROVE  sK[u].tile = n_block[w] /\ sQ[u] = "Q"
  <2>1. pc[u] \in Products /\ n_block[u] = n_block[w]
    BY <1>1, Destinations DEF TileInv, InStep, Products
  <2>2. ~ Lands(u, "K") /\ ~ Lands(u, "Q")
    BY <2>1 DEF TileInv, CopyInv, Lands, Products
  <2>3. QED BY <2>1, <2>2 DEF TileInv, SliceInv
<1>2. pc[w] = "pv" => \A u \in Warp : sV[u].tile = n_block[w]
  BY DEF TileInv, SliceInv
<1>3. QED BY <1>1, <1>2

(* No warp multiplies by an incomplete tile or by the wrong one, whatever  *)
(* the order in which warps run and copies land: the two barriers of an    *)
(* iteration are enough for the four uses of the two shared buffers.       *)
THEOREM TilesAreReady == Spec => []TilesReady
BY TileInvReady, TileInvariant, PTL

-----------------------------------------------------------------------------
LEMMA CallRange ==
  ASSUME Typing
  PROVE  /\ nMin \in Int /\ nMax \in Int /\ steps \in Int
         /\ 0 <= nMin /\ 1 <= steps /\ nMax <= CeilDiv(call.sk, kBlockN)
         /\ ~ EarlyExit(call, call.m_block) => nMin < nMax
BY Bounds, CallNumbers, TileRange DEF Typing, nMin, nMax, steps

-----------------------------------------------------------------------------
LEMMA NextRangeInv == TileInv /\ RangeInv /\ [Next]_vars => RangeInv'
<1> SUFFICES ASSUME TileInv, RangeInv, [Next]_vars PROVE RangeInv'
  OBVIOUS
<1>0. /\ Typing /\ CopyInv
      /\ nMin \in Int /\ nMax \in Int /\ steps \in Int /\ 0 <= nMin /\ 1 <= steps
      /\ ~ EarlyExit(call, call.m_block) => nMin < nMax
  BY CallRange DEF TileInv
<1> DEFINE StaysPut(u) == /\ pc'[u] = pc[u] /\ n_block'[u] = n_block[u] /\ step'[u] = step[u]
                          /\ copying'[u] \subseteq copying[u]
<1>1. ASSUME call' = call, NEW w \in Warp, \A u \in Warp \ {w} : StaysPut(u),
             pc'[w] \in {"top", "sync1", "loadK", "pv"} \cup Products =>
               nMin <= n_block'[w] /\ n_block'[w] < nMax,
             step'[w] > 0 => pc'[w] # "start" /\ n_block'[w] < nMax - 1,
             \A x \in copying'[w] :
               x.buf # "Q" /\ x.mode = "all" =>
                 /\ 0 <= x.tile /\ x.tile < nMax
                 /\ x.tile = nMax - 1 => IsEvenMN(call)
      PROVE  RangeInv'
  BY <1>1, Fixed DEF RangeInv
<1>2. ASSUME UNCHANGED vars PROVE RangeInv'
  BY <1>2, Fixed DEF vars, RangeInv
<1>3. ASSUME NEW w \in Warp, Execute(w) PROVE RangeInv'
  <2>0. /\ call' = call /\ \A u \in Warp \ {w} : StaysPut(u)
    BY <1>0, <1>3 DEF Typing, Execute, NoRows, Exit, Prologue, Arrive, LoadV, ScoreQK, LoadK,
                     Accumulate, StageO, Store, regs
  <2>1. CASE NoRows(w) \/ Exit(w) \/ StageO(w) \/ Store(w)
    BY <1>0, <1>1, <2>0, <2>1
       DEF Typing, RangeInv, NoRows, Exit, StageO, Store, regs, Products
  <2>2. CASE Prologue(w)
    <3>1. /\ nMin < nMax /\ pc'[w] = "top" /\ n_block'[w] = nMax - 1
          /\ step'[w] = step[w] /\ ~ step[w] > 0
      BY <1>0, <2>2 DEF Typing, Prologue, RangeInv
    <3>2. \A x \in copying'[w] :
            x.buf # "Q" /\ x.mode = "all" =>
              x.tile = nMax - 1 /\ IsEvenMN(call)
      BY <1>0, <2>2 DEF Typing, Prologue, Copy, KVMode
    <3>3. QED BY <1>0, <1>1, <2>0, <3>1, <3>2
  <2>3. CASE Arrive(w) \/ ScoreQK(w)
    BY <1>0, <1>1, <2>0, <2>3 DEF Typing, RangeInv, Arrive, ScoreQK, regs, Products
  <2>4. CASE LoadV(w)
    <3>1. /\ pc[w] = "loadV" /\ pc'[w] = "qk" /\ n_block'[w] = n_block[w]
          /\ step'[w] = step[w] /\ step[w] \in Nat
      BY <1>0, <2>4 DEF Typing, LoadV, regs
    <3>2. nMin <= n_block[w] /\ n_block[w] < nMax /\ n_block[w] \in Int
      BY <1>0, <3>1 DEF Typing, RangeInv, Products
    <3>3. \A x \in copying'[w] :
            \/ x \in copying[w]
            \/ x.tile = n_block[w] /\ (x.mode = "all" => step[w] # 0 \/ IsEvenMN(call))
      BY <1>0, <2>4 DEF Typing, LoadV, Copy, KVMode
    <3>4. step[w] # 0 => n_block[w] < nMax - 1
      BY <3>1 DEF RangeInv
    <3>5. \A x \in copying'[w] :
            x.buf # "Q" /\ x.mode = "all" =>
              /\ 0 <= x.tile /\ x.tile < nMax
              /\ x.tile = nMax - 1 => IsEvenMN(call)
      BY <1>0, <3>2, <3>3, <3>4 DEF RangeInv
    <3>6. QED BY <1>0, <1>1, <2>0, <3>1, <3>2, <3>4, <3>5
  <2>5. CASE LoadK(w)
    <3>1. /\ pc[w] = "loadK" /\ pc'[w] = "pv" /\ n_block'[w] = n_block[w]
          /\ step'[w] = step[w] /\ step[w] \in Nat
      BY <1>0, <2>5 DEF Typing, LoadK, regs
    <3>2. nMin <= n_block[w] /\ n_block[w] < nMax /\ n_block[w] \in Int
      BY <1>0, <3>1 DEF Typing, RangeInv, Products
    <3>3. \A x \in copying'[w] :
            \/ x \in copying[w]
            \/ x.tile = n_block[w] - 1 /\ n_block[w] > nMin
      <4>1. CASE n_block[w] > nMin
        <5>1. copying' = [copying EXCEPT ![w] =
                            @ \cup {Copy("K", n_block[w] - 1, KVMode(FALSE, FALSE))}]
          BY <2>5, <4>1 DEF LoadK
        <5>2. Copy("K", n_block[w] - 1, KVMode(FALSE, FALSE)).tile = n_block[w] - 1
          BY DEF Copy
        <5>3. QED BY <1>0, <4>1, <5>1, <5>2 DEF Typing
      <4>2. CASE ~ n_block[w] > nMin
        <5>1. copying' = copying
          BY <2>5, <4>2 DEF LoadK
        <5>2. QED BY <5>1
      <4>3. QED BY <4>1, <4>2
    <3>4. \A x \in copying'[w] :
            x.buf # "Q" /\ x.mode = "all" =>
              /\ 0 <= x.tile /\ x.tile < nMax
              /\ x.tile = nMax - 1 => IsEvenMN(call)
      BY <1>0, <3>2, <3>3 DEF RangeInv
    <3>5. QED BY <1>0, <1>1, <2>0, <3>1, <3>2, <3>4 DEF RangeInv
  <2>6. CASE Accumulate(w)
    <3>1. /\ pc[w] = "pv" /\ pc'[w] = NextPc(w) /\ n_block'[w] = n_block[w] - 1
          /\ copying'[w] = copying[w]
      BY <1>0, <2>6 DEF Typing, Accumulate
    <3>2. nMin <= n_block[w] /\ n_block[w] < nMax /\ n_block[w] \in Int
      BY <1>0, <3>1 DEF Typing, RangeInv
    <3>3. NextPc(w) \in {"top", "epilogue"} /\ (NextPc(w) = "top" => n_block[w] > nMin)
      BY <1>0, NextTileIssued, Destinations
    <3>4. n_block'[w] < nMax - 1 /\ pc'[w] # "start"
      BY <1>0, <3>1, <3>2, <3>3
    <3>5. pc'[w] \in {"top", "sync1", "loadK", "pv"} \cup Products => nMin <= n_block'[w]
      BY <1>0, <3>1, <3>2, <3>3 DEF Products
    <3>6. \A x \in copying'[w] :
            x.buf # "Q" /\ x.mode = "all" =>
              /\ 0 <= x.tile /\ x.tile < nMax
              /\ x.tile = nMax - 1 => IsEvenMN(call)
      BY <3>1 DEF RangeInv
    <3>7. n_block'[w] < nMax
      BY <1>0, <3>1, <3>2
    <3>8. QED BY <1>1, <2>0, <3>4, <3>5, <3>6, <3>7
  <2>7. QED BY <1>3, <2>1, <2>2, <2>3, <2>4, <2>5, <2>6 DEF Execute
<1>4. ASSUME NEW w \in Warp, NEW x \in copying[w], Land(w, x) PROVE RangeInv'
  <2>1. /\ call' = call /\ UNCHANGED <<pc, n_block, step>>
        /\ \A u \in Warp : copying'[u] \subseteq copying[u]
    BY <1>0, <1>4 DEF Typing, Land, regs
  <2>2. QED BY <2>1, Fixed DEF RangeInv
<1>5. CASE Release
  <2>1. /\ call' = call /\ UNCHANGED <<n_block, step, copying>>
        /\ \A u \in Warp : pc'[u] # "start"
        /\ \A u \in Warp : pc'[u] \in {"top", "sync1", "loadK", "pv"} \cup Products =>
                             pc[u] \in {"top", "sync1", "loadK", "pv"} \cup Products
    BY <1>0, <1>5 DEF Typing, Release, Barrier, After, regs, Products
  <2>2. QED BY <2>1, Fixed DEF RangeInv
<1>6. QED BY <1>2, <1>3, <1>4, <1>5 DEF Next

LEMMA RangeInvariant == Spec => []RangeInv
<1>1. Init => RangeInv
  BY DEF Init, RangeInv, Products
<1>2. QED BY <1>1, NextRangeInv, TileInvariant, PTL DEF Spec

(* No copy without predicates reads past the last key of the sequence, for *)
(* every length, tile size and kind of window: only copies of the first    *)
(* step touch the last tile, and they are predicated unless it is full.    *)
THEOREM NothingReadPastKeys == Spec => []NoReadPastKeys
<1>1. TileInv /\ RangeInv => NoReadPastKeys
  <2> SUFFICES ASSUME TileInv, RangeInv, NEW w \in Warp, NEW x \in copying[w],
                      x.buf # "Q", x.mode = "all"
               PROVE  x.tile >= 0 /\ (x.tile + 1) * kBlockN <= call.sk
    BY DEF NoReadPastKeys
  <2> DEFINE q == CeilDiv(call.sk, kBlockN)
  <2>1. /\ x.tile \in Int /\ 0 <= x.tile /\ x.tile < nMax /\ nMax <= q /\ nMax \in Int
        /\ x.tile = nMax - 1 => IsEvenMN(call)
    BY CallRange DEF TileInv, Typing, RangeInv
  <2>2. /\ kBlockN \in Nat /\ call.sk \in Nat /\ q \in Nat
        /\ (q - 1) * kBlockN <= call.sk
        /\ IsEvenMN(call) => q * kBlockN <= call.sk
    BY FlashMaskAssumption, FlashFwdKernelAssumption, TilesCover DEF TileInv, Typing, IsEvenMN
  <2> HIDE DEF q
  <2>3. CASE IsEvenMN(call)
    <3>1. (x.tile + 1) * kBlockN <= q * kBlockN
      BY <2>1, <2>2
    <3>2. QED BY <2>1, <2>2, <2>3, <3>1
  <2>4. CASE ~ IsEvenMN(call)
    <3>1. (x.tile + 1) * kBlockN <= (q - 1) * kBlockN
      BY <2>1, <2>2, <2>4
    <3>2. QED BY <2>1, <2>2, <3>1
  <2>5. QED BY <2>3, <2>4
<1>2. QED BY <1>1, TileInvariant, RangeInvariant, PTL

-----------------------------------------------------------------------------
(* The calls considered have windows that the host keeps.                  *)
WindowsKept == \A c \in Calls : KeepsWindow(c)

-----------------------------------------------------------------------------
(* Between its start and its epilogue a warp is on tile nMax - 1 - step    *)
(* while it masks, and below the masked tiles after that.                  *)
Loop == {"top", "sync1", "loadK", "pv"} \cup Products
StepInv ==
  \A w \in Warp :
    /\ step[w] \in 0 .. steps
    /\ pc[w] = "start" => step[w] = 0
    /\ pc[w] \in Loop => \/ step[w] < steps /\ n_block[w] = nMax - 1 - step[w]
                         \/ step[w] = steps /\ n_block[w] < nMax - steps

(* Both products read what they need; a V tile is never left uncleared;    *)
(* the output is staged completely before it is stored.                    *)
OperandInv ==
  /\ scores \in [Warp -> SUBSET Column]
  /\ \A w \in Warp :
       /\ pc[w] \in {"scored", "sync2", "loadK", "pv"} => scores[w] = Column
       /\ sV[w] = Torn \/ sV[w].mode # "bound"
       /\ \A x \in copying[w] : x.buf = "V" => x.mode # "bound"
       /\ pc[w] = "sync3" => sQ[w] = "O"
       /\ pc[w] = "store" => \A u \in Warp : sQ[u] = "O"

(* A row has summed what it sees in the tiles behind its warp, once the    *)
(* warp has left the loop all that it sees; and what is written is that.   *)
RowResult(r) == AR!Result(Seen(call, RowOf(call, r)))
SumInv ==
  /\ summed \in [Row -> SUBSET (0 .. call.sk - 1)]
  /\ rowmax = [r \in Row |-> IF summed[r] = {} THEN "-inf" ELSE "finite"]
  /\ DOMAIN out = Row
  /\ \A r \in Row : out[r] # Unwritten => RowOf(call, r) < call.sq
  /\ \A w \in Warp, r \in Row : Owner(r) = w =>
       /\ pc[w] = "start" => summed[r] = {}
       /\ pc[w] \in Loop =>
            summed[r] = SeenFrom(call, RowOf(call, r), n_block[w] + 1)
       /\ pc[w] \in {"epilogue", "sync3", "store"} =>
            summed[r] = Seen(call, RowOf(call, r))
       /\ out[r] = Unwritten \/ (pc[w] = "done" /\ out[r] = RowResult(r))

KernelInv == StepInv /\ OperandInv /\ SumInv

(* Warps that do not move keep what is said of them.                       *)
LEMMA NextStepInv == TileInv /\ StepInv /\ [Next]_vars => StepInv'
<1> SUFFICES ASSUME TileInv, StepInv, [Next]_vars PROVE StepInv'
  OBVIOUS
<1>0. /\ Typing /\ nMin \in Int /\ nMax \in Int /\ steps \in Int /\ 1 <= steps
  BY CallRange DEF TileInv
<1>1. ASSUME call' = call, NEW w \in Warp,
             \A u \in Warp \ {w} : /\ pc'[u] = pc[u] /\ n_block'[u] = n_block[u]
                                   /\ step'[u] = step[u],
             step'[w] \in 0 .. steps,
             pc'[w] = "start" => step'[w] = 0,
             pc'[w] \in Loop => \/ step'[w] < steps /\ n_block'[w] = nMax - 1 - step'[w]
                                \/ step'[w] = steps /\ n_block'[w] < nMax - steps
      PROVE  StepInv'
  BY <1>1, Fixed DEF StepInv
<1>2. ASSUME call' = call, UNCHANGED <<n_block, step>>,
             \A u \in Warp : /\ pc'[u] = "start" => pc[u] = "start"
                             /\ pc'[u] \in Loop => pc[u] \in Loop
      PROVE  StepInv'
  BY <1>2, Fixed DEF StepInv
<1>3. CASE UNCHANGED vars
  BY <1>2, <1>3 DEF vars
<1>4. ASSUME NEW w \in Warp, Execute(w) PROVE StepInv'
  <2>0. call' = call
    BY <1>4 DEF Execute, NoRows, Exit, Prologue, Arrive, LoadV, ScoreQK, LoadK, Accumulate,
                StageO, Store
  <2>1. CASE NoRows(w) \/ Exit(w) \/ Arrive(w) \/ LoadV(w) \/ ScoreQK(w) \/ LoadK(w)
             \/ StageO(w) \/ Store(w)
    BY <1>0, <1>2, <2>1 DEF Typing, NoRows, Exit, Arrive, LoadV, ScoreQK, LoadK, StageO, Store,
                            regs, Loop, Products
  <2>2. CASE Prologue(w)
    <3>1. /\ pc[w] = "start" /\ pc'[w] = "top" /\ n_block'[w] = nMax - 1 /\ step'[w] = step[w]
          /\ \A u \in Warp \ {w} : /\ pc'[u] = pc[u] /\ n_block'[u] = n_block[u]
                                   /\ step'[u] = step[u]
      BY <1>0, <2>2 DEF Typing, Prologue
    <3>2. step[w] = 0
      BY <3>1 DEF StepInv
    <3>3. QED BY <1>0, <1>1, <2>0, <3>1, <3>2
  <2>3. CASE Accumulate(w)
    <3>1. /\ pc[w] = "pv" /\ pc'[w] = NextPc(w) /\ n_block'[w] = n_block[w] - 1
          /\ step'[w] = NextStep(w)
          /\ \A u \in Warp \ {w} : /\ pc'[u] = pc[u] /\ n_block'[u] = n_block[u]
                                   /\ step'[u] = step[u]
      BY <1>0, <2>3 DEF Typing, Accumulate
    <3>2. /\ n_block[w] \in Int /\ step[w] \in 0 .. steps
          /\ \/ step[w] < steps /\ n_block[w] = nMax - 1 - step[w]
             \/ step[w] = steps /\ n_block[w] < nMax - steps
      BY <1>0, <3>1 DEF Typing, StepInv, Loop
    <3>3. NextPc(w) \in {"top", "epilogue"} /\ (NextPc(w) = "top" <=> n_block[w] > nMin)
      BY <1>0, NextTileIssued, Destinations
    <3>4. CASE Last(w)
      <4>1. NextStep(w) = steps /\ pc'[w] = "epilogue"
        BY <1>0, <3>1, <3>2, <3>3, <3>4 DEF NextStep, Last
      <4>2. QED BY <1>0, <1>1, <2>0, <3>1, <4>1 DEF Loop, Products
    <3>5. CASE ~ Last(w) /\ step[w] < steps
      <4>1. NextStep(w) = step[w] + 1
        BY <3>5 DEF NextStep, Masking
      <4>2. QED BY <1>0, <1>1, <2>0, <3>1, <3>2, <3>3, <3>5, <4>1
    <3>6. CASE ~ Last(w) /\ step[w] = steps
      <4>1. NextStep(w) = step[w]
        BY <1>0, <3>6 DEF NextStep, Masking
      <4>2. QED BY <1>0, <1>1, <2>0, <3>1, <3>2, <3>3, <3>6, <4>1
    <3>7. QED BY <3>2, <3>4, <3>5, <3>6
  <2>4. QED BY <1>4, <2>1, <2>2, <2>3 DEF Execute
<1>5. ASSUME NEW w \in Warp, NEW x \in copying[w], Land(w, x) PROVE StepInv'
  BY <1>2, <1>5 DEF Land, regs
<1>6. CASE Release
  <2>1. /\ call' = call /\ UNCHANGED <<n_block, step>>
        /\ \A u \in Warp : /\ pc'[u] # "start"
                           /\ pc'[u] \in Loop => pc[u] \in Loop
    BY <1>6 DEF Release, Barrier, After, regs, Loop, Products
  <2>2. QED BY <1>2, <2>1
<1>7. QED BY <1>3, <1>4, <1>5, <1>6 DEF Next

(* The columns of a tile are divided among the warps' slices.              *)
LEMMA SliceOfWarp ==
  ASSUME NEW j \in Column
  PROVE  SliceOf(j) \in Warp
<1>1. NWarps \in Nat \ {0} /\ j \in Nat
  BY FlashFwdKernelAssumption, FlashMaskAssumption DEF Column
<1>2. QED BY <1>1 DEF SliceOf, Warp

LEMMA NextOperandInv == TileInv /\ OperandInv /\ [Next]_vars => OperandInv'
<1> SUFFICES ASSUME TileInv, OperandInv, [Next]_vars PROVE OperandInv'
  OBVIOUS
<1>0. /\ Typing /\ InStep /\ CopyInv /\ SliceInv /\ TilesReady
  BY TileInvReady DEF TileInv
<1> DEFINE ReadsIt(w) ==
      /\ pc[w] \in {"scored", "sync2", "loadK", "pv"} => scores[w] = Column
      /\ sV[w] = Torn \/ sV[w].mode # "bound"
      /\ \A x \in copying[w] : x.buf = "V" => x.mode # "bound"
      /\ pc[w] = "sync3" => sQ[w] = "O"
           Staged(w) == pc[w] = "store" => \A u \in Warp : sQ[u] = "O"
<1>1. /\ scores' \in [Warp -> SUBSET Column]
      /\ \A w \in Warp : ReadsIt(w)' /\ Staged(w)'
      => OperandInv'
  BY DEF OperandInv
<1>2. scores \in [Warp -> SUBSET Column] /\ \A w \in Warp : ReadsIt(w) /\ Staged(w)
  BY DEF OperandInv
<1>3. CASE UNCHANGED vars
  BY <1>3 DEF vars, OperandInv
<1>4. ASSUME NEW w \in Warp, Execute(w) PROVE OperandInv'
  <2>1. CASE NoRows(w) \/ Exit(w) \/ Arrive(w) \/ Store(w)
    <3>1. /\ UNCHANGED <<copying, sQ, sV, scores>>
          /\ pc'[w] \in {"done", "sync1", "sync2"}
          /\ pc'[w] = "sync2" => pc[w] = "scored"
          /\ \A u \in Warp \ {w} : pc'[u] = pc[u]
      BY <1>0, <2>1 DEF Typing, NoRows, Exit, Arrive, Store, regs
    <3>2. QED BY <1>1, <1>2, <3>1
  <2>2. CASE Prologue(w)
    <3> DEFINE q == Copy("Q", call.m_block, "bound")
               k == Copy("K", nMax - 1, KVMode(TRUE, FALSE))
    <3>1. q.buf # "V" /\ k.buf # "V"
      BY DEF Copy
    <3>2. /\ UNCHANGED <<sQ, sV, scores>> /\ pc' = [pc EXCEPT ![w] = "top"]
          /\ copying' = [copying EXCEPT ![w] = {q, k}]
      BY <2>2 DEF Prologue
    <3> HIDE DEF q, k
    <3>3. /\ pc'[w] = "top" /\ copying'[w] = {q, k}
          /\ \A u \in Warp \ {w} : pc'[u] = pc[u] /\ copying'[u] = copying[u]
      BY <1>0, <3>2 DEF Typing
    <3>4. QED BY <1>1, <1>2, <3>1, <3>2, <3>3
  <2>3. CASE LoadV(w)
    <3>1. KVMode(step[w] = 0, TRUE) # "bound"
      BY DEF KVMode
    <3> DEFINE v == Copy("V", n_block[w], KVMode(step[w] = 0, TRUE))
    <3>2. v.mode # "bound"
      BY <3>1 DEF Copy
    <3>3. /\ UNCHANGED <<sQ, scores>> /\ pc' = [pc EXCEPT ![w] = "qk"]
          /\ sV' = [sV EXCEPT ![w] = Torn]
          /\ copying' = [copying EXCEPT ![w] = @ \cup {v}]
      BY <2>3 DEF LoadV, regs
    <3> HIDE DEF v
    <3>4. /\ pc'[w] = "qk" /\ sV'[w] = Torn /\ copying'[w] = copying[w] \cup {v}
          /\ \A u \in Warp \ {w} : pc'[u] = pc[u] /\ copying'[u] = copying[u] /\ sV'[u] = sV[u]
      BY <1>0, <3>3 DEF Typing
    <3>5. QED BY <1>1, <1>2, <3>2, <3>3, <3>4
  <2>4. CASE ScoreQK(w)
    <3>1. /\ UNCHANGED <<sQ, sV, copying>> /\ pc[w] = "qk" /\ pc'[w] = "scored"
          /\ scores' = [scores EXCEPT ![w] =
               {j \in Column : sK[SliceOf(j)].tile = n_block[w] /\ \A u \in Warp : sQ[u] = "Q"}]
          /\ \A u \in Warp \ {w} : pc'[u] = pc[u]
      BY <1>0, <2>4 DEF Typing, ScoreQK
    <3>2. \A u \in Warp : sK[u].tile = n_block[w] /\ sQ[u] = "Q"
      BY <1>0, <3>1 DEF TilesReady
    <3>3. {j \in Column : sK[SliceOf(j)].tile = n_block[w] /\ \A u \in Warp : sQ[u] = "Q"} = Column
      BY <3>2, SliceOfWarp
    <3>4. scores' = [scores EXCEPT ![w] = Column]
      BY <3>1, <3>3
    <3>5. \A u \in Warp : scores'[u] = scores[u] \/ scores'[u] = Column
      BY <3>4
    <3>6. scores'[w] = Column /\ scores' \in [Warp -> SUBSET Column]
      BY <1>2, <3>4
    <3>7. QED BY <1>1, <1>2, <3>1, <3>4, <3>5, <3>6
  <2>5. CASE LoadK(w)
    <3> DEFINE k == Copy("K", n_block[w] - 1, KVMode(FALSE, FALSE))
    <3>1. k.buf # "V"
      BY DEF Copy
    <3>2. /\ UNCHANGED <<sQ, sV, scores>> /\ pc[w] = "loadK" /\ pc' = [pc EXCEPT ![w] = "pv"]
          /\ copying' = copying \/ copying' = [copying EXCEPT ![w] = @ \cup {k}]
      BY <2>5 DEF LoadK, regs
    <3> HIDE DEF k
    <3>3. \A u \in Warp : \A x \in copying'[u] : x \in copying[u] \/ x.buf # "V"
      BY <1>0, <3>1, <3>2 DEF Typing
    <3>4. pc'[w] = "pv" /\ \A u \in Warp \ {w} : pc'[u] = pc[u]
      BY <1>0, <3>2 DEF Typing
    <3>5. QED BY <1>1, <1>2, <3>2, <3>3, <3>4
  <2>6. CASE Accumulate(w)
    <3>1. /\ UNCHANGED <<sQ, sV, scores, copying>> /\ pc'[w] \in {"top", "epilogue"}
          /\ \A u \in Warp \ {w} : pc'[u] = pc[u]
      BY <1>0, <2>6, Destinations DEF Typing, Accumulate
    <3>2. QED BY <1>1, <1>2, <3>1
  <2>7. CASE StageO(w)
    <3>1. /\ UNCHANGED <<sV, scores, copying>> /\ pc'[w] = "sync3"
          /\ sQ'[w] = "O" /\ \A u \in Warp : sQ'[u] = sQ[u] \/ sQ'[u] = "O"
          /\ \A u \in Warp \ {w} : pc'[u] = pc[u]
      BY <1>0, <2>7 DEF Typing, StageO, regs
    <3>2. QED BY <1>1, <1>2, <3>1
  <2>8. QED BY <1>4, <2>1, <2>2, <2>3, <2>4, <2>5, <2>6, <2>7 DEF Execute
<1>5. ASSUME NEW w \in Warp, NEW x \in copying[w], Land(w, x) PROVE OperandInv'
  <2>1. /\ UNCHANGED <<pc, scores>>
        /\ \A u \in Warp : copying'[u] \subseteq copying[u]
    BY <1>0, <1>5 DEF Typing, Land, regs
  <2>2. \A u \in Warp : sV'[u] = sV[u] \/ (x.buf = "V" /\ sV'[u].mode = x.mode)
    BY <1>0, <1>5 DEF Typing, Land
  <2>3. x.buf = "V" => x.mode # "bound"
    BY <1>2
  <2>4. \A u \in Warp : sQ'[u] = sQ[u] \/ (u = w /\ pc[w] = "top")
    BY <1>0, <1>5 DEF Typing, Land, CopyInv
  <2>5. ASSUME pc[w] = "top", NEW u \in Warp PROVE pc[u] # "store"
    BY <1>0, <2>5 DEF InStep, Bound, Products
  <2>6. QED BY <1>1, <1>2, <2>1, <2>2, <2>3, <2>4, <2>5
<1>6. CASE Release
  <2>1. /\ UNCHANGED <<copying, sQ, sV, scores>>
        /\ \A u \in Warp : pc[u] \in Barrier /\ pc'[u] = After(pc[u])
    BY <1>6 DEF Release, regs
  <2>2. \A u \in Warp : /\ pc[u] = "sync1" => pc'[u] = "loadV"
                        /\ pc[u] = "sync2" => pc'[u] = "loadK"
                        /\ pc[u] = "sync3" => pc'[u] = "store"
    BY <2>1 DEF After
  <2>3. ASSUME NEW w \in Warp, pc'[w] = "store", NEW u \in Warp PROVE sQ[u] = "O"
    <3>1. pc[w] = "sync3"
      BY <2>1, <2>2, <2>3 DEF Barrier
    <3>2. pc[u] = "sync3"
      BY <1>0, <2>1, <3>1 DEF InStep, Bound, Barrier, Products
    <3>3. QED BY <1>2, <3>2
  <2>4. \A u \in Warp : ReadsIt(u)'
    BY <1>2, <2>1, <2>2 DEF Barrier
  <2>5. \A u \in Warp : Staged(u)'
    BY <2>1, <2>3
  <2>6. QED BY <1>1, <1>2, <2>1, <2>4, <2>5
<1>7. QED BY <1>3, <1>4, <1>5, <1>6 DEF Next

-----------------------------------------------------------------------------
LEMMA InitSumInv == Init => KernelInv
<1> SUFFICES ASSUME Init PROVE KernelInv
  OBVIOUS
<1>1. call \in Calls /\ steps \in Int /\ 1 <= steps
  BY CallNumbers DEF Init, steps
<1>2. StepInv
  BY <1>1 DEF Init, StepInv, Loop, Products
<1>3. OperandInv
  BY DEF Init, OperandInv
<1>4. SumInv
  BY DEF Init, SumInv, Loop, Products
<1>5. QED BY <1>2, <1>3, <1>4 DEF KernelInv

(* Steps that sum and write nothing.                                       *)
LEMMA SumKept ==
  ASSUME SumInv, call' = call, UNCHANGED <<summed, rowmax, out>>,
         \A u \in Warp : /\ pc'[u] = "start" => pc[u] = "start"
                         /\ pc'[u] \in Loop => pc[u] \in Loop /\ n_block'[u] = n_block[u]
                         /\ pc'[u] \in {"epilogue", "sync3", "store"} =>
                              pc[u] \in {"epilogue", "sync3", "store"}
                         /\ pc[u] = "done" => pc'[u] = "done"
  PROVE  SumInv'
BY DEF SumInv, RowResult

(* A warp that leaves the prologue or exits has nothing behind it.         *)
LEMMA BeginSumInv ==
  ASSUME Typing, SumInv, NEW w \in Warp, Prologue(w)
  PROVE  SumInv'
<1>1. /\ call' = call /\ UNCHANGED <<summed, rowmax, out>>
      /\ pc[w] = "start" /\ pc'[w] = "top" /\ n_block'[w] = nMax - 1
      /\ \A u \in Warp \ {w} : pc'[u] = pc[u] /\ n_block'[u] = n_block[u]
      /\ nMax \in Int /\ call \in Calls
  BY Bounds DEF Typing, Prologue
<1>2. ASSUME NEW r \in Row PROVE SeenFrom(call, RowOf(call, r), n_block'[w] + 1) = {}
  <2>1. SUFFICES ASSUME NEW col \in SeenFrom(call, RowOf(call, r), nMax) PROVE FALSE
    BY <1>1
  <2>2. col < nMax * kBlockN /\ col >= nMax * kBlockN /\ col \in Int
    BY <1>1, <2>1, RowInRange, CallNumbers DEF SeenFrom, Seen, nMax
  <2>3. nMax * kBlockN \in Int
    BY <1>1, CallNumbers
  <2>4. QED BY <2>2, <2>3
<1>3. \A r \in Row : Owner(r) = w => summed[r] = {} /\ out[r] = Unwritten
  BY <1>1 DEF SumInv
<1>4. ASSUME NEW u \in Warp, NEW r \in Row, Owner(r) = u
      PROVE  /\ pc'[u] = "start" => summed'[r] = {}
             /\ pc'[u] \in Loop =>
                  summed'[r] = SeenFrom(call', RowOf(call', r), n_block'[u] + 1)
             /\ pc'[u] \in {"epilogue", "sync3", "store"} =>
                  summed'[r] = Seen(call', RowOf(call', r))
             /\ out'[r] = Unwritten \/ (pc'[u] = "done" /\ out'[r] = RowResult(r)')
  <2>1. CASE u = w
    BY <1>1, <1>2, <1>3, <1>4, <2>1
  <2>2. CASE u # w
    BY <1>1, <1>4, <2>2 DEF SumInv, RowResult
  <2>3. QED BY <2>1, <2>2
<1>5. QED BY <1>1, <1>4 DEF SumInv

LEMMA ExitSumInv ==
  ASSUME Typing, SumInv, NEW w \in Warp, Exit(w)
  PROVE  SumInv'
<1>1. /\ call' = call /\ UNCHANGED <<summed, rowmax, n_block>>
      /\ pc[w] = "start" /\ pc'[w] = "done"
      /\ \A u \in Warp \ {w} : pc'[u] = pc[u]
      /\ out' = [r \in Row |-> IF Owner(r) = w /\ RowOf(call, r) < call.sq
                               THEN [cols |-> {}, lse |-> "+inf"] ELSE out[r]]
      /\ call \in Calls
  BY DEF Typing, Exit, regs
<1>2. nMin \in Int /\ nMax \in Int /\ nMax <= nMin
  BY <1>1, Bounds DEF Exit, EarlyExit, nMin, nMax
<1>3. ASSUME NEW r \in Row PROVE Seen(call, RowOf(call, r)) = {}
  <2>1. SUFFICES ASSUME NEW col \in Seen(call, RowOf(call, r)) PROVE FALSE
    OBVIOUS
  <2>2. col < nMax * kBlockN /\ nMin * kBlockN <= col /\ col \in Int
    BY <1>1, <2>1, RowInRange, CallNumbers DEF Seen, nMax, nMin
  <2>3. nMax * kBlockN \in Int /\ nMin * kBlockN \in Int /\ nMax * kBlockN <= nMin * kBlockN
    <3>1. kBlockN \in Nat
      BY <1>1, CallNumbers
    <3>2. QED BY <3>1, <1>2, Grows
  <2>4. QED BY <2>2, <2>3
<1>4. \A r \in Row : RowResult(r) = [cols |-> {}, lse |-> "+inf"]
  BY <1>3 DEF RowResult, AR!Result
<1>5. \A r \in Row : Owner(r) = w => out[r] = Unwritten
  BY <1>1 DEF SumInv
<1>6. \A r \in Row : RowResult(r)' = RowResult(r)
  BY <1>1 DEF RowResult
<1>7. ASSUME NEW u \in Warp, NEW r \in Row, Owner(r) = u
      PROVE  /\ pc'[u] = "start" => summed'[r] = {}
             /\ pc'[u] \in Loop =>
                  summed'[r] = SeenFrom(call', RowOf(call', r), n_block'[u] + 1)
             /\ pc'[u] \in {"epilogue", "sync3", "store"} =>
                  summed'[r] = Seen(call', RowOf(call', r))
             /\ out'[r] = Unwritten \/ (pc'[u] = "done" /\ out'[r] = RowResult(r)')
  <2>1. CASE u = w
    <3>1. pc'[u] = "done" /\ pc'[u] \notin Loop
      BY <1>1, <2>1 DEF Loop, Products
    <3>2. out'[r] = Unwritten \/ out'[r] = RowResult(r)'
      BY <1>1, <1>4, <1>5, <1>6, <1>7, <2>1
    <3>3. QED BY <3>1, <3>2
  <2>2. CASE u # w
    <3>1. out'[r] = out[r] /\ pc'[u] = pc[u]
      BY <1>1, <1>7, <2>2
    <3>2. QED BY <1>1, <1>6, <1>7, <3>1 DEF SumInv
  <2>3. QED BY <2>1, <2>2
<1>8. DOMAIN out' = Row /\ \A r \in Row : out'[r] # Unwritten => RowOf(call', r) < call'.sq
  BY <1>1 DEF SumInv
<1>9. QED BY <1>1, <1>7, <1>8 DEF SumInv

(* The rows of a warp leave complete.                                      *)
LEMMA StoreSumInv ==
  ASSUME Typing, OperandInv, SumInv, NEW w \in Warp, Store(w)
  PROVE  SumInv'
<1>1. /\ call' = call /\ UNCHANGED <<summed, rowmax, n_block>>
      /\ pc[w] = "store" /\ pc'[w] = "done"
      /\ \A u \in Warp \ {w} : pc'[u] = pc[u]
      /\ out' = [r \in Row |-> IF Owner(r) = w /\ RowOf(call, r) < call.sq
                               THEN Finished(r) ELSE out[r]]
  BY DEF Typing, Store, regs
<1>2. ASSUME NEW r \in Row, Owner(r) = w PROVE Finished(r) = RowResult(r)
  <2>1. summed[r] = Seen(call, RowOf(call, r))
    BY <1>1, <1>2 DEF SumInv
  <2>2. \A u \in Warp : sQ[u] = "O"
    BY <1>1 DEF OperandInv
  <2>3. rowmax[r] = IF summed[r] = {} THEN "-inf" ELSE "finite"
    BY DEF SumInv
  <2>4. QED BY <2>1, <2>2, <2>3 DEF Finished, RowResult, AR!Result
<1>3. \A r \in Row : Owner(r) = w => out[r] = Unwritten
  BY <1>1 DEF SumInv
<1>4. \A r \in Row : RowResult(r)' = RowResult(r)
  BY <1>1 DEF RowResult
<1>5. ASSUME NEW u \in Warp, NEW r \in Row, Owner(r) = u
      PROVE  /\ pc'[u] = "start" => summed'[r] = {}
             /\ pc'[u] \in Loop =>
                  summed'[r] = SeenFrom(call', RowOf(call', r), n_block'[u] + 1)
             /\ pc'[u] \in {"epilogue", "sync3", "store"} =>
                  summed'[r] = Seen(call', RowOf(call', r))
             /\ out'[r] = Unwritten \/ (pc'[u] = "done" /\ out'[r] = RowResult(r)')
  <2>1. CASE u = w
    <3>1. pc'[u] = "done" /\ pc'[u] \notin Loop
      BY <1>1, <2>1 DEF Loop, Products
    <3>2. out'[r] = Unwritten \/ out'[r] = RowResult(r)'
      BY <1>1, <1>2, <1>3, <1>4, <1>5, <2>1
    <3>3. QED BY <3>1, <3>2
  <2>2. CASE u # w
    <3>1. out'[r] = out[r] /\ pc'[u] = pc[u]
      BY <1>1, <1>5, <2>2
    <3>2. QED BY <1>1, <1>4, <1>5, <3>1 DEF SumInv
  <2>3. QED BY <2>1, <2>2
<1>6. DOMAIN out' = Row /\ \A r \in Row : out'[r] # Unwritten => RowOf(call', r) < call'.sq
  BY <1>1 DEF SumInv
<1>7. QED BY <1>1, <1>5, <1>6 DEF SumInv

(* One step of a row: the warp's tile is added to what its rows have       *)
(* summed; no product reads garbage and no maximum becomes NaN.            *)
LEMMA RowStep ==
  ASSUME TilesDivide, TileInv, RangeInv, StepInv, OperandInv, SumInv,
         NEW w \in Warp, pc[w] = "pv", NEW r \in Row
  PROVE  /\ Kept(w, r) = {j \in Column :
                            n_block[w] * kBlockN + j \in Seen(call, RowOf(call, r))}
         /\ \A j \in Kept(w, r) : Summand(w, j) = n_block[w] * kBlockN + j
         /\ ~ Uncleared(w)
         /\ ~ (Rescales(w, r) /\ ~ CheckInf(w))
<1> DEFINE t == n_block[w]
<1>1. /\ Typing /\ SliceInv /\ call \in Calls
      /\ nMin \in Int /\ nMax \in Int /\ steps \in Int /\ 0 <= nMin
  BY CallRange DEF TileInv, Typing
<1>2. t \in Nat /\ nMin <= t /\ t < nMax
  BY <1>1 DEF Typing, RangeInv
<1>3. step[w] \in 0 .. steps /\ (Masking(w) <=> t >= nMax - steps) /\ Masking(w) \in BOOLEAN
  BY <1>1, <1>2 DEF StepInv, Loop, Masking
<1>4. \A u \in Warp : sV[u].tile = t
  BY <1>1 DEF SliceInv
<1>5. \A j \in Column : /\ SliceOf(j) \in Warp
                        /\ MaskedOut(call, Masking(w), RowOf(call, r), t * kBlockN + j)
                             <=> t * kBlockN + j \notin Seen(call, RowOf(call, r))
  <2>1. SUFFICES ASSUME NEW j \in Column
                 PROVE  MaskedOut(call, Masking(w), RowOf(call, r), t * kBlockN + j)
                          <=> t * kBlockN + j \notin Seen(call, RowOf(call, r))
    BY SliceOfWarp
  <2>2. t < NBlockMax(call, call.m_block)
        /\ (~ Masking(w) => t < NBlockMax(call, call.m_block) - NMaskingSteps(call))
    BY <1>1, <1>2, <1>3 DEF nMax, steps
  <2> HIDE DEF t
  <2>3. MaskCall(call) /\ call.m_block \in Nat /\ InTile(call.m_block, RowOf(call, r))
    BY <1>1, CallNumbers, RowNumbers
  <2>4. QED BY <1>2, <1>3, <2>2, <2>3, KeptIsSeen DEF Column
<1>6. Kept(w, r) = {j \in Column : t * kBlockN + j \in Seen(call, RowOf(call, r))}
  BY <1>5 DEF Kept, Column0
<1>7. ASSUME NEW j \in Kept(w, r) PROVE Summand(w, j) = t * kBlockN + j
  <2>1. j \in Column /\ t * kBlockN + j \in Seen(call, RowOf(call, r))
    BY <1>6, <1>7
  <2>2. t * kBlockN + j < call.sk
    BY <1>1, <2>1, CallNumbers DEF Seen
  <2>3. j \in scores[w] /\ sV[SliceOf(j)].tile = n_block[w]
    BY <1>4, <1>5, <2>1 DEF OperandInv
  <2>4. QED BY <2>2, <2>3 DEF Summand, Column0
<1>8. ~ Uncleared(w)
  <2>1. SUFFICES ASSUME NEW j \in Column, sV[SliceOf(j)].mode = "bound" PROVE FALSE
    BY DEF Uncleared
  <2>2. sV[SliceOf(j)] = Torn
    BY <1>5, <2>1 DEF OperandInv
  <2>3. sV[SliceOf(j)].tile = -1
    BY <2>2 DEF Torn
  <2>4. QED BY <1>2, <1>4, <1>5, <2>3
<1>9. ASSUME step[w] > 0, Kept(w, r) = {}, ~ CheckInf(w) PROVE FALSE
  <2>1. CASE Masking(w)
    <3>1. ~ IsCausal(call) /\ ~ IsLocal(call)
      BY <1>9, <2>1 DEF CheckInf
    <3>2. steps = 1
      BY <3>1 DEF steps, NMaskingSteps
    <3>3. QED BY <1>3, <1>9, <2>1, <3>2 DEF Masking
  <2>2. CASE ~ Masking(w)
    <3>1. ~ IsLocal(call) /\ t < nMax - steps
      BY <1>1, <1>2, <1>3, <1>9, <2>2 DEF CheckInf
    <3>2. 0 \in Column
      BY <1>1, CallNumbers DEF Column
    <3>3. t * kBlockN + 0 \in Seen(call, RowOf(call, r))
      <4>1. MaskCall(call) /\ call.m_block \in Nat /\ InTile(call.m_block, RowOf(call, r))
        BY <1>1, CallNumbers, RowNumbers
      <4> HIDE DEF t
      <4>2. QED BY <1>2, <3>1, <3>2, <4>1, SecondLoopSeesAll DEF nMax, steps, Column
    <3>4. QED BY <1>6, <1>9, <3>2, <3>3
  <2>3. QED BY <2>1, <2>2
<1>10. QED BY <1>6, <1>7, <1>8, <1>9 DEF Rescales

LEMMA AccumulateSumInv ==
  ASSUME TilesDivide, TileInv, RangeInv, StepInv, OperandInv, SumInv,
         NEW w \in Warp, Accumulate(w)
  PROVE  SumInv'
<1> DEFINE t == n_block[w]
<1>0. Typing /\ call \in Calls /\ nMin \in Int /\ nMax \in Int /\ 0 <= nMin
  BY CallRange DEF TileInv, Typing
<1>1. /\ call' = call /\ out' = out
      /\ pc[w] = "pv" /\ pc'[w] = NextPc(w) /\ n_block'[w] = t - 1
      /\ \A u \in Warp \ {w} : pc'[u] = pc[u] /\ n_block'[u] = n_block[u]
      /\ summed' = [r \in Row |->
           IF Owner(r) = w THEN summed[r] \cup {Summand(w, j) : j \in Kept(w, r)}
           ELSE summed[r]]
      /\ rowmax' = [r \in Row |->
           IF Owner(r) # w \/ rowmax[r] = "nan" THEN rowmax[r]
           ELSE IF Uncleared(w) \/ (Rescales(w, r) /\ ~ CheckInf(w)) THEN "nan"
           ELSE IF Kept(w, r) = {} THEN rowmax[r] ELSE "finite"]
  BY <1>0 DEF Typing, Accumulate
<1>2. t \in Nat /\ nMin <= t /\ t < nMax
  BY <1>0, <1>1 DEF Typing, RangeInv
<1>3. ASSUME NEW r \in Row, Owner(r) = w
      PROVE  /\ summed'[r] = SeenFrom(call, RowOf(call, r), t)
             /\ rowmax'[r] = IF summed'[r] = {} THEN "-inf" ELSE "finite"
  <2>1. /\ Kept(w, r) = {j \in Column : t * kBlockN + j \in Seen(call, RowOf(call, r))}
        /\ \A j \in Kept(w, r) : Summand(w, j) = t * kBlockN + j
        /\ ~ Uncleared(w) /\ ~ (Rescales(w, r) /\ ~ CheckInf(w))
    BY <1>1, RowStep
  <2>2. {Summand(w, j) : j \in Kept(w, r)} = {t * kBlockN + j : j \in Kept(w, r)}
    BY <2>1
  <2>3. summed'[r] = summed[r] \cup {t * kBlockN + j : j \in Kept(w, r)}
    BY <1>1, <1>3, <2>2
  <2>4. summed[r] = SeenFrom(call, RowOf(call, r), t + 1)
    BY <1>1, <1>3 DEF SumInv, Loop
  <2>5. summed'[r] = SeenFrom(call, RowOf(call, r), t)
    <3>1. MaskCall(call)
      BY <1>0, CallNumbers
    <3>2. QED BY <1>2, <2>1, <2>3, <2>4, <3>1, SeenAddsTile DEF Column
  <2>6. rowmax[r] = IF summed[r] = {} THEN "-inf" ELSE "finite"
    BY DEF SumInv
  <2>7. rowmax'[r] = IF Kept(w, r) = {} THEN rowmax[r] ELSE "finite"
    BY <1>1, <1>3, <2>1, <2>6
  <2>8. summed'[r] = {} <=> summed[r] = {} /\ Kept(w, r) = {}
    BY <2>3
  <2>9. QED BY <2>5, <2>6, <2>7, <2>8
<1>4. \A r \in Row : Owner(r) # w => summed'[r] = summed[r] /\ rowmax'[r] = rowmax[r]
  BY <1>1
<1>5. summed' \in [Row -> SUBSET (0 .. call'.sk - 1)]
  <2>1. ASSUME NEW r \in Row PROVE summed'[r] \subseteq 0 .. call.sk - 1
    <3>1. CASE Owner(r) = w
      BY <1>3, <3>1 DEF SeenFrom, Seen
    <3>2. CASE Owner(r) # w
      BY <1>4, <3>2 DEF SumInv
    <3>3. QED BY <3>1, <3>2
  <2>2. summed' = [r \in Row |-> summed'[r]]
    BY <1>1
  <2>3. QED BY <1>1, <2>1, <2>2
<1>6. rowmax' = [r \in Row |-> IF summed'[r] = {} THEN "-inf" ELSE "finite"]
  <2>1. \A r \in Row : rowmax'[r] = IF summed'[r] = {} THEN "-inf" ELSE "finite"
    BY <1>3, <1>4 DEF SumInv
  <2>2. rowmax' = [r \in Row |-> rowmax'[r]]
    BY <1>1
  <2>3. QED BY <2>1, <2>2
<1>7. NextPc(w) \in {"top", "epilogue"} /\ (NextPc(w) = "top" <=> t > nMin)
  BY <1>0, NextTileIssued, Destinations
<1>8. ASSUME t = nMin, NEW r \in Row
      PROVE  SeenFrom(call, RowOf(call, r), t) = Seen(call, RowOf(call, r))
  BY <1>0, <1>8, RowInRange DEF SeenFrom, nMin
<1>9. ASSUME NEW u \in Warp, NEW r \in Row, Owner(r) = u
      PROVE  /\ pc'[u] = "start" => summed'[r] = {}
             /\ pc'[u] \in Loop =>
                  summed'[r] = SeenFrom(call', RowOf(call', r), n_block'[u] + 1)
             /\ pc'[u] \in {"epilogue", "sync3", "store"} =>
                  summed'[r] = Seen(call', RowOf(call', r))
             /\ out'[r] = Unwritten \/ (pc'[u] = "done" /\ out'[r] = RowResult(r)')
  <2>1. CASE u = w
    <3>1. out'[r] = Unwritten
      BY <1>1, <1>9, <2>1 DEF SumInv
    <3>2. summed'[r] = SeenFrom(call', RowOf(call', r), t)
      BY <1>1, <1>3, <1>9, <2>1
    <3>3. n_block'[u] + 1 = t
      BY <1>1, <1>2, <2>1
    <3>4. CASE pc'[u] = "top"
      BY <3>1, <3>2, <3>3, <3>4
    <3>5. CASE pc'[u] = "epilogue"
      <4>1. t = nMin
        BY <1>0, <1>1, <1>2, <1>7, <2>1, <3>5
      <4>2. summed'[r] = Seen(call', RowOf(call', r)) /\ pc'[u] \notin Loop
        BY <1>1, <1>8, <3>2, <3>5, <4>1 DEF Loop, Products
      <4>3. QED BY <3>1, <3>5, <4>2
    <3>6. QED BY <1>1, <1>7, <2>1, <3>4, <3>5
  <2>2. CASE u # w
    <3>1. /\ pc'[u] = pc[u] /\ n_block'[u] = n_block[u] /\ out'[r] = out[r]
          /\ summed'[r] = summed[r]
      BY <1>1, <1>4, <1>9, <2>2
    <3>2. QED BY <1>1, <1>9, <3>1 DEF SumInv, RowResult
  <2>3. QED BY <2>1, <2>2
<1>10. DOMAIN out' = Row /\ \A r \in Row : out'[r] # Unwritten => RowOf(call', r) < call'.sq
  BY <1>1 DEF SumInv
<1>11. QED BY <1>5, <1>6, <1>9, <1>10 DEF SumInv

(* Inductiveness: one step per action.                                     *)
LEMMA NextSumInv ==
  ASSUME TilesDivide
  PROVE  TileInv /\ RangeInv /\ KernelInv /\ [Next]_vars => SumInv'
<1> SUFFICES ASSUME TileInv, RangeInv, KernelInv, [Next]_vars PROVE SumInv'
  OBVIOUS
<1>0. Typing /\ StepInv /\ OperandInv /\ SumInv
  BY DEF TileInv, KernelInv
<1>1. CASE UNCHANGED vars
  BY <1>0, <1>1, SumKept DEF vars
<1>2. ASSUME NEW w \in Warp, Execute(w) PROVE SumInv'
  <2>1. CASE NoRows(w) \/ Arrive(w) \/ LoadV(w) \/ ScoreQK(w) \/ LoadK(w) \/ StageO(w)
    <3>1. /\ call' = call /\ UNCHANGED <<n_block, summed, rowmax, out>>
          /\ \A u \in Warp \ {w} : pc'[u] = pc[u]
          /\ \/ pc[w] = "start" /\ pc'[w] = "done"
             \/ pc[w] \in Loop /\ pc'[w] \in Loop
             \/ pc[w] = "epilogue" /\ pc'[w] = "sync3"
      BY <1>0, <2>1 DEF Typing, NoRows, Arrive, LoadV, ScoreQK, LoadK, StageO, regs, Loop, Products
    <3>2. QED BY <1>0, <3>1, SumKept DEF Loop, Products
  <2>2. CASE Exit(w)
    BY <1>0, <2>2, ExitSumInv
  <2>3. CASE Prologue(w)
    BY <1>0, <2>3, BeginSumInv
  <2>4. CASE Accumulate(w)
    BY <1>0, <2>4, AccumulateSumInv
  <2>5. CASE Store(w)
    BY <1>0, <2>5, StoreSumInv
  <2>6. QED BY <1>2, <2>1, <2>2, <2>3, <2>4, <2>5 DEF Execute
<1>3. ASSUME NEW w \in Warp, NEW x \in copying[w], Land(w, x) PROVE SumInv'
  BY <1>0, <1>3, SumKept DEF Land, regs
<1>4. CASE Release
  <2>1. /\ call' = call /\ UNCHANGED <<n_block, summed, rowmax, out>>
        /\ \A u \in Warp : \/ pc[u] = "sync1" /\ pc'[u] = "loadV"
                           \/ pc[u] = "sync2" /\ pc'[u] = "loadK"
                           \/ pc[u] = "sync3" /\ pc'[u] = "store"
    BY <1>4 DEF Release, Barrier, After, regs
  <2>2. QED BY <1>0, <2>1, SumKept DEF Loop, Products
<1>5. QED BY <1>1, <1>2, <1>3, <1>4 DEF Next

(* In every reachable state a row has summed exactly what it sees in the   *)
(* tiles its warp has left behind, whatever the order of copies and warps. *)
THEOREM SumInvariant ==
  ASSUME TilesDivide
  PROVE  Spec => []KernelInv
<1>1. TileInv /\ RangeInv /\ KernelInv /\ [Next]_vars => KernelInv'
  BY NextStepInv, NextOperandInv, NextSumInv DEF KernelInv
<1>2. QED BY <1>1, InitSumInv, TileInvariant, RangeInvariant, PTL DEF Spec

-----------------------------------------------------------------------------
(* A row is written once, by the warp that owns it.                        *)
LEMMA WrittenOnce ==
  ASSUME Typing, SumInv, [Next]_vars, NEW r \in Row
  PROVE  out'[r] = out[r] \/ (out[r] = Unwritten /\ Owner(r) \in Warp)
<1>1. CASE UNCHANGED vars
  BY <1>1 DEF vars
<1>2. ASSUME NEW w \in Warp, Execute(w)
      PROVE  out'[r] = out[r] \/ (out[r] = Unwritten /\ Owner(r) \in Warp)
  <2>1. CASE Exit(w) \/ Store(w)
    <3>1. pc[w] \in {"start", "store"} /\ (out'[r] = out[r] \/ Owner(r) = w)
      BY <2>1 DEF Exit, Store
    <3>2. QED BY <3>1 DEF SumInv
  <2>2. CASE NoRows(w) \/ Prologue(w) \/ Arrive(w) \/ LoadV(w) \/ ScoreQK(w) \/ LoadK(w)
             \/ Accumulate(w) \/ StageO(w)
    BY <2>2 DEF NoRows, Prologue, Arrive, LoadV, ScoreQK, LoadK, Accumulate, StageO
  <2>3. QED BY <1>2, <2>1, <2>2 DEF Execute
<1>3. ASSUME NEW w \in Warp, NEW x \in copying[w], Land(w, x) PROVE out' = out
  BY <1>3 DEF Land
<1>4. CASE Release
  BY <1>4 DEF Release
<1>5. QED BY <1>1, <1>2, <1>3, <1>4 DEF Next

(* The rows of the sequence see what the reference mask gives them.        *)
LEMMA SeenIsWanted ==
  ASSUME WindowsKept, call \in Calls, NEW r \in Row, RowOf(call, r) < call.sq
  PROVE  AR!Wanted(call, r) = Seen(call, RowOf(call, r))
<1>1. RowOf(call, r) \in 0 .. call.sq - 1
  <2>1. RowOf(call, r) \in Int /\ call.m_block * kBlockM \in Int
        /\ call.m_block * kBlockM <= RowOf(call, r) /\ call.sq \in Nat
    BY RowNumbers, CallNumbers DEF InTile
  <2>2. 0 <= call.m_block * kBlockM
    <3>1. call.m_block \in Nat /\ kBlockM \in Nat
      BY CallNumbers
    <3>2. QED BY <3>1
  <2>3. QED BY <2>1, <2>2
<1>2. \A col \in 0 .. call.sk - 1 :
        AR!Attends(call, AR!RowOf(call, r), col) <=> Attends(call, RowOf(call, r), col)
  BY DEF AR!Attends, Attends, AR!RowOf, RowOf
<1>3. \A col \in 0 .. call.sk - 1 :
        Attends(call, RowOf(call, r), col) <=> col \in Seen(call, RowOf(call, r))
  BY <1>1, HostKeepsMask DEF WindowsKept
<1>4. Seen(call, RowOf(call, r)) \subseteq 0 .. call.sk - 1
  BY DEF Seen
<1>5. QED BY <1>2, <1>3, <1>4 DEF AR!Wanted

(* The kernel implements attention under the reference mask, for every     *)
(* call whose window the host keeps, every pair of tile sizes of which one *)
(* divides the other, and every number of warps: the two loops, the tiles  *)
(* they skip and the masks they leave out sum every column of the mask     *)
(* once, no NaN appears, and every row is written at most once.            *)
THEOREM KernelImplementsAttention ==
  ASSUME TilesDivide, WindowsKept
  PROVE  Spec => ImplementsAttention
<1>1. Init => AR!Init
  BY DEF Init, AR!Init, Row, Unwritten, AR!Unwritten
<1>2. TileInv /\ KernelInv /\ KernelInv' /\ [Next]_vars => [AR!Next]_<<call, out>>
  <2> SUFFICES ASSUME TileInv, KernelInv, KernelInv', [Next]_vars PROVE AR!Next
    OBVIOUS
  <2>1. /\ Typing /\ SumInv /\ SumInv'
    BY DEF TileInv, KernelInv
  <2>2. call' = call /\ call \in Calls
    BY <2>1 DEF Typing, Next, Execute, NoRows, Exit, Prologue, Arrive, LoadV, ScoreQK, LoadK,
               Accumulate, StageO, Store, Land, Release, vars
  <2>3. DOMAIN out = Row /\ DOMAIN out' = Row
    BY <2>1 DEF SumInv
  <2>4. ASSUME NEW r \in Row, out'[r] # out[r] PROVE AR!Write(r)
    <3>1. out[r] = Unwritten /\ Owner(r) \in Warp
      BY <2>1, <2>4, WrittenOnce
    <3>2. out'[r] # Unwritten
      BY <2>4, <3>1
    <3>3. out'[r] = RowResult(r)' /\ RowOf(call', r) < call'.sq
      BY <2>1, <3>1, <3>2 DEF SumInv
    <3>4. out'[r] = AR!Result(AR!Wanted(call, r))
      BY <2>2, <3>3, SeenIsWanted DEF RowResult
    <3>5. r \in AR!RowsIn(call)
      BY <2>2, <3>3 DEF AR!RowsIn, AR!RowOf, RowOf, Row
    <3>6. QED BY <3>1, <3>4, <3>5 DEF AR!Write, Unwritten, AR!Unwritten
  <2>5. QED BY <2>2, <2>3, <2>4 DEF AR!Next
<1>3. QED BY <1>1, <1>2, SumInvariant, TileInvariant, PTL DEF Spec, ImplementsAttention, AR!Spec

-----------------------------------------------------------------------------
(* Tiles that are copied have a number.                                    *)
Numbered ==
  \A w \in Warp : /\ sK[w].tile >= -1 /\ sV[w].tile >= -1
                  /\ \A x \in copying[w] : x.tile >= 0

LEMMA NextNumbered == TileInv /\ RangeInv /\ Numbered /\ [Next]_vars => Numbered'
<1> SUFFICES ASSUME TileInv, RangeInv, Numbered, [Next]_vars PROVE Numbered'
  OBVIOUS
<1>0. /\ Typing /\ nMin \in Int /\ nMax \in Int /\ 0 <= nMin
      /\ ~ EarlyExit(call, call.m_block) => nMin < nMax
  BY CallRange DEF TileInv
<1>1. ASSUME UNCHANGED <<copying, sK, sV>> PROVE Numbered'
  BY <1>1 DEF Numbered
<1>2. CASE UNCHANGED vars
  BY <1>1, <1>2 DEF vars
<1>3. ASSUME NEW w \in Warp, Execute(w) PROVE Numbered'
  <2>1. CASE NoRows(w) \/ Exit(w) \/ Arrive(w) \/ ScoreQK(w) \/ Accumulate(w) \/ StageO(w)
             \/ Store(w)
    BY <1>1, <2>1 DEF NoRows, Exit, Arrive, ScoreQK, Accumulate, StageO, Store
  <2>2. CASE Prologue(w)
    <3> DEFINE q == Copy("Q", call.m_block, "bound")
               k == Copy("K", nMax - 1, KVMode(TRUE, FALSE))
    <3>1. nMin < nMax /\ call.m_block \in Nat
      BY <1>0, <2>2, CallNumbers DEF Typing, Prologue
    <3>2. q.tile >= 0 /\ k.tile >= 0
      BY <1>0, <3>1 DEF Copy
    <3>3. copying' = [copying EXCEPT ![w] = {q, k}] /\ UNCHANGED <<sK, sV>>
      BY <2>2 DEF Prologue
    <3> HIDE DEF q, k
    <3>4. QED BY <1>0, <3>2, <3>3 DEF Numbered, Typing
  <2>3. CASE LoadV(w)
    <3> DEFINE v == Copy("V", n_block[w], KVMode(step[w] = 0, TRUE))
    <3>1. n_block[w] \in Int /\ n_block[w] >= 0
      BY <1>0, <2>3 DEF LoadV, Typing, RangeInv, Products
    <3>2. v.tile >= 0
      BY <3>1 DEF Copy
    <3>3. /\ copying' = [copying EXCEPT ![w] = @ \cup {v}]
          /\ sV' = [sV EXCEPT ![w] = Torn] /\ sK' = sK
      BY <2>3 DEF LoadV
    <3> HIDE DEF v
    <3>4. QED BY <1>0, <3>2, <3>3 DEF Numbered, Typing, Torn
  <2>4. CASE LoadK(w)
    <3> DEFINE k == Copy("K", n_block[w] - 1, KVMode(FALSE, FALSE))
    <3>1. CASE n_block[w] > nMin
      <4>1. k.tile >= 0
        BY <1>0, <3>1 DEF Copy, Typing
      <4>2. /\ copying' = [copying EXCEPT ![w] = @ \cup {k}]
            /\ sK' = [sK EXCEPT ![w] = Torn] /\ sV' = sV
        BY <2>4, <3>1 DEF LoadK
      <4> HIDE DEF k
      <4>3. QED BY <1>0, <4>1, <4>2 DEF Numbered, Typing, Torn
    <3>2. CASE ~ n_block[w] > nMin
      BY <1>1, <2>4, <3>2 DEF LoadK
    <3>3. QED BY <3>1, <3>2
  <2>5. QED BY <1>3, <2>1, <2>2, <2>3, <2>4 DEF Execute
<1>4. ASSUME NEW w \in Warp, NEW x \in copying[w], Land(w, x) PROVE Numbered'
  <2>1. x.tile >= 0 /\ x.tile \in Int
    BY <1>0, <1>4 DEF Numbered, Typing
  <2>2. /\ \A u \in Warp : copying'[u] \subseteq copying[u]
        /\ \A u \in Warp : sK'[u] = sK[u] \/ sK'[u].tile = x.tile
        /\ \A u \in Warp : sV'[u] = sV[u] \/ sV'[u].tile = x.tile
    BY <1>0, <1>4 DEF Land, Typing
  <2>3. QED BY <2>1, <2>2 DEF Numbered
<1>5. CASE Release
  BY <1>1, <1>5 DEF Release
<1>6. QED BY <1>2, <1>3, <1>4, <1>5 DEF Next

(* No row ever holds a NaN, a column past the keys or a product with the   *)
(* wrong tile, and no row past the sequence is written.                    *)
THEOREM TypeCorrect ==
  ASSUME TilesDivide
  PROVE  Spec => []TypeOK
<1>1. Init => Numbered
  BY DEF Init, Numbered, Torn
<1>2. Spec => []Numbered
  BY <1>1, NextNumbered, TileInvariant, RangeInvariant, PTL DEF Spec
<1>3. TileInv /\ KernelInv /\ Numbered => TypeOK
  <2> SUFFICES ASSUME TileInv, KernelInv, Numbered PROVE TypeOK
    OBVIOUS
  <2>1. Typing /\ StepInv /\ OperandInv /\ SumInv
    BY DEF TileInv, KernelInv
  <2>2. step \in [Warp -> 0 .. steps]
    BY <2>1 DEF Typing, StepInv
  <2>3. copying \in [Warp -> SUBSET [buf : {"Q", "K", "V"}, tile : Tile, mode : Mode]]
    <3>1. ASSUME NEW w \in Warp, NEW x \in copying[w]
          PROVE  x \in [buf : {"Q", "K", "V"}, tile : Tile, mode : Mode]
      <4>1. x \in [buf : {"Q", "K", "V"}, tile : Int, mode : Mode] /\ x.tile >= 0
        BY <2>1, <3>1 DEF Typing, Numbered
      <4>2. QED BY <4>1 DEF Tile
    <3>2. QED BY <2>1, <3>1 DEF Typing
  <2>4. /\ sK \in [Warp -> [tile : Tile, mode : Mode]]
        /\ sV \in [Warp -> [tile : Tile, mode : Mode]]
    <3>1. ASSUME NEW w \in Warp
          PROVE  sK[w] \in [tile : Tile, mode : Mode] /\ sV[w] \in [tile : Tile, mode : Mode]
      <4>1. /\ sK[w] \in [tile : Int, mode : Mode] /\ sK[w].tile >= -1
            /\ sV[w] \in [tile : Int, mode : Mode] /\ sV[w].tile >= -1
        BY <2>1, <3>1 DEF Typing, Numbered
      <4>2. QED BY <4>1 DEF Tile
    <3>2. QED BY <2>1, <3>1 DEF Typing
  <2>5. rowmax \in [Row -> {"-inf", "finite"}]
    BY <2>1 DEF SumInv
  <2>6. QED BY <2>1, <2>2, <2>3, <2>4, <2>5 DEF TypeOK, Typing, OperandInv, SumInv
<1>4. QED BY <1>2, <1>3, TileInvariant, SumInvariant, PTL
=============================================================================
