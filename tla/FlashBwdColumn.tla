--------------------------- MODULE FlashBwdColumn ---------------------------
(***************************************************************************)
(* compute_dq_dk_dv_1colblock of flash_bwd_kernel.h, as the launch uses it *)
(* (Seq_parallel, neither Is_first nor Is_last): one thread block computes *)
(* dk and dv of one tile of keys and its share of dq.  The tile of K and V *)
(* stays in shared memory; tiles of Q and dO pass through, from the last   *)
(* to the first.  Four barriers at most order, in an iteration, the uses   *)
(* of sQ (double buffered or not), sdO, sP and sdS; V may live in          *)
(* registers, and then sP and sdS take its memory.                         *)
(*                                                                         *)
(* Every warp copies one slice of each tile, computes P and dS for its     *)
(* rows, adds dq of its rows and sums dk and dv of its columns.  A slice   *)
(* is Torn from the issue of a copy until it lands.  Gradients are         *)
(* abstracted to the rows, or columns, they are summed over.               *)
(***************************************************************************)
EXTENDS FlashMask

CONSTANTS NWarps,    \* kNWarps
          Calls      \* the calls considered, each with a key tile n_block

ASSUME FlashBwdColumnAssumption ==
  /\ NWarps \in Nat \ {0}
  /\ kBlockM % NWarps = 0
  /\ \A c \in Calls : /\ c.sq \in Nat /\ c.sk \in Nat /\ c.max_sk \in Nat
                      /\ c.wl \in Int /\ c.wr \in Int /\ c.n_block \in Nat
                      /\ c.double \in BOOLEAN /\ c.v_in_regs \in BOOLEAN

Warp   == 0 .. NWarps - 1
Row    == 0 .. kBlockM - 1      \* a row of a query tile
Column == 0 .. kBlockN - 1      \* a column of the key tile

RowOwner(r) == r \div (kBlockM \div NWarps)
ColOwner(j) == j % NWarps

(* What a copy does with the rows past the end: see FlashFwdKernel.        *)
Mode    == {"all", "bound", "zero", "grad"}
Torn    == [tile |-> -1, mode |-> "bound"]
Garbage == -1

VARIABLES
  call,      \* the parameters of the launch; never changes
  pc,        \* where each warp is
  m_block,   \* the query tile each warp works on
  half,      \* the halves of sQ that tQsQ, tSsQ and tdKsQt point to
  stat,      \* the query tile whose lse and dP_sum each warp holds
  copying,   \* asynchronous copies of each warp that have not landed
  sQ, sdO, sK, sV,   \* slices of the tiles in shared memory; sQ has two halves
  vreg,      \* V is in the registers of the warp
  sP, sdS,   \* the query tile of each warp's slice of P and dS in shared memory
  ds,        \* the query tile of dS in the registers of the warp
  dk, dv,    \* the rows summed in acc_dk and acc_dv for each column
  dq,        \* the columns added to dq_accum for each row of the sequence
  out        \* what was written to dk and dv

vars == <<call, pc, m_block, half, stat, copying, sQ, sdO, sK, sV, vreg, sP, sdS, ds,
          dk, dv, dq, out>>
loop  == <<m_block, stat>>
tiles == <<sQ, sdO, sK, sV>>
grads == <<sP, sdS, ds>>
sums  == <<dk, dv, dq>>

Unwritten == [dk |-> {-1}, dv |-> {-1}]

-----------------------------------------------------------------------------
(* The host makes causal a right window of 0, whatever the lengths.        *)
Host(c) == [c EXCEPT !.causal = FALSE, !.wr = IF c.causal THEN 0 ELSE c.wr]

Causal == IsCausal(Host(call))
Local  == IsLocal(Host(call))
EvenM  == ~ call.varlen /\ call.sq % kBlockM = 0 /\ ~ Local     \* forgets the keys
Even   == IsEvenMN(Host(call))
Left   == WindowLeft(Host(call))
Right  == WindowRight(Host(call))
Offset == call.sq - call.sk
n      == call.n_block

(* The query tiles mMin .. mMax - 1 that the key tile visits.              *)
mMax ==
  IF Local THEN AtMost(CeilDiv(call.sq, kBlockM),
                       CeilDiv((n + 1) * kBlockN + Offset + Left, kBlockM))
  ELSE CeilDiv(call.sq, kBlockM)

mMinLate ==                              \* rounds up
  IF Causal \/ Local THEN AtLeast(0, CeilDiv(n * kBlockN + Offset - Right, kBlockM)) ELSE 0

mMin ==
  IF Causal \/ Local THEN AtLeast(0, Quot(n * kBlockN + Offset - Right, kBlockM)) ELSE 0

PastKeys == n * kBlockN >= call.sk
NoTile   == (Local \/ ~ Even) /\ mMax - 1 < mMin

(* Which tiles are masked, and what the masks of mask.h remove.            *)
LastTile == ~ Even /\ (n + 1) * kBlockN >= call.sk
Masking(m) ==
  LET lo == m * kBlockM  hi == (n + 1) * kBlockN + Offset IN
  IF Causal THEN lo < hi \/ LastTile
  ELSE IF Local THEN \/ lo < hi - Right
                     \/ lo + kBlockM >= n * kBlockN + Offset + Left
                     \/ LastTile
  ELSE LastTile

Hidden(row, col) ==
  LET c == Host(call) IN
  IF Causal THEN col >= LimitRight(c, row)
  ELSE IF Local THEN col >= LimitRight(c, row) \/ col < LimitLeft(c, row)
  ELSE col >= call.sk

(* The entries of a tile with a probability: lse is +inf in rows past the  *)
(* end, which makes the probability 0.                                     *)
Kept(m) ==
  {e \in Row \X Column :
     /\ m * kBlockM + e[1] < call.sq
     /\ ~ (Masking(m) /\ Hidden(m * kBlockM + e[1], n * kBlockN + e[2]))}

-----------------------------------------------------------------------------
FirstMode == IF Even THEN "all" ELSE "zero"
Copy(buf, tile, mode) == [buf |-> buf, tile |-> tile, mode |-> mode]

Init ==
  /\ call \in Calls
  /\ pc = [w \in Warp |-> "start"]
  /\ m_block = [w \in Warp |-> 0]
  /\ half = [w \in Warp |-> [tQ |-> 0, tS |-> 0, tdK |-> 0]]
  /\ stat = [w \in Warp |-> Garbage]
  /\ copying = [w \in Warp |-> {}]
  /\ sQ = [h \in 0 .. 1 |-> [w \in Warp |-> Torn]]
  /\ sdO = [w \in Warp |-> Torn]
  /\ sK = [w \in Warp |-> Torn]
  /\ sV = [w \in Warp |-> Torn]
  /\ vreg = [w \in Warp |-> FALSE]
  /\ sP = [w \in Warp |-> Garbage]
  /\ sdS = [w \in Warp |-> Garbage]
  /\ ds = [w \in Warp |-> Garbage]
  /\ dk = [j \in Column |-> {}]
  /\ dv = [j \in Column |-> {}]
  /\ dq = [r \in 0 .. call.sq - 1 |-> {}]
  /\ out = [j \in Column |-> Unwritten]

(* The key tile lies past the end of the sequence.                         *)
NoKeys(w) ==
  /\ pc[w] = "start" /\ PastKeys
  /\ pc' = [pc EXCEPT ![w] = "done"]
  /\ UNCHANGED <<call, loop, half, copying, tiles, vreg, grads, sums, out>>

(* No query tile sees the keys: their gradients are written as zeros.      *)
Mine(w, j) == ColOwner(j) = w /\ n * kBlockN + j < call.sk

ExitSilently(w) ==             \* returns without writing
  /\ pc[w] = "start" /\ ~ PastKeys /\ NoTile
  /\ pc' = [pc EXCEPT ![w] = "done"]
  /\ UNCHANGED <<call, loop, half, copying, tiles, vreg, grads, sums, out>>

Exit(w) ==
  /\ pc[w] = "start" /\ ~ PastKeys /\ NoTile
  /\ out' = [j \in Column |-> IF Mine(w, j) THEN [dk |-> {}, dv |-> {}] ELSE out[j]]
  /\ pc' = [pc EXCEPT ![w] = "done"]
  /\ UNCHANGED <<call, loop, half, copying, tiles, vreg, grads, sums>>

(* The pointers into sQ start at the half that the parity of the last      *)
(* query tile gives, and all copies are issued: V in a group of its own if *)
(* it goes to registers.                                                   *)
FirstHalf == IF call.double THEN (mMax - 1) % 2 ELSE 0

Prologue(w) ==
  /\ pc[w] = "start" /\ ~ PastKeys /\ ~ NoTile
  /\ m_block' = [m_block EXCEPT ![w] = mMax - 1]
  /\ stat' = [stat EXCEPT ![w] = mMax - 1]
  /\ half' = [half EXCEPT ![w] = [tQ |-> FirstHalf, tS |-> FirstHalf, tdK |-> FirstHalf]]
  /\ copying' = [copying EXCEPT ![w] =
       {Copy("dO", mMax - 1, FirstMode), Copy("Q", mMax - 1, FirstMode),
        Copy("K", n, FirstMode), Copy("V", n, FirstMode)}]
  /\ pc' = [pc EXCEPT ![w] = IF call.v_in_regs THEN "waitV" ELSE "top"]
  /\ UNCHANGED <<call, tiles, vreg, grads, sums, out>>

(* A copy lands, at any time after it was issued.                          *)
Land(w, x) ==
  LET slice == [tile |-> x.tile, mode |-> x.mode] IN
  /\ x \in copying[w]
  /\ copying' = [copying EXCEPT ![w] = @ \ {x}]
  /\ sQ' = IF x.buf = "Q" THEN [sQ EXCEPT ![half[w].tQ][w] = slice] ELSE sQ
  /\ sdO' = IF x.buf = "dO" THEN [sdO EXCEPT ![w] = slice] ELSE sdO
  /\ sK' = IF x.buf = "K" THEN [sK EXCEPT ![w] = slice] ELSE sK
  /\ sV' = IF x.buf = "V" THEN [sV EXCEPT ![w] = slice] ELSE sV
  /\ UNCHANGED <<call, pc, loop, half, vreg, grads, sums, out>>

-----------------------------------------------------------------------------
(* Waiting for the warp's own copies, and arriving at a barrier: before V  *)
(* goes to registers only for its group (cp_async_wait<1>), at the top of  *)
(* the loop for all.  The other barriers of the loop wait for no copy.     *)
Sync  == [waitV |-> "syncV", top |-> "syncA", stored |-> "syncB", summed |-> "syncC",
          again |-> "syncD", epilogue |-> "syncE", staged |-> "syncF"]
After == [syncV |-> "loadV", syncA |-> "score", syncB |-> "dv", syncC |-> "fetchdO",
          syncD |-> "fetchQ", syncE |-> "stage", syncF |-> "store"]
Awaited == [waitV |-> {"V"}, top |-> {"Q", "dO", "K", "V"}, stored |-> {}, summed |-> {},
            again |-> {}, epilogue |-> {}, staged |-> {}]

Arrive(w) ==
  /\ pc[w] \in DOMAIN Sync
  /\ \A x \in copying[w] : x.buf \notin Awaited[pc[w]]
  /\ pc' = [pc EXCEPT ![w] = Sync[pc[w]]]
  /\ UNCHANGED <<call, loop, half, copying, tiles, vreg, grads, sums, out>>

(* __syncthreads: wherever they arrived, the warps leave together.         *)
Release ==
  /\ \A w \in Warp : pc[w] \in DOMAIN After
  /\ pc' = [w \in Warp |-> After[pc[w]]]
  /\ UNCHANGED <<call, loop, half, copying, tiles, vreg, grads, sums, out>>

-----------------------------------------------------------------------------
(* An operand is right if it is the tile wanted and has no stale rows past *)
(* the end: 0 times what such a row holds may be NaN.                      *)
RowsFull(m) == (m + 1) * kBlockM <= call.sq
KeysFull    == (n + 1) * kBlockN <= call.sk
Holds(s, t, full) ==
  \A u \in Warp : s[u].tile = t /\ s[u].mode \in (IF full THEN {"all", "zero"} ELSE {"zero"})

QIn(h, m) == Holds(sQ[h], m, RowsFull(m))
dOIn(m)   == Holds(sdO, m, RowsFull(m))
KIn       == Holds(sK, n, KeysFull)
VIn       == Holds(sV, n, KeysFull)
PIn(m)    == \A u \in Warp : sP[u] = m
dSIn(m)   == \A u \in Warp : sdS[u] = m

(* V to registers.                                                         *)
LoadV(w) ==
  /\ pc[w] = "loadV"
  /\ vreg' = [vreg EXCEPT ![w] = VIn]
  /\ pc' = [pc EXCEPT ![w] = "top"]
  /\ UNCHANGED <<call, loop, half, copying, tiles, grads, sums, out>>

(* S = Q K^T, masked, to probabilities with lse; P to shared memory.       *)
VUnderP(w) == IF call.v_in_regs THEN [sV EXCEPT ![w] = Torn] ELSE sV

Score(w) ==
  LET m == m_block[w] IN
  /\ pc[w] = "score"
  /\ sP' = [sP EXCEPT ![w] = IF QIn(half[w].tS, m) /\ KIn /\ stat[w] = m THEN m ELSE Garbage]
  /\ sV' = VUnderP(w)
  /\ pc' = [pc EXCEPT ![w] = "dp"]
  /\ UNCHANGED <<call, loop, half, copying, sQ, sdO, sK, vreg, sdS, ds, sums, out>>

(* dP = dO V^T and dS = P * (dP - dP_sum), in registers.                   *)
GradScore(w) ==
  LET m == m_block[w] IN
  /\ pc[w] = "dp"
  /\ ds' = [ds EXCEPT ![w] =
              IF /\ sP[w] = m /\ stat[w] = m /\ dOIn(m)
                 /\ IF call.v_in_regs THEN vreg[w] ELSE VIn
              THEN m ELSE Garbage]
  /\ pc' = [pc EXCEPT ![w] = IF call.double /\ m > mMin THEN "prefetchQ" ELSE "storedS"]
  /\ UNCHANGED <<call, loop, half, copying, tiles, vreg, sP, sdS, sums, out>>

(* The pointers for copying and reading Q go to the other half, and the    *)
(* copy of the next tile is issued to it.                                  *)
ToggleUp(m) == 1                \* never back to the first half
Toggle(m) == IF m % 2 = 0 THEN 1 ELSE -1

PrefetchSameHalf(w) ==          \* does not advance tQsQ
  /\ pc[w] = "prefetchQ"
  /\ half' = [half EXCEPT ![w].tS = @ + Toggle(m_block[w])]
  /\ copying' = [copying EXCEPT ![w] = @ \cup {Copy("Q", m_block[w] - 1, "all")}]
  /\ sQ' = [sQ EXCEPT ![half[w].tQ][w] = Torn]
  /\ pc' = [pc EXCEPT ![w] = "storedS"]
  /\ UNCHANGED <<call, loop, sdO, sK, sV, vreg, grads, sums, out>>

PrefetchQ(w) ==
  LET other == half[w].tQ + Toggle(m_block[w]) IN
  /\ pc[w] = "prefetchQ"
  /\ half' = [half EXCEPT ![w].tQ = other, ![w].tS = @ + Toggle(m_block[w])]
  /\ copying' = [copying EXCEPT ![w] = @ \cup {Copy("Q", m_block[w] - 1, "all")}]
  /\ sQ' = [sQ EXCEPT ![other][w] = Torn]
  /\ pc' = [pc EXCEPT ![w] = "storedS"]
  /\ UNCHANGED <<call, loop, sdO, sK, sV, vreg, grads, sums, out>>

StoreDS(w) ==
  /\ pc[w] = "storedS"
  /\ sdS' = [sdS EXCEPT ![w] = ds[w]]
  /\ sV' = VUnderP(w)
  /\ pc' = [pc EXCEPT ![w] = "stored"]
  /\ UNCHANGED <<call, loop, half, copying, sQ, sdO, sK, vreg, sP, ds, sums, out>>

-----------------------------------------------------------------------------
(* A product adds what it read, or garbage; so does a product added twice. *)
Plus(sum, new, good) == IF good /\ sum \cap new = {} THEN sum \cup new ELSE {Garbage}

RowsOf(m, j) == {m * kBlockM + e[1] : e \in {x \in Kept(m) : x[2] = j}}
ColsOf(m, r) == {n * kBlockN + e[2] : e \in {x \in Kept(m) : x[1] = r}}

(* dv += P^T dO.                                                           *)
GradV(w) ==
  LET m == m_block[w] IN
  /\ pc[w] = "dv"
  /\ dv' = [j \in Column |-> IF ColOwner(j) = w
                             THEN Plus(dv[j], RowsOf(m, j), PIn(m) /\ dOIn(m)) ELSE dv[j]]
  /\ pc' = [pc EXCEPT ![w] = "summed"]
  /\ UNCHANGED <<call, loop, half, copying, tiles, vreg, grads, dk, dq, out>>

(* The copy of the next dO tile is issued.                                 *)
FetchDO(w) ==
  /\ pc[w] = "fetchdO"
  /\ IF m_block[w] > mMin
     THEN /\ copying' = [copying EXCEPT ![w] = @ \cup {Copy("dO", m_block[w] - 1, "all")}]
          /\ sdO' = [sdO EXCEPT ![w] = Torn]
     ELSE UNCHANGED <<copying, sdO>>
  /\ pc' = [pc EXCEPT ![w] = "dq"]
  /\ UNCHANGED <<call, loop, half, sQ, sK, sV, vreg, grads, sums, out>>

(* dq = dS K, added to dq_accum for the rows of the sequence; before that  *)
(* lse and dP_sum advance to the next tile.                                *)
GradQ(w) ==
  LET m == m_block[w] IN
  /\ pc[w] = "dq"
  /\ dq' = [row \in DOMAIN dq |->
              LET r == row - m * kBlockM IN
              IF r \in Row /\ RowOwner(r) = w
              THEN Plus(dq[row], ColsOf(m, r), dSIn(m) /\ KIn) ELSE dq[row]]
  /\ stat' = [stat EXCEPT ![w] = IF m > mMin THEN @ - 1 ELSE @]
  /\ pc' = [pc EXCEPT ![w] = "dk"]
  /\ UNCHANGED <<call, m_block, half, copying, tiles, vreg, grads, dk, dv, out>>

(* dk += dS^T Q; the pointer of this product is toggled after it.  Without *)
(* the second half of sQ a barrier precedes the copy of the next tile.     *)
Continue(w) == m_block[w] > mMin
PcAfterDKUnguarded(w) ==        \* the barrier of the single buffer is missing
  IF ~ Continue(w) THEN "epilogue" ELSE IF call.double THEN "top" ELSE "fetchQ"
PcAfterDK(w) ==
  IF ~ Continue(w) THEN "epilogue" ELSE IF call.double THEN "top" ELSE "again"
NextTile(w) ==
  [m_block EXCEPT ![w] = IF PcAfterDK(w) \in {"again", "fetchQ"} THEN @ ELSE @ - 1]

GradK(w) ==
  LET m == m_block[w] IN
  /\ pc[w] = "dk"
  /\ dk' = [j \in Column |-> IF ColOwner(j) = w
                             THEN Plus(dk[j], RowsOf(m, j), dSIn(m) /\ QIn(half[w].tdK, m))
                             ELSE dk[j]]
  /\ half' = IF call.double THEN [half EXCEPT ![w].tdK = @ + Toggle(m)] ELSE half
  /\ m_block' = NextTile(w)
  /\ pc' = [pc EXCEPT ![w] = PcAfterDK(w)]
  /\ UNCHANGED <<call, stat, copying, tiles, vreg, grads, dv, dq, out>>

FetchQ(w) ==
  /\ pc[w] = "fetchQ"
  /\ copying' = [copying EXCEPT ![w] = @ \cup {Copy("Q", m_block[w] - 1, "all")}]
  /\ sQ' = [sQ EXCEPT ![half[w].tQ][w] = Torn]
  /\ m_block' = [m_block EXCEPT ![w] = @ - 1]
  /\ pc' = [pc EXCEPT ![w] = "top"]
  /\ UNCHANGED <<call, stat, half, sdO, sK, sV, vreg, grads, sums, out>>

-----------------------------------------------------------------------------
(* dk and dv leave through the memory of sK and sV, where dS may be.       *)
Staged == [tile |-> n, mode |-> "grad"]
Stage(w) ==
  /\ pc[w] = "stage"
  /\ sK' = [sK EXCEPT ![w] = Staged]
  /\ sV' = [sV EXCEPT ![w] = Staged]
  /\ sdS' = IF call.v_in_regs THEN [sdS EXCEPT ![w] = Garbage] ELSE sdS
  /\ pc' = [pc EXCEPT ![w] = "staged"]
  /\ UNCHANGED <<call, loop, half, copying, sQ, sdO, vreg, sP, ds, sums, out>>

Store(w) ==
  /\ pc[w] = "store"
  /\ out' = [j \in Column |->
       IF Mine(w, j)
       THEN IF \A u \in Warp : sK[u] = Staged /\ sV[u] = Staged
            THEN [dk |-> dk[j], dv |-> dv[j]] ELSE [dk |-> {Garbage}, dv |-> {Garbage}]
       ELSE out[j]]
  /\ pc' = [pc EXCEPT ![w] = "done"]
  /\ UNCHANGED <<call, loop, half, copying, tiles, vreg, grads, sums>>

Execute(w) ==
  \/ NoKeys(w) \/ Exit(w) \/ Prologue(w) \/ Arrive(w) \/ LoadV(w)
  \/ Score(w) \/ GradScore(w) \/ PrefetchQ(w) \/ StoreDS(w)
  \/ GradV(w) \/ FetchDO(w) \/ GradQ(w) \/ GradK(w) \/ FetchQ(w)
  \/ Stage(w) \/ Store(w)

Done == \A w \in Warp : pc[w] = "done"

Next ==
  \/ \E w \in Warp : Execute(w) \/ \E x \in copying[w] : Land(w, x)
  \/ Release
  \/ Done /\ UNCHANGED vars

Spec == Init /\ [][Next]_vars

(* The hardware schedules every resident warp and finishes every copy.     *)
FairSpec ==
  /\ Spec /\ WF_vars(Release)
  /\ \A w \in Warp : WF_vars(Execute(w)) /\ WF_vars(\E x \in copying[w] : Land(w, x))

-----------------------------------------------------------------------------
(* Types of the variables; no sum holds garbage.                           *)
Slice == [tile : Nat \cup {-1}, mode : Mode]
TypeOK ==
  /\ call \in Calls
  /\ pc \in [Warp -> {"start", "prefetchQ", "storedS", "dp", "dq", "dk", "done"}
                     \cup DOMAIN Sync \cup DOMAIN After \cup {After[p] : p \in DOMAIN After}]
  /\ m_block \in [Warp -> Int]
  /\ half \in [Warp -> [tQ : 0 .. 1, tS : 0 .. 1, tdK : 0 .. 1]]
  /\ stat \in [Warp -> Int]
  /\ copying \in [Warp -> SUBSET [buf : {"Q", "dO", "K", "V"}, tile : Nat, mode : Mode]]
  /\ sQ \in [0 .. 1 -> [Warp -> Slice]]
  /\ sdO \in [Warp -> Slice] /\ sK \in [Warp -> Slice] /\ sV \in [Warp -> Slice]
  /\ vreg \in [Warp -> BOOLEAN]
  /\ sP \in [Warp -> Int] /\ sdS \in [Warp -> Int] /\ ds \in [Warp -> Int]
  /\ dk \in [Column -> SUBSET (0 .. call.sq - 1)]
  /\ dv \in [Column -> SUBSET (0 .. call.sq - 1)]
  /\ dq \in [0 .. call.sq - 1 -> SUBSET (0 .. call.sk - 1)]

(* Every product reads complete tiles, the right ones, whose rows past the *)
(* end are cleared: no other warp's copy, and no other warp's P or dS of   *)
(* the next iteration, has begun to overwrite them.                        *)
OperandsReady ==
  \A w \in Warp :
    LET m == m_block[w] IN
    /\ pc[w] = "loadV" => VIn
    /\ pc[w] = "score" => QIn(half[w].tS, m) /\ KIn
    /\ pc[w] = "dp"    => dOIn(m) /\ IF call.v_in_regs THEN vreg[w] ELSE VIn
    /\ pc[w] = "dv"    => PIn(m) /\ dOIn(m)
    /\ pc[w] = "dq"    => dSIn(m) /\ KIn
    /\ pc[w] = "dk"    => dSIn(m) /\ QIn(half[w].tdK, m)

(* No copy that is not predicated reads past the end of its sequence: only *)
(* those of the prologue may touch an incomplete tile, although a window   *)
(* may end the walk before the last query tile.                            *)
NoReadPastEnd ==
  \A w \in Warp : \A x \in copying[w] :
    x.mode = "all" => IF x.buf \in {"K", "V"} THEN KeysFull ELSE RowsFull(x.tile)

(* The column block implements the gradients of its keys under the mask of *)
(* the tests' reference: the tiles it skips, those it masks and those it   *)
(* does not give each gradient each of its summands once.                  *)
GC == INSTANCE GradientColumns

ImplementsGradients == GC!Spec

(* All warps get to the end, with every share of dq added and every key    *)
(* written: tiles that no query sees included.                             *)
GradientsComplete == GC!Complete
=============================================================================
