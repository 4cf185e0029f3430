---------------------------- MODULE RingBackward ----------------------------
(***************************************************************************)
(* ring_bwd of ring_attention.py.  The key blocks travel round the ring as *)
(* in the forward pass, and their gradients dk, dv travel after them, one  *)
(* hop behind: a device sends the gradients it holds before it computes,   *)
(* and adds its contribution to the gradients it receives, which belong to *)
(* the block it still holds.  After the scan one more permute brings every *)
(* gradient to the device whose block it is for.                           *)
(*                                                                         *)
(* The two permutes of an iteration, of (dk, dv) and of (k, v, ix), are    *)
(* asynchronous and unordered; only the data dependencies of the code      *)
(* order the steps of a device.  A gradient is abstracted to the set of    *)
(* contributions summed in it: query device, key block, mode, iteration.   *)
(* The permutes of an iteration are "kv" and "dkv"; iter is N during the   *)
(* permute after the scan and N + 1 once a device has returned.            *)
(***************************************************************************)
EXTENDS Ring

Held   == [blk : Device, ix : Device]        \* k2, v2 (by block) and ix2
Unreceived == [blk |-> None, ix |-> None]
Contribution == [q : Device, blk : Device, mode : {"causal", "full"}, step : 0 .. N - 1]

VARIABLES
  kv,         \* the carried (k2, v2, ix2)
  dkv,        \* the carried (dk2, dv2)
  dq,         \* the running dq
  computed,   \* has mha_bwd of this iteration returned?
  added,      \* have its results been added?
  got,        \* the permutes of this iteration that have completed
  rkv, rdkv,  \* their results; until it completes, Unreceived and the carried dkv
  linkKv, linkDkv   \* messages travelling to a device

bwdVars == <<iter, kv, dkv, dq, computed, added, sent, got, rkv, rdkv, linkKv, linkDkv>>

-----------------------------------------------------------------------------
BwdMode(i) == IF Causal THEN Branch(Cmp(kv[i].ix, i)) ELSE "full"

BwdInit ==
  /\ iter = [i \in Device |-> 0]
  /\ kv = [i \in Device |-> [blk |-> i, ix |-> i]]
  /\ dkv = [i \in Device |-> {}]
  /\ dq = [i \in Device |-> {}]
  /\ computed = [i \in Device |-> FALSE]
  /\ added = [i \in Device |-> FALSE]
  /\ sent = [i \in Device |-> {}]
  /\ got = [i \in Device |-> {}]
  /\ rkv = [i \in Device |-> Unreceived]
  /\ rdkv = dkv
  /\ linkKv = [i \in Device |-> <<>>]
  /\ linkDkv = [i \in Device |-> <<>>]

-----------------------------------------------------------------------------
(* The permute of (k2, v2, ix2) starts.                                    *)
StartKv(i) ==
  /\ iter[i] < N
  /\ "kv" \notin sent[i]
  /\ Len(linkKv[Succ(i)]) < LinkCapacity
  /\ sent' = [sent EXCEPT ![i] = @ \cup {"kv"}]
  /\ linkKv' = [linkKv EXCEPT ![Succ(i)] = Append(@, kv[i])]
  /\ UNCHANGED <<iter, kv, dkv, dq, computed, added, got, rkv, rdkv, linkDkv>>

(* The permute of (dk2, dv2) starts: in each iteration, and after the scan. *)
StartDkvInScanOnly(i) ==    \* the permute after the scan is missing
  /\ iter[i] < N
  /\ "dkv" \notin sent[i]
  /\ Len(linkDkv[Succ(i)]) < LinkCapacity
  /\ sent' = [sent EXCEPT ![i] = @ \cup {"dkv"}]
  /\ linkDkv' = [linkDkv EXCEPT ![Succ(i)] = Append(@, dkv[i])]
  /\ UNCHANGED <<iter, kv, dkv, dq, computed, added, got, rkv, rdkv, linkKv>>

StartDkv(i) ==
  /\ iter[i] <= N
  /\ "dkv" \notin sent[i]
  /\ Len(linkDkv[Succ(i)]) < LinkCapacity
  /\ sent' = [sent EXCEPT ![i] = @ \cup {"dkv"}]
  /\ linkDkv' = [linkDkv EXCEPT ![Succ(i)] = Append(@, dkv[i])]
  /\ UNCHANGED <<iter, kv, dkv, dq, computed, added, got, rkv, rdkv, linkKv>>

DoneKv(i) ==
  /\ "kv" \in sent[i] \ got[i]
  /\ linkKv[i] # <<>>
  /\ rkv' = [rkv EXCEPT ![i] = Head(linkKv[i])]
  /\ linkKv' = [linkKv EXCEPT ![i] = Tail(@)]
  /\ got' = [got EXCEPT ![i] = @ \cup {"kv"}]
  /\ UNCHANGED <<iter, kv, dkv, dq, computed, added, sent, rdkv, linkDkv>>

DoneDkv(i) ==
  /\ "dkv" \in sent[i] \ got[i]
  /\ linkDkv[i] # <<>>
  /\ rdkv' = [rdkv EXCEPT ![i] = Head(linkDkv[i])]
  /\ linkDkv' = [linkDkv EXCEPT ![i] = Tail(@)]
  /\ got' = [got EXCEPT ![i] = @ \cup {"dkv"}]
  /\ UNCHANGED <<iter, kv, dkv, dq, computed, added, sent, rkv, linkKv>>

(* mha_bwd on the carried block, or the zeros of the skip branch.          *)
Compute(i) ==
  /\ iter[i] < N
  /\ ~ computed[i]
  /\ computed' = [computed EXCEPT ![i] = TRUE]
  /\ UNCHANGED <<iter, kv, dkv, dq, added, sent, got, rkv, rdkv, linkKv, linkDkv>>

(* The results are added to dq and to the gradients received.              *)
Contributed(i, b) ==
  IF BwdMode(i) = "skip" THEN {}
  ELSE {[q |-> i, blk |-> b, mode |-> BwdMode(i), step |-> iter[i]]}

AccumulateReceivedBlock(i) ==   \* dka of the block received, not of the one held
  /\ computed[i] /\ ~ added[i]
  /\ {"kv", "dkv"} \subseteq got[i]
  /\ rdkv' = [rdkv EXCEPT ![i] = @ \cup Contributed(i, rkv[i].blk)]
  /\ dq' = [dq EXCEPT ![i] = @ \cup Contributed(i, kv[i].blk)]
  /\ added' = [added EXCEPT ![i] = TRUE]
  /\ UNCHANGED <<iter, kv, dkv, computed, sent, got, rkv, linkKv, linkDkv>>

AccumulateEarly(i) ==           \* adds before the gradients have arrived
  /\ computed[i] /\ ~ added[i]
  /\ rdkv' = [rdkv EXCEPT ![i] = @ \cup Contributed(i, kv[i].blk)]
  /\ dq' = [dq EXCEPT ![i] = @ \cup Contributed(i, kv[i].blk)]
  /\ added' = [added EXCEPT ![i] = TRUE]
  /\ UNCHANGED <<iter, kv, dkv, computed, sent, got, rkv, linkKv, linkDkv>>

Accumulate(i) ==
  /\ computed[i] /\ ~ added[i]
  /\ "dkv" \in got[i]
  /\ rdkv' = [rdkv EXCEPT ![i] = @ \cup Contributed(i, kv[i].blk)]
  /\ dq' = [dq EXCEPT ![i] = @ \cup Contributed(i, kv[i].blk)]
  /\ added' = [added EXCEPT ![i] = TRUE]
  /\ UNCHANGED <<iter, kv, dkv, computed, sent, got, rkv, linkKv, linkDkv>>

BwdNextIterationUnawaited(i) ==     \* the permute of the keys is not awaited
  /\ added[i]
  /\ iter' = [iter EXCEPT ![i] = @ + 1]
  /\ kv' = [kv EXCEPT ![i] = rkv[i]]
  /\ dkv' = [dkv EXCEPT ![i] = rdkv[i]]
  /\ computed' = [computed EXCEPT ![i] = FALSE]
  /\ added' = [added EXCEPT ![i] = FALSE]
  /\ sent' = [sent EXCEPT ![i] = {}]
  /\ got' = [got EXCEPT ![i] = {}]
  /\ rkv' = [rkv EXCEPT ![i] = Unreceived]
  /\ UNCHANGED <<dq, rdkv, linkKv, linkDkv>>

BwdNextIteration(i) ==
  /\ added[i]
  /\ got[i] = {"kv", "dkv"}
  /\ iter' = [iter EXCEPT ![i] = @ + 1]
  /\ kv' = [kv EXCEPT ![i] = rkv[i]]
  /\ dkv' = [dkv EXCEPT ![i] = rdkv[i]]
  /\ computed' = [computed EXCEPT ![i] = FALSE]
  /\ added' = [added EXCEPT ![i] = FALSE]
  /\ sent' = [sent EXCEPT ![i] = {}]
  /\ got' = [got EXCEPT ![i] = {}]
  /\ rkv' = [rkv EXCEPT ![i] = Unreceived]
  /\ UNCHANGED <<dq, rdkv, linkKv, linkDkv>>

(* The permute after the scan has brought the gradients home.              *)
ReturnUnpermuted(i) ==      \* the gradients are returned where the scan left them
  /\ iter[i] = N
  /\ iter' = [iter EXCEPT ![i] = N + 1]
  /\ UNCHANGED <<kv, dkv, dq, computed, added, sent, got, rkv, rdkv, linkKv, linkDkv>>

Return(i) ==
  /\ iter[i] = N
  /\ "dkv" \in got[i]
  /\ iter' = [iter EXCEPT ![i] = N + 1]
  /\ dkv' = [dkv EXCEPT ![i] = rdkv[i]]
  /\ UNCHANGED <<kv, dq, computed, added, sent, got, rkv, rdkv, linkKv, linkDkv>>

Returned(i) == iter[i] = N + 1

BwdStep(i) ==
  \/ StartKv(i) \/ StartDkv(i)
  \/ DoneKv(i) \/ DoneDkv(i)
  \/ Compute(i) \/ Accumulate(i)
  \/ BwdNextIteration(i) \/ Return(i)

BwdNext ==
  \/ \E i \in Device : BwdStep(i)
  \/ (\A i \in Device : Returned(i)) /\ UNCHANGED bwdVars

BwdSpec == BwdInit /\ [][BwdNext]_bwdVars

(* A device whose next operation has its operands executes it.             *)
BwdFairSpec == BwdSpec /\ \A i \in Device : WF_bwdVars(BwdStep(i))

-----------------------------------------------------------------------------
(* Types of the variables; what a device carries has been received.        *)
BwdTypeOK ==
  /\ iter \in [Device -> 0 .. N + 1]
  /\ kv \in [Device -> Held] /\ rkv \in [Device -> Held \cup {Unreceived}]
  /\ dkv \in [Device -> SUBSET Contribution]
  /\ rdkv \in [Device -> SUBSET Contribution]
  /\ dq \in [Device -> SUBSET Contribution]
  /\ computed \in [Device -> BOOLEAN] /\ added \in [Device -> BOOLEAN]
  /\ sent \in [Device -> SUBSET {"kv", "dkv"}]
  /\ got \in [Device -> SUBSET {"kv", "dkv"}]
  /\ linkKv \in [Device -> Seq(Held)]
  /\ linkDkv \in [Device -> Seq(SUBSET Contribution)]

InFlight(i)  == {linkDkv[i][j] : j \in 1 .. Len(linkDkv[i])}
Gradients    == {dkv[i] : i \in Device} \cup {rdkv[i] : i \in Device}
                \cup UNION {InFlight(i) : i \in Device}

(* The gradients lag one hop behind their block, and still a contribution  *)
(* is only ever added to the gradient of the block it was computed from:   *)
(* no gradient, held, received or travelling, mixes two key blocks.        *)
OneBlockPerGradient ==
  \A g \in Gradients : \A x, y \in g : x.blk = y.blk

(* What a device returns is complete and its own: dk and dv of its block   *)
(* hold one contribution of every device that sees the block, dq holds one *)
(* contribution of every block the device sees, in the right mode.         *)
ReturnedExact ==
  \A i \in Device : Returned(i) =>
    /\ \A x \in dkv[i] : x.blk = i /\ Sees(x.q, i) /\ x.mode = WantMode(x.q, i)
    /\ \A x \in dq[i] : x.q = i /\ Sees(i, x.blk) /\ x.mode = WantMode(i, x.blk)
    /\ \A q \in Device : Sees(q, i) => \E x \in dkv[i] : x.q = q
    /\ \A b \in Device : Sees(i, b) => \E x \in dq[i] : x.blk = b
    /\ \A x, y \in dkv[i] : x.q = y.q => x = y
    /\ \A x, y \in dq[i] : x.blk = y.blk => x = y

(* The pass refines the order-free specification: the contributions found  *)
(* in some gradient, wherever it is, are added once each and never lost.   *)
Project(x) == [q |-> x.q, blk |-> x.blk, mode |-> x.mode]
BwdDoneTerms == {Project(x) : x \in UNION Gradients}

BwdBA == INSTANCE BlockAttention WITH done <- BwdDoneTerms

BwdRefinesBlockAttention == BwdBA!Spec

(* Every device returns, the last permute included.                        *)
AllReturned == <>(\A i \in Device : Returned(i))
=============================================================================
