-------------------------- MODULE GradientColumns --------------------------
(***************************************************************************)
(* What the backward pass promises for one tile of key columns: dk and dv  *)
(* of every key of the tile are written, once, as the sum over the query   *)
(* rows that attend to the key, and each query row receives, once, the     *)
(* share of its dq that comes from the keys of the tile it attends to.     *)
(***************************************************************************)
EXTENDS FlashMask

CONSTANT Calls      \* the calls considered, each with a key tile n_block

VARIABLES call,     \* the call; it never changes
          dq,       \* dq[row]: the keys whose share was added to dq_accum
          out       \* out[j]: what was written to dk and dv for key j of the tile

Unwritten == [dk |-> {-1}, dv |-> {-1}]

ColOf(c, j)  == c.n_block * kBlockN + j
Keys(c)      == {j \in 0 .. kBlockN - 1 : ColOf(c, j) < c.sk}
Rows(c)      == 0 .. c.sq - 1
Share(c, r)  == {ColOf(c, j) : j \in {i \in Keys(c) : Attends(c, r, ColOf(c, i))}}
Wanted(c, j) == {r \in Rows(c) : Attends(c, r, ColOf(c, j))}

Init ==
  /\ call \in Calls
  /\ dq = [r \in Rows(call) |-> {}]
  /\ out = [j \in 0 .. kBlockN - 1 |-> Unwritten]

(* The share of a row is added, whole.                                     *)
Add(r) == dq[r] = {} /\ dq'[r] = Share(call, r)

(* Key j is written, for good.                                             *)
Write(j) ==
  /\ j \in Keys(call)
  /\ out[j] = Unwritten
  /\ out'[j] = [dk |-> Wanted(call, j), dv |-> Wanted(call, j)]

Next ==
  /\ DOMAIN dq' = DOMAIN dq /\ \A r \in DOMAIN dq : Add(r) \/ dq'[r] = dq[r]
  /\ DOMAIN out' = DOMAIN out /\ \A j \in DOMAIN out : Write(j) \/ out'[j] = out[j]
  /\ UNCHANGED call

Spec == Init /\ [][Next]_<<call, dq, out>>

(* All shares are added and all keys written in the end.                   *)
Complete ==
  <>(/\ \A r \in Rows(call) : dq[r] = Share(call, r)
     /\ \A j \in Keys(call) : out[j] # Unwritten)
=============================================================================
