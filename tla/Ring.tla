-------------------------------- MODULE Ring --------------------------------
(***************************************************************************)
(* The ring of ring_attention.py: what ring_fwd and ring_bwd have in       *)
(* common.  N devices hold one block of q, k and v each, and in every      *)
(* iteration of a lax.scan hand a key block and its index to the next      *)
(* device with collective permutes; the index tells a device how to mask   *)
(* the block it holds.  A block is named by the device it started on.      *)
(*                                                                         *)
(* Each device runs its own instance of a pass.  The start and the         *)
(* completion of a permute are separate steps, as the latency-hiding       *)
(* scheduler of the compiler separates them.                               *)
(***************************************************************************)
EXTENDS Integers, Sequences

CONSTANTS N,             \* axis_size
          Causal,        \* is_causal
          LinkCapacity   \* messages of a permute a link may hold

ASSUME RingAssumption ==
  /\ N \in Nat \ {0}
  /\ Causal \in BOOLEAN
  /\ LinkCapacity \in Nat \ {0}

VARIABLES
  iter,       \* iterations of the scan completed, per device
  sent        \* the permutes of this iteration that were started

Device == 0 .. N - 1
None   == -1                    \* of a permute that has not completed

-----------------------------------------------------------------------------
Succ(i) == IF i = N - 1 THEN 0 ELSE i + 1     \* (i, (i+1) % axis_size)

(* cmp, of the index ix2 of the block held and the device's own, ix, and   *)
(* the branches of lax.switch it selects.  Both passes compute it alike.   *)
CmpReversed(ix2, ix) == (IF ix2 > ix THEN 1 ELSE 0) + (IF ix2 >= ix THEN 1 ELSE 0)
Cmp(ix2, ix) == (IF ix2 < ix THEN 1 ELSE 0) + (IF ix2 <= ix THEN 1 ELSE 0)

Branch(cmp) == IF cmp = 0 THEN "skip" ELSE IF cmp = 1 THEN "causal" ELSE "full"

-----------------------------------------------------------------------------
(* Which blocks a device is to see, and in which mode.                     *)
Sees(i, b)     == Causal => b <= i
WantMode(i, b) == IF Causal /\ b = i THEN "causal" ELSE "full"

(* Where the blocks are: after s hops device i holds block BlockAt(i, s).  *)
Pred(i)       == IF i = 0 THEN N - 1 ELSE i - 1
BlockAt(i, s) == IF i >= s THEN i - s ELSE i - s + N
=============================================================================
