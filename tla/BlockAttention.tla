--------------------------- MODULE BlockAttention ---------------------------
(***************************************************************************)
(* What one pass of ring attention promises, whatever the order in which   *)
(* the key blocks travel: the sequence is cut into N blocks, query block q *)
(* must be combined with every key block b it may see, in the right mode,  *)
(* once.  Nothing that was combined is ever lost or combined again.        *)
(*                                                                         *)
(* The forward pass implements this module with the terms accumulated in   *)
(* the outputs, the backward pass with the terms of the travelling dk/dv.  *)
(***************************************************************************)
EXTENDS Integers

CONSTANTS N,       \* number of blocks, one per device (axis_size)
          Causal   \* is_causal

Block == 0 .. N - 1

(* Query block q sees key block b; a causal diagonal block is masked, the  *)
(* other visible blocks are not.                                           *)
Visible(q, b) == Causal => b <= q
ModeOf(q, b)  == IF Causal /\ b = q THEN "causal" ELSE "full"

VARIABLE done      \* the block products computed so far

Term(q, b) == [q |-> q, blk |-> b, mode |-> ModeOf(q, b)]
AllTerms   == {Term(q, b) : q \in Block, b \in Block}
Wanted     == {x \in AllTerms : Visible(x.q, x.blk)}

Init == done = {}

Combine(x) ==
  /\ x \notin done
  /\ done' = done \cup {x}

Next == \E x \in Wanted : Combine(x)

Spec == Init /\ [][Next]_done

(* Every product is computed in the end.                                   *)
Complete == <>(done = Wanted)

LiveSpec == Spec /\ WF_done(Next)
=============================================================================
