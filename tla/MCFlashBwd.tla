----------------------------- MODULE MCFlashBwd -----------------------------
(***************************************************************************)
(* The calls FlashBwd is checked on.  Rounding is four rows and a query    *)
(* tile two: a batched sequence may end inside a tile, at the end of a     *)
(* tile that is not the last of the rounded length, or with it.            *)
(***************************************************************************)
EXTENDS FlashBwd

Batched(len, b, t) ==
  [varlen |-> FALSE, b |-> b, max_q |-> len, tiles |-> [i \in 0 .. b - 1 |-> t],
   cu |-> [i \in 0 .. b |-> 0]]                      \* not used

(* Two sequences of queries, in a call for at most max_q of them.          *)
Varlen(q0, q1, t0, t1, max_q) ==
  [varlen |-> TRUE, b |-> 2, max_q |-> max_q, tiles |-> [i \in 0 .. 1 |-> IF i = 0 THEN t0 ELSE t1],
   cu |-> [i \in 0 .. 2 |-> IF i = 0 THEN 0 ELSE IF i = 1 THEN q0 ELSE q0 + q1]]

(* One head dimension is padded by the kernel: in these calls the last     *)
(* tile of a batch ends before the rounded length does.                    *)
LaunchCalls ==
  {Batched(1, 1, 2), Batched(1, 2, 1), Batched(2, 2, 1)}
  \cup {Varlen(2, 1, 1, 1, 2), Varlen(0, 3, 1, 1, 3)}

(* The last tile of the batch ends with the rounded length.                *)
PaddedCalls == {Batched(len, 1, 1) : len \in {3, 4}}
=============================================================================
