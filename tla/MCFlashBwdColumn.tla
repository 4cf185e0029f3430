-------------------------- MODULE MCFlashBwdColumn --------------------------
(***************************************************************************)
(* The calls FlashBwdColumn is checked on: every kernel variant, batched   *)
(* calls and, in varlen calls, sequences shorter than the longest.         *)
(***************************************************************************)
EXTENDS FlashBwdColumn

CONSTANTS Qs, Ks,       \* the lengths considered
          Windows,      \* the values of window_size considered, beside -1
          Variants,     \* double buffering and V in registers
          Tiles         \* the key tiles considered

Window == Windows \cup {-1}

(* is_causal comes with window (-1, -1): the frontend's default.           *)
Masks == {<<TRUE, -1, -1>>} \cup {<<FALSE, l, r>> : l \in Window, r \in Window}

Longest(S) == CHOOSE x \in S : \A y \in S : y <= x

Batched == {[sq |-> q, sk |-> k, max_sq |-> q, max_sk |-> k, varlen |-> FALSE] :
              q \in Qs, k \in Ks}
Varlen  == {[sq |-> q, sk |-> Longest(Ks) - d, max_sq |-> Longest(Qs), max_sk |-> Longest(Ks),
             varlen |-> TRUE] : q \in {0, 2}, d \in {1, 2}}

(* Double buffering and V in registers are chosen by head dimension and    *)
(* shared memory.                                                          *)
AllCalls ==
  {[sq |-> s.sq, sk |-> s.sk, max_sq |-> s.max_sq, max_sk |-> s.max_sk, varlen |-> s.varlen,
    causal |-> m[1], wl |-> m[2], wr |-> m[3], even_k |-> TRUE,
    double |-> v[1], v_in_regs |-> v[2], n_block |-> t] :
     s \in Batched \cup Varlen, m \in Masks, v \in Variants, t \in Tiles}

(* See WindowKept of MCFlashFwdKernel.                                     *)
WindowKept(c) ==
  \/ c.sq <= c.max_sk
  \/ HostRight(Host(c)) >= 0
  \/ HostLeft(Host(c)) < 0 /\ Host(c).wr = -1

(* The grid has a thread block for every tile of the longest sequence.     *)
InGrid(c) == c.n_block < CeilDiv(c.max_sk, kBlockN)

CheckedCalls == {c \in AllCalls : InGrid(c) /\ WindowKept(c)}

AllVariants == BOOLEAN \X BOOLEAN
=============================================================================
