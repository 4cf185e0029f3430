-------------------------- MODULE MCFlashFwdKernel --------------------------
(***************************************************************************)
(* The calls FlashFwdKernel is checked on.  Batched calls have one length  *)
(* for all sequences; in a varlen call the sequence of this thread block   *)
(* may be shorter than the longest.                                        *)
(***************************************************************************)
EXTENDS FlashFwdKernel

CONSTANTS MaxQ, MaxK,   \* bounds of the lengths
          Windows,      \* the values of window_size considered, beside -1
          Tiles         \* the query tiles considered

Window == Windows \cup {-1}
(* The grid has a thread block for every tile of the longest sequence.     *)
InGrid(c) == c.m_block < CeilDiv(c.max_sq, kBlockM)

(* even_k matters only for lengths that fill their tiles.                  *)
Full(c) == c.sq % kBlockM = 0 /\ c.sk % kBlockN = 0

Batched ==
  {c \in {[sq |-> q, sk |-> k, max_sq |-> q, max_sk |-> k, wl |-> l, wr |-> r,
           causal |-> ca, varlen |-> FALSE, even_k |-> e, m_block |-> m] :
             q \in 1 .. MaxQ, k \in 1 .. MaxK, l, r \in Window,
             ca, e \in BOOLEAN, m \in Tiles} :
     InGrid(c) /\ (Full(c) \/ c.even_k)}

Varlen ==
  {c \in {[sq |-> q, sk |-> k, max_sq |-> MaxQ, max_sk |-> MaxK, wl |-> l, wr |-> r,
           causal |-> ca, varlen |-> TRUE, even_k |-> TRUE, m_block |-> m] :
             q \in 0 .. MaxQ, k \in 0 .. MaxK, l, r \in Window,
             ca \in BOOLEAN, m \in Tiles} : InGrid(c)}

(* The host drops a right window that is as long as the keys, or makes up  *)
(* one; neither changes the mask as long as the queries are no more than   *)
(* the keys, or the host keeps the window as it is.                        *)
RightKept(c) == HostRight(c) >= 0 \/ (HostLeft(c) < 0 /\ c.wr = -1)
WindowKept(c) == c.sq <= c.max_sk \/ RightKept(c)

CheckedCalls == {c \in Batched \cup Varlen : WindowKept(c)}
=============================================================================
