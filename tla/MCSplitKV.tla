----------------------------- MODULE MCSplitKV -----------------------------
(***************************************************************************)
(* The calls SplitKV is checked on: batched, with at most two query tiles. *)
(***************************************************************************)
EXTENDS SplitKV

CONSTANTS QLengths, KLengths,   \* the lengths considered
          Windows,              \* the values of window_size, beside -1
          DeviceSMs             \* the devices, by their multiprocessors

(* Windows that the host's normalisation does not change (see              *)
(* MCFlashFwdKernel).                                                      *)
RightKept(c) == HostRight(c) >= 0 \/ (HostLeft(c) < 0 /\ c.wr = -1)
WindowKept(c) == c.sq <= c.max_sk \/ RightKept(c)

Batched ==
  {c \in {[sq |-> q, sk |-> k, max_sq |-> q, max_sk |-> k, wl |-> l, wr |-> r, causal |-> ca,
           varlen |-> FALSE, even_k |-> HeadDim = DRounded, m_block |-> 0, sms |-> n] :
             q \in QLengths, k \in KLengths, l, r \in Windows \cup {-1},
             ca \in BOOLEAN, n \in DeviceSMs} : WindowKept(c)}
=============================================================================
