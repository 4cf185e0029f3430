----------------------------- MODULE MCBatching -----------------------------
(***************************************************************************)
(* The calls Batching is checked on: up to two nested vmaps of one to      *)
(* three examples, one or two sequences, groups of one or two heads.       *)
(***************************************************************************)
EXTENDS Batching

AxesOf(prim, bwd) ==
  {<<>>}
  \cup {<<[size |-> x, kind |-> a]>> : x \in 1 .. 3, a \in Kinds(prim, bwd)}
  \cup {<<[size |-> 2, kind |-> a], [size |-> x, kind |-> b]>> :
          x \in 1 .. 3, a \in Kinds(prim, bwd), b \in Kinds(prim, bwd)}

AllCalls ==
  UNION {[prim : {p}, bwd : {b}, n : 1 .. 2, hk : 1 .. 2, ratio : 1 .. 2, axes : AxesOf(p, b)] :
           p \in {"mha", "varlen"}, b \in BOOLEAN}

RightCalls == {c \in AllCalls : Narrow(c)}

(* jax.vmap over (q, k, v), of two examples of two sequences.              *)
VmapBackward ==
  {[prim |-> "mha", bwd |-> TRUE, n |-> 2, hk |-> 1, ratio |-> 1,
    axes |-> <<[size |-> 2, kind |-> "all"]>>]}
=============================================================================
