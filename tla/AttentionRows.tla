--------------------------- MODULE AttentionRows ---------------------------
(***************************************************************************)
(* What a forward kernel promises for one tile of query rows: every row of *)
(* the tile that belongs to the sequence is written, once, with the sum    *)
(* over exactly the key columns the mask gives it; a row with no column is *)
(* written as zero with log-sum-exp +inf; no other row is touched.         *)
(***************************************************************************)
EXTENDS FlashMask

CONSTANT Calls      \* the calls considered

VARIABLES call,     \* the call, with the query tile m_block; it never changes
          out       \* out[r]: what was written for row r of the tile

Unwritten == [cols |-> {}, lse |-> "none"]

RowOf(c, r)  == c.m_block * kBlockM + r          \* index in the sequence
Wanted(c, r) == {col \in 0 .. c.sk - 1 : Attends(c, RowOf(c, r), col)}
Result(cols) == [cols |-> cols, lse |-> IF cols = {} THEN "+inf" ELSE "finite"]
RowsIn(c)    == {r \in 0 .. kBlockM - 1 : RowOf(c, r) < c.sq}

Init ==
  /\ call \in Calls
  /\ out = [r \in 0 .. kBlockM - 1 |-> Unwritten]

(* A step writes some rows, each for good.                                 *)
Write(r) ==
  /\ r \in RowsIn(call)
  /\ out[r] = Unwritten
  /\ out'[r] = Result(Wanted(call, r))

Next ==
  /\ DOMAIN out' = DOMAIN out
  /\ \A r \in DOMAIN out : Write(r) \/ out'[r] = out[r]
  /\ UNCHANGED call

Spec == Init /\ [][Next]_<<call, out>>

(* All rows of the tile are written in the end.                            *)
Written == <>(\A r \in RowsIn(call) : out[r] # Unwritten)
=============================================================================
