---------------------------- MODULE RegistersMC ----------------------------
(* Instances of Registers for TLC: five registers in frames of two.         *)
EXTENDS Registers

Of(r, v) == [x \in {r} |-> v]

SingleCalls ==
  {Call(k, 0, 1, Empty, TRUE) : k \in {"read", "ifRead"}}
    \cup {Call(k, 0, 1, Of(0, v), TRUE) : k \in {"write", "ifWrite"}, v \in {1, 2}}
    \cup {Call("viaWrite", 0, 1, Of(0, v), TRUE) : v \in {0, 1}}
    \cup {Call("read", 0, 1, Empty, FALSE), Call("write", 1, 1, Of(1, 2), TRUE)}

Row(v) == [r \in 0 .. 3 |-> v]
BlockCalls ==
  {Call("readBlock", 0, n, Empty, TRUE) : n \in {0, 3, 4}}
    \cup {Call("writeBlock", 0, 1, Row(1), b) : b \in BOOLEAN}
    \cup {Call("writeBlock", 0, 1, m, TRUE) : m \in {Row(2), [r \in Offsets |-> 1]}}

SomeCalls == SingleCalls \cup BlockCalls

\* Three calls for one register, or two of which one at least is for a block.
CallWeight(c) == IF c.kind \in {"readBlock", "writeBlock"} THEN 3 ELSE 2

OneBlock == {Call("writeBlock", 0, 1, Row(1), TRUE)}

\* Another node about the register, and this node about another page.
Others == {[node |-> n, page |-> IF n = "this" THEN "other" ELSE "this",
            index |-> 0, off |-> 0, data |-> <<2>>] : n \in {"this", "other"}}
=============================================================================
