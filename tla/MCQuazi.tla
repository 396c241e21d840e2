------------------------------ MODULE MCQuazi -------------------------------
EXTENDS Quazi

CONSTANT p1

\* One key, an ordinary one or BT_1.
PlainKey == [k \in I!Keys |-> 0]
BtKey1 == [k \in I!Keys |-> 1]

\* Profile 1 is paired with p1.
Paired == {<<1, p1>>}
=============================================================================
