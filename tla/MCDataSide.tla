------------------------------ MODULE MCDataSide ----------------------------
EXTENDS DataSide, TLC
A(t, s, b) == [tag |-> t, set |-> s, beat |-> b]
\* Two lines of one set, and both beats of one of them.
OneSet == {A("t1", 0, 0), A("t1", 0, 1), A("t2", 0, 0)}
\* Two lines of one set, with both beats of one of them, and a line of another set.
TwoSets == OneSet \cup {A("t1", 1, 0)}
Nowhere == {}
\* Without walks and SCs nothing tells the two words apart.
StoredWords == Permutations({Leaf, LeafAD})
=============================================================================
