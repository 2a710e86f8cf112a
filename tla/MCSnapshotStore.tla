--------------------------- MODULE MCSnapshotStore ---------------------------
EXTENDS SnapshotStore, TLC

Symmetry == Permutations(Proc) \cup Permutations(Pane) \cup Permutations(Content)
=============================================================================
