------------------------------ MODULE MCUpload ------------------------------
EXTENDS Upload, TLC

\* Runs are interchangeable.
Symmetry == Permutations(Worker)
=============================================================================
