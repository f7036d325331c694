---------------------------- MODULE MCMessageBox ----------------------------
EXTENDS MessageBox, TLC

MCSymmetry == Permutations(Ids)
=============================================================================
