----------------------------- MODULE MCOperator -----------------------------
EXTENDS Operator, TLC

PortSymmetry == Permutations(Port)
=============================================================================
