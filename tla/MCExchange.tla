----------------------------- MODULE MCExchange -----------------------------
EXTENDS Exchange, TLC

CONSTANTS a, b, i1, i2, k1, k2

MCKinds == <<k1, k2>>
MCSymmetry == Permutations(Invitations)
=============================================================================
