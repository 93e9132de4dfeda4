----------------------------- MODULE MCCapture -----------------------------
\* Model-checking parameters of Capture.
EXTENDS Capture, TLC

CONSTANTS t1, t2, x1

TwoThreads == {t1, t2}
OneObject  == {x1}
OpenOnly   == {"open"}

Symmetry   == Permutations(TwoThreads)
=============================================================================
