-------------------------- MODULE MCBalloonBatches --------------------------
EXTENDS BalloonBatches, TLC

CONSTANTS n1, n2, w1, w2

TwoBalloons == {n1, n2}

OneWorker == {w1}
TwoWorkers == {w1, w2}

\* Balloons and workers are never compared but for equality.
Interchangeable == Permutations(TwoBalloons) \cup Permutations(TwoWorkers)

=============================================================================
