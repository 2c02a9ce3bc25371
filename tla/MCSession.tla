----------------------------- MODULE MCSession -----------------------------
EXTENDS Session
CONSTANTS c1, s, p1
MCHome == [p \in Peer |-> s]
MCOp == {<<c1, 1>>, <<c1, 2>>, <<s, 1>>, <<s, 2>>}
MCClock == 0..3
=============================================================================
