-------------------------- MODULE MCLossyConnection --------------------------
EXTENDS LossyConnection

ConnectionFrames == {[size |-> 10, reliability |-> Reliable]}
=============================================================================
