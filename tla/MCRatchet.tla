----------------------------- MODULE MCRatchet ------------------------------
EXTENDS ChannelRatchet, TLC
CONSTANT w1
\* All threads are of one worker.
MCHome == [t \in Thread |-> w1]
MCSymmetry == Permutations(Thread)
=============================================================================
