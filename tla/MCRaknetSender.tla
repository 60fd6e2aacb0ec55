--------------------------- MODULE MCRaknetSender ---------------------------
\* Frames of every shape that matters at an mtu of 60 (a chunk of 33 bytes):
\* two of the small ones share a datagram, the long one makes two fragments,
\* the unreliable one is not counted, and the last is a single fragment with
\* the longest header, which fills a datagram to its last byte.
EXTENDS RaknetSender

SmallReliable == [size |-> 10, reliability |-> Reliable]
SmallUnreliable == [size |-> 10, reliability |-> Unreliable]
LongOrdered == [size |-> 40, reliability |-> ReliableOrdered]
ExactSequenced == [size |-> 33, reliability |-> ReliableSequenced]

AllFrames == {SmallReliable, SmallUnreliable, LongOrdered, ExactSequenced}
LiveFrames == {SmallReliable, LongOrdered}
=============================================================================
