------------------------------ MODULE MCPackings ------------------------------
(***************************************************************************)
(* What is packed closely for the wire, and unpacked by what was packed    *)
(* before it: the ids of an ACK or NACK in ranges of bytes, the blocks of  *)
(* a storage in words.  A behaviour is one of the two; the other rests.    *)
(***************************************************************************)
EXTENDS AckDatagram, BlockStorage

VARIABLE part

allVars == <<part, vars, datagram, storageVars>>

\* Every sequence of up to three of the eight ids there are with bytes of two values:
\* ascending, repeated and out of order.
SomeSequences == UNION {[1 .. n -> 0 .. 7] : n \in 0 .. 3}

PackingsInit ==
    /\ DatagramInit /\ StorageInit
    /\ \/ part = "datagram" /\ storage = NewStorage
       \/ part = "storage" /\ sequence = <<>> /\ type = "ACK"

DatagramPart ==
    part = "datagram" /\ DatagramNext /\ UNCHANGED <<part, storageVars>>

StoragePart ==
    part = "storage" /\ StorageNext /\ UNCHANGED <<part, vars, datagram>>

PackingsNext == DatagramPart \/ StoragePart

\* As in DatagramSpec.
PackingsSpec == PackingsInit /\ [][PackingsNext]_allVars /\ WF_allVars(DatagramPart)
=============================================================================
