-------------------------- MODULE CapsuleLifecycle --------------------------
(***************************************************************************)
(* What the sending half of a connection promises of each capsule, by its  *)
(* reliable index: where it may be, and from where to where it may go.     *)
(* Windows, datagrams, threads and the order of the queue are left out.    *)
(***************************************************************************)
EXTENDS Naturals

VARIABLE place  \* reliable index -> where that capsule is

\* The ends of a capsule's way: nothing leaves them.
Final == {"acked", "sent", "dropped"}

Places == {"queued", "building", "inFlight"} \cup Final

Made == DOMAIN place

In(p) == {i \in Made : place[i] = p}

Init == place = [i \in {} |-> "queued"]

\* A frame's capsules are numbered on and queued, all but the last ones if the
\* queue has not the room.
Queue ==
    /\ Made \subseteq DOMAIN place'
    /\ \A i \in Made : place'[i] = place[i]
    /\ \A i \in DOMAIN place' \ Made :
         /\ place'[i] \in {"queued", "dropped"}
         /\ \A j \in DOMAIN place' :
              /\ j \in Made => j < i
              /\ place'[i] = "dropped" /\ j > i => place'[j] = "dropped"

\* A capsule is written into the datagram being built; an unreliable one is done.
Pack(i) ==
    \E p \in {"building", "sent"} : place' = [place EXCEPT ![i] = p]

\* The datagram being built leaves.
Send ==
    place' = [i \in Made |-> IF place[i] = "building" THEN "inFlight" ELSE place[i]]

\* The peer has a datagram's capsules, ...
Acknowledge(capsules) ==
    place' = [i \in Made |-> IF i \in capsules THEN "acked" ELSE place[i]]

\* ... or misses it: they are queued again, as far as there is room.
TakeBack(capsules) ==
    \E refused \in SUBSET capsules :
       place' = [i \in Made |-> IF i \in refused THEN "dropped"
                                ELSE IF i \in capsules THEN "queued"
                                ELSE place[i]]

Next ==
    \/ Queue
    \/ \E i \in In("queued") : Pack(i)
    \/ Send
    \/ \E capsules \in SUBSET In("inFlight") :
         Acknowledge(capsules) \/ TakeBack(capsules)

Spec == Init /\ [][Next]_place
=============================================================================
