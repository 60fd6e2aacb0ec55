------------------------ MODULE RaknetServer_proofs -------------------------
(***************************************************************************)
(* What the connection table never does, for every set of endpoints and    *)
(* of guids.                                                               *)
(***************************************************************************)
EXTENDS RaknetServer, TLAPS

\* An accepted guid is the guid of the entry, and what a thread has in hand is an
\* entry.
TableInv ==
    /\ TypeOK
    /\ \A a \in accepted : a[1] \in Known /\ connections[a[1]].guid = a[2]
    /\ NoneGoneInHand

\* The empty table satisfies the invariant.
LEMMA InitTable == Init => TableInv
  BY DEF Init, TableInv, TypeOK, Known, Idle, Resting, NoneGoneInHand

\* Making an entry keeps every other, and disturbs at most the tick thread.
LEMMA EmplaceKeeps ==
    ASSUME TypeOK, NEW e \in Endpoints, NEW g \in Guids, TryEmplace(e, g)
    PROVE  /\ Known' = Known \cup {e}
           /\ \A other \in Known : connections'[other] = connections[other]
           /\ \A other \in Known' :
                connections'[other] \in [guid : Guids, playerSpawned : BOOLEAN]
           /\ tick' \in {tick} \cup {Iterating(left) : left \in SUBSET Known'}
           /\ process' \in {"running", "crashed", "terminated"}
<1>1. CASE e \in Known
  BY <1>1 DEF TryEmplace, TypeOK, Known
<1>2. CASE e \notin Known
  <2>1. connections' = [other \in Known \cup {e} |->
               IF other = e THEN [guid |-> g, playerSpawned |-> FALSE]
                            ELSE connections[other]]
    BY <1>2 DEF TryEmplace
  <2>2. Known' = Known \cup {e}
    BY <2>1 DEF Known
  <2>3. \A other \in Known : connections'[other] = connections[other]
    BY <1>2, <2>1
  <2>4. connections'[e] = [guid |-> g, playerSpawned |-> FALSE]
    BY <2>1
  <2>5. \A other \in Known' :
          connections'[other] \in [guid : Guids, playerSpawned : BOOLEAN]
    <3> DEFINE Records == [guid : Guids, playerSpawned : BOOLEAN]
    <3>1. [guid |-> g, playerSpawned |-> FALSE] \in Records
      OBVIOUS
    <3>2. \A other \in Known : connections[other] \in Records
      BY DEF TypeOK
    <3> HIDE DEF Records
    <3>3. \A other \in Known' : connections'[other] \in Records
      BY <2>2, <2>3, <2>4, <3>1, <3>2
    <3> QED
      BY <3>3 DEF Records
  <2>6. DisturbTick
    BY <1>2 DEF TryEmplace
  <2>7. /\ tick' \in {tick} \cup {Iterating(left) : left \in SUBSET Known'}
        /\ process' \in {"running", "crashed", "terminated"}
    BY <2>2, <2>6 DEF DisturbTick, TypeOK
  <2> QED
    BY <2>2, <2>3, <2>5, <2>7
<1> QED
  BY <1>1, <1>2

\* Every step of either thread keeps the table's invariant.
LEMMA StepTable == TableInv /\ [Next]_vars => TableInv'
<1> SUFFICES ASSUME TableInv, [Next]_vars PROVE TableInv'
  OBVIOUS
<1> USE DEF TableInv
<1>1. ASSUME NEW e \in Endpoints, NEW g \in Guids, OpenConnectionRequest2(e, g)
      PROVE  TableInv'
  <2>1. /\ Known' = Known \cup {e}
        /\ \A other \in Known : connections'[other] = connections[other]
        /\ \A other \in Known' :
             connections'[other] \in [guid : Guids, playerSpawned : BOOLEAN]
        /\ tick' \in {tick} \cup {Iterating(left) : left \in SUBSET Known'}
        /\ process' \in {"running", "crashed", "terminated"}
    BY <1>1, EmplaceKeeps DEF OpenConnectionRequest2
  <2>2. network' = network /\ accepted' = accepted /\ served' = served
    BY <1>1 DEF OpenConnectionRequest2
  <2>3. Known' \subseteq Endpoints
    BY <2>1 DEF TypeOK
  <2>4. /\ tick' \in {Resting} \cup {Iterating(left) : left \in SUBSET Endpoints}
        /\ tick'.left \subseteq Known'
    BY <2>1, <2>3 DEF TypeOK, Iterating, NoneGoneInHand
  <2>5. TypeOK'
    BY <2>1, <2>2, <2>3, <2>4 DEF TypeOK
  <2> QED
    BY <2>1, <2>2, <2>4, <2>5 DEF NoneGoneInHand
<1>2. ASSUME NEW e \in Endpoints, BeginOnline(e) PROVE TableInv'
  BY <1>2 DEF BeginOnline, TypeOK, Known, Idle, Online, NoneGoneInHand
<1>3. ASSUME NEW g \in Guids, ConnectionRequest(g) PROVE TableInv'
  <2>1. network.endpoint \in Known
    BY <1>3 DEF ConnectionRequest, NoneGoneInHand
  <2> QED
    BY <1>3, <2>1 DEF ConnectionRequest, TypeOK, Known, NoneGoneInHand
<1>4. CASE SpawnPlayer
  <2>1. network.endpoint \in Known
    BY <1>4 DEF SpawnPlayer, NoneGoneInHand
  <2>2. Known' = Known
    BY <1>4 DEF SpawnPlayer, Known
  <2>3. \A e \in Known :
          /\ connections'[e] \in [guid : Guids, playerSpawned : BOOLEAN]
          /\ connections'[e].guid = connections[e].guid
    <3>1. connections' =
            [connections EXCEPT ![network.endpoint].playerSpawned = TRUE]
      BY <1>4 DEF SpawnPlayer
    <3>2. ASSUME NEW e \in Known, e # network.endpoint
          PROVE  connections'[e] = connections[e]
      BY <3>1, <3>2 DEF Known
    <3> DEFINE c == connections[network.endpoint]
    <3>3. connections'[network.endpoint] = [c EXCEPT !.playerSpawned = TRUE]
      BY <2>1, <3>1 DEF Known
    <3>4. c \in [guid : Guids, playerSpawned : BOOLEAN]
      BY <2>1 DEF TypeOK
    <3>5. /\ [c EXCEPT !.playerSpawned = TRUE] \in [guid : Guids, playerSpawned : BOOLEAN]
          /\ [c EXCEPT !.playerSpawned = TRUE].guid = c.guid
      BY <3>4
    <3>6. \A e \in Known : connections[e] \in [guid : Guids, playerSpawned : BOOLEAN]
      BY DEF TypeOK
    <3> HIDE DEF c
    <3>7. connections[network.endpoint] = c
      BY DEF c
    <3>8. ASSUME NEW e \in Known
          PROVE  /\ connections'[e] \in [guid : Guids, playerSpawned : BOOLEAN]
                 /\ connections'[e].guid = connections[e].guid
      <4>1. CASE e = network.endpoint
        BY <3>3, <3>5, <3>7, <4>1
      <4>2. CASE e # network.endpoint
        BY <3>2, <3>6, <4>2
      <4> QED
        BY <4>1, <4>2
    <3> QED
      BY <3>8
  <2>4. TypeOK'
    <3>1. /\ network' = network /\ tick' = tick /\ process' = process
          /\ accepted' = accepted /\ served' = served
      BY <1>4 DEF SpawnPlayer
    <3>2. \A e \in Known' :
            connections'[e] \in [guid : Guids, playerSpawned : BOOLEAN]
      BY <2>2, <2>3
    <3> QED
      BY <2>2, <3>1, <3>2 DEF TypeOK
  <2> QED
    BY <1>4, <2>2, <2>3, <2>4 DEF SpawnPlayer, NoneGoneInHand
<1>5. CASE DisconnectClient
  <2>1. network.endpoint \in Known
    BY <1>5 DEF DisconnectClient, NoneGoneInHand
  <2>2. connections' = connections /\ network' \in {network, Hung(network.endpoint)}
    BY <1>5 DEF DisconnectClient, LockTwice
  <2> QED
    BY <1>5, <2>1, <2>2
    DEF DisconnectClient, LockTwice, TypeOK, Known, Hung, NoneGoneInHand
<1>6. CASE EndOnline
  BY <1>6 DEF EndOnline, TypeOK, Known, Idle, NoneGoneInHand
<1>7. CASE TickBegin
  BY <1>7 DEF TickBegin, TypeOK, Known, Iterating, NoneGoneInHand
<1>8. ASSUME NEW e \in Endpoints, TickVisit(e) PROVE TableInv'
  BY <1>8 DEF TickVisit, After, TypeOK, Known, Iterating, NoneGoneInHand
<1>9. CASE TickEnd
  BY <1>9 DEF TickEnd, TypeOK, Known, Resting, NoneGoneInHand
<1>10. CASE UNCHANGED vars
  BY <1>10 DEF vars, TypeOK, Known, NoneGoneInHand
<1> QED
  BY <1>1, <1>2, <1>3, <1>4, <1>5, <1>6, <1>7, <1>8, <1>9, <1>10
  DEF Next, NetworkStep, TickStep

\* The table, the threads' places and the histories keep their types.
THEOREM ServerTypeCorrect == Spec => []TypeOK
<1>1. TableInv => TypeOK
  BY DEF TableInv
<1> QED
  BY <1>1, InitTable, StepTable, PTL DEF Spec

\* One guid per endpoint is accepted, the first to claim it: connections are
\* never overwritten by try_emplace.
THEOREM OneGuidEver == Spec => []OneGuidAccepted
<1>1. TableInv => OneGuidAccepted
  <2> SUFFICES ASSUME TableInv, NEW a \in accepted, NEW b \in accepted, a[1] = b[1]
               PROVE  a[2] = b[2]
    BY DEF OneGuidAccepted
  <2> QED
    BY DEF TableInv
<1> QED
  BY <1>1, InitTable, StepTable, PTL DEF Spec

\* What the network thread and handleTick have in hand stays in the table, with any
\* number of endpoints and however the loop is disturbed.
THEOREM NothingInHandIsGone == Spec => []NoneGoneInHand
<1>1. TableInv => NoneGoneInHand
  BY DEF TableInv
<1> QED
  BY <1>1, InitTable, StepTable, PTL DEF Spec

\* Connections stay for good, with the guid they were made with.
THEOREM ConnectionsStay == Spec => NeverRemoved
<1> DEFINE Kept ==
      \A e \in Known : e \in Known' /\ connections'[e].guid = connections[e].guid
<1>1. TableInv /\ [Next]_vars => [Kept]_vars
  <2> SUFFICES ASSUME TableInv, [Next]_vars PROVE Kept
    OBVIOUS
  <2>1. ASSUME NEW e \in Endpoints, NEW g \in Guids, TryEmplace(e, g) PROVE Kept
    BY <2>1, EmplaceKeeps DEF TableInv
  <2>2. CASE SpawnPlayer
    BY <2>2 DEF SpawnPlayer, TableInv, TypeOK, Known
  <2>3. CASE connections' = connections
    BY <2>3 DEF Known
  <2>4. \/ \E e \in Endpoints, g \in Guids : TryEmplace(e, g)
        \/ SpawnPlayer \/ connections' = connections
    BY DEF Next, NetworkStep, TickStep, OpenConnectionRequest2, BeginOnline,
       ConnectionRequest, DisconnectClient, LockTwice, EndOnline, TickBegin,
       TickVisit, TickEnd, vars
  <2> QED
    BY <2>1, <2>2, <2>3, <2>4
<1> QED
  BY <1>1, InitTable, StepTable, PTL DEF Spec, NeverRemoved
=============================================================================
