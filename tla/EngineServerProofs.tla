------------------------- MODULE EngineServerProofs -------------------------
(* Machine-checked facts about EngineServer, for every set of connections, *)
(* every assignment of uids and every bound.                               *)
EXTENDS EngineServer, FiniteSetTheorems, TLAPS

(* An enumeration of a finite set of connections is a sequence of them.    *)
LEMMA OrdersAreSequences ==
  ASSUME NEW S \in SUBSET Conn, NEW s \in Orders(S)
  PROVE  /\ s \in Seq(Conn)
         /\ \A i \in 1..Len(s) : s[i] \in S
         /\ Len(s) \in Nat
<1>1. IsFiniteSet(S)
  BY ConnAssumption, FS_Subset
<1>2. Cardinality(S) \in Nat
  BY <1>1, FS_CardinalityType
<1>3. s \in [1..Cardinality(S) -> S]
  BY DEF Orders
<1>4. s \in Seq(S)
  BY <1>2, <1>3
<1>5. s \in Seq(Conn) /\ Len(s) = Cardinality(S)
  BY <1>2, <1>3, <1>4
<1> QED
  BY <1>2, <1>3, <1>5

(* What MessageAllClients does to the state, with the order of the calls   *)
(* of OnClientDisconnect forgotten.                                        *)
LEMMA BroadcastEffect ==
  ASSUME TypeOK, NEW puid \in PlayerUID \union {NoUid}, NEW kind \in MsgKind, NEW ignore,
         NEW uids \in [Conn -> PlayerUID \union {NoUid}],
         MessageAllClients(puid, kind, ignore, uids)
  PROVE  /\ garbage' \in Seq(Conn)
         /\ Len(garbage') \in Nat /\ Len(garbage) <= Len(garbage')
         /\ \A i \in 1..Len(garbage') :
               (i <= Len(garbage) /\ garbage'[i] = garbage[i])
               \/ (garbage'[i] \in Unreachable /\ uids[garbage'[i]] # NoUid)
         /\ gcStale' \in BOOLEAN
         /\ deqConnections' = deqConnections \ Unreachable
         /\ last' \in [Conn -> [PlayerUID -> MsgKind]]
         /\ \A d \in Conn, p \in PlayerUID :
               last'[d][p] = IF d \in Reached(ignore) /\ p = puid THEN kind ELSE last[d][p]
<1> DEFINE S == {d \in Unreachable : Registered(d, uids)}
<1>1. S \in SUBSET Conn
  BY DEF TypeOK, Unreachable
<1>2. PICK gone \in Orders(S) :
        /\ garbage' = garbage \o gone
        /\ gcStale' \in IF pc = "gc" /\ gone # <<>> THEN {gcStale, TRUE} ELSE {gcStale}
  BY DEF MessageAllClients
<1>3. gone \in Seq(Conn) /\ Len(gone) \in Nat /\ \A i \in 1..Len(gone) : gone[i] \in S
  BY <1>1, OrdersAreSequences
<1>4. garbage \in Seq(Conn) /\ Len(garbage) \in Nat
  BY DEF TypeOK
<1>5. garbage' \in Seq(Conn) /\ Len(garbage') = Len(garbage) + Len(gone)
  BY <1>2, <1>3, <1>4
<1>6. ASSUME NEW i \in 1..Len(garbage')
      PROVE  (i <= Len(garbage) /\ garbage'[i] = garbage[i])
             \/ (garbage'[i] \in Unreachable /\ uids[garbage'[i]] # NoUid)
  <2>1. CASE i <= Len(garbage)
    BY <1>2, <1>3, <1>4, <1>5, <2>1
  <2>2. CASE i > Len(garbage)
    <3>1. i - Len(garbage) \in 1..Len(gone)
      BY <1>3, <1>4, <1>5, <2>2
    <3>2. garbage'[i] = gone[i - Len(garbage)]
      BY <1>2, <1>3, <1>4, <1>5, <2>2
    <3> QED
      BY <1>3, <3>1, <3>2 DEF Registered
  <2> QED
    BY <1>4, <2>1, <2>2
<1>7. gcStale' \in BOOLEAN
  BY <1>2 DEF TypeOK
<1>8. /\ last' \in [Conn -> [PlayerUID -> MsgKind]]
      /\ \A d \in Conn, p \in PlayerUID :
            last'[d][p] = IF d \in Reached(ignore) /\ p = puid THEN kind ELSE last[d][p]
  BY DEF MessageAllClients, TypeOK
<1> QED
  BY <1>3, <1>4, <1>5, <1>6, <1>7, <1>8 DEF MessageAllClients

LEMMA EmptySequence ==
  ASSUME NEW S, NEW s, s = <<>>
  PROVE  s \in Seq(S) /\ 0 \in 0..Len(s)
<1>1. s \in Seq(S)
  OBVIOUS
<1>2. Len(s) = 0
  OBVIOUS
<1> QED
  BY <1>1, <1>2

-----------------------------------------------------------------------------
(* Type correctness, with what makes the handler of a game message well    *)
(* defined: the uid it answers under is that of a registered connection.   *)

TypeInv == TypeOK /\ HandlesRegistered

LEMMA TypeInit == Init => TypeInv
<1> SUFFICES ASSUME Init
             PROVE  TypeInv
  OBVIOUS
<1>1. garbage \in Seq(Conn) /\ gcEnd \in 0..Len(garbage)
  BY EmptySequence DEF Init
<1>5. gcPos \in Nat /\ gcPos >= 1
  BY DEF Init
<1>6. gcStale \in BOOLEAN
  BY DEF Init
<1>2. qMessagesIn \in Seq(RegisterMsg \union GameMsg) /\ gameRead \in 0..MaxGame
  BY BoundAssumption DEF Init
<1>3. /\ sock \in [Conn -> SockState] /\ regRead \in [Conn -> BOOLEAN]
      /\ player_uids \in [Conn -> PlayerUID \union {NoUid}]
      /\ connections \in [PlayerUID -> Conn \union {NoConn, NullConn}]
      /\ deqConnections \in SUBSET Conn /\ replies \in SUBSET PlayerUID
  BY DEF Init, SockState
<1>4. last \in [Conn -> [PlayerUID -> MsgKind]]
  BY DEF Init, MsgKind
<1> QED
  BY <1>1, <1>2, <1>3, <1>4, <1>5, <1>6 DEF Init, TypeInv, TypeOK, HandlesRegistered

LEMMA TypeStep == TypeOK /\ HandlesRegistered /\ [Next]_vars => TypeOK'
<1> SUFFICES ASSUME TypeOK, HandlesRegistered, [Next]_vars
             PROVE  TypeOK'
  OBVIOUS
<1> USE DEF asioVars, mainVars
<1>1. ASSUME NEW c \in Conn, WaitForClientConnection(c)
      PROVE  TypeOK'
  BY <1>1 DEF WaitForClientConnection, TypeOK, SockState
<1>2. ASSUME NEW c \in Conn, OnClientValidated(c)
      PROVE  TypeOK'
  BY <1>2 DEF OnClientValidated, TypeOK, SockState
<1>3. ASSUME NEW c \in Conn, SocketClose(c)
      PROVE  TypeOK'
  BY <1>3 DEF SocketClose, TypeOK, SockState
<1>4. ASSUME NEW c \in Conn, NEW msg \in RegisterMsg \union GameMsg,
             AddToIncomingMessageQueue(c, msg),
             regRead' \in [Conn -> BOOLEAN], gameRead' \in 0..MaxGame
      PROVE  TypeOK'
  BY <1>4 DEF AddToIncomingMessageQueue, AfterRead, TypeOK, SockState
<1>5. ASSUME NEW c \in Conn, ReadRegister(c)
      PROVE  TypeOK'
  <2>1. [conn |-> c, id |-> "REGISTER", body |-> PuidOf[c]] \in RegisterMsg \union GameMsg
    BY PuidAssumption DEF RegisterMsg
  <2>2. regRead' \in [Conn -> BOOLEAN] /\ gameRead' \in 0..MaxGame
    BY <1>5 DEF ReadRegister, TypeOK
  <2> QED
    BY <1>4, <1>5, <2>1, <2>2 DEF ReadRegister
<1>6. ASSUME NEW c \in Conn, NEW body \in GameBody, ReadGame(c, body)
      PROVE  TypeOK'
  <2>1. [conn |-> c, id |-> "GAME_MESSAGE", body |-> body] \in RegisterMsg \union GameMsg
    BY DEF GameMsg
  <2>2. regRead' \in [Conn -> BOOLEAN] /\ gameRead' \in 0..MaxGame
    BY <1>6, BoundAssumption DEF ReadGame, TypeOK
  <2> QED
    BY <1>4, <1>6, <2>1, <2>2 DEF ReadGame
<1>7. CASE BeginUpdate
  <2>1. LoopEnd \in 0..Len(garbage)
    BY DEF LoopEnd, TypeOK
  <2>2. gcPos' \in Nat /\ gcPos' >= 1
    BY <1>7 DEF BeginUpdate
  <2> QED
    BY <1>7, <2>1, <2>2 DEF BeginUpdate, TypeOK
<1>8. ASSUME NEW cid \in Conn \union {NoConn}, Collect(cid)
      PROVE  TypeOK'
  <2>1. PuidOfGarbage(cid) \in PlayerUID \union {NoUid}
    BY DEF PuidOfGarbage, TypeOK
  <2>2. UidsWithout(cid) \in [Conn -> PlayerUID \union {NoUid}]
    BY DEF UidsWithout, TypeOK
  <2>3. ConnectionsWithout(PuidOfGarbage(cid)) \in [PlayerUID -> Conn \union {NoConn, NullConn}]
    BY DEF ConnectionsWithout, TypeOK
  <2>4. "CLIENT_DISCONNECTED" \in MsgKind
    BY DEF MsgKind
  <2>5. MessageAllClients(PuidOfGarbage(cid), "CLIENT_DISCONNECTED", NoConn, UidsWithout(cid))
    BY <1>8 DEF Collect
  <2>6. /\ garbage' \in Seq(Conn) /\ Len(garbage') \in Nat /\ Len(garbage) <= Len(garbage')
        /\ gcStale' \in BOOLEAN
        /\ deqConnections' = deqConnections \ Unreachable
        /\ last' \in [Conn -> [PlayerUID -> MsgKind]]
    BY <2>1, <2>2, <2>4, <2>5, BroadcastEffect
  <2> QED
    BY <1>8, <2>2, <2>3, <2>6 DEF Collect, TypeOK
<1>9. CASE ClearGarbage
  <2>1. garbage' \in Seq(Conn) /\ gcEnd' \in 0..Len(garbage')
    BY <1>9, EmptySequence DEF ClearGarbage
  <2>2. gcPos' \in Nat /\ gcPos' >= 1
    BY <1>9 DEF ClearGarbage
  <2>3. gcStale' \in BOOLEAN
    BY <1>9 DEF ClearGarbage
  <2> QED
    BY <1>9, <2>1, <2>2, <2>3 DEF ClearGarbage, TypeOK
<1>10. CASE OnRegister
  <2> DEFINE c == Head(qMessagesIn).conn
             puid == Head(qMessagesIn).body
             uids == [player_uids EXCEPT ![c] = puid]
  <2>1. Head(qMessagesIn) \in RegisterMsg /\ Tail(qMessagesIn) \in Seq(RegisterMsg \union GameMsg)
    BY <1>10 DEF OnRegister, Incoming, TypeOK, GameMsg
  <2>2. c \in Conn /\ puid \in PlayerUID
    BY <2>1 DEF RegisterMsg
  <2>3. CASE Registered(c, player_uids)
    BY <1>10, <2>1, <2>3 DEF OnRegister, TypeOK
  <2>4. CASE ~Registered(c, player_uids)
    <3>1. uids \in [Conn -> PlayerUID \union {NoUid}]
      BY <2>2 DEF TypeOK
    <3>2. MessageAllClients(puid, "CLIENT_CONNECTED", c, uids)
      BY <1>10, <2>4 DEF OnRegister
    <3>3. "CLIENT_CONNECTED" \in MsgKind
      BY DEF MsgKind
    <3>4. /\ garbage' \in Seq(Conn) /\ Len(garbage') \in Nat /\ Len(garbage) <= Len(garbage')
          /\ gcStale' \in BOOLEAN
          /\ deqConnections' = deqConnections \ Unreachable
          /\ last' \in [Conn -> [PlayerUID -> MsgKind]]
      BY <2>2, <3>1, <3>2, <3>3, BroadcastEffect
    <3>5. player_uids' = uids /\ connections' = [connections EXCEPT ![puid] = c]
      BY <1>10, <2>4 DEF OnRegister, ConnectionsWith
    <3>6. connections' \in [PlayerUID -> Conn \union {NoConn, NullConn}]
      BY <2>2, <3>5 DEF TypeOK
    <3> QED
      BY <1>10, <2>1, <3>1, <3>4, <3>5, <3>6 DEF OnRegister, TypeOK
  <2> QED
    BY <2>3, <2>4
<1>11. CASE DropUnregistered
  BY <1>11 DEF DropUnregistered, Incoming, TypeOK
<1>12. ASSUME NEW others \in SUBSET PlayerUID, OnGameMessage(others)
       PROVE  TypeOK'
  <2>1. Head(qMessagesIn) \in GameMsg /\ Tail(qMessagesIn) \in Seq(RegisterMsg \union GameMsg)
    BY <1>12 DEF OnGameMessage, Incoming, TypeOK, RegisterMsg
  <2>2. Head(qMessagesIn).conn \in Conn
    BY <2>1 DEF GameMsg
  <2> QED
    BY <1>12, <2>1, <2>2 DEF OnGameMessage, TypeOK
<1>13. ASSUME NEW other \in replies, Send(other)
       PROVE  TypeOK'
  <2>1. CASE Target \in {NoConn, NullConn}
    BY <1>13, <2>1 DEF Send, TypeOK
  <2>2. CASE ~(Target \in {NoConn, NullConn})
    <3>1. MessageClient(Target, other, "GAME_MESSAGE")
      BY <1>13, <2>2 DEF Send
    <3>2. other \in PlayerUID
      BY DEF TypeOK
    <3>3. garbage' \in Seq(Conn) /\ Len(garbage) <= Len(garbage')
      <4>1. CASE ~IsConnected(Target) /\ Registered(Target, player_uids)
        <5>1. Target \in Conn
          BY <2>2, <1>13 DEF Target, TypeOK, Send, HandlesRegistered, Registered
        <5> QED
          BY <3>1, <4>1, <5>1 DEF MessageClient, TypeOK
      <4>2. CASE ~(~IsConnected(Target) /\ Registered(Target, player_uids))
        BY <3>1, <4>2 DEF MessageClient, TypeOK
      <4> QED
        BY <4>1, <4>2
    <3>4. last' \in [Conn -> [PlayerUID -> MsgKind]]
      BY <3>1, <3>2 DEF MessageClient, TypeOK, MsgKind
    <3> QED
      BY <1>13, <2>2, <3>1, <3>3, <3>4 DEF Send, MessageClient, TypeOK
  <2> QED
    BY <2>1, <2>2
<1>14. CASE SendAll
  <2>1. player_uids[current] \in PlayerUID \union {NoUid}
    BY <1>14 DEF SendAll, TypeOK
  <2>2. MessageAllClients(player_uids[current], "GAME_MESSAGE", Target, player_uids)
    BY <1>14 DEF SendAll
  <2>3. /\ garbage' \in Seq(Conn) /\ Len(garbage') \in Nat /\ Len(garbage) <= Len(garbage')
        /\ gcStale' \in BOOLEAN
        /\ deqConnections' = deqConnections \ Unreachable
        /\ last' \in [Conn -> [PlayerUID -> MsgKind]]
    <3>1. "GAME_MESSAGE" \in MsgKind /\ player_uids \in [Conn -> PlayerUID \union {NoUid}]
      BY DEF MsgKind, TypeOK
    <3> QED
      BY <2>1, <2>2, <3>1, BroadcastEffect
  <2>4. connections' \in [PlayerUID -> Conn \union {NoConn, NullConn}]
    BY <1>14 DEF SendAll, SendAllConnections, TypeOK
  <2> QED
    BY <1>14, <2>3, <2>4 DEF SendAll, TypeOK
<1>15. CASE IgnoreGameMessage
  BY <1>15 DEF IgnoreGameMessage, TypeOK
<1>16. CASE EndUpdate
  BY <1>16 DEF EndUpdate, TypeOK
<1>17. CASE UNCHANGED vars
  BY <1>17 DEF vars, TypeOK
<1>18. CASE AsioThread
  BY <1>1, <1>2, <1>3, <1>5, <1>6, <1>18 DEF AsioThread
<1>19. CASE MainThread
  BY <1>7, <1>8, <1>9, <1>10, <1>11, <1>12, <1>13, <1>14, <1>15, <1>16, <1>19 DEF MainThread
<1> QED
  BY <1>17, <1>18, <1>19 DEF Next

LEMMA HandlerStep == TypeOK /\ HandlesRegistered /\ [Next]_vars => HandlesRegistered'
<1> SUFFICES ASSUME TypeOK, HandlesRegistered, [Next]_vars
             PROVE  HandlesRegistered'
  OBVIOUS
<1> USE DEF asioVars, mainVars, HandlesRegistered, Registered
<1>1. CASE AsioThread
  BY <1>1 DEF AsioThread, WaitForClientConnection, OnClientValidated, SocketClose,
              ReadRegister, ReadGame, AddToIncomingMessageQueue
<1>2. CASE BeginUpdate \/ ClearGarbage \/ EndUpdate \/ IgnoreGameMessage \/ SendAll
  BY <1>2 DEF BeginUpdate, ClearGarbage, EndUpdate, IgnoreGameMessage, SendAll
<1>3. ASSUME NEW cid \in Conn \union {NoConn}, Collect(cid)
      PROVE  HandlesRegistered'
  BY <1>3 DEF Collect
<1>4. CASE OnRegister
  BY <1>4 DEF OnRegister, Incoming
<1>5. CASE DropUnregistered
  BY <1>5 DEF DropUnregistered, Incoming
<1>6. ASSUME NEW others \in SUBSET PlayerUID, OnGameMessage(others)
      PROVE  HandlesRegistered'
  BY <1>6 DEF OnGameMessage
<1>7. ASSUME NEW other \in replies, Send(other)
      PROVE  HandlesRegistered'
  BY <1>7 DEF Send
<1>8. CASE UNCHANGED vars
  BY <1>8 DEF vars
<1> QED
  BY <1>1, <1>2, <1>3, <1>4, <1>5, <1>6, <1>7, <1>8 DEF Next, MainThread

(* Every variable keeps to its type.                                       *)
THEOREM TypeCorrect == Spec => [](TypeOK /\ HandlesRegistered)
<1>1. Init => TypeInv
  BY TypeInit
<1>2. TypeInv /\ [Next]_vars => TypeInv'
  BY TypeStep, HandlerStep DEF TypeInv
<1>3. TypeInv => TypeOK /\ HandlesRegistered
  BY DEF TypeInv
<1> QED
  BY <1>1, <1>2, <1>3, PTL DEF Spec

-----------------------------------------------------------------------------
(* The two tables.  TablesAgree is not inductive by itself: a REGISTER     *)
(* message must carry the sender's own uid, and send_all must never have   *)
(* left an empty pointer under a uid.                                      *)

OwnUids == \A c \in Conn : player_uids[c] \in {NoUid, PuidOf[c]}

OwnRegisters ==
  \A i \in 1..Len(qMessagesIn) :
    qMessagesIn[i].id = "REGISTER" => qMessagesIn[i].body = PuidOf[qMessagesIn[i].conn]

NoEmptyPointer == \A p \in PlayerUID : connections[p] # NullConn

TableInv == OwnUids /\ OwnRegisters /\ NoEmptyPointer /\ TablesAgree /\ ServerStaysUp

LEMMA TableInit == Init => TableInv
BY PuidAssumption, ConnAssumption, NullAssumption
   DEF Init, TableInv, OwnUids, OwnRegisters, NoEmptyPointer, TablesAgree, ServerStaysUp

(* Handing over the front of the queue, or adding one, keeps it honest.    *)
LEMMA HonestTail ==
  ASSUME TypeOK, OwnRegisters, qMessagesIn # <<>>, qMessagesIn' = Tail(qMessagesIn)
  PROVE  OwnRegisters'
<1>1. /\ qMessagesIn \in Seq(RegisterMsg \union GameMsg)
      /\ Len(qMessagesIn') = Len(qMessagesIn) - 1
      /\ \A i \in 1..Len(qMessagesIn') : qMessagesIn'[i] = qMessagesIn[i + 1]
      /\ \A i \in 1..Len(qMessagesIn') : i + 1 \in 1..Len(qMessagesIn)
  BY DEF TypeOK
<1> QED
  BY <1>1 DEF OwnRegisters

LEMMA HonestAppend ==
  ASSUME TypeOK, OwnRegisters, NEW msg \in RegisterMsg \union GameMsg,
         msg.id = "REGISTER" => msg.body = PuidOf[msg.conn],
         qMessagesIn' = Append(qMessagesIn, msg)
  PROVE  OwnRegisters'
<1>1. /\ qMessagesIn \in Seq(RegisterMsg \union GameMsg)
      /\ Len(qMessagesIn') = Len(qMessagesIn) + 1
      /\ \A i \in 1..Len(qMessagesIn) : qMessagesIn'[i] = qMessagesIn[i]
      /\ qMessagesIn'[Len(qMessagesIn) + 1] = msg
  BY DEF TypeOK
<1>2. Len(qMessagesIn) \in Nat
  BY <1>1
<1>3. ASSUME NEW i \in 1..Len(qMessagesIn')
      PROVE  i \in 1..Len(qMessagesIn) \/ i = Len(qMessagesIn) + 1
  BY <1>1, <1>2
<1> QED
  BY <1>1, <1>3 DEF OwnRegisters

LEMMA TableStep ==
  ASSUME UniquePuids, TypeOK, HandlesRegistered, TableInv, [Next]_vars
  PROVE  TableInv'
<1> USE DEF asioVars, mainVars, Registered
<1>a. OwnUids /\ OwnRegisters /\ NoEmptyPointer /\ TablesAgree /\ ServerStaysUp
  BY DEF TableInv
<1>b. ASSUME UNCHANGED <<player_uids, connections, pc, qMessagesIn>>
      PROVE  TableInv'
  BY <1>a, <1>b DEF TableInv, OwnUids, OwnRegisters, NoEmptyPointer, TablesAgree, ServerStaysUp
<1>1. ASSUME NEW c \in Conn, ReadRegister(c)
      PROVE  TableInv'
  <2> DEFINE msg == [conn |-> c, id |-> "REGISTER", body |-> PuidOf[c]]
  <2>1. msg \in RegisterMsg \union GameMsg
    BY PuidAssumption DEF RegisterMsg
  <2>2. qMessagesIn' = Append(qMessagesIn, msg) /\ UNCHANGED <<player_uids, connections, pc>>
    BY <1>1 DEF ReadRegister, AddToIncomingMessageQueue
  <2>3. OwnRegisters'
    BY <1>a, <2>1, <2>2, HonestAppend
  <2> QED
    BY <1>a, <2>2, <2>3 DEF TableInv, OwnUids, NoEmptyPointer, TablesAgree, ServerStaysUp
<1>2. ASSUME NEW c \in Conn, NEW body \in GameBody, ReadGame(c, body)
      PROVE  TableInv'
  <2> DEFINE msg == [conn |-> c, id |-> "GAME_MESSAGE", body |-> body]
  <2>1. msg \in RegisterMsg \union GameMsg
    BY DEF GameMsg
  <2>2. qMessagesIn' = Append(qMessagesIn, msg) /\ UNCHANGED <<player_uids, connections, pc>>
    BY <1>2 DEF ReadGame, AddToIncomingMessageQueue
  <2>3. OwnRegisters'
    BY <1>a, <2>1, <2>2, HonestAppend
  <2> QED
    BY <1>a, <2>2, <2>3 DEF TableInv, OwnUids, NoEmptyPointer, TablesAgree, ServerStaysUp
<1>3. ASSUME NEW cid \in Conn \union {NoConn}, Collect(cid)
      PROVE  TableInv'
  <2> DEFINE puid == PuidOfGarbage(cid)
  <2>1. /\ player_uids' = [c \in Conn |-> IF c = cid THEN NoUid ELSE player_uids[c]]
        /\ connections' = [p \in PlayerUID |-> IF p = puid THEN NoConn ELSE connections[p]]
        /\ UNCHANGED <<qMessagesIn, pc>>
    BY <1>3 DEF Collect, UidsWithout, ConnectionsWithout
  <2>2. OwnUids' /\ OwnRegisters' /\ NoEmptyPointer' /\ ServerStaysUp'
    BY <1>a, <2>1, NullAssumption DEF OwnUids, OwnRegisters, NoEmptyPointer, ServerStaysUp
  <2>3. ASSUME NEW c \in Conn, NEW p \in PlayerUID
        PROVE  player_uids'[c] = p <=> connections'[p] = c
    <3>1. CASE c = cid
      BY <1>a, <2>1, <3>1, PuidAssumption, ConnAssumption DEF TablesAgree, PuidOfGarbage
    <3>2. CASE c # cid /\ p = puid
      <4>1. cid \in Conn /\ player_uids[cid] = p
        BY <3>2, PuidAssumption DEF PuidOfGarbage
      <4>2. player_uids[c] # p
        BY <1>a, <3>2, <4>1 DEF TablesAgree
      <4> QED
        BY <2>1, <3>2, <4>2, ConnAssumption
    <3>3. CASE c # cid /\ p # puid
      BY <1>a, <2>1, <3>3 DEF TablesAgree
    <3> QED
      BY <3>1, <3>2, <3>3
  <2> QED
    BY <2>2, <2>3 DEF TableInv, TablesAgree
<1>4. CASE OnRegister
  <2> DEFINE c == Head(qMessagesIn).conn
             puid == Head(qMessagesIn).body
  <2>1. qMessagesIn # <<>> /\ qMessagesIn' = Tail(qMessagesIn) /\ UNCHANGED pc
    BY <1>4 DEF OnRegister, Incoming
  <2>2. Head(qMessagesIn) = qMessagesIn[1] /\ 1 \in 1..Len(qMessagesIn) /\ Head(qMessagesIn).id = "REGISTER"
    BY <1>4, <2>1 DEF TypeOK, OnRegister, Incoming
  <2>3. Head(qMessagesIn) \in RegisterMsg
    BY <2>2 DEF TypeOK, GameMsg
  <2>4. c \in Conn /\ puid \in PlayerUID /\ puid = PuidOf[c]
    BY <1>a, <2>2, <2>3 DEF RegisterMsg, OwnRegisters
  <2>5. OwnRegisters'
    BY <1>a, <2>1, HonestTail
  <2>6. CASE Registered(c, player_uids)
    <3>1. UNCHANGED <<player_uids, connections>>
      BY <1>4, <2>6 DEF OnRegister
    <3> QED
      BY <1>a, <2>1, <2>5, <3>1 DEF TableInv, OwnUids, NoEmptyPointer, TablesAgree, ServerStaysUp
  <2>7. CASE ~Registered(c, player_uids)
    <3>1. /\ player_uids' = [player_uids EXCEPT ![c] = puid]
          /\ connections' = [connections EXCEPT ![puid] = c]
      BY <1>4, <2>7 DEF OnRegister, ConnectionsWith
    <3>2. player_uids \in [Conn -> PlayerUID \union {NoUid}] /\ connections \in [PlayerUID -> Conn \union {NoConn, NullConn}]
      BY DEF TypeOK
    <3>3. OwnUids' /\ NoEmptyPointer' /\ ServerStaysUp'
      BY <1>a, <2>1, <2>4, <3>1, <3>2, ConnAssumption DEF OwnUids, NoEmptyPointer, ServerStaysUp
    <3>4. ASSUME NEW d \in Conn, NEW p \in PlayerUID
          PROVE  player_uids'[d] = p <=> connections'[p] = d
      <4>1. CASE d = c
        BY <1>a, <2>4, <2>7, <3>1, <3>2, <4>1, PuidAssumption DEF TablesAgree
      <4>2. CASE d # c /\ p = puid
        <5>1. player_uids[d] # p
          BY <1>a, <2>4, <4>2, PuidAssumption DEF OwnUids, UniquePuids
        <5> QED
          BY <2>4, <3>1, <3>2, <4>2, <5>1
      <4>3. CASE d # c /\ p # puid
        BY <1>a, <2>4, <3>1, <3>2, <4>3 DEF TablesAgree
      <4> QED
        BY <4>1, <4>2, <4>3
    <3> QED
      BY <2>5, <3>3, <3>4 DEF TableInv, TablesAgree
  <2> QED
    BY <2>6, <2>7
<1>5. ASSUME qMessagesIn # <<>>, qMessagesIn' = Tail(qMessagesIn), pc' # "crashed",
             UNCHANGED <<player_uids, connections>>
      PROVE  TableInv'
  <2>1. OwnRegisters'
    BY <1>a, <1>5, HonestTail
  <2> QED
    BY <1>a, <1>5, <2>1 DEF TableInv, OwnUids, NoEmptyPointer, TablesAgree, ServerStaysUp
<1>6. CASE DropUnregistered
  BY <1>5, <1>6 DEF DropUnregistered, Incoming
<1>7. ASSUME NEW others \in SUBSET PlayerUID, OnGameMessage(others)
      PROVE  TableInv'
  BY <1>5, <1>7 DEF OnGameMessage, Incoming
<1>8. ASSUME pc = "handler"
      PROVE  Target = current /\ current \in Conn /\ player_uids[current] \in PlayerUID
  BY <1>a, <1>8 DEF TypeOK, HandlesRegistered, Target, TablesAgree
<1>9. ASSUME NEW other \in replies, Send(other)
      PROVE  TableInv'
  <2>1. ~(Target \in {NoConn, NullConn})
    BY <1>8, <1>9, ConnAssumption DEF Send
  <2>2. UNCHANGED <<player_uids, connections, pc, qMessagesIn>>
    BY <1>9, <2>1 DEF Send
  <2> QED
    BY <1>b, <2>2
<1>10. CASE SendAll
  <2>1. SendAllConnections = connections
    BY <1>8, <1>10, ConnAssumption DEF SendAll, SendAllConnections, Target, TypeOK
  <2>2. UNCHANGED <<player_uids, connections, qMessagesIn>> /\ pc' = "drain"
    BY <1>10, <2>1 DEF SendAll
  <2> QED
    BY <1>a, <2>2 DEF TableInv, OwnUids, OwnRegisters, NoEmptyPointer, TablesAgree, ServerStaysUp
<1>11. ASSUME UNCHANGED <<player_uids, connections, qMessagesIn>>, pc' # "crashed"
       PROVE  TableInv'
  BY <1>a, <1>11 DEF TableInv, OwnUids, OwnRegisters, NoEmptyPointer, TablesAgree, ServerStaysUp
<1>12. CASE BeginUpdate \/ ClearGarbage \/ EndUpdate \/ IgnoreGameMessage
  BY <1>11, <1>12 DEF BeginUpdate, ClearGarbage, EndUpdate, IgnoreGameMessage
<1>13. ASSUME NEW c \in Conn, WaitForClientConnection(c) \/ OnClientValidated(c) \/ SocketClose(c)
       PROVE  TableInv'
  BY <1>b, <1>13 DEF WaitForClientConnection, OnClientValidated, SocketClose
<1>14. CASE UNCHANGED vars
  BY <1>b, <1>14 DEF vars
<1>15. CASE AsioThread
  BY <1>1, <1>2, <1>13, <1>15 DEF AsioThread
<1>16. CASE MainThread
  BY <1>3, <1>4, <1>6, <1>7, <1>9, <1>10, <1>12, <1>16 DEF MainThread
<1> QED
  BY <1>14, <1>15, <1>16 DEF Next

(* While no two clients share a uid, the tables stay inverse to each other *)
(* and neither the ASSERT of Server::send nor an empty pointer is met.     *)
THEOREM TablesCorrect == ASSUME UniquePuids PROVE Spec => [](TablesAgree /\ ServerStaysUp)
<1> DEFINE IInv == TypeOK /\ HandlesRegistered /\ TableInv
<1>1. Init => IInv
  BY TypeInit, TableInit DEF TypeInv
<1>2. IInv /\ [Next]_vars => IInv'
  BY TypeStep, HandlerStep, TableStep
<1>3. IInv => TablesAgree /\ ServerStaysUp
  BY DEF TableInv
<1> QED
  BY <1>1, <1>2, <1>3, PTL DEF Spec

-----------------------------------------------------------------------------
(* What the garbage vector holds.  Every connection the server keeps       *)
(* anywhere has been accepted, so a socket that is not connected is closed *)
(* for good.                                                               *)

GarbageIsClosed == \A i \in 1..Len(garbage) : sock[garbage[i]] \in {"shut", "closed"}

Accepted ==
  /\ \A c \in Conn : c \in deqConnections \/ Registered(c, player_uids) => sock[c] # "none"
  /\ \A p \in PlayerUID : connections[p] \in Conn => sock[connections[p]] # "none"
  /\ \A i \in 1..Len(qMessagesIn) : sock[qMessagesIn[i].conn] # "none"

SocketInv == GarbageIsClosed /\ Accepted

LEMMA SocketInit == Init => SocketInv
BY ConnAssumption DEF Init, SocketInv, GarbageIsClosed, Accepted, Registered

(* A socket never opens twice.                                             *)
LEMMA SocketsOnlyClose ==
  ASSUME TypeOK, [Next]_vars, NEW c \in Conn
  PROVE  /\ sock[c] # "none" => sock'[c] # "none"
         /\ sock[c] \in {"shut", "closed"} => sock'[c] \in {"shut", "closed"}
<1> USE DEF asioVars, mainVars, TypeOK, SockState
<1>1. ASSUME NEW d \in Conn, WaitForClientConnection(d) \/ OnClientValidated(d) \/ SocketClose(d)
      PROVE  /\ sock[c] # "none" => sock'[c] # "none"
             /\ sock[c] \in {"shut", "closed"} => sock'[c] \in {"shut", "closed"}
  BY <1>1 DEF WaitForClientConnection, OnClientValidated, SocketClose
<1>2. ASSUME NEW d \in Conn, sock' = AfterRead(d)
      PROVE  /\ sock[c] # "none" => sock'[c] # "none"
             /\ sock[c] \in {"shut", "closed"} => sock'[c] \in {"shut", "closed"}
  BY <1>2 DEF AfterRead
<1>3. CASE AsioThread
  BY <1>1, <1>2, <1>3 DEF AsioThread, ReadRegister, ReadGame, AddToIncomingMessageQueue
<1>4. CASE MainThread
  <2>1. UNCHANGED sock
    BY <1>4 DEF MainThread, BeginUpdate, Collect, ClearGarbage, OnRegister, DropUnregistered,
                OnGameMessage, Send, SendAll, IgnoreGameMessage, EndUpdate
  <2> QED
    BY <2>1
<1>5. CASE UNCHANGED vars
  BY <1>5 DEF vars
<1> QED
  BY <1>3, <1>4, <1>5 DEF Next

(* MessageAllClients pushes only closed connections.                       *)
LEMMA BroadcastGarbage ==
  ASSUME TypeOK, SocketInv, NEW puid \in PlayerUID \union {NoUid}, NEW kind \in MsgKind, NEW ignore,
         NEW uids \in [Conn -> PlayerUID \union {NoUid}],
         MessageAllClients(puid, kind, ignore, uids), UNCHANGED sock
  PROVE  GarbageIsClosed' /\ deqConnections' \subseteq deqConnections
<1>1. /\ Len(garbage') \in Nat
      /\ \A i \in 1..Len(garbage') :
            (i <= Len(garbage) /\ garbage'[i] = garbage[i])
            \/ (garbage'[i] \in Unreachable /\ uids[garbage'[i]] # NoUid)
      /\ deqConnections' = deqConnections \ Unreachable
  <2>1. Len(garbage') \in Nat /\ deqConnections' = deqConnections \ Unreachable
    BY BroadcastEffect
  <2>2. \A i \in 1..Len(garbage') :
            (i <= Len(garbage) /\ garbage'[i] = garbage[i])
            \/ (garbage'[i] \in Unreachable /\ uids[garbage'[i]] # NoUid)
    BY BroadcastEffect
  <2> QED
    BY <2>1, <2>2
<1>0. Len(garbage) \in Nat
  BY DEF TypeOK
<1>2. \A d \in Unreachable : sock[d] \in {"shut", "closed"}
  BY DEF Unreachable, IsConnected, SocketInv, Accepted, TypeOK, SockState
<1>3. ASSUME NEW i \in 1..Len(garbage')
      PROVE  sock'[garbage'[i]] \in {"shut", "closed"}
  <2>1. CASE i <= Len(garbage) /\ garbage'[i] = garbage[i]
    BY <1>0, <1>1, <2>1 DEF SocketInv, GarbageIsClosed
  <2>2. CASE garbage'[i] \in Unreachable
    BY <1>2, <2>2
  <2> QED
    BY <1>1, <2>1, <2>2
<1> QED
  BY <1>1, <1>3 DEF GarbageIsClosed

LEMMA SocketStep ==
  ASSUME TypeOK, HandlesRegistered, SocketInv, [Next]_vars
  PROVE  SocketInv'
<1> USE DEF asioVars, mainVars, Registered
<1>a. GarbageIsClosed /\ Accepted
  BY DEF SocketInv
<1>b. \A c \in Conn : /\ sock[c] # "none" => sock'[c] # "none"
                      /\ sock[c] \in {"shut", "closed"} => sock'[c] \in {"shut", "closed"}
  BY SocketsOnlyClose
<1>c. ASSUME UNCHANGED garbage
      PROVE  GarbageIsClosed'
  <2>1. \A i \in 1..Len(garbage) : garbage[i] \in Conn
    BY DEF TypeOK
  <2> QED
    BY <1>a, <1>b, <1>c, <2>1 DEF GarbageIsClosed
<1>d. \A i \in 1..Len(qMessagesIn) : qMessagesIn[i].conn \in Conn
  BY DEF TypeOK, RegisterMsg, GameMsg
<1>e. ASSUME deqConnections' \subseteq deqConnections, UNCHANGED <<player_uids, connections, qMessagesIn>>
      PROVE  Accepted'
  BY <1>a, <1>b, <1>d, <1>e DEF Accepted
<1>f. ASSUME NEW msg \in RegisterMsg \union GameMsg, qMessagesIn' = Append(qMessagesIn, msg),
             sock[msg.conn] # "none", UNCHANGED <<deqConnections, player_uids, connections, garbage>>
      PROVE  SocketInv'
  <2>1. /\ Len(qMessagesIn) \in Nat /\ Len(qMessagesIn') = Len(qMessagesIn) + 1
        /\ \A i \in 1..Len(qMessagesIn) : qMessagesIn'[i] = qMessagesIn[i]
        /\ qMessagesIn'[Len(qMessagesIn) + 1] = msg
    BY <1>f DEF TypeOK
  <2>2. \A i \in 1..Len(qMessagesIn') : i \in 1..Len(qMessagesIn) \/ i = Len(qMessagesIn) + 1
    BY <2>1
  <2>3. msg.conn \in Conn
    BY DEF RegisterMsg, GameMsg
  <2>4. \A i \in 1..Len(qMessagesIn') : sock'[qMessagesIn'[i].conn] # "none"
    BY <1>a, <1>b, <1>d, <1>f, <2>1, <2>2, <2>3 DEF Accepted
  <2> QED
    BY <1>a, <1>b, <1>c, <1>f, <2>4 DEF SocketInv, Accepted
<1>g. ASSUME qMessagesIn # <<>>, qMessagesIn' = Tail(qMessagesIn), UNCHANGED sock
      PROVE  /\ Head(qMessagesIn).conn \in Conn /\ sock[Head(qMessagesIn).conn] # "none"
             /\ \A i \in 1..Len(qMessagesIn') : sock'[qMessagesIn'[i].conn] # "none"
  <2>1. /\ Len(qMessagesIn') = Len(qMessagesIn) - 1
        /\ \A i \in 1..Len(qMessagesIn') : qMessagesIn'[i] = qMessagesIn[i + 1]
        /\ \A i \in 1..Len(qMessagesIn') : i + 1 \in 1..Len(qMessagesIn)
    BY <1>g DEF TypeOK
  <2>2. Head(qMessagesIn) = qMessagesIn[1] /\ 1 \in 1..Len(qMessagesIn)
    BY <1>g DEF TypeOK
  <2> QED
    BY <1>a, <1>d, <1>g, <2>1, <2>2 DEF Accepted
<1>1. ASSUME NEW c \in Conn, WaitForClientConnection(c)
      PROVE  SocketInv'
  BY <1>a, <1>b, <1>c, <1>d, <1>1 DEF WaitForClientConnection, SocketInv, Accepted, TypeOK
<1>2. ASSUME NEW c \in Conn, OnClientValidated(c) \/ SocketClose(c)
      PROVE  SocketInv'
  BY <1>c, <1>e, <1>2 DEF OnClientValidated, SocketClose, SocketInv
<1>3. ASSUME NEW c \in Conn, ReadRegister(c)
      PROVE  SocketInv'
  <2> DEFINE msg == [conn |-> c, id |-> "REGISTER", body |-> PuidOf[c]]
  <2>1. msg \in RegisterMsg \union GameMsg
    BY PuidAssumption DEF RegisterMsg
  <2> QED
    BY <1>f, <1>3, <2>1 DEF ReadRegister, AddToIncomingMessageQueue
<1>4. ASSUME NEW c \in Conn, NEW body \in GameBody, ReadGame(c, body)
      PROVE  SocketInv'
  <2> DEFINE msg == [conn |-> c, id |-> "GAME_MESSAGE", body |-> body]
  <2>1. msg \in RegisterMsg \union GameMsg
    BY DEF GameMsg
  <2> QED
    BY <1>f, <1>4, <2>1 DEF ReadGame, AddToIncomingMessageQueue
<1>5. CASE BeginUpdate \/ IgnoreGameMessage \/ EndUpdate
  BY <1>c, <1>e, <1>5 DEF BeginUpdate, IgnoreGameMessage, EndUpdate, SocketInv
<1>6. ASSUME NEW cid \in Conn \union {NoConn}, Collect(cid)
      PROVE  SocketInv'
  <2>1. PuidOfGarbage(cid) \in PlayerUID \union {NoUid} /\ UidsWithout(cid) \in [Conn -> PlayerUID \union {NoUid}]
    BY DEF PuidOfGarbage, UidsWithout, TypeOK
  <2>2. GarbageIsClosed' /\ deqConnections' \subseteq deqConnections
    BY <1>6, <2>1, BroadcastGarbage DEF Collect, MsgKind
  <2>3. Accepted'
    BY <1>a, <1>6, <2>2, ConnAssumption DEF Collect, UidsWithout, ConnectionsWithout, Accepted, TypeOK
  <2> QED
    BY <2>2, <2>3 DEF SocketInv
<1>7. CASE ClearGarbage
  <2>1. GarbageIsClosed'
    BY <1>7 DEF ClearGarbage, GarbageIsClosed
  <2> QED
    BY <1>e, <1>7, <2>1 DEF ClearGarbage, SocketInv
<1>8. CASE OnRegister
  <2> DEFINE c == Head(qMessagesIn).conn
             puid == Head(qMessagesIn).body
             uids == [player_uids EXCEPT ![c] = puid]
  <2>1. qMessagesIn # <<>> /\ qMessagesIn' = Tail(qMessagesIn) /\ UNCHANGED sock
    BY <1>8 DEF OnRegister, Incoming
  <2>2. /\ c \in Conn /\ sock[c] # "none"
        /\ \A i \in 1..Len(qMessagesIn') : sock'[qMessagesIn'[i].conn] # "none"
    BY <1>g, <2>1
  <2>3. CASE Registered(c, player_uids)
    <3>1. UNCHANGED <<deqConnections, player_uids, connections, garbage>>
      BY <1>8, <2>3 DEF OnRegister
    <3> QED
      BY <1>a, <1>c, <2>1, <2>2, <3>1 DEF SocketInv, Accepted
  <2>4. CASE ~Registered(c, player_uids)
    <3>1. /\ player_uids' = uids
          /\ connections' = [connections EXCEPT ![puid] = c]
          /\ MessageAllClients(puid, "CLIENT_CONNECTED", c, uids)
      BY <1>8, <2>4 DEF OnRegister, ConnectionsWith
    <3>2. puid \in PlayerUID
      <4>1. Head(qMessagesIn) \in RegisterMsg
        BY <1>8 DEF OnRegister, Incoming, TypeOK, GameMsg
      <4> QED
        BY <4>1 DEF RegisterMsg
    <3>3. uids \in [Conn -> PlayerUID \union {NoUid}]
      BY <2>2, <3>2 DEF TypeOK
    <3>4. GarbageIsClosed' /\ deqConnections' \subseteq deqConnections
      BY <2>1, <3>1, <3>2, <3>3, BroadcastGarbage DEF MsgKind
    <3>5. Accepted'
      BY <1>a, <2>1, <2>2, <3>1, <3>2, <3>4 DEF Accepted, TypeOK
    <3> QED
      BY <3>4, <3>5 DEF SocketInv
  <2> QED
    BY <2>3, <2>4
<1>9. ASSUME qMessagesIn # <<>>, qMessagesIn' = Tail(qMessagesIn),
             UNCHANGED <<sock, deqConnections, player_uids, connections, garbage>>
      PROVE  SocketInv'
  BY <1>a, <1>c, <1>g, <1>9 DEF SocketInv, Accepted
<1>10. CASE DropUnregistered
  BY <1>9, <1>10 DEF DropUnregistered, Incoming
<1>11. ASSUME NEW others \in SUBSET PlayerUID, OnGameMessage(others)
       PROVE  SocketInv'
  BY <1>9, <1>11 DEF OnGameMessage, Incoming
<1>12. ASSUME NEW other \in replies, Send(other)
       PROVE  SocketInv'
  <2>1. UNCHANGED <<sock, deqConnections, player_uids, connections, qMessagesIn>>
    BY <1>12 DEF Send, MessageClient
  <2>2. CASE UNCHANGED garbage
    BY <1>c, <1>e, <2>1, <2>2 DEF SocketInv
  <2>3. CASE ~UNCHANGED garbage
    <3>1. /\ ~(Target \in {NoConn, NullConn}) /\ ~IsConnected(Target)
          /\ garbage' = Append(garbage, Target)
      BY <1>12, <2>3 DEF Send, MessageClient
    <3>2. Target \in Conn /\ sock[Target] # "none"
      BY <1>a, <1>12, <3>1 DEF Target, Send, HandlesRegistered, Accepted, TypeOK
    <3>3. sock[Target] \in {"shut", "closed"}
      BY <3>1, <3>2 DEF IsConnected, TypeOK, SockState
    <3>4. /\ Len(garbage) \in Nat /\ Len(garbage') = Len(garbage) + 1
          /\ \A i \in 1..Len(garbage) : garbage'[i] = garbage[i]
          /\ garbage'[Len(garbage) + 1] = Target
      BY <3>1, <3>2 DEF TypeOK
    <3>5. \A i \in 1..Len(garbage') : i \in 1..Len(garbage) \/ i = Len(garbage) + 1
      BY <3>4
    <3>6. GarbageIsClosed'
      BY <1>a, <2>1, <3>3, <3>4, <3>5 DEF GarbageIsClosed
    <3> QED
      BY <1>e, <2>1, <3>6 DEF SocketInv
  <2> QED
    BY <2>2, <2>3
<1>13. CASE SendAll
  <2>1. player_uids[current] \in PlayerUID \union {NoUid} /\ player_uids \in [Conn -> PlayerUID \union {NoUid}]
    BY <1>13 DEF SendAll, TypeOK
  <2>2. GarbageIsClosed' /\ deqConnections' \subseteq deqConnections
    BY <1>13, <2>1, BroadcastGarbage DEF SendAll, MsgKind
  <2>3. Accepted'
    BY <1>a, <1>13, <2>2, ConnAssumption DEF SendAll, SendAllConnections, Accepted, TypeOK
  <2> QED
    BY <2>2, <2>3 DEF SocketInv
<1>14. CASE UNCHANGED vars
  BY <1>c, <1>e, <1>14 DEF vars, SocketInv
<1>15. CASE AsioThread
  BY <1>1, <1>2, <1>3, <1>4, <1>15 DEF AsioThread
<1>16. CASE MainThread
  BY <1>5, <1>6, <1>7, <1>8, <1>10, <1>11, <1>12, <1>13, <1>16 DEF MainThread
<1> QED
  BY <1>14, <1>15, <1>16 DEF Next

(* The garbage loop never deregisters a connection that is still up, not   *)
(* even after the vector has moved under it, and nothing else deregisters. *)
THEOREM OnlyDeadAreDeregistered == Spec => OnlyDeadDeregistered
<1> DEFINE IInv == TypeOK /\ HandlesRegistered /\ SocketInv
<1>1. Init => IInv
  BY TypeInit, SocketInit DEF TypeInv
<1>2. IInv /\ [Next]_vars => IInv'
  BY TypeStep, HandlerStep, SocketStep
<1>3. IInv /\ [Next]_vars =>
        [\A c \in Conn : Registered(c, player_uids) /\ ~Registered(c, player_uids') => ~IsConnected(c)]_vars
  <2> SUFFICES ASSUME IInv, Next, NEW c \in Conn,
                      Registered(c, player_uids), ~Registered(c, player_uids')
               PROVE  ~IsConnected(c)
    OBVIOUS
  <2>1. CASE AsioThread \/ BeginUpdate \/ ClearGarbage \/ DropUnregistered \/ SendAll
             \/ IgnoreGameMessage \/ EndUpdate \/ (\E other \in replies : Send(other))
             \/ (\E others \in SUBSET PlayerUID : OnGameMessage(others))
    <3>1. UNCHANGED player_uids
      BY <2>1 DEF AsioThread, WaitForClientConnection, OnClientValidated, SocketClose, ReadRegister, ReadGame,
                  AddToIncomingMessageQueue, BeginUpdate, ClearGarbage, DropUnregistered, SendAll,
                  IgnoreGameMessage, EndUpdate, Send, OnGameMessage, mainVars
    <3> QED
      BY <3>1
  <2>2. CASE OnRegister
    <3>1. Head(qMessagesIn) \in RegisterMsg
      BY <2>2 DEF OnRegister, Incoming, TypeOK, GameMsg
    <3>2. Head(qMessagesIn).body # NoUid
      BY <3>1, PuidAssumption DEF RegisterMsg
    <3> QED
      BY <2>2, <3>2 DEF OnRegister, Registered, TypeOK
  <2>3. ASSUME NEW cid \in Conn \union {NoConn}, Collect(cid)
        PROVE  ~IsConnected(c)
    <3>1. c = cid
      BY <2>3 DEF Collect, UidsWithout, Registered
    <3>2. cid = garbage[gcPos] /\ gcPos \in 1..Len(garbage)
      BY <2>3, <3>1, ConnAssumption DEF Collect, NextGarbage, TypeOK
    <3> QED
      BY <3>1, <3>2 DEF SocketInv, GarbageIsClosed, IsConnected
  <2> QED
    BY <2>1, <2>2, <2>3 DEF Next, MainThread
<1> QED
  BY <1>1, <1>2, <1>3, PTL DEF Spec, OnlyDeadDeregistered

-----------------------------------------------------------------------------
(* A connection registers once: its REGISTER message is in the queue at    *)
(* most once, and only before the connection is registered.                *)

IsRegister(i) == qMessagesIn[i].id = "REGISTER"

OneRegister ==
  \A i, j \in 1..Len(qMessagesIn) :
    IsRegister(i) /\ IsRegister(j) /\ qMessagesIn[i].conn = qMessagesIn[j].conn => i = j

PendingIsFresh ==
  \A i \in 1..Len(qMessagesIn) :
    IsRegister(i) => regRead[qMessagesIn[i].conn] /\ ~Registered(qMessagesIn[i].conn, player_uids)

RegisteredWasRead == \A c \in Conn : Registered(c, player_uids) => regRead[c]

QueueInv == OneRegister /\ PendingIsFresh /\ RegisteredWasRead

LEMMA QueueInit == Init => QueueInv
<1> SUFFICES ASSUME Init
             PROVE  QueueInv
  OBVIOUS
<1>1. 1..Len(qMessagesIn) = {}
  BY DEF Init
<1> QED
  BY <1>1 DEF Init, QueueInv, OneRegister, PendingIsFresh, RegisteredWasRead, Registered

(* The queue and its indices after a message was taken or added.           *)
LEMMA QueueTail ==
  ASSUME TypeOK, qMessagesIn # <<>>, qMessagesIn' = Tail(qMessagesIn)
  PROVE  /\ Len(qMessagesIn) \in Nat /\ Len(qMessagesIn') = Len(qMessagesIn) - 1
         /\ \A i \in 1..Len(qMessagesIn') : i + 1 \in 2..Len(qMessagesIn) /\ qMessagesIn'[i] = qMessagesIn[i + 1]
         /\ Head(qMessagesIn) = qMessagesIn[1] /\ 1 \in 1..Len(qMessagesIn)
         /\ \A i \in 1..Len(qMessagesIn) : qMessagesIn[i].conn \in Conn
<1>1. qMessagesIn \in Seq(RegisterMsg \union GameMsg)
  BY DEF TypeOK
<1>2. \A i \in 1..Len(qMessagesIn) : qMessagesIn[i].conn \in Conn
  BY <1>1 DEF RegisterMsg, GameMsg
<1> QED
  BY <1>1, <1>2

LEMMA QueueAppend ==
  ASSUME TypeOK, NEW msg \in RegisterMsg \union GameMsg, qMessagesIn' = Append(qMessagesIn, msg)
  PROVE  /\ Len(qMessagesIn) \in Nat /\ Len(qMessagesIn') = Len(qMessagesIn) + 1
         /\ \A i \in 1..Len(qMessagesIn) : qMessagesIn'[i] = qMessagesIn[i]
         /\ qMessagesIn'[Len(qMessagesIn) + 1] = msg
         /\ \A i \in 1..Len(qMessagesIn') : i \in 1..Len(qMessagesIn) \/ i = Len(qMessagesIn) + 1
         /\ \A i \in 1..Len(qMessagesIn) : qMessagesIn[i].conn \in Conn
<1>1. qMessagesIn \in Seq(RegisterMsg \union GameMsg)
  BY DEF TypeOK
<1>2. \A i \in 1..Len(qMessagesIn) : qMessagesIn[i].conn \in Conn
  BY <1>1 DEF RegisterMsg, GameMsg
<1>3. /\ Len(qMessagesIn) \in Nat /\ Len(qMessagesIn') = Len(qMessagesIn) + 1
      /\ \A i \in 1..Len(qMessagesIn) : qMessagesIn'[i] = qMessagesIn[i]
      /\ qMessagesIn'[Len(qMessagesIn) + 1] = msg
  BY <1>1
<1>4. \A i \in 1..Len(qMessagesIn') : i \in 1..Len(qMessagesIn) \/ i = Len(qMessagesIn) + 1
  BY <1>3
<1> QED
  BY <1>2, <1>3, <1>4

LEMMA QueueStep ==
  ASSUME TypeOK, HandlesRegistered, QueueInv, [Next]_vars
  PROVE  QueueInv'
<1> USE DEF asioVars, mainVars, Registered
<1>a. OneRegister /\ PendingIsFresh /\ RegisteredWasRead
  BY DEF QueueInv
<1>b. ASSUME UNCHANGED <<qMessagesIn, regRead, player_uids>>
      PROVE  QueueInv'
  BY <1>a, <1>b DEF QueueInv, OneRegister, PendingIsFresh, RegisteredWasRead, IsRegister
<1>c. ASSUME qMessagesIn # <<>>, qMessagesIn' = Tail(qMessagesIn), UNCHANGED regRead
      PROVE  OneRegister' /\ (UNCHANGED player_uids => QueueInv')
  <2>1. OneRegister'
    BY <1>a, <1>c, QueueTail DEF OneRegister, IsRegister
  <2>2. ASSUME UNCHANGED player_uids
        PROVE  PendingIsFresh' /\ RegisteredWasRead'
    BY <1>a, <1>c, <2>2, QueueTail DEF PendingIsFresh, RegisteredWasRead, IsRegister
  <2> QED
    BY <2>1, <2>2 DEF QueueInv
<1>1. ASSUME NEW c \in Conn, ReadRegister(c)
      PROVE  QueueInv'
  <2> DEFINE msg == [conn |-> c, id |-> "REGISTER", body |-> PuidOf[c]]
             n == Len(qMessagesIn)
  <2>1. msg \in RegisterMsg \union GameMsg
    BY PuidAssumption DEF RegisterMsg
  <2>2. /\ qMessagesIn' = Append(qMessagesIn, msg) /\ UNCHANGED player_uids
        /\ ~regRead[c] /\ regRead' = [regRead EXCEPT ![c] = TRUE]
    BY <1>1 DEF ReadRegister, AddToIncomingMessageQueue
  <2>3. /\ n \in Nat /\ Len(qMessagesIn') = n + 1
        /\ \A i \in 1..n : qMessagesIn'[i] = qMessagesIn[i] /\ qMessagesIn[i].conn \in Conn
        /\ qMessagesIn'[n + 1] = msg
        /\ \A i \in 1..Len(qMessagesIn') : i \in 1..n \/ i = n + 1
    BY <2>1, <2>2, QueueAppend
  <2>4. \A i \in 1..n : IsRegister(i) => qMessagesIn[i].conn # c
    BY <1>a, <2>2 DEF PendingIsFresh
  <2>5. OneRegister'
    <3> SUFFICES ASSUME NEW i \in 1..Len(qMessagesIn'), NEW j \in 1..Len(qMessagesIn'),
                        IsRegister(i)', IsRegister(j)', qMessagesIn'[i].conn = qMessagesIn'[j].conn
                 PROVE  i = j
      BY DEF OneRegister
    <3>1. CASE i \in 1..n /\ j \in 1..n
      BY <1>a, <2>3, <3>1 DEF OneRegister, IsRegister
    <3>2. CASE i = n + 1 /\ j \in 1..n
      BY <2>3, <2>4, <3>2 DEF IsRegister
    <3>3. CASE i \in 1..n /\ j = n + 1
      BY <2>3, <2>4, <3>3 DEF IsRegister
    <3> QED
      BY <2>3, <3>1, <3>2, <3>3
  <2>6. ~Registered(c, player_uids)
    BY <1>a, <2>2 DEF RegisteredWasRead
  <2>7. \A d \in Conn : (regRead[d] => regRead'[d]) /\ regRead'[c]
    BY <2>2 DEF TypeOK
  <2>8. PendingIsFresh'
    BY <1>a, <2>2, <2>3, <2>6, <2>7 DEF PendingIsFresh, IsRegister
  <2>9. RegisteredWasRead'
    BY <1>a, <2>2, <2>7 DEF RegisteredWasRead
  <2> QED
    BY <2>5, <2>8, <2>9 DEF QueueInv
<1>2. ASSUME NEW c \in Conn, NEW body \in GameBody, ReadGame(c, body)
      PROVE  QueueInv'
  <2> DEFINE msg == [conn |-> c, id |-> "GAME_MESSAGE", body |-> body]
             n == Len(qMessagesIn)
  <2>1. msg \in RegisterMsg \union GameMsg
    BY DEF GameMsg
  <2>2. qMessagesIn' = Append(qMessagesIn, msg) /\ UNCHANGED <<player_uids, regRead>>
    BY <1>2 DEF ReadGame, AddToIncomingMessageQueue
  <2>3. /\ n \in Nat /\ Len(qMessagesIn') = n + 1
        /\ \A i \in 1..n : qMessagesIn'[i] = qMessagesIn[i]
        /\ qMessagesIn'[n + 1].id # "REGISTER"
        /\ \A i \in 1..Len(qMessagesIn') : i \in 1..n \/ i = n + 1
    BY <2>1, <2>2, QueueAppend
  <2> QED
    BY <1>a, <2>2, <2>3 DEF QueueInv, OneRegister, PendingIsFresh, RegisteredWasRead, IsRegister
<1>3. ASSUME NEW cid \in Conn \union {NoConn}, Collect(cid)
      PROVE  QueueInv'
  <2>1. \A c \in Conn : Registered(c, player_uids)' => Registered(c, player_uids)
    BY <1>3 DEF Collect, UidsWithout
  <2>2. UNCHANGED <<qMessagesIn, regRead>>
    BY <1>3 DEF Collect
  <2>3. \A i \in 1..Len(qMessagesIn) : qMessagesIn[i].conn \in Conn
    BY DEF TypeOK, RegisterMsg, GameMsg
  <2> QED
    BY <1>a, <2>1, <2>2, <2>3 DEF QueueInv, OneRegister, PendingIsFresh, RegisteredWasRead, IsRegister
<1>4. CASE OnRegister
  <2> DEFINE c == Head(qMessagesIn).conn
             puid == Head(qMessagesIn).body
  <2>1. qMessagesIn # <<>> /\ qMessagesIn' = Tail(qMessagesIn) /\ UNCHANGED regRead
    BY <1>4 DEF OnRegister, Incoming
  <2>2. /\ Len(qMessagesIn') = Len(qMessagesIn) - 1 /\ Len(qMessagesIn) \in Nat
        /\ \A i \in 1..Len(qMessagesIn') : i + 1 \in 2..Len(qMessagesIn) /\ qMessagesIn'[i] = qMessagesIn[i + 1]
        /\ Head(qMessagesIn) = qMessagesIn[1] /\ 1 \in 1..Len(qMessagesIn)
        /\ \A i \in 1..Len(qMessagesIn) : qMessagesIn[i].conn \in Conn
    BY <2>1, QueueTail
  <2>3. c \in Conn /\ IsRegister(1) /\ regRead[c] /\ ~Registered(c, player_uids)
    BY <1>a, <1>4, <2>2 DEF OnRegister, Incoming, IsRegister, PendingIsFresh
  <2>4. player_uids' = [player_uids EXCEPT ![c] = puid]
    BY <1>4, <2>3 DEF OnRegister
  <2>5. \A d \in Conn : d # c => player_uids'[d] = player_uids[d]
    BY <2>3, <2>4 DEF TypeOK
  <2>6. \A i \in 1..Len(qMessagesIn') : IsRegister(i)' => qMessagesIn'[i].conn # c
    BY <1>a, <2>2, <2>3 DEF OneRegister, IsRegister
  <2>7. \A i \in 1..Len(qMessagesIn') : i + 1 \in 1..Len(qMessagesIn)
    BY <2>2
  <2>8. PendingIsFresh'
    <3> SUFFICES ASSUME NEW i \in 1..Len(qMessagesIn'), IsRegister(i)'
                 PROVE  regRead'[qMessagesIn'[i].conn] /\ player_uids'[qMessagesIn'[i].conn] = NoUid
      BY DEF PendingIsFresh
    <3>1. i + 1 \in 1..Len(qMessagesIn) /\ qMessagesIn'[i] = qMessagesIn[i + 1] /\ IsRegister(i + 1)
      BY <2>2, <2>7 DEF IsRegister
    <3>2. qMessagesIn[i + 1].conn \in Conn \ {c}
      BY <2>2, <2>6, <3>1
    <3> QED
      BY <1>a, <2>1, <2>5, <3>1, <3>2 DEF PendingIsFresh
  <2>9. RegisteredWasRead'
    BY <1>a, <2>1, <2>3, <2>5 DEF RegisteredWasRead
  <2> QED
    BY <1>c, <2>1, <2>8, <2>9 DEF QueueInv
<1>5. CASE DropUnregistered
  BY <1>c, <1>5 DEF DropUnregistered, Incoming
<1>6. ASSUME NEW others \in SUBSET PlayerUID, OnGameMessage(others)
      PROVE  QueueInv'
  BY <1>c, <1>6 DEF OnGameMessage, Incoming
<1>7. CASE BeginUpdate \/ ClearGarbage \/ SendAll \/ IgnoreGameMessage \/ EndUpdate
           \/ \E other \in replies : Send(other)
  BY <1>b, <1>7 DEF BeginUpdate, ClearGarbage, SendAll, IgnoreGameMessage, EndUpdate, Send
<1>8. ASSUME NEW c \in Conn, WaitForClientConnection(c) \/ OnClientValidated(c) \/ SocketClose(c)
      PROVE  QueueInv'
  BY <1>b, <1>8 DEF WaitForClientConnection, OnClientValidated, SocketClose
<1>9. CASE UNCHANGED vars
  BY <1>b, <1>9 DEF vars
<1> QED
  BY <1>1, <1>2, <1>3, <1>4, <1>5, <1>6, <1>7, <1>8, <1>9 DEF Next, AsioThread, MainThread

-----------------------------------------------------------------------------
(* What the connections are told.                                          *)

(* Every connected socket is in the deque, so a broadcast reaches it, and  *)
(* nothing was sent to a socket that was not accepted.                     *)
InDeque == \A c \in Conn : IsConnected(c) => c \in deqConnections
Unsent == \A d \in Conn, p \in PlayerUID : sock[d] = "none" => last[d][p] = "none"

(* A handler only talks about registered players.                          *)
RepliesKnown ==
  /\ replies # {} => pc \in {"handler", "crashed"}
  /\ \A p \in replies : \E c \in Conn : player_uids[c] = p

(* The connection registered, lost its registration and cannot register    *)
(* again: its one REGISTER message is gone.                                *)
Spent(c) == regRead[c] /\ ~Registered(c, player_uids) /\ ~RegisterPending(c)

GoodbyeIsFinal ==
  \A c, d \in Conn : last[d][PuidOf[c]] = "CLIENT_DISCONNECTED" => Spent(c)

StreamInv == InDeque /\ Unsent /\ RepliesKnown /\ GoodbyeIsFinal /\ DroppedIsDismissed

LEMMA StreamInit == Init => StreamInv
BY PuidAssumption DEF Init, StreamInv, InDeque, Unsent, RepliesKnown, GoodbyeIsFinal, DroppedIsDismissed,
                      IsConnected

(* Who is told what: a player is said to have left in the step that drops  *)
(* him, and is spoken of otherwise only while, or as soon as, registered.  *)
LEMMA LastChange ==
  ASSUME UniquePuids, TypeOK, HandlesRegistered, TableInv, SocketInv, RepliesKnown, [Next]_vars,
         NEW d \in Conn, NEW p \in PlayerUID, last'[d][p] # last[d][p]
  PROVE  /\ sock[d] # "none"
         /\ \/ /\ last'[d][p] = "CLIENT_DISCONNECTED"
               /\ \E c \in Conn : player_uids[c] = p /\ ~Registered(c, player_uids')
               /\ UNCHANGED <<regRead, qMessagesIn>>
            \/ /\ last'[d][p] \in {"CLIENT_CONNECTED", "GAME_MESSAGE"}
               /\ \E c \in Conn : player_uids'[c] = p /\ (Registered(c, player_uids) \/ RegisterPending(c))
<1> USE DEF asioVars, mainVars
<1>1. ASSUME NEW ignore, d \in Reached(ignore)
      PROVE  sock[d] # "none"
  BY <1>1 DEF Reached, IsConnected
<1>2. ASSUME NEW cid \in Conn \union {NoConn}, Collect(cid)
      PROVE  /\ sock[d] # "none" /\ last'[d][p] = "CLIENT_DISCONNECTED"
             /\ \E c \in Conn : player_uids[c] = p /\ ~Registered(c, player_uids')
             /\ UNCHANGED <<regRead, qMessagesIn>>
  <2>1. PuidOfGarbage(cid) \in PlayerUID \union {NoUid} /\ UidsWithout(cid) \in [Conn -> PlayerUID \union {NoUid}]
    BY DEF PuidOfGarbage, UidsWithout, TypeOK
  <2>2. last'[d][p] = IF d \in Reached(NoConn) /\ p = PuidOfGarbage(cid) THEN "CLIENT_DISCONNECTED" ELSE last[d][p]
    BY <1>2, <2>1, BroadcastEffect DEF Collect, MsgKind
  <2>3. d \in Reached(NoConn) /\ p = PuidOfGarbage(cid)
    BY <2>2
  <2>4. cid \in Conn /\ player_uids[cid] = p
    BY <2>3, PuidAssumption DEF PuidOfGarbage
  <2>5. ~Registered(cid, player_uids')
    BY <1>2, <2>4 DEF Collect, UidsWithout, Registered
  <2> QED
    BY <1>1, <1>2, <2>2, <2>3, <2>4, <2>5 DEF Collect
<1>3. CASE OnRegister
  <2> DEFINE c == Head(qMessagesIn).conn
             puid == Head(qMessagesIn).body
             uids == [player_uids EXCEPT ![c] = puid]
  <2>1. ~Registered(c, player_uids)
    BY <1>3 DEF OnRegister
  <2>2. MessageAllClients(puid, "CLIENT_CONNECTED", c, uids) /\ player_uids' = uids
    BY <1>3, <2>1 DEF OnRegister
  <2>3. Head(qMessagesIn) \in RegisterMsg
    BY <1>3 DEF OnRegister, Incoming, TypeOK, GameMsg
  <2>4. c \in Conn /\ puid \in PlayerUID /\ uids \in [Conn -> PlayerUID \union {NoUid}]
    BY <2>3 DEF RegisterMsg, TypeOK
  <2>5. last'[d][p] = IF d \in Reached(c) /\ p = puid THEN "CLIENT_CONNECTED" ELSE last[d][p]
    <3>1. "CLIENT_CONNECTED" \in MsgKind
      BY DEF MsgKind
    <3> HIDE DEF c, puid, uids
    <3> QED
      BY <2>2, <2>4, <3>1, BroadcastEffect
  <2>6. d \in Reached(c) /\ p = puid /\ last'[d][p] = "CLIENT_CONNECTED"
    BY <2>5
  <2>7. player_uids'[c] = p
    BY <2>2, <2>4, <2>6 DEF TypeOK
  <2>8. RegisterPending(c)
    <3>1. Head(qMessagesIn) = qMessagesIn[1] /\ 1 \in 1..Len(qMessagesIn) /\ Head(qMessagesIn).id = "REGISTER"
      BY <1>3 DEF OnRegister, Incoming, TypeOK
    <3> QED
      BY <3>1 DEF RegisterPending
  <2> QED
    BY <1>1, <2>4, <2>6, <2>7, <2>8
<1>4. ASSUME NEW other \in replies, Send(other)
      PROVE  /\ sock[d] # "none" /\ last'[d][p] = "GAME_MESSAGE"
             /\ \E c \in Conn : player_uids'[c] = p /\ Registered(c, player_uids)
  <2>1. last' = [last EXCEPT ![Target][other] = "GAME_MESSAGE"] /\ IsConnected(Target) /\ UNCHANGED player_uids
    BY <1>4 DEF Send, MessageClient
  <2>2. d = Target /\ p = other /\ last'[d][p] = "GAME_MESSAGE"
    <3>1. last \in [Conn -> [PlayerUID -> MsgKind]]
      BY DEF TypeOK
    <3>2. d = Target
      BY <2>1, <3>1
    <3>3. last'[d] = [last[d] EXCEPT ![other] = "GAME_MESSAGE"]
      BY <2>1, <3>1, <3>2
    <3> QED
      BY <3>1, <3>2, <3>3
  <2>3. PICK c \in Conn : player_uids[c] = p
    BY <2>2 DEF RepliesKnown
  <2> QED
    BY <2>1, <2>2, <2>3, PuidAssumption DEF Registered, IsConnected
<1>5. CASE SendAll
  <2>1. /\ current \in Conn /\ player_uids[current] \in PlayerUID
        /\ player_uids \in [Conn -> PlayerUID \union {NoUid}] /\ UNCHANGED player_uids
    BY <1>5 DEF SendAll, TypeOK, HandlesRegistered, Registered
  <2>2. last'[d][p] = IF d \in Reached(Target) /\ p = player_uids[current] THEN "GAME_MESSAGE" ELSE last[d][p]
    BY <1>5, <2>1, BroadcastEffect DEF SendAll, MsgKind
  <2>3. d \in Reached(Target) /\ p = player_uids[current] /\ last'[d][p] = "GAME_MESSAGE"
    BY <2>2
  <2> QED
    BY <1>1, <2>1, <2>3, PuidAssumption DEF Registered
<1>6. ~(\/ AsioThread \/ BeginUpdate \/ ClearGarbage \/ DropUnregistered \/ IgnoreGameMessage \/ EndUpdate
        \/ (\E others \in SUBSET PlayerUID : OnGameMessage(others)) \/ UNCHANGED vars)
  BY DEF AsioThread, WaitForClientConnection, OnClientValidated, SocketClose, ReadRegister, ReadGame,
         AddToIncomingMessageQueue, BeginUpdate, ClearGarbage, DropUnregistered, IgnoreGameMessage, EndUpdate,
         OnGameMessage, vars
<1> QED
  BY <1>2, <1>3, <1>4, <1>5, <1>6 DEF Next, MainThread

(* A connection that is spent stays spent.                                 *)
LEMMA SpentIsFinal ==
  ASSUME TypeOK, HandlesRegistered, QueueInv, [Next]_vars, NEW c \in Conn, Spent(c)
  PROVE  Spent(c)'
<1> USE DEF asioVars, mainVars, Spent, Registered
<1>1. ASSUME UNCHANGED <<regRead, qMessagesIn>>, player_uids'[c] \in {player_uids[c], NoUid}
      PROVE  Spent(c)'
  BY <1>1 DEF RegisterPending
<1>2. ASSUME qMessagesIn # <<>>, qMessagesIn' = Tail(qMessagesIn), UNCHANGED regRead,
             player_uids'[c] = player_uids[c]
      PROVE  Spent(c)'
  <2>1. \A i \in 1..Len(qMessagesIn') : i + 1 \in 1..Len(qMessagesIn) /\ qMessagesIn'[i] = qMessagesIn[i + 1]
    BY <1>2, QueueTail
  <2> QED
    BY <1>2, <2>1 DEF RegisterPending
<1>3. ASSUME NEW msg \in RegisterMsg \union GameMsg, qMessagesIn' = Append(qMessagesIn, msg),
             ~(msg.id = "REGISTER" /\ msg.conn = c), regRead'[c] = regRead[c], UNCHANGED player_uids
      PROVE  Spent(c)'
  <2>1. /\ \A i \in 1..Len(qMessagesIn) : qMessagesIn'[i] = qMessagesIn[i]
        /\ qMessagesIn'[Len(qMessagesIn) + 1] = msg
        /\ \A i \in 1..Len(qMessagesIn') : i \in 1..Len(qMessagesIn) \/ i = Len(qMessagesIn) + 1
    BY <1>3, QueueAppend
  <2>2. ~RegisterPending(c)'
    BY <1>3, <2>1 DEF RegisterPending
  <2> QED
    BY <1>3, <2>2
<1>4. ASSUME NEW d \in Conn, ReadRegister(d)
      PROVE  Spent(c)'
  <2> DEFINE msg == [conn |-> d, id |-> "REGISTER", body |-> PuidOf[d]]
  <2>1. msg \in RegisterMsg \union GameMsg
    BY PuidAssumption DEF RegisterMsg
  <2>2. /\ qMessagesIn' = Append(qMessagesIn, msg) /\ d # c /\ UNCHANGED player_uids
        /\ regRead' = [regRead EXCEPT ![d] = TRUE]
    BY <1>4 DEF ReadRegister, AddToIncomingMessageQueue
  <2>3. regRead'[c] = regRead[c]
    BY <2>2 DEF TypeOK
  <2> QED
    BY <1>3, <2>1, <2>2, <2>3
<1>5. ASSUME NEW d \in Conn, NEW body \in GameBody, ReadGame(d, body)
      PROVE  Spent(c)'
  <2> DEFINE msg == [conn |-> d, id |-> "GAME_MESSAGE", body |-> body]
  <2>1. msg \in RegisterMsg \union GameMsg
    BY DEF GameMsg
  <2> QED
    BY <1>3, <1>5, <2>1 DEF ReadGame, AddToIncomingMessageQueue
<1>6. ASSUME NEW cid \in Conn \union {NoConn}, Collect(cid)
      PROVE  Spent(c)'
  BY <1>1, <1>6 DEF Collect, UidsWithout
<1>7. CASE OnRegister
  <2>1. Head(qMessagesIn) = qMessagesIn[1] /\ 1 \in 1..Len(qMessagesIn) /\ Head(qMessagesIn).id = "REGISTER"
    BY <1>7 DEF OnRegister, Incoming, TypeOK
  <2>2. Head(qMessagesIn).conn # c
    BY <2>1 DEF RegisterPending
  <2>3. player_uids'[c] = player_uids[c]
    BY <1>7, <2>2 DEF OnRegister, TypeOK
  <2> QED
    BY <1>2, <1>7, <2>3 DEF OnRegister, Incoming
<1>8. CASE DropUnregistered \/ \E others \in SUBSET PlayerUID : OnGameMessage(others)
  BY <1>2, <1>8 DEF DropUnregistered, OnGameMessage, Incoming
<1>9. CASE BeginUpdate \/ ClearGarbage \/ SendAll \/ IgnoreGameMessage \/ EndUpdate
           \/ \E other \in replies : Send(other)
  BY <1>1, <1>9 DEF BeginUpdate, ClearGarbage, SendAll, IgnoreGameMessage, EndUpdate, Send
<1>10. ASSUME NEW d \in Conn, WaitForClientConnection(d) \/ OnClientValidated(d) \/ SocketClose(d)
       PROVE  Spent(c)'
  BY <1>1, <1>10 DEF WaitForClientConnection, OnClientValidated, SocketClose
<1>11. CASE UNCHANGED vars
  BY <1>1, <1>11 DEF vars
<1> QED
  BY <1>4, <1>5, <1>6, <1>7, <1>8, <1>9, <1>10, <1>11 DEF Next, AsioThread, MainThread

(* Every client that is up is told when a player loses his registration.   *)
LEMMA DeregistrationIsTold ==
  ASSUME TypeOK, HandlesRegistered, InDeque, [Next]_vars, NEW c \in Conn, NEW d \in Conn, IsConnected(d),
         Registered(c, player_uids), ~Registered(c, player_uids')
  PROVE  last'[d][player_uids[c]] = "CLIENT_DISCONNECTED"
<1> USE DEF asioVars, mainVars
<1>1. ASSUME NEW cid \in Conn \union {NoConn}, Collect(cid)
      PROVE  last'[d][player_uids[c]] = "CLIENT_DISCONNECTED"
  <2>1. c = cid /\ PuidOfGarbage(cid) = player_uids[c] /\ player_uids[c] \in PlayerUID
    BY <1>1, ConnAssumption DEF Collect, UidsWithout, Registered, PuidOfGarbage, TypeOK
  <2>2. d \in Reached(NoConn)
    BY ConnAssumption DEF Reached, InDeque
  <2>3. UidsWithout(cid) \in [Conn -> PlayerUID \union {NoUid}]
    BY DEF UidsWithout, TypeOK
  <2>4. "CLIENT_DISCONNECTED" \in MsgKind
    BY DEF MsgKind
  <2>5. MessageAllClients(PuidOfGarbage(cid), "CLIENT_DISCONNECTED", NoConn, UidsWithout(cid))
    BY <1>1 DEF Collect
  <2>6. \A p \in PlayerUID : last'[d][p] =
          IF d \in Reached(NoConn) /\ p = PuidOfGarbage(cid) THEN "CLIENT_DISCONNECTED" ELSE last[d][p]
    BY <2>1, <2>3, <2>4, <2>5, BroadcastEffect
  <2> QED
    BY <2>1, <2>2, <2>6
<1>2. CASE OnRegister
  <2>1. Head(qMessagesIn) \in RegisterMsg
    BY <1>2 DEF OnRegister, Incoming, TypeOK, GameMsg
  <2>2. Head(qMessagesIn).body # NoUid
    BY <2>1, PuidAssumption DEF RegisterMsg
  <2> QED
    BY <1>2, <2>2 DEF OnRegister, Registered, TypeOK
<1>3. CASE \/ AsioThread \/ BeginUpdate \/ ClearGarbage \/ DropUnregistered \/ SendAll \/ IgnoreGameMessage
           \/ EndUpdate \/ (\E other \in replies : Send(other))
           \/ (\E others \in SUBSET PlayerUID : OnGameMessage(others)) \/ UNCHANGED vars
  <2>1. UNCHANGED player_uids
    BY <1>3 DEF AsioThread, WaitForClientConnection, OnClientValidated, SocketClose, ReadRegister, ReadGame,
                AddToIncomingMessageQueue, BeginUpdate, ClearGarbage, DropUnregistered, SendAll,
                IgnoreGameMessage, EndUpdate, Send, OnGameMessage, vars
  <2> QED
    BY <2>1
<1> QED
  BY <1>1, <1>2, <1>3 DEF Next, MainThread

LEMMA RepliesStep ==
  ASSUME TypeOK, HandlesRegistered, RepliesKnown, [Next]_vars
  PROVE  RepliesKnown'
<1> USE DEF asioVars, mainVars, RepliesKnown
<1>1. ASSUME NEW others \in SUBSET PlayerUID, OnGameMessage(others),
             others \subseteq OthersOf(Head(qMessagesIn).conn)
      PROVE  RepliesKnown'
  <2>1. \A p \in others : \E c \in Conn : player_uids[c] = p
    BY <1>1 DEF OnGameMessage, OthersOf
  <2> QED
    BY <1>1, <2>1 DEF OnGameMessage
<1>2. ASSUME NEW other \in replies, Send(other)
      PROVE  RepliesKnown'
  BY <1>2 DEF Send
<1>3. CASE SendAll \/ IgnoreGameMessage
  BY <1>3 DEF SendAll, IgnoreGameMessage
<1>4. CASE \/ BeginUpdate \/ ClearGarbage \/ OnRegister \/ DropUnregistered \/ EndUpdate
           \/ \E cid \in Conn \union {NoConn} : Collect(cid)
  <2>1. replies = {} /\ replies' = {}
    BY <1>4 DEF BeginUpdate, ClearGarbage, OnRegister, DropUnregistered, EndUpdate, Collect, Incoming
  <2> QED
    BY <2>1
<1>5. CASE AsioThread \/ UNCHANGED vars
  <2>1. UNCHANGED <<replies, pc, player_uids>>
    BY <1>5 DEF AsioThread, WaitForClientConnection, OnClientValidated, SocketClose, ReadRegister, ReadGame,
                AddToIncomingMessageQueue, vars
  <2> QED
    BY <2>1
<1> QED
  BY <1>1, <1>2, <1>3, <1>4, <1>5 DEF Next, MainThread

LEMMA DequeStep ==
  ASSUME TypeOK, HandlesRegistered, InDeque, [Next]_vars
  PROVE  InDeque'
<1> USE DEF asioVars, mainVars, InDeque
<1>1. ASSUME UNCHANGED sock, deqConnections' = deqConnections \/ deqConnections' = deqConnections \ Unreachable
      PROVE  InDeque'
  BY <1>1 DEF IsConnected, Unreachable
<1>2. ASSUME NEW c \in Conn, WaitForClientConnection(c)
      PROVE  InDeque'
  BY <1>2 DEF WaitForClientConnection, IsConnected, TypeOK
<1>3. ASSUME UNCHANGED deqConnections, \A c \in Conn : IsConnected(c)' => IsConnected(c)
      PROVE  InDeque'
  BY <1>3
<1>4. ASSUME NEW c \in Conn, OnClientValidated(c) \/ SocketClose(c) \/ ReadRegister(c)
                             \/ \E body \in GameBody : ReadGame(c, body)
      PROVE  InDeque'
  <2>1. UNCHANGED deqConnections /\ \A d \in Conn : IsConnected(d)' => IsConnected(d)
    BY <1>4 DEF OnClientValidated, SocketClose, ReadRegister, ReadGame, AddToIncomingMessageQueue, AfterRead,
                IsConnected, TypeOK
  <2> QED
    BY <1>3, <2>1
<1>5. CASE MainThread \/ UNCHANGED vars
  <2>1. UNCHANGED sock /\ (deqConnections' = deqConnections \/ deqConnections' = deqConnections \ Unreachable)
    BY <1>5 DEF MainThread, BeginUpdate, Collect, ClearGarbage, OnRegister, DropUnregistered, OnGameMessage,
                Send, SendAll, IgnoreGameMessage, EndUpdate, MessageAllClients, MessageClient, vars
  <2> QED
    BY <1>1, <2>1
<1> QED
  BY <1>2, <1>4, <1>5 DEF Next, AsioThread

(* The four invariants the streams rest on, and that a goodbye is final.   *)
LEMMA StreamStep ==
  ASSUME UniquePuids, TypeOK, HandlesRegistered, TableInv, TableInv', SocketInv, QueueInv, StreamInv, [Next]_vars
  PROVE  /\ StreamInv'
         /\ \A d \in Conn, p \in PlayerUID :
               last[d][p] = "CLIENT_DISCONNECTED" => last'[d][p] = "CLIENT_DISCONNECTED"
<1>a. /\ InDeque /\ Unsent /\ RepliesKnown /\ GoodbyeIsFinal /\ DroppedIsDismissed
      /\ OwnUids /\ OwnUids' /\ RegisteredWasRead /\ PendingIsFresh
  BY DEF StreamInv, TableInv, QueueInv
<1>b. \A c \in Conn : PuidOf[c] \in PlayerUID /\ PuidOf[c] # NoUid
  BY PuidAssumption
<1>c. \A c \in Conn, p \in PlayerUID : player_uids[c] = p => p = PuidOf[c] /\ Registered(c, player_uids)
  BY <1>a, PuidAssumption DEF OwnUids, Registered
<1>d. \A c \in Conn, p \in PlayerUID : player_uids'[c] = p => p = PuidOf[c] /\ Registered(c, player_uids')
  BY <1>a, PuidAssumption DEF OwnUids, Registered
<1>e. \A c \in Conn : Registered(c, player_uids) => player_uids[c] = PuidOf[c]
  BY <1>a DEF OwnUids, Registered
<1>1. InDeque' /\ RepliesKnown'
  BY <1>a, DequeStep, RepliesStep
<1>2. Unsent'
  <2> SUFFICES ASSUME NEW d \in Conn, NEW p \in PlayerUID, sock'[d] = "none"
               PROVE  last'[d][p] = "none"
    BY DEF Unsent
  <2>1. sock[d] = "none"
    BY SocketsOnlyClose
  <2> QED
    BY <1>a, <2>1, LastChange DEF Unsent
<1>3. ASSUME NEW d \in Conn, NEW p \in PlayerUID, last[d][p] = "CLIENT_DISCONNECTED"
      PROVE  last'[d][p] = "CLIENT_DISCONNECTED"
  <2> SUFFICES ASSUME last'[d][p] # "CLIENT_DISCONNECTED"
               PROVE  FALSE
    OBVIOUS
  <2>1. PICK c \in Conn : player_uids'[c] = p /\ (Registered(c, player_uids) \/ RegisterPending(c))
    BY <1>a, <1>3, LastChange
  <2>2. p = PuidOf[c]
    BY <1>d, <2>1
  <2> QED
    BY <1>a, <1>3, <2>1, <2>2 DEF GoodbyeIsFinal, Spent
<1>4. GoodbyeIsFinal'
  <2> SUFFICES ASSUME NEW c \in Conn, NEW d \in Conn, last'[d][PuidOf[c]] = "CLIENT_DISCONNECTED"
               PROVE  Spent(c)'
    BY DEF GoodbyeIsFinal
  <2>1. CASE last[d][PuidOf[c]] = "CLIENT_DISCONNECTED"
    BY <1>a, <2>1, SpentIsFinal DEF GoodbyeIsFinal
  <2>2. CASE last[d][PuidOf[c]] # "CLIENT_DISCONNECTED"
    <3>1. /\ \E b \in Conn : player_uids[b] = PuidOf[c] /\ ~Registered(b, player_uids')
          /\ UNCHANGED <<regRead, qMessagesIn>>
      BY <1>a, <1>b, <2>2, LastChange
    <3>2. Registered(c, player_uids) /\ ~Registered(c, player_uids')
      BY <1>b, <1>c, <3>1 DEF UniquePuids
    <3>3. regRead[c] /\ ~RegisterPending(c)
      BY <1>a, <3>2 DEF RegisteredWasRead, PendingIsFresh, RegisterPending, IsRegister
    <3> QED
      BY <3>1, <3>2, <3>3 DEF Spent, RegisterPending, Registered
  <2> QED
    BY <2>1, <2>2
<1>5. DroppedIsDismissed'
  <2> SUFFICES ASSUME NEW c \in Conn, NEW d \in Conn, IsConnected(d)',
                      last'[d][PuidOf[c]] \in {"CLIENT_CONNECTED", "GAME_MESSAGE"}
               PROVE  Registered(c, player_uids')
    BY DEF DroppedIsDismissed, Registered
  <2>1. CASE last'[d][PuidOf[c]] # last[d][PuidOf[c]]
    <3>1. PICK b \in Conn : player_uids'[b] = PuidOf[c]
      BY <1>a, <1>b, <2>1, LastChange
    <3> QED
      BY <1>b, <1>d, <3>1 DEF UniquePuids
  <2>2. CASE last'[d][PuidOf[c]] = last[d][PuidOf[c]]
    <3>1. sock[d] # "none"
      BY <1>a, <1>b, <2>2 DEF Unsent
    <3>2. IsConnected(d)
      BY <3>1, SocketsOnlyClose DEF IsConnected, TypeOK, SockState
    <3>3. Registered(c, player_uids)
      BY <1>a, <2>2, <3>2 DEF DroppedIsDismissed
    <3> SUFFICES ASSUME ~Registered(c, player_uids')
                 PROVE  FALSE
      OBVIOUS
    <3>4. last'[d][PuidOf[c]] = "CLIENT_DISCONNECTED"
      BY <1>a, <1>e, <3>2, <3>3, DeregistrationIsTold
    <3> QED
      BY <3>4
  <2> QED
    BY <2>1, <2>2
<1> QED
  BY <1>1, <1>2, <1>3, <1>4, <1>5 DEF StreamInv

(* No client that is up believes in a player the server has dropped.       *)
THEOREM DroppedAreDismissed == ASSUME UniquePuids PROVE Spec => []DroppedIsDismissed
<1> DEFINE IInv == TypeOK /\ HandlesRegistered /\ TableInv /\ SocketInv /\ QueueInv /\ StreamInv
<1>1. Init => IInv
  BY TypeInit, TableInit, SocketInit, QueueInit, StreamInit DEF TypeInv
<1>2. IInv /\ [Next]_vars => IInv'
  BY TypeStep, HandlerStep, TableStep, SocketStep, QueueStep, StreamStep
<1>3. IInv => DroppedIsDismissed
  BY DEF StreamInv
<1> QED
  BY <1>1, <1>2, <1>3, PTL DEF Spec

(* CLIENT_DISCONNECTED is the last word about a player on every connection.*)
THEOREM GoodbyeIsTheLastWord == ASSUME UniquePuids PROVE Spec => NothingAfterGoodbye
<1> DEFINE IInv == TypeOK /\ HandlesRegistered /\ TableInv /\ SocketInv /\ QueueInv /\ StreamInv
<1>1. Init => IInv
  BY TypeInit, TableInit, SocketInit, QueueInit, StreamInit DEF TypeInv
<1>2. IInv /\ [Next]_vars => IInv'
  BY TypeStep, HandlerStep, TableStep, SocketStep, QueueStep, StreamStep
<1>3. IInv /\ [Next]_vars =>
        [\A d \in Conn, p \in PlayerUID :
            last[d][p] = "CLIENT_DISCONNECTED" => last'[d][p] = "CLIENT_DISCONNECTED"]_vars
  BY TableStep, StreamStep
<1> QED
  BY <1>1, <1>2, <1>3, PTL DEF Spec, NothingAfterGoodbye
=============================================================================
