--------------------------- MODULE MinicraftProofs ---------------------------
(***************************************************************************)
(* Minicraft implements EngineServer, whether or not uids differ: the      *)
(* handler of the game layer tells a client only of players that are       *)
(* registered.  And what a session keeps, for any number of clients whose  *)
(* uids differ: its types, every client's own player, and an entity for    *)
(* whoever the server hears.  ViewProofs goes on from here.                *)
(***************************************************************************)
EXTENDS Minicraft, EngineServerProofs

(* Whoever has an info in the game layer is registered with the engine.    *)
(* It needs that a connection registers under its own client's uid, with   *)
(* which the client signs its info.                                        *)
KnownRegistered ==
  \A p \in PlayerUID : infos[p] # NoPos => \E c \in Conn : player_uids[c] = p

InfosTable == infos = [p \in PlayerUID |-> infos[p]]

RosterInv ==
  TypeOK /\ HandlesRegistered /\ OwnUids /\ OwnRegisters /\ InfosTable /\ KnownRegistered

(* The part of TableInv that holds whether or not two uids are equal.      *)
LEMMA OwnStep ==
  ASSUME TypeOK, HandlesRegistered, OwnUids, OwnRegisters, [Next]_vars
  PROVE  OwnUids' /\ OwnRegisters'
<1> USE DEF asioVars, mainVars
<1>a. ASSUME UNCHANGED <<player_uids, qMessagesIn>>
      PROVE  OwnUids' /\ OwnRegisters'
  BY <1>a DEF OwnUids, OwnRegisters
<1>b. ASSUME UNCHANGED player_uids, qMessagesIn # <<>>, qMessagesIn' = Tail(qMessagesIn)
      PROVE  OwnUids' /\ OwnRegisters'
  BY <1>b, HonestTail DEF OwnUids
<1>1. ASSUME NEW c \in Conn, NEW msg \in RegisterMsg \union GameMsg,
             msg.id = "REGISTER" => msg.body = PuidOf[msg.conn],
             AddToIncomingMessageQueue(c, msg)
      PROVE  OwnUids' /\ OwnRegisters'
  <2>1. UNCHANGED player_uids /\ qMessagesIn' = Append(qMessagesIn, msg)
    BY <1>1 DEF AddToIncomingMessageQueue
  <2> QED
    BY <1>1, <2>1, HonestAppend DEF OwnUids
<1>2. ASSUME NEW c \in Conn, ReadRegister(c)
      PROVE  OwnUids' /\ OwnRegisters'
  <2> DEFINE msg == [conn |-> c, id |-> "REGISTER", body |-> PuidOf[c]]
  <2>1. msg \in RegisterMsg /\ msg.body = PuidOf[msg.conn]
    BY PuidAssumption DEF RegisterMsg
  <2>2. AddToIncomingMessageQueue(c, msg)
    BY <1>2 DEF ReadRegister
  <2> HIDE DEF msg
  <2> QED
    BY <1>1, <2>1, <2>2
<1>3. ASSUME NEW c \in Conn, NEW body \in GameBody, ReadGame(c, body)
      PROVE  OwnUids' /\ OwnRegisters'
  <2> DEFINE msg == [conn |-> c, id |-> "GAME_MESSAGE", body |-> body]
  <2>1. msg \in GameMsg /\ msg.id # "REGISTER"
    BY DEF GameMsg
  <2>2. AddToIncomingMessageQueue(c, msg)
    BY <1>3 DEF ReadGame
  <2> HIDE DEF msg
  <2> QED
    BY <1>1, <2>1, <2>2
<1>4. ASSUME NEW cid \in Conn \union {NoConn}, Collect(cid)
      PROVE  OwnUids' /\ OwnRegisters'
  <2>1. player_uids' = UidsWithout(cid) /\ UNCHANGED qMessagesIn
    BY <1>4 DEF Collect
  <2> QED
    BY <2>1 DEF OwnUids, OwnRegisters, UidsWithout
<1>5. CASE OnRegister
  <2> DEFINE c == Head(qMessagesIn).conn
  <2>1. qMessagesIn # <<>> /\ qMessagesIn' = Tail(qMessagesIn) /\ qMessagesIn[1].id = "REGISTER"
    BY <1>5 DEF OnRegister, Incoming
  <2>2. OwnRegisters'
    BY <2>1, HonestTail
  <2>3. 1 \in 1..Len(qMessagesIn)
    BY <2>1 DEF TypeOK
  <2>4. Head(qMessagesIn).body = PuidOf[c]
    BY <2>1, <2>3 DEF OwnRegisters, TypeOK
  <2>5. \/ UNCHANGED player_uids
        \/ player_uids' = [player_uids EXCEPT ![c] = PuidOf[c]]
    BY <1>5, <2>4 DEF OnRegister
  <2> QED
    BY <2>2, <2>5 DEF OwnUids, TypeOK
<1>6. CASE AsioThread
  <2>1. CASE \E c \in Conn : WaitForClientConnection(c) \/ OnClientValidated(c) \/ SocketClose(c)
    BY <1>a, <2>1 DEF WaitForClientConnection, OnClientValidated, SocketClose
  <2> QED
    BY <1>2, <1>3, <1>6, <2>1 DEF AsioThread
<1>7. CASE MainThread
  <2>1. CASE DropUnregistered \/ \E others \in SUBSET PlayerUID : OnGameMessage(others)
    BY <1>b, <2>1 DEF DropUnregistered, OnGameMessage, Incoming
  <2>2. CASE BeginUpdate \/ ClearGarbage \/ SendAll \/ IgnoreGameMessage \/ EndUpdate
    BY <1>a, <2>2 DEF BeginUpdate, ClearGarbage, SendAll, IgnoreGameMessage, EndUpdate
  <2>3. CASE \E other \in replies : Send(other)
    BY <1>a, <2>3 DEF Send
  <2> QED
    BY <1>4, <1>5, <1>7, <2>1, <2>2, <2>3 DEF MainThread
<1>8. CASE UNCHANGED vars
  BY <1>a, <1>8 DEF vars
<1> QED
  BY <1>6, <1>7, <1>8 DEF Next

(* Every step of the game is a step of the engine, or none.                *)
LEMMA StepSimulation ==
  ASSUME RosterInv, [GameNext]_allVars
  PROVE  [Next]_vars
<1>1. ASSUME NEW c \in Conn, Serve(c) \/ Close(c) \/ Launch(c)
      PROVE  Next
  BY <1>1 DEF Serve, Validate, Reject, Read, Close, Launch, Next, AsioThread
<1>2. ASSUME NEW c \in Conn, ClientHandles(c) \/ Stop(c) \/ \E dir \in Dirs : Move(c, dir)
      PROVE  UNCHANGED vars
  BY <1>2 DEF ClientHandles, Answer, OnAccept, OnClientDisconnected, OnServerRegister,
              OnServerUpdate, OnUnknownUpdate, Stop, Move
<1>3. CASE OnRegisterPlayer
  <2> DEFINE c == Handled.conn
             others == OtherInfos(With(infos, PuidOf[c], Handled.body.pos), PuidOf[c])
  <2>1. OnGameMessage(others)
    BY <1>3 DEF OnRegisterPlayer
  <2>2. c \in Conn /\ player_uids[c] # NoUid
    <3>1. qMessagesIn # <<>> /\ Registered(Handled.conn, player_uids)
      BY <2>1 DEF OnGameMessage, Incoming, Handled
    <3>2. Handled \in RegisterMsg \union GameMsg
      BY <3>1 DEF Handled, TypeOK, RosterInv
    <3> QED
      BY <3>1, <3>2 DEF RegisterMsg, GameMsg, Registered
  <2>3. player_uids[c] = PuidOf[c]
    BY <2>2 DEF RosterInv, OwnUids
  <2>4. ASSUME NEW p \in others
        PROVE  p \in OthersOf(c)
    <3>1. p \in PlayerUID /\ p # PuidOf[c] /\ infos[p] # NoPos
      BY <2>4 DEF OtherInfos, With, RosterInv, InfosTable
    <3>2. PICK d \in Conn : player_uids[d] = p
      BY <3>1 DEF RosterInv, KnownRegistered
    <3> QED
      BY <2>3, <3>1, <3>2, PuidAssumption DEF OthersOf, Registered
  <2>5. others \in SUBSET PlayerUID
    BY DEF OtherInfos
  <2> HIDE DEF others
  <2> QED
    BY <2>1, <2>4, <2>5 DEF Next, MainThread, Handled
<1>4. CASE OnUpdatePlayer
  <2>1. OnGameMessage({})
    BY <1>4 DEF OnUpdatePlayer
  <2> QED
    BY <2>1 DEF Next, MainThread
<1>5. CASE ServerThread /\ ~OnRegisterPlayer /\ ~OnUpdatePlayer
  BY <1>5 DEF ServerThread, ServerFrame, CollectPlayer, ServerOnRegister, Reply, Forward, Next, MainThread
<1>6. CASE UNCHANGED allVars
  BY <1>6 DEF allVars
<1> QED
  BY <1>1, <1>2, <1>3, <1>4, <1>5, <1>6 DEF GameNext

(* What each step does to the infos.                                       *)
LEMMA RosterStep ==
  ASSUME RosterInv, [GameNext]_allVars
  PROVE  InfosTable' /\ KnownRegistered'
<1> USE DEF asioVars, mainVars
<1>a. TypeOK /\ OwnUids /\ InfosTable /\ KnownRegistered
  BY DEF RosterInv
<1>b. ASSUME UNCHANGED <<infos, player_uids>>
      PROVE  InfosTable' /\ KnownRegistered'
  BY <1>a, <1>b DEF InfosTable, KnownRegistered
<1>1. ASSUME NEW c \in Conn, Serve(c) \/ Close(c) \/ Launch(c)
      PROVE  UNCHANGED <<infos, player_uids>>
  BY <1>1 DEF Serve, Validate, Reject, Read, Close, Launch, gameVars,
              OnClientValidated, SocketClose, ReadRegister, ReadGame,
              AddToIncomingMessageQueue, WaitForClientConnection
<1>2. ASSUME NEW c \in Conn, ClientHandles(c) \/ Stop(c) \/ \E dir \in Dirs : Move(c, dir)
      PROVE  UNCHANGED <<infos, player_uids>>
  BY <1>2 DEF ClientHandles, Answer, OnAccept, OnClientDisconnected, OnServerRegister,
              OnServerUpdate, OnUnknownUpdate, Stop, Move, vars, gameVars
<1>3. ASSUME NEW cid \in Conn \union {NoConn}, CollectPlayer(cid)
      PROVE  InfosTable' /\ KnownRegistered'
  <2>1. /\ infos' = Without(infos, PuidOfGarbage(cid))
        /\ player_uids' = UidsWithout(cid)
    BY <1>3 DEF CollectPlayer, Collect
  <2>2. InfosTable'
    BY <2>1 DEF InfosTable, Without
  <2>3. ASSUME NEW p \in PlayerUID, infos'[p] # NoPos
        PROVE  \E c \in Conn : player_uids'[c] = p
    <3>1. p # PuidOfGarbage(cid) /\ infos[p] # NoPos
      BY <2>1, <2>3 DEF Without
    <3>2. PICK c \in Conn : player_uids[c] = p
      BY <1>a, <3>1 DEF KnownRegistered
    <3>3. c # cid
      BY <3>1, <3>2, ConnAssumption DEF PuidOfGarbage
    <3> QED
      BY <2>1, <3>2, <3>3 DEF UidsWithout
  <2> QED
    BY <2>2, <2>3 DEF KnownRegistered
<1>4. CASE ServerOnRegister
  <2> DEFINE c == Head(qMessagesIn).conn
  <2>1. UNCHANGED infos
    BY <1>4 DEF ServerOnRegister, gameVars
  <2>2. \/ UNCHANGED player_uids
        \/ /\ player_uids[c] = NoUid
           /\ player_uids' = [player_uids EXCEPT ![c] = Head(qMessagesIn).body]
    BY <1>4 DEF ServerOnRegister, OnRegister, Registered
  <2>3. ASSUME NEW p \in PlayerUID, NEW d \in Conn, player_uids[d] = p
        PROVE  player_uids'[d] = p
    BY <1>a, <2>2, <2>3, PuidAssumption DEF TypeOK
  <2> QED
    BY <1>a, <2>1, <2>3 DEF InfosTable, KnownRegistered
<1>5. ASSUME NEW others, OnGameMessage(others)
      PROVE  /\ UNCHANGED player_uids
             /\ Handled.conn \in Conn
             /\ player_uids[Handled.conn] = PuidOf[Handled.conn]
  <2>1. /\ qMessagesIn # <<>> /\ Registered(Handled.conn, player_uids)
        /\ UNCHANGED player_uids
    BY <1>5 DEF OnGameMessage, Incoming, Handled
  <2>2. Handled \in RegisterMsg \union GameMsg
    BY <1>a, <2>1 DEF Handled, TypeOK
  <2>3. Handled.conn \in Conn
    BY <2>2 DEF RegisterMsg, GameMsg
  <2> QED
    BY <1>a, <2>1, <2>3 DEF OwnUids, Registered
<1>6. CASE OnRegisterPlayer
  <2> DEFINE puid == PuidOf[Handled.conn]
             known == With(infos, puid, Handled.body.pos)
  <2>1. infos' = known /\ OnGameMessage(OtherInfos(known, puid))
    BY <1>6 DEF OnRegisterPlayer
  <2>2. /\ UNCHANGED player_uids
        /\ Handled.conn \in Conn /\ player_uids[Handled.conn] = puid
    BY <1>5, <2>1
  <2>3. ASSUME NEW p \in PlayerUID, p # puid
        PROVE  known[p] = infos[p]
    BY <1>a, <2>3 DEF With, InfosTable
  <2>4. known = [p \in PlayerUID |-> known[p]]
    BY <1>a DEF With, InfosTable
  <2> HIDE DEF known
  <2> QED
    BY <1>a, <2>1, <2>2, <2>3, <2>4 DEF InfosTable, KnownRegistered
<1>7. CASE OnUpdatePlayer
  <2> DEFINE puid == player_uids[Handled.conn]
             info == InfoAfter(infos[puid], Unpacked(Handled.body.pos))
  <2>1. infos' = [infos EXCEPT ![puid] = info] /\ OnGameMessage({})
    BY <1>7 DEF OnUpdatePlayer
  <2>2. UNCHANGED player_uids /\ Handled.conn \in Conn
    BY <1>5, <2>1
  <2> HIDE DEF info
  <2>3. infos' = [p \in PlayerUID |-> IF p = puid THEN info ELSE infos[p]]
    BY <1>a, <2>1 DEF InfosTable
  <2> QED
    BY <1>a, <2>2, <2>3 DEF InfosTable, KnownRegistered
<1>8. CASE ServerFrame \/ Forward \/ \E other \in replies : Reply(other)
  BY <1>b, <1>8 DEF ServerFrame, Forward, Reply, gameVars, BeginUpdate, ClearGarbage,
                    DropUnregistered, EndUpdate, SendAll, Send
<1>9. CASE UNCHANGED allVars
  BY <1>b, <1>9 DEF allVars, vars, gameVars
<1> QED
  BY <1>b, <1>1, <1>2, <1>3, <1>4, <1>6, <1>7, <1>8, <1>9 DEF GameNext, ServerThread

(* Minicraft is a server that EngineServer describes, for any number of    *)
(* clients, and whether or not their uids differ: its handler tells only   *)
(* of registered players other than the sender.                            *)
THEOREM Implements == GameSpec => EngineSpec
<1>1. GameInit => RosterInv
  BY TypeInit, EmptySequence
     DEF GameInit, Init, RosterInv, TypeInv, OwnUids, OwnRegisters, InfosTable, KnownRegistered, Nobody
<1>2. RosterInv /\ [GameNext]_allVars => RosterInv'
  BY StepSimulation, RosterStep, OwnStep, TypeStep, HandlerStep DEF RosterInv
<1>3. RosterInv /\ [GameNext]_allVars => [Next]_vars
  BY StepSimulation
<1>4. GameInit => Init
  BY DEF GameInit
<1> QED
  BY <1>1, <1>2, <1>3, <1>4, PTL DEF GameSpec, EngineSpec

(* The game server stays up: what is proved of EngineServer holds of it.   *)
THEOREM GameServerStaysUp ==
  ASSUME UniquePuids PROVE GameSpec => [](TablesAgree /\ ServerStaysUp /\ DroppedIsDismissed)
<1>1. EngineSpec <=> Spec
  BY DEF EngineSpec, Spec
<1> QED
  BY <1>1, Implements, TablesCorrect, DroppedAreDismissed, PTL

-----------------------------------------------------------------------------
(* What is left of a queue when its head is taken.                         *)
LEMMA TailFacts ==
  ASSUME NEW S, NEW s \in Seq(S), s # <<>>
  PROVE  /\ Tail(s) \in Seq(S) /\ Len(s) \in Nat /\ Len(Tail(s)) = Len(s) - 1
         /\ Head(s) = s[1] /\ Head(s) \in S /\ 1 \in 1..Len(s)
         /\ \A i \in 1..Len(Tail(s)) : i + 1 \in 1..Len(s) /\ Tail(s)[i] = s[i + 1]
         /\ \A i \in 1..Len(s) : i = 1 \/ (i - 1 \in 1..Len(Tail(s)) /\ Tail(s)[i - 1] = s[i])
OBVIOUS

(* What a queue is when a message was put at its end.                      *)
LEMMA AppendFacts ==
  ASSUME NEW S, NEW s \in Seq(S), NEW m \in S
  PROVE  /\ Append(s, m) \in Seq(S) /\ Len(s) \in Nat /\ Len(Append(s, m)) = Len(s) + 1
         /\ \A i \in 1..Len(s) : i \in 1..Len(Append(s, m)) /\ Append(s, m)[i] = s[i]
         /\ Append(s, m)[Len(s) + 1] = m
         /\ \A i \in 1..Len(Append(s, m)) : i \in 1..Len(s) \/ i = Len(s) + 1
OBVIOUS

(* One message or two at the end of a queue.                               *)
LEMMA ConcatFacts ==
  ASSUME NEW S, NEW s \in Seq(S), NEW m \in S, NEW n \in S
  PROVE  /\ s \o <<m>> = Append(s, m)
         /\ s \o <<m, n>> = Append(Append(s, m), n)
OBVIOUS

(* A queue with a place in it is not empty.                                *)
LEMMA NotEmpty ==
  ASSUME NEW S, NEW s \in Seq(S), NEW i \in 1..Len(s)
  PROVE  s # <<>>
OBVIOUS

-----------------------------------------------------------------------------
(* What the proofs of EngineServer and of Minicraft's refinement show.     *)
EngineInv ==
  /\ TypeOK /\ HandlesRegistered /\ TableInv /\ SocketInv /\ QueueInv /\ StreamInv
  /\ InfosTable /\ KnownRegistered

(* It holds at the start, and steps of the game preserve it: they are      *)
(* steps of EngineServer, whose proofs apply. A goodbye stays the last     *)
(* message.                                                                *)
LEMMA EngineInit == GameInit => EngineInv
BY TypeInit, TableInit, SocketInit, QueueInit, StreamInit
   DEF GameInit, EngineInv, TypeInv, Init, InfosTable, KnownRegistered, Nobody

LEMMA EngineStep ==
  ASSUME UniquePuids, EngineInv, [GameNext]_allVars
  PROVE  /\ [Next]_vars /\ EngineInv'
         /\ \A d \in Conn, p \in PlayerUID :
              last[d][p] = "CLIENT_DISCONNECTED" => last'[d][p] = "CLIENT_DISCONNECTED"
<1>1. RosterInv
  BY DEF EngineInv, RosterInv, TableInv
<1>2. [Next]_vars
  BY <1>1, StepSimulation
<1>3. InfosTable' /\ KnownRegistered'
  BY <1>1, RosterStep
<1>4. TypeOK' /\ HandlesRegistered' /\ TableInv' /\ SocketInv' /\ QueueInv'
  BY <1>2, TypeStep, HandlerStep, TableStep, SocketStep, QueueStep DEF EngineInv
<1>5. /\ StreamInv'
      /\ \A d \in Conn, p \in PlayerUID :
            last[d][p] = "CLIENT_DISCONNECTED" => last'[d][p] = "CLIENT_DISCONNECTED"
  BY <1>2, <1>4, StreamStep DEF EngineInv
<1> QED
  BY <1>2, <1>3, <1>4, <1>5 DEF EngineInv

(* The sender of a game message is registered, under his own uid.          *)
LEMMA Sender ==
  ASSUME EngineInv, NEW others, OnGameMessage(others)
  PROVE  /\ qMessagesIn # <<>> /\ Handled \in GameMsg /\ Handled = qMessagesIn[1]
         /\ Handled.conn \in Conn /\ Handled.body \in GameBody
         /\ Registered(Handled.conn, player_uids)
         /\ player_uids[Handled.conn] = PuidOf[Handled.conn] /\ PuidOf[Handled.conn] \in PlayerUID
<1>1. qMessagesIn # <<>> /\ Registered(Handled.conn, player_uids) /\ Handled.id = "GAME_MESSAGE"
  BY DEF OnGameMessage, Incoming, Handled
<1>2. Handled \in RegisterMsg \union GameMsg /\ Handled = qMessagesIn[1]
  BY <1>1 DEF Handled, EngineInv, TypeOK
<1>3. Handled \in GameMsg
  BY <1>1, <1>2 DEF RegisterMsg
<1>4. Handled.conn \in Conn /\ Handled.body \in GameBody
  BY <1>3 DEF GameMsg
<1> QED
  BY <1>1, <1>2, <1>3, <1>4, PuidAssumption DEF EngineInv, TableInv, OwnUids, Registered

(* Server::send_all ignores, and Server::send addresses, that sender.      *)
LEMMA Addressee ==
  ASSUME EngineInv, pc = "handler"
  PROVE  /\ current \in Conn /\ player_uids[current] = PuidOf[current]
         /\ PuidOf[current] \in PlayerUID /\ Target = current
<1>1. current \in Conn /\ Registered(current, player_uids)
  BY DEF EngineInv, TypeOK, HandlesRegistered
<1>2. player_uids[current] = PuidOf[current] /\ PuidOf[current] \in PlayerUID
  BY <1>1, PuidAssumption DEF EngineInv, TableInv, OwnUids, Registered
<1> QED
  BY <1>1, <1>2 DEF EngineInv, TableInv, TablesAgree, Target

(* The garbage loop only meets sockets that are closed.                    *)
LEMMA Collected ==
  ASSUME EngineInv, NEW cid \in Conn \union {NoConn}, Collect(cid)
  PROVE  /\ pc = "gc" /\ replies = {}
         /\ cid \in Conn => sock[cid] \in {"shut", "closed"}
         /\ \/ PuidOfGarbage(cid) = NoUid
            \/ cid \in Conn /\ PuidOfGarbage(cid) = PuidOf[cid] /\ Registered(cid, player_uids)
         /\ PuidOfGarbage(cid) \in PlayerUID \union {NoUid}
<1>1. pc = "gc" /\ gcPos <= gcEnd /\ cid \in NextGarbage
  BY DEF Collect
<1>2. replies = {}
  BY <1>1 DEF EngineInv, StreamInv, RepliesKnown
<1>3. gcPos \in 1..Len(garbage)
  BY <1>1 DEF EngineInv, TypeOK
<1>4. cid \in Conn => sock[cid] \in {"shut", "closed"}
  BY <1>1, <1>3, ConnAssumption DEF NextGarbage, EngineInv, SocketInv, GarbageIsClosed
<1> QED
  BY <1>1, <1>2, <1>4, PuidAssumption, ConnAssumption
     DEF PuidOfGarbage, EngineInv, TableInv, OwnUids, Registered

-----------------------------------------------------------------------------
(* The data: positions and game messages.                                  *)
Info == RegisterPlayer(SPAWN_POS)

(* The positions n steps lead to grow with n, one step at a time.          *)
LEMMA NearFacts ==
  ASSUME NEW n \in Nat
  PROVE  /\ SPAWN_POS \in Near(n) /\ Near(n) \subseteq Int \X Int /\ NoPos \notin Near(n)
         /\ \A m \in Nat : n <= m => Near(n) \subseteq Near(m)
         /\ \A pos \in Near(n), dir \in Dirs :
              <<pos[1] + dir[1], pos[2] + dir[2]>> \in Near(n + 1)
<1>1. SPAWN_POS[1] \in Int /\ SPAWN_POS[2] \in Int /\ SPAWN_POS = <<SPAWN_POS[1], SPAWN_POS[2]>>
  BY PosAssumption
<1>2. SPAWN_POS = <<SPAWN_POS[1] + 0, SPAWN_POS[2] + 0>> /\ 0 \in -n..n
  BY <1>1
<1>3. SPAWN_POS \in Near(n)
  BY <1>2 DEF Near
<1>4. Near(n) \subseteq Int \X Int
  BY <1>1 DEF Near
<1>5. ASSUME NEW m \in Nat, n <= m
      PROVE  Near(n) \subseteq Near(m)
  <2>1. -n..n \subseteq -m..m
    BY <1>5
  <2> QED
    BY <2>1 DEF Near
<1>6. ASSUME NEW pos \in Near(n), NEW dir \in Dirs
      PROVE  <<pos[1] + dir[1], pos[2] + dir[2]>> \in Near(n + 1)
  <2>1. PICK i \in -n..n, j \in -n..n : pos = <<SPAWN_POS[1] + i, SPAWN_POS[2] + j>>
    BY DEF Near
  <2>2. dir[1] \in -1..1 /\ dir[2] \in -1..1
    BY MoveAssumption
  <2>3. /\ i + dir[1] \in -(n + 1)..(n + 1) /\ j + dir[2] \in -(n + 1)..(n + 1)
        /\ pos[1] + dir[1] = SPAWN_POS[1] + (i + dir[1])
        /\ pos[2] + dir[2] = SPAWN_POS[2] + (j + dir[2])
    BY <1>1, <2>1, <2>2
  <2> QED
    BY <2>3 DEF Near
<1> QED
  BY <1>3, <1>4, <1>5, <1>6, PosAssumption

(* Positions are not NoPos, and the kinds of message can be told apart.    *)
LEMMA BodyFacts ==
  /\ SPAWN_POS \in Positions /\ Positions \subseteq Int \X Int /\ NoPos \notin Positions
  /\ Info \in GameBody /\ Info.op = "REGISTER_PLAYER" /\ Info.pos = SPAWN_POS
  /\ \A pos \in Positions : UpdatePlayer(pos) \in GameBody /\ UpdatePlayer(pos) # Info
                               /\ UpdatePlayer(pos).pos = pos
  /\ \A body \in GameBody :
       /\ body.pos \in Positions /\ body # Register /\ body # Handshake /\ body # NoBody
       /\ body.op = "REGISTER_PLAYER" => body = Info
       /\ body.op \in {"REGISTER_PLAYER", "UPDATE_PLAYER"}
  /\ Handshake # Register /\ Info # Handshake /\ Info # Register
<1>1. SPAWN_POS \in Positions /\ Positions \subseteq Int \X Int /\ NoPos \notin Positions
  BY NearFacts, MoveAssumption DEF Positions
<1>2. Info \in GameBody /\ \A pos \in Positions : UpdatePlayer(pos) \in GameBody
  BY BodyAssumption DEF Bodies, Info
<1>3. ASSUME NEW body \in GameBody
      PROVE  body = Info \/ \E pos \in Positions : body = UpdatePlayer(pos)
  BY BodyAssumption DEF Bodies, Info
<1> QED
  BY <1>1, <1>2, <1>3, BodyAssumption DEF Info, RegisterPlayer, UpdatePlayer, Handshake, Register

-----------------------------------------------------------------------------
(* The first layer: types, and that a client's own player stays his own.   *)

(* A client's steps lead no further than their number.                     *)
OwnNear == \A c \in Conn : Alive(c) => view[c][PuidOf[c]] \in Near(moves)

(* The i-th message that waits for c is about player p.                    *)
Concerns(msg, p) == msg.op # "ACCEPT_CONNECTION" /\ msg.uid = p
Tells(c, i, p) == Concerns(toClient[c][i], p)

NotToldOfSelf == \A c \in Conn : \A i \in 1..Len(toClient[c]) : ~Tells(c, i, PuidOf[c])

(* The replies that are due are about others, who have an info.            *)
RepliesNews == \A p \in replies : infos[p] # NoPos /\ p # player_uids[current]

(* A client that is off, or gone, has no message waiting and no player.    *)
DeadHoldsNothing == \A c \in Conn : ~Alive(c) => toClient[c] = <<>> /\ view[c] = Nobody

(* Nothing waits on a socket that no read looks at.                        *)
ClosedIsUnread == \A c \in Conn : sock[c] = "closed" => toServer[c] = <<>>

OwnInv ==
  GameTypeOK /\ OwnNear /\ NotToldOfSelf /\ RepliesNews /\ DeadHoldsNothing /\ ClosedIsUnread

(* What a step puts into, or takes out of, the messages that wait for c.   *)
LEMMA Inbox ==
  ASSUME UniquePuids, EngineInv, OwnInv, [GameNext]_allVars, NEW c \in Conn
  PROVE  \/ UNCHANGED toClient[c]
         \/ toClient'[c] = <<>> /\ ~Alive(c)'
         \/ /\ toClient[c] # <<>> /\ toClient'[c] = Tail(toClient[c])
            /\ OnAccept(c) \/ OnClientDisconnected(c) \/ OnServerRegister(c) \/ OnServerUpdate(c)
         \/ /\ Alive(c) /\ Validate(c)
            /\ toClient'[c] = Append(toClient[c], Accept)
         \/ /\ Alive(c) /\ c \in Reached(NoConn)
            /\ \E cid \in Conn \union {NoConn} :
                 /\ CollectPlayer(cid) /\ cid # c
                 /\ toClient'[c] = Append(toClient[c], Disconnected(PuidOfGarbage(cid)))
         \/ /\ Alive(c) /\ IsConnected(c) /\ pc = "handler" /\ c = current
            /\ \E other \in replies :
                 /\ Reply(other)
                 /\ toClient'[c] = Append(toClient[c], About(other, RegisterPlayer(infos[other])))
         \/ /\ Alive(c) /\ c \in Reached(current) /\ pc = "handler" /\ Forward
            /\ toClient'[c] = Append(toClient[c], About(PuidOf[current], handling))
<1> DEFINE Goal == \/ UNCHANGED toClient[c]
                   \/ toClient'[c] = <<>> /\ ~Alive(c)'
                   \/ /\ toClient[c] # <<>> /\ toClient'[c] = Tail(toClient[c])
                      /\ OnAccept(c) \/ OnClientDisconnected(c) \/ OnServerRegister(c) \/ OnServerUpdate(c)
<1>0. /\ toClient \in [Conn -> Seq(ToClientMsg)] /\ client \in [Conn -> ClientState]
  BY DEF OwnInv, GameTypeOK
<1>1. ASSUME UNCHANGED toClient
      PROVE  Goal
  BY <1>1
<1>2. ASSUME NEW d \in Conn, Reject(d) \/ Close(d) \/ Read(d) \/ Launch(d) \/ Answer(d)
                             \/ \E dir \in Dirs : Move(d, dir)
      PROVE  Goal
  BY <1>2 DEF Reject, Close, Read, Launch, Answer, Move
<1>3. ASSUME NEW d \in Conn, OnAccept(d) \/ OnClientDisconnected(d) \/ OnServerRegister(d) \/ OnServerUpdate(d)
      PROVE  Goal
  <2>1. toClient[d] # <<>> /\ toClient' = [toClient EXCEPT ![d] = Tail(@)]
    BY <1>3 DEF OnAccept, OnClientDisconnected, OnServerRegister, OnServerUpdate, Received, Handle
  <2> QED
    BY <1>0, <1>3, <2>1
<1>4. ASSUME NEW d \in Conn, OnUnknownUpdate(d) \/ Stop(d)
      PROVE  Goal
  <2>1. /\ toClient' = [toClient EXCEPT ![d] = <<>>]
        /\ \/ client' = [client EXCEPT ![d] = "crashed"]
           \/ client' = [client EXCEPT ![d] = "stopped"]
    BY <1>4 DEF OnUnknownUpdate, Stop
  <2> QED
    BY <1>0, <2>1 DEF Alive
<1>5. CASE ServerFrame \/ ServerOnRegister \/ OnRegisterPlayer \/ OnUpdatePlayer \/ UNCHANGED allVars
  BY <1>5 DEF ServerFrame, ServerOnRegister, OnRegisterPlayer, OnUpdatePlayer, clientVars, allVars
<1>6. ASSUME NEW d \in Conn, Validate(d)
      PROVE  \/ Goal
             \/ /\ Alive(c) /\ Validate(c)
                /\ toClient'[c] = Append(toClient[c], Accept)
  BY <1>6 DEF Validate, Posted, Enqueue
<1>7. ASSUME NEW cid \in Conn \union {NoConn}, CollectPlayer(cid)
      PROVE  \/ Goal
             \/ /\ Alive(c) /\ c \in Reached(NoConn) /\ CollectPlayer(cid) /\ cid # c
                /\ toClient'[c] = Append(toClient[c], Disconnected(PuidOfGarbage(cid)))
  <2>1. Collect(cid) /\ toClient' = Posted(Reached(NoConn), Disconnected(PuidOfGarbage(cid)))
    BY <1>7 DEF CollectPlayer
  <2>2. c \in Reached(NoConn) => cid # c
    BY <2>1, Collected DEF Reached, IsConnected
  <2> QED
    BY <1>7, <2>1, <2>2 DEF Posted, Enqueue
<1>8. ASSUME NEW other \in replies, Reply(other)
      PROVE  \/ Goal
             \/ /\ Alive(c) /\ IsConnected(c) /\ pc = "handler" /\ c = current
                /\ toClient'[c] = Append(toClient[c], About(other, RegisterPlayer(infos[other])))
  <2>1. pc = "handler"
    BY <1>8 DEF Reply, Send
  <2>2. Target = current
    BY <2>1, Addressee
  <2> QED
    BY <1>8, <2>1, <2>2 DEF Reply, Posted, Enqueue
<1>9. CASE Forward
  <2>1. pc = "handler"
    BY <1>9 DEF Forward, SendAll
  <2>2. Target = current /\ player_uids[current] = PuidOf[current]
    BY <2>1, Addressee
  <2>3. toClient' = Posted(Reached(current), About(PuidOf[current], handling))
    BY <1>9, <2>2 DEF Forward
  <2> QED
    BY <1>9, <2>1, <2>3 DEF Posted, Enqueue
<1> QED
  BY <1>2, <1>3, <1>4, <1>5, <1>6, <1>7, <1>8, <1>9
     DEF GameNext, ServerThread, Serve, ClientHandles

(* The tables of the game layer.                                           *)
LEMMA TablesTyped ==
  ASSUME EngineInv, OwnInv, [GameNext]_allVars
  PROVE  /\ infos' \in [PlayerUID -> (Int \X Int) \union {NoPos}]
         /\ places' \in [PlayerUID -> Positions \union {NoPos}]
<1>0. /\ infos \in [PlayerUID -> (Int \X Int) \union {NoPos}]
      /\ places \in [PlayerUID -> Positions \union {NoPos}]
  BY DEF OwnInv, GameTypeOK
<1>1. ASSUME NEW c \in Conn,
             Serve(c) \/ Close(c) \/ Launch(c) \/ ClientHandles(c) \/ Stop(c) \/ \E dir \in Dirs : Move(c, dir)
      PROVE  UNCHANGED <<infos, places>>
  BY <1>1 DEF Serve, Validate, Reject, Close, Read, Launch, ClientHandles, Answer, OnAccept,
              OnClientDisconnected, OnServerRegister, OnServerUpdate, OnUnknownUpdate, Stop, Move, gameVars
<1>2. CASE ServerFrame \/ ServerOnRegister \/ Forward \/ (\E other \in replies : Reply(other))
           \/ UNCHANGED allVars
  BY <1>0, <1>2 DEF ServerFrame, ServerOnRegister, Forward, Reply, allVars, gameVars
<1>3. ASSUME NEW cid \in Conn \union {NoConn}, CollectPlayer(cid)
      PROVE  /\ infos' \in [PlayerUID -> (Int \X Int) \union {NoPos}]
             /\ places' \in [PlayerUID -> Positions \union {NoPos}]
  BY <1>0, <1>3 DEF CollectPlayer, Without
<1>4. ASSUME NEW others, OnGameMessage(others)
      PROVE  /\ Handled.body.pos \in Positions /\ Handled.body.pos \in Int \X Int
             /\ PuidOf[Handled.conn] \in PlayerUID /\ player_uids[Handled.conn] = PuidOf[Handled.conn]
  BY <1>4, Sender, BodyFacts
<1>5. CASE OnRegisterPlayer
  BY <1>0, <1>4, <1>5 DEF OnRegisterPlayer, With
<1>6. CASE OnUpdatePlayer
  <2> DEFINE p == PuidOf[Handled.conn]
             pos == Handled.body.pos
  <2>1. pos \in Positions /\ pos \in Int \X Int /\ p \in PlayerUID /\ player_uids[Handled.conn] = p
    BY <1>4, <1>6 DEF OnUpdatePlayer
  <2>2. /\ infos' = [infos EXCEPT ![p] = InfoAfter(infos[p], pos)]
        /\ places' = [places EXCEPT ![p] = IF places[p] = NoPos THEN NoPos ELSE pos]
    BY <1>6, <2>1 DEF OnUpdatePlayer, Unpacked
  <2>3. InfoAfter(infos[p], pos) \in Int \X Int
    BY <1>0, <2>1 DEF InfoAfter
  <2> QED
    BY <1>0, <2>1, <2>2, <2>3
<1> QED
  BY <1>0, <1>1, <1>2, <1>3, <1>5, <1>6 DEF GameNext, ServerThread

(* The handler's message, and the replies that are due.                    *)
LEMMA HandlingTyped ==
  ASSUME EngineInv, OwnInv, EngineInv', [GameNext]_allVars
  PROVE  /\ handling' \in IF pc' = "handler" THEN GameBody ELSE {NoBody}
         /\ RepliesNews'
<1> USE DEF asioVars, mainVars
<1>0. /\ handling \in IF pc = "handler" THEN GameBody ELSE {NoBody}
      /\ infos \in [PlayerUID -> (Int \X Int) \union {NoPos}]
      /\ RepliesNews
  BY DEF OwnInv, GameTypeOK
<1>a. ASSUME UNCHANGED <<pc, handling, current, player_uids, infos>>, replies' \subseteq replies
      PROVE  handling' \in (IF pc' = "handler" THEN GameBody ELSE {NoBody}) /\ RepliesNews'
  BY <1>0, <1>a DEF RepliesNews
<1>b. ASSUME replies' = {}, pc # "handler", pc' # "handler", UNCHANGED handling
      PROVE  handling' \in (IF pc' = "handler" THEN GameBody ELSE {NoBody}) /\ RepliesNews'
  BY <1>0, <1>b DEF RepliesNews
<1>1. ASSUME NEW c \in Conn, Serve(c) \/ Close(c) \/ Launch(c)
      PROVE  UNCHANGED <<pc, handling, current, player_uids, infos, replies>>
  BY <1>1 DEF Serve, Validate, Reject, Close, Read, Launch, OnClientValidated, SocketClose, ReadRegister,
              ReadGame, AddToIncomingMessageQueue, WaitForClientConnection, gameVars
<1>2. ASSUME NEW c \in Conn, ClientHandles(c) \/ Stop(c) \/ \E dir \in Dirs : Move(c, dir)
      PROVE  UNCHANGED <<pc, handling, current, player_uids, infos, replies>>
  BY <1>2 DEF ClientHandles, Answer, OnAccept, OnClientDisconnected, OnServerRegister, OnServerUpdate,
              OnUnknownUpdate, Stop, Move, vars, gameVars
<1>3. CASE ServerFrame \/ ServerOnRegister \/ \E cid \in Conn \union {NoConn} : CollectPlayer(cid)
  <2>1. pc # "handler" /\ pc' # "handler" /\ pc \notin {"handler", "crashed"} /\ UNCHANGED <<handling, replies>>
    BY <1>3 DEF ServerFrame, BeginUpdate, ClearGarbage, DropUnregistered, EndUpdate, ServerOnRegister,
                OnRegister, Incoming, CollectPlayer, Collect, gameVars
  <2>2. replies = {}
    BY <2>1 DEF EngineInv, StreamInv, RepliesKnown
  <2> QED
    BY <1>b, <2>1, <2>2
<1>4. CASE OnRegisterPlayer
  <2> DEFINE p == PuidOf[Handled.conn]
             known == With(infos, p, Handled.body.pos)
  <2>1. /\ OnGameMessage(OtherInfos(known, p)) /\ infos' = known /\ handling' = Handled.body
    BY <1>4 DEF OnRegisterPlayer
  <2>2. player_uids[Handled.conn] = p /\ Handled.body \in GameBody
    BY <2>1, Sender
  <2>3. /\ pc' = "handler" /\ current' = Handled.conn /\ replies' = OtherInfos(known, p)
        /\ UNCHANGED player_uids
    BY <2>1 DEF OnGameMessage, Handled
  <2> HIDE DEF known
  <2>4. RepliesNews'
    BY <2>1, <2>2, <2>3 DEF RepliesNews, OtherInfos
  <2> QED
    BY <2>1, <2>2, <2>3, <2>4
<1>5. CASE OnUpdatePlayer
  <2>1. OnGameMessage({}) /\ handling' = Handled.body
    BY <1>5 DEF OnUpdatePlayer
  <2>2. pc' = "handler" /\ replies' = {} /\ Handled.body \in GameBody
    BY <2>1, Sender DEF OnGameMessage
  <2> QED
    BY <2>1, <2>2 DEF RepliesNews
<1>6. ASSUME NEW other \in replies, Reply(other)
      PROVE  UNCHANGED <<pc, handling, current, player_uids, infos>> /\ replies' \subseteq replies
  <2>1. pc = "handler" /\ pc' # "crashed"
    BY <1>6 DEF Reply, Send, EngineInv, TableInv, ServerStaysUp
  <2> QED
    BY <1>6, <2>1 DEF Reply, Send, gameVars
<1>7. CASE Forward
  BY <1>7 DEF Forward, SendAll, HandlingDone, RepliesNews
<1>8. CASE UNCHANGED allVars
  BY <1>a, <1>8 DEF allVars, vars, gameVars
<1> QED
  BY <1>a, <1>1, <1>2, <1>3, <1>4, <1>5, <1>6, <1>7, <1>8 DEF GameNext, ServerThread

(* The clients: their views, and what they send.                           *)
LEMMA ClientsTyped ==
  ASSUME UniquePuids, EngineInv, OwnInv, [GameNext]_allVars
  PROVE  /\ client' \in [Conn -> ClientState] /\ synced' \in [Conn -> BOOLEAN]
         /\ view' \in [Conn -> [PlayerUID -> (Int \X Int) \union {NoPos}]]
         /\ moves' \in 0..MaxMoves
         /\ toServer' \in [Conn -> Seq(ToServerMsg)]
         /\ OwnNear'
<1> DEFINE Table == [PlayerUID -> (Int \X Int) \union {NoPos}]
<1>0. /\ client \in [Conn -> ClientState] /\ synced \in [Conn -> BOOLEAN]
      /\ view \in [Conn -> Table]
      /\ moves \in 0..MaxMoves /\ MaxMoves \in Nat /\ moves \in Nat
      /\ toServer \in [Conn -> Seq(ToServerMsg)] /\ toClient \in [Conn -> Seq(ToClientMsg)]
      /\ OwnNear /\ NotToldOfSelf
      /\ \A c \in Conn : PuidOf[c] \in PlayerUID
  BY MoveAssumption, PuidAssumption DEF OwnInv, GameTypeOK
<1>1. ASSUME UNCHANGED <<client, synced, view, moves>>
      PROVE  client' \in [Conn -> ClientState] /\ synced' \in [Conn -> BOOLEAN] /\ view' \in [Conn -> Table]
             /\ moves' \in 0..MaxMoves /\ OwnNear'
  BY <1>0, <1>1 DEF OwnNear, Alive
<1>3. ASSUME UNCHANGED toServer
      PROVE  toServer' \in [Conn -> Seq(ToServerMsg)]
  BY <1>0, <1>3
<1>4. ASSUME NEW c \in Conn, NEW msgs \in Seq(ToServerMsg), toServer' = Sent(c, msgs)
      PROVE  toServer' \in [Conn -> Seq(ToServerMsg)]
  BY <1>0, <1>4 DEF Sent
<1>5. ASSUME NEW c \in Conn, toServer[c] # <<>>,
             \/ toServer' = [toServer EXCEPT ![c] = Tail(@)]
             \/ toServer' = Unread(toServer)
             \/ toServer' = Unread([toServer EXCEPT ![c] = Tail(@)])
      PROVE  toServer' \in [Conn -> Seq(ToServerMsg)]
  <2>1. toServer[c] \in Seq(ToServerMsg) /\ Tail(toServer[c]) \in Seq(ToServerMsg)
    BY <1>0, <1>5, TailFacts
  <2>2. [toServer EXCEPT ![c] = Tail(@)] \in [Conn -> Seq(ToServerMsg)]
    BY <1>0, <2>1
  <2>3. \A queues \in [Conn -> Seq(ToServerMsg)] : Unread(queues) \in [Conn -> Seq(ToServerMsg)]
    BY DEF Unread
  <2> QED
    BY <1>0, <1>5, <2>2, <2>3
<1>6. /\ <<Handshake>> \in Seq(ToServerMsg) /\ Introduction \in Seq(ToServerMsg)
      /\ \A pos \in Positions : <<UpdatePlayer(pos)>> \in Seq(ToServerMsg)
  BY BodyFacts DEF ToServerMsg, Introduction, Info
<1>11. ASSUME NEW c \in Conn, Serve(c) \/ Close(c)
       PROVE  UNCHANGED <<client, synced, view, moves>> /\ toServer' \in [Conn -> Seq(ToServerMsg)]
  <2>1. UNCHANGED <<client, synced, view, moves>>
    BY <1>11 DEF Serve, Validate, Reject, Close, Read
  <2>2. CASE Serve(c)
    BY <1>5, <2>2 DEF Serve, Validate, Reject, Read
  <2>3. CASE Close(c)
    BY <1>0, <2>3 DEF Close, Unread
  <2> QED
    BY <1>11, <2>1, <2>2, <2>3
<1>13. ASSUME NEW c \in Conn, Launch(c)
       PROVE  client' \in [Conn -> ClientState] /\ synced' \in [Conn -> BOOLEAN] /\ view' \in [Conn -> Table]
              /\ moves' \in 0..MaxMoves /\ OwnNear' /\ UNCHANGED toServer
  <2>1. /\ client' = [client EXCEPT ![c] = "connecting"] /\ client[c] = "off"
        /\ view' = [view EXCEPT ![c] = With(view[c], PuidOf[c], SPAWN_POS)]
        /\ UNCHANGED <<toServer, moves, synced>>
    BY <1>13 DEF Launch
  <2>2. view[c] = Nobody
    BY <2>1 DEF OwnInv, DeadHoldsNothing, Alive
  <2>3. With(view[c], PuidOf[c], SPAWN_POS) = [Nobody EXCEPT ![PuidOf[c]] = SPAWN_POS]
    BY <1>0, <2>2 DEF With, Nobody
  <2>4. view' = [view EXCEPT ![c] = [Nobody EXCEPT ![PuidOf[c]] = SPAWN_POS]]
    BY <2>1, <2>3
  <2>5. view' \in [Conn -> Table] /\ view'[c][PuidOf[c]] = SPAWN_POS
    BY <1>0, <2>4, PosAssumption DEF Nobody
  <2>6. SPAWN_POS \in Near(moves)
    BY <1>0, NearFacts
  <2>7. \A d \in Conn \ {c} : view'[d] = view[d] /\ client'[d] = client[d]
    BY <1>0, <2>1
  <2> QED
    BY <1>0, <2>1, <2>5, <2>6, <2>7 DEF OwnNear, Alive, ClientState
<1>14. ASSUME NEW c \in Conn, NEW dir \in Dirs, Move(c, dir)
       PROVE  client' \in [Conn -> ClientState] /\ synced' \in [Conn -> BOOLEAN] /\ view' \in [Conn -> Table]
              /\ moves' \in 0..MaxMoves /\ OwnNear' /\ toServer' \in [Conn -> Seq(ToServerMsg)]
  <2> DEFINE own == view[c][PuidOf[c]]
             pos == <<own[1] + dir[1], own[2] + dir[2]>>
  <2>1. /\ Alive(c) /\ moves < MaxMoves /\ moves' = moves + 1 /\ UNCHANGED client
        /\ view' = [view EXCEPT ![c][PuidOf[c]] = pos] /\ toServer' = Sent(c, <<UpdatePlayer(pos)>>)
        /\ synced' = [synced EXCEPT ![c] = (client[c] = "joined")]
    BY <1>14 DEF Move
  <2>2. own \in Near(moves)
    BY <1>0, <2>1 DEF OwnNear
  <2>3. pos \in Near(moves + 1)
    BY <1>0, <2>2, NearFacts
  <2>4. pos \in Positions /\ pos \in Int \X Int
    BY <1>0, <2>1, <2>3, NearFacts, BodyFacts DEF Positions
  <2>5. \A d \in Conn : Alive(d) => view[d][PuidOf[d]] \in Near(moves + 1)
    BY <1>0, NearFacts DEF OwnNear
  <2> HIDE DEF pos
  <2>6. /\ view'[c] = [view[c] EXCEPT ![PuidOf[c]] = pos]
        /\ \A d \in Conn \ {c} : view'[d] = view[d]
    BY <1>0, <2>1
  <2>7. view'[c] \in Table /\ view'[c][PuidOf[c]] = pos
    BY <1>0, <2>4, <2>6
  <2>8. view' \in [Conn -> Table]
    BY <1>0, <2>1, <2>6, <2>7
  <2>9. OwnNear'
    BY <2>1, <2>3, <2>5, <2>6, <2>7 DEF OwnNear, Alive
  <2>10. toServer' \in [Conn -> Seq(ToServerMsg)]
    BY <1>4, <1>6, <2>1, <2>4
  <2>11. synced' \in [Conn -> BOOLEAN] /\ moves' \in 0..MaxMoves
    BY <1>0, <2>1
  <2> QED
    BY <1>0, <2>1, <2>8, <2>9, <2>10, <2>11
<1>15. ASSUME NEW c \in Conn, Answer(c) \/ OnAccept(c)
       PROVE  client' \in [Conn -> ClientState] /\ synced' \in [Conn -> BOOLEAN] /\ view' \in [Conn -> Table]
              /\ moves' \in 0..MaxMoves /\ OwnNear' /\ toServer' \in [Conn -> Seq(ToServerMsg)]
  <2>1. /\ UNCHANGED <<view, moves, synced>>
        /\ \E state \in ClientState : client' = [client EXCEPT ![c] = state]
        /\ Alive(c)
    BY <1>15 DEF Answer, OnAccept, ClientState, Received, Alive
  <2>2. toServer' = Sent(c, <<Handshake>>) \/ toServer' = Sent(c, Introduction)
    BY <1>15 DEF Answer, OnAccept
  <2>3. client' \in [Conn -> ClientState] /\ \A d \in Conn : Alive(d)' => Alive(d)
    BY <1>0, <2>1 DEF Alive
  <2> QED
    BY <1>0, <1>4, <1>6, <2>1, <2>2, <2>3 DEF OwnNear
<1>16. ASSUME NEW c \in Conn, NEW table \in Table, UNCHANGED <<client, toServer, moves, synced>>,
              view' = [view EXCEPT ![c] = table], table[PuidOf[c]] = view[c][PuidOf[c]]
       PROVE  client' \in [Conn -> ClientState] /\ synced' \in [Conn -> BOOLEAN] /\ view' \in [Conn -> Table]
              /\ moves' \in 0..MaxMoves /\ OwnNear' /\ toServer' \in [Conn -> Seq(ToServerMsg)]
  BY <1>0, <1>16 DEF OwnNear, Alive
<1>17. ASSUME NEW c \in Conn, toClient[c] # <<>>
       PROVE  /\ Head(toClient[c]) \in ToClientMsg
              /\ Head(toClient[c]).op # "ACCEPT_CONNECTION" => Head(toClient[c]).uid # PuidOf[c]
  <2>1. toClient[c] \in Seq(ToClientMsg)
    BY <1>0
  <2>2. Head(toClient[c]) \in ToClientMsg /\ Head(toClient[c]) = toClient[c][1] /\ 1 \in 1..Len(toClient[c])
    BY <1>17, <2>1, TailFacts
  <2> QED
    BY <1>0, <2>2 DEF NotToldOfSelf, Tells, Concerns
<1>18. ASSUME NEW c \in Conn, OnClientDisconnected(c) \/ OnServerRegister(c) \/ OnServerUpdate(c)
       PROVE  client' \in [Conn -> ClientState] /\ synced' \in [Conn -> BOOLEAN] /\ view' \in [Conn -> Table]
              /\ moves' \in 0..MaxMoves /\ OwnNear' /\ toServer' \in [Conn -> Seq(ToServerMsg)]
  <2> DEFINE msg == Head(toClient[c])
             table == IF msg.op = "CLIENT_DISCONNECTED" THEN Without(view[c], msg.uid)
                      ELSE IF msg.op = "REGISTER_PLAYER" THEN With(view[c], msg.uid, msg.pos)
                      ELSE [view[c] EXCEPT ![msg.uid] = msg.pos]
  <2>1. /\ toClient[c] # <<>> /\ msg.op \in {"CLIENT_DISCONNECTED", "REGISTER_PLAYER", "UPDATE_PLAYER"}
        /\ UNCHANGED <<client, toServer, moves, synced>> /\ view' = [view EXCEPT ![c] = table]
    BY <1>18 DEF OnClientDisconnected, OnServerRegister, OnServerUpdate, Received, Leaver, StepTo
  <2>2. msg \in ToClientMsg /\ msg.uid # PuidOf[c]
    BY <1>17, <2>1
  <2>3. msg.op # "CLIENT_DISCONNECTED" => msg.uid \in PlayerUID /\ msg.pos \in Int \X Int
    BY <2>1, <2>2 DEF ToClientMsg, Accept
  <2>4. view[c] \in Table
    BY <1>0
  <2> HIDE DEF msg
  <2>5. table \in Table
    BY <1>0, <2>1, <2>3, <2>4 DEF Without, With
  <2>6. table[PuidOf[c]] = view[c][PuidOf[c]]
    BY <1>0, <2>1, <2>2, <2>4 DEF Without, With
  <2> HIDE DEF table
  <2> QED
    BY <1>16, <2>1, <2>5, <2>6
<1>19. ASSUME NEW c \in Conn, OnUnknownUpdate(c) \/ Stop(c)
       PROVE  client' \in [Conn -> ClientState] /\ synced' \in [Conn -> BOOLEAN] /\ view' \in [Conn -> Table]
              /\ moves' \in 0..MaxMoves /\ OwnNear' /\ toServer' \in [Conn -> Seq(ToServerMsg)]
  <2>1. /\ UNCHANGED <<moves, synced, toServer>> /\ view' = [view EXCEPT ![c] = Nobody]
        /\ \E state \in {"crashed", "stopped"} : client' = [client EXCEPT ![c] = state]
    BY <1>19 DEF OnUnknownUpdate, Stop
  <2>2. Nobody \in Table
    BY DEF Nobody
  <2>3. client' \in [Conn -> ClientState] /\ \A d \in Conn : Alive(d)' => d # c /\ Alive(d)
    BY <1>0, <2>1 DEF Alive, ClientState
  <2> HIDE DEF Nobody
  <2> QED
    BY <1>0, <2>1, <2>2, <2>3 DEF OwnNear
<1>20. CASE ServerThread \/ UNCHANGED allVars
  BY <1>0, <1>1, <1>20 DEF ServerThread, ServerFrame, CollectPlayer, ServerOnRegister, OnRegisterPlayer,
     OnUpdatePlayer, Reply, Forward, clientVars, allVars
<1>21. ASSUME NEW c \in Conn, ClientHandles(c) \/ Stop(c) \/ \E dir \in Dirs : Move(c, dir)
       PROVE  client' \in [Conn -> ClientState] /\ synced' \in [Conn -> BOOLEAN] /\ view' \in [Conn -> Table]
              /\ moves' \in 0..MaxMoves /\ OwnNear' /\ toServer' \in [Conn -> Seq(ToServerMsg)]
  BY <1>14, <1>15, <1>18, <1>19, <1>21 DEF ClientHandles
<1>22. ASSUME NEW c \in Conn, Serve(c) \/ Close(c) \/ Launch(c)
       PROVE  client' \in [Conn -> ClientState] /\ synced' \in [Conn -> BOOLEAN] /\ view' \in [Conn -> Table]
              /\ moves' \in 0..MaxMoves /\ OwnNear' /\ toServer' \in [Conn -> Seq(ToServerMsg)]
  BY <1>1, <1>3, <1>11, <1>13, <1>22
<1> QED
  BY <1>20, <1>21, <1>22 DEF GameNext

(* What waits for the clients.                                             *)
LEMMA InboxTyped ==
  ASSUME UniquePuids, EngineInv, OwnInv, [GameNext]_allVars
  PROVE  /\ toClient' \in [Conn -> Seq(ToClientMsg)]
         /\ NotToldOfSelf'
<1>0. /\ toClient \in [Conn -> Seq(ToClientMsg)] /\ NotToldOfSelf /\ RepliesNews
      /\ infos \in [PlayerUID -> (Int \X Int) \union {NoPos}]
      /\ handling \in IF pc = "handler" THEN GameBody ELSE {NoBody}
      /\ \A c \in Conn : PuidOf[c] \in PlayerUID
  BY PuidAssumption DEF OwnInv, GameTypeOK
<1>1. DOMAIN toClient' = Conn /\ toClient' = [c \in Conn |-> toClient'[c]]
  <2>1. ASSUME NEW c \in Conn, Serve(c) \/ Close(c) \/ Launch(c) \/ ClientHandles(c) \/ Stop(c)
                               \/ \E dir \in Dirs : Move(c, dir)
        PROVE  toClient' = [d \in Conn |-> toClient'[d]]
    BY <1>0, <2>1 DEF Serve, Validate, Reject, Close, Read, Launch, ClientHandles, Answer, OnAccept,
                      OnClientDisconnected, OnServerRegister, OnServerUpdate, OnUnknownUpdate, Stop, Move,
                      Posted, Handle
  <2>2. CASE ServerThread \/ UNCHANGED allVars
    BY <1>0, <2>2 DEF ServerThread, ServerFrame, CollectPlayer, ServerOnRegister, OnRegisterPlayer, OnUpdatePlayer,
                      Reply, Forward, Posted, clientVars, allVars
  <2> QED
    BY <2>1, <2>2 DEF GameNext
<1>2. SUFFICES ASSUME NEW c \in Conn
               PROVE  /\ toClient'[c] \in Seq(ToClientMsg)
                      /\ \A i \in 1..Len(toClient'[c]) : ~Tells(c, i, PuidOf[c])'
  BY <1>1 DEF NotToldOfSelf
<1> DEFINE queue == toClient[c]
<1>3. queue \in Seq(ToClientMsg) /\ \A i \in 1..Len(queue) : ~Tells(c, i, PuidOf[c])
  BY <1>0 DEF NotToldOfSelf
<1>4. CASE UNCHANGED toClient[c]
  BY <1>3, <1>4 DEF Tells, Concerns
<1>5. CASE toClient'[c] = <<>>
  BY <1>5
<1>6. CASE queue # <<>> /\ toClient'[c] = Tail(queue)
  BY <1>3, <1>6, TailFacts DEF Tells, Concerns
<1>7. ASSUME NEW msg \in ToClientMsg, toClient'[c] = Append(queue, msg),
             msg.op # "ACCEPT_CONNECTION" => msg.uid # PuidOf[c]
      PROVE  /\ toClient'[c] \in Seq(ToClientMsg)
             /\ \A i \in 1..Len(toClient'[c]) : ~Tells(c, i, PuidOf[c])'
  BY <1>3, <1>7, AppendFacts DEF Tells, Concerns
<1>8. ASSUME NEW cid \in Conn \union {NoConn}, CollectPlayer(cid), cid # c
      PROVE  Disconnected(PuidOfGarbage(cid)) \in ToClientMsg /\ Disconnected(PuidOfGarbage(cid)).uid # PuidOf[c]
  <2>1. PuidOfGarbage(cid) \in PlayerUID \union {NoUid} /\ PuidOfGarbage(cid) # PuidOf[c]
    BY <1>8, Collected, PuidAssumption DEF UniquePuids, CollectPlayer
  <2> QED
    BY <2>1 DEF Disconnected, ToClientMsg
<1>9. ASSUME NEW p \in PlayerUID, NEW op \in {"REGISTER_PLAYER", "UPDATE_PLAYER"}, NEW body,
             body.op = op, body.pos \in Int \X Int
      PROVE  About(p, body) \in ToClientMsg /\ About(p, body).uid = p
  BY <1>9 DEF About, ToClientMsg
<1>10. ASSUME pc = "handler", NEW other \in replies, c = current
       PROVE  /\ About(other, RegisterPlayer(infos[other])) \in ToClientMsg
              /\ About(other, RegisterPlayer(infos[other])).uid # PuidOf[c]
  <2>1. other \in PlayerUID /\ infos[other] \in Int \X Int /\ other # PuidOf[c]
    BY <1>0, <1>10, Addressee DEF RepliesNews, EngineInv, TypeOK
  <2> QED
    BY <1>9, <2>1 DEF RegisterPlayer
<1>11. ASSUME pc = "handler", c # current
       PROVE  About(PuidOf[current], handling) \in ToClientMsg /\ About(PuidOf[current], handling).uid # PuidOf[c]
  <2>1. PuidOf[current] \in PlayerUID /\ PuidOf[current] # PuidOf[c] /\ handling \in GameBody
    BY <1>0, <1>11, Addressee DEF UniquePuids
  <2>2. handling.op \in {"REGISTER_PLAYER", "UPDATE_PLAYER"} /\ handling.pos \in Int \X Int
    BY <2>1, BodyFacts
  <2> QED
    BY <1>9, <2>1, <2>2
<1>12. Accept \in ToClientMsg /\ Accept.op = "ACCEPT_CONNECTION"
  BY DEF Accept, ToClientMsg
<1>13. c \in Reached(current) => c # current
  BY DEF Reached
<1> HIDE DEF queue
<1> QED
  BY <1>4, <1>5, <1>6, <1>7, <1>8, <1>10, <1>11, <1>12, <1>13, Inbox DEF queue

(* Whoever stops forgets everything, and nothing is posted to him after.   *)
LEMMA DeadStep ==
  ASSUME OwnInv, [GameNext]_allVars
  PROVE  DeadHoldsNothing'
<1>0. /\ client \in [Conn -> ClientState] /\ view \in [Conn -> [PlayerUID -> (Int \X Int) \union {NoPos}]]
      /\ toClient \in [Conn -> Seq(ToClientMsg)] /\ DeadHoldsNothing
  BY DEF OwnInv, GameTypeOK
<1>1. ASSUME UNCHANGED <<client, view>>, \/ UNCHANGED toClient
                                         \/ \E D, msg : toClient' = Posted(D, msg)
      PROVE  DeadHoldsNothing'
  BY <1>0, <1>1 DEF DeadHoldsNothing, Posted, Alive
<1>2. ASSUME NEW c \in Conn, \A d \in Conn \ {c} : UNCHANGED <<client[d], view[d], toClient[d]>>,
             Alive(c)' \/ (toClient'[c] = <<>> /\ view'[c] = Nobody)
      PROVE  DeadHoldsNothing'
  BY <1>0, <1>2 DEF DeadHoldsNothing, Alive
<1>3. ASSUME NEW c \in Conn, Serve(c) \/ Close(c)
      PROVE  DeadHoldsNothing'
  BY <1>1, <1>3 DEF Serve, Validate, Reject, Close, Read
<1>4. CASE ServerThread \/ UNCHANGED allVars
  <2>1. UNCHANGED <<client, view>>
    BY <1>4 DEF ServerThread, ServerFrame, CollectPlayer, ServerOnRegister, OnRegisterPlayer, OnUpdatePlayer,
                Reply, Forward, clientVars, allVars
  <2>2. UNCHANGED toClient \/ \E D, msg : toClient' = Posted(D, msg)
    BY <1>4 DEF ServerThread, ServerFrame, CollectPlayer, ServerOnRegister, OnRegisterPlayer, OnUpdatePlayer,
                Reply, Forward, clientVars, allVars
  <2> QED
    BY <1>1, <2>1, <2>2
<1>5. ASSUME NEW c \in Conn, Launch(c) \/ ClientHandles(c) \/ \E dir \in Dirs : Move(c, dir)
      PROVE  DeadHoldsNothing'
  <2>1. CASE OnUnknownUpdate(c)
    BY <1>0, <1>2, <2>1 DEF OnUnknownUpdate
  <2>2. CASE ~OnUnknownUpdate(c)
    <3>1. Alive(c)'
      BY <1>0, <1>5, <2>2 DEF Launch, ClientHandles, Answer, OnAccept, OnClientDisconnected, OnServerRegister,
                              OnServerUpdate, Move, Received, Alive
    <3>2. \A d \in Conn \ {c} : UNCHANGED <<client[d], view[d], toClient[d]>>
      BY <1>0, <1>5, <2>2 DEF Launch, ClientHandles, Answer, OnAccept, OnClientDisconnected, OnServerRegister,
                              OnServerUpdate, Move, Handle
    <3> QED
      BY <1>2, <3>1, <3>2
  <2> QED
    BY <2>1, <2>2
<1>6. ASSUME NEW c \in Conn, Stop(c)
      PROVE  DeadHoldsNothing'
  BY <1>0, <1>2, <1>6 DEF Stop
<1> QED
  BY <1>3, <1>4, <1>5, <1>6 DEF GameNext

(* A socket that closes is not read again, and nothing arrives over it.    *)
LEMMA ClosedStep ==
  ASSUME EngineInv, OwnInv, [GameNext]_allVars
  PROVE  ClosedIsUnread'
<1> USE DEF asioVars, mainVars
<1>0. /\ sock \in [Conn -> SockState] /\ toServer \in [Conn -> Seq(ToServerMsg)] /\ ClosedIsUnread
  BY DEF OwnInv, GameTypeOK, EngineInv, TypeOK
<1>1. ASSUME NEW queues, toServer' = Unread(queues)
      PROVE  ClosedIsUnread'
  BY <1>1 DEF Unread, ClosedIsUnread
<1>2. ASSUME UNCHANGED sock, \/ UNCHANGED toServer
                             \/ \E c \in Conn : \E msgs : toServer' = Sent(c, msgs)
      PROVE  ClosedIsUnread'
  BY <1>0, <1>2 DEF Sent, ClosedIsUnread
<1>3. ASSUME NEW c \in Conn, Launch(c) \/ Validate(c)
      PROVE  ClosedIsUnread'
  <2>1. /\ \A d \in Conn \ {c} : UNCHANGED <<sock[d], toServer[d]>>
        /\ sock'[c] # "closed"
    BY <1>0, <1>3 DEF Launch, WaitForClientConnection, Validate, OnClientValidated
  <2> QED
    BY <1>0, <2>1 DEF ClosedIsUnread
<1>4. ASSUME NEW c \in Conn, Reject(c) \/ Close(c) \/ Read(c)
      PROVE  ClosedIsUnread'
  BY <1>1, <1>4 DEF Reject, Close, Read
<1>5. ASSUME NEW c \in Conn, ClientHandles(c) \/ Stop(c) \/ \E dir \in Dirs : Move(c, dir)
      PROVE  ClosedIsUnread'
  <2>1. UNCHANGED sock
    BY <1>5 DEF ClientHandles, Answer, OnAccept, OnClientDisconnected, OnServerRegister, OnServerUpdate,
                OnUnknownUpdate, Stop, Move, vars
  <2>2. UNCHANGED toServer \/ \E d \in Conn : \E msgs : toServer' = Sent(d, msgs)
    BY <1>5 DEF ClientHandles, Answer, OnAccept, OnClientDisconnected, OnServerRegister, OnServerUpdate,
                OnUnknownUpdate, Stop, Move
  <2> QED
    BY <1>2, <2>1, <2>2
<1>6. CASE ServerThread \/ UNCHANGED allVars
  <2>1. UNCHANGED toServer
    BY <1>6 DEF ServerThread, ServerFrame, CollectPlayer, ServerOnRegister, OnRegisterPlayer, OnUpdatePlayer,
                Reply, Forward, clientVars, allVars
  <2>2. UNCHANGED sock
    BY <1>6 DEF ServerThread, ServerFrame, BeginUpdate, ClearGarbage, DropUnregistered, EndUpdate, CollectPlayer,
                Collect, ServerOnRegister, OnRegister, OnRegisterPlayer, OnUpdatePlayer, OnGameMessage, Reply, Send,
                Forward, SendAll, vars, allVars
  <2> QED
    BY <1>2, <2>1, <2>2
<1> QED
  BY <1>3, <1>4, <1>5, <1>6 DEF GameNext, Serve

(* What is remembered of each client: of whom it was sent an info, and     *)
(* whose steps it saw.                                                     *)
LEMMA SeenTyped ==
  ASSUME EngineInv, OwnInv, [GameNext]_allVars
  PROVE  unmoved' \in [Conn -> SUBSET PlayerUID] /\ followed' \in [Conn -> SUBSET PlayerUID]
<1>0. unmoved \in [Conn -> SUBSET PlayerUID] /\ followed \in [Conn -> SUBSET PlayerUID]
  BY DEF OwnInv, GameTypeOK
<1>1. CASE UNCHANGED seenVars
  BY <1>0, <1>1 DEF seenVars
<1>2. CASE OnUpdatePlayer
  BY <1>0, <1>2 DEF OnUpdatePlayer
<1>3. ASSUME NEW other \in replies, Reply(other)
      PROVE  unmoved' \in [Conn -> SUBSET PlayerUID] /\ UNCHANGED followed
  <2>1. other \in PlayerUID
    BY DEF EngineInv, TypeOK
  <2> QED
    BY <1>0, <1>3, <2>1 DEF Reply
<1>4. ASSUME NEW c \in Conn, OnServerUpdate(c)
      PROVE  followed' \in [Conn -> SUBSET PlayerUID] /\ UNCHANGED unmoved
  <2>1. Head(toClient[c]) \in ToClientMsg /\ Head(toClient[c]).op = "UPDATE_PLAYER"
    <3>1. toClient[c] \in Seq(ToClientMsg) /\ toClient[c] # <<>>
      BY <1>4 DEF OnServerUpdate, Received, OwnInv, GameTypeOK
    <3> QED
      BY <1>4, <3>1, TailFacts DEF OnServerUpdate, Received
  <2>2. Head(toClient[c]).uid \in PlayerUID
    BY <2>1 DEF ToClientMsg, Accept
  <2> QED
    BY <1>0, <1>4, <2>2 DEF OnServerUpdate
<1>5. ASSUME NEW c \in Conn, OnClientDisconnected(c) \/ OnUnknownUpdate(c) \/ Stop(c)
      PROVE  followed' \in [Conn -> SUBSET PlayerUID] /\ UNCHANGED unmoved
  BY <1>0, <1>5 DEF OnClientDisconnected, OnUnknownUpdate, Stop
<1>6. CASE ServerThread /\ ~OnUpdatePlayer /\ ~(\E other \in replies : Reply(other))
  BY <1>1, <1>6 DEF ServerThread, ServerFrame, CollectPlayer, ServerOnRegister, OnRegisterPlayer, Forward, seenVars
<1>7. ASSUME NEW c \in Conn,
             \/ Serve(c) \/ Close(c) \/ Launch(c) \/ \E dir \in Dirs : Move(c, dir)
             \/ Answer(c) \/ OnAccept(c) \/ OnServerRegister(c)
      PROVE  UNCHANGED seenVars
  BY <1>7 DEF Serve, Validate, Reject, Close, Read, Launch, Move, Answer, OnAccept, OnServerRegister, seenVars
<1>8. CASE UNCHANGED allVars
  BY <1>1, <1>8 DEF allVars
<1> QED
  BY <1>0, <1>1, <1>2, <1>3, <1>4, <1>5, <1>6, <1>7, <1>8 DEF GameNext, ClientHandles

(* No client runs at the start.                                            *)
LEMMA OwnInit == GameInit => OwnInv
<1> SUFFICES ASSUME GameInit
             PROVE  OwnInv
  OBVIOUS
<1>1. \A S : <<>> \in Seq(S)
  OBVIOUS
<1>2. pc = "frame" /\ replies = {}
  BY DEF GameInit, Init
<1>3. GameTypeOK
  BY <1>1, <1>2, MoveAssumption DEF GameInit, GameTypeOK, Nobody, NoneSeen, ClientState
<1> QED
  BY <1>2, <1>3 DEF GameInit, OwnInv, OwnNear, NotToldOfSelf, RepliesNews, DeadHoldsNothing, ClosedIsUnread,
                      Alive

(* The first layer is inductive over the invariant of the engine.          *)
LEMMA OwnInvStep ==
  ASSUME UniquePuids, EngineInv, OwnInv, [GameNext]_allVars
  PROVE  OwnInv'
<1>1. EngineInv'
  BY EngineStep
<1> QED
  BY <1>1, TablesTyped, HandlingTyped, ClientsTyped, SeenTyped, InboxTyped, DeadStep, ClosedStep DEF OwnInv, GameTypeOK

(* Positions, messages and tables have the types of the model: no client   *)
(* gets further from the spawn point than the steps taken, and no message  *)
(* about a player lacks his position.                                      *)
THEOREM SessionTypes == ASSUME UniquePuids PROVE GameSpec => []GameTypeOK
<1>1. GameInit => EngineInv /\ OwnInv
  BY EngineInit, OwnInit
<1>2. EngineInv /\ OwnInv /\ [GameNext]_allVars => (EngineInv /\ OwnInv)'
  BY EngineStep, OwnInvStep
<1>3. OwnInv => GameTypeOK
  BY DEF OwnInv
<1> QED
  BY <1>1, <1>2, <1>3, PTL DEF GameSpec

(* A client always has its own player: on_update moves an entity that is   *)
(* there, since no message of the server removes him.                      *)
THEOREM OwnPlayers == ASSUME UniquePuids PROVE GameSpec => []OwnPlayerKept
<1>1. GameInit => EngineInv /\ OwnInv
  BY EngineInit, OwnInit
<1>2. EngineInv /\ OwnInv /\ [GameNext]_allVars => (EngineInv /\ OwnInv)'
  BY EngineStep, OwnInvStep
<1>3. OwnInv => OwnPlayerKept
  BY NearFacts, MoveAssumption DEF OwnInv, OwnNear, OwnPlayerKept, GameTypeOK
<1> QED
  BY <1>1, <1>2, <1>3, PTL DEF GameSpec

-----------------------------------------------------------------------------
(* The second layer: a player's info reaches the server before his steps.  *)

(* The game layer's tables: only a player's own messages, and his leaving, *)
(* change what is known of him.                                            *)
LEMMA TableChange ==
  ASSUME UniquePuids, EngineInv, OwnInv, [GameNext]_allVars, NEW p \in PlayerUID
  PROVE  \/ UNCHANGED <<infos[p], places[p]>>
         \/ /\ infos'[p] = NoPos /\ places'[p] = NoPos
            /\ \E cid \in Conn : /\ CollectPlayer(cid) /\ p = PuidOf[cid]
                                 /\ Registered(cid, player_uids) /\ ~Registered(cid, player_uids')
         \/ /\ OnRegisterPlayer /\ p = PuidOf[Handled.conn]
            /\ infos'[p] = IF infos[p] # NoPos THEN infos[p] ELSE SPAWN_POS
            /\ places'[p] = IF places[p] # NoPos THEN places[p] ELSE SPAWN_POS
         \/ /\ OnUpdatePlayer /\ p = PuidOf[Handled.conn]
            /\ infos'[p] = InfoAfter(infos[p], Handled.body.pos)
            /\ places'[p] = IF places[p] # NoPos THEN Handled.body.pos ELSE NoPos
<1>0. /\ infos \in [PlayerUID -> (Int \X Int) \union {NoPos}]
      /\ places \in [PlayerUID -> Positions \union {NoPos}]
  BY DEF OwnInv, GameTypeOK
<1>1. ASSUME NEW c \in Conn,
             Serve(c) \/ Close(c) \/ Launch(c) \/ ClientHandles(c) \/ Stop(c) \/ \E dir \in Dirs : Move(c, dir)
      PROVE  UNCHANGED <<infos, places>>
  BY <1>1 DEF Serve, Validate, Reject, Close, Read, Launch, ClientHandles, Answer, OnAccept,
              OnClientDisconnected, OnServerRegister, OnServerUpdate, OnUnknownUpdate, Stop, Move, gameVars
<1>2. CASE ServerFrame \/ ServerOnRegister \/ Forward \/ (\E other \in replies : Reply(other))
           \/ UNCHANGED allVars
  BY <1>2 DEF ServerFrame, ServerOnRegister, Forward, Reply, allVars, gameVars
<1>3. ASSUME NEW cid \in Conn \union {NoConn}, CollectPlayer(cid), ~UNCHANGED <<infos[p], places[p]>>
      PROVE  /\ infos'[p] = NoPos /\ places'[p] = NoPos /\ cid \in Conn /\ p = PuidOf[cid]
             /\ Registered(cid, player_uids) /\ ~Registered(cid, player_uids')
  <2>1. p = PuidOfGarbage(cid) /\ infos'[p] = NoPos /\ places'[p] = NoPos
    BY <1>3 DEF CollectPlayer, Without
  <2>2. cid \in Conn /\ p = PuidOf[cid] /\ Registered(cid, player_uids)
    BY <1>3, <2>1, Collected, PuidAssumption DEF CollectPlayer
  <2>3. player_uids' = UidsWithout(cid)
    BY <1>3 DEF CollectPlayer, Collect
  <2> QED
    BY <2>1, <2>2, <2>3 DEF UidsWithout, Registered
<1>4. CASE OnRegisterPlayer
  <2>1. /\ Handled.body.op = "REGISTER_PLAYER" /\ Handled.body \in GameBody
    BY <1>4, Sender DEF OnRegisterPlayer
  <2>2. Handled.body.pos = SPAWN_POS
    BY <2>1, BodyFacts
  <2> QED
    BY <1>0, <1>4, <2>2 DEF OnRegisterPlayer, With
<1>5. CASE OnUpdatePlayer
  <2> DEFINE q == PuidOf[Handled.conn]
             pos == Handled.body.pos
  <2>1. player_uids[Handled.conn] = q
    BY <1>5, Sender DEF OnUpdatePlayer
  <2>2. /\ infos' = [infos EXCEPT ![q] = InfoAfter(infos[q], pos)]
        /\ places' = [places EXCEPT ![q] = IF places[q] = NoPos THEN NoPos ELSE pos]
    BY <1>5, <2>1 DEF OnUpdatePlayer, Unpacked
  <2> QED
    BY <1>0, <1>5, <2>2
<1> QED
  BY <1>1, <1>2, <1>3, <1>4, <1>5 DEF GameNext, ServerThread

(* What a step does to the messages of c on their way to the handler.      *)
LEMMA Outbox ==
  ASSUME EngineInv, OwnInv, [GameNext]_allVars, NEW c \in Conn
  PROVE  \/ UNCHANGED <<qMessagesIn, toServer[c], sock[c]>>
         \/ UNCHANGED qMessagesIn /\ sock'[c] = "closed" /\ toServer'[c] = <<>>
         \/ UNCHANGED <<qMessagesIn, toServer[c]>> /\ sock[c] = "open" /\ sock'[c] = "shut"
         \/ UNCHANGED <<qMessagesIn, toServer[c]>> /\ sock[c] = "none" /\ sock'[c] = "handshake" /\ Launch(c)
         \/ /\ UNCHANGED qMessagesIn /\ sock[c] = "handshake" /\ sock'[c] = "open"
            /\ toServer[c] # <<>> /\ Head(toServer[c]) = Handshake /\ toServer'[c] = Tail(toServer[c])
         \/ /\ toServer[c] # <<>> /\ Read(c) /\ sock[c] \in {"open", "shut"}
            /\ \/ sock'[c] = "closed" /\ toServer'[c] = <<>>
               \/ sock'[c] = "open" /\ toServer'[c] = Tail(toServer[c])
            /\ \E msg \in RegisterMsg \union GameMsg :
                 /\ msg.conn = c /\ qMessagesIn' = Append(qMessagesIn, msg)
                 /\ \/ msg.id = "REGISTER" /\ Head(toServer[c]) = Register /\ ReadRegister(c)
                    \/ /\ msg.id = "GAME_MESSAGE" /\ Head(toServer[c]) = msg.body /\ msg.body \in GameBody
                       /\ UNCHANGED regRead
         \/ /\ UNCHANGED <<toServer[c], sock[c]>>
            /\ \E d \in Conn : d # c /\ Read(d)
            /\ \E msg \in RegisterMsg \union GameMsg :
                 msg.conn # c /\ qMessagesIn' = Append(qMessagesIn, msg)
         \/ /\ UNCHANGED <<qMessagesIn, sock[c]>> /\ sock[c] \notin {"shut", "closed"}
            /\ \/ Answer(c) /\ toServer'[c] = toServer[c] \o <<Handshake>>
               \/ OnAccept(c) /\ toServer'[c] = toServer[c] \o <<Register, Info>>
               \/ /\ Alive(c) /\ client'[c] = client[c] /\ synced'[c] = (client[c] = "joined")
                  /\ \E dir \in Dirs : Move(c, dir)
                  /\ view'[c][PuidOf[c]] \in Positions
                  /\ toServer'[c] = toServer[c] \o <<UpdatePlayer(view'[c][PuidOf[c]])>>
         \/ /\ UNCHANGED <<toServer[c], sock[c]>> /\ qMessagesIn # <<>> /\ qMessagesIn' = Tail(qMessagesIn)
            /\ ServerOnRegister \/ DropUnregistered \/ OnRegisterPlayer \/ OnUpdatePlayer
<1> USE DEF asioVars, mainVars
<1>0. /\ sock \in [Conn -> SockState] /\ toServer \in [Conn -> Seq(ToServerMsg)]
      /\ regRead \in [Conn -> BOOLEAN]
      /\ view \in [Conn -> [PlayerUID -> (Int \X Int) \union {NoPos}]]
      /\ client \in [Conn -> ClientState] /\ synced \in [Conn -> BOOLEAN]
      /\ \A d \in Conn : PuidOf[d] \in PlayerUID
  BY PuidAssumption DEF OwnInv, GameTypeOK, EngineInv, TypeOK
<1> DEFINE Same == UNCHANGED <<qMessagesIn, toServer[c], sock[c]>>
           Closed == UNCHANGED qMessagesIn /\ sock'[c] = "closed" /\ toServer'[c] = <<>>
           Shut == UNCHANGED <<qMessagesIn, toServer[c]>> /\ sock[c] = "open" /\ sock'[c] = "shut"
<1>1. ASSUME NEW d \in Conn, SocketClose(d), toServer' = Unread(toServer)
      PROVE  Same \/ Closed \/ Shut
  <2>1. /\ UNCHANGED qMessagesIn
        /\ \/ sock[d] \in {"handshake", "open"} /\ sock' = [sock EXCEPT ![d] = "closed"]
           \/ sock[d] = "open" /\ sock' = [sock EXCEPT ![d] = "shut"]
    BY <1>1 DEF SocketClose
  <2>2. toServer'[c] = IF sock'[c] = "closed" THEN <<>> ELSE toServer[c]
    BY <1>1 DEF Unread
  <2> QED
    BY <1>0, <2>1, <2>2
<1>2. ASSUME NEW d \in Conn, Reject(d) \/ Close(d)
      PROVE  Same \/ Closed \/ Shut
  BY <1>1, <1>2 DEF Reject, Close
<1>3. ASSUME NEW d \in Conn, Launch(d)
      PROVE  \/ Same
             \/ UNCHANGED <<qMessagesIn, toServer[c]>> /\ sock[c] = "none" /\ sock'[c] = "handshake" /\ Launch(c)
  BY <1>0, <1>3 DEF Launch, WaitForClientConnection
<1>4. ASSUME NEW d \in Conn, Validate(d)
      PROVE  \/ Same
             \/ /\ UNCHANGED qMessagesIn /\ sock[c] = "handshake" /\ sock'[c] = "open"
                /\ toServer[c] # <<>> /\ Head(toServer[c]) = Handshake /\ toServer'[c] = Tail(toServer[c])
  BY <1>0, <1>4 DEF Validate, OnClientValidated
<1> DEFINE Asks == /\ toServer[c] # <<>> /\ Read(c) /\ sock[c] \in {"open", "shut"}
                   /\ \/ sock'[c] = "closed" /\ toServer'[c] = <<>>
                      \/ sock'[c] = "open" /\ toServer'[c] = Tail(toServer[c])
                   /\ \E msg \in RegisterMsg \union GameMsg :
                        /\ msg.conn = c /\ qMessagesIn' = Append(qMessagesIn, msg)
                        /\ \/ msg.id = "REGISTER" /\ Head(toServer[c]) = Register /\ ReadRegister(c)
                           \/ /\ msg.id = "GAME_MESSAGE" /\ Head(toServer[c]) = msg.body /\ msg.body \in GameBody
                              /\ UNCHANGED regRead
           OtherAsks == /\ UNCHANGED <<toServer[c], sock[c]>>
                        /\ \E d \in Conn : d # c /\ Read(d)
                        /\ \E msg \in RegisterMsg \union GameMsg :
                             msg.conn # c /\ qMessagesIn' = Append(qMessagesIn, msg)
<1>5. ASSUME NEW d \in Conn, Read(d)
      PROVE  Asks \/ OtherAsks
  <2>1. /\ toServer[d] # <<>> /\ toServer' = Unread([toServer EXCEPT ![d] = Tail(@)])
        /\ sock[d] \in {"open", "shut"} /\ sock' = [sock EXCEPT ![d] = IF @ = "shut" THEN "closed" ELSE @]
    BY <1>5 DEF Read, ReadRegister, ReadGame, AddToIncomingMessageQueue, AfterRead
  <2>2. \E msg \in RegisterMsg \union GameMsg :
          /\ msg.conn = d /\ qMessagesIn' = Append(qMessagesIn, msg)
          /\ \/ msg.id = "REGISTER" /\ Head(toServer[d]) = Register /\ ReadRegister(d)
             \/ /\ msg.id = "GAME_MESSAGE" /\ Head(toServer[d]) = msg.body /\ msg.body \in GameBody
                /\ UNCHANGED regRead
    <3>1. CASE Head(toServer[d]) = Register /\ ReadRegister(d)
      <4> DEFINE msg == [conn |-> d, id |-> "REGISTER", body |-> PuidOf[d]]
      <4>1. msg \in RegisterMsg /\ msg.conn = d /\ msg.id = "REGISTER"
        BY <1>0 DEF RegisterMsg
      <4>2. qMessagesIn' = Append(qMessagesIn, msg)
        BY <3>1 DEF ReadRegister, AddToIncomingMessageQueue
      <4> HIDE DEF msg
      <4> QED
        BY <3>1, <4>1, <4>2
    <3>2. CASE Head(toServer[d]) \in GameBody /\ ReadGame(d, Head(toServer[d]))
      <4> DEFINE msg == [conn |-> d, id |-> "GAME_MESSAGE", body |-> Head(toServer[d])]
      <4>1. msg \in GameMsg /\ msg.conn = d /\ msg.id = "GAME_MESSAGE" /\ msg.body = Head(toServer[d])
        BY <3>2 DEF GameMsg
      <4>2. qMessagesIn' = Append(qMessagesIn, msg) /\ UNCHANGED regRead
        BY <3>2 DEF ReadGame, AddToIncomingMessageQueue
      <4> HIDE DEF msg
      <4> QED
        BY <3>2, <4>1, <4>2
    <3> QED
      BY <1>5, <3>1, <3>2 DEF Read
  <2>3. CASE d = c
    <3>1. toServer'[c] = IF sock'[c] = "closed" THEN <<>> ELSE Tail(toServer[c])
      BY <1>0, <2>1, <2>3 DEF Unread
    <3> QED
      BY <1>0, <1>5, <2>1, <2>2, <2>3, <3>1
  <2>4. CASE d # c
    <3>1. sock'[c] = sock[c] /\ toServer'[c] = IF sock'[c] = "closed" THEN <<>> ELSE toServer[c]
      BY <1>0, <2>1, <2>4 DEF Unread
    <3> QED
      BY <1>0, <1>5, <2>2, <2>4, <3>1 DEF OwnInv, ClosedIsUnread
  <2> QED
    BY <2>3, <2>4
<1> DEFINE Speaks ==
             /\ UNCHANGED <<qMessagesIn, sock[c]>> /\ sock[c] \notin {"shut", "closed"}
             /\ \/ Answer(c) /\ toServer'[c] = toServer[c] \o <<Handshake>>
                \/ OnAccept(c) /\ toServer'[c] = toServer[c] \o <<Register, Info>>
                \/ /\ Alive(c) /\ client'[c] = client[c] /\ synced'[c] = (client[c] = "joined")
                   /\ \E dir \in Dirs : Move(c, dir)
                   /\ view'[c][PuidOf[c]] \in Positions
                   /\ toServer'[c] = toServer[c] \o <<UpdatePlayer(view'[c][PuidOf[c]])>>
<1>6. ASSUME NEW d \in Conn, NEW msgs, UNCHANGED vars, toServer' = Sent(d, msgs)
      PROVE  \/ Same
             \/ /\ d = c /\ UNCHANGED <<qMessagesIn, sock[c]>> /\ sock[c] \notin {"shut", "closed"}
                /\ toServer'[c] = toServer[c] \o msgs
  BY <1>0, <1>6 DEF Sent, vars
<1>7. ASSUME NEW d \in Conn, Answer(d)
      PROVE  Same \/ Speaks
  BY <1>6, <1>7 DEF Answer
<1>8. ASSUME NEW d \in Conn, OnAccept(d)
      PROVE  Same \/ Speaks
  BY <1>6, <1>8 DEF OnAccept, Introduction, Info
<1>9. ASSUME NEW d \in Conn, NEW dir \in Dirs, Move(d, dir)
      PROVE  Same \/ Speaks
  <2> DEFINE own == view[d][PuidOf[d]]
             pos == <<own[1] + dir[1], own[2] + dir[2]>>
  <2>1. /\ Alive(d) /\ moves < MaxMoves /\ UNCHANGED client /\ UNCHANGED vars
        /\ view' = [view EXCEPT ![d][PuidOf[d]] = pos] /\ toServer' = Sent(d, <<UpdatePlayer(pos)>>)
        /\ synced' = [synced EXCEPT ![d] = (client[d] = "joined")]
    BY <1>9 DEF Move
  <2>2. moves \in Nat /\ MaxMoves \in Nat /\ own \in Near(moves)
    BY <2>1, MoveAssumption DEF OwnInv, GameTypeOK, OwnNear
  <2>3. pos \in Near(moves + 1) /\ moves + 1 \in Nat /\ moves + 1 <= MaxMoves
    BY <2>1, <2>2, NearFacts
  <2>4. pos \in Positions
    BY <2>2, <2>3, NearFacts DEF Positions
  <2> HIDE DEF pos
  <2>5. view'[d][PuidOf[d]] = pos /\ synced'[d] = (client[d] = "joined")
    BY <1>0, <2>1
  <2>6. \/ Same
        \/ /\ d = c /\ UNCHANGED <<qMessagesIn, sock[c]>> /\ sock[c] \notin {"shut", "closed"}
           /\ toServer'[c] = toServer[c] \o <<UpdatePlayer(pos)>>
    BY <1>6, <2>1
  <2>7. d = c => \E e \in Dirs : Move(c, e)
    BY <1>9
  <2> QED
    BY <2>1, <2>4, <2>5, <2>6, <2>7
<1>10. ASSUME NEW d \in Conn, OnClientDisconnected(d) \/ OnServerRegister(d) \/ OnServerUpdate(d)
                              \/ OnUnknownUpdate(d) \/ Stop(d)
       PROVE  Same
  BY <1>10 DEF OnClientDisconnected, OnServerRegister, OnServerUpdate, OnUnknownUpdate, Stop, vars
<1> DEFINE Takes == /\ UNCHANGED <<toServer[c], sock[c]>> /\ qMessagesIn # <<>> /\ qMessagesIn' = Tail(qMessagesIn)
                    /\ ServerOnRegister \/ DropUnregistered \/ OnRegisterPlayer \/ OnUpdatePlayer
<1>11. CASE ServerThread \/ UNCHANGED allVars
  <2>1. UNCHANGED toServer
    BY <1>11 DEF ServerThread, ServerFrame, CollectPlayer, ServerOnRegister, OnRegisterPlayer, OnUpdatePlayer,
                 Reply, Forward, clientVars, allVars
  <2>2. CASE ServerOnRegister \/ DropUnregistered \/ OnRegisterPlayer \/ OnUpdatePlayer
    BY <2>1, <2>2 DEF DropUnregistered, ServerOnRegister, OnRegister, OnRegisterPlayer, OnUpdatePlayer, OnGameMessage,
                      Incoming
  <2>3. CASE ~(ServerOnRegister \/ DropUnregistered \/ OnRegisterPlayer \/ OnUpdatePlayer)
    <3>1. UNCHANGED <<sock, qMessagesIn>>
      BY <1>11, <2>3 DEF ServerThread, ServerFrame, BeginUpdate, ClearGarbage, EndUpdate, CollectPlayer, Collect, Reply,
                         Send, Forward, SendAll, vars, allVars
    <3> QED
      BY <2>1, <3>1
  <2> QED
    BY <2>2, <2>3
<1> HIDE DEF Same, Closed, Shut, Asks, OtherAsks, Speaks, Takes
<1>12. ASSUME NEW d \in Conn, Serve(d) \/ Close(d) \/ Launch(d) \/ ClientHandles(d) \/ Stop(d)
                              \/ \E dir \in Dirs : Move(d, dir)
       PROVE  \/ Same \/ Closed \/ Shut \/ Asks \/ OtherAsks \/ Speaks
              \/ UNCHANGED <<qMessagesIn, toServer[c]>> /\ sock[c] = "none" /\ sock'[c] = "handshake" /\ Launch(c)
              \/ /\ UNCHANGED qMessagesIn /\ sock[c] = "handshake" /\ sock'[c] = "open"
                 /\ toServer[c] # <<>> /\ Head(toServer[c]) = Handshake /\ toServer'[c] = Tail(toServer[c])
  BY <1>2, <1>3, <1>4, <1>5, <1>7, <1>8, <1>9, <1>10, <1>12 DEF Serve, ClientHandles
<1> QED
  BY <1>11, <1>12 DEF GameNext, Same, Closed, Shut, Asks, OtherAsks, Speaks, Takes

(* REGISTER and the info leave a client together, in this order.           *)
RegisterThenInfo ==
  \A c \in Conn : \A i \in 1..Len(toServer[c]) :
    toServer[c][i] = Register => i + 1 \in 1..Len(toServer[c]) /\ toServer[c][i + 1] = Info

(* The two are sent together, read in their order, and lost together when  *)
(* the socket closes.                                                      *)
LEMMA RegisterStep ==
  ASSUME EngineInv, OwnInv, RegisterThenInfo, [GameNext]_allVars
  PROVE  RegisterThenInfo'
<1> SUFFICES ASSUME NEW c \in Conn
             PROVE  \A i \in 1..Len(toServer'[c]) :
                      toServer'[c][i] = Register => i + 1 \in 1..Len(toServer'[c]) /\ toServer'[c][i + 1] = Info
  BY DEF RegisterThenInfo
<1> DEFINE queue == toServer[c]
<1>0. /\ queue \in Seq(ToServerMsg)
      /\ \A i \in 1..Len(queue) : queue[i] = Register => i + 1 \in 1..Len(queue) /\ queue[i + 1] = Info
  BY DEF OwnInv, GameTypeOK, RegisterThenInfo
<1>1. CASE toServer'[c] = queue
  BY <1>0, <1>1
<1>2. CASE toServer'[c] = <<>>
  BY <1>2
<1>3. CASE queue # <<>> /\ toServer'[c] = Tail(queue)
  BY <1>0, <1>3, TailFacts
<1>4. ASSUME NEW msg \in ToServerMsg, msg # Register, toServer'[c] = queue \o <<msg>>
      PROVE  \A i \in 1..Len(toServer'[c]) :
               toServer'[c][i] = Register => i + 1 \in 1..Len(toServer'[c]) /\ toServer'[c][i + 1] = Info
  <2>1. toServer'[c] = Append(queue, msg)
    BY <1>0, <1>4, ConcatFacts
  <2>2. /\ Len(toServer'[c]) = Len(queue) + 1 /\ toServer'[c][Len(queue) + 1] = msg /\ Len(queue) \in Nat
        /\ \A i \in 1..Len(queue) : i \in 1..Len(toServer'[c]) /\ toServer'[c][i] = queue[i]
        /\ \A i \in 1..Len(toServer'[c]) : i \in 1..Len(queue) \/ i = Len(queue) + 1
    BY <1>0, <2>1, AppendFacts
  <2> HIDE DEF queue
  <2>3. ASSUME NEW i \in 1..Len(queue), queue[i] = Register
        PROVE  i + 1 \in 1..Len(toServer'[c]) /\ toServer'[c][i + 1] = Info
    BY <1>0, <2>2, <2>3
  <2> QED
    BY <1>4, <2>2, <2>3
<1>5. ASSUME toServer'[c] = queue \o <<Register, Info>>
      PROVE  \A i \in 1..Len(toServer'[c]) :
               toServer'[c][i] = Register => i + 1 \in 1..Len(toServer'[c]) /\ toServer'[c][i + 1] = Info
  <2>1. Register \in ToServerMsg /\ Info \in ToServerMsg /\ Info # Register
    BY BodyFacts DEF ToServerMsg
  <2>2. toServer'[c] = Append(Append(queue, Register), Info)
    BY <1>0, <1>5, <2>1, ConcatFacts
  <2>3. /\ Append(queue, Register) \in Seq(ToServerMsg) /\ Len(queue) \in Nat
        /\ Len(Append(queue, Register)) = Len(queue) + 1
        /\ \A i \in 1..Len(queue) : Append(queue, Register)[i] = queue[i]
    BY <1>0, <2>1, AppendFacts
  <2>4. /\ Len(toServer'[c]) = Len(queue) + 2
        /\ \A i \in 1..Len(queue) : toServer'[c][i] = queue[i]
        /\ toServer'[c][Len(queue) + 2] = Info
    BY <2>1, <2>2, <2>3
  <2> HIDE DEF queue
  <2>5. \A i \in 1..(Len(queue) + 2) : i \in 1..Len(queue) \/ i = Len(queue) + 1 \/ i = Len(queue) + 2
    BY <2>3
  <2>6. ASSUME NEW i \in 1..(Len(queue) + 2), toServer'[c][i] = Register
        PROVE  i + 1 \in 1..(Len(queue) + 2) /\ toServer'[c][i + 1] = Info
    <3>1. CASE i \in 1..Len(queue)
      <4>1. i + 1 \in 1..Len(queue) /\ queue[i + 1] = Info
        BY <1>0, <2>4, <2>6, <3>1
      <4> QED
        BY <2>3, <2>4, <4>1
    <3>2. CASE i = Len(queue) + 1
      BY <2>3, <2>4, <3>2
    <3> QED
      BY <2>1, <2>4, <2>5, <2>6, <3>1, <3>2
  <2> QED
    BY <2>4, <2>6
<1>6. /\ Handshake \in ToServerMsg /\ Handshake # Register
      /\ \A pos \in Positions : UpdatePlayer(pos) \in ToServerMsg /\ UpdatePlayer(pos) # Register
  BY BodyFacts DEF ToServerMsg
<1> HIDE DEF queue
<1> QED
  BY <1>1, <1>2, <1>3, <1>4, <1>5, <1>6, Outbox DEF queue

From(c, i) == qMessagesIn[i].conn = c
Announces(c, i) == From(c, i) /\ qMessagesIn[i].id = "GAME_MESSAGE" /\ qMessagesIn[i].body = Info

(* After the first r messages of the queue the next one of c is his info,  *)
(* if his socket did not close before it was read.                         *)
InfoNext(c, r) ==
  \/ \E j \in (r + 1)..Len(qMessagesIn) :
       Announces(c, j) /\ \A k \in (r + 1)..(j - 1) : ~From(c, k)
  \/ /\ \A k \in (r + 1)..Len(qMessagesIn) : ~From(c, k)
     /\ sock[c] = "closed" \/ (toServer[c] # <<>> /\ Head(toServer[c]) = Info)

(* Reading on, or taking another's message, leaves the info next.          *)
LEMMA InfoStaysNext ==
  ASSUME EngineInv, OwnInv, [GameNext]_allVars, NEW c \in Conn, NEW r \in 0..Len(qMessagesIn),
         InfoNext(c, r)
  PROVE  /\ UNCHANGED qMessagesIn \/ (\E msg \in RegisterMsg \union GameMsg : qMessagesIn' = Append(qMessagesIn, msg))
              => InfoNext(c, r)'
         /\ qMessagesIn # <<>> /\ qMessagesIn' = Tail(qMessagesIn) =>
              /\ r > 0 => InfoNext(c, r - 1)'
              /\ r = 0 /\ Head(qMessagesIn).conn # c => InfoNext(c, 0)'
<1> DEFINE q == qMessagesIn
           t == toServer[c]
           Waits == sock[c] = "closed" \/ (t # <<>> /\ Head(t) = Info)
<1>0. /\ q \in Seq(RegisterMsg \union GameMsg) /\ Len(q) \in Nat
      /\ t \in Seq(ToServerMsg)
      /\ sock[c] = "closed" => t = <<>>
  BY DEF OwnInv, GameTypeOK, EngineInv, TypeOK, ClosedIsUnread
<1>1. Info # Register /\ Info # Handshake /\ Info \in GameBody /\ Info \in ToServerMsg
  BY BodyFacts DEF ToServerMsg
<1>2. ASSUME NEW msgs, msgs \in Seq(ToServerMsg), toServer'[c] = t \o msgs, t # <<>>
      PROVE  toServer'[c] # <<>> /\ Head(toServer'[c]) = Head(t)
  BY <1>0, <1>2
<1>3. /\ <<Handshake>> \in Seq(ToServerMsg) /\ <<Register, Info>> \in Seq(ToServerMsg)
      /\ \A pos \in Positions : <<UpdatePlayer(pos)>> \in Seq(ToServerMsg)
  BY BodyFacts DEF ToServerMsg
<1>4. ASSUME UNCHANGED qMessagesIn, Waits => (sock'[c] = "closed" \/ (toServer'[c] # <<>> /\ Head(toServer'[c]) = Info))
      PROVE  InfoNext(c, r)'
  BY <1>4 DEF InfoNext, Announces, From
<1>5. ASSUME NEW msg \in RegisterMsg \union GameMsg, q' = Append(q, msg)
      PROVE  /\ (\E j \in (r + 1)..Len(q) : Announces(c, j) /\ \A k \in (r + 1)..(j - 1) : ~From(c, k))
                  => InfoNext(c, r)'
             /\ Len(q') = Len(q) + 1 /\ q'[Len(q) + 1] = msg
             /\ \A k \in 1..Len(q) : From(c, k)' <=> From(c, k)
  <2>1. /\ Len(q') = Len(q) + 1 /\ q'[Len(q) + 1] = msg
        /\ \A i \in 1..Len(q) : i \in 1..Len(q') /\ q'[i] = q[i]
    BY <1>0, <1>5, AppendFacts
  <2>2. \A i \in 1..Len(q) : (From(c, i)' <=> From(c, i)) /\ (Announces(c, i)' <=> Announces(c, i))
    BY <2>1 DEF Announces, From
  <2> HIDE DEF q, t, Waits
  <2>3. ASSUME NEW j \in (r + 1)..Len(q), Announces(c, j), \A k \in (r + 1)..(j - 1) : ~From(c, k)
        PROVE  InfoNext(c, r)'
    <3>1. j \in (r + 1)..Len(q') /\ Announces(c, j)' /\ \A k \in (r + 1)..(j - 1) : ~From(c, k)'
      BY <1>0, <2>1, <2>2, <2>3
    <3> QED
      BY <3>1 DEF InfoNext, q
  <2> QED
    BY <2>1, <2>2, <2>3
<1>6. ASSUME NEW msg \in RegisterMsg \union GameMsg, q' = Append(q, msg),
             \/ msg.conn # c /\ UNCHANGED <<toServer[c], sock[c]>>
             \/ /\ msg.conn = c /\ t # <<>>
                /\ Head(t) = Info => msg.id = "GAME_MESSAGE" /\ msg.body = Info,
             NEW n \in Nat, n = Len(q)
      PROVE  InfoNext(c, r)'
  <2>1. /\ Len(q') = n + 1 /\ q'[n + 1] = msg /\ n + 1 \in (r + 1)..Len(q')
        /\ \A k \in 1..n : From(c, k)' <=> From(c, k)
    BY <1>0, <1>5, <1>6
  <2> SUFFICES ASSUME Waits, \A k \in (r + 1)..Len(q) : ~From(c, k)
               PROVE  InfoNext(c, r)'
    BY <1>5, <1>6 DEF InfoNext
  <2>2. \A k \in (r + 1)..n : ~From(c, k)'
    BY <1>6, <2>1
  <2>3. CASE msg.conn = c
    <3>1. Announces(c, n + 1)'
      BY <1>0, <1>6, <2>1, <2>3 DEF Announces, From
    <3>2. \A k \in (r + 1)..((n + 1) - 1) : ~From(c, k)'
      BY <1>0, <2>2
    <3> QED
      BY <2>1, <3>1, <3>2 DEF InfoNext
  <2>4. CASE msg.conn # c
    <3>1. ~From(c, n + 1)'
      BY <2>1, <2>4 DEF From
    <3>2. \A k \in (r + 1)..Len(q') : k \in (r + 1)..n \/ k = n + 1
      BY <1>0, <2>1
    <3>3. \A k \in (r + 1)..Len(q') : ~From(c, k)'
      BY <2>2, <3>1, <3>2
    <3> QED
      BY <1>6, <2>4, <3>3 DEF InfoNext
  <2> QED
    BY <2>3, <2>4
<1>7. ASSUME q # <<>>, q' = Tail(q), UNCHANGED <<toServer[c], sock[c]>>
      PROVE  /\ r > 0 => InfoNext(c, r - 1)'
             /\ r = 0 /\ Head(q).conn # c => InfoNext(c, 0)'
  <2>1. /\ Len(q') = Len(q) - 1 /\ Head(q) = q[1]
        /\ \A i \in 1..Len(q') : i + 1 \in 1..Len(q) /\ q'[i] = q[i + 1]
        /\ \A i \in 1..Len(q) : i = 1 \/ (i - 1 \in 1..Len(q') /\ q'[i - 1] = q[i])
    BY <1>0, <1>7, TailFacts
  <2>a. \A i \in 1..Len(q') : (From(c, i)' <=> From(c, i + 1)) /\ (Announces(c, i)' <=> Announces(c, i + 1))
    BY <2>1 DEF Announces, From
  <2> HIDE DEF q
  <2>2. CASE \E j \in (r + 1)..Len(q) : Announces(c, j) /\ \A k \in (r + 1)..(j - 1) : ~From(c, k)
    <3>1. PICK j \in (r + 1)..Len(q) : Announces(c, j) /\ \A k \in (r + 1)..(j - 1) : ~From(c, k)
      BY <2>2
    <3>2. ASSUME j # 1
          PROVE  /\ j - 1 \in r..Len(q') /\ j - 1 \in 1..Len(q') /\ Announces(c, j - 1)'
                 /\ \A k \in r..((j - 1) - 1) : k > 0 => ~From(c, k)'
      <4>1. j - 1 \in r..Len(q') /\ j - 1 \in 1..Len(q') /\ (j - 1) + 1 = j
        BY <1>0, <2>1, <3>1, <3>2
      <4>2. ASSUME NEW k \in r..((j - 1) - 1), k > 0
            PROVE  ~From(c, k)'
        <5>1. k \in 1..Len(q') /\ k + 1 \in (r + 1)..(j - 1)
          BY <1>0, <2>1, <4>2
        <5> QED
          BY <2>a, <3>1, <5>1
      <4> QED
        BY <2>a, <3>1, <4>1, <4>2
    <3>3. CASE r > 0
      <4>1. /\ j # 1 /\ (r - 1) + 1 = r
            /\ \A k \in r..((j - 1) - 1) : k > 0
        BY <1>0, <3>3
      <4> QED
        BY <3>2, <4>1 DEF InfoNext, q
    <3>4. CASE r = 0 /\ Head(q).conn # c
      <4>1. j # 1
        BY <2>1, <3>1, <3>4 DEF Announces, From, q
      <4>2. /\ j - 1 \in (0 + 1)..Len(q')
            /\ \A k \in (0 + 1)..((j - 1) - 1) : k > 0 /\ k \in r..((j - 1) - 1)
        BY <3>2, <3>4, <4>1
      <4>3. \A k \in (0 + 1)..((j - 1) - 1) : ~From(c, k)'
        BY <3>2, <4>1, <4>2
      <4> QED
        BY <3>2, <3>4, <4>1, <4>2, <4>3 DEF InfoNext, q
    <3> QED
      BY <1>0, <3>3, <3>4
  <2>3. CASE Waits /\ \A k \in (r + 1)..Len(q) : ~From(c, k)
    <3>1. CASE r > 0
      <4>1. \A k \in ((r - 1) + 1)..Len(q') : ~From(c, k)'
        BY <1>0, <2>1, <2>3, <3>1 DEF From, q
      <4> QED
        BY <1>7, <2>3, <3>1, <4>1 DEF InfoNext, q
    <3>2. CASE r = 0 /\ Head(q).conn # c
      <4>1. \A k \in (0 + 1)..Len(q') : ~From(c, k)'
        BY <1>0, <2>1, <2>3, <3>2 DEF From, q
      <4> QED
        BY <1>7, <2>3, <3>2, <4>1 DEF InfoNext, q
    <3> QED
      BY <1>0, <3>1, <3>2
  <2> QED
    BY <2>2, <2>3 DEF InfoNext, q
<1>8. q # <<>> => /\ q # Tail(q)
                 /\ \A msg \in RegisterMsg \union GameMsg : Tail(q) # Append(q, msg)
  <2>1. q # <<>> => Len(Tail(q)) = Len(q) - 1
    BY <1>0, TailFacts
  <2>2. \A msg \in RegisterMsg \union GameMsg : Len(Append(q, msg)) = Len(q) + 1
    BY <1>0, AppendFacts
  <2> HIDE DEF q
  <2> QED
    BY <1>0, <2>1, <2>2
<1> DEFINE Stays == InfoNext(c, r)'
           Goal == /\ UNCHANGED q \/ (\E msg \in RegisterMsg \union GameMsg : q' = Append(q, msg)) => Stays
                   /\ q # <<>> /\ q' = Tail(q) => /\ r > 0 => InfoNext(c, r - 1)'
                                                  /\ r = 0 /\ Head(q).conn # c => InfoNext(c, 0)'
<1>9. ASSUME UNCHANGED q, Stays
      PROVE  Goal
  BY <1>8, <1>9
<1>10. ASSUME NEW msg \in RegisterMsg \union GameMsg, q' = Append(q, msg), Stays
       PROVE  Goal
  BY <1>8, <1>10
<1>11. ASSUME q # <<>>, q' = Tail(q), UNCHANGED <<toServer[c], sock[c]>>
       PROVE  Goal
  BY <1>7, <1>8, <1>11
<1> HIDE DEF q, Stays, Goal
<1>12. CASE UNCHANGED <<qMessagesIn, toServer[c], sock[c]>>
  BY <1>4, <1>9, <1>12 DEF q, Stays
<1>13. CASE UNCHANGED qMessagesIn /\ sock'[c] = "closed" /\ toServer'[c] = <<>>
  BY <1>4, <1>9, <1>13 DEF q, Stays
<1>14. CASE UNCHANGED <<qMessagesIn, toServer[c]>> /\ sock[c] # "closed"
  BY <1>4, <1>9, <1>14 DEF q, Stays
<1>15. CASE /\ UNCHANGED qMessagesIn /\ sock[c] = "handshake"
            /\ t # <<>> /\ Head(t) = Handshake
  BY <1>1, <1>4, <1>9, <1>15 DEF q, Stays
<1>16. CASE /\ UNCHANGED <<qMessagesIn, sock[c]>> /\ sock[c] # "closed"
            /\ \/ toServer'[c] = t \o <<Handshake>> \/ toServer'[c] = t \o <<Register, Info>>
               \/ \E pos \in Positions : toServer'[c] = t \o <<UpdatePlayer(pos)>>
  <2>1. PICK msgs \in Seq(ToServerMsg) : toServer'[c] = t \o msgs
    BY <1>3, <1>16
  <2>2. t # <<>> => toServer'[c] # <<>> /\ Head(toServer'[c]) = Head(t)
    BY <1>2, <2>1
  <2> HIDE DEF t
  <2>3. InfoNext(c, r)'
    BY <1>4, <1>16, <2>2
  <2> QED
    BY <1>9, <1>16, <2>3 DEF q, Stays
<1>17. CASE /\ t # <<>>
            /\ \E msg \in RegisterMsg \union GameMsg :
                 /\ msg.conn = c /\ qMessagesIn' = Append(qMessagesIn, msg)
                 /\ \/ Head(t) = Register
                    \/ msg.id = "GAME_MESSAGE" /\ Head(t) = msg.body
  BY <1>1, <1>6, <1>10, <1>17 DEF q, Stays
<1>18. CASE /\ UNCHANGED <<toServer[c], sock[c]>>
            /\ \E msg \in RegisterMsg \union GameMsg : msg.conn # c /\ qMessagesIn' = Append(qMessagesIn, msg)
  BY <1>6, <1>10, <1>18 DEF q, Stays
<1> QED
  <2>1. CASE qMessagesIn # <<>> /\ qMessagesIn' = Tail(qMessagesIn) /\ UNCHANGED <<toServer[c], sock[c]>>
    BY <1>11, <2>1 DEF Goal, Stays, q
  <2>2. CASE /\ UNCHANGED <<qMessagesIn, sock[c]>> /\ sock[c] \notin {"shut", "closed"}
             /\ \/ toServer'[c] = t \o <<Handshake>>
                \/ toServer'[c] = t \o <<Register, Info>>
                \/ /\ view'[c][PuidOf[c]] \in Positions
                   /\ toServer'[c] = t \o <<UpdatePlayer(view'[c][PuidOf[c]])>>
    BY <1>16, <2>2
  <2>3. CASE /\ t # <<>>
             /\ \E msg \in RegisterMsg \union GameMsg :
                  /\ msg.conn = c /\ qMessagesIn' = Append(qMessagesIn, msg)
                  /\ \/ msg.id = "REGISTER" /\ Head(t) = Register /\ ReadRegister(c)
                     \/ /\ msg.id = "GAME_MESSAGE" /\ Head(t) = msg.body /\ msg.body \in GameBody
                        /\ UNCHANGED regRead
    BY <1>17, <2>3
  <2>4. CASE UNCHANGED <<qMessagesIn, toServer[c]>> /\ sock[c] \in {"open", "none"}
    BY <1>14, <2>4
  <2> QED
    BY <1>12, <1>13, <1>15, <1>18, <2>1, <2>2, <2>3, <2>4, Outbox

(* The first message the server handles of a registered client it does not *)
(* have as a player is his info.                                           *)
IntroInv ==
  \A c \in Conn :
    /\ Registered(c, player_uids) /\ places[PuidOf[c]] = NoPos => InfoNext(c, 0)
    /\ \A r \in 1..Len(qMessagesIn) :
         From(c, r) /\ qMessagesIn[r].id = "REGISTER" => InfoNext(c, r)

(* A player with an info has an entity.                                    *)
InfoHasEntity == \A p \in PlayerUID : infos[p] # NoPos <=> places[p] # NoPos

PlayerInv == RegisterThenInfo /\ IntroInv /\ InfoHasEntity /\ SenderHasEntity

(* The handler's message is the sender's info if he is not a player yet.   *)
LEMMA FirstIsInfo ==
  ASSUME EngineInv, OwnInv, PlayerInv, NEW others, OnGameMessage(others),
         places[PuidOf[Handled.conn]] = NoPos
  PROVE  Handled.body = Info
<1>1. /\ qMessagesIn # <<>> /\ Handled = qMessagesIn[1] /\ Handled.conn \in Conn
      /\ Registered(Handled.conn, player_uids) /\ qMessagesIn \in Seq(RegisterMsg \union GameMsg)
  BY Sender DEF EngineInv, TypeOK
<1>2. InfoNext(Handled.conn, 0) /\ From(Handled.conn, 1) /\ Len(qMessagesIn) \in Nat /\ Len(qMessagesIn) >= 1
  BY <1>1 DEF PlayerInv, IntroInv, From
<1>3. PICK j \in 1..Len(qMessagesIn) : Announces(Handled.conn, j) /\ \A k \in 1..(j - 1) : ~From(Handled.conn, k)
  BY <1>2 DEF InfoNext
<1>4. j = 1
  BY <1>2, <1>3
<1> QED
  BY <1>1, <1>3, <1>4 DEF Announces

(* register_player and deregister_player write both tables.                *)
LEMMA EntityStep ==
  ASSUME UniquePuids, EngineInv, OwnInv, PlayerInv, [GameNext]_allVars
  PROVE  InfoHasEntity'
<1> SUFFICES ASSUME NEW p \in PlayerUID
             PROVE  infos'[p] # NoPos <=> places'[p] # NoPos
  BY DEF InfoHasEntity
<1>1. infos[p] # NoPos <=> places[p] # NoPos
  BY DEF PlayerInv, InfoHasEntity
<1>2. ASSUME OnUpdatePlayer, p = PuidOf[Handled.conn],
             infos'[p] = InfoAfter(infos[p], Handled.body.pos),
             places'[p] = IF places[p] # NoPos THEN Handled.body.pos ELSE NoPos
      PROVE  infos'[p] # NoPos <=> places'[p] # NoPos
  <2>1. OnGameMessage({}) /\ Handled.body.op = "UPDATE_PLAYER"
    BY <1>2 DEF OnUpdatePlayer
  <2>2. Handled.body # Info /\ Handled.body \in GameBody
    BY <2>1, Sender, BodyFacts
  <2>3. places[p] # NoPos
    BY <1>2, <2>1, <2>2, FirstIsInfo
  <2>4. Handled.body.pos \in Int \X Int /\ infos[p] \in Int \X Int
    BY <1>1, <2>2, <2>3, BodyFacts DEF OwnInv, GameTypeOK
  <2>5. InfoAfter(infos[p], Handled.body.pos) \in Int \X Int
    BY <2>4, PosAssumption DEF InfoAfter
  <2> QED
    BY <1>2, <2>3, <2>4, <2>5, PosAssumption
<1> QED
  BY <1>1, <1>2, TableChange, PosAssumption

(* The handler starts at the info of a new player, or at a message of one  *)
(* who is in; only the garbage loop, which is no handler, takes him out.   *)
LEMMA SenderStep ==
  ASSUME UniquePuids, EngineInv, OwnInv, PlayerInv, [GameNext]_allVars
  PROVE  SenderHasEntity'
<1> USE DEF asioVars, mainVars
<1>a. InfoHasEntity' /\ EngineInv' /\ [Next]_vars
  BY EntityStep, EngineStep
<1> SUFFICES ASSUME pc' = "handler"
             PROVE  places'[player_uids'[current']] # NoPos
  BY <1>a, Addressee DEF SenderHasEntity, InfoHasEntity, EngineInv, TypeOK, HandlesRegistered, Registered
<1>1. CASE OnRegisterPlayer
  <2> DEFINE p == PuidOf[Handled.conn]
  <2>1. \E others : OnGameMessage(others)
    BY <1>1 DEF OnRegisterPlayer
  <2>2. current' = Handled.conn /\ player_uids' = player_uids /\ player_uids[Handled.conn] = p /\ p \in PlayerUID
    BY <2>1, Sender DEF OnGameMessage, Handled
  <2>3. /\ places' = With(places, p, Handled.body.pos) /\ Handled.body.pos # NoPos
        /\ places \in [PlayerUID -> Positions \union {NoPos}]
    BY <1>1, <2>1, Sender, BodyFacts DEF OnRegisterPlayer, OwnInv, GameTypeOK
  <2> QED
    BY <2>2, <2>3 DEF With
<1>2. CASE OnUpdatePlayer
  <2> DEFINE p == PuidOf[Handled.conn]
  <2>1. OnGameMessage({}) /\ Handled.body.op = "UPDATE_PLAYER"
    BY <1>2 DEF OnUpdatePlayer
  <2>2. current' = Handled.conn /\ player_uids' = player_uids /\ player_uids[Handled.conn] = p /\ p \in PlayerUID
    BY <2>1, Sender DEF OnGameMessage, Handled
  <2>3. Handled.body # Info /\ Handled.body.pos # NoPos
    BY <2>1, Sender, BodyFacts
  <2>4. places[p] # NoPos
    BY <2>1, <2>3, FirstIsInfo
  <2> QED
    BY <1>2, <2>2, <2>3, <2>4 DEF OnUpdatePlayer, Unpacked, OwnInv, GameTypeOK
<1>3. CASE pc = "handler" /\ ~OnRegisterPlayer /\ ~OnUpdatePlayer
  <2>1. UNCHANGED <<places, current, player_uids>>
    <3>1. ASSUME NEW c \in Conn, Serve(c) \/ Close(c) \/ Launch(c)
          PROVE  UNCHANGED <<places, current, player_uids>>
      BY <3>1 DEF Serve, Validate, Reject, Close, Read, Launch, OnClientValidated, SocketClose, ReadRegister,
                  ReadGame, AddToIncomingMessageQueue, WaitForClientConnection, gameVars
    <3>2. ASSUME NEW c \in Conn, ClientHandles(c) \/ Stop(c) \/ \E dir \in Dirs : Move(c, dir)
          PROVE  UNCHANGED <<places, current, player_uids>>
      BY <3>2 DEF ClientHandles, Answer, OnAccept, OnClientDisconnected, OnServerRegister, OnServerUpdate,
                  OnUnknownUpdate, Stop, Move, vars, gameVars
    <3>3. CASE ServerThread \/ UNCHANGED allVars
      BY <1>3, <3>3 DEF ServerThread, ServerFrame, BeginUpdate, ClearGarbage, DropUnregistered, EndUpdate,
             CollectPlayer, Collect, ServerOnRegister, OnRegister, Incoming, Reply, Send, Forward, SendAll,
             allVars, vars, gameVars
    <3> QED
      BY <3>1, <3>2, <3>3 DEF GameNext
  <2> QED
    BY <1>3, <2>1 DEF PlayerInv, SenderHasEntity
<1>4. CASE pc # "handler" /\ ~OnRegisterPlayer /\ ~OnUpdatePlayer
  <2>1. ASSUME NEW c \in Conn, Serve(c) \/ Close(c) \/ Launch(c)
        PROVE  UNCHANGED pc
    BY <2>1 DEF Serve, Validate, Reject, Close, Read, Launch, OnClientValidated, SocketClose, ReadRegister,
                ReadGame, AddToIncomingMessageQueue, WaitForClientConnection
  <2>2. ASSUME NEW c \in Conn, ClientHandles(c) \/ Stop(c) \/ \E dir \in Dirs : Move(c, dir)
        PROVE  UNCHANGED pc
    BY <2>2 DEF ClientHandles, Answer, OnAccept, OnClientDisconnected, OnServerRegister, OnServerUpdate,
                OnUnknownUpdate, Stop, Move, vars
  <2>3. CASE ServerThread \/ UNCHANGED allVars
    BY <1>4, <2>3 DEF ServerThread, ServerFrame, BeginUpdate, ClearGarbage, DropUnregistered, EndUpdate,
             CollectPlayer, Collect, ServerOnRegister, OnRegister, Incoming, Reply, Send, Forward, SendAll,
             allVars, vars
  <2> QED
    BY <1>4, <2>1, <2>2, <2>3 DEF GameNext
<1> QED
  BY <1>1, <1>2, <1>3, <1>4

(* Who takes a message from the queue.                                     *)
LEMMA TakenBy ==
  ASSUME EngineInv, OwnInv, [GameNext]_allVars, qMessagesIn # <<>>, qMessagesIn' = Tail(qMessagesIn)
  PROVE  ServerOnRegister \/ DropUnregistered \/ OnRegisterPlayer \/ OnUpdatePlayer
<1>0. qMessagesIn \in Seq(RegisterMsg \union GameMsg)
  BY DEF EngineInv, TypeOK
<1>a. Len(qMessagesIn) \in Nat /\ Len(qMessagesIn') = Len(qMessagesIn) - 1
  BY <1>0, TailFacts
<1>1. ASSUME UNCHANGED qMessagesIn
      PROVE  FALSE
  <2>1. Len(qMessagesIn') = Len(qMessagesIn)
    BY <1>1
  <2> QED
    BY <1>a, <2>1
<1>2. ASSUME NEW msg \in RegisterMsg \union GameMsg, qMessagesIn' = Append(qMessagesIn, msg)
      PROVE  FALSE
  <2>1. Len(Append(qMessagesIn, msg)) = Len(qMessagesIn) + 1
    BY <1>0, AppendFacts
  <2>2. Len(qMessagesIn') = Len(qMessagesIn) + 1
    BY <1>2, <2>1
  <2> QED
    BY <1>a, <2>2
<1>3. PICK c \in Conn : TRUE
  BY <1>0 DEF RegisterMsg, GameMsg
<1> QED
  BY <1>1, <1>2, <1>3, Outbox

(* A registration begins with the REGISTER message of its connection.      *)
LEMMA Registration ==
  ASSUME EngineInv, [GameNext]_allVars, NEW c \in Conn, Registered(c, player_uids')
  PROVE  \/ Registered(c, player_uids)
         \/ ServerOnRegister /\ qMessagesIn # <<>> /\ Head(qMessagesIn).conn = c
<1> USE DEF asioVars, mainVars
<1>0. player_uids \in [Conn -> PlayerUID \union {NoUid}]
  BY DEF EngineInv, TypeOK
<1>1. ASSUME NEW d \in Conn, Serve(d) \/ Close(d) \/ Launch(d)
      PROVE  UNCHANGED player_uids
  BY <1>1 DEF Serve, Validate, Reject, Close, Read, Launch, OnClientValidated, SocketClose, ReadRegister,
              ReadGame, AddToIncomingMessageQueue, WaitForClientConnection
<1>2. ASSUME NEW d \in Conn, ClientHandles(d) \/ Stop(d) \/ \E dir \in Dirs : Move(d, dir)
      PROVE  UNCHANGED player_uids
  BY <1>2 DEF ClientHandles, Answer, OnAccept, OnClientDisconnected, OnServerRegister, OnServerUpdate,
              OnUnknownUpdate, Stop, Move, vars
<1>3. ASSUME NEW cid \in Conn \union {NoConn}, CollectPlayer(cid)
      PROVE  Registered(c, player_uids)
  BY <1>3 DEF CollectPlayer, Collect, UidsWithout, Registered
<1>4. CASE ServerOnRegister
  BY <1>0, <1>4 DEF ServerOnRegister, OnRegister, Incoming, Registered
<1>5. CASE \/ ServerFrame \/ OnRegisterPlayer \/ OnUpdatePlayer \/ (\E other \in replies : Reply(other)) \/ Forward
           \/ UNCHANGED allVars
  BY <1>5 DEF ServerFrame, BeginUpdate, ClearGarbage, DropUnregistered, EndUpdate, OnRegisterPlayer, OnUpdatePlayer,
              OnGameMessage, Reply, Send, Forward, SendAll, allVars, vars
<1> QED
  BY <1>1, <1>2, <1>3, <1>4, <1>5 DEF GameNext, ServerThread

(* The info follows its REGISTER from the socket into the queue and out of *)
(* it; nothing of the same client comes between them.                      *)
LEMMA IntroStep ==
  ASSUME UniquePuids, EngineInv, OwnInv, PlayerInv, [GameNext]_allVars
  PROVE  IntroInv'
<1> SUFFICES ASSUME NEW c \in Conn
             PROVE  /\ Registered(c, player_uids') /\ places'[PuidOf[c]] = NoPos => InfoNext(c, 0)'
                    /\ \A r \in 1..Len(qMessagesIn') :
                         From(c, r)' /\ qMessagesIn'[r].id = "REGISTER" => InfoNext(c, r)'
  BY DEF IntroInv, Registered
<1> DEFINE q == qMessagesIn
           t == toServer[c]
<1>b. q \in Seq(RegisterMsg \union GameMsg) /\ Len(q) \in Nat /\ t \in Seq(ToServerMsg) /\ PuidOf[c] \in PlayerUID
  BY PuidAssumption DEF EngineInv, TypeOK, OwnInv, GameTypeOK
<1>c. /\ Registered(c, player_uids) /\ places[PuidOf[c]] = NoPos => InfoNext(c, 0)
      /\ \A r \in 1..Len(q) : From(c, r) /\ q[r].id = "REGISTER" => InfoNext(c, r)
  BY DEF PlayerInv, IntroInv
<1>d. \A i \in 1..Len(t) : t[i] = Register => i + 1 \in 1..Len(t) /\ t[i + 1] = Info
  BY DEF PlayerInv, RegisterThenInfo
<1>0. /\ q \in Seq(RegisterMsg \union GameMsg) /\ Len(q) \in Nat /\ t \in Seq(ToServerMsg) /\ PuidOf[c] \in PlayerUID
      /\ Registered(c, player_uids) /\ places[PuidOf[c]] = NoPos => InfoNext(c, 0)
      /\ \A r \in 1..Len(q) : From(c, r) /\ q[r].id = "REGISTER" => InfoNext(c, r)
      /\ \A i \in 1..Len(t) : t[i] = Register => i + 1 \in 1..Len(t) /\ t[i + 1] = Info
  BY <1>b, <1>c, <1>d
<1>a. Handled = Head(q) /\ (q # <<>> => Head(q) = q[1] /\ 1 \in 1..Len(q))
  BY <1>0, TailFacts DEF Handled
(* The queue only grew, or stayed.                                         *)
<1>1. ASSUME UNCHANGED q
      PROVE  \A r \in 1..Len(q') : From(c, r)' /\ q'[r].id = "REGISTER" => InfoNext(c, r)'
  <2> SUFFICES ASSUME NEW r \in 1..Len(q), From(c, r), q[r].id = "REGISTER"
               PROVE  InfoNext(c, r)'
    BY <1>1 DEF From
  <2> QED
    BY <1>0, <1>1, InfoStaysNext
<1>2. ASSUME NEW msg \in RegisterMsg \union GameMsg, q' = Append(q, msg), msg.conn # c \/ msg.id # "REGISTER"
      PROVE  \A r \in 1..Len(q') : From(c, r)' /\ q'[r].id = "REGISTER" => InfoNext(c, r)'
  <2>1. /\ \A i \in 1..Len(q) : q'[i] = q[i]
        /\ q'[Len(q) + 1] = msg /\ \A i \in 1..Len(q') : i \in 1..Len(q) \/ i = Len(q) + 1
    BY <1>0, <1>2, AppendFacts
  <2> SUFFICES ASSUME NEW r \in 1..Len(q'), From(c, r)', q'[r].id = "REGISTER"
               PROVE  InfoNext(c, r)'
    OBVIOUS
  <2>2. r \in 1..Len(q) /\ From(c, r) /\ q[r].id = "REGISTER"
    BY <1>2, <2>1 DEF From
  <2> QED
    BY <1>0, <1>2, <2>2, InfoStaysNext
(* c's REGISTER was read: his info is the next he sent.                    *)
<1>3. ASSUME NEW msg \in RegisterMsg \union GameMsg, q' = Append(q, msg), msg.conn = c, t # <<>>,
             Head(t) = Register,
             \/ sock'[c] = "closed" /\ toServer'[c] = <<>>
             \/ sock'[c] = "open" /\ toServer'[c] = Tail(t)
      PROVE  \A r \in 1..Len(q') : From(c, r)' /\ q'[r].id = "REGISTER" => InfoNext(c, r)'
  <2>1. /\ \A i \in 1..Len(q) : q'[i] = q[i]
        /\ Len(q') = Len(q) + 1 /\ \A i \in 1..Len(q') : i \in 1..Len(q) \/ i = Len(q) + 1
    BY <1>0, <1>3, AppendFacts
  <2> SUFFICES ASSUME NEW r \in 1..Len(q'), From(c, r)', q'[r].id = "REGISTER"
               PROVE  InfoNext(c, r)'
    OBVIOUS
  <2>2. CASE r \in 1..Len(q)
    <3>1. From(c, r) /\ q[r].id = "REGISTER"
      BY <2>1, <2>2 DEF From
    <3> QED
      BY <1>0, <1>3, <2>2, <3>1, InfoStaysNext
  <2>3. CASE r = Len(q')
    <3>1. \A k \in (r + 1)..Len(q') : ~From(c, k)'
      BY <1>0, <2>1, <2>3
    <3>2. 1 \in 1..Len(t) /\ t[1] = Register
      BY <1>0, <1>3, TailFacts
    <3>3. 2 \in 1..Len(t) /\ t[2] = Info
      BY <1>0, <3>2
    <3>4. Tail(t) # <<>> /\ Head(Tail(t)) = Info
      <4>1. Tail(t) \in Seq(ToServerMsg) /\ 1 \in 1..Len(Tail(t)) /\ Tail(t)[1] = Info
        BY <1>0, <1>3, <3>3, TailFacts
      <4>2. Tail(t) # <<>>
        BY <4>1, NotEmpty
      <4> QED
        BY <4>1, <4>2, TailFacts
    <3> QED
      BY <1>3, <3>1, <3>4 DEF InfoNext
  <2> QED
    BY <2>1, <2>2, <2>3
(* A message was taken.                                                    *)
<1>4. ASSUME q # <<>>, q' = Tail(q)
      PROVE  \A r \in 1..Len(q') : From(c, r)' /\ q'[r].id = "REGISTER" => InfoNext(c, r)'
  <2>1. Len(q') = Len(q) - 1 /\ \A i \in 1..Len(q') : i + 1 \in 1..Len(q) /\ q'[i] = q[i + 1]
    BY <1>0, <1>4, TailFacts
  <2> SUFFICES ASSUME NEW r \in 1..Len(q'), From(c, r)', q'[r].id = "REGISTER"
               PROVE  InfoNext(c, r)'
    OBVIOUS
  <2>2. r + 1 \in 1..Len(q) /\ From(c, r + 1) /\ q[r + 1].id = "REGISTER"
    BY <2>1 DEF From
  <2>3. InfoNext(c, r + 1) /\ r + 1 \in 0..Len(q) /\ r + 1 > 0 /\ (r + 1) - 1 = r
    BY <1>0, <2>2
  <2> QED
    BY <1>4, <2>3, InfoStaysNext
<1>5. \A r \in 1..Len(q') : From(c, r)' /\ q'[r].id = "REGISTER" => InfoNext(c, r)'
  <2>1. CASE /\ t # <<>>
             /\ \/ sock'[c] = "closed" /\ toServer'[c] = <<>>
                \/ sock'[c] = "open" /\ toServer'[c] = Tail(t)
             /\ \E msg \in RegisterMsg \union GameMsg :
                  /\ msg.conn = c /\ q' = Append(q, msg)
                  /\ \/ msg.id = "REGISTER" /\ Head(t) = Register /\ ReadRegister(c)
                     \/ /\ msg.id = "GAME_MESSAGE" /\ Head(t) = msg.body /\ msg.body \in GameBody
                        /\ UNCHANGED regRead
    BY <1>2, <1>3, <2>1
  <2>2. CASE \E msg \in RegisterMsg \union GameMsg : msg.conn # c /\ q' = Append(q, msg)
    BY <1>2, <2>2
  <2>3. CASE UNCHANGED q \/ (q # <<>> /\ q' = Tail(q))
    BY <1>1, <1>4, <2>3
  <2> QED
    BY <2>1, <2>2, <2>3, Outbox

(* Registered, and not yet a player.                                       *)
<1>6. ASSUME Registered(c, player_uids'), places'[PuidOf[c]] = NoPos
      PROVE  InfoNext(c, 0)'
  <2>1. CASE ServerOnRegister /\ q # <<>> /\ Head(q).conn = c
    <3>1. q' = Tail(q) /\ q[1].id = "REGISTER" /\ From(c, 1) /\ 1 \in 1..Len(q)
      BY <1>a, <2>1 DEF ServerOnRegister, OnRegister, Incoming, From
    <3>2. InfoNext(c, 1) /\ 1 \in 0..Len(q) /\ 1 - 1 = 0
      BY <1>0, <3>1
    <3> QED
      BY <2>1, <3>1, <3>2, InfoStaysNext
  <2>2. CASE ~(ServerOnRegister /\ q # <<>> /\ Head(q).conn = c)
    <3>1. Registered(c, player_uids)
      BY <1>6, <2>2, Registration
    <3>2. places[PuidOf[c]] = NoPos
      <4> SUFFICES ASSUME places[PuidOf[c]] # NoPos
                   PROVE  FALSE
        OBVIOUS
      <4>1. places'[PuidOf[c]] # places[PuidOf[c]]
        BY <1>6
      <4>2. ASSUME NEW others, OnGameMessage(others)
            PROVE  Handled.body.pos # NoPos
        BY <4>2, Sender, BodyFacts
      <4>3. ~OnRegisterPlayer
        BY <1>0, <1>6, PosAssumption, <4>1 DEF OnRegisterPlayer, With, OwnInv, GameTypeOK
      <4>4. OnUpdatePlayer => Handled.body.pos # NoPos
        BY <4>2 DEF OnUpdatePlayer
      <4>5. PICK cid \in Conn : PuidOf[c] = PuidOf[cid] /\ ~Registered(cid, player_uids')
        BY <1>0, <1>6, <4>1, <4>3, <4>4, TableChange
      <4> QED
        BY <1>6, <4>5 DEF UniquePuids
    <3>3. InfoNext(c, 0) /\ 0 \in 0..Len(q)
      BY <1>0, <3>1, <3>2
    <3>4. CASE q # <<>> /\ q' = Tail(q)
      <4>1. Head(q).conn # c
        <5> SUFFICES ASSUME Head(q).conn = c
                     PROVE  FALSE
          OBVIOUS
        <5>1. Handled.conn = c /\ (DropUnregistered \/ OnRegisterPlayer \/ OnUpdatePlayer)
          BY <1>a, <2>2, <3>4, TakenBy
        <5>2. OnRegisterPlayer \/ OnUpdatePlayer
          BY <3>1, <5>1 DEF DropUnregistered, Handled
        <5>3. \E others : OnGameMessage(others)
          BY <5>2 DEF OnRegisterPlayer, OnUpdatePlayer
        <5>4. Handled.body = Info
          BY <3>2, <5>1, <5>3, FirstIsInfo
        <5>5. OnRegisterPlayer
          BY <5>2, <5>4, BodyFacts DEF OnUpdatePlayer
        <5>6. places' = With(places, PuidOf[c], SPAWN_POS)
          BY <5>1, <5>4, <5>5, BodyFacts DEF OnRegisterPlayer
        <5> QED
          BY <1>0, <1>6, <5>6, PosAssumption DEF With, OwnInv, GameTypeOK
      <4> QED
        BY <3>3, <3>4, <4>1, InfoStaysNext
    <3>5. CASE ~(q # <<>> /\ q' = Tail(q))
      <4>1. UNCHANGED q \/ \E msg \in RegisterMsg \union GameMsg : q' = Append(q, msg)
        BY <3>5, Outbox
      <4> QED
        BY <3>3, <4>1, InfoStaysNext
    <3> QED
      BY <3>4, <3>5
  <2> QED
    BY <2>1, <2>2
<1> QED
  BY <1>5, <1>6

SessionInv == EngineInv /\ OwnInv /\ PlayerInv

(* The session starts with nobody in it.                                   *)
LEMMA SessionInit == GameInit => SessionInv
<1> SUFFICES ASSUME GameInit
             PROVE  SessionInv
  OBVIOUS
<1>1. EngineInv /\ OwnInv
  BY EngineInit, OwnInit
<1>2. /\ 1..Len(qMessagesIn) = {} /\ pc # "handler" /\ infos = places
      /\ \A c \in Conn : 1..Len(toServer[c]) = {} /\ ~Registered(c, player_uids)
  BY DEF GameInit, Init, Registered
<1> QED
  BY <1>1, <1>2 DEF SessionInv, PlayerInv, RegisterThenInfo, IntroInv, InfoHasEntity, SenderHasEntity

(* The invariant of the session is inductive.                              *)
LEMMA SessionStep ==
  ASSUME UniquePuids, SessionInv, [GameNext]_allVars
  PROVE  SessionInv'
<1>1. EngineInv /\ OwnInv /\ PlayerInv
  BY DEF SessionInv
<1>2. EngineInv' /\ OwnInv'
  BY <1>1, EngineStep, OwnInvStep
<1>3. RegisterThenInfo' /\ IntroInv' /\ InfoHasEntity' /\ SenderHasEntity'
  BY <1>1, RegisterStep, IntroStep, EntityStep, SenderStep DEF PlayerInv
<1> QED
  BY <1>2, <1>3 DEF SessionInv, PlayerInv

(* Whoever's message the handler is at has an entity and an info: what     *)
(* registers a player reaches the server before anything else he sends, so *)
(* the ASSERT of Entity::get does not stop the server.                     *)
THEOREM SendersHaveEntities == ASSUME UniquePuids PROVE GameSpec => []SenderHasEntity
<1>1. GameInit => SessionInv
  BY SessionInit
<1>2. SessionInv /\ [GameNext]_allVars => SessionInv'
  BY SessionStep
<1>3. SessionInv => SenderHasEntity
  BY DEF SessionInv, PlayerInv
<1> QED
  BY <1>1, <1>2, <1>3, PTL DEF GameSpec
=============================================================================
