------------------------------ MODULE ViewProofs ------------------------------
(***************************************************************************)
(* What the clients of a session are told of each other, for any number of *)
(* them: when all is quiet, every client in the game has the players that  *)
(* the server has, and where the server's tables say; the server has every *)
(* client where he has himself; and no client sees a player's steps out of *)
(* their order.                                                            *)
(***************************************************************************)
EXTENDS MinicraftProofs

-----------------------------------------------------------------------------
(* Who is in the game.                                                     *)

(* The main thread's state is its own.                                     *)
LEMMA OtherThreads ==
  ASSUME NEW c \in Conn,
         Serve(c) \/ Close(c) \/ Launch(c) \/ ClientHandles(c) \/ Stop(c) \/ \E dir \in Dirs : Move(c, dir)
  PROVE  UNCHANGED <<mainVars, gameVars>>
<1>1. CASE Serve(c) \/ Close(c) \/ Launch(c)
  BY <1>1 DEF Serve, Validate, Reject, Close, Read, Launch, OnClientValidated, SocketClose, ReadRegister,
              ReadGame, AddToIncomingMessageQueue, WaitForClientConnection
<1>2. CASE ClientHandles(c) \/ Stop(c) \/ \E dir \in Dirs : Move(c, dir)
  BY <1>2 DEF ClientHandles, Answer, OnAccept, OnClientDisconnected, OnServerRegister, OnServerUpdate,
              OnUnknownUpdate, Stop, Move, vars
<1> QED
  BY <1>1, <1>2

(* And it touches no socket and no client.                                 *)
LEMMA MainThreadOnly ==
  ASSUME ServerThread
  PROVE  UNCHANGED <<asioVars, client, toServer, view, moves, synced>>
<1>1. UNCHANGED <<client, toServer, view, moves, synced>>
  BY DEF ServerThread, ServerFrame, CollectPlayer, ServerOnRegister, OnRegisterPlayer, OnUpdatePlayer,
         Reply, Forward, clientVars
<1>2. UNCHANGED asioVars
  BY DEF ServerThread, ServerFrame, BeginUpdate, ClearGarbage, DropUnregistered, EndUpdate, CollectPlayer, Collect,
         ServerOnRegister, OnRegister, OnRegisterPlayer, OnUpdatePlayer, OnGameMessage, Reply, Send, Forward, SendAll
<1> QED
  BY <1>1, <1>2

-----------------------------------------------------------------------------
(* The third layer: who is in the game gets registered.                    *)

(* A client in the game has sent its REGISTER, and until the server read   *)
(* it the message is on its way.                                           *)
RegisterSent ==
  \A c \in Conn : client[c] = "joined" /\ IsConnected(c) =>
    regRead[c] \/ \E i \in 1..Len(toServer[c]) : toServer[c][i] = Register

(* A connection whose REGISTER was read is registered, or will be from the *)
(* queue, unless its socket has closed.                                    *)
ReadIsRegistered == \A c \in Conn : Spent(c) => sock[c] \in {"shut", "closed"}

(* A connection is opened once, when its client is launched.               *)
LEMMA Connects ==
  ASSUME UniquePuids, EngineInv, OwnInv, [GameNext]_allVars, NEW c \in Conn, IsConnected(c)'
  PROVE  IsConnected(c) \/ (sock[c] = "none" /\ Launch(c))
<1>1. sock[c] \in {"shut", "closed"} => sock'[c] \in {"shut", "closed"}
  BY EngineStep, SocketsOnlyClose DEF EngineInv
<1>2. sock[c] \in SockState
  BY DEF EngineInv, TypeOK
<1> QED
  BY <1>1, <1>2, Outbox DEF IsConnected, SockState

(* A REGISTER that was read stays read, and reading it leaves the main     *)
(* thread and the game alone.                                              *)
LEMMA RegReadStays ==
  ASSUME EngineInv, [GameNext]_allVars, NEW c \in Conn
  PROVE  /\ regRead[c] => regRead'[c]
         /\ regRead'[c] => regRead[c] \/ (UNCHANGED <<mainVars, gameVars>> /\ ReadRegister(c))
<1>0. regRead \in [Conn -> BOOLEAN]
  BY DEF EngineInv, TypeOK
<1>1. ASSUME NEW d \in Conn, Serve(d) \/ Close(d) \/ Launch(d)
      PROVE  UNCHANGED regRead \/ ReadRegister(d)
  BY <1>1 DEF Serve, Validate, Reject, Close, Read, Launch, OnClientValidated, SocketClose, ReadGame,
              WaitForClientConnection
<1>2. ASSUME NEW d \in Conn, ClientHandles(d) \/ Stop(d) \/ \E dir \in Dirs : Move(d, dir)
      PROVE  UNCHANGED regRead
  BY <1>2 DEF ClientHandles, Answer, OnAccept, OnClientDisconnected, OnServerRegister, OnServerUpdate,
              OnUnknownUpdate, Stop, Move, vars, asioVars
<1>3. CASE ServerThread \/ UNCHANGED allVars
  BY <1>3, MainThreadOnly DEF allVars, vars, asioVars
<1>4. ASSUME NEW d \in Conn, ReadRegister(d)
      PROVE  regRead' = [regRead EXCEPT ![d] = TRUE]
  BY <1>4 DEF ReadRegister
<1> QED
  BY <1>0, <1>1, <1>2, <1>3, <1>4, OtherThreads DEF GameNext

(* ACCEPT_CONNECTION is what lets a client join.                           *)
LEMMA JoinsBy ==
  ASSUME OwnInv, [GameNext]_allVars, NEW c \in Conn, client'[c] = "joined"
  PROVE  client[c] = "joined" \/ OnAccept(c)
<1>0. client \in [Conn -> ClientState]
  BY DEF OwnInv, GameTypeOK
<1>1. CASE ServerThread \/ UNCHANGED allVars
  BY <1>1, MainThreadOnly DEF allVars, clientVars
<1>2. ASSUME NEW d \in Conn,
             Serve(d) \/ Close(d) \/ Launch(d) \/ ClientHandles(d) \/ Stop(d) \/ \E dir \in Dirs : Move(d, dir)
      PROVE  UNCHANGED client \/ OnAccept(d)
             \/ \E s \in {"connecting", "answered", "crashed", "stopped"} : client' = [client EXCEPT ![d] = s]
  BY <1>2 DEF Serve, Validate, Reject, Close, Read, Launch, ClientHandles, Answer, OnClientDisconnected,
              OnServerRegister, OnServerUpdate, OnUnknownUpdate, Stop, Move
<1>3. ASSUME NEW d \in Conn, OnAccept(d)
      PROVE  client' = [client EXCEPT ![d] = "joined"]
  BY <1>3 DEF OnAccept
<1> QED
  BY <1>0, <1>1, <1>2, <1>3 DEF GameNext

(* REGISTER is sent in the step that joins, and leaves the socket when it  *)
(* is read.                                                                *)
LEMMA RegisterSentStep ==
  ASSUME UniquePuids, EngineInv, OwnInv, RegisterSent, [GameNext]_allVars
  PROVE  RegisterSent'
<1> SUFFICES ASSUME NEW c \in Conn, client'[c] = "joined", IsConnected(c)', ~regRead'[c]
             PROVE  \E i \in 1..Len(toServer'[c]) : toServer'[c][i] = Register
  BY DEF RegisterSent
<1> DEFINE t == toServer[c]
<1>0. /\ t \in Seq(ToServerMsg) /\ toServer \in [Conn -> Seq(ToServerMsg)] /\ ~regRead[c]
      /\ Register \in ToServerMsg /\ Info \in ToServerMsg /\ Handshake \in ToServerMsg
      /\ Register # Handshake /\ \A body \in GameBody : body # Register
      /\ \A pos \in Positions : UpdatePlayer(pos) \in ToServerMsg
  BY RegReadStays, BodyFacts DEF OwnInv, GameTypeOK, ToServerMsg
<1>1. CASE OnAccept(c)
  <2>1. toServer'[c] = t \o <<Register, Info>>
    BY <1>0, <1>1 DEF OnAccept, Sent, Introduction, Info, IsConnected, vars, asioVars
  <2>2. toServer'[c] = Append(Append(t, Register), Info)
    BY <1>0, <2>1, ConcatFacts
  <2>3. Append(t, Register) \in Seq(ToServerMsg) /\ Len(t) + 1 \in 1..Len(Append(t, Register))
        /\ Append(t, Register)[Len(t) + 1] = Register
    BY <1>0, AppendFacts
  <2> QED
    BY <1>0, <2>2, <2>3, AppendFacts
<1>2. CASE client[c] = "joined"
  <2>1. sock[c] # "none" \/ ~Launch(c)
    BY <1>2 DEF Launch
  <2>2. PICK i \in 1..Len(t) : t[i] = Register
    BY <1>0, <1>2, <2>1, Connects DEF RegisterSent
  <2>3. CASE toServer'[c] = t
    BY <2>2, <2>3
  <2>4. ASSUME NEW msg \in ToServerMsg, toServer'[c] = Append(t, msg)
        PROVE  \E j \in 1..Len(toServer'[c]) : toServer'[c][j] = Register
    BY <1>0, <2>2, <2>4, AppendFacts
  <2>5. ASSUME t # <<>>, toServer'[c] = Tail(t), Head(t) # Register
        PROVE  \E j \in 1..Len(toServer'[c]) : toServer'[c][j] = Register
    <3>1. i # 1
      BY <1>0, <2>2, <2>5, TailFacts
    <3>2. i - 1 \in 1..Len(Tail(t)) /\ Tail(t)[i - 1] = t[i]
      BY <1>0, <2>2, <2>5, <3>1, TailFacts
    <3> QED
      BY <2>2, <2>5, <3>2
  <2>6. ~ReadRegister(c)
    BY <1>0 DEF ReadRegister, EngineInv, TypeOK
  <2>7. sock'[c] # "closed"
    BY DEF IsConnected
  <2>8. \A msg \in ToServerMsg : t \o <<msg>> = Append(t, msg)
    BY <1>0, ConcatFacts
  <2>9. ~OnAccept(c) \/ client[c] # "joined" \/ toServer'[c] = t \o <<Register, Info>>
    BY <1>0 DEF OnAccept, Sent, Introduction, Info, IsConnected, vars, asioVars
  <2>10. ASSUME NEW pos \in Positions, toServer'[c] = t \o <<UpdatePlayer(pos)>>
         PROVE  \E j \in 1..Len(toServer'[c]) : toServer'[c][j] = Register
    BY <1>0, <2>4, <2>8, <2>10
  <2>11. CASE toServer'[c] = t \o <<Handshake>>
    BY <1>0, <2>4, <2>8, <2>11
  <2> HIDE DEF t
  <2> QED
    BY <1>0, <1>1, <2>3, <2>5, <2>6, <2>7, <2>10, <2>11, Outbox DEF t
<1> QED
  BY <1>1, <1>2, JoinsBy

(* What a step does to the queue of the server.                            *)
LEMMA QueueChange ==
  ASSUME EngineInv, OwnInv, [GameNext]_allVars
  PROVE  \/ UNCHANGED qMessagesIn
         \/ \E msg \in RegisterMsg \union GameMsg : qMessagesIn' = Append(qMessagesIn, msg)
         \/ /\ qMessagesIn # <<>> /\ qMessagesIn' = Tail(qMessagesIn)
            /\ ServerOnRegister \/ DropUnregistered \/ OnRegisterPlayer \/ OnUpdatePlayer
<1>1. CASE UNCHANGED allVars
  BY <1>1 DEF allVars, vars
<1>2. CASE Conn = {}
  <2>1. CASE ServerThread
    <3>1. UNCHANGED qMessagesIn \/ ServerOnRegister \/ DropUnregistered \/ OnRegisterPlayer \/ OnUpdatePlayer
      BY <2>1 DEF ServerThread, ServerFrame, BeginUpdate, ClearGarbage, EndUpdate, CollectPlayer, Collect, Reply,
                  Send, Forward, SendAll
    <3> QED
      BY <3>1 DEF ServerOnRegister, OnRegister, DropUnregistered, OnRegisterPlayer, OnUpdatePlayer, OnGameMessage,
                  Incoming
  <2> QED
    BY <1>1, <1>2, <2>1 DEF GameNext
<1>3. CASE Conn # {}
  BY <1>3, Outbox
<1> QED
  BY <1>2, <1>3

(* A connection loses its registration, or its place in the queue, only to *)
(* be registered or collected.                                             *)
LEMMA RegistrationEnds ==
  ASSUME UniquePuids, EngineInv, OwnInv, [GameNext]_allVars, NEW c \in Conn
  PROVE  /\ Registered(c, player_uids) =>
              Registered(c, player_uids') \/ (CollectPlayer(c) /\ sock[c] \in {"shut", "closed"})
         /\ RegisterPending(c) => RegisterPending(c)' \/ Registered(c, player_uids')

<1> DEFINE Goal == /\ Registered(c, player_uids) => Registered(c, player_uids')
                                                    \/ (CollectPlayer(c) /\ sock[c] \in {"shut", "closed"})
                   /\ RegisterPending(c) => RegisterPending(c)' \/ Registered(c, player_uids')
           q == qMessagesIn
<1>0. q \in Seq(RegisterMsg \union GameMsg) /\ player_uids \in [Conn -> PlayerUID \union {NoUid}]
  BY DEF EngineInv, TypeOK
<1>1. ASSUME UNCHANGED player_uids,
             UNCHANGED q \/ \E msg \in RegisterMsg \union GameMsg : q' = Append(q, msg)
      PROVE  Goal
  <2>1. CASE UNCHANGED q
    BY <1>1, <2>1 DEF RegisterPending
  <2>2. ASSUME NEW msg \in RegisterMsg \union GameMsg, q' = Append(q, msg)
        PROVE  RegisterPending(c) => RegisterPending(c)'
    BY <1>0, <2>2, AppendFacts DEF RegisterPending
  <2> QED
    BY <1>1, <2>1, <2>2
<1>2. ASSUME q # <<>>, q' = Tail(q), Head(q).id # "REGISTER" \/ Head(q).conn # c
      PROVE  RegisterPending(c) => RegisterPending(c)'
  <2> SUFFICES ASSUME NEW i \in 1..Len(q), q[i].conn = c, q[i].id = "REGISTER"
               PROVE  RegisterPending(c)'
    BY DEF RegisterPending
  <2>1. Head(q) = q[1] /\ (i = 1 \/ (i - 1 \in 1..Len(Tail(q)) /\ Tail(q)[i - 1] = q[i]))
    BY <1>0, <1>2, TailFacts
  <2>2. i - 1 \in 1..Len(Tail(q)) /\ Tail(q)[i - 1] = q[i]
    BY <1>2, <2>1
  <2> QED
    BY <1>2, <2>2 DEF RegisterPending
<1>3. CASE ServerOnRegister
  <2> DEFINE d == Head(q).conn
  <2>1. q # <<>> /\ q' = Tail(q) /\ Head(q).id = "REGISTER"
    BY <1>3 DEF ServerOnRegister, OnRegister, Incoming
  <2>2. Head(q) = q[1] /\ 1 \in 1..Len(q) /\ Head(q) \in RegisterMsg \union GameMsg
    BY <1>0, <2>1, TailFacts
  <2>3. ~Registered(d, player_uids) /\ Head(q).body = PuidOf[d] /\ d \in Conn /\ PuidOf[d] # NoUid
    BY <2>1, <2>2, PuidAssumption
       DEF EngineInv, QueueInv, PendingIsFresh, IsRegister, TableInv, OwnRegisters, RegisterMsg, GameMsg
  <2>4. player_uids' = [player_uids EXCEPT ![d] = PuidOf[d]]
    BY <1>3, <2>3 DEF ServerOnRegister, OnRegister
  <2>5. /\ Registered(c, player_uids) => Registered(c, player_uids')
        /\ c = d => Registered(c, player_uids')
    BY <1>0, <2>3, <2>4 DEF Registered
  <2>6. c # d /\ RegisterPending(c) => RegisterPending(c)'
    BY <1>2, <2>1
  <2> HIDE DEF d
  <2> QED
    BY <2>5, <2>6
<1>4. ASSUME NEW cid \in Conn \union {NoConn}, CollectPlayer(cid)
      PROVE  Goal
  <2>1. Collect(cid) /\ player_uids' = UidsWithout(cid) /\ UNCHANGED q
    BY <1>4 DEF CollectPlayer, Collect
  <2>2. cid = c => sock[c] \in {"shut", "closed"}
    BY <2>1, Collected
  <2>3. cid # c => player_uids'[c] = player_uids[c]
    BY <2>1 DEF UidsWithout
  <2> QED
    BY <1>4, <2>1, <2>2, <2>3 DEF Registered, RegisterPending
<1>5. CASE ~ServerOnRegister /\ ~(\E cid \in Conn \union {NoConn} : CollectPlayer(cid))
  <2>1. UNCHANGED player_uids
    <3>1. CASE ServerThread \/ UNCHANGED allVars
      BY <1>5, <3>1 DEF ServerThread, ServerFrame, BeginUpdate, ClearGarbage, DropUnregistered, EndUpdate,
             OnRegisterPlayer, OnUpdatePlayer, OnGameMessage, Reply, Send, Forward, SendAll, allVars, vars, mainVars
    <3> QED
      BY <3>1, OtherThreads DEF GameNext, mainVars
  <2>2. DropUnregistered \/ OnRegisterPlayer \/ OnUpdatePlayer => Head(q).id # "REGISTER"
    BY DEF DropUnregistered, OnRegisterPlayer, OnUpdatePlayer, OnGameMessage, Incoming
  <2>3. CASE q # <<>> /\ q' = Tail(q) /\ Head(q).id # "REGISTER"
    BY <1>2, <2>1, <2>3
  <2> HIDE DEF q, Goal
  <2> QED
    BY <1>1, <1>5, <2>1, <2>2, <2>3, QueueChange DEF q, Goal
<1> QED
  BY <1>3, <1>4, <1>5

(* A REGISTER gets into the queue when it is read.                         *)
LEMMA PendingBegins ==
  ASSUME EngineInv, OwnInv, [GameNext]_allVars, NEW c \in Conn, RegisterPending(c)'
  PROVE  RegisterPending(c) \/ ReadRegister(c)
<1> DEFINE q == qMessagesIn
<1>0. q \in Seq(RegisterMsg \union GameMsg)
  BY DEF EngineInv, TypeOK
<1>1. CASE UNCHANGED q
  BY <1>1 DEF RegisterPending
<1>2. CASE q # <<>> /\ q' = Tail(q)
  BY <1>0, <1>2, TailFacts DEF RegisterPending
<1>3. ASSUME NEW msg \in RegisterMsg \union GameMsg, q' = Append(q, msg), msg.conn # c \/ msg.id # "REGISTER"
      PROVE  RegisterPending(c)
  BY <1>0, <1>3, AppendFacts DEF RegisterPending
<1> HIDE DEF q
<1> QED
  BY <1>1, <1>2, <1>3, Outbox DEF q

(* A registration is spent only by a disconnect.                           *)
LEMMA SpentStep ==
  ASSUME UniquePuids, EngineInv, OwnInv, ReadIsRegistered, [GameNext]_allVars
  PROVE  ReadIsRegistered'
<1> SUFFICES ASSUME NEW c \in Conn, Spent(c)', sock'[c] \notin {"shut", "closed"}
             PROVE  FALSE
  BY DEF ReadIsRegistered
<1>1. regRead'[c] /\ ~Registered(c, player_uids') /\ ~RegisterPending(c)'
  BY DEF Spent, Registered
<1>2. sock[c] \notin {"shut", "closed"}
  BY EngineStep, SocketsOnlyClose DEF EngineInv
<1>3. ~Registered(c, player_uids) /\ ~RegisterPending(c)
  BY <1>1, <1>2, RegistrationEnds
<1>4. ~regRead[c]
  BY <1>2, <1>3 DEF ReadIsRegistered, Spent
<1>5. ReadRegister(c)
  BY <1>1, <1>4, RegReadStays
<1>6. PICK msg \in RegisterMsg : qMessagesIn' = Append(qMessagesIn, msg) /\ msg.conn = c /\ msg.id = "REGISTER"
  <2> DEFINE msg == [conn |-> c, id |-> "REGISTER", body |-> PuidOf[c]]
  <2>1. msg \in RegisterMsg /\ msg.conn = c /\ msg.id = "REGISTER"
    BY PuidAssumption DEF RegisterMsg
  <2>2. qMessagesIn' = Append(qMessagesIn, msg)
    BY <1>5 DEF ReadRegister, AddToIncomingMessageQueue
  <2> HIDE DEF msg
  <2> QED
    BY <2>1, <2>2
<1>7. /\ Len(qMessagesIn) + 1 \in 1..Len(Append(qMessagesIn, msg))
      /\ Append(qMessagesIn, msg)[Len(qMessagesIn) + 1] = msg
  BY AppendFacts DEF EngineInv, TypeOK
<1> QED
  BY <1>1, <1>6, <1>7 DEF RegisterPending

(* Once nothing is on its way any more, a client in the game is a player.  *)
LEMMA QuietPlaced ==
  ASSUME EngineInv, OwnInv, PlayerInv, RegisterSent, ReadIsRegistered, Quiet, NEW c \in Conn, InGame(c)
  PROVE  Registered(c, player_uids) /\ places[PuidOf[c]] # NoPos
<1>1. IsConnected(c) /\ client[c] = "joined" /\ sock[c] = "open"
  BY DEF InGame, IsConnected
<1>2. toServer[c] = <<>> /\ qMessagesIn = <<>>
  BY <1>1 DEF Quiet
<1>3. 1..Len(toServer[c]) = {} /\ 1..Len(qMessagesIn) = {}
  BY <1>2
<1>4. Registered(c, player_uids)
  BY <1>1, <1>3 DEF RegisterSent, ReadIsRegistered, Spent, RegisterPending, Registered
<1>5. ~InfoNext(c, 0)
  BY <1>1, <1>2, <1>3 DEF InfoNext
<1> QED
  BY <1>4, <1>5 DEF PlayerInv, IntroInv

-----------------------------------------------------------------------------
(* The fourth layer: what the connections are told.                        *)

(* Whom each action tells of whom.                                         *)
LEMMA Words ==
  ASSUME EngineInv, NEW d \in Conn, NEW p \in PlayerUID
  PROVE  /\ ServerOnRegister =>
              LET h == Head(qMessagesIn).conn
              IN /\ h \in Conn /\ RegisterPending(h) /\ ~Registered(h, player_uids) /\ pc = "drain"
                 /\ last'[d][p] = IF d \in Reached(h) /\ p = PuidOf[h] THEN "CLIENT_CONNECTED" ELSE last[d][p]
         /\ \A cid \in Conn \union {NoConn} : CollectPlayer(cid) =>
              last'[d][p] = IF d \in Reached(NoConn) /\ p = PuidOfGarbage(cid)
                            THEN "CLIENT_DISCONNECTED" ELSE last[d][p]
         /\ \A other \in replies : Reply(other) =>
              /\ pc = "handler" /\ pc' = "handler" /\ current' = current /\ replies' = replies \ {other}
              /\ last'[d][p] = IF d = current /\ IsConnected(d) /\ p = other THEN "GAME_MESSAGE" ELSE last[d][p]
         /\ Forward =>
              /\ pc = "handler" /\ replies = {} /\ pc' = "drain"
              /\ last'[d][p] = IF d \in Reached(current) /\ p = PuidOf[current]
                               THEN "GAME_MESSAGE" ELSE last[d][p]
<1> USE DEF mainVars
<1>0. last \in [Conn -> [PlayerUID -> MsgKind]] /\ qMessagesIn \in Seq(RegisterMsg \union GameMsg)
  BY DEF EngineInv, TypeOK
<1>1. ASSUME ServerOnRegister
      PROVE  LET h == Head(qMessagesIn).conn
             IN /\ h \in Conn /\ RegisterPending(h) /\ ~Registered(h, player_uids) /\ pc = "drain"
                /\ last'[d][p] = IF d \in Reached(h) /\ p = PuidOf[h] THEN "CLIENT_CONNECTED" ELSE last[d][p]
  <2> DEFINE h == Head(qMessagesIn).conn
  <2>1. qMessagesIn # <<>> /\ Head(qMessagesIn).id = "REGISTER" /\ pc = "drain"
    BY <1>1 DEF ServerOnRegister, OnRegister, Incoming
  <2>2. /\ Head(qMessagesIn) = qMessagesIn[1] /\ 1 \in 1..Len(qMessagesIn)
        /\ Head(qMessagesIn) \in RegisterMsg \union GameMsg
    BY <1>0, <2>1, TailFacts
  <2>3. /\ ~Registered(h, player_uids) /\ Head(qMessagesIn).body = PuidOf[h] /\ h \in Conn /\ RegisterPending(h)
    BY <2>1, <2>2 DEF EngineInv, QueueInv, PendingIsFresh, IsRegister, TableInv, OwnRegisters, RegisterMsg,
                      GameMsg, RegisterPending
  <2>4. \E uids : MessageAllClients(PuidOf[h], "CLIENT_CONNECTED", h, uids)
    BY <1>1, <2>3 DEF ServerOnRegister, OnRegister
  <2> QED
    BY <2>1, <2>3, <2>4 DEF MessageAllClients
<1>2. ASSUME NEW cid \in Conn \union {NoConn}, CollectPlayer(cid)
      PROVE  last'[d][p] = IF d \in Reached(NoConn) /\ p = PuidOfGarbage(cid)
                           THEN "CLIENT_DISCONNECTED" ELSE last[d][p]
  BY <1>2 DEF CollectPlayer, Collect, MessageAllClients
<1>3. ASSUME NEW other \in replies, Reply(other)
      PROVE  /\ pc = "handler" /\ pc' = "handler" /\ current' = current /\ replies' = replies \ {other}
             /\ last'[d][p] = IF d = current /\ IsConnected(d) /\ p = other THEN "GAME_MESSAGE" ELSE last[d][p]
  <2>1. pc = "handler"
    BY <1>3 DEF Reply, Send
  <2>2. Target = current /\ current \in Conn /\ Target \notin {NoConn, NullConn}
    BY <2>1, Addressee, ConnAssumption
  <2>3. MessageClient(current, other, "GAME_MESSAGE") /\ replies' = replies \ {other} /\ UNCHANGED <<pc, current>>
    BY <1>3, <2>2 DEF Reply, Send
  <2>4. other \in PlayerUID
    BY DEF EngineInv, TypeOK
  <2> QED
    BY <1>0, <2>1, <2>2, <2>3, <2>4 DEF MessageClient
<1>4. ASSUME Forward
      PROVE  /\ pc = "handler" /\ replies = {} /\ pc' = "drain"
             /\ last'[d][p] = IF d \in Reached(current) /\ p = PuidOf[current]
                              THEN "GAME_MESSAGE" ELSE last[d][p]
  <2>1. pc = "handler" /\ replies = {} /\ pc' = "drain"
    BY <1>4 DEF Forward, SendAll
  <2>2. Target = current /\ player_uids[current] = PuidOf[current]
    BY <2>1, Addressee
  <2>3. MessageAllClients(PuidOf[current], "GAME_MESSAGE", current, player_uids)
    BY <1>4, <2>2 DEF Forward, SendAll
  <2> QED
    BY <2>1, <2>3 DEF MessageAllClients
<1> QED
  BY <1>1, <1>2, <1>3, <1>4

(* What the other actions leave alone.                                     *)
LEMMA Silence ==
  ASSUME [GameNext]_allVars, ~ServerOnRegister, ~Forward, ~(\E other \in replies : Reply(other)),
         ~(\E cid \in Conn \union {NoConn} : CollectPlayer(cid))
  PROVE  UNCHANGED <<last, player_uids>>
<1>1. CASE ServerThread \/ UNCHANGED allVars
  BY <1>1 DEF ServerThread, ServerFrame, BeginUpdate, ClearGarbage, DropUnregistered, EndUpdate,
              OnRegisterPlayer, OnUpdatePlayer, OnGameMessage, allVars, vars, mainVars
<1> QED
  BY <1>1, OtherThreads DEF GameNext, mainVars

(* Whoever the server has as a player is registered.                       *)
LEMMA PlacedIsRegistered ==
  ASSUME UniquePuids, EngineInv, InfoHasEntity, NEW c \in Conn, places[PuidOf[c]] # NoPos
  PROVE  Registered(c, player_uids)
<1>1. PuidOf[c] \in PlayerUID /\ PuidOf[c] # NoUid
  BY PuidAssumption
<1>2. PICK d \in Conn : player_uids[d] = PuidOf[c]
  BY <1>1 DEF InfoHasEntity, EngineInv, KnownRegistered
<1>3. d = c
  BY <1>1, <1>2 DEF UniquePuids, EngineInv, TableInv, OwnUids
<1> QED
  BY <1>1, <1>2, <1>3 DEF Registered

Placed(c) == places[PuidOf[c]] # NoPos

(* A connected client that was last told of a player, and not of his       *)
(* leaving, was told of one whom the server has.                           *)
SpokenOfIsPlaced ==
  \A d \in Conn, p \in PlayerUID : IsConnected(d) /\ last[d][p] = "GAME_MESSAGE" => places[p] # NoPos

(* Nobody was told of a connection that has still to register.             *)
UnregisteredIsUnspoken ==
  \A b, d \in Conn : ~regRead[b] \/ RegisterPending(b) => last[d][PuidOf[b]] = "none"

(* A player is spoken of when he is in, and leaves in the step that says   *)
(* so to every connected client.                                           *)
LEMMA SpokenStep ==
  ASSUME UniquePuids, SessionInv, SessionInv', SpokenOfIsPlaced, [GameNext]_allVars
  PROVE  SpokenOfIsPlaced'
<1> SUFFICES ASSUME NEW d \in Conn, NEW p \in PlayerUID, IsConnected(d)', last'[d][p] = "GAME_MESSAGE"
             PROVE  places'[p] # NoPos
  BY DEF SpokenOfIsPlaced
<1>0. EngineInv /\ OwnInv /\ PlayerInv /\ InfoHasEntity /\ InfoHasEntity' /\ SenderHasEntity
  BY DEF SessionInv, PlayerInv
<1>1. CASE last[d][p] = "GAME_MESSAGE"
  <2>1. sock[d] # "none"
    BY <1>1 DEF EngineInv, StreamInv, Unsent, SessionInv
  <2>2. places[p] # NoPos /\ IsConnected(d)
    BY <1>0, <1>1, <2>1, Connects DEF SpokenOfIsPlaced
  <2>3. ASSUME NEW cid \in Conn, CollectPlayer(cid), p = PuidOf[cid], Registered(cid, player_uids),
               ~Registered(cid, player_uids')
        PROVE  FALSE
    <3>1. [Next]_vars /\ TypeOK /\ HandlesRegistered /\ InDeque
      BY <1>0, EngineStep DEF EngineInv, StreamInv
    <3>2. player_uids[cid] = p
      BY <1>0, <2>3 DEF EngineInv, TableInv, OwnUids, Registered
    <3>3. last'[d][p] = "CLIENT_DISCONNECTED"
      BY <2>2, <2>3, <3>1, <3>2, DeregistrationIsTold
    <3> QED
      BY <3>3
  <2>4. ASSUME OnRegisterPlayer \/ OnUpdatePlayer
        PROVE  SPAWN_POS # NoPos /\ Handled.body.pos # NoPos
    BY <1>0, <2>4, Sender, BodyFacts DEF OnRegisterPlayer, OnUpdatePlayer
  <2> QED
    BY <1>0, <2>2, <2>3, <2>4, TableChange
<1>2. CASE last[d][p] # "GAME_MESSAGE"
  <2>1. CASE \E other \in replies : Reply(other)
    <3>1. Reply(p) /\ p \in replies
      BY <1>0, <1>2, <2>1, Words
    <3> QED
      BY <1>0, <3>1 DEF Reply, gameVars, OwnInv, RepliesNews, InfoHasEntity
  <2>2. CASE Forward
    <3>1. pc = "handler" /\ p = PuidOf[current]
      BY <1>0, <1>2, <2>2, Words
    <3>2. player_uids[current] = p
      BY <1>0, <3>1, Addressee
    <3> QED
      BY <1>0, <2>2, <3>1, <3>2 DEF Forward, SenderHasEntity
  <2>3. ~ServerOnRegister /\ ~\E cid \in Conn \union {NoConn} : CollectPlayer(cid)
    BY <1>0, <1>2, Words
  <2> QED
    BY <1>2, <2>1, <2>2, <2>3, Silence
<1> QED
  BY <1>1, <1>2

(* A connection is first spoken of when its REGISTER is handled.           *)
LEMMA UnspokenStep ==
  ASSUME UniquePuids, SessionInv, SessionInv', UnregisteredIsUnspoken, [GameNext]_allVars
  PROVE  UnregisteredIsUnspoken'
<1> SUFFICES ASSUME NEW b \in Conn, NEW d \in Conn, ~regRead'[b] \/ RegisterPending(b)'
             PROVE  last'[d][PuidOf[b]] = "none"
  BY DEF UnregisteredIsUnspoken
<1>0. EngineInv /\ OwnInv /\ EngineInv' /\ PuidOf[b] \in PlayerUID /\ PuidOf[b] # NoUid /\ [Next]_vars
  BY EngineStep, PuidAssumption DEF SessionInv
<1>1. last'[d][PuidOf[b]] = last[d][PuidOf[b]]
  <2> SUFFICES ASSUME last'[d][PuidOf[b]] # last[d][PuidOf[b]]
               PROVE  FALSE
    OBVIOUS
  <2>1. ASSUME NEW c \in Conn, player_uids[c] = PuidOf[b] \/ player_uids'[c] = PuidOf[b]
        PROVE  c = b
    BY <1>0, <2>1 DEF EngineInv, TableInv, OwnUids, UniquePuids
  <2>2. Registered(b, player_uids') => FALSE
    BY <1>0 DEF EngineInv, QueueInv, PendingIsFresh, RegisteredWasRead, RegisterPending, IsRegister, Registered
  <2>3. Registered(b, player_uids) /\ UNCHANGED <<regRead, qMessagesIn>> => FALSE
    BY <1>0 DEF EngineInv, QueueInv, PendingIsFresh, RegisteredWasRead, RegisterPending, IsRegister
  <2> QED
    BY <1>0, <2>1, <2>2, <2>3, LastChange DEF EngineInv, StreamInv, Registered
<1>2. ~regRead[b] \/ RegisterPending(b)
  BY <1>0, RegReadStays, PendingBegins DEF ReadRegister
<1> QED
  BY <1>1, <1>2 DEF UnregisteredIsUnspoken

(* Two players know of each other, unless the server is just telling them. *)
MutuallyTold ==
  \A b, c \in Conn :
    b # c /\ Placed(b) /\ Placed(c) /\ IsConnected(c) =>
      \/ last[c][PuidOf[b]] = "GAME_MESSAGE"
      \/ pc = "handler" /\ (current = b \/ (current = c /\ PuidOf[b] \in replies))

(* A connection becomes a player by its own info.                          *)
LEMMA PlacedBy ==
  ASSUME UniquePuids, EngineInv, OwnInv, [GameNext]_allVars, NEW c \in Conn, Placed(c)'
  PROVE  Placed(c) \/ (OnRegisterPlayer /\ Handled.conn = c)
<1>1. PuidOf[c] \in PlayerUID
  BY PuidAssumption
<1>2. OnRegisterPlayer => Handled.conn \in Conn
  BY Sender DEF OnRegisterPlayer
<1>3. places'[PuidOf[c]] # NoPos
  BY DEF Placed
<1>4. OnRegisterPlayer /\ PuidOf[c] = PuidOf[Handled.conn] => Handled.conn = c
  BY <1>2 DEF UniquePuids
<1> QED
  BY <1>1, <1>3, <1>4, TableChange DEF Placed

(* When b comes in, the handler owes c the broadcast of b, and b the reply *)
(* about c; both are paid before the handler ends.                         *)
LEMMA MutualStep ==
  ASSUME UniquePuids, SessionInv, SessionInv', MutuallyTold, [GameNext]_allVars
  PROVE  MutuallyTold'
<1> SUFFICES ASSUME NEW b \in Conn, NEW c \in Conn, b # c, Placed(b)', Placed(c)', IsConnected(c)'
             PROVE  \/ last'[c][PuidOf[b]] = "GAME_MESSAGE"
                    \/ pc' = "handler" /\ (current' = b \/ (current' = c /\ PuidOf[b] \in replies'))
  BY DEF MutuallyTold
<1> DEFINE p == PuidOf[b]
<1>0. /\ EngineInv /\ OwnInv /\ InfoHasEntity /\ EngineInv' /\ InfoHasEntity'
      /\ p \in PlayerUID /\ PuidOf[c] \in PlayerUID /\ p # PuidOf[c]
  BY PuidAssumption DEF SessionInv, PlayerInv, UniquePuids
<1>1. CASE OnRegisterPlayer /\ Handled.conn \in {b, c}
  <2> DEFINE known == With(infos, PuidOf[Handled.conn], Handled.body.pos)
  <2>1. /\ OnGameMessage(OtherInfos(known, PuidOf[Handled.conn])) /\ infos' = known
    BY <1>1 DEF OnRegisterPlayer
  <2>2. /\ pc' = "handler" /\ current' = Handled.conn /\ replies' = OtherInfos(infos', PuidOf[Handled.conn])
    BY <2>1 DEF OnGameMessage, Handled
  <2>3. infos'[p] # NoPos
    BY <1>0 DEF Placed, InfoHasEntity
  <2> QED
    BY <1>0, <1>1, <2>2, <2>3 DEF OtherInfos
<1>2. CASE ~(OnRegisterPlayer /\ Handled.conn \in {b, c})
  <2>1. Placed(b) /\ Placed(c)
    BY <1>0, <1>2, PlacedBy
  <2>2. Registered(b, player_uids) /\ Registered(c, player_uids)
    BY <1>0, <2>1, PlacedIsRegistered DEF Placed
  <2>3. IsConnected(c) /\ c \in deqConnections
    BY <1>0, <2>2, Connects DEF EngineInv, SocketInv, Accepted, StreamInv, InDeque
  <2>4. \/ last[c][p] = "GAME_MESSAGE"
        \/ pc = "handler" /\ (current = b \/ (current = c /\ p \in replies))
    BY <2>1, <2>3 DEF MutuallyTold
  <2> HIDE DEF p
  <2>5. CASE \E other \in replies : Reply(other)
    BY <1>0, <2>3, <2>4, <2>5, Words DEF p
  <2>6. CASE Forward
    <3>1. c \in Reached(current) <=> c # current
      BY <2>3 DEF Reached
    <3> QED
      BY <1>0, <2>4, <2>6, <3>1, Words DEF p
  <2>7. ASSUME NEW cid \in Conn \union {NoConn}, CollectPlayer(cid)
        PROVE  last'[c][p] = "GAME_MESSAGE"
    <3>1. pc = "gc" /\ places' = Without(places, PuidOfGarbage(cid))
      BY <2>7 DEF CollectPlayer, Collect
    <3>2. p # PuidOfGarbage(cid)
      BY <1>0, <3>1 DEF Placed, Without, p
    <3> QED
      BY <1>0, <2>4, <2>7, <3>1, <3>2, Words
  <2>8. CASE ServerOnRegister
    <3>1. Head(qMessagesIn).conn # b /\ Head(qMessagesIn).conn \in Conn /\ pc = "drain"
      BY <1>0, <2>2, <2>8, Words
    <3>2. p # PuidOf[Head(qMessagesIn).conn]
      BY <3>1 DEF UniquePuids, p
    <3> QED
      BY <1>0, <2>4, <2>8, <3>1, <3>2, Words DEF p
  <2>9. CASE /\ ~ServerOnRegister /\ ~Forward /\ ~(\E other \in replies : Reply(other))
             /\ ~(\E cid \in Conn \union {NoConn} : CollectPlayer(cid))
    <3>1. UNCHANGED last
      BY <2>9, Silence
    <3>2. pc = "handler" => UNCHANGED <<pc, current, replies>>
      <4>1. CASE ServerThread \/ UNCHANGED allVars
        BY <2>9, <4>1 DEF ServerThread, ServerFrame, BeginUpdate, ClearGarbage, DropUnregistered, EndUpdate,
              OnRegisterPlayer, OnUpdatePlayer, OnGameMessage, Incoming, allVars, vars, mainVars
      <4> QED
        BY <4>1, OtherThreads DEF GameNext, mainVars
    <3> QED
      BY <2>4, <3>1, <3>2 DEF p
  <2> QED
    BY <2>5, <2>6, <2>7, <2>8, <2>9 DEF p
<1> QED
  BY <1>1, <1>2

-----------------------------------------------------------------------------
(* The fifth layer: what the clients make of it.                           *)

(* Where a client has a player after a message about him.                  *)
Seen(msg, pos) ==
  CASE msg.op = "CLIENT_DISCONNECTED" -> NoPos
    [] msg.op = "REGISTER_PLAYER" -> IF pos # NoPos THEN pos ELSE msg.pos
    [] OTHER -> msg.pos

HandlesMessage(c) == OnAccept(c) \/ OnClientDisconnected(c) \/ OnServerRegister(c) \/ OnServerUpdate(c)

(* A message changes what its client has of the player it is about, and    *)
(* nothing else.                                                           *)
LEMMA Heard ==
  ASSUME OwnInv, NEW c \in Conn, NEW p \in PlayerUID, HandlesMessage(c)
  PROVE  LET msg == Head(toClient[c])
         IN /\ Alive(c) /\ toClient[c] # <<>> /\ msg \in ToClientMsg
            /\ toClient' = [toClient EXCEPT ![c] = Tail(@)]
            /\ ~Concerns(msg, p) => view'[c][p] = view[c][p]
            /\ Concerns(msg, p) =>
                 /\ view'[c][p] = Seen(msg, view[c][p])
                 /\ msg.op = "UPDATE_PLAYER" => view[c][p] # NoPos
            /\ \A d \in Conn \ {c} : view'[d] = view[d]
            /\ UNCHANGED <<vars, gameVars, unmoved>>
<1> DEFINE msg == Head(toClient[c])
<1>0. /\ toClient[c] \in Seq(ToClientMsg) /\ view \in [Conn -> [PlayerUID -> (Int \X Int) \union {NoPos}]]
  BY DEF OwnInv, GameTypeOK
<1>1. /\ Alive(c) /\ toClient[c] # <<>> /\ toClient' = [toClient EXCEPT ![c] = Tail(@)]
      /\ UNCHANGED <<vars, gameVars, unmoved>>
  BY DEF HandlesMessage, OnAccept, OnClientDisconnected, OnServerRegister, OnServerUpdate, Received, Handle, Alive, seenVars
<1>2. msg \in ToClientMsg
  BY <1>0, <1>1, TailFacts
<1>3. CASE OnAccept(c)
  <2>1. msg.op = "ACCEPT_CONNECTION" /\ UNCHANGED view
    BY <1>3 DEF OnAccept, Received
  <2> QED
    BY <1>1, <1>2, <2>1 DEF Concerns
<1>4. CASE OnClientDisconnected(c)
  <2>1. msg.op = "CLIENT_DISCONNECTED" /\ view' = [view EXCEPT ![c] = Without(@, msg.uid)]
    BY <1>4 DEF OnClientDisconnected, Received, Leaver
  <2>2. view'[c] = Without(view[c], msg.uid) /\ \A d \in Conn \ {c} : view'[d] = view[d]
    BY <1>0, <2>1
  <2> QED
    BY <1>1, <1>2, <2>1, <2>2 DEF Concerns, Seen, Without
<1>5. CASE OnServerRegister(c)
  <2>1. msg.op = "REGISTER_PLAYER" /\ view' = [view EXCEPT ![c] = With(@, msg.uid, msg.pos)]
    BY <1>5 DEF OnServerRegister, Received
  <2>2. view'[c] = With(view[c], msg.uid, msg.pos) /\ \A d \in Conn \ {c} : view'[d] = view[d]
    BY <1>0, <2>1
  <2> QED
    BY <1>0, <1>1, <1>2, <2>1, <2>2 DEF Concerns, Seen, With
<1>6. CASE OnServerUpdate(c)
  <2>1. msg.op = "UPDATE_PLAYER" /\ view' = [view EXCEPT ![c][msg.uid] = msg.pos] /\ view[c][msg.uid] # NoPos
    BY <1>6 DEF OnServerUpdate, Received, StepTo
  <2>2. view'[c] = [view[c] EXCEPT ![msg.uid] = msg.pos] /\ \A d \in Conn \ {c} : view'[d] = view[d]
    BY <1>0, <2>1
  <2> QED
    BY <1>0, <1>1, <1>2, <2>1, <2>2 DEF Concerns, Seen
<1> QED
  BY <1>3, <1>4, <1>5, <1>6 DEF HandlesMessage

(* All that can happen to what client c has, and was told, of player p.    *)
LEMMA Hears ==
  ASSUME UniquePuids, SessionInv, [GameNext]_allVars, NEW c \in Conn, NEW p \in PlayerUID, p # PuidOf[c], Alive(c)'
  PROVE  \/ Alive(c) /\ UNCHANGED <<toClient[c], view[c][p], last[c][p]>>
         \/ Launch(c) /\ toClient'[c] = <<>> /\ view'[c][p] = NoPos /\ last'[c][p] = "none"
         \/ /\ Alive(c) /\ UNCHANGED <<toClient[c], view[c][p]>> /\ last'[c][p] = "CLIENT_CONNECTED"
            /\ \E b \in Conn : RegisterPending(b) /\ p = PuidOf[b]
         \/ /\ Alive(c) /\ UNCHANGED <<view[c][p], last[c][p]>>
            /\ \E msg \in ToClientMsg : ~Concerns(msg, p) /\ toClient'[c] = Append(toClient[c], msg)
         \/ /\ Alive(c) /\ UNCHANGED view[c][p]
            /\ \/ /\ toClient'[c] = Append(toClient[c], Disconnected(p))
                  /\ last'[c][p] = "CLIENT_DISCONNECTED"
               \/ /\ Reply(p) /\ p \in replies /\ pc = "handler" /\ c = current
                  /\ toClient'[c] = Append(toClient[c], About(p, RegisterPlayer(infos[p])))
                  /\ last'[c][p] = "GAME_MESSAGE"
               \/ /\ Forward /\ pc = "handler" /\ p = PuidOf[current]
                  /\ toClient'[c] = Append(toClient[c], About(p, handling))
                  /\ last'[c][p] = "GAME_MESSAGE"
         \/ Alive(c) /\ HandlesMessage(c) /\ UNCHANGED last[c][p]
<1> DEFINE Same == Alive(c) /\ UNCHANGED <<toClient[c], view[c][p], last[c][p]>>
           Other == /\ Alive(c) /\ UNCHANGED <<view[c][p], last[c][p]>>
                    /\ \E msg \in ToClientMsg : ~Concerns(msg, p) /\ toClient'[c] = Append(toClient[c], msg)
<1>0. /\ EngineInv /\ OwnInv /\ client \in [Conn -> ClientState] /\ toClient \in [Conn -> Seq(ToClientMsg)]
      /\ toClient' \in [Conn -> Seq(ToClientMsg)]
      /\ view \in [Conn -> [PlayerUID -> (Int \X Int) \union {NoPos}]] /\ PuidOf[c] \in PlayerUID
  BY PuidAssumption, InboxTyped DEF SessionInv, OwnInv, GameTypeOK
<1>a. ASSUME NEW msg, NEW S, toClient' = Posted(S, msg), UNCHANGED client
      PROVE  toClient'[c] = IF c \in S THEN Append(toClient[c], msg) ELSE toClient[c]
  BY <1>0, <1>a DEF Posted, Enqueue, Alive
<1>b. ServerThread => UNCHANGED <<client, view>>
  BY MainThreadOnly
<1>1. CASE ServerFrame \/ OnRegisterPlayer \/ OnUpdatePlayer \/ UNCHANGED allVars
  BY <1>1 DEF ServerFrame, BeginUpdate, ClearGarbage, DropUnregistered, EndUpdate, OnRegisterPlayer, OnUpdatePlayer,
              OnGameMessage, clientVars, allVars, vars, mainVars, Alive
<1>2. CASE ServerOnRegister
  <2>1. Alive(c) /\ UNCHANGED <<toClient, view>>
    BY <1>2 DEF ServerOnRegister, clientVars, Alive
  <2> QED
    BY <1>0, <1>2, <2>1, Words
<1>3. ASSUME NEW cid \in Conn \union {NoConn}, CollectPlayer(cid)
      PROVE  \/ Same \/ Other
             \/ /\ Alive(c) /\ UNCHANGED view[c][p]
                /\ toClient'[c] = Append(toClient[c], Disconnected(p)) /\ last'[c][p] = "CLIENT_DISCONNECTED"
  <2> DEFINE g == PuidOfGarbage(cid)
  <2>1. /\ UNCHANGED <<client, view>> /\ Alive(c)
        /\ toClient'[c] = IF c \in Reached(NoConn) THEN Append(toClient[c], Disconnected(g)) ELSE toClient[c]
    BY <1>3, <1>a DEF CollectPlayer, Alive
  <2>2. last'[c][p] = IF c \in Reached(NoConn) /\ p = g THEN "CLIENT_DISCONNECTED" ELSE last[c][p]
    BY <1>0, <1>3, Words
  <2>3. Disconnected(g) \in ToClientMsg /\ (Concerns(Disconnected(g), p) <=> g = p)
    BY <1>0, <1>3, Collected DEF CollectPlayer, Disconnected, ToClientMsg, Concerns
  <2> QED
    BY <2>1, <2>2, <2>3
<1>c. ASSUME NEW q \in PlayerUID, NEW body, body.op \in {"REGISTER_PLAYER", "UPDATE_PLAYER"}, body.pos \in Int \X Int
      PROVE  About(q, body) \in ToClientMsg /\ (Concerns(About(q, body), p) <=> q = p)
  BY <1>c DEF About, ToClientMsg, Concerns
<1>4. ASSUME NEW other \in replies, Reply(other)
      PROVE  \/ Same \/ Other
             \/ /\ Alive(c) /\ UNCHANGED view[c][p]
                /\ Reply(p) /\ p \in replies /\ pc = "handler" /\ c = current
                /\ toClient'[c] = Append(toClient[c], About(p, RegisterPlayer(infos[p])))
                /\ last'[c][p] = "GAME_MESSAGE"
  <2> DEFINE msg == About(other, RegisterPlayer(infos[other]))
  <2>1. pc = "handler" /\ Target = current
    BY <1>0, <1>4, Words, Addressee
  <2>2. /\ UNCHANGED <<client, view>> /\ Alive(c)
        /\ toClient'[c] = IF c = current /\ IsConnected(c) THEN Append(toClient[c], msg) ELSE toClient[c]
    BY <1>4, <1>a, <2>1 DEF Reply, Alive
  <2>3. last'[c][p] = IF c = current /\ IsConnected(c) /\ p = other THEN "GAME_MESSAGE" ELSE last[c][p]
    BY <1>0, <1>4, Words
  <2>4. other \in PlayerUID /\ infos[other] \in Int \X Int
    BY <1>0 DEF EngineInv, TypeOK, OwnInv, GameTypeOK, RepliesNews
  <2>5. msg \in ToClientMsg /\ (Concerns(msg, p) <=> other = p)
    BY <1>c, <2>4 DEF RegisterPlayer
  <2> HIDE DEF msg
  <2>6. CASE c = current /\ IsConnected(c) /\ p = other
    BY <1>4, <2>1, <2>2, <2>3, <2>6 DEF msg
  <2>7. CASE ~(c = current /\ IsConnected(c) /\ p = other)
    BY <2>2, <2>3, <2>5, <2>7
  <2> QED
    BY <2>6, <2>7
<1>5. CASE Forward
  <2> DEFINE msg == About(PuidOf[current], handling)
  <2>1. pc = "handler" /\ Target = current /\ player_uids[current] = PuidOf[current] /\ PuidOf[current] \in PlayerUID
    BY <1>0, <1>5, Words, Addressee
  <2>2. /\ UNCHANGED <<client, view>> /\ Alive(c)
        /\ toClient'[c] = IF c \in Reached(current) THEN Append(toClient[c], msg) ELSE toClient[c]
    BY <1>5, <1>a, <2>1 DEF Forward, Alive
  <2>3. last'[c][p] = IF c \in Reached(current) /\ p = PuidOf[current] THEN "GAME_MESSAGE" ELSE last[c][p]
    BY <1>0, <1>5, Words
  <2>4. handling \in GameBody
    BY <1>0, <2>1 DEF OwnInv, GameTypeOK
  <2>5. msg \in ToClientMsg /\ (Concerns(msg, p) <=> PuidOf[current] = p)
    BY <1>c, <2>1, <2>4, BodyFacts
  <2> HIDE DEF msg
  <2>6. CASE c \in Reached(current) /\ p = PuidOf[current]
    BY <1>5, <2>1, <2>2, <2>3, <2>6 DEF msg
  <2>7. CASE ~(c \in Reached(current) /\ p = PuidOf[current])
    BY <2>2, <2>3, <2>5, <2>7
  <2> QED
    BY <2>6, <2>7
<1>6. ASSUME NEW d \in Conn, Serve(d) \/ Close(d)
      PROVE  Same \/ Other
  <2>1. UNCHANGED <<last, client, view>>
    BY <1>6, OtherThreads DEF Serve, Validate, Reject, Close, Read, mainVars
  <2>2. toClient'[c] \in {toClient[c], Append(toClient[c], Accept)}
    BY <1>0, <1>6, <1>a DEF Serve, Validate, Reject, Close, Read
  <2>3. Accept \in ToClientMsg /\ ~Concerns(Accept, p)
    BY DEF Accept, ToClientMsg, Concerns
  <2> QED
    BY <2>1, <2>2, <2>3 DEF Alive
<1>7. ASSUME NEW d \in Conn, Launch(d)
      PROVE  Same \/ (Launch(c) /\ toClient'[c] = <<>> /\ view'[c][p] = NoPos /\ last'[c][p] = "none")
  <2>1. UNCHANGED <<last, toClient>> /\ client' = [client EXCEPT ![d] = "connecting"]
        /\ view' = [view EXCEPT ![d] = With(@, PuidOf[d], SPAWN_POS)] /\ sock[d] = "none" /\ client[d] = "off"
    BY <1>7, OtherThreads DEF Launch, WaitForClientConnection, mainVars
  <2>2. CASE d = c
    <3>1. toClient[c] = <<>> /\ view[c] = Nobody /\ last[c][p] = "none"
      BY <1>0, <2>1, <2>2 DEF OwnInv, DeadHoldsNothing, Alive, EngineInv, StreamInv, Unsent
    <3>2. view'[c][p] = NoPos
      BY <1>0, <2>1, <2>2, <3>1 DEF With, Nobody
    <3> QED
      BY <1>7, <2>1, <2>2, <3>1, <3>2
  <2>3. CASE d # c
    BY <1>0, <2>1, <2>3 DEF Alive
  <2> QED
    BY <2>2, <2>3
<1>8. ASSUME NEW d \in Conn, Answer(d) \/ \E dir \in Dirs : Move(d, dir)
      PROVE  Same
  <2>1. UNCHANGED <<last, toClient>> /\ Alive(c)
    BY <1>0, <1>8 DEF Answer, Move, vars, mainVars, Alive
  <2>2. view'[c][p] = view[c][p]
    <3>1. UNCHANGED view \/ \E pos : view' = [view EXCEPT ![d][PuidOf[d]] = pos]
      BY <1>8 DEF Answer, Move
    <3>2. \A pos : [view EXCEPT ![d][PuidOf[d]] = pos][c][p] = view[c][p]
      BY <1>0
    <3> QED
      BY <3>1, <3>2
  <2> QED
    BY <2>1, <2>2
<1>9. ASSUME NEW d \in Conn, HandlesMessage(d)
      PROVE  Same \/ (Alive(c) /\ HandlesMessage(c) /\ UNCHANGED last[c][p])
  <2>1. UNCHANGED last /\ Alive(d)
    BY <1>0, <1>9, Heard DEF vars, mainVars
  <2>2. CASE d # c
    <3>1. UNCHANGED <<toClient[c], view[c][p]>>
      BY <1>0, <1>9, <2>2, Heard
    <3>2. UNCHANGED client[c]
      BY <1>0, <1>9, <2>2 DEF HandlesMessage, OnAccept, OnClientDisconnected, OnServerRegister, OnServerUpdate
    <3> QED
      BY <2>1, <3>1, <3>2 DEF Alive
  <2> QED
    BY <1>9, <2>1, <2>2
<1>10. ASSUME NEW d \in Conn, OnUnknownUpdate(d) \/ Stop(d)
       PROVE  Same
  <2>1. UNCHANGED last /\ client'[d] \notin {"connecting", "answered", "joined"}
    BY <1>0, <1>10 DEF OnUnknownUpdate, Stop, vars, mainVars
  <2>2. d # c
    BY <2>1 DEF Alive
  <2>3. UNCHANGED <<client[c], view[c], toClient[c]>>
    BY <1>0, <1>10, <2>2 DEF OnUnknownUpdate, Stop
  <2> QED
    BY <2>1, <2>3 DEF Alive
<1> HIDE DEF Same, Other
<1>11. ASSUME NEW d \in Conn, ClientHandles(d)
       PROVE  Answer(d) \/ HandlesMessage(d) \/ OnUnknownUpdate(d)
  BY <1>11 DEF ClientHandles, HandlesMessage
<1>12. CASE ServerThread \/ UNCHANGED allVars
  BY <1>1, <1>2, <1>3, <1>4, <1>5, <1>12 DEF ServerThread, Same, Other
<1>13. CASE \E d \in Conn : Serve(d) \/ Close(d) \/ Launch(d) \/ ClientHandles(d) \/ Stop(d) \/ \E dir \in Dirs : Move(d, dir)
  BY <1>6, <1>7, <1>8, <1>9, <1>10, <1>11, <1>13 DEF Same, Other
<1> QED
  BY <1>12, <1>13 DEF GameNext

(* Nothing about player p waits for client c.                              *)
NoneWaits(c, p) == \A i \in 1..Len(toClient[c]) : ~Tells(c, i, p)

(* What a client was told of another player agrees with what it has of him *)
(* and what waits for it.                                                  *)
Delivery(c, p) ==
  /\ last[c][p] \in {"none", "CLIENT_CONNECTED"} => view[c][p] = NoPos /\ NoneWaits(c, p)
  /\ last[c][p] = "GAME_MESSAGE" =>
       /\ \A i \in 1..Len(toClient[c]) : Tells(c, i, p) => toClient[c][i].op # "CLIENT_DISCONNECTED"
       /\ NoneWaits(c, p) => view[c][p] # NoPos
  /\ last[c][p] = "CLIENT_DISCONNECTED" =>
       /\ \A i \in 1..Len(toClient[c]) :
            Tells(c, i, p) /\ (\A j \in (i + 1)..Len(toClient[c]) : ~Tells(c, j, p))
              => toClient[c][i].op = "CLIENT_DISCONNECTED"
       /\ NoneWaits(c, p) => view[c][p] = NoPos

Deliveries == \A c \in Conn, p \in PlayerUID : Alive(c) /\ p # PuidOf[c] => Delivery(c, p)

(* A message at the end of those that wait, or one handled at their front. *)
LEMMA Queued ==
  ASSUME OwnInv, NEW c \in Conn, NEW p \in PlayerUID, NEW msg \in ToClientMsg,
         toClient'[c] = Append(toClient[c], msg)
  PROVE  /\ Len(toClient[c]) \in Nat /\ Len(toClient'[c]) = Len(toClient[c]) + 1
         /\ \A i \in 1..Len(toClient[c]) : toClient'[c][i] = toClient[c][i] /\ (Tells(c, i, p)' <=> Tells(c, i, p))
         /\ toClient'[c][Len(toClient[c]) + 1] = msg
         /\ \A i \in 1..Len(toClient'[c]) :
              i \in 1..Len(toClient[c]) \/ (i = Len(toClient[c]) + 1 /\ (Tells(c, i, p)' <=> Concerns(msg, p)))
         /\ NoneWaits(c, p)' <=> NoneWaits(c, p) /\ ~Concerns(msg, p)
<1> DEFINE t == toClient[c]
<1>0. t \in Seq(ToClientMsg)
  BY DEF OwnInv, GameTypeOK
<1>1. /\ Len(t) \in Nat /\ Len(toClient'[c]) = Len(t) + 1
      /\ \A i \in 1..Len(t) : i \in 1..Len(toClient'[c]) /\ toClient'[c][i] = t[i]
      /\ toClient'[c][Len(t) + 1] = msg
      /\ \A i \in 1..Len(toClient'[c]) : i \in 1..Len(t) \/ i = Len(t) + 1
  BY <1>0, AppendFacts
<1>2. \A i \in 1..Len(t) : Tells(c, i, p)' <=> Tells(c, i, p)
  BY <1>1 DEF Tells, Concerns
<1>3. ASSUME NEW n, n = Len(t) + 1
      PROVE  Tells(c, n, p)' <=> Concerns(msg, p)
  BY <1>1, <1>3 DEF Tells, Concerns
<1>4. Len(t) + 1 \in 1..Len(toClient'[c])
  BY <1>1
<1> HIDE DEF t
<1>5. NoneWaits(c, p)' <=> NoneWaits(c, p) /\ ~Concerns(msg, p)
  BY <1>1, <1>2, <1>3, <1>4 DEF NoneWaits, t
<1> QED
  BY <1>1, <1>2, <1>3, <1>5 DEF t

(* What waits for a client when its first message was handled.             *)
LEMMA Dequeued ==
  ASSUME OwnInv, NEW c \in Conn, NEW p \in PlayerUID, toClient[c] # <<>>, toClient'[c] = Tail(toClient[c])
  PROVE  /\ Len(toClient[c]) \in Nat /\ Len(toClient'[c]) = Len(toClient[c]) - 1
         /\ Head(toClient[c]) = toClient[c][1] /\ 1 \in 1..Len(toClient[c])
         /\ Tells(c, 1, p) <=> Concerns(Head(toClient[c]), p)
         /\ \A i \in 1..Len(toClient'[c]) :
              i + 1 \in 1..Len(toClient[c]) /\ toClient'[c][i] = toClient[c][i + 1]
              /\ (Tells(c, i, p)' <=> Tells(c, i + 1, p))
         /\ \A i \in 1..Len(toClient[c]) : i = 1 \/ i - 1 \in 1..Len(toClient'[c])
         /\ NoneWaits(c, p) <=> NoneWaits(c, p)' /\ ~Concerns(Head(toClient[c]), p)
<1> DEFINE t == toClient[c]
<1>0. t \in Seq(ToClientMsg)
  BY DEF OwnInv, GameTypeOK
<1>1. /\ Len(t) \in Nat /\ Len(toClient'[c]) = Len(t) - 1 /\ Head(t) = t[1] /\ 1 \in 1..Len(t)
      /\ \A i \in 1..Len(toClient'[c]) : i + 1 \in 1..Len(t) /\ toClient'[c][i] = t[i + 1]
      /\ \A i \in 1..Len(t) : i = 1 \/ (i - 1 \in 1..Len(toClient'[c]) /\ toClient'[c][i - 1] = t[i])
  BY <1>0, TailFacts
<1>2. Tells(c, 1, p) <=> Concerns(Head(t), p)
  BY <1>1 DEF Tells, Concerns
<1>3. \A i \in 1..Len(toClient'[c]) : Tells(c, i, p)' <=> Tells(c, i + 1, p)
  BY <1>1 DEF Tells, Concerns
<1> HIDE DEF t
<1>4. ASSUME NoneWaits(c, p)
      PROVE  NoneWaits(c, p)' /\ ~Concerns(Head(t), p)
  BY <1>1, <1>2, <1>3, <1>4 DEF NoneWaits, t
<1>5. ASSUME NoneWaits(c, p)', ~Concerns(Head(t), p), NEW i \in 1..Len(t)
      PROVE  ~Tells(c, i, p)
  <2>1. CASE i = 1
    BY <1>2, <1>5, <2>1
  <2>2. CASE i # 1
    <3>1. i - 1 \in 1..Len(toClient'[c]) /\ (i - 1) + 1 = i
      BY <1>1, <2>2
    <3>2. ~Tells(c, i - 1, p)'
      BY <1>5, <3>1 DEF NoneWaits
    <3> QED
      BY <1>3, <3>1, <3>2
  <2> QED
    BY <2>1, <2>2
<1> QED
  BY <1>1, <1>2, <1>3, <1>4, <1>5 DEF NoneWaits, t

(* Each message moves what the client was told, what waits for it and what *)
(* it has of the player in step.                                           *)
LEMMA DeliveryStep ==
  ASSUME UniquePuids, SessionInv, SessionInv', UnregisteredIsUnspoken, Deliveries, [GameNext]_allVars
  PROVE  Deliveries'
<1> SUFFICES ASSUME NEW c \in Conn, NEW p \in PlayerUID, Alive(c)', p # PuidOf[c]
             PROVE  Delivery(c, p)'
  BY DEF Deliveries
<1> DEFINE t == toClient[c]
<1>0. /\ EngineInv /\ OwnInv /\ EngineInv'
      /\ last \in [Conn -> [PlayerUID -> MsgKind]] /\ last' \in [Conn -> [PlayerUID -> MsgKind]]
  BY DEF SessionInv, EngineInv, TypeOK
<1>a. Alive(c) => Delivery(c, p)
  BY DEF Deliveries
<1>1. CASE Alive(c) /\ UNCHANGED <<toClient[c], view[c][p], last[c][p]>>
  BY <1>a, <1>1 DEF Delivery, NoneWaits, Tells, Concerns
<1>2. CASE toClient'[c] = <<>> /\ view'[c][p] = NoPos /\ last'[c][p] = "none"
  BY <1>2 DEF Delivery, NoneWaits
<1>3. CASE /\ Alive(c) /\ UNCHANGED <<toClient[c], view[c][p]>> /\ last'[c][p] = "CLIENT_CONNECTED"
           /\ \E b \in Conn : RegisterPending(b) /\ p = PuidOf[b]
  <2>1. last[c][p] = "none"
    BY <1>3 DEF UnregisteredIsUnspoken
  <2> QED
    BY <1>a, <1>3, <2>1 DEF Delivery, NoneWaits, Tells, Concerns
<1>4. ASSUME Alive(c), UNCHANGED view[c][p], NEW msg \in ToClientMsg, toClient'[c] = Append(t, msg),
             \/ ~Concerns(msg, p) /\ UNCHANGED last[c][p]
             \/ /\ Concerns(msg, p) /\ msg.op = "CLIENT_DISCONNECTED" /\ last'[c][p] = "CLIENT_DISCONNECTED"
             \/ /\ Concerns(msg, p) /\ msg.op # "CLIENT_DISCONNECTED" /\ last'[c][p] = "GAME_MESSAGE"
                /\ last[c][p] # "CLIENT_DISCONNECTED"
      PROVE  Delivery(c, p)'
  <2>1. /\ Len(t) \in Nat /\ Len(toClient'[c]) = Len(t) + 1
        /\ \A i \in 1..Len(t) : toClient'[c][i] = t[i] /\ (Tells(c, i, p)' <=> Tells(c, i, p))
        /\ toClient'[c][Len(t) + 1] = msg
        /\ \A i \in 1..Len(toClient'[c]) :
              i \in 1..Len(t) \/ (i = Len(t) + 1 /\ (Tells(c, i, p)' <=> Concerns(msg, p)))
        /\ NoneWaits(c, p)' <=> NoneWaits(c, p) /\ ~Concerns(msg, p)
    BY <1>0, <1>4, Queued
  <2>2. Delivery(c, p)
    BY <1>a, <1>4
  <2>3. last'[c][p] \in {"none", "CLIENT_CONNECTED"} => view'[c][p] = NoPos /\ NoneWaits(c, p)'
    BY <1>4, <2>1, <2>2 DEF Delivery
  <2>4. ASSUME last'[c][p] = "GAME_MESSAGE"
        PROVE  /\ \A i \in 1..Len(toClient'[c]) : Tells(c, i, p)' => toClient'[c][i].op # "CLIENT_DISCONNECTED"
               /\ NoneWaits(c, p)' => view'[c][p] # NoPos
    <3>1. last[c][p] \in {"none", "CLIENT_CONNECTED", "GAME_MESSAGE"}
      BY <1>0, <1>4, <2>4 DEF MsgKind
    <3>2. \A i \in 1..Len(t) : Tells(c, i, p) => t[i].op # "CLIENT_DISCONNECTED"
      BY <2>2, <3>1 DEF Delivery, NoneWaits
    <3>3. Concerns(msg, p) => msg.op # "CLIENT_DISCONNECTED"
      BY <1>4, <2>4
    <3>4. NoneWaits(c, p)' => view'[c][p] # NoPos
      BY <1>4, <2>1, <2>2, <2>4 DEF Delivery
    <3> HIDE DEF t
    <3> QED
      BY <2>1, <3>2, <3>3, <3>4
  <2>5. ASSUME last'[c][p] = "CLIENT_DISCONNECTED"
        PROVE  /\ \A i \in 1..Len(toClient'[c]) :
                    Tells(c, i, p)' /\ (\A j \in (i + 1)..Len(toClient'[c]) : ~Tells(c, j, p)')
                      => toClient'[c][i].op = "CLIENT_DISCONNECTED"
               /\ NoneWaits(c, p)' => view'[c][p] = NoPos
    <3>1. NoneWaits(c, p)' => view'[c][p] = NoPos
      BY <1>4, <2>1, <2>2, <2>5 DEF Delivery
    <3> SUFFICES ASSUME NEW i \in 1..Len(toClient'[c]), Tells(c, i, p)',
                        \A j \in (i + 1)..Len(toClient'[c]) : ~Tells(c, j, p)'
                 PROVE  toClient'[c][i].op = "CLIENT_DISCONNECTED"
      BY <3>1
    <3>2. CASE i = Len(t) + 1
      BY <1>4, <2>1, <2>5, <3>2
    <3>3. CASE i \in 1..Len(t)
      <4>1. Len(t) + 1 \in (i + 1)..Len(toClient'[c])
        BY <2>1, <3>3
      <4>2. ~Concerns(msg, p)
        BY <2>1, <4>1
      <4>3. \A j \in (i + 1)..Len(t) : ~Tells(c, j, p)
        BY <2>1, <3>3
      <4> QED
        BY <1>4, <2>1, <2>2, <2>5, <3>3, <4>2, <4>3 DEF Delivery
    <3> QED
      BY <2>1, <3>2, <3>3
  <2> QED
    BY <2>3, <2>4, <2>5 DEF Delivery
<1>5. CASE Alive(c) /\ HandlesMessage(c) /\ UNCHANGED last[c][p]
  <2> DEFINE m == Head(t)
  <2>0. /\ t # <<>> /\ m \in ToClientMsg /\ toClient'[c] = Tail(t)
        /\ ~Concerns(m, p) => view'[c][p] = view[c][p]
        /\ Concerns(m, p) => view'[c][p] = Seen(m, view[c][p])
    BY <1>0, <1>5, Heard DEF OwnInv, GameTypeOK
  <2>1. /\ Len(t) \in Nat /\ Len(toClient'[c]) = Len(t) - 1 /\ m = t[1] /\ 1 \in 1..Len(t)
        /\ Tells(c, 1, p) <=> Concerns(m, p)
        /\ \A i \in 1..Len(toClient'[c]) : i + 1 \in 1..Len(t) /\ toClient'[c][i] = t[i + 1]
                                           /\ (Tells(c, i, p)' <=> Tells(c, i + 1, p))
        /\ \A i \in 1..Len(t) : i = 1 \/ i - 1 \in 1..Len(toClient'[c])
        /\ NoneWaits(c, p) <=> NoneWaits(c, p)' /\ ~Concerns(m, p)
    BY <1>0, <2>0, Dequeued
  <2>2. Delivery(c, p)
    BY <1>a, <1>5
  <2>3. Concerns(m, p) /\ m.op # "CLIENT_DISCONNECTED" => view'[c][p] # NoPos
    BY <2>0, PosAssumption DEF Seen, Concerns, ToClientMsg, Accept
  <2> HIDE DEF m
  <2>4. last'[c][p] \in {"none", "CLIENT_CONNECTED"} => view'[c][p] = NoPos /\ NoneWaits(c, p)'
    BY <1>5, <2>0, <2>1, <2>2 DEF Delivery
  <2>5. ASSUME last'[c][p] = "GAME_MESSAGE"
        PROVE  /\ \A i \in 1..Len(toClient'[c]) : Tells(c, i, p)' => toClient'[c][i].op # "CLIENT_DISCONNECTED"
               /\ NoneWaits(c, p)' => view'[c][p] # NoPos
    BY <1>5, <2>0, <2>1, <2>2, <2>3, <2>5 DEF Delivery
  <2>6. ASSUME last'[c][p] = "CLIENT_DISCONNECTED"
        PROVE  /\ \A i \in 1..Len(toClient'[c]) :
                    Tells(c, i, p)' /\ (\A j \in (i + 1)..Len(toClient'[c]) : ~Tells(c, j, p)')
                      => toClient'[c][i].op = "CLIENT_DISCONNECTED"
               /\ NoneWaits(c, p)' => view'[c][p] = NoPos
    <3>1. ASSUME NEW i \in 1..Len(toClient'[c]), Tells(c, i, p)',
                 \A j \in (i + 1)..Len(toClient'[c]) : ~Tells(c, j, p)'
          PROVE  toClient'[c][i].op = "CLIENT_DISCONNECTED"
      <4>1. ASSUME NEW j \in ((i + 1) + 1)..Len(t)
            PROVE  ~Tells(c, j, p)
        <5>1. j - 1 \in (i + 1)..Len(toClient'[c]) /\ (j - 1) + 1 = j /\ j - 1 \in 1..Len(toClient'[c])
          BY <2>1, <4>1
        <5> QED
          BY <2>1, <3>1, <5>1
      <4> QED
        BY <1>5, <2>1, <2>2, <2>6, <3>1, <4>1 DEF Delivery
    <3>2. ASSUME NoneWaits(c, p)'
          PROVE  view'[c][p] = NoPos
      <4>1. CASE ~Concerns(m, p)
        BY <1>5, <2>0, <2>1, <2>2, <2>6, <3>2, <4>1 DEF Delivery
      <4>2. CASE Concerns(m, p)
        <5>1. \A j \in (1 + 1)..Len(t) : ~Tells(c, j, p)
          <6> SUFFICES ASSUME NEW j \in (1 + 1)..Len(t)
                       PROVE  ~Tells(c, j, p)
            OBVIOUS
          <6>1. j - 1 \in 1..Len(toClient'[c]) /\ (j - 1) + 1 = j
            BY <2>1
          <6>2. ~Tells(c, j - 1, p)'
            BY <3>2, <6>1 DEF NoneWaits
          <6> QED
            BY <2>1, <6>1, <6>2
        <5>2. m.op = "CLIENT_DISCONNECTED"
          BY <1>5, <2>1, <2>2, <2>6, <4>2, <5>1 DEF Delivery
        <5> QED
          BY <2>0, <4>2, <5>2 DEF Seen
      <4> QED
        BY <4>1, <4>2
    <3> QED
      BY <3>1, <3>2
  <2> QED
    BY <2>4, <2>5, <2>6 DEF Delivery
<1>6. CASE /\ Alive(c) /\ UNCHANGED <<view[c][p], last[c][p]>>
           /\ \E msg \in ToClientMsg : ~Concerns(msg, p) /\ toClient'[c] = Append(toClient[c], msg)
  BY <1>4, <1>6
<1>7. CASE /\ Alive(c) /\ UNCHANGED view[c][p]
           /\ toClient'[c] = Append(toClient[c], Disconnected(p)) /\ last'[c][p] = "CLIENT_DISCONNECTED"
  <2>1. Disconnected(p) \in ToClientMsg /\ Concerns(Disconnected(p), p)
        /\ Disconnected(p).op = "CLIENT_DISCONNECTED"
    BY DEF Disconnected, ToClientMsg, Concerns
  <2> QED
    BY <1>4, <1>7, <2>1
<1>8. ASSUME Alive(c), UNCHANGED view[c][p], NEW body, body.op \in {"REGISTER_PLAYER", "UPDATE_PLAYER"},
             body.pos \in Int \X Int,
             toClient'[c] = Append(toClient[c], About(p, body)), last'[c][p] = "GAME_MESSAGE"
      PROVE  Delivery(c, p)'
  <2>1. /\ About(p, body) \in ToClientMsg /\ Concerns(About(p, body), p)
        /\ About(p, body).op # "CLIENT_DISCONNECTED"
    BY <1>8 DEF About, ToClientMsg, Concerns
  <2>2. last[c][p] # "CLIENT_DISCONNECTED"
    BY <1>0, <1>8, EngineStep
  <2> QED
    BY <1>4, <1>8, <2>1, <2>2
<1>9. CASE /\ Alive(c) /\ UNCHANGED view[c][p] /\ p \in replies /\ last'[c][p] = "GAME_MESSAGE"
           /\ toClient'[c] = Append(toClient[c], About(p, RegisterPlayer(infos[p])))
  <2>1. infos[p] \in Int \X Int
    BY <1>0, <1>9 DEF OwnInv, GameTypeOK, RepliesNews
  <2> QED
    BY <1>8, <1>9, <2>1 DEF RegisterPlayer
<1>10. CASE /\ Alive(c) /\ UNCHANGED view[c][p] /\ pc = "handler" /\ last'[c][p] = "GAME_MESSAGE"
            /\ toClient'[c] = Append(toClient[c], About(p, handling))
  <2>1. handling \in GameBody
    BY <1>0, <1>10 DEF OwnInv, GameTypeOK
  <2> QED
    BY <1>8, <1>10, <2>1, BodyFacts
<1> QED
  BY <1>1, <1>2, <1>3, <1>5, <1>6, <1>7, <1>9, <1>10, Hears

ToldInv ==
  /\ SessionInv
  /\ RegisterSent /\ ReadIsRegistered
  /\ SpokenOfIsPlaced /\ UnregisteredIsUnspoken /\ MutuallyTold
  /\ Deliveries

(* Nobody was told anything at the start.                                  *)
LEMMA ToldInit == GameInit => ToldInv
<1> SUFFICES ASSUME GameInit
             PROVE  ToldInv
  OBVIOUS
<1>1. SessionInv
  BY SessionInit
<1>2. /\ client = [c \in Conn |-> "off"] /\ regRead = [c \in Conn |-> FALSE]
      /\ places = [p \in PlayerUID |-> NoPos]
      /\ last = [c \in Conn |-> [p \in PlayerUID |-> "none"]]
      /\ \A c \in Conn : PuidOf[c] \in PlayerUID
  BY PuidAssumption DEF GameInit, Init, Nobody
<1> QED
  BY <1>1, <1>2 DEF ToldInv, RegisterSent, ReadIsRegistered, Spent, SpokenOfIsPlaced, UnregisteredIsUnspoken,
                    MutuallyTold, Placed, Deliveries, Alive

(* The invariant of who was told what is inductive.                        *)
LEMMA ToldStep ==
  ASSUME UniquePuids, ToldInv, [GameNext]_allVars
  PROVE  ToldInv'
<1>1. SessionInv /\ SessionInv' /\ EngineInv /\ OwnInv
  BY SessionStep DEF ToldInv, SessionInv
<1> QED
  BY <1>1, RegisterSentStep, SpentStep, SpokenStep, UnspokenStep, MutualStep, DeliveryStep DEF ToldInv

(* When all is quiet a client has exactly the players it was told of last, *)
(* and not of their leaving.                                               *)
LEMMA QuietRoster ==
  ASSUME UniquePuids, ToldInv, Quiet, NEW c \in Conn, InGame(c), NEW p \in PlayerUID, p # PuidOf[c]
  PROVE  /\ view[c][p] # NoPos <=> last[c][p] = "GAME_MESSAGE"
         /\ places[p] # NoPos <=> last[c][p] = "GAME_MESSAGE"
<1>0. /\ EngineInv /\ OwnInv /\ PlayerInv /\ InfoHasEntity /\ last[c][p] \in MsgKind
  BY DEF ToldInv, SessionInv, PlayerInv, EngineInv, TypeOK
<1>1. Alive(c) /\ IsConnected(c) /\ toClient[c] = <<>> /\ pc = "frame"
  BY DEF InGame, Quiet, Alive, IsConnected
<1>2. NoneWaits(c, p) /\ Delivery(c, p)
  BY <1>1 DEF NoneWaits, ToldInv, Deliveries
<1>3. view[c][p] # NoPos <=> last[c][p] = "GAME_MESSAGE"
  BY <1>0, <1>2 DEF Delivery, MsgKind
<1>4. last[c][p] = "GAME_MESSAGE" => places[p] # NoPos
  BY <1>1 DEF ToldInv, SpokenOfIsPlaced
<1>5. ASSUME places[p] # NoPos
      PROVE  last[c][p] = "GAME_MESSAGE"
  <2>1. PICK b \in Conn : player_uids[b] = p
    BY <1>0, <1>5 DEF InfoHasEntity, EngineInv, KnownRegistered
  <2>2. PuidOf[b] = p /\ b # c
    BY <1>0, <2>1, PuidAssumption DEF EngineInv, TableInv, OwnUids
  <2>3. Placed(b) /\ Placed(c)
    BY <1>0, <1>5, <2>2, QuietPlaced DEF Placed, ToldInv
  <2> QED
    BY <1>1, <2>2, <2>3 DEF ToldInv, MutuallyTold
<1> QED
  BY <1>3, <1>4, <1>5

(* When everything sent was handled, every client in the game has exactly  *)
(* the players the server has: an arrival, a departure and the broadcasts  *)
(* of both may overlap in any order, and no client is left with a player   *)
(* who is gone, or without one who is there.                               *)
THEOREM RostersAgree == ASSUME UniquePuids PROVE GameSpec => []RostersConverge
<1>1. GameInit => ToldInv
  BY ToldInit
<1>2. ToldInv /\ [GameNext]_allVars => ToldInv'
  BY ToldStep
<1>3. ToldInv => RostersConverge
  <2> SUFFICES ASSUME ToldInv, Quiet, NEW c \in Conn, NEW p \in PlayerUID, InGame(c)
               PROVE  view[c][p] # NoPos <=> places[p] # NoPos
    BY DEF RostersConverge
  <2>1. EngineInv /\ OwnInv /\ PlayerInv /\ RegisterSent /\ ReadIsRegistered
    BY DEF ToldInv, SessionInv
  <2>2. CASE p = PuidOf[c]
    <3>1. places[p] # NoPos
      BY <2>1, <2>2, QuietPlaced
    <3>2. view[c][p] # NoPos
      BY <2>1, <2>2, NearFacts, MoveAssumption DEF OwnInv, OwnNear, GameTypeOK, InGame, Alive
    <3> QED
      BY <3>1, <3>2
  <2>3. CASE p # PuidOf[c]
    BY <2>3, QuietRoster
  <2> QED
    BY <2>2, <2>3
<1> QED
  BY <1>1, <1>2, <1>3, PTL DEF GameSpec

-----------------------------------------------------------------------------
(* Where they are.                                                         *)

(* The life of a client.                                                   *)
LEMMA ClientChange ==
  ASSUME OwnInv, [GameNext]_allVars, NEW c \in Conn
  PROVE  \/ UNCHANGED client[c]
         \/ Launch(c) /\ client[c] = "off" /\ client'[c] = "connecting"
         \/ Answer(c) /\ client[c] = "connecting" /\ client'[c] = "answered"
         \/ OnAccept(c) /\ client[c] \in {"answered", "joined"} /\ client'[c] = "joined"
         \/ client'[c] \in {"stopped", "crashed"}
<1>0. client \in [Conn -> ClientState]
  BY DEF OwnInv, GameTypeOK
<1>1. CASE ServerThread \/ UNCHANGED allVars
  BY <1>1, MainThreadOnly DEF allVars, clientVars
<1>2. ASSUME NEW d \in Conn, Serve(d) \/ Close(d) \/ OnClientDisconnected(d) \/ OnServerRegister(d)
                             \/ OnServerUpdate(d) \/ \E dir \in Dirs : Move(d, dir)
      PROVE  UNCHANGED client
  BY <1>2 DEF Serve, Validate, Reject, Close, Read, OnClientDisconnected, OnServerRegister, OnServerUpdate, Move
<1>3. ASSUME NEW d \in Conn, OnUnknownUpdate(d) \/ Stop(d)
      PROVE  UNCHANGED client[c] \/ client'[c] \in {"stopped", "crashed"}
  BY <1>0, <1>3 DEF OnUnknownUpdate, Stop
<1>4. ASSUME NEW d \in Conn, Launch(d) \/ Answer(d) \/ OnAccept(d)
      PROVE  \/ UNCHANGED client[c]
             \/ Launch(c) /\ client[c] = "off" /\ client'[c] = "connecting"
             \/ Answer(c) /\ client[c] = "connecting" /\ client'[c] = "answered"
             \/ OnAccept(c) /\ client[c] \in {"answered", "joined"} /\ client'[c] = "joined"
  BY <1>0, <1>4 DEF Launch, Answer, OnAccept, Received
<1> QED
  BY <1>1, <1>2, <1>3, <1>4 DEF GameNext, ClientHandles

(* A client's own player is moved by its keys alone.                       *)
LEMMA OwnView ==
  ASSUME OwnInv, [GameNext]_allVars, NEW c \in Conn, Alive(c)'
  PROVE  \/ Alive(c) /\ UNCHANGED <<view[c][PuidOf[c]], synced[c]>>
         \/ Launch(c) /\ view'[c][PuidOf[c]] = SPAWN_POS /\ UNCHANGED synced[c]
         \/ /\ Alive(c) /\ \E dir \in Dirs : Move(c, dir)
            /\ synced'[c] = (client[c] = "joined") /\ UNCHANGED <<client, vars, gameVars>>
            /\ toServer' = Sent(c, <<UpdatePlayer(view'[c][PuidOf[c]])>>)
<1> DEFINE p == PuidOf[c]
<1>0. /\ client \in [Conn -> ClientState] /\ view \in [Conn -> [PlayerUID -> (Int \X Int) \union {NoPos}]]
      /\ synced \in [Conn -> BOOLEAN] /\ p \in PlayerUID /\ \A d \in Conn : PuidOf[d] \in PlayerUID
  BY PuidAssumption DEF OwnInv, GameTypeOK
<1>1. CASE ServerThread \/ UNCHANGED allVars
  BY <1>1, MainThreadOnly DEF allVars, clientVars, Alive
<1>2. ASSUME NEW d \in Conn, Serve(d) \/ Close(d) \/ Answer(d)
      PROVE  Alive(c) /\ UNCHANGED <<view[c][p], synced[c]>>
  <2>1. UNCHANGED <<view, synced>>
    BY <1>2 DEF Serve, Validate, Reject, Close, Read, Answer
  <2>2. Alive(c)
    BY <1>0, <1>2 DEF Serve, Validate, Reject, Close, Read, Answer, Alive
  <2> QED
    BY <2>1, <2>2
<1>3. ASSUME NEW d \in Conn, HandlesMessage(d)
      PROVE  Alive(c) /\ UNCHANGED <<view[c][p], synced[c]>>
  <2>1. UNCHANGED synced /\ (d # c => UNCHANGED client[c])
    BY <1>0, <1>3 DEF HandlesMessage, OnAccept, OnClientDisconnected, OnServerRegister, OnServerUpdate
  <2>2. CASE d # c
    BY <1>0, <1>3, <2>1, <2>2, Heard DEF Alive
  <2>3. CASE d = c
    <3>1. /\ Alive(c) /\ toClient[c] # <<>> /\ toClient[c] \in Seq(ToClientMsg)
          /\ ~Concerns(Head(toClient[c]), p) => view'[c][p] = view[c][p]
      BY <1>0, <1>3, <2>3, Heard DEF OwnInv, GameTypeOK
    <3>2. ~Tells(c, 1, p)
      BY <3>1, TailFacts DEF OwnInv, NotToldOfSelf
    <3> QED
      BY <2>1, <3>1, <3>2, TailFacts DEF Tells
  <2> QED
    BY <2>2, <2>3
<1>4. ASSUME NEW d \in Conn, OnUnknownUpdate(d) \/ Stop(d)
      PROVE  Alive(c) /\ UNCHANGED <<view[c][p], synced[c]>>
  <2>1. d # c
    BY <1>0, <1>4 DEF OnUnknownUpdate, Stop, Alive
  <2> QED
    BY <1>0, <1>4, <2>1 DEF OnUnknownUpdate, Stop, Alive
<1>5. ASSUME NEW d \in Conn, Launch(d)
      PROVE  \/ Alive(c) /\ UNCHANGED <<view[c][p], synced[c]>>
             \/ Launch(c) /\ view'[c][p] = SPAWN_POS /\ UNCHANGED synced[c]
  <2>1. /\ view' = [view EXCEPT ![d] = With(@, PuidOf[d], SPAWN_POS)] /\ UNCHANGED synced
        /\ client[d] = "off" /\ client' = [client EXCEPT ![d] = "connecting"]
    BY <1>5 DEF Launch
  <2>2. CASE d # c
    BY <1>0, <2>1, <2>2 DEF Alive
  <2>3. CASE d = c
    <3>1. view[c] = Nobody
      BY <2>1, <2>3 DEF OwnInv, DeadHoldsNothing, Alive
    <3>2. view'[c] = [Nobody EXCEPT ![p] = SPAWN_POS]
      BY <1>0, <2>1, <2>3, <3>1 DEF With, Nobody
    <3> QED
      BY <1>0, <1>5, <2>1, <2>3, <3>2 DEF Nobody
  <2> QED
    BY <2>2, <2>3
<1>6. ASSUME NEW d \in Conn, NEW dir \in Dirs, Move(d, dir)
      PROVE  \/ Alive(c) /\ UNCHANGED <<view[c][p], synced[c]>>
             \/ /\ Alive(c) /\ Move(c, dir)
                /\ synced'[c] = (client[c] = "joined") /\ UNCHANGED <<client, vars, gameVars>>
                /\ toServer' = Sent(c, <<UpdatePlayer(view'[c][p])>>)
  <2> DEFINE pos == <<view[d][PuidOf[d]][1] + dir[1], view[d][PuidOf[d]][2] + dir[2]>>
  <2>1. /\ view' = [view EXCEPT ![d][PuidOf[d]] = pos] /\ synced' = [synced EXCEPT ![d] = (client[d] = "joined")]
        /\ UNCHANGED <<client, vars, gameVars>> /\ toServer' = Sent(d, <<UpdatePlayer(pos)>>)
    BY <1>6 DEF Move
  <2>2. Alive(c)
    BY <2>1 DEF Alive
  <2> HIDE DEF pos
  <2>3. CASE d # c
    BY <1>0, <2>1, <2>2, <2>3
  <2>4. CASE d = c
    <3>1. view'[c][p] = pos /\ synced'[c] = (client[c] = "joined")
      BY <1>0, <2>1, <2>4
    <3> QED
      BY <1>6, <2>1, <2>2, <2>4, <3>1
  <2> QED
    BY <2>3, <2>4
<1> QED
  BY <1>1, <1>2, <1>3, <1>4, <1>5, <1>6 DEF GameNext, ClientHandles, HandlesMessage

(* A client that has still to join stands where it spawned, if it has not  *)
(* moved.                                                                  *)
SyncedAtSpawn ==
  \A c \in Conn : client[c] \in {"connecting", "answered"} /\ synced[c] => view[c][PuidOf[c]] = SPAWN_POS

(* A client spawns with its connection, and a step before it joined is     *)
(* remembered.                                                             *)
LEMMA SpawnStep ==
  ASSUME OwnInv, SyncedAtSpawn, [GameNext]_allVars
  PROVE  SyncedAtSpawn'
<1> SUFFICES ASSUME NEW c \in Conn, client'[c] \in {"connecting", "answered"}, synced'[c]
             PROVE  view'[c][PuidOf[c]] = SPAWN_POS
  BY DEF SyncedAtSpawn
<1>1. Alive(c)'
  BY DEF Alive
<1>2. CASE Alive(c) /\ UNCHANGED <<view[c][PuidOf[c]], synced[c]>>
  <2>1. client[c] \in {"connecting", "answered"}
    BY <1>2, ClientChange DEF Alive
  <2> QED
    BY <1>2, <2>1 DEF SyncedAtSpawn
<1>3. CASE synced'[c] = (client[c] = "joined") /\ UNCHANGED client
  BY <1>3
<1> QED
  BY <1>1, <1>2, <1>3, OwnView

(* A client is accepted once, after its handshake.                         *)
Accepts(c, i) == toClient[c][i].op = "ACCEPT_CONNECTION"

AcceptedOnce ==
  \A c \in Conn :
    /\ client[c] = "joined" => sock[c] \notin {"none", "handshake"}
    /\ \A i \in 1..Len(toClient[c]) : Accepts(c, i) =>
         /\ client[c] # "joined" /\ sock[c] \notin {"none", "handshake"}
         /\ \A j \in 1..Len(toClient[c]) : Accepts(c, j) => i = j

(* The server posts ACCEPT_CONNECTION when the handshake ends, and the     *)
(* client joins when it handles it.                                        *)
LEMMA AcceptedStep ==
  ASSUME UniquePuids, EngineInv, OwnInv, AcceptedOnce, [GameNext]_allVars
  PROVE  AcceptedOnce'
<1> SUFFICES ASSUME NEW c \in Conn
             PROVE  /\ client'[c] = "joined" => sock'[c] \notin {"none", "handshake"}
                    /\ \A i \in 1..Len(toClient'[c]) : Accepts(c, i)' =>
                         /\ client'[c] # "joined" /\ sock'[c] \notin {"none", "handshake"}
                         /\ \A j \in 1..Len(toClient'[c]) : Accepts(c, j)' => i = j
  BY DEF AcceptedOnce
<1> DEFINE t == toClient[c]
<1>0. /\ t \in Seq(ToClientMsg) /\ toClient' \in [Conn -> Seq(ToClientMsg)]
      /\ client[c] = "joined" => sock[c] \notin {"none", "handshake"}
      /\ \A i \in 1..Len(t) : Accepts(c, i) =>
           /\ client[c] # "joined" /\ sock[c] \notin {"none", "handshake"}
           /\ \A j \in 1..Len(t) : Accepts(c, j) => i = j
  BY InboxTyped DEF AcceptedOnce, OwnInv, GameTypeOK
<1>1. sock[c] \notin {"none", "handshake"} => sock'[c] \notin {"none", "handshake"}
  BY Outbox
<1>2. CASE OnAccept(c)
  <2>1. /\ t # <<>> /\ Head(t).op = "ACCEPT_CONNECTION" /\ toClient'[c] = Tail(t)
    BY <1>2 DEF OnAccept, Received, Handle, OwnInv, GameTypeOK
  <2>2. Head(t) = t[1] /\ 1 \in 1..Len(t)
        /\ \A i \in 1..Len(Tail(t)) : i + 1 \in 1..Len(t) /\ Tail(t)[i] = t[i + 1] /\ i + 1 # 1
    BY <1>0, <2>1, TailFacts
  <2>3. Accepts(c, 1)
    BY <2>1, <2>2 DEF Accepts
  <2>4. \A i \in 1..Len(Tail(t)) : ~Accepts(c, i)'
    BY <1>0, <2>1, <2>2, <2>3 DEF Accepts
  <2> HIDE DEF t
  <2> QED
    BY <1>0, <1>1, <2>1, <2>2, <2>3, <2>4
<1>3. CASE ~OnAccept(c)
  <2>1. client'[c] = "joined" => client[c] = "joined"
    BY <1>3, ClientChange
  <2>2. CASE UNCHANGED t
    BY <1>0, <1>1, <2>1, <2>2 DEF Accepts
  <2>3. CASE toClient'[c] = <<>> /\ ~Alive(c)'
    BY <2>3 DEF Alive
  <2>4. CASE t # <<>> /\ toClient'[c] = Tail(t)
    <3>1. \A i \in 1..Len(Tail(t)) : i + 1 \in 1..Len(t) /\ Tail(t)[i] = t[i + 1]
      BY <1>0, <2>4, TailFacts
    <3>2. \A i \in 1..Len(toClient'[c]) : i \in Nat /\ i + 1 \in 1..Len(t) /\ (Accepts(c, i)' <=> Accepts(c, i + 1))
      BY <2>4, <3>1 DEF Accepts
    <3> HIDE DEF t
    <3> QED
      BY <1>0, <1>1, <2>1, <3>2
  <2>5. CASE Validate(c) /\ toClient'[c] = Append(t, Accept)
    <3>1. sock[c] = "handshake" /\ sock'[c] = "open"
      BY <2>5 DEF Validate, OnClientValidated, EngineInv, TypeOK
    <3>2. client[c] # "joined" /\ \A i \in 1..Len(t) : ~Accepts(c, i)
      BY <1>0, <3>1
    <3>3. \A i \in 1..Len(toClient'[c]) : (i \in 1..Len(t) /\ ~Accepts(c, i)') \/ i = Len(t) + 1
      <4>1. Accept \in ToClientMsg
        BY DEF ToClientMsg
      <4> QED
        BY <1>0, <2>5, <3>2, <4>1, AppendFacts DEF Accepts
    <3> QED
      BY <2>1, <3>1, <3>2, <3>3
  <2>6. ASSUME NEW msg \in ToClientMsg, msg.op # "ACCEPT_CONNECTION", toClient'[c] = Append(t, msg)
        PROVE  /\ client'[c] = "joined" => sock'[c] \notin {"none", "handshake"}
               /\ \A i \in 1..Len(toClient'[c]) : Accepts(c, i)' =>
                    /\ client'[c] # "joined" /\ sock'[c] \notin {"none", "handshake"}
                    /\ \A j \in 1..Len(toClient'[c]) : Accepts(c, j)' => i = j
    <3>1. \A i \in 1..Len(toClient'[c]) : Accepts(c, i)' => i \in 1..Len(t) /\ Accepts(c, i)
      BY <1>0, <2>6, AppendFacts DEF Accepts
    <3> HIDE DEF t
    <3> QED
      BY <1>0, <1>1, <2>1, <3>1
  <2> DEFINE Goal == /\ client'[c] = "joined" => sock'[c] \notin {"none", "handshake"}
                     /\ \A i \in 1..Len(toClient'[c]) : Accepts(c, i)' =>
                          /\ client'[c] # "joined" /\ sock'[c] \notin {"none", "handshake"}
                          /\ \A j \in 1..Len(toClient'[c]) : Accepts(c, j)' => i = j
  <2>7. ASSUME NEW puid \in PlayerUID \union {NoUid}, toClient'[c] = Append(t, Disconnected(puid))
        PROVE  Goal
    <3>1. Disconnected(puid) \in ToClientMsg /\ Disconnected(puid).op # "ACCEPT_CONNECTION"
      BY DEF Disconnected, ToClientMsg
    <3> QED
      BY <2>6, <2>7, <3>1
  <2>8. ASSUME NEW puid \in PlayerUID, NEW body, body.op \in {"REGISTER_PLAYER", "UPDATE_PLAYER"},
               body.pos \in Int \X Int, toClient'[c] = Append(t, About(puid, body))
        PROVE  Goal
    <3>1. About(puid, body) \in ToClientMsg /\ About(puid, body).op # "ACCEPT_CONNECTION"
      BY <2>8 DEF About, ToClientMsg
    <3> QED
      BY <2>6, <2>8, <3>1
  <2> HIDE DEF Goal
  <2>9. ASSUME NEW cid \in Conn \union {NoConn}, CollectPlayer(cid),
               toClient'[c] = Append(t, Disconnected(PuidOfGarbage(cid)))
        PROVE  Goal
    BY <2>7, <2>9, Collected DEF CollectPlayer
  <2>10. ASSUME NEW other \in replies, toClient'[c] = Append(t, About(other, RegisterPlayer(infos[other])))
         PROVE  Goal
    <3>1. other \in PlayerUID /\ infos[other] \in Int \X Int
      BY DEF EngineInv, TypeOK, OwnInv, GameTypeOK, RepliesNews
    <3> QED
      BY <2>8, <2>10, <3>1 DEF RegisterPlayer
  <2>11. CASE pc = "handler" /\ toClient'[c] = Append(t, About(PuidOf[current], handling))
    <3>1. PuidOf[current] \in PlayerUID /\ handling \in GameBody
      BY <2>11, Addressee DEF OwnInv, GameTypeOK
    <3> QED
      BY <2>8, <2>11, <3>1, BodyFacts DEF Goal
  <2> HIDE DEF t
  <2> QED
    BY <1>3, <2>2, <2>3, <2>4, <2>5, <2>9, <2>10, <2>11, Inbox DEF t, Goal
<1> QED
  BY <1>2, <1>3

-----------------------------------------------------------------------------
(* A client announces its player once.                                     *)
NoneSent(c) == \A i \in 1..Len(toServer[c]) : toServer[c][i] # Info
OnceSent(c) ==
  \A i, j \in 1..Len(toServer[c]) : toServer[c][i] = Info /\ toServer[c][j] = Info => i = j
NoneQueued(c) == \A i \in 1..Len(qMessagesIn) : ~Announces(c, i)
OnceQueued(c) == \A i, j \in 1..Len(qMessagesIn) : Announces(c, i) /\ Announces(c, j) => i = j
Early(c) == client[c] \in {"off", "connecting", "answered"}

AnnouncedOnce ==
  \A c \in Conn :
    /\ Early(c) => NoneQueued(c) /\ NoneSent(c) /\ ~Placed(c)
    /\ Placed(c) => NoneQueued(c) /\ NoneSent(c)
    /\ NoneQueued(c) \/ NoneSent(c)
    /\ OnceQueued(c) /\ OnceSent(c)

(* Only joining sends an info.                                             *)
LEMMA SentChange ==
  ASSUME EngineInv, OwnInv, [GameNext]_allVars, NEW c \in Conn
  PROVE  \/ OnAccept(c) /\ toServer'[c] = toServer[c] \o <<Register, Info>>
         \/ /\ NoneSent(c) => NoneSent(c)'
            /\ OnceSent(c) => OnceSent(c)'
<1> DEFINE t == toServer[c]
           Goal == /\ NoneSent(c) => NoneSent(c)'
                   /\ OnceSent(c) => OnceSent(c)'
<1>0. t \in Seq(ToServerMsg)
  BY DEF OwnInv, GameTypeOK
<1>1. CASE toServer'[c] = t
  BY <1>1 DEF NoneSent, OnceSent
<1>2. CASE toServer'[c] = <<>>
  BY <1>2 DEF NoneSent, OnceSent
<1>3. CASE t # <<>> /\ toServer'[c] = Tail(t)
  <2>1. \A i \in 1..Len(toServer'[c]) : i \in Nat /\ i + 1 \in 1..Len(t) /\ toServer'[c][i] = t[i + 1]
    BY <1>0, <1>3, TailFacts
  <2> HIDE DEF t
  <2>2. NoneSent(c) => NoneSent(c)'
    BY <2>1 DEF NoneSent, t
  <2>3. ASSUME OnceSent(c), NEW i \in 1..Len(toServer'[c]), NEW j \in 1..Len(toServer'[c]),
               toServer'[c][i] = Info, toServer'[c][j] = Info
        PROVE  i = j
    <3>1. i + 1 = j + 1
      BY <2>1, <2>3 DEF OnceSent, t
    <3> QED
      BY <3>1
  <2> QED
    BY <2>2, <2>3 DEF OnceSent
<1>4. ASSUME NEW msg \in ToServerMsg, msg # Info, toServer'[c] = t \o <<msg>>
      PROVE  Goal
  <2>1. \A i \in 1..Len(toServer'[c]) :
          toServer'[c][i] = Info => i \in 1..Len(t) /\ t[i] = Info
    BY <1>0, <1>4, ConcatFacts, AppendFacts
  <2> QED
    BY <2>1 DEF NoneSent, OnceSent
<1>5. Handshake \in ToServerMsg /\ Handshake # Info
  BY BodyFacts DEF ToServerMsg
<1>6. \A pos \in Positions : UpdatePlayer(pos) \in ToServerMsg /\ UpdatePlayer(pos) # Info
  BY BodyFacts DEF ToServerMsg
<1>7. CASE toServer'[c] = t \o <<Handshake>>
  BY <1>4, <1>5, <1>7
<1>8. ASSUME NEW pos \in Positions, toServer'[c] = t \o <<UpdatePlayer(pos)>>
      PROVE  Goal
  BY <1>4, <1>6, <1>8
<1> HIDE DEF t, Goal
<1> QED
  BY <1>1, <1>2, <1>3, <1>7, <1>8, Outbox DEF t, Goal

(* Only a read puts an info into the queue.                                *)
LEMMA QueuedChange ==
  ASSUME EngineInv, OwnInv, [GameNext]_allVars, NEW c \in Conn
  PROVE  \/ /\ Read(c) /\ toServer[c] # <<>> /\ Head(toServer[c]) = Info
            /\ toServer'[c] = <<>> \/ toServer'[c] = Tail(toServer[c])
            /\ \E msg \in RegisterMsg \union GameMsg : qMessagesIn' = Append(qMessagesIn, msg)
         \/ /\ NoneQueued(c) => NoneQueued(c)'
            /\ OnceQueued(c) => OnceQueued(c)'
<1> DEFINE q == qMessagesIn
           Goal == /\ NoneQueued(c) => NoneQueued(c)'
                   /\ OnceQueued(c) => OnceQueued(c)'
<1>0. q \in Seq(RegisterMsg \union GameMsg)
  BY DEF EngineInv, TypeOK
<1>1. CASE UNCHANGED q
  BY <1>1 DEF NoneQueued, OnceQueued, Announces, From
<1>2. CASE q # <<>> /\ q' = Tail(q)
  <2>1. \A i \in 1..Len(q') : i \in Nat /\ i + 1 \in 1..Len(q) /\ (Announces(c, i)' <=> Announces(c, i + 1))
    BY <1>0, <1>2, TailFacts DEF Announces, From
  <2> HIDE DEF q
  <2>2. NoneQueued(c) => NoneQueued(c)'
    BY <2>1 DEF NoneQueued, q
  <2>3. ASSUME OnceQueued(c), NEW i \in 1..Len(q'), NEW j \in 1..Len(q'), Announces(c, i)', Announces(c, j)'
        PROVE  i = j
    <3>1. i + 1 = j + 1
      BY <2>1, <2>3 DEF OnceQueued, q
    <3> QED
      BY <3>1
  <2> QED
    BY <2>2, <2>3 DEF OnceQueued, q
<1>3. ASSUME NEW msg \in RegisterMsg \union GameMsg, q' = Append(q, msg),
             ~(msg.conn = c /\ msg.id = "GAME_MESSAGE" /\ msg.body = Info)
      PROVE  Goal
  <2>1. \A i \in 1..Len(q') : Announces(c, i)' => i \in 1..Len(q) /\ Announces(c, i)
    BY <1>0, <1>3, AppendFacts DEF Announces, From
  <2> QED
    BY <2>1 DEF NoneQueued, OnceQueued
<1> HIDE DEF q, Goal
<1> QED
  BY <1>1, <1>2, <1>3, Outbox DEF q, Goal

(* The one info of a client moves from the socket to the queue and from    *)
(* there into the tables.                                                  *)
LEMMA AnnouncedStep ==
  ASSUME UniquePuids, SessionInv, AcceptedOnce, AnnouncedOnce, [GameNext]_allVars
  PROVE  AnnouncedOnce'
<1> SUFFICES ASSUME NEW c \in Conn
             PROVE  /\ Early(c)' => NoneQueued(c)' /\ NoneSent(c)' /\ ~Placed(c)'
                    /\ Placed(c)' => NoneQueued(c)' /\ NoneSent(c)'
                    /\ NoneQueued(c)' \/ NoneSent(c)'
                    /\ OnceQueued(c)' /\ OnceSent(c)'
  BY DEF AnnouncedOnce
<1> DEFINE t == toServer[c]
           q == qMessagesIn
           Goal == /\ Early(c)' => NoneQueued(c)' /\ NoneSent(c)' /\ ~Placed(c)'
                   /\ Placed(c)' => NoneQueued(c)' /\ NoneSent(c)'
                   /\ NoneQueued(c)' \/ NoneSent(c)'
                   /\ OnceQueued(c)' /\ OnceSent(c)'
<1>0. /\ EngineInv /\ OwnInv /\ PlayerInv /\ t \in Seq(ToServerMsg) /\ q \in Seq(RegisterMsg \union GameMsg)
      /\ Early(c) => NoneQueued(c) /\ NoneSent(c) /\ ~Placed(c)
      /\ Placed(c) => NoneQueued(c) /\ NoneSent(c)
      /\ NoneQueued(c) \/ NoneSent(c)
      /\ OnceQueued(c) /\ OnceSent(c)
  BY DEF SessionInv, EngineInv, TypeOK, OwnInv, GameTypeOK, AnnouncedOnce
<1>1. Early(c)' => Early(c) /\ ~OnAccept(c)
  <2>1. OnAccept(c) => client'[c] = "joined"
    BY <1>0 DEF OnAccept, OwnInv, GameTypeOK
  <2> QED
    BY <1>0, <2>1, ClientChange DEF Early
<1>2. Placed(c)' => Placed(c) \/ (OnRegisterPlayer /\ Handled.conn = c)
  BY <1>0, PlacedBy
(* The client sends its info.                                              *)
<1>3. CASE OnAccept(c) /\ toServer'[c] = t \o <<Register, Info>>
  <2>1. client[c] # "joined"
    <3>1. toClient[c] # <<>> /\ toClient[c] \in Seq(ToClientMsg) /\ Head(toClient[c]).op = "ACCEPT_CONNECTION"
      BY <1>0, <1>3 DEF OnAccept, Received, OwnInv, GameTypeOK
    <3>2. 1 \in 1..Len(toClient[c]) /\ Accepts(c, 1)
      BY <3>1, TailFacts DEF Accepts
    <3> QED
      BY <3>2 DEF AcceptedOnce
  <2>2. Early(c)
    BY <1>3, <2>1 DEF OnAccept, Received, Early
  <2>3. UNCHANGED <<q, places>>
    BY <1>3 DEF OnAccept, vars, gameVars
  <2>4. NoneQueued(c)' /\ OnceQueued(c)' /\ ~Placed(c)'
    BY <1>0, <2>2, <2>3 DEF NoneQueued, OnceQueued, Announces, From, Placed
  <2>5. \A i \in 1..Len(toServer'[c]) : toServer'[c][i] = Info => i = (Len(t) + 1) + 1
    <3>1. Register \in ToServerMsg /\ Info \in ToServerMsg /\ Register # Info
      BY BodyFacts DEF ToServerMsg
    <3>2. t \o <<Register, Info>> = Append(Append(t, Register), Info)
      BY <1>0, <3>1, ConcatFacts
    <3>3. Append(t, Register) \in Seq(ToServerMsg) /\ Len(Append(t, Register)) = Len(t) + 1
          /\ \A i \in 1..Len(Append(t, Register)) : Append(t, Register)[i] # Info
      BY <1>0, <2>2, <3>1, AppendFacts DEF NoneSent
    <3>4. \A i \in 1..Len(toServer'[c]) : toServer'[c][i] = Info => i = Len(Append(t, Register)) + 1
      BY <1>3, <3>1, <3>2, <3>3, AppendFacts
    <3> QED
      BY <3>3, <3>4
  <2> HIDE DEF t
  <2>6. OnceSent(c)'
    BY <2>5 DEF OnceSent
  <2> QED
    BY <1>1, <1>3, <2>4, <2>6
(* The server reads it.                                                    *)
<1>4. CASE /\ Read(c) /\ t # <<>> /\ Head(t) = Info
           /\ toServer'[c] = <<>> \/ toServer'[c] = Tail(t)
           /\ \E msg \in RegisterMsg \union GameMsg : q' = Append(q, msg)
  <2>1. 1 \in 1..Len(t) /\ t[1] = Info
    BY <1>0, <1>4, TailFacts
  <2>2. ~NoneSent(c)
    BY <2>1 DEF NoneSent
  <2>3. NoneQueued(c) /\ ~Early(c) /\ ~Placed(c)
    BY <1>0, <2>2
  <2>4. ~Placed(c)'
    BY <1>4, <2>3, OtherThreads DEF Serve, gameVars, Placed
  <2>5. NoneSent(c)'
    <3>1. CASE toServer'[c] = <<>>
      BY <3>1 DEF NoneSent
    <3>2. CASE toServer'[c] = Tail(t)
      <4>1. \A i \in 1..Len(toServer'[c]) : i + 1 \in 1..Len(t) /\ toServer'[c][i] = t[i + 1] /\ i + 1 # 1
        BY <1>0, <1>4, <3>2, TailFacts
      <4> HIDE DEF t
      <4> QED
        BY <1>0, <2>1, <4>1 DEF OnceSent, NoneSent, t
    <3> QED
      BY <1>4, <3>1, <3>2
  <2>6. OnceQueued(c)'
    <3>1. \A i \in 1..Len(q') : Announces(c, i)' => i = Len(q) + 1
      BY <1>0, <1>4, <2>3, AppendFacts DEF NoneQueued, Announces, From
    <3> QED
      BY <3>1 DEF OnceQueued
  <2>7. OnceSent(c)'
    BY <2>5 DEF OnceSent, NoneSent
  <2> QED
    BY <1>1, <2>3, <2>4, <2>5, <2>6, <2>7
(* The server registers the player.                                        *)
<1>5. CASE ~Placed(c) /\ Placed(c)'
  <2>1. OnRegisterPlayer /\ Handled.conn = c
    BY <1>2, <1>5
  <2>2. /\ \E others : OnGameMessage(others)
        /\ q # <<>> /\ q' = Tail(q) /\ Handled = Head(q) /\ Handled.id = "GAME_MESSAGE" /\ UNCHANGED toServer
    BY <2>1 DEF OnRegisterPlayer, OnGameMessage, Incoming, Handled, clientVars
  <2>3. Handled.body = Info
    BY <1>0, <1>5, <2>1, <2>2, FirstIsInfo DEF Placed
  <2>4. /\ 1 \in 1..Len(q) /\ Announces(c, 1)
        /\ \A i \in 1..Len(q') : i + 1 \in 1..Len(q) /\ i + 1 # 1 /\ (Announces(c, i)' <=> Announces(c, i + 1))
    BY <1>0, <2>1, <2>2, <2>3, TailFacts DEF Announces, From
  <2> HIDE DEF q
  <2>5. ~NoneQueued(c) /\ NoneQueued(c)'
    BY <1>0, <2>4 DEF NoneQueued, OnceQueued, q
  <2>6. ~Early(c) /\ NoneSent(c)
    BY <1>0, <2>5
  <2>7. NoneSent(c)' /\ OnceSent(c)'
    BY <1>0, <2>2, <2>6 DEF NoneSent, OnceSent
  <2>8. OnceQueued(c)'
    BY <2>5 DEF NoneQueued, OnceQueued
  <2> QED
    BY <1>1, <2>5, <2>6, <2>7, <2>8
<1>6. CASE /\ NoneSent(c) => NoneSent(c)'
           /\ OnceSent(c) => OnceSent(c)'
           /\ NoneQueued(c) => NoneQueued(c)'
           /\ OnceQueued(c) => OnceQueued(c)'
           /\ Placed(c)' => Placed(c)
  BY <1>0, <1>1, <1>6
<1> HIDE DEF t, q, Goal
<1> QED
  BY <1>0, <1>3, <1>4, <1>5, <1>6, SentChange, QueuedChange DEF t, q, Goal

-----------------------------------------------------------------------------
(* The last word of a client, wherever it is: in what it sent, in the      *)
(* queue of the server, or in the server's tables.                         *)
Says(c, msg) == msg \in GameBody /\ msg.pos = view[c][PuidOf[c]]
LastOf(c, i) == From(c, i) /\ \A k \in (i + 1)..Len(qMessagesIn) : ~From(c, k)

LastWord(c) ==
  /\ toServer[c] # <<>> => Says(c, toServer[c][Len(toServer[c])])
  /\ toServer[c] = <<>> =>
       /\ \A i \in 1..Len(qMessagesIn) : LastOf(c, i) =>
            qMessagesIn[i].id = "GAME_MESSAGE" /\ Says(c, qMessagesIn[i].body)
       /\ (\A k \in 1..Len(qMessagesIn) : ~From(c, k)) => places[PuidOf[c]] = view[c][PuidOf[c]]

LastWords == \A c \in Conn : client[c] = "joined" /\ IsConnected(c) /\ synced[c] => LastWord(c)

(* Only its own messages move a connected client on the server.            *)
LEMMA OwnPlace ==
  ASSUME UniquePuids, EngineInv, OwnInv, [GameNext]_allVars, NEW c \in Conn, IsConnected(c)
  PROVE  \/ UNCHANGED places[PuidOf[c]]
         \/ /\ OnRegisterPlayer \/ OnUpdatePlayer
            /\ Handled.conn = c /\ qMessagesIn # <<>> /\ qMessagesIn' = Tail(qMessagesIn)
<1>0. PuidOf[c] \in PlayerUID
  BY PuidAssumption
<1>1. ASSUME NEW cid \in Conn, CollectPlayer(cid), PuidOf[c] = PuidOf[cid]
      PROVE  FALSE
  <2>1. cid = c /\ Collect(c)
    BY <1>1 DEF UniquePuids, CollectPlayer
  <2> QED
    BY <2>1, Collected DEF IsConnected
<1>2. ASSUME OnRegisterPlayer \/ OnUpdatePlayer, PuidOf[c] = PuidOf[Handled.conn]
      PROVE  Handled.conn = c /\ qMessagesIn # <<>> /\ qMessagesIn' = Tail(qMessagesIn)
  <2>1. PICK others : OnGameMessage(others)
    BY <1>2 DEF OnRegisterPlayer, OnUpdatePlayer
  <2> QED
    BY <1>2, <2>1, Sender DEF UniquePuids, OnGameMessage, Incoming
<1> QED
  BY <1>0, <1>1, <1>2, TableChange

(* The server handles the last message of a client in the game.            *)
LEMMA LastHandled ==
  ASSUME UniquePuids, ToldInv, AnnouncedOnce, [GameNext]_allVars, NEW c \in Conn,
         client[c] = "joined", IsConnected(c), toServer[c] = <<>>, LastOf(c, 1),
         qMessagesIn # <<>>, qMessagesIn' = Tail(qMessagesIn),
         qMessagesIn[1].id = "GAME_MESSAGE", qMessagesIn[1].body \in GameBody
  PROVE  places'[PuidOf[c]] = qMessagesIn[1].body.pos
<1> DEFINE q == qMessagesIn
<1>0. /\ EngineInv /\ OwnInv /\ PlayerInv /\ q \in Seq(RegisterMsg \union GameMsg) /\ PuidOf[c] \in PlayerUID
      /\ places \in [PlayerUID -> Positions \union {NoPos}]
      /\ Handled = q[1] /\ q[1].conn = c /\ 1 \in 1..Len(q)
  BY PuidAssumption, TailFacts
     DEF ToldInv, SessionInv, EngineInv, TypeOK, OwnInv, GameTypeOK, Handled, LastOf, From
<1>1. regRead[c]
  BY DEF ToldInv, RegisterSent
<1>2. ~RegisterPending(c)
  <2> SUFFICES ASSUME NEW i \in 1..Len(q), q[i].conn = c, q[i].id = "REGISTER"
               PROVE  FALSE
    BY DEF RegisterPending
  <2>1. i # 1 /\ i \in (1 + 1)..Len(q)
    OBVIOUS
  <2> QED
    BY <2>1 DEF LastOf, From
<1>3. Registered(c, player_uids)
  BY <1>1, <1>2 DEF ToldInv, ReadIsRegistered, Spent, Registered, IsConnected
<1>4. OnRegisterPlayer \/ OnUpdatePlayer
  BY <1>0, <1>3, TakenBy DEF ServerOnRegister, OnRegister, Incoming, DropUnregistered, Handled
<1>5. CASE OnRegisterPlayer
  <2>1. q[1].body = Info
    BY <1>0, <1>5, BodyFacts DEF OnRegisterPlayer
  <2>2. ~Placed(c)
    BY <1>0, <2>1 DEF AnnouncedOnce, NoneQueued, Announces, From
  <2>3. places' = With(places, PuidOf[c], q[1].body.pos)
    BY <1>0, <1>5 DEF OnRegisterPlayer
  <2> QED
    BY <1>0, <2>2, <2>3 DEF With, Placed
<1>6. CASE OnUpdatePlayer
  <2>1. PICK others : OnGameMessage(others)
    BY <1>6 DEF OnUpdatePlayer
  <2>2. player_uids[c] = PuidOf[c] /\ q[1].body.op = "UPDATE_PLAYER"
    BY <1>0, <1>6, <2>1, Sender DEF OnUpdatePlayer
  <2>3. places[PuidOf[c]] # NoPos
    BY <1>0, <2>1, <2>2, FirstIsInfo, BodyFacts
  <2> QED
    BY <1>0, <1>6, <2>2, <2>3 DEF OnUpdatePlayer, Unpacked
<1> QED
  BY <1>4, <1>5, <1>6

(* The last word of a client is sent, read and handled in its turn.        *)
LEMMA LastWordStep ==
  ASSUME UniquePuids, ToldInv, SyncedAtSpawn, AcceptedOnce, AnnouncedOnce, LastWords, [GameNext]_allVars
  PROVE  LastWords'
<1> SUFFICES ASSUME NEW c \in Conn, client'[c] = "joined", IsConnected(c)', synced'[c]
             PROVE  LastWord(c)'
  BY DEF LastWords
<1> DEFINE t == toServer[c]
           q == qMessagesIn
           own == view[c][PuidOf[c]]
<1>0. /\ SessionInv /\ EngineInv /\ OwnInv /\ PlayerInv /\ client \in [Conn -> ClientState]
      /\ t \in Seq(ToServerMsg) /\ q \in Seq(RegisterMsg \union GameMsg) /\ PuidOf[c] \in PlayerUID
      /\ Alive(c)' /\ sock'[c] \notin {"shut", "closed", "none"} /\ Len(q) \in Nat
  <2>1. SessionInv /\ EngineInv /\ OwnInv /\ PlayerInv
    BY DEF ToldInv, SessionInv
  <2>2. client \in [Conn -> ClientState] /\ t \in Seq(ToServerMsg)
    BY <2>1 DEF OwnInv, GameTypeOK
  <2>3. q \in Seq(RegisterMsg \union GameMsg) /\ Len(q) \in Nat
    BY <2>1 DEF EngineInv, TypeOK
  <2> QED
    BY <2>1, <2>2, <2>3, PuidAssumption DEF Alive, IsConnected
(* A message at the end of what it sent.                                   *)
<1>1. ASSUME NEW s \in Seq(ToServerMsg), NEW msg \in GameBody, toServer'[c] = Append(s, msg), msg.pos = own'
      PROVE  LastWord(c)'
  <2>1. toServer'[c] # <<>> /\ toServer'[c][Len(toServer'[c])] = msg
    BY <1>1, AppendFacts DEF ToServerMsg
  <2> QED
    BY <1>1, <2>1 DEF LastWord, Says
<1>2. CASE client[c] # "joined"
  <2>1. OnAccept(c) /\ client[c] = "answered"
    BY <1>0, <1>2, JoinsBy DEF OnAccept, Received
  <2>2. UNCHANGED view /\ UNCHANGED synced /\ UNCHANGED sock
    BY <2>1 DEF OnAccept, vars, asioVars
  <2>3. toServer'[c] = t \o <<Register, Info>>
    BY <1>0, <2>1, <2>2 DEF OnAccept, Sent, Introduction, Info, OwnInv, GameTypeOK
  <2>4. Register \in ToServerMsg /\ Info \in ToServerMsg /\ Info \in GameBody /\ Info.pos = SPAWN_POS
    BY BodyFacts DEF ToServerMsg
  <2>5. Append(t, Register) \in Seq(ToServerMsg) /\ toServer'[c] = Append(Append(t, Register), Info)
    BY <1>0, <2>3, <2>4, ConcatFacts, AppendFacts
  <2>6. own' = SPAWN_POS
    BY <2>1, <2>2 DEF SyncedAtSpawn
  <2> QED
    BY <1>1, <2>4, <2>5, <2>6
<1>3. CASE client[c] = "joined" /\ \E dir \in Dirs : Move(c, dir)
  <2>1. toServer' = Sent(c, <<UpdatePlayer(own')>>) /\ UNCHANGED sock /\ moves' \in 0..MaxMoves
    <3>1. PICK dir \in Dirs : Move(c, dir)
      BY <1>3
    <3>2. own' = <<own[1] + dir[1], own[2] + dir[2]>>
      BY <1>0, <3>1 DEF Move, OwnInv, GameTypeOK
    <3> QED
      BY <1>0, <3>1, <3>2, ClientsTyped DEF Move, vars, asioVars
  <2>2. own' \in Near(moves')
    BY <1>0, ClientsTyped DEF OwnNear
  <2>3. own' \in Positions
    BY <2>1, <2>2, NearFacts, MoveAssumption DEF Positions
  <2>4. toServer'[c] = t \o <<UpdatePlayer(own')>>
    BY <1>0, <2>1 DEF Sent, OwnInv, GameTypeOK
  <2>5. UpdatePlayer(own') \in GameBody /\ UpdatePlayer(own').pos = own'
    BY <2>3, BodyFacts
  <2>6. toServer'[c] = Append(t, UpdatePlayer(own'))
    BY <1>0, <2>4, <2>5, ConcatFacts DEF ToServerMsg
  <2> QED
    BY <1>0, <1>1, <2>5, <2>6
<1>4. CASE client[c] = "joined" /\ ~\E dir \in Dirs : Move(c, dir)
  <2>1. UNCHANGED own /\ synced[c]
    <3>1. ~Launch(c)
      BY <1>4 DEF Launch
    <3> QED
      BY <1>0, <1>4, <3>1, OwnView
  <2>2. IsConnected(c) /\ sock[c] # "handshake"
    <3>1. ~Launch(c)
      BY <1>4 DEF Launch
    <3> QED
      BY <1>0, <1>4, <3>1, Connects DEF AcceptedOnce
  <2>3. LastWord(c)
    BY <1>4, <2>1, <2>2 DEF LastWords
  <2>4. /\ t # <<>> => Says(c, t[Len(t)])
        /\ t = <<>> => /\ \A i \in 1..Len(q) : LastOf(c, i) => q[i].id = "GAME_MESSAGE" /\ Says(c, q[i].body)
                       /\ (\A k \in 1..Len(q) : ~From(c, k)) => places[PuidOf[c]] = own
    BY <2>3 DEF LastWord
  <2>5. \A msg : Says(c, msg)' <=> Says(c, msg)
    BY <2>1 DEF Says
  <2>6. UNCHANGED places[PuidOf[c]]
        \/ (/\ OnRegisterPlayer \/ OnUpdatePlayer
            /\ Handled.conn = c /\ q # <<>> /\ q' = Tail(q))
    BY <1>0, <2>2, OwnPlace
  <2>7. UNCHANGED q \/ (\E msg \in RegisterMsg \union GameMsg : q' = Append(q, msg)) => UNCHANGED places[PuidOf[c]]
    <3>1. q # <<>> /\ q' = Tail(q) => Len(q') = Len(q) - 1
      BY <1>0, TailFacts
    <3>2. \A msg \in RegisterMsg \union GameMsg : q' = Append(q, msg) => Len(q') = Len(q) + 1
      BY <1>0, AppendFacts
    <3> QED
      BY <1>0, <2>6, <3>1, <3>2
  <2>8. CASE UNCHANGED <<q, t>>
    BY <2>1, <2>3, <2>5, <2>7, <2>8 DEF LastWord, LastOf, From
  (* The server reads a message of this client.                            *)
  <2>9. ASSUME t # <<>>, toServer'[c] = Tail(t), NEW msg \in RegisterMsg \union GameMsg, msg.conn = c,
               q' = Append(q, msg),
               (msg.id = "REGISTER" /\ Head(t) = Register) \/ (msg.id = "GAME_MESSAGE" /\ Head(t) = msg.body)
        PROVE  LastWord(c)'
    <3>1. /\ Len(t) \in Nat /\ Len(Tail(t)) = Len(t) - 1 /\ Head(t) = t[1] /\ Tail(t) \in Seq(ToServerMsg)
          /\ \A i \in 1..Len(Tail(t)) : i + 1 \in 1..Len(t) /\ Tail(t)[i] = t[i + 1]
          /\ \A i \in 1..Len(t) : i = 1 \/ i - 1 \in 1..Len(Tail(t))
      BY <1>0, <2>9, TailFacts
    <3>2. CASE Tail(t) # <<>>
      <4>1. Len(Tail(t)) \in 1..Len(Tail(t))
        BY <3>1, <3>2
      <4>2. Tail(t)[Len(Tail(t))] = t[Len(t)]
        BY <3>1, <4>1
      <4> QED
        BY <2>4, <2>5, <2>9, <3>2, <4>2 DEF LastWord
    <3>3. CASE Tail(t) = <<>>
      <4>1. Len(t) = 1 /\ t[Len(t)] = Head(t)
        <5>1. Len(<<>>) = 0
          OBVIOUS
        <5>2. Len(Tail(t)) = 0
          BY <3>3, <5>1
        <5>3. Len(t) = 1
          BY <3>1, <5>2
        <5> QED
          BY <3>1, <5>3
      <4>2. Says(c, Head(t)) /\ Head(t) # Register
        BY <2>4, <2>9, <4>1, BodyFacts DEF Says
      <4>3. msg.id = "GAME_MESSAGE" /\ Says(c, msg.body)'
        BY <2>5, <2>9, <4>2
      <4>4. /\ Len(q') = Len(q) + 1 /\ q'[Len(q) + 1] = msg
            /\ \A i \in 1..Len(q') : i \in 1..Len(q) \/ i = Len(q) + 1
        BY <1>0, <2>9, AppendFacts
      <4>5. ASSUME NEW n, n = Len(q) + 1
            PROVE  From(c, n)'
        BY <2>9, <4>4, <4>5 DEF From
      <4>6. \A i \in 1..Len(q') : LastOf(c, i)' => i = Len(q) + 1
        <5> SUFFICES ASSUME NEW i \in 1..Len(q), LastOf(c, i)'
                     PROVE  FALSE
          BY <4>4
        <5>1. Len(q) + 1 \in (i + 1)..Len(q')
          BY <1>0, <4>4
        <5> QED
          BY <4>5, <5>1 DEF LastOf
      <4>7. Len(q) + 1 \in 1..Len(q')
        BY <1>0, <4>4
      <4> HIDE DEF q, t
      <4> QED
        BY <2>9, <3>3, <4>3, <4>4, <4>5, <4>6, <4>7 DEF LastWord, q, t
    <3> QED
      BY <3>2, <3>3
  (* It reads another's.                                                   *)
  <2>10. ASSUME UNCHANGED t, NEW msg \in RegisterMsg \union GameMsg, msg.conn # c, q' = Append(q, msg)
         PROVE  LastWord(c)'
    <3>1. /\ Len(q') = Len(q) + 1 /\ q'[Len(q) + 1] = msg
          /\ \A i \in 1..Len(q) : i \in 1..Len(q') /\ q'[i] = q[i]
          /\ \A i \in 1..Len(q') : i \in 1..Len(q) \/ i = Len(q) + 1
      BY <1>0, <2>10, AppendFacts
    <3>2. \A i \in 1..Len(q) : From(c, i)' <=> From(c, i)
      BY <3>1 DEF From
    <3>3. \A i \in 1..Len(q') : From(c, i)' => i \in 1..Len(q)
      BY <2>10, <3>1 DEF From
    <3>4. \A i \in 1..Len(q') : LastOf(c, i)' => i \in 1..Len(q) /\ LastOf(c, i)
      <4> SUFFICES ASSUME NEW i \in 1..Len(q'), LastOf(c, i)'
                   PROVE  i \in 1..Len(q) /\ LastOf(c, i)
        OBVIOUS
      <4>1. i \in 1..Len(q) /\ From(c, i) /\ \A k \in (i + 1)..Len(q') : ~From(c, k)'
        BY <3>2, <3>3 DEF LastOf
      <4>2. \A k \in (i + 1)..Len(q) : k \in (i + 1)..Len(q') /\ k \in 1..Len(q)
        BY <1>0, <3>1, <4>1
      <4> QED
        BY <3>2, <4>1, <4>2 DEF LastOf
    <3>5. UNCHANGED places[PuidOf[c]]
      BY <2>7, <2>10
    <3> HIDE DEF q, t
    <3> QED
      BY <2>1, <2>4, <2>5, <2>10, <3>1, <3>2, <3>4, <3>5 DEF LastWord, q, t, own
  (* A message is taken.                                                   *)
  <2>11. ASSUME UNCHANGED t, q # <<>>, q' = Tail(q)
         PROVE  LastWord(c)'
    <3>1. /\ Len(q') = Len(q) - 1 /\ 1 \in 1..Len(q) /\ Head(q) = q[1]
          /\ \A i \in 1..Len(q') : i + 1 \in 1..Len(q) /\ q'[i] = q[i + 1]
          /\ \A i \in 1..Len(q) : i = 1 \/ (i - 1 \in 1..Len(q') /\ q'[i - 1] = q[i])
      BY <1>0, <2>11, TailFacts
    <3>2. \A i \in 1..Len(q') : From(c, i)' <=> From(c, i + 1)
      BY <3>1 DEF From
    <3>3. \A i \in 1..Len(q') : LastOf(c, i)' => LastOf(c, i + 1)
      <4> SUFFICES ASSUME NEW i \in 1..Len(q'), LastOf(c, i)'
                   PROVE  LastOf(c, i + 1)
        OBVIOUS
      <4>1. From(c, i + 1) /\ \A k \in (i + 1)..Len(q') : ~From(c, k)'
        BY <3>2 DEF LastOf
      <4>2. ASSUME NEW k \in ((i + 1) + 1)..Len(q)
            PROVE  ~From(c, k)
        <5>1. k - 1 \in (i + 1)..Len(q') /\ k - 1 \in 1..Len(q') /\ (k - 1) + 1 = k
          BY <1>0, <3>1, <4>2
        <5> QED
          BY <3>2, <4>1, <5>1
      <4> QED
        BY <4>1, <4>2 DEF LastOf
    <3>4. ASSUME t = <<>>, \A k \in 1..Len(q') : ~From(c, k)'
          PROVE  places'[PuidOf[c]] = own
      <4>1. \A k \in (1 + 1)..Len(q) : ~From(c, k)
        <5> SUFFICES ASSUME NEW k \in (1 + 1)..Len(q)
                     PROVE  ~From(c, k)
          OBVIOUS
        <5>1. k - 1 \in 1..Len(q') /\ (k - 1) + 1 = k
          BY <1>0, <3>1
        <5> QED
          BY <3>2, <3>4, <5>1
      <4>2. CASE From(c, 1)
        <5>1. LastOf(c, 1)
          BY <4>1, <4>2 DEF LastOf
        <5>2. q[1].id = "GAME_MESSAGE" /\ Says(c, q[1].body)
          BY <2>4, <3>1, <3>4, <5>1
        <5> QED
          BY <1>4, <2>2, <2>11, <3>4, <5>1, <5>2, LastHandled DEF Says
      <4>3. CASE ~From(c, 1)
        <5>1. \A k \in 1..Len(q) : ~From(c, k)
          <6> SUFFICES ASSUME NEW k \in 1..Len(q), k # 1
                       PROVE  ~From(c, k)
            BY <4>3
          <6>1. k \in (1 + 1)..Len(q)
            BY <1>0
          <6> QED
            BY <4>1, <6>1
        <5>2. Handled.conn # c
          BY <3>1, <4>3 DEF From, Handled
        <5> QED
          BY <2>4, <2>6, <3>4, <5>1, <5>2
      <4> QED
        BY <4>2, <4>3
    <3> HIDE DEF q, t
    <3> QED
      BY <2>1, <2>4, <2>5, <2>11, <3>1, <3>3, <3>4 DEF LastWord, q, t, own
  <2>12. CASE sock'[c] = "closed" \/ sock'[c] = "shut" \/ sock[c] = "none" \/ sock[c] = "handshake"
    BY <1>0, <2>2, <2>12 DEF IsConnected
  <2>13. CASE Answer(c) \/ OnAccept(c)
    <3>1. OnAccept(c)
      BY <1>4, <2>13 DEF Answer
    <3>2. toClient[c] # <<>> /\ toClient[c] \in Seq(ToClientMsg) /\ Head(toClient[c]).op = "ACCEPT_CONNECTION"
      BY <1>0, <3>1 DEF OnAccept, Received, OwnInv, GameTypeOK
    <3>3. 1 \in 1..Len(toClient[c]) /\ Accepts(c, 1)
      BY <3>2, TailFacts DEF Accepts
    <3> QED
      BY <1>4, <3>3 DEF AcceptedOnce
  <2>14. CASE own' \in Positions /\ toServer'[c] = t \o <<UpdatePlayer(own')>>
    <3>1. UpdatePlayer(own') \in GameBody /\ UpdatePlayer(own').pos = own'
      BY <2>14, BodyFacts
    <3>2. toServer'[c] = Append(t, UpdatePlayer(own'))
      BY <1>0, <2>14, <3>1, ConcatFacts DEF ToServerMsg
    <3> QED
      BY <1>0, <1>1, <3>1, <3>2
  <2> HIDE DEF t, q, own
  <2> QED
    BY <1>0, <2>8, <2>9, <2>10, <2>11, <2>12, <2>13, <2>14, Outbox DEF t, q, own
<1> QED
  BY <1>2, <1>3, <1>4

LastInv == ToldInv /\ SyncedAtSpawn /\ AcceptedOnce /\ AnnouncedOnce /\ LastWords

(* Nobody has said anything at the start.                                  *)
LEMMA LastInit == GameInit => LastInv
<1> SUFFICES ASSUME GameInit
             PROVE  LastInv
  OBVIOUS
<1>1. ToldInv
  BY ToldInit
<1>2. /\ \A c \in Conn : client[c] = "off" /\ 1..Len(toClient[c]) = {} /\ 1..Len(toServer[c]) = {}
                         /\ places[PuidOf[c]] = NoPos
      /\ 1..Len(qMessagesIn) = {}
  BY PuidAssumption DEF GameInit, Init, Nobody
<1> QED
  BY <1>1, <1>2 DEF LastInv, SyncedAtSpawn, AcceptedOnce, AnnouncedOnce, NoneQueued, NoneSent, OnceQueued, OnceSent,
                    Placed, LastWords

(* The invariant of the last words is inductive.                           *)
LEMMA LastStep ==
  ASSUME UniquePuids, LastInv, [GameNext]_allVars
  PROVE  LastInv'
<1>1. SessionInv /\ EngineInv /\ OwnInv
  BY DEF LastInv, ToldInv, SessionInv
<1> QED
  BY <1>1, ToldStep, SpawnStep, AcceptedStep, AnnouncedStep, LastWordStep DEF LastInv

(* When everything sent was handled, the server has every client in the    *)
(* game where he has himself, unless he moved before he had registered:    *)
(* no step of his is lost, repeated or overtaken by another.               *)
THEOREM MoversTracked == ASSUME UniquePuids PROVE GameSpec => []ServerTracksMovers
<1>1. GameInit => LastInv
  BY LastInit
<1>2. LastInv /\ [GameNext]_allVars => LastInv'
  BY LastStep
<1>3. LastInv => ServerTracksMovers
  <2> SUFFICES ASSUME LastInv, Quiet, NEW c \in Conn, InGame(c)
               PROVE  /\ places[PuidOf[c]] # NoPos
                      /\ synced[c] => places[PuidOf[c]] = view[c][PuidOf[c]]
    BY DEF ServerTracksMovers
  <2>1. places[PuidOf[c]] # NoPos
    BY QuietPlaced DEF LastInv, ToldInv, SessionInv
  <2>2. toServer[c] = <<>> /\ qMessagesIn = <<>> /\ client[c] = "joined" /\ IsConnected(c)
    BY DEF Quiet, InGame, IsConnected
  <2>3. \A k \in 1..Len(qMessagesIn) : ~From(c, k)
    BY <2>2
  <2> QED
    BY <2>1, <2>2, <2>3 DEF LastInv, LastWords, LastWord
<1> QED
  BY <1>1, <1>2, <1>3, PTL DEF GameSpec

-----------------------------------------------------------------------------
(* Where the other clients have a player.                                  *)

(* The handler is at a message that is in the tables already; at the info  *)
(* of a new player, nobody has been told of him.                           *)
HandlingPlaced ==
  pc = "handler" =>
    /\ places[player_uids[current]] = handling.pos
    /\ handling.op = "REGISTER_PLAYER" =>
         \A d \in Conn : IsConnected(d) => last[d][player_uids[current]] # "GAME_MESSAGE"

(* The handler writes the tables before it tells anybody.                  *)
LEMMA HandlingStep ==
  ASSUME UniquePuids, ToldInv, AnnouncedOnce, HandlingPlaced, [GameNext]_allVars
  PROVE  HandlingPlaced'
<1>0. /\ SessionInv /\ EngineInv /\ OwnInv /\ PlayerInv
      /\ places \in [PlayerUID -> Positions \union {NoPos}]
  BY DEF ToldInv, SessionInv, OwnInv, GameTypeOK
<1>1. ASSUME NEW others, OnGameMessage(others), OnRegisterPlayer \/ OnUpdatePlayer
      PROVE  HandlingPlaced'
  <2> DEFINE b == Handled.conn
             p == PuidOf[b]
  <2>1. /\ player_uids[b] = p /\ p \in PlayerUID /\ b \in Conn /\ Handled.body \in GameBody /\ Handled = qMessagesIn[1]
        /\ qMessagesIn # <<>> /\ Handled.id = "GAME_MESSAGE"
        /\ UNCHANGED <<player_uids, last, sock>> /\ current' = b
    BY <1>0, <1>1, Sender DEF OnGameMessage, asioVars, Handled, Incoming
  <2>2. handling' = Handled.body
    BY <1>1 DEF OnRegisterPlayer, OnUpdatePlayer
  <2>3. ASSUME OnRegisterPlayer
        PROVE  places'[p] = Handled.body.pos /\ ~Placed(b)
    <3>1. Handled.body = Info /\ places' = With(places, p, Handled.body.pos)
      BY <2>1, <2>3, BodyFacts DEF OnRegisterPlayer
    <3>2. 1 \in 1..Len(qMessagesIn) /\ Announces(b, 1)
      BY <1>0, <2>1, <3>1, TailFacts DEF Announces, From, EngineInv, TypeOK
    <3>3. ~Placed(b)
      BY <2>1, <3>2 DEF AnnouncedOnce, NoneQueued
    <3> QED
      BY <1>0, <2>1, <3>1, <3>3 DEF With, Placed
  <2>4. ASSUME OnUpdatePlayer
        PROVE  places'[p] = Handled.body.pos /\ Handled.body.op = "UPDATE_PLAYER"
    <3>1. Handled.body.op = "UPDATE_PLAYER" /\ Handled.body # Info
      BY <2>4, BodyFacts DEF OnUpdatePlayer
    <3>2. places[p] # NoPos
      BY <1>0, <1>1, <3>1, FirstIsInfo
    <3> QED
      BY <1>0, <2>1, <2>4, <3>1, <3>2 DEF OnUpdatePlayer, Unpacked
  <2>5. ASSUME OnRegisterPlayer, NEW d \in Conn, IsConnected(d)
        PROVE  last[d][p] # "GAME_MESSAGE"
    BY <2>1, <2>3, <2>5 DEF ToldInv, SpokenOfIsPlaced, Placed
  <2> QED
    BY <1>1, <2>1, <2>2, <2>3, <2>4, <2>5 DEF HandlingPlaced, IsConnected
<1>2. CASE OnRegisterPlayer \/ OnUpdatePlayer
  BY <1>1, <1>2 DEF OnRegisterPlayer, OnUpdatePlayer
<1>3. ASSUME UNCHANGED <<pc, places, player_uids, current, handling>>, pc = "handler",
             \A d \in Conn : IsConnected(d)' =>
               \/ IsConnected(d) /\ last'[d][player_uids[current]] = last[d][player_uids[current]]
               \/ last'[d][player_uids[current]] = "none"
      PROVE  HandlingPlaced'
  BY <1>3 DEF HandlingPlaced
<1>4. CASE pc' # "handler"
  BY <1>4 DEF HandlingPlaced
<1>5. ASSUME NEW c \in Conn, pc' = "handler",
             Serve(c) \/ Close(c) \/ Launch(c) \/ ClientHandles(c) \/ Stop(c) \/ \E dir \in Dirs : Move(c, dir)
      PROVE  HandlingPlaced'
  <2>1. UNCHANGED <<pc, places, player_uids, current, handling, last>>
    BY <1>5, OtherThreads DEF mainVars, gameVars
  <2>2. player_uids[current] \in PlayerUID
    BY <1>0, <1>5, <2>1, Addressee
  <2>3. ASSUME NEW d \in Conn, IsConnected(d)', ~IsConnected(d)
        PROVE  last[d][player_uids[current]] = "none"
    <3>1. sock[d] = "none"
      BY <1>0, <2>3, Connects
    <3> QED
      BY <1>0, <2>2, <3>1 DEF EngineInv, StreamInv, Unsent
  <2> QED
    BY <1>3, <1>5, <2>1, <2>3
<1>6. ASSUME NEW other \in replies, Reply(other)
      PROVE  HandlingPlaced'
  <2>1. pc = "handler" /\ pc' = "handler" /\ UNCHANGED <<current, sock, places, handling, player_uids>>
    <3>1. pc = "handler" /\ pc' = "handler" /\ current' = current
      <4>1. pc = "handler" /\ Send(other)
        BY <1>6 DEF Reply, Send
      <4>2. Target \notin {NoConn, NullConn}
        BY <1>0, <4>1, Addressee, ConnAssumption
      <4> QED
        BY <4>1, <4>2 DEF Send
    <3>2. UNCHANGED <<sock, places, handling, player_uids>>
      BY <1>6 DEF Reply, Send, gameVars, asioVars
    <3> QED
      BY <3>1, <3>2
  <2>2. player_uids[current] \in PlayerUID /\ other # player_uids[current]
    BY <1>0, <2>1, Addressee DEF OwnInv, RepliesNews
  <2>3. \A d \in Conn : last'[d][player_uids[current]] = last[d][player_uids[current]]
    BY <1>0, <1>6, <2>2, Words
  <2> QED
    BY <1>3, <2>1, <2>3 DEF IsConnected
<1>7. CASE UNCHANGED allVars /\ pc' = "handler"
  BY <1>3, <1>7 DEF allVars, vars, asioVars, mainVars, gameVars, IsConnected
<1>8. ASSUME pc' = "handler", ServerThread, ~OnRegisterPlayer, ~OnUpdatePlayer
      PROVE  \E other \in replies : Reply(other)
  BY <1>8 DEF ServerThread, ServerFrame, BeginUpdate, ClearGarbage, DropUnregistered, EndUpdate, CollectPlayer, Collect,
              ServerOnRegister, OnRegister, Incoming, Forward, SendAll, mainVars
<1> QED
  BY <1>2, <1>4, <1>5, <1>6, <1>7, <1>8 DEF GameNext

Updates(c, i, p) == Tells(c, i, p) /\ toClient[c][i].op = "UPDATE_PLAYER"
Registers(c, i, p) == Tells(c, i, p) /\ toClient[c][i].op = "REGISTER_PLAYER"
NoUpdate(c, p) == \A i \in 1..Len(toClient[c]) : ~Updates(c, i, p)
LastUpdate(c, i, p) == Updates(c, i, p) /\ \A j \in (i + 1)..Len(toClient[c]) : ~Updates(c, j, p)
FirstRegister(c, i, p) == Registers(c, i, p) /\ \A j \in 1..(i - 1) : ~Registers(c, j, p)
Known(c, p, pos) == pos = places[p] \/ (p \in unmoved[c] /\ pos = infos[p])

(* What client c will have of player p when it has handled what waits for  *)
(* it is where the server has him, or his info if he has not moved since.  *)
Current(c, p) ==
  /\ \A i \in 1..Len(toClient[c]) : LastUpdate(c, i, p) => Known(c, p, toClient[c][i].pos)
  /\ NoUpdate(c, p) /\ view[c][p] # NoPos => Known(c, p, view[c][p])
  /\ NoUpdate(c, p) /\ view[c][p] = NoPos =>
       \A i \in 1..Len(toClient[c]) : FirstRegister(c, i, p) => Known(c, p, toClient[c][i].pos)

(* A client that was told nothing of a player is not behind.               *)
LEMMA FreshIsCurrent ==
  ASSUME NEW c \in Conn, NEW p \in PlayerUID, view[c][p] = NoPos, NoneWaits(c, p)
  PROVE  Current(c, p)
BY DEF Current, LastUpdate, FirstRegister, Updates, Registers, NoneWaits

(* News of a player keeps a client up to date if it says what the tables   *)
(* say; so does news of another.                                           *)
LEMMA CurrentQueued ==
  ASSUME OwnInv, NEW c \in Conn, NEW p \in PlayerUID, NEW msg \in ToClientMsg,
         toClient'[c] = Append(toClient[c], msg), UNCHANGED <<view[c][p], places[p], infos[p]>>,
         p \in unmoved[c] => p \in unmoved'[c],
         \/ ~Concerns(msg, p) /\ Current(c, p)
         \/ Concerns(msg, p) /\ Known(c, p, msg.pos)' /\ msg.op = "UPDATE_PLAYER"
         \/ Concerns(msg, p) /\ Known(c, p, msg.pos)' /\ msg.op = "REGISTER_PLAYER" /\ Current(c, p)
  PROVE  Current(c, p)'
<1> DEFINE t == toClient[c]
           new == Concerns(msg, p) /\ msg.op = "UPDATE_PLAYER"
<1>0. /\ Len(t) \in Nat /\ Len(toClient'[c]) = Len(t) + 1
      /\ \A i \in 1..Len(t) : i \in 1..Len(toClient'[c]) /\ toClient'[c][i] = t[i]
      /\ toClient'[c][Len(t) + 1] = msg
      /\ \A i \in 1..Len(toClient'[c]) : i \in 1..Len(t) \/ i = Len(t) + 1
      /\ Len(t) + 1 \in 1..Len(toClient'[c])
  BY AppendFacts DEF OwnInv, GameTypeOK
<1>1. \A pos : Known(c, p, pos) => Known(c, p, pos)'
  BY DEF Known
<1>2. \A i \in 1..Len(t) : (Updates(c, i, p)' <=> Updates(c, i, p)) /\ (Registers(c, i, p)' <=> Registers(c, i, p))
  BY <1>0 DEF Updates, Registers, Tells
<1>3. ASSUME NEW n, n = Len(t) + 1
      PROVE  /\ Updates(c, n, p)' <=> new
             /\ Registers(c, n, p)' <=> Concerns(msg, p) /\ msg.op = "REGISTER_PLAYER"
  BY <1>0, <1>3 DEF Updates, Registers, Tells
<1> HIDE DEF t
<1>4. NoUpdate(c, p)' <=> NoUpdate(c, p) /\ ~new
  BY <1>0, <1>2, <1>3 DEF NoUpdate, t
<1>5. ASSUME NEW i \in 1..Len(toClient'[c]), LastUpdate(c, i, p)'
      PROVE  (i \in 1..Len(t) /\ LastUpdate(c, i, p) /\ ~new) \/ (i = Len(t) + 1 /\ new)
  <2>1. Updates(c, i, p)' /\ \A j \in (i + 1)..Len(toClient'[c]) : ~Updates(c, j, p)'
    BY <1>5 DEF LastUpdate
  <2>2. CASE i = Len(t) + 1
    BY <1>3, <2>1, <2>2
  <2>3. CASE i \in 1..Len(t)
    <3>1. Len(t) + 1 \in (i + 1)..Len(toClient'[c])
      BY <1>0, <2>3
    <3>2. ~new
      BY <1>3, <2>1, <3>1
    <3>3. \A j \in (i + 1)..Len(t) : j \in 1..Len(t) /\ j \in (i + 1)..Len(toClient'[c])
      BY <1>0, <2>3
    <3> QED
      BY <1>2, <2>1, <2>3, <3>2, <3>3 DEF LastUpdate, t
  <2> QED
    BY <1>0, <2>2, <2>3
<1>6. ASSUME NEW i \in 1..Len(toClient'[c]), FirstRegister(c, i, p)'
      PROVE  (i \in 1..Len(t) /\ FirstRegister(c, i, p)) \/ (i = Len(t) + 1 /\ Concerns(msg, p) /\ msg.op = "REGISTER_PLAYER")
  <2>1. Registers(c, i, p)' /\ \A j \in 1..(i - 1) : ~Registers(c, j, p)'
    BY <1>6 DEF FirstRegister
  <2>2. CASE i \in 1..Len(t)
    <3>1. \A j \in 1..(i - 1) : j \in 1..Len(t)
      BY <1>0, <2>2
    <3> QED
      BY <1>2, <2>1, <2>2, <3>1 DEF FirstRegister
  <2> QED
    BY <1>0, <1>3, <2>1, <2>2
<1>7. \A i \in 1..Len(toClient'[c]) : LastUpdate(c, i, p)' => Known(c, p, toClient[c][i].pos)'
  BY <1>0, <1>1, <1>5 DEF Current, t
<1>8. NoUpdate(c, p)' /\ view'[c][p] # NoPos => Known(c, p, view[c][p])'
  BY <1>1, <1>4 DEF Current
<1>9. NoUpdate(c, p)' /\ view'[c][p] = NoPos =>
        \A i \in 1..Len(toClient'[c]) : FirstRegister(c, i, p)' => Known(c, p, toClient[c][i].pos)'
  BY <1>0, <1>1, <1>4, <1>6 DEF Current, t
<1> HIDE DEF new
<1> QED
  BY <1>7, <1>8, <1>9 DEF Current

(* So does handling what waits, in its order.                              *)
LEMMA CurrentHandled ==
  ASSUME OwnInv, NEW c \in Conn, NEW p \in PlayerUID, HandlesMessage(c), Current(c, p),
         Tells(c, 1, p) => toClient[c][1].op # "CLIENT_DISCONNECTED"
  PROVE  Current(c, p)'
<1> DEFINE t == toClient[c]
           m == Head(t)
<1>0. /\ t # <<>> /\ m \in ToClientMsg /\ toClient'[c] = Tail(t)
      /\ ~Concerns(m, p) => view'[c][p] = view[c][p]
      /\ Concerns(m, p) => view'[c][p] = Seen(m, view[c][p])
      /\ UNCHANGED <<places, infos, unmoved>>
  BY Heard DEF OwnInv, GameTypeOK, gameVars
<1>1. /\ Len(t) \in Nat /\ Len(toClient'[c]) = Len(t) - 1 /\ m = t[1] /\ 1 \in 1..Len(t)
      /\ Tells(c, 1, p) <=> Concerns(m, p)
      /\ \A i \in 1..Len(toClient'[c]) : i + 1 \in 1..Len(t) /\ toClient'[c][i] = t[i + 1]
                                         /\ (Tells(c, i, p)' <=> Tells(c, i + 1, p))
      /\ \A i \in 1..Len(t) : i = 1 \/ i - 1 \in 1..Len(toClient'[c])
  BY <1>0, Dequeued
<1>2. \A i \in 1..Len(toClient'[c]) : /\ Updates(c, i, p)' <=> Updates(c, i + 1, p)
                                      /\ Registers(c, i, p)' <=> Registers(c, i + 1, p)
  BY <1>1 DEF Updates, Registers
<1>3. \A pos : Known(c, p, pos)' <=> Known(c, p, pos)
  BY <1>0 DEF Known
<1>4. Concerns(m, p) => m.op \in {"REGISTER_PLAYER", "UPDATE_PLAYER"} /\ m.pos # NoPos
  BY <1>0, <1>1, PosAssumption DEF Concerns, ToClientMsg, Accept
<1> HIDE DEF t, m
<1>5. ASSUME NEW i \in 1..Len(toClient'[c]), LastUpdate(c, i, p)'
      PROVE  i + 1 \in 1..Len(t) /\ LastUpdate(c, i + 1, p)
  <2>1. Updates(c, i + 1, p) /\ \A j \in (i + 1)..Len(toClient'[c]) : ~Updates(c, j, p)'
    BY <1>2, <1>5 DEF LastUpdate
  <2>2. ASSUME NEW j \in ((i + 1) + 1)..Len(t)
        PROVE  ~Updates(c, j, p)
    <3>1. j - 1 \in (i + 1)..Len(toClient'[c]) /\ (j - 1) + 1 = j /\ j - 1 \in 1..Len(toClient'[c])
      BY <1>1, <2>2
    <3> QED
      BY <1>2, <2>1, <3>1
  <2> QED
    BY <1>1, <2>1, <2>2 DEF LastUpdate, t
<1>6. ASSUME NoUpdate(c, p)'
      PROVE  /\ ~Updates(c, 1, p) => NoUpdate(c, p)
             /\ Updates(c, 1, p) => LastUpdate(c, 1, p)
  <2>1. ASSUME NEW j \in 1..Len(t), j # 1
        PROVE  ~Updates(c, j, p)
    <3>1. j - 1 \in 1..Len(toClient'[c]) /\ (j - 1) + 1 = j
      BY <1>1, <2>1
    <3> QED
      BY <1>2, <1>6, <3>1 DEF NoUpdate
  <2>2. \A j \in (1 + 1)..Len(t) : j \in 1..Len(t) /\ j # 1
    BY <1>1
  <2> QED
    BY <2>1, <2>2 DEF NoUpdate, LastUpdate, t
<1>7. ASSUME NEW i \in 1..Len(toClient'[c]), FirstRegister(c, i, p)', ~Registers(c, 1, p)
      PROVE  i + 1 \in 1..Len(t) /\ FirstRegister(c, i + 1, p)
  <2>1. Registers(c, i + 1, p) /\ \A j \in 1..(i - 1) : ~Registers(c, j, p)'
    BY <1>2, <1>7 DEF FirstRegister
  <2>2. ASSUME NEW j \in 1..((i + 1) - 1), j # 1
        PROVE  ~Registers(c, j, p)
    <3>1. j - 1 \in 1..(i - 1) /\ (j - 1) + 1 = j /\ j - 1 \in 1..Len(toClient'[c])
      BY <1>1, <2>2
    <3> QED
      BY <1>2, <2>1, <3>1
  <2> QED
    BY <1>1, <1>7, <2>1, <2>2 DEF FirstRegister
<1>8. \A i \in 1..Len(toClient'[c]) : LastUpdate(c, i, p)' => Known(c, p, toClient'[c][i].pos)
  BY <1>1, <1>3, <1>5 DEF Current, t
<1>9. ASSUME NoUpdate(c, p)'
      PROVE  /\ view'[c][p] # NoPos => Known(c, p, view'[c][p])
             /\ view'[c][p] = NoPos =>
                  \A i \in 1..Len(toClient'[c]) : FirstRegister(c, i, p)' => Known(c, p, toClient'[c][i].pos)
  <2>1. CASE Updates(c, 1, p)
    <3>1. LastUpdate(c, 1, p) /\ Concerns(m, p) /\ m.op = "UPDATE_PLAYER"
      BY <1>1, <1>6, <1>9, <2>1 DEF Updates, t
    <3>2. Known(c, p, m.pos)
      BY <1>1, <3>1 DEF Current, t
    <3>3. view'[c][p] = m.pos
      BY <1>0, <3>1 DEF Seen
    <3> QED
      BY <1>3, <1>4, <3>1, <3>2, <3>3
  <2>2. CASE Registers(c, 1, p)
    <3>1. Concerns(m, p) /\ m.op = "REGISTER_PLAYER" /\ ~Updates(c, 1, p)
      BY <1>1, <2>2 DEF Registers, Updates, t
    <3>2. NoUpdate(c, p) /\ FirstRegister(c, 1, p)
      BY <1>6, <1>9, <2>2, <3>1 DEF FirstRegister
    <3>3. view'[c][p] = IF view[c][p] # NoPos THEN view[c][p] ELSE m.pos
      BY <1>0, <3>1 DEF Seen
    <3>4. view[c][p] = NoPos => Known(c, p, m.pos)
      BY <1>1, <3>2 DEF Current, t
    <3> QED
      BY <1>3, <1>4, <3>1, <3>2, <3>3, <3>4 DEF Current
  <2>3. CASE ~Updates(c, 1, p) /\ ~Registers(c, 1, p)
    <3>1. ~Concerns(m, p)
      BY <1>1, <1>4, <2>3 DEF Updates, Registers, t
    <3>2. NoUpdate(c, p) /\ view'[c][p] = view[c][p]
      BY <1>0, <1>6, <1>9, <2>3, <3>1
    <3>3. view[c][p] = NoPos =>
            \A i \in 1..Len(toClient'[c]) : FirstRegister(c, i, p)' => Known(c, p, toClient'[c][i].pos)
      BY <1>1, <1>3, <1>7, <2>3, <3>2 DEF Current, t
    <3> QED
      BY <1>3, <3>2, <3>3 DEF Current
  <2> QED
    BY <2>1, <2>2, <2>3
<1> QED
  BY <1>3, <1>8, <1>9 DEF Current

(* A player of whom a client was sent the info stays unmoved until a step  *)
(* of his is handled.                                                      *)
LEMMA UnmovedStays ==
  ASSUME EngineInv, OwnInv, [GameNext]_allVars, NEW c \in Conn, NEW p \in unmoved[c], p \notin unmoved'[c]
  PROVE  OnUpdatePlayer /\ p = PuidOf[Handled.conn]
<1>0. unmoved \in [Conn -> SUBSET PlayerUID]
  BY DEF OwnInv, GameTypeOK
<1>1. ASSUME NEW d \in Conn,
             Serve(d) \/ Close(d) \/ Launch(d) \/ ClientHandles(d) \/ Stop(d) \/ \E dir \in Dirs : Move(d, dir)
      PROVE  UNCHANGED unmoved
  BY <1>1 DEF Serve, Validate, Reject, Close, Read, Launch, ClientHandles, Answer, OnAccept, OnClientDisconnected,
              OnServerRegister, OnServerUpdate, OnUnknownUpdate, Stop, Move, seenVars
<1>2. ~(\E other \in replies : Reply(other))
  BY <1>0 DEF Reply
<1>3. OnUpdatePlayer
  BY <1>1, <1>2 DEF GameNext, ServerThread, ServerFrame, CollectPlayer, ServerOnRegister, OnRegisterPlayer, Forward,
                    seenVars, allVars
<1>4. p = player_uids[Handled.conn]
  BY <1>0, <1>3 DEF OnUpdatePlayer
<1> QED
  BY <1>3, <1>4, Sender DEF OnUpdatePlayer

(* Every connected client that has a player, or will have him from what    *)
(* waits for it, has him where the server does, except while the handler   *)
(* is at a message of that player.                                         *)
ViewsCurrent ==
  \A c \in Conn, p \in PlayerUID :
    /\ Alive(c) /\ IsConnected(c) /\ p # PuidOf[c] /\ last[c][p] = "GAME_MESSAGE"
    /\ ~(pc = "handler" /\ player_uids[current] = p)
    => Current(c, p)

(* While a player stands, what was posted of him stays true; when he       *)
(* moves, the handler posts it to every other client before it ends.       *)
LEMMA ViewsStep ==
  ASSUME UniquePuids, ToldInv, HandlingPlaced, ViewsCurrent, [GameNext]_allVars
  PROVE  ViewsCurrent'
<1> SUFFICES ASSUME NEW c \in Conn, NEW p \in PlayerUID, Alive(c)', IsConnected(c)', p # PuidOf[c],
                    last'[c][p] = "GAME_MESSAGE", ~(pc' = "handler" /\ player_uids'[current'] = p)
             PROVE  Current(c, p)'
  BY DEF ViewsCurrent
<1>0. /\ SessionInv /\ EngineInv /\ OwnInv /\ ToldInv'
      /\ last \in [Conn -> [PlayerUID -> MsgKind]] /\ last[c][p] \in MsgKind
  BY ToldStep DEF ToldInv, SessionInv, EngineInv, TypeOK
(* The tables stay as they are, and so does who is unmoved.                *)
<1>1. UNCHANGED <<infos[p], places[p]>> /\ (p \in unmoved[c] => p \in unmoved'[c])
  <2>1. places'[p] # NoPos
    BY <1>0 DEF ToldInv, SpokenOfIsPlaced
  <2>2. ASSUME OnRegisterPlayer \/ OnUpdatePlayer, p = PuidOf[Handled.conn]
        PROVE  FALSE
    <3>1. PICK others : OnGameMessage(others)
      BY <2>2 DEF OnRegisterPlayer, OnUpdatePlayer
    <3>2. pc' = "handler" /\ current' = Handled.conn /\ player_uids' = player_uids
      BY <3>1 DEF OnGameMessage, Handled
    <3> QED
      BY <1>0, <2>2, <3>1, <3>2, Sender
  <2> QED
    BY <1>0, <2>1, <2>2, TableChange, UnmovedStays
<1>2. Alive(c) => IsConnected(c) /\ Delivery(c, p)
  <2>1. Launch(c) => ~Alive(c)
    BY DEF Launch, Alive
  <2> QED
    BY <1>0, <2>1, Connects DEF ToldInv, Deliveries
<1>3. last[c][p] # "CLIENT_DISCONNECTED"
  BY <1>0, EngineStep
(* Unless the handler was at a message of p, the client was up to date.    *)
<1>4. ASSUME Alive(c), ~(pc = "handler" /\ player_uids[current] = p)
      PROVE  Current(c, p)
  <2>1. CASE last[c][p] = "GAME_MESSAGE"
    BY <1>2, <1>4, <2>1 DEF ViewsCurrent
  <2>2. CASE last[c][p] # "GAME_MESSAGE"
    <3>1. last[c][p] \in {"none", "CLIENT_CONNECTED"}
      BY <1>0, <1>3, <2>2 DEF MsgKind
    <3>2. view[c][p] = NoPos /\ NoneWaits(c, p)
      BY <1>2, <1>4, <3>1 DEF Delivery
    <3> QED
      BY <3>2, FreshIsCurrent
  <2> QED
    BY <2>1, <2>2
(* Only the broadcast ends a handler.                                      *)
<1>5. ASSUME ~Forward, pc = "handler"
      PROVE  pc' = "handler" /\ UNCHANGED <<current, player_uids>>
  <2>1. CASE ServerThread
    <3>1. PICK other \in replies : Reply(other)
      BY <1>5, <2>1 DEF ServerThread, ServerFrame, BeginUpdate, ClearGarbage, DropUnregistered, EndUpdate, CollectPlayer,
             Collect, ServerOnRegister, OnRegister, OnRegisterPlayer, OnUpdatePlayer, OnGameMessage, Incoming
    <3>2. Target \notin {NoConn, NullConn} /\ Send(other)
      BY <1>0, <1>5, <3>1, Addressee, ConnAssumption DEF Reply
    <3> QED
      BY <1>5, <3>2 DEF Send
  <2>2. CASE UNCHANGED allVars
    BY <1>5, <2>2 DEF allVars, vars, mainVars
  <2> QED
    BY <1>5, <2>1, <2>2, OtherThreads DEF GameNext, mainVars
<1>6. ~Forward => ~(pc = "handler" /\ player_uids[current] = p)
  BY <1>5
<1>7. ASSUME Alive(c), UNCHANGED <<toClient[c], view[c][p]>>, Current(c, p)
      PROVE  Current(c, p)'
  <2>1. \A pos : Known(c, p, pos) => Known(c, p, pos)'
    BY <1>1 DEF Known
  <2> QED
    BY <1>7, <2>1 DEF Current, NoUpdate, LastUpdate, FirstRegister, Updates, Registers, Tells
<1>8. CASE Alive(c) /\ UNCHANGED <<toClient[c], view[c][p], last[c][p]>>
  <2>1. CASE Forward /\ pc = "handler" /\ player_uids[current] = p
    <3>1. c \in Reached(current)
      <4>1. current # c
        BY <1>0, <2>1, Addressee
      <4> QED
        BY <1>0, <1>2, <1>8, <4>1 DEF EngineInv, StreamInv, InDeque, Reached
    <3>2. Alive(c) /\ toClient' = Posted(Reached(current), About(p, handling))
      BY <1>0, <1>8, <2>1, Addressee DEF Forward
    <3>3. toClient'[c] = Append(toClient[c], About(p, handling))
      BY <3>1, <3>2 DEF Posted, Enqueue
    <3>4. About(p, handling) \in ToClientMsg
      <4>1. handling \in GameBody
        BY <1>0, <2>1 DEF OwnInv, GameTypeOK
      <4> QED
        BY <4>1, BodyFacts DEF About, ToClientMsg
    <3>5. Len(toClient'[c]) = Len(toClient[c]) + 1 /\ Len(toClient[c]) \in Nat
      BY <1>0, <3>3, <3>4, AppendFacts DEF OwnInv, GameTypeOK
    <3> QED
      BY <1>8, <3>5
  <2>2. CASE ~(pc = "handler" /\ player_uids[current] = p)
    BY <1>4, <1>7, <1>8, <2>2
  <2> QED
    BY <1>6, <2>1, <2>2
<1>9. ASSUME Alive(c), UNCHANGED <<view[c][p], last[c][p]>>, NEW msg \in ToClientMsg, ~Concerns(msg, p),
             toClient'[c] = Append(toClient[c], msg)
      PROVE  Current(c, p)'
  <2>1. CASE Forward /\ pc = "handler" /\ player_uids[current] = p
    <3>1. toClient' = Posted(Reached(current), About(p, handling))
      BY <1>0, <2>1, Addressee DEF Forward
    <3>2. toClient'[c] \in {toClient[c], Append(toClient[c], About(p, handling))}
      BY <3>1 DEF Posted, Enqueue
    <3>3. handling \in GameBody
      BY <1>0, <2>1 DEF OwnInv, GameTypeOK
    <3>4. About(p, handling) \in ToClientMsg /\ Concerns(About(p, handling), p)
      BY <3>3, BodyFacts DEF About, ToClientMsg, Concerns
    <3>5. /\ Len(toClient[c]) \in Nat /\ Len(toClient'[c]) = Len(toClient[c]) + 1
          /\ toClient'[c][Len(toClient[c]) + 1] = msg
          /\ Append(toClient[c], About(p, handling))[Len(toClient[c]) + 1] = About(p, handling)
      BY <1>0, <1>9, <3>4, AppendFacts DEF OwnInv, GameTypeOK
    <3> QED
      BY <1>9, <3>2, <3>4, <3>5
  <2>2. CASE ~(pc = "handler" /\ player_uids[current] = p)
    BY <1>0, <1>1, <1>4, <1>9, <2>2, CurrentQueued
  <2> QED
    BY <1>6, <2>1, <2>2
(* The handler answers with the info of p.                                 *)
<1>10. CASE /\ Alive(c) /\ UNCHANGED view[c][p] /\ Reply(p) /\ p \in replies /\ pc = "handler" /\ c = current
            /\ toClient'[c] = Append(toClient[c], About(p, RegisterPlayer(infos[p])))
  <2>1. infos[p] \in Int \X Int /\ p # player_uids[current]
    BY <1>0, <1>10 DEF OwnInv, GameTypeOK, RepliesNews
  <2>2. PICK msg \in ToClientMsg :
          /\ msg = About(p, RegisterPlayer(infos[p]))
          /\ Concerns(msg, p) /\ msg.op = "REGISTER_PLAYER" /\ msg.pos = infos[p]
    <3> DEFINE news == About(p, RegisterPlayer(infos[p]))
    <3>1. /\ news \in ToClientMsg
          /\ Concerns(news, p) /\ news.op = "REGISTER_PLAYER" /\ news.pos = infos[p]
      BY <2>1 DEF About, RegisterPlayer, ToClientMsg, Concerns
    <3> HIDE DEF news
    <3> QED
      BY <3>1 DEF news
  <2>4. p \in unmoved'[c]
    BY <1>0, <1>10 DEF Reply, OwnInv, GameTypeOK
  <2>5. Known(c, p, msg.pos)'
    BY <1>1, <2>2, <2>4 DEF Known
  <2>3. Current(c, p)
    BY <1>4, <1>10, <2>1
  <2> QED
    BY <1>0, <1>1, <1>10, <2>2, <2>3, <2>5, CurrentQueued
(* The handler passes on what p sent.                                      *)
<1>11. CASE /\ Alive(c) /\ UNCHANGED view[c][p] /\ Forward /\ pc = "handler" /\ p = PuidOf[current]
            /\ toClient'[c] = Append(toClient[c], About(p, handling))
  <2>1. handling \in GameBody /\ player_uids[current] = p
    BY <1>0, <1>11, Addressee DEF OwnInv, GameTypeOK
  <2>2. places[p] = handling.pos
        /\ (handling.op = "REGISTER_PLAYER" => last[c][p] # "GAME_MESSAGE")
    BY <1>2, <1>11, <2>1 DEF HandlingPlaced
  <2>3. PICK msg \in ToClientMsg :
          /\ msg = About(p, handling) /\ Concerns(msg, p) /\ msg.op = handling.op /\ msg.pos = handling.pos
          /\ handling.op \in {"REGISTER_PLAYER", "UPDATE_PLAYER"}
    <3> DEFINE news == About(p, handling)
    <3>1. /\ news \in ToClientMsg /\ Concerns(news, p) /\ news.op = handling.op /\ news.pos = handling.pos
          /\ handling.op \in {"REGISTER_PLAYER", "UPDATE_PLAYER"}
      BY <2>1, BodyFacts DEF About, ToClientMsg, Concerns
    <3> HIDE DEF news
    <3> QED
      BY <3>1 DEF news
  <2>4. Known(c, p, msg.pos)'
    BY <1>1, <2>2, <2>3 DEF Known
  <2>5. handling.op = "REGISTER_PLAYER" => Current(c, p)
    <3> SUFFICES ASSUME handling.op = "REGISTER_PLAYER"
                 PROVE  Current(c, p)
      OBVIOUS
    <3>1. last[c][p] \in {"none", "CLIENT_CONNECTED"}
      BY <1>0, <1>3, <2>2 DEF MsgKind
    <3>2. view[c][p] = NoPos /\ NoneWaits(c, p)
      BY <1>2, <1>11, <3>1 DEF Delivery
    <3> QED
      BY <3>2, FreshIsCurrent
  <2> QED
    BY <1>0, <1>1, <1>11, <2>3, <2>4, <2>5, CurrentQueued
(* The client handles a message.                                           *)
<1>12. CASE Alive(c) /\ HandlesMessage(c) /\ UNCHANGED last[c][p]
  <2>1. UNCHANGED vars /\ toClient[c] # <<>>
    BY <1>0, <1>12, Heard
  <2>2. ~(pc = "handler" /\ player_uids[current] = p)
    BY <2>1 DEF vars, mainVars
  <2>3. Current(c, p)
    BY <1>4, <1>12, <2>2
  <2>4. Tells(c, 1, p) => toClient[c][1].op # "CLIENT_DISCONNECTED"
    <3>1. 1 \in 1..Len(toClient[c])
      BY <1>0, <2>1, TailFacts DEF OwnInv, GameTypeOK
    <3> QED
      BY <1>2, <1>12, <3>1 DEF Delivery
  <2> QED
    BY <1>0, <1>12, <2>3, <2>4, CurrentHandled
<1> QED
  BY <1>0, <1>8, <1>9, <1>10, <1>11, <1>12, Hears

FollowInv == LastInv /\ HandlingPlaced /\ ViewsCurrent

(* No client has anybody at the start.                                     *)
LEMMA FollowInit == GameInit => FollowInv
<1> SUFFICES ASSUME GameInit
             PROVE  FollowInv
  OBVIOUS
<1>1. LastInv /\ pc # "handler" /\ \A c \in Conn : client[c] = "off"
  BY LastInit DEF GameInit, Init
<1> QED
  BY <1>1 DEF FollowInv, HandlingPlaced, ViewsCurrent, Alive

(* The invariant of the views is inductive.                                *)
LEMMA FollowStep ==
  ASSUME UniquePuids, FollowInv, [GameNext]_allVars
  PROVE  FollowInv'
BY LastStep, HandlingStep, ViewsStep DEF FollowInv, LastInv

(* When everything sent was handled, every client in the game has the      *)
(* others where the server has them, but for one he was sent the info of   *)
(* and who has not moved since, whom he may have where the info says: a    *)
(* newcomer who is told of the players while they move misses no step.     *)
THEOREM ViewsFollow == ASSUME UniquePuids PROVE GameSpec => []ClientsFollow
<1>1. GameInit => FollowInv
  BY FollowInit
<1>2. FollowInv /\ [GameNext]_allVars => FollowInv'
  BY FollowStep
<1>3. FollowInv => ClientsFollow
  <2> SUFFICES ASSUME FollowInv, Quiet, NEW c \in Conn, NEW p \in PlayerUID, InGame(c), p # PuidOf[c]
               PROVE  view[c][p] = places[p] \/ (p \in unmoved[c] /\ view[c][p] = infos[p])
    BY DEF ClientsFollow
  <2>1. /\ view[c][p] # NoPos <=> last[c][p] = "GAME_MESSAGE"
        /\ places[p] # NoPos <=> last[c][p] = "GAME_MESSAGE"
    BY QuietRoster DEF FollowInv, LastInv
  <2>2. Alive(c) /\ IsConnected(c) /\ toClient[c] = <<>> /\ pc = "frame"
    BY DEF InGame, Quiet, Alive, IsConnected
  <2>3. CASE view[c][p] # NoPos
    <3>1. Current(c, p)
      BY <2>1, <2>2, <2>3 DEF FollowInv, ViewsCurrent
    <3>2. NoUpdate(c, p)
      BY <2>2 DEF NoUpdate
    <3> QED
      BY <2>3, <3>1, <3>2 DEF Current, Known
  <2>4. CASE view[c][p] = NoPos
    BY <2>1, <2>4
  <2> QED
    BY <2>3, <2>4
<1> QED
  BY <1>1, <1>2, <1>3, PTL DEF GameSpec

-----------------------------------------------------------------------------
(* In which order they move: each step of a player is one step on from the *)
(* one before, from his keys to the screens of the others.                 *)

(* A place, or NoPos where it is not known.                                *)
Spot == (Int \X Int) \union {NoPos}

(* From was to is: by a message with the position step, or none if that is *)
(* NoPos. Where it was not known, any step will do.                        *)
Follows(was, step, is) ==
  IF step = NoPos THEN is = was ELSE is = step /\ (was = NoPos \/ OneStep(was, is))

(* The messages s lead step by step from one spot to another: at gives the *)
(* position each holds, and f where one is after each.                     *)
Leads(s, at, f) == \A i \in 1..Len(s) : Follows(f[i - 1], at[s[i]], f[i])
Path(s, at, from, to) ==
  \E f \in [0..Len(s) -> Spot] : f[0] = from /\ f[Len(s)] = to /\ Leads(s, at, f)

(* No message: one stays.                                                  *)
LEMMA EmptyPath ==
  ASSUME NEW at, NEW x \in Spot
  PROVE  Path(<<>>, at, x, x)
<1> DEFINE f == [i \in 0..0 |-> x]
<1>1. f \in [0..0 -> Spot] /\ f[0] = x
  OBVIOUS
<1>2. Len(<<>>) = 0 /\ 1..Len(<<>>) = {}
  OBVIOUS
<1> HIDE DEF f
<1> QED
  BY <1>1, <1>2 DEF Path, Leads

(* A message more leads one further.                                       *)
LEMMA PathOn ==
  ASSUME NEW S, NEW s \in Seq(S), NEW at, NEW m \in S, NEW x \in Spot, NEW y \in Spot, NEW z \in Spot,
         Path(s, at, x, y), Follows(y, at[m], z)
  PROVE  Path(Append(s, m), at, x, z)
<1> DEFINE t == Append(s, m)
<1>0. /\ Len(s) \in Nat /\ Len(t) = Len(s) + 1 /\ t[Len(s) + 1] = m
      /\ \A i \in 1..Len(s) : t[i] = s[i]
      /\ \A i \in 1..Len(t) : i \in 1..Len(s) \/ i = Len(s) + 1
  BY AppendFacts
<1>1. PICK f \in [0..Len(s) -> Spot] : f[0] = x /\ f[Len(s)] = y /\ Leads(s, at, f)
  BY DEF Path
<1> HIDE DEF t
<1> DEFINE g == [i \in 0..Len(t) |-> IF i = Len(t) THEN z ELSE f[i]]
<1>2. /\ g \in [0..Len(t) -> Spot] /\ g[Len(t)] = z
      /\ \A i \in 0..Len(s) : g[i] = f[i]
  <2>1. \A i \in 0..Len(t) : i # Len(t) => i \in 0..Len(s)
    BY <1>0
  <2>2. \A i \in 0..Len(s) : i \in 0..Len(t) /\ i # Len(t)
    BY <1>0
  <2> QED
    BY <1>0, <1>1, <2>1, <2>2
<1>3. g[0] = x
  BY <1>0, <1>1, <1>2
<1> HIDE DEF g
<1>4. ASSUME NEW i \in 1..Len(t)
      PROVE  Follows(g[i - 1], at[t[i]], g[i])
  <2>1. CASE i \in 1..Len(s)
    <3>1. i - 1 \in 0..Len(s) /\ i \in 0..Len(s)
      BY <1>0, <2>1
    <3> QED
      BY <1>0, <1>1, <1>2, <2>1, <3>1 DEF Leads
  <2>2. CASE i = Len(s) + 1
    <3>1. i - 1 = Len(s) /\ Len(s) \in 0..Len(s) /\ i = Len(t)
      BY <1>0, <2>2
    <3> QED
      BY <1>0, <1>1, <1>2, <2>2, <3>1
  <2> QED
    BY <1>0, <2>1, <2>2
<1> QED
  BY <1>2, <1>3, <1>4 DEF Path, Leads, t

(* The first message is one step, and the others lead on from there.       *)
LEMMA PathOff ==
  ASSUME NEW S, NEW s \in Seq(S), s # <<>>, NEW at, NEW x \in Spot, NEW y \in Spot, Path(s, at, x, y)
  PROVE  \E z \in Spot : Follows(x, at[Head(s)], z) /\ Path(Tail(s), at, z, y)
<1> DEFINE t == Tail(s)
<1>0. /\ Len(s) \in Nat /\ Len(t) = Len(s) - 1 /\ Head(s) = s[1] /\ 1 \in 1..Len(s)
      /\ \A i \in 1..Len(t) : i + 1 \in 1..Len(s) /\ t[i] = s[i + 1]
  BY TailFacts
<1>1. PICK f \in [0..Len(s) -> Spot] : f[0] = x /\ f[Len(s)] = y /\ Leads(s, at, f)
  BY DEF Path
<1> HIDE DEF t
<1> DEFINE g == [i \in 0..Len(t) |-> f[i + 1]]
<1>2. /\ g \in [0..Len(t) -> Spot] /\ \A i \in 0..Len(t) : g[i] = f[i + 1]
  <2>1. \A i \in 0..Len(t) : i + 1 \in 0..Len(s)
    BY <1>0
  <2> QED
    BY <1>1, <2>1
<1>3. g[0] = f[1] /\ g[Len(t)] = y
  <2>1. 0 \in 0..Len(t) /\ Len(t) \in 0..Len(t) /\ 0 + 1 = 1 /\ Len(t) + 1 = Len(s)
    BY <1>0
  <2> QED
    BY <1>1, <1>2, <2>1
<1> HIDE DEF g
<1>4. ASSUME NEW i \in 1..Len(t)
      PROVE  Follows(g[i - 1], at[t[i]], g[i])
  <2>1. i \in 0..Len(t) /\ i - 1 \in 0..Len(t) /\ (i - 1) + 1 = i /\ (i + 1) - 1 = i
    BY <1>0
  <2>2. Follows(f[(i + 1) - 1], at[s[i + 1]], f[i + 1])
    BY <1>0, <1>1 DEF Leads
  <2> QED
    BY <1>0, <1>2, <2>1, <2>2
<1>5. Follows(x, at[Head(s)], f[1]) /\ f[1] \in Spot
  <2>1. Follows(f[1 - 1], at[s[1]], f[1]) /\ 1 - 1 = 0 /\ 1 \in 0..Len(s)
    BY <1>0, <1>1 DEF Leads
  <2> QED
    BY <1>0, <1>1, <2>1
<1> QED
  BY <1>2, <1>3, <1>4, <1>5 DEF Path, Leads, t

(* Messages that hold no position lead nowhere.                            *)
LEMMA PathStays ==
  ASSUME NEW S, NEW s \in Seq(S), NEW at, NEW x \in Spot, \A i \in 1..Len(s) : at[s[i]] = NoPos
  PROVE  Path(s, at, x, x)
<1> DEFINE f == [i \in 0..Len(s) |-> x]
<1>1. Len(s) \in Nat /\ f \in [0..Len(s) -> Spot] /\ \A i \in 0..Len(s) : f[i] = x
  OBVIOUS
<1> HIDE DEF f
<1>2. 0 \in 0..Len(s) /\ Len(s) \in 0..Len(s) /\ \A i \in 1..Len(s) : i \in 0..Len(s) /\ i - 1 \in 0..Len(s)
  BY <1>1
<1>3. Leads(s, at, f)
  BY <1>1, <1>2 DEF Leads, Follows
<1> QED
  BY <1>1, <1>2, <1>3 DEF Path

(* They lead on even if one does not know from where.                      *)
LEMMA PathForgets ==
  ASSUME NEW S, NEW s \in Seq(S), NEW at, NEW x \in Spot, NEW y \in Spot, Path(s, at, x, y)
  PROVE  \E z \in {NoPos, y} : Path(s, at, NoPos, z)
<1>0. Len(s) \in Nat
  OBVIOUS
<1>1. PICK f \in [0..Len(s) -> Spot] : f[0] = x /\ f[Len(s)] = y /\ Leads(s, at, f)
  BY DEF Path
<1> DEFINE Stated(i) == \E j \in 1..i : at[s[j]] # NoPos
           g == [i \in 0..Len(s) |-> IF Stated(i) THEN f[i] ELSE NoPos]
<1>2. /\ g \in [0..Len(s) -> Spot] /\ \A i \in 0..Len(s) : g[i] \in {NoPos, f[i]}
      /\ \A i \in 0..Len(s) : (Stated(i) => g[i] = f[i]) /\ (~Stated(i) => g[i] = NoPos)
  BY <1>1 DEF Spot
<1>3. ~Stated(0) /\ 0 \in 0..Len(s) /\ Len(s) \in 0..Len(s)
  BY <1>0
<1>4. ASSUME NEW i \in 1..Len(s)
      PROVE  /\ i \in 0..Len(s) /\ i - 1 \in 0..Len(s)
             /\ Stated(i - 1) => Stated(i)
             /\ Stated(i) => Stated(i - 1) \/ at[s[i]] # NoPos
             /\ at[s[i]] # NoPos => Stated(i)
  <2>1. i \in 1..i /\ \A j \in 1..(i - 1) : j \in 1..i
    BY <1>0
  <2>2. \A j \in 1..i : j = i \/ j \in 1..(i - 1)
    BY <1>0
  <2> QED
    BY <1>0, <2>1, <2>2
<1> HIDE DEF g, Stated
<1>5. ASSUME NEW i \in 1..Len(s)
      PROVE  Follows(g[i - 1], at[s[i]], g[i])
  <2>1. Follows(f[i - 1], at[s[i]], f[i])
    BY <1>1 DEF Leads
  <2> QED
    BY <1>2, <1>4, <2>1 DEF Follows
<1>6. g[0] = NoPos /\ g[Len(s)] \in {NoPos, y}
  BY <1>1, <1>2, <1>3
<1> QED
  BY <1>2, <1>5, <1>6 DEF Path, Leads

(* What each message says of where its player is: what a client sent, what *)
(* the server has read of client c, what a client is told of player p.     *)
SentSteps == [m \in ToServerMsg |-> IF m.op = "UPDATE_PLAYER" THEN m.pos ELSE NoPos]

ReadMsg == RegisterMsg \union GameMsg
StepOf(c, m) == m.conn = c /\ m.id = "GAME_MESSAGE" /\ m.body.op = "UPDATE_PLAYER"
ReadSteps(c) == [m \in ReadMsg |-> IF StepOf(c, m) THEN m.body.pos ELSE NoPos]

Moves(m, p) == Concerns(m, p) /\ m.op = "UPDATE_PLAYER"
News(p) == [m \in ToClientMsg |-> IF Moves(m, p) THEN m.pos ELSE NoPos]

(* The steps of client c: those the server has read, then those it has to  *)
(* read.                                                                   *)
Way(c, x, y, z) ==
  Path(qMessagesIn, ReadSteps(c), x, y) /\ Path(toServer[c], SentSteps, y, z)

Own(c) == view[c][PuidOf[c]]
Place(c) == places[PuidOf[c]]
Writes(c) == Alive(c) /\ sock[c] \notin {"shut", "closed"}

(* They lead on from where the server has the player, if he is one of W,   *)
(* who have taken a step there, to where the client has him, as long as it *)
(* can send his steps.                                                     *)
StepsChained(W) ==
  \A c \in Conn : \E x, y, z \in Spot :
    /\ Way(c, x, y, z)
    /\ PuidOf[c] \in W => x = Place(c)
    /\ Writes(c) => z \in {NoPos, Own(c)}
    /\ client[c] = "off" => z = NoPos

(* The server's handler is at a step of p, which it has still to pass on.  *)
AtStep(p) == pc = "handler" /\ player_uids[current] = p /\ handling.op = "UPDATE_PLAYER"

(* The last one told was where p is, but for the step the handler is at.   *)
Linked(pos, p) == IF AtStep(p) THEN OneStep(pos, places[p]) ELSE pos = places[p]

(* Where the steps that wait for client d begin for it.                    *)
Anchor(d, p) == IF p \in followed[d] THEN view[d][p] ELSE NoPos

Told(d, p) == IsConnected(d) /\ last[d][p] = "GAME_MESSAGE"

(* What waits for a client leads on, step by step, from where it has the   *)
(* player to where the server has him.                                     *)
NewsChained(W) ==
  \A d \in Conn, p \in PlayerUID : Alive(d) /\ p # PuidOf[d] =>
    \E z \in Spot :
      /\ Path(toClient[d], News(p), Anchor(d, p), z)
      /\ Told(d, p) /\ z # NoPos => p \in W /\ Linked(z, p)

(* Those who have taken a step are in the game.                            *)
Stepped(W) ==
  /\ \A p \in W : places[p] # NoPos
  /\ \A p \in PlayerUID : AtStep(p) => p \in W

(* A client follows others whom it has.                                    *)
FollowedAreSeen ==
  \A d \in Conn : \A p \in followed[d] : p # PuidOf[d] /\ view[d][p] # NoPos

(* A client that is not launched has no socket.                            *)
OffHasNoSocket == \A c \in Conn : client[c] = "off" => sock[c] = "none"

ChainInv(W) == StepsChained(W) /\ NewsChained(W) /\ Stepped(W)
OrderInv ==
  FollowInv /\ FollowedAreSeen /\ OffHasNoSocket /\ \E W \in SUBSET PlayerUID : ChainInv(W)

(* What each kind of message says.                                         *)
LEMMA Positioned ==
  /\ NoPos \in Spot /\ Int \X Int \subseteq Spot /\ NoPos \notin Int \X Int
  /\ \A m \in ToServerMsg :
       /\ m.op # "UPDATE_PLAYER" => SentSteps[m] = NoPos
       /\ m.op = "UPDATE_PLAYER" => SentSteps[m] = m.pos /\ m.pos \in Int \X Int
  /\ \A c : \A m \in ReadMsg :
       /\ ~StepOf(c, m) => ReadSteps(c)[m] = NoPos
       /\ StepOf(c, m) => ReadSteps(c)[m] = m.body.pos /\ m.body.pos \in Int \X Int
  /\ \A p : \A m \in ToClientMsg :
       /\ ~Moves(m, p) => News(p)[m] = NoPos
       /\ Moves(m, p) => News(p)[m] = m.pos /\ m.pos \in Int \X Int
<1>1. \A m \in GameBody : m.pos \in Int \X Int
  BY BodyFacts
<1>2. \A m \in ToServerMsg : m.op = "UPDATE_PLAYER" => m \in GameBody
  BY DEF ToServerMsg, Handshake, Register
<1>3. \A c : \A m \in ReadMsg : StepOf(c, m) => m.body \in GameBody
  BY DEF ReadMsg, RegisterMsg, GameMsg, StepOf
<1>4. \A p : \A m \in ToClientMsg : Moves(m, p) => m.pos \in Int \X Int
  BY DEF ToClientMsg, Accept, Moves, Concerns
<1> QED
  BY <1>1, <1>2, <1>3, <1>4, PosAssumption DEF Spot, SentSteps, ReadSteps, News

(* The step that the server takes of a player is the next of his.          *)
LEMMA StepTaken ==
  ASSUME UniquePuids, SessionInv, NEW W, StepsChained(W), Stepped(W), OnUpdatePlayer
  PROVE  LET c == Handled.conn
             pos == Handled.body.pos
         IN /\ c \in Conn /\ PuidOf[c] \in PlayerUID /\ qMessagesIn # <<>> /\ qMessagesIn' = Tail(qMessagesIn)
            /\ StepOf(c, Head(qMessagesIn)) /\ pos \in Int \X Int
            /\ places'[PuidOf[c]] = pos
            /\ PuidOf[c] \in W => OneStep(Place(c), pos)
<1> DEFINE c == Handled.conn
           q == qMessagesIn
           pos == Handled.body.pos
<1>0. EngineInv /\ OwnInv /\ PlayerInv
  BY DEF SessionInv
<1>1. PICK others : OnGameMessage(others) /\ Handled.body.op = "UPDATE_PLAYER"
  BY DEF OnUpdatePlayer
<1>2. /\ q # <<>> /\ Handled \in GameMsg /\ c \in Conn /\ PuidOf[c] \in PlayerUID /\ Handled.body \in GameBody
      /\ q' = Tail(q) /\ Handled = Head(q) /\ player_uids[c] = PuidOf[c]
  BY <1>0, <1>1, Sender DEF OnGameMessage, Incoming, Handled
<1>3. StepOf(c, Head(q)) /\ q \in Seq(ReadMsg) /\ pos \in Int \X Int
  BY <1>0, <1>1, <1>2, BodyFacts DEF StepOf, GameMsg, EngineInv, TypeOK, ReadMsg
<1>4. places'[PuidOf[c]] = pos
  <2>1. places[PuidOf[c]] # NoPos
    BY <1>0, <1>1, FirstIsInfo, BodyFacts
  <2>2. places \in [PlayerUID -> Positions \union {NoPos}]
    BY <1>0 DEF OwnInv, GameTypeOK
  <2> QED
    BY <1>2, <2>1, <2>2 DEF OnUpdatePlayer, Unpacked
<1>5. ASSUME PuidOf[c] \in W
      PROVE  OneStep(Place(c), pos)
  <2>1. PICK x \in Spot, y \in Spot : Path(q, ReadSteps(c), x, y) /\ x = Place(c)
    BY <1>2, <1>5 DEF StepsChained, Way
  <2>2. PICK w \in Spot : Follows(x, ReadSteps(c)[Head(q)], w)
    BY <1>2, <1>3, <2>1, PathOff
  <2>3. Head(q) \in ReadMsg /\ ReadSteps(c)[Head(q)] = pos /\ pos # NoPos
    BY <1>2, <1>3, Positioned, TailFacts
  <2>4. x # NoPos
    BY <1>5, <2>1 DEF Stepped, Place
  <2> QED
    BY <2>1, <2>2, <2>3, <2>4 DEF Follows
<1> QED
  BY <1>2, <1>3, <1>4, <1>5

(* The handler is at a step from when it takes it until it passes it on.   *)
LEMMA AtStepBy ==
  ASSUME UniquePuids, SessionInv, [GameNext]_allVars, NEW p \in PlayerUID
  PROVE  /\ OnUpdatePlayer /\ p = PuidOf[Handled.conn] => ~AtStep(p) /\ AtStep(p)'
         /\ Forward => ~AtStep(p)'
         /\ ~(OnUpdatePlayer /\ p = PuidOf[Handled.conn]) /\ ~Forward => (AtStep(p)' <=> AtStep(p))
<1>0. EngineInv
  BY DEF SessionInv
<1>1. CASE OnRegisterPlayer \/ OnUpdatePlayer
  <2>1. PICK others : OnGameMessage(others)
    BY <1>1 DEF OnRegisterPlayer, OnUpdatePlayer
  <2>2. /\ pc = "drain" /\ pc' = "handler" /\ current' = Handled.conn /\ player_uids' = player_uids
        /\ player_uids[Handled.conn] = PuidOf[Handled.conn] /\ handling' = Handled.body
    BY <1>0, <1>1, <2>1, Sender DEF OnGameMessage, Incoming, Handled, OnRegisterPlayer, OnUpdatePlayer
  <2>3. ~Forward
    BY <2>2 DEF Forward, SendAll
  <2>4. ~AtStep(p) /\ (AtStep(p)' <=> PuidOf[Handled.conn] = p /\ Handled.body.op = "UPDATE_PLAYER")
    BY <2>2 DEF AtStep
  <2>5. OnUpdatePlayer <=> Handled.body.op = "UPDATE_PLAYER"
    BY <1>1 DEF OnRegisterPlayer, OnUpdatePlayer
  <2> QED
    BY <2>3, <2>4, <2>5
<1>2. CASE Forward
  <2>1. pc = "handler" /\ pc' = "drain"
    BY <1>2 DEF Forward, SendAll
  <2>2. ~OnUpdatePlayer
    BY <2>1 DEF OnUpdatePlayer, OnGameMessage, Incoming
  <2> QED
    BY <1>2, <2>1, <2>2 DEF AtStep
<1>3. ASSUME NEW other \in replies, Reply(other)
      PROVE  ~OnUpdatePlayer /\ ~Forward /\ (AtStep(p)' <=> AtStep(p))
  <2>1. pc = "handler" /\ pc' = "handler" /\ current' = current /\ UNCHANGED <<handling, player_uids>>
    BY <1>0, <1>3, Addressee, ConnAssumption DEF Reply, Send, gameVars
  <2>2. ~OnUpdatePlayer /\ ~Forward
    BY <2>1 DEF OnUpdatePlayer, OnGameMessage, Incoming, Forward, SendAll
  <2> QED
    BY <2>1, <2>2 DEF AtStep
<1>4. CASE ~OnRegisterPlayer /\ ~OnUpdatePlayer /\ ~Forward /\ ~(\E other \in replies : Reply(other))
  <2>1. CASE ServerThread
    <3>1. pc # "handler" /\ pc' # "handler"
      BY <1>4, <2>1 DEF ServerThread, ServerFrame, BeginUpdate, ClearGarbage, DropUnregistered, EndUpdate, CollectPlayer,
             Collect, ServerOnRegister, OnRegister, Incoming, mainVars
    <3> QED
      BY <1>4, <3>1 DEF AtStep
  <2>2. CASE UNCHANGED allVars
    BY <1>4, <2>2 DEF allVars, vars, mainVars, gameVars, AtStep
  <2>3. CASE UNCHANGED <<mainVars, gameVars>>
    BY <1>4, <2>3 DEF mainVars, gameVars, AtStep
  <2> QED
    BY <2>1, <2>2, <2>3, OtherThreads DEF GameNext
<1> QED
  BY <1>1, <1>2, <1>3, <1>4

(* Who has taken a step after this one.                                    *)
Steppers(W) ==
  {p \in PlayerUID : places'[p] # NoPos /\ (p \in W \/ (OnUpdatePlayer /\ p = PuidOf[Handled.conn]))}

(* What was told last of a player stays true, or he takes one step on from *)
(* it.                                                                     *)
LEMMA LinkedStays ==
  ASSUME UniquePuids, SessionInv, NEW W, StepsChained(W), Stepped(W), [GameNext]_allVars,
         NEW p \in PlayerUID, p \in W, places'[p] # NoPos, NEW pos, Linked(pos, p), ~(Forward /\ AtStep(p))
  PROVE  Linked(pos, p)'
<1>0. EngineInv /\ OwnInv /\ places[p] # NoPos
  BY DEF SessionInv, Stepped
<1>1. CASE OnUpdatePlayer /\ p = PuidOf[Handled.conn]
  <2>1. ~AtStep(p) /\ AtStep(p)'
    BY <1>1, AtStepBy
  <2>2. OneStep(places[p], places'[p])
    BY <1>1, StepTaken DEF Place
  <2> QED
    BY <2>1, <2>2 DEF Linked
<1>2. CASE ~(OnUpdatePlayer /\ p = PuidOf[Handled.conn])
  <2>1. UNCHANGED places[p]
    BY <1>0, <1>2, TableChange
  <2>2. AtStep(p)' <=> AtStep(p)
    BY <1>2, AtStepBy
  <2> QED
    BY <2>1, <2>2 DEF Linked, OneStep
<1> QED
  BY <1>1, <1>2

(* Who took a step is in the game, until he leaves it.                     *)
LEMMA SteppedStep ==
  ASSUME UniquePuids, SessionInv, OwnInv', HandlingPlaced', NEW W, Stepped(W), [GameNext]_allVars,
         NEW V, V = Steppers(W)
  PROVE  Stepped(V)'
<1>1. \A p \in V : places'[p] # NoPos
  BY DEF Steppers
<1>2. ASSUME NEW p \in PlayerUID, AtStep(p)'
      PROVE  p \in V
  <2>1. p \in W \/ (OnUpdatePlayer /\ p = PuidOf[Handled.conn])
    BY <1>2, AtStepBy DEF Stepped
  <2>2. places'[p] = handling'.pos
    BY <1>2 DEF AtStep, HandlingPlaced
  <2>3. handling' \in GameBody
    BY <1>2 DEF AtStep, OwnInv, GameTypeOK
  <2> QED
    BY <2>1, <2>2, <2>3, BodyFacts DEF Steppers
<1> QED
  BY <1>1, <1>2 DEF Stepped

(* Whom a client follows changes when it handles a message, or ends.       *)
LEMMA FollowedChange ==
  ASSUME OwnInv, [GameNext]_allVars, NEW c \in Conn
  PROVE  \/ HandlesMessage(c)
         \/ UNCHANGED followed[c] /\ (Alive(c) => Alive(c)')
         \/ followed'[c] = {} /\ ~Alive(c)'
<1>0. client \in [Conn -> ClientState] /\ followed \in [Conn -> SUBSET PlayerUID]
  BY DEF OwnInv, GameTypeOK
<1>1. CASE ServerThread \/ UNCHANGED allVars
  <2>1. UNCHANGED followed
    BY <1>1 DEF ServerThread, ServerFrame, CollectPlayer, ServerOnRegister, OnRegisterPlayer, OnUpdatePlayer,
                Reply, Forward, seenVars, allVars
  <2>2. UNCHANGED client
    BY <1>1, MainThreadOnly DEF allVars, clientVars
  <2> QED
    BY <2>1, <2>2 DEF Alive
<1>2. ASSUME NEW d \in Conn, Serve(d) \/ Close(d) \/ Launch(d) \/ Answer(d) \/ \E dir \in Dirs : Move(d, dir)
      PROVE  UNCHANGED followed[c] /\ (Alive(c) => Alive(c)')
  <2>1. UNCHANGED followed
    BY <1>2 DEF Serve, Validate, Reject, Close, Read, Launch, Answer, Move, seenVars
  <2>2. UNCHANGED client \/ client' = [client EXCEPT ![d] = "connecting"] \/ client' = [client EXCEPT ![d] = "answered"]
    BY <1>2 DEF Serve, Validate, Reject, Close, Read, Launch, Answer, Move
  <2> QED
    BY <1>0, <2>1, <2>2 DEF Alive
<1>3. ASSUME NEW d \in Conn, HandlesMessage(d)
      PROVE  HandlesMessage(c) \/ (UNCHANGED followed[c] /\ (Alive(c) => Alive(c)'))
  <2> SUFFICES ASSUME d # c
               PROVE  UNCHANGED <<followed[c], client[c]>>
    BY <1>3 DEF Alive
  <2> QED
    BY <1>0, <1>3 DEF HandlesMessage, OnAccept, OnClientDisconnected, OnServerRegister, OnServerUpdate, seenVars
<1>4. ASSUME NEW d \in Conn, OnUnknownUpdate(d) \/ Stop(d)
      PROVE  \/ UNCHANGED followed[c] /\ (Alive(c) => Alive(c)')
             \/ followed'[c] = {} /\ ~Alive(c)'
  <2>1. /\ followed' = [followed EXCEPT ![d] = {}]
        /\ client' = [client EXCEPT ![d] = "crashed"] \/ client' = [client EXCEPT ![d] = "stopped"]
    BY <1>4 DEF OnUnknownUpdate, Stop
  <2> QED
    BY <1>0, <2>1 DEF Alive
<1>5. ASSUME NEW d \in Conn, ClientHandles(d)
      PROVE  Answer(d) \/ HandlesMessage(d) \/ OnUnknownUpdate(d)
  BY <1>5 DEF ClientHandles, HandlesMessage
<1> QED
  BY <1>1, <1>2, <1>3, <1>4, <1>5 DEF GameNext

(* A message changes whether its client follows the player it is about.    *)
LEMMA FollowedBy ==
  ASSUME OwnInv, NEW c \in Conn, NEW p \in PlayerUID, HandlesMessage(c)
  PROVE  LET msg == Head(toClient[c])
         IN /\ ~Concerns(msg, p) \/ msg.op = "REGISTER_PLAYER" => (p \in followed'[c] <=> p \in followed[c])
            /\ Concerns(msg, p) /\ msg.op = "CLIENT_DISCONNECTED" => p \notin followed'[c]
            /\ Concerns(msg, p) /\ msg.op = "UPDATE_PLAYER" => p \in followed'[c]
<1> DEFINE msg == Head(toClient[c])
<1>0. followed \in [Conn -> SUBSET PlayerUID]
  BY DEF OwnInv, GameTypeOK
<1>1. CASE OnAccept(c)
  <2>1. msg.op = "ACCEPT_CONNECTION" /\ UNCHANGED followed
    BY <1>1 DEF OnAccept, Received, seenVars
  <2> QED
    BY <2>1 DEF Concerns
<1>2. CASE OnClientDisconnected(c)
  <2>1. msg.op = "CLIENT_DISCONNECTED" /\ followed' = [followed EXCEPT ![c] = @ \ {msg.uid}]
    BY <1>2 DEF OnClientDisconnected, Received
  <2>2. followed'[c] = followed[c] \ {msg.uid}
    BY <1>0, <2>1
  <2> QED
    BY <2>1, <2>2 DEF Concerns
<1>3. CASE OnServerRegister(c)
  <2>1. msg.op = "REGISTER_PLAYER" /\ UNCHANGED followed
    BY <1>3 DEF OnServerRegister, Received, seenVars
  <2> QED
    BY <2>1 DEF Concerns
<1>4. CASE OnServerUpdate(c)
  <2>1. msg.op = "UPDATE_PLAYER" /\ followed' = [followed EXCEPT ![c] = @ \union {msg.uid}]
    BY <1>4 DEF OnServerUpdate, Received
  <2>2. followed'[c] = followed[c] \union {msg.uid}
    BY <1>0, <2>1
  <2> QED
    BY <2>1, <2>2 DEF Concerns
<1> QED
  BY <1>1, <1>2, <1>3, <1>4 DEF HandlesMessage

(* A client forgets the steps of whom it removes, and its own with its end.*)
LEMMA FollowedStep ==
  ASSUME UniquePuids, SessionInv, SessionInv', FollowedAreSeen, [GameNext]_allVars
  PROVE  FollowedAreSeen'
<1> SUFFICES ASSUME NEW d \in Conn, NEW p \in followed'[d]
             PROVE  p # PuidOf[d] /\ view'[d][p] # NoPos
  BY DEF FollowedAreSeen
<1>0. /\ OwnInv /\ p \in PlayerUID /\ toClient[d] \in Seq(ToClientMsg)
  <2>1. OwnInv /\ OwnInv'
    BY DEF SessionInv
  <2>2. followed' \in [Conn -> SUBSET PlayerUID] /\ toClient[d] \in Seq(ToClientMsg)
    BY <2>1 DEF OwnInv, GameTypeOK
  <2> QED
    BY <2>1, <2>2
<1>1. CASE HandlesMessage(d)
  <2> DEFINE msg == Head(toClient[d])
  <2>1. /\ Alive(d) /\ toClient[d] # <<>> /\ msg \in ToClientMsg
        /\ ~Concerns(msg, p) => view'[d][p] = view[d][p]
        /\ Concerns(msg, p) => view'[d][p] = Seen(msg, view[d][p])
    BY <1>0, <1>1, Heard
  <2>2. Concerns(msg, p) => p # PuidOf[d]
    <3>1. 1 \in 1..Len(toClient[d]) /\ msg = toClient[d][1]
      BY <1>0, <2>1, TailFacts
    <3> QED
      BY <1>0, <3>1 DEF OwnInv, NotToldOfSelf, Tells
  <2>3. CASE ~Concerns(msg, p) \/ msg.op = "REGISTER_PLAYER"
    <3>1. p \in followed[d]
      BY <1>0, <1>1, <2>3, FollowedBy
    <3> QED
      BY <2>1, <2>3, <3>1 DEF FollowedAreSeen, Seen
  <2>4. CASE Concerns(msg, p) /\ msg.op # "REGISTER_PLAYER"
    <3>1. msg.op # "CLIENT_DISCONNECTED"
      BY <1>0, <1>1, <2>4, FollowedBy
    <3>2. view'[d][p] = msg.pos /\ msg.pos # NoPos
      BY <2>1, <2>4, <3>1, PosAssumption DEF Seen, ToClientMsg, Accept, Concerns
    <3> QED
      BY <2>2, <2>4, <3>2
  <2> QED
    BY <2>3, <2>4
<1>2. CASE ~HandlesMessage(d)
  <2>1. p \in followed[d] /\ (Alive(d) => Alive(d)')
    BY <1>0, <1>2, FollowedChange
  <2>2. p # PuidOf[d] /\ view[d][p] # NoPos
    BY <2>1 DEF FollowedAreSeen
  <2>3. Alive(d)
    BY <1>0, <2>2 DEF OwnInv, DeadHoldsNothing, Nobody
  <2>4. ~Launch(d)
    BY <2>3 DEF Launch, Alive
  <2>5. UNCHANGED view[d][p]
    BY <1>0, <1>2, <2>1, <2>2, <2>3, <2>4, Hears
  <2> QED
    BY <2>2, <2>5
<1> QED
  BY <1>1, <1>2

(* A client gets its socket when it is launched.                           *)
LEMMA OffStep ==
  ASSUME EngineInv, OwnInv, OffHasNoSocket, [GameNext]_allVars
  PROVE  OffHasNoSocket'
<1> SUFFICES ASSUME NEW c \in Conn, client'[c] = "off"
             PROVE  sock'[c] = "none"
  BY DEF OffHasNoSocket
<1>1. client[c] = "off" /\ ~Launch(c)
  <2>1. Launch(c) => client'[c] = "connecting"
    BY DEF Launch, OwnInv, GameTypeOK
  <2> QED
    BY <2>1, ClientChange
<1>2. sock[c] = "none"
  BY <1>1 DEF OffHasNoSocket
<1>3. sock \in [Conn -> SockState] /\ sock'[c] = sock[c]
  <2>1. sock \in [Conn -> SockState]
    BY DEF EngineInv, TypeOK
  <2>2. ASSUME NEW d \in Conn, Serve(d) \/ Close(d) \/ Launch(d)
        PROVE  sock'[c] = sock[c]
    BY <1>1, <1>2, <2>1, <2>2 DEF Serve, Validate, OnClientValidated, Reject, Close, SocketClose, Read, ReadRegister,
           ReadGame, AddToIncomingMessageQueue, AfterRead, Launch, WaitForClientConnection
  <2>3. ASSUME NEW d \in Conn, ClientHandles(d) \/ Stop(d) \/ \E dir \in Dirs : Move(d, dir)
        PROVE  UNCHANGED sock
    BY <2>3 DEF ClientHandles, Answer, OnAccept, OnClientDisconnected, OnServerRegister, OnServerUpdate,
                OnUnknownUpdate, Stop, Move, vars, asioVars
  <2>4. ServerThread \/ UNCHANGED allVars => UNCHANGED sock
    BY MainThreadOnly DEF allVars, vars, asioVars
  <2> QED
    BY <2>1, <2>2, <2>3, <2>4 DEF GameNext
<1> QED
  BY <1>2, <1>3

(* What is under way of a client's steps leads on, whoever moves.          *)
LEMMA ChainedStep ==
  ASSUME UniquePuids, SessionInv, SessionInv', OffHasNoSocket, OffHasNoSocket', NEW W, StepsChained(W), Stepped(W),
         [GameNext]_allVars, NEW V, V = Steppers(W)
  PROVE  StepsChained(V)'
<1> SUFFICES ASSUME NEW c \in Conn
             PROVE  \E x, y, z \in Spot :
                      /\ Way(c, x, y, z)'
                      /\ PuidOf[c] \in V => x = Place(c)'
                      /\ Writes(c)' => z \in {NoPos, Own(c)'}
                      /\ client'[c] = "off" => z = NoPos
  BY DEF StepsChained
<1> DEFINE q == qMessagesIn
           t == toServer[c]
           at == ReadSteps(c)
<1>0. /\ EngineInv /\ OwnInv /\ OwnInv' /\ PlayerInv /\ PuidOf[c] \in PlayerUID
      /\ q \in Seq(ReadMsg) /\ t \in Seq(ToServerMsg)
  <2>1. EngineInv /\ OwnInv /\ OwnInv' /\ PlayerInv
    BY DEF SessionInv
  <2>2. q \in Seq(ReadMsg)
    BY <2>1 DEF EngineInv, TypeOK, ReadMsg
  <2>3. t \in Seq(ToServerMsg)
    BY <2>1 DEF OwnInv, GameTypeOK
  <2> QED
    BY <2>1, <2>2, <2>3, PuidAssumption
<1>1. PICK x \in Spot, y \in Spot, z \in Spot :
        /\ Path(q, at, x, y) /\ Path(t, SentSteps, y, z)
        /\ PuidOf[c] \in W => x = Place(c)
        /\ Writes(c) => z \in {NoPos, Own(c)}
        /\ client[c] = "off" => z = NoPos
  BY DEF StepsChained, Way
(* The server has the player where it had him, if it takes no step of his. *)
<1>2. ASSUME ~(OnUpdatePlayer /\ Handled.conn = c), PuidOf[c] \in V
      PROVE  x = Place(c)' /\ PuidOf[c] \in W /\ Registered(c, player_uids)
  <2>1. ~(OnUpdatePlayer /\ PuidOf[c] = PuidOf[Handled.conn])
    BY <1>2, StepTaken DEF UniquePuids
  <2>2. PuidOf[c] \in W /\ places'[PuidOf[c]] # NoPos
    BY <1>2, <2>1 DEF Steppers
  <2>3. places[PuidOf[c]] # NoPos
    BY <2>2 DEF Stepped
  <2>4. UNCHANGED places[PuidOf[c]]
    BY <1>0, <2>1, <2>2, <2>3, TableChange
  <2>5. Registered(c, player_uids)
    BY <1>0, <2>3, PlacedIsRegistered DEF PlayerInv
  <2> QED
    BY <1>1, <2>2, <2>4, <2>5 DEF Place
<1>3. OnUpdatePlayer => q # <<>> /\ q' = Tail(q)
  BY StepTaken
<1>4. ASSUME UNCHANGED q \/ \E m \in ReadMsg : q' = Append(q, m)
      PROVE  ~OnUpdatePlayer
  <2>1. q # <<>> => Len(Tail(q)) = Len(q) - 1 /\ Len(q) \in Nat
    BY <1>0, TailFacts
  <2>2. \A m \in ReadMsg : Len(Append(q, m)) = Len(q) + 1
    BY <1>0, AppendFacts
  <2> QED
    BY <1>3, <1>4, <2>1, <2>2
(* Its client is where it was, if it takes no step.                        *)
<1>5. ASSUME Writes(c)', ~\E dir \in Dirs : Move(c, dir)
      PROVE  z \in {NoPos, Own(c)'}
  <2>1. CASE Launch(c)
    BY <1>1, <2>1 DEF Launch
  <2>2. CASE Alive(c) /\ UNCHANGED view[c][PuidOf[c]]
    <3>1. sock[c] \notin {"shut", "closed"}
      BY <1>0, <1>5, EngineStep, SocketsOnlyClose DEF Writes, EngineInv
    <3> QED
      BY <1>1, <2>2, <3>1 DEF Writes, Own
  <2> QED
    BY <1>0, <1>5, <2>1, <2>2, OwnView DEF Writes
<1>6. client'[c] = "off" => z = NoPos /\ sock'[c] = "none"
  <2>1. Launch(c) => client'[c] = "connecting"
    BY <1>0 DEF Launch, OwnInv, GameTypeOK
  <2> QED
    BY <1>0, <1>1, <2>1, ClientChange DEF OffHasNoSocket
<1> DEFINE Next1(x2, y2, z2) ==
             /\ Path(q', at, x2, y2) /\ Path(t', SentSteps, y2, z2)
             /\ PuidOf[c] \in V => x2 = Place(c)'
             /\ Writes(c)' => z2 \in {NoPos, Own(c)'}
             /\ client'[c] = "off" => z2 = NoPos
<1>7. ASSUME NEW x2 \in Spot, NEW y2 \in Spot, NEW z2 \in Spot, Next1(x2, y2, z2)
      PROVE  \E x3, y3, z3 \in Spot :
               /\ Way(c, x3, y3, z3)'
               /\ PuidOf[c] \in V => x3 = Place(c)'
               /\ Writes(c)' => z3 \in {NoPos, Own(c)'}
               /\ client'[c] = "off" => z3 = NoPos
  BY <1>7 DEF Way
(* A step of the client: it leads on from where it is.                     *)
<1>8. ASSUME NEW dir \in Dirs, Move(c, dir)
      PROVE  \E z2 \in Spot : Next1(x, y, z2)
  <2>1. UNCHANGED q /\ UNCHANGED <<sock, client>> /\ moves' \in 0..MaxMoves
        /\ Alive(c) /\ Alive(c)' /\ client[c] # "off"
    BY <1>0, <1>8, ClientsTyped DEF Move, vars, asioVars, Alive
  <2>2. PuidOf[c] \in V => x = Place(c)'
    BY <1>2, <1>4, <2>1
  <2>3. OneStep(Own(c), Own(c)') /\ toServer' = Sent(c, <<UpdatePlayer(Own(c)')>>)
    <3> DEFINE pos == <<view[c][PuidOf[c]][1] + dir[1], view[c][PuidOf[c]][2] + dir[2]>>
    <3>1. view' = [view EXCEPT ![c][PuidOf[c]] = pos] /\ toServer' = Sent(c, <<UpdatePlayer(pos)>>)
      BY <1>8 DEF Move
    <3> HIDE DEF pos
    <3>2. view'[c][PuidOf[c]] = pos
      BY <1>0, <3>1 DEF OwnInv, GameTypeOK
    <3> QED
      BY <3>1, <3>2 DEF pos, OneStep, Own
  <2>4. CASE sock[c] \in {"shut", "closed"}
    <3>1. UNCHANGED t
      BY <1>0, <2>3, <2>4 DEF Sent, OwnInv, GameTypeOK
    <3> QED
      BY <1>1, <2>1, <2>2, <2>4, <3>1 DEF Writes
  <2>5. CASE sock[c] \notin {"shut", "closed"}
    <3>1. PICK pos : pos = Own(c)'
      OBVIOUS
    <3>2. pos \in Positions
      <4>1. pos \in Near(moves')
        BY <1>0, <2>1, <3>1 DEF OwnInv, OwnNear, Own
      <4> QED
        BY <2>1, <4>1, NearFacts, MoveAssumption DEF Positions
    <3>3. pos \in Int \X Int /\ pos \in Spot /\ pos # NoPos
      BY <3>2, BodyFacts DEF Spot
    <3> DEFINE m == UpdatePlayer(pos)
    <3>4. m \in ToServerMsg /\ m.op = "UPDATE_PLAYER" /\ m.pos = pos
      BY <3>2, BodyFacts DEF ToServerMsg, UpdatePlayer
    <3>5. t' = t \o <<m>>
      BY <1>0, <2>3, <2>5, <3>1 DEF Sent, OwnInv, GameTypeOK
    <3> HIDE DEF m
    <3>6. t' = Append(t, m)
      BY <1>0, <3>4, <3>5, ConcatFacts
    <3>7. z \in {NoPos, Own(c)}
      BY <1>1, <2>1, <2>5 DEF Writes
    <3>8. Follows(z, SentSteps[m], pos)
      BY <2>3, <3>1, <3>3, <3>4, <3>7, Positioned DEF Follows
    <3>9. Path(t', SentSteps, y, pos)
      BY <1>0, <1>1, <3>3, <3>4, <3>6, <3>8, PathOn
    <3> QED
      BY <1>1, <2>1, <2>2, <3>1, <3>3, <3>9
  <2> QED
    BY <2>4, <2>5
<1>9. NoPos \in Spot /\ \A w \in Spot : Follows(w, NoPos, w) /\ \A v : Follows(w, NoPos, v) => v = w
  BY Positioned DEF Follows
(* Nothing to do with its steps, or its socket closes.                     *)
<1>10. ASSUME UNCHANGED q, ~\E dir \in Dirs : Move(c, dir), NEW z2 \in Spot, Path(t', SentSteps, y, z2),
              z2 = z \/ sock'[c] = "closed"
       PROVE  Next1(x, y, z2)
  <2>1. PuidOf[c] \in V => x = Place(c)'
    BY <1>2, <1>4, <1>10
  <2>2. sock'[c] = "closed" => ~Writes(c)' /\ client'[c] # "off"
    BY <1>6 DEF Writes
  <2> QED
    BY <1>1, <1>5, <1>6, <1>10, <2>1, <2>2
<1>11. CASE UNCHANGED q /\ UNCHANGED t /\ ~\E dir \in Dirs : Move(c, dir)
  BY <1>1, <1>7, <1>10, <1>11
<1>12. CASE UNCHANGED q /\ sock'[c] = "closed" /\ t' = <<>> /\ ~\E dir \in Dirs : Move(c, dir)
  BY <1>7, <1>10, <1>12, EmptyPath
<1>13. CASE UNCHANGED q /\ t # <<>> /\ Head(t) = Handshake /\ t' = Tail(t) /\ ~\E dir \in Dirs : Move(c, dir)
  <2>1. PICK w \in Spot : Follows(y, SentSteps[Head(t)], w) /\ Path(Tail(t), SentSteps, w, z)
    BY <1>0, <1>1, <1>13, PathOff
  <2>2. SentSteps[Head(t)] = NoPos
    BY <1>13, Positioned DEF ToServerMsg, Handshake
  <2>3. Path(t', SentSteps, y, z)
    BY <1>9, <1>13, <2>1, <2>2
  <2> QED
    BY <1>7, <1>10, <1>13, <2>3
(* The server reads its first message.                                     *)
<1>14. ASSUME t # <<>>, ~(\E dir \in Dirs : Move(c, dir)), (sock'[c] = "closed" /\ t' = <<>>) \/ t' = Tail(t),
              NEW m \in ReadMsg, q' = Append(q, m), m.conn = c,
              \/ m.id = "REGISTER" /\ Head(t) = Register
              \/ m.id = "GAME_MESSAGE" /\ Head(t) = m.body
       PROVE  \E y2, z2 \in Spot : Next1(x, y2, z2)
  <2>1. PICK w \in Spot : Follows(y, SentSteps[Head(t)], w) /\ Path(Tail(t), SentSteps, w, z)
    BY <1>0, <1>1, <1>14, PathOff
  <2>2. at[m] = SentSteps[Head(t)]
    <3>1. Head(t) \in ToServerMsg
      BY <1>0, <1>14, TailFacts
    <3>2. StepOf(c, m) <=> Head(t).op = "UPDATE_PLAYER"
      BY <1>14 DEF StepOf, Register
    <3>3. StepOf(c, m) => Head(t) = m.body
      BY <1>14 DEF StepOf
    <3> QED
      BY <1>14, <3>1, <3>2, <3>3, Positioned
  <2>3. Path(q', at, x, w)
    BY <1>0, <1>1, <1>14, <2>1, <2>2, PathOn
  <2>4. PuidOf[c] \in V => x = Place(c)'
    BY <1>2, <1>4, <1>14
  <2>5. CASE t' = Tail(t)
    BY <1>5, <1>6, <1>14, <2>1, <2>3, <2>4, <2>5
  <2>6. CASE sock'[c] = "closed" /\ t' = <<>>
    <3>1. ~Writes(c)' /\ client'[c] # "off" /\ Path(t', SentSteps, w, w)
      BY <1>6, <2>6, EmptyPath DEF Writes
    <3> QED
      BY <2>3, <2>4, <3>1
  <2> QED
    BY <1>14, <2>5, <2>6
(* It reads one of another client.                                         *)
<1>15. ASSUME UNCHANGED t, ~(\E dir \in Dirs : Move(c, dir)), NEW m \in ReadMsg, q' = Append(q, m), m.conn # c
       PROVE  Next1(x, y, z)
  <2>1. at[m] = NoPos
    BY <1>15, Positioned DEF StepOf
  <2>2. Path(q', at, x, y)
    BY <1>0, <1>1, <1>9, <1>15, <2>1, PathOn
  <2> QED
    BY <1>1, <1>2, <1>4, <1>5, <1>6, <1>15, <2>2
(* The client sends something else than a step.                            *)
<1>16. ASSUME NEW s \in Seq(ToServerMsg), NEW m \in ToServerMsg, m.op # "UPDATE_PLAYER", Path(s, SentSteps, y, z)
       PROVE  Path(Append(s, m), SentSteps, y, z)
  BY <1>9, <1>16, Positioned, PathOn
<1>17. CASE UNCHANGED q /\ t' = t \o <<Handshake>> /\ ~\E dir \in Dirs : Move(c, dir)
  <2>1. Handshake \in ToServerMsg /\ Handshake.op # "UPDATE_PLAYER" /\ t' = Append(t, Handshake)
    BY <1>0, <1>17, ConcatFacts DEF ToServerMsg, Handshake
  <2>2. Path(t', SentSteps, y, z)
    BY <1>0, <1>1, <1>16, <2>1
  <2> QED
    BY <1>7, <1>10, <1>17, <2>2
<1>18. CASE UNCHANGED q /\ t' = t \o <<Register, Info>> /\ ~\E dir \in Dirs : Move(c, dir)
  <2>1. /\ Register \in ToServerMsg /\ Register.op # "UPDATE_PLAYER"
        /\ Info \in ToServerMsg /\ Info.op # "UPDATE_PLAYER"
    BY BodyFacts DEF ToServerMsg, Register
  <2>2. t' = Append(Append(t, Register), Info) /\ Append(t, Register) \in Seq(ToServerMsg)
    BY <1>0, <1>18, <2>1, ConcatFacts, AppendFacts
  <2>3. Path(Append(t, Register), SentSteps, y, z)
    BY <1>0, <1>1, <1>16, <2>1
  <2>4. Path(t', SentSteps, y, z)
    BY <1>16, <2>1, <2>2, <2>3
  <2> QED
    BY <1>7, <1>10, <1>18, <2>4
(* The server handles the first message it has read.                       *)
<1>19. ASSUME UNCHANGED t, ~(\E dir \in Dirs : Move(c, dir)), q # <<>>, q' = Tail(q),
              ServerOnRegister \/ DropUnregistered \/ OnRegisterPlayer \/ OnUpdatePlayer
       PROVE  \E x2 \in Spot : Next1(x2, y, z)
  <2>1. PICK w \in Spot : Follows(x, at[Head(q)], w) /\ Path(Tail(q), at, w, y)
    BY <1>0, <1>1, <1>19, PathOff
  <2>2. Head(q) \in ReadMsg /\ Handled = Head(q)
    BY <1>0, <1>19, TailFacts DEF Handled
  <2>3. ASSUME PuidOf[c] \in V
        PROVE  w = Place(c)'
    <3>1. CASE OnUpdatePlayer /\ Handled.conn = c
      <4>1. StepOf(c, Head(q)) /\ places'[PuidOf[c]] = Handled.body.pos
        BY <3>1, StepTaken
      <4>2. at[Head(q)] = Handled.body.pos /\ Handled.body.pos # NoPos
        BY <2>2, <4>1, Positioned
      <4> QED
        BY <2>1, <4>1, <4>2 DEF Follows, Place
    <3>2. CASE ~(OnUpdatePlayer /\ Handled.conn = c)
      <4>1. x = Place(c)' /\ Registered(c, player_uids)
        BY <1>2, <2>3, <3>2
      <4>2. ~StepOf(c, Head(q))
        BY <1>19, <2>2, <3>2, <4>1 DEF StepOf, ServerOnRegister, OnRegister, Incoming, DropUnregistered, OnRegisterPlayer
      <4> QED
        BY <1>9, <2>1, <2>2, <4>1, <4>2, Positioned
    <3> QED
      BY <3>1, <3>2
  <2> QED
    BY <1>1, <1>5, <1>6, <1>19, <2>1, <2>3
<1> HIDE DEF Next1
<1>20. CASE ~\E dir \in Dirs : Move(c, dir)
  <2>1. ASSUME t # <<>>, (sock'[c] = "closed" /\ t' = <<>>) \/ t' = Tail(t), NEW m \in RegisterMsg \union GameMsg,
               q' = Append(q, m), m.conn = c,
               \/ m.id = "REGISTER" /\ Head(t) = Register
               \/ m.id = "GAME_MESSAGE" /\ Head(t) = m.body
        PROVE  \E x2, y2, z2 \in Spot : Next1(x2, y2, z2)
    <3>1. m \in ReadMsg
      BY DEF ReadMsg
    <3> QED
      BY <1>14, <1>20, <2>1, <3>1
  <2>2. ASSUME UNCHANGED t, NEW m \in RegisterMsg \union GameMsg, q' = Append(q, m), m.conn # c
        PROVE  \E x2, y2, z2 \in Spot : Next1(x2, y2, z2)
    <3>1. m \in ReadMsg
      BY DEF ReadMsg
    <3> QED
      BY <1>15, <1>20, <2>2, <3>1
  <2> QED
    BY <1>0, <1>7, <1>11, <1>12, <1>13, <1>17, <1>18, <1>19, <1>20, <2>1, <2>2, Outbox
<1> QED
  BY <1>7, <1>8, <1>20

(* A client that was told nothing of a player has nothing to follow.       *)
LEMMA UntoldIsNowhere ==
  ASSUME UniquePuids, ToldInv, NEW d \in Conn, NEW p \in PlayerUID, Alive(d), p # PuidOf[d], FollowedAreSeen,
         last[d][p] \in {"none", "CLIENT_CONNECTED"}
  PROVE  Anchor(d, p) = NoPos /\ Path(toClient[d], News(p), NoPos, NoPos)
<1>1. toClient[d] \in Seq(ToClientMsg)
  BY DEF ToldInv, SessionInv, OwnInv, GameTypeOK
<1>2. view[d][p] = NoPos /\ NoneWaits(d, p)
  BY DEF ToldInv, Deliveries, Delivery
<1>3. Anchor(d, p) = NoPos
  BY <1>2 DEF Anchor
<1>4. ASSUME NEW i \in 1..Len(toClient[d])
      PROVE  News(p)[toClient[d][i]] = NoPos
  <2>1. toClient[d][i] \in ToClientMsg /\ ~Moves(toClient[d][i], p)
    BY <1>1, <1>2 DEF NoneWaits, Tells, Moves
  <2> QED
    BY <2>1, Positioned
<1> QED
  BY <1>1, <1>3, <1>4, PathStays, Positioned

(* A queue that is heard from is neither as before nor longer.             *)
LEMMA TailIsShorter ==
  ASSUME NEW S, NEW s \in Seq(S), s # <<>>
  PROVE  Tail(s) # s /\ \A m \in S : Tail(s) # Append(s, m)
<1>1. PICK tail \in Seq(S) : tail = Tail(s)
  BY TailFacts
<1>2. Len(s) \in Nat /\ Len(tail) \in Nat /\ Len(tail) = Len(s) - 1
  BY <1>1, TailFacts
<1>3. tail # s
  BY <1>2
<1>4. ASSUME NEW m \in S
      PROVE  tail # Append(s, m)
  <2>1. Len(Append(s, m)) = Len(s) + 1
    BY AppendFacts
  <2> QED
    BY <1>2, <2>1
<1> QED
  BY <1>1, <1>3, <1>4

(* A step that is passed on to a client leads on from what it was told     *)
(* last, and what it handles is the first step from where it has the       *)
(* player.                                                                 *)
LEMMA NewsStep ==
  ASSUME UniquePuids, ToldInv, HandlingPlaced, FollowedAreSeen, NEW W, ChainInv(W),
         [GameNext]_allVars, NEW V, V = Steppers(W)
  PROVE  NewsChained(V)'
<1> SUFFICES ASSUME NEW d \in Conn, NEW p \in PlayerUID, Alive(d)', p # PuidOf[d]
             PROVE  \E z \in Spot : /\ Path(toClient'[d], News(p), Anchor(d, p)', z)
                                    /\ Told(d, p)' /\ z # NoPos => p \in V /\ Linked(z, p)'
  BY DEF NewsChained
<1> DEFINE s == toClient[d]
           at == News(p)
           Goal(x, z) == /\ Path(s', at, x, z) /\ x = Anchor(d, p)'
                         /\ Told(d, p)' /\ z # NoPos => p \in V /\ Linked(z, p)'
<1>0. /\ SessionInv /\ EngineInv /\ OwnInv /\ ToldInv' /\ StepsChained(W) /\ NewsChained(W) /\ Stepped(W)
      /\ s \in Seq(ToClientMsg) /\ last[d][p] \in MsgKind /\ followed \in [Conn -> SUBSET PlayerUID]
      /\ view[d][p] \in Spot
  <2>1. /\ SessionInv /\ EngineInv /\ OwnInv /\ ToldInv' /\ StepsChained(W) /\ NewsChained(W) /\ Stepped(W)
    BY ToldStep DEF ToldInv, SessionInv, ChainInv
  <2>2. s \in Seq(ToClientMsg) /\ view[d][p] \in Spot /\ followed \in [Conn -> SUBSET PlayerUID]
    BY <2>1 DEF OwnInv, GameTypeOK, Spot
  <2>3. last \in [Conn -> [PlayerUID -> MsgKind]]
    BY <2>1 DEF EngineInv, TypeOK
  <2> QED
    BY <2>1, <2>2, <2>3
<1>1. Anchor(d, p) \in Spot /\ NoPos \in Spot
  BY <1>0, Positioned DEF Anchor
<1>2. ASSUME NEW x \in Spot, NEW z \in Spot, Goal(x, z)
      PROVE  \E y \in Spot : /\ Path(toClient'[d], News(p), Anchor(d, p)', y)
                             /\ Told(d, p)' /\ y # NoPos => p \in V /\ Linked(y, p)'
  BY <1>2
(* A message for the client was handled, or whom it follows is as before.  *)
<1>3. CASE Launch(d) /\ s' = <<>> /\ view'[d][p] = NoPos /\ last'[d][p] = "none"
  <2>1. Anchor(d, p)' = NoPos
    BY <1>3 DEF Anchor
  <2>2. Goal(NoPos, NoPos)
    BY <1>1, <1>3, <2>1, EmptyPath
  <2> QED
    BY <1>1, <1>2, <2>2
<1> SUFFICES ASSUME Alive(d)
             PROVE  \E z \in Spot : /\ Path(toClient'[d], News(p), Anchor(d, p)', z)
                                    /\ Told(d, p)' /\ z # NoPos => p \in V /\ Linked(z, p)'
  BY <1>0, <1>3, Hears
<1>4. PICK z \in Spot :
        /\ Path(s, at, Anchor(d, p), z)
        /\ Told(d, p) /\ z # NoPos => p \in W /\ Linked(z, p)
        /\ last[d][p] \in {"none", "CLIENT_CONNECTED"} => z = NoPos
  <2>1. CASE last[d][p] \in {"none", "CLIENT_CONNECTED"}
    BY <1>1, <2>1, UntoldIsNowhere
  <2>2. CASE last[d][p] \notin {"none", "CLIENT_CONNECTED"}
    BY <1>0, <2>2 DEF NewsChained
  <2> QED
    BY <2>1, <2>2
<1>5. Told(d, p)' => /\ places'[p] # NoPos /\ last[d][p] # "CLIENT_DISCONNECTED" /\ IsConnected(d)
                     /\ last[d][p] \notin {"none", "CLIENT_CONNECTED"} => Told(d, p)
  <2>1. Told(d, p)' => places'[p] # NoPos
    BY <1>0 DEF ToldInv, SpokenOfIsPlaced, Told
  <2>2. Told(d, p)' => last[d][p] # "CLIENT_DISCONNECTED"
    BY <1>0, EngineStep DEF Told
  <2>3. Told(d, p)' => IsConnected(d)
    <3>1. ~Launch(d)
      BY DEF Launch, Alive
    <3> QED
      BY <1>0, <3>1, Connects DEF Told
  <2> QED
    BY <1>0, <2>1, <2>2, <2>3 DEF Told, MsgKind
(* What the client was told stays true, unless the handler passes on p's.  *)
<1>6. ASSUME Told(d, p)', z # NoPos, ~(Forward /\ AtStep(p))
      PROVE  p \in V /\ Linked(z, p)'
  <2>1. p \in W /\ Linked(z, p) /\ places'[p] # NoPos
    BY <1>4, <1>5, <1>6
  <2>2. p \in V
    BY <2>1 DEF Steppers
  <2> QED
    BY <1>0, <1>6, <2>1, <2>2, LinkedStays
<1>7. ASSUME ~HandlesMessage(d), UNCHANGED view[d][p]
      PROVE  Anchor(d, p)' = Anchor(d, p)
  <2>1. UNCHANGED followed[d]
    BY <1>0, <1>7, FollowedChange
  <2> QED
    BY <1>7, <2>1 DEF Anchor
<1>8. HandlesMessage(d) => s # <<>> /\ s' = Tail(s) /\ ~Forward
  <2>1. HandlesMessage(d) => s # <<>> /\ toClient' = [toClient EXCEPT ![d] = Tail(@)] /\ UNCHANGED vars
    BY <1>0, Heard
  <2>2. UNCHANGED vars => ~Forward
    BY DEF vars, mainVars, Forward, SendAll
  <2> QED
    BY <1>0, <2>1, <2>2 DEF OwnInv, GameTypeOK
<1>9. ASSUME NEW m \in ToClientMsg, s' = Append(s, m)
      PROVE  ~HandlesMessage(d) /\ Len(s') = Len(s) + 1 /\ Len(s) \in Nat /\ s'[Len(s) + 1] = m
  <2>1. Len(s') = Len(s) + 1 /\ Len(s) \in Nat /\ s'[Len(s) + 1] = m
    BY <1>0, <1>9, AppendFacts
  <2>2. s # <<>> => Tail(s) # Append(s, m)
    BY <1>0, <1>9, TailIsShorter
  <2>3. ~HandlesMessage(d)
    BY <1>8, <1>9, <2>2
  <2> QED
    BY <2>1, <2>3
<1>10. ASSUME Forward, AtStep(p)
       PROVE  /\ p = PuidOf[current] /\ About(p, handling) \in ToClientMsg /\ Moves(About(p, handling), p)
              /\ toClient' = Posted(Reached(current), About(p, handling))
  <2>1. p = PuidOf[current] /\ toClient' = Posted(Reached(current), About(p, handling))
    BY <1>0, <1>10, Addressee DEF Forward, AtStep
  <2>2. handling \in GameBody /\ handling.op = "UPDATE_PLAYER"
    BY <1>0, <1>10 DEF OwnInv, GameTypeOK, AtStep, Forward, SendAll
  <2>3. handling.pos \in Int \X Int
    BY <2>2, BodyFacts
  <2>4. About(p, handling) \in ToClientMsg /\ Moves(About(p, handling), p)
    BY <2>2, <2>3 DEF About, ToClientMsg, Moves, Concerns
  <2> QED
    BY <2>1, <2>4
<1>11. CASE UNCHANGED <<s, view[d][p], last[d][p]>>
  <2>1. ~HandlesMessage(d)
    <3>1. s # <<>> => Tail(s) # s
      BY <1>0, TailIsShorter
    <3>2. s' = s
      BY <1>11
    <3> QED
      BY <1>8, <3>1, <3>2, Zenon
  <2>2. ASSUME Told(d, p)', Forward, AtStep(p)
        PROVE  FALSE
    <3>1. d \in Reached(current)
      BY <1>0, <1>5, <1>10, <2>2 DEF EngineInv, StreamInv, InDeque, Reached
    <3>2. s' = Append(s, About(p, handling))
      BY <1>10, <2>2, <3>1 DEF Posted, Enqueue
    <3> QED
      BY <1>9, <1>10, <1>11, <2>2, <3>2
  <2>3. Goal(Anchor(d, p), z)
    BY <1>4, <1>6, <1>7, <1>11, <2>1, <2>2
  <2> QED
    BY <1>1, <1>2, <2>3
<1>12. CASE UNCHANGED <<s, view[d][p]>> /\ last'[d][p] = "CLIENT_CONNECTED"
  <2>1. ~HandlesMessage(d)
    <3>1. s # <<>> => Tail(s) # s
      BY <1>0, TailIsShorter
    <3>2. s' = s
      BY <1>12
    <3> QED
      BY <1>8, <3>1, <3>2, Zenon
  <2>2. Goal(Anchor(d, p), z)
    BY <1>4, <1>7, <1>12, <2>1 DEF Told
  <2> QED
    BY <1>1, <1>2, <2>2
(* A message that is no step of p.                                         *)
<1>13. ASSUME UNCHANGED view[d][p], NEW m \in ToClientMsg, s' = Append(s, m), ~Moves(m, p)
       PROVE  Goal(Anchor(d, p), z)
  <2>1. at[m] = NoPos
    BY <1>13, Positioned
  <2>2. Path(s', at, Anchor(d, p), z)
    BY <1>0, <1>1, <1>4, <1>13, <2>1, PathOn DEF Follows
  <2>3. ASSUME Told(d, p)', Forward, AtStep(p)
        PROVE  FALSE
    <3>1. s' \in {s, Append(s, About(p, handling))}
      BY <1>10, <2>3 DEF Posted, Enqueue
    <3>2. s' = Append(s, About(p, handling))
      BY <1>9, <1>13, <3>1
    <3> QED
      BY <1>9, <1>10, <1>13, <2>3, <3>2
  <2> QED
    BY <1>6, <1>7, <1>9, <1>13, <2>2, <2>3
(* A step of p, passed on.                                                 *)
<1>14. CASE /\ UNCHANGED view[d][p] /\ Forward /\ pc = "handler" /\ p = PuidOf[current]
            /\ s' = Append(s, About(p, handling)) /\ last'[d][p] = "GAME_MESSAGE"
  <2>1. handling \in GameBody /\ player_uids[current] = p
    BY <1>0, <1>14, Addressee DEF OwnInv, GameTypeOK
  <2>2. places[p] = handling.pos /\ handling.pos \in Int \X Int
    BY <1>14, <2>1, BodyFacts DEF HandlingPlaced
  <2>3. PICK m \in ToClientMsg :
          /\ m = About(p, handling) /\ m.pos = handling.pos
          /\ Moves(m, p) <=> handling.op = "UPDATE_PLAYER"
    <3> DEFINE news == About(p, handling)
    <3>1. news \in ToClientMsg /\ news.pos = handling.pos /\ (Moves(news, p) <=> handling.op = "UPDATE_PLAYER")
      BY <2>1, BodyFacts DEF About, ToClientMsg, Moves, Concerns
    <3> HIDE DEF news
    <3> QED
      BY <3>1 DEF news
  <2>4. CASE handling.op # "UPDATE_PLAYER"
    <3>1. Goal(Anchor(d, p), z)
      BY <1>13, <1>14, <2>3, <2>4
    <3> QED
      BY <1>1, <1>2, <3>1
  <2>5. CASE handling.op = "UPDATE_PLAYER"
    <3>1. AtStep(p) /\ ~AtStep(p)'
      <4>1. AtStep(p)
        BY <1>14, <2>1, <2>5 DEF AtStep
      <4>2. ~AtStep(p)'
        BY <1>0, <1>14, AtStepBy
      <4> QED
        BY <4>1, <4>2
    <3>2. IsConnected(d)
      <4>1. s' # s
        BY <1>9, <1>14, <2>3
      <4> QED
        BY <1>10, <1>14, <3>1, <4>1 DEF Posted, Reached
    <3>3. last[d][p] # "CLIENT_DISCONNECTED"
      BY <1>0, <1>14, EngineStep
    <3>4. z = NoPos \/ OneStep(z, places[p])
      <4>1. last[d][p] \in {"none", "CLIENT_CONNECTED"} \/ Told(d, p)
        BY <1>0, <3>2, <3>3 DEF Told, MsgKind
      <4> QED
        BY <1>4, <3>1, <4>1 DEF Linked
    <3>5. PICK pos \in Spot : pos = places[p] /\ pos # NoPos
      BY <2>2, Positioned
    <3>6. Follows(z, at[m], pos)
      BY <2>2, <2>3, <2>5, <3>4, <3>5, Positioned DEF Follows
    <3>7. Path(s', at, Anchor(d, p), pos)
      BY <1>0, <1>1, <1>4, <1>14, <2>3, <3>5, <3>6, PathOn
    <3>8. UNCHANGED places[p]
      BY <1>14 DEF Forward
    <3>9. p \in V
      <4>1. p \in W
        BY <1>0, <3>1 DEF Stepped
      <4> QED
        BY <3>5, <3>8, <4>1 DEF Steppers
    <3>10. Linked(pos, p)'
      BY <3>1, <3>5, <3>8 DEF Linked
    <3>11. Anchor(d, p)' = Anchor(d, p)
      BY <1>7, <1>9, <1>14, <2>3
    <3>12. Goal(Anchor(d, p), pos)
      BY <3>7, <3>9, <3>10, <3>11
    <3> QED
      BY <1>1, <1>2, <3>5, <3>12
  <2> QED
    BY <2>4, <2>5
(* The client handles the first message that waits for it.                 *)
<1>15. CASE HandlesMessage(d) /\ UNCHANGED last[d][p]
  <2>1. PICK m \in ToClientMsg : m = Head(s)
    BY <1>0, <1>15, <1>8, TailFacts
  <2>2. /\ ~Concerns(m, p) => view'[d][p] = view[d][p]
        /\ Concerns(m, p) => view'[d][p] = Seen(m, view[d][p])
        /\ ~Concerns(m, p) \/ m.op = "REGISTER_PLAYER" => (p \in followed'[d] <=> p \in followed[d])
        /\ Concerns(m, p) /\ m.op = "CLIENT_DISCONNECTED" => p \notin followed'[d]
        /\ Concerns(m, p) /\ m.op = "UPDATE_PLAYER" => p \in followed'[d]
        /\ m.op \in {"ACCEPT_CONNECTION", "CLIENT_DISCONNECTED", "REGISTER_PLAYER", "UPDATE_PLAYER"}
    BY <1>0, <1>15, <2>1, Heard, FollowedBy DEF ToClientMsg, Accept
  <2>3. PICK w \in Spot : Follows(Anchor(d, p), at[m], w) /\ Path(Tail(s), at, w, z)
    BY <1>0, <1>1, <1>4, <1>8, <1>15, <2>1, PathOff
  <2>4. CASE Concerns(m, p) /\ m.op = "CLIENT_DISCONNECTED"
    <3>1. Anchor(d, p)' = NoPos
      BY <2>2, <2>4 DEF Anchor
    <3>2. PICK y \in {NoPos, z} : Path(Tail(s), at, NoPos, y)
      <4>1. Tail(s) \in Seq(ToClientMsg)
        BY <1>0, <1>8, <1>15, TailFacts
      <4>2. PICK tail \in Seq(ToClientMsg), news \in {at} : tail = Tail(s) /\ news = at
        BY <4>1
      <4>3. Path(tail, news, w, z)
        BY <2>3, <4>2
      <4>4. \E y \in {NoPos, z} : Path(tail, news, NoPos, y)
        BY <4>3, PathForgets
      <4> QED
        BY <4>2, <4>4
    <3>3. y \in Spot /\ Goal(NoPos, y)
      BY <1>1, <1>6, <1>8, <1>15, <3>1, <3>2
    <3> QED
      BY <1>1, <1>2, <3>3
  <2>5. CASE Concerns(m, p) /\ m.op = "UPDATE_PLAYER"
    <3>1. at[m] = m.pos /\ m.pos # NoPos
      BY <2>5, Positioned DEF Moves
    <3>2. Anchor(d, p)' = m.pos /\ w = m.pos
      BY <2>2, <2>3, <2>5, <3>1 DEF Anchor, Seen, Follows
    <3>3. Goal(w, z)
      BY <1>6, <1>8, <1>15, <2>3, <3>2
    <3> QED
      BY <1>2, <3>3
  <2>6. CASE ~Concerns(m, p) \/ m.op = "REGISTER_PLAYER"
    <3>1. at[m] = NoPos
      BY <2>6, Positioned DEF Moves
    <3>2. w = Anchor(d, p)
      BY <2>3, <3>1 DEF Follows
    <3>3. Anchor(d, p)' = Anchor(d, p)
      <4>1. p \in followed[d] => view[d][p] # NoPos
        BY DEF FollowedAreSeen
      <4>2. p \in followed[d] => view'[d][p] = view[d][p]
        BY <2>2, <2>6, <4>1 DEF Seen
      <4> QED
        BY <2>2, <2>6, <4>2 DEF Anchor
    <3>4. Goal(w, z)
      BY <1>6, <1>8, <1>15, <2>3, <3>2, <3>3
    <3> QED
      BY <1>2, <3>4
  <2>7. m.op = "ACCEPT_CONNECTION" => ~Concerns(m, p)
    BY DEF Concerns
  <2> QED
    BY <2>2, <2>4, <2>5, <2>6, <2>7
<1> HIDE DEF Goal
<1>16. ASSUME UNCHANGED view[d][p], NEW m \in ToClientMsg, s' = Append(s, m), ~Moves(m, p)
       PROVE  \E y \in Spot : /\ Path(toClient'[d], News(p), Anchor(d, p)', y)
                              /\ Told(d, p)' /\ y # NoPos => p \in V /\ Linked(y, p)'
  BY <1>1, <1>2, <1>13, <1>16
<1>17. Disconnected(p) \in ToClientMsg /\ ~Moves(Disconnected(p), p) /\ \A m : ~Concerns(m, p) => ~Moves(m, p)
  BY DEF Disconnected, ToClientMsg, Moves
<1>18. CASE Reply(p) /\ p \in replies /\ UNCHANGED view[d][p] /\ s' = Append(s, About(p, RegisterPlayer(infos[p])))
  <2>1. infos[p] \in Int \X Int
    BY <1>0, <1>18 DEF OwnInv, GameTypeOK, RepliesNews
  <2> DEFINE m == About(p, RegisterPlayer(infos[p]))
  <2>2. m \in ToClientMsg /\ ~Moves(m, p)
    BY <2>1 DEF About, RegisterPlayer, ToClientMsg, Moves
  <2> HIDE DEF m
  <2> QED
    BY <1>16, <1>18, <2>2 DEF m
<1> QED
  BY <1>0, <1>11, <1>12, <1>14, <1>15, <1>16, <1>17, <1>18, Hears DEF Launch, Alive

(* Nobody has moved at the start.                                          *)
LEMMA OrderInit == GameInit => OrderInv
<1> SUFFICES ASSUME GameInit
             PROVE  OrderInv
  OBVIOUS
<1>1. /\ \A c \in Conn : ~Alive(c) /\ toServer[c] = <<>> /\ followed[c] = {} /\ sock[c] = "none"
      /\ qMessagesIn = <<>> /\ pc # "handler"
  BY DEF GameInit, Init, Alive, NoneSeen
<1>2. ASSUME NEW c \in Conn
      PROVE  Way(c, NoPos, NoPos, NoPos)
  BY <1>1, EmptyPath, Positioned DEF Way
<1>3. StepsChained({}) /\ NewsChained({}) /\ Stepped({})
  BY <1>1, <1>2, Positioned DEF StepsChained, NewsChained, Stepped, Writes, AtStep
<1> QED
  BY <1>1, <1>3, FollowInit DEF OrderInv, ChainInv, FollowedAreSeen, OffHasNoSocket

(* The invariant of the order is inductive.                                *)
LEMMA OrderStep ==
  ASSUME UniquePuids, OrderInv, [GameNext]_allVars
  PROVE  OrderInv'
<1>1. /\ ToldInv /\ EngineInv /\ OwnInv /\ SessionInv /\ HandlingPlaced /\ FollowInv
      /\ FollowedAreSeen /\ OffHasNoSocket
  BY DEF OrderInv, FollowInv, LastInv, ToldInv, SessionInv
<1>2. FollowInv' /\ SessionInv' /\ OwnInv' /\ HandlingPlaced'
  BY <1>1, FollowStep DEF FollowInv, LastInv, ToldInv, SessionInv
<1>3. FollowedAreSeen' /\ OffHasNoSocket'
  BY <1>1, <1>2, FollowedStep, OffStep
<1>4. PICK W \in SUBSET PlayerUID : ChainInv(W)
  BY DEF OrderInv
<1>5. PICK V \in SUBSET PlayerUID : V = Steppers(W)
  BY DEF Steppers
<1>6. StepsChained(V)' /\ NewsChained(V)' /\ Stepped(V)'
  BY <1>1, <1>2, <1>3, <1>4, <1>5, ChainedStep, NewsStep, SteppedStep DEF ChainInv
<1> QED
  BY <1>2, <1>3, <1>6 DEF OrderInv, ChainInv

(* Whoever sees a player take a step, and sees him after it, sees each     *)
(* step he takes from then on, and in the order in which he took them: no  *)
(* step is lost, repeated or overtaken between his keys and their screens, *)
(* whoever comes and goes.                                                 *)
THEOREM StepsInOrder == ASSUME UniquePuids PROVE GameSpec => StepsSeenInOrder
<1> DEFINE InSight ==
      \A c \in Conn : \A p \in followed[c] :
        view'[c][p] \notin {view[c][p], NoPos} => OneStep(view[c][p], view'[c][p])
<1>1. GameInit => OrderInv
  BY OrderInit
<1>2. OrderInv /\ [GameNext]_allVars => OrderInv'
  BY OrderStep
<1>3. OrderInv /\ OrderInv' /\ [GameNext]_allVars => [InSight]_view
  <2> SUFFICES ASSUME OrderInv, OrderInv', [GameNext]_allVars, NEW c \in Conn, NEW p \in followed[c],
                      view'[c][p] \notin {view[c][p], NoPos}
               PROVE  OneStep(view[c][p], view'[c][p])
    OBVIOUS
  <2>1. /\ SessionInv /\ OwnInv /\ OwnInv' /\ FollowedAreSeen
    BY DEF OrderInv, FollowInv, LastInv, ToldInv, SessionInv
  <2>2. p \in PlayerUID /\ toClient[c] \in Seq(ToClientMsg) /\ view[c][p] \in Spot
    <3>1. followed \in [Conn -> SUBSET PlayerUID]
      BY <2>1 DEF OwnInv, GameTypeOK
    <3> QED
      BY <2>1, <3>1 DEF OwnInv, GameTypeOK, Spot
  <2>3. p # PuidOf[c] /\ view[c][p] # NoPos
    BY <2>1 DEF FollowedAreSeen
  <2>4. Alive(c) /\ Alive(c)'
    BY <2>1, <2>2, <2>3 DEF OwnInv, DeadHoldsNothing, Nobody
  <2>5. HandlesMessage(c)
    <3>1. ~Launch(c)
      BY <2>4 DEF Launch, Alive
    <3> QED
      BY <2>1, <2>2, <2>3, <2>4, <3>1, Hears
  <2>6. PICK m \in ToClientMsg : m = Head(toClient[c])
    BY <2>1, <2>2, <2>5, Heard
  <2>7. /\ toClient[c] # <<>> /\ Concerns(m, p) /\ view'[c][p] = Seen(m, view[c][p])
    BY <2>1, <2>2, <2>5, <2>6, Heard
  <2>8. m.op = "UPDATE_PLAYER" /\ view'[c][p] = m.pos
    BY <2>3, <2>7 DEF Seen, ToClientMsg, Accept, Concerns
  <2>9. PICK z \in Spot : Path(toClient[c], News(p), view[c][p], z)
    BY <2>2, <2>3, <2>4 DEF OrderInv, ChainInv, NewsChained, Anchor
  <2>10. PICK w \in Spot : Follows(view[c][p], News(p)[m], w)
    BY <2>2, <2>6, <2>7, <2>9, PathOff
  <2>11. News(p)[m] = m.pos /\ m.pos # NoPos
    BY <2>7, <2>8, Positioned DEF Moves
  <2> QED
    BY <2>3, <2>8, <2>10, <2>11 DEF Follows
<1> QED
  BY <1>1, <1>2, <1>3, PTL DEF GameSpec, StepsSeenInOrder
=============================================================================
