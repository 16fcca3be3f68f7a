------------------------------ MODULE Minicraft ------------------------------
(***************************************************************************)
(* A session of Minicraft Online: EngineServer with the game layer of the  *)
(* server (server_game_layer.cpp, base_game_layer.cpp) in place of its     *)
(* open handler, and the clients (client.hpp, client_game_layer.cpp) at    *)
(* the other end of its sockets.                                           *)
(*                                                                         *)
(* Each connection carries two FIFO channels.  toServer holds what the     *)
(* client has sent and the server has not read; toClient what the server   *)
(* has posted and the client's main thread has not handled.  A socket that *)
(* closes loses an end of either: the server stops reading, or the client  *)
(* stops, at any point.                                                    *)
(*                                                                         *)
(* CLIENT_CONNECTED only writes a line to the client's log and is not put  *)
(* into toClient.  The colours of a PlayerInfo are left out.               *)
(***************************************************************************)
EXTENDS EngineServer, Integers

CONSTANTS SPAWN_POS,  \* where the PlayerInfo of a new client places him
          Dirs,       \* the steps the keys may take (PLAYER_SPEED is 1)
          MaxMoves,   \* bound: steps of all clients together
          NoPos,      \* no player of that uid
          NoBody      \* no game message is being handled

(* Where n steps can lead, and so the positions a client can send.         *)
Near(n) == {<<SPAWN_POS[1] + i, SPAWN_POS[2] + j>> : i, j \in -n..n}
Positions == Near(MaxMoves)

RegisterPlayer(pos) == [op |-> "REGISTER_PLAYER", pos |-> pos]
UpdatePlayer(pos) == [op |-> "UPDATE_PLAYER", pos |-> pos]
Bodies == {RegisterPlayer(SPAWN_POS)} \union {UpdatePlayer(pos) : pos \in Positions}

ASSUME BodyAssumption == GameBody = Bodies /\ NoBody \notin GameBody
ASSUME MoveAssumption == MaxMoves \in Nat /\ Dirs \subseteq (-1..1) \X (-1..1)
ASSUME PosAssumption == SPAWN_POS \in Int \X Int /\ NoPos \notin Int \X Int

VARIABLES
  infos,     \* the server's m_player_infos: the position each info holds
  places,    \* the server's m_players: the position of each one's entity
  handling,  \* the game message the server's handler is at
  client,    \* the life of each client
  toServer,
  toClient,
  view,      \* view[c][p]: where client c has player p
  moves,     \* how many steps were taken
  synced,    \* the client's last step was taken after it had registered
  unmoved,   \* whose info the client was sent last, and no step came since
  followed   \* whose steps the client has seen since it knows them

(* The last three are history: the code keeps no such thing, no guard      *)
(* reads them, and they are there to say what the clients should see.      *)

gameVars == <<infos, places, handling>>
clientVars == <<client, toServer, toClient, view, moves, synced>>
seenVars == <<unmoved, followed>>
allVars == <<vars, gameVars, clientVars, seenVars>>

(* "connecting" until it answers the handshake, "answered" until           *)
(* ACCEPT_CONNECTION reaches it, then "joined"; "stopped" when it quits or *)
(* its socket closes, "crashed" when an ASSERT stops it.                   *)
ClientState == {"off", "connecting", "answered", "joined", "stopped", "crashed"}
Alive(c) == client[c] \in {"connecting", "answered", "joined"}

Handshake == [op |-> "HANDSHAKE"]
Register == [op |-> "REGISTER"]
Accept == [op |-> "ACCEPT_CONNECTION"]
Disconnected(puid) == [op |-> "CLIENT_DISCONNECTED", uid |-> puid]
About(puid, body) == [op |-> body.op, uid |-> puid, pos |-> body.pos]

ToServerMsg == {Handshake, Register} \union GameBody
ToClientMsg ==
  {Accept} \union [op : {"CLIENT_DISCONNECTED"}, uid : PlayerUID \union {NoUid}]
    \union [op : {"REGISTER_PLAYER", "UPDATE_PLAYER"}, uid : PlayerUID,
            pos : Int \X Int]

GameTypeOK ==
  /\ infos \in [PlayerUID -> (Int \X Int) \union {NoPos}]
  /\ places \in [PlayerUID -> Positions \union {NoPos}]
  /\ handling \in IF pc = "handler" THEN GameBody ELSE {NoBody}
  /\ client \in [Conn -> ClientState]
  /\ toServer \in [Conn -> Seq(ToServerMsg)]
  /\ toClient \in [Conn -> Seq(ToClientMsg)]
  /\ view \in [Conn -> [PlayerUID -> (Int \X Int) \union {NoPos}]]
  /\ moves \in 0..MaxMoves
  /\ synced \in [Conn -> BOOLEAN]
  /\ unmoved \in [Conn -> SUBSET PlayerUID] /\ followed \in [Conn -> SUBSET PlayerUID]

Nobody == [p \in PlayerUID |-> NoPos]
NoneSeen == [c \in Conn |-> {}]

GameInit ==
  /\ Init
  /\ infos = Nobody /\ places = Nobody /\ handling = NoBody
  /\ client = [c \in Conn |-> "off"]
  /\ toServer = [c \in Conn |-> <<>>] /\ toClient = [c \in Conn |-> <<>>]
  /\ view = [c \in Conn |-> Nobody]
  /\ moves = 0 /\ synced = [c \in Conn |-> TRUE]
  /\ unmoved = NoneSeen /\ followed = NoneSeen
-----------------------------------------------------------------------------
(* The channels.                                                           *)

(* Mutant: the message overtakes those that wait.                          *)
EnqueueInFront(queue, msg) == <<msg>> \o queue

Enqueue(queue, msg) == Append(queue, msg)

(* What the server posts to the connections D.                             *)
Posted(D, msg) ==
  [c \in Conn |-> IF c \in D /\ Alive(c) THEN Enqueue(toClient[c], msg) ELSE toClient[c]]

(* What a client sends: nothing arrives over a socket the server closed.   *)
Sent(c, msgs) ==
  [toServer EXCEPT ![c] = IF sock[c] \in {"shut", "closed"} THEN @ ELSE @ \o msgs]

(* The rest of a socket that no read will look at any more.                *)
Unread(queues) == [c \in Conn |-> IF sock'[c] = "closed" THEN <<>> ELSE queues[c]]
-----------------------------------------------------------------------------
(* m_players and m_player_infos: a table from uids to positions.           *)

(* Mutant: a player that is there is registered again, a new one is not.   *)
WithInverted(table, puid, pos) ==
  IF table[puid] # NoPos THEN [table EXCEPT ![puid] = pos] ELSE table

(* GameLayer::register_player: the first registration stands.              *)
With(table, puid, pos) ==
  IF table[puid] # NoPos THEN table ELSE [table EXCEPT ![puid] = pos]

(* GameLayer::deregister_player: an unknown uid is left alone.             *)
Without(table, puid) == [p \in PlayerUID |-> IF p = puid THEN NoPos ELSE table[p]]
-----------------------------------------------------------------------------
(* The server.                                                             *)

Validate(c) ==
  /\ toServer[c] # <<>> /\ Head(toServer[c]) = Handshake
  /\ OnClientValidated(c)
  /\ toServer' = [toServer EXCEPT ![c] = Tail(@)]
  /\ toClient' = Posted({c}, Accept)
  /\ UNCHANGED <<gameVars, seenVars, client, view, moves, synced>>

(* Whatever comes first instead of the answer is read as the answer.       *)
Reject(c) ==
  /\ sock[c] = "handshake" /\ toServer[c] # <<>> /\ Head(toServer[c]) # Handshake
  /\ SocketClose(c)
  /\ toServer' = Unread(toServer)
  /\ UNCHANGED <<gameVars, seenVars, client, toClient, view, moves, synced>>

Close(c) ==
  /\ SocketClose(c)
  /\ toServer' = Unread(toServer)
  /\ UNCHANGED <<gameVars, seenVars, client, toClient, view, moves, synced>>

Read(c) ==
  /\ toServer[c] # <<>>
  /\ \/ Head(toServer[c]) = Register /\ ReadRegister(c)
     \/ Head(toServer[c]) \in GameBody /\ ReadGame(c, Head(toServer[c]))
  /\ toServer' = Unread([toServer EXCEPT ![c] = Tail(@)])
  /\ UNCHANGED <<gameVars, seenVars, client, toClient, view, moves, synced>>

(* ClientDisconnectedEvent, then the broadcast.                            *)
CollectPlayer(cid) ==
  LET puid == PuidOfGarbage(cid)
  IN /\ Collect(cid)
     /\ infos' = Without(infos, puid) /\ places' = Without(places, puid)
     /\ toClient' = Posted(Reached(NoConn), Disconnected(puid))
     /\ UNCHANGED <<seenVars, handling, client, toServer, view, moves, synced>>

ServerOnRegister == OnRegister /\ UNCHANGED <<gameVars, clientVars, seenVars>>

(* Mutant: the newcomer is sent his own info too.                          *)
EveryInfo(table, puid) == {p \in PlayerUID : table[p] # NoPos}

(* Mutant: the newcomer is told of nobody.                                 *)
NoInfo(table, puid) == {}

OtherInfos(table, puid) == {p \in PlayerUID : table[p] # NoPos} \ {puid}

Handled == Head(qMessagesIn)

(* REGISTER_PLAYER: the uid in the info is the sender's own.               *)
OnRegisterPlayer ==
  LET puid == PuidOf[Handled.conn]
      known == With(infos, puid, Handled.body.pos)
  IN /\ OnGameMessage(OtherInfos(known, puid))
     /\ Handled.body.op = "REGISTER_PLAYER"
     /\ infos' = known
     /\ places' = With(places, puid, Handled.body.pos)
     /\ handling' = Handled.body
     /\ UNCHANGED <<clientVars, seenVars>>

(* info.x = x; info.x = y: y ends up in x.  An absent info is created.     *)
InfoAfter(info, pos) == <<pos[2], IF info = NoPos THEN 0 ELSE info[2]>>

(* Mutant: the coordinates are taken off the message in the wrong order.   *)
Swapped(pos) == <<pos[2], pos[1]>>

Unpacked(pos) == pos

(* UPDATE_PLAYER of a player without an entity hits the ASSERT of          *)
(* Entity::get: SenderHasEntity states that this does not happen.          *)
OnUpdatePlayer ==
  LET puid == player_uids[Handled.conn]
  IN /\ OnGameMessage({})
     /\ Handled.body.op = "UPDATE_PLAYER"
     /\ infos' = [infos EXCEPT ![puid] = InfoAfter(@, Unpacked(Handled.body.pos))]
     /\ places' = [places EXCEPT ![puid] = IF @ = NoPos THEN NoPos ELSE Unpacked(Handled.body.pos)]
     /\ handling' = Handled.body
     /\ unmoved' = [c \in Conn |-> unmoved[c] \ {puid}]
     /\ UNCHANGED <<clientVars, followed>>

(* Back to the sender: the info of another player.                         *)
Reply(other) ==
  /\ Send(other)
  /\ toClient' = Posted({c \in Conn : c = Target /\ IsConnected(c)},
                        About(other, RegisterPlayer(infos[other])))
  /\ unmoved' = [unmoved EXCEPT ![current] = @ \union {other}]
  /\ UNCHANGED <<gameVars, followed, client, toServer, view, moves, synced>>

(* Mutant: the handler's message is kept.                                  *)
HandlingKept == handling

HandlingDone == NoBody

(* On to the other clients: the same message with the sender's uid.        *)
Forward ==
  /\ SendAll
  /\ toClient' = Posted(Reached(Target), About(player_uids[current], handling))
  /\ handling' = HandlingDone
  /\ UNCHANGED <<seenVars, infos, places, client, toServer, view, moves, synced>>

ServerFrame ==
  /\ BeginUpdate \/ ClearGarbage \/ DropUnregistered \/ EndUpdate
  /\ UNCHANGED <<gameVars, clientVars, seenVars>>
-----------------------------------------------------------------------------
(* The clients.                                                            *)

(* on_attach: the connection, and the client's own player.                 *)
Launch(c) ==
  /\ client[c] = "off"
  /\ WaitForClientConnection(c)
  /\ client' = [client EXCEPT ![c] = "connecting"]
  /\ view' = [view EXCEPT ![c] = With(@, PuidOf[c], SPAWN_POS)]
  /\ UNCHANGED <<gameVars, seenVars, toServer, toClient, moves, synced>>

(* The asio thread solves the puzzle and sends the answer.                 *)
Answer(c) ==
  /\ client[c] = "connecting"
  /\ client' = [client EXCEPT ![c] = "answered"]
  /\ toServer' = Sent(c, <<Handshake>>)
  /\ UNCHANGED <<vars, gameVars, seenVars, toClient, view, moves, synced>>

(* A key is down: the client moves, connected or not.  It reads its own    *)
(* entity without a look whether it is there: OwnPlayerKept states it is.  *)
Move(c, dir) ==
  LET puid == PuidOf[c]
      pos == <<view[c][puid][1] + dir[1], view[c][puid][2] + dir[2]>>
  IN /\ Alive(c) /\ moves < MaxMoves
     /\ view[c][puid] # NoPos
     /\ view' = [view EXCEPT ![c][puid] = pos]
     /\ toServer' = Sent(c, <<UpdatePlayer(pos)>>)
     /\ moves' = moves + 1
     /\ synced' = [synced EXCEPT ![c] = (client[c] = "joined")]
     /\ UNCHANGED <<vars, gameVars, seenVars, client, toClient>>

(* A message at the head of the incoming queue, read after the handshake.  *)
Received(c, op) ==
  /\ client[c] \in {"answered", "joined"}
  /\ toClient[c] # <<>> /\ Head(toClient[c]).op = op

Handle(c) == toClient' = [toClient EXCEPT ![c] = Tail(@)]

(* Mutant: the player is announced before the client has registered.       *)
AnnouncedFirst == <<RegisterPlayer(SPAWN_POS), Register>>

(* REGISTER, then from on_connected_to_server the client's own info, which *)
(* its steps do not change.                                                *)
Introduction == <<Register, RegisterPlayer(SPAWN_POS)>>

OnAccept(c) ==
  /\ Received(c, "ACCEPT_CONNECTION") /\ Handle(c)
  /\ client' = [client EXCEPT ![c] = "joined"]
  /\ toServer' = Sent(c, Introduction)
  /\ UNCHANGED <<vars, gameVars, seenVars, view, moves, synced>>

(* Mutant: the client removes itself.                                      *)
SelfLeaves(c, puid) == PuidOf[c]

Leaver(c, puid) == puid

OnClientDisconnected(c) ==
  /\ Received(c, "CLIENT_DISCONNECTED") /\ Handle(c)
  /\ view' = [view EXCEPT ![c] = Without(@, Leaver(c, Head(toClient[c]).uid))]
  /\ followed' = [followed EXCEPT ![c] = @ \ {Head(toClient[c]).uid}]
  /\ UNCHANGED <<vars, gameVars, unmoved, client, toServer, moves, synced>>

OnServerRegister(c) ==
  /\ Received(c, "REGISTER_PLAYER") /\ Handle(c)
  /\ view' = [view EXCEPT ![c] = With(@, Head(toClient[c]).uid, Head(toClient[c]).pos)]
  /\ UNCHANGED <<vars, gameVars, seenVars, client, toServer, moves, synced>>

(* Mutant: only the y of the message is taken over.                        *)
StepInY(was, pos) == <<was[1], pos[2]>>

StepTo(was, pos) == pos

OnServerUpdate(c) ==
  LET msg == Head(toClient[c])
  IN /\ Received(c, "UPDATE_PLAYER") /\ Handle(c)
     /\ view[c][msg.uid] # NoPos
     /\ view' = [view EXCEPT ![c][msg.uid] = StepTo(@, msg.pos)]
     /\ followed' = [followed EXCEPT ![c] = @ \union {msg.uid}]
     /\ UNCHANGED <<vars, gameVars, unmoved, client, toServer, moves, synced>>

(* m_players[puid] is an empty Entity, whose get() fails its ASSERT.       *)
OnUnknownUpdate(c) ==
  /\ Received(c, "UPDATE_PLAYER")
  /\ view[c][Head(toClient[c]).uid] = NoPos
  /\ client' = [client EXCEPT ![c] = "crashed"]
  /\ toClient' = [toClient EXCEPT ![c] = <<>>]
  /\ view' = [view EXCEPT ![c] = Nobody]
  /\ followed' = [followed EXCEPT ![c] = {}]
  /\ UNCHANGED <<vars, gameVars, unmoved, toServer, moves, synced>>

(* The window is closed, or the socket is: no message is handled after.    *)
Stop(c) ==
  /\ Alive(c)
  /\ client' = [client EXCEPT ![c] = "stopped"]
  /\ toClient' = [toClient EXCEPT ![c] = <<>>]
  /\ view' = [view EXCEPT ![c] = Nobody]
  /\ followed' = [followed EXCEPT ![c] = {}]
  /\ UNCHANGED <<vars, gameVars, unmoved, toServer, moves, synced>>
-----------------------------------------------------------------------------
(* The asio thread of the server, but for the sockets that fail.           *)
Serve(c) == Validate(c) \/ Reject(c) \/ Read(c)

(* The server's main thread.                                               *)
ServerThread ==
  \/ ServerFrame
  \/ \E cid \in Conn \union {NoConn} : CollectPlayer(cid)
  \/ ServerOnRegister
  \/ OnRegisterPlayer
  \/ OnUpdatePlayer
  \/ \E other \in replies : Reply(other)
  \/ Forward

(* A client handles what reaches it.                                       *)
ClientHandles(c) ==
  \/ Answer(c)
  \/ OnAccept(c)
  \/ OnClientDisconnected(c)
  \/ OnServerRegister(c)
  \/ OnServerUpdate(c)
  \/ OnUnknownUpdate(c)

GameNext ==
  \/ ServerThread
  \/ \E c \in Conn :
       \/ Serve(c)
       \/ Close(c)
       \/ Launch(c)
       \/ ClientHandles(c)
       \/ \E dir \in Dirs : Move(c, dir)
       \/ Stop(c)

GameSpec == GameInit /\ [][GameNext]_allVars

(* The loops of all processes go on.  Nobody has to connect, to move, to   *)
(* stop or to fail, and nothing is assumed of who comes first: sockets and *)
(* clients are each fair as a whole.                                       *)
GameFairSpec ==
  /\ GameSpec
  /\ WF_allVars(ServerThread)
  /\ WF_allVars(\E c \in Conn : Serve(c))
  /\ WF_allVars(\E c \in Conn : ClientHandles(c))
-----------------------------------------------------------------------------
(* The game layer is a handler that EngineServer allows.                   *)
EngineSpec == Init /\ [][Next]_vars

(* Server::send_all and the handler find the entity of whoever sent an     *)
(* UPDATE_PLAYER: the ASSERT of Entity::get does not stop the server.      *)
SenderHasEntity ==
  pc = "handler" => places[player_uids[current]] # NoPos /\ infos[player_uids[current]] # NoPos

(* A client always has its own player, whom on_update moves: no message of *)
(* the server removes him.                                                 *)
OwnPlayerKept == \A c \in Conn : Alive(c) => view[c][PuidOf[c]] # NoPos

(* A client that is in and on the line.                                    *)
InGame(c) == client[c] = "joined" /\ sock[c] = "open"

(* All queues are empty and the server is between two frames.              *)
Quiet ==
  /\ pc = "frame" /\ garbage = <<>> /\ qMessagesIn = <<>>
  /\ \A c \in Conn : (Alive(c) => toClient[c] = <<>>) /\ (IsConnected(c) => toServer[c] = <<>>)

(* When everything sent was handled, every client in the game has exactly  *)
(* the players the server has, whoever came and went in between.           *)
RostersConverge ==
  Quiet => \A c \in Conn, p \in PlayerUID :
             InGame(c) => (view[c][p] # NoPos <=> places[p] # NoPos)

(* The server has then every client in the game, where he has himself,     *)
(* unless he moved before he had registered: his info says he spawned.     *)
ServerTracksMovers ==
  Quiet => \A c \in Conn :
             InGame(c) => places[PuidOf[c]] # NoPos
                          /\ (synced[c] => places[PuidOf[c]] = view[c][PuidOf[c]])

(* Every client in the game then has the others where the server has them. *)
(* One who came in after another had moved may have him where his info     *)
(* says instead, but only until the server handles his next step.          *)
ClientsFollow ==
  Quiet => \A c \in Conn, p \in PlayerUID :
             InGame(c) /\ p # PuidOf[c] =>
               \/ view[c][p] = places[p]
               \/ p \in unmoved[c] /\ view[c][p] = infos[p]

OneStep(from, to) == \E dir \in Dirs : to = <<from[1] + dir[1], from[2] + dir[2]>>

(* A client sees the steps of another player one by one and in the order   *)
(* he took them: each takes him one step on from where the one before had  *)
(* put him.  The first one that a client sees may come after steps that    *)
(* nobody was told of, or after a wrong info, and is left out.             *)
StepsSeenInOrder ==
  [][\A c \in Conn : \A p \in followed[c] :
       view'[c][p] \notin {view[c][p], NoPos} => OneStep(view[c][p], view'[c][p])]_view

(* Whoever connects gets in, unless he or his socket gives up first.       *)
Joins ==
  \A c \in Conn :
    client[c] = "connecting" ~>
      places[PuidOf[c]] # NoPos \/ ~Alive(c) \/ ~IsConnected(c)

(* Two clients in the game come to see each other, unless one of them      *)
(* leaves the game first.                                                  *)
Meet ==
  \A c, d \in Conn :
    InGame(c) /\ InGame(d) ~> view[d][PuidOf[c]] # NoPos \/ ~InGame(c) \/ ~InGame(d)

(* "Attempt to get component from entity in freed scene": no client stops  *)
(* at that ASSERT.                                                         *)
ClientStaysUp == \A c \in Conn : client[c] # "crashed"

(* "update info": a player's info has the position of his entity.          *)
InfoMatchesPosition == \A p \in PlayerUID : infos[p] = places[p]

=============================================================================
