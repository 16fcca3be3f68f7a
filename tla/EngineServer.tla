---------------------------- MODULE EngineServer ----------------------------
(***************************************************************************)
(* Engine::Server (engine/net/server.hpp) on top of the server half of     *)
(* olcPGEX_Network.h: server_interface and the server-owned connections.   *)
(*                                                                         *)
(* Two threads share the state.  The asio thread accepts sockets, checks   *)
(* the handshake, reads messages into m_qMessagesIn and closes sockets.    *)
(* The main thread runs Server::on_update once a frame: the loop over      *)
(* m_garbage_connections, then IServer::Update, which hands every queued   *)
(* message to OnMessage.  A game message starts a handler of the game      *)
(* layer, left open here: it may send to the sender and to everyone else.  *)
(*                                                                         *)
(* One call of MessageClient or MessageAllClients is one step.  The test   *)
(* MessageAllClients makes of each socket commutes with what the asio      *)
(* thread does to the other sockets, so running it over the whole deque at *)
(* once loses no outcome; between two calls of one handler the asio thread *)
(* may do anything.                                                        *)
(***************************************************************************)
EXTENDS Naturals, Sequences, FiniteSets

CONSTANTS Conn,       \* the server's connections, named by nIDCounter
          PlayerUID,  \* the non-zero player uids
          PuidOf,     \* the uid the client at the other end registers with
          GameBody,   \* the bodies of game messages
          NoUid,      \* the player uid 0
          NoConn,     \* no connection: an absent key
          NullConn,   \* an empty shared_ptr
          MaxGame,    \* bound: game messages read from all sockets
          MaxQueue    \* bound: messages waiting in m_qMessagesIn

ASSUME ConnAssumption == IsFiniteSet(Conn) /\ NoConn \notin Conn /\ NullConn \notin Conn
ASSUME NullAssumption == NoConn # NullConn
ASSUME PuidAssumption == PuidOf \in [Conn -> PlayerUID] /\ NoUid \notin PlayerUID
ASSUME BoundAssumption == MaxGame \in Nat /\ MaxQueue \in Nat

(* Two clients started in different seconds: their uids differ.            *)
UniquePuids == \A c, d \in Conn : PuidOf[c] = PuidOf[d] => c = d

VARIABLES
  sock,         \* the connection's m_socket and how far its handshake is
  regRead,      \* its REGISTER message was read from the socket
  gameRead,     \* how many game messages were read, from all sockets
  deqConnections,
  qMessagesIn,
  player_uids,  \* m_player_uids, NoUid for an absent key
  connections,  \* m_connections, NoConn for an absent key
  garbage,      \* m_garbage_connections
  gcPos,        \* the garbage loop: its iterator ...
  gcEnd,        \* ... its end, both evaluated when the loop starts ...
  gcStale,      \* ... and whether a push_back moved the vector since
  pc,           \* what the main thread does
  current,      \* the connection whose game message is being handled
  replies,      \* the players the handler has still to tell current about
  last          \* last[d][p]: the last message about p posted to d

asioVars == <<sock, regRead, gameRead>>
mainVars == <<player_uids, connections, garbage, gcPos, gcEnd, gcStale, pc, current, replies, last>>
vars == <<asioVars, deqConnections, qMessagesIn, mainVars>>

(* "shut" is a closed socket with a read that had completed before the     *)
(* close: its handler still runs.                                          *)
SockState == {"none", "handshake", "open", "shut", "closed"}
MsgKind == {"none", "CLIENT_CONNECTED", "GAME_MESSAGE", "CLIENT_DISCONNECTED"}
RegisterMsg == [conn : Conn, id : {"REGISTER"}, body : PlayerUID]
GameMsg == [conn : Conn, id : {"GAME_MESSAGE"}, body : GameBody]

TypeOK ==
  /\ sock \in [Conn -> SockState]
  /\ regRead \in [Conn -> BOOLEAN]
  /\ gameRead \in 0..MaxGame
  /\ deqConnections \in SUBSET Conn
  /\ qMessagesIn \in Seq(RegisterMsg \union GameMsg)
  /\ player_uids \in [Conn -> PlayerUID \union {NoUid}]
  /\ connections \in [PlayerUID -> Conn \union {NoConn, NullConn}]
  /\ garbage \in Seq(Conn)
  /\ gcPos \in Nat /\ gcPos >= 1 /\ gcEnd \in 0..Len(garbage) /\ gcStale \in BOOLEAN
  /\ pc \in {"frame", "gc", "drain", "handler", "crashed"}
  /\ current \in IF pc \in {"handler", "crashed"} THEN Conn ELSE {NoConn}
  /\ replies \in SUBSET PlayerUID
  /\ last \in [Conn -> [PlayerUID -> MsgKind]]

Init ==
  /\ sock = [c \in Conn |-> "none"]
  /\ regRead = [c \in Conn |-> FALSE]
  /\ gameRead = 0
  /\ deqConnections = {}
  /\ qMessagesIn = <<>>
  /\ player_uids = [c \in Conn |-> NoUid]
  /\ connections = [p \in PlayerUID |-> NoConn]
  /\ garbage = <<>> /\ gcPos = 1 /\ gcEnd = 0 /\ gcStale = FALSE
  /\ pc = "frame" /\ current = NoConn /\ replies = {}
  /\ last = [c \in Conn |-> [p \in PlayerUID |-> "none"]]

Running == pc # "crashed"
-----------------------------------------------------------------------------
(* The asio thread.                                                        *)

IsConnected(c) == sock[c] \in {"handshake", "open"}

(* No validation callback is ever set, so OnClientConnect lets all in.     *)
WaitForClientConnection(c) ==
  /\ Running /\ sock[c] = "none"
  /\ sock' = [sock EXCEPT ![c] = "handshake"]
  /\ deqConnections' = deqConnections \union {c}
  /\ UNCHANGED <<regRead, gameRead, qMessagesIn, mainVars>>

(* The client's answer to the handshake matches; ACCEPT_CONNECTION is      *)
(* posted and the first header is awaited.                                 *)
OnClientValidated(c) ==
  /\ Running /\ sock[c] = "handshake"
  /\ sock' = [sock EXCEPT ![c] = "open"]
  /\ UNCHANGED <<regRead, gameRead, deqConnections, qMessagesIn, mainVars>>

(* A wrong answer, a failed read or a failed write.  Nobody is told.       *)
SocketClose(c) ==
  /\ Running
  /\ \/ sock[c] \in {"handshake", "open"} /\ sock' = [sock EXCEPT ![c] = "closed"]
     \/ sock[c] = "open" /\ sock' = [sock EXCEPT ![c] = "shut"]
  /\ UNCHANGED <<regRead, gameRead, deqConnections, qMessagesIn, mainVars>>

(* After the last completed read the next one fails on the closed socket.  *)
AfterRead(c) == [sock EXCEPT ![c] = IF @ = "shut" THEN "closed" ELSE @]

AddToIncomingMessageQueue(c, msg) ==
  /\ Running /\ sock[c] \in {"open", "shut"} /\ Len(qMessagesIn) < MaxQueue
  /\ sock' = AfterRead(c)
  /\ qMessagesIn' = Append(qMessagesIn, msg)
  /\ UNCHANGED <<deqConnections, mainVars>>

(* A client registers once, when ACCEPT_CONNECTION reaches it.             *)
ReadRegister(c) ==
  /\ ~regRead[c]
  /\ regRead' = [regRead EXCEPT ![c] = TRUE]
  /\ AddToIncomingMessageQueue(c, [conn |-> c, id |-> "REGISTER", body |-> PuidOf[c]])
  /\ UNCHANGED gameRead

(* It may send game messages at any time, before it registers as well.     *)
ReadGame(c, body) ==
  /\ gameRead < MaxGame
  /\ gameRead' = gameRead + 1
  /\ AddToIncomingMessageQueue(c, [conn |-> c, id |-> "GAME_MESSAGE", body |-> body])
  /\ UNCHANGED regRead
-----------------------------------------------------------------------------
(* MessageClient, MessageAllClients and the callback both may make.        *)

Orders(S) == {s \in [1..Cardinality(S) -> S] :
                \A i, j \in 1..Cardinality(S) : s[i] = s[j] => i = j}

Registered(c, uids) == uids[c] # NoUid

(* Mutant: the test of the socket is inverted.                              *)
UnreachableInverted == {d \in deqConnections : IsConnected(d)}

Unreachable == {d \in deqConnections : ~IsConnected(d)}

Reached(ignore) == {d \in deqConnections : IsConnected(d) /\ d # ignore}

(* The deque holds the connections in the order of their arrival; which    *)
(* order OnClientDisconnect is called in is left open.  A push_back inside *)
(* the garbage loop does not extend the loop, but may move the vector.     *)
MessageAllClients(puid, kind, ignore, uids) ==
  /\ \E gone \in Orders({d \in Unreachable : Registered(d, uids)}) :
       /\ garbage' = garbage \o gone
       /\ gcStale' \in IF pc = "gc" /\ gone # <<>> THEN {gcStale, TRUE} ELSE {gcStale}
  /\ deqConnections' = deqConnections \ Unreachable
  /\ last' = [d \in Conn |-> [p \in PlayerUID |->
                IF d \in Reached(ignore) /\ p = puid THEN kind ELSE last[d][p]]]

(* The shared_ptr that is reset is the parameter, not the deque's: a dead  *)
(* connection stays in the deque.                                          *)
MessageClient(c, puid, kind) ==
  /\ garbage' = IF ~IsConnected(c) /\ Registered(c, player_uids) THEN Append(garbage, c) ELSE garbage
  /\ last' = IF IsConnected(c) THEN [last EXCEPT ![c][puid] = kind] ELSE last
  /\ UNCHANGED <<deqConnections, gcStale>>
-----------------------------------------------------------------------------
(* The main thread: Server::on_update.                                     *)

(* Mutant: the loop runs one past the end.                                  *)
LoopEndOneMore == Len(garbage) + 1

LoopEnd == Len(garbage)

BeginUpdate ==
  /\ pc = "frame"
  /\ pc' = IF garbage = <<>> THEN "drain" ELSE "gc"
  /\ gcPos' = 1 /\ gcEnd' = LoopEnd /\ gcStale' = FALSE
  /\ UNCHANGED <<asioVars, deqConnections, qMessagesIn, player_uids, connections, garbage, current, replies, last>>

(* What the loop reads: the next entry, or, once the vector has moved,     *)
(* whatever the freed memory holds, which is no registered connection.     *)
NextGarbage == {garbage[gcPos]} \union (IF gcStale THEN {NoConn} ELSE {})

(* Mutant: the uid is looked up after the entry was erased.                 *)
PuidOfErased(cid) == NoUid

(* Mutant: the entry of m_connections is not erased.                        *)
ConnectionsKept(puid) == connections

PuidOfGarbage(cid) == IF cid = NoConn THEN NoUid ELSE player_uids[cid]
UidsWithout(cid) == [c \in Conn |-> IF c = cid THEN NoUid ELSE player_uids[c]]
ConnectionsWithout(puid) == [p \in PlayerUID |-> IF p = puid THEN NoConn ELSE connections[p]]

(* One iteration.  A cid that is not in the table any more yields uid 0.   *)
Collect(cid) ==
  /\ pc = "gc" /\ gcPos <= gcEnd /\ cid \in NextGarbage
  /\ player_uids' = UidsWithout(cid)
  /\ connections' = ConnectionsWithout(PuidOfGarbage(cid))
  /\ MessageAllClients(PuidOfGarbage(cid), "CLIENT_DISCONNECTED", NoConn, UidsWithout(cid))
  /\ gcPos' = gcPos + 1
  /\ UNCHANGED <<asioVars, qMessagesIn, gcEnd, pc, current, replies>>

(* The loop is over: the vector is cleared, entries pushed meanwhile too.  *)
ClearGarbage ==
  /\ pc = "gc" /\ gcPos > gcEnd
  /\ garbage' = <<>> /\ gcPos' = 1 /\ gcEnd' = 0 /\ gcStale' = FALSE
  /\ pc' = "drain"
  /\ UNCHANGED <<asioVars, deqConnections, qMessagesIn, player_uids, connections, current, replies, last>>

Incoming(id) == pc = "drain" /\ qMessagesIn # <<>> /\ Head(qMessagesIn).id = id

(* Mutant: the entry of m_connections is not written.                       *)
ConnectionsUnwritten(puid, c) == connections

ConnectionsWith(puid, c) == [connections EXCEPT ![puid] = c]

OnRegister ==
  LET c == Head(qMessagesIn).conn
      puid == Head(qMessagesIn).body
      uids == [player_uids EXCEPT ![c] = puid]
  IN /\ Incoming("REGISTER")
     /\ qMessagesIn' = Tail(qMessagesIn)
     /\ IF Registered(c, player_uids)
        THEN UNCHANGED <<deqConnections, player_uids, connections, garbage, gcStale, last>>
        ELSE /\ player_uids' = uids
             /\ connections' = ConnectionsWith(puid, c)
             /\ MessageAllClients(puid, "CLIENT_CONNECTED", c, uids)
     /\ UNCHANGED <<asioVars, gcPos, gcEnd, pc, current, replies>>

DropUnregistered ==
  /\ Incoming("GAME_MESSAGE")
  /\ ~Registered(Head(qMessagesIn).conn, player_uids)
  /\ qMessagesIn' = Tail(qMessagesIn)
  /\ UNCHANGED <<asioVars, deqConnections, mainVars>>

(* The players the game layer can know of.                                 *)
(* Mutant: the game layer answers about players that left as well.          *)
EveryoneButSender(c) == PlayerUID \ {player_uids[c]}

OthersOf(c) == {player_uids[d] : d \in {d \in Conn : Registered(d, player_uids)}} \ {player_uids[c]}

(* ClientMessageEvent: the game layer will tell the sender about others.   *)
OnGameMessage(others) ==
  LET c == Head(qMessagesIn).conn
  IN /\ Incoming("GAME_MESSAGE")
     /\ Registered(c, player_uids)
     /\ qMessagesIn' = Tail(qMessagesIn)
     /\ pc' = "handler" /\ current' = c /\ replies' = others
     /\ UNCHANGED <<asioVars, deqConnections, player_uids, connections, garbage, gcPos, gcEnd, gcStale, last>>

Target == connections[player_uids[current]]

(* Server::send: the ASSERT stops the process, and so does OnClientDisconnect
   on an empty pointer.                                                    *)
Send(other) ==
  /\ pc = "handler" /\ other \in replies
  /\ IF Target \in {NoConn, NullConn}
     THEN pc' = "crashed" /\ UNCHANGED <<deqConnections, garbage, gcStale, last, replies>>
     ELSE /\ MessageClient(Target, other, "GAME_MESSAGE")
          /\ replies' = replies \ {other}
          /\ UNCHANGED pc
  /\ UNCHANGED <<asioVars, qMessagesIn, player_uids, connections, gcPos, gcEnd, current>>

(* m_connections[ignore_uid] inserts an empty pointer for an absent key.   *)
SendAllConnections == [connections EXCEPT ![player_uids[current]] = IF @ = NoConn THEN NullConn ELSE @]

SendAll ==
  /\ pc = "handler" /\ replies = {}
  /\ connections' = SendAllConnections
  /\ MessageAllClients(player_uids[current], "GAME_MESSAGE", Target, player_uids)
  /\ pc' = "drain" /\ current' = NoConn
  /\ UNCHANGED <<asioVars, qMessagesIn, player_uids, gcPos, gcEnd, replies>>

(* A message the game layer has nothing to say to.                         *)
IgnoreGameMessage ==
  /\ pc = "handler" /\ replies = {}
  /\ pc' = "drain" /\ current' = NoConn
  /\ UNCHANGED <<asioVars, deqConnections, qMessagesIn, player_uids, connections, garbage, gcPos, gcEnd, gcStale, replies, last>>

(* Mutant: Update may return before the queue is empty.                     *)
MayStopEarly == TRUE

Drained == qMessagesIn = <<>>

EndUpdate ==
  /\ pc = "drain" /\ Drained
  /\ pc' = "frame"
  /\ UNCHANGED <<asioVars, deqConnections, qMessagesIn, player_uids, connections, garbage, gcPos, gcEnd, gcStale, current, replies, last>>
-----------------------------------------------------------------------------
AsioThread ==
  \E c \in Conn :
    \/ WaitForClientConnection(c)
    \/ OnClientValidated(c)
    \/ SocketClose(c)
    \/ ReadRegister(c)
    \/ \E body \in GameBody : ReadGame(c, body)

MainThread ==
  \/ BeginUpdate
  \/ \E cid \in Conn \union {NoConn} : Collect(cid)
  \/ ClearGarbage
  \/ OnRegister
  \/ DropUnregistered
  \/ \E others \in SUBSET PlayerUID :
       OnGameMessage(others) /\ others \subseteq OthersOf(Head(qMessagesIn).conn)
  \/ \E other \in replies : Send(other)
  \/ SendAll
  \/ IgnoreGameMessage
  \/ EndUpdate

Next == AsioThread \/ MainThread

Spec == Init /\ [][Next]_vars
-----------------------------------------------------------------------------
(* The sender of the game message being handled is registered throughout.  *)
HandlesRegistered == pc \in {"handler", "crashed"} => Registered(current, player_uids)

(* m_player_uids and m_connections are inverse to each other: a uid leads  *)
(* to the connection registered with it, and back.                         *)
TablesAgree ==
  \A c \in Conn, p \in PlayerUID : player_uids[c] = p <=> connections[p] = c

(* Neither the ASSERT of Server::send nor an empty pointer ever stops the  *)
(* server, whatever the game layer answers and whenever sockets close.     *)
ServerStaysUp == pc # "crashed"

(* Only a connection whose socket is closed loses its registration.        *)
OnlyDeadDeregistered ==
  [][\A c \in Conn : Registered(c, player_uids) /\ ~Registered(c, player_uids')
        => ~IsConnected(c)]_vars

(* What a reachable client was last told of a player is "he left" as soon  *)
(* as the server has dropped that player: no client keeps him.             *)
DroppedIsDismissed ==
  \A c, d \in Conn :
    /\ IsConnected(d)
    /\ last[d][PuidOf[c]] \in {"CLIENT_CONNECTED", "GAME_MESSAGE"}
    => Registered(c, player_uids)

(* CLIENT_DISCONNECTED is the last word about a player: no connection is   *)
(* ever sent anything about him afterwards.                                *)
NothingAfterGoodbye ==
  [][\A d \in Conn, p \in PlayerUID :
        last[d][p] = "CLIENT_DISCONNECTED" => last'[d][p] = "CLIENT_DISCONNECTED"]_vars

(* A REGISTER message in the queue is honoured: its player is registered.  *)
RegisterPending(c) == \E i \in 1..Len(qMessagesIn) : qMessagesIn[i].conn = c /\ qMessagesIn[i].id = "REGISTER"

RegisterHonoured ==
  \A c \in Conn : RegisterPending(c) ~> Registered(c, player_uids)

(* "When a future attempt to write to this client fails due to the closed  *)
(* socket, it will be tidied up": a registered connection that closed is   *)
(* still where a later write will find it, or on its way to be collected.  *)
DeadWillBeTidied ==
  \A c \in Conn : Registered(c, player_uids) /\ ~IsConnected(c)
    => c \in deqConnections \/ \E i \in DOMAIN garbage : garbage[i] = c

(* "Container of active validated connections": no connection in the deque *)
(* is still in its handshake.                                              *)
DequeIsValidated == \A c \in deqConnections : sock[c] # "handshake"

(* "Then physically remove it from the container": a connection that       *)
(* Server::send finds dead is not in the deque afterwards.                 *)
SendRemovesDead ==
  [][\A other \in replies : Send(other) /\ Target \in Conn /\ ~IsConnected(Target)
        => Target \notin deqConnections']_vars

=============================================================================
