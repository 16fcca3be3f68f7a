# Verification of Minicraft Online

TLA+ models of Minicraft Online, the runs that model-check them with TLC, and
theorems about them checked by TLAPS. Paths are relative to the repository;
`olc` stands for `src/engine/deps/olcnet/include/olcNetwork/olcPGEX_Network.h`.

## The system

A server and any number of clients are built from the same engine. Each process
runs two threads: the *main thread* loops over `Application::on_update` (layers
first, then the network device), and the *asio thread* runs the socket handlers.
They share the connections' sockets, the queue of incoming messages and, on the
server, the deque of connections.

| component | state | operations | talks to |
|---|---|---|---|
| engine server (`engine/net/server.hpp`) | `m_player_uids`, `m_connections`, `m_garbage_connections` | `on_update`, `OnMessage`, `OnClientDisconnect`, `send`, `send_all` | olc server by inheritance; the game layer by events, which calls `send`/`send_all` back from inside them |
| olc server and its connections (`olc`) | `m_deqConnections`, `m_qMessagesIn`, each connection's socket, handshake, outgoing queue | accept, handshake, read, write, `MessageClient`, `MessageAllClients`, `Update` | sockets |
| engine client (`engine/net/client.hpp`), olc client | uid, one connection, incoming queue | `connect_to_host`, `send`, `on_update` | the server by messages, the client's game layer by events |
| game layers (`base`, `server`, `client`) | `m_players` (entities with a position), `m_player_infos` | `register_player`, `deregister_player`, the handlers of network events, the keys | the network device, the scene |
| entity component system (`engine/ecs`) | slots with versions and masks, free list, component pools, ids of component types | `new_entity`, `destroy_entity`, `assign`, `remove`, `get`, views | the game layers and the systems that draw |
| tilemap (`components.hpp`, `tilemap_system.cpp`, `tiles.hpp`) | loaded chunks by key | `set_chunk`, `get_tile`, `generate_chunks`, `draw_chunk` | the renderer |
| sprite, animation and player systems | none of their own: they loop over views of the scene | `on_update` | the scene, the renderer |
| renderer (`renderer.cpp`), materials, textures, framebuffer | batch of vertices, active palette atlas, samplers and units, and what OpenGL has bound | `init`, `begin`, `draw_rect`, `flush`, `end`, `update_viewport_size`, `shutdown` | OpenGL |
| shader (`shader.cpp`) | a program of OpenGL | `load`, `use`, the setters | OpenGL, files |
| application, layers, window and its events | layer stack, running flag, network device, window, focus | construction, `run`, `on_update`, `on_event`, destruction | everything above |

What is hard: the two threads of the server; sockets that close between any two
steps and are noticed only when something is written to them; a vector that is
iterated while the loop's body pushes onto it; three FIFO channels in a row
between a client's key and another client's screen, with messages for players
the receiver may not know yet; handles to entities that were destroyed, and a
view that is iterated while its loop's body changes the scene; state that OpenGL
keeps from one call to the next; construction that fails half-way, and an order
of destruction that follows from the order of members. What is at stake at each of these lines is listed under `hazards` in `PROJECT.json`.

What makes each component correct:

* engine server: the two tables stay inverse; no reply is sent through an absent
  entry; only dead connections lose their player; everyone hears of a player who
  left, and nothing about him afterwards;
* session of clients and server: the server's two rosters agree, clients that
  are caught up see the players the server has, where it has them; no message
  arrives about a player the receiver does not know; who connects gets in;
* entity component system: a handle names one entity for ever; no slot is lost
  or has two owners; an operation on one entity leaves the others alone; a loop
  over a view gives each entity that matches throughout, once;
* game layer over its scene: entities and components are a table of players;
  only living entities are destroyed; nobody who left is drawn;
* tilemap: the tile read at a position is the tile set there; a frame covers
  every loaded chunk with the pieces its neighbours call for, the same each time;
* renderer: a frame shows its rectangles in their order, each through its own
  palette, letterboxed to the window;
* shader: no load leaves a shader or a program behind, and uniforms reach their
  own;
* application: whatever ends it, nothing is used after it is gone, everything
  made is released, and closing the window does end it.

## Modules

* `EngineServer` models the engine server and the server half of olc: state
  machine, properties, and the mutants used to test the properties.
* `MCEngineServer` gives its constants small values.
* `EngineServerProofs` proves theorems about it.
* `Minicraft` extends `EngineServer` with the game layers and the clients: the
  whole session, from a key of one client to the screen of another.
* `MCMinicraft` gives its constants small values.
* `MinicraftProofs` proves that `Minicraft` implements `EngineServer`, and the
  first invariants of `Minicraft`; `ViewProofs`, on top of it, proves the others.
* `Scene` is the entity component system as operators on a record; `SceneUse`
  uses a scene in any order, loops over views included; `EntityStore` is what it
  promises. `SceneFacts` proves what each method does to a scene, and
  `SceneProofs`, with that, the refinement and all properties of `SceneUse`.
* `GameScene` is the game layer of either side over its scene, with the sprite,
  animation and player systems; `PlayerTable` is what it promises.
* `Tilemap` is the tilemap with what a frame draws of it; `ChunkMap` is what it
  promises. `TilemapProofs` proves that, and all properties of `Tilemap` that the
  runs check.
* `Renderer` is the batch renderer over the state of OpenGL; `Picture` is what
  it promises.
* `Shader` is shader objects and OpenGL's programs.
* `Application` is the life of both programs.
* `MCEngine`, `MCTilemap` and `MCGame` give the constants of these small values.
* `EngineProofs`, over `MCEngine`, proves the properties of `Renderer` and
  `Shader` and, with `SceneProofs` and `TilemapProofs`, the types of all four.
  `GameProofs`, over `MCGame`, proves those of `GameScene`, from `SceneFacts`, and
  the safety of `Application`.

How they compose: `Minicraft` conjoins `EngineServer`'s actions with the game
layers'; it keeps the players as a table, and `GameScene` shows that entities and
components implement such a table. `Application` says when a layer's handlers
are called, which `GameScene` has as its guards: attached, then updated, then
messages and frames. The tilemap, the renderer and the shaders share no state
with the rest or with each other but OpenGL's, which every draw sets up anew;
that this is so is what `RefinesPicture` is about.

### EngineServer

The variables carry the code's names (`deqConnections`, `qMessagesIn`,
`player_uids`, `connections`, `garbage`). `sock` is a connection's socket and
the progress of its handshake; `shut` is a socket closed while a completed read
still waits to be handled. `gcPos`, `gcEnd` and `gcStale` are the iterator, the
end and the validity of the range-for over `m_garbage_connections`; `pc`,
`current` and `replies` say where the main thread is, and `last` remembers the
last message about each player posted to each connection.

| action | code |
|---|---|
| `WaitForClientConnection`, `OnClientValidated`, `SocketClose`, `ReadRegister`, `ReadGame` | the asio thread: accept, handshake, failed read or write, completed reads |
| `BeginUpdate`, `Collect`, `ClearGarbage` | `Server::on_update` around the garbage loop |
| `OnRegister`, `DropUnregistered`, `OnGameMessage` | `Server::OnMessage` for the message at the head of the queue |
| `Send`, `SendAll`, `IgnoreGameMessage` | what the game layer's handler may do: any replies to the sender, then a broadcast or nothing |
| `EndUpdate` | `Update` returns, the next frame begins |

One call of `MessageClient` or `MessageAllClients` is one step: the test of each
socket commutes with what the asio thread does to the others. Between two calls
the asio thread may do anything. `m_deqConnections` is shared without a lock;
the model makes the calls atomic, so the undefined behaviour of a concurrent
`push_back` is outside it. A range-for over a vector that has moved reads freed
memory: in the model it reads the entry or something that is no registered
connection's id (ids start at 10000, what reuses that memory are allocator
pointers and message bodies holding uids, which are times in seconds).
Messages with a malformed body only cause a log line and are left out, as are the
client's and server's log lines.

### Runs of MCEngineServer

| run | instance | shows |
|---|---|---|
| `EngineServerSafety` | 3 clients under symmetry, 1 game message, queue of 2 | the type invariant; the tables agree; the server stays up; only the dead are dropped; the dropped are dismissed, for good |
| `EngineServerCollision` | 3 clients, two share a uid | finds the ASSERT of `Server::send` violated |
| `EngineServerTidied` | 2 clients | finds a dead player whom nothing will tidy up: his REGISTER is handled after his connection left the deque |
| `EngineServerDeque` | 2 clients | finds an unvalidated connection in the deque |
| `EngineServerRemove` | 2 clients | finds that `MessageClient` leaves the dead connection in the deque |

Three clients are what the garbage loop needs: one being collected, one found
dead by that broadcast, one alive to be told. One game message is enough for a
handler whose replies and broadcast find sockets dead at each point, because
what it sends about whom is left open. `MaxGame` bounds the game messages read
in all, `MaxQueue` those waiting; a full queue only delays the reader.

### Minicraft

`EngineServer` leaves the handler of a game message open: any replies about
registered players, then a broadcast or nothing. `Minicraft` puts
`ServerGameLayer::on_client_message` there and models what is at the other end
of each socket. Its actions conjoin those of `EngineServer` with what the game
layer and the channels do in the same step.

`infos` and `places` are the server's `m_player_infos` (the position in each
info) and `m_players` (the position of each entity); `handling` is the message
the handler is at. `client[c]` is the life of a client, `view[c]` where it has
each player, `toServer[c]` and `toClient[c]` its two channels: sent and not yet
read, posted and not yet handled by the client's main thread. Two variables are
history, read by no guard: `unmoved[c]` are the players whose info was sent to
`c` and of whom the server has handled no step since, `followed[c]` those of whom
the client has seen a step since it knows them. TCP keeps each channel in
order; a lost socket is the server closing its end (`Close`) or the client
stopping (`Stop`), at any moment, with whatever is in the channel.

| action | code |
|---|---|
| `Launch`, `Answer`, `OnAccept` | `ClientGameLayer::on_attach`, the handshake of the client, `ACCEPT_CONNECTION` with `on_connected_to_server` |
| `Move` | the keys in `ClientGameLayer::on_update` |
| `OnClientDisconnected`, `OnServerRegister`, `OnServerUpdate`, `OnUnknownUpdate` | the client's handlers |
| `Validate`, `Reject`, `Read`, `Close` | the server's asio thread on this channel |
| `CollectPlayer`, `ServerOnRegister`, `OnRegisterPlayer`, `OnUpdatePlayer`, `Reply`, `Forward`, `ServerFrame` | the server's frame with the game layer's handlers |

A client that quits and one whose socket closes are one case: neither handles
another message or is heard again. `CLIENT_CONNECTED` only makes a client log a
line and is not put into its channel.

| run | instance | shows |
|---|---|---|
| `MinicraftSafety` | 2 clients under symmetry, 2 steps | the type invariant; the server finds the sender's entity; no client loses its own player; when all queues are empty, rosters and positions agree; steps are seen one by one and in order; every behaviour is one of `EngineServer` |
| `MinicraftLive` | 2 clients, no steps, queue of 3, fair | who connects gets in, or is closed; two clients in the game come to see each other; each queued REGISTER is honoured |
| `MinicraftUnknown` | 2 clients, 1 step | finds a client stopped by an `UPDATE_PLAYER` of a player it does not know |
| `MinicraftInfo` | 2 clients, 1 step | finds an info that does not have the player's position |

Two clients are a mover and a watcher, either of which may come late, leave or
fail. Two steps are what an overtaking needs. `MaxGame` is above the number of
messages the clients can send (one introduction each and the steps), so it never
stops a read. The instance uses the program's spawn point and the step to the
right; a step is one unit, as `PLAYER_SPEED` is 1.

What the properties allow says what the code does not do: `ServerTracksMovers`
excepts a client that moved before it had registered, because those steps are
dropped and its introduction says the spawn point. `ClientsFollow` allows the
position in the info, because that is what a newcomer is sent, wrong as it may be,
but only until the server handles the player's next step (`unmoved`).
`StepsSeenInOrder` is about the steps a client sees after the first: each must lead
on from where the one before had put the player, so none may be lost, doubled or
overtaken. The first step a client sees is left out, since steps taken before it
registered, or an info that is wrong, may lie between.

In `MinicraftLive` nobody moves: steps only add messages that the receivers
handle or drop without answering, and the channels behind them are FIFO.

Fairness: the server's main loop, the asio thread's completed handshakes and
reads, and the clients' loops go on (`ServerThread`, `Serve`, `ClientHandles`).
`Application::run` calls `on_update` in a loop that nothing blocks.
Each of the last two is fair as a whole, which is less than the code gives: one
thread serves all sockets. Nobody has to launch, move, stop or fail.

### Scene and SceneUse

A handle is `<<index, version>>`. Each method of `Scene` is an operator on the
record of the slots, the free list, the pools and the ids of the component types;
each action of `SceneUse` is one call, from anywhere or from the body of the loop
that is under way (`loop`: where it is, the end it saw when it began). A write
past a vector's or a pool's end is undefined behaviour and ends the behaviour:
`overrun` says which it was. As in the game, an entity is destroyed once, and
its handle is not used afterwards except by `remove_component`, which is the one
operation that compares it with the slot: a second `destroy_entity` would put
the slot on the free list twice. `GameScene`'s `DestroysLive` shows that the game
keeps to this.

`contents[h]` of `EntityStore` are the components of a living entity, read
through the masks and the pools (`Contents`); slots, versions and pools are gone.

### GameScene

`Attach`, `Update`, `RegisterPlayer`, `DeregisterPlayer`, `MovePlayer` and
`DrawFrame` are `on_attach`, `on_update`, the two functions of that name, the key
or the message that moves somebody, and `on_draw`, for a client (`own` is its
uid) or the server. A loop over a view whose body changes no entity is one step.
That a client never deregisters itself is `Minicraft`'s `OwnPlayerKept`. The
table of `PlayerTable` is read from the players' components, and its picture
counts the sprites drawn by place and palette.

Fairness: the application updates and draws over and over (`GameSceneFairness`).
The condition under which either is enabled is written out, as TLC takes long to
compute it.

### Tilemap

`SetChunkAt` and `GenerateChunks` change the map, `DrawChunks` is a frame: the
chunks in any order, as a hash map gives them, each tile as four quadrants whose
pieces depend on the neighbours, with `randomi()` any function of the seed and
the number of calls. Integers keep their widths as constants: `unsigned int`
where tiles are looked up, `unsigned short` for chunks, `unsigned char` within
one. The wall layer is never drawn and is left out.

### Renderer

`gl` is what OpenGL keeps between calls: the program, framebuffer, vertex array,
buffer, active unit, the textures of the units, the units of the samplers. The
actions are the renderer's methods and, between frames, the loading of a texture
and the resizing of the window. What a draw call shows is computed from what is
bound when it is made, so that a binding the code forgets shows in the picture.
Vertices and texture coordinates are not computed: a rectangle is one value.
`Picture` has the frame's rectangles drawn at once; the batch still pending
counts as drawn (`Pending`).

### Shader

Objects load, reload, use and delete programs. A load goes step by step
(`StartLoad`, `VertexCompiles`, `Link`, `FinishLoad`, and the two ways out
`VertexFails` and `FragmentFails`), each with the shaders it creates or
deletes; `loose` are the kinds of shaders that nobody has deleted and no program has, and a
program's `kept` those attached to it and not deleted, which would outlive it.
OpenGL gives out any free name and keeps a program deleted while in use
(`doomed`). A file may be missing (an empty source, of which the driver may say
what it likes), broken or good, and two good ones may not link. That the setters
are called right after `use()`, as all callers do, is the guard of `Set` and not a
result.

### Application

`at` is the place of the main thread, from the window through the loop's phases
to the destruction of the members and of the static objects. Every step of the
construction can fail in the ways the code has: an assertion stops the program,
an exception unwinds what is there, a layer may throw in `on_attach` or out of
the loop. The user may resize, press and close at any moment; keys and mouse are
one kind of event (`input`), and the focus is polled, not queued. A layer may handle
an event or not. The size of the window is that of its framebuffer, and an ASSERT
inside a layer's frame, which `Minicraft` has, is not one of the endings here. Fairness: the main thread goes on; the user need not.

### Runs of MCEngine, MCGame and MCTilemap

Parts that share no state are explored in one run each by itself: the initial
state chooses the part and the others stay at rest, so that the state space is
the sum and not the product. The parts' type invariants are one property
each (`EngineTypeOK`, `GameTypesOK`).

| run | instance | shows |
|---|---|---|
| `EngineParts`, scene's contents | up to 4 entities, pools of 2, 2 component types, 2 values | the store of entities is implemented; slots are accounted for and suffice (`SlotsSound`); others are untouched |
| `EngineParts`, scene's loops | up to 3 entities, views over no type, one and two | views are complete and give nobody twice |
| `EngineParts`, tilemap | up to 4 chunks of 2 by 2 tiles at the corner of a world 8 chunks wide, 3 floors and grass | lookups and borders right, frames cover the map (`TilemapRight`) and do not flicker, the map of chunks is implemented |
| `EngineParts`, renderer | 2 atlases or none, 2 cameras, frames of up to 3 rectangles, 2 shapes of window | the picture is that without batches, letterboxed |
| `EngineParts`, shader | 2 objects, 3 names, 2 sources, 2 uniforms | no shader or program is left behind (`NothingLeaks`), uniforms arrive |
| `GameParts`, players | 3 uids, 2 places, 2 palettes, 4 entities in all, client and server | the table of players is implemented, only the living are destroyed, no ghosts and each sprite in its own step (`PlayersInStep`) |
| `GameParts`, clock | 2 players, frames of 1 to 3 ticks of which a frame of the animation takes more than 2 | the animation never stops |
| `GameParts`, application | both programs, 2 layers, 3 events of the user | context, order of destruction, release; resize, focus and close are heard (`UserHeard`) |
| `TilemapKeys` | the program's numbers: chunks of 16 by 16, 16-bit coordinates | finds two chunks under one key |

Why these are enough: pools of two slots with four entities make slots change
hands and overflow; two atlases and three rectangles are what a flush in the
middle of a frame and a return to the first atlas need; three names are two owned
and one doomed, so that a load is given the one it has just freed; a corner of the
world has both kinds of edge, the loaded and the wrapped. `MaxCreate`, `MaxDraws` and
`MaxEvents` bound entities, rectangles of a frame and the user's actions;
`VERSIONS` is larger than a slot can reach, so that a version never wraps (after
2^32 uses of a slot it would). Names, palettes and places are not symmetric
sets because liveness is checked, or because the states are few.

## Proofs

`EngineServerProofs` proves, for every set of connections and uids and every
bound, by layers of inductive invariants:

* `TypeInv`: `TypeOK`, and the sender of the message being handled is
  registered. Needed first: every other layer reads the tables at `current`.
* `TableInv`, for distinct uids: a connection registers with its own uid or not
  at all, and a uid leads to its connection exactly then. Hence `TablesAgree`
  and `ServerStaysUp`.
* `SocketInv`: whatever is in the garbage list is closed, and a closed socket
  stays closed. Hence `OnlyDeadDeregistered`, without any assumption on uids.
* `QueueInv`, `StreamInv`: a REGISTER is read once per connection, so a
  connection is registered at most once in its life; what was posted about a
  player follows his life: nothing, then something, then his goodbye. Hence
  `DroppedIsDismissed` and `NothingAfterGoodbye`.

Distinct uids are an assumption of those theorems (`UniquePuids`), and
`EngineServerCollision` shows that they need it.

`MinicraftProofs` proves `Implements`: `GameSpec => EngineSpec`, for any number
of clients and whether or not uids differ. All actions but two are actions of
`EngineServer` by definition; `OnRegisterPlayer` is one only if the players it
answers about are registered and are not the sender. That is `RosterInv`: an
info exists only for a uid some connection is registered with
(`KnownRegistered`), and a connection registers under the uid its client signs
with (`OwnUids`). `GameServerStaysUp` then hands three of the engine's theorems
to the game server.

The second part of `MinicraftProofs` and `ViewProofs` prove every safety property
of `Minicraft` that the runs check and find true, for any number of clients with distinct uids,
any number of steps and any bounds of the queues. None of the invariants is
inductive: each speaks of a moment at which something is settled, and the proof
has to say what is under way at every other moment. The layers, each using those
before it:

* `EngineInv`: the engine's layers above. A step of the game is a step of the
  engine (`EngineStep`), so they are not proved again.
* `OwnInv`: types; nobody is told of himself (`NotToldOfSelf`), as the server
  broadcasts to others and replies about others; a client that is off or gone
  holds nothing. Hence `SessionTypes` and `OwnPlayers`.
* `PlayerInv`: a client's REGISTER and its info leave together, stay in order
  through channel and queue, and are lost together when the socket closes. So
  the first message the server reads of a registered client it has no player for
  is his info (`IntroInv`), even if the connection closed meanwhile and messages
  of a client that is no longer there are still in the queue. Hence
  `SendersHaveEntities`.
* `ToldInv`: `last[c][p]`, the last word posted to connection `c` about player
  `p`, says what `c` has of `p` once it handled what waits (`Deliveries`); two
  players were told of each other, or the server is at the handler that will
  tell them (`MutuallyTold`); nobody is spoken of who is not placed. Hence
  `RostersAgree`.
* `LastInv`: the last message of a client on its way to the server, wherever it
  is, says where the client has itself (`LastWords`); an info is sent once
  (`AnnouncedOnce`), because a client is accepted once (`AcceptedOnce`). Hence
  `MoversTracked`.
* `FollowInv`: among the messages that wait for `c`, the last `UPDATE_PLAYER`
  about `p`, or the first `REGISTER_PLAYER` if there is none and `c` does not
  have `p` yet, has the server's position of `p`, or that of the info while `p`
  has not moved since `c` was told of it, unless the server is about to send
  `p`'s new one (`ViewsCurrent`). Hence `ViewsFollow`. It is the first
  `REGISTER_PLAYER` because the client ignores a second one.
* `OrderInv`: the steps of a client lead on, one by one, all along their way: from
  where the server has the client, once it has handled a step of it, through the
  server's queue and the client's channel, to where the client has itself
  (`StepsChained`); and what was posted
  about `p` leads from where a client that has seen a step of `p` has him to where
  the server has him, or to one step before it while the server is at the handler
  that will send that step (`NewsChained`, `Stepped`). A way is described by the
  positions along it (`Path`), where what is not a step leaves the position as it
  is; adding at the end, taking from the front and forgetting the rest are lemmas
  about paths (`PathOn`, `PathOff`, `PathStays`, `PathForgets`). The infos sent to
  newcomers, which are wrong (`MinicraftInfo`), are no part of a way: a client takes
  one only of a player it does not know, and so has seen no step of
  (`FollowedAreSeen`). Hence `StepsInOrder`, the action property
  `StepsSeenInOrder`, for steps in all directions.

Assumed of the constants there, besides `UniquePuids`: a step is at most one
unit in each direction, as `PLAYER_SPEED` is 1; the spawn point is a pair of
integers; `NoPos` is not a position; the game messages are those of `Bodies`.

`SceneProofs` proves every property of `SceneUse` that the runs check, the
refinement of `EntityStore` included, for any components, values and views and
any number of entities below the number of versions (2^32 in the program: with
more, a version comes again and a handle may name two entities). `SceneFacts`
has what each method does to a well-formed scene (`SceneOK`), as lemmas about the
operators of `Scene`. Then three invariants, each on top of the one before:

* `UseInv`: the slot of a handle whose entity is gone has a higher version than
  the handle, and that of a living one has the handle itself (`HandleInv`); a slot
  without an entity is empty and on the free list (`SlotInv`), once (`FreeInv`); a
  slot's version and the living entities together are at most the entities
  created, which is why versions do not wrap. Hence `SlotsAreSound`.
* `LoopInv`: an entity that has matched since a loop began is either at a slot the
  loop has yet to reach, before the end it saw when it began, or was given to the
  body (`Passed`). The iterator stops at the first slot that matches, for which
  `First` takes the least of a set of numbers from the library's well-founded
  minimum. Hence `ViewsComplete` and `TurnsAreNew`.
* `PoolInv`: a component that the mask tells has its content in the pool. An
  operation leaves the slots and the contents of all entities but its own
  (`Untouched`). Hence `OthersStay`, and step by step `SceneIsStore`.

`GameProofs` proves `DestroysAreSound`, `PoolsSuffice` and `PlayersAreShown`
for a client and for a server, any places, palettes and lengths of frames, and
any finite set of uids smaller than a pool (`GameAssumption`; `MAX_ENTITIES` is
100000 in the program, and with more players than that at once a pool would
overrun). The versions may be any number, one included: the game never looks at a
version, so the wrap that `SceneProofs` excludes cannot hurt it. The invariant
`GameInv` has these parts:

* `Holding`: the scene holds exactly the entities of a set, here those of the
  tilemap and of the players (`Entities`), each in the slot its handle tells; all
  other slots are empty, and on the free list, once.
* `Peopled`: a new slot is made only when none is free, so there are never more
  slots than uids and one (`NoneFree`, `RoomForOne`, by counting): the pools
  suffice. On a client the sprite of every player is at the frame of his animator
  (`InStep`). A change at one entity (`Within`) leaves the others in step, a tick
  of the animation keeps every one of them so (`TickKeeps`).
* `IdsInv`: the list of pools grows by one per component, so each type must be
  at most one ahead of it when a component of it is made. On a client all six
  types have a pool once the layer is attached, before any view names one. On a
  server the first update names `Player` while there is no player, and `Player`
  is then the next type to get a pool (`Ready`).

A player whom the client has already is not registered again, and nobody but a
player of the table is deregistered: that is what keeps `destroy_entity`, which
compares no version, from freeing a slot twice.

With `GameInv`, `PlayersAreTable` shows that the scene implements `PlayerTable`.
A frame draws each entity of the view once and in its slot (`Visited`), so what
is drawn is the table if each player's components say what the table has of him
(`Looks`): his place, and on a client his palette and the frame of his animator.

`TilemapProofs` proves every property of `Tilemap` that the runs check, for any
size of chunks and any widths of the three unsigned types that divide each other
as the program's do. All need that keys are apart (`KeysApart`): no chunk the
callers can name has the key of another or of one next to it, around the edge of
the world included. In the program that is so because it names one chunk only, at
0, 0; `TilemapKeys` shows what happens if it named others. `MCEngine` states
`KeysApart` as an assumption of the run's coordinates, where TLC evaluates it.

* `TilemapInv`: each chunk lies under the key of its own coordinates and those
  are of the area (`TilemapTyped`); a picture, if there is one, is the frame of
  the chunks that are loaded.
* The truncations of `get_tile` (`Truncations`) are arithmetic of quotients and
  remainders: a position of the plane, modulo the width of an unsigned int, is
  in the chunk of the position, modulo that of an unsigned short, at the place
  the position has in it. Hence `ChunksFound`, which has the neighbours beyond
  the edges too, and with it `TilemapImplementsChunkMap`.
* What a frame draws is defined chunk after chunk in the hash map's order; each
  chunk adds the same rectangles whatever came before it (`DrawChunkAdds`),
  because the seed is set first. So the frame is the union of what the chunks
  add (`FrameWhole`), and `FramesAlike` follows.
* `TilesDrawn`: each of the sixteen cases of a quadrant, by its place in the tile
  and its two neighbours, has the piece with the borders asked for (`SourceFor`),
  and the quadrants are the half tiles of the loaded chunks, each once
  (`TileOf`, `HalfFacts`). Of the random numbers it is only needed that they are
  ints (`RandomNumbers`).

`EngineProofs` proves that the letterbox fits windows of every size, 0 by 0
included (`ViewportRectFits`), and that every frame is shown in the letterbox of
the window's size at that time (`FramesLetterboxed`). The first is integer
arithmetic with quotients named; that the program's floats give these integers
is argued in `Renderer.tla` and not proved.

`RendererImplementsPicture` is the refinement of `Picture`, for any rectangles,
atlases, cameras and number of draws. `GLInv` says what OpenGL has bound at every
point between two calls of the renderer, and in a frame that it is what a draw of
the batch needs (`ForBatch`); `MaterialInv` that the samplers and units of both
materials are theirs; `BatchInv` that the batch holds rectangles of the active
atlas. Then what a flush draws, read from the state of OpenGL, is the batch
(`FlushSeen`), and each method adds to the canvas what the picture says.
`RendererTyped` needs besides that a sampler is set to a new unit in the same call
that gives it the unit, and to the old one ever after (`SamplerInv`), and that the
batch grows by one with each draw.

`NoProgramLeaks`, `UniformsStay` and `ShaderTyped` are proved for any number of
shader objects and any sources. `LoadInv` says for each step of a load which
shaders there are that nobody has deleted: the vertex shader, both, or, once they
are attached, those of the new program and of no other. When no load runs there
are none, which is the first part of `NothingLeaks`. The invariant adds that only programs that link
are used, and that those come from sources that compile, as the locations of two
uniforms are only known to differ in such a program (`ShaderAssumption`).

`GameProofs` also proves `GLNeedsContext`, `LayersOutliveNetwork` and `Released`
of `Application`, for any number of layers. Each speaks of a few places of the main
thread only; the invariant says for every place what of the window, the
renderer, the network device and the layers is there (`LayersInv`, `WindowInv`),
with what each ending leaves behind. `RendererFollows` is the safety part of
`UserHeard`: among the resizes that wait in the queue of events, the last one is
the window's size, and if none waits the viewport has it (`SizeComes`).

The types. `SceneTyped`, `RendererTyped`, `ShaderTyped`, `TilemapTyped` and
`GameSceneTypes` are the type invariants of the parts, each from the invariants
above. A behaviour of `MCEngine` or `MCGame` is a behaviour of each of its parts
(`PartsAlone`), so `EngineTyped` and `GameTypesHold` put them together: the
runs' `EngineTypeOK` and `GameTypesOK` hold for every value of the constants.

Only model-checked: the liveness properties, which are out of the prover's
reach (`Joins`, `Meet`, `RegisterHonoured`, `Steps`, and of `UserHeard` all but
what `RendererFollows` states).

## Findings

* `EngineServerCollision`: uids are the time in seconds; two clients started in
  the same second take the server down.
* `EngineServerTidied`: a REGISTER is handled after its dead connection left the
  deque, and nobody will tidy its player up. (A disconnect noticed inside the
  garbage loop is lost too, server.hpp:100: the run stops at the shorter trace.)
* `EngineServerDeque`: the "validated" connections include unvalidated ones.
* `EngineServerRemove`: `MessageClient` does not remove the dead connection.
* `MinicraftUnknown`: a step of a player it does not know stops a client.
* `MinicraftInfo`: an info takes the new y for x.
* `TilemapKeys`: the key shifts by 2 where it should by 16; chunks far apart
  replace each other.

Noticed on the way, and not the subject of a run:

* `scene.hpp:88` grows the list of pools by one where the component's id may be
  further away, depending on which view was made first. The order in which the
  game names its types never meets this (`PoolsInOrder`).
* `shader.cpp:51` waits for exceptions that the streams are not told to raise: a
  missing file becomes an empty source, and the error is the compiler's.
* `framebuffer.cpp:28` throws a pointer, which no handler catches.
* After a failure in `Renderer::init` the renderer's static objects call OpenGL
  at exit, when the context is gone: `GLNeedsContext` excepts just this.

## Plan

Done: `EngineServer` and `Minicraft`, `Scene`, `GameScene`, `Tilemap`,
`Renderer`, `Shader` and `Application`, each against what it promises, with proofs
of all invariants, action properties and refinements that the runs check. Left:
an abstract session (who is in, who was told) that `EngineServer` implements.

## Not modelled

OpenGL, GLFW, the decoding of images, logging and the vendored libraries are
external. `message`'s `operator<<` and `operator>>` copy bytes in stack order:
that the reader takes the fields in the reverse order shows in `Minicraft` where
it matters (`Unpacked`); a read past the end of a short body is not modelled, as
no sender of the program makes one. The vector and matrix types are arithmetic.
