----------------------------- MODULE GameScene -----------------------------
(***************************************************************************)
(* The game layer of a client (base_game_layer.cpp, client_game_layer.cpp) *)
(* or of the server over its scene: how players become entities with       *)
(* components, and how the systems draw and animate them.                  *)
(*                                                                         *)
(* A loop over a view whose body changes no entity is one step.  The       *)
(* network's messages and the keys are an open environment here; Minicraft *)
(* closes it, and its OwnPlayerKept is why a client never deregisters its  *)
(* own player.  A texture is the palette it was loaded from.               *)
(***************************************************************************)
EXTENDS Scene, Functions

CONSTANTS Uid,
          Owns,            \* what own may be
          NoUid,
          Place, Origin,   \* positions; where PositionComponent() is
          Palette, NoPalette,
          FRAME_DURATION,  \* frame_duration in ticks of the clock
          Deltas,          \* ticks between two frames
          MaxCreate        \* bound: entities created

WALK_ANIMATION == << <<0, -16, 16, 16>>, <<16, -16, -16, 16>> >>
FirstSource == <<0, -16, 16, 16>>
NoSource == <<0, 0, 0, 0>>

GameComponent == {"Tilemap", "Position", "TilemapRenderer", "Player", "Sprite",
                  "SpriteAnimator"}
Tag == [present |-> TRUE]  \* a component whose contents are not followed here
Sprites == [palette : Palette \union {NoPalette},
            source : {WALK_ANIMATION[k] : k \in 1..2} \union {NoSource}]
Animators == [frames : {<<>>, WALK_ANIMATION}, time : 0..FRAME_DURATION,
              frame : 0..1]
GameValue == {Tag} \union Place \union Sprites \union Animators
GameBlank == [T \in GameComponent |->
                CASE T = "Position" -> Origin
                  [] T = "Sprite" -> [palette |-> NoPalette, source |-> NoSource]
                  [] T = "SpriteAnimator" -> [frames |-> <<>>, time |-> 0, frame |-> 0]
                  [] OTHER -> Tag]

(* A pool has room for every player and the tilemap.                       *)
ASSUME GameAssumption ==
  /\ Component = GameComponent /\ Value = GameValue /\ Blank = GameBlank
  /\ Owns \subseteq Uid \union {NoUid} /\ NoUid \notin Uid
  /\ Origin \in Place /\ NoPalette \notin Palette
  /\ FRAME_DURATION \in Nat /\ Deltas \subseteq Nat /\ MaxCreate \in Nat \ {0}
  /\ IsFiniteSet(Uid) /\ Cardinality(Uid) < MAX_ENTITIES

VARIABLES
  own,       \* the client's own uid, or NoUid on the server
  scene,     \* m_scene
  tilemap,   \* m_tilemap
  players,   \* m_players: the entity of each uid
  infos,     \* m_player_infos: the colours of each uid
  stage,     \* "built", "attached", then "running" from the first frame on
  created,   \* history: entities created
  drawn      \* the sprites of the last frame drawn, by slot

gameSceneVars == <<own, scene, tilemap, players, infos, stage, created, drawn>>

IsClient == own # NoUid

PlaceOf(uid) == Content(scene, players[uid], "Position")
SpriteOf(uid) == Content(scene, players[uid], "Sprite")
AnimatorOf(uid) == Content(scene, players[uid], "SpriteAnimator")

(* GameLayer().                                                            *)
GameSceneInit ==
  /\ own \in Owns
  /\ scene = NewEntity(EmptyScene)
  /\ tilemap = NewHandle(EmptyScene)
  /\ players = <<>> /\ infos = <<>> /\ stage = "built" /\ created = 1 /\ drawn = <<>>

(* What GameLayer::register_player does to the scene.                      *)
WithPlayer(s, h, place) ==
  WriteComponent(AssignComponent(AssignComponent(NewEntity(s), h, "Player"),
                                 h, "Position"), h, "Position", place)

(* Mutant: one palette for all.                                            *)
WithSpriteUncoloured(s, h, palette) ==
  LET sprite == WriteComponent(AssignComponent(s, h, "Sprite"), h, "Sprite",
                               [palette |-> CHOOSE p \in Palette : TRUE,
                                source |-> FirstSource])
  IN  WriteComponent(AssignComponent(sprite, h, "SpriteAnimator"), h,
                     "SpriteAnimator",
                     [frames |-> WALK_ANIMATION, time |-> 0, frame |-> 0])

(* Mutant: the palette is made but not given to the sprite.                *)
WithSpriteUnloaded(s, h, palette) ==
  LET sprite == WriteComponent(AssignComponent(s, h, "Sprite"), h, "Sprite",
                               [palette |-> NoPalette, source |-> FirstSource])
  IN  WriteComponent(AssignComponent(sprite, h, "SpriteAnimator"), h,
                     "SpriteAnimator",
                     [frames |-> WALK_ANIMATION, time |-> 0, frame |-> 0])

(* And ClientGameLayer::register_player after it.                          *)
WithSprite(s, h, palette) ==
  LET sprite == WriteComponent(AssignComponent(s, h, "Sprite"), h, "Sprite",
                               [palette |-> palette, source |-> FirstSource])
  IN  WriteComponent(AssignComponent(sprite, h, "SpriteAnimator"), h,
                     "SpriteAnimator",
                     [frames |-> WALK_ANIMATION, time |-> 0, frame |-> 0])

Register(s, uid, place, palette) ==
  LET h == NewHandle(s)
      base == WithPlayer(s, h, place)
  IN  IF uid \in DOMAIN players
      THEN scene' = s /\ UNCHANGED <<players, infos, created>>
      ELSE /\ scene' = IF IsClient THEN WithSprite(base, h, palette) ELSE base
           /\ players' = Put(players, uid, h)
           /\ infos' = Put(infos, uid, palette)
           /\ created' = created + 1

(* Mutant: the client's renderer component comes first, as if its layer    *)
(* drew once before it is attached.                                        *)
AttachAfterDraw ==
  /\ stage = "built" /\ created < MaxCreate
  /\ stage' = "attached"
  /\ LET seen == MentionAll(scene, <<"Sprite", "SpriteAnimator">>)
         base == AssignComponent(AssignComponent(seen, tilemap, "Tilemap"),
                                 tilemap, "Position")
     IN  scene' = base /\ UNCHANGED <<players, infos, created>>
  /\ UNCHANGED <<own, tilemap, drawn>>

(* on_attach: the tilemap's components, then the client's own player.      *)
Attach ==
  /\ stage = "built" /\ created < MaxCreate
  /\ stage' = "attached"
  /\ LET base == AssignComponent(AssignComponent(scene, tilemap, "Tilemap"),
                                 tilemap, "Position")
     IN  IF IsClient
         THEN \E place \in Place, palette \in Palette :
                Register(AssignComponent(base, tilemap, "TilemapRenderer"),
                         own, place, palette)
         ELSE scene' = base /\ UNCHANGED <<players, infos, created>>
  /\ UNCHANGED <<own, tilemap, drawn>>

(* on_update: the player system looks at every player and does nothing.    *)
Update ==
  /\ stage # "built"
  /\ stage' = "running"
  /\ scene' = MentionAll(scene, <<"Player">>)
  /\ UNCHANGED <<own, tilemap, players, infos, created, drawn>>

(* Messages are handled after the layers' first update.                    *)
RegisterPlayer(uid, place, palette) ==
  /\ stage = "running" /\ created < MaxCreate
  /\ Register(scene, uid, place, palette)
  /\ UNCHANGED <<own, tilemap, stage, drawn>>

(* Mutant: the entity outlives its player.                                 *)
DeregisterKeepsEntity(uid) ==
  /\ stage = "running" /\ uid # own
  /\ players' = Restrict(players, DOMAIN players \ {uid})
  /\ infos' = Restrict(infos, DOMAIN infos \ {uid})
  /\ UNCHANGED <<own, scene, tilemap, stage, created, drawn>>

(* Mutant: the entity goes, the player's entries stay.                     *)
DeregisterKeepsEntry(uid) ==
  /\ stage = "running" /\ uid # own
  /\ uid \in DOMAIN players
  /\ scene' = DestroyEntity(scene, players[uid])
  /\ UNCHANGED <<own, players, infos, tilemap, stage, created, drawn>>

DeregisterPlayer(uid) ==
  /\ stage = "running" /\ uid # own
  /\ uid \in DOMAIN players
  /\ scene' = DestroyEntity(scene, players[uid])
  /\ players' = Restrict(players, DOMAIN players \ {uid})
  /\ infos' = Restrict(infos, DOMAIN infos \ {uid})
  /\ UNCHANGED <<own, tilemap, stage, created, drawn>>

(* A key on the client, or an UPDATE_PLAYER on either side.                *)
MovePlayer(uid, place) ==
  /\ stage = "running" /\ uid \in DOMAIN players
  /\ scene' = WriteComponent(scene, players[uid], "Position", place)
  /\ UNCHANGED <<own, tilemap, players, infos, stage, created, drawn>>

(* The slots a view over Ts visits, from the lowest to the highest.        *)
Visited(s, Ts) == {i \in 0..(Size(s) - 1) : Matches(s, i, Ts)}

(* Mutant: the source is taken before the frame advances.                  *)
TickLate(sprite, animator, delta) ==
  LET time == animator.time + delta
      frame == (animator.frame + 1) % Len(animator.frames)
  IN  IF time > FRAME_DURATION
      THEN [sprite |-> [sprite EXCEPT !.source = animator.frames[animator.frame + 1]],
            animator |-> [animator EXCEPT !.time = 0, !.frame = frame]]
      ELSE [sprite |-> sprite, animator |-> [animator EXCEPT !.time = time]]

(* Mutant: after the last frame the animation stays there.                 *)
TickStops(sprite, animator, delta) ==
  LET time == animator.time + delta
      frame == IF animator.frame + 1 < Len(animator.frames)
               THEN animator.frame + 1 ELSE animator.frame
  IN  IF time > FRAME_DURATION
      THEN [sprite |-> [sprite EXCEPT !.source = animator.frames[frame + 1]],
            animator |-> [animator EXCEPT !.time = 0, !.frame = frame]]
      ELSE [sprite |-> sprite, animator |-> [animator EXCEPT !.time = time]]

(* SpriteAnimationSystem::on_update on the components of one entity.       *)
Tick(sprite, animator, delta) ==
  LET time == animator.time + delta
      frame == (animator.frame + 1) % Len(animator.frames)
  IN  IF time > FRAME_DURATION
      THEN [sprite |-> [sprite EXCEPT !.source = animator.frames[frame + 1]],
            animator |-> [animator EXCEPT !.time = 0, !.frame = frame]]
      ELSE [sprite |-> sprite, animator |-> [animator EXCEPT !.time = time]]

Animated(s, delta) ==
  LET At(i) == Tick(s.pool["Sprite"][i], s.pool["SpriteAnimator"][i], delta)
      on == Visited(s, {"Sprite", "SpriteAnimator"})
  IN  [s EXCEPT !.pool["Sprite"] =
                    [i \in DOMAIN @ |-> IF i \in on THEN At(i).sprite ELSE @[i]],
                !.pool["SpriteAnimator"] =
                    [i \in DOMAIN @ |-> IF i \in on THEN At(i).animator ELSE @[i]]]

(* SpriteSystem::on_update.                                                *)
Pictured(s) ==
  [i \in Visited(s, {"Position", "Sprite"}) |->
     [place |-> s.pool["Position"][i], palette |-> s.pool["Sprite"][i].palette,
      source |-> s.pool["Sprite"][i].source]]

(* on_draw of a client: the views of its three systems, in the order in    *)
(* which they first name each type.                                        *)
Draw(delta) ==
  /\ IsClient /\ stage = "running"
  /\ scene' = Animated(MentionAll(scene, <<"Tilemap", "TilemapRenderer", "Position",
                                           "Sprite", "SpriteAnimator">>), delta)
  /\ drawn' = Pictured(scene')
  /\ UNCHANGED <<own, tilemap, players, infos, stage, created>>

DrawFrame == \E delta \in Deltas : Draw(delta)

GameSceneNext ==
  \/ Attach
  \/ Update
  \/ \E uid \in Uid, place \in Place, palette \in Palette :
       RegisterPlayer(uid, place, palette)
  \/ \E uid \in Uid : DeregisterPlayer(uid)
  \/ \E uid \in Uid, place \in Place : MovePlayer(uid, place)
  \/ DrawFrame

GameSceneSpec == GameSceneInit /\ [][GameSceneNext]_gameSceneVars

(* Application::run updates and draws over and over once the layer is      *)
(* attached: weak fairness of Update and DrawFrame with ENABLED written    *)
(* out, for TLC.  An update changes something until the layer runs, and    *)
(* from then on a client can always draw.                                  *)
GameSceneFairness ==
  /\ []<>(stage # "attached")
  /\ <>[](IsClient /\ stage = "running") => []<><<DrawFrame>>_gameSceneVars
-----------------------------------------------------------------------------
(* Every variable has its type, and a component an entity has holds a      *)
(* value of its own kind.                                                  *)
GameSceneTypeOK ==
  /\ own \in Owns
  /\ stage \in {"built", "attached", "running"} /\ created \in 1..MaxCreate
  /\ DOMAIN players \subseteq Uid /\ DOMAIN infos = DOMAIN players
  /\ \A k \in DOMAIN drawn :
       drawn[k] \in [place : Place, palette : Palette, source : Range(WALK_ANIMATION)]
  /\ \A uid \in DOMAIN players :
       /\ PlaceOf(uid) \in Place /\ infos[uid] \in Palette
       /\ IsClient => SpriteOf(uid) \in Sprites /\ AnimatorOf(uid) \in Animators

(* The entity of a player is alive, his alone and not the tilemap's: every *)
(* destroy_entity of the game, which looks at no version, destroys a       *)
(* living entity (base_game_layer.cpp, deregister_player).                 *)
DestroysLive ==
  /\ Slot(scene, Index(tilemap)).id = tilemap
  /\ \A uid \in DOMAIN players :
       /\ Slot(scene, Index(players[uid])).id = players[uid]
       /\ Index(players[uid]) # Index(tilemap)
       /\ \A other \in DOMAIN players :
            Index(players[uid]) = Index(players[other]) => uid = other

(* In the order the game asks for the ids of its components, the list of   *)
(* pools, which grows by one at a time, is never too short.                *)
PoolsInOrder == scene.overrun = "none"

(* A sprite shows the frame its animator is at, also after its slot        *)
(* belonged to another player.                                             *)
AnimationInStep ==
  IsClient => \A uid \in DOMAIN players :
                SpriteOf(uid).source = AnimatorOf(uid).frames[AnimatorOf(uid).frame + 1]

(* The scene holds no entity but the tilemap and the players: nobody who   *)
(* left is drawn.                                                          *)
NoGhosts ==
  {Index(players[uid]) : uid \in DOMAIN players} \union {Index(tilemap)}
    = {i \in 0..(Size(scene) - 1) : IsEntityValid(Slot(scene, i).id)}

(* Both at once: what is drawn is the players, each in his own step.       *)
PlayersInStep == NoGhosts /\ AnimationInStep

(* A player who stays walks on: each frame of his animation gives way to   *)
(* the other.                                                              *)
FrameOf(uid) ==
  IF IsClient /\ uid \in DOMAIN players THEN AnimatorOf(uid).frame ELSE -1
Steps == \A uid \in Uid : \A f \in 0..1 : FrameOf(uid) = f ~> FrameOf(uid) # f

(* The entities are a table of players, each drawn once with his own place *)
(* and colours.                                                            *)
Roster == [uid \in DOMAIN players |->
             [place |-> PlaceOf(uid), palette |-> infos[uid]]]
Shown == [look \in [place : Place, palette : Palette] |->
            Cardinality({k \in DOMAIN drawn :
              drawn[k].place = look.place /\ drawn[k].palette = look.palette})]
PlayerTable == INSTANCE PlayerTable WITH roster <- Roster, shown <- Shown
RefinesPlayerTable == PlayerTable!Table
=============================================================================
