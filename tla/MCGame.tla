------------------------------- MODULE MCGame -------------------------------
(***************************************************************************)
(* Small instances of the game layer over its scene and of the application *)
(* that owns the layers, which share no state: a behaviour is one of       *)
(* either, chosen at the start, with the other at rest.                    *)
(***************************************************************************)
EXTENDS GameScene, Application

VARIABLE part

gameVars == <<gameSceneVars, applicationVars, part>>

CONSTANTS u1, u2, u3, origin, there, red, blue

(* The game layer is looked at twice: with three players of all kinds, on  *)
(* either side, whose animations advance with each frame, and with two     *)
(* players all alike and frames of any length.                             *)
Players ==
  /\ part = "players"
  /\ IsClient => \A uid \in DOMAIN players' : AnimatorOf(uid)'.time = 0
Clock ==
  /\ part = "clock"
  /\ \A uid \in DOMAIN players' :
       uid # u3 /\ infos'[uid] = red /\ PlaceOf(uid)' = origin
Scened(A) == A /\ (Players \/ Clock) /\ UNCHANGED <<applicationVars, part>>
Framed(A) == part = "application" /\ A /\ UNCHANGED <<gameSceneVars, part>>

(* At rest the application is the server's.                                *)
GameInit ==
  /\ part \in {"players", "clock", "application"}
  /\ GameSceneInit /\ ApplicationInit
  /\ part # "players" => own = u1
  /\ part # "application" =>
       program = "server" /\ viewport = CHOOSE size \in FrameSize : TRUE

GameNext == Scened(GameSceneNext) \/ Framed(ApplicationNext)

GamePartsSpec ==
  /\ GameInit /\ [][GameNext]_gameVars
  /\ GameSceneFairness
  /\ WF_gameVars(Framed(Main))

(* The type invariants of both parts.                                      *)
GameTypesOK == GameSceneTypeOK /\ ApplicationTypeOK
=============================================================================
