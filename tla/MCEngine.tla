------------------------------ MODULE MCEngine ------------------------------
(***************************************************************************)
(* Small instances of the parts of the engine that share no state: the     *)
(* scene, the tilemap, the batch renderer and the shaders.  A behaviour is *)
(* one of a single part, chosen at the start, with the others at rest, so  *)
(* that one run explores each of them in full and never their product.     *)
(***************************************************************************)
EXTENDS SceneUse, Tilemap, Renderer, Shader

VARIABLE part

engineVars == <<useVars, tilemapVars, rendererVars, shaderVars, part>>

(* Scene: views over one type, over both and, as get_view<>(), over none.  *)
CONSTANTS A, B, zero, one
TwoTypes == {A, B}
AllZero == [T \in Component |-> zero]
SomeViews == {<<>>, <<A>>, <<B, A>>}

(* Tilemap: a tile of stone in a corner, a column of it, and a floor with  *)
(* a hole; for randomi() a function that tells seeds and calls apart.      *)
Corner == [i \in TileIndexes |-> IF i = 0 THEN 2 ELSE GRASS]
Column == [i \in TileIndexes |-> IF i % CHUNK_SIZE_TLS = 0 THEN 2 ELSE GRASS]
Hole == [i \in TileIndexes |-> IF i = 1 THEN AIR ELSE 2]
SomeFloors == {Corner, Column, Hole}
SomeRandomi(seed, n) ==
  3 * Cardinality(seed) + (IF 0 \in seed THEN 1 ELSE 0) + n + n \div 8

(* The keys of the chunks that are set are not those of other chunks.      *)
ASSUME EngineAssumption == KeysApart

(* Renderer: a window wider than the canvas by a pixel, and a taller one.  *)
SomeSizes == {<<513, 288>>, <<500, 400>>}

(* Shader: fragment shader b does not go with vertex shader a, and the     *)
(* compiler numbers the uniforms of different sources differently.         *)
CONSTANTS a, b
SomeMatch(vs, fs) == ~(vs = a /\ fs = b)
SomeLocation(vs, fs, u) == IF vs = fs THEN u ELSE 1 - u

(* Of the scene, what the components hold and loops over views are two     *)
(* questions: there are no loops while contents are written, and no writes *)
(* and one entity less where there are loops.                              *)
SceneContents == UseNext /\ UNCHANGED loop
SceneLoops == UseNext /\ created' < MaxCreate /\ \A T \in Component :
                \A i \in DOMAIN scene'.pool[T] : scene'.pool[T][i] = Blank[T]

(* At rest the renderer is in one of its initial states.                   *)
EngineInit ==
  /\ part \in {"contents", "loops", "tilemap", "renderer", "shader"}
  /\ UseInit /\ TilemapInit /\ RendererInit /\ ShaderInit
  /\ part # "renderer" =>
       /\ active_camera = CHOOSE camera \in Camera : TRUE
       /\ window = <<513, 288>>

OnlyScene == UNCHANGED <<tilemapVars, rendererVars, shaderVars>>
EngineNext ==
  /\ UNCHANGED part
  /\ \/ part = "contents" /\ SceneContents /\ OnlyScene
     \/ part = "loops" /\ SceneLoops /\ OnlyScene
     \/ part = "tilemap" /\ TilemapNext /\ UNCHANGED <<useVars, rendererVars, shaderVars>>
     \/ part = "renderer" /\ RendererNext /\ UNCHANGED <<useVars, tilemapVars, shaderVars>>
     \/ part = "shader" /\ ShaderNext /\ UNCHANGED <<useVars, tilemapVars, rendererVars>>

EnginePartsSpec == EngineInit /\ [][EngineNext]_engineVars

(* The type invariants of the four parts.                                  *)
EngineTypeOK == UseTypeOK /\ TilemapTypeOK /\ RendererTypeOK /\ ShaderTypeOK
=============================================================================
