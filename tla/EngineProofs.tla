----------------------------- MODULE EngineProofs -----------------------------
(***************************************************************************)
(* The renderer, the shaders and the parts of the engine together.  For    *)
(* windows of every size the integers update_viewport_size arrives at      *)
(* describe a rectangle that fits, each frame is shown in it, and what is  *)
(* shown is the picture that was drawn.  For any number of shader objects, *)
(* any sources and any way a load can end, OpenGL has their programs and   *)
(* no more, and each has the uniforms that were set through its own        *)
(* object.  A behaviour of the parts of MCEngine is one of each part, so   *)
(* that what SceneProofs, TilemapProofs and this module prove of a part    *)
(* holds there too; of their types this is stated.                         *)
(***************************************************************************)
EXTENDS MCEngine, SceneProofs, TilemapProofs

-----------------------------------------------------------------------------
(* The letterbox.                                                          *)

(* The letterbox computed for any window, 0 by 0 included, is inside it,   *)
(* touches two opposite sides, is in the middle and has the canvas's shape *)
(* up to a pixel (update_viewport_size).                                   *)
THEOREM ViewportRectFits ==
  ASSUME NEW w \in Nat, NEW h \in Nat
  PROVE  Fits(ViewportRect(w, h), <<w, h>>)
<1>1. CASE 16 * h > 9 * w
  <2>1. ViewportRect(w, h) = [x |-> 0, y |-> (16 * h - 9 * w) \div 32,
                              width |-> w, height |-> (9 * w) \div 16]
    BY <1>1 DEF ViewportRect
  <2>2. PICK y \in Int : y = (16 * h - 9 * w) \div 32
    OBVIOUS
  <2>3. PICK height \in Int : height = (9 * w) \div 16
    OBVIOUS
  <2>4. 32 * y <= 16 * h - 9 * w /\ 16 * h - 9 * w < 32 * y + 32
    BY <2>2
  <2>5. 16 * height <= 9 * w /\ 9 * w < 16 * height + 16
    BY <2>3
  <2> QED
    BY <1>1, <2>1, <2>2, <2>3, <2>4, <2>5 DEF Fits
<1>2. CASE ~(16 * h > 9 * w)
  <2>1. ViewportRect(w, h) = [x |-> (9 * w - 16 * h) \div 18, y |-> 0,
                              width |-> (16 * h) \div 9, height |-> h]
    BY <1>2 DEF ViewportRect
  <2>2. PICK x \in Int : x = (9 * w - 16 * h) \div 18
    OBVIOUS
  <2>3. PICK width \in Int : width = (16 * h) \div 9
    OBVIOUS
  <2>4. 18 * x <= 9 * w - 16 * h /\ 9 * w - 16 * h < 18 * x + 18
    BY <2>2
  <2>5. 9 * width <= 16 * h /\ 16 * h < 9 * width + 9
    BY <2>3
  <2> QED
    BY <1>2, <2>1, <2>2, <2>3, <2>4, <2>5 DEF Fits
<1> QED
  BY <1>1, <1>2

(* What the renderer keeps of the window between two resizes.              *)
ViewportInv ==
  /\ window \in WindowSize
  /\ viewport_rect = ViewportRect(window[1], window[2])

LEMMA ViewportInvInit == RendererInit => ViewportInv
  BY DEF RendererInit, ViewportInv

LEMMA ViewportInvNext == ViewportInv /\ [RendererNext]_rendererVars => ViewportInv'
<1> SUFFICES ASSUME ViewportInv, [RendererNext]_rendererVars
             PROVE  ViewportInv'
  OBVIOUS
<1> USE DEF ViewportInv
<1>1. ASSUME NEW camera \in Camera, Begin(camera) PROVE ViewportInv'
  BY <1>1 DEF Begin
<1>2. ASSUME NEW rect \in Rect, NEW atlas \in Atlas \union {NoAtlas},
             DrawRect(rect, atlas)
      PROVE  ViewportInv'
  BY <1>2 DEF DrawRect
<1>3. CASE End
  BY <1>3 DEF End
<1>4. ASSUME NEW texture \in Atlas, LoadTexture(texture) PROVE ViewportInv'
  BY <1>4 DEF LoadTexture, own
<1>5. ASSUME NEW size \in WindowSize, UpdateViewportSize(size) PROVE ViewportInv'
  BY <1>5 DEF UpdateViewportSize
<1>6. CASE UNCHANGED rendererVars
  BY <1>6 DEF rendererVars, own
<1> QED
  BY <1>1, <1>2, <1>3, <1>4, <1>5, <1>6 DEF RendererNext

(* A frame is ended by End alone, which hands OpenGL the letterbox of the  *)
(* window as it is then.                                                   *)
LEMMA FramesFit ==
  ASSUME ViewportInv, [RendererNext]_rendererVars,
         phase = "frame", phase' = "idle"
  PROVE  Fits(gl'.viewport, window)
<1>1. End
  BY DEF RendererNext, rendererVars, own, Begin, DrawRect, LoadTexture,
         UpdateViewportSize
<1>2. gl'.viewport = viewport_rect
  BY <1>1 DEF End, Presented, BindTexture
<1>3. /\ window[1] \in Nat /\ window[2] \in Nat
      /\ window = <<window[1], window[2]>>
  BY RendererAssumption DEF ViewportInv
<1>4. Fits(ViewportRect(window[1], window[2]), <<window[1], window[2]>>)
  BY <1>3, ViewportRectFits
<1> QED
  BY <1>2, <1>3, <1>4 DEF ViewportInv

(* Every frame is letterboxed in the window as large as it then is,        *)
(* whatever was drawn, loaded and resized before (end).                    *)
THEOREM FramesLetterboxed == RendererSpec => LetterboxedFrames
<1>1. ViewportInv /\ [RendererNext]_rendererVars
      => [phase = "frame" /\ phase' = "idle" => Fits(gl'.viewport, window)]_rendererVars
  BY FramesFit
<1> QED
  BY <1>1, ViewportInvInit, ViewportInvNext, PTL DEF RendererSpec, LetterboxedFrames

-----------------------------------------------------------------------------
(* The picture.                                                            *)

(* What OpenGL and the material keep from call to call, of what a draw     *)
(* call depends on: the buffer flush() writes to is the one the batch's    *)
(* vertex array reads, the sheet has the material's first unit and the     *)
(* palettes, once there were any, the second.                              *)
GLFields == {"program", "framebuffer", "vao", "arrayBuffer", "activeUnit", "units",
             "samplers", "buffer", "cameraPos", "viewport"}
Samplers == {"image", "palettes", "screen_texture"}
GLSound(g) ==
  /\ DOMAIN g = GLFields /\ g.arrayBuffer = "batch"
  /\ g.units \in [Unit -> Texture] /\ g.activeUnit \in Unit
  /\ DOMAIN g.samplers = Samplers
  /\ g.samplers["image"] = 0 /\ g.samplers["screen_texture"] = 0
  /\ "batch" \in DOMAIN g.buffer
ForBatch(g) == g.vao = "batch" /\ g.framebuffer = "screen" /\ g.viewport = CANVAS
GLInv == GLSound(gl) /\ (phase = "frame" => ForBatch(gl))

SheetOnly == [names |-> <<"image">>, textures |-> <<Sheet>>]
SheetAnd(atlas) == [names |-> <<"image", "palettes">>, textures |-> <<Sheet, atlas>>]
MaterialInv ==
  batch_material \in {SheetOnly} \union {SheetAnd(atlas) : atlas \in Atlas}

Drawn == [rect : Rect, atlas : Atlas, sheet : {Sheet}, camera : Camera]
BatchInv ==
  /\ phase \in {"idle", "frame"} /\ active_camera \in Camera
  /\ batch_vertices \in Seq(Rect)
  /\ phase = "idle" => batch_vertices = <<>>
  /\ active_palette_atlas \in Atlas \union {NoAtlas}
  /\ drawn \in Seq(Drawn) /\ shown \in Seq(Drawn)
  /\ draws \in 0..MaxDraws /\ Len(batch_vertices) <= draws

(* Once the material knows of palettes, their sampler is set to its second *)
(* unit.                                                                   *)
SamplerSound(g, m) == m # SheetOnly => g.samplers["palettes"] = 1
SamplerInv == SamplerSound(gl, batch_material)

PictureInv == GLInv /\ MaterialInv /\ BatchInv /\ SamplerInv

(* What flush() draws is what is pending, and it leaves OpenGL and the     *)
(* material as they should be.                                             *)
Batch == [k \in DOMAIN batch_vertices |->
            [rect |-> batch_vertices[k], atlas |-> active_palette_atlas,
             sheet |-> Sheet, camera |-> active_camera]]

LEMMA TextureLoaded ==
  ASSUME NEW g, GLSound(g), NEW texture \in Texture
  PROVE  GLSound(TextureLoad(g, texture)) /\ TextureLoad(g, texture).samplers = g.samplers
<1> DEFINE h == BindTexture(g, texture)
<1>1. GLSound(h) /\ h.samplers = g.samplers
  BY DEF BindTexture, GLSound, GLFields
<1>2. TextureLoad(g, texture) = BindTexture(h, NoTexture)
  BY DEF TextureLoad
<1> HIDE DEF h
<1> QED
  BY <1>1, <1>2 DEF BindTexture, GLSound, GLFields, Texture

LEMMA AppendToOne ==
  ASSUME NEW x, NEW y
  PROVE  Append(<<x>>, y) = <<x, y>>
<1>1. <<x>> \in Seq({x, y}) /\ y \in {x, y}
  OBVIOUS
<1>2. /\ Append(<<x>>, y) \in Seq({x, y}) /\ Len(Append(<<x>>, y)) = 2
      /\ Append(<<x>>, y)[1] = x /\ Append(<<x>>, y)[2] = y
  BY <1>1, AppendProperties
<1>3. Append(<<x>>, y) = [i \in 1..2 |-> IF i = 1 THEN x ELSE y]
  BY <1>2
<1>4. <<x, y>> = [i \in 1..2 |-> IF i = 1 THEN x ELSE y]
  OBVIOUS
<1> QED
  BY <1>3, <1>4

LEMMA MaterialSet ==
  ASSUME MaterialInv
  PROVE  /\ UnitOf(batch_material, "palettes") = 1
         /\ \A atlas : MaterialWith(batch_material, "palettes", atlas) = SheetAnd(atlas)
<1>1. CASE batch_material = SheetOnly
  <2>1. batch_material.names = <<"image">> /\ batch_material.textures = <<Sheet>>
    BY <1>1 DEF SheetOnly
  <2>2. Len(batch_material.names) = 1 /\ DOMAIN batch_material.names = 1..1
    BY <2>1
  <2>3. ~ \E k \in DOMAIN batch_material.names : batch_material.names[k] = "palettes"
    BY <2>1, <2>2
  <2>4. UnitOf(batch_material, "palettes") = 1
    BY <2>2, <2>3 DEF UnitOf
  <2>5. ASSUME NEW atlas
        PROVE  MaterialWith(batch_material, "palettes", atlas) = SheetAnd(atlas)
    BY <2>1, <2>2, <2>4, AppendToOne DEF MaterialWith, SheetAnd
  <2> QED
    BY <2>4, <2>5
<1>2. ASSUME NEW old \in Atlas, batch_material = SheetAnd(old)
      PROVE  /\ UnitOf(batch_material, "palettes") = 1
             /\ \A atlas : MaterialWith(batch_material, "palettes", atlas) = SheetAnd(atlas)
  <2>1. /\ batch_material.names = <<"image", "palettes">>
        /\ batch_material.textures = <<Sheet, old>>
    BY <1>2 DEF SheetAnd
  <2>2. /\ Len(batch_material.names) = 2 /\ DOMAIN batch_material.names = 1..2
        /\ batch_material.names[1] = "image" /\ batch_material.names[2] = "palettes"
    BY <2>1
  <2>3. \A k \in DOMAIN batch_material.names : batch_material.names[k] = "palettes" <=> k = 2
    BY <2>2
  <2>4. 2 \in DOMAIN batch_material.names
    BY <2>2
  <2>5. (CHOOSE k \in DOMAIN batch_material.names : batch_material.names[k] = "palettes") = 2
    BY <2>3, <2>4
  <2>6. UnitOf(batch_material, "palettes") = 1
    BY <2>3, <2>4, <2>5 DEF UnitOf
  <2>7. ASSUME NEW atlas
        PROVE  MaterialWith(batch_material, "palettes", atlas) = SheetAnd(atlas)
    <3>1. MaterialWith(batch_material, "palettes", atlas)
            = [batch_material EXCEPT !.textures[2] = atlas]
      BY <2>2, <2>6 DEF MaterialWith
    <3>2. [<<Sheet, old>> EXCEPT ![2] = atlas] = <<Sheet, atlas>>
      OBVIOUS
    <3> QED
      BY <1>2, <3>1, <3>2 DEF SheetAnd
  <2> QED
    BY <2>6, <2>7
<1> QED
  BY <1>1, <1>2 DEF MaterialInv

LEMMA BatchDrawn ==
  ASSUME BatchInv, active_palette_atlas \in Atlas
  PROVE  Batch \in Seq(Drawn) /\ DOMAIN Batch = DOMAIN batch_vertices
<1>1. PICK n \in Nat : DOMAIN batch_vertices = 1..n
  BY LenProperties DEF BatchInv
<1>2. \A k \in 1..n : batch_vertices[k] \in Rect
  BY <1>1, ElementOfSeq, LenProperties DEF BatchInv
<1>3. Batch \in [1..n -> Drawn]
  BY <1>1, <1>2 DEF Batch, Drawn, BatchInv
<1> QED
  BY <1>1, <1>3, SeqDef DEF Batch

LEMMA FlushDraws ==
  ASSUME PictureInv, phase = "frame"
  PROVE  /\ Flushed.drawn = drawn \o (IF active_palette_atlas = NoAtlas THEN <<>> ELSE Batch)
         /\ Flushed.drawn \in Seq(Drawn)
         /\ Flushed.material \in {SheetOnly} \union {SheetAnd(atlas) : atlas \in Atlas}
         /\ GLSound(Flushed.gl) /\ ForBatch(Flushed.gl)
         /\ SamplerSound(Flushed.gl, Flushed.material)
<1> USE DEF PictureInv
<1>0. drawn \o <<>> = drawn
  BY ConcatEmptySeq DEF BatchInv
<1>1. CASE active_palette_atlas = NoAtlas
  BY <1>0, <1>1 DEF Flushed, GLInv, MaterialInv, BatchInv, SamplerInv
<1>2. CASE active_palette_atlas # NoAtlas /\ batch_vertices = <<>>
  <2>1. Batch = <<>>
    BY <1>2 DEF Batch
  <2> QED
    BY <1>0, <1>2, <2>1 DEF Flushed, GLInv, MaterialInv, BatchInv, SamplerInv
<1>3. CASE active_palette_atlas # NoAtlas /\ batch_vertices # <<>>
  <2> DEFINE m == MaterialWith(batch_material, "palettes", active_palette_atlas)
             g0 == SamplerSet(gl, batch_material, "palettes")
             g1 == MaterialUse(g0, m)
             g == [g1 EXCEPT !.cameraPos = active_camera,
                             !.buffer[gl.arrayBuffer] = batch_vertices]
  <2>1. /\ Flushed.gl = g /\ Flushed.material = m /\ Flushed.drawn = drawn \o GLDraw(g)
    BY <1>3 DEF Flushed
  <2>2. m = SheetAnd(active_palette_atlas) /\ active_palette_atlas \in Atlas
    BY <1>3, MaterialSet DEF BatchInv
  <2>3. UnitOf(batch_material, "palettes") = 1
    BY MaterialSet
  <2>4. GLSound(gl) /\ ForBatch(gl)
    BY DEF GLInv
  <2>5. /\ DOMAIN g0 = GLFields /\ g0.arrayBuffer = "batch" /\ g0.units = gl.units
        /\ g0.buffer = gl.buffer /\ ForBatch(g0)
        /\ DOMAIN g0.samplers = Samplers /\ g0.samplers["palettes"] = 1
        /\ g0.samplers["image"] = 0 /\ g0.samplers["screen_texture"] = 0
    BY <2>3, <2>4 DEF SamplerSet, UseProgram, GLSound, ForBatch, GLFields, Samplers
  <2> HIDE DEF g0
  <2>6. m.textures = <<Sheet, active_palette_atlas>> /\ Len(m.textures) = 2
    BY <2>2 DEF SheetAnd
  <2> HIDE DEF m
  <2>7. /\ DOMAIN g1 = GLFields /\ g1.arrayBuffer = "batch" /\ g1.samplers = g0.samplers
        /\ g1.activeUnit = 1 /\ g1.program = "batch" /\ g1.buffer = gl.buffer /\ ForBatch(g1)
        /\ g1.units = [u \in Unit |-> IF u < 2 THEN <<Sheet, active_palette_atlas>>[u + 1]
                                      ELSE gl.units[u]]
    BY <2>5, <2>6 DEF MaterialUse, ForBatch, GLFields
  <2> HIDE DEF g1
  <2>8. /\ DOMAIN g = GLFields /\ g.arrayBuffer = "batch" /\ g.samplers = g0.samplers
        /\ g.activeUnit = 1 /\ g.program = "batch" /\ g.units = g1.units /\ ForBatch(g)
        /\ g.cameraPos = active_camera
        /\ "batch" \in DOMAIN g.buffer /\ g.buffer["batch"] = batch_vertices
    BY <2>4, <2>7 DEF ForBatch, GLFields, GLSound
  <2> HIDE DEF g
  <2>9. /\ g.units[0] = Sheet /\ g.units[1] = active_palette_atlas
        /\ g.units \in [Unit -> Texture]
    BY <2>2, <2>4, <2>7, <2>8 DEF Unit, Texture, GLSound
  <2>10. GLSound(g)
    BY <2>5, <2>8, <2>9 DEF GLSound, Unit
  <2>11. GLDraw(g) = Batch
    <3>1. <<g.program, g.framebuffer, g.viewport>> = <<"batch", "screen", CANVAS>>
          /\ g.vao = "batch"
      BY <2>8 DEF ForBatch
    <3>2. /\ Sampled(g, "palettes") = active_palette_atlas
          /\ Sampled(g, "image") = Sheet
      BY <2>5, <2>8, <2>9 DEF Sampled
    <3> QED
      BY <2>8, <3>1, <3>2 DEF GLDraw, Batch
  <2>12. Batch \in Seq(Drawn)
    BY <2>2, BatchDrawn
  <2>13. drawn \o Batch \in Seq(Drawn)
    BY <2>12, ConcatProperties DEF BatchInv
  <2>14. SamplerSound(g, m)
    BY <2>5, <2>8 DEF SamplerSound
  <2> QED
    BY <1>3, <2>1, <2>2, <2>8, <2>10, <2>11, <2>13, <2>14
<1> QED
  BY <1>1, <1>2, <1>3

(* What is seen of two runs of rectangles is what is seen of each.         *)
Seen == [rect : Rect, camera : Camera, atlas : Atlas]
LEMMA LooksSeen ==
  ASSUME NEW d \in Seq(Drawn)
  PROVE  /\ Looks(d) \in Seq(Seen) /\ Len(Looks(d)) = Len(d)
         /\ \A k \in 1..Len(d) :
              Looks(d)[k] = [rect |-> d[k].rect, camera |-> d[k].camera, atlas |-> d[k].atlas]
<1>1. DOMAIN d = 1..Len(d) /\ Len(d) \in Nat
  BY LenProperties
<1>2. ASSUME NEW k \in 1..Len(d)
      PROVE  /\ Look(d[k]) = [rect |-> d[k].rect, camera |-> d[k].camera, atlas |-> d[k].atlas]
             /\ Look(d[k]) \in Seen
  <2>1. d[k] \in Drawn
    BY <1>1, <1>2, ElementOfSeq
  <2> QED
    BY <2>1 DEF Look, Drawn, Seen
<1>3. Looks(d) \in [1..Len(d) -> Seen]
  BY <1>1, <1>2 DEF Looks
<1>4. Looks(d) \in Seq(Seen)
  BY <1>1, <1>3, SeqDef
<1>5. Len(Looks(d)) = Len(d)
  BY <1>1, <1>3, <1>4, LenProperties
<1>6. \A k \in 1..Len(d) :
        Looks(d)[k] = [rect |-> d[k].rect, camera |-> d[k].camera, atlas |-> d[k].atlas]
  BY <1>1, <1>2 DEF Looks
<1> QED
  BY <1>4, <1>5, <1>6

LEMMA LooksConcat ==
  ASSUME NEW d \in Seq(Drawn), NEW e \in Seq(Drawn)
  PROVE  Looks(d \o e) = Looks(d) \o Looks(e)
<1>1. /\ d \o e \in Seq(Drawn) /\ Len(d \o e) = Len(d) + Len(e)
      /\ Len(d) \in Nat /\ Len(e) \in Nat
      /\ \A k \in 1..(Len(d) + Len(e)) : (d \o e)[k] = IF k <= Len(d) THEN d[k] ELSE e[k - Len(d)]
  BY ConcatProperties, LenProperties
<1>2. /\ Looks(d) \in Seq(Seen) /\ Looks(e) \in Seq(Seen) /\ Looks(d \o e) \in Seq(Seen)
      /\ Len(Looks(d)) = Len(d) /\ Len(Looks(e)) = Len(e) /\ Len(Looks(d \o e)) = Len(d) + Len(e)
  BY <1>1, LooksSeen
<1>3. /\ Looks(d) \o Looks(e) \in Seq(Seen) /\ Len(Looks(d) \o Looks(e)) = Len(d) + Len(e)
      /\ \A k \in 1..(Len(d) + Len(e)) :
           (Looks(d) \o Looks(e))[k] = IF k <= Len(d) THEN Looks(d)[k] ELSE Looks(e)[k - Len(d)]
  BY <1>2, ConcatProperties
<1>4. ASSUME NEW k \in 1..(Len(d) + Len(e))
      PROVE  Looks(d \o e)[k] = (Looks(d) \o Looks(e))[k]
  <2>0. Looks(d \o e)[k] = [rect |-> (d \o e)[k].rect, camera |-> (d \o e)[k].camera,
                            atlas |-> (d \o e)[k].atlas]
    <3>1. k \in 1..Len(d \o e)
      BY <1>1
    <3> QED
      BY <1>1, <3>1, LooksSeen
  <2>1. CASE k <= Len(d)
    <3>1. k \in 1..Len(d)
      BY <1>1, <2>1
    <3>2. Looks(d)[k] = [rect |-> d[k].rect, camera |-> d[k].camera, atlas |-> d[k].atlas]
      BY <3>1, LooksSeen
    <3>3. (d \o e)[k] = d[k] /\ (Looks(d) \o Looks(e))[k] = Looks(d)[k]
      BY <1>1, <1>3, <2>1
    <3> QED
      BY <2>0, <3>2, <3>3
  <2>2. CASE ~(k <= Len(d))
    <3>1. k - Len(d) \in 1..Len(e)
      BY <1>1, <2>2
    <3>2. Looks(e)[k - Len(d)] = [rect |-> e[k - Len(d)].rect, camera |-> e[k - Len(d)].camera,
                                  atlas |-> e[k - Len(d)].atlas]
      BY <3>1, LooksSeen
    <3>3. /\ (d \o e)[k] = e[k - Len(d)]
          /\ (Looks(d) \o Looks(e))[k] = Looks(e)[k - Len(d)]
      BY <1>1, <1>3, <2>2
    <3> QED
      BY <2>0, <3>2, <3>3
  <2> QED
    BY <2>1, <2>2
<1> QED
  BY <1>1, <1>2, <1>3, <1>4, SeqEqual

(* What is pending is what a flush would draw, as it is seen.              *)
LEMMA PendingSeen ==
  ASSUME PictureInv
  PROVE  /\ Pending \in Seq(Seen)
         /\ active_palette_atlas = NoAtlas => Pending = <<>>
         /\ active_palette_atlas # NoAtlas => Batch \in Seq(Drawn) /\ Pending = Looks(Batch)
<1>1. CASE active_palette_atlas = NoAtlas
  BY <1>1 DEF Pending
<1>2. CASE active_palette_atlas # NoAtlas
  <2>1. /\ active_palette_atlas \in Atlas
        /\ Batch \in Seq(Drawn) /\ DOMAIN Batch = DOMAIN batch_vertices
    BY <1>2, BatchDrawn DEF PictureInv, BatchInv
  <2>2. Pending = Looks(Batch)
    BY <1>2, <2>1 DEF Pending, Looks, Look, Batch
  <2> QED
    BY <1>2, <2>1, <2>2, LooksSeen
<1> QED
  BY <1>1, <1>2

LEMMA FlushSeen ==
  ASSUME PictureInv, phase = "frame"
  PROVE  Looks(Flushed.drawn) = Looks(drawn) \o Pending
<1>1. CASE active_palette_atlas = NoAtlas
  <2>1. Looks(drawn) \o <<>> = Looks(drawn) /\ drawn \o <<>> = drawn
    BY LooksSeen, ConcatEmptySeq DEF PictureInv, BatchInv
  <2> QED
    BY <1>1, <2>1, FlushDraws, PendingSeen
<1>2. CASE active_palette_atlas # NoAtlas
  <2>1. Flushed.drawn = drawn \o Batch /\ drawn \in Seq(Drawn)
    BY <1>2, FlushDraws DEF PictureInv, BatchInv
  <2> QED
    BY <1>2, <2>1, PendingSeen, LooksConcat
<1> QED
  BY <1>1, <1>2

(* end() shows the screen's texture, whatever was bound before.            *)
LEMMA EndPresents ==
  ASSUME PictureInv, End
  PROVE  GLSound(gl') /\ Sampled(gl', "screen_texture") = Screen /\ shown' = drawn' /\ SamplerInv'
<1>1. GLSound(Flushed.gl) /\ SamplerSound(Flushed.gl, Flushed.material)
  BY FlushDraws DEF End
<1>2. gl' = Presented(Flushed.gl) /\ GLSound(gl')
  <2> DEFINE g == Flushed.gl
  <2>1. gl' = Presented(g) /\ GLSound(g)
    BY <1>1 DEF End
  <2> HIDE DEF g
  <2>2. GLSound(gl')
    BY <2>1 DEF Presented, BindTexture, GLSound, GLFields, Unit, Texture
  <2> QED
    BY <2>1, <2>2 DEF g
<1>3. Sampled(gl', "screen_texture") = Screen
  <2> DEFINE g == Flushed.gl
  <2>1. gl' = Presented(g) /\ GLSound(g)
    BY <1>1, <1>2
  <2> HIDE DEF g
  <2>2. /\ gl'.samplers = g.samplers /\ gl'.units = [g.units EXCEPT ![0] = Screen]
        /\ g.samplers["screen_texture"] = 0 /\ g.units \in [Unit -> Texture]
    BY <2>1 DEF Presented, BindTexture, GLSound, GLFields
  <2> QED
    BY <2>2 DEF Unit, Sampled
<1>4. SamplerInv'
  <2> DEFINE g == Flushed.gl
             m == Flushed.material
  <2>1. gl' = Presented(g) /\ batch_material' = m /\ GLSound(g) /\ SamplerSound(g, m)
    BY <1>1 DEF End
  <2> HIDE DEF g, m
  <2>2. gl'.samplers = g.samplers
    BY <2>1 DEF Presented, BindTexture, GLSound, GLFields
  <2> QED
    BY <2>1, <2>2 DEF SamplerInv, SamplerSound
<1> QED
  BY <1>2, <1>3, <1>4 DEF End

LEMMA PictureInvInit == RendererInit => PictureInv
<1> SUFFICES ASSUME RendererInit
             PROVE  PictureInv
  OBVIOUS
<1> DEFINE none == [names |-> <<>>, textures |-> <<>>]
<1>1. UnitOf(none, "image") = 0
  BY DEF UnitOf
<1>2. MaterialWith(none, "image", Sheet) = SheetOnly
  <2>1. Len(none.names) = 0
    OBVIOUS
  <2>2. Append(<<>>, "image") = <<"image">> /\ Append(<<>>, Sheet) = <<Sheet>>
    OBVIOUS
  <2> QED
    BY <1>1, <2>1, <2>2 DEF MaterialWith, SheetOnly
<1>3. MaterialInv
  BY <1>2 DEF RendererInit, AfterInit, MaterialInv
<1> DEFINE g0 == [program |-> "none", framebuffer |-> "window", vao |-> "none",
                  arrayBuffer |-> "batch", activeUnit |-> 0,
                  units |-> [u \in Unit |-> NoTexture],
                  samplers |-> [image |-> 0, palettes |-> 0, screen_texture |-> 0],
                  buffer |-> [batch |-> <<>>, quad |-> <<"quad">>, none |-> <<>>],
                  cameraPos |-> CHOOSE c \in Camera : TRUE,
                  viewport |-> CANVAS]
           g1 == TextureLoad(TextureLoad(g0, Screen), Sheet)
<1>4. gl = SamplerSet(g1, none, "image")
  BY DEF RendererInit, AfterInit
<1>5. /\ DOMAIN g0 = GLFields /\ g0.arrayBuffer = "batch" /\ g0.activeUnit = 0
      /\ g0.units \in [Unit -> Texture] /\ DOMAIN g0.samplers = Samplers
      /\ g0.samplers["image"] = 0 /\ g0.samplers["screen_texture"] = 0
      /\ "batch" \in DOMAIN g0.buffer
  BY DEF GLFields, Samplers, Unit, Texture
<1> HIDE DEF g0
<1>6. GLSound(g0)
  BY <1>5 DEF GLSound, Unit
<1>7. GLSound(g1)
  BY <1>6, TextureLoaded DEF Texture
<1> HIDE DEF g1
<1>8. GLSound(gl)
  BY <1>1, <1>4, <1>7 DEF SamplerSet, UseProgram, GLSound, GLFields, Samplers
<1>9. SamplerInv
  BY <1>2 DEF RendererInit, AfterInit, SamplerInv, SamplerSound
<1> QED
  BY <1>3, <1>8, <1>9, RendererAssumption DEF RendererInit, PictureInv, GLInv, BatchInv

LEMMA PictureInvStep == PictureInv /\ [RendererNext]_rendererVars => PictureInv'
<1> SUFFICES ASSUME PictureInv, [RendererNext]_rendererVars
             PROVE  PictureInv'
  OBVIOUS
<1>1. ASSUME NEW camera \in Camera, Begin(camera) PROVE PictureInv'
  <2>1. GLSound(gl)
    BY DEF PictureInv, GLInv
  <2>2. GLSound(gl') /\ ForBatch(gl') /\ gl'.samplers = gl.samplers
    BY <1>1, <2>1 DEF Begin, BindFramebuffer, GLSound, ForBatch, GLFields
  <2>3. SamplerInv'
    BY <1>1, <2>2 DEF Begin, PictureInv, SamplerInv, SamplerSound
  <2>4. batch_vertices' = <<>> /\ draws' = 0 /\ Len(batch_vertices') = 0
    BY <1>1 DEF Begin, PictureInv, BatchInv
  <2> QED
    BY <1>1, <2>2, <2>3, <2>4, RendererAssumption DEF Begin, PictureInv, GLInv, MaterialInv, BatchInv
<1>2. ASSUME NEW rect \in Rect, NEW atlas \in Atlas \union {NoAtlas}, DrawRect(rect, atlas)
      PROVE  PictureInv'
  <2>1. draws' \in 0..MaxDraws /\ draws' = draws + 1 /\ draws \in Nat
    BY <1>2, RendererAssumption DEF DrawRect, PictureInv, BatchInv
  <2>2. CASE atlas # active_palette_atlas
    <3>1. phase = "frame" /\ UNCHANGED <<phase, active_camera, shown>>
      BY <1>2 DEF DrawRect
    <3>2. /\ gl' = Flushed.gl /\ batch_material' = Flushed.material /\ drawn' = Flushed.drawn
          /\ active_palette_atlas' = atlas /\ batch_vertices' = <<rect>>
      BY <1>2, <2>2 DEF DrawRect
    <3>3. /\ GLSound(gl') /\ ForBatch(gl') /\ MaterialInv' /\ drawn' \in Seq(Drawn) /\ SamplerInv'
      BY <3>1, <3>2, FlushDraws DEF MaterialInv, SamplerInv
    <3>4. Len(batch_vertices') <= draws'
      BY <2>1, <3>2
    <3> QED
      BY <2>1, <3>1, <3>2, <3>3, <3>4 DEF PictureInv, GLInv, BatchInv
  <2>3. CASE atlas = active_palette_atlas
    <3>1. /\ Append(batch_vertices, rect) \in Seq(Rect) /\ Len(batch_vertices) \in Nat
          /\ Len(Append(batch_vertices, rect)) = Len(batch_vertices) + 1
      BY AppendProperties, LenProperties DEF PictureInv, BatchInv
    <3>2. batch_vertices' = Append(batch_vertices, rect) /\ UNCHANGED <<gl, batch_material>>
      BY <1>2, <2>3 DEF DrawRect
    <3>3. Len(batch_vertices') <= draws'
      BY <2>1, <3>1, <3>2 DEF PictureInv, BatchInv
    <3>4. SamplerInv'
      BY <3>2 DEF PictureInv, SamplerInv, SamplerSound
    <3> QED
      BY <1>2, <2>1, <2>3, <3>1, <3>2, <3>3, <3>4 DEF DrawRect, PictureInv, GLInv, MaterialInv, BatchInv
  <2> QED
    BY <2>2, <2>3
<1>3. CASE End
  <2>1. GLSound(gl')
    BY <1>3, EndPresents
  <2>2. SamplerInv' /\ Len(batch_vertices') = 0
    BY <1>3, EndPresents DEF End
  <2> QED
    BY <1>3, <2>1, <2>2, EndPresents, FlushDraws DEF End, PictureInv, GLInv, MaterialInv, BatchInv
<1>4. ASSUME NEW texture \in Atlas, LoadTexture(texture) PROVE PictureInv'
  <2>1. GLSound(gl') /\ gl'.samplers = gl.samplers
    BY <1>4, TextureLoaded DEF LoadTexture, PictureInv, GLInv, Texture
  <2>2. SamplerInv'
    BY <1>4, <2>1 DEF LoadTexture, own, PictureInv, SamplerInv, SamplerSound
  <2> QED
    BY <1>4, <2>1, <2>2 DEF LoadTexture, own, PictureInv, GLInv, MaterialInv, BatchInv
<1>5. ASSUME NEW size \in WindowSize, UpdateViewportSize(size) PROVE PictureInv'
  BY <1>5 DEF UpdateViewportSize, PictureInv, GLInv, MaterialInv, BatchInv, SamplerInv, SamplerSound
<1>6. CASE UNCHANGED rendererVars
  BY <1>6 DEF rendererVars, own, PictureInv, GLInv, MaterialInv, BatchInv, SamplerInv, SamplerSound
<1> QED
  BY <1>1, <1>2, <1>3, <1>4, <1>5, <1>6 DEF RendererNext

(* Begin, end and whatever is drawn are steps of the picture; flushes,     *)
(* loads and resizes are not seen.                                         *)
Canvas == Looks(drawn) \o Pending
PictureStep ==
  Picture!PictureNext \/ UNCHANGED <<active_camera, Canvas, Looks(shown)>>

LEMMA SeenAppend ==
  ASSUME NEW s \in Seq(Seen), NEW t \in Seq(Seen), NEW d \in Seen
  PROVE  /\ s \o Append(t, d) = Append(s \o t, d)
         /\ s \o <<d>> = Append(s, d)
  OBVIOUS

LEMMA DrawPictures ==
  ASSUME PictureInv, PictureInv', NEW rect \in Rect, NEW atlas \in Atlas \union {NoAtlas},
         DrawRect(rect, atlas)
  PROVE  PictureStep
<1> DEFINE d == [rect |-> rect, atlas |-> atlas, camera |-> active_camera]
<1>1. /\ Looks(drawn) \in Seq(Seen) /\ Pending \in Seq(Seen)
      /\ Canvas \in Seq(Seen)
  <2>1. Looks(drawn) \in Seq(Seen) /\ Pending \in Seq(Seen)
    BY LooksSeen, PendingSeen DEF PictureInv, BatchInv
  <2> QED
    BY <2>1, ConcatProperties DEF Canvas
<1>2. /\ phase = "frame" /\ UNCHANGED <<active_camera, shown>> /\ active_palette_atlas' = atlas
      /\ active_camera \in Camera
  BY DEF DrawRect, PictureInv, BatchInv
<1>3. UNCHANGED Looks(shown)
  BY <1>2 DEF Looks, Look
<1>4. atlas \in Atlas => d \in Seen
  BY <1>2 DEF Seen
<1>5. CASE atlas # active_palette_atlas
  <2>1. drawn' = Flushed.drawn /\ batch_vertices' = <<rect>>
    BY <1>5 DEF DrawRect
  <2>2. Looks(drawn') = Canvas
    BY <1>2, <2>1, FlushSeen DEF Canvas, Looks, Look
  <2>3. CASE atlas = NoAtlas
    <3>1. Pending' = <<>>
      BY <1>2, <2>3, RendererAssumption DEF Pending
    <3>2. Canvas' = Canvas
      BY <1>1, <2>2, <3>1, ConcatEmptySeq DEF Canvas
    <3> QED
      BY <1>2, <1>3, <3>2 DEF PictureStep
  <2>4. CASE atlas \in Atlas
    <3>1. Pending' = <<d>>
      BY <1>2, <2>1, <2>4, RendererAssumption DEF Pending
    <3>2. Canvas' = Append(Canvas, d)
      BY <1>1, <1>4, <2>2, <2>4, <3>1, SeenAppend DEF Canvas
    <3>3. Picture!Draw(rect, atlas)
      BY <1>2, <1>3, <3>2 DEF Picture!Draw, Canvas
    <3> QED
      BY <2>4, <3>3 DEF PictureStep, Picture!PictureNext
  <2> QED
    BY <2>3, <2>4
<1>6. CASE atlas = active_palette_atlas
  <2>1. batch_vertices' = Append(batch_vertices, rect) /\ UNCHANGED <<drawn, active_palette_atlas>>
    BY <1>6 DEF DrawRect
  <2>2. UNCHANGED Looks(drawn)
    BY <2>1 DEF Looks, Look
  <2>3. CASE atlas = NoAtlas
    <3>1. Pending' = <<>> /\ Pending = <<>>
      BY <1>2, <1>6, <2>3 DEF Pending
    <3> QED
      BY <1>2, <1>3, <2>2, <3>1 DEF PictureStep, Canvas
  <2>4. CASE atlas \in Atlas
    <3>1. active_palette_atlas # NoAtlas /\ active_palette_atlas' # NoAtlas
      BY <1>2, <1>6, <2>4, RendererAssumption
    <3>2. PICK n \in Nat : n = Len(batch_vertices) /\ DOMAIN batch_vertices = 1..n
      BY LenProperties DEF PictureInv, BatchInv
    <3>3. /\ DOMAIN batch_vertices' = 1..(n + 1) /\ batch_vertices'[n + 1] = rect
          /\ \A k \in 1..n : batch_vertices'[k] = batch_vertices[k]
      <4>1. batch_vertices \in Seq(Rect)
        BY DEF PictureInv, BatchInv
      <4> QED
        BY <2>1, <3>2, <4>1, AppendProperties, LenProperties
    <3>4. Pending' = Append(Pending, d)
      <4>1. Pending = [k \in 1..n |-> [rect |-> batch_vertices[k], camera |-> active_camera, atlas |-> atlas]]
        BY <1>6, <3>1, <3>2 DEF Pending
      <4>2. Pending' = [k \in 1..(n + 1) |-> [rect |-> batch_vertices'[k], camera |-> active_camera, atlas |-> atlas]]
        BY <1>2, <3>1, <3>3 DEF Pending
      <4>3. Len(Pending) = n
        BY <1>1, <3>2, <4>1, LenProperties
      <4>4. /\ Append(Pending, d) \in Seq(Seen) /\ Len(Append(Pending, d)) = n + 1
            /\ Append(Pending, d)[n + 1] = d
            /\ \A k \in 1..n : Append(Pending, d)[k] = Pending[k]
        BY <1>1, <1>4, <2>4, <4>3, AppendProperties
      <4>5. Append(Pending, d) = [k \in 1..(n + 1) |-> Append(Pending, d)[k]]
        BY <4>4, LenProperties
      <4>6. ASSUME NEW k \in 1..(n + 1)
            PROVE  [rect |-> batch_vertices'[k], camera |-> active_camera, atlas |-> atlas]
                     = Append(Pending, d)[k]
        <5>1. CASE k = n + 1
          BY <3>3, <4>4, <5>1
        <5>2. CASE k \in 1..n
          BY <3>3, <4>1, <4>4, <5>2
        <5>3. k = n + 1 \/ k \in 1..n
          BY <3>2
        <5> QED
          BY <5>1, <5>2, <5>3
      <4> QED
        BY <4>2, <4>5, <4>6
    <3>5. Canvas' = Append(Canvas, d)
      BY <1>1, <1>4, <2>2, <2>4, <3>4, SeenAppend DEF Canvas
    <3>6. Picture!Draw(rect, atlas)
      BY <1>2, <1>3, <3>5 DEF Picture!Draw, Canvas
    <3> QED
      BY <2>4, <3>6 DEF PictureStep, Picture!PictureNext
  <2> QED
    BY <2>3, <2>4
<1> QED
  BY <1>5, <1>6

LEMMA NothingPending ==
  ASSUME PictureInv, phase = "idle" \/ active_palette_atlas = NoAtlas
  PROVE  Pending = <<>> /\ Canvas = Looks(drawn)
<1>1. Pending = <<>>
  BY DEF Pending, PictureInv, BatchInv
<1>2. Looks(drawn) \in Seq(Seen)
  BY LooksSeen DEF PictureInv, BatchInv
<1> QED
  BY <1>1, <1>2, ConcatEmptySeq DEF Canvas

LEMMA OthersPicture ==
  ASSUME PictureInv, PictureInv',
         \/ \E camera \in Camera : Begin(camera)
         \/ End
         \/ \E texture \in Atlas : LoadTexture(texture)
         \/ \E size \in WindowSize : UpdateViewportSize(size)
         \/ UNCHANGED rendererVars
  PROVE  PictureStep
<1>1. ASSUME NEW camera \in Camera, Begin(camera)
      PROVE  PictureStep
  <2>1. /\ active_camera' = camera /\ UNCHANGED shown /\ drawn' = <<>>
        /\ active_palette_atlas' = NoAtlas
    BY <1>1 DEF Begin
  <2>2. Pending' = <<>>
    BY <2>1 DEF Pending
  <2>3. Looks(drawn') = <<>>
    BY <2>1 DEF Looks
  <2>4. Canvas' = <<>>
    BY <2>2, <2>3 DEF Canvas
  <2>5. Picture!Begin(camera)
    BY <2>1, <2>4 DEF Picture!Begin, Canvas, Looks, Look
  <2> QED
    BY <2>5 DEF PictureStep, Picture!PictureNext
<1>2. CASE End
  <2>1. /\ phase = "frame" /\ phase' = "idle" /\ drawn' = Flushed.drawn
        /\ UNCHANGED <<active_camera, active_palette_atlas>> /\ batch_vertices' = <<>>
    BY <1>2 DEF End
  <2>2. shown' = drawn'
    BY <1>2, EndPresents
  <2>3. Pending' = <<>>
    BY <2>1 DEF Pending
  <2>4. Looks(Flushed.drawn) = Canvas
    BY <2>1, FlushSeen DEF Canvas
  <2>5. Looks(drawn') = Canvas /\ Looks(shown') = Canvas
    BY <2>1, <2>2, <2>4
  <2>6. Canvas \in Seq(Seen)
    BY <2>1, <2>4, LooksSeen, FlushDraws
  <2>7. Canvas' = Looks(drawn') \o Pending'
    BY DEF Canvas, Looks, Look
  <2>8. Canvas' = Canvas
    BY <2>3, <2>5, <2>6, <2>7, ConcatEmptySeq
  <2>9. Looks(shown)' = Canvas
    BY <2>5 DEF Looks, Look
  <2>10. Picture!End
    BY <2>1, <2>8, <2>9 DEF Picture!End, Canvas
  <2> QED
    BY <2>10 DEF PictureStep, Picture!PictureNext
<1>3. ASSUME \/ \E texture \in Atlas : LoadTexture(texture)
             \/ \E size \in WindowSize : UpdateViewportSize(size)
             \/ UNCHANGED rendererVars
      PROVE  PictureStep
  <2>1. UNCHANGED <<active_camera, drawn, shown, active_palette_atlas, batch_vertices>>
    BY <1>3 DEF LoadTexture, UpdateViewportSize, rendererVars, own
  <2> QED
    BY <2>1 DEF PictureStep, Canvas, Pending, Looks, Look
<1> QED
  BY <1>1, <1>2, <1>3

(* The renderer implements the picture: each frame shows the rectangles    *)
(* drawn in it, in order, each through its own palette atlas and the       *)
(* frame's camera, whatever the batches, materials and bindings do.        *)
THEOREM RendererImplementsPicture == RendererSpec => RefinesPicture
<1>1. RendererInit => PictureInv /\ Picture!PictureInit
  <2>1. RendererInit => Canvas = <<>> /\ Looks(shown) = <<>>
    BY DEF RendererInit, Canvas, Looks, Pending
  <2> QED
    BY <2>1, PictureInvInit DEF Picture!PictureInit, Canvas
<1>2. PictureInv /\ [RendererNext]_rendererVars => PictureInv'
  BY PictureInvStep
<1>3. PictureInv /\ PictureInv' /\ [RendererNext]_rendererVars
        => [Picture!PictureNext]_(Picture!pictureVars)
  <2> SUFFICES ASSUME PictureInv, PictureInv', [RendererNext]_rendererVars
               PROVE  PictureStep
    BY DEF PictureStep, Picture!pictureVars, Canvas
  <2> QED
    BY DrawPictures, OthersPicture DEF RendererNext
<1> QED
  BY <1>1, <1>2, <1>3, PTL DEF RendererSpec, RefinesPicture, Picture!Picturing

(* Every variable of the renderer keeps its type, no more rectangles wait  *)
(* in the batch than the frame has drawn and none between two frames, and  *)
(* each sampler the material knows reads the unit that the material binds  *)
(* its texture to.                                                         *)
THEOREM RendererTyped == RendererSpec => []RendererTypeOK
<1>1. PictureInv /\ ViewportInv => RendererTypeOK
  <2> SUFFICES ASSUME PictureInv, ViewportInv
               PROVE  RendererTypeOK
    OBVIOUS
  <2>1. /\ batch_material.textures \in Seq(Texture)
        /\ Len(batch_material.names) = Len(batch_material.textures)
        /\ Len(batch_material.names) \in 1..2
        /\ \A k \in DOMAIN batch_material.names : gl.samplers[batch_material.names[k]] = k - 1
    <3>0. gl.samplers["image"] = 0
      BY DEF PictureInv, GLInv, GLSound
    <3>1. CASE batch_material = SheetOnly
      <4>1. <<Sheet>> \in Seq(Texture)
        BY DEF Texture
      <4> QED
        BY <3>0, <3>1, <4>1 DEF SheetOnly
    <3>2. ASSUME NEW atlas \in Atlas, batch_material = SheetAnd(atlas)
          PROVE  /\ batch_material.textures \in Seq(Texture)
                 /\ Len(batch_material.names) = 2 /\ Len(batch_material.textures) = 2
                 /\ \A k \in DOMAIN batch_material.names :
                      gl.samplers[batch_material.names[k]] = k - 1
      <4>1. <<Sheet, atlas>> \in Seq(Texture)
        BY DEF Texture
      <4>2. batch_material.names = <<"image", "palettes">> /\ batch_material.textures = <<Sheet, atlas>>
        BY <3>2 DEF SheetAnd
      <4>3. batch_material # SheetOnly
        <5>1. SheetOnly.names = <<"image">> /\ Len(SheetOnly.names) = 1 /\ Len(batch_material.names) = 2
          BY <4>2 DEF SheetOnly
        <5> QED
          BY <5>1
      <4>4. gl.samplers["palettes"] = 1
        BY <4>3 DEF PictureInv, SamplerInv, SamplerSound
      <4>5. DOMAIN batch_material.names = 1..2
        BY <4>2
      <4>6. \A k \in DOMAIN batch_material.names : gl.samplers[batch_material.names[k]] = k - 1
        BY <3>0, <4>2, <4>4, <4>5
      <4> QED
        BY <4>1, <4>2, <4>6
    <3> QED
      BY <3>1, <3>2 DEF PictureInv, MaterialInv
  <2>2. DOMAIN viewport_rect = {"x", "y", "width", "height"}
    BY DEF ViewportInv, ViewportRect
  <2> QED
    BY <2>1, <2>2 DEF PictureInv, BatchInv, GLInv, GLSound, ViewportInv, RendererTypeOK
<1> QED
  BY <1>1, PictureInvInit, PictureInvStep, ViewportInvInit, ViewportInvNext, PTL DEF RendererSpec

-----------------------------------------------------------------------------
(* The shaders.                                                            *)

(* The programs are a function; one that links comes from sources that     *)
(* compile, and only such a one is used.  The setters write to the program *)
(* of the object used last.                                                *)
ProgramsInv ==
  /\ programs = [p \in DOMAIN programs |-> programs[p]]
  /\ \A p \in DOMAIN programs : programs[p].linked => {programs[p].vs, programs[p].fs} \subseteq Source
  /\ current # 0 => programs[current].linked
  /\ user \in Shader \union {Nobody}

(* A load has made just the shaders of its step, and deletes those of its  *)
(* program at the end: no other program has one that is not deleted.       *)
LoadInv ==
  /\ loading.step = "vertex" => loose = {"vertex"}
  /\ loading.step = "fragment" => loose = Kind /\ loading.vs # Broken
  /\ loading.step \in {"idle", "linked"} => loose = {}
  /\ loading.step = "linked" => m_id[loading.s] # 0
  /\ \A p \in DOMAIN programs :
       programs[p].kept = {} \/ (loading.step = "linked" /\ p = m_id[loading.s])

ShaderInv == ShaderTypeOK /\ NothingLeaks /\ UniformsAsAsked /\ ProgramsInv /\ LoadInv

(* What a program is made of.                                              *)
Programs == [vs : Source \union {NoFile}, fs : Source \union {NoFile}, kept : SUBSET Kind,
             linked : BOOLEAN, uniforms : [Uniform -> Setting \union {NoSetting}]]
Loads == [step : {"vertex", "fragment", "linked"}, s : Shader, vs : FileContent, fs : FileContent]

(* A load is idle or has its objects and files.                            *)
LEMMA LoadSteps ==
  ASSUME ShaderInv
  PROVE  /\ loading = Idle <=> loading.step = "idle"
         /\ loading # Idle => loading \in Loads
         /\ loading = Idle => loose = {} /\ \A p \in DOMAIN programs : programs[p].kept = {}
BY DEF ShaderInv, ShaderTypeOK, LoadInv, Idle, Loads

(* There are no programs at the start.                                     *)
LEMMA ShaderInvInit == ShaderInit => ShaderInv
<1> SUFFICES ASSUME ShaderInit
             PROVE  ShaderInv
  OBVIOUS
<1>1. /\ m_id = [s \in Shader |-> 0] /\ loose = {} /\ programs = <<>> /\ doomed = {} /\ current = 0
      /\ loading = Idle /\ user = Nobody /\ asked = [s \in Shader |-> NoUniforms]
  BY DEF ShaderInit
<1>2. DOMAIN programs = {} /\ programs = [p \in DOMAIN programs |-> programs[p]]
  BY <1>1
<1>3. NoUniforms \in [Uniform -> Setting \union {NoSetting}]
  BY DEF NoUniforms
<1>4. LoadInv
  BY <1>1, <1>2 DEF LoadInv, Idle
<1>5. ShaderTypeOK
  BY <1>1, <1>2, <1>3 DEF ShaderTypeOK
<1> QED
  BY <1>1, <1>2, <1>4, <1>5 DEF ShaderInv, NothingLeaks, UniformsAsAsked, ProgramsInv

(* The steps of a load before its program change no program.               *)
LEMMA BeforeLink ==
  ASSUME ShaderInv, UNCHANGED <<m_id, programs, doomed, current, user, asked>>,
         loading.step # "linked", loose' \subseteq Kind,
         \/ loading' = Idle /\ loose' = {}
         \/ loading' \in Loads /\ loading'.step = "vertex" /\ loose' = {"vertex"}
         \/ loading' \in Loads /\ loading'.step = "fragment" /\ loose' = Kind /\ loading'.vs # Broken
  PROVE  ShaderInv'
<1>1. \A p \in DOMAIN programs : programs[p].kept = {}
  BY DEF ShaderInv, LoadInv
<1>2. LoadInv'
  BY <1>1 DEF LoadInv, Idle
<1>3. ShaderTypeOK'
  BY DEF ShaderInv, ShaderTypeOK, Loads
<1>4. NothingLeaks'
  <2>1. loading' = Idle => loose' = {}
    BY DEF Idle, Loads
  <2> QED
    BY <1>1, <2>1 DEF ShaderInv, NothingLeaks
<1> QED
  BY <1>2, <1>3, <1>4 DEF ShaderInv, UniformsAsAsked, ProgramsInv

(* A load begins, makes its second shader, or is given up.                 *)
LEMMA StartStep ==
  ASSUME ShaderInv, loading = Idle, NEW s \in Shader, NEW vs \in FileContent, NEW fs \in FileContent,
         StartLoad(s, vs, fs)
  PROVE  ShaderInv'
<1>1. /\ loose' = loose \union {"vertex"} /\ loading' = [step |-> "vertex", s |-> s, vs |-> vs, fs |-> fs]
      /\ UNCHANGED <<m_id, programs, doomed, current, user, asked>>
  BY DEF StartLoad, CreateShader
<1>2. loose' = {"vertex"} /\ loading.step # "linked"
  BY <1>1, LoadSteps DEF Idle
<1>3. loading' \in Loads /\ loading'.step = "vertex"
  BY <1>1 DEF Loads
<1> QED
  BY <1>1, <1>2, <1>3, BeforeLink DEF Kind

LEMMA VertexStep ==
  ASSUME ShaderInv, VertexFails \/ VertexCompiles \/ FragmentFails
  PROVE  ShaderInv'
<1>1. /\ loading.step \in {"vertex", "fragment"} /\ UNCHANGED <<m_id, programs, doomed, current, user, asked>>
      /\ loading \in Loads
  BY LoadSteps DEF VertexFails, VertexCompiles, FragmentFails, GiveUp
<1>2. CASE VertexFails \/ FragmentFails
  <2>1. loading' = Idle /\ loose' = {}
    BY <1>2 DEF VertexFails, FragmentFails, GiveUp, DeleteShaders, ShaderInv, LoadInv
  <2> QED
    BY <1>1, <2>1, BeforeLink
<1>3. CASE VertexCompiles
  <2>1. loose' = Kind /\ loading' = [loading EXCEPT !.step = "fragment"]
    BY <1>3 DEF VertexCompiles, CreateShader, ShaderInv, LoadInv, Kind
  <2>2. loading' \in Loads /\ loading'.step = "fragment" /\ loading'.vs = loading.vs
    BY <1>1, <2>1 DEF Loads
  <2>3. loading.vs # Broken
    BY <1>3, ShaderAssumption DEF VertexCompiles, MayCompile
  <2> QED
    BY <1>1, <2>1, <2>2, <2>3, BeforeLink
<1> QED
  BY <1>2, <1>3

(* A load that compiles: the object gives up its program, which lives on   *)
(* if it is in use, and gets one under a name that nobody has.             *)
LEMMA LinkStep ==
  ASSUME ShaderInv, Link
  PROVE  ShaderInv'
<1>0. PICK s \in Shader : s = loading.s /\ loading.step = "fragment" /\ loading \in Loads
  BY LoadSteps DEF Link, Loads
<1> DEFINE old == {m_id[s]} \ {0}
           program == NewProgram
<1>1. PICK id \in Name \ (DOMAIN programs \ (old \ {current})) :
        /\ m_id' = [m_id EXCEPT ![s] = id]
        /\ programs' = Linked(Without(programs, old \ {current}), id, program)
  BY <1>0 DEF Link
<1>2. /\ loading.vs \in Source \union {NoFile} /\ loading.fs \in Source \union {NoFile}
      /\ doomed' = doomed \union (old \intersect {current})
      /\ asked' = [asked EXCEPT ![s] = NoUniforms]
      /\ user' = IF user = s THEN Nobody ELSE user
      /\ loading' = [loading EXCEPT !.step = "linked"] /\ current' = current
      /\ loose' = (loose \ Kind) \union UNION {programs[p].kept : p \in old \ {current}}
  <2>1. loading.fs \in Source \union {NoFile}
    BY DEF Link, MayCompile
  <2>2. loading.vs \in Source \union {NoFile}
    BY <1>0 DEF ShaderInv, LoadInv, Loads, FileContent
  <2> QED
    BY <1>0, <2>1, <2>2 DEF Link
<1>3. /\ program \in Programs
      /\ program.linked => {program.vs, program.fs} \subseteq Source
      /\ program.uniforms = NoUniforms /\ NoUniforms \in [Uniform -> Setting \union {NoSetting}]
      /\ program.kept = Kind
  BY <1>2 DEF NoUniforms, NewProgram, Programs
<1> HIDE DEF program
<1>4. /\ DOMAIN programs' = (DOMAIN programs \ (old \ {current})) \union {id}
      /\ programs'[id] = program
      /\ \A p \in DOMAIN programs' : p # id => p \in DOMAIN programs /\ programs'[p] = programs[p]
      /\ programs' = [p \in DOMAIN programs' |-> programs'[p]]
  BY <1>1 DEF Linked, Without
<1>5. /\ m_id'[s] = id /\ \A t \in Shader : t # s => m_id'[t] = m_id[t]
      /\ m_id \in [Shader -> Name \union {0}] /\ m_id' \in [Shader -> Name \union {0}]
      /\ id \in Name /\ id # 0 /\ id # current /\ id \notin doomed
      /\ \A t \in Shader : t # s => m_id[t] # id
  BY <1>1, ShaderAssumption DEF ShaderInv, ShaderTypeOK, NothingLeaks
<1>6. \A t \in Shader : m_id[t] # 0 => m_id[t] \in DOMAIN programs
  BY <1>5 DEF ShaderInv, NothingLeaks
<1>7. /\ loading' \in Loads /\ loading'.step = "linked" /\ loading'.s = s /\ loading' # Idle
      /\ loose' = {}
  <2>1. loading' \in Loads /\ loading'.step = "linked" /\ loading'.s = s
    BY <1>0, <1>2 DEF Loads
  <2>2. \A p \in old \ {current} : programs[p].kept = {}
    BY <1>0, <1>6 DEF ShaderInv, LoadInv
  <2>3. loose' = {}
    BY <1>0, <1>2, <2>2 DEF ShaderInv, LoadInv
  <2> QED
    BY <2>1, <2>3 DEF Idle
<1>8. NothingLeaks'
  BY <1>2, <1>4, <1>5, <1>6, <1>7 DEF ShaderInv, NothingLeaks
<1>9. LoadInv'
  BY <1>0, <1>4, <1>5, <1>7 DEF ShaderInv, LoadInv
<1>10. current # 0 => current \in DOMAIN programs' /\ programs'[current] = programs[current]
  BY <1>4, <1>5 DEF ShaderInv, ShaderTypeOK
<1>11. ProgramsInv'
  <2>1. ASSUME NEW p \in DOMAIN programs', programs'[p].linked
        PROVE  {programs'[p].vs, programs'[p].fs} \subseteq Source
    <3>1. CASE p = id
      BY <1>3, <1>4, <2>1, <3>1
    <3>2. CASE p # id
      BY <1>4, <2>1, <3>2 DEF ShaderInv, ProgramsInv
    <3> QED
      BY <3>1, <3>2
  <2>2. current' # 0 => programs'[current'].linked
    BY <1>2, <1>10 DEF ShaderInv, ProgramsInv
  <2>3. user' \in Shader \union {Nobody}
    BY <1>2 DEF ShaderInv, ProgramsInv
  <2> QED
    BY <1>4, <2>1, <2>2, <2>3 DEF ProgramsInv
<1>12. asked'[s] = NoUniforms /\ (\A t \in Shader : t # s => asked'[t] = asked[t])
      /\ asked' \in [Shader -> [Uniform -> Setting \union {NoSetting}]]
  BY <1>2, <1>3 DEF ShaderInv, ShaderTypeOK
<1>13. UniformsAsAsked'
  <2>1. ASSUME NEW t \in Shader, m_id'[t] # 0
        PROVE  programs'[m_id'[t]].uniforms = asked'[t]
    <3>1. CASE t = s
      BY <1>3, <1>4, <1>5, <1>12, <3>1
    <3>2. CASE t # s
      <4>1. m_id'[t] = m_id[t] /\ m_id[t] # id /\ m_id[t] \in DOMAIN programs /\ m_id[t] \notin old
        BY <1>5, <1>6, <2>1, <3>2 DEF ShaderInv, NothingLeaks
      <4>2. programs'[m_id[t]] = programs[m_id[t]]
        BY <1>4, <4>1
      <4> QED
        BY <1>12, <2>1, <3>2, <4>1, <4>2 DEF ShaderInv, UniformsAsAsked
    <3> QED
      BY <3>1, <3>2
  <2> QED
    BY <2>1 DEF UniformsAsAsked
<1>14. ShaderTypeOK'
  <2>1. ASSUME NEW p \in DOMAIN programs'
        PROVE  programs'[p] \in Programs
    <3>1. CASE p = id
      BY <1>3, <1>4, <3>1
    <3>2. CASE p # id
      BY <1>4, <3>2 DEF ShaderInv, ShaderTypeOK, Programs
    <3> QED
      BY <3>1, <3>2
  <2>2. DOMAIN programs' \subseteq Name
    BY <1>4, <1>5 DEF ShaderInv, ShaderTypeOK
  <2>3. {m_id'[t] : t \in Shader} \union {current'} \subseteq DOMAIN programs' \union {0}
    <3>1. ASSUME NEW t \in Shader, m_id'[t] # 0
          PROVE  m_id'[t] \in DOMAIN programs'
      BY <1>4, <1>5, <1>6, <3>1 DEF ShaderInv, NothingLeaks
    <3> QED
      BY <1>2, <1>10, <3>1
  <2>4. user' # Nobody => current' = m_id'[user'] /\ current' # 0
    BY <1>2, <1>5 DEF ShaderInv, ShaderTypeOK, ProgramsInv
  <2> QED
    BY <1>5, <1>7, <1>12, <2>1, <2>2, <2>3, <2>4 DEF ShaderTypeOK, Programs, Loads
<1> QED
  BY <1>8, <1>9, <1>11, <1>13, <1>14 DEF ShaderInv

(* A load ends: the shaders of its program are deleted.                    *)
LEMMA FinishStep ==
  ASSUME ShaderInv, FinishLoad
  PROVE  ShaderInv'
<1>1. PICK id : /\ id = m_id[loading.s] /\ id # 0 /\ id \in DOMAIN programs
                /\ programs' = [programs EXCEPT ![id].kept = {}]
                /\ loading.step = "linked" /\ loading' = Idle
                /\ UNCHANGED <<m_id, loose, doomed, current, user, asked>>
  <2>1. loading \in Loads /\ loading.step = "linked"
    BY LoadSteps DEF FinishLoad
  <2>2. m_id[loading.s] # 0 /\ m_id[loading.s] \in DOMAIN programs
    BY <2>1 DEF Loads, ShaderInv, LoadInv, ShaderTypeOK
  <2> QED
    BY <2>1, <2>2 DEF FinishLoad
<1>2. PICK q \in Programs : q = programs[id]
  BY <1>1 DEF ShaderInv, ShaderTypeOK, Programs
<1>3. PICK r \in Programs : /\ r.kept = {} /\ r.vs = q.vs /\ r.fs = q.fs
                            /\ r.linked = q.linked /\ r.uniforms = q.uniforms
                            /\ programs' = [programs EXCEPT ![id] = r]
  <2>1. [q EXCEPT !.kept = {}] \in Programs
    BY DEF Programs
  <2> QED
    BY <1>1, <1>2, <2>1 DEF Programs
<1>4. /\ DOMAIN programs' = DOMAIN programs /\ programs' = [p \in DOMAIN programs' |-> programs'[p]]
      /\ programs'[id] = r /\ \A p \in DOMAIN programs : p # id => programs'[p] = programs[p]
  <2>1. programs = [p \in DOMAIN programs |-> programs[p]]
    BY DEF ShaderInv, ProgramsInv
  <2> QED
    BY <1>1, <1>3, <2>1
<1>5. loose' = {} /\ \A p \in DOMAIN programs' : programs'[p].kept = {}
  BY <1>1, <1>3, <1>4 DEF ShaderInv, LoadInv
<1>6. LoadInv'
  BY <1>1, <1>5 DEF LoadInv, Idle
<1>7. NothingLeaks'
  BY <1>1, <1>4, <1>5 DEF ShaderInv, NothingLeaks
<1>8. \A p \in DOMAIN programs :
        /\ programs'[p].vs = programs[p].vs /\ programs'[p].fs = programs[p].fs
        /\ programs'[p].linked = programs[p].linked /\ programs'[p].uniforms = programs[p].uniforms
        /\ programs'[p] \in Programs
  BY <1>2, <1>3, <1>4 DEF ShaderInv, ShaderTypeOK, Programs
<1>9. ShaderTypeOK'
  BY <1>1, <1>4, <1>8 DEF ShaderInv, ShaderTypeOK, Programs
<1>10. ProgramsInv'
  BY <1>1, <1>4, <1>8 DEF ShaderInv, ShaderTypeOK, ProgramsInv
<1>11. UniformsAsAsked'
  BY <1>1, <1>8 DEF ShaderInv, UniformsAsAsked, ShaderTypeOK
<1> QED
  BY <1>6, <1>7, <1>9, <1>10, <1>11 DEF ShaderInv

(* The destructor deletes the program of its own object only.              *)
LEMMA ReplaceStep ==
  ASSUME ShaderInv, loading = Idle, NEW s \in Shader, Replace(s)
  PROVE  ShaderInv'
<1>0. loose = {} /\ \A p \in DOMAIN programs : programs[p].kept = {}
  BY LoadSteps
<1>1. /\ m_id[s] # 0 /\ m_id' = [m_id EXCEPT ![s] = 0]
      /\ asked' = [asked EXCEPT ![s] = NoUniforms]
      /\ user' = (IF user = s THEN Nobody ELSE user)
      /\ UNCHANGED <<current, loading>> /\ DeleteProgram(m_id[s])
  BY DEF Replace
<1>2. /\ m_id'[s] = 0 /\ \A t \in Shader : t # s => m_id'[t] = m_id[t]
      /\ m_id \in [Shader -> Name \union {0}] /\ m_id' \in [Shader -> Name \union {0}]
      /\ \A t \in Shader : t # s => m_id[t] # m_id[s]
  BY <1>1 DEF ShaderInv, ShaderTypeOK, NothingLeaks
<1>3. NoUniforms \in [Uniform -> Setting \union {NoSetting}]
  BY DEF NoUniforms
<1>4. /\ \A p \in DOMAIN programs' : p \in DOMAIN programs /\ programs'[p] = programs[p]
      /\ programs' = [p \in DOMAIN programs' |-> programs'[p]]
      /\ \/ m_id[s] = current /\ DOMAIN programs' = DOMAIN programs /\ doomed' = doomed \union {current}
         \/ m_id[s] # current /\ DOMAIN programs' = DOMAIN programs \ {m_id[s]} /\ doomed' = doomed
      /\ loose' = {}
  <2>1. m_id[s] \in DOMAIN programs
    BY <1>1 DEF ShaderInv, ShaderTypeOK
  <2> QED
    BY <1>0, <1>1, <2>1 DEF DeleteProgram, Remove, Without, ShaderInv, ProgramsInv
<1>5. /\ doomed \subseteq {current} /\ doomed \intersect {m_id[t] : t \in Shader} = {}
      /\ DOMAIN programs = ({m_id[t] : t \in Shader} \ {0}) \union doomed
      /\ current' = current /\ m_id[s] \in DOMAIN programs /\ m_id[s] \notin doomed
  BY <1>1 DEF ShaderInv, NothingLeaks
<1>6. {m_id'[t] : t \in Shader} \ {0} = ({m_id[t] : t \in Shader} \ {0}) \ {m_id[s]}
  BY <1>2
<1>7. NothingLeaks'
  <2>1. \A t, v \in Shader : m_id'[t] = m_id'[v] /\ m_id'[t] # 0 => t = v
    BY <1>2 DEF ShaderInv, NothingLeaks
  <2>2. doomed' \subseteq {current'} /\ doomed' \intersect {m_id'[t] : t \in Shader} = {}
    <3>1. 0 \notin doomed'
      BY <1>1, <1>4, <1>5, ShaderAssumption DEF ShaderInv, ShaderTypeOK
    <3> QED
      BY <1>4, <1>5, <1>6, <3>1
  <2>3. DOMAIN programs' = ({m_id'[t] : t \in Shader} \ {0}) \union doomed'
    <3>1. CASE m_id[s] = current /\ DOMAIN programs' = DOMAIN programs /\ doomed' = doomed \union {current}
      BY <1>1, <1>5, <1>6, <3>1
    <3>2. CASE m_id[s] # current /\ DOMAIN programs' = DOMAIN programs \ {m_id[s]} /\ doomed' = doomed
      BY <1>5, <1>6, <3>2
    <3> QED
      BY <1>4, <3>1, <3>2
  <2>4. loose' = {} /\ \A p \in DOMAIN programs' : programs'[p].kept = {}
    BY <1>0, <1>4
  <2> QED
    BY <1>5, <2>1, <2>2, <2>3, <2>4 DEF NothingLeaks
<1>11. LoadInv'
  BY <1>0, <1>1, <1>4 DEF LoadInv, Idle
<1>8. ProgramsInv'
  <2>1. current' # 0 => current' \in DOMAIN programs'
    BY <1>1, <1>4 DEF ShaderInv, ShaderTypeOK
  <2>2. current' # 0 => programs'[current'].linked
    BY <1>1, <1>4, <2>1 DEF ShaderInv, ProgramsInv
  <2>3. user' \in Shader \union {Nobody}
    BY <1>1 DEF ShaderInv, ProgramsInv
  <2>4. \A p \in DOMAIN programs' : programs'[p].linked => {programs'[p].vs, programs'[p].fs} \subseteq Source
    BY <1>4 DEF ShaderInv, ProgramsInv
  <2> QED
    BY <1>4, <2>2, <2>3, <2>4 DEF ProgramsInv
<1>9. UniformsAsAsked'
  BY <1>1, <1>2, <1>4, <1>7 DEF ShaderInv, UniformsAsAsked, ShaderTypeOK, NothingLeaks
<1>10. ShaderTypeOK'
  <2>1. /\ DOMAIN programs' \subseteq Name /\ \A p \in DOMAIN programs' : programs'[p] \in Programs
        /\ asked' \in [Shader -> [Uniform -> Setting \union {NoSetting}]]
    BY <1>1, <1>3, <1>4 DEF ShaderInv, ShaderTypeOK, Programs
  <2>2. {m_id'[t] : t \in Shader} \union {current'} \subseteq DOMAIN programs' \union {0}
    BY <1>1, <1>2, <1>4 DEF ShaderInv, ShaderTypeOK
  <2>3. user' # Nobody => current' = m_id'[user'] /\ current' # 0
    BY <1>1, <1>2 DEF ShaderInv, ShaderTypeOK, ProgramsInv
  <2> QED
    BY <1>1, <1>2, <1>4, <2>1, <2>2, <2>3 DEF ShaderTypeOK, Programs
<1> QED
  BY <1>7, <1>8, <1>9, <1>10, <1>11 DEF ShaderInv

(* Whatever is used next, the program in use that was deleted is gone.     *)
LEMMA UseStep ==
  ASSUME ShaderInv, loading = Idle, NEW id, MakeCurrent(id), UNCHANGED <<m_id, loading, asked>>,
         \/ id = 0 /\ user' = Nobody
         \/ user' \in Shader /\ id = m_id[user'] /\ id # 0 /\ programs[id].linked
  PROVE  ShaderInv'
<1>1. /\ current' = id /\ doomed' = doomed \ {current}
      /\ IF current \in doomed THEN programs' = Without(programs, {current}) ELSE UNCHANGED programs
      /\ loose' = {} /\ \A p \in DOMAIN programs : programs[p].kept = {}
  <2>1. doomed \subseteq DOMAIN programs
    BY DEF ShaderInv, NothingLeaks
  <2> QED
    BY <2>1, LoadSteps DEF MakeCurrent, Remove
<1>2. /\ doomed' = {} /\ DOMAIN programs' = DOMAIN programs \ doomed
      /\ \A p \in DOMAIN programs' : p \in DOMAIN programs /\ programs'[p] = programs[p]
      /\ programs' = [p \in DOMAIN programs' |-> programs'[p]]
  <2>1. doomed \subseteq {current} /\ programs = [p \in DOMAIN programs |-> programs[p]]
    BY DEF ShaderInv, ProgramsInv, NothingLeaks
  <2>2. CASE current \in doomed
    <3>1. doomed = {current} /\ programs' = [x \in DOMAIN programs \ {current} |-> programs[x]]
      BY <1>1, <2>1, <2>2 DEF Without
    <3> QED
      BY <1>1, <3>1
  <2>3. CASE current \notin doomed
    <3>1. doomed = {} /\ programs' = programs
      BY <1>1, <2>1, <2>3
    <3> QED
      BY <1>1, <2>1, <3>1
  <2> QED
    BY <2>2, <2>3
<1>3. id # 0 => id \in DOMAIN programs'
  BY <1>2 DEF ShaderInv, NothingLeaks, ShaderTypeOK
<1>4. NothingLeaks'
  BY <1>1, <1>2 DEF ShaderInv, NothingLeaks
<1>8. LoadInv'
  BY <1>1, <1>2 DEF LoadInv, Idle
<1>5. ProgramsInv'
  BY <1>1, <1>2, <1>3 DEF ShaderInv, ProgramsInv
<1>6. UniformsAsAsked'
  BY <1>2, <1>4 DEF ShaderInv, UniformsAsAsked, ShaderTypeOK, NothingLeaks
<1>7. ShaderTypeOK'
  BY <1>1, <1>2, <1>3, <1>4, ShaderAssumption DEF ShaderInv, ShaderTypeOK, NothingLeaks
<1> QED
  BY <1>4, <1>5, <1>6, <1>7, <1>8 DEF ShaderInv

(* A setter finds its uniform: the location is one of the program in use,  *)
(* and no other uniform of that program has it.                            *)
LEMMA SetStep ==
  ASSUME ShaderInv, loading = Idle, NEW s \in Shader, NEW u \in Uniform, NEW value \in Setting,
         Set(s, u, value)
  PROVE  ShaderInv'
<1>0. loose = {} /\ \A p \in DOMAIN programs : programs[p].kept = {}
  BY LoadSteps
<1> DEFINE q == programs[current]
           after == [w \in Uniform |-> IF At(current, w) = At(m_id[s], u) THEN value ELSE q.uniforms[w]]
<1>1. /\ user = s /\ s # Nobody /\ current = m_id[s] /\ current # 0 /\ current \in DOMAIN programs
      /\ programs' = [programs EXCEPT ![current].uniforms = after]
      /\ asked' = [asked EXCEPT ![s][u] = value]
      /\ UNCHANGED <<m_id, loose, doomed, current, loading, user>>
  BY ShaderAssumption DEF Set, WriteUniform, ShaderInv, ShaderTypeOK
<1>2. q.uniforms = asked[s] /\ asked[s] \in [Uniform -> Setting \union {NoSetting}]
  BY <1>1 DEF ShaderInv, UniformsAsAsked, ShaderTypeOK
<1>3. \A w \in Uniform : At(current, w) = At(m_id[s], u) <=> w = u
  BY <1>1, ShaderAssumption DEF At, ShaderInv, ProgramsInv
<1>4. after = [asked[s] EXCEPT ![u] = value]
  BY <1>2, <1>3
<1>5. q \in Programs /\ q.kept = {}
  BY <1>0, <1>1 DEF ShaderInv, ShaderTypeOK, Programs
<1>6. asked'[s] = after /\ (\A t \in Shader : t # s => asked'[t] = asked[t])
      /\ asked' \in [Shader -> [Uniform -> Setting \union {NoSetting}]]
      /\ after \in [Uniform -> Setting \union {NoSetting}]
  BY <1>1, <1>2, <1>4 DEF ShaderInv, ShaderTypeOK
<1> HIDE DEF after
<1>7. /\ DOMAIN programs' = DOMAIN programs /\ programs' = [p \in DOMAIN programs' |-> programs'[p]]
      /\ programs'[current] = [vs |-> q.vs, fs |-> q.fs, kept |-> {}, linked |-> q.linked, uniforms |-> after]
      /\ \A p \in DOMAIN programs : p # current => programs'[p] = programs[p]
  <2>1. [q EXCEPT !.uniforms = after] = [vs |-> q.vs, fs |-> q.fs, kept |-> {}, linked |-> q.linked, uniforms |-> after]
    BY <1>5 DEF Programs
  <2>2. programs = [p \in DOMAIN programs |-> programs[p]]
    BY DEF ShaderInv, ProgramsInv
  <2>3. programs' = [programs EXCEPT ![current] = [q EXCEPT !.uniforms = after]]
    BY <1>1
  <2> HIDE DEF q
  <2> DEFINE r == [vs |-> q.vs, fs |-> q.fs, kept |-> {}, linked |-> q.linked, uniforms |-> after]
  <2> HIDE DEF r
  <2>4. programs' = [programs EXCEPT ![current] = r]
    BY <2>1, <2>3 DEF r
  <2>5. /\ DOMAIN programs' = DOMAIN programs /\ programs' = [p \in DOMAIN programs' |-> programs'[p]]
        /\ programs'[current] = r
        /\ \A p \in DOMAIN programs : p # current => programs'[p] = programs[p]
    BY <1>1, <2>2, <2>4
  <2> QED
    BY <2>5 DEF r
<1> HIDE DEF q
<1>12. \A p \in DOMAIN programs' : programs'[p].kept = {}
  BY <1>0, <1>7
<1>8. NothingLeaks'
  BY <1>0, <1>1, <1>7, <1>12 DEF ShaderInv, NothingLeaks
<1>13. LoadInv'
  BY <1>0, <1>1, <1>12 DEF LoadInv, Idle
<1>9. ProgramsInv'
  BY <1>1, <1>7 DEF ShaderInv, ProgramsInv, q
<1>10. UniformsAsAsked'
  <2>1. ASSUME NEW t \in Shader, m_id[t] # 0
        PROVE  programs'[m_id[t]].uniforms = asked'[t]
    <3>1. CASE t = s
      <4>1. programs'[current].uniforms = after
        BY <1>7
      <4> QED
        BY <1>1, <1>6, <3>1, <4>1
    <3>2. CASE t # s
      <4>1. m_id[t] # current /\ m_id[t] \in DOMAIN programs
        BY <1>1, <2>1, <3>2 DEF ShaderInv, NothingLeaks
      <4> QED
        BY <1>6, <1>7, <2>1, <3>2, <4>1 DEF ShaderInv, UniformsAsAsked
    <3> QED
      BY <3>1, <3>2
  <2> QED
    BY <1>1, <2>1 DEF UniformsAsAsked
<1>11. ShaderTypeOK'
  BY <1>0, <1>1, <1>5, <1>6, <1>7, ShaderAssumption DEF ShaderInv, ShaderTypeOK, Programs
<1> QED
  BY <1>8, <1>9, <1>10, <1>11, <1>13 DEF ShaderInv

(* The invariant is inductive.                                             *)
LEMMA ShaderInvStep == ShaderInv /\ [ShaderNext]_shaderVars => ShaderInv'
<1> SUFFICES ASSUME ShaderInv, [ShaderNext]_shaderVars
             PROVE  ShaderInv'
  OBVIOUS
<1>1. CASE UNCHANGED shaderVars
  <2>1. UNCHANGED <<m_id, loose, programs, doomed, current, loading, user, asked>>
    BY <1>1 DEF shaderVars
  <2>2. ShaderTypeOK'
    BY <2>1 DEF ShaderInv, ShaderTypeOK
  <2>3. NothingLeaks' /\ UniformsAsAsked'
    BY <2>1 DEF ShaderInv, NothingLeaks, UniformsAsAsked
  <2>4. ProgramsInv' /\ LoadInv'
    BY <2>1 DEF ShaderInv, ProgramsInv, LoadInv
  <2> QED
    BY <2>2, <2>3, <2>4 DEF ShaderInv
<1>2. CASE loading = Idle /\ Between
  <2>1. ASSUME NEW s \in Shader, Replace(s)
        PROVE  ShaderInv'
    BY <1>2, <2>1, ReplaceStep
  <2>2. ASSUME NEW s \in Shader, Use(s)
        PROVE  ShaderInv'
    BY <1>2, <2>2, UseStep DEF Use
  <2>3. CASE UseNone
    BY <1>2, <2>3, UseStep DEF UseNone
  <2> QED
    BY <1>2, <2>1, <2>2, <2>3, StartStep, SetStep DEF Between
<1> QED
  BY <1>1, <1>2, VertexStep, LinkStep, FinishStep DEF ShaderNext

(* However loads end, each shader they made is deleted, at once or with    *)
(* its program, and OpenGL has the programs of the objects, each its own,  *)
(* and the one deleted while in use.                                       *)
THEOREM NoProgramLeaks == ShaderSpec => []NothingLeaks
<1>1. ShaderInit => ShaderInv
  BY ShaderInvInit
<1>2. ShaderInv /\ [ShaderNext]_shaderVars => ShaderInv'
  BY ShaderInvStep
<1>3. ShaderInv => NothingLeaks
  BY DEF ShaderInv
<1> QED
  BY <1>1, <1>2, <1>3, PTL DEF ShaderSpec

(* The setters write to the program in use, and that is the object's: each *)
(* program has the uniforms set through its own object since its load.     *)
THEOREM UniformsStay == ShaderSpec => []UniformsAsAsked
<1>1. ShaderInit => ShaderInv
  BY ShaderInvInit
<1>2. ShaderInv /\ [ShaderNext]_shaderVars => ShaderInv'
  BY ShaderInvStep
<1>3. ShaderInv => UniformsAsAsked
  BY DEF ShaderInv
<1> QED
  BY <1>1, <1>2, <1>3, PTL DEF ShaderSpec

(* The objects, programs, settings and the load that runs keep their       *)
(* types.                                                                  *)
THEOREM ShaderTyped == ShaderSpec => []ShaderTypeOK
<1>1. ShaderInit => ShaderInv
  BY ShaderInvInit
<1>2. ShaderInv /\ [ShaderNext]_shaderVars => ShaderInv'
  BY ShaderInvStep
<1>3. ShaderInv => ShaderTypeOK
  BY DEF ShaderInv
<1> QED
  BY <1>1, <1>2, <1>3, PTL DEF ShaderSpec
-----------------------------------------------------------------------------
(* The parts together.                                                     *)

(* Whichever part runs, each part does what it does alone, or rests.       *)
LEMMA PartsAlone ==
  EnginePartsSpec => UseSpec /\ TilemapSpec /\ RendererSpec /\ ShaderSpec
<1>1. EngineInit => UseInit /\ TilemapInit /\ RendererInit /\ ShaderInit
  BY DEF EngineInit
<1>2. [EngineNext]_engineVars => [UseNext]_useVars
  BY DEF EngineNext, SceneContents, SceneLoops, engineVars
<1>3. [EngineNext]_engineVars => [TilemapNext]_tilemapVars
  BY DEF EngineNext, OnlyScene, engineVars
<1>4. [EngineNext]_engineVars => [RendererNext]_rendererVars
  BY DEF EngineNext, OnlyScene, engineVars
<1>5. [EngineNext]_engineVars => [ShaderNext]_shaderVars
  BY DEF EngineNext, OnlyScene, engineVars
<1> QED
  BY <1>1, <1>2, <1>3, <1>4, <1>5, PTL
     DEF EnginePartsSpec, UseSpec, TilemapSpec, RendererSpec, ShaderSpec

(* In every run of the engine's parts the scene, its history, the tilemap  *)
(* and its picture, the renderer's batches and textures, and the shaders   *)
(* and OpenGL's programs have their types.                                 *)
THEOREM EngineTyped == EnginePartsSpec => []EngineTypeOK
<1>1. KeysApart
  BY EngineAssumption
<1>2. TilemapSpec => []TilemapTypeOK
  BY <1>1, TilemapTyped
<1>3. UseTypeOK /\ TilemapTypeOK /\ RendererTypeOK /\ ShaderTypeOK => EngineTypeOK
  BY DEF EngineTypeOK
<1> QED
  BY <1>2, <1>3, PartsAlone, SceneTyped, RendererTyped, ShaderTyped, PTL
=============================================================================
