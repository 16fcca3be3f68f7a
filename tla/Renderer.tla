------------------------------ MODULE Renderer ------------------------------
(***************************************************************************)
(* The batch renderer (renderer.cpp) with the material it draws with       *)
(* (material.cpp), textures and the framebuffer, over the part of OpenGL's *)
(* state they leave behind from one call to the next: what a draw call     *)
(* shows depends on what is bound when it is made.                         *)
(*                                                                         *)
(* As in the program, rectangles are drawn between begin and end, while    *)
(* textures are loaded and the window resized between frames.  A rectangle *)
(* stands for its six vertices, colours and source included.  Two equal    *)
(* string literals of one file are taken to have one address, as compilers *)
(* give them; the material compares the names of its samplers so.          *)
(***************************************************************************)
EXTENDS Integers, Sequences, TLC

CONSTANTS Rect, Atlas, NoAtlas, Camera,
          Sheet, Screen,    \* the sprite sheet's and the screen's texture
          NoTexture,
          WindowSize,       \* the sizes <<width, height>> a window may have
          MaxDraws          \* bound: rectangles of a frame

ASSUME RendererAssumption ==
  /\ NoAtlas \notin Atlas /\ {Sheet, Screen, NoTexture} \intersect Atlas = {}
  /\ WindowSize \subseteq Nat \X Nat /\ MaxDraws \in Nat

VARIABLES
  phase,           \* "idle", or "frame" between begin and end
  active_camera, batch_vertices, active_palette_atlas,
  batch_material,  \* its sampler names and its textures, by texture unit
  viewport_rect,
  gl,              \* the state of OpenGL
  drawn,           \* what the screen's texture holds
  shown,           \* what the window shows
  window,          \* history: the size of the window
  draws            \* bound: rectangles of this frame

own == <<phase, active_camera, batch_vertices, active_palette_atlas, batch_material,
         viewport_rect>>
rendererVars == <<own, gl, drawn, shown, window, draws>>

Texture == Atlas \union {Sheet, Screen, NoTexture}
Unit == 0..3

(* Programs, vertex arrays and buffers are called by their owner.          *)
(* glDrawArrays reads the buffer its vertex array was set up with and      *)
(* shades with the textures of the units the program's samplers name.      *)
Sampled(g, sampler) == g.units[g.samplers[sampler]]
CANVAS == [x |-> 0, y |-> 0, width |-> 256, height |-> 144]
GLDraw(g) ==
  IF <<g.program, g.framebuffer, g.viewport>> # <<"batch", "screen", CANVAS>>
  THEN <<>>
  ELSE [k \in DOMAIN g.buffer[g.vao] |->
          [rect |-> g.buffer[g.vao][k], atlas |-> Sampled(g, "palettes"),
           sheet |-> Sampled(g, "image"), camera |-> g.cameraPos]]
UseProgram(g, program) == [g EXCEPT !.program = program]
BindTexture(g, texture) == [g EXCEPT !.units[g.activeUnit] = texture]
BindFramebuffer(g, fbo) == [g EXCEPT !.framebuffer = fbo]

(* Texture::load binds the texture to whichever unit is active.            *)
TextureLoad(g, texture) == BindTexture(BindTexture(g, texture), NoTexture)

(* Mutant: every sampler gets a unit of its own each time.                 *)
UnitAlwaysNew(m, sampler) == Len(m.names)

(* get_tex_unit_of_sampler, or the unit set_texture makes for a new one.   *)
UnitOf(m, sampler) ==
  IF \E k \in DOMAIN m.names : m.names[k] = sampler
  THEN (CHOOSE k \in DOMAIN m.names : m.names[k] = sampler) - 1
  ELSE Len(m.names)

(* Material::set_texture: the material and OpenGL after it.                *)
MaterialWith(m, sampler, texture) ==
  LET unit == UnitOf(m, sampler) IN
  IF unit < Len(m.names)
  THEN [m EXCEPT !.textures[unit + 1] = texture]
  ELSE [names |-> Append(m.names, sampler), textures |-> Append(m.textures, texture)]
SamplerSet(g, m, sampler) ==
  UseProgram([UseProgram(g, "batch") EXCEPT !.samplers[sampler] = UnitOf(m, sampler)],
             "none")

(* Mutant: a texture that is bound is not bound again, as if nobody else   *)
(* used its unit.                                                          *)
MaterialUseOnce(g, m) ==
  [g EXCEPT !.units = [u \in Unit |-> IF u < Len(m.textures) /\ @[u] = NoTexture
                                      THEN m.textures[u + 1] ELSE @[u]],
            !.program = "batch"]

(* Material::use.                                                          *)
MaterialUse(g, m) ==
  [g EXCEPT !.units = [u \in Unit |-> IF u < Len(m.textures) THEN m.textures[u + 1]
                                      ELSE @[u]],
            !.activeUnit = Len(m.textures) - 1,
            !.program = "batch"]

(* Mutant: the other dimension decides.                                    *)
ViewportRectFlipped(w, h) ==
  IF 16 * h < 9 * w
  THEN [x |-> 0, y |-> (16 * h - 9 * w) \div 32, width |-> w, height |-> (9 * w) \div 16]
  ELSE [x |-> (9 * w - 16 * h) \div 18, y |-> 0, width |-> (16 * h) \div 9, height |-> h]

(* The letterbox of update_viewport_size.  Its arithmetic in floats, cut   *)
(* off to integers, gives just these numbers for windows of up to 65535    *)
(* pixels: h / w > 9 / 16, w * 9 / 16 and h * 16 / 9 are exact or further  *)
(* from the next integer than the error.  Two zeroes take the last branch. *)
ViewportRect(w, h) ==
  IF 16 * h > 9 * w
  THEN [x |-> 0, y |-> (16 * h - 9 * w) \div 32, width |-> w, height |-> (9 * w) \div 16]
  ELSE [x |-> (9 * w - 16 * h) \div 18, y |-> 0, width |-> (16 * h) \div 9, height |-> h]

(* After init(): the quad's buffer and program are set up, then those of   *)
(* the batch, whose buffer stays bound to GL_ARRAY_BUFFER.                 *)
AfterInit ==
  LET m == MaterialWith([names |-> <<>>, textures |-> <<>>], "image", Sheet)
      g == [program |-> "none", framebuffer |-> "window", vao |-> "none",
            arrayBuffer |-> "batch", activeUnit |-> 0,
            units |-> [u \in Unit |-> NoTexture],
            samplers |-> [image |-> 0, palettes |-> 0, screen_texture |-> 0],
            buffer |-> [batch |-> <<>>, quad |-> <<"quad">>, none |-> <<>>],
            cameraPos |-> CHOOSE c \in Camera : TRUE,
            viewport |-> CANVAS]
  IN  [material |-> m,
       gl |-> SamplerSet(TextureLoad(TextureLoad(g, Screen), Sheet),
                         [names |-> <<>>, textures |-> <<>>], "image")]

RendererInit ==
  /\ phase = "idle"
  /\ active_camera \in Camera /\ batch_vertices = <<>>
  /\ active_palette_atlas = NoAtlas
  /\ batch_material = AfterInit.material
  /\ gl = AfterInit.gl
  /\ drawn = <<>> /\ shown = <<>> /\ draws = 0
  /\ window \in WindowSize
  /\ viewport_rect = ViewportRect(window[1], window[2])

(* flush(): OpenGL, the material and the canvas after it; without vertices *)
(* or without an atlas nothing is drawn.                                   *)
Flushed ==
  LET m == MaterialWith(batch_material, "palettes", active_palette_atlas)
      g == [MaterialUse(SamplerSet(gl, batch_material, "palettes"), m)
              EXCEPT !.cameraPos = active_camera,
                     !.buffer[gl.arrayBuffer] = batch_vertices]
  IN  IF batch_vertices = <<>> \/ active_palette_atlas = NoAtlas
      THEN [gl |-> gl, material |-> batch_material, drawn |-> drawn]
      ELSE [gl |-> g, material |-> m, drawn |-> drawn \o GLDraw(g)]

(* begin() forgets the atlas of the last frame and clears the canvas.      *)
Begin(camera) ==
  /\ phase = "idle"
  /\ phase' = "frame" /\ draws' = 0
  /\ active_camera' = camera
  /\ active_palette_atlas' = NoAtlas
  /\ gl' = [BindFramebuffer(gl, "screen") EXCEPT !.vao = "batch", !.viewport = CANVAS]
  /\ drawn' = <<>>
  /\ UNCHANGED <<batch_vertices, batch_material, viewport_rect, shown, window>>

(* A change of atlas flushes what was drawn through the old one; without   *)
(* an atlas the vertices are dropped.                                      *)
DrawRect(rect, atlas) ==
  /\ phase = "frame" /\ draws < MaxDraws
  /\ draws' = draws + 1
  /\ IF atlas # active_palette_atlas
     THEN /\ gl' = Flushed.gl /\ batch_material' = Flushed.material
          /\ drawn' = Flushed.drawn
          /\ active_palette_atlas' = atlas
          /\ batch_vertices' = <<rect>>
     ELSE /\ batch_vertices' = Append(batch_vertices, rect)
          /\ UNCHANGED <<gl, drawn, batch_material, active_palette_atlas>>
  /\ UNCHANGED <<phase, active_camera, viewport_rect, shown, window>>

(* What end() sets before it draws the screen's texture over the window.   *)
Presented(g) ==
  [BindTexture([g EXCEPT !.framebuffer = "window", !.vao = "quad",
                         !.viewport = viewport_rect, !.activeUnit = 0],
               Screen) EXCEPT !.program = "viewport"]

(* end().                                                                  *)
End ==
  /\ phase = "frame"
  /\ phase' = "idle"
  /\ gl' = Presented(Flushed.gl) /\ batch_material' = Flushed.material
  /\ batch_vertices' = <<>>
  /\ drawn' = Flushed.drawn
  /\ shown' = IF Sampled(gl', "screen_texture") = Screen THEN drawn' ELSE <<>>
  /\ UNCHANGED <<active_camera, active_palette_atlas, viewport_rect, window, draws>>

(* Between frames: a player's palette is loaded, or the window is resized. *)
LoadTexture(texture) ==
  /\ phase = "idle"
  /\ gl' = TextureLoad(gl, texture)
  /\ UNCHANGED <<own, drawn, shown, window, draws>>

UpdateViewportSize(size) ==
  /\ phase = "idle"
  /\ window' = size
  /\ viewport_rect' = ViewportRect(size[1], size[2])
  /\ UNCHANGED <<phase, active_camera, batch_vertices, active_palette_atlas,
                 batch_material, gl, drawn, shown, draws>>

RendererNext ==
  \/ \E camera \in Camera : Begin(camera)
  \/ \E rect \in Rect, atlas \in Atlas \union {NoAtlas} : DrawRect(rect, atlas)
  \/ End
  \/ \E texture \in Atlas : LoadTexture(texture)
  \/ \E size \in WindowSize : UpdateViewportSize(size)

RendererSpec == RendererInit /\ [][RendererNext]_rendererVars
-----------------------------------------------------------------------------
(* Every variable has its type, nothing is left in the batch between       *)
(* frames, and each sampler the material knows is set to the texture unit  *)
(* the material binds its texture to.                                      *)
RendererTypeOK ==
  /\ phase \in {"idle", "frame"} /\ active_camera \in Camera
  /\ batch_vertices \in Seq(Rect) /\ phase = "idle" => batch_vertices = <<>>
  /\ active_palette_atlas \in Atlas \union {NoAtlas}
  /\ batch_material.textures \in Seq(Texture)
  /\ Len(batch_material.names) = Len(batch_material.textures)
  /\ Len(batch_material.names) \in 1..2
  /\ \A k \in DOMAIN batch_material.names :
       gl.samplers[batch_material.names[k]] = k - 1
  /\ DOMAIN viewport_rect = {"x", "y", "width", "height"}
  /\ gl.units \in [Unit -> Texture] /\ gl.activeUnit \in Unit
  /\ window \in WindowSize /\ draws \in 0..MaxDraws /\ Len(batch_vertices) <= draws

(* A rectangle of the window of the canvas's shape, up to a pixel, as      *)
(* large as can be and in the middle.                                      *)
Fits(r, size) ==
  /\ r.x >= 0 /\ r.y >= 0
  /\ r.x + r.width <= size[1] /\ r.y + r.height <= size[2]
  /\ r.width = size[1] \/ r.height = size[2]
  /\ 16 * r.height - 9 * r.width \in -15..15
  /\ size[1] - r.width - 2 * r.x \in 0..2
  /\ size[2] - r.height - 2 * r.y \in 0..2

(* Each frame is shown in the middle of the window, as large as its size   *)
(* at that time allows, without stretching it (update_viewport_size, end). *)
LetterboxedFrames ==
  [][phase = "frame" /\ phase' = "idle" => Fits(gl'.viewport, window)]_rendererVars

(* Batching, materials and what is bound are not seen: the frames are      *)
(* those of a renderer that draws every rectangle at once.                 *)
Look(d) == [rect |-> d.rect, camera |-> d.camera,
            atlas |-> IF d.sheet = Sheet THEN d.atlas ELSE NoTexture]
Looks(ds) == [k \in DOMAIN ds |-> Look(ds[k])]
Pending == IF active_palette_atlas = NoAtlas THEN <<>>
           ELSE [k \in DOMAIN batch_vertices |->
                   [rect |-> batch_vertices[k], camera |-> active_camera,
                    atlas |-> active_palette_atlas]]
Picture == INSTANCE Picture WITH camera <- active_camera,
                                 canvas <- Looks(drawn) \o Pending,
                                 shown <- Looks(shown)
RefinesPicture == Picture!Picturing
=============================================================================
