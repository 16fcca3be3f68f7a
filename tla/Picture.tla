------------------------------ MODULE Picture ------------------------------
(***************************************************************************)
(* What the renderer promises the systems that draw: a frame shows the     *)
(* rectangles drawn in it, in the order they were drawn, each through its  *)
(* own palette atlas and the camera of the frame, as if each were drawn at *)
(* once.  Renderer implements this with batches and the state of OpenGL.   *)
(***************************************************************************)
EXTENDS Sequences

CONSTANTS Rect, Atlas, Camera

VARIABLES camera,  \* of the frame being drawn
          canvas,  \* what has been drawn in it
          shown    \* what the window shows

pictureVars == <<camera, canvas, shown>>

PictureInit == canvas = <<>> /\ shown = <<>>

Begin(c) == camera' = c /\ canvas' = <<>> /\ UNCHANGED shown

Draw(rect, atlas) ==
  /\ canvas' = Append(canvas, [rect |-> rect, atlas |-> atlas, camera |-> camera])
  /\ UNCHANGED <<camera, shown>>

End == shown' = canvas /\ UNCHANGED <<camera, canvas>>

PictureNext ==
  \/ \E c \in Camera : Begin(c)
  \/ \E rect \in Rect, atlas \in Atlas : Draw(rect, atlas)
  \/ End

Picturing == PictureInit /\ [][PictureNext]_pictureVars
=============================================================================
