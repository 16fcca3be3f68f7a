---------------------------- MODULE Application ----------------------------
(***************************************************************************)
(* The life of the program: main (entry_point.cpp), the application with   *)
(* its layers and its network device (application.cpp, layer_stack.cpp),   *)
(* and, for the client, the window and the renderer (gui_application.cpp,  *)
(* window.cpp).  Construction may fail at each step and unwinds what is    *)
(* there; the loop runs frame by frame until a close event; destruction    *)
(* follows the order of the members; last come the static objects, among   *)
(* them the renderer's.                                                    *)
(*                                                                         *)
(* Layers are opaque: they return or throw.  What they do not do is throw  *)
(* from a callback of GLFW, through frames of C.                           *)
(***************************************************************************)
EXTENDS Integers, Sequences

CONSTANTS NumLayers,
          FrameSize,         \* sizes of the framebuffer
          MaxEvents     \* bound: what the user does

ASSUME ApplicationAssumption ==
  NumLayers \in Nat \ {0} /\ FrameSize # {} /\ MaxEvents \in Nat

VARIABLES
  program,        \* the client is a GUIApplication, the server is not
  at,             \* where the main thread is
  layer,          \* the layer it comes to
  m_running, m_network_device, m_focused,
  pushed,         \* how many layers are on the stack
  detached,       \* how many of them are detached and deleted
  context,        \* a window with its context exists
  globals,        \* the renderer's static objects own something of OpenGL
  viewport,       \* what the renderer takes the window's size to be
  ending,         \* history: "no", or what ended the program
  desktop,        \* the size and focus the user gave the window, what GLFW
                  \* has queued, and whether close was delivered
  told,           \* history: the focus the layers were last told
  events          \* bound

main == <<program, at, layer, m_running, m_network_device, m_focused, pushed,
          detached, context, globals, viewport, ending, told>>
applicationVars == <<main, desktop, events>>

(* What GLFW queues; keys and mouse are one kind, the focus is polled.      *)
Inputs == [type : {"resize"}, size : FrameSize]
          \union {[type |-> "close"], [type |-> "input"]}
Stopped == at \in {"exited", "aborted", "terminated"}

ApplicationInit ==
  /\ program \in {"client", "server"}
  /\ at = IF program = "client" THEN "window" ELSE "layers"
  /\ layer = 1 /\ m_running = TRUE /\ m_network_device = "none"
  /\ m_focused = TRUE /\ told = TRUE
  /\ pushed = 0 /\ detached = 0 /\ context = "none" /\ globals = "empty"
  /\ viewport \in FrameSize
  /\ ending = "no"
  /\ desktop = [size |-> viewport, focused |-> TRUE, queue |-> <<>>, closed |-> FALSE]
  /\ events = 0

(* A failed assertion stops the program where it is.                       *)
Abort(place) ==
  /\ at' = "aborted" /\ ending' = place
  /\ UNCHANGED <<program, layer, m_running, m_network_device, m_focused, pushed, detached,
                 context, globals, viewport, told, desktop>>

MakeWindow ==
  /\ at = "window"
  /\ \/ /\ context' = "made" /\ at' = "renderer"
        /\ UNCHANGED <<program, layer, m_running, m_network_device, m_focused, pushed,
                       detached, globals, viewport, ending, told, desktop>>
     \/ Abort("window")

(* Renderer::init with the size asked for.  A shader or an image that does *)
(* not load throws: the window goes with the half-made application.  The   *)
(* framebuffer throws a pointer, which main does not catch.                *)
InitRenderer ==
  /\ at = "renderer"
  /\ globals' = "held"
  /\ \/ at' = "layers" /\ UNCHANGED <<context, ending>>
     \/ at' = "statics" /\ context' = "none" /\ ending' = "init"
     \/ at' = "terminated" /\ ending' = "framebuffer" /\ UNCHANGED context
  /\ UNCHANGED <<program, layer, m_running, m_network_device, m_focused, pushed, detached,
                 viewport, told, desktop>>

Destroy == IF program = "client" THEN "shutdown" ELSE "network device"

(* Mutant: a layer is on the stack only once it is attached.               *)
PushLayerAttachedFirst ==
  /\ at = "layers"
  /\ \/ /\ pushed' = pushed + 1
        /\ m_network_device' = "open"
        /\ at' = (IF pushed' = NumLayers THEN "loop" ELSE "layers")
        /\ UNCHANGED ending
     \/ /\ m_network_device' = "open"
        /\ at' = Destroy /\ ending' = "attach"
        /\ UNCHANGED pushed
  /\ UNCHANGED <<program, layer, m_running, m_focused, detached, context, globals,
                 viewport, told, desktop>>

(* push_layer(new Layer): on the stack, then attached, which makes the     *)
(* network device.  If it throws the application is taken down.            *)
PushLayer ==
  /\ at = "layers"
  /\ \/ /\ pushed' = pushed + 1
        /\ \/ /\ m_network_device' = "open"
              /\ at' = (IF pushed' = NumLayers THEN "loop" ELSE "layers")
              /\ UNCHANGED ending
           \/ /\ m_network_device' \in {m_network_device, "open"}
              /\ at' = Destroy /\ ending' = "attach"
        /\ UNCHANGED <<program, layer, m_running, m_focused, detached, context, globals,
                       viewport, told, desktop>>
     \/ Abort("attach")

(* run().                                                                  *)
Loop ==
  /\ at = "loop"
  /\ IF m_running THEN at' = "update" /\ UNCHANGED ending
     ELSE at' = Destroy /\ ending' = "closed"
  /\ layer' = 1
  /\ UNCHANGED <<program, m_running, m_network_device, m_focused, pushed, detached,
                 context, globals, viewport, told, desktop>>

(* An exception leaves run(): main logs it and ends, and nobody deletes    *)
(* the application.                                                        *)
Throw ==
  /\ at \in {"update", "network", "draw"}
  /\ at' = "statics" /\ ending' = "thrown"
  /\ UNCHANGED <<program, layer, m_running, m_network_device, m_focused, pushed, detached,
                 context, globals, viewport, told, desktop>>

(* The part of a frame before the window's: the layers' on_update, the     *)
(* network's events, begin, the layers' on_draw, end and the swap.         *)
After(phase) ==
  CASE phase = "update" -> "network"
    [] phase = "network" -> IF program = "client" THEN "begin" ELSE "loop"
    [] phase = "begin" -> "draw"
    [] phase = "draw" -> "end"
    [] phase = "end" -> "poll"
Frame ==
  /\ at \in {"update", "network", "begin", "draw", "end"}
  /\ IF at \in {"update", "draw"} /\ layer < pushed
     THEN layer' = layer + 1 /\ UNCHANGED at
     ELSE layer' = 1 /\ at' = After(at)
  /\ UNCHANGED <<program, m_running, m_network_device, m_focused, pushed, detached,
                 context, globals, viewport, ending, told, desktop>>

(* Mutant: what a layer has handled is not looked at again.                *)
OnEventUnhandled(e, handled) ==
  /\ viewport' = IF e.type = "resize" /\ ~handled THEN e.size ELSE viewport
  /\ m_running' = (m_running /\ (e.type # "close" \/ handled))

(* GUIApplication::on_event, after the layers up to the one that has       *)
(* handled the event: it looks at the event whether handled or not.        *)
OnEvent(e, handled) ==
  /\ viewport' = IF e.type = "resize" THEN e.size ELSE viewport
  /\ m_running' = (m_running /\ e.type # "close")

(* glfwPollEvents calls the callbacks for what is queued.                  *)
Poll ==
  /\ at = "poll"
  /\ IF desktop.queue = <<>>
     THEN at' = "focus" /\ UNCHANGED <<viewport, m_running, desktop>>
     ELSE /\ \E handled \in BOOLEAN : OnEvent(Head(desktop.queue), handled)
          /\ desktop' = [desktop EXCEPT
                           !.queue = Tail(@),
                           !.closed = @ \/ Head(desktop.queue).type = "close"]
          /\ UNCHANGED at
  /\ UNCHANGED <<program, layer, m_network_device, m_focused, pushed, detached, context,
                 globals, ending, told>>

(* Mutant: a lost focus is not remembered.                                 *)
FocusForgotten ==
  /\ at = "focus" /\ at' = "loop"
  /\ m_focused' = (m_focused \/ desktop.focused)
  /\ told' = IF m_focused # desktop.focused THEN desktop.focused ELSE told
  /\ UNCHANGED <<program, layer, m_running, m_network_device, pushed, detached, context,
                 globals, viewport, ending, desktop>>

(* The rest of Window::on_update: the edges of the focus become events.    *)
Focus ==
  /\ at = "focus" /\ at' = "loop"
  /\ m_focused' = desktop.focused
  /\ told' = IF m_focused # desktop.focused THEN desktop.focused ELSE told
  /\ UNCHANGED <<program, layer, m_running, m_network_device, pushed, detached, context,
                 globals, viewport, ending, desktop>>

(* Mutant: the window is a member of the application, destroyed before     *)
(* anything else is done.                                                  *)
ShutdownAfterWindow ==
  /\ at = "shutdown" /\ at' = "window gone"
  /\ context' = "none"
  /\ UNCHANGED <<program, layer, m_running, m_network_device, m_focused, pushed, detached,
                 globals, viewport, ending, told, desktop>>

(* ~GUIApplication, its members, ~Application and its members.             *)
Shutdown ==
  /\ at = "shutdown" /\ at' = "window gone"
  /\ globals' = "empty"
  /\ UNCHANGED <<program, layer, m_running, m_network_device, m_focused, pushed, detached,
                 context, viewport, ending, told, desktop>>
CloseWindow ==
  /\ at = "window gone" /\ at' = "network device"
  /\ context' = "none"
  /\ UNCHANGED <<program, layer, m_running, m_network_device, m_focused, pushed, detached,
                 globals, viewport, ending, told, desktop>>

(* Mutant: the members are declared in another order.                      *)
CloseNetworkLast ==
  /\ at = "network device" /\ at' = "detach"
  /\ m_running' = FALSE
  /\ UNCHANGED <<program, layer, m_network_device, m_focused, pushed, detached, context,
                 globals, viewport, ending, told, desktop>>

CloseNetwork ==
  /\ at = "network device" /\ at' = "detach"
  /\ m_running' = FALSE /\ m_network_device' = "none"
  /\ UNCHANGED <<program, layer, m_focused, pushed, detached, context, globals, viewport,
                 ending, told, desktop>>

(* Mutant: each layer is told on_detach and then told again.               *)
DetachLayerTwice ==
  /\ at = "detach"
  /\ IF detached < pushed THEN detached' = detached + 2 /\ UNCHANGED at
     ELSE at' = "statics" /\ UNCHANGED detached
  /\ UNCHANGED <<program, layer, m_running, m_network_device, m_focused, pushed,
                 context, globals, viewport, ending, told, desktop>>

DetachLayer ==
  /\ at = "detach"
  /\ IF detached < pushed THEN detached' = detached + 1 /\ UNCHANGED at
     ELSE at' = "statics" /\ UNCHANGED detached
  /\ UNCHANGED <<program, layer, m_running, m_network_device, m_focused, pushed, context,
                 globals, viewport, ending, told, desktop>>

(* After main the renderer's pointers let go of what they still hold.      *)
Statics ==
  /\ at = "statics" /\ at' = "exited"
  /\ globals' = "empty"
  /\ UNCHANGED <<program, layer, m_running, m_network_device, m_focused, pushed, detached,
                 context, viewport, ending, told, desktop>>

Main ==
  /\ \/ MakeWindow \/ InitRenderer \/ PushLayer \/ Loop \/ Throw \/ Frame \/ Poll
     \/ Focus \/ Shutdown \/ CloseWindow \/ CloseNetwork \/ DetachLayer \/ Statics
  /\ UNCHANGED events

(* The user, while there is a window.                                      *)
User ==
  /\ context = "made" /\ events < MaxEvents
  /\ events' = events + 1
  /\ \/ \E e \in Inputs :
          desktop' = [desktop EXCEPT !.queue = Append(@, e),
                                     !.size = IF e.type = "resize" THEN e.size ELSE @]
     \/ desktop' = [desktop EXCEPT !.focused = ~@]
  /\ UNCHANGED main

ApplicationNext == Main \/ User

ApplicationSpec ==
  ApplicationInit /\ [][ApplicationNext]_applicationVars /\ WF_applicationVars(Main)
-----------------------------------------------------------------------------
ApplicationTypeOK ==
  /\ program \in {"client", "server"} /\ m_network_device \in {"none", "open"}
  /\ context \in {"none", "made"} /\ globals \in {"empty", "held"}
  /\ m_running \in BOOLEAN /\ m_focused \in BOOLEAN /\ told \in BOOLEAN
  /\ at \in {"window", "renderer", "layers", "loop", "update", "network", "begin", "draw",
             "end", "poll", "focus", "shutdown", "window gone", "network device",
             "detach", "statics", "exited", "aborted", "terminated"}
  /\ pushed \in 0..NumLayers /\ detached \in 0..pushed
  /\ layer \in 1..NumLayers
  /\ viewport \in FrameSize
  /\ ending \in {"no", "window", "init", "framebuffer", "attach", "closed", "thrown"}
  /\ desktop \in [size : FrameSize, focused : BOOLEAN, queue : Seq(Inputs),
                  closed : BOOLEAN]
  /\ events \in 0..MaxEvents

(* OpenGL is called while there is a context: in the steps that set up,    *)
(* draw and clean up, when the network tells of a new player, whose        *)
(* palette is a texture, and in the end if the renderer still holds        *)
(* objects.  Only after a failure in Renderer::init it is called without.  *)
GLNeedsContext ==
  /\ program = "client"
  /\ \/ at \in {"renderer", "layers", "network", "begin", "draw", "end", "poll", "focus",
               "shutdown"}
     \/ at = "statics" /\ globals = "held"
  => context = "made" \/ ending = "init"

(* The network device, which calls the layers, goes before they do.        *)
LayersOutliveNetwork == m_network_device = "open" => detached = 0

(* Whatever ends the program, except an exception out of run(), everything *)
(* made is released: each pushed layer was detached, one whose on_attach   *)
(* threw included, and the device, the window and the renderer are gone.   *)
Released ==
  at = "exited" /\ ending # "thrown" =>
    /\ detached = pushed
    /\ ending = "attach" => pushed > 0
    /\ m_network_device = "none" /\ context = "none" /\ globals = "empty"

(* When nothing is left to poll the renderer has the window's size, though *)
(* layers may have handled the event.                                      *)
ViewportFollows == at = "focus" /\ desktop.queue = <<>> => viewport = desktop.size

(* Closing the window ends the program, whatever the layers do with the    *)
(* event.                                                                  *)
CloseEnds == desktop.closed ~> Stopped

(* The layers come to know whether the window has the focus.               *)
FocusKnown ==
  <>[](program = "client" /\ ending = "no" => told = desktop.focused)

(* All three: whatever the user does to the window reaches the program.    *)
UserHeard == []ViewportFollows /\ CloseEnds /\ FocusKnown
=============================================================================
