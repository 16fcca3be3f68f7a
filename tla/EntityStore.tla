---------------------------- MODULE EntityStore ----------------------------
(***************************************************************************)
(* What the entity component system promises its users: a store of         *)
(* entities, each with the components it was given and their contents.     *)
(* A handle names one entity for ever: an operation on one entity never    *)
(* touches another, and a handle whose entity was destroyed finds nothing. *)
(* Scene, driven as SceneUse drives it, implements this store.             *)
(***************************************************************************)
EXTENDS Functions

CONSTANTS Handle, Component, Value, Blank

VARIABLES issued,    \* every handle ever handed out
          contents   \* contents[h][T]: component T of the living entity h

storeVars == <<issued, contents>>

NoComponents == [T \in {} |-> Blank[T]]

Put(f, x, v) == [y \in DOMAIN f \union {x} |-> IF y = x THEN v ELSE f[y]]

Without(f, x) == Restrict(f, DOMAIN f \ {x})

StoreInit == issued = {} /\ contents = [h \in {} |-> NoComponents]

CreateEntity ==
  \E h \in Handle \ issued :
    /\ issued' = issued \union {h}
    /\ contents' = Put(contents, h, NoComponents)

DestroyEntity(h) ==
  /\ h \in DOMAIN contents
  /\ contents' = Without(contents, h)
  /\ UNCHANGED issued

AssignComponent(h, T) ==
  /\ h \in DOMAIN contents
  /\ contents' = [contents EXCEPT ![h] = Put(@, T, Blank[T])]
  /\ UNCHANGED issued

(* Allowed with a handle whose entity is gone: it then does nothing.       *)
RemoveComponent(h, T) ==
  /\ h \in DOMAIN contents
  /\ contents' = [contents EXCEPT ![h] = Without(@, T)]
  /\ UNCHANGED issued

WriteComponent(h, T, value) ==
  /\ h \in DOMAIN contents /\ T \in DOMAIN contents[h]
  /\ contents' = [contents EXCEPT ![h][T] = value]
  /\ UNCHANGED issued

StoreNext ==
  \/ CreateEntity
  \/ \E h \in issued :
       \/ DestroyEntity(h)
       \/ \E T \in Component :
            \/ AssignComponent(h, T)
            \/ RemoveComponent(h, T)
            \/ \E value \in Value : WriteComponent(h, T, value)

Store == StoreInit /\ [][StoreNext]_storeVars
=============================================================================
