---------------------------- MODULE PlayerTable ----------------------------
(***************************************************************************)
(* What the game layers promise about the players they know: a table from  *)
(* uids to where each player stands and how he is coloured, and a picture  *)
(* that shows, each time it is drawn, every player of the table once.      *)
(* Minicraft keeps just this table; GameScene shows that the entities and  *)
(* components of the code implement it.                                    *)
(***************************************************************************)
EXTENDS FiniteSets

CONSTANTS Uid, Place, Palette

VARIABLES roster,  \* roster[uid] = [place, palette]
          shown    \* shown[look]: how many sprites of the last picture look so

tableVars == <<roster, shown>>

Looks == [place : Place, palette : Palette]

TableInit == roster = <<>> /\ shown = [look \in Looks |-> 0]

(* A player already in the table keeps his place.                          *)
Join(uid, place, palette) ==
  /\ uid \notin DOMAIN roster
  /\ roster' = [u \in DOMAIN roster \union {uid} |->
                  IF u = uid THEN [place |-> place, palette |-> palette] ELSE roster[u]]
  /\ UNCHANGED shown

Leave(uid) ==
  /\ roster' = [u \in DOMAIN roster \ {uid} |-> roster[u]]
  /\ UNCHANGED shown

Move(uid, place) ==
  /\ uid \in DOMAIN roster
  /\ roster' = [roster EXCEPT ![uid].place = place]
  /\ UNCHANGED shown

Show ==
  /\ shown' = [look \in Looks |->
                 Cardinality({uid \in DOMAIN roster : roster[uid] = look})]
  /\ UNCHANGED roster

TableNext ==
  \/ \E uid \in Uid :
       \/ \E place \in Place, palette \in Palette : Join(uid, place, palette)
       \/ Leave(uid)
       \/ \E place \in Place : Move(uid, place)
  \/ Show

Table == TableInit /\ [][TableNext]_tableVars
=============================================================================
