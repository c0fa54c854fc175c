------------------------------ MODULE DictSpec ------------------------------
(***************************************************************************)
(* What a dictionary (Objects/dictobject.c) promises its callers: a finite *)
(* map from keys to values that PyDict_SetItem, PyDict_DelItem and         *)
(* PyDict_Clear change in one step, and that stays the same while the      *)
(* table is being resized.                                                 *)
(***************************************************************************)
CONSTANTS Keys, Values

VARIABLES
  contents,     (* a function from some of the keys to values *)
  resizing      (* is the table being resized?                *)

vars == <<contents, resizing>>

Nothing == [k \in {} |-> CHOOSE v \in Values : TRUE]

Init == contents = Nothing /\ resizing = FALSE

Set(k, v) ==
  contents' = [j \in DOMAIN contents \cup {k} |->
                IF j = k THEN v ELSE contents[j]]

Del(k) ==
  /\ k \in DOMAIN contents
  /\ contents' = [j \in DOMAIN contents \ {k} |-> contents[j]]

Clear == contents' = Nothing

Change == /\ \/ \E k \in Keys, v \in Values : Set(k, v)
             \/ \E k \in Keys : Del(k)
             \/ Clear
          /\ ~resizing /\ UNCHANGED resizing

Resize == resizing' = ~resizing /\ UNCHANGED contents

Next == Change \/ Resize

Spec == Init /\ [][Next]_vars
=============================================================================
