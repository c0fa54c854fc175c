---------------------------- MODULE MCDestructors ---------------------------
(* Two places where C code runs destructors, and with them programs, in    *)
(* the middle of an operation, each on its own: the tables of              *)
(* dictionaries, and the handlers of forms.                                *)
EXTENDS DictStorage, FormHandlers

VARIABLE part

mcVars == <<part, vars, formVars>>

MCInit == part \in {"dictionaries", "forms"} /\ Init /\ FormInit

MCNext == /\ UNCHANGED part
          /\ \/ part = "dictionaries" /\ Next /\ UNCHANGED formVars
             \/ part = "forms" /\ FormNext /\ UNCHANGED vars

MCSpec == MCInit /\ [][MCNext]_mcVars
=============================================================================
