----------------------------- MODULE MCImmortals ----------------------------
(* What the modules of a session keep in databases, each on its own: the   *)
(* code that was compiled beforehand, locked where it is found, and the    *)
(* objects on a small heap and in a scratch database with few records.     *)
EXTENDS Immortals, FrozenModules, TLC

CONSTANTS a, b, c, d

VARIABLE part

mcVars == <<part, immVars, frozenVars>>

MCTable == <<a, b, c>>
MCContents == UNION {[1 .. n -> {a, b, c, d}] : n \in 0 .. 2}

MCInit == /\ part \in {"objects", "modules"}
          /\ ImmInit /\ FrozenInit
          /\ part = "objects" => dbNames = <<>> /\ resNames = <<>>

MCNext == /\ UNCHANGED part
          /\ \/ part = "objects" /\ ImmNext /\ UNCHANGED frozenVars
             \/ part = "modules" /\ FrozenNext /\ UNCHANGED immVars

MCSpec == MCInit /\ [][MCNext]_mcVars

MCSymmetry == Permutations(Objects) \cup Permutations(Records) \cup Permutations(Texts)
=============================================================================
