-------------------------------- MODULE MCKeys --------------------------------
(* Keys with their hashes, and the probe sequence of the code. *)
EXTENDS TLC

CONSTANTS a, b, c, d, v, w

GF == INSTANCE DictProbe WITH MaxLog <- 3

MCProbe(hash, size, n) == GF!GFProbe(hash, size, n)
MCSizes == GF!ProbeSizes

(* a and b share a hash; c meets them on the way; d does not at size 4.    *)
MCHash == a :> 0 @@ b :> 0 @@ c :> 4 @@ d :> 9
MCOthers == {a :> v @@ c :> v, b :> w @@ c :> v @@ d :> w}
FewOthers == {a :> v @@ c :> v}
=============================================================================
