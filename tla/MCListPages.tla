------------------------------ MODULE MCListPages ------------------------------
(* Instances of ListPages for TLC: a, b/a/a and b/b in the bucket x, which    *)
(* has the buckets w, xb and y beside it; / is 1, a is 2, b is 3 and x is 5.   *)
EXTENDS ListPages, TLC

MCBucket == <<5>>
MCName == 2 :> <<2>> @@ 3 :> <<3, 1, 2, 1, 2>> @@ 4 :> <<3, 1, 3>>
MCOthers == 1 :> <<4, 0, 3>> @@ 5 :> <<5, 3, 0, 3>> @@ 6 :> <<6, 0, 3>>
MCPrefixes == {<<>>, <<2>>, <<3, 1>>}
=============================================================================
