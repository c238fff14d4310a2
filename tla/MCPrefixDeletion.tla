--------------------------- MODULE MCPrefixDeletion ---------------------------
EXTENDS PrefixDeletion
CONSTANTS d1, d2
(* In the order of a listing: an object named as the directory, a sibling  *)
(* whose name begins like it on either side, and between them three keys.  *)
Names == <<<<"a">>,
           <<"a", "-">>,
           <<"a", "/", "a">>,
           <<"a", "/", "a", "/", "b">>,
           <<"a", "/", "b">>,
           <<"a", "b">>>>
AllKeys == DOMAIN Names
DirectoryA == <<"a">>
TwoDeleters == {d1, d2}
(* As delete_transcode.ts:72,76 pass it, and with more slashes than one.   *)
BothAsked == [d \in TwoDeleters |-> IF d = d1 THEN <<"a">> ELSE <<"a", "/", "/">>]
===============================================================================
