--------------------------- MODULE MCClientEntities ---------------------------
(* A small instance of ClientEntities for TLC. *)
EXTENDS ClientEntities

(* Below the folder of the first server two objects and a variable share a *)
(* name; one of the objects has a variable and an object, which has a      *)
(* method and a variable of one name.  On the second server the ids are    *)
(* used for other nodes: that of x below A is the id of b there.           *)
MCNodes == {"folder", "A", "C", "v", "B", "u", "w", "m"}
MCClass ==
    [s \in {"s1", "s2"} |->
        [n \in MCNodes |->
            IF s = "s1"
            THEN IF n = "m" THEN "method"
                 ELSE IF n \in {"u", "v", "w"} THEN "variable" ELSE "object"
            ELSE IF n \in {"folder", "A"} THEN "object"
                 ELSE IF n = "u" THEN "variable" ELSE "none"]]
MCInitial ==
    [s \in {"s1", "s2"} |->
        [n \in MCNodes |->
            CASE s = "s2" /\ n = "folder" -> <<<<"a", "A">>>>
              [] s = "s2" /\ n = "A" -> <<<<"b", "u">>>>
              [] OTHER -> <<>>]]
MCCandidates ==
    [s \in {"s1", "s2"} |->
        [n \in MCNodes |->
            CASE s = "s1" /\ n = "folder" -> {<<"a", "A">>, <<"a", "C">>, <<"a", "v">>}
              [] s = "s1" /\ n = "A" -> {<<"b", "B">>, <<"x", "u">>}
              [] s = "s1" /\ n = "B" -> {<<"x", "w">>, <<"x", "m">>}
              [] OTHER -> {}]]
MCPaths == {<<>>, <<"a">>, <<"a", "b">>}
===============================================================================
