------------------------------ MODULE MCArchive -----------------------------
(* Two paths, which flatten to one archive name, and workers that share     *)
(* them or own one each.                                                     *)
EXTENDS Archive

MCPaths == {"output/a__b", "output/a/b"}
OneFlat == [p \in MCPaths |-> "output__a__b"]
Shared == [w \in Workers |-> MCPaths]
Owned == [w \in Workers |->
            IF w = "w1" THEN {"output/a__b"} ELSE {"output/a/b"}]
=============================================================================
