---------------------------- MODULE MCFolderScan ----------------------------
(* A folder with a binary, a copy of it, and an archive three levels deep.  *)
EXTENDS FolderScan

CONSTANTS Pe, Junk, A, B, C

MCContents == {Pe, Junk, A, B, C}
MCSize     == [c \in MCContents |-> CASE c \in {Pe, Junk} -> 1 [] c = C -> 1 [] c = B -> 2 [] c = A -> 3]
MCFormat   == [c \in MCContents |-> IF c = Pe THEN "Pe" ELSE "None"]

F(n, e, c) == [name |-> n, ext |-> e, content |-> c]

MCArchived == [c \in MCContents |->
    CASE c = A -> <<F("x", "exe", Pe), F("x", "zip", B), F("y", "bin", Junk)>>
      [] c = B -> <<F("y", "bin", C), F("x", "exe", Junk)>>
      [] c = C -> <<F("x", "bin", Pe)>>
      [] OTHER -> <<>>]

Row(k, d)  == [key |-> k, confirmed |-> d]
MCFindings == [c \in MCContents |->
    IF c = Pe THEN {Row("recv->memcpy", TRUE), Row("recv->memcpy", FALSE)}
    ELSE IF c = Junk THEN {Row("recv->memcpy", FALSE), Row("argv->system", FALSE)} ELSE {}]

MCTree == {F("x", "exe", Pe), F("y", "exe", Pe), F("x", "zip", A), F("x", "rar", Junk), F("y", "zip", B)}
=============================================================================
