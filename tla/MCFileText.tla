---------------------------- MODULE MCFileText ----------------------------
(* Small documents: headings of two levels, a hyphenated line break, a     *)
(* ligature, decoration, a line of dense characters, and a passage whose   *)
(* two parts can both be found at one ligature.                            *)
EXTENDS FileText

MCWeight == [c \in {"a", "b", "&", "*", "-", "#", " ", "/"} |-> 1] @@ ("w" :> 4)
MCExpand == [c \in {"a", "b", "w", "-", "#", "?"} |-> <<c>>] @@ ("&" :> <<"a", "b">>) @@ ("*" :> <<>>)
MCLetters == {"a", "b", "w", "&"}

MCPieces ==
    {<<"#", " ", "a", "/", "b", " ", "a", "/">>,
     <<"#", "#", " ", "b", "/", "a", " ", "b", "/">>,
     <<"a", "-", "/", "b", "&", "/">>,
     <<"&", " ", "*", "b", "*", " ", "a", "/">>,
     <<"b", " ", "a", " ", "b", "/">>,
     <<"#", " ", "a", "/", "#", "#", " ", "b", "/">>,
     <<"w", "w", "/", "w", "/">>,
     <<"b", "&", "b", "/", "/", "/">>,
     <<"b", "a", " ", "b", "b", "/">>,
     <<"/">>}
MCAdded == <<" ", "w">>
=============================================================================
