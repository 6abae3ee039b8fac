---------------------------- MODULE MCCommandLine ----------------------------
(* Cards that differ in at most one field from a good program or command;  *)
(* short texts, small pictures and the sizes around the limits.            *)
EXTENDS CommandLine

CONSTANTS i1, i2, k1, k2, s1, s2

MCIssuer  == {i1, i2}
MCKey     == {k1, k2}
MCTimeout == {1, 2}
MCSender  == {s1, s2}

Texts == {text \in UNION {[1 .. n -> 0 .. 2] : n \in 1 .. 5} : Space \notin {text[1], text[Len(text)]}}

MCDrafts ==
    [kind : {"text"}, text : Texts, width : 1 .. 8]
    \cup [kind : {"size"}, width : {8, 24, 32, 320, 2048, 4096}, asked : {10, 24, 160, 5000},
          height : {27, 28, 60, 79, 80, 81, 240, 255, 256, 257, 65535, 65536}]
    \cup [kind : {"image"}, width : {8}, height : {1}, black : SUBSET ((0 .. 7) \X {0})]
    \cup [kind : {"image"}, width : {16}, height : {3}, black : SUBSET ({0, 7, 8, 13} \X {0, 2})]

Variations(p) ==
    {p}
    \cup {[p EXCEPT !.v = x] : x \in {"absent", "one", "like one", "other"}}
    \cup {[p EXCEPT !.kind = x] : x \in {"absent", "shell", "other"}}
    \cup {[p EXCEPT !.script = x] : x \in {"absent", "good", "other"}}
    \cup {[p EXCEPT !.issuer = x] : x \in MCIssuer \cup {"absent", "text", "null", "other"}}
    \cup {[p EXCEPT !.label = x] : x \in {"absent", "good", "text", "null", "other"}}
    \cup {[p EXCEPT !.timeout = x] : x \in MCTimeout \cup {0, -1}}
    \cup {[p EXCEPT !.argv = x] : x \in {"absent", "good", "empty", "other"}}
    \cup {[p EXCEPT !.sig = x] : x \in Signature \cup NoSignature}
    \cup {[p EXCEPT !.extra = TRUE], [p EXCEPT !.canonical = FALSE]}

GoodCommand ==
    [v |-> "one", kind |-> "absent", script |-> "absent", issuer |-> i1, label |-> "absent",
     timeout |-> -1, argv |-> "good", sig |-> [by |-> k1, over |-> "argv"],
     extra |-> FALSE, canonical |-> TRUE]

MCCards ==
    [shell : {TRUE}, payload : Variations(EncodeProgram(i1, 2, k1)) \cup Variations(GoodCommand)]
    \cup [shell : {FALSE}, payload : {EncodeProgram(i1, 2, k1), GoodCommand}]
==============================================================================
