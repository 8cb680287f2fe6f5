----------------------------- MODULE MCJsonText -----------------------------
(* Instance of JsonText: two keys, the literals.                           *)
EXTENDS JsonText

MCScalars == {String("a"), String("b"), Null, Boolean(TRUE), Boolean(FALSE)}
MCIndents == {Compact, 0, 2, 4}

\* "a" before "b"
MCPrecedes(k, l) == k = "a"
=============================================================================
