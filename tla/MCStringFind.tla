--------------------------- MODULE MCStringFind ----------------------------
(* Every pair of texts over two characters, up to the two bounds.          *)
EXTENDS StringFind

CONSTANTS TextLen, SearchLen

Texts(n) == UNION {[1..k -> Chars] : k \in 0..n}
MCInputs == Texts(TextLen) \X Texts(SearchLen)
=============================================================================
