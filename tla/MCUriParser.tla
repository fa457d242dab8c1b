---------------------------- MODULE MCUriParser ----------------------------
(* The texts TLC parses: every one over a small alphabet up to a length,    *)
(* behind beginnings that lead to the parts of the grammar.                 *)
EXTENDS UriParser

CONSTANTS
  Alphabet, MaxLen,              \* references of every kind
  HostAlphabet, HostLen,         \* authorities
  EscapeAlphabet, EscapeLen      \* escapes in a path, a query, an opaque part

Texts(A, n) == UNION {[1..k -> A] : k \in 0..n}
After(prefixes, texts) == {a \o b : a \in prefixes, b \in texts}

MCInputs ==
  Texts(Alphabet, MaxLen)
  \cup After({<<"/", "/">>, <<"/", "/", "1", ".", "1", ".">>}, Texts(HostAlphabet, HostLen))
  \cup After({<<"/">>, <<"a", "?">>, <<"a", ":">>}, Texts(EscapeAlphabet, EscapeLen))
=============================================================================
