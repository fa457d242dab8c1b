---------------------------- MODULE MCUriEscape ----------------------------
(* The texts TLC escapes: every one over Bytes up to MaxLen bytes, and      *)
(* every pair of a byte and a letter.                                       *)
EXTENDS UriEscape

CONSTANTS Bytes, MaxLen

MCTexts ==
  UNION {[1..k -> Bytes] : k \in 1..MaxLen} \cup {<<c, 97>> : c \in 0..255}
    \cup {<<37, c, d, 97>> : c \in 48..63 \cup 97..102, d \in {49, 71, 102}}
=============================================================================
