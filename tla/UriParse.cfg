\* Texts over the characters the grammar tells apart; escapes after two
\* beginnings; hosts after "//", and after the first octets of an address.
SPECIFICATION Spec
CONSTANTS
  Alphabet = {"a", "1", "/", ":", "?", "#", ".", ";", "@", "SP"}
  MaxLen = 5
  HostAlphabet = {"a", "1", ".", "-", ":", "@", "/"}
  HostLen = 5
  EscapeAlphabet = {"a", "1", "%", "SP"}
  EscapeLen = 6
  Inputs <- MCInputs
INVARIANTS TypeOK AcceptsReferences AcceptsLongest ComponentsTile AuthorityTiles HostsAreHosts
CHECK_DEADLOCK FALSE
