SPECIFICATION FairSpec
CONSTANTS
  Socks = {s1}
  MaxKeys = 2
  MaxOut = 2
  MaxConns = 2
  MaxLinks = 2
CHECK_DEADLOCK FALSE
INVARIANTS TypeOK TypedInOrder ShownInOrder
PROPERTIES FinalWord Released
