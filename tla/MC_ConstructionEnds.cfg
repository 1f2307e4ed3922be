\* Violation: ConstructionEnds. The caller's Config sets ReadTimeout -1
\* (common1 blocks); defaultConfig does not (common0).
CONSTANTS
  a = a
  b = b
  common0 = common0
  common1 = common1
  single1 = single1
  c1 = c1
  c2 = c2
  id1 = id1
  h1 = h1
  Nil = Nil
  AddrChars <- MCAddrChars
  MaxAddrLen = 3
  DefaultAddrs <- MCDefaultAddrs
  Commons = {common0, common1}
  Blocking = {common1}
  SingleOnlys = {single1}
  Protocols <- MCProtocols
  Redirects <- MCRedirects
  Ctors = {c1, c2}
  OptLists <- MCOptLists
  Configs <- MCConfigs
  IDs = {id1}
  Handles = {h1}
SPECIFICATION Spec
CHECK_DEADLOCK FALSE
PROPERTY ConstructionEnds
