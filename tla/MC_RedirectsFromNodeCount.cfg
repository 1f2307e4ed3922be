\* Violation: RedirectsFromNodeCount
CONSTANTS
  a = a
  b = b
  common1 = common1
  single1 = single1
  AddrChars <- MCAddrChars
  MaxAddrLen = 4
  DefaultAddrs <- MCDefaultAddrs
  Commons = {common1}
  Blocking = {}
  SingleOnlys = {single1}
  Protocols <- MCProtocols
  Redirects <- MCRedirects
SPECIFICATION Spec
CHECK_DEADLOCK FALSE
INVARIANT RedirectsFromNodeCount
