\* The resolver on every Config whose Addrs has at most four bytes over a
\* two-letter alphabet and a comma, for both topologies.  A resolution is
\* one call that returns: the behaviour stops after it.
CONSTANTS
  a = a
  b = b
  common1 = common1
  single1 = single1
  AddrChars <- MCAddrChars
  MaxAddrLen = 4
  DefaultAddrs <- MCDefaultAddrs
  Commons = {common1}
  Blocking = {}
  SingleOnlys = {single1}
  Protocols <- MCProtocols
  Redirects <- MCRedirects
SPECIFICATION Spec
CHECK_DEADLOCK FALSE
INVARIANT AddressesResolved
