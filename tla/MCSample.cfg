\* The example service with three concurrent requests and every fate of a
\* Redis call.
CONSTANTS
  a = a
  b = b
  common1 = common1
  single1 = single1
  r1 = r1
  r2 = r2
  r3 = r3
  AddrChars <- MCAddrChars
  MaxAddrLen = 3
  DefaultAddrs <- MCDefaultAddrs
  Commons = {common1}
  Blocking = {}
  SingleOnlys = {single1}
  Protocols <- MCProtocols
  Redirects <- MCRedirects
  Envs <- MCEnvs
  ServerAddr <- MCServerAddr
  Reqs = {r1, r2, r3}
  Outcomes = {"reply", "dropped", "lost"}
SPECIFICATION Spec
\* The service serves a bounded number of requests and then waits for more,
\* or has exited: it may stop with no step left.
CHECK_DEADLOCK FALSE
INVARIANT TypeOK CreatedStaysReadable
