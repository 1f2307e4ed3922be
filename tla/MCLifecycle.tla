----------------------------- MODULE MCLifecycle -----------------------------
EXTENDS Lifecycle

CONSTANTS a, b, common0, common1, single1, c1, c2, id1, h1

MCAddrChars == {a, b}

MCDefaultAddrs == <<a, b>>

MCProtocols == {0, 3}

MCRedirects == {0, 2}

\* A caller's Config with two addresses and a redirect budget of its own.
MCConfig ==
  [addrs |-> <<a, Comma, b>>, protocol |-> 3, maxRedirects |-> 2,
   readOnly |-> FALSE, routeByLatency |-> TRUE, routeRandomly |-> FALSE,
   common |-> common1, singleOnly |-> single1]

MCConfigs == {MCConfig}

Opt(k, x) == [kind |-> k, arg |-> x]

\* No options; the same caller id twice over; a Config, a system label and
\* an empty id and a nil logger; every setter, the trace-only and
\* both-sided fragments.
MCOptLists ==
  { << >>,
    << Opt("clientID", id1) >>,
    << Opt("config", MCConfig), Opt("dbSystem", h1), Opt("clientID", Nil),
       Opt("logger", Nil) >>,
    << Opt("logger", h1), Opt("suffix", h1), Opt("marshaller", h1),
       Opt("tls", h1), Opt("limiter", h1), Opt("meterProvider", h1),
       Opt("traceProvider", h1), Opt("dbStatement", Nil),
       Opt("attributes", Nil), Opt("config", Nil) >> }
=============================================================================
