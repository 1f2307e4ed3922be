------------------------------- MODULE MCSample -------------------------------
EXTENDS Sample

CONSTANTS a, b, common1, single1, r1, r2, r3

MCAddrChars == {a, b}

MCDefaultAddrs == <<a, b>>

MCProtocols == {0}

MCRedirects == {0}

\* REDIS_ADDRS unset, the server's address, a list that starts with it, and
\* a list that starts with another address.
MCEnvs == {<< >>, <<a>>, <<a, Comma, b>>, <<b, Comma, a>>}

MCServerAddr == <<a>>
=============================================================================
