--------------------------- MODULE MCConfigResolve ---------------------------
EXTENDS ConfigResolve

CONSTANTS a, b, common1, single1

\* Two address bytes, so that two addresses can differ.
MCAddrChars == {a, b}

\* "127.0.0.1:6379" abstracted to a two-byte address.
MCDefaultAddrs == <<a, b>>

MCProtocols == {0, 3}

MCRedirects == {0, 2}
=============================================================================
