------------------------------- MODULE Config -------------------------------
(***************************************************************************)
(* The configuration resolver of xredis (src/options.go): the flat Config  *)
(* record, defaultConfig, and its translation into the go-redis options of *)
(* a single-node client (parseClientConfig) or a cluster client            *)
(* (parseClusterConfig).                                                   *)
(*                                                                         *)
(* The address field is a string of bytes: the resolver splits it on      *)
(* commas and the cluster default of MaxRedirects reads its length, so it  *)
(* is kept as a sequence of characters, with a non-comma byte abstracted   *)
(* to one of AddrChars.  The eighteen fields both resolvers copy as they   *)
(* are (credentials, retries, timeouts, pool sizes) are abstracted to one  *)
(* field, common, whose values in Blocking have a ReadTimeout of -1 or -2  *)
(* (no read deadline); Network, DB and UnstableResp3, which only the       *)
(* single-node resolver copies, to another, singleOnly.                    *)
(***************************************************************************)
EXTENDS Integers, Sequences

CONSTANTS
  AddrChars,     \* the bytes of an address other than the comma
  MaxAddrLen,    \* longest Addrs string considered
  DefaultAddrs,  \* the Addrs of defaultConfig ("127.0.0.1:6379")
  Commons,       \* values of the fields both resolvers copy verbatim
  Blocking,      \* those whose ReadTimeout is -1 or -2 (block indefinitely)
  SingleOnlys,   \* values of the fields only parseClientConfig copies
  Protocols,     \* values of Config.Protocol
  Redirects      \* values of Config.MaxRedirects

Comma == ","

Str == UNION {[1 .. n -> AddrChars \cup {Comma}] : n \in 0 .. MaxAddrLen}

ASSUME ConfigAssumption ==
  /\ Comma \notin AddrChars
  /\ MaxAddrLen \in Nat
  /\ DefaultAddrs \in Str
  /\ Protocols \subseteq Int /\ 0 \in Protocols
  /\ Redirects \subseteq Int /\ 0 \in Redirects
  /\ Blocking \subseteq Commons /\ Commons \ Blocking # {}
  /\ SingleOnlys # {}

(* The Config struct (options.go 138-250), its fields abstracted as above. *)
ConfigRec ==
  [addrs : Str, protocol : Protocols, maxRedirects : Redirects,
   readOnly : BOOLEAN, routeByLatency : BOOLEAN, routeRandomly : BOOLEAN,
   common : Commons, singleOnly : SingleOnlys]

(* defaultConfig: one address and ReadOnly; every other field zero (a     *)
(* zero ReadTimeout is the driver's default of 3 seconds).                 *)
DefaultConfig ==
  [addrs |-> DefaultAddrs, protocol |-> 0, maxRedirects |-> 0,
   readOnly |-> TRUE, routeByLatency |-> FALSE, routeRandomly |-> FALSE,
   common |-> CHOOSE v \in Commons \ Blocking : TRUE,
   singleOnly |-> CHOOSE v \in SingleOnlys : TRUE]

-----------------------------------------------------------------------------
(* strings.Split(s, ","): the pieces between the commas, in order; n       *)
(* commas give n + 1 pieces, so the empty string gives one empty piece.    *)
(* Mutant: a split that drops empty pieces (strings.FieldsFunc).          *)
SplitSkipEmpty(s) ==
  LET sp[i \in 0 .. Len(s)] ==
        IF i = 0 THEN << >>
        ELSE IF s[i] = Comma THEN sp[i - 1]
        ELSE IF i = 1 \/ s[i - 1] = Comma THEN Append(sp[i - 1], <<s[i]>>)
        ELSE [sp[i - 1] EXCEPT ![Len(sp[i - 1])] = Append(@, s[i])]
  IN  sp[Len(s)]

Split(s) ==
  LET sp[i \in 0 .. Len(s)] ==
        IF i = 0 THEN << << >> >>
        ELSE IF s[i] = Comma THEN Append(sp[i - 1], << >>)
        ELSE [sp[i - 1] EXCEPT ![Len(sp[i - 1])] = Append(@, s[i])]
  IN  sp[Len(s)]

(* parseClientConfig: the first piece of the split is the address; the    *)
(* routing flags and MaxRedirects are not copied; Protocol only when       *)
(* positive (0 leaves the driver's default).                               *)
ParseClientConfig(cfg) ==
  LET addrs == Split(cfg.addrs)
  IN  [addr       |-> IF Len(addrs) > 0 THEN addrs[1] ELSE << >>,
       protocol   |-> IF cfg.protocol > 0 THEN cfg.protocol ELSE 0,
       common     |-> cfg.common,
       singleOnly |-> cfg.singleOnly]

(* parseClusterConfig: every piece is a seed address, the routing flags    *)
(* are copied, and MaxRedirects is set only when the caller left it 0, to  *)
(* len(cfg.Addrs) + 1 -- the length of the string.  A non-zero            *)
(* cfg.MaxRedirects is never copied: the field keeps the zero value.       *)
ParseClusterConfig(cfg) ==
  [addrs          |-> Split(cfg.addrs),
   readOnly       |-> cfg.readOnly,
   routeByLatency |-> cfg.routeByLatency,
   routeRandomly  |-> cfg.routeRandomly,
   protocol       |-> IF cfg.protocol > 0 THEN cfg.protocol ELSE 0,
   common         |-> cfg.common,
   maxRedirects   |-> IF cfg.maxRedirects = 0 THEN Len(cfg.addrs) + 1 ELSE 0]

-----------------------------------------------------------------------------
(* Reference definitions (spec 4.1): joining the pieces with commas gives  *)
(* back the string, and no piece holds a comma.                            *)
Join(ps) ==
  LET j[i \in 0 .. Len(ps)] ==
        IF i = 0 THEN << >>
        ELSE IF i = 1 THEN ps[1]
        ELSE j[i - 1] \o <<Comma>> \o ps[i]
  IN  j[Len(ps)]

CommaFree(p) == \A i \in DOMAIN p : p[i] # Comma

(* The first address: everything before the first comma.                   *)
FirstAddr(s) ==
  IF \A i \in DOMAIN s : s[i] # Comma THEN s
  ELSE LET c == CHOOSE i \in DOMAIN s : s[i] = Comma /\ \A j \in 1 .. i - 1 : s[j] # Comma
       IN  SubSeq(s, 1, c - 1)
=============================================================================
