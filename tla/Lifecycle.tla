------------------------------ MODULE Lifecycle ------------------------------
(***************************************************************************)
(* Construction and teardown of xredis clients (src/client.go 29-75,       *)
(* 364-393; src/options.go 17-136): NewClient / NewClusterClient apply the *)
(* options in order, resolve the configuration (module Config), choose the *)
(* connection name, create the go-redis client, attach tracing and then    *)
(* metrics instrumentation, and ping; Close closes the connection.         *)
(*                                                                         *)
(* Several constructions run at once (one per element of Ctors), on       *)
(* goroutines of their own; they share only the generator of unique        *)
(* tokens (GenerateUUID), modelled as the counter uuid.  The option loop   *)
(* and the creation of the go-redis client do no I/O and are one step      *)
(* each; instrumenting and pinging may fail.                               *)
(***************************************************************************)
EXTENDS Config

CONSTANTS
  Ctors,      \* the concurrent constructions
  OptLists,   \* the option lists callers pass (sequences of Option)
  Configs,    \* the Config values passed to WithConfig
  IDs,        \* the ids passed to WithClientID
  Handles,    \* loggers, TLS configs, limiters, marshallers, providers ...
  Nil         \* nil, or the empty string

Setters == {"suffix", "marshaller", "tls", "limiter"}

Kinds == Setters \cup {"logger", "config", "clientID", "meterProvider", "traceProvider",
                       "dbStatement", "dbSystem", "attributes"}

Option == [kind : Kinds, arg : Handles \cup Configs \cup IDs \cup {Nil}]

ASSUME LifecycleAssumption ==
  /\ Nil \notin Handles \cup Configs \cup IDs
  /\ Configs \subseteq ConfigRec
  /\ OptLists \subseteq Seq(Option)

(* The name a client gives its connections: a caller id and a token       *)
(* ("id-uuid"), or a token alone.                                          *)
Name == [base : IDs \cup {Nil}, tok : Nat]

VARIABLES
  pc,        \* pc[c]: where construction c is
  cl,        \* cl[c]: the Client struct being built
  topo,      \* topo[c]: TRUE for NewClusterClient
  policy,    \* policy[c]: what rdb.NewClient / rdb.NewClusterClient got
  conn,      \* conn[c]: "none", "open" or "closed"
  attached,  \* attached[c]: the instrumentation hooks installed on conn[c]
  pinged,    \* pinged[c]: the ping of construction c succeeded
  closeRes,  \* closeRes[c]: what the last Close returned
  uuid       \* the next token GenerateUUID returns

vars == <<pc, cl, topo, policy, conn, attached, pinged, closeRes, uuid>>

NoPolicy == [none |-> TRUE]

(* The Client literal of newClient (client.go 38-41): defaultConfig and    *)
(* slog.Default(); everything else nil.                                    *)
NewClientRec ==
  [cfg |-> DefaultConfig, logger |-> [base |-> "default", component |-> FALSE], id |-> Nil, suffix |-> Nil,
   marshaller |-> Nil, tls |-> Nil, limiter |-> Nil,
   meter |-> << >>, trace |-> << >>]

-----------------------------------------------------------------------------
(* One option applied to the Client (options.go 30-136); tok is the token  *)
(* GenerateUUID returns if the option calls it.  Setters and WithConfig    *)
(* ignore nil; WithDBStatement and WithAttributes always append.           *)
(* WithLogger (options.go 30-36): a nil logger is ignored.                *)
(* Mutant: the nil check dropped.                                         *)
WithLoggerUnchecked(c, l) == [c EXCEPT !.logger = [base |-> l, component |-> FALSE]]

WithLogger(c, l) ==
  IF l = Nil THEN c ELSE [c EXCEPT !.logger = [base |-> l, component |-> FALSE]]

(* WithClientID (options.go 46-52): a non-empty id gets "-" and a fresh    *)
(* token appended.                                                         *)
(* Mutant: the caller's id kept without a token.                          *)
WithClientIDNoToken(c, id, tok) == [c EXCEPT !.id = [base |-> id, tok |-> 0]]

WithClientID(c, id, tok) == [c EXCEPT !.id = [base |-> id, tok |-> tok]]

ApplyOption(c, o, tok) ==
  CASE o.kind \in Setters /\ o.arg # Nil    -> [c EXCEPT ![o.kind] = o.arg]
    [] o.kind = "logger"                    -> WithLogger(c, o.arg)
    [] o.kind = "config" /\ o.arg # Nil     -> [c EXCEPT !.cfg = o.arg]
    [] o.kind = "clientID" /\ o.arg # Nil   -> WithClientID(c, o.arg, tok)
    [] o.kind = "meterProvider" /\ o.arg # Nil -> [c EXCEPT !.meter = Append(@, "provider")]
    [] o.kind = "traceProvider" /\ o.arg # Nil -> [c EXCEPT !.trace = Append(@, "provider")]
    [] o.kind = "dbStatement"               -> [c EXCEPT !.trace = Append(@, "statement")]
    [] o.kind = "dbSystem" /\ o.arg # Nil   -> [c EXCEPT !.trace = Append(@, "system"),
                                                         !.meter = Append(@, "system")]
    [] o.kind = "attributes"                -> [c EXCEPT !.trace = Append(@, "attrs"),
                                                         !.meter = Append(@, "attrs")]
    [] OTHER                                -> c

(* The option loop (client.go 43-45), threading the token generator.      *)
ApplyOptions(c0, opts, tok0) ==
  LET ap[i \in 0 .. Len(opts)] ==
        IF i = 0 THEN [c |-> c0, tok |-> tok0]
        ELSE LET o == opts[i]
                 draws == o.kind = "clientID" /\ o.arg # Nil
             IN  [c   |-> ApplyOption(ap[i - 1].c, o, ap[i - 1].tok),
                  tok |-> IF draws THEN ap[i - 1].tok + 1 ELSE ap[i - 1].tok]
  IN  ap[Len(opts)]

-----------------------------------------------------------------------------
(* newClient, client.go 38-51: the Client literal, the options, the        *)
(* component logger, the default marshaller (json.Marshal).                *)
Configure(c) ==
  /\ pc[c] = "start"
  /\ \E opts \in OptLists, cluster \in BOOLEAN :
       LET r == ApplyOptions(NewClientRec, opts, uuid)
       IN  /\ cl' = [cl EXCEPT ![c] =
                       [r.c EXCEPT !.logger.component = TRUE,
                                   !.marshaller = IF @ = Nil THEN "json" ELSE @]]
           /\ uuid' = r.tok
           /\ topo' = [topo EXCEPT ![c] = cluster]
  /\ pc' = [pc EXCEPT ![c] = "dial"]
  /\ UNCHANGED <<policy, conn, attached, pinged, closeRes>>

(* getID, client.go 368-373: the id the options built, or a fresh token.  *)
GetID(c, tok) == IF c.id = Nil THEN [base |-> Nil, tok |-> tok] ELSE c.id

(* newClient, client.go 53-64: resolve the configuration for the chosen    *)
(* topology, add TLS, the connection name (getID is called once) and, for  *)
(* a single node only, the limiter; create the go-redis client.            *)
Dial(c) ==
  /\ pc[c] = "dial"
  /\ LET k == cl[c]
     IN  /\ policy' = [policy EXCEPT ![c] =
                        [opts    |-> IF topo[c] THEN ParseClusterConfig(k.cfg)
                                     ELSE ParseClientConfig(k.cfg),
                         tls     |-> k.tls,
                         name    |-> GetID(k, uuid),
                         limiter |-> IF topo[c] THEN Nil ELSE k.limiter]]
         /\ uuid' = IF k.id = Nil THEN uuid + 1 ELSE uuid
  /\ conn' = [conn EXCEPT ![c] = "open"]
  /\ pc' = [pc EXCEPT ![c] = "instrument"]
  /\ UNCHANGED <<cl, topo, attached, pinged, closeRes>>

(* exposeInstrumenting, client.go 66-68 and 383-393: tracing, then         *)
(* metrics; the first failure is returned, and newClient returns it        *)
(* without closing the connection.                                         *)
Instrument(c) ==
  /\ pc[c] = "instrument"
  /\ \E failed \in {"none", "tracing", "metrics"} :
       /\ attached' = [attached EXCEPT ![c] =
                        CASE failed = "none"    -> {"tracing", "metrics"}
                          [] failed = "metrics" -> {"tracing"}
                          [] OTHER              -> {}]
       /\ pc' = [pc EXCEPT ![c] = IF failed = "none" THEN "ping" ELSE "failed"]
  /\ UNCHANGED <<cl, topo, policy, conn, pinged, closeRes, uuid>>

(* newClient, client.go 70-74: PING; on error newClient returns it, again  *)
(* leaving the connection open; otherwise the client.                      *)
(* Mutant: the ping's error ignored.                                      *)
PingIgnoringError(c) ==
  /\ pc[c] = "ping"
  /\ \E ok \in BOOLEAN :
       /\ pinged' = [pinged EXCEPT ![c] = ok]
       /\ pc' = [pc EXCEPT ![c] = "ready"]
  /\ UNCHANGED <<cl, topo, policy, conn, attached, closeRes, uuid>>

Ping(c) ==
  /\ pc[c] = "ping"
  /\ \E ok \in BOOLEAN :
       /\ pinged' = [pinged EXCEPT ![c] = ok]
       /\ pc' = [pc EXCEPT ![c] = IF ok THEN "ready" ELSE "failed"]
  /\ UNCHANGED <<cl, topo, policy, conn, attached, closeRes, uuid>>

(* Close, client.go 364-366: c.conn.Close(); on a closed client go-redis   *)
(* answers "redis: client is closed".                                      *)
Close(c) ==
  /\ pc[c] = "ready"
  /\ conn' = [conn EXCEPT ![c] = "closed"]
  /\ closeRes' = [closeRes EXCEPT ![c] = IF conn[c] = "open" THEN "nil" ELSE "Closed"]
  /\ UNCHANGED <<pc, cl, topo, policy, attached, pinged, uuid>>

-----------------------------------------------------------------------------
Init ==
  /\ pc = [c \in Ctors |-> "start"]
  /\ cl = [c \in Ctors |-> NewClientRec]
  /\ topo = [c \in Ctors |-> FALSE]
  /\ policy = [c \in Ctors |-> NoPolicy]
  /\ conn = [c \in Ctors |-> "none"]
  /\ attached = [c \in Ctors |-> {}]
  /\ pinged = [c \in Ctors |-> FALSE]
  /\ closeRes = [c \in Ctors |-> "none"]
  /\ uuid = 0

(* The steps of one construction.                                         *)
Construct(c) == Configure(c) \/ Dial(c) \/ Instrument(c) \/ Ping(c)

Next == \E c \in Ctors : Construct(c) \/ Close(c)

(* The ping can hang (client.go 70-74): it runs under context.Background, *)
(* so only the read timeout of the resolved options bounds it, and a       *)
(* Common value in Blocking (ReadTimeout -1 or -2) has none.               *)
PingMayBlock(c) == policy[c].opts.common \in Blocking

(* newClient runs on its caller's goroutine without waiting for another    *)
(* construction.  The option loop, rdb.NewClient and exposeInstrumenting   *)
(* do no network I/O and return; the ping returns only when a read timeout *)
(* bounds it.  Close is the caller's choice and is not assumed to happen.  *)
Fairness ==
  \A c \in Ctors : /\ WF_vars(Configure(c) \/ Dial(c) \/ Instrument(c))
                  /\ WF_vars(Ping(c) /\ ~PingMayBlock(c))

Spec == Init /\ [][Next]_vars /\ Fairness
-----------------------------------------------------------------------------
ClientRec ==
  [cfg : ConfigRec, logger : [base : Handles \cup {"default"}, component : BOOLEAN],
   id : Name \cup {Nil}, suffix : Handles \cup {Nil},
   marshaller : Handles \cup {"json", Nil}, tls : Handles \cup {Nil},
   limiter : Handles \cup {Nil}, meter : Seq({"provider", "system", "attrs"}),
   trace : Seq({"provider", "statement", "system", "attrs"})]

TypeOK ==
  /\ pc \in [Ctors -> {"start", "dial", "instrument", "ping", "ready", "failed"}]
  /\ cl \in [Ctors -> ClientRec]
  /\ topo \in [Ctors -> BOOLEAN]
  /\ \A c \in Ctors : policy[c] = NoPolicy \/ policy[c].name \in Name
  /\ conn \in [Ctors -> {"none", "open", "closed"}]
  /\ attached \in [Ctors -> SUBSET {"tracing", "metrics"}]
  /\ pinged \in [Ctors -> BOOLEAN]
  /\ closeRes \in [Ctors -> {"none", "nil", "Closed"}]
  /\ uuid \in Nat

(* Spec 3 and 7 (construction is all-or-nothing, no partial client is     *)
(* returned): newClient hands out a client only after its connection was   *)
(* created, tracing and metrics were both attached and the ping succeeded. *)
ReadyClientComplete ==
  \A c \in Ctors : pc[c] = "ready" =>
    /\ pinged[c]
    /\ attached[c] = {"tracing", "metrics"}
    /\ conn[c] # "none"
    /\ policy[c] # NoPolicy

(* Spec 4.2 (identity is a caller id plus a generated unique token, or a   *)
(* fresh token): two clients built concurrently never name their           *)
(* connections alike, even when their callers pass the same id.            *)
NamesUnique ==
  \A c, d \in Ctors :
    (c # d /\ policy[c] # NoPolicy /\ policy[d] # NoPolicy)
      => policy[c].name # policy[d].name

(* Spec 5 and 6 (callers pass a deadline the backend honours; construction *)
(* returns a ready client or an error): every call of NewClient /          *)
(* NewClusterClient returns, whatever its Config and its server do.        *)
ConstructionEnds == \A c \in Ctors : <>(pc[c] \in {"ready", "failed"})

(* Spec 4.3 ("construction owns connection teardown on its own failure"):  *)
(* when newClient returns an error, the connection it created is closed.   *)
NoLeakOnFailure == \A c \in Ctors : pc[c] = "failed" => conn[c] # "open"

(* Spec 4.3 (attach is "invoked exactly once after the connection is       *)
(* opened and pinged successfully"): no instrumentation hook is installed  *)
(* on a connection whose ping has not succeeded.                           *)
InstrumentAfterPing == \A c \in Ctors : attached[c] # {} => pinged[c]
=============================================================================
