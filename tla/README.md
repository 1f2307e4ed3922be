# Formal model of xredis

This directory holds TLA+ models of the xredis client library (`src/client.go`,
`src/options.go`, `src/unnamed/part_000`) and of its example service
(`src/examples/sample/main.go`). It also holds the TLC configurations that
model-check them and four TLAPS proof modules. `PROJECT.json` is the
machine-readable index: components, runs, mutants, the map from definitions to
source lines, findings, hazards and theorems.

## 1. The system

xredis wraps a go-redis `UniversalClient` (single node or cluster) in a `Client`
with a typed, context-aware API. Its parts (spec.md §4):

| Part | Source | State | Operations |
|---|---|---|---|
| Configuration Resolver | options.go 138-331 | none (pure) | `defaultConfig`, `parseClientConfig`, `parseClusterConfig` |
| Identity Resolver | client.go 368-373, options.go 46-60 | `c.id`, `c.suffix` | `WithClientID`, `WithIdentitySuffix`, `getID` |
| Instrumentation Composer | client.go 375-393, options.go 86-136 | `meterOptions`, `traceOptions` | `With*` options, `exposeInstrumenting` |
| Client construction | client.go 29-75 | the `Client` fields, `c.conn` | `NewClient`, `NewClusterClient`, `newClient` |
| Typed Command Layer | client.go 77-122, 188-366 | the server's keys; `c.conn` open/closed | Exists, HExists, HIncrBy, HGetAll, HGet, Get, Set, SetStruct, Bool/Bytes/Float64/Int/Int64/Uint64/String, Incr, Decr, Delete, MassDelete, Close |
| Atomic Multi-Step Executor | client.go 123-186 | the server's keys | HSet, HSetObject (MULTI/EXEC of HSET(s) + EXPIRE) |

How they interact: construction applies the options, resolves the configuration,
picks an identity, builds the connection, attaches instrumentation and pings.
After that every method sends one command, one pipeline or one MULTI/EXEC batch.
It then turns the reply into its result. `Client` keeps no per-call state, so
goroutines share it freely. Their calls reach the server in some order, and
the server runs each command, and each MULTI/EXEC batch, as one step.

The hard behaviours are:
- calls of several goroutines interleaved with each other and with key expiry;
- a request lost before the server runs it, or its reply lost after;
- MULTI/EXEC, which is isolated but does not roll back on a runtime error;
- counters at the 64-bit bounds;
- calls after `Close`.

## 2. Modules

**Store** (`Store.tla`). This is the server as the client layer sees it. Each key
has an `Entry`: its type (`none`, `string` or `hash`), a string value, a hash
from `Fields` to values, and an expiry in whole seconds (0 = persistent). Each
operator is the effect, or the error, of one command the code sends:
- `SETEntry` is SET with or without EX;
- `GETErr` is GET, with `"Nil"` standing for `rdb.Nil`;
- `EXPIREEntry` is EXPIRE: no-op on a missing key, delete when t <= 0;
- `HSETErr`/`HSETEntry` are HSET, which answers WRONGTYPE on a string;
- `INCRBYErr`/`INCRBYEntry` and `HINCRBYErr`/`HINCRBYEntry` are the counters,
  where a missing key or field counts as 0 and NotInteger and Overflow are
  errors;
- `TickEntry` is one second of server time: the server's clock, which no code
  of the repository runs, so the map does not list it.

Integers are the window `MinInt..MaxInt`. Its edges stand for -2^63 and
2^63-1, so an increment past an edge is the server's overflow error.

**Commands** (`Commands.tla`, EXTENDS Store). It has one action per public
method of the command layer and of the atomic executor.

Variables:
- `db` holds the server's keys;
- `conn` is the state of `c.conn` (`open`/`closed`);
- `last` is the result the most recent call returned: operation, key, error,
  found flag and value;
- `batched` is a history variable: the fields the atomic executor wrote to a
  hash since the key was last created.

Every network call picks a fate from `Fates`. An open connection can reply,
drop the request (`dropped`), or run the request and lose its reply (`lost`).
A closed one answers `"Closed"`. `Reply` turns the fate and the server's error
into the error the method returns. `Write` applies an entry when the request
reached the server.

How each action follows its Go method:
- `Get`, `TypedGet`, `HGet` scan or convert (`Decodes`). The Nil sentinel becomes
  `ErrKeyNotFound` in Get/HGet and `(zero, false, nil)` in the seven typed
  getters. `TypedGet` is one action for the seven typed getters, with the
  destination kind as a parameter.
- `HGetAll` returns `ErrKeyNotFound` on an empty answer (client.go:105).
- `SetStruct` returns the marshaller's error before any request (client.go:210-213).
- `MassDelete` is one pipelined DEL of all keys. With no keys it is a
  wrong-arguments error. On a cluster, keys in different slots get CROSSSLOT.
- `HSet` checks the value's kind first (`ValidShape`, client.go:127-134). Then
  it runs the batch `HSetBatch` = EXPIRE after HSET as one step, and returns the
  first error of the batch.
- `HSetObject` checks the tagged fields in order (`Tagged`). `LastWriter` says
  which field wins a duplicate tag. The batch `HSetObjectBatch` runs every HSET
  then the EXPIRE.
- `Close` closes the connection. A second Close answers "client is closed".
- `Tick` is the server clock: expiries count down and a key at 1 is removed.

**MCCommands** (`MCCommands.tla`). It gives the constants for TLC:
- two keys in different slots;
- one field;
- one string value and the integers -1..1;
- a pointer value (`ptr`) that HSet rejects;
- two marshalled documents and one marshalling failure;
- five struct shapes: empty, one tagged field, a `-` tag with an untagged field,
  an untagged field with a pointer, and a duplicate tag.

**Config** (`Config.tla`). The configuration resolver as pure operators.
`ConfigRec` is the `Config` struct. `Addrs` is kept as a string of bytes (a
sequence over `AddrChars` and the comma), because the code splits it on commas
and reads its byte length. The eighteen fields both resolvers copy unchanged
are one field, `common`. `Blocking` is the set of `common` values whose
ReadTimeout is -1 or -2 (options.go 189-194: no read deadline); defaultConfig's
is not among them. `Network`, `DB` and `UnstableResp3`, copied only for a
single node, are `singleOnly`.
- `Split` is `strings.Split(s, ",")`: n commas give n+1 pieces, `""` gives one
  empty piece. It is a recursive function, not a RECURSIVE operator, so proof
  modules may extend Config.
- `ParseClientConfig` takes the first piece and a positive protocol.
- `ParseClusterConfig` takes all pieces and the routing flags, and sets
  `maxRedirects` to `Len(addrs) + 1` (the byte length) only when the caller
  left it 0; otherwise the field stays 0, as in the code.
- `Join`, `CommaFree` and `FirstAddr` are reference definitions that the
  properties compare against.

**ConfigResolve** (`ConfigResolve.tla`, EXTENDS Config). One resolution
(client.go 53-64) of any Config, or of `defaultConfig`, for either topology.

**Lifecycle** (`Lifecycle.tla`, EXTENDS Config). Construction and teardown, for
several constructions running at once (`Ctors`). Per construction: `pc` (where
`newClient` is), `cl` (the `Client` being built), `topo`, `policy` (what the
go-redis constructor received), `conn`, `attached` (the hooks installed),
`pinged`, `closeRes`. `uuid` is the shared token generator behind
`GenerateUUID`, which `src` does not define.
- `Configure` is client.go 38-51: the literal `NewClientRec`, the option loop
  `ApplyOptions` (each option by `ApplyOption`, which has one arm per `With*`
  function; `WithLogger` and `WithClientID` are definitions of their own), the
  component logger and the json marshaller default.
- `Dial` is client.go 53-64: resolve with Config, TLS, `getID` (`GetID`, once),
  the limiter for a single node only, and the connection is created.
- `Instrument` is `exposeInstrumenting`: tracing, then metrics; each may fail.
  On failure `newClient` returns and the connection stays open.
- `Ping` is client.go 70-74, and may fail the same way. It runs under
  `context.Background()`, so only the resolved ReadTimeout bounds it;
  `PingMayBlock` holds when that timeout is -1 or -2.
- `Close` is client.go 364-366; a second Close answers the closed-client error.
- `Fairness` is weak fairness of each construction's steps, the ping's only
  when it cannot block (§3).

**Sample** (`Sample.tla`, EXTENDS Config). The example service. `main` builds a
Config holding only `Addrs = $REDIS_ADDRS` (every other field zero, so no
ReadOnly), creates a single-node client (the dialled address is
`ParseClientConfig(...).addr`), and serves. `Start` is NewClient plus
`log.Fatalln`: the ping can succeed only if the dialled address is the server's.
`Listen` is `ListenAndServe`, which blocks or fails. Each request `r` runs on its
own goroutine: `Arrive` routes it, `GetTask` is `getTasksHandler` (GET value_1,
`rdb.Nil` becomes a 500 "key not found"), `CreateFirst`/`CreateSecond` are the
two `Set` calls of `createTasksHandler`, each through `SetStep`. Every Redis call
is answered, dropped, or run with its reply lost. `createdOK` and `snap` are
history variables for the property.

**MC modules.** `MCConfigResolve`, `MCLifecycle`, `MCSample` give the model
values: two address bytes `a`, `b`; one value of each abstracted field. MCLifecycle
has two constructions and four option lists: none; `WithClientID(id1)`; a
caller Config with two addresses, `WithDBSystem`, an empty id and a nil logger;
every setter and fragment. MCSample has three requests and `REDIS_ADDRS` in
{unset, the server's address, a list starting with it, a list starting with
another}.

**CommandsProofs**, **ReadContractProofs**, **LifecycleProofs**, **SampleProofs**
hold the TLAPS proofs (§5).

## 3. Runs

| Run | cfg | Expect | What it shows |
|---|---|---|---|
| commands_core | MCCommands.cfg | pass | `TypeOK`, `BatchedFieldsExpire`, `ReadContract` hold with lost requests and replies, Close and expiry; 51,581 distinct states, about 20 s |
| hset_all_or_nothing | MC_HSetAllOrNothing.cfg | violation | `HSetAllOrNothing`: an HSet that fails with WRONGTYPE has still applied its EXPIRE |
| hset_stores_field | MC_HSetStoresField.cfg | violation | `HSetStoresField`: `HSet(k, f, v, 0)` succeeds and the hash is gone |
| hset_keeps_expiry | MC_HSetKeepsExpiry.cfg | violation | `HSetKeepsExpiry`: a second HSet replaces the running expiry |
| config_resolve | MCConfigResolve.cfg | pass | `AddressesResolved` for every address string of up to 4 bytes, both topologies; 15,488 states |
| redirects_from_node_count | MC_RedirectsFromNodeCount.cfg | violation | `RedirectsFromNodeCount`: the cluster default is the byte length + 1 |
| explicit_redirects_kept | MC_ExplicitRedirectsKept.cfg | violation | `ExplicitRedirectsKept`: a caller's MaxRedirects 2 becomes 0 |
| lifecycle | MCLifecycle.cfg | pass | `TypeOK`, `ReadyClientComplete`, `NamesUnique`; 9,685 states |
| no_leak_on_failure | MC_NoLeakOnFailure.cfg | violation | `NoLeakOnFailure`: a failed construction leaves its connection open |
| construction_ends | MC_ConstructionEnds.cfg | violation | `ConstructionEnds`: with a caller Config whose ReadTimeout is -1, a ping that gets no answer never returns |
| instrument_after_ping | MC_InstrumentAfterPing.cfg | violation | `InstrumentAfterPing`: hooks attached before any ping |
| sample | MCSample.cfg | pass | `TypeOK`, `CreatedStaysReadable` with three concurrent requests; 809 states |

Properties:
- `BatchedFieldsExpire`: a field the atomic executor wrote is never present
  while its key has no expiry. This must hold whatever other callers, or the
  server's expiry, do between calls. It fails if HSET and EXPIRE were separate
  steps or in the other order (the mutant `HSetBatchSwapped`).
- `ReadContract`: the result a read returns agrees with the store. A found value
  is the stored one. `ErrKeyNotFound` and the typed getters' `ok == false`
  happen exactly for a missing key. A lost reply never reports success.
- `AddressesResolved`: a cluster gets every comma-separated piece, in order,
  none holding a comma, and joining them gives the string back; a single node
  gets the text before the first comma. `""` and `","` are among the inputs.
- `ReadyClientComplete`: a returned client has its connection, its resolved
  options, both hooks and a successful ping.
- `NamesUnique`: two constructions never give their connections the same name,
  even when both callers pass the same id. It checks that WithClientID appends
  a fresh token; uniqueness itself rests on the token generator.
- `ConstructionEnds` (liveness, spec §5/§6): every NewClient call returns. It
  is violated: the trace reaches the ping with the caller's blocking Config and
  then stutters, which the fairness allows because the code gives the ping no
  deadline.
- `CreatedStaysReadable`: once a /create answered OK, every /get that starts
  afterwards answers "First value" or a network error. It is never "not found"
  and never another value, whatever runs concurrently.
- `HSetAllOrNothing` (spec §8), `HSetStoresField` and `HSetKeepsExpiry` (the doc
  comment at client.go:123) are action properties. Their runs use expiries that
  include 0, or two different expiries, and no network faults.

Bounds. Two keys are enough for every cross-key case: MassDelete of a subset,
two slots, an interleaved write to another key. One field is enough, because the
properties are per key. Duplicate tags are covered by the struct shapes.
`MaxTTL = 2` lets an expiry be replaced by a different one, and lets a key
expire while another still has time. The integer window -1..1 reaches both
overflow edges from 0 in one step. The run checks deadlock: a read is always
enabled, because a closed client still answers.

The Config bound `MaxAddrLen` is 4 in config_resolve, which covers the empty string, a lone comma,
two empty pieces, two one-byte addresses and a two-byte address next to a
one-byte one. That is enough to tell the byte length from the piece count, and
an explicit budget (2) from the default. Two constructions are enough for name
collisions and for interleaved steps. The option lists include nil arguments,
an empty id and a duplicate id. In the sample, three requests allow a /create,
a /get after it, and a concurrent /get. The lifecycle and sample runs set
`CHECK_DEADLOCK FALSE`: a construction may end and a caller need not call
Close, and the service serves a bounded set of requests and then waits, so
these programs really may stop.

Fairness. The command layer assumes none: the library starts no goroutines.
Lifecycle assumes weak fairness of `Configure`, `Dial` and `Instrument` of each
construction: `newClient` runs on its caller's goroutine and waits for no
other construction, and the option loop, `rdb.NewClient` and
`exposeInstrumenting` do no network I/O. The ping is weakly fair only when
`~PingMayBlock(c)`: it runs under `context.Background()` (client.go:70), so a
ReadTimeout of -1 or -2 (options.go 189-194) lets it wait forever on a server
that never answers. Close is the caller's choice and is not assumed to happen.
The lifecycle run uses no blocking Config; construction_ends does (its caller
Config's `common` is in `Blocking`, defaultConfig's is not).

Mutants (in `PROJECT.json`). Each property of the passing run has one mutant:
- `TypeOK` is killed by `HSetUnchecked`, HSet without the kind check;
- `BatchedFieldsExpire` by `HSetBatchSwapped`, EXPIRE queued before HSET;
- `ReadContract` by `HGetAllNoEmptyCheck`, HGetAll without the `len == 0` check;
- `AddressesResolved` by `SplitSkipEmpty`, a split that drops empty pieces;
- Lifecycle: `TypeOK` by `WithLoggerUnchecked` (no nil check);
  `ReadyClientComplete` by `PingIgnoringError`; `NamesUnique` by
  `WithClientIDNoToken` (the id without a token);
- Sample: `TypeOK` by `GetTaskNilUntranslated`; `CreatedStaysReadable` by
  `CreateSecondWrongKey` (the second Set written to value_1).

What no property covers (the hazards in `PROJECT.json` with a note): a write
whose reply was lost (the caller sees Net although the change was applied),
what a second Close returns, MassDelete's WrongArgs and CrossSlot answers, and
counter overflow. The model contains each of them, and the other runs hold
through them, but the spec promises nothing that a property could check, or
(overflow) only the server decides it. The driver's retry loop is not modelled.

## 4. Findings

1. **client.go:139**: MULTI/EXEC is not all-or-nothing. Example: `Incr(k)`, then
   `HSet(k, f, v, 0)`. The call returns WRONGTYPE and `k` has been deleted by
   the EXPIRE. Spec §4.5/§8 promise all-or-nothing.
2. **client.go:137**: `HSet` with ttl 0 sends `EXPIRE key 0`. That deletes the
   hash the same batch wrote, and the call returns nil.
3. **client.go:137**: `HSet` replaces an existing expiry. Its comment says it
   sets the expiration only "if expiration wasn't set before".
4. **options.go:320**: `parseClusterConfig` sets MaxRedirects to `len(cfg.Addrs) + 1`.
   That is the byte length of the address string: 15 for the default, 1 for
   `""`. Its comment and the spec say the number of nodes plus one.
5. **options.go:319**: an explicit `cfg.MaxRedirects` is never copied, so the
   cluster options get 0 and go-redis uses its own default.
6. **client.go:66**: when instrumentation or the ping fails, `newClient` returns
   without closing the connection it created. Spec §4.3 says construction owns
   that teardown.
7. **client.go:66-70**: the hooks are attached before the ping. Spec §2/§4.3
   attach only after a successful ping.
8. **client.go:70**: the ping runs under `context.Background()`. With a
   ReadTimeout of -1 or -2, NewClient against a server that accepts the
   connection and never answers hangs forever, and the caller has no deadline
   to end it. Spec §5 says callers pass a deadline the backend honours; §6 says
   construction returns a client or an error.

Noticed in the code, and not in a run:
- `client.go:59` and `options.go:99` refer to `parseConfig` and `c.namespace`,
  which do not exist, and `GenerateUUID` is not defined in `src`. As written,
  the package does not compile. The model reads `parseConfig` as
  `parseClientConfig` and `GenerateUUID` as a fresh-token generator.
  `WithMetricsNamespace` is not modelled.
- `WithIdentitySuffix` stores a suffix that `getID` never uses.
- The example's `defer client.Close()` never runs. `ListenAndServe` returns
  only with an error, and `log.Fatalln` exits the process before deferred
  calls run. The process is ending anyway, so this costs nothing, and no run
  checks it.

## 5. Proofs

`tlapm CommandsProofs.tla` proves all 574 obligations, for every value of the
constants that satisfies `StoreAssumption` and `CommandsAssumption`. An earlier
version of the module had a stray module-end line in the middle of the file.
tlapm stopped reading there and counted only 385 obligations, so the HSetObject
case of `NextBInv` had never been checked. Once the line was fixed, that case
failed: the provers could not see that the hash HSetObject's HSETs build is an
`Entry`. The lemmas `Written`, `HSetObjectBatchDef` and `WrittenType` name that
hash and prove its type, and the whole module now proves.

- `TypeCorrect`: `Spec => []TypeOK`. `TypeOK` is inductive by itself. There is
  one lemma per family of actions (`ReadsType`, `SetsType`, `CountersType`,
  `DeletesType`, `HSetType`, `HSetObjectTypeOK`, `CloseTickType`). They rest
  on lemmas saying each Store operator returns an `Entry` and that `Write`
  keeps `db` and `batched` well typed.
- `BatchedFieldsExpireInvariant`: `Spec => []BatchedFieldsExpire`. The invariant
  alone is not inductive. If a key lost its hash type while `batched` kept
  fields, a later HIncrBy would create a persistent hash that still had fields
  recorded. The inductive invariant is `IInv == TypeOK /\ BatchedFieldsExpire
  /\ Unbatched`, where `Unbatched` says a key that is not a hash has no batched
  fields. TLC checked `IInv` on the commands_core instance, also with expiry 0
  allowed, before it was proved. The key facts are:
  - `EXPIRENoPersistentHash`: EXPIRE never leaves a persistent hash. That is why
    the batch order HSET-then-EXPIRE matters.
  - `WriteBInv`: a write keeps `IInv` if the new hash has an expiry, or keeps the
    old expiry and records no field.

**ReadContractProofs** (`ReadContractProofs.tla`) proves one result under the
same assumptions, plus `NatLessThanWellFounded` and `WFMin` from the library
module WellFoundedInduction.
- `ReadContractInvariant`: `Spec => []ReadContract`. `ReadContract` relates
  `last` to the entry it was read from. It is not inductive, because HGetAll
  turns an empty answer into ErrKeyNotFound. That means "the key is missing"
  only if the store never holds a hash with no fields, and a "none" entry is
  always exactly `Missing`. `Stored` (with `WellFormed`, defined in Store) says
  this of every key. The inductive invariant is
  `RInv == TypeOK /\ Stored /\ ReadContract`. TLC checked it on the
  commands_core instance before it was proved. The proof has these parts:
  - One `WF*` lemma per Store operator, showing it keeps an entry well formed.
  - `NextStored`, which combines them for every action.
  - One lemma per read method (`GetContract`, `ExistsContract`,
    `HGetAllContract`, `HGetContract`). Each reduces to a lemma on the result
    record, stated over the server's answer `R`.
  - `ReplyIsServerErr`: a reply is the server's error unless the client is
    closed or the network failed.
  - `WritesQuiet`: every other call leaves `found` FALSE and an op of its own.

  HSetObject needs one more fact. A struct with a tagged field gives that
  field a last writer, because a nonempty set of indices has a largest
  element. `IndexSetHasMax` proves this by taking the least element of
  `{n - i : i \in S}` with `WFMin`. That least element is not an induction
  over data: the set is concrete, and no operator parameter is needed.

**LifecycleProofs** (`LifecycleProofs.tla`). The result holds for any set of
constructions and any option lists. No assumption on the constants is needed.
- `ReadyClientCompleteInvariant`: `Spec => []ReadyClientComplete`. The property
  is not inductive by itself: a construction reaching `ready` must already have
  its hooks and connection. The inductive invariant `LInv` is `Shape` (the
  domains of the per-construction functions) plus `Phases`, which says what
  each phase has done: after Dial, a connection and resolved options; after
  Instrument, both hooks; at ready, a successful ping; and a connection is
  closed only once its client is ready. Each action changes only its own
  construction's entries, so one lemma per action family suffices
  (`ConstructLInv`, `CloseLInv`). The proof never looks inside `ApplyOptions`.

**SampleProofs** (`SampleProofs.tla`). `CreatedStaysReadableInvariant`:
`Spec => []CreatedStaysReadable` for any number of requests. The inductive
invariant `SInv` adds three facts: once `createdOK`, value_1 holds "First
value"; a request at its second Set has already written value_1; a /get that
began after an OK is still at its GET or has answered from that value. The
second Set is where `createdOK` becomes true, which is why the second fact is
needed. `SampleTypeCorrect`: `Spec => []TypeOK`, from the same `SInv`, which
contains `TypeOK`.

TLC checked every inductive invariant on the runs' instances before it was
proved (LInv and SInv as invariants of the lifecycle and sample runs).

Only model-checked:
- The violations.
- The liveness property `ConstructionEnds` (a violation). Liveness and ENABLED
  are out of TLAPS's reach.
- `AddressesResolved`, `NamesUnique`, and Lifecycle's `TypeOK`. Each is about
  what a recursive definition computes for every input: `Split` for the
  addresses, and the LET-defined recursive function of `ApplyOptions` for the
  client record and the id tokens. To use such a definition, the provers
  first need its defining equation. The library gives that equation only
  through theorems with an operator parameter (`Def(_,_)`), and the installed
  provers cannot instantiate those. So neither the equation nor an induction
  over the option list can be proved.

## 6. Not modelled, and the plan

Not modelled:
- the logger's output, TLS contents, and the internals of OpenTelemetry and of
  go-redis (spec §1 treats the backend as opaque). That includes go-redis's
  retry loop (MaxRetries): an INCR whose reply was lost and then retried by the
  driver would be applied twice, but the loop is not code of this repository;
- `WithMetricsNamespace` (it assigns a field `Client` does not have);
- the `/metrics` handler of the example (promhttp, no client use);
- `go.mod` (dependency versions, no behaviour);
- the HSetObject panic on a non-struct argument (`t.NumField` on a pointer,
  client.go:159). A panic is outside the model.

Plan for later sittings:
1. A property for the hazards that have none (see `PROJECT.json`): what a
   caller may rely on after a network error from a write, and what a second
   Close returns, once the spec says.
2. Larger instances: three constructions, longer address strings.
