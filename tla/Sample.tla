------------------------------- MODULE Sample -------------------------------
(***************************************************************************)
(* The example HTTP service (src/examples/sample/main.go).  main builds a  *)
(* Config holding only Addrs = $REDIS_ADDRS, creates a single-node client  *)
(* with WithConfig and WithClientID, defers Close, and serves /get and     *)
(* /create; net/http runs every request on a goroutine of its own, all     *)
(* sharing the one client.  /create sets value_1 and then value_2 (no      *)
(* expiry); /get reads value_1.  Each Redis call may be answered, be lost  *)
(* before the server runs it, or lose its reply after (Outcomes).          *)
(***************************************************************************)
EXTENDS Config

CONSTANTS
  Envs,        \* the values REDIS_ADDRS may hold
  ServerAddr,  \* the address a Redis server listens on
  Reqs,        \* the HTTP requests served
  Outcomes     \* the fates of one Redis call: "reply", "dropped", "lost"

ASSUME SampleAssumption ==
  /\ Envs \subseteq Str
  /\ ServerAddr \in Str
  /\ Outcomes \subseteq {"reply", "dropped", "lost"}

SKeys == {"value_1", "value_2"}

NoValue == "none"

VARIABLES
  phase,      \* main: "init", "failed" (no client), "listen", "serving", "exited"
  addr,       \* the address the client dials
  db,         \* db[k]: what the server holds at key k
  hpc,        \* hpc[r]: the step request r is at
  resp,       \* resp[r]: what request r answered
  createdOK,  \* history: some /create answered "OK"
  snap        \* history: snap[r] = createdOK when /get request r began

vars == <<phase, addr, db, hpc, resp, createdOK, snap>>

(* The Config literal of main.go 49: Addrs set, every other field zero.    *)
EnvConfig(env) ==
  [addrs |-> env, protocol |-> 0, maxRedirects |-> 0,
   readOnly |-> FALSE, routeByLatency |-> FALSE, routeRandomly |-> FALSE,
   common |-> CHOOSE v \in Commons : TRUE,
   singleOnly |-> CHOOSE v \in SingleOnlys : TRUE]

(* init(), main.go 18-20, and the package variables.                       *)
Init ==
  /\ phase = "init"
  /\ addr \in {ParseClientConfig(EnvConfig(env)).addr : env \in Envs}
  /\ db = [k \in SKeys |-> NoValue]
  /\ hpc = [r \in Reqs |-> "idle"]
  /\ resp = [r \in Reqs |-> "none"]
  /\ createdOK = FALSE
  /\ snap = [r \in Reqs |-> FALSE]

(* main.go 46-57: NewClient pings the server; log.Fatalln on an error      *)
(* exits the process.  The ping can succeed only when the dialled address  *)
(* is the server's.                                                        *)
Start ==
  /\ phase = "init"
  /\ \E ok \in BOOLEAN :
       /\ ok => addr = ServerAddr
       /\ phase' = IF ok THEN "listen" ELSE "failed"
  /\ UNCHANGED <<addr, db, hpc, resp, createdOK, snap>>

(* main.go 59-68: ListenAndServe blocks serving; it returns only with an   *)
(* error, which log.Fatalln turns into os.Exit before the deferred Close.  *)
Listen ==
  /\ phase = "listen"
  /\ phase' \in {"serving", "exited"}
  /\ UNCHANGED <<addr, db, hpc, resp, createdOK, snap>>

(* main.go 61-62: a request reaches its handler.                           *)
Arrive(r) ==
  /\ phase = "serving"
  /\ hpc[r] = "idle"
  /\ \E route \in {"get", "set1"} :
       /\ hpc' = [hpc EXCEPT ![r] = route]
       /\ snap' = [snap EXCEPT ![r] = route = "get" /\ createdOK]
  /\ UNCHANGED <<phase, addr, db, resp, createdOK>>

(* getTasksHandler, main.go 22-30, through Client.Get (client.go 188-196): *)
(* GET value_1; rdb.Nil becomes ErrKeyNotFound, any error a 500.           *)
(* Mutant: rdb.Nil passed through untranslated.                          *)
GetTaskNilUntranslated(r) ==
  /\ phase = "serving"
  /\ hpc[r] = "get"
  /\ \E o \in Outcomes :
       resp' = [resp EXCEPT ![r] =
                  IF o # "reply" THEN "500:net"
                  ELSE IF db["value_1"] = NoValue THEN "500:redis-nil"
                  ELSE db["value_1"]]
  /\ hpc' = [hpc EXCEPT ![r] = "done"]
  /\ UNCHANGED <<phase, addr, db, createdOK, snap>>

GetTask(r) ==
  /\ phase = "serving"
  /\ hpc[r] = "get"
  /\ \E o \in Outcomes :
       resp' = [resp EXCEPT ![r] =
                  IF o # "reply" THEN "500:net"
                  ELSE IF db["value_1"] = NoValue THEN "500:notfound"
                  ELSE db["value_1"]]
  /\ hpc' = [hpc EXCEPT ![r] = "done"]
  /\ UNCHANGED <<phase, addr, db, createdOK, snap>>

(* One Client.Set(ctx, k, v, 0) (client.go 199-206) of createTasksHandler: *)
(* SET without expiry; on an error the handler answers 500 and returns.    *)
SetStep(r, k, v, next) ==
  \E o \in Outcomes :
    /\ db' = IF o = "dropped" THEN db ELSE [db EXCEPT ![k] = v]
    /\ IF o = "reply"
       THEN /\ hpc' = [hpc EXCEPT ![r] = next]
            /\ resp' = IF next = "done" THEN [resp EXCEPT ![r] = "OK"] ELSE resp
            /\ createdOK' = (createdOK \/ next = "done")
       ELSE /\ hpc' = [hpc EXCEPT ![r] = "done"]
            /\ resp' = [resp EXCEPT ![r] = "500:net"]
            /\ UNCHANGED createdOK

(* createTasksHandler, main.go 32-44: value_1, then value_2, then "OK".    *)
(* Mutant: the second Set written to value_1 (a copied key).              *)
CreateSecondWrongKey(r) ==
  /\ phase = "serving"
  /\ hpc[r] = "set2"
  /\ SetStep(r, "value_1", "Second value", "done")
  /\ UNCHANGED <<phase, addr, snap>>

CreateFirst(r) ==
  /\ phase = "serving"
  /\ hpc[r] = "set1"
  /\ SetStep(r, "value_1", "First value", "set2")
  /\ UNCHANGED <<phase, addr, snap>>

CreateSecond(r) ==
  /\ phase = "serving"
  /\ hpc[r] = "set2"
  /\ SetStep(r, "value_2", "Second value", "done")
  /\ UNCHANGED <<phase, addr, snap>>

Next ==
  \/ Start
  \/ Listen
  \/ \E r \in Reqs : Arrive(r) \/ GetTask(r) \/ CreateFirst(r) \/ CreateSecond(r)

Spec == Init /\ [][Next]_vars

-----------------------------------------------------------------------------
TypeOK ==
  /\ phase \in {"init", "failed", "listen", "serving", "exited"}
  /\ db \in [SKeys -> {NoValue, "First value", "Second value"}]
  /\ hpc \in [Reqs -> {"idle", "get", "set1", "set2", "done"}]
  /\ resp \in [Reqs -> {"none", "OK", "500:net", "500:notfound",
                        "First value", "Second value"}]
  /\ createdOK \in BOOLEAN
  /\ snap \in [Reqs -> BOOLEAN]

(* The service's contract: once a /create has answered "OK", every /get   *)
(* that begins afterwards answers with "First value" -- never "key not     *)
(* found" and never another value -- unless its own Redis call failed,     *)
(* whatever other requests run at the same time.                           *)
CreatedStaysReadable ==
  \A r \in Reqs :
    (hpc[r] = "done" /\ snap[r]) => resp[r] \in {"First value", "500:net"}
=============================================================================
