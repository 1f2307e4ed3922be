------------------------------ MODULE Commands ------------------------------
(***************************************************************************)
(* The typed command layer and the atomic multi-step executor of xredis    *)
(* (src/client.go, Exists .. Close).  Every public method of Client is one *)
(* action: its local checks, the one request (or MULTI/EXEC batch, or      *)
(* pipeline) it sends, what the server does with it, and how the method    *)
(* turns the reply into its result.  Callers on any number of goroutines   *)
(* share the Client, which holds no per-call state: their calls reach the  *)
(* server in some order, and each is one step here.  A request may be lost *)
(* before the server runs it, or its reply lost after; either way the      *)
(* method returns the network error.  After Close every call answers       *)
(* "Closed" (redis: client is closed).                                     *)
(*                                                                         *)
(* last is the result of the most recent call (op, key, err, found, val);  *)
(* batched[k] is a history variable: the fields of hash k written by the   *)
(* atomic executor (HSet, HSetObject) since k was last created.            *)
(***************************************************************************)
EXTENDS Store, Sequences

CONSTANTS
  BadShapes,   \* values of a kind HSet rejects (pointer, map, struct, func ...)
  TTLs,        \* expiries, in seconds, callers pass to Set, HSet, HSetObject
  Deltas,      \* increments callers pass to HIncrBy
  Objs,        \* values callers pass to SetStruct
  Marshalled,  \* Marshalled[o]: the bytes the marshaller makes of o, or MarshalFail
  MarshalFail,
  Objects,     \* struct values passed to HSetObject, as sequences of [tag, val]
  NoTag,       \* the tag of a struct field without a `redis` tag
  Cluster,     \* TRUE for NewClusterClient, FALSE for NewClient
  Slot,        \* Slot[k]: the hash slot of key k
  Outcomes,    \* what the network may do to a request
  DstKinds     \* destination kinds callers read into (Scan dst, typed getters)

Decoders == {"Bool", "Bytes", "Float64", "Int", "Int64", "Uint64", "String"}

FieldArg == Value \cup BadShapes

StructField == [tag : Fields \cup {"-", NoTag}, val : FieldArg]

ASSUME CommandsAssumption ==
  /\ BadShapes \cap Value = {}
  /\ TTLs \subseteq 0 .. MaxTTL
  /\ Deltas \subseteq Int
  /\ MarshalFail \notin Value
  /\ Marshalled \in [Objs -> Vals \cup {MarshalFail}]
  /\ NoTag \notin Fields \cup {"-"}
  /\ \A obj \in Objects : obj \in Seq(StructField)
  /\ Cluster \in BOOLEAN
  /\ Outcomes \subseteq {"reply", "dropped", "lost"} /\ "reply" \in Outcomes
  /\ NoVal \notin Keys
  /\ DstKinds \subseteq Decoders

Errs == {"nil", "Nil", "KeyNotFound", "InvalidFieldType", "WrongType",
         "NotInteger", "Overflow", "CrossSlot", "WrongArgs", "Decode",
         "Marshal", "Net", "Closed"}

Ops == {"Get", "Typed", "Exists", "Set", "SetStruct", "Incr", "Decr",
        "Delete", "MassDelete", "HExists", "HIncrBy", "HGetAll", "HGet",
        "HSet", "HSetObject", "Close", "Tick"}

Result == [op : Ops, key : Keys \cup {NoVal}, err : Errs, found : BOOLEAN,
           val : Value \cup {NoVal}]

VARIABLES
  db,        \* db[k]: the server's entry for key k
  batched,   \* history: fields of hash k written by the atomic executor
  conn,      \* "open" or "closed": the state of c.conn
  last       \* the result of the most recent call

vars == <<db, batched, conn, last>>

TypeOK ==
  /\ db \in [Keys -> Entry]
  /\ batched \in [Keys -> SUBSET Fields]
  /\ conn \in {"open", "closed"}
  /\ last \in Result

-----------------------------------------------------------------------------
(* The conversions of the result accessors (res.Bool(), res.Int(), ...,    *)
(* and Scan into a destination of that kind) on a string reply.            *)
Decodes(d, v) ==
  CASE d \in {"String", "Bytes"}          -> TRUE
    [] d \in {"Int", "Int64", "Float64"}  -> v \in Int
    [] d = "Uint64"                       -> v \in Nat
    [] d = "Bool"                         -> v \in {0, 1}

(* What happens to a request: a closed client answers at once; an open one *)
(* sends it, and the network may drop it or lose the reply.                *)
Fates == IF conn = "open" THEN Outcomes ELSE {"closed"}

Applied(o) == o \in {"reply", "lost"}

(* The error the caller sees for a server reply err under fate o.          *)
Reply(o, err) == CASE o = "closed" -> "Closed"
                   [] o = "reply"  -> err
                   [] OTHER        -> "Net"

Res(op, k, err, found, val) ==
  [op |-> op, key |-> k, err |-> err, found |-> found, val |-> val]

(* A write of entry e to key k, if the request reached the server.        *)
Write(o, k, e, fs) ==
  /\ db' = IF Applied(o) THEN [db EXCEPT ![k] = e] ELSE db
  /\ batched' = IF Applied(o)
                THEN [batched EXCEPT ![k] = IF e.type = "hash" THEN @ \cup fs ELSE {}]
                ELSE batched

(* reflect.Value.Kind() is not Invalid, Pointer, Array, Map, Struct,       *)
(* Slice, Func, Chan or UnsafePointer.                                     *)
ValidShape(v) == v \in Value

-----------------------------------------------------------------------------
(* Get: GET key, Scan into dst; the missing-value sentinel becomes         *)
(* ErrKeyNotFound, any other error is returned as it is.                   *)
Get(k, d) == \E o \in Fates :
  LET e   == db[k]
      err == Reply(o, IF GETErr(e) = "nil" /\ ~Decodes(d, e.str) THEN "Decode"
                      ELSE GETErr(e))
  IN  /\ last' = Res("Get", k, IF err = "Nil" THEN "KeyNotFound" ELSE err,
                     err = "nil", IF err = "nil" THEN e.str ELSE NoVal)
      /\ UNCHANGED <<db, batched, conn>>

(* Bool, Bytes, Float64, Int, Int64, Uint64, String: GET key and convert;  *)
(* the missing-value sentinel is (zero, false, nil), any other error is    *)
(* (zero, false, err), success is (val, true, nil).                        *)
TypedGet(k, d) == \E o \in Fates :
  LET e   == db[k]
      err == Reply(o, IF GETErr(e) = "nil" /\ ~Decodes(d, e.str) THEN "Decode"
                      ELSE GETErr(e))
  IN  /\ last' = Res("Typed", k, IF err = "Nil" THEN "nil" ELSE err,
                     err = "nil", IF err = "nil" THEN e.str ELSE NoVal)
      /\ UNCHANGED <<db, batched, conn>>

(* Exists: EXISTS key; exists is reply == 1.                               *)
Exists(k) == \E o \in Fates :
  LET err == Reply(o, "nil")
  IN  /\ last' = Res("Exists", k, err, err = "nil" /\ db[k].type # "none", NoVal)
      /\ UNCHANGED <<db, batched, conn>>

(* Set: SET key val [EX expiration].                                       *)
Set(k, v, t) == \E o \in Fates :
  /\ Write(o, k, SETEntry(v, t), {})
  /\ last' = Res("Set", k, Reply(o, "nil"), FALSE, NoVal)
  /\ UNCHANGED conn

(* SetStruct: marshal val first; a marshalling error returns before any    *)
(* request; otherwise SET key bytes [EX expiration].                       *)
SetStruct(k, obj, t) ==
  IF Marshalled[obj] = MarshalFail
  THEN /\ last' = Res("SetStruct", k, "Marshal", FALSE, NoVal)
       /\ UNCHANGED <<db, batched, conn>>
  ELSE \E o \in Fates :
         /\ Write(o, k, SETEntry(Marshalled[obj], t), {})
         /\ last' = Res("SetStruct", k, Reply(o, "nil"), FALSE, NoVal)
         /\ UNCHANGED conn

(* Incr, Decr: INCR key, DECR key.                                         *)
IncrBy(op, k, d) == \E o \in Fates :
  /\ Write(o, k, INCRBYEntry(db[k], d), {})
  /\ last' = Res(op, k, Reply(o, INCRBYErr(db[k], d)), FALSE, NoVal)
  /\ UNCHANGED conn

Incr(k) == IncrBy("Incr", k, 1)

Decr(k) == IncrBy("Decr", k, -1)

(* Delete: DEL key.                                                        *)
Delete(k) == \E o \in Fates :
  /\ Write(o, k, Missing, {})
  /\ last' = Res("Delete", k, Reply(o, "nil"), FALSE, NoVal)
  /\ UNCHANGED conn

(* MassDelete: one pipelined DEL of all the keys; the loop over the        *)
(* pipeline's commands returns the first error.  DEL without a key is a    *)
(* wrong-number-of-arguments error; a cluster node refuses a multi-key     *)
(* DEL whose keys lie in different slots.                                  *)
DELErr(ks) ==
  CASE ks = {}                                        -> "WrongArgs"
    [] Cluster /\ \E a, b \in ks : Slot[a] # Slot[b]  -> "CrossSlot"
    [] OTHER                                          -> "nil"

MassDelete(ks) == \E o \in Fates :
  LET ok == Applied(o) /\ DELErr(ks) = "nil"
  IN  /\ db' = [k \in Keys |-> IF ok /\ k \in ks THEN Missing ELSE db[k]]
      /\ batched' = [k \in Keys |-> IF ok /\ k \in ks THEN {} ELSE batched[k]]
      /\ last' = Res("MassDelete", NoVal, Reply(o, DELErr(ks)), FALSE, NoVal)
      /\ UNCHANGED conn

-----------------------------------------------------------------------------
(* HExists: HEXISTS key field.                                             *)
HExists(k, f) == \E o \in Fates :
  LET e   == db[k]
      err == Reply(o, IF e.type = "string" THEN "WrongType" ELSE "nil")
  IN  /\ last' = Res("HExists", k, err, err = "nil" /\ f \in HashFields(e), NoVal)
      /\ UNCHANGED <<db, batched, conn>>

(* HIncrBy: HINCRBY key field incr.                                        *)
HIncrBy(k, f, d) == \E o \in Fates :
  /\ Write(o, k, HINCRBYEntry(db[k], f, d), {})
  /\ last' = Res("HIncrBy", k, Reply(o, HINCRBYErr(db[k], f, d)), FALSE, NoVal)
  /\ UNCHANGED conn

(* HGetAll: HGETALL key; an empty answer is ErrKeyNotFound, otherwise the  *)
(* fields are scanned into dst.                                            *)
(* Mutant: HGetAll without the len(res.Val()) == 0 check.                *)
HGetAllNoEmptyCheck(k) == \E o \in Fates :
  LET err == Reply(o, IF db[k].type = "string" THEN "WrongType" ELSE "nil")
  IN  /\ last' = Res("HGetAll", k, err, err = "nil", NoVal)
      /\ UNCHANGED <<db, batched, conn>>

HGetAll(k) == \E o \in Fates :
  LET e   == db[k]
      err == Reply(o, IF e.type = "string" THEN "WrongType" ELSE "nil")
  IN  /\ last' = Res("HGetAll", k,
                     IF err = "nil" /\ HashFields(e) = {} THEN "KeyNotFound" ELSE err,
                     err = "nil" /\ HashFields(e) # {}, NoVal)
      /\ UNCHANGED <<db, batched, conn>>

(* HGet: HGET key field, Scan into dst; the missing-value sentinel (no     *)
(* key or no field) becomes ErrKeyNotFound.                                *)
HGETErr(e, f, d) ==
  IF e.type = "string" THEN "WrongType"
  ELSE IF e.hash[f] = NoVal THEN "Nil"
  ELSE IF ~Decodes(d, e.hash[f]) THEN "Decode"
  ELSE "nil"

HGet(k, f, d) == \E o \in Fates :
  LET err == Reply(o, HGETErr(db[k], f, d))
  IN  /\ last' = Res("HGet", k, IF err = "Nil" THEN "KeyNotFound" ELSE err,
                     err = "nil", IF err = "nil" THEN db[k].hash[f] ELSE NoVal)
      /\ UNCHANGED <<db, batched, conn>>

-----------------------------------------------------------------------------
(* The atomic executor.  The MULTI/EXEC batch of HSet: HSET key field      *)
(* value, then EXPIRE key ttl, run by the server as one step; the loop     *)
(* over the commands returns the first error.                              *)
(* Mutant: the batch enqueues EXPIRE before HSET.                        *)
HSetBatchSwapped(e, f, v, t) == HSETEntry(EXPIREEntry(e, t), f, v)

HSetBatch(e, f, v, t) == EXPIREEntry(HSETEntry(e, f, v), t)

(* Mutant: HSet without the reflect.Kind check.                          *)
HSetUnchecked(k, f, v, t) == \E o \in Fates :
  /\ Write(o, k, HSetBatch(db[k], f, v, t), {f})
  /\ last' = Res("HSet", k, Reply(o, HSETErr(db[k])), FALSE, NoVal)
  /\ UNCHANGED conn

HSet(k, f, v, t) ==
  IF ~ValidShape(v)
  THEN /\ last' = Res("HSet", k, "InvalidFieldType", FALSE, NoVal)
       /\ UNCHANGED <<db, batched, conn>>
  ELSE \E o \in Fates :
         /\ Write(o, k, HSetBatch(db[k], f, v, t), {f})
         /\ last' = Res("HSet", k, Reply(o, HSETErr(db[k])), FALSE, NoVal)
         /\ UNCHANGED conn

(* HSetObject: the fields whose `redis` tag is present and not "-" are     *)
(* checked in order, and the first of an invalid kind ends the call before *)
(* anything is sent; otherwise one HSET per such field, then EXPIRE, in    *)
(* one MULTI/EXEC batch.  A later field with the same tag overwrites an    *)
(* earlier one.                                                            *)
Tagged(obj) == {i \in DOMAIN obj : obj[i].tag \in Fields}

TagSet(obj) == {obj[i].tag : i \in Tagged(obj)}

(* The field that writes f last: tagged f, and no later field tagged f.   *)
LastWriter(obj, f) ==
  {i \in Tagged(obj) : obj[i].tag = f /\ \A j \in Tagged(obj) : obj[j].tag = f => j <= i}

HSetObjectBatch(e, obj, t) ==
  LET written == IF e.type = "string" \/ Tagged(obj) = {} THEN e
                 ELSE [type |-> "hash", str |-> NoVal, ttl |-> e.ttl,
                       hash |-> [f \in Fields |->
                                  IF LastWriter(obj, f) # {}
                                  THEN obj[CHOOSE i \in LastWriter(obj, f) : TRUE].val
                                  ELSE e.hash[f]]]
  IN  EXPIREEntry(written, t)

HSetObjectErr(e, obj) ==
  IF Tagged(obj) # {} /\ e.type = "string" THEN "WrongType" ELSE "nil"

HSetObject(k, obj, t) ==
  IF \E i \in Tagged(obj) : ~ValidShape(obj[i].val)
  THEN /\ last' = Res("HSetObject", k, "InvalidFieldType", FALSE, NoVal)
       /\ UNCHANGED <<db, batched, conn>>
  ELSE \E o \in Fates :
         /\ Write(o, k, HSetObjectBatch(db[k], obj, t), TagSet(obj))
         /\ last' = Res("HSetObject", k, Reply(o, HSetObjectErr(db[k], obj)), FALSE, NoVal)
         /\ UNCHANGED conn

-----------------------------------------------------------------------------
(* Close: c.conn.Close(); a second Close answers "redis: client is closed". *)
Close ==
  /\ conn' = "closed"
  /\ last' = Res("Close", NoVal, IF conn = "open" THEN "nil" ELSE "Closed", FALSE, NoVal)
  /\ UNCHANGED <<db, batched>>

(* The server's clock advances one second (environment step).             *)
Tick ==
  /\ \E k \in Keys : db[k].ttl > 0
  /\ db' = [k \in Keys |-> TickEntry(db[k])]
  /\ batched' = [k \in Keys |-> IF TickEntry(db[k]).type = "hash" THEN batched[k] ELSE {}]
  /\ last' = Res("Tick", NoVal, "nil", FALSE, NoVal)
  /\ UNCHANGED conn

-----------------------------------------------------------------------------
Init ==
  /\ db = [k \in Keys |-> Missing]
  /\ batched = [k \in Keys |-> {}]
  /\ conn = "open"
  /\ last = Res("Close", NoVal, "nil", FALSE, NoVal)

Next ==
  \/ \E k \in Keys, d \in DstKinds : Get(k, d) \/ TypedGet(k, d)
  \/ \E k \in Keys : Exists(k) \/ Incr(k) \/ Decr(k) \/ Delete(k) \/ HGetAll(k)
  \/ \E k \in Keys, v \in Value, t \in TTLs : Set(k, v, t)
  \/ \E k \in Keys, obj \in Objs, t \in TTLs : SetStruct(k, obj, t)
  \/ \E ks \in SUBSET Keys : MassDelete(ks)
  \/ \E k \in Keys, f \in Fields : HExists(k, f)
  \/ \E k \in Keys, f \in Fields, d \in Deltas : HIncrBy(k, f, d)
  \/ \E k \in Keys, f \in Fields, d \in DstKinds : HGet(k, f, d)
  \/ \E k \in Keys, f \in Fields, v \in FieldArg, t \in TTLs : HSet(k, f, v, t)
  \/ \E k \in Keys, obj \in Objects, t \in TTLs : HSetObject(k, obj, t)
  \/ Close
  \/ Tick

Spec == Init /\ [][Next]_vars

-----------------------------------------------------------------------------
(* Atomicity of HSet and HSetObject (spec 4.5, 8): a hash field written by *)
(* the atomic executor is never present while its key has no expiry, what *)
(* other calls (HIncrBy, Set, Delete, expiry) happen in between.           *)
BatchedFieldsExpire == \A k \in Keys : batched[k] # {} => db[k].ttl > 0

(* The read methods' results agree with the store they read (spec 4.4):   *)
(* Get maps the missing-value sentinel to ErrKeyNotFound, the typed        *)
(* getters to (zero, false, nil), HGetAll's empty answer is exactly a      *)
(* missing key, Exists is reply == 1, and a found value is the stored one. *)
ReadContract ==
  LET r == last
      e == db[r.key]
  IN  /\ r.found => r.err = "nil"
      /\ r.op \in {"Get", "Typed"} /\ r.found => e.type = "string" /\ e.str = r.val
      /\ r.op = "Get" /\ r.err = "KeyNotFound" => e.type = "none"
      /\ r.op = "Typed" /\ r.err = "nil" => (r.found <=> e.type # "none")
      /\ r.op = "HGet" /\ r.found => e.type = "hash" /\ r.val \in Value
      /\ r.op = "HGetAll" /\ r.err = "KeyNotFound" => e.type = "none"
      /\ r.op = "HGetAll" /\ r.err = "nil" => e.type = "hash"
      /\ r.op = "Exists" /\ r.err = "nil" => (r.found <=> e.type # "none")

(* Spec 8 "the batch must be all-or-nothing": an HSet or HSetObject whose  *)
(* server reply is an error leaves the store as it was.                    *)
HSetAllOrNothing ==
  [][last'.op \in {"HSet", "HSetObject"} /\ last'.err \notin {"nil", "Net"}
       => db' = db]_vars

(* The comment on HSet (client.go:123): it "sets field in the hash stored  *)
(* at key": after a successful HSet the key holds a hash.                  *)
HSetStoresField ==
  [][last'.op = "HSet" /\ last'.err = "nil" => db'[last'.key].type = "hash"]_vars

(* The comment on HSet (client.go:123): it sets the expiration "if         *)
(* expiration wasn't set before": an expiry already running is kept.       *)
HSetKeepsExpiry ==
  [][last'.op = "HSet" /\ last'.err = "nil" /\ db[last'.key].ttl > 0
       => db'[last'.key].ttl = db[last'.key].ttl]_vars
=============================================================================
