--------------------------- MODULE CommandsProofs ---------------------------
(***************************************************************************)
(* Proofs about the command layer (Commands): the type invariant, and the  *)
(* atomicity invariant BatchedFieldsExpire, for every value of the         *)
(* constants that satisfies StoreAssumption and CommandsAssumption.        *)
(***************************************************************************)
EXTENDS Commands, TLAPS

USE StoreAssumption, CommandsAssumption

-----------------------------------------------------------------------------
(* Each server command maps an entry to an entry.                          *)

LEMMA MissingType == Missing \in Entry
BY DEF Missing, Entry, NoHash, Hash, Types

LEMMA SETType ==
  ASSUME NEW v \in Value, NEW t \in 0 .. MaxTTL
  PROVE  SETEntry(v, t) \in Entry
BY DEF SETEntry, Entry, NoHash, Hash, Types

LEMMA EXPIREType ==
  ASSUME NEW e \in Entry, NEW t \in 0 .. MaxTTL
  PROVE  EXPIREEntry(e, t) \in Entry
BY MissingType DEF EXPIREEntry, Entry

LEMMA HSETType ==
  ASSUME NEW e \in Entry, NEW f \in Fields, NEW v \in Value
  PROVE  HSETEntry(e, f, v) \in Entry
BY DEF HSETEntry, Entry, Hash, Types

LEMMA INCRBYType ==
  ASSUME NEW e \in Entry, NEW d \in Int
  PROVE  INCRBYEntry(e, d) \in Entry
<1>1. CASE INCRBYErr(e, d) = "nil"
  <2>1. e.type = "none" => d \in IntVal
    BY <1>1 DEF INCRBYErr, Entry, Types
  <2>2. e.type # "none" => e.type = "string" /\ e.str + d \in IntVal
    BY <1>1 DEF INCRBYErr, Entry, Types
  <2>. QED BY <1>1, <2>1, <2>2 DEF INCRBYEntry, Entry, Types, NoHash, Hash, Value
<1>2. CASE INCRBYErr(e, d) # "nil"
  BY <1>2 DEF INCRBYEntry
<1>. QED BY <1>1, <1>2

LEMMA HINCRBYType ==
  ASSUME NEW e \in Entry, NEW f \in Fields, NEW d \in Int
  PROVE  HINCRBYEntry(e, f, d) \in Entry
<1>1. CASE HINCRBYErr(e, f, d) = "nil"
  <2>1. e.type # "string"
    BY <1>1 DEF HINCRBYErr
  <2>2. e.hash[f] = NoVal => d \in IntVal
    BY <1>1, <2>1 DEF HINCRBYErr
  <2>3. e.hash[f] # NoVal => e.hash[f] + d \in IntVal
    BY <1>1, <2>1 DEF HINCRBYErr
  <2>4. [e.hash EXCEPT ![f] = IF @ = NoVal THEN d ELSE @ + d] \in Hash
    BY <2>2, <2>3 DEF Entry, Hash, Value
  <2>. QED BY <1>1, <2>4 DEF HINCRBYEntry, Entry, Types
<1>2. CASE HINCRBYErr(e, f, d) # "nil"
  BY <1>2 DEF HINCRBYEntry
<1>. QED BY <1>1, <1>2

LEMMA TickType ==
  ASSUME NEW e \in Entry
  PROVE  TickEntry(e) \in Entry
BY MissingType DEF TickEntry, Entry

(* The hash HSetObject's HSETs leave before its EXPIRE.                    *)
Written(e, obj) ==
  IF e.type = "string" \/ Tagged(obj) = {} THEN e
  ELSE [type |-> "hash", str |-> NoVal, ttl |-> e.ttl,
        hash |-> [f \in Fields |->
                   IF LastWriter(obj, f) # {}
                   THEN obj[CHOOSE i \in LastWriter(obj, f) : TRUE].val
                   ELSE e.hash[f]]]

LEMMA HSetObjectBatchDef ==
  ASSUME NEW e, NEW obj, NEW t
  PROVE  HSetObjectBatch(e, obj, t) = EXPIREEntry(Written(e, obj), t)
BY DEF HSetObjectBatch, Written

LEMMA WrittenType ==
  ASSUME NEW e \in Entry, NEW obj \in Objects,
         \A i \in Tagged(obj) : ValidShape(obj[i].val)
  PROVE  Written(e, obj) \in Entry
<1>1. \A f \in Fields : LastWriter(obj, f) # {} =>
         obj[CHOOSE i \in LastWriter(obj, f) : TRUE].val \in Value
  BY DEF LastWriter, ValidShape
<1>. QED BY <1>1 DEF Written, Entry, Hash, Types

LEMMA HSetObjectType ==
  ASSUME NEW e \in Entry, NEW obj \in Objects, NEW t \in 0 .. MaxTTL,
         \A i \in Tagged(obj) : ValidShape(obj[i].val)
  PROVE  HSetObjectBatch(e, obj, t) \in Entry
BY WrittenType, EXPIREType, HSetObjectBatchDef

-----------------------------------------------------------------------------
(* The pieces every action is built from.                                  *)

LEMMA WriteType ==
  ASSUME TypeOK, NEW o, NEW k \in Keys, NEW e \in Entry,
         NEW fs \in SUBSET Fields, Write(o, k, e, fs)
  PROVE  db' \in [Keys -> Entry] /\ batched' \in [Keys -> SUBSET Fields]
BY DEF Write, TypeOK

LEMMA ReplyType ==
  ASSUME NEW o, NEW err \in Errs
  PROVE  Reply(o, err) \in Errs
BY DEF Reply, Errs

LEMMA ResType ==
  ASSUME NEW op \in Ops, NEW k \in Keys \cup {NoVal}, NEW err \in Errs,
         NEW found \in BOOLEAN, NEW val \in Value \cup {NoVal}
  PROVE  Res(op, k, err, found, val) \in Result
BY DEF Res, Result

LEMMA GETErrType ==
  ASSUME NEW e \in Entry
  PROVE  GETErr(e) \in Errs
BY DEF GETErr, Errs, Entry, Types

-----------------------------------------------------------------------------
(* Every action preserves TypeOK.                                          *)

LEMMA ReadRes ==
  ASSUME NEW op \in Ops, NEW k \in Keys, NEW err \in Errs, NEW m \in Errs,
         NEW v \in Value \cup {NoVal}
  PROVE  Res(op, k, IF err = "Nil" THEN m ELSE err, err = "nil",
             IF err = "nil" THEN v ELSE NoVal) \in Result
BY DEF Res, Result

LEMMA ReadsType ==
  ASSUME TypeOK, NEW k \in Keys, NEW d, NEW f,
         \/ Get(k, d) \/ TypedGet(k, d) \/ Exists(k) \/ HGetAll(k)
         \/ f \in Fields /\ (HExists(k, f) \/ HGet(k, f, d))
  PROVE  TypeOK'
<1>. db[k] \in Entry BY DEF TypeOK
<1>1. \A err \in Errs : (IF err = "Nil" THEN "KeyNotFound" ELSE err) \in Errs
  BY DEF Errs
<1>2. \A o : Reply(o, IF GETErr(db[k]) = "nil" /\ ~Decodes(d, db[k].str) THEN "Decode"
                      ELSE GETErr(db[k])) \in Errs
  <2>. (IF GETErr(db[k]) = "nil" /\ ~Decodes(d, db[k].str) THEN "Decode"
        ELSE GETErr(db[k])) \in Errs
    BY GETErrType DEF Errs
  <2>. QED BY ReplyType
<1>3. \A o : Reply(o, HGETErr(db[k], f, d)) \in Errs
  <2>. HGETErr(db[k], f, d) \in Errs BY DEF HGETErr, Errs
  <2>. QED BY ReplyType
<1>4. /\ db[k].str \in Value \cup {NoVal}
      /\ f \in Fields => db[k].hash[f] \in Value \cup {NoVal}
  BY DEF Entry, Hash
<1>5. \A o : /\ Reply(o, "nil") \in Errs
             /\ Reply(o, IF db[k].type = "string" THEN "WrongType" ELSE "nil") \in Errs
  BY ReplyType DEF Errs
<1>6. UNCHANGED <<db, batched, conn>>
  BY DEF Get, TypedGet, Exists, HExists, HGetAll, HGet
<1>. DEFINE GErr(o) == Reply(o, IF GETErr(db[k]) = "nil" /\ ~Decodes(d, db[k].str)
                                THEN "Decode" ELSE GETErr(db[k]))
            HErr(o) == Reply(o, HGETErr(db[k], f, d))
            TErr(o) == Reply(o, IF db[k].type = "string" THEN "WrongType" ELSE "nil")
<1>7. last' \in Result
  <2>1. CASE Get(k, d)
    <3>. PICK o \in Fates :
           last' = Res("Get", k, IF GErr(o) = "Nil" THEN "KeyNotFound" ELSE GErr(o),
                       GErr(o) = "nil", IF GErr(o) = "nil" THEN db[k].str ELSE NoVal)
      BY <2>1 DEF Get
    <3>1. "KeyNotFound" \in Errs /\ GErr(o) \in Errs BY <1>2 DEF Errs
    <3>. QED BY <3>1, <1>4, ReadRes DEF Ops
  <2>2. CASE TypedGet(k, d)
    <3>. PICK o \in Fates :
           last' = Res("Typed", k, IF GErr(o) = "Nil" THEN "nil" ELSE GErr(o),
                       GErr(o) = "nil", IF GErr(o) = "nil" THEN db[k].str ELSE NoVal)
      BY <2>2 DEF TypedGet
    <3>1. "nil" \in Errs /\ GErr(o) \in Errs BY <1>2 DEF Errs
    <3>2. db[k].str \in Value \cup {NoVal} BY <1>4
    <3>. QED BY <3>1, <3>2, ReadRes DEF Ops
  <2>3. CASE f \in Fields /\ HGet(k, f, d)
    <3>. PICK o \in Fates :
           last' = Res("HGet", k, IF HErr(o) = "Nil" THEN "KeyNotFound" ELSE HErr(o),
                       HErr(o) = "nil", IF HErr(o) = "nil" THEN db[k].hash[f] ELSE NoVal)
      BY <2>3 DEF HGet
    <3>1. "KeyNotFound" \in Errs /\ HErr(o) \in Errs BY <1>3 DEF Errs
    <3>2. db[k].hash[f] \in Value \cup {NoVal} BY <1>4, <2>3
    <3>. QED BY <3>1, <3>2, ReadRes DEF Ops
  <2>4. CASE Exists(k)
    <3>. PICK o \in Fates :
           last' = Res("Exists", k, Reply(o, "nil"),
                       Reply(o, "nil") = "nil" /\ db[k].type # "none", NoVal)
      BY <2>4 DEF Exists
    <3>. QED BY <1>5, ResType DEF Ops
  <2>5. CASE f \in Fields /\ HExists(k, f)
    <3>. PICK o \in Fates :
           last' = Res("HExists", k, TErr(o), TErr(o) = "nil" /\ f \in HashFields(db[k]), NoVal)
      BY <2>5 DEF HExists
    <3>. QED BY <1>5, ResType DEF Ops
  <2>6. CASE HGetAll(k)
    <3>. PICK o \in Fates :
           last' = Res("HGetAll", k,
                       IF TErr(o) = "nil" /\ HashFields(db[k]) = {} THEN "KeyNotFound" ELSE TErr(o),
                       TErr(o) = "nil" /\ HashFields(db[k]) # {}, NoVal)
      BY <2>6 DEF HGetAll
    <3>1. (IF TErr(o) = "nil" /\ HashFields(db[k]) = {} THEN "KeyNotFound" ELSE TErr(o)) \in Errs
      BY <1>5 DEF Errs
    <3>. QED BY <3>1, ResType DEF Ops
  <2>. QED BY <2>1, <2>2, <2>3, <2>4, <2>5, <2>6
<1>. QED BY <1>6, <1>7 DEF TypeOK

LEMMA SetsType ==
  ASSUME TypeOK, NEW k \in Keys, NEW v, NEW t \in TTLs, NEW obj,
         (v \in Value /\ Set(k, v, t)) \/ (obj \in Objs /\ SetStruct(k, obj, t))
  PROVE  TypeOK'
<1>. t \in 0 .. MaxTTL BY DEF TypeOK
<1>1. CASE v \in Value /\ Set(k, v, t)
  <2>. PICK o \in Fates : Write(o, k, SETEntry(v, t), {})
                        /\ last' = Res("Set", k, Reply(o, "nil"), FALSE, NoVal)
                        /\ UNCHANGED conn
    BY <1>1 DEF Set
  <2>0. SETEntry(v, t) \in Entry BY <1>1, SETType
  <2>1. db' \in [Keys -> Entry] /\ batched' \in [Keys -> SUBSET Fields]
    BY <2>0, WriteType
  <2>2. last' \in Result
    BY ReplyType, ResType DEF Ops, Errs
  <2>. QED BY <2>1, <2>2 DEF TypeOK
<1>2. CASE obj \in Objs /\ SetStruct(k, obj, t)
  <2>1. CASE Marshalled[obj] = MarshalFail
    <3>1. last' = Res("SetStruct", k, "Marshal", FALSE, NoVal)
          /\ UNCHANGED <<db, batched, conn>>
      BY <1>2, <2>1 DEF SetStruct
    <3>2. Res("SetStruct", k, "Marshal", FALSE, NoVal) \in Result
      BY ResType DEF Ops, Errs
    <3>. QED BY <3>1, <3>2 DEF TypeOK
  <2>2. CASE Marshalled[obj] # MarshalFail
    <3>. Marshalled[obj] \in Value BY <1>2, <2>2 DEF Value
    <3>. PICK o \in Fates : Write(o, k, SETEntry(Marshalled[obj], t), {})
                          /\ last' = Res("SetStruct", k, Reply(o, "nil"), FALSE, NoVal)
                          /\ UNCHANGED conn
      BY <1>2, <2>2 DEF SetStruct
    <3>0. SETEntry(Marshalled[obj], t) \in Entry BY SETType
    <3>1. db' \in [Keys -> Entry] /\ batched' \in [Keys -> SUBSET Fields]
      BY <3>0, WriteType
    <3>2. last' \in Result
      BY ReplyType, ResType DEF Ops, Errs
    <3>. QED BY <3>1, <3>2 DEF TypeOK
  <2>. QED BY <2>1, <2>2
<1>. QED BY <1>1, <1>2

LEMMA CountersType ==
  ASSUME TypeOK, NEW k \in Keys, NEW f, NEW dl,
         \/ Incr(k) \/ Decr(k)
         \/ f \in Fields /\ dl \in Deltas /\ HIncrBy(k, f, dl)
  PROVE  TypeOK'
<1>. db[k] \in Entry BY DEF TypeOK
<1>1. ASSUME NEW op \in {"Incr", "Decr"}, NEW d \in {1, -1}, IncrBy(op, k, d)
      PROVE  TypeOK'
  <2>. INCRBYErr(db[k], d) \in Errs BY DEF INCRBYErr, Errs
  <2>. PICK o \in Fates : Write(o, k, INCRBYEntry(db[k], d), {})
                        /\ last' = Res(op, k, Reply(o, INCRBYErr(db[k], d)), FALSE, NoVal)
                        /\ UNCHANGED conn
    BY <1>1 DEF IncrBy
  <2>0. INCRBYEntry(db[k], d) \in Entry
    BY INCRBYType
  <2>1. db' \in [Keys -> Entry] /\ batched' \in [Keys -> SUBSET Fields]
    BY <2>0, WriteType
  <2>2. last' \in Result
    BY ReplyType, ResType DEF Ops
  <2>. QED BY <2>1, <2>2 DEF TypeOK
<1>2. CASE f \in Fields /\ dl \in Deltas /\ HIncrBy(k, f, dl)
  <2>. f \in Fields /\ dl \in Int BY <1>2
  <2>. HINCRBYErr(db[k], f, dl) \in Errs BY DEF HINCRBYErr, Errs
  <2>. PICK o \in Fates : Write(o, k, HINCRBYEntry(db[k], f, dl), {})
                        /\ last' = Res("HIncrBy", k, Reply(o, HINCRBYErr(db[k], f, dl)), FALSE, NoVal)
                        /\ UNCHANGED conn
    BY <1>2 DEF HIncrBy
  <2>1. db' \in [Keys -> Entry] /\ batched' \in [Keys -> SUBSET Fields]
    BY <1>2, HINCRBYType, WriteType
  <2>2. last' \in Result
    BY ReplyType, ResType DEF Ops
  <2>. QED BY <2>1, <2>2 DEF TypeOK
<1>. QED BY <1>1, <1>2 DEF Incr, Decr

LEMMA DeletesType ==
  ASSUME TypeOK, NEW k, NEW ks \in SUBSET Keys,
         (k \in Keys /\ Delete(k)) \/ MassDelete(ks)
  PROVE  TypeOK'
<1>1. CASE k \in Keys /\ Delete(k)
  <2>. PICK o \in Fates : Write(o, k, Missing, {})
                        /\ last' = Res("Delete", k, Reply(o, "nil"), FALSE, NoVal)
                        /\ UNCHANGED conn
    BY <1>1 DEF Delete
  <2>1. db' \in [Keys -> Entry] /\ batched' \in [Keys -> SUBSET Fields]
    BY <1>1, MissingType, WriteType
  <2>2. last' \in Result
    BY <1>1, ReplyType, ResType DEF Ops, Errs
  <2>. QED BY <2>1, <2>2 DEF TypeOK
<1>2. CASE MassDelete(ks)
  <2>. PICK o \in Fates :
         LET ok == Applied(o) /\ DELErr(ks) = "nil"
         IN  /\ db' = [kk \in Keys |-> IF ok /\ kk \in ks THEN Missing ELSE db[kk]]
             /\ batched' = [kk \in Keys |-> IF ok /\ kk \in ks THEN {} ELSE batched[kk]]
             /\ last' = Res("MassDelete", NoVal, Reply(o, DELErr(ks)), FALSE, NoVal)
             /\ UNCHANGED conn
    BY <1>2 DEF MassDelete
  <2>1. db' \in [Keys -> Entry] /\ batched' \in [Keys -> SUBSET Fields]
    BY MissingType DEF TypeOK
  <2>2. DELErr(ks) \in Errs BY DEF DELErr, Errs
  <2>3. last' \in Result
    BY <2>2, ReplyType, ResType DEF Ops
  <2>. QED BY <2>1, <2>3 DEF TypeOK
<1>. QED BY <1>1, <1>2

LEMMA HSetType ==
  ASSUME TypeOK, NEW k \in Keys, NEW f \in Fields, NEW v \in FieldArg,
         NEW t \in TTLs, HSet(k, f, v, t)
  PROVE  TypeOK'
<1>. db[k] \in Entry /\ t \in 0 .. MaxTTL BY DEF TypeOK
<1>1. CASE ~ValidShape(v)
  <2>1. last' = Res("HSet", k, "InvalidFieldType", FALSE, NoVal)
        /\ UNCHANGED <<db, batched, conn>>
    BY <1>1 DEF HSet
  <2>2. Res("HSet", k, "InvalidFieldType", FALSE, NoVal) \in Result
    BY ResType DEF Ops, Errs
  <2>. QED BY <2>1, <2>2 DEF TypeOK
<1>2. CASE ValidShape(v)
  <2>. PICK o \in Fates : Write(o, k, HSetBatch(db[k], f, v, t), {f})
                        /\ last' = Res("HSet", k, Reply(o, HSETErr(db[k])), FALSE, NoVal)
                        /\ UNCHANGED conn
    BY <1>2 DEF HSet
  <2>0. HSetBatch(db[k], f, v, t) \in Entry
    BY <1>2, HSETType, EXPIREType DEF HSetBatch, ValidShape
  <2>5. {f} \in SUBSET Fields OBVIOUS
  <2>1. db' \in [Keys -> Entry] /\ batched' \in [Keys -> SUBSET Fields]
    BY <2>0, <2>5, WriteType
  <2>2. HSETErr(db[k]) \in Errs BY DEF HSETErr, Errs
  <2>3. last' \in Result
    BY <2>2, ReplyType, ResType DEF Ops
  <2>. QED BY <2>1, <2>3 DEF TypeOK
<1>. QED BY <1>1, <1>2

LEMMA HSetObjectTypeOK ==
  ASSUME TypeOK, NEW k \in Keys, NEW obj \in Objects, NEW t \in TTLs,
         HSetObject(k, obj, t)
  PROVE  TypeOK'
<1>. db[k] \in Entry /\ t \in 0 .. MaxTTL BY DEF TypeOK
<1>1. CASE \E i \in Tagged(obj) : ~ValidShape(obj[i].val)
  <2>1. last' = Res("HSetObject", k, "InvalidFieldType", FALSE, NoVal)
        /\ UNCHANGED <<db, batched, conn>>
    BY <1>1 DEF HSetObject
  <2>2. Res("HSetObject", k, "InvalidFieldType", FALSE, NoVal) \in Result
    BY ResType DEF Ops, Errs
  <2>. QED BY <2>1, <2>2 DEF TypeOK
<1>2. CASE \A i \in Tagged(obj) : ValidShape(obj[i].val)
  <2>. PICK o \in Fates : Write(o, k, HSetObjectBatch(db[k], obj, t), TagSet(obj))
                        /\ last' = Res("HSetObject", k, Reply(o, HSetObjectErr(db[k], obj)),
                                       FALSE, NoVal)
                        /\ UNCHANGED conn
    BY <1>2 DEF HSetObject
  <2>0. HSetObjectBatch(db[k], obj, t) \in Entry
    BY <1>2, HSetObjectType
  <2>4. TagSet(obj) \in SUBSET Fields
    BY DEF TagSet, Tagged
  <2>1. db' \in [Keys -> Entry] /\ batched' \in [Keys -> SUBSET Fields]
    BY <2>0, <2>4, WriteType
  <2>2. HSetObjectErr(db[k], obj) \in Errs BY DEF HSetObjectErr, Errs
  <2>3. last' \in Result
    BY <2>2, ReplyType, ResType DEF Ops
  <2>. QED BY <2>1, <2>3 DEF TypeOK
<1>. QED BY <1>1, <1>2

LEMMA CloseTickType ==
  ASSUME TypeOK, Close \/ Tick
  PROVE  TypeOK'
<1>1. CASE Close
  <2>1. (IF conn = "open" THEN "nil" ELSE "Closed") \in Errs BY DEF Errs
  <2>2. last' \in Result BY <1>1, <2>1, ResType DEF Close, Ops
  <2>. QED BY <1>1, <2>2 DEF Close, TypeOK
<1>2. CASE Tick
  <2>1. db' \in [Keys -> Entry] BY <1>2, TickType DEF Tick, TypeOK
  <2>2. batched' \in [Keys -> SUBSET Fields] BY <1>2 DEF Tick, TypeOK
  <2>3. last' \in Result BY <1>2, ResType DEF Tick, Ops, Errs
  <2>. QED BY <1>2, <2>1, <2>2, <2>3 DEF Tick, TypeOK
<1>. QED BY <1>1, <1>2

LEMMA InitType == Init => TypeOK
<1>. SUFFICES ASSUME Init PROVE TypeOK OBVIOUS
<1>1. Res("Close", NoVal, "nil", FALSE, NoVal) \in Result
  BY ResType DEF Ops, Errs
<1>2. db \in [Keys -> Entry] BY MissingType DEF Init
<1>. QED BY <1>1, <1>2 DEF Init, TypeOK

LEMMA NextType == TypeOK /\ [Next]_vars => TypeOK'
<1>. SUFFICES ASSUME TypeOK, [Next]_vars PROVE TypeOK'
  OBVIOUS
<1>1. CASE UNCHANGED vars
  BY <1>1 DEF vars, TypeOK
<1>2. CASE Next
  <2>1. CASE \E k \in Keys, d \in DstKinds : Get(k, d) \/ TypedGet(k, d)
    BY <2>1, ReadsType
  <2>2. CASE \E k \in Keys : Exists(k) \/ Incr(k) \/ Decr(k) \/ Delete(k) \/ HGetAll(k)
    <3>. PICK k \in Keys : Exists(k) \/ Incr(k) \/ Decr(k) \/ Delete(k) \/ HGetAll(k)
      BY <2>2
    <3>. QED BY ReadsType, CountersType, DeletesType
  <2>3. CASE \E k \in Keys, v \in Value, t \in TTLs : Set(k, v, t)
    <3>1. PICK k \in Keys, v \in Value, t \in TTLs : Set(k, v, t) BY <2>3
    <3>. QED BY <3>1, SetsType
  <2>4. CASE \E k \in Keys, obj \in Objs, t \in TTLs : SetStruct(k, obj, t)
    <3>. PICK k \in Keys, obj \in Objs, t \in TTLs : SetStruct(k, obj, t) BY <2>4
    <3>. QED BY SetsType
  <2>5. CASE \E ks \in SUBSET Keys : MassDelete(ks)
    <3>. PICK ks \in SUBSET Keys : MassDelete(ks) BY <2>5
    <3>. QED BY DeletesType
  <2>6. CASE \E k \in Keys, f \in Fields : HExists(k, f)
    <3>. PICK k \in Keys, f \in Fields : HExists(k, f) BY <2>6
    <3>. QED BY ReadsType
  <2>7. CASE \E k \in Keys, f \in Fields, d \in Deltas : HIncrBy(k, f, d)
    <3>. PICK k \in Keys, f \in Fields, d \in Deltas : HIncrBy(k, f, d) BY <2>7
    <3>. QED BY CountersType
  <2>8. CASE \E k \in Keys, f \in Fields, d \in DstKinds : HGet(k, f, d)
    <3>. PICK k \in Keys, f \in Fields, d \in DstKinds : HGet(k, f, d) BY <2>8
    <3>. QED BY ReadsType
  <2>9. CASE \E k \in Keys, f \in Fields, v \in FieldArg, t \in TTLs : HSet(k, f, v, t)
    <3>. PICK k \in Keys, f \in Fields, v \in FieldArg, t \in TTLs : HSet(k, f, v, t) BY <2>9
    <3>. QED BY HSetType
  <2>10. CASE \E k \in Keys, obj \in Objects, t \in TTLs : HSetObject(k, obj, t)
    <3>. PICK k \in Keys, obj \in Objects, t \in TTLs : HSetObject(k, obj, t) BY <2>10
    <3>. QED BY HSetObjectTypeOK
  <2>11. CASE Close \/ Tick
    BY <2>11, CloseTickType
  <2>. QED BY <1>2, <2>1, <2>2, <2>3, <2>4, <2>5, <2>6, <2>7, <2>8, <2>9, <2>10, <2>11 DEF Next
<1>. QED BY <1>1, <1>2

(* The type invariant of the command layer holds in every reachable state. *)
THEOREM TypeCorrect == Spec => []TypeOK
BY InitType, NextType, PTL DEF Spec

-----------------------------------------------------------------------------
(* The strengthening of BatchedFieldsExpire: a key that is not a hash has *)
(* no field written by the atomic executor.  Without it a step that turns *)
(* a missing key into a persistent hash (HIncrBy) could find fields        *)
(* recorded for that key.                                                  *)
Unbatched == \A k \in Keys : db[k].type # "hash" => batched[k] = {}

BInv == BatchedFieldsExpire /\ Unbatched

IInv == TypeOK /\ BInv

(* EXPIRE with the expiry a caller passes never leaves a persistent hash.  *)
LEMMA EXPIRENoPersistentHash ==
  ASSUME NEW e \in Entry, NEW t \in Int, EXPIREEntry(e, t).type = "hash"
  PROVE  EXPIREEntry(e, t).ttl > 0
BY DEF EXPIREEntry, Missing, Entry

(* One written key: the new entry either has an expiry or keeps the old   *)
(* one and records no new field.                                           *)
LEMMA WriteBInv ==
  ASSUME TypeOK, BInv, NEW o, NEW k \in Keys, NEW e \in Entry,
         NEW fs \in SUBSET Fields, Write(o, k, e, fs),
         e.type = "hash" => (e.ttl > 0 \/ (fs = {} /\ e.ttl = db[k].ttl))
  PROVE  BInv'
<1>1. CASE Applied(o)
  <2>1. db' = [db EXCEPT ![k] = e]
        /\ batched' = [batched EXCEPT ![k] = IF e.type = "hash" THEN @ \cup fs ELSE {}]
    BY <1>1 DEF Write
  <2>2. SUFFICES ASSUME NEW kk \in Keys
                 PROVE  /\ batched'[kk] # {} => db'[kk].ttl > 0
                        /\ db'[kk].type # "hash" => batched'[kk] = {}
    BY DEF BInv, BatchedFieldsExpire, Unbatched
  <2>3. CASE kk = k
    BY <2>1, <2>3 DEF TypeOK, BInv, BatchedFieldsExpire, Unbatched
  <2>4. CASE kk # k
    BY <2>1, <2>4 DEF TypeOK, BInv, BatchedFieldsExpire, Unbatched
  <2>. QED BY <2>3, <2>4
<1>2. CASE ~Applied(o)
  BY <1>2 DEF Write, BInv, BatchedFieldsExpire, Unbatched
<1>. QED BY <1>1, <1>2

LEMMA InitBInv == Init => BInv
BY DEF Init, BInv, BatchedFieldsExpire, Unbatched, Missing

(* Each step of Next keeps BInv, given the type invariant.                 *)
LEMMA NextBInv == TypeOK /\ BInv /\ [Next]_vars => BInv'
<1>. SUFFICES ASSUME TypeOK, BInv, [Next]_vars PROVE BInv'
  OBVIOUS
<1>. DEFINE Reads == UNCHANGED <<db, batched>>
<1>0. Reads => BInv'
  BY DEF BInv, BatchedFieldsExpire, Unbatched
<1>1. CASE UNCHANGED vars
  BY <1>0, <1>1 DEF vars
<1>2. CASE \E k \in Keys, d \in DstKinds : Get(k, d) \/ TypedGet(k, d)
  BY <1>0, <1>2 DEF Get, TypedGet
<1>3. CASE \E k \in Keys : Exists(k) \/ HGetAll(k)
  BY <1>0, <1>3 DEF Exists, HGetAll
<1>4. CASE \E k \in Keys, f \in Fields : HExists(k, f)
  BY <1>0, <1>4 DEF HExists
<1>5. CASE \E k \in Keys, f \in Fields, d \in DstKinds : HGet(k, f, d)
  BY <1>0, <1>5 DEF HGet
<1>6. CASE \E k \in Keys, v \in Value, t \in TTLs : Set(k, v, t)
  <2>. PICK k \in Keys, v \in Value, t \in TTLs : Set(k, v, t) BY <1>6
  <2>. PICK o \in Fates : Write(o, k, SETEntry(v, t), {}) BY DEF Set
  <2>1. SETEntry(v, t) \in Entry BY SETType DEF TypeOK
  <2>. QED BY <2>1, WriteBInv DEF SETEntry
<1>7. CASE \E k \in Keys, obj \in Objs, t \in TTLs : SetStruct(k, obj, t)
  <2>. PICK k \in Keys, obj \in Objs, t \in TTLs : SetStruct(k, obj, t) BY <1>7
  <2>1. CASE Marshalled[obj] = MarshalFail
    BY <1>0, <2>1 DEF SetStruct
  <2>2. CASE Marshalled[obj] # MarshalFail
    <3>. PICK o \in Fates : Write(o, k, SETEntry(Marshalled[obj], t), {})
      BY <2>2 DEF SetStruct
    <3>1. SETEntry(Marshalled[obj], t) \in Entry
      BY <2>2, SETType DEF TypeOK, Value
    <3>. QED BY <3>1, WriteBInv DEF SETEntry
  <2>. QED BY <2>1, <2>2
<1>8. CASE \E k \in Keys : Incr(k) \/ Decr(k)
  <2>. PICK k \in Keys, op \in {"Incr", "Decr"}, d \in {1, -1} : IncrBy(op, k, d)
    BY <1>8 DEF Incr, Decr
  <2>. PICK o \in Fates : Write(o, k, INCRBYEntry(db[k], d), {}) BY DEF IncrBy
  <2>1. INCRBYEntry(db[k], d) \in Entry BY INCRBYType DEF TypeOK
  <2>2. INCRBYEntry(db[k], d).ttl = db[k].ttl BY DEF INCRBYEntry
  <2>. QED BY <2>1, <2>2, WriteBInv
<1>9. CASE \E k \in Keys : Delete(k)
  <2>. PICK k \in Keys : Delete(k) BY <1>9
  <2>. PICK o \in Fates : Write(o, k, Missing, {}) BY DEF Delete
  <2>. QED BY MissingType, WriteBInv DEF Missing
<1>10. CASE \E k \in Keys, f \in Fields, d \in Deltas : HIncrBy(k, f, d)
  <2>. PICK k \in Keys, f \in Fields, d \in Deltas : HIncrBy(k, f, d) BY <1>10
  <2>. PICK o \in Fates : Write(o, k, HINCRBYEntry(db[k], f, d), {}) BY DEF HIncrBy
  <2>1. HINCRBYEntry(db[k], f, d) \in Entry BY HINCRBYType DEF TypeOK
  <2>2. HINCRBYEntry(db[k], f, d).ttl = db[k].ttl BY DEF HINCRBYEntry
  <2>. QED BY <2>1, <2>2, WriteBInv
<1>11. CASE \E k \in Keys, f \in Fields, v \in FieldArg, t \in TTLs : HSet(k, f, v, t)
  <2>. PICK k \in Keys, f \in Fields, v \in FieldArg, t \in TTLs : HSet(k, f, v, t)
    BY <1>11
  <2>1. CASE ~ValidShape(v)
    BY <1>0, <2>1 DEF HSet
  <2>2. CASE ValidShape(v)
    <3>. PICK o \in Fates : Write(o, k, HSetBatch(db[k], f, v, t), {f})
      BY <2>2 DEF HSet
    <3>0. t \in Int /\ db[k] \in Entry BY DEF TypeOK
    <3>1. HSETEntry(db[k], f, v) \in Entry BY <2>2, <3>0, HSETType DEF ValidShape
    <3>2. HSetBatch(db[k], f, v, t) \in Entry
      BY <3>0, <3>1, EXPIREType DEF HSetBatch, TypeOK
    <3>3. HSetBatch(db[k], f, v, t).type = "hash" => HSetBatch(db[k], f, v, t).ttl > 0
      BY <3>0, <3>1, EXPIRENoPersistentHash DEF HSetBatch
    <3>. QED BY <3>2, <3>3, WriteBInv
  <2>. QED BY <2>1, <2>2
<1>12. CASE \E k \in Keys, obj \in Objects, t \in TTLs : HSetObject(k, obj, t)
  <2>. PICK k \in Keys, obj \in Objects, t \in TTLs : HSetObject(k, obj, t) BY <1>12
  <2>1. CASE \E i \in Tagged(obj) : ~ValidShape(obj[i].val)
    BY <1>0, <2>1 DEF HSetObject
  <2>2. CASE \A i \in Tagged(obj) : ValidShape(obj[i].val)
    <3>. PICK o \in Fates : Write(o, k, HSetObjectBatch(db[k], obj, t), TagSet(obj))
      BY <2>2 DEF HSetObject
    <3>0. t \in Int /\ db[k] \in Entry BY DEF TypeOK
    <3>1. HSetObjectBatch(db[k], obj, t) \in Entry BY <2>2, <3>0, HSetObjectType
    <3>2. TagSet(obj) \in SUBSET Fields BY DEF TagSet, Tagged
    <3>3. HSetObjectBatch(db[k], obj, t) = EXPIREEntry(Written(db[k], obj), t)
      BY HSetObjectBatchDef
    <3>4. Written(db[k], obj) \in Entry BY <2>2, <3>0, WrittenType
    <3>5. EXPIREEntry(Written(db[k], obj), t).type = "hash"
            => EXPIREEntry(Written(db[k], obj), t).ttl > 0
      BY <3>0, <3>4, EXPIRENoPersistentHash
    <3>. QED BY <3>1, <3>2, <3>3, <3>5, WriteBInv
  <2>. QED BY <2>1, <2>2
<1>13. CASE \E ks \in SUBSET Keys : MassDelete(ks)
  <2>. PICK ks \in SUBSET Keys : MassDelete(ks) BY <1>13
  <2>. PICK o \in Fates :
         LET ok == Applied(o) /\ DELErr(ks) = "nil"
         IN  /\ db' = [kk \in Keys |-> IF ok /\ kk \in ks THEN Missing ELSE db[kk]]
             /\ batched' = [kk \in Keys |-> IF ok /\ kk \in ks THEN {} ELSE batched[kk]]
    BY DEF MassDelete
  <2>. QED BY DEF BInv, BatchedFieldsExpire, Unbatched, Missing
<1>14. CASE Close
  BY <1>0, <1>14 DEF Close
<1>15. CASE Tick
  <2>1. db' = [k \in Keys |-> TickEntry(db[k])]
        /\ batched' = [k \in Keys |-> IF TickEntry(db[k]).type = "hash" THEN batched[k] ELSE {}]
    BY <1>15 DEF Tick
  <2>2. SUFFICES ASSUME NEW k \in Keys
                 PROVE  /\ batched'[k] # {} => db'[k].ttl > 0
                        /\ db'[k].type # "hash" => batched'[k] = {}
    BY DEF BInv, BatchedFieldsExpire, Unbatched
  <2>3. db[k] \in Entry BY DEF TypeOK
  <2>. QED BY <2>1, <2>3 DEF TickEntry, Missing, Entry, BInv, BatchedFieldsExpire, Unbatched
<1>. QED BY <1>1, <1>2, <1>3, <1>4, <1>5, <1>6, <1>7, <1>8, <1>9, <1>10,
            <1>11, <1>12, <1>13, <1>14, <1>15 DEF Next

(* The fields HSet and HSetObject write always carry an expiry: the        *)
(* MULTI/EXEC batch of HSET + EXPIRE leaves no persistent hash field       *)
(* behind, for every set of keys, fields, values and expiries.             *)
THEOREM BatchedFieldsExpireInvariant == Spec => []BatchedFieldsExpire
<1>1. Init => IInv
  BY InitType, InitBInv DEF IInv
<1>2. IInv /\ [Next]_vars => IInv'
  BY NextType, NextBInv DEF IInv
<1>3. IInv => BatchedFieldsExpire
  BY DEF IInv, BInv
<1>. QED BY <1>1, <1>2, <1>3, PTL DEF Spec

=============================================================================
