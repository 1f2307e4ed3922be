-------------------------- MODULE ReadContractProofs --------------------------
(***************************************************************************)
(* Proofs about what the read methods of the command layer return          *)
(* (ReadContract), for every value of the constants that satisfies         *)
(* StoreAssumption and CommandsAssumption.                                 *)
(*                                                                         *)
(* ReadContract is not inductive by itself: HGetAll maps an empty answer   *)
(* to ErrKeyNotFound, and that is "the key is missing" only because the    *)
(* store never holds a hash without fields or a "none" entry with a value  *)
(* or an expiry.  Stored says so of every key, and RInv adds it.           *)
(***************************************************************************)
EXTENDS CommandsProofs, WellFoundedInduction

Stored == \A k \in Keys : WellFormed(db[k])

RInv == TypeOK /\ Stored /\ ReadContract

-----------------------------------------------------------------------------
(* A nonempty set of indices of a sequence has a largest element: the     *)
(* field of a struct that HSetObject's HSETs write last.                   *)
LEMMA IndexSetHasMax ==
  ASSUME NEW n \in Nat, NEW S \in SUBSET (1 .. n), S # {}
  PROVE  \E i \in S : \A j \in S : j <= i
<1>. DEFINE T == {n - i : i \in S}
<1>1. T \subseteq Nat /\ T # {}
  <2>1. \A i \in S : n - i \in Nat
    OBVIOUS
  <2>. QED BY <2>1 DEF T
<1>2. PICK m \in T : \A y \in T : ~(<<y, m>> \in OpToRel(<, Nat))
  BY <1>1, NatLessThanWellFounded, WFMin
<1>3. \A y \in T : ~(y < m)
  BY <1>1, <1>2 DEF OpToRel
<1>4. PICK i \in S : m = n - i
  BY DEF T
<1>5. \A j \in S : n - j \in T
  BY DEF T
<1>6. \A j \in S : j <= i
  BY <1>3, <1>4, <1>5
<1>. QED BY <1>6

(* Every field HSetObject tags has a last writer.                          *)
LEMMA LastWriterExists ==
  ASSUME NEW obj \in Objects, NEW i \in Tagged(obj)
  PROVE  LastWriter(obj, obj[i].tag) # {}
<1>. DEFINE f == obj[i].tag
            S == {j \in Tagged(obj) : obj[j].tag = f}
<1>1. obj \in Seq(StructField) BY CommandsAssumption
<1>2. S \in SUBSET (1 .. Len(obj)) /\ S # {} /\ Len(obj) \in Nat
  BY <1>1 DEF Tagged
<1>3. PICK m \in S : \A j \in S : j <= m
  BY <1>2, IndexSetHasMax
<1>. QED BY <1>3 DEF LastWriter

-----------------------------------------------------------------------------
(* Each server command keeps an entry well formed.                         *)

LEMMA WFMissing == WellFormed(Missing)
BY DEF WellFormed, Missing

LEMMA WFSet ==
  ASSUME NEW v, NEW t
  PROVE  WellFormed(SETEntry(v, t))
BY DEF WellFormed, SETEntry

LEMMA WFExpire ==
  ASSUME NEW e \in Entry, WellFormed(e), NEW t
  PROVE  WellFormed(EXPIREEntry(e, t))
BY WFMissing DEF WellFormed, EXPIREEntry, HashFields, Entry

LEMMA WFHSet ==
  ASSUME NEW e \in Entry, NEW f \in Fields, NEW v \in Value
  PROVE  WellFormed(HSETEntry(e, f, v))
<1>1. v # NoVal BY StoreAssumption DEF Value, IntVal
<1>. QED BY <1>1 DEF WellFormed, HSETEntry, HashFields, Entry, Hash

LEMMA WFIncrBy ==
  ASSUME NEW e \in Entry, WellFormed(e), NEW d
  PROVE  WellFormed(INCRBYEntry(e, d))
BY DEF WellFormed, INCRBYEntry

LEMMA WFHIncrBy ==
  ASSUME NEW e \in Entry, WellFormed(e), NEW f \in Fields, NEW d \in Int
  PROVE  WellFormed(HINCRBYEntry(e, f, d))
<1>1. CASE HINCRBYErr(e, f, d) = "nil"
  <2>1. (IF e.hash[f] = NoVal THEN d ELSE e.hash[f] + d) \in Int
    BY <1>1 DEF HINCRBYErr, IntVal
  <2>2. (IF e.hash[f] = NoVal THEN d ELSE e.hash[f] + d) # NoVal
    BY <2>1, StoreAssumption
  <2>3. f \in HashFields(HINCRBYEntry(e, f, d))
    BY <1>1, <2>2 DEF HINCRBYEntry, HashFields, Entry, Hash
  <2>. QED BY <1>1, <2>3 DEF WellFormed, HINCRBYEntry
<1>2. CASE HINCRBYErr(e, f, d) # "nil"
  BY <1>2 DEF HINCRBYEntry
<1>. QED BY <1>1, <1>2

LEMMA WFTick ==
  ASSUME NEW e \in Entry, WellFormed(e)
  PROVE  WellFormed(TickEntry(e))
<1>1. CASE e.ttl = 1
  BY <1>1, WFMissing DEF TickEntry
<1>2. CASE e.ttl > 1
  <2>1. e.type # "none" BY <1>2 DEF WellFormed, Missing
  <2>. QED BY <1>2, <2>1 DEF WellFormed, TickEntry, HashFields, Entry
<1>3. CASE e.ttl # 1 /\ ~(e.ttl > 1)
  BY <1>3 DEF TickEntry
<1>. QED BY <1>1, <1>2, <1>3

LEMMA WFWritten ==
  ASSUME NEW e \in Entry, WellFormed(e), NEW obj \in Objects,
         \A i \in Tagged(obj) : ValidShape(obj[i].val)
  PROVE  WellFormed(Written(e, obj))
<1>1. CASE e.type = "string" \/ Tagged(obj) = {}
  BY <1>1 DEF Written
<1>2. CASE e.type # "string" /\ Tagged(obj) # {}
  <2>1. PICK i \in Tagged(obj) : TRUE BY <1>2
  <2>. DEFINE f == obj[i].tag
  <2>2. f \in Fields BY DEF Tagged
  <2>3. LastWriter(obj, f) # {} BY LastWriterExists
  <2>4. obj[CHOOSE j \in LastWriter(obj, f) : TRUE].val \in Value
    BY <2>3 DEF LastWriter, ValidShape
  <2>5. obj[CHOOSE j \in LastWriter(obj, f) : TRUE].val # NoVal
    BY <2>4, StoreAssumption DEF Value, IntVal
  <2>6. f \in HashFields(Written(e, obj))
    BY <1>2, <2>2, <2>3, <2>5 DEF Written, HashFields
  <2>. QED BY <1>2, <2>6 DEF WellFormed, Written
<1>. QED BY <1>1, <1>2

LEMMA WFHSetObject ==
  ASSUME NEW e \in Entry, WellFormed(e), NEW obj \in Objects, NEW t,
         \A i \in Tagged(obj) : ValidShape(obj[i].val)
  PROVE  WellFormed(HSetObjectBatch(e, obj, t))
BY WFWritten, WrittenType, WFExpire, HSetObjectBatchDef

-----------------------------------------------------------------------------
(* Every action keeps the store well formed.                               *)

LEMMA WriteStored ==
  ASSUME TypeOK, Stored, NEW o, NEW k \in Keys, NEW e, WellFormed(e),
         NEW fs, Write(o, k, e, fs)
  PROVE  Stored'
BY DEF Write, Stored, TypeOK

LEMMA NextStored == TypeOK /\ Stored /\ [Next]_vars => Stored'
<1>. SUFFICES ASSUME TypeOK, Stored, [Next]_vars PROVE Stored'
  OBVIOUS
<1>. USE DEF TypeOK
<1>0. UNCHANGED db => Stored'
  BY DEF Stored
<1>1. CASE UNCHANGED vars
  BY <1>0, <1>1 DEF vars
<1>2. CASE \E k \in Keys, d \in DstKinds : Get(k, d) \/ TypedGet(k, d)
  BY <1>0, <1>2 DEF Get, TypedGet
<1>3. CASE \E k \in Keys : Exists(k) \/ HGetAll(k)
  BY <1>0, <1>3 DEF Exists, HGetAll
<1>4. CASE \E k \in Keys, f \in Fields : HExists(k, f)
  BY <1>0, <1>4 DEF HExists
<1>5. CASE \E k \in Keys, f \in Fields, d \in DstKinds : HGet(k, f, d)
  BY <1>0, <1>5 DEF HGet
<1>6. CASE \E k \in Keys, v \in Value, t \in TTLs : Set(k, v, t)
  <2>. PICK k \in Keys, v \in Value, t \in TTLs : Set(k, v, t) BY <1>6
  <2>. PICK o \in Fates : Write(o, k, SETEntry(v, t), {}) BY DEF Set
  <2>. QED BY WFSet, WriteStored
<1>7. CASE \E k \in Keys, obj \in Objs, t \in TTLs : SetStruct(k, obj, t)
  <2>. PICK k \in Keys, obj \in Objs, t \in TTLs : SetStruct(k, obj, t) BY <1>7
  <2>1. CASE Marshalled[obj] = MarshalFail
    BY <1>0, <2>1 DEF SetStruct
  <2>2. CASE Marshalled[obj] # MarshalFail
    <3>. PICK o \in Fates : Write(o, k, SETEntry(Marshalled[obj], t), {})
      BY <2>2 DEF SetStruct
    <3>. QED BY WFSet, WriteStored
  <2>. QED BY <2>1, <2>2
<1>8. CASE \E k \in Keys : Incr(k) \/ Decr(k)
  <2>. PICK k \in Keys, op \in {"Incr", "Decr"}, d \in {1, -1} : IncrBy(op, k, d)
    BY <1>8 DEF Incr, Decr
  <2>. PICK o \in Fates : Write(o, k, INCRBYEntry(db[k], d), {}) BY DEF IncrBy
  <2>. QED BY WFIncrBy, WriteStored DEF Stored
<1>9. CASE \E k \in Keys : Delete(k)
  <2>. PICK k \in Keys : Delete(k) BY <1>9
  <2>. PICK o \in Fates : Write(o, k, Missing, {}) BY DEF Delete
  <2>. QED BY WFMissing, WriteStored
<1>10. CASE \E k \in Keys, f \in Fields, d \in Deltas : HIncrBy(k, f, d)
  <2>. PICK k \in Keys, f \in Fields, d \in Deltas : HIncrBy(k, f, d) BY <1>10
  <2>. PICK o \in Fates : Write(o, k, HINCRBYEntry(db[k], f, d), {}) BY DEF HIncrBy
  <2>1. WellFormed(HINCRBYEntry(db[k], f, d)) BY WFHIncrBy, CommandsAssumption DEF Stored
  <2>. QED BY <2>1, WriteStored
<1>11. CASE \E k \in Keys, f \in Fields, v \in FieldArg, t \in TTLs : HSet(k, f, v, t)
  <2>. PICK k \in Keys, f \in Fields, v \in FieldArg, t \in TTLs : HSet(k, f, v, t)
    BY <1>11
  <2>1. CASE ~ValidShape(v)
    BY <1>0, <2>1 DEF HSet
  <2>2. CASE ValidShape(v)
    <3>. PICK o \in Fates : Write(o, k, HSetBatch(db[k], f, v, t), {f})
      BY <2>2 DEF HSet
    <3>1. HSETEntry(db[k], f, v) \in Entry BY <2>2, HSETType DEF ValidShape
    <3>2. WellFormed(HSETEntry(db[k], f, v)) BY <2>2, WFHSet DEF ValidShape
    <3>3. WellFormed(HSetBatch(db[k], f, v, t)) BY <3>1, <3>2, WFExpire DEF HSetBatch
    <3>. QED BY <3>3, WriteStored
  <2>. QED BY <2>1, <2>2
<1>12. CASE \E k \in Keys, obj \in Objects, t \in TTLs : HSetObject(k, obj, t)
  <2>. PICK k \in Keys, obj \in Objects, t \in TTLs : HSetObject(k, obj, t) BY <1>12
  <2>1. CASE \E i \in Tagged(obj) : ~ValidShape(obj[i].val)
    BY <1>0, <2>1 DEF HSetObject
  <2>2. CASE \A i \in Tagged(obj) : ValidShape(obj[i].val)
    <3>. PICK o \in Fates : Write(o, k, HSetObjectBatch(db[k], obj, t), TagSet(obj))
      BY <2>2 DEF HSetObject
    <3>1. WellFormed(HSetObjectBatch(db[k], obj, t)) BY <2>2, WFHSetObject DEF Stored
    <3>. QED BY <3>1, WriteStored
  <2>. QED BY <2>1, <2>2
<1>13. CASE \E ks \in SUBSET Keys : MassDelete(ks)
  <2>. PICK ks \in SUBSET Keys : MassDelete(ks) BY <1>13
  <2>. PICK o \in Fates :
         db' = [kk \in Keys |-> IF Applied(o) /\ DELErr(ks) = "nil" /\ kk \in ks
                                THEN Missing ELSE db[kk]]
    BY DEF MassDelete
  <2>. QED BY WFMissing DEF Stored
<1>14. CASE Close
  BY <1>0, <1>14 DEF Close
<1>15. CASE Tick
  <2>1. db' = [k \in Keys |-> TickEntry(db[k])]
    BY <1>15 DEF Tick
  <2>. QED BY <2>1, WFTick DEF Stored
<1>. QED BY <1>1, <1>2, <1>3, <1>4, <1>5, <1>6, <1>7, <1>8, <1>9, <1>10,
            <1>11, <1>12, <1>13, <1>14, <1>15 DEF Next

-----------------------------------------------------------------------------
(* What each call leaves in last agrees with the store.                    *)

ReadOps == {"Get", "Typed", "HGet", "HGetAll", "Exists"}

(* The error a call returns is the server's, unless the client was closed *)
(* or the network failed.                                                  *)
LEMMA ReplyIsServerErr ==
  ASSUME NEW o, NEW x, Reply(o, x) \notin {"Closed", "Net"}
  PROVE  Reply(o, x) = x
BY DEF Reply

(* A call that reads nothing found nothing.                                *)
LEMMA QuietContract ==
  ASSUME last'.found = FALSE, last'.op \notin ReadOps
  PROVE  ReadContract'
BY DEF ReadContract, ReadOps

(* The result Get and the typed getters build from a server answer R.      *)
LEMMA GetResContract ==
  ASSUME NEW k \in Keys, NEW e, NEW R, NEW op \in {"Get", "Typed"},
         db'[k] = e,
         last' = Res(op, k, IF R = "Nil" THEN (IF op = "Get" THEN "KeyNotFound" ELSE "nil")
                            ELSE R,
                     R = "nil", IF R = "nil" THEN e.str ELSE NoVal),
         R = "nil" => e.type = "string",
         R = "Nil" => e.type = "none",
         R # "KeyNotFound"
  PROVE  ReadContract'
BY DEF ReadContract, Res

LEMMA GetContract ==
  ASSUME TypeOK, NEW k \in Keys, NEW d, Get(k, d) \/ TypedGet(k, d)
  PROVE  ReadContract'
<1>. DEFINE e == db[k]
            x == IF GETErr(e) = "nil" /\ ~Decodes(d, e.str) THEN "Decode" ELSE GETErr(e)
<1>1. e.type \in Types BY DEF TypeOK, Entry
<1>2. PICK o \in Fates, op \in {"Get", "Typed"} :
        /\ last' = Res(op, k, IF Reply(o, x) = "Nil"
                              THEN (IF op = "Get" THEN "KeyNotFound" ELSE "nil")
                              ELSE Reply(o, x),
                       Reply(o, x) = "nil", IF Reply(o, x) = "nil" THEN e.str ELSE NoVal)
        /\ db' = db
  BY DEF Get, TypedGet
<1>. PICK R : R = Reply(o, x)
  OBVIOUS
<1>3. R = "nil" => e.type = "string"
  <2>1. R = "nil" => x = "nil" BY ReplyIsServerErr
  <2>. QED BY <2>1, <1>1 DEF GETErr, Types
<1>4. R = "Nil" => e.type = "none"
  <2>1. R = "Nil" => x = "Nil" BY ReplyIsServerErr
  <2>. QED BY <2>1, <1>1 DEF GETErr, Types
<1>5. R # "KeyNotFound"
  <2>1. x # "KeyNotFound" BY <1>1 DEF GETErr, Types
  <2>. QED BY <2>1, ReplyIsServerErr
<1>6. db'[k] = e
  BY <1>2
<1>. QED BY <1>2, <1>3, <1>4, <1>5, <1>6, GetResContract

LEMMA ExistsContract ==
  ASSUME NEW k \in Keys, Exists(k) \/ \E f \in Fields : HExists(k, f)
  PROVE  ReadContract'
<1>1. CASE Exists(k)
  <2>1. PICK o \in Fates :
          /\ last' = Res("Exists", k, Reply(o, "nil"),
                         Reply(o, "nil") = "nil" /\ db[k].type # "none", NoVal)
          /\ db' = db
    BY <1>1 DEF Exists
  <2>. QED BY <2>1 DEF ReadContract, Res
<1>2. CASE \E f \in Fields : HExists(k, f)
  <2>1. PICK f \in Fields, o \in Fates :
          last' = Res("HExists", k,
                      Reply(o, IF db[k].type = "string" THEN "WrongType" ELSE "nil"),
                      Reply(o, IF db[k].type = "string" THEN "WrongType" ELSE "nil") = "nil"
                        /\ f \in HashFields(db[k]), NoVal)
    BY <1>2 DEF HExists
  <2>. QED BY <2>1 DEF ReadContract, Res
<1>. QED BY <1>1, <1>2

(* The result HGetAll builds from a server answer R and the fields F.     *)
LEMMA HGetAllResContract ==
  ASSUME NEW k \in Keys, NEW e, NEW R, NEW F,
         db'[k] = e,
         last' = Res("HGetAll", k, IF R = "nil" /\ F = {} THEN "KeyNotFound" ELSE R,
                     R = "nil" /\ F # {}, NoVal),
         R = "nil" => (F = {} <=> e.type = "none") /\ e.type # "string",
         e.type \in Types,
         R # "KeyNotFound"
  PROVE  ReadContract'
BY Zenon DEF ReadContract, Res, Types

LEMMA HGetAllContract ==
  ASSUME TypeOK, Stored, NEW k \in Keys, HGetAll(k)
  PROVE  ReadContract'
<1>. DEFINE e == db[k]
            x == IF e.type = "string" THEN "WrongType" ELSE "nil"
<1>1. e.type \in Types /\ WellFormed(e) BY DEF TypeOK, Entry, Stored
<1>2. PICK o \in Fates :
        /\ last' = Res("HGetAll", k,
                       IF Reply(o, x) = "nil" /\ HashFields(e) = {} THEN "KeyNotFound"
                       ELSE Reply(o, x),
                       Reply(o, x) = "nil" /\ HashFields(e) # {}, NoVal)
        /\ db' = db
  BY DEF HGetAll
<1>. PICK R : R = Reply(o, x)
  OBVIOUS
<1>3. R = "nil" => e.type # "string" BY ReplyIsServerErr
<1>4. R # "KeyNotFound" BY ReplyIsServerErr
<1>5. HashFields(Missing) = {} BY DEF HashFields, Missing, NoHash
<1>6. e.type # "string" => (HashFields(e) = {} <=> e.type = "none")
  BY <1>1, <1>5 DEF WellFormed, Types
<1>7. db'[k] = e
  BY <1>2
<1>. QED BY <1>1, <1>2, <1>3, <1>4, <1>6, <1>7, HGetAllResContract

LEMMA HGetContract ==
  ASSUME TypeOK, Stored, NEW k \in Keys, NEW f \in Fields, NEW d, HGet(k, f, d)
  PROVE  ReadContract'
<1>. DEFINE e == db[k]
<1>1. e.type \in Types /\ e.hash[f] \in Value \cup {NoVal} BY DEF TypeOK, Entry, Hash
<1>2. PICK o \in Fates :
        /\ last' = Res("HGet", k,
                       IF Reply(o, HGETErr(e, f, d)) = "Nil" THEN "KeyNotFound"
                       ELSE Reply(o, HGETErr(e, f, d)),
                       Reply(o, HGETErr(e, f, d)) = "nil",
                       IF Reply(o, HGETErr(e, f, d)) = "nil" THEN e.hash[f] ELSE NoVal)
        /\ db' = db
  BY DEF HGet
<1>3. Reply(o, HGETErr(e, f, d)) = "nil" => HGETErr(e, f, d) = "nil" BY ReplyIsServerErr
<1>4. HGETErr(e, f, d) = "nil" => e.type # "string" /\ e.hash[f] # NoVal
  BY DEF HGETErr
<1>5. e.hash[f] # NoVal => e.type # "none"
  BY DEF e, Missing, NoHash, Stored, WellFormed
<1>6. Reply(o, HGETErr(e, f, d)) = "nil" => e.type = "hash" /\ e.hash[f] \in Value
  BY <1>1, <1>3, <1>4, <1>5 DEF Types
<1>. QED BY <1>2, <1>6 DEF ReadContract, Res, e

(* Every call other than the reads and MassDelete sets found to FALSE and *)
(* an op of its own.                                                       *)
LEMMA OtherWritesOp ==
  ASSUME \/ \E k \in Keys, v \in Value, t \in TTLs : Set(k, v, t)
         \/ \E k \in Keys, obj \in Objs, t \in TTLs : SetStruct(k, obj, t)
         \/ \E k \in Keys : Incr(k) \/ Decr(k) \/ Delete(k)
         \/ \E k \in Keys, f \in Fields, d \in Deltas : HIncrBy(k, f, d)
         \/ \E k \in Keys, f \in Fields, v \in FieldArg, t \in TTLs : HSet(k, f, v, t)
         \/ \E k \in Keys, obj \in Objects, t \in TTLs : HSetObject(k, obj, t)
         \/ Close
         \/ Tick
  PROVE  \E op \in Ops \ (ReadOps \cup {"MassDelete"}) : \E k, err, v :
           last' = Res(op, k, err, FALSE, v)
<1>1. CASE \E k \in Keys, v \in Value, t \in TTLs : Set(k, v, t)
  BY <1>1 DEF Set, Ops, ReadOps
<1>2. CASE \E k \in Keys, obj \in Objs, t \in TTLs : SetStruct(k, obj, t)
  BY <1>2 DEF SetStruct, Ops, ReadOps
<1>3. CASE \E k \in Keys : Incr(k) \/ Decr(k) \/ Delete(k)
  BY <1>3 DEF Incr, Decr, IncrBy, Delete, Ops, ReadOps
<1>5. CASE \E k \in Keys, f \in Fields, d \in Deltas : HIncrBy(k, f, d)
  BY <1>5 DEF HIncrBy, Ops, ReadOps
<1>6. CASE \E k \in Keys, f \in Fields, v \in FieldArg, t \in TTLs : HSet(k, f, v, t)
  BY <1>6 DEF HSet, Ops, ReadOps
<1>7. CASE \E k \in Keys, obj \in Objects, t \in TTLs : HSetObject(k, obj, t)
  BY <1>7 DEF HSetObject, Ops, ReadOps
<1>8. CASE Close
  <2>1. last' = Res("Close", NoVal, IF conn = "open" THEN "nil" ELSE "Closed", FALSE, NoVal)
    BY <1>8 DEF Close
  <2>2. "Close" \in Ops \ (ReadOps \cup {"MassDelete"}) BY DEF Ops, ReadOps
  <2>. QED BY <2>1, <2>2
<1>9. CASE Tick
  BY <1>9 DEF Tick, Ops, ReadOps
<1>. QED BY <1>1, <1>2, <1>3, <1>5, <1>6, <1>7, <1>8, <1>9

(* Every call other than the reads sets found to FALSE and an op of its own. *)
LEMMA WritesQuiet ==
  ASSUME \/ \E k \in Keys, v \in Value, t \in TTLs : Set(k, v, t)
         \/ \E k \in Keys, obj \in Objs, t \in TTLs : SetStruct(k, obj, t)
         \/ \E k \in Keys : Incr(k) \/ Decr(k) \/ Delete(k)
         \/ \E ks \in SUBSET Keys : MassDelete(ks)
         \/ \E k \in Keys, f \in Fields, d \in Deltas : HIncrBy(k, f, d)
         \/ \E k \in Keys, f \in Fields, v \in FieldArg, t \in TTLs : HSet(k, f, v, t)
         \/ \E k \in Keys, obj \in Objects, t \in TTLs : HSetObject(k, obj, t)
         \/ Close
         \/ Tick
  PROVE  ReadContract'
<1>1. CASE \E ks \in SUBSET Keys : MassDelete(ks)
  <2>. PICK ks \in SUBSET Keys : MassDelete(ks) BY <1>1
  <2>. PICK o \in Fates : last' = Res("MassDelete", NoVal, Reply(o, DELErr(ks)), FALSE, NoVal)
    BY DEF MassDelete
  <2>1. last'.op = "MassDelete" /\ last'.found = FALSE
    BY DEF Res
  <2>. QED BY <2>1, QuietContract DEF ReadOps
<1>2. CASE ~\E ks \in SUBSET Keys : MassDelete(ks)
  <2>1. \E op \in Ops \ (ReadOps \cup {"MassDelete"}) : \E k, err, v :
          last' = Res(op, k, err, FALSE, v)
    BY <1>2, OtherWritesOp
  <2>. QED BY <2>1, QuietContract DEF Res
<1>. QED BY <1>1, <1>2

LEMMA NextContract == TypeOK /\ Stored /\ ReadContract /\ [Next]_vars => ReadContract'
<1>. SUFFICES ASSUME TypeOK, Stored, ReadContract, [Next]_vars PROVE ReadContract'
  OBVIOUS
<1>1. CASE UNCHANGED vars
  BY <1>1 DEF vars, ReadContract
<1>2. CASE \E k \in Keys, d \in DstKinds : Get(k, d) \/ TypedGet(k, d)
  BY <1>2, GetContract
<1>3. CASE \E k \in Keys : Exists(k)
  BY <1>3, ExistsContract
<1>4. CASE \E k \in Keys, f \in Fields : HExists(k, f)
  BY <1>4, ExistsContract
<1>5. CASE \E k \in Keys : HGetAll(k)
  BY <1>5, HGetAllContract
<1>6. CASE \E k \in Keys, f \in Fields, d \in DstKinds : HGet(k, f, d)
  BY <1>6, HGetContract
<1>. QED BY <1>1, <1>2, <1>3, <1>4, <1>5, <1>6, WritesQuiet DEF Next

LEMMA InitRInv == Init => RInv
<1>. SUFFICES ASSUME Init PROVE RInv
  OBVIOUS
<1>1. TypeOK BY InitType
<1>2. Stored BY WFMissing DEF Init, Stored
<1>3. ReadContract BY DEF Init, ReadContract, Res
<1>. QED BY <1>1, <1>2, <1>3 DEF RInv

(* What Get, the typed getters, Exists, HGet and HGetAll return agrees     *)
(* with the entry they read, for every reachable state and every instance  *)
(* of the constants: a found value is the stored one, ErrKeyNotFound from  *)
(* Get or HGetAll means the key does not exist, and Exists and the typed   *)
(* getters' found flag is exactly the key's existence when no error came.  *)
THEOREM ReadContractInvariant == Spec => []ReadContract
<1>1. Init => RInv
  BY InitRInv
<1>2. RInv /\ [Next]_vars => RInv'
  BY NextType, NextStored, NextContract DEF RInv
<1>3. RInv => ReadContract
  BY DEF RInv
<1>. QED BY <1>1, <1>2, <1>3, PTL DEF Spec

=============================================================================
