------------------------------- MODULE Store -------------------------------
(***************************************************************************)
(* The store backend as the client layer of xredis sees it: one entry per  *)
(* key, holding nothing, a string value or a hash of fields, with an       *)
(* expiry counted in whole seconds (0 = persistent).  Each operator is the *)
(* effect of one server command that src/client.go issues, at the line     *)
(* the map of PROJECT.json names; the server runs every command, and every *)
(* MULTI/EXEC batch, atomically.  Values are abstracted to a few model     *)
(* values and a window MinInt..MaxInt of the 64-bit integers, whose edges  *)
(* stand for the overflow bounds the server enforces on INCR and HINCRBY.  *)
(***************************************************************************)
EXTENDS Integers

CONSTANTS
  Keys,     \* keys the callers use
  Fields,   \* hash field names
  Vals,     \* non-numeric string values
  MinInt,   \* smallest integer a counter may hold (stands for -2^63)
  MaxInt,   \* largest integer a counter may hold (stands for 2^63 - 1)
  MaxTTL,   \* largest expiry, in seconds, a caller passes
  NoVal     \* "no value": an absent string or an absent hash field

ASSUME StoreAssumption ==
  /\ MinInt \in Int /\ MaxInt \in Int
  /\ MinInt <= 0 /\ 1 <= MaxInt
  /\ MaxTTL \in Nat \ {0}
  /\ NoVal \notin Vals \cup Int

IntVal == MinInt .. MaxInt

\* What a string or a hash field can hold.
Value == Vals \cup IntVal

Types == {"none", "string", "hash"}

Hash == [Fields -> Value \cup {NoVal}]

Entry == [type : Types, str : Value \cup {NoVal}, hash : Hash, ttl : 0 .. MaxTTL]

NoHash == [f \in Fields |-> NoVal]

\* The entry of a key that does not exist.
Missing == [type |-> "none", str |-> NoVal, hash |-> NoHash, ttl |-> 0]

-----------------------------------------------------------------------------
(* SET key v [EX t]: any previous value and expiry are replaced; t = 0     *)
(* sends no EX argument and leaves the key persistent.                     *)
SETEntry(v, t) == [type |-> "string", str |-> v, hash |-> NoHash, ttl |-> t]

(* GET key: the error part of the reply.  "Nil" is the missing-value       *)
(* sentinel (rdb.Nil).                                                      *)
GETErr(e) == CASE e.type = "none" -> "Nil"
               [] e.type = "hash" -> "WrongType"
               [] OTHER           -> "nil"

(* EXPIRE key t: no effect on a missing key; a non-positive expiry deletes *)
(* the key at once; otherwise the expiry is replaced.                      *)
EXPIREEntry(e, t) ==
  IF e.type = "none" THEN e
  ELSE IF t <= 0 THEN Missing
  ELSE [e EXCEPT !.ttl = t]

(* HSET key f v: a string key answers WRONGTYPE and is left as it is; a    *)
(* missing key becomes a persistent hash.                                  *)
HSETErr(e) == IF e.type = "string" THEN "WrongType" ELSE "nil"

HSETEntry(e, f, v) ==
  IF e.type = "string" THEN e
  ELSE [type |-> "hash", str |-> NoVal,
        hash |-> [e.hash EXCEPT ![f] = v], ttl |-> e.ttl]

(* INCRBY key d (INCR, DECR): a missing key counts as 0 and is created     *)
(* persistent, an existing key keeps its expiry.                           *)
INCRBYErr(e, d) ==
  IF e.type = "hash" THEN "WrongType"
  ELSE IF e.type = "none" THEN (IF d \in IntVal THEN "nil" ELSE "Overflow")
  ELSE IF e.str \notin IntVal THEN "NotInteger"
  ELSE IF e.str + d \notin IntVal THEN "Overflow"
  ELSE "nil"

INCRBYEntry(e, d) ==
  IF INCRBYErr(e, d) # "nil" THEN e
  ELSE [type |-> "string", hash |-> NoHash, ttl |-> e.ttl,
        str |-> IF e.type = "none" THEN d ELSE e.str + d]

(* HINCRBY key f d: a missing field counts as 0.                           *)
HINCRBYErr(e, f, d) ==
  IF e.type = "string" THEN "WrongType"
  ELSE IF e.hash[f] = NoVal THEN (IF d \in IntVal THEN "nil" ELSE "Overflow")
  ELSE IF e.hash[f] \notin IntVal THEN "NotInteger"
  ELSE IF e.hash[f] + d \notin IntVal THEN "Overflow"
  ELSE "nil"

HINCRBYEntry(e, f, d) ==
  IF HINCRBYErr(e, f, d) # "nil" THEN e
  ELSE [type |-> "hash", str |-> NoVal, ttl |-> e.ttl,
        hash |-> [e.hash EXCEPT ![f] = IF @ = NoVal THEN d ELSE @ + d]]

(* The fields a hash holds (HGETALL answers them; HEXISTS tests one).      *)
HashFields(e) == {f \in Fields : e.hash[f] # NoVal}

(* What the server keeps under a key: a missing key is exactly Missing,    *)
(* and a hash has at least one field (the server deletes an emptied hash;  *)
(* no command of client.go empties one).                                   *)
WellFormed(e) ==
  /\ e.type = "none" => e = Missing
  /\ e.type = "hash" => HashFields(e) # {}

(* One second of server time: expiries count down, a key whose expiry     *)
(* reaches zero is removed.                                                 *)
TickEntry(e) ==
  CASE e.ttl = 1 -> Missing
    [] e.ttl > 1 -> [e EXCEPT !.ttl = e.ttl - 1]
    [] OTHER     -> e
=============================================================================
