----------------------------- MODULE SampleProofs -----------------------------
(***************************************************************************)
(* Proof that the example service keeps what /create stored readable, for  *)
(* any number of concurrent requests.                                      *)
(***************************************************************************)
EXTENDS Sample, TLAPS

(* Why CreatedStaysReadable holds: value_1 only ever receives "First       *)
(* value", it holds it from the moment a /create passed its first Set,     *)
(* and a /get that began after an "OK" is still running or answered from   *)
(* that value.                                                             *)
SInv ==
  /\ TypeOK
  /\ createdOK => db["value_1"] = "First value"
  /\ \A r \in Reqs :
       /\ hpc[r] = "set2" => db["value_1"] = "First value"
       /\ snap[r] => createdOK /\ hpc[r] \in {"get", "done"}
       /\ (snap[r] /\ hpc[r] = "done") => resp[r] \in {"First value", "500:net"}

LEMMA InitSInv == Init => SInv
BY DEF Init, SInv, TypeOK, SKeys, NoValue

(* The first Set of /create: value_1 gets "First value"; a failure ends   *)
(* the request with a 500.                                                 *)
LEMMA CreateFirstSInv ==
  ASSUME SInv, NEW r \in Reqs, CreateFirst(r)
  PROVE  SInv'
<1> USE DEF SInv, TypeOK, SKeys, NoValue
<1>1. PICK o \in Outcomes :
        /\ db' = IF o = "dropped" THEN db ELSE [db EXCEPT !["value_1"] = "First value"]
        /\ IF o = "reply"
           THEN /\ hpc' = [hpc EXCEPT ![r] = "set2"]
                /\ resp' = resp
                /\ createdOK' = createdOK
           ELSE /\ hpc' = [hpc EXCEPT ![r] = "done"]
                /\ resp' = [resp EXCEPT ![r] = "500:net"]
                /\ UNCHANGED createdOK
  BY DEF CreateFirst, SetStep
<1>2. hpc[r] = "set1" /\ UNCHANGED <<phase, addr, snap>>
  BY DEF CreateFirst
<1>3. CASE o = "reply"
  BY <1>1, <1>2, <1>3
<1>4. CASE o # "reply"
  BY <1>1, <1>2, <1>4
<1>5. QED
  BY <1>3, <1>4

(* The second Set: value_2 only; a reply makes createdOK true, which is    *)
(* safe because value_1 was set before.                                    *)
LEMMA CreateSecondSInv ==
  ASSUME SInv, NEW r \in Reqs, CreateSecond(r)
  PROVE  SInv'
<1> USE DEF SInv, TypeOK, SKeys, NoValue
<1>1. PICK o \in Outcomes :
        /\ db' = IF o = "dropped" THEN db ELSE [db EXCEPT !["value_2"] = "Second value"]
        /\ IF o = "reply"
           THEN /\ hpc' = [hpc EXCEPT ![r] = "done"]
                /\ resp' = [resp EXCEPT ![r] = "OK"]
                /\ createdOK' = TRUE
           ELSE /\ hpc' = [hpc EXCEPT ![r] = "done"]
                /\ resp' = [resp EXCEPT ![r] = "500:net"]
                /\ UNCHANGED createdOK
  BY DEF CreateSecond, SetStep
<1>2. hpc[r] = "set2" /\ UNCHANGED <<phase, addr, snap>>
  BY DEF CreateSecond
<1>3. db'["value_1"] = db["value_1"]
  BY <1>1
<1>4. CASE o = "reply"
  BY <1>1, <1>2, <1>3, <1>4
<1>5. CASE o # "reply"
  BY <1>1, <1>2, <1>3, <1>5
<1>6. QED
  BY <1>4, <1>5

LEMMA NextSInv == SInv /\ [Next]_vars => SInv'
<1> SUFFICES ASSUME SInv, [Next]_vars PROVE SInv'
  OBVIOUS
<1>1. CASE Start
  BY <1>1 DEF Start, SInv, TypeOK
<1>2. CASE Listen
  BY <1>2 DEF Listen, SInv, TypeOK
<1>3. ASSUME NEW r \in Reqs, Arrive(r) PROVE SInv'
  BY <1>3 DEF Arrive, SInv, TypeOK
<1>4. ASSUME NEW r \in Reqs, GetTask(r) PROVE SInv'
  BY <1>4, SampleAssumption DEF GetTask, SInv, TypeOK, SKeys, NoValue
<1>5. ASSUME NEW r \in Reqs, CreateFirst(r) \/ CreateSecond(r) PROVE SInv'
  BY <1>5, CreateFirstSInv, CreateSecondSInv
<1>6. CASE UNCHANGED vars
  BY <1>6 DEF vars, SInv, TypeOK
<1>7. QED
  BY <1>1, <1>2, <1>3, <1>4, <1>5, <1>6 DEF Next

(* The contract of the example service: once a /create answered "OK",     *)
(* every /get begun afterwards answers "First value" or a network error.   *)
THEOREM CreatedStaysReadableInvariant == Spec => []CreatedStaysReadable
<1>1. Init => SInv
  BY InitSInv
<1>2. SInv /\ [Next]_vars => SInv'
  BY NextSInv
<1>3. SInv => CreatedStaysReadable
  BY DEF SInv, CreatedStaysReadable
<1>4. QED
  BY <1>1, <1>2, <1>3, PTL DEF Spec

(* Every reachable state of the example service is well typed: the server *)
(* and request phases, the store, the responses and the snapshot flags,   *)
(* for any number of concurrent requests.                                 *)
THEOREM SampleTypeCorrect == Spec => []TypeOK
<1>1. SInv => TypeOK
  BY DEF SInv
<1>. QED BY InitSInv, NextSInv, <1>1, PTL DEF Spec

===============================================================================
