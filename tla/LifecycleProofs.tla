--------------------------- MODULE LifecycleProofs ---------------------------
(***************************************************************************)
(* Proof that newClient hands out only complete clients, for any number    *)
(* of concurrent constructions and any options.                            *)
(***************************************************************************)
EXTENDS Lifecycle, TLAPS

PCs == {"start", "dial", "instrument", "ping", "ready", "failed"}

(* The shape of the control state the proof needs.                         *)
Shape ==
  /\ pc \in [Ctors -> PCs]
  /\ DOMAIN policy = Ctors
  /\ conn \in [Ctors -> {"none", "open", "closed"}]
  /\ attached \in [Ctors -> SUBSET {"tracing", "metrics"}]
  /\ pinged \in [Ctors -> BOOLEAN]

(* What each phase of newClient has done by the time it is reached: after  *)
(* Dial the connection exists and the options were resolved, after        *)
(* Instrument both hooks are on it, and a returned client was pinged.      *)
Phases ==
  \A c \in Ctors :
    /\ pc[c] \in {"instrument", "ping", "ready"} =>
         conn[c] # "none" /\ policy[c] # NoPolicy
    /\ pc[c] \in {"ping", "ready"} => attached[c] = {"tracing", "metrics"}
    /\ pc[c] = "ready" => pinged[c]
    /\ pc[c] # "ready" => conn[c] # "closed"

LInv == Shape /\ Phases

LEMMA InitLInv == Init => LInv
BY DEF Init, LInv, Shape, Phases, PCs

(* A construction's steps change only its own entries.                     *)
LEMMA ConstructLInv ==
  ASSUME LInv, NEW c \in Ctors, Construct(c)
  PROVE  LInv'
<1> USE DEF LInv, Shape, Phases, PCs
<1>1. CASE Configure(c)
  BY <1>1 DEF Configure
<1>2. CASE Dial(c)
  <2>1. policy'[c] # NoPolicy
    BY <1>2 DEF Dial, NoPolicy
  <2>2. QED
    BY <1>2, <2>1 DEF Dial
<1>3. CASE Instrument(c)
  BY <1>3 DEF Instrument
<1>4. CASE Ping(c)
  BY <1>4 DEF Ping
<1>5. QED
  BY <1>1, <1>2, <1>3, <1>4 DEF Construct

LEMMA CloseLInv ==
  ASSUME LInv, NEW c \in Ctors, Close(c)
  PROVE  LInv'
BY DEF Close, LInv, Shape, Phases, PCs

LEMMA NextLInv == LInv /\ [Next]_vars => LInv'
<1> SUFFICES ASSUME LInv, [Next]_vars PROVE LInv'
  OBVIOUS
<1>1. CASE Next
  BY <1>1, ConstructLInv, CloseLInv DEF Next
<1>2. CASE UNCHANGED vars
  BY <1>2 DEF vars, LInv, Shape, Phases
<1>3. QED
  BY <1>1, <1>2

(* Spec 3 and 7: every client NewClient or NewClusterClient returns has   *)
(* its connection, both instrumentation hooks and a successful ping.      *)
THEOREM ReadyClientCompleteInvariant == Spec => []ReadyClientComplete
<1>1. Init => LInv
  BY InitLInv
<1>2. LInv /\ [Next]_vars => LInv'
  BY NextLInv
<1>3. LInv => ReadyClientComplete
  BY DEF LInv, Phases, ReadyClientComplete
<1>4. QED
  BY <1>1, <1>2, <1>3, PTL DEF Spec

=============================================================================
