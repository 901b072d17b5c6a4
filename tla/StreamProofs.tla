---------------------------- MODULE StreamProofs ----------------------------
(***************************************************************************)
(* Operations and the mode of a stream, for any number of tasks and of     *)
(* engines, one for every upgrade there will ever be.                      *)
(***************************************************************************)
EXTENDS Stream, TLAPS

OpOK(o) ==
  o \in [at : {"idle", "deferred", "pending"}, kind : Kinds,
         made : Engines \cup {NoEngine}, on : Layers \cup {"none"}, timed : BOOLEAN]

OpsOK ==
  /\ op \in [Tasks -> [at : {"idle", "deferred", "pending"}, kind : Kinds,
                       made : Engines \cup {NoEngine},
                       on : Layers \cup {"none"}, timed : BOOLEAN]]

\* Only the control task does handshakes and shutdowns.  What is in flight on
\* an engine is on the one that is there; a handshake is where it would be
\* started now.
Placed(s) ==
  /\ op[s].at # "idle" => (op[s].kind = "transfer" <=> s # Control)
  /\ op[s].at # "pending" => op[s].on = "none"
  /\ op[s].on \in Engines => op[s].on = tls
  /\ s = Control /\ op[s].at = "pending" => op[s].on = Layer(s)

IInv == TypeOK /\ (\A s \in Tasks : Placed(s)) /\ SecureWhenTold

(* A layer is an engine, the connection or none, and it is the engine      *)
(* whenever there is one (stream.hpp:208-286).                             *)
LEMMA LayerIs ==
  ASSUME TypeOK, NEW s \in Tasks
  PROVE  /\ Layer(s) \in Layers
         /\ tls # NoEngine => Layer(s) = tls
         /\ tls = NoEngine => Layer(s) \in {"tcp", "immediate"}
         /\ Layer(s) \in Engines => Layer(s) = tls
BY EnginesAssumption DEF TypeOK, Layer, Layers

(* Nothing is in flight in the beginning, and nothing was told.            *)
LEMMA InitInv == Init => IInv
<1> SUFFICES ASSUME Init PROVE IInv
  OBVIOUS
<1>1. TypeOK
  BY DEF Init, TypeOK, Idle, Kinds, Layers
<1>2. ASSUME NEW s \in Tasks PROVE Placed(s)
  BY EnginesAssumption DEF Init, Placed, Idle
<1>3. SecureWhenTold
  BY DEF Init, SecureWhenTold
<1>4. QED
  BY <1>1, <1>2, <1>3 DEF IInv

(* A step that leaves the mode and the operations of others alone keeps    *)
(* the invariant if it does for the task that takes it.                    *)
LEMMA OneTask ==
  ASSUME IInv, NEW s \in Tasks, NEW o, OpOK(o), op' = [op EXCEPT ![s] = o],
         UNCHANGED tls, Placed(s)'
  PROVE  OpsOK' /\ \A u \in Tasks : Placed(u)'
<1>1. OpsOK'
  BY DEF IInv, TypeOK, OpOK, OpsOK
<1>3. ASSUME NEW u \in Tasks, u # s PROVE Placed(u)'
  <2>1. op'[u] = op[u] /\ tls' = tls /\ Placed(u)
    BY <1>3 DEF IInv, TypeOK
  <2>2. QED
    BY <2>1 DEF Placed, Layer
<1>4. QED
  BY <1>1, <1>3

(* A piece begins on the layer of the moment (stream.hpp:209-286).         *)
LEMMA BeginKeeps ==
  ASSUME IInv, NEW s \in Tasks, Begins(s, Layer(s)), op[s].at # "idle",
         op[s].at = "deferred" \/ op[s].kind = "transfer"
  PROVE  IInv'
<1> DEFINE o == [op[s] EXCEPT !.at = "pending", !.on = Layer(s),
                              !.timed = deadline /\ Layer(s) # "immediate"]
<1>1. op' = [op EXCEPT ![s] = o]
  BY DEF Begins, IInv, TypeOK
<1>2. OpOK(o)
  BY LayerIs DEF IInv, TypeOK, OpOK
<1>3. o.at = "pending" /\ o.on = Layer(s) /\ o.kind = op[s].kind
  BY DEF IInv, TypeOK
<1> HIDE DEF o
<1>4. op'[s] = o /\ UNCHANGED tls
  BY <1>1 DEF Begins, IInv, TypeOK
<1>5. Layer(s)' = Layer(s)
  BY <1>3, <1>4 DEF Layer
<1>7. Placed(s)'
  BY <1>3, <1>4, <1>5, LayerIs DEF IInv, Placed
<1>8. TypeOK' /\ \A u \in Tasks : Placed(u)'
  BY <1>1, <1>2, <1>4, <1>7, OneTask DEF Begins, IInv, TypeOK, OpsOK
<1>9. SecureWhenTold'
  BY DEF Begins, IInv, SecureWhenTold
<1>10. QED
  BY <1>8, <1>9 DEF IInv

(* An operation ends and leaves nothing behind.                            *)
LEMMA EndKeeps ==
  ASSUME IInv, NEW s \in Tasks, Ends(s), UNCHANGED tls
  PROVE  OpsOK' /\ \A u \in Tasks : Placed(u)'
<1>1. OpOK(Idle)
  BY DEF OpOK, Idle, Kinds
<1>2. op'[s] = Idle
  BY DEF Ends, IInv, TypeOK
<1>3. Placed(s)'
  BY <1>2, EnginesAssumption DEF Placed, Idle
<1>4. op' = [op EXCEPT ![s] = Idle]
  BY DEF Ends
<1>5. QED
  BY <1>1, <1>3, <1>4, OneTask

(* A handshake that is reported done secured the engine that is there, or  *)
(* there is none (stream.hpp:209-217).                                     *)
LEMMA CompleteKeeps ==
  ASSUME IInv, NEW s \in Tasks, Complete(s)
  PROVE  IInv'
<1>1. UNCHANGED tls /\ Ends(s)
  BY DEF Complete
<1>2. secure' \in SUBSET Engines /\ told' \in BOOLEAN /\ UNCHANGED <<deadline, open>>
  BY DEF Complete, IInv, TypeOK
<1>3. TypeOK' /\ \A u \in Tasks : Placed(u)'
  BY <1>1, <1>2, EndKeeps DEF IInv, TypeOK, OpsOK
<1>4. SecureWhenTold'
  <2> SUFFICES ASSUME told', tls # NoEngine PROVE tls \in secure'
    BY <1>1 DEF SecureWhenTold
  <2>1. CASE op[s].kind = "handshake"
    <3>1. op[s].at = "pending" /\ s = Control
      BY <2>1 DEF Complete, IInv, Placed
    <3>2. op[s].on = tls
      BY <3>1, LayerIs DEF IInv, Placed
    <3>3. QED
      BY <2>1, <3>2 DEF Complete, IInv, TypeOK
  <2>2. CASE op[s].kind # "handshake"
    BY <2>2 DEF Complete, IInv, SecureWhenTold
  <2>3. QED
    BY <2>1, <2>2
<1>5. QED
  BY <1>3, <1>4 DEF IInv

(* The mode changes under nothing that is on an engine, nor under a        *)
(* handshake (stream.hpp:90-99).                                           *)
LEMMA ModeKeeps ==
  ASSUME IInv, MayChangeMode, UNCHANGED op,
         NEW s \in Tasks
  PROVE  Placed(s)'
<1>1. Placed(s)
  BY DEF IInv
<1>2. op[s].on \notin Engines
  BY <1>1, EnginesAssumption DEF Placed, MayChangeMode, IInv, TypeOK
<1>3. s = Control => op[s].at # "pending"
  BY DEF MayChangeMode
<1>4. QED
  BY <1>1, <1>2, <1>3 DEF Placed

(* Every step keeps the invariant.                                         *)
LEMMA StepInv == IInv /\ [Next]_vars => IInv'
<1> SUFFICES ASSUME IInv, [Next]_vars PROVE IInv'
  OBVIOUS
<1>1. CASE Downgrade
  <2>1. TypeOK'
    BY <1>1 DEF Downgrade, IInv, TypeOK
  <2>2. \A s \in Tasks : Placed(s)'
    BY <1>1, ModeKeeps DEF Downgrade
  <2>3. SecureWhenTold'
    BY <1>1 DEF Downgrade, SecureWhenTold
  <2>4. QED
    BY <2>1, <2>2, <2>3 DEF IInv
<1>2. ASSUME NEW e \in Engines, Upgrade(e) PROVE IInv'
  <2>1. TypeOK'
    BY <1>2 DEF Upgrade, IInv, TypeOK
  <2>2. \A s \in Tasks : Placed(s)'
    BY <1>2, ModeKeeps DEF Upgrade
  <2>3. SecureWhenTold'
    BY <1>2 DEF Upgrade, SecureWhenTold
  <2>4. QED
    BY <2>1, <2>2, <2>3 DEF IInv
<1>3. ASSUME NEW set \in BOOLEAN, Expires(set) PROVE IInv'
  BY <1>3 DEF Expires, IInv, TypeOK, Placed, Layer, SecureWhenTold
<1>4. ASSUME NEW s \in Tasks, NEW k \in Kinds, Call(s, k) PROVE IInv'
  <2> DEFINE o == [Idle EXCEPT !.at = "deferred", !.kind = k, !.made = tls]
  <2>1. OpOK(o) /\ o.at = "deferred" /\ o.on = "none" /\ o.kind = k
    BY DEF IInv, TypeOK, OpOK, Idle
  <2>2. op' = [op EXCEPT ![s] = o]
    BY <1>4 DEF Call, IInv, TypeOK, Placed
  <2> HIDE DEF o
  <2>3. op'[s] = o
    BY <2>2 DEF IInv, TypeOK
  <2>4. Placed(s)'
    BY <1>4, <2>1, <2>3, EnginesAssumption DEF Placed, Call
  <2>5. UNCHANGED <<tls, secure, told, deadline, open>>
    BY <1>4 DEF Call
  <2>6. OpsOK' /\ \A u \in Tasks : Placed(u)'
    BY <2>1, <2>2, <2>4, <2>5, OneTask
  <2>7. TypeOK' /\ SecureWhenTold'
    BY <2>5, <2>6 DEF IInv, TypeOK, OpsOK, SecureWhenTold
  <2>8. QED
    BY <2>6, <2>7 DEF IInv
<1>5. ASSUME NEW s \in Tasks, Discard(s) PROVE IInv'
  <2>1. Ends(s)
    BY <1>5 DEF Discard, Ends, IInv, TypeOK, Placed
  <2>2. TypeOK' /\ \A u \in Tasks : Placed(u)'
    BY <1>5, <2>1, EndKeeps DEF Discard, IInv, TypeOK, OpsOK
  <2>3. QED
    BY <1>5, <2>2 DEF Discard, IInv, SecureWhenTold
<1>6. ASSUME NEW s \in Tasks, Initiate(s) PROVE IInv'
  BY <1>6, BeginKeeps DEF Initiate
<1>7. ASSUME NEW s \in Tasks, Continue(s) PROVE IInv'
  BY <1>7, BeginKeeps DEF Continue
<1>8. ASSUME NEW s \in Tasks, Complete(s) PROVE IInv'
  BY <1>8, CompleteKeeps
<1>9. ASSUME NEW s \in Tasks, Fail(s) \/ Timeout(s) PROVE IInv'
  <2>1. TypeOK' /\ \A u \in Tasks : Placed(u)'
    BY <1>9, EndKeeps DEF Fail, Timeout, IInv, TypeOK, OpsOK
  <2>2. QED
    BY <1>9, <2>1 DEF Fail, Timeout, IInv, SecureWhenTold
<1>10. CASE UNCHANGED vars
  BY <1>10 DEF vars, IInv, TypeOK, Placed, Layer, SecureWhenTold
<1>11. QED
  BY <1>1, <1>2, <1>3, <1>4, <1>5, <1>6, <1>7, <1>8, <1>9, <1>10 DEF Next

(* The inductive invariant holds throughout.                               *)
THEOREM Inductive == Spec => []IInv
<1>1. QED
  BY InitInv, StepInv, PTL DEF Spec

(* The variables keep to their types.                                      *)
THEOREM TypeCorrect == Spec => []TypeOK
<1>1. IInv => TypeOK
  BY DEF IInv
<1>2. QED
  BY <1>1, Inductive, PTL

(* No operation is in flight on an engine that was destroyed.              *)
THEOREM OnLivingEngine == Spec => []EngineAlive
<1>1. IInv => EngineAlive
  BY DEF IInv, Placed, EngineAlive
<1>2. QED
  BY <1>1, Inductive, PTL

(* A handshake reported done since the mode changed secured the engine.    *)
THEOREM Secured == Spec => []SecureWhenTold
<1>1. IInv => SecureWhenTold
  BY DEF IInv
<1>2. QED
  BY <1>1, Inductive, PTL

(* While TLS is engaged, every piece that begins goes through it.          *)
THEOREM ThroughTls == Spec => TlsWhenEngaged
<1> DEFINE A == \A s \in Tasks : tls # NoEngine /\ op'[s].at = "pending" /\ op'[s] # op[s] =>
                  op'[s].on = tls
<1>1. IInv /\ [Next]_vars => [A]_vars
  <2> SUFFICES ASSUME IInv, Next, NEW s \in Tasks, tls # NoEngine,
                      op'[s].at = "pending", op'[s] # op[s]
               PROVE  op'[s].on = tls
    BY DEF vars
  <2>1. ASSUME NEW u \in Tasks, Begins(u, Layer(u)) PROVE op'[s].on = tls
    <3>1. u = s
      BY <2>1 DEF Begins, IInv, TypeOK
    <3>2. op'[s].on = Layer(s)
      BY <2>1, <3>1 DEF Begins, IInv, TypeOK
    <3>3. QED
      BY <3>2, LayerIs DEF IInv
  <2>2. ASSUME NEW u \in Tasks, Ends(u) PROVE FALSE
    BY <2>2 DEF Ends, Idle, IInv, TypeOK
  <2>3. ASSUME NEW u \in Tasks, NEW k \in Kinds, Call(u, k) PROVE FALSE
    BY <2>3 DEF Call, Idle, IInv, TypeOK
  <2>4. ASSUME NEW u \in Tasks, Discard(u) PROVE FALSE
    BY <2>4 DEF Discard, Idle, IInv, TypeOK
  <2>5. QED
    BY <2>1, <2>2, <2>3, <2>4
       DEF Next, Downgrade, Upgrade, Expires, Initiate, Continue, Complete, Fail, Timeout
<1>2. QED
  BY <1>1, Inductive, PTL DEF Spec, TlsWhenEngaged
=============================================================================
