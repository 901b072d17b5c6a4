------------------------------- MODULE Stream -------------------------------
(***************************************************************************)
(* A TCP stream that can be upgraded to TLS in place.  Its operations      *)
(* choose a layer when they are initiated, a composed read or write anew   *)
(* for each of its pieces, while upgrade and downgrade create and destroy  *)
(* the TLS engine under them.  The layers themselves are Asio's and        *)
(* Beast's.                                                                *)
(***************************************************************************)
EXTENDS Integers

CONSTANTS
  Tasks,    \* who has an operation on the stream, at most one each
  Control,  \* the task that does handshakes and shutdowns
  Engines,  \* incarnations of the TLS layer
  NoEngine

ASSUME TasksAssumption == Control \in Tasks
ASSUME EnginesAssumption ==
  NoEngine \notin Engines /\ Engines \cap {"tcp", "immediate", "none"} = {}

VARIABLES
  tls,      \* tls_stream_: its engine, or NoEngine in plain mode
  op,       \* the operation of each task
  secure,   \* engines that completed a handshake
  told,     \* the last handshake since the mode changed was reported done
  deadline, \* whether expires_after or expires_at is in force
  open      \* a timeout closes the socket

vars == <<tls, op, secure, told, deadline, open>>

Layers == Engines \cup {"tcp", "immediate"}
Kinds == {"handshake", "shutdown", "transfer"}
Idle == [at |-> "idle", kind |-> "transfer", made |-> NoEngine, on |-> "none", timed |-> FALSE]

TypeOK ==
  /\ tls \in Engines \cup {NoEngine}
  /\ op \in [Tasks -> [at : {"idle", "deferred", "pending"}, kind : Kinds,
                       made : Engines \cup {NoEngine},
                       on : Layers \cup {"none"}, timed : BOOLEAN]]
  /\ secure \in SUBSET Engines
  /\ told \in BOOLEAN /\ deadline \in BOOLEAN /\ open \in BOOLEAN

Init ==
  /\ tls \in Engines \cup {NoEngine}
  /\ op = [s \in Tasks |-> Idle]
  /\ secure = {} /\ told = FALSE /\ deadline = FALSE /\ open = TRUE
-----------------------------------------------------------------------------
(* Operations. *)

\* async_handshake, async_shutdown, async_read_some or async_write_some: the
\* token makes an operation of it, which may be initiated at once, or later.
Call(s, k) ==
  /\ op[s].at = "idle" /\ (k = "transfer" <=> s # Control)
  /\ op' = [op EXCEPT ![s] = [Idle EXCEPT !.at = "deferred", !.kind = k, !.made = tls]]
  /\ UNCHANGED <<tls, secure, told, deadline, open>>

Discard(s) ==
  /\ op[s].at = "deferred"
  /\ op' = [op EXCEPT ![s] = Idle]
  /\ UNCHANGED <<tls, secure, told, deadline, open>>

\* Mutants: the layer is chosen when the operation is made; a transfer always
\* goes to the bare connection.
LayerWhenMade(s) ==
  CASE op[s].made # NoEngine -> op[s].made
    [] op[s].made = NoEngine /\ op[s].kind = "transfer" -> "tcp"
    [] OTHER -> "immediate"
TransfersPlainly(s) ==
  CASE op[s].kind = "transfer" -> "tcp"
    [] tls # NoEngine /\ op[s].kind # "transfer" -> tls
    [] OTHER -> "immediate"

\* The layer self->tls() leads to.
Layer(s) ==
  CASE tls # NoEngine -> tls
    [] tls = NoEngine /\ op[s].kind = "transfer" -> "tcp"
    [] OTHER -> "immediate"

\* A handshake, a shutdown, or the first or next piece of a transfer begins.
Begins(s, l) ==
  /\ op' = [op EXCEPT ![s].at = "pending", ![s].on = l,
                      ![s].timed = deadline /\ l # "immediate"]
  /\ UNCHANGED <<tls, secure, told, deadline, open>>

Initiate(s) == op[s].at = "deferred" /\ Begins(s, Layer(s))

\* The next piece of a composed transfer chooses its layer anew.
Continue(s) ==
  /\ op[s].at = "pending" /\ op[s].kind = "transfer" /\ open
  /\ Begins(s, Layer(s))

Ends(s) == op' = [op EXCEPT ![s] = Idle]

\* Mutant: what plain mode completes at once completes through the connection.
CompletesWhileOpen(s) ==
  /\ op[s].at = "pending" /\ open
  /\ Ends(s)
  /\ secure' = IF op[s].kind = "handshake" THEN secure \cup ({op[s].on} \cap Engines)
               ELSE secure
  /\ told' = (told \/ op[s].kind = "handshake")
  /\ UNCHANGED <<tls, deadline, open>>

\* A handshake that finds no engine is reported done as well.
Complete(s) ==
  /\ op[s].at = "pending" /\ (open \/ op[s].on = "immediate")
  /\ Ends(s)
  /\ secure' = IF op[s].kind = "handshake" THEN secure \cup ({op[s].on} \cap Engines)
               ELSE secure
  /\ told' = (told \/ op[s].kind = "handshake")
  /\ UNCHANGED <<tls, deadline, open>>

Fail(s) ==
  /\ op[s].at = "pending" /\ op[s].on # "immediate"
  /\ Ends(s)
  /\ UNCHANGED <<tls, secure, told, deadline, open>>

\* The deadline an operation began under passes: Beast closes the socket.
Timeout(s) ==
  /\ op[s].at = "pending" /\ op[s].timed
  /\ Ends(s)
  /\ open' = FALSE
  /\ UNCHANGED <<tls, secure, told, deadline>>

\* expires_after, expires_at and expires_never act on later operations.
Expires(set) ==
  /\ deadline' = set
  /\ UNCHANGED <<tls, op, secure, told, open>>
-----------------------------------------------------------------------------
(* The mode. *)

\* What the program keeps to: no operation is on the engine that goes, and no
\* handshake or shutdown is under way.  A plain read or write may be, and goes
\* on in the new mode.
MayChangeMode ==
  \A s \in Tasks :
    op[s].at = "pending" => s # Control /\ op[s].on \notin Engines

Upgrade(e) ==
  /\ MayChangeMode /\ e # tls
  /\ tls' = e
  /\ secure' = secure \ {e}
  /\ told' = FALSE
  /\ UNCHANGED <<op, deadline, open>>

Downgrade ==
  /\ MayChangeMode
  /\ tls' = NoEngine
  /\ told' = FALSE
  /\ UNCHANGED <<op, secure, deadline, open>>

Next ==
  \/ Downgrade \/ \E e \in Engines : Upgrade(e)
  \/ \E set \in BOOLEAN : Expires(set)
  \/ \E s \in Tasks :
       \/ \E k \in Kinds : Call(s, k)
       \/ Discard(s) \/ Initiate(s) \/ Continue(s)
       \/ Complete(s) \/ Fail(s) \/ Timeout(s)

Spec == Init /\ [][Next]_vars

\* An immediate completion runs, time passes, and a closed socket fails what is
\* on it; the peer owes nothing.
FairSpec ==
  /\ Spec
  /\ \A s \in Tasks :
       /\ WF_vars(op[s].on = "immediate" /\ Complete(s))
       /\ WF_vars(Timeout(s))
       /\ WF_vars(~open /\ Fail(s))
-----------------------------------------------------------------------------
(* An operation in flight on the TLS layer is on the engine that is there, *)
(* whatever was engaged when it was made: engines of earlier upgrades are  *)
(* destroyed, and plain operations go on undisturbed (stream.hpp:          *)
(* "upgrading and downgrading never move the underlying socket").          *)
EngineAlive == \A s \in Tasks : op[s].on \in Engines => op[s].on = tls

(* While TLS is engaged no operation starts on the bare connection, and no *)
(* later piece of one that plain mode began goes there.                    *)
TlsWhenEngaged ==
  [][\A s \in Tasks : tls # NoEngine /\ op'[s].at = "pending" /\ op'[s] # op[s] =>
       op'[s].on = tls]_vars

(* If the program lets its handshakes end before it changes the mode, one  *)
(* that was reported done has secured the engine that is engaged, although *)
(* in plain mode nothing was done ("callers can drive the same             *)
(* handshake/shutdown sequence regardless of mode").                       *)
SecureWhenTold == told /\ tls # NoEngine => tls \in secure

(* An operation that is under a deadline, or that plain mode completes at *)
(* once, ends whichever layer it is on and whatever the peer does, unless  *)
(* a later piece of it begins without a deadline; so does every operation  *)
(* once a timeout has closed the socket.                                   *)
EndsInTime ==
  \A s \in Tasks :
    /\ op[s].timed ~> ~op[s].timed
    /\ op[s].at = "pending" /\ (op[s].on = "immediate" \/ ~open) ~> op[s].at = "idle"
=============================================================================
