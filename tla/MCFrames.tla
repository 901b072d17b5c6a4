------------------------------ MODULE MCFrames ------------------------------
(* Two io_contexts and strands over the first, for TLC.  Chain any makes    *)
(* every kind of move, chain queued only those that QueuedOnTheirExecutor   *)
(* is about; the smaller instances have one chain with a single weakness.   *)
EXTENDS Frames, TLC

CONSTANTS a, b, s, r, any, queued, ta1, ta2, tb

MCInner == [e \in AnyStrand |-> a]
MCThreadOf == [t \in Threads |-> IF t \in {ta1, ta2} THEN a ELSE IF t = tb THEN b ELSE NoExec]

\* The threads of one io_context are alike.
MCSymmetry == Permutations({ta1, ta2})

MCHops == [k \in Chains |-> IF k = any THEN {"post", "dispatch"} ELSE {"defer", "sleep"}]
MCRoot == [k \in Chains |-> IF k = any THEN {b} ELSE {b, s}]
MCCallee == [k \in Chains |-> IF k = any THEN {s, r} ELSE {s}]
MCDepth == [k \in Chains |-> IF k = any THEN 2 ELSE 3]

Dispatching == [k \in Chains |-> {"dispatch"}]
Posting == [k \in Chains |-> {"post"}]
To(targets) == [k \in Chains |-> targets]
ToA == To({a})
ToB == To({b})
ToStrand == To({s})
ToErased == To({r})
Deep(n) == [k \in Chains |-> n]
Flat == Deep(1)
Two == Deep(2)
=============================================================================
