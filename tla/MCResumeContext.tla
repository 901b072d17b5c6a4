-------------------------- MODULE MCResumeContext --------------------------
(* Instance for TLC: coroutines that are members of one object.            *)
EXTENDS ResumeContext

CONSTANT owner

MCOwnerOf == [c \in Coros |-> owner]
=============================================================================
