-------------------------------- MODULE Service --------------------------------
(***************************************************************************)
(* What a client may rely on, without lanes, queues or threads: the worker *)
(* accepts requests in order of their ids and answers each one exactly     *)
(* once, in any order, until it stops; the answer to a shutdown comes after*)
(* every other answer, and then nothing does.                              *)
(***************************************************************************)
EXTENDS Naturals

VARIABLES
    accepted,     (* the number of requests accepted: their ids are 1, 2, ... *)
    answered,     (* the ids answered                                         *)
    stopping      (* the id of the shutdown request, or 0                     *)

serviceVars == <<accepted, answered, stopping>>

ServiceInit == accepted = 0 /\ answered = {} /\ stopping = 0

Accept ==
    /\ stopping = 0
    /\ accepted' = accepted + 1
    /\ stopping' \in {0, accepted'}
    /\ UNCHANGED answered

AnswerTo(id) ==
    /\ id \in 1 .. accepted \ answered
    /\ id = stopping => answered = 1 .. accepted \ {id}
    /\ answered' = answered \cup {id}
    /\ UNCHANGED <<accepted, stopping>>

ServiceNext == Accept \/ \E id \in 1 .. accepted : AnswerTo(id)

ServiceSpec == ServiceInit /\ [][ServiceNext]_serviceVars
=============================================================================
