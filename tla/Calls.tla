--------------------------------- MODULE Calls ---------------------------------
(***************************************************************************)
(* What a caller of the desktop supervisor may rely on.  A call is executed*)
(* at most once and settled at most once: by its answer, as not run, or,   *)
(* when the worker may have seen it, with an unknown outcome.  A call      *)
(* settled as not run is never executed.  Nothing is retried.              *)
(***************************************************************************)
EXTENDS Naturals, Sequences

VARIABLES
    outcomes,     (* of each call admitted on this connection, in order     *)
    executed      (* the calls the worker has executed                      *)

callsVars == <<outcomes, executed>>

CallsInit == outcomes = <<>> /\ executed = {}

Admission ==
    /\ outcomes' = Append(outcomes, "open")
    /\ UNCHANGED executed

Execution(id) ==
    /\ outcomes[id] # "not run" /\ id \notin executed
    /\ executed' = executed \cup {id}
    /\ UNCHANGED outcomes

Answering(id) ==
    /\ outcomes[id] = "open"
    /\ outcomes' = [outcomes EXCEPT ![id] = "answered"]
    /\ UNCHANGED executed

(* The connection fails: every open call is settled at once. *)
Failing ==
    /\ DOMAIN outcomes' = DOMAIN outcomes
    /\ \A id \in DOMAIN outcomes :
        IF outcomes[id] # "open" THEN outcomes'[id] = outcomes[id]
        ELSE outcomes'[id] = "unknown" \/ (outcomes'[id] = "not run" /\ id \notin executed)
    /\ UNCHANGED executed

(* A new connection and its first call, once every old call is settled. *)
Reconnection ==
    /\ \A id \in DOMAIN outcomes : outcomes[id] # "open"
    /\ outcomes' = <<"open">> /\ executed' = {}

CallsNext ==
    \/ Admission \/ Failing \/ Reconnection
    \/ \E id \in DOMAIN outcomes : Execution(id) \/ Answering(id)

CallsSpec == CallsInit /\ [][CallsNext]_callsVars
=============================================================================
