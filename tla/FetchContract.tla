---------------------------- MODULE FetchContract ----------------------------
(***************************************************************************)
(* What upstream.fetch and upstream.fetchBytes promise their callers, with *)
(* no network, no watchdog and no memo of clients: a call ends, once, in   *)
(* an artifact within the limit, in "gone" or in an error, and the only    *)
(* file it leaves behind is the staged copy of an artifact its caller has  *)
(* not closed yet.  Fetch.tla is shown to implement this.                  *)
(***************************************************************************)
EXTENDS Naturals

CONSTANTS
    Fetches,    \* calls of fetch and fetchBytes, each run by one goroutine
    Staged,     \* the calls of fetch, which stage the body in a file
    Limit       \* Limit[f]: the bytes call f accepts

VARIABLES
    result,     \* "idle", "running", "artifact", "gone", "error", "closed"
    size,       \* bytes delivered with an artifact
    held        \* calls that are over and whose file is on disk

contractVars == <<result, size, held>>

ContractInit ==
    /\ result = [f \in Fetches |-> "idle"]
    /\ size = [f \in Fetches |-> 0]
    /\ held = {}

Call(f) ==
    /\ result[f] = "idle"
    /\ result' = [result EXCEPT ![f] = "running"]
    /\ UNCHANGED <<size, held>>

Deliver(f) ==
    /\ result[f] = "running"
    /\ result' = [result EXCEPT ![f] = "artifact"]
    /\ \E n \in 0..Limit[f] : size' = [size EXCEPT ![f] = n]
    /\ held' = held \cup ({f} \cap Staged)

Refuse(f) ==
    /\ result[f] = "running"
    /\ \E why \in {"gone", "error"} : result' = [result EXCEPT ![f] = why]
    /\ UNCHANGED <<size, held>>

Release(f) ==
    /\ f \in held
    /\ result[f] = "artifact"
    /\ result' = [result EXCEPT ![f] = "closed"]
    /\ held' = held \ {f}
    /\ UNCHANGED size

ContractNext ==
    \E f \in Fetches : Call(f) \/ Deliver(f) \/ Refuse(f) \/ Release(f)

\* The safety half of the promise, and the whole of it: a call that was
\* started ends.
ContractSafety == ContractInit /\ [][ContractNext]_contractVars

ContractSpec ==
    /\ ContractSafety
    /\ \A f \in Fetches : WF_contractVars(Deliver(f) \/ Refuse(f))
=============================================================================
