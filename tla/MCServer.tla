------------------------------ MODULE MCServer ------------------------------
(***************************************************************************)
(* The instance of Handover without faults, and that of Processes: they    *)
(* share no state, and a behaviour is one of the sessions or of the        *)
(* threads.                                                                *)
(***************************************************************************)
EXTENDS Handover, Processes

VARIABLE about   \* "sessions" or "threads"

MCInit ==
    /\ Init /\ ProcessesInit
    /\ about \in {"sessions", "threads"}
    /\ about = "sessions" => broken = {}

MCNext ==
    \/ about = "sessions" /\ Next /\ UNCHANGED <<processes, about>>
    \/ about = "threads" /\ ProcessesNext /\ UNCHANGED <<vars, about>>

MCSpec == MCInit /\ [][MCNext]_<<vars, processes, about>>

Symm == Permutations(Clients)
=============================================================================
