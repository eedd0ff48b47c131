----------------------------- MODULE FifoChannel -----------------------------
(***************************************************************************)
(* What a CRUDP link promises to the code above it: in each direction the  *)
(* messages handed to the link come out at the other end in order, each at *)
(* most once, and nothing comes out that was not handed in.  Nothing is    *)
(* said here of how long that takes, or of packets and acknowledgements.   *)
(*                                                                         *)
(* Crudp.tla (Common/CRUDP_Protocol) is shown to implement this module.    *)
(***************************************************************************)
EXTENDS Naturals, Sequences

CONSTANT Ends          \* the two ends of the link
CONSTANT Far(_)        \* the end opposite to a given one

VARIABLES offered,     \* offered[p]: the messages end p handed to its link
          obtained     \* obtained[p]: the messages end p was given by its link

vars == <<offered, obtained>>

Init == /\ offered = [p \in Ends |-> <<>>]
        /\ obtained = [p \in Ends |-> <<>>]

(* End p hands over one more message; which one is up to the application.  *)
Submit(p) ==
    /\ Len(offered'[p]) = Len(offered[p]) + 1
    /\ \A i \in DOMAIN offered[p] : offered'[p][i] = offered[p][i]
    /\ offered' = [offered EXCEPT ![p] = offered'[p]]
    /\ UNCHANGED obtained

(* End p is given the oldest message of the other end it has not had yet.  *)
Deliver(p) ==
    /\ Len(obtained[p]) < Len(offered[Far(p)])
    /\ obtained' = [obtained EXCEPT
                      ![p] = Append(@, offered[Far(p)][Len(@) + 1])]
    /\ UNCHANGED offered

Next == \E p \in Ends : Submit(p) \/ Deliver(p)

Spec == Init /\ [][Next]_vars
==============================================================================
