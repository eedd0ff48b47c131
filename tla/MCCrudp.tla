------------------------------- MODULE MCCrudp -------------------------------
(* Small instances of Crudp for TLC.                                       *)
EXTENDS Crudp

(* Two messages from the client and one from the server: enough for one    *)
(* message to overtake another, for the parts of two groups to interleave, *)
(* and for acks to travel back and be lost.                                *)
TwoAndOne == [p \in Ends |-> IF p = "client" THEN 2 ELSE 1]

(* A third message finds the queue of an unresponsive link full.           *)
ThreeAndOne == [p \in Ends |-> IF p = "client" THEN 3 ELSE 1]
==============================================================================
