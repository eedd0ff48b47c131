--------------------------- MODULE MCMapSessions ---------------------------
EXTENDS MapSessions, TLC

Plan(logins, moves) == [logins |-> logins, moves |-> moves]

(* Everybody logs in once and stays, or somebody alone logs in twice or    *)
(* goes to another map and on.                                             *)
SomePlans ==
    {[a \in Accounts |-> Plan(1, 0)]}
    \union UNION {{[a \in Accounts |-> IF a = b THEN p ELSE Plan(0, 0)]
                      : p \in {Plan(2, 1), Plan(1, 2)}} : b \in Accounts}

Symm == Permutations(Accounts) \union Permutations(Maps)
=============================================================================
