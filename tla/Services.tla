------------------------------ MODULE Services ------------------------------
(***************************************************************************)
(* What the players of one game server do with each other: trade, write    *)
(* mail, team up.  The three share no state but who is on the map          *)
(* (Presence), and none of them changes it; a behaviour of this module is  *)
(* one of a single service, so that one run goes through all of them.      *)
(***************************************************************************)
EXTENDS Trade, Mail, Team

CONSTANTS FirstGoods,  \* what a character comes with
          Stocks,      \* what the store may have
          Passing,     \* with which stocks traders leave; else they stay
          CastOf       \* how many characters a service is checked with

ASSUME ServicesAssumption ==
    /\ FirstGoods \subseteq Goods
    /\ Stocks \subseteq SUBSET (Enhancements \union Inspirations)

VARIABLES service,  \* the service this behaviour is about
          cast,     \* the characters in it
          stock     \* what the store has

Kinds == {"trade", "mail", "team"}

tradeOnly == <<trade, trades, goods, firm>>

mailOnly == <<clients, mails, dbmails, mailq, maildb, bus, shown, awaiting,
              written, habit, crashed>>

teamOnly == <<teams, known, lfg, pending, teamq, router, view, offer, left,
              manner, teamFailed>>

vars == <<here, tradeOnly, mailOnly, teamOnly, service, cast, stock>>

(* A behaviour has one habit and one manner at most.                       *)
OneOf(S) == {{}} \union {{x} : x \in S}

Init ==
    /\ service \in Kinds
    /\ cast \in {C \in SUBSET Characters : Cardinality(C) = CastOf[service]}
    /\ stock \in IF service = "trade" THEN Stocks ELSE {{}}
    /\ habit \in IF service = "mail" THEN OneOf(Habits) ELSE {{}}
    /\ manner \in IF service = "team" THEN OneOf(Manners) ELSE {{}}
    /\ here = ThereAtStart
    /\ TradeInit /\ MailInit /\ TeamInit
    /\ goods \in [Characters -> FirstGoods]

Next ==
    \/ /\ service = "trade"
       /\ TradeNext(cast, IF stock \in Passing THEN cast ELSE {}, stock)
       /\ UNCHANGED <<mailOnly, teamOnly, service, cast, stock>>
    \/ /\ service = "mail"
       /\ MailNext(cast)
       /\ UNCHANGED <<tradeOnly, teamOnly, service, cast, stock>>
    \/ /\ service = "team"
       /\ TeamNext(cast)
       /\ UNCHANGED <<tradeOnly, mailOnly, service, cast, stock>>

Spec == Init /\ [][Next]_vars

-----------------------------------------------------------------------------
(* The type invariant of the services.                                     *)
ServicesTypeOK ==
    /\ TradeTypeOK /\ MailTypeOK /\ TeamTypeOK
    /\ service \in Kinds /\ cast \subseteq Characters
    /\ stock \subseteq Enhancements \union Inspirations

(* In the behaviours that are about mail, what the service knows of a      *)
(* client follows its presence on the map.                                 *)
MailFollowsPresence == service = "mail" => EntryFollowsPresence
=============================================================================
