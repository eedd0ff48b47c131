-------------------------------- MODULE Team --------------------------------
(***************************************************************************)
(* The team service: TeamHandler                                           *)
(* (src/Servers/GameServer/TeamService/TeamHandler.cpp), the Team of       *)
(* src/Common/GameData/Team.cpp and the team handlers of MapInstance.cpp.  *)
(*                                                                         *)
(* Handler and maps talk through a user router, of which the source has    *)
(* the messages only: it is taken to deliver them in order, to drop what   *)
(* is for somebody who is not there, and to answer a question after a name *)
(* when it has the answer.  The handlers are functions on the handler's    *)
(* state, since the answer to a question has kept events handled again.    *)
(***************************************************************************)
EXTENDS Presence, Naturals, Sequences, FiniteSets, SequencesExt

CONSTANTS NoLeader,     \* no character
          MaxTeam,      \* m_max_team_size, 8 in the code
          MaxQueued,    \* bound on what a command finds on its way
          MaxAsked,     \* bound on the invitations that wait for one name
          Manners       \* what players do besides teaming up:
                        \* "hasty"   act before the last command is handled
                        \* "leave"   they leave the map, for good
                        \* "looking" look for a team

ASSUME TeamAssumption ==
    /\ NoLeader \notin Characters
    /\ MaxTeam \in Nat \ {0, 1} /\ MaxQueued \in Nat /\ MaxAsked \in Nat
    /\ Manners \subseteq {"hasty", "leave", "looking"}

VARIABLES teams,    \* m_team_list
          known,    \* m_id_to_name, name and id being the same here
          lfg,      \* m_lfg_list
          pending,  \* m_pending_events: by unknown name, who invites it
          teamq,    \* the handler's queue
          router,   \* messages on their way to the maps
          view,     \* m_team of each character's entity
          offer,    \* whose offer is on each client's screen
          left,     \* who has left the map
          manner,   \* what the players of this behaviour do
          teamFailed  \* a map was told to do something for no session

teamVars == <<here, teams, known, lfg, pending, teamq, router, view, offer,
              left, manner, teamFailed>>

Invitations == [leader : Characters, invitee : Characters]

NoView == [leader |-> NoLeader, members |-> << >>]

TeamMembers == [who : Characters, pending : BOOLEAN]

TeamEvents ==
    [type : {"Invited"}, leader : Characters, invitee : Characters]
    \union [type : {"Handled"}, leader : Characters, invitee : Characters, accepted : BOOLEAN]
    \union [type : {"Kicked", "MakeLeader"}, leader : Characters, who : Characters]
    \union [type : {"Leave", "ToggleLFG", "Response"}, who : Characters]

RouterMessages ==
    [type : {"Offer"}, leader : Characters, who : Characters]
    \union [type : {"Kicked", "Left", "Query"}, who : Characters]
    \union [type : {"ToggleLFG"}, token : Characters \union {NoLeader}]
    \union [type : {"Updated"}, leader : Characters, members : Seq(Characters)]

(* The type invariant of the teams.                                        *)
TeamTypeOK ==
    /\ teams \in Seq([leader : Characters, members : Seq(TeamMembers)])
    /\ known \subseteq Characters /\ lfg \subseteq Characters
    /\ pending \in [Characters -> Seq(Invitations)]
    /\ teamq \in Seq(TeamEvents)
    /\ router \in Seq(RouterMessages)
    /\ view \in [Characters -> [leader  : Characters \union {NoLeader},
                                members : Seq(Characters)]]
    /\ offer \in [Characters -> Characters \union {NoLeader}]
    /\ left \subseteq Characters /\ manner \subseteq Manners
    /\ teamFailed \in BOOLEAN

-----------------------------------------------------------------------------
(* A team                                                                  *)

containsEntityID(t, c) == \E i \in DOMAIN t.members : t.members[i].who = c

isNamePending(t, c) == [who |-> c, pending |-> TRUE] \in ToSet(t.members)

isFull(t) == Len(t.members) >= MaxTeam

(* The names of those who have answered, in the order of the team          *)
AddName(names, m) == IF m.pending THEN names ELSE Append(names, m.who)

Confirmed(t) == FoldLeft(AddName, << >>, t.members)

acceptTeamInvite(t, c) ==
    [t EXCEPT !.members =
        [i \in DOMAIN @ |-> IF @[i].who = c THEN [@[i] EXCEPT !.pending = FALSE] ELSE @[i]]]

addTeamMember(t, c, waits) ==
    IF isFull(t) THEN t
    ELSE [t EXCEPT !.members = Append(@, [who |-> c, pending |-> waits])]

(* A team of one is about to be dissolved: it keeps the leader it had.     *)
MutRemoveTeamMember(t, c) ==
    [t EXCEPT !.members = RemoveFirstMatch(t.members, LAMBDA m : m.who = c)]

removeTeamMember(t, c) ==
    LET rest == RemoveFirstMatch(t.members, LAMBDA m : m.who = c)
    IN  [leader  |-> IF c = t.leader /\ Len(rest) >= 2 THEN Head(rest).who ELSE t.leader,
         members |-> rest]

Disbanded(t) == Len(t.members) < 2

-----------------------------------------------------------------------------
(* The handler's state, and what its handlers make of it                   *)

State == [teams |-> teams, known |-> known, lfg |-> lfg, pending |-> pending,
          out |-> router]

Forward(h, msg) == [h EXCEPT !.out = Append(@, msg)]

FirstLedBy(h, c) == SelectInSeq(h.teams, LAMBDA t : t.leader = c)

FirstWith(h, c) == SelectInSeq(h.teams, LAMBDA t : containsEntityID(t, c))

LastWith(h, c) == SelectLastInSeq(h.teams, LAMBDA t : containsEntityID(t, c))

(* Whoever is on the team stops looking for one; the message that says so  *)
(* to the map has the session token of the event that is handled.          *)
notify_team_of_changes(h, t, token) ==
    LET names == Confirmed(t)
        found == Cardinality(ToSet(names) \intersect h.lfg)
    IN  [h EXCEPT !.lfg = @ \ ToSet(names),
                  !.out = (@ \o [i \in 1..found |-> [type |-> "ToggleLFG", token |-> token]])
                          \o <<[type |-> "Updated", leader |-> t.leader, members |-> names]>>]

(* The n-th team is now t, or is deleted.                                  *)
WithTeam(h, n, t) ==
    [h EXCEPT !.teams = IF Disbanded(t) THEN RemoveAt(@, n) ELSE ReplaceAt(@, n, t)]

RefusesInvitation(h, l, c) ==
    LET n == LastWith(h, l)
    IN  \/ c = l
        \/ n # 0 /\ (h.teams[n].leader # l \/ isFull(h.teams[n]))
        \/ LastWith(h, c) # 0

MutInvitedTo(h, l, c) ==
    LET lead == [leader |-> l, members |-> <<[who |-> l, pending |-> FALSE]>>]
    IN  Forward([h EXCEPT !.teams = Append(@, addTeamMember(lead, c, TRUE))],
                [type |-> "Offer", leader |-> l, who |-> c])

(* A leader without a team gets one.                                       *)
InvitedTo(h, l, c) ==
    LET n    == LastWith(h, l)
        lead == [leader |-> l, members |-> <<[who |-> l, pending |-> FALSE]>>]
    IN  Forward(IF n = 0
                THEN [h EXCEPT !.teams = Append(@, addTeamMember(lead, c, TRUE))]
                ELSE [h EXCEPT !.teams[n] = addTeamMember(@, c, TRUE)],
                [type |-> "Offer", leader |-> l, who |-> c])

MutInvited(h0, l, c) ==
    LET h == [h0 EXCEPT !.known = @ \union {l}]
    IN  IF c \notin h.known THEN Forward(h, [type |-> "Query", who |-> c])
        ELSE IF RefusesInvitation(h, l, c) THEN h
        ELSE InvitedTo(h, l, c)

on_team_member_invited(h0, l, c) ==
    LET h == [h0 EXCEPT !.known = @ \union {l}]
    IN  CASE c \notin h.known ->
                Forward([h EXCEPT !.pending[c] = Append(@, [leader |-> l, invitee |-> c])],
                        [type |-> "Query", who |-> c])
          [] c \in h.known /\ RefusesInvitation(h, l, c) -> h
          [] OTHER -> InvitedTo(h, l, c)

(* The event of an invitation that has waited is handled again.            *)
dispatch(h, ev) == on_team_member_invited(h, ev.leader, ev.invitee)

(* The second answer to a name asked for twice finds nothing waiting: the  *)
(* assertion against it is taken as compiled out.                          *)
on_user_router_query_response(h, c) ==
    LET again == FoldLeft(dispatch, [h EXCEPT !.known = @ \union {c}], h.pending[c])
    IN  [again EXCEPT !.pending[c] = << >>]

(* c is taken off the n-th team, which the maps hear of.                   *)
Removed(h, n, c, type) ==
    LET t == removeTeamMember(h.teams[n], c)
    IN  WithTeam(notify_team_of_changes(Forward(h, [type |-> type, who |-> c]), t, NoLeader), n, t)

on_team_member_kicked(h, l, c) ==
    LET n == FirstLedBy(h, l)
    IN  IF n # 0 /\ containsEntityID(h.teams[n], c) THEN Removed(h, n, c, "Kicked") ELSE h

on_team_leave_team(h, c) ==
    LET n == FirstWith(h, c) IN IF n # 0 THEN Removed(h, n, c, "Left") ELSE h

MutMakeLeader(h, l, c) ==
    LET n == FirstLedBy(h, l)
    IN  IF n # 0 /\ containsEntityID(h.teams[n], c) /\ ~isNamePending(h.teams[n], c)
        THEN [h EXCEPT !.teams[n].leader = c]
        ELSE h

(* Members are known, so that no name has to be looked up first.           *)
on_team_member_make_leader(h, l, c) ==
    LET n == FirstLedBy(h, l)
    IN  IF n # 0 /\ containsEntityID(h.teams[n], c) /\ ~isNamePending(h.teams[n], c)
        THEN LET t == [h.teams[n] EXCEPT !.leader = c]
             IN  notify_team_of_changes(WithTeam(h, n, t), t, NoLeader)
        ELSE h

(* An answer counts while the invitation is pending and its leader leads.  *)
on_team_member_invite_handled(h, c, l, accepted) ==
    LET n == LastWith(h, c)
    IN  IF n = 0 \/ h.teams[n].leader # l \/ ~isNamePending(h.teams[n], c) THEN h
        ELSE IF accepted
        THEN LET t == acceptTeamInvite(h.teams[n], c)
             IN  notify_team_of_changes(WithTeam(h, n, t), t, c)
        ELSE WithTeam(h, n, removeTeamMember(h.teams[n], c))

MutToggleLFG(h, c) ==
    LET told == Forward(h, [type |-> "ToggleLFG", token |-> c])
    IN  IF c \in h.lfg THEN [told EXCEPT !.lfg = @ \ {c}]
        ELSE [told EXCEPT !.lfg = @ \union {c}]

on_team_toggle_lfg(h, c) ==
    LET n    == LastWith(h, c)
        told == Forward(h, [type |-> "ToggleLFG", token |-> c])
    IN  IF c \in h.lfg THEN [told EXCEPT !.lfg = @ \ {c}]
        ELSE IF n # 0 /\ ~isNamePending(h.teams[n], c) THEN h
        ELSE [told EXCEPT !.lfg = @ \union {c}]

-----------------------------------------------------------------------------
(* The handler takes the first event of its queue.                         *)

Becomes(h) ==
    /\ teams' = h.teams /\ known' = h.known /\ lfg' = h.lfg
    /\ pending' = h.pending /\ router' = h.out

Takes(type) ==
    /\ ~teamFailed
    /\ teamq # << >> /\ Head(teamq).type = type
    /\ teamq' = Tail(teamq)
    /\ UNCHANGED <<here, view, offer, left, manner>>

HandlesInvited ==
    /\ Takes("Invited")
    /\ Becomes(on_team_member_invited(State, Head(teamq).leader, Head(teamq).invitee))
    /\ UNCHANGED teamFailed

HandlesKicked ==
    /\ Takes("Kicked")
    /\ Becomes(on_team_member_kicked(State, Head(teamq).leader, Head(teamq).who))
    /\ UNCHANGED teamFailed

HandlesMakeLeader ==
    /\ Takes("MakeLeader")
    /\ Becomes(on_team_member_make_leader(State, Head(teamq).leader, Head(teamq).who))
    /\ UNCHANGED teamFailed

HandlesLeave ==
    /\ Takes("Leave")
    /\ Becomes(on_team_leave_team(State, Head(teamq).who))
    /\ UNCHANGED teamFailed

HandlesAnswer ==
    /\ Takes("Handled")
    /\ Becomes(on_team_member_invite_handled(State, Head(teamq).invitee, Head(teamq).leader,
                                             Head(teamq).accepted))
    /\ UNCHANGED teamFailed

HandlesToggleLFG ==
    /\ Takes("ToggleLFG")
    /\ Becomes(on_team_toggle_lfg(State, Head(teamq).who))
    /\ UNCHANGED teamFailed

HandlesResponse ==
    /\ Takes("Response")
    /\ Becomes(on_user_router_query_response(State, Head(teamq).who))
    /\ UNCHANGED teamFailed

-----------------------------------------------------------------------------
(* What the players do                                                     *)

(* Bounds, not rules of the code: a command is given while nothing but     *)
(* lookups of names are on their way to the maps, so that others are       *)
(* handled between a lookup and its answer, and, unless they are hasty,    *)
(* while the queue is empty.                                               *)
MayCommand(c) ==
    /\ c \in here /\ ~teamFailed
    /\ \A i \in DOMAIN router : router[i].type = "Query"
    /\ teamq = << >> \/ "hasty" \in manner
    /\ Len(teamq) + Len(router) < MaxQueued

PostTeam(ev) == teamq' = Append(teamq, ev)

commandRest == <<here, teams, known, lfg, pending, router, view, left, manner, teamFailed>>

Invite(c, d) ==
    /\ MayCommand(c)
    /\ Len(pending[d]) < MaxAsked
    /\ PostTeam([type |-> "Invited", leader |-> c, invitee |-> d])
    /\ UNCHANGED <<offer, commandRest>>

(* A client shows the offer that came last.                                *)
Answer(c, accepts) ==
    /\ MayCommand(c) /\ offer[c] # NoLeader
    /\ PostTeam([type |-> "Handled", leader |-> offer[c], invitee |-> c, accepted |-> accepts])
    /\ offer' = [offer EXCEPT ![c] = NoLeader]
    /\ UNCHANGED commandRest

Kick(c, d) ==
    /\ MayCommand(c) /\ c # d
    /\ PostTeam([type |-> "Kicked", leader |-> c, who |-> d])
    /\ UNCHANGED <<offer, commandRest>>

MakeLeader(c, d) ==
    /\ MayCommand(c) /\ c # d
    /\ PostTeam([type |-> "MakeLeader", leader |-> c, who |-> d])
    /\ UNCHANGED <<offer, commandRest>>

LeaveTeam(c) ==
    /\ MayCommand(c)
    /\ PostTeam([type |-> "Leave", who |-> c])
    /\ UNCHANGED <<offer, commandRest>>

ToggleLFG(c) ==
    /\ "looking" \in manner
    /\ MayCommand(c)
    /\ PostTeam([type |-> "ToggleLFG", who |-> c])
    /\ UNCHANGED <<offer, commandRest>>

-----------------------------------------------------------------------------
(* The maps                                                                *)

Arrives(type) ==
    /\ ~teamFailed
    /\ router # << >> /\ Head(router).type = type
    /\ router' = Tail(router)
    /\ UNCHANGED <<here, teams, known, lfg, pending, left, manner>>

QueryAnswered ==
    /\ Arrives("Query")
    /\ IF Head(router).who \in here
       THEN PostTeam([type |-> "Response", who |-> Head(router).who])
       ELSE UNCHANGED teamq
    /\ UNCHANGED <<view, offer, teamFailed>>

MapTeamMemberInvited ==
    /\ Arrives("Offer")
    /\ offer' = [offer EXCEPT ![Head(router).who] =
                    IF Head(router).who \in here THEN Head(router).leader ELSE @]
    /\ UNCHANGED <<teamq, view, teamFailed>>

(* on_team_member_kicked, on_team_leave_team                               *)
MapTeamMemberGone ==
    /\ \E type \in {"Kicked", "Left"} : Arrives(type)
    /\ view' = [view EXCEPT ![Head(router).who] = NoView]
    /\ UNCHANGED <<teamq, offer, teamFailed>>

(* What the entities of these members have after the message; a team of    *)
(* one is no team.                                                         *)
Shown(msg) ==
    IF Len(msg.members) < 2 THEN NoView
    ELSE [leader |-> msg.leader, members |-> msg.members]

MapTeamUpdated ==
    /\ Arrives("Updated")
    /\ view' = [c \in Characters |->
                   IF c \in ToSet(Head(router).members) \intersect here
                   THEN Shown(Head(router)) ELSE view[c]]
    /\ UNCHANGED <<teamq, offer, teamFailed>>

(* The flag is set on the entity of the session the token names; a token   *)
(* that names none is fatal.                                               *)
MapTeamToggleLFG ==
    /\ Arrives("ToggleLFG")
    /\ teamFailed' = (Head(router).token \notin here)
    /\ UNCHANGED <<teamq, view, offer>>

-----------------------------------------------------------------------------
(* To keep their number down, behaviours with a manner start when          *)
(* everybody is on the map.                                                *)
ThereAtStart == IF manner = {} THEN {} ELSE Characters

TeamInit ==
    /\ known = {}
    /\ teams = << >> /\ lfg = {} /\ pending = [c \in Characters |-> << >>]
    /\ teamq = << >> /\ router = << >>
    /\ view = [c \in Characters |-> NoView]
    /\ offer = [c \in Characters |-> NoLeader] /\ left = {}
    /\ teamFailed = FALSE

TeamEnters(c) ==
    /\ c \notin left
    /\ Enters(c)
    /\ UNCHANGED <<teams, known, lfg, pending, teamq, router, view, offer,
                   left, manner, teamFailed>>

(* The handler's on_client_disconnected is empty: the team keeps its       *)
(* member.  Nobody who has left comes back here.                           *)
TeamLeaves(c) ==
    /\ "leave" \in manner
    /\ Leaves(c)
    /\ view' = [view EXCEPT ![c] = NoView]
    /\ offer' = [offer EXCEPT ![c] = NoLeader]
    /\ left' = left \union {c}
    /\ UNCHANGED <<teams, known, lfg, pending, teamq, router, manner, teamFailed>>

TeamNext(cast) ==
    \/ \E c, d \in cast : Invite(c, d) \/ Kick(c, d) \/ MakeLeader(c, d)
    \/ \E c \in cast, accepts \in BOOLEAN : Answer(c, accepts)
    \/ \E c \in cast : LeaveTeam(c) \/ ToggleLFG(c) \/ TeamEnters(c) \/ TeamLeaves(c)
    \/ HandlesInvited \/ HandlesKicked \/ HandlesMakeLeader \/ HandlesLeave
    \/ HandlesAnswer \/ HandlesToggleLFG \/ HandlesResponse
    \/ QueryAnswered \/ MapTeamMemberInvited \/ MapTeamMemberGone
    \/ MapTeamUpdated \/ MapTeamToggleLFG

-----------------------------------------------------------------------------
(* A character is on one team at most, and once, whether it has answered   *)
(* or not.                                                                 *)
OneTeam ==
    \A m, n \in DOMAIN teams : \A i \in DOMAIN teams[m].members : \A j \in DOMAIN teams[n].members :
        teams[m].members[i].who = teams[n].members[j].who => m = n /\ i = j

(* No team of fewer than two or more than MaxTeam is kept, and the leader  *)
(* is one of its members.                                                  *)
TeamsAreLed ==
    \A n \in DOMAIN teams :
        /\ ~Disbanded(teams[n]) /\ Len(teams[n].members) <= MaxTeam
        /\ containsEntityID(teams[n], teams[n].leader)

(* Nobody who shares a team with somebody is looking for one.              *)
LfgIsFree ==
    \A n \in DOMAIN teams :
        LET names == ToSet(Confirmed(teams[n]))
        IN  Cardinality(names) > 1 => names \intersect lfg = {}

(* What the entity of a character shows once everything on its way has     *)
(* arrived is its team as the handler has it, without those who are still  *)
(* to answer.                                                              *)
Effect(v, c, msg) ==
    CASE msg.type \in {"Kicked", "Left"} /\ msg.who = c -> NoView
      [] msg.type = "Updated" /\ c \in ToSet(msg.members) -> Shown(msg)
      [] OTHER -> v

TeamOf(c) ==
    LET n == LastWith(State, c)
    IN  IF n = 0 \/ isNamePending(teams[n], c) THEN NoView
        ELSE Shown([leader |-> teams[n].leader, members |-> Confirmed(teams[n])])

Arriving(v, msg) == [c \in Characters |-> Effect(v[c], c, msg)]

ViewFollowsTeam ==
    LET views == FoldLeft(Arriving, view, router)
    IN  ~teamFailed => \A c \in here : views[c] = TeamOf(c)

(* A lookup of c, or its answer, is on its way.                            *)
LookedUp(c) ==
    \/ [type |-> "Query", who |-> c] \in ToSet(router)
    \/ [type |-> "Response", who |-> c] \in ToSet(teamq)

(* The answer that makes a name known finds the invitations that wait for  *)
(* it, and of whoever is on the map from the start and stays, an answer is *)
(* coming to all that wait, however often and by whomever it is invited    *)
(* between a lookup and its answer, and by whatever else it becomes known. *)
InvitationsMeetAnswers ==
    \A c \in Characters :
        /\ c \notin known /\ [type |-> "Response", who |-> c] \in ToSet(teamq)
              => pending[c] # << >>
        /\ c \in ThereAtStart \ left /\ pending[c] # << >> => LookedUp(c)
=============================================================================
