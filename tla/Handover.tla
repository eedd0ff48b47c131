------------------------------ MODULE Handover ------------------------------
(***************************************************************************)
(* A client's way from the authentication server over the game server to a *)
(* map: the authentication handler, the game handler, the queues between   *)
(* them, the links, and both reapers.                                      *)
(***************************************************************************)
EXTENDS AuthHandler, GameHandler

CONSTANTS Faults   \* what goes wrong besides clients giving up:
                   \* "slow"   a reaper's time runs out while an answer or a
                   \*          client is still on its way
                   \* "early"  a client leaves before the answer it waits for
                   \* "retry"  a refused client tries again on the same link
                   \* "stray"  a client that is logged in asks out of turn
                   \* "race"   two clients log in at the same time
                   \* "keep"   a client enters a server before leaving the last
                   \* "dberror" a database answers with an error

ASSUME HandoverAssumption ==
    /\ NoAccount \notin Accounts /\ NoLink \notin Clients
    /\ MaxSessions \in Nat
    /\ Faults \subseteq {"slow", "early", "retry", "stray", "race", "keep",
                   "dberror"}

VARIABLES gone   \* the clients that gave up

vars == <<authOnly, authq, gameOnly, gameq, gone, failed>>

Init ==
    /\ AuthInit
    /\ GameInit
    /\ gone = {}
    /\ failed = "no"

May(fault) == fault \in Faults

Runs == failed = "no"

-----------------------------------------------------------------------------
(* The clients                                                             *)

Opens(c) ==
    /\ Runs
    /\ c \notin gone
    /\ LinkOpen(c)
    /\ UNCHANGED <<gameOnly, gone, failed>>

(* On its way from the login to the game: not yet counted as in game       *)
LoggingIn(c) ==
    LET t == alink[c].token
    IN  /\ c \notin gone
        /\ \/ alink[c].stage = "CONNECTED" /\ alink[c].asked
           \/ alink[c].stage \in {"AUTHORIZED", "CLIENT_SERVSELECT"} /\ alink[c].up
           \/ /\ alink[c].stage = "CLIENT_AWAITING_DISCONNECT"
              /\ alink[c].up \/ glink[c].at \in {"none", "asked"}
           \/ /\ glink[c].at # "closed" /\ glink[c].token # NoToken
              /\ Holds(auth, t) /\ ~auth.sessions[t].in_game

Asks(c) ==
    /\ Runs
    /\ c \notin gone
    /\ May("retry") \/ ~alink[c].refused
    /\ May("race") \/ \A d \in Clients \ {c} : ~LoggingIn(d)
    /\ \E type \in Requested :
          /\ \/ type = Request(alink[c].stage)
             \/ May("stray") /\ alink[c].token # NoToken
          /\ LinkInput(c, type)
    /\ ClientAsks(c)
    /\ UNCHANGED <<gameOnly, gone, failed>>

Closes(c) ==
    /\ Runs
    /\ May("early") \/ ~alink[c].asked
    /\ LinkClose(c)
    /\ UNCHANGED <<gameOnly, gone, failed>>

Finishes(c) ==
    /\ Runs
    /\ LinkFinish(c)
    /\ UNCHANGED <<gameOnly, gone, failed>>

EntersGame(c) ==
    /\ Runs
    /\ c \notin gone
    /\ alink[c].stage = "CLIENT_AWAITING_DISCONNECT"
    /\ May("keep") \/ ~alink[c].up
    /\ SendUpdateServer(c)
    /\ UNCHANGED <<authOnly, authq, gone, failed>>

AsksForMap(c) ==
    /\ Runs
    /\ SendMapRequest(c)
    /\ UNCHANGED <<authOnly, authq, gone, failed>>

Leaves(c) ==
    /\ Runs
    /\ May("early") \/ glink[c].at \notin {"asked", "asked map"}
    /\ LeaveGame(c)
    /\ UNCHANGED <<authOnly, authq, gone, failed>>

EntersMap(c) ==
    /\ Runs
    /\ c \notin gone
    /\ May("keep") \/ glink[c].at = "to map"
    /\ MapEntered(c)
    /\ UNCHANGED <<authOnly, authq, gone, failed>>

(* Between two servers, a client that has left the first                   *)
GivesUp(c) ==
    /\ Runs
    /\ c \notin gone
    /\ ~alink[c].up
    /\ \/ alink[c].stage = "CLIENT_AWAITING_DISCONNECT" /\ glink[c].at = "none"
       \/ glink[c].at = "to map"
    /\ gone' = gone \union {c}
    /\ UNCHANGED <<authOnly, authq, gameOnly, gameq, failed>>

ClientStep(c) ==
    \/ Opens(c) \/ Asks(c) \/ Closes(c) \/ Finishes(c)
    \/ EntersGame(c) \/ AsksForMap(c) \/ Leaves(c) \/ EntersMap(c)
    \/ GivesUp(c)

-----------------------------------------------------------------------------
(* The servers                                                             *)

AuthStep ==
    /\ Runs
    /\ HandleAuthEvent
    /\ UNCHANGED <<gameOnly, gone>>

GameStep ==
    /\ Runs
    /\ HandleGameEvent
    /\ UNCHANGED <<authOnly, gone>>

AuthDbStep ==
    /\ Runs
    /\ RetrieveAccount \/ (May("dberror") /\ AuthDbFails)
    /\ UNCHANGED <<gameOnly, gone, failed>>

GameDbStep ==
    /\ Runs
    /\ GameAccount \/ (May("dberror") /\ GameDbFails)
    /\ UNCHANGED <<authOnly, authq, gone, failed>>

MapStep(t) ==
    /\ Runs
    /\ MapExpects(t) \/ MapLeft(t)
    /\ UNCHANGED <<authOnly, authq, gone, failed>>

(* An answer about the session, or its client, is still on the way.        *)
About(ev, t) ==
    IF "token" \in DOMAIN ev THEN ev.token = t
    ELSE \/ alink[ev.link].token = t
         \/ glink[ev.link].token = t
         \/ Holds(auth, t) /\ auth.sessions[t].link = ev.link
         \/ t \in Expected(game, ev.link)

OnTheWay(t) ==
    \/ \E ev \in ToSet(authq) \union ToSet(gameq) : About(ev, t)
    \/ t \in ToSet(authdb) \union ToSet(gamedb)
    \/ map[t] = "asked"
    \/ \E c \in Clients \ gone :
          \/ /\ alink[c].token = t
             /\ alink[c].stage = "CLIENT_AWAITING_DISCONNECT"
             /\ glink[c].at = "none"
          \/ glink[c].token = t /\ glink[c].at = "to map"

TimeIsUp(st, stale) ==
    /\ \E e \in ToSet(st.waiting) : e.since = stale
    /\ \/ May("slow")
       \/ \A e \in ToSet(st.waiting) : e.since <= stale => ~OnTheWay(e.session)

AuthReaper(stale) ==
    /\ Runs
    /\ TimeIsUp(auth, stale)
    /\ ReapAuth(stale)
    /\ UNCHANGED <<gameOnly, gone>>

GameReaper(stale) ==
    /\ Runs
    /\ TimeIsUp(game, stale)
    /\ ReapGame(stale)
    /\ UNCHANGED <<authOnly, gone>>

ServerStep ==
    \/ AuthStep \/ GameStep \/ AuthDbStep \/ GameDbStep
    \/ \E t \in 1..MaxSessions : MapStep(t)
    \/ \E stale \in 1..LastMark(auth) : AuthReaper(stale)
    \/ \E stale \in 1..LastMark(game) : GameReaper(stale)

Next == ServerStep \/ \E c \in Clients : ClientStep(c)

Spec == Init /\ [][Next]_vars
-----------------------------------------------------------------------------
(* Types: AuthHandler.h:50-78, GameHandler.h:32-60, ClientManager.h:81-105.*)
TypeOK ==
    /\ AuthTypeOK /\ GameTypeOK
    /\ gone \subseteq Clients
    /\ failed \in Reasons

(* No handler meets an event it cannot do: fatal_failure, a null link, or  *)
(* a session that was destroyed.                                           *)
NeverFails == failed = "no"

InUse(t) == auth.sessions[t].logged_in \/ auth.sessions[t].in_game

(* What a client uses of a session: a link to either server, or a map      *)
Uses(c, t) ==
    \/ alink[c].up /\ alink[c].token = t
    \/ /\ glink[c].token = t
       /\ \/ glink[c].at \in {"slots", "asked map", "address"}
          \/ glink[c].at = "on map" /\ map[t] = "on"

(* An account is in use once: in one session, and a session by one client. *)
OneLogin ==
    /\ \A t, u \in DOMAIN auth.sessions :
          /\ InUse(t) /\ InUse(u)
          /\ auth.sessions[t].auth_id = auth.sessions[u].auth_id
          => t = u
    /\ \A c, d \in Clients, t \in 1..MaxSessions :
          Uses(c, t) /\ Uses(d, t) => c = d

(* A session a client uses is there and counts as in use, so that another  *)
(* login of its account is turned away, or is about to.                    *)
UsedIsKnown ==
    \A c \in Clients, t \in 1..MaxSessions : Uses(c, t) =>
       /\ Holds(auth, t)
       /\ InUse(t) \/ [type |-> "ClientConnectedMessage", token |-> t] \in ToSet(authq)

(* The lists of a store refer to sessions it holds.                        *)
NoDangling ==
    \A st \in {auth, game} :
       /\ st.active \subseteq DOMAIN st.sessions
       /\ \A e \in ToSet(st.waiting) : Holds(st, e.session)

(* A session logged in has a link that is open or about to be reported.    *)
LoggedInIsThere ==
    \A t \in DOMAIN auth.sessions : auth.sessions[t].logged_in =>
       LET c == auth.sessions[t].link
       IN  /\ c # NoLink
           /\ alink[c].up \/ [type |-> "Disconnect", token |-> t] \in ToSet(authq)

(* A session the authentication server counts as in game is there, or its  *)
(* end is about to be reported.                                            *)
InGameIsThere ==
    \A t \in DOMAIN auth.sessions : auth.sessions[t].in_game =>
       \/ Holds(game, t)
       \/ [type |-> "ClientDisconnectedMessage", token |-> t] \in ToSet(authq)

(* The session an account is mapped to is there: a session is never        *)
(* destroyed without its account's entry going too.                        *)
MappedIsHeld ==
    \A a \in Accounts :
       auth.id_to_token[a] # NoToken => Holds(auth, auth.id_to_token[a])

(* A session nobody uses is one a reaper will destroy.                     *)
AbandonedIsReaped ==
    \A t \in DOMAIN auth.sessions :
       \/ InUse(t)
       \/ \E e \in ToSet(auth.waiting) : e.session = t /\ e.token = t
       \/ OnTheWay(t)
=============================================================================
