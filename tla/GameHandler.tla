---------------------------- MODULE GameHandler ----------------------------
(***************************************************************************)
(* The game handler (src/Servers/GameServer/GameHandler.cpp) and its       *)
(* clients' CRUDP links, as far as sessions go.  The game database and the *)
(* map server are what the handler sees of them: the database answers each *)
(* request once, in order; the map server gives out an address for every   *)
(* session it is asked to expect, and reports when a client enters or      *)
(* leaves.                                                                 *)
(***************************************************************************)
EXTENDS Queues

VARIABLES game,    \* m_session_store
          glink,   \* the links, by client
          gamedb,  \* requests the game database has yet to answer
          map      \* what the map server knows of a session

gameOnly == <<game, glink, gamedb, map>>

GameInit ==
    /\ game = EmptyStore
    /\ glink = [c \in Clients |-> [at |-> "none", token |-> NoToken]]
    /\ gameq = << >>
    /\ gamedb = << >>
    /\ map = [t \in Held |-> "none"]

GameSession ==
    [link |-> NoLink, auth_id |-> NoAccount, on_map |-> FALSE,
     to_map |-> TRUE, has_account |-> FALSE]

-----------------------------------------------------------------------------
GameEvent ==
    [type : {"UpdateServer", "MapServerAddrRequest", "Disconnect"}, link : Clients]
    \union [type : {"ExpectClientRequest"}, token : Held,
            account : Accounts \union {NoAccount}, from : Clients]
    \union [type : {"GameAccountResponse", "GameDbErrorMessage", "ExpectMapClientResponse",
                    "ClientConnectedMessage", "ClientDisconnectedMessage"},
            token : Held]

GameSessions == [link : Clients \union {NoLink}, auth_id : Accounts \union {NoAccount},
                 on_map : BOOLEAN, to_map : BOOLEAN, has_account : BOOLEAN]

(* at: where the client has got to on this link                            *)
GameLinkStates ==
    {"none", "asked", "unauthorized", "slots", "asked map", "address",
     "to map", "on map", "closed"}

GameLinks == [at : GameLinkStates, token : Token]

MapStates == {"none", "asked", "expecting", "on"}

GameStore == Stores(GameSessions, Clients, Held, Held)

GameTypeOK ==
    /\ game \in GameStore
    /\ glink \in [Clients -> GameLinks]
    /\ gameq \in Seq(GameEvent)
    /\ gamedb \in Seq(Held)
    /\ map \in [Held -> MapStates]

-----------------------------------------------------------------------------
(* What the clients send                                                   *)

PostGame(ev) == gameq' = Append(gameq, ev)

SendUpdateServer(c) ==
    /\ glink[c].at = "none"
    /\ glink' = [glink EXCEPT ![c].at = "asked"]
    /\ PostGame([type |-> "UpdateServer", link |-> c])
    /\ UNCHANGED <<game, gamedb, map>>

SendMapRequest(c) ==
    /\ glink[c].at = "slots"
    /\ glink' = [glink EXCEPT ![c].at = "asked map"]
    /\ PostGame([type |-> "MapServerAddrRequest", link |-> c])
    /\ UNCHANGED <<game, gamedb, map>>

(* A DisconnectRequest of the client, or the Disconnect of a link that     *)
(* turned out unresponsive                                                 *)
LeaveGame(c) ==
    /\ glink[c].at \in {"asked", "slots", "asked map", "address"}
    /\ glink' = [glink EXCEPT ![c].at = IF @ = "address" THEN "to map" ELSE "closed"]
    /\ PostGame([type |-> "Disconnect", link |-> c])
    /\ UNCHANGED <<game, gamedb, map>>

-----------------------------------------------------------------------------
(* The database and the map server                                         *)

GameAccount ==
    /\ gamedb # << >>
    /\ PostGame([type |-> "GameAccountResponse", token |-> Head(gamedb)])
    /\ gamedb' = Tail(gamedb)
    /\ UNCHANGED <<game, glink, map>>

GameDbFails ==
    /\ gamedb # << >>
    /\ PostGame([type |-> "GameDbErrorMessage", token |-> Head(gamedb)])
    /\ gamedb' = Tail(gamedb)
    /\ UNCHANGED <<game, glink, map>>

MapExpects(t) ==
    /\ map[t] = "asked"
    /\ map' = [map EXCEPT ![t] = "expecting"]
    /\ PostGame([type |-> "ExpectMapClientResponse", token |-> t])
    /\ UNCHANGED <<game, glink, gamedb>>

MapEntered(c) ==
    /\ glink[c].at \in {"address", "to map"}
    /\ glink[c].token # NoToken /\ map[glink[c].token] = "expecting"
    /\ map' = [map EXCEPT ![glink[c].token] = "on"]
    /\ glink' = [glink EXCEPT ![c].at = IF @ = "to map" THEN "on map" ELSE @]
    /\ PostGame([type |-> "ClientConnectedMessage", token |-> glink[c].token])
    /\ UNCHANGED <<game, gamedb>>

MapLeft(t) ==
    /\ map[t] = "on"
    /\ map' = [map EXCEPT ![t] = "none"]
    /\ glink' = [c \in Clients |->
                    IF glink[c] = [at |-> "on map", token |-> t]
                    THEN [glink[c] EXCEPT !.at = "closed"] ELSE glink[c]]
    /\ PostGame([type |-> "ClientDisconnectedMessage", token |-> t])
    /\ UNCHANGED <<game, gamedb>>

-----------------------------------------------------------------------------
(* The handler                                                             *)

HandlesGame(type) == gameq # << >> /\ Head(gameq).type = type

StopGame(why) ==
    /\ failed' = why
    /\ UNCHANGED <<gameOnly, authq>>

TellAuth(type, t) == authq' = Append(authq, [type |-> type, token |-> t])

(* create_or_reuse_session_for: a session that is there is unmarked and    *)
(* reset, and stays among the active ones.                                 *)
OnExpectClient ==
    /\ HandlesGame("ExpectClientRequest")
    /\ LET ev == Head(gameq)
           t  == ev.token
           st == unmark_session_for_reaping(game, t)
           mine == WithSession(IF Holds(game, t) THEN st ELSE game, t,
                               [GameSession EXCEPT !.auth_id = ev.account])
       IN  game' = expect_client_session(mine, ev.from, t)
    /\ TellAuth("ExpectClientResponse", Head(gameq).token)
    /\ UNCHANGED <<glink, gamedb, map, failed>>

OnUpdateServer ==
    /\ HandlesGame("UpdateServer")
    /\ LET c == Head(gameq).link
       IN  \/ /\ Expected(game, c) = {}
              /\ glink' = [glink EXCEPT ![c].at =
                              IF @ = "asked" THEN "unauthorized" ELSE @]
              /\ UNCHANGED <<game, gamedb, map, authq, failed>>
           \/ \E t \in Expected(game, c) :
                 /\ ~Holds(game, t)
                 /\ StopGame("missing session")
           \/ \E t \in Expected(game, c) :
                 /\ Holds(game, t)
                 /\ game' = mark_session_for_reaping(
                               [connected_client(game, c) EXCEPT
                                   !.sessions[t] =
                                      [@ EXCEPT !.link = c, !.to_map = FALSE]],
                               t, t)
                 /\ glink' = [glink EXCEPT ![c].token = t]
                 /\ gamedb' = Append(gamedb, t)
                 /\ UNCHANGED <<map, authq, failed>>

OnAccountData ==
    /\ HandlesGame("GameAccountResponse")
    /\ LET t == Head(gameq).token
           c == game.sessions[t].link
       IN  \/ /\ ~Holds(game, t)
              /\ StopGame("missing session")
           \/ /\ Holds(game, t) /\ c = NoLink
              /\ StopGame("null link")
           \/ /\ Holds(game, t) /\ c # NoLink
              /\ game' = add_to_active_sessions(
                            [unmark_session_for_reaping(game, t) EXCEPT
                                !.sessions[t].has_account = TRUE], t)
              /\ TellAuth("ClientConnectedMessage", t)
              /\ glink' = [glink EXCEPT ![c].at = IF @ = "asked" THEN "slots" ELSE @]
              /\ UNCHANGED <<gamedb, map, failed>>

(* The session stays marked.                                               *)
OnGameDbError ==
    /\ HandlesGame("GameDbErrorMessage")
    /\ LET t == Head(gameq).token
           c == game.sessions[t].link
       IN  \/ /\ ~Holds(game, t)
              /\ StopGame("missing session")
           \/ /\ Holds(game, t) /\ c = NoLink
              /\ StopGame("null link")
           \/ /\ Holds(game, t) /\ c # NoLink
              /\ glink' = [glink EXCEPT ![c].at = IF @ = "asked" THEN "unauthorized" ELSE @]
              /\ UNCHANGED <<game, gamedb, map, authq, failed>>

OnMapReq ==
    /\ HandlesGame("MapServerAddrRequest")
    /\ LET t == glink[Head(gameq).link].token
       IN  \/ /\ ~Holds(game, t)
              /\ StopGame("missing session")
           \/ /\ Holds(game, t) /\ ~game.sessions[t].has_account
              /\ UNCHANGED <<gameOnly, authq, failed>>
           \/ /\ Holds(game, t) /\ game.sessions[t].has_account
              /\ game' = [game EXCEPT !.sessions[t].to_map = TRUE]
              /\ map' = [map EXCEPT ![t] = "asked"]
              /\ UNCHANGED <<glink, gamedb, authq, failed>>

OnMapClientExpected ==
    /\ HandlesGame("ExpectMapClientResponse")
    /\ LET t == Head(gameq).token
           c == game.sessions[t].link
       IN  \/ /\ ~Holds(game, t)
              /\ StopGame("missing session")
           \/ /\ Holds(game, t) /\ c = NoLink
              /\ StopGame("null link")
           \/ /\ Holds(game, t) /\ c # NoLink
              /\ glink' = [glink EXCEPT ![c].at = IF @ = "asked map" THEN "address" ELSE @]
              /\ UNCHANGED <<game, gamedb, map, authq, failed>>

(* Mutant: the authentication handler is not told.                         *)
MutExitsQuietly(t) ==
    /\ game' = remove_by_token(session_link_lost(game, t), t, game.sessions[t].auth_id)
    /\ UNCHANGED authq

ExitToLogin(t) ==
    /\ game' = remove_by_token(session_link_lost(game, t), t, game.sessions[t].auth_id)
    /\ TellAuth("ClientDisconnectedMessage", t)

(* on_disconnect and on_link_lost                                          *)
OnLeaving ==
    /\ HandlesGame("Disconnect")
    /\ LET t == glink[Head(gameq).link].token
           s == game.sessions[t]
       IN  \/ /\ ~Holds(game, t)
              /\ StopGame("missing session")
           \/ /\ Holds(game, t) /\ t \notin game.active
              /\ StopGame("not active")
           \/ /\ Holds(game, t) /\ t \in game.active
              /\ s.on_map
              /\ game' = session_link_lost(game, t)
              /\ UNCHANGED <<glink, gamedb, map, authq, failed>>
           \/ /\ Holds(game, t) /\ t \in game.active
              /\ ~s.on_map /\ s.to_map
              /\ game' = session_link_lost(mark_session_for_reaping(game, t, t), t)
              /\ UNCHANGED <<glink, gamedb, map, authq, failed>>
           \/ /\ Holds(game, t) /\ t \in game.active
              /\ ~s.on_map /\ ~s.to_map
              /\ ExitToLogin(t)
              /\ UNCHANGED <<glink, gamedb, map, failed>>

OnConnectedToMap ==
    /\ HandlesGame("ClientConnectedMessage")
    /\ LET t == Head(gameq).token
       IN  \/ /\ ~Holds(game, t)
              /\ StopGame("missing session")
           \/ /\ Holds(game, t)
              /\ game' = [unmark_session_for_reaping(game, t) EXCEPT
                             !.sessions[t].on_map = TRUE]
              /\ UNCHANGED <<glink, gamedb, map, authq, failed>>

(* Mutant: it is marked with no token, as in the authentication handler.   *)
MutMarksNoToken ==
    /\ HandlesGame("ClientDisconnectedMessage")
    /\ Holds(game, Head(gameq).token)
    /\ game' = mark_session_for_reaping(
                  [game EXCEPT !.sessions[Head(gameq).token].on_map = FALSE],
                  Head(gameq).token, NoToken)
    /\ UNCHANGED <<glink, gamedb, map, authq, failed>>

OnDisconnectedFromMap ==
    /\ HandlesGame("ClientDisconnectedMessage")
    /\ LET t == Head(gameq).token
       IN  \/ /\ ~Holds(game, t)
              /\ StopGame("missing session")
           \/ /\ Holds(game, t)
              /\ game' = mark_session_for_reaping(
                            [game EXCEPT !.sessions[t].on_map = FALSE], t, t)
              /\ UNCHANGED <<glink, gamedb, map, authq, failed>>

HandleGameEvent ==
    /\ \/ OnExpectClient \/ OnUpdateServer \/ OnAccountData \/ OnGameDbError
       \/ OnMapReq \/ OnMapClientExpected \/ OnLeaving \/ OnConnectedToMap \/ OnDisconnectedFromMap
    /\ gameq' = Tail(gameq)

(* Mutant: it tells nobody.                                                *)
MutReapsQuietly(stale) ==
    LET pass == StaleLinks(game, stale)
    IN  /\ pass.reaped # << >>
        /\ game' = AfterReaping(game, pass)
        /\ UNCHANGED <<authq, glink, gameq, gamedb, map, failed>>

(* The callback tells the authentication handler of each session reaped.   *)
ReapGame(stale) ==
    LET pass == StaleLinks(game, stale)
    IN  /\ pass.reaped # << >>
        /\ \/ /\ ReapsDestroyed(game, pass.reaped)
              /\ failed' = "destroyed session"
              /\ UNCHANGED <<game, authq>>
           \/ /\ ~ReapsDestroyed(game, pass.reaped)
              /\ game' = AfterReaping(game, pass)
              /\ authq' = authq \o [i \in DOMAIN pass.reaped |->
                                      [type |-> "ClientDisconnectedMessage",
                                       token |-> pass.reaped[i].token]]
              /\ UNCHANGED failed
        /\ UNCHANGED <<glink, gameq, gamedb, map>>
=============================================================================
