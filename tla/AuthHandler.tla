---------------------------- MODULE AuthHandler ----------------------------
(***************************************************************************)
(* The authentication handler (src/Servers/AuthServer/AuthHandler.cpp) and *)
(* the TCP links its clients come in on                                    *)
(* (src/Common/AuthProtocol/AuthLink.cpp).  A link is named by the client  *)
(* that opened it.  The account database is what the handler sees of it:   *)
(* one request, one answer, in order.                                      *)
(***************************************************************************)
EXTENDS Queues

VARIABLES auth,             \* m_sessions
          last_session_id,  \* s_last_session_id
          alink,            \* the links
          authdb            \* requests the account database has yet to answer

authOnly == <<auth, last_session_id, alink, authdb>>

NoLinkYet == [stage |-> "none", token |-> NoToken, up |-> FALSE,
              finish |-> FALSE, asked |-> FALSE, refused |-> FALSE]

AuthSession(link) ==
    [link |-> link, auth_id |-> NoAccount, logged_in |-> FALSE, in_game |-> FALSE]

AuthInit ==
    /\ auth = EmptyStore
    /\ last_session_id = 1
    /\ alink = [c \in Clients |-> NoLinkYet]
    /\ authq = << >>
    /\ authdb = << >>

-----------------------------------------------------------------------------
AuthEvent ==
    [type : {"Connect", "LoginRequest", "ServerListRequest", "ServerSelectRequest"},
     link : Clients]
    \union [type : {"Disconnect"}, token : Token]
    \union [type : {"RetrieveAccountResponse"}, token : Held,
            account : Accounts \union {NoAccount}]
    \union [type : {"ExpectClientResponse", "AuthDbStatusMessage",
                    "ClientConnectedMessage", "ClientDisconnectedMessage"},
            token : Held]

AuthSessions == [link : Clients \union {NoLink}, auth_id : Accounts \union {NoAccount},
                 logged_in : BOOLEAN, in_game : BOOLEAN]

AuthStages == {"none", "INITIAL", "CONNECTED", "AUTHORIZED", "CLIENT_SERVSELECT",
               "CLIENT_AWAITING_DISCONNECT"}

AuthLinks == [stage : AuthStages, token : Token, up : BOOLEAN, finish : BOOLEAN,
              asked : BOOLEAN, refused : BOOLEAN]

AuthStore == Stores(AuthSessions, Clients, Held, Token)

AuthTypeOK ==
    /\ auth \in AuthStore
    /\ last_session_id \in 1..(MaxSessions + 1)
    /\ alink \in [Clients -> AuthLinks]
    /\ authq \in Seq(AuthEvent)
    /\ authdb \in Seq(Held)

-----------------------------------------------------------------------------
(* enqueue_prio: a Disconnect goes before everything but other Disconnects.*)
Urgently(q, ev) ==
    LET n == Cardinality({i \in DOMAIN q : \A j \in 1..i : q[j].type = "Disconnect"})
    IN  InsertAt(q, n + 1, ev)

-----------------------------------------------------------------------------
(* The link, on the reactor thread                                         *)

LinkOpen(c) ==
    /\ alink[c].stage = "none"
    /\ alink' = [alink EXCEPT ![c].stage = "INITIAL", ![c].up = TRUE, ![c].asked = TRUE]
    /\ authq' = Append(authq, [type |-> "Connect", link |-> c])
    /\ UNCHANGED <<auth, last_session_id, authdb, gameq>>

Requested == {"LoginRequest", "ServerListRequest", "ServerSelectRequest"}

(* Bytes that come in on an open link become an event for the handler,     *)
(* whatever they ask and whatever stage the link is in.                    *)
LinkInput(c, type) ==
    /\ alink[c].up
    /\ authq' = Append(authq, [type |-> type, link |-> c])
    /\ UNCHANGED <<auth, last_session_id, authdb, gameq>>

(* External: the client.  It sends one request and waits for its answer;   *)
(* `asked` and `refused` are what it knows, not what the link does.        *)
ClientAsks(c) ==
    /\ ~alink[c].asked
    /\ alink' = [alink EXCEPT ![c].asked = TRUE]

(* External: what a client asks next, given what it was told.              *)
Request(stage) ==
    CASE stage = "CONNECTED"        -> "LoginRequest"
      [] stage = "AUTHORIZED"       -> "ServerListRequest"
      [] stage = "CLIENT_SERVSELECT" -> "ServerSelectRequest"
      [] OTHER                      -> "none"

(* Mutant: a link that closes is not reported.                             *)
MutUnreported(c) == UNCHANGED authq

Disconnected(c) ==
    authq' = Urgently(authq, [type |-> "Disconnect", token |-> alink[c].token])

(* The client closes the connection.                                       *)
LinkClose(c) ==
    /\ alink[c].up
    /\ alink' = [alink EXCEPT ![c].up = FALSE]
    /\ Disconnected(c)
    /\ UNCHANGED <<auth, last_session_id, authdb, gameq>>

(* Finish comes up in handle_output, which makes the reactor call          *)
(* handle_close; whether the socket stays readable is the reactor's affair.*)
LinkFinish(c) ==
    /\ alink[c].finish
    /\ \E up \in {FALSE, alink[c].up} :
          alink' = [alink EXCEPT ![c].finish = FALSE, ![c].up = up]
    /\ Disconnected(c)
    /\ UNCHANGED <<auth, last_session_id, authdb, gameq>>

-----------------------------------------------------------------------------
(* The handler                                                             *)

Handles(type) == authq # << >> /\ Head(authq).type = type

(* An answer is put on the link; an AuthorizationError is one, too.        *)
Answered(c) == [alink EXCEPT ![c].asked = FALSE]
Refused(c) == [Answered(c) EXCEPT ![c].refused = TRUE]

Stop(why) ==
    /\ failed' = why
    /\ UNCHANGED <<authOnly, gameq>>

OnConnect ==
    /\ Handles("Connect")
    /\ alink' = [Answered(Head(authq).link) EXCEPT ![Head(authq).link].stage = "CONNECTED"]
    /\ UNCHANGED <<auth, last_session_id, authdb, gameq, failed>>

(* A login is refused at once when the name or the password is too long or *)
(* too short, or the link is not at the stage for it.                      *)
OnLogin ==
    /\ Handles("LoginRequest")
    /\ \E name \in {"allowed", "blocked"} :
       LET t == last_session_id
           c == Head(authq).link
           s == WithSession(auth, t, AuthSession(c))
       IN  \/ /\ name = "blocked" \/ alink[c].stage # "CONNECTED"
              /\ alink' = Refused(c)
              /\ UNCHANGED <<auth, last_session_id, authdb, gameq, failed>>
           \/ /\ name = "allowed" /\ alink[c].stage = "CONNECTED"
              /\ t <= MaxSessions
              /\ auth' = mark_session_for_reaping(s, t, t)
              /\ authdb' = Append(authdb, t)
              /\ last_session_id' = t + 1
              /\ UNCHANGED <<alink, gameq, failed>>

(* The database's answer: the account, or none when the login is refused.  *)
RetrieveAccount ==
    /\ authdb # << >>
    /\ \E a \in Accounts \union {NoAccount} :
          authq' = Append(authq, [type |-> "RetrieveAccountResponse",
                                  token |-> Head(authdb), account |-> a])
    /\ authdb' = Tail(authdb)
    /\ UNCHANGED <<auth, last_session_id, alink, gameq>>

AuthDbFails ==
    /\ authdb # << >>
    /\ authq' = Append(authq, [type |-> "AuthDbStatusMessage", token |-> Head(authdb)])
    /\ authdb' = Tail(authdb)
    /\ UNCHANGED <<auth, last_session_id, alink, gameq>>

OnDbError ==
    /\ Handles("AuthDbStatusMessage")
    /\ LET t == Head(authq).token
           c == auth.sessions[t].link
       IN  \/ /\ ~Holds(auth, t)
              /\ Stop("missing session")
           \/ /\ Holds(auth, t)
              /\ alink' = Refused(c)
              /\ UNCHANGED <<auth, last_session_id, authdb, gameq, failed>>

(* Mutant: only the authentication server's own clients count.             *)
MutIgnoresGame(a) ==
    LET t == token_for_id(auth, a)
    IN  t # NoToken /\ auth.sessions[t].logged_in

(* The session an account's token names is always held: see MappedIsHeld.  *)
isClientConnectedAnywhere(a) ==
    LET t == token_for_id(auth, a)
    IN  /\ t # NoToken
        /\ auth.sessions[t].logged_in \/ auth.sessions[t].in_game

(* The session the client goes on with: the one its account left behind,   *)
(* or the temporary one, which then loses its reaper entry for good.       *)
LoggedIn(st, temp, c, a) ==
    LET old  == token_for_id(auth, a)
        t    == IF old = NoToken THEN temp ELSE old
        kept == IF old = NoToken THEN st
                ELSE mark_session_for_reaping(
                        [unmark_session_for_reaping(st, old) EXCEPT
                            !.sessions[temp].link = NoLink],
                        temp, temp)
        mine == [kept EXCEPT !.sessions[t] =
                    [@ EXCEPT !.link = c, !.auth_id = a, !.logged_in = TRUE]]
    IN  /\ auth' = setTokenForId(add_to_active_sessions(mine, t), a, t)
        /\ alink' = [Answered(c) EXCEPT ![c].token = t, ![c].stage = "AUTHORIZED"]

OnRetrieveAccountResponse ==
    /\ Handles("RetrieveAccountResponse")
    /\ LET temp == Head(authq).token
           a    == Head(authq).account
           st   == unmark_session_for_reaping(auth, temp)
           c    == auth.sessions[temp].link
       IN  \/ /\ ~Holds(auth, temp)
              /\ UNCHANGED <<authOnly, gameq, failed>>
           \/ /\ Holds(auth, temp)
              /\ a = NoAccount \/ isClientConnectedAnywhere(a)
              /\ auth' = mark_session_for_reaping(st, temp, temp)
              /\ alink' = Refused(c)
              /\ UNCHANGED <<last_session_id, authdb, gameq, failed>>
           \/ /\ Holds(auth, temp)
              /\ a # NoAccount /\ ~isClientConnectedAnywhere(a)
              /\ LoggedIn(st, temp, c, a)
              /\ UNCHANGED <<last_session_id, authdb, gameq, failed>>

OnServerListRequest ==
    /\ Handles("ServerListRequest")
    /\ LET c == Head(authq).link
       IN  \/ /\ alink[c].stage # "AUTHORIZED"
              /\ alink' = Refused(c)
           \/ /\ alink[c].stage = "AUTHORIZED"
              /\ alink' = [Answered(c) EXCEPT ![c].stage = "CLIENT_SERVSELECT"]
    /\ UNCHANGED <<auth, last_session_id, authdb, gameq, failed>>

(* The session is looked up before the stage is looked at; the server      *)
(* asked for may be none that is there.                                    *)
OnServerSelected ==
    /\ Handles("ServerSelectRequest")
    /\ \E server \in {"there", "unknown"} :
       LET c == Head(authq).link
           t == alink[c].token
       IN  \/ /\ ~Holds(auth, t)
              /\ Stop("missing session")
           \/ /\ Holds(auth, t)
              /\ server = "unknown" \/ alink[c].stage # "CLIENT_SERVSELECT"
              /\ alink' = Refused(c)
              /\ UNCHANGED <<auth, last_session_id, authdb, gameq, failed>>
           \/ /\ Holds(auth, t)
              /\ server = "there" /\ alink[c].stage = "CLIENT_SERVSELECT"
              /\ gameq' = Append(gameq, [type |-> "ExpectClientRequest", token |-> t,
                                         account |-> auth.sessions[t].auth_id,
                                         from |-> c])
              /\ UNCHANGED <<auth, last_session_id, alink, authdb, failed>>

OnClientExpected ==
    /\ Handles("ExpectClientResponse")
    /\ LET t == Head(authq).token
           c == auth.sessions[t].link
       IN  \/ /\ ~Holds(auth, t)
              /\ Stop("missing session")
           \/ /\ Holds(auth, t) /\ c = NoLink
              /\ UNCHANGED <<authOnly, gameq, failed>>
           \/ /\ Holds(auth, t) /\ c # NoLink
              /\ alink' = [Answered(c) EXCEPT ![c].stage = "CLIENT_AWAITING_DISCONNECT"]
              /\ UNCHANGED <<auth, last_session_id, authdb, gameq, failed>>

(* Mutant: the session is not counted as in game.                          *)
MutForgetsGame ==
    /\ Handles("ClientConnectedMessage")
    /\ auth' = unmark_session_for_reaping(auth, Head(authq).token)
    /\ UNCHANGED <<last_session_id, alink, authdb, gameq, failed>>

OnClientConnectedToOtherServer ==
    /\ Handles("ClientConnectedMessage")
    /\ LET t == Head(authq).token
       IN  \/ /\ ~Holds(auth, t)
              /\ Stop("missing session")
           \/ /\ Holds(auth, t)
              /\ auth' = [unmark_session_for_reaping(auth, t) EXCEPT
                             !.sessions[t].in_game = TRUE]
              /\ UNCHANGED <<last_session_id, alink, authdb, gameq, failed>>

(* The session is marked with the token of the event, which no sender sets.*)
OnClientDisconnectedFromOtherServer ==
    /\ Handles("ClientDisconnectedMessage")
    /\ LET t == Head(authq).token
       IN  \/ /\ ~Holds(auth, t)
              /\ Stop("missing session")
           \/ /\ Holds(auth, t)
              /\ auth' = mark_session_for_reaping(
                            [auth EXCEPT !.sessions[t].in_game = FALSE], t, NoToken)
              /\ UNCHANGED <<last_session_id, alink, authdb, gameq, failed>>

OnDisconnect ==
    /\ Handles("Disconnect")
    /\ LET t == Head(authq).token
           s == auth.sessions[t]
           marked == IF s.in_game THEN auth
                     ELSE mark_session_for_reaping(auth, t, alink[s.link].token)
           out == [marked EXCEPT !.sessions[t] =
                      [@ EXCEPT !.logged_in = FALSE, !.link = NoLink]]
       IN  \/ /\ t = NoToken
              /\ UNCHANGED <<authOnly, gameq, failed>>
           \/ /\ t # NoToken /\ ~Holds(auth, t)
              /\ Stop("missing session")
           \/ /\ t # NoToken /\ Holds(auth, t)
              /\ ~s.in_game /\ s.link = NoLink
              /\ Stop("null link")
           \/ /\ t # NoToken /\ Holds(auth, t)
              /\ s.link # NoLink /\ t \notin auth.active
              /\ Stop("not active")
           \/ /\ t # NoToken /\ Holds(auth, t)
              /\ s.link # NoLink /\ t \in auth.active
              /\ auth' = remove_from_active_sessions(out, t)
              /\ UNCHANGED <<last_session_id, alink, authdb, gameq, failed>>
           \/ /\ t # NoToken /\ Holds(auth, t)
              /\ s.in_game /\ s.link = NoLink
              /\ auth' = [auth EXCEPT !.sessions[t].logged_in = FALSE]
              /\ UNCHANGED <<last_session_id, alink, authdb, gameq, failed>>

HandleAuthEvent ==
    /\ \/ OnConnect \/ OnDisconnect \/ OnLogin \/ OnRetrieveAccountResponse \/ OnDbError
       \/ OnServerListRequest \/ OnServerSelected \/ OnClientExpected
       \/ OnClientConnectedToOtherServer \/ OnClientDisconnectedFromOtherServer
    /\ authq' = Tail(authq)

(* The timer's pass, when the entries marked up to `stale` have waited     *)
(* longer than link_is_stale_if_disconnected_for                           *)
ReapAuth(stale) ==
    LET pass == StaleLinks(auth, stale)
    IN  /\ pass.reaped # << >>
        /\ \/ /\ ReapsDestroyed(auth, pass.reaped)
              /\ failed' = "destroyed session"
              /\ UNCHANGED <<auth, alink>>
           \/ /\ ~ReapsDestroyed(auth, pass.reaped)
              /\ auth' = AfterReaping(auth, pass)
              /\ alink' = [c \in Clients |->
                             IF c \in ReapedLinks(auth, pass.reaped)
                             THEN [alink[c] EXCEPT !.finish = TRUE] ELSE alink[c]]
              /\ UNCHANGED failed
        /\ UNCHANGED <<last_session_id, authq, authdb, gameq>>
=============================================================================
