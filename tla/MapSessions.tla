---------------------------- MODULE MapSessions ----------------------------
(***************************************************************************)
(* How players come to a map instance, go from one to another and leave    *)
(* (src/Servers/MapServer/MapInstance.cpp, MapServer.cpp,                  *)
(* EntityStorage.cpp), with the session store of each instance, the        *)
(* entities it lends out, and what is saved of a character on the way.     *)
(*                                                                         *)
(* Every map instance, the map server, the postman that takes a map's      *)
(* saves to the database (GameDBSyncService), the database and the game    *)
(* handler have a queue and a thread of their own.  An account plays one   *)
(* character, and asks from one address: its cookie is the account.  The   *)
(* game handler is here what the map instances tell it and ask of it.      *)
(***************************************************************************)
EXTENDS SessionStore

CONSTANTS Maps, NoMap,
          NoLogin,
          PoolSize,    \* entities of a map, 10239 in the code
          MaxLogins,   \* bound on the logins of an account
          Plans,       \* how often each account logs in and goes to
                       \* another map: those a behaviour may have
          MaxVersion,  \* bound on the versions of a character
          Mishaps      \* what goes wrong in a behaviour:
                       \* "none"    everybody waits for what was asked for
                       \* "early"   a client leaves before it plays, or
                       \*           while a transfer is arranged
                       \* "lingers" it joins a map before the last one, or
                       \*           the game server, has seen it leave
                       \* "acts"    it plays on during a transfer
                       \* "again"   it logs in again instead of joining
                       \* "taken"   the first name of a new character is
                       \*           taken
                       \* "late"    the database answers after the reaper
                       \* "dberror" the database fails
                       \* "slow"    a postman is slow

ASSUME MapSessionsAssumption ==
    /\ NoMap \notin Maps /\ NoLink \notin [who : Accounts, nr : 1..MaxLogins]
    /\ PoolSize \in Nat /\ MaxLogins \in Nat /\ MaxVersion \in Nat
    /\ Plans \subseteq [Accounts -> [logins : 0..MaxLogins, moves : Nat]]
    /\ Mishaps \subseteq {"none", "early", "lingers", "acts", "again", "taken",
                          "late", "dberror", "slow"}

VARIABLES store,   \* m_session_store of each map
          pool,    \* m_entities of each map
          inbox,   \* the queue of each map
          server,  \* the map server's queue
          xfers,   \* m_current_map_transfers
          post,    \* the queue of each map's postman
          gamedb,  \* the database's queue
          saved,   \* what is stored of each character: its version, and
                   \* the map it was on (a new one starts where that says)
          gamein,  \* messages for the game handler
          game,    \* what it knows of each login
          link,    \* the clients' links to each map
          player,  \* what each account is about
          mishap,
          failed

vars == <<store, pool, inbox, server, xfers, post, gamedb, saved, gamein, game,
          link, player, mishap, failed>>

Logins == [who : Accounts, nr : 1..MaxLogins]

Entities == 1..PoolSize
NoEntity == 0

Sessions == [link    : Logins \union {NoLink},
             auth_id : Accounts,
             ent     : Entities \union {NoEntity}]

(* version: of the character an entity was filled with, the newest first   *)
Versions == 0..MaxVersion

Stored == [version : Versions, map : Maps]

MapEvents ==
    [type : {"Expect"}, login : Logins, to : Maps, from : Maps \union {NoMap}, version : Versions]
    \union [type : {"Address"}, login : Logins, map : Maps \union {NoMap}]
    \union [type : {"NameChecked"}, login : Logins, taken : BOOLEAN]
    \union [type : {"Created", "Entity"}, login : Logins]
    \union [type : {"NewEntity"}, link : Logins, fresh : BOOLEAN]
    \union [type : {"EntitiesRequest", "Resumed", "Initiate", "Disconnect"}, link : Logins]

(* A map's part in a link: how far the client has got on it                *)
LinkStates == {"none", "joining", "connected", "asking", "entities", "playing",
               "waiting", "initiated", "address", "leaving", "closed"}

(* The type invariant.                                                     *)
MapTypeOK ==
    /\ \A m \in Maps :
          /\ DOMAIN store[m].sessions \subseteq Logins
          /\ store[m].sessions \in [DOMAIN store[m].sessions -> Sessions]
          /\ store[m].expecting \in Seq(ExpectClientInfo(Accounts, Logins))
          /\ store[m].waiting \in Seq(WaitingSession(Logins, Logins))
          /\ store[m].active \subseteq DOMAIN store[m].sessions
          /\ pool[m].live \subseteq Entities
          /\ pool[m].free \in Seq(Entities)
          /\ pool[m].id \in [Entities -> Accounts \union {NoAccount}]
          /\ pool[m].version \in [Entities -> Versions]
    /\ inbox \in [Maps -> Seq(MapEvents)]
    /\ xfers \in [Logins -> Maps \union {NoMap}]
    /\ saved \in [Accounts -> Stored]
    /\ game \in [Logins -> [on : BOOLEAN, marks : Nat]]
    /\ link \in [Maps -> [Logins -> [at : LinkStates, token : Logins \union {NoLogin}]]]

-----------------------------------------------------------------------------
(* The entities of a map                                                   *)

(* Mutant: the entity stays on the free list.                              *)
MutCreatePlayer(p, version) ==
    [p EXCEPT !.live = @ \union {Head(p.free)}, !.version[Head(p.free)] = version]

(* The first free entity is on the live list from now on.  Its m_db_id is  *)
(* what it was.                                                            *)
CreatePlayer(p, version) ==
    [p EXCEPT !.free = Tail(@),
              !.live = @ \union {Head(p.free)},
              !.version[Head(p.free)] = version]

(* Mutant: the entity is lent out again at once.                           *)
MutRemove(p, e) == [p EXCEPT !.live = @ \ {e}, !.free = <<e>> \o @]

removeEntityFromActiveList(p, e) ==
    [p EXCEPT !.live = @ \ {e}, !.free = Append(@, e)]

-----------------------------------------------------------------------------
(* Messages                                                                *)

Handles(m, type) ==
    /\ failed = "none"
    /\ inbox[m] # << >> /\ Head(inbox[m]).type = type

Popped(m) == [inbox EXCEPT ![m] = Tail(@)]

Stop(why) ==
    /\ failed' = why
    /\ UNCHANGED <<store, pool, inbox, server, xfers, post, gamedb, saved, gamein, game,
                   link, player, mishap>>

(* What most handlers leave alone                                          *)
quiet == <<server, xfers, post, saved, game, player, mishap, failed>>

LinkAt(m, k, from, to) ==
    link' = [link EXCEPT ![m][k].at = IF @ = from THEN to ELSE @]

(* session_from_event of a link's event                                    *)
LinkSession(m, k) == link[m][k].token

HasLinkSession(m, k) ==
    /\ LinkSession(m, k) \in DOMAIN store[m].sessions
    /\ store[m].sessions[LinkSession(m, k)].link = k

Session(m, t) == store[m].sessions[t]

-----------------------------------------------------------------------------
(* Being expected                                                          *)

(* create_or_reuse_session_for                                             *)
Reused(st, l) ==
    WithSession(IF Holds(st, l) THEN unmark_session_for_reaping(st, l) ELSE st, l,
                [link |-> NoLink, auth_id |-> l.who, ent |-> NoEntity])

OnExpectClient(m) ==
    /\ Handles(m, "Expect")
    /\ LET ev  == Head(inbox[m])
           st  == expect_client_session(Reused(store[m], ev.login), ev.login.who, ev.login)
           msg == [type |-> "Address", login |-> ev.login, map |-> m]
       IN  \/ /\ ev.version = 0
              /\ store' = [store EXCEPT ![m] = mark_session_for_reaping(st, ev.login, ev.login)]
              /\ gamedb' = Append(gamedb, [type |-> "NameCheck", login |-> ev.login, map |-> m])
              /\ inbox' = Popped(m)
              /\ UNCHANGED <<pool, gamein, link, quiet>>
           \/ /\ ev.version # 0 /\ pool[m].free = << >>
              /\ Stop("no free entity")
           \/ /\ ev.version # 0 /\ pool[m].free # << >>
              /\ store' = [store EXCEPT ![m] =
                              [st EXCEPT !.sessions[ev.login].ent = Head(pool[m].free)]]
              /\ pool' = [pool EXCEPT ![m] = CreatePlayer(@, ev.version)]
              /\ IF ev.from = NoMap
                 THEN gamein' = Append(gamein, msg) /\ inbox' = Popped(m)
                 ELSE inbox' = [Popped(m) EXCEPT ![ev.from] = Append(@, msg)] /\ UNCHANGED gamein
              /\ UNCHANGED <<gamedb, link, quiet>>

OnNameClashCheckResult(m) ==
    /\ Handles(m, "NameChecked")
    /\ LET ev  == Head(inbox[m])
           tell(to) == gamein' = Append(gamein, [type |-> "Address", login |-> ev.login, map |-> to])
       IN  \/ /\ ev.taken
              /\ tell(NoMap)
              /\ inbox' = Popped(m)
              /\ UNCHANGED <<store, pool, gamedb, link, quiet>>
           \/ /\ ~ev.taken
              /\ \/ \A e \in ToSet(store[m].expecting) : e.token # ev.login
                 \/ ~Holds(store[m], ev.login)
              /\ Stop("no cookie")
           \/ /\ ~ev.taken /\ Holds(store[m], ev.login)
              /\ \E e \in ToSet(store[m].expecting) : e.token = ev.login
              /\ store' = [store EXCEPT ![m] = unmark_session_for_reaping(@, ev.login)]
              /\ tell(m)
              /\ inbox' = Popped(m)
              /\ UNCHANGED <<pool, gamedb, link, quiet>>

-----------------------------------------------------------------------------
(* Joining                                                                 *)

(* The cookie says which session the link is for.                          *)
OnCreateMapEntity(m) ==
    /\ Handles(m, "NewEntity")
    /\ LET k  == Head(inbox[m]).link
           fresh == Head(inbox[m]).fresh
           st == connected_client(store[m], k.who)
           linked(t, e) == [store EXCEPT ![m] = mark_session_for_reaping(
                               [st EXCEPT !.sessions[t].link = k, !.sessions[t].ent = e], t, t)]
           ask(type, t) == gamedb' = Append(gamedb, [type |-> type, login |-> t, map |-> m])
       IN  \/ /\ Expected(store[m], k.who) = {}
              /\ Stop("no such cookie")
           \/ \E t \in Expected(store[m], k.who) :
                 /\ ~Holds(store[m], t)
                 /\ Stop("missing session")
           \/ \E t \in Expected(store[m], k.who) :
                 /\ Holds(store[m], t)
                 /\ IF fresh THEN pool[m].free = << >> ELSE Session(m, t).ent = NoEntity
                 /\ Stop("no entity")
           \/ \E t \in Expected(store[m], k.who) :
                 /\ Holds(store[m], t)
                 /\ IF fresh
                    THEN /\ pool[m].free # << >>
                         /\ store' = linked(t, Head(pool[m].free))
                         /\ pool' = [pool EXCEPT ![m] = CreatePlayer(@, 1)]
                         /\ ask("Create", t)
                    ELSE /\ Session(m, t).ent # NoEntity
                         /\ store' = linked(t, Session(m, t).ent)
                         /\ ask("GetEntity", t)
                         /\ UNCHANGED pool
                 /\ link' = [link EXCEPT ![m][k].token = t]
                 /\ inbox' = Popped(m)
                 /\ UNCHANGED <<gamein, quiet>>

OnCharacterCreated(m) ==
    /\ Handles(m, "Created")
    /\ LET l == Head(inbox[m]).login
       IN  \/ /\ ~Holds(store[m], l)
              /\ Stop("missing session")
           \/ /\ Holds(store[m], l)
              /\ store' = [store EXCEPT ![m] =
                              mark_session_for_reaping(unmark_session_for_reaping(@, l), l, l)]
              /\ gamedb' = Append(gamedb, [type |-> "GetEntity", login |-> l, map |-> m])
              /\ inbox' = Popped(m)
              /\ UNCHANGED <<pool, gamein, link, quiet>>

(* Mutant: the session stays marked.                                       *)
MutEntityResponse(m) ==
    /\ Handles(m, "Entity")
    /\ LET l == Head(inbox[m]).login
       IN  /\ Holds(store[m], l)
           /\ pool' = [pool EXCEPT ![m].id[Session(m, l).ent] = l.who]
           /\ gamein' = Append(gamein, [type |-> "Connected", login |-> l])
           /\ LinkAt(m, Session(m, l).link, "joining", "connected")
    /\ inbox' = Popped(m)
    /\ UNCHANGED <<store, gamedb, quiet>>

(* Mutant: the game handler is not told.                                   *)
MutTellsNobody(m) ==
    /\ Handles(m, "Entity")
    /\ LET l == Head(inbox[m]).login
       IN  /\ Holds(store[m], l)
           /\ store' = [store EXCEPT ![m] = unmark_session_for_reaping(@, l)]
           /\ pool' = [pool EXCEPT ![m].id[Session(m, l).ent] = l.who]
           /\ LinkAt(m, Session(m, l).link, "joining", "connected")
    /\ inbox' = Popped(m)
    /\ UNCHANGED <<gamein, gamedb, quiet>>

OnEntityResponse(m) ==
    /\ Handles(m, "Entity")
    /\ LET l == Head(inbox[m]).login
       IN  \/ /\ ~Holds(store[m], l)
              /\ Stop("missing session")
           \/ /\ Holds(store[m], l)
              /\ Session(m, l).ent = NoEntity \/ Session(m, l).link = NoLink
              /\ Stop("null pointer")
           \/ /\ Holds(store[m], l)
              /\ Session(m, l).ent # NoEntity /\ Session(m, l).link # NoLink
              /\ store' = [store EXCEPT ![m] = unmark_session_for_reaping(@, l)]
              /\ pool' = [pool EXCEPT ![m].id[Session(m, l).ent] = l.who]
              /\ gamein' = Append(gamein, [type |-> "Connected", login |-> l])
              /\ LinkAt(m, Session(m, l).link, "joining", "connected")
              /\ inbox' = Popped(m)
              /\ UNCHANGED <<gamedb, quiet>>

-----------------------------------------------------------------------------
(* Playing                                                                 *)

OnEntitiesRequest(m) ==
    /\ Handles(m, "EntitiesRequest")
    /\ LET k == Head(inbox[m]).link
       IN  \/ /\ ~HasLinkSession(m, k)
              /\ Stop("missing session")
           \/ /\ HasLinkSession(m, k)
              /\ store' = [store EXCEPT ![m] = add_to_active_sessions(@, LinkSession(m, k))]
              /\ LinkAt(m, k, "asking", "entities")
              /\ inbox' = Popped(m)
              /\ UNCHANGED <<pool, gamedb, gamein, quiet>>

(* A transfer is over when the client has drawn the new map.               *)
OnClientResumed(m) ==
    /\ Handles(m, "Resumed")
    /\ LET k == Head(inbox[m]).link
       IN  \/ /\ ~HasLinkSession(m, k)
              /\ Stop("missing session")
           \/ /\ HasLinkSession(m, k)
              /\ xfers' = [xfers EXCEPT ![LinkSession(m, k)] = NoMap]
              /\ inbox' = Popped(m)
              /\ UNCHANGED <<store, pool, server, post, gamedb, saved, gamein, game,
                             link, player, mishap, failed>>

(* The saves of map m are with its postman, who passes them on at once     *)
(* unless he is slow.                                                      *)
Posts(m, saves) ==
    IF mishap = "slow"
    THEN post' = [post EXCEPT ![m] = @ \o saves] /\ UNCHANGED gamedb
    ELSE gamedb' = gamedb \o saves /\ UNCHANGED post

Save(m, t) ==
    [type |-> "Save", login |-> t,
     data |-> [version |-> pool[m].version[Session(m, t).ent], map |-> m]]

(* The timer.  It is modelled when it has something new to save and the    *)
(* last round is through.                                                  *)
OnUpdateEntities(m) ==
    /\ failed = "none" /\ post[m] = << >>
    /\ \A i \in DOMAIN gamedb : gamedb[i].type # "Save"
    /\ \E t \in store[m].active : Save(m, t).data # saved[t.who]
    /\ Posts(m, SetToSeq({Save(m, t) : t \in store[m].active}))
    /\ UNCHANGED <<store, pool, inbox, server, xfers, saved, gamein, game,
                   link, player, mishap, failed>>

-----------------------------------------------------------------------------
(* Leaving: on_disconnect and on_link_lost                                 *)

(* Mutant: the entity stays.                                               *)
MutLeaving(m) ==
    /\ Handles(m, "Disconnect")
    /\ LET k == Head(inbox[m]).link
           t == LinkSession(m, k)
       IN  /\ HasLinkSession(m, k) /\ t \in store[m].active
           /\ gamein' = Append(gamein, [type |-> "Disconnected", login |-> t])
           /\ Posts(m, <<Save(m, t)>>)
           /\ store' = [store EXCEPT ![m] = remove_by_token(session_link_lost(@, t), t, t.who)]
           /\ link' = [link EXCEPT ![m][k].at = "closed"]
    /\ inbox' = Popped(m)
    /\ UNCHANGED <<pool, server, xfers, saved, game, player, mishap, failed>>

OnLeaving(m) ==
    /\ Handles(m, "Disconnect")
    /\ LET k == Head(inbox[m]).link
           t == LinkSession(m, k)
       IN  \/ /\ ~HasLinkSession(m, k)
              /\ Stop("missing session")
           \/ /\ HasLinkSession(m, k) /\ t \notin store[m].active
              /\ Stop("not active")
           \/ /\ HasLinkSession(m, k) /\ t \in store[m].active
              /\ gamein' = Append(gamein, [type |-> "Disconnected", login |-> t])
              /\ Posts(m, <<Save(m, t)>>)
              /\ pool' = [pool EXCEPT ![m] = removeEntityFromActiveList(@, Session(m, t).ent)]
              /\ store' = [store EXCEPT ![m] = remove_by_token(session_link_lost(@, t), t, t.who)]
              /\ link' = [link EXCEPT ![m][k].at = "closed"]
              /\ inbox' = Popped(m)
              /\ UNCHANGED <<server, xfers, saved, game, player, mishap, failed>>

(* Sessions reaped while the database answers; in most behaviours it is    *)
(* quicker than that.  Nothing is done about their entities.               *)
AwaitsDatabase(m, l) ==
    \/ \E i \in DOMAIN gamedb : gamedb[i].type # "Save" /\ gamedb[i].login = l /\ gamedb[i].map = m
    \/ \E i \in DOMAIN inbox[m] :
          inbox[m][i].type \in {"NameChecked", "Created", "Entity"} /\ inbox[m][i].login = l

Reap(m, stale) ==
    LET pass == StaleLinks(store[m], stale)
    IN  /\ failed = "none"
        /\ pass.reaped # << >>
        /\ mishap # "late" => \A e \in ToSet(pass.reaped) : ~AwaitsDatabase(m, e.token)
        /\ \/ /\ ReapsDestroyed(store[m], pass.reaped)
              /\ Stop("destroyed session")
           \/ /\ ~ReapsDestroyed(store[m], pass.reaped)
              /\ store' = [store EXCEPT ![m] = AfterReaping(@, pass)]
              /\ gamein' = gamein \o [i \in DOMAIN pass.reaped |->
                                        [type |-> "Disconnected", login |-> pass.reaped[i].token]]
              /\ link' = [link EXCEPT ![m] =
                             [k \in Logins |-> IF k \in ReapedLinks(store[m], pass.reaped)
                                               THEN [@[k] EXCEPT !.at = "closed"] ELSE @[k]]]
              /\ UNCHANGED <<pool, inbox, gamedb, quiet>>

-----------------------------------------------------------------------------
(* From one map to another                                                 *)

(* Mutant: the character goes along as it was stored.                      *)
MutInitiate(m) ==
    /\ Handles(m, "Initiate")
    /\ LET t == LinkSession(m, Head(inbox[m]).link)
       IN  /\ HasLinkSession(m, Head(inbox[m]).link) /\ xfers[t] # NoMap
           /\ server' = Append(server, [type |-> "Expect", login |-> t, to |-> xfers[t],
                                        from |-> m, version |-> saved[t.who].version])
    /\ inbox' = Popped(m)
    /\ UNCHANGED <<store, pool, xfers, post, gamedb, saved, gamein, game, link, player, mishap, failed>>

(* The character goes along as it is now.                                  *)
OnInitiateMapTransfer(m) ==
    /\ Handles(m, "Initiate")
    /\ LET k == Head(inbox[m]).link
           t == LinkSession(m, k)
       IN  \/ /\ ~HasLinkSession(m, k)
              /\ Stop("missing session")
           \/ /\ HasLinkSession(m, k)
              /\ server' = IF xfers[t] = NoMap THEN server
                           ELSE Append(server, [type |-> "Expect", login |-> t, to |-> xfers[t],
                                                from |-> m, version |-> Save(m, t).data.version])
              /\ inbox' = Popped(m)
              /\ UNCHANGED <<store, pool, xfers, post, gamedb, saved, gamein, game,
                             link, player, mishap, failed>>

OnExpectClientResponse(m) ==
    /\ Handles(m, "Address")
    /\ LET l == Head(inbox[m]).login
       IN  \/ /\ ~Holds(store[m], l)
              /\ Stop("missing session")
           \/ /\ Holds(store[m], l) /\ Session(m, l).link = NoLink
              /\ Stop("null pointer")
           \/ /\ Holds(store[m], l) /\ Session(m, l).link # NoLink
              /\ LinkAt(m, Session(m, l).link, "initiated", "address")
              /\ player' = [player EXCEPT ![l.who].to = Head(inbox[m]).map]
              /\ inbox' = Popped(m)
              /\ UNCHANGED <<store, pool, server, xfers, post, gamedb, saved, gamein, game,
                             mishap, failed>>

(* The map server passes on who is expected and keeps the first transfer   *)
(* of a session that is not over.                                          *)
ServerHandles ==
    /\ failed = "none" /\ server # << >>
    /\ LET ev == Head(server)
       IN  IF ev.type = "Expect"
           THEN inbox' = [inbox EXCEPT ![ev.to] = Append(@, ev)] /\ UNCHANGED xfers
           ELSE /\ xfers' = [xfers EXCEPT ![ev.login] = IF @ = NoMap THEN ev.to ELSE @]
                /\ UNCHANGED inbox
    /\ server' = Tail(server)
    /\ UNCHANGED <<store, pool, post, gamedb, saved, gamein, game, link, player, mishap, failed>>

-----------------------------------------------------------------------------
(* Database and postmen                                                    *)

Delivers(m) ==
    /\ failed = "none" /\ post[m] # << >>
    /\ gamedb' = Append(gamedb, Head(post[m]))
    /\ post' = [post EXCEPT ![m] = Tail(@)]
    /\ UNCHANGED <<store, pool, inbox, server, xfers, saved, gamein, game, link, player, mishap, failed>>

Reply(msg) == inbox' = [inbox EXCEPT ![Head(gamedb).map] = Append(@, msg)]

DatabaseServes ==
    /\ failed = "none" /\ gamedb # << >>
    /\ LET ev == Head(gamedb)
       IN  \/ /\ ev.type = "Save"
              /\ saved' = [saved EXCEPT ![ev.login.who] = ev.data]
              /\ UNCHANGED inbox
           \/ /\ ev.type = "NameCheck"
              /\ \E taken \in IF mishap = "taken" /\ ~player[ev.login.who].refused
                              THEN BOOLEAN ELSE {FALSE} :
                    Reply([type |-> "NameChecked", login |-> ev.login, taken |-> taken])
              /\ UNCHANGED saved
           \/ /\ ev.type = "Create"
              /\ Reply([type |-> "Created", login |-> ev.login])
              /\ saved' = [saved EXCEPT ![ev.login.who].version = 1]
           \/ /\ ev.type = "GetEntity"
              /\ Reply([type |-> "Entity", login |-> ev.login])
              /\ UNCHANGED saved
    /\ gamedb' = Tail(gamedb)
    /\ UNCHANGED <<store, pool, server, xfers, post, gamein, game, link, player, mishap, failed>>

(* A map has no handler for the error it is sent.                          *)
DatabaseFails ==
    /\ failed = "none" /\ mishap = "dberror"
    /\ gamedb # << >>
    /\ gamedb' = Tail(gamedb)
    /\ UNCHANGED <<store, pool, inbox, server, xfers, post, saved, gamein, game,
                   link, player, mishap, failed>>

-----------------------------------------------------------------------------
(* The game handler: on_client_expected, on_client_connected_to_other_     *)
(* server, on_client_disconnected_from_other_server.  marks: how many      *)
(* entries the session has on the list of those to be reaped               *)

GameHandles ==
    /\ failed = "none" /\ gamein # << >>
    /\ LET ev == Head(gamein)
           l  == ev.login
       IN  \/ /\ ev.type = "Address"
              /\ player' = IF player[l.who].nr # l.nr THEN player
                           ELSE [player EXCEPT ![l.who].to = ev.map,
                                               ![l.who].at = IF ev.map = NoMap THEN "refused" ELSE "told",
                                               ![l.who].refused = @ \/ ev.map = NoMap]
              /\ UNCHANGED game
           \/ /\ ev.type = "Connected"
              /\ game' = [game EXCEPT ![l] = [on |-> TRUE,
                                              marks |-> IF @.marks = 0 THEN 0 ELSE @.marks - 1]]
              /\ UNCHANGED player
           \/ /\ ev.type = "Disconnected"
              /\ game' = [game EXCEPT ![l] = [on |-> FALSE, marks |-> @.marks + 1]]
              /\ UNCHANGED player
    /\ gamein' = Tail(gamein)
    /\ UNCHANGED <<store, pool, inbox, server, xfers, post, gamedb, saved, link, mishap, failed>>

-----------------------------------------------------------------------------
(* The clients                                                             *)

clientRest == <<store, pool, xfers, post, gamedb, saved, gamein, mishap, failed>>

Now(a) == [who |-> a, nr |-> player[a].nr]

Away(k) == \A m \in Maps : link[m][k].at \in {"none", "closed"}

(* The last login is over, or its address is not used.                     *)
MayLogIn(a) ==
    /\ player[a].left > 0
    /\ \/ player[a].at = "out"
       \/ /\ player[a].at \in IF mishap = "again" THEN {"told", "gone"} ELSE {"gone"}
          /\ Away(Now(a))
          /\ player[a].to = NoMap \/ mishap = "again"

(* MapServerAddrRequest, and on_map_req.  The character is as it was in    *)
(* the database when the account was loaded.                               *)
AsksForMap(a) ==
    /\ failed = "none"
    /\ player[a].at = "refused" \/ MayLogIn(a)
    /\ \A i \in DOMAIN gamedb : gamedb[i].type = "Save" => gamedb[i].login.who # a
    /\ LET again == player[a].at = "refused"
           l == IF again THEN Now(a) ELSE [who |-> a, nr |-> player[a].nr + 1]
       IN  /\ player' = [player EXCEPT ![a].nr = l.nr, ![a].left = IF again THEN @ ELSE @ - 1,
                                       ![a].at = "asked", ![a].to = NoMap]
           /\ server' = Append(server, [type |-> "Expect", login |-> l, to |-> saved[a].map,
                                        from |-> NoMap, version |-> saved[a].version])
    /\ UNCHANGED <<inbox, game, link, clientRest>>

(* The client closes its link to the game server once it has an address.   *)
LeavesGame(a) ==
    /\ failed = "none" /\ player[a].at = "told"
    /\ player' = [player EXCEPT ![a].at = "gone"]
    /\ game' = [game EXCEPT ![Now(a)].marks = IF game[Now(a)].on THEN @ ELSE @ + 1]
    /\ UNCHANGED <<inbox, server, link, clientRest>>

Connects(a, m) ==
    /\ failed = "none"
    /\ player[a].to = m /\ player[a].at \in {"told", "gone"}
    /\ link[m][Now(a)].at \in {"none", "closed"}
    /\ Away(Now(a)) \/ mishap = "lingers"
    /\ link' = [link EXCEPT ![m][Now(a)] = [at |-> "joining", token |-> NoLogin]]
    /\ inbox' = [inbox EXCEPT ![m] =
                    Append(@, [type |-> "NewEntity", link |-> Now(a), fresh |-> saved[a].version = 0])]
    /\ player' = [player EXCEPT ![a].to = NoMap]
    /\ UNCHANGED <<server, game, clientRest>>

Sends(m, k, from, to, type) ==
    /\ failed = "none" /\ link[m][k].at \in from
    /\ link' = [link EXCEPT ![m][k].at = to]
    /\ inbox' = [inbox EXCEPT ![m] = Append(@, [type |-> type, link |-> k])]
    /\ UNCHANGED <<server, game, player, clientRest>>

RequestsEntities(m, k) == Sends(m, k, {"connected"}, "asking", "EntitiesRequest")

Resumes(m, k) == Sends(m, k, {"entities"}, "playing", "Resumed")

Initiates(m, k) == Sends(m, k, {"waiting"}, "initiated", "Initiate")

(* It disconnects, or is lost.                                             *)
LeavesMap(m, k) ==
    Sends(m, k, {"playing", "address"} \union
                IF mishap = "early" THEN {"connected", "asking", "entities", "waiting", "initiated"}
                ELSE {},
          "leaving", "Disconnect")

(* on_enter_door, on_map_swap_collision                                    *)
EntersDoor(m, k, to) ==
    /\ failed = "none" /\ link[m][k].at = "playing"
    /\ to # m /\ player[k.who].moves > 0
    /\ player[k.who].at = "gone" \/ mishap = "lingers"
    /\ link' = [link EXCEPT ![m][k].at = "waiting"]
    /\ player' = [player EXCEPT ![k.who].moves = @ - 1]
    /\ server' = Append(server, [type |-> "Transfer", login |-> LinkSession(m, k), to |-> to])
    /\ UNCHANGED <<inbox, game, clientRest>>

(* Something about the character changes.                                  *)
Plays(m, k) ==
    /\ failed = "none"
    /\ link[m][k].at \in {"playing"} \union
                         IF mishap = "acts" THEN {"waiting", "initiated", "address"} ELSE {}
    /\ HasLinkSession(m, k)
    /\ LET e == Session(m, LinkSession(m, k)).ent
       IN  /\ pool[m].version[e] < MaxVersion
           /\ pool' = [pool EXCEPT ![m].version[e] = @ + 1]
    /\ UNCHANGED <<store, inbox, server, xfers, post, gamedb, saved, gamein, game,
                   link, player, mishap, failed>>

-----------------------------------------------------------------------------
Init ==
    /\ store = [m \in Maps |-> EmptyStore]
    /\ pool = [m \in Maps |-> [live |-> {}, free |-> [e \in Entities |-> e],
                               id |-> [e \in Entities |-> NoAccount],
                               version |-> [e \in Entities |-> 0]]]
    /\ inbox = [m \in Maps |-> << >>] /\ server = << >>
    /\ xfers = [l \in Logins |-> NoMap]
    /\ post = [m \in Maps |-> << >>] /\ gamedb = << >>
    /\ saved \in [Accounts -> {s \in Stored : s.version < 2}]
    /\ gamein = << >>
    /\ game = [l \in Logins |-> [on |-> FALSE, marks |-> 0]]
    /\ link = [m \in Maps |-> [k \in Logins |-> [at |-> "none", token |-> NoLogin]]]
    /\ \E plan \in Plans :
          player = [a \in Accounts |-> [nr |-> 0, left |-> plan[a].logins, at |-> "out", to |-> NoMap,
                                        refused |-> FALSE, moves |-> plan[a].moves]]
    /\ mishap \in Mishaps
    /\ failed = "none"

MapHandles(m) ==
    \/ OnExpectClient(m) \/ OnNameClashCheckResult(m) \/ OnCreateMapEntity(m)
    \/ OnCharacterCreated(m) \/ OnEntityResponse(m) \/ OnEntitiesRequest(m)
    \/ OnClientResumed(m) \/ OnLeaving(m) \/ OnInitiateMapTransfer(m) \/ OnExpectClientResponse(m)

Next ==
    \/ \E m \in Maps : MapHandles(m) \/ OnUpdateEntities(m) \/ Delivers(m)
    \/ \E m \in Maps : \E e \in ToSet(store[m].waiting) : Reap(m, e.since)
    \/ ServerHandles \/ DatabaseServes \/ DatabaseFails \/ GameHandles
    \/ \E a \in Accounts : AsksForMap(a) \/ LeavesGame(a) \/ \E m \in Maps : Connects(a, m)
    \/ \E m \in Maps, k \in Logins :
          \/ RequestsEntities(m, k) \/ Resumes(m, k) \/ Initiates(m, k) \/ LeavesMap(m, k)
          \/ Plays(m, k) \/ \E to \in Maps : EntersDoor(m, k, to)

Spec == Init /\ [][Next]_vars

-----------------------------------------------------------------------------
(* No map fails, unless a client leaves too early, logs in again instead   *)
(* of joining or is on two maps, or the database is too late.              *)
MapNeverFails ==
    mishap \in {"none", "acts", "taken", "dberror", "slow"} => failed = "none"

(* An entity is free, once, or on the live list, and no two sessions have  *)
(* the same.                                                               *)
PoolIsSound ==
    \A m \in Maps :
        /\ \A i, j \in DOMAIN pool[m].free : pool[m].free[i] = pool[m].free[j] => i = j
        /\ ToSet(pool[m].free) = Entities \ pool[m].live
        /\ \A s, t \in DOMAIN store[m].sessions :
              /\ Session(m, t).ent # NoEntity => Session(m, t).ent \in pool[m].live
              /\ Session(m, s).ent = Session(m, t).ent /\ s # t => Session(m, t).ent = NoEntity

(* Every entity on the live list has a player: none is lost with a session *)
(* that is reaped or reused, unless the database is late or fails or a     *)
(* client is on two maps.                                                  *)
NothingLeaks ==
    mishap \notin {"late", "dberror", "lingers"} =>
        \A m \in Maps : \A e \in pool[m].live :
            \E t \in DOMAIN store[m].sessions : Session(m, t).ent = e

(* Once it has heard everything, the game handler knows who plays on a map *)
(* and is not about to reap the session.                                   *)
Shown(m, t) ==
    /\ Session(m, t).link # NoLink
    /\ link[m][Session(m, t).link].at \in
          {"connected", "asking", "entities", "playing", "waiting", "initiated", "address"}

PlayersAreKnown ==
    mishap \notin {"lingers", "taken"} /\ failed = "none" =>
        \A m \in Maps : \A t \in DOMAIN store[m].sessions :
            /\ Shown(m, t)
            /\ \A i \in DOMAIN gamein : gamein[i].login # t
            => game[t].on /\ game[t].marks = 0

(* What is stored of a character is never replaced by something older,     *)
(* unless it was on two maps, played on or left during a transfer, logged  *)
(* in again instead of joining, or a postman was slow.                     *)
NothingRolledBack ==
    [][mishap \notin {"early", "lingers", "acts", "again", "slow"} =>
          \A a \in Accounts : saved'[a].version >= saved[a].version]_vars

(* Those found on a map by their database id; Presence is what the maps    *)
(* promise the handlers that look for somebody.                            *)
Found == {ma \in Maps \X Accounts : \E e \in pool[ma[1]].live : pool[ma[1]].id[e] = ma[2]}

Present == INSTANCE Presence WITH Characters <- Maps \X Accounts, here <- Found

ImplementsPresence == Present!PresenceSpec
=============================================================================
