# A TLA+ development of SEGS

SEGS (Super Entity Game Server) is a set of C++ servers for an online game
client: an authentication server, a game server, map servers and their
databases, started as one process (`src/Servers/AuthServer/main.cpp`). This
directory holds TLA+ modules translated from its source, the TLC configurations
that check them on small instances, and TLAPS proofs about them.

## The system

One thread runs the ACE reactor (`main.cpp:334-339`) and with it every socket,
link and endpoint. Every *handler* (an `EventProcessor`) has a queue and a
thread of its own. Components share nothing on purpose: they post events to
each other's queues with `putq`, and a timer posts a timeout event to the queue
of its own handler. The message bus delivers one event to many queues.

| Part | Source (under `src/`) | State | Operations | What makes it correct |
|---|---|---|---|---|
| CRUDP link | `Common/CRUDP_Protocol` | sequence numbers, send and retransmission queues, acks owed, sibling groups, available packets | send an event, receive a datagram, pass packets on, retransmit, detect an unresponsive peer | messages pass in order, once, whole; an ack frees only what arrived; the sequence does not block |
| Session store | `Common/Servers/ClientManager.h` | token -> session, id -> token, expected cookies, active sessions, sessions waiting to be reaped | create or reuse, expect, connect, mark, unmark, link lost, reap | no session in use is destroyed; no list refers to a destroyed session; every abandoned session goes |
| Authentication handler | `Servers/AuthServer/AuthHandler.cpp` | a store, per session: link, client id, game server it is on | connect, login, server list, selection, answers of database and game server, disconnect, reap | one login per account; a session outlives its hand-over |
| Authentication link | `Common/AuthProtocol/AuthLink.cpp` | stage, partial send, ciphers | TCP read and write, close | stages only advance; no byte is lost on a partial write |
| Game handler | `Servers/GameServer/GameHandler.cpp` | a store, per session: link, characters, map | expect client, update server, map request, characters, disconnect, reap | as for the authentication handler |
| Map server and instances | `Servers/MapServer/MapServer.cpp`, `MapInstance.cpp` | a store, entities, transfers in progress | expect client, create character or entity, enter, transfer, disconnect, reap, about 120 game commands | an entity belongs to one session; transfers neither lose nor duplicate a character; nothing newer is overwritten |
| Team service | `Servers/GameServer/TeamService` | teams, members, looking-for-group list | invite, accept, decline, kick, leave, promote, sidekick | a character is on one team; every team has a leader in it and more than one member |
| Email, friends, options | `Servers/GameServer/*Service` | in-memory copies of database rows and of who is online | as named | what is known of a client follows its arrivals and departures; copy and table agree |
| Event processor, timers | `Components/EventProcessor.cpp`, `SEGSTimer.cpp` | queue, thread, timers | activate, dispatch, finish, wait | who is waited for is told to finish |
| Message bus, locator | `Common/Servers/MessageBus.cpp`, `HandlerLocator.cpp` | subscribers by event, handlers by id | subscribe, unsubscribe, publish | nobody changes the lists while they are walked; nothing is posted to what is destroyed |
| Server process | `Servers/AuthServer/main.cpp`, `GameServer.cpp`, `MapServer.cpp` | the processors, `s_event_loop_is_done` | start, configure, reactor loop, interrupt, failure, shutdown | shutdown comes to an end, in an order in which nothing is used after it is gone |
| Databases | `Servers/AuthDatabase`, `Servers/GameDatabase` | SQL rows, character slots | one statement per request | answers carry the request's session |
| Trade | `Common/GameData/Trade.cpp`, `SlashCommand_Trade.cpp` | two parties, offers, acceptance flags | start, update, cancel, complete | nothing moves unless both accepted the same offer; nothing is lost or doubled |
| Entity storage | `Servers/MapServer/EntityStorage.cpp` | slots, free list, live set | create, remove | a live entity's slot is not on the free list |
| Serialisation | `Components/BitStream.cpp`, codecs, `*_serializers.cpp` | none | pack, unpack | unpack undoes pack |
| The rest | world simulation, game data, runtime, editor, utilities | | | numeric code, data and tools |

How they interact: a client logs in over a TCP link to the authentication
handler, which asks its database, then asks a game handler to *expect* the
client under a cookie. The client connects to the game server over CRUDP with
the cookie; the game handler tells the authentication handler, loads the
account and, on a map request, asks the map server to expect the client in the
same way. Each handler marks sessions whose link is gone and a timer reaps those
that stay so. `PROJECT.json` lists the components precisely and, under
"hazards", the places where this is hard to test, with their lines.

The hard behaviour is: datagrams lost, repeated and out of order, with
acknowledgements that travel on lossy packets (CRUDP); reapers that run on a
timer against a client that moves between servers at its own pace (sessions);
answers that arrive after the state they were asked for has changed (team
invitations, trades, map transfers, database answers); messages about one player
that take different ways and overtake each other (mail, transfers, saves); a
shutdown that two threads may run at once, also while the process starts.

## Modules

| Module | Models |
|---|---|
| `FifoChannel` | abstract: in each direction, what was put in comes out in order, once |
| `Crudp` | the CRUDP link: both ends and the network between them |
| `MCCrudp` | instances of `Crudp` for TLC |
| `CrudpProofs` | theorems about `Crudp`: types, delivery, the refinement, acks, and what became of every packet that arrived |
| `SessionStore` | `ClientSessionStore` as operators on a record |
| `Queues` | what both handlers share: the clients and the event queues |
| `AuthHandler` | the authentication handler, its store, its links, its database |
| `GameHandler` | the game handler, its store, its links, its database, the map server seen from it |
| `Handover` | both handlers composed with the clients and the reapers' clocks |
| `MCHandover` | instances of `Handover` for TLC |
| `HandoverProofs` | theorems about `Handover`: types, `InGameIsThere`, `MappedIsHeld` and `LoggedInIsThere`, from what the session store, its reaper and every handler do |
| `Presence` | abstract: who is on the map |
| `Trade`, `Mail`, `Team` | trading, the e-mail service, the team service, each over `Presence` |
| `Services`, `MCServices` | the three composed, and an instance for TLC |
| `FoldProofs` | induction over the folds (loops) of the models |
| `ServicesProofs` | theorems about `Trade` and `Mail`: an acceptance is current; no item is doubled; the five properties of mail |
| `TeamProofs` | theorems about `Team`: types, one team each, teams are led, seekers are free, no answer unexpected, what the entities show follows the teams |
| `ServicesTypesProofs` | theorem about `Services`: everything the three services keep has its type |
| `MapSessions`, `MCMapSessions` | map instances, map server, postmen, database and the players between them, and an instance for TLC; shown to implement `Presence` |
| `MapSessionsProofs` | theorem: entities are lent out soundly |
| `Processes` | the threads of the process from start to shutdown |
| `ProcessesProofs` | theorems about `Processes`: types, nobody waits for ever, nothing gone is used |
| `MCServer` | instances of `Handover` and `Processes` for TLC |

How they fit: `SessionStore` is used by `AuthHandler`, `GameHandler` (composed in
`Handover`, where the map server is external) and by `MapSessions` (where the game
handler is external, down to what it keeps of a session). `Trade`, `Mail` and
`Team` extend `Presence`, which is what `MapSessions` promises them.

### Crudp

State. One function from the two ends for every field of `CrudP_Protocol`
(`CRUDP_Protocol.h:66-85`) that matters: `send_seq`, `recv_seq`, `sibling_id`,
`send_queue`, `reliable_packets`, `recv_acks`, `sibling_map`, `avail_packets`;
`heard` stands for `m_last_activity` being set. `draining` marks the loop of
`CRUDLink::received_block`. `network` is the set of datagrams that may still
arrive. `sent`, `delivered`, `received`, `discarded` and `wild` are histories.
A packet is a record of sequence number, number of siblings (0 when the message
was not split), sibling id, position, and a body naming its message and part.

Actions. Everything at one end runs on the reactor thread, so a handler is one
step:

- `SendEvent(p, n)`: `packets_for_event` for an event of size `n` (Idle is one):
  `SendPacket` splits and numbers it, `batchSend` retransmits any set of
  unacknowledged packets, then sends the queue, and `storeAcks` spreads the acks
  owed over those packets.
- `SendUnresponsive(p, n)`: the same when `isUnresponsiveLink`: the event is
  queued, nothing is sent, the target is sent a `Disconnect`.
- `ReceivedBlock(p, d)`: the acks on the datagram free packets, its number is
  owed an ack, and it, or the message its group completes, becomes available.
- `RecvPacket(p)`: four disjuncts for the four ways out of the function. One call
  is one step, and while `draining` that end does nothing else.

A lost datagram is one that is never received: no action is needed, as the
safety properties cannot tell, and `LiveSpec` says when nothing is lost.
`Duplicating` and `Overtaking` say what the network may do.

Abstractions. Clocks: any set of unacknowledged packets may be due, and a link
that was heard and has something unacknowledged may count as unresponsive; both
allow more than the delays of `getPacketResendDelay` and the 15 s rule.
Contents, bit packing, checksum, cipher and padding are left out. All events of
the code are reliable (`CRUD_Events.h:55`), so the branch of `batchSend` that
deletes an unreliable packet never runs. `clearQueues` has no caller. Numbers do
not wrap. What `RecvPacket` would do after popping a packet it never looked at
depends on undefined behaviour; the model records that it happened (`wild`) and
`NoBlindPop` shows that it never does.

Properties.

- `InOrderExactlyOnce`: what an end is given is what the other sent, in order,
  whole, without gap or repetition.
- `ImplementsChannel`: the link refines `FifoChannel`, with the messages queued
  as `offered` and those passed on as `obtained`. A message for which the queue
  had no room at all is not offered; one that found room for some parts only is
  offered and never comes out.
- `TypeOK`: besides the types, the send queue never outgrows its capacity
  (`FixedSizePacketQueue`), also when a message is split into more parts than there is
  room for (`QueueBounded`).
- `NoBlindPop`: at most one packet is ever available, which is what keeps the
  duplicate loop of `RecvPacket` (317-324) from discarding an unseen packet.
- `ForgottenWasReceived`: an ack frees only packets that arrived. That a sender whose
  acks are lost gets on at last is not said: that is up to Idle events.
- `ReceivedIsAccountedFor`: what arrived was passed on, waits for its siblings,
  or was dropped for being ahead; no other way of losing it exists.
- `EventuallyDelivered`: on a network without loss or reordering every message
  is passed on, unless the link was declared dead.

Two documented properties fail, and a run shows each:

- `AcknowledgedIsKept` (`crudp_ahead`): the comments at `CRUDP_Protocol.cpp:37`
  and `:304` say that only the next packet is taken out. The code takes the first
  one out and drops it when it is ahead, after having acknowledged it.
  Its sender forgets it, and the link never passes anything on again.
- `OldIsRejected` (`crudp_stale`): the comment at `:33` says old packets are
  rejected before they are stored. They are not, and a late part of a message
  already passed on opens a sibling group that stays.

### SessionStore, AuthHandler, GameHandler, Handover

`Handover` extends the modules of both handlers, guards their actions with what
the clients and the clocks may do, and says what the rest of the system keeps.

State. A store is a record with the five containers of `ClientSessionStore`:
`sessions` (the token map), `id_to_token`, `expecting`, `waiting` (the reaper's
entries) and `active`. A pointer to a session is its token, since the map is node
based. `auth` and `game` are the two handlers' stores; `authq` and `gameq` their
event queues; `authdb` and `gamedb` the requests their databases have yet to
answer. `alink` and `glink` are the TCP and CRUDP links, by client: an AuthLink's
stage and stored token, whether its socket is up, a queued `Finish`, and, of the
client rather than the link, whether it waits for an answer (`asked`) or was refused.
`map` is what the map server knows of a session. `failed` says why the process stopped: `fatal_failure`
aborts, and a null link or a destroyed session is undefined behaviour that no
build survives in a useful way. Assertions are taken as compiled out, as in a
release build.

Actions. A handler runs on its own thread, one event at a time, and its timer
posts to the same queue; so each `On...` action is one handler with everything it
does, and has one disjunct per early return. `ReapAuth` and `ReapGame` are one
pass of `reap_stale_links`. The link's actions run on the reactor thread:
`LinkClose` and `LinkFinish` post a `Disconnect` with the token the link holds
*now*, ahead of everything but other Disconnects (`enqueue_prio`). An answer is
in the same step as the change that provokes it; queues keep the order in which
the code posts. `StaleLinks` is the reaper's loop in closed form: which entries it
takes out, and what the swaps with the last entry leave where.

`LinkInput` is `handle_input`: whatever comes in on an open link is posted, at any
stage. The handlers look at the stage: a login on a link that is not `CONNECTED`, a
list request on one that is not `AUTHORIZED`, a selection on one that has not seen the
list are refused (`Refused`), as is a login whose name or password is too long or whose
name is too short, and the selection of a server that is not there. What a client may
do is apart from the link, and external: it sends one request and waits for its answer
(`ClientAsks`), and, but for the fault `"stray"`, asks what is next (`Request`). A
client that asks for a server before it has logged in makes `session_from_event` abort;
`"stray"` is about clients that have a session.

Time. A reaper's entry records the order of the marks (`since`); the pass takes
the entries up to some mark. Without the fault `"slow"` it may run only when
nothing about those sessions is on its way: no event, database answer or map
answer about them, and no client between two servers that still intends to come
(`OnTheWay`). That is what the 2 s and 5 s are meant to ensure. With `"slow"` it
may run at any time.

`Faults` says what goes wrong besides clients giving up: `"slow"`; `"early"`, a
client closes while it waits for an answer; `"retry"`, a refused client logs in
again on the same link; `"race"`, two clients of an account log in at the same
time; `"keep"`, a client enters the next server before its link to the last is
closed; `"dberror"`, a database answers with an error; `"stray"`, a client that is
logged in asks out of turn: logs in again, asks for the list twice, selects too early.

Properties. Without faults, or with `"stray"` alone:

- `NeverFails`: no handler aborts, follows a null link or reads a destroyed session.
- `OneLogin`: an account is in use in one session, and a session by one client.
- `UsedIsKnown`: a client on a server or map has a session that counts as in use,
  so another login of the account is turned away.
- `NoDangling`: the lists of both stores refer to sessions that exist.
- `LoggedInIsThere`: a session logged in has a link that is up or whose end is
  about to be reported.

With faults too:

- `InGameIsThere`: a session the authentication server counts as in game exists
  in the game server, or the message that ends it is in the queue. (Otherwise the
  account could never log in again.)
- `MappedIsHeld`: the session an account is mapped to exists.

The five that hold without the other faults fail with some of them; three disagreements with
what the source says of itself have a run each:

- `LoggedInIsThere` with `"early"` (`handover_early`): `on_disconnect` takes a
  token of 0 for a client that never logged in. It is also that of a client whose
  login is being looked up; the answer then logs in a session without a client,
  and the account stays "already online".
- `NeverFails` with `"slow"` (`handover_slow`): a session that waits for the game
  database "is going to be removed"; the answer that comes later aborts the server.
- `AbandonedIsReaped` (`handover_leak`): the session of a client that leaves the
  game is queued for reaping under token 0, so no session is ever destroyed.

Abstractions. A client makes each connection once, its cookie is named by it, and it is
patient: it does not send a request before the last one was answered.
`create_cookie` is taken as collision free. There is one game server and one map
server. A DisconnectRequest and the Disconnect of an unresponsive link have the
same effect on sessions and are one event. The map server is external here: it
answers each request, and reports a client that enters and leaves. The `Finish`
on a game link closes the link and changes no session. After a `Finish` an
AuthLink posts its Disconnect; whether the reactor goes on reading its socket is
left open. Left out: character slots, server list contents, Idle, service status,
broadcasts on the message bus.

### Presence, MapSessions

`Presence` is the abstract view every game service has of a map: a character is
there from the moment its entity is filled and shown until it is taken off the
list of live entities. `ImplementsPresence` says that map instances, with their
pools, stores and transfers, implement it.

State. Per map: `store` (its `ClientSessionStore`), `pool` (`EntityStore` and
`EntityManager`: `live`, `free`, and of each entity the database id and the version
of the character it was filled with), `inbox` (its queue), and `post` (the queue of
its `GameDBSyncService`, the thread that takes its saves to the database). `server`
is the map server's queue and `xfers` its `m_current_map_transfers`; `gamedb` the
database's queue and `saved` what is stored; `gamein` and `game` are what the maps
tell the game handler and what that keeps: whether a session is on, and how often
it is marked for reaping. `link` is how far a client has got on each map.

Actions. One per handler of `MapInstance.cpp` that a session's life goes through:
`OnExpectClient`, `OnNameClashCheckResult`, `OnCreateMapEntity`,
`OnCharacterCreated`, `OnEntityResponse`, `OnEntitiesRequest`, `OnClientResumed`,
`OnUpdateEntities`, `OnLeaving` (disconnect and lost link), `Reap`,
`OnInitiateMapTransfer`, `OnExpectClientResponse`; `ServerHandles` for the map
server, `Delivers` for a postman, `DatabaseServes` and `DatabaseFails`,
`GameHandles`, and the clients'. A version stands for all that is saved of a
character; playing on makes a newer one.

A behaviour has one `mishap`, chosen at the start, and the properties name those
they do not survive:

- `MapNeverFails`: no map aborts or reads through null. Not with `"early"` (a link
  lost before the session is active, `MapInstance.cpp:737`), `"late"` (an answer for
  a session that was reaped), `"again"` (a login instead of joining leaves a cookie of
  the old session), `"lingers"`.
- `PoolIsSound`: an entity is free once or live, and no two sessions have the same.
  Under every mishap.
- `NothingLeaks`: every live entity has a session. Not with `"late"`, `"dberror"`
  (the map has no handler for `GameDbErrorMessage`), `"lingers"`.
- `PlayersAreKnown`: when all is heard, the game handler knows who plays, and is not
  about to reap it. Not with `"lingers"` (the old map's leaving comes after the new
  map's arrival) or `"taken"` (the session of a name that is taken stays marked).
- `NothingRolledBack`: what is stored is never replaced by something older. Not with
  `"lingers"`, `"acts"` (the snapshot travels while the player plays on), `"slow"`
  (saves of two maps are not ordered), `"early"` (a transfer goes on for a client that
  left, and the other map expects it ever after; it takes three maps to see) or `"again"`
  (the cookie keeps the old session, and an entity filled from an older save is joined).
- `ImplementsPresence`, as long as the pool is not used up once: a recycled entity
  keeps the database id of its last player until it is filled (`EntityHelpers.cpp:412`).
  `PoolSize` is chosen so that this does not happen; the code's pool has 10239.

That each excuse is necessary was checked by dropping it. Left out: missing map
templates, slot -1, respawn, creatures and NPCs (which take from the same pool),
what an assertion in a debug build would stop.

### Trade, Mail, Team, Services

Each has the players' moves, the handlers, and the messages between. `Services` puts
them together: they share who is on the map and nothing else, so a behaviour is of
one service, chosen at the start.

`Trade`. `trade` is `m_trade` of each entity, `trades` the objects pointed to (the
code's are shared pointers: one nobody points to is gone), `goods` influence,
enhancement tray and inspirations. Actions: request, decline, an answer to somebody
who has left, cancellation, `OnTradeUpdated` (offer and acceptance in one message,
with `updateTrade` and `finishTrade`), and everything a player does to its trays
meanwhile: moving, trashing, using, selling, buying. Influence is kept modulo
`MaxInf + 1`, as the code keeps it modulo 2^32.
The server looks nothing up in the trays when an offer comes; that a window shows only
what its player has, names the other side of the deal, and is there only for those who
made the deal, is the client's doing and external (`CanOffer`, `WindowUpdated`).
Nothing resets `m_trade`, neither a logout (the TODO at `Trade.cpp:250`) nor
`initializeNewPlayerEntity`: `TradeLeaves` leaves pointer and deal where they are, and who
enters is lent any entity that is free, with the trade its last player left in it
(`TradeEnters`; the pool has one entity for each character). It then finds itself in
a deal it is no side of, until it cancels that or answers somebody who has gone.
`AcceptedIsCurrent`: an acceptance stands only while both offers are what they were. An
acceptance carries only its sender's own offer, so what the other side has put on the
table meanwhile is accepted with it; no property says that the sender saw it.
`HeldOnce`: trading doubles no item. `ExchangeIsExact`: each side loses what it
offered and gains what it was offered. It excuses a side that touched its trays
after it accepted (nothing in the code resets the acceptance then), offers of places
that are empty, and inspirations named in an order in which taking one out shifts the
next: the code handles none of these, and goods go astray without being doubled.

`Mail`. `clients` and `mails` are the service's maps, `dbmails` the table, `mailq` and
`maildb` the two queues; `bus` is the way arrivals and departures take. Actions: the
ten handlers of `EmailHandler`, the database's five requests, the players' four, and
`Restarts`, which loses both queues and loads the table again. `deleteEmail` leaves
the table alone: the code binds the e-mail statement and executes another
(`GameDBSyncContext.cpp:499-503`).
`MirrorsDatabase`: the service's letters are those in the table, but for what is on
its way; also across restarts. `UnreadIsListed`: a client that is there has every
unread letter to it on its list. `AnswerIsComing`: who waits to hear of a mail it
sent will hear. `MailFollowsPresence`: what the service knows of a client is what the
map last said, or that is on its way. `MailNeverFails`: nothing is put on the queue of
a map instance that is not there. `habit` is what the players of a behaviour do
besides (hasty, deleting, early, with database errors); a property names the habits it
does not survive, for instance deleting mail of a sender who is away makes an entry
without a map, and the next mail to that sender ends the process.

`Team`. The handler's functions work on a record `State` of its lists, because the
answer to a query has kept events handled again. The user router, of which the
source has the messages only, is external: it delivers in order.
Between the lookup of a name (`Query`) and its answer (`Response`) other commands are
given and handled: the same name may be asked for again, by the same leader or by another,
who is invited may join or found another team, or become known by inviting somebody
itself. Every invitation that waits is handled again when the first answer comes; a second
answer finds none, and the assertion against that (`TeamHandler.cpp:294`) is taken as
compiled out.
`OneTeam`: nobody is on two teams, or twice on one. `TeamsAreLed`: no team is kept
that is too small or too large, or whose leader is not a member. `LfgIsFree`: nobody
in company is looking for a team. `ViewFollowsTeam`: what a character's entity shows,
with what is on its way to it, is its team. `InvitationsMeetAnswers`: the answer that makes
a name known finds the invitations that wait for it, and while anything waits for somebody
who is on the map from the start and stays, a lookup or an answer is on its way, so that
nobody is invited in vain (who is not on the map when the router delivers the question is never answered for, and
what waits for it waits for good). `manner` is as `habit` is. `teamFailed` says that a map
was told of a flag under a token it has no session for, which ends the process
(`:41`): with `"looking"` that happens, when the entity is another map's, or when a leader who
looks for a team takes off a member and the message has the token 0. `ViewFollowsTeam` says
nothing then, and no property denies it. Not stated, because it does
not hold: that an invitation can always be answered (when the leader changes it can
be neither accepted nor declined, `:615`), and that a team loses a member who leaves
the game (`on_client_disconnected` is empty, `:190`).

### Processes

State. Of every processor its `thread` and its `queue`; `at`, the statement the main
thread is at; `stopping`, where the main thread (in a signal handler) and the monitor
are in `shutDownServers`; `event_loop_is_done`; who is `subscribed` and whose object
is `destroyed`; what is `broken` and cannot be configured. `missed` and `astray` are
histories. What the main thread does is a sequence, `Program`, translated statement by
statement from `CreateServers`, the end of `ACE_TMAIN` and the destructors it runs;
`shutDownServers` and `ShutDown` are sequences too.

Actions. `MainGoesOn` and `StopsServers` do one statement; `Interrupted` is the signal,
at any time up to the end of the loop; `Starts` is `per_thread_startup`; `Ends`,
`Reconfigures`, `Publishes`, `NoticesFailure` and `Works` are a turn of `svc`. An event
is `Finish`, `ReloadConfig`, a `Failure`, or work, which a handler may pass on to
whom it posts to (`Targets`, from the uses of `HandlerLocator`).

Properties. `NobodyWaitsForever`: whoever the main thread or the monitor waits for has
a `Finish` in its queue or ahead, but for processors that `shutDownServers` looked
for before they existed: a failure of a database or an interrupt during start-up may
stop servers that are not there yet, sets `s_event_loop_is_done`, and the main
thread then waits at `main.cpp:340-345` for servers nobody stops. `DestroyedInOrder`:
endpoints leave the bus's lists only when the bus has ended, and nothing is posted to
what is destroyed, but by the databases and the map instances, which nobody ends: `svc`
returns on `Finish` without `per_thread_shutdown`, so `MapServer.cpp:164` ("tell all
instances to shut down too") never runs, and `shutDownAllActiveHandlers` has no caller.

Abstractions. Every processor has one thread, as every `activate` asks for. The
e-mail, friendship and team handlers are one processor, as is a map's instance.
Timers have no events here. Status messages that report success, and the game
server's broadcast of its status, are left out.

## Runs

| Run | Bounds | Shows |
|---|---|---|
| `crudp_safety` | 2 messages one way, 1 back, of 0, 2 or 3 parts; queue of 2; 1 ack a packet; duplication, overtaking and loss | all safety properties and the refinement; about 880 000 states |
| `crudp_live` | 3 messages one way, 1 back, of 0 or 2 parts; reliable ordered network | `EventuallyDelivered`; about 270 000 states |
| `crudp_ahead`, `crudp_stale` | as `crudp_safety`, 0 or 2 parts | the two counterexamples |
| `handover` | either 3 clients of one account, 3 sessions, requests out of turn but no other fault; or the threads of the process, one thing broken at most, one interrupt, one event from the clients | the five properties of the hand-over that hold without these faults; `ProcessesTypeOK`, `NobodyWaitsForever`, `DestroyedInOrder`; about 680 000 states |
| `handover_faults` | 2 clients, 2 sessions, all faults but `"keep"` and `"stray"` | types, `InGameIsThere`, `MappedIsHeld`; about 2 280 000 states |
| `handover_keep` | 2 clients, 2 sessions, all faults but `"race"` and `"early"` | `MappedIsHeld`; about 1 280 000 states |
| `handover_early`, `handover_slow`, `handover_leak` | 2 clients, 2 sessions, `"early"`, `"slow"`, none | the three counterexamples |
| `services` | trade: 2 players, 2 slots a tray, influence up to 1, 3 offers; mail: 2 players, 2 letters; team: 3 players, a team of 3 | the fourteen properties of the services; about 1 900 000 states |
| `map` | 2 accounts, 2 maps, 4 entities, plans as below, one mishap a behaviour | the seven properties of the maps; about 1 800 000 states |

Why these bounds suffice to meet the interesting cases: two messages overtake
each other, two split messages have groups that interleave and share nothing but
positions, three parts do not fit a queue of two so that a message is cut, an ack
a packet leaves acks over for the next packet, and the message back carries acks
that are lost, late or repeated. The third message of `crudp_live` finds the
queue of an unresponsive link full. Histories are bounded by `MaxSend`, the only
counter bound. The theorems hold without any of these bounds.

For the hand-over, one account is enough to collide on, and clients of different
accounts share nothing but the stores' lists. Three clients let one be on a map,
one log in and one be refused; three sessions are the temporary ones of three
logins. `MaxSessions` bounds `s_last_session_id`, the only counter. The runs use
the symmetry of the clients, which nothing orders.

For the services: trades of three would be two of two, since a character has one
`m_trade`; two slots are full with one item of each side and one bought; a row can
shift; influence 1 offered twice wraps. Two letters may be in both queues at once,
and `MaxMails` and `MaxPending` bound letters and requests of a player. For teams,
`MaxQueued` bounds what is on its way when a command is given: two, so that a command
overtakes, or is overtaken by, the question after a name and its answer, or another
command. `MaxAsked` bounds the invitations that wait for one name: two, so that it is asked for
twice, by one leader or by two. A command is given only while nothing but questions is on its
way to the maps (a bound, too: what the maps are told otherwise arrives first).
`Stocks` is what the store may sell in one behaviour, and traders leave only in those whose
stock is in `Passing`: one item is enough for entities that are used again with their trade. Three players are the smallest number of which one can leave a team
that stays.

For the maps, `SomePlans`: everybody logs in once (two accounts compete for entities
and queues), or one account alone logs in twice and goes to another map once, or once
and goes there and back. `MaxLogins`, `MaxVersion` and the plans' moves bound the
counters. Two accounts that both move are out of TLC's reach here. The
properties were also checked once, outside the runs, for one account with three maps, two
logins and three moves: that is how `"early"` came to be among what `NothingRolledBack`
excuses.

The processes: all that matters is how statements of the main thread, of the monitor
and turns of `svc` interleave, so one event of work and one failure are enough
(`MaxWork`); clients come only when nothing is broken.

Deadlock is not checked: when both ends have sent their messages, every client
has been where it wanted to go, every player has done what it may, or the process
has ended, the instance stops, as the system does. That the main thread does not wait
for ever is `NobodyWaitsForever`.

Fairness (`LiveSpec`): weak fairness of receiving, for each end, when some
datagram is there, and of the `RecvPacket` loop. The reactor calls
`handle_input` as long as the socket is readable, and the loop is a plain `while`.
Nothing is assumed about sending: whether an event is sent is up to the handlers,
so retransmission, which happens only on a send, is not assumed either. This is
why the liveness property is about a network that loses nothing.

## Proofs

`CrudpProofs` proves for all values of the constants, from `CrudpAssumption`
alone (sizes are naturals, capacity and acks per packet at least one):

- `TypeCorrect`: `TypeOK`, the types (`VariablesTyped`) and the bound of the send queue
  (`QueueBounded`), which need each other: how many packets a message gets (`Accepted`)
  is a difference that must not be negative.
- `DeliveryCorrect`: the inductive invariant `DeliveryInv`, in three parts.
  `PacketsGenuine`: a packet in a queue, on the network or in a sibling group is
  a part of a message its end really sent. `Layout`: messages take consecutive
  runs of numbers and split messages have sibling ids of their own, so a group
  has parts of one message only, and a message cut short never completes.
  `AvailGenuine` and `Prefix`: at most one packet is available, it is a whole
  message, and `recv_seq` is the last number of the prefix passed on.
  `InOrderExactlyOnce` alone is not inductive: it says nothing of what is on the
  way or of `recv_seq`.
- `InOrder` (`InOrderExactlyOnce`) and `NeverBlind` (`NoBlindPop`) follow.
- `Refinement`: `Spec => ImplementsChannel`. Sending is `Submit` or, when the
  queue is full, a stutter; `RecvNext` is `Deliver`; the rest stutters.

The same module goes on from that invariant:

- `NothingForgotten` (`ForgottenWasReceived`). It is not inductive, as it says
  nothing of acks. The strengthening `AcksGenuine` says that every ack owed, and
  every ack on a datagram that may still arrive, is of a packet that arrived; so
  an old or repeated ack frees nothing that is still needed.
- `EverythingAccounted` (`ReceivedIsAccountedFor`). Given `DeliveryInv`: the
  packet `mergeSiblings` builds covers the numbers of all parts of its group; a
  part found to be a duplicate is the very packet already waiting, since a group
  has parts of one message only; and a packet dropped as old belongs to a message
  that was passed on whole (`PassedWhole`), not just up to its first part.

The hand-over's theorems hold for any clients, accounts, number of sessions and
set of faults, from `HandoverAssumption` alone:

- The first part of `HandoverProofs` shows that each operation of a session store keeps its
  type.  The reaper's pass needs an argument: it names the entries it takes out by
  their rank, and `Ranks` shows that the ranks of a set of n numbers are 1..n, so
  every place of the list it leaves and of the list it reaps is an entry that
  was there. `LastMark` needs a finite set of numbers to have a largest element.
- It shows then, handler by handler, that the types are kept, which
  sessions count as in game afterwards, and (`Tells`) that a step of the game
  handler posts the leaving of every session it gave up, and no arrival of a
  session it does not hold.
- `TypesHold` (`TypeOK`) combines them.
- `InGameSessionsAreThere` (`InGameIsThere`). The property is not inductive: when
  the arrival of a session is dealt with it becomes one in game, and the property
  says nothing of arrivals still in the queue. `AllAccounted` adds `Ordered`: a
  session whose arrival is in the queue is held by the game handler, or its
  leaving comes later in the queue. `Overtaken` is why a `Disconnect` that goes
  in ahead of other events does no harm: arrivals and leavings keep their order.

The rest of `HandoverProofs` builds on those types:

- `MappedSessionsAreHeld` (`MappedIsHeld`). The reaper destroys the session of an
  entry's token but takes from the accounts the one of the entry's session, so the
  property needs (`Mark`) that an entry's token is its session's own or none. The one
  place where that is in doubt is `OnDisconnect`, which marks with the token of the
  session's link. `LoginInv` therefore says: the session an account is mapped to is
  that account's (`IdsOK`); a session with an account and its link name each other
  (`LinksOK`); a token a link or an event carries is that of no temporary session
  (`Known`), while the database's answers are about temporary ones (`Temporary`).
  The last needs that a client has at most one login on its way, counting its queued
  `Connect` and `LoginRequest`, its request to the database and the answer
  (`OnePending`), and has one only while it waits and has no session (`Waits`): a
  second answer could otherwise give a link a new session while the old one still
  names the link. The link's flag `asked` bears that part: it stands for a client that
  waits for an answer before it asks again. No fault takes it away, `"race"` and
  `"retry"` included. A request out of turn (`"stray"`) is no login that counts: one from a
  link that has a session is refused for its stage, and a `LoginRequest` counts among what a
  client has on its way only while its link has no token.

- `LoggedInSessionsAreThere` (`LoggedInIsThere`), for behaviours in which no client
  leaves before it is answered (`"early"`) or asks again on a refused link (`"retry"`);
  with those an answer finds its link closed or with another session. The property is not
  inductive: a session becomes logged in when the database's answer is dealt with, and
  then its link must be open, or its closing in the queue. `Present` adds to the property
  itself (`There`) that who waits for the answer to its login stays, and that no reaper has
  told its link to finish (`Stays`); that a client has one session without an
  account at most, which its request is about (`OneSession`); and that the entry of such a
  session destroys it (`Marks`). `Traced` bounds what the game handler may report: it
  has tokens only of sessions that have an account, or had one and are gone.

`ServicesProofs`, from `TradeAssumption` and its like alone (finitely many characters,
offers that name places of the trays, and, in `ServicesAssumption`, characters that come
with goods and items that there are), for any characters, goods and offers:

- `AcceptanceIsCurrent` (`AcceptedIsCurrent`). It is not inductive because a step
  goes from an entity's `m_trade` to a deal: `TradeInv` adds `Pointers`, that every
  entity which trades points to a deal that is there. `SetTradesKeeps` is the core:
  whatever a handler makes of the pointers and the deals, what is kept of them is
  current if what it made is; then each handler resets both acceptances with every
  change of an offer.

- `NothingIsDoubled` (`HeldOnce`), for characters that come with different items, which is
  the theorem's hypothesis `HeldOnce` at the start. `DealsInv` adds two things.
  `HeldApart` puts `HeldOnce` as what the trays' operations keep: no tray holds an item
  twice (`Distinct`), and two trays share none (`Apart`). Each operation is shown to keep the
  first and to bring in nothing new (`Trashed`, `Lowered`, `Moved`, `PutIn`), and the two loops
  of a finished trade by induction over a fold: what was taken out is different items that are
  no longer in the tray (`TakenFrom`), so both sides may put them in (`ApartExchanged`).
  `PartyInv` shows that the two sides of a trade that finishes are two characters.
  `finishTrade` with one character on both sides would double what it takes out, and nothing
  forbids asking oneself for a trade; but such a deal changes its side a only, and side b
  never accepts (`UpdateParties`). That in turn needs every character to be a side of the
  deal it points to, and so a free number for a new deal (`FreeTradeId`).

- The five properties of mail have one inductive invariant, `MailInv`; it holds for any
  players, letters, habits and bounds, and across restarts. None of the five is inductive:
  each is about the service's maps, and the maps follow from what is in three queues.
  `MirrorsDatabase` (theorem `MailMirrorsDatabase`) needs `Kept` and `Stored`, that
  whatever a queue or a client's list names is a letter of the table; `Fresh` and `OneByOne`,
  that a letter whose creation the handler has yet to hear of is known to nobody and on its
  way once; and `StillEmpty` with `LoadsFirst`, that after a restart nothing overtakes the
  loading of the letters. `UnreadIsListed` (`UnreadMailIsListed`) needs the same, since the
  list is made once, when the client arrives. `AnswerIsComing` (`MailIsAnswered`) needs
  `Waiting`: a player waits for one answer, for which exactly one of the two queues
  holds exactly one message. `MailFollowsPresence` (`MailKnowsWhoIsThere`) is `Follows`: going through
  queue and bus in order turns the service's entry into the map's. `MailNeverFails`
  (`MailIsSafe`) needs `Clean`, that every entry is of somebody known. A crash of the service
  ends the argument, so all but `Clean` is claimed for a service that has not crashed.

`TeamProofs`, from `TeamAssumption` (a team has room for two), for any characters, size of
a team and manners:

- `TeamsTyped` (`TeamTypeOK`), `NobodyIsOnTwoTeams` (`OneTeam`), `TeamsHaveLeaders`
  (`TeamsAreLed`), `SeekersHaveNoTeam` (`LfgIsFree`). The invariant `TeamInv` is about the
  handler's lists: every team is `Shaped` (nobody twice, two to `MaxTeam` members, led by
  a member), two teams share nobody, and who shares one is not looking (`AllFree`).
  It is proved of the record the handler's functions work on, operation by operation,
  not of the variables: `on_user_router_query_response` handles every kept invitation again
  in a loop, so what is needed is that each turn of the loop keeps the record good. The loops
  of the handler are folds, and `FoldProofs` proves induction over a fold once for any body;
  a module instantiates it with the body and the loop's invariant.
- `InvitationsAreAnswered` (`InvitationsMeetAnswers`), for all manners, and however often
  a name is asked for. The property is not inductive: it says nothing of whom an invitation
  that waits is for. `Meeting` says, for each name, that what waits under it is
  for it and that an answer on its way to an unknown name has something waiting (`Awaited`), that
  what waits for somebody who stays is being looked up (`Coming`), and that who stays is on the map,
  so that the router answers. An invitation is kept and asked for in one step; a question becomes
  an answer in one step; the first answer makes the name known and empties the list, and
  further ones find it empty. The loop over kept invitations makes names known, keeps
  nothing back and asks after nobody, which is an induction over a fold again.
- `ViewsFollowTeams` (`ViewFollowsTeam`). `Final` is what the entities
  show after a queue of messages, a fold; it is taken apart at its front when a message
  arrives (`FinalFirst`) and at its end when one is posted (`FinalLast`), and each entity's
  part is its own (`FinalOwn`). `Honest(h, r)` says of a handler's step from record h to
  record r that who was to show its team in h is to show its team in r, and is proved of
  each handler and, by induction, of the loop over kept invitations. The invariant
  `Faithful` adds what makes a message reach whom it names: teams, invitations and messages
  name only characters that are or have been on the map (`Polite`, `Courteous`), and nobody
  is offered its own team.

`ServicesTypesProofs` takes the three services together, from the same assumptions:

- `ServicesKeepTheirTypes` (`ServicesTypeOK`). The types are not inductive, since they
  bound numbers that the code takes without a check. For trades, a deal needs a free number
  (`PartyInv`), and what changes hands in `finishTrade` must be items, put into places
  that there are, whichever places the windows named: its loops are taken through by
  induction over a fold, and influence is taken modulo its width. For mail, `MailSized` has two parts. `Within`: every number
  that a client's list, a request, an event or the service's own table calls a letter by is
  that of a letter in the database. `Paper`: the letters of the database, with the
  requests and events from which one is still to be stored, are no more than were written, so
  the database's count stays below its bound; `Counted` is how often a queue holds an event of a
  kind, and falls or rises by one as one is taken or posted. For teams it is `TeamsTyped`.
  A step of one service leaves the state of the others alone, but for who is on the map.

`MapSessionsProofs`, from `MapSessionsAssumption`, for any accounts, maps, number of
entities, plans and mishaps:

- `EntitiesAreSound` (`PoolIsSound`). `PoolInv` has to say more: that an entity is on
  the free list when and only when it is not live (`PoolOK`), that a session with a
  link has an entity (`HeldOK`: `OnCreateMapEntity` takes one and sets both), and that
  a message by which a client leaves names a link of its own (`InboxesOK`), since the
  entity given back is found by the link. `GivenEntity`, `LeftStore` and `ReapedStore`
  say what taking, giving back and reaping do to a map; the handlers follow.

`ProcessesProofs`, for any amount of work that clients send (`ProcessesAssumption`):

- `ProcessesTyped` (`ProcessesTypeOK`), `NothingGoneIsUsed` (`DestroyedInOrder`) and
  `WaitsAreAnswered` (`NobodyWaitsForever`) follow from one invariant, `PInv`, about the main
  thread's place in its program. `Waited`: a processor that the main thread has
  waited for is gone; the one that may bring back a thread that ended is the authentication server,
  which starts its handler's and is waited for before it. So when anything is destroyed, only
  the databases, the map instances and the authentication handler may still post, and the
  last only to what is never destroyed. `StopTold` and `AllTold`: who was dealt with by
  `shutDownServers`, run by whichever thread, has a `Finish` in its queue, has ended, or was
  missed, and `event_loop_is_done` is set only when all six were; `WaitTold` is the same for
  the handlers, which are told and waited for in turn. `Steady` is what any step leaves
  of this: a `Finish` is not lost, and a thread comes back only where the code starts one.

Model-checked only: `EventuallyDelivered` (liveness under fairness is beyond the
prover), the four properties of the hand-over that hold without faults (`NeverFails`,
`OneLogin`, `UsedIsKnown`, `NoDangling`), `ExchangeIsExact` (about cardinalities and
sequences with places taken out), `MapTypeOK` and those of the maps that
name mishaps, and `ImplementsPresence` (it holds only while the pool is not used up).

## Plan

Done, in this order: the link and its proofs; the hand-over and its proofs; trade, mail
and teams; the map instances; the processes.

What would come next: the life of link objects
and the server endpoint's table of them; character slots and their database rows;
creatures in the pool of entities; the friendship service beside the e-mail service;
partial sends of the authentication link.

## Not modelled

Component by component: see the "note" of each in `PROJECT.json`. In short:

- Wire formats, serialisers, packed bits: data, without an interaction.
- World simulation: floating-point movement and power timers on one thread.
- Game data, runtime, scene graph, assets, settings, logging: loading and tables.
- About 120 commands of a map instance, each an assignment to one entity.
- The user router: the source has its messages and no implementation.
- The editor and the tools, and the libraries under `src/3rd_party`, which are most
  of the lines of the repository and no part of the servers' own logic.
