----------------------------- MODULE Processes -----------------------------
(***************************************************************************)
(* The threads of the server process, from start-up to shutdown: the main  *)
(* thread (src/Servers/AuthServer/main.cpp), the event processors it       *)
(* starts, each a thread with a queue (src/Components/EventProcessor.cpp), *)
(* and the message bus (src/Common/Servers/MessageBus.cpp).                *)
(*                                                                         *)
(* Every processor is activated with one thread.  "services" are the       *)
(* e-mail, friendship and team handlers, which live and die together;      *)
(* "instance" is a map's, "timers" the global timer queue, which has no    *)
(* events.  Of the events only those that start, stop or fail something    *)
(* are told apart; all others are "work", which a processor may pass on to *)
(* whoever its handlers post to.                                           *)
(***************************************************************************)
EXTENDS Naturals, Sequences, SequencesExt

CONSTANT MaxWork   \* bound on what the clients send

ASSUME ProcessesAssumption == MaxWork \in Nat

Databases == {"authdb", "gamedb"}

Processors == {"timers", "bus", "monitor", "auth", "authhandler", "game", "gamehandler",
               "services", "map", "instance"} \union Databases

VARIABLES thread,     \* by processor: "none", "starting", "running" or "ended"
          queue,      \* by processor: its message queue
          at,         \* where the main thread is in Program
          stopping,   \* where "main" and "monitor" are in shutDownServers; 0: not in it
          event_loop_is_done,  \* s_event_loop_is_done
          subscribed, \* the processors whose endpoints the bus lists
          destroyed,  \* the processors whose objects are gone
          broken,     \* what cannot be configured
          sent,       \* how much the clients sent
          missed,     \* processors that were to finish and were not there yet
          astray      \* who posted to whom when the latter was destroyed

processes == <<thread, queue, at, stopping, event_loop_is_done, subscribed, destroyed,
               broken, sent, missed, astray>>

ProcessEvents == {"ReloadConfig", "Failure", "Finish", "work"}

(* Whom the handlers of a processor post to, but for the bus               *)
Targets == [p \in Processors |->
    CASE p = "authdb"      -> {"authhandler"}
      [] p = "authhandler" -> {"authdb", "gamehandler"}
      [] p = "gamedb"      -> {"gamehandler", "services", "instance"}
      [] p = "gamehandler" -> {"gamedb", "authhandler", "map", "bus"}
      [] p = "services"    -> {"gamedb", "map", "instance"}
      [] p = "map"         -> {"instance", "gamehandler"}
      [] p = "instance"    -> {"gamedb", "gamehandler", "services", "map"}
      [] OTHER             -> {}]

-----------------------------------------------------------------------------
(* What the main thread does, in order                                     *)

Do(what, p) == [op |-> what, who |-> p]

(* shutdown_event_processor_and_wait: both or, when there is no thread,    *)
(* neither                                                                 *)
FinishAndWait(p) == << Do("shutdown", p), Do("wait", p) >>

(* Mutant: the map server is forgotten.                                    *)
MutForgetsMap ==
    << Do("finish", "timers") >> \o FinishAndWait("game") \o FinishAndWait("auth")
    \o << Do("finish", "monitor"), Do("finish", "bus") >>

shutDownServers ==
    << Do("finish", "timers") >>
    \o FinishAndWait("game") \o FinishAndWait("map") \o FinishAndWait("auth")
    \o << Do("finish", "monitor"), Do("finish", "bus") >>

CreateServers ==
    << Do("activate", "timers"), Do("activate", "bus"),
       Do("subscribe", "monitor"), Do("activate", "monitor"), Do("activate", "authdb"),
       Do("subscribe", "authhandler"), Do("activate", "auth"), Do("activate", "gamedb"),
       Do("activate", "gamehandler"), Do("subscribe", "services"),
       Do("activate", "services"), Do("activate", "game"), Do("activate", "map"),
       Do("tell", "auth"), Do("tell", "game"), Do("tell", "map") >>

(* Mutant: the game handler is not waited for.                             *)
MutWaitsForNoHandler ==
    << Do("finish", "gamehandler") >> \o FinishAndWait("services")

(* GameServer's ShutDown                                                   *)
ShutDown == FinishAndWait("gamehandler") \o FinishAndWait("services")

Waits(ps) == [i \in DOMAIN ps |-> Do("wait", ps[i])]

(* The game handler's object is never deleted.                             *)
Program ==
    CreateServers \o << Do("loop", "main") >>
    \o Waits(<< "timers", "game", "map", "auth", "monitor", "bus" >>)
    \o ShutDown \o << Do("destroy", "services"), Do("destroy", "game"), Do("destroy", "map") >>
    \o FinishAndWait("authhandler") \o << Do("destroy", "authhandler"), Do("destroy", "auth") >>
    \o << Do("destroy", "monitor"), Do("destroy", "bus") >>

LoopAt == Len(CreateServers) + 1

-----------------------------------------------------------------------------
ProcessesInit ==
    /\ thread = [p \in Processors |-> "none"]
    /\ queue = [p \in Processors |-> << >>]
    /\ at = 1
    /\ stopping = [x \in {"main", "monitor"} |-> 0]
    /\ event_loop_is_done = FALSE
    /\ subscribed = {} /\ destroyed = {} /\ missed = {} /\ astray = {}
    /\ broken \in {{}} \union {{p} : p \in Databases \union {"map"}}
    /\ sent = 0

ProcessesTypeOK ==
    /\ thread \in [Processors -> {"none", "starting", "running", "ended"}]
    /\ queue \in [Processors -> Seq(ProcessEvents)]
    /\ at \in 1..(Len(Program) + 1)
    /\ stopping \in [{"main", "monitor"} -> 0..Len(shutDownServers)]
    /\ event_loop_is_done \in BOOLEAN
    /\ subscribed \subseteq Processors /\ destroyed \subseteq Processors
    /\ broken \subseteq Processors /\ missed \subseteq Processors
    /\ sent \in 0..MaxWork
    /\ astray \subseteq (Processors \X Processors)

Alive(p) == thread[p] \in {"starting", "running"}

-----------------------------------------------------------------------------
(* One statement of the main thread or of shutDownServers                  *)

(* Only the databases and the authentication server have a                 *)
(* per_thread_startup that does something.                                 *)
Activates(p) ==
    /\ thread' = [thread EXCEPT ![p] = IF p \in Databases \union {"auth"}
                                      THEN "starting" ELSE "running"]
    /\ UNCHANGED <<queue, subscribed, destroyed, missed>>

Subscribes(p) ==
    /\ subscribed' = subscribed \union {p}
    /\ UNCHANGED <<thread, queue, destroyed, missed>>

(* Nothing is posted to a processor that has no thread (any more).         *)
PostsFinish(p) ==
    /\ queue' = IF Alive(p) THEN [queue EXCEPT ![p] = Append(@, "Finish")] ELSE queue
    /\ missed' = IF thread[p] = "none" THEN missed \union {p} ELSE missed
    /\ UNCHANGED <<thread, subscribed, destroyed>>

Tells(p) ==
    /\ queue' = [queue EXCEPT ![p] = Append(@, "ReloadConfig")]
    /\ UNCHANGED <<thread, subscribed, destroyed, missed>>

Passes == UNCHANGED <<thread, queue, subscribed, destroyed, missed>>

(* The destructor of an endpoint unsubscribes it.                          *)
Destroys(p) ==
    /\ destroyed' = destroyed \union {p}
    /\ subscribed' = subscribed \ {p}
    /\ UNCHANGED <<thread, queue, missed>>

Does(stmt) ==
    \/ stmt.op = "activate" /\ Activates(stmt.who)
    \/ stmt.op = "subscribe" /\ Subscribes(stmt.who)
    \/ stmt.op = "tell" /\ Tells(stmt.who)
    \/ stmt.op \in {"finish", "shutdown"} /\ PostsFinish(stmt.who)
    \/ stmt.op = "wait" /\ ~Alive(stmt.who) /\ Passes
    \/ stmt.op = "loop" /\ event_loop_is_done /\ Passes
    \/ stmt.op = "destroy" /\ Destroys(stmt.who)

(* Mutant: whatever is to be done with a processor that has no thread is   *)
(* skipped with what follows.                                              *)
MutStatements(stmt) == IF ~Alive(stmt.who) THEN 2 ELSE 1

(* How many statements are done at once                                    *)
Statements(stmt) == IF stmt.op = "shutdown" /\ ~Alive(stmt.who) THEN 2 ELSE 1

MainGoesOn ==
    /\ stopping["main"] = 0
    /\ at <= Len(Program)
    /\ Does(Program[at])
    /\ at' = at + Statements(Program[at])
    /\ UNCHANGED <<stopping, event_loop_is_done, broken, sent, astray>>

(* The interrupt signal is handled on the main thread, wherever it is.  One *)
(* interrupt is enough: that it comes again is left out.                   *)
Interrupted ==
    /\ stopping["main"] = 0
    /\ at <= LoopAt /\ ~event_loop_is_done
    /\ stopping' = [stopping EXCEPT !["main"] = 1]
    /\ UNCHANGED <<thread, queue, at, event_loop_is_done, subscribed, destroyed, broken,
                   sent, missed, astray>>

StopsServers(x) ==
    /\ stopping[x] # 0
    /\ Does(shutDownServers[stopping[x]])
    /\ LET stmt == shutDownServers[stopping[x]]
           last == stopping[x] = Len(shutDownServers)
       IN  /\ stopping' = [stopping EXCEPT ![x] = IF last THEN 0
                                                      ELSE @ + Statements(stmt)]
           /\ event_loop_is_done' = (last \/ event_loop_is_done)
    /\ UNCHANGED <<at, broken, sent, astray>>

(* The reactor passes on what a client sends.  A server that could not be  *)
(* configured gets no clients here: a bound, as is MaxWork.                *)
Receives(p) ==
    /\ at = LoopAt /\ stopping["main"] = 0
    /\ sent < MaxWork /\ broken = {}
    /\ sent' = sent + 1
    /\ queue' = [queue EXCEPT ![p] = Append(@, "work")]
    /\ UNCHANGED <<thread, at, stopping, event_loop_is_done, subscribed, destroyed,
                   broken, missed, astray>>

-----------------------------------------------------------------------------
(* The processors' own threads                                             *)

mainOnly == <<at, event_loop_is_done, subscribed, destroyed, broken, sent, missed>>

(* per_thread_startup                                                      *)
Starts(p) ==
    /\ thread[p] = "starting"
    /\ thread' = [thread EXCEPT
                    ![p] = IF p \in Databases \intersect broken THEN "ended" ELSE "running",
                    !["authhandler"] = IF p = "auth" THEN "running" ELSE @]
    /\ queue' = IF p \in Databases \intersect broken
                THEN [queue EXCEPT !["bus"] = Append(@, "Failure")] ELSE queue
    /\ UNCHANGED <<mainOnly, stopping, astray>>

(* The monitor does nothing else while it is in shutDownServers.           *)
Gets(p, ev) ==
    /\ thread[p] = "running"
    /\ queue[p] # << >> /\ Head(queue[p]) = ev
    /\ p = "monitor" => stopping["monitor"] = 0

(* p is done with its event, having posted this one.                       *)
Posting(p, target, ev) ==
    IF target \in destroyed
    THEN /\ queue' = [queue EXCEPT ![p] = Tail(@)]
         /\ astray' = astray \union {<<p, target>>}
    ELSE /\ queue' = [[queue EXCEPT ![p] = Tail(@)] EXCEPT ![target] = Append(@, ev)]
         /\ UNCHANGED astray

(* What is left in the queue is flushed; per_thread_shutdown is not called.*)
Ends(p) ==
    /\ Gets(p, "Finish")
    /\ thread' = [thread EXCEPT ![p] = "ended"]
    /\ queue' = [queue EXCEPT ![p] = << >>]
    /\ UNCHANGED <<mainOnly, stopping, astray>>

(* That the game server's handler then broadcasts its status is left out.  *)
Reconfigures(p) ==
    /\ Gets(p, "ReloadConfig")
    /\ IF p \in broken THEN Posting(p, "bus", "Failure")
       ELSE queue' = [queue EXCEPT ![p] = Tail(@)] /\ UNCHANGED astray
    /\ UNCHANGED <<mainOnly, thread, stopping>>

(* do_publish, for whom the event matters to                               *)
Publishes ==
    \/ /\ Gets("bus", "Failure")
       /\ IF "monitor" \in subscribed THEN Posting("bus", "monitor", "Failure")
          ELSE queue' = [queue EXCEPT !["bus"] = Tail(@)] /\ UNCHANGED astray
       /\ UNCHANGED <<mainOnly, thread, stopping>>
    \/ /\ Gets("bus", "work")
       /\ \E p \in subscribed \ {"monitor"} : Posting("bus", p, "work")
       /\ UNCHANGED <<mainOnly, thread, stopping>>

(* on_service_status                                                       *)
NoticesFailure ==
    /\ Gets("monitor", "Failure")
    /\ queue' = [queue EXCEPT !["monitor"] = Tail(@)]
    /\ stopping' = [stopping EXCEPT !["monitor"] = 1]
    /\ UNCHANGED <<mainOnly, thread, astray>>

(* The map server makes the instance it needs.                             *)
Works(p) ==
    /\ Gets(p, "work")
    /\ \/ /\ p # "bus"
          /\ queue' = [queue EXCEPT ![p] = Tail(@)]
          /\ UNCHANGED <<thread, astray>>
       \/ \E q \in Targets[p] :
             /\ q = "instance" => thread[q] # "none" \/ p = "map"
             /\ Posting(p, q, "work")
             /\ thread' = IF q = "instance" /\ thread[q] = "none"
                          THEN [thread EXCEPT ![q] = "running"] ELSE thread
    /\ UNCHANGED <<mainOnly, stopping>>

ProcessesNext ==
    \/ MainGoesOn \/ Interrupted \/ Publishes \/ NoticesFailure
    \/ \E x \in {"main", "monitor"} : StopsServers(x)
    \/ \E p \in {"authhandler", "gamehandler", "instance"} : Alive(p) /\ Receives(p)
    \/ \E p \in Processors : Starts(p) \/ Ends(p) \/ Reconfigures(p) \/ Works(p)

ProcessesSpec == ProcessesInit /\ [][ProcessesNext]_processes

-----------------------------------------------------------------------------
(* Properties                                                              *)

(* What the main thread, or the monitor in shutDownServers, is about to do *)
Ahead(x) ==
    CASE stopping[x] # 0 -> shutDownServers[stopping[x]]
      [] x = "main" /\ stopping[x] = 0 /\ at <= Len(Program) -> Program[at]
      [] OTHER -> Do("nothing", x)

(* A Finish for p is in its queue, or in front of somebody.                *)
WillFinish(p) ==
    \/ "Finish" \in ToSet(queue[p])
    \/ \E x \in {"main", "monitor"} :
          /\ stopping[x] # 0
          /\ \E i \in stopping[x]..Len(shutDownServers) :
                shutDownServers[i] \in {Do("finish", p), Do("shutdown", p)}

(* Nobody waits for a thread that nobody ends: whenever the main thread or *)
(* the monitor waits for a processor (main.cpp:117-119, 340-345,           *)
(* EventProcessor.h:69-76), that has a Finish in its queue or ahead.  The  *)
(* exception is a processor which shutDownServers looked for before the    *)
(* main thread had started it: it waits for that one for ever.             *)
NobodyWaitsForever ==
    \A x \in {"main", "monitor"} :
       Ahead(x).op = "wait" /\ Alive(Ahead(x).who) =>
          WillFinish(Ahead(x).who) \/ Ahead(x).who \in missed

(* What is destroyed is not used any more (main.cpp:340-350,               *)
(* GameServer.cpp:68-77): an endpoint is taken off the lists of the bus,   *)
(* which walks them without a lock (MessageBus.cpp:95-109), only when the  *)
(* bus has ended; and nothing is posted to a processor that was destroyed  *)
(* but by those that nobody ends, the databases, as                        *)
(* shutDownAllActiveHandlers has no caller, and the map instances, as svc  *)
(* returns without per_thread_shutdown.                                    *)
DestroyedInOrder ==
    /\ Ahead("main").op = "destroy" /\ Ahead("main").who \in subscribed => ~Alive("bus")
    /\ \A post \in astray : post[1] \in Databases \union {"instance"}
=============================================================================
