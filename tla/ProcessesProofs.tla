-------------------------- MODULE ProcessesProofs --------------------------
(***************************************************************************)
(* Start-up and shutdown of the process, for every order of the threads'   *)
(* steps and whatever clients send: nobody waits for a thread that nobody  *)
(* ends, and nothing is used after it is destroyed.  The argument follows  *)
(* the main thread through its program: who was waited for is gone and     *)
(* stays gone (Waited), and who is going to be waited for was told to      *)
(* finish (AllTold, StopTold, WaitTold), which is never lost (Steady).     *)
(***************************************************************************)
EXTENDS Processes, TLAPS

-----------------------------------------------------------------------------
(* The two programs, statement by statement                                *)

Ops == {"activate", "subscribe", "tell", "loop", "wait", "shutdown", "finish", "destroy"}

Stmts == [op : Ops, who : Processors \union {"main"}]

LEMMA shutDownServersIs ==
    /\ shutDownServers \in Seq(Stmts) /\ Len(shutDownServers) = 9
    /\ shutDownServers[1] = Do("finish", "timers")
    /\ shutDownServers[2] = Do("shutdown", "game")
    /\ shutDownServers[3] = Do("wait", "game")
    /\ shutDownServers[4] = Do("shutdown", "map")
    /\ shutDownServers[5] = Do("wait", "map")
    /\ shutDownServers[6] = Do("shutdown", "auth")
    /\ shutDownServers[7] = Do("wait", "auth")
    /\ shutDownServers[8] = Do("finish", "monitor")
    /\ shutDownServers[9] = Do("finish", "bus")
BY DEF shutDownServers, FinishAndWait, Do, Stmts, Ops, Processors, Databases

LEMMA ProgramIs ==
    /\ Program \in Seq(Stmts) /\ Len(Program) = 36
    /\ Program[1] = Do("activate", "timers")
    /\ Program[2] = Do("activate", "bus")
    /\ Program[3] = Do("subscribe", "monitor")
    /\ Program[4] = Do("activate", "monitor")
    /\ Program[5] = Do("activate", "authdb")
    /\ Program[6] = Do("subscribe", "authhandler")
    /\ Program[7] = Do("activate", "auth")
    /\ Program[8] = Do("activate", "gamedb")
    /\ Program[9] = Do("activate", "gamehandler")
    /\ Program[10] = Do("subscribe", "services")
    /\ Program[11] = Do("activate", "services")
    /\ Program[12] = Do("activate", "game")
    /\ Program[13] = Do("activate", "map")
    /\ Program[14] = Do("tell", "auth")
    /\ Program[15] = Do("tell", "game")
    /\ Program[16] = Do("tell", "map")
    /\ Program[17] = Do("loop", "main")
    /\ Program[18] = Do("wait", "timers")
    /\ Program[19] = Do("wait", "game")
    /\ Program[20] = Do("wait", "map")
    /\ Program[21] = Do("wait", "auth")
    /\ Program[22] = Do("wait", "monitor")
    /\ Program[23] = Do("wait", "bus")
    /\ Program[24] = Do("shutdown", "gamehandler")
    /\ Program[25] = Do("wait", "gamehandler")
    /\ Program[26] = Do("shutdown", "services")
    /\ Program[27] = Do("wait", "services")
    /\ Program[28] = Do("destroy", "services")
    /\ Program[29] = Do("destroy", "game")
    /\ Program[30] = Do("destroy", "map")
    /\ Program[31] = Do("shutdown", "authhandler")
    /\ Program[32] = Do("wait", "authhandler")
    /\ Program[33] = Do("destroy", "authhandler")
    /\ Program[34] = Do("destroy", "auth")
    /\ Program[35] = Do("destroy", "monitor")
    /\ Program[36] = Do("destroy", "bus")
BY DEF Program, ShutDown, Waits, CreateServers, FinishAndWait, Do, Stmts, Ops, Processors,
       Databases

-----------------------------------------------------------------------------
(* What the statements are                                                 *)

LEMMA ElementOf ==
    ASSUME NEW S, NEW s \in Seq(S), NEW i \in 1..Len(s)
    PROVE  s[i] \in S
OBVIOUS

(* Whom shutDownServers ends                                               *)
Stopped == {"timers", "game", "map", "auth", "monitor", "bus"}

(* Where in Program p is activated                                         *)
Begins(p) ==
    CASE p = "timers" -> 1   [] p = "bus" -> 2            [] p = "monitor" -> 4
      [] p = "authdb" -> 5   [] p = "auth" -> 7           [] p = "gamedb" -> 8
      [] p = "gamehandler" -> 9  [] p = "services" -> 11  [] p = "game" -> 12
      [] p = "map" -> 13     [] OTHER -> 0

(* What the proofs use of the statement in place i                         *)
Placed(i, stmt) ==
    /\ stmt.op = "activate" => i = Begins(stmt.who)
    /\ stmt.op # "finish"
    /\ stmt.op \in {"activate", "subscribe", "tell"} => i < 17 /\ stmt.who \in Processors
    /\ stmt.op = "loop" <=> i = 17
    /\ stmt.op = "wait" => i > 17 /\ stmt.who \in Processors \ {"instance"}
    /\ stmt.op = "wait" =>
          (i < 24 /\ stmt.who \in Stopped) \/ i \in {25, 27, 32}
    /\ stmt.op = "destroy" =>
          i > 27 /\ stmt.who \in {"services", "game", "map", "authhandler", "auth",
                                  "monitor", "bus"}
    /\ stmt.op = "shutdown" => stmt.who \in Processors
    /\ stmt.op = "shutdown" <=> i \in {24, 26, 31}

LEMMA StatementsArePlaced ==
    ASSUME NEW i \in 1..36
    PROVE  Program[i] \in Stmts /\ Placed(i, Program[i])
<1>1. Program[i] \in Stmts
  BY ProgramIs, ElementOf
<1>2. /\ Placed(1, Program[1]) /\ Placed(2, Program[2]) /\ Placed(3, Program[3])
      /\ Placed(4, Program[4]) /\ Placed(5, Program[5]) /\ Placed(6, Program[6])
      /\ Placed(7, Program[7]) /\ Placed(8, Program[8]) /\ Placed(9, Program[9])
  BY ProgramIs DEF Do, Placed, Begins, Stopped, Processors, Databases
<1>3. /\ Placed(10, Program[10]) /\ Placed(11, Program[11]) /\ Placed(12, Program[12])
      /\ Placed(13, Program[13]) /\ Placed(14, Program[14]) /\ Placed(15, Program[15])
      /\ Placed(16, Program[16]) /\ Placed(17, Program[17]) /\ Placed(18, Program[18])
  BY ProgramIs DEF Do, Placed, Begins, Stopped, Processors, Databases
<1>4. /\ Placed(19, Program[19]) /\ Placed(20, Program[20]) /\ Placed(21, Program[21])
      /\ Placed(22, Program[22]) /\ Placed(23, Program[23]) /\ Placed(24, Program[24])
      /\ Placed(25, Program[25]) /\ Placed(26, Program[26]) /\ Placed(27, Program[27])
  BY ProgramIs DEF Do, Placed, Begins, Stopped, Processors, Databases
<1>5. /\ Placed(28, Program[28]) /\ Placed(29, Program[29]) /\ Placed(30, Program[30])
      /\ Placed(31, Program[31]) /\ Placed(32, Program[32]) /\ Placed(33, Program[33])
      /\ Placed(34, Program[34]) /\ Placed(35, Program[35]) /\ Placed(36, Program[36])
  BY ProgramIs DEF Do, Placed, Begins, Stopped, Processors, Databases
<1>6. i \in {1, 2, 3, 4, 5, 6, 7, 8, 9, 10, 11, 12, 13, 14, 15, 16, 17, 18, 19, 20, 21, 22,
             23, 24, 25, 26, 27, 28, 29, 30, 31, 32, 33, 34, 35, 36}
  OBVIOUS
<1> QED BY <1>1, <1>2, <1>3, <1>4, <1>5, <1>6

LEMMA StopKinds ==
    ASSUME NEW i \in 1..9
    PROVE  /\ shutDownServers[i] \in Stmts
           /\ shutDownServers[i].op \in {"finish", "shutdown", "wait"}
           /\ shutDownServers[i].who \in Stopped
           /\ shutDownServers[i].op = "shutdown" =>
                 /\ i \in 1..7
                 /\ shutDownServers[i + 1] = Do("wait", shutDownServers[i].who)
           /\ shutDownServers[i].op = "wait" =>
                 /\ i \in 2..9
                 /\ shutDownServers[i - 1] = Do("shutdown", shutDownServers[i].who)
<1>1. i \in {1, 2, 3, 4, 5, 6, 7, 8, 9}
  OBVIOUS
<1> QED BY <1>1, shutDownServersIs DEF Do, Stopped, Stmts, Ops, Processors, Databases

LEMMA PairsAre ==
    ASSUME NEW i \in 1..36, Program[i].op = "shutdown"
    PROVE  i + 1 \in 1..36 /\ Program[i + 1] = Do("wait", Program[i].who)
<1>1. i \in {24, 26, 31}
  BY StatementsArePlaced DEF Placed
<1>2. CASE i = 24
  <2>1. PICK n \in 1..36 : n = 25 /\ n = i + 1
    BY <1>2
  <2> QED BY <1>2, <2>1, ProgramIs DEF Do
<1>3. CASE i = 26
  <2>1. PICK n \in 1..36 : n = 27 /\ n = i + 1
    BY <1>3
  <2> QED BY <1>3, <2>1, ProgramIs DEF Do
<1>4. CASE i = 31
  <2>1. PICK n \in 1..36 : n = 32 /\ n = i + 1
    BY <1>4
  <2> QED BY <1>4, <2>1, ProgramIs DEF Do
<1> QED BY <1>1, <1>2, <1>3, <1>4

-----------------------------------------------------------------------------
(* Queues                                                                  *)

Holds(s) == "Finish" \in ToSet(s)

LEMMA Appending ==
    ASSUME NEW s \in Seq(ProcessEvents), NEW ev \in ProcessEvents
    PROVE  /\ Append(s, ev) \in Seq(ProcessEvents)
           /\ Holds(s) => Holds(Append(s, ev))
           /\ ev = "Finish" => Holds(Append(s, ev))
<1>1. Append(s, ev) \in Seq(ProcessEvents)
  OBVIOUS
<1>2. ASSUME Holds(s) PROVE Holds(Append(s, ev))
  <2>1. PICK i \in DOMAIN s : s[i] = "Finish"
    BY <1>2 DEF Holds, ToSet
  <2>2. i \in DOMAIN Append(s, ev) /\ Append(s, ev)[i] = "Finish"
    BY <2>1
  <2> QED BY <2>2 DEF Holds, ToSet
<1>3. ASSUME ev = "Finish" PROVE Holds(Append(s, ev))
  <2>1. Len(s) + 1 \in DOMAIN Append(s, ev) /\ Append(s, ev)[Len(s) + 1] = "Finish"
    BY <1>3
  <2> QED BY <2>1 DEF Holds, ToSet
<1> QED BY <1>1, <1>2, <1>3

LEMMA Shortening ==
    ASSUME NEW s \in Seq(ProcessEvents), s # << >>, Head(s) # "Finish"
    PROVE  Tail(s) \in Seq(ProcessEvents) /\ (Holds(s) => Holds(Tail(s)))
<1>1. Tail(s) \in Seq(ProcessEvents)
  OBVIOUS
<1>2. ASSUME Holds(s) PROVE Holds(Tail(s))
  <2>1. PICK i \in DOMAIN s : s[i] = "Finish"
    BY <1>2 DEF Holds, ToSet
  <2>2. i # 1
    BY <2>1
  <2>3. i - 1 \in DOMAIN Tail(s) /\ Tail(s)[i - 1] = "Finish"
    BY <2>1, <2>2
  <2> QED BY <2>3 DEF Holds, ToSet
<1> QED BY <1>1, <1>2

-----------------------------------------------------------------------------
(* What any step does to the threads and their queues                      *)

(* A thread does not come back, but for the one the authentication server  *)
(* brings along, the map's, and those whose turn it is to be activated.    *)
ThreadSteady(p) ==
    /\ thread[p] = "ended" =>
          thread'[p] = "ended" \/ (p = "authhandler" /\ thread["auth"] = "starting")
                             \/ (at = Begins(p) /\ at' # at)
    /\ thread[p] = "none" =>
          thread'[p] = "none" \/ (p = "authhandler" /\ thread["auth"] = "starting")
                            \/ p = "instance" \/ (at = Begins(p) /\ at' # at)

(* A Finish is not lost.                                                   *)
FinishKept(p) ==
    /\ Holds(queue[p]) => Holds(queue'[p]) \/ thread'[p] = "ended"
    /\ p \in missed => p \in missed'

Steady == \A p \in Processors : ThreadSteady(p) /\ FinishKept(p)

Threads == [Processors -> {"none", "starting", "running", "ended"}]
QueuesOf == [Processors -> Seq(ProcessEvents)]

LEMMA PostingKeeps ==
    ASSUME queue \in QueuesOf, NEW p \in Processors, NEW target \in Processors,
           NEW ev \in ProcessEvents, queue[p] # << >>, Head(queue[p]) # "Finish",
           Posting(p, target, ev)
    PROVE  /\ queue' \in QueuesOf
           /\ \A r \in Processors : Holds(queue[r]) => Holds(queue'[r])
           /\ astray' = astray \/ (target \in destroyed /\ astray' = astray \union {<<p, target>>})
<1>1. PICK s \in Seq(ProcessEvents) : s = queue[p]
  BY DEF QueuesOf
<1>2. Tail(s) \in Seq(ProcessEvents) /\ (Holds(s) => Holds(Tail(s)))
  <2>1. s # << >> /\ Head(s) # "Finish"
    BY <1>1
  <2> QED BY <2>1, Shortening
<1>3. PICK q : q = [queue EXCEPT ![p] = Tail(@)]
  OBVIOUS
<1>4. /\ q \in QueuesOf
      /\ \A r \in Processors : Holds(queue[r]) => Holds(q[r])
  BY <1>1, <1>2, <1>3 DEF QueuesOf
<1>5. CASE target \in destroyed
  BY <1>3, <1>4, <1>5 DEF Posting
<1>6. CASE target \notin destroyed
  <2>1. queue' = [q EXCEPT ![target] = Append(@, ev)] /\ astray' = astray
    BY <1>3, <1>6 DEF Posting
  <2>2. PICK t \in Seq(ProcessEvents) : t = q[target]
    BY <1>4 DEF QueuesOf
  <2>3. Append(t, ev) \in Seq(ProcessEvents) /\ (Holds(t) => Holds(Append(t, ev)))
    BY Appending
  <2>4. \A r \in Processors : queue'[r] = IF r = target THEN Append(t, ev) ELSE q[r]
    BY <1>4, <2>1, <2>2 DEF QueuesOf
  <2>5. queue' \in QueuesOf
    BY <1>4, <2>1, <2>2, <2>3 DEF QueuesOf
  <2>6. ASSUME NEW r \in Processors, Holds(queue[r]) PROVE Holds(queue'[r])
    <3>1. Holds(q[r])
      BY <1>4, <2>6
    <3>2. CASE r = target
      BY <2>2, <2>3, <2>4, <3>1, <3>2
    <3>3. CASE r # target
      BY <2>4, <3>1, <3>3
    <3> QED BY <3>2, <3>3
  <2> QED BY <2>1, <2>5, <2>6
<1> QED BY <1>5, <1>6

LEMMA TakingKeeps ==
    ASSUME queue \in QueuesOf, NEW p \in Processors, queue[p] # << >>,
           Head(queue[p]) # "Finish", queue' = [queue EXCEPT ![p] = Tail(@)]
    PROVE  /\ queue' \in QueuesOf
           /\ \A r \in Processors : Holds(queue[r]) => Holds(queue'[r])
<1>1. PICK s \in Seq(ProcessEvents) : s = queue[p]
  BY DEF QueuesOf
<1>2. Tail(s) \in Seq(ProcessEvents) /\ (Holds(s) => Holds(Tail(s)))
  <2>1. s # << >> /\ Head(s) # "Finish"
    BY <1>1
  <2> QED BY <2>1, Shortening
<1> QED BY <1>1, <1>2 DEF QueuesOf

LEMMA AddingKeeps ==
    ASSUME queue \in QueuesOf, NEW p \in Processors, NEW ev \in ProcessEvents,
           queue' = [queue EXCEPT ![p] = Append(@, ev)]
    PROVE  /\ queue' \in QueuesOf
           /\ \A r \in Processors : Holds(queue[r]) => Holds(queue'[r])
           /\ ev = "Finish" => Holds(queue'[p])
<1>1. PICK t \in Seq(ProcessEvents) : t = queue[p]
  BY DEF QueuesOf
<1>2. /\ Append(t, ev) \in Seq(ProcessEvents)
      /\ Holds(t) => Holds(Append(t, ev))
      /\ ev = "Finish" => Holds(Append(t, ev))
  BY Appending
<1>3. \A r \in Processors : queue'[r] = IF r = p THEN Append(t, ev) ELSE queue[r]
  BY <1>1 DEF QueuesOf
<1>4. queue' \in QueuesOf
  BY <1>1, <1>2 DEF QueuesOf
<1>5. ASSUME NEW r \in Processors, Holds(queue[r]) PROVE Holds(queue'[r])
  <2>1. CASE r = p
    BY <1>1, <1>2, <1>3, <1>5, <2>1
  <2>2. CASE r # p
    BY <1>3, <1>5, <2>2
  <2> QED BY <2>1, <2>2
<1> QED BY <1>2, <1>3, <1>4, <1>5

-----------------------------------------------------------------------------
(* The processors' own steps                                               *)

BrokenOK == broken \subseteq Databases \union {"map"}

(* Who posts to somebody who is gone is running, and the authentication    *)
(* handler's own targets are never gone.                                   *)
Strays ==
    \/ astray' = astray
    \/ \E p \in Processors, target \in Processors :
          /\ thread[p] = "running" /\ target \in destroyed
          /\ p = "authhandler" => target \in {"authdb", "gamehandler"}
          /\ astray' = astray \union {<<p, target>>}

Own == Steady /\ thread' \in Threads /\ queue' \in QueuesOf /\ Strays

LEMMA NamesAre ==
    /\ "timers" \in Processors /\ "bus" \in Processors /\ "monitor" \in Processors
    /\ "auth" \in Processors /\ "authhandler" \in Processors /\ "game" \in Processors
    /\ "gamehandler" \in Processors /\ "services" \in Processors /\ "map" \in Processors
    /\ "authdb" \in Processors /\ "gamedb" \in Processors /\ "instance" \in Processors
BY DEF Processors, Databases

LEMMA TypesAre ==
    ASSUME ProcessesTypeOK
    PROVE  thread \in Threads /\ queue \in QueuesOf
BY DEF ProcessesTypeOK, Threads, QueuesOf

LEMMA QueuesOnly ==
    ASSUME thread \in Threads, thread' = thread, missed' = missed,
           \A r \in Processors : Holds(queue[r]) => Holds(queue'[r])
    PROVE  Steady /\ thread' \in Threads
BY DEF Steady, ThreadSteady, FinishKept

LEMMA StartsOwn ==
    ASSUME ProcessesTypeOK, NEW p \in Processors, Starts(p)
    PROVE  Own
<1>1. thread \in Threads /\ queue \in QueuesOf
  BY TypesAre
<1>2. thread[p] = "starting" /\ missed' = missed /\ astray' = astray
  BY DEF Starts, mainOnly
<1>3. /\ queue' \in QueuesOf
      /\ \A r \in Processors : Holds(queue[r]) => Holds(queue'[r])
  <2>1. CASE p \in Databases \intersect broken
    <3>1. queue' = [queue EXCEPT !["bus"] = Append(@, "Failure")] /\ "Failure" \in ProcessEvents
      BY <2>1 DEF Starts, ProcessEvents
    <3> QED BY <1>1, <3>1, AddingKeeps, NamesAre
  <2>2. CASE p \notin Databases \intersect broken
    <3>1. queue' = queue
      BY <2>2 DEF Starts
    <3> QED BY <1>1, <3>1
  <2> QED BY <2>1, <2>2
<1>4. /\ thread' \in Threads
      /\ \A r \in Processors : ThreadSteady(r)
  <2>1. PICK e \in {"ended", "running"} :
          e = IF p \in Databases \intersect broken THEN "ended" ELSE "running"
    OBVIOUS
  <2>2. thread' = [thread EXCEPT ![p] = e,
                                 !["authhandler"] = IF p = "auth" THEN "running" ELSE @]
    BY <2>1 DEF Starts
  <2>3. thread' \in Threads
    BY <1>1, <2>1, <2>2, NamesAre DEF Threads
  <2>4. ASSUME NEW r \in Processors PROVE ThreadSteady(r)
    <3>1. CASE r = "authhandler" /\ p = "auth"
      BY <1>2, <3>1 DEF ThreadSteady
    <3>2. CASE r = p /\ r # "authhandler"
      BY <1>2, <3>2 DEF ThreadSteady
    <3>3. CASE r # p /\ ~(r = "authhandler" /\ p = "auth")
      <4>1. thread'[r] = thread[r]
        BY <1>1, <2>1, <2>2, <3>3, NamesAre DEF Threads
      <4> QED BY <4>1 DEF ThreadSteady
    <3>4. CASE r = p /\ r = "authhandler"
      BY <1>2, <3>4 DEF ThreadSteady
    <3> QED BY <3>1, <3>2, <3>3, <3>4
  <2> QED BY <2>3, <2>4
<1> QED BY <1>2, <1>3, <1>4 DEF Own, Steady, FinishKept, Strays

LEMMA EndsOwn ==
    ASSUME ProcessesTypeOK, NEW p \in Processors, Ends(p)
    PROVE  Own
<1>1. thread \in Threads /\ queue \in QueuesOf
  BY TypesAre
<1>2. /\ thread[p] = "running" /\ missed' = missed /\ astray' = astray
      /\ thread' = [thread EXCEPT ![p] = "ended"]
      /\ queue' = [queue EXCEPT ![p] = << >>]
  BY DEF Ends, Gets, mainOnly
<1>3. thread' \in Threads /\ queue' \in QueuesOf
  BY <1>1, <1>2 DEF Threads, QueuesOf
<1>4. ASSUME NEW r \in Processors PROVE ThreadSteady(r) /\ FinishKept(r)
  <2>1. CASE r = p
    <3>1. thread'[r] = "ended"
      BY <1>1, <1>2, <2>1 DEF Threads
    <3> QED BY <1>2, <2>1, <3>1 DEF ThreadSteady, FinishKept
  <2>2. CASE r # p
    <3>1. thread'[r] = thread[r] /\ queue'[r] = queue[r]
      BY <1>1, <1>2, <2>2 DEF Threads, QueuesOf
    <3> QED BY <1>2, <3>1 DEF ThreadSteady, FinishKept
  <2> QED BY <2>1, <2>2
<1> QED BY <1>2, <1>3, <1>4 DEF Own, Steady, Strays

(* An event that is not Finish is taken off the queue, and another posted. *)
LEMMA GetsTakes ==
    ASSUME NEW p, NEW ev, ev # "Finish", Gets(p, ev)
    PROVE  thread[p] = "running" /\ queue[p] # << >> /\ Head(queue[p]) # "Finish"
BY DEF Gets

LEMMA PostingOwn ==
    ASSUME ProcessesTypeOK, NEW p \in Processors, NEW target \in Processors,
           NEW ev \in ProcessEvents, thread[p] = "running", queue[p] # << >>,
           Head(queue[p]) # "Finish", Posting(p, target, ev), thread' = thread,
           missed' = missed, p = "authhandler" => target \in {"authdb", "gamehandler"}
    PROVE  Own
<1>1. thread \in Threads /\ queue \in QueuesOf
  BY TypesAre
<1>2. /\ queue' \in QueuesOf
      /\ \A r \in Processors : Holds(queue[r]) => Holds(queue'[r])
      /\ astray' = astray \/ (target \in destroyed /\ astray' = astray \union {<<p, target>>})
  BY <1>1, PostingKeeps
<1>3. Steady /\ thread' \in Threads
  BY <1>1, <1>2, QueuesOnly
<1>4. Strays
  BY <1>2 DEF Strays
<1> QED BY <1>2, <1>3, <1>4 DEF Own

LEMMA TakingOwn ==
    ASSUME ProcessesTypeOK, NEW p \in Processors, queue[p] # << >>,
           Head(queue[p]) # "Finish", queue' = [queue EXCEPT ![p] = Tail(@)],
           thread' = thread, missed' = missed, astray' = astray
    PROVE  Own
<1>1. thread \in Threads /\ queue \in QueuesOf
  BY TypesAre
<1>2. /\ queue' \in QueuesOf
      /\ \A r \in Processors : Holds(queue[r]) => Holds(queue'[r])
  BY <1>1, TakingKeeps
<1>3. Steady /\ thread' \in Threads
  BY <1>1, <1>2, QueuesOnly
<1> QED BY <1>2, <1>3 DEF Own, Strays

LEMMA ReconfiguresOwn ==
    ASSUME ProcessesTypeOK, BrokenOK, NEW p \in Processors, Reconfigures(p)
    PROVE  Own
<1>1. Gets(p, "ReloadConfig") /\ thread' = thread /\ missed' = missed
  BY DEF Reconfigures, mainOnly
<1>2. thread[p] = "running" /\ queue[p] # << >> /\ Head(queue[p]) # "Finish"
  BY <1>1, GetsTakes
<1>3. CASE p \in broken
  <2>1. Posting(p, "bus", "Failure") /\ "Failure" \in ProcessEvents /\ p # "authhandler"
    BY <1>3 DEF Reconfigures, ProcessEvents, BrokenOK, Databases
  <2> QED BY <1>1, <1>2, <2>1, PostingOwn, NamesAre
<1>4. CASE p \notin broken
  <2>1. queue' = [queue EXCEPT ![p] = Tail(@)] /\ astray' = astray
    BY <1>4 DEF Reconfigures
  <2> QED BY <1>1, <1>2, <2>1, TakingOwn
<1> QED BY <1>3, <1>4

LEMMA PublishesOwn ==
    ASSUME ProcessesTypeOK, Publishes
    PROVE  Own
<1>1. /\ thread' = thread /\ missed' = missed
      /\ thread["bus"] = "running" /\ queue["bus"] # << >> /\ Head(queue["bus"]) # "Finish"
  BY GetsTakes DEF Publishes, mainOnly
<1>2. "Failure" \in ProcessEvents /\ "work" \in ProcessEvents
  BY DEF ProcessEvents
<1>3. CASE queue' = [queue EXCEPT !["bus"] = Tail(@)] /\ astray' = astray
  BY <1>1, <1>3, TakingOwn, NamesAre
<1>4. CASE Posting("bus", "monitor", "Failure")
  BY <1>1, <1>2, <1>4, PostingOwn, NamesAre
<1>5. ASSUME NEW p \in subscribed, Posting("bus", p, "work") PROVE Own
  <2>1. p \in Processors
    BY DEF ProcessesTypeOK
  <2> QED BY <1>1, <1>2, <1>5, <2>1, PostingOwn, NamesAre
<1>6. \/ queue' = [queue EXCEPT !["bus"] = Tail(@)] /\ astray' = astray
      \/ Posting("bus", "monitor", "Failure")
      \/ \E p \in subscribed : Posting("bus", p, "work")
  BY DEF Publishes
<1> QED BY <1>3, <1>4, <1>5, <1>6

LEMMA NoticesOwn ==
    ASSUME ProcessesTypeOK, NoticesFailure
    PROVE  Own
<1>1. /\ thread' = thread /\ missed' = missed /\ astray' = astray
      /\ queue["monitor"] # << >> /\ Head(queue["monitor"]) # "Finish"
      /\ queue' = [queue EXCEPT !["monitor"] = Tail(@)]
  BY GetsTakes DEF NoticesFailure, mainOnly
<1> QED BY <1>1, TakingOwn, NamesAre

LEMMA WorksOwn ==
    ASSUME ProcessesTypeOK, NEW p \in Processors, Works(p)
    PROVE  Own
<1>1. /\ missed' = missed
      /\ thread[p] = "running" /\ queue[p] # << >> /\ Head(queue[p]) # "Finish"
  BY GetsTakes DEF Works, mainOnly
<1>2. "work" \in ProcessEvents
  BY DEF ProcessEvents
<1>3. CASE queue' = [queue EXCEPT ![p] = Tail(@)] /\ thread' = thread /\ astray' = astray
  BY <1>1, <1>3, TakingOwn
<1>4. ASSUME NEW q \in Targets[p], Posting(p, q, "work"),
             thread' = IF q = "instance" /\ thread[q] = "none"
                       THEN [thread EXCEPT ![q] = "running"] ELSE thread
      PROVE  Own
  <2>1. q \in Processors /\ (p = "authhandler" => q \in {"authdb", "gamehandler"})
    BY DEF Targets, Processors, Databases
  <2>2. CASE q = "instance" /\ thread[q] = "none"
    <3>1. thread \in Threads /\ queue \in QueuesOf
      BY TypesAre
    <3>2. /\ queue' \in QueuesOf
          /\ \A r \in Processors : Holds(queue[r]) => Holds(queue'[r])
          /\ astray' = astray \/ (q \in destroyed /\ astray' = astray \union {<<p, q>>})
      BY <1>1, <1>2, <1>4, <2>1, <3>1, PostingKeeps
    <3>3. thread' = [thread EXCEPT !["instance"] = "running"]
      BY <1>4, <2>2
    <3>4. thread' \in Threads
      BY <3>1, <3>3 DEF Threads
    <3>5. ASSUME NEW r \in Processors PROVE ThreadSteady(r)
      <4>1. CASE r = "instance"
        BY <2>2, <4>1 DEF ThreadSteady
      <4>2. CASE r # "instance"
        <5>1. thread'[r] = thread[r]
          BY <3>1, <3>3, <4>2 DEF Threads
        <5> QED BY <5>1 DEF ThreadSteady
      <4> QED BY <4>1, <4>2
    <3>6. Strays
      BY <1>1, <2>1, <3>2 DEF Strays
    <3> QED BY <1>1, <3>2, <3>4, <3>5, <3>6 DEF Own, Steady, FinishKept
  <2>3. CASE ~(q = "instance" /\ thread[q] = "none")
    <3>1. thread' = thread
      BY <1>4, <2>3
    <3> QED BY <1>1, <1>2, <1>4, <2>1, <3>1, PostingOwn
  <2> QED BY <2>2, <2>3
<1>5. \/ queue' = [queue EXCEPT ![p] = Tail(@)] /\ thread' = thread /\ astray' = astray
      \/ \E q \in Targets[p] :
            /\ Posting(p, q, "work")
            /\ thread' = IF q = "instance" /\ thread[q] = "none"
                         THEN [thread EXCEPT ![q] = "running"] ELSE thread
  BY DEF Works
<1> QED BY <1>3, <1>4, <1>5

LEMMA ReceivesOwn ==
    ASSUME ProcessesTypeOK, NEW p \in Processors, Receives(p)
    PROVE  Own
<1>1. thread \in Threads /\ queue \in QueuesOf
  BY TypesAre
<1>2. /\ queue' = [queue EXCEPT ![p] = Append(@, "work")]
      /\ thread' = thread /\ missed' = missed /\ astray' = astray
  BY DEF Receives
<1>3. "work" \in ProcessEvents
  BY DEF ProcessEvents
<1>4. /\ queue' \in QueuesOf
      /\ \A r \in Processors : Holds(queue[r]) => Holds(queue'[r])
  BY <1>1, <1>2, <1>3, AddingKeeps
<1>5. Steady /\ thread' \in Threads
  BY <1>1, <1>2, <1>4, QueuesOnly
<1> QED BY <1>2, <1>4, <1>5 DEF Own, Strays

-----------------------------------------------------------------------------
(* A statement of the main thread or of shutDownServers                    *)

(* p was to finish: it will, it did, or it was not there yet.              *)
Told(p) == Holds(queue[p]) \/ p \in missed \/ thread[p] = "ended"

LEMMA DoesSteady ==
    ASSUME ProcessesTypeOK, NEW stmt \in Stmts, stmt.who \in Processors \/ stmt.op = "loop",
           stmt.op = "activate" => at = Begins(stmt.who) /\ at' # at,
           Does(stmt)
    PROVE  /\ Steady /\ thread' \in Threads /\ queue' \in QueuesOf
           /\ subscribed' \subseteq Processors /\ missed' \subseteq Processors
           /\ \/ destroyed' = destroyed
              \/ stmt.op = "destroy" /\ destroyed' = destroyed \union {stmt.who}
           /\ stmt.op \in {"finish", "shutdown"} => Told(stmt.who)'
           /\ stmt.op = "wait" => ~Alive(stmt.who)
           /\ stmt.op = "loop" => event_loop_is_done
           /\ stmt.op # "activate" => thread' = thread
<1>1. /\ thread \in Threads /\ queue \in QueuesOf
      /\ subscribed \subseteq Processors /\ missed \subseteq Processors
  BY TypesAre DEF ProcessesTypeOK
<1>2. CASE stmt.op = "activate" /\ Activates(stmt.who)
  <2>1. PICK p \in Processors : p = stmt.who
    BY <1>2
  <2>2. /\ queue' = queue /\ missed' = missed /\ subscribed' = subscribed
        /\ destroyed' = destroyed
    BY <1>2 DEF Activates
  <2>3. PICK e \in {"starting", "running"} :
          e = IF p \in Databases \union {"auth"} THEN "starting" ELSE "running"
    OBVIOUS
  <2>4. thread' = [thread EXCEPT ![p] = e]
    BY <1>2, <2>1, <2>3 DEF Activates
  <2>5. thread' \in Threads
    BY <1>1, <2>3, <2>4 DEF Threads
  <2>6. ASSUME NEW r \in Processors PROVE ThreadSteady(r) /\ FinishKept(r)
    <3>1. CASE r = p
      BY <1>2, <2>1, <2>2, <3>1 DEF ThreadSteady, FinishKept
    <3>2. CASE r # p
      <4>1. thread'[r] = thread[r]
        BY <1>1, <2>4, <3>2 DEF Threads
      <4> QED BY <2>2, <4>1 DEF ThreadSteady, FinishKept
    <3> QED BY <3>1, <3>2
  <2>7. Steady
    BY <2>6 DEF Steady
  <2> QED BY <1>1, <1>2, <2>2, <2>5, <2>7
<1>3. CASE stmt.op = "subscribe" /\ Subscribes(stmt.who)
  <2>1. /\ queue' = queue /\ missed' = missed /\ thread' = thread /\ destroyed' = destroyed
        /\ subscribed' = subscribed \union {stmt.who} /\ stmt.who \in Processors
    BY <1>3 DEF Subscribes
  <2>2. Steady
    BY <1>1, <2>1, QueuesOnly
  <2> QED BY <1>1, <1>3, <2>1, <2>2
<1>4. CASE stmt.op = "tell" /\ Tells(stmt.who)
  <2>1. PICK p \in Processors : p = stmt.who
    BY <1>4
  <2>2. /\ queue' = [queue EXCEPT ![p] = Append(@, "ReloadConfig")]
        /\ missed' = missed /\ thread' = thread /\ destroyed' = destroyed
        /\ subscribed' = subscribed
    BY <1>4, <2>1 DEF Tells
  <2>3. "ReloadConfig" \in ProcessEvents
    BY DEF ProcessEvents
  <2>4. queue' \in QueuesOf /\ \A r \in Processors : Holds(queue[r]) => Holds(queue'[r])
    BY <1>1, <2>2, <2>3, AddingKeeps
  <2>5. Steady
    BY <1>1, <2>2, <2>4, QueuesOnly
  <2> QED BY <1>1, <1>4, <2>2, <2>4, <2>5
<1>5. CASE stmt.op \in {"finish", "shutdown"} /\ PostsFinish(stmt.who)
  <2>1. PICK p \in Processors : p = stmt.who
    BY <1>5
  <2>2. /\ thread' = thread /\ destroyed' = destroyed /\ subscribed' = subscribed
        /\ missed' = IF thread[p] = "none" THEN missed \union {p} ELSE missed
        /\ queue' = IF Alive(p) THEN [queue EXCEPT ![p] = Append(@, "Finish")] ELSE queue
    BY <1>5, <2>1 DEF PostsFinish
  <2>3. "Finish" \in ProcessEvents
    BY DEF ProcessEvents
  <2>4. /\ queue' \in QueuesOf
        /\ \A r \in Processors : Holds(queue[r]) => Holds(queue'[r])
        /\ Alive(p) => Holds(queue'[p])
    <3>1. CASE Alive(p)
      <4>1. queue' = [queue EXCEPT ![p] = Append(@, "Finish")]
        BY <2>2, <3>1
      <4> QED BY <1>1, <2>3, <4>1, AddingKeeps
    <3>2. CASE ~Alive(p)
      <4>1. queue' = queue
        BY <2>2, <3>2
      <4> QED BY <1>1, <3>2, <4>1
    <3> QED BY <3>1, <3>2
  <2>5. missed \subseteq missed' /\ missed' \subseteq Processors
    BY <1>1, <2>2
  <2>6. ASSUME NEW r \in Processors PROVE ThreadSteady(r) /\ FinishKept(r)
    BY <2>2, <2>4, <2>5 DEF ThreadSteady, FinishKept
  <2>7. Told(p)'
    <3>1. CASE thread[p] = "none"
      <4>1. p \in missed'
        BY <2>2, <3>1
      <4> QED BY <4>1 DEF Told
    <3>2. CASE thread[p] = "ended"
      BY <2>2, <3>2 DEF Told
    <3>3. CASE Alive(p)
      BY <2>4, <3>3 DEF Told
    <3>4. thread[p] \in {"none", "starting", "running", "ended"}
      BY <1>1 DEF Threads
    <3> QED BY <3>1, <3>2, <3>3, <3>4 DEF Alive
  <2>8. Steady
    BY <2>6 DEF Steady
  <2>9. Told(stmt.who)'
    BY <2>1, <2>7
  <2> QED BY <1>1, <1>5, <2>2, <2>4, <2>5, <2>8, <2>9
<1>6. CASE stmt.op = "wait" /\ ~Alive(stmt.who) /\ Passes
  <2>1. /\ queue' = queue /\ missed' = missed /\ thread' = thread /\ destroyed' = destroyed
        /\ subscribed' = subscribed
    BY <1>6 DEF Passes
  <2>2. Steady
    BY <1>1, <2>1, QueuesOnly
  <2> QED BY <1>1, <1>6, <2>1, <2>2
<1>7. CASE stmt.op = "loop" /\ event_loop_is_done /\ Passes
  <2>1. /\ queue' = queue /\ missed' = missed /\ thread' = thread /\ destroyed' = destroyed
        /\ subscribed' = subscribed
    BY <1>7 DEF Passes
  <2>2. Steady
    BY <1>1, <2>1, QueuesOnly
  <2> QED BY <1>1, <1>7, <2>1, <2>2
<1>8. CASE stmt.op = "destroy" /\ Destroys(stmt.who)
  <2>1. /\ queue' = queue /\ missed' = missed /\ thread' = thread
        /\ destroyed' = destroyed \union {stmt.who} /\ subscribed' \subseteq subscribed
    BY <1>8 DEF Destroys
  <2>2. Steady
    BY <1>1, <2>1, QueuesOnly
  <2> QED BY <1>1, <1>8, <2>1, <2>2
<1> QED BY <1>2, <1>3, <1>4, <1>5, <1>6, <1>7, <1>8 DEF Does

-----------------------------------------------------------------------------
(* The inductive invariant                                                 *)

(* Nobody has a thread before it is activated.                             *)
Begun == \A p \in Processors : at <= Begins(p) => thread[p] = "none"

(* Who was waited for is gone.                                             *)
Waited == \A i \in 1..36 : i < at /\ Program[i].op = "wait" => ~Alive(Program[i].who)

Wrecks == {"services", "game", "map", "authhandler", "auth", "monitor", "bus"}

Wrecked == destroyed \subseteq Wrecks /\ (destroyed # {} => at > 28)

AstrayOK == \A post \in astray : post[1] \in Databases \union {"instance"}

(* Once the event loop is to be left, those it serves were told to finish, *)
(* and until then those that shutDownServers has dealt with.               *)
AllTold == event_loop_is_done => \A p \in Stopped : Told(p)

StopTold ==
    \A x \in {"main", "monitor"} : \A i \in 1..9 :
        i < stopping[x] /\ shutDownServers[i].op \in {"finish", "shutdown"} =>
            Told(shutDownServers[i].who)

LoopLeft == at > 17 => event_loop_is_done

(* The handlers are waited for once they were told themselves.             *)
WaitTold == at \in 24..36 /\ Program[at].op = "wait" => Told(Program[at].who)

PInv == /\ ProcessesTypeOK /\ BrokenOK /\ Begun /\ Waited /\ Wrecked /\ AstrayOK
        /\ AllTold /\ StopTold /\ LoopLeft /\ WaitTold

-----------------------------------------------------------------------------
(* What every step keeps                                                   *)

LEMMA BeginsEarly ==
    \A p \in Processors : /\ Begins(p) \in 0..13
                          /\ p \in {"authhandler", "instance"} => Begins(p) = 0
BY DEF Begins, Processors, Databases

LEMMA ToldKept ==
    ASSUME ProcessesTypeOK, Begun, Steady, NEW p \in Processors, Told(p),
           p = "authhandler" => thread["auth"] # "starting"
    PROVE  Told(p)'
<1>1. at = Begins(p) => thread[p] = "none"
  BY BeginsEarly DEF Begun, ProcessesTypeOK
<1>2. thread[p] = "ended" => thread'[p] = "ended"
  BY <1>1 DEF Steady, ThreadSteady
<1>3. FinishKept(p)
  BY DEF Steady
<1> QED BY <1>2, <1>3 DEF FinishKept, Told

LEMMA PlacesAre ==
    ASSUME ProcessesTypeOK
    PROVE  at \in 1..37 /\ stopping \in [{"main", "monitor"} -> 0..9]
<1>1. PICK n, m \in Nat : n = Len(Program) /\ n = 36 /\ m = Len(shutDownServers) /\ m = 9
  BY ProgramIs, shutDownServersIs
<1> QED BY <1>1 DEF ProcessesTypeOK

LEMMA GoneKept ==
    ASSUME ProcessesTypeOK, Steady, at > 17, NEW p \in Processors \ {"instance"}, ~Alive(p),
           p = "authhandler" => thread["auth"] # "starting"
    PROVE  ~Alive(p)'
<1>1. at # Begins(p)
  <2>1. Begins(p) \in 0..13 /\ at \in 1..37
    BY BeginsEarly, PlacesAre
  <2> QED BY <2>1
<1>2. thread[p] \in {"none", "ended"}
  BY DEF Alive, ProcessesTypeOK
<1>3. ThreadSteady(p)
  BY DEF Steady
<1> QED BY <1>1, <1>2, <1>3 DEF ThreadSteady, Alive

LEMMA BegunKept ==
    ASSUME ProcessesTypeOK, Begun, Steady, at' \in Nat, at' >= at
    PROVE  Begun'
<1>1. SUFFICES ASSUME NEW p \in Processors, at' <= Begins(p) PROVE thread'[p] = "none"
  BY DEF Begun
<1>2. at \in Nat /\ at > 0 /\ Begins(p) \in Nat
  BY BeginsEarly, PlacesAre
<1>3. Begins(p) # 0 /\ at <= Begins(p)
  BY <1>1, <1>2
<1>4. thread[p] = "none" /\ p \notin {"authhandler", "instance"}
  BY <1>3, BeginsEarly DEF Begun
<1>5. ~(at = Begins(p) /\ at' # at)
  BY <1>1, <1>2
<1>6. ThreadSteady(p)
  BY DEF Steady
<1> QED BY <1>4, <1>5, <1>6 DEF ThreadSteady

(* The authentication server, too, has been waited for before its handler. *)
LEMMA AuthIsGone ==
    ASSUME Waited, at \in Nat, at > 21
    PROVE  thread["auth"] # "starting"
<1>1. PICK i \in 1..36 : i = 21
  OBVIOUS
<1>2. Program[i].op = "wait" /\ Program[i].who = "auth" /\ i < at
  BY <1>1, ProgramIs DEF Do
<1>3. ~Alive("auth")
  BY <1>2 DEF Waited
<1> QED BY <1>3 DEF Alive

LEMMA HandlerIsLast ==
    ASSUME NEW i \in 1..36, Program[i].op = "wait", Program[i].who = "authhandler"
    PROVE  i > 21
BY StatementsArePlaced DEF Placed, Stopped

LEMMA WaitedKept ==
    ASSUME ProcessesTypeOK, Waited, Steady, NEW i \in 1..36, i < at, Program[i].op = "wait"
    PROVE  ~Alive(Program[i].who)'
<1>1. at \in Nat
  BY PlacesAre
<1>2. PICK p \in Processors \ {"instance"} : p = Program[i].who
  BY StatementsArePlaced DEF Placed
<1>3. i > 17 /\ at > 17 /\ ~Alive(p)
  BY <1>1, <1>2, StatementsArePlaced DEF Placed, Waited
<1>4. ASSUME p = "authhandler" PROVE thread["auth"] # "starting"
  <2>1. i > 21
    BY <1>2, <1>4, HandlerIsLast
  <2>2. at > 21
    BY <1>1, <2>1
  <2> QED BY <1>1, <2>2, AuthIsGone
<1>5. ~Alive(p)'
  BY <1>3, <1>4, GoneKept
<1> QED BY <1>2, <1>5

LEMMA AllToldKept ==
    ASSUME ProcessesTypeOK, Begun, AllTold, Steady, event_loop_is_done,
           NEW p \in Stopped
    PROVE  Told(p)'
<1>1. p \in Processors /\ p # "authhandler" /\ Told(p)
  BY DEF Stopped, Processors, AllTold
<1> QED BY <1>1, ToldKept

LEMMA StopToldKept ==
    ASSUME ProcessesTypeOK, Begun, StopTold, Steady, NEW x \in {"main", "monitor"},
           NEW i \in 1..9, i < stopping[x],
           shutDownServers[i].op \in {"finish", "shutdown"}
    PROVE  Told(shutDownServers[i].who)'
<1>1. PICK p \in Stopped : p = shutDownServers[i].who
  BY StopKinds
<1>2. p \in Processors /\ p # "authhandler"
  BY DEF Stopped, Processors
<1>3. Told(p)
  BY <1>1 DEF StopTold
<1>4. Told(p)'
  BY <1>2, <1>3, ToldKept
<1> QED BY <1>1, <1>4

LEMMA WaitToldKept ==
    ASSUME ProcessesTypeOK, Begun, Waited, WaitTold, Steady, at' = at
    PROVE  WaitTold'
<1>1. SUFFICES ASSUME at \in 24..36, Program[at].op = "wait"
               PROVE  Told(Program[at].who)'
  BY DEF WaitTold
<1>2. PICK p \in Processors : p = Program[at].who
  BY <1>1, StatementsArePlaced DEF Placed
<1>3. Told(p) /\ thread["auth"] # "starting"
  BY <1>1, <1>2, AuthIsGone DEF WaitTold
<1>4. Told(p)'
  BY <1>2, <1>3, ToldKept
<1> QED BY <1>2, <1>4

(* While something is destroyed, of those who post to what may be gone     *)
(* only the databases and the map instances still run.                     *)
LEMMA StraysAreKnown ==
    ASSUME ProcessesTypeOK, Waited, Wrecked, AstrayOK, Strays
    PROVE  AstrayOK' /\ astray' \subseteq Processors \X Processors
<1>1. astray \subseteq Processors \X Processors /\ at \in Nat
  BY PlacesAre DEF ProcessesTypeOK
<1>2. CASE astray' = astray
  BY <1>1, <1>2 DEF AstrayOK
<1>3. ASSUME NEW p \in Processors, NEW target \in Processors,
             thread[p] = "running", target \in destroyed,
             p = "authhandler" => target \in {"authdb", "gamedb", "gamehandler"},
             astray' = astray \union {<<p, target>>}
      PROVE  AstrayOK' /\ astray' \subseteq Processors \X Processors
  <2>1. at > 28 /\ target \in Wrecks
    BY <1>3 DEF Wrecked
  <2>2. p # "authhandler"
    BY <1>3, <2>1 DEF Wrecks
  <2>3. Alive(p)
    BY <1>3 DEF Alive
  <2>4. PICK a, b, c, d, e, f, g, h \in 1..36 :
          a = 18 /\ b = 19 /\ c = 20 /\ d = 21 /\ e = 22 /\ f = 23 /\ g = 25 /\ h = 27
    OBVIOUS
  <2>5. /\ Program[a] = Do("wait", "timers") /\ Program[b] = Do("wait", "game")
        /\ Program[c] = Do("wait", "map") /\ Program[d] = Do("wait", "auth")
        /\ Program[e] = Do("wait", "monitor") /\ Program[f] = Do("wait", "bus")
        /\ Program[g] = Do("wait", "gamehandler") /\ Program[h] = Do("wait", "services")
    BY <2>4, ProgramIs
  <2>6. /\ a < at /\ b < at /\ c < at /\ d < at /\ e < at /\ f < at /\ g < at /\ h < at
    BY <1>1, <2>1, <2>4
  <2>7. /\ ~Alive("timers") /\ ~Alive("game") /\ ~Alive("map") /\ ~Alive("auth")
        /\ ~Alive("monitor") /\ ~Alive("bus") /\ ~Alive("gamehandler") /\ ~Alive("services")
    BY <2>5, <2>6 DEF Waited, Do
  <2>8. p \in Databases \union {"instance"}
    BY <2>2, <2>3, <2>7 DEF Processors
  <2> QED BY <1>1, <1>3, <2>8 DEF AstrayOK
<1> QED BY <1>2, <1>3 DEF Strays

-----------------------------------------------------------------------------
(* Every step keeps the invariant                                          *)

MainKept ==
    /\ at' = at /\ event_loop_is_done' = event_loop_is_done /\ subscribed' = subscribed
    /\ destroyed' = destroyed /\ broken' = broken /\ missed' = missed

LEMMA OwnKeepsInv ==
    ASSUME PInv, Own, MainKept, sent' \in 0..MaxWork,
           NEW x \in {"main", "monitor"},
           stopping' = stopping \/ stopping' = [stopping EXCEPT ![x] = 1]
    PROVE  PInv'
<1>1. /\ ProcessesTypeOK /\ Begun /\ Waited /\ Wrecked /\ AstrayOK /\ AllTold
      /\ StopTold /\ LoopLeft /\ WaitTold /\ BrokenOK
  BY DEF PInv
<1>2. Steady /\ thread' \in Threads /\ queue' \in QueuesOf /\ Strays
  BY DEF Own
<1>3. at \in 1..37 /\ stopping \in [{"main", "monitor"} -> 0..9]
  BY <1>1, PlacesAre
<1>4. /\ stopping' \in [{"main", "monitor"} -> 0..9]
      /\ \A y \in {"main", "monitor"} : \A i \in 1..9 : i < stopping'[y] => i < stopping[y]
  <2>1. CASE stopping' = stopping
    BY <1>3, <2>1
  <2>2. CASE stopping' = [stopping EXCEPT ![x] = 1]
    BY <1>3, <2>2
  <2> QED BY <2>1, <2>2
<1>5. AstrayOK' /\ astray' \subseteq Processors \X Processors
  BY <1>1, <1>2, StraysAreKnown
<1>6. ProcessesTypeOK'
  <2>1. PICK n, m \in Nat : n = Len(Program) /\ n = 36 /\ m = Len(shutDownServers) /\ m = 9
    BY ProgramIs, shutDownServersIs
  <2>2. at' \in 1..(Len(Program) + 1) /\ stopping' \in [{"main", "monitor"} -> 0..Len(shutDownServers)]
    BY <1>1, <1>4, <2>1 DEF ProcessesTypeOK, MainKept
  <2>3. /\ event_loop_is_done' \in BOOLEAN
        /\ subscribed' \subseteq Processors /\ destroyed' \subseteq Processors
        /\ broken' \subseteq Processors /\ missed' \subseteq Processors
    BY <1>1 DEF ProcessesTypeOK, MainKept
  <2> QED BY <1>2, <1>5, <2>2, <2>3 DEF ProcessesTypeOK, Threads, QueuesOf
<1>7. BrokenOK' /\ Wrecked' /\ LoopLeft'
  BY <1>1 DEF BrokenOK, Wrecked, LoopLeft, MainKept
<1>8. Begun'
  BY <1>1, <1>2, <1>3, BegunKept DEF MainKept
<1>9. Waited'
  <2>1. SUFFICES ASSUME NEW i \in 1..36, i < at, Program[i].op = "wait"
                 PROVE  ~Alive(Program[i].who)'
    BY DEF Waited, MainKept
  <2> QED BY <1>1, <1>2, <2>1, WaitedKept
<1>10. AllTold'
  <2>1. SUFFICES ASSUME event_loop_is_done, NEW p \in Stopped PROVE Told(p)'
    BY DEF AllTold, MainKept
  <2> QED BY <1>1, <1>2, <2>1, AllToldKept
<1>11. StopTold'
  <2>1. SUFFICES ASSUME NEW y \in {"main", "monitor"}, NEW i \in 1..9, i < stopping'[y],
                        shutDownServers[i].op \in {"finish", "shutdown"}
                 PROVE  Told(shutDownServers[i].who)'
    BY DEF StopTold
  <2>2. i < stopping[y]
    BY <1>4, <2>1
  <2> QED BY <1>1, <1>2, <2>1, <2>2, StopToldKept
<1>12. WaitTold'
  BY <1>1, <1>2, WaitToldKept DEF MainKept
<1> QED BY <1>5, <1>6, <1>7, <1>8, <1>9, <1>10, <1>11, <1>12 DEF PInv

LEMMA NothingOwn ==
    ASSUME ProcessesTypeOK, thread' = thread, queue' = queue, missed' = missed, astray' = astray
    PROVE  Own
<1>1. thread \in Threads /\ queue \in QueuesOf
  BY TypesAre
<1>2. Steady /\ thread' \in Threads
  BY <1>1, QueuesOnly
<1> QED BY <1>1, <1>2 DEF Own, Strays

LEMMA InterruptKeepsInv ==
    ASSUME PInv, Interrupted
    PROVE  PInv'
<1>1. /\ MainKept /\ sent' = sent /\ stopping' = [stopping EXCEPT !["main"] = 1]
      /\ thread' = thread /\ queue' = queue /\ missed' = missed /\ astray' = astray
  BY DEF Interrupted, MainKept
<1>2. ProcessesTypeOK
  BY DEF PInv
<1>3. Own
  BY <1>1, <1>2, NothingOwn
<1>4. sent' \in 0..MaxWork
  BY <1>1, <1>2 DEF ProcessesTypeOK
<1> QED BY <1>1, <1>3, <1>4, OwnKeepsInv

LEMMA StutterKeepsInv ==
    ASSUME PInv, UNCHANGED processes
    PROVE  PInv'
<1>1. /\ MainKept /\ sent' = sent /\ stopping' = stopping
      /\ thread' = thread /\ queue' = queue /\ missed' = missed /\ astray' = astray
  BY DEF processes, MainKept
<1>2. ProcessesTypeOK
  BY DEF PInv
<1>3. Own
  BY <1>1, <1>2, NothingOwn
<1>4. sent' \in 0..MaxWork
  BY <1>1, <1>2 DEF ProcessesTypeOK
<1> QED BY <1>1, <1>3, <1>4, OwnKeepsInv

LEMMA ProcessorKeepsInv ==
    ASSUME PInv, NEW p \in Processors,
           Starts(p) \/ Ends(p) \/ Reconfigures(p) \/ Works(p) \/ Publishes
    PROVE  PInv'
<1>1. ProcessesTypeOK /\ BrokenOK
  BY DEF PInv
<1>2. Own
  BY <1>1, StartsOwn, EndsOwn, ReconfiguresOwn, WorksOwn, PublishesOwn
<1>3. MainKept /\ sent' = sent /\ stopping' = stopping
  BY DEF Starts, Ends, Reconfigures, Works, Publishes, MainKept, mainOnly
<1>4. sent' \in 0..MaxWork
  BY <1>1, <1>3 DEF ProcessesTypeOK
<1> QED BY <1>2, <1>3, <1>4, OwnKeepsInv

LEMMA NoticesKeepsInv ==
    ASSUME PInv, NoticesFailure
    PROVE  PInv'
<1>1. ProcessesTypeOK
  BY DEF PInv
<1>2. MainKept /\ sent' = sent /\ stopping' = [stopping EXCEPT !["monitor"] = 1]
  BY DEF NoticesFailure, MainKept, mainOnly
<1>3. Own
  BY <1>1, NoticesOwn
<1>4. sent' \in 0..MaxWork
  BY <1>1, <1>2 DEF ProcessesTypeOK
<1> QED BY <1>2, <1>3, <1>4, OwnKeepsInv

LEMMA ReceivesKeepsInv ==
    ASSUME PInv, NEW p \in Processors, Receives(p)
    PROVE  PInv'
<1>1. ProcessesTypeOK
  BY DEF PInv
<1>2. MainKept /\ sent < MaxWork /\ sent' = sent + 1 /\ stopping' = stopping
  BY DEF Receives, MainKept
<1>3. Own
  BY <1>1, ReceivesOwn
<1>4. sent' \in 0..MaxWork
  <2>1. sent \in 0..MaxWork
    BY <1>1 DEF ProcessesTypeOK
  <2> QED BY <1>2, <2>1, ProcessesAssumption
<1> QED BY <1>2, <1>3, <1>4, OwnKeepsInv

LEMMA StopsKeepsInv ==
    ASSUME PInv, NEW x \in {"main", "monitor"}, StopsServers(x)
    PROVE  PInv'
<1>1. /\ ProcessesTypeOK /\ Begun /\ Waited /\ Wrecked /\ AstrayOK /\ AllTold
      /\ StopTold /\ LoopLeft /\ WaitTold /\ BrokenOK
  BY DEF PInv
<1>2. at \in 1..37 /\ stopping \in [{"main", "monitor"} -> 0..9]
  BY <1>1, PlacesAre
<1>3. PICK s \in 1..9 : s = stopping[x]
  BY <1>2 DEF StopsServers
<1>4. PICK stmt \in Stmts : stmt = shutDownServers[s]
  BY StopKinds
<1>5. /\ stmt.op \in {"finish", "shutdown", "wait"} /\ stmt.who \in Stopped
      /\ stmt.op = "shutdown" =>
            s \in 1..7 /\ shutDownServers[s + 1] = Do("wait", stmt.who)
  BY <1>4, StopKinds
<1>6. PICK n \in {1, 2} : n = Statements(stmt)
  BY DEF Statements
<1>7. n = 2 => stmt.op = "shutdown"
  BY <1>6 DEF Statements
<1>8. /\ Does(stmt)
      /\ stopping' = [stopping EXCEPT ![x] = IF s = 9 THEN 0 ELSE @ + n]
      /\ event_loop_is_done' = (s = 9 \/ event_loop_is_done)
      /\ at' = at /\ broken' = broken /\ sent' = sent /\ astray' = astray
  <2>1. Len(shutDownServers) = 9
    BY shutDownServersIs
  <2> QED BY <1>3, <1>4, <1>6, <2>1 DEF StopsServers
<1>9. stmt.who \in Processors /\ stmt.op # "activate" /\ stmt.op # "destroy"
  BY <1>5 DEF Stopped, Processors
<1>10. /\ Steady /\ thread' \in Threads /\ queue' \in QueuesOf
       /\ subscribed' \subseteq Processors /\ missed' \subseteq Processors
       /\ destroyed' = destroyed
       /\ stmt.op \in {"finish", "shutdown"} => Told(stmt.who)'
  BY <1>1, <1>8, <1>9, DoesSteady
<1>11. stopping' \in [{"main", "monitor"} -> 0..9]
  <2>1. PICK k \in 0..9 : k = IF s = 9 THEN 0 ELSE s + n
    BY <1>5, <1>7
  <2>2. stopping' = [stopping EXCEPT ![x] = k]
    BY <1>2, <1>3, <1>8, <2>1
  <2> QED BY <1>2, <2>2
<1>12. ProcessesTypeOK'
  <2>1. PICK l, m \in Nat : l = Len(Program) /\ l = 36 /\ m = Len(shutDownServers) /\ m = 9
    BY ProgramIs, shutDownServersIs
  <2>2. at' \in 1..(Len(Program) + 1) /\ stopping' \in [{"main", "monitor"} -> 0..Len(shutDownServers)]
    BY <1>2, <1>8, <1>11, <2>1
  <2>3. event_loop_is_done' \in BOOLEAN
    BY <1>1, <1>8 DEF ProcessesTypeOK
  <2>4. /\ destroyed' \subseteq Processors /\ broken' \subseteq Processors
        /\ sent' \in 0..MaxWork /\ astray' \subseteq Processors \X Processors
    BY <1>1, <1>8, <1>10 DEF ProcessesTypeOK
  <2> QED BY <1>10, <2>2, <2>3, <2>4 DEF ProcessesTypeOK, Threads, QueuesOf
<1>13. BrokenOK' /\ Wrecked' /\ AstrayOK'
  BY <1>1, <1>8, <1>10 DEF BrokenOK, Wrecked, AstrayOK
<1>14. Begun'
  BY <1>1, <1>2, <1>8, <1>10, BegunKept
<1>15. Waited'
  <2>1. SUFFICES ASSUME NEW i \in 1..36, i < at, Program[i].op = "wait"
                 PROVE  ~Alive(Program[i].who)'
    BY <1>8 DEF Waited
  <2> QED BY <1>1, <1>10, <2>1, WaitedKept
<1>16. LoopLeft'
  BY <1>1, <1>8 DEF LoopLeft
<1>17. WaitTold'
  BY <1>1, <1>8, <1>10, WaitToldKept
<1>18. StopTold'
  <2>1. SUFFICES ASSUME NEW y \in {"main", "monitor"}, NEW i \in 1..9, i < stopping'[y],
                        shutDownServers[i].op \in {"finish", "shutdown"}
                 PROVE  Told(shutDownServers[i].who)'
    BY DEF StopTold
  <2>2. CASE i < stopping[y]
    BY <1>1, <1>10, <2>1, <2>2, StopToldKept
  <2>3. CASE y = x /\ ~(i < s)
    <3>1. stopping'[x] = IF s = 9 THEN 0 ELSE s + n
      BY <1>2, <1>3, <1>8
    <3>2. i = s \/ (n = 2 /\ i = s + 1)
      BY <2>1, <2>3, <3>1
    <3>3. CASE i = s
      BY <1>4, <1>10, <2>1, <3>3
    <3>4. CASE n = 2 /\ i = s + 1
      <4>1. shutDownServers[i].op = "wait"
        BY <1>5, <1>7, <3>4 DEF Do
      <4> QED BY <2>1, <4>1
    <3> QED BY <3>2, <3>3, <3>4
  <2>4. CASE y # x /\ ~(i < stopping[y])
    <3>1. stopping'[y] = stopping[y]
      BY <1>2, <1>8, <2>4
    <3> QED BY <2>1, <2>4, <3>1
  <2> QED BY <1>3, <2>2, <2>3, <2>4
<1>19. AllTold'
  <2>1. SUFFICES ASSUME event_loop_is_done', NEW p \in Stopped PROVE Told(p)'
    BY DEF AllTold
  <2>2. CASE event_loop_is_done
    BY <1>1, <1>10, <2>2, AllToldKept
  <2>3. CASE ~event_loop_is_done
    <3>1. s = 9
      BY <1>8, <2>1, <2>3
    <3>2. PICK a, b, c, d, e, f \in 1..9 :
            a = 1 /\ b = 2 /\ c = 4 /\ d = 6 /\ e = 8 /\ f = 9
      OBVIOUS
    <3>3. /\ shutDownServers[a] = Do("finish", "timers")
          /\ shutDownServers[b] = Do("shutdown", "game")
          /\ shutDownServers[c] = Do("shutdown", "map")
          /\ shutDownServers[d] = Do("shutdown", "auth")
          /\ shutDownServers[e] = Do("finish", "monitor")
          /\ shutDownServers[f] = Do("finish", "bus")
      BY <3>2, shutDownServersIs
    <3>4. PICK i \in 1..9 : /\ shutDownServers[i].op \in {"finish", "shutdown"}
                            /\ shutDownServers[i].who = p
      BY <3>3 DEF Do, Stopped
    <3>5. CASE i = 9
      BY <1>4, <1>10, <3>1, <3>4, <3>5
    <3>6. CASE i # 9
      <4>1. i < stopping[x]
        BY <1>3, <3>1, <3>6
      <4> QED BY <1>1, <1>10, <3>4, <4>1, StopToldKept
    <3> QED BY <3>5, <3>6
  <2> QED BY <2>2, <2>3
<1> QED BY <1>12, <1>13, <1>14, <1>15, <1>16, <1>17, <1>18, <1>19 DEF PInv

LEMMA MainKeepsInv ==
    ASSUME PInv, MainGoesOn
    PROVE  PInv'
<1>1. /\ ProcessesTypeOK /\ Begun /\ Waited /\ Wrecked /\ AstrayOK /\ AllTold
      /\ StopTold /\ LoopLeft /\ WaitTold /\ BrokenOK
  BY DEF PInv
<1>2. at \in 1..36 /\ stopping \in [{"main", "monitor"} -> 0..9]
  <2>1. Len(Program) = 36
    BY ProgramIs
  <2> QED BY <1>1, <2>1, PlacesAre DEF MainGoesOn
<1>3. PICK stmt \in Stmts : stmt = Program[at] /\ Placed(at, stmt)
  BY <1>2, StatementsArePlaced
<1>4. PICK n \in {1, 2} : n = Statements(stmt)
  BY DEF Statements
<1>5. n = 2 => stmt.op = "shutdown" /\ ~Alive(stmt.who)
  BY <1>4 DEF Statements
<1>6. /\ Does(stmt) /\ at' = at + n /\ stopping' = stopping /\ sent' = sent
      /\ event_loop_is_done' = event_loop_is_done /\ broken' = broken /\ astray' = astray
  BY <1>3, <1>4 DEF MainGoesOn
<1>7. stmt.op \in Ops
  BY DEF Stmts
<1>8. stmt.who \in Processors \/ stmt.op = "loop"
  BY <1>3, <1>7 DEF Placed, Ops, Processors
<1>9. stmt.op = "activate" => at = Begins(stmt.who) /\ at' # at
  BY <1>2, <1>3, <1>6 DEF Placed
<1>10. /\ Steady /\ thread' \in Threads /\ queue' \in QueuesOf
       /\ subscribed' \subseteq Processors /\ missed' \subseteq Processors
       /\ \/ destroyed' = destroyed
          \/ stmt.op = "destroy" /\ destroyed' = destroyed \union {stmt.who}
       /\ stmt.op \in {"finish", "shutdown"} => Told(stmt.who)'
       /\ stmt.op = "wait" => ~Alive(stmt.who)
       /\ stmt.op = "loop" => event_loop_is_done
       /\ stmt.op # "activate" => thread' = thread
  BY <1>1, <1>6, <1>8, <1>9, DoesSteady
<1>11. at' \in 2..37 /\ at' > at
  BY <1>2, <1>3, <1>5, <1>6 DEF Placed
<1>12. destroyed' \subseteq Processors /\ Wrecked'
  <2>1. CASE destroyed' = destroyed
    BY <1>1, <1>2, <1>11, <2>1 DEF ProcessesTypeOK, Wrecked
  <2>2. CASE stmt.op = "destroy" /\ destroyed' = destroyed \union {stmt.who}
    <3>1. at > 27 /\ stmt.who \in Wrecks
      BY <1>3, <2>2 DEF Placed, Wrecks
    <3>2. stmt.who \in Processors /\ at' > 28
      BY <1>2, <1>11, <3>1 DEF Wrecks, Processors
    <3> QED BY <1>1, <2>2, <3>1, <3>2 DEF ProcessesTypeOK, Wrecked
  <2> QED BY <1>10, <2>1, <2>2
<1>13. ProcessesTypeOK'
  <2>1. PICK l, m \in Nat : l = Len(Program) /\ l = 36 /\ m = Len(shutDownServers) /\ m = 9
    BY ProgramIs, shutDownServersIs
  <2>2. at' \in 1..(Len(Program) + 1) /\ stopping' \in [{"main", "monitor"} -> 0..Len(shutDownServers)]
    BY <1>2, <1>6, <1>11, <2>1
  <2>3. event_loop_is_done' \in BOOLEAN
    BY <1>1, <1>6 DEF ProcessesTypeOK
  <2>4. /\ broken' \subseteq Processors
        /\ sent' \in 0..MaxWork /\ astray' \subseteq Processors \X Processors
    BY <1>1, <1>6 DEF ProcessesTypeOK
  <2> QED BY <1>10, <1>12, <2>2, <2>3, <2>4 DEF ProcessesTypeOK, Threads, QueuesOf
<1>14. BrokenOK' /\ AstrayOK'
  BY <1>1, <1>6 DEF BrokenOK, AstrayOK
<1>15. Begun'
  BY <1>1, <1>2, <1>10, <1>11, BegunKept
<1>16. Waited'
  <2>1. SUFFICES ASSUME NEW i \in 1..36, i < at', Program[i].op = "wait"
                 PROVE  ~Alive(Program[i].who)'
    BY DEF Waited
  <2>2. CASE i < at
    BY <1>1, <1>10, <2>1, <2>2, WaitedKept
  <2>3. CASE i = at
    BY <1>3, <1>10, <2>1, <2>3 DEF Alive
  <2>4. CASE i = at + 1 /\ n = 2
    <3>1. stmt.op = "shutdown" /\ ~Alive(stmt.who) /\ thread' = thread
      BY <1>5, <1>10, <2>4
    <3>2. Program[i].who = stmt.who
      BY <1>2, <1>3, <2>4, <3>1, PairsAre DEF Do
    <3> QED BY <3>1, <3>2 DEF Alive
  <2> QED BY <1>2, <1>6, <2>1, <2>2, <2>3, <2>4
<1>17. LoopLeft'
  <2>1. SUFFICES ASSUME at' > 17 PROVE event_loop_is_done'
    BY DEF LoopLeft
  <2>2. CASE at > 17
    BY <1>1, <1>6, <2>2 DEF LoopLeft
  <2>3. CASE at = 17
    BY <1>3, <1>6, <1>10, <2>3 DEF Placed
  <2>4. CASE at < 17
    <3>1. n = 1
      BY <1>3, <1>5, <2>4 DEF Placed
    <3> QED BY <1>2, <1>6, <2>1, <2>4, <3>1
  <2> QED BY <1>2, <2>2, <2>3, <2>4
<1>18. AllTold'
  <2>1. SUFFICES ASSUME event_loop_is_done, NEW p \in Stopped PROVE Told(p)'
    BY <1>6 DEF AllTold
  <2> QED BY <1>1, <1>10, <2>1, AllToldKept
<1>19. StopTold'
  <2>1. SUFFICES ASSUME NEW y \in {"main", "monitor"}, NEW i \in 1..9, i < stopping[y],
                        shutDownServers[i].op \in {"finish", "shutdown"}
                 PROVE  Told(shutDownServers[i].who)'
    BY <1>6 DEF StopTold
  <2> QED BY <1>1, <1>10, <2>1, StopToldKept
<1>20. WaitTold'
  <2>1. SUFFICES ASSUME at' \in 24..36, Program[at'].op = "wait"
                 PROVE  Told(Program[at].who)'
    BY DEF WaitTold
  <2>2. PICK b \in 24..36 : b = at' /\ Program[b].op = "wait"
    BY <2>1
  <2>3. b \in {25, 27, 32}
    BY <2>2, StatementsArePlaced DEF Placed
  <2>4. n = 1
    <3>1. n = 2 => at \in {24, 26, 31}
      BY <1>3, <1>5 DEF Placed
    <3>2. n = 2 => b \in {26, 28, 33}
      BY <1>2, <1>6, <2>2, <3>1
    <3> QED BY <2>3, <3>2
  <2>5. at \in {24, 26, 31} /\ b = at + 1
    BY <1>2, <1>6, <2>2, <2>3, <2>4
  <2>6. stmt.op = "shutdown"
    BY <1>3, <2>5 DEF Placed
  <2>7. Program[b].who = stmt.who
    BY <1>2, <1>3, <2>5, <2>6, PairsAre DEF Do
  <2> QED BY <1>10, <2>2, <2>6, <2>7
<1> QED BY <1>12, <1>13, <1>14, <1>15, <1>16, <1>17, <1>18, <1>19, <1>20 DEF PInv

-----------------------------------------------------------------------------
(* The theorems                                                            *)

LEMMA InitialInv ==
    ASSUME ProcessesInit
    PROVE  PInv
<1>1. at = 1 /\ stopping = [x \in {"main", "monitor"} |-> 0]
  BY DEF ProcessesInit
<1>2. ProcessesTypeOK
  <2>1. PICK l, m \in Nat : l = Len(Program) /\ l = 36 /\ m = Len(shutDownServers) /\ m = 9
    BY ProgramIs, shutDownServersIs
  <2>2. at \in 1..(Len(Program) + 1) /\ stopping \in [{"main", "monitor"} -> 0..Len(shutDownServers)]
    BY <1>1, <2>1
  <2>3. queue \in [Processors -> Seq(ProcessEvents)]
    BY DEF ProcessesInit
  <2>4. broken \subseteq Processors
    BY DEF ProcessesInit, Processors
  <2>5. sent \in 0..MaxWork
    BY ProcessesAssumption DEF ProcessesInit
  <2> QED BY <2>2, <2>3, <2>4, <2>5 DEF ProcessesInit, ProcessesTypeOK
<1>3. BrokenOK
  BY DEF ProcessesInit, BrokenOK
<1>4. Begun
  BY DEF ProcessesInit, Begun
<1>5. Waited /\ WaitTold /\ LoopLeft
  BY <1>1 DEF Waited, WaitTold, LoopLeft
<1>6. Wrecked /\ AstrayOK /\ AllTold
  BY DEF ProcessesInit, Wrecked, AstrayOK, AllTold
<1>7. StopTold
  <2>1. SUFFICES ASSUME NEW x \in {"main", "monitor"}, NEW i \in 1..9, i < stopping[x]
                 PROVE  FALSE
    BY DEF StopTold
  <2> QED BY <1>1, <2>1
<1> QED BY <1>2, <1>3, <1>4, <1>5, <1>6, <1>7 DEF PInv

LEMMA StepKeepsInv ==
    ASSUME PInv, [ProcessesNext]_processes
    PROVE  PInv'
<1>1. CASE MainGoesOn
  BY <1>1, MainKeepsInv
<1>2. CASE Interrupted
  BY <1>2, InterruptKeepsInv
<1>3. CASE Publishes
  BY <1>3, ProcessorKeepsInv, NamesAre
<1>4. CASE NoticesFailure
  BY <1>4, NoticesKeepsInv
<1>5. ASSUME NEW x \in {"main", "monitor"}, StopsServers(x) PROVE PInv'
  BY <1>5, StopsKeepsInv
<1>6. ASSUME NEW p \in {"authhandler", "gamehandler", "instance"}, Receives(p) PROVE PInv'
  BY <1>6, ReceivesKeepsInv, NamesAre
<1>7. ASSUME NEW p \in Processors, Starts(p) \/ Ends(p) \/ Reconfigures(p) \/ Works(p)
      PROVE  PInv'
  BY <1>7, ProcessorKeepsInv
<1>8. CASE UNCHANGED processes
  BY <1>8, StutterKeepsInv
<1> QED BY <1>1, <1>2, <1>3, <1>4, <1>5, <1>6, <1>7, <1>8 DEF ProcessesNext

LEMMA InvHolds == ProcessesSpec => []PInv
<1>1. ProcessesInit => PInv
  BY InitialInv
<1>2. PInv /\ [ProcessesNext]_processes => PInv'
  BY StepKeepsInv
<1> QED BY <1>1, <1>2, PTL DEF ProcessesSpec

(* The state of the threads, of their queues and of the main thread has    *)
(* the types that the code gives them, whatever the clients send.          *)
THEOREM ProcessesTyped == ProcessesSpec => []ProcessesTypeOK
<1>1. PInv => ProcessesTypeOK
  BY DEF PInv
<1> QED BY <1>1, InvHolds, PTL

LEMMA InvDestroysInOrder ==
    ASSUME PInv
    PROVE  DestroyedInOrder
<1>1. ProcessesTypeOK /\ Waited /\ AstrayOK
  BY DEF PInv
<1>2. ASSUME Ahead("main").op = "destroy" PROVE ~Alive("bus")
  <2>1. at \in 1..37 /\ stopping \in [{"main", "monitor"} -> 0..9]
    BY <1>1, PlacesAre
  <2>2. CASE stopping["main"] # 0
    <3>1. PICK s \in 1..9 : s = stopping["main"]
      BY <2>1, <2>2
    <3>2. Ahead("main") = shutDownServers[s]
      BY <2>2, <3>1 DEF Ahead
    <3> QED BY <1>2, <3>2, StopKinds
  <2>3. CASE stopping["main"] = 0 /\ at <= Len(Program)
    <3>1. at \in 1..36
      BY <2>1, <2>3, ProgramIs
    <3>2. Ahead("main") = Program[at]
      BY <2>3 DEF Ahead
    <3>3. at > 27
      BY <1>2, <3>1, <3>2, StatementsArePlaced DEF Placed
    <3>4. PICK i \in 1..36 : i = 23 /\ i < at
      BY <3>1, <3>3
    <3>5. Program[i] = Do("wait", "bus")
      BY <3>4, ProgramIs
    <3> QED BY <1>1, <3>4, <3>5 DEF Waited, Do
  <2>4. CASE stopping["main"] = 0 /\ ~(at <= Len(Program))
    BY <1>2, <2>4 DEF Ahead, Do
  <2> QED BY <2>2, <2>3, <2>4
<1> QED BY <1>1, <1>2 DEF DestroyedInOrder, AstrayOK

(* No endpoint is taken off the lists of the bus while the bus may walk    *)
(* them, and once processors are destroyed nobody but the databases and    *)
(* the map instances, which nobody ends, may post to them: whatever the    *)
(* order in which the threads, the monitor and an interrupt come.          *)
THEOREM NothingGoneIsUsed == ProcessesSpec => []DestroyedInOrder
<1>1. PInv => DestroyedInOrder
  BY InvDestroysInOrder
<1> QED BY <1>1, InvHolds, PTL

LEMMA ToldWillFinish ==
    ASSUME NEW p, Told(p), Alive(p)
    PROVE  WillFinish(p) \/ p \in missed
BY DEF Told, Alive, WillFinish, Holds

LEMMA InvWaitsAreAnswered ==
    ASSUME PInv
    PROVE  NobodyWaitsForever
<1>1. ProcessesTypeOK /\ StopTold /\ LoopLeft /\ AllTold /\ WaitTold
  BY DEF PInv
<1>2. at \in 1..37 /\ stopping \in [{"main", "monitor"} -> 0..9]
  BY <1>1, PlacesAre
<1>3. SUFFICES ASSUME NEW x \in {"main", "monitor"}, Ahead(x).op = "wait", Alive(Ahead(x).who)
               PROVE  Told(Ahead(x).who)
  BY ToldWillFinish DEF NobodyWaitsForever
<1>4. CASE stopping[x] # 0
  <2>1. PICK s \in 1..9 : s = stopping[x]
    BY <1>2, <1>4
  <2>2. PICK stmt \in Stmts : stmt = shutDownServers[s] /\ stmt = Ahead(x)
    BY <1>4, <2>1, StopKinds DEF Ahead
  <2>3. s \in 2..9 /\ shutDownServers[s - 1] = Do("shutdown", stmt.who)
    BY <1>3, <2>2, StopKinds
  <2>4. PICK i \in 1..9 : i = s - 1
    BY <2>3
  <2>5. i < stopping[x] /\ shutDownServers[i].op = "shutdown" /\ shutDownServers[i].who = stmt.who
    BY <2>1, <2>3, <2>4 DEF Do
  <2>6. Told(shutDownServers[i].who)
    BY <1>1, <2>5 DEF StopTold
  <2> QED BY <2>2, <2>5, <2>6
<1>5. CASE x = "main" /\ stopping[x] = 0 /\ at <= Len(Program)
  <2>1. at \in 1..36
    BY <1>2, <1>5, ProgramIs
  <2>2. PICK stmt \in Stmts : stmt = Program[at] /\ stmt = Ahead(x) /\ Placed(at, stmt)
    BY <1>5, <2>1, StatementsArePlaced DEF Ahead
  <2>3. stmt.op = "wait"
    BY <1>3, <2>2
  <2>4. CASE at < 24 /\ stmt.who \in Stopped
    <3>1. at > 17
      BY <2>2, <2>3 DEF Placed
    <3>2. Told(stmt.who)
      BY <1>1, <2>4, <3>1 DEF LoopLeft, AllTold
    <3> QED BY <2>2, <3>2
  <2>5. CASE at \in {25, 27, 32}
    <3>1. at \in 24..36
      BY <2>5
    <3>2. Told(stmt.who)
      BY <1>1, <2>2, <2>3, <3>1 DEF WaitTold
    <3> QED BY <2>2, <3>2
  <2> QED BY <2>2, <2>3, <2>4, <2>5 DEF Placed
<1>6. CASE stopping[x] = 0 /\ ~(x = "main" /\ at <= Len(Program))
  BY <1>3, <1>6 DEF Ahead, Do
<1> QED BY <1>4, <1>5, <1>6

(* Whoever the main thread or the monitor waits for has a Finish in its    *)
(* queue or ahead of it, unless it was told before it was there: for every *)
(* order of start-up, failures, an interrupt and what clients send.        *)
THEOREM WaitsAreAnswered == ProcessesSpec => []NobodyWaitsForever
<1>1. PInv => NobodyWaitsForever
  BY InvWaitsAreAnswered
<1> QED BY <1>1, InvHolds, PTL
=============================================================================
