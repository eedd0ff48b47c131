------------------------- MODULE MapSessionsProofs -------------------------
(***************************************************************************)
(* What holds of the entities of a map instance whatever happens, however  *)
(* many accounts and maps there are and however few entities: none is lent *)
(* out twice, and none that is lent out is free.                           *)
(***************************************************************************)
EXTENDS MapSessions, TLAPS

(* A pool: every entity is either free, at one place, or live.             *)
PoolOK(p) ==
    /\ p = [live |-> p.live, free |-> p.free, id |-> p.id, version |-> p.version]
    /\ p.free \in Seq(Entities)
    /\ \A i, j \in DOMAIN p.free : p.free[i] = p.free[j] => i = j
    /\ p.live \subseteq Entities
    /\ \A e \in Entities : e \in p.live <=> \A i \in DOMAIN p.free : p.free[i] # e

IsSession(s) == s = [link |-> s.link, auth_id |-> s.auth_id, ent |-> s.ent]

StoreOK(st) ==
    /\ st = [sessions |-> st.sessions, id_to_token |-> st.id_to_token,
             expecting |-> st.expecting, waiting |-> st.waiting, active |-> st.active]
    /\ st.sessions = [t \in DOMAIN st.sessions |-> st.sessions[t]]
    /\ \A t \in DOMAIN st.sessions : IsSession(st.sessions[t])

(* Two sessions never have the same entity, and whoever is linked has one. *)
HeldOK(ss, live) ==
    /\ \A t \in DOMAIN ss :
          /\ ss[t].ent # NoEntity => ss[t].ent \in live
          /\ ss[t].link # NoLink => ss[t].ent # NoEntity
    /\ \A s, t \in DOMAIN ss : ss[s].ent = ss[t].ent /\ s # t => ss[t].ent = NoEntity

MapOK(st, p) == StoreOK(st) /\ PoolOK(p) /\ HeldOK(st.sessions, p.live)

Over(f) == f = [m \in Maps |-> f[m]]

MapsOK(S, P) == Over(S) /\ Over(P) /\ \A m \in Maps : MapOK(S[m], P[m])

(* A client that leaves does so by a link of its own.                      *)
Addressed(q) ==
    /\ q \in Seq({q[i] : i \in DOMAIN q})
    /\ \A i \in DOMAIN q : q[i].type = "Disconnect" => q[i].link \in Logins

InboxesOK(I) == Over(I) /\ \A m \in Maps : Addressed(I[m])

PoolInv == MapsOK(store, pool) /\ InboxesOK(inbox)

LEMMA PoolInvImplies == PoolInv => PoolIsSound
<1> SUFFICES ASSUME PoolInv, NEW m \in Maps
             PROVE  /\ \A i, j \in DOMAIN pool[m].free : pool[m].free[i] = pool[m].free[j] => i = j
                    /\ ToSet(pool[m].free) = Entities \ pool[m].live
                    /\ \A s, t \in DOMAIN store[m].sessions :
                          /\ Session(m, t).ent # NoEntity => Session(m, t).ent \in pool[m].live
                          /\ Session(m, s).ent = Session(m, t).ent /\ s # t => Session(m, t).ent = NoEntity
  BY DEF PoolIsSound
<1>1. PoolOK(pool[m]) /\ HeldOK(store[m].sessions, pool[m].live)
  BY DEF PoolInv, MapsOK, MapOK
<1>2. ToSet(pool[m].free) = Entities \ pool[m].live
  <2>1. \A i \in DOMAIN pool[m].free : pool[m].free[i] \in Entities
    BY <1>1 DEF PoolOK
  <2> QED BY <1>1, <2>1 DEF PoolOK, ToSet
<1> QED BY <1>1, <1>2 DEF PoolOK, HeldOK, Session

-----------------------------------------------------------------------------
(* Queues                                                                  *)

LEMMA ItsOwnElements ==
    ASSUME NEW S, NEW q \in Seq(S)
    PROVE  q \in Seq({q[i] : i \in DOMAIN q})
OBVIOUS

LEMMA ElementsAddressed ==
    ASSUME NEW q, Addressed(q)
    PROVE  \A i \in 1..Len(q) : q[i].type = "Disconnect" => q[i].link \in Logins
<1>1. PICK S : q \in Seq(S)
  BY DEF Addressed
<1>2. DOMAIN q = 1..Len(q)
  BY <1>1
<1>3. \A i \in DOMAIN q : q[i].type = "Disconnect" => q[i].link \in Logins
  BY DEF Addressed
<1> QED BY <1>2, <1>3

LEMMA PoppedIsAddressed ==
    ASSUME NEW m \in Maps, InboxesOK(inbox), inbox[m] # << >>
    PROVE  InboxesOK(Popped(m))
<1>1. PICK q : q = inbox[m]
  OBVIOUS
<1> DEFINE S == {q[i] : i \in DOMAIN q}
           r == Tail(q)
<1>2. q \in Seq(S) /\ q # << >>
  BY <1>1 DEF InboxesOK, Addressed
<1> HIDE DEF S
<1>3. /\ r \in Seq(S) /\ Len(r) = Len(q) - 1 /\ Len(q) \in Nat
      /\ \A i \in 1..Len(r) : r[i] = q[i + 1] /\ i + 1 \in 1..Len(q)
  BY <1>2
<1>4. r \in Seq({r[i] : i \in DOMAIN r})
  BY <1>3, ItsOwnElements
<1>5. \A i \in DOMAIN r : r[i].type = "Disconnect" => r[i].link \in Logins
  <2>1. \A i \in 1..Len(q) : q[i].type = "Disconnect" => q[i].link \in Logins
    BY <1>1, <1>2, ElementsAddressed DEF InboxesOK
  <2>2. DOMAIN r = 1..Len(r)
    BY <1>3
  <2> HIDE DEF r
  <2> QED BY <2>1, <2>2, <1>3
<1>6. Addressed(r)
  BY <1>4, <1>5 DEF Addressed
<1> QED BY <1>1, <1>6 DEF InboxesOK, Over, Popped

LEMMA AppendedIsAddressed ==
    ASSUME NEW I, InboxesOK(I), NEW n, NEW e,
           e.type = "Disconnect" => e.link \in Logins
    PROVE  InboxesOK([I EXCEPT ![n] = Append(@, e)])
<1>1. CASE n \in Maps
  <2>1. PICK q : q = I[n]
    OBVIOUS
  <2> DEFINE S == {q[i] : i \in DOMAIN q}
             T == S \union {e}
             r == Append(q, e)
  <2>2. q \in Seq(S)
    BY <1>1, <2>1 DEF InboxesOK, Addressed
  <2> HIDE DEF S
  <2>3. q \in Seq(T) /\ e \in T
    BY <2>2
  <2> HIDE DEF T
  <2>4. /\ r \in Seq(T) /\ Len(r) = Len(q) + 1 /\ Len(q) \in Nat
        /\ \A i \in 1..Len(q) : r[i] = q[i]
        /\ r[Len(q) + 1] = e
    BY <2>3
  <2>5. r \in Seq({r[i] : i \in DOMAIN r})
    BY <2>4
  <2>6. \A i \in DOMAIN r : r[i].type = "Disconnect" => r[i].link \in Logins
    <3>1. \A i \in 1..Len(q) : q[i].type = "Disconnect" => q[i].link \in Logins
      BY <1>1, <2>1, <2>2, ElementsAddressed DEF InboxesOK
    <3>2. DOMAIN r = 1..Len(r) /\ \A i \in 1..Len(r) : i = Len(q) + 1 \/ i \in 1..Len(q)
      BY <2>4
    <3> HIDE DEF r
    <3> QED BY <3>1, <3>2, <2>4
  <2>7. Addressed(r)
    BY <2>5, <2>6 DEF Addressed
  <2> QED BY <1>1, <2>1, <2>7 DEF InboxesOK, Over
<1>2. CASE n \notin Maps
  BY <1>2 DEF InboxesOK, Over
<1> QED BY <1>1, <1>2

-----------------------------------------------------------------------------
(* Pools                                                                   *)

LEMMA TakenFromPool ==
    ASSUME NEW p, PoolOK(p), p.free # << >>, NEW version
    PROVE  /\ PoolOK(CreatePlayer(p, version))
           /\ CreatePlayer(p, version).live = p.live \union {Head(p.free)}
           /\ Head(p.free) \in Entities \ p.live
<1>1. PICK f : f = p.free
  OBVIOUS
<1>2. f \in Seq(Entities) /\ f # << >>
  BY <1>1 DEF PoolOK
<1>3. /\ Head(f) = f[1] /\ Head(f) \in Entities /\ 1 \in DOMAIN f
      /\ Tail(f) \in Seq(Entities)
      /\ \A i \in DOMAIN Tail(f) : Tail(f)[i] = f[i + 1] /\ i + 1 \in DOMAIN f /\ i \in Nat \ {0}
      /\ \A i \in DOMAIN f : i = 1 \/ (i - 1 \in DOMAIN Tail(f) /\ Tail(f)[i - 1] = f[i])
  BY <1>2
<1>4. PICK n : n = CreatePlayer(p, version)
  OBVIOUS
<1>5. n = [live |-> p.live \union {Head(f)}, free |-> Tail(f), id |-> p.id,
           version |-> [p.version EXCEPT ![Head(f)] = version]]
  BY <1>1, <1>4 DEF CreatePlayer, PoolOK
<1>6. Head(f) \notin p.live
  BY <1>1, <1>3 DEF PoolOK
<1>7. \A i, j \in DOMAIN n.free : n.free[i] = n.free[j] => i = j
  <2> SUFFICES ASSUME NEW i \in DOMAIN Tail(f), NEW j \in DOMAIN Tail(f), Tail(f)[i] = Tail(f)[j]
               PROVE  i = j
    BY <1>5
  <2>1. i + 1 = j + 1
    BY <1>1, <1>3 DEF PoolOK
  <2> QED BY <2>1, <1>3
<1>8. \A e \in Entities : e \in n.live <=> \A i \in DOMAIN n.free : n.free[i] # e
  <2> SUFFICES ASSUME NEW e \in Entities
               PROVE  e \in n.live <=> \A i \in DOMAIN Tail(f) : Tail(f)[i] # e
    BY <1>5
  <2>1. CASE e = Head(f)
    <3>1. \A i \in DOMAIN Tail(f) : Tail(f)[i] # e
      <4> SUFFICES ASSUME NEW i \in DOMAIN Tail(f), Tail(f)[i] = e PROVE FALSE
        OBVIOUS
      <4>1. i + 1 = 1
        BY <1>1, <1>3, <2>1 DEF PoolOK
      <4> QED BY <4>1, <1>3
    <3> QED BY <3>1, <2>1, <1>5
  <2>2. CASE e # Head(f)
    <3>1. e \in n.live <=> \A i \in DOMAIN f : f[i] # e
      BY <2>2, <1>1, <1>5 DEF PoolOK
    <3>2. (\A i \in DOMAIN f : f[i] # e) <=> \A i \in DOMAIN Tail(f) : Tail(f)[i] # e
      BY <2>2, <1>3
    <3> QED BY <3>1, <3>2
  <2> QED BY <2>1, <2>2
<1>9. PoolOK(n)
  BY <1>3, <1>5, <1>7, <1>8 DEF PoolOK
<1> QED BY <1>1, <1>3, <1>4, <1>5, <1>6, <1>9

LEMMA ReturnedToPool ==
    ASSUME NEW p, PoolOK(p), NEW e \in p.live
    PROVE  /\ PoolOK(removeEntityFromActiveList(p, e))
           /\ removeEntityFromActiveList(p, e).live = p.live \ {e}
<1>1. PICK f : f = p.free
  OBVIOUS
<1>2. f \in Seq(Entities) /\ e \in Entities
  BY <1>1 DEF PoolOK
<1>3. PICK g : g = Append(f, e)
  OBVIOUS
<1>4. /\ g \in Seq(Entities) /\ Len(f) + 1 \in DOMAIN g /\ Len(f) \in Nat
      /\ g[Len(f) + 1] = e
      /\ \A i \in DOMAIN g : i = Len(f) + 1 \/ (i \in DOMAIN f /\ g[i] = f[i])
      /\ \A i \in DOMAIN f : i \in DOMAIN g /\ g[i] = f[i]
  BY <1>2, <1>3
<1>5. PICK n : n = removeEntityFromActiveList(p, e)
  OBVIOUS
<1>6. n = [live |-> p.live \ {e}, free |-> g, id |-> p.id, version |-> p.version]
  BY <1>1, <1>3, <1>5 DEF removeEntityFromActiveList, PoolOK
<1>7. \A i \in DOMAIN f : f[i] # e
  BY <1>1, <1>2 DEF PoolOK
<1>8. \A i, j \in DOMAIN g : g[i] = g[j] => i = j
  BY <1>1, <1>4, <1>7 DEF PoolOK
<1>9. \A d \in Entities : d \in n.live <=> \A i \in DOMAIN g : g[i] # d
  BY <1>1, <1>4, <1>6, <1>7 DEF PoolOK
<1>10. PoolOK(n)
  BY <1>4, <1>6, <1>8, <1>9 DEF PoolOK
<1> QED BY <1>5, <1>6, <1>10

(* What becomes of a character does not matter to the pool.                *)
LEMMA ChangedInPool ==
    ASSUME NEW p, PoolOK(p), NEW x, NEW e
    PROVE  /\ PoolOK([p EXCEPT !.id[e] = x]) /\ [p EXCEPT !.id[e] = x].live = p.live
           /\ PoolOK([p EXCEPT !.version[e] = x]) /\ [p EXCEPT !.version[e] = x].live = p.live
<1>1. ASSUME NEW i, NEW v
      PROVE  PoolOK([live |-> p.live, free |-> p.free, id |-> i, version |-> v])
  BY DEF PoolOK
<1>2. [p EXCEPT !.id[e] = x] =
         [live |-> p.live, free |-> p.free, id |-> [p.id EXCEPT ![e] = x], version |-> p.version]
  BY DEF PoolOK
<1>3. [p EXCEPT !.version[e] = x] =
         [live |-> p.live, free |-> p.free, id |-> p.id, version |-> [p.version EXCEPT ![e] = x]]
  BY DEF PoolOK
<1> QED BY <1>1, <1>2, <1>3

-----------------------------------------------------------------------------
(* Stores                                                                  *)

LEMMA SameSessions ==
    ASSUME NEW st, StoreOK(st), NEW t, NEW u, NEW cookie
    PROVE  /\ StoreOK(expect_client_session(st, cookie, t))
           /\ expect_client_session(st, cookie, t).sessions = st.sessions
           /\ StoreOK(connected_client(st, cookie))
           /\ connected_client(st, cookie).sessions = st.sessions
           /\ StoreOK(mark_session_for_reaping(st, t, u))
           /\ mark_session_for_reaping(st, t, u).sessions = st.sessions
           /\ StoreOK(unmark_session_for_reaping(st, t))
           /\ unmark_session_for_reaping(st, t).sessions = st.sessions
           /\ StoreOK(add_to_active_sessions(st, t))
           /\ add_to_active_sessions(st, t).sessions = st.sessions
<1>1. ASSUME NEW i, NEW e, NEW w, NEW a
      PROVE  StoreOK([sessions |-> st.sessions, id_to_token |-> i, expecting |-> e,
                      waiting |-> w, active |-> a])
  BY DEF StoreOK
<1>2. /\ StoreOK(expect_client_session(st, cookie, t))
      /\ expect_client_session(st, cookie, t).sessions = st.sessions
  BY <1>1 DEF StoreOK, expect_client_session
<1>3. /\ StoreOK(connected_client(st, cookie))
      /\ connected_client(st, cookie).sessions = st.sessions
  BY <1>1 DEF StoreOK, connected_client
<1>7. ASSUME NEW w
      PROVE  /\ StoreOK([st EXCEPT !.waiting = w])
             /\ [st EXCEPT !.waiting = w].sessions = st.sessions
  BY DEF StoreOK
<1>4. /\ StoreOK(mark_session_for_reaping(st, t, u))
      /\ mark_session_for_reaping(st, t, u).sessions = st.sessions
  <2> DEFINE w == Append(st.waiting, [session |-> t, token |-> u, since |-> LastMark(st) + 1])
  <2>1. mark_session_for_reaping(st, t, u) = [st EXCEPT !.waiting = w]
    BY Zenon DEF mark_session_for_reaping
  <2> HIDE DEF w
  <2> QED BY <2>1, <1>7, Zenon
<1>5. /\ StoreOK(unmark_session_for_reaping(st, t))
      /\ unmark_session_for_reaping(st, t).sessions = st.sessions
  <2> DEFINE w == SwapFirst(st.waiting, {i \in DOMAIN st.waiting : st.waiting[i].session = t})
  <2>1. unmark_session_for_reaping(st, t) = [st EXCEPT !.waiting = w]
    BY Zenon DEF unmark_session_for_reaping
  <2> HIDE DEF w
  <2> QED BY <2>1, <1>7, Zenon
<1>6. /\ StoreOK(add_to_active_sessions(st, t))
      /\ add_to_active_sessions(st, t).sessions = st.sessions
  BY <1>1 DEF StoreOK, add_to_active_sessions
<1> QED BY <1>2, <1>3, <1>4, <1>5, <1>6

LEMMA NewSessions ==
    ASSUME NEW st, StoreOK(st), NEW ss, ss = [t \in DOMAIN ss |-> ss[t]],
           \A t \in DOMAIN ss : IsSession(ss[t])
    PROVE  StoreOK([st EXCEPT !.sessions = ss]) /\ [st EXCEPT !.sessions = ss].sessions = ss
BY DEF StoreOK

(* A session that is used again has no entity until it is given one.       *)
LEMMA ExpectedStore ==
    ASSUME NEW st, StoreOK(st), NEW live, HeldOK(st.sessions, live), NEW l, NEW cookie,
           NEW n, n = expect_client_session(Reused(st, l), cookie, l)
    PROVE  /\ StoreOK(n) /\ HeldOK(n.sessions, live)
           /\ l \in DOMAIN n.sessions
<1> DEFINE fresh == [link |-> NoLink, auth_id |-> l.who, ent |-> NoEntity]
           ss == [u \in DOMAIN st.sessions \union {l} |-> IF u = l THEN fresh ELSE st.sessions[u]]
<1>1. PICK r : r = IF Holds(st, l) THEN unmark_session_for_reaping(st, l) ELSE st
  OBVIOUS
<1>2. StoreOK(r) /\ r.sessions = st.sessions
  BY <1>1, SameSessions
<1>3. Reused(st, l) = [r EXCEPT !.sessions = ss]
  BY <1>1, <1>2 DEF Reused, WithSession
<1>4. ss = [u \in DOMAIN ss |-> ss[u]] /\ \A u \in DOMAIN ss : IsSession(ss[u])
  BY DEF StoreOK, IsSession
<1>5. HeldOK(ss, live) /\ l \in DOMAIN ss
  BY DEF HeldOK
<1> HIDE DEF ss
<1>6. StoreOK(Reused(st, l)) /\ Reused(st, l).sessions = ss
  BY <1>2, <1>3, <1>4, NewSessions
<1> QED BY <1>5, <1>6, SameSessions

Linked(st, t, k, e) == [st EXCEPT !.sessions[t].link = k, !.sessions[t].ent = e]

(* An entity that was free, or was the session's own, goes with the link.  *)
LEMMA GivenEntity ==
    ASSUME NEW st, StoreOK(st), NEW live, HeldOK(st.sessions, live),
           NEW t \in DOMAIN st.sessions, NEW e \in Entities,
           e \notin live \/ e = st.sessions[t].ent, NEW n, NEW k,
           \/ n = [st EXCEPT !.sessions[t].ent = e]
           \/ n = Linked(st, t, k, e)
    PROVE  StoreOK(n) /\ HeldOK(n.sessions, live \union {e})
<1>1. PICK ss : ss = st.sessions
  OBVIOUS
<1> DEFINE given(x) == [u \in DOMAIN ss |->
                          IF u = t THEN [link |-> x, auth_id |-> ss[t].auth_id, ent |-> e] ELSE ss[u]]
<1>2. e # NoEntity
  BY DEF Entities, NoEntity
<1>3. ASSUME NEW x
      PROVE  HeldOK(given(x), live \union {e})
  BY <1>1, <1>2 DEF HeldOK
<1>4. ASSUME NEW x
      PROVE  given(x) = [u \in DOMAIN given(x) |-> given(x)[u]]
  OBVIOUS
<1>5. ASSUME NEW x
      PROVE  \A u \in DOMAIN given(x) : IsSession(given(x)[u])
  BY <1>1 DEF StoreOK, IsSession
<1>6. ASSUME NEW x
      PROVE  /\ StoreOK([st EXCEPT !.sessions = given(x)])
             /\ [st EXCEPT !.sessions = given(x)].sessions = given(x)
  <2>1. PICK g : g = given(x)
    OBVIOUS
  <2> HIDE DEF given
  <2> QED BY <2>1, <1>4, <1>5, NewSessions
<1>7. ASSUME NEW x, n = [st EXCEPT !.sessions = given(x)]
      PROVE  StoreOK(n) /\ HeldOK(n.sessions, live \union {e})
  BY <1>3, <1>6, <1>7
<1>8. CASE n = [st EXCEPT !.sessions[t].ent = e]
  <2>1. [ss EXCEPT ![t].ent = e] = given(ss[t].link)
    BY <1>1 DEF StoreOK, IsSession
  <2>2. n = [st EXCEPT !.sessions = given(ss[t].link)]
    BY <1>1, <1>8, <2>1
  <2> QED BY <2>2, <1>7
<1>9. CASE n = Linked(st, t, k, e)
  <2>1. PICK s1 : s1 = [ss EXCEPT ![t].link = k]
    OBVIOUS
  <2>2. s1 = [u \in DOMAIN ss |->
                 IF u = t THEN [link |-> k, auth_id |-> ss[t].auth_id, ent |-> ss[t].ent] ELSE ss[u]]
    BY <1>1, <2>1 DEF StoreOK, IsSession
  <2>3. [s1 EXCEPT ![t].ent = e] = given(k)
    BY <1>1, <2>2
  <2>4. PICK n1 : n1 = [st EXCEPT !.sessions = s1]
    OBVIOUS
  <2>5. n1 = [st EXCEPT !.sessions[t].link = k]
    BY <1>1, <2>1, <2>4
  <2>6. n = [n1 EXCEPT !.sessions[t].ent = e]
    BY <1>9, <2>5 DEF Linked
  <2>7. n1.sessions = s1
    BY <2>4 DEF StoreOK
  <2>8. n = [n1 EXCEPT !.sessions = given(k)]
    BY <2>3, <2>6, <2>7
  <2>9. n = [st EXCEPT !.sessions = given(k)]
    BY <2>4, <2>8 DEF StoreOK
  <2> QED BY <2>9, <1>7
<1> QED BY <1>8, <1>9

LEMMA FewerSessions ==
    ASSUME NEW st, StoreOK(st), NEW T, NEW live, HeldOK(st.sessions, live)
    PROVE  LET ss == [u \in DOMAIN st.sessions \ T |-> st.sessions[u]]
           IN  /\ ss = [u \in DOMAIN ss |-> ss[u]]
               /\ \A u \in DOMAIN ss : IsSession(ss[u])
               /\ HeldOK(ss, live)
BY DEF StoreOK, HeldOK

(* Whoever leaves takes the entity along.                                  *)
LEMMA LeftStore ==
    ASSUME NEW st, StoreOK(st), NEW live, HeldOK(st.sessions, live),
           NEW t \in DOMAIN st.sessions, st.sessions[t].link # NoLink, NEW a,
           NEW n, n = remove_by_token(session_link_lost(st, t), t, a)
    PROVE  /\ StoreOK(n) /\ HeldOK(n.sessions, live \ {st.sessions[t].ent})
           /\ st.sessions[t].ent \in live
<1> DEFINE ss == [u \in DOMAIN st.sessions \ {t} |-> st.sessions[u]]
           old == [st.sessions EXCEPT ![t].link = NoLink]
<1>1. PICK r : r = session_link_lost(st, t)
  OBVIOUS
<1>2. PICK x, y : r = [sessions |-> old, id_to_token |-> st.id_to_token, expecting |-> x,
                       waiting |-> st.waiting, active |-> y]
  BY <1>1 DEF session_link_lost, remove_from_active_sessions, StoreOK
<1>3. DOMAIN old = DOMAIN st.sessions /\ \A u \in DOMAIN st.sessions : u # t => old[u] = st.sessions[u]
  BY DEF StoreOK
<1>4. ss = [u \in DOMAIN old \ {t} |-> old[u]]
  BY <1>3
<1> HIDE DEF old
<1> DEFINE ids == [b \in Accounts |-> IF b = a THEN NoToken ELSE st.id_to_token[b]]
<1>5. n = [sessions |-> ss, id_to_token |-> ids, expecting |-> x,
           waiting |-> st.waiting, active |-> y]
  <2>1. r.sessions = old /\ r.id_to_token = st.id_to_token
    BY <1>2
  <2>2. ss = [u \in DOMAIN r.sessions \ {t} |-> r.sessions[u]]
    BY <1>4, <2>1
  <2>3. ids = [b \in Accounts |-> IF b = a THEN NoToken ELSE r.id_to_token[b]]
    BY <2>1
  <2> HIDE DEF ss, ids
  <2>4. n = [r EXCEPT !.sessions = ss, !.id_to_token = ids]
    BY <1>1, <2>2, <2>3 DEF remove_by_token
  <2> QED BY <1>2, <2>4
<1>6. StoreOK(n)
  BY <1>5, FewerSessions DEF StoreOK
<1>7. st.sessions[t].ent \in live /\ HeldOK(ss, live \ {st.sessions[t].ent})
  BY DEF HeldOK
<1> QED BY <1>5, <1>6, <1>7

LEMMA ReapedStore ==
    ASSUME NEW st, StoreOK(st), NEW live, HeldOK(st.sessions, live), NEW pass,
           NEW n, n = AfterReaping(st, pass)
    PROVE  StoreOK(n) /\ HeldOK(n.sessions, live)
<1>1. PICK T : T = {e.token : e \in ToSet(pass.reaped)}
  OBVIOUS
<1> DEFINE ss == [u \in DOMAIN st.sessions \ T |-> st.sessions[u]]
<1>2. PICK z : n = [sessions |-> ss, id_to_token |-> z, expecting |-> st.expecting,
                    waiting |-> pass.left, active |-> st.active]
  BY <1>1 DEF AfterReaping, StoreOK
<1>3. /\ ss = [u \in DOMAIN ss |-> ss[u]]
      /\ \A u \in DOMAIN ss : IsSession(ss[u])
      /\ HeldOK(ss, live)
  BY FewerSessions
<1> HIDE DEF ss
<1> QED BY <1>2, <1>3 DEF StoreOK

-----------------------------------------------------------------------------
(* The steps                                                               *)

LEMMA MapChanges ==
    ASSUME MapsOK(store, pool), NEW m \in Maps, NEW st, NEW p, MapOK(st, p)
    PROVE  MapsOK([store EXCEPT ![m] = st], [pool EXCEPT ![m] = p])
BY DEF MapsOK, Over

LEMMA StoreChanges ==
    ASSUME MapsOK(store, pool), NEW m \in Maps, NEW st, MapOK(st, pool[m])
    PROVE  MapsOK([store EXCEPT ![m] = st], pool)
BY DEF MapsOK, Over

LEMMA PoolChanges ==
    ASSUME MapsOK(store, pool), NEW m \in Maps, NEW p, MapOK(store[m], p)
    PROVE  MapsOK(store, [pool EXCEPT ![m] = p])
BY DEF MapsOK, Over

(* A step that leaves the sessions of a map what they were                 *)
LEMMA SessionsKept ==
    ASSUME MapsOK(store, pool), NEW m \in Maps, NEW st, StoreOK(st),
           st.sessions = store[m].sessions
    PROVE  MapsOK([store EXCEPT ![m] = st], pool)
<1>1. MapOK(st, pool[m])
  BY DEF MapsOK, MapOK
<1> QED BY <1>1, StoreChanges

LEMMA Stopped ==
    ASSUME PoolInv, UNCHANGED <<store, pool, inbox>>
    PROVE  PoolInv'
BY DEF PoolInv

(* The stores and pools are as they should be after a step that says so.   *)
LEMMA Kept ==
    ASSUME NEW S, NEW P, NEW I, MapsOK(S, P), InboxesOK(I),
           store' = S, pool' = P, inbox' = I
    PROVE  PoolInv'
BY DEF PoolInv

LEMMA OnExpectClientKeeps ==
    ASSUME PoolInv, NEW m \in Maps, OnExpectClient(m)
    PROVE  PoolInv'
<1> DEFINE ev == Head(inbox[m])
           live == pool[m].live
           msg == [type |-> "Address", login |-> ev.login, map |-> m]
<1>1. PICK st : st = expect_client_session(Reused(store[m], ev.login), ev.login.who, ev.login)
  OBVIOUS
<1>2. StoreOK(store[m]) /\ PoolOK(pool[m]) /\ HeldOK(store[m].sessions, live)
  BY DEF PoolInv, MapsOK, MapOK
<1>3. StoreOK(st) /\ HeldOK(st.sessions, live) /\ ev.login \in DOMAIN st.sessions
  BY <1>1, <1>2, ExpectedStore
<1>4. MapsOK(store, pool) /\ InboxesOK(inbox) /\ inbox[m] # << >>
  BY DEF PoolInv, OnExpectClient, Handles
<1>5. InboxesOK(Popped(m))
  BY <1>4, PoppedIsAddressed
<1>6. CASE /\ store' = [store EXCEPT ![m] = mark_session_for_reaping(st, ev.login, ev.login)]
           /\ inbox' = Popped(m) /\ UNCHANGED pool
  <2>1. PICK n : n = mark_session_for_reaping(st, ev.login, ev.login)
    OBVIOUS
  <2>2. StoreOK(n) /\ n.sessions = st.sessions
    BY <1>3, <2>1, SameSessions
  <2>3. MapOK(n, pool[m])
    BY <1>2, <1>3, <2>2 DEF MapOK
  <2>4. MapsOK([store EXCEPT ![m] = n], pool)
    BY <1>4, <2>3, StoreChanges
  <2> QED BY <1>5, <1>6, <2>1, <2>4, Kept
<1>7. CASE UNCHANGED <<store, pool, inbox>>
  BY <1>7, Stopped
<1>8. CASE /\ pool[m].free # << >>
           /\ store' = [store EXCEPT ![m] = [st EXCEPT !.sessions[ev.login].ent = Head(pool[m].free)]]
           /\ pool' = [pool EXCEPT ![m] = CreatePlayer(pool[m], ev.version)]
           /\ \/ inbox' = Popped(m)
              \/ inbox' = [Popped(m) EXCEPT ![ev.from] = Append(@, msg)]
  <2>1. PICK p, e : p = CreatePlayer(pool[m], ev.version) /\ e = Head(pool[m].free)
    OBVIOUS
  <2>2. PoolOK(p) /\ p.live = live \union {e} /\ e \in Entities \ live
    BY <1>2, <1>8, <2>1, TakenFromPool
  <2>3. PICK n : n = [st EXCEPT !.sessions[ev.login].ent = e]
    OBVIOUS
  <2>4. StoreOK(n) /\ HeldOK(n.sessions, live \union {e})
    BY <1>3, <2>2, <2>3, GivenEntity
  <2>5. MapsOK([store EXCEPT ![m] = n], [pool EXCEPT ![m] = p])
    BY <1>4, <2>2, <2>4, MapChanges DEF MapOK
  <2>6. InboxesOK([Popped(m) EXCEPT ![ev.from] = Append(@, msg)])
    BY <1>5, AppendedIsAddressed
  <2>7. InboxesOK(inbox')
    BY <1>5, <1>8, <2>6
  <2>8. store' = [store EXCEPT ![m] = n] /\ pool' = [pool EXCEPT ![m] = p]
    BY <1>8, <2>1, <2>3
  <2> QED BY <2>5, <2>7, <2>8, Kept
<1> QED BY <1>1, <1>6, <1>7, <1>8 DEF OnExpectClient, Stop

(* The message is taken, and the sessions stay what they were.             *)
LEMMA SessionsStay ==
    ASSUME PoolInv, NEW m \in Maps, inbox[m] # << >>, NEW st, StoreOK(st),
           st.sessions = store[m].sessions,
           store' = [store EXCEPT ![m] = st], pool' = pool, inbox' = Popped(m)
    PROVE  PoolInv'
<1>1. MapsOK(store, pool) /\ InboxesOK(inbox)
  BY DEF PoolInv
<1>2. MapsOK([store EXCEPT ![m] = st], pool)
  BY <1>1, SessionsKept
<1>3. InboxesOK(Popped(m))
  BY <1>1, PoppedIsAddressed
<1> QED BY <1>2, <1>3, Kept

LEMMA NothingButTheMessage ==
    ASSUME PoolInv, NEW m \in Maps, inbox[m] # << >>,
           store' = store, pool' = pool, inbox' = Popped(m)
    PROVE  PoolInv'
<1>1. MapsOK(store, pool) /\ InboxesOK(inbox)
  BY DEF PoolInv
<1>2. InboxesOK(Popped(m))
  BY <1>1, PoppedIsAddressed
<1> QED BY <1>1, <1>2, Kept

LEMMA OnNameClashCheckResultKeeps ==
    ASSUME PoolInv, NEW m \in Maps, OnNameClashCheckResult(m)
    PROVE  PoolInv'
<1> DEFINE l == Head(inbox[m]).login
<1>1. StoreOK(store[m]) /\ inbox[m] # << >>
  BY DEF PoolInv, MapsOK, MapOK, OnNameClashCheckResult, Handles
<1>2. CASE UNCHANGED <<store, pool>> /\ inbox' = Popped(m)
  BY <1>1, <1>2, NothingButTheMessage
<1>3. CASE UNCHANGED <<store, pool, inbox>>
  BY <1>3, Stopped
<1>4. CASE /\ store' = [store EXCEPT ![m] = unmark_session_for_reaping(store[m], l)]
           /\ UNCHANGED pool /\ inbox' = Popped(m)
  <2>1. PICK n : n = unmark_session_for_reaping(store[m], l)
    OBVIOUS
  <2>2. StoreOK(n) /\ n.sessions = store[m].sessions
    BY <1>1, <2>1, SameSessions
  <2> QED BY <1>1, <1>4, <2>1, <2>2, SessionsStay
<1> QED BY <1>2, <1>3, <1>4 DEF OnNameClashCheckResult, Stop

LEMMA OnCharacterCreatedKeeps ==
    ASSUME PoolInv, NEW m \in Maps, OnCharacterCreated(m)
    PROVE  PoolInv'
<1> DEFINE l == Head(inbox[m]).login
<1>1. StoreOK(store[m]) /\ inbox[m] # << >>
  BY DEF PoolInv, MapsOK, MapOK, OnCharacterCreated, Handles
<1>2. CASE UNCHANGED <<store, pool, inbox>>
  BY <1>2, Stopped
<1>3. CASE /\ store' = [store EXCEPT ![m] =
                           mark_session_for_reaping(unmark_session_for_reaping(store[m], l), l, l)]
           /\ UNCHANGED pool /\ inbox' = Popped(m)
  <2>1. PICK u : u = unmark_session_for_reaping(store[m], l)
    OBVIOUS
  <2>2. PICK n : n = mark_session_for_reaping(u, l, l)
    OBVIOUS
  <2>3. StoreOK(u) /\ u.sessions = store[m].sessions
    BY <1>1, <2>1, SameSessions
  <2>4. StoreOK(n) /\ n.sessions = store[m].sessions
    BY <2>2, <2>3, SameSessions
  <2> QED BY <1>1, <1>3, <2>1, <2>2, <2>4, SessionsStay
<1> QED BY <1>2, <1>3 DEF OnCharacterCreated, Stop

LEMMA OnCreateMapEntityKeeps ==
    ASSUME PoolInv, NEW m \in Maps, OnCreateMapEntity(m)
    PROVE  PoolInv'
<1> DEFINE k == Head(inbox[m]).link
           live == pool[m].live
<1>1. PICK st : st = connected_client(store[m], k.who)
  OBVIOUS
<1> DEFINE linked(t, e) ==
             mark_session_for_reaping([st EXCEPT !.sessions[t].link = k, !.sessions[t].ent = e], t, t)
<1>2. StoreOK(store[m]) /\ PoolOK(pool[m]) /\ HeldOK(store[m].sessions, live)
  BY DEF PoolInv, MapsOK, MapOK
<1>3. StoreOK(st) /\ st.sessions = store[m].sessions
  BY <1>1, <1>2, SameSessions
<1>4. MapsOK(store, pool) /\ InboxesOK(inbox) /\ inbox[m] # << >>
  BY DEF PoolInv, OnCreateMapEntity, Handles
<1>5. InboxesOK(Popped(m))
  BY <1>4, PoppedIsAddressed
<1>6. ASSUME NEW t \in DOMAIN st.sessions, NEW e \in Entities, NEW n,
             e \notin live \/ e = st.sessions[t].ent, n = linked(t, e)
      PROVE  StoreOK(n) /\ HeldOK(n.sessions, live \union {e})
  <2>1. PICK g : g = Linked(st, t, k, e)
    OBVIOUS
  <2>2. HeldOK(st.sessions, live) /\ n = mark_session_for_reaping(g, t, t)
    BY <1>2, <1>3, <1>6, <2>1 DEF Linked
  <2> HIDE DEF k, live, linked
  <2>3. StoreOK(g) /\ HeldOK(g.sessions, live \union {e})
    BY <1>3, <1>6, <2>1, <2>2, GivenEntity
  <2> QED BY <2>2, <2>3, SameSessions
<1>7. CASE UNCHANGED <<store, pool, inbox>>
  BY <1>7, Stopped
<1>8. ASSUME NEW t, Holds(store[m], t), pool[m].free # << >>,
             store' = [store EXCEPT ![m] = linked(t, Head(pool[m].free))],
             pool' = [pool EXCEPT ![m] = CreatePlayer(pool[m], 1)],
             inbox' = Popped(m)
      PROVE  PoolInv'
  <2>1. PICK p, e : p = CreatePlayer(pool[m], 1) /\ e = Head(pool[m].free)
    OBVIOUS
  <2>2. PoolOK(p) /\ p.live = live \union {e} /\ e \in Entities \ live
    BY <1>2, <1>8, <2>1, TakenFromPool
  <2>3. PICK n : n = linked(t, e)
    OBVIOUS
  <2>4. StoreOK(n) /\ HeldOK(n.sessions, p.live)
    BY <1>3, <1>6, <1>8, <2>2, <2>3 DEF Holds
  <2>5. MapsOK([store EXCEPT ![m] = n], [pool EXCEPT ![m] = p])
    BY <1>4, <2>2, <2>4, MapChanges DEF MapOK
  <2>6. store' = [store EXCEPT ![m] = n] /\ pool' = [pool EXCEPT ![m] = p]
    BY <1>8, <2>1, <2>3
  <2> QED BY <1>5, <1>8, <2>5, <2>6, Kept
<1>9. ASSUME NEW t, Holds(store[m], t), Session(m, t).ent # NoEntity,
             store' = [store EXCEPT ![m] = linked(t, Session(m, t).ent)],
             pool' = pool, inbox' = Popped(m)
      PROVE  PoolInv'
  <2>1. PICK e : e = Session(m, t).ent
    OBVIOUS
  <2>2. e \in live /\ e \in Entities /\ t \in DOMAIN st.sessions /\ e = st.sessions[t].ent
    BY <1>2, <1>3, <1>9, <2>1 DEF HeldOK, PoolOK, Session, Holds
  <2>3. PICK n : n = linked(t, e)
    OBVIOUS
  <2>4. StoreOK(n) /\ HeldOK(n.sessions, live \union {e})
    BY <1>6, <2>2, <2>3
  <2>5. live \union {e} = live
    BY <2>2
  <2>6. MapsOK([store EXCEPT ![m] = n], pool)
    BY <1>2, <1>4, <2>4, <2>5, StoreChanges DEF MapOK
  <2> QED BY <1>5, <1>9, <2>1, <2>3, <2>6, Kept
<1> HIDE DEF linked
<1> QED BY <1>1, <1>7, <1>8, <1>9 DEF OnCreateMapEntity, Stop, linked

LEMMA OnEntityResponseKeeps ==
    ASSUME PoolInv, NEW m \in Maps, OnEntityResponse(m)
    PROVE  PoolInv'
<1> DEFINE l == Head(inbox[m]).login
           filled == [pool[m] EXCEPT !.id[Session(m, l).ent] = l.who]
<1>1. MapOK(store[m], pool[m]) /\ MapsOK(store, pool) /\ InboxesOK(inbox) /\ inbox[m] # << >>
  BY DEF PoolInv, MapsOK, OnEntityResponse, Handles
<1>2. CASE UNCHANGED <<store, pool, inbox>>
  BY <1>2, Stopped
<1>3. CASE /\ store' = [store EXCEPT ![m] = unmark_session_for_reaping(store[m], l)]
           /\ pool' = [pool EXCEPT ![m] = filled]
           /\ inbox' = Popped(m)
  <2>1. PICK n : n = unmark_session_for_reaping(store[m], l)
    OBVIOUS
  <2>2. StoreOK(n) /\ n.sessions = store[m].sessions
    BY <1>1, <2>1, SameSessions DEF MapOK
  <2>3. PICK p : p = filled
    OBVIOUS
  <2>4. PoolOK(p) /\ p.live = pool[m].live
    BY <1>1, <2>3, ChangedInPool DEF MapOK
  <2>5. MapOK(n, p)
    BY <1>1, <2>2, <2>4 DEF MapOK
  <2>6. MapsOK([store EXCEPT ![m] = n], [pool EXCEPT ![m] = p])
    BY <1>1, <2>5, MapChanges
  <2>7. InboxesOK(Popped(m))
    BY <1>1, PoppedIsAddressed
  <2> QED BY <1>3, <2>1, <2>3, <2>6, <2>7, Kept
<1>4. \/ UNCHANGED <<store, pool, inbox>>
      \/ /\ store' = [store EXCEPT ![m] = unmark_session_for_reaping(store[m], l)]
         /\ pool' = [pool EXCEPT ![m].id[Session(m, l).ent] = l.who]
         /\ inbox' = Popped(m)
  BY DEF OnEntityResponse, Stop
<1>5. [pool EXCEPT ![m].id[Session(m, l).ent] = l.who] = [pool EXCEPT ![m] = filled]
  OBVIOUS
<1> HIDE DEF l, filled
<1> QED BY <1>2, <1>3, <1>4, <1>5

LEMMA OnEntitiesRequestKeeps ==
    ASSUME PoolInv, NEW m \in Maps, OnEntitiesRequest(m)
    PROVE  PoolInv'
<1> DEFINE t == LinkSession(m, Head(inbox[m]).link)
<1>1. StoreOK(store[m]) /\ inbox[m] # << >>
  BY DEF PoolInv, MapsOK, MapOK, OnEntitiesRequest, Handles
<1>2. CASE UNCHANGED <<store, pool, inbox>>
  BY <1>2, Stopped
<1>3. CASE /\ store' = [store EXCEPT ![m] = add_to_active_sessions(store[m], t)]
           /\ UNCHANGED pool /\ inbox' = Popped(m)
  <2>1. PICK n : n = add_to_active_sessions(store[m], t)
    OBVIOUS
  <2>2. StoreOK(n) /\ n.sessions = store[m].sessions
    BY <1>1, <2>1, SameSessions
  <2> QED BY <1>1, <1>3, <2>1, <2>2, SessionsStay
<1> QED BY <1>2, <1>3 DEF OnEntitiesRequest, Stop

(* Whoever leaves has a link, so there is an entity to give back.          *)
LEMMA OnLeavingKeeps ==
    ASSUME PoolInv, NEW m \in Maps, OnLeaving(m)
    PROVE  PoolInv'
<1> DEFINE k == Head(inbox[m]).link
           t == LinkSession(m, k)
           e == Session(m, t).ent
<1>1. MapOK(store[m], pool[m]) /\ MapsOK(store, pool) /\ InboxesOK(inbox) /\ inbox[m] # << >>
      /\ Head(inbox[m]).type = "Disconnect"
  BY DEF PoolInv, MapsOK, OnLeaving, Handles
<1>2. CASE UNCHANGED <<store, pool, inbox>>
  BY <1>2, Stopped
<1>3. CASE /\ HasLinkSession(m, k)
           /\ store' = [store EXCEPT ![m] =
                           remove_by_token(session_link_lost(store[m], t), t, t.who)]
           /\ pool' = [pool EXCEPT ![m] = removeEntityFromActiveList(pool[m], e)]
           /\ inbox' = Popped(m)
  <2>1. k \in Logins
    <3>1. Addressed(inbox[m])
      BY <1>1 DEF InboxesOK
    <3>2. PICK S : inbox[m] \in Seq(S)
      BY <3>1 DEF Addressed
    <3>3. 1 \in 1..Len(inbox[m]) /\ Head(inbox[m]) = inbox[m][1]
      BY <1>1, <3>2
    <3> QED BY <1>1, <3>1, <3>3, ElementsAddressed
  <2>2. t \in DOMAIN store[m].sessions /\ store[m].sessions[t].link # NoLink
    BY <1>3, <2>1, MapSessionsAssumption DEF HasLinkSession, Logins
  <2>3. PICK n : n = remove_by_token(session_link_lost(store[m], t), t, t.who)
    OBVIOUS
  <2>4. /\ StoreOK(n) /\ HeldOK(n.sessions, pool[m].live \ {store[m].sessions[t].ent})
        /\ store[m].sessions[t].ent \in pool[m].live
    <3>1. StoreOK(store[m]) /\ HeldOK(store[m].sessions, pool[m].live)
      BY <1>1 DEF MapOK
    <3> HIDE DEF t
    <3> QED BY <2>2, <2>3, <3>1, LeftStore
  <2>5. PICK p : p = removeEntityFromActiveList(pool[m], e)
    OBVIOUS
  <2>6. PoolOK(p) /\ p.live = pool[m].live \ {e} /\ e = store[m].sessions[t].ent
    BY <1>1, <2>4, <2>5, ReturnedToPool DEF MapOK, Session
  <2>7. MapsOK([store EXCEPT ![m] = n], [pool EXCEPT ![m] = p])
    BY <1>1, <2>4, <2>6, MapChanges DEF MapOK
  <2>8. InboxesOK(Popped(m))
    BY <1>1, PoppedIsAddressed
  <2> QED BY <1>3, <2>3, <2>5, <2>7, <2>8, Kept
<1> QED BY <1>2, <1>3 DEF OnLeaving, Stop

LEMMA ReapKeeps ==
    ASSUME PoolInv, NEW m \in Maps, NEW stale, Reap(m, stale)
    PROVE  PoolInv'
<1>1. MapOK(store[m], pool[m]) /\ MapsOK(store, pool) /\ InboxesOK(inbox)
  BY DEF PoolInv, MapsOK
<1>2. PICK pass : pass = StaleLinks(store[m], stale)
  OBVIOUS
<1>3. PICK n : n = AfterReaping(store[m], pass)
  OBVIOUS
<1>4. MapsOK([store EXCEPT ![m] = n], pool)
  <2>1. StoreOK(n) /\ HeldOK(n.sessions, pool[m].live)
    BY <1>1, <1>3, ReapedStore DEF MapOK
  <2> QED BY <1>1, <2>1, StoreChanges DEF MapOK
<1>5. \/ UNCHANGED <<store, pool, inbox>>
      \/ store' = [store EXCEPT ![m] = n] /\ UNCHANGED <<pool, inbox>>
  BY <1>2, <1>3 DEF Reap, Stop
<1> QED BY <1>1, <1>4, <1>5, Stopped, Kept

(* Steps that change no more than what the inboxes hold, if that           *)
LEMMA OnlyInboxes ==
    ASSUME PoolInv, UNCHANGED <<store, pool>>, InboxesOK(inbox')
    PROVE  PoolInv'
<1>1. MapsOK(store, pool)
  BY DEF PoolInv
<1> QED BY <1>1, Kept

LEMMA OtherHandlersKeep ==
    ASSUME PoolInv, NEW m \in Maps,
           OnClientResumed(m) \/ OnInitiateMapTransfer(m) \/ OnExpectClientResponse(m)
    PROVE  PoolInv'
<1>1. \/ UNCHANGED <<store, pool, inbox>>
      \/ UNCHANGED <<store, pool>> /\ inbox' = Popped(m)
  BY DEF OnClientResumed, OnInitiateMapTransfer, OnExpectClientResponse, Stop
<1>2. inbox[m] # << >>
  BY DEF OnClientResumed, OnInitiateMapTransfer, OnExpectClientResponse, Handles
<1> QED BY <1>1, <1>2, Stopped, NothingButTheMessage

LEMMA ServerKeeps ==
    ASSUME PoolInv, ServerHandles
    PROVE  PoolInv'
<1> DEFINE ev == Head(server)
<1>1. UNCHANGED <<store, pool>>
  BY DEF ServerHandles
<1>2. \/ UNCHANGED inbox
      \/ ev.type = "Expect" /\ inbox' = [inbox EXCEPT ![ev.to] = Append(@, ev)]
  BY DEF ServerHandles
<1> HIDE DEF ev
<1>3. InboxesOK(inbox)
  BY DEF PoolInv
<1>4. CASE ev.type = "Expect" /\ inbox' = [inbox EXCEPT ![ev.to] = Append(@, ev)]
  <2>1. PICK n : n = ev.to
    OBVIOUS
  <2>2. ev.type = "Disconnect" => ev.link \in Logins
    BY <1>4
  <2>3. InboxesOK([inbox EXCEPT ![n] = Append(@, ev)])
    BY <1>3, <2>2, AppendedIsAddressed
  <2> QED BY <1>1, <1>4, <2>1, <2>3, OnlyInboxes
<1>5. CASE UNCHANGED inbox
  BY <1>1, <1>5, Stopped
<1> QED BY <1>2, <1>4, <1>5

LEMMA DatabaseKeeps ==
    ASSUME PoolInv, DatabaseServes
    PROVE  PoolInv'
<1>1. UNCHANGED <<store, pool>> /\ InboxesOK(inbox)
  BY DEF DatabaseServes, PoolInv
<1>2. ASSUME NEW msg, Reply(msg), msg.type # "Disconnect"
      PROVE  InboxesOK(inbox')
  <2>1. PICK n : n = Head(gamedb).map
    OBVIOUS
  <2>2. inbox' = [inbox EXCEPT ![n] = Append(@, msg)]
    BY <1>2, <2>1 DEF Reply
  <2>3. msg.type = "Disconnect" => msg.link \in Logins
    BY <1>2
  <2> QED BY <1>1, <2>2, <2>3, AppendedIsAddressed
<1> DEFINE ev == Head(gamedb)
<1>3. \/ UNCHANGED inbox
      \/ \E taken : Reply([type |-> "NameChecked", login |-> ev.login, taken |-> taken])
      \/ Reply([type |-> "Created", login |-> ev.login])
      \/ Reply([type |-> "Entity", login |-> ev.login])
  BY DEF DatabaseServes
<1> HIDE DEF ev
<1>4. InboxesOK(inbox')
  <2>1. CASE UNCHANGED inbox
    BY <1>1, <2>1
  <2>2. ASSUME NEW taken, Reply([type |-> "NameChecked", login |-> ev.login, taken |-> taken])
        PROVE  InboxesOK(inbox')
    <3>1. PICK msg : msg = [type |-> "NameChecked", login |-> ev.login, taken |-> taken]
      OBVIOUS
    <3> QED BY <1>2, <2>2, <3>1
  <2>3. CASE Reply([type |-> "Created", login |-> ev.login])
    <3>1. PICK msg : msg = [type |-> "Created", login |-> ev.login]
      OBVIOUS
    <3> QED BY <1>2, <2>3, <3>1
  <2>4. CASE Reply([type |-> "Entity", login |-> ev.login])
    <3>1. PICK msg : msg = [type |-> "Entity", login |-> ev.login]
      OBVIOUS
    <3> QED BY <1>2, <2>4, <3>1
  <2> QED BY <1>3, <2>1, <2>2, <2>3, <2>4
<1> QED BY <1>1, <1>4, OnlyInboxes

LEMMA ClientsKeep ==
    ASSUME PoolInv, NEW m \in Maps, NEW k \in Logins, NEW from, NEW to, NEW type,
           Sends(m, k, from, to, type)
    PROVE  PoolInv'
<1>1. PICK msg : msg = [type |-> type, link |-> k]
  OBVIOUS
<1>2. UNCHANGED <<store, pool>> /\ inbox' = [inbox EXCEPT ![m] = Append(@, msg)]
  BY <1>1 DEF Sends, clientRest
<1>3. InboxesOK(inbox)
  BY DEF PoolInv
<1>4. msg.link \in Logins
  BY <1>1
<1>5. InboxesOK(inbox')
  BY <1>2, <1>3, <1>4, AppendedIsAddressed
<1> QED BY <1>2, <1>5, OnlyInboxes

LEMMA ConnectsKeeps ==
    ASSUME PoolInv, NEW m \in Maps, NEW a, Connects(a, m)
    PROVE  PoolInv'
<1>1. PICK msg : msg = [type |-> "NewEntity", link |-> Now(a), fresh |-> saved[a].version = 0]
  OBVIOUS
<1>2. UNCHANGED <<store, pool>> /\ inbox' = [inbox EXCEPT ![m] = Append(@, msg)]
  BY <1>1 DEF Connects, clientRest
<1>3. InboxesOK(inbox)
  BY DEF PoolInv
<1>4. msg.type # "Disconnect"
  BY <1>1
<1>5. InboxesOK(inbox')
  BY <1>2, <1>3, <1>4, AppendedIsAddressed
<1> QED BY <1>2, <1>5, OnlyInboxes

LEMMA PlaysKeeps ==
    ASSUME PoolInv, NEW m \in Maps, NEW k, Plays(m, k)
    PROVE  PoolInv'
<1> DEFINE e == Session(m, LinkSession(m, k)).ent
           older == pool[m].version[e] + 1
<1>1. MapOK(store[m], pool[m]) /\ MapsOK(store, pool) /\ InboxesOK(inbox)
  BY DEF PoolInv, MapsOK
<1>2. PICK p : p = [pool[m] EXCEPT !.version[e] = older]
  OBVIOUS
<1>3. PoolOK(p) /\ p.live = pool[m].live
  BY <1>1, <1>2, ChangedInPool DEF MapOK
<1>4. MapsOK(store, [pool EXCEPT ![m] = p])
  BY <1>1, <1>3, PoolChanges DEF MapOK
<1>5. pool' = [pool EXCEPT ![m] = p] /\ UNCHANGED <<store, inbox>>
  <2>1. /\ pool' = [pool EXCEPT ![m].version[e] = @ + 1]
        /\ UNCHANGED <<store, inbox>>
    BY DEF Plays
  <2>2. [pool EXCEPT ![m].version[e] = @ + 1] = [pool EXCEPT ![m] = p]
    BY <1>2
  <2> QED BY <2>1, <2>2
<1> QED BY <1>1, <1>4, <1>5, Kept

LEMMA PoolStep ==
    ASSUME PoolInv, [Next]_vars
    PROVE  PoolInv'
<1>1. CASE UNCHANGED vars
  BY <1>1, Stopped DEF vars
<1>2. ASSUME NEW m \in Maps, MapHandles(m)
      PROVE  PoolInv'
  BY <1>2, OnExpectClientKeeps, OnNameClashCheckResultKeeps, OnCreateMapEntityKeeps,
     OnCharacterCreatedKeeps, OnEntityResponseKeeps, OnEntitiesRequestKeeps, OnLeavingKeeps,
     OtherHandlersKeep DEF MapHandles
<1>3. ASSUME NEW m \in Maps, OnUpdateEntities(m) \/ Delivers(m)
      PROVE  PoolInv'
  BY <1>3, Stopped DEF OnUpdateEntities, Delivers
<1>4. ASSUME NEW m \in Maps, NEW stale, Reap(m, stale)
      PROVE  PoolInv'
  BY <1>4, ReapKeeps
<1>5. CASE ServerHandles
  BY <1>5, ServerKeeps
<1>6. CASE DatabaseServes
  BY <1>6, DatabaseKeeps
<1>7. CASE DatabaseFails \/ GameHandles
  BY <1>7, Stopped DEF DatabaseFails, GameHandles
<1>8. ASSUME NEW a, AsksForMap(a) \/ LeavesGame(a)
      PROVE  PoolInv'
  BY <1>8, Stopped DEF AsksForMap, LeavesGame, clientRest
<1>9. ASSUME NEW a, NEW m \in Maps, Connects(a, m)
      PROVE  PoolInv'
  BY <1>9, ConnectsKeeps
<1>10. ASSUME NEW m \in Maps, NEW k \in Logins,
              RequestsEntities(m, k) \/ Resumes(m, k) \/ Initiates(m, k) \/ LeavesMap(m, k)
       PROVE  PoolInv'
  BY <1>10, ClientsKeep DEF RequestsEntities, Resumes, Initiates, LeavesMap
<1>11. ASSUME NEW m \in Maps, NEW k \in Logins, Plays(m, k)
       PROVE  PoolInv'
  BY <1>11, PlaysKeeps
<1>12. ASSUME NEW m \in Maps, NEW k \in Logins, NEW to, EntersDoor(m, k, to)
       PROVE  PoolInv'
  BY <1>12, Stopped DEF EntersDoor, clientRest
<1> QED BY <1>1, <1>2, <1>3, <1>4, <1>5, <1>6, <1>7, <1>8, <1>9, <1>10, <1>11, <1>12 DEF Next

LEMMA PoolInit == Init => PoolInv
<1> SUFFICES ASSUME Init PROVE PoolInv
  OBVIOUS
<1> DEFINE p == [live |-> {}, free |-> [e \in Entities |-> e], id |-> [e \in Entities |-> NoAccount],
                 version |-> [e \in Entities |-> 0]]
<1>1. /\ store = [m \in Maps |-> EmptyStore]
      /\ pool = [m \in Maps |-> p]
      /\ inbox = [m \in Maps |-> << >>]
  BY DEF Init
<1>2. PoolOK(p)
  <2>1. PoolSize \in Nat
    BY MapSessionsAssumption
  <2> QED BY <2>1 DEF PoolOK, Entities
<1>3. StoreOK(EmptyStore) /\ HeldOK(EmptyStore.sessions, {})
  BY DEF StoreOK, HeldOK, EmptyStore
<1>4. MapOK(EmptyStore, p)
  BY <1>2, <1>3 DEF MapOK
<1>5. Addressed(<< >>)
  BY DEF Addressed
<1> HIDE DEF p
<1> QED BY <1>1, <1>4, <1>5 DEF PoolInv, MapsOK, InboxesOK, Over

(* Whatever happens, an entity of a map is free once or live, and belongs  *)
(* to one session at most (PoolIsSound; EntityStore and EntityManager in   *)
(* EntityStorage.cpp, and the handlers of MapInstance.cpp that use them).  *)
THEOREM EntitiesAreSound == Spec => []PoolIsSound
<1>1. PoolInv /\ [Next]_vars => PoolInv'
  BY PoolStep
<1> QED BY PoolInit, <1>1, PoolInvImplies, PTL DEF Spec
=============================================================================
