---------------------------- MODULE SessionStore ----------------------------
(***************************************************************************)
(* ClientSessionStore (src/Common/Servers/ClientManager.h), the store each *)
(* server keeps its sessions in, as operators on a record.  The stores of  *)
(* the authentication and the game handler are values of this type; the    *)
(* fields of a session they do not share are theirs.                       *)
(*                                                                         *)
(* A pointer to a session is the token it was created with: the map is     *)
(* node based, so a session never moves.                                   *)
(***************************************************************************)
EXTENDS Naturals, Sequences, SequencesExt, FiniteSets

CONSTANTS Accounts,   \* account ids
          NoAccount,  \* the id of a session that has none yet
          NoLink      \* the null link pointer

NoToken == 0

EmptyStore ==
    [sessions  |-> << >>,
     id_to_token |-> [a \in Accounts |-> NoToken],
     expecting |-> << >>,
     waiting   |-> << >>,
     active    |-> {}]

ExpectClientInfo(Cookie, held) == [cookie : Cookie, token : held]

WaitingSession(held, marks) == [session : held, token : marks, since : Nat]

(* The stores whose sessions are of this kind, are expected under these    *)
(* cookies, held under the tokens `held` and marked with the tokens `marks`*)
Stores(Session, Cookie, held, marks) ==
    [sessions    : UNION {[T -> Session] : T \in SUBSET held},
     id_to_token : [Accounts -> held \union {NoToken}],
     expecting   : Seq(ExpectClientInfo(Cookie, held)),
     waiting     : Seq(WaitingSession(held, marks)),
     active      : SUBSET held]

Holds(st, t) == t \in DOMAIN st.sessions

WithSession(st, t, s) ==
    [st EXCEPT !.sessions = [u \in DOMAIN @ \union {t} |-> IF u = t THEN s ELSE @[u]]]

token_for_id(st, a) == IF a = NoAccount THEN NoToken ELSE st.id_to_token[a]

setTokenForId(st, a, t) == [st EXCEPT !.id_to_token[a] = t]

(* swap with the last entry, then pop_back                                 *)
SwapRemove(s, i) ==
    [j \in 1..(Len(s) - 1) |-> IF j = i THEN s[Len(s)] ELSE s[j]]

(* Only the first of the entries found goes.                               *)
SwapFirst(s, found) ==
    IF found = {} THEN s
    ELSE SwapRemove(s, CHOOSE i \in found : \A j \in found : i <= j)

(* A cookie that is expected already keeps the session it was given for.   *)
expect_client_session(st, cookie, t) ==
    IF \E i \in DOMAIN st.expecting : st.expecting[i].cookie = cookie
    THEN st
    ELSE [st EXCEPT !.expecting = Append(@, [cookie |-> cookie, token |-> t])]

Expected(st, cookie) ==
    {e.token : e \in {x \in ToSet(st.expecting) : x.cookie = cookie}}

connected_client(st, cookie) ==
    [st EXCEPT !.expecting = SwapFirst(@, {i \in DOMAIN @ : @[i].cookie = cookie})]

add_to_active_sessions(st, t) == [st EXCEPT !.active = @ \union {t}]

remove_from_active_sessions(st, t) == [st EXCEPT !.active = @ \ {t}]

(* The order of the marks: what the clock values of WaitingSession are     *)
(* compared for.                                                           *)
LastMark(st) ==
    LET marks == {e.since : e \in ToSet(st.waiting)}
    IN  IF marks = {} THEN 0 ELSE CHOOSE m \in marks : \A n \in marks : n <= m

mark_session_for_reaping(st, t, token) ==
    [st EXCEPT !.waiting =
        Append(@, [session |-> t, token |-> token, since |-> LastMark(st) + 1])]

(* Mutant: the entry stays.                                                *)
MutUnmarksNothing(st, t) == st

unmark_session_for_reaping(st, t) ==
    [st EXCEPT !.waiting = SwapFirst(@, {i \in DOMAIN @ : @[i].session = t})]

(* Mutant: the session stays among the active ones.                        *)
MutStaysActive(st, t) == [st EXCEPT !.sessions[t].link = NoLink]

session_link_lost(st, t) ==
    [remove_from_active_sessions(st, t) EXCEPT
        !.expecting = SwapFirst(@, {i \in DOMAIN @ : @[i].token = t}),
        !.sessions[t].link = NoLink]

remove_by_token(st, t, a) ==
    [st EXCEPT !.sessions = [u \in DOMAIN @ \ {t} |-> @[u]],
               !.id_to_token = [b \in Accounts |-> IF b = a THEN NoToken ELSE @[b]]]

-----------------------------------------------------------------------------
(* One pass of the reaper, when the sessions marked up to `stale` have     *)
(* waited for too long.  Its loop puts the last entry in the place of each *)
(* one it takes out, and goes on: it looks at the entries up to the length *)
(* that is left, and at none that was moved.                               *)

Stale(st, stale) == {i \in DOMAIN st.waiting : st.waiting[i].since <= stale}

Taken(st, stale) ==
    {i \in Stale(st, stale) :
        i + Cardinality(Stale(st, stale) \ (i..Len(st.waiting))) <= Len(st.waiting)}

(* The place of i in the order in which they are taken out                 *)
Rank(taken, i) == Cardinality({j \in taken : j <= i})

StaleLinks(st, stale) ==
    LET taken == Taken(st, stale)
        n     == Len(st.waiting)
    IN  [left   |-> [i \in 1..(n - Cardinality(taken)) |->
                        st.waiting[IF i \in taken THEN n + 1 - Rank(taken, i) ELSE i]],
         reaped |-> [r \in 1..Cardinality(taken) |->
                        st.waiting[CHOOSE i \in taken : Rank(taken, i) = r]]]

(* The pass reads the session of each entry it reaps, which an earlier one *)
(* may have destroyed.                                                     *)
ReapsDestroyed(st, reaped) ==
    \E j \in DOMAIN reaped :
       \/ ~Holds(st, reaped[j].session)
       \/ \E i \in 1..(j - 1) : reaped[i].token = reaped[j].session

ReapedLinks(st, reaped) ==
    {st.sessions[e.session].link : e \in ToSet(reaped)} \ {NoLink}

(* Mutant: the account keeps the token of a session that is gone.          *)
MutKeepsId(st, pass) ==
    LET tokens == {e.token : e \in ToSet(pass.reaped)}
    IN  [st EXCEPT !.waiting = pass.left,
                   !.sessions = [u \in DOMAIN @ \ tokens |-> @[u]]]

(* remove_by_token for each of them                                        *)
AfterReaping(st, pass) ==
    LET tokens == {e.token : e \in ToSet(pass.reaped)}
        ids    == {st.sessions[e.session].auth_id : e \in ToSet(pass.reaped)}
    IN  [st EXCEPT !.waiting = pass.left,
                   !.sessions = [u \in DOMAIN @ \ tokens |-> @[u]],
                   !.id_to_token = [a \in Accounts |->
                                       IF a \in ids THEN NoToken ELSE @[a]]]
=============================================================================
