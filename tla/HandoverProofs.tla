---------------------------- MODULE HandoverProofs ----------------------------
(***************************************************************************)
(* Theorems of Handover: its type invariant; that a session counted as in  *)
(* game is there or about to be reported gone; that the session an account *)
(* is mapped to is held; that a session logged in has a link, open or      *)
(* about to be reported closed.  None of the last three is inductive: a    *)
(* session the authentication handler has yet to count must be accounted   *)
(* for while its arrival is in the queue; the reaper, which destroys a     *)
(* session by the token of an entry and takes the account from the session *)
(* of that entry, is right only because OnDisconnect is never given the    *)
(* token of a temporary session, as each client has one login on its way   *)
(* at most; and an answer finds the link of its session open only because  *)
(* nothing closes it while a login is on its way.                          *)
(* First, what the operations of a session store return, and what every    *)
(* handler, link and database step does to types, to the sessions in game  *)
(* and to those the game handler holds.                                    *)
(***************************************************************************)
EXTENDS Handover, SessionStore, FiniteSetTheorems, WellFoundedInduction, TLAPS

-----------------------------------------------------------------------------
(* Numbers and sequences                                                   *)

(* The library's well-foundedness of the naturals, as a least element      *)
LEMMA SmallestNumber ==
    ASSUME NEW T \in SUBSET Nat, T # {}
    PROVE  \E m \in T : \A n \in T : m <= n
<1>. DEFINE R == OpToRel(<, Nat)
<1>1. IsWellFoundedOn(R, Nat)
    BY NatLessThanWellFounded
<1>2. \A n, m \in Nat : n < m => <<n, m>> \in R
    BY DEF OpToRel
<1>. HIDE DEF R
<1>3. \E m \in T : \A n \in T : ~(<<n, m>> \in R)
    BY <1>1, WFMin
<1>4. \A n, m \in Nat : ~(n < m) => m <= n
    OBVIOUS
<1>. QED
    BY <1>2, <1>3, <1>4

(* Finitely many numbers have an upper bound.                              *)
LEMMA Bounded ==
    ASSUME NEW n \in Nat, NEW f \in [1..n -> Nat]
    PROVE  \E b \in Nat : \A i \in 1..n : f[i] <= b
<1>. DEFINE Bound(k, b) == \A i \in 1..k : f[i] <= b
            Unbounded == {k \in 0..n : ~\E b \in Nat : Bound(k, b)}
<1>1. Bound(0, 0)
    OBVIOUS
<1>2. ASSUME NEW k \in 0..n, k # 0, NEW b \in Nat, Bound(k - 1, b)
      PROVE  \E c \in Nat : Bound(k, c)
    <2>1. k \in 1..n
        BY <1>2
    <2>2. f[k] \in Nat
        BY <2>1
    <2>3. CASE f[k] <= b
        <3>1. \A i \in 1..k : i = k \/ i \in 1..(k - 1)
            OBVIOUS
        <3>2. Bound(k, b)
            BY <3>1, <2>3, <1>2
        <3>. QED
            BY <3>2
    <2>4. CASE ~(f[k] <= b)
        <3>1. \A i \in 1..k : i = k \/ i \in 1..(k - 1)
            OBVIOUS
        <3>2. \A i \in 1..(k - 1) : f[i] \in Nat
            BY <2>1
        <3>3. \A i \in 1..(k - 1) : f[i] <= f[k]
            BY <3>2, <2>2, <2>4, <1>2
        <3>4. Bound(k, f[k])
            BY <3>1, <3>3, <2>2
        <3>. QED
            BY <3>4, <2>2
    <2>. QED
        BY <2>3, <2>4
<1>. HIDE DEF Bound
<1>3. ASSUME Unbounded # {} PROVE FALSE
    <2>1. Unbounded \in SUBSET Nat
        OBVIOUS
    <2>2. PICK k \in Unbounded : \A m \in Unbounded : k <= m
        BY <1>3, <2>1, SmallestNumber
    <2>3. k \in 0..n /\ ~\E b \in Nat : Bound(k, b)
        OBVIOUS
    <2>4. k # 0
        BY <1>1, <2>3
    <2>5. k - 1 \in 0..n /\ ~(k <= k - 1)
        BY <2>3, <2>4
    <2>6. k - 1 \notin Unbounded
        BY <2>2, <2>5
    <2>. QED
        BY <2>3, <2>4, <2>5, <2>6, <1>2
<1>4. n \in 0..n
    OBVIOUS
<1>5. \E b \in Nat : Bound(n, b)
    BY <1>3, <1>4
<1>. QED
    BY <1>5 DEF Bound

LEMMA SwapRemoveType ==
    ASSUME NEW S, NEW s \in Seq(S), NEW i, s # << >>
    PROVE  SwapRemove(s, i) \in Seq(S)
BY DEF SwapRemove

LEMMA SwapFirstType ==
    ASSUME NEW S, NEW s \in Seq(S), NEW found, found \subseteq DOMAIN s
    PROVE  SwapFirst(s, found) \in Seq(S)
<1>1. CASE found = {}
    BY <1>1 DEF SwapFirst
<1>2. CASE found # {}
    <2>1. s # << >>
        BY <1>2
    <2>. DEFINE i == CHOOSE i \in found : \A j \in found : i <= j
    <2>2. SwapRemove(s, i) \in Seq(S)
        BY <2>1, SwapRemoveType
    <2>. QED
        BY <1>2, <2>2 DEF SwapFirst
<1>. QED
    BY <1>1, <1>2

(* A nonempty set of numbers with an upper bound has a largest element.    *)
LEMMA LargestNumber ==
    ASSUME NEW T \in SUBSET Nat, T # {}, NEW b \in Nat, \A m \in T : m <= b
    PROVE  \E m \in T : \A n \in T : n <= m
<1>. DEFINE left == {k \in Nat : b - k \in T}
<1>1. \A m \in T : m \in Nat /\ b - m \in Nat /\ b - (b - m) = m
    OBVIOUS
<1>2. left \in SUBSET Nat
    OBVIOUS
<1>3. \A m \in T : b - m \in left
    BY <1>1
<1>4. left # {}
    BY <1>3
<1>5. PICK d \in left : \A x \in left : d <= x
    BY <1>2, <1>4, SmallestNumber
<1>6. b - d \in T /\ d \in Nat
    BY <1>5
<1>7. \A n \in T : d <= b - n
    BY <1>3, <1>5
<1>8. \A n \in T : n <= b - d
    BY <1>1, <1>6, <1>7
<1>. QED
    BY <1>6, <1>8

(* The ranks of n numbers are 1..n.                                        *)
LEMMA Ranks ==
    ASSUME NEW n \in Nat, NEW taken \in SUBSET (1..n)
    PROVE  /\ Cardinality(taken) \in 0..n
           /\ \A i \in taken : Rank(taken, i) \in 1..Cardinality(taken)
           /\ \A r \in 1..Cardinality(taken) : \E i \in taken : Rank(taken, i) = r
<1>. DEFINE Upto(i) == {j \in taken : j <= i}
<1>1. IsFiniteSet(1..n) /\ Cardinality(1..n) = n
    BY FS_Interval
<1>2. IsFiniteSet(taken) /\ Cardinality(taken) <= n
    BY <1>1, FS_Subset
<1>3. PICK c \in Nat : c = Cardinality(taken)
    BY <1>2, FS_CardinalityType
<1>4. ASSUME NEW i \in taken
      PROVE  IsFiniteSet(Upto(i)) /\ Cardinality(Upto(i)) \in 1..c
    <2>1. Upto(i) \in SUBSET taken /\ i \in Upto(i)
        OBVIOUS
    <2>2. IsFiniteSet(Upto(i)) /\ Cardinality(Upto(i)) <= c
        BY <1>2, <1>3, <2>1, FS_Subset
    <2>3. Cardinality(Upto(i)) \in Nat /\ Cardinality(Upto(i)) # 0
        BY <2>1, <2>2, FS_CardinalityType, FS_EmptySet
    <2>. QED
        BY <2>2, <2>3
<1>5. ASSUME NEW i \in taken, NEW j \in taken, i < j
      PROVE  Cardinality(Upto(i)) # Cardinality(Upto(j))
    <2>1. Upto(i) \in SUBSET Upto(j) /\ j \in Upto(j) /\ j \notin Upto(i)
        <3>1. i \in Nat /\ j \in Nat /\ \A k \in taken : k \in Nat
            OBVIOUS
        <3>2. ~(j <= i) /\ j <= j /\ \A k \in taken : k <= i => k <= j
            BY <3>1, <1>5
        <3>. QED
            BY <3>2
    <2>. HIDE DEF Upto
    <2>. QED
        BY <2>1, <1>4, FS_Subset
<1>6. PICK f : f = [i \in taken |-> Rank(taken, i)]
    OBVIOUS
<1>7. \A i \in taken : f[i] = Cardinality(Upto(i))
    BY <1>6 DEF Rank
<1>8. \A i, j \in taken : i # j => i < j \/ j < i
    OBVIOUS
<1>. HIDE DEF Upto
<1>9. f \in [taken -> 1..c]
    BY <1>4, <1>6, <1>7
<1>10. \A i, j \in taken : f[i] = f[j] => i = j
    BY <1>5, <1>7, <1>8
<1>11. f \in Injection(taken, 1..c)
    BY <1>9, <1>10 DEF Injection, IsInjective
<1>12. IsFiniteSet(1..c) /\ Cardinality(1..c) = c
    BY FS_Interval
<1>13. f \in Surjection(taken, 1..c)
    BY <1>3, <1>11, <1>12, FS_Injection
<1>14. \A r \in 1..c : \E i \in taken : f[i] = r
    BY <1>13 DEF Surjection
<1>. QED
    BY <1>2, <1>3, <1>6, <1>9, <1>14

-----------------------------------------------------------------------------
(* The type of a store, taken apart and put together                       *)

LEMMA StoreFields ==
    ASSUME NEW S, NEW K, NEW H, NEW M, NEW st \in Stores(S, K, H, M)
    PROVE  /\ DOMAIN st.sessions \subseteq H
           /\ \A u \in DOMAIN st.sessions : st.sessions[u] \in S
           /\ st.sessions \in UNION {[T -> S] : T \in SUBSET H}
           /\ st.id_to_token \in [Accounts -> H \union {NoToken}]
           /\ st.expecting \in Seq(ExpectClientInfo(K, H))
           /\ st.waiting \in Seq(WaitingSession(H, M))
           /\ st.active \subseteq H
           /\ st = [sessions |-> st.sessions, id_to_token |-> st.id_to_token,
                    expecting |-> st.expecting, waiting |-> st.waiting,
                    active |-> st.active]
<1>1. st.sessions \in UNION {[T -> S] : T \in SUBSET H}
    BY DEF Stores
<1>2. PICK T \in SUBSET H : st.sessions \in [T -> S]
    BY <1>1
<1>. QED
    BY <1>1, <1>2 DEF Stores

LEMMA SessionsType ==
    ASSUME NEW S, NEW H, NEW T, T \subseteq H, NEW f \in [T -> S]
    PROVE  f \in UNION {[U -> S] : U \in SUBSET H}
OBVIOUS

LEMMA LastMarkType ==
    ASSUME NEW st, NEW H, NEW M, st.waiting \in Seq(WaitingSession(H, M))
    PROVE  LastMark(st) \in Nat
<1>. DEFINE marks == {e.since : e \in ToSet(st.waiting)}
<1>1. PICK w : w = st.waiting
    OBVIOUS
<1>2. PICK E : E = WaitingSession(H, M)
    OBVIOUS
<1>3. w \in Seq(E)
    BY <1>1, <1>2
<1>4. PICK n \in Nat : n = Len(w)
    BY <1>3
<1>5. \A i \in 1..n : w[i] \in E
    BY <1>3, <1>4
<1>6. \A e \in E : e.since \in Nat
    BY <1>2 DEF WaitingSession
<1>7. PICK f : f = [i \in 1..n |-> w[i].since]
    OBVIOUS
<1>8. f \in [1..n -> Nat]
    BY ONLY <1>5, <1>6, <1>7
<1>9. PICK b \in Nat : \A i \in 1..n : f[i] <= b
    BY <1>8, Bounded
<1>10. \A m \in marks : \E i \in 1..n : m = f[i]
    BY <1>1, <1>3, <1>4, <1>7 DEF ToSet
<1>11. marks \in SUBSET Nat /\ \A m \in marks : m <= b
    BY <1>8, <1>9, <1>10
<1>12. ASSUME marks # {} PROVE \E m \in marks : \A k \in marks : k <= m
    BY <1>11, <1>12, LargestNumber
<1>. QED
    BY <1>11, <1>12 DEF LastMark

(* A store with one field replaced                                         *)
LEMMA StoreUpdates ==
    ASSUME NEW S, NEW K, NEW H, NEW M, NEW st \in Stores(S, K, H, M)
    PROVE  /\ \A f \in UNION {[T -> S] : T \in SUBSET H} :
                 /\ [st EXCEPT !.sessions = f] \in Stores(S, K, H, M)
                 /\ [st EXCEPT !.sessions = f].sessions = f
           /\ \A f \in [Accounts -> H \union {NoToken}] :
                 /\ [st EXCEPT !.id_to_token = f] \in Stores(S, K, H, M)
                 /\ [st EXCEPT !.id_to_token = f].sessions = st.sessions
           /\ \A x \in Seq(ExpectClientInfo(K, H)) :
                 /\ [st EXCEPT !.expecting = x] \in Stores(S, K, H, M)
                 /\ [st EXCEPT !.expecting = x].sessions = st.sessions
           /\ \A w \in Seq(WaitingSession(H, M)) :
                 /\ [st EXCEPT !.waiting = w] \in Stores(S, K, H, M)
                 /\ [st EXCEPT !.waiting = w].sessions = st.sessions
           /\ \A a \in SUBSET H :
                 /\ [st EXCEPT !.active = a] \in Stores(S, K, H, M)
                 /\ [st EXCEPT !.active = a].sessions = st.sessions
<1>. DEFINE Ss == UNION {[T -> S] : T \in SUBSET H}
            Es == Seq(ExpectClientInfo(K, H))
            Ws == Seq(WaitingSession(H, M))
            Is == [Accounts -> H \union {NoToken}]
<1>1. Stores(S, K, H, M) =
        [sessions : Ss, id_to_token : Is, expecting : Es, waiting : Ws, active : SUBSET H]
    BY DEF Stores
<1>. HIDE DEF Ss, Es, Ws, Is
<1>2. st \in [sessions : Ss, id_to_token : Is, expecting : Es, waiting : Ws,
              active : SUBSET H]
    BY <1>1
<1>3. \A f \in Ss : /\ [st EXCEPT !.sessions = f] \in Stores(S, K, H, M)
                    /\ [st EXCEPT !.sessions = f].sessions = f
    BY <1>1, <1>2
<1>4. \A f \in Is : /\ [st EXCEPT !.id_to_token = f] \in Stores(S, K, H, M)
                    /\ [st EXCEPT !.id_to_token = f].sessions = st.sessions
    BY <1>1, <1>2
<1>5. \A x \in Es : /\ [st EXCEPT !.expecting = x] \in Stores(S, K, H, M)
                    /\ [st EXCEPT !.expecting = x].sessions = st.sessions
    BY <1>1, <1>2
<1>6. \A w \in Ws : /\ [st EXCEPT !.waiting = w] \in Stores(S, K, H, M)
                    /\ [st EXCEPT !.waiting = w].sessions = st.sessions
    BY <1>1, <1>2
<1>7. \A a \in SUBSET H : /\ [st EXCEPT !.active = a] \in Stores(S, K, H, M)
                          /\ [st EXCEPT !.active = a].sessions = st.sessions
    BY <1>1, <1>2
<1>. QED
    BY <1>3, <1>4, <1>5, <1>6, <1>7 DEF Ss, Es, Ws, Is

-----------------------------------------------------------------------------
(* The operations                                                          *)

(* One session changes; the store holds the same ones.                     *)
Amend(st, t, s) == [st EXCEPT !.sessions = [st.sessions EXCEPT ![t] = s]]

LEMMA AmendType ==
    ASSUME NEW S, NEW K, NEW H, NEW M, NEW st \in Stores(S, K, H, M),
           NEW t, NEW s \in S
    PROVE  /\ Amend(st, t, s) \in Stores(S, K, H, M)
           /\ Amend(st, t, s).sessions = [st.sessions EXCEPT ![t] = s]
<1>1. PICK T \in SUBSET H : st.sessions \in [T -> S]
    BY StoreFields
<1>2. PICK f : f = [st.sessions EXCEPT ![t] = s]
    OBVIOUS
<1>3. f \in [T -> S]
    BY <1>1, <1>2
<1>4. Amend(st, t, s) = [st EXCEPT !.sessions = f]
    BY <1>2 DEF Amend
<1>. QED
    BY <1>1, <1>2, <1>3, <1>4, SessionsType, StoreUpdates

(* A session that is not held does not change.                             *)
LEMMA AmendNothing ==
    ASSUME NEW S, NEW K, NEW H, NEW M, NEW st \in Stores(S, K, H, M),
           NEW t, t \notin DOMAIN st.sessions, NEW s
    PROVE  Amend(st, t, s) = st
<1>1. PICK T \in SUBSET H : st.sessions \in [T -> S]
    BY StoreFields
<1>2. PICK f : f = st.sessions
    OBVIOUS
<1>3. [f EXCEPT ![t] = s] = f
    BY <1>1, <1>2
<1>4. Amend(st, t, s) = [st EXCEPT !.sessions = f]
    BY <1>2, <1>3 DEF Amend
<1>. QED
    BY <1>2, <1>4, StoreFields

LEMMA WithSessionType ==
    ASSUME NEW S, NEW K, NEW H, NEW M, NEW st \in Stores(S, K, H, M),
           NEW t \in H, NEW s \in S
    PROVE  /\ WithSession(st, t, s) \in Stores(S, K, H, M)
           /\ DOMAIN WithSession(st, t, s).sessions = DOMAIN st.sessions \union {t}
           /\ WithSession(st, t, s).sessions[t] = s
           /\ \A u \in DOMAIN st.sessions \ {t} :
                 WithSession(st, t, s).sessions[u] = st.sessions[u]
<1>1. PICK g : g = st.sessions
    OBVIOUS
<1>2. PICK f : f = [u \in DOMAIN g \union {t} |-> IF u = t THEN s ELSE g[u]]
    OBVIOUS
<1>3. /\ DOMAIN f = DOMAIN g \union {t}
      /\ f[t] = s
      /\ \A u \in DOMAIN g \ {t} : f[u] = g[u]
    BY <1>2
<1>4. DOMAIN g \subseteq H /\ \A u \in DOMAIN g : g[u] \in S
    BY <1>1, StoreFields
<1>5. f \in [DOMAIN f -> S]
    BY <1>2, <1>4
<1>6. DOMAIN f \subseteq H
    BY <1>3, <1>4
<1>7. f \in UNION {[T -> S] : T \in SUBSET H}
    BY <1>5, <1>6, SessionsType
<1>8. WithSession(st, t, s) = [st EXCEPT !.sessions = f]
    BY <1>1, <1>2 DEF WithSession
<1>. QED
    BY <1>1, <1>3, <1>7, <1>8, StoreUpdates

LEMMA MarkType ==
    ASSUME NEW S, NEW K, NEW H, NEW M, NEW st \in Stores(S, K, H, M),
           NEW t \in H, NEW m \in M
    PROVE  /\ mark_session_for_reaping(st, t, m) \in Stores(S, K, H, M)
           /\ mark_session_for_reaping(st, t, m).sessions = st.sessions
<1>1. st.waiting \in Seq(WaitingSession(H, M))
    BY StoreFields
<1>2. PICK k \in Nat : k = LastMark(st)
    BY <1>1, LastMarkType
<1>3. [session |-> t, token |-> m, since |-> k + 1] \in WaitingSession(H, M)
    BY DEF WaitingSession
<1>4. PICK w : w = Append(st.waiting, [session |-> t, token |-> m, since |-> k + 1])
    OBVIOUS
<1>5. w \in Seq(WaitingSession(H, M))
    BY <1>1, <1>3, <1>4
<1>6. mark_session_for_reaping(st, t, m) = [st EXCEPT !.waiting = w]
    BY <1>2, <1>4 DEF mark_session_for_reaping
<1>. QED
    BY <1>5, <1>6, StoreUpdates

LEMMA UnmarkType ==
    ASSUME NEW S, NEW K, NEW H, NEW M, NEW st \in Stores(S, K, H, M), NEW t
    PROVE  /\ unmark_session_for_reaping(st, t) \in Stores(S, K, H, M)
           /\ unmark_session_for_reaping(st, t).sessions = st.sessions
<1>. DEFINE found == {i \in DOMAIN st.waiting : st.waiting[i].session = t}
<1>1. st.waiting \in Seq(WaitingSession(H, M))
    BY StoreFields
<1>2. found \subseteq DOMAIN st.waiting
    OBVIOUS
<1>3. SwapFirst(st.waiting, found) \in Seq(WaitingSession(H, M))
    BY <1>1, <1>2, SwapFirstType
<1>4. unmark_session_for_reaping(st, t) = [st EXCEPT !.waiting = SwapFirst(st.waiting, found)]
    BY DEF unmark_session_for_reaping
<1>. QED
    BY <1>3, <1>4, StoreUpdates

LEMMA InactiveType ==
    ASSUME NEW S, NEW K, NEW H, NEW M, NEW st \in Stores(S, K, H, M), NEW t
    PROVE  /\ remove_from_active_sessions(st, t) \in Stores(S, K, H, M)
           /\ remove_from_active_sessions(st, t).sessions = st.sessions
<1>1. PICK A : A = st.active
    OBVIOUS
<1>2. PICK B \in SUBSET H : B = A \ {t}
    BY <1>1, StoreFields
<1>3. remove_from_active_sessions(st, t) = [st EXCEPT !.active = B]
    BY <1>1, <1>2 DEF remove_from_active_sessions
<1>. QED
    BY <1>3, StoreUpdates

LEMMA ActiveType ==
    ASSUME NEW S, NEW K, NEW H, NEW M, NEW st \in Stores(S, K, H, M), NEW t \in H
    PROVE  /\ add_to_active_sessions(st, t) \in Stores(S, K, H, M)
           /\ add_to_active_sessions(st, t).sessions = st.sessions
<1>1. PICK A : A = st.active
    OBVIOUS
<1>2. PICK B \in SUBSET H : B = A \union {t}
    BY <1>1, StoreFields
<1>3. add_to_active_sessions(st, t) = [st EXCEPT !.active = B]
    BY <1>1, <1>2 DEF add_to_active_sessions
<1>. QED
    BY <1>2, <1>3, StoreUpdates

LEMMA SetTokenType ==
    ASSUME NEW S, NEW K, NEW H, NEW M, NEW st \in Stores(S, K, H, M),
           NEW a, NEW t \in H
    PROVE  /\ setTokenForId(st, a, t) \in Stores(S, K, H, M)
           /\ setTokenForId(st, a, t).sessions = st.sessions
<1>1. PICK f : f = [st.id_to_token EXCEPT ![a] = t]
    OBVIOUS
<1>2. f \in [Accounts -> H \union {NoToken}]
    BY <1>1, StoreFields
<1>3. setTokenForId(st, a, t) = [st EXCEPT !.id_to_token = f]
    BY <1>1 DEF setTokenForId
<1>. QED
    BY <1>2, <1>3, StoreUpdates

LEMMA ExpectType ==
    ASSUME NEW S, NEW K, NEW H, NEW M, NEW st \in Stores(S, K, H, M),
           NEW c \in K, NEW t \in H
    PROVE  /\ expect_client_session(st, c, t) \in Stores(S, K, H, M)
           /\ expect_client_session(st, c, t).sessions = st.sessions
<1>1. [cookie |-> c, token |-> t] \in ExpectClientInfo(K, H)
    BY DEF ExpectClientInfo
<1>2. PICK x : x = Append(st.expecting, [cookie |-> c, token |-> t])
    OBVIOUS
<1>3. x \in Seq(ExpectClientInfo(K, H))
    BY <1>1, <1>2, StoreFields
<1>4. /\ [st EXCEPT !.expecting = x] \in Stores(S, K, H, M)
      /\ [st EXCEPT !.expecting = x].sessions = st.sessions
    BY <1>3, StoreUpdates
<1>5. expect_client_session(st, c, t) \in {st, [st EXCEPT !.expecting = x]}
    BY <1>2 DEF expect_client_session
<1>. QED
    BY <1>4, <1>5

LEMMA ConnectedType ==
    ASSUME NEW S, NEW K, NEW H, NEW M, NEW st \in Stores(S, K, H, M), NEW c
    PROVE  /\ connected_client(st, c) \in Stores(S, K, H, M)
           /\ connected_client(st, c).sessions = st.sessions
           /\ Expected(st, c) \subseteq H
<1>. DEFINE found == {i \in DOMAIN st.expecting : st.expecting[i].cookie = c}
<1>1. st.expecting \in Seq(ExpectClientInfo(K, H))
    BY StoreFields
<1>2. found \subseteq DOMAIN st.expecting
    OBVIOUS
<1>3. SwapFirst(st.expecting, found) \in Seq(ExpectClientInfo(K, H))
    BY <1>1, <1>2, SwapFirstType
<1>4. connected_client(st, c) = [st EXCEPT !.expecting = SwapFirst(st.expecting, found)]
    BY DEF connected_client
<1>5. \A x \in ToSet(st.expecting) : x \in ExpectClientInfo(K, H)
    BY <1>1 DEF ToSet
<1>6. \A x \in ExpectClientInfo(K, H) : x.token \in H
    BY DEF ExpectClientInfo
<1>. QED
    BY <1>3, <1>4, <1>5, <1>6, StoreUpdates DEF Expected

LEMMA RemoveType ==
    ASSUME NEW S, NEW K, NEW H, NEW M, NEW st \in Stores(S, K, H, M),
           NEW t, NEW a
    PROVE  /\ remove_by_token(st, t, a) \in Stores(S, K, H, M)
           /\ remove_by_token(st, t, a).sessions =
                [u \in DOMAIN st.sessions \ {t} |-> st.sessions[u]]
<1>1. PICK f : f = [u \in DOMAIN st.sessions \ {t} |-> st.sessions[u]]
    OBVIOUS
<1>2. PICK g : g = [b \in Accounts |-> IF b = a THEN NoToken ELSE st.id_to_token[b]]
    OBVIOUS
<1>3. DOMAIN f \subseteq H /\ f \in [DOMAIN f -> S]
    BY <1>1, StoreFields
<1>4. f \in UNION {[T -> S] : T \in SUBSET H}
    BY <1>3, SessionsType
<1>5. g \in [Accounts -> H \union {NoToken}]
    BY <1>2, StoreFields
<1>6. PICK mid : mid = [st EXCEPT !.sessions = f]
    OBVIOUS
<1>7. mid \in Stores(S, K, H, M) /\ mid.sessions = f
    BY <1>4, <1>6, StoreUpdates
<1>8. /\ [mid EXCEPT !.id_to_token = g] \in Stores(S, K, H, M)
      /\ [mid EXCEPT !.id_to_token = g].sessions = f
    BY <1>5, <1>7, StoreUpdates
<1>9. remove_by_token(st, t, a) = [mid EXCEPT !.id_to_token = g]
    BY <1>1, <1>2, <1>6, StoreFields DEF remove_by_token
<1>. QED
    BY <1>1, <1>8, <1>9

LEMMA LinkLostType ==
    ASSUME NEW S, NEW K, NEW H, NEW M, NEW st \in Stores(S, K, H, M), NEW t,
           t \in DOMAIN st.sessions, [st.sessions[t] EXCEPT !.link = NoLink] \in S
    PROVE  /\ session_link_lost(st, t) \in Stores(S, K, H, M)
           /\ session_link_lost(st, t).sessions =
                [st.sessions EXCEPT ![t] = [st.sessions[t] EXCEPT !.link = NoLink]]
<1>1. PICK rest : rest = remove_from_active_sessions(st, t)
    OBVIOUS
<1>2. rest \in Stores(S, K, H, M) /\ rest.sessions = st.sessions
    BY <1>1, InactiveType
<1>. DEFINE found == {i \in DOMAIN rest.expecting : rest.expecting[i].token = t}
<1>3. PICK x : x = SwapFirst(rest.expecting, found)
    OBVIOUS
<1>4. x \in Seq(ExpectClientInfo(K, H))
    <2>1. found \subseteq DOMAIN rest.expecting
        OBVIOUS
    <2>2. rest.expecting \in Seq(ExpectClientInfo(K, H))
        BY <1>2, StoreFields
    <2>. HIDE DEF found
    <2>. QED
        BY <1>3, <2>1, <2>2, SwapFirstType
<1>5. PICK mid : mid = [rest EXCEPT !.expecting = x]
    OBVIOUS
<1>6. mid \in Stores(S, K, H, M) /\ mid.sessions = st.sessions
    BY <1>2, <1>4, <1>5, StoreUpdates
<1>7. PICK s : s = [st.sessions[t] EXCEPT !.link = NoLink]
    OBVIOUS
<1>8. /\ Amend(mid, t, s) \in Stores(S, K, H, M)
      /\ Amend(mid, t, s).sessions = [mid.sessions EXCEPT ![t] = s]
    <2>1. s \in S
        BY <1>7
    <2>. QED
        BY <2>1, <1>6, AmendType
<1>9. session_link_lost(st, t) = Amend(mid, t, s)
    <2>1. session_link_lost(st, t) =
            [rest EXCEPT !.expecting = x, !.sessions[t].link = NoLink]
        BY <1>1, <1>3 DEF session_link_lost
    <2>2. PICK f : f = [mid.sessions EXCEPT ![t] = s]
        OBVIOUS
    <2>3. [rest EXCEPT !.expecting = x, !.sessions[t].link = NoLink]
            = [rest EXCEPT !.expecting = x, !.sessions = f]
        BY <1>2, <1>6, <1>7, <2>2
    <2>4. Amend(mid, t, s) = [mid EXCEPT !.sessions = f]
        BY <2>2 DEF Amend
    <2>. QED
        BY <2>1, <2>3, <2>4, <1>2, <1>5, StoreFields
<1>. QED
    BY <1>6, <1>7, <1>8, <1>9

(* A pass of the reaper takes entries from the list, and leaves others.    *)
LEMMA PassEntries ==
    ASSUME NEW E, NEW st, st.waiting \in Seq(E), NEW stale
    PROVE  /\ StaleLinks(st, stale).left \in Seq(E)
           /\ StaleLinks(st, stale).reaped \in Seq(E)
           /\ ToSet(StaleLinks(st, stale).reaped) \subseteq ToSet(st.waiting)
<1>1. PICK w : w = st.waiting
    OBVIOUS
<1>2. PICK n \in Nat : n = Len(w)
    BY <1>1
<1>3. PICK taken : taken = Taken(st, stale)
    OBVIOUS
<1>4. taken \in SUBSET (1..n)
    BY <1>1, <1>2, <1>3 DEF Taken, Stale
<1>5. PICK c \in 0..n : c = Cardinality(taken)
    BY <1>4, Ranks
<1>6. \A i \in 1..n : w[i] \in E
    BY <1>1, <1>2
<1>7. \A i \in 1..(n - c) : (IF i \in taken THEN n + 1 - Rank(taken, i) ELSE i) \in 1..n
    <2>1. \A i \in taken : Rank(taken, i) \in 1..c
        BY <1>4, <1>5, Ranks
    <2>2. \A r \in 1..c : n + 1 - r \in 1..n
        BY <1>5
    <2>3. \A i \in 1..(n - c) : i \in 1..n
        BY <1>5
    <2>. QED
        BY <2>1, <2>2, <2>3
<1>8. PICK left : left = [i \in 1..(n - c) |-> w[IF i \in taken THEN n + 1 - Rank(taken, i) ELSE i]]
    OBVIOUS
<1>9. left \in Seq(E)
    <2>1. n - c \in Nat
        BY <1>5
    <2>2. left \in [1..(n - c) -> E]
        BY <1>6, <1>7, <1>8
    <2>. QED
        BY <2>1, <2>2
<1>10. PICK reaped : reaped = [r \in 1..c |-> w[CHOOSE i \in taken : Rank(taken, i) = r]]
    OBVIOUS
<1>11. \A r \in 1..c : \E i \in 1..n : reaped[r] = w[i]
    <2>1. \A r \in 1..c : (CHOOSE i \in taken : Rank(taken, i) = r) \in taken
        BY <1>4, <1>5, Ranks
    <2>. QED
        BY <2>1, <1>4, <1>10
<1>12. reaped \in Seq(E)
    <2>1. reaped \in [1..c -> E]
        BY <1>6, <1>10, <1>11
    <2>. QED
        BY <2>1
<1>13. ToSet(reaped) \subseteq ToSet(w)
    BY <1>1, <1>2, <1>10, <1>11 DEF ToSet
<1>14. StaleLinks(st, stale) = [left |-> left, reaped |-> reaped]
    BY <1>1, <1>2, <1>3, <1>5, <1>8, <1>10 DEF StaleLinks
<1>. QED
    BY <1>1, <1>9, <1>12, <1>13, <1>14

LEMMA AfterReapingType ==
    ASSUME NEW S, NEW K, NEW H, NEW M, NEW st \in Stores(S, K, H, M),
           NEW pass, pass.left \in Seq(WaitingSession(H, M))
    PROVE  /\ AfterReaping(st, pass) \in Stores(S, K, H, M)
           /\ AfterReaping(st, pass).sessions =
                [u \in DOMAIN st.sessions \ {e.token : e \in ToSet(pass.reaped)}
                    |-> st.sessions[u]]
<1>1. PICK tokens : tokens = {e.token : e \in ToSet(pass.reaped)}
    OBVIOUS
<1>2. PICK ids : ids = {st.sessions[e.session].auth_id : e \in ToSet(pass.reaped)}
    OBVIOUS
<1>3. PICK f : f = [u \in DOMAIN st.sessions \ tokens |-> st.sessions[u]]
    OBVIOUS
<1>4. PICK g : g = [a \in Accounts |-> IF a \in ids THEN NoToken ELSE st.id_to_token[a]]
    OBVIOUS
<1>5. DOMAIN f \subseteq H /\ f \in [DOMAIN f -> S]
    BY <1>3, StoreFields
<1>6. f \in UNION {[T -> S] : T \in SUBSET H}
    BY <1>5, SessionsType
<1>7. g \in [Accounts -> H \union {NoToken}]
    BY <1>4, StoreFields
<1>8. PICK first : first = [st EXCEPT !.waiting = pass.left]
    OBVIOUS
<1>9. first \in Stores(S, K, H, M)
    BY <1>8, StoreUpdates
<1>10. PICK mid : mid = [first EXCEPT !.sessions = f]
    OBVIOUS
<1>11. mid \in Stores(S, K, H, M) /\ mid.sessions = f
    BY <1>6, <1>9, <1>10, StoreUpdates
<1>12. /\ [mid EXCEPT !.id_to_token = g] \in Stores(S, K, H, M)
       /\ [mid EXCEPT !.id_to_token = g].sessions = f
    BY <1>7, <1>11, StoreUpdates
<1>13. AfterReaping(st, pass) = [mid EXCEPT !.id_to_token = g]
    <2>1. AfterReaping(st, pass) = [st EXCEPT !.waiting = pass.left, !.sessions = f,
                                              !.id_to_token = g]
        BY <1>1, <1>2, <1>3, <1>4, Zenon DEF AfterReaping
    <2>. QED
        BY <2>1, <1>8, <1>10, StoreFields
<1>. QED
    BY <1>1, <1>3, <1>12, <1>13

-----------------------------------------------------------------------------
(* The sessions the authentication handler counts as in game               *)
InGame(st) == {t \in DOMAIN st.sessions : st.sessions[t].in_game}

-----------------------------------------------------------------------------
(* Events and links                                                        *)

LEMMA HeldFacts == /\ Held = 1..MaxSessions
                   /\ NoToken \in Token
                   /\ NoToken \notin Held
                   /\ Held \subseteq Token
BY HandoverAssumption DEF Held, Token, NoToken

LEMMA AuthEvents ==
    /\ \A c \in Clients, type \in {"Connect", "LoginRequest", "ServerListRequest",
                                    "ServerSelectRequest"} :
          [type |-> type, link |-> c] \in AuthEvent
    /\ \A t \in Token : [type |-> "Disconnect", token |-> t] \in AuthEvent
    /\ \A t \in Held, a \in Accounts \union {NoAccount} :
          [type |-> "RetrieveAccountResponse", token |-> t, account |-> a] \in AuthEvent
    /\ \A t \in Held, type \in {"ExpectClientResponse", "AuthDbStatusMessage",
                                 "ClientConnectedMessage", "ClientDisconnectedMessage"} :
          [type |-> type, token |-> t] \in AuthEvent
BY DEF AuthEvent

LEMMA AuthEventFields ==
    ASSUME NEW ev \in AuthEvent
    PROVE  /\ ev.type \in {"Connect", "LoginRequest", "ServerListRequest",
                           "ServerSelectRequest"} => ev.link \in Clients
           /\ ev.type = "Disconnect" => ev.token \in Token
           /\ ev.type = "RetrieveAccountResponse" =>
                 ev.token \in Held /\ ev.account \in Accounts \union {NoAccount}
           /\ ev.type \in {"ExpectClientResponse", "AuthDbStatusMessage",
                           "ClientConnectedMessage", "ClientDisconnectedMessage"} =>
                 ev.token \in Held /\ ev = [type |-> ev.type, token |-> ev.token]
BY DEF AuthEvent

LEMMA GameEvents ==
    /\ \A c \in Clients, type \in {"UpdateServer", "MapServerAddrRequest", "Disconnect"} :
          [type |-> type, link |-> c] \in GameEvent
    /\ \A t \in Held, a \in Accounts \union {NoAccount}, c \in Clients :
          [type |-> "ExpectClientRequest", token |-> t, account |-> a, from |-> c]
             \in GameEvent
    /\ \A t \in Held, type \in {"GameAccountResponse", "GameDbErrorMessage",
                                 "ExpectMapClientResponse", "ClientConnectedMessage",
                                 "ClientDisconnectedMessage"} :
          [type |-> type, token |-> t] \in GameEvent
BY DEF GameEvent

LEMMA GameEventFields ==
    ASSUME NEW ev \in GameEvent
    PROVE  /\ ev.type \in {"UpdateServer", "MapServerAddrRequest", "Disconnect"} =>
                 ev.link \in Clients
           /\ ev.type = "ExpectClientRequest" =>
                 /\ ev.token \in Held
                 /\ ev.account \in Accounts \union {NoAccount}
                 /\ ev.from \in Clients
           /\ ev.type \in {"GameAccountResponse", "GameDbErrorMessage",
                           "ExpectMapClientResponse", "ClientConnectedMessage",
                           "ClientDisconnectedMessage"} => ev.token \in Held
BY DEF GameEvent

LEMMA QueueOps ==
    ASSUME NEW E, NEW q \in Seq(E)
    PROVE  /\ \A ev \in E : Append(q, ev) \in Seq(E)
           /\ q # << >> => Head(q) \in E /\ Tail(q) \in Seq(E)
OBVIOUS

LEMMA AuthLinkUpdates ==
    ASSUME NEW ls \in [Clients -> AuthLinks], NEW c
    PROVE  /\ \A s \in AuthStages : [ls EXCEPT ![c].stage = s] \in [Clients -> AuthLinks]
           /\ \A b \in BOOLEAN :
                 /\ [ls EXCEPT ![c].up = b] \in [Clients -> AuthLinks]
                 /\ [ls EXCEPT ![c].finish = b] \in [Clients -> AuthLinks]
                 /\ [ls EXCEPT ![c].asked = b] \in [Clients -> AuthLinks]
                 /\ [ls EXCEPT ![c].refused = b] \in [Clients -> AuthLinks]
           /\ \A t \in Token : [ls EXCEPT ![c].token = t] \in [Clients -> AuthLinks]
<1>1. \A s \in AuthStages : [ls EXCEPT ![c].stage = s] \in [Clients -> AuthLinks]
    BY DEF AuthLinks
<1>2. \A b \in BOOLEAN : /\ [ls EXCEPT ![c].up = b] \in [Clients -> AuthLinks]
                         /\ [ls EXCEPT ![c].finish = b] \in [Clients -> AuthLinks]
    BY DEF AuthLinks
<1>3. \A b \in BOOLEAN : /\ [ls EXCEPT ![c].asked = b] \in [Clients -> AuthLinks]
                         /\ [ls EXCEPT ![c].refused = b] \in [Clients -> AuthLinks]
    BY DEF AuthLinks
<1>4. \A t \in Token : [ls EXCEPT ![c].token = t] \in [Clients -> AuthLinks]
    BY DEF AuthLinks
<1>. QED
    BY <1>1, <1>2, <1>3, <1>4

LEMMA Joined ==
    ASSUME NEW E, NEW a \in Seq(E), NEW b \in Seq(E)
    PROVE  /\ a \o b \in Seq(E)
           /\ Len(a \o b) = Len(a) + Len(b)
           /\ \A i \in 1..Len(a) : (a \o b)[i] = a[i]
           /\ \A i \in (Len(a) + 1)..(Len(a) + Len(b)) : (a \o b)[i] = b[i - Len(a)]
OBVIOUS

(* u is the n entries of a, then ev, then the m - n entries of b.          *)
Between(u, a, ev, b, n, m) ==
    /\ Len(u) = m + 1
    /\ u[n + 1] = ev
    /\ \A i \in 1..n : u[i] = a[i]
    /\ \A i \in (n + 2)..(m + 1) : u[i] = b[i - (n + 1)]

LEMMA Insertion ==
    ASSUME NEW E, NEW a \in Seq(E), NEW b \in Seq(E), NEW ev \in E,
           NEW n \in Nat, n = Len(a), NEW m \in Nat, Len(b) = m - n,
           NEW u, u = a \o <<ev>> \o b
    PROVE  u \in Seq(E) /\ Between(u, a, ev, b, n, m)
<1>1. PICK x \in Seq(E) : x = a \o <<ev>>
    <2>1. <<ev>> \in Seq(E)
        OBVIOUS
    <2>2. a \o <<ev>> \in Seq(E)
        BY <2>1
    <2>. QED
        BY <2>2
<1>2. /\ Len(x) = n + 1
      /\ x[n + 1] = ev
      /\ \A i \in 1..n : x[i] = a[i]
    BY <1>1
<1>3. u = x \o b
    BY <1>1
<1>4. /\ u \in Seq(E) /\ Len(u) = m + 1
      /\ \A i \in 1..(n + 1) : u[i] = x[i]
      /\ \A i \in (n + 2)..(m + 1) : u[i] = b[i - (n + 1)]
    <2>1. /\ u \in Seq(E) /\ Len(u) = Len(x) + Len(b)
          /\ \A i \in 1..Len(x) : u[i] = x[i]
          /\ \A i \in (Len(x) + 1)..(Len(x) + Len(b)) : u[i] = b[i - Len(x)]
        <3>1. /\ x \o b \in Seq(E) /\ Len(x \o b) = Len(x) + Len(b)
              /\ \A i \in 1..Len(x) : (x \o b)[i] = x[i]
              /\ \A i \in (Len(x) + 1)..(Len(x) + Len(b)) : (x \o b)[i] = b[i - Len(x)]
            BY ONLY x \in Seq(E), b \in Seq(E)
        <3>. QED
            BY <3>1, <1>3, Zenon
    <2>2. Len(x) + Len(b) = m + 1 /\ Len(x) + 1 = n + 2
        BY <1>2
    <2>. QED
        BY <1>2, <2>1, <2>2
<1>. QED
    BY <1>2, <1>4 DEF Between

(* u is q with ev put in somewhere; the others keep their order.           *)
Inserts(u, q, ev) ==
    \E n \in 0..Len(q) :
       /\ Len(u) = Len(q) + 1
       /\ u[n + 1] = ev
       /\ \A i \in 1..n : u[i] = q[i]
       /\ \A i \in (n + 1)..Len(q) : u[i + 1] = q[i]

LEMMA UrgentlyInserts ==
    ASSUME NEW E, NEW q \in Seq(E), NEW ev \in E
    PROVE  Urgently(q, ev) \in Seq(E) /\ Inserts(Urgently(q, ev), q, ev)
<1>. DEFINE front == {i \in DOMAIN q : \A j \in 1..i : q[j].type = "Disconnect"}
<1>1. PICK len \in Nat : len = Len(q)
    OBVIOUS
<1>2. IsFiniteSet(1..len) /\ Cardinality(1..len) = len
    BY FS_Interval
<1>3. front \in SUBSET (1..len)
    BY <1>1
<1>. HIDE DEF front
<1>4. Cardinality(front) \in 0..len
    <2>1. IsFiniteSet(front) /\ Cardinality(front) <= len
        BY <1>2, <1>3, FS_Subset
    <2>2. Cardinality(front) \in Nat
        BY <2>1, FS_CardinalityType
    <2>. QED
        BY <2>1, <2>2
<1>5. PICK n \in 0..len : n = Cardinality(front)
    BY <1>4
<1>6. PICK u : u = SubSeq(q, 1, n) \o <<ev>> \o SubSeq(q, n + 1, len)
    OBVIOUS
<1>7. Urgently(q, ev) = u
    <2>1. Urgently(q, ev) = InsertAt(q, n + 1, ev)
        BY <1>5 DEF Urgently, front
    <2>2. (n + 1) - 1 = n
        OBVIOUS
    <2>. QED
        <3>1. InsertAt(q, n + 1, ev) =
                SubSeq(q, 1, (n + 1) - 1) \o <<ev>> \o SubSeq(q, n + 1, Len(q))
            BY DEF InsertAt
        <3>. QED
            BY <3>1, <2>1, <2>2, <1>1, <1>6, Zenon
<1>8. /\ SubSeq(q, 1, n) \in Seq(E) /\ Len(SubSeq(q, 1, n)) = n
      /\ \A i \in 1..n : SubSeq(q, 1, n)[i] = q[i]
    BY <1>1
<1>9. /\ SubSeq(q, n + 1, len) \in Seq(E) /\ Len(SubSeq(q, n + 1, len)) = len - n
      /\ \A i \in 1..(len - n) : SubSeq(q, n + 1, len)[i] = q[n + i]
    BY <1>1
<1>10. PICK a \in Seq(E) : a = SubSeq(q, 1, n)
    BY <1>8
<1>11. PICK b \in Seq(E) : b = SubSeq(q, n + 1, len)
    BY <1>9
<1>12. /\ u \in Seq(E) /\ Len(u) = len + 1
       /\ u[n + 1] = ev
       /\ \A i \in 1..n : u[i] = a[i]
       /\ \A i \in (n + 2)..(len + 1) : u[i] = b[i - (n + 1)]
    <2>1. n = Len(a) /\ Len(b) = len - n /\ u = a \o <<ev>> \o b
        BY <1>6, <1>8, <1>9, <1>10, <1>11
    <2>. QED
        <3>1. u \in Seq(E) /\ Between(u, a, ev, b, n, len)
            BY ONLY <2>1, Insertion, ev \in E, n \in Nat, len \in Nat, a \in Seq(E), b \in Seq(E)
        <3>. QED
            BY <3>1, Zenon DEF Between
<1>13. \A i \in (n + 1)..len : u[i + 1] = q[i]
    <2>1. \A i \in (n + 1)..len : /\ i + 1 \in (n + 2)..(len + 1)
                                 /\ i + 1 - (n + 1) = i - n
                                 /\ i - n \in 1..(len - n)
                                 /\ n + (i - n) = i
        OBVIOUS
    <2>2. \A i \in (n + 1)..len : u[i + 1] = b[i - n]
        BY <2>1, <1>12
    <2>. QED
        BY <2>1, <2>2, <1>9, <1>11
<1>14. \A i \in 1..n : u[i] = q[i]
    BY <1>8, <1>10, <1>12
<1>15. Inserts(u, q, ev)
    BY <1>1, <1>12, <1>13, <1>14, Zenon DEF Inserts
<1>. QED
    BY <1>7, <1>12, <1>15, Zenon

-----------------------------------------------------------------------------
(* The authentication links and the account database                       *)

LEMMA LinkOpenTypes ==
    ASSUME AuthTypeOK, NEW c \in Clients, LinkOpen(c)
    PROVE  AuthTypeOK'
<1>1. alink' \in [Clients -> AuthLinks]
    <2>1. PICK ls : ls = [alink EXCEPT ![c].stage = "INITIAL"]
        OBVIOUS
    <2>2. PICK ms : ms = [ls EXCEPT ![c].up = TRUE]
        OBVIOUS
    <2>3. ls \in [Clients -> AuthLinks]
        BY <2>1, AuthLinkUpdates DEF AuthTypeOK, AuthStages
    <2>4. ms \in [Clients -> AuthLinks]
        BY <2>2, <2>3, AuthLinkUpdates
    <2>5. alink' = [ms EXCEPT ![c].asked = TRUE]
        BY <2>1, <2>2 DEF LinkOpen, AuthTypeOK
    <2>. QED
        BY <2>4, <2>5, AuthLinkUpdates
<1>2. authq' \in Seq(AuthEvent)
    BY AuthEvents, QueueOps DEF LinkOpen, AuthTypeOK
<1>. QED
    BY <1>1, <1>2 DEF LinkOpen, AuthTypeOK

(* What a client asks: what it should, or, once it is logged in, anything. *)
ClientInput(c, type) ==
    /\ type \in Requested
    /\ type = Request(alink[c].stage) \/ alink[c].token # NoToken
    /\ LinkInput(c, type)
    /\ ClientAsks(c)

Inputs(c) == \E type \in Requested : ClientInput(c, type)

LEMMA AskedInput ==
    ASSUME NEW c, Asks(c)
    PROVE  Inputs(c) /\ UNCHANGED <<gameOnly, gone, failed>>
BY DEF Asks, Inputs, ClientInput

LEMMA LinkInputTypes ==
    ASSUME AuthTypeOK, NEW c \in Clients, NEW type, ClientInput(c, type)
    PROVE  AuthTypeOK'
<1>1. alink' \in [Clients -> AuthLinks]
    BY AuthLinkUpdates DEF ClientInput, ClientAsks, AuthTypeOK
<1>2. [type |-> type, link |-> c] \in AuthEvent
    BY AuthEvents DEF ClientInput, Requested
<1>3. authq' \in Seq(AuthEvent)
    BY <1>2, QueueOps DEF ClientInput, LinkInput, AuthTypeOK
<1>. QED
    BY <1>1, <1>3 DEF ClientInput, LinkInput, AuthTypeOK

LEMMA DisconnectedTypes ==
    ASSUME AuthTypeOK, NEW c \in Clients, Disconnected(c)
    PROVE  authq' \in Seq(AuthEvent)
<1>1. alink[c].token \in Token
    BY DEF AuthTypeOK, AuthLinks
<1>2. [type |-> "Disconnect", token |-> alink[c].token] \in AuthEvent
    BY <1>1, AuthEvents
<1>. QED
    BY <1>2, UrgentlyInserts DEF Disconnected, AuthTypeOK

LEMMA LinkCloseTypes ==
    ASSUME AuthTypeOK, NEW c \in Clients, LinkClose(c)
    PROVE  AuthTypeOK'
<1>1. alink' \in [Clients -> AuthLinks]
    BY AuthLinkUpdates DEF LinkClose, AuthTypeOK
<1>. QED
    BY <1>1, DisconnectedTypes DEF LinkClose, AuthTypeOK

LEMMA LinkFinishTypes ==
    ASSUME AuthTypeOK, NEW c \in Clients, LinkFinish(c)
    PROVE  AuthTypeOK'
<1>1. PICK up \in {FALSE, alink[c].up} :
         alink' = [alink EXCEPT ![c].finish = FALSE, ![c].up = up]
    BY DEF LinkFinish
<1>2. up \in BOOLEAN
    BY DEF AuthTypeOK, AuthLinks
<1>3. PICK ls : ls = [alink EXCEPT ![c].finish = FALSE]
    OBVIOUS
<1>4. ls \in [Clients -> AuthLinks]
    BY <1>3, AuthLinkUpdates DEF AuthTypeOK
<1>5. alink' = [ls EXCEPT ![c].up = up]
    BY <1>1, <1>3 DEF AuthTypeOK
<1>6. alink' \in [Clients -> AuthLinks]
    BY <1>2, <1>4, <1>5, AuthLinkUpdates
<1>. QED
    BY <1>6, DisconnectedTypes DEF LinkFinish, AuthTypeOK

LEMMA AuthDbTypes ==
    ASSUME AuthTypeOK, RetrieveAccount \/ AuthDbFails
    PROVE  AuthTypeOK'
<1>1. authdb # << >> /\ authdb \in Seq(Held)
    BY DEF AuthTypeOK, RetrieveAccount, AuthDbFails
<1>2. Head(authdb) \in Held /\ Tail(authdb) \in Seq(Held)
    BY <1>1
<1>3. CASE RetrieveAccount
    <2>1. authq' \in Seq(AuthEvent)
        BY <1>2, <1>3, AuthEvents, QueueOps DEF RetrieveAccount, AuthTypeOK
    <2>. QED
        BY <2>1, <1>2, <1>3 DEF RetrieveAccount, AuthTypeOK
<1>4. CASE AuthDbFails
    <2>1. authq' \in Seq(AuthEvent)
        BY <1>2, <1>4, AuthEvents, QueueOps DEF AuthDbFails, AuthTypeOK
    <2>. QED
        BY <2>1, <1>2, <1>4 DEF AuthDbFails, AuthTypeOK
<1>. QED
    BY <1>3, <1>4

-----------------------------------------------------------------------------
(* The game links, the game database and the map server                    *)

LEMMA GameLinkUpdates ==
    ASSUME NEW ls \in [Clients -> GameLinks], NEW c
    PROVE  /\ \A s \in GameLinkStates : [ls EXCEPT ![c].at = s] \in [Clients -> GameLinks]
           /\ \A t \in Token : [ls EXCEPT ![c].token = t] \in [Clients -> GameLinks]
BY DEF GameLinks

LEMMA GameClientTypes ==
    ASSUME GameTypeOK, NEW c \in Clients,
           SendUpdateServer(c) \/ SendMapRequest(c) \/ LeaveGame(c)
    PROVE  GameTypeOK'
<1>1. CASE SendUpdateServer(c)
    <2>1. glink' \in [Clients -> GameLinks]
        BY <1>1, GameLinkUpdates DEF SendUpdateServer, GameTypeOK, GameLinkStates
    <2>2. gameq' \in Seq(GameEvent)
        BY <1>1, GameEvents, QueueOps DEF SendUpdateServer, PostGame, GameTypeOK
    <2>. QED
        BY <1>1, <2>1, <2>2 DEF SendUpdateServer, GameTypeOK
<1>2. CASE SendMapRequest(c)
    <2>1. glink' \in [Clients -> GameLinks]
        BY <1>2, GameLinkUpdates DEF SendMapRequest, GameTypeOK, GameLinkStates
    <2>2. gameq' \in Seq(GameEvent)
        BY <1>2, GameEvents, QueueOps DEF SendMapRequest, PostGame, GameTypeOK
    <2>. QED
        BY <1>2, <2>1, <2>2 DEF SendMapRequest, GameTypeOK
<1>3. CASE LeaveGame(c)
    <2>1. PICK s \in {"to map", "closed"} : glink' = [glink EXCEPT ![c].at = s]
        BY <1>3 DEF LeaveGame
    <2>2. glink' \in [Clients -> GameLinks]
        BY <2>1, GameLinkUpdates DEF GameTypeOK, GameLinkStates
    <2>3. gameq' \in Seq(GameEvent)
        BY <1>3, GameEvents, QueueOps DEF LeaveGame, PostGame, GameTypeOK
    <2>. QED
        BY <1>3, <2>2, <2>3 DEF LeaveGame, GameTypeOK
<1>. QED
    BY <1>1, <1>2, <1>3

LEMMA MapEnteredTypes ==
    ASSUME GameTypeOK, NEW c \in Clients, MapEntered(c)
    PROVE  GameTypeOK'
<1>1. glink[c].token \in Held
    BY DEF GameTypeOK, GameLinks, MapEntered, Held
<1>2. map' \in [Held -> MapStates]
    BY DEF GameTypeOK, MapEntered, MapStates
<1>3. PICK s \in {"on map", glink[c].at} : glink' = [glink EXCEPT ![c].at = s]
    BY DEF MapEntered
<1>4. s \in GameLinkStates
    BY DEF GameTypeOK, GameLinks, GameLinkStates
<1>5. glink' \in [Clients -> GameLinks]
    BY <1>3, <1>4, GameLinkUpdates DEF GameTypeOK
<1>6. gameq' \in Seq(GameEvent)
    BY <1>1, GameEvents, QueueOps DEF MapEntered, PostGame, GameTypeOK
<1>. QED
    BY <1>2, <1>5, <1>6 DEF MapEntered, GameTypeOK

LEMMA MapStepTypes ==
    ASSUME GameTypeOK, NEW t \in Held, MapExpects(t) \/ MapLeft(t)
    PROVE  GameTypeOK'
<1>1. map' \in [Held -> MapStates]
    BY DEF GameTypeOK, MapExpects, MapLeft, MapStates
<1>2. gameq' \in Seq(GameEvent)
    <2>1. PICK type \in {"ExpectMapClientResponse", "ClientDisconnectedMessage"} :
             gameq' = Append(gameq, [type |-> type, token |-> t])
        BY DEF MapExpects, MapLeft, PostGame
    <2>2. [type |-> type, token |-> t] \in GameEvent
        BY GameEvents
    <2>. QED
        BY <2>1, <2>2, QueueOps DEF GameTypeOK
<1>3. glink' \in [Clients -> GameLinks]
    <2>1. CASE MapExpects(t)
        BY <2>1 DEF MapExpects, GameTypeOK
    <2>2. CASE MapLeft(t)
        <3>1. \A c \in Clients : /\ glink[c] \in GameLinks
                                 /\ [glink[c] EXCEPT !.at = "closed"] \in GameLinks
            BY DEF GameTypeOK, GameLinks, GameLinkStates
        <3>. QED
            BY <2>2, <3>1 DEF MapLeft
    <2>. QED
        BY <2>1, <2>2
<1>. QED
    BY <1>1, <1>2, <1>3 DEF MapExpects, MapLeft, GameTypeOK

LEMMA GameDbTypes ==
    ASSUME GameTypeOK, GameAccount \/ GameDbFails
    PROVE  GameTypeOK'
<1>1. gamedb # << >> /\ gamedb \in Seq(Held)
    BY DEF GameTypeOK, GameAccount, GameDbFails
<1>2. Head(gamedb) \in Held /\ Tail(gamedb) \in Seq(Held)
    BY <1>1
<1>3. gameq' \in Seq(GameEvent)
    <2>1. PICK type \in {"GameAccountResponse", "GameDbErrorMessage"} :
             gameq' = Append(gameq, [type |-> type, token |-> Head(gamedb)])
        BY DEF GameAccount, GameDbFails, PostGame
    <2>2. [type |-> type, token |-> Head(gamedb)] \in GameEvent
        BY <1>2, GameEvents
    <2>. QED
        BY <2>1, <2>2, QueueOps DEF GameTypeOK
<1>. QED
    BY <1>2, <1>3 DEF GameAccount, GameDbFails, GameTypeOK

-----------------------------------------------------------------------------
(* The authentication handler                                              *)

(* The types of what the handler changes, but for its queue                *)
AuthStateOK ==
    /\ auth \in AuthStore
    /\ last_session_id \in 1..(MaxSessions + 1)
    /\ alink \in [Clients -> AuthLinks]
    /\ authdb \in Seq(Held)

LEMMA AuthHead ==
    ASSUME AuthTypeOK, authq # << >>
    PROVE  AuthStateOK /\ Head(authq) \in AuthEvent
BY QueueOps DEF AuthTypeOK, AuthStateOK, AuthStore

LEMMA AnsweredType ==
    ASSUME AuthStateOK, NEW c
    PROVE  /\ Answered(c) \in [Clients -> AuthLinks]
           /\ \A s \in AuthStages :
                 [Answered(c) EXCEPT ![c].stage = s] \in [Clients -> AuthLinks]
           /\ Refused(c) \in [Clients -> AuthLinks]
           /\ \A t \in Token, s \in AuthStages :
                 [Answered(c) EXCEPT ![c].token = t, ![c].stage = s] \in [Clients -> AuthLinks]
<1>1. PICK ls : ls = Answered(c)
    OBVIOUS
<1>2. ls \in [Clients -> AuthLinks]
    BY <1>1, AuthLinkUpdates DEF Answered, AuthStateOK
<1>3. ASSUME NEW t \in Token, NEW s \in AuthStages
      PROVE  [ls EXCEPT ![c].token = t, ![c].stage = s] \in [Clients -> AuthLinks]
    <2>1. PICK ms : ms = [ls EXCEPT ![c].token = t]
        OBVIOUS
    <2>2. ms \in [Clients -> AuthLinks]
        BY <1>2, <2>1, AuthLinkUpdates
    <2>3. PICK ns : ns = [ms EXCEPT ![c].stage = s]
        OBVIOUS
    <2>4. ns \in [Clients -> AuthLinks]
        BY <2>2, <2>3, AuthLinkUpdates
    <2>5. [ls EXCEPT ![c].token = t, ![c].stage = s] = ns
        BY <2>1, <2>3, <1>2
    <2>. QED
        BY <2>4, <2>5, Zenon
<1>4. Refused(c) \in [Clients -> AuthLinks]
    BY <1>1, <1>2, AuthLinkUpdates DEF Refused
<1>. QED
    BY <1>1, <1>2, <1>3, <1>4, AuthLinkUpdates

LEMMA AuthSessionUpdates ==
    ASSUME NEW s \in AuthSessions
    PROVE  /\ \A l \in Clients \union {NoLink} :
                 /\ [s EXCEPT !.link = l] \in AuthSessions
                 /\ [s EXCEPT !.link = l].in_game = s.in_game
           /\ \A a \in Accounts \union {NoAccount} :
                 /\ [s EXCEPT !.auth_id = a] \in AuthSessions
                 /\ [s EXCEPT !.auth_id = a].in_game = s.in_game
           /\ \A b \in BOOLEAN :
                 /\ [s EXCEPT !.logged_in = b] \in AuthSessions
                 /\ [s EXCEPT !.logged_in = b].in_game = s.in_game
                 /\ [s EXCEPT !.in_game = b] \in AuthSessions
                 /\ [s EXCEPT !.in_game = b].in_game = b
BY DEF AuthSessions

(* A session changes, and counts as in game as before.                     *)
LEMMA AuthAmended ==
    ASSUME NEW st \in AuthStore, NEW t \in DOMAIN st.sessions, NEW s \in AuthSessions
    PROVE  /\ Amend(st, t, s) \in AuthStore
           /\ DOMAIN Amend(st, t, s).sessions = DOMAIN st.sessions
           /\ InGame(Amend(st, t, s)) = IF s.in_game THEN InGame(st) \union {t}
                                        ELSE InGame(st) \ {t}
<1>1. PICK g : g = st.sessions
    OBVIOUS
<1>2. PICK f : f = [g EXCEPT ![t] = s]
    OBVIOUS
<1>3. Amend(st, t, s) \in AuthStore /\ Amend(st, t, s).sessions = f
    BY <1>1, <1>2, AmendType DEF AuthStore
<1>4. /\ DOMAIN f = DOMAIN g
      /\ \A u \in DOMAIN g : f[u] = IF u = t THEN s ELSE g[u]
    BY <1>2
<1>5. {u \in DOMAIN f : f[u].in_game} =
         IF s.in_game THEN {u \in DOMAIN g : g[u].in_game} \union {t}
         ELSE {u \in DOMAIN g : g[u].in_game} \ {t}
    BY <1>1, <1>4
<1>. QED
    BY <1>1, <1>3, <1>4, <1>5 DEF InGame

(* It stays counted as in game, or not.                                    *)
Touches(st, t, s) ==
    t \in DOMAIN st.sessions => s \in AuthSessions /\ s.in_game = st.sessions[t].in_game

LEMMA AuthTouched ==
    ASSUME NEW st \in AuthStore, NEW t, NEW s, Touches(st, t, s)
    PROVE  /\ Amend(st, t, s) \in AuthStore
           /\ InGame(Amend(st, t, s)) = InGame(st)
<1>1. CASE t \in DOMAIN st.sessions
    <2>1. s \in AuthSessions /\ s.in_game = st.sessions[t].in_game
        BY <1>1 DEF Touches
    <2>2. /\ Amend(st, t, s) \in AuthStore
          /\ InGame(Amend(st, t, s)) = IF s.in_game THEN InGame(st) \union {t}
                                       ELSE InGame(st) \ {t}
        BY <1>1, <2>1, AuthAmended
    <2>3. t \in InGame(st) <=> s.in_game
        BY <1>1, <2>1 DEF InGame
    <2>. QED
        BY <2>2, <2>3
<1>2. CASE t \notin DOMAIN st.sessions
    BY <1>2, AmendNothing DEF AuthStore
<1>. QED
    BY <1>1, <1>2

LEMMA OnConnectTypes ==
    ASSUME AuthTypeOK, OnConnect
    PROVE  AuthStateOK' /\ InGame(auth') = InGame(auth)
<1>1. AuthStateOK
    BY AuthHead DEF OnConnect, Handles
<1>2. alink' \in [Clients -> AuthLinks]
    BY <1>1, AnsweredType DEF OnConnect, AuthStages
<1>. QED
    BY <1>1, <1>2 DEF OnConnect, AuthStateOK

(* What a login does that is not refused                                   *)
LoginTaken(c, t) ==
    /\ alink[c].stage = "CONNECTED"
    /\ t <= MaxSessions
    /\ auth' = mark_session_for_reaping(WithSession(auth, t, AuthSession(c)), t, t)
    /\ authdb' = Append(authdb, t)
    /\ last_session_id' = t + 1
    /\ UNCHANGED <<alink, gameq>>

LEMMA LoginOutcome ==
    ASSUME OnLogin
    PROVE  /\ authq # << >> /\ Head(authq).type = "LoginRequest"
           /\ \/ /\ alink' = Refused(Head(authq).link)
                 /\ UNCHANGED <<auth, last_session_id, authdb, gameq>>
              \/ LoginTaken(Head(authq).link, last_session_id)
           /\ UNCHANGED failed
BY DEF OnLogin, Handles, LoginTaken

LEMMA OnLoginTypes ==
    ASSUME AuthTypeOK, OnLogin
    PROVE  AuthStateOK' /\ InGame(auth') \subseteq InGame(auth)
<1>1. AuthStateOK /\ Head(authq).link \in Clients
    BY AuthHead, AuthEventFields, LoginOutcome
<1>2. PICK c \in Clients : c = Head(authq).link
    BY <1>1
<1>3. PICK t : t = last_session_id
    OBVIOUS
<1>4. CASE alink' = Refused(c) /\ UNCHANGED <<auth, last_session_id, authdb>>
    BY <1>1, <1>4, AnsweredType DEF AuthStateOK
<1>5. CASE LoginTaken(c, t)
    <2>1. t \in Held /\ t \in Token /\ t + 1 \in 1..(MaxSessions + 1)
        BY <1>1, <1>3, <1>5, HeldFacts, HandoverAssumption DEF LoginTaken, AuthStateOK
    <2>2. PICK new \in AuthSessions : new = AuthSession(c)
        BY DEF AuthSession, AuthSessions
    <2>3. ~new.in_game
        BY <2>2 DEF AuthSession
    <2>4. PICK st : st = WithSession(auth, t, new)
        OBVIOUS
    <2>5. /\ st \in AuthStore
          /\ DOMAIN st.sessions = DOMAIN auth.sessions \union {t}
          /\ st.sessions[t] = new
          /\ \A u \in DOMAIN auth.sessions \ {t} : st.sessions[u] = auth.sessions[u]
        BY <1>1, <2>1, <2>4, WithSessionType DEF AuthStateOK, AuthStore
    <2>6. auth' = mark_session_for_reaping(st, t, t)
        BY <1>5, <2>2, <2>4 DEF LoginTaken
    <2>7. auth' \in AuthStore /\ auth'.sessions = st.sessions
        BY <2>1, <2>5, <2>6, MarkType DEF AuthStore
    <2>8. InGame(auth') \subseteq InGame(auth)
        BY <2>3, <2>5, <2>7 DEF InGame
    <2>9. authdb' \in Seq(Held)
        BY <1>1, <1>5, <2>1, QueueOps DEF LoginTaken, AuthStateOK
    <2>. QED
        BY <1>1, <1>5, <2>1, <2>7, <2>8, <2>9 DEF LoginTaken, AuthStateOK
<1>. QED
    BY <1>2, <1>3, <1>4, <1>5, LoginOutcome

LEMMA OnDbErrorTypes ==
    ASSUME AuthTypeOK, OnDbError
    PROVE  AuthStateOK' /\ InGame(auth') = InGame(auth)
<1>1. AuthStateOK
    BY AuthHead DEF OnDbError, Handles
<1>2. CASE UNCHANGED authOnly
    BY <1>1, <1>2 DEF authOnly, AuthStateOK
<1>3. ASSUME NEW c, alink' = Refused(c), UNCHANGED <<auth, last_session_id, authdb>>
      PROVE  AuthStateOK' /\ InGame(auth') = InGame(auth)
    BY <1>1, <1>3, AnsweredType DEF AuthStateOK
<1>. QED
    BY <1>2, <1>3 DEF OnDbError, Stop

(* The session a client logs in with, old or new                           *)
LEMMA LoggedInTypes ==
    ASSUME AuthStateOK, NEW st \in AuthStore, InGame(st) = InGame(auth),
           NEW temp \in Held, NEW c \in Clients \union {NoLink}, NEW a \in Accounts,
           LoggedIn(st, temp, c, a)
    PROVE  /\ auth' \in AuthStore
           /\ InGame(auth') = InGame(auth)
           /\ alink' \in [Clients -> AuthLinks]
<1>1. PICK old : old = token_for_id(auth, a)
    OBVIOUS
<1>2. old \in Held \union {NoToken}
    BY <1>1, StoreFields DEF token_for_id, AuthStateOK, AuthStore
<1>3. PICK t \in Held : t = IF old = NoToken THEN temp ELSE old
    BY <1>2
<1>4. PICK kept :
         kept = IF old = NoToken THEN st
                ELSE mark_session_for_reaping(
                        [unmark_session_for_reaping(st, old) EXCEPT
                            !.sessions[temp].link = NoLink],
                        temp, temp)
    OBVIOUS
<1>5. kept \in AuthStore /\ InGame(kept) = InGame(auth)
    <2>1. CASE old = NoToken
        BY <1>4, <2>1
    <2>2. CASE old # NoToken
        <3>1. PICK um : um = unmark_session_for_reaping(st, old)
            OBVIOUS
        <3>2. um \in AuthStore /\ um.sessions = st.sessions
            BY <3>1, UnmarkType DEF AuthStore
        <3>3. PICK s : s = [um.sessions[temp] EXCEPT !.link = NoLink]
            OBVIOUS
        <3>4. Touches(um, temp, s)
            <4>1. temp \in DOMAIN um.sessions => um.sessions[temp] \in AuthSessions
                BY <3>2, StoreFields DEF AuthStore
            <4>. QED
                BY <3>3, <4>1, AuthSessionUpdates DEF Touches
        <3>6. PICK cut : cut = Amend(um, temp, s)
            OBVIOUS
        <3>7. cut \in AuthStore /\ InGame(cut) = InGame(um)
            BY <3>2, <3>4, <3>6, AuthTouched
        <3>8. kept = mark_session_for_reaping(cut, temp, temp)
            BY <1>4, <2>2, <3>1, <3>3, <3>6 DEF Amend
        <3>9. kept \in AuthStore /\ kept.sessions = cut.sessions
            <4>1. temp \in Token
                BY HeldFacts
            <4>. QED
                BY <3>7, <3>8, <4>1, MarkType DEF AuthStore
        <3>. QED
            BY <3>2, <3>7, <3>9 DEF InGame
    <2>. QED
        BY <2>1, <2>2
<1>6. PICK s : s = [kept.sessions[t] EXCEPT !.link = c, !.auth_id = a, !.logged_in = TRUE]
    OBVIOUS
<1>9. Touches(kept, t, s)
    <2>1. t \in DOMAIN kept.sessions => kept.sessions[t] \in AuthSessions
        BY <1>5, StoreFields DEF AuthStore
    <2>2. PICK k : k = kept.sessions[t]
        OBVIOUS
    <2>3. k \in AuthSessions => s \in AuthSessions /\ s.in_game = k.in_game
        BY <2>2, <1>6 DEF AuthSessions
    <2>. QED
        BY <2>1, <2>2, <2>3, Zenon DEF Touches
<1>11. PICK mine : mine = Amend(kept, t, s)
    OBVIOUS
<1>12. mine \in AuthStore /\ InGame(mine) = InGame(auth)
    <2>1. mine \in AuthStore /\ InGame(mine) = InGame(kept)
        BY <1>5, <1>9, <1>11, AuthTouched
    <2>. QED
        BY <2>1, <1>5, Zenon
<1>13. auth' = setTokenForId(add_to_active_sessions(mine, t), a, t)
    BY <1>1, <1>3, <1>4, <1>6, <1>11 DEF LoggedIn, Amend
<1>14. auth' \in AuthStore /\ InGame(auth') = InGame(auth)
    <2>1. PICK act : act = add_to_active_sessions(mine, t)
        OBVIOUS
    <2>2. act \in AuthStore /\ act.sessions = mine.sessions
        BY ONLY <2>1, t \in Held, <1>12, ActiveType DEF AuthStore
    <2>3. auth' \in AuthStore /\ auth'.sessions = act.sessions
        BY <2>1, <2>2, <1>3, <1>13, SetTokenType DEF AuthStore
    <2>. QED
        BY <2>2, <2>3, <1>12 DEF InGame
<1>15. alink' = [Answered(c) EXCEPT ![c].token = t, ![c].stage = "AUTHORIZED"]
    BY <1>1, <1>3 DEF LoggedIn
<1>. QED
    BY <1>3, <1>14, <1>15, AnsweredType, HeldFacts DEF AuthStages

LEMMA OnRetrieveAccountResponseTypes ==
    ASSUME AuthTypeOK, OnRetrieveAccountResponse
    PROVE  AuthStateOK' /\ InGame(auth') = InGame(auth)
<1>1. /\ AuthStateOK
      /\ Head(authq).token \in Held
      /\ Head(authq).account \in Accounts \union {NoAccount}
    BY AuthHead, AuthEventFields DEF OnRetrieveAccountResponse, Handles
<1>2. PICK temp \in Held : temp = Head(authq).token
    BY <1>1
<1>3. PICK a : a = Head(authq).account
    OBVIOUS
<1>4. PICK st : st = unmark_session_for_reaping(auth, temp)
    OBVIOUS
<1>5. st \in AuthStore /\ InGame(st) = InGame(auth)
    <2>1. st \in AuthStore /\ st.sessions = auth.sessions
        BY <1>1, <1>4, UnmarkType DEF AuthStateOK, AuthStore
    <2>. QED
        BY <2>1 DEF InGame
<1>6. PICK c : c = auth.sessions[temp].link
    OBVIOUS
<1>7. CASE UNCHANGED authOnly
    BY <1>1, <1>7 DEF authOnly, AuthStateOK
<1>8. CASE /\ auth' = mark_session_for_reaping(st, temp, temp)
           /\ alink' = Refused(c)
           /\ UNCHANGED <<last_session_id, authdb>>
    <2>1. temp \in Token
        BY <1>2, HeldFacts
    <2>2. auth' \in AuthStore /\ auth'.sessions = st.sessions
        BY <1>2, <1>5, <1>8, <2>1, MarkType DEF AuthStore
    <2>3. alink' \in [Clients -> AuthLinks]
        BY <1>1, <1>8, AnsweredType
    <2>. QED
        BY <1>1, <1>5, <1>8, <2>2, <2>3 DEF InGame, AuthStateOK
<1>9. CASE /\ Holds(auth, temp) /\ a # NoAccount
           /\ LoggedIn(st, temp, c, a)
           /\ UNCHANGED <<last_session_id, authdb>>
    <2>1. c \in Clients \union {NoLink}
        <3>1. auth.sessions[temp] \in AuthSessions
            BY <1>1, <1>9, StoreFields DEF AuthStateOK, AuthStore, Holds
        <3>. QED
            BY <3>1, <1>6 DEF AuthSessions
    <2>2. a \in Accounts
        BY <1>1, <1>3, <1>9
    <2>3. /\ auth' \in AuthStore
          /\ InGame(auth') = InGame(auth)
          /\ alink' \in [Clients -> AuthLinks]
        BY <1>1, <1>2, <1>5, <1>9, <2>1, <2>2, LoggedInTypes
    <2>. QED
        BY <1>1, <1>9, <2>3 DEF AuthStateOK
<1>. QED
    BY <1>2, <1>3, <1>4, <1>6, <1>7, <1>8, <1>9 DEF OnRetrieveAccountResponse

LEMMA OnServerListRequestTypes ==
    ASSUME AuthTypeOK, OnServerListRequest
    PROVE  AuthStateOK' /\ InGame(auth') = InGame(auth)
<1>1. AuthStateOK
    BY AuthHead DEF OnServerListRequest, Handles
<1>2. PICK c : c = Head(authq).link
    OBVIOUS
<1>3. \/ alink' = Refused(c)
      \/ alink' = [Answered(c) EXCEPT ![c].stage = "CLIENT_SERVSELECT"]
    BY <1>2 DEF OnServerListRequest
<1>4. alink' \in [Clients -> AuthLinks]
    <2>1. "CLIENT_SERVSELECT" \in AuthStages
        BY DEF AuthStages
    <2>2. /\ Refused(c) \in [Clients -> AuthLinks]
          /\ [Answered(c) EXCEPT ![c].stage = "CLIENT_SERVSELECT"] \in [Clients -> AuthLinks]
        BY <1>1, <2>1, AnsweredType
    <2>. QED
        BY <1>3, <2>2
<1>. QED
    BY <1>1, <1>4 DEF OnServerListRequest, AuthStateOK

LEMMA OnServerSelectedTypes ==
    ASSUME AuthTypeOK, gameq \in Seq(GameEvent), OnServerSelected
    PROVE  AuthStateOK' /\ InGame(auth') = InGame(auth) /\ gameq' \in Seq(GameEvent)
<1>1. AuthStateOK /\ Head(authq).link \in Clients
    BY AuthHead, AuthEventFields DEF OnServerSelected, Handles
<1>2. PICK c, t : c = Head(authq).link /\ t = alink[c].token
    OBVIOUS
<1>3. CASE UNCHANGED <<authOnly, gameq>>
    BY <1>1, <1>3 DEF authOnly, AuthStateOK
<1>4. CASE alink' = Refused(c) /\ UNCHANGED <<auth, last_session_id, authdb, gameq>>
    BY <1>1, <1>4, AnsweredType DEF AuthStateOK
<1>5. CASE /\ Holds(auth, t)
           /\ gameq' = Append(gameq, [type |-> "ExpectClientRequest", token |-> t,
                                      account |-> auth.sessions[t].auth_id, from |-> c])
           /\ UNCHANGED <<auth, last_session_id, alink, authdb>>
    <2>1. t \in Held /\ auth.sessions[t] \in AuthSessions
        BY <1>1, <1>5, StoreFields DEF AuthStateOK, AuthStore, Holds
    <2>2. PICK a \in Accounts \union {NoAccount} : a = auth.sessions[t].auth_id
        BY <2>1 DEF AuthSessions
    <2>3. [type |-> "ExpectClientRequest", token |-> t, account |-> a, from |-> c]
             \in GameEvent
        BY <1>1, <1>2, <2>1, <2>2, GameEvents
    <2>4. gameq' \in Seq(GameEvent)
        BY <1>5, <2>2, <2>3, QueueOps
    <2>. QED
        BY <1>1, <1>5, <2>4 DEF AuthStateOK
<1>. QED
    BY <1>2, <1>3, <1>4, <1>5 DEF OnServerSelected, Stop

LEMMA OnClientExpectedTypes ==
    ASSUME AuthTypeOK, OnClientExpected
    PROVE  AuthStateOK' /\ InGame(auth') = InGame(auth)
<1>1. AuthStateOK
    BY AuthHead DEF OnClientExpected, Handles
<1>2. CASE UNCHANGED authOnly
    BY <1>1, <1>2 DEF authOnly, AuthStateOK
<1>3. ASSUME NEW c,
             alink' = [Answered(c) EXCEPT ![c].stage = "CLIENT_AWAITING_DISCONNECT"],
             UNCHANGED <<auth, last_session_id, authdb>>
      PROVE  AuthStateOK' /\ InGame(auth') = InGame(auth)
    BY <1>1, <1>3, AnsweredType DEF AuthStateOK, AuthStages
<1>. QED
    BY <1>2, <1>3 DEF OnClientExpected, Stop

LEMMA OnClientConnectedToOtherServerTypes ==
    ASSUME AuthTypeOK, OnClientConnectedToOtherServer
    PROVE  /\ AuthStateOK'
           /\ \/ InGame(auth') = InGame(auth)
              \/ InGame(auth') = InGame(auth) \union {Head(authq).token}
<1>1. AuthStateOK
    BY AuthHead DEF OnClientConnectedToOtherServer, Handles
<1>2. PICK t : t = Head(authq).token
    OBVIOUS
<1>3. CASE UNCHANGED authOnly
    BY <1>1, <1>3 DEF authOnly, AuthStateOK
<1>4. CASE /\ Holds(auth, t)
           /\ auth' = [unmark_session_for_reaping(auth, t) EXCEPT !.sessions[t].in_game = TRUE]
           /\ UNCHANGED <<last_session_id, alink, authdb>>
    <2>1. PICK st : st = unmark_session_for_reaping(auth, t)
        OBVIOUS
    <2>2. st \in AuthStore /\ st.sessions = auth.sessions
        BY <1>1, <2>1, UnmarkType DEF AuthStateOK, AuthStore
    <2>3. t \in DOMAIN st.sessions /\ st.sessions[t] \in AuthSessions
        BY <1>4, <2>2, StoreFields DEF AuthStore, Holds
    <2>4. PICK s : s = [st.sessions[t] EXCEPT !.in_game = TRUE]
        OBVIOUS
    <2>5. s \in AuthSessions /\ s.in_game
        BY <2>3, <2>4, AuthSessionUpdates
    <2>6. auth' = Amend(st, t, s)
        BY <1>4, <2>1, <2>4 DEF Amend
    <2>7. auth' \in AuthStore /\ InGame(auth') = InGame(st) \union {t}
        BY <2>2, <2>3, <2>5, <2>6, AuthAmended
    <2>. QED
        BY <1>1, <1>2, <1>4, <2>2, <2>7 DEF AuthStateOK, InGame
<1>. QED
    BY <1>2, <1>3, <1>4 DEF OnClientConnectedToOtherServer, Stop

LEMMA OnClientDisconnectedFromOtherServerTypes ==
    ASSUME AuthTypeOK, OnClientDisconnectedFromOtherServer
    PROVE  /\ AuthStateOK'
           /\ InGame(auth') = InGame(auth) \ {Head(authq).token}
<1>1. AuthStateOK
    BY AuthHead DEF OnClientDisconnectedFromOtherServer, Handles
<1>2. PICK t : t = Head(authq).token
    OBVIOUS
<1>3. CASE ~Holds(auth, t) /\ UNCHANGED authOnly
    BY <1>1, <1>2, <1>3 DEF authOnly, AuthStateOK, InGame, Holds
<1>4. CASE /\ Holds(auth, t)
           /\ auth' = mark_session_for_reaping(
                         [auth EXCEPT !.sessions[t].in_game = FALSE], t, NoToken)
           /\ UNCHANGED <<last_session_id, alink, authdb>>
    <2>3. t \in DOMAIN auth.sessions /\ auth.sessions[t] \in AuthSessions /\ t \in Held
        BY <1>1, <1>4, StoreFields DEF AuthStateOK, AuthStore, Holds
    <2>4. PICK s : s = [auth.sessions[t] EXCEPT !.in_game = FALSE]
        OBVIOUS
    <2>5. s \in AuthSessions /\ ~s.in_game
        BY <2>3, <2>4, AuthSessionUpdates
    <2>6. PICK st : st = Amend(auth, t, s)
        OBVIOUS
    <2>7. st \in AuthStore /\ InGame(st) = InGame(auth) \ {t}
        BY <1>1, <2>3, <2>5, <2>6, AuthAmended DEF AuthStateOK
    <2>8. auth' = mark_session_for_reaping(st, t, NoToken)
        BY <1>4, <2>4, <2>6 DEF Amend
    <2>9. PICK none \in Token : none = NoToken
        BY HeldFacts
    <2>10. auth' \in AuthStore /\ auth'.sessions = st.sessions
        BY <2>3, <2>7, <2>8, <2>9, MarkType DEF AuthStore
    <2>. QED
        BY <1>1, <1>2, <1>4, <2>7, <2>10 DEF AuthStateOK, InGame
<1>. QED
    BY <1>2, <1>3, <1>4 DEF OnClientDisconnectedFromOtherServer, Stop

LEMMA OnDisconnectTypes ==
    ASSUME AuthTypeOK, OnDisconnect
    PROVE  AuthStateOK' /\ InGame(auth') = InGame(auth)
<1>1. AuthStateOK /\ Head(authq).token \in Token
    BY AuthHead, AuthEventFields DEF OnDisconnect, Handles
<1>2. PICK t : t = Head(authq).token
    OBVIOUS
<1>3. PICK s : s = auth.sessions[t]
    OBVIOUS
<1>4. PICK marked : marked = IF s.in_game THEN auth
                             ELSE mark_session_for_reaping(auth, t, alink[s.link].token)
    OBVIOUS
<1>5. PICK out : out = [marked EXCEPT !.sessions[t] =
                          [@ EXCEPT !.logged_in = FALSE, !.link = NoLink]]
    OBVIOUS
<1>6. CASE UNCHANGED authOnly
    BY <1>1, <1>6 DEF authOnly, AuthStateOK
<1>7. CASE /\ Holds(auth, t) /\ s.link # NoLink
           /\ auth' = remove_from_active_sessions(out, t)
           /\ UNCHANGED <<last_session_id, alink, authdb>>
    <2>1. t \in DOMAIN auth.sessions /\ s \in AuthSessions /\ t \in Held
        BY <1>1, <1>3, <1>7, StoreFields DEF AuthStateOK, AuthStore, Holds
    <2>2. s.link \in Clients /\ alink[s.link].token \in Token
        BY <1>1, <1>7, <2>1 DEF AuthSessions, AuthStateOK, AuthLinks
    <2>3. marked \in AuthStore /\ marked.sessions = auth.sessions
        BY <1>1, <1>4, <2>1, <2>2, MarkType DEF AuthStateOK, AuthStore
    <2>4. PICK r : r = [s EXCEPT !.logged_in = FALSE, !.link = NoLink]
        OBVIOUS
    <2>5. r \in AuthSessions /\ r.in_game = s.in_game
        BY <2>1, <2>4 DEF AuthSessions
    <2>6. out = Amend(marked, t, r)
        BY <1>3, <1>5, <2>3, <2>4 DEF Amend
    <2>7. Touches(marked, t, r)
        BY <1>3, <2>3, <2>5 DEF Touches
    <2>8. out \in AuthStore /\ InGame(out) = InGame(marked)
        BY <2>3, <2>6, <2>7, AuthTouched
    <2>9. auth' \in AuthStore /\ auth'.sessions = out.sessions
        BY <1>7, <2>8, InactiveType DEF AuthStore
    <2>. QED
        BY <1>1, <1>7, <2>3, <2>8, <2>9 DEF AuthStateOK, InGame
<1>8. CASE /\ Holds(auth, t)
           /\ auth' = [auth EXCEPT !.sessions[t].logged_in = FALSE]
           /\ UNCHANGED <<last_session_id, alink, authdb>>
    <2>1. t \in DOMAIN auth.sessions /\ s \in AuthSessions
        BY <1>1, <1>3, <1>8, StoreFields DEF AuthStateOK, AuthStore, Holds
    <2>2. PICK r : r = [s EXCEPT !.logged_in = FALSE]
        OBVIOUS
    <2>3. r \in AuthSessions /\ r.in_game = s.in_game
        BY <2>1, <2>2, AuthSessionUpdates
    <2>4. auth' = Amend(auth, t, r)
        BY <1>3, <1>8, <2>2 DEF Amend
    <2>5. Touches(auth, t, r)
        BY <1>3, <2>3 DEF Touches
    <2>6. auth' \in AuthStore /\ InGame(auth') = InGame(auth)
        BY <1>1, <2>4, <2>5, AuthTouched DEF AuthStateOK
    <2>. QED
        BY <1>1, <1>8, <2>6 DEF AuthStateOK
<1>. QED
    BY <1>2, <1>3, <1>4, <1>5, <1>6, <1>7, <1>8 DEF OnDisconnect, Stop

LEMMA ReapAuthTypes ==
    ASSUME AuthTypeOK, NEW stale, ReapAuth(stale)
    PROVE  AuthTypeOK' /\ InGame(auth') \subseteq InGame(auth)
<1>1. PICK pass : pass = StaleLinks(auth, stale)
    OBVIOUS
<1>2. CASE UNCHANGED <<auth, alink>>
    BY <1>2 DEF ReapAuth, AuthTypeOK
<1>3. CASE /\ auth' = AfterReaping(auth, pass)
           /\ alink' = [c \in Clients |->
                           IF c \in ReapedLinks(auth, pass.reaped)
                           THEN [alink[c] EXCEPT !.finish = TRUE] ELSE alink[c]]
    <2>1. auth \in AuthStore
        BY DEF AuthTypeOK, AuthStore
    <2>2. pass.left \in Seq(WaitingSession(Held, Token))
        BY <1>1, <2>1, StoreFields, PassEntries DEF AuthStore
    <2>3. /\ auth' \in AuthStore
          /\ auth'.sessions =
                [u \in DOMAIN auth.sessions \ {e.token : e \in ToSet(pass.reaped)}
                    |-> auth.sessions[u]]
        BY <1>3, <2>1, <2>2, AfterReapingType DEF AuthStore
    <2>4. PICK gone_tokens : gone_tokens = {e.token : e \in ToSet(pass.reaped)}
        OBVIOUS
    <2>5. InGame(auth') \subseteq InGame(auth)
        BY <2>3, <2>4 DEF InGame
    <2>6. alink' \in [Clients -> AuthLinks]
        BY <1>3 DEF AuthTypeOK, AuthLinks
    <2>. QED
        BY <2>3, <2>5, <2>6 DEF ReapAuth, AuthTypeOK, AuthStore
<1>. QED
    BY <1>1, <1>2, <1>3 DEF ReapAuth

-----------------------------------------------------------------------------
(* The game handler                                                        *)

(* The types of what the handler changes, but for its queue                *)
GameStateOK ==
    /\ game \in GameStore
    /\ glink \in [Clients -> GameLinks]
    /\ gamedb \in Seq(Held)
    /\ map \in [Held -> MapStates]

Arrived(t) == [type |-> "ClientConnectedMessage", token |-> t]

Left(t) == [type |-> "ClientDisconnectedMessage", token |-> t]

(* What a step of the game handler posts to the authentication handler q,  *)
(* when the sessions it holds were D and are D2: the arrival of no session *)
(* it does not hold, and the leaving of each one it gave up.               *)
Tells(D, D2, q, q2) ==
    /\ q2 \in Seq(AuthEvent)
    /\ Len(q) <= Len(q2)
    /\ \A i \in 1..Len(q) : q2[i] = q[i]
    /\ \A i \in (Len(q) + 1)..Len(q2) : \A u \in Held : q2[i] = Arrived(u) => u \in D2
    /\ \A u \in D \ D2 : \E i \in (Len(q) + 1)..Len(q2) : q2[i] = Left(u)

LEMMA TellsNothing ==
    ASSUME NEW D, NEW D2, D \subseteq D2, NEW q \in Seq(AuthEvent)
    PROVE  Tells(D, D2, q, q)
BY DEF Tells

LEMMA TellsOne ==
    ASSUME NEW D, NEW D2, NEW q \in Seq(AuthEvent), NEW ev \in AuthEvent,
           \A u \in Held : ev = Arrived(u) => u \in D2,
           \A u \in D \ D2 : ev = Left(u)
    PROVE  Tells(D, D2, q, Append(q, ev))
<1>1. PICK n \in Nat : n = Len(q)
    OBVIOUS
<1>2. PICK q2 : q2 = Append(q, ev)
    OBVIOUS
<1>3. /\ q2 \in Seq(AuthEvent)
      /\ Len(q2) = n + 1
      /\ q2[n + 1] = ev
      /\ \A i \in 1..n : q2[i] = q[i]
    BY <1>1, <1>2
<1>4. \A i \in (n + 1)..(n + 1) : i = n + 1
    OBVIOUS
<1>5. n + 1 \in (n + 1)..(n + 1) /\ n <= n + 1
    OBVIOUS
<1>. QED
    BY <1>1, <1>2, <1>3, <1>4, <1>5 DEF Tells

LEMMA GameHead ==
    ASSUME GameTypeOK, authq \in Seq(AuthEvent)
    PROVE  /\ GameStateOK
           /\ gameq # << >> => Head(gameq) \in GameEvent
           /\ Tells(DOMAIN game.sessions, DOMAIN game.sessions, authq, authq)
BY QueueOps, TellsNothing DEF GameTypeOK, GameStateOK, GameStore

LEMMA GameSessionUpdates ==
    ASSUME NEW s \in GameSessions
    PROVE  /\ [s EXCEPT !.link = NoLink] \in GameSessions
           /\ \A b \in BOOLEAN :
                 /\ [s EXCEPT !.on_map = b] \in GameSessions
                 /\ [s EXCEPT !.to_map = b] \in GameSessions
                 /\ [s EXCEPT !.has_account = b] \in GameSessions
           /\ \A c \in Clients :
                 [s EXCEPT !.link = c, !.to_map = FALSE] \in GameSessions
BY DEF GameSessions

LEMMA GameAmended ==
    ASSUME NEW st \in GameStore, NEW t \in DOMAIN st.sessions, NEW s \in GameSessions
    PROVE  /\ Amend(st, t, s) \in GameStore
           /\ DOMAIN Amend(st, t, s).sessions = DOMAIN st.sessions
<1>1. PICK g : g = st.sessions
    OBVIOUS
<1>2. PICK f : f = [g EXCEPT ![t] = s]
    OBVIOUS
<1>3. Amend(st, t, s) \in GameStore /\ Amend(st, t, s).sessions = f
    BY <1>1, <1>2, AmendType DEF GameStore
<1>4. DOMAIN f = DOMAIN g
    BY <1>2
<1>. QED
    BY <1>1, <1>3, <1>4

LEMMA GameHeld ==
    ASSUME NEW st \in GameStore, NEW t, Holds(st, t)
    PROVE  t \in DOMAIN st.sessions /\ t \in Held /\ st.sessions[t] \in GameSessions
BY StoreFields DEF GameStore, Holds

(* The outcome of every event: GameStateOK, and what is told               *)
GameOutcome ==
    /\ GameStateOK'
    /\ Tells(DOMAIN game.sessions, DOMAIN game'.sessions, authq, authq')

LEMMA GameStopped ==
    ASSUME GameTypeOK, authq \in Seq(AuthEvent), UNCHANGED <<gameOnly, authq>>
    PROVE  GameOutcome
BY GameHead DEF gameOnly, GameStateOK, GameOutcome

LEMMA OnExpectClientTypes ==
    ASSUME GameTypeOK, authq \in Seq(AuthEvent), OnExpectClient
    PROVE  GameOutcome
<1>1. PICK ev : ev = Head(gameq)
    OBVIOUS
<1>2. /\ GameStateOK
      /\ ev.token \in Held /\ ev.account \in Accounts \union {NoAccount}
      /\ ev.from \in Clients
    BY <1>1, GameHead, GameEventFields DEF OnExpectClient, HandlesGame
<1>3. PICK t \in Held : t = ev.token
    BY <1>2
<1>4. PICK st : st = IF Holds(game, t) THEN unmark_session_for_reaping(game, t) ELSE game
    OBVIOUS
<1>5. st \in GameStore /\ st.sessions = game.sessions
    BY <1>2, <1>4, UnmarkType DEF GameStateOK, GameStore
<1>6. PICK s : s = [GameSession EXCEPT !.auth_id = ev.account]
    OBVIOUS
<1>7. s \in GameSessions
    BY <1>2, <1>6 DEF GameSession, GameSessions
<1>8. PICK mine : mine = WithSession(st, t, s)
    OBVIOUS
<1>9. mine \in GameStore /\ DOMAIN mine.sessions = DOMAIN st.sessions \union {t}
    BY <1>5, <1>7, <1>8, WithSessionType DEF GameStore
<1>10. game' = expect_client_session(mine, ev.from, t)
    BY <1>1, <1>3, <1>4, <1>6, <1>8 DEF OnExpectClient
<1>11. game' \in GameStore /\ game'.sessions = mine.sessions
    BY <1>2, <1>9, <1>10, ExpectType DEF GameStore
<1>12. PICK answer : answer = [type |-> "ExpectClientResponse", token |-> t]
    OBVIOUS
<1>13. answer \in AuthEvent /\ authq' = Append(authq, answer)
    BY <1>1, <1>3, <1>12, AuthEvents DEF OnExpectClient, TellAuth
<1>14. \A u : answer # Arrived(u)
    BY <1>12 DEF Arrived
<1>15. DOMAIN game.sessions \subseteq DOMAIN game'.sessions
    BY <1>5, <1>9, <1>11
<1>16. Tells(DOMAIN game.sessions, DOMAIN game'.sessions, authq, authq')
    BY <1>13, <1>14, <1>15, TellsOne
<1>. QED
    BY <1>2, <1>11, <1>16 DEF OnExpectClient, GameStateOK, GameOutcome

LEMMA OnUpdateServerTypes ==
    ASSUME GameTypeOK, authq \in Seq(AuthEvent), OnUpdateServer
    PROVE  GameOutcome
<1>1. PICK c : c = Head(gameq).link
    OBVIOUS
<1>2. GameStateOK /\ c \in Clients
    BY <1>1, GameHead, GameEventFields DEF OnUpdateServer, HandlesGame
<1>3. CASE /\ glink' = [glink EXCEPT ![c].at = IF @ = "asked" THEN "unauthorized" ELSE @]
           /\ UNCHANGED <<game, gamedb, map, authq>>
    <2>1. glink' \in [Clients -> GameLinks]
        BY <1>2, <1>3 DEF GameStateOK, GameLinks, GameLinkStates
    <2>. QED
        BY <1>2, <1>3, <2>1, GameHead DEF GameStateOK, GameOutcome
<1>4. ASSUME NEW t \in Expected(game, c), Holds(game, t),
             game' = mark_session_for_reaping(
                        [connected_client(game, c) EXCEPT
                            !.sessions[t] = [@ EXCEPT !.link = c, !.to_map = FALSE]],
                        t, t),
             glink' = [glink EXCEPT ![c].token = t],
             gamedb' = Append(gamedb, t),
             UNCHANGED <<map, authq>>
      PROVE  GameOutcome
    <2>1. PICK st : st = connected_client(game, c)
        OBVIOUS
    <2>2. st \in GameStore /\ st.sessions = game.sessions
        BY <1>2, <2>1, ConnectedType DEF GameStateOK, GameStore
    <2>3. t \in DOMAIN st.sessions /\ t \in Held /\ st.sessions[t] \in GameSessions
        BY <1>2, <1>4, <2>2, GameHeld DEF GameStateOK
    <2>4. PICK s : s = [st.sessions[t] EXCEPT !.link = c, !.to_map = FALSE]
        OBVIOUS
    <2>5. s \in GameSessions
        BY <1>2, <2>3, <2>4, GameSessionUpdates
    <2>6. PICK mine : mine = Amend(st, t, s)
        OBVIOUS
    <2>7. mine \in GameStore /\ DOMAIN mine.sessions = DOMAIN game.sessions
        BY <2>2, <2>3, <2>5, <2>6, GameAmended
    <2>8. game' = mark_session_for_reaping(mine, t, t)
        BY <1>4, <2>1, <2>4, <2>6 DEF Amend
    <2>9. game' \in GameStore /\ game'.sessions = mine.sessions
        BY <2>3, <2>7, <2>8, MarkType DEF GameStore
    <2>10. glink' \in [Clients -> GameLinks]
        BY <1>2, <1>4, <2>3, HeldFacts, GameLinkUpdates DEF GameStateOK
    <2>11. gamedb' \in Seq(Held)
        BY <1>2, <1>4, <2>3, QueueOps DEF GameStateOK
    <2>. QED
        BY <1>2, <1>4, <2>7, <2>9, <2>10, <2>11, TellsNothing DEF GameStateOK, GameOutcome
<1>5. CASE UNCHANGED <<gameOnly, authq>>
    BY <1>5, GameStopped
<1>. QED
    BY <1>1, <1>3, <1>4, <1>5 DEF OnUpdateServer, StopGame

(* Where the client of a session has got to                                *)
LEMMA LinkMoves ==
    ASSUME GameStateOK, NEW c, NEW from, NEW to \in GameLinkStates
    PROVE  [glink EXCEPT ![c].at = IF @ = from THEN to ELSE @] \in [Clients -> GameLinks]
BY DEF GameStateOK, GameLinks

LEMMA OnAccountDataTypes ==
    ASSUME GameTypeOK, authq \in Seq(AuthEvent), OnAccountData
    PROVE  GameOutcome
<1>1. PICK t : t = Head(gameq).token
    OBVIOUS
<1>2. GameStateOK
    BY GameHead
<1>3. CASE UNCHANGED <<gameOnly, authq>>
    BY <1>3, GameStopped
<1>4. ASSUME NEW c, Holds(game, t),
             game' = add_to_active_sessions(
                        [unmark_session_for_reaping(game, t) EXCEPT
                            !.sessions[t].has_account = TRUE], t),
             TellAuth("ClientConnectedMessage", t),
             glink' = [glink EXCEPT ![c].at = IF @ = "asked" THEN "slots" ELSE @],
             UNCHANGED <<gamedb, map>>
      PROVE  GameOutcome
    <2>1. PICK st : st = unmark_session_for_reaping(game, t)
        OBVIOUS
    <2>2. st \in GameStore /\ st.sessions = game.sessions
        BY <1>2, <2>1, UnmarkType DEF GameStateOK, GameStore
    <2>3. t \in DOMAIN st.sessions /\ t \in Held /\ st.sessions[t] \in GameSessions
        BY <1>2, <1>4, <2>2, GameHeld DEF GameStateOK
    <2>4. PICK s : s = [st.sessions[t] EXCEPT !.has_account = TRUE]
        OBVIOUS
    <2>5. s \in GameSessions
        BY <2>3, <2>4, GameSessionUpdates
    <2>6. PICK mine : mine = Amend(st, t, s)
        OBVIOUS
    <2>7. mine \in GameStore /\ DOMAIN mine.sessions = DOMAIN game.sessions
        BY <2>2, <2>3, <2>5, <2>6, GameAmended
    <2>8. game' = add_to_active_sessions(mine, t)
        BY <1>4, <2>1, <2>4, <2>6 DEF Amend
    <2>9. game' \in GameStore /\ game'.sessions = mine.sessions
        BY <2>3, <2>7, <2>8, ActiveType DEF GameStore
    <2>10. glink' \in [Clients -> GameLinks]
        BY <1>2, <1>4, LinkMoves DEF GameLinkStates
    <2>11. authq' = Append(authq, Arrived(t)) /\ Arrived(t) \in AuthEvent
        BY <1>4, <2>3, AuthEvents DEF TellAuth, Arrived
    <2>12. t \in DOMAIN game'.sessions /\ \A u : Arrived(t) = Arrived(u) => u = t
        BY <2>2, <2>3, <2>7, <2>9 DEF Arrived
    <2>13. DOMAIN game.sessions = DOMAIN game'.sessions
        BY <2>7, <2>9
    <2>14. Tells(DOMAIN game.sessions, DOMAIN game'.sessions, authq, authq')
        BY <2>11, <2>12, <2>13, TellsOne
    <2>. QED
        BY <1>2, <1>4, <2>9, <2>10, <2>14 DEF GameStateOK, GameOutcome
<1>. QED
    BY <1>1, <1>3, <1>4 DEF OnAccountData, StopGame

LEMMA OnAnswerTypes ==
    ASSUME GameTypeOK, authq \in Seq(AuthEvent), OnGameDbError \/ OnMapClientExpected
    PROVE  GameOutcome
<1>1. GameStateOK
    BY GameHead
<1>2. CASE UNCHANGED <<gameOnly, authq>>
    BY <1>2, GameStopped
<1>3. ASSUME NEW c, NEW from, NEW to \in GameLinkStates,
             glink' = [glink EXCEPT ![c].at = IF @ = from THEN to ELSE @],
             UNCHANGED <<game, gamedb, map, authq>>
      PROVE  GameOutcome
    BY <1>1, <1>3, LinkMoves, GameHead DEF GameStateOK, GameOutcome
<1>4. "unauthorized" \in GameLinkStates /\ "address" \in GameLinkStates
    BY DEF GameLinkStates
<1>5. CASE OnGameDbError
    BY <1>2, <1>3, <1>4, <1>5 DEF OnGameDbError, StopGame
<1>6. CASE OnMapClientExpected
    BY <1>2, <1>3, <1>4, <1>6 DEF OnMapClientExpected, StopGame
<1>. QED
    BY <1>5, <1>6

LEMMA OnMapReqTypes ==
    ASSUME GameTypeOK, authq \in Seq(AuthEvent), OnMapReq
    PROVE  GameOutcome
<1>1. PICK t : t = glink[Head(gameq).link].token
    OBVIOUS
<1>2. GameStateOK
    BY GameHead
<1>3. CASE UNCHANGED <<gameOnly, authq>>
    BY <1>3, GameStopped
<1>4. CASE /\ Holds(game, t)
           /\ game' = [game EXCEPT !.sessions[t].to_map = TRUE]
           /\ map' = [map EXCEPT ![t] = "asked"]
           /\ UNCHANGED <<glink, gamedb, authq>>
    <2>1. t \in DOMAIN game.sessions /\ t \in Held /\ game.sessions[t] \in GameSessions
        BY <1>2, <1>4, GameHeld DEF GameStateOK
    <2>2. PICK s : s = [game.sessions[t] EXCEPT !.to_map = TRUE]
        OBVIOUS
    <2>3. s \in GameSessions
        BY <2>1, <2>2, GameSessionUpdates
    <2>4. game' = Amend(game, t, s)
        BY <1>4, <2>2 DEF Amend
    <2>5. game' \in GameStore /\ DOMAIN game'.sessions = DOMAIN game.sessions
        BY <1>2, <2>1, <2>3, <2>4, GameAmended DEF GameStateOK
    <2>6. map' \in [Held -> MapStates]
        BY <1>2, <1>4 DEF GameStateOK, MapStates
    <2>. QED
        BY <1>2, <1>4, <2>5, <2>6, TellsNothing DEF GameStateOK, GameOutcome
<1>. QED
    BY <1>1, <1>3, <1>4 DEF OnMapReq, StopGame

(* The link of a session is lost; the session stays.                       *)
LEMMA GameLinkLost ==
    ASSUME NEW st \in GameStore, NEW t, Holds(st, t)
    PROVE  /\ session_link_lost(st, t) \in GameStore
           /\ DOMAIN session_link_lost(st, t).sessions = DOMAIN st.sessions
<1>1. t \in DOMAIN st.sessions /\ [st.sessions[t] EXCEPT !.link = NoLink] \in GameSessions
    BY GameHeld, GameSessionUpdates
<1>2. PICK f : f = [st.sessions EXCEPT ![t] = [st.sessions[t] EXCEPT !.link = NoLink]]
    OBVIOUS
<1>3. session_link_lost(st, t) \in GameStore /\ session_link_lost(st, t).sessions = f
    BY <1>1, <1>2, LinkLostType DEF GameStore
<1>4. DOMAIN f = DOMAIN st.sessions
    BY <1>2
<1>. QED
    BY <1>3, <1>4

LEMMA ExitToLoginTypes ==
    ASSUME GameStateOK, authq \in Seq(AuthEvent), NEW t, Holds(game, t), ExitToLogin(t)
    PROVE  /\ game' \in GameStore
           /\ Tells(DOMAIN game.sessions, DOMAIN game'.sessions, authq, authq')
<1>1. PICK st : st = session_link_lost(game, t)
    OBVIOUS
<1>2. st \in GameStore /\ DOMAIN st.sessions = DOMAIN game.sessions
    BY <1>1, GameLinkLost DEF GameStateOK
<1>3. t \in Held
    BY GameHeld DEF GameStateOK
<1>4. PICK a : a = game.sessions[t].auth_id
    OBVIOUS
<1>5. PICK f : f = [u \in DOMAIN st.sessions \ {t} |-> st.sessions[u]]
    OBVIOUS
<1>6. game' \in GameStore /\ game'.sessions = f
    <2>1. game' = remove_by_token(st, t, a)
        BY <1>1, <1>4 DEF ExitToLogin
    <2>2. /\ remove_by_token(st, t, a) \in GameStore
          /\ remove_by_token(st, t, a).sessions =
                [u \in DOMAIN st.sessions \ {t} |-> st.sessions[u]]
        BY ONLY <1>2, RemoveType DEF GameStore
    <2>. QED
        BY <2>1, <2>2, <1>5, Zenon
<1>7. DOMAIN game'.sessions = DOMAIN game.sessions \ {t}
    BY <1>2, <1>5, <1>6
<1>8. authq' = Append(authq, Left(t)) /\ Left(t) \in AuthEvent
    BY <1>3, AuthEvents DEF ExitToLogin, TellAuth, Left
<1>9. \A u : Left(t) # Arrived(u)
    BY DEF Left, Arrived
<1>10. \A u \in DOMAIN game.sessions \ DOMAIN game'.sessions : Left(t) = Left(u)
    BY <1>7
<1>. QED
    BY <1>6, <1>8, <1>9, <1>10, TellsOne

LEMMA OnLeavingTypes ==
    ASSUME GameTypeOK, authq \in Seq(AuthEvent), OnLeaving
    PROVE  GameOutcome
<1>1. PICK t : t = glink[Head(gameq).link].token
    OBVIOUS
<1>2. GameStateOK
    BY GameHead
<1>3. CASE UNCHANGED <<gameOnly, authq>>
    BY <1>3, GameStopped
<1>4. CASE /\ Holds(game, t)
           /\ game' = session_link_lost(game, t)
           /\ UNCHANGED <<glink, gamedb, map, authq>>
    <2>1. game' \in GameStore /\ DOMAIN game'.sessions = DOMAIN game.sessions
        BY <1>2, <1>4, GameLinkLost DEF GameStateOK
    <2>. QED
        BY <1>2, <1>4, <2>1, TellsNothing DEF GameStateOK, GameOutcome
<1>5. CASE /\ Holds(game, t)
           /\ game' = session_link_lost(mark_session_for_reaping(game, t, t), t)
           /\ UNCHANGED <<glink, gamedb, map, authq>>
    <2>1. t \in Held
        BY <1>2, <1>5, GameHeld DEF GameStateOK
    <2>2. PICK st : st = mark_session_for_reaping(game, t, t)
        OBVIOUS
    <2>3. st \in GameStore /\ st.sessions = game.sessions
        BY <1>2, <2>1, <2>2, MarkType DEF GameStateOK, GameStore
    <2>4. game' = session_link_lost(st, t) /\ Holds(st, t)
        BY <1>5, <2>2, <2>3 DEF Holds
    <2>5. game' \in GameStore /\ DOMAIN game'.sessions = DOMAIN game.sessions
        BY <2>3, <2>4, GameLinkLost
    <2>. QED
        BY <1>2, <1>5, <2>5, TellsNothing DEF GameStateOK, GameOutcome
<1>6. CASE /\ Holds(game, t)
           /\ ExitToLogin(t)
           /\ UNCHANGED <<glink, gamedb, map>>
    BY <1>2, <1>6, ExitToLoginTypes DEF GameStateOK, GameOutcome
<1>. QED
    BY <1>1, <1>3, <1>4, <1>5, <1>6 DEF OnLeaving, StopGame

LEMMA OnConnectedToMapTypes ==
    ASSUME GameTypeOK, authq \in Seq(AuthEvent), OnConnectedToMap
    PROVE  GameOutcome
<1>1. PICK t : t = Head(gameq).token
    OBVIOUS
<1>2. GameStateOK
    BY GameHead
<1>3. CASE UNCHANGED <<gameOnly, authq>>
    BY <1>3, GameStopped
<1>4. CASE /\ Holds(game, t)
           /\ game' = [unmark_session_for_reaping(game, t) EXCEPT !.sessions[t].on_map = TRUE]
           /\ UNCHANGED <<glink, gamedb, map, authq>>
    <2>1. PICK st : st = unmark_session_for_reaping(game, t)
        OBVIOUS
    <2>2. st \in GameStore /\ st.sessions = game.sessions
        BY <1>2, <2>1, UnmarkType DEF GameStateOK, GameStore
    <2>3. t \in DOMAIN st.sessions /\ t \in Held /\ st.sessions[t] \in GameSessions
        BY <1>2, <1>4, <2>2, GameHeld DEF GameStateOK
    <2>4. PICK s : s = [st.sessions[t] EXCEPT !.on_map = TRUE]
        OBVIOUS
    <2>5. s \in GameSessions
        BY <2>3, <2>4, GameSessionUpdates
    <2>6. game' = Amend(st, t, s)
        BY <1>4, <2>1, <2>4 DEF Amend
    <2>7. game' \in GameStore /\ DOMAIN game'.sessions = DOMAIN game.sessions
        BY <2>2, <2>3, <2>5, <2>6, GameAmended
    <2>. QED
        BY <1>2, <1>4, <2>7, TellsNothing DEF GameStateOK, GameOutcome
<1>. QED
    BY <1>1, <1>3, <1>4 DEF OnConnectedToMap, StopGame

LEMMA OnDisconnectedFromMapTypes ==
    ASSUME GameTypeOK, authq \in Seq(AuthEvent), OnDisconnectedFromMap
    PROVE  GameOutcome
<1>1. PICK t : t = Head(gameq).token
    OBVIOUS
<1>2. GameStateOK
    BY GameHead
<1>3. CASE UNCHANGED <<gameOnly, authq>>
    BY <1>3, GameStopped
<1>4. CASE /\ Holds(game, t)
           /\ game' = mark_session_for_reaping(
                         [game EXCEPT !.sessions[t].on_map = FALSE], t, t)
           /\ UNCHANGED <<glink, gamedb, map, authq>>
    <2>1. t \in DOMAIN game.sessions /\ t \in Held /\ game.sessions[t] \in GameSessions
        BY <1>2, <1>4, GameHeld DEF GameStateOK
    <2>2. PICK s : s = [game.sessions[t] EXCEPT !.on_map = FALSE]
        OBVIOUS
    <2>3. s \in GameSessions
        BY <2>1, <2>2, GameSessionUpdates
    <2>4. PICK st : st = Amend(game, t, s)
        OBVIOUS
    <2>5. st \in GameStore /\ DOMAIN st.sessions = DOMAIN game.sessions
        BY <1>2, <2>1, <2>3, <2>4, GameAmended DEF GameStateOK
    <2>6. game' = mark_session_for_reaping(st, t, t)
        BY <1>4, <2>2, <2>4 DEF Amend
    <2>7. game' \in GameStore /\ game'.sessions = st.sessions
        BY <2>1, <2>5, <2>6, MarkType DEF GameStore
    <2>. QED
        BY <1>2, <1>4, <2>5, <2>7, TellsNothing DEF GameStateOK, GameOutcome
<1>. QED
    BY <1>1, <1>3, <1>4 DEF OnDisconnectedFromMap, StopGame

LEMMA HandleGameEventTypes ==
    ASSUME GameTypeOK, authq \in Seq(AuthEvent), HandleGameEvent
    PROVE  GameTypeOK' /\ Tells(DOMAIN game.sessions, DOMAIN game'.sessions, authq, authq')
<1>1. GameOutcome
    BY OnExpectClientTypes, OnUpdateServerTypes, OnAccountDataTypes, OnAnswerTypes,
       OnMapReqTypes, OnLeavingTypes, OnConnectedToMapTypes, OnDisconnectedFromMapTypes
    DEF HandleGameEvent
<1>2. gameq # << >>
    BY DEF HandleGameEvent, OnExpectClient, OnUpdateServer, OnAccountData, OnGameDbError,
           OnMapReq, OnMapClientExpected, OnLeaving, OnConnectedToMap,
           OnDisconnectedFromMap, HandlesGame
<1>3. gameq' \in Seq(GameEvent)
    BY <1>2, QueueOps DEF HandleGameEvent, GameTypeOK
<1>. QED
    BY <1>1, <1>3 DEF GameOutcome, GameStateOK, GameStore, GameTypeOK

(* A session reaped is reported.                                           *)
LEMMA ReapedAreTold ==
    ASSUME NEW D, NEW reaped \in Seq(WaitingSession(Held, Held)), NEW q \in Seq(AuthEvent)
    PROVE  Tells(D, D \ {e.token : e \in ToSet(reaped)}, q,
                 q \o [i \in DOMAIN reaped |->
                          [type |-> "ClientDisconnectedMessage", token |-> reaped[i].token]])
<1>1. PICK n \in Nat : n = Len(q)
    OBVIOUS
<1>2. PICK m \in Nat : m = Len(reaped)
    OBVIOUS
<1>3. DOMAIN reaped = 1..m
    BY <1>2
<1>4. \A i \in 1..m : reaped[i].token \in Held
    <2>1. \A i \in 1..m : reaped[i] \in WaitingSession(Held, Held)
        BY <1>2
    <2>. QED
        BY <2>1 DEF WaitingSession
<1>5. PICK told : told = [i \in 1..m |-> Left(reaped[i].token)]
    OBVIOUS
<1>6. \A i \in 1..m : told[i] = Left(reaped[i].token) /\ told[i] \in AuthEvent
    BY <1>4, <1>5, AuthEvents DEF Left
<1>7. told \in Seq(AuthEvent) /\ Len(told) = m
    BY <1>5, <1>6
<1>8. PICK q2 : q2 = q \o told
    OBVIOUS
<1>9. /\ q2 \in Seq(AuthEvent)
      /\ Len(q2) = n + m
      /\ \A i \in 1..n : q2[i] = q[i]
      /\ \A i \in (n + 1)..(n + m) : q2[i] = told[i - n]
    BY <1>1, <1>7, <1>8, Joined, Zenon
<1>10. \A i \in (n + 1)..(n + m) : i - n \in 1..m
    OBVIOUS
<1>11. \A i \in (n + 1)..(n + m), u \in Held : q2[i] # Arrived(u)
    <2>1. \A j \in 1..m : told[j].type = "ClientDisconnectedMessage"
        <3>1. \A u : Left(u).type = "ClientDisconnectedMessage"
            BY DEF Left
        <3>. QED
            BY <3>1, <1>6
    <2>2. \A i \in (n + 1)..(n + m) : q2[i].type = "ClientDisconnectedMessage"
        BY <2>1, <1>9, <1>10
    <2>3. \A u : Arrived(u).type = "ClientConnectedMessage"
        BY DEF Arrived
    <2>. QED
        BY <2>2, <2>3
<1>12. PICK tokens : tokens = {e.token : e \in ToSet(reaped)}
    OBVIOUS
<1>13. \A u \in tokens : \E j \in 1..m : u = reaped[j].token
    BY <1>3, <1>12 DEF ToSet
<1>14. \A j \in 1..m : n + j \in (n + 1)..(n + m) /\ (n + j) - n = j
    OBVIOUS
<1>15. \A u \in tokens : \E i \in (n + 1)..(n + m) : q2[i] = Left(u)
    <2>1. \A j \in 1..m : q2[n + j] = Left(reaped[j].token)
        BY <1>6, <1>9, <1>14
    <2>. QED
        BY <2>1, <1>13, <1>14
<1>16. Tells(D, D \ tokens, q, q2)
    <2>1. n <= n + m
        OBVIOUS
    <2>2. \A u \in D \ (D \ tokens) : u \in tokens
        OBVIOUS
    <2>. QED
        BY <1>1, <1>9, <1>11, <1>15, <2>1, <2>2, Zenon DEF Tells
<1>17. told = [i \in DOMAIN reaped |->
                  [type |-> "ClientDisconnectedMessage", token |-> reaped[i].token]]
    BY <1>3, <1>5 DEF Left
<1>. QED
    BY <1>8, <1>12, <1>16, <1>17, Zenon

LEMMA ReapGameTypes ==
    ASSUME GameTypeOK, authq \in Seq(AuthEvent), NEW stale, ReapGame(stale)
    PROVE  GameTypeOK' /\ Tells(DOMAIN game.sessions, DOMAIN game'.sessions, authq, authq')
<1>1. PICK pass : pass = StaleLinks(game, stale)
    OBVIOUS
<1>2. CASE UNCHANGED <<game, authq>>
    BY <1>2, GameHead DEF ReapGame, GameTypeOK
<1>3. CASE /\ game' = AfterReaping(game, pass)
           /\ authq' = authq \o [i \in DOMAIN pass.reaped |->
                                   [type |-> "ClientDisconnectedMessage",
                                    token |-> pass.reaped[i].token]]
    <2>1. game \in GameStore
        BY DEF GameTypeOK, GameStore
    <2>2. /\ pass.left \in Seq(WaitingSession(Held, Held))
          /\ pass.reaped \in Seq(WaitingSession(Held, Held))
        BY <1>1, <2>1, StoreFields, PassEntries DEF GameStore
    <2>3. PICK tokens : tokens = {e.token : e \in ToSet(pass.reaped)}
        OBVIOUS
    <2>4. PICK f : f = [u \in DOMAIN game.sessions \ tokens |-> game.sessions[u]]
        OBVIOUS
    <2>5. game' \in GameStore /\ game'.sessions = f
        BY <1>3, <2>1, <2>2, <2>3, <2>4, AfterReapingType DEF GameStore
    <2>6. DOMAIN game'.sessions = DOMAIN game.sessions \ tokens
        BY <2>4, <2>5
    <2>7. Tells(DOMAIN game.sessions, DOMAIN game'.sessions, authq, authq')
        BY <1>3, <2>2, <2>3, <2>6, ReapedAreTold
    <2>. QED
        BY <2>5, <2>7 DEF ReapGame, GameTypeOK, GameStore
<1>. QED
    BY <1>1, <1>2, <1>3 DEF ReapGame

-----------------------------------------------------------------------------
(* The types                                                               *)

LEMMA HandleAuthEventTypes ==
    ASSUME AuthTypeOK, gameq \in Seq(GameEvent), HandleAuthEvent
    PROVE  /\ AuthTypeOK'
           /\ gameq' \in Seq(GameEvent)
           /\ authq # << >> /\ authq' = Tail(authq)
<1>1. authq # << >> /\ authq' = Tail(authq)
    BY DEF HandleAuthEvent, OnConnect, OnDisconnect, OnLogin, OnRetrieveAccountResponse,
           OnDbError, OnServerListRequest, OnServerSelected, OnClientExpected,
           OnClientConnectedToOtherServer, OnClientDisconnectedFromOtherServer, Handles
<1>2. authq' \in Seq(AuthEvent)
    BY <1>1, QueueOps DEF AuthTypeOK
<1>3. AuthStateOK'
    BY OnConnectTypes, OnDisconnectTypes, OnLoginTypes, OnRetrieveAccountResponseTypes,
       OnDbErrorTypes, OnServerListRequestTypes, OnServerSelectedTypes,
       OnClientExpectedTypes, OnClientConnectedToOtherServerTypes,
       OnClientDisconnectedFromOtherServerTypes
    DEF HandleAuthEvent
<1>4. gameq' \in Seq(GameEvent)
    <2>1. CASE OnServerSelected
        BY <2>1, OnServerSelectedTypes
    <2>2. CASE UNCHANGED gameq
        BY <2>2
    <2>. QED
        BY <2>1, <2>2
        DEF HandleAuthEvent, OnConnect, OnDisconnect, OnLogin, OnRetrieveAccountResponse,
            OnDbError, OnServerListRequest, OnClientExpected, Stop,
            OnClientConnectedToOtherServer, OnClientDisconnectedFromOtherServer
<1>. QED
    BY <1>1, <1>2, <1>3, <1>4 DEF AuthTypeOK, AuthStateOK, AuthStore

LEMMA AuthReasons ==
    ASSUME failed \in Reasons, HandleAuthEvent
    PROVE  failed' \in Reasons
BY DEF Reasons, HandleAuthEvent, OnConnect, OnDisconnect, OnLogin, OnDbError,
       OnRetrieveAccountResponse, OnServerListRequest, OnServerSelected, OnClientExpected,
       OnClientConnectedToOtherServer, OnClientDisconnectedFromOtherServer, Stop

LEMMA GameReasons ==
    ASSUME failed \in Reasons, HandleGameEvent
    PROVE  failed' \in Reasons
BY DEF Reasons, HandleGameEvent, OnExpectClient, OnUpdateServer, OnAccountData,
       OnGameDbError, OnMapReq, OnMapClientExpected, OnLeaving, OnConnectedToMap,
       OnDisconnectedFromMap, StopGame

LEMMA InitTypes ==
    ASSUME Init
    PROVE  TypeOK
<1>1. \A S, K, M : EmptyStore \in Stores(S, K, Held, M)
    <2>1. ASSUME NEW S PROVE << >> \in UNION {[T -> S] : T \in SUBSET Held}
        <3>1. << >> \in [{} -> S] /\ {} \in SUBSET Held
            OBVIOUS
        <3>. QED
            BY <3>1
    <2>2. [a \in Accounts |-> NoToken] \in [Accounts -> Held \union {NoToken}]
        OBVIOUS
    <2>3. \A E : << >> \in Seq(E)
        OBVIOUS
    <2>. QED
        BY <2>1, <2>2, <2>3 DEF EmptyStore, Stores
<1>2. AuthTypeOK
    <2>1. alink \in [Clients -> AuthLinks]
        BY HeldFacts DEF Init, AuthInit, NoLinkYet, AuthLinks, AuthStages
    <2>2. last_session_id \in 1..(MaxSessions + 1)
        BY HandoverAssumption DEF Init, AuthInit
    <2>3. authq \in Seq(AuthEvent) /\ authdb \in Seq(Held)
        BY DEF Init, AuthInit
    <2>. QED
        BY <1>1, <2>1, <2>2, <2>3 DEF Init, AuthInit, AuthTypeOK, AuthStore
<1>3. GameTypeOK
    <2>1. glink \in [Clients -> GameLinks]
        BY HeldFacts DEF Init, GameInit, GameLinks, GameLinkStates
    <2>2. map \in [Held -> MapStates]
        BY DEF Init, GameInit, MapStates
    <2>3. gameq \in Seq(GameEvent) /\ gamedb \in Seq(Held)
        BY DEF Init, GameInit
    <2>. QED
        BY <1>1, <2>1, <2>2, <2>3 DEF Init, GameInit, GameTypeOK, GameStore
<1>. QED
    BY <1>2, <1>3 DEF Init, TypeOK, Reasons

(* What a client does changes no store.                                    *)
LEMMA ClientTypes ==
    ASSUME TypeOK, NEW c \in Clients, ClientStep(c)
    PROVE  TypeOK' /\ UNCHANGED <<auth, game>>
<1>1. AuthTypeOK /\ GameTypeOK /\ gone \subseteq Clients /\ failed \in Reasons
    BY DEF TypeOK
<1>2. CASE /\ LinkOpen(c) \/ Inputs(c) \/ LinkClose(c) \/ LinkFinish(c)
           /\ UNCHANGED <<gameOnly, gone, failed>>
    <2>1. AuthTypeOK' /\ UNCHANGED <<auth, gameq>>
        BY <1>1, <1>2, LinkOpenTypes, LinkInputTypes, LinkCloseTypes, LinkFinishTypes
        DEF LinkOpen, Inputs, ClientInput, LinkInput, LinkClose, LinkFinish
    <2>. QED
        BY <1>1, <1>2, <2>1 DEF TypeOK, GameTypeOK, gameOnly
<1>3. CASE /\ SendUpdateServer(c) \/ SendMapRequest(c) \/ LeaveGame(c) \/ MapEntered(c)
           /\ UNCHANGED <<authOnly, authq, gone, failed>>
    <2>1. GameTypeOK' /\ UNCHANGED game
        BY <1>1, <1>3, GameClientTypes, MapEnteredTypes
        DEF SendUpdateServer, SendMapRequest, LeaveGame, MapEntered
    <2>. QED
        BY <1>1, <1>3, <2>1 DEF TypeOK, AuthTypeOK, authOnly
<1>4. CASE GivesUp(c)
    BY <1>1, <1>4 DEF GivesUp, TypeOK, AuthTypeOK, GameTypeOK, authOnly, gameOnly
<1>5. CASE Asks(c)
    BY <1>2, <1>5, AskedInput
<1>. QED
    BY <1>2, <1>3, <1>4, <1>5
    DEF ClientStep, Opens, Closes, Finishes, EntersGame, AsksForMap, Leaves, EntersMap

LEMMA AuthReaperTypes ==
    ASSUME TypeOK, NEW stale, AuthReaper(stale)
    PROVE  TypeOK'
<1>1. AuthTypeOK /\ GameTypeOK /\ gone \subseteq Clients /\ failed \in Reasons
    BY DEF TypeOK
<1>2. ReapAuth(stale) /\ UNCHANGED <<gameOnly, gone>>
    BY DEF AuthReaper
<1>3. AuthTypeOK'
    BY <1>1, <1>2, ReapAuthTypes
<1>4. failed' \in Reasons /\ UNCHANGED gameq
    BY <1>1, <1>2 DEF ReapAuth, Reasons
<1>. QED
    BY <1>1, <1>2, <1>3, <1>4 DEF TypeOK, GameTypeOK, gameOnly

LEMMA GameReaperTypes ==
    ASSUME TypeOK, NEW stale, GameReaper(stale)
    PROVE  /\ TypeOK'
           /\ Tells(DOMAIN game.sessions, DOMAIN game'.sessions, authq, authq')
           /\ UNCHANGED auth
<1>1. AuthTypeOK /\ authq \in Seq(AuthEvent) /\ GameTypeOK /\ gone \subseteq Clients
      /\ failed \in Reasons
    BY DEF TypeOK, AuthTypeOK
<1>2. ReapGame(stale) /\ UNCHANGED <<authOnly, gone>>
    BY DEF GameReaper
<1>3. GameTypeOK' /\ Tells(DOMAIN game.sessions, DOMAIN game'.sessions, authq, authq')
    BY <1>1, <1>2, ReapGameTypes
<1>4. authq' \in Seq(AuthEvent)
    BY <1>3 DEF Tells
<1>5. failed' \in Reasons
    BY <1>1, <1>2 DEF ReapGame, Reasons
<1>. QED
    BY <1>1, <1>2, <1>3, <1>4, <1>5 DEF TypeOK, AuthTypeOK, authOnly

LEMMA AuthStepTypes ==
    ASSUME TypeOK, AuthStep
    PROVE  TypeOK' /\ UNCHANGED game
<1>1. AuthTypeOK /\ GameTypeOK /\ gameq \in Seq(GameEvent) /\ gone \subseteq Clients
      /\ failed \in Reasons
    BY DEF TypeOK, GameTypeOK
<1>2. HandleAuthEvent /\ UNCHANGED <<gameOnly, gone>>
    BY DEF AuthStep
<1>3. AuthTypeOK' /\ gameq' \in Seq(GameEvent)
    BY <1>1, <1>2, HandleAuthEventTypes
<1>4. failed' \in Reasons
    BY <1>1, <1>2, AuthReasons
<1>. QED
    BY <1>1, <1>2, <1>3, <1>4 DEF TypeOK, GameTypeOK, gameOnly

LEMMA GameStepTypes ==
    ASSUME TypeOK, GameStep
    PROVE  /\ TypeOK'
           /\ Tells(DOMAIN game.sessions, DOMAIN game'.sessions, authq, authq')
           /\ UNCHANGED auth
<1>1. AuthTypeOK /\ authq \in Seq(AuthEvent) /\ GameTypeOK /\ gone \subseteq Clients
      /\ failed \in Reasons
    BY DEF TypeOK, AuthTypeOK
<1>2. HandleGameEvent /\ UNCHANGED <<authOnly, gone>>
    BY DEF GameStep
<1>3. GameTypeOK' /\ Tells(DOMAIN game.sessions, DOMAIN game'.sessions, authq, authq')
    BY <1>1, <1>2, HandleGameEventTypes
<1>4. authq' \in Seq(AuthEvent)
    BY <1>3 DEF Tells
<1>5. failed' \in Reasons
    BY <1>1, <1>2, GameReasons
<1>. QED
    BY <1>1, <1>2, <1>3, <1>4, <1>5 DEF TypeOK, AuthTypeOK, authOnly

LEMMA DatabaseTypes ==
    ASSUME TypeOK, AuthDbStep \/ GameDbStep \/ \E t \in 1..MaxSessions : MapStep(t)
    PROVE  TypeOK' /\ UNCHANGED <<auth, game>>
<1>1. AuthTypeOK /\ GameTypeOK /\ gone \subseteq Clients /\ failed \in Reasons
    BY DEF TypeOK
<1>2. CASE AuthDbStep
    <2>1. AuthTypeOK' /\ UNCHANGED <<auth, gameq, gameOnly, gone, failed>>
        BY <1>1, <1>2, AuthDbTypes DEF AuthDbStep, RetrieveAccount, AuthDbFails
    <2>. QED
        BY <1>1, <2>1 DEF TypeOK, GameTypeOK, gameOnly
<1>3. CASE GameDbStep \/ \E t \in 1..MaxSessions : MapStep(t)
    <2>1. GameTypeOK' /\ UNCHANGED <<game, authOnly, authq, gone, failed>>
        BY <1>1, <1>3, GameDbTypes, MapStepTypes, HeldFacts
        DEF GameDbStep, GameAccount, GameDbFails, MapStep, MapExpects, MapLeft
    <2>. QED
        BY <1>1, <2>1 DEF TypeOK, AuthTypeOK, authOnly
<1>. QED
    BY <1>2, <1>3

LEMMA StepTypes ==
    ASSUME TypeOK, [Next]_vars
    PROVE  TypeOK'
<1>1. CASE Next
    BY <1>1, ClientTypes, AuthReaperTypes, GameReaperTypes, AuthStepTypes, GameStepTypes,
       DatabaseTypes
    DEF Next, ServerStep
<1>2. CASE UNCHANGED vars
    BY <1>2 DEF vars, authOnly, gameOnly, TypeOK, AuthTypeOK, GameTypeOK
<1>. QED
    BY <1>1, <1>2

(* Every variable keeps its type: AuthHandler.h:50-78, GameHandler.h:32-60,*)
(* ClientManager.h:81-105.                                                 *)
THEOREM TypesHold == Spec => []TypeOK
<1>1. Init => TypeOK
    BY InitTypes
<1>2. TypeOK /\ [Next]_vars => TypeOK'
    BY StepTypes
<1>. QED
    BY <1>1, <1>2, PTL DEF Spec

-----------------------------------------------------------------------------
(* Queues: A stands for the sessions counted as in game, D for those the   *)
(* game handler holds, q for the authentication handler's queue.           *)

(* A session counted as in game is held, or its leaving is in the queue.   *)
Reported(A, q, D) ==
    \A t \in A : t \in D \/ \E i \in 1..Len(q) : q[i] = Left(t)

(* One whose arrival is in the queue is held, or its leaving comes later.  *)
Ordered(q, D) ==
    \A i \in 1..Len(q) : \A t \in Held :
       q[i] = Arrived(t) => t \in D \/ \E j \in (i + 1)..Len(q) : q[j] = Left(t)

Accounted(A, q, D) == Reported(A, q, D) /\ Ordered(q, D)

(* The first event is dealt with.                                          *)
LEMMA Dealt ==
    ASSUME NEW E, NEW q \in Seq(E), q # << >>, NEW A, NEW D, Accounted(A, q, D), NEW A2,
           \A t \in A2 : /\ t \in A \/ (t \in Held /\ Head(q) = Arrived(t))
                         /\ Head(q) # Left(t)
    PROVE  Accounted(A2, Tail(q), D)
<1>1. PICK n \in Nat : n + 1 = Len(q)
    <2>1. Len(q) \in Nat /\ Len(q) # 0
        OBVIOUS
    <2>2. (Len(q) - 1) \in Nat /\ (Len(q) - 1) + 1 = Len(q)
        BY <2>1
    <2>. QED
        BY <2>2
<1>2. PICK r : r = Tail(q)
    OBVIOUS
<1>3. Len(r) = n /\ \A i \in 1..n : r[i] = q[i + 1]
    BY <1>1, <1>2
<1>4. Head(q) = q[1] /\ 1 \in 1..(n + 1)
    OBVIOUS
<1>5. \A i \in 2..(n + 1) : /\ i - 1 \in 1..n
                            /\ (i - 1) + 1 = i
    OBVIOUS
<1>6. \A i \in 2..(n + 1) : r[i - 1] = q[i]
    BY <1>3, <1>5
<1>7. Reported(A2, r, D)
    <2>1. SUFFICES ASSUME NEW t \in A2, t \notin D
                   PROVE  \E i \in 1..n : r[i] = Left(t)
        BY <1>3 DEF Reported
    <2>2. CASE t \in A
        <3>1. PICK i \in 1..(n + 1) : q[i] = Left(t)
            BY <1>1, <2>1, <2>2 DEF Accounted, Reported
        <3>2. i # 1
            BY <3>1, <1>4
        <3>3. i \in 2..(n + 1)
            BY <3>1, <3>2
        <3>. QED
            BY <3>1, <3>3, <1>5, <1>6
    <2>3. CASE t \in Held /\ Head(q) = Arrived(t)
        <3>1. PICK j \in (1 + 1)..(n + 1) : q[j] = Left(t)
            BY <1>1, <1>4, <2>1, <2>3 DEF Accounted, Ordered
        <3>2. j \in 2..(n + 1)
            BY <3>1
        <3>. QED
            BY <3>1, <3>2, <1>5, <1>6
    <2>. QED
        BY <2>2, <2>3
<1>8. Ordered(r, D)
    <2>1. SUFFICES ASSUME NEW i \in 1..n, NEW t \in Held, r[i] = Arrived(t), t \notin D
                   PROVE  \E j \in (i + 1)..n : r[j] = Left(t)
        BY <1>3 DEF Ordered
    <2>2. i + 1 \in 1..(n + 1) /\ q[i + 1] = Arrived(t)
        BY <1>3, <2>1
    <2>3. PICK j \in ((i + 1) + 1)..(n + 1) : q[j] = Left(t)
        BY <1>1, <2>1, <2>2 DEF Accounted, Ordered
    <2>4. j \in 2..(n + 1) /\ j - 1 \in (i + 1)..n
        BY <2>3
    <2>. QED
        BY <2>3, <2>4, <1>6
<1>. QED
    BY <1>2, <1>7, <1>8 DEF Accounted

(* The game handler holds other sessions, and told what it had to.         *)
LEMMA Told ==
    ASSUME NEW q \in Seq(AuthEvent), NEW q2, NEW A, NEW D, NEW D2,
           Accounted(A, q, D), Tells(D, D2, q, q2)
    PROVE  Accounted(A, q2, D2)
<1>1. PICK n \in Nat : n = Len(q)
    OBVIOUS
<1>2. PICK m \in Nat : m = Len(q2)
    BY DEF Tells
<1>3. /\ n <= m
      /\ \A i \in 1..n : q2[i] = q[i]
      /\ \A i \in (n + 1)..m : \A u \in Held : q2[i] = Arrived(u) => u \in D2
      /\ \A u \in D \ D2 : \E i \in (n + 1)..m : q2[i] = Left(u)
    BY <1>1, <1>2 DEF Tells
<1>4. Reported(A, q2, D2)
    <2>1. SUFFICES ASSUME NEW t \in A, t \notin D2
                   PROVE  \E i \in 1..m : q2[i] = Left(t)
        BY <1>2 DEF Reported
    <2>2. CASE t \in D
        <3>1. PICK i \in (n + 1)..m : q2[i] = Left(t)
            BY <1>3, <2>1, <2>2
        <3>2. i \in 1..m
            BY <3>1
        <3>. QED
            BY <3>1, <3>2
    <2>3. CASE t \notin D
        <3>1. PICK i \in 1..n : q[i] = Left(t)
            BY <1>1, <2>3 DEF Accounted, Reported
        <3>2. i \in 1..m
            BY <1>3, <3>1
        <3>. QED
            BY <1>3, <3>1, <3>2
    <2>. QED
        BY <2>2, <2>3
<1>5. Ordered(q2, D2)
    <2>1. SUFFICES ASSUME NEW i \in 1..m, NEW t \in Held, q2[i] = Arrived(t), t \notin D2
                   PROVE  \E j \in (i + 1)..m : q2[j] = Left(t)
        BY <1>2 DEF Ordered
    <2>2. i \notin (n + 1)..m
        BY <1>3, <2>1
    <2>3. i \in 1..n
        BY <2>2
    <2>4. q[i] = Arrived(t)
        BY <1>3, <2>1, <2>3
    <2>5. CASE t \in D
        <3>1. PICK j \in (n + 1)..m : q2[j] = Left(t)
            BY <1>3, <2>1, <2>5
        <3>2. j \in (i + 1)..m
            BY <2>3, <3>1
        <3>. QED
            BY <3>1, <3>2
    <2>6. CASE t \notin D
        <3>1. PICK j \in (i + 1)..n : q[j] = Left(t)
            BY <1>1, <2>3, <2>4, <2>6 DEF Accounted, Ordered
        <3>2. j \in (i + 1)..m /\ j \in 1..n
            BY <1>3, <3>1
        <3>. QED
            BY <1>3, <3>1, <3>2
    <2>. QED
        BY <2>5, <2>6
<1>. QED
    BY <1>4, <1>5 DEF Accounted

(* A Disconnect overtakes other events, but these stay in order.           *)
LEMMA Overtaken ==
    ASSUME NEW q \in Seq(AuthEvent), NEW A, NEW D, Accounted(A, q, D), NEW t \in Token
    PROVE  Accounted(A, Urgently(q, [type |-> "Disconnect", token |-> t]), D)
<1>1. PICK len \in Nat : len = Len(q)
    OBVIOUS
<1>2. PICK ev \in AuthEvent : ev = [type |-> "Disconnect", token |-> t]
    BY AuthEvents
<1>3. \A x : ev # Arrived(x)
    BY <1>2 DEF Arrived
<1>4. PICK u : u = Urgently(q, ev)
    OBVIOUS
<1>5. PICK n \in 0..len :
         /\ Len(u) = len + 1
         /\ u[n + 1] = ev
         /\ \A i \in 1..n : u[i] = q[i]
         /\ \A i \in (n + 1)..len : u[i + 1] = q[i]
    <2>1. Inserts(u, q, ev)
        BY <1>2, <1>4, UrgentlyInserts
    <2>. QED
        BY <2>1, <1>1, Zenon DEF Inserts
<1>6. Reported(A, u, D)
    <2>1. SUFFICES ASSUME NEW x \in A, x \notin D
                   PROVE  \E i \in 1..(len + 1) : u[i] = Left(x)
        BY <1>5 DEF Reported
    <2>2. PICK i \in 1..len : q[i] = Left(x)
        BY <1>1, <2>1 DEF Accounted, Reported
    <2>3. CASE i \in 1..n
        <3>1. i \in 1..(len + 1) /\ u[i] = Left(x)
            BY <1>5, <2>2, <2>3
        <3>. QED
            BY <3>1
    <2>4. CASE i \in (n + 1)..len
        <3>1. i + 1 \in 1..(len + 1) /\ u[i + 1] = Left(x)
            BY <1>5, <2>2, <2>4
        <3>. QED
            BY <3>1
    <2>5. i \in 1..n \/ i \in (n + 1)..len
        BY <2>2
    <2>. QED
        BY <2>3, <2>4, <2>5
<1>7. Ordered(u, D)
    <2>1. SUFFICES ASSUME NEW i \in 1..(len + 1), NEW x \in Held, u[i] = Arrived(x), x \notin D
                   PROVE  \E j \in (i + 1)..(len + 1) : u[j] = Left(x)
        BY <1>5 DEF Ordered
    <2>2. i # n + 1
        BY <1>5, <1>3, <2>1
    <2>3. CASE i \in 1..n
        <3>1. i \in 1..len /\ q[i] = Arrived(x)
            BY <1>5, <2>1, <2>3
        <3>2. PICK j \in (i + 1)..len : q[j] = Left(x)
            BY <1>1, <2>1, <3>1 DEF Accounted, Ordered
        <3>3. CASE j \in 1..n
            <4>1. j \in (i + 1)..(len + 1) /\ u[j] = Left(x)
                BY <1>5, <3>2, <3>3
            <4>. QED
                BY <4>1
        <3>4. CASE j \in (n + 1)..len
            <4>1. j + 1 \in (i + 1)..(len + 1) /\ u[j + 1] = Left(x)
                BY <1>5, <3>2, <3>4
            <4>. QED
                BY <4>1
        <3>5. j \in 1..n \/ j \in (n + 1)..len
            BY <3>2
        <3>. QED
            BY <3>3, <3>4, <3>5
    <2>4. CASE i \in (n + 2)..(len + 1)
        <3>1. i - 1 \in (n + 1)..len /\ (i - 1) + 1 = i
            BY <2>4
        <3>2. q[i - 1] = Arrived(x) /\ i - 1 \in 1..len
            BY <1>5, <2>1, <3>1
        <3>3. PICK j \in ((i - 1) + 1)..len : q[j] = Left(x)
            BY <1>1, <2>1, <3>2 DEF Accounted, Ordered
        <3>4. j \in (n + 1)..len /\ j + 1 \in (i + 1)..(len + 1)
            BY <3>1, <3>3
        <3>5. u[j + 1] = Left(x)
            BY <1>5, <3>3, <3>4
        <3>. QED
            BY <3>4, <3>5
    <2>5. i \in 1..n \/ i \in (n + 2)..(len + 1)
        BY <2>1, <2>2
    <2>. QED
        BY <2>3, <2>4, <2>5
<1>. QED
    BY <1>2, <1>4, <1>6, <1>7 DEF Accounted

(* Another event is posted.                                                *)
LEMMA Posted ==
    ASSUME NEW q \in Seq(AuthEvent), NEW A, NEW D, Accounted(A, q, D), NEW ev \in AuthEvent,
           ev.type # "ClientConnectedMessage"
    PROVE  Accounted(A, Append(q, ev), D)
<1>1. \A u : ev # Arrived(u)
    BY DEF Arrived
<1>2. Tells(D, D, q, Append(q, ev))
    BY <1>1, TellsOne
<1>. QED
    BY <1>2, Told

LEMMA Fewer ==
    ASSUME NEW A, NEW q, NEW D, Accounted(A, q, D), NEW A2, A2 \subseteq A
    PROVE  Accounted(A2, q, D)
BY DEF Accounted, Reported

-----------------------------------------------------------------------------
(* The inductive invariant                                                 *)

AllAccounted == Accounted(InGame(auth), authq, DOMAIN game.sessions)

(* Only an arrival makes a session count as in game, and a leaving ends it.*)
LEMMA CountedInGame ==
    ASSUME AuthTypeOK, gameq \in Seq(GameEvent), HandleAuthEvent, NEW t \in InGame(auth')
    PROVE  /\ t \in InGame(auth) \/ (t \in Held /\ Head(authq) = Arrived(t))
           /\ Head(authq) # Left(t)
<1>1. PICK ev : ev = Head(authq)
    OBVIOUS
<1>2. /\ Left(t).type = "ClientDisconnectedMessage" /\ Left(t).token = t
      /\ Arrived(ev.token) = [type |-> "ClientConnectedMessage", token |-> ev.token]
    BY DEF Left, Arrived
<1>3. CASE OnClientConnectedToOtherServer
    <2>1. ev \in AuthEvent /\ ev.type = "ClientConnectedMessage"
        BY <1>1, <1>3, AuthHead DEF OnClientConnectedToOtherServer, Handles
    <2>2. ev.token \in Held /\ ev = Arrived(ev.token)
        BY <2>1, <1>2, AuthEventFields
    <2>3. t \in InGame(auth) \/ t = ev.token
        BY <1>1, <1>3, OnClientConnectedToOtherServerTypes
    <2>. QED
        BY <1>1, <1>2, <2>1, <2>2, <2>3
<1>4. CASE OnClientDisconnectedFromOtherServer
    <2>1. t \in InGame(auth) /\ t # ev.token
        BY <1>1, <1>4, OnClientDisconnectedFromOtherServerTypes
    <2>. QED
        BY <1>1, <1>2, <2>1
<1>5. CASE \/ OnConnect \/ OnDisconnect \/ OnLogin \/ OnRetrieveAccountResponse \/ OnDbError
           \/ OnServerListRequest \/ OnServerSelected \/ OnClientExpected
    <2>1. ev.type # "ClientDisconnectedMessage"
        BY <1>1, <1>5
        DEF OnConnect, OnDisconnect, OnLogin, OnRetrieveAccountResponse, OnDbError,
            OnServerListRequest, OnServerSelected, OnClientExpected, Handles
    <2>2. t \in InGame(auth)
        BY <1>5, OnConnectTypes, OnDisconnectTypes, OnLoginTypes,
           OnRetrieveAccountResponseTypes, OnDbErrorTypes, OnServerListRequestTypes,
           OnServerSelectedTypes, OnClientExpectedTypes
    <2>. QED
        BY <1>1, <1>2, <2>1, <2>2
<1>. QED
    BY <1>3, <1>4, <1>5 DEF HandleAuthEvent

LEMMA AuthStepAccounts ==
    ASSUME TypeOK, AllAccounted, AuthStep
    PROVE  AllAccounted'
<1>1. AuthTypeOK /\ authq \in Seq(AuthEvent) /\ gameq \in Seq(GameEvent)
    BY DEF TypeOK, AuthTypeOK, GameTypeOK
<1>2. HandleAuthEvent /\ UNCHANGED game
    BY DEF AuthStep, gameOnly
<1>3. authq # << >> /\ authq' = Tail(authq)
    BY <1>1, <1>2, HandleAuthEventTypes
<1>4. \A t \in InGame(auth') : /\ t \in InGame(auth) \/ (t \in Held /\ Head(authq) = Arrived(t))
                               /\ Head(authq) # Left(t)
    BY <1>1, <1>2, CountedInGame
<1>5. PICK A2 : A2 = InGame(auth')
    OBVIOUS
<1>6. Accounted(A2, Tail(authq), DOMAIN game.sessions)
    BY <1>1, <1>3, <1>4, <1>5, Dealt DEF AllAccounted
<1>. QED
    BY <1>2, <1>3, <1>5, <1>6 DEF AllAccounted

LEMMA LinkAccounts ==
    ASSUME TypeOK, AllAccounted, NEW c \in Clients, UNCHANGED <<auth, game>>,
           LinkOpen(c) \/ Inputs(c) \/ LinkClose(c) \/ LinkFinish(c)
    PROVE  AllAccounted'
<1>1. authq \in Seq(AuthEvent) /\ alink[c].token \in Token
    BY DEF TypeOK, AuthTypeOK, AuthLinks
<1>2. CASE LinkOpen(c) \/ Inputs(c)
    <2>1. PICK type \in {"Connect", "LoginRequest", "ServerListRequest", "ServerSelectRequest"} :
             authq' = Append(authq, [type |-> type, link |-> c])
        BY <1>2 DEF LinkOpen, Inputs, ClientInput, LinkInput, Requested
    <2>2. PICK ev \in AuthEvent : ev = [type |-> type, link |-> c]
        BY <2>1, AuthEvents
    <2>3. ev.type # "ClientConnectedMessage"
        BY <2>1, <2>2
    <2>4. Accounted(InGame(auth), Append(authq, ev), DOMAIN game.sessions)
        BY <1>1, <2>2, <2>3, Posted DEF AllAccounted
    <2>. QED
        BY <2>1, <2>2, <2>4 DEF AllAccounted
<1>3. CASE LinkClose(c) \/ LinkFinish(c)
    <2>1. authq' = Urgently(authq, [type |-> "Disconnect", token |-> alink[c].token])
        BY <1>3 DEF LinkClose, LinkFinish, Disconnected
    <2>2. Accounted(InGame(auth), authq', DOMAIN game.sessions)
        BY <1>1, <2>1, Overtaken DEF AllAccounted
    <2>. QED
        BY <2>2 DEF AllAccounted
<1>. QED
    BY <1>2, <1>3

LEMMA AuthDbAccounts ==
    ASSUME TypeOK, AllAccounted, UNCHANGED <<auth, game>>, RetrieveAccount \/ AuthDbFails
    PROVE  AllAccounted'
<1>1. authq \in Seq(AuthEvent) /\ Head(authdb) \in Held
    BY QueueOps DEF TypeOK, AuthTypeOK, RetrieveAccount, AuthDbFails
<1>2. PICK ev \in AuthEvent : /\ authq' = Append(authq, ev)
                              /\ ev.type # "ClientConnectedMessage"
    <2>1. CASE RetrieveAccount
        <3>1. PICK a \in Accounts \union {NoAccount} :
                 authq' = Append(authq, [type |-> "RetrieveAccountResponse",
                                         token |-> Head(authdb), account |-> a])
            BY <2>1 DEF RetrieveAccount
        <3>. QED
            BY <1>1, <3>1, AuthEvents
    <2>2. CASE AuthDbFails
        BY <1>1, <2>2, AuthEvents DEF AuthDbFails
    <2>. QED
        BY <2>1, <2>2
<1>3. Accounted(InGame(auth), Append(authq, ev), DOMAIN game.sessions)
    BY <1>1, <1>2, Posted DEF AllAccounted
<1>. QED
    BY <1>2, <1>3 DEF AllAccounted

LEMMA GameAccounts ==
    ASSUME TypeOK, AllAccounted, UNCHANGED auth,
           Tells(DOMAIN game.sessions, DOMAIN game'.sessions, authq, authq')
    PROVE  AllAccounted'
<1>1. authq \in Seq(AuthEvent)
    BY DEF TypeOK, AuthTypeOK
<1>2. Accounted(InGame(auth), authq', DOMAIN game'.sessions)
    BY <1>1, Told DEF AllAccounted
<1>. QED
    BY <1>2 DEF AllAccounted

LEMMA StepAccounts ==
    ASSUME TypeOK, AllAccounted, [Next]_vars
    PROVE  AllAccounted'
<1>1. CASE AuthStep
    BY <1>1, AuthStepAccounts
<1>2. CASE GameStep \/ \E stale \in 1..LastMark(game) : GameReaper(stale)
    BY <1>2, GameStepTypes, GameReaperTypes, GameAccounts
<1>3. ASSUME NEW stale, AuthReaper(stale) PROVE AllAccounted'
    <2>1. AuthTypeOK /\ ReapAuth(stale)
        BY <1>3 DEF TypeOK, AuthReaper
    <2>2. InGame(auth') \subseteq InGame(auth) /\ UNCHANGED <<authq, game>>
        BY <1>3, <2>1, ReapAuthTypes DEF AuthReaper, ReapAuth, gameOnly
    <2>3. PICK A2 : A2 = InGame(auth')
        OBVIOUS
    <2>. QED
        BY <2>2, <2>3, Fewer DEF AllAccounted
<1>4. CASE AuthDbStep
    BY <1>4, DatabaseTypes, AuthDbAccounts DEF AuthDbStep
<1>5. CASE UNCHANGED <<auth, authq, game>>
    BY <1>5 DEF AllAccounted
<1>6. CASE GameDbStep \/ \E t \in 1..MaxSessions : MapStep(t)
    BY <1>5, <1>6, DatabaseTypes DEF GameDbStep, MapStep
<1>7. ASSUME NEW c \in Clients, ClientStep(c) PROVE AllAccounted'
    <2>1. UNCHANGED <<auth, game>>
        BY <1>7, ClientTypes
    <2>2. CASE LinkOpen(c) \/ Inputs(c) \/ LinkClose(c) \/ LinkFinish(c)
        BY <2>1, <2>2, LinkAccounts
    <2>3. CASE UNCHANGED authq
        BY <1>5, <2>1, <2>3
    <2>. QED
        BY <1>7, <2>2, <2>3, AskedInput
        DEF ClientStep, Opens, Closes, Finishes, EntersGame, AsksForMap, Leaves,
            EntersMap, GivesUp
<1>8. CASE UNCHANGED vars
    BY <1>5, <1>8 DEF vars, authOnly, gameOnly
<1>. QED
    BY <1>1, <1>2, <1>3, <1>4, <1>6, <1>7, <1>8 DEF Next, ServerStep

LEMMA InitAccounts ==
    ASSUME Init
    PROVE  AllAccounted
<1>1. InGame(auth) = {} /\ authq = << >>
    BY DEF Init, AuthInit, EmptyStore, InGame
<1>2. 1..Len(authq) = {}
    BY <1>1
<1>. QED
    BY <1>1, <1>2 DEF AllAccounted, Accounted, Reported, Ordered

LEMMA AccountedIsThere ==
    ASSUME TypeOK, AllAccounted
    PROVE  InGameIsThere
<1>1. authq \in Seq(AuthEvent)
    BY DEF TypeOK, AuthTypeOK
<1>2. ASSUME NEW t \in DOMAIN auth.sessions, auth.sessions[t].in_game
      PROVE  Holds(game, t) \/ Left(t) \in ToSet(authq)
    <2>1. t \in InGame(auth)
        BY <1>2 DEF InGame
    <2>2. t \in DOMAIN game.sessions \/ \E i \in 1..Len(authq) : authq[i] = Left(t)
        BY <2>1 DEF AllAccounted, Accounted, Reported
    <2>. QED
        BY <1>1, <2>2 DEF Holds, ToSet
<1>. QED
    BY <1>2 DEF InGameIsThere, Left

(* A session the authentication handler counts as in game is one the game  *)
(* handler holds, or its leaving is in the queue, whatever the order of    *)
(* the events and whenever the reapers run (AuthHandler.cpp:393-412,       *)
(* GameHandler.cpp:144-162, 243-297, 448-460).                             *)
THEOREM InGameSessionsAreThere == Spec => []InGameIsThere
<1>1. Init => TypeOK /\ AllAccounted
    BY InitTypes, InitAccounts
<1>2. TypeOK /\ AllAccounted /\ [Next]_vars => (TypeOK /\ AllAccounted)'
    BY StepTypes, StepAccounts
<1>3. TypeOK /\ AllAccounted => InGameIsThere
    BY AccountedIsThere
<1>. QED
    BY <1>1, <1>2, <1>3, PTL DEF Spec

-----------------------------------------------------------------------------
(* The sessions, when n is the next token and ls are the links             *)

(* A token that was given out, of a session with an account, or one gone   *)
Known(st, n, t) ==
    t < n /\ (Holds(st, t) => st.sessions[t].auth_id # NoAccount)

(* One of a session that waits for the database, or one gone               *)
Temporary(st, n, t) ==
    t < n /\ (Holds(st, t) => /\ st.sessions[t].auth_id = NoAccount
                              /\ st.sessions[t].link # NoLink)

IdsOK(st) ==
    \A a \in Accounts : st.id_to_token[a] # NoToken =>
       /\ Holds(st, st.id_to_token[a])
       /\ st.sessions[st.id_to_token[a]].auth_id = a

(* A reaper's entry destroys its own session, or none.                     *)
Mark == {e \in WaitingSession(Held, Token) : e.token \in {e.session, NoToken}}

LinksOK(st, ls) ==
    \A t \in DOMAIN st.sessions :
       LET s == st.sessions[t]
       IN  s.auth_id # NoAccount /\ s.link # NoLink => ls[s.link].token = t

StagesOK(ls) ==
    \A c \in Clients :
       ls[c].token = NoToken <=> ls[c].stage \in {"none", "INITIAL", "CONNECTED"}

Sound(st, ls, n) ==
    /\ IdsOK(st)
    /\ st.waiting \in Seq(Mark)
    /\ \A t \in DOMAIN st.sessions : t < n
    /\ LinksOK(st, ls)
    /\ StagesOK(ls)
    /\ \A c \in Clients : ls[c].token = NoToken \/ Known(st, n, ls[c].token)

-----------------------------------------------------------------------------
(* What is on its way                                                      *)

AuthGood(st, ls, n) ==
    {ev \in AuthEvent :
       /\ ev.type = "Disconnect" => ev.token = NoToken \/ Known(st, n, ev.token)
       /\ ev.type = "ExpectClientResponse" => Known(st, n, ev.token)
       /\ ev.type \in {"RetrieveAccountResponse", "AuthDbStatusMessage"} =>
             Temporary(st, n, ev.token)
       /\ ev.type = "ServerListRequest" => ls[ev.link].token # NoToken}

GameGood(st, n) ==
    {ev \in GameEvent : ev.type = "ExpectClientRequest" => Known(st, n, ev.token)}

DbGood(st, n) == {t \in Held : Temporary(st, n, t)}

(* The events the login of the client on link l consists of, and its       *)
(* requests to the database.  What it asks once it is logged in is none.   *)
Logins(st, l, c) ==
    {ev \in AuthEvent :
       \/ ev.type = "Connect" /\ ev.link = c
       \/ ev.type = "LoginRequest" /\ ev.link = c /\ l.token = NoToken
       \/ /\ ev.type \in {"RetrieveAccountResponse", "AuthDbStatusMessage"}
          /\ Holds(st, ev.token) /\ st.sessions[ev.token].link = c}

Requests(st, c) == {t \in DOMAIN st.sessions : st.sessions[t].link = c}

Some(q, S) == \E i \in 1..Len(q) : q[i] \in S

Alone(q, S) == \A i, j \in 1..Len(q) : q[i] \in S /\ q[j] \in S => i = j

(* The client has asked and was not answered, and has no session yet.      *)
Waits(l) == l.asked /\ l.stage # "none" /\ l.token = NoToken

Idle(aq, db, A, B) == ~Some(aq, A) /\ ~Some(db, B)

OnePending(l, aq, db, A, B) ==
    /\ Alone(aq, A) /\ Alone(db, B)
    /\ ~(Some(aq, A) /\ Some(db, B))
    /\ Waits(l) \/ Idle(aq, db, A, B)

Queued(st, ls, n, aq, gq, db) ==
    /\ aq \in Seq(AuthGood(st, ls, n))
    /\ gq \in Seq(GameGood(st, n))
    /\ db \in Seq(DbGood(st, n))
    /\ \A c \in Clients :
          OnePending(ls[c], aq, db, Logins(st, ls[c], c), Requests(st, c))

LoginInv ==
    /\ TypeOK
    /\ Sound(auth, alink, last_session_id)
    /\ Queued(auth, alink, last_session_id, authq, gameq, authdb)

-----------------------------------------------------------------------------
(* Queues                                                                  *)

LEMMA Elements ==
    ASSUME NEW E, NEW q \in Seq(E), NEW F, \A i \in 1..Len(q) : q[i] \in F
    PROVE  q \in Seq(F)
OBVIOUS

(* The first event is taken: if it was one of S it was the only one.       *)
LEMMA Shortened ==
    ASSUME NEW E, NEW q \in Seq(E), q # << >>, NEW S, Alone(q, S)
    PROVE  /\ Alone(Tail(q), S)
           /\ Head(q) \in S => ~Some(Tail(q), S)
           /\ Some(Tail(q), S) => Some(q, S)
           /\ \A i \in 1..Len(Tail(q)) : \E j \in 1..Len(q) : Tail(q)[i] = q[j]
<1>1. PICK n \in Nat : n + 1 = Len(q)
    <2>1. Len(q) \in Nat /\ Len(q) # 0
        OBVIOUS
    <2>2. (Len(q) - 1) \in Nat /\ (Len(q) - 1) + 1 = Len(q)
        BY <2>1
    <2>. QED
        BY <2>2
<1>2. PICK r : r = Tail(q)
    OBVIOUS
<1>3. Len(r) = n /\ \A i \in 1..n : r[i] = q[i + 1]
    BY <1>1, <1>2
<1>4. Head(q) = q[1] /\ 1 \in 1..(n + 1)
    OBVIOUS
<1>5. \A i \in 1..n : i + 1 \in 1..(n + 1) /\ i + 1 # 1
    OBVIOUS
<1>6. Alone(r, S)
    BY <1>1, <1>3, <1>5 DEF Alone
<1>7. Head(q) \in S => ~Some(r, S)
    BY <1>1, <1>3, <1>4, <1>5 DEF Alone, Some
<1>8. Some(r, S) => Some(q, S)
    BY <1>1, <1>3, <1>5 DEF Some
<1>9. \A i \in 1..Len(r) : \E j \in 1..Len(q) : r[i] = q[j]
    BY <1>1, <1>3, <1>5
<1>. QED
    BY <1>2, <1>6, <1>7, <1>8, <1>9

(* q2 is q with more at its end.                                           *)
Grows(q, q2, m) ==
    /\ m \in Nat
    /\ Len(q2) = Len(q) + m
    /\ \A i \in 1..Len(q) : q2[i] = q[i]

LEMMA Grown ==
    ASSUME NEW E, NEW q \in Seq(E), NEW q2, NEW m, Grows(q, q2, m), NEW S, Alone(q, S),
           \A i \in (Len(q) + 1)..(Len(q) + m) : q2[i] \notin S
    PROVE  Alone(q2, S) /\ (Some(q2, S) => Some(q, S))
<1>1. PICK n \in Nat : n = Len(q)
    OBVIOUS
<1>2. \A i \in 1..(n + m) : i \in 1..n \/ i \in (n + 1)..(n + m)
    BY DEF Grows
<1>3. \A i \in 1..Len(q2) : q2[i] \in S => i \in 1..n /\ q2[i] = q[i]
    BY <1>1, <1>2 DEF Grows
<1>. QED
    BY <1>1, <1>3 DEF Alone, Some

LEMMA Appended ==
    ASSUME NEW E, NEW q \in Seq(E), NEW ev, NEW S, Alone(q, S)
    PROVE  /\ ev \notin S => /\ Alone(Append(q, ev), S)
                             /\ Some(Append(q, ev), S) => Some(q, S)
           /\ ~Some(q, S) => Alone(Append(q, ev), S)
<1>1. PICK n \in Nat : n = Len(q)
    OBVIOUS
<1>2. PICK r : r = Append(q, ev)
    OBVIOUS
<1>3. Len(r) = n + 1 /\ r[n + 1] = ev /\ \A i \in 1..n : r[i] = q[i]
    BY <1>1, <1>2
<1>4. \A i \in 1..(n + 1) : i \in 1..n \/ i = n + 1
    OBVIOUS
<1>5. ev \notin S => Alone(r, S) /\ (Some(r, S) => Some(q, S))
    BY <1>1, <1>3, <1>4 DEF Alone, Some
<1>6. ~Some(q, S) => Alone(r, S)
    BY <1>1, <1>3, <1>4 DEF Alone, Some
<1>. QED
    BY <1>2, <1>5, <1>6

LEMMA Overtaking ==
    ASSUME NEW q \in Seq(AuthEvent), NEW ev \in AuthEvent, NEW S, Alone(q, S), ev \notin S
    PROVE  Alone(Urgently(q, ev), S) /\ (Some(Urgently(q, ev), S) => Some(q, S))
<1>1. PICK len \in Nat : len = Len(q)
    OBVIOUS
<1>2. PICK u : u = Urgently(q, ev)
    OBVIOUS
<1>3. PICK n \in 0..len :
         /\ Len(u) = len + 1
         /\ u[n + 1] = ev
         /\ \A i \in 1..n : u[i] = q[i]
         /\ \A i \in (n + 1)..len : u[i + 1] = q[i]
    <2>1. Inserts(u, q, ev)
        BY <1>2, UrgentlyInserts
    <2>. QED
        BY <2>1, <1>1, Zenon DEF Inserts
<1>4. \A i \in 1..(len + 1) : \/ i \in 1..n
                              \/ i = n + 1
                              \/ i \in (n + 2)..(len + 1)
    OBVIOUS
<1>5. \A i \in (n + 2)..(len + 1) : /\ i - 1 \in (n + 1)..len
                                    /\ (i - 1) + 1 = i
    OBVIOUS
<1>6. \A i \in (n + 2)..(len + 1) : u[i] = q[i - 1]
    BY <1>3, <1>5
<1>7. \A i \in 1..(len + 1) : u[i] \in S =>
         \/ i \in 1..n /\ u[i] = q[i]
         \/ i \in (n + 2)..(len + 1) /\ u[i] = q[i - 1]
    BY <1>3, <1>4, <1>6
<1>8. /\ \A i \in 1..n : i \in 1..len
      /\ \A i \in (n + 2)..(len + 1) : i - 1 \in 1..len
      /\ \A i \in 1..n, j \in (n + 2)..(len + 1) : i # j - 1
      /\ \A i, j \in (n + 2)..(len + 1) : i - 1 = j - 1 => i = j
    OBVIOUS
<1>9. ASSUME NEW i \in 1..(len + 1), NEW j \in 1..(len + 1), u[i] \in S, u[j] \in S
      PROVE  i = j
    <2>1. \A k, l \in 1..len : q[k] \in S /\ q[l] \in S => k = l
        BY <1>1 DEF Alone
    <2>. QED
        BY <1>7, <1>8, <1>9, <2>1
<1>10. Some(u, S) => Some(q, S)
    BY <1>1, <1>3, <1>7, <1>8 DEF Some
<1>. QED
    BY <1>2, <1>3, <1>9, <1>10 DEF Alone

-----------------------------------------------------------------------------
(* What a client has on its way                                            *)

LEMMA NothingPending ==
    ASSUME NEW l, NEW aq, NEW db, NEW A, NEW B, Idle(aq, db, A, B)
    PROVE  OnePending(l, aq, db, A, B)
BY DEF Idle, OnePending, Alone, Some

LEMMA FewerPending ==
    ASSUME NEW l, NEW aq, NEW db, NEW A, NEW B, OnePending(l, aq, db, A, B),
           NEW l2, Waits(l) => Waits(l2), NEW A2, NEW B2,
           \A i \in 1..Len(aq) : aq[i] \in A2 => aq[i] \in A,
           \A i \in 1..Len(db) : db[i] \in B2 => db[i] \in B
    PROVE  OnePending(l2, aq, db, A2, B2)
<1>1. Some(aq, A2) => Some(aq, A)
    BY DEF Some
<1>2. Some(db, B2) => Some(db, B)
    BY DEF Some
<1>3. Alone(aq, A2) /\ Alone(db, B2)
    BY DEF Alone, OnePending
<1>. QED
    BY <1>1, <1>2, <1>3 DEF OnePending, Idle

(* Only what counts about the link                                         *)
LEMMA LinkPending ==
    ASSUME NEW l, NEW aq, NEW db, NEW A, NEW B, OnePending(l, aq, db, A, B),
           NEW l2, Waits(l) => Waits(l2)
    PROVE  OnePending(l2, aq, db, A, B)
BY FewerPending

LEMMA HandledPending ==
    ASSUME NEW E, NEW aq \in Seq(E), aq # << >>, NEW l, NEW db, NEW A, NEW B,
           OnePending(l, aq, db, A, B)
    PROVE  /\ OnePending(l, Tail(aq), db, A, B)
           /\ Head(aq) \in A => Idle(Tail(aq), db, A, B)
           /\ Idle(aq, db, A, B) => Idle(Tail(aq), db, A, B)
<1>1. /\ Alone(Tail(aq), A)
      /\ Head(aq) \in A => ~Some(Tail(aq), A)
      /\ Some(Tail(aq), A) => Some(aq, A)
    BY Shortened DEF OnePending
<1>2. Head(aq) \in A => Some(aq, A)
    <2>1. Head(aq) = aq[1] /\ 1 \in 1..Len(aq)
        OBVIOUS
    <2>. QED
        BY <2>1 DEF Some
<1>. QED
    BY <1>1, <1>2 DEF OnePending, Idle

LEMMA GrownPending ==
    ASSUME NEW E, NEW aq \in Seq(E), NEW aq2, NEW m, Grows(aq, aq2, m),
           NEW l, NEW db, NEW A, NEW B, OnePending(l, aq, db, A, B),
           \A i \in (Len(aq) + 1)..(Len(aq) + m) : aq2[i] \notin A
    PROVE  OnePending(l, aq2, db, A, B)
<1>1. Alone(aq2, A) /\ (Some(aq2, A) => Some(aq, A))
    BY Grown DEF OnePending
<1>. QED
    BY <1>1 DEF OnePending, Idle

LEMMA AppendedPending ==
    ASSUME NEW E, NEW aq \in Seq(E), NEW ev, NEW l, NEW db, NEW A, NEW B,
           OnePending(l, aq, db, A, B)
    PROVE  /\ ev \notin A => OnePending(l, Append(aq, ev), db, A, B)
           /\ Idle(aq, db, A, B) =>
                 \A l2 : Waits(l2) => OnePending(l2, Append(aq, ev), db, A, B)
<1>1. ev \notin A => /\ Alone(Append(aq, ev), A)
                     /\ Some(Append(aq, ev), A) => Some(aq, A)
    BY Appended DEF OnePending
<1>2. ~Some(aq, A) => Alone(Append(aq, ev), A)
    BY Appended DEF OnePending
<1>. QED
    BY <1>1, <1>2 DEF OnePending, Idle

LEMMA OvertakenPending ==
    ASSUME NEW aq \in Seq(AuthEvent), NEW ev \in AuthEvent, NEW l, NEW db, NEW A, NEW B,
           OnePending(l, aq, db, A, B), ev \notin A
    PROVE  OnePending(l, Urgently(aq, ev), db, A, B)
<1>1. Alone(Urgently(aq, ev), A) /\ (Some(Urgently(aq, ev), A) => Some(aq, A))
    BY Overtaking DEF OnePending
<1>. QED
    BY <1>1 DEF OnePending, Idle

(* A login becomes a request to the database ...                           *)
LEMMA AskedPending ==
    ASSUME NEW E, NEW D, NEW aq \in Seq(E), aq # << >>, NEW l, NEW db \in Seq(D),
           NEW A, NEW B, OnePending(l, aq, db, A, B),
           NEW t, t \in B => Head(aq) \in A
    PROVE  OnePending(l, Tail(aq), Append(db, t), A, B)
<1>1. /\ OnePending(l, Tail(aq), db, A, B)
      /\ Head(aq) \in A => Idle(Tail(aq), db, A, B)
    BY HandledPending
<1>2. /\ t \notin B => /\ Alone(Append(db, t), B)
                       /\ Some(Append(db, t), B) => Some(db, B)
      /\ ~Some(db, B) => Alone(Append(db, t), B)
    BY Appended DEF OnePending
<1>3. Head(aq) \in A => Waits(l)
    <2>1. Head(aq) = aq[1] /\ 1 \in 1..Len(aq)
        OBVIOUS
    <2>. QED
        BY <2>1 DEF OnePending, Idle, Some
<1>. QED
    BY <1>1, <1>2, <1>3 DEF OnePending, Idle

(* ... and this an answer.                                                 *)
LEMMA AnsweredPending ==
    ASSUME NEW E, NEW D, NEW aq \in Seq(E), NEW l, NEW db \in Seq(D), db # << >>,
           NEW A, NEW B, OnePending(l, aq, db, A, B),
           NEW ev, ev \in A => Head(db) \in B
    PROVE  OnePending(l, Append(aq, ev), Tail(db), A, B)
<1>1. /\ Alone(Tail(db), B)
      /\ Head(db) \in B => ~Some(Tail(db), B)
      /\ Some(Tail(db), B) => Some(db, B)
    BY Shortened DEF OnePending
<1>2. /\ ev \notin A => /\ Alone(Append(aq, ev), A)
                        /\ Some(Append(aq, ev), A) => Some(aq, A)
      /\ ~Some(aq, A) => Alone(Append(aq, ev), A)
    BY Appended DEF OnePending
<1>3. Head(db) \in B => Some(db, B)
    <2>1. Head(db) = db[1] /\ 1 \in 1..Len(db)
        OBVIOUS
    <2>. QED
        BY <2>1 DEF Some
<1>. QED
    BY <1>1, <1>2, <1>3 DEF OnePending, Idle

-----------------------------------------------------------------------------
(* The store                                                               *)

(* The reaper's entries and the active sessions may differ.                *)
SameSessions(st, st2) ==
    /\ st2 \in AuthStore
    /\ st2.sessions = st.sessions
    /\ st2.id_to_token = st.id_to_token
    /\ st2.waiting \in Seq(Mark)

LEMMA MarkOne ==
    ASSUME NEW st \in AuthStore, st.waiting \in Seq(Mark), NEW t \in Held,
           NEW m \in {t, NoToken}
    PROVE  SameSessions(st, mark_session_for_reaping(st, t, m))
<1>1. m \in Token
    BY HeldFacts
<1>2. PICK k \in Nat : k = LastMark(st)
    BY StoreFields, LastMarkType DEF AuthStore
<1>3. [session |-> t, token |-> m, since |-> k + 1] \in Mark
    BY <1>1 DEF Mark, WaitingSession
<1>4. PICK w : w = Append(st.waiting, [session |-> t, token |-> m, since |-> k + 1])
    OBVIOUS
<1>5. w \in Seq(Mark)
    BY <1>3, <1>4
<1>6. PICK st2 : st2 = mark_session_for_reaping(st, t, m)
    OBVIOUS
<1>7. st2 = [st EXCEPT !.waiting = w]
    BY <1>2, <1>4, <1>6 DEF mark_session_for_reaping
<1>8. st2 \in AuthStore /\ st2.sessions = st.sessions
    BY <1>1, <1>6, MarkType DEF AuthStore
<1>9. st2.id_to_token = st.id_to_token /\ st2.waiting = w
    BY <1>7, StoreFields DEF AuthStore
<1>. QED
    BY <1>5, <1>6, <1>8, <1>9 DEF SameSessions

LEMMA UnmarkOne ==
    ASSUME NEW st \in AuthStore, st.waiting \in Seq(Mark), NEW t
    PROVE  SameSessions(st, unmark_session_for_reaping(st, t))
<1>. DEFINE found == {i \in DOMAIN st.waiting : st.waiting[i].session = t}
<1>1. found \subseteq DOMAIN st.waiting
    OBVIOUS
<1>2. PICK w : w = SwapFirst(st.waiting, found)
    OBVIOUS
<1>3. w \in Seq(Mark)
    BY <1>1, <1>2, SwapFirstType
<1>4. PICK st2 : st2 = unmark_session_for_reaping(st, t)
    OBVIOUS
<1>5. st2 = [st EXCEPT !.waiting = w]
    BY <1>2, <1>4 DEF unmark_session_for_reaping
<1>6. st2 \in AuthStore /\ st2.sessions = st.sessions
    BY <1>4, UnmarkType DEF AuthStore
<1>7. st2.id_to_token = st.id_to_token /\ st2.waiting = w
    BY <1>5, StoreFields DEF AuthStore
<1>. QED
    BY <1>3, <1>4, <1>6, <1>7 DEF SameSessions

LEMMA ActivateOne ==
    ASSUME NEW st \in AuthStore, st.waiting \in Seq(Mark), NEW t \in Held
    PROVE  /\ SameSessions(st, add_to_active_sessions(st, t))
           /\ SameSessions(st, remove_from_active_sessions(st, t))
<1>1. /\ add_to_active_sessions(st, t) \in AuthStore
      /\ add_to_active_sessions(st, t).sessions = st.sessions
    BY ActiveType DEF AuthStore
<1>2. /\ remove_from_active_sessions(st, t) \in AuthStore
      /\ remove_from_active_sessions(st, t).sessions = st.sessions
    BY InactiveType DEF AuthStore
<1>3. /\ add_to_active_sessions(st, t).id_to_token = st.id_to_token
      /\ add_to_active_sessions(st, t).waiting = st.waiting
    BY StoreFields DEF add_to_active_sessions, AuthStore
<1>4. /\ remove_from_active_sessions(st, t).id_to_token = st.id_to_token
      /\ remove_from_active_sessions(st, t).waiting = st.waiting
    BY StoreFields DEF remove_from_active_sessions, AuthStore
<1>. QED
    BY <1>1, <1>2, <1>3, <1>4 DEF SameSessions

(* One session has changed, to s.                                          *)
Amended(st, st2, t, s) ==
    /\ st2 \in AuthStore
    /\ DOMAIN st2.sessions = DOMAIN st.sessions
    /\ st2.sessions[t] = s
    /\ \A u \in DOMAIN st.sessions : u # t => st2.sessions[u] = st.sessions[u]
    /\ st2.id_to_token = st.id_to_token
    /\ st2.waiting = st.waiting
    /\ st2.active = st.active

LEMMA AmendOne ==
    ASSUME NEW st \in AuthStore, NEW t \in DOMAIN st.sessions, NEW s \in AuthSessions
    PROVE  Amended(st, Amend(st, t, s), t, s)
<1>1. /\ Amend(st, t, s) \in AuthStore
      /\ Amend(st, t, s).sessions = [st.sessions EXCEPT ![t] = s]
    BY AmendType DEF AuthStore
<1>2. PICK f : f = st.sessions
    OBVIOUS
<1>3. PICK T \in SUBSET Held : f \in [T -> AuthSessions]
    BY <1>2, StoreFields DEF AuthStore
<1>4. PICK g : g = [f EXCEPT ![t] = s]
    OBVIOUS
<1>5. /\ DOMAIN g = DOMAIN f /\ g[t] = s
      /\ \A u \in DOMAIN f : u # t => g[u] = f[u]
    BY <1>2, <1>3, <1>4
<1>6. /\ Amend(st, t, s).id_to_token = st.id_to_token
      /\ Amend(st, t, s).waiting = st.waiting
      /\ Amend(st, t, s).active = st.active
    BY StoreFields DEF Amend, AuthStore
<1>. QED
    BY <1>1, <1>2, <1>4, <1>5, <1>6 DEF Amended

-----------------------------------------------------------------------------
(* Steps by which no session gets an account                               *)

(* Sessions may go; the link of one with an account may.                   *)
Shrinks(st, st2) ==
    /\ DOMAIN st2.sessions \subseteq DOMAIN st.sessions
    /\ \A t \in DOMAIN st2.sessions :
          /\ st2.sessions[t].auth_id = st.sessions[t].auth_id
          /\ \/ st2.sessions[t].link = st.sessions[t].link
             \/ st2.sessions[t].link = NoLink /\ st.sessions[t].auth_id # NoAccount

SameTokens(ls, ls2) == \A c \in Clients : ls2[c].token = ls[c].token

LEMMA SameShrinks ==
    ASSUME NEW st, NEW st2, SameSessions(st, st2)
    PROVE  Shrinks(st, st2)
BY DEF SameSessions, Shrinks

LEMMA ShrunkKnown ==
    ASSUME NEW st, NEW st2, Shrinks(st, st2), NEW n, NEW t
    PROVE  /\ Known(st, n, t) => Known(st2, n, t)
           /\ Temporary(st, n, t) => Temporary(st2, n, t)
BY DEF Shrinks, Known, Temporary, Holds

LEMMA ShrunkRequests ==
    ASSUME NEW st, NEW st2, Shrinks(st, st2), NEW c \in Clients
    PROVE  Requests(st2, c) \subseteq Requests(st, c)
<1>1. c # NoLink
    BY HandoverAssumption
<1>. QED
    BY <1>1 DEF Shrinks, Requests

LEMMA ShrunkLogins ==
    ASSUME NEW st, NEW st2, Shrinks(st, st2), NEW c \in Clients, NEW l, NEW l2,
           l2.token = NoToken => l.token = NoToken
    PROVE  /\ Logins(st2, l2, c) \subseteq Logins(st, l, c)
           /\ Requests(st2, c) \subseteq Requests(st, c)
<1>1. c # NoLink
    BY HandoverAssumption
<1>2. \A t \in DOMAIN st2.sessions : st2.sessions[t].link = c =>
         t \in DOMAIN st.sessions /\ st.sessions[t].link = c
    BY <1>1 DEF Shrinks
<1>3. Requests(st2, c) \subseteq Requests(st, c)
    BY <1>2 DEF Requests
<1>4. Logins(st2, l2, c) \subseteq Logins(st, l, c)
    BY <1>2 DEF Logins, Holds
<1>. QED
    BY <1>3, <1>4

LEMMA ShrunkGood ==
    ASSUME NEW st, NEW st2, Shrinks(st, st2), NEW ls, NEW ls2, SameTokens(ls, ls2), NEW n
    PROVE  /\ AuthGood(st, ls, n) \subseteq AuthGood(st2, ls2, n)
           /\ GameGood(st, n) \subseteq GameGood(st2, n)
           /\ DbGood(st, n) \subseteq DbGood(st2, n)
<1>1. \A t : /\ Known(st, n, t) => Known(st2, n, t)
             /\ Temporary(st, n, t) => Temporary(st2, n, t)
    BY ShrunkKnown
<1>2. ASSUME NEW ev \in AuthGood(st, ls, n)
      PROVE  ev \in AuthGood(st2, ls2, n)
    <2>1. ev.type = "ServerListRequest" => ls2[ev.link].token # NoToken
        <3>1. ev.type = "ServerListRequest" => ev.link \in Clients
            BY <1>2, AuthEventFields DEF AuthGood
        <3>. QED
            BY <1>2, <3>1 DEF AuthGood, SameTokens
    <2>. QED
        BY <1>1, <1>2, <2>1 DEF AuthGood
<1>3. GameGood(st, n) \subseteq GameGood(st2, n)
    BY <1>1 DEF GameGood
<1>4. DbGood(st, n) \subseteq DbGood(st2, n)
    BY <1>1 DEF DbGood
<1>. QED
    BY <1>2, <1>3, <1>4

LEMMA ShrunkSound ==
    ASSUME NEW st \in AuthStore, NEW st2, Shrinks(st, st2), NEW ls, NEW ls2, SameTokens(ls, ls2),
           NEW n, Sound(st, ls, n),
           IdsOK(st2), st2.waiting \in Seq(Mark), StagesOK(ls2)
    PROVE  Sound(st2, ls2, n)
<1>1. \A t \in DOMAIN st2.sessions : t < n
    BY DEF Shrinks, Sound
<1>2. LinksOK(st2, ls2)
    <2>1. SUFFICES ASSUME NEW t \in DOMAIN st2.sessions,
                          st2.sessions[t].auth_id # NoAccount, st2.sessions[t].link # NoLink
                   PROVE  ls2[st2.sessions[t].link].token = t
        BY DEF LinksOK
    <2>2. /\ t \in DOMAIN st.sessions
          /\ st.sessions[t].auth_id # NoAccount
          /\ st2.sessions[t].link = st.sessions[t].link
        BY <2>1 DEF Shrinks
    <2>3. st.sessions[t].link \in Clients
        <3>1. st.sessions[t] \in AuthSessions
            BY <2>2, StoreFields DEF AuthStore
        <3>. QED
            BY <2>1, <2>2, <3>1 DEF AuthSessions
    <2>4. ls[st.sessions[t].link].token = t
        BY <2>1, <2>2 DEF Sound, LinksOK
    <2>. QED
        BY <2>2, <2>3, <2>4 DEF SameTokens
<1>3. \A c \in Clients : ls2[c].token = NoToken \/ Known(st2, n, ls2[c].token)
    BY ShrunkKnown DEF Sound, SameTokens
<1>. QED
    BY <1>1, <1>2, <1>3 DEF Sound

LEMMA SameSound ==
    ASSUME NEW st \in AuthStore, NEW st2, SameSessions(st, st2), NEW ls, NEW ls2, SameTokens(ls, ls2),
           NEW n, Sound(st, ls, n), StagesOK(ls2)
    PROVE  Sound(st2, ls2, n)
<1>1. IdsOK(st2)
    BY DEF SameSessions, Sound, IdsOK, Holds
<1>. QED
    BY <1>1, SameShrinks, ShrunkSound DEF SameSessions

LEMMA QueuesFacts ==
    ASSUME NEW st, NEW ls, NEW n, NEW aq, NEW gq, NEW db, Queued(st, ls, n, aq, gq, db)
    PROVE  /\ aq \in Seq(AuthGood(st, ls, n))
           /\ aq \in Seq(AuthEvent)
           /\ gq \in Seq(GameGood(st, n))
           /\ db \in Seq(DbGood(st, n))
           /\ \A c \in Clients :
                 OnePending(ls[c], aq, db, Logins(st, ls[c], c), Requests(st, c))
<1>1. AuthGood(st, ls, n) \subseteq AuthEvent
    BY DEF AuthGood
<1>2. aq \in Seq(AuthGood(st, ls, n))
    BY DEF Queued
<1>3. aq \in Seq(AuthEvent)
    BY <1>1, <1>2, Elements
<1>. QED
    BY <1>2, <1>3 DEF Queued

LEMMA ShrunkQueued ==
    ASSUME NEW st, NEW st2, Shrinks(st, st2), NEW ls, NEW ls2, SameTokens(ls, ls2), NEW n,
           NEW aq, NEW gq, NEW db, Queued(st, ls, n, aq, gq, db),
           \A c \in Clients : \/ Waits(ls[c]) => Waits(ls2[c])
                              \/ Idle(aq, db, Logins(st, ls[c], c), Requests(st, c))
    PROVE  Queued(st2, ls2, n, aq, gq, db)
<1>1. /\ aq \in Seq(AuthGood(st, ls, n))
      /\ gq \in Seq(GameGood(st, n))
      /\ db \in Seq(DbGood(st, n))
    BY QueuesFacts
<1>2. /\ aq \in Seq(AuthGood(st2, ls2, n))
      /\ gq \in Seq(GameGood(st2, n))
      /\ db \in Seq(DbGood(st2, n))
    <2>1. /\ AuthGood(st, ls, n) \subseteq AuthGood(st2, ls2, n)
          /\ GameGood(st, n) \subseteq GameGood(st2, n)
          /\ DbGood(st, n) \subseteq DbGood(st2, n)
        BY ShrunkGood
    <2>2. aq \in Seq(AuthGood(st2, ls2, n))
        BY <1>1, <2>1, Elements
    <2>3. gq \in Seq(GameGood(st2, n))
        BY <1>1, <2>1, Elements
    <2>4. db \in Seq(DbGood(st2, n))
        BY <1>1, <2>1, Elements
    <2>. QED
        BY <2>2, <2>3, <2>4
<1>3. ASSUME NEW c \in Clients
      PROVE  OnePending(ls2[c], aq, db, Logins(st2, ls2[c], c), Requests(st2, c))
    <2>1. /\ Logins(st2, ls2[c], c) \subseteq Logins(st, ls[c], c)
          /\ Requests(st2, c) \subseteq Requests(st, c)
        BY ShrunkLogins DEF SameTokens
    <2>2. OnePending(ls[c], aq, db, Logins(st, ls[c], c), Requests(st, c))
        BY QueuesFacts
    <2>3. OnePending(ls2[c], aq, db, Logins(st, ls[c], c), Requests(st, c))
        BY <2>2, LinkPending, NothingPending
    <2>4. PICK l, A, B, A2, B2 :
             /\ l = ls2[c]
             /\ A = Logins(st, ls[c], c) /\ B = Requests(st, c)
             /\ A2 = Logins(st2, ls2[c], c) /\ B2 = Requests(st2, c)
        OBVIOUS
    <2>5. A2 \subseteq A /\ B2 \subseteq B /\ OnePending(l, aq, db, A, B)
        BY <2>1, <2>3, <2>4
    <2>6. OnePending(l, aq, db, A2, B2)
        BY <2>5, FewerPending
    <2>. QED
        BY <2>4, <2>6
<1>. QED
    BY <1>2, <1>3 DEF Queued

(* The authentication handler takes its first event.                       *)
LEMMA HandledQueued ==
    ASSUME NEW st, NEW ls, NEW n, NEW aq, NEW gq, NEW db, Queued(st, ls, n, aq, gq, db),
           aq # << >>
    PROVE  /\ Queued(st, ls, n, Tail(aq), gq, db)
           /\ Head(aq) \in AuthGood(st, ls, n)
           /\ \A c \in Clients :
                 \/ Head(aq) \in Logins(st, ls[c], c)
                 \/ Idle(aq, db, Logins(st, ls[c], c), Requests(st, c))
                 => Idle(Tail(aq), db, Logins(st, ls[c], c), Requests(st, c))
<1>1. aq \in Seq(AuthGood(st, ls, n))
    BY QueuesFacts
<1>2. Head(aq) \in AuthGood(st, ls, n) /\ Tail(aq) \in Seq(AuthGood(st, ls, n))
    BY <1>1, QueueOps
<1>3. \A c \in Clients :
         /\ OnePending(ls[c], Tail(aq), db, Logins(st, ls[c], c), Requests(st, c))
         /\ Head(aq) \in Logins(st, ls[c], c) =>
               Idle(Tail(aq), db, Logins(st, ls[c], c), Requests(st, c))
         /\ Idle(aq, db, Logins(st, ls[c], c), Requests(st, c)) =>
               Idle(Tail(aq), db, Logins(st, ls[c], c), Requests(st, c))
    BY <1>1, QueuesFacts, HandledPending
<1>. QED
    BY <1>2, <1>3 DEF Queued

(* An event is put in the queue of the authentication handler.             *)
LEMMA PostedQueued ==
    ASSUME NEW st, NEW ls, NEW n, NEW aq, NEW gq, NEW db, Queued(st, ls, n, aq, gq, db),
           NEW ev \in AuthGood(st, ls, n),
           \A c \in Clients : ev \in Logins(st, ls[c], c) =>
              Waits(ls[c]) /\ Idle(aq, db, Logins(st, ls[c], c), Requests(st, c))
    PROVE  Queued(st, ls, n, Append(aq, ev), gq, db)
<1>1. aq \in Seq(AuthGood(st, ls, n))
    BY QueuesFacts
<1>2. Append(aq, ev) \in Seq(AuthGood(st, ls, n))
    BY <1>1, QueueOps
<1>3. \A c \in Clients :
         OnePending(ls[c], Append(aq, ev), db, Logins(st, ls[c], c), Requests(st, c))
    BY <1>1, QueuesFacts, AppendedPending
<1>. QED
    BY <1>2, <1>3 DEF Queued

LEMMA OvertakenQueued ==
    ASSUME NEW st, NEW ls, NEW n, NEW aq, NEW gq, NEW db, Queued(st, ls, n, aq, gq, db),
           NEW t \in Token, t = NoToken \/ Known(st, n, t)
    PROVE  Queued(st, ls, n, Urgently(aq, [type |-> "Disconnect", token |-> t]), gq, db)
<1>1. PICK ev \in AuthEvent : ev = [type |-> "Disconnect", token |-> t]
    BY AuthEvents
<1>2. ev \in AuthGood(st, ls, n) /\ \A c : ev \notin Logins(st, ls[c], c)
    BY <1>1 DEF AuthGood, Logins
<1>3. aq \in Seq(AuthGood(st, ls, n)) /\ aq \in Seq(AuthEvent)
    BY QueuesFacts
<1>4. Urgently(aq, ev) \in Seq(AuthGood(st, ls, n))
    BY <1>2, <1>3, UrgentlyInserts
<1>5. \A c \in Clients :
         OnePending(ls[c], Urgently(aq, ev), db, Logins(st, ls[c], c), Requests(st, c))
    BY <1>2, <1>3, QueuesFacts, OvertakenPending
<1>. QED
    BY <1>1, <1>4, <1>5, QueuesFacts DEF Queued

LEMMA UnchangedStore ==
    ASSUME NEW st \in AuthStore, NEW ls, NEW n, Sound(st, ls, n)
    PROVE  SameSessions(st, st)
BY DEF Sound, SameSessions

-----------------------------------------------------------------------------
(* The links and the account database                                      *)

LoginOK ==
    /\ Sound(auth, alink, last_session_id)
    /\ Queued(auth, alink, last_session_id, authq, gameq, authdb)

(* A link c changes, but not its token; it has nothing pending, or waits   *)
(* as before.                                                              *)
LEMMA LinkChanges ==
    ASSUME NEW st \in AuthStore, NEW ls, NEW ls2, NEW n, NEW aq, NEW gq, NEW db,
           Sound(st, ls, n), Queued(st, ls, n, aq, gq, db), NEW c \in Clients,
           \A d \in Clients : d # c => ls2[d] = ls[d],
           ls2[c].token = ls[c].token,
           ls2[c].token = NoToken <=> ls2[c].stage \in {"none", "INITIAL", "CONNECTED"},
           \/ Waits(ls[c]) => Waits(ls2[c])
           \/ Idle(aq, db, Logins(st, ls[c], c), Requests(st, c))
    PROVE  Sound(st, ls2, n) /\ Queued(st, ls2, n, aq, gq, db)
<1>1. SameTokens(ls, ls2)
    BY DEF SameTokens
<1>2. StagesOK(ls2)
    BY DEF StagesOK, Sound
<1>3. SameSessions(st, st)
    BY UnchangedStore
<1>4. Sound(st, ls2, n)
    BY <1>1, <1>2, <1>3, SameSound
<1>5. Queued(st, ls2, n, aq, gq, db)
    BY <1>1, <1>3, SameShrinks, ShrunkQueued
<1>. QED
    BY <1>4, <1>5

LEMMA LinkOpenLogin ==
    ASSUME AuthTypeOK, LoginOK, NEW c \in Clients, LinkOpen(c)
    PROVE  LoginOK'
<1>1. /\ \A d \in Clients : d # c => alink'[d] = alink[d]
      /\ alink'[c].token = alink[c].token
      /\ alink'[c].stage = "INITIAL" /\ alink'[c].asked
    BY DEF LinkOpen, AuthTypeOK, AuthLinks
<1>2. auth \in AuthStore
    BY DEF AuthTypeOK, AuthStore
<1>3. alink[c].token = NoToken /\ ~Waits(alink[c])
    BY DEF LoginOK, Sound, StagesOK, LinkOpen, Waits
<1>4. Idle(authq, authdb, Logins(auth, alink[c], c), Requests(auth, c))
    BY <1>3, QueuesFacts DEF LoginOK, OnePending
<1>5. /\ Sound(auth, alink', last_session_id)
      /\ Queued(auth, alink', last_session_id, authq, gameq, authdb)
      /\ Logins(auth, alink'[c], c) = Logins(auth, alink[c], c)
    BY <1>1, <1>2, <1>3, <1>4, LinkChanges DEF LoginOK, Logins
<1>6. PICK ev \in AuthEvent : ev = [type |-> "Connect", link |-> c]
    BY AuthEvents
<1>7. ev \in AuthGood(auth, alink', last_session_id)
    BY <1>6 DEF AuthGood
<1>8. \A d \in Clients : ev \in Logins(auth, alink'[d], d) => d = c
    BY <1>6 DEF Logins
<1>9. Waits(alink'[c])
    BY <1>1, <1>3 DEF Waits
<1>10. Queued(auth, alink', last_session_id, Append(authq, ev), gameq, authdb)
    BY <1>4, <1>5, <1>7, <1>8, <1>9, PostedQueued
<1>. QED
    BY <1>5, <1>6, <1>10 DEF LinkOpen, LoginOK

LEMMA LinkInputLogin ==
    ASSUME AuthTypeOK, LoginOK, NEW c \in Clients, NEW type, ClientInput(c, type)
    PROVE  LoginOK'
<1>1. /\ \A d \in Clients : d # c => alink'[d] = alink[d]
      /\ alink'[c].token = alink[c].token
      /\ alink'[c].stage = alink[c].stage /\ alink'[c].asked
    BY DEF ClientInput, ClientAsks, AuthTypeOK, AuthLinks
<1>2. auth \in AuthStore
    BY DEF AuthTypeOK, AuthStore
<1>3. ~Waits(alink[c])
    BY DEF ClientInput, ClientAsks, Waits
<1>4. Idle(authq, authdb, Logins(auth, alink[c], c), Requests(auth, c))
    BY <1>3, QueuesFacts DEF LoginOK, OnePending
<1>5. /\ Sound(auth, alink', last_session_id)
      /\ Queued(auth, alink', last_session_id, authq, gameq, authdb)
      /\ Logins(auth, alink'[c], c) = Logins(auth, alink[c], c)
    <2>1. alink[c].token = NoToken <=> alink[c].stage \in {"none", "INITIAL", "CONNECTED"}
        BY DEF LoginOK, Sound, StagesOK
    <2>2. Logins(auth, alink'[c], c) = Logins(auth, alink[c], c)
        BY <1>1 DEF Logins
    <2>3. alink'[c].token = NoToken <=> alink'[c].stage \in {"none", "INITIAL", "CONNECTED"}
        BY <1>1, <2>1
    <2>4. /\ Sound(auth, alink, last_session_id)
          /\ Queued(auth, alink, last_session_id, authq, gameq, authdb)
        BY DEF LoginOK
    <2>5. /\ Sound(auth, alink', last_session_id)
          /\ Queued(auth, alink', last_session_id, authq, gameq, authdb)
        BY <1>1, <1>2, <1>4, <2>3, <2>4, LinkChanges
    <2>. QED
        BY <2>2, <2>5
<1>6. /\ type \in {"LoginRequest", "ServerListRequest", "ServerSelectRequest"}
      /\ alink[c].token = NoToken => type = "LoginRequest" /\ alink[c].stage = "CONNECTED"
    <2>1. alink[c].token = NoToken => alink[c].stage \in {"none", "INITIAL", "CONNECTED"}
        BY DEF LoginOK, Sound, StagesOK
    <2>. QED
        BY <2>1 DEF ClientInput, Request, Requested
<1>7. PICK ev \in AuthEvent : ev = [type |-> type, link |-> c]
    BY <1>6, AuthEvents
<1>8. ev \in AuthGood(auth, alink', last_session_id)
    BY <1>1, <1>6, <1>7 DEF AuthGood
<1>9. \A d \in Clients : ev \in Logins(auth, alink'[d], d) =>
         d = c /\ alink'[d].token = NoToken
    BY <1>6, <1>7 DEF Logins
<1>10. alink'[c].token = NoToken => Waits(alink'[c])
    BY <1>1, <1>6 DEF Waits
<1>11. Queued(auth, alink', last_session_id, Append(authq, ev), gameq, authdb)
    BY <1>4, <1>5, <1>8, <1>9, <1>10, PostedQueued
<1>. QED
    BY <1>5, <1>7, <1>11 DEF ClientInput, LinkInput, LoginOK

LEMMA LinkCloseLogin ==
    ASSUME AuthTypeOK, LoginOK, NEW c \in Clients, LinkClose(c) \/ LinkFinish(c)
    PROVE  LoginOK'
<1>1. /\ \A d \in Clients : d # c => alink'[d] = alink[d]
      /\ alink'[c].token = alink[c].token
      /\ alink'[c].stage = alink[c].stage /\ alink'[c].asked = alink[c].asked
    BY DEF LinkClose, LinkFinish, AuthTypeOK, AuthLinks
<1>2. auth \in AuthStore /\ alink[c].token \in Token
    BY DEF AuthTypeOK, AuthStore, AuthLinks
<1>3. Waits(alink[c]) => Waits(alink'[c])
    BY <1>1 DEF Waits
<1>4. /\ Sound(auth, alink', last_session_id)
      /\ Queued(auth, alink', last_session_id, authq, gameq, authdb)
    <2>1. alink[c].token = NoToken <=> alink[c].stage \in {"none", "INITIAL", "CONNECTED"}
        BY DEF LoginOK, Sound, StagesOK
    <2>. QED
        BY <1>1, <1>2, <1>3, <2>1, LinkChanges DEF LoginOK
<1>5. alink[c].token = NoToken \/ Known(auth, last_session_id, alink[c].token)
    BY DEF LoginOK, Sound
<1>6. Queued(auth, alink', last_session_id,
             Urgently(authq, [type |-> "Disconnect", token |-> alink[c].token]),
             gameq, authdb)
    BY <1>2, <1>4, <1>5, OvertakenQueued
<1>. QED
    BY <1>4, <1>6 DEF LinkClose, LinkFinish, Disconnected, LoginOK

LEMMA AuthDbLogin ==
    ASSUME AuthTypeOK, LoginOK, RetrieveAccount \/ AuthDbFails
    PROVE  LoginOK'
<1>1. PICK st, ls, n : st = auth /\ ls = alink /\ n = last_session_id
    OBVIOUS
<1>2. /\ authdb # << >> /\ authdb' = Tail(authdb)
      /\ UNCHANGED <<auth, last_session_id, alink, gameq>>
    BY DEF RetrieveAccount, AuthDbFails
<1>3. /\ Sound(st, ls, n)
      /\ Queued(st, ls, n, authq, gameq, authdb)
    BY <1>1 DEF LoginOK
<1>4. authq \in Seq(AuthGood(st, ls, n)) /\ authdb \in Seq(DbGood(st, n))
    BY <1>3, QueuesFacts
<1>5. PICK t : t = Head(authdb)
    OBVIOUS
<1>6. t \in DbGood(st, n) /\ t \in Held /\ Tail(authdb) \in Seq(DbGood(st, n))
    <2>1. t \in DbGood(st, n) /\ Tail(authdb) \in Seq(DbGood(st, n))
        BY <1>2, <1>4, <1>5, QueueOps
    <2>. QED
        BY <2>1 DEF DbGood
<1>7. PICK ev \in AuthEvent : /\ authq' = Append(authq, ev)
                              /\ ev.type \in {"RetrieveAccountResponse", "AuthDbStatusMessage"}
                              /\ ev.token = t
    <2>1. CASE RetrieveAccount
        <3>1. PICK a \in Accounts \union {NoAccount} :
                 authq' = Append(authq, [type |-> "RetrieveAccountResponse",
                                         token |-> t, account |-> a])
            BY <1>5, <2>1 DEF RetrieveAccount
        <3>. QED
            BY <1>6, <3>1, AuthEvents
    <2>2. CASE AuthDbFails
        BY <1>5, <1>6, <2>2, AuthEvents DEF AuthDbFails
    <2>. QED
        BY <2>1, <2>2
<1>8. ev \in AuthGood(st, ls, n)
    BY <1>6, <1>7 DEF AuthGood, DbGood
<1>9. \A c \in Clients : ev \in Logins(st, ls[c], c) => t \in Requests(st, c)
    BY <1>7 DEF Logins, Requests, Holds
<1>10. \A c \in Clients :
          OnePending(ls[c], Append(authq, ev), Tail(authdb), Logins(st, ls[c], c), Requests(st, c))
    BY <1>2, <1>3, <1>4, <1>5, <1>9, QueuesFacts, AnsweredPending
<1>11. Append(authq, ev) \in Seq(AuthGood(st, ls, n))
    BY <1>4, <1>8, QueueOps
<1>12. Queued(st, ls, n, Append(authq, ev), gameq, Tail(authdb))
    BY <1>3, <1>6, <1>10, <1>11, QueuesFacts DEF Queued
<1>. QED
    BY <1>1, <1>2, <1>3, <1>7, <1>12 DEF LoginOK

-----------------------------------------------------------------------------
(* The handlers that give no session an account                            *)

LEMMA HeadFacts ==
    ASSUME AuthTypeOK, LoginOK, authq # << >>
    PROVE  /\ auth \in AuthStore
           /\ Head(authq) \in AuthGood(auth, alink, last_session_id)
           /\ Head(authq) \in AuthEvent
           /\ \A c \in Clients : Head(authq) \in Logins(auth, alink[c], c) =>
                 /\ Waits(alink[c])
                 /\ Idle(Tail(authq), authdb, Logins(auth, alink[c], c), Requests(auth, c))
<1>1. auth \in AuthStore /\ Head(authq) \in AuthEvent
    BY AuthHead DEF AuthStateOK
<1>2. Queued(auth, alink, last_session_id, authq, gameq, authdb)
    BY DEF LoginOK
<1>3. /\ Head(authq) \in AuthGood(auth, alink, last_session_id)
      /\ \A c \in Clients : Head(authq) \in Logins(auth, alink[c], c) =>
            Idle(Tail(authq), authdb, Logins(auth, alink[c], c), Requests(auth, c))
    BY <1>2, HandledQueued
<1>4. ASSUME NEW c \in Clients, Head(authq) \in Logins(auth, alink[c], c)
      PROVE  Waits(alink[c])
    <2>1. OnePending(alink[c], authq, authdb, Logins(auth, alink[c], c), Requests(auth, c))
        BY <1>2, QueuesFacts
    <2>2. Head(authq) = authq[1] /\ 1 \in 1..Len(authq)
        BY DEF AuthTypeOK
    <2>. QED
        BY <1>4, <2>1, <2>2 DEF OnePending, Idle, Some
<1>. QED
    BY <1>1, <1>3, <1>4

(* What such a handler may do                                              *)
Quiet ==
    /\ Shrinks(auth, auth')
    /\ IdsOK(auth')
    /\ auth'.waiting \in Seq(Mark)
    /\ SameTokens(alink, alink')
    /\ StagesOK(alink')
    /\ \A c \in Clients : \/ Waits(alink[c]) => Waits(alink'[c])
                          \/ Head(authq) \in Logins(auth, alink[c], c)
    /\ UNCHANGED <<last_session_id, authdb>>

LEMMA QuietStep ==
    ASSUME AuthTypeOK, LoginOK, authq # << >>, authq' = Tail(authq), Quiet,
           gameq' \in Seq(GameGood(auth, last_session_id))
    PROVE  LoginOK'
<1>1. PICK n : n = last_session_id
    OBVIOUS
<1>2. auth \in AuthStore
    BY HeadFacts
<1>3. Sound(auth', alink', n)
    BY <1>1, <1>2, ShrunkSound DEF LoginOK, Quiet
<1>4. Queued(auth, alink, n, Tail(authq), gameq, authdb)
    BY <1>1, HandledQueued DEF LoginOK
<1>5. Queued(auth, alink, n, Tail(authq), gameq', authdb)
    BY <1>1, <1>4 DEF Queued
<1>6. \A c \in Clients :
         \/ Waits(alink[c]) => Waits(alink'[c])
         \/ Idle(Tail(authq), authdb, Logins(auth, alink[c], c), Requests(auth, c))
    BY HeadFacts DEF Quiet
<1>7. Queued(auth', alink', n, Tail(authq), gameq', authdb)
    BY <1>5, <1>6, ShrunkQueued DEF Quiet
<1>. QED
    BY <1>1, <1>3, <1>7 DEF LoginOK, Quiet

LEMMA SameGameq ==
    ASSUME LoginOK, UNCHANGED gameq
    PROVE  gameq' \in Seq(GameGood(auth, last_session_id))
BY QueuesFacts DEF LoginOK

(* Only the reaper's entries change.                                       *)
LEMMA QuietStore ==
    ASSUME LoginOK, SameSessions(auth, auth')
    PROVE  Shrinks(auth, auth') /\ IdsOK(auth') /\ auth'.waiting \in Seq(Mark)
BY SameShrinks DEF LoginOK, Sound, SameSessions, IdsOK, Holds

(* Nothing but the asked and refused flags of a link changes, and its      *)
(* stage.                                                                  *)
LEMMA QuietLink ==
    ASSUME LoginOK, NEW c \in Clients,
           \A d \in Clients : d # c => alink'[d] = alink[d],
           alink'[c].token = alink[c].token,
           alink'[c].token = NoToken <=> alink'[c].stage \in {"none", "INITIAL", "CONNECTED"},
           ~Waits(alink[c]) \/ Head(authq) \in Logins(auth, alink[c], c)
    PROVE  /\ SameTokens(alink, alink')
           /\ StagesOK(alink')
           /\ \A d \in Clients : \/ Waits(alink[d]) => Waits(alink'[d])
                                 \/ Head(authq) \in Logins(auth, alink[d], d)
BY DEF SameTokens, StagesOK, LoginOK, Sound

LEMMA AnsweredFields ==
    ASSUME AuthTypeOK, NEW c \in Clients
    PROVE  /\ Answered(c) \in [Clients -> AuthLinks]
           /\ \A d \in Clients : d # c => Answered(c)[d] = alink[d]
           /\ Answered(c)[c].token = alink[c].token
           /\ Answered(c)[c].stage = alink[c].stage
           /\ Answered(c)[c].up = alink[c].up
           /\ Answered(c)[c].finish = alink[c].finish
BY DEF Answered, AuthTypeOK, AuthLinks

LEMMA RefusedFields ==
    ASSUME AuthTypeOK, NEW c \in Clients
    PROVE  /\ Refused(c) \in [Clients -> AuthLinks]
           /\ \A d \in Clients : d # c => Refused(c)[d] = alink[d]
           /\ Refused(c)[c].token = alink[c].token
           /\ Refused(c)[c].stage = alink[c].stage
           /\ Refused(c)[c].up = alink[c].up
           /\ Refused(c)[c].finish = alink[c].finish
           /\ Refused(c)[c].refused
BY AnsweredFields DEF Refused, AuthLinks

(* A refusal changes nothing but the flags of a link that waits for one,   *)
(* or for none.                                                            *)
LEMMA RefusedQuietly ==
    ASSUME AuthTypeOK, LoginOK, authq # << >>, NEW c \in Clients,
           ~Waits(alink[c]) \/ Head(authq) \in Logins(auth, alink[c], c),
           alink' = Refused(c), UNCHANGED <<auth, last_session_id, authdb>>
    PROVE  Quiet
<1>1. /\ \A d \in Clients : d # c => alink'[d] = alink[d]
      /\ alink'[c].token = alink[c].token
      /\ alink'[c].stage = alink[c].stage
    BY RefusedFields
<1>2. SameSessions(auth, auth')
    BY HeadFacts, UnchangedStore DEF LoginOK
<1>3. alink[c].token = NoToken <=> alink[c].stage \in {"none", "INITIAL", "CONNECTED"}
    BY DEF LoginOK, Sound, StagesOK
<1>. QED
    BY <1>1, <1>2, <1>3, QuietStore, QuietLink DEF Quiet

LEMMA QuietUnchanged ==
    ASSUME AuthTypeOK, LoginOK, UNCHANGED authOnly
    PROVE  Quiet
<1>1. auth \in AuthStore
    BY DEF AuthTypeOK, AuthStore
<1>2. SameSessions(auth, auth')
    BY <1>1, UnchangedStore DEF LoginOK, authOnly
<1>3. SameTokens(alink, alink') /\ StagesOK(alink')
    BY DEF SameTokens, authOnly, LoginOK, Sound
<1>. QED
    BY <1>2, <1>3, QuietStore DEF Quiet, authOnly

LEMMA OnConnectLogin ==
    ASSUME AuthTypeOK, LoginOK, OnConnect
    PROVE  Quiet
<1>1. authq # << >> /\ Head(authq).type = "Connect"
    BY DEF OnConnect, Handles
<1>2. PICK c \in Clients : c = Head(authq).link
    BY <1>1, HeadFacts, AuthEventFields
<1>3. Head(authq) \in Logins(auth, alink[c], c)
    BY <1>1, <1>2, HeadFacts DEF Logins
<1>4. alink[c].token = NoToken
    BY <1>1, <1>3, HeadFacts DEF Waits
<1>5. /\ \A d \in Clients : d # c => alink'[d] = alink[d]
      /\ alink'[c].token = alink[c].token
      /\ alink'[c].stage = "CONNECTED"
    <2>1. PICK ls : ls = Answered(c)
        OBVIOUS
    <2>2. alink' = [ls EXCEPT ![c].stage = "CONNECTED"]
        BY <1>2, <2>1 DEF OnConnect
    <2>. QED
        BY <2>1, <2>2, AnsweredFields DEF AuthLinks
<1>6. SameSessions(auth, auth')
    BY <1>1, HeadFacts, UnchangedStore DEF OnConnect, LoginOK
<1>. QED
    BY <1>3, <1>4, <1>5, <1>6, QuietStore, QuietLink DEF Quiet, OnConnect

LEMMA OnDbErrorLogin ==
    ASSUME AuthTypeOK, LoginOK, OnDbError
    PROVE  Quiet
<1>1. authq # << >> /\ Head(authq).type = "AuthDbStatusMessage"
    BY DEF OnDbError, Handles
<1>2. PICK t : t = Head(authq).token
    OBVIOUS
<1>3. PICK c : c = auth.sessions[t].link
    OBVIOUS
<1>4. CASE UNCHANGED authOnly
    BY <1>4, QuietUnchanged
<1>5. CASE /\ Holds(auth, t)
           /\ alink' = Refused(c)
           /\ UNCHANGED <<auth, last_session_id, authdb>>
    <2>1. Temporary(auth, last_session_id, t)
        BY <1>1, <1>2, HeadFacts DEF AuthGood
    <2>2. c \in Clients
        <3>1. auth.sessions[t] \in AuthSessions
            BY <1>1, <1>5, HeadFacts, StoreFields DEF AuthStore, Holds
        <3>. QED
            BY <1>3, <1>5, <2>1, <3>1 DEF AuthSessions, Temporary
    <2>3. Head(authq) \in Logins(auth, alink[c], c)
        BY <1>1, <1>2, <1>3, <1>5, HeadFacts DEF Logins
    <2>. QED
        BY <1>1, <1>5, <2>2, <2>3, RefusedQuietly
<1>. QED
    BY <1>2, <1>3, <1>4, <1>5 DEF OnDbError, Stop

LEMMA OnServerListRequestLogin ==
    ASSUME AuthTypeOK, LoginOK, OnServerListRequest
    PROVE  Quiet
<1>1. authq # << >> /\ Head(authq).type = "ServerListRequest"
    BY DEF OnServerListRequest, Handles
<1>2. PICK c \in Clients : c = Head(authq).link
    BY <1>1, HeadFacts, AuthEventFields
<1>3. alink[c].token # NoToken /\ ~Waits(alink[c])
    BY <1>1, <1>2, HeadFacts DEF AuthGood, Waits
<1>4. UNCHANGED <<auth, last_session_id, authdb>>
    BY DEF OnServerListRequest
<1>5. CASE alink' = Refused(c)
    BY <1>1, <1>3, <1>4, <1>5, RefusedQuietly
<1>6. CASE alink' = [Answered(c) EXCEPT ![c].stage = "CLIENT_SERVSELECT"]
    <2>1. PICK ls : ls = Answered(c)
        OBVIOUS
    <2>2. alink' = [ls EXCEPT ![c].stage = "CLIENT_SERVSELECT"]
        BY <1>6, <2>1
    <2>3. /\ \A d \in Clients : d # c => alink'[d] = alink[d]
          /\ alink'[c].token = alink[c].token
          /\ alink'[c].stage = "CLIENT_SERVSELECT"
        BY <2>1, <2>2, AnsweredFields DEF AuthLinks
    <2>4. SameSessions(auth, auth')
        BY <1>1, <1>4, HeadFacts, UnchangedStore DEF LoginOK
    <2>. QED
        BY <1>3, <1>4, <2>3, <2>4, QuietStore, QuietLink DEF Quiet
<1>. QED
    BY <1>2, <1>5, <1>6 DEF OnServerListRequest

LEMMA OnServerSelectedLogin ==
    ASSUME AuthTypeOK, LoginOK, OnServerSelected
    PROVE  Quiet /\ gameq' \in Seq(GameGood(auth, last_session_id))
<1>1. authq # << >> /\ Head(authq).type = "ServerSelectRequest"
    BY DEF OnServerSelected, Handles
<1>2. PICK c \in Clients : c = Head(authq).link
    BY <1>1, HeadFacts, AuthEventFields
<1>3. PICK t : t = alink[c].token
    OBVIOUS
<1>4. CASE UNCHANGED <<authOnly, gameq>>
    BY <1>4, QuietUnchanged, SameGameq DEF authOnly
<1>5. CASE /\ Holds(auth, t)
           /\ alink' = Refused(c)
           /\ UNCHANGED <<auth, last_session_id, authdb, gameq>>
    <2>1. t # NoToken
        BY <1>1, <1>5, HeadFacts, StoreFields, HeldFacts DEF AuthStore, Holds, NoToken
    <2>2. ~Waits(alink[c])
        BY <1>3, <2>1 DEF Waits
    <2>. QED
        BY <1>1, <1>5, <2>2, RefusedQuietly, SameGameq
<1>6. CASE /\ Holds(auth, t)
           /\ gameq' = Append(gameq, [type |-> "ExpectClientRequest", token |-> t,
                                      account |-> auth.sessions[t].auth_id, from |-> c])
           /\ UNCHANGED <<auth, last_session_id, alink, authdb>>
    <2>1. t \in Held /\ auth.sessions[t] \in AuthSessions
        BY <1>1, <1>6, HeadFacts, StoreFields DEF AuthStore, Holds
    <2>2. Known(auth, last_session_id, t)
        BY <1>3, <2>1, HeldFacts DEF LoginOK, Sound
    <2>3. PICK a \in Accounts \union {NoAccount} : a = auth.sessions[t].auth_id
        BY <2>1 DEF AuthSessions
    <2>4. PICK ev \in GameEvent : ev = [type |-> "ExpectClientRequest", token |-> t,
                                        account |-> a, from |-> c]
        BY <2>1, <2>3, GameEvents
    <2>5. ev \in GameGood(auth, last_session_id)
        BY <2>2, <2>4 DEF GameGood
    <2>6. gameq \in Seq(GameGood(auth, last_session_id))
        BY QueuesFacts DEF LoginOK
    <2>7. Quiet
        BY <1>6, QuietUnchanged DEF authOnly
    <2>. QED
        BY <1>6, <2>3, <2>4, <2>5, <2>6, <2>7, QueueOps
<1>. QED
    BY <1>2, <1>3, <1>4, <1>5, <1>6 DEF OnServerSelected, Stop

LEMMA OnClientExpectedLogin ==
    ASSUME AuthTypeOK, LoginOK, OnClientExpected
    PROVE  Quiet
<1>1. authq # << >> /\ Head(authq).type = "ExpectClientResponse"
    BY DEF OnClientExpected, Handles
<1>2. PICK t : t = Head(authq).token
    OBVIOUS
<1>3. PICK c : c = auth.sessions[t].link
    OBVIOUS
<1>4. CASE UNCHANGED authOnly
    BY <1>4, QuietUnchanged
<1>5. CASE /\ Holds(auth, t) /\ c # NoLink
           /\ alink' = [Answered(c) EXCEPT ![c].stage = "CLIENT_AWAITING_DISCONNECT"]
           /\ UNCHANGED <<auth, last_session_id, authdb>>
    <2>1. Known(auth, last_session_id, t)
        BY <1>1, <1>2, HeadFacts DEF AuthGood
    <2>2. c \in Clients /\ t \in Held
        <3>1. auth.sessions[t] \in AuthSessions /\ t \in Held
            BY <1>1, <1>5, HeadFacts, StoreFields DEF AuthStore, Holds
        <3>. QED
            BY <1>3, <1>5, <3>1 DEF AuthSessions
    <2>3. alink[c].token = t
        BY <1>3, <1>5, <2>1 DEF Known, LoginOK, Sound, LinksOK, Holds
    <2>4. alink[c].token # NoToken
        BY <2>2, <2>3, HeldFacts
    <2>5. /\ \A d \in Clients : d # c => alink'[d] = alink[d]
          /\ alink'[c].token = alink[c].token
          /\ alink'[c].stage = "CLIENT_AWAITING_DISCONNECT"
        <3>1. PICK ls : ls = Answered(c)
            OBVIOUS
        <3>2. alink' = [ls EXCEPT ![c].stage = "CLIENT_AWAITING_DISCONNECT"]
            BY <1>5, <3>1
        <3>. QED
            BY <2>2, <3>1, <3>2, AnsweredFields DEF AuthLinks
    <2>6. SameSessions(auth, auth')
        BY <1>1, <1>5, HeadFacts, UnchangedStore DEF LoginOK
    <2>7. ~Waits(alink[c])
        BY <2>4 DEF Waits
    <2>. QED
        BY <1>5, <2>2, <2>4, <2>5, <2>6, <2>7, QuietStore, QuietLink DEF Quiet
<1>. QED
    BY <1>2, <1>3, <1>4, <1>5 DEF OnClientExpected, Stop

(* A session changes, and perhaps what is marked, but not its account.     *)
LEMMA QuietAmend ==
    ASSUME AuthTypeOK, LoginOK, NEW st, SameSessions(auth, st), NEW t \in DOMAIN st.sessions,
           NEW s \in AuthSessions, s.auth_id = st.sessions[t].auth_id,
           \/ s.link = st.sessions[t].link
           \/ s.link = NoLink /\ s.auth_id # NoAccount,
           NEW st2, Amended(st, st2, t, s), SameSessions(st2, auth'),
           UNCHANGED <<alink, last_session_id, authdb>>
    PROVE  Quiet
<1>1. Shrinks(auth, auth')
    BY DEF SameSessions, Amended, Shrinks
<1>2. IdsOK(auth')
    <2>1. \A u \in DOMAIN auth.sessions :
             /\ u \in DOMAIN auth'.sessions
             /\ auth'.sessions[u].auth_id = auth.sessions[u].auth_id
        BY DEF SameSessions, Amended
    <2>2. auth'.id_to_token = auth.id_to_token
        BY DEF SameSessions, Amended
    <2>. QED
        BY <2>1, <2>2 DEF IdsOK, Holds, LoginOK, Sound
<1>3. SameTokens(alink, alink') /\ StagesOK(alink')
    BY DEF SameTokens, LoginOK, Sound
<1>. QED
    BY <1>1, <1>2, <1>3 DEF Quiet, SameSessions

LEMMA OnClientConnectedLogin ==
    ASSUME AuthTypeOK, LoginOK, OnClientConnectedToOtherServer
    PROVE  Quiet
<1>1. authq # << >> /\ auth \in AuthStore
    BY HeadFacts DEF OnClientConnectedToOtherServer, Handles
<1>2. PICK t : t = Head(authq).token
    OBVIOUS
<1>3. CASE UNCHANGED authOnly
    BY <1>3, QuietUnchanged
<1>4. CASE /\ Holds(auth, t)
           /\ auth' = [unmark_session_for_reaping(auth, t) EXCEPT !.sessions[t].in_game = TRUE]
           /\ UNCHANGED <<last_session_id, alink, authdb>>
    <2>1. PICK st : st = unmark_session_for_reaping(auth, t)
        OBVIOUS
    <2>2. SameSessions(auth, st)
        BY <1>1, <2>1, UnmarkOne DEF LoginOK, Sound
    <2>3. st \in AuthStore /\ t \in DOMAIN st.sessions /\ st.sessions[t] \in AuthSessions
        BY <1>4, <2>2, StoreFields DEF AuthStore, Holds, SameSessions
    <2>4. PICK s : s = [st.sessions[t] EXCEPT !.in_game = TRUE]
        OBVIOUS
    <2>5. /\ s \in AuthSessions
          /\ s.auth_id = st.sessions[t].auth_id
          /\ s.link = st.sessions[t].link
        BY <2>3, <2>4 DEF AuthSessions
    <2>6. auth' = Amend(st, t, s)
        BY <1>4, <2>1, <2>4 DEF Amend
    <2>7. Amended(st, auth', t, s)
        BY <2>3, <2>5, <2>6, AmendOne
    <2>8. SameSessions(auth', auth')
        BY <2>2, <2>7 DEF SameSessions, Amended
    <2>. QED
        BY <1>4, <2>2, <2>3, <2>5, <2>7, <2>8, QuietAmend
<1>. QED
    BY <1>2, <1>3, <1>4 DEF OnClientConnectedToOtherServer, Stop

LEMMA OnClientDisconnectedLogin ==
    ASSUME AuthTypeOK, LoginOK, OnClientDisconnectedFromOtherServer
    PROVE  Quiet
<1>1. authq # << >> /\ auth \in AuthStore
    BY HeadFacts DEF OnClientDisconnectedFromOtherServer, Handles
<1>2. PICK t : t = Head(authq).token
    OBVIOUS
<1>3. CASE UNCHANGED authOnly
    BY <1>3, QuietUnchanged
<1>4. CASE /\ Holds(auth, t)
           /\ auth' = mark_session_for_reaping(
                         [auth EXCEPT !.sessions[t].in_game = FALSE], t, NoToken)
           /\ UNCHANGED <<last_session_id, alink, authdb>>
    <2>1. SameSessions(auth, auth)
        BY <1>1, UnchangedStore DEF LoginOK
    <2>2. t \in Held /\ t \in DOMAIN auth.sessions /\ auth.sessions[t] \in AuthSessions
        BY <1>1, <1>4, StoreFields DEF AuthStore, Holds
    <2>3. PICK s : s = [auth.sessions[t] EXCEPT !.in_game = FALSE]
        OBVIOUS
    <2>4. /\ s \in AuthSessions
          /\ s.auth_id = auth.sessions[t].auth_id
          /\ s.link = auth.sessions[t].link
        BY <2>2, <2>3 DEF AuthSessions
    <2>5. PICK st2 : st2 = Amend(auth, t, s)
        OBVIOUS
    <2>6. Amended(auth, st2, t, s)
        BY <1>1, <2>2, <2>4, <2>5, AmendOne
    <2>7. auth' = mark_session_for_reaping(st2, t, NoToken)
        BY <1>4, <2>3, <2>5 DEF Amend
    <2>8. SameSessions(st2, auth')
        <3>1. st2 \in AuthStore /\ st2.waiting \in Seq(Mark)
            BY <2>1, <2>6 DEF SameSessions, Amended
        <3>. QED
            BY <2>2, <2>7, <3>1, MarkOne
    <2>. QED
        BY <1>4, <2>1, <2>2, <2>4, <2>6, <2>8, QuietAmend
<1>. QED
    BY <1>2, <1>3, <1>4 DEF OnClientDisconnectedFromOtherServer, Stop

(* The entry that OnDisconnect makes has the token of the session's link,  *)
(* which is the session's own.                                             *)
LEMMA OnDisconnectLogin ==
    ASSUME AuthTypeOK, LoginOK, OnDisconnect
    PROVE  Quiet
<1>1. authq # << >> /\ auth \in AuthStore /\ Head(authq).type = "Disconnect"
    BY HeadFacts DEF OnDisconnect, Handles
<1>2. PICK t : t = Head(authq).token
    OBVIOUS
<1>3. PICK s : s = auth.sessions[t]
    OBVIOUS
<1>4. PICK marked : marked = IF s.in_game THEN auth
                             ELSE mark_session_for_reaping(auth, t, alink[s.link].token)
    OBVIOUS
<1>5. PICK out : out = [marked EXCEPT !.sessions[t] =
                          [@ EXCEPT !.logged_in = FALSE, !.link = NoLink]]
    OBVIOUS
<1>6. CASE UNCHANGED authOnly
    BY <1>6, QuietUnchanged
<1>7. SameSessions(auth, auth)
    BY <1>1, UnchangedStore DEF LoginOK
<1>8. CASE /\ t # NoToken /\ Holds(auth, t) /\ s.link # NoLink
           /\ auth' = remove_from_active_sessions(out, t)
           /\ UNCHANGED <<last_session_id, alink, authdb>>
    <2>1. t \in DOMAIN auth.sessions /\ s \in AuthSessions /\ t \in Held
        BY <1>1, <1>3, <1>8, StoreFields DEF AuthStore, Holds
    <2>2. s.auth_id # NoAccount
        <3>1. Known(auth, last_session_id, t)
            BY <1>1, <1>2, <1>8, HeadFacts DEF AuthGood
        <3>. QED
            BY <1>3, <1>8, <3>1 DEF Known
    <2>3. alink[s.link].token = t
        BY <1>3, <1>8, <2>1, <2>2 DEF LoginOK, Sound, LinksOK
    <2>4. SameSessions(auth, marked)
        <3>1. SameSessions(auth, mark_session_for_reaping(auth, t, t))
            BY <1>1, <2>1, MarkOne DEF LoginOK, Sound
        <3>. QED
            BY <1>4, <1>7, <2>3, <3>1
    <2>5. PICK r : r = [s EXCEPT !.logged_in = FALSE, !.link = NoLink]
        OBVIOUS
    <2>6. r \in AuthSessions /\ r.auth_id = s.auth_id /\ r.link = NoLink
        BY <2>1, <2>5 DEF AuthSessions
    <2>7. /\ marked \in AuthStore
          /\ t \in DOMAIN marked.sessions
          /\ marked.sessions[t] = s
        BY <1>3, <2>1, <2>4 DEF SameSessions
    <2>8. out = Amend(marked, t, r)
        BY <1>5, <2>5, <2>7 DEF Amend
    <2>9. Amended(marked, out, t, r)
        BY <2>6, <2>7, <2>8, AmendOne
    <2>10. SameSessions(out, auth')
        <3>1. out \in AuthStore /\ out.waiting \in Seq(Mark)
            BY <2>4, <2>9 DEF SameSessions, Amended
        <3>. QED
            BY <1>8, <2>1, <3>1, ActivateOne
    <2>. QED
        BY <1>8, <2>2, <2>4, <2>6, <2>7, <2>9, <2>10, QuietAmend
<1>9. CASE /\ Holds(auth, t)
           /\ auth' = [auth EXCEPT !.sessions[t].logged_in = FALSE]
           /\ UNCHANGED <<last_session_id, alink, authdb>>
    <2>1. t \in DOMAIN auth.sessions /\ s \in AuthSessions
        BY <1>1, <1>3, <1>9, StoreFields DEF AuthStore, Holds
    <2>2. PICK r : r = [s EXCEPT !.logged_in = FALSE]
        OBVIOUS
    <2>3. r \in AuthSessions /\ r.auth_id = s.auth_id /\ r.link = s.link
        BY <2>1, <2>2 DEF AuthSessions
    <2>4. auth' = Amend(auth, t, r)
        BY <1>3, <1>9, <2>2 DEF Amend
    <2>5. Amended(auth, auth', t, r)
        BY <1>1, <2>1, <2>3, <2>4, AmendOne
    <2>6. SameSessions(auth', auth')
        BY <1>7, <2>5 DEF SameSessions, Amended
    <2>. QED
        BY <1>3, <1>7, <1>9, <2>1, <2>3, <2>5, <2>6, QuietAmend
<1>. QED
    BY <1>2, <1>3, <1>4, <1>5, <1>6, <1>8, <1>9 DEF OnDisconnect, Stop

-----------------------------------------------------------------------------
(* The reaper                                                              *)

LEMMA ReapedIds ==
    ASSUME NEW st \in AuthStore, IdsOK(st), NEW pass,
           pass.left \in Seq(Mark), ToSet(pass.reaped) \subseteq Mark
    PROVE  LET st2 == AfterReaping(st, pass)
           IN  st2.waiting \in Seq(Mark) /\ Shrinks(st, st2) /\ IdsOK(st2)
<1>1. PICK tokens : tokens = {e.token : e \in ToSet(pass.reaped)}
    OBVIOUS
<1>2. PICK ids : ids = {st.sessions[e.session].auth_id : e \in ToSet(pass.reaped)}
    OBVIOUS
<1>3. PICK st2 : st2 = AfterReaping(st, pass)
    OBVIOUS
<1>4. st2 = [st EXCEPT !.waiting = pass.left,
                       !.sessions = [u \in DOMAIN @ \ tokens |-> @[u]],
                       !.id_to_token = [a \in Accounts |->
                                           IF a \in ids THEN NoToken ELSE @[a]]]
    BY <1>1, <1>2, <1>3 DEF AfterReaping
<1>5. /\ st2.waiting = pass.left
      /\ st2.sessions = [u \in DOMAIN st.sessions \ tokens |-> st.sessions[u]]
      /\ st2.id_to_token = [a \in Accounts |->
                               IF a \in ids THEN NoToken ELSE st.id_to_token[a]]
    BY <1>4, StoreFields DEF AuthStore
<1>6. Shrinks(st, st2)
    BY <1>5 DEF Shrinks
<1>7. IdsOK(st2)
    <2>1. SUFFICES ASSUME NEW a \in Accounts, st2.id_to_token[a] # NoToken
                   PROVE  /\ Holds(st2, st2.id_to_token[a])
                          /\ st2.sessions[st2.id_to_token[a]].auth_id = a
        BY DEF IdsOK
    <2>2. PICK t : t = st.id_to_token[a]
        OBVIOUS
    <2>3. a \notin ids /\ st2.id_to_token[a] = t
        BY <1>5, <2>1, <2>2
    <2>4. t \in DOMAIN st.sessions /\ st.sessions[t].auth_id = a
        BY <2>1, <2>2, <2>3 DEF IdsOK, Holds
    <2>5. ASSUME NEW e \in ToSet(pass.reaped), e.token = t
          PROVE  FALSE
        <3>1. e.token = e.session
            BY <2>1, <2>3, <2>5 DEF Mark
        <3>2. st.sessions[e.session].auth_id = a
            BY <2>4, <2>5, <3>1
        <3>. QED
            BY <1>2, <2>3, <3>2
    <2>6. t \notin tokens
        BY <1>1, <2>5
    <2>. QED
        BY <1>5, <2>3, <2>4, <2>6 DEF Holds
<1>. QED
    BY <1>3, <1>5, <1>6, <1>7

LEMMA ReapAuthLogin ==
    ASSUME AuthTypeOK, LoginOK, NEW stale, ReapAuth(stale)
    PROVE  LoginOK'
<1>1. PICK pass : pass = StaleLinks(auth, stale)
    OBVIOUS
<1>2. PICK n : n = last_session_id /\ UNCHANGED <<last_session_id, authq, gameq, authdb>>
    BY DEF ReapAuth
<1>3. auth \in AuthStore
    BY DEF AuthTypeOK, AuthStore
<1>4. CASE UNCHANGED <<auth, alink>>
    BY <1>2, <1>4 DEF LoginOK
<1>5. CASE /\ auth' = AfterReaping(auth, pass)
           /\ alink' = [c \in Clients |->
                           IF c \in ReapedLinks(auth, pass.reaped)
                           THEN [alink[c] EXCEPT !.finish = TRUE] ELSE alink[c]]
    <2>1. auth.waiting \in Seq(Mark)
        BY DEF LoginOK, Sound
    <2>2. pass.left \in Seq(Mark) /\ ToSet(pass.reaped) \subseteq Mark
        <3>1. /\ StaleLinks(auth, stale).left \in Seq(Mark)
              /\ StaleLinks(auth, stale).reaped \in Seq(Mark)
            BY <2>1, PassEntries
        <3>2. \A r \in Seq(Mark) : ToSet(r) \subseteq Mark
            BY DEF ToSet
        <3>. QED
            BY <1>1, <3>1, <3>2
    <2>3. auth'.waiting \in Seq(Mark) /\ Shrinks(auth, auth') /\ IdsOK(auth')
        BY <1>3, <1>5, <2>2, ReapedIds DEF LoginOK, Sound
    <2>4. \A c \in Clients : /\ alink'[c].token = alink[c].token
                             /\ alink'[c].stage = alink[c].stage
                             /\ alink'[c].asked = alink[c].asked
        BY <1>5 DEF AuthTypeOK, AuthLinks
    <2>5. SameTokens(alink, alink') /\ StagesOK(alink')
        BY <2>4 DEF SameTokens, StagesOK, LoginOK, Sound
    <2>6. \A c \in Clients : Waits(alink[c]) => Waits(alink'[c])
        BY <2>4 DEF Waits
    <2>7. Sound(auth', alink', n)
        BY <1>2, <1>3, <2>3, <2>5, ShrunkSound DEF LoginOK
    <2>8. Queued(auth', alink', n, authq, gameq, authdb)
        BY <1>2, <2>3, <2>5, <2>6, ShrunkQueued DEF LoginOK
    <2>. QED
        BY <1>2, <2>7, <2>8 DEF LoginOK
<1>. QED
    BY <1>1, <1>4, <1>5 DEF ReapAuth

-----------------------------------------------------------------------------
(* A login                                                                 *)

LEMMA LoginTakenLogin ==
    ASSUME AuthTypeOK, LoginOK, authq # << >>, Head(authq).type = "LoginRequest",
           LoginTaken(Head(authq).link, last_session_id), authq' = Tail(authq)
    PROVE  LoginOK'
<1>1. authq # << >> /\ auth \in AuthStore /\ Head(authq).type = "LoginRequest"
    BY HeadFacts
<1>2. PICK c \in Clients : c = Head(authq).link
    BY <1>1, HeadFacts, AuthEventFields
<1>3. PICK n : n = last_session_id
    OBVIOUS
<1>4. n \in Nat /\ n \in Held /\ last_session_id' = n + 1
    BY <1>3, HeldFacts DEF LoginTaken, AuthTypeOK
<1>5. PICK s \in AuthSessions : s = AuthSession(c)
    BY DEF AuthSession, AuthSessions
<1>6. s.auth_id = NoAccount /\ s.link = c
    BY <1>5 DEF AuthSession
<1>7. PICK st : st = WithSession(auth, n, s)
    OBVIOUS
<1>8. /\ st \in AuthStore
      /\ DOMAIN st.sessions = DOMAIN auth.sessions \union {n}
      /\ st.sessions[n] = s
      /\ \A u \in DOMAIN auth.sessions \ {n} : st.sessions[u] = auth.sessions[u]
    BY <1>1, <1>4, <1>7, WithSessionType DEF AuthStore
<1>9. st.id_to_token = auth.id_to_token /\ st.waiting = auth.waiting
    BY <1>1, <1>7, StoreFields DEF WithSession, AuthStore
<1>10. SameSessions(st, auth')
    <2>1. st.waiting \in Seq(Mark)
        BY <1>9 DEF LoginOK, Sound
    <2>2. auth' = mark_session_for_reaping(st, n, n)
        BY <1>2, <1>3, <1>5, <1>7 DEF LoginTaken
    <2>. QED
        BY <1>4, <1>8, <2>1, <2>2, MarkOne
<1>11. n \notin DOMAIN auth.sessions
    BY <1>3, <1>4 DEF LoginOK, Sound
<1>12. /\ DOMAIN auth'.sessions = DOMAIN auth.sessions \union {n}
       /\ auth'.sessions[n] = s
       /\ \A u \in DOMAIN auth.sessions : auth'.sessions[u] = auth.sessions[u]
       /\ auth'.id_to_token = auth.id_to_token
       /\ auth'.waiting \in Seq(Mark)
    BY <1>8, <1>9, <1>10, <1>11 DEF SameSessions
<1>13. \A t \in Token : t < n => /\ t < n + 1 /\ t # n
                                 /\ t \in DOMAIN auth'.sessions => t \in DOMAIN auth.sessions
    BY <1>4, <1>12, HeldFacts DEF Token
<1>14. \A t \in Token : /\ Known(auth, n, t) => Known(auth', n + 1, t)
                        /\ Temporary(auth, n, t) => Temporary(auth', n + 1, t)
    BY <1>12, <1>13 DEF Known, Temporary, Holds
<1>15. Sound(auth', alink, n + 1)
    <2>1. IdsOK(auth')
        BY <1>12 DEF IdsOK, Holds, LoginOK, Sound
    <2>2. \A t \in DOMAIN auth'.sessions : t < n + 1
        <3>1. \A t \in DOMAIN auth.sessions : t < n /\ t \in Token
            BY <1>1, <1>3, StoreFields, HeldFacts DEF LoginOK, Sound, AuthStore
        <3>. QED
            BY <1>4, <1>12, <1>13, <3>1
    <2>3. LinksOK(auth', alink)
        BY <1>6, <1>12 DEF LinksOK, LoginOK, Sound
    <2>4. \A d \in Clients : alink[d].token = NoToken \/ Known(auth', n + 1, alink[d].token)
        BY <1>3, <1>14 DEF LoginOK, Sound, AuthTypeOK, AuthLinks
    <2>. QED
        BY <1>12, <2>1, <2>2, <2>3, <2>4 DEF LoginOK, Sound
<1>16. Queued(auth, alink, n, authq, gameq, authdb)
    BY <1>3 DEF LoginOK
<1>17. /\ AuthGood(auth, alink, n) \subseteq AuthGood(auth', alink, n + 1)
       /\ GameGood(auth, n) \subseteq GameGood(auth', n + 1)
       /\ DbGood(auth, n) \subseteq DbGood(auth', n + 1)
    <2>1. ASSUME NEW ev \in AuthGood(auth, alink, n)
          PROVE  ev \in AuthGood(auth', alink, n + 1)
        <3>1. ev \in AuthEvent
            BY <2>1 DEF AuthGood
        <3>2. ev.type \in {"Disconnect", "ExpectClientResponse", "RetrieveAccountResponse",
                           "AuthDbStatusMessage"} => ev.token \in Token
            BY <3>1, AuthEventFields, HeldFacts
        <3>. QED
            BY <1>14, <2>1, <3>2 DEF AuthGood
    <2>2. ASSUME NEW ev \in GameGood(auth, n)
          PROVE  ev \in GameGood(auth', n + 1)
        <3>1. ev \in GameEvent
            BY <2>2 DEF GameGood
        <3>2. ev.type = "ExpectClientRequest" => ev.token \in Token
            BY <3>1, GameEventFields, HeldFacts
        <3>. QED
            BY <1>14, <2>2, <3>2 DEF GameGood
    <2>3. DbGood(auth, n) \subseteq DbGood(auth', n + 1)
        BY <1>14, HeldFacts DEF DbGood
    <2>. QED
        BY <2>1, <2>2, <2>3
<1>18. n \in DbGood(auth', n + 1)
    <2>1. c # NoLink
        BY HandoverAssumption
    <2>. QED
        BY <1>4, <1>6, <1>12, <2>1 DEF DbGood, Temporary
<1>19. PICK db : db = Append(authdb, n)
    OBVIOUS
<1>20. /\ Tail(authq) \in Seq(AuthGood(auth', alink, n + 1))
       /\ gameq \in Seq(GameGood(auth', n + 1))
       /\ db \in Seq(DbGood(auth', n + 1))
    <2>1. /\ Tail(authq) \in Seq(AuthGood(auth, alink, n))
          /\ gameq \in Seq(GameGood(auth, n))
          /\ authdb \in Seq(DbGood(auth, n))
        BY <1>1, <1>16, QueuesFacts, QueueOps
    <2>2. Tail(authq) \in Seq(AuthGood(auth', alink, n + 1))
        BY <1>17, <2>1, Elements
    <2>3. gameq \in Seq(GameGood(auth', n + 1))
        BY <1>17, <2>1, Elements
    <2>4. authdb \in Seq(DbGood(auth', n + 1))
        BY <1>17, <2>1, Elements
    <2>5. db \in Seq(DbGood(auth', n + 1))
        BY <1>18, <1>19, <2>4, QueueOps
    <2>. QED
        BY <2>2, <2>3, <2>5
<1>21. ASSUME NEW d \in Clients
       PROVE  OnePending(alink[d], Tail(authq), db, Logins(auth', alink[d], d), Requests(auth', d))
    <2>1. authq \in Seq(AuthGood(auth, alink, n)) /\ authdb \in Seq(DbGood(auth, n))
        BY <1>16, QueuesFacts
    <2>2. \A i \in 1..Len(authq) :
             authq[i] \in Logins(auth', alink[d], d) => authq[i] \in Logins(auth, alink[d], d)
        <3>1. SUFFICES ASSUME NEW ev \in AuthGood(auth, alink, n), ev \in Logins(auth', alink[d], d)
                       PROVE  ev \in Logins(auth, alink[d], d)
            BY <2>1
        <3>2. ev.type \in {"RetrieveAccountResponse", "AuthDbStatusMessage"} =>
                 ev.token < n /\ ev.token \in Token
            BY <3>1, AuthEventFields, HeldFacts DEF AuthGood, Temporary
        <3>. QED
            BY <1>12, <1>13, <3>1, <3>2 DEF Logins, Holds
    <2>3. \A i \in 1..Len(authdb) :
             authdb[i] \in Requests(auth', d) => authdb[i] \in Requests(auth, d)
        <3>1. SUFFICES ASSUME NEW t \in DbGood(auth, n), t \in Requests(auth', d)
                       PROVE  t \in Requests(auth, d)
            BY <2>1
        <3>2. t < n /\ t \in Token
            BY <3>1, HeldFacts DEF DbGood, Temporary
        <3>. QED
            BY <1>12, <1>13, <3>1, <3>2 DEF Requests
    <2>4. OnePending(alink[d], authq, authdb, Logins(auth', alink[d], d), Requests(auth', d))
        <3>1. PICK l, A2, B2 : /\ l = alink[d]
                               /\ A2 = Logins(auth', alink[d], d) /\ B2 = Requests(auth', d)
            OBVIOUS
        <3>2. OnePending(l, authq, authdb, Logins(auth, alink[d], d), Requests(auth, d))
            BY <1>16, <3>1, QueuesFacts
        <3>3. Waits(l) => Waits(l)
            OBVIOUS
        <3>4. OnePending(l, authq, authdb, A2, B2)
            BY <2>2, <2>3, <3>1, <3>2, <3>3, FewerPending
        <3>. QED
            BY <3>1, <3>4
    <2>5. n \in Requests(auth', d) => Head(authq) \in Logins(auth', alink[d], d)
        <3>1. alink[c].token = NoToken
            BY <1>2 DEF LoginTaken, LoginOK, Sound, StagesOK
        <3>. QED
            BY <1>1, <1>2, <1>6, <1>12, <3>1, HeadFacts DEF Requests, Logins
    <2>. QED
        BY <1>1, <1>19, <2>1, <2>4, <2>5, AskedPending
<1>22. Queued(auth', alink, n + 1, Tail(authq), gameq, db)
    BY <1>20, <1>21 DEF Queued
<1>23. UNCHANGED <<alink, gameq>> /\ authdb' = db
    BY <1>3, <1>19 DEF LoginTaken
<1>. QED
    BY <1>4, <1>15, <1>22, <1>23 DEF LoginOK

LEMMA OnLoginLogin ==
    ASSUME AuthTypeOK, LoginOK, OnLogin, authq' = Tail(authq)
    PROVE  LoginOK'
<1>1. authq # << >> /\ Head(authq).type = "LoginRequest"
    BY LoginOutcome
<1>2. PICK c \in Clients : c = Head(authq).link
    BY <1>1, HeadFacts, AuthEventFields
<1>3. CASE alink' = Refused(c) /\ UNCHANGED <<auth, last_session_id, authdb, gameq>>
    <2>1. Head(authq) \in Logins(auth, alink[c], c) \/ ~Waits(alink[c])
        BY <1>1, <1>2, HeadFacts DEF Logins, Waits
    <2>2. Quiet
        BY <1>1, <1>3, <2>1, RefusedQuietly
    <2>. QED
        BY <1>1, <1>3, <2>2, QuietStep, SameGameq
<1>4. CASE LoginTaken(c, last_session_id)
    BY <1>1, <1>2, <1>4, LoginTakenLogin
<1>. QED
    BY <1>2, <1>3, <1>4, LoginOutcome

-----------------------------------------------------------------------------
(* The database's answer                                                   *)

(* What logging in leaves in the store: t is the session the client goes   *)
(* on with, temp the one it logged in with.                                *)
LoggedInStore(st, st2, temp, t, c, a) ==
    /\ DOMAIN st2.sessions = DOMAIN st.sessions
    /\ st2.sessions[t].auth_id = a /\ st2.sessions[t].link = c
    /\ temp # t => /\ st2.sessions[temp].auth_id = st.sessions[temp].auth_id
                   /\ st2.sessions[temp].link = NoLink
                   /\ st2.sessions[temp].logged_in = st.sessions[temp].logged_in
    /\ \A u \in DOMAIN st.sessions \ {t, temp} : st2.sessions[u] = st.sessions[u]
    /\ st2.id_to_token = [st.id_to_token EXCEPT ![a] = t]
    /\ st2.waiting \in Seq(Mark)

LEMMA LoggedInOutcome ==
    ASSUME AuthTypeOK, IdsOK(auth), NEW st, SameSessions(auth, st),
           NEW temp \in DOMAIN auth.sessions, auth.sessions[temp].auth_id = NoAccount,
           NEW c \in Clients, NEW a \in Accounts,
           LoggedIn(st, temp, c, a)
    PROVE  \E t \in DOMAIN auth.sessions :
              /\ t = IF auth.id_to_token[a] = NoToken THEN temp ELSE auth.id_to_token[a]
              /\ LoggedInStore(auth, auth', temp, t, c, a)
              /\ alink' = [Answered(c) EXCEPT ![c].token = t, ![c].stage = "AUTHORIZED"]
<1>1. auth \in AuthStore /\ temp \in Held /\ NoAccount \notin Accounts
    BY StoreFields, HandoverAssumption DEF AuthTypeOK, AuthStore
<1>2. PICK old : old = token_for_id(auth, a)
    OBVIOUS
<1>3. old = auth.id_to_token[a]
    BY <1>1, <1>2 DEF token_for_id
<1>4. old # NoToken => /\ old \in DOMAIN auth.sessions
                       /\ auth.sessions[old].auth_id = a
                       /\ old # temp
    BY <1>1, <1>3 DEF IdsOK, Holds
<1>5. PICK t \in DOMAIN auth.sessions : t = IF old = NoToken THEN temp ELSE old
    BY <1>4
<1>6. t \in Held
    BY <1>1, StoreFields DEF AuthStore
<1>7. PICK kept :
         kept = IF old = NoToken THEN st
                ELSE mark_session_for_reaping(
                        [unmark_session_for_reaping(st, old) EXCEPT
                            !.sessions[temp].link = NoLink],
                        temp, temp)
    OBVIOUS
<1>8. /\ kept \in AuthStore
      /\ DOMAIN kept.sessions = DOMAIN auth.sessions
      /\ temp # t => /\ kept.sessions[temp].auth_id = auth.sessions[temp].auth_id
                     /\ kept.sessions[temp].link = NoLink
                     /\ kept.sessions[temp].logged_in = auth.sessions[temp].logged_in
      /\ \A u \in DOMAIN auth.sessions \ {temp} : kept.sessions[u] = auth.sessions[u]
      /\ kept.id_to_token = auth.id_to_token
      /\ kept.waiting \in Seq(Mark)
    <2>1. CASE old = NoToken
        BY <1>5, <1>7, <2>1 DEF SameSessions
    <2>2. CASE old # NoToken
        <3>1. PICK um : um = unmark_session_for_reaping(st, old)
            OBVIOUS
        <3>2. SameSessions(st, um)
            BY <3>1, UnmarkOne DEF SameSessions
        <3>3. /\ um \in AuthStore /\ um.sessions = auth.sessions
              /\ um.id_to_token = auth.id_to_token
              /\ um.waiting \in Seq(Mark)
            BY <3>2 DEF SameSessions
        <3>4. PICK s : s = [um.sessions[temp] EXCEPT !.link = NoLink]
            OBVIOUS
        <3>5. /\ s \in AuthSessions /\ s.auth_id = auth.sessions[temp].auth_id /\ s.link = NoLink
              /\ s.logged_in = auth.sessions[temp].logged_in
            <4>1. um.sessions[temp] \in AuthSessions /\ um.sessions[temp] = auth.sessions[temp]
                BY <3>3, StoreFields DEF AuthStore
            <4>. QED
                BY <3>4, <4>1 DEF AuthSessions
        <3>6. PICK cut : cut = Amend(um, temp, s)
            OBVIOUS
        <3>7. Amended(um, cut, temp, s)
            BY <3>3, <3>5, <3>6, AmendOne
        <3>8. kept = mark_session_for_reaping(cut, temp, temp)
            BY <1>7, <2>2, <3>1, <3>4, <3>6 DEF Amend
        <3>9. SameSessions(cut, kept)
            <4>1. cut \in AuthStore /\ cut.waiting \in Seq(Mark)
                BY <3>3, <3>7 DEF Amended
            <4>. QED
                BY <1>1, <3>8, <4>1, MarkOne
        <3>. QED
            BY <3>3, <3>5, <3>7, <3>9 DEF Amended, SameSessions
    <2>. QED
        BY <2>1, <2>2
<1>9. PICK s : s = [kept.sessions[t] EXCEPT !.link = c, !.auth_id = a, !.logged_in = TRUE]
    OBVIOUS
<1>10. s \in AuthSessions /\ s.auth_id = a /\ s.link = c
    <2>1. PICK k \in AuthSessions : k = kept.sessions[t]
        BY <1>8, StoreFields DEF AuthStore
    <2>2. s = [k EXCEPT !.link = c, !.auth_id = a, !.logged_in = TRUE]
        BY <1>9, <2>1
    <2>. QED
        BY <2>2 DEF AuthSessions
<1>11. PICK mine : mine = Amend(kept, t, s)
    OBVIOUS
<1>12. Amended(kept, mine, t, s)
    BY <1>8, <1>10, <1>11, AmendOne
<1>13. PICK act : act = add_to_active_sessions(mine, t)
    OBVIOUS
<1>14. SameSessions(mine, act)
    <2>1. mine \in AuthStore /\ mine.waiting \in Seq(Mark)
        BY <1>8, <1>12 DEF Amended
    <2>. QED
        BY <1>6, <1>13, <2>1, ActivateOne
<1>15. auth' = setTokenForId(act, a, t)
    BY <1>2, <1>5, <1>7, <1>9, <1>11, <1>13 DEF LoggedIn, Amend
<1>16. /\ auth'.sessions = act.sessions
       /\ auth'.waiting = act.waiting
       /\ auth'.id_to_token = [act.id_to_token EXCEPT ![a] = t]
    <2>1. auth' = [act EXCEPT !.id_to_token = [act.id_to_token EXCEPT ![a] = t]]
        BY <1>15 DEF setTokenForId
    <2>. QED
        BY <1>14, <2>1, StoreFields DEF AuthStore, SameSessions
<1>17. LoggedInStore(auth, auth', temp, t, c, a)
    <2>1. DOMAIN auth'.sessions = DOMAIN auth.sessions /\ auth'.sessions[t] = s
        BY <1>8, <1>12, <1>14, <1>16 DEF Amended, SameSessions
    <2>2. \A u \in DOMAIN auth.sessions : u # t => auth'.sessions[u] = kept.sessions[u]
        BY <1>8, <1>12, <1>14, <1>16 DEF Amended, SameSessions
    <2>3. auth'.id_to_token = [auth.id_to_token EXCEPT ![a] = t]
        BY <1>8, <1>12, <1>14, <1>16 DEF Amended, SameSessions
    <2>4. auth'.waiting \in Seq(Mark)
        BY <1>14, <1>16 DEF SameSessions
    <2>. QED
        BY <1>8, <1>10, <2>1, <2>2, <2>3, <2>4 DEF LoggedInStore
<1>18. alink' = [Answered(c) EXCEPT ![c].token = t, ![c].stage = "AUTHORIZED"]
    BY <1>2, <1>5 DEF LoggedIn
<1>. QED
    BY <1>3, <1>5, <1>17, <1>18

LEMMA LoggedInSound ==
    ASSUME AuthTypeOK, LoginOK, NEW temp \in DOMAIN auth.sessions,
           auth.sessions[temp].auth_id = NoAccount,
           NEW t \in DOMAIN auth.sessions, NEW c \in Clients, NEW a \in Accounts,
           t = IF auth.id_to_token[a] = NoToken THEN temp ELSE auth.id_to_token[a],
           LoggedInStore(auth, auth', temp, t, c, a),
           alink[c].token = NoToken,
           alink'[c].token = t, alink'[c].stage = "AUTHORIZED",
           \A d \in Clients : d # c => alink'[d] = alink[d]
    PROVE  /\ Sound(auth', alink', last_session_id)
           /\ \A u : Known(auth, last_session_id, u) => Known(auth', last_session_id, u)
           /\ \A u : u # temp /\ Temporary(auth, last_session_id, u) =>
                     Temporary(auth', last_session_id, u)
           /\ t # temp => auth.sessions[t].auth_id = a
<1>1. PICK n : n = last_session_id
    OBVIOUS
<1>2. /\ auth \in AuthStore /\ NoAccount \notin Accounts
      /\ auth.id_to_token \in [Accounts -> Held \union {NoToken}]
      /\ t \in Held /\ t # NoToken
    BY HandoverAssumption, StoreFields, HeldFacts DEF AuthTypeOK, AuthStore
<1>3. IdsOK(auth) /\ a # NoAccount
    BY <1>2 DEF LoginOK, Sound
<1>4. t # temp => auth.sessions[t].auth_id = a /\ auth.id_to_token[a] = t
    BY <1>2, <1>3 DEF IdsOK, Holds
<1>5. /\ DOMAIN auth'.sessions = DOMAIN auth.sessions
      /\ auth'.sessions[t].auth_id = a /\ auth'.sessions[t].link = c
      /\ \A u \in DOMAIN auth.sessions : u # t =>
            auth'.sessions[u].auth_id = auth.sessions[u].auth_id
      /\ \A u \in DOMAIN auth.sessions : u # t /\ u # temp =>
            auth'.sessions[u].link = auth.sessions[u].link
      /\ temp # t => auth'.sessions[temp].link = NoLink
      /\ auth'.id_to_token = [auth.id_to_token EXCEPT ![a] = t]
      /\ auth'.waiting \in Seq(Mark)
    BY DEF LoggedInStore
<1>6. \A u \in DOMAIN auth.sessions :
         auth.sessions[u].auth_id # NoAccount => auth'.sessions[u].auth_id # NoAccount
    BY <1>3, <1>5
<1>7. \A u : Known(auth, n, u) => Known(auth', n, u)
    BY <1>5, <1>6 DEF Known, Holds
<1>8. \A u : u # temp /\ Temporary(auth, n, u) => Temporary(auth', n, u)
    <2>1. \A u : u # temp /\ Temporary(auth, n, u) => u # t
        BY <1>3, <1>4 DEF Temporary, Holds
    <2>. QED
        BY <1>5, <2>1 DEF Temporary, Holds
<1>9. IdsOK(auth')
    <2>1. SUFFICES ASSUME NEW b \in Accounts, auth'.id_to_token[b] # NoToken
                   PROVE  /\ Holds(auth', auth'.id_to_token[b])
                          /\ auth'.sessions[auth'.id_to_token[b]].auth_id = b
        BY DEF IdsOK
    <2>2. CASE b = a
        BY <1>2, <1>5, <2>2 DEF Holds
    <2>3. CASE b # a
        <3>1. PICK u : u = auth.id_to_token[b]
            OBVIOUS
        <3>2. auth'.id_to_token[b] = u
            BY <1>2, <1>5, <2>3, <3>1
        <3>3. u \in DOMAIN auth.sessions /\ auth.sessions[u].auth_id = b
            BY <1>3, <2>1, <3>1, <3>2 DEF IdsOK, Holds
        <3>4. u # t
            BY <1>2, <1>4, <2>3, <3>3
        <3>. QED
            BY <1>5, <3>2, <3>3, <3>4 DEF Holds
    <2>. QED
        BY <2>2, <2>3
<1>10. LinksOK(auth', alink')
    <2>1. SUFFICES ASSUME NEW u \in DOMAIN auth.sessions,
                          auth'.sessions[u].auth_id # NoAccount,
                          auth'.sessions[u].link # NoLink
                   PROVE  alink'[auth'.sessions[u].link].token = u
        BY <1>5 DEF LinksOK
    <2>2. CASE u = t
        BY <1>5, <2>2
    <2>3. CASE u # t
        <3>1. PICK d : d = auth.sessions[u].link
            OBVIOUS
        <3>2. auth.sessions[u].auth_id # NoAccount /\ auth'.sessions[u].link = d /\ u # temp
            BY <1>5, <2>1, <2>3, <3>1
        <3>3. d \in Clients /\ u \in Held
            <4>1. auth.sessions[u] \in AuthSessions /\ u \in Held
                BY <1>2, StoreFields DEF AuthStore
            <4>. QED
                BY <2>1, <3>1, <3>2, <4>1 DEF AuthSessions
        <3>4. alink[d].token = u
            BY <2>1, <3>1, <3>2 DEF LoginOK, Sound, LinksOK
        <3>5. d # c
            BY <3>3, <3>4, HeldFacts
        <3>. QED
            BY <3>2, <3>3, <3>4, <3>5
    <2>. QED
        BY <2>2, <2>3
<1>11. StagesOK(alink')
    BY <1>2 DEF StagesOK, LoginOK, Sound
<1>12. \A d \in Clients : alink'[d].token = NoToken \/ Known(auth', n, alink'[d].token)
    <2>1. Known(auth', n, t)
        BY <1>1, <1>3, <1>5 DEF Known, Holds, LoginOK, Sound
    <2>. QED
        BY <1>1, <1>7, <2>1 DEF LoginOK, Sound
<1>13. \A u \in DOMAIN auth'.sessions : u < n
    BY <1>1, <1>5 DEF LoginOK, Sound
<1>14. Sound(auth', alink', n)
    BY <1>5, <1>9, <1>10, <1>11, <1>12, <1>13 DEF Sound
<1>. QED
    BY <1>1, <1>4, <1>7, <1>8, <1>14

(* The client's login was all it had on its way, so that nothing is left   *)
(* that could take its session for a temporary one.                        *)
LEMMA LoggedInQueued ==
    ASSUME AuthTypeOK, LoginOK, authq # << >>,
           Head(authq).type = "RetrieveAccountResponse",
           NEW temp \in DOMAIN auth.sessions, temp = Head(authq).token,
           NEW t \in DOMAIN auth.sessions, NEW c \in Clients, NEW a \in Accounts,
           c = auth.sessions[temp].link,
           t = IF auth.id_to_token[a] = NoToken THEN temp ELSE auth.id_to_token[a],
           LoggedInStore(auth, auth', temp, t, c, a),
           \A d \in Clients : d # c => alink'[d] = alink[d],
           alink'[c].token = t, alink'[c].stage = "AUTHORIZED",
           authq' = Tail(authq), UNCHANGED <<last_session_id, authdb, gameq>>
    PROVE  LoginOK'
<1>1. PICK n : n = last_session_id
    OBVIOUS
<1>2. PICK aq : aq = Tail(authq)
    OBVIOUS
<1>3. Temporary(auth, n, temp) /\ Head(authq) \in Logins(auth, alink[c], c)
    BY <1>1, HeadFacts DEF AuthGood, Logins, Holds
<1>4. auth.sessions[temp].auth_id = NoAccount
    BY <1>3 DEF Temporary, Holds
<1>5. Waits(alink[c]) /\ Idle(aq, authdb, Logins(auth, alink[c], c), Requests(auth, c))
    BY <1>2, <1>3, HeadFacts
<1>6. t # NoToken
    <2>1. t \in Held
        BY StoreFields DEF AuthTypeOK, AuthStore
    <2>. QED
        BY <2>1, HeldFacts
<1>7. alink[c].token = NoToken
    BY <1>5 DEF Waits
<1>8. /\ Sound(auth', alink', n)
      /\ \A u : Known(auth, n, u) => Known(auth', n, u)
      /\ \A u : u # temp /\ Temporary(auth, n, u) => Temporary(auth', n, u)
      /\ t # temp => auth.sessions[t].auth_id = a
    BY <1>1, <1>4, <1>7, LoggedInSound
<1>9. /\ Queued(auth, alink, n, aq, gameq, authdb)
      /\ aq \in Seq(AuthGood(auth, alink, n))
      /\ gameq \in Seq(GameGood(auth, n))
      /\ authdb \in Seq(DbGood(auth, n))
    <2>1. Queued(auth, alink, n, aq, gameq, authdb)
        BY <1>1, <1>2, HandledQueued DEF LoginOK
    <2>. QED
        BY <2>1, QueuesFacts
<1>10. aq \in Seq(AuthGood(auth', alink', n))
    <2>1. SUFFICES ASSUME NEW i \in 1..Len(aq), NEW ev, ev = aq[i]
                   PROVE  ev \in AuthGood(auth', alink', n)
        BY <1>9, Elements
    <2>2. ev \in AuthGood(auth, alink, n) /\ ev \in AuthEvent
        BY <1>9, <2>1 DEF AuthGood
    <2>3. ev \notin Logins(auth, alink[c], c)
        BY <1>5, <2>1 DEF Idle, Some
    <2>4. ev.type \in {"RetrieveAccountResponse", "AuthDbStatusMessage"} => ev.token # temp
        BY <2>2, <2>3 DEF Logins, Holds
    <2>5. ev.type = "ServerListRequest" => alink'[ev.link].token # NoToken
        <3>1. ev.type = "ServerListRequest" => ev.link \in Clients
            BY <2>2, AuthEventFields
        <3>. QED
            BY <1>6, <2>2, <3>1 DEF AuthGood
    <2>. QED
        BY <1>8, <2>2, <2>4, <2>5 DEF AuthGood
<1>11. gameq \in Seq(GameGood(auth', n))
    <2>1. GameGood(auth, n) \subseteq GameGood(auth', n)
        BY <1>8 DEF GameGood
    <2>. QED
        BY <1>9, <2>1, Elements
<1>12. authdb \in Seq(DbGood(auth', n))
    <2>1. SUFFICES ASSUME NEW i \in 1..Len(authdb), NEW u, u = authdb[i]
                   PROVE  u \in DbGood(auth', n)
        BY <1>9, Elements
    <2>2. u \in DbGood(auth, n)
        BY <1>9, <2>1
    <2>3. u \notin Requests(auth, c)
        BY <1>5, <2>1 DEF Idle, Some
    <2>4. u # temp
        BY <2>3 DEF Requests
    <2>. QED
        BY <1>8, <2>2, <2>4 DEF DbGood
<1>13. \A d \in Clients : d # NoLink
    BY HandoverAssumption
<1>14. \A u \in DOMAIN auth.sessions, d \in Clients :
          Temporary(auth, n, u) /\ auth'.sessions[u].link = d =>
             auth.sessions[u].link = d
    <2>1. SUFFICES ASSUME NEW u \in DOMAIN auth.sessions, NEW d \in Clients,
                          Temporary(auth, n, u), auth'.sessions[u].link = d
                   PROVE  auth.sessions[u].link = d
        OBVIOUS
    <2>2. CASE u = t
        <3>1. t = temp
            BY <1>8, <2>1, <2>2, HandoverAssumption DEF Temporary, Holds
        <3>. QED
            BY <2>1, <2>2, <3>1 DEF LoggedInStore
    <2>3. CASE u # t
        BY <1>13, <2>1, <2>3 DEF LoggedInStore
    <2>. QED
        BY <2>2, <2>3
<1>15. ASSUME NEW d \in Clients
       PROVE  OnePending(alink'[d], aq, authdb, Logins(auth', alink'[d], d), Requests(auth', d))
    <2>1. OnePending(alink'[d], aq, authdb, Logins(auth, alink[d], d), Requests(auth, d))
        BY <1>5, <1>9, QueuesFacts, NothingPending
    <2>2. \A i \in 1..Len(aq) :
             aq[i] \in Logins(auth', alink'[d], d) => aq[i] \in Logins(auth, alink[d], d)
        <3>1. SUFFICES ASSUME NEW ev \in AuthGood(auth, alink, n), ev \in Logins(auth', alink'[d], d)
                       PROVE  ev \in Logins(auth, alink[d], d)
            BY <1>9
        <3>2. DOMAIN auth'.sessions = DOMAIN auth.sessions
            BY DEF LoggedInStore
        <3>3. alink'[d].token = NoToken => alink[d].token = NoToken
            BY <1>7
        <3>. QED
            BY <1>14, <3>1, <3>2, <3>3 DEF Logins, AuthGood, Holds
    <2>3. \A i \in 1..Len(authdb) :
             authdb[i] \in Requests(auth', d) => authdb[i] \in Requests(auth, d)
        <3>1. SUFFICES ASSUME NEW u \in DbGood(auth, n), u \in Requests(auth', d)
                       PROVE  u \in Requests(auth, d)
            BY <1>9
        <3>2. DOMAIN auth'.sessions = DOMAIN auth.sessions
            BY DEF LoggedInStore
        <3>. QED
            BY <1>14, <3>1, <3>2 DEF Requests, DbGood
    <2>4. PICK l : l = alink'[d]
        OBVIOUS
    <2>5. PICK A2, B2 : A2 = Logins(auth', alink'[d], d) /\ B2 = Requests(auth', d)
        OBVIOUS
    <2>6. OnePending(l, aq, authdb, A2, B2)
        <3>1. PICK A, B : A = Logins(auth, alink[d], d) /\ B = Requests(auth, d)
            OBVIOUS
        <3>2. OnePending(l, aq, authdb, A, B)
            BY <2>1, <2>4, <3>1
        <3>3. /\ \A i \in 1..Len(aq) : aq[i] \in A2 => aq[i] \in A
              /\ \A i \in 1..Len(authdb) : authdb[i] \in B2 => authdb[i] \in B
            BY <2>2, <2>3, <2>5, <3>1
        <3>4. Waits(l) => Waits(l)
            OBVIOUS
        <3>. QED
            BY <3>2, <3>3, <3>4, FewerPending
    <2>. QED
        BY <2>4, <2>5, <2>6
<1>16. Queued(auth', alink', n, aq, gameq, authdb)
    BY <1>10, <1>11, <1>12, <1>15 DEF Queued
<1>. QED
    BY <1>1, <1>2, <1>8, <1>16 DEF LoginOK

LEMMA OnRetrieveAccountResponseLogin ==
    ASSUME AuthTypeOK, LoginOK, OnRetrieveAccountResponse, authq' = Tail(authq)
    PROVE  LoginOK'
<1>1. /\ authq # << >> /\ auth \in AuthStore
      /\ Head(authq).type = "RetrieveAccountResponse"
      /\ UNCHANGED <<last_session_id, authdb, gameq>>
    BY HeadFacts DEF OnRetrieveAccountResponse, Handles, authOnly
<1>2. PICK temp \in Held : temp = Head(authq).token
    BY <1>1, HeadFacts, AuthEventFields
<1>3. PICK a \in Accounts \union {NoAccount} : a = Head(authq).account
    BY <1>1, HeadFacts, AuthEventFields
<1>4. PICK st : st = unmark_session_for_reaping(auth, temp)
    OBVIOUS
<1>5. SameSessions(auth, st)
    BY <1>1, <1>4, UnmarkOne DEF LoginOK, Sound
<1>6. PICK c : c = auth.sessions[temp].link
    OBVIOUS
<1>7. CASE UNCHANGED authOnly
    BY <1>1, <1>7, QuietUnchanged, SameGameq, QuietStep
<1>8. ASSUME Holds(auth, temp)
      PROVE  /\ auth.sessions[temp].auth_id = NoAccount
             /\ c \in Clients
             /\ Head(authq) \in Logins(auth, alink[c], c)
    <2>1. Temporary(auth, last_session_id, temp)
        BY <1>1, <1>2, HeadFacts DEF AuthGood
    <2>2. auth.sessions[temp] \in AuthSessions
        BY <1>1, <1>8, StoreFields DEF AuthStore, Holds
    <2>3. auth.sessions[temp].auth_id = NoAccount /\ c \in Clients
        BY <1>6, <1>8, <2>1, <2>2 DEF Temporary, AuthSessions
    <2>4. Head(authq) \in Logins(auth, alink[c], c)
        BY <1>1, <1>2, <1>6, <1>8, HeadFacts DEF Logins
    <2>. QED
        BY <2>3, <2>4
<1>9. CASE /\ Holds(auth, temp)
           /\ auth' = mark_session_for_reaping(st, temp, temp)
           /\ alink' = Refused(c)
    <2>1. c \in Clients /\ Head(authq) \in Logins(auth, alink[c], c)
        BY <1>8, <1>9
    <2>2. SameSessions(auth, auth')
        <3>1. SameSessions(st, auth')
            BY <1>5, <1>9, MarkOne DEF SameSessions
        <3>. QED
            BY <1>5, <3>1 DEF SameSessions
    <2>3. /\ \A d \in Clients : d # c => alink'[d] = alink[d]
          /\ alink'[c].token = alink[c].token
          /\ alink'[c].stage = alink[c].stage
        BY <1>9, <2>1, RefusedFields
    <2>4. alink[c].token = NoToken <=> alink[c].stage \in {"none", "INITIAL", "CONNECTED"}
        BY <2>1 DEF LoginOK, Sound, StagesOK
    <2>5. Quiet
        BY <1>1, <2>1, <2>2, <2>3, <2>4, QuietStore, QuietLink DEF Quiet
    <2>. QED
        BY <1>1, <2>5, SameGameq, QuietStep
<1>10. CASE /\ Holds(auth, temp) /\ a # NoAccount
            /\ LoggedIn(st, temp, c, a)
    <2>1. /\ temp \in DOMAIN auth.sessions
          /\ auth.sessions[temp].auth_id = NoAccount
          /\ c \in Clients /\ a \in Accounts
        BY <1>3, <1>8, <1>10 DEF Holds
    <2>2. IdsOK(auth)
        BY DEF LoginOK, Sound
    <2>3. PICK t \in DOMAIN auth.sessions :
             /\ t = IF auth.id_to_token[a] = NoToken THEN temp ELSE auth.id_to_token[a]
             /\ LoggedInStore(auth, auth', temp, t, c, a)
             /\ alink' = [Answered(c) EXCEPT ![c].token = t, ![c].stage = "AUTHORIZED"]
        BY <1>5, <1>10, <2>1, <2>2, LoggedInOutcome
    <2>4. LoggedInStore(auth, auth', temp, t, c, a)
        BY <2>3
    <2>5. t = IF auth.id_to_token[a] = NoToken THEN temp ELSE auth.id_to_token[a]
        BY <2>3
    <2>6. PICK ls \in [Clients -> AuthLinks] : ls = Answered(c)
        BY <2>1, AnsweredFields
    <2>7. PICK ms : ms = [ls EXCEPT ![c].token = t]
        OBVIOUS
    <2>8. alink' = [ms EXCEPT ![c].stage = "AUTHORIZED"]
        BY <2>3, <2>6, <2>7
    <2>9. alink'[c].token = t /\ alink'[c].stage = "AUTHORIZED"
        BY <2>1, <2>6, <2>7, <2>8 DEF AuthLinks
    <2>10. \A d \in Clients : d # c => alink'[d] = alink[d]
        <3>1. \A d \in Clients : d # c => alink'[d] = ls[d]
            BY <2>1, <2>6, <2>7, <2>8
        <3>. QED
            BY <2>1, <2>6, <3>1, AnsweredFields
    <2>. QED
        BY <1>1, <1>2, <1>6, <2>1, <2>4, <2>5, <2>9, <2>10, LoggedInQueued
<1>. QED
    BY <1>2, <1>3, <1>4, <1>6, <1>7, <1>9, <1>10 DEF OnRetrieveAccountResponse

-----------------------------------------------------------------------------
(* The steps                                                               *)

LEMMA AuthStepLogin ==
    ASSUME AuthTypeOK, LoginOK, HandleAuthEvent
    PROVE  LoginOK'
<1>1. authq' = Tail(authq)
    BY DEF HandleAuthEvent
<1>2. CASE OnLogin
    BY <1>1, <1>2, OnLoginLogin
<1>3. CASE OnRetrieveAccountResponse
    BY <1>1, <1>3, OnRetrieveAccountResponseLogin
<1>4. CASE OnServerSelected
    <2>1. authq # << >>
        BY <1>4 DEF OnServerSelected, Handles
    <2>. QED
        BY <1>1, <1>4, <2>1, OnServerSelectedLogin, QuietStep
<1>5. CASE \/ OnConnect \/ OnDisconnect \/ OnDbError \/ OnServerListRequest \/ OnClientExpected
           \/ OnClientConnectedToOtherServer \/ OnClientDisconnectedFromOtherServer
    <2>1. authq # << >> /\ UNCHANGED gameq
        BY <1>5 DEF OnConnect, OnDisconnect, OnDbError, OnServerListRequest, OnClientExpected,
                    OnClientConnectedToOtherServer, OnClientDisconnectedFromOtherServer,
                    Handles, Stop
    <2>2. Quiet
        BY <1>5, OnConnectLogin, OnDisconnectLogin, OnDbErrorLogin, OnServerListRequestLogin,
           OnClientExpectedLogin, OnClientConnectedLogin, OnClientDisconnectedLogin
    <2>. QED
        BY <1>1, <2>1, <2>2, SameGameq, QuietStep
<1>. QED
    BY <1>2, <1>3, <1>4, <1>5 DEF HandleAuthEvent

(* What the game handler tells the authentication handler                  *)
Tidings(st, ls, n) ==
    {ev \in AuthGood(st, ls, n) :
       ev.type \in {"ClientConnectedMessage", "ClientDisconnectedMessage",
                    "ExpectClientResponse"}}

LEMMA ToldQueued ==
    ASSUME NEW st, NEW ls, NEW n, NEW aq, NEW gq, NEW db, Queued(st, ls, n, aq, gq, db),
           NEW aq2 \in Seq(AuthEvent), NEW m, Grows(aq, aq2, m),
           \A i \in (Len(aq) + 1)..(Len(aq) + m) : aq2[i] \in Tidings(st, ls, n)
    PROVE  Queued(st, ls, n, aq2, gq, db)
<1>1. PICK len \in Nat : len = Len(aq) /\ aq \in Seq(AuthGood(st, ls, n))
    BY QueuesFacts
<1>2. aq2 \in Seq(AuthGood(st, ls, n))
    <2>1. \A i \in 1..(len + m) : i \in 1..len \/ i \in (len + 1)..(len + m)
        BY <1>1 DEF Grows
    <2>2. \A i \in 1..len : aq2[i] \in AuthGood(st, ls, n)
        BY <1>1 DEF Grows
    <2>3. \A i \in (len + 1)..(len + m) : aq2[i] \in AuthGood(st, ls, n)
        BY <1>1 DEF Tidings
    <2>4. \A i \in 1..Len(aq2) : aq2[i] \in AuthGood(st, ls, n)
        BY <1>1, <2>1, <2>2, <2>3 DEF Grows
    <2>. QED
        BY <2>4, Elements
<1>3. \A c \in Clients, ev \in Tidings(st, ls, n) : ev \notin Logins(st, ls[c], c)
    BY DEF Tidings, Logins
<1>4. \A c \in Clients : OnePending(ls[c], aq2, db, Logins(st, ls[c], c), Requests(st, c))
    BY <1>1, <1>3, QueuesFacts, GrownPending
<1>. QED
    BY <1>2, <1>4, QueuesFacts DEF Queued

(* The game handler and what posts to it change nothing of the             *)
(* authentication handler's but its queue.                                 *)
LEMMA GameChanges ==
    ASSUME LoginOK, UNCHANGED authOnly, authq' \in Seq(AuthEvent),
           NEW m, Grows(authq, authq', m),
           \A i \in (Len(authq) + 1)..(Len(authq) + m) :
              authq'[i] \in Tidings(auth, alink, last_session_id),
           gameq' \in Seq(GameGood(auth, last_session_id))
    PROVE  LoginOK'
<1>1. Queued(auth, alink, last_session_id, authq', gameq, authdb)
    BY ToldQueued DEF LoginOK
<1>2. Queued(auth, alink, last_session_id, authq', gameq', authdb)
    BY <1>1 DEF Queued
<1>. QED
    BY <1>2 DEF LoginOK, authOnly

LEMMA GamePosts ==
    ASSUME AuthTypeOK, LoginOK, UNCHANGED <<authOnly, authq>>,
           gameq' \in Seq(GameGood(auth, last_session_id))
    PROVE  LoginOK'
<1>1. Queued(auth, alink, last_session_id, authq, gameq', authdb)
    BY DEF LoginOK, Queued
<1>. QED
    BY <1>1 DEF LoginOK, authOnly

LEMMA PostGameLogin ==
    ASSUME AuthTypeOK, LoginOK, UNCHANGED <<authOnly, authq>>,
           NEW ev \in GameEvent, ev.type # "ExpectClientRequest", PostGame(ev)
    PROVE  LoginOK'
<1>1. gameq \in Seq(GameGood(auth, last_session_id))
    BY QueuesFacts DEF LoginOK
<1>2. ev \in GameGood(auth, last_session_id)
    BY DEF GameGood
<1>. QED
    BY <1>1, <1>2, QueueOps, GamePosts DEF PostGame

(* The clients, the databases and the map server                           *)
LEMMA GameInputLogin ==
    ASSUME AuthTypeOK, GameTypeOK, LoginOK, UNCHANGED <<authOnly, authq>>,
           \/ \E c \in Clients : \/ SendUpdateServer(c) \/ SendMapRequest(c)
                                 \/ LeaveGame(c) \/ MapEntered(c)
           \/ GameAccount \/ GameDbFails
           \/ \E t \in Held : MapExpects(t) \/ MapLeft(t)
    PROVE  LoginOK'
<1>1. CASE \E c \in Clients : SendUpdateServer(c) \/ SendMapRequest(c) \/ LeaveGame(c)
    <2>1. PICK c \in Clients, type \in {"UpdateServer", "MapServerAddrRequest", "Disconnect"} :
             PostGame([type |-> type, link |-> c])
        BY <1>1 DEF SendUpdateServer, SendMapRequest, LeaveGame
    <2>2. PICK ev \in GameEvent : ev = [type |-> type, link |-> c]
        BY GameEvents
    <2>. QED
        BY <2>1, <2>2, PostGameLogin
<1>2. CASE \/ \E c \in Clients : MapEntered(c)
           \/ GameAccount \/ GameDbFails
           \/ \E t \in Held : MapExpects(t) \/ MapLeft(t)
    <2>1. PICK t \in Held, type \in {"GameAccountResponse", "GameDbErrorMessage",
                                     "ExpectMapClientResponse", "ClientConnectedMessage",
                                     "ClientDisconnectedMessage"} :
             PostGame([type |-> type, token |-> t])
        <3>1. CASE \E c \in Clients : MapEntered(c)
            <4>1. PICK c \in Clients : MapEntered(c)
                BY <3>1
            <4>2. glink[c].token \in Held
                BY <4>1, HeldFacts DEF MapEntered, GameTypeOK, GameLinks, Held
            <4>. QED
                BY <4>1, <4>2 DEF MapEntered
        <3>2. CASE GameAccount \/ GameDbFails
            <4>1. Head(gamedb) \in Held
                BY <3>2, QueueOps DEF GameAccount, GameDbFails, GameTypeOK
            <4>. QED
                BY <3>2, <4>1 DEF GameAccount, GameDbFails
        <3>3. CASE \E t \in Held : MapExpects(t) \/ MapLeft(t)
            BY <3>3 DEF MapExpects, MapLeft
        <3>. QED
            BY <1>2, <3>1, <3>2, <3>3
    <2>2. PICK ev \in GameEvent : ev = [type |-> type, token |-> t]
        BY GameEvents
    <2>. QED
        BY <2>1, <2>2, PostGameLogin
<1>. QED
    BY <1>1, <1>2

(* The game handler expects a client whose session it was asked to, and    *)
(* reports clients of its own.                                             *)
LEMMA GameStepLogin ==
    ASSUME AuthTypeOK, LoginOK, UNCHANGED authOnly, authq' \in Seq(AuthEvent),
           HandleGameEvent
    PROVE  LoginOK'
<1>1. gameq # << >> /\ gameq' = Tail(gameq)
    BY DEF HandleGameEvent, OnExpectClient, OnUpdateServer, OnAccountData, OnGameDbError,
           OnMapReq, OnMapClientExpected, OnLeaving, OnConnectedToMap,
           OnDisconnectedFromMap, HandlesGame
<1>2. PICK n, ls, st : n = last_session_id /\ ls = alink /\ st = auth
    OBVIOUS
<1>3. /\ Head(gameq) \in GameGood(st, n)
      /\ gameq' \in Seq(GameGood(st, n))
    BY <1>1, <1>2, QueuesFacts, QueueOps DEF LoginOK
<1>4. \/ authq' = authq
      \/ \E t : \/ TellAuth("ClientConnectedMessage", t)
               \/ TellAuth("ClientDisconnectedMessage", t)
      \/ OnExpectClient
    BY DEF HandleGameEvent, OnUpdateServer, OnAccountData, OnGameDbError,
           OnMapReq, OnMapClientExpected, OnLeaving, OnConnectedToMap,
           OnDisconnectedFromMap, StopGame, ExitToLogin
<1>5. CASE authq' = authq
    BY <1>2, <1>3, <1>5, GamePosts
<1>6. ASSUME NEW ev, authq' = Append(authq, ev), ev \in AuthEvent => ev \in Tidings(st, ls, n)
      PROVE  LoginOK'
    <2>1. PICK len \in Nat : len = Len(authq)
        BY DEF AuthTypeOK
    <2>2. /\ Len(authq') = len + 1
          /\ authq'[len + 1] = ev
          /\ \A i \in 1..len : authq'[i] = authq[i]
        BY <1>6, <2>1 DEF AuthTypeOK
    <2>3. Grows(authq, authq', 1)
        BY <2>1, <2>2 DEF Grows
    <2>4. len + 1 \in 1..(len + 1) /\ \A i \in (len + 1)..(len + 1) : i = len + 1
        OBVIOUS
    <2>5. ev \in AuthEvent
        BY <2>2, <2>4
    <2>6. \A i \in (len + 1)..(len + 1) : authq'[i] \in Tidings(st, ls, n)
        BY <1>6, <2>2, <2>4, <2>5
    <2>. QED
        BY <1>2, <1>3, <2>1, <2>3, <2>6, GameChanges
<1>7. CASE \E t : \/ TellAuth("ClientConnectedMessage", t)
                 \/ TellAuth("ClientDisconnectedMessage", t)
    <2>1. PICK t : \/ TellAuth("ClientConnectedMessage", t)
                   \/ TellAuth("ClientDisconnectedMessage", t)
        BY <1>7
    <2>2. PICK type \in {"ClientConnectedMessage", "ClientDisconnectedMessage"} :
             TellAuth(type, t)
        BY <2>1
    <2>3. PICK ev : ev = [type |-> type, token |-> t]
        OBVIOUS
    <2>4. ev \in AuthEvent => ev \in Tidings(st, ls, n)
        BY <2>3 DEF Tidings, AuthGood
    <2>5. authq' = Append(authq, ev)
        BY <2>2, <2>3 DEF TellAuth
    <2>. QED
        BY <1>6, <2>4, <2>5
<1>8. CASE OnExpectClient
    <2>1. Known(st, n, Head(gameq).token)
        BY <1>3, <1>8 DEF OnExpectClient, HandlesGame, GameGood
    <2>2. PICK ev : ev = [type |-> "ExpectClientResponse", token |-> Head(gameq).token]
        OBVIOUS
    <2>3. ev \in AuthEvent => ev \in Tidings(st, ls, n)
        BY <2>1, <2>2 DEF Tidings, AuthGood
    <2>4. authq' = Append(authq, ev)
        BY <1>8, <2>2 DEF OnExpectClient, TellAuth
    <2>. QED
        BY <1>6, <2>3, <2>4
<1>. QED
    BY <1>4, <1>5, <1>7, <1>8

LEMMA ReapGameLogin ==
    ASSUME AuthTypeOK, GameTypeOK, LoginOK, UNCHANGED authOnly, authq' \in Seq(AuthEvent),
           NEW stale, ReapGame(stale)
    PROVE  LoginOK'
<1>1. gameq' \in Seq(GameGood(auth, last_session_id))
    BY SameGameq DEF ReapGame
<1>2. CASE UNCHANGED authq
    BY <1>1, <1>2, GamePosts
<1>3. ASSUME NEW r, r = StaleLinks(game, stale).reaped,
             authq' = authq \o [i \in DOMAIN r |->
                                  [type |-> "ClientDisconnectedMessage", token |-> r[i].token]]
      PROVE  LoginOK'
    <2>1. r \in Seq(WaitingSession(Held, Held))
        BY <1>3, PassEntries, StoreFields DEF GameTypeOK, GameStore
    <2>2. PICK m \in Nat : m = Len(r) /\ DOMAIN r = 1..m
        BY <2>1
    <2>3. \A i \in 1..m : r[i].token \in Held
        <3>1. \A i \in 1..m : r[i] \in WaitingSession(Held, Held)
            BY <2>1, <2>2
        <3>. QED
            BY <3>1 DEF WaitingSession
    <2>4. PICK more : more = [i \in 1..m |-> Left(r[i].token)]
        OBVIOUS
    <2>5. \A i \in 1..m : /\ more[i] \in AuthEvent
                          /\ more[i].type = "ClientDisconnectedMessage"
        BY <2>3, <2>4, AuthEvents DEF Left
    <2>6. more \in Seq(AuthEvent) /\ Len(more) = m
        BY <2>4, <2>5
    <2>7. PICK len \in Nat : len = Len(authq)
        BY DEF AuthTypeOK
    <2>8. authq' = authq \o more
        BY <1>3, <2>2, <2>4 DEF Left
    <2>9. /\ authq' \in Seq(AuthEvent)
          /\ Len(authq') = len + m
          /\ \A i \in 1..len : authq'[i] = authq[i]
          /\ \A i \in (len + 1)..(len + m) : authq'[i] = more[i - len]
        BY <2>6, <2>7, <2>8, Joined, Zenon DEF AuthTypeOK
    <2>10. Grows(authq, authq', m)
        BY <2>7, <2>9 DEF Grows
    <2>11. \A i \in (len + 1)..(len + m) : i - len \in 1..m
        OBVIOUS
    <2>12. \A i \in (len + 1)..(len + m) : authq'[i] \in Tidings(auth, alink, last_session_id)
        BY <2>5, <2>9, <2>11 DEF Tidings, AuthGood
    <2>. QED
        BY <1>1, <2>7, <2>10, <2>12, GameChanges
<1>. QED
    BY <1>2, <1>3 DEF ReapGame

LEMMA StepLogin ==
    ASSUME LoginInv, [Next]_vars
    PROVE  LoginInv'
<1>1. TypeOK /\ TypeOK' /\ AuthTypeOK /\ GameTypeOK /\ authq' \in Seq(AuthEvent)
    BY StepTypes DEF LoginInv, TypeOK, AuthTypeOK
<1>2. LoginOK
    BY DEF LoginInv, LoginOK
<1>3. SUFFICES LoginOK'
    BY <1>1 DEF LoginInv, LoginOK
<1>4. CASE AuthStep
    BY <1>1, <1>2, <1>4, AuthStepLogin DEF AuthStep
<1>5. CASE GameStep
    BY <1>1, <1>2, <1>5, GameStepLogin DEF GameStep
<1>6. CASE AuthDbStep
    BY <1>1, <1>2, <1>6, AuthDbLogin DEF AuthDbStep
<1>7. CASE GameDbStep \/ \E t \in 1..MaxSessions : MapStep(t)
    BY <1>1, <1>2, <1>7, GameInputLogin, HeldFacts DEF GameDbStep, MapStep
<1>8. CASE \E stale \in 1..LastMark(auth) : AuthReaper(stale)
    BY <1>1, <1>2, <1>8, ReapAuthLogin DEF AuthReaper
<1>9. CASE \E stale \in 1..LastMark(game) : GameReaper(stale)
    BY <1>1, <1>2, <1>9, ReapGameLogin DEF GameReaper
<1>10. ASSUME NEW c \in Clients, ClientStep(c)
       PROVE  LoginOK'
    <2>1. CASE Opens(c) \/ Asks(c) \/ Closes(c) \/ Finishes(c)
        BY <1>1, <1>2, <2>1, LinkOpenLogin, LinkInputLogin, LinkCloseLogin, AskedInput
        DEF Opens, Closes, Finishes, Inputs
    <2>2. CASE EntersGame(c) \/ AsksForMap(c) \/ Leaves(c) \/ EntersMap(c)
        BY <1>1, <1>2, <2>2, GameInputLogin DEF EntersGame, AsksForMap, Leaves, EntersMap
    <2>3. CASE GivesUp(c)
        BY <1>2, <2>3 DEF GivesUp, LoginOK, authOnly
    <2>. QED
        BY <1>10, <2>1, <2>2, <2>3 DEF ClientStep
<1>11. CASE UNCHANGED vars
    BY <1>2, <1>11 DEF vars, authOnly, LoginOK
<1>. QED
    BY <1>4, <1>5, <1>6, <1>7, <1>8, <1>9, <1>10, <1>11 DEF Next, ServerStep

LEMMA InitLogin ==
    ASSUME Init
    PROVE  LoginInv
<1>1. TypeOK
    BY InitTypes
<1>2. /\ auth = EmptyStore
      /\ alink = [c \in Clients |-> NoLinkYet]
      /\ authq = << >> /\ gameq = << >> /\ authdb = << >>
    BY DEF Init, AuthInit, GameInit
<1>3. /\ DOMAIN auth.sessions = {}
      /\ auth.id_to_token = [a \in Accounts |-> NoToken]
      /\ auth.waiting = << >>
    BY <1>2 DEF EmptyStore
<1>4. \A E : << >> \in Seq(E)
    OBVIOUS
<1>5. 1..Len(<< >>) = {}
    OBVIOUS
<1>6. Sound(auth, alink, last_session_id)
    <2>1. IdsOK(auth) /\ LinksOK(auth, alink)
        BY <1>3 DEF IdsOK, LinksOK
    <2>2. \A c \in Clients : alink[c].token = NoToken /\ alink[c].stage = "none"
        BY <1>2 DEF NoLinkYet
    <2>3. auth.waiting \in Seq(Mark)
        BY <1>3, <1>4
    <2>. QED
        BY <1>3, <2>1, <2>2, <2>3 DEF Sound, StagesOK
<1>7. \A S : ~Some(<< >>, S)
    BY <1>5 DEF Some
<1>8. Queued(auth, alink, last_session_id, authq, gameq, authdb)
    BY <1>2, <1>4, <1>7, NothingPending DEF Queued, Idle
<1>. QED
    BY <1>1, <1>6, <1>8 DEF LoginInv

(* The session an account is mapped to is held by the authentication       *)
(* handler, whatever goes wrong: the token setTokenForId left for it       *)
(* (ClientManager.h:157-160) is never that of a session the reaper has     *)
(* destroyed (ClientManager.h:310-341), although OnDisconnect marks a      *)
(* session with the token its link names, which need not be its own        *)
(* (AuthHandler.cpp:141).                                                  *)
THEOREM MappedSessionsAreHeld == Spec => []MappedIsHeld
<1>1. Init => LoginInv
    BY InitLogin
<1>2. LoginInv /\ [Next]_vars => LoginInv'
    BY StepLogin
<1>3. LoginInv => MappedIsHeld
    BY DEF LoginInv, Sound, IdsOK, MappedIsHeld
<1>. QED
    BY <1>1, <1>2, <1>3, PTL DEF Spec

-----------------------------------------------------------------------------
(* A session that is logged in: while no client leaves before its answer   *)
(* and none that was refused tries again, it has the open link it logged   *)
(* in on, or the closing of that link is in the queue.                     *)

Ends(t) == {ev \in AuthEvent : ev.type = "Disconnect" /\ ev.token = t}

LoginsOf(l, c) ==
    {ev \in AuthEvent : ev.type = "LoginRequest" /\ ev.link = c /\ l.token = NoToken}

Starts(l, c) ==
    LoginsOf(l, c) \union {ev \in AuthEvent : ev.type = "Connect" /\ ev.link = c}

There(st, ls, aq) ==
    \A t \in DOMAIN st.sessions : st.sessions[t].logged_in =>
       /\ st.sessions[t].auth_id # NoAccount
       /\ st.sessions[t].link # NoLink
       /\ t \in st.active
       /\ ls[st.sessions[t].link].up \/ Some(aq, Ends(t))

(* The link has asked for no login yet.                                    *)
Starting(l) ==
    \/ l.stage \in {"none", "INITIAL"}
    \/ l.stage = "CONNECTED" /\ ~l.asked /\ ~l.refused

(* A client has one session at most, and none before its login is handled; *)
(* until then no reaper has told its link to finish.                       *)
OneSession(st, l, aq, c) ==
    /\ \A t, u \in Requests(st, c) : t = u
    /\ Starting(l) \/ Some(aq, Starts(l, c)) => Requests(st, c) = {} /\ ~l.finish
    /\ Some(aq, LoginsOf(l, c)) => l.stage = "CONNECTED"

(* Whoever waits for the answer to its login stays.                        *)
Stays(st, l, aq, db, c) ==
    Idle(aq, db, Logins(st, l, c), Requests(st, c)) \/ (l.up /\ ~l.finish)

(* The entry of a session that has no account yet destroys it.             *)
Marks(st, n) ==
    {e \in Mark : /\ e.session < n
                  /\ Holds(st, e.session) /\ st.sessions[e.session].auth_id = NoAccount =>
                        e.token = e.session}

Present(st, ls, n, aq, db) ==
    /\ There(st, ls, aq)
    /\ \A c \in Clients : OneSession(st, ls[c], aq, c) /\ Stays(st, ls[c], aq, db, c)
    /\ st.waiting \in Seq(Marks(st, n))

(* The tokens the game handler may have: of sessions that have an account, *)
(* or had one and are gone.                                                *)
Knowns(st, n) == {t \in Held : Known(st, n, t)}

GameKnown(K) == Stores(GameSessions, Clients, K, K)

Leavings(st, n) ==
    {ev \in AuthEvent : ev.type = "ClientDisconnectedMessage" => Known(st, n, ev.token)}

Traced(st, n, gs, aq) == gs \in GameKnown(Knowns(st, n)) /\ aq \in Seq(Leavings(st, n))

PresentInv ==
    /\ LoginInv
    /\ Present(auth, alink, last_session_id, authq, authdb)
    /\ Traced(auth, last_session_id, game, authq)

-----------------------------------------------------------------------------
(* Queues                                                                  *)

LEMMA HandledSome ==
    ASSUME NEW E, NEW q \in Seq(E), q # << >>, NEW S
    PROVE  /\ Some(Tail(q), S) => Some(q, S)
           /\ Head(q) \notin S /\ Some(q, S) => Some(Tail(q), S)
           /\ Head(q) \in S => Some(q, S)
<1>1. PICK n \in Nat : n + 1 = Len(q)
    <2>1. Len(q) \in Nat /\ Len(q) # 0
        OBVIOUS
    <2>2. (Len(q) - 1) \in Nat /\ (Len(q) - 1) + 1 = Len(q)
        BY <2>1
    <2>. QED
        BY <2>2
<1>2. PICK r : r = Tail(q)
    OBVIOUS
<1>3. Len(r) = n /\ \A i \in 1..n : r[i] = q[i + 1]
    BY <1>1, <1>2
<1>4. Head(q) = q[1] /\ 1 \in 1..(n + 1)
    OBVIOUS
<1>5. /\ \A i \in 1..n : i + 1 \in 1..(n + 1)
      /\ \A i \in 1..(n + 1) : i # 1 => i - 1 \in 1..n /\ (i - 1) + 1 = i
    OBVIOUS
<1>6. Some(r, S) => Some(q, S)
    BY <1>1, <1>3, <1>5 DEF Some
<1>7. ASSUME Head(q) \notin S, Some(q, S)
      PROVE  Some(r, S)
    <2>1. PICK i \in 1..(n + 1) : q[i] \in S
        BY <1>1, <1>7 DEF Some
    <2>2. i # 1
        BY <1>4, <1>7, <2>1
    <2>3. i - 1 \in 1..n /\ r[i - 1] = q[i]
        BY <1>3, <1>5, <2>1, <2>2
    <2>. QED
        BY <1>3, <2>1, <2>3 DEF Some
<1>8. Head(q) \in S => Some(q, S)
    BY <1>1, <1>4 DEF Some
<1>. QED
    BY <1>2, <1>6, <1>7, <1>8

LEMMA AppendedSome ==
    ASSUME NEW E, NEW q \in Seq(E), NEW ev, NEW S
    PROVE  /\ Some(q, S) => Some(Append(q, ev), S)
           /\ ev \notin S /\ Some(Append(q, ev), S) => Some(q, S)
<1>1. PICK n \in Nat : n = Len(q)
    OBVIOUS
<1>2. PICK r : r = Append(q, ev)
    OBVIOUS
<1>3. Len(r) = n + 1 /\ r[n + 1] = ev /\ \A i \in 1..n : r[i] = q[i]
    BY <1>1, <1>2
<1>4. /\ \A i \in 1..(n + 1) : i \in 1..n \/ i = n + 1
      /\ \A i \in 1..n : i \in 1..(n + 1)
    OBVIOUS
<1>5. Some(q, S) => Some(r, S)
    BY <1>1, <1>3, <1>4 DEF Some
<1>6. ev \notin S /\ Some(r, S) => Some(q, S)
    BY <1>1, <1>3, <1>4 DEF Some
<1>. QED
    BY <1>2, <1>5, <1>6

LEMMA GrownSome ==
    ASSUME NEW E, NEW q \in Seq(E), NEW q2, NEW m, Grows(q, q2, m), NEW S
    PROVE  /\ Some(q, S) => Some(q2, S)
           /\ (\A i \in (Len(q) + 1)..(Len(q) + m) : q2[i] \notin S) /\ Some(q2, S) =>
                 Some(q, S)
<1>1. PICK n \in Nat : n = Len(q)
    OBVIOUS
<1>2. /\ \A i \in 1..(n + m) : i \in 1..n \/ i \in (n + 1)..(n + m)
      /\ \A i \in 1..n : i \in 1..(n + m)
    BY DEF Grows
<1>3. Some(q, S) => Some(q2, S)
    BY <1>1, <1>2 DEF Some, Grows
<1>4. ASSUME \A i \in (n + 1)..(n + m) : q2[i] \notin S, Some(q2, S)
      PROVE  Some(q, S)
    <2>1. PICK i \in 1..(n + m) : q2[i] \in S
        BY <1>1, <1>4 DEF Some, Grows
    <2>2. i \in 1..n
        BY <1>2, <1>4, <2>1
    <2>3. q[i] \in S
        BY <1>1, <2>1, <2>2 DEF Grows
    <2>. QED
        BY <1>1, <2>2, <2>3 DEF Some
<1>. QED
    BY <1>1, <1>3, <1>4

LEMMA OvertakenSome ==
    ASSUME NEW q \in Seq(AuthEvent), NEW ev \in AuthEvent, NEW S
    PROVE  /\ Some(q, S) => Some(Urgently(q, ev), S)
           /\ ev \in S => Some(Urgently(q, ev), S)
           /\ ev \notin S /\ Some(Urgently(q, ev), S) => Some(q, S)
<1>1. PICK len \in Nat : len = Len(q)
    OBVIOUS
<1>2. PICK u : u = Urgently(q, ev)
    OBVIOUS
<1>3. PICK n \in 0..len :
         /\ Len(u) = len + 1
         /\ u[n + 1] = ev
         /\ \A i \in 1..n : u[i] = q[i]
         /\ \A i \in (n + 1)..len : u[i + 1] = q[i]
    <2>1. Inserts(u, q, ev)
        BY <1>2, UrgentlyInserts
    <2>. QED
        BY <2>1, <1>1, Zenon DEF Inserts
<1>4. ASSUME Some(q, S)
      PROVE  Some(u, S)
    <2>1. PICK i \in 1..len : q[i] \in S
        BY <1>1, <1>4 DEF Some
    <2>2. CASE i \in 1..n
        <3>1. i \in 1..(len + 1) /\ u[i] = q[i]
            BY <1>3, <2>2
        <3>. QED
            BY <1>3, <2>1, <3>1 DEF Some
    <2>3. CASE i \in (n + 1)..len
        <3>1. i + 1 \in 1..(len + 1) /\ u[i + 1] = q[i]
            BY <1>3, <2>3
        <3>. QED
            BY <1>3, <2>1, <3>1 DEF Some
    <2>4. i \in 1..n \/ i \in (n + 1)..len
        BY <2>1
    <2>. QED
        BY <2>2, <2>3, <2>4
<1>5. ev \in S => Some(u, S)
    <2>1. n + 1 \in 1..(len + 1)
        OBVIOUS
    <2>. QED
        BY <1>3, <2>1 DEF Some
<1>6. ASSUME ev \notin S, Some(u, S)
      PROVE  Some(q, S)
    <2>1. PICK i \in 1..(len + 1) : u[i] \in S
        BY <1>3, <1>6 DEF Some
    <2>2. CASE i \in 1..n
        <3>1. i \in 1..len /\ u[i] = q[i]
            BY <1>3, <2>2
        <3>. QED
            BY <1>1, <2>1, <3>1 DEF Some
    <2>3. CASE i \in (n + 2)..(len + 1)
        <3>1. i - 1 \in (n + 1)..len /\ (i - 1) + 1 = i /\ i - 1 \in 1..len
            BY <2>3
        <3>2. u[i] = q[i - 1]
            BY <1>3, <3>1
        <3>. QED
            BY <1>1, <2>1, <3>1, <3>2 DEF Some
    <2>4. i # n + 1
        BY <1>3, <1>6, <2>1
    <2>5. i \in 1..n \/ i \in (n + 2)..(len + 1)
        BY <2>1, <2>4
    <2>. QED
        BY <2>2, <2>3, <2>5
<1>. QED
    BY <1>2, <1>4, <1>5, <1>6

(* Nothing on its way: no login either                                     *)
LEMMA IdleStarts ==
    ASSUME NEW st, NEW l, NEW c, NEW aq, NEW db, NEW B,
           Idle(aq, db, Logins(st, l, c), B)
    PROVE  ~Some(aq, Starts(l, c)) /\ ~Some(aq, LoginsOf(l, c))
BY DEF Idle, Some, Logins, Starts, LoginsOf

-----------------------------------------------------------------------------
(* Steps by which nobody logs in                                           *)

Eases(st, st2) ==
    /\ Shrinks(st, st2)
    /\ \A t \in DOMAIN st2.sessions : st2.sessions[t].logged_in =>
          /\ st.sessions[t].logged_in
          /\ st2.sessions[t].link = st.sessions[t].link
          /\ t \in st.active => t \in st2.active

LEMMA EasedThere ==
    ASSUME NEW st \in AuthStore, NEW st2, Eases(st, st2), NEW ls, NEW ls2,
           \A c \in Clients : ls[c].up => ls2[c].up,
           NEW aq, NEW aq2, There(st, ls, aq),
           \A t \in DOMAIN st2.sessions :
              st2.sessions[t].logged_in /\ Some(aq, Ends(t)) => Some(aq2, Ends(t))
    PROVE  There(st2, ls2, aq2)
<1>1. SUFFICES ASSUME NEW t \in DOMAIN st2.sessions, st2.sessions[t].logged_in
               PROVE  /\ st2.sessions[t].auth_id # NoAccount
                      /\ st2.sessions[t].link # NoLink
                      /\ t \in st2.active
                      /\ ls2[st2.sessions[t].link].up \/ Some(aq2, Ends(t))
    BY DEF There
<1>2. /\ t \in DOMAIN st.sessions /\ st.sessions[t].logged_in
      /\ st2.sessions[t].link = st.sessions[t].link
      /\ st2.sessions[t].auth_id = st.sessions[t].auth_id
      /\ t \in st.active => t \in st2.active
    BY <1>1 DEF Eases, Shrinks
<1>3. /\ st.sessions[t].auth_id # NoAccount
      /\ st.sessions[t].link # NoLink
      /\ t \in st.active
      /\ ls[st.sessions[t].link].up \/ Some(aq, Ends(t))
    BY <1>2 DEF There
<1>4. st.sessions[t].link \in Clients
    <2>1. st.sessions[t] \in AuthSessions
        BY <1>2, StoreFields DEF AuthStore
    <2>. QED
        BY <1>3, <2>1 DEF AuthSessions
<1>. QED
    BY <1>1, <1>2, <1>3, <1>4

LEMMA ShrunkIdle ==
    ASSUME NEW st, NEW st2, Shrinks(st, st2), NEW c \in Clients, NEW l, NEW l2,
           l2.token = NoToken => l.token = NoToken, NEW aq, NEW db,
           Idle(aq, db, Logins(st, l, c), Requests(st, c))
    PROVE  Idle(aq, db, Logins(st2, l2, c), Requests(st2, c))
<1>1. /\ Logins(st2, l2, c) \subseteq Logins(st, l, c)
      /\ Requests(st2, c) \subseteq Requests(st, c)
    BY ShrunkLogins
<1>2. PICK A, B, A2, B2 : /\ A = Logins(st, l, c) /\ B = Requests(st, c)
                          /\ A2 = Logins(st2, l2, c) /\ B2 = Requests(st2, c)
    OBVIOUS
<1>3. Idle(aq, db, A, B) => Idle(aq, db, A2, B2)
    BY <1>1, <1>2 DEF Idle, Some
<1>. QED
    BY <1>2, <1>3

(* The link is as it was, but perhaps for being asked, or nothing of the   *)
(* client's login is on its way any more.                                  *)
LEMMA EasedClient ==
    ASSUME NEW st, NEW st2, Shrinks(st, st2), NEW c \in Clients,
           NEW l, NEW l2, l2.up = l.up, l2.finish = l.finish, l2.token = l.token,
           NEW aq, NEW aq2, NEW db, NEW db2,
           OneSession(st, l, aq, c), Stays(st, l, aq, db, c),
           Some(aq2, Starts(l, c)) => Some(aq, Starts(l, c)),
           Some(aq2, LoginsOf(l, c)) => Some(aq, LoginsOf(l, c)),
           Idle(aq, db, Logins(st, l, c), Requests(st, c)) =>
              Idle(aq2, db2, Logins(st, l, c), Requests(st, c)),
           \/ l2 = l
           \/ ~Starting(l2) /\ Idle(aq2, db2, Logins(st, l, c), Requests(st, c))
    PROVE  OneSession(st2, l2, aq2, c) /\ Stays(st2, l2, aq2, db2, c)
<1>1. Requests(st2, c) \subseteq Requests(st, c)
    BY ShrunkRequests
<1>2. Idle(aq2, db2, Logins(st, l, c), Requests(st, c)) =>
         Idle(aq2, db2, Logins(st2, l2, c), Requests(st2, c))
    BY ShrunkIdle
<1>3. Stays(st2, l2, aq2, db2, c)
    BY <1>2 DEF Stays
<1>4. CASE l2 = l
    BY <1>1, <1>3, <1>4 DEF OneSession
<1>5. CASE ~Starting(l2) /\ Idle(aq2, db2, Logins(st, l, c), Requests(st, c))
    <2>1. Idle(aq2, db2, Logins(st, l2, c), Requests(st, c))
        BY <1>5 DEF Logins
    <2>2. ~Some(aq2, Starts(l2, c)) /\ ~Some(aq2, LoginsOf(l2, c))
        BY <2>1, IdleStarts
    <2>. QED
        BY <1>1, <1>3, <1>5, <2>2 DEF OneSession
<1>. QED
    BY <1>4, <1>5

LEMMA ShrunkMarks ==
    ASSUME NEW st, NEW st2, Shrinks(st, st2), NEW n
    PROVE  Marks(st, n) \subseteq Marks(st2, n)
BY DEF Shrinks, Marks, Holds

LEMMA EasedHandled ==
    ASSUME AuthTypeOK, LoginOK, authq # << >>, authq' = Tail(authq),
           Present(auth, alink, last_session_id, authq, authdb),
           Eases(auth, auth'), UNCHANGED <<last_session_id, authdb>>,
           auth'.waiting \in Seq(Marks(auth, last_session_id)),
           \A c \in Clients :
              \/ alink'[c] = alink[c]
              \/ /\ alink'[c].up = alink[c].up /\ alink'[c].finish = alink[c].finish
                 /\ alink'[c].token = alink[c].token
                 /\ ~Starting(alink'[c])
                 /\ \/ Head(authq) \in Logins(auth, alink[c], c)
                    \/ ~Waits(alink[c]),
           \A t \in DOMAIN auth'.sessions :
              auth'.sessions[t].logged_in => Head(authq) \notin Ends(t)
    PROVE  Present(auth, alink, last_session_id, authq, authdb)'
<1>1. auth \in AuthStore /\ authq \in Seq(AuthEvent)
    BY DEF AuthTypeOK, AuthStore
<1>2. PICK n : n = last_session_id
    OBVIOUS
<1>3. PICK aq2 : aq2 = Tail(authq)
    OBVIOUS
<1>4. There(auth', alink', aq2)
    <2>1. \A t \in DOMAIN auth'.sessions :
             auth'.sessions[t].logged_in /\ Some(authq, Ends(t)) => Some(aq2, Ends(t))
        BY <1>1, <1>3, HandledSome
    <2>2. \A c \in Clients : alink[c].up => alink'[c].up
        OBVIOUS
    <2>. QED
        BY <1>1, <2>1, <2>2, EasedThere DEF Present
<1>5. ASSUME NEW c \in Clients
      PROVE  OneSession(auth', alink'[c], aq2, c) /\ Stays(auth', alink'[c], aq2, authdb, c)
    <2>1. PICK l, l2 : l = alink[c] /\ l2 = alink'[c]
        OBVIOUS
    <2>2. OneSession(auth, l, authq, c) /\ Stays(auth, l, authq, authdb, c)
        BY <2>1 DEF Present
    <2>3. /\ Some(aq2, Starts(alink[c], c)) => Some(authq, Starts(alink[c], c))
          /\ Some(aq2, LoginsOf(alink[c], c)) => Some(authq, LoginsOf(alink[c], c))
        BY <1>1, <1>3, HandledSome
    <2>4. \/ Head(authq) \in Logins(auth, alink[c], c)
          \/ Idle(authq, authdb, Logins(auth, alink[c], c), Requests(auth, c))
          => Idle(aq2, authdb, Logins(auth, alink[c], c), Requests(auth, c))
        BY <1>3, HandledQueued DEF LoginOK
    <2>5. Waits(l) \/ Idle(authq, authdb, Logins(auth, alink[c], c), Requests(auth, c))
        BY <2>1, QueuesFacts DEF LoginOK, OnePending
    <2>6. l2.up = l.up /\ l2.finish = l.finish /\ l2.token = l.token
        BY <2>1
    <2>7. \/ l2 = l
          \/ ~Starting(l2) /\ Idle(aq2, authdb, Logins(auth, alink[c], c), Requests(auth, c))
        BY <2>1, <2>4, <2>5
    <2>8. Shrinks(auth, auth')
        BY DEF Eases
    <2>. QED
        BY <2>1, <2>2, <2>3, <2>4, <2>6, <2>7, <2>8, EasedClient
<1>6. auth'.waiting \in Seq(Marks(auth', n))
    <2>1. Marks(auth, n) \subseteq Marks(auth', n)
        BY ShrunkMarks DEF Eases
    <2>. QED
        BY <1>2, <2>1, Elements
<1>. QED
    BY <1>2, <1>3, <1>4, <1>5, <1>6 DEF Present

-----------------------------------------------------------------------------
(* The store                                                               *)

Kept(st, st2, M) == st2.active = st.active /\ st2.waiting \in Seq(M)

LEMMA MarkKept ==
    ASSUME NEW st \in AuthStore, NEW M, st.waiting \in Seq(M), NEW t, NEW m,
           \A k \in Nat : [session |-> t, token |-> m, since |-> k + 1] \in M
    PROVE  Kept(st, mark_session_for_reaping(st, t, m), M)
<1>1. PICK k \in Nat : k = LastMark(st)
    BY StoreFields, LastMarkType DEF AuthStore
<1>2. PICK w : w = Append(st.waiting, [session |-> t, token |-> m, since |-> k + 1])
    OBVIOUS
<1>3. w \in Seq(M)
    BY <1>2
<1>4. PICK st2 : st2 = mark_session_for_reaping(st, t, m)
    OBVIOUS
<1>5. st2 = [st EXCEPT !.waiting = w]
    BY <1>1, <1>2, <1>4 DEF mark_session_for_reaping
<1>6. st2.active = st.active /\ st2.waiting = w
    BY <1>5, StoreFields DEF AuthStore
<1>. QED
    BY <1>3, <1>4, <1>6 DEF Kept

LEMMA UnmarkKept ==
    ASSUME NEW st \in AuthStore, NEW M, st.waiting \in Seq(M), NEW t
    PROVE  Kept(st, unmark_session_for_reaping(st, t), M)
<1>. DEFINE found == {i \in DOMAIN st.waiting : st.waiting[i].session = t}
<1>1. found \subseteq DOMAIN st.waiting
    OBVIOUS
<1>2. PICK w : w = SwapFirst(st.waiting, found)
    OBVIOUS
<1>3. w \in Seq(M)
    BY <1>1, <1>2, SwapFirstType
<1>4. PICK st2 : st2 = unmark_session_for_reaping(st, t)
    OBVIOUS
<1>5. st2 = [st EXCEPT !.waiting = w]
    BY <1>2, <1>4 DEF unmark_session_for_reaping
<1>6. st2.active = st.active /\ st2.waiting = w
    BY <1>5, StoreFields DEF AuthStore
<1>. QED
    BY <1>3, <1>4, <1>6 DEF Kept

LEMMA ActivateKept ==
    ASSUME NEW st \in AuthStore, NEW t
    PROVE  /\ add_to_active_sessions(st, t).active = st.active \union {t}
           /\ add_to_active_sessions(st, t).waiting = st.waiting
           /\ remove_from_active_sessions(st, t).active = st.active \ {t}
           /\ remove_from_active_sessions(st, t).waiting = st.waiting
<1>1. /\ add_to_active_sessions(st, t).active = st.active \union {t}
      /\ add_to_active_sessions(st, t).waiting = st.waiting
    BY StoreFields DEF add_to_active_sessions, AuthStore
<1>2. /\ remove_from_active_sessions(st, t).active = st.active \ {t}
      /\ remove_from_active_sessions(st, t).waiting = st.waiting
    BY StoreFields DEF remove_from_active_sessions, AuthStore
<1>. QED
    BY <1>1, <1>2

LEMMA NewMark ==
    ASSUME NEW st, NEW n, NEW t \in Held, t < n, NEW m \in {t, NoToken},
           m = t \/ Known(st, n, t)
    PROVE  \A k \in Nat : [session |-> t, token |-> m, since |-> k + 1] \in Marks(st, n)
<1>1. SUFFICES ASSUME NEW k \in Nat, NEW e, e = [session |-> t, token |-> m, since |-> k + 1]
               PROVE  e \in Marks(st, n)
    OBVIOUS
<1>2. e.session = t /\ e.token = m
    BY <1>1
<1>3. e \in Mark
    BY <1>1, <1>2, HeldFacts DEF Mark, WaitingSession
<1>4. Holds(st, t) /\ st.sessions[t].auth_id = NoAccount => m = t
    BY DEF Known
<1>. QED
    BY <1>2, <1>3, <1>4 DEF Marks

(* A session changes, and perhaps what is marked or active.                *)
LEMMA EaseAmend ==
    ASSUME NEW st0, NEW st, SameSessions(st0, st), NEW t \in DOMAIN st.sessions, NEW s,
           s.auth_id = st.sessions[t].auth_id,
           \/ s.link = st.sessions[t].link
           \/ s.link = NoLink /\ s.auth_id # NoAccount,
           s.logged_in => st.sessions[t].logged_in /\ s.link = st.sessions[t].link,
           NEW st1, Amended(st, st1, t, s), NEW st2, SameSessions(st1, st2),
           \A u \in st0.active : u \in st2.active \/ (u = t /\ ~s.logged_in)
    PROVE  Eases(st0, st2)
<1>1. Shrinks(st0, st2)
    BY DEF SameSessions, Amended, Shrinks
<1>2. ASSUME NEW u \in DOMAIN st2.sessions, st2.sessions[u].logged_in
      PROVE  /\ st0.sessions[u].logged_in
             /\ st2.sessions[u].link = st0.sessions[u].link
             /\ u \in st0.active => u \in st2.active
    <2>1. st2.sessions[t] = s /\ st.sessions = st0.sessions
        BY DEF SameSessions, Amended
    <2>2. CASE u = t
        BY <1>2, <2>1, <2>2
    <2>3. CASE u # t
        BY <1>2, <2>3 DEF SameSessions, Amended
    <2>. QED
        BY <2>2, <2>3
<1>. QED
    BY <1>1, <1>2 DEF Eases

LEMMA SameEases ==
    ASSUME NEW st, NEW st2, SameSessions(st, st2), st.active \subseteq st2.active
    PROVE  Eases(st, st2)
BY SameShrinks DEF SameSessions, Eases

-----------------------------------------------------------------------------
(* The handlers by which nobody logs in                                    *)

Here ==
    /\ AuthTypeOK
    /\ LoginOK
    /\ Present(auth, alink, last_session_id, authq, authdb)

LEMMA HereFacts ==
    ASSUME Here
    PROVE  /\ auth \in AuthStore
           /\ auth.waiting \in Seq(Marks(auth, last_session_id))
           /\ SameSessions(auth, auth)
           /\ \A t \in DOMAIN auth.sessions : /\ t \in Held /\ t < last_session_id
                                              /\ auth.sessions[t] \in AuthSessions
<1>1. auth \in AuthStore /\ Sound(auth, alink, last_session_id)
    BY DEF Here, AuthTypeOK, AuthStore, LoginOK
<1>2. \A t \in DOMAIN auth.sessions : t \in Held /\ auth.sessions[t] \in AuthSessions
    BY <1>1, StoreFields DEF AuthStore
<1>3. \A t \in DOMAIN auth.sessions : t < last_session_id
    BY <1>1 DEF Sound
<1>. QED
    BY <1>1, <1>2, <1>3, UnchangedStore DEF Here, Present

(* Nothing changes but the queue.                                          *)
LEMMA UnchangedHandled ==
    ASSUME Here, authq # << >>, authq' = Tail(authq), UNCHANGED authOnly,
           \A t \in DOMAIN auth.sessions :
              auth.sessions[t].logged_in => Head(authq) \notin Ends(t)
    PROVE  Present(auth, alink, last_session_id, authq, authdb)'
<1>1. UNCHANGED <<auth, alink, last_session_id, authdb>>
    BY DEF authOnly
<1>2. Eases(auth, auth')
    BY <1>1, HereFacts, SameEases
<1>. QED
    BY <1>1, <1>2, HereFacts, EasedHandled DEF Here

(* A link changes: the handler has answered it.                            *)
LEMMA AnsweredHandled ==
    ASSUME Here, authq # << >>, authq' = Tail(authq), Head(authq).type # "Disconnect",
           SameSessions(auth, auth'),
           Kept(auth, auth', Marks(auth, last_session_id)),
           UNCHANGED <<last_session_id, authdb>>, NEW c \in Clients,
           \A d \in Clients : d # c => alink'[d] = alink[d],
           alink'[c].up = alink[c].up, alink'[c].finish = alink[c].finish,
           alink'[c].token = alink[c].token, ~Starting(alink'[c]),
           Head(authq) \in Logins(auth, alink[c], c) \/ ~Waits(alink[c])
    PROVE  Present(auth, alink, last_session_id, authq, authdb)'
<1>1. Eases(auth, auth') /\ auth'.waiting \in Seq(Marks(auth, last_session_id))
    BY SameEases DEF Kept
<1>2. \A t : Head(authq) \notin Ends(t)
    BY DEF Ends
<1>. QED
    BY <1>1, <1>2, EasedHandled DEF Here

(* The answer is a refusal.                                                *)
LEMMA RefusedHandled ==
    ASSUME Here, authq # << >>, authq' = Tail(authq), Head(authq).type # "Disconnect",
           NEW c \in Clients, alink' = Refused(c),
           UNCHANGED <<auth, last_session_id, authdb>>,
           alink[c].stage \notin {"none", "INITIAL"},
           Head(authq) \in Logins(auth, alink[c], c) \/ ~Waits(alink[c])
    PROVE  Present(auth, alink, last_session_id, authq, authdb)'
<1>1. /\ \A d \in Clients : d # c => alink'[d] = alink[d]
      /\ alink'[c].up = alink[c].up
      /\ alink'[c].finish = alink[c].finish
      /\ alink'[c].token = alink[c].token
      /\ alink'[c].stage = alink[c].stage
      /\ alink'[c].refused
    BY RefusedFields DEF Here
<1>2. ~Starting(alink'[c])
    BY <1>1 DEF Starting
<1>3. SameSessions(auth, auth') /\ Kept(auth, auth', Marks(auth, last_session_id))
    BY HereFacts DEF Kept
<1>. QED
    BY <1>1, <1>2, <1>3, AnsweredHandled

LEMMA OnConnectPresent ==
    ASSUME Here, OnConnect, authq' = Tail(authq)
    PROVE  Present(auth, alink, last_session_id, authq, authdb)'
<1>1. authq # << >> /\ Head(authq).type = "Connect" /\ authq \in Seq(AuthEvent)
    BY DEF OnConnect, Handles, Here, AuthTypeOK
<1>2. PICK c \in Clients : c = Head(authq).link
    BY <1>1, HeadFacts, AuthEventFields DEF Here
<1>3. Head(authq) \in Logins(auth, alink[c], c) /\ Head(authq) \in Starts(alink[c], c)
    BY <1>1, <1>2, HeadFacts DEF Logins, Starts, Here
<1>4. PICK aq2 : aq2 = Tail(authq)
    OBVIOUS
<1>5. PICK ls \in [Clients -> AuthLinks] : ls = Answered(c)
    BY AnsweredFields DEF Here
<1>6. alink' = [ls EXCEPT ![c].stage = "CONNECTED"]
    BY <1>2, <1>5 DEF OnConnect
<1>7. /\ \A d \in Clients : d # c => alink'[d] = alink[d]
      /\ alink'[c].up = alink[c].up
      /\ alink'[c].finish = alink[c].finish
      /\ alink'[c].token = alink[c].token
    <2>1. /\ \A d \in Clients : d # c => alink'[d] = ls[d]
          /\ alink'[c].up = ls[c].up
          /\ alink'[c].finish = ls[c].finish
          /\ alink'[c].token = ls[c].token
        BY <1>5, <1>6 DEF AuthLinks
    <2>. QED
        BY <1>5, <2>1, AnsweredFields DEF Here
<1>8. UNCHANGED <<auth, last_session_id, authdb>>
    BY DEF OnConnect
<1>9. There(auth, alink', aq2)
    <2>1. \A t : Head(authq) \notin Ends(t)
        BY <1>1 DEF Ends
    <2>2. \A t \in DOMAIN auth.sessions : Some(authq, Ends(t)) => Some(aq2, Ends(t))
        BY <1>1, <1>4, <2>1, HandledSome
    <2>3. \A d \in Clients : alink[d].up => alink'[d].up
        BY <1>7
    <2>4. Eases(auth, auth)
        BY HereFacts, SameEases
    <2>. QED
        BY <2>2, <2>3, <2>4, HereFacts, EasedThere DEF Here, Present
<1>10. Requests(auth, c) = {} /\ ~alink[c].finish
    <2>1. Some(authq, Starts(alink[c], c))
        BY <1>1, <1>3, HandledSome
    <2>. QED
        BY <2>1 DEF Here, Present, OneSession
<1>11. Idle(aq2, authdb, Logins(auth, alink'[c], c), Requests(auth, c))
    <2>1. Idle(aq2, authdb, Logins(auth, alink[c], c), Requests(auth, c))
        BY <1>1, <1>3, <1>4, HeadFacts DEF Here
    <2>. QED
        BY <1>7, <2>1 DEF Logins
<1>12. OneSession(auth, alink'[c], aq2, c) /\ Stays(auth, alink'[c], aq2, authdb, c)
    <2>1. ~Some(aq2, LoginsOf(alink'[c], c))
        BY <1>11, IdleStarts
    <2>. QED
        BY <1>7, <1>10, <1>11, <2>1 DEF OneSession, Stays
<1>13. ASSUME NEW d \in Clients, d # c
       PROVE  OneSession(auth, alink'[d], aq2, d) /\ Stays(auth, alink'[d], aq2, authdb, d)
    <2>1. OneSession(auth, alink[d], authq, d) /\ Stays(auth, alink[d], authq, authdb, d)
        BY DEF Here, Present
    <2>2. /\ Some(aq2, Starts(alink[d], d)) => Some(authq, Starts(alink[d], d))
          /\ Some(aq2, LoginsOf(alink[d], d)) => Some(authq, LoginsOf(alink[d], d))
        BY <1>1, <1>4, HandledSome
    <2>3. Idle(authq, authdb, Logins(auth, alink[d], d), Requests(auth, d)) =>
             Idle(aq2, authdb, Logins(auth, alink[d], d), Requests(auth, d))
        BY <1>1, <1>4, HandledQueued DEF Here, LoginOK
    <2>4. Shrinks(auth, auth)
        BY HereFacts, SameShrinks
    <2>5. alink'[d] = alink[d]
        BY <1>7, <1>13
    <2>. QED
        BY <2>1, <2>2, <2>3, <2>4, <2>5, EasedClient
<1>. QED
    BY <1>4, <1>8, <1>9, <1>12, <1>13, HereFacts DEF Present

LEMMA OnDbErrorPresent ==
    ASSUME Here, OnDbError, authq' = Tail(authq)
    PROVE  Present(auth, alink, last_session_id, authq, authdb)'
<1>1. authq # << >> /\ Head(authq).type = "AuthDbStatusMessage"
    BY DEF OnDbError, Handles
<1>2. PICK t : t = Head(authq).token
    OBVIOUS
<1>3. PICK c : c = auth.sessions[t].link
    OBVIOUS
<1>4. \A u : Head(authq) \notin Ends(u)
    BY <1>1 DEF Ends
<1>5. CASE UNCHANGED authOnly
    BY <1>1, <1>4, <1>5, UnchangedHandled
<1>6. CASE /\ Holds(auth, t)
           /\ alink' = Refused(c)
           /\ UNCHANGED <<auth, last_session_id, authdb>>
    <2>1. Temporary(auth, last_session_id, t)
        BY <1>1, <1>2, HeadFacts DEF AuthGood, Here
    <2>2. c \in Clients /\ t \in Requests(auth, c)
        <3>1. auth.sessions[t] \in AuthSessions
            BY <1>6, HereFacts DEF Holds
        <3>. QED
            BY <1>3, <1>6, <2>1, <3>1 DEF AuthSessions, Temporary, Requests, Holds
    <2>3. Head(authq) \in Logins(auth, alink[c], c)
        BY <1>1, <1>2, <1>3, <1>6, HeadFacts DEF Logins, Here
    <2>4. alink[c].stage \notin {"none", "INITIAL"}
        BY <2>2 DEF Here, Present, OneSession, Starting
    <2>. QED
        BY <1>1, <1>6, <2>2, <2>3, <2>4, RefusedHandled
<1>. QED
    BY <1>2, <1>3, <1>5, <1>6 DEF OnDbError, Stop

LEMMA OnServerListRequestPresent ==
    ASSUME Here, OnServerListRequest, authq' = Tail(authq)
    PROVE  Present(auth, alink, last_session_id, authq, authdb)'
<1>1. authq # << >> /\ Head(authq).type = "ServerListRequest"
    BY DEF OnServerListRequest, Handles
<1>2. PICK c \in Clients : c = Head(authq).link
    BY <1>1, HeadFacts, AuthEventFields DEF Here
<1>3. alink[c].token # NoToken
    BY <1>1, <1>2, HeadFacts DEF AuthGood, Here
<1>4. UNCHANGED <<auth, last_session_id, authdb>>
    BY DEF OnServerListRequest
<1>5. alink[c].stage \notin {"none", "INITIAL", "CONNECTED"} /\ ~Waits(alink[c])
    BY <1>3 DEF Here, LoginOK, Sound, StagesOK, Waits
<1>6. CASE alink' = Refused(c)
    BY <1>1, <1>4, <1>5, <1>6, RefusedHandled
<1>7. CASE alink' = [Answered(c) EXCEPT ![c].stage = "CLIENT_SERVSELECT"]
    <2>1. PICK ls \in [Clients -> AuthLinks] : ls = Answered(c)
        BY AnsweredFields DEF Here
    <2>2. alink' = [ls EXCEPT ![c].stage = "CLIENT_SERVSELECT"]
        BY <1>7, <2>1
    <2>3. /\ \A d \in Clients : d # c => alink'[d] = ls[d]
          /\ alink'[c].up = ls[c].up
          /\ alink'[c].finish = ls[c].finish
          /\ alink'[c].token = ls[c].token
          /\ alink'[c].stage = "CLIENT_SERVSELECT"
        BY <2>1, <2>2 DEF AuthLinks
    <2>4. /\ \A d \in Clients : d # c => alink'[d] = alink[d]
          /\ alink'[c].up = alink[c].up
          /\ alink'[c].finish = alink[c].finish
          /\ alink'[c].token = alink[c].token
        BY <2>1, <2>3, AnsweredFields DEF Here
    <2>5. ~Starting(alink'[c])
        BY <2>3 DEF Starting
    <2>6. SameSessions(auth, auth') /\ Kept(auth, auth', Marks(auth, last_session_id))
        BY <1>4, HereFacts DEF Kept
    <2>. QED
        BY <1>1, <1>4, <1>5, <2>4, <2>5, <2>6, AnsweredHandled
<1>. QED
    BY <1>2, <1>6, <1>7 DEF OnServerListRequest

LEMMA OnClientExpectedPresent ==
    ASSUME Here, OnClientExpected, authq' = Tail(authq)
    PROVE  Present(auth, alink, last_session_id, authq, authdb)'
<1>1. authq # << >> /\ Head(authq).type = "ExpectClientResponse"
    BY DEF OnClientExpected, Handles
<1>2. PICK t : t = Head(authq).token
    OBVIOUS
<1>3. PICK c : c = auth.sessions[t].link
    OBVIOUS
<1>4. \A u : Head(authq) \notin Ends(u)
    BY <1>1 DEF Ends
<1>5. CASE UNCHANGED authOnly
    BY <1>1, <1>4, <1>5, UnchangedHandled
<1>6. CASE /\ Holds(auth, t) /\ c # NoLink
           /\ alink' = [Answered(c) EXCEPT ![c].stage = "CLIENT_AWAITING_DISCONNECT"]
           /\ UNCHANGED <<auth, last_session_id, authdb>>
    <2>1. auth.sessions[t].auth_id # NoAccount
        BY <1>1, <1>2, <1>6, HeadFacts DEF AuthGood, Known, Here
    <2>2. c \in Clients /\ t \in Held
        <3>1. auth.sessions[t] \in AuthSessions /\ t \in Held
            BY <1>6, HereFacts DEF Holds
        <3>. QED
            BY <1>3, <1>6, <3>1 DEF AuthSessions
    <2>3. alink[c].token = t
        BY <1>3, <1>6, <2>1 DEF Here, LoginOK, Sound, LinksOK, Holds
    <2>4. ~Waits(alink[c])
        BY <2>2, <2>3, HeldFacts DEF Waits
    <2>5. PICK ls \in [Clients -> AuthLinks] : ls = Answered(c)
        BY <2>2, AnsweredFields DEF Here
    <2>6. alink' = [ls EXCEPT ![c].stage = "CLIENT_AWAITING_DISCONNECT"]
        BY <1>6, <2>5
    <2>7. /\ \A d \in Clients : d # c => alink'[d] = alink[d]
          /\ alink'[c].up = alink[c].up
          /\ alink'[c].finish = alink[c].finish
          /\ alink'[c].token = alink[c].token
          /\ alink'[c].stage = "CLIENT_AWAITING_DISCONNECT"
        <3>1. /\ \A d \in Clients : d # c => alink'[d] = ls[d]
              /\ alink'[c].up = ls[c].up
              /\ alink'[c].finish = ls[c].finish
              /\ alink'[c].token = ls[c].token
              /\ alink'[c].stage = "CLIENT_AWAITING_DISCONNECT"
            BY <2>2, <2>5, <2>6 DEF AuthLinks
        <3>. QED
            BY <2>2, <2>5, <3>1, AnsweredFields DEF Here
    <2>8. ~Starting(alink'[c])
        BY <2>7 DEF Starting
    <2>9. SameSessions(auth, auth') /\ Kept(auth, auth', Marks(auth, last_session_id))
        BY <1>6, HereFacts DEF Kept
    <2>. QED
        BY <1>1, <1>6, <2>2, <2>4, <2>7, <2>8, <2>9, AnsweredHandled
<1>. QED
    BY <1>2, <1>3, <1>5, <1>6 DEF OnClientExpected, Stop

(* The store changes, and no link does.                                    *)
LEMMA StoreHandled ==
    ASSUME Here, authq # << >>, authq' = Tail(authq),
           Eases(auth, auth'), auth'.waiting \in Seq(Marks(auth, last_session_id)),
           UNCHANGED <<alink, last_session_id, authdb>>,
           \A t \in DOMAIN auth'.sessions :
              auth'.sessions[t].logged_in => Head(authq) \notin Ends(t)
    PROVE  Present(auth, alink, last_session_id, authq, authdb)'
BY EasedHandled DEF Here

LEMMA OnClientConnectedPresent ==
    ASSUME Here, OnClientConnectedToOtherServer, authq' = Tail(authq)
    PROVE  Present(auth, alink, last_session_id, authq, authdb)'
<1>1. authq # << >> /\ Head(authq).type = "ClientConnectedMessage"
    BY DEF OnClientConnectedToOtherServer, Handles
<1>2. PICK t : t = Head(authq).token
    OBVIOUS
<1>3. \A u : Head(authq) \notin Ends(u)
    BY <1>1 DEF Ends
<1>4. CASE UNCHANGED authOnly
    BY <1>1, <1>3, <1>4, UnchangedHandled
<1>5. CASE /\ Holds(auth, t)
           /\ auth' = [unmark_session_for_reaping(auth, t) EXCEPT !.sessions[t].in_game = TRUE]
           /\ UNCHANGED <<last_session_id, alink, authdb>>
    <2>1. PICK st : st = unmark_session_for_reaping(auth, t)
        OBVIOUS
    <2>2. PICK M : M = Marks(auth, last_session_id)
        OBVIOUS
    <2>3. SameSessions(auth, st) /\ Kept(auth, st, M)
        <3>1. SameSessions(auth, st)
            BY <2>1, HereFacts, UnmarkOne DEF Here, LoginOK, Sound
        <3>2. Kept(auth, st, M)
            BY <2>1, <2>2, HereFacts, UnmarkKept
        <3>. QED
            BY <3>1, <3>2
    <2>4. st \in AuthStore /\ t \in DOMAIN st.sessions /\ st.sessions[t] \in AuthSessions
        BY <1>5, <2>3, HereFacts DEF Holds, SameSessions
    <2>5. PICK s : s = [st.sessions[t] EXCEPT !.in_game = TRUE]
        OBVIOUS
    <2>6. /\ s \in AuthSessions
          /\ s.auth_id = st.sessions[t].auth_id
          /\ s.link = st.sessions[t].link
          /\ s.logged_in = st.sessions[t].logged_in
        BY <2>4, <2>5 DEF AuthSessions
    <2>7. auth' = Amend(st, t, s)
        BY <1>5, <2>1, <2>5 DEF Amend
    <2>8. Amended(st, auth', t, s)
        BY <2>4, <2>6, <2>7, AmendOne
    <2>9. SameSessions(auth', auth')
        BY <2>3, <2>8 DEF SameSessions, Amended
    <2>10. auth'.active = auth.active /\ auth'.waiting \in Seq(M)
        BY <2>3, <2>8 DEF Amended, Kept
    <2>11. Eases(auth, auth')
        BY <2>3, <2>4, <2>6, <2>8, <2>9, <2>10, EaseAmend
    <2>. QED
        BY <1>1, <1>3, <1>5, <2>2, <2>10, <2>11, StoreHandled
<1>. QED
    BY <1>2, <1>4, <1>5 DEF OnClientConnectedToOtherServer, Stop

(* The entry it makes names no token: the session must have an account.    *)
LEMMA OnClientDisconnectedPresent ==
    ASSUME Here, OnClientDisconnectedFromOtherServer, authq' = Tail(authq),
           Head(authq) \in Leavings(auth, last_session_id)
    PROVE  Present(auth, alink, last_session_id, authq, authdb)'
<1>1. authq # << >> /\ Head(authq).type = "ClientDisconnectedMessage"
    BY DEF OnClientDisconnectedFromOtherServer, Handles
<1>2. PICK t : t = Head(authq).token
    OBVIOUS
<1>3. \A u : Head(authq) \notin Ends(u)
    BY <1>1 DEF Ends
<1>4. CASE UNCHANGED authOnly
    BY <1>1, <1>3, <1>4, UnchangedHandled
<1>5. CASE /\ Holds(auth, t)
           /\ auth' = mark_session_for_reaping(
                         [auth EXCEPT !.sessions[t].in_game = FALSE], t, NoToken)
           /\ UNCHANGED <<last_session_id, alink, authdb>>
    <2>1. PICK M : M = Marks(auth, last_session_id)
        OBVIOUS
    <2>2. /\ t \in Held /\ t \in DOMAIN auth.sessions /\ auth.sessions[t] \in AuthSessions
          /\ t < last_session_id
        BY <1>5, HereFacts DEF Holds
    <2>3. PICK s : s = [auth.sessions[t] EXCEPT !.in_game = FALSE]
        OBVIOUS
    <2>4. /\ s \in AuthSessions
          /\ s.auth_id = auth.sessions[t].auth_id
          /\ s.link = auth.sessions[t].link
          /\ s.logged_in = auth.sessions[t].logged_in
        BY <2>2, <2>3 DEF AuthSessions
    <2>5. PICK st2 : st2 = Amend(auth, t, s)
        OBVIOUS
    <2>6. Amended(auth, st2, t, s)
        BY <2>2, <2>4, <2>5, HereFacts, AmendOne
    <2>7. auth' = mark_session_for_reaping(st2, t, NoToken)
        BY <1>5, <2>3, <2>5 DEF Amend
    <2>8. st2 \in AuthStore /\ st2.waiting \in Seq(Mark) /\ st2.waiting \in Seq(M)
        BY <2>1, <2>6, HereFacts DEF SameSessions, Amended
    <2>9. SameSessions(st2, auth')
        BY <2>2, <2>7, <2>8, MarkOne
    <2>10. \A k \in Nat : [session |-> t, token |-> NoToken, since |-> k + 1] \in M
        <3>1. Known(auth, last_session_id, t)
            BY <1>1, <1>2 DEF Leavings
        <3>. QED
            BY <2>1, <2>2, <3>1, NewMark
    <2>11. Kept(st2, auth', M)
        BY <2>7, <2>8, <2>10, MarkKept
    <2>12. auth'.active = auth.active /\ auth'.waiting \in Seq(M)
        BY <2>6, <2>11 DEF Amended, Kept
    <2>13. Eases(auth, auth')
        BY <2>2, <2>4, <2>6, <2>9, <2>12, HereFacts, EaseAmend
    <2>. QED
        BY <1>1, <1>3, <1>5, <2>1, <2>12, <2>13, StoreHandled
<1>. QED
    BY <1>2, <1>4, <1>5 DEF OnClientDisconnectedFromOtherServer, Stop

(* A session that is logged in is active and has a link: the handler does  *)
(* not stop when that link is reported closed.                             *)
LEMMA OnDisconnectPresent ==
    ASSUME Here, OnDisconnect, authq' = Tail(authq)
    PROVE  Present(auth, alink, last_session_id, authq, authdb)'
<1>1. authq # << >> /\ auth \in AuthStore /\ Head(authq).type = "Disconnect"
    BY HereFacts DEF OnDisconnect, Handles
<1>2. PICK t : t = Head(authq).token
    OBVIOUS
<1>3. PICK s : s = auth.sessions[t]
    OBVIOUS
<1>4. PICK marked : marked = IF s.in_game THEN auth
                             ELSE mark_session_for_reaping(auth, t, alink[s.link].token)
    OBVIOUS
<1>5. PICK out : out = [marked EXCEPT !.sessions[t] =
                          [@ EXCEPT !.logged_in = FALSE, !.link = NoLink]]
    OBVIOUS
<1>6. \A u : Head(authq) \in Ends(u) => u = t
    BY <1>2 DEF Ends
<1>7. CASE /\ UNCHANGED authOnly
           /\ t \in DOMAIN auth.sessions => s.link = NoLink \/ t \notin auth.active
    <2>1. t \in DOMAIN auth.sessions => ~s.logged_in
        BY <1>3, <1>7 DEF Here, Present, There
    <2>2. \A u \in DOMAIN auth.sessions :
             auth.sessions[u].logged_in => Head(authq) \notin Ends(u)
        BY <1>3, <1>6, <2>1
    <2>. QED
        BY <1>1, <1>7, <2>2, UnchangedHandled
<1>8. CASE /\ t # NoToken /\ Holds(auth, t) /\ s.link # NoLink
           /\ auth' = remove_from_active_sessions(out, t)
           /\ UNCHANGED <<last_session_id, alink, authdb>>
    <2>1. PICK M : M = Marks(auth, last_session_id)
        OBVIOUS
    <2>2. t \in DOMAIN auth.sessions /\ s \in AuthSessions /\ t \in Held /\ t < last_session_id
        BY <1>3, <1>8, HereFacts DEF Holds
    <2>3. s.auth_id # NoAccount
        <3>1. Known(auth, last_session_id, t)
            BY <1>1, <1>2, <1>8, HeadFacts DEF AuthGood, Here
        <3>. QED
            BY <1>3, <1>8, <3>1 DEF Known
    <2>4. alink[s.link].token = t
        BY <1>3, <1>8, <2>2, <2>3 DEF Here, LoginOK, Sound, LinksOK
    <2>5. SameSessions(auth, marked) /\ Kept(auth, marked, M)
        <3>1. SameSessions(auth, mark_session_for_reaping(auth, t, t))
            BY <1>1, <2>2, MarkOne DEF Here, LoginOK, Sound
        <3>2. Kept(auth, mark_session_for_reaping(auth, t, t), M)
            <4>1. \A k \in Nat : [session |-> t, token |-> t, since |-> k + 1] \in M
                BY <2>1, <2>2, NewMark
            <4>. QED
                BY <1>1, <2>1, <4>1, HereFacts, MarkKept
        <3>3. SameSessions(auth, auth) /\ Kept(auth, auth, M)
            BY <2>1, HereFacts DEF Kept
        <3>. QED
            BY <1>4, <2>4, <3>1, <3>2, <3>3
    <2>6. PICK r : r = [s EXCEPT !.logged_in = FALSE, !.link = NoLink]
        OBVIOUS
    <2>7. r \in AuthSessions /\ r.auth_id = s.auth_id /\ r.link = NoLink /\ ~r.logged_in
        BY <2>2, <2>6 DEF AuthSessions
    <2>8. /\ marked \in AuthStore
          /\ t \in DOMAIN marked.sessions
          /\ marked.sessions[t] = s
        BY <1>3, <2>2, <2>5 DEF SameSessions
    <2>9. out = Amend(marked, t, r)
        BY <1>5, <2>6, <2>8 DEF Amend
    <2>10. Amended(marked, out, t, r)
        BY <2>7, <2>8, <2>9, AmendOne
    <2>11. out \in AuthStore /\ out.waiting \in Seq(Mark)
        BY <2>5, <2>10 DEF SameSessions, Amended
    <2>12. SameSessions(out, auth')
        BY <1>8, <2>2, <2>11, ActivateOne
    <2>13. /\ auth'.active = auth.active \ {t}
           /\ auth'.waiting \in Seq(M)
        BY <1>8, <2>5, <2>10, <2>11, ActivateKept DEF Amended, Kept
    <2>14. \A u \in auth.active : u \in auth'.active \/ (u = t /\ ~r.logged_in)
        BY <2>7, <2>13
    <2>15. Eases(auth, auth')
        BY <2>3, <2>5, <2>7, <2>8, <2>10, <2>12, <2>14, EaseAmend
    <2>16. t \in DOMAIN auth'.sessions => ~auth'.sessions[t].logged_in
        BY <2>7, <2>10, <2>12 DEF Amended, SameSessions
    <2>17. \A u \in DOMAIN auth'.sessions :
              auth'.sessions[u].logged_in => Head(authq) \notin Ends(u)
        BY <1>6, <2>16
    <2>. QED
        BY <1>1, <1>8, <2>1, <2>13, <2>15, <2>17, StoreHandled
<1>9. CASE /\ Holds(auth, t)
           /\ auth' = [auth EXCEPT !.sessions[t].logged_in = FALSE]
           /\ UNCHANGED <<last_session_id, alink, authdb>>
    <2>1. t \in DOMAIN auth.sessions /\ s \in AuthSessions
        BY <1>3, <1>9, HereFacts DEF Holds
    <2>2. PICK r : r = [s EXCEPT !.logged_in = FALSE]
        OBVIOUS
    <2>3. r \in AuthSessions /\ r.auth_id = s.auth_id /\ r.link = s.link /\ ~r.logged_in
        BY <2>1, <2>2 DEF AuthSessions
    <2>4. auth' = Amend(auth, t, r)
        BY <1>3, <1>9, <2>2 DEF Amend
    <2>5. Amended(auth, auth', t, r)
        BY <1>1, <2>1, <2>3, <2>4, AmendOne
    <2>6. SameSessions(auth, auth) /\ SameSessions(auth', auth')
        BY <2>5, HereFacts DEF SameSessions, Amended
    <2>7. auth'.active = auth.active /\ auth'.waiting = auth.waiting
        BY <2>5 DEF Amended
    <2>8. Eases(auth, auth')
        BY <1>3, <2>1, <2>3, <2>5, <2>6, <2>7, EaseAmend
    <2>9. ~auth'.sessions[t].logged_in
        BY <2>3, <2>5 DEF Amended
    <2>10. \A u \in DOMAIN auth'.sessions :
              auth'.sessions[u].logged_in => Head(authq) \notin Ends(u)
        BY <1>6, <2>9
    <2>. QED
        BY <1>1, <1>9, <2>7, <2>8, <2>10, HereFacts, StoreHandled
<1>10. t = NoToken => t \notin DOMAIN auth.sessions
    BY HereFacts, HeldFacts
<1>. QED
    BY <1>2, <1>3, <1>4, <1>5, <1>7, <1>8, <1>9, <1>10 DEF OnDisconnect, Stop, Holds

-----------------------------------------------------------------------------
(* The links and the account database                                      *)

(* One link changes, and the queue; the other clients' logins stand.       *)
OneMoved(ls, ls2, c) == \A d \in Clients : d # c => ls2[d] = ls[d]

Moves(st, ls, aq, aq2, db, c) ==
    \A d \in Clients : d # c =>
       /\ Some(aq2, Starts(ls[d], d)) => Some(aq, Starts(ls[d], d))
       /\ Some(aq2, LoginsOf(ls[d], d)) => Some(aq, LoginsOf(ls[d], d))
       /\ Idle(aq, db, Logins(st, ls[d], d), Requests(st, d)) =>
             Idle(aq2, db, Logins(st, ls[d], d), Requests(st, d))

Lasts(aq, aq2) == \A t : Some(aq, Ends(t)) => Some(aq2, Ends(t))

(* A session whose link closes is told.                                    *)
LinkTold(st, l, l2, aq2, c) ==
    \A t \in DOMAIN st.sessions :
       st.sessions[t].logged_in /\ st.sessions[t].link = c =>
          (l.up => l2.up) \/ Some(aq2, Ends(t))

LEMMA OneLinkMoves ==
    ASSUME NEW st, NEW ls, NEW n, NEW aq, NEW db, Present(st, ls, n, aq, db),
           SameSessions(st, st), st \in AuthStore,
           NEW c \in Clients, NEW ls2, OneMoved(ls, ls2, c),
           NEW aq2, Moves(st, ls, aq, aq2, db, c), Lasts(aq, aq2),
           LinkTold(st, ls[c], ls2[c], aq2, c),
           OneSession(st, ls2[c], aq2, c), Stays(st, ls2[c], aq2, db, c)
    PROVE  Present(st, ls2, n, aq2, db)
<1>1. There(st, ls2, aq2)
    <2>1. SUFFICES ASSUME NEW t \in DOMAIN st.sessions, st.sessions[t].logged_in
                   PROVE  /\ st.sessions[t].auth_id # NoAccount
                          /\ st.sessions[t].link # NoLink
                          /\ t \in st.active
                          /\ ls2[st.sessions[t].link].up \/ Some(aq2, Ends(t))
        BY DEF There
    <2>2. /\ st.sessions[t].auth_id # NoAccount
          /\ st.sessions[t].link # NoLink
          /\ t \in st.active
          /\ ls[st.sessions[t].link].up \/ Some(aq, Ends(t))
        BY <2>1 DEF Present, There
    <2>3. st.sessions[t].link \in Clients
        <3>1. st.sessions[t] \in AuthSessions
            BY StoreFields DEF AuthStore
        <3>. QED
            BY <2>2, <3>1 DEF AuthSessions
    <2>4. \A d \in Clients : d # c => ls2[d] = ls[d]
        BY DEF OneMoved
    <2>5. CASE st.sessions[t].link = c
        BY <2>1, <2>2, <2>5 DEF LinkTold, Lasts
    <2>6. CASE st.sessions[t].link # c
        BY <2>2, <2>3, <2>4, <2>6 DEF Lasts
    <2>. QED
        BY <2>5, <2>6
<1>2. ASSUME NEW d \in Clients, d # c
      PROVE  OneSession(st, ls2[d], aq2, d) /\ Stays(st, ls2[d], aq2, db, d)
    <2>1. OneSession(st, ls[d], aq, d) /\ Stays(st, ls[d], aq, db, d)
        BY DEF Present
    <2>2. Shrinks(st, st)
        BY SameShrinks
    <2>3. ls2[d] = ls[d]
        BY <1>2 DEF OneMoved
    <2>4. /\ Some(aq2, Starts(ls[d], d)) => Some(aq, Starts(ls[d], d))
          /\ Some(aq2, LoginsOf(ls[d], d)) => Some(aq, LoginsOf(ls[d], d))
          /\ Idle(aq, db, Logins(st, ls[d], d), Requests(st, d)) =>
                Idle(aq2, db, Logins(st, ls[d], d), Requests(st, d))
        BY <1>2 DEF Moves
    <2>. QED
        BY <2>1, <2>2, <2>3, <2>4, EasedClient
<1>3. \A d \in Clients : OneSession(st, ls2[d], aq2, d) /\ Stays(st, ls2[d], aq2, db, d)
    BY <1>2
<1>4. st.waiting \in Seq(Marks(st, n))
    BY DEF Present
<1>. QED
    BY <1>1, <1>3, <1>4 DEF Present

LEMMA LinkOpenPresent ==
    ASSUME Here, NEW c \in Clients, LinkOpen(c)
    PROVE  Present(auth, alink, last_session_id, authq, authdb)'
<1>1. /\ \A d \in Clients : d # c => alink'[d] = alink[d]
      /\ alink'[c].stage = "INITIAL" /\ alink'[c].up
      /\ alink'[c].finish = alink[c].finish
      /\ alink'[c].token = alink[c].token
    BY DEF LinkOpen, Here, AuthTypeOK, AuthLinks
<1>2. PICK ev \in AuthEvent : ev = [type |-> "Connect", link |-> c]
    BY AuthEvents
<1>3. PICK aq2 : aq2 = Append(authq, ev)
    OBVIOUS
<1>4. authq \in Seq(AuthEvent)
    BY DEF Here, AuthTypeOK
<1>5. \A d : d # c => /\ ev \notin Starts(alink[d], d)
                      /\ ev \notin Logins(auth, alink[d], d)
    BY <1>2 DEF Starts, LoginsOf, Logins
<1>6. \A d : ev \notin LoginsOf(alink[d], d)
    BY <1>2 DEF LoginsOf
<1>7. \A d \in Clients : d # c =>
         /\ Some(aq2, Starts(alink[d], d)) => Some(authq, Starts(alink[d], d))
         /\ Some(aq2, LoginsOf(alink[d], d)) => Some(authq, LoginsOf(alink[d], d))
         /\ Some(aq2, Logins(auth, alink[d], d)) => Some(authq, Logins(auth, alink[d], d))
    BY <1>3, <1>4, <1>5, <1>6, AppendedSome
<1>8. \A d \in Clients : d # c =>
         (Idle(authq, authdb, Logins(auth, alink[d], d), Requests(auth, d)) =>
            Idle(aq2, authdb, Logins(auth, alink[d], d), Requests(auth, d)))
    BY <1>7 DEF Idle
<1>9. \A t : Some(authq, Ends(t)) => Some(aq2, Ends(t))
    BY <1>3, <1>4, AppendedSome
<1>10. Requests(auth, c) = {} /\ ~alink[c].finish
    BY DEF Here, Present, OneSession, Starting, LinkOpen
<1>11. ~Some(aq2, LoginsOf(alink[c], c))
    <2>1. ~Waits(alink[c])
        BY DEF LinkOpen, Waits
    <2>2. Idle(authq, authdb, Logins(auth, alink[c], c), Requests(auth, c))
        BY <2>1, QueuesFacts DEF Here, LoginOK, OnePending
    <2>3. ~Some(authq, LoginsOf(alink[c], c))
        BY <2>2, IdleStarts
    <2>. QED
        BY <1>3, <1>4, <1>6, <2>3, AppendedSome
<1>12. OneSession(auth, alink'[c], aq2, c) /\ Stays(auth, alink'[c], aq2, authdb, c)
    <2>1. LoginsOf(alink'[c], c) = LoginsOf(alink[c], c)
        BY <1>1 DEF LoginsOf
    <2>. QED
        BY <1>1, <1>10, <1>11, <2>1 DEF OneSession, Stays
<1>13. /\ OneMoved(alink, alink', c)
       /\ Moves(auth, alink, authq, aq2, authdb, c)
       /\ Lasts(authq, aq2)
       /\ LinkTold(auth, alink[c], alink'[c], aq2, c)
    BY <1>1, <1>7, <1>8, <1>9 DEF OneMoved, Moves, Lasts, LinkTold
<1>14. PICK ls2 : ls2 = alink'
    OBVIOUS
<1>15. /\ OneMoved(alink, ls2, c)
       /\ Moves(auth, alink, authq, aq2, authdb, c)
       /\ Lasts(authq, aq2)
       /\ LinkTold(auth, alink[c], ls2[c], aq2, c)
       /\ OneSession(auth, ls2[c], aq2, c)
       /\ Stays(auth, ls2[c], aq2, authdb, c)
    BY <1>12, <1>13, <1>14
<1>16. /\ SameSessions(auth, auth)
       /\ auth \in AuthStore
       /\ Present(auth, alink, last_session_id, authq, authdb)
    BY HereFacts DEF Here
<1>17. Present(auth, ls2, last_session_id, aq2, authdb)
    BY <1>15, <1>16, OneLinkMoves
<1>. QED
    BY <1>2, <1>3, <1>14, <1>17 DEF LinkOpen

LEMMA LinkInputPresent ==
    ASSUME Here, NEW c \in Clients, ~alink[c].refused, NEW type, ClientInput(c, type)
    PROVE  Present(auth, alink, last_session_id, authq, authdb)'
<1>1. /\ \A d \in Clients : d # c => alink'[d] = alink[d]
      /\ alink'[c].stage = alink[c].stage /\ alink'[c].asked
      /\ alink'[c].up /\ alink[c].up /\ ~alink[c].asked
      /\ alink'[c].finish = alink[c].finish
      /\ alink'[c].token = alink[c].token
    BY DEF ClientInput, ClientAsks, LinkInput, Here, AuthTypeOK, AuthLinks
<1>2. /\ type \in {"LoginRequest", "ServerListRequest", "ServerSelectRequest"}
      /\ alink[c].token = NoToken => type = "LoginRequest" /\ alink[c].stage = "CONNECTED"
      /\ alink[c].stage \notin {"none", "INITIAL"}
    <2>1. alink[c].token = NoToken <=> alink[c].stage \in {"none", "INITIAL", "CONNECTED"}
        BY DEF Here, LoginOK, Sound, StagesOK
    <2>. QED
        BY <2>1 DEF ClientInput, Request, Requested
<1>3. PICK ev \in AuthEvent : ev = [type |-> type, link |-> c]
    BY <1>2, AuthEvents
<1>4. PICK aq2 : aq2 = Append(authq, ev)
    OBVIOUS
<1>5. authq \in Seq(AuthEvent) /\ authq' = aq2
    BY <1>3, <1>4 DEF Here, AuthTypeOK, ClientInput, LinkInput
<1>6. \A d : d # c \/ alink[c].token # NoToken =>
         /\ ev \notin Starts(alink[d], d)
         /\ ev \notin LoginsOf(alink[d], d)
         /\ ev \notin Logins(auth, alink[d], d)
    BY <1>2, <1>3 DEF Starts, LoginsOf, Logins
<1>7. \A d \in Clients : d # c \/ alink[c].token # NoToken =>
         /\ Some(aq2, Starts(alink[d], d)) => Some(authq, Starts(alink[d], d))
         /\ Some(aq2, LoginsOf(alink[d], d)) => Some(authq, LoginsOf(alink[d], d))
         /\ Some(aq2, Logins(auth, alink[d], d)) => Some(authq, Logins(auth, alink[d], d))
    BY <1>4, <1>5, <1>6, AppendedSome
<1>8. \A d \in Clients : d # c \/ alink[c].token # NoToken =>
         (Idle(authq, authdb, Logins(auth, alink[d], d), Requests(auth, d)) =>
            Idle(aq2, authdb, Logins(auth, alink[d], d), Requests(auth, d)))
    BY <1>7 DEF Idle
<1>9. \A t : Some(authq, Ends(t)) => Some(aq2, Ends(t))
    BY <1>4, <1>5, AppendedSome
<1>10. OneSession(auth, alink[c], authq, c)
    BY DEF Here, Present
<1>11. Idle(authq, authdb, Logins(auth, alink[c], c), Requests(auth, c))
    <2>1. ~Waits(alink[c])
        BY <1>1 DEF Waits
    <2>. QED
        BY <2>1, QueuesFacts DEF Here, LoginOK, OnePending
<1>12. ~Starting(alink'[c])
    BY <1>1, <1>2 DEF Starting
<1>13. PICK ls2 : ls2 = alink'
    OBVIOUS
<1>14. /\ OneMoved(alink, ls2, c)
       /\ Moves(auth, alink, authq, aq2, authdb, c)
       /\ Lasts(authq, aq2)
       /\ LinkTold(auth, alink[c], ls2[c], aq2, c)
    BY <1>1, <1>7, <1>8, <1>9, <1>13 DEF OneMoved, Moves, Lasts, LinkTold
<1>15. OneSession(auth, ls2[c], aq2, c) /\ Stays(auth, ls2[c], aq2, authdb, c)
    <2>1. CASE alink[c].token = NoToken
        <3>1. Requests(auth, c) = {} /\ ~alink[c].finish
            BY <1>1, <1>2, <1>10, <2>1 DEF OneSession, Starting
        <3>. QED
            BY <1>1, <1>2, <1>13, <2>1, <3>1 DEF OneSession, Stays
    <2>2. CASE alink[c].token # NoToken
        <3>1. Logins(auth, ls2[c], c) = Logins(auth, alink[c], c)
            BY <1>1, <1>13 DEF Logins
        <3>2. Idle(aq2, authdb, Logins(auth, ls2[c], c), Requests(auth, c))
            BY <1>8, <1>11, <2>2, <3>1
        <3>3. ~Some(aq2, Starts(ls2[c], c)) /\ ~Some(aq2, LoginsOf(ls2[c], c))
            BY <3>2, IdleStarts
        <3>. QED
            BY <1>10, <1>12, <1>13, <3>2, <3>3 DEF OneSession, Stays
    <2>. QED
        BY <2>1, <2>2
<1>16. Present(auth, ls2, last_session_id, aq2, authdb)
    BY <1>14, <1>15, HereFacts, OneLinkMoves DEF Here
<1>. QED
    BY <1>5, <1>13, <1>16 DEF ClientInput, LinkInput

(* The link names the session of the client that is logged in.             *)
LEMMA LinkClosePresent ==
    ASSUME Here, NEW c \in Clients,
           (LinkClose(c) /\ ~alink[c].asked) \/ LinkFinish(c)
    PROVE  Present(auth, alink, last_session_id, authq, authdb)'
<1>1. /\ \A d \in Clients : d # c => alink'[d] = alink[d]
      /\ alink'[c].token = alink[c].token
      /\ alink'[c].stage = alink[c].stage /\ alink'[c].asked = alink[c].asked
      /\ alink'[c].refused = alink[c].refused
      /\ alink'[c].finish => alink[c].finish
    BY DEF LinkClose, LinkFinish, Here, AuthTypeOK, AuthLinks
<1>2. authq \in Seq(AuthEvent) /\ alink[c].token \in Token
    BY DEF Here, AuthTypeOK, AuthLinks
<1>3. PICK ev \in AuthEvent : ev = [type |-> "Disconnect", token |-> alink[c].token]
    BY <1>2, AuthEvents
<1>4. PICK aq2 : aq2 = Urgently(authq, ev)
    OBVIOUS
<1>5. /\ \A d : /\ ev \notin Starts(alink[d], d) /\ ev \notin LoginsOf(alink[d], d)
                 /\ ev \notin Logins(auth, alink[d], d)
      /\ ev \in Ends(alink[c].token)
    BY <1>3 DEF Starts, LoginsOf, Logins, Ends
<1>6. \A d \in Clients :
         /\ Some(aq2, Starts(alink[d], d)) => Some(authq, Starts(alink[d], d))
         /\ Some(aq2, LoginsOf(alink[d], d)) => Some(authq, LoginsOf(alink[d], d))
         /\ Some(aq2, Logins(auth, alink[d], d)) => Some(authq, Logins(auth, alink[d], d))
    BY <1>2, <1>4, <1>5, OvertakenSome
<1>7. \A d \in Clients :
         Idle(authq, authdb, Logins(auth, alink[d], d), Requests(auth, d)) =>
            Idle(aq2, authdb, Logins(auth, alink[d], d), Requests(auth, d))
    BY <1>6 DEF Idle
<1>8. /\ \A t : Some(authq, Ends(t)) => Some(aq2, Ends(t))
      /\ Some(aq2, Ends(alink[c].token))
    BY <1>2, <1>4, <1>5, OvertakenSome
<1>9. \A t \in DOMAIN auth.sessions :
         auth.sessions[t].logged_in /\ auth.sessions[t].link = c => alink[c].token = t
    <2>1. SUFFICES ASSUME NEW t \in DOMAIN auth.sessions, auth.sessions[t].logged_in,
                          auth.sessions[t].link = c
                   PROVE  alink[c].token = t
        OBVIOUS
    <2>2. auth.sessions[t].auth_id # NoAccount /\ auth.sessions[t].link # NoLink
        BY <2>1 DEF Here, Present, There
    <2>. QED
        BY <2>1, <2>2 DEF Here, LoginOK, Sound, LinksOK
<1>10. OneSession(auth, alink[c], authq, c) /\ Stays(auth, alink[c], authq, authdb, c)
    BY DEF Here, Present
<1>11. Idle(authq, authdb, Logins(auth, alink[c], c), Requests(auth, c))
    <2>1. CASE ~alink[c].asked
        <3>1. ~Waits(alink[c])
            BY <2>1 DEF Waits
        <3>. QED
            BY <3>1, QueuesFacts DEF Here, LoginOK, OnePending
    <2>2. CASE alink[c].finish
        BY <1>10, <2>2 DEF Stays
    <2>. QED
        BY <2>1, <2>2 DEF LinkFinish
<1>12. OneSession(auth, alink'[c], aq2, c) /\ Stays(auth, alink'[c], aq2, authdb, c)
    <2>1. Starting(alink'[c]) <=> Starting(alink[c])
        BY <1>1 DEF Starting
    <2>2. /\ LoginsOf(alink'[c], c) = LoginsOf(alink[c], c)
          /\ Starts(alink'[c], c) = Starts(alink[c], c)
          /\ Logins(auth, alink'[c], c) = Logins(auth, alink[c], c)
        BY <1>1 DEF LoginsOf, Starts, Logins
    <2>. QED
        BY <1>1, <1>6, <1>7, <1>10, <1>11, <2>1, <2>2 DEF OneSession, Stays
<1>13. /\ OneMoved(alink, alink', c)
       /\ Moves(auth, alink, authq, aq2, authdb, c)
       /\ Lasts(authq, aq2)
       /\ LinkTold(auth, alink[c], alink'[c], aq2, c)
    BY <1>1, <1>6, <1>7, <1>8, <1>9 DEF OneMoved, Moves, Lasts, LinkTold
<1>14. PICK ls2 : ls2 = alink'
    OBVIOUS
<1>15. /\ OneMoved(alink, ls2, c)
       /\ Moves(auth, alink, authq, aq2, authdb, c)
       /\ Lasts(authq, aq2)
       /\ LinkTold(auth, alink[c], ls2[c], aq2, c)
       /\ OneSession(auth, ls2[c], aq2, c)
       /\ Stays(auth, ls2[c], aq2, authdb, c)
    BY <1>12, <1>13, <1>14
<1>16. /\ SameSessions(auth, auth)
       /\ auth \in AuthStore
       /\ Present(auth, alink, last_session_id, authq, authdb)
    BY HereFacts DEF Here
<1>17. Present(auth, ls2, last_session_id, aq2, authdb)
    BY <1>15, <1>16, OneLinkMoves
<1>. QED
    BY <1>3, <1>4, <1>14, <1>17 DEF LinkClose, LinkFinish, Disconnected

(* The database answers, or fails to.                                      *)
LEMMA AuthDbPresent ==
    ASSUME Here, RetrieveAccount \/ AuthDbFails
    PROVE  Present(auth, alink, last_session_id, authq, authdb)'
<1>1. /\ authdb # << >> /\ authdb' = Tail(authdb)
      /\ UNCHANGED <<auth, last_session_id, alink>>
    BY DEF RetrieveAccount, AuthDbFails
<1>2. authq \in Seq(AuthEvent) /\ authdb \in Seq(Held)
    BY DEF Here, AuthTypeOK
<1>3. PICK t \in Held : t = Head(authdb)
    BY <1>1, <1>2, QueueOps
<1>4. PICK ev \in AuthEvent : /\ authq' = Append(authq, ev)
                              /\ ev.type \in {"RetrieveAccountResponse", "AuthDbStatusMessage"}
                              /\ ev.token = t
    <2>1. CASE RetrieveAccount
        <3>1. PICK a \in Accounts \union {NoAccount} :
                 authq' = Append(authq, [type |-> "RetrieveAccountResponse",
                                         token |-> t, account |-> a])
            BY <1>3, <2>1 DEF RetrieveAccount
        <3>. QED
            BY <3>1, AuthEvents
    <2>2. CASE AuthDbFails
        BY <1>3, <2>2, AuthEvents DEF AuthDbFails
    <2>. QED
        BY <2>1, <2>2
<1>5. PICK aq2 : aq2 = Append(authq, ev)
    OBVIOUS
<1>6. PICK db2 : db2 = Tail(authdb)
    OBVIOUS
<1>7. \A d : ev \notin Starts(alink[d], d) /\ ev \notin LoginsOf(alink[d], d)
    BY <1>4 DEF Starts, LoginsOf
<1>8. \A d \in Clients : /\ Some(aq2, Starts(alink[d], d)) => Some(authq, Starts(alink[d], d))
                         /\ Some(aq2, LoginsOf(alink[d], d)) => Some(authq, LoginsOf(alink[d], d))
    BY <1>2, <1>5, <1>7, AppendedSome
<1>9. Lasts(authq, aq2)
    BY <1>2, <1>5, AppendedSome DEF Lasts
<1>10. ASSUME NEW d \in Clients, Idle(authq, authdb, Logins(auth, alink[d], d), Requests(auth, d))
       PROVE  Idle(aq2, db2, Logins(auth, alink[d], d), Requests(auth, d))
    <2>1. ~Some(authq, Logins(auth, alink[d], d)) /\ ~Some(authdb, Requests(auth, d))
        BY <1>10 DEF Idle
    <2>2. t \notin Requests(auth, d)
        BY <1>1, <1>2, <1>3, <2>1, HandledSome
    <2>3. ev \notin Logins(auth, alink[d], d)
        BY <1>4, <2>2 DEF Logins, Requests, Holds
    <2>4. ~Some(aq2, Logins(auth, alink[d], d))
        BY <1>2, <1>5, <2>1, <2>3, AppendedSome
    <2>5. ~Some(db2, Requests(auth, d))
        BY <1>1, <1>2, <1>6, <2>1, HandledSome
    <2>. QED
        BY <2>4, <2>5 DEF Idle
<1>11. There(auth, alink, aq2)
    <2>1. \A u \in DOMAIN auth.sessions : Some(authq, Ends(u)) => Some(aq2, Ends(u))
        BY <1>9 DEF Lasts
    <2>2. There(auth, alink, authq)
        BY DEF Here, Present
    <2>. QED
        BY <2>1, <2>2 DEF There
<1>12. \A d \in Clients : /\ OneSession(auth, alink[d], aq2, d)
                          /\ Stays(auth, alink[d], aq2, db2, d)
    <2>1. ASSUME NEW d \in Clients
          PROVE  OneSession(auth, alink[d], aq2, d) /\ Stays(auth, alink[d], aq2, db2, d)
        <3>1. OneSession(auth, alink[d], authq, d) /\ Stays(auth, alink[d], authq, authdb, d)
            BY DEF Here, Present
        <3>2. OneSession(auth, alink[d], aq2, d)
            BY <1>8, <3>1 DEF OneSession
        <3>3. Stays(auth, alink[d], aq2, db2, d)
            BY <1>10, <3>1 DEF Stays
        <3>. QED
            BY <3>2, <3>3
    <2>. QED
        BY <2>1
<1>13. Present(auth, alink, last_session_id, aq2, db2)
    BY <1>11, <1>12, HereFacts DEF Present
<1>. QED
    BY <1>1, <1>4, <1>5, <1>6, <1>13

LEMMA OnServerSelectedPresent ==
    ASSUME Here, OnServerSelected, authq' = Tail(authq)
    PROVE  Present(auth, alink, last_session_id, authq, authdb)'
<1>1. authq # << >> /\ Head(authq).type = "ServerSelectRequest"
    BY DEF OnServerSelected, Handles
<1>2. PICK c \in Clients : c = Head(authq).link
    BY <1>1, HeadFacts, AuthEventFields DEF Here
<1>3. \A u : Head(authq) \notin Ends(u)
    BY <1>1 DEF Ends
<1>4. CASE UNCHANGED authOnly
    BY <1>1, <1>3, <1>4, UnchangedHandled
<1>5. CASE /\ Holds(auth, alink[c].token)
           /\ alink' = Refused(c)
           /\ UNCHANGED <<auth, last_session_id, authdb>>
    <2>1. alink[c].token # NoToken
        BY <1>5, HereFacts, HeldFacts DEF Holds
    <2>2. ~Waits(alink[c]) /\ alink[c].stage \notin {"none", "INITIAL"}
        BY <2>1 DEF Waits, Here, LoginOK, Sound, StagesOK
    <2>. QED
        BY <1>1, <1>5, <2>2, RefusedHandled
<1>. QED
    BY <1>2, <1>4, <1>5 DEF OnServerSelected, Stop, authOnly

-----------------------------------------------------------------------------
(* The reaper                                                              *)

LEMMA AfterReapingFields ==
    ASSUME NEW st \in AuthStore, NEW pass, NEW st2, st2 = AfterReaping(st, pass)
    PROVE  /\ st2.waiting = pass.left
           /\ st2.active = st.active
           /\ DOMAIN st2.sessions \subseteq DOMAIN st.sessions
           /\ \A u \in DOMAIN st2.sessions : /\ st2.sessions[u] = st.sessions[u]
                                             /\ \A e \in ToSet(pass.reaped) : e.token # u
<1>1. PICK tokens : tokens = {e.token : e \in ToSet(pass.reaped)}
    OBVIOUS
<1>2. PICK ids : ids = {st.sessions[e.session].auth_id : e \in ToSet(pass.reaped)}
    OBVIOUS
<1>3. st2 = [st EXCEPT !.waiting = pass.left,
                       !.sessions = [u \in DOMAIN @ \ tokens |-> @[u]],
                       !.id_to_token = [a \in Accounts |->
                                           IF a \in ids THEN NoToken ELSE @[a]]]
    BY <1>1, <1>2 DEF AfterReaping
<1>4. PICK f : f = [u \in DOMAIN st.sessions \ tokens |-> st.sessions[u]]
    OBVIOUS
<1>5. st2.waiting = pass.left /\ st2.active = st.active /\ st2.sessions = f
    BY <1>3, <1>4, StoreFields DEF AuthStore
<1>6. /\ DOMAIN f = DOMAIN st.sessions \ tokens
      /\ \A u \in DOMAIN f : f[u] = st.sessions[u]
    BY <1>4
<1>7. \A u \in DOMAIN f, e \in ToSet(pass.reaped) : e.token # u
    BY <1>1, <1>6
<1>. QED
    BY <1>5, <1>6, <1>7

(* The client of a reaped session has no other, and it is gone: unless it  *)
(* has logged in, and then nothing of its login is on its way.             *)
LEMMA ReapedStays ==
    ASSUME Here, NEW st2, Shrinks(auth, st2), NEW c \in Clients,
           NEW e, e.session \in Requests(auth, c),
           Holds(auth, e.session) /\ auth.sessions[e.session].auth_id = NoAccount =>
              e.token = e.session,
           \A u \in DOMAIN st2.sessions : e.token # u
    PROVE  Idle(authq, authdb, Logins(st2, alink[c], c), Requests(st2, c))
<1>1. OneSession(auth, alink[c], authq, c)
    BY DEF Here, Present
<1>2. PICK t : t = e.session
    OBVIOUS
<1>3. t \in DOMAIN auth.sessions /\ auth.sessions[t].link = c
    BY <1>2 DEF Requests
<1>4. \A u \in Requests(auth, c) : u = t
    BY <1>1, <1>2 DEF OneSession
<1>5. CASE auth.sessions[t].auth_id = NoAccount
    <2>1. t \notin DOMAIN st2.sessions
        BY <1>2, <1>3, <1>5 DEF Holds
    <2>2. Requests(st2, c) \subseteq Requests(auth, c)
        BY ShrunkRequests
    <2>3. Requests(st2, c) = {}
        BY <1>4, <2>1, <2>2 DEF Requests
    <2>4. ~Some(authq, Starts(alink[c], c))
        BY <1>1, <1>2, <1>3 DEF OneSession, Requests
    <2>5. Logins(st2, alink[c], c) \subseteq Starts(alink[c], c)
        BY <2>3 DEF Logins, Starts, LoginsOf, Requests, Holds
    <2>. QED
        BY <2>3, <2>4, <2>5 DEF Idle, Some
<1>6. CASE auth.sessions[t].auth_id # NoAccount
    <2>1. c # NoLink /\ t \in Held
        BY <1>3, HereFacts, HandoverAssumption
    <2>2. alink[c].token = t
        BY <1>3, <1>6, <2>1 DEF Here, LoginOK, Sound, LinksOK
    <2>3. ~Waits(alink[c])
        BY <2>1, <2>2, HeldFacts DEF Waits
    <2>4. Idle(authq, authdb, Logins(auth, alink[c], c), Requests(auth, c))
        BY <2>3, QueuesFacts DEF Here, LoginOK, OnePending
    <2>. QED
        BY <2>4, ShrunkIdle
<1>. QED
    BY <1>5, <1>6

LEMMA ReapAuthPresent ==
    ASSUME Here, NEW stale, ReapAuth(stale)
    PROVE  Present(auth, alink, last_session_id, authq, authdb)'
<1>1. PICK pass : pass = StaleLinks(auth, stale)
    OBVIOUS
<1>2. UNCHANGED <<last_session_id, authq, authdb>>
    BY DEF ReapAuth
<1>3. CASE UNCHANGED <<auth, alink>>
    BY <1>2, <1>3 DEF Here
<1>4. CASE /\ ~ReapsDestroyed(auth, pass.reaped)
           /\ auth' = AfterReaping(auth, pass)
           /\ alink' = [c \in Clients |->
                           IF c \in ReapedLinks(auth, pass.reaped)
                           THEN [alink[c] EXCEPT !.finish = TRUE] ELSE alink[c]]
    <2>1. PICK M : M = Marks(auth, last_session_id)
        OBVIOUS
    <2>2. pass.left \in Seq(M) /\ pass.reaped \in Seq(M)
        BY <1>1, <2>1, HereFacts, PassEntries
    <2>3. ToSet(pass.reaped) \subseteq M
        BY <2>2 DEF ToSet
    <2>4. /\ auth'.waiting = pass.left
          /\ auth'.active = auth.active
          /\ DOMAIN auth'.sessions \subseteq DOMAIN auth.sessions
          /\ \A u \in DOMAIN auth'.sessions :
                /\ auth'.sessions[u] = auth.sessions[u]
                /\ \A e \in ToSet(pass.reaped) : e.token # u
        BY <1>4, HereFacts, AfterReapingFields
    <2>5. Shrinks(auth, auth')
        BY <2>4 DEF Shrinks
    <2>6. Eases(auth, auth')
        BY <2>4, <2>5 DEF Eases
    <2>7. \A c \in Clients :
             /\ alink'[c].up = alink[c].up
             /\ alink'[c].stage = alink[c].stage
             /\ alink'[c].asked = alink[c].asked
             /\ alink'[c].refused = alink[c].refused
             /\ alink'[c].token = alink[c].token
             /\ c \notin ReapedLinks(auth, pass.reaped) => alink'[c] = alink[c]
        BY <1>4 DEF Here, AuthTypeOK, AuthLinks
    <2>8. There(auth', alink', authq)
        BY <2>6, <2>7, HereFacts, EasedThere DEF Here, Present
    <2>9. \A e \in ToSet(pass.reaped) : e.session \in DOMAIN auth.sessions
        BY <1>4 DEF ReapsDestroyed, Holds, ToSet
    <2>10. ASSUME NEW c \in Clients
           PROVE  OneSession(auth', alink'[c], authq, c) /\ Stays(auth', alink'[c], authq, authdb, c)
        <3>1. OneSession(auth, alink[c], authq, c) /\ Stays(auth, alink[c], authq, authdb, c)
            BY DEF Here, Present
        <3>2. CASE c \notin ReapedLinks(auth, pass.reaped)
            <4>1. alink'[c] = alink[c]
                BY <2>7, <3>2
            <4>. QED
                BY <2>5, <3>1, <4>1, EasedClient
        <3>3. CASE c \in ReapedLinks(auth, pass.reaped)
            <4>1. PICK e \in ToSet(pass.reaped) : auth.sessions[e.session].link = c
                BY <3>3 DEF ReapedLinks
            <4>2. e.session \in Requests(auth, c)
                BY <2>9, <4>1 DEF Requests
            <4>3. ~(Starting(alink[c]) \/ Some(authq, Starts(alink[c], c)))
                BY <3>1, <4>2 DEF OneSession
            <4>4. ~Starting(alink'[c])
                BY <2>7, <4>3 DEF Starting
            <4>5. Holds(auth, e.session) /\ auth.sessions[e.session].auth_id = NoAccount =>
                     e.token = e.session
                BY <2>1, <2>3, <4>1 DEF Marks
            <4>6. Idle(authq, authdb, Logins(auth', alink[c], c), Requests(auth', c))
                BY <2>4, <2>5, <4>1, <4>2, <4>5, ReapedStays
            <4>7. Requests(auth', c) \subseteq Requests(auth, c)
                BY <2>5, ShrunkRequests
            <4>8. /\ LoginsOf(alink'[c], c) = LoginsOf(alink[c], c)
                  /\ Starts(alink'[c], c) = Starts(alink[c], c)
                  /\ Logins(auth', alink'[c], c) = Logins(auth', alink[c], c)
                BY <2>7 DEF LoginsOf, Starts, Logins
            <4>9. OneSession(auth', alink'[c], authq, c)
                BY <2>7, <3>1, <4>3, <4>4, <4>7, <4>8 DEF OneSession
            <4>. QED
                BY <4>6, <4>8, <4>9 DEF Stays
        <3>. QED
            BY <3>2, <3>3
    <2>11. auth'.waiting \in Seq(Marks(auth', last_session_id))
        <3>1. M \subseteq Marks(auth', last_session_id)
            BY <2>1, <2>5, ShrunkMarks
        <3>. QED
            BY <2>2, <2>4, <3>1, Elements
    <2>12. PICK n : n = last_session_id
        OBVIOUS
    <2>13. Present(auth', alink', n, authq, authdb)
        BY <2>8, <2>10, <2>11, <2>12 DEF Present
    <2>. QED
        BY <1>2, <2>12, <2>13
<1>. QED
    BY <1>1, <1>3, <1>4 DEF ReapAuth

-----------------------------------------------------------------------------
(* A login                                                                 *)

LEMMA LoginTakenPresent ==
    ASSUME Here, authq # << >>, Head(authq).type = "LoginRequest",
           LoginTaken(Head(authq).link, last_session_id), authq' = Tail(authq)
    PROVE  Present(auth, alink, last_session_id, authq, authdb)'
<1>1. authq # << >> /\ Head(authq).type = "LoginRequest" /\ authq \in Seq(AuthEvent)
    BY DEF Here, AuthTypeOK
<1>2. PICK c \in Clients : c = Head(authq).link
    BY <1>1, HeadFacts, AuthEventFields DEF Here
<1>3. PICK n : n = last_session_id
    OBVIOUS
<1>4. n \in Nat /\ n \in Held /\ last_session_id' = n + 1
    BY <1>3, HeldFacts DEF LoginTaken, Here, AuthTypeOK
<1>5. PICK s \in AuthSessions : s = AuthSession(c)
    BY DEF AuthSession, AuthSessions
<1>6. s.auth_id = NoAccount /\ s.link = c /\ ~s.logged_in
    BY <1>5 DEF AuthSession
<1>7. PICK st : st = WithSession(auth, n, s)
    OBVIOUS
<1>8. /\ st \in AuthStore
      /\ DOMAIN st.sessions = DOMAIN auth.sessions \union {n}
      /\ st.sessions[n] = s
      /\ \A u \in DOMAIN auth.sessions \ {n} : st.sessions[u] = auth.sessions[u]
    BY <1>4, <1>7, HereFacts, WithSessionType DEF AuthStore
<1>9. st.active = auth.active /\ st.waiting = auth.waiting
    BY <1>7, HereFacts, StoreFields DEF WithSession, AuthStore
<1>10. n \notin DOMAIN auth.sessions
    BY <1>3, <1>4, HereFacts
<1>11. PICK st2 : st2 = auth'
    OBVIOUS
<1>12. st2 = mark_session_for_reaping(st, n, n)
    BY <1>2, <1>3, <1>5, <1>7, <1>11 DEF LoginTaken
<1>13. st2.sessions = st.sessions
    <2>1. n \in Token
        BY <1>4, HeldFacts
    <2>. QED
        BY <1>4, <1>8, <1>12, <2>1, MarkType DEF AuthStore
<1>14. /\ DOMAIN st2.sessions = DOMAIN auth.sessions \union {n}
       /\ st2.sessions[n] = s
       /\ \A u \in DOMAIN auth.sessions : u # n /\ st2.sessions[u] = auth.sessions[u]
    BY <1>8, <1>10, <1>13
<1>15. PICK M : M = Marks(st2, n + 1)
    OBVIOUS
<1>16. auth.waiting \in Seq(M)
    <2>1. Marks(auth, n) \subseteq M
        <3>1. SUFFICES ASSUME NEW e \in Marks(auth, n)
                       PROVE  e \in Marks(st2, n + 1)
            BY <1>15
        <3>2. e \in Mark /\ e.session < n /\ e.session \in Nat
            BY HeldFacts DEF Marks, Mark, WaitingSession
        <3>3. e.session # n /\ e.session < n + 1
            BY <1>4, <3>2
        <3>. QED
            BY <1>14, <3>2, <3>3 DEF Marks, Holds
    <2>. QED
        BY <1>3, <2>1, HereFacts, Elements
<1>17. st2.active = auth.active /\ st2.waiting \in Seq(M)
    <2>1. \A k \in Nat : [session |-> n, token |-> n, since |-> k + 1] \in M
        <3>1. n < n + 1 /\ n \in {n, NoToken}
            BY <1>4
        <3>. QED
            BY <1>4, <1>15, <3>1, NewMark
    <2>2. st.waiting \in Seq(M)
        BY <1>9, <1>16
    <2>3. Kept(st, st2, M)
        BY <1>8, <1>12, <2>1, <2>2, MarkKept
    <2>. QED
        BY <1>9, <2>3 DEF Kept
<1>18. PICK aq2, db2 : aq2 = Tail(authq) /\ db2 = Append(authdb, n)
    OBVIOUS
<1>19. There(st2, alink, aq2)
    <2>1. \A t : Head(authq) \notin Ends(t)
        BY <1>1 DEF Ends
    <2>2. \A t \in DOMAIN auth.sessions : Some(authq, Ends(t)) => Some(aq2, Ends(t))
        BY <1>1, <1>18, <2>1, HandledSome
    <2>3. There(auth, alink, authq)
        BY DEF Here, Present
    <2>4. SUFFICES ASSUME NEW t \in DOMAIN st2.sessions, st2.sessions[t].logged_in
                   PROVE  /\ st2.sessions[t].auth_id # NoAccount
                          /\ st2.sessions[t].link # NoLink
                          /\ t \in st2.active
                          /\ alink[st2.sessions[t].link].up \/ Some(aq2, Ends(t))
        BY DEF There
    <2>5. t \in DOMAIN auth.sessions /\ st2.sessions[t] = auth.sessions[t]
        BY <1>6, <1>14, <2>4
    <2>. QED
        BY <1>17, <2>2, <2>3, <2>4, <2>5 DEF There
<1>20. Head(authq) \in LoginsOf(alink[c], c) /\ Head(authq) \in Logins(auth, alink[c], c)
       /\ Head(authq) \in Starts(alink[c], c)
    <2>1. alink[c].token = NoToken
        BY <1>2 DEF LoginTaken, Here, LoginOK, Sound, StagesOK
    <2>. QED
        BY <1>1, <1>2, <2>1, HeadFacts DEF LoginsOf, Logins, Starts, Here
<1>21. OneSession(auth, alink[c], authq, c) /\ Stays(auth, alink[c], authq, authdb, c)
    BY DEF Here, Present
<1>22. /\ Requests(auth, c) = {} /\ alink[c].stage = "CONNECTED"
       /\ alink[c].up /\ ~alink[c].finish /\ alink[c].asked
    <2>1. /\ Some(authq, LoginsOf(alink[c], c)) /\ Some(authq, Logins(auth, alink[c], c))
          /\ Some(authq, Starts(alink[c], c))
        BY <1>1, <1>20, HandledSome
    <2>2. Waits(alink[c])
        BY <1>1, <1>20, HeadFacts DEF Here
    <2>. QED
        BY <1>21, <2>1, <2>2 DEF OneSession, Stays, Idle, Waits
<1>23. Idle(aq2, authdb, Logins(auth, alink[c], c), Requests(auth, c))
    BY <1>1, <1>18, <1>20, HeadFacts DEF Here
<1>24. OneSession(st2, alink[c], aq2, c) /\ Stays(st2, alink[c], aq2, db2, c)
    <2>1. \A u \in Requests(st2, c) : u = n
        BY <1>14, <1>22 DEF Requests
    <2>2. ~Some(aq2, Starts(alink[c], c)) /\ ~Some(aq2, LoginsOf(alink[c], c))
        BY <1>23, IdleStarts
    <2>3. ~Starting(alink[c])
        BY <1>22 DEF Starting
    <2>. QED
        BY <1>22, <2>1, <2>2, <2>3 DEF OneSession, Stays
<1>25. ASSUME NEW d \in Clients, d # c
       PROVE  OneSession(st2, alink[d], aq2, d) /\ Stays(st2, alink[d], aq2, db2, d)
    <2>1. OneSession(auth, alink[d], authq, d) /\ Stays(auth, alink[d], authq, authdb, d)
        BY DEF Here, Present
    <2>2. Requests(st2, d) = Requests(auth, d)
        BY <1>6, <1>14, <1>25 DEF Requests
    <2>3. /\ Some(aq2, Starts(alink[d], d)) => Some(authq, Starts(alink[d], d))
          /\ Some(aq2, LoginsOf(alink[d], d)) => Some(authq, LoginsOf(alink[d], d))
        BY <1>1, <1>18, HandledSome
    <2>4. OneSession(st2, alink[d], aq2, d)
        BY <2>1, <2>2, <2>3 DEF OneSession
    <2>5. Logins(st2, alink[d], d) \subseteq Logins(auth, alink[d], d)
        BY <1>6, <1>14, <1>25 DEF Logins, Holds
    <2>6. ASSUME Idle(authq, authdb, Logins(auth, alink[d], d), Requests(auth, d))
          PROVE  Idle(aq2, db2, Logins(st2, alink[d], d), Requests(st2, d))
        <3>1. ~Some(authq, Logins(auth, alink[d], d)) /\ ~Some(authdb, Requests(auth, d))
            BY <2>6 DEF Idle
        <3>2. ~Some(aq2, Logins(auth, alink[d], d))
            BY <1>1, <1>18, <3>1, HandledSome
        <3>3. ~Some(aq2, Logins(st2, alink[d], d))
            BY <2>5, <3>2 DEF Some
        <3>4. n \notin Requests(auth, d) /\ authdb \in Seq(Held)
            BY <1>10 DEF Requests, Here, AuthTypeOK
        <3>5. ~Some(db2, Requests(auth, d))
            BY <1>18, <3>1, <3>4, AppendedSome
        <3>. QED
            BY <2>2, <3>3, <3>5 DEF Idle
    <2>. QED
        BY <2>1, <2>4, <2>6 DEF Stays
<1>26. Present(st2, alink, n + 1, aq2, db2)
    <2>1. \A d \in Clients : OneSession(st2, alink[d], aq2, d) /\ Stays(st2, alink[d], aq2, db2, d)
        BY <1>24, <1>25
    <2>. QED
        BY <1>15, <1>17, <1>19, <2>1 DEF Present
<1>27. UNCHANGED alink /\ authdb' = db2
    BY <1>3, <1>18 DEF LoginTaken
<1>. QED
    BY <1>4, <1>11, <1>18, <1>26, <1>27

LEMMA OnLoginPresent ==
    ASSUME Here, OnLogin, authq' = Tail(authq)
    PROVE  Present(auth, alink, last_session_id, authq, authdb)'
<1>1. authq # << >> /\ Head(authq).type = "LoginRequest" /\ authq \in Seq(AuthEvent)
    BY LoginOutcome DEF Here, AuthTypeOK
<1>2. PICK c \in Clients : c = Head(authq).link
    BY <1>1, HeadFacts, AuthEventFields DEF Here
<1>3. CASE alink' = Refused(c) /\ UNCHANGED <<auth, last_session_id, authdb>>
    <2>1. CASE alink[c].token = NoToken
        <3>1. /\ Head(authq) \in Logins(auth, alink[c], c)
              /\ Head(authq) \in LoginsOf(alink[c], c)
            BY <1>1, <1>2, <2>1, HeadFacts DEF LoginsOf, Logins, Here
        <3>2. Some(authq, LoginsOf(alink[c], c))
            BY <1>1, <3>1, HandledSome
        <3>3. alink[c].stage = "CONNECTED"
            BY <3>2 DEF Here, Present, OneSession
        <3>. QED
            BY <1>1, <1>3, <3>1, <3>3, RefusedHandled
    <2>2. CASE alink[c].token # NoToken
        <3>1. ~Waits(alink[c]) /\ alink[c].stage \notin {"none", "INITIAL"}
            BY <2>2 DEF Waits, Here, LoginOK, Sound, StagesOK
        <3>. QED
            BY <1>1, <1>3, <3>1, RefusedHandled
    <2>. QED
        BY <2>1, <2>2
<1>4. CASE LoginTaken(c, last_session_id)
    BY <1>1, <1>2, <1>4, LoginTakenPresent
<1>. QED
    BY <1>2, <1>3, <1>4, LoginOutcome

-----------------------------------------------------------------------------
(* The database's answer                                                   *)

(* The temporary session, when the account left one behind                 *)
Dropped(st, old, temp) ==
    IF old = NoToken THEN st
    ELSE mark_session_for_reaping(
            [unmark_session_for_reaping(st, old) EXCEPT !.sessions[temp].link = NoLink],
            temp, temp)

LEMMA LoggedInKept ==
    ASSUME NEW st0 \in AuthStore, NEW st, SameSessions(st0, st),
           NEW temp \in DOMAIN st0.sessions, NEW old,
           NEW M, st.waiting \in Seq(M),
           \A k \in Nat : [session |-> temp, token |-> temp, since |-> k + 1] \in M,
           NEW kept, kept = Dropped(st, old, temp)
    PROVE  /\ kept \in AuthStore
           /\ DOMAIN kept.sessions = DOMAIN st0.sessions
           /\ kept.active = st.active /\ kept.waiting \in Seq(M)
<1>1. temp \in Held /\ st \in AuthStore /\ st.sessions = st0.sessions /\ st.waiting \in Seq(Mark)
    BY StoreFields DEF AuthStore, SameSessions
<1>2. CASE old = NoToken
    BY <1>1, <1>2 DEF Dropped
<1>3. CASE old # NoToken
    <2>1. PICK um : um = unmark_session_for_reaping(st, old)
        OBVIOUS
    <2>2. SameSessions(st, um)
        BY <1>1, <2>1, UnmarkOne
    <2>3. Kept(st, um, M)
        BY <1>1, <2>1, UnmarkKept
    <2>4. um \in AuthStore /\ um.sessions = st0.sessions /\ um.waiting \in Seq(Mark)
        BY <1>1, <2>2 DEF SameSessions
    <2>5. PICK s : s = [um.sessions[temp] EXCEPT !.link = NoLink]
        OBVIOUS
    <2>6. s \in AuthSessions
        <3>1. PICK k \in AuthSessions : k = um.sessions[temp]
            BY <2>4, StoreFields DEF AuthStore
        <3>2. s = [k EXCEPT !.link = NoLink]
            BY <2>5, <3>1
        <3>. QED
            BY <3>2 DEF AuthSessions
    <2>7. PICK cut : cut = Amend(um, temp, s)
        OBVIOUS
    <2>8. Amended(um, cut, temp, s)
        BY <2>4, <2>6, <2>7, AmendOne
    <2>9. kept = mark_session_for_reaping(cut, temp, temp)
        BY <1>3, <2>1, <2>5, <2>7 DEF Amend, Dropped
    <2>10. cut \in AuthStore /\ cut.waiting \in Seq(Mark) /\ cut.waiting \in Seq(M)
        BY <2>3, <2>4, <2>8 DEF Amended, Kept
    <2>11. SameSessions(cut, kept)
        BY <1>1, <2>9, <2>10, MarkOne
    <2>12. Kept(cut, kept, M)
        BY <2>9, <2>10, MarkKept
    <2>13. kept.active = st.active /\ kept.waiting \in Seq(M)
        BY <2>3, <2>8, <2>12 DEF Amended, Kept
    <2>14. kept \in AuthStore /\ DOMAIN kept.sessions = DOMAIN st0.sessions
        BY <2>4, <2>8, <2>11 DEF Amended, SameSessions
    <2>. QED
        BY <2>13, <2>14
<1>. QED
    BY <1>2, <1>3

(* What it leaves of the lists: the client's session is active.            *)
LEMMA LoggedInActive ==
    ASSUME AuthTypeOK, NEW st, SameSessions(auth, st), NEW M, st.waiting \in Seq(M),
           NEW temp \in DOMAIN auth.sessions, NEW c \in Clients, NEW a \in Accounts,
           \A k \in Nat : [session |-> temp, token |-> temp, since |-> k + 1] \in M,
           LoggedIn(st, temp, c, a),
           NEW t \in DOMAIN auth.sessions,
           t = IF auth.id_to_token[a] = NoToken THEN temp ELSE auth.id_to_token[a]
    PROVE  auth'.active = st.active \union {t} /\ auth'.waiting \in Seq(M)
<1>1. auth \in AuthStore /\ NoAccount \notin Accounts
    BY HandoverAssumption DEF AuthTypeOK, AuthStore
<1>2. PICK old : old = token_for_id(auth, a)
    OBVIOUS
<1>3. t = IF old = NoToken THEN temp ELSE old
    BY <1>1, <1>2 DEF token_for_id
<1>4. PICK kept : kept = Dropped(st, old, temp)
    OBVIOUS
<1>5. /\ kept \in AuthStore
      /\ DOMAIN kept.sessions = DOMAIN auth.sessions
      /\ kept.active = st.active /\ kept.waiting \in Seq(M)
    BY <1>1, <1>4, LoggedInKept
<1>6. PICK s : s = [kept.sessions[t] EXCEPT !.link = c, !.auth_id = a, !.logged_in = TRUE]
    OBVIOUS
<1>7. s \in AuthSessions
    <2>1. PICK k \in AuthSessions : k = kept.sessions[t]
        BY <1>5, StoreFields DEF AuthStore
    <2>2. s = [k EXCEPT !.link = c, !.auth_id = a, !.logged_in = TRUE]
        BY <1>6, <2>1
    <2>. QED
        BY <2>2 DEF AuthSessions
<1>8. PICK mine : mine = Amend(kept, t, s)
    OBVIOUS
<1>9. Amended(kept, mine, t, s)
    BY <1>5, <1>7, <1>8, AmendOne
<1>10. PICK act : act = add_to_active_sessions(mine, t)
    OBVIOUS
<1>11. act.active = mine.active \union {t} /\ act.waiting = mine.waiting
    BY <1>9, <1>10, ActivateKept DEF Amended
<1>12. auth' = setTokenForId(act, a, t)
    BY <1>2, <1>3, <1>4, <1>6, <1>8, <1>10 DEF LoggedIn, Amend, Dropped
<1>13. auth'.active = act.active /\ auth'.waiting = act.waiting
    <2>1. act \in AuthStore
        <3>1. t \in Held /\ mine \in AuthStore
            BY <1>1, <1>9, StoreFields DEF AuthStore, Amended
        <3>. QED
            BY <1>10, <3>1, ActiveType DEF AuthStore
    <2>2. auth' = [act EXCEPT !.id_to_token = [act.id_to_token EXCEPT ![a] = t]]
        BY <1>12 DEF setTokenForId
    <2>. QED
        BY <2>1, <2>2, StoreFields DEF AuthStore
<1>. QED
    BY <1>5, <1>9, <1>11, <1>13 DEF Amended

(* The client that waited is still there, and its session is its only one. *)
LEMMA LoggedInPresent ==
    ASSUME Here, authq # << >>, authq' = Tail(authq),
           Head(authq).type = "RetrieveAccountResponse",
           NEW temp \in DOMAIN auth.sessions, auth.sessions[temp].auth_id = NoAccount,
           NEW c \in Clients, c = auth.sessions[temp].link,
           NEW a \in Accounts, NEW t \in DOMAIN auth.sessions,
           t = temp \/ auth.sessions[t].auth_id # NoAccount,
           LoggedInStore(auth, auth', temp, t, c, a),
           auth'.active = auth.active \union {t},
           auth'.waiting \in Seq(Marks(auth, last_session_id)),
           OneMoved(alink, alink', c), alink'[c].stage = "AUTHORIZED",
           alink'[c].up = alink[c].up, alink'[c].finish = alink[c].finish,
           Head(authq) \in Logins(auth, alink[c], c),
           UNCHANGED <<last_session_id, authdb>>
    PROVE  Present(auth, alink, last_session_id, authq, authdb)'
<1>1. PICK n : n = last_session_id
    OBVIOUS
<1>2. PICK aq2 : aq2 = Tail(authq)
    OBVIOUS
<1>3. PICK st2, ls2 : st2 = auth' /\ ls2 = alink'
    OBVIOUS
<1>4. authq \in Seq(AuthEvent) /\ c # NoLink /\ a # NoAccount
    BY HandoverAssumption DEF Here, AuthTypeOK
<1>5. /\ DOMAIN st2.sessions = DOMAIN auth.sessions
      /\ st2.sessions[t].auth_id = a /\ st2.sessions[t].link = c
      /\ temp # t => /\ st2.sessions[temp].auth_id = NoAccount
                     /\ st2.sessions[temp].link = NoLink
                     /\ st2.sessions[temp].logged_in = auth.sessions[temp].logged_in
      /\ \A u \in DOMAIN auth.sessions \ {t, temp} : st2.sessions[u] = auth.sessions[u]
    BY <1>3 DEF LoggedInStore
<1>6. alink[c].up /\ ~alink[c].finish
    <2>1. Some(authq, Logins(auth, alink[c], c))
        BY <1>4, HandledSome
    <2>. QED
        BY <2>1 DEF Here, Present, Stays, Idle
<1>7. ls2[c].up /\ ~ls2[c].finish /\ ~Starting(ls2[c])
    BY <1>3, <1>6 DEF Starting
<1>8. Idle(aq2, authdb, Logins(auth, ls2[c], c), Requests(auth, c))
    <2>1. Idle(aq2, authdb, Logins(auth, alink[c], c), Requests(auth, c))
        BY <1>2, HeadFacts DEF Here
    <2>2. alink[c].token = NoToken
        BY HeadFacts DEF Here, Waits
    <2>3. Logins(auth, ls2[c], c) \subseteq Logins(auth, alink[c], c)
        BY <2>2 DEF Logins
    <2>. QED
        BY <2>1, <2>3 DEF Idle, Some
<1>9. There(st2, ls2, aq2)
    <2>1. \A u : Head(authq) \notin Ends(u)
        BY DEF Ends
    <2>2. \A u \in DOMAIN auth.sessions : Some(authq, Ends(u)) => Some(aq2, Ends(u))
        BY <1>2, <1>4, <2>1, HandledSome
    <2>3. There(auth, alink, authq)
        BY DEF Here, Present
    <2>4. SUFFICES ASSUME NEW u \in DOMAIN st2.sessions, st2.sessions[u].logged_in
                   PROVE  /\ st2.sessions[u].auth_id # NoAccount
                          /\ st2.sessions[u].link # NoLink
                          /\ u \in st2.active
                          /\ ls2[st2.sessions[u].link].up \/ Some(aq2, Ends(u))
        BY DEF There
    <2>5. t \in st2.active /\ auth.active \subseteq st2.active
        BY <1>3
    <2>6. CASE u = t
        BY <1>4, <1>5, <1>7, <2>5, <2>6
    <2>7. CASE u # t
        <3>1. u # temp
            <4>1. ~auth.sessions[temp].logged_in
                BY <2>3 DEF There
            <4>. QED
                BY <1>5, <2>4, <2>7, <4>1
        <3>2. u \in DOMAIN auth.sessions /\ st2.sessions[u] = auth.sessions[u]
            BY <1>5, <2>7, <3>1
        <3>3. PICK d : d = auth.sessions[u].link
            OBVIOUS
        <3>4. /\ auth.sessions[u].auth_id # NoAccount /\ d # NoLink /\ u \in auth.active
              /\ alink[d].up \/ Some(authq, Ends(u))
            BY <2>3, <2>4, <3>2, <3>3 DEF There
        <3>5. d \in Clients
            <4>1. auth.sessions[u] \in AuthSessions
                BY <3>2, HereFacts
            <4>. QED
                BY <3>3, <3>4, <4>1 DEF AuthSessions
        <3>6. ls2[d].up \/ Some(aq2, Ends(u))
            BY <1>3, <1>7, <2>2, <3>2, <3>4, <3>5 DEF OneMoved
        <3>. QED
            BY <2>5, <3>2, <3>3, <3>4, <3>6
    <2>. QED
        BY <2>6, <2>7
<1>10. OneSession(st2, ls2[c], aq2, c) /\ Stays(st2, ls2[c], aq2, authdb, c)
    <2>1. \A u \in Requests(auth, c) : u = temp
        <3>1. temp \in Requests(auth, c)
            BY DEF Requests
        <3>. QED
            BY <3>1 DEF Here, Present, OneSession
    <2>2. \A u \in Requests(st2, c) : u = t
        BY <1>4, <1>5, <2>1 DEF Requests
    <2>3. ~Some(aq2, Starts(ls2[c], c)) /\ ~Some(aq2, LoginsOf(ls2[c], c))
        BY <1>8, IdleStarts
    <2>. QED
        BY <1>7, <2>2, <2>3 DEF OneSession, Stays
<1>11. ASSUME NEW d \in Clients, d # c
       PROVE  OneSession(st2, ls2[d], aq2, d) /\ Stays(st2, ls2[d], aq2, authdb, d)
    <2>1. OneSession(auth, alink[d], authq, d) /\ Stays(auth, alink[d], authq, authdb, d)
        BY DEF Here, Present
    <2>2. ls2[d] = alink[d] /\ d # NoLink
        BY <1>3, <1>11, HandoverAssumption DEF OneMoved
    <2>3. \A u \in DOMAIN st2.sessions : st2.sessions[u].link = d => auth.sessions[u].link = d
        BY <1>5, <1>11, <2>2
    <2>4. Requests(st2, d) \subseteq Requests(auth, d)
        BY <1>5, <2>3 DEF Requests
    <2>5. Logins(st2, alink[d], d) \subseteq Logins(auth, alink[d], d)
        BY <1>5, <2>3 DEF Logins, Holds
    <2>6. /\ Some(aq2, Starts(alink[d], d)) => Some(authq, Starts(alink[d], d))
          /\ Some(aq2, LoginsOf(alink[d], d)) => Some(authq, LoginsOf(alink[d], d))
        BY <1>2, <1>4, HandledSome
    <2>7. OneSession(st2, ls2[d], aq2, d)
        BY <2>1, <2>2, <2>4, <2>6 DEF OneSession
    <2>8. Idle(authq, authdb, Logins(auth, alink[d], d), Requests(auth, d)) =>
             Idle(aq2, authdb, Logins(auth, alink[d], d), Requests(auth, d))
        BY <1>2, HandledQueued DEF Here, LoginOK
    <2>9. Idle(aq2, authdb, Logins(auth, alink[d], d), Requests(auth, d)) =>
             Idle(aq2, authdb, Logins(st2, alink[d], d), Requests(st2, d))
        BY <2>4, <2>5 DEF Idle, Some
    <2>. QED
        BY <2>1, <2>2, <2>7, <2>8, <2>9 DEF Stays
<1>12. st2.waiting \in Seq(Marks(st2, n))
    <2>1. Marks(auth, n) \subseteq Marks(st2, n)
        <3>1. \A u \in DOMAIN auth.sessions :
                 st2.sessions[u].auth_id = NoAccount => auth.sessions[u].auth_id = NoAccount
            BY <1>4, <1>5
        <3>. QED
            BY <1>5, <3>1 DEF Marks, Holds
    <2>. QED
        BY <1>1, <1>3, <2>1, Elements
<1>13. Present(st2, ls2, n, aq2, authdb)
    <2>1. \A d \in Clients : OneSession(st2, ls2[d], aq2, d) /\ Stays(st2, ls2[d], aq2, authdb, d)
        BY <1>10, <1>11
    <2>. QED
        BY <1>9, <1>12, <2>1 DEF Present
<1>. QED
    BY <1>1, <1>2, <1>3, <1>13

LEMMA OnRetrieveAccountResponsePresent ==
    ASSUME Here, OnRetrieveAccountResponse, authq' = Tail(authq)
    PROVE  Present(auth, alink, last_session_id, authq, authdb)'
<1>0. AuthTypeOK
    BY DEF Here
<1>1. /\ authq # << >> /\ auth \in AuthStore
      /\ Head(authq).type = "RetrieveAccountResponse"
      /\ UNCHANGED <<last_session_id, authdb>>
    BY HereFacts DEF OnRetrieveAccountResponse, Handles, authOnly
<1>2. PICK temp \in Held : temp = Head(authq).token
    BY <1>1, HeadFacts, AuthEventFields DEF Here
<1>3. PICK a \in Accounts \union {NoAccount} : a = Head(authq).account
    BY <1>1, HeadFacts, AuthEventFields DEF Here
<1>4. PICK st : st = unmark_session_for_reaping(auth, temp)
    OBVIOUS
<1>5. PICK M : M = Marks(auth, last_session_id)
    OBVIOUS
<1>6. SameSessions(auth, st) /\ Kept(auth, st, M)
    <2>1. SameSessions(auth, st)
        BY <1>1, <1>4, UnmarkOne DEF Here, LoginOK, Sound
    <2>2. Kept(auth, st, M)
        BY <1>1, <1>4, <1>5, HereFacts, UnmarkKept
    <2>. QED
        BY <2>1, <2>2
<1>7. PICK c : c = auth.sessions[temp].link
    OBVIOUS
<1>8. \A u : Head(authq) \notin Ends(u)
    BY <1>1 DEF Ends
<1>9. CASE UNCHANGED authOnly
    BY <1>1, <1>8, <1>9, UnchangedHandled
<1>10. ASSUME Holds(auth, temp)
       PROVE  /\ temp \in DOMAIN auth.sessions
              /\ auth.sessions[temp].auth_id = NoAccount
              /\ c \in Clients
              /\ Head(authq) \in Logins(auth, alink[c], c)
              /\ \A k \in Nat : [session |-> temp, token |-> temp, since |-> k + 1] \in M
    <2>1. Temporary(auth, last_session_id, temp)
        BY <1>1, <1>2, HeadFacts DEF AuthGood, Here
    <2>2. temp \in DOMAIN auth.sessions
        BY <1>10 DEF Holds
    <2>3. auth.sessions[temp] \in AuthSessions /\ temp < last_session_id
        BY <2>2, HereFacts
    <2>4. auth.sessions[temp].auth_id = NoAccount /\ c \in Clients
        BY <1>7, <1>10, <2>1, <2>3 DEF Temporary, AuthSessions
    <2>5. Head(authq) \in Logins(auth, alink[c], c)
        BY <1>1, <1>2, <1>7, <1>10, HeadFacts DEF Logins, Here
    <2>6. \A k \in Nat : [session |-> temp, token |-> temp, since |-> k + 1] \in M
        BY <1>5, <2>3, NewMark
    <2>. QED
        BY <2>2, <2>4, <2>5, <2>6
<1>11. CASE /\ Holds(auth, temp)
            /\ auth' = mark_session_for_reaping(st, temp, temp)
            /\ alink' = Refused(c)
    <2>1. /\ c \in Clients /\ Head(authq) \in Logins(auth, alink[c], c)
          /\ \A k \in Nat : [session |-> temp, token |-> temp, since |-> k + 1] \in M
          /\ auth.sessions[temp].link = c /\ temp \in DOMAIN auth.sessions
        BY <1>7, <1>10, <1>11
    <2>2. SameSessions(auth, auth')
        <3>1. SameSessions(st, auth')
            BY <1>6, <1>11, MarkOne DEF SameSessions
        <3>. QED
            BY <1>6, <3>1 DEF SameSessions
    <2>3. Kept(auth, auth', M)
        <3>1. st \in AuthStore /\ st.waiting \in Seq(M)
            BY <1>6 DEF SameSessions, Kept
        <3>2. Kept(st, auth', M)
            BY <1>11, <2>1, <3>1, MarkKept
        <3>. QED
            BY <1>6, <3>2 DEF Kept
    <2>6. /\ \A d \in Clients : d # c => alink'[d] = alink[d]
          /\ alink'[c].up = alink[c].up
          /\ alink'[c].finish = alink[c].finish
          /\ alink'[c].token = alink[c].token
          /\ alink'[c].stage = alink[c].stage
          /\ alink'[c].refused
        BY <1>11, <2>1, RefusedFields DEF Here
    <2>7. ~Starting(alink'[c])
        <3>1. temp \in Requests(auth, c)
            BY <2>1 DEF Requests
        <3>2. ~Starting(alink[c])
            BY <2>1, <3>1 DEF Here, Present, OneSession
        <3>. QED
            BY <2>6, <3>2 DEF Starting
    <2>. QED
        BY <1>1, <1>5, <2>1, <2>2, <2>3, <2>6, <2>7, AnsweredHandled
<1>12. CASE /\ Holds(auth, temp) /\ a # NoAccount
            /\ LoggedIn(st, temp, c, a)
    <2>1. /\ temp \in DOMAIN auth.sessions
          /\ auth.sessions[temp].auth_id = NoAccount
          /\ c \in Clients /\ a \in Accounts
          /\ c = auth.sessions[temp].link
          /\ Head(authq) \in Logins(auth, alink[c], c)
          /\ \A k \in Nat : [session |-> temp, token |-> temp, since |-> k + 1] \in M
        BY <1>3, <1>7, <1>10, <1>12
    <2>2. IdsOK(auth)
        BY DEF Here, LoginOK, Sound
    <2>3. PICK t \in DOMAIN auth.sessions :
             /\ t = IF auth.id_to_token[a] = NoToken THEN temp ELSE auth.id_to_token[a]
             /\ LoggedInStore(auth, auth', temp, t, c, a)
             /\ alink' = [Answered(c) EXCEPT ![c].token = t, ![c].stage = "AUTHORIZED"]
        <3>1. SameSessions(auth, st)
            BY <1>6
        <3>3. LoggedIn(st, temp, c, a)
            BY <1>12
        <3>2. /\ temp \in DOMAIN auth.sessions
              /\ auth.sessions[temp].auth_id = NoAccount
              /\ c \in Clients /\ a \in Accounts
            BY <2>1
        <3>. QED
            BY <1>0, <2>2, <3>1, <3>2, <3>3, LoggedInOutcome
    <2>4. LoggedInStore(auth, auth', temp, t, c, a)
        BY <2>3
    <2>5. t = IF auth.id_to_token[a] = NoToken THEN temp ELSE auth.id_to_token[a]
        BY <2>3
    <2>6. t = temp \/ auth.sessions[t].auth_id # NoAccount
        <3>1. t = temp \/ auth.sessions[t].auth_id = a
            BY <2>1, <2>2, <2>5 DEF IdsOK
        <3>. QED
            BY <2>1, <3>1, HandoverAssumption
    <2>7. auth'.active = auth.active \union {t} /\ auth'.waiting \in Seq(M)
        <3>1. st.waiting \in Seq(M) /\ st.active = auth.active
            BY <1>6 DEF Kept
        <3>2. auth'.active = st.active \union {t} /\ auth'.waiting \in Seq(M)
            BY <1>6, <1>0, <1>12, <2>1, <2>2, <2>5, <3>1, LoggedInActive
        <3>. QED
            BY <3>1, <3>2
    <2>8. PICK ls \in [Clients -> AuthLinks] : ls = Answered(c)
        BY <1>0, <2>1, AnsweredFields
    <2>9. PICK ms : ms = [ls EXCEPT ![c].token = t]
        OBVIOUS
    <2>10. alink' = [ms EXCEPT ![c].stage = "AUTHORIZED"]
        BY <2>3, <2>8, <2>9
    <2>11. /\ alink'[c].stage = "AUTHORIZED"
           /\ alink'[c].up = ls[c].up /\ alink'[c].finish = ls[c].finish
        BY <2>1, <2>8, <2>9, <2>10 DEF AuthLinks
    <2>12. \A d \in Clients : d # c => alink'[d] = ls[d]
        BY <2>1, <2>8, <2>9, <2>10
    <2>13. /\ OneMoved(alink, alink', c)
           /\ alink'[c].up = alink[c].up /\ alink'[c].finish = alink[c].finish
        BY <1>0, <2>1, <2>8, <2>11, <2>12, AnsweredFields DEF OneMoved
    <2>. QED
        BY <1>1, <1>5, <2>1, <2>4, <2>6, <2>7, <2>11, <2>13, LoggedInPresent
<1>. QED
    BY <1>2, <1>3, <1>4, <1>7, <1>9, <1>11, <1>12 DEF OnRetrieveAccountResponse

LEMMA AuthStepPresent ==
    ASSUME Here, HandleAuthEvent, authq \in Seq(Leavings(auth, last_session_id))
    PROVE  Present(auth, alink, last_session_id, authq, authdb)'
<1>1. authq' = Tail(authq)
    BY DEF HandleAuthEvent
<1>2. CASE OnClientDisconnectedFromOtherServer
    <2>1. authq # << >>
        BY <1>2 DEF OnClientDisconnectedFromOtherServer, Handles
    <2>2. Head(authq) \in Leavings(auth, last_session_id)
        BY <2>1
    <2>. QED
        BY <1>1, <1>2, <2>2, OnClientDisconnectedPresent
<1>3. CASE \/ OnConnect \/ OnDisconnect \/ OnLogin \/ OnRetrieveAccountResponse \/ OnDbError
    BY <1>1, <1>3, OnConnectPresent, OnDisconnectPresent, OnLoginPresent,
       OnRetrieveAccountResponsePresent, OnDbErrorPresent
<1>4. CASE \/ OnServerListRequest \/ OnServerSelected \/ OnClientExpected
           \/ OnClientConnectedToOtherServer
    BY <1>1, <1>4, OnServerListRequestPresent, OnServerSelectedPresent,
       OnClientExpectedPresent, OnClientConnectedPresent
<1>. QED
    BY <1>2, <1>3, <1>4 DEF HandleAuthEvent

-----------------------------------------------------------------------------
(* What the game handler has of sessions                                   *)

LEMMA KnownFields ==
    ASSUME NEW K \in SUBSET Held, NEW st \in GameKnown(K), NEW t
    PROVE  /\ Holds(st, t) =>
                 /\ t \in DOMAIN st.sessions /\ t \in K /\ t \in Held
                 /\ st.sessions[t] \in GameSessions
           /\ \A s \in GameSessions :
                 t \in DOMAIN st.sessions => Amend(st, t, s) \in GameKnown(K)
           /\ unmark_session_for_reaping(st, t) \in GameKnown(K)
           /\ unmark_session_for_reaping(st, t).sessions = st.sessions
           /\ t \in K => /\ mark_session_for_reaping(st, t, t) \in GameKnown(K)
                         /\ mark_session_for_reaping(st, t, t).sessions = st.sessions
                         /\ add_to_active_sessions(st, t) \in GameKnown(K)
<1>1. Holds(st, t) => /\ t \in DOMAIN st.sessions /\ t \in K /\ t \in Held
                      /\ st.sessions[t] \in GameSessions
    BY StoreFields DEF GameKnown, Holds
<1>2. \A s \in GameSessions : t \in DOMAIN st.sessions => Amend(st, t, s) \in GameKnown(K)
    BY AmendType DEF GameKnown
<1>3. /\ unmark_session_for_reaping(st, t) \in GameKnown(K)
      /\ unmark_session_for_reaping(st, t).sessions = st.sessions
    BY UnmarkType DEF GameKnown
<1>4. t \in K => /\ mark_session_for_reaping(st, t, t) \in GameKnown(K)
                 /\ mark_session_for_reaping(st, t, t).sessions = st.sessions
    BY MarkType DEF GameKnown
<1>5. t \in K => add_to_active_sessions(st, t) \in GameKnown(K)
    BY ActiveType DEF GameKnown
<1>. QED
    BY <1>1, <1>2, <1>3, <1>4, <1>5

LEMMA KnownLost ==
    ASSUME NEW K \in SUBSET Held, NEW st \in GameKnown(K), NEW t, Holds(st, t)
    PROVE  /\ session_link_lost(st, t) \in GameKnown(K)
           /\ \A a : remove_by_token(session_link_lost(st, t), t, a) \in GameKnown(K)
<1>1. t \in DOMAIN st.sessions /\ [st.sessions[t] EXCEPT !.link = NoLink] \in GameSessions
    BY KnownFields, GameSessionUpdates
<1>2. session_link_lost(st, t) \in GameKnown(K)
    BY <1>1, LinkLostType DEF GameKnown
<1>3. PICK lost : lost = session_link_lost(st, t)
    OBVIOUS
<1>4. \A a : remove_by_token(lost, t, a) \in GameKnown(K)
    BY <1>2, <1>3, RemoveType DEF GameKnown
<1>. QED
    BY <1>2, <1>3, <1>4

(* What a step of it leaves, and posts                                     *)
TidingsOf(K) ==
    {ev \in AuthEvent :
       /\ ev.type \in {"ClientConnectedMessage", "ClientDisconnectedMessage",
                       "ExpectClientResponse"}
       /\ ev.type = "ClientDisconnectedMessage" => ev.token \in K}

TellsKnown(K) ==
    \/ authq' = authq
    \/ \E ev \in TidingsOf(K) : authq' = Append(authq, ev)

KnownOutcome(K) == game' \in GameKnown(K) /\ TellsKnown(K)

LEMMA OnExpectClientKnown ==
    ASSUME GameTypeOK, authq \in Seq(AuthEvent), NEW K \in SUBSET Held, game \in GameKnown(K),
           Head(gameq).token \in K, OnExpectClient
    PROVE  KnownOutcome(K)
<1>1. PICK ev : ev = Head(gameq)
    OBVIOUS
<1>2. ev.account \in Accounts \union {NoAccount} /\ ev.from \in Clients
    BY <1>1, GameHead, GameEventFields DEF OnExpectClient, HandlesGame
<1>3. PICK t \in K : t = ev.token
    BY <1>1
<1>4. PICK st : st = IF Holds(game, t) THEN unmark_session_for_reaping(game, t) ELSE game
    OBVIOUS
<1>5. st \in GameKnown(K)
    BY <1>4, KnownFields
<1>6. PICK s : s = [GameSession EXCEPT !.auth_id = ev.account]
    OBVIOUS
<1>7. s \in GameSessions
    BY <1>2, <1>6 DEF GameSession, GameSessions
<1>8. PICK mine : mine = WithSession(st, t, s)
    OBVIOUS
<1>9. mine \in GameKnown(K)
    BY <1>5, <1>7, <1>8, WithSessionType DEF GameKnown
<1>10. game' = expect_client_session(mine, ev.from, t)
    BY <1>1, <1>3, <1>4, <1>6, <1>8 DEF OnExpectClient
<1>11. game' \in GameKnown(K)
    BY <1>2, <1>9, <1>10, ExpectType DEF GameKnown
<1>12. PICK answer : answer = [type |-> "ExpectClientResponse", token |-> t]
    OBVIOUS
<1>13. authq' = Append(authq, answer) /\ answer \in TidingsOf(K)
    <2>1. answer \in AuthEvent /\ answer.type = "ExpectClientResponse"
        BY <1>12, AuthEvents
    <2>. QED
        BY <1>1, <1>3, <1>12, <2>1 DEF OnExpectClient, TellAuth, TidingsOf
<1>. QED
    BY <1>11, <1>13 DEF KnownOutcome, TellsKnown

LEMMA OnUpdateServerKnown ==
    ASSUME GameTypeOK, NEW K \in SUBSET Held, game \in GameKnown(K), OnUpdateServer
    PROVE  KnownOutcome(K)
<1>1. PICK c : c = Head(gameq).link
    OBVIOUS
<1>2. c \in Clients
    BY <1>1, QueueOps, GameEventFields DEF OnUpdateServer, HandlesGame, GameTypeOK
<1>3. CASE UNCHANGED <<game, authq>>
    BY <1>3 DEF KnownOutcome, TellsKnown
<1>4. ASSUME NEW t \in Expected(game, c), Holds(game, t),
             game' = mark_session_for_reaping(
                        [connected_client(game, c) EXCEPT
                            !.sessions[t] = [@ EXCEPT !.link = c, !.to_map = FALSE]],
                        t, t),
             UNCHANGED authq
      PROVE  KnownOutcome(K)
    <2>1. PICK st : st = connected_client(game, c)
        OBVIOUS
    <2>2. st \in GameKnown(K) /\ st.sessions = game.sessions
        BY <2>1, ConnectedType DEF GameKnown
    <2>3. t \in DOMAIN st.sessions /\ t \in K /\ st.sessions[t] \in GameSessions
        BY <1>4, <2>2, KnownFields
    <2>4. PICK s : s = [st.sessions[t] EXCEPT !.link = c, !.to_map = FALSE]
        OBVIOUS
    <2>5. s \in GameSessions
        BY <1>2, <2>3, <2>4, GameSessionUpdates
    <2>6. PICK mine : mine = Amend(st, t, s)
        OBVIOUS
    <2>7. mine \in GameKnown(K)
        BY <2>2, <2>3, <2>5, <2>6, KnownFields
    <2>8. game' = mark_session_for_reaping(mine, t, t)
        BY <1>4, <2>1, <2>4, <2>6 DEF Amend
    <2>. QED
        BY <1>4, <2>3, <2>7, <2>8, KnownFields DEF KnownOutcome, TellsKnown
<1>. QED
    BY <1>1, <1>3, <1>4 DEF OnUpdateServer, StopGame, gameOnly

LEMMA OnAccountDataKnown ==
    ASSUME NEW K \in SUBSET Held, game \in GameKnown(K), OnAccountData
    PROVE  KnownOutcome(K)
<1>1. PICK t : t = Head(gameq).token
    OBVIOUS
<1>2. CASE UNCHANGED <<game, authq>>
    BY <1>2 DEF KnownOutcome, TellsKnown
<1>3. CASE /\ Holds(game, t)
           /\ game' = add_to_active_sessions(
                         [unmark_session_for_reaping(game, t) EXCEPT
                             !.sessions[t].has_account = TRUE], t)
           /\ TellAuth("ClientConnectedMessage", t)
    <2>1. PICK st : st = unmark_session_for_reaping(game, t)
        OBVIOUS
    <2>2. st \in GameKnown(K) /\ st.sessions = game.sessions
        BY <2>1, KnownFields
    <2>3. t \in DOMAIN st.sessions /\ t \in K /\ st.sessions[t] \in GameSessions
        BY <1>3, <2>2, KnownFields
    <2>4. PICK s : s = [st.sessions[t] EXCEPT !.has_account = TRUE]
        OBVIOUS
    <2>5. s \in GameSessions
        BY <2>3, <2>4, GameSessionUpdates
    <2>6. PICK mine : mine = Amend(st, t, s)
        OBVIOUS
    <2>7. mine \in GameKnown(K)
        BY <2>2, <2>3, <2>5, <2>6, KnownFields
    <2>8. game' = add_to_active_sessions(mine, t)
        BY <1>3, <2>1, <2>4, <2>6 DEF Amend
    <2>9. authq' = Append(authq, Arrived(t)) /\ Arrived(t) \in TidingsOf(K)
        <3>1. Arrived(t) \in AuthEvent /\ Arrived(t).type = "ClientConnectedMessage"
            BY <2>3, AuthEvents DEF Arrived
        <3>. QED
            BY <1>3, <3>1 DEF TellAuth, Arrived, TidingsOf
    <2>. QED
        BY <2>3, <2>7, <2>8, <2>9, KnownFields DEF KnownOutcome, TellsKnown
<1>. QED
    BY <1>1, <1>2, <1>3 DEF OnAccountData, StopGame, gameOnly

LEMMA OnMapReqKnown ==
    ASSUME NEW K \in SUBSET Held, game \in GameKnown(K), OnMapReq
    PROVE  KnownOutcome(K)
<1>1. PICK t : t = glink[Head(gameq).link].token
    OBVIOUS
<1>2. CASE UNCHANGED <<game, authq>>
    BY <1>2 DEF KnownOutcome, TellsKnown
<1>3. CASE /\ Holds(game, t)
           /\ game' = [game EXCEPT !.sessions[t].to_map = TRUE]
           /\ UNCHANGED authq
    <2>1. t \in DOMAIN game.sessions /\ game.sessions[t] \in GameSessions
        BY <1>3, KnownFields
    <2>2. PICK s : s = [game.sessions[t] EXCEPT !.to_map = TRUE]
        OBVIOUS
    <2>3. s \in GameSessions
        BY <2>1, <2>2, GameSessionUpdates
    <2>4. game' = Amend(game, t, s)
        BY <1>3, <2>2 DEF Amend
    <2>5. game' \in GameKnown(K)
        BY <2>1, <2>3, <2>4, KnownFields
    <2>. QED
        BY <1>3, <2>5 DEF KnownOutcome, TellsKnown
<1>. QED
    BY <1>1, <1>2, <1>3 DEF OnMapReq, StopGame, gameOnly

LEMMA OnLeavingKnown ==
    ASSUME NEW K \in SUBSET Held, game \in GameKnown(K), OnLeaving
    PROVE  KnownOutcome(K)
<1>1. PICK t : t = glink[Head(gameq).link].token
    OBVIOUS
<1>2. CASE UNCHANGED <<game, authq>>
    BY <1>2 DEF KnownOutcome, TellsKnown
<1>3. CASE /\ Holds(game, t)
           /\ game' = session_link_lost(game, t)
           /\ UNCHANGED authq
    BY <1>3, KnownLost DEF KnownOutcome, TellsKnown
<1>4. CASE /\ Holds(game, t)
           /\ game' = session_link_lost(mark_session_for_reaping(game, t, t), t)
           /\ UNCHANGED authq
    <2>1. PICK st : st = mark_session_for_reaping(game, t, t)
        OBVIOUS
    <2>2. st \in GameKnown(K) /\ Holds(st, t)
        <3>1. t \in K
            BY <1>4, KnownFields
        <3>2. st \in GameKnown(K) /\ st.sessions = game.sessions
            BY <2>1, <3>1, KnownFields
        <3>. QED
            BY <1>4, <3>2 DEF Holds
    <2>3. game' = session_link_lost(st, t)
        BY <1>4, <2>1
    <2>. QED
        BY <1>4, <2>2, <2>3, KnownLost DEF KnownOutcome, TellsKnown
<1>5. CASE Holds(game, t) /\ ExitToLogin(t)
    <2>1. t \in K
        BY <1>5, KnownFields
    <2>2. PICK a : a = game.sessions[t].auth_id
        OBVIOUS
    <2>3. game' = remove_by_token(session_link_lost(game, t), t, a)
        BY <1>5, <2>2 DEF ExitToLogin
    <2>4. game' \in GameKnown(K)
        BY <1>5, <2>3, KnownLost
    <2>5. authq' = Append(authq, Left(t)) /\ Left(t) \in TidingsOf(K)
        <3>1. /\ Left(t) \in AuthEvent /\ Left(t).token = t
              /\ Left(t).type = "ClientDisconnectedMessage"
            BY <2>1, AuthEvents DEF Left
        <3>. QED
            BY <1>5, <2>1, <3>1 DEF ExitToLogin, TellAuth, Left, TidingsOf
    <2>. QED
        BY <2>1, <2>4, <2>5 DEF KnownOutcome, TellsKnown
<1>. QED
    BY <1>1, <1>2, <1>3, <1>4, <1>5 DEF OnLeaving, StopGame, gameOnly

LEMMA OnMapReportKnown ==
    ASSUME NEW K \in SUBSET Held, game \in GameKnown(K),
           OnConnectedToMap \/ OnDisconnectedFromMap
    PROVE  KnownOutcome(K)
<1>1. PICK t : t = Head(gameq).token
    OBVIOUS
<1>2. CASE UNCHANGED <<game, authq>>
    BY <1>2 DEF KnownOutcome, TellsKnown
<1>3. CASE /\ Holds(game, t)
           /\ game' = [unmark_session_for_reaping(game, t) EXCEPT !.sessions[t].on_map = TRUE]
           /\ UNCHANGED authq
    <2>1. PICK st : st = unmark_session_for_reaping(game, t)
        OBVIOUS
    <2>2. st \in GameKnown(K) /\ st.sessions = game.sessions
        BY <2>1, KnownFields
    <2>3. t \in DOMAIN st.sessions /\ st.sessions[t] \in GameSessions
        BY <1>3, <2>2, KnownFields
    <2>4. PICK s : s = [st.sessions[t] EXCEPT !.on_map = TRUE]
        OBVIOUS
    <2>5. s \in GameSessions
        BY <2>3, <2>4, GameSessionUpdates
    <2>6. game' = Amend(st, t, s)
        BY <1>3, <2>1, <2>4 DEF Amend
    <2>7. game' \in GameKnown(K)
        BY <2>2, <2>3, <2>5, <2>6, KnownFields
    <2>. QED
        BY <1>3, <2>7 DEF KnownOutcome, TellsKnown
<1>4. CASE /\ Holds(game, t)
           /\ game' = mark_session_for_reaping(
                         [game EXCEPT !.sessions[t].on_map = FALSE], t, t)
           /\ UNCHANGED authq
    <2>1. t \in DOMAIN game.sessions /\ t \in K /\ game.sessions[t] \in GameSessions
        BY <1>4, KnownFields
    <2>2. PICK s : s = [game.sessions[t] EXCEPT !.on_map = FALSE]
        OBVIOUS
    <2>3. s \in GameSessions
        BY <2>1, <2>2, GameSessionUpdates
    <2>4. PICK st : st = Amend(game, t, s)
        OBVIOUS
    <2>5. st \in GameKnown(K)
        BY <2>1, <2>3, <2>4, KnownFields
    <2>6. game' = mark_session_for_reaping(st, t, t)
        BY <1>4, <2>2, <2>4 DEF Amend
    <2>. QED
        BY <1>4, <2>1, <2>5, <2>6, KnownFields DEF KnownOutcome, TellsKnown
<1>. QED
    BY <1>1, <1>2, <1>3, <1>4 DEF OnConnectedToMap, OnDisconnectedFromMap, StopGame, gameOnly

LEMMA GameHandledKnown ==
    ASSUME GameTypeOK, authq \in Seq(AuthEvent), NEW K \in SUBSET Held, game \in GameKnown(K),
           Head(gameq).type = "ExpectClientRequest" => Head(gameq).token \in K,
           HandleGameEvent
    PROVE  KnownOutcome(K)
<1>1. CASE OnExpectClient
    BY <1>1, OnExpectClientKnown DEF OnExpectClient, HandlesGame
<1>2. CASE OnGameDbError \/ OnMapClientExpected
    BY <1>2 DEF OnGameDbError, OnMapClientExpected, StopGame, gameOnly, KnownOutcome, TellsKnown
<1>3. CASE \/ OnUpdateServer \/ OnAccountData \/ OnMapReq \/ OnLeaving
           \/ OnConnectedToMap \/ OnDisconnectedFromMap
    BY <1>3, OnUpdateServerKnown, OnAccountDataKnown, OnMapReqKnown, OnLeavingKnown,
       OnMapReportKnown
<1>. QED
    BY <1>1, <1>2, <1>3 DEF HandleGameEvent

(* A pass of its reaper tells of each session it had.                      *)
LEMMA ReapGameKnown ==
    ASSUME authq \in Seq(AuthEvent), NEW K \in SUBSET Held, game \in GameKnown(K),
           NEW stale, ReapGame(stale)
    PROVE  /\ game' \in GameKnown(K)
           /\ \E more \in Seq(TidingsOf(K)) : authq' = authq \o more
<1>1. PICK pass : pass = StaleLinks(game, stale)
    OBVIOUS
<1>2. CASE UNCHANGED <<game, authq>>
    <2>1. << >> \in Seq(TidingsOf(K)) /\ authq = authq \o << >>
        OBVIOUS
    <2>. QED
        BY <1>2, <2>1
<1>3. CASE /\ game' = AfterReaping(game, pass)
           /\ authq' = authq \o [i \in DOMAIN pass.reaped |->
                                   [type |-> "ClientDisconnectedMessage",
                                    token |-> pass.reaped[i].token]]
    <2>1. /\ pass.left \in Seq(WaitingSession(K, K))
          /\ pass.reaped \in Seq(WaitingSession(K, K))
        BY <1>1, StoreFields, PassEntries DEF GameKnown
    <2>2. game' \in GameKnown(K)
        BY <1>3, <2>1, AfterReapingType DEF GameKnown
    <2>3. PICK r : r = pass.reaped
        OBVIOUS
    <2>4. PICK m \in Nat : m = Len(r) /\ DOMAIN r = 1..m
        BY <2>1, <2>3
    <2>5. \A i \in 1..m : r[i].token \in K
        <3>1. \A i \in 1..m : r[i] \in WaitingSession(K, K)
            BY <2>1, <2>3, <2>4
        <3>. QED
            BY <3>1 DEF WaitingSession
    <2>6. PICK more : more = [i \in 1..m |-> Left(r[i].token)]
        OBVIOUS
    <2>7. \A t \in K : Left(t) \in TidingsOf(K)
        <3>1. SUFFICES ASSUME NEW t \in K
                       PROVE  Left(t) \in TidingsOf(K)
            OBVIOUS
        <3>2. /\ Left(t) \in AuthEvent /\ Left(t).token = t
              /\ Left(t).type = "ClientDisconnectedMessage"
            BY AuthEvents DEF Left
        <3>. QED
            BY <3>2 DEF TidingsOf
    <2>8. more \in Seq(TidingsOf(K))
        <3>1. more \in [1..m -> TidingsOf(K)]
            BY <2>5, <2>6, <2>7
        <3>. QED
            BY <3>1
    <2>9. authq' = authq \o more
        BY <1>3, <2>3, <2>4, <2>6 DEF Left
    <2>. QED
        BY <2>2, <2>8, <2>9
<1>. QED
    BY <1>1, <1>2, <1>3 DEF ReapGame

(* Its steps change nothing of the authentication handler's but the queue. *)
LEMMA ToldPresent ==
    ASSUME Here, NEW K, NEW more \in Seq(TidingsOf(K)), authq' = authq \o more,
           UNCHANGED authOnly
    PROVE  /\ Present(auth, alink, last_session_id, authq, authdb)'
           /\ K \subseteq Knowns(auth, last_session_id)
                 /\ authq \in Seq(Leavings(auth, last_session_id)) =>
              authq' \in Seq(Leavings(auth, last_session_id))
<1>1. authq \in Seq(AuthEvent) /\ UNCHANGED <<auth, alink, last_session_id, authdb>>
    BY DEF Here, AuthTypeOK, authOnly
<1>2. more \in Seq(AuthEvent)
    BY Elements DEF TidingsOf
<1>3. PICK len, m \in Nat : len = Len(authq) /\ m = Len(more)
    BY <1>1, <1>2
<1>4. PICK aq2 : aq2 = authq'
    OBVIOUS
<1>5. /\ Len(aq2) = len + m
      /\ \A i \in 1..len : aq2[i] = authq[i]
      /\ \A i \in (len + 1)..(len + m) : aq2[i] = more[i - len]
    BY <1>1, <1>2, <1>3, <1>4, Joined, Zenon
<1>6. Grows(authq, aq2, m)
    BY <1>3, <1>5 DEF Grows
<1>7. \A i \in (len + 1)..(len + m) : aq2[i] \in TidingsOf(K)
    <2>1. \A i \in (len + 1)..(len + m) : i - len \in 1..m
        OBVIOUS
    <2>2. \A i \in 1..m : more[i] \in TidingsOf(K)
        BY <1>3
    <2>. QED
        BY <1>5, <2>1, <2>2
<1>8. \A S : Some(authq, S) => Some(aq2, S)
    BY <1>1, <1>6, GrownSome
<1>9. ASSUME NEW S, \A ev \in TidingsOf(K) : ev \notin S, Some(aq2, S)
      PROVE  Some(authq, S)
    BY <1>1, <1>3, <1>6, <1>7, <1>9, GrownSome
<1>10. There(auth, alink, aq2)
    BY <1>8 DEF Here, Present, There
<1>11. ASSUME NEW c \in Clients
       PROVE  OneSession(auth, alink[c], aq2, c) /\ Stays(auth, alink[c], aq2, authdb, c)
    <2>1. \A ev \in TidingsOf(K) :
             /\ ev \notin Starts(alink[c], c) /\ ev \notin LoginsOf(alink[c], c)
             /\ ev \notin Logins(auth, alink[c], c)
        BY DEF TidingsOf, Starts, LoginsOf, Logins
    <2>2. /\ Some(aq2, Starts(alink[c], c)) => Some(authq, Starts(alink[c], c))
          /\ Some(aq2, LoginsOf(alink[c], c)) => Some(authq, LoginsOf(alink[c], c))
          /\ Some(aq2, Logins(auth, alink[c], c)) => Some(authq, Logins(auth, alink[c], c))
        BY <1>9, <2>1
    <2>. QED
        BY <2>2 DEF Here, Present, OneSession, Stays, Idle
<1>12. Present(auth, alink, last_session_id, aq2, authdb)
    BY <1>10, <1>11 DEF Here, Present
<1>13. ASSUME K \subseteq Knowns(auth, last_session_id),
              authq \in Seq(Leavings(auth, last_session_id))
       PROVE  aq2 \in Seq(Leavings(auth, last_session_id))
    <2>1. PICK L : L = Leavings(auth, last_session_id)
        OBVIOUS
    <2>2. TidingsOf(K) \subseteq L
        BY <1>13, <2>1 DEF TidingsOf, Leavings, Knowns
    <2>3. more \in Seq(L)
        BY <2>2, Elements
    <2>. QED
        BY <1>4, <1>13, <2>1, <2>3
<1>. QED
    BY <1>1, <1>4, <1>12, <1>13

-----------------------------------------------------------------------------
(* What is known of a session stays so                                     *)

Keeps(st, n, st2, n2) == \A u \in Held : Known(st, n, u) => Known(st2, n2, u)

LEMMA KnownStores ==
    ASSUME NEW K \in SUBSET Held, NEW K2 \in SUBSET Held, K \subseteq K2
    PROVE  GameKnown(K) \subseteq GameKnown(K2)
<1>1. UNION {[T -> GameSessions] : T \in SUBSET K}
         \subseteq UNION {[T -> GameSessions] : T \in SUBSET K2}
    OBVIOUS
<1>2. [Accounts -> K \union {NoToken}] \subseteq [Accounts -> K2 \union {NoToken}]
    OBVIOUS
<1>3. Seq(ExpectClientInfo(Clients, K)) \subseteq Seq(ExpectClientInfo(Clients, K2))
    <2>1. ExpectClientInfo(Clients, K) \subseteq ExpectClientInfo(Clients, K2)
        BY DEF ExpectClientInfo
    <2>. QED
        BY <2>1, Elements
<1>4. Seq(WaitingSession(K, K)) \subseteq Seq(WaitingSession(K2, K2))
    <2>1. WaitingSession(K, K) \subseteq WaitingSession(K2, K2)
        BY DEF WaitingSession
    <2>. QED
        BY <2>1, Elements
<1>5. SUFFICES ASSUME NEW st \in GameKnown(K)
               PROVE  st \in GameKnown(K2)
    OBVIOUS
<1>6. /\ st.sessions \in UNION {[T -> GameSessions] : T \in SUBSET K2}
      /\ st.id_to_token \in [Accounts -> K2 \union {NoToken}]
      /\ st.expecting \in Seq(ExpectClientInfo(Clients, K2))
      /\ st.waiting \in Seq(WaitingSession(K2, K2))
      /\ st.active \in SUBSET K2
    BY <1>1, <1>2, <1>3, <1>4, StoreFields DEF GameKnown
<1>7. st = [sessions |-> st.sessions, id_to_token |-> st.id_to_token,
            expecting |-> st.expecting, waiting |-> st.waiting, active |-> st.active]
    BY StoreFields DEF GameKnown
<1>. QED
    BY <1>6, <1>7 DEF GameKnown, Stores

LEMMA TracedOn ==
    ASSUME NEW st, NEW n, NEW gs, NEW aq, Traced(st, n, gs, aq),
           NEW st2, NEW n2, Keeps(st, n, st2, n2), NEW aq2 \in Seq(Leavings(st, n))
    PROVE  Traced(st2, n2, gs, aq2)
<1>1. Knowns(st, n) \subseteq Knowns(st2, n2)
    BY DEF Knowns, Keeps
<1>2. gs \in GameKnown(Knowns(st2, n2))
    <2>1. PICK K \in SUBSET Held : K = Knowns(st, n)
        BY DEF Knowns
    <2>2. PICK K2 \in SUBSET Held : K2 = Knowns(st2, n2)
        BY DEF Knowns
    <2>. QED
        BY <1>1, <2>1, <2>2, KnownStores DEF Traced
<1>3. Leavings(st, n) \subseteq Leavings(st2, n2)
    <2>1. SUFFICES ASSUME NEW ev \in Leavings(st, n), ev.type = "ClientDisconnectedMessage"
                   PROVE  Known(st2, n2, ev.token)
        BY DEF Leavings
    <2>2. ev.token \in Held
        BY <2>1, AuthEventFields DEF Leavings
    <2>. QED
        BY <2>1, <2>2 DEF Leavings, Keeps
<1>4. aq2 \in Seq(Leavings(st2, n2))
    BY <1>3, Elements
<1>. QED
    BY <1>2, <1>4 DEF Traced

LEMMA SameKeeps ==
    ASSUME UNCHANGED <<auth, last_session_id>>
    PROVE  Keeps(auth, last_session_id, auth', last_session_id')
BY DEF Keeps

LEMMA ShrunkKeeps ==
    ASSUME NEW st, NEW st2, NEW n, Shrinks(st, st2)
    PROVE  Keeps(st, n, st2, n)
BY ShrunkKnown DEF Keeps

LEMMA LoginTakenKeeps ==
    ASSUME Here, NEW c \in Clients, LoginTaken(c, last_session_id)
    PROVE  Keeps(auth, last_session_id, auth', last_session_id')
<1>3. PICK n : n = last_session_id
    OBVIOUS
<1>4. n \in Nat /\ n \in Held /\ last_session_id' = n + 1
    BY <1>3, HeldFacts DEF LoginTaken, Here, AuthTypeOK
<1>5. PICK s \in AuthSessions : s = AuthSession(c)
    BY DEF AuthSession, AuthSessions
<1>6. PICK st : st = WithSession(auth, n, s)
    OBVIOUS
<1>7. /\ st \in AuthStore
      /\ DOMAIN st.sessions = DOMAIN auth.sessions \union {n}
      /\ \A u \in DOMAIN auth.sessions \ {n} : st.sessions[u] = auth.sessions[u]
    BY <1>4, <1>6, HereFacts, WithSessionType DEF AuthStore
<1>8. PICK st2 : st2 = auth'
    OBVIOUS
<1>9. st2 = mark_session_for_reaping(st, n, n)
    BY <1>3, <1>5, <1>6, <1>8 DEF LoginTaken
<1>10. st2.sessions = st.sessions
    <2>1. n \in Token
        BY <1>4, HeldFacts
    <2>. QED
        BY <1>4, <1>7, <1>9, <2>1, MarkType DEF AuthStore
<1>11. ASSUME NEW u \in Held, Known(auth, n, u)
       PROVE  Known(st2, n + 1, u)
    <2>1. u \in Nat /\ u < n
        BY <1>11, HeldFacts DEF Known
    <2>2. u < n + 1 /\ u # n
        BY <1>4, <2>1
    <2>. QED
        BY <1>7, <1>10, <1>11, <2>2 DEF Known, Holds
<1>. QED
    BY <1>3, <1>4, <1>8, <1>11 DEF Keeps

LEMMA OnLoginKeeps ==
    ASSUME Here, OnLogin
    PROVE  Keeps(auth, last_session_id, auth', last_session_id')
<1>1. authq # << >> /\ Head(authq).type = "LoginRequest"
    BY LoginOutcome
<1>2. PICK c \in Clients : c = Head(authq).link
    BY <1>1, HeadFacts, AuthEventFields DEF Here
<1>3. CASE UNCHANGED <<auth, last_session_id>>
    BY <1>3, SameKeeps
<1>4. CASE LoginTaken(c, last_session_id)
    BY <1>4, LoginTakenKeeps
<1>. QED
    BY <1>2, <1>3, <1>4, LoginOutcome

LEMMA LoggedInKeeps ==
    ASSUME AuthTypeOK, IdsOK(auth), NEW st, SameSessions(auth, st),
           NEW temp \in DOMAIN auth.sessions, auth.sessions[temp].auth_id = NoAccount,
           NEW c \in Clients, NEW a \in Accounts, LoggedIn(st, temp, c, a), NEW n
    PROVE  Keeps(auth, n, auth', n)
<1>1. \E t \in DOMAIN auth.sessions : LoggedInStore(auth, auth', temp, t, c, a)
    BY LoggedInOutcome
<1>2. PICK t \in DOMAIN auth.sessions : LoggedInStore(auth, auth', temp, t, c, a)
    BY <1>1
<1>3. PICK st2 : st2 = auth'
    OBVIOUS
<1>4. /\ DOMAIN st2.sessions = DOMAIN auth.sessions
      /\ st2.sessions[t].auth_id = a
      /\ \A u \in DOMAIN auth.sessions \ {t, temp} : st2.sessions[u] = auth.sessions[u]
    BY <1>2, <1>3 DEF LoggedInStore
<1>5. a # NoAccount
    BY HandoverAssumption
<1>6. ASSUME NEW u \in Held, Known(auth, n, u)
      PROVE  Known(st2, n, u)
    <2>1. u # temp
        BY <1>6 DEF Known, Holds
    <2>. QED
        BY <1>4, <1>5, <1>6, <2>1 DEF Known, Holds
<1>. QED
    BY <1>3, <1>6 DEF Keeps

LEMMA OnRetrieveAccountResponseKeeps ==
    ASSUME Here, OnRetrieveAccountResponse
    PROVE  Keeps(auth, last_session_id, auth', last_session_id')
<1>0. AuthTypeOK /\ LoginOK
    BY DEF Here
<1>1. /\ authq # << >> /\ auth \in AuthStore
      /\ Head(authq).type = "RetrieveAccountResponse"
      /\ UNCHANGED last_session_id
    BY HereFacts DEF OnRetrieveAccountResponse, Handles, authOnly
<1>2. PICK temp \in Held : temp = Head(authq).token
    BY <1>0, <1>1, HeadFacts, AuthEventFields
<1>3. PICK a \in Accounts \union {NoAccount} : a = Head(authq).account
    BY <1>0, <1>1, HeadFacts, AuthEventFields
<1>4. PICK st : st = unmark_session_for_reaping(auth, temp)
    OBVIOUS
<1>5. SameSessions(auth, st)
    BY <1>0, <1>1, <1>4, UnmarkOne DEF LoginOK, Sound
<1>6. PICK c : c = auth.sessions[temp].link
    OBVIOUS
<1>7. PICK n : n = last_session_id
    OBVIOUS
<1>8. CASE UNCHANGED authOnly
    BY <1>8, SameKeeps DEF authOnly
<1>9. CASE auth' = mark_session_for_reaping(st, temp, temp)
    <2>1. SameSessions(st, auth')
        BY <1>2, <1>5, <1>9, MarkOne DEF SameSessions
    <2>2. SameSessions(auth, auth')
        BY <1>5, <2>1 DEF SameSessions
    <2>3. Shrinks(auth, auth')
        BY <2>2, SameShrinks
    <2>. QED
        BY <1>1, <2>3, ShrunkKeeps
<1>10. CASE /\ Holds(auth, temp) /\ a # NoAccount
            /\ LoggedIn(st, temp, c, a)
    <2>1. temp \in DOMAIN auth.sessions /\ a \in Accounts /\ NoAccount \notin Accounts
        BY <1>3, <1>10, HandoverAssumption DEF Holds
    <2>2. Temporary(auth, n, temp)
        BY <1>0, <1>1, <1>2, <1>7, HeadFacts DEF AuthGood
    <2>3. auth.sessions[temp] \in AuthSessions
        BY <1>1, <2>1, StoreFields DEF AuthStore
    <2>4. auth.sessions[temp].auth_id = NoAccount /\ c \in Clients
        BY <1>6, <1>10, <2>2, <2>3 DEF Temporary, AuthSessions
    <2>5. IdsOK(auth)
        BY <1>0 DEF LoginOK, Sound
    <2>6. /\ temp \in DOMAIN auth.sessions
          /\ auth.sessions[temp].auth_id = NoAccount
          /\ c \in Clients /\ a \in Accounts
        BY <2>1, <2>4
    <2>7. LoggedIn(st, temp, c, a)
        BY <1>10
    <2>8. AuthTypeOK
        BY <1>0
    <2>9. Keeps(auth, n, auth', n)
        BY <1>5, <2>5, <2>6, <2>7, <2>8, LoggedInKeeps
    <2>. QED
        BY <1>1, <1>7, <2>9
<1>. QED
    BY <1>2, <1>3, <1>4, <1>6, <1>8, <1>9, <1>10 DEF OnRetrieveAccountResponse

LEMMA AuthStepKeeps ==
    ASSUME Here, HandleAuthEvent
    PROVE  Keeps(auth, last_session_id, auth', last_session_id')
<1>0. AuthTypeOK /\ LoginOK
    BY DEF Here
<1>1. CASE OnLogin
    BY <1>1, OnLoginKeeps
<1>2. CASE OnRetrieveAccountResponse
    BY <1>2, OnRetrieveAccountResponseKeeps
<1>3. CASE OnServerSelected
    BY <1>3, SameKeeps DEF OnServerSelected, Stop, authOnly
<1>4. CASE \/ OnConnect \/ OnDisconnect \/ OnDbError \/ OnServerListRequest \/ OnClientExpected
           \/ OnClientConnectedToOtherServer \/ OnClientDisconnectedFromOtherServer
    <2>1. Quiet
        BY <1>0, <1>4, OnConnectLogin, OnDisconnectLogin, OnDbErrorLogin,
           OnServerListRequestLogin, OnClientExpectedLogin, OnClientConnectedLogin,
           OnClientDisconnectedLogin
    <2>. QED
        BY <2>1, ShrunkKeeps DEF Quiet
<1>. QED
    BY <1>1, <1>2, <1>3, <1>4 DEF HandleAuthEvent

LEMMA ReapAuthKeeps ==
    ASSUME Here, NEW stale, ReapAuth(stale)
    PROVE  Keeps(auth, last_session_id, auth', last_session_id')
<1>1. PICK pass : pass = StaleLinks(auth, stale)
    OBVIOUS
<1>2. UNCHANGED last_session_id
    BY DEF ReapAuth
<1>3. CASE UNCHANGED auth
    BY <1>2, <1>3, SameKeeps
<1>4. CASE auth' = AfterReaping(auth, pass)
    <2>1. Shrinks(auth, auth')
        BY <1>4, HereFacts, AfterReapingFields DEF Shrinks
    <2>. QED
        BY <1>2, <2>1, ShrunkKeeps
<1>. QED
    BY <1>1, <1>3, <1>4 DEF ReapAuth

-----------------------------------------------------------------------------
(* The steps                                                               *)

Tracing == Traced(auth, last_session_id, game, authq)

(* A step of the authentication handler's, its links' or its database's    *)
LEMMA AuthTraced ==
    ASSUME Tracing, UNCHANGED game, Keeps(auth, last_session_id, auth', last_session_id'),
           authq' \in Seq(Leavings(auth, last_session_id))
    PROVE  Tracing'
<1>1. PICK st2, n2, aq2 : st2 = auth' /\ n2 = last_session_id' /\ aq2 = authq'
    OBVIOUS
<1>2. Traced(st2, n2, game, aq2)
    BY <1>1, TracedOn DEF Tracing
<1>. QED
    BY <1>1, <1>2 DEF Tracing

LEMMA PostedTraced ==
    ASSUME Tracing, UNCHANGED <<game, auth, last_session_id>>,
           NEW ev \in AuthEvent, ev.type # "ClientDisconnectedMessage",
           authq' = Append(authq, ev) \/ authq' = Urgently(authq, ev)
    PROVE  Tracing'
<1>1. PICK L : L = Leavings(auth, last_session_id)
    OBVIOUS
<1>2. ev \in L /\ authq \in Seq(L)
    BY <1>1 DEF Tracing, Traced, Leavings
<1>3. Append(authq, ev) \in Seq(L)
    BY <1>2, QueueOps
<1>4. Urgently(authq, ev) \in Seq(L)
    BY <1>2, UrgentlyInserts
<1>5. authq' \in Seq(L)
    BY <1>3, <1>4
<1>. QED
    BY <1>1, <1>5, SameKeeps, AuthTraced

LEMMA AuthStepTraced ==
    ASSUME Here, Tracing, UNCHANGED game, HandleAuthEvent
    PROVE  Tracing'
<1>1. authq # << >> /\ authq' = Tail(authq)
    BY DEF HandleAuthEvent, OnConnect, OnDisconnect, OnLogin, OnRetrieveAccountResponse,
           OnDbError, OnServerListRequest, OnServerSelected, OnClientExpected,
           OnClientConnectedToOtherServer, OnClientDisconnectedFromOtherServer, Handles
<1>2. authq' \in Seq(Leavings(auth, last_session_id))
    BY <1>1, QueueOps DEF Tracing, Traced
<1>. QED
    BY <1>2, AuthStepKeeps, AuthTraced

LEMMA LinkTraced ==
    ASSUME Here, Tracing, UNCHANGED game, NEW c \in Clients,
           LinkOpen(c) \/ Inputs(c) \/ LinkClose(c) \/ LinkFinish(c)
    PROVE  Tracing'
<1>1. UNCHANGED <<auth, last_session_id>>
    BY DEF LinkOpen, Inputs, ClientInput, LinkInput, LinkClose, LinkFinish
<1>2. CASE LinkOpen(c)
    <2>1. PICK ev \in AuthEvent : ev = [type |-> "Connect", link |-> c]
        BY AuthEvents
    <2>. QED
        BY <1>1, <1>2, <2>1, PostedTraced DEF LinkOpen
<1>3. CASE Inputs(c)
    <2>1. PICK type \in {"LoginRequest", "ServerListRequest", "ServerSelectRequest"} :
             authq' = Append(authq, [type |-> type, link |-> c])
        BY <1>3 DEF Inputs, ClientInput, LinkInput, Requested
    <2>2. PICK ev \in AuthEvent : ev = [type |-> type, link |-> c]
        BY AuthEvents
    <2>3. authq' = Append(authq, ev)
        BY <2>1, <2>2
    <2>. QED
        BY <1>1, <2>1, <2>2, <2>3, PostedTraced
<1>4. CASE LinkClose(c) \/ LinkFinish(c)
    <2>1. alink[c].token \in Token
        BY DEF Here, AuthTypeOK, AuthLinks
    <2>2. PICK ev \in AuthEvent : ev = [type |-> "Disconnect", token |-> alink[c].token]
        BY <2>1, AuthEvents
    <2>3. authq' = Urgently(authq, ev)
        BY <1>4, <2>2 DEF LinkClose, LinkFinish, Disconnected
    <2>. QED
        BY <1>1, <2>2, <2>3, PostedTraced
<1>. QED
    BY <1>2, <1>3, <1>4

LEMMA AuthDbTraced ==
    ASSUME Here, Tracing, UNCHANGED game, RetrieveAccount \/ AuthDbFails
    PROVE  Tracing'
<1>1. /\ authdb # << >> /\ authdb \in Seq(Held)
      /\ UNCHANGED <<auth, last_session_id>>
    BY DEF RetrieveAccount, AuthDbFails, Here, AuthTypeOK
<1>2. PICK t \in Held : t = Head(authdb)
    BY <1>1, QueueOps
<1>3. CASE RetrieveAccount
    <2>1. PICK a \in Accounts \union {NoAccount} :
             authq' = Append(authq, [type |-> "RetrieveAccountResponse",
                                     token |-> t, account |-> a])
        BY <1>2, <1>3 DEF RetrieveAccount
    <2>2. PICK ev \in AuthEvent : ev = [type |-> "RetrieveAccountResponse",
                                        token |-> t, account |-> a]
        BY AuthEvents
    <2>. QED
        BY <1>1, <2>1, <2>2, PostedTraced
<1>4. CASE AuthDbFails
    <2>1. PICK ev \in AuthEvent : ev = [type |-> "AuthDbStatusMessage", token |-> t]
        BY AuthEvents
    <2>. QED
        BY <1>1, <1>2, <1>4, <2>1, PostedTraced DEF AuthDbFails
<1>. QED
    BY <1>3, <1>4

LEMMA ReapAuthTraced ==
    ASSUME Here, Tracing, UNCHANGED game, NEW stale, ReapAuth(stale)
    PROVE  Tracing'
<1>1. authq' \in Seq(Leavings(auth, last_session_id))
    BY DEF ReapAuth, Tracing, Traced
<1>. QED
    BY <1>1, ReapAuthKeeps, AuthTraced

(* The game handler's, and its reaper's                                    *)
LEMMA KnownPresent ==
    ASSUME Here, Tracing, UNCHANGED authOnly,
           NEW K \in SUBSET Held, K = Knowns(auth, last_session_id), game' \in GameKnown(K),
           \E more \in Seq(TidingsOf(K)) : authq' = authq \o more
    PROVE  Present(auth, alink, last_session_id, authq, authdb)' /\ Tracing'
<1>1. PICK more \in Seq(TidingsOf(K)) : authq' = authq \o more
    OBVIOUS
<1>2. authq \in Seq(Leavings(auth, last_session_id)) /\ UNCHANGED <<auth, last_session_id>>
    BY DEF Tracing, Traced, authOnly
<1>3. /\ Present(auth, alink, last_session_id, authq, authdb)'
      /\ authq' \in Seq(Leavings(auth, last_session_id))
    BY <1>1, <1>2, ToldPresent
<1>4. Tracing'
    BY <1>2, <1>3 DEF Tracing, Traced
<1>. QED
    BY <1>3, <1>4

LEMMA GameStepPresent ==
    ASSUME Here, Tracing, GameTypeOK, UNCHANGED authOnly, HandleGameEvent
    PROVE  Present(auth, alink, last_session_id, authq, authdb)' /\ Tracing'
<1>1. PICK K \in SUBSET Held : K = Knowns(auth, last_session_id)
    BY DEF Knowns
<1>2. game \in GameKnown(K) /\ authq \in Seq(Leavings(auth, last_session_id))
    BY <1>1 DEF Tracing, Traced
<1>3. gameq # << >>
    BY DEF HandleGameEvent, OnExpectClient, OnUpdateServer, OnAccountData, OnGameDbError,
           OnMapReq, OnMapClientExpected, OnLeaving, OnConnectedToMap,
           OnDisconnectedFromMap, HandlesGame
<1>4. Head(gameq) \in GameGood(auth, last_session_id)
    BY <1>3, QueuesFacts, QueueOps DEF Here, LoginOK
<1>5. ASSUME Head(gameq).type = "ExpectClientRequest"
      PROVE  Head(gameq).token \in K
    <2>1. Head(gameq).token \in Held
        BY <1>4, <1>5, GameEventFields DEF GameGood
    <2>. QED
        BY <1>1, <1>4, <1>5, <2>1 DEF GameGood, Knowns
<1>6. authq \in Seq(AuthEvent)
    BY DEF Here, AuthTypeOK
<1>7. KnownOutcome(K)
    BY <1>2, <1>5, <1>6, GameHandledKnown
<1>8. \E more \in Seq(TidingsOf(K)) : authq' = authq \o more
    <2>1. CASE authq' = authq
        <3>1. << >> \in Seq(TidingsOf(K)) /\ authq \o << >> = authq
            BY <1>6
        <3>. QED
            BY <2>1, <3>1
    <2>2. ASSUME NEW ev \in TidingsOf(K), authq' = Append(authq, ev)
          PROVE  \E more \in Seq(TidingsOf(K)) : authq' = authq \o more
        <3>1. <<ev>> \in Seq(TidingsOf(K)) /\ authq \o <<ev>> = Append(authq, ev)
            BY <1>6
        <3>. QED
            BY <2>2, <3>1
    <2>. QED
        BY <1>7, <2>1, <2>2 DEF KnownOutcome, TellsKnown
<1>. QED
    BY <1>1, <1>2, <1>7, <1>8, KnownPresent DEF KnownOutcome

LEMMA ReapGamePresent ==
    ASSUME Here, Tracing, UNCHANGED authOnly, NEW stale, ReapGame(stale)
    PROVE  Present(auth, alink, last_session_id, authq, authdb)' /\ Tracing'
<1>1. PICK K \in SUBSET Held : K = Knowns(auth, last_session_id)
    BY DEF Knowns
<1>2. game \in GameKnown(K)
    BY <1>1 DEF Tracing, Traced
<1>3. authq \in Seq(AuthEvent)
    BY DEF Here, AuthTypeOK
<1>4. /\ game' \in GameKnown(K)
      /\ \E more \in Seq(TidingsOf(K)) : authq' = authq \o more
    BY <1>2, <1>3, ReapGameKnown
<1>. QED
    BY <1>1, <1>4, KnownPresent

(* The clients', the databases' and the map server's                       *)
LEMMA SamePresent ==
    ASSUME Here, Tracing, UNCHANGED <<authOnly, authq, game>>
    PROVE  Present(auth, alink, last_session_id, authq, authdb)' /\ Tracing'
BY DEF Here, Tracing, authOnly

LEMMA StepPresent ==
    ASSUME Faults \cap {"early", "retry"} = {}, PresentInv, [Next]_vars
    PROVE  PresentInv'
<1>1. LoginInv' /\ TypeOK /\ AuthTypeOK /\ GameTypeOK
    BY StepLogin DEF PresentInv, LoginInv, TypeOK
<1>2. Here /\ Tracing
    BY <1>1 DEF PresentInv, LoginInv, LoginOK, Here, Tracing
<1>3. SUFFICES Present(auth, alink, last_session_id, authq, authdb)' /\ Tracing'
    BY <1>1 DEF PresentInv, Tracing
<1>4. CASE AuthStep
    <2>1. HandleAuthEvent /\ UNCHANGED game
        BY <1>4 DEF AuthStep, gameOnly
    <2>2. authq \in Seq(Leavings(auth, last_session_id))
        BY <1>2 DEF Tracing, Traced
    <2>. QED
        BY <1>2, <2>1, <2>2, AuthStepPresent, AuthStepTraced
<1>5. CASE GameStep
    BY <1>1, <1>2, <1>5, GameStepPresent DEF GameStep
<1>6. CASE AuthDbStep
    <2>1. (RetrieveAccount \/ AuthDbFails) /\ UNCHANGED game
        BY <1>6 DEF AuthDbStep, gameOnly
    <2>. QED
        BY <1>2, <2>1, AuthDbPresent, AuthDbTraced
<1>7. CASE GameDbStep \/ \E t \in 1..MaxSessions : MapStep(t)
    <2>1. UNCHANGED <<authOnly, authq, game>>
        BY <1>7 DEF GameDbStep, MapStep, GameAccount, GameDbFails, MapExpects, MapLeft
    <2>. QED
        BY <1>2, <2>1, SamePresent
<1>8. CASE \E stale \in 1..LastMark(auth) : AuthReaper(stale)
    <2>1. PICK stale : ReapAuth(stale) /\ UNCHANGED game
        BY <1>8 DEF AuthReaper, gameOnly
    <2>. QED
        BY <1>2, <2>1, ReapAuthPresent, ReapAuthTraced
<1>9. CASE \E stale \in 1..LastMark(game) : GameReaper(stale)
    BY <1>2, <1>9, ReapGamePresent DEF GameReaper
<1>10. ASSUME NEW c \in Clients, ClientStep(c)
       PROVE  Present(auth, alink, last_session_id, authq, authdb)' /\ Tracing'
    <2>1. CASE Opens(c)
        <3>1. LinkOpen(c) /\ UNCHANGED game
            BY <2>1 DEF Opens, gameOnly
        <3>. QED
            BY <1>2, <3>1, LinkOpenPresent, LinkTraced
    <2>2. CASE Asks(c)
        <3>1. Inputs(c) /\ ~alink[c].refused /\ UNCHANGED game
            BY <2>2, AskedInput DEF Asks, May, gameOnly
        <3>. QED
            BY <1>2, <3>1, LinkInputPresent, LinkTraced DEF Inputs
    <2>3. CASE Closes(c) \/ Finishes(c)
        <3>1. ((LinkClose(c) /\ ~alink[c].asked) \/ LinkFinish(c)) /\ UNCHANGED game
            BY <2>3 DEF Closes, Finishes, May, gameOnly
        <3>. QED
            BY <1>2, <3>1, LinkClosePresent, LinkTraced
    <2>4. CASE EntersGame(c) \/ AsksForMap(c) \/ Leaves(c) \/ EntersMap(c) \/ GivesUp(c)
        <3>1. UNCHANGED <<authOnly, authq, game>>
            BY <2>4 DEF EntersGame, AsksForMap, Leaves, EntersMap, GivesUp, gameOnly,
                        SendUpdateServer, SendMapRequest, LeaveGame, MapEntered
        <3>. QED
            BY <1>2, <3>1, SamePresent
    <2>. QED
        BY <1>10, <2>1, <2>2, <2>3, <2>4 DEF ClientStep
<1>11. CASE UNCHANGED vars
    BY <1>2, <1>11, SamePresent DEF vars, gameOnly
<1>. QED
    BY <1>4, <1>5, <1>6, <1>7, <1>8, <1>9, <1>10, <1>11 DEF Next, ServerStep

LEMMA InitPresent ==
    ASSUME Init
    PROVE  PresentInv
<1>1. LoginInv
    BY InitLogin
<1>2. /\ auth = EmptyStore /\ game = EmptyStore
      /\ alink = [c \in Clients |-> NoLinkYet]
      /\ authq = << >> /\ authdb = << >> /\ last_session_id = 1
    BY DEF Init, AuthInit, GameInit
<1>3. DOMAIN EmptyStore.sessions = {} /\ EmptyStore.waiting = << >>
    BY DEF EmptyStore
<1>4. \A E : << >> \in Seq(E)
    OBVIOUS
<1>5. \A S : ~Some(<< >>, S)
    <2>1. 1..Len(<< >>) = {}
        OBVIOUS
    <2>. QED
        BY <2>1 DEF Some
<1>6. Present(auth, alink, last_session_id, authq, authdb)
    <2>1. There(auth, alink, authq)
        BY <1>2, <1>3 DEF There
    <2>2. ASSUME NEW c \in Clients
          PROVE  OneSession(auth, alink[c], authq, c) /\ Stays(auth, alink[c], authq, authdb, c)
        <3>1. Requests(auth, c) = {} /\ ~alink[c].finish
            BY <1>2, <1>3 DEF Requests, NoLinkYet
        <3>. QED
            BY <1>2, <1>5, <3>1 DEF OneSession, Stays, Idle
    <2>. QED
        BY <1>2, <1>3, <1>4, <2>1, <2>2 DEF Present
<1>7. Traced(auth, last_session_id, game, authq)
    <2>1. PICK K : K = Knowns(auth, last_session_id)
        OBVIOUS
    <2>2. << >> \in UNION {[T -> GameSessions] : T \in SUBSET K}
        <3>1. << >> \in [{} -> GameSessions] /\ {} \in SUBSET K
            OBVIOUS
        <3>. QED
            BY <3>1
    <2>3. [a \in Accounts |-> NoToken] \in [Accounts -> K \union {NoToken}]
        OBVIOUS
    <2>4. EmptyStore \in GameKnown(K)
        BY <1>4, <2>2, <2>3 DEF EmptyStore, GameKnown, Stores
    <2>. QED
        BY <1>2, <1>4, <2>1, <2>4 DEF Traced
<1>. QED
    BY <1>1, <1>6, <1>7 DEF PresentInv

LEMMA PresentIsThere ==
    ASSUME PresentInv
    PROVE  LoggedInIsThere
<1>1. There(auth, alink, authq) /\ authq \in Seq(AuthEvent)
    BY DEF PresentInv, Present, LoginInv, TypeOK, AuthTypeOK
<1>2. ASSUME NEW t, Some(authq, Ends(t))
      PROVE  [type |-> "Disconnect", token |-> t] \in ToSet(authq)
    <2>1. PICK i \in 1..Len(authq) : authq[i] \in Ends(t)
        BY <1>2 DEF Some
    <2>2. PICK ev \in AuthEvent : ev = authq[i] /\ ev.type = "Disconnect" /\ ev.token = t
        BY <2>1 DEF Ends
    <2>3. ev = [type |-> "Disconnect", token |-> t]
        BY <2>2 DEF AuthEvent
    <2>4. i \in DOMAIN authq
        BY <1>1, <2>1
    <2>. QED
        BY <2>2, <2>3, <2>4 DEF ToSet
<1>. QED
    BY <1>1, <1>2 DEF LoggedInIsThere, There

(* A session that is logged in has a link, and that link is open or its    *)
(* closing is already in the authentication handler's queue: OnDisconnect  *)
(* (AuthHandler.cpp:115) clears is_logged_in, and no other step parts the  *)
(* session from the link onRetrieveAccountResponse gave it.  Two kinds of  *)
(* client are left out, and only those: one that leaves before the answer  *)
(* to its login, whose Disconnect comes with no session and so ends none,  *)
(* and one that asks again on a link that was refused: the reaper of its   *)
(* first session finishes that link, which may be closed when the second   *)
(* answer comes.                                                           *)
THEOREM LoggedInSessionsAreThere ==
    ASSUME Faults \cap {"early", "retry"} = {}
    PROVE  Spec => []LoggedInIsThere
<1>1. Init => PresentInv
    BY InitPresent
<1>2. PresentInv /\ [Next]_vars => PresentInv'
    BY StepPresent
<1>3. PresentInv => LoggedInIsThere
    BY PresentIsThere
<1>. QED
    BY <1>1, <1>2, <1>3, PTL DEF Spec
=============================================================================
