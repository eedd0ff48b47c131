---------------------------- MODULE TeamProofs ----------------------------
(***************************************************************************)
(* What holds of the teams whatever the characters, the size of a team and *)
(* the manners of the players are: nobody is on two teams, every team is   *)
(* led by one of its members, nobody who shares one looks for one, no      *)
(* answer comes unexpected, and what the entities show follows the teams:  *)
(* what each handler of the team service tells the maps is what it did.    *)
(***************************************************************************)
EXTENDS Services, FiniteSetTheorems, TLAPS

TeamRecords == [leader : Characters, members : Seq(TeamMembers)]

(* Who is on a team, and who of them has answered                          *)
Who(t) == {t.members[i].who : i \in 1..Len(t.members)}

Settled(members, k) == {members[i].who : i \in {i \in 1..k : ~members[i].pending}}

In(t) == Settled(t.members, Len(t.members))

NamesSoFar(base, members, k, names) ==
    names \in Seq(Characters) /\ ToSet(names) = Settled(members, k)

NamesLoop == INSTANCE FoldProofs WITH Op <- AddName, Inv <- NamesSoFar

LEMMA Appended ==
    ASSUME NEW S, NEW s \in Seq(S), NEW x \in S
    PROVE  /\ Append(s, x) \in Seq(S)
           /\ ToSet(Append(s, x)) = ToSet(s) \union {x}
<1>1. /\ Append(s, x) \in Seq(S) /\ Len(Append(s, x)) = Len(s) + 1
      /\ \A i \in 1..Len(s) : Append(s, x)[i] = s[i]
      /\ Append(s, x)[Len(s) + 1] = x
  OBVIOUS
<1>2. PICK n \in Nat : n = Len(s)
  OBVIOUS
<1>3. DOMAIN s = 1..n /\ DOMAIN Append(s, x) = 1..(n + 1)
  BY <1>1, <1>2
<1>4. 1..(n + 1) = (1..n) \union {n + 1}
  OBVIOUS
<1> QED BY <1>1, <1>2, <1>3, <1>4 DEF ToSet

(* The names of a team are those of its members who have answered.         *)
LEMMA ConfirmedNames ==
    ASSUME NEW t, t.members \in Seq(TeamMembers)
    PROVE  Confirmed(t) \in Seq(Characters) /\ ToSet(Confirmed(t)) = In(t)
<1>1. PICK s \in Seq(TeamMembers) : s = t.members
  OBVIOUS
<1>2. PICK n \in Nat : n = Len(s) /\ DOMAIN s = 1..n
  OBVIOUS
<1>3. FoldLeft(AddName, << >>, s) = NamesLoop!Folded(<< >>, s, n)
  BY <1>2 DEF NamesLoop!Folded, NamesLoop!MapThenFoldSet, NamesLoop!Max, FoldLeft, MapThenFoldSet, Max
<1>4. NamesSoFar(<< >>, s, 0, << >>)
  BY DEF NamesSoFar, Settled, ToSet
<1>5. ASSUME NEW k \in 1..n, NEW r, NamesSoFar(<< >>, s, k - 1, r)
      PROVE  NamesSoFar(<< >>, s, k, AddName(r, s[k]))
  <2>1. s[k] \in TeamMembers
    BY <1>2
  <2>2. 1..k = (1..(k - 1)) \union {k}
    OBVIOUS
  <2>3. CASE s[k].pending
    <3>1. Settled(s, k) = Settled(s, k - 1)
      BY <2>2, <2>3 DEF Settled
    <3> QED BY <1>5, <2>3, <3>1 DEF NamesSoFar, AddName
  <2>4. CASE ~s[k].pending
    <3>1. Settled(s, k) = Settled(s, k - 1) \union {s[k].who}
      BY <2>2, <2>4 DEF Settled
    <3>2. s[k].who \in Characters
      BY <2>1 DEF TeamMembers
    <3>3. AddName(r, s[k]) = Append(r, s[k].who)
      BY <2>4 DEF AddName
    <3> QED BY <1>5, <3>1, <3>2, <3>3, Appended DEF NamesSoFar
  <2> QED BY <2>3, <2>4
<1>6. NamesSoFar(<< >>, s, n, NamesLoop!Folded(<< >>, s, n))
  BY <1>4, <1>5, NamesLoop!FoldInduction
<1>7. Confirmed(t) = FoldLeft(AddName, << >>, s)
  BY <1>1 DEF Confirmed
<1> QED BY <1>1, <1>2, <1>3, <1>6, <1>7 DEF NamesSoFar, In

-----------------------------------------------------------------------------
(* What the handler finds: the position of a team, or 0                    *)

LEMMA LastFound ==
    ASSUME NEW n \in Nat, NEW I, I \subseteq 1..n, I # {}
    PROVE  Max(I) \in I
BY NamesLoop!Greatest DEF NamesLoop!Max, Max

LEMMA FirstFound ==
    ASSUME NEW n \in Nat, NEW I, I \subseteq 1..n, I # {}
    PROVE  Min(I) \in I
<1>1. I \in SUBSET Nat
  OBVIOUS
<1>2. \E m \in I : \A k \in I : m <= k
  BY <1>1, NamesLoop!Least
<1> QED BY <1>2 DEF Min

LEMMA TeamFound ==
    ASSUME NEW h, h.teams \in Seq(TeamRecords), NEW c
    PROVE  /\ LastWith(h, c) # 0 => /\ LastWith(h, c) \in 1..Len(h.teams)
                                    /\ c \in Who(h.teams[LastWith(h, c)])
           /\ LastWith(h, c) = 0 => \A n \in 1..Len(h.teams) : c \notin Who(h.teams[n])
           /\ FirstWith(h, c) # 0 => /\ FirstWith(h, c) \in 1..Len(h.teams)
                                     /\ c \in Who(h.teams[FirstWith(h, c)])
           /\ FirstLedBy(h, c) # 0 => /\ FirstLedBy(h, c) \in 1..Len(h.teams)
                                      /\ h.teams[FirstLedBy(h, c)].leader = c
<1> DEFINE W == {i \in 1..Len(h.teams) : containsEntityID(h.teams[i], c)}
           L == {i \in 1..Len(h.teams) : h.teams[i].leader = c}
<1>0. PICK ts \in Seq(TeamRecords) : ts = h.teams
  OBVIOUS
<1>1. PICK n \in Nat : n = Len(h.teams)
  BY <1>0
<1>2. \A i \in 1..n : containsEntityID(h.teams[i], c) <=> c \in Who(h.teams[i])
  <2> SUFFICES ASSUME NEW i \in 1..n PROVE containsEntityID(h.teams[i], c) <=> c \in Who(h.teams[i])
    OBVIOUS
  <2>0. ts[i] \in TeamRecords
    BY <1>0, <1>1
  <2>1. h.teams[i].members \in Seq(TeamMembers)
    BY <1>0, <2>0 DEF TeamRecords
  <2>2. DOMAIN h.teams[i].members = 1..Len(h.teams[i].members)
    BY <2>1
  <2> QED BY <2>2 DEF containsEntityID, Who
<1>3. LastWith(h, c) = IF W # {} THEN Max(W) ELSE 0
  BY DEF LastWith, SelectLastInSeq
<1>4. FirstWith(h, c) = IF W # {} THEN Min(W) ELSE 0
  BY DEF FirstWith, SelectInSeq
<1>5. FirstLedBy(h, c) = IF L # {} THEN Min(L) ELSE 0
  BY DEF FirstLedBy, SelectInSeq
<1>6. W \subseteq 1..n /\ L \subseteq 1..n
  BY <1>1
<1>7. W # {} => LastWith(h, c) \in W /\ FirstWith(h, c) \in W
  <2> HIDE DEF W
  <2> QED BY <1>3, <1>4, <1>6, LastFound, FirstFound
<1>8. L # {} => FirstLedBy(h, c) \in L
  <2> HIDE DEF L
  <2> QED BY <1>5, <1>6, FirstFound
<1>9. (LastWith(h, c) # 0 \/ FirstWith(h, c) # 0 => W # {}) /\ (FirstLedBy(h, c) # 0 => L # {})
  BY <1>3, <1>4, <1>5
<1>10. LastWith(h, c) = 0 => W = {}
  BY <1>1, <1>7
<1> QED BY <1>1, <1>2, <1>7, <1>8, <1>9, <1>10

-----------------------------------------------------------------------------
(* One team: what adding, removing and accepting a member make of it       *)

Shaped(t) ==
    /\ t \in TeamRecords /\ Len(t.members) <= MaxTeam
    /\ \A i, j \in 1..Len(t.members) : t.members[i].who = t.members[j].who => i = j

GoodTeam(t) == Shaped(t) /\ Len(t.members) >= 2 /\ t.leader \in Who(t)

LEMMA CutOut ==
    ASSUME NEW S, NEW s \in Seq(S), NEW k \in 1..Len(s)
    PROVE  /\ RemoveAt(s, k) \in Seq(S) /\ Len(RemoveAt(s, k)) = Len(s) - 1
           /\ \A i \in 1..(Len(s) - 1) : RemoveAt(s, k)[i] = IF i < k THEN s[i] ELSE s[i + 1]
<1>0. PICK n \in Nat : n = Len(s)
  OBVIOUS
<1>1. PICK a : a = SubSeq(s, 1, k - 1)
  OBVIOUS
<1>2. PICK b : b = SubSeq(s, k + 1, n)
  OBVIOUS
<1>3. a \in Seq(S) /\ Len(a) = k - 1 /\ \A i \in 1..(k - 1) : a[i] = s[i]
  BY <1>0, <1>1
<1>4. b \in Seq(S) /\ Len(b) = n - k /\ \A i \in 1..(n - k) : b[i] = s[i + k]
  BY <1>0, <1>2
<1>5. PICK r : r = a \o b
  OBVIOUS
<1>6. r \in Seq(S) /\ Len(r) = n - 1
  BY <1>0, <1>3, <1>4, <1>5
<1>7. ASSUME NEW i \in 1..(n - 1) PROVE r[i] = IF i < k THEN s[i] ELSE s[i + 1]
  <2>1. CASE i < k
    <3>1. i \in 1..(k - 1)
      BY <1>0, <2>1
    <3> QED BY <1>0, <1>3, <1>4, <1>5, <2>1, <3>1
  <2>2. CASE ~(i < k)
    <3>1. i - (k - 1) \in 1..(n - k) /\ (i - (k - 1)) + k = i + 1
      BY <1>0, <2>2
    <3>2. r[i] = b[i - (k - 1)]
      BY <1>0, <1>3, <1>4, <1>5, <2>2, <3>1
    <3> QED BY <1>4, <2>2, <3>1, <3>2
  <2> QED BY <2>1, <2>2
<1>8. r = RemoveAt(s, k)
  BY <1>0, <1>1, <1>2, <1>5 DEF RemoveAt
<1> QED BY <1>0, <1>6, <1>7, <1>8

(* The one member named c is found and taken off.                          *)
WithoutMember(s, c) == RemoveFirstMatch(s, LAMBDA m : m.who = c)

LEMMA FirstMatch ==
    ASSUME NEW s \in Seq(TeamMembers), NEW n \in Nat, n = Len(s), NEW k \in 1..n, NEW c,
           s[k].who = c, \A i \in 1..n : s[i].who = c => i = k
    PROVE  WithoutMember(s, c) = RemoveAt(s, k)
<1> DEFINE I == {i \in 1..Len(s) : s[i].who = c}
<1>1. I = {k}
  OBVIOUS
<1>2. Min({k}) = k
  BY DEF Min
<1>3. SelectInSeq(s, LAMBDA m : m.who = c) = IF I # {} THEN Min(I) ELSE 0
  BY DEF SelectInSeq
<1>4. SelectInSeq(s, LAMBDA m : m.who = c) = k
  <2> HIDE DEF I
  <2>1. (IF I # {} THEN Min(I) ELSE 0) = k
    BY <1>1, <1>2
  <2> QED BY <1>3, <2>1
<1>5. \E i \in 1..Len(s) : s[i].who = c
  OBVIOUS
<1>6. WithoutMember(s, c)
      = IF \E i \in 1..Len(s) : s[i].who = c
        THEN RemoveAt(s, SelectInSeq(s, LAMBDA m : m.who = c)) ELSE s
  BY DEF RemoveFirstMatch, WithoutMember
<1> QED BY <1>4, <1>5, <1>6

LEMMA MemberRemoved ==
    ASSUME NEW t, Shaped(t), NEW c \in Who(t), NEW r, r = removeTeamMember(t, c)
    PROVE  /\ Shaped(r) /\ Len(r.members) = Len(t.members) - 1
           /\ Who(r) = Who(t) \ {c} /\ In(r) = In(t) \ {c}
           /\ Len(r.members) >= 2 /\ t.leader \in Who(t) => r.leader \in Who(r)
<1>1. PICK s \in Seq(TeamMembers) : s = t.members
  BY DEF Shaped, TeamRecords
<1>2. PICK n \in Nat : n = Len(s) /\ DOMAIN s = 1..n
  OBVIOUS
<1>3. PICK k \in 1..n : s[k].who = c
  BY <1>1, <1>2 DEF Who
<1>4. \A i, j \in 1..n : s[i].who = s[j].who => i = j
  BY <1>1, <1>2 DEF Shaped
<1>5. PICK rest : rest = RemoveAt(s, k)
  OBVIOUS
<1>6. /\ rest \in Seq(TeamMembers) /\ Len(rest) = n - 1
      /\ \A i \in 1..(n - 1) : rest[i] = IF i < k THEN s[i] ELSE s[i + 1]
  BY <1>2, <1>5, CutOut
<1>7. WithoutMember(s, c) = rest
  BY <1>2, <1>3, <1>4, <1>5, FirstMatch
<1>8. r = [leader  |-> IF c = t.leader /\ Len(rest) >= 2 THEN Head(rest).who ELSE t.leader,
           members |-> rest]
  BY <1>1, <1>7 DEF removeTeamMember, WithoutMember
<1>9. r.members = rest
  BY <1>8
<1> DEFINE old(i) == IF i < k THEN i ELSE i + 1
<1>10. \A i \in 1..(n - 1) : old(i) \in (1..n) \ {k} /\ rest[i] = s[old(i)]
  <2> SUFFICES ASSUME NEW i \in 1..(n - 1) PROVE old(i) \in (1..n) \ {k} /\ rest[i] = s[old(i)]
    OBVIOUS
  <2>1. rest[i] = IF i < k THEN s[i] ELSE s[i + 1]
    BY <1>6
  <2>2. old(i) \in (1..n) \ {k}
    OBVIOUS
  <2> QED BY <2>1, <2>2
<1>11. \A i, j \in 1..(n - 1) : old(i) = old(j) => i = j
  OBVIOUS
<1>12. \A i \in (1..n) \ {k} : \E j \in 1..(n - 1) : old(j) = i
  <2> SUFFICES ASSUME NEW i \in (1..n) \ {k} PROVE \E j \in 1..(n - 1) : old(j) = i
    OBVIOUS
  <2>1. CASE i < k
    <3>1. i \in 1..(n - 1) /\ old(i) = i
      BY <2>1
    <3> QED BY <3>1
  <2>2. CASE ~(i < k)
    <3>1. i - 1 \in 1..(n - 1) /\ old(i - 1) = i
      BY <2>2
    <3> QED BY <3>1
  <2> QED BY <2>1, <2>2
<1> HIDE DEF old
<1>13. \A i, j \in 1..(n - 1) : rest[i].who = rest[j].who => i = j
  BY <1>4, <1>10, <1>11
<1>14. Who(r) = {s[i].who : i \in (1..n) \ {k}}
  <2>1. Who(r) = {rest[i].who : i \in 1..(n - 1)}
    BY <1>6, <1>9 DEF Who
  <2>2. ASSUME NEW i \in 1..(n - 1) PROVE rest[i].who \in {s[j].who : j \in (1..n) \ {k}}
    BY <1>10
  <2>3. ASSUME NEW j \in (1..n) \ {k} PROVE s[j].who \in {rest[i].who : i \in 1..(n - 1)}
    <3>1. PICK i \in 1..(n - 1) : old(i) = j
      BY <1>12
    <3>2. rest[i] = s[j]
      BY <1>10, <3>1
    <3> QED BY <3>2
  <2> QED BY <2>1, <2>2, <2>3
<1>15. Who(r) = Who(t) \ {c}
  <2>1. Who(t) = {s[i].who : i \in 1..n}
    BY <1>1, <1>2 DEF Who
  <2> QED BY <1>3, <1>4, <1>14, <2>1
<1>16. In(r) = In(t) \ {c}
  <2>1. In(r) = {s[i].who : i \in {i \in (1..n) \ {k} : ~s[i].pending}}
    <3>1. In(r) = {rest[i].who : i \in {i \in 1..(n - 1) : ~rest[i].pending}}
      BY <1>6, <1>9 DEF In, Settled
    <3> QED BY <1>10, <1>12, <3>1
  <2>2. In(t) = {s[i].who : i \in {i \in 1..n : ~s[i].pending}}
    BY <1>1, <1>2 DEF In, Settled
  <2> QED BY <1>3, <1>4, <2>1, <2>2
<1>17. ASSUME Len(rest) >= 2 PROVE Head(rest).who \in Who(r) /\ Head(rest) \in TeamMembers
  <2>1. Head(rest) = rest[1] /\ 1 \in 1..(n - 1)
    BY <1>6, <1>17
  <2>2. rest[1] \in TeamMembers
    BY <1>6, <2>1
  <2> QED BY <1>6, <1>9, <2>1, <2>2 DEF Who
<1>18. t.leader \in Characters /\ r.leader \in Characters
  <2>1. t.leader \in Characters
    BY DEF Shaped, TeamRecords
  <2>2. CASE c = t.leader /\ Len(rest) >= 2
    BY <1>8, <1>17, <2>1, <2>2 DEF TeamMembers
  <2>3. CASE ~(c = t.leader /\ Len(rest) >= 2)
    BY <1>8, <2>1, <2>3
  <2> QED BY <2>1, <2>2, <2>3
<1>19. r \in TeamRecords
  BY <1>6, <1>8, <1>9, <1>18 DEF TeamRecords
<1>20. Len(r.members) <= MaxTeam
  BY <1>1, <1>2, <1>6, <1>9, TeamAssumption DEF Shaped
<1>21. Shaped(r)
  BY <1>6, <1>9, <1>13, <1>19, <1>20 DEF Shaped
<1>22. ASSUME Len(r.members) >= 2, t.leader \in Who(t) PROVE r.leader \in Who(r)
  <2>1. CASE c = t.leader
    BY <1>8, <1>9, <1>17, <1>22, <2>1
  <2>2. CASE c # t.leader
    BY <1>8, <1>15, <1>22, <2>2
  <2> QED BY <2>1, <2>2
<1> QED BY <1>1, <1>2, <1>6, <1>9, <1>15, <1>16, <1>21, <1>22

LEMMA MemberAccepted ==
    ASSUME NEW t, Shaped(t), NEW c, NEW r, r = acceptTeamInvite(t, c)
    PROVE  /\ Shaped(r) /\ Len(r.members) = Len(t.members)
           /\ Who(r) = Who(t) /\ r.leader = t.leader
<1>1. PICK s \in Seq(TeamMembers) : s = t.members
  BY DEF Shaped, TeamRecords
<1>2. PICK n \in Nat : n = Len(s) /\ DOMAIN s = 1..n
  OBVIOUS
<1>3. PICK ms : ms = [i \in 1..n |-> IF s[i].who = c THEN [s[i] EXCEPT !.pending = FALSE] ELSE s[i]]
  OBVIOUS
<1>4. ASSUME NEW i \in 1..n PROVE ms[i] \in TeamMembers /\ ms[i].who = s[i].who
  <2>1. s[i] \in TeamMembers
    BY <1>2
  <2> QED BY <1>3, <2>1 DEF TeamMembers
<1>5. ms \in Seq(TeamMembers) /\ Len(ms) = n
  <2>1. ms \in [1..n -> TeamMembers]
    BY <1>3, <1>4
  <2> QED BY <2>1
<1>6. t = [leader |-> t.leader, members |-> s] /\ t.leader \in Characters
  BY <1>1 DEF Shaped, TeamRecords
<1>7. r = [leader |-> t.leader, members |-> ms]
  BY <1>1, <1>2, <1>3, <1>6 DEF acceptTeamInvite
<1>8. r \in TeamRecords
  BY <1>5, <1>6, <1>7 DEF TeamRecords
<1> QED BY <1>1, <1>2, <1>4, <1>5, <1>7, <1>8 DEF Shaped, Who

WithInvitee(t, c) == addTeamMember(t, c, TRUE)

LEMMA MemberAdded ==
    ASSUME NEW t, Shaped(t), Len(t.members) < MaxTeam, NEW c \in Characters, c \notin Who(t),
           NEW r, r = WithInvitee(t, c)
    PROVE  /\ Shaped(r) /\ Len(r.members) = Len(t.members) + 1
           /\ Who(r) = Who(t) \union {c} /\ In(r) = In(t) /\ r.leader = t.leader
<1>1. PICK s \in Seq(TeamMembers) : s = t.members
  BY DEF Shaped, TeamRecords
<1>2. PICK n \in Nat : n = Len(s) /\ DOMAIN s = 1..n
  OBVIOUS
<1>3. PICK m \in TeamMembers : m = [who |-> c, pending |-> TRUE]
  BY DEF TeamMembers
<1>4. PICK ms : ms = Append(s, m)
  OBVIOUS
<1>5. /\ ms \in Seq(TeamMembers) /\ Len(ms) = n + 1
      /\ \A i \in 1..n : ms[i] = s[i]
  BY <1>2, <1>4
<1>6. t = [leader |-> t.leader, members |-> s] /\ t.leader \in Characters
  BY <1>1 DEF Shaped, TeamRecords
<1>7. ~isFull(t)
  BY <1>1, <1>2, TeamAssumption DEF isFull
<1>8. r = [leader |-> t.leader, members |-> ms]
  BY <1>1, <1>3, <1>4, <1>6, <1>7 DEF addTeamMember, WithInvitee
<1>9. r \in TeamRecords
  BY <1>5, <1>6, <1>8 DEF TeamRecords
<1>10. 1..(n + 1) = (1..n) \union {n + 1} /\ ms[n + 1] = m
  BY <1>2, <1>4
<1>11. Who(t) = {s[i].who : i \in 1..n} /\ Who(r) = {ms[i].who : i \in 1..(n + 1)}
  BY <1>1, <1>2, <1>5, <1>8 DEF Who
<1>12. Who(r) = Who(t) \union {c}
  BY <1>3, <1>5, <1>10, <1>11
<1>13. In(r) = In(t)
  <2>1. In(t) = {s[i].who : i \in {i \in 1..n : ~s[i].pending}}
    BY <1>1, <1>2 DEF In, Settled
  <2>2. In(r) = {ms[i].who : i \in {i \in 1..(n + 1) : ~ms[i].pending}}
    BY <1>5, <1>8 DEF In, Settled
  <2>3. {i \in 1..(n + 1) : ~ms[i].pending} = {i \in 1..n : ~s[i].pending}
    BY <1>3, <1>5, <1>10
  <2> QED BY <1>5, <2>1, <2>2, <2>3
<1>14. \A i, j \in 1..(n + 1) : ms[i].who = ms[j].who => i = j
  <2>1. \A i, j \in 1..n : s[i].who = s[j].who => i = j
    BY <1>1, <1>2 DEF Shaped
  <2>2. \A i \in 1..n : ms[i].who # c
    BY <1>5, <1>11
  <2>3. ms[n + 1].who = c
    BY <1>3, <1>10
  <2> QED BY <1>5, <1>10, <2>1, <2>2, <2>3
<1>15. Len(r.members) = n + 1 /\ n + 1 <= MaxTeam
  BY <1>1, <1>2, <1>5, <1>8, TeamAssumption
<1> QED BY <1>1, <1>2, <1>8, <1>9, <1>12, <1>13, <1>14, <1>15 DEF Shaped

(* A leader without a team, and whom they invite                           *)
Lead(l) == [leader |-> l, members |-> <<[who |-> l, pending |-> FALSE]>>]

LEMMA TeamOfTwo ==
    ASSUME NEW l \in Characters, NEW c \in Characters, l # c,
           NEW r, r = WithInvitee(Lead(l), c)
    PROVE  GoodTeam(r) /\ Who(r) = {l, c} /\ In(r) = {l}
<1>1. PICK t : t = Lead(l)
  OBVIOUS
<1>2. PICK m \in TeamMembers : m = [who |-> l, pending |-> FALSE]
  BY DEF TeamMembers
<1>3. t = [leader |-> l, members |-> <<m>>] /\ <<m>> \in Seq(TeamMembers) /\ Len(<<m>>) = 1 /\ <<m>>[1] = m
  BY <1>1, <1>2 DEF Lead
<1>4. t \in TeamRecords
  BY <1>3 DEF TeamRecords
<1>5. 1..1 = {1} /\ 1 < MaxTeam /\ MaxTeam \in Nat
  BY TeamAssumption
<1>6. Shaped(t)
  BY <1>3, <1>4, <1>5 DEF Shaped
<1>7. Who(t) = {l} /\ In(t) = {l}
  BY <1>2, <1>3, <1>5 DEF Who, In, Settled
<1>8. Len(t.members) = 1
  BY <1>3
<1>9. /\ Shaped(r) /\ Len(r.members) = 2
      /\ Who(r) = {l, c} /\ In(r) = {l} /\ r.leader = l
  <2>1. Len(t.members) < MaxTeam /\ c \notin Who(t) /\ r = WithInvitee(t, c)
    BY <1>1, <1>5, <1>7, <1>8
  <2>2. /\ Shaped(r) /\ Len(r.members) = Len(t.members) + 1
        /\ Who(r) = Who(t) \union {c} /\ In(r) = In(t) /\ r.leader = t.leader
    BY <1>6, <2>1, MemberAdded
  <2> QED BY <1>3, <1>7, <1>8, <2>2
<1> QED BY <1>9 DEF GoodTeam

-----------------------------------------------------------------------------
(* The list of teams                                                       *)

GoodTeams(ts) ==
    /\ ts \in Seq(TeamRecords)
    /\ \A n \in 1..Len(ts) : GoodTeam(ts[n])
    /\ \A m, n \in 1..Len(ts) : m # n => Who(ts[m]) \intersect Who(ts[n]) = {}

Free(t, seekers) == Cardinality(In(t)) > 1 => In(t) \intersect seekers = {}

AllFree(ts, seekers) == \A n \in 1..Len(ts) : Free(ts[n], seekers)

LEMMA FewerSeekers ==
    ASSUME NEW ts, NEW seekers, AllFree(ts, seekers), NEW fewer, fewer \subseteq seekers
    PROVE  AllFree(ts, fewer)
BY DEF AllFree, Free

LEMMA TeamReplaced ==
    ASSUME NEW ts, GoodTeams(ts), NEW seekers, AllFree(ts, seekers), NEW n \in 1..Len(ts),
           NEW t, GoodTeam(t), Free(t, seekers),
           \A m \in 1..Len(ts) : m # n => Who(t) \intersect Who(ts[m]) = {}
    PROVE  GoodTeams([ts EXCEPT ![n] = t]) /\ AllFree([ts EXCEPT ![n] = t], seekers)
<1>1. t \in TeamRecords /\ ts \in Seq(TeamRecords)
  BY DEF GoodTeam, Shaped, GoodTeams
<1>2. PICK k \in Nat : k = Len(ts) /\ DOMAIN ts = 1..k
  BY <1>1
<1>3. PICK us : us = [ts EXCEPT ![n] = t]
  OBVIOUS
<1>4. us \in Seq(TeamRecords) /\ Len(us) = k /\ us[n] = t /\ \A m \in 1..k : m # n => us[m] = ts[m]
  BY <1>1, <1>2, <1>3
<1>5. \A m \in 1..k : GoodTeam(us[m]) /\ Free(us[m], seekers)
  BY <1>2, <1>4 DEF GoodTeams, AllFree
<1>6. \A i, j \in 1..k : i # j => Who(us[i]) \intersect Who(us[j]) = {}
  BY <1>2, <1>4 DEF GoodTeams
<1> QED BY <1>3, <1>4, <1>5, <1>6 DEF GoodTeams, AllFree

LEMMA TeamDeleted ==
    ASSUME NEW ts, GoodTeams(ts), NEW seekers, AllFree(ts, seekers), NEW n \in 1..Len(ts)
    PROVE  GoodTeams(RemoveAt(ts, n)) /\ AllFree(RemoveAt(ts, n), seekers)
<1>1. ts \in Seq(TeamRecords)
  BY DEF GoodTeams
<1>2. PICK k \in Nat : k = Len(ts) /\ DOMAIN ts = 1..k
  BY <1>1
<1>3. PICK us : us = RemoveAt(ts, n)
  OBVIOUS
<1>4. us \in Seq(TeamRecords) /\ Len(us) = k - 1 /\ \A i \in 1..(k - 1) : us[i] = IF i < n THEN ts[i] ELSE ts[i + 1]
  BY <1>1, <1>2, <1>3, CutOut
<1> DEFINE old(i) == IF i < n THEN i ELSE i + 1
<1>5. \A i, j \in 1..(k - 1) : old(i) = old(j) => i = j
  BY <1>2
<1>6. \A i \in 1..(k - 1) : old(i) \in 1..k /\ us[i] = ts[old(i)]
  <2> SUFFICES ASSUME NEW i \in 1..(k - 1) PROVE old(i) \in 1..k /\ us[i] = ts[old(i)]
    OBVIOUS
  <2>1. us[i] = IF i < n THEN ts[i] ELSE ts[i + 1]
    BY <1>4
  <2>2. old(i) \in 1..k
    BY <1>2
  <2> QED BY <2>1, <2>2
<1> HIDE DEF old
<1>7. \A i \in 1..(k - 1) : GoodTeam(us[i]) /\ Free(us[i], seekers)
  BY <1>2, <1>6 DEF GoodTeams, AllFree
<1>8. \A i, j \in 1..(k - 1) : i # j => Who(us[i]) \intersect Who(us[j]) = {}
  <2> SUFFICES ASSUME NEW i \in 1..(k - 1), NEW j \in 1..(k - 1), i # j
               PROVE  Who(us[i]) \intersect Who(us[j]) = {}
    OBVIOUS
  <2>1. old(i) # old(j) /\ old(i) \in 1..Len(ts) /\ old(j) \in 1..Len(ts)
    BY <1>2, <1>5, <1>6
  <2>2. Who(ts[old(i)]) \intersect Who(ts[old(j)]) = {}
    BY <2>1 DEF GoodTeams
  <2> QED BY <1>6, <2>2
<1> QED BY <1>3, <1>4, <1>7, <1>8 DEF GoodTeams, AllFree

LEMMA TeamAdded ==
    ASSUME NEW ts, GoodTeams(ts), NEW seekers, AllFree(ts, seekers),
           NEW t, GoodTeam(t), Free(t, seekers),
           \A m \in 1..Len(ts) : Who(t) \intersect Who(ts[m]) = {}
    PROVE  GoodTeams(Append(ts, t)) /\ AllFree(Append(ts, t), seekers)
<1>1. t \in TeamRecords /\ ts \in Seq(TeamRecords)
  BY DEF GoodTeam, Shaped, GoodTeams
<1>2. PICK k \in Nat : k = Len(ts) /\ DOMAIN ts = 1..k
  BY <1>1
<1>3. PICK us : us = Append(ts, t)
  OBVIOUS
<1>4. /\ us \in Seq(TeamRecords) /\ Len(us) = k + 1 /\ us[k + 1] = t
      /\ \A m \in 1..k : us[m] = ts[m]
  BY <1>1, <1>2, <1>3
<1>5. 1..(k + 1) = (1..k) \union {k + 1}
  OBVIOUS
<1>6. \A m \in 1..(k + 1) : GoodTeam(us[m]) /\ Free(us[m], seekers)
  BY <1>2, <1>4, <1>5 DEF GoodTeams, AllFree
<1>7. \A i, j \in 1..(k + 1) : i # j => Who(us[i]) \intersect Who(us[j]) = {}
  BY <1>2, <1>4, <1>5 DEF GoodTeams
<1> QED BY <1>3, <1>4, <1>6, <1>7 DEF GoodTeams, AllFree

(* A team that changes stays, or is dissolved.                             *)
LEMMA TeamPut ==
    ASSUME NEW ts, GoodTeams(ts), NEW seekers, AllFree(ts, seekers), NEW n \in 1..Len(ts),
           NEW t, Shaped(t), Len(t.members) >= 2 => t.leader \in Who(t), Free(t, seekers),
           Who(t) \subseteq Who(ts[n]),
           NEW us, us = IF Disbanded(t) THEN RemoveAt(ts, n) ELSE ReplaceAt(ts, n, t)
    PROVE  GoodTeams(us) /\ AllFree(us, seekers)
<1>1. CASE Disbanded(t)
  BY <1>1, TeamDeleted
<1>2. CASE ~Disbanded(t)
  <2>1. Len(t.members) >= 2
    <3>1. Len(t.members) \in Nat
      BY DEF Shaped, TeamRecords
    <3> QED BY <1>2, <3>1 DEF Disbanded
  <2>2. GoodTeam(t)
    BY <2>1 DEF GoodTeam
  <2>3. \A m \in 1..Len(ts) : m # n => Who(t) \intersect Who(ts[m]) = {}
    BY DEF GoodTeams
  <2>4. us = [ts EXCEPT ![n] = t]
    BY <1>2 DEF ReplaceAt
  <2> QED BY <2>2, <2>3, <2>4, TeamReplaced
<1> QED BY <1>1, <1>2

-----------------------------------------------------------------------------
(* The handler's state                                                     *)

HandlerStates ==
    [teams : Seq(TeamRecords), known : SUBSET Characters, lfg : SUBSET Characters,
     pending : [Characters -> Seq(Invitations)], out : Seq(RouterMessages)]

GoodState(h) == h \in HandlerStates /\ GoodTeams(h.teams) /\ AllFree(h.teams, h.lfg)

LEMMA Forwarded ==
    ASSUME NEW h \in HandlerStates, NEW msg \in RouterMessages,
           NEW r, r = Forward(h, msg)
    PROVE  /\ r \in HandlerStates /\ r.teams = h.teams /\ r.lfg = h.lfg
           /\ r.known = h.known /\ r.pending = h.pending
<1>1. h.out \in Seq(RouterMessages)
  BY DEF HandlerStates
<1>2. PICK o \in Seq(RouterMessages) : o = Append(h.out, msg)
  <2>1. Append(h.out, msg) \in Seq(RouterMessages)
    BY <1>1
  <2> QED BY <2>1
<1>3. r = [h EXCEPT !.out = o]
  BY <1>2 DEF Forward
<1> HIDE DEF RouterMessages, TeamRecords, Invitations
<1> QED BY <1>3 DEF HandlerStates

LEMMA SettledFinite ==
    ASSUME NEW t, t.members \in Seq(TeamMembers)
    PROVE  IsFiniteSet(In(t))
<1>1. PICK s \in Seq(TeamMembers) : s = t.members
  OBVIOUS
<1>2. PICK n \in Nat : n = Len(s)
  OBVIOUS
<1>3. PICK I : I = {i \in 1..n : ~s[i].pending}
  OBVIOUS
<1>4. IsFiniteSet(I)
  <2>1. IsFiniteSet(1..n)
    BY FS_Interval
  <2> QED BY <1>3, <2>1, FS_Subset
<1>5. PICK f : f = [i \in I |-> s[i].who]
  OBVIOUS
<1>6. In(t) = {f[i] : i \in I}
  BY <1>1, <1>2, <1>3, <1>5 DEF In, Settled
<1>7. f \in Surjection(I, {f[i] : i \in I})
  BY <1>5 DEF Surjection
<1> QED BY <1>4, <1>6, <1>7, FS_Surjection

(* Telling the maps of a team takes its members off the list of those who  *)
(* look for one.                                                           *)
LEMMA Notified ==
    ASSUME NEW h \in HandlerStates, NEW t \in TeamRecords, NEW token \in Characters \union {NoLeader},
           NEW r, r = notify_team_of_changes(h, t, token)
    PROVE  /\ r \in HandlerStates /\ r.teams = h.teams /\ r.lfg = h.lfg \ In(t)
           /\ r.known = h.known /\ r.pending = h.pending
<1>1. t.members \in Seq(TeamMembers) /\ t.leader \in Characters
  BY DEF TeamRecords
<1>2. PICK names \in Seq(Characters) : names = Confirmed(t) /\ ToSet(names) = In(t)
  BY <1>1, ConfirmedNames
<1>3. PICK found \in Nat : found = Cardinality(ToSet(names) \intersect h.lfg)
  <2>1. IsFiniteSet(In(t))
    BY <1>1, SettledFinite
  <2>2. IsFiniteSet(In(t) \intersect h.lfg)
    BY <2>1, FS_Subset
  <2> QED BY <1>2, <2>2, FS_CardinalityType
<1>4. [type |-> "ToggleLFG", token |-> token] \in RouterMessages
  BY DEF RouterMessages
<1>5. [type |-> "Updated", leader |-> t.leader, members |-> names] \in RouterMessages
  BY <1>1, <1>2 DEF RouterMessages
<1>6. PICK tog \in RouterMessages : tog = [type |-> "ToggleLFG", token |-> token]
  BY <1>4
<1>7. PICK upd \in RouterMessages : upd = [type |-> "Updated", leader |-> t.leader, members |-> names]
  BY <1>5
<1>8. PICK ts \in Seq(RouterMessages) : ts = [i \in 1..found |-> tog]
  <2>1. [i \in 1..found |-> tog] \in [1..found -> RouterMessages]
    OBVIOUS
  <2>2. [i \in 1..found |-> tog] \in Seq(RouterMessages)
    BY <2>1
  <2> QED BY <2>2
<1>9. h.out \in Seq(RouterMessages)
  BY DEF HandlerStates
<1>10. PICK o \in Seq(RouterMessages) : o = (h.out \o ts) \o <<upd>>
  <2>1. <<upd>> \in Seq(RouterMessages)
    OBVIOUS
  <2>2. h.out \o ts \in Seq(RouterMessages)
    BY <1>9
  <2>3. (h.out \o ts) \o <<upd>> \in Seq(RouterMessages)
    BY <2>1, <2>2
  <2> QED BY <2>3
<1>11. r = [h EXCEPT !.lfg = @ \ ToSet(names), !.out = o]
  BY <1>2, <1>3, <1>6, <1>7, <1>8, <1>10 DEF notify_team_of_changes
<1> HIDE DEF RouterMessages, TeamRecords, Invitations
<1> QED BY <1>2, <1>11 DEF HandlerStates

-----------------------------------------------------------------------------
(* Every handler leaves a good state good.                                 *)

LEMMA TeamSet ==
    ASSUME NEW h \in HandlerStates, GoodTeams(h.teams), NEW seekers, AllFree(h.teams, seekers),
           NEW n \in 1..Len(h.teams),
           NEW t, Shaped(t), Len(t.members) >= 2 => t.leader \in Who(t), Free(t, seekers),
           Who(t) \subseteq Who(h.teams[n]),
           NEW r, r = WithTeam(h, n, t)
    PROVE  /\ r \in HandlerStates /\ GoodTeams(r.teams) /\ AllFree(r.teams, seekers)
           /\ r.lfg = h.lfg
<1>1. PICK ts : ts = h.teams
  OBVIOUS
<1>2. PICK us : us = IF Disbanded(t) THEN RemoveAt(ts, n) ELSE ReplaceAt(ts, n, t)
  OBVIOUS
<1>3. GoodTeams(us) /\ AllFree(us, seekers)
  BY <1>1, <1>2, TeamPut
<1>4. r = [h EXCEPT !.teams = us]
  BY <1>1, <1>2 DEF WithTeam
<1>5. us \in Seq(TeamRecords)
  BY <1>3 DEF GoodTeams
<1> HIDE DEF TeamRecords, Invitations, RouterMessages
<1> QED BY <1>3, <1>4, <1>5 DEF HandlerStates

LEMMA TeamAt ==
    ASSUME NEW ts, GoodTeams(ts), NEW n \in 1..Len(ts)
    PROVE  /\ GoodTeam(ts[n]) /\ Shaped(ts[n]) /\ ts[n] \in TeamRecords
           /\ Who(ts[n]) \subseteq Characters
<1>1. GoodTeam(ts[n]) /\ Shaped(ts[n]) /\ ts[n] \in TeamRecords
  BY DEF GoodTeams, GoodTeam, Shaped
<1>2. PICK s \in Seq(TeamMembers) : s = ts[n].members
  BY <1>1 DEF TeamRecords
<1>3. \A i \in 1..Len(s) : s[i].who \in Characters
  <2>1. \A i \in 1..Len(s) : s[i] \in TeamMembers
    OBVIOUS
  <2> QED BY <2>1 DEF TeamMembers
<1> QED BY <1>1, <1>2, <1>3 DEF Who

LEMMA RemovedKeeps ==
    ASSUME NEW h, GoodState(h), NEW n \in 1..Len(h.teams), NEW c \in Who(h.teams[n]),
           NEW type \in {"Kicked", "Left"}, NEW r, r = Removed(h, n, c, type)
    PROVE  GoodState(r)
<1>1. PICK old : old = h.teams[n]
  OBVIOUS
<1>2. GoodTeam(old) /\ Shaped(old) /\ c \in Characters
  BY <1>1, TeamAt DEF GoodState
<1>3. PICK t : t = removeTeamMember(old, c)
  OBVIOUS
<1>4. /\ Shaped(t) /\ Who(t) \subseteq Who(old)
      /\ Len(t.members) >= 2 => t.leader \in Who(t)
  BY <1>1, <1>2, <1>3, MemberRemoved DEF GoodTeam
<1>5. PICK msg \in RouterMessages : msg = [type |-> type, who |-> c]
  BY <1>2 DEF RouterMessages
<1>6. PICK f : f = Forward(h, msg)
  OBVIOUS
<1>7. f \in HandlerStates /\ f.teams = h.teams /\ f.lfg = h.lfg
  BY <1>6, Forwarded DEF GoodState
<1>8. PICK g : g = notify_team_of_changes(f, t, NoLeader)
  OBVIOUS
<1>9. g \in HandlerStates /\ g.teams = h.teams /\ g.lfg = h.lfg \ In(t)
  <2>1. t \in TeamRecords
    BY <1>4 DEF Shaped
  <2> QED BY <1>7, <1>8, <2>1, Notified
<1>10. r = WithTeam(g, n, t)
  BY <1>1, <1>3, <1>5, <1>6, <1>8 DEF Removed
<1>11. GoodTeams(g.teams) /\ AllFree(g.teams, g.lfg) /\ Free(t, g.lfg)
  BY <1>9, FewerSeekers DEF GoodState, Free
<1>12. n \in 1..Len(g.teams) /\ Who(t) \subseteq Who(g.teams[n])
  BY <1>1, <1>4, <1>9
<1>13. PICK seekers : seekers = g.lfg
  OBVIOUS
<1>14. /\ r \in HandlerStates /\ GoodTeams(r.teams) /\ AllFree(r.teams, seekers)
       /\ r.lfg = g.lfg
  BY <1>4, <1>9, <1>10, <1>11, <1>12, <1>13, TeamSet
<1> QED BY <1>13, <1>14 DEF GoodState

LEMMA KickedKeeps ==
    ASSUME NEW h, GoodState(h), NEW l, NEW c, NEW r, r = on_team_member_kicked(h, l, c)
    PROVE  GoodState(r)
<1>1. PICK n : n = FirstLedBy(h, l)
  OBVIOUS
<1>2. h.teams \in Seq(TeamRecords)
  BY DEF GoodState, GoodTeams
<1>3. CASE n # 0 /\ containsEntityID(h.teams[n], c)
  <2>1. n \in 1..Len(h.teams)
    BY <1>1, <1>2, <1>3, TeamFound
  <2>2. c \in Who(h.teams[n])
    BY <1>3, <2>1, TeamAt DEF GoodState, TeamRecords, containsEntityID, Who
  <2>3. r = Removed(h, n, c, "Kicked")
    BY <1>1, <1>3 DEF on_team_member_kicked
  <2> QED BY <2>1, <2>2, <2>3, RemovedKeeps
<1>4. CASE ~(n # 0 /\ containsEntityID(h.teams[n], c))
  BY <1>1, <1>4 DEF on_team_member_kicked
<1> QED BY <1>3, <1>4

LEMMA LeaveKeeps ==
    ASSUME NEW h, GoodState(h), NEW c, NEW r, r = on_team_leave_team(h, c)
    PROVE  GoodState(r)
<1>1. PICK n : n = FirstWith(h, c)
  OBVIOUS
<1>2. h.teams \in Seq(TeamRecords)
  BY DEF GoodState, GoodTeams
<1>3. CASE n # 0
  <2>1. n \in 1..Len(h.teams) /\ c \in Who(h.teams[n])
    BY <1>1, <1>2, <1>3, TeamFound
  <2>2. r = Removed(h, n, c, "Left")
    BY <1>1, <1>3 DEF on_team_leave_team
  <2> QED BY <2>1, <2>2, RemovedKeeps
<1>4. CASE n = 0
  BY <1>1, <1>4 DEF on_team_leave_team
<1> QED BY <1>3, <1>4

(* Whether somebody on a team is still to answer                           *)
LEMMA StillToAnswer ==
    ASSUME NEW t, Shaped(t), NEW c, isNamePending(t, c)
    PROVE  c \in Who(t) /\ c \notin In(t)
<1>1. PICK s \in Seq(TeamMembers) : s = t.members
  BY DEF Shaped, TeamRecords
<1>2. PICK n \in Nat : n = Len(s) /\ DOMAIN s = 1..n
  OBVIOUS
<1>3. PICK i \in 1..n : s[i] = [who |-> c, pending |-> TRUE]
  BY <1>1, <1>2 DEF isNamePending, ToSet
<1>4. \A j \in 1..n : s[i].who = s[j].who => i = j
  BY <1>1, <1>2 DEF Shaped
<1>5. s[i].who = c /\ s[i].pending
  BY <1>3
<1>6. Who(t) = {s[j].who : j \in 1..n} /\ In(t) = {s[j].who : j \in {j \in 1..n : ~s[j].pending}}
  BY <1>1, <1>2 DEF Who, In, Settled
<1> QED BY <1>4, <1>5, <1>6

LEMMA MakeLeaderKeeps ==
    ASSUME NEW h, GoodState(h), NEW l, NEW c, NEW r, r = on_team_member_make_leader(h, l, c)
    PROVE  GoodState(r)
<1>1. PICK n : n = FirstLedBy(h, l)
  OBVIOUS
<1>2. h.teams \in Seq(TeamRecords) /\ h \in HandlerStates
  BY DEF GoodState, GoodTeams
<1>3. CASE n # 0 /\ containsEntityID(h.teams[n], c) /\ ~isNamePending(h.teams[n], c)
  <2>1. n \in 1..Len(h.teams)
    BY <1>1, <1>2, <1>3, TeamFound
  <2>2. PICK old : old = h.teams[n]
    OBVIOUS
  <2>3. Shaped(old) /\ old \in TeamRecords /\ Who(old) \subseteq Characters
    BY <2>1, <2>2, TeamAt DEF GoodState
  <2>4. c \in Who(old)
    BY <1>3, <2>2, <2>3 DEF TeamRecords, containsEntityID, Who
  <2>5. PICK t : t = [old EXCEPT !.leader = c]
    OBVIOUS
  <2>6. t \in TeamRecords /\ t.members = old.members /\ t.leader = c
    BY <2>3, <2>4, <2>5 DEF TeamRecords
  <2>7. Shaped(t) /\ Who(t) = Who(old) /\ In(t) = In(old)
    BY <2>3, <2>6 DEF Shaped, Who, In
  <2>8. AllFree(h.teams, h.lfg) /\ GoodTeams(h.teams) /\ Free(t, h.lfg)
    BY <2>1, <2>2, <2>7 DEF GoodState, AllFree, Free
  <2>9. PICK g : g = WithTeam(h, n, t)
    OBVIOUS
  <2>10. PICK seekers : seekers = h.lfg
    OBVIOUS
  <2>11. /\ g \in HandlerStates /\ GoodTeams(g.teams) /\ AllFree(g.teams, seekers)
         /\ g.lfg = h.lfg
    BY <1>2, <2>1, <2>2, <2>4, <2>6, <2>7, <2>8, <2>9, <2>10, TeamSet
  <2>12. r = notify_team_of_changes(g, t, NoLeader)
    BY <1>1, <1>3, <2>2, <2>5, <2>9 DEF on_team_member_make_leader
  <2>13. r \in HandlerStates /\ r.teams = g.teams /\ r.lfg = g.lfg \ In(t)
    BY <2>6, <2>11, <2>12, Notified
  <2>14. AllFree(r.teams, r.lfg)
    BY <2>10, <2>11, <2>13, FewerSeekers
  <2> QED BY <2>11, <2>13, <2>14 DEF GoodState
<1>4. CASE ~(n # 0 /\ containsEntityID(h.teams[n], c) /\ ~isNamePending(h.teams[n], c))
  BY <1>1, <1>4 DEF on_team_member_make_leader
<1> QED BY <1>3, <1>4

LEMMA AnswerKeeps ==
    ASSUME NEW h, GoodState(h), NEW c \in Characters, NEW l, NEW accepted \in BOOLEAN,
           NEW r, r = on_team_member_invite_handled(h, c, l, accepted)
    PROVE  GoodState(r)
<1>1. PICK n : n = LastWith(h, c)
  OBVIOUS
<1>2. h.teams \in Seq(TeamRecords) /\ h \in HandlerStates
  BY DEF GoodState, GoodTeams
<1>3. CASE n = 0 \/ h.teams[n].leader # l \/ ~isNamePending(h.teams[n], c)
  BY <1>1, <1>3 DEF on_team_member_invite_handled
<1>4. CASE ~(n = 0 \/ h.teams[n].leader # l \/ ~isNamePending(h.teams[n], c))
  <2>1. n \in 1..Len(h.teams)
    BY <1>1, <1>2, <1>4, TeamFound
  <2>2. PICK old : old = h.teams[n]
    OBVIOUS
  <2>3. GoodTeam(old) /\ Shaped(old) /\ old \in TeamRecords /\ Who(old) \subseteq Characters
    BY <2>1, <2>2, TeamAt DEF GoodState
  <2>4. c \in Who(old) /\ c \notin In(old)
    BY <1>4, <2>2, <2>3, StillToAnswer
  <2>5. CASE accepted
    <3>1. PICK t : t = acceptTeamInvite(old, c)
      OBVIOUS
    <3>2. /\ Shaped(t) /\ Who(t) = Who(old) /\ t.leader \in Who(t)
      BY <2>3, <3>1, MemberAccepted DEF GoodTeam
    <3>3. PICK seekers : seekers = h.lfg \ In(t)
      OBVIOUS
    <3>4. GoodTeams(h.teams) /\ AllFree(h.teams, seekers) /\ Free(t, seekers)
      BY <3>3, FewerSeekers DEF GoodState, Free
    <3>5. PICK g : g = WithTeam(h, n, t)
      OBVIOUS
    <3>6. /\ g \in HandlerStates /\ GoodTeams(g.teams) /\ AllFree(g.teams, seekers)
          /\ g.lfg = h.lfg
      BY <1>2, <2>1, <2>2, <3>2, <3>4, <3>5, TeamSet
    <3>7. r = notify_team_of_changes(g, t, c)
      BY <1>1, <1>4, <2>2, <2>5, <3>1, <3>5 DEF on_team_member_invite_handled
    <3>8. r \in HandlerStates /\ r.teams = g.teams /\ r.lfg = g.lfg \ In(t)
      BY <3>2, <3>6, <3>7, Notified DEF Shaped
    <3> QED BY <3>3, <3>6, <3>8 DEF GoodState
  <2>6. CASE ~accepted
    <3>1. PICK t : t = removeTeamMember(old, c)
      OBVIOUS
    <3>2. /\ Shaped(t) /\ Who(t) = Who(old) \ {c} /\ In(t) = In(old) \ {c}
          /\ Len(t.members) >= 2 => t.leader \in Who(t)
      BY <2>3, <2>4, <3>1, MemberRemoved DEF GoodTeam
    <3>2a. Who(t) \subseteq Who(old) /\ In(t) = In(old)
      BY <2>4, <3>2
    <3>3. PICK seekers : seekers = h.lfg
      OBVIOUS
    <3>4. GoodTeams(h.teams) /\ AllFree(h.teams, seekers) /\ Free(t, seekers)
      BY <2>1, <2>2, <3>2a, <3>3 DEF GoodState, Free, AllFree
    <3>5. r = WithTeam(h, n, t)
      BY <1>1, <1>4, <2>2, <2>6, <3>1 DEF on_team_member_invite_handled
    <3>6. /\ r \in HandlerStates /\ GoodTeams(r.teams) /\ AllFree(r.teams, seekers)
          /\ r.lfg = h.lfg
      BY <1>2, <2>1, <2>2, <3>2, <3>2a, <3>4, <3>5, TeamSet
    <3> QED BY <3>3, <3>6 DEF GoodState
  <2> QED BY <2>5, <2>6
<1> QED BY <1>3, <1>4

LEMMA ToggleKeeps ==
    ASSUME NEW h, GoodState(h), NEW c \in Characters, NEW r, r = on_team_toggle_lfg(h, c)
    PROVE  GoodState(r)
<1>1. PICK n : n = LastWith(h, c)
  OBVIOUS
<1>2. h.teams \in Seq(TeamRecords) /\ h \in HandlerStates /\ GoodTeams(h.teams) /\ AllFree(h.teams, h.lfg)
  BY DEF GoodState, GoodTeams
<1>3. PICK msg \in RouterMessages : msg = [type |-> "ToggleLFG", token |-> c]
  BY DEF RouterMessages
<1>4. PICK f : f = Forward(h, msg)
  OBVIOUS
<1>5. f \in HandlerStates /\ f.teams = h.teams /\ f.lfg = h.lfg
  BY <1>2, <1>4, Forwarded
<1>6. CASE c \in h.lfg
  <2>1. r = [f EXCEPT !.lfg = @ \ {c}]
    BY <1>3, <1>4, <1>6 DEF on_team_toggle_lfg
  <2>2. r \in HandlerStates /\ r.teams = h.teams /\ r.lfg = h.lfg \ {c}
    <3> HIDE DEF TeamRecords, Invitations, RouterMessages
    <3> QED BY <1>5, <2>1 DEF HandlerStates
  <2>3. AllFree(r.teams, r.lfg)
    BY <1>2, <2>2, FewerSeekers
  <2> QED BY <1>2, <2>2, <2>3 DEF GoodState
<1>7. CASE c \notin h.lfg /\ n # 0 /\ ~isNamePending(h.teams[n], c)
  BY <1>1, <1>7 DEF on_team_toggle_lfg
<1>8. CASE c \notin h.lfg /\ ~(n # 0 /\ ~isNamePending(h.teams[n], c))
  <2>1. r = [f EXCEPT !.lfg = @ \union {c}]
    BY <1>1, <1>3, <1>4, <1>8 DEF on_team_toggle_lfg
  <2>2. r \in HandlerStates /\ r.teams = h.teams /\ r.lfg = h.lfg \union {c}
    <3> HIDE DEF TeamRecords, Invitations, RouterMessages
    <3> QED BY <1>5, <2>1 DEF HandlerStates
  <2>3. ASSUME NEW m \in 1..Len(h.teams) PROVE c \notin In(h.teams[m])
    <3>1. In(h.teams[m]) \subseteq Who(h.teams[m])
      BY DEF In, Settled, Who
    <3>2. CASE n = 0
      BY <1>1, <1>2, <3>1, <3>2, TeamFound
    <3>3. CASE n # 0 /\ isNamePending(h.teams[n], c)
      <4>1. n \in 1..Len(h.teams)
        BY <1>1, <1>2, <3>3, TeamFound
      <4>2. c \in Who(h.teams[n]) /\ c \notin In(h.teams[n])
        BY <1>2, <3>3, <4>1, TeamAt, StillToAnswer
      <4>3. m # n => Who(h.teams[m]) \intersect Who(h.teams[n]) = {}
        BY <1>2, <4>1 DEF GoodTeams
      <4> QED BY <3>1, <4>2, <4>3
    <3> QED BY <1>8, <3>2, <3>3
  <2>4. AllFree(r.teams, r.lfg)
    BY <1>2, <2>2, <2>3 DEF AllFree, Free
  <2> QED BY <1>2, <2>2, <2>4 DEF GoodState
<1> QED BY <1>6, <1>7, <1>8

(* An invitation finds its leader without a team, or leading one that is   *)
(* not full.                                                               *)
LEMMA InvitedToKeeps ==
    ASSUME NEW h, GoodState(h), NEW l \in Characters, NEW c \in Characters,
           ~RefusesInvitation(h, l, c), NEW r, r = InvitedTo(h, l, c)
    PROVE  GoodState(r) /\ r.known = h.known /\ r.pending = h.pending
<1>1. PICK n : n = LastWith(h, l)
  OBVIOUS
<1>2. h.teams \in Seq(TeamRecords) /\ h \in HandlerStates /\ GoodTeams(h.teams) /\ AllFree(h.teams, h.lfg)
  BY DEF GoodState, GoodTeams
<1>3. /\ c # l /\ LastWith(h, c) = 0
      /\ n # 0 => h.teams[n].leader = l /\ ~isFull(h.teams[n])
  BY <1>1 DEF RefusesInvitation
<1>4. \A m \in 1..Len(h.teams) : c \notin Who(h.teams[m])
  BY <1>2, <1>3, TeamFound
<1>5. PICK msg \in RouterMessages : msg = [type |-> "Offer", leader |-> l, who |-> c]
  BY DEF RouterMessages
<1>6. PICK ts : ts = IF n = 0 THEN Append(h.teams, WithInvitee(Lead(l), c))
                     ELSE [h.teams EXCEPT ![n] = WithInvitee(@, c)]
  OBVIOUS
<1>7. PICK g : g = [h EXCEPT !.teams = ts]
  OBVIOUS
<1>8. r = Forward(g, msg)
  <2>1. CASE n = 0
    BY <1>1, <1>5, <1>6, <1>7, <2>1 DEF InvitedTo, WithInvitee, Lead
  <2>2. CASE n # 0
    BY <1>1, <1>5, <1>6, <1>7, <2>2 DEF InvitedTo, WithInvitee
  <2> QED BY <2>1, <2>2
<1>9. PICK seekers : seekers = h.lfg
  OBVIOUS
<1>10. AllFree(h.teams, seekers)
  BY <1>2, <1>9
<1>11. GoodTeams(ts) /\ AllFree(ts, seekers)
  <2>1. CASE n = 0
    <3>1. PICK t : t = WithInvitee(Lead(l), c)
      OBVIOUS
    <3>2. GoodTeam(t) /\ Who(t) = {l, c} /\ In(t) = {l}
      BY <1>3, <3>1, TeamOfTwo
    <3>3. Free(t, seekers)
      <4>1. Cardinality({l}) = 1
        BY FS_Singleton
      <4> QED BY <3>2, <4>1 DEF Free
    <3>4. \A m \in 1..Len(h.teams) : l \notin Who(h.teams[m])
      BY <1>1, <1>2, <2>1, TeamFound
    <3>5. \A m \in 1..Len(h.teams) : Who(t) \intersect Who(h.teams[m]) = {}
      BY <1>4, <3>2, <3>4
    <3>6. ts = Append(h.teams, t)
      BY <1>6, <2>1, <3>1
    <3> QED BY <1>2, <1>10, <3>2, <3>3, <3>5, <3>6, TeamAdded
  <2>2. CASE n # 0
    <3>1. n \in 1..Len(h.teams)
      BY <1>1, <1>2, <2>2, TeamFound
    <3>2. PICK old : old = h.teams[n]
      OBVIOUS
    <3>3. GoodTeam(old) /\ Shaped(old) /\ c \notin Who(old) /\ Len(old.members) \in Nat
      BY <1>2, <1>4, <3>1, <3>2, TeamAt DEF TeamRecords
    <3>4. Len(old.members) < MaxTeam
      BY <1>3, <2>2, <3>2, <3>3, TeamAssumption DEF isFull
    <3>5. PICK t : t = WithInvitee(old, c)
      OBVIOUS
    <3>6. /\ Shaped(t) /\ Len(t.members) = Len(old.members) + 1
          /\ Who(t) = Who(old) \union {c} /\ In(t) = In(old) /\ t.leader = old.leader
      BY <3>3, <3>4, <3>5, MemberAdded
    <3>7. GoodTeam(t)
      BY <3>3, <3>6 DEF GoodTeam
    <3>8. Free(t, seekers)
      BY <1>10, <3>1, <3>2, <3>6 DEF AllFree, Free
    <3>9. \A m \in 1..Len(h.teams) : m # n => Who(t) \intersect Who(h.teams[m]) = {}
      BY <1>2, <1>4, <3>1, <3>2, <3>6 DEF GoodTeams
    <3>10. ts = [h.teams EXCEPT ![n] = t]
      BY <1>2, <1>6, <2>2, <3>1, <3>2, <3>5
    <3> QED BY <1>2, <1>10, <3>1, <3>7, <3>8, <3>9, <3>10, TeamReplaced
  <2> QED BY <2>1, <2>2
<1>12. g \in HandlerStates /\ g.teams = ts /\ g.lfg = h.lfg /\ g.known = h.known /\ g.pending = h.pending
  <2>1. ts \in Seq(TeamRecords)
    BY <1>11 DEF GoodTeams
  <2> HIDE DEF TeamRecords, Invitations, RouterMessages
  <2> QED BY <1>2, <1>7, <2>1 DEF HandlerStates
<1>13. /\ r \in HandlerStates /\ r.teams = ts /\ r.lfg = h.lfg
       /\ r.known = h.known /\ r.pending = h.pending
  BY <1>8, <1>12, Forwarded
<1> QED BY <1>9, <1>11, <1>13 DEF GoodState

LEMMA InvitedKeeps ==
    ASSUME NEW h0, GoodState(h0), NEW l \in Characters, NEW c \in Characters,
           NEW r, r = on_team_member_invited(h0, l, c)
    PROVE  GoodState(r)
<1>1. PICK h : h = [h0 EXCEPT !.known = @ \union {l}]
  OBVIOUS
<1>2. GoodState(h)
  <2> HIDE DEF TeamRecords, Invitations, RouterMessages
  <2>1. h \in HandlerStates /\ h.teams = h0.teams /\ h.lfg = h0.lfg
    BY <1>1 DEF GoodState, HandlerStates
  <2> QED BY <2>1 DEF GoodState
<1>3. CASE c \notin h.known
  <2>1. PICK inv \in Invitations : inv = [leader |-> l, invitee |-> c]
    BY DEF Invitations
  <2>2. PICK q : q = Append(h.pending[c], inv)
    OBVIOUS
  <2>3. h.pending \in [Characters -> Seq(Invitations)] /\ h \in HandlerStates
    BY <1>2 DEF GoodState, HandlerStates
  <2>4. q \in Seq(Invitations)
    BY <2>2, <2>3
  <2>5. PICK p : p = [h.pending EXCEPT ![c] = q]
    OBVIOUS
  <2>6. p \in [Characters -> Seq(Invitations)]
    BY <2>3, <2>4, <2>5
  <2>7. PICK g : g = [h EXCEPT !.pending = p]
    OBVIOUS
  <2>8. g \in HandlerStates /\ g.teams = h.teams /\ g.lfg = h.lfg
    <3> HIDE DEF TeamRecords, Invitations, RouterMessages
    <3> QED BY <2>3, <2>6, <2>7 DEF HandlerStates
  <2>9. PICK msg \in RouterMessages : msg = [type |-> "Query", who |-> c]
    BY DEF RouterMessages
  <2>10. g = [h EXCEPT !.pending[c] = Append(@, [leader |-> l, invitee |-> c])]
    BY <2>1, <2>2, <2>5, <2>7
  <2>11. r = Forward(g, msg)
    BY <1>1, <1>3, <2>9, <2>10 DEF on_team_member_invited
  <2>12. r \in HandlerStates /\ r.teams = g.teams /\ r.lfg = g.lfg
    BY <2>8, <2>11, Forwarded
  <2> QED BY <1>2, <2>8, <2>12 DEF GoodState
<1>4. CASE c \in h.known /\ RefusesInvitation(h, l, c)
  <2>1. r = h
    BY <1>1, <1>4 DEF on_team_member_invited
  <2> QED BY <1>2, <2>1
<1>5. CASE c \in h.known /\ ~RefusesInvitation(h, l, c)
  <2>1. r = InvitedTo(h, l, c)
    BY <1>1, <1>5 DEF on_team_member_invited
  <2> QED BY <1>2, <1>5, <2>1, InvitedToKeeps
<1> QED BY <1>3, <1>4, <1>5

(* So do all the invitations that waited for an answer, one after another. *)
GoodSoFar(base, events, k, h) == GoodState(h)

DispatchLoop == INSTANCE FoldProofs WITH Op <- dispatch, Inv <- GoodSoFar

LEMMA ResponseKeeps ==
    ASSUME NEW h, GoodState(h), NEW c \in Characters, NEW r, r = on_user_router_query_response(h, c)
    PROVE  GoodState(r)
<1>1. PICK base : base = [h EXCEPT !.known = @ \union {c}]
  OBVIOUS
<1>2. GoodState(base)
  <2> HIDE DEF TeamRecords, Invitations, RouterMessages
  <2>1. base \in HandlerStates /\ base.teams = h.teams /\ base.lfg = h.lfg
    BY <1>1 DEF GoodState, HandlerStates
  <2> QED BY <2>1 DEF GoodState
<1>3. PICK s \in Seq(Invitations) : s = h.pending[c]
  BY DEF GoodState, HandlerStates
<1>4. PICK n \in Nat : n = Len(s) /\ DOMAIN s = 1..n
  OBVIOUS
<1>5. FoldLeft(dispatch, base, s) = DispatchLoop!Folded(base, s, n)
  BY <1>4 DEF DispatchLoop!Folded, DispatchLoop!MapThenFoldSet, DispatchLoop!Max, FoldLeft, MapThenFoldSet, Max
<1>6. ASSUME NEW k \in 1..n, NEW g, GoodSoFar(base, s, k - 1, g)
      PROVE  GoodSoFar(base, s, k, dispatch(g, s[k]))
  <2>1. s[k] \in Invitations
    BY <1>4
  <2>2. s[k].leader \in Characters /\ s[k].invitee \in Characters
    BY <2>1 DEF Invitations
  <2>3. PICK x : x = on_team_member_invited(g, s[k].leader, s[k].invitee)
    OBVIOUS
  <2>4. GoodState(x)
    BY <1>6, <2>2, <2>3, InvitedKeeps DEF GoodSoFar
  <2> QED BY <2>3, <2>4 DEF dispatch, GoodSoFar
<1>7. GoodSoFar(base, s, 0, base)
  BY <1>2 DEF GoodSoFar
<1>8. GoodSoFar(base, s, n, DispatchLoop!Folded(base, s, n))
  BY <1>6, <1>7, DispatchLoop!FoldInduction
<1>9. PICK again : again = FoldLeft(dispatch, base, s)
  OBVIOUS
<1>10. GoodState(again)
  BY <1>5, <1>8, <1>9 DEF GoodSoFar
<1>11. r = [again EXCEPT !.pending[c] = << >>]
  BY <1>1, <1>3, <1>9 DEF on_user_router_query_response
<1>12. r \in HandlerStates /\ r.teams = again.teams /\ r.lfg = again.lfg
  <2>1. again.pending \in [Characters -> Seq(Invitations)] /\ << >> \in Seq(Invitations)
    BY <1>10 DEF GoodState, HandlerStates
  <2>2. PICK p : p = [again.pending EXCEPT ![c] = << >>]
    OBVIOUS
  <2>3. p \in [Characters -> Seq(Invitations)]
    BY <2>1, <2>2
  <2>4. r = [again EXCEPT !.pending = p]
    BY <1>11, <2>2
  <2> HIDE DEF TeamRecords, Invitations, RouterMessages
  <2> QED BY <1>10, <2>3, <2>4 DEF GoodState, HandlerStates
<1> QED BY <1>10, <1>12 DEF GoodState

-----------------------------------------------------------------------------
(* Every step keeps the handler's state good.                              *)

TeamInv == TeamTypeOK /\ GoodTeams(teams) /\ AllFree(teams, lfg)

LEMMA StateIsGood ==
    ASSUME TeamInv
    PROVE  GoodState(State)
<1>1. /\ teams \in Seq(TeamRecords) /\ known \in SUBSET Characters /\ lfg \in SUBSET Characters
      /\ pending \in [Characters -> Seq(Invitations)] /\ router \in Seq(RouterMessages)
  BY DEF TeamInv, TeamTypeOK, TeamRecords
<1> HIDE DEF TeamRecords, Invitations, RouterMessages
<1>2. State \in HandlerStates
  BY <1>1 DEF State, HandlerStates
<1>3. State.teams = teams /\ State.lfg = lfg
  BY DEF State
<1> QED BY <1>2, <1>3 DEF GoodState, TeamInv

(* What is left of the type invariant once the handler's state is set      *)
Posted ==
    /\ teamq \in Seq(TeamEvents)
    /\ view \in [Characters -> [leader  : Characters \union {NoLeader},
                                members : Seq(Characters)]]
    /\ offer \in [Characters -> Characters \union {NoLeader}]
    /\ left \subseteq Characters /\ manner \subseteq Manners
    /\ teamFailed \in BOOLEAN

LEMMA BecomesGood ==
    ASSUME NEW h, GoodState(h), Becomes(h), Posted'
    PROVE  TeamInv'
<1>1. /\ h.teams \in Seq(TeamRecords) /\ h.known \in SUBSET Characters /\ h.lfg \in SUBSET Characters
      /\ h.pending \in [Characters -> Seq(Invitations)] /\ h.out \in Seq(RouterMessages)
  BY DEF GoodState, HandlerStates
<1>2. GoodTeams(h.teams) /\ AllFree(h.teams, h.lfg)
  BY DEF GoodState
<1>3. GoodTeams(teams') /\ AllFree(teams', lfg')
  BY <1>2 DEF Becomes
<1> HIDE DEF Invitations, RouterMessages, TeamMembers
<1>4. TeamTypeOK'
  BY <1>1 DEF Becomes, Posted, TeamTypeOK, TeamRecords
<1> QED BY <1>3, <1>4 DEF TeamInv

LEMMA EventFields ==
    ASSUME NEW ev \in TeamEvents
    PROVE  /\ ev.type = "Invited" => ev.leader \in Characters /\ ev.invitee \in Characters
           /\ ev.type = "Handled" => /\ ev.leader \in Characters /\ ev.invitee \in Characters
                                     /\ ev.accepted \in BOOLEAN
           /\ ev.type \in {"Leave", "ToggleLFG", "Response"} => ev.who \in Characters
BY DEF TeamEvents

LEMMA MessageFields ==
    ASSUME NEW msg \in RouterMessages
    PROVE  /\ msg.type = "Offer" => msg.leader \in Characters /\ msg.who \in Characters
           /\ msg.type \in {"Kicked", "Left", "Query"} => msg.who \in Characters
           /\ msg.type = "Updated" => msg.leader \in Characters /\ msg.members \in Seq(Characters)
BY DEF RouterMessages

LEMMA TakenEvent ==
    ASSUME TeamInv, NEW type, Takes(type)
    PROVE  /\ Head(teamq) \in TeamEvents /\ Head(teamq).type = type
           /\ (teamFailed' \in BOOLEAN => Posted')
           /\ teamFailed \in BOOLEAN
<1>1. teamq \in Seq(TeamEvents) /\ teamq # << >>
  BY DEF TeamInv, TeamTypeOK, Takes
<1>2. Head(teamq) \in TeamEvents /\ Tail(teamq) \in Seq(TeamEvents)
  BY <1>1
<1> HIDE DEF TeamEvents
<1> QED BY <1>2 DEF TeamInv, TeamTypeOK, Takes, Posted

LEMMA HandlersKeep ==
    ASSUME TeamInv,
           \/ HandlesInvited \/ HandlesKicked \/ HandlesMakeLeader \/ HandlesLeave
           \/ HandlesAnswer \/ HandlesToggleLFG \/ HandlesResponse
    PROVE  TeamInv'
<1>1. PICK h : h = State
  OBVIOUS
<1>2. GoodState(h)
  BY <1>1, StateIsGood
<1>3. PICK ev : ev = Head(teamq)
  OBVIOUS
<1>4. CASE HandlesInvited
  <2>1. ev \in TeamEvents /\ ev.type = "Invited" /\ Posted'
    BY <1>3, <1>4, TakenEvent DEF HandlesInvited
  <2>2. ev.leader \in Characters /\ ev.invitee \in Characters
    BY <2>1, EventFields
  <2>3. PICK r : r = on_team_member_invited(h, ev.leader, ev.invitee)
    OBVIOUS
  <2>4. GoodState(r)
    BY <1>2, <2>2, <2>3, InvitedKeeps
  <2>5. Becomes(r)
    BY <1>1, <1>3, <1>4, <2>3 DEF HandlesInvited
  <2> QED BY <2>1, <2>4, <2>5, BecomesGood
<1>5. CASE HandlesKicked
  <2>1. Posted'
    BY <1>5, TakenEvent DEF HandlesKicked
  <2>2. PICK r : r = on_team_member_kicked(h, ev.leader, ev.who)
    OBVIOUS
  <2>3. GoodState(r)
    BY <1>2, <2>2, KickedKeeps
  <2>4. Becomes(r)
    BY <1>1, <1>3, <1>5, <2>2 DEF HandlesKicked
  <2> QED BY <2>1, <2>3, <2>4, BecomesGood
<1>6. CASE HandlesMakeLeader
  <2>1. Posted'
    BY <1>6, TakenEvent DEF HandlesMakeLeader
  <2>2. PICK r : r = on_team_member_make_leader(h, ev.leader, ev.who)
    OBVIOUS
  <2>3. GoodState(r)
    BY <1>2, <2>2, MakeLeaderKeeps
  <2>4. Becomes(r)
    BY <1>1, <1>3, <1>6, <2>2 DEF HandlesMakeLeader
  <2> QED BY <2>1, <2>3, <2>4, BecomesGood
<1>7. CASE HandlesLeave
  <2>1. Posted'
    BY <1>7, TakenEvent DEF HandlesLeave
  <2>2. PICK r : r = on_team_leave_team(h, ev.who)
    OBVIOUS
  <2>3. GoodState(r)
    BY <1>2, <2>2, LeaveKeeps
  <2>4. Becomes(r)
    BY <1>1, <1>3, <1>7, <2>2 DEF HandlesLeave
  <2> QED BY <2>1, <2>3, <2>4, BecomesGood
<1>8. CASE HandlesAnswer
  <2>1. ev \in TeamEvents /\ ev.type = "Handled" /\ Posted'
    BY <1>3, <1>8, TakenEvent DEF HandlesAnswer
  <2>2. ev.leader \in Characters /\ ev.invitee \in Characters /\ ev.accepted \in BOOLEAN
    BY <2>1, EventFields
  <2>3. PICK r : r = on_team_member_invite_handled(h, ev.invitee, ev.leader, ev.accepted)
    OBVIOUS
  <2>4. GoodState(r)
    BY <1>2, <2>2, <2>3, AnswerKeeps
  <2>5. Becomes(r)
    BY <1>1, <1>3, <1>8, <2>3 DEF HandlesAnswer
  <2> QED BY <2>1, <2>4, <2>5, BecomesGood
<1>9. CASE HandlesToggleLFG
  <2>1. ev \in TeamEvents /\ ev.type = "ToggleLFG" /\ Posted'
    BY <1>3, <1>9, TakenEvent DEF HandlesToggleLFG
  <2>2. ev.who \in Characters
    BY <2>1, EventFields
  <2>3. PICK r : r = on_team_toggle_lfg(h, ev.who)
    OBVIOUS
  <2>4. GoodState(r)
    BY <1>2, <2>2, <2>3, ToggleKeeps
  <2>5. Becomes(r)
    BY <1>1, <1>3, <1>9, <2>3 DEF HandlesToggleLFG
  <2> QED BY <2>1, <2>4, <2>5, BecomesGood
<1>10. CASE HandlesResponse
  <2>1. ev \in TeamEvents /\ ev.type = "Response" /\ Takes("Response")
    BY <1>3, <1>10, TakenEvent DEF HandlesResponse
  <2>2. ev.who \in Characters
    BY <2>1, EventFields
  <2>3. PICK r : r = on_user_router_query_response(h, ev.who)
    OBVIOUS
  <2>4. GoodState(r)
    BY <1>2, <2>2, <2>3, ResponseKeeps
  <2>5. Becomes(r) /\ UNCHANGED teamFailed
    BY <1>1, <1>3, <1>10, <2>3 DEF HandlesResponse
  <2>6. Posted'
    BY <2>1, <2>5, TakenEvent
  <2> QED BY <2>4, <2>5, <2>6, BecomesGood
<1> QED BY <1>4, <1>5, <1>6, <1>7, <1>8, <1>9, <1>10

LEMMA CommandKeeps ==
    ASSUME TeamInv, NEW ev \in TeamEvents, PostTeam(ev), UNCHANGED commandRest,
           offer' \in [Characters -> Characters \union {NoLeader}]
    PROVE  TeamInv'
<1>1. teamq' \in Seq(TeamEvents)
  <2>1. teamq \in Seq(TeamEvents)
    BY DEF TeamInv, TeamTypeOK
  <2>2. Append(teamq, ev) \in Seq(TeamEvents)
    BY <2>1
  <2> QED BY <2>2 DEF PostTeam
<1>2. GoodState(State) /\ Becomes(State)
  BY StateIsGood DEF Becomes, State, commandRest
<1>3. Posted'
  <2> HIDE DEF TeamEvents
  <2> QED BY <1>1 DEF Posted, TeamInv, TeamTypeOK, commandRest
<1>4. PICK h : h = State
  OBVIOUS
<1> QED BY <1>2, <1>3, <1>4, BecomesGood

LEMMA CommandsKeep ==
    ASSUME TeamInv, NEW c \in Characters, NEW d \in Characters, NEW accepts \in BOOLEAN,
           \/ Invite(c, d) \/ Kick(c, d) \/ MakeLeader(c, d) \/ Answer(c, accepts)
           \/ LeaveTeam(c) \/ ToggleLFG(c)
    PROVE  TeamInv'
<1>1. offer \in [Characters -> Characters \union {NoLeader}]
  BY DEF TeamInv, TeamTypeOK
<1>2. CASE Invite(c, d)
  <2>1. [type |-> "Invited", leader |-> c, invitee |-> d] \in TeamEvents
    BY DEF TeamEvents
  <2> QED BY <1>1, <1>2, <2>1, CommandKeeps DEF Invite
<1>3. CASE Kick(c, d)
  <2>1. [type |-> "Kicked", leader |-> c, who |-> d] \in TeamEvents
    BY DEF TeamEvents
  <2> QED BY <1>1, <1>3, <2>1, CommandKeeps DEF Kick
<1>4. CASE MakeLeader(c, d)
  <2>1. [type |-> "MakeLeader", leader |-> c, who |-> d] \in TeamEvents
    BY DEF TeamEvents
  <2> QED BY <1>1, <1>4, <2>1, CommandKeeps DEF MakeLeader
<1>5. CASE Answer(c, accepts)
  <2>1. offer[c] \in Characters
    BY <1>1, <1>5 DEF Answer
  <2>2. PICK l \in Characters : l = offer[c]
    BY <2>1
  <2>3. [type |-> "Handled", leader |-> l, invitee |-> c, accepted |-> accepts] \in TeamEvents
    BY DEF TeamEvents
  <2>4. offer' \in [Characters -> Characters \union {NoLeader}]
    BY <1>1, <1>5 DEF Answer
  <2>5. PICK ev \in TeamEvents : ev = [type |-> "Handled", leader |-> l, invitee |-> c, accepted |-> accepts]
    BY <2>3
  <2>6. PostTeam(ev) /\ UNCHANGED commandRest
    BY <1>5, <2>2, <2>5 DEF Answer
  <2> QED BY <2>4, <2>6, CommandKeeps
<1>6. CASE LeaveTeam(c)
  <2>1. [type |-> "Leave", who |-> c] \in TeamEvents
    BY DEF TeamEvents
  <2> QED BY <1>1, <1>6, <2>1, CommandKeeps DEF LeaveTeam
<1>7. CASE ToggleLFG(c)
  <2>1. [type |-> "ToggleLFG", who |-> c] \in TeamEvents
    BY DEF TeamEvents
  <2> QED BY <1>1, <1>7, <2>1, CommandKeeps DEF ToggleLFG
<1> QED BY <1>2, <1>3, <1>4, <1>5, <1>6, <1>7

(* A step of the maps leaves the teams alone.                              *)
LEMMA MapKeeps ==
    ASSUME TeamInv, UNCHANGED <<teams, known, lfg, pending>>, Posted',
           router' \in Seq(RouterMessages)
    PROVE  TeamInv'
<1> HIDE DEF RouterMessages, Invitations
<1> QED BY DEF TeamInv, TeamTypeOK, Posted

LEMMA ArrivedMessage ==
    ASSUME TeamInv, NEW type, Arrives(type)
    PROVE  /\ Head(router) \in RouterMessages /\ Head(router).type = type
           /\ router' \in Seq(RouterMessages) /\ Posted
           /\ UNCHANGED <<teams, known, lfg, pending, left, manner>>
<1>1. router \in Seq(RouterMessages) /\ router # << >>
  BY DEF TeamInv, TeamTypeOK, Arrives
<1>2. Head(router) \in RouterMessages /\ Tail(router) \in Seq(RouterMessages)
  BY <1>1
<1> HIDE DEF RouterMessages, TeamEvents
<1> QED BY <1>2 DEF TeamInv, TeamTypeOK, Arrives, Posted

Views == [leader : Characters \union {NoLeader}, members : Seq(Characters)]

LEMMA NoViewIsAView == NoView \in Views
<1>1. << >> \in Seq(Characters)
  OBVIOUS
<1> QED BY <1>1 DEF NoView, Views

LEMMA MapsKeep ==
    ASSUME TeamInv,
           \/ QueryAnswered \/ MapTeamMemberInvited \/ MapTeamMemberGone
           \/ MapTeamUpdated \/ MapTeamToggleLFG
    PROVE  TeamInv'
<1>1. PICK msg : msg = Head(router)
  OBVIOUS
<1>2. CASE QueryAnswered
  <2>1. Arrives("Query") /\ UNCHANGED <<view, offer, teamFailed>>
    BY <1>2 DEF QueryAnswered
  <2>2. /\ msg \in RouterMessages /\ msg.type = "Query" /\ Posted
        /\ router' \in Seq(RouterMessages) /\ UNCHANGED <<teams, known, lfg, pending, left, manner>>
    BY <1>1, <2>1, ArrivedMessage
  <2>3. msg.who \in Characters
    BY <2>2, MessageFields
  <2>4. PICK ev \in TeamEvents : ev = [type |-> "Response", who |-> msg.who]
    <3>1. [type |-> "Response", who |-> msg.who] \in TeamEvents
      BY <2>3 DEF TeamEvents
    <3> QED BY <3>1
  <2>5. teamq \in Seq(TeamEvents)
    BY <2>2 DEF Posted
  <2>6. Append(teamq, ev) \in Seq(TeamEvents)
    BY <2>5
  <2>7. teamq' \in Seq(TeamEvents)
    BY <1>1, <1>2, <2>4, <2>5, <2>6 DEF QueryAnswered, PostTeam
  <2>8. Posted'
    <3> HIDE DEF TeamEvents
    <3> QED BY <2>1, <2>2, <2>7 DEF Posted
  <2> QED BY <2>2, <2>8, MapKeeps
<1>3. CASE MapTeamMemberInvited
  <2>1. Arrives("Offer") /\ UNCHANGED <<teamq, view, teamFailed>>
    BY <1>3 DEF MapTeamMemberInvited
  <2>2. /\ msg \in RouterMessages /\ msg.type = "Offer" /\ Posted
        /\ router' \in Seq(RouterMessages) /\ UNCHANGED <<teams, known, lfg, pending, left, manner>>
    BY <1>1, <2>1, ArrivedMessage
  <2>3. msg.who \in Characters /\ msg.leader \in Characters
    BY <2>2, MessageFields
  <2>4. offer' \in [Characters -> Characters \union {NoLeader}]
    BY <1>1, <1>3, <2>2, <2>3 DEF MapTeamMemberInvited, Posted
  <2>5. Posted'
    <3> HIDE DEF TeamEvents
    <3> QED BY <2>1, <2>2, <2>4 DEF Posted
  <2> QED BY <2>2, <2>5, MapKeeps
<1>4. CASE MapTeamMemberGone
  <2>1. PICK type \in {"Kicked", "Left"} : Arrives(type)
    BY <1>4 DEF MapTeamMemberGone
  <2>2. /\ msg \in RouterMessages /\ msg.type = type /\ Posted
        /\ router' \in Seq(RouterMessages) /\ UNCHANGED <<teams, known, lfg, pending, left, manner>>
    BY <1>1, <2>1, ArrivedMessage
  <2>3. UNCHANGED <<teamq, offer, teamFailed>> /\ view' = [view EXCEPT ![msg.who] = NoView]
    BY <1>1, <1>4 DEF MapTeamMemberGone
  <2>4. view \in [Characters -> Views]
    BY <2>2 DEF Posted, Views
  <2>5. view' \in [Characters -> Views]
    <3> HIDE DEF Views
    <3> QED BY <2>3, <2>4, NoViewIsAView
  <2>6. Posted'
    <3> HIDE DEF TeamEvents
    <3> QED BY <2>2, <2>3, <2>5 DEF Posted, Views
  <2> QED BY <2>2, <2>6, MapKeeps
<1>5. CASE MapTeamUpdated
  <2>1. Arrives("Updated") /\ UNCHANGED <<teamq, offer, teamFailed>>
    BY <1>5 DEF MapTeamUpdated
  <2>2. /\ msg \in RouterMessages /\ msg.type = "Updated" /\ Posted
        /\ router' \in Seq(RouterMessages) /\ UNCHANGED <<teams, known, lfg, pending, left, manner>>
    BY <1>1, <2>1, ArrivedMessage
  <2>3. msg.members \in Seq(Characters) /\ msg.leader \in Characters
    BY <2>2, MessageFields
  <2>4. Shown(msg) \in Views
    BY <2>3, NoViewIsAView DEF Shown, Views
  <2>5. view \in [Characters -> Views]
    BY <2>2 DEF Posted, Views
  <2>6. view' = [c \in Characters |-> IF c \in ToSet(msg.members) \intersect here
                                      THEN Shown(msg) ELSE view[c]]
    BY <1>1, <1>5 DEF MapTeamUpdated
  <2>7. view' \in [Characters -> Views]
    <3> HIDE DEF Views
    <3> QED BY <2>4, <2>5, <2>6
  <2>8. Posted'
    <3> HIDE DEF TeamEvents
    <3> QED BY <2>1, <2>2, <2>7 DEF Posted, Views
  <2> QED BY <2>2, <2>8, MapKeeps
<1>6. CASE MapTeamToggleLFG
  <2>1. Arrives("ToggleLFG") /\ UNCHANGED <<teamq, view, offer>> /\ teamFailed' \in BOOLEAN
    BY <1>6 DEF MapTeamToggleLFG
  <2>2. /\ Posted /\ router' \in Seq(RouterMessages)
        /\ UNCHANGED <<teams, known, lfg, pending, left, manner>>
    BY <2>1, ArrivedMessage
  <2>3. Posted'
    <3> HIDE DEF TeamEvents
    <3> QED BY <2>1, <2>2 DEF Posted
  <2> QED BY <2>2, <2>3, MapKeeps
<1> QED BY <1>2, <1>3, <1>4, <1>5, <1>6

LEMMA ComingAndGoingKeep ==
    ASSUME TeamInv, NEW c \in Characters, TeamEnters(c) \/ TeamLeaves(c)
    PROVE  TeamInv'
<1>1. UNCHANGED <<teams, known, lfg, pending, teamq, router, manner, teamFailed>>
  BY DEF TeamEnters, TeamLeaves
<1>2. Posted /\ router \in Seq(RouterMessages)
  <2> HIDE DEF TeamEvents, RouterMessages
  <2> QED BY DEF Posted, TeamInv, TeamTypeOK
<1>3. view \in [Characters -> Views]
  BY <1>2 DEF Posted, Views
<1>4. view' \in [Characters -> Views] /\ left' \subseteq Characters
      /\ offer' \in [Characters -> Characters \union {NoLeader}]
  <2> HIDE DEF Views
  <2> QED BY <1>2, <1>3, NoViewIsAView DEF TeamEnters, TeamLeaves, Posted
<1>5. Posted' /\ router' \in Seq(RouterMessages)
  <2> HIDE DEF TeamEvents, RouterMessages
  <2> QED BY <1>1, <1>2, <1>4 DEF Posted, Views
<1> QED BY <1>1, <1>5, MapKeeps

LEMMA TeamStep ==
    ASSUME TeamInv, cast \subseteq Characters, TeamNext(cast)
    PROVE  TeamInv'
<1>1. ASSUME NEW c \in cast, NEW d \in cast, Invite(c, d) \/ Kick(c, d) \/ MakeLeader(c, d)
      PROVE  TeamInv'
  BY <1>1, CommandsKeep
<1>2. ASSUME NEW c \in cast, NEW accepts \in BOOLEAN, Answer(c, accepts)
      PROVE  TeamInv'
  BY <1>2, CommandsKeep
<1>3. ASSUME NEW c \in cast, LeaveTeam(c) \/ ToggleLFG(c)
      PROVE  TeamInv'
  BY <1>3, CommandsKeep
<1>4. ASSUME NEW c \in cast, TeamEnters(c) \/ TeamLeaves(c)
      PROVE  TeamInv'
  BY <1>4, ComingAndGoingKeep
<1> QED BY <1>1, <1>2, <1>3, <1>4, HandlersKeep, MapsKeep DEF TeamNext

LEMMA TeamStarts ==
    ASSUME TeamInit, manner \subseteq Manners
    PROVE  TeamInv
<1>1. \A S : << >> \in Seq(S)
  OBVIOUS
<1>2. view \in [Characters -> Views]
  BY NoViewIsAView DEF TeamInit
<1>3. teams = << >> /\ Len(teams) = 0
  BY DEF TeamInit
<1>4. GoodTeams(teams) /\ AllFree(teams, lfg)
  BY <1>3 DEF GoodTeams, AllFree
<1> HIDE DEF RouterMessages, Invitations, TeamEvents, TeamMembers
<1>5. pending \in [Characters -> Seq(Invitations)]
  BY <1>1 DEF TeamInit
<1> QED BY <1>1, <1>2, <1>4, <1>5 DEF TeamInit, TeamInv, TeamTypeOK, Views

LEMMA TeamSafe == Spec => [](TeamInv /\ cast \subseteq Characters)
<1>1. Init => TeamInv /\ cast \subseteq Characters
  <2>1. \A S : OneOf(S) \subseteq SUBSET S /\ {{}} \subseteq SUBSET S
    BY DEF OneOf
  <2> QED BY <2>1, TeamStarts DEF Init
<1>2. TeamInv /\ cast \subseteq Characters /\ [Next]_vars
      => (TeamInv /\ cast \subseteq Characters)'
  <2> SUFFICES ASSUME TeamInv, cast \subseteq Characters, [Next]_vars
               PROVE  TeamInv' /\ cast' \subseteq Characters
    OBVIOUS
  <2>1. cast' = cast
    BY DEF Next, vars
  <2>2. CASE TeamNext(cast)
    BY <2>1, <2>2, TeamStep
  <2>3. CASE UNCHANGED teamOnly
    <3>1. UNCHANGED <<teams, known, lfg, pending, teamq, router, view, offer, left, manner, teamFailed>>
      BY <2>3 DEF teamOnly
    <3>2. Posted /\ router \in Seq(RouterMessages)
      <4> HIDE DEF TeamEvents, RouterMessages
      <4> QED BY DEF Posted, TeamInv, TeamTypeOK
    <3>3. Posted' /\ router' \in Seq(RouterMessages)
      <4> HIDE DEF TeamEvents, RouterMessages
      <4> QED BY <3>1, <3>2 DEF Posted
    <3> QED BY <2>1, <3>1, <3>3, MapKeeps
  <2> QED BY <2>1, <2>2, <2>3 DEF Next, vars
<1> QED BY <1>1, <1>2, PTL DEF Spec

(* The type invariant of the teams holds of every behaviour: the handler's *)
(* lists, queues and messages are what their types say.                    *)
THEOREM TeamsTyped == Spec => []TeamTypeOK
BY TeamSafe, PTL DEF TeamInv

(* No character is on two teams, or twice on one, not even while it is     *)
(* still to answer, and however commands and answers race                  *)
(* (on_team_member_invited and on_user_router_query_response of            *)
(* TeamHandler.cpp).                                                       *)
THEOREM NobodyIsOnTwoTeams == Spec => []OneTeam
<1>1. TeamInv => OneTeam
  <2> SUFFICES ASSUME TeamInv,
                      NEW m \in DOMAIN teams, NEW n \in DOMAIN teams,
                      NEW i \in DOMAIN teams[m].members, NEW j \in DOMAIN teams[n].members,
                      teams[m].members[i].who = teams[n].members[j].who
               PROVE  m = n /\ i = j
    BY DEF OneTeam
  <2>1. GoodTeams(teams)
    BY DEF TeamInv
  <2>2. m \in 1..Len(teams) /\ n \in 1..Len(teams)
    BY <2>1 DEF GoodTeams
  <2>3. Shaped(teams[m]) /\ Shaped(teams[n])
    BY <2>1, <2>2 DEF GoodTeams, GoodTeam
  <2>4. i \in 1..Len(teams[m].members) /\ j \in 1..Len(teams[n].members)
    BY <2>3 DEF Shaped, TeamRecords
  <2>5. teams[m].members[i].who \in Who(teams[m]) /\ teams[n].members[j].who \in Who(teams[n])
    BY <2>4 DEF Who
  <2>6. m = n
    BY <2>1, <2>2, <2>5 DEF GoodTeams
  <2> QED BY <2>3, <2>4, <2>6 DEF Shaped
<1> QED BY <1>1, TeamSafe, PTL

(* Every team has at least two members and at most MaxTeam, and its leader *)
(* is one of them, whoever leaves, is kicked or is made leader             *)
(* (removeTeamMember of Team.cpp, on_team_member_make_leader).             *)
THEOREM TeamsHaveLeaders == Spec => []TeamsAreLed
<1>1. TeamInv => TeamsAreLed
  <2> SUFFICES ASSUME TeamInv, NEW n \in DOMAIN teams
               PROVE  /\ ~Disbanded(teams[n]) /\ Len(teams[n].members) <= MaxTeam
                      /\ containsEntityID(teams[n], teams[n].leader)
    BY DEF TeamsAreLed
  <2>1. n \in 1..Len(teams)
    BY DEF TeamInv, GoodTeams
  <2>2. GoodTeam(teams[n])
    BY <2>1 DEF TeamInv, GoodTeams
  <2>3. teams[n].members \in Seq(TeamMembers)
    BY <2>2 DEF GoodTeam, Shaped, TeamRecords
  <2>4. Len(teams[n].members) \in Nat /\ DOMAIN teams[n].members = 1..Len(teams[n].members)
    BY <2>3
  <2>5. containsEntityID(teams[n], teams[n].leader)
    BY <2>2, <2>4 DEF GoodTeam, Who, containsEntityID
  <2> QED BY <2>2, <2>4, <2>5 DEF GoodTeam, Shaped, Disbanded
<1> QED BY <1>1, TeamSafe, PTL

(* Nobody who shares a team with somebody is on the list of those who look *)
(* for one (on_team_toggle_lfg and notify_team_of_changes).                *)
THEOREM SeekersHaveNoTeam == Spec => []LfgIsFree
<1>1. TeamInv => LfgIsFree
  <2> SUFFICES ASSUME TeamInv, NEW n \in DOMAIN teams,
                      Cardinality(ToSet(Confirmed(teams[n]))) > 1
               PROVE  ToSet(Confirmed(teams[n])) \intersect lfg = {}
    BY DEF LfgIsFree
  <2>1. n \in 1..Len(teams)
    BY DEF TeamInv, GoodTeams
  <2>2. teams[n].members \in Seq(TeamMembers)
    BY <2>1 DEF TeamInv, GoodTeams, GoodTeam, Shaped, TeamRecords
  <2>3. ToSet(Confirmed(teams[n])) = In(teams[n])
    BY <2>2, ConfirmedNames
  <2>4. Free(teams[n], lfg)
    BY <2>1 DEF TeamInv, AllFree
  <2> QED BY <2>3, <2>4 DEF Free
<1> QED BY <1>1, TeamSafe, PTL

-----------------------------------------------------------------------------
(* What the handler tells and what it has been asked                       *)

News == {"Offer", "Kicked", "Left", "Updated", "ToggleLFG"}

(* The queue p is q, with nothing but news added.                          *)
OnlyNews(q, p) ==
    /\ Len(q) <= Len(p)
    /\ \A i \in 1..Len(q) : p[i] = q[i]
    /\ \A i \in 1..Len(p) : p[i].type \notin News => i \in 1..Len(q)

Speaker(h) ==
    /\ h = [teams |-> h.teams, known |-> h.known, lfg |-> h.lfg, pending |-> h.pending,
            out |-> h.out]
    /\ h.out \in Seq(RouterMessages) /\ h.lfg \subseteq Characters

(* From h to r the handler has asked nothing.                              *)
Quietly(h, r) ==
    /\ Speaker(r)
    /\ r.known = h.known /\ r.pending = h.pending
    /\ OnlyNews(h.out, r.out)

LEMMA NewsOfNews ==
    ASSUME NEW q \in Seq(RouterMessages), NEW p \in Seq(RouterMessages),
           NEW o \in Seq(RouterMessages), OnlyNews(q, p), OnlyNews(p, o)
    PROVE  OnlyNews(q, o)
<1>1. Len(q) \in Nat /\ Len(p) \in Nat /\ Len(o) \in Nat
  OBVIOUS
<1> QED BY <1>1 DEF OnlyNews

LEMMA QuietlyOn ==
    ASSUME NEW h, Speaker(h), NEW g, Quietly(h, g), NEW r, Quietly(g, r)
    PROVE  Quietly(h, r)
<1>1. h.out \in Seq(RouterMessages) /\ g.out \in Seq(RouterMessages) /\ r.out \in Seq(RouterMessages)
  BY DEF Quietly, Speaker
<1> HIDE DEF RouterMessages
<1> QED BY <1>1, NewsOfNews DEF Quietly

LEMMA StateSpeaks ==
    ASSUME NEW h \in HandlerStates
    PROVE  Speaker(h)
<1> HIDE DEF TeamRecords, Invitations, RouterMessages
<1> QED BY DEF HandlerStates, Speaker

LEMMA ForwardQuietly ==
    ASSUME NEW h, Speaker(h), NEW msg \in RouterMessages, msg.type \in News,
           NEW r, r = Forward(h, msg)
    PROVE  Quietly(h, r) /\ r.teams = h.teams /\ r.lfg = h.lfg /\ r.out = Append(h.out, msg)
<1>1. r = [h EXCEPT !.out = Append(h.out, msg)]
  BY DEF Forward
<1>2. /\ r.teams = h.teams /\ r.known = h.known /\ r.lfg = h.lfg /\ r.pending = h.pending
      /\ r.out = Append(h.out, msg)
      /\ r = [teams |-> r.teams, known |-> r.known, lfg |-> r.lfg, pending |-> r.pending,
              out |-> r.out]
  BY <1>1 DEF Speaker
<1>3. PICK q \in Seq(RouterMessages) : q = h.out
  BY DEF Speaker
<1>4. /\ Append(q, msg) \in Seq(RouterMessages) /\ Len(Append(q, msg)) = Len(q) + 1
      /\ \A i \in 1..Len(q) : Append(q, msg)[i] = q[i]
      /\ Append(q, msg)[Len(q) + 1] = msg /\ Len(q) \in Nat
  OBVIOUS
<1>5. OnlyNews(q, Append(q, msg))
  BY <1>4 DEF OnlyNews
<1> QED BY <1>2, <1>3, <1>4, <1>5 DEF Quietly, Speaker

LEMMA WithTeamQuietly ==
    ASSUME NEW h, Speaker(h), NEW n, NEW t, NEW r, r = WithTeam(h, n, t)
    PROVE  Quietly(h, r) /\ r.lfg = h.lfg /\ r.out = h.out
<1>1. PICK ts : ts = IF Disbanded(t) THEN RemoveAt(h.teams, n) ELSE ReplaceAt(h.teams, n, t)
  OBVIOUS
<1>2. r = [h EXCEPT !.teams = ts]
  BY <1>1 DEF WithTeam
<1>3. /\ r.teams = ts /\ r.known = h.known /\ r.lfg = h.lfg /\ r.pending = h.pending
      /\ r.out = h.out
      /\ r = [teams |-> r.teams, known |-> r.known, lfg |-> r.lfg, pending |-> r.pending,
              out |-> r.out]
  BY <1>2 DEF Speaker
<1> QED BY <1>3 DEF Quietly, Speaker, OnlyNews

(* The message that says what a team is now, and the ones before it        *)
Update(t) == [type |-> "Updated", leader |-> t.leader, members |-> Confirmed(t)]

Flags(n, token) == [i \in 1..n |-> [type |-> "ToggleLFG", token |-> token]]

Announces(h, r, t, token) ==
    \E n \in Nat : /\ Flags(n, token) \in Seq(RouterMessages)
                   /\ r.out = Append(h.out \o Flags(n, token), Update(t))
                   /\ h.lfg = {} => n = 0

LEMMA NotifyTells ==
    ASSUME NEW h, Speaker(h), NEW t \in TeamRecords,
           NEW token \in Characters \union {NoLeader},
           NEW r, r = notify_team_of_changes(h, t, token)
    PROVE  /\ Speaker(r) /\ r.teams = h.teams /\ r.known = h.known /\ r.pending = h.pending
           /\ r.lfg = h.lfg \ In(t) /\ Update(t) \in RouterMessages
           /\ Announces(h, r, t, token)
<1>1. t.members \in Seq(TeamMembers) /\ t.leader \in Characters
  BY DEF TeamRecords
<1>2. Confirmed(t) \in Seq(Characters) /\ ToSet(Confirmed(t)) = In(t)
  BY <1>1, ConfirmedNames
<1>3. Update(t) \in RouterMessages
  <2>1. PICK names \in Seq(Characters) : names = Confirmed(t)
    BY <1>2
  <2> QED BY <1>1, <2>1 DEF Update, RouterMessages
<1>4. PICK n : n = Cardinality(ToSet(Confirmed(t)) \intersect h.lfg)
  OBVIOUS
<1>5. n \in Nat /\ (h.lfg = {} => n = 0)
  <2>1. IsFiniteSet(In(t))
    BY <1>1, SettledFinite
  <2>2. IsFiniteSet(In(t) \intersect h.lfg)
    BY <2>1, FS_Intersection
  <2>3. Cardinality(In(t) \intersect h.lfg) \in Nat
    BY <2>2, FS_CardinalityType
  <2>4. h.lfg = {} => Cardinality(In(t) \intersect h.lfg) = 0
    BY FS_EmptySet
  <2> QED BY <1>2, <1>4, <2>3, <2>4
<1>6. PICK g : g = Flags(n, token)
  OBVIOUS
<1>7. g \in Seq(RouterMessages)
  <2>1. PICK flag \in RouterMessages : flag = [type |-> "ToggleLFG", token |-> token]
    BY DEF RouterMessages
  <2>2. g = [i \in 1..n |-> flag]
    BY <1>6, <2>1 DEF Flags
  <2> QED BY <1>5, <2>1, <2>2
<1>8. PICK u \in RouterMessages : u = Update(t)
  BY <1>3
<1>9. PICK out : out = (h.out \o g) \o <<u>>
  OBVIOUS
<1>10. out = Append(h.out \o g, u) /\ out \in Seq(RouterMessages)
  <2>1. PICK q \in Seq(RouterMessages) : q = h.out
    BY DEF Speaker
  <2>2. q \o g \in Seq(RouterMessages)
    BY <1>7
  <2>3. \A s \in Seq(RouterMessages) : s \o <<u>> = Append(s, u) /\ Append(s, u) \in Seq(RouterMessages)
    OBVIOUS
  <2> QED BY <1>9, <2>1, <2>2, <2>3
<1>11. PICK fewer : fewer = h.lfg \ In(t)
  OBVIOUS
<1>12. r = [h EXCEPT !.lfg = fewer, !.out = out]
  <2>1. notify_team_of_changes(h, t, token)
          = [h EXCEPT !.lfg = @ \ ToSet(Confirmed(t)),
                      !.out = (@ \o Flags(n, token)) \o <<Update(t)>>]
    BY <1>4 DEF notify_team_of_changes, Flags, Update
  <2> QED BY <1>2, <1>6, <1>8, <1>9, <1>11, <2>1
<1>13. /\ r.teams = h.teams /\ r.known = h.known /\ r.lfg = fewer /\ r.pending = h.pending
       /\ r.out = out
       /\ r = [teams |-> r.teams, known |-> r.known, lfg |-> r.lfg, pending |-> r.pending,
               out |-> r.out]
  BY <1>12 DEF Speaker
<1>14. Speaker(r)
  BY <1>10, <1>11, <1>13 DEF Speaker
<1>15. Announces(h, r, t, token)
  BY <1>5, <1>6, <1>7, <1>8, <1>10, <1>13 DEF Announces
<1> QED BY <1>3, <1>11, <1>13, <1>14, <1>15

LEMMA NotifyQuietly ==
    ASSUME NEW h, Speaker(h), NEW t \in TeamRecords,
           NEW token \in Characters \union {NoLeader},
           NEW r, r = notify_team_of_changes(h, t, token)
    PROVE  Quietly(h, r)
<1>1. /\ Speaker(r) /\ r.teams = h.teams /\ r.known = h.known /\ r.pending = h.pending
      /\ r.lfg = h.lfg \ In(t) /\ Update(t) \in RouterMessages
      /\ Announces(h, r, t, token)
  BY NotifyTells
<1>2. PICK n \in Nat : /\ Flags(n, token) \in Seq(RouterMessages)
                      /\ r.out = Append(h.out \o Flags(n, token), Update(t))
  BY <1>1, Zenon DEF Announces
<1>3. PICK f \in Seq(RouterMessages) : f = Flags(n, token)
  BY <1>2
<1>4. Len(f) = n /\ \A i \in 1..n : f[i].type = "ToggleLFG"
  BY <1>3 DEF Flags
<1>5. PICK q \in Seq(RouterMessages) : q = h.out
  BY DEF Speaker
<1>6. PICK u \in RouterMessages : u = Update(t)
  BY <1>1
<1>7. PICK o : o = Append(q \o f, u)
  OBVIOUS
<1>8. r.out = o
  BY <1>2, <1>3, <1>5, <1>6, <1>7
<1>9. u.type = "Updated"
  BY <1>6 DEF Update
<1>10. OnlyNews(q, o)
  <2> HIDE DEF RouterMessages
  <2>0. q \o f \in Seq(RouterMessages)
    OBVIOUS
  <2>1. PICK p \in Seq(RouterMessages) : p = q \o f
    BY <2>0
  <2>2. /\ Len(p) = Len(q) + n /\ Len(q) \in Nat
        /\ \A i \in 1..Len(q) : p[i] = q[i]
        /\ \A i \in 1..n : p[Len(q) + i] = f[i]
    <3>1. Len(q \o f) = Len(q) + Len(f) /\ Len(q) \in Nat
      OBVIOUS
    <3>2. \A i \in 1..Len(q) : (q \o f)[i] = q[i]
      OBVIOUS
    <3>3. \A i \in 1..Len(f) : (q \o f)[Len(q) + i] = f[i]
      OBVIOUS
    <3> QED BY <1>4, <2>1, <3>1, <3>2, <3>3
  <2>3. /\ Len(o) = Len(p) + 1
        /\ \A i \in 1..Len(p) : o[i] = p[i]
        /\ o[Len(p) + 1] = u
    BY <1>7, <2>1
  <2>4. /\ Len(q) <= Len(o)
        /\ \A i \in 1..Len(q) : o[i] = q[i]
    BY <2>2, <2>3
  <2>5. ASSUME NEW i \in 1..Len(o), i \notin 1..Len(q)
        PROVE  o[i].type \in News
    <3>1. CASE i = Len(p) + 1
      BY <1>9, <2>3, <3>1 DEF News
    <3>2. CASE i # Len(p) + 1
      <4>1. PICK j \in 1..n : i = Len(q) + j
        <5>1. i - Len(q) \in 1..n /\ i = Len(q) + (i - Len(q))
          BY <2>2, <2>3, <2>5, <3>2
        <5> QED BY <5>1
      <4>2. o[i] = f[j]
        BY <2>2, <2>3, <4>1
      <4> QED BY <1>4, <4>2 DEF News
    <3> QED BY <3>1, <3>2
  <2> QED BY <2>4, <2>5 DEF OnlyNews
<1> QED BY <1>1, <1>5, <1>8, <1>10 DEF Quietly

LEMMA NobodyIsAToken == NoLeader \in Characters \union {NoLeader}
OBVIOUS

LEMMA RemovedQuietly ==
    ASSUME NEW h, GoodState(h), NEW n \in 1..Len(h.teams), NEW c \in Who(h.teams[n]),
           NEW type \in {"Kicked", "Left"}, NEW r, r = Removed(h, n, c, type)
    PROVE  Quietly(h, r)
<1>1. PICK old : old = h.teams[n]
  OBVIOUS
<1>2. Shaped(old) /\ Who(old) \subseteq Characters
  BY <1>1, TeamAt DEF GoodState
<1>3. PICK t : t = removeTeamMember(old, c)
  OBVIOUS
<1>4. Shaped(t)
  BY <1>1, <1>2, <1>3, MemberRemoved
<1>5. t \in TeamRecords
  BY <1>4 DEF Shaped
<1>6. PICK msg \in RouterMessages : msg = [type |-> type, who |-> c] /\ msg.type \in News
  <2>1. c \in Characters
    BY <1>1, <1>2
  <2>2. [type |-> type, who |-> c] \in RouterMessages
    BY <2>1 DEF RouterMessages
  <2> QED BY <2>2 DEF News
<1>7. PICK f : f = Forward(h, msg)
  OBVIOUS
<1>8. Speaker(h)
  BY StateSpeaks DEF GoodState
<1>9. Quietly(h, f) /\ Speaker(f)
  BY <1>6, <1>7, <1>8, ForwardQuietly DEF Quietly
<1>10. PICK g : g = notify_team_of_changes(f, t, NoLeader)
  OBVIOUS
<1>11. Quietly(f, g) /\ Speaker(g)
  BY <1>5, <1>9, <1>10, NobodyIsAToken, NotifyQuietly DEF Quietly
<1>12. r = WithTeam(g, n, t)
  BY <1>1, <1>3, <1>6, <1>7, <1>10 DEF Removed
<1>13. Quietly(g, r)
  BY <1>11, <1>12, WithTeamQuietly
<1>14. Quietly(h, g)
  BY <1>8, <1>9, <1>11, QuietlyOn
<1> QED BY <1>8, <1>13, <1>14, QuietlyOn

LEMMA StaysQuiet ==
    ASSUME NEW h, GoodState(h)
    PROVE  Quietly(h, h)
BY StateSpeaks DEF GoodState, Quietly, OnlyNews, Speaker

LEMMA KickedQuietly ==
    ASSUME NEW h, GoodState(h), NEW l, NEW c, NEW r, r = on_team_member_kicked(h, l, c)
    PROVE  Quietly(h, r)
<1>1. PICK n : n = FirstLedBy(h, l)
  OBVIOUS
<1>2. h.teams \in Seq(TeamRecords)
  BY DEF GoodState, GoodTeams
<1>3. CASE n # 0 /\ containsEntityID(h.teams[n], c)
  <2>1. n \in 1..Len(h.teams)
    BY <1>1, <1>2, <1>3, TeamFound
  <2>2. h.teams[n] \in TeamRecords
    BY <2>1, TeamAt DEF GoodState
  <2>3. c \in Who(h.teams[n])
    BY <1>3, <2>2 DEF TeamRecords, containsEntityID, Who
  <2>4. r = Removed(h, n, c, "Kicked")
    BY <1>1, <1>3 DEF on_team_member_kicked
  <2> QED BY <2>1, <2>3, <2>4, RemovedQuietly
<1>4. CASE ~(n # 0 /\ containsEntityID(h.teams[n], c))
  <2>1. r = h
    BY <1>1, <1>4 DEF on_team_member_kicked
  <2> QED BY <2>1, StaysQuiet
<1> QED BY <1>3, <1>4

LEMMA LeaveQuietly ==
    ASSUME NEW h, GoodState(h), NEW c, NEW r, r = on_team_leave_team(h, c)
    PROVE  Quietly(h, r)
<1>1. PICK n : n = FirstWith(h, c)
  OBVIOUS
<1>2. h.teams \in Seq(TeamRecords)
  BY DEF GoodState, GoodTeams
<1>3. CASE n # 0
  <2>1. n \in 1..Len(h.teams) /\ c \in Who(h.teams[n])
    BY <1>1, <1>2, <1>3, TeamFound
  <2>2. r = Removed(h, n, c, "Left")
    BY <1>1, <1>3 DEF on_team_leave_team
  <2> QED BY <2>1, <2>2, RemovedQuietly
<1>4. CASE n = 0
  <2>1. r = h
    BY <1>1, <1>4 DEF on_team_leave_team
  <2> QED BY <2>1, StaysQuiet
<1> QED BY <1>3, <1>4

(* A team that is changed and then told of                                 *)
LEMMA ChangedQuietly ==
    ASSUME NEW h, GoodState(h), NEW n, NEW t \in TeamRecords,
           NEW token \in Characters \union {NoLeader},
           NEW r, r = notify_team_of_changes(WithTeam(h, n, t), t, token)
    PROVE  Quietly(h, r)
<1>1. Speaker(h)
  BY StateSpeaks DEF GoodState
<1>2. PICK g : g = WithTeam(h, n, t)
  OBVIOUS
<1>3. Quietly(h, g) /\ Speaker(g)
  BY <1>1, <1>2, WithTeamQuietly DEF Quietly
<1>4. Quietly(g, r)
  BY <1>2, <1>3, NotifyQuietly
<1> QED BY <1>1, <1>3, <1>4, QuietlyOn

LEMMA MakeLeaderQuietly ==
    ASSUME NEW h, GoodState(h), NEW l, NEW c, NEW r, r = on_team_member_make_leader(h, l, c)
    PROVE  Quietly(h, r)
<1>1. PICK n : n = FirstLedBy(h, l)
  OBVIOUS
<1>2. h.teams \in Seq(TeamRecords)
  BY DEF GoodState, GoodTeams
<1>3. CASE n # 0 /\ containsEntityID(h.teams[n], c) /\ ~isNamePending(h.teams[n], c)
  <2>1. n \in 1..Len(h.teams)
    BY <1>1, <1>2, <1>3, TeamFound
  <2>2. PICK old : old = h.teams[n]
    OBVIOUS
  <2>3. old \in TeamRecords /\ Who(old) \subseteq Characters
    BY <2>1, <2>2, TeamAt DEF GoodState
  <2>4. c \in Characters
    BY <1>3, <2>2, <2>3 DEF TeamRecords, containsEntityID, Who
  <2>5. PICK t : t = [old EXCEPT !.leader = c]
    OBVIOUS
  <2>6. t \in TeamRecords
    BY <2>3, <2>4, <2>5 DEF TeamRecords
  <2>7. r = notify_team_of_changes(WithTeam(h, n, t), t, NoLeader)
    BY <1>1, <1>3, <2>2, <2>5 DEF on_team_member_make_leader
  <2> QED BY <2>6, <2>7, NobodyIsAToken, ChangedQuietly
<1>4. CASE ~(n # 0 /\ containsEntityID(h.teams[n], c) /\ ~isNamePending(h.teams[n], c))
  <2>1. r = h
    BY <1>1, <1>4 DEF on_team_member_make_leader
  <2> QED BY <2>1, StaysQuiet
<1> QED BY <1>3, <1>4

LEMMA AnswerQuietly ==
    ASSUME NEW h, GoodState(h), NEW c \in Characters, NEW l, NEW accepted \in BOOLEAN,
           NEW r, r = on_team_member_invite_handled(h, c, l, accepted)
    PROVE  Quietly(h, r)
<1>1. PICK n : n = LastWith(h, c)
  OBVIOUS
<1>2. h.teams \in Seq(TeamRecords)
  BY DEF GoodState, GoodTeams
<1>3. CASE n = 0 \/ h.teams[n].leader # l \/ ~isNamePending(h.teams[n], c)
  <2>1. r = h
    BY <1>1, <1>3 DEF on_team_member_invite_handled
  <2> QED BY <2>1, StaysQuiet
<1>4. CASE ~(n = 0 \/ h.teams[n].leader # l \/ ~isNamePending(h.teams[n], c))
  <2>1. n \in 1..Len(h.teams)
    BY <1>1, <1>2, <1>4, TeamFound
  <2>2. PICK old : old = h.teams[n]
    OBVIOUS
  <2>3. Shaped(old)
    BY <2>1, <2>2, TeamAt DEF GoodState
  <2>4. CASE accepted
    <3>1. PICK t : t = acceptTeamInvite(old, c)
      OBVIOUS
    <3>2. t \in TeamRecords
      BY <2>3, <3>1, MemberAccepted DEF Shaped
    <3>3. r = notify_team_of_changes(WithTeam(h, n, t), t, c)
      BY <1>1, <1>4, <2>2, <2>4, <3>1 DEF on_team_member_invite_handled
    <3> QED BY <3>2, <3>3, ChangedQuietly
  <2>5. CASE ~accepted
    <3>1. r = WithTeam(h, n, removeTeamMember(old, c))
      BY <1>1, <1>4, <2>2, <2>5 DEF on_team_member_invite_handled
    <3>2. Speaker(h)
      BY StateSpeaks DEF GoodState
    <3> QED BY <3>1, <3>2, WithTeamQuietly
  <2> QED BY <2>4, <2>5
<1> QED BY <1>3, <1>4

LEMMA ToggleQuietly ==
    ASSUME NEW h, GoodState(h), NEW c \in Characters, NEW r, r = on_team_toggle_lfg(h, c)
    PROVE  Quietly(h, r)
<1>1. Speaker(h)
  BY StateSpeaks DEF GoodState
<1>2. PICK msg \in RouterMessages : msg = [type |-> "ToggleLFG", token |-> c]
  BY DEF RouterMessages
<1>3. PICK f : f = Forward(h, msg)
  OBVIOUS
<1>4. msg.type \in News
  BY <1>2 DEF News
<1>5. Quietly(h, f) /\ f.lfg = h.lfg
  BY <1>1, <1>3, <1>4, ForwardQuietly
<1>6. r = h \/ \E s : s \subseteq Characters /\ r = [f EXCEPT !.lfg = s]
  <2>1. h.lfg \subseteq Characters
    BY <1>1 DEF Speaker
  <2>2. PICK n : n = LastWith(h, c)
    OBVIOUS
  <2>3. \/ r = [f EXCEPT !.lfg = f.lfg \ {c}] \/ r = h
        \/ r = [f EXCEPT !.lfg = f.lfg \union {c}]
    BY <1>2, <1>3 DEF on_team_toggle_lfg
  <2>4. f.lfg \ {c} \subseteq Characters /\ f.lfg \union {c} \subseteq Characters
    BY <1>5, <2>1
  <2> QED BY <2>3, <2>4
<1>7. CASE r = h
  BY <1>7, StaysQuiet
<1>8. CASE \E s : s \subseteq Characters /\ r = [f EXCEPT !.lfg = s]
  <2>1. PICK s : s \subseteq Characters /\ r = [f EXCEPT !.lfg = s]
    BY <1>8
  <2>2. Speaker(f)
    BY <1>5 DEF Quietly
  <2>3. /\ r.known = f.known /\ r.pending = f.pending /\ r.out = f.out /\ r.lfg = s
        /\ r = [teams |-> r.teams, known |-> r.known, lfg |-> r.lfg, pending |-> r.pending,
                out |-> r.out]
    BY <2>1, <2>2 DEF Speaker
  <2>4. Speaker(r)
    BY <2>1, <2>2, <2>3 DEF Speaker
  <2> QED BY <1>5, <2>3, <2>4 DEF Quietly
<1> QED BY <1>6, <1>7, <1>8

LEMMA InvitedToQuietly ==
    ASSUME NEW h, GoodState(h), NEW l \in Characters, NEW c \in Characters,
           NEW r, r = InvitedTo(h, l, c)
    PROVE  Quietly(h, r)
<1>1. PICK n : n = LastWith(h, l)
  OBVIOUS
<1>2. Speaker(h)
  BY StateSpeaks DEF GoodState
<1>3. PICK msg \in RouterMessages : msg = [type |-> "Offer", leader |-> l, who |-> c]
  BY DEF RouterMessages
<1>4. PICK ts : ts = IF n = 0 THEN Append(h.teams, WithInvitee(Lead(l), c))
                     ELSE [h.teams EXCEPT ![n] = WithInvitee(@, c)]
  OBVIOUS
<1>5. PICK g : g = [h EXCEPT !.teams = ts]
  OBVIOUS
<1>6. r = Forward(g, msg)
  <2>1. CASE n = 0
    BY <1>1, <1>3, <1>4, <1>5, <2>1 DEF InvitedTo, WithInvitee, Lead
  <2>2. CASE n # 0
    BY <1>1, <1>3, <1>4, <1>5, <2>2 DEF InvitedTo, WithInvitee
  <2> QED BY <2>1, <2>2
<1>7. /\ g.teams = ts /\ g.known = h.known /\ g.lfg = h.lfg /\ g.pending = h.pending
      /\ g.out = h.out
      /\ g = [teams |-> g.teams, known |-> g.known, lfg |-> g.lfg, pending |-> g.pending,
              out |-> g.out]
  BY <1>2, <1>5 DEF Speaker
<1>8. Quietly(h, g) /\ Speaker(g)
  BY <1>2, <1>7 DEF Quietly, Speaker, OnlyNews
<1>9. msg.type \in News
  BY <1>3 DEF News
<1>10. Quietly(g, r)
  BY <1>6, <1>8, <1>9, ForwardQuietly
<1> QED BY <1>2, <1>8, <1>10, QuietlyOn

LEMMA Acquainted ==
    ASSUME NEW h, GoodState(h), NEW c \in Characters,
           NEW g, g = [h EXCEPT !.known = @ \union {c}]
    PROVE  /\ GoodState(g) /\ g.known = h.known \union {c}
           /\ g.teams = h.teams /\ g.lfg = h.lfg /\ g.pending = h.pending /\ g.out = h.out
<1> HIDE DEF TeamRecords, Invitations, RouterMessages
<1>1. /\ g \in HandlerStates /\ g.teams = h.teams /\ g.lfg = h.lfg
      /\ g.known = h.known \union {c} /\ g.pending = h.pending /\ g.out = h.out
  BY DEF GoodState, HandlerStates
<1> QED BY <1>1 DEF GoodState

QueryOf(c) == [type |-> "Query", who |-> c]

Invitation(l, c) == [leader |-> l, invitee |-> c]

AsksFor(h, r, l, c) ==
    /\ r.pending = [h.pending EXCEPT ![c] = Append(@, Invitation(l, c))]
    /\ r.lfg = h.lfg /\ r.out = Append(h.out, QueryOf(c))

AsksNothing(h, r) == r.pending = h.pending /\ OnlyNews(h.out, r.out)

(* An invitation asks for a name that is not known, and for no other.      *)
LEMMA InvitedAsks ==
    ASSUME NEW h, GoodState(h), NEW l \in Characters, NEW c \in Characters,
           NEW r, r = on_team_member_invited(h, l, c)
    PROVE  /\ r.known = h.known \union {l}
           /\ c \notin h.known \union {l} => AsksFor(h, r, l, c)
           /\ c \in h.known \union {l} => AsksNothing(h, r)
<1>1. PICK g : g = [h EXCEPT !.known = @ \union {l}]
  OBVIOUS
<1>2. /\ GoodState(g) /\ g.known = h.known \union {l}
      /\ g.teams = h.teams /\ g.lfg = h.lfg /\ g.pending = h.pending /\ g.out = h.out
  BY <1>1, Acquainted
<1>3. Speaker(g)
  BY <1>2, StateSpeaks DEF GoodState
<1>4. CASE c \notin g.known
  <2>1. PICK p : p = [g.pending EXCEPT ![c] = Append(@, Invitation(l, c))]
    OBVIOUS
  <2>2. PICK f : f = [g EXCEPT !.pending = p]
    OBVIOUS
  <2>3. r = Forward(f, QueryOf(c))
    BY <1>1, <1>4, <2>1, <2>2 DEF on_team_member_invited, QueryOf, Invitation
  <2>4. /\ f.teams = g.teams /\ f.known = g.known /\ f.lfg = g.lfg /\ f.pending = p
        /\ f.out = g.out
        /\ f = [teams |-> f.teams, known |-> f.known, lfg |-> f.lfg, pending |-> f.pending,
                out |-> f.out]
    BY <1>3, <2>2 DEF Speaker
  <2>5. r = [f EXCEPT !.out = Append(f.out, QueryOf(c))]
    BY <2>3 DEF Forward
  <2>6. /\ r.known = g.known /\ r.lfg = g.lfg /\ r.pending = p
        /\ r.out = Append(g.out, QueryOf(c))
    BY <2>4, <2>5
  <2> QED BY <1>2, <1>4, <2>1, <2>6 DEF AsksFor
<1>5. CASE c \in g.known /\ RefusesInvitation(g, l, c)
  <2>1. r = g
    BY <1>1, <1>5 DEF on_team_member_invited
  <2>2. Quietly(g, r)
    BY <1>2, <2>1, StaysQuiet
  <2> QED BY <1>2, <1>5, <2>2 DEF Quietly, AsksNothing
<1>6. CASE c \in g.known /\ ~RefusesInvitation(g, l, c)
  <2>1. r = InvitedTo(g, l, c)
    BY <1>1, <1>6 DEF on_team_member_invited
  <2>2. Quietly(g, r)
    BY <1>2, <2>1, InvitedToQuietly
  <2> QED BY <1>2, <1>6, <2>2 DEF Quietly, AsksNothing
<1> QED BY <1>4, <1>5, <1>6

LEMMA InvitedAsksNothing ==
    ASSUME NEW h, GoodState(h), NEW l \in Characters, NEW c \in h.known, c \in Characters,
           NEW r, r = on_team_member_invited(h, l, c)
    PROVE  r.known = h.known \union {l} /\ AsksNothing(h, r)
BY InvitedAsks

(* The invitations that waited for a name ask for nothing once it is known.*)
QuietSoFar(base, events, k, h) ==
    /\ GoodState(h) /\ h.pending = base.pending /\ base.known \subseteq h.known
    /\ OnlyNews(base.out, h.out)

QuietLoop == INSTANCE FoldProofs WITH Op <- dispatch, Inv <- QuietSoFar

LEMMA ResponseQuietly ==
    ASSUME NEW h, GoodState(h), NEW c \in Characters,
           \A i \in 1..Len(h.pending[c]) : h.pending[c][i].invitee = c,
           NEW r, r = on_user_router_query_response(h, c)
    PROVE  /\ h.known \union {c} \subseteq r.known
           /\ r.pending = [h.pending EXCEPT ![c] = << >>]
           /\ OnlyNews(h.out, r.out)
<1>1. PICK base : base = [h EXCEPT !.known = @ \union {c}]
  OBVIOUS
<1>2. /\ GoodState(base) /\ base.known = h.known \union {c}
      /\ base.lfg = h.lfg /\ base.pending = h.pending /\ base.out = h.out
  BY <1>1, Acquainted
<1>3. PICK s \in Seq(Invitations) : s = h.pending[c]
  BY DEF GoodState, HandlerStates
<1>4. PICK n \in Nat : n = Len(s) /\ DOMAIN s = 1..n
  OBVIOUS
<1>5. FoldLeft(dispatch, base, s) = QuietLoop!Folded(base, s, n)
  BY <1>4 DEF QuietLoop!Folded, QuietLoop!MapThenFoldSet, QuietLoop!Max, FoldLeft, MapThenFoldSet, Max
<1>6. ASSUME NEW k \in 1..n, NEW g, QuietSoFar(base, s, k - 1, g)
      PROVE  QuietSoFar(base, s, k, dispatch(g, s[k]))
  <2>1. s[k] \in Invitations /\ s[k].invitee = c
    BY <1>3, <1>4
  <2>2. PICK l \in Characters : l = s[k].leader
    BY <2>1 DEF Invitations
  <2>3. PICK x : x = on_team_member_invited(g, l, c)
    OBVIOUS
  <2>4. GoodState(g) /\ c \in g.known /\ g.pending = base.pending /\ base.known \subseteq g.known
    BY <1>2, <1>6 DEF QuietSoFar
  <2>5. GoodState(x)
    BY <2>3, <2>4, InvitedKeeps
  <2>6. /\ x.known = g.known \union {l} /\ x.pending = g.pending
        /\ OnlyNews(g.out, x.out)
    BY <2>3, <2>4, InvitedAsksNothing DEF AsksNothing
  <2>7. OnlyNews(base.out, x.out)
    <3>1. OnlyNews(base.out, g.out)
      BY <1>6 DEF QuietSoFar
    <3>2. /\ base.out \in Seq(RouterMessages) /\ g.out \in Seq(RouterMessages)
          /\ x.out \in Seq(RouterMessages)
      BY <1>2, <2>4, <2>5 DEF GoodState, HandlerStates
    <3> HIDE DEF RouterMessages
    <3> QED BY <2>6, <3>1, <3>2, NewsOfNews
  <2>8. QuietSoFar(base, s, k, x)
    BY <2>4, <2>5, <2>6, <2>7 DEF QuietSoFar
  <2>9. dispatch(g, s[k]) = x
    BY <2>1, <2>2, <2>3 DEF dispatch
  <2> QED BY <2>8, <2>9
<1>7. QuietSoFar(base, s, 0, base)
  <2>1. Quietly(base, base)
    BY <1>2, StaysQuiet
  <2> QED BY <1>2, <2>1 DEF QuietSoFar, Quietly
<1>8. QuietSoFar(base, s, n, QuietLoop!Folded(base, s, n))
  BY <1>6, <1>7, QuietLoop!FoldInduction
<1>9. PICK again : again = FoldLeft(dispatch, base, s)
  OBVIOUS
<1>10. QuietSoFar(base, s, n, again)
  BY <1>5, <1>8, <1>9
<1>11. PICK p : p = [again.pending EXCEPT ![c] = << >>]
  OBVIOUS
<1>12. r = [again EXCEPT !.pending = p]
  BY <1>1, <1>3, <1>9, <1>11 DEF on_user_router_query_response
<1>13. Speaker(again)
  BY <1>10, StateSpeaks DEF QuietSoFar, GoodState
<1>14. r.known = again.known /\ r.lfg = again.lfg /\ r.out = again.out /\ r.pending = p
  BY <1>12, <1>13 DEF Speaker
<1> QED BY <1>2, <1>10, <1>11, <1>14 DEF QuietSoFar

-----------------------------------------------------------------------------
(* Answers meet what waits for them.                                       *)

Has(q, S) == \E i \in 1..Len(q) : q[i] \in S

Queries(c) == {msg \in RouterMessages : msg.type = "Query" /\ msg.who = c}

Responses(c) == {ev \in TeamEvents : ev.type = "Response" /\ ev.who = c}

(* With the events q, the messages o, the known names kn and the kept      *)
(* invitations pend: whoever is looked up is waited for, and whoever is    *)
(* waited for is looked up.                                                *)
Sought(q, o, c) == Has(o, Queries(c)) \/ Has(q, Responses(c))

Awaited(q, o, kn, pend, c) ==
    /\ \A i \in 1..Len(pend[c]) : pend[c][i].invitee = c
    /\ c \notin kn /\ Sought(q, o, c) => pend[c] # << >>

Coming(q, o, pend, c) == pend[c] # << >> => Sought(q, o, c)

Staying == ThereAtStart \ left

Meeting ==
    /\ \A c \in Characters : Awaited(teamq, router, known, pending, c)
    /\ \A c \in Staying : Coming(teamq, router, pending, c)
    /\ Staying \subseteq here
    /\ service = "team" \/ manner = {}

LEMMA TailHas ==
    ASSUME NEW T, NEW q \in Seq(T), q # << >>, NEW S
    PROVE  /\ Has(Tail(q), S) => Has(q, S)
           /\ Head(q) \in S => Has(q, S)
           /\ Head(q) \notin S /\ Has(q, S) => Has(Tail(q), S)
<1>1. PICK n \in Nat : n = Len(q) /\ n # 0 /\ 1 \in 1..n
  OBVIOUS
<1>2. /\ Len(Tail(q)) = n - 1 /\ Head(q) = q[1]
      /\ \A i \in 1..(n - 1) : Tail(q)[i] = q[i + 1] /\ i + 1 \in 1..n
      /\ \A i \in 1..n : i = 1 \/ (i - 1 \in 1..(n - 1) /\ Tail(q)[i - 1] = q[i])
  BY <1>1
<1> QED BY <1>1, <1>2 DEF Has

LEMMA AppendHas ==
    ASSUME NEW T, NEW q \in Seq(T), NEW x \in T, NEW S
    PROVE  Has(Append(q, x), S) <=> Has(q, S) \/ x \in S
<1>1. PICK n \in Nat : n = Len(q)
  OBVIOUS
<1>2. /\ Len(Append(q, x)) = n + 1 /\ Append(q, x)[n + 1] = x
      /\ \A i \in 1..n : Append(q, x)[i] = q[i] /\ i \in 1..(n + 1)
      /\ \A i \in 1..(n + 1) : i \in 1..n \/ i = n + 1
      /\ n + 1 \in 1..(n + 1)
  BY <1>1
<1> QED BY <1>1, <1>2 DEF Has

LEMMA NewsHas ==
    ASSUME NEW q \in Seq(RouterMessages), NEW p, OnlyNews(q, p), NEW c
    PROVE  Has(p, Queries(c)) <=> Has(q, Queries(c))
<1>1. \A x \in Queries(c) : x.type \notin News
  BY DEF Queries, News
<1>2. \A i \in 1..Len(q) : i \in 1..Len(p)
  BY DEF OnlyNews
<1> QED BY <1>1, <1>2 DEF OnlyNews, Has

(* More names are known, and of c as much is on its way as before.         *)
LEMMA StillMeets ==
    ASSUME NEW q, NEW o, NEW kn, NEW pend, NEW c, Awaited(q, o, kn, pend, c),
           NEW p, NEW n, NEW more, Sought(p, n, c) <=> Sought(q, o, c), kn \subseteq more
    PROVE  /\ Awaited(p, n, more, pend, c)
           /\ Coming(q, o, pend, c) => Coming(p, n, pend, c)
BY DEF Awaited, Coming

LEMMA MeetsAfter ==
    ASSUME Meeting, \A c \in Characters : Sought(teamq', router', c) <=> Sought(teamq, router, c),
           pending' = pending, known \subseteq known',
           UNCHANGED <<here, left, manner, service>>
    PROVE  Meeting'
<1>1. Staying' = Staying /\ Staying \subseteq Characters
  BY DEF Staying, ThereAtStart
<1>2. \A c \in Characters : Awaited(teamq', router', known', pending, c)
  BY StillMeets DEF Meeting
<1>3. \A c \in Staying : Coming(teamq', router', pending, c)
  BY <1>1, StillMeets DEF Meeting
<1> QED BY <1>1, <1>2, <1>3 DEF Meeting

(* The handler takes an event that is no answer to a lookup.               *)
LEMMA TakenSeeks ==
    ASSUME TeamInv, NEW type, Takes(type), type # "Response",
           OnlyNews(router, router'), NEW c
    PROVE  Sought(teamq', router', c) <=> Sought(teamq, router, c)
<1>1. PICK q \in Seq(TeamEvents) : q = teamq /\ q # << >> /\ teamq' = Tail(q)
  BY DEF TeamInv, TeamTypeOK, Takes
<1>2. Head(q) \notin Responses(c)
  BY <1>1, TakenEvent DEF Responses
<1>3. Has(Tail(q), Responses(c)) <=> Has(q, Responses(c))
  <2> HIDE DEF TeamEvents
  <2> QED BY <1>1, <1>2, TailHas
<1>4. router \in Seq(RouterMessages)
  BY DEF TeamInv, TeamTypeOK
<1>5. Has(router', Queries(c)) <=> Has(router, Queries(c))
  BY <1>4, NewsHas
<1> QED BY <1>1, <1>3, <1>5 DEF Sought

LEMMA QuietStep ==
    ASSUME TeamInv, Meeting, service' = service, NEW type, Takes(type), type # "Response",
           NEW r, Quietly(State, r), Becomes(r)
    PROVE  Meeting'
<1>1. OnlyNews(router, router') /\ pending' = pending /\ known' = known
  BY DEF Quietly, Becomes, State
<1>2. \A c : Sought(teamq', router', c) <=> Sought(teamq, router, c)
  BY <1>1, TakenSeeks
<1>3. UNCHANGED <<here, left, manner>>
  BY DEF Takes
<1> QED BY <1>1, <1>2, <1>3, MeetsAfter

LEMMA InvitedMeets ==
    ASSUME TeamInv, Meeting, service' = service, HandlesInvited
    PROVE  Meeting'
<1>1. Takes("Invited") /\ UNCHANGED <<here, left, manner, service>>
  BY DEF HandlesInvited, Takes
<1>2. PICK ev \in TeamEvents : ev = Head(teamq) /\ ev.type = "Invited"
  BY <1>1, TakenEvent
<1>3. PICK l \in Characters : l = ev.leader
  BY <1>2, EventFields
<1>4. PICK c \in Characters : c = ev.invitee
  BY <1>2, EventFields
<1>5. PICK h : h = State
  OBVIOUS
<1>6. GoodState(h)
  BY <1>5, StateIsGood
<1>7. PICK r : r = on_team_member_invited(h, l, c)
  OBVIOUS
<1>8. Becomes(r)
  BY <1>2, <1>3, <1>4, <1>5, <1>7 DEF HandlesInvited
<1>9. h.known = known /\ h.pending = pending /\ h.out = router
  BY <1>5 DEF State
<1>10. known' = known \union {l}
  <2>1. r.known = h.known \union {l}
    BY <1>6, <1>7, InvitedAsks
  <2> QED BY <1>8, <1>9, <2>1 DEF Becomes
<1>11. CASE c \in h.known \union {l}
  <2>1. AsksNothing(h, r)
    BY <1>6, <1>7, <1>11, InvitedAsks
  <2>2. OnlyNews(router, router') /\ pending' = pending
    BY <1>8, <1>9, <2>1 DEF AsksNothing, Becomes
  <2>3. \A d : Sought(teamq', router', d) <=> Sought(teamq, router, d)
    BY <1>1, <2>2, TakenSeeks
  <2>4. known \subseteq known'
    BY <1>10
  <2> QED BY <1>1, <2>2, <2>3, <2>4, MeetsAfter
<1>12. CASE c \notin h.known \union {l}
  <2>1. AsksFor(h, r, l, c)
    BY <1>6, <1>7, <1>12, InvitedAsks
  <2>2. PICK msg \in RouterMessages : msg = QueryOf(c)
    BY DEF QueryOf, RouterMessages
  <2>3. PICK o \in Seq(RouterMessages) : o = router
    BY DEF TeamInv, TeamTypeOK
  <2>4. PICK q \in Seq(TeamEvents) : q = teamq /\ q # << >> /\ teamq' = Tail(q) /\ ev = Head(q)
    BY <1>1, <1>2 DEF TeamInv, TeamTypeOK, Takes
  <2>5. router' = Append(o, msg)
    BY <1>8, <1>9, <2>1, <2>2, <2>3 DEF AsksFor, Becomes
  <2>6. pending' = [pending EXCEPT ![c] = Append(pending[c], Invitation(l, c))]
    BY <1>8, <1>9, <2>1 DEF AsksFor, Becomes
  <2>7. pending \in [Characters -> Seq(Invitations)]
    BY DEF TeamInv, TeamTypeOK
  <2>8. PICK inv \in Invitations : inv = Invitation(l, c) /\ inv.invitee = c
    <3>1. Invitation(l, c) \in Invitations
      BY DEF Invitations, Invitation
    <3> QED BY <3>1 DEF Invitation
  <2>9. msg \in Queries(c) /\ \A d : d # c => msg \notin Queries(d)
    BY <2>2 DEF Queries, QueryOf
  <2>10. \A d : Has(Tail(q), Responses(d)) <=> Has(q, Responses(d))
    <3>1. \A d : Head(q) \notin Responses(d)
      BY <1>2, <2>4 DEF Responses
    <3> HIDE DEF TeamEvents
    <3> QED BY <2>4, <3>1, TailHas
  <2>11. \A d : Has(Append(o, msg), Queries(d)) <=> Has(o, Queries(d)) \/ msg \in Queries(d)
    <3> HIDE DEF RouterMessages
    <3> QED BY AppendHas
  <2>12. Sought(teamq', router', c)
    BY <2>5, <2>9, <2>11 DEF Sought
  <2>13. \A d : d # c => (Sought(teamq', router', d) <=> Sought(teamq, router, d))
    BY <2>3, <2>4, <2>5, <2>9, <2>10, <2>11 DEF Sought
  <2>14. PICK s \in Seq(Invitations) : s = pending[c]
    BY <2>7
  <2>15. pending'[c] = Append(s, inv)
    BY <2>6, <2>7, <2>8, <2>14
  <2>16. \A i \in 1..Len(s) : s[i].invitee = c
    BY <2>14 DEF Meeting, Awaited
  <2>17. /\ pending'[c] # << >>
         /\ \A i \in 1..Len(pending'[c]) : pending'[c][i].invitee = c
    <3>1. PICK p : p = Append(s, inv)
      OBVIOUS
    <3>2. PICK n \in Nat : n = Len(s)
      OBVIOUS
    <3>3. /\ Len(p) = n + 1 /\ p[n + 1] = inv /\ p # << >>
          /\ \A i \in 1..n : p[i] = s[i]
          /\ \A i \in 1..(n + 1) : i \in 1..n \/ i = n + 1
      BY <3>1, <3>2
    <3> QED BY <2>8, <2>15, <2>16, <3>1, <3>2, <3>3
  <2>18. \A d \in Characters : d # c => pending'[d] = pending[d]
    BY <2>6, <2>7
  <2>19. ASSUME NEW d \in Characters PROVE Awaited(teamq', router', known', pending', d)
    <3>1. CASE d = c
      BY <2>17, <3>1 DEF Awaited
    <3>2. CASE d # c
      <4>1. Awaited(teamq, router, known, pending, d)
        BY DEF Meeting
      <4> QED BY <1>10, <2>13, <2>18, <3>2, <4>1 DEF Awaited
    <3> QED BY <3>1, <3>2
  <2>20. ASSUME NEW d \in Characters, Coming(teamq, router, pending, d)
         PROVE  Coming(teamq', router', pending', d)
    BY <2>12, <2>13, <2>18, <2>20 DEF Coming
  <2>21. Staying' = Staying /\ Staying \subseteq Characters
    BY <1>1 DEF Staying, ThereAtStart
  <2> QED BY <1>1, <2>19, <2>20, <2>21 DEF Meeting
<1> QED BY <1>11, <1>12

LEMMA ResponseMeets ==
    ASSUME TeamInv, Meeting, service' = service, HandlesResponse
    PROVE  Meeting'
<1>1. Takes("Response") /\ UNCHANGED <<here, left, manner, service>>
  BY DEF HandlesResponse, Takes
<1>2. PICK ev \in TeamEvents : ev = Head(teamq) /\ ev.type = "Response"
  BY <1>1, TakenEvent
<1>3. PICK c \in Characters : c = ev.who
  BY <1>2, EventFields
<1>4. PICK q \in Seq(TeamEvents) : q = teamq /\ q # << >> /\ teamq' = Tail(q) /\ ev = Head(q)
  BY <1>1, <1>2 DEF TeamInv, TeamTypeOK, Takes
<1>5. PICK o \in Seq(RouterMessages) : o = router
  BY DEF TeamInv, TeamTypeOK
<1>6. \A d : d # c => ev \notin Responses(d)
  BY <1>2, <1>3 DEF Responses
<1>7. \A d : d # c => (Has(Tail(q), Responses(d)) <=> Has(q, Responses(d)))
  <2> HIDE DEF TeamEvents
  <2> QED BY <1>4, <1>6, TailHas
<1>8. PICK h : h = State
  OBVIOUS
<1>9. GoodState(h) /\ h.known = known /\ h.pending = pending /\ h.out = router
  BY <1>8, StateIsGood DEF State
<1>10. PICK r : r = on_user_router_query_response(h, c)
  OBVIOUS
<1>11. Becomes(r)
  BY <1>2, <1>3, <1>8, <1>10 DEF HandlesResponse
<1>12. \A i \in 1..Len(h.pending[c]) : h.pending[c][i].invitee = c
  BY <1>9 DEF Meeting, Awaited
<1>13. /\ h.known \union {c} \subseteq r.known
       /\ r.pending = [h.pending EXCEPT ![c] = << >>]
       /\ OnlyNews(h.out, r.out)
  BY <1>9, <1>10, <1>12, ResponseQuietly
<1>14. OnlyNews(o, router') /\ known \union {c} \subseteq known'
  BY <1>5, <1>9, <1>11, <1>13 DEF Becomes
<1>15. pending' = [pending EXCEPT ![c] = << >>]
  BY <1>9, <1>11, <1>13 DEF Becomes
<1>16. pending \in [Characters -> Seq(Invitations)]
  BY DEF TeamInv, TeamTypeOK
<1>17. pending'[c] = << >> /\ \A d \in Characters : d # c => pending'[d] = pending[d]
  BY <1>15, <1>16
<1>18. \A d : d # c => (Sought(teamq', router', d) <=> Sought(teamq, router, d))
  BY <1>4, <1>5, <1>7, <1>14, NewsHas DEF Sought
<1>19. ASSUME NEW d \in Characters PROVE Awaited(teamq', router', known', pending', d)
  <2>1. CASE d = c
    <3>1. Len(pending'[c]) = 0
      BY <1>17
    <3> QED BY <1>14, <2>1, <3>1 DEF Awaited
  <2>2. CASE d # c
    <3>1. Awaited(teamq, router, known, pending, d)
      BY DEF Meeting
    <3> QED BY <1>14, <1>17, <1>18, <2>2, <3>1 DEF Awaited
  <2> QED BY <2>1, <2>2
<1>20. ASSUME NEW d \in Characters, Coming(teamq, router, pending, d)
       PROVE  Coming(teamq', router', pending', d)
  BY <1>17, <1>18, <1>20 DEF Coming
<1>21. Staying' = Staying /\ Staying \subseteq Characters
  BY <1>1 DEF Staying, ThereAtStart
<1> QED BY <1>1, <1>19, <1>20, <1>21 DEF Meeting

LEMMA HandlersMeet ==
    ASSUME TeamInv, Meeting, service' = service,
           \/ HandlesInvited \/ HandlesKicked \/ HandlesMakeLeader \/ HandlesLeave
           \/ HandlesAnswer \/ HandlesToggleLFG \/ HandlesResponse
    PROVE  Meeting'
<1>1. PICK h : h = State
  OBVIOUS
<1>2. GoodState(h)
  BY <1>1, StateIsGood
<1>3. PICK ev : ev = Head(teamq)
  OBVIOUS
<1>4. CASE HandlesKicked
  <2>1. PICK r : r = on_team_member_kicked(h, ev.leader, ev.who)
    OBVIOUS
  <2>2. Quietly(h, r)
    BY <1>2, <2>1, KickedQuietly
  <2>3. Takes("Kicked") /\ Becomes(r)
    BY <1>1, <1>3, <1>4, <2>1 DEF HandlesKicked
  <2> QED BY <1>1, <2>2, <2>3, QuietStep
<1>5. CASE HandlesMakeLeader
  <2>1. PICK r : r = on_team_member_make_leader(h, ev.leader, ev.who)
    OBVIOUS
  <2>2. Quietly(h, r)
    BY <1>2, <2>1, MakeLeaderQuietly
  <2>3. Takes("MakeLeader") /\ Becomes(r)
    BY <1>1, <1>3, <1>5, <2>1 DEF HandlesMakeLeader
  <2> QED BY <1>1, <2>2, <2>3, QuietStep
<1>6. CASE HandlesLeave
  <2>1. PICK r : r = on_team_leave_team(h, ev.who)
    OBVIOUS
  <2>2. Quietly(h, r)
    BY <1>2, <2>1, LeaveQuietly
  <2>3. Takes("Leave") /\ Becomes(r)
    BY <1>1, <1>3, <1>6, <2>1 DEF HandlesLeave
  <2> QED BY <1>1, <2>2, <2>3, QuietStep
<1>7. CASE HandlesAnswer
  <2>1. PICK r : r = on_team_member_invite_handled(h, ev.invitee, ev.leader, ev.accepted)
    OBVIOUS
  <2>2. ev \in TeamEvents /\ ev.type = "Handled"
    BY <1>3, <1>7, TakenEvent DEF HandlesAnswer
  <2>3. ev.invitee \in Characters /\ ev.accepted \in BOOLEAN
    BY <2>2, EventFields
  <2>4. Quietly(h, r)
    BY <1>2, <2>1, <2>3, AnswerQuietly
  <2>5. Takes("Handled") /\ Becomes(r)
    BY <1>1, <1>3, <1>7, <2>1 DEF HandlesAnswer
  <2> QED BY <1>1, <2>4, <2>5, QuietStep
<1>8. CASE HandlesToggleLFG
  <2>1. ev \in TeamEvents /\ ev.type = "ToggleLFG"
    BY <1>3, <1>8, TakenEvent DEF HandlesToggleLFG
  <2>2. PICK c \in Characters : c = ev.who
    BY <2>1, EventFields
  <2>3. PICK r : r = on_team_toggle_lfg(h, c)
    OBVIOUS
  <2>4. Quietly(h, r)
    BY <1>2, <2>3, ToggleQuietly
  <2>5. Takes("ToggleLFG") /\ Becomes(r)
    BY <1>1, <1>3, <1>8, <2>2, <2>3 DEF HandlesToggleLFG
  <2> QED BY <1>1, <2>4, <2>5, QuietStep
<1> QED BY <1>4, <1>5, <1>6, <1>7, <1>8, InvitedMeets, ResponseMeets

(* A command is no answer.                                                 *)
LEMMA CommandMeets ==
    ASSUME TeamInv, Meeting, service' = service, NEW ev \in TeamEvents, PostTeam(ev),
           UNCHANGED commandRest, ev.type # "Response"
    PROVE  Meeting'
<1>1. PICK q \in Seq(TeamEvents) : q = teamq /\ teamq' = Append(q, ev)
  BY DEF TeamInv, TeamTypeOK, PostTeam
<1>2. UNCHANGED <<here, left, manner, router, known, pending>>
  BY DEF commandRest
<1>3. \A c : Has(Append(q, ev), Responses(c)) <=> Has(q, Responses(c))
  <2>1. \A c : ev \notin Responses(c)
    BY DEF Responses
  <2> HIDE DEF TeamEvents
  <2> QED BY <2>1, AppendHas
<1>4. \A c : Sought(teamq', router', c) <=> Sought(teamq, router, c)
  BY <1>1, <1>2, <1>3 DEF Sought
<1> QED BY <1>2, <1>4, MeetsAfter

LEMMA CommandsMeet ==
    ASSUME TeamInv, Meeting, service' = service,
           NEW c \in Characters, NEW d \in Characters, NEW accepts \in BOOLEAN,
           \/ Invite(c, d) \/ Kick(c, d) \/ MakeLeader(c, d) \/ Answer(c, accepts)
           \/ LeaveTeam(c) \/ ToggleLFG(c)
    PROVE  Meeting'
<1>1. offer \in [Characters -> Characters \union {NoLeader}]
  BY DEF TeamInv, TeamTypeOK
<1>2. CASE Invite(c, d)
  <2>1. PICK ev \in TeamEvents : ev = [type |-> "Invited", leader |-> c, invitee |-> d]
    BY DEF TeamEvents
  <2> QED BY <1>2, <2>1, CommandMeets DEF Invite
<1>3. CASE Kick(c, d)
  <2>1. PICK ev \in TeamEvents : ev = [type |-> "Kicked", leader |-> c, who |-> d]
    BY DEF TeamEvents
  <2> QED BY <1>3, <2>1, CommandMeets DEF Kick
<1>4. CASE MakeLeader(c, d)
  <2>1. PICK ev \in TeamEvents : ev = [type |-> "MakeLeader", leader |-> c, who |-> d]
    BY DEF TeamEvents
  <2> QED BY <1>4, <2>1, CommandMeets DEF MakeLeader
<1>5. CASE Answer(c, accepts)
  <2>1. PICK l \in Characters : l = offer[c]
    BY <1>1, <1>5 DEF Answer
  <2>2. PICK ev \in TeamEvents :
            ev = [type |-> "Handled", leader |-> l, invitee |-> c, accepted |-> accepts]
    BY DEF TeamEvents
  <2>3. PostTeam(ev) /\ UNCHANGED commandRest
    BY <1>5, <2>1, <2>2 DEF Answer
  <2> QED BY <2>2, <2>3, CommandMeets
<1>6. CASE LeaveTeam(c)
  <2>1. PICK ev \in TeamEvents : ev = [type |-> "Leave", who |-> c]
    BY DEF TeamEvents
  <2> QED BY <1>6, <2>1, CommandMeets DEF LeaveTeam
<1>7. CASE ToggleLFG(c)
  <2>1. PICK ev \in TeamEvents : ev = [type |-> "ToggleLFG", who |-> c]
    BY DEF TeamEvents
  <2> QED BY <1>7, <2>1, CommandMeets DEF ToggleLFG
<1> QED BY <1>2, <1>3, <1>4, <1>5, <1>6, <1>7

(* A message that is no lookup arrives.                                    *)
LEMMA ArrivalMeets ==
    ASSUME TeamInv, Meeting, service' = service, NEW type, Arrives(type), type # "Query",
           UNCHANGED teamq
    PROVE  Meeting'
<1>1. PICK o \in Seq(RouterMessages) : o = router /\ o # << >> /\ router' = Tail(o)
  BY DEF TeamInv, TeamTypeOK, Arrives
<1>2. \A c : Has(Tail(o), Queries(c)) <=> Has(o, Queries(c))
  <2>1. \A c : Head(o) \notin Queries(c)
    BY <1>1, ArrivedMessage DEF Queries
  <2> HIDE DEF RouterMessages
  <2> QED BY <1>1, <2>1, TailHas
<1>3. \A c : Sought(teamq', router', c) <=> Sought(teamq, router, c)
  BY <1>1, <1>2 DEF Sought
<1>4. UNCHANGED <<here, left, manner, known, pending>>
  BY DEF Arrives
<1> QED BY <1>3, <1>4, MeetsAfter

(* A lookup becomes an answer, or is dropped: not of those who stay.       *)
LEMMA AnsweredMeets ==
    ASSUME TeamInv, Meeting, service' = service, QueryAnswered
    PROVE  Meeting'
<1>1. PICK o \in Seq(RouterMessages) : o = router /\ o # << >> /\ router' = Tail(o)
  BY DEF TeamInv, TeamTypeOK, QueryAnswered, Arrives
<1>2. PICK msg \in RouterMessages : msg = Head(o) /\ msg.type = "Query"
  BY <1>1, ArrivedMessage DEF QueryAnswered
<1>3. PICK c \in Characters : c = msg.who
  BY <1>2, MessageFields
<1>4. UNCHANGED <<here, left, manner, known, pending>>
  BY DEF QueryAnswered, Arrives
<1>5. msg \in Queries(c) /\ \A d : d # c => msg \notin Queries(d)
  BY <1>2, <1>3 DEF Queries
<1>6. /\ Has(o, Queries(c))
      /\ \A d : Has(Tail(o), Queries(d)) => Has(o, Queries(d))
      /\ \A d : d # c => (Has(Tail(o), Queries(d)) <=> Has(o, Queries(d)))
  <2> HIDE DEF RouterMessages
  <2> QED BY <1>1, <1>2, <1>5, TailHas
<1>7. CASE c \in here
  <2>1. PICK ev \in TeamEvents : ev = [type |-> "Response", who |-> c]
    BY DEF TeamEvents
  <2>2. PICK q \in Seq(TeamEvents) : q = teamq /\ teamq' = Append(q, ev)
    BY <1>1, <1>2, <1>3, <1>7, <2>1 DEF TeamInv, TeamTypeOK, QueryAnswered, PostTeam
  <2>3. ev \in Responses(c) /\ \A d : d # c => ev \notin Responses(d)
    BY <2>1 DEF Responses
  <2>4. \A d : Has(Append(q, ev), Responses(d)) <=> Has(q, Responses(d)) \/ ev \in Responses(d)
    <3> HIDE DEF TeamEvents
    <3> QED BY AppendHas
  <2>5. ASSUME NEW d \in Characters PROVE Sought(teamq', router', d) <=> Sought(teamq, router, d)
    BY <1>1, <1>6, <2>2, <2>3, <2>4 DEF Sought
  <2> QED BY <1>4, <2>5, MeetsAfter
<1>8. CASE c \notin here
  <2>1. teamq' = teamq
    BY <1>1, <1>2, <1>3, <1>8 DEF QueryAnswered
  <2>2. ASSUME NEW d \in Characters PROVE Awaited(teamq', router', known', pending', d)
    <3>1. Awaited(teamq, router, known, pending, d)
      BY DEF Meeting
    <3>2. Sought(teamq', router', d) => Sought(teamq, router, d)
      BY <1>1, <1>6, <2>1 DEF Sought
    <3> QED BY <1>4, <3>1, <3>2 DEF Awaited
  <2>3. Staying' = Staying /\ Staying \subseteq here
    BY <1>4 DEF Staying, ThereAtStart, Meeting
  <2>4. ASSUME NEW d \in Staying PROVE Coming(teamq', router', pending', d)
    <3>1. Coming(teamq, router, pending, d) /\ d # c
      BY <1>8, <2>3 DEF Meeting
    <3>2. Sought(teamq', router', d) <=> Sought(teamq, router, d)
      BY <1>1, <1>6, <2>1, <3>1 DEF Sought
    <3> QED BY <1>4, <3>1, <3>2 DEF Coming
  <2> QED BY <1>4, <2>2, <2>3, <2>4 DEF Meeting
<1> QED BY <1>7, <1>8

LEMMA MapsMeet ==
    ASSUME TeamInv, Meeting, service' = service,
           \/ QueryAnswered \/ MapTeamMemberInvited \/ MapTeamMemberGone
           \/ MapTeamUpdated \/ MapTeamToggleLFG
    PROVE  Meeting'
<1>1. CASE MapTeamMemberInvited
  BY <1>1, ArrivalMeets DEF MapTeamMemberInvited
<1>2. CASE MapTeamMemberGone
  BY <1>2, ArrivalMeets DEF MapTeamMemberGone
<1>3. CASE MapTeamUpdated
  BY <1>3, ArrivalMeets DEF MapTeamUpdated
<1>4. CASE MapTeamToggleLFG
  BY <1>4, ArrivalMeets DEF MapTeamToggleLFG
<1> QED BY <1>1, <1>2, <1>3, <1>4, AnsweredMeets

LEMMA PresenceMeets ==
    ASSUME Meeting, service' = service, NEW c \in Characters, TeamEnters(c) \/ TeamLeaves(c)
    PROVE  Meeting'
<1>1. UNCHANGED <<router, teamq, known, pending, manner>>
  BY DEF TeamEnters, TeamLeaves
<1>2. Staying' \subseteq Staying
  BY <1>1 DEF Staying, ThereAtStart, TeamEnters, TeamLeaves
<1>3. Staying' \subseteq here'
  BY <1>1 DEF Meeting, Staying, ThereAtStart, TeamEnters, TeamLeaves, Enters, Leaves
<1> QED BY <1>1, <1>2, <1>3 DEF Meeting

LEMMA MeetingStep ==
    ASSUME TeamInv, Meeting, service' = service, cast \subseteq Characters, TeamNext(cast)
    PROVE  Meeting'
<1>1. ASSUME NEW c \in cast, NEW d \in cast, Invite(c, d) \/ Kick(c, d) \/ MakeLeader(c, d)
      PROVE  Meeting'
  BY <1>1, CommandsMeet
<1>2. ASSUME NEW c \in cast, NEW accepts \in BOOLEAN, Answer(c, accepts)
      PROVE  Meeting'
  BY <1>2, CommandsMeet
<1>3. ASSUME NEW c \in cast, LeaveTeam(c) \/ ToggleLFG(c)
      PROVE  Meeting'
  BY <1>3, CommandsMeet
<1>4. ASSUME NEW c \in cast, TeamEnters(c) \/ TeamLeaves(c)
      PROVE  Meeting'
  BY <1>4, PresenceMeets
<1> QED BY <1>1, <1>2, <1>3, <1>4, HandlersMeet, MapsMeet DEF TeamNext

LEMMA MeetingAtStart ==
    ASSUME Init
    PROVE  Meeting
<1>1. /\ teamq = << >> /\ router = << >>
      /\ \A c \in Characters : pending[c] = << >>
  BY DEF Init, TeamInit
<1>2. Len(<< >>) = 0
  OBVIOUS
<1>3. \A S : ~Has(<< >>, S)
  BY <1>2 DEF Has
<1>4. Staying \subseteq here /\ Staying \subseteq Characters
  BY DEF Init, Staying, ThereAtStart
<1>5. service = "team" \/ manner = {}
  BY DEF Init
<1> QED BY <1>1, <1>2, <1>3, <1>4, <1>5 DEF Meeting, Awaited, Coming, Sought

LEMMA MeetingMeans ==
    ASSUME TeamInv, Meeting
    PROVE  InvitationsMeetAnswers
<1>1. PICK q \in Seq(TeamEvents) : q = teamq
  BY DEF TeamInv, TeamTypeOK
<1>2. PICK o \in Seq(RouterMessages) : o = router
  BY DEF TeamInv, TeamTypeOK
<1>3. ASSUME NEW c \in Characters
      PROVE  /\ [type |-> "Response", who |-> c] \in ToSet(teamq) => Has(q, Responses(c))
             /\ Has(q, Responses(c)) => [type |-> "Response", who |-> c] \in ToSet(teamq)
             /\ Has(o, Queries(c)) => [type |-> "Query", who |-> c] \in ToSet(router)
  <2>1. PICK ev \in TeamEvents : ev = [type |-> "Response", who |-> c]
    BY DEF TeamEvents
  <2>2. PICK msg \in RouterMessages : msg = [type |-> "Query", who |-> c]
    BY DEF RouterMessages
  <2>3. \A x \in Responses(c) : x = ev
    BY <2>1 DEF Responses, TeamEvents
  <2>4. \A x \in Queries(c) : x = msg
    BY <2>2 DEF Queries, RouterMessages
  <2>5. ev \in Responses(c) /\ msg \in Queries(c)
    BY <2>1, <2>2 DEF Responses, Queries
  <2>6. DOMAIN q = 1..Len(q) /\ DOMAIN o = 1..Len(o)
    <3> HIDE DEF TeamEvents, RouterMessages
    <3> QED OBVIOUS
  <2>7. ev \in ToSet(q) <=> Has(q, Responses(c))
    BY <2>3, <2>5, <2>6 DEF ToSet, Has
  <2>8. Has(o, Queries(c)) => msg \in ToSet(o)
    BY <2>4, <2>6 DEF ToSet, Has
  <2> QED BY <1>1, <1>2, <2>1, <2>2, <2>7, <2>8
<1>4. Staying \subseteq Characters
  BY DEF Staying, ThereAtStart
<1>5. ASSUME NEW c \in Characters, c \notin known,
             [type |-> "Response", who |-> c] \in ToSet(teamq)
      PROVE  pending[c] # << >>
  <2>1. Sought(teamq, router, c)
    BY <1>1, <1>3, <1>5 DEF Sought
  <2> QED BY <1>5, <2>1 DEF Meeting, Awaited
<1>6. ASSUME NEW c \in Characters, c \in Staying, pending[c] # << >>
      PROVE  LookedUp(c)
  <2>1. Sought(teamq, router, c)
    BY <1>6 DEF Meeting, Coming
  <2> QED BY <1>1, <1>2, <1>3, <2>1 DEF Sought, LookedUp
<1> QED BY <1>5, <1>6 DEF InvitationsMeetAnswers, Staying

(* The answer that makes a name known meets the invitations that wait for  *)
(* it (TeamHandler.cpp:294-310), and of whoever stays on the map an answer *)
(* is coming to all that wait: whoever else is invited, by however many    *)
(* leaders, between the lookup and its answer.                             *)
THEOREM InvitationsAreAnswered == Spec => []InvitationsMeetAnswers
<1>1. Init => Meeting
  BY MeetingAtStart
<1>2. TeamInv /\ cast \subseteq Characters /\ Meeting /\ [Next]_vars => Meeting'
  <2> SUFFICES ASSUME TeamInv, cast \subseteq Characters, Meeting, [Next]_vars
               PROVE  Meeting'
    OBVIOUS
  <2>1. CASE service = "team" /\ TeamNext(cast) /\ service' = service
    BY <2>1, MeetingStep
  <2>2. CASE UNCHANGED <<teamOnly, service, here>>
    BY <2>2 DEF teamOnly, Meeting, Staying, ThereAtStart
  <2>3. CASE service # "team" /\ UNCHANGED <<teamOnly, service>>
    <3>1. manner = {}
      BY <2>3 DEF Meeting
    <3> QED BY <2>3, <3>1 DEF teamOnly, Meeting, Staying, ThereAtStart
  <2> QED BY <2>1, <2>2, <2>3 DEF Next, vars
<1>3. TeamInv /\ Meeting => InvitationsMeetAnswers
  BY MeetingMeans
<1> QED BY <1>1, <1>2, <1>3, TeamSafe, PTL DEF Spec

-----------------------------------------------------------------------------
(* What the entities show when the messages of a queue have arrived        *)

OnCharacters(v) == v = [c \in Characters |-> v[c]]

Final(v, q) == FoldLeft(Arriving, v, q)

ViewsSoFar(base, q, k, v) == OnCharacters(base) => OnCharacters(v)

ViewLoop == INSTANCE FoldProofs WITH Op <- Arriving, Inv <- ViewsSoFar

LEMMA FinalIs ==
    ASSUME NEW v, NEW q, NEW n \in Nat, DOMAIN q = 1..n, Len(q) = n
    PROVE  Final(v, q) = ViewLoop!Folded(v, q, n)
BY DEF Final, ViewLoop!Folded, ViewLoop!MapThenFoldSet, ViewLoop!Max, FoldLeft, MapThenFoldSet, Max

LEMMA ArrivingOn ==
    ASSUME NEW v, NEW msg
    PROVE  OnCharacters(Arriving(v, msg))
BY DEF OnCharacters, Arriving

LEMMA FinalOn ==
    ASSUME NEW v, OnCharacters(v), NEW T, NEW q \in Seq(T)
    PROVE  OnCharacters(Final(v, q))
<1>1. PICK n \in Nat : n = Len(q) /\ DOMAIN q = 1..n
  OBVIOUS
<1>2. ViewsSoFar(v, q, 0, v)
  BY DEF ViewsSoFar
<1>3. \A k \in 1..n : \A r : ViewsSoFar(v, q, k - 1, r) => ViewsSoFar(v, q, k, Arriving(r, q[k]))
  BY ArrivingOn DEF ViewsSoFar
<1>4. ViewsSoFar(v, q, n, ViewLoop!Folded(v, q, n))
  BY <1>2, <1>3, ViewLoop!FoldInduction
<1> QED BY <1>1, <1>4, FinalIs DEF ViewsSoFar

LEMMA FinalNone ==
    ASSUME NEW v
    PROVE  Final(v, << >>) = v
<1>1. Final(v, << >>) = ViewLoop!Folded(v, << >>, 0)
  BY FinalIs
<1> QED BY <1>1, ViewLoop!FoldNothing

LEMMA FinalLast ==
    ASSUME NEW v, NEW T, NEW q \in Seq(T), NEW msg \in T
    PROVE  Final(v, Append(q, msg)) = Arriving(Final(v, q), msg)
<1>1. PICK n \in Nat : n = Len(q) /\ DOMAIN q = 1..n
  OBVIOUS
<1>2. PICK p : p = Append(q, msg)
  OBVIOUS
<1>3. /\ DOMAIN p = 1..(n + 1) /\ Len(p) = n + 1 /\ p[n + 1] = msg /\ n + 1 \in Nat
      /\ \A k \in 1..n : p[k] = q[k]
  BY <1>1, <1>2
<1>4. ViewLoop!Folded(v, p, n + 1) = Arriving(ViewLoop!Folded(v, q, n), p[n + 1])
  BY <1>3, ViewLoop!FoldLast
<1>5. Final(v, p) = ViewLoop!Folded(v, p, n + 1)
  BY <1>3, FinalIs
<1>6. Final(v, q) = ViewLoop!Folded(v, q, n)
  BY <1>1, FinalIs
<1> QED BY <1>2, <1>3, <1>4, <1>5, <1>6

LEMMA FinalFirst ==
    ASSUME NEW v, NEW T, NEW q \in Seq(T), q # << >>
    PROVE  Final(v, q) = Final(Arriving(v, Head(q)), Tail(q))
<1>1. PICK n \in Nat : n + 1 = Len(q) /\ DOMAIN q = 1..(n + 1)
  <2>1. PICK m \in Nat : m = Len(q) /\ DOMAIN q = 1..m /\ m # 0
    OBVIOUS
  <2>2. m - 1 \in Nat /\ (m - 1) + 1 = m
    BY <2>1
  <2> QED BY <2>1, <2>2
<1>2. PICK p : p = Tail(q)
  OBVIOUS
<1>3. /\ DOMAIN p = 1..n /\ Len(p) = n /\ Head(q) = q[1] /\ n + 1 \in Nat
      /\ \A k \in 1..n : p[k] = q[k + 1]
  BY <1>1, <1>2
<1>4. ViewLoop!Folded(v, q, n + 1) = ViewLoop!Folded(Arriving(v, q[1]), p, n)
  BY <1>3, ViewLoop!FoldFirst
<1>5. Final(v, q) = ViewLoop!Folded(v, q, n + 1)
  BY <1>1, <1>3, FinalIs
<1>6. Final(Arriving(v, q[1]), p) = ViewLoop!Folded(Arriving(v, q[1]), p, n)
  BY <1>3, FinalIs
<1> QED BY <1>2, <1>3, <1>4, <1>5, <1>6

(* What an entity shows depends on no other's.                             *)
LEMMA FinalOwn ==
    ASSUME NEW v, NEW w, NEW c \in Characters, v[c] = w[c], NEW T, NEW q \in Seq(T)
    PROVE  Final(v, q)[c] = Final(w, q)[c]
<1>1. PICK n \in Nat : n = Len(q) /\ DOMAIN q = 1..n
  OBVIOUS
<1>2. PICK f : ViewLoop!Runs(f, v, q, n) /\ ViewLoop!Folded(v, q, n) = f[n]
  BY ViewLoop!FoldSteps
<1>3. PICK g : ViewLoop!Runs(g, w, q, n) /\ ViewLoop!Folded(w, q, n) = g[n]
  BY ViewLoop!FoldSteps
<1> DEFINE Bad == {k \in 0..n : f[k][c] # g[k][c]}
<1>4. CASE Bad # {}
  <2>1. PICK k \in Bad : \A j \in Bad : k <= j
    <3> HIDE DEF Bad
    <3>1. Bad \in SUBSET Nat
      BY DEF Bad
    <3> QED BY <1>4, <3>1, ViewLoop!Least
  <2>2. k # 0
    BY <1>2, <1>3, <2>1 DEF ViewLoop!Runs
  <2>3. k \in 1..n /\ k - 1 \in 0..n /\ k - 1 \notin Bad
    BY <2>1, <2>2
  <2>4. f[k] = Arriving(f[k - 1], q[k]) /\ g[k] = Arriving(g[k - 1], q[k])
    BY <1>2, <1>3, <2>3 DEF ViewLoop!Runs
  <2>5. f[k - 1][c] = g[k - 1][c]
    BY <2>3
  <2>6. f[k][c] = g[k][c]
    BY <2>4, <2>5 DEF Arriving
  <2> QED BY <2>1, <2>6
<1>5. CASE Bad = {}
  <2>1. f[n][c] = g[n][c]
    BY <1>5
  <2> QED BY <1>1, <1>2, <1>3, <2>1, FinalIs
<1> QED BY <1>4, <1>5

(* A message about something else                                          *)
Telling == {"Kicked", "Left", "Updated"}

LEMMA ArrivingNothing ==
    ASSUME NEW v, OnCharacters(v), NEW msg, msg.type \notin Telling
    PROVE  Arriving(v, msg) = v
<1>1. \A c \in Characters : Effect(v[c], c, msg) = v[c]
  BY DEF Effect, Telling
<1> QED BY <1>1 DEF Arriving, OnCharacters

LEMMA FinalFlags ==
    ASSUME NEW v, OnCharacters(v), NEW q \in Seq(RouterMessages), NEW token \in Characters \union {NoLeader},
           NEW n \in Nat
    PROVE  q \o Flags(n, token) \in Seq(RouterMessages) /\ Final(v, q \o Flags(n, token)) = Final(v, q)
<1>1. PICK flag \in RouterMessages : flag = [type |-> "ToggleLFG", token |-> token]
  BY DEF RouterMessages
<1>2. flag.type \notin Telling
  BY <1>1 DEF Telling
<1>3. \A m \in Nat : Flags(m, token) = [i \in 1..m |-> flag]
  BY <1>1 DEF Flags
<1> DEFINE s(m) == q \o [i \in 1..m |-> flag]
<1> HIDE DEF RouterMessages
<1>4. \A m \in Nat : s(m) \in Seq(RouterMessages)
  OBVIOUS
<1>5. ASSUME NEW m \in Nat PROVE s(m + 1) = Append(s(m), flag)
  BY <1>4, <1>5
<1> DEFINE Bad == {k \in Nat : Final(v, s(k)) # Final(v, q)}
<1>6. CASE Bad # {}
  <2>1. PICK k \in Bad : \A j \in Bad : k <= j
    <3> HIDE DEF Bad
    <3>1. Bad \in SUBSET Nat
      BY DEF Bad
    <3> QED BY <1>6, <3>1, ViewLoop!Least
  <2>2. CASE k = 0
    <3>1. s(0) = q
      OBVIOUS
    <3> QED BY <2>1, <2>2, <3>1
  <2>3. CASE k # 0
    <3>1. PICK m \in Nat : k = m + 1 /\ m \notin Bad
      <4>1. k - 1 \in Nat /\ (k - 1) + 1 = k /\ k - 1 \notin Bad
        BY <2>1, <2>3
      <4> QED BY <4>1
    <3>2. PICK p \in Seq(RouterMessages) : p = s(m)
      BY <1>4
    <3>3. Final(v, Append(p, flag)) = Arriving(Final(v, p), flag)
      BY FinalLast
    <3>4. OnCharacters(Final(v, p))
      BY FinalOn
    <3>5. Arriving(Final(v, p), flag) = Final(v, p)
      BY <1>2, <3>4, ArrivingNothing
    <3>6. Final(v, s(k)) = Final(v, p)
      BY <1>5, <3>1, <3>2, <3>3, <3>5
    <3>7. Final(v, s(m)) = Final(v, q)
      BY <3>1
    <3> QED BY <2>1, <3>2, <3>6, <3>7
  <2> QED BY <2>2, <2>3
<1>7. CASE Bad = {}
  <2>1. Final(v, s(n)) = Final(v, q)
    BY <1>7
  <2> QED BY <1>3, <1>4, <2>1
<1> QED BY <1>6, <1>7

-----------------------------------------------------------------------------
(* The names of a team, and what its members show                          *)

CountSoFar(base, members, k, names) == names \in Seq(Characters) /\ Len(names) <= k

CountLoop == INSTANCE FoldProofs WITH Op <- AddName, Inv <- CountSoFar

LEMMA ConfirmedIs ==
    ASSUME NEW t, NEW s \in Seq(TeamMembers), s = t.members, NEW n \in Nat, n = Len(s), DOMAIN s = 1..n
    PROVE  Confirmed(t) = CountLoop!Folded(<< >>, s, n)
<1>1. FoldLeft(AddName, << >>, s) = CountLoop!Folded(<< >>, s, n)
  BY DEF CountLoop!Folded, CountLoop!MapThenFoldSet, CountLoop!Max, FoldLeft, MapThenFoldSet, Max
<1> QED BY <1>1 DEF Confirmed

(* No more names than members                                              *)
LEMMA ConfirmedFew ==
    ASSUME NEW t, t.members \in Seq(TeamMembers)
    PROVE  Len(Confirmed(t)) <= Len(t.members) /\ Confirmed(t) \in Seq(Characters)
<1>1. PICK s \in Seq(TeamMembers) : s = t.members
  OBVIOUS
<1>2. PICK n \in Nat : n = Len(s) /\ DOMAIN s = 1..n
  OBVIOUS
<1>3. CountSoFar(<< >>, s, 0, << >>)
  BY DEF CountSoFar
<1>4. ASSUME NEW k \in 1..n, NEW r, CountSoFar(<< >>, s, k - 1, r)
      PROVE  CountSoFar(<< >>, s, k, AddName(r, s[k]))
  <2>1. s[k].who \in Characters
    <3>1. s[k] \in TeamMembers
      BY <1>2
    <3> QED BY <3>1 DEF TeamMembers
  <2>2. r \in Seq(Characters) /\ Len(r) <= k - 1
    BY <1>4 DEF CountSoFar
  <2>3. Append(r, s[k].who) \in Seq(Characters) /\ Len(Append(r, s[k].who)) = Len(r) + 1 /\ Len(r) \in Nat
    BY <2>1, <2>2
  <2> QED BY <2>2, <2>3 DEF CountSoFar, AddName
<1>5. CountSoFar(<< >>, s, n, CountLoop!Folded(<< >>, s, n))
  BY <1>3, <1>4, CountLoop!FoldInduction
<1> QED BY <1>1, <1>2, <1>5, ConfirmedIs DEF CountSoFar

(* Those who are still to answer do not count.                             *)
LEMMA ConfirmedAppend ==
    ASSUME NEW t, NEW s \in Seq(TeamMembers), s = t.members, NEW m \in TeamMembers, m.pending,
           NEW r, r.members = Append(s, m)
    PROVE  Confirmed(r) = Confirmed(t)
<1>1. PICK n \in Nat : n = Len(s) /\ DOMAIN s = 1..n
  OBVIOUS
<1>2. PICK ms : ms = Append(s, m)
  OBVIOUS
<1>3. /\ ms \in Seq(TeamMembers) /\ Len(ms) = n + 1 /\ DOMAIN ms = 1..(n + 1) /\ ms[n + 1] = m
      /\ n + 1 \in Nat
  BY <1>1, <1>2
<1>31. \A k \in 1..n : ms[k] = s[k]
  BY <1>1, <1>2
<1>4. CountLoop!Folded(<< >>, ms, n + 1) = AddName(CountLoop!Folded(<< >>, s, n), ms[n + 1])
  <2> HIDE DEF TeamMembers
  <2>1. PICK none : none = << >>
    OBVIOUS
  <2>2. CountLoop!Folded(none, ms, n + 1) = AddName(CountLoop!Folded(none, s, n), ms[n + 1])
    BY <1>31, CountLoop!FoldLast
  <2> QED BY <2>1, <2>2
<1>5. CountLoop!Folded(<< >>, ms, n + 1) = CountLoop!Folded(<< >>, s, n)
  BY <1>3, <1>4 DEF AddName
<1>6. Confirmed(t) = CountLoop!Folded(<< >>, s, n)
  BY <1>1, ConfirmedIs
<1>7. Confirmed(r) = CountLoop!Folded(<< >>, ms, n + 1)
  BY <1>2, <1>3, ConfirmedIs
<1> QED BY <1>5, <1>6, <1>7

LEMMA CutMember ==
    ASSUME NEW s \in Seq(TeamMembers), NEW k \in 1..Len(s), NEW r, r = RemoveAt(s, k)
    PROVE  /\ r \in Seq(TeamMembers) /\ Len(r) = Len(s) - 1
           /\ \A i \in 1..(Len(s) - 1) : r[i] = IF i < k THEN s[i] ELSE s[i + 1]
<1> HIDE DEF TeamMembers
<1> QED BY CutOut

LEMMA ConfirmedCut ==
    ASSUME NEW t, NEW s \in Seq(TeamMembers), s = t.members, NEW k \in 1..Len(s),
           \A names : AddName(names, s[k]) = names, NEW r, r.members = RemoveAt(s, k)
    PROVE  Confirmed(r) = Confirmed(t)
<1>1. PICK n \in Nat : n + 1 = Len(s) /\ DOMAIN s = 1..(n + 1)
  <2>1. PICK m \in Nat : m = Len(s) /\ DOMAIN s = 1..m /\ m # 0
    OBVIOUS
  <2>2. m - 1 \in Nat /\ (m - 1) + 1 = m
    BY <2>1
  <2> QED BY <2>1, <2>2
<1>2. PICK ms : ms = RemoveAt(s, k)
  OBVIOUS
<1>3. /\ ms \in Seq(TeamMembers) /\ Len(ms) = n /\ DOMAIN ms = 1..n /\ n + 1 \in Nat
      /\ \A i \in 1..n : ms[i] = IF i < k THEN s[i] ELSE s[i + 1]
  <2>1. /\ ms \in Seq(TeamMembers) /\ Len(ms) = Len(s) - 1
        /\ \A i \in 1..(Len(s) - 1) : ms[i] = IF i < k THEN s[i] ELSE s[i + 1]
    BY <1>2, CutMember
  <2>2. Len(s) - 1 = n
    BY <1>1
  <2>3. DOMAIN ms = 1..Len(ms)
    <3> HIDE DEF TeamMembers
    <3> QED BY <2>1
  <2> QED BY <2>1, <2>2, <2>3
<1>5. k \in 1..(n + 1)
  BY <1>1
<1>6. CountLoop!Folded(<< >>, s, n + 1) = CountLoop!Folded(<< >>, ms, n)
  <2>1. PICK none : none = << >>
    OBVIOUS
  <2>2. \A i \in 1..n : ms[i] = IF i < k THEN s[i] ELSE s[i + 1]
    BY <1>3
  <2> HIDE DEF TeamMembers
  <2>3. CountLoop!Folded(none, s, n + 1) = CountLoop!Folded(none, ms, n)
    BY <1>5, <2>2, CountLoop!FoldWithout
  <2> QED BY <2>1, <2>3
<1>7. Confirmed(t) = CountLoop!Folded(<< >>, s, n + 1)
  BY <1>1, <1>3, ConfirmedIs
<1>8. Confirmed(r) = CountLoop!Folded(<< >>, ms, n)
  BY <1>2, <1>3, ConfirmedIs
<1> QED BY <1>6, <1>7, <1>8

(* What a member shows                                                     *)
OwnView(t, c) == IF c \in In(t) THEN Shown(Update(t)) ELSE NoView

LEMMA ShowsAlone ==
    ASSUME NEW t, Shaped(t), Len(t.members) < 2, NEW c
    PROVE  OwnView(t, c) = NoView
<1>1. t.members \in Seq(TeamMembers)
  BY DEF Shaped, TeamRecords
<1>2. Len(Confirmed(t)) <= Len(t.members) /\ Confirmed(t) \in Seq(Characters)
  BY <1>1, ConfirmedFew
<1>3. Len(Confirmed(t)) \in Nat /\ Len(t.members) \in Nat
  BY <1>1, <1>2
<1>4. Len(Confirmed(t)) < 2
  BY <1>2, <1>3
<1> QED BY <1>4 DEF OwnView, Shown, Update

(* x is what the teams say that c shows.                                   *)
ViewIn(ts, c, x) ==
    /\ \A n \in 1..Len(ts) : c \in Who(ts[n]) => x = OwnView(ts[n], c)
    /\ (\A n \in 1..Len(ts) : c \notin Who(ts[n])) => x = NoView

LEMMA PendingIs ==
    ASSUME NEW t, Shaped(t), NEW c \in Who(t)
    PROVE  isNamePending(t, c) <=> c \notin In(t)
<1>1. PICK s \in Seq(TeamMembers) : s = t.members
  BY DEF Shaped, TeamRecords
<1>2. PICK n \in Nat : n = Len(s) /\ DOMAIN s = 1..n
  OBVIOUS
<1>3. PICK k \in 1..n : s[k].who = c
  BY <1>1, <1>2 DEF Who
<1>4. s[k] \in TeamMembers
  BY <1>2
<1>5. c \notin In(t) => s[k].pending
  BY <1>1, <1>2, <1>3 DEF In, Settled
<1>6. s[k].pending => s[k] = [who |-> c, pending |-> TRUE]
  BY <1>3, <1>4 DEF TeamMembers
<1>7. s[k] \in ToSet(s)
  BY <1>2 DEF ToSet
<1> QED BY <1>1, <1>5, <1>6, <1>7, StillToAnswer DEF isNamePending

LEMMA TeamOfIs ==
    ASSUME TeamInv, NEW c \in Characters
    PROVE  /\ ViewIn(teams, c, TeamOf(c))
           /\ \A x : ViewIn(teams, c, x) => x = TeamOf(c)
<1>1. PICK n : n = LastWith(State, c)
  OBVIOUS
<1>2. PICK h : h = State
  OBVIOUS
<1>21. h.teams = teams
  BY <1>2 DEF State
<1>3. h.teams \in Seq(TeamRecords) /\ GoodTeams(teams)
  BY <1>21 DEF TeamInv, GoodTeams
<1>4. n = LastWith(h, c)
  BY <1>1, <1>2
<1>5. CASE n = 0
  <2>1. \A m \in 1..Len(teams) : c \notin Who(teams[m])
    BY <1>21, <1>3, <1>4, <1>5, TeamFound
  <2>2. TeamOf(c) = NoView
    BY <1>1, <1>5 DEF TeamOf
  <2> QED BY <2>1, <2>2 DEF ViewIn
<1>6. CASE n # 0
  <2>1. n \in 1..Len(teams) /\ c \in Who(teams[n])
    BY <1>21, <1>3, <1>4, <1>6, TeamFound
  <2>2. Shaped(teams[n])
    BY <1>3, <2>1, TeamAt
  <2>3. isNamePending(teams[n], c) <=> c \notin In(teams[n])
    BY <2>1, <2>2, PendingIs
  <2>4. TeamOf(c) = IF isNamePending(teams[n], c) THEN NoView
                    ELSE Shown([leader |-> teams[n].leader, members |-> Confirmed(teams[n])])
    BY <1>1, <1>6 DEF TeamOf
  <2>5. Shown([leader |-> teams[n].leader, members |-> Confirmed(teams[n])]) = Shown(Update(teams[n]))
    BY DEF Shown, Update
  <2>6. TeamOf(c) = OwnView(teams[n], c)
    BY <2>3, <2>4, <2>5 DEF OwnView
  <2>7. \A m \in 1..Len(teams) : c \in Who(teams[m]) => m = n
    BY <1>3, <2>1 DEF GoodTeams
  <2> QED BY <2>1, <2>6, <2>7 DEF ViewIn
<1> QED BY <1>5, <1>6

(* A team that loses a member or changes, or is deleted                    *)
LEMMA ViewPut ==
    ASSUME NEW ts, GoodTeams(ts), NEW n \in 1..Len(ts), NEW t, Shaped(t),
           Who(t) \subseteq Who(ts[n]),
           NEW us, us = IF Disbanded(t) THEN RemoveAt(ts, n) ELSE ReplaceAt(ts, n, t),
           NEW c, NEW x, ViewIn(ts, c, x), NEW y,
           c \notin Who(ts[n]) => y = x,
           c \in Who(t) => y = OwnView(t, c),
           c \in Who(ts[n]) /\ c \notin Who(t) => y = NoView
    PROVE  ViewIn(us, c, y)
<1>1. PICK len \in Nat : len = Len(ts) /\ n \in 1..len
  BY DEF GoodTeams
<1>2. ts \in Seq(TeamRecords) /\ t \in TeamRecords
  BY DEF GoodTeams, Shaped
<1>3. \A m \in 1..len : m # n /\ c \in Who(ts[m]) => c \notin Who(ts[n]) /\ y = OwnView(ts[m], c)
  BY <1>1 DEF GoodTeams, ViewIn
<1>4. (\A m \in 1..len : m # n => c \notin Who(ts[m])) /\ c \notin Who(t) => y = NoView
  BY <1>1 DEF ViewIn
<1>5. CASE Disbanded(t)
  <2>1. /\ Len(us) = len - 1
        /\ \A i \in 1..(len - 1) : us[i] = IF i < n THEN ts[i] ELSE ts[i + 1]
    <3> HIDE DEF TeamRecords
    <3> QED BY <1>1, <1>2, <1>5, CutOut
  <2>2. ASSUME NEW i \in 1..(len - 1)
        PROVE  \E m \in 1..len : m # n /\ us[i] = ts[m]
    <3>1. CASE i < n
      <4>1. i \in 1..len /\ i # n /\ us[i] = ts[i]
        BY <2>1, <3>1
      <4> QED BY <4>1
    <3>2. CASE ~(i < n)
      <4>1. i + 1 \in 1..len /\ i + 1 # n /\ us[i] = ts[i + 1]
        BY <2>1, <3>2
      <4> QED BY <4>1
    <3> QED BY <3>1, <3>2
  <2>3. ASSUME NEW m \in 1..len, m # n
        PROVE  \E i \in 1..(len - 1) : us[i] = ts[m]
    <3>1. CASE m < n
      <4>1. m \in 1..(len - 1)
        BY <1>1, <3>1
      <4>2. us[m] = ts[m]
        BY <2>1, <3>1, <4>1
      <4> QED BY <4>1, <4>2
    <3>2. CASE m > n
      <4>1. m - 1 \in 1..(len - 1) /\ ~(m - 1 < n) /\ (m - 1) + 1 = m
        BY <3>2
      <4>2. us[m - 1] = ts[m]
        BY <2>1, <4>1
      <4> QED BY <4>1, <4>2
    <3> QED BY <2>3, <3>1, <3>2
  <2>4. OwnView(t, c) = NoView
    BY <1>5, ShowsAlone DEF Disbanded
  <2>5. ASSUME NEW i \in 1..(len - 1), c \in Who(us[i]) PROVE y = OwnView(us[i], c)
    BY <1>3, <2>2, <2>5
  <2>6. ASSUME \A i \in 1..(len - 1) : c \notin Who(us[i]) PROVE y = NoView
    BY <1>4, <2>3, <2>4, <2>6
  <2> QED BY <2>1, <2>5, <2>6 DEF ViewIn
<1>6. CASE ~Disbanded(t)
  <2>1. us = [ts EXCEPT ![n] = t]
    BY <1>6 DEF ReplaceAt
  <2>2. Len(us) = len /\ us[n] = t /\ \A m \in 1..len : m # n => us[m] = ts[m]
    BY <1>1, <1>2, <2>1
  <2>3. ASSUME NEW m \in 1..len, c \in Who(us[m]) PROVE y = OwnView(us[m], c)
    BY <1>3, <2>2, <2>3
  <2>4. ASSUME \A m \in 1..len : c \notin Who(us[m]) PROVE y = NoView
    BY <1>1, <1>4, <2>2, <2>4
  <2> QED BY <2>2, <2>3, <2>4 DEF ViewIn
<1> QED BY <1>5, <1>6

-----------------------------------------------------------------------------
(* What a handler tells is what it has done                                *)

LEMMA ToldLast ==
    ASSUME NEW v, NEW q \in Seq(RouterMessages), NEW msg \in RouterMessages, NEW c \in Characters
    PROVE  Final(v, Append(q, msg))[c] = Effect(Final(v, q)[c], c, msg)
<1>1. Final(v, Append(q, msg)) = Arriving(Final(v, q), msg)
  BY FinalLast
<1>2. PICK w : w = Final(v, q)
  OBVIOUS
<1> QED BY <1>1, <1>2 DEF Arriving

(* What c shows after an update of team t, when it showed x                *)
ToldOf(t, c, x) == IF c \in In(t) THEN Shown(Update(t)) ELSE x

ChangedTeams(ts, n, t) == IF Disbanded(t) THEN RemoveAt(ts, n) ELSE ReplaceAt(ts, n, t)

LEMMA NotifySays ==
    ASSUME NEW h, Speaker(h), NEW t \in TeamRecords,
           NEW token \in Characters \union {NoLeader},
           NEW r, r = notify_team_of_changes(h, t, token)
    PROVE  \E n \in Nat : /\ Flags(n, token) \in Seq(RouterMessages)
                          /\ r.out = Append(h.out \o Flags(n, token), Update(t))
<1>1. Announces(h, r, t, token)
  BY NotifyTells
<1> QED BY <1>1, Zenon DEF Announces

LEMMA NotifyTold ==
    ASSUME NEW h, Speaker(h), NEW t \in TeamRecords,
           NEW token \in Characters \union {NoLeader},
           NEW r, r = notify_team_of_changes(h, t, token),
           NEW v, OnCharacters(v), NEW c \in Characters
    PROVE  Final(v, r.out)[c] = ToldOf(t, c, Final(v, h.out)[c])
<1>1. Update(t) \in RouterMessages
  BY NotifyTells
<1>2. PICK n \in Nat : /\ Flags(n, token) \in Seq(RouterMessages)
                      /\ r.out = Append(h.out \o Flags(n, token), Update(t))
  BY NotifySays
<1>3. PICK q \in Seq(RouterMessages) : q = h.out
  BY DEF Speaker
<1>4. PICK p \in Seq(RouterMessages) : p = q \o Flags(n, token) /\ Final(v, p) = Final(v, q)
  <2>1. q \o Flags(n, token) \in Seq(RouterMessages) /\ Final(v, q \o Flags(n, token)) = Final(v, q)
    BY FinalFlags
  <2> QED BY <2>1
<1>5. PICK msg \in RouterMessages : msg = Update(t)
  BY <1>1
<1>6. Final(v, Append(p, msg))[c] = Effect(Final(v, p)[c], c, msg)
  BY ToldLast
<1>7. msg.type = "Updated" /\ msg.members = Confirmed(t)
  BY <1>5 DEF Update
<1>8. ToSet(msg.members) = In(t)
  BY <1>7, ConfirmedNames DEF TeamRecords
<1>9. \A x : Effect(x, c, msg) = IF c \in In(t) THEN Shown(msg) ELSE x
  BY <1>7, <1>8 DEF Effect
<1>10. PICK x : x = Final(v, q)[c]
  OBVIOUS
<1>11. Effect(x, c, msg) = ToldOf(t, c, x)
  BY <1>5, <1>9 DEF ToldOf
<1> QED BY <1>2, <1>3, <1>4, <1>5, <1>6, <1>10, <1>11

(* Nobody is told of who has never been there, and nobody is invited by    *)
(* themselves.                                                             *)
Civil(msg, M) ==
    /\ msg.type = "Updated" => ToSet(msg.members) \subseteq M
    /\ msg.type = "Offer" => msg.leader # msg.who

AllCivil(q, M) == \A i \in 1..Len(q) : Civil(q[i], M)

LEMMA CivilLast ==
    ASSUME NEW M, NEW T, NEW q \in Seq(T), AllCivil(q, M), NEW msg \in T, Civil(msg, M)
    PROVE  AllCivil(Append(q, msg), M)
<1>1. PICK n \in Nat : n = Len(q)
  OBVIOUS
<1>2. /\ Len(Append(q, msg)) = n + 1 /\ Append(q, msg)[n + 1] = msg
      /\ \A i \in 1..n : Append(q, msg)[i] = q[i]
      /\ \A i \in 1..(n + 1) : i \in 1..n \/ i = n + 1
  BY <1>1
<1> QED BY <1>1, <1>2 DEF AllCivil

LEMMA CivilFlags ==
    ASSUME NEW M, NEW q \in Seq(RouterMessages), AllCivil(q, M),
           NEW token \in Characters \union {NoLeader}, NEW n \in Nat
    PROVE  AllCivil(q \o Flags(n, token), M)
<1>1. PICK flag \in RouterMessages : flag = [type |-> "ToggleLFG", token |-> token]
  BY DEF RouterMessages
<1>2. Flags(n, token) = [i \in 1..n |-> flag]
  BY <1>1 DEF Flags
<1>3. Civil(flag, M)
  BY <1>1 DEF Civil
<1>4. PICK f \in Seq(RouterMessages) : f = [i \in 1..n |-> flag]
  <2> HIDE DEF RouterMessages
  <2>1. [i \in 1..n |-> flag] \in Seq(RouterMessages)
    OBVIOUS
  <2> QED BY <2>1
<1>5. Len(f) = n /\ \A i \in 1..n : f[i] = flag
  BY <1>4
<1>6. PICK len \in Nat : len = Len(q)
  OBVIOUS
<1>7. ASSUME NEW i \in 1..(len + n) PROVE Civil((q \o f)[i], M)
  <2> HIDE DEF RouterMessages
  <2>1. CASE i <= len
    <3>1. (q \o f)[i] = q[i] /\ i \in 1..len
      BY <1>5, <1>6, <2>1
    <3> QED BY <1>6, <3>1 DEF AllCivil
  <2>2. CASE i > len
    <3>1. i - len \in 1..n
      BY <2>2
    <3>2. (q \o f)[i] = f[i - len]
      BY <1>5, <1>6, <2>2
    <3>3. (q \o f)[i] = flag
      BY <1>5, <3>1, <3>2
    <3> QED BY <1>3, <3>3
  <2>3. i <= len \/ i > len
    OBVIOUS
  <2> QED BY <2>1, <2>2, <2>3, Zenon
<1>8. Len(q \o f) = len + n
  <2> HIDE DEF RouterMessages
  <2> QED BY <1>5, <1>6
<1> QED BY <1>2, <1>4, <1>7, <1>8 DEF AllCivil

(* Only who has been there is known, on a team, or waits with an invitation*)
Polite(h, M) ==
    /\ h.known \subseteq M
    /\ \A n \in 1..Len(h.teams) : Who(h.teams[n]) \subseteq M
    /\ \A c \in Characters : \A i \in 1..Len(h.pending[c]) : h.pending[c][i].leader \in M
    /\ AllCivil(h.out, M)

LEMMA NotifyPolite ==
    ASSUME NEW M, NEW h, Speaker(h), Polite(h, M), NEW t \in TeamRecords, Who(t) \subseteq M,
           NEW token \in Characters \union {NoLeader},
           NEW r, r = notify_team_of_changes(h, t, token)
    PROVE  Polite(r, M)
<1>1. /\ r.teams = h.teams /\ r.known = h.known /\ r.pending = h.pending
      /\ Update(t) \in RouterMessages
  BY NotifyTells
<1>2. PICK n \in Nat : Flags(n, token) \in Seq(RouterMessages) /\ r.out = Append(h.out \o Flags(n, token), Update(t))
  BY NotifySays
<1>3. PICK q \in Seq(RouterMessages) : q = h.out
  BY DEF Speaker
<1>4. AllCivil(q \o Flags(n, token), M)
  BY <1>3, CivilFlags DEF Polite
<1>5. PICK f \in Seq(RouterMessages) : f = Flags(n, token)
  BY <1>2
<1>6. PICK p \in Seq(RouterMessages) : p = q \o f
  <2> HIDE DEF RouterMessages
  <2>1. q \o f \in Seq(RouterMessages)
    OBVIOUS
  <2> QED BY <2>1
<1>7. PICK msg \in RouterMessages : msg = Update(t)
  BY <1>1
<1>8. Civil(msg, M)
  <2>1. msg.type = "Updated" /\ msg.members = Confirmed(t)
    BY <1>7 DEF Update
  <2>2. ToSet(msg.members) = In(t)
    BY <2>1, ConfirmedNames DEF TeamRecords
  <2>3. In(t) \subseteq Who(t)
    BY DEF In, Settled, Who
  <2> QED BY <2>1, <2>2, <2>3 DEF Civil
<1>9. AllCivil(Append(p, msg), M)
  <2> HIDE DEF RouterMessages
  <2> QED BY <1>4, <1>5, <1>6, <1>8, CivilLast
<1> QED BY <1>1, <1>2, <1>3, <1>5, <1>6, <1>7, <1>9 DEF Polite

LEMMA ForwardPolite ==
    ASSUME NEW M, NEW h, Speaker(h), Polite(h, M), NEW msg \in RouterMessages, Civil(msg, M),
           NEW r, r = Forward(h, msg)
    PROVE  Polite(r, M)
<1>1. r = [h EXCEPT !.out = Append(h.out, msg)]
  BY DEF Forward
<1>2. /\ r.teams = h.teams /\ r.known = h.known /\ r.pending = h.pending
      /\ r.out = Append(h.out, msg)
  BY <1>1 DEF Speaker
<1>3. PICK q \in Seq(RouterMessages) : q = h.out
  BY DEF Speaker
<1>4. AllCivil(Append(q, msg), M)
  <2>1. AllCivil(q, M)
    BY <1>3 DEF Polite
  <2> HIDE DEF RouterMessages
  <2> QED BY <2>1, CivilLast
<1> QED BY <1>2, <1>3, <1>4 DEF Polite

LEMMA WithTeamPolite ==
    ASSUME NEW M, NEW h, Speaker(h), Polite(h, M), GoodTeams(h.teams), NEW n \in 1..Len(h.teams),
           NEW t, Shaped(t), Who(t) \subseteq M, NEW r, r = WithTeam(h, n, t)
    PROVE  /\ Polite(r, M) /\ Speaker(r) /\ r.out = h.out
           /\ r.teams = ChangedTeams(h.teams, n, t)
<1>1. PICK ts \in Seq(TeamRecords) : ts = h.teams
  BY DEF GoodTeams
<1>2. PICK us : us = IF Disbanded(t) THEN RemoveAt(ts, n) ELSE ReplaceAt(ts, n, t)
  OBVIOUS
<1>3. r = [h EXCEPT !.teams = us]
  BY <1>1, <1>2 DEF WithTeam
<1>4. /\ r.teams = us /\ r.known = h.known /\ r.pending = h.pending /\ r.out = h.out
      /\ Speaker(r)
  <2>1. /\ r.teams = us /\ r.known = h.known /\ r.lfg = h.lfg /\ r.pending = h.pending
        /\ r.out = h.out
        /\ r = [teams |-> r.teams, known |-> r.known, lfg |-> r.lfg, pending |-> r.pending,
                out |-> r.out]
    BY <1>3 DEF Speaker
  <2> QED BY <2>1 DEF Speaker
<1>5. PICK len \in Nat : len = Len(ts) /\ n \in 1..len
  BY <1>1
<1>6. ASSUME NEW m \in 1..Len(us) PROVE Who(us[m]) \subseteq M
  <2>0. \A k \in 1..len : Who(ts[k]) \subseteq M
    BY <1>1, <1>5 DEF Polite
  <2>1. CASE Disbanded(t)
    <3>1. Len(us) = len - 1 /\ us[m] = IF m < n THEN ts[m] ELSE ts[m + 1]
      <4> HIDE DEF TeamRecords
      <4>1. /\ Len(us) = len - 1
            /\ \A i \in 1..(len - 1) : us[i] = IF i < n THEN ts[i] ELSE ts[i + 1]
        BY <1>2, <1>5, <2>1, CutOut
      <4> QED BY <4>1
    <3>2. m \in 1..len /\ m + 1 \in 1..len
      BY <1>5, <3>1
    <3> QED BY <2>0, <3>1, <3>2
  <2>2. CASE ~Disbanded(t)
    <3>1. us = [ts EXCEPT ![n] = t]
      BY <1>2, <2>2 DEF ReplaceAt
    <3>2. Len(us) = len /\ us[m] = IF m = n THEN t ELSE ts[m]
      <4>1. t \in TeamRecords
        BY DEF Shaped
      <4> HIDE DEF TeamRecords
      <4> QED BY <1>1, <1>5, <3>1, <4>1
    <3> QED BY <2>0, <3>2
  <2> QED BY <2>1, <2>2
<1> QED BY <1>1, <1>2, <1>4, <1>6 DEF Polite, ChangedTeams

(* If c shows its team, or is to, it still is when the handler is at r.    *)
Showing(h, v, c) == ViewIn(h.teams, c, Final(v, h.out)[c])

Honest(h, r) ==
    \A v : OnCharacters(v) => \A c \in Characters : Showing(h, v, c) => Showing(r, v, c)

LEMMA HonestOn ==
    ASSUME NEW h, NEW g, NEW r, Honest(h, g), Honest(g, r)
    PROVE  Honest(h, r)
BY DEF Honest

LEMMA HonestSame ==
    ASSUME NEW h, NEW r, r.teams = h.teams, r.out = h.out
    PROVE  Honest(h, r)
BY DEF Honest, Showing

LEMMA OnlyMembers ==
    ASSUME NEW t, NEW c, c \notin In(t)
    PROVE  OwnView(t, c) = NoView
BY DEF OwnView

LEMMA InIsWho == \A t : In(t) \subseteq Who(t)
BY DEF In, Settled, Who

(* A team that is changed, in the list and in what is told                 *)
LEMMA ChangedView ==
    ASSUME NEW ts, GoodTeams(ts), NEW n \in 1..Len(ts), NEW t, Shaped(t),
           Who(t) \subseteq Who(ts[n]), In(ts[n]) \intersect Who(t) \subseteq In(t),
           NEW us, us = ChangedTeams(ts, n, t),
           NEW c, NEW x, ViewIn(ts, c, x), NEW z, z = x \/ z = NoView,
           c \in Who(ts[n]) \ Who(t) => z = NoView,
           c \notin Who(ts[n]) => z = x,
           NEW y, y = ToldOf(t, c, z)
    PROVE  ViewIn(us, c, y)
<1>1. In(t) \subseteq Who(t)
  BY InIsWho
<1>2. c \notin Who(ts[n]) => y = x
  BY <1>1 DEF ToldOf
<1>3. c \in Who(ts[n]) /\ c \notin Who(t) => y = NoView
  BY <1>1 DEF ToldOf
<1>4. ASSUME c \in Who(t) PROVE y = OwnView(t, c)
  <2>1. CASE c \in In(t)
    BY <2>1 DEF OwnView, ToldOf
  <2>2. CASE c \notin In(t)
    <3>1. x = OwnView(ts[n], c)
      BY <1>4 DEF ViewIn
    <3>2. x = NoView
      BY <1>4, <2>2, <3>1, OnlyMembers
    <3> QED BY <2>2, <3>2, OnlyMembers DEF ToldOf
  <2> QED BY <2>1, <2>2
<1>5. us = IF Disbanded(t) THEN RemoveAt(ts, n) ELSE ReplaceAt(ts, n, t)
  BY DEF ChangedTeams
<1> QED BY <1>2, <1>3, <1>4, <1>5, ViewPut

LEMMA ChangedHonest ==
    ASSUME NEW M, NEW h, GoodState(h), Polite(h, M), NEW n \in 1..Len(h.teams),
           NEW t, Shaped(t), Who(t) = Who(h.teams[n]), In(h.teams[n]) \subseteq In(t),
           NEW token \in Characters \union {NoLeader},
           NEW r, r = notify_team_of_changes(WithTeam(h, n, t), t, token)
    PROVE  Polite(r, M) /\ Honest(h, r)
<1>1. Speaker(h) /\ GoodTeams(h.teams) /\ t \in TeamRecords /\ Who(t) \subseteq M
  BY StateSpeaks DEF GoodState, Shaped, Polite
<1>2. PICK g : g = WithTeam(h, n, t)
  OBVIOUS
<1>3. /\ Polite(g, M) /\ Speaker(g) /\ g.out = h.out
      /\ g.teams = ChangedTeams(h.teams, n, t)
  BY <1>1, <1>2, WithTeamPolite
<1>4. r = notify_team_of_changes(g, t, token)
  BY <1>2
<1>5. Polite(r, M) /\ r.teams = g.teams
  <2>1. r.teams = g.teams
    BY <1>1, <1>3, <1>4, NotifyTells
  <2>2. Polite(r, M)
    BY <1>1, <1>3, <1>4, NotifyPolite
  <2> QED BY <2>1, <2>2
<1>6. ASSUME NEW v, OnCharacters(v), NEW c \in Characters, Showing(h, v, c)
      PROVE  Showing(r, v, c)
  <2>1. PICK x : x = Final(v, h.out)[c] /\ ViewIn(h.teams, c, x)
    BY <1>6 DEF Showing
  <2>2. PICK y : y = Final(v, r.out)[c]
    OBVIOUS
  <2>3. y = ToldOf(t, c, Final(v, g.out)[c])
    BY <1>1, <1>3, <1>4, <1>6, <2>2, NotifyTold
  <2>4. y = ToldOf(t, c, x)
    BY <1>3, <2>1, <2>3
  <2>6. /\ Who(t) \subseteq Who(h.teams[n]) /\ In(h.teams[n]) \intersect Who(t) \subseteq In(t)
        /\ c \in Who(h.teams[n]) \ Who(t) => x = NoView
    OBVIOUS
  <2>5. ViewIn(g.teams, c, y)
    BY <1>1, <1>3, <2>1, <2>4, <2>6, ChangedView
  <2> QED BY <1>5, <2>2, <2>5 DEF Showing
<1> QED BY <1>5, <1>6 DEF Honest

LEMMA RemovedHonest ==
    ASSUME NEW M, NEW h, GoodState(h), Polite(h, M), NEW n \in 1..Len(h.teams),
           NEW c \in Who(h.teams[n]), NEW type \in {"Kicked", "Left"},
           NEW r, r = Removed(h, n, c, type)
    PROVE  Polite(r, M) /\ Honest(h, r)
<1>1. PICK old : old = h.teams[n]
  OBVIOUS
<1>2. Shaped(old) /\ Who(old) \subseteq Characters /\ Who(old) \subseteq M
  BY <1>1, TeamAt DEF GoodState, Polite
<1>3. PICK t : t = removeTeamMember(old, c)
  OBVIOUS
<1>4. Shaped(t) /\ Who(t) = Who(old) \ {c} /\ In(t) = In(old) \ {c}
  BY <1>1, <1>2, <1>3, MemberRemoved
<1>5. t \in TeamRecords /\ GoodTeams(h.teams)
  BY <1>4 DEF Shaped, GoodState
<1>6. PICK msg \in RouterMessages : msg = [type |-> type, who |-> c]
  <2>1. c \in Characters
    BY <1>1, <1>2
  <2>2. [type |-> type, who |-> c] \in RouterMessages
    BY <2>1 DEF RouterMessages
  <2> QED BY <2>2
<1>7. Civil(msg, M) /\ msg.type \in News
  BY <1>6 DEF Civil, News
<1>8. PICK f : f = Forward(h, msg)
  OBVIOUS
<1>9. Speaker(h)
  BY StateSpeaks DEF GoodState
<1>10. Speaker(f) /\ f.teams = h.teams /\ f.out = Append(h.out, msg)
  BY <1>7, <1>8, <1>9, ForwardQuietly DEF Quietly
<1>11. Polite(f, M)
  BY <1>7, <1>8, <1>9, ForwardPolite
<1>12. PICK g : g = notify_team_of_changes(f, t, NoLeader)
  OBVIOUS
<1>13. Speaker(g) /\ g.teams = f.teams
  BY <1>5, <1>10, <1>12, NobodyIsAToken, NotifyTells
<1>14. Who(t) \subseteq M
  BY <1>2, <1>4
<1>15. Polite(g, M)
  BY <1>5, <1>10, <1>11, <1>12, <1>14, NobodyIsAToken, NotifyPolite
<1>16. r = WithTeam(g, n, t)
  BY <1>1, <1>3, <1>6, <1>8, <1>12 DEF Removed
<1>17. GoodTeams(g.teams) /\ n \in 1..Len(g.teams)
  BY <1>5, <1>10, <1>13
<1>18. /\ Polite(r, M) /\ r.out = g.out
       /\ r.teams = ChangedTeams(h.teams, n, t)
  <2>1. /\ Polite(r, M) /\ r.out = g.out
        /\ r.teams = ChangedTeams(g.teams, n, t)
    BY <1>4, <1>13, <1>14, <1>15, <1>16, <1>17, WithTeamPolite
  <2> QED BY <1>10, <1>13, <2>1
<1>19. ASSUME NEW v, OnCharacters(v), NEW d \in Characters, Showing(h, v, d)
       PROVE  Showing(r, v, d)
  <2>1. PICK x : x = Final(v, h.out)[d] /\ ViewIn(h.teams, d, x)
    BY <1>19 DEF Showing
  <2>2. PICK z : z = Final(v, f.out)[d]
    OBVIOUS
  <2>3. PICK q \in Seq(RouterMessages) : q = h.out
    BY <1>9 DEF Speaker
  <2>4. z = Effect(x, d, msg)
    BY <1>10, <2>1, <2>2, <2>3, ToldLast
  <2>5. z = IF d = c THEN NoView ELSE x
    BY <1>6, <2>4 DEF Effect
  <2>6. PICK y : y = Final(v, r.out)[d]
    OBVIOUS
  <2>7. Final(v, g.out)[d] = ToldOf(t, d, Final(v, f.out)[d])
    <3>1. PICK token \in Characters \union {NoLeader} : token = NoLeader
      BY NobodyIsAToken
    <3>2. Speaker(f) /\ t \in TeamRecords /\ OnCharacters(v)
      BY <1>5, <1>10, <1>19
    <3>3. g = notify_team_of_changes(f, t, token)
      BY <1>12, <3>1
    <3> HIDE DEF TeamRecords
    <3> QED BY <3>2, <3>3, NotifyTold
  <2>8. y = ToldOf(t, d, z)
    BY <1>18, <2>2, <2>6, <2>7
  <2>9. /\ Who(t) \subseteq Who(h.teams[n]) /\ In(h.teams[n]) \intersect Who(t) \subseteq In(t)
        /\ z = x \/ z = NoView
        /\ d \in Who(h.teams[n]) \ Who(t) => z = NoView
        /\ d \notin Who(h.teams[n]) => z = x
    BY <1>1, <1>4, <2>5
  <2>10. ViewIn(r.teams, d, y)
    BY <1>4, <1>5, <1>18, <2>1, <2>8, <2>9, ChangedView
  <2> QED BY <2>6, <2>10 DEF Showing
<1> QED BY <1>18, <1>19 DEF Honest

LEMMA KickedHonest ==
    ASSUME NEW M, NEW h, GoodState(h), Polite(h, M), NEW l, NEW c,
           NEW r, r = on_team_member_kicked(h, l, c)
    PROVE  Polite(r, M) /\ Honest(h, r)
<1>1. PICK n : n = FirstLedBy(h, l)
  OBVIOUS
<1>2. h.teams \in Seq(TeamRecords)
  BY DEF GoodState, GoodTeams
<1>3. CASE n # 0 /\ containsEntityID(h.teams[n], c)
  <2>1. n \in 1..Len(h.teams)
    BY <1>1, <1>2, <1>3, TeamFound
  <2>2. h.teams[n] \in TeamRecords
    BY <2>1, TeamAt DEF GoodState
  <2>3. c \in Who(h.teams[n])
    BY <1>3, <2>2 DEF TeamRecords, containsEntityID, Who
  <2>4. r = Removed(h, n, c, "Kicked")
    BY <1>1, <1>3 DEF on_team_member_kicked
  <2> QED BY <2>1, <2>3, <2>4, RemovedHonest
<1>4. CASE ~(n # 0 /\ containsEntityID(h.teams[n], c))
  <2>1. r = h
    BY <1>1, <1>4 DEF on_team_member_kicked
  <2> QED BY <2>1, HonestSame
<1> QED BY <1>3, <1>4

LEMMA LeaveHonest ==
    ASSUME NEW M, NEW h, GoodState(h), Polite(h, M), NEW c,
           NEW r, r = on_team_leave_team(h, c)
    PROVE  Polite(r, M) /\ Honest(h, r)
<1>1. PICK n : n = FirstWith(h, c)
  OBVIOUS
<1>2. h.teams \in Seq(TeamRecords)
  BY DEF GoodState, GoodTeams
<1>3. CASE n # 0
  <2>1. n \in 1..Len(h.teams) /\ c \in Who(h.teams[n])
    BY <1>1, <1>2, <1>3, TeamFound
  <2>2. r = Removed(h, n, c, "Left")
    BY <1>1, <1>3 DEF on_team_leave_team
  <2> QED BY <2>1, <2>2, RemovedHonest
<1>4. CASE n = 0
  <2>1. r = h
    BY <1>1, <1>4 DEF on_team_leave_team
  <2> QED BY <2>1, HonestSame
<1> QED BY <1>3, <1>4

LEMMA MakeLeaderHonest ==
    ASSUME NEW M, NEW h, GoodState(h), Polite(h, M), NEW l, NEW c,
           NEW r, r = on_team_member_make_leader(h, l, c)
    PROVE  Polite(r, M) /\ Honest(h, r)
<1>1. PICK n : n = FirstLedBy(h, l)
  OBVIOUS
<1>2. h.teams \in Seq(TeamRecords)
  BY DEF GoodState, GoodTeams
<1>3. CASE n # 0 /\ containsEntityID(h.teams[n], c) /\ ~isNamePending(h.teams[n], c)
  <2>1. n \in 1..Len(h.teams)
    BY <1>1, <1>2, <1>3, TeamFound
  <2>2. PICK old : old = h.teams[n]
    OBVIOUS
  <2>3. Shaped(old) /\ old \in TeamRecords /\ Who(old) \subseteq Characters
    BY <2>1, <2>2, TeamAt DEF GoodState
  <2>4. c \in Who(old)
    BY <1>3, <2>2, <2>3 DEF TeamRecords, containsEntityID, Who
  <2>5. PICK t : t = [old EXCEPT !.leader = c]
    OBVIOUS
  <2>6. t \in TeamRecords /\ t.members = old.members
    BY <2>3, <2>4, <2>5 DEF TeamRecords
  <2>7. Shaped(t) /\ Who(t) = Who(old) /\ In(t) = In(old)
    BY <2>3, <2>6 DEF Shaped, Who, In
  <2>8. r = notify_team_of_changes(WithTeam(h, n, t), t, NoLeader)
    BY <1>1, <1>3, <2>2, <2>5 DEF on_team_member_make_leader
  <2> QED BY <2>1, <2>2, <2>7, <2>8, NobodyIsAToken, ChangedHonest
<1>4. CASE ~(n # 0 /\ containsEntityID(h.teams[n], c) /\ ~isNamePending(h.teams[n], c))
  <2>1. r = h
    BY <1>1, <1>4 DEF on_team_member_make_leader
  <2> QED BY <2>1, HonestSame
<1> QED BY <1>3, <1>4

LEMMA AcceptedStay ==
    ASSUME NEW t, Shaped(t), NEW c, NEW r, r = acceptTeamInvite(t, c)
    PROVE  In(t) \subseteq In(r)
<1>1. PICK s \in Seq(TeamMembers) : s = t.members
  BY DEF Shaped, TeamRecords
<1>2. PICK n \in Nat : n = Len(s) /\ DOMAIN s = 1..n
  OBVIOUS
<1>3. PICK ms : ms = [i \in 1..n |-> IF s[i].who = c THEN [s[i] EXCEPT !.pending = FALSE] ELSE s[i]]
  OBVIOUS
<1>4. t = [leader |-> t.leader, members |-> s]
  BY <1>1 DEF Shaped, TeamRecords
<1>5. r = [leader |-> t.leader, members |-> ms]
  BY <1>1, <1>2, <1>3, <1>4 DEF acceptTeamInvite
<1>6. r.members = ms /\ Len(ms) = n
  <2>1. \A i \in 1..n : s[i] \in TeamMembers
    BY <1>2
  <2>2. \A m \in TeamMembers : [m EXCEPT !.pending = FALSE] \in TeamMembers
    BY DEF TeamMembers
  <2>3. ms \in [1..n -> TeamMembers]
    <3> HIDE DEF TeamMembers
    <3> QED BY <1>3, <2>1, <2>2
  <2> QED BY <1>5, <2>3
<1>7. ASSUME NEW i \in 1..n, ~s[i].pending
      PROVE  ms[i].who = s[i].who /\ ~ms[i].pending
  <2>1. s[i] \in TeamMembers
    BY <1>2
  <2>2. CASE s[i].who = c
    <3>1. ms[i] = [s[i] EXCEPT !.pending = FALSE]
      BY <1>3, <2>2
    <3> QED BY <2>1, <3>1 DEF TeamMembers
  <2>3. CASE s[i].who # c
    <3>1. ms[i] = s[i]
      BY <1>3, <2>3
    <3> QED BY <1>7, <3>1
  <2> QED BY <2>2, <2>3
<1>8. In(t) = {s[i].who : i \in {i \in 1..n : ~s[i].pending}}
  BY <1>1, <1>2 DEF In, Settled
<1>9. In(r) = {ms[i].who : i \in {i \in 1..n : ~ms[i].pending}}
  BY <1>6 DEF In, Settled
<1> QED BY <1>7, <1>8, <1>9

(* Who declines has shown nothing, and the others see no change.           *)
LEMMA DeclinedSame ==
    ASSUME NEW t, Shaped(t), NEW c, isNamePending(t, c), c # t.leader,
           NEW r, r = removeTeamMember(t, c)
    PROVE  Update(r) = Update(t)
<1>1. PICK s \in Seq(TeamMembers) : s = t.members
  BY DEF Shaped, TeamRecords
<1>2. PICK n \in Nat : n = Len(s) /\ DOMAIN s = 1..n
  OBVIOUS
<1>3. PICK k \in 1..n : s[k] = [who |-> c, pending |-> TRUE]
  BY <1>1, <1>2 DEF isNamePending, ToSet
<1>4. s[k].who = c /\ \A names : AddName(names, s[k]) = names
  BY <1>3 DEF AddName
<1>5. \A i, j \in 1..n : s[i].who = s[j].who => i = j
  BY <1>1, <1>2 DEF Shaped
<1>6. WithoutMember(s, c) = RemoveAt(s, k)
  BY <1>2, <1>4, <1>5, FirstMatch
<1>7. r.leader = t.leader /\ r.members = RemoveAt(s, k)
  <2>1. r = [leader  |-> IF c = t.leader /\ Len(RemoveAt(s, k)) >= 2
                         THEN Head(RemoveAt(s, k)).who ELSE t.leader,
             members |-> RemoveAt(s, k)]
    BY <1>1, <1>6 DEF removeTeamMember, WithoutMember
  <2> QED BY <2>1
<1>8. Confirmed(r) = Confirmed(t)
  BY <1>1, <1>2, <1>4, <1>7, ConfirmedCut
<1> QED BY <1>7, <1>8 DEF Update

LEMMA UntoldView ==
    ASSUME NEW ts, GoodTeams(ts), NEW n \in 1..Len(ts), NEW t, Shaped(t),
           Who(t) \subseteq Who(ts[n]), In(t) = In(ts[n]), Update(t) = Update(ts[n]),
           NEW c, NEW x, ViewIn(ts, c, x)
    PROVE  ViewIn(ChangedTeams(ts, n, t), c, x)
<1>1. c \in Who(ts[n]) => x = OwnView(ts[n], c)
  BY DEF ViewIn
<1>2. OwnView(t, c) = OwnView(ts[n], c)
  BY DEF OwnView
<1>3. c \in Who(t) => x = OwnView(t, c)
  BY <1>1, <1>2
<1>4. c \in Who(ts[n]) /\ c \notin Who(t) => x = NoView
  <2>1. c \notin Who(t) => c \notin In(ts[n])
    BY InIsWho
  <2> QED BY <1>1, <2>1, OnlyMembers
<1>5. PICK us : us = IF Disbanded(t) THEN RemoveAt(ts, n) ELSE ReplaceAt(ts, n, t)
  OBVIOUS
<1>6. ViewIn(us, c, x)
  BY <1>3, <1>4, <1>5, ViewPut
<1> QED BY <1>5, <1>6 DEF ChangedTeams

LEMMA AnswerHonest ==
    ASSUME NEW M, NEW h, GoodState(h), Polite(h, M), NEW c \in Characters, NEW l, l # c,
           NEW accepted \in BOOLEAN, NEW r, r = on_team_member_invite_handled(h, c, l, accepted)
    PROVE  Polite(r, M) /\ Honest(h, r)
<1>1. PICK n : n = LastWith(h, c)
  OBVIOUS
<1>2. h.teams \in Seq(TeamRecords) /\ GoodTeams(h.teams) /\ Speaker(h)
  BY StateSpeaks DEF GoodState, GoodTeams
<1>3. CASE n = 0 \/ h.teams[n].leader # l \/ ~isNamePending(h.teams[n], c)
  <2>1. r = h
    BY <1>1, <1>3 DEF on_team_member_invite_handled
  <2> QED BY <2>1, HonestSame
<1>4. CASE ~(n = 0 \/ h.teams[n].leader # l \/ ~isNamePending(h.teams[n], c))
  <2>1. n \in 1..Len(h.teams)
    BY <1>1, <1>2, <1>4, TeamFound
  <2>2. PICK old : old = h.teams[n]
    OBVIOUS
  <2>3. Shaped(old) /\ Who(old) \subseteq M
    BY <2>1, <2>2, TeamAt DEF GoodState, Polite
  <2>4. CASE accepted
    <3>1. PICK t : t = acceptTeamInvite(old, c)
      OBVIOUS
    <3>2. Shaped(t) /\ Who(t) = Who(old) /\ In(old) \subseteq In(t)
      BY <2>3, <3>1, MemberAccepted, AcceptedStay
    <3>3. PICK token \in Characters \union {NoLeader} : token = c
      OBVIOUS
    <3>4. r = notify_team_of_changes(WithTeam(h, n, t), t, token)
      BY <1>1, <1>4, <2>2, <2>4, <3>1, <3>3 DEF on_team_member_invite_handled
    <3> QED BY <2>1, <2>2, <3>2, <3>4, ChangedHonest
  <2>5. CASE ~accepted
    <3>1. PICK t : t = removeTeamMember(old, c)
      OBVIOUS
    <3>2. c \in Who(old) /\ c \notin In(old)
      BY <1>4, <2>2, <2>3, StillToAnswer
    <3>3. Shaped(t) /\ Who(t) = Who(old) \ {c} /\ In(t) = In(old)
      <4>1. Shaped(t) /\ Who(t) = Who(old) \ {c} /\ In(t) = In(old) \ {c}
        BY <2>3, <3>1, <3>2, MemberRemoved
      <4> QED BY <3>2, <4>1
    <3>4. Update(t) = Update(old)
      BY <1>4, <2>2, <2>3, <3>1, DeclinedSame
    <3>5. r = WithTeam(h, n, t)
      BY <1>1, <1>4, <2>2, <2>5, <3>1 DEF on_team_member_invite_handled
    <3>6. Who(t) \subseteq M
      BY <2>3, <3>3
    <3>7. Polite(r, M) /\ r.out = h.out /\ r.teams = ChangedTeams(h.teams, n, t)
      BY <1>2, <2>1, <3>3, <3>5, <3>6, WithTeamPolite
    <3>8. ASSUME NEW v, OnCharacters(v), NEW d \in Characters, Showing(h, v, d)
          PROVE  Showing(r, v, d)
      <4>1. PICK x : x = Final(v, h.out)[d] /\ ViewIn(h.teams, d, x)
        BY <3>8 DEF Showing
      <4>2. /\ GoodTeams(h.teams) /\ Shaped(t) /\ Who(t) \subseteq Who(h.teams[n])
            /\ In(t) = In(h.teams[n]) /\ Update(t) = Update(h.teams[n])
        BY <1>2, <2>2, <3>3, <3>4
      <4>3. ViewIn(ChangedTeams(h.teams, n, t), d, x)
        BY <2>1, <4>1, <4>2, UntoldView
      <4> QED BY <3>7, <4>1, <4>3 DEF Showing
    <3> QED BY <3>7, <3>8 DEF Honest
  <2> QED BY <2>4, <2>5
<1> QED BY <1>3, <1>4

(* What is said that changes nobody's view                                 *)
LEMMA ForwardHonest ==
    ASSUME NEW h, Speaker(h), NEW msg \in RouterMessages, msg.type \notin Telling,
           NEW r, r.teams = h.teams, r.out = Append(h.out, msg)
    PROVE  Honest(h, r)
<1>1. PICK q \in Seq(RouterMessages) : q = h.out
  BY DEF Speaker
<1>2. ASSUME NEW v, NEW c \in Characters
      PROVE  Final(v, r.out)[c] = Final(v, h.out)[c]
  <2>1. Final(v, Append(q, msg))[c] = Effect(Final(v, q)[c], c, msg)
    BY ToldLast
  <2>2. \A x : Effect(x, c, msg) = x
    BY DEF Effect, Telling
  <2> QED BY <1>1, <2>1, <2>2
<1> QED BY <1>2 DEF Honest, Showing

LEMMA ToggleHonest ==
    ASSUME NEW M, NEW h, GoodState(h), Polite(h, M), NEW c \in Characters,
           NEW r, r = on_team_toggle_lfg(h, c)
    PROVE  Polite(r, M) /\ Honest(h, r)
<1>1. Speaker(h)
  BY StateSpeaks DEF GoodState
<1>2. PICK msg \in RouterMessages : msg = [type |-> "ToggleLFG", token |-> c]
  BY DEF RouterMessages
<1>3. PICK f : f = Forward(h, msg)
  OBVIOUS
<1>4. /\ f.teams = h.teams /\ f.known = h.known /\ f.pending = h.pending
      /\ f.out = Append(h.out, msg)
      /\ f = [teams |-> f.teams, known |-> f.known, lfg |-> f.lfg, pending |-> f.pending,
              out |-> f.out]
  <2>1. f = [h EXCEPT !.out = Append(h.out, msg)]
    BY <1>3 DEF Forward
  <2> QED BY <1>1, <2>1 DEF Speaker
<1>5. r = h \/ \E s : r = [f EXCEPT !.lfg = s]
  BY <1>2, <1>3 DEF on_team_toggle_lfg
<1>6. CASE r = h
  BY <1>6, HonestSame
<1>7. CASE \E s : r = [f EXCEPT !.lfg = s]
  <2>1. /\ r.teams = h.teams /\ r.known = h.known /\ r.pending = h.pending
        /\ r.out = Append(h.out, msg)
    BY <1>4, <1>7
  <2>2. msg.type \notin Telling /\ Civil(msg, M)
    BY <1>2 DEF Telling, Civil
  <2>3. Honest(h, r)
    BY <1>1, <2>1, <2>2, ForwardHonest
  <2>4. Polite(f, M)
    BY <1>1, <1>3, <2>2, ForwardPolite
  <2> QED BY <1>4, <2>1, <2>3, <2>4 DEF Polite
<1> QED BY <1>5, <1>6, <1>7

(* Who is invited is not shown before they answer.                         *)
LEMMA InvitedSame ==
    ASSUME NEW t, Shaped(t), Len(t.members) < MaxTeam, NEW c \in Characters,
           NEW r, r = WithInvitee(t, c)
    PROVE  Update(r) = Update(t)
<1>1. PICK s \in Seq(TeamMembers) : s = t.members
  BY DEF Shaped, TeamRecords
<1>2. PICK n \in Nat : n = Len(s)
  OBVIOUS
<1>3. PICK m \in TeamMembers : m = [who |-> c, pending |-> TRUE]
  BY DEF TeamMembers
<1>4. PICK ms : ms = Append(s, m)
  OBVIOUS
<1>5. t = [leader |-> t.leader, members |-> s]
  BY <1>1 DEF Shaped, TeamRecords
<1>6. ~isFull(t)
  BY <1>1, <1>2, TeamAssumption DEF isFull
<1>7. r = [leader |-> t.leader, members |-> ms]
  BY <1>1, <1>3, <1>4, <1>5, <1>6 DEF addTeamMember, WithInvitee
<1>8. r.leader = t.leader /\ r.members = Append(s, m)
  BY <1>4, <1>7
<1>9. Confirmed(r) = Confirmed(t)
  <2>1. m.pending
    BY <1>3
  <2> QED BY <1>1, <1>8, <2>1, ConfirmedAppend
<1> QED BY <1>8, <1>9 DEF Update

LEMMA TwoShowNothing ==
    ASSUME NEW l \in Characters, NEW c \in Characters, l # c,
           NEW r, r = WithInvitee(Lead(l), c), NEW d
    PROVE  OwnView(r, d) = NoView
<1>1. PICK t : t = Lead(l)
  OBVIOUS
<1>2. PICK m \in TeamMembers : m = [who |-> l, pending |-> FALSE]
  BY DEF TeamMembers
<1>3. t = [leader |-> l, members |-> <<m>>] /\ <<m>> \in Seq(TeamMembers) /\ Len(<<m>>) = 1 /\ <<m>>[1] = m
  BY <1>1, <1>2 DEF Lead
<1>4. t \in TeamRecords /\ Len(t.members) = 1
  BY <1>3 DEF TeamRecords
<1>5. 1..1 = {1} /\ 1 < MaxTeam /\ MaxTeam \in Nat
  BY TeamAssumption
<1>6. Shaped(t)
  BY <1>3, <1>4, <1>5 DEF Shaped
<1>7. In(t) = {l}
  BY <1>2, <1>3, <1>5 DEF In, Settled
<1>8. Update(r) = Update(t) /\ In(r) = {l}
  BY <1>1, <1>4, <1>5, <1>6, InvitedSame, TeamOfTwo
<1>9. OwnView(t, l) = NoView
  BY <1>4, <1>6, ShowsAlone
<1>10. Shown(Update(t)) = NoView
  BY <1>7, <1>9 DEF OwnView
<1> QED BY <1>8, <1>10 DEF OwnView

LEMMA ViewAppended ==
    ASSUME NEW ts, GoodTeams(ts), NEW t, t \in TeamRecords, NEW c, NEW x, ViewIn(ts, c, x),
           c \in Who(t) => x = OwnView(t, c)
    PROVE  ViewIn(Append(ts, t), c, x)
<1>1. PICK s \in Seq(TeamRecords) : s = ts
  BY DEF GoodTeams
<1>2. PICK n \in Nat : n = Len(s)
  OBVIOUS
<1>3. PICK us : us = Append(s, t)
  OBVIOUS
<1>4. /\ Len(us) = n + 1 /\ us[n + 1] = t /\ \A m \in 1..n : us[m] = s[m]
      /\ \A m \in 1..(n + 1) : m \in 1..n \/ m = n + 1
  <2> HIDE DEF TeamRecords
  <2> QED BY <1>2, <1>3
<1>5. ASSUME NEW m \in 1..(n + 1), c \in Who(us[m]) PROVE x = OwnView(us[m], c)
  BY <1>1, <1>2, <1>4, <1>5 DEF ViewIn
<1>6. ASSUME \A m \in 1..(n + 1) : c \notin Who(us[m]) PROVE x = NoView
  <2>1. \A m \in 1..n : c \notin Who(s[m])
    BY <1>4, <1>6
  <2> QED BY <1>1, <1>2, <2>1 DEF ViewIn
<1>7. ViewIn(us, c, x)
  BY <1>4, <1>5, <1>6 DEF ViewIn
<1> QED BY <1>1, <1>3, <1>7

LEMMA ViewGrown ==
    ASSUME NEW ts, GoodTeams(ts), NEW n \in 1..Len(ts), NEW t, t \in TeamRecords,
           Who(ts[n]) \subseteq Who(t), NEW c, NEW x, ViewIn(ts, c, x),
           c \in Who(t) => x = OwnView(t, c),
           NEW us, us = [ts EXCEPT ![n] = t]
    PROVE  ViewIn(us, c, x)
<1>1. PICK s \in Seq(TeamRecords) : s = ts
  BY DEF GoodTeams
<1>2. PICK len \in Nat : len = Len(s) /\ n \in 1..len
  BY <1>1
<1>4. Len(us) = len /\ us[n] = t /\ \A m \in 1..len : m # n => us[m] = s[m]
  <2> HIDE DEF TeamRecords
  <2> QED BY <1>1, <1>2
<1>5. ASSUME NEW m \in 1..len, c \in Who(us[m]) PROVE x = OwnView(us[m], c)
  BY <1>1, <1>2, <1>4, <1>5 DEF ViewIn
<1>6. ASSUME \A m \in 1..len : c \notin Who(us[m]) PROVE x = NoView
  <2>1. \A m \in 1..len : c \notin Who(s[m])
    BY <1>1, <1>2, <1>4, <1>6
  <2> QED BY <1>1, <1>2, <2>1 DEF ViewIn
<1> QED BY <1>4, <1>5, <1>6 DEF ViewIn

LEMMA InvitedToHonest ==
    ASSUME NEW M, NEW h, GoodState(h), Polite(h, M),
           NEW l \in Characters, l \in M, NEW c \in Characters, c \in M,
           ~RefusesInvitation(h, l, c), NEW r, r = InvitedTo(h, l, c)
    PROVE  Polite(r, M) /\ Honest(h, r)
<1>1. PICK n : n = LastWith(h, l)
  OBVIOUS
<1>2. h.teams \in Seq(TeamRecords) /\ GoodTeams(h.teams) /\ Speaker(h)
  BY StateSpeaks DEF GoodState, GoodTeams
<1>3. /\ c # l /\ LastWith(h, c) = 0
      /\ n # 0 => h.teams[n].leader = l /\ ~isFull(h.teams[n])
  BY <1>1 DEF RefusesInvitation
<1>4. \A m \in 1..Len(h.teams) : c \notin Who(h.teams[m])
  BY <1>2, <1>3, TeamFound
<1>5. PICK msg \in RouterMessages : msg = [type |-> "Offer", leader |-> l, who |-> c]
  BY DEF RouterMessages
<1>6. PICK ts : ts = IF n = 0 THEN Append(h.teams, WithInvitee(Lead(l), c))
                     ELSE [h.teams EXCEPT ![n] = WithInvitee(@, c)]
  OBVIOUS
<1>7. PICK g : g = [h EXCEPT !.teams = ts]
  OBVIOUS
<1>8. r = Forward(g, msg)
  <2>1. CASE n = 0
    BY <1>1, <1>5, <1>6, <1>7, <2>1 DEF InvitedTo, WithInvitee, Lead
  <2>2. CASE n # 0
    BY <1>1, <1>5, <1>6, <1>7, <2>2 DEF InvitedTo, WithInvitee
  <2> QED BY <2>1, <2>2
<1>9. /\ g.teams = ts /\ g.known = h.known /\ g.lfg = h.lfg /\ g.pending = h.pending
      /\ g.out = h.out
      /\ g = [teams |-> g.teams, known |-> g.known, lfg |-> g.lfg, pending |-> g.pending,
              out |-> g.out]
  BY <1>2, <1>7 DEF Speaker
<1>10. Speaker(g)
  BY <1>2, <1>9 DEF Speaker
<1>11. PICK s \in Seq(TeamRecords) : s = h.teams /\ \A m \in 1..Len(s) : Who(s[m]) \subseteq M
  BY <1>2 DEF Polite
<1>12. PICK len \in Nat : len = Len(s)
  BY <1>11
<1>13. /\ \A m \in 1..Len(ts) : Who(ts[m]) \subseteq M
       /\ \A d, x : ViewIn(h.teams, d, x) => ViewIn(ts, d, x)
  <2>1. CASE n = 0
    <3>1. PICK t : t = WithInvitee(Lead(l), c)
      OBVIOUS
    <3>2. GoodTeam(t) /\ Who(t) = {l, c} /\ \A d : OwnView(t, d) = NoView
      BY <1>3, <3>1, TeamOfTwo, TwoShowNothing
    <3>3. t \in TeamRecords /\ Who(t) \subseteq M
      BY <3>2 DEF GoodTeam, Shaped
    <3>4. \A m \in 1..Len(h.teams) : l \notin Who(h.teams[m])
      BY <1>1, <1>2, <2>1, TeamFound
    <3>5. ts = Append(s, t)
      BY <1>6, <1>11, <2>1, <3>1
    <3>6. \A m \in 1..Len(ts) : Who(ts[m]) \subseteq M
      <4>1. /\ Len(ts) = len + 1 /\ ts[len + 1] = t /\ \A m \in 1..len : ts[m] = s[m]
            /\ \A m \in 1..(len + 1) : m \in 1..len \/ m = len + 1
        <5> HIDE DEF TeamRecords
        <5> QED BY <1>12, <3>3, <3>5
      <4> QED BY <1>11, <1>12, <3>3, <4>1
    <3>7. ASSUME NEW d, NEW x, ViewIn(h.teams, d, x) PROVE ViewIn(ts, d, x)
      <4>1. d \in Who(t) => x = NoView
        BY <1>4, <3>2, <3>4, <3>7 DEF ViewIn
      <4>2. d \in Who(t) => x = OwnView(t, d)
        BY <3>2, <4>1
      <4>3. ViewIn(Append(h.teams, t), d, x)
        BY <1>2, <3>3, <3>7, <4>2, ViewAppended
      <4> QED BY <1>11, <3>5, <4>3
    <3> QED BY <3>6, <3>7
  <2>2. CASE n # 0
    <3>1. n \in 1..Len(h.teams)
      BY <1>1, <1>2, <2>2, TeamFound
    <3>2. PICK old : old = h.teams[n]
      OBVIOUS
    <3>3. Shaped(old) /\ c \notin Who(old) /\ Len(old.members) \in Nat
      BY <1>2, <1>4, <3>1, <3>2, TeamAt DEF TeamRecords
    <3>4. Len(old.members) < MaxTeam
      BY <1>3, <2>2, <3>2, <3>3, TeamAssumption DEF isFull
    <3>5. PICK t : t = WithInvitee(old, c)
      OBVIOUS
    <3>6. Shaped(t) /\ Who(t) = Who(old) \union {c} /\ In(t) = In(old)
      BY <3>3, <3>4, <3>5, MemberAdded
    <3>7. Update(t) = Update(old)
      BY <3>3, <3>4, <3>5, InvitedSame
    <3>8. ts = [s EXCEPT ![n] = t] /\ t \in TeamRecords
      BY <1>6, <1>11, <2>2, <3>1, <3>2, <3>5, <3>6 DEF Shaped
    <3>9. Who(t) \subseteq M
      BY <1>11, <3>1, <3>2, <3>6
    <3>10. \A m \in 1..Len(ts) : Who(ts[m]) \subseteq M
      <4>1. Len(ts) = Len(s) /\ \A m \in 1..Len(s) : ts[m] = IF m = n THEN t ELSE s[m]
        <5> HIDE DEF TeamRecords
        <5> QED BY <1>11, <3>1, <3>8
      <4> QED BY <1>11, <3>9, <4>1
    <3>11. ASSUME NEW d, NEW x, ViewIn(h.teams, d, x) PROVE ViewIn(ts, d, x)
      <4>1. OwnView(t, d) = OwnView(old, d)
        BY <3>6, <3>7 DEF OwnView
      <4>2. d \in Who(old) => x = OwnView(t, d)
        BY <3>1, <3>2, <3>11, <4>1 DEF ViewIn
      <4>3. CASE d = c
        <5>1. x = NoView
          BY <1>4, <3>11, <4>3 DEF ViewIn
        <5>2. d \notin In(t)
          BY <3>3, <3>6, <4>3, InIsWho
        <5>3. x = OwnView(t, d)
          BY <5>1, <5>2, OnlyMembers
        <5> QED BY <1>2, <1>11, <3>1, <3>2, <3>6, <3>8, <3>11, <5>3, ViewGrown
      <4>4. CASE d # c
        <5>1. d \in Who(t) => x = OwnView(t, d)
          BY <3>6, <4>2, <4>4
        <5> QED BY <1>2, <1>11, <3>1, <3>2, <3>6, <3>8, <3>11, <5>1, ViewGrown
      <4> QED BY <4>3, <4>4
    <3> QED BY <3>10, <3>11
  <2> QED BY <2>1, <2>2
<1>14. msg.type \notin Telling /\ Civil(msg, M) /\ msg.type \in News
  BY <1>3, <1>5 DEF Telling, Civil, News
<1>15. Polite(g, M)
  BY <1>9, <1>13 DEF Polite
<1>16. Polite(r, M)
  BY <1>8, <1>10, <1>14, <1>15, ForwardPolite
<1>17. r.teams = g.teams /\ r.out = Append(g.out, msg)
  BY <1>8, <1>10, <1>14, ForwardQuietly
<1>18. Honest(g, r)
  BY <1>10, <1>14, <1>17, ForwardHonest
<1>19. Honest(h, g)
  BY <1>9, <1>13 DEF Honest, Showing
<1> QED BY <1>16, <1>18, <1>19, HonestOn

LEMMA PoliteSame ==
    ASSUME NEW M, NEW h, Polite(h, M), NEW r,
           r.teams = h.teams, r.known = h.known, r.pending = h.pending, r.out = h.out
    PROVE  Polite(r, M)
BY DEF Polite

LEMMA AcquaintedPolite ==
    ASSUME NEW M, NEW h, GoodState(h), Polite(h, M), NEW c \in Characters, c \in M,
           NEW g, g = [h EXCEPT !.known = @ \union {c}]
    PROVE  Polite(g, M) /\ Honest(h, g)
<1>1. /\ g.known = h.known \union {c} /\ g.teams = h.teams /\ g.pending = h.pending
      /\ g.out = h.out
  BY Acquainted
<1>2. Honest(h, g)
  BY <1>1, HonestSame
<1> QED BY <1>1, <1>2 DEF Polite

LEMMA InvitedHonest ==
    ASSUME NEW M, NEW h, GoodState(h), Polite(h, M), NEW l \in Characters, l \in M,
           NEW c \in Characters, NEW r, r = on_team_member_invited(h, l, c)
    PROVE  Polite(r, M) /\ Honest(h, r)
<1>1. PICK g : g = [h EXCEPT !.known = @ \union {l}]
  OBVIOUS
<1>2. GoodState(g) /\ Polite(g, M) /\ Honest(h, g)
  BY <1>1, Acquainted, AcquaintedPolite
<1>3. Speaker(g)
  BY <1>2, StateSpeaks DEF GoodState
<1>4. CASE c \notin g.known
  <2>1. PICK p : p = [g.pending EXCEPT ![c] = Append(@, Invitation(l, c))]
    OBVIOUS
  <2>2. PICK f : f = [g EXCEPT !.pending = p]
    OBVIOUS
  <2>3. PICK msg \in RouterMessages : msg = QueryOf(c)
    BY DEF QueryOf, RouterMessages
  <2>4. r = Forward(f, msg)
    BY <1>1, <1>4, <2>1, <2>2, <2>3 DEF on_team_member_invited, QueryOf, Invitation
  <2>5. /\ f.teams = g.teams /\ f.known = g.known /\ f.lfg = g.lfg /\ f.pending = p
        /\ f.out = g.out
        /\ f = [teams |-> f.teams, known |-> f.known, lfg |-> f.lfg, pending |-> f.pending,
                out |-> f.out]
    BY <1>3, <2>2 DEF Speaker
  <2>6. Speaker(f)
    BY <1>3, <2>5 DEF Speaker
  <2>7. g.pending \in [Characters -> Seq(Invitations)]
    BY <1>2 DEF GoodState, HandlerStates
  <2>8. ASSUME NEW d \in Characters, NEW i \in 1..Len(p[d]) PROVE p[d][i].leader \in M
    <3>1. PICK s \in Seq(Invitations) : s = g.pending[d] /\ \A k \in 1..Len(s) : s[k].leader \in M
      BY <1>2, <2>7 DEF Polite
    <3>2. PICK inv : inv = Invitation(l, c)
      OBVIOUS
    <3>3. inv \in Invitations /\ inv.leader = l
      BY <3>2 DEF Invitation, Invitations
    <3>4. CASE d = c
      <4>1. p[d] = Append(s, inv)
        BY <2>1, <2>7, <3>1, <3>2, <3>4
      <4>2. /\ Append(s, inv)[Len(s) + 1] = inv /\ \A k \in 1..Len(s) : Append(s, inv)[k] = s[k]
            /\ i \in 1..Len(s) \/ i = Len(s) + 1
        <5> HIDE DEF Invitations
        <5> QED BY <3>3, <4>1
      <4> QED BY <3>1, <3>3, <4>1, <4>2
    <3>5. CASE d # c
      <4>1. p[d] = s
        BY <2>1, <2>7, <3>1, <3>5
      <4> QED BY <3>1, <4>1
    <3> QED BY <3>4, <3>5
  <2>9. Polite(f, M)
    BY <1>2, <2>5, <2>8 DEF Polite
  <2>10. msg.type \notin Telling /\ Civil(msg, M) /\ msg.type # "Offer"
    BY <2>3 DEF QueryOf, Telling, Civil
  <2>11. Polite(r, M)
    BY <2>4, <2>6, <2>9, <2>10, ForwardPolite
  <2>12. r.teams = f.teams /\ r.out = Append(f.out, msg)
    <3>1. r = [f EXCEPT !.out = Append(f.out, msg)]
      BY <2>4 DEF Forward
    <3> QED BY <2>5, <3>1
  <2>13. Honest(f, r)
    BY <2>6, <2>10, <2>12, ForwardHonest
  <2>14. Honest(g, f)
    BY <2>5, HonestSame
  <2> QED BY <1>2, <2>11, <2>13, <2>14, HonestOn
<1>5. CASE c \in g.known /\ RefusesInvitation(g, l, c)
  <2>1. r = g
    BY <1>1, <1>5 DEF on_team_member_invited
  <2> QED BY <1>2, <2>1
<1>6. CASE c \in g.known /\ ~RefusesInvitation(g, l, c)
  <2>1. r = InvitedTo(g, l, c)
    BY <1>1, <1>6 DEF on_team_member_invited
  <2>2. c \in M
    BY <1>2, <1>6 DEF Polite
  <2>3. Polite(r, M) /\ Honest(g, r)
    BY <1>2, <1>6, <2>1, <2>2, InvitedToHonest
  <2> QED BY <1>2, <2>3, HonestOn
<1> QED BY <1>4, <1>5, <1>6

(* Leaders who are there, and those who led the invitations that waited    *)
HonestSoFar(base, events, k, h) ==
    /\ GoodState(h)
    /\ \A M : Polite(base, M) /\ (\A i \in 1..Len(events) : events[i].leader \in M)
              => Polite(h, M) /\ Honest(base, h)

HonestLoop == INSTANCE FoldProofs WITH Op <- dispatch, Inv <- HonestSoFar

LEMMA ResponseHonest ==
    ASSUME NEW M, NEW h, GoodState(h), Polite(h, M), NEW c \in Characters, c \in M,
           NEW r, r = on_user_router_query_response(h, c)
    PROVE  Polite(r, M) /\ Honest(h, r)
<1>1. PICK base : base = [h EXCEPT !.known = @ \union {c}]
  OBVIOUS
<1>2. GoodState(base) /\ Polite(base, M) /\ Honest(h, base)
  BY <1>1, Acquainted, AcquaintedPolite
<1>3. PICK s \in Seq(Invitations) : s = h.pending[c]
  BY DEF GoodState, HandlerStates
<1>4. PICK n \in Nat : n = Len(s) /\ DOMAIN s = 1..n
  OBVIOUS
<1>5. FoldLeft(dispatch, base, s) = HonestLoop!Folded(base, s, n)
  BY <1>4 DEF HonestLoop!Folded, HonestLoop!MapThenFoldSet, HonestLoop!Max, FoldLeft, MapThenFoldSet, Max
<1>6. ASSUME NEW k \in 1..n, NEW g, HonestSoFar(base, s, k - 1, g)
      PROVE  HonestSoFar(base, s, k, dispatch(g, s[k]))
  <2>1. s[k] \in Invitations
    BY <1>4
  <2>2. PICK l \in Characters : l = s[k].leader
    BY <2>1 DEF Invitations
  <2>3. PICK d \in Characters : d = s[k].invitee
    BY <2>1 DEF Invitations
  <2>4. PICK x : x = on_team_member_invited(g, l, d)
    OBVIOUS
  <2>5. GoodState(g) /\ GoodState(x)
    BY <1>6, <2>4, InvitedKeeps DEF HonestSoFar
  <2>6. ASSUME NEW N, Polite(base, N), \A i \in 1..Len(s) : s[i].leader \in N
        PROVE  Polite(x, N) /\ Honest(base, x)
    <3>1. Polite(g, N) /\ Honest(base, g)
      BY <1>6, <2>6 DEF HonestSoFar
    <3>2. l \in N
      BY <1>4, <2>2, <2>6
    <3>3. Polite(x, N) /\ Honest(g, x)
      BY <2>4, <2>5, <3>1, <3>2, InvitedHonest
    <3> QED BY <3>1, <3>3, HonestOn
  <2>7. HonestSoFar(base, s, k, x)
    BY <2>5, <2>6 DEF HonestSoFar
  <2>8. dispatch(g, s[k]) = x
    BY <2>2, <2>3, <2>4 DEF dispatch
  <2> QED BY <2>7, <2>8
<1>7. HonestSoFar(base, s, 0, base)
  <2>1. Honest(base, base)
    BY HonestSame
  <2> QED BY <1>2, <2>1 DEF HonestSoFar
<1>8. HonestSoFar(base, s, n, HonestLoop!Folded(base, s, n))
  BY <1>6, <1>7, HonestLoop!FoldInduction
<1>9. PICK again : again = FoldLeft(dispatch, base, s)
  OBVIOUS
<1>10. GoodState(again) /\ Polite(again, M) /\ Honest(base, again)
  <2>1. HonestSoFar(base, s, n, again)
    BY <1>5, <1>8, <1>9
  <2>2. \A i \in 1..Len(s) : s[i].leader \in M
    BY <1>3 DEF Polite
  <2> QED BY <1>2, <2>1, <2>2 DEF HonestSoFar
<1>11. PICK p : p = [again.pending EXCEPT ![c] = << >>]
  OBVIOUS
<1>12. r = [again EXCEPT !.pending = p]
  BY <1>1, <1>3, <1>9, <1>11 DEF on_user_router_query_response
<1>13. Speaker(again)
  BY <1>10, StateSpeaks DEF GoodState
<1>14. r.teams = again.teams /\ r.known = again.known /\ r.out = again.out /\ r.pending = p
  BY <1>12, <1>13 DEF Speaker
<1>15. ASSUME NEW d \in Characters, NEW i \in 1..Len(p[d]) PROVE p[d][i].leader \in M
  <2>1. again.pending \in [Characters -> Seq(Invitations)]
    BY <1>10 DEF GoodState, HandlerStates
  <2>2. p[d] = IF d = c THEN << >> ELSE again.pending[d]
    BY <1>11, <2>1
  <2>3. Len(<< >>) = 0
    OBVIOUS
  <2> QED BY <1>10, <1>15, <2>2, <2>3 DEF Polite
<1>16. Polite(r, M)
  BY <1>10, <1>14, <1>15 DEF Polite
<1>17. Honest(again, r)
  BY <1>14, HonestSame
<1>18. Honest(h, again)
  BY <1>2, <1>10, HonestOn
<1> QED BY <1>16, <1>17, <1>18, HonestOn

-----------------------------------------------------------------------------
(* What the entities show follows the teams.                               *)

Courteous(ev, M) ==
    /\ ev.type = "Invited" => ev.leader \in M
    /\ ev.type = "Response" => ev.who \in M
    /\ ev.type = "Handled" => ev.leader # ev.invitee

AllCourteous(q, M) == \A i \in 1..Len(q) : Courteous(q[i], M)

Faithful ==
    /\ here \subseteq Characters \ left
    /\ Polite(State, here \union left)
    /\ AllCourteous(teamq, here \union left)
    /\ \A c \in Characters : offer[c] # c
    /\ \A c \in Characters \ left : Showing(State, view, c)

LEMMA CourteousTail ==
    ASSUME NEW M, NEW T, NEW q \in Seq(T), q # << >>, AllCourteous(q, M)
    PROVE  AllCourteous(Tail(q), M) /\ Courteous(Head(q), M)
<1>1. PICK n \in Nat : n = Len(q) /\ n # 0 /\ 1 \in 1..n
  OBVIOUS
<1>2. /\ Len(Tail(q)) = n - 1 /\ Head(q) = q[1]
      /\ \A i \in 1..(n - 1) : Tail(q)[i] = q[i + 1] /\ i + 1 \in 1..n
  BY <1>1
<1> QED BY <1>1, <1>2 DEF AllCourteous

LEMMA CourteousLast ==
    ASSUME NEW M, NEW T, NEW q \in Seq(T), AllCourteous(q, M), NEW ev \in T, Courteous(ev, M)
    PROVE  AllCourteous(Append(q, ev), M)
<1>1. PICK n \in Nat : n = Len(q)
  OBVIOUS
<1>2. /\ Len(Append(q, ev)) = n + 1 /\ Append(q, ev)[n + 1] = ev
      /\ \A i \in 1..n : Append(q, ev)[i] = q[i]
      /\ \A i \in 1..(n + 1) : i \in 1..n \/ i = n + 1
  BY <1>1
<1> QED BY <1>1, <1>2 DEF AllCourteous

LEMMA CivilTail ==
    ASSUME NEW M, NEW T, NEW q \in Seq(T), q # << >>, AllCivil(q, M)
    PROVE  AllCivil(Tail(q), M) /\ Civil(Head(q), M)
<1>1. PICK n \in Nat : n = Len(q) /\ n # 0 /\ 1 \in 1..n
  OBVIOUS
<1>2. /\ Len(Tail(q)) = n - 1 /\ Head(q) = q[1]
      /\ \A i \in 1..(n - 1) : Tail(q)[i] = q[i + 1] /\ i + 1 \in 1..n
  BY <1>1
<1> QED BY <1>1, <1>2 DEF AllCivil

LEMMA PoliteMore ==
    ASSUME NEW M, NEW N, M \subseteq N, NEW h, Polite(h, M)
    PROVE  Polite(h, N)
BY DEF Polite, AllCivil, Civil

LEMMA CourteousMore ==
    ASSUME NEW M, NEW N, M \subseteq N, NEW q, AllCourteous(q, M)
    PROVE  AllCourteous(q, N)
BY DEF AllCourteous, Courteous

LEMMA ViewsOn ==
    ASSUME TeamInv
    PROVE  OnCharacters(view)
BY DEF TeamInv, TeamTypeOK, OnCharacters

LEMMA FaithfulAfter ==
    ASSUME TeamInv, Faithful, NEW type, Takes(type), NEW r, Becomes(r),
           Polite(r, here \union left), Honest(State, r)
    PROVE  Faithful'
<1>1. PICK M : M = here \union left
  OBVIOUS
<1>2. UNCHANGED <<here, left, view, offer>> /\ M = (here \union left)'
  BY <1>1 DEF Takes
<1>3. PICK q \in Seq(TeamEvents) : q = teamq /\ q # << >> /\ teamq' = Tail(q)
  BY DEF TeamInv, TeamTypeOK, Takes
<1>4. AllCourteous(teamq', M)
  <2>1. AllCourteous(q, M)
    BY <1>1, <1>3 DEF Faithful
  <2>2. AllCourteous(Tail(q), M)
    <3> HIDE DEF TeamEvents
    <3> QED BY <1>3, <2>1, CourteousTail
  <2> QED BY <1>3, <2>2
<1>5. PICK s : s = State'
  OBVIOUS
<1>6. s.teams = r.teams /\ s.known = r.known /\ s.pending = r.pending /\ s.out = r.out
  BY <1>5 DEF State, Becomes
<1>7. Polite(s, M)
  BY <1>1, <1>6, PoliteSame
<1>8. Honest(r, s)
  BY <1>6, HonestSame
<1>9. ASSUME NEW c \in Characters \ left PROVE Showing(s, view, c)
  <2>1. PICK h : h = State /\ Honest(h, r)
    OBVIOUS
  <2>2. Showing(h, view, c)
    BY <2>1 DEF Faithful
  <2>3. OnCharacters(view)
    BY ViewsOn
  <2>4. Showing(r, view, c)
    BY <2>1, <2>2, <2>3 DEF Honest
  <2> QED BY <1>8, <2>3, <2>4 DEF Honest
<1> QED BY <1>1, <1>2, <1>4, <1>5, <1>7, <1>9 DEF Faithful

LEMMA HandlersFaithful ==
    ASSUME TeamInv, Faithful,
           \/ HandlesInvited \/ HandlesKicked \/ HandlesMakeLeader \/ HandlesLeave
           \/ HandlesAnswer \/ HandlesToggleLFG \/ HandlesResponse
    PROVE  Faithful'
<1>1. PICK h : h = State
  OBVIOUS
<1>2. PICK M : M = here \union left
  OBVIOUS
<1>3. GoodState(h) /\ Polite(h, M)
  BY <1>1, <1>2, StateIsGood DEF Faithful
<1>4. PICK ev : ev = Head(teamq)
  OBVIOUS
<1>5. ASSUME NEW type, Takes(type)
      PROVE  Courteous(ev, M) /\ ev \in TeamEvents /\ ev.type = type
  <2>1. PICK q \in Seq(TeamEvents) : q = teamq /\ q # << >>
    BY <1>5 DEF TeamInv, TeamTypeOK, Takes
  <2>2. AllCourteous(q, M)
    BY <1>2, <2>1 DEF Faithful
  <2>3. Courteous(Head(q), M)
    <3> HIDE DEF TeamEvents
    <3> QED BY <2>1, <2>2, CourteousTail
  <2>4. ev \in TeamEvents /\ ev.type = type
    BY <1>4, <1>5, TakenEvent
  <2> QED BY <1>4, <2>1, <2>3, <2>4
<1>6. ASSUME NEW type, Takes(type), NEW r, Becomes(r), Polite(r, M) /\ Honest(h, r)
      PROVE  Faithful'
  BY <1>1, <1>2, <1>6, FaithfulAfter
<1>7. CASE HandlesInvited
  <2>1. Takes("Invited")
    BY <1>7 DEF HandlesInvited
  <2>2. Courteous(ev, M) /\ ev \in TeamEvents /\ ev.type = "Invited"
    BY <1>5, <2>1
  <2>3. PICK l \in Characters : l = ev.leader /\ l \in M
    BY <2>2, EventFields DEF Courteous
  <2>4. PICK c \in Characters : c = ev.invitee
    BY <2>2, EventFields
  <2>5. PICK r : r = on_team_member_invited(h, l, c)
    OBVIOUS
  <2>6. Becomes(r)
    BY <1>1, <1>4, <1>7, <2>3, <2>4, <2>5 DEF HandlesInvited
  <2>7. Polite(r, M) /\ Honest(h, r)
    BY <1>3, <2>3, <2>5, InvitedHonest
  <2> QED BY <1>6, <2>1, <2>6, <2>7
<1>8. CASE HandlesKicked
  <2>1. PICK r : r = on_team_member_kicked(h, ev.leader, ev.who)
    OBVIOUS
  <2>2. Takes("Kicked") /\ Becomes(r)
    BY <1>1, <1>4, <1>8, <2>1 DEF HandlesKicked
  <2>3. Polite(r, M) /\ Honest(h, r)
    BY <1>3, <2>1, KickedHonest
  <2> QED BY <1>6, <2>2, <2>3
<1>9. CASE HandlesMakeLeader
  <2>1. PICK r : r = on_team_member_make_leader(h, ev.leader, ev.who)
    OBVIOUS
  <2>2. Takes("MakeLeader") /\ Becomes(r)
    BY <1>1, <1>4, <1>9, <2>1 DEF HandlesMakeLeader
  <2>3. Polite(r, M) /\ Honest(h, r)
    BY <1>3, <2>1, MakeLeaderHonest
  <2> QED BY <1>6, <2>2, <2>3
<1>10. CASE HandlesLeave
  <2>1. PICK r : r = on_team_leave_team(h, ev.who)
    OBVIOUS
  <2>2. Takes("Leave") /\ Becomes(r)
    BY <1>1, <1>4, <1>10, <2>1 DEF HandlesLeave
  <2>3. Polite(r, M) /\ Honest(h, r)
    BY <1>3, <2>1, LeaveHonest
  <2> QED BY <1>6, <2>2, <2>3
<1>11. CASE HandlesAnswer
  <2>1. Takes("Handled")
    BY <1>11 DEF HandlesAnswer
  <2>2. Courteous(ev, M) /\ ev \in TeamEvents /\ ev.type = "Handled"
    BY <1>5, <2>1
  <2>3. PICK c \in Characters : c = ev.invitee /\ ev.leader # c /\ ev.accepted \in BOOLEAN
    BY <2>2, EventFields DEF Courteous
  <2>4. PICK r : r = on_team_member_invite_handled(h, c, ev.leader, ev.accepted)
    OBVIOUS
  <2>5. Becomes(r)
    BY <1>1, <1>4, <1>11, <2>3, <2>4 DEF HandlesAnswer
  <2>6. Polite(r, M) /\ Honest(h, r)
    BY <1>3, <2>3, <2>4, AnswerHonest
  <2> QED BY <1>6, <2>1, <2>5, <2>6
<1>12. CASE HandlesToggleLFG
  <2>1. Takes("ToggleLFG")
    BY <1>12 DEF HandlesToggleLFG
  <2>2. ev \in TeamEvents /\ ev.type = "ToggleLFG"
    BY <1>5, <2>1
  <2>3. PICK c \in Characters : c = ev.who
    BY <2>2, EventFields
  <2>4. PICK r : r = on_team_toggle_lfg(h, c)
    OBVIOUS
  <2>5. Becomes(r)
    BY <1>1, <1>4, <1>12, <2>3, <2>4 DEF HandlesToggleLFG
  <2>6. Polite(r, M) /\ Honest(h, r)
    BY <1>3, <2>4, ToggleHonest
  <2> QED BY <1>6, <2>1, <2>5, <2>6
<1>13. CASE HandlesResponse
  <2>1. Takes("Response")
    BY <1>13 DEF HandlesResponse
  <2>2. Courteous(ev, M) /\ ev \in TeamEvents /\ ev.type = "Response"
    BY <1>5, <2>1
  <2>3. PICK c \in Characters : c = ev.who /\ c \in M
    BY <2>2, EventFields DEF Courteous
  <2>4. PICK r : r = on_user_router_query_response(h, c)
    OBVIOUS
  <2>5. Becomes(r)
    BY <1>1, <1>4, <1>13, <2>3, <2>4 DEF HandlesResponse
  <2>6. Polite(r, M) /\ Honest(h, r)
    BY <1>3, <2>3, <2>4, ResponseHonest
  <2> QED BY <1>6, <2>1, <2>5, <2>6
<1> QED BY <1>7, <1>8, <1>9, <1>10, <1>11, <1>12, <1>13

LEMMA PostedCourteous ==
    ASSUME TeamInv, NEW M, AllCourteous(teamq, M), NEW ev \in TeamEvents, Courteous(ev, M),
           PostTeam(ev)
    PROVE  AllCourteous(teamq', M)
<1>1. PICK q \in Seq(TeamEvents) : q = teamq
  BY DEF TeamInv, TeamTypeOK
<1>2. AllCourteous(Append(q, ev), M)
  <2> HIDE DEF TeamEvents
  <2> QED BY <1>1, CourteousLast
<1> QED BY <1>1, <1>2 DEF PostTeam

(* A step that touches neither the teams nor what the maps are told        *)
LEMMA QuietFaithful ==
    ASSUME TeamInv, Faithful, UNCHANGED <<here, left, teams, known, pending, router, view>>,
           AllCourteous(teamq', here \union left), \A c \in Characters : offer'[c] # c
    PROVE  Faithful'
<1>1. PICK M : M = here \union left /\ M = (here \union left)'
  OBVIOUS
<1>2. PICK h : h = State /\ Polite(h, M) /\ \A c \in Characters \ left : Showing(h, view, c)
  BY <1>1 DEF Faithful
<1>3. PICK s : s = State'
  OBVIOUS
<1>4. s.teams = h.teams /\ s.known = h.known /\ s.pending = h.pending /\ s.out = h.out
  BY <1>2, <1>3 DEF State
<1>5. Polite(s, M)
  BY <1>2, <1>4, PoliteSame
<1>6. Honest(h, s) /\ OnCharacters(view)
  BY <1>4, HonestSame, ViewsOn
<1>7. ASSUME NEW c \in Characters \ left PROVE Showing(s, view, c)
  BY <1>2, <1>6 DEF Honest
<1> QED BY <1>1, <1>3, <1>5, <1>7 DEF Faithful

LEMMA CommandsFaithful ==
    ASSUME TeamInv, Faithful, NEW c \in Characters, NEW d \in Characters, NEW accepts \in BOOLEAN,
           \/ Invite(c, d) \/ Kick(c, d) \/ MakeLeader(c, d) \/ Answer(c, accepts)
           \/ LeaveTeam(c) \/ ToggleLFG(c)
    PROVE  Faithful'
<1>1. PICK M : M = here \union left
  OBVIOUS
<1>2. c \in M /\ UNCHANGED <<here, left, teams, known, pending, router, view>>
  BY <1>1 DEF Invite, Kick, MakeLeader, Answer, LeaveTeam, ToggleLFG, MayCommand, commandRest
<1>3. AllCourteous(teamq, M) /\ \A x \in Characters : offer[x] # x
  BY <1>1 DEF Faithful
<1>4. CASE Answer(c, accepts)
  <2>1. PICK ev : ev = [type |-> "Handled", leader |-> offer[c], invitee |-> c, accepted |-> accepts]
    OBVIOUS
  <2>2. offer[c] \in Characters /\ offer[c] # c
    BY <1>3, <1>4 DEF Answer, TeamInv, TeamTypeOK
  <2>3. ev \in TeamEvents
    BY <2>1, <2>2 DEF TeamEvents
  <2>4. Courteous(ev, M)
    BY <2>1, <2>2 DEF Courteous
  <2>5. AllCourteous(teamq', M)
    BY <1>3, <1>4, <2>1, <2>3, <2>4, PostedCourteous DEF Answer
  <2>6. \A x \in Characters : offer'[x] # x
    BY <1>3, <1>4, TeamAssumption DEF Answer, TeamInv, TeamTypeOK
  <2> QED BY <1>1, <1>2, <2>5, <2>6, QuietFaithful
<1>5. ASSUME NEW ev \in TeamEvents, PostTeam(ev), Courteous(ev, M), UNCHANGED offer
      PROVE  Faithful'
  <2>1. AllCourteous(teamq', M)
    BY <1>3, <1>5, PostedCourteous
  <2> QED BY <1>1, <1>2, <1>3, <1>5, <2>1, QuietFaithful
<1>6. CASE Invite(c, d)
  <2>1. PICK ev : ev = [type |-> "Invited", leader |-> c, invitee |-> d]
    OBVIOUS
  <2>2. ev \in TeamEvents /\ Courteous(ev, M)
    BY <1>2, <2>1 DEF TeamEvents, Courteous
  <2> QED BY <1>5, <1>6, <2>1, <2>2 DEF Invite
<1>7. CASE Kick(c, d)
  <2>1. PICK ev : ev = [type |-> "Kicked", leader |-> c, who |-> d]
    OBVIOUS
  <2>2. ev \in TeamEvents /\ Courteous(ev, M)
    BY <1>2, <2>1 DEF TeamEvents, Courteous
  <2> QED BY <1>5, <1>7, <2>1, <2>2 DEF Kick
<1>8. CASE MakeLeader(c, d)
  <2>1. PICK ev : ev = [type |-> "MakeLeader", leader |-> c, who |-> d]
    OBVIOUS
  <2>2. ev \in TeamEvents /\ Courteous(ev, M)
    BY <1>2, <2>1 DEF TeamEvents, Courteous
  <2> QED BY <1>5, <1>8, <2>1, <2>2 DEF MakeLeader
<1>9. CASE LeaveTeam(c)
  <2>1. PICK ev : ev = [type |-> "Leave", who |-> c]
    OBVIOUS
  <2>2. ev \in TeamEvents /\ Courteous(ev, M)
    BY <1>2, <2>1 DEF TeamEvents, Courteous
  <2> QED BY <1>5, <1>9, <2>1, <2>2 DEF LeaveTeam
<1>10. CASE ToggleLFG(c)
  <2>1. PICK ev : ev = [type |-> "ToggleLFG", who |-> c]
    OBVIOUS
  <2>2. ev \in TeamEvents /\ Courteous(ev, M)
    BY <1>2, <2>1 DEF TeamEvents, Courteous
  <2> QED BY <1>5, <1>10, <2>1, <2>2 DEF ToggleLFG
<1> QED BY <1>4, <1>6, <1>7, <1>8, <1>9, <1>10

(* Entities come and go.                                                   *)
LEMMA PresenceFaithful ==
    ASSUME TeamInv, Faithful, NEW c \in Characters, TeamEnters(c) \/ TeamLeaves(c)
    PROVE  Faithful'
<1>1. PICK M : M = here \union left
  OBVIOUS
<1>2. PICK N : N = (here \union left)' /\ M \subseteq N
  <2>1. M \subseteq (here \union left)'
    BY <1>1 DEF TeamEnters, TeamLeaves, Enters, Leaves
  <2> QED BY <2>1
<1>3. PICK h : h = State /\ h = State'
  BY DEF TeamEnters, TeamLeaves, State
<1>4. Polite(h, N)
  BY <1>1, <1>2, <1>3, PoliteMore DEF Faithful
<1>5. AllCourteous(teamq', N)
  <2>1. AllCourteous(teamq, N)
    BY <1>1, <1>2, CourteousMore DEF Faithful
  <2> QED BY <2>1 DEF TeamEnters, TeamLeaves
<1>6. here' \subseteq Characters \ left'
  BY DEF TeamEnters, TeamLeaves, Enters, Leaves, Faithful
<1>7. \A x \in Characters : offer'[x] # x
  BY TeamAssumption DEF TeamEnters, TeamLeaves, Faithful, TeamInv, TeamTypeOK
<1>8. ASSUME NEW x \in Characters \ left' PROVE Showing(h, view', x)
  <2>1. x \in Characters \ left /\ view'[x] = view[x]
    BY DEF TeamEnters, TeamLeaves, TeamInv, TeamTypeOK
  <2>2. Showing(h, view, x)
    BY <1>3, <2>1 DEF Faithful
  <2>3. PICK q \in Seq(RouterMessages) : q = h.out
    BY <1>3 DEF State, TeamInv, TeamTypeOK
  <2>4. Final(view', q)[x] = Final(view, q)[x]
    <3> HIDE DEF RouterMessages
    <3> QED BY <2>1, <2>3, FinalOwn
  <2> QED BY <2>2, <2>3, <2>4 DEF Showing
<1> QED BY <1>2, <1>3, <1>4, <1>5, <1>6, <1>7, <1>8 DEF Faithful

(* What the first message on its way does to an entity may be done now.    *)
LEMMA ArrivalFaithful ==
    ASSUME TeamInv, Faithful, NEW type, Arrives(type),
           AllCourteous(teamq', here \union left), \A c \in Characters : offer'[c] # c,
           \A c \in Characters \ left : view'[c] = Effect(view[c], c, Head(router))
    PROVE  Faithful'
<1>1. PICK M : M = here \union left /\ M = (here \union left)'
  BY DEF Arrives
<1>2. PICK q \in Seq(RouterMessages) : q = router /\ q # << >> /\ router' = Tail(q)
  BY DEF TeamInv, TeamTypeOK, Arrives
<1>3. PICK h : h = State /\ Polite(h, M) /\ \A c \in Characters \ left : Showing(h, view, c)
  BY <1>1 DEF Faithful
<1>4. PICK s : s = State'
  OBVIOUS
<1>5. /\ s.teams = h.teams /\ s.known = h.known /\ s.pending = h.pending
      /\ h.out = q /\ s.out = Tail(q)
  BY <1>2, <1>3, <1>4 DEF State, Arrives
<1>6. AllCivil(Tail(q), M)
  <2>1. AllCivil(q, M)
    BY <1>3, <1>5 DEF Polite
  <2> HIDE DEF RouterMessages
  <2> QED BY <1>2, <2>1, CivilTail
<1>7. Polite(s, M)
  BY <1>3, <1>5, <1>6 DEF Polite
<1>8. ASSUME NEW c \in Characters \ left PROVE Showing(s, view', c)
  <2>1. PICK msg : msg = Head(q)
    OBVIOUS
  <2>2. view'[c] = Arriving(view, msg)[c]
    BY <1>2, <2>1 DEF Arriving
  <2>3. Final(view, q)[c] = Final(Arriving(view, msg), Tail(q))[c]
    <3> HIDE DEF RouterMessages
    <3> QED BY <1>2, <2>1, FinalFirst
  <2>4. Tail(q) \in Seq(RouterMessages)
    <3> HIDE DEF RouterMessages
    <3> QED BY <1>2
  <2>5. Final(view', Tail(q))[c] = Final(Arriving(view, msg), Tail(q))[c]
    <3>1. PICK w : w = Arriving(view, msg)
      OBVIOUS
    <3>2. PICK u : u = view' /\ u[c] = w[c]
      BY <2>2, <3>1
    <3>3. PICK p \in Seq(RouterMessages) : p = Tail(q)
      BY <2>4
    <3>4. Final(u, p)[c] = Final(w, p)[c]
      <4> HIDE DEF RouterMessages
      <4> QED BY <3>2, FinalOwn
    <3> QED BY <3>1, <3>2, <3>3, <3>4
  <2>6. Showing(h, view, c)
    BY <1>3
  <2> QED BY <1>5, <2>3, <2>5, <2>6 DEF Showing
<1>9. here' \subseteq Characters \ left' /\ left' = left
  BY DEF Arrives, Faithful
<1> QED BY <1>1, <1>4, <1>7, <1>8, <1>9 DEF Faithful

LEMMA MapsFaithful ==
    ASSUME TeamInv, Faithful,
           \/ QueryAnswered \/ MapTeamMemberInvited \/ MapTeamMemberGone
           \/ MapTeamUpdated \/ MapTeamToggleLFG
    PROVE  Faithful'
<1>1. PICK M : M = here \union left
  OBVIOUS
<1>2. PICK msg : msg = Head(router)
  OBVIOUS
<1>3. AllCourteous(teamq, M) /\ (\A c \in Characters : offer[c] # c) /\ here \subseteq Characters \ left
  BY <1>1 DEF Faithful
<1>4. ASSUME NEW type, Arrives(type) PROVE msg \in RouterMessages /\ msg.type = type /\ Civil(msg, M)
  <2>1. PICK q \in Seq(RouterMessages) : q = router /\ q # << >>
    BY <1>4 DEF TeamInv, TeamTypeOK, Arrives
  <2>2. AllCivil(q, M)
    BY <1>1, <2>1 DEF Faithful, Polite, State
  <2>3. Civil(Head(q), M)
    <3> HIDE DEF RouterMessages
    <3> QED BY <2>1, <2>2, CivilTail
  <2>4. Head(router) \in RouterMessages /\ Head(router).type = type
    BY <1>4, ArrivedMessage
  <2> QED BY <1>2, <2>1, <2>3, <2>4
<1>5. CASE QueryAnswered
  <2>1. Arrives("Query") /\ UNCHANGED <<view, offer>>
    BY <1>5 DEF QueryAnswered
  <2>2. msg \in RouterMessages /\ msg.type = "Query"
    BY <1>4, <2>1
  <2>3. \A c : Effect(view[c], c, msg) = view[c]
    BY <2>2 DEF Effect
  <2>4. AllCourteous(teamq', M)
    <3>1. CASE msg.who \in here
      <4>1. PICK ev : ev = [type |-> "Response", who |-> msg.who]
        OBVIOUS
      <4>2. ev \in TeamEvents
        BY <1>3, <3>1, <4>1 DEF TeamEvents
      <4>3. Courteous(ev, M)
        BY <1>1, <3>1, <4>1 DEF Courteous
      <4>4. PostTeam(ev)
        BY <1>2, <1>5, <3>1, <4>1 DEF QueryAnswered
      <4> QED BY <1>3, <4>2, <4>3, <4>4, PostedCourteous
    <3>2. CASE msg.who \notin here
      BY <1>2, <1>3, <1>5, <3>2 DEF QueryAnswered
    <3> QED BY <3>1, <3>2
  <2> QED BY <1>1, <1>2, <1>3, <2>1, <2>3, <2>4, ArrivalFaithful
<1>6. CASE MapTeamMemberInvited
  <2>1. Arrives("Offer") /\ UNCHANGED <<view, teamq>>
    BY <1>6 DEF MapTeamMemberInvited
  <2>2. msg \in RouterMessages /\ msg.type = "Offer" /\ Civil(msg, M)
    BY <1>4, <2>1
  <2>3. \A c : Effect(view[c], c, msg) = view[c]
    BY <2>2 DEF Effect
  <2>4. \A c \in Characters : offer'[c] # c
    <3>1. msg.leader # msg.who
      BY <2>2 DEF Civil
    <3>2. offer' = [offer EXCEPT ![msg.who] = IF msg.who \in here THEN msg.leader ELSE @]
      BY <1>2, <1>6 DEF MapTeamMemberInvited
    <3> QED BY <1>3, <3>1, <3>2 DEF TeamInv, TeamTypeOK
  <2> QED BY <1>1, <1>2, <1>3, <2>1, <2>3, <2>4, ArrivalFaithful
<1>7. CASE MapTeamMemberGone
  <2>1. PICK type \in {"Kicked", "Left"} : Arrives(type)
    BY <1>7 DEF MapTeamMemberGone
  <2>2. msg \in RouterMessages /\ msg.type = type
    BY <1>4, <2>1
  <2>3. view' = [view EXCEPT ![msg.who] = NoView] /\ UNCHANGED <<teamq, offer>>
    BY <1>2, <1>7 DEF MapTeamMemberGone
  <2>4. \A c \in Characters : view'[c] = Effect(view[c], c, msg)
    <3>1. view \in [Characters -> Views] /\ \A x \in Characters : view[x] = view[x]
      BY DEF TeamInv, TeamTypeOK, Views
    <3>2. DOMAIN view = Characters
      BY <3>1
    <3>3. \A c \in Characters : view'[c] = IF c = msg.who THEN NoView ELSE view[c]
      BY <2>3, <3>2
    <3>4. \A c \in Characters : Effect(view[c], c, msg) = IF c = msg.who THEN NoView ELSE view[c]
      BY <2>1, <2>2 DEF Effect
    <3> QED BY <3>3, <3>4
  <2> QED BY <1>1, <1>2, <1>3, <2>1, <2>3, <2>4, ArrivalFaithful
<1>8. CASE MapTeamUpdated
  <2>1. Arrives("Updated") /\ UNCHANGED <<teamq, offer>>
    BY <1>8 DEF MapTeamUpdated
  <2>2. msg \in RouterMessages /\ msg.type = "Updated" /\ Civil(msg, M)
    BY <1>4, <2>1
  <2>3. \A c \in Characters : view'[c] = IF c \in ToSet(msg.members) \intersect here
                                         THEN Shown(msg) ELSE view[c]
    BY <1>2, <1>8 DEF MapTeamUpdated
  <2>4. \A c \in Characters : Effect(view[c], c, msg) = IF c \in ToSet(msg.members)
                                                        THEN Shown(msg) ELSE view[c]
    BY <2>2 DEF Effect
  <2>5. \A c \in Characters \ left : c \in ToSet(msg.members) => c \in here
    BY <1>1, <2>2 DEF Civil
  <2>6. \A c \in Characters \ left : view'[c] = Effect(view[c], c, msg)
    BY <2>3, <2>4, <2>5
  <2> QED BY <1>1, <1>2, <1>3, <2>1, <2>6, ArrivalFaithful
<1>9. CASE MapTeamToggleLFG
  <2>1. Arrives("ToggleLFG") /\ UNCHANGED <<teamq, view, offer>>
    BY <1>9 DEF MapTeamToggleLFG
  <2>2. msg \in RouterMessages /\ msg.type = "ToggleLFG"
    BY <1>4, <2>1
  <2>3. \A c : Effect(view[c], c, msg) = view[c]
    BY <2>2 DEF Effect
  <2> QED BY <1>1, <1>2, <1>3, <2>1, <2>3, ArrivalFaithful
<1> QED BY <1>5, <1>6, <1>7, <1>8, <1>9

(* The other services only know who is there, and leave the teams alone.   *)
LEMMA TradePresence ==
    ASSUME here \subseteq Characters, cast \subseteq Characters, NEW leavers,
           leavers \subseteq cast, TradeNext(cast, leavers, stock)
    PROVE  here' \subseteq Characters
<1>1. \/ here' = here
      \/ \E c \in cast : Enters(c) \/ Leaves(c)
  BY DEF TradeNext, RequestTrade, TradeDecline, WindowUpdated, OnTradeUpdated, OnMoveEnhancement,
         OnMoveInspiration, OnTrashEnhancement, OnStoreSellItem, OnActivateInspiration,
         OnStoreBuyItem, AnswerToNobody, OnTradeCancelled, TradeLeaves, TradeEnters, SetGoods
<1> QED BY <1>1 DEF Enters, Leaves

LEMMA MailPresence ==
    ASSUME here \subseteq Characters, cast \subseteq Characters, MailNext(cast)
    PROVE  here' \subseteq Characters
<1>1. \/ here' = here \/ here' = {}
      \/ \E c \in cast : Enters(c) \/ Leaves(c)
  BY DEF MailNext, EmailSend, EmailRead, EmailDelete, EmailHeaders, MailEnters, MailLeaves,
         BusDelivers, on_email_send, on_fill_email_recipient_id_response,
         on_fill_email_recipient_id_error, on_email_create_response, on_email_header,
         on_email_read, on_email_delete, on_client_connected, on_client_disconnected,
         on_get_emails_response, fillEmailRecipientId, createEmail, markEmailAsRead,
         deleteEmail, getEmails, Restarts, Got, Serves, playerRest
<1> QED BY <1>1 DEF Enters, Leaves

NoTeams ==
    /\ here \subseteq Characters
    /\ teams = << >> /\ router = << >> /\ \A c \in Characters : view[c] = NoView

Followed == IF service = "team" THEN Faithful ELSE NoTeams

LEMMA FollowedAtStart ==
    ASSUME Init
    PROVE  Followed
<1>1. /\ teams = << >> /\ router = << >> /\ teamq = << >> /\ left = {}
      /\ pending = [c \in Characters |-> << >>] /\ view = [c \in Characters |-> NoView]
      /\ offer = [c \in Characters |-> NoLeader]
  BY DEF Init, TeamInit
<1>2. here \subseteq Characters /\ known \subseteq here
  BY DEF Init, TeamInit, ThereAtStart
<1>3. Len(<< >>) = 0 /\ \A i \in 1..0 : FALSE
  OBVIOUS
<1>4. PICK h : h = State
  OBVIOUS
<1>5. /\ h.teams = << >> /\ h.out = << >> /\ h.known = known
      /\ \A c \in Characters : h.pending[c] = << >>
  BY <1>1, <1>4 DEF State
<1>6. Polite(h, here \union left)
  BY <1>2, <1>3, <1>5 DEF Polite, AllCivil
<1>7. AllCourteous(teamq, here \union left)
  BY <1>1, <1>3 DEF AllCourteous
<1>8. \A c \in Characters : offer[c] # c
  BY <1>1, TeamAssumption
<1>9. ASSUME NEW c \in Characters PROVE Showing(h, view, c)
  <2>1. Final(view, << >>)[c] = NoView
    BY <1>1, FinalNone
  <2>2. \A n \in 1..Len(h.teams) : FALSE
    BY <1>3, <1>5
  <2> QED BY <1>5, <2>1, <2>2 DEF Showing, ViewIn
<1>10. Faithful
  BY <1>1, <1>2, <1>4, <1>6, <1>7, <1>8, <1>9 DEF Faithful
<1>11. NoTeams
  BY <1>1, <1>2 DEF NoTeams
<1> QED BY <1>10, <1>11 DEF Followed

LEMMA FollowedStep ==
    ASSUME TeamInv, cast \subseteq Characters, Followed, [Next]_vars
    PROVE  Followed'
<1>1. service' = service
  BY DEF Next, vars
<1>2. CASE service = "team" /\ TeamNext(cast)
  <2>1. Faithful
    BY <1>2 DEF Followed
  <2>2. ASSUME NEW c \in cast, NEW d \in cast, Invite(c, d) \/ Kick(c, d) \/ MakeLeader(c, d)
        PROVE  Faithful'
    <3>1. TRUE \in BOOLEAN /\ c \in Characters /\ d \in Characters
      OBVIOUS
    <3> QED BY <2>1, <2>2, <3>1, CommandsFaithful
  <2>3. ASSUME NEW c \in cast, NEW accepts \in BOOLEAN, Answer(c, accepts)
        PROVE  Faithful'
    BY <2>1, <2>3, CommandsFaithful
  <2>4. ASSUME NEW c \in cast, LeaveTeam(c) \/ ToggleLFG(c)
        PROVE  Faithful'
    <3>1. TRUE \in BOOLEAN /\ c \in Characters
      OBVIOUS
    <3> QED BY <2>1, <2>4, <3>1, CommandsFaithful
  <2>5. ASSUME NEW c \in cast, TeamEnters(c) \/ TeamLeaves(c)
        PROVE  Faithful'
    BY <2>1, <2>5, PresenceFaithful
  <2>6. Faithful'
    BY <1>2, <2>1, <2>2, <2>3, <2>4, <2>5, HandlersFaithful, MapsFaithful DEF TeamNext
  <2> QED BY <1>1, <1>2, <2>6 DEF Followed
<1>3. ASSUME NEW leavers, leavers \subseteq cast, TradeNext(cast, leavers, stock),
             service = "trade", UNCHANGED teamOnly
      PROVE  Followed'
  <2>1. here \subseteq Characters
    BY <1>3 DEF Followed, NoTeams
  <2>2. here' \subseteq Characters
    BY <1>3, <2>1, TradePresence
  <2> QED BY <1>1, <1>3, <2>2 DEF Followed, NoTeams, teamOnly
<1>4. CASE service = "mail" /\ MailNext(cast) /\ UNCHANGED teamOnly
  BY <1>1, <1>4, MailPresence DEF Followed, NoTeams, teamOnly
<1>5. CASE UNCHANGED vars
  <2>1. UNCHANGED <<service, here, teams, known, lfg, pending, teamq, router, view, offer, left>>
    BY <1>5 DEF vars, teamOnly
  <2>2. State' = State
    BY <2>1 DEF State
  <2>3. Faithful => Faithful'
    <3>1. PICK h : h = State /\ h = State'
      BY <2>2
    <3> QED BY <2>1, <3>1 DEF Faithful
  <2>4. NoTeams => NoTeams'
    BY <2>1 DEF NoTeams
  <2> QED BY <2>1, <2>3, <2>4 DEF Followed
<1> QED BY <1>2, <1>3, <1>4, <1>5 DEF Next

LEMMA FollowedShows ==
    ASSUME TeamInv, Followed, NEW c \in here
    PROVE  Final(view, router)[c] = TeamOf(c)
<1>1. c \in Characters /\ ViewIn(teams, c, Final(view, router)[c])
  <2>1. CASE service = "team"
    <3>1. Faithful
      BY <2>1 DEF Followed
    <3>2. c \in Characters \ left
      BY <3>1 DEF Faithful
    <3>3. Showing(State, view, c)
      BY <3>1, <3>2 DEF Faithful
    <3>4. State.teams = teams /\ State.out = router
      BY DEF State
    <3> QED BY <3>2, <3>3, <3>4 DEF Showing
  <2>2. CASE service # "team"
    <3>1. NoTeams
      BY <2>2 DEF Followed
    <3>2. c \in Characters /\ teams = << >> /\ router = << >> /\ view[c] = NoView
      BY <3>1 DEF NoTeams
    <3>3. Final(view, router)[c] = NoView
      BY <3>2, FinalNone
    <3>4. \A n \in 1..Len(teams) : FALSE
      BY <3>2
    <3> QED BY <3>2, <3>3, <3>4 DEF ViewIn
  <2> QED BY <2>1, <2>2
<1> QED BY <1>1, TeamOfIs

(* What the entity of each character on the map shows once every message   *)
(* has arrived is its team: no handler changes a team without telling the  *)
(* maps of everybody it was or is about (notify_team_of_changes), in an    *)
(* order that leaves the last word to the last change.                     *)
THEOREM ViewsFollowTeams == Spec => []ViewFollowsTeam
<1>1. Init => Followed
  BY FollowedAtStart
<1>2. TeamInv /\ cast \subseteq Characters /\ Followed /\ [Next]_vars => Followed'
  BY FollowedStep
<1>3. TeamInv /\ Followed => ViewFollowsTeam
  BY FollowedShows DEF ViewFollowsTeam, Final
<1> QED BY <1>1, <1>2, <1>3, TeamSafe, PTL DEF Spec
=============================================================================
