-------------------------- MODULE ServicesProofs --------------------------
(***************************************************************************)
(* What holds of trading and of mail whatever the characters, goods,       *)
(* letters and habits are: an acceptance never outlives the offers it was  *)
(* given for, and no item is doubled; the mail the service keeps is the    *)
(* mail in the database, on the lists of those it is for, and whoever      *)
(* waits for an answer gets it.                                            *)
(***************************************************************************)
EXTENDS Services, FiniteSetTheorems, TLAPS

(* What keeps an acceptance current is that every entity that trades has   *)
(* a deal, and the deals are what they should be.                          *)
Pointers(tr, ts) ==
    /\ tr = [c \in Characters |-> tr[c]]
    /\ ts \in [DOMAIN ts -> Deals]
    /\ \A c \in Characters : tr[c] # NoTrade => tr[c] \in DOMAIN ts

TradeInv == Pointers(trade, trades) /\ AcceptedIsCurrent

(* One deal: the part of AcceptedIsCurrent that is about it.               *)
Current(deal) ==
    \A c \in {deal.a.who, deal.b.who} :
        LET mine == getMember(deal, c) IN
        mine.accepted => mine.pact = <<mine.off, getOtherMember(deal, c).off>>

LEMMA CurrentDeals ==
    AcceptedIsCurrent <=> \A t \in DOMAIN trades : Current(trades[t])
BY DEF AcceptedIsCurrent, Current

(* Only the deals somebody still points to are kept, and all of those.     *)
LEMMA SetTradesKeeps ==
    ASSUME NEW tr, NEW ts, NEW accepting,
           Pointers(tr, ts),
           \A t \in DOMAIN ts : Current(ts[t]),
           SetTrades(tr, ts, accepting)
    PROVE  TradeInv'
<1> DEFINE kept == {t \in DOMAIN ts : \E c \in Characters : tr[c] = t}
<1>1. trade' = tr /\ trades' = [t \in kept |-> ts[t]]
  BY DEF SetTrades, Restrict
<1>2. Pointers(trade', trades')
  BY <1>1 DEF Pointers
<1>3. \A t \in DOMAIN trades' : Current(trades'[t])
  BY <1>1
<1>4. AcceptedIsCurrent'
  BY <1>3 DEF AcceptedIsCurrent, Current
<1> QED BY <1>2, <1>4 DEF TradeInv, Pointers

LEMMA DiscardKeeps ==
    ASSUME NEW cs, TradeInv, discardTrade(cs)
    PROVE  TradeInv'
<1> DEFINE tr == [c \in Characters |-> IF c \in cs THEN NoTrade ELSE trade[c]]
<1>1. SetTrades(tr, trades, {})
  BY DEF discardTrade
<1>2. Pointers(tr, trades)
  BY DEF TradeInv, Pointers
<1>3. \A t \in DOMAIN trades : Current(trades[t])
  BY CurrentDeals DEF TradeInv
<1> HIDE DEF tr
<1> QED BY <1>1, <1>2, <1>3, SetTradesKeeps

LEMMA UnchangedTrades ==
    ASSUME TradeInv, UNCHANGED <<trade, trades>>
    PROVE  TradeInv'
BY DEF TradeInv, Pointers, AcceptedIsCurrent, getMember, Side, getOtherMember

LEMMA RequestKeeps ==
    ASSUME TradeInv, NEW c \in Characters, NEW d \in Characters, RequestTrade(c, d)
    PROVE  TradeInv'
<1> DEFINE t == CHOOSE i \in TradeIds : i \notin DOMAIN trades
           new(e) == [who |-> e, off |-> NoOffer, accepted |-> FALSE, pact |-> NoPact]
           deal == [a |-> new(c), b |-> new(d)]
           ts == [i \in DOMAIN trades \union {t} |-> IF i = t THEN deal ELSE trades[i]]
           tr == [trade EXCEPT ![c] = t, ![d] = t]
<1>1. SetTrades(tr, ts, {})
  BY DEF RequestTrade
<1>2. deal \in Deals
  BY DEF Deals, Members, Offered
<1>3. ~deal.a.accepted /\ ~deal.b.accepted
  OBVIOUS
<1>4. Current(deal)
  BY <1>3 DEF Current, getMember, Side
<1>5. DOMAIN ts = DOMAIN trades \union {t} /\ ts[t] = deal
  OBVIOUS
<1>6. \A i \in DOMAIN trades : i # t => ts[i] = trades[i]
  OBVIOUS
<1>7. DOMAIN trade = Characters
  BY DEF TradeInv, Pointers
<1>8. tr = [e \in Characters |-> IF e \in {c, d} THEN t ELSE trade[e]]
  <2> HIDE DEF t
  <2> QED BY <1>7
<1>9. ts \in [DOMAIN ts -> Deals]
  BY <1>2 DEF TradeInv, Pointers
<1> HIDE DEF t, tr, ts, deal
<1>10. Pointers(tr, ts)
  BY <1>5, <1>8, <1>9 DEF TradeInv, Pointers
<1>11. \A i \in DOMAIN ts : Current(ts[i])
  BY <1>4, <1>5, <1>6, CurrentDeals DEF TradeInv
<1> QED BY <1>1, <1>10, <1>11, SetTradesKeeps

(* An update may take an acceptance back or add one that is for the offers *)
(* as they are now; it never leaves one for an offer that has changed.     *)
LEMMA UpdateKeeps ==
    ASSUME NEW deal \in Deals, Current(deal), NEW off \in Offered, NEW accepts \in BOOLEAN,
           NEW c, NEW d, d = getOtherMember(deal, c).who
    PROVE  /\ updateTrade(c, d, deal, off, accepts) \in Deals
           /\ Current(updateTrade(c, d, deal, off, accepts))
<1> DEFINE other == getOtherMember(deal, c)
           same == off = deal[Side(deal, c)].off
           takes == accepts /\ same /\ hasRoomForTrade(c, off, other.off)
<1>0. PICK n : n = updateTrade(c, d, deal, off, accepts)
  OBVIOUS
<1> DEFINE mine == [getMember(deal, c) EXCEPT !.off = off, !.accepted = takes,
                                              !.pact = IF takes THEN <<off, other.off>> ELSE NoPact]
           its  == [other EXCEPT !.accepted = @ /\ same, !.pact = IF same THEN @ ELSE NoPact]
<1>1. /\ mine \in Members /\ mine.who = getMember(deal, c).who /\ mine.off = off /\ mine.accepted = takes
      /\ mine.pact = IF takes THEN <<off, other.off>> ELSE NoPact
  BY DEF Deals, Members, getMember, getOtherMember, Side
<1>2. /\ its \in Members /\ its.who = other.who /\ its.off = other.off
      /\ its.accepted = (other.accepted /\ same)
      /\ its.pact = IF same THEN other.pact ELSE NoPact
  BY DEF Deals, Members, getOtherMember
<1>3. other.accepted /\ (deal.a.who = c => deal.b.who # c) => other.pact = <<other.off, getMember(deal, c).off>>
  BY DEF Current, Deals, Members, getMember, getOtherMember, Side
<1> HIDE DEF mine, its
<1>4. CASE deal.a.who = c
  <2>1. CASE deal.b.who = c
    <3>1. n = [a |-> mine, b |-> deal.b]
      BY <1>0, <1>4, <2>1 DEF mine, updateTrade, Updated, Side, getOtherMember, getMember, Deals, Members
    <3>2. n \in Deals
      BY <3>1, <1>1 DEF Deals
    <3>3. Current(n)
      BY <3>1, <1>1, <1>4, <2>1 DEF Current, getMember, getOtherMember, Side
    <3> QED BY <1>0, <3>2, <3>3
  <2>2. CASE deal.b.who # c
    <3>1. n = [a |-> mine, b |-> its]
      BY <1>0, <1>4, <2>2 DEF mine, its, updateTrade, Updated, Side, getOtherMember, getMember, Deals, Members
    <3>2. n \in Deals
      BY <3>1, <1>1, <1>2 DEF Deals
    <3>3. other = deal.b /\ getMember(deal, c) = deal.a /\ Side(deal, c) = "a"
      BY <1>4 DEF getOtherMember, getMember, Side
    <3>4. Current(n)
      BY <3>1, <3>3, <1>1, <1>2, <1>3, <1>4, <2>2 DEF Current, getMember, getOtherMember, Side
    <3> QED BY <1>0, <3>2, <3>4
  <2> QED BY <2>1, <2>2
<1>5. CASE deal.a.who # c
  <2>1. n = [a |-> its, b |-> mine]
    BY <1>0, <1>5 DEF mine, its, updateTrade, Updated, Side, getOtherMember, getMember, Deals, Members
  <2>2. n \in Deals
    BY <2>1, <1>1, <1>2 DEF Deals
  <2>3. other = deal.a /\ getMember(deal, c) = deal.b /\ Side(deal, c) = "b"
    BY <1>5 DEF getOtherMember, getMember, Side
  <2>4. Current(n)
    BY <2>1, <2>3, <1>1, <1>2, <1>3, <1>5 DEF Current, getMember, getOtherMember, Side
  <2> QED BY <1>0, <2>2, <2>4
<1> QED BY <1>4, <1>5

LEMMA UpdatedKeeps ==
    ASSUME TradeInv, NEW c \in Characters, NEW off \in Offered, NEW accepts \in BOOLEAN,
           NEW d, d = getOtherMember(trades[trade[c]], c).who, OnTradeUpdated(c, d, off, accepts)
    PROVE  TradeInv'
<1> DEFINE t == trade[c]
<1>1. PICK deal : deal = updateTrade(c, d, trades[t], off, accepts)
  OBVIOUS
<1>2. t \in DOMAIN trades /\ trades[t] \in Deals
  BY DEF OnTradeUpdated, TradeInv, Pointers
<1>3. CASE discardTrade({c, d})
  BY <1>3, DiscardKeeps
<1>4. CASE SetTrades(trade, [trades EXCEPT ![t] = deal], IF accepts THEN {c} ELSE {})
  <2>1. Current(trades[t])
    BY <1>2, CurrentDeals DEF TradeInv
  <2>2. deal \in Deals /\ Current(deal)
    BY <1>1, <1>2, <2>1, UpdateKeeps
  <2> DEFINE ts == [trades EXCEPT ![t] = deal]
  <2>3. DOMAIN ts = DOMAIN trades /\ ts[t] = deal /\ \A i \in DOMAIN trades : i # t => ts[i] = trades[i]
    BY <1>2
  <2>4. ts \in [DOMAIN ts -> Deals]
    BY <2>2 DEF TradeInv, Pointers
  <2> HIDE DEF t, ts
  <2>5. Pointers(trade, ts)
    BY <2>3, <2>4 DEF TradeInv, Pointers
  <2>6. \A i \in DOMAIN ts : Current(ts[i])
    BY <2>2, <2>3, CurrentDeals DEF TradeInv
  <2>7. SetTrades(trade, ts, IF accepts THEN {c} ELSE {})
    BY <1>4 DEF ts
  <2> QED BY <2>5, <2>6, <2>7, SetTradesKeeps
<1> QED BY <1>1, <1>3, <1>4 DEF OnTradeUpdated

(* Two entities of the pool change owners, with what they point to.        *)
Swapped(tr, c, d) == [tr EXCEPT ![c] = tr[d], ![d] = tr[c]]

LEMMA EntersSwaps ==
    ASSUME TradeInv, NEW c \in Characters, TradeEnters(c)
    PROVE  \E tr :
              /\ Pointers(tr, trades) /\ SetTrades(tr, trades, {})
              /\ \A e \in Characters : \E f \in Characters : tr[e] = trade[f]
<1>1. PICK d \in Characters : SetTrades(Swapped(trade, c, d), trades, {})
  BY DEF TradeEnters, Swapped
<1>2. PICK tr : tr = Swapped(trade, c, d)
  OBVIOUS
<1>3. trade = [e \in Characters |-> trade[e]]
  BY DEF TradeInv, Pointers
<1>4. tr = [e \in Characters |-> tr[e]]
  BY <1>2, <1>3 DEF Swapped
<1>5. \A e \in Characters : tr[e] = trade[e] \/ tr[e] = trade[c] \/ tr[e] = trade[d]
  BY <1>2, <1>3 DEF Swapped
<1>6. Pointers(tr, trades)
  BY <1>4, <1>5 DEF TradeInv, Pointers
<1> QED BY <1>1, <1>2, <1>5, <1>6

LEMMA EntersKeeps ==
    ASSUME TradeInv, NEW c \in Characters, TradeEnters(c)
    PROVE  TradeInv'
<1>1. PICK tr : Pointers(tr, trades) /\ SetTrades(tr, trades, {})
  BY EntersSwaps
<1>2. \A t \in DOMAIN trades : Current(trades[t])
  BY CurrentDeals DEF TradeInv
<1> QED BY <1>1, <1>2, SetTradesKeeps

LEMMA TradeStep ==
    ASSUME TradeInv, cast \subseteq Characters, NEW leavers, leavers \subseteq cast,
           TradeNext(cast, leavers, stock)
    PROVE  TradeInv'
<1>1. ASSUME NEW c \in cast, NEW d \in cast, RequestTrade(c, d)
      PROVE  TradeInv'
  BY <1>1, RequestKeeps
<1>2. ASSUME NEW c \in cast, NEW d \in cast, TradeDecline(c, d)
      PROVE  TradeInv'
  BY <1>2, DiscardKeeps DEF TradeDecline
<1>3. ASSUME NEW c \in cast, NEW off \in Offered, NEW accepts \in BOOLEAN,
             WindowUpdated(c, off, accepts)
      PROVE  TradeInv'
  BY <1>3, UpdatedKeeps DEF WindowUpdated
<1>4. ASSUME NEW c \in cast, NEW i, NEW j,
             \/ OnMoveEnhancement(c, i, j) \/ OnMoveInspiration(c, i, j)
             \/ OnTrashEnhancement(c, i) \/ OnStoreSellItem(c, i)
             \/ OnActivateInspiration(c, i) \/ OnStoreBuyItem(c, i)
             \/ TradeLeaves(c)
      PROVE  TradeInv'
  <2>1. UNCHANGED <<trade, trades>>
    BY <1>4 DEF OnMoveEnhancement, OnMoveInspiration, OnTrashEnhancement, OnStoreSellItem,
                OnActivateInspiration, OnStoreBuyItem, TradeLeaves, SetGoods
  <2> QED BY <2>1, UnchangedTrades
<1>5. ASSUME NEW c \in cast, AnswerToNobody(c) \/ OnTradeCancelled(c)
      PROVE  TradeInv'
  BY <1>5, DiscardKeeps DEF AnswerToNobody, OnTradeCancelled
<1>6. ASSUME NEW c \in cast, TradeEnters(c)
      PROVE  TradeInv'
  BY <1>6, EntersKeeps
<1> QED BY <1>1, <1>2, <1>3, <1>4, <1>5, <1>6 DEF TradeNext

(* Trading: an acceptance stands only while both offers are what they were *)
(* when it was given (AcceptedIsCurrent; updateTrade of Trade.cpp).        *)
THEOREM AcceptanceIsCurrent == Spec => []AcceptedIsCurrent
<1>1. Init => TradeInv /\ cast \subseteq Characters
  BY DEF Init, TradeInit, TradeInv, Pointers, AcceptedIsCurrent
<1>2. TradeInv /\ cast \subseteq Characters /\ [Next]_vars
      => (TradeInv /\ cast \subseteq Characters)'
  <2> SUFFICES ASSUME TradeInv, cast \subseteq Characters, [Next]_vars
               PROVE  TradeInv' /\ cast' \subseteq Characters
    OBVIOUS
  <2>1. cast' = cast
    BY DEF Next, vars
  <2>2. ASSUME NEW leavers, leavers \subseteq cast, TradeNext(cast, leavers, stock)
        PROVE  TradeInv'
    BY <2>2, TradeStep
  <2>3. CASE UNCHANGED tradeOnly
    BY <2>1, <2>3, UnchangedTrades DEF tradeOnly
  <2> QED BY <2>1, <2>2, <2>3 DEF Next, vars
<1> QED BY <1>1, <1>2, PTL DEF Spec, TradeInv

-----------------------------------------------------------------------------
(* A set of positions has a last one.                                      *)
Same(a, b) == b

Nothing(base, s, k, r) == TRUE

Positions == INSTANCE FoldProofs WITH Op <- Same, Inv <- Nothing

LEMMA HighestIndex ==
    ASSUME NEW n \in Nat, NEW I, I \subseteq 1..n, I # {}
    PROVE  Max(I) \in I /\ \A i \in I : i <= Max(I)
BY Positions!Greatest DEF Positions!Max, Max

-----------------------------------------------------------------------------
(* Sequences as queues: what taking the first and adding a last element    *)
(* does to the set of what is on them                                      *)

LEMMA Taken ==
    ASSUME NEW S, NEW s \in Seq(S), s # << >>
    PROVE  /\ Head(s) \in S /\ Tail(s) \in Seq(S)
           /\ ToSet(s) = {Head(s)} \union ToSet(Tail(s))
<1>1. PICK n \in Nat : n = Len(s) /\ n # 0 /\ DOMAIN s = 1..n
  OBVIOUS
<1>2. /\ Head(s) = s[1] /\ Tail(s) \in Seq(S) /\ Len(Tail(s)) = n - 1
      /\ \A i \in 1..(n - 1) : Tail(s)[i] = s[i + 1]
  BY <1>1
<1>3. DOMAIN Tail(s) = 1..(n - 1)
  BY <1>1, <1>2
<1>4. ASSUME NEW i \in 2..n PROVE i - 1 \in 1..(n - 1) /\ (i - 1) + 1 = i
  OBVIOUS
<1>5. ASSUME NEW i \in 2..n PROVE s[i] \in ToSet(Tail(s))
  <2>1. Tail(s)[i - 1] = s[i]
    BY <1>2, <1>4
  <2> QED BY <1>3, <1>4, <2>1 DEF ToSet
<1>6. 1..n = {1} \union (2..n) /\ \A i \in 1..(n - 1) : i + 1 \in 1..n
  BY <1>1
<1>7. ToSet(Tail(s)) \subseteq ToSet(s)
  BY <1>1, <1>2, <1>3, <1>6 DEF ToSet
<1>8. ToSet(s) \subseteq {Head(s)} \union ToSet(Tail(s))
  BY <1>1, <1>2, <1>5, <1>6 DEF ToSet
<1>9. Head(s) \in ToSet(s) /\ Head(s) \in S
  BY <1>1, <1>2, <1>6 DEF ToSet
<1> QED BY <1>2, <1>7, <1>8, <1>9

LEMMA Added ==
    ASSUME NEW S, NEW s \in Seq(S), NEW x \in S
    PROVE  /\ Append(s, x) \in Seq(S)
           /\ ToSet(Append(s, x)) = ToSet(s) \union {x}
<1>1. /\ Append(s, x) \in Seq(S) /\ Len(Append(s, x)) = Len(s) + 1
      /\ \A i \in 1..Len(s) : Append(s, x)[i] = s[i]
      /\ Append(s, x)[Len(s) + 1] = x
  OBVIOUS
<1>2. PICK n \in Nat : n = Len(s)
  OBVIOUS
<1>3. DOMAIN s = 1..n /\ DOMAIN Append(s, x) = 1..(n + 1)
  BY <1>1, <1>2
<1>4. 1..(n + 1) = (1..n) \union {n + 1}
  OBVIOUS
<1> QED BY <1>1, <1>2, <1>3, <1>4 DEF ToSet

(* One element of S at most is on the queue; none of B comes before one    *)
(* of A.                                                                   *)
Single(q, S) == \A i, j \in 1..Len(q) : q[i] \in S /\ q[j] \in S => i = j

First(q, A, B) == \A i, j \in 1..Len(q) : q[i] \in A /\ q[j] \in B => i <= j

LEMMA TailKeeps ==
    ASSUME NEW T, NEW s \in Seq(T), s # << >>, NEW A, NEW B
    PROVE  /\ Single(s, A) => /\ Single(Tail(s), A)
                              /\ Head(s) \in A => ToSet(Tail(s)) \intersect A = {}
           /\ First(s, A, B) => /\ First(Tail(s), A, B)
                                /\ Head(s) \in B => ToSet(Tail(s)) \intersect A = {}
<1>1. PICK n \in Nat : n = Len(s) /\ n # 0 /\ DOMAIN s = 1..n
  OBVIOUS
<1>2. PICK r : r = Tail(s)
  OBVIOUS
<1>3. /\ Head(s) = s[1] /\ Len(r) = n - 1 /\ DOMAIN r = 1..(n - 1)
      /\ \A i \in 1..(n - 1) : r[i] = s[i + 1]
  BY <1>1, <1>2
<1>4. 1 \in 1..n /\ \A i \in 1..(n - 1) : i + 1 \in 1..n /\ ~(i + 1 <= 1) /\ i + 1 # 1
  BY <1>1
<1>5. \A i, j \in 1..(n - 1) : (i + 1 = j + 1 => i = j) /\ (i + 1 <= j + 1 => i <= j)
  OBVIOUS
<1>6. ASSUME Single(s, A)
      PROVE  Single(r, A) /\ (Head(s) \in A => ToSet(r) \intersect A = {})
  <2>1. \A i \in 1..(n - 1) : \A j \in 1..n : r[i] \in A /\ s[j] \in A => i + 1 = j
    BY <1>1, <1>3, <1>4, <1>6 DEF Single
  <2>2. Single(r, A)
    BY <1>3, <1>4, <1>5, <2>1 DEF Single
  <2>3. Head(s) \in A => \A i \in 1..(n - 1) : r[i] \notin A
    BY <1>3, <1>4, <2>1
  <2> QED BY <1>3, <2>2, <2>3 DEF ToSet
<1>7. ASSUME First(s, A, B)
      PROVE  First(r, A, B) /\ (Head(s) \in B => ToSet(r) \intersect A = {})
  <2>1. \A i \in 1..(n - 1) : \A j \in 1..n : r[i] \in A /\ s[j] \in B => i + 1 <= j
    BY <1>1, <1>3, <1>4, <1>7 DEF First
  <2>2. First(r, A, B)
    BY <1>3, <1>4, <1>5, <2>1 DEF First
  <2>3. Head(s) \in B => \A i \in 1..(n - 1) : r[i] \notin A
    BY <1>3, <1>4, <2>1
  <2> QED BY <1>3, <2>2, <2>3 DEF ToSet
<1> QED BY <1>2, <1>6, <1>7

LEMMA AppendKeeps ==
    ASSUME NEW T, NEW s \in Seq(T), NEW x, NEW A, NEW B
    PROVE  /\ Single(s, A) /\ (x \notin A \/ ToSet(s) \intersect A = {}) => Single(Append(s, x), A)
           /\ First(s, A, B) /\ (x \notin A \/ ToSet(s) \intersect B = {}) => First(Append(s, x), A, B)
<1>1. PICK n \in Nat : n = Len(s) /\ DOMAIN s = 1..n
  OBVIOUS
<1>2. PICK r : r = Append(s, x)
  OBVIOUS
<1>3. Len(r) = n + 1 /\ r[n + 1] = x /\ \A i \in 1..n : r[i] = s[i]
  BY <1>1, <1>2
<1>4. 1..(n + 1) = (1..n) \union {n + 1} /\ \A i \in 1..n : i <= n + 1
  OBVIOUS
<1>5. \A i \in 1..n : s[i] \in ToSet(s)
  BY <1>1 DEF ToSet
<1>6. ASSUME Single(s, A), x \notin A \/ ToSet(s) \intersect A = {}
      PROVE  Single(r, A)
  <2>1. \A i \in 1..n : ~(s[i] \in A /\ x \in A)
    BY <1>5, <1>6
  <2> QED BY <1>1, <1>3, <1>4, <1>6, <2>1 DEF Single
<1>7. ASSUME First(s, A, B), x \notin A \/ ToSet(s) \intersect B = {}
      PROVE  First(r, A, B)
  <2>1. \A i \in 1..n : ~(s[i] \in B /\ x \in A)
    BY <1>5, <1>7
  <2>2. n + 1 <= n + 1
    OBVIOUS
  <2> QED BY <1>1, <1>3, <1>4, <1>7, <2>1, <2>2 DEF First
<1> QED BY <1>2, <1>6, <1>7

(* The last report of a client decides, whatever is added besides.         *)
Report(ev, c) == ev \in [type : {"Connected", "Disconnected"}, from : {c}]

LEMMA AfterAppend ==
    ASSUME NEW T, NEW s \in Seq(T), NEW x, NEW c, NEW b
    PROVE  After(Append(s, x), c, b)
           = IF Report(x, c) THEN x.type = "Connected" ELSE After(s, c, b)
<1>1. PICK n \in Nat : n = Len(s) /\ DOMAIN s = 1..n
  OBVIOUS
<1>2. PICK r : r = Append(s, x)
  OBVIOUS
<1>3. DOMAIN r = 1..(n + 1) /\ r[n + 1] = x /\ \A i \in 1..n : r[i] = s[i]
  BY <1>1, <1>2
<1>4. 1..(n + 1) = (1..n) \union {n + 1} /\ \A i \in 1..n : ~(n + 1 <= i)
  OBVIOUS
<1> DEFINE I == {i \in 1..n : Report(s[i], c)}
           J == {i \in 1..(n + 1) : Report(r[i], c)}
<1>5. After(s, c, b) = IF I = {} THEN b ELSE s[Max(I)].type = "Connected"
  BY <1>1 DEF After, Report
<1>6. After(r, c, b) = IF J = {} THEN b ELSE r[Max(J)].type = "Connected"
  BY <1>3 DEF After, Report
<1>7. CASE ~Report(x, c)
  <2>1. J = I
    BY <1>3, <1>4, <1>7
  <2>2. I # {} => Max(I) \in 1..n
    <3>1. I \subseteq 1..n
      OBVIOUS
    <3> HIDE DEF I
    <3> QED BY <3>1, HighestIndex
  <2> HIDE DEF I, J
  <2> QED BY <1>2, <1>3, <1>5, <1>6, <1>7, <2>1, <2>2
<1>8. CASE Report(x, c)
  <2>1. n + 1 \in Nat /\ n + 1 \in J /\ J \subseteq 1..(n + 1)
    BY <1>3, <1>4, <1>8
  <2> HIDE DEF J
  <2>2. Max(J) = n + 1
    <3>1. Max(J) \in J /\ n + 1 <= Max(J)
      BY <2>1, HighestIndex
    <3>2. Max(J) \in 1..(n + 1)
      BY <2>1, <3>1
    <3> QED BY <3>1, <3>2
  <2> QED BY <1>2, <1>3, <1>6, <1>8, <2>1, <2>2
<1> QED BY <1>7, <1>8

LEMMA AfterTail ==
    ASSUME NEW T, NEW s \in Seq(T), s # << >>, NEW c, NEW b
    PROVE  After(s, c, b)
           = After(Tail(s), c, IF Report(Head(s), c) THEN Head(s).type = "Connected" ELSE b)
<1>1. PICK n \in Nat : n = Len(s) /\ n # 0 /\ DOMAIN s = 1..n
  OBVIOUS
<1>2. PICK r : r = Tail(s)
  OBVIOUS
<1>3. /\ Head(s) = s[1] /\ DOMAIN r = 1..(n - 1)
      /\ \A i \in 1..(n - 1) : r[i] = s[i + 1]
  BY <1>1, <1>2
<1> DEFINE I == {i \in 1..n : Report(s[i], c)}
           J == {i \in 1..(n - 1) : Report(r[i], c)}
<1>4. PICK d : d = IF Report(Head(s), c) THEN Head(s).type = "Connected" ELSE b
  OBVIOUS
<1>5. After(s, c, b) = IF I = {} THEN b ELSE s[Max(I)].type = "Connected"
  BY <1>1 DEF After, Report
<1>6. After(r, c, d) = IF J = {} THEN d ELSE r[Max(J)].type = "Connected"
  BY <1>3 DEF After, Report
<1>7. n - 1 \in Nat /\ I \subseteq 1..n /\ J \subseteq 1..(n - 1)
  BY <1>1
<1>8. \A i \in 1..(n - 1) : i + 1 \in 1..n /\ ~(i + 1 <= 1)
  OBVIOUS
<1>9. \A i \in 1..n : i = 1 \/ (i - 1 \in 1..(n - 1) /\ (i - 1) + 1 = i)
  OBVIOUS
<1>10. \A i \in 1..(n - 1) : i \in J <=> i + 1 \in I
  BY <1>3, <1>8
<1>11. 1 \in I <=> Report(Head(s), c)
  BY <1>1, <1>3
<1>12. CASE J = {}
  <2>1. I \subseteq {1}
    BY <1>7, <1>9, <1>10, <1>12
  <2>2. I = {1} => Max(I) = 1
    <3>1. I # {} => Max(I) \in I
      <4> HIDE DEF I
      <4> QED BY <1>7, HighestIndex
    <3> HIDE DEF I
    <3> QED BY <3>1
  <2>3. I = {} \/ I = {1}
    BY <2>1
  <2> HIDE DEF I, J
  <2> QED BY <1>2, <1>3, <1>4, <1>5, <1>6, <1>11, <1>12, <2>2, <2>3
<1>13. CASE J # {}
  <2>1. Max(J) \in J /\ \A j \in J : j <= Max(J)
    <3> HIDE DEF J
    <3> QED BY <1>7, <1>13, HighestIndex
  <2>2. PICK m \in 1..(n - 1) : m = Max(J)
    BY <1>7, <2>1
  <2>3. m + 1 \in I
    BY <1>10, <2>1, <2>2
  <2>4. \A i \in I : i <= m + 1
    <3> SUFFICES ASSUME NEW i \in I PROVE i <= m + 1
      OBVIOUS
    <3>1. i \in 1..n
      BY <1>7
    <3>2. CASE i = 1
      BY <3>2
    <3>3. CASE i - 1 \in 1..(n - 1) /\ (i - 1) + 1 = i
      <4>1. i - 1 \in J
        BY <1>10, <3>3
      <4>2. i - 1 <= m
        BY <2>1, <2>2, <4>1
      <4> QED BY <3>1, <3>3, <4>2
    <3> QED BY <1>9, <3>1, <3>2, <3>3
  <2>5. Max(I) = m + 1
    <3>1. Max(I) \in I /\ \A j \in I : j <= Max(I)
      <4> HIDE DEF I
      <4> QED BY <1>7, <2>3, HighestIndex
    <3>2. Max(I) \in 1..n
      BY <1>7, <3>1
    <3> HIDE DEF I
    <3> QED BY <2>3, <2>4, <3>1, <3>2
  <2>6. s[m + 1] = r[m]
    BY <1>3
  <2> HIDE DEF I, J
  <2>7. I # {}
    BY <2>3
  <2> QED BY <1>2, <1>4, <1>5, <1>6, <1>13, <2>2, <2>5, <2>6, <2>7
<1> QED BY <1>12, <1>13

-----------------------------------------------------------------------------
(* The state of the mail service.  The bound on the letters written plays  *)
(* no part: a letter has a number.                                         *)

Entry == [known : BOOLEAN, received : SUBSET Nat]

Events ==
    [type : {"Send", "Filled"}, from : Characters, to : Ids]
    \union [type : {"FillError", "Header", "Connected", "Disconnected"}, from : Characters]
    \union [type : {"Created"}, from : Characters, to : Ids, id : Nat]
    \union [type : {"Read", "Delete"}, from : Characters, id : Nat]
    \union [type : {"Emails"}, from : {NoOne}]

Requests ==
    [type : {"Fill", "Create"}, from : Characters, to : Ids]
    \union [type : {"MarkAsRead", "Remove"}, id : Nat]
    \union [type : {"GetEmails"}]

ReportEvents == [type : {"Connected", "Disconnected"}, from : Characters]

MailTyped ==
    /\ DOMAIN clients \subseteq Ids /\ clients \in [DOMAIN clients -> Entry]
    /\ DOMAIN mails \subseteq Nat /\ mails \in [DOMAIN mails -> Letters]
    /\ \E n \in Nat : DOMAIN dbmails = 1..n
    /\ dbmails \in [DOMAIN dbmails -> Letters]
    /\ mailq \in Seq(Events) /\ maildb \in Seq(Requests) /\ bus \in Seq(ReportEvents)
    /\ shown \in [Characters -> SUBSET Nat]
    /\ awaiting \subseteq Characters /\ here \subseteq Characters
    /\ crashed \in BOOLEAN

Posts == ToSet(mailq)

Asks == ToSet(maildb)

Rides == ToSet(bus)

EventsFrom(types, c) == {ev \in Events : ev.type \in types /\ ev.from = c}

Reports == {"Connected", "Disconnected"}

LEMMA EventShape ==
    ASSUME NEW ev \in Events
    PROVE  /\ ev.type \in {"Send", "Filled"} =>
                  /\ ev.from \in Characters /\ ev.to \in Ids
                  /\ \A t \in {"Fill", "Create"} :
                        /\ [ev EXCEPT !.type = t] \in Requests
                        /\ [ev EXCEPT !.type = t].type = t /\ [ev EXCEPT !.type = t].from = ev.from
           /\ ev.type = "Created" => ev.from \in Characters /\ ev.to \in Ids /\ ev.id \in Nat
           /\ ev.type \in {"Read", "Delete"} => ev.from \in Characters /\ ev.id \in Nat
           /\ ev.type \in {"FillError", "Header"} => ev.from \in Characters
           /\ ev.type \in Reports => /\ ev.from \in Characters
                                     /\ ev \in ReportEvents
                                     /\ ev = [type |-> ev.type, from |-> ev.from]
           /\ ev.type = "Emails" => ev = [type |-> "Emails", from |-> NoOne]
           /\ ev.type \in {"Send", "Filled", "FillError", "Header", "Connected", "Disconnected",
                           "Created", "Read", "Delete", "Emails"}
<1>1. CASE ev \in [type : {"Send", "Filled"}, from : Characters, to : Ids]
  <2>1. ev.from \in Characters /\ ev.to \in Ids /\ ev.type \in {"Send", "Filled"}
    BY <1>1
  <2>2. ASSUME NEW t \in {"Fill", "Create"}
        PROVE  [ev EXCEPT !.type = t] = [type |-> t, from |-> ev.from, to |-> ev.to]
    BY <1>1
  <2> QED BY <2>1, <2>2 DEF Requests, Reports
<1>2. CASE ev \in [type : {"FillError", "Header", "Connected", "Disconnected"}, from : Characters]
  BY <1>2 DEF Reports, ReportEvents
<1>3. CASE ev \in [type : {"Created"}, from : Characters, to : Ids, id : Nat]
  BY <1>3 DEF Reports
<1>4. CASE ev \in [type : {"Read", "Delete"}, from : Characters, id : Nat]
  BY <1>4 DEF Reports
<1>5. CASE ev \in [type : {"Emails"}, from : {NoOne}]
  BY <1>5 DEF Reports
<1> QED BY <1>1, <1>2, <1>3, <1>4, <1>5 DEF Events

LEMMA RequestShape ==
    ASSUME NEW r \in Requests
    PROVE  /\ r.type \in {"Fill", "Create"} => r.from \in Characters /\ r.to \in Ids
           /\ r.type = "Fill" => [r EXCEPT !.type = "Filled"]
                                 = [type |-> "Filled", from |-> r.from, to |-> r.to]
           /\ r.type \in {"MarkAsRead", "Remove"} =>
                  r.id \in Nat /\ r = [type |-> r.type, id |-> r.id]
           /\ r.type = "GetEmails" => r = [type |-> "GetEmails"]
           /\ r.type \in {"Fill", "Create", "MarkAsRead", "Remove", "GetEmails"}
<1>1. CASE r \in [type : {"Fill", "Create"}, from : Characters, to : Ids]
  BY <1>1
<1>2. CASE r \in [type : {"MarkAsRead", "Remove"}, id : Nat]
  BY <1>2
<1>3. CASE r \in [type : {"GetEmails"}]
  BY <1>3
<1> QED BY <1>1, <1>2, <1>3 DEF Requests

(* Events as the handlers and the players make them                        *)
LEMMA MadeEvents ==
    ASSUME NEW c \in Characters, NEW to \in Ids, NEW id \in Nat
    PROVE  /\ [type |-> "Send", from |-> c, to |-> to] \in Events
           /\ [type |-> "Filled", from |-> c, to |-> to] \in Events
           /\ [type |-> "FillError", from |-> c] \in Events
           /\ [type |-> "Header", from |-> c] \in Events
           /\ [type |-> "Created", from |-> c, to |-> to, id |-> id] \in Events
           /\ [type |-> "Read", from |-> c, id |-> id] \in Events
           /\ [type |-> "Delete", from |-> c, id |-> id] \in Events
           /\ [type |-> "Emails", from |-> NoOne] \in Events
           /\ ReportEvents \subseteq Events
BY DEF Events, ReportEvents

LEMMA MadeRequests ==
    ASSUME NEW id \in Nat
    PROVE  /\ [type |-> "MarkAsRead", id |-> id] \in Requests
           /\ [type |-> "Remove", id |-> id] \in Requests
           /\ [type |-> "GetEmails"] \in Requests
BY DEF Requests

(* What taking x off the queue q, which leaves r, or adding it keeps       *)
TakesOff(x, q, r) ==
    /\ \A A : Single(q, A) => Single(r, A) /\ (x \in A => ToSet(r) \intersect A = {})
    /\ \A A, B : First(q, A, B) => First(r, A, B) /\ (x \in B => ToSet(r) \intersect A = {})

PutsOn(x, q, r) ==
    /\ \A A : Single(q, A) /\ (x \notin A \/ ToSet(q) \intersect A = {}) => Single(r, A)
    /\ \A A, B : First(q, A, B) /\ (x \notin A \/ ToSet(q) \intersect B = {}) => First(r, A, B)

(* The queues, as the handler and the database take from them and add to   *)
(* them                                                                    *)
LEMMA GotEvent ==
    ASSUME MailTyped, NEW type, Got(type), NEW ev, ev = Head(mailq)
    PROVE  /\ ev \in Events /\ ev.type = type
           /\ mailq' \in Seq(Events) /\ Posts = {ev} \union Posts'
           /\ TakesOff(ev, mailq, mailq')
           /\ \A c, b : After(mailq, c, b)
                        = After(mailq', c, IF Report(ev, c) THEN ev.type = "Connected" ELSE b)
<1>1. mailq \in Seq(Events) /\ mailq # << >> /\ mailq' = Tail(mailq)
  BY DEF MailTyped, Got
<1>2. PICK t : t = Tail(mailq)
  OBVIOUS
<1>3. TakesOff(ev, mailq, t)
  BY <1>1, <1>2, TailKeeps DEF TakesOff
<1>4. \A c, b : After(mailq, c, b)
                = After(t, c, IF Report(ev, c) THEN ev.type = "Connected" ELSE b)
  BY <1>1, <1>2, AfterTail
<1>5. ev \in Events /\ t \in Seq(Events) /\ ToSet(mailq) = {ev} \union ToSet(t)
  BY <1>1, <1>2, Taken
<1>6. ev.type = type
  BY DEF Got
<1> QED BY <1>1, <1>2, <1>3, <1>4, <1>5, <1>6 DEF Posts

LEMMA ServedRequest ==
    ASSUME MailTyped, NEW type, Serves(type), NEW r, r = Head(maildb)
    PROVE  /\ r \in Requests /\ r.type = type
           /\ maildb' \in Seq(Requests) /\ Asks = {r} \union Asks'
           /\ TakesOff(r, maildb, maildb')
<1>1. maildb \in Seq(Requests) /\ maildb # << >> /\ maildb' = Tail(maildb)
  BY DEF MailTyped, Serves
<1>2. PICK t : t = Tail(maildb)
  OBVIOUS
<1>3. TakesOff(r, maildb, t)
  BY <1>1, <1>2, TailKeeps DEF TakesOff
<1>4. r \in Requests /\ t \in Seq(Requests) /\ ToSet(maildb) = {r} \union ToSet(t)
  BY <1>1, <1>2, Taken
<1>5. r.type = type
  BY DEF Serves
<1> QED BY <1>1, <1>2, <1>3, <1>4, <1>5 DEF Asks

LEMMA PostedEvent ==
    ASSUME MailTyped, NEW ev \in Events, PostMail(ev)
    PROVE  /\ mailq' \in Seq(Events) /\ Posts' = Posts \union {ev}
           /\ PutsOn(ev, mailq, mailq')
           /\ \A c, b : After(mailq', c, b)
                        = IF Report(ev, c) THEN ev.type = "Connected" ELSE After(mailq, c, b)
<1>1. mailq \in Seq(Events) /\ mailq' = Append(mailq, ev)
  BY DEF MailTyped, PostMail
<1>2. PICK t : t = Append(mailq, ev)
  OBVIOUS
<1>3. t \in Seq(Events) /\ ToSet(t) = ToSet(mailq) \union {ev}
  BY <1>1, <1>2, Added
<1>4. PutsOn(ev, mailq, t)
  BY <1>1, <1>2, AppendKeeps DEF PutsOn
<1>5. \A c, b : After(t, c, b) = IF Report(ev, c) THEN ev.type = "Connected" ELSE After(mailq, c, b)
  BY <1>1, <1>2, AfterAppend
<1> QED BY <1>1, <1>2, <1>3, <1>4, <1>5 DEF Posts

LEMMA AskedRequest ==
    ASSUME MailTyped, NEW r \in Requests, AskDatabase(r)
    PROVE  /\ maildb' \in Seq(Requests) /\ Asks' = Asks \union {r}
           /\ PutsOn(r, maildb, maildb')
<1>1. maildb \in Seq(Requests) /\ maildb' = Append(maildb, r)
  BY DEF MailTyped, AskDatabase
<1>2. PICK t : t = Append(maildb, r)
  OBVIOUS
<1>3. t \in Seq(Requests) /\ ToSet(t) = ToSet(maildb) \union {r}
  BY <1>1, <1>2, Added
<1>4. PutsOn(r, maildb, t)
  BY <1>1, <1>2, AppendKeeps DEF PutsOn
<1> QED BY <1>1, <1>2, <1>3, <1>4 DEF Asks

(* operator[] of the maps                                                  *)
Mapping(f) == f = [k \in DOMAIN f |-> f[k]]

LEMMA WithIs ==
    ASSUME NEW m, NEW k, NEW v
    PROVE  /\ DOMAIN With(m, k, v) = DOMAIN m \union {k} /\ With(m, k, v)[k] = v
           /\ \A j \in DOMAIN m : j # k => With(m, k, v)[j] = m[j]
           /\ Mapping(With(m, k, v))
BY DEF With, Mapping

LEMMA TouchedIs ==
    ASSUME NEW m, NEW k, NEW d
    PROVE  /\ DOMAIN Touched(m, k, d) = DOMAIN m \union {k} /\ (k \notin DOMAIN m => Touched(m, k, d)[k] = d)
           /\ \A j \in DOMAIN m : Touched(m, k, d)[j] = m[j]
           /\ Mapping(Touched(m, k, d))
BY DEF Touched, With, At, Mapping

LEMMA WithoutIs ==
    ASSUME NEW m, NEW k
    PROVE  /\ DOMAIN Without(m, k) = DOMAIN m \ {k} /\ \A j \in DOMAIN Without(m, k) : Without(m, k)[j] = m[j]
           /\ Mapping(Without(m, k))
BY DEF Without, Restrict, Mapping

-----------------------------------------------------------------------------
(* Types are kept.                                                         *)

IsClients(f) == DOMAIN f \subseteq Ids /\ Mapping(f)
                /\ \A k \in DOMAIN f : f[k] \in Entry

IsMails(f) == DOMAIN f \subseteq Nat /\ Mapping(f)
              /\ \A k \in DOMAIN f : f[k] \in Letters

Queued ==
    /\ \E n \in Nat : DOMAIN dbmails = 1..n
    /\ IsMails(dbmails)
    /\ mailq \in Seq(Events) /\ maildb \in Seq(Requests) /\ bus \in Seq(ReportEvents)
    /\ shown \in [Characters -> SUBSET Nat]
    /\ awaiting \subseteq Characters /\ here \subseteq Characters
    /\ crashed \in BOOLEAN

LEMMA TypedParts == MailTyped <=> IsClients(clients) /\ IsMails(mails) /\ Queued
<1>1. (\E n \in Nat : DOMAIN dbmails = 1..n) => DOMAIN dbmails \subseteq Nat
  OBVIOUS
<1> HIDE DEF Events, Requests, ReportEvents, Entry, Letters
<1> QED BY <1>1 DEF MailTyped, IsClients, IsMails, Queued, Mapping

LEMMA NotYet == NoLetter \in Letters /\ Phantom \in Entry /\ NoOne \in Ids
BY DEF NoLetter, Letters, Phantom, Entry, Ids

(* A player puts an event on the queue.                                    *)
LEMMA CommandTyped ==
    ASSUME MailTyped, NEW ev \in Events, PostMail(ev), UNCHANGED playerRest,
           shown' \in [Characters -> SUBSET Nat], awaiting' \subseteq Characters
    PROVE  MailTyped'
<1>1. mailq' \in Seq(Events)
  BY PostedEvent
<1> HIDE DEF Events, Requests, ReportEvents
<1> QED BY <1>1 DEF MailTyped, playerRest

LEMMA PlayersTyped ==
    ASSUME MailTyped, NEW c \in Characters, NEW to \in Ids, NEW id \in Nat,
           \/ EmailSend(c, to) \/ EmailRead(c, id) \/ EmailDelete(c, id) \/ EmailHeaders(c)
    PROVE  MailTyped'
<1>1. shown \in [Characters -> SUBSET Nat] /\ awaiting \subseteq Characters
  BY DEF MailTyped
<1>2. CASE EmailSend(c, to)
  BY <1>1, <1>2, MadeEvents, CommandTyped DEF EmailSend
<1>3. CASE EmailRead(c, id)
  BY <1>1, <1>3, MadeEvents, CommandTyped DEF EmailRead
<1>4. CASE EmailDelete(c, id)
  BY <1>1, <1>4, MadeEvents, CommandTyped DEF EmailDelete
<1>5. CASE EmailHeaders(c)
  BY <1>1, <1>5, MadeEvents, CommandTyped DEF EmailHeaders
<1> QED BY <1>2, <1>3, <1>4, <1>5

LEMMA ComingTyped ==
    ASSUME MailTyped, NEW c \in Characters, MailEnters(c) \/ MailLeaves(c) \/ BusDelivers
    PROVE  MailTyped'
<1>0. 1 = 1
  OBVIOUS
<1>1. bus \in Seq(ReportEvents) /\ shown \in [Characters -> SUBSET Nat] /\ {} \in SUBSET Nat
      /\ here \subseteq Characters /\ awaiting \subseteq Characters
  BY DEF MailTyped
<1>2. CASE MailEnters(c)
  <2>1. PICK ev \in ReportEvents : ev = [type |-> "Connected", from |-> c]
    BY DEF ReportEvents
  <2>2. bus' \in Seq(ReportEvents) /\ here' \subseteq Characters
    BY <1>1, <1>2, <2>1 DEF MailEnters, Enters
  <2>3. UNCHANGED <<clients, mails, dbmails, mailq, maildb, shown, awaiting, crashed>>
    BY <1>2 DEF MailEnters
  <2> HIDE DEF Events, Requests, ReportEvents
  <2> QED BY <2>2, <2>3 DEF MailTyped
<1>3. CASE MailLeaves(c)
  <2>1. PICK ev \in ReportEvents : ev = [type |-> "Disconnected", from |-> c]
    BY DEF ReportEvents
  <2>2. bus' \in Seq(ReportEvents) /\ here' \subseteq Characters
    BY <1>1, <1>3, <2>1 DEF MailLeaves, Leaves
  <2>3. UNCHANGED <<clients, mails, dbmails, mailq, maildb, crashed>>
        /\ shown' \in [Characters -> SUBSET Nat] /\ awaiting' \subseteq Characters
    BY <1>1, <1>3 DEF MailLeaves
  <2> HIDE DEF Events, Requests, ReportEvents
  <2> QED BY <2>2, <2>3 DEF MailTyped
<1>4. CASE BusDelivers
  <2>1. PICK ev \in ReportEvents : ev = Head(bus)
    BY <1>1, <1>4, Taken DEF BusDelivers
  <2>2. ev \in Events /\ bus' \in Seq(ReportEvents)
    BY <1>0, <1>1, <1>4, <2>1, Taken DEF BusDelivers, Events, ReportEvents
  <2>3. PostMail(ev) /\ UNCHANGED <<here, clients, mails, dbmails, maildb, shown, awaiting, crashed>>
    BY <1>4, <2>1 DEF BusDelivers
  <2>4. mailq' \in Seq(Events)
    BY <2>2, <2>3, PostedEvent
  <2> HIDE DEF Events, Requests, ReportEvents
  <2> QED BY <2>2, <2>3, <2>4 DEF MailTyped
<1> QED BY <1>2, <1>3, <1>4

(* A handler of the mail service takes an event off the queue.             *)
LEMMA HandlerTyped ==
    ASSUME MailTyped, NEW type, Got(type), IsClients(clients'), IsMails(mails'),
           maildb' \in Seq(Requests), shown' \in [Characters -> SUBSET Nat],
           awaiting' \subseteq Characters, crashed' \in BOOLEAN
    PROVE  MailTyped'
<1>1. mailq' \in Seq(Events)
  BY GotEvent
<1>2. UNCHANGED <<here, dbmails, bus>> /\ Queued
  BY TypedParts DEF Got
<1>3. Queued'
  <2> HIDE DEF Events, Requests, ReportEvents
  <2> QED BY <1>1, <1>2 DEF Queued, IsMails
<1>4. (IsClients(clients) /\ IsMails(mails) /\ Queued)'
  BY <1>3
<1> QED BY <1>4, TypedParts, PTL

LEMMA ShownTyped ==
    ASSUME shown \in [Characters -> SUBSET Nat], NEW c, NEW ids \in SUBSET Nat, Shows(c, ids)
    PROVE  shown' \in [Characters -> SUBSET Nat]
BY DEF Shows

LEMMA ToldTyped ==
    ASSUME awaiting \subseteq Characters, NEW c, Told(c)
    PROVE  awaiting' \subseteq Characters
BY DEF Told

LEMMA ClientsWith ==
    ASSUME NEW m, IsClients(m), NEW k \in Ids, NEW v \in Entry
    PROVE  IsClients(With(m, k, v)) /\ IsClients(Touched(m, k, Phantom)) /\ IsClients(Without(m, k))
           /\ At(m, k, Phantom) \in Entry
<1>1. PICK w : w = With(m, k, v)
  OBVIOUS
<1>2. PICK t : t = Touched(m, k, Phantom)
  OBVIOUS
<1>3. PICK o : o = Without(m, k)
  OBVIOUS
<1> HIDE DEF Entry, Ids, Phantom
<1>4. IsClients(w)
  <2>1. /\ DOMAIN w = DOMAIN m \union {k} /\ w[k] = v
        /\ \A j \in DOMAIN m : j # k => w[j] = m[j]
        /\ Mapping(w)
    BY <1>1 DEF With, Mapping
  <2> QED BY <2>1 DEF IsClients
<1>5. IsClients(t)
  <2>1. /\ DOMAIN t = DOMAIN m \union {k} /\ (k \notin DOMAIN m => t[k] = Phantom)
        /\ \A j \in DOMAIN m : t[j] = m[j]
        /\ Mapping(t)
    BY <1>2 DEF Touched, With, At, Mapping
  <2> QED BY <2>1, NotYet DEF IsClients
<1>6. IsClients(o)
  <2>1. /\ DOMAIN o = DOMAIN m \ {k}
        /\ \A j \in DOMAIN o : o[j] = m[j]
        /\ Mapping(o)
    BY <1>3, WithoutIs
  <2> QED BY <2>1 DEF IsClients
<1> QED BY <1>1, <1>2, <1>3, <1>4, <1>5, <1>6, NotYet DEF At, IsClients

LEMMA MailsWith ==
    ASSUME NEW m, IsMails(m), NEW k \in Nat, NEW v \in Letters
    PROVE  IsMails(With(m, k, v)) /\ IsMails(Without(m, k)) /\ At(m, k, NoLetter) \in Letters
<1>1. PICK w : w = With(m, k, v)
  OBVIOUS
<1>2. PICK o : o = Without(m, k)
  OBVIOUS
<1> HIDE DEF Letters, NoLetter
<1>3. IsMails(w)
  <2>1. /\ DOMAIN w = DOMAIN m \union {k} /\ w[k] = v
        /\ \A j \in DOMAIN m : j # k => w[j] = m[j]
        /\ Mapping(w)
    BY <1>1 DEF With, Mapping
  <2> QED BY <2>1 DEF IsMails
<1>4. IsMails(o)
  <2>1. /\ DOMAIN o = DOMAIN m \ {k}
        /\ \A j \in DOMAIN o : o[j] = m[j]
        /\ Mapping(o)
    BY <1>2, WithoutIs
  <2> QED BY <2>1 DEF IsMails
<1> QED BY <1>1, <1>2, <1>3, <1>4, NotYet DEF At, IsMails

LEMMA NewEntry ==
    ASSUME NEW e \in Entry, NEW S \in SUBSET Nat
    PROVE  /\ [e EXCEPT !.received = S] \in Entry
           /\ [e EXCEPT !.received = S].received = S
           /\ [e EXCEPT !.received = S].known = e.known
           /\ e.received \subseteq Nat /\ e.known \in BOOLEAN
BY DEF Entry

LEMMA NewLetter ==
    ASSUME NEW l \in Letters
    PROVE  /\ [l EXCEPT !.read = TRUE] \in Letters
           /\ [l EXCEPT !.read = TRUE].from = l.from /\ [l EXCEPT !.read = TRUE].to = l.to
           /\ [l EXCEPT !.read = TRUE].read = TRUE
           /\ l.from \in Ids /\ l.to \in Ids /\ l.read \in BOOLEAN
BY DEF Letters

(* Setting the list of one client                                          *)
LEMMA ListSet ==
    ASSUME NEW m, IsClients(m), NEW k \in DOMAIN m, NEW S \in SUBSET Nat,
           NEW r, r = [m EXCEPT ![k].received = S]
    PROVE  /\ IsClients(r) /\ DOMAIN r = DOMAIN m
           /\ \A j \in DOMAIN m : r[j].known = m[j].known
           /\ \A j \in DOMAIN m : r[j].received = IF j = k THEN S ELSE m[j].received
<1>1. m[k] \in Entry
  BY DEF IsClients
<1>2. PICK e \in Entry : e = [m[k] EXCEPT !.received = S]
  BY <1>1, NewEntry
<1>3. r = [m EXCEPT ![k] = e]
  BY <1>2
<1>4. e.known = m[k].known /\ e.received = S
  BY <1>1, <1>2, NewEntry
<1> HIDE DEF Entry
<1> QED BY <1>2, <1>3, <1>4 DEF IsClients, Mapping

(* r is m with the list of k set to S                                      *)
Lists(m, k, S, r) == r = [m EXCEPT ![k].received = S]

LEMMA ListTyped ==
    ASSUME NEW m, IsClients(m), NEW k \in DOMAIN m, NEW S \in SUBSET Nat,
           NEW r, Lists(m, k, S, r)
    PROVE  IsClients(r)
BY ListSet DEF Lists

LEMMA HandlersTyped ==
    ASSUME MailTyped,
           \/ on_email_send \/ on_fill_email_recipient_id_response
           \/ on_fill_email_recipient_id_error \/ on_email_create_response
           \/ on_email_header \/ on_email_read \/ on_email_delete
           \/ on_client_connected \/ on_client_disconnected \/ on_get_emails_response
    PROVE  MailTyped'
<1>1. /\ IsClients(clients) /\ IsMails(mails) /\ maildb \in Seq(Requests)
      /\ shown \in [Characters -> SUBSET Nat] /\ awaiting \subseteq Characters /\ crashed \in BOOLEAN
      /\ here \subseteq Characters
  BY TypedParts DEF Queued
<1>2. PICK ev : ev = Head(mailq)
  OBVIOUS
<1>3. Characters \subseteq Ids
  BY DEF Ids
<1>4. CASE on_email_send
  <2>1. Got("Send") /\ UNCHANGED <<clients, mails, shown, awaiting, crashed>>
    BY <1>4 DEF on_email_send
  <2>2. ev \in Events /\ ev.type = "Send"
    BY <1>2, <2>1, GotEvent
  <2>3. PICK r \in Requests : r = [ev EXCEPT !.type = "Fill"]
    BY <2>2, EventShape
  <2>4. AskDatabase(r)
    BY <1>2, <1>4, <2>3 DEF on_email_send
  <2>5. maildb' \in Seq(Requests)
    BY <2>4, AskedRequest
  <2> QED BY <1>1, <2>1, <2>5, HandlerTyped
<1>5. CASE on_fill_email_recipient_id_response
  <2>1. Got("Filled") /\ UNCHANGED <<clients, mails, shown, awaiting, crashed>>
    BY <1>5 DEF on_fill_email_recipient_id_response
  <2>2. ev \in Events /\ ev.type = "Filled"
    BY <1>2, <2>1, GotEvent
  <2>3. PICK r \in Requests : r = [ev EXCEPT !.type = "Create"]
    BY <2>2, EventShape
  <2>4. AskDatabase(r)
    BY <1>2, <1>5, <2>3 DEF on_fill_email_recipient_id_response
  <2>5. maildb' \in Seq(Requests)
    BY <2>4, AskedRequest
  <2> QED BY <1>1, <2>1, <2>5, HandlerTyped
<1>6. CASE on_fill_email_recipient_id_error
  <2>1. Got("FillError") /\ UNCHANGED <<mails, maildb, shown>>
    BY <1>6 DEF on_fill_email_recipient_id_error
  <2>2. ev \in Events /\ ev.type = "FillError"
    BY <1>2, <2>1, GotEvent
  <2>3. ev.from \in Ids
    BY <1>3, <2>2, EventShape
  <2>4. /\ clients' = Touched(clients, ev.from, Phantom) /\ Told(ev.from)
        /\ crashed' \in BOOLEAN
    BY <1>2, <1>6 DEF on_fill_email_recipient_id_error
  <2>5. IsClients(clients')
    BY <1>1, <2>3, <2>4, NotYet, ClientsWith
  <2>6. awaiting' \subseteq Characters
    BY <1>1, <2>4, ToldTyped
  <2> QED BY <1>1, <2>1, <2>4, <2>5, <2>6, HandlerTyped
<1>7. CASE on_email_create_response
  <2>1. Got("Created") /\ UNCHANGED maildb
    BY <1>7 DEF on_email_create_response
  <2>2. ev \in Events /\ ev.type = "Created"
    BY <1>2, <2>1, GotEvent
  <2>3. ev.from \in Ids /\ ev.to \in Ids /\ ev.id \in Nat
    BY <1>3, <2>2, EventShape
  <2>4. PICK cs : cs = Touched(clients, ev.from, Phantom)
    OBVIOUS
  <2>5. IsClients(cs)
    BY <1>1, <2>3, <2>4, NotYet, ClientsWith
  <2>6. PICK l \in Letters : l = [from |-> ev.from, to |-> ev.to, read |-> FALSE]
    BY <2>3 DEF Letters
  <2>7. /\ mails' = With(mails, ev.id, l) /\ Told(ev.from) /\ crashed' \in BOOLEAN
        /\ clients' = IF ev.to \in DOMAIN cs THEN Listed(cs, ev.to, ev.id) ELSE cs
        /\ IF ev.to \in DOMAIN cs THEN Shows(ev.to, shown[ev.to] \union {ev.id}) ELSE UNCHANGED shown
    BY <1>2, <1>7, <2>4, <2>6 DEF on_email_create_response
  <2>8. IsMails(mails')
    BY <1>1, <2>3, <2>7, MailsWith
  <2>9. IsClients(clients')
    <3>1. CASE ev.to \in DOMAIN cs
      <4>1. PICK S : S = cs[ev.to].received \union {ev.id}
        OBVIOUS
      <4>2. S \in SUBSET Nat
        BY <2>3, <2>5, <3>1, <4>1, NewEntry DEF IsClients
      <4>3. PICK k \in DOMAIN cs : k = ev.to
        BY <3>1
      <4>4. PICK r : r = clients' /\ Lists(cs, k, S, r)
        BY <2>7, <3>1, <4>1, <4>3 DEF Listed, Lists
      <4>5. IsClients(r)
        BY <2>5, <4>2, <4>3, <4>4, ListTyped
      <4> QED BY <4>4, <4>5
    <3> QED BY <2>5, <2>7, <3>1
  <2>10. shown' \in [Characters -> SUBSET Nat]
    <3>1. CASE ev.to \in DOMAIN cs
      <4>1. PICK S : S = shown[ev.to] \union {ev.id}
        OBVIOUS
      <4>2. CASE ev.to \in Characters
        <5>1. S \in SUBSET Nat
          BY <1>1, <2>3, <4>1, <4>2
        <5> QED BY <1>1, <2>7, <3>1, <4>1, <5>1, ShownTyped
      <4>3. CASE ev.to \notin Characters
        BY <1>1, <2>7, <3>1, <4>3 DEF Shows
      <4> QED BY <4>2, <4>3
    <3> QED BY <1>1, <2>7, <3>1
  <2>11. awaiting' \subseteq Characters
    BY <1>1, <2>7, ToldTyped
  <2> QED BY <1>1, <2>1, <2>7, <2>8, <2>9, <2>10, <2>11, HandlerTyped
<1>8. CASE on_email_header
  <2>1. Got("Header") /\ UNCHANGED <<maildb, awaiting>>
    BY <1>8 DEF on_email_header
  <2>2. ev \in Events /\ ev.type = "Header"
    BY <1>2, <2>1, GotEvent
  <2>3. ev.from \in Ids
    BY <1>3, <2>2, EventShape
  <2>4. PICK ids : ids = At(clients, ev.from, Phantom).received
    OBVIOUS
  <2>5. ids \in SUBSET Nat
    BY <1>1, <2>3, <2>4, NotYet, ClientsWith, NewEntry
  <2>6. /\ clients' = Touched(clients, ev.from, Phantom) /\ crashed' \in BOOLEAN
        /\ mails' = [id \in DOMAIN mails \union ids |-> At(mails, id, NoLetter)]
        /\ Shows(ev.from, ids)
    BY <1>2, <1>8, <2>4 DEF on_email_header
  <2>7. IsClients(clients')
    BY <1>1, <2>3, <2>6, NotYet, ClientsWith
  <2>8. IsMails(mails')
    <3> HIDE DEF NoLetter, Letters
    <3> QED BY <1>1, <2>5, <2>6, NotYet DEF IsMails, Mapping, At
  <2>9. shown' \in [Characters -> SUBSET Nat]
    BY <1>1, <2>5, <2>6, ShownTyped
  <2> QED BY <1>1, <2>1, <2>6, <2>7, <2>8, <2>9, HandlerTyped
<1>9. CASE on_email_read
  <2>1. Got("Read") /\ UNCHANGED <<shown, awaiting>>
    BY <1>9 DEF on_email_read
  <2>2. ev \in Events /\ ev.type = "Read"
    BY <1>2, <2>1, GotEvent
  <2>3. ev.id \in Nat
    BY <2>2, EventShape
  <2>4. PICK l \in Letters : l = At(mails, ev.id, NoLetter)
    BY <1>1, <2>3, NotYet, MailsWith
  <2>5. PICK l2 \in Letters : l2 = [l EXCEPT !.read = TRUE]
    BY NewLetter
  <2>6. l.to \in Ids
    BY NewLetter
  <2>7. PICK e \in Entry : e = At(clients, l.to, Phantom)
    BY <1>1, <2>6, NotYet, ClientsWith
  <2>8. PICK e2 \in Entry : e2 = [e EXCEPT !.received = e.received \ {ev.id}]
    BY NewEntry
  <2>9. PICK r \in Requests : r = [type |-> "MarkAsRead", id |-> ev.id]
    BY <2>3, MadeRequests
  <2>10. /\ mails' = With(mails, ev.id, l2) /\ clients' = With(clients, l.to, e2)
         /\ AskDatabase(r) /\ crashed' \in BOOLEAN
    BY <1>2, <1>9, <2>4, <2>5, <2>7, <2>8, <2>9 DEF on_email_read
  <2>11. IsMails(mails') /\ IsClients(clients')
    BY <1>1, <2>3, <2>6, <2>10, MailsWith, ClientsWith
  <2>12. maildb' \in Seq(Requests)
    BY <2>10, AskedRequest
  <2> QED BY <1>1, <2>1, <2>10, <2>11, <2>12, HandlerTyped
<1>10. CASE on_email_delete
  <2>1. Got("Delete") /\ UNCHANGED <<shown, awaiting, crashed>>
    BY <1>10 DEF on_email_delete
  <2>2. ev \in Events /\ ev.type = "Delete"
    BY <1>2, <2>1, GotEvent
  <2>3. ev.id \in Nat
    BY <2>2, EventShape
  <2>4. PICK l \in Letters : l = At(mails, ev.id, NoLetter)
    BY <1>1, <2>3, NotYet, MailsWith
  <2>5. l.from \in Ids /\ l.to \in Ids
    BY NewLetter
  <2>6. PICK cs : cs = Touched(Touched(clients, l.from, Phantom), l.to, Phantom)
    OBVIOUS
  <2>7. IsClients(cs) /\ l.to \in DOMAIN cs
    <3>1. PICK c1 : c1 = Touched(clients, l.from, Phantom)
      OBVIOUS
    <3>2. IsClients(c1)
      BY <1>1, <2>5, <3>1, NotYet, ClientsWith
    <3>3. cs = Touched(c1, l.to, Phantom)
      BY <2>6, <3>1
    <3>4. l.to \in DOMAIN cs
      BY <3>3 DEF Touched, With
    <3> QED BY <2>5, <3>2, <3>3, <3>4, NotYet, ClientsWith
  <2>8. PICK r \in Requests : r = [type |-> "Remove", id |-> ev.id]
    BY <2>3, MadeRequests
  <2>9. PICK S : S = cs[l.to].received \ {ev.id}
    OBVIOUS
  <2>10. S \in SUBSET Nat
    BY <2>7, <2>9, NewEntry DEF IsClients
  <2>11. /\ mails' = Without(mails, ev.id) /\ clients' = [cs EXCEPT ![l.to].received = S]
         /\ AskDatabase(r)
    BY <1>2, <1>10, <2>4, <2>6, <2>8, <2>9 DEF on_email_delete
  <2>12. IsMails(mails') /\ IsClients(clients')
    <3>1. IsMails(mails')
      BY <1>1, <2>3, <2>11, NotYet, MailsWith
    <3> QED BY <2>7, <2>10, <2>11, <3>1, ListSet
  <2>13. maildb' \in Seq(Requests)
    BY <2>11, AskedRequest
  <2> QED BY <1>1, <2>1, <2>11, <2>12, <2>13, HandlerTyped
<1>11. CASE on_client_connected
  <2>1. Got("Connected") /\ UNCHANGED <<mails, maildb, awaiting, crashed>>
    BY <1>11 DEF on_client_connected
  <2>2. ev \in Events /\ ev.type = "Connected"
    BY <1>2, <2>1, GotEvent
  <2>3. ev.from \in Characters /\ ev.from \in Ids
    BY <1>3, <2>2, EventShape DEF Reports
  <2>4. PICK ids : ids = {id \in DOMAIN mails : mails[id].to = ev.from}
    OBVIOUS
  <2>5. ids \in SUBSET Nat
    BY <1>1, <2>4 DEF IsMails
  <2>6. PICK e \in Entry : e = [known |-> TRUE, received |-> ids]
    BY <2>5 DEF Entry
  <2>7. /\ clients' = With(clients, ev.from, e)
        /\ shown' = [shown EXCEPT ![ev.from] = IF ev.from \in here THEN ids ELSE @]
    BY <1>2, <1>11, <2>4, <2>6 DEF on_client_connected
  <2>8. IsClients(clients')
    BY <1>1, <2>3, <2>7, ClientsWith
  <2>9. shown' \in [Characters -> SUBSET Nat]
    BY <1>1, <2>3, <2>5, <2>7
  <2> QED BY <1>1, <2>1, <2>8, <2>9, HandlerTyped
<1>12. CASE on_client_disconnected
  <2>1. Got("Disconnected") /\ UNCHANGED <<mails, maildb, shown, awaiting, crashed>>
    BY <1>12 DEF on_client_disconnected
  <2>2. ev \in Events /\ ev.type = "Disconnected"
    BY <1>2, <2>1, GotEvent
  <2>3. ev.from \in Ids
    BY <1>3, <2>2, EventShape DEF Reports
  <2>4. clients' = Without(clients, ev.from)
    BY <1>2, <1>12 DEF on_client_disconnected
  <2>5. IsClients(clients')
    BY <1>1, <2>3, <2>4, NotYet, ClientsWith
  <2> QED BY <1>1, <2>1, <2>5, HandlerTyped
<1>13. CASE on_get_emails_response
  <2>1. Got("Emails") /\ UNCHANGED <<clients, maildb, shown, awaiting, crashed>>
    BY <1>13 DEF on_get_emails_response
  <2>2. IsMails(dbmails)
    BY TypedParts DEF Queued
  <2>3. mails' = [id \in DOMAIN mails \union DOMAIN dbmails |->
                    IF id \in DOMAIN dbmails THEN dbmails[id] ELSE mails[id]]
    BY <1>13 DEF on_get_emails_response
  <2>4. IsMails(mails')
    <3> HIDE DEF Letters
    <3> QED BY <1>1, <2>2, <2>3 DEF IsMails, Mapping
  <2> QED BY <1>1, <2>1, <2>4, HandlerTyped
<1> QED BY <1>4, <1>5, <1>6, <1>7, <1>8, <1>9, <1>10, <1>11, <1>12, <1>13

(* The database serves a request; letters are numbered without gaps.       *)
LEMMA NextLetter ==
    ASSUME NEW n \in Nat, DOMAIN dbmails = 1..n
    PROVE  Cardinality(DOMAIN dbmails) + 1 = n + 1
<1>1. Cardinality(1..n) = n
  BY FS_Interval
<1> QED BY <1>1

LEMMA DatabaseTyped ==
    ASSUME MailTyped,
           fillEmailRecipientId \/ createEmail \/ markEmailAsRead \/ deleteEmail \/ getEmails
    PROVE  MailTyped'
<1>1. /\ IsMails(dbmails) /\ mailq \in Seq(Events)
      /\ \E n \in Nat : DOMAIN dbmails = 1..n
  BY TypedParts DEF Queued
<1>2. PICK r : r = Head(maildb)
  OBVIOUS
<1>3. ASSUME NEW type, Serves(type), mailq' \in Seq(Events), IsMails(dbmails'),
             \E n \in Nat : DOMAIN dbmails' = 1..n
      PROVE  MailTyped'
  <2>1. maildb' \in Seq(Requests)
    BY <1>3, ServedRequest
  <2>2. UNCHANGED <<here, clients, mails, bus, shown, awaiting, crashed>>
    BY <1>3 DEF Serves
  <2> HIDE DEF Events, Requests, ReportEvents, Letters, Entry
  <2> QED BY <1>3, <2>1, <2>2 DEF MailTyped, IsMails, Mapping
<1>4. Characters \subseteq Ids
  BY DEF Ids
<1>5. CASE fillEmailRecipientId
  <2>1. Serves("Fill") /\ UNCHANGED dbmails
    BY <1>5 DEF fillEmailRecipientId
  <2>2. r \in Requests /\ r.type = "Fill"
    BY <1>2, <2>1, ServedRequest
  <2>3. r.from \in Characters /\ r.to \in Ids
        /\ [r EXCEPT !.type = "Filled"] = [type |-> "Filled", from |-> r.from, to |-> r.to]
    BY <2>2, RequestShape
  <2>4. PICK ev \in Events : ev = IF r.to \in Characters THEN [r EXCEPT !.type = "Filled"]
                                  ELSE [type |-> "FillError", from |-> r.from]
    <3>1. /\ [type |-> "Filled", from |-> r.from, to |-> r.to] \in Events
          /\ [type |-> "FillError", from |-> r.from] \in Events
      BY <2>3, MadeEvents
    <3> HIDE DEF Events
    <3> QED BY <2>3, <3>1
  <2>5. PostMail(ev)
    BY <1>2, <1>5, <2>4 DEF fillEmailRecipientId
  <2>6. mailq' \in Seq(Events)
    BY <2>5, PostedEvent
  <2> QED BY <1>1, <1>3, <2>1, <2>6
<1>6. CASE createEmail
  <2>1. Serves("Create")
    BY <1>6 DEF createEmail
  <2>2. r \in Requests /\ r.type = "Create"
    BY <1>2, <2>1, ServedRequest
  <2>3. r.from \in Characters /\ r.to \in Ids
    BY <2>2, RequestShape
  <2>4. PICK n \in Nat : DOMAIN dbmails = 1..n
    BY <1>1
  <2>5. Cardinality(DOMAIN dbmails) + 1 = n + 1
    BY <2>4, NextLetter
  <2>6. CASE UNCHANGED <<dbmails, mailq>>
    BY <1>1, <1>3, <2>1, <2>6
  <2>7. CASE ~UNCHANGED <<dbmails, mailq>>
    <3>1. PICK l \in Letters : l = [from |-> r.from, to |-> r.to, read |-> FALSE]
      BY <1>4, <2>3 DEF Letters
    <3>2. PICK ev \in Events : ev = [type |-> "Created", from |-> r.from, to |-> r.to, id |-> n + 1]
      <4>1. n + 1 \in Nat
        OBVIOUS
      <4>2. [type |-> "Created", from |-> r.from, to |-> r.to, id |-> n + 1] \in Events
        BY <2>3, <4>1, MadeEvents
      <4> QED BY <4>2
    <3>3. dbmails' = With(dbmails, n + 1, l) /\ PostMail(ev)
      BY <1>2, <1>6, <2>5, <2>7, <3>1, <3>2 DEF createEmail
    <3>4. mailq' \in Seq(Events)
      BY <3>3, PostedEvent
    <3>5. IsMails(dbmails')
      BY <1>1, <3>3, MailsWith
    <3>6. DOMAIN dbmails' = 1..(n + 1)
      <4>1. 1..(n + 1) = (1..n) \union {n + 1}
        OBVIOUS
      <4> QED BY <2>4, <3>3, <4>1 DEF With
    <3> QED BY <1>3, <2>1, <3>4, <3>5, <3>6
  <2> QED BY <2>6, <2>7
<1>7. CASE markEmailAsRead
  <2>1. Serves("MarkAsRead") /\ UNCHANGED mailq
    BY <1>7 DEF markEmailAsRead
  <2>2. dbmails' = [id \in DOMAIN dbmails |->
                      IF id = r.id THEN [dbmails[id] EXCEPT !.read = TRUE] ELSE dbmails[id]]
    BY <1>2, <1>7 DEF markEmailAsRead
  <2>3. DOMAIN dbmails' = DOMAIN dbmails
    BY <2>2
  <2>4. IsMails(dbmails')
    <3>1. \A id \in DOMAIN dbmails : [dbmails[id] EXCEPT !.read = TRUE] \in Letters
      BY <1>1, NewLetter DEF IsMails
    <3> HIDE DEF Letters
    <3> QED BY <1>1, <2>2, <2>3, <3>1 DEF IsMails, Mapping
  <2> QED BY <1>1, <1>3, <2>1, <2>3, <2>4
<1>8. CASE deleteEmail
  BY <1>1, <1>3, <1>8 DEF deleteEmail
<1>9. CASE getEmails
  <2>1. Serves("GetEmails") /\ UNCHANGED dbmails
    BY <1>9 DEF getEmails
  <2>2. PICK ev \in Events : ev = [type |-> "Emails", from |-> NoOne]
    BY DEF Events
  <2>3. PostMail(ev)
    BY <1>9, <2>2 DEF getEmails
  <2>4. mailq' \in Seq(Events)
    BY <2>3, PostedEvent
  <2> QED BY <1>1, <1>3, <2>1, <2>4
<1> QED BY <1>5, <1>6, <1>7, <1>8, <1>9

-----------------------------------------------------------------------------
(* The invariant of the mail                                               *)

AskEmails == [type |-> "GetEmails"]

EmailsCame == [type |-> "Emails", from |-> NoOne]

Loads == AskEmails \in Asks \/ EmailsCame \in Posts

Marking(id) == [type |-> "MarkAsRead", id |-> id] \in Asks

(* A letter some client or some event knows by its number                  *)
Numbered(id) ==
    \/ Marking(id) \/ \E c \in Characters : id \in shown[c]
    \/ \E ev \in Posts : ev.type \in {"Read", "Delete"} /\ ev.id = id

EventsOf(types) == {ev \in Events : ev.type \in types}

CreatedAs(id) == {ev \in Events : ev.type = "Created" /\ ev.id = id}

LetterOf(c) == {ev \in Events : ev.type \in {"Send", "Filled", "FillError", "Created"} /\ ev.from = c}

RequestOf(c) == {r \in Requests : r.type \in {"Fill", "Create"} /\ r.from = c}

(* The letters the handler keeps are in the database; one that is read on  *)
(* one side only is about to be marked.  The lists have letters that are   *)
(* kept, for the client whose list it is.                                  *)
Kept ==
    /\ \A id \in DOMAIN mails :
          /\ id \in DOMAIN dbmails
          /\ mails[id].from = dbmails[id].from /\ mails[id].to = dbmails[id].to
          /\ mails[id].read = dbmails[id].read \/ Marking(id)
          /\ Marking(id) => mails[id].read
    /\ \A c \in DOMAIN clients : \A id \in clients[c].received :
          id \in DOMAIN mails /\ mails[id].to = c

Stored == \A id : Numbered(id) => id \in DOMAIN dbmails

(* A letter the handler has not heard of yet is in the database as it was  *)
(* written, and known to nobody else.                                      *)
Fresh ==
    \A ev \in Posts : ev.type = "Created" =>
        /\ ev.id \in DOMAIN dbmails
        /\ dbmails[ev.id].from = ev.from /\ dbmails[ev.id].to = ev.to /\ ~dbmails[ev.id].read
        /\ ev.id \notin DOMAIN mails /\ ~Numbered(ev.id)

OneByOne == \A id : Single(mailq, CreatedAs(id))

(* Until the letters have been loaded there are none.                      *)
StillEmpty ==
    Loads =>
        /\ DOMAIN mails = {} /\ \A c \in Characters : shown[c] = {}
        /\ \A ev \in Posts : ev.type \notin {"Created", "Read", "Delete"}
        /\ \A r \in Asks : r.type \notin {"Create", "MarkAsRead", "Remove"}
        /\ AskEmails \in Asks => \A ev \in Posts : ev.type \notin {"Filled", "FillError", "Emails"}
        /\ "early" \notin habit =>
              /\ here = {} /\ Rides = {} /\ \A ev \in Posts : ev.type \notin Reports
              /\ \A c \in DOMAIN clients : ~clients[c].known

LoadsFirst ==
    /\ First(maildb, {AskEmails}, Requests)
    /\ First(mailq, {EmailsCame}, EventsOf({"Filled", "FillError", "Emails"}))

NoneLost ==
    "deletes" \notin habit =>
        /\ ~Loads => \A id \in DOMAIN dbmails :
              id \in DOMAIN mails \/ \E ev \in Posts : ev.type = "Created" /\ ev.id = id
        /\ \A c \in Characters : \A id \in shown[c] : id \in DOMAIN mails /\ mails[id].to = c
        /\ \A ev \in Posts :
              /\ ev.type = "Read" => ev.id \in DOMAIN mails /\ mails[ev.id].to = ev.from
              /\ ev.type # "Delete"

UnreadListed ==
    "early" \notin habit => \A c \in DOMAIN clients : clients[c].known =>
        \A id \in DOMAIN mails : mails[id].to = c /\ ~mails[id].read => id \in clients[c].received

Follows ==
    /\ \A c \in Characters : After(bus, c, After(mailq, c, HasMap(clients, c))) <=> c \in here
    /\ ~HasMap(clients, NoOne)

Busy(c) == c \in awaiting \/ \E ev \in Posts : ev.from = c /\ ev.type \notin Reports

Quiet(c) == \A ev \in Posts \union Rides : ev.from = c => ev.type \notin Reports

Posting(c) == \E ev \in Posts : ev \in LetterOf(c)

Asking(c) == \E r \in Asks : r \in RequestOf(c)

(* A client that waits for its answers is there while it does, and has one *)
(* letter on its way at most.                                              *)
Waiting(c) ==
    /\ Busy(c) => c \in here /\ Quiet(c)
    /\ Single(mailq, LetterOf(c)) /\ Single(maildb, RequestOf(c))
    /\ ~(Posting(c) /\ Asking(c))
    /\ Posting(c) \/ Asking(c) => c \in awaiting
    /\ "dberror" \notin habit /\ c \in awaiting => Posting(c) \/ Asking(c)

Patient == "hasty" \notin habit => \A c \in Characters : Waiting(c)

Sound ==
    /\ Kept /\ Stored /\ Fresh /\ OneByOne /\ StillEmpty /\ LoadsFirst
    /\ NoneLost /\ UnreadListed /\ Follows /\ Patient

Clean ==
    habit \intersect {"hasty", "deletes"} = {} =>
        ~crashed /\ \A c \in DOMAIN clients : clients[c].known

MailInv == MailTyped /\ (~crashed => Sound) /\ Clean

LEMMA QueueElements ==
    ASSUME MailTyped
    PROVE  Posts \subseteq Events /\ Asks \subseteq Requests /\ Rides \subseteq ReportEvents
<1>1. /\ mailq \in Seq(Events) /\ maildb \in Seq(Requests) /\ bus \in Seq(ReportEvents)
  BY DEF MailTyped
<1>2. \A S : \A s \in Seq(S) : ToSet(s) \subseteq S
  BY DEF ToSet
<1> QED BY <1>1, <1>2 DEF Posts, Asks, Rides

LEMMA SeqDomain ==
    ASSUME NEW S, NEW s \in Seq(S)
    PROVE  \E n \in Nat : DOMAIN s = 1..n
OBVIOUS

LEMMA LoadingIs ==
    ASSUME MailTyped
    PROVE  Loading <=> Loads
<1>3. \A r \in Asks : r.type = "GetEmails" <=> r = AskEmails
  <2>1. AskEmails.type = "GetEmails"
    BY DEF AskEmails
  <2>2. \A r \in Requests : r.type = "GetEmails" => r = AskEmails
    BY RequestShape DEF AskEmails
  <2> QED BY <2>1, <2>2, QueueElements
<1>4. \A ev \in Posts : ev.type = "Emails" <=> ev = EmailsCame
  <2>1. EmailsCame.type = "Emails"
    BY DEF EmailsCame
  <2>2. \A ev \in Events : ev.type = "Emails" => ev = EmailsCame
    BY EventShape DEF EmailsCame
  <2> QED BY <2>1, <2>2, QueueElements
<1>5. Asks = {maildb[i] : i \in DOMAIN maildb} /\ Posts = {mailq[i] : i \in DOMAIN mailq}
  BY DEF Asks, Posts, ToSet
<1> QED BY <1>3, <1>4, <1>5 DEF Loading, Loads

Idle(c) == c \notin awaiting /\ \A ev \in Posts \union Rides : ev.from # c

(* A player who waits for its answers acts when none is outstanding.       *)
LEMMA PatientPlayer ==
    ASSUME MailTyped, NEW c, MayAct(c), "hasty" \notin habit
    PROVE  Idle(c)
<1>1. PICK m \in Nat : DOMAIN bus = 1..m
  BY TypedParts, SeqDomain DEF Queued
<1>2. PICK n \in Nat : DOMAIN mailq = 1..n
  BY TypedParts, SeqDomain DEF Queued
<1>3. PICK A : A = Of(mailq, c)
  OBVIOUS
<1>4. PICK B : B = Of(bus, c)
  OBVIOUS
<1>5. IsFiniteSet(A) /\ IsFiniteSet(B)
  <2>1. IsFiniteSet(1..n) /\ IsFiniteSet(1..m)
    BY FS_Interval
  <2>2. A \subseteq 1..n /\ B \subseteq 1..m
    BY <1>1, <1>2, <1>3, <1>4 DEF Of
  <2> QED BY <2>1, <2>2, FS_Subset
<1>6. Cardinality(A) \in Nat /\ Cardinality(B) \in Nat
  BY <1>5, FS_CardinalityType
<1>7. Cardinality(A) + Cardinality(B) + (IF c \in awaiting THEN 1 ELSE 0) < 1
  BY <1>3, <1>4 DEF MayAct, Pending
<1>8. Cardinality(A) = 0 /\ Cardinality(B) = 0 /\ c \notin awaiting
  BY <1>6, <1>7
<1>9. A = {} /\ B = {}
  BY <1>5, <1>8, FS_EmptySet
<1> QED BY <1>1, <1>2, <1>3, <1>4, <1>8, <1>9 DEF Idle, Of, Posts, Rides, ToSet

LEMMA HasMapIs ==
    ASSUME NEW cs, IsClients(cs), NEW c
    PROVE  HasMap(cs, c) <=> c \in DOMAIN cs /\ cs[c].known
BY DEF HasMap, At, Phantom

(* A report is a report of one client.                                     *)
LEMMA ReportIs ==
    ASSUME NEW ev \in Events, NEW c
    PROVE  Report(ev, c) <=> ev.type \in Reports /\ ev.from = c
<1>1. ASSUME ev.type \in Reports, ev.from = c PROVE Report(ev, c)
  <2>1. ev = [type |-> ev.type, from |-> c]
    BY <1>1, EventShape
  <2> QED BY <1>1, <2>1 DEF Report, Reports
<1>2. ASSUME Report(ev, c) PROVE ev.type \in Reports /\ ev.from = c
  BY <1>2 DEF Report, Reports
<1> QED BY <1>1, <1>2

(* A player asks something of the service.                                 *)
LEMMA CommandSound ==
    ASSUME MailTyped, Sound, NEW c \in Characters, c \in here, "hasty" \notin habit => Idle(c),
           NEW ev \in Events, PostMail(ev), ev.from = c,
           ev.type \in {"Send", "Header", "Read", "Delete"}, UNCHANGED playerRest,
           \A d \in Characters : shown'[d] \subseteq shown[d],
           ev.type \in {"Read", "Delete"} => ev.id \in shown[c],
           ev.type = "Delete" => "deletes" \in habit,
           awaiting' = IF ev.type = "Send" THEN awaiting \union {c} ELSE awaiting
    PROVE  Sound'
<1> USE QueueElements DEF Sound
<1>1. /\ Posts' = Posts \union {ev} /\ Asks' = Asks /\ Rides' = Rides
      /\ PutsOn(ev, mailq, mailq')
      /\ \A d, b : After(mailq', d, b)
                   = IF Report(ev, d) THEN ev.type = "Connected" ELSE After(mailq, d, b)
  BY PostedEvent DEF playerRest, Asks, Rides
<1>2. UNCHANGED <<here, clients, mails, dbmails, maildb, bus, habit>>
  BY DEF playerRest
<1>3. Loads' <=> Loads
  BY <1>1 DEF Loads, EmailsCame
<1>4. \A id : Marking(id)' <=> Marking(id)
  BY <1>1 DEF Marking
<1>5. \A id : Numbered(id)' => Numbered(id)
  BY <1>1, <1>4 DEF Numbered
<1>6. Kept'
  BY <1>2, <1>4 DEF Kept
<1>7. Stored'
  BY <1>2, <1>5 DEF Stored
<1>8. Fresh'
  BY <1>1, <1>2, <1>5 DEF Fresh
<1>9. OneByOne'
  BY <1>1 DEF OneByOne, PutsOn, CreatedAs
<1>10. StillEmpty'
  BY <1>1, <1>2, <1>3 DEF StillEmpty, Reports
<1>11. LoadsFirst'
  BY <1>1, <1>2 DEF LoadsFirst, PutsOn, EmailsCame
<1>12. NoneLost'
  BY <1>1, <1>2, <1>3 DEF NoneLost
<1>13. UnreadListed'
  BY <1>2 DEF UnreadListed
<1>14. Follows'
  <2>1. \A d : ~Report(ev, d)
    BY ReportIs DEF Reports
  <2> QED BY <1>1, <1>2, <2>1 DEF Follows
<1>15. ASSUME "hasty" \notin habit, NEW d \in Characters PROVE Waiting(d)'
  <2>1. Waiting(d) /\ Idle(c)
    BY <1>15 DEF Patient
  <2>2. Posting(d)' <=> Posting(d) \/ (ev.type = "Send" /\ d = c)
    BY <1>1 DEF Posting, LetterOf
  <2>3. Asking(d)' <=> Asking(d)
    BY <1>1 DEF Asking
  <2>4. Busy(d)' => d \in here /\ Quiet(d)
    BY <1>1, <2>1 DEF Busy, Waiting, Idle, Quiet
  <2>5. (Busy(d) => d \in here /\ Quiet(d))'
    BY <1>1, <1>2, <2>4 DEF Quiet, Reports
  <2>6. Single(mailq, LetterOf(d))' /\ Single(maildb, RequestOf(d))'
    <3>1. ev \notin LetterOf(d) \/ Posts \intersect LetterOf(d) = {}
      BY <2>1 DEF Idle, LetterOf
    <3> QED BY <1>1, <1>2, <2>1, <3>1 DEF Waiting, PutsOn, Posts
  <2>7. d = c => ~Posting(d) /\ ~Asking(d)
    BY <2>1 DEF Waiting, Idle
  <2> QED BY <1>2, <2>1, <2>2, <2>3, <2>5, <2>6, <2>7 DEF Waiting
<1>16. Patient'
  BY <1>2, <1>15 DEF Patient
<1> QED BY <1>6, <1>7, <1>8, <1>9, <1>10, <1>11, <1>12, <1>13, <1>14, <1>16

LEMMA PlayersSound ==
    ASSUME MailTyped, Sound, NEW c \in Characters, NEW to \in Ids, NEW id \in Nat,
           \/ EmailSend(c, to) \/ EmailRead(c, id) \/ EmailDelete(c, id) \/ EmailHeaders(c)
    PROVE  Sound'
<1>1. MayAct(c)
  BY DEF EmailSend, EmailRead, EmailDelete, EmailHeaders
<1>2. c \in here /\ ("hasty" \notin habit => Idle(c))
  BY <1>1, PatientPlayer DEF MayAct
<1>3. shown \in [Characters -> SUBSET Nat]
  BY DEF MailTyped
<1>4. CASE EmailSend(c, to)
  <2>1. PICK ev \in Events : ev = [type |-> "Send", from |-> c, to |-> to]
    BY MadeEvents
  <2>2. /\ PostMail(ev) /\ UNCHANGED playerRest /\ UNCHANGED shown
        /\ awaiting' = awaiting \union {c}
    BY <1>4, <2>1 DEF EmailSend
  <2>3. ev.from = c /\ ev.type = "Send"
    BY <2>1
  <2> QED BY <1>2, <2>2, <2>3, CommandSound
<1>5. CASE EmailRead(c, id)
  <2>1. PICK ev \in Events : ev = [type |-> "Read", from |-> c, id |-> id]
    BY MadeEvents
  <2>2. /\ PostMail(ev) /\ UNCHANGED playerRest /\ UNCHANGED <<shown, awaiting>> /\ id \in shown[c]
    BY <1>5, <2>1 DEF EmailRead
  <2>3. ev.from = c /\ ev.type = "Read" /\ ev.id = id
    BY <2>1
  <2> QED BY <1>2, <2>2, <2>3, CommandSound
<1>6. CASE EmailDelete(c, id)
  <2>1. PICK ev \in Events : ev = [type |-> "Delete", from |-> c, id |-> id]
    BY MadeEvents
  <2>2. /\ PostMail(ev) /\ UNCHANGED playerRest /\ UNCHANGED awaiting /\ id \in shown[c]
        /\ shown' = [shown EXCEPT ![c] = @ \ {id}] /\ "deletes" \in habit
    BY <1>6, <2>1 DEF EmailDelete
  <2>3. ev.from = c /\ ev.type = "Delete" /\ ev.id = id
    BY <2>1
  <2>4. \A d \in Characters : shown'[d] \subseteq shown[d]
    BY <1>3, <2>2
  <2> QED BY <1>2, <2>2, <2>3, <2>4, CommandSound
<1>7. CASE EmailHeaders(c)
  <2>1. PICK ev \in Events : ev = [type |-> "Header", from |-> c]
    BY MadeEvents
  <2>2. /\ PostMail(ev) /\ UNCHANGED playerRest /\ UNCHANGED <<shown, awaiting>>
    BY <1>7, <2>1 DEF EmailHeaders
  <2>3. ev.from = c /\ ev.type = "Header"
    BY <2>1
  <2> QED BY <1>2, <2>2, <2>3, CommandSound
<1> QED BY <1>4, <1>5, <1>6, <1>7

(* A report is put on its way.                                             *)
LEMMA Reported ==
    ASSUME MailTyped, NEW ev \in ReportEvents, bus' = Append(bus, ev)
    PROVE  /\ Rides' = Rides \union {ev}
           /\ \A d, b : After(bus', d, b)
                        = IF Report(ev, d) THEN ev.type = "Connected" ELSE After(bus, d, b)
<1>1. bus \in Seq(ReportEvents)
  BY DEF MailTyped
<1>2. PICK t : t = Append(bus, ev)
  OBVIOUS
<1>3. ToSet(t) = ToSet(bus) \union {ev}
  BY <1>1, <1>2, Added
<1>4. \A d, b : After(t, d, b) = IF Report(ev, d) THEN ev.type = "Connected" ELSE After(bus, d, b)
  BY <1>1, <1>2, AfterAppend
<1> QED BY <1>2, <1>3, <1>4 DEF Rides

LEMMA EntersSound ==
    ASSUME MailTyped, Sound, NEW c \in Characters, MailEnters(c)
    PROVE  Sound'
<1> USE QueueElements DEF Sound
<1>1. PICK ev \in ReportEvents : ev = [type |-> "Connected", from |-> c]
  BY DEF ReportEvents
<1>2. ev.type = "Connected" /\ ev.from = c /\ ev \in Events
  BY <1>1, MadeEvents DEF Ids
<1>3. /\ Rides' = Rides \union {ev} /\ Posts' = Posts /\ Asks' = Asks
      /\ \A d, b : After(bus', d, b)
                   = IF Report(ev, d) THEN ev.type = "Connected" ELSE After(bus, d, b)
  BY <1>1, Reported DEF MailEnters, Posts, Asks
<1>4. /\ UNCHANGED <<clients, mails, dbmails, mailq, maildb, shown, awaiting, habit>>
      /\ c \notin here /\ here' = here \union {c}
  BY DEF MailEnters, Enters
<1>5. Loads' <=> Loads
  BY <1>3 DEF Loads, EmailsCame
<1>6. \A id : (Marking(id)' <=> Marking(id)) /\ (Numbered(id)' <=> Numbered(id))
  BY <1>3, <1>4 DEF Marking, Numbered
<1>7. Kept' /\ Stored' /\ UnreadListed'
  BY <1>4, <1>6 DEF Kept, Stored, UnreadListed
<1>8. Fresh'
  BY <1>3, <1>4, <1>6 DEF Fresh
<1>9. OneByOne' /\ LoadsFirst'
  BY <1>4 DEF OneByOne, LoadsFirst, CreatedAs, EmailsCame
<1>10. StillEmpty'
  <2>1. "early" \in habit \/ ~Loads
    BY LoadingIs DEF MailEnters
  <2> QED BY <1>3, <1>4, <1>5, <2>1 DEF StillEmpty
<1>11. NoneLost'
  BY <1>3, <1>4, <1>5 DEF NoneLost
<1>12. Follows'
  <2>1. \A d : Report(ev, d) <=> d = c
    BY <1>2, ReportIs DEF Reports
  <2>2. ASSUME NEW d \in Characters
        PROVE  (After(bus, d, After(mailq, d, HasMap(clients, d))) <=> d \in here)'
    <3>1. PICK b : b = After(mailq, d, HasMap(clients, d))
      OBVIOUS
    <3>2. After(bus, d, b) <=> d \in here
      BY <3>1 DEF Follows
    <3>3. After(bus', d, b) <=> d \in here'
      BY <1>2, <1>3, <1>4, <2>1, <3>2
    <3> QED BY <1>4, <3>1, <3>3
  <2> QED BY <1>4, <2>2 DEF Follows
<1>13. ASSUME "hasty" \notin habit, NEW d \in Characters PROVE Waiting(d)'
  <2>1. Waiting(d)
    BY <1>13 DEF Patient
  <2>2. (Busy(d)' <=> Busy(d)) /\ (Posting(d)' <=> Posting(d)) /\ (Asking(d)' <=> Asking(d))
    BY <1>3, <1>4 DEF Busy, Posting, Asking
  <2>3. d \in here /\ Quiet(d) => Quiet(d)'
    BY <1>2, <1>3, <1>4 DEF Quiet
  <2> QED BY <1>4, <2>1, <2>2, <2>3 DEF Waiting
<1>14. Patient'
  BY <1>4, <1>13 DEF Patient
<1> QED BY <1>7, <1>8, <1>9, <1>10, <1>11, <1>12, <1>14

LEMMA LeavesSound ==
    ASSUME MailTyped, Sound, NEW c \in Characters, MailLeaves(c)
    PROVE  Sound'
<1> USE QueueElements DEF Sound
<1>1. PICK ev \in ReportEvents : ev = [type |-> "Disconnected", from |-> c]
  BY DEF ReportEvents
<1>2. ev.type = "Disconnected" /\ ev.from = c /\ ev \in Events
  BY <1>1, MadeEvents DEF Ids
<1>3. /\ Rides' = Rides \union {ev} /\ Posts' = Posts /\ Asks' = Asks
      /\ \A d, b : After(bus', d, b)
                   = IF Report(ev, d) THEN ev.type = "Connected" ELSE After(bus, d, b)
  BY <1>1, Reported DEF MailLeaves, Posts, Asks
<1>4. /\ UNCHANGED <<clients, mails, dbmails, mailq, maildb, habit>>
      /\ here' = here \ {c} /\ c \in here /\ awaiting' = awaiting \ {c}
  BY DEF MailLeaves, Leaves, MayAct
<1>5. \A d \in Characters : shown'[d] \subseteq shown[d]
  BY DEF MailLeaves, MailTyped
<1>6. "hasty" \notin habit => Idle(c)
  BY PatientPlayer DEF MailLeaves
<1>7. Loads' <=> Loads
  BY <1>3 DEF Loads, EmailsCame
<1>8. \A id : (Marking(id)' <=> Marking(id)) /\ (Numbered(id)' => Numbered(id))
  BY <1>3, <1>5 DEF Marking, Numbered
<1>9. Kept' /\ Stored' /\ UnreadListed'
  BY <1>4, <1>8 DEF Kept, Stored, UnreadListed
<1>10. Fresh'
  BY <1>3, <1>4, <1>8 DEF Fresh
<1>11. OneByOne' /\ LoadsFirst'
  BY <1>4 DEF OneByOne, LoadsFirst, CreatedAs, EmailsCame
<1>12. StillEmpty'
  <2>1. "early" \in habit \/ ~Loads
    BY <1>4 DEF StillEmpty
  <2> QED BY <1>3, <1>4, <1>5, <1>7, <2>1 DEF StillEmpty
<1>13. NoneLost'
  BY <1>3, <1>4, <1>5, <1>7 DEF NoneLost
<1>14. Follows'
  <2>1. \A d : Report(ev, d) <=> d = c
    BY <1>2, ReportIs DEF Reports
  <2> QED BY <1>2, <1>3, <1>4, <2>1 DEF Follows
<1>15. ASSUME "hasty" \notin habit, NEW d \in Characters PROVE Waiting(d)'
  <2>1. Waiting(d) /\ Idle(c)
    BY <1>6, <1>15 DEF Patient
  <2>2. (Posting(d)' <=> Posting(d)) /\ (Asking(d)' <=> Asking(d))
    BY <1>3, <1>4 DEF Posting, Asking
  <2>3. Busy(d)' => Busy(d) /\ d # c
    BY <1>3, <1>4, <2>1 DEF Busy, Idle
  <2>4. d # c /\ Quiet(d) => Quiet(d)'
    BY <1>2, <1>3 DEF Quiet
  <2>5. d = c => ~Posting(d) /\ ~Asking(d)
    BY <2>1 DEF Waiting, Idle
  <2> QED BY <1>4, <2>1, <2>2, <2>3, <2>4, <2>5 DEF Waiting
<1>16. Patient'
  BY <1>4, <1>15 DEF Patient
<1> QED BY <1>9, <1>10, <1>11, <1>12, <1>13, <1>14, <1>16

LEMMA DeliverySound ==
    ASSUME MailTyped, Sound, BusDelivers
    PROVE  Sound'
<1> USE QueueElements DEF Sound
<1>1. bus \in Seq(ReportEvents) /\ bus # << >>
  BY DEF MailTyped, BusDelivers
<1>2. PICK ev \in ReportEvents : ev = Head(bus)
  BY <1>1, Taken
<1>3. ev.type \in Reports /\ ev.from \in Characters /\ ev \in Events
  BY <1>2, MadeEvents DEF ReportEvents, Reports, Events
<1>4. PICK t : t = Tail(bus)
  OBVIOUS
<1>5. ToSet(bus) = {ev} \union ToSet(t)
  BY <1>1, <1>2, <1>4, Taken
<1>6. \A d, b : After(bus, d, b)
                = After(t, d, IF Report(ev, d) THEN ev.type = "Connected" ELSE b)
  BY <1>1, <1>2, <1>4, AfterTail
<1>7. PostMail(ev) /\ bus' = t
  BY <1>2, <1>4 DEF BusDelivers
<1>8. /\ Posts' = Posts \union {ev} /\ Asks' = Asks /\ Rides = {ev} \union Rides'
      /\ PutsOn(ev, mailq, mailq')
      /\ \A d, b : After(mailq', d, b)
                   = IF Report(ev, d) THEN ev.type = "Connected" ELSE After(mailq, d, b)
  BY <1>3, <1>5, <1>7, PostedEvent DEF BusDelivers, Asks, Rides
<1>9. UNCHANGED <<here, clients, mails, dbmails, maildb, shown, awaiting, habit>>
  BY DEF BusDelivers
<1>10. Loads' <=> Loads
  BY <1>3, <1>8 DEF Loads, EmailsCame, Reports
<1>11. \A id : (Marking(id)' <=> Marking(id)) /\ (Numbered(id)' <=> Numbered(id))
  BY <1>3, <1>8, <1>9 DEF Marking, Numbered, Reports
<1>12. Kept' /\ Stored' /\ UnreadListed'
  BY <1>9, <1>11 DEF Kept, Stored, UnreadListed
<1>13. Fresh'
  BY <1>3, <1>8, <1>9, <1>11 DEF Fresh, Reports
<1>14. OneByOne'
  BY <1>3, <1>8 DEF OneByOne, PutsOn, CreatedAs, Reports
<1>15. LoadsFirst'
  BY <1>3, <1>8, <1>9 DEF LoadsFirst, PutsOn, EmailsCame, Reports
<1>16. StillEmpty'
  <2>1. "early" \in habit \/ ~Loads
    BY <1>8 DEF StillEmpty
  <2> QED BY <1>3, <1>8, <1>9, <1>10, <2>1 DEF StillEmpty, Reports
<1>17. NoneLost'
  BY <1>3, <1>8, <1>9, <1>10 DEF NoneLost, Reports
<1>18. Follows'
  <2>1. ASSUME NEW d, NEW b PROVE After(bus', d, After(mailq', d, b)) = After(bus, d, After(mailq, d, b))
    <3>1. PICK a : a = After(mailq, d, b)
      OBVIOUS
    <3>2. After(mailq', d, b) = IF Report(ev, d) THEN ev.type = "Connected" ELSE a
      BY <1>8, <3>1
    <3> QED BY <1>6, <1>7, <3>1, <3>2
  <2> QED BY <1>9, <2>1 DEF Follows
<1>19. ASSUME "hasty" \notin habit, NEW d \in Characters PROVE Waiting(d)'
  <2>1. Waiting(d)
    BY <1>19 DEF Patient
  <2>2. (Busy(d)' <=> Busy(d)) /\ (Posting(d)' <=> Posting(d)) /\ (Asking(d)' <=> Asking(d))
    BY <1>3, <1>8, <1>9 DEF Busy, Posting, Asking, LetterOf, Reports
  <2>3. Quiet(d) => Quiet(d)'
    BY <1>8 DEF Quiet
  <2>4. Single(mailq, LetterOf(d))'
    <3>1. ev \notin LetterOf(d)
      BY <1>3 DEF LetterOf, Reports
    <3> QED BY <1>8, <2>1, <3>1 DEF Waiting, PutsOn, LetterOf
  <2> QED BY <1>9, <2>1, <2>2, <2>3, <2>4 DEF Waiting
<1>20. Patient'
  BY <1>9, <1>19 DEF Patient
<1> QED BY <1>12, <1>13, <1>14, <1>15, <1>16, <1>17, <1>18, <1>20

-----------------------------------------------------------------------------
(* A handler takes an event off its queue: what that keeps, whichever      *)
(* handler it is                                                           *)

(* What the handler asks of the database, if anything                      *)
Asked(types) ==
    \/ UNCHANGED maildb
    \/ \E r \in Requests : r.type \in types /\ AskDatabase(r)

LEMMA AskedKeeps ==
    ASSUME MailTyped, NEW types, Asked(types)
    PROVE  /\ Asks \subseteq Asks' /\ \A r \in Asks' : r \in Asks \/ r.type \in types
           /\ \A A, B : First(maildb, A, B) /\ (\A r \in A : r.type \notin types) => First(maildb', A, B)
           /\ \A A : Single(maildb, A) /\ (\A r \in A : r.type \notin types) => Single(maildb', A)
<1>1. CASE UNCHANGED maildb
  BY <1>1 DEF Asks
<1>2. CASE \E r \in Requests : r.type \in types /\ AskDatabase(r)
  <2>1. PICK r \in Requests : r.type \in types /\ AskDatabase(r)
    BY <1>2
  <2>2. Asks' = Asks \union {r} /\ PutsOn(r, maildb, maildb')
    BY <2>1, AskedRequest
  <2> QED BY <2>1, <2>2 DEF PutsOn
<1> QED BY <1>1, <1>2 DEF Asked

LEMMA HandlerQueues ==
    ASSUME MailTyped, Sound, NEW type, Got(type), NEW ev, ev = Head(mailq), NEW types, Asked(types),
           types \subseteq {"Fill", "Create", "MarkAsRead", "Remove"}
    PROVE  /\ OneByOne' /\ LoadsFirst'
           /\ type # "Emails" => (Loads' <=> Loads)
           /\ type \in {"Filled", "FillError", "Emails"} => EmailsCame \notin Posts'
           /\ type = "Emails" => ~Loads' /\ AskEmails \notin Asks /\ Loads
           /\ type \in {"Filled", "FillError"} => ~Loads
<1> USE DEF Sound
<1>1. /\ ev \in Events /\ ev.type = type /\ Posts = {ev} \union Posts' /\ ev \in Posts
      /\ TakesOff(ev, mailq, mailq')
  BY GotEvent
<1>2. EmailsCame.type = "Emails" /\ AskEmails.type = "GetEmails"
  BY DEF EmailsCame, AskEmails
<1>3. /\ Asks \subseteq Asks' /\ \A r \in Asks' : r \in Asks \/ r.type \in types
      /\ \A A, B : First(maildb, A, B) /\ (\A r \in A : r.type \notin types) => First(maildb', A, B)
  BY AskedKeeps
<1>4. AskEmails \in Asks' <=> AskEmails \in Asks
  BY <1>2, <1>3
<1>5. OneByOne'
  BY <1>1 DEF OneByOne, TakesOff, CreatedAs
<1>6. First(maildb, {AskEmails}, Requests)'
  BY <1>2, <1>3 DEF LoadsFirst, AskEmails
<1>7. First(mailq, {EmailsCame}, EventsOf({"Filled", "FillError", "Emails"}))'
      /\ (type \in {"Filled", "FillError", "Emails"} => EmailsCame \notin Posts')
  <2>1. PICK B : B = EventsOf({"Filled", "FillError", "Emails"})
    OBVIOUS
  <2>2. First(mailq, {EmailsCame}, B)
    BY <2>1 DEF LoadsFirst
  <2>3. type \in {"Filled", "FillError", "Emails"} => ev \in B
    BY <1>1, <2>1 DEF EventsOf
  <2>4. First(mailq', {EmailsCame}, B) /\ (ev \in B => ToSet(mailq') \intersect {EmailsCame} = {})
    BY <1>1, <2>2 DEF TakesOff
  <2> QED BY <2>1, <2>3, <2>4 DEF EmailsCame, EventsOf, Posts
<1>8. type # "Emails" => (Loads' <=> Loads)
  BY <1>1, <1>2, <1>4 DEF Loads, EmailsCame, AskEmails
<1>9. type = "Emails" => ~Loads' /\ AskEmails \notin Asks /\ Loads
  <2>1. ASSUME type = "Emails" PROVE ev = EmailsCame
    BY <1>1, <2>1, EventShape DEF EmailsCame
  <2>2. ASSUME type = "Emails", AskEmails \in Asks PROVE FALSE
    BY <1>1, <2>2 DEF StillEmpty, Loads
  <2> QED BY <1>1, <1>4, <1>7, <2>1, <2>2 DEF Loads, EmailsCame, AskEmails
<1>10. type \in {"Filled", "FillError"} => ~Loads
  <2>1. ASSUME type \in {"Filled", "FillError"}, AskEmails \in Asks PROVE FALSE
    BY <1>1, <2>1 DEF StillEmpty, Loads
  <2> QED BY <1>1, <1>2, <1>7, <2>1 DEF Loads, EmailsCame, AskEmails
<1>11. LoadsFirst'
  BY <1>6, <1>7 DEF LoadsFirst
<1> QED BY <1>5, <1>7, <1>8, <1>9, <1>10, <1>11

(* What the handler knows of the clients changes with a report only.       *)
LEMMA HandlerFollows ==
    ASSUME MailTyped, Follows, NEW type, Got(type), NEW ev, ev = Head(mailq),
           \A d \in Ids : HasMap(clients', d) = IF Report(ev, d) THEN ev.type = "Connected"
                                                ELSE HasMap(clients, d)
    PROVE  Follows'
<1>1. /\ \A d, b : After(mailq, d, b)
                   = After(mailq', d, IF Report(ev, d) THEN ev.type = "Connected" ELSE b)
      /\ ev \in Events
  BY GotEvent
<1>2. UNCHANGED <<here, bus>>
  BY DEF Got
<1>3. ASSUME NEW d \in Characters
      PROVE  (After(bus, d, After(mailq, d, HasMap(clients, d))) <=> d \in here)'
  <2>1. PICK b : b = HasMap(clients', d)
    OBVIOUS
  <2>2. After(mailq, d, HasMap(clients, d)) = After(mailq', d, b)
    BY <1>1, <2>1 DEF Ids
  <2>3. PICK a : a = After(mailq', d, b)
    OBVIOUS
  <2>4. After(bus, d, a) <=> d \in here
    BY <2>2, <2>3 DEF Follows
  <2> QED BY <1>2, <2>1, <2>3, <2>4
<1>4. ~Report(ev, NoOne)
  <2>1. NoOne \notin Characters
    BY MailAssumption
  <2>2. ev.type \in Reports => ev.from \in Characters
    BY <1>1, EventShape
  <2>3. Report(ev, NoOne) => ev.type \in Reports /\ ev.from = NoOne
    BY <1>1, ReportIs
  <2> QED BY <2>1, <2>2, <2>3
<1> QED BY <1>3, <1>4 DEF Follows, Ids

(* No letter is known by its number before it is announced.                *)
LEMMA HandlerFresh ==
    ASSUME MailTyped, Sound, NEW type, Got(type), NEW ev, ev = Head(mailq),
           \A id : Numbered(id)' => Numbered(id) \/ id \in DOMAIN mails \/ (type = "Created" /\ id = ev.id),
           \A id \in DOMAIN mails' : id \in DOMAIN mails \/ Numbered(id) \/ (type = "Created" /\ id = ev.id)
    PROVE  Stored' /\ Fresh'
<1> USE DEF Sound
<1>1. /\ ev \in Events /\ ev.type = type /\ Posts = {ev} \union Posts' /\ ev \in Posts
      /\ TakesOff(ev, mailq, mailq')
  BY GotEvent
<1>2. UNCHANGED dbmails
  BY DEF Got
<1>3. type = "Created" => ev.id \in DOMAIN dbmails
  BY <1>1 DEF Fresh
<1>4. Stored'
  BY <1>2, <1>3 DEF Stored, Kept
<1>5. ASSUME NEW e \in Posts', e.type = "Created", type = "Created" PROVE e.id # ev.id
  <2>1. PICK A : A = CreatedAs(ev.id)
    OBVIOUS
  <2>2. ev \in A
    BY <1>1, <1>5, <2>1 DEF CreatedAs
  <2>3. Single(mailq, A)
    BY <2>1 DEF OneByOne
  <2>4. e \notin A
    BY <1>1, <2>2, <2>3 DEF TakesOff, Posts
  <2>5. e \in Events
    BY <1>1, QueueElements
  <2> QED BY <1>5, <2>1, <2>4, <2>5 DEF CreatedAs
<1>6. Fresh'
  BY <1>1, <1>2, <1>5 DEF Fresh
<1> QED BY <1>4, <1>6

LEMMA ReachesIs ==
    ASSUME MailTyped, NEW c, c \in here, Quiet(c)
    PROVE  Reaches(c)
<1> DEFINE e == [type |-> "Connected", from |-> c]
<1>1. e.type = "Connected" /\ e.from = c
  OBVIOUS
<1> HIDE DEF e
<1>2. e \notin Posts /\ e \notin Rides
  BY <1>1 DEF Quiet, Reports
<1>3. \A q \in {mailq, bus} : \A i \in DOMAIN q : q[i] # e
  BY <1>2 DEF Posts, Rides, ToSet
<1> QED BY <1>3 DEF Reaches, e

(* Whoever waits is told, or its letter is still on its way.               *)
LEMMA HandlerPatient ==
    ASSUME MailTyped, Sound, NEW type, Got(type), NEW ev, ev = Head(mailq),
           type \notin {"Send", "Filled"}, Asked({"MarkAsRead", "Remove"}),
           IF type \in {"FillError", "Created"} THEN Told(ev.from) ELSE UNCHANGED awaiting
    PROVE  Patient'
<1> USE DEF Sound
<1>1. /\ ev \in Events /\ ev.type = type /\ Posts = {ev} \union Posts' /\ ev \in Posts
      /\ TakesOff(ev, mailq, mailq')
  BY GotEvent
<1>2. UNCHANGED <<here, bus, habit>> /\ Rides' = Rides
  BY DEF Got, Rides
<1>3. /\ Asks \subseteq Asks' /\ \A r \in Asks' : r \in Asks \/ r.type \in {"MarkAsRead", "Remove"}
      /\ \A A : Single(maildb, A) /\ (\A r \in A : r.type \notin {"MarkAsRead", "Remove"}) => Single(maildb', A)
  BY AskedKeeps
<1>4. ASSUME "hasty" \notin habit, NEW d \in Characters PROVE Waiting(d)'
  <2>1. Waiting(d)
    BY <1>4 DEF Patient
  <2>2. PICK L : L = LetterOf(d)
    OBVIOUS
  <2>3. PICK R : R = RequestOf(d)
    OBVIOUS
  <2>4. /\ \A r \in R : r.type \notin {"MarkAsRead", "Remove"}
        /\ RequestOf(d)' = R /\ LetterOf(d)' = L
    BY <2>2, <2>3 DEF RequestOf, LetterOf
  <2>5. Asking(d)' <=> Asking(d)
    BY <1>3, <2>3, <2>4 DEF Asking
  <2>6. Posting(d)' => Posting(d)
    BY <1>1, <2>2, <2>4 DEF Posting
  <2>7. Single(mailq', L) /\ Single(maildb', R)
    BY <1>1, <1>3, <2>1, <2>2, <2>3, <2>4 DEF Waiting, TakesOff
  <2>8. Quiet(d) => Quiet(d)'
    BY <1>1, <1>2 DEF Quiet
  <2>9. awaiting' \subseteq awaiting
    BY DEF Told
  <2>10. Busy(d)' => Busy(d)
    BY <1>1, <2>9 DEF Busy
  <2>11. CASE ev \in L
    <3>1. type \in {"Send", "Filled", "FillError", "Created"} /\ ev.from = d
      BY <1>1, <2>2, <2>11 DEF LetterOf
    <3>2. Told(d)
      BY <3>1
    <3>3. Posting(d) /\ Busy(d)
      BY <1>1, <2>2, <2>11, <3>1 DEF Posting, Busy, Reports
    <3>4. ~Posting(d)'
      BY <1>1, <2>1, <2>2, <2>4, <2>11 DEF Waiting, TakesOff, Posting, Posts
    <3>5. ~Asking(d)
      BY <2>1, <3>3 DEF Waiting
    <3>6. Reaches(d)
      BY <2>1, <3>3, ReachesIs DEF Waiting
    <3>7. d \notin awaiting'
      BY <3>2, <3>6 DEF Told
    <3> QED BY <1>2, <2>1, <2>4, <2>5, <2>7, <2>8, <2>10, <3>4, <3>5, <3>7 DEF Waiting
  <2>12. CASE ev \notin L
    <3>1. Posting(d)' <=> Posting(d)
      BY <1>1, <2>2, <2>4, <2>12 DEF Posting
    <3>2. d \in awaiting' <=> d \in awaiting
      <4>1. CASE type \in {"FillError", "Created"}
        <5>1. ev.from # d
          BY <1>1, <2>2, <2>12, <4>1 DEF LetterOf
        <5> QED BY <4>1, <5>1 DEF Told
      <4> QED BY <4>1
    <3> QED BY <1>2, <2>1, <2>4, <2>5, <2>7, <2>8, <2>10, <3>1, <3>2 DEF Waiting
  <2> QED BY <2>11, <2>12
<1> QED BY <1>2, <1>4 DEF Patient

LEMMA HasMapAfter ==
    ASSUME NEW m, IsClients(m), NEW k \in Ids, NEW v \in Entry, NEW d
    PROVE  /\ HasMap(m, d) \in BOOLEAN
           /\ HasMap(With(m, k, v), d) = IF d = k THEN v.known ELSE HasMap(m, d)
           /\ HasMap(Touched(m, k, Phantom), d) = HasMap(m, d)
           /\ HasMap(Without(m, k), d) = IF d = k THEN FALSE ELSE HasMap(m, d)
<1>1. \A e \in Entry : e.known \in BOOLEAN
  BY DEF Entry
<1>2. HasMap(m, d) \in BOOLEAN
  BY <1>1 DEF HasMap, At, Phantom, IsClients
<1>3. HasMap(With(m, k, v), d) = IF d = k THEN v.known ELSE HasMap(m, d)
  BY DEF HasMap, At, With
<1>4. HasMap(Touched(m, k, Phantom), d) = HasMap(m, d)
  BY DEF HasMap, At, With, Touched
<1>5. HasMap(Without(m, k), d) = IF d = k THEN FALSE ELSE HasMap(m, d)
  <2>1. PICK o : o = Without(m, k)
    OBVIOUS
  <2>2. DOMAIN o = DOMAIN m \ {k} /\ \A j \in DOMAIN o : o[j] = m[j]
    BY <2>1, WithoutIs
  <2> QED BY <2>1, <2>2 DEF HasMap, At, Phantom
<1> QED BY <1>2, <1>3, <1>4, <1>5

(* A letter goes on to the database: on_email_send,                        *)
(* on_fill_email_recipient_id_response                                     *)
LEMMA ForwardSound ==
    ASSUME MailTyped, Sound, NEW type \in {"Send", "Filled"}, Got(type), NEW ev, ev = Head(mailq),
           NEW r \in Requests, AskDatabase(r), r.from = ev.from,
           r.type = IF type = "Send" THEN "Fill" ELSE "Create",
           UNCHANGED <<clients, mails, shown, awaiting>>
    PROVE  Sound'
<1> USE DEF Sound
<1>1. /\ ev \in Events /\ ev.type = type /\ Posts = {ev} \union Posts' /\ ev \in Posts
      /\ TakesOff(ev, mailq, mailq')
  BY GotEvent
<1>2. UNCHANGED <<here, dbmails, bus, habit>> /\ Rides' = Rides
  BY DEF Got, Rides
<1>3. Asks' = Asks \union {r} /\ PutsOn(r, maildb, maildb')
  BY AskedRequest
<1>4. Asked({"Fill", "Create"})
  BY DEF Asked
<1>5. OneByOne' /\ LoadsFirst' /\ (Loads' <=> Loads) /\ (type = "Filled" => ~Loads)
  BY <1>4, HandlerQueues
<1>6. \A id : (Marking(id)' <=> Marking(id)) /\ (Numbered(id)' <=> Numbered(id))
  BY <1>1, <1>3 DEF Marking, Numbered
<1>7. Kept' /\ UnreadListed'
  BY <1>2, <1>6 DEF Kept, UnreadListed
<1>8. Stored' /\ Fresh'
  BY <1>1, <1>6, HandlerFresh
<1>9. StillEmpty'
  <2>1. CASE ~Loads
    BY <1>5, <2>1 DEF StillEmpty
  <2>2. CASE Loads
    <3>1. r.type = "Fill" /\ r # AskEmails
      BY <1>5, <2>2 DEF AskEmails
    <3>2. AskEmails \in Asks' => AskEmails \in Asks
      BY <1>3, <3>1
    <3>3. /\ \A e \in Posts' : e.type \notin {"Created", "Read", "Delete"}
          /\ \A q \in Asks' : q.type \notin {"Create", "MarkAsRead", "Remove"}
          /\ AskEmails \in Asks' => \A e \in Posts' : e.type \notin {"Filled", "FillError", "Emails"}
      BY <1>1, <1>3, <2>2, <3>1, <3>2 DEF StillEmpty
    <3> QED BY <1>1, <1>2, <2>2, <3>3 DEF StillEmpty
  <2> QED BY <2>1, <2>2
<1>10. NoneLost'
  BY <1>1, <1>2, <1>5 DEF NoneLost
<1>11. Follows'
  <2>1. \A d \in Ids : ~Report(ev, d)
    BY <1>1, ReportIs DEF Reports
  <2> QED BY <2>1, HandlerFollows
<1>12. ASSUME "hasty" \notin habit, NEW d \in Characters PROVE Waiting(d)'
  <2>1. Waiting(d)
    BY <1>12 DEF Patient
  <2>2. PICK L : L = LetterOf(d)
    OBVIOUS
  <2>3. PICK R : R = RequestOf(d)
    OBVIOUS
  <2>4. /\ RequestOf(d)' = R /\ LetterOf(d)' = L
        /\ r \in R <=> ev.from = d
        /\ ev \in L <=> ev.from = d
    BY <1>1, <2>2, <2>3 DEF RequestOf, LetterOf
  <2>5. Asking(d)' <=> Asking(d) \/ ev.from = d
    BY <1>3, <2>3, <2>4 DEF Asking
  <2>6. Posting(d)' <=> Posting(d) /\ ev.from # d
    <3>1. ev.from # d => (Posting(d)' <=> Posting(d))
      BY <1>1, <2>2, <2>4 DEF Posting
    <3>2. ev.from = d => ~Posting(d)'
      BY <1>1, <2>1, <2>2, <2>4 DEF Waiting, TakesOff, Posting, Posts
    <3> QED BY <3>1, <3>2
  <2>7. ev.from = d => Posting(d) /\ ~Asking(d)
    BY <1>1, <2>1, <2>2, <2>4 DEF Posting, Waiting
  <2>8. Single(mailq', L) /\ Single(maildb', R)
    <3>1. r \notin R \/ Asks \intersect R = {}
      BY <2>3, <2>4, <2>7 DEF Asking
    <3> QED BY <1>1, <1>3, <2>1, <2>2, <2>3, <3>1 DEF Waiting, TakesOff, PutsOn, Asks
  <2>9. Quiet(d) => Quiet(d)'
    BY <1>1, <1>2 DEF Quiet
  <2>10. Busy(d)' => Busy(d)
    BY <1>1 DEF Busy
  <2> QED BY <1>2, <2>1, <2>4, <2>5, <2>6, <2>7, <2>8, <2>9, <2>10 DEF Waiting
<1>13. Patient'
  BY <1>2, <1>12 DEF Patient
<1> QED BY <1>5, <1>7, <1>8, <1>9, <1>10, <1>11, <1>13

LEMMA FillErrorSound ==
    ASSUME MailTyped, Sound, on_fill_email_recipient_id_error
    PROVE  Sound'
<1> USE DEF Sound
<1>0. PICK ev : ev = Head(mailq)
  OBVIOUS
<1>1. /\ Got("FillError") /\ UNCHANGED <<mails, maildb, shown>> /\ Told(ev.from)
      /\ clients' = Touched(clients, ev.from, Phantom)
  BY <1>0 DEF on_fill_email_recipient_id_error
<1>2. ev \in Events /\ ev.type = "FillError" /\ Posts = {ev} \union Posts'
  BY <1>0, <1>1, GotEvent
<1>3. UNCHANGED <<here, dbmails, bus, habit>> /\ Asks' = Asks
  BY <1>1 DEF Got, Asks
<1>4. Asked({"MarkAsRead", "Remove"})
  BY <1>1 DEF Asked
<1>5. OneByOne' /\ LoadsFirst' /\ (Loads' <=> Loads) /\ ~Loads
  BY <1>0, <1>1, <1>4, HandlerQueues
<1>6. \A id : (Marking(id)' <=> Marking(id)) /\ (Numbered(id)' <=> Numbered(id))
  BY <1>1, <1>2, <1>3 DEF Marking, Numbered
<1>7. /\ DOMAIN clients' = DOMAIN clients \union {ev.from}
      /\ ev.from \notin DOMAIN clients => clients'[ev.from] = Phantom
      /\ \A c \in DOMAIN clients : clients'[c] = clients[c]
  BY <1>1 DEF Touched, With, At
<1>8. Kept' /\ UnreadListed'
  BY <1>1, <1>3, <1>6, <1>7 DEF Kept, UnreadListed, Phantom
<1>9. Stored' /\ Fresh'
  BY <1>0, <1>1, <1>6, HandlerFresh
<1>10. StillEmpty'
  BY <1>5 DEF StillEmpty
<1>11. NoneLost'
  BY <1>1, <1>2, <1>3, <1>5 DEF NoneLost
<1>12. Follows'
  <2>1. \A d \in Ids : ~Report(ev, d)
    BY <1>2, ReportIs DEF Reports
  <2>2. IsClients(clients) /\ ev.from \in Ids
    BY <1>2, EventShape, TypedParts DEF Ids
  <2>3. \A d \in Ids : HasMap(clients', d) = HasMap(clients, d)
    BY <1>1, <2>2, NotYet, HasMapAfter
  <2> QED BY <1>0, <1>1, <2>1, <2>3, HandlerFollows
<1>13. Patient'
  BY <1>0, <1>1, <1>4, HandlerPatient
<1> QED BY <1>5, <1>8, <1>9, <1>10, <1>11, <1>12, <1>13

LEMMA CreatedSound ==
    ASSUME MailTyped, Sound, on_email_create_response
    PROVE  Sound'
<1> USE DEF Sound
<1>0. PICK ev : ev = Head(mailq)
  OBVIOUS
<1>1. PICK cs : cs = Touched(clients, ev.from, Phantom)
  OBVIOUS
<1>2. PICK l : l = [from |-> ev.from, to |-> ev.to, read |-> FALSE]
  OBVIOUS
<1>3. /\ Got("Created") /\ UNCHANGED maildb /\ Told(ev.from)
      /\ mails' = With(mails, ev.id, l)
      /\ clients' = IF ev.to \in DOMAIN cs THEN Listed(cs, ev.to, ev.id) ELSE cs
      /\ IF ev.to \in DOMAIN cs THEN Shows(ev.to, shown[ev.to] \union {ev.id}) ELSE UNCHANGED shown
  BY <1>0, <1>1, <1>2 DEF on_email_create_response
<1>4. ev \in Events /\ ev.type = "Created" /\ Posts = {ev} \union Posts' /\ ev \in Posts
  BY <1>0, <1>3, GotEvent
<1>5. ev.from \in Characters /\ ev.from \in Ids /\ ev.to \in Ids /\ ev.id \in Nat
  BY <1>4, EventShape DEF Ids
<1>6. UNCHANGED <<here, dbmails, bus, habit>> /\ Asks' = Asks
  BY <1>3 DEF Got, Asks
<1>7. Asked({"MarkAsRead", "Remove"})
  BY <1>3 DEF Asked
<1>8. OneByOne' /\ LoadsFirst' /\ (Loads' <=> Loads) /\ ~Loads
  BY <1>0, <1>3, <1>4, <1>7, HandlerQueues DEF StillEmpty
<1>9. /\ DOMAIN mails' = DOMAIN mails \union {ev.id} /\ mails'[ev.id] = l
      /\ \A id \in DOMAIN mails : mails'[id] = mails[id]
      /\ ev.id \notin DOMAIN mails /\ ev.id \in DOMAIN dbmails /\ ~Numbered(ev.id)
      /\ l.from = dbmails[ev.id].from /\ l.to = dbmails[ev.id].to /\ l.read = FALSE /\ ~dbmails[ev.id].read
      /\ l.to = ev.to
  <2>1. /\ ev.id \in DOMAIN dbmails /\ ev.id \notin DOMAIN mails /\ ~Numbered(ev.id)
        /\ dbmails[ev.id].from = ev.from /\ dbmails[ev.id].to = ev.to /\ ~dbmails[ev.id].read
    BY <1>4 DEF Fresh
  <2>2. /\ DOMAIN mails' = DOMAIN mails \union {ev.id} /\ mails'[ev.id] = l
        /\ \A id \in DOMAIN mails : id # ev.id => mails'[id] = mails[id]
    BY <1>3 DEF With
  <2> QED BY <1>2, <2>1, <2>2
<1>10. IsClients(clients) /\ IsClients(cs)
  BY <1>1, <1>5, TypedParts, NotYet, ClientsWith
<1>11. /\ DOMAIN cs = DOMAIN clients \union {ev.from}
       /\ ev.from \notin DOMAIN clients => cs[ev.from] = Phantom
       /\ \A c \in DOMAIN clients : cs[c] = clients[c]
  BY <1>1 DEF Touched, With, At
<1>12. /\ DOMAIN clients' = DOMAIN cs
       /\ \A c \in DOMAIN cs : clients'[c].known = cs[c].known
       /\ \A c \in DOMAIN cs : clients'[c].received = cs[c].received \union (IF c = ev.to THEN {ev.id} ELSE {})
  <2>1. CASE ev.to \notin DOMAIN cs
    BY <1>3, <2>1
  <2>2. CASE ev.to \in DOMAIN cs
    <3>1. PICK S : S = cs[ev.to].received \union {ev.id}
      OBVIOUS
    <3>2. S \in SUBSET Nat
      BY <1>5, <1>10, <2>2, <3>1, NewEntry DEF IsClients
    <3>3. clients' = [cs EXCEPT ![ev.to].received = S]
      BY <1>3, <2>2, <3>1 DEF Listed
    <3>4. /\ DOMAIN clients' = DOMAIN cs
          /\ \A c \in DOMAIN cs : clients'[c].known = cs[c].known
          /\ \A c \in DOMAIN cs : clients'[c].received = IF c = ev.to THEN S ELSE cs[c].received
      BY <1>10, <2>2, <3>2, <3>3, ListSet
    <3> QED BY <3>1, <3>4
  <2> QED BY <2>1, <2>2
<1>13. \A c \in Characters : \A id \in shown'[c] : id \in shown[c] \/ (id = ev.id /\ c = ev.to)
  <2>1. shown \in [Characters -> SUBSET Nat]
    BY DEF MailTyped
  <2>2. CASE UNCHANGED shown
    BY <2>2
  <2>3. CASE Shows(ev.to, shown[ev.to] \union {ev.id})
    BY <2>1, <2>3 DEF Shows
  <2> QED BY <1>3, <2>2, <2>3
<1>14. \A id : Marking(id)' <=> Marking(id)
  BY <1>6 DEF Marking
<1>15. \A id : Numbered(id)' => Numbered(id) \/ id = ev.id
  BY <1>4, <1>13, <1>14 DEF Numbered
<1>16. Kept'
  <2>1. ~Marking(ev.id)
    BY <1>9 DEF Numbered
  <2>2. ASSUME NEW id \in DOMAIN mails'
        PROVE  /\ id \in DOMAIN dbmails
               /\ mails'[id].from = dbmails[id].from /\ mails'[id].to = dbmails[id].to
               /\ mails'[id].read = dbmails[id].read \/ Marking(id)
               /\ Marking(id) => mails'[id].read
    <3>1. CASE id = ev.id
      <4>1. dbmails[id] \in Letters
        BY <1>9, <3>1, TypedParts DEF Queued, IsMails
      <4>2. dbmails[id].read = FALSE
        BY <1>9, <3>1, <4>1, NewLetter
      <4> QED BY <1>9, <2>1, <3>1, <4>2
    <3>2. CASE id \in DOMAIN mails
      BY <1>9, <3>2 DEF Kept
    <3> QED BY <1>9, <3>1, <3>2
  <2>3. ASSUME NEW c \in DOMAIN clients', NEW id \in clients'[c].received
        PROVE  id \in DOMAIN mails' /\ mails'[id].to = c
    BY <1>9, <1>11, <1>12 DEF Kept, Phantom
  <2> QED BY <1>6, <1>14, <2>2, <2>3 DEF Kept
<1>17. Stored' /\ Fresh'
  BY <1>0, <1>3, <1>9, <1>15, HandlerFresh
<1>18. StillEmpty'
  BY <1>8 DEF StillEmpty
<1>19. NoneLost'
  BY <1>4, <1>6, <1>8, <1>9, <1>13 DEF NoneLost
<1>20. UnreadListed'
  BY <1>6, <1>9, <1>11, <1>12 DEF UnreadListed, Phantom
<1>21. Follows'
  <2>1. \A d \in Ids : ~Report(ev, d)
    BY <1>4, ReportIs DEF Reports
  <2>2. \A d \in Ids : HasMap(cs, d) = HasMap(clients, d)
    BY <1>1, <1>5, <1>10, NotYet, HasMapAfter
  <2>3. \A d \in Ids : HasMap(clients', d) = HasMap(cs, d)
    BY <1>12 DEF HasMap, At
  <2> QED BY <1>0, <1>3, <2>1, <2>2, <2>3, HandlerFollows
<1>22. Patient'
  BY <1>0, <1>3, <1>7, HandlerPatient
<1> QED BY <1>8, <1>16, <1>17, <1>18, <1>19, <1>20, <1>21, <1>22

LEMMA HeaderSound ==
    ASSUME MailTyped, Sound, on_email_header
    PROVE  Sound'
<1> USE DEF Sound
<1>0. PICK ev : ev = Head(mailq)
  OBVIOUS
<1>1. PICK ids : ids = At(clients, ev.from, Phantom).received
  OBVIOUS
<1>2. /\ Got("Header") /\ UNCHANGED <<maildb, awaiting>>
      /\ clients' = Touched(clients, ev.from, Phantom)
      /\ mails' = [id \in DOMAIN mails \union ids |-> At(mails, id, NoLetter)]
      /\ Shows(ev.from, ids)
  BY <1>0, <1>1 DEF on_email_header
<1>3. ev \in Events /\ ev.type = "Header" /\ Posts = {ev} \union Posts'
  BY <1>0, <1>2, GotEvent
<1>4. ev.from \in Characters /\ ev.from \in Ids
  BY <1>3, EventShape DEF Ids
<1>5. UNCHANGED <<here, dbmails, bus, habit>> /\ Asks' = Asks
  BY <1>2 DEF Got, Asks
<1>6. Asked({"MarkAsRead", "Remove"})
  BY <1>2 DEF Asked
<1>7. OneByOne' /\ LoadsFirst' /\ (Loads' <=> Loads)
  BY <1>0, <1>2, <1>6, HandlerQueues
<1>8. ids \subseteq DOMAIN mails /\ \A id \in ids : mails[id].to = ev.from
  BY <1>1 DEF Kept, At, Phantom
<1>9. DOMAIN mails' = DOMAIN mails /\ \A id \in DOMAIN mails : mails'[id] = mails[id]
  BY <1>2, <1>8 DEF At
<1>10. /\ DOMAIN clients' = DOMAIN clients \union {ev.from}
       /\ ev.from \notin DOMAIN clients => clients'[ev.from] = Phantom
       /\ \A c \in DOMAIN clients : clients'[c] = clients[c]
  BY <1>2 DEF Touched, With, At
<1>11. \A c \in Characters : \A id \in shown'[c] : id \in shown[c] \/ (id \in ids /\ c = ev.from)
  <2>1. shown \in [Characters -> SUBSET Nat]
    BY DEF MailTyped
  <2> QED BY <1>2, <2>1 DEF Shows
<1>12. \A id : Marking(id)' <=> Marking(id)
  BY <1>5 DEF Marking
<1>13. \A id : Numbered(id)' => Numbered(id) \/ id \in DOMAIN mails
  BY <1>3, <1>8, <1>11, <1>12 DEF Numbered
<1>14. Kept' /\ UnreadListed'
  BY <1>5, <1>9, <1>10, <1>12 DEF Kept, UnreadListed, Phantom
<1>15. Stored' /\ Fresh'
  BY <1>0, <1>2, <1>9, <1>13, HandlerFresh
<1>16. StillEmpty'
  <2>1. CASE ~Loads
    BY <1>7, <2>1 DEF StillEmpty
  <2>2. CASE Loads
    <3>1. \A c \in Characters : shown'[c] = {}
      BY <1>8, <1>11, <2>2 DEF StillEmpty
    <3>2. \A c \in DOMAIN clients' : clients'[c].known => c \in DOMAIN clients /\ clients[c].known
      BY <1>10 DEF Phantom
    <3>3. Rides' = Rides
      BY <1>5 DEF Rides
    <3> QED BY <1>3, <1>5, <1>9, <2>2, <3>1, <3>2, <3>3 DEF StillEmpty
  <2> QED BY <2>1, <2>2
<1>17. NoneLost'
  BY <1>3, <1>5, <1>7, <1>8, <1>9, <1>11 DEF NoneLost
<1>18. Follows'
  <2>1. \A d \in Ids : ~Report(ev, d)
    BY <1>3, ReportIs DEF Reports
  <2>2. \A d \in Ids : HasMap(clients', d) = HasMap(clients, d)
    BY <1>2, <1>4, TypedParts, NotYet, HasMapAfter
  <2> QED BY <1>0, <1>2, <2>1, <2>2, HandlerFollows
<1>19. Patient'
  BY <1>0, <1>2, <1>6, HandlerPatient
<1> QED BY <1>7, <1>14, <1>15, <1>16, <1>17, <1>18, <1>19

(* A letter the handler does not keep has nobody to answer to.             *)
LEMMA ReadSound ==
    ASSUME MailTyped, Sound, on_email_read, ~crashed'
    PROVE  Sound'
<1> USE DEF Sound
<1>0. PICK ev : ev = Head(mailq)
  OBVIOUS
<1>1. PICK id : id = ev.id
  OBVIOUS
<1>2. PICK l : l = At(mails, id, NoLetter)
  OBVIOUS
<1>3. PICK l2 : l2 = [l EXCEPT !.read = TRUE]
  OBVIOUS
<1>4. PICK e : e = At(clients, l.to, Phantom)
  OBVIOUS
<1>5. PICK e2 : e2 = [e EXCEPT !.received = e.received \ {id}]
  OBVIOUS
<1>6. PICK r : r = [type |-> "MarkAsRead", id |-> id]
  OBVIOUS
<1>7. /\ Got("Read") /\ UNCHANGED <<shown, awaiting>>
      /\ mails' = With(mails, id, l2) /\ clients' = With(clients, l.to, e2)
      /\ AskDatabase(r) /\ HasMap(clients', l.to)
  BY <1>0, <1>1, <1>2, <1>3, <1>4, <1>5, <1>6 DEF on_email_read
<1>8. ev \in Events /\ ev.type = "Read" /\ Posts = {ev} \union Posts' /\ ev \in Posts
  BY <1>0, <1>7, GotEvent
<1>9. id \in Nat /\ r \in Requests /\ r.type = "MarkAsRead" /\ IsClients(clients) /\ IsMails(mails)
      /\ IsMails(dbmails)
  BY <1>1, <1>6, <1>8, EventShape, MadeRequests, TypedParts DEF Queued
<1>10. UNCHANGED <<here, dbmails, bus, habit>> /\ Asks' = Asks \union {r}
  BY <1>7, <1>9, AskedRequest DEF Got
<1>11. Asked({"MarkAsRead", "Remove"})
  BY <1>7, <1>9 DEF Asked
<1>12. OneByOne' /\ LoadsFirst' /\ (Loads' <=> Loads) /\ ~Loads
  BY <1>0, <1>7, <1>8, <1>11, HandlerQueues DEF StillEmpty
<1>13. l \in Letters /\ l.to \in Ids /\ l2 \in Letters
       /\ l2.from = l.from /\ l2.to = l.to /\ l2.read = TRUE
  BY <1>2, <1>3, <1>9, MailsWith, NotYet, NewLetter
<1>14. e \in Entry /\ e2 \in Entry /\ e2.known = e.known /\ e2.received = e.received \ {id}
  <2>1. e \in Entry
    BY <1>4, <1>9, <1>13, NotYet, ClientsWith
  <2> QED BY <1>5, <2>1, NewEntry
<1>15. e.known = HasMap(clients, l.to)
  BY <1>4 DEF HasMap
<1>16. \A d \in Ids : HasMap(clients', d) = HasMap(clients, d)
  BY <1>7, <1>14, <1>15 DEF HasMap, At, With
<1>17. l.to # NoOne
  BY <1>7, <1>13, <1>16 DEF Follows
<1>18. id \in DOMAIN mails /\ l = mails[id]
  BY <1>2, <1>17 DEF At, NoLetter
<1>19. id \in DOMAIN dbmails
  BY <1>18 DEF Kept
<1>20. /\ DOMAIN mails' = DOMAIN mails /\ mails'[id] = l2
       /\ \A j \in DOMAIN mails : j # id => mails'[j] = mails[j]
  BY <1>7, <1>18 DEF With
<1>21. \A j \in DOMAIN mails : mails'[j].to = mails[j].to /\ mails'[j].from = mails[j].from
  BY <1>13, <1>18, <1>20
<1>22. l.to \in DOMAIN clients /\ e = clients[l.to]
  BY <1>4, <1>7, <1>13, <1>15, <1>16 DEF At, Phantom
<1>23. /\ DOMAIN clients' = DOMAIN clients
       /\ clients'[l.to] = e2
       /\ \A c \in DOMAIN clients : c # l.to => clients'[c] = clients[c]
  BY <1>7, <1>22 DEF With
<1>24. /\ \A c \in DOMAIN clients : clients'[c].known = clients[c].known
       /\ \A c \in DOMAIN clients : clients'[c].received \subseteq clients[c].received
       /\ \A c \in DOMAIN clients : \A j \in clients[c].received : j = id \/ j \in clients'[c].received
  BY <1>14, <1>22, <1>23
<1>25. \A j : Marking(j)' <=> Marking(j) \/ j = id
  BY <1>6, <1>10 DEF Marking
<1>26. \A j : Numbered(j)' => Numbered(j)
  BY <1>1, <1>7, <1>8, <1>25 DEF Numbered
<1>27. Kept'
  <2>1. ASSUME NEW j \in DOMAIN mails'
        PROVE  /\ j \in DOMAIN dbmails
               /\ mails'[j].from = dbmails[j].from /\ mails'[j].to = dbmails[j].to
               /\ mails'[j].read = dbmails[j].read \/ Marking(j)'
               /\ Marking(j)' => mails'[j].read
    BY <1>13, <1>20, <1>21, <1>25 DEF Kept
  <2>2. ASSUME NEW c \in DOMAIN clients', NEW j \in clients'[c].received
        PROVE  j \in DOMAIN mails' /\ mails'[j].to = c
    BY <1>20, <1>21, <1>23, <1>24 DEF Kept
  <2> QED BY <1>10, <2>1, <2>2 DEF Kept
<1>28. Stored' /\ Fresh'
  BY <1>0, <1>7, <1>20, <1>26, HandlerFresh
<1>29. StillEmpty'
  BY <1>12 DEF StillEmpty
<1>30. NoneLost'
  BY <1>7, <1>8, <1>10, <1>12, <1>20, <1>21 DEF NoneLost
<1>31. UnreadListed'
  BY <1>10, <1>13, <1>20, <1>21, <1>23, <1>24 DEF UnreadListed
<1>32. Follows'
  <2>1. \A d \in Ids : ~Report(ev, d)
    BY <1>8, ReportIs DEF Reports
  <2> QED BY <1>0, <1>7, <1>16, <2>1, HandlerFollows
<1>33. Patient'
  BY <1>0, <1>7, <1>11, HandlerPatient
<1> QED BY <1>12, <1>27, <1>28, <1>29, <1>30, <1>31, <1>32, <1>33

LEMMA DeleteSound ==
    ASSUME MailTyped, Sound, on_email_delete
    PROVE  Sound'
<1> USE DEF Sound
<1>0. PICK ev : ev = Head(mailq)
  OBVIOUS
<1>1. PICK id : id = ev.id
  OBVIOUS
<1>2. PICK l : l = At(mails, id, NoLetter)
  OBVIOUS
<1>3. PICK c1 : c1 = Touched(clients, l.from, Phantom)
  OBVIOUS
<1>4. PICK cs : cs = Touched(c1, l.to, Phantom)
  OBVIOUS
<1>5. PICK S : S = cs[l.to].received \ {id}
  OBVIOUS
<1>6. PICK r : r = [type |-> "Remove", id |-> id]
  OBVIOUS
<1>7. /\ Got("Delete") /\ UNCHANGED <<shown, awaiting>>
      /\ mails' = Without(mails, id) /\ clients' = [cs EXCEPT ![l.to].received = S]
      /\ AskDatabase(r)
  BY <1>0, <1>1, <1>2, <1>3, <1>4, <1>5, <1>6 DEF on_email_delete
<1>8. ev \in Events /\ ev.type = "Delete" /\ Posts = {ev} \union Posts' /\ ev \in Posts
  BY <1>0, <1>7, GotEvent
<1>9. id \in Nat /\ r \in Requests /\ r.type = "Remove" /\ IsClients(clients) /\ IsMails(mails)
  BY <1>1, <1>6, <1>8, EventShape, MadeRequests, TypedParts
<1>10. UNCHANGED <<here, dbmails, bus, habit>> /\ Asks' = Asks \union {r}
  BY <1>7, <1>9, AskedRequest DEF Got
<1>11. Asked({"MarkAsRead", "Remove"})
  BY <1>7, <1>9 DEF Asked
<1>12. OneByOne' /\ LoadsFirst' /\ (Loads' <=> Loads) /\ ~Loads
  BY <1>0, <1>7, <1>8, <1>11, HandlerQueues DEF StillEmpty
<1>13. l.from \in Ids /\ l.to \in Ids
  BY <1>2, <1>9, MailsWith, NotYet, NewLetter
<1>14. IsClients(c1) /\ IsClients(cs)
  BY <1>3, <1>4, <1>9, <1>13, NotYet, ClientsWith
<1>15. /\ DOMAIN cs = DOMAIN clients \union {l.from, l.to}
       /\ \A c \in DOMAIN cs : cs[c] = IF c \in DOMAIN clients THEN clients[c] ELSE Phantom
  BY <1>3, <1>4 DEF Touched, With, At
<1>16. S \in SUBSET Nat
  BY <1>5, <1>14, <1>15, NewEntry DEF IsClients
<1>17. /\ DOMAIN clients' = DOMAIN cs
       /\ \A c \in DOMAIN cs : clients'[c].known = cs[c].known
       /\ \A c \in DOMAIN cs : clients'[c].received = IF c = l.to THEN S ELSE cs[c].received
  BY <1>7, <1>14, <1>15, <1>16, ListSet
<1>18. /\ \A c \in DOMAIN clients' : clients'[c].known => c \in DOMAIN clients /\ clients[c].known
       /\ \A c \in DOMAIN clients' : \A j \in clients'[c].received :
             c \in DOMAIN clients /\ j \in clients[c].received /\ (c = l.to => j # id)
       /\ \A c \in DOMAIN clients : \A j \in clients[c].received :
             j = id \/ (c \in DOMAIN clients' /\ j \in clients'[c].received)
  BY <1>5, <1>15, <1>17 DEF Phantom
<1>19. /\ DOMAIN mails' = DOMAIN mails \ {id}
       /\ \A j \in DOMAIN mails' : mails'[j] = mails[j]
  BY <1>7, WithoutIs
<1>20. \A j : Marking(j)' <=> Marking(j)
  BY <1>6, <1>10 DEF Marking
<1>21. \A j : Numbered(j)' => Numbered(j)
  BY <1>7, <1>8, <1>20 DEF Numbered
<1>22. Kept'
  <2>1. ASSUME NEW c \in DOMAIN clients', NEW j \in clients'[c].received
        PROVE  j \in DOMAIN mails' /\ mails'[j].to = c
    <3>1. j \in DOMAIN mails /\ mails[j].to = c
      BY <1>18 DEF Kept
    <3>2. j = id => l = mails[j]
      BY <1>2, <3>1 DEF At
    <3> QED BY <1>18, <1>19, <3>1, <3>2
  <2> QED BY <1>10, <1>19, <1>20, <2>1 DEF Kept
<1>23. Stored' /\ Fresh'
  BY <1>0, <1>7, <1>19, <1>21, HandlerFresh
<1>24. StillEmpty'
  BY <1>12 DEF StillEmpty
<1>25. NoneLost'
  BY <1>8, <1>10 DEF NoneLost
<1>26. UnreadListed'
  BY <1>10, <1>18, <1>19 DEF UnreadListed
<1>27. Follows'
  <2>1. \A d \in Ids : ~Report(ev, d)
    BY <1>8, ReportIs DEF Reports
  <2>2. \A d \in Ids : HasMap(cs, d) = HasMap(clients, d)
    <3>1. \A d \in Ids : HasMap(c1, d) = HasMap(clients, d)
      BY <1>3, <1>9, <1>13, NotYet, HasMapAfter
    <3>2. \A d \in Ids : HasMap(cs, d) = HasMap(c1, d)
      BY <1>4, <1>13, <1>14, NotYet, HasMapAfter
    <3> QED BY <3>1, <3>2
  <2>3. \A d \in Ids : HasMap(clients', d) = HasMap(cs, d)
    BY <1>17 DEF HasMap, At
  <2> QED BY <1>0, <1>7, <2>1, <2>2, <2>3, HandlerFollows
<1>28. Patient'
  BY <1>0, <1>7, <1>11, HandlerPatient
<1> QED BY <1>12, <1>22, <1>23, <1>24, <1>25, <1>26, <1>27, <1>28

LEMMA ConnectedSound ==
    ASSUME MailTyped, Sound, on_client_connected
    PROVE  Sound'
<1> USE DEF Sound
<1>0. PICK ev : ev = Head(mailq)
  OBVIOUS
<1>1. PICK ids : ids = {id \in DOMAIN mails : mails[id].to = ev.from}
  OBVIOUS
<1>2. PICK e : e = [known |-> TRUE, received |-> ids]
  OBVIOUS
<1>3. /\ Got("Connected") /\ UNCHANGED <<mails, maildb, awaiting>>
      /\ clients' = With(clients, ev.from, e)
      /\ shown' = [shown EXCEPT ![ev.from] = IF ev.from \in here THEN ids ELSE @]
  BY <1>0, <1>1, <1>2 DEF on_client_connected
<1>4. ev \in Events /\ ev.type = "Connected" /\ Posts = {ev} \union Posts' /\ ev \in Posts
  BY <1>0, <1>3, GotEvent
<1>5. ev.from \in Characters /\ ev.from \in Ids
  BY <1>4, EventShape DEF Ids, Reports
<1>6. IsMails(mails) /\ IsClients(clients) /\ shown \in [Characters -> SUBSET Nat]
  BY TypedParts DEF Queued
<1>7. e \in Entry /\ e.known = TRUE /\ e.received = ids
  BY <1>1, <1>2, <1>6 DEF Entry, IsMails
<1>8. UNCHANGED <<here, dbmails, bus, habit>> /\ Asks' = Asks
  BY <1>3 DEF Got, Asks
<1>9. Asked({"MarkAsRead", "Remove"})
  BY <1>3 DEF Asked
<1>10. OneByOne' /\ LoadsFirst' /\ (Loads' <=> Loads)
  BY <1>0, <1>3, <1>9, HandlerQueues
<1>11. \A c \in Characters : \A id \in shown'[c] : id \in shown[c] \/ (id \in ids /\ c = ev.from)
  BY <1>3, <1>6
<1>12. /\ DOMAIN clients' = DOMAIN clients \union {ev.from} /\ clients'[ev.from] = e
       /\ \A c \in DOMAIN clients : c # ev.from => clients'[c] = clients[c]
  BY <1>3 DEF With
<1>13. \A id : Marking(id)' <=> Marking(id)
  BY <1>8 DEF Marking
<1>14. \A id : Numbered(id)' => Numbered(id) \/ id \in DOMAIN mails
  BY <1>1, <1>4, <1>11, <1>13 DEF Numbered
<1>15. Kept' /\ UnreadListed'
  BY <1>1, <1>3, <1>7, <1>8, <1>12, <1>13 DEF Kept, UnreadListed
<1>16. Stored' /\ Fresh'
  BY <1>0, <1>3, <1>14, HandlerFresh
<1>17. StillEmpty'
  <2>1. CASE ~Loads
    BY <1>10, <2>1 DEF StillEmpty
  <2>2. CASE Loads
    <3>1. "early" \in habit
      BY <1>4, <2>2 DEF StillEmpty, Reports
    <3>2. \A c \in Characters : shown'[c] = {}
      BY <1>1, <1>11, <2>2 DEF StillEmpty
    <3> QED BY <1>3, <1>4, <1>8, <2>2, <3>1, <3>2 DEF StillEmpty
  <2> QED BY <2>1, <2>2
<1>18. NoneLost'
  BY <1>1, <1>3, <1>4, <1>8, <1>10, <1>11 DEF NoneLost
<1>19. Follows'
  <2>1. \A d \in Ids : Report(ev, d) <=> d = ev.from
    BY <1>4, ReportIs DEF Reports
  <2>2. \A d \in Ids : HasMap(clients', d) = IF d = ev.from THEN TRUE ELSE HasMap(clients, d)
    BY <1>3, <1>7 DEF HasMap, At, With
  <2>3. \A d \in Ids : HasMap(clients', d) = IF Report(ev, d) THEN ev.type = "Connected" ELSE HasMap(clients, d)
    BY <1>4, <2>1, <2>2
  <2> QED BY <1>0, <1>3, <2>3, HandlerFollows
<1>20. Patient'
  BY <1>0, <1>3, <1>9, HandlerPatient
<1> QED BY <1>10, <1>15, <1>16, <1>17, <1>18, <1>19, <1>20

LEMMA DisconnectedSound ==
    ASSUME MailTyped, Sound, on_client_disconnected
    PROVE  Sound'
<1> USE DEF Sound
<1>0. PICK ev : ev = Head(mailq)
  OBVIOUS
<1>1. /\ Got("Disconnected") /\ UNCHANGED <<mails, maildb, shown, awaiting>>
      /\ clients' = Without(clients, ev.from)
  BY <1>0 DEF on_client_disconnected
<1>2. ev \in Events /\ ev.type = "Disconnected" /\ Posts = {ev} \union Posts'
  BY <1>0, <1>1, GotEvent
<1>3. ev.from \in Characters /\ ev.from \in Ids
  BY <1>2, EventShape DEF Ids, Reports
<1>4. UNCHANGED <<here, dbmails, bus, habit>> /\ Asks' = Asks /\ Rides' = Rides
  BY <1>1 DEF Got, Asks, Rides
<1>5. Asked({"MarkAsRead", "Remove"})
  BY <1>1 DEF Asked
<1>6. OneByOne' /\ LoadsFirst' /\ (Loads' <=> Loads)
  BY <1>0, <1>1, <1>5, HandlerQueues
<1>7. DOMAIN clients' = DOMAIN clients \ {ev.from} /\ \A c \in DOMAIN clients' : clients'[c] = clients[c]
  BY <1>1, WithoutIs
<1>8. \A id : (Marking(id)' <=> Marking(id)) /\ (Numbered(id)' <=> Numbered(id))
  BY <1>1, <1>2, <1>4 DEF Marking, Numbered
<1>9. Kept' /\ UnreadListed'
  BY <1>1, <1>4, <1>7, <1>8 DEF Kept, UnreadListed
<1>10. Stored' /\ Fresh'
  BY <1>0, <1>1, <1>8, HandlerFresh
<1>11. StillEmpty'
  BY <1>1, <1>2, <1>4, <1>6, <1>7 DEF StillEmpty
<1>12. NoneLost'
  BY <1>1, <1>2, <1>4, <1>6 DEF NoneLost
<1>13. Follows'
  <2>1. \A d \in Ids : Report(ev, d) <=> d = ev.from
    BY <1>2, ReportIs DEF Reports
  <2>2. \A d \in Ids : HasMap(clients', d) = IF d = ev.from THEN FALSE ELSE HasMap(clients, d)
    BY <1>1, <1>3, TypedParts, NotYet, HasMapAfter
  <2>3. \A d \in Ids : HasMap(clients', d) = IF Report(ev, d) THEN ev.type = "Connected" ELSE HasMap(clients, d)
    BY <1>2, <2>1, <2>2
  <2> QED BY <1>0, <1>1, <2>3, HandlerFollows
<1>14. Patient'
  BY <1>0, <1>1, <1>5, HandlerPatient
<1> QED BY <1>6, <1>9, <1>10, <1>11, <1>12, <1>13, <1>14

(* The letters are loaded.                                                 *)
LEMMA EmailsSound ==
    ASSUME MailTyped, Sound, on_get_emails_response
    PROVE  Sound'
<1> USE DEF Sound
<1>0. PICK ev : ev = Head(mailq)
  OBVIOUS
<1>1. /\ Got("Emails") /\ UNCHANGED <<clients, maildb, shown, awaiting>>
      /\ mails' = [id \in DOMAIN mails \union DOMAIN dbmails |->
                    IF id \in DOMAIN dbmails THEN dbmails[id] ELSE mails[id]]
  BY <1>0 DEF on_get_emails_response
<1>2. ev \in Events /\ ev.type = "Emails" /\ Posts = {ev} \union Posts' /\ ev \in Posts
  BY <1>0, <1>1, GotEvent
<1>3. UNCHANGED <<here, dbmails, bus, habit>> /\ Asks' = Asks
  BY <1>1 DEF Got, Asks
<1>4. Asked({"MarkAsRead", "Remove"})
  BY <1>1 DEF Asked
<1>5. OneByOne' /\ LoadsFirst' /\ ~Loads' /\ Loads
  BY <1>0, <1>1, <1>4, HandlerQueues
<1>6. /\ DOMAIN mails = {} /\ \A c \in Characters : shown[c] = {}
      /\ \A e \in Posts : e.type \notin {"Created", "Read", "Delete"}
      /\ \A r \in Asks : r.type \notin {"Create", "MarkAsRead", "Remove"}
      /\ "early" \notin habit => \A c \in DOMAIN clients : ~clients[c].known
  BY <1>5 DEF StillEmpty
<1>7. DOMAIN mails' = DOMAIN dbmails /\ \A id \in DOMAIN dbmails : mails'[id] = dbmails[id]
  BY <1>1, <1>6
<1>8. \A id : ~Marking(id)
  <2>1. \A id : [type |-> "MarkAsRead", id |-> id].type = "MarkAsRead"
    OBVIOUS
  <2> QED BY <1>6, <2>1 DEF Marking
<1>9. \A id : ~Numbered(id)
  BY <1>6, <1>8 DEF Numbered
<1>10. \A id : ~Marking(id)' /\ ~Numbered(id)'
  BY <1>1, <1>2, <1>3, <1>8, <1>9 DEF Marking, Numbered
<1>11. \A c \in DOMAIN clients : clients[c].received = {}
  BY <1>6 DEF Kept
<1>12. Kept'
  BY <1>1, <1>3, <1>7, <1>10, <1>11 DEF Kept
<1>13. Stored' /\ Fresh'
  BY <1>2, <1>6, <1>10 DEF Stored, Fresh
<1>14. StillEmpty'
  BY <1>5 DEF StillEmpty
<1>15. NoneLost'
  BY <1>1, <1>2, <1>3, <1>6, <1>7 DEF NoneLost
<1>16. UnreadListed'
  BY <1>1, <1>3, <1>6 DEF UnreadListed
<1>17. Follows'
  <2>1. \A d \in Ids : ~Report(ev, d)
    BY <1>2, ReportIs DEF Reports
  <2> QED BY <1>0, <1>1, <2>1, HandlerFollows
<1>18. Patient'
  BY <1>0, <1>1, <1>4, HandlerPatient
<1> QED BY <1>5, <1>12, <1>13, <1>14, <1>15, <1>16, <1>17, <1>18

-----------------------------------------------------------------------------
(* The database serves the first of its requests.                          *)

(* What it tells the handler, if anything; it makes no reports.            *)
Answered(types) ==
    \/ UNCHANGED mailq
    \/ \E ev \in Events : ev.type \in types \ Reports /\ PostMail(ev)

LEMMA AnsweredKeeps ==
    ASSUME MailTyped, NEW types, Answered(types)
    PROVE  /\ Posts \subseteq Posts' /\ \A ev \in Posts' : ev \in Posts \/ ev.type \in types \ Reports
           /\ Posts' \subseteq Events
           /\ \A A, B : First(mailq, A, B) /\ (\A ev \in A : ev.type \notin types) => First(mailq', A, B)
           /\ \A A : Single(mailq, A) /\ (\A ev \in A : ev.type \notin types) => Single(mailq', A)
           /\ \A d, b : After(mailq', d, b) = After(mailq, d, b)
<1>1. CASE UNCHANGED mailq
  BY <1>1, QueueElements DEF Posts
<1>2. CASE \E ev \in Events : ev.type \in types \ Reports /\ PostMail(ev)
  <2>1. PICK ev \in Events : ev.type \in types \ Reports /\ PostMail(ev)
    BY <1>2
  <2>2. /\ Posts' = Posts \union {ev} /\ PutsOn(ev, mailq, mailq')
        /\ \A d, b : After(mailq', d, b)
                     = IF Report(ev, d) THEN ev.type = "Connected" ELSE After(mailq, d, b)
    BY <2>1, PostedEvent
  <2>3. \A d : ~Report(ev, d)
    BY <2>1, ReportIs
  <2>4. \A d, b : After(mailq', d, b) = After(mailq, d, b)
    BY <2>2, <2>3
  <2> QED BY <2>1, <2>2, <2>4, QueueElements DEF PutsOn
<1> QED BY <1>1, <1>2 DEF Answered

(* What does not depend on the request                                     *)
LEMMA ServedKeeps ==
    ASSUME MailTyped, Sound, NEW type, Serves(type), NEW r, r = Head(maildb), NEW types, Answered(types)
    PROVE  /\ Follows' /\ UNCHANGED <<here, clients, mails, bus, shown, awaiting, habit>> /\ Rides' = Rides
           /\ First(maildb, {AskEmails}, Requests)' /\ AskEmails \notin Asks'
           /\ type # "GetEmails" => AskEmails \notin Asks
           /\ \A id : Marking(id)' => Marking(id)
           /\ \A id : Marking(id) => Marking(id)' \/ (type = "MarkAsRead" /\ id = r.id)
           /\ types \intersect {"Read", "Delete"} = {} => \A id : Numbered(id)' => Numbered(id)
<1> USE DEF Sound
<1>1. /\ r \in Requests /\ r.type = type /\ Asks = {r} \union Asks' /\ TakesOff(r, maildb, maildb')
  BY ServedRequest
<1>2. UNCHANGED <<here, clients, mails, bus, shown, awaiting, habit>> /\ Rides' = Rides
  BY DEF Serves, Rides
<1>3. /\ Posts \subseteq Posts' /\ \A ev \in Posts' : ev \in Posts \/ ev.type \in types \ Reports
      /\ \A d, b : After(mailq', d, b) = After(mailq, d, b)
  BY AnsweredKeeps
<1>4. Follows'
  <2>1. ASSUME NEW d \in Characters
        PROVE  (After(bus, d, After(mailq, d, HasMap(clients, d))) <=> d \in here)'
    BY <1>2, <1>3 DEF Follows
  <2>2. ~HasMap(clients', NoOne)
    BY <1>2 DEF Follows
  <2> QED BY <2>1, <2>2 DEF Follows
<1>5. First(maildb, {AskEmails}, Requests)' /\ AskEmails \notin Asks'
  <2>1. PICK B : B = Requests
    OBVIOUS
  <2>2. First(maildb, {AskEmails}, B) /\ r \in B
    BY <1>1, <2>1 DEF LoadsFirst
  <2>3. First(maildb', {AskEmails}, B) /\ ToSet(maildb') \intersect {AskEmails} = {}
    BY <1>1, <2>2 DEF TakesOff
  <2> QED BY <2>1, <2>3 DEF AskEmails, Requests, Asks
<1>6. type # "GetEmails" => AskEmails \notin Asks
  BY <1>1, <1>5 DEF AskEmails
<1>7. \A id : Marking(id)' => Marking(id)
  BY <1>1 DEF Marking
<1>8. \A id : Marking(id) => Marking(id)' \/ (type = "MarkAsRead" /\ id = r.id)
  BY <1>1 DEF Marking
<1>9. types \intersect {"Read", "Delete"} = {} => \A id : Numbered(id)' => Numbered(id)
  BY <1>2, <1>3, <1>7 DEF Numbered
<1> QED BY <1>2, <1>4, <1>5, <1>6, <1>7, <1>8, <1>9

(* Requests that are not about sending a letter                            *)
LEMMA ServedPatient ==
    ASSUME MailTyped, Sound, NEW type \in {"MarkAsRead", "Remove", "GetEmails"}, Serves(type),
           Answered({"Emails"})
    PROVE  Patient'
<1> USE DEF Sound
<1>0. PICK r : r = Head(maildb)
  OBVIOUS
<1>1. /\ r \in Requests /\ r.type = type /\ Asks = {r} \union Asks' /\ TakesOff(r, maildb, maildb')
  BY <1>0, ServedRequest
<1>2. UNCHANGED <<here, clients, mails, bus, shown, awaiting, habit>> /\ Rides' = Rides
  BY DEF Serves, Rides
<1>3. /\ Posts \subseteq Posts' /\ \A ev \in Posts' : ev \in Posts \/ ev.type \in {"Emails"} \ Reports
      /\ Posts' \subseteq Events
      /\ \A A : Single(mailq, A) /\ (\A ev \in A : ev.type \notin {"Emails"}) => Single(mailq', A)
  BY AnsweredKeeps
<1>4. \A ev \in Posts' : ev \in Posts \/ (ev.type = "Emails" /\ ev.from \notin Characters)
  <2>1. ASSUME NEW ev \in Events, ev.type = "Emails" PROVE ev.from = NoOne
    <3>1. ev = [type |-> "Emails", from |-> NoOne]
      BY <2>1, EventShape
    <3> QED BY <3>1
  <2> QED BY <1>3, <2>1, MailAssumption
<1>5. ASSUME "hasty" \notin habit, NEW d \in Characters PROVE Waiting(d)'
  <2>1. Waiting(d)
    BY <1>5 DEF Patient
  <2>2. PICK L : L = LetterOf(d)
    OBVIOUS
  <2>3. PICK R : R = RequestOf(d)
    OBVIOUS
  <2>4. /\ RequestOf(d)' = R /\ LetterOf(d)' = L /\ r \notin R
        /\ \A ev \in L : ev.type \notin {"Emails"}
    BY <1>1, <2>2, <2>3 DEF RequestOf, LetterOf
  <2>5. Asking(d)' <=> Asking(d)
    BY <1>1, <2>3, <2>4 DEF Asking
  <2>6. Posting(d)' <=> Posting(d)
    BY <1>3, <1>4, <2>2, <2>4 DEF Posting
  <2>7. Single(mailq', L) /\ Single(maildb', R)
    BY <1>1, <1>3, <2>1, <2>2, <2>3, <2>4 DEF Waiting, TakesOff
  <2>8. Quiet(d) => Quiet(d)'
    BY <1>2, <1>4 DEF Quiet
  <2>9. Busy(d)' => Busy(d)
    BY <1>2, <1>4 DEF Busy
  <2> QED BY <1>2, <2>1, <2>4, <2>5, <2>6, <2>7, <2>8, <2>9 DEF Waiting
<1> QED BY <1>2, <1>5 DEF Patient

(* A letter goes on to the handler, or is lost to an error.                *)
LEMMA LetterPatient ==
    ASSUME MailTyped, Sound, NEW type \in {"Fill", "Create"}, Serves(type), NEW r, r = Head(maildb),
           \/ UNCHANGED mailq /\ "dberror" \in habit
           \/ \E ev \in Events : /\ ev.type \in {"Filled", "FillError", "Created"}
                                 /\ ev.from = r.from /\ PostMail(ev)
    PROVE  Patient'
<1> USE DEF Sound
<1>1. /\ r \in Requests /\ r.type = type /\ Asks = {r} \union Asks' /\ r \in Asks
      /\ TakesOff(r, maildb, maildb')
  BY ServedRequest
<1>2. UNCHANGED <<here, clients, mails, bus, shown, awaiting, habit>> /\ Rides' = Rides
  BY DEF Serves, Rides
<1>3. ASSUME "hasty" \notin habit, NEW d \in Characters PROVE Waiting(d)'
  <2>1. Waiting(d)
    BY <1>3 DEF Patient
  <2>2. PICK L : L = LetterOf(d)
    OBVIOUS
  <2>3. PICK R : R = RequestOf(d)
    OBVIOUS
  <2>4. RequestOf(d)' = R /\ LetterOf(d)' = L /\ (r \in R <=> r.from = d)
    BY <1>1, <2>2, <2>3 DEF RequestOf, LetterOf
  <2>5. Asking(d)' <=> Asking(d) /\ r.from # d
    <3>1. r.from # d => (Asking(d)' <=> Asking(d))
      BY <1>1, <2>3, <2>4 DEF Asking
    <3>2. r.from = d => ~Asking(d)'
      BY <1>1, <2>1, <2>3, <2>4 DEF Waiting, TakesOff, Asking, Asks
    <3> QED BY <3>1, <3>2
  <2>6. r.from = d => Asking(d) /\ ~Posting(d) /\ d \in awaiting
    BY <1>1, <2>1, <2>3, <2>4 DEF Asking, Waiting
  <2>7. Single(maildb', R)
    BY <1>1, <2>1, <2>3 DEF Waiting, TakesOff
  <2>8. CASE UNCHANGED mailq /\ "dberror" \in habit
    <3>1. Posts' = Posts
      BY <2>8 DEF Posts
    <3>2. (Posting(d)' <=> Posting(d)) /\ (Busy(d)' <=> Busy(d)) /\ (Quiet(d)' <=> Quiet(d))
      BY <1>2, <2>2, <2>4, <3>1 DEF Posting, Busy, Quiet
    <3> QED BY <1>2, <2>1, <2>2, <2>4, <2>5, <2>7, <2>8, <3>2 DEF Waiting
  <2>9. ASSUME NEW ev \in Events, ev.type \in {"Filled", "FillError", "Created"},
               ev.from = r.from, PostMail(ev)
        PROVE  Waiting(d)'
    <3>1. Posts' = Posts \union {ev} /\ PutsOn(ev, mailq, mailq')
      BY <2>9, PostedEvent
    <3>2. ev \in L <=> r.from = d
      BY <2>2, <2>9 DEF LetterOf
    <3>3. Posting(d)' <=> Posting(d) \/ r.from = d
      BY <2>2, <2>4, <3>1, <3>2 DEF Posting
    <3>4. Single(mailq', L)
      <4>1. ev \notin L \/ Posts \intersect L = {}
        BY <2>2, <2>6, <3>2 DEF Posting
      <4> QED BY <2>1, <2>2, <3>1, <4>1 DEF Waiting, PutsOn, Posts
    <3>5. Busy(d)' => Busy(d)
      BY <1>2, <2>6, <2>9, <3>1 DEF Busy
    <3>6. Quiet(d) => Quiet(d)'
      BY <1>2, <2>9, <3>1 DEF Quiet, Reports
    <3> QED BY <1>2, <2>1, <2>4, <2>5, <2>6, <2>7, <3>3, <3>4, <3>5, <3>6 DEF Waiting
  <2> QED BY <2>8, <2>9
<1> QED BY <1>2, <1>3 DEF Patient

LEMMA FillSound ==
    ASSUME MailTyped, Sound, fillEmailRecipientId
    PROVE  Sound'
<1> USE DEF Sound
<1>0. PICK r : r = Head(maildb)
  OBVIOUS
<1>1. Serves("Fill") /\ UNCHANGED dbmails
  BY DEF fillEmailRecipientId
<1>2. /\ r \in Requests /\ r.type = "Fill" /\ Asks = {r} \union Asks' /\ r \in Asks
  BY <1>0, <1>1, ServedRequest
<1>3. r.from \in Characters /\ r.to \in Ids
      /\ [r EXCEPT !.type = "Filled"] = [type |-> "Filled", from |-> r.from, to |-> r.to]
  BY <1>2, RequestShape
<1>4. PICK ev \in Events : ev = IF r.to \in Characters THEN [type |-> "Filled", from |-> r.from, to |-> r.to]
                                ELSE [type |-> "FillError", from |-> r.from]
  <2>1. /\ [type |-> "Filled", from |-> r.from, to |-> r.to] \in Events
        /\ [type |-> "FillError", from |-> r.from] \in Events
    BY <1>3, MadeEvents
  <2> HIDE DEF Events
  <2> QED BY <2>1
<1>5. PostMail(ev)
  BY <1>0, <1>3, <1>4 DEF fillEmailRecipientId
<1>6. ev.type \in {"Filled", "FillError"} /\ ev.from = r.from
  BY <1>4
<1>7. Answered({"Filled", "FillError"})
  BY <1>5, <1>6 DEF Answered, Reports
<1>8. /\ Posts' = Posts \union {ev}
      /\ \A A, B : First(mailq, A, B) /\ (\A e \in A : e.type \notin {"Filled", "FillError"}) => First(mailq', A, B)
      /\ \A A : Single(mailq, A) /\ (\A e \in A : e.type \notin {"Filled", "FillError"}) => Single(mailq', A)
  BY <1>5, <1>7, PostedEvent, AnsweredKeeps
<1>9. /\ Follows' /\ UNCHANGED <<here, clients, mails, bus, shown, awaiting, habit>> /\ Rides' = Rides
      /\ First(maildb, {AskEmails}, Requests)' /\ AskEmails \notin Asks' /\ AskEmails \notin Asks
      /\ \A id : Marking(id)' <=> Marking(id)
      /\ \A id : Numbered(id)' => Numbered(id)
  <2>1. {"Filled", "FillError"} \intersect {"Read", "Delete"} = {}
    OBVIOUS
  <2> QED BY <1>0, <1>1, <1>7, <2>1, ServedKeeps
<1>10. Loads' <=> Loads
  BY <1>6, <1>8, <1>9 DEF Loads, EmailsCame
<1>11. Kept' /\ Stored' /\ UnreadListed'
  BY <1>1, <1>9 DEF Kept, Stored, UnreadListed
<1>12. Fresh'
  BY <1>1, <1>6, <1>8, <1>9 DEF Fresh
<1>13. OneByOne'
  BY <1>8 DEF OneByOne, CreatedAs
<1>14. LoadsFirst'
  BY <1>8, <1>9 DEF LoadsFirst, EmailsCame
<1>15. StillEmpty'
  BY <1>2, <1>6, <1>8, <1>9, <1>10 DEF StillEmpty, Reports
<1>16. NoneLost'
  BY <1>1, <1>6, <1>8, <1>9, <1>10 DEF NoneLost
<1>17. Patient'
  BY <1>0, <1>1, <1>5, <1>6, LetterPatient
<1> QED BY <1>9, <1>11, <1>12, <1>13, <1>14, <1>15, <1>16, <1>17

(* The letter gets the next number, which nobody knows yet.                *)
LEMMA CreateSound ==
    ASSUME MailTyped, Sound, createEmail
    PROVE  Sound'
<1> USE DEF Sound
<1>0. PICK r : r = Head(maildb)
  OBVIOUS
<1>1. Serves("Create")
  BY DEF createEmail
<1>2. /\ r \in Requests /\ r.type = "Create" /\ Asks = {r} \union Asks' /\ r \in Asks
  BY <1>0, <1>1, ServedRequest
<1>3. r.from \in Characters /\ r.to \in Ids
  BY <1>2, RequestShape
<1>4. ~Loads
  BY <1>2 DEF StillEmpty
<1>5. CASE "dberror" \in habit /\ UNCHANGED <<dbmails, mailq>>
  <2>1. Answered({}) /\ Posts' = Posts
    BY <1>5 DEF Answered, Posts
  <2>2. /\ Follows' /\ UNCHANGED <<here, clients, mails, bus, shown, awaiting, habit>> /\ Rides' = Rides
        /\ First(maildb, {AskEmails}, Requests)' /\ AskEmails \notin Asks'
        /\ \A id : Marking(id)' <=> Marking(id)
        /\ \A id : Numbered(id)' => Numbered(id)
    BY <1>0, <1>1, <2>1, ServedKeeps
  <2>3. ~Loads'
    BY <1>4, <2>1, <2>2 DEF Loads, EmailsCame
  <2>4. Kept' /\ Stored' /\ UnreadListed'
    BY <1>5, <2>2 DEF Kept, Stored, UnreadListed
  <2>5. Fresh'
    BY <1>5, <2>1, <2>2 DEF Fresh
  <2>6. OneByOne' /\ LoadsFirst'
    BY <1>5, <2>2 DEF OneByOne, LoadsFirst, CreatedAs, EmailsCame
  <2>7. StillEmpty'
    BY <2>3 DEF StillEmpty
  <2>8. NoneLost'
    BY <1>4, <1>5, <2>1, <2>2 DEF NoneLost
  <2>9. Patient'
    BY <1>0, <1>1, <1>5, LetterPatient
  <2> QED BY <2>2, <2>4, <2>5, <2>6, <2>7, <2>8, <2>9
<1>6. CASE ~UNCHANGED <<dbmails, mailq>>
  <2>1. PICK n \in Nat : DOMAIN dbmails = 1..n
    BY TypedParts DEF Queued
  <2>2. PICK id : id = n + 1
    OBVIOUS
  <2>3. id \in Nat /\ id \notin DOMAIN dbmails /\ Cardinality(DOMAIN dbmails) + 1 = id
    BY <2>1, <2>2, NextLetter
  <2>4. PICK l : l = [from |-> r.from, to |-> r.to, read |-> FALSE]
    OBVIOUS
  <2>5. PICK ev \in Events : ev = [type |-> "Created", from |-> r.from, to |-> r.to, id |-> id]
    BY <1>3, <2>3, MadeEvents
  <2>6. dbmails' = With(dbmails, id, l) /\ PostMail(ev)
    BY <1>0, <1>6, <2>3, <2>4, <2>5 DEF createEmail
  <2>7. ev.type = "Created" /\ ev.from = r.from /\ ev.to = r.to /\ ev.id = id
    BY <2>5
  <2>8. l.from = r.from /\ l.to = r.to /\ ~l.read
    BY <2>4
  <2>9. /\ DOMAIN dbmails' = DOMAIN dbmails \union {id} /\ dbmails'[id] = l
        /\ \A j \in DOMAIN dbmails : dbmails'[j] = dbmails[j]
    BY <2>3, <2>6 DEF With
  <2>10. Answered({"Created"})
    BY <2>6, <2>7 DEF Answered, Reports
  <2>11. /\ Posts' = Posts \union {ev} /\ PutsOn(ev, mailq, mailq')
         /\ \A A, B : First(mailq, A, B) /\ (\A e \in A : e.type \notin {"Created"}) => First(mailq', A, B)
    BY <2>6, <2>10, PostedEvent, AnsweredKeeps
  <2>12. /\ Follows' /\ UNCHANGED <<here, clients, mails, bus, shown, awaiting, habit>> /\ Rides' = Rides
         /\ First(maildb, {AskEmails}, Requests)' /\ AskEmails \notin Asks'
         /\ \A j : Marking(j)' <=> Marking(j)
         /\ \A j : Numbered(j)' => Numbered(j)
    <3>1. {"Created"} \intersect {"Read", "Delete"} = {}
      OBVIOUS
    <3> QED BY <1>0, <1>1, <2>10, <3>1, ServedKeeps
  <2>13. ~Loads'
    BY <1>4, <2>7, <2>11, <2>12 DEF Loads, EmailsCame
  <2>14. Kept' /\ Stored' /\ UnreadListed'
    BY <2>9, <2>12 DEF Kept, Stored, UnreadListed
  <2>15. Fresh'
    <3>1. id \notin DOMAIN mails /\ ~Numbered(id)
      BY <2>3 DEF Kept, Stored
    <3> QED BY <2>7, <2>8, <2>9, <2>11, <2>12, <3>1 DEF Fresh
  <2>16. OneByOne'
    <3>1. ASSUME NEW j PROVE Single(mailq', CreatedAs(j))
      <4>1. PICK A : A = CreatedAs(j)
        OBVIOUS
      <4>2. ev \notin A \/ Posts \intersect A = {}
        BY <2>3, <2>7, <4>1 DEF CreatedAs, Fresh
      <4>3. Single(mailq, A)
        BY <4>1 DEF OneByOne
      <4> QED BY <2>11, <4>1, <4>2, <4>3 DEF PutsOn, Posts
    <3> QED BY <3>1 DEF OneByOne, CreatedAs
  <2>17. LoadsFirst'
    BY <2>11, <2>12 DEF LoadsFirst, EmailsCame
  <2>18. StillEmpty'
    BY <2>13 DEF StillEmpty
  <2>19. NoneLost'
    BY <1>4, <2>7, <2>9, <2>11, <2>12 DEF NoneLost
  <2>20. Patient'
    BY <1>0, <1>1, <2>6, <2>7, LetterPatient
  <2> QED BY <2>12, <2>14, <2>15, <2>16, <2>17, <2>18, <2>19, <2>20
<1>7. "dberror" \in habit \/ ~UNCHANGED <<dbmails, mailq>>
  BY DEF createEmail, PostMail, With
<1> QED BY <1>5, <1>6, <1>7

LEMMA MarkSound ==
    ASSUME MailTyped, Sound, markEmailAsRead
    PROVE  Sound'
<1> USE DEF Sound
<1>0. PICK r : r = Head(maildb)
  OBVIOUS
<1>1. /\ Serves("MarkAsRead") /\ UNCHANGED mailq
      /\ dbmails' = [id \in DOMAIN dbmails |->
                       IF id = r.id THEN [dbmails[id] EXCEPT !.read = TRUE] ELSE dbmails[id]]
  BY <1>0 DEF markEmailAsRead
<1>2. /\ r \in Requests /\ r.type = "MarkAsRead" /\ Asks = {r} \union Asks' /\ r \in Asks
  BY <1>0, <1>1, ServedRequest
<1>3. r = [type |-> "MarkAsRead", id |-> r.id]
  BY <1>2, RequestShape
<1>4. Marking(r.id) /\ ~Loads
  BY <1>2, <1>3 DEF Marking, StillEmpty
<1>5. Answered({}) /\ Answered({"Emails"}) /\ Posts' = Posts
  BY <1>1 DEF Answered, Posts
<1>6. /\ Follows' /\ UNCHANGED <<here, clients, mails, bus, shown, awaiting, habit>>
      /\ First(maildb, {AskEmails}, Requests)' /\ AskEmails \notin Asks'
      /\ \A id : Marking(id)' => Marking(id)
      /\ \A id : Marking(id) => Marking(id)' \/ id = r.id
      /\ \A id : Numbered(id)' => Numbered(id)
  BY <1>0, <1>1, <1>5, ServedKeeps
<1>7. /\ DOMAIN dbmails' = DOMAIN dbmails
      /\ \A id \in DOMAIN dbmails : /\ dbmails'[id].from = dbmails[id].from
                                   /\ dbmails'[id].to = dbmails[id].to
                                   /\ dbmails'[id].read = IF id = r.id THEN TRUE ELSE dbmails[id].read
  <2>1. \A id \in DOMAIN dbmails : dbmails[id] \in Letters
    BY TypedParts DEF Queued, IsMails
  <2> QED BY <1>1, <2>1, NewLetter
<1>8. ~Loads'
  BY <1>4, <1>5, <1>6 DEF Loads, EmailsCame
<1>9. Kept'
  <2>1. ASSUME NEW id \in DOMAIN mails
        PROVE  /\ id \in DOMAIN dbmails'
               /\ mails[id].from = dbmails'[id].from /\ mails[id].to = dbmails'[id].to
               /\ mails[id].read = dbmails'[id].read \/ Marking(id)'
               /\ Marking(id)' => mails[id].read
    <3>1. /\ id \in DOMAIN dbmails
          /\ mails[id].from = dbmails[id].from /\ mails[id].to = dbmails[id].to
          /\ mails[id].read = dbmails[id].read \/ Marking(id)
          /\ Marking(id) => mails[id].read
      BY DEF Kept
    <3>2. mails[id].read \in BOOLEAN
      BY TypedParts, NewLetter DEF IsMails
    <3>3. CASE id = r.id
      BY <1>4, <1>6, <1>7, <3>1, <3>2, <3>3
    <3>4. CASE id # r.id
      BY <1>6, <1>7, <3>1, <3>4
    <3> QED BY <3>3, <3>4
  <2> QED BY <1>6, <2>1 DEF Kept
<1>10. Stored' /\ UnreadListed'
  BY <1>6, <1>7 DEF Stored, UnreadListed
<1>11. Fresh'
  <2>1. ASSUME NEW ev \in Posts, ev.type = "Created" PROVE ev.id # r.id
    BY <1>4, <2>1 DEF Fresh, Numbered
  <2> QED BY <1>5, <1>6, <1>7, <2>1 DEF Fresh
<1>12. OneByOne' /\ LoadsFirst'
  BY <1>1, <1>6 DEF OneByOne, LoadsFirst, CreatedAs, EmailsCame
<1>13. StillEmpty'
  BY <1>8 DEF StillEmpty
<1>14. NoneLost'
  BY <1>4, <1>5, <1>6, <1>7 DEF NoneLost
<1>15. Patient'
  BY <1>1, <1>5, ServedPatient
<1> QED BY <1>6, <1>9, <1>10, <1>11, <1>12, <1>13, <1>14, <1>15

LEMMA RemoveSound ==
    ASSUME MailTyped, Sound, deleteEmail
    PROVE  Sound'
<1> USE DEF Sound
<1>0. PICK r : r = Head(maildb)
  OBVIOUS
<1>1. Serves("Remove") /\ UNCHANGED <<dbmails, mailq>>
  BY DEF deleteEmail
<1>2. /\ r \in Requests /\ r.type = "Remove" /\ Asks = {r} \union Asks' /\ r \in Asks
  BY <1>0, <1>1, ServedRequest
<1>3. ~Loads
  BY <1>2 DEF StillEmpty
<1>4. Answered({}) /\ Answered({"Emails"}) /\ Posts' = Posts
  BY <1>1 DEF Answered, Posts
<1>5. /\ Follows' /\ UNCHANGED <<here, clients, mails, bus, shown, awaiting, habit>>
      /\ First(maildb, {AskEmails}, Requests)' /\ AskEmails \notin Asks'
      /\ \A id : Marking(id)' <=> Marking(id)
      /\ \A id : Numbered(id)' => Numbered(id)
  BY <1>0, <1>1, <1>4, ServedKeeps
<1>6. ~Loads'
  BY <1>3, <1>4, <1>5 DEF Loads, EmailsCame
<1>7. Kept' /\ Stored' /\ UnreadListed'
  BY <1>1, <1>5 DEF Kept, Stored, UnreadListed
<1>8. Fresh'
  BY <1>1, <1>4, <1>5 DEF Fresh
<1>9. OneByOne' /\ LoadsFirst'
  BY <1>1, <1>5 DEF OneByOne, LoadsFirst, CreatedAs, EmailsCame
<1>10. StillEmpty'
  BY <1>6 DEF StillEmpty
<1>11. NoneLost'
  BY <1>1, <1>3, <1>4, <1>5 DEF NoneLost
<1>12. Patient'
  BY <1>1, <1>4, ServedPatient
<1> QED BY <1>5, <1>7, <1>8, <1>9, <1>10, <1>11, <1>12

LEMMA GetSound ==
    ASSUME MailTyped, Sound, getEmails
    PROVE  Sound'
<1> USE DEF Sound
<1>0. PICK r : r = Head(maildb)
  OBVIOUS
<1>1. Serves("GetEmails") /\ UNCHANGED dbmails
  BY DEF getEmails
<1>2. /\ r \in Requests /\ r.type = "GetEmails" /\ Asks = {r} \union Asks' /\ r \in Asks
  BY <1>0, <1>1, ServedRequest
<1>3. r = AskEmails
  BY <1>2, RequestShape DEF AskEmails
<1>4. EmailsCame \in Events /\ PostMail(EmailsCame) /\ EmailsCame.type = "Emails"
  <2>1. EmailsCame \in Events /\ EmailsCame.type = "Emails"
    BY DEF EmailsCame, Events
  <2> QED BY <2>1 DEF getEmails, EmailsCame
<1>5. Answered({"Emails"})
  BY <1>4 DEF Answered, Reports
<1>6. Posts' = Posts \union {EmailsCame} /\ PutsOn(EmailsCame, mailq, mailq')
  BY <1>4, PostedEvent
<1>7. /\ Follows' /\ UNCHANGED <<here, clients, mails, bus, shown, awaiting, habit>> /\ Rides' = Rides
      /\ First(maildb, {AskEmails}, Requests)' /\ AskEmails \notin Asks'
      /\ \A id : Marking(id)' <=> Marking(id)
      /\ \A id : Numbered(id)' => Numbered(id)
  <2>1. {"Emails"} \intersect {"Read", "Delete"} = {}
    OBVIOUS
  <2> QED BY <1>0, <1>1, <1>5, <2>1, ServedKeeps
<1>8. Loads /\ AskEmails \in Asks /\ \A ev \in Posts : ev.type \notin {"Filled", "FillError", "Emails"}
  BY <1>2, <1>3 DEF Loads, StillEmpty
<1>9. Kept' /\ Stored' /\ UnreadListed'
  BY <1>1, <1>7 DEF Kept, Stored, UnreadListed
<1>10. Fresh'
  BY <1>1, <1>4, <1>6, <1>7 DEF Fresh
<1>11. OneByOne'
  <2>1. ASSUME NEW id PROVE EmailsCame \notin CreatedAs(id)
    BY <1>4 DEF CreatedAs
  <2> QED BY <1>6, <2>1 DEF OneByOne, PutsOn, CreatedAs
<1>12. LoadsFirst'
  <2>1. PICK B : B = EventsOf({"Filled", "FillError", "Emails"})
    OBVIOUS
  <2>2. Posts \intersect B = {} /\ First(mailq, {EmailsCame}, B)
    BY <1>8, <2>1 DEF EventsOf, LoadsFirst
  <2>3. First(mailq', {EmailsCame}, B)
    BY <1>6, <2>2 DEF PutsOn, Posts
  <2> QED BY <1>7, <2>1, <2>3 DEF LoadsFirst, EmailsCame, EventsOf
<1>13. StillEmpty'
  BY <1>2, <1>4, <1>6, <1>7, <1>8 DEF StillEmpty, Reports
<1>14. NoneLost'
  <2>1. Loads'
    BY <1>6 DEF Loads, EmailsCame
  <2> QED BY <1>4, <1>6, <1>7, <2>1 DEF NoneLost
<1>15. Patient'
  BY <1>1, <1>5, ServedPatient
<1> QED BY <1>7, <1>9, <1>10, <1>11, <1>12, <1>13, <1>14, <1>15

-----------------------------------------------------------------------------
(* No answer goes to a map instance that does not exist, as long as those  *)
(* who asked are still there.                                              *)

LEMMA QuietIs ==
    ASSUME MailTyped, NEW c, Quiet(c), NEW b
    PROVE  After(bus, c, After(mailq, c, b)) = b
<1>1. \A ev \in Posts \union Rides : ~Report(ev, c)
  <2>1. Posts \union Rides \subseteq Events
    <3>1. ReportEvents \subseteq Events
      BY DEF ReportEvents, Events
    <3> HIDE DEF Events, ReportEvents
    <3> QED BY <3>1, QueueElements
  <2> QED BY <2>1, ReportIs DEF Quiet
<1>2. ASSUME NEW q, ToSet(q) \subseteq Posts \union Rides, NEW a PROVE After(q, c, a) = a
  <2>1. {i \in DOMAIN q : Report(q[i], c)} = {}
    BY <1>1, <1>2 DEF ToSet
  <2> QED BY <2>1 DEF After, Report
<1>3. After(mailq, c, b) = b
  BY <1>2 DEF Posts
<1>4. After(bus, c, b) = b
  BY <1>2 DEF Rides
<1> QED BY <1>3, <1>4

LEMMA BusyIsKnown ==
    ASSUME MailTyped, Sound, "hasty" \notin habit, NEW c \in Characters, Busy(c)
    PROVE  HasMap(clients, c) /\ c \in DOMAIN clients
<1>1. c \in here /\ Quiet(c)
  BY DEF Sound, Patient, Waiting
<1>2. PICK b : b = HasMap(clients, c)
  OBVIOUS
<1>3. After(bus, c, After(mailq, c, b)) = b
  BY <1>1, QuietIs
<1>4. b
  BY <1>1, <1>2, <1>3 DEF Sound, Follows
<1> QED BY <1>2, <1>4 DEF HasMap, At, Phantom

LEMMA HandlersClean ==
    ASSUME MailTyped, Sound, Clean,
           \/ on_email_send \/ on_fill_email_recipient_id_response
           \/ on_fill_email_recipient_id_error \/ on_email_create_response
           \/ on_email_header \/ on_email_read \/ on_email_delete
           \/ on_client_connected \/ on_client_disconnected \/ on_get_emails_response
    PROVE  Clean'
<1>1. UNCHANGED habit
  BY DEF Got, on_email_send, on_fill_email_recipient_id_response, on_fill_email_recipient_id_error,
         on_email_create_response, on_email_header, on_email_read, on_email_delete,
         on_client_connected, on_client_disconnected, on_get_emails_response
<1> SUFFICES ASSUME habit \intersect {"hasty", "deletes"} = {}
             PROVE  ~crashed' /\ \A c \in DOMAIN clients' : clients'[c].known
  BY <1>1 DEF Clean
<1>2. "hasty" \notin habit /\ "deletes" \notin habit
      /\ ~crashed /\ \A c \in DOMAIN clients : clients[c].known
  BY DEF Clean
<1>3. PICK ev : ev = Head(mailq)
  OBVIOUS
<1>4. ASSUME NEW type, Got(type) PROVE ev \in Posts /\ ev \in Events /\ ev.type = type
  BY <1>3, <1>4, GotEvent
<1>5. \A c \in DOMAIN clients : HasMap(clients, c)
  BY <1>2 DEF HasMap, At
<1>6. ASSUME NEW type, Got(type), type \in {"FillError", "Created", "Header", "Read"}
      PROVE  ev.from \in Characters /\ ev.from \in DOMAIN clients
  <2>1. ev \in Posts /\ ev \in Events /\ ev.type = type
    BY <1>4, <1>6
  <2>2. ev.from \in Characters
    BY <1>6, <2>1, EventShape
  <2>3. Busy(ev.from)
    BY <1>6, <2>1 DEF Busy, Reports
  <2> QED BY <1>2, <2>2, <2>3, BusyIsKnown
<1>7. ASSUME NEW c \in DOMAIN clients
      PROVE  /\ DOMAIN Touched(clients, c, Phantom) = DOMAIN clients
             /\ \A d \in DOMAIN clients : Touched(clients, c, Phantom)[d] = clients[d]
  BY DEF Touched, With, At
<1>8. CASE on_email_send \/ on_fill_email_recipient_id_response \/ on_get_emails_response
  BY <1>2, <1>8 DEF on_email_send, on_fill_email_recipient_id_response, on_get_emails_response
<1>9. CASE on_fill_email_recipient_id_error
  <2>1. /\ Got("FillError") /\ clients' = Touched(clients, ev.from, Phantom)
        /\ crashed' = ~HasMap(clients, ev.from)
    BY <1>3, <1>9 DEF on_fill_email_recipient_id_error
  <2>2. ev.from \in DOMAIN clients
    BY <1>6, <2>1
  <2> QED BY <1>2, <1>5, <1>7, <2>1, <2>2
<1>10. CASE on_email_create_response
  <2>1. PICK cs : cs = Touched(clients, ev.from, Phantom)
    OBVIOUS
  <2>2. /\ Got("Created")
        /\ clients' = IF ev.to \in DOMAIN cs THEN Listed(cs, ev.to, ev.id) ELSE cs
        /\ crashed' = (~HasMap(cs, ev.from) \/ (ev.to \in DOMAIN cs /\ ~HasMap(cs, ev.to)))
    BY <1>3, <1>10, <2>1 DEF on_email_create_response
  <2>3. ev.from \in DOMAIN clients
    BY <1>6, <2>2
  <2>4. DOMAIN cs = DOMAIN clients /\ \A d \in DOMAIN clients : cs[d] = clients[d]
    BY <1>7, <2>1, <2>3
  <2>5. \A d \in DOMAIN clients : HasMap(cs, d)
    BY <1>2, <2>4 DEF HasMap, At
  <2>6. ~crashed'
    BY <2>2, <2>3, <2>4, <2>5
  <2>7. CASE ev.to \notin DOMAIN cs
    BY <1>2, <2>2, <2>4, <2>6, <2>7
  <2>8. CASE ev.to \in DOMAIN cs
    <3>1. PICK S : S = cs[ev.to].received \union {ev.id}
      OBVIOUS
    <3>2. clients' = [cs EXCEPT ![ev.to].received = S]
      BY <2>2, <2>8, <3>1 DEF Listed
    <3>3. IsClients(cs)
      <4>1. ev.from \in Ids
        BY <1>6, <2>2 DEF Ids
      <4> QED BY <2>1, <4>1, TypedParts, NotYet, ClientsWith
    <3>4. S \in SUBSET Nat
      <4>1. ev.id \in Nat
        BY <1>4, <2>2, EventShape
      <4> QED BY <2>8, <3>1, <3>3, <4>1, NewEntry DEF IsClients
    <3>5. DOMAIN clients' = DOMAIN cs /\ \A d \in DOMAIN cs : clients'[d].known = cs[d].known
      BY <2>8, <3>2, <3>3, <3>4, ListSet
    <3> QED BY <1>2, <2>4, <2>6, <3>5
  <2> QED BY <2>7, <2>8
<1>11. CASE on_email_header
  <2>1. /\ Got("Header") /\ clients' = Touched(clients, ev.from, Phantom)
        /\ crashed' = ~HasMap(clients, ev.from)
    BY <1>3, <1>11 DEF on_email_header
  <2>2. ev.from \in DOMAIN clients
    BY <1>6, <2>1
  <2> QED BY <1>2, <1>5, <1>7, <2>1, <2>2
<1>12. CASE on_email_read
  <2>1. Got("Read")
    BY <1>12 DEF on_email_read
  <2>2. ev.id \in DOMAIN mails /\ mails[ev.id].to = ev.from
    BY <1>2, <1>4, <2>1 DEF Sound, NoneLost
  <2>3. PICK c \in DOMAIN clients : c = ev.from
    BY <1>6, <2>1
  <2>4. PICK e : e = [clients[c] EXCEPT !.received = @ \ {ev.id}]
    OBVIOUS
  <2>5. PICK l : l = mails[ev.id]
    OBVIOUS
  <2>6. /\ clients' = With(clients, c, e)
        /\ crashed' = (~HasMap(clients', c) \/ (l.from \in DOMAIN clients' /\ ~HasMap(clients', l.from)))
    BY <1>3, <1>12, <2>2, <2>3, <2>4, <2>5 DEF on_email_read, At
  <2>7. e.known
    <3>1. clients[c] \in Entry
      BY TypedParts DEF IsClients
    <3>2. e.known = clients[c].known
      BY <2>4, <3>1 DEF Entry
    <3> QED BY <1>2, <3>2
  <2>8. DOMAIN clients' = DOMAIN clients /\ \A d \in DOMAIN clients : clients'[d].known
    BY <1>2, <2>6, <2>7 DEF With
  <2>9. \A d \in DOMAIN clients' : HasMap(clients', d)
    BY <2>8 DEF HasMap, At
  <2> QED BY <2>6, <2>8, <2>9
<1>13. CASE on_email_delete
  <2>1. Got("Delete")
    BY <1>13 DEF on_email_delete
  <2> QED BY <1>2, <1>4, <2>1 DEF Sound, NoneLost
<1>14. CASE on_client_connected
  <2>1. PICK e : e = [known |-> TRUE, received |-> {id \in DOMAIN mails : mails[id].to = ev.from}]
    OBVIOUS
  <2>2. clients' = With(clients, ev.from, e) /\ ~crashed' /\ e.known
    BY <1>2, <1>3, <1>14, <2>1 DEF on_client_connected
  <2> QED BY <1>2, <2>2 DEF With
<1>15. CASE on_client_disconnected
  <2>1. clients' = Without(clients, ev.from) /\ ~crashed'
    BY <1>2, <1>3, <1>15 DEF on_client_disconnected
  <2>2. DOMAIN clients' \subseteq DOMAIN clients /\ \A d \in DOMAIN clients' : clients'[d] = clients[d]
    BY <2>1 DEF Without, Restrict
  <2> QED BY <1>2, <2>1, <2>2
<1> QED BY <1>8, <1>9, <1>10, <1>11, <1>12, <1>13, <1>14, <1>15

(* The service starts, for the first time or again.                        *)
Started ==
    /\ here = {} /\ clients = << >> /\ mails = << >>
    /\ mailq = << >> /\ maildb = <<[type |-> "GetEmails"]>> /\ bus = << >>
    /\ shown = [c \in Characters |-> {}] /\ awaiting = {} /\ crashed = FALSE
    /\ IsMails(dbmails) /\ \E n \in Nat : DOMAIN dbmails = 1..n

LEMMA StartedSound == Started => MailInv
<1> SUFFICES ASSUME Started PROVE MailInv
  OBVIOUS
<1>1. AskEmails \in Requests
  BY DEF AskEmails, Requests
<1>2. /\ DOMAIN clients = {} /\ IsClients(clients) /\ DOMAIN mails = {} /\ IsMails(mails)
      /\ \A c \in Characters : shown[c] = {}
  BY DEF Started, IsClients, IsMails, Mapping
<1>3. /\ mailq \in Seq(Events) /\ bus \in Seq(ReportEvents) /\ maildb \in Seq(Requests)
      /\ Len(mailq) = 0 /\ Len(bus) = 0 /\ Len(maildb) = 1 /\ maildb[1] = AskEmails
  <2> HIDE DEF Events, ReportEvents, Requests, AskEmails
  <2>1. maildb = <<AskEmails>>
    BY DEF Started, AskEmails
  <2> QED BY <1>1, <2>1 DEF Started
<1>4. MailTyped
  <2>1. shown \in [Characters -> SUBSET Nat]
    BY DEF Started
  <2>2. Queued
    BY <1>3, <2>1 DEF Started, Queued
  <2> QED BY <1>2, <2>2, TypedParts
<1>5. Posts = {} /\ Rides = {} /\ Asks = {AskEmails}
  <2>1. DOMAIN mailq = {} /\ DOMAIN bus = {} /\ DOMAIN maildb = {1}
    BY <1>3
  <2> QED BY <1>3, <2>1 DEF Posts, Rides, Asks, ToSet
<1>6. Loads /\ \A id : ~Marking(id) /\ ~Numbered(id)
  BY <1>2, <1>5 DEF Loads, Marking, Numbered, AskEmails
<1>7. AskEmails.type = "GetEmails"
  BY DEF AskEmails
<1>8. Kept /\ Stored /\ Fresh /\ NoneLost /\ UnreadListed
  BY <1>2, <1>5, <1>6 DEF Kept, Stored, Fresh, NoneLost, UnreadListed
<1>9. OneByOne /\ LoadsFirst
  BY <1>3 DEF OneByOne, LoadsFirst, Single, First
<1>10. StillEmpty
  BY <1>2, <1>5, <1>7 DEF StillEmpty, Started
<1>11. Follows
  <2>1. \A c : ~HasMap(clients, c)
    BY <1>2 DEF HasMap, At, Phantom
  <2>2. \A c : Quiet(c)
    BY <1>5 DEF Quiet
  <2>3. ASSUME NEW c \in Characters
        PROVE  After(bus, c, After(mailq, c, HasMap(clients, c))) <=> c \in here
    <3>1. PICK b : b = HasMap(clients, c)
      OBVIOUS
    <3>2. After(bus, c, After(mailq, c, b)) = b
      BY <1>4, <2>2, QuietIs
    <3> QED BY <2>1, <3>1, <3>2 DEF Started
  <2> QED BY <2>1, <2>3 DEF Follows
<1>12. Patient
  <2>1. ASSUME NEW c \in Characters PROVE Waiting(c)
    <3>1. c \notin awaiting
      BY DEF Started
    <3>2. ~Busy(c) /\ ~Posting(c) /\ ~Asking(c)
      BY <1>5, <1>7, <3>1 DEF Busy, Posting, Asking, RequestOf
    <3>3. Single(mailq, LetterOf(c)) /\ Single(maildb, RequestOf(c))
      BY <1>3 DEF Single
    <3> QED BY <3>1, <3>2, <3>3 DEF Waiting
  <2> QED BY <2>1 DEF Patient
<1>13. Clean
  BY <1>2 DEF Clean, Started
<1> QED BY <1>4, <1>8, <1>9, <1>10, <1>11, <1>12, <1>13 DEF MailInv, Sound

LEMMA SameClean ==
    ASSUME Clean, ~crashed, UNCHANGED <<clients, habit, crashed>>
    PROVE  Clean'
BY DEF Clean

LEMMA MailStep ==
    ASSUME MailInv, cast \subseteq Characters, MailNext(cast)
    PROVE  MailInv'
<1>1. MailTyped /\ Clean
  BY DEF MailInv
<1>2. ASSUME ~crashed, Sound', Clean', MailTyped' PROVE MailInv'
  BY <1>2 DEF MailInv
<1>3. ASSUME ~crashed PROVE Sound
  BY <1>3 DEF MailInv
<1>4. ASSUME NEW c \in cast, EmailHeaders(c) \/ (\E to \in cast \union {NoOne} : EmailSend(c, to))
             \/ (\E id \in MailIds : EmailRead(c, id) \/ EmailDelete(c, id))
      PROVE  MailInv'
  <2>1. c \in Characters /\ NoOne \in Ids /\ 1 \in Nat
    BY DEF Ids
  <2>2. CASE EmailHeaders(c)
    <3>1. ~crashed /\ UNCHANGED <<clients, habit, crashed>>
      BY <2>2 DEF EmailHeaders, MayAct, playerRest
    <3> QED BY <1>1, <1>2, <1>3, <2>1, <2>2, <3>1, PlayersTyped, PlayersSound, SameClean
  <2>3. ASSUME NEW to \in cast \union {NoOne}, EmailSend(c, to) PROVE MailInv'
    <3>1. ~crashed /\ UNCHANGED <<clients, habit, crashed>> /\ to \in Ids
      BY <2>3 DEF EmailSend, MayAct, playerRest, Ids
    <3> QED BY <1>1, <1>2, <1>3, <2>1, <2>3, <3>1, PlayersTyped, PlayersSound, SameClean
  <2>4. ASSUME NEW id \in MailIds, EmailRead(c, id) \/ EmailDelete(c, id) PROVE MailInv'
    <3>1. ~crashed /\ UNCHANGED <<clients, habit, crashed>> /\ id \in Nat
      BY <2>4 DEF EmailRead, EmailDelete, MayAct, playerRest, MailIds
    <3> QED BY <1>1, <1>2, <1>3, <2>1, <2>4, <3>1, PlayersTyped, PlayersSound, SameClean
  <2> QED BY <1>4, <2>2, <2>3, <2>4
<1>5. ASSUME NEW c \in cast, MailEnters(c) \/ MailLeaves(c) PROVE MailInv'
  <2>1. ~crashed /\ UNCHANGED <<clients, habit, crashed>> /\ c \in Characters
    BY <1>5 DEF MailEnters, MailLeaves, MayAct
  <2> QED BY <1>1, <1>2, <1>3, <1>5, <2>1, ComingTyped, EntersSound, LeavesSound, SameClean
<1>6. CASE BusDelivers
  <2>1. ~crashed /\ UNCHANGED <<clients, habit, crashed>>
    BY <1>6 DEF BusDelivers
  <2>2. MailTyped'
    <3>1. PICK ev \in ReportEvents : ev = Head(bus)
      BY <1>1, <1>6, Taken DEF MailTyped, BusDelivers
    <3>2. ev.from \in Characters
      BY DEF ReportEvents
    <3> QED BY <1>1, <1>6, <3>2, ComingTyped
  <2> QED BY <1>1, <1>2, <1>3, <1>6, <2>1, <2>2, DeliverySound, SameClean
<1>7. CASE \/ on_email_send \/ on_fill_email_recipient_id_response
           \/ on_fill_email_recipient_id_error \/ on_email_create_response
           \/ on_email_header \/ on_email_read \/ on_email_delete
           \/ on_client_connected \/ on_client_disconnected \/ on_get_emails_response
  <2>1. ~crashed
    BY <1>7 DEF Got, on_email_send, on_fill_email_recipient_id_response,
                on_fill_email_recipient_id_error, on_email_create_response,
                on_email_header, on_email_read, on_email_delete,
                on_client_connected, on_client_disconnected, on_get_emails_response
  <2>2. Sound
    BY <1>3, <2>1
  <2>3. MailTyped' /\ Clean'
    BY <1>1, <1>7, <2>2, HandlersTyped, HandlersClean
  <2>4. ASSUME ~crashed' PROVE Sound'
    <3>1. CASE on_email_send
      <4>1. PICK ev : ev = Head(mailq)
        OBVIOUS
      <4>2. Got("Send") /\ UNCHANGED <<clients, mails, shown, awaiting>>
        BY <3>1 DEF on_email_send
      <4>3. ev \in Events /\ ev.type = "Send"
        BY <1>1, <4>1, <4>2, GotEvent
      <4>4. PICK r \in Requests : r = [ev EXCEPT !.type = "Fill"] /\ r.type = "Fill" /\ r.from = ev.from
        BY <4>3, EventShape
      <4>5. AskDatabase(r)
        BY <3>1, <4>1, <4>4 DEF on_email_send
      <4> QED BY <1>1, <2>2, <4>1, <4>2, <4>4, <4>5, ForwardSound
    <3>2. CASE on_fill_email_recipient_id_response
      <4>1. PICK ev : ev = Head(mailq)
        OBVIOUS
      <4>2. Got("Filled") /\ UNCHANGED <<clients, mails, shown, awaiting>>
        BY <3>2 DEF on_fill_email_recipient_id_response
      <4>3. ev \in Events /\ ev.type = "Filled"
        BY <1>1, <4>1, <4>2, GotEvent
      <4>4. PICK r \in Requests : r = [ev EXCEPT !.type = "Create"] /\ r.type = "Create" /\ r.from = ev.from
        BY <4>3, EventShape
      <4>5. AskDatabase(r)
        BY <3>2, <4>1, <4>4 DEF on_fill_email_recipient_id_response
      <4> QED BY <1>1, <2>2, <4>1, <4>2, <4>4, <4>5, ForwardSound
    <3> QED BY <1>1, <1>7, <2>2, <2>4, <3>1, <3>2, FillErrorSound, CreatedSound, HeaderSound, ReadSound,
               DeleteSound, ConnectedSound, DisconnectedSound, EmailsSound
  <2> QED BY <2>3, <2>4 DEF MailInv
<1>8. CASE fillEmailRecipientId \/ createEmail \/ markEmailAsRead \/ deleteEmail \/ getEmails
  <2>1. ~crashed /\ UNCHANGED <<clients, habit, crashed>>
    BY <1>8 DEF Serves, fillEmailRecipientId, createEmail, markEmailAsRead, deleteEmail, getEmails
  <2>2. Sound'
    BY <1>1, <1>3, <1>8, <2>1, FillSound, CreateSound, MarkSound, RemoveSound, GetSound
  <2> QED BY <1>1, <1>2, <1>8, <2>1, <2>2, DatabaseTyped, SameClean
<1>9. CASE Restarts
  <2>1. IsMails(dbmails) /\ \E n \in Nat : DOMAIN dbmails = 1..n
    BY <1>1, TypedParts DEF Queued
  <2>2. Started'
    BY <1>9, <2>1 DEF Restarts, Started, IsMails
  <2> QED BY <2>2, StartedSound, PTL
<1> QED BY <1>4, <1>5, <1>6, <1>7, <1>8, <1>9 DEF MailNext

-----------------------------------------------------------------------------
(* The invariant says what the properties say.                             *)

LEMMA MailIsMirrored == MailInv => MirrorsDatabase
<1> SUFFICES ASSUME MailInv, ~crashed, ~Loading
             PROVE  /\ DOMAIN mails \subseteq DOMAIN dbmails
                    /\ "deletes" \notin habit =>
                          \A id \in DOMAIN dbmails : id \in DOMAIN mails \/ InFlight("Created", id)
                    /\ \A id \in DOMAIN mails :
                          mails[id] = dbmails[id] \/ InFlight("MarkAsRead", id)
  BY DEF MirrorsDatabase
<1>1. MailTyped /\ Sound /\ ~Loads
  BY LoadingIs DEF MailInv
<1>2. ASSUME NEW id, \E ev \in Posts : ev.type = "Created" /\ ev.id = id
      PROVE  InFlight("Created", id)
  <2>1. PICK ev \in Posts : ev.type = "Created" /\ ev.id = id
    BY <1>2
  <2>2. ev \in Events
    BY <1>1, QueueElements
  <2>3. "id" \in DOMAIN ev
    BY <2>1, <2>2 DEF Events
  <2>4. PICK i \in DOMAIN mailq : mailq[i] = ev
    BY DEF Posts, ToSet
  <2> QED BY <2>1, <2>3, <2>4 DEF InFlight
<1>3. ASSUME NEW id, Marking(id) PROVE InFlight("MarkAsRead", id)
  <2>1. PICK r \in Asks : r = [type |-> "MarkAsRead", id |-> id]
    BY <1>3 DEF Marking
  <2>2. "id" \in DOMAIN r /\ r.type = "MarkAsRead" /\ r.id = id
    BY <2>1
  <2>3. PICK i \in DOMAIN maildb : maildb[i] = r
    BY DEF Asks, ToSet
  <2> QED BY <2>2, <2>3 DEF InFlight
<1>4. ASSUME NEW id \in DOMAIN mails, ~Marking(id) PROVE mails[id] = dbmails[id]
  <2>1. /\ id \in DOMAIN dbmails
        /\ mails[id].from = dbmails[id].from /\ mails[id].to = dbmails[id].to
        /\ mails[id].read = dbmails[id].read
    BY <1>1, <1>4 DEF Sound, Kept
  <2>2. mails[id] \in Letters /\ dbmails[id] \in Letters
    BY <1>1, <2>1, TypedParts DEF Queued, IsMails
  <2>3. ASSUME NEW l \in Letters PROVE l = [from |-> l.from, to |-> l.to, read |-> l.read]
    BY DEF Letters
  <2> QED BY <2>1, <2>2, <2>3
<1> QED BY <1>1, <1>2, <1>3, <1>4 DEF Sound, Kept, NoneLost

LEMMA UnreadIsSeen == MailInv => UnreadIsListed
BY DEF MailInv, Sound, Kept, UnreadListed, UnreadIsListed

LEMMA LetterIsComing == MailInv => AnswerIsComing
<1> SUFFICES ASSUME MailInv, ~crashed, habit \intersect {"hasty", "dberror"} = {}, NEW c \in awaiting
             PROVE  \E q \in {mailq, maildb} : \E i \in DOMAIN q :
                        /\ q[i].type \in {"Send", "Fill", "Filled", "FillError", "Create", "Created"}
                        /\ q[i].from = c
  BY DEF AnswerIsComing
<1>1. "hasty" \notin habit /\ "dberror" \notin habit /\ c \in Characters
  BY DEF MailInv, MailTyped
<1>2. Posting(c) \/ Asking(c)
  BY <1>1 DEF MailInv, Sound, Patient, Waiting
<1>3. CASE Posting(c)
  BY <1>3 DEF Posting, LetterOf, Posts, ToSet
<1>4. CASE Asking(c)
  BY <1>4 DEF Asking, RequestOf, Asks, ToSet
<1> QED BY <1>2, <1>3, <1>4

(* The other services leave the mail as it was.                            *)
MailAtRest ==
    /\ clients = << >> /\ awaiting = {} /\ crashed = FALSE
    /\ maildb = <<[type |-> "GetEmails"]>>

LEMMA RestIsLoading == MailAtRest => Loading
<1>1. MailAtRest => Len(maildb) = 1 /\ maildb[1].type = "GetEmails"
  BY DEF MailAtRest
<1>2. MailAtRest => 1 \in DOMAIN maildb
  BY DEF MailAtRest
<1> QED BY <1>1, <1>2 DEF Loading

MailIsSound ==
    /\ cast \subseteq Characters
    /\ service = "mail" => MailInv
    /\ service # "mail" => MailAtRest

LEMMA SameMail ==
    ASSUME MailInv,
           UNCHANGED <<here, clients, mails, dbmails, mailq, maildb, bus, shown, awaiting, habit, crashed>>
    PROVE  MailInv'
<1>1. MailTyped' /\ Clean'
  BY DEF MailInv, MailTyped, Clean
<1>2. Posts' = Posts /\ Asks' = Asks /\ Rides' = Rides
  BY DEF Posts, Asks, Rides
<1>3. /\ Loads' <=> Loads
      /\ \A id : (Marking(id)' <=> Marking(id)) /\ (Numbered(id)' <=> Numbered(id))
  BY <1>2 DEF Loads, Marking, Numbered, EmailsCame
<1>4. ASSUME Sound PROVE Sound'
  <2>1. Kept' /\ Stored' /\ UnreadListed'
    BY <1>3, <1>4 DEF Sound, Kept, Stored, UnreadListed
  <2>2. Fresh' /\ NoneLost'
    BY <1>2, <1>3, <1>4 DEF Sound, Fresh, NoneLost
  <2>3. OneByOne' /\ LoadsFirst' /\ Follows'
    BY <1>4 DEF Sound, OneByOne, LoadsFirst, Follows, CreatedAs, EmailsCame
  <2>4. StillEmpty'
    BY <1>2, <1>3, <1>4 DEF Sound, StillEmpty
  <2>5. Patient'
    <3>1. ASSUME "hasty" \notin habit, NEW c \in Characters PROVE Waiting(c)'
      <4>1. Waiting(c)
        BY <1>4, <3>1 DEF Sound, Patient
      <4>2. (Busy(c)' <=> Busy(c)) /\ (Quiet(c)' <=> Quiet(c))
            /\ (Posting(c)' <=> Posting(c)) /\ (Asking(c)' <=> Asking(c))
        BY <1>2 DEF Busy, Quiet, Posting, Asking
      <4> QED BY <4>1, <4>2 DEF Waiting
    <3> QED BY <3>1 DEF Patient
  <2> QED BY <2>1, <2>2, <2>3, <2>4, <2>5 DEF Sound
<1> QED BY <1>1, <1>4 DEF MailInv

LEMMA MailIsAlwaysSound == Spec => []MailIsSound
<1>1. Init => MailIsSound
  <2> SUFFICES ASSUME Init PROVE MailIsSound
    OBVIOUS
  <2>1. service = "mail" => here = {}
    BY DEF Init, ThereAtStart
  <2>2. IsMails(dbmails) /\ \E n \in Nat : DOMAIN dbmails = 1..n
    <3>1. dbmails = << >>
      BY DEF Init, MailInit
    <3>2. DOMAIN dbmails = {} /\ 0 \in Nat /\ 1..0 = {}
      BY <3>1
    <3>3. IsMails(dbmails)
      BY <3>1 DEF IsMails, Mapping
    <3> QED BY <3>2, <3>3
  <2>3. service = "mail" => Started
    BY <2>1, <2>2 DEF Init, MailInit, Started
  <2>4. MailAtRest
    BY DEF Init, MailInit, MailAtRest
  <2> QED BY <2>3, <2>4, StartedSound DEF MailIsSound, Init
<1>2. MailIsSound /\ [Next]_vars => MailIsSound'
  <2> SUFFICES ASSUME MailIsSound, [Next]_vars PROVE MailIsSound'
    OBVIOUS
  <2>1. UNCHANGED <<service, cast>>
    BY DEF Next, vars
  <2>2. CASE service = "mail" /\ MailNext(cast)
    BY <2>1, <2>2, MailStep DEF MailIsSound
  <2>3. CASE service # "mail" /\ UNCHANGED mailOnly
    BY <2>1, <2>3 DEF MailIsSound, MailAtRest, mailOnly
  <2>4. CASE UNCHANGED <<here, mailOnly>>
    <3>1. UNCHANGED <<here, clients, mails, dbmails, mailq, maildb, bus, shown, awaiting, habit, crashed>>
      BY <2>4 DEF mailOnly
    <3>2. MailInv => MailInv'
      BY <3>1, SameMail
    <3>3. MailAtRest => MailAtRest'
      BY <3>1 DEF MailAtRest
    <3> QED BY <2>1, <3>2, <3>3 DEF MailIsSound
  <2> QED BY <2>2, <2>3, <2>4 DEF Next, vars
<1> QED BY <1>1, <1>2, PTL DEF Spec

(* The letters the service keeps are those in the database, as far as      *)
(* nothing about them is on its way (MirrorsDatabase; EmailHandler.cpp).   *)
THEOREM MailMirrorsDatabase == Spec => []MirrorsDatabase
<1>1. MailIsSound => MirrorsDatabase
  BY MailIsMirrored, RestIsLoading DEF MailIsSound, MirrorsDatabase
<1> QED BY <1>1, MailIsAlwaysSound, PTL

(* A client that is known has each of its unread letters on its list, and  *)
(* no letter that is not kept (UnreadIsListed; on_email_create_response,   *)
(* on_email_read and on_email_delete of EmailHandler.cpp).                 *)
THEOREM UnreadMailIsListed == Spec => []UnreadIsListed
<1>1. MailAtRest => UnreadIsListed
  BY DEF MailAtRest, UnreadIsListed
<1>2. MailIsSound => UnreadIsListed
  BY <1>1, UnreadIsSeen DEF MailIsSound
<1> QED BY <1>2, MailIsAlwaysSound, PTL

(* Whoever waits to hear of a letter it sent has one on its way            *)
(* (AnswerIsComing; the chain of requests of on_email_send).               *)
THEOREM MailIsAnswered == Spec => []AnswerIsComing
<1>1. MailAtRest => AnswerIsComing
  BY DEF MailAtRest, AnswerIsComing
<1>2. MailIsSound => AnswerIsComing
  BY <1>1, LetterIsComing DEF MailIsSound
<1> QED BY <1>2, MailIsAlwaysSound, PTL

(* What the service knows of a client follows its presence on the map      *)
(* (MailFollowsPresence; on_client_connected, on_client_disconnected).     *)
THEOREM MailKnowsWhoIsThere == Spec => []MailFollowsPresence
<1>1. MailInv => EntryFollowsPresence
  BY DEF MailInv, Sound, Follows, EntryFollowsPresence
<1>2. MailIsSound => MailFollowsPresence
  BY <1>1 DEF MailIsSound, MailFollowsPresence
<1> QED BY <1>2, MailIsAlwaysSound, PTL

(* No answer is put on the queue of a map instance that does not exist,    *)
(* where clients wait for their answers and delete nothing                 *)
(* (MailNeverFails; the uses of getMapInstance_Handler).                   *)
THEOREM MailIsSafe == Spec => []MailNeverFails
<1>1. MailAtRest => MailNeverFails
  BY DEF MailAtRest, MailNeverFails
<1>2. MailInv => MailNeverFails
  BY DEF MailInv, Clean, MailNeverFails
<1>3. MailIsSound => MailNeverFails
  BY <1>1, <1>2 DEF MailIsSound
<1> QED BY <1>3, MailIsAlwaysSound, PTL

-----------------------------------------------------------------------------
(* Trays: what is in them, and that nothing is in one twice                *)

Tray(n, S) == [1..n -> S \union {NoItem}]

Items(s, n) == {s[i] : i \in 1..n} \ {NoItem}

Distinct(s, n) == \A i, j \in 1..n : s[i] = s[j] /\ s[i] # NoItem => i = j

LEMMA Trashed ==
    ASSUME NEW n \in Nat, NEW S, NEW s \in Tray(n, S), Distinct(s, n), NEW i \in 1..n,
           NEW r, r = trashEnhancement(s, i)
    PROVE  /\ r \in Tray(n, S) /\ Distinct(r, n) /\ Items(r, n) \subseteq Items(s, n)
           /\ s[i] \notin Items(r, n)
<1>1. /\ r \in Tray(n, S)
      /\ \A j \in 1..n : r[j] = IF j = i THEN NoItem ELSE s[j]
  BY DEF trashEnhancement, Tray
<1> QED BY <1>1 DEF Distinct, Items

LEMMA Lowered ==
    ASSUME NEW n \in Nat, NEW S, NEW s \in Tray(n, S), Distinct(s, n), NEW i \in 1..n,
           NEW r, r = removeInspiration(s, i)
    PROVE  /\ r \in Tray(n, S) /\ Distinct(r, n) /\ Items(r, n) \subseteq Items(s, n)
           /\ s[i] \notin Items(r, n)
<1>1. DOMAIN s = 1..n /\ Len(s) = n
  BY DEF Tray
<1>2. \A j \in 1..n : r[j] = IF j < i THEN s[j] ELSE IF j = n THEN NoItem ELSE s[j + 1]
  BY <1>1 DEF removeInspiration
<1>3. \A j \in 1..n : j # n => j + 1 \in 1..n
  OBVIOUS
<1>4. r \in Tray(n, S)
  <2>1. r = [j \in 1..n |-> r[j]]
    BY <1>1 DEF removeInspiration
  <2>2. \A j \in 1..n : r[j] \in S \union {NoItem}
    BY <1>2, <1>3 DEF Tray
  <2> QED BY <2>1, <2>2 DEF Tray
<1>5. \A j \in 1..n : r[j] # NoItem => \E k \in 1..n : k # i /\ r[j] = s[k] /\ k = IF j < i THEN j ELSE j + 1
  BY <1>2, <1>3
<1>6. Distinct(r, n)
  <2> SUFFICES ASSUME NEW j \in 1..n, NEW m \in 1..n, r[j] = r[m], r[j] # NoItem
               PROVE  j = m
    BY DEF Distinct
  <2>1. PICK k \in 1..n : r[j] = s[k] /\ k = IF j < i THEN j ELSE j + 1
    BY <1>5
  <2>2. PICK l \in 1..n : r[m] = s[l] /\ l = IF m < i THEN m ELSE m + 1
    BY <1>5
  <2>3. k = l
    BY <2>1, <2>2 DEF Distinct
  <2> QED BY <2>1, <2>2, <2>3
<1>7. Items(r, n) \subseteq Items(s, n)
  BY <1>5 DEF Items
<1>8. s[i] \notin Items(r, n)
  <2> SUFFICES ASSUME NEW j \in 1..n, r[j] # NoItem PROVE r[j] # s[i]
    BY DEF Items
  <2>1. PICK k \in 1..n : k # i /\ r[j] = s[k]
    BY <1>5
  <2> QED BY <2>1 DEF Distinct
<1> QED BY <1>4, <1>6, <1>7, <1>8

LEMMA PutIn ==
    ASSUME NEW n \in Nat, NEW S, NEW s \in Tray(n, S), NEW item \in S,
           NEW r, r = addToChar(s, item)
    PROVE  /\ r \in Tray(n, S) /\ Items(r, n) \subseteq Items(s, n) \union {item}
           /\ Distinct(s, n) /\ item \notin Items(s, n) => Distinct(r, n)
<1> DEFINE free == DOMAIN s \ Used(s)
<1>1. DOMAIN s = 1..n
  BY DEF Tray
<1>2. CASE free = {}
  BY <1>2 DEF addToChar
<1>3. CASE free # {}
  <2>1. free \in SUBSET Nat
    BY <1>1
  <2>2. \E m \in free : \A j \in free : m <= j
    <3> HIDE DEF free
    <3> QED BY <1>3, <2>1, Positions!Least
  <2>3. PICK i \in free : i = CHOOSE k \in free : \A j \in free : k <= j
    BY <2>2
  <2>4. r = [s EXCEPT ![i] = item]
    BY <1>3, <2>3 DEF addToChar
  <2>5. i \in 1..n
    BY <1>1, <2>3
  <2>6. r \in Tray(n, S) /\ \A j \in 1..n : r[j] = IF j = i THEN item ELSE s[j]
    BY <2>4, <2>5 DEF Tray
  <2>7. Items(r, n) \subseteq Items(s, n) \union {item}
    BY <2>6 DEF Items
  <2>8. Distinct(s, n) /\ item \notin Items(s, n) => Distinct(r, n)
    BY <2>6 DEF Distinct, Items
  <2> QED BY <2>6, <2>7, <2>8
<1> QED BY <1>2, <1>3

(* What a loop that takes out of s has made                                *)
TakenFrom(n, S, s, r) ==
    /\ r.left \in Tray(n, S) /\ Distinct(r.left, n) /\ Items(r.left, n) \subseteq Items(s, n)
    /\ r.got \in Seq(S)
    /\ \A i, j \in 1..Len(r.got) : r.got[i] = r.got[j] => i = j
    /\ \A i \in 1..Len(r.got) : r.got[i] \in Items(s, n) /\ r.got[i] \notin Items(r.left, n)

LEMMA TakenMore ==
    ASSUME NEW n \in Nat, NEW S, NEW s, NEW r, TakenFrom(n, S, s, r), NEW item \in S,
           item \in Items(r.left, n),
           NEW rest \in Tray(n, S), Distinct(rest, n), Items(rest, n) \subseteq Items(r.left, n),
           item \notin Items(rest, n),
           NEW q, q.left = rest, q.got = Append(r.got, item)
    PROVE  TakenFrom(n, S, s, q)
<1>1. PICK got \in Seq(S) : got = r.got
  BY DEF TakenFrom
<1>2. PICK m \in Nat : m = Len(got)
  OBVIOUS
<1>3. /\ Append(got, item) \in Seq(S) /\ Len(Append(got, item)) = m + 1
      /\ Append(got, item)[m + 1] = item
      /\ \A i \in 1..m : Append(got, item)[i] = got[i]
      /\ \A i \in 1..(m + 1) : i \in 1..m \/ i = m + 1
  BY <1>2
<1>4. \A i \in 1..m : got[i] \in Items(s, n) /\ got[i] \notin Items(r.left, n)
  BY <1>1, <1>2 DEF TakenFrom
<1>5. \A i, j \in 1..m : got[i] = got[j] => i = j
  BY <1>1, <1>2 DEF TakenFrom
<1>6. Items(r.left, n) \subseteq Items(s, n)
  BY DEF TakenFrom
<1>7. \A i \in 1..(m + 1) : /\ Append(got, item)[i] \in Items(s, n)
                            /\ Append(got, item)[i] \notin Items(rest, n)
  BY <1>3, <1>4, <1>6
<1>8. \A i, j \in 1..(m + 1) : Append(got, item)[i] = Append(got, item)[j] => i = j
  BY <1>3, <1>4, <1>5
<1> QED BY <1>1, <1>2, <1>3, <1>6, <1>7, <1>8 DEF TakenFrom

LEMMA ItemAt ==
    ASSUME NEW n \in Nat, NEW S, NEW s \in Tray(n, S), NEW i \in 1..n, s[i] # NoItem
    PROVE  s[i] \in S /\ s[i] \in Items(s, n)
BY DEF Tray, Items

LEMMA ElementIn ==
    ASSUME NEW T, NEW q \in Seq(T), NEW k \in 1..Len(q)
    PROVE  q[k] \in T
OBVIOUS

EnhTaken(base, places, k, r) == TakenFrom(EnhSlots, Enhancements, base.left, r)

InspTaken(base, places, k, r) == TakenFrom(InspRows, Inspirations, base.left, r)

EnhLoop == INSTANCE FoldProofs WITH Op <- TakeEnhancement, Inv <- EnhTaken

InspLoop == INSTANCE FoldProofs WITH Op <- TakeInspiration, Inv <- InspTaken

LEMMA NothingTaken ==
    ASSUME NEW n \in Nat, NEW S, NEW s \in Tray(n, S), Distinct(s, n),
           NEW r, r.left = s, r.got = << >>
    PROVE  TakenFrom(n, S, s, r)
BY DEF TakenFrom

LEMMA EnhancementsTaken ==
    ASSUME NEW s \in Tray(EnhSlots, Enhancements), Distinct(s, EnhSlots),
           NEW places \in Seq(1..EnhSlots)
    PROVE  TakenFrom(EnhSlots, Enhancements, s, removeTradedEnhancements(s, places))
<1>1. EnhSlots \in Nat
  BY TradeAssumption
<1>2. PICK n \in Nat : n = Len(places) /\ DOMAIN places = 1..n
  OBVIOUS
<1>3. PICK base : base = [left |-> s, got |-> << >>]
  OBVIOUS
<1>4. EnhTaken(base, places, 0, base)
  BY <1>1, <1>3, NothingTaken DEF EnhTaken
<1>5. ASSUME NEW k \in 1..n, NEW r, TakenFrom(EnhSlots, Enhancements, s, r)
      PROVE  TakenFrom(EnhSlots, Enhancements, s, TakeEnhancement(r, places[k]))
  <2>1. PICK i \in 1..EnhSlots : i = places[k]
    <3>1. places[k] \in 1..EnhSlots
      BY <1>2, ElementIn
    <3> QED BY <3>1
  <2>2. CASE r.left[i] = NoItem
    BY <1>5, <2>1, <2>2 DEF TakeEnhancement
  <2>3. CASE r.left[i] # NoItem
    <3>1. PICK rest : rest = trashEnhancement(r.left, i)
      OBVIOUS
    <3>2. PICK item \in Enhancements : item = r.left[i] /\ item \in Items(r.left, EnhSlots)
      BY <1>1, <1>5, <2>3, ItemAt DEF TakenFrom
    <3>3. /\ rest \in Tray(EnhSlots, Enhancements) /\ Distinct(rest, EnhSlots)
          /\ Items(rest, EnhSlots) \subseteq Items(r.left, EnhSlots)
          /\ item \notin Items(rest, EnhSlots)
      BY <1>1, <1>5, <3>1, <3>2, Trashed DEF TakenFrom
    <3>4. PICK q : q = TakeEnhancement(r, i)
      OBVIOUS
    <3>5. q.left = rest /\ q.got = Append(r.got, item)
      BY <2>3, <3>1, <3>2, <3>4 DEF TakeEnhancement
    <3> QED BY <1>1, <1>5, <2>1, <3>2, <3>3, <3>4, <3>5, TakenMore
  <2> QED BY <2>2, <2>3
<1>6. EnhTaken(base, places, n, EnhLoop!Folded(base, places, n))
  <2>1. \A k \in 1..n : \A r : EnhTaken(base, places, k - 1, r)
           => EnhTaken(base, places, k, TakeEnhancement(r, places[k]))
    BY <1>3, <1>5 DEF EnhTaken
  <2> QED BY <1>4, <2>1, EnhLoop!FoldInduction
<1>7. removeTradedEnhancements(s, places) = EnhLoop!Folded(base, places, n)
  <2>1. FoldLeft(TakeEnhancement, base, places) = EnhLoop!Folded(base, places, n)
    BY <1>2 DEF EnhLoop!Folded, EnhLoop!MapThenFoldSet, EnhLoop!Max, FoldLeft, MapThenFoldSet, Max
  <2> QED BY <1>3, <2>1 DEF removeTradedEnhancements
<1> QED BY <1>3, <1>6, <1>7 DEF EnhTaken

LEMMA InspirationsTaken ==
    ASSUME NEW s \in Tray(InspRows, Inspirations), Distinct(s, InspRows),
           NEW places \in Seq(1..InspRows)
    PROVE  TakenFrom(InspRows, Inspirations, s, removeTradedInspirations(s, places))
<1>1. InspRows \in Nat
  BY TradeAssumption
<1>2. PICK n \in Nat : n = Len(places) /\ DOMAIN places = 1..n
  OBVIOUS
<1>3. PICK base : base = [left |-> s, got |-> << >>]
  OBVIOUS
<1>4. InspTaken(base, places, 0, base)
  BY <1>1, <1>3, NothingTaken DEF InspTaken
<1>5. ASSUME NEW k \in 1..n, NEW r, TakenFrom(InspRows, Inspirations, s, r)
      PROVE  TakenFrom(InspRows, Inspirations, s, TakeInspiration(r, places[k]))
  <2>1. PICK i \in 1..InspRows : i = places[k]
    <3>1. places[k] \in 1..InspRows
      BY <1>2, ElementIn
    <3> QED BY <3>1
  <2>2. CASE r.left[i] = NoItem
    BY <1>5, <2>1, <2>2 DEF TakeInspiration
  <2>3. CASE r.left[i] # NoItem
    <3>1. PICK rest : rest = removeInspiration(r.left, i)
      OBVIOUS
    <3>2. PICK item \in Inspirations : item = r.left[i] /\ item \in Items(r.left, InspRows)
      BY <1>1, <1>5, <2>3, ItemAt DEF TakenFrom
    <3>3. /\ rest \in Tray(InspRows, Inspirations) /\ Distinct(rest, InspRows)
          /\ Items(rest, InspRows) \subseteq Items(r.left, InspRows)
          /\ item \notin Items(rest, InspRows)
      BY <1>1, <1>5, <3>1, <3>2, Lowered DEF TakenFrom
    <3>4. PICK q : q = TakeInspiration(r, i)
      OBVIOUS
    <3>5. q.left = rest /\ q.got = Append(r.got, item)
      BY <2>3, <3>1, <3>2, <3>4 DEF TakeInspiration
    <3> QED BY <1>1, <1>5, <2>1, <3>2, <3>3, <3>4, <3>5, TakenMore
  <2> QED BY <2>2, <2>3
<1>6. InspTaken(base, places, n, InspLoop!Folded(base, places, n))
  <2>1. \A k \in 1..n : \A r : InspTaken(base, places, k - 1, r)
           => InspTaken(base, places, k, TakeInspiration(r, places[k]))
    BY <1>3, <1>5 DEF InspTaken
  <2> QED BY <1>4, <2>1, InspLoop!FoldInduction
<1>7. removeTradedInspirations(s, places) = InspLoop!Folded(base, places, n)
  <2>1. FoldLeft(TakeInspiration, base, places) = InspLoop!Folded(base, places, n)
    BY <1>2 DEF InspLoop!Folded, InspLoop!MapThenFoldSet, InspLoop!Max, FoldLeft, MapThenFoldSet, Max
  <2> QED BY <1>3, <2>1 DEF removeTradedInspirations
<1> QED BY <1>3, <1>6, <1>7 DEF InspTaken

(* What a loop that puts the first k of these items into s has made        *)
Wares == Enhancements \union Inspirations

AddedTo(s, items, k, r) ==
    /\ r \in Tray(Len(s), Wares) /\ Distinct(r, Len(s))
    /\ Items(r, Len(s)) \subseteq Items(s, Len(s)) \union {items[i] : i \in 1..k}

AddLoop == INSTANCE FoldProofs WITH Op <- addToChar, Inv <- AddedTo

LEMMA AddedMore ==
    ASSUME NEW s, Len(s) \in Nat, NEW items \in Seq(Wares), NEW k \in 1..Len(items),
           \A i, j \in 1..Len(items) : items[i] = items[j] => i = j,
           items[k] \notin Items(s, Len(s)),
           NEW r, AddedTo(s, items, k - 1, r)
    PROVE  AddedTo(s, items, k, addToChar(r, items[k]))
<1>1. PICK n \in Nat : n = Len(s)
  OBVIOUS
<1>2. PICK item \in Wares : item = items[k]
  <2>1. items[k] \in Wares
    BY ElementIn
  <2> QED BY <2>1
<1>3. item \notin Items(r, n)
  <2>1. \A i \in 1..(k - 1) : i \in 1..Len(items) /\ i # k
    OBVIOUS
  <2> QED BY <1>1, <1>2, <2>1 DEF AddedTo
<1>4. r \in Tray(n, Wares) /\ Distinct(r, n)
  BY <1>1 DEF AddedTo
<1>5. PICK q : q = addToChar(r, item)
  OBVIOUS
<1>6. q \in Tray(n, Wares) /\ Distinct(q, n) /\ Items(q, n) \subseteq Items(r, n) \union {item}
  BY <1>3, <1>4, <1>5, PutIn
<1>7. {items[i] : i \in 1..(k - 1)} \union {item} \subseteq {items[i] : i \in 1..k}
  <2>1. k \in 1..k /\ \A i \in 1..(k - 1) : i \in 1..k
    OBVIOUS
  <2> QED BY <1>2, <2>1
<1>8. Items(r, n) \subseteq Items(s, n) \union {items[i] : i \in 1..(k - 1)}
  BY <1>1 DEF AddedTo
<1>9. Items(q, n) \subseteq Items(s, n) \union {items[i] : i \in 1..k}
  BY <1>6, <1>7, <1>8
<1> QED BY <1>1, <1>2, <1>5, <1>6, <1>9 DEF AddedTo

LEMMA ItemsIn ==
    ASSUME NEW n \in Nat, NEW S, NEW T, NEW r \in Tray(n, T)
    PROVE  Items(r, n) \subseteq S => r \in Tray(n, S)
BY DEF Tray, Items

LEMMA TrayIn ==
    ASSUME NEW n \in Nat, NEW S, NEW r \in Tray(n, S)
    PROVE  /\ Items(r, n) \subseteq S /\ Len(r) = n
           /\ \A T : S \subseteq T => r \in Tray(n, T)
BY DEF Tray, Items

LEMMA ItemsAdded ==
    ASSUME NEW n \in Nat, NEW S, S \subseteq Wares, NEW s \in Tray(n, S), Distinct(s, n),
           NEW items \in Seq(S),
           \A i, j \in 1..Len(items) : items[i] = items[j] => i = j,
           \A i \in 1..Len(items) : items[i] \notin Items(s, n),
           NEW r, r = addTraded(s, items)
    PROVE  /\ r \in Tray(n, S) /\ Distinct(r, n)
           /\ Items(r, n) \subseteq Items(s, n) \union {items[i] : i \in 1..Len(items)}
<1>1. PICK m \in Nat : m = Len(items) /\ DOMAIN items = 1..m
  OBVIOUS
<1>2. Len(s) = n /\ s \in Tray(n, Wares) /\ Items(s, n) \subseteq S
  BY TrayIn
<1>3. items \in Seq(Wares)
  OBVIOUS
<1>4. AddedTo(s, items, 0, s)
  BY <1>2 DEF AddedTo
<1>5. \A k \in 1..m : \A q : AddedTo(s, items, k - 1, q) => AddedTo(s, items, k, addToChar(q, items[k]))
  BY <1>1, <1>2, <1>3, AddedMore
<1>6. AddedTo(s, items, m, AddLoop!Folded(s, items, m))
  BY <1>4, <1>5, AddLoop!FoldInduction
<1>7. FoldLeft(addToChar, s, items) = AddLoop!Folded(s, items, m)
  BY <1>1 DEF AddLoop!Folded, AddLoop!MapThenFoldSet, AddLoop!Max, FoldLeft, MapThenFoldSet, Max
<1>8. AddedTo(s, items, m, r)
  BY <1>6, <1>7 DEF addTraded
<1>9. /\ r \in Tray(n, Wares) /\ Distinct(r, n)
      /\ Items(r, n) \subseteq Items(s, n) \union {items[i] : i \in 1..m}
  BY <1>2, <1>8 DEF AddedTo
<1>10. {items[i] : i \in 1..m} \subseteq S
  BY <1>1, ElementIn
<1>11. r \in Tray(n, S)
  BY <1>2, <1>9, <1>10, ItemsIn
<1> QED BY <1>1, <1>9, <1>11

-----------------------------------------------------------------------------
(* The trays of all characters                                             *)

Apart(f, n) ==
    /\ \A c \in Characters : Distinct(f[c], n)
    /\ \A c, d \in Characters : c # d => Items(f[c], n) \intersect Items(f[d], n) = {}

LEMMA ApartChanged ==
    ASSUME NEW n \in Nat, NEW f, Apart(f, n), NEW c \in Characters,
           NEW g, \A e \in Characters : e # c => g[e] = f[e],
           Distinct(g[c], n),
           \A d \in Characters : d # c => Items(g[c], n) \intersect Items(f[d], n) = {}
    PROVE  Apart(g, n)
BY DEF Apart

LEMMA ApartExchanged ==
    ASSUME NEW n \in Nat, NEW S, S \subseteq Wares, NEW f, Apart(f, n),
           NEW c \in Characters, NEW d \in Characters, c # d,
           NEW x, TakenFrom(n, S, f[c], x), NEW y, TakenFrom(n, S, f[d], y),
           NEW g, \A e \in Characters : e \notin {c, d} => g[e] = f[e],
           g[c] = addTraded(x.left, y.got), g[d] = addTraded(y.left, x.got)
    PROVE  g[c] \in Tray(n, S) /\ g[d] \in Tray(n, S) /\ Apart(g, n)
<1>1. PICK a, b : a = Items(f[c], n) /\ b = Items(f[d], n) /\ a \intersect b = {}
  BY DEF Apart
<1>2. PICK xs, ys : xs = x.got /\ ys = y.got
  OBVIOUS
<1>3. /\ x.left \in Tray(n, S) /\ Distinct(x.left, n) /\ Items(x.left, n) \subseteq a
      /\ xs \in Seq(S) /\ \A i, j \in 1..Len(xs) : xs[i] = xs[j] => i = j
  BY <1>1, <1>2 DEF TakenFrom
<1>4. /\ y.left \in Tray(n, S) /\ Distinct(y.left, n) /\ Items(y.left, n) \subseteq b
      /\ ys \in Seq(S) /\ \A i, j \in 1..Len(ys) : ys[i] = ys[j] => i = j
  BY <1>1, <1>2 DEF TakenFrom
<1>5. PICK ga, gb : ga = {xs[i] : i \in 1..Len(xs)} /\ gb = {ys[i] : i \in 1..Len(ys)}
  OBVIOUS
<1>6. ga \subseteq a \ Items(x.left, n) /\ gb \subseteq b \ Items(y.left, n)
  BY <1>1, <1>2, <1>5 DEF TakenFrom
<1>7. /\ \A i \in 1..Len(ys) : ys[i] \notin Items(x.left, n)
      /\ \A i \in 1..Len(xs) : xs[i] \notin Items(y.left, n)
  BY <1>1, <1>3, <1>4, <1>5, <1>6
<1>8. /\ g[c] \in Tray(n, S) /\ Distinct(g[c], n)
      /\ Items(g[c], n) \subseteq Items(x.left, n) \union gb
  <2>1. PICK s \in Tray(n, S) : s = x.left
    BY <1>3
  <2>2. PICK r : r = g[c] /\ r = addTraded(s, ys)
    BY <1>2, <2>1
  <2>3. \A i \in 1..Len(ys) : ys[i] \notin Items(s, n)
    BY <1>7, <2>1
  <2>4. /\ r \in Tray(n, S) /\ Distinct(r, n)
        /\ Items(r, n) \subseteq Items(s, n) \union {ys[i] : i \in 1..Len(ys)}
    <3>1. Distinct(s, n) /\ ys \in Seq(S)
      BY <1>3, <1>4, <2>1
    <3>2. \A i, j \in 1..Len(ys) : ys[i] = ys[j] => i = j
      BY <1>4
    <3>3. r = addTraded(s, ys)
      BY <2>2
    <3> QED BY <2>3, <3>1, <3>2, <3>3, ItemsAdded
  <2> QED BY <1>5, <2>1, <2>2, <2>4
<1>9. /\ g[d] \in Tray(n, S) /\ Distinct(g[d], n)
      /\ Items(g[d], n) \subseteq Items(y.left, n) \union ga
  <2>1. PICK s \in Tray(n, S) : s = y.left
    BY <1>4
  <2>2. PICK r : r = g[d] /\ r = addTraded(s, xs)
    BY <1>2, <2>1
  <2>3. \A i \in 1..Len(xs) : xs[i] \notin Items(s, n)
    BY <1>7, <2>1
  <2>4. /\ r \in Tray(n, S) /\ Distinct(r, n)
        /\ Items(r, n) \subseteq Items(s, n) \union {xs[i] : i \in 1..Len(xs)}
    <3>1. Distinct(s, n) /\ xs \in Seq(S)
      BY <1>4, <1>3, <2>1
    <3>2. \A i, j \in 1..Len(xs) : xs[i] = xs[j] => i = j
      BY <1>3
    <3>3. r = addTraded(s, xs)
      BY <2>2
    <3> QED BY <2>3, <3>1, <3>2, <3>3, ItemsAdded
  <2> QED BY <1>5, <2>1, <2>2, <2>4
<1>10. Items(g[c], n) \subseteq a \union b /\ Items(g[d], n) \subseteq a \union b
  BY <1>3, <1>4, <1>6, <1>8, <1>9
<1>11. Items(g[c], n) \intersect Items(g[d], n) = {}
  BY <1>1, <1>3, <1>4, <1>6, <1>8, <1>9
<1>12. ASSUME NEW e \in Characters, e \notin {c, d}
       PROVE  Items(g[e], n) \intersect (a \union b) = {} /\ Distinct(g[e], n)
  <2>1. Items(f[e], n) \intersect a = {} /\ Items(f[e], n) \intersect b = {} /\ Distinct(f[e], n)
    BY <1>1, <1>12 DEF Apart
  <2> QED BY <1>12, <2>1
<1>13. ASSUME NEW e \in Characters, NEW h \in Characters, e # h, e \notin {c, d}
       PROVE  Items(g[e], n) \intersect Items(g[h], n) = {}
  <2>1. CASE h \in {c, d}
    BY <1>10, <1>12, <1>13, <2>1
  <2>2. CASE h \notin {c, d}
    BY <1>13, <2>2 DEF Apart
  <2> QED BY <2>1, <2>2
<1>14. \A e \in Characters : Distinct(g[e], n)
  BY <1>8, <1>9, <1>12
<1>15. \A e, h \in Characters : e # h => Items(g[e], n) \intersect Items(g[h], n) = {}
  BY <1>11, <1>13
<1> QED BY <1>8, <1>9, <1>14, <1>15 DEF Apart

(* The numbers of trades suffice: a character that is not trading leaves   *)
(* one of them free.                                                       *)
Parties(tr, ts) ==
    /\ tr \in [Characters -> TradeIds \union {NoTrade}]
    /\ DOMAIN ts \subseteq TradeIds
    /\ \A t \in DOMAIN ts : ts[t].a.who = ts[t].b.who => ~ts[t].b.accepted

Held(tr, ts) == \A t \in DOMAIN ts : \E e \in Characters : tr[e] = t

PartyInv == Parties(trade, trades) /\ Held(trade, trades)

LEMMA SetTradesParties ==
    ASSUME NEW tr, NEW ts, NEW accepting, Pointers(tr, ts), Parties(tr, ts),
           SetTrades(tr, ts, accepting)
    PROVE  PartyInv'
<1> DEFINE kept == {t \in DOMAIN ts : \E c \in Characters : tr[c] = t}
<1>1. trade' = tr /\ trades' = [t \in kept |-> ts[t]]
  BY DEF SetTrades, Restrict
<1>2. \A e \in Characters : tr[e] # NoTrade => tr[e] \in kept
  BY DEF Pointers
<1>3. Parties(trade', trades')
  BY <1>1, <1>2 DEF Parties
<1>4. Held(trade', trades')
  BY <1>1 DEF Held
<1> QED BY <1>3, <1>4 DEF PartyInv, Parties, Held

LEMMA DiscardParties ==
    ASSUME NEW cs, TradeInv, PartyInv, discardTrade(cs)
    PROVE  PartyInv'
<1> DEFINE tr == [c \in Characters |-> IF c \in cs THEN NoTrade ELSE trade[c]]
<1>1. SetTrades(tr, trades, {})
  BY DEF discardTrade
<1>2. Pointers(tr, trades)
  BY DEF TradeInv, Pointers
<1>3. Parties(tr, trades)
  BY DEF PartyInv, Parties
<1> HIDE DEF tr
<1> QED BY <1>1, <1>2, <1>3, SetTradesParties

LEMMA EntersParties ==
    ASSUME TradeInv, PartyInv, NEW c \in Characters, TradeEnters(c)
    PROVE  PartyInv'
<1>1. PICK tr : /\ Pointers(tr, trades) /\ SetTrades(tr, trades, {})
                /\ \A e \in Characters : \E f \in Characters : tr[e] = trade[f]
  BY EntersSwaps
<1>2. \A f \in Characters : trade[f] \in TradeIds \union {NoTrade}
  BY DEF PartyInv, Parties
<1>3. \A e \in Characters : tr[e] \in TradeIds \union {NoTrade}
  BY <1>1, <1>2
<1>4. tr \in [Characters -> TradeIds \union {NoTrade}]
  BY <1>1, <1>3 DEF Pointers
<1>5. Parties(tr, trades)
  BY <1>4 DEF PartyInv, Parties
<1> QED BY <1>1, <1>5, SetTradesParties

LEMMA FreeTradeId ==
    ASSUME TradeInv, PartyInv, NEW c \in Characters, trade[c] = NoTrade
    PROVE  \E i \in TradeIds : i \notin DOMAIN trades
<1> SUFFICES ASSUME TradeIds \subseteq DOMAIN trades PROVE FALSE
  OBVIOUS
<1>1. IsFiniteSet(Characters)
  BY TradeAssumption
<1>2. PICK n : n = Cardinality(Characters) /\ n \in Nat
  BY <1>1, FS_CardinalityType
<1>3. PICK rest : rest = Characters \ {c}
  OBVIOUS
<1>4. IsFiniteSet(rest) /\ Cardinality(rest) = n - 1
  BY <1>1, <1>2, <1>3, FS_RemoveElement
<1>5. PICK f : f = [e \in {e \in rest : trade[e] \in TradeIds} |-> trade[e]]
  OBVIOUS
<1>6. PICK trading : trading = {e \in rest : trade[e] \in TradeIds}
  OBVIOUS
<1>7. IsFiniteSet(trading) /\ Cardinality(trading) <= n - 1
  <2>1. trading \in SUBSET rest
    BY <1>6
  <2> QED BY <1>4, <2>1, FS_Subset
<1>8. \A i \in TradeIds : \E e \in trading : f[e] = i
  <2>1. \A i \in TradeIds : i # NoTrade
    BY <1>2 DEF TradeIds, NoTrade
  <2> QED BY <1>3, <1>5, <1>6, <2>1 DEF PartyInv, Held
<1>9. f \in Surjection(trading, TradeIds)
  BY <1>5, <1>6, <1>8 DEF Surjection
<1>10. Cardinality(TradeIds) <= Cardinality(trading)
  BY <1>7, <1>9, FS_Surjection
<1>11. Cardinality(TradeIds) = n
  BY <1>2, FS_Interval DEF TradeIds
<1>12. Cardinality(trading) \in Nat
  BY <1>7, FS_CardinalityType
<1> QED BY <1>2, <1>7, <1>10, <1>11, <1>12

LEMMA RequestParties ==
    ASSUME TradeInv, PartyInv, NEW c \in Characters, NEW d \in Characters, RequestTrade(c, d)
    PROVE  PartyInv'
<1> DEFINE t == CHOOSE i \in TradeIds : i \notin DOMAIN trades
           new(e) == [who |-> e, off |-> NoOffer, accepted |-> FALSE, pact |-> NoPact]
           deal == [a |-> new(c), b |-> new(d)]
           ts == [i \in DOMAIN trades \union {t} |-> IF i = t THEN deal ELSE trades[i]]
           tr == [trade EXCEPT ![c] = t, ![d] = t]
<1>1. SetTrades(tr, ts, {})
  BY DEF RequestTrade
<1>2. deal \in Deals
  BY DEF Deals, Members, Offered
<1>3. ~deal.b.accepted /\ deal.a.who = c /\ deal.b.who = d
  OBVIOUS
<1>4. t \in TradeIds /\ t \notin DOMAIN trades
  BY FreeTradeId DEF RequestTrade
<1>5. DOMAIN ts = DOMAIN trades \union {t} /\ ts[t] = deal
  OBVIOUS
<1>6. \A i \in DOMAIN trades : i # t => ts[i] = trades[i]
  OBVIOUS
<1>7. DOMAIN trade = Characters
  BY DEF TradeInv, Pointers
<1>8. tr = [e \in Characters |-> IF e \in {c, d} THEN t ELSE trade[e]]
  <2> HIDE DEF t
  <2> QED BY <1>7
<1>9. ts \in [DOMAIN ts -> Deals]
  BY <1>2 DEF TradeInv, Pointers
<1> HIDE DEF t, tr, ts, deal
<1>10. Pointers(tr, ts)
  BY <1>5, <1>8, <1>9 DEF TradeInv, Pointers
<1>11. Parties(tr, ts)
  <2>1. tr \in [Characters -> TradeIds \union {NoTrade}] /\ DOMAIN ts \subseteq TradeIds
    BY <1>4, <1>5, <1>8 DEF PartyInv, Parties
  <2>3. \A i \in DOMAIN ts : ts[i].a.who = ts[i].b.who => ~ts[i].b.accepted
    BY <1>3, <1>5, <1>6 DEF PartyInv, Parties
  <2> QED BY <2>1, <2>3 DEF Parties
<1> QED BY <1>1, <1>10, <1>11, SetTradesParties

(* An update leaves both sides with whom they were.  Of a deal a character *)
(* has with itself it only changes side a, so that b never accepts.        *)
LEMMA UpdateParties ==
    ASSUME NEW deal \in Deals, NEW off \in Offered, NEW accepts \in BOOLEAN,
           NEW c, c \in {deal.a.who, deal.b.who}, NEW d, d = getOtherMember(deal, c).who,
           deal.a.who = deal.b.who => ~deal.b.accepted,
           NEW n, n = updateTrade(c, d, deal, off, accepts)
    PROVE  /\ n.a.who = deal.a.who /\ n.b.who = deal.b.who
           /\ n.a.who = n.b.who => ~n.b.accepted
           /\ isAccepted(n) => c # d /\ getMember(n, d).off \in Offered
<1>1. PICK same : same = (off = deal[Side(deal, c)].off)
  OBVIOUS
<1>2. PICK takes : takes = (accepts /\ same /\ hasRoomForTrade(c, off, getOtherMember(deal, c).off))
  OBVIOUS
<1>3. n = [[deal EXCEPT ![Side(deal, d)].accepted = @ /\ same,
                        ![Side(deal, d)].pact = IF same THEN @ ELSE NoPact]
              EXCEPT ![Side(deal, c)].off = off,
                     ![Side(deal, c)].accepted = takes,
                     ![Side(deal, c)].pact = IF takes THEN <<off, getOtherMember(deal, c).off>> ELSE NoPact]
  BY <1>1, <1>2 DEF updateTrade, Updated
<1>4. CASE deal.a.who = c
  <2>1. Side(deal, c) = "a" /\ d = deal.b.who
    BY <1>4 DEF Side, getOtherMember
  <2>2. CASE d = c
    <3>1. Side(deal, d) = "a"
      BY <2>1, <2>2
    <3>2. n.a.who = deal.a.who /\ n.b = deal.b
      BY <1>3, <2>1, <3>1 DEF Deals, Members
    <3> QED BY <1>4, <2>1, <2>2, <3>2 DEF isAccepted
  <2>3. CASE d # c
    <3>1. Side(deal, d) = "b"
      BY <1>4, <2>3 DEF Side
    <3>2. n.a.who = deal.a.who /\ n.b.who = deal.b.who /\ n.b.off = deal.b.off
      BY <1>3, <2>1, <3>1 DEF Deals, Members
    <3> QED BY <1>4, <2>1, <2>3, <3>2 DEF getMember, Side, Deals, Members
  <2> QED BY <2>2, <2>3
<1>5. CASE deal.a.who # c
  <2>1. Side(deal, c) = "b" /\ d = deal.a.who /\ Side(deal, d) = "a" /\ deal.b.who = c
    BY <1>5 DEF Side, getOtherMember
  <2>2. n.a.who = deal.a.who /\ n.b.who = deal.b.who /\ n.a.off = deal.a.off
    BY <1>3, <2>1 DEF Deals, Members
  <2> QED BY <1>5, <2>1, <2>2 DEF isAccepted, getMember, Side, Deals, Members
<1> QED BY <1>4, <1>5

LEMMA UpdatedParties ==
    ASSUME TradeInv, PartyInv, NEW c \in Characters, NEW off \in Offered, NEW accepts \in BOOLEAN,
           c \in {trades[trade[c]].a.who, trades[trade[c]].b.who},
           NEW d, d = getOtherMember(trades[trade[c]], c).who, OnTradeUpdated(c, d, off, accepts)
    PROVE  PartyInv'
<1> DEFINE t == trade[c]
<1>1. PICK deal : deal = updateTrade(c, d, trades[t], off, accepts)
  OBVIOUS
<1>2. t \in DOMAIN trades /\ trades[t] \in Deals
  BY DEF OnTradeUpdated, TradeInv, Pointers
<1>3. CASE discardTrade({c, d})
  BY <1>3, DiscardParties
<1>4. CASE SetTrades(trade, [trades EXCEPT ![t] = deal], IF accepts THEN {c} ELSE {})
  <2>1. Current(trades[t])
    BY <1>2, CurrentDeals DEF TradeInv
  <2>2. deal \in Deals
    BY <1>1, <1>2, <2>1, UpdateKeeps
  <2>3. /\ deal.a.who = trades[t].a.who /\ deal.b.who = trades[t].b.who
        /\ deal.a.who = deal.b.who => ~deal.b.accepted
    <3>1. c \in {trades[t].a.who, trades[t].b.who}
      OBVIOUS
    <3>2. trades[t].a.who = trades[t].b.who => ~trades[t].b.accepted
      BY <1>2 DEF PartyInv, Parties
    <3> QED BY <1>1, <1>2, <3>1, <3>2, UpdateParties
  <2> DEFINE ts == [trades EXCEPT ![t] = deal]
  <2>4. DOMAIN ts = DOMAIN trades /\ ts[t] = deal /\ \A i \in DOMAIN trades : i # t => ts[i] = trades[i]
    BY <1>2
  <2>5. ts \in [DOMAIN ts -> Deals]
    BY <2>2 DEF TradeInv, Pointers
  <2> HIDE DEF t, ts
  <2>6. Pointers(trade, ts)
    BY <2>4, <2>5 DEF TradeInv, Pointers
  <2>7. Parties(trade, ts)
    <3>1. \A i \in DOMAIN trades : ts[i].a.who = trades[i].a.who /\ ts[i].b.who = trades[i].b.who
      BY <2>3, <2>4
    <3>3. \A i \in DOMAIN trades : ts[i].a.who = ts[i].b.who => ~ts[i].b.accepted
      BY <2>3, <2>4 DEF PartyInv, Parties
    <3> QED BY <2>4, <3>1, <3>3 DEF PartyInv, Parties
  <2>8. SetTrades(trade, ts, IF accepts THEN {c} ELSE {})
    BY <1>4 DEF ts
  <2> QED BY <2>6, <2>7, <2>8, SetTradesParties
<1> QED BY <1>1, <1>3, <1>4 DEF OnTradeUpdated

EnhsOf(g) == [c \in Characters |-> g[c].enh]

InspsOf(g) == [c \in Characters |-> g[c].insp]

(* Nobody holds an item twice, and no two hold the same                    *)
HeldApart(g) == Apart(EnhsOf(g), EnhSlots) /\ Apart(InspsOf(g), InspRows)

GoodsInv(g) == g \in [Characters -> Goods] /\ HeldApart(g)

LEMMA GoodsAre ==
    ASSUME NEW h
    PROVE  h \in Goods <=> h = [inf |-> h.inf, enh |-> h.enh, insp |-> h.insp]
                           /\ h.inf \in 0..MaxInf
                           /\ h.enh \in Tray(EnhSlots, Enhancements)
                           /\ h.insp \in Tray(InspRows, Inspirations)
BY DEF Goods, Tray

LEMMA ApartIs ==
    ASSUME NEW f, NEW n
    PROVE  Apart(f, n) <=>
             \A c, d \in Characters : \A i, j \in 1..n :
                f[c][i] = f[d][j] /\ <<c, i>> # <<d, j>> => f[c][i] = NoItem
<1>1. ASSUME Apart(f, n), NEW c \in Characters, NEW d \in Characters,
             NEW i \in 1..n, NEW j \in 1..n, f[c][i] = f[d][j], <<c, i>> # <<d, j>>
      PROVE  f[c][i] = NoItem
  <2>1. CASE c = d
    BY <1>1, <2>1 DEF Apart, Distinct
  <2>2. CASE c # d
    <3>1. Items(f[c], n) \intersect Items(f[d], n) = {}
      BY <1>1, <2>2 DEF Apart
    <3> QED BY <1>1, <3>1 DEF Items
  <2> QED BY <2>1, <2>2
<1>2. ASSUME \A c, d \in Characters : \A i, j \in 1..n :
                f[c][i] = f[d][j] /\ <<c, i>> # <<d, j>> => f[c][i] = NoItem
      PROVE  Apart(f, n)
  <2>1. ASSUME NEW c \in Characters PROVE Distinct(f[c], n)
    BY <1>2 DEF Distinct
  <2>2. ASSUME NEW c \in Characters, NEW d \in Characters, c # d
        PROVE  Items(f[c], n) \intersect Items(f[d], n) = {}
    <3> SUFFICES ASSUME NEW i \in 1..n, NEW j \in 1..n, f[c][i] = f[d][j]
                 PROVE  f[c][i] = NoItem
      BY DEF Items
    <3>1. <<c, i>> # <<d, j>>
      BY <2>2
    <3> QED BY <1>2, <3>1
  <2> QED BY <2>1, <2>2 DEF Apart
<1> QED BY <1>1, <1>2

LEMMA HeldOnceIs == HeldOnce <=> HeldApart(goods)
<1>1. HeldOnce <=>
        /\ \A c, d \in Characters : \A i, j \in 1..EnhSlots :
             EnhsOf(goods)[c][i] = EnhsOf(goods)[d][j] /\ <<c, i>> # <<d, j>>
               => EnhsOf(goods)[c][i] = NoItem
        /\ \A c, d \in Characters : \A i, j \in 1..InspRows :
             InspsOf(goods)[c][i] = InspsOf(goods)[d][j] /\ <<c, i>> # <<d, j>>
               => InspsOf(goods)[c][i] = NoItem
  BY DEF HeldOnce, EnhsOf, InspsOf
<1>2. PICK f, h : f = EnhsOf(goods) /\ h = InspsOf(goods)
  OBVIOUS
<1> QED BY <1>1, <1>2, ApartIs DEF HeldApart

(* What may become of a tray when its owner uses what is in it             *)
Uses(n, S, s, r) == r \in Tray(n, S) /\ Distinct(r, n) /\ Items(r, n) \subseteq Items(s, n)

LEMMA Unused ==
    ASSUME NEW n, NEW S, NEW s \in Tray(n, S), Distinct(s, n)
    PROVE  Uses(n, S, s, s)
BY DEF Uses

LEMMA Moved ==
    ASSUME NEW n \in Nat, NEW S, NEW s \in Tray(n, S), Distinct(s, n),
           NEW i \in 1..n, NEW j \in 1..n, NEW r, r = moveItem(s, i, j)
    PROVE  Uses(n, S, s, r)
<1>1. r \in Tray(n, S)
  BY DEF Tray, moveItem
<1>2. \A k \in 1..n : r[k] = IF k = j THEN s[i] ELSE IF k = i THEN s[j] ELSE s[k]
  BY DEF Tray, moveItem
<1>3. Distinct(r, n)
  BY <1>2 DEF Distinct
<1>4. Items(r, n) \subseteq Items(s, n)
  BY <1>2 DEF Items
<1> QED BY <1>1, <1>3, <1>4 DEF Uses

(* One character's goods may become h: what is new in its trays, X, nobody *)
(* has.                                                                    *)
MayHave(g, c, h, X) ==
    /\ Distinct(h.enh, EnhSlots) /\ Distinct(h.insp, InspRows)
    /\ Items(h.enh, EnhSlots) \subseteq Items(g[c].enh, EnhSlots) \union X
    /\ Items(h.insp, InspRows) \subseteq Items(g[c].insp, InspRows) \union X
    /\ \A d \in Characters : /\ X \intersect Items(g[d].enh, EnhSlots) = {}
                             /\ X \intersect Items(g[d].insp, InspRows) = {}

LEMMA GoodsChanged ==
    ASSUME NEW g, GoodsInv(g), NEW c \in Characters, NEW h \in Goods,
           NEW q, q = [g EXCEPT ![c] = h],
           NEW X, MayHave(g, c, h, X)
    PROVE  GoodsInv(q)
<1>1. g \in [Characters -> Goods] /\ EnhSlots \in Nat /\ InspRows \in Nat
  BY TradeAssumption DEF GoodsInv
<1>2. q \in [Characters -> Goods] /\ q[c] = h /\ \A e \in Characters : e # c => q[e] = g[e]
  <2> HIDE DEF Goods
  <2> QED BY <1>1
<1>3. PICK fe, fi : fe = EnhsOf(g) /\ fi = InspsOf(g)
  OBVIOUS
<1>4. PICK qe, qi : qe = EnhsOf(q) /\ qi = InspsOf(q)
  OBVIOUS
<1>5. /\ Apart(fe, EnhSlots) /\ Apart(fi, InspRows)
      /\ \A e \in Characters : fe[e] = g[e].enh /\ fi[e] = g[e].insp
  BY <1>3 DEF GoodsInv, HeldApart, EnhsOf, InspsOf
<1>6. /\ qe[c] = h.enh /\ qi[c] = h.insp
      /\ \A e \in Characters : e # c => qe[e] = fe[e] /\ qi[e] = fi[e]
  BY <1>2, <1>4, <1>5 DEF EnhsOf, InspsOf
<1>7. \A d \in Characters : d # c => /\ Items(qe[c], EnhSlots) \intersect Items(fe[d], EnhSlots) = {}
                                     /\ Items(qi[c], InspRows) \intersect Items(fi[d], InspRows) = {}
  <2> SUFFICES ASSUME NEW d \in Characters, d # c
               PROVE  /\ Items(qe[c], EnhSlots) \intersect Items(fe[d], EnhSlots) = {}
                      /\ Items(qi[c], InspRows) \intersect Items(fi[d], InspRows) = {}
    OBVIOUS
  <2>1. /\ Items(fe[c], EnhSlots) \intersect Items(fe[d], EnhSlots) = {}
        /\ Items(fi[c], InspRows) \intersect Items(fi[d], InspRows) = {}
    BY <1>5 DEF Apart
  <2> QED BY <1>5, <1>6, <2>1 DEF MayHave
<1>8. Apart(qe, EnhSlots)
  <2>1. Distinct(qe[c], EnhSlots)
    BY <1>6 DEF MayHave
  <2> QED BY <2>1, <1>1, <1>5, <1>6, <1>7, ApartChanged
<1>9. Apart(qi, InspRows)
  <2>1. Distinct(qi[c], InspRows)
    BY <1>6 DEF MayHave
  <2> QED BY <2>1, <1>1, <1>5, <1>6, <1>7, ApartChanged
<1> QED BY <1>2, <1>4, <1>8, <1>9 DEF GoodsInv, HeldApart

LEMMA GoodsUsed ==
    ASSUME NEW g, GoodsInv(g), NEW c \in Characters, NEW inf \in 0..MaxInf,
           NEW enh, Uses(EnhSlots, Enhancements, g[c].enh, enh),
           NEW insp, Uses(InspRows, Inspirations, g[c].insp, insp),
           NEW h, h = [inf |-> inf, enh |-> enh, insp |-> insp],
           NEW q, q = [g EXCEPT ![c] = h]
    PROVE  GoodsInv(q)
<1>2. h \in Goods /\ h.enh = enh /\ h.insp = insp
  <2>1. h.inf = inf /\ h.enh = enh /\ h.insp = insp
    OBVIOUS
  <2> QED BY <2>1, GoodsAre DEF Uses
<1>3. PICK X : X = {}
  OBVIOUS
<1>4. MayHave(g, c, h, X)
  BY <1>2, <1>3 DEF Uses, MayHave
<1> QED BY <1>2, <1>4, GoodsChanged

LEMMA OwnGoods ==
    ASSUME NEW g, GoodsInv(g), NEW c \in Characters
    PROVE  /\ g[c] = [inf |-> g[c].inf, enh |-> g[c].enh, insp |-> g[c].insp]
           /\ g[c].inf \in 0..MaxInf
           /\ g[c].enh \in Tray(EnhSlots, Enhancements) /\ Distinct(g[c].enh, EnhSlots)
           /\ g[c].insp \in Tray(InspRows, Inspirations) /\ Distinct(g[c].insp, InspRows)
           /\ Uses(EnhSlots, Enhancements, g[c].enh, g[c].enh)
           /\ Uses(InspRows, Inspirations, g[c].insp, g[c].insp)
<1>1. g[c] \in Goods
  BY DEF GoodsInv
<1>2. /\ g[c] = [inf |-> g[c].inf, enh |-> g[c].enh, insp |-> g[c].insp]
      /\ g[c].inf \in 0..MaxInf
      /\ g[c].enh \in Tray(EnhSlots, Enhancements) /\ g[c].insp \in Tray(InspRows, Inspirations)
  BY <1>1, GoodsAre
<1>3. Distinct(g[c].enh, EnhSlots) /\ Distinct(g[c].insp, InspRows)
  <2>1. EnhsOf(g)[c] = g[c].enh /\ InspsOf(g)[c] = g[c].insp
    BY DEF EnhsOf, InspsOf
  <2> QED BY <2>1 DEF GoodsInv, HeldApart, Apart
<1> QED BY <1>2, <1>3, Unused

LEMMA PlusFits ==
    ASSUME NEW have \in Int, NEW offered \in Int, NEW got \in Int
    PROVE  Plus(have, offered, got) \in 0..MaxInf
<1>1. PICK m \in Nat \ {0} : m = MaxInf + 1
  BY TradeAssumption
<1>2. PICK x \in Int : x = (have - offered) + got
  OBVIOUS
<1>3. x % m \in 0..(m - 1)
  OBVIOUS
<1> QED BY <1>1, <1>2, <1>3, TradeAssumption DEF Plus

LEMMA OffersAre ==
    ASSUME NEW off \in Offered
    PROVE  off.inf \in Int /\ off.enh \in Seq(1..EnhSlots) /\ off.insp \in Seq(1..InspRows)
<1>1. off \in [inf : 0..MaxInf, enh : Seq(1..EnhSlots), insp : Seq(1..InspRows)] \/ off = NoOffer
  BY TradeAssumption DEF Offered
<1>2. CASE off \in [inf : 0..MaxInf, enh : Seq(1..EnhSlots), insp : Seq(1..InspRows)]
  <2>1. off.inf \in 0..MaxInf /\ off.enh \in Seq(1..EnhSlots) /\ off.insp \in Seq(1..InspRows)
    BY <1>2
  <2> QED BY <2>1, TradeAssumption
<1>3. CASE off = NoOffer
  BY <1>3 DEF NoOffer
<1> QED BY <1>1, <1>2, <1>3

(* A finished trade: what either gives away is taken out of both trays     *)
(* before it is put into the other's, so that nobody gets what another     *)
(* still has.                                                              *)
LEMMA FinishKeeps ==
    ASSUME NEW c \in Characters, NEW d \in Characters, c # d, GoodsInv(goods),
           NEW mine \in Offered, NEW other \in Offered,
           NEW q, q = finishTrade(c, d, mine, other)
    PROVE  GoodsInv(q)
<1> DEFINE ec == removeTradedEnhancements(goods[c].enh, mine.enh)
           ed == removeTradedEnhancements(goods[d].enh, other.enh)
           ic == removeTradedInspirations(goods[c].insp, mine.insp)
           id == removeTradedInspirations(goods[d].insp, other.insp)
<1>1. PICK gc : gc = [inf  |-> Plus(goods[c].inf, mine.inf, other.inf),
                      enh  |-> addTraded(ec.left, ed.got),
                      insp |-> addTraded(ic.left, id.got)]
  OBVIOUS
<1>2. PICK gd : gd = [inf  |-> Plus(goods[d].inf, other.inf, mine.inf),
                      enh  |-> addTraded(ed.left, ec.got),
                      insp |-> addTraded(id.left, ic.got)]
  OBVIOUS
<1>3. q = [goods EXCEPT ![c] = gc, ![d] = gd]
  BY <1>1, <1>2 DEF finishTrade
<1>4. EnhSlots \in Nat /\ InspRows \in Nat
  BY TradeAssumption
<1>5. /\ TakenFrom(EnhSlots, Enhancements, goods[c].enh, ec)
      /\ TakenFrom(EnhSlots, Enhancements, goods[d].enh, ed)
  BY OwnGoods, OffersAre, EnhancementsTaken
<1>6. /\ TakenFrom(InspRows, Inspirations, goods[c].insp, ic)
      /\ TakenFrom(InspRows, Inspirations, goods[d].insp, id)
  BY OwnGoods, OffersAre, InspirationsTaken
<1>7. gc.inf \in 0..MaxInf /\ gd.inf \in 0..MaxInf
  <2>1. goods[c].inf \in Int /\ goods[d].inf \in Int
    <3>1. goods[c].inf \in 0..MaxInf /\ goods[d].inf \in 0..MaxInf
      BY OwnGoods
    <3> QED BY <3>1, TradeAssumption
  <2> QED BY <1>1, <1>2, <2>1, OffersAre, PlusFits
<1> HIDE DEF ec, ed, ic, id
<1>8. /\ gc.enh = addTraded(ec.left, ed.got) /\ gd.enh = addTraded(ed.left, ec.got)
      /\ gc.insp = addTraded(ic.left, id.got) /\ gd.insp = addTraded(id.left, ic.got)
      /\ gc = [inf |-> gc.inf, enh |-> gc.enh, insp |-> gc.insp]
      /\ gd = [inf |-> gd.inf, enh |-> gd.enh, insp |-> gd.insp]
  BY <1>1, <1>2
<1>9. goods \in [Characters -> Goods]
  BY DEF GoodsInv
<1>10. /\ q[c] = gc /\ q[d] = gd /\ DOMAIN q = Characters
       /\ q = [e \in Characters |-> q[e]]
       /\ \A e \in Characters : e \notin {c, d} => q[e] = goods[e]
  BY <1>3, <1>9
<1>11. PICK fe, fi : fe = EnhsOf(goods) /\ fi = InspsOf(goods)
  OBVIOUS
<1>12. PICK qe, qi : qe = EnhsOf(q) /\ qi = InspsOf(q)
  OBVIOUS
<1>13. /\ Apart(fe, EnhSlots) /\ Apart(fi, InspRows)
       /\ \A e \in Characters : fe[e] = goods[e].enh /\ fi[e] = goods[e].insp
  BY <1>11 DEF GoodsInv, HeldApart, EnhsOf, InspsOf
<1>14. /\ \A e \in Characters : e \notin {c, d} => qe[e] = fe[e] /\ qi[e] = fi[e]
       /\ qe[c] = addTraded(ec.left, ed.got) /\ qe[d] = addTraded(ed.left, ec.got)
       /\ qi[c] = addTraded(ic.left, id.got) /\ qi[d] = addTraded(id.left, ic.got)
       /\ qe[c] = gc.enh /\ qe[d] = gd.enh /\ qi[c] = gc.insp /\ qi[d] = gd.insp
  BY <1>8, <1>10, <1>12, <1>13 DEF EnhsOf, InspsOf
<1>15. /\ qe[c] \in Tray(EnhSlots, Enhancements) /\ qe[d] \in Tray(EnhSlots, Enhancements)
       /\ Apart(qe, EnhSlots)
  <2>1. PICK S : S = Enhancements /\ S \subseteq Wares
    BY DEF Wares
  <2>2. TakenFrom(EnhSlots, S, fe[c], ec) /\ TakenFrom(EnhSlots, S, fe[d], ed)
    BY <1>5, <1>13, <2>1
  <2>3. /\ \A e \in Characters : e \notin {c, d} => qe[e] = fe[e]
        /\ qe[c] = addTraded(ec.left, ed.got) /\ qe[d] = addTraded(ed.left, ec.got)
    BY <1>14
  <2>4. Apart(fe, EnhSlots)
    BY <1>13
  <2> QED BY <1>4, <2>1, <2>2, <2>3, <2>4, ApartExchanged
<1>16. /\ qi[c] \in Tray(InspRows, Inspirations) /\ qi[d] \in Tray(InspRows, Inspirations)
       /\ Apart(qi, InspRows)
  <2>1. PICK S : S = Inspirations /\ S \subseteq Wares
    BY DEF Wares
  <2>2. TakenFrom(InspRows, S, fi[c], ic) /\ TakenFrom(InspRows, S, fi[d], id)
    BY <1>6, <1>13, <2>1
  <2>3. /\ \A e \in Characters : e \notin {c, d} => qi[e] = fi[e]
        /\ qi[c] = addTraded(ic.left, id.got) /\ qi[d] = addTraded(id.left, ic.got)
    BY <1>14
  <2>4. Apart(fi, InspRows)
    BY <1>13
  <2> QED BY <1>4, <2>1, <2>2, <2>3, <2>4, ApartExchanged
<1>17. gc \in Goods /\ gd \in Goods
  BY <1>7, <1>8, <1>14, <1>15, <1>16, GoodsAre
<1>18. q \in [Characters -> Goods]
  <2> HIDE DEF Goods
  <2>1. \A e \in Characters : q[e] \in Goods
    BY <1>9, <1>10, <1>17
  <2> QED BY <1>10, <2>1
<1> QED BY <1>12, <1>15, <1>16, <1>18 DEF GoodsInv, HeldApart

LEMMA UpdatedGoods ==
    ASSUME TradeInv, PartyInv, GoodsInv(goods), NEW c \in Characters, NEW off \in Offered,
           NEW accepts \in BOOLEAN, c \in {trades[trade[c]].a.who, trades[trade[c]].b.who},
           NEW d, d = getOtherMember(trades[trade[c]], c).who, OnTradeUpdated(c, d, off, accepts)
    PROVE  GoodsInv(goods')
<1>1. PICK deal : deal = trades[trade[c]] /\ deal \in Deals
  BY DEF OnTradeUpdated, TradeInv, Pointers
<1>2. d = getOtherMember(deal, c).who /\ c \in {deal.a.who, deal.b.who}
  BY <1>1
<1>3. PICK n : n = updateTrade(c, d, deal, off, accepts)
  OBVIOUS
<1>4. CASE UNCHANGED goods
  BY <1>4
<1>5. CASE isAccepted(n) /\ goods' = finishTrade(c, d, off, getMember(n, d).off)
  <2>1. c \in {deal.a.who, deal.b.who} /\ (deal.a.who = deal.b.who => ~deal.b.accepted)
    BY <1>1, <1>2 DEF OnTradeUpdated, PartyInv, Parties, TradeInv, Pointers
  <2>2. c # d /\ getMember(n, d).off \in Offered
    BY <1>1, <1>2, <1>3, <1>5, <2>1, UpdateParties
  <2>3. d \in Characters
    BY <1>1, <1>2 DEF Deals, Members, getOtherMember
  <2> QED BY <1>5, <2>2, <2>3, FinishKeeps
<1> QED BY <1>1, <1>2, <1>3, <1>4, <1>5 DEF OnTradeUpdated

SoldFor(g, enh, inf) == [g EXCEPT !.enh = enh, !.inf = inf]

LEMMA Sold ==
    ASSUME NEW inf, NEW enh, NEW insp, NEW g, g = [inf |-> inf, enh |-> enh, insp |-> insp],
           NEW r, NEW more, NEW h, h = SoldFor(g, r, more)
    PROVE  h = [inf |-> more, enh |-> r, insp |-> insp]
BY DEF SoldFor

LEMMA OwnersChange ==
    ASSUME GoodsInv(goods), NEW c \in Characters, NEW i, NEW j,
           \/ i \in 1..EnhSlots /\ j \in 1..EnhSlots /\ OnMoveEnhancement(c, i, j)
           \/ i \in 1..InspRows /\ j \in 1..InspRows /\ OnMoveInspiration(c, i, j)
           \/ i \in 1..EnhSlots /\ (OnTrashEnhancement(c, i) \/ OnStoreSellItem(c, i))
           \/ i \in 1..InspRows /\ OnActivateInspiration(c, i)
    PROVE  GoodsInv(goods')
<1>1. PICK inf, enh, insp : /\ goods[c] = [inf |-> inf, enh |-> enh, insp |-> insp]
                            /\ inf \in 0..MaxInf
  BY OwnGoods
<1>2. goods[c].inf = inf /\ goods[c].enh = enh /\ goods[c].insp = insp
  BY <1>1
<1>3. /\ enh \in Tray(EnhSlots, Enhancements) /\ Distinct(enh, EnhSlots)
      /\ insp \in Tray(InspRows, Inspirations) /\ Distinct(insp, InspRows)
      /\ Uses(EnhSlots, Enhancements, enh, enh) /\ Uses(InspRows, Inspirations, insp, insp)
  BY <1>2, OwnGoods
<1>4. EnhSlots \in Nat /\ InspRows \in Nat /\ MaxInf \in Nat
  BY TradeAssumption
<1>5. ASSUME i \in 1..EnhSlots, j \in 1..EnhSlots, OnMoveEnhancement(c, i, j)
      PROVE  GoodsInv(goods')
  <2>1. PICK r : r = moveItem(enh, i, j)
    OBVIOUS
  <2>2. Uses(EnhSlots, Enhancements, enh, r)
    BY <1>3, <1>4, <1>5, <2>1, Moved
  <2>3. PICK h : h = [goods[c] EXCEPT !.enh = moveItem(@, i, j)]
    OBVIOUS
  <2>4. h = [inf |-> inf, enh |-> r, insp |-> insp]
    BY <1>1, <2>1, <2>3
  <2>5. goods' = [goods EXCEPT ![c] = h]
    BY <1>5, <2>3 DEF OnMoveEnhancement, SetGoods
  <2> QED BY <1>1, <1>2, <1>3, <2>2, <2>4, <2>5, GoodsUsed
<1>6. ASSUME i \in 1..InspRows, j \in 1..InspRows, OnMoveInspiration(c, i, j)
      PROVE  GoodsInv(goods')
  <2>1. PICK r : r = moveItem(insp, i, j)
    OBVIOUS
  <2>2. Uses(InspRows, Inspirations, insp, r)
    BY <1>3, <1>4, <1>6, <2>1, Moved
  <2>3. PICK h : h = [goods[c] EXCEPT !.insp = moveItem(@, i, j)]
    OBVIOUS
  <2>4. h = [inf |-> inf, enh |-> enh, insp |-> r]
    BY <1>1, <2>1, <2>3
  <2>5. goods' = [goods EXCEPT ![c] = h]
    BY <1>6, <2>3 DEF OnMoveInspiration, SetGoods
  <2> QED BY <1>1, <1>2, <1>3, <2>2, <2>4, <2>5, GoodsUsed
<1>7. ASSUME i \in 1..EnhSlots, OnTrashEnhancement(c, i) \/ OnStoreSellItem(c, i)
      PROVE  GoodsInv(goods')
  <2>1. PICK r : r = trashEnhancement(enh, i)
    OBVIOUS
  <2>2. Uses(EnhSlots, Enhancements, enh, r)
    BY <1>3, <1>4, <1>7, <2>1, Trashed DEF Uses
  <2>3. CASE OnTrashEnhancement(c, i)
    <3>1. PICK h : h = [goods[c] EXCEPT !.enh = trashEnhancement(@, i)]
      OBVIOUS
    <3>2. h = [inf |-> inf, enh |-> r, insp |-> insp]
      BY <1>1, <2>1, <3>1
    <3>3. goods' = [goods EXCEPT ![c] = h]
      BY <2>3, <3>1 DEF OnTrashEnhancement, SetGoods
    <3> QED BY <1>1, <1>2, <1>3, <2>2, <3>2, <3>3, GoodsUsed
  <2>4. CASE OnStoreSellItem(c, i)
    <3>1. PICK more : more = inf + 1
      OBVIOUS
    <3>2. inf < MaxInf
      BY <1>2, <2>4 DEF OnStoreSellItem
    <3>3. more \in 0..MaxInf
      <4>1. inf \in 0..MaxInf
        BY <1>1
      <4> QED BY <1>4, <3>1, <3>2, <4>1
    <3>4. PICK h : h = [goods[c] EXCEPT !.enh = trashEnhancement(@, i), !.inf = @ + 1]
      OBVIOUS
    <3>5. h = [inf |-> more, enh |-> r, insp |-> insp]
      <4>1. goods[c].inf + 1 = more /\ trashEnhancement(goods[c].enh, i) = r
        BY <1>2, <2>1, <3>1
      <4>2. h = SoldFor(goods[c], r, more)
        BY <3>4, <4>1 DEF SoldFor
      <4> QED BY <1>1, <4>2, Sold
    <3>6. goods' = [goods EXCEPT ![c] = h]
      BY <2>4, <3>4 DEF OnStoreSellItem, SetGoods
    <3> QED BY <1>2, <1>3, <2>2, <3>3, <3>5, <3>6, GoodsUsed
  <2> QED BY <1>7, <2>3, <2>4
<1>8. ASSUME i \in 1..InspRows, OnActivateInspiration(c, i)
      PROVE  GoodsInv(goods')
  <2>1. PICK r : r = removeInspiration(insp, i)
    OBVIOUS
  <2>2. Uses(InspRows, Inspirations, insp, r)
    BY <1>3, <1>4, <1>8, <2>1, Lowered DEF Uses
  <2>3. PICK h : h = [goods[c] EXCEPT !.insp = removeInspiration(@, i)]
    OBVIOUS
  <2>4. h = [inf |-> inf, enh |-> enh, insp |-> r]
    BY <1>1, <2>1, <2>3
  <2>5. goods' = [goods EXCEPT ![c] = h]
    BY <1>8, <2>3 DEF OnActivateInspiration, SetGoods
  <2> QED BY <1>1, <1>2, <1>3, <2>2, <2>4, <2>5, GoodsUsed
<1> QED BY <1>5, <1>6, <1>7, <1>8

(* What the store hands over nobody has.                                   *)
LEMMA BuysNew ==
    ASSUME GoodsInv(goods), NEW c \in Characters, NEW item, OnStoreBuyItem(c, item)
    PROVE  GoodsInv(goods')
<1>1. PICK n \in Nat, m \in Nat : n = EnhSlots /\ m = InspRows
  BY TradeAssumption
<1>2. PICK enh : enh = IF item \in Enhancements THEN addToChar(goods[c].enh, item) ELSE goods[c].enh
  OBVIOUS
<1>3. PICK insp : insp = IF item \in Inspirations THEN addToChar(goods[c].insp, item) ELSE goods[c].insp
  OBVIOUS
<1>4. PICK inf : inf = IF goods[c].inf = 0 THEN 0 ELSE goods[c].inf - 1
  OBVIOUS
<1>5. PICK h : h = [inf |-> inf, enh |-> enh, insp |-> insp]
  OBVIOUS
<1>6. goods' = [goods EXCEPT ![c] = h]
  BY <1>2, <1>3, <1>4, <1>5 DEF OnStoreBuyItem, SetGoods
<1>7. PICK X : X = {item} \ {NoItem}
  OBVIOUS
<1>8. ASSUME NEW d \in Characters
      PROVE  X \intersect Items(goods[d].enh, n) = {} /\ X \intersect Items(goods[d].insp, m) = {}
  <2>1. goods[d].enh \in Tray(n, Enhancements) /\ goods[d].insp \in Tray(m, Inspirations)
    BY <1>1, OwnGoods
  <2>2. item \notin Range(goods[d].enh) /\ item \notin Range(goods[d].insp)
    BY DEF OnStoreBuyItem
  <2>3. \A i \in 1..n : goods[d].enh[i] # item
    BY <2>1, <2>2 DEF Range, Tray
  <2>4. \A i \in 1..m : goods[d].insp[i] # item
    BY <2>1, <2>2 DEF Range, Tray
  <2> QED BY <1>7, <2>3, <2>4 DEF Items
<1>9. NoItem \notin Enhancements /\ NoItem \notin Inspirations /\ MaxInf \in Nat
  BY TradeAssumption
<1>10. /\ enh \in Tray(n, Enhancements) /\ Distinct(enh, n)
       /\ Items(enh, n) \subseteq Items(goods[c].enh, n) \union X
  <2>1. PICK s \in Tray(n, Enhancements) : s = goods[c].enh /\ Distinct(s, n)
    BY <1>1, OwnGoods
  <2>2. CASE item \in Enhancements
    <3>1. enh = addToChar(s, item)
      BY <1>2, <2>1, <2>2
    <3>2. item \notin Items(s, n) /\ X = {item}
      BY <1>7, <1>8, <1>9, <2>1, <2>2
    <3> QED BY <2>1, <2>2, <3>1, <3>2, PutIn
  <2>3. CASE item \notin Enhancements
    BY <1>2, <2>1, <2>3
  <2> QED BY <2>2, <2>3
<1>11. /\ insp \in Tray(m, Inspirations) /\ Distinct(insp, m)
       /\ Items(insp, m) \subseteq Items(goods[c].insp, m) \union X
  <2>1. PICK s \in Tray(m, Inspirations) : s = goods[c].insp /\ Distinct(s, m)
    BY <1>1, OwnGoods
  <2>2. CASE item \in Inspirations
    <3>1. insp = addToChar(s, item)
      BY <1>3, <2>1, <2>2
    <3>2. item \notin Items(s, m) /\ X = {item}
      BY <1>7, <1>8, <1>9, <2>1, <2>2
    <3> QED BY <2>1, <2>2, <3>1, <3>2, PutIn
  <2>3. CASE item \notin Inspirations
    BY <1>3, <2>1, <2>3
  <2> QED BY <2>2, <2>3
<1>12. inf \in 0..MaxInf
  <2>1. PICK x \in 0..MaxInf : x = goods[c].inf
    BY OwnGoods
  <2> QED BY <1>4, <1>9, <2>1
<1>13. h.inf = inf /\ h.enh = enh /\ h.insp = insp /\ h = [inf |-> h.inf, enh |-> h.enh, insp |-> h.insp]
  BY <1>5
<1>14. h \in Goods
  BY <1>1, <1>10, <1>11, <1>12, <1>13, GoodsAre
<1>15. MayHave(goods, c, h, X)
  BY <1>1, <1>8, <1>10, <1>11, <1>13 DEF MayHave
<1> QED BY <1>6, <1>14, <1>15, GoodsChanged

(* The inductive invariant of trading                                      *)
DealsInv == TradeInv /\ PartyInv /\ GoodsInv(goods)

LEMMA DealsStep ==
    ASSUME DealsInv, cast \subseteq Characters, NEW leavers, leavers \subseteq cast,
           TradeNext(cast, leavers, stock)
    PROVE  DealsInv'
<1>0. TradeInv /\ PartyInv /\ GoodsInv(goods)
  BY DEF DealsInv
<1>1. TradeInv'
  BY <1>0, TradeStep
<1>2. SUFFICES PartyInv' /\ GoodsInv(goods')
  <2>1. GoodsInv(goods)' <=> GoodsInv(goods')
    BY DEF GoodsInv, HeldApart, EnhsOf, InspsOf
  <2> QED BY <1>1, <2>1 DEF DealsInv
<1>3. ASSUME NEW c \in cast, NEW d \in cast, RequestTrade(c, d) \/ TradeDecline(c, d)
      PROVE  PartyInv' /\ GoodsInv(goods')
  <2>1. UNCHANGED goods
    BY <1>3 DEF RequestTrade, TradeDecline
  <2>2. PartyInv'
    BY <1>0, <1>3, RequestParties, DiscardParties DEF TradeDecline
  <2> QED BY <1>0, <2>1, <2>2
<1>4. ASSUME NEW c \in cast, NEW off \in Offered, NEW accepts \in BOOLEAN,
             WindowUpdated(c, off, accepts)
      PROVE  PartyInv' /\ GoodsInv(goods')
  BY <1>0, <1>4, UpdatedParties, UpdatedGoods DEF WindowUpdated
<1>5. ASSUME UNCHANGED <<trade, trades>>, GoodsInv(goods')
      PROVE  PartyInv' /\ GoodsInv(goods')
  BY <1>0, <1>5 DEF PartyInv, Parties, Held
<1>6. ASSUME NEW c \in cast, NEW i, NEW j,
             \/ i \in 1..EnhSlots /\ j \in 1..EnhSlots /\ OnMoveEnhancement(c, i, j)
             \/ i \in 1..InspRows /\ j \in 1..InspRows /\ OnMoveInspiration(c, i, j)
             \/ i \in 1..EnhSlots /\ (OnTrashEnhancement(c, i) \/ OnStoreSellItem(c, i))
             \/ i \in 1..InspRows /\ OnActivateInspiration(c, i)
      PROVE  PartyInv' /\ GoodsInv(goods')
  <2>1. GoodsInv(goods')
    BY <1>0, <1>6, OwnersChange
  <2>2. UNCHANGED <<trade, trades>>
    BY <1>6 DEF OnMoveEnhancement, OnMoveInspiration, OnTrashEnhancement, OnStoreSellItem,
                OnActivateInspiration, SetGoods
  <2> QED BY <1>5, <2>1, <2>2
<1>7. ASSUME NEW c \in cast, NEW item \in stock, OnStoreBuyItem(c, item)
      PROVE  PartyInv' /\ GoodsInv(goods')
  <2>1. UNCHANGED <<trade, trades>>
    BY <1>7 DEF OnStoreBuyItem, SetGoods
  <2> QED BY <1>0, <1>5, <1>7, <2>1, BuysNew
<1>8. ASSUME NEW c \in cast, AnswerToNobody(c) \/ OnTradeCancelled(c)
      PROVE  PartyInv' /\ GoodsInv(goods')
  <2>1. PartyInv'
    BY <1>0, <1>8, DiscardParties DEF AnswerToNobody, OnTradeCancelled
  <2>2. UNCHANGED goods
    BY <1>8 DEF AnswerToNobody, OnTradeCancelled
  <2> QED BY <1>0, <2>1, <2>2
<1>9. ASSUME NEW c \in cast, TradeEnters(c)
      PROVE  PartyInv' /\ GoodsInv(goods')
  <2>1. UNCHANGED goods
    BY <1>9 DEF TradeEnters
  <2>2. PartyInv'
    BY <1>0, <1>9, EntersParties
  <2> QED BY <1>0, <2>1, <2>2
<1>10. ASSUME NEW c \in cast, TradeLeaves(c)
       PROVE  PartyInv' /\ GoodsInv(goods')
  <2>1. UNCHANGED <<trade, trades, goods>>
    BY <1>10 DEF TradeLeaves
  <2> QED BY <1>0, <1>5, <2>1
<1> QED BY <1>3, <1>4, <1>6, <1>7, <1>8, <1>9, <1>10 DEF TradeNext

(* Trading: as long as the characters come with different items, nothing   *)
(* they do with each other and with the store makes two of one item        *)
(* (HeldOnce; finishTrade, removeTradedEnhancements,                       *)
(* removeTradedInspirations and addTraded of Trade.cpp).                   *)
THEOREM NothingIsDoubled == Spec /\ HeldOnce => []HeldOnce
<1>1. Init /\ HeldOnce => DealsInv /\ cast \subseteq Characters
  <2> SUFFICES ASSUME Init, HeldOnce PROVE DealsInv /\ cast \subseteq Characters
    OBVIOUS
  <2>1. TradeInv
    BY DEF Init, TradeInit, TradeInv, Pointers, AcceptedIsCurrent
  <2>2. PartyInv
    BY DEF Init, TradeInit, PartyInv, Parties, Held
  <2>3. goods \in [Characters -> Goods]
    <3> HIDE DEF Goods
    <3> QED BY ServicesAssumption DEF Init
  <2>4. GoodsInv(goods)
    BY <2>3, HeldOnceIs DEF GoodsInv
  <2> QED BY <2>1, <2>2, <2>4 DEF DealsInv, Init
<1>2. DealsInv /\ cast \subseteq Characters /\ [Next]_vars
      => (DealsInv /\ cast \subseteq Characters)'
  <2> SUFFICES ASSUME DealsInv, cast \subseteq Characters, [Next]_vars
               PROVE  DealsInv' /\ cast' \subseteq Characters
    OBVIOUS
  <2>1. cast' = cast
    BY DEF Next, vars
  <2>2. ASSUME NEW leavers, leavers \subseteq cast, TradeNext(cast, leavers, stock)
        PROVE  DealsInv'
    BY <2>2, DealsStep
  <2>3. CASE UNCHANGED tradeOnly
    <3>1. UNCHANGED <<trade, trades>> /\ UNCHANGED goods
      BY <2>3 DEF tradeOnly
    <3>2. TradeInv'
      BY <3>1, UnchangedTrades DEF DealsInv
    <3>3. PartyInv'
      BY <3>1 DEF DealsInv, PartyInv, Parties, Held
    <3>4. GoodsInv(goods)'
      BY <3>1 DEF DealsInv, GoodsInv, HeldApart, EnhsOf, InspsOf
    <3> QED BY <2>1, <3>2, <3>3, <3>4 DEF DealsInv
  <2> QED BY <2>1, <2>2, <2>3 DEF Next, vars
<1>3. DealsInv => HeldOnce
  BY HeldOnceIs DEF DealsInv, GoodsInv
<1> QED BY <1>1, <1>2, <1>3, PTL DEF Spec
=============================================================================
