------------------------- MODULE ServicesTypesProofs ------------------------
(***************************************************************************)
(* That everything the three services keep has its type, whatever the      *)
(* characters, goods, letters, teams and habits are.  The types of the     *)
(* trades need that a number a trade is kept under stays free of others;   *)
(* those of the mail, that every number a letter is called by is that of a *)
(* letter in the database, and that no more letters are stored or still to *)
(* be stored than were written; those of the teams are theorems already.   *)
(***************************************************************************)
EXTENDS ServicesProofs, TeamProofs

-----------------------------------------------------------------------------
(* The types of the trades and of the goods, which need no more than that  *)
(* characters come with goods                                              *)

Taking(n, S, r) == r.left \in Tray(n, S) /\ r.got \in Seq(S)

LEMMA TakingMore ==
    ASSUME NEW n, NEW S, NEW r, Taking(n, S, r), NEW rest \in Tray(n, S), NEW item \in S,
           NEW q, q.left = rest, q.got = Append(r.got, item)
    PROVE  Taking(n, S, q)
<1>1. r.got \in Seq(S)
  BY DEF Taking
<1>2. Append(r.got, item) \in Seq(S)
  BY <1>1
<1> QED BY <1>2 DEF Taking

LEMMA TrashedTray ==
    ASSUME NEW n \in Nat, NEW S, NEW s \in Tray(n, S), NEW i \in 1..n
    PROVE  trashEnhancement(s, i) \in Tray(n, S)
BY DEF trashEnhancement, Tray

LEMMA LoweredTray ==
    ASSUME NEW n \in Nat, NEW S, NEW s \in Tray(n, S), NEW i \in 1..n
    PROVE  removeInspiration(s, i) \in Tray(n, S)
<1>1. PICK r : r = removeInspiration(s, i)
  OBVIOUS
<1>2. DOMAIN s = 1..n /\ Len(s) = n
  BY DEF Tray
<1>3. \A j \in 1..n : r[j] = IF j < i THEN s[j] ELSE IF j = n THEN NoItem ELSE s[j + 1]
  BY <1>1, <1>2 DEF removeInspiration
<1>4. \A j \in 1..n : j # n => j + 1 \in 1..n
  OBVIOUS
<1>5. r = [j \in 1..n |-> r[j]]
  BY <1>1, <1>2 DEF removeInspiration
<1>6. \A j \in 1..n : r[j] \in S \union {NoItem}
  BY <1>3, <1>4 DEF Tray
<1> QED BY <1>1, <1>5, <1>6 DEF Tray

EnhTyped(base, places, k, r) == Taking(EnhSlots, Enhancements, r)

InspTyped(base, places, k, r) == Taking(InspRows, Inspirations, r)

EnhTypes == INSTANCE FoldProofs WITH Op <- TakeEnhancement, Inv <- EnhTyped

InspTypes == INSTANCE FoldProofs WITH Op <- TakeInspiration, Inv <- InspTyped

LEMMA NothingTyped ==
    ASSUME NEW n, NEW S, NEW s \in Tray(n, S), NEW r, r.left = s, r.got = << >>
    PROVE  Taking(n, S, r)
BY DEF Taking

LEMMA TakesEnhancement ==
    ASSUME NEW r, Taking(EnhSlots, Enhancements, r), NEW i \in 1..EnhSlots
    PROVE  Taking(EnhSlots, Enhancements, TakeEnhancement(r, i))
<1>1. CASE r.left[i] = NoItem
  BY <1>1 DEF TakeEnhancement
<1>2. CASE r.left[i] # NoItem
  <2>1. PICK rest : rest = trashEnhancement(r.left, i)
    OBVIOUS
  <2>2. r.left \in Tray(EnhSlots, Enhancements)
    BY DEF Taking
  <2>3. rest \in Tray(EnhSlots, Enhancements)
    BY <2>1, <2>2, TrashedTray, TradeAssumption
  <2>4. PICK item \in Enhancements : item = r.left[i]
    BY <1>2, <2>2, ItemAt, TradeAssumption
  <2>5. PICK q : q = TakeEnhancement(r, i)
    OBVIOUS
  <2>6. q.left = rest /\ q.got = Append(r.got, item)
    BY <1>2, <2>1, <2>4, <2>5 DEF TakeEnhancement
  <2> QED BY <2>3, <2>5, <2>6, TakingMore
<1> QED BY <1>1, <1>2

LEMMA TakesInspiration ==
    ASSUME NEW r, Taking(InspRows, Inspirations, r), NEW i \in 1..InspRows
    PROVE  Taking(InspRows, Inspirations, TakeInspiration(r, i))
<1>1. CASE r.left[i] = NoItem
  BY <1>1 DEF TakeInspiration
<1>2. CASE r.left[i] # NoItem
  <2>1. PICK rest : rest = removeInspiration(r.left, i)
    OBVIOUS
  <2>2. r.left \in Tray(InspRows, Inspirations)
    BY DEF Taking
  <2>3. rest \in Tray(InspRows, Inspirations)
    BY <2>1, <2>2, LoweredTray, TradeAssumption
  <2>4. PICK item \in Inspirations : item = r.left[i]
    BY <1>2, <2>2, ItemAt, TradeAssumption
  <2>5. PICK q : q = TakeInspiration(r, i)
    OBVIOUS
  <2>6. q.left = rest /\ q.got = Append(r.got, item)
    BY <1>2, <2>1, <2>4, <2>5 DEF TakeInspiration
  <2> QED BY <2>3, <2>5, <2>6, TakingMore
<1> QED BY <1>1, <1>2

LEMMA EnhancementsTyped ==
    ASSUME NEW s \in Tray(EnhSlots, Enhancements), NEW places \in Seq(1..EnhSlots)
    PROVE  Taking(EnhSlots, Enhancements, removeTradedEnhancements(s, places))
<1>1. PICK n \in Nat : n = Len(places) /\ DOMAIN places = 1..n
  OBVIOUS
<1>2. PICK base : base = [left |-> s, got |-> << >>]
  OBVIOUS
<1>3. EnhTyped(base, places, 0, base)
  BY <1>2, NothingTyped DEF EnhTyped
<1>4. \A k \in 1..n : \A r : EnhTyped(base, places, k - 1, r)
           => EnhTyped(base, places, k, TakeEnhancement(r, places[k]))
  <2>1. \A k \in 1..n : places[k] \in 1..EnhSlots
    BY <1>1, ElementIn
  <2> QED BY <2>1, TakesEnhancement DEF EnhTyped
<1>5. EnhTyped(base, places, n, EnhTypes!Folded(base, places, n))
  BY <1>3, <1>4, EnhTypes!FoldInduction
<1>6. removeTradedEnhancements(s, places) = EnhTypes!Folded(base, places, n)
  <2>1. FoldLeft(TakeEnhancement, base, places) = EnhTypes!Folded(base, places, n)
    BY <1>1 DEF EnhTypes!Folded, EnhTypes!MapThenFoldSet, EnhTypes!Max, FoldLeft, MapThenFoldSet, Max
  <2> QED BY <1>2, <2>1 DEF removeTradedEnhancements
<1> QED BY <1>5, <1>6 DEF EnhTyped

LEMMA InspirationsTyped ==
    ASSUME NEW s \in Tray(InspRows, Inspirations), NEW places \in Seq(1..InspRows)
    PROVE  Taking(InspRows, Inspirations, removeTradedInspirations(s, places))
<1>1. PICK n \in Nat : n = Len(places) /\ DOMAIN places = 1..n
  OBVIOUS
<1>2. PICK base : base = [left |-> s, got |-> << >>]
  OBVIOUS
<1>3. InspTyped(base, places, 0, base)
  BY <1>2, NothingTyped DEF InspTyped
<1>4. \A k \in 1..n : \A r : InspTyped(base, places, k - 1, r)
           => InspTyped(base, places, k, TakeInspiration(r, places[k]))
  <2>1. \A k \in 1..n : places[k] \in 1..InspRows
    BY <1>1, ElementIn
  <2> QED BY <2>1, TakesInspiration DEF InspTyped
<1>5. InspTyped(base, places, n, InspTypes!Folded(base, places, n))
  BY <1>3, <1>4, InspTypes!FoldInduction
<1>6. removeTradedInspirations(s, places) = InspTypes!Folded(base, places, n)
  <2>1. FoldLeft(TakeInspiration, base, places) = InspTypes!Folded(base, places, n)
    BY <1>1 DEF InspTypes!Folded, InspTypes!MapThenFoldSet, InspTypes!Max, FoldLeft, MapThenFoldSet, Max
  <2> QED BY <1>2, <2>1 DEF removeTradedInspirations
<1> QED BY <1>5, <1>6 DEF InspTyped

(* A loop that puts things into a tray s, whose length and contents the    *)
(* loop's base tells                                                       *)
GivenTo(s, items, k, r) == \A n \in Nat : \A S : s \in Tray(n, S) /\ items \in Seq(S) => r \in Tray(n, S)

GiveLoop == INSTANCE FoldProofs WITH Op <- addToChar, Inv <- GivenTo

LEMMA TrayGiven ==
    ASSUME NEW n \in Nat, NEW S, NEW s \in Tray(n, S), NEW items \in Seq(S)
    PROVE  addTraded(s, items) \in Tray(n, S)
<1>1. PICK m \in Nat : m = Len(items) /\ DOMAIN items = 1..m
  OBVIOUS
<1>2. GivenTo(s, items, 0, s)
  BY DEF GivenTo
<1>3. ASSUME NEW k \in 1..m, NEW r, GivenTo(s, items, k - 1, r)
      PROVE  GivenTo(s, items, k, addToChar(r, items[k]))
  <2> SUFFICES ASSUME NEW l \in Nat, NEW T, s \in Tray(l, T), items \in Seq(T)
               PROVE  addToChar(r, items[k]) \in Tray(l, T)
    BY DEF GivenTo
  <2>1. r \in Tray(l, T)
    BY <1>3 DEF GivenTo
  <2>2. items[k] \in T
    BY <1>1, ElementIn
  <2> QED BY <2>1, <2>2, PutIn
<1>4. GivenTo(s, items, m, GiveLoop!Folded(s, items, m))
  <2>1. \A k \in 1..m : \A r : GivenTo(s, items, k - 1, r) => GivenTo(s, items, k, addToChar(r, items[k]))
    BY <1>3
  <2> QED BY <1>2, <2>1, GiveLoop!FoldInduction
<1>5. addTraded(s, items) = GiveLoop!Folded(s, items, m)
  BY <1>1 DEF addTraded, GiveLoop!Folded, GiveLoop!MapThenFoldSet, GiveLoop!Max, FoldLeft,
              MapThenFoldSet, Max
<1> QED BY <1>4, <1>5 DEF GivenTo

LEMMA OwnTypes ==
    ASSUME NEW g \in [Characters -> Goods], NEW c \in Characters
    PROVE  /\ g[c] = [inf |-> g[c].inf, enh |-> g[c].enh, insp |-> g[c].insp]
           /\ g[c].inf \in 0..MaxInf
           /\ g[c].enh \in Tray(EnhSlots, Enhancements)
           /\ g[c].insp \in Tray(InspRows, Inspirations)
BY GoodsAre

LEMMA MadeGoods ==
    ASSUME NEW inf \in 0..MaxInf, NEW enh \in Tray(EnhSlots, Enhancements),
           NEW insp \in Tray(InspRows, Inspirations),
           NEW h, h = [inf |-> inf, enh |-> enh, insp |-> insp]
    PROVE  h \in Goods
<1>1. h.inf = inf /\ h.enh = enh /\ h.insp = insp
  OBVIOUS
<1> QED BY <1>1, GoodsAre

(* A finished trade leaves both with goods, whatever the windows named.    *)
LEMMA FinishTyped ==
    ASSUME NEW c \in Characters, NEW d \in Characters, goods \in [Characters -> Goods],
           NEW mine \in Offered, NEW other \in Offered,
           NEW q, q = finishTrade(c, d, mine, other)
    PROVE  q \in [Characters -> Goods]
<1> DEFINE ec == removeTradedEnhancements(goods[c].enh, mine.enh)
           ed == removeTradedEnhancements(goods[d].enh, other.enh)
           ic == removeTradedInspirations(goods[c].insp, mine.insp)
           id == removeTradedInspirations(goods[d].insp, other.insp)
<1>1. PICK gc : gc = [inf  |-> Plus(goods[c].inf, mine.inf, other.inf),
                      enh  |-> addTraded(ec.left, ed.got),
                      insp |-> addTraded(ic.left, id.got)]
  OBVIOUS
<1>2. PICK gd : gd = [inf  |-> Plus(goods[d].inf, other.inf, mine.inf),
                      enh  |-> addTraded(ed.left, ec.got),
                      insp |-> addTraded(id.left, ic.got)]
  OBVIOUS
<1>3. q = [goods EXCEPT ![c] = gc, ![d] = gd]
  BY <1>1, <1>2 DEF finishTrade
<1>4. EnhSlots \in Nat /\ InspRows \in Nat
  BY TradeAssumption
<1>5. Taking(EnhSlots, Enhancements, ec) /\ Taking(EnhSlots, Enhancements, ed)
  BY OwnTypes, OffersAre, EnhancementsTyped
<1>6. Taking(InspRows, Inspirations, ic) /\ Taking(InspRows, Inspirations, id)
  BY OwnTypes, OffersAre, InspirationsTyped
<1>7. /\ Plus(goods[c].inf, mine.inf, other.inf) \in 0..MaxInf
      /\ Plus(goods[d].inf, other.inf, mine.inf) \in 0..MaxInf
  <2>1. goods[c].inf \in Int /\ goods[d].inf \in Int
    <3>1. goods[c].inf \in 0..MaxInf /\ goods[d].inf \in 0..MaxInf
      BY OwnTypes
    <3> QED BY <3>1, TradeAssumption
  <2> QED BY <2>1, OffersAre, PlusFits
<1> HIDE DEF ec, ed, ic, id
<1>8. /\ addTraded(ec.left, ed.got) \in Tray(EnhSlots, Enhancements)
      /\ addTraded(ed.left, ec.got) \in Tray(EnhSlots, Enhancements)
  BY <1>4, <1>5, TrayGiven DEF Taking
<1>9. /\ addTraded(ic.left, id.got) \in Tray(InspRows, Inspirations)
      /\ addTraded(id.left, ic.got) \in Tray(InspRows, Inspirations)
  BY <1>4, <1>6, TrayGiven DEF Taking
<1>10. gc \in Goods
  BY <1>1, <1>7, <1>8, <1>9, MadeGoods
<1>11. gd \in Goods
  BY <1>2, <1>7, <1>8, <1>9, MadeGoods
<1> HIDE DEF Goods
<1> QED BY <1>3, <1>10, <1>11

LEMMA UpdatedTyped ==
    ASSUME TradeInv, PartyInv, goods \in [Characters -> Goods], NEW c \in Characters,
           NEW off \in Offered, NEW accepts \in BOOLEAN,
           c \in {trades[trade[c]].a.who, trades[trade[c]].b.who},
           NEW d, d = getOtherMember(trades[trade[c]], c).who, OnTradeUpdated(c, d, off, accepts)
    PROVE  goods' \in [Characters -> Goods]
<1>1. PICK deal : deal = trades[trade[c]] /\ deal \in Deals
  BY DEF OnTradeUpdated, TradeInv, Pointers
<1>2. d = getOtherMember(deal, c).who /\ c \in {deal.a.who, deal.b.who}
  BY <1>1
<1>3. PICK n : n = updateTrade(c, d, deal, off, accepts)
  OBVIOUS
<1>4. CASE UNCHANGED goods
  BY <1>4
<1>5. CASE isAccepted(n) /\ goods' = finishTrade(c, d, off, getMember(n, d).off)
  <2>1. c \in {deal.a.who, deal.b.who} /\ (deal.a.who = deal.b.who => ~deal.b.accepted)
    BY <1>1, <1>2 DEF OnTradeUpdated, PartyInv, Parties, TradeInv, Pointers
  <2>2. getMember(n, d).off \in Offered
    BY <1>1, <1>2, <1>3, <1>5, <2>1, UpdateParties
  <2>3. d \in Characters
    BY <1>1, <1>2 DEF Deals, Members, getOtherMember
  <2> QED BY <1>5, <2>2, <2>3, FinishTyped
<1> QED BY <1>1, <1>2, <1>3, <1>4, <1>5 DEF OnTradeUpdated

LEMMA SetTyped ==
    ASSUME goods \in [Characters -> Goods], NEW c \in Characters, NEW h \in Goods,
           goods' = [goods EXCEPT ![c] = h]
    PROVE  goods' \in [Characters -> Goods]
<1> HIDE DEF Goods
<1> QED OBVIOUS

LEMMA MovedTray ==
    ASSUME NEW n \in Nat, NEW S, NEW s \in Tray(n, S), NEW i \in 1..n, NEW j \in 1..n
    PROVE  moveItem(s, i, j) \in Tray(n, S)
BY DEF Tray, moveItem

LEMMA OwnersTyped ==
    ASSUME goods \in [Characters -> Goods], NEW c \in Characters, NEW i, NEW j,
           \/ i \in 1..EnhSlots /\ j \in 1..EnhSlots /\ OnMoveEnhancement(c, i, j)
           \/ i \in 1..InspRows /\ j \in 1..InspRows /\ OnMoveInspiration(c, i, j)
           \/ i \in 1..EnhSlots /\ (OnTrashEnhancement(c, i) \/ OnStoreSellItem(c, i))
           \/ i \in 1..InspRows /\ OnActivateInspiration(c, i)
    PROVE  goods' \in [Characters -> Goods]
<1>0. goods[c] = [inf |-> goods[c].inf, enh |-> goods[c].enh, insp |-> goods[c].insp]
  BY OwnTypes
<1>1. PICK inf, enh, insp : goods[c] = [inf |-> inf, enh |-> enh, insp |-> insp]
  BY <1>0
<1>2. goods[c].inf = inf /\ goods[c].enh = enh /\ goods[c].insp = insp
  BY <1>1
<1>3. /\ inf \in 0..MaxInf /\ enh \in Tray(EnhSlots, Enhancements)
      /\ insp \in Tray(InspRows, Inspirations)
  BY <1>2, OwnTypes
<1>4. EnhSlots \in Nat /\ InspRows \in Nat /\ MaxInf \in Nat
  BY TradeAssumption
<1>5. ASSUME i \in 1..EnhSlots, j \in 1..EnhSlots, OnMoveEnhancement(c, i, j)
      PROVE  goods' \in [Characters -> Goods]
  <2>1. PICK r : r = moveItem(enh, i, j)
    OBVIOUS
  <2>2. r \in Tray(EnhSlots, Enhancements)
    BY <1>3, <1>4, <1>5, <2>1, MovedTray
  <2>3. PICK h : h = [goods[c] EXCEPT !.enh = moveItem(@, i, j)]
    OBVIOUS
  <2>4. h = [inf |-> inf, enh |-> r, insp |-> insp]
    BY <1>1, <2>1, <2>3
  <2>5. goods' = [goods EXCEPT ![c] = h]
    BY <1>5, <2>3 DEF OnMoveEnhancement, SetGoods
  <2>6. h \in Goods
    BY <1>3, <2>2, <2>4, MadeGoods
  <2> QED BY <2>5, <2>6, SetTyped
<1>6. ASSUME i \in 1..InspRows, j \in 1..InspRows, OnMoveInspiration(c, i, j)
      PROVE  goods' \in [Characters -> Goods]
  <2>1. PICK r : r = moveItem(insp, i, j)
    OBVIOUS
  <2>2. r \in Tray(InspRows, Inspirations)
    BY <1>3, <1>4, <1>6, <2>1, MovedTray
  <2>3. PICK h : h = [goods[c] EXCEPT !.insp = moveItem(@, i, j)]
    OBVIOUS
  <2>4. h = [inf |-> inf, enh |-> enh, insp |-> r]
    BY <1>1, <2>1, <2>3
  <2>5. goods' = [goods EXCEPT ![c] = h]
    BY <1>6, <2>3 DEF OnMoveInspiration, SetGoods
  <2>6. h \in Goods
    BY <1>3, <2>2, <2>4, MadeGoods
  <2> QED BY <2>5, <2>6, SetTyped
<1>7. ASSUME i \in 1..EnhSlots, OnTrashEnhancement(c, i) \/ OnStoreSellItem(c, i)
      PROVE  goods' \in [Characters -> Goods]
  <2>1. PICK r : r = trashEnhancement(enh, i)
    OBVIOUS
  <2>2. r \in Tray(EnhSlots, Enhancements)
    BY <1>3, <1>4, <1>7, <2>1, TrashedTray
  <2>3. CASE OnTrashEnhancement(c, i)
    <3>1. PICK h : h = [goods[c] EXCEPT !.enh = trashEnhancement(@, i)]
      OBVIOUS
    <3>2. h = [inf |-> inf, enh |-> r, insp |-> insp]
      BY <1>1, <2>1, <3>1
    <3>3. goods' = [goods EXCEPT ![c] = h]
      BY <2>3, <3>1 DEF OnTrashEnhancement, SetGoods
    <3>4. h \in Goods
      BY <1>3, <2>2, <3>2, MadeGoods
    <3> QED BY <3>3, <3>4, SetTyped
  <2>4. CASE OnStoreSellItem(c, i)
    <3>1. PICK more : more = inf + 1
      OBVIOUS
    <3>2. inf < MaxInf
      BY <1>2, <2>4 DEF OnStoreSellItem
    <3>3. more \in 0..MaxInf
      BY <1>3, <1>4, <3>1, <3>2
    <3>4. PICK h : h = [goods[c] EXCEPT !.enh = trashEnhancement(@, i), !.inf = @ + 1]
      OBVIOUS
    <3>5. h = [inf |-> more, enh |-> r, insp |-> insp]
      <4>1. goods[c].inf + 1 = more /\ trashEnhancement(goods[c].enh, i) = r
        BY <1>2, <2>1, <3>1
      <4>2. h = SoldFor(goods[c], r, more)
        BY <3>4, <4>1 DEF SoldFor
      <4> QED BY <1>1, <4>2, Sold
    <3>6. goods' = [goods EXCEPT ![c] = h]
      BY <2>4, <3>4 DEF OnStoreSellItem, SetGoods
    <3>7. h \in Goods
      BY <1>3, <2>2, <3>3, <3>5, MadeGoods
    <3> QED BY <3>6, <3>7, SetTyped
  <2> QED BY <1>7, <2>3, <2>4
<1>8. ASSUME i \in 1..InspRows, OnActivateInspiration(c, i)
      PROVE  goods' \in [Characters -> Goods]
  <2>1. PICK r : r = removeInspiration(insp, i)
    OBVIOUS
  <2>2. r \in Tray(InspRows, Inspirations)
    BY <1>3, <1>4, <1>8, <2>1, LoweredTray
  <2>3. PICK h : h = [goods[c] EXCEPT !.insp = removeInspiration(@, i)]
    OBVIOUS
  <2>4. h = [inf |-> inf, enh |-> enh, insp |-> r]
    BY <1>1, <2>1, <2>3
  <2>5. goods' = [goods EXCEPT ![c] = h]
    BY <1>8, <2>3 DEF OnActivateInspiration, SetGoods
  <2>6. h \in Goods
    BY <1>3, <2>2, <2>4, MadeGoods
  <2> QED BY <2>5, <2>6, SetTyped
<1> QED BY <1>5, <1>6, <1>7, <1>8

LEMMA BuysTyped ==
    ASSUME goods \in [Characters -> Goods], NEW c \in Characters, NEW item,
           OnStoreBuyItem(c, item)
    PROVE  goods' \in [Characters -> Goods]
<1>1. PICK enh : enh = IF item \in Enhancements THEN addToChar(goods[c].enh, item) ELSE goods[c].enh
  OBVIOUS
<1>2. PICK insp : insp = IF item \in Inspirations THEN addToChar(goods[c].insp, item) ELSE goods[c].insp
  OBVIOUS
<1>3. PICK inf : inf = IF goods[c].inf = 0 THEN 0 ELSE goods[c].inf - 1
  OBVIOUS
<1>4. PICK h : h = [inf |-> inf, enh |-> enh, insp |-> insp]
  OBVIOUS
<1>5. goods' = [goods EXCEPT ![c] = h]
  BY <1>1, <1>2, <1>3, <1>4 DEF OnStoreBuyItem, SetGoods
<1>6. EnhSlots \in Nat /\ InspRows \in Nat /\ MaxInf \in Nat
  BY TradeAssumption
<1>7. enh \in Tray(EnhSlots, Enhancements)
  <2>1. PICK s \in Tray(EnhSlots, Enhancements) : s = goods[c].enh
    BY OwnTypes
  <2>2. CASE item \in Enhancements
    <3>1. enh = addToChar(s, item)
      BY <1>1, <2>1, <2>2
    <3> QED BY <1>6, <2>2, <3>1, PutIn
  <2>3. CASE item \notin Enhancements
    BY <1>1, <2>1, <2>3
  <2> QED BY <2>2, <2>3
<1>8. insp \in Tray(InspRows, Inspirations)
  <2>1. PICK s \in Tray(InspRows, Inspirations) : s = goods[c].insp
    BY OwnTypes
  <2>2. CASE item \in Inspirations
    <3>1. insp = addToChar(s, item)
      BY <1>2, <2>1, <2>2
    <3> QED BY <1>6, <2>2, <3>1, PutIn
  <2>3. CASE item \notin Inspirations
    BY <1>2, <2>1, <2>3
  <2> QED BY <2>2, <2>3
<1>9. inf \in 0..MaxInf
  <2>1. PICK x \in 0..MaxInf : x = goods[c].inf
    BY OwnTypes
  <2> QED BY <1>3, <1>6, <2>1
<1>10. h \in Goods
  BY <1>4, <1>7, <1>8, <1>9, MadeGoods
<1> QED BY <1>5, <1>10, SetTyped

(* The types of the trades, inductively: PartyInv keeps a number free for  *)
(* a new deal and tells whose goods a deal is about.                       *)
TradeTypes ==
    /\ TradeInv /\ PartyInv
    /\ goods \in [Characters -> Goods] /\ firm \subseteq Characters
    /\ here \subseteq Characters

LEMMA TradeTypesHold == TradeTypes => TradeTypeOK
BY DEF TradeTypes, TradeInv, PartyInv, Parties, Pointers, TradeTypeOK, DealsOK, GoodsOK, PresenceTypeOK

LEMMA FirmTyped ==
    ASSUME NEW tr, NEW ts, NEW accepting, accepting \subseteq Characters, firm \subseteq Characters,
           SetTrades(tr, ts, accepting)
    PROVE  firm' \subseteq Characters
BY DEF SetTrades

LEMMA TradeTypesStep ==
    ASSUME TradeTypes, cast \subseteq Characters, NEW leavers, leavers \subseteq cast,
           TradeNext(cast, leavers, stock)
    PROVE  TradeTypes'
<1>0. /\ TradeInv /\ PartyInv
      /\ goods \in [Characters -> Goods] /\ firm \subseteq Characters /\ here \subseteq Characters
  BY DEF TradeTypes
<1>1. TradeInv'
  BY <1>0, TradeStep
<1> DEFINE Rest == PartyInv' /\ goods' \in [Characters -> Goods]
                   /\ firm' \subseteq Characters /\ here' \subseteq Characters
<1>2. SUFFICES Rest
  BY <1>1 DEF TradeTypes
<1>3. ASSUME NEW c \in cast, NEW d \in cast, RequestTrade(c, d) \/ TradeDecline(c, d)
      PROVE  Rest
  <2>1. UNCHANGED <<goods, here>>
    BY <1>3 DEF RequestTrade, TradeDecline
  <2>2. PartyInv'
    BY <1>0, <1>3, RequestParties, DiscardParties DEF TradeDecline
  <2>3. firm' \subseteq Characters
    BY <1>0, <1>3 DEF RequestTrade, TradeDecline, discardTrade, SetTrades
  <2> QED BY <1>0, <2>1, <2>2, <2>3
<1>4. ASSUME NEW c \in cast, NEW off \in Offered, NEW accepts \in BOOLEAN,
             WindowUpdated(c, off, accepts)
      PROVE  Rest
  <2>1. here' = here
    BY <1>4 DEF WindowUpdated, OnTradeUpdated
  <2>2. firm' \subseteq Characters
    BY <1>0, <1>4 DEF WindowUpdated, OnTradeUpdated, discardTrade, SetTrades
  <2> QED BY <1>0, <1>4, <2>1, <2>2, UpdatedParties, UpdatedTyped DEF WindowUpdated
<1>5. ASSUME UNCHANGED <<trade, trades, here>>, firm' \subseteq firm,
             goods' \in [Characters -> Goods]
      PROVE  Rest
  BY <1>0, <1>5 DEF PartyInv, Parties, Held
<1>6. ASSUME NEW c \in cast, NEW i, NEW j,
             \/ i \in 1..EnhSlots /\ j \in 1..EnhSlots /\ OnMoveEnhancement(c, i, j)
             \/ i \in 1..InspRows /\ j \in 1..InspRows /\ OnMoveInspiration(c, i, j)
             \/ i \in 1..EnhSlots /\ (OnTrashEnhancement(c, i) \/ OnStoreSellItem(c, i))
             \/ i \in 1..InspRows /\ OnActivateInspiration(c, i)
      PROVE  Rest
  <2>1. goods' \in [Characters -> Goods]
    BY <1>0, <1>6, OwnersTyped
  <2>2. UNCHANGED <<trade, trades, here>> /\ firm' \subseteq firm
    BY <1>6 DEF OnMoveEnhancement, OnMoveInspiration, OnTrashEnhancement, OnStoreSellItem,
                OnActivateInspiration, SetGoods
  <2> QED BY <1>5, <2>1, <2>2
<1>7. ASSUME NEW c \in cast, NEW item \in stock, OnStoreBuyItem(c, item)
      PROVE  Rest
  <2>1. UNCHANGED <<trade, trades, here>> /\ firm' \subseteq firm
    BY <1>7 DEF OnStoreBuyItem, SetGoods
  <2> QED BY <1>0, <1>5, <1>7, <2>1, BuysTyped
<1>8. ASSUME NEW c \in cast, AnswerToNobody(c) \/ OnTradeCancelled(c)
      PROVE  Rest
  <2>1. PartyInv'
    BY <1>0, <1>8, DiscardParties DEF AnswerToNobody, OnTradeCancelled
  <2>2. UNCHANGED <<goods, here>>
    BY <1>8 DEF AnswerToNobody, OnTradeCancelled
  <2>3. firm' \subseteq Characters
    BY <1>0, <1>8 DEF AnswerToNobody, OnTradeCancelled, discardTrade, SetTrades
  <2> QED BY <1>0, <2>1, <2>2, <2>3
<1>9. ASSUME NEW c \in cast, TradeEnters(c)
      PROVE  Rest
  <2>1. goods' = goods /\ here' \subseteq Characters
    BY <1>0, <1>9 DEF TradeEnters, Enters
  <2>2. PartyInv'
    BY <1>0, <1>9, EntersParties
  <2>3. firm' \subseteq Characters
    BY <1>0, <1>9 DEF TradeEnters, SetTrades
  <2> QED BY <1>0, <2>1, <2>2, <2>3
<1>10. ASSUME NEW c \in cast, TradeLeaves(c)
       PROVE  Rest
  <2>1. UNCHANGED <<trade, trades, goods, firm>> /\ here' \subseteq Characters
    BY <1>0, <1>10 DEF TradeLeaves, Leaves
  <2> QED BY <1>0, <2>1 DEF PartyInv, Parties, Held
<1> QED BY <1>3, <1>4, <1>6, <1>7, <1>8, <1>9, <1>10 DEF TradeNext

-----------------------------------------------------------------------------
(* The types of the mail with their bounds: every number a letter is       *)
(* called by is that of a letter in the database, and with those still to  *)
(* be stored these are no more than were written.                          *)
Counted(q, S) == Cardinality({i \in 1..Len(q) : q[i] \in S})

LEMMA CountedIs ==
    ASSUME NEW T, NEW q \in Seq(T), NEW S
    PROVE  /\ Counted(q, S) \in Nat /\ IsFiniteSet({i \in 1..Len(q) : q[i] \in S})
           /\ (\E i \in 1..Len(q) : q[i] \in S) => Counted(q, S) > 0
<1>1. PICK n \in Nat : n = Len(q)
  OBVIOUS
<1>2. PICK A : A = {i \in 1..n : q[i] \in S}
  OBVIOUS
<1>3. IsFiniteSet(1..n)
  BY FS_Interval
<1>4. A \in SUBSET (1..n)
  BY <1>2
<1>5. IsFiniteSet(A)
  BY <1>3, <1>4, FS_Subset
<1>6. Cardinality(A) \in Nat /\ (Cardinality(A) = 0 <=> A = {})
  BY <1>5, FS_CardinalityType, FS_EmptySet
<1> QED BY <1>1, <1>2, <1>5, <1>6 DEF Counted

LEMMA CountedLast ==
    ASSUME NEW T, NEW q \in Seq(T), NEW x \in T, NEW S, NEW longer, longer = Append(q, x)
    PROVE  Counted(longer, S) = IF x \in S THEN Counted(q, S) + 1 ELSE Counted(q, S)
<1>1. PICK n \in Nat : n = Len(q)
  OBVIOUS
<1>2. Len(longer) = n + 1 /\ longer[n + 1] = x /\ \A i \in 1..n : longer[i] = q[i]
  BY <1>1
<1>3. 1..(n + 1) = (1..n) \union {n + 1} /\ n + 1 \notin 1..n
  OBVIOUS
<1>4. PICK A : A = {i \in 1..n : q[i] \in S}
  OBVIOUS
<1>5. PICK B : B = {i \in 1..(n + 1) : longer[i] \in S}
  OBVIOUS
<1>6. IsFiniteSet(A) /\ Cardinality(A) = Counted(q, S) /\ Cardinality(B) = Counted(longer, S)
  BY <1>1, <1>2, <1>4, <1>5, CountedIs DEF Counted
<1>7. n + 1 \notin A
  BY <1>3, <1>4
<1>8. B = IF x \in S THEN A \union {n + 1} ELSE A
  BY <1>2, <1>3, <1>4, <1>5
<1>9. Cardinality(A \union {n + 1}) = Cardinality(A) + 1
  BY <1>6, <1>7, FS_AddElement
<1> QED BY <1>6, <1>8, <1>9

LEMMA CountedFirst ==
    ASSUME NEW T, NEW q \in Seq(T), q # << >>, NEW S, NEW r, r = Tail(q)
    PROVE  Counted(r, S) = IF Head(q) \in S THEN Counted(q, S) - 1 ELSE Counted(q, S)
<1>1. PICK n \in Nat : n = Len(q) /\ n # 0
  OBVIOUS
<1>2. Len(r) = n - 1 /\ \A i \in 1..(n - 1) : r[i] = q[i + 1]
  BY <1>1
<1>3. \A i \in 1..(n - 1) : i + 1 \in 1..n /\ i + 1 # 1
  BY <1>1
<1>4. \A i \in 1..n : i # 1 => i - 1 \in 1..(n - 1) /\ (i - 1) + 1 = i
  BY <1>1
<1>5. PICK A : A = {i \in 1..n : q[i] \in S}
  OBVIOUS
<1>6. PICK B : B = {i \in 1..(n - 1) : r[i] \in S}
  OBVIOUS
<1>7. IsFiniteSet(A) /\ Cardinality(A) = Counted(q, S) /\ Cardinality(B) = Counted(r, S)
  BY <1>1, <1>2, <1>5, <1>6, CountedIs DEF Counted
<1>8. IsFiniteSet(B)
  <2>1. B \in SUBSET (1..(n - 1)) /\ n - 1 \in Nat
    BY <1>1, <1>6
  <2>2. IsFiniteSet(1..(n - 1))
    BY <2>1, FS_Interval
  <2> QED BY <2>1, <2>2, FS_Subset
<1>9. PICK C : C = A \ {1}
  OBVIOUS
<1>10. Cardinality(C) = Cardinality(B)
  <2>1. PICK f : f = [i \in B |-> i + 1]
    OBVIOUS
  <2>2. \A i \in B : f[i] \in C
    BY <1>2, <1>3, <1>5, <1>6, <1>9, <2>1
  <2>3. \A i, j \in B : f[i] = f[j] => i = j
    <3>1. \A i \in B : f[i] = i + 1
      BY <2>1
    <3>2. \A i \in B : i \in 1..(n - 1)
      BY <1>6
    <3>3. \A i \in 1..(n - 1) : i \in Int
      OBVIOUS
    <3> QED BY <3>1, <3>2, <3>3
  <2>4. \A j \in C : \E i \in B : f[i] = j
    <3> SUFFICES ASSUME NEW j \in C PROVE \E i \in B : f[i] = j
      OBVIOUS
    <3>1. j \in 1..n /\ j # 1 /\ q[j] \in S
      BY <1>5, <1>9
    <3>2. PICK i \in 1..(n - 1) : i + 1 = j
      BY <1>4, <3>1
    <3>3. i \in B
      BY <1>2, <1>6, <3>1, <3>2
    <3> QED BY <2>1, <3>2, <3>3
  <2>5. f \in [B -> C]
    BY <2>1, <2>2
  <2>6. f \in Bijection(B, C)
    <3>1. f \in Injection(B, C)
      BY <2>3, <2>5 DEF Injection, IsInjective
    <3>2. f \in Surjection(B, C)
      BY <2>4, <2>5 DEF Surjection
    <3> QED BY <3>1, <3>2 DEF Bijection
  <2>7. ExistsBijection(B, C)
    BY <2>6 DEF ExistsBijection
  <2> QED BY <1>8, <2>7, FS_Bijection
<1>11. Head(q) = q[1] /\ 1 \in 1..n
  BY <1>1
<1>12. 1 \in A <=> Head(q) \in S
  BY <1>5, <1>11
<1>13. Cardinality(C) = IF 1 \in A THEN Cardinality(A) - 1 ELSE Cardinality(A)
  BY <1>7, <1>9, FS_RemoveElement
<1> QED BY <1>7, <1>10, <1>12, <1>13

(* What is said of the letters with the numbers in I                       *)
EventIn(ev, I) ==
    /\ ev.type \in {"Created", "Read", "Delete"} => ev.id \in I
    /\ ev.type \in {"Created", "Filled"} => ev.to \in Characters

RequestIn(r, I) ==
    /\ r.type \in {"MarkAsRead", "Remove"} => r.id \in I
    /\ r.type = "Create" => r.to \in Characters

ClientsIn(cs, I) == \A k \in DOMAIN cs : cs[k].received \subseteq I

Within(I) ==
    /\ DOMAIN mails \subseteq I /\ ClientsIn(clients, I)
    /\ \A ev \in Posts : EventIn(ev, I)
    /\ \A r \in Asks : RequestIn(r, I)
    /\ \A c \in Characters : shown[c] \subseteq I

Unsent == {ev \in Events : ev.type \in {"Send", "Filled"}}

Unstored == {r \in Requests : r.type \in {"Fill", "Create"}}

InWriting == Counted(mailq, Unsent) + Counted(maildb, Unstored)

Paper ==
    /\ written \in 0..MaxMails
    /\ Cardinality(DOMAIN dbmails) + InWriting <= written

Bounded == Within(DOMAIN dbmails) /\ Paper

MailSized == MailTyped /\ Bounded /\ habit \subseteq Habits

LEMMA ClientsInWith ==
    ASSUME NEW m, NEW I, ClientsIn(m, I), NEW k, NEW v, v.received \subseteq I
    PROVE  /\ ClientsIn(With(m, k, v), I) /\ ClientsIn(Touched(m, k, Phantom), I)
           /\ ClientsIn(Without(m, k), I) /\ At(m, k, Phantom).received \subseteq I
<1>1. PICK w : w = With(m, k, v)
  OBVIOUS
<1>2. PICK t : t = Touched(m, k, Phantom)
  OBVIOUS
<1>3. PICK o : o = Without(m, k)
  OBVIOUS
<1>4. Phantom.received = {}
  BY DEF Phantom
<1>5. ClientsIn(w, I)
  <2>1. DOMAIN w = DOMAIN m \union {k} /\ w[k] = v /\ \A j \in DOMAIN m : j # k => w[j] = m[j]
    BY <1>1 DEF With
  <2> QED BY <2>1 DEF ClientsIn
<1>6. ClientsIn(t, I)
  <2>1. /\ DOMAIN t = DOMAIN m \union {k} /\ (k \notin DOMAIN m => t[k] = Phantom)
        /\ \A j \in DOMAIN m : t[j] = m[j]
    BY <1>2 DEF Touched, With, At
  <2> QED BY <1>4, <2>1 DEF ClientsIn
<1>7. ClientsIn(o, I)
  <2>1. DOMAIN o = DOMAIN m \ {k} /\ \A j \in DOMAIN o : o[j] = m[j]
    BY <1>3, WithoutIs
  <2> QED BY <2>1 DEF ClientsIn
<1> QED BY <1>1, <1>2, <1>3, <1>4, <1>5, <1>6, <1>7 DEF At, ClientsIn

LEMMA GotSized ==
    ASSUME MailTyped, NEW type, Got(type)
    PROVE  /\ type \in {"Send", "Filled"} => Counted(mailq', Unsent) = Counted(mailq, Unsent) - 1
           /\ type \notin {"Send", "Filled"} => Counted(mailq', Unsent) = Counted(mailq, Unsent)
<1>1. mailq \in Seq(Events) /\ mailq # << >> /\ Head(mailq).type = type
  BY DEF MailTyped, Got
<1>2. PICK q : q = mailq' /\ q = Tail(mailq)
  BY DEF Got
<1>3. PICK S : S = Unsent
  OBVIOUS
<1>4. Counted(q, S) = IF Head(mailq) \in S THEN Counted(mailq, S) - 1 ELSE Counted(mailq, S)
  BY <1>1, <1>2, CountedFirst
<1>5. Head(mailq) \in Events
  BY <1>1, Taken
<1>6. Head(mailq) \in S <=> type \in {"Send", "Filled"}
  BY <1>1, <1>3, <1>5 DEF Unsent
<1> QED BY <1>2, <1>3, <1>4, <1>6

(* One more event in the queue                                             *)
OneMore(s, x, q) == q = Append(s, x)

LEMMA CountedEvent ==
    ASSUME NEW s \in Seq(Events), NEW x \in Events, NEW S, NEW q, OneMore(s, x, q)
    PROVE  /\ x \in S => Counted(q, S) = Counted(s, S) + 1
           /\ x \notin S => Counted(q, S) = Counted(s, S)
<1>1. q = Append(s, x)
  BY DEF OneMore
<1>2. Counted(q, S) = IF x \in S THEN Counted(s, S) + 1 ELSE Counted(s, S)
  <2> HIDE DEF Events
  <2> QED BY <1>1, CountedLast
<1> QED BY <1>2

LEMMA PostedSized ==
    ASSUME MailTyped, NEW ev \in Events, PostMail(ev)
    PROVE  /\ ev.type \in {"Send", "Filled"} => Counted(mailq', Unsent) = Counted(mailq, Unsent) + 1
           /\ ev.type \notin {"Send", "Filled"} => Counted(mailq', Unsent) = Counted(mailq, Unsent)
<1>1. mailq \in Seq(Events)
  BY DEF MailTyped
<1>2. PICK s \in Seq(Events) : s = mailq
  BY <1>1
<1>3. PICK q : q = mailq' /\ OneMore(s, ev, q)
  BY <1>2 DEF PostMail, OneMore
<1>4. PICK S : S = Unsent
  OBVIOUS
<1>5. /\ ev \in S => Counted(q, S) = Counted(s, S) + 1
      /\ ev \notin S => Counted(q, S) = Counted(s, S)
  <2> HIDE DEF Events
  <2> QED BY <1>3, CountedEvent
<1>6. ev \in S <=> ev.type \in {"Send", "Filled"}
  BY <1>4 DEF Unsent
<1> QED BY <1>2, <1>3, <1>4, <1>5, <1>6

LEMMA ServedSized ==
    ASSUME MailTyped, NEW type, Serves(type)
    PROVE  /\ type \in {"Fill", "Create"} => Counted(maildb', Unstored) = Counted(maildb, Unstored) - 1
           /\ type \notin {"Fill", "Create"} => Counted(maildb', Unstored) = Counted(maildb, Unstored)
<1>1. maildb \in Seq(Requests) /\ maildb # << >> /\ Head(maildb).type = type
  BY DEF MailTyped, Serves
<1>2. PICK q : q = maildb' /\ q = Tail(maildb)
  BY DEF Serves
<1>3. PICK S : S = Unstored
  OBVIOUS
<1>4. Counted(q, S) = IF Head(maildb) \in S THEN Counted(maildb, S) - 1 ELSE Counted(maildb, S)
  BY <1>1, <1>2, CountedFirst
<1>5. Head(maildb) \in Requests
  BY <1>1, Taken
<1>6. Head(maildb) \in S <=> type \in {"Fill", "Create"}
  BY <1>1, <1>3, <1>5 DEF Unstored
<1> QED BY <1>2, <1>3, <1>4, <1>6

LEMMA CountedMore ==
    ASSUME NEW s \in Seq(Requests), NEW x \in Requests, NEW S, NEW q, q = Append(s, x)
    PROVE  Counted(q, S) = IF x \in S THEN Counted(s, S) + 1 ELSE Counted(s, S)
<1> HIDE DEF Requests
<1> QED BY CountedLast

LEMMA AskedSized ==
    ASSUME MailTyped, NEW r \in Requests, AskDatabase(r)
    PROVE  /\ r.type \in {"Fill", "Create"} => Counted(maildb', Unstored) = Counted(maildb, Unstored) + 1
           /\ r.type \notin {"Fill", "Create"} => Counted(maildb', Unstored) = Counted(maildb, Unstored)
<1>1. maildb \in Seq(Requests)
  BY DEF MailTyped
<1>2. PICK q : q = maildb' /\ q = Append(maildb, r)
  BY DEF AskDatabase
<1>3. PICK S : S = Unstored
  OBVIOUS
<1>4. Counted(q, S) = IF r \in S THEN Counted(maildb, S) + 1 ELSE Counted(maildb, S)
  BY <1>1, <1>2, CountedMore
<1>5. r \in S <=> r.type \in {"Fill", "Create"}
  BY <1>3 DEF Unstored
<1> QED BY <1>2, <1>3, <1>4, <1>5

LEMMA CountsAre ==
    ASSUME MailTyped
    PROVE  /\ Counted(mailq, Unsent) \in Nat /\ Counted(maildb, Unstored) \in Nat
           /\ Cardinality(DOMAIN dbmails) \in Nat
<1>1. mailq \in Seq(Events) /\ maildb \in Seq(Requests)
  BY DEF MailTyped
<1>2. PICK n \in Nat : DOMAIN dbmails = 1..n
  BY DEF MailTyped
<1>3. Cardinality(1..n) = n
  BY FS_Interval
<1> QED BY <1>1, <1>2, <1>3, CountedIs

(* Players call letters by the numbers they have been shown, and write as  *)
(* many as the bound allows.                                               *)
LEMMA PlayersSized ==
    ASSUME MailTyped, Bounded, NEW c \in Characters, NEW to \in Ids, NEW id \in Nat,
           \/ EmailSend(c, to) \/ EmailRead(c, id) \/ EmailDelete(c, id) \/ EmailHeaders(c)
    PROVE  Bounded'
<1>1. PICK I : I = DOMAIN dbmails
  OBVIOUS
<1>2. Within(I) /\ Paper
  BY <1>1 DEF Bounded
<1>3. MaxMails \in Nat
  BY MailAssumption
<1>4. ASSUME NEW ev \in Events, PostMail(ev), EventIn(ev, I), UNCHANGED playerRest,
             \A e \in Characters : shown'[e] \subseteq shown[e],
             \/ ev.type \notin {"Send", "Filled"} /\ written' = written
             \/ ev.type = "Send" /\ written < MaxMails /\ written' = written + 1
      PROVE  Bounded'
  <2>1. Posts' = Posts \union {ev}
    BY <1>4, PostedEvent
  <2>2. UNCHANGED <<clients, mails, dbmails, maildb>>
    BY <1>4 DEF playerRest
  <2>3. Within(I)'
    BY <1>2, <1>4, <2>1, <2>2 DEF Within, Asks
  <2>4. Paper'
    <3>1. PICK a, b, k \in Nat : a = Counted(mailq, Unsent) /\ b = Counted(maildb, Unstored)
                                 /\ k = Cardinality(DOMAIN dbmails)
      BY CountsAre
    <3>2. b = Counted(maildb', Unstored) /\ k = Cardinality(DOMAIN dbmails')
      BY <2>2, <3>1
    <3>3. written \in 0..MaxMails /\ k + (a + b) <= written
      BY <1>2, <3>1 DEF Paper, InWriting
    <3>4. PICK d \in Nat : d = Counted(mailq', Unsent) /\ (ev.type = "Send" => d = a + 1)
                           /\ (ev.type \notin {"Send", "Filled"} => d = a)
      BY <1>4, <3>1, PostedSized
    <3>5. written' \in 0..MaxMails /\ k + (d + b) <= written'
      BY <1>3, <1>4, <3>3, <3>4
    <3> QED BY <3>2, <3>4, <3>5 DEF Paper, InWriting
  <2> QED BY <1>1, <2>2, <2>3, <2>4 DEF Bounded, Within
<1>5. CASE EmailSend(c, to)
  <2>1. PICK ev \in Events : ev = [type |-> "Send", from |-> c, to |-> to]
    BY MadeEvents
  <2>2. ev.type = "Send"
    BY <2>1
  <2> QED BY <1>4, <1>5, <2>1, <2>2 DEF EmailSend, EventIn
<1>6. CASE EmailRead(c, id)
  <2>1. PICK ev \in Events : ev = [type |-> "Read", from |-> c, id |-> id]
    BY MadeEvents
  <2>2. ev.type = "Read" /\ ev.id = id /\ id \in I
    BY <1>2, <1>6, <2>1 DEF EmailRead, Within
  <2> QED BY <1>4, <1>6, <2>1, <2>2 DEF EmailRead, EventIn
<1>7. CASE EmailDelete(c, id)
  <2>1. PICK ev \in Events : ev = [type |-> "Delete", from |-> c, id |-> id]
    BY MadeEvents
  <2>2. ev.type = "Delete" /\ ev.id = id /\ id \in I
    BY <1>2, <1>7, <2>1 DEF EmailDelete, Within
  <2>3. \A e \in Characters : shown'[e] \subseteq shown[e]
    BY <1>7 DEF EmailDelete, MailTyped
  <2> QED BY <1>4, <1>7, <2>1, <2>2, <2>3 DEF EmailDelete, EventIn
<1>8. CASE EmailHeaders(c)
  <2>1. PICK ev \in Events : ev = [type |-> "Header", from |-> c]
    BY MadeEvents
  <2>2. ev.type = "Header"
    BY <2>1
  <2> QED BY <1>4, <1>8, <2>1, <2>2 DEF EmailHeaders, EventIn
<1> QED BY <1>5, <1>6, <1>7, <1>8

LEMMA ComingSized ==
    ASSUME MailTyped, Bounded, NEW c \in Characters, MailEnters(c) \/ MailLeaves(c) \/ BusDelivers
    PROVE  Bounded'
<1>1. PICK I : I = DOMAIN dbmails
  OBVIOUS
<1>2. Within(I) /\ Paper
  BY <1>1 DEF Bounded
<1>3. CASE MailEnters(c) \/ MailLeaves(c)
  <2>1. UNCHANGED <<clients, mails, dbmails, mailq, maildb, written>>
    BY <1>3 DEF MailEnters, MailLeaves
  <2>2. \A e \in Characters : shown'[e] \subseteq shown[e]
    BY <1>3 DEF MailEnters, MailLeaves, MailTyped
  <2>3. Within(I)'
    BY <1>2, <2>1, <2>2 DEF Within, Posts, Asks
  <2>4. Paper'
    BY <1>2, <2>1 DEF Paper, InWriting
  <2> QED BY <1>1, <2>1, <2>3, <2>4 DEF Bounded, Within
<1>4. CASE BusDelivers
  <2>1. bus \in Seq(ReportEvents) /\ bus # << >>
    BY <1>4 DEF MailTyped, BusDelivers
  <2>2. PICK ev \in ReportEvents : ev = Head(bus)
    BY <2>1, Taken
  <2>3. ev \in Events /\ ev.type \in {"Connected", "Disconnected"}
    BY <2>2 DEF ReportEvents, Events
  <2>4. PostMail(ev) /\ UNCHANGED <<clients, mails, dbmails, maildb, shown, written>>
    BY <1>4, <2>2 DEF BusDelivers
  <2>5. Posts' = Posts \union {ev} /\ Counted(mailq', Unsent) = Counted(mailq, Unsent)
    BY <2>3, <2>4, PostedEvent, PostedSized
  <2>6. EventIn(ev, I)
    BY <2>3 DEF EventIn
  <2>7. Within(I)'
    BY <1>2, <2>4, <2>5, <2>6 DEF Within, Asks
  <2>8. Paper'
    BY <1>2, <2>4, <2>5 DEF Paper, InWriting
  <2> QED BY <1>1, <2>4, <2>7, <2>8 DEF Bounded, Within
<1> QED BY <1>3, <1>4

(* A handler of the mail service                                           *)
LEMMA HandlerSized ==
    ASSUME MailTyped, Bounded, NEW type, Got(type), NEW I, I = DOMAIN dbmails,
           DOMAIN mails' \subseteq I, ClientsIn(clients', I),
           \A c \in Characters : shown'[c] \subseteq I,
           \/ type \notin {"Send", "Filled"} /\ maildb' = maildb
           \/ \E r \in Requests : AskDatabase(r) /\ RequestIn(r, I)
                                  /\ (r.type \in {"Fill", "Create"} => type \in {"Send", "Filled"})
    PROVE  Bounded'
<1>1. Within(I) /\ Paper /\ UNCHANGED <<dbmails, written>>
  BY DEF Bounded, Got
<1>2. PICK ev : ev = Head(mailq)
  OBVIOUS
<1>3. Posts' \subseteq Posts
  BY <1>2, GotEvent
<1>4. \A r \in Asks' : RequestIn(r, I)
  <2>1. CASE maildb' = maildb
    BY <1>1, <2>1 DEF Asks, Within
  <2>2. ASSUME NEW r \in Requests, AskDatabase(r), RequestIn(r, I)
        PROVE  \A x \in Asks' : RequestIn(x, I)
    <3>1. Asks' = Asks \union {r}
      BY <2>2, AskedRequest
    <3> QED BY <1>1, <2>2, <3>1 DEF Within
  <2> QED BY <2>1, <2>2
<1>5. Within(I)'
  BY <1>1, <1>3, <1>4 DEF Within
<1>6. Paper'
  <2>1. PICK a, b, k \in Nat : a = Counted(mailq, Unsent) /\ b = Counted(maildb, Unstored)
                               /\ k = Cardinality(DOMAIN dbmails)
    BY CountsAre
  <2>2. written \in 0..MaxMails /\ k + (a + b) <= written /\ MaxMails \in Nat
    BY <1>1, <2>1, MailAssumption DEF Paper, InWriting
  <2>3. PICK d \in Int : /\ d = Counted(mailq', Unsent)
                         /\ type \in {"Send", "Filled"} => d = a - 1
                         /\ type \notin {"Send", "Filled"} => d = a
    BY <2>1, GotSized
  <2>4. PICK e \in Int : e = Counted(maildb', Unstored)
                         /\ (e = b \/ (e = b + 1 /\ type \in {"Send", "Filled"}))
    <3>1. CASE maildb' = maildb
      BY <2>1, <3>1
    <3>2. ASSUME NEW r \in Requests, AskDatabase(r),
                 r.type \in {"Fill", "Create"} => type \in {"Send", "Filled"}
          PROVE  Counted(maildb', Unstored) = b
                 \/ (Counted(maildb', Unstored) = b + 1 /\ type \in {"Send", "Filled"})
      BY <2>1, <3>2, AskedSized
    <3> QED BY <2>1, <3>1, <3>2
  <2>5. k + (d + e) <= written
    BY <2>1, <2>2, <2>3, <2>4
  <2> QED BY <1>1, <2>1, <2>2, <2>3, <2>4, <2>5 DEF Paper, InWriting
<1> QED BY <1>1, <1>5, <1>6 DEF Bounded, Within

LEMMA ShownWithin ==
    ASSUME MailTyped, NEW I, \A e \in Characters : shown[e] \subseteq I,
           NEW c, NEW ids, Shows(c, ids), c \in Characters => ids \subseteq I
    PROVE  \A e \in Characters : shown'[e] \subseteq I
<1>1. shown \in [Characters -> SUBSET Nat]
  BY DEF MailTyped
<1>2. CASE shown' = shown
  BY <1>2
<1>3. CASE c \in Characters /\ shown' = [shown EXCEPT ![c] = ids]
  BY <1>1, <1>3
<1> QED BY <1>2, <1>3 DEF Shows

LEMMA ForwardsTo ==
    ASSUME NEW ev \in Events, ev.type \in {"Send", "Filled"}, NEW t, NEW r, r = [ev EXCEPT !.type = t]
    PROVE  r.to = ev.to
BY DEF Events

LEMMA ForwardSized ==
    ASSUME MailTyped, Bounded, NEW type \in {"Send", "Filled"}, Got(type),
           NEW t \in {"Fill", "Create"}, t = "Create" => type = "Filled",
           NEW ev, ev = Head(mailq), AskDatabase([ev EXCEPT !.type = t]),
           UNCHANGED <<clients, mails, shown>>
    PROVE  Bounded'
<1>1. PICK I : I = DOMAIN dbmails
  OBVIOUS
<1>2. Within(I)
  BY <1>1 DEF Bounded
<1>3. ev \in Events /\ ev.type = type /\ ev \in Posts
  BY GotEvent
<1>4. PICK r \in Requests : r = [ev EXCEPT !.type = t] /\ r.type = t
  BY <1>3, EventShape
<1>5. r.to = ev.to
  BY <1>3, <1>4, ForwardsTo
<1>6. EventIn(ev, I)
  BY <1>2, <1>3 DEF Within
<1>7. RequestIn(r, I)
  BY <1>3, <1>4, <1>5, <1>6 DEF RequestIn, EventIn
<1>8. AskDatabase(r)
  BY <1>4
<1>9. DOMAIN mails' \subseteq I /\ ClientsIn(clients', I) /\ \A c \in Characters : shown'[c] \subseteq I
  BY <1>2 DEF Within
<1> QED BY <1>1, <1>7, <1>8, <1>9, HandlerSized

LEMMA HandlersSized ==
    ASSUME MailTyped, Bounded,
           \/ on_email_send \/ on_fill_email_recipient_id_response
           \/ on_fill_email_recipient_id_error \/ on_email_create_response
           \/ on_email_header \/ on_email_read \/ on_email_delete
           \/ on_client_connected \/ on_client_disconnected \/ on_get_emails_response
    PROVE  Bounded'
<1>1. PICK I : I = DOMAIN dbmails
  OBVIOUS
<1>2. /\ DOMAIN mails \subseteq I /\ ClientsIn(clients, I)
      /\ \A e \in Posts : EventIn(e, I)
      /\ \A c \in Characters : shown[c] \subseteq I
  BY <1>1 DEF Bounded, Within
<1>3. PICK ev : ev = Head(mailq)
  OBVIOUS
<1>4. ASSUME NEW type, Got(type) PROVE ev \in Events /\ ev.type = type /\ EventIn(ev, I)
  BY <1>2, <1>3, <1>4, GotEvent
<1>5. CASE on_email_send
  BY <1>3, <1>5, ForwardSized DEF on_email_send
<1>6. CASE on_fill_email_recipient_id_response
  BY <1>3, <1>6, ForwardSized DEF on_fill_email_recipient_id_response
<1>7. CASE on_fill_email_recipient_id_error
  <2>1. Got("FillError") /\ UNCHANGED <<mails, maildb, shown>>
        /\ clients' = Touched(clients, ev.from, Phantom)
    BY <1>3, <1>7 DEF on_fill_email_recipient_id_error
  <2>2. Phantom.received \subseteq I
    BY DEF Phantom
  <2>3. ClientsIn(clients', I)
    BY <1>2, <2>1, <2>2, ClientsInWith
  <2> QED BY <1>1, <1>2, <2>1, <2>3, HandlerSized
<1>8. CASE on_email_create_response
  <2>1. Got("Created") /\ UNCHANGED maildb
    BY <1>8 DEF on_email_create_response
  <2>2. ev.id \in I
    BY <1>4, <2>1 DEF EventIn
  <2>3. PICK cs : cs = Touched(clients, ev.from, Phantom)
    OBVIOUS
  <2>4. Phantom.received \subseteq I
    BY DEF Phantom
  <2>5. ClientsIn(cs, I)
    BY <1>2, <2>3, <2>4, ClientsInWith
  <2>6. PICK l : l = [from |-> ev.from, to |-> ev.to, read |-> FALSE]
    OBVIOUS
  <2>7. /\ mails' = With(mails, ev.id, l)
        /\ clients' = IF ev.to \in DOMAIN cs THEN Listed(cs, ev.to, ev.id) ELSE cs
        /\ IF ev.to \in DOMAIN cs THEN Shows(ev.to, shown[ev.to] \union {ev.id}) ELSE UNCHANGED shown
    BY <1>3, <1>8, <2>3, <2>6 DEF on_email_create_response
  <2>8. DOMAIN mails' \subseteq I
    BY <1>2, <2>2, <2>7 DEF With
  <2>9. ClientsIn(clients', I)
    <3>1. CASE ev.to \in DOMAIN cs
      <4>1. PICK w : w = Listed(cs, ev.to, ev.id)
        OBVIOUS
      <4>2. PICK S : S = cs[ev.to].received \union {ev.id}
        OBVIOUS
      <4>3. IsClients(cs) /\ S \in SUBSET Nat
        <5>1. IsClients(clients) /\ ev.from \in Ids /\ ev.id \in Nat
          BY <1>4, <2>1, TypedParts, EventShape DEF Ids
        <5>2. IsClients(cs)
          BY <2>3, <5>1, NotYet, ClientsWith
        <5>3. cs[ev.to] \in Entry
          BY <3>1, <5>2 DEF IsClients
        <5> QED BY <4>2, <5>1, <5>2, <5>3, NewEntry
      <4>4. w = [cs EXCEPT ![ev.to].received = S]
        BY <4>1, <4>2 DEF Listed
      <4>5. DOMAIN w = DOMAIN cs /\ \A j \in DOMAIN cs : w[j].received = IF j = ev.to THEN S ELSE cs[j].received
        BY <3>1, <4>3, <4>4, ListSet
      <4>6. S \subseteq I
        BY <2>2, <2>5, <3>1, <4>2 DEF ClientsIn
      <4>7. ClientsIn(w, I)
        BY <2>5, <4>5, <4>6 DEF ClientsIn
      <4> QED BY <2>7, <3>1, <4>1, <4>7
    <3> QED BY <2>5, <2>7, <3>1
  <2>10. \A c \in Characters : shown'[c] \subseteq I
    <3>1. CASE ev.to \in DOMAIN cs
      <4>1. PICK S : S = shown[ev.to] \union {ev.id}
        OBVIOUS
      <4>2. ev.to \in Characters => S \subseteq I
        BY <1>2, <2>2, <4>1
      <4>3. Shows(ev.to, S)
        BY <2>7, <3>1, <4>1
      <4> QED BY <1>2, <4>2, <4>3, ShownWithin
    <3> QED BY <1>2, <2>7, <3>1
  <2> QED BY <1>1, <2>1, <2>8, <2>9, <2>10, HandlerSized
<1>9. CASE on_email_header
  <2>1. Got("Header") /\ UNCHANGED maildb
    BY <1>9 DEF on_email_header
  <2>2. PICK ids : ids = At(clients, ev.from, Phantom).received
    OBVIOUS
  <2>3. Phantom.received \subseteq I
    BY DEF Phantom
  <2>4. ids \subseteq I
    BY <1>2, <2>2, <2>3, ClientsInWith
  <2>5. /\ clients' = Touched(clients, ev.from, Phantom)
        /\ mails' = [id \in DOMAIN mails \union ids |-> At(mails, id, NoLetter)]
        /\ Shows(ev.from, ids)
    BY <1>3, <1>9, <2>2 DEF on_email_header
  <2>6. ClientsIn(clients', I)
    BY <1>2, <2>3, <2>5, ClientsInWith
  <2>7. DOMAIN mails' \subseteq I
    BY <1>2, <2>4, <2>5
  <2>8. \A c \in Characters : shown'[c] \subseteq I
    BY <1>2, <2>4, <2>5, ShownWithin
  <2> QED BY <1>1, <2>1, <2>6, <2>7, <2>8, HandlerSized
<1>10. CASE on_email_read
  <2>1. Got("Read") /\ UNCHANGED shown
    BY <1>10 DEF on_email_read
  <2>2. ev.id \in I /\ ev.id \in Nat
    BY <1>4, <2>1, EventShape DEF EventIn
  <2>3. PICK l, k, e : /\ l = [At(mails, ev.id, NoLetter) EXCEPT !.read = TRUE]
                       /\ k = At(mails, ev.id, NoLetter).to
                       /\ e = [At(clients, k, Phantom) EXCEPT !.received = @ \ {ev.id}]
    OBVIOUS
  <2>4. /\ mails' = With(mails, ev.id, l) /\ clients' = With(clients, k, e)
        /\ AskDatabase([type |-> "MarkAsRead", id |-> ev.id])
    BY <1>3, <1>10, <2>3 DEF on_email_read
  <2>5. Phantom.received \subseteq I
    BY DEF Phantom
  <2>6. PICK x : x = At(clients, k, Phantom)
    OBVIOUS
  <2>7. x.received \subseteq I
    BY <1>2, <2>5, <2>6, ClientsInWith
  <2>8. e.received \subseteq I
    <3>1. x \in Entry
      <4>1. IsClients(clients) /\ IsMails(mails)
        BY TypedParts
      <4>2. At(mails, ev.id, NoLetter) \in Letters
        BY <2>2, <4>1, NotYet, MailsWith
      <4>3. k \in Ids
        BY <2>3, <4>2, NewLetter
      <4> QED BY <2>6, <4>1, <4>3, NotYet, ClientsWith
    <3>2. PICK S : S = x.received \ {ev.id}
      OBVIOUS
    <3>3. e = [x EXCEPT !.received = S]
      BY <2>3, <2>6, <3>2
    <3>4. e.received = S
      BY <3>1, <3>3 DEF Entry
    <3> QED BY <2>7, <3>2, <3>4
  <2>9. ClientsIn(clients', I)
    BY <1>2, <2>4, <2>8, ClientsInWith
  <2>10. DOMAIN mails' \subseteq I
    BY <1>2, <2>2, <2>4 DEF With
  <2>11. PICK r \in Requests : r = [type |-> "MarkAsRead", id |-> ev.id]
    BY <2>2, MadeRequests
  <2>12. r.type = "MarkAsRead" /\ r.id = ev.id
    BY <2>11
  <2>13. RequestIn(r, I) /\ AskDatabase(r) /\ r.type \notin {"Fill", "Create"}
    BY <2>2, <2>4, <2>11, <2>12 DEF RequestIn
  <2> QED BY <1>1, <1>2, <2>1, <2>9, <2>10, <2>13, HandlerSized
<1>11. CASE on_email_delete
  <2>1. Got("Delete") /\ UNCHANGED shown
    BY <1>11 DEF on_email_delete
  <2>2. ev.id \in I /\ ev.id \in Nat
    BY <1>4, <2>1, EventShape DEF EventIn
  <2>3. PICK l : l = At(mails, ev.id, NoLetter)
    OBVIOUS
  <2>4. PICK c1 : c1 = Touched(clients, l.from, Phantom)
    OBVIOUS
  <2>5. PICK cs : cs = Touched(c1, l.to, Phantom)
    OBVIOUS
  <2>6. PICK S : S = cs[l.to].received \ {ev.id}
    OBVIOUS
  <2>7. /\ mails' = Without(mails, ev.id) /\ clients' = [cs EXCEPT ![l.to].received = S]
        /\ AskDatabase([type |-> "Remove", id |-> ev.id])
    BY <1>3, <1>11, <2>3, <2>4, <2>5, <2>6 DEF on_email_delete
  <2>8. Phantom.received \subseteq I
    BY DEF Phantom
  <2>9. ClientsIn(c1, I) /\ ClientsIn(cs, I)
    <3>1. ClientsIn(c1, I)
      BY <1>2, <2>4, <2>8, ClientsInWith
    <3> QED BY <2>5, <2>8, <3>1, ClientsInWith
  <2>10. IsClients(cs) /\ l.to \in DOMAIN cs
    <3>1. IsClients(clients) /\ IsMails(mails)
      BY TypedParts
    <3>2. l \in Letters
      BY <2>2, <2>3, <3>1, NotYet, MailsWith
    <3>3. l.to \in Ids /\ l.from \in Ids
      BY <3>2, NewLetter
    <3>4. IsClients(c1)
      BY <2>4, <3>1, <3>3, NotYet, ClientsWith
    <3>5. l.to \in DOMAIN cs
      BY <2>5 DEF Touched, With
    <3> QED BY <2>5, <3>3, <3>4, <3>5, NotYet, ClientsWith
  <2>11. S \subseteq I
    BY <2>6, <2>9, <2>10 DEF ClientsIn
  <2>12. ClientsIn(clients', I)
    <3>1. S \in SUBSET Nat
      BY <2>6, <2>10, NewEntry DEF IsClients
    <3>2. PICK w : w = [cs EXCEPT ![l.to].received = S]
      OBVIOUS
    <3>3. DOMAIN w = DOMAIN cs /\ \A j \in DOMAIN cs : w[j].received = IF j = l.to THEN S ELSE cs[j].received
      BY <2>10, <3>1, <3>2, ListSet
    <3>4. ClientsIn(w, I)
      BY <2>9, <2>11, <3>3 DEF ClientsIn
    <3> QED BY <2>7, <3>2, <3>4
  <2>13. DOMAIN mails' \subseteq I
    <3>1. PICK w : w = Without(mails, ev.id)
      OBVIOUS
    <3>2. DOMAIN w = DOMAIN mails \ {ev.id}
      BY <3>1 DEF Without, Restrict
    <3> QED BY <1>2, <2>7, <3>1, <3>2
  <2>14. PICK r \in Requests : r = [type |-> "Remove", id |-> ev.id]
    BY <2>2, MadeRequests
  <2>15. r.type = "Remove" /\ r.id = ev.id
    BY <2>14
  <2>16. RequestIn(r, I) /\ AskDatabase(r) /\ r.type \notin {"Fill", "Create"}
    BY <2>2, <2>7, <2>14, <2>15 DEF RequestIn
  <2> QED BY <1>1, <1>2, <2>1, <2>12, <2>13, <2>16, HandlerSized
<1>12. CASE on_client_connected
  <2>1. Got("Connected") /\ UNCHANGED <<mails, maildb>>
    BY <1>12 DEF on_client_connected
  <2>2. PICK ids : ids = {id \in DOMAIN mails : mails[id].to = ev.from}
    OBVIOUS
  <2>3. PICK e : e = [known |-> TRUE, received |-> ids]
    OBVIOUS
  <2>4. e.received \subseteq I /\ ids \subseteq I
    BY <1>2, <2>2, <2>3
  <2>5. /\ clients' = With(clients, ev.from, e)
        /\ shown' = [shown EXCEPT ![ev.from] = IF ev.from \in here THEN ids ELSE @]
    BY <1>3, <1>12, <2>2, <2>3 DEF on_client_connected
  <2>6. ClientsIn(clients', I)
    BY <1>2, <2>4, <2>5, ClientsInWith
  <2>7. \A c \in Characters : shown'[c] \subseteq I
    BY <1>2, <2>4, <2>5 DEF MailTyped
  <2> QED BY <1>1, <1>2, <2>1, <2>6, <2>7, HandlerSized
<1>13. CASE on_client_disconnected
  <2>1. Got("Disconnected") /\ UNCHANGED <<mails, maildb, shown>>
    BY <1>13 DEF on_client_disconnected
  <2>2. clients' = Without(clients, ev.from)
    BY <1>3, <1>13 DEF on_client_disconnected
  <2>3. Phantom.received \subseteq I
    BY DEF Phantom
  <2>4. ClientsIn(clients', I)
    BY <1>2, <2>2, <2>3, ClientsInWith
  <2> QED BY <1>1, <1>2, <2>1, <2>4, HandlerSized
<1>14. CASE on_get_emails_response
  <2>1. Got("Emails") /\ UNCHANGED <<clients, maildb, shown>>
    BY <1>14 DEF on_get_emails_response
  <2>2. DOMAIN mails' = DOMAIN mails \union DOMAIN dbmails
    BY <1>14 DEF on_get_emails_response
  <2> QED BY <1>1, <1>2, <2>1, <2>2, HandlerSized
<1> QED BY <1>5, <1>6, <1>7, <1>8, <1>9, <1>10, <1>11, <1>12, <1>13, <1>14

(* The database gives a new letter the next number, which the letter had   *)
(* been promised when it was written.                                      *)
LEMMA DatabaseSized ==
    ASSUME MailTyped, Bounded,
           fillEmailRecipientId \/ createEmail \/ markEmailAsRead \/ deleteEmail \/ getEmails
    PROVE  Bounded'
<1>1. PICK I : I = DOMAIN dbmails
  OBVIOUS
<1>2. Within(I) /\ Paper
  BY <1>1 DEF Bounded
<1>3. PICK r : r = Head(maildb)
  OBVIOUS
<1>4. MaxMails \in Nat
  BY MailAssumption
<1>5. PICK a, b, k \in Nat : a = Counted(mailq, Unsent) /\ b = Counted(maildb, Unstored)
                             /\ k = Cardinality(DOMAIN dbmails)
  BY CountsAre
<1>6. written \in 0..MaxMails /\ k + (a + b) <= written
  BY <1>2, <1>5 DEF Paper, InWriting
<1>7. ASSUME NEW type, Serves(type), NEW J, I \subseteq J, J = DOMAIN dbmails',
             \A ev \in Posts' : EventIn(ev, J),
             NEW d \in Int, d = Counted(mailq', Unsent),
             NEW n \in Int, n = Cardinality(DOMAIN dbmails'),
             n + d <= k + a + (IF type \in {"Fill", "Create"} THEN 1 ELSE 0)
      PROVE  Bounded'
  <2>1. r \in Requests /\ r.type = type /\ Asks' \subseteq Asks
    BY <1>3, <1>7, ServedRequest
  <2>2. UNCHANGED <<clients, mails, shown, written>>
    BY <1>7 DEF Serves
  <2>3. Within(J)'
    <3>1. \A q \in Asks' : RequestIn(q, J)
      BY <1>2, <1>7, <2>1 DEF Within, RequestIn
    <3>2. DOMAIN mails \subseteq J /\ ClientsIn(clients, J) /\ \A c \in Characters : shown[c] \subseteq J
      BY <1>2, <1>7 DEF Within, ClientsIn
    <3> QED BY <1>7, <2>2, <3>1, <3>2 DEF Within, ClientsIn
  <2>4. PICK e \in Int : /\ e = Counted(maildb', Unstored)
                         /\ type \in {"Fill", "Create"} => e = b - 1
                         /\ type \notin {"Fill", "Create"} => e = b
    BY <1>5, <1>7, ServedSized
  <2>5. n + (d + e) <= written
    BY <1>4, <1>6, <1>7, <2>4
  <2>6. Paper'
    BY <1>6, <1>7, <2>2, <2>4, <2>5 DEF Paper, InWriting
  <2> QED BY <1>7, <2>3, <2>6 DEF Bounded, Within
<1>8. \A ev \in Posts : EventIn(ev, I)
  BY <1>2 DEF Within
<1>9. ASSUME NEW type, Serves(type) PROVE r \in Requests /\ r.type = type /\ RequestIn(r, I)
  BY <1>2, <1>3, <1>9, ServedRequest DEF Within
<1>10. CASE fillEmailRecipientId
  <2>1. Serves("Fill") /\ UNCHANGED dbmails
    BY <1>10 DEF fillEmailRecipientId
  <2>2. r \in Requests /\ r.type = "Fill"
    BY <1>9, <2>1
  <2>3. r.from \in Characters /\ r.to \in Ids
        /\ [r EXCEPT !.type = "Filled"] = [type |-> "Filled", from |-> r.from, to |-> r.to]
    BY <2>2, RequestShape
  <2>4. /\ [type |-> "Filled", from |-> r.from, to |-> r.to] \in Events
        /\ [type |-> "FillError", from |-> r.from] \in Events
    BY <2>3, MadeEvents
  <2>5. \E ev \in Events : EventIn(ev, I) /\ PostMail(ev)
    <3>1. CASE r.to \in Characters
      <4>1. PICK ev \in Events : ev = [type |-> "Filled", from |-> r.from, to |-> r.to]
        BY <2>4
      <4>2. ev.type = "Filled" /\ ev.to = r.to
        BY <4>1
      <4>3. PostMail(ev)
        BY <1>3, <1>10, <2>3, <3>1, <4>1 DEF fillEmailRecipientId
      <4> QED BY <3>1, <4>2, <4>3 DEF EventIn
    <3>2. CASE r.to \notin Characters
      <4>1. PICK ev \in Events : ev = [type |-> "FillError", from |-> r.from]
        BY <2>4
      <4>2. ev.type = "FillError"
        BY <4>1
      <4>3. PostMail(ev)
        BY <1>3, <1>10, <3>2, <4>1 DEF fillEmailRecipientId
      <4> QED BY <4>2, <4>3 DEF EventIn
    <3> QED BY <3>1, <3>2
  <2>6. PICK ev \in Events : EventIn(ev, I) /\ PostMail(ev)
    BY <2>5
  <2>7. Posts' = Posts \union {ev}
    BY <2>6, PostedEvent
  <2>8. PICK d \in Int : d = Counted(mailq', Unsent) /\ d <= a + 1
    <3>1. \/ Counted(mailq', Unsent) = Counted(mailq, Unsent) + 1
          \/ Counted(mailq', Unsent) = Counted(mailq, Unsent)
      BY <2>6, PostedSized
    <3> QED BY <1>5, <3>1
  <2>9. k + d <= k + a + 1
    BY <2>8
  <2>10. I = DOMAIN dbmails' /\ k = Cardinality(DOMAIN dbmails')
    BY <1>1, <1>5, <2>1
  <2> QED BY <1>7, <1>8, <2>1, <2>6, <2>7, <2>8, <2>9, <2>10
<1>11. CASE createEmail
  <2>1. Serves("Create")
    BY <1>11 DEF createEmail
  <2>2. r \in Requests /\ r.type = "Create" /\ r.to \in Characters
    BY <1>9, <2>1 DEF RequestIn
  <2>3. r.from \in Characters /\ r.to \in Ids
    BY <2>2, RequestShape
  <2>4. CASE UNCHANGED <<dbmails, mailq>>
    <3>1. a = Counted(mailq', Unsent) /\ I = DOMAIN dbmails' /\ k = Cardinality(DOMAIN dbmails')
          /\ Posts' = Posts
      BY <1>1, <1>5, <2>4 DEF Posts
    <3>2. k + a <= k + a + 1
      OBVIOUS
    <3> QED BY <1>7, <1>8, <2>1, <3>1, <3>2
  <2>5. CASE ~UNCHANGED <<dbmails, mailq>>
    <3>1. PICK l : l = [from |-> r.from, to |-> r.to, read |-> FALSE]
      OBVIOUS
    <3>2. PICK n \in Nat : DOMAIN dbmails = 1..n /\ n = k
      <4>1. PICK n \in Nat : DOMAIN dbmails = 1..n
        BY DEF MailTyped
      <4>2. Cardinality(1..n) = n
        BY FS_Interval
      <4> QED BY <1>5, <4>1, <4>2
    <3>3. PICK ev \in Events : ev = [type |-> "Created", from |-> r.from, to |-> r.to, id |-> k + 1]
      <4>1. k + 1 \in Nat
        OBVIOUS
      <4>2. [type |-> "Created", from |-> r.from, to |-> r.to, id |-> k + 1] \in Events
        BY <2>3, <4>1, MadeEvents
      <4> QED BY <4>2
    <3>4. dbmails' = With(dbmails, k + 1, l) /\ PostMail(ev)
      BY <1>3, <1>5, <1>11, <2>5, <3>1, <3>3 DEF createEmail
    <3>5. PICK J : J = DOMAIN dbmails'
      OBVIOUS
    <3>6. J = I \union {k + 1} /\ J = 1..(k + 1)
      <4>1. 1..(k + 1) = (1..k) \union {k + 1}
        OBVIOUS
      <4> QED BY <1>1, <3>2, <3>4, <3>5, <4>1 DEF With
    <3>7. Cardinality(J) = k + 1
      <4>1. PICK m \in Nat : m = k + 1
        OBVIOUS
      <4>2. Cardinality(1..m) = m
        BY FS_Interval
      <4> QED BY <3>6, <4>1, <4>2
    <3>8. ev.type = "Created" /\ ev.id = k + 1 /\ ev.to = r.to
      BY <3>3
    <3>9. EventIn(ev, J)
      BY <2>2, <3>6, <3>8 DEF EventIn
    <3>10. Posts' = Posts \union {ev} /\ Counted(mailq', Unsent) = a
      BY <1>5, <3>4, <3>8, PostedEvent, PostedSized
    <3>11. \A x \in Posts' : EventIn(x, J)
      BY <1>8, <3>6, <3>9, <3>10 DEF EventIn
    <3>12. PICK m \in Int : m = k + 1
      OBVIOUS
    <3>13. m + a <= k + a + 1
      BY <3>12
    <3>14. m = Cardinality(DOMAIN dbmails') /\ I \subseteq J
      BY <3>5, <3>6, <3>7, <3>12
    <3> QED BY <1>7, <2>1, <3>5, <3>10, <3>11, <3>13, <3>14
  <2> QED BY <2>4, <2>5
<1>12. ASSUME NEW type, Serves(type), DOMAIN dbmails' = DOMAIN dbmails, mailq' = mailq
       PROVE  Bounded'
  <2>1. a = Counted(mailq', Unsent) /\ I = DOMAIN dbmails' /\ k = Cardinality(DOMAIN dbmails')
        /\ Posts' = Posts
    BY <1>1, <1>5, <1>12 DEF Posts
  <2>2. k + a <= k + a + (IF type \in {"Fill", "Create"} THEN 1 ELSE 0)
    OBVIOUS
  <2> QED BY <1>7, <1>8, <1>12, <2>1, <2>2
<1>13. CASE markEmailAsRead
  BY <1>12, <1>13 DEF markEmailAsRead
<1>14. CASE deleteEmail
  BY <1>12, <1>14 DEF deleteEmail
<1>15. CASE getEmails
  <2>1. Serves("GetEmails") /\ UNCHANGED dbmails
    BY <1>15 DEF getEmails
  <2>2. PICK ev \in Events : ev = [type |-> "Emails", from |-> NoOne]
    BY DEF Events
  <2>3. ev.type = "Emails"
    BY <2>2
  <2>4. PostMail(ev)
    BY <1>15, <2>2 DEF getEmails
  <2>5. Posts' = Posts \union {ev} /\ Counted(mailq', Unsent) = a
    BY <1>5, <2>3, <2>4, PostedEvent, PostedSized
  <2>6. \A x \in Posts' : EventIn(x, I)
    BY <1>8, <2>3, <2>5 DEF EventIn
  <2>7. I = DOMAIN dbmails' /\ k = Cardinality(DOMAIN dbmails')
    BY <1>1, <1>5, <2>1
  <2>8. k + a <= k + a + (IF "GetEmails" \in {"Fill", "Create"} THEN 1 ELSE 0)
    OBVIOUS
  <2> QED BY <1>7, <2>1, <2>5, <2>6, <2>7, <2>8
<1> QED BY <1>10, <1>11, <1>13, <1>14, <1>15

LEMMA RestartSized ==
    ASSUME MailTyped, Bounded, Restarts
    PROVE  Bounded'
<1>1. PICK I : I = DOMAIN dbmails /\ I = DOMAIN dbmails'
  BY DEF Restarts
<1>2. PICK k \in Nat : k = Cardinality(DOMAIN dbmails)
  BY CountsAre
<1>3. mails' = << >> /\ clients' = << >> /\ mailq' = << >>
      /\ maildb' = <<[type |-> "GetEmails"]>> /\ written' = k
      /\ \A c \in Characters : shown'[c] = {}
  BY <1>2 DEF Restarts
<1>4. Posts' = {} /\ Asks' = {[type |-> "GetEmails"]}
  BY <1>3 DEF Posts, Asks, ToSet
<1>5. [type |-> "GetEmails"].type = "GetEmails"
  OBVIOUS
<1>6. RequestIn([type |-> "GetEmails"], I)
  BY <1>5 DEF RequestIn
<1>7. DOMAIN mails' = {} /\ DOMAIN clients' = {}
  BY <1>3
<1>8. Within(I)'
  BY <1>3, <1>4, <1>6, <1>7 DEF Within, ClientsIn
<1>9. Counted(mailq', Unsent) = 0
  <2>1. PICK A : A = {i \in 1..Len(mailq') : mailq'[i] \in Unsent}
    OBVIOUS
  <2>2. Len(mailq') = 0
    BY <1>3
  <2>3. A = {}
    BY <2>1, <2>2
  <2>4. Cardinality(A) = 0
    BY <2>3, FS_EmptySet
  <2> QED BY <2>1, <2>4 DEF Counted
<1>10. Counted(maildb', Unstored) = 0
  <2>1. PICK A : A = {i \in 1..Len(maildb') : maildb'[i] \in Unstored}
    OBVIOUS
  <2>2. Len(maildb') = 1 /\ maildb'[1].type = "GetEmails"
    BY <1>3
  <2>3. \A i \in 1..1 : i = 1
    OBVIOUS
  <2>4. A = {}
    BY <2>1, <2>2, <2>3 DEF Unstored
  <2>5. Cardinality(A) = 0
    BY <2>4, FS_EmptySet
  <2> QED BY <2>1, <2>5 DEF Counted
<1>11. k \in 0..MaxMails
  <2>1. MaxMails \in Nat
    BY MailAssumption
  <2>2. PICK a, b \in Nat : a = Counted(mailq, Unsent) /\ b = Counted(maildb, Unstored)
    BY CountsAre
  <2>3. written \in 0..MaxMails /\ k + (a + b) <= written
    BY <1>2, <2>2 DEF Bounded, Paper, InWriting
  <2> QED BY <2>1, <2>2, <2>3
<1>12. k + (0 + 0) <= k
  OBVIOUS
<1>13. k = Cardinality(DOMAIN dbmails')
  BY <1>2 DEF Restarts
<1>14. Paper'
  BY <1>3, <1>9, <1>10, <1>11, <1>12, <1>13 DEF Paper, InWriting
<1> QED BY <1>1, <1>8, <1>14 DEF Bounded, Within

LEMMA StartedTyped == Started => MailTyped
BY StartedSound DEF MailInv

LEMMA RestartTyped ==
    ASSUME MailTyped, Restarts
    PROVE  MailTyped'
<1>1. IsMails(dbmails) /\ \E n \in Nat : DOMAIN dbmails = 1..n
  BY TypedParts DEF Queued
<1>2. Started'
  BY <1>1 DEF Restarts, Started, IsMails
<1> QED BY <1>2, StartedTyped, PTL

LEMMA MailSizedStep ==
    ASSUME MailSized, cast \subseteq Characters, MailNext(cast)
    PROVE  MailSized'
<1>1. MailTyped /\ Bounded /\ habit \subseteq Habits
  BY DEF MailSized
<1>2. habit' = habit
  BY DEF MailNext, EmailSend, EmailRead, EmailDelete, EmailHeaders, MailEnters, MailLeaves,
         BusDelivers, on_email_send, on_fill_email_recipient_id_response,
         on_fill_email_recipient_id_error, on_email_create_response, on_email_header,
         on_email_read, on_email_delete, on_client_connected, on_client_disconnected,
         on_get_emails_response, fillEmailRecipientId, createEmail, markEmailAsRead,
         deleteEmail, getEmails, Restarts, Got, Serves, playerRest
<1>3. SUFFICES MailTyped' /\ Bounded'
  BY <1>1, <1>2 DEF MailSized
<1>4. ASSUME NEW c \in cast, NEW to \in cast \union {NoOne}, EmailSend(c, to)
      PROVE  MailTyped' /\ Bounded'
  <2>1. to \in Ids /\ c \in Characters /\ 1 \in Nat
    BY DEF Ids
  <2> QED BY <1>1, <1>4, <2>1, PlayersTyped, PlayersSized
<1>5. ASSUME NEW c \in cast, NEW id \in MailIds, EmailRead(c, id) \/ EmailDelete(c, id)
      PROVE  MailTyped' /\ Bounded'
  <2>1. NoOne \in Ids /\ c \in Characters /\ id \in Nat
    BY MailAssumption DEF Ids, MailIds
  <2> QED BY <1>1, <1>5, <2>1, PlayersTyped, PlayersSized
<1>6. ASSUME NEW c \in cast, EmailHeaders(c)
      PROVE  MailTyped' /\ Bounded'
  <2>1. NoOne \in Ids /\ c \in Characters /\ 1 \in Nat
    BY DEF Ids
  <2> QED BY <1>1, <1>6, <2>1, PlayersTyped, PlayersSized
<1>7. ASSUME NEW c \in cast, MailEnters(c) \/ MailLeaves(c)
      PROVE  MailTyped' /\ Bounded'
  BY <1>1, <1>7, ComingTyped, ComingSized
<1>8. CASE BusDelivers
  <2>1. PICK ev \in ReportEvents : ev = Head(bus)
    BY <1>1, <1>8, Taken DEF MailTyped, BusDelivers
  <2>2. ev.from \in Characters
    BY DEF ReportEvents
  <2> QED BY <1>1, <1>8, <2>2, ComingTyped, ComingSized
<1>9. CASE \/ on_email_send \/ on_fill_email_recipient_id_response
           \/ on_fill_email_recipient_id_error \/ on_email_create_response
           \/ on_email_header \/ on_email_read \/ on_email_delete
           \/ on_client_connected \/ on_client_disconnected \/ on_get_emails_response
  BY <1>1, <1>9, HandlersTyped, HandlersSized
<1>10. CASE fillEmailRecipientId \/ createEmail \/ markEmailAsRead \/ deleteEmail \/ getEmails
  BY <1>1, <1>10, DatabaseTyped, DatabaseSized
<1>11. CASE Restarts
  BY <1>1, <1>11, RestartTyped, RestartSized
<1> QED BY <1>4, <1>5, <1>6, <1>7, <1>8, <1>9, <1>10, <1>11 DEF MailNext

(* Of letters with numbers in MailIds the types are those of the model.    *)
LEMMA EventTyped ==
    ASSUME NEW ev \in Events, EventIn(ev, MailIds)
    PROVE  ev \in MailEvents
<1>1. CASE ev \in [type : {"Send", "Filled"}, from : Characters, to : Ids]
  BY <1>1 DEF MailEvents
<1>2. CASE ev \in [type : {"FillError", "Header", "Connected", "Disconnected"}, from : Characters]
  BY <1>2 DEF MailEvents
<1>3. CASE ev \in [type : {"Created"}, from : Characters, to : Ids, id : Nat]
  BY <1>3 DEF MailEvents, EventIn
<1>4. CASE ev \in [type : {"Read", "Delete"}, from : Characters, id : Nat]
  BY <1>4 DEF MailEvents, EventIn
<1>5. CASE ev \in [type : {"Emails"}, from : {NoOne}]
  BY <1>5 DEF MailEvents
<1> QED BY <1>1, <1>2, <1>3, <1>4, <1>5 DEF Events

LEMMA RequestTyped ==
    ASSUME NEW r \in Requests, RequestIn(r, MailIds)
    PROVE  r \in MailRequests
<1>1. CASE r \in [type : {"Fill", "Create"}, from : Characters, to : Ids]
  BY <1>1 DEF MailRequests
<1>2. CASE r \in [type : {"MarkAsRead", "Remove"}, id : Nat]
  BY <1>2 DEF MailRequests, RequestIn
<1>3. CASE r \in [type : {"GetEmails"}]
  BY <1>3 DEF MailRequests
<1> QED BY <1>1, <1>2, <1>3 DEF Requests

LEMMA QueueTyped ==
    ASSUME NEW S, NEW T, NEW q \in Seq(S), \A x \in ToSet(q) : x \in T
    PROVE  q \in Seq(T)
<1>1. PICK n \in Nat : n = Len(q) /\ DOMAIN q = 1..n
  OBVIOUS
<1>2. \A i \in 1..n : q[i] \in T
  BY <1>1 DEF ToSet
<1>3. q = [i \in 1..n |-> q[i]]
  BY <1>1
<1> QED BY <1>2, <1>3

LEMMA MailSizedTypes == MailSized => MailTypeOK
<1> SUFFICES ASSUME MailSized PROVE MailTypeOK
  OBVIOUS
<1>1. MailTyped /\ Bounded /\ habit \subseteq Habits
  BY DEF MailSized
<1>2. PICK I : I = DOMAIN dbmails
  OBVIOUS
<1>3. I \subseteq MailIds
  <2>1. PICK n \in Nat : I = 1..n
    BY <1>1, <1>2 DEF MailTyped
  <2>2. Cardinality(1..n) = n
    BY FS_Interval
  <2>3. PICK a, b \in Nat : a = Counted(mailq, Unsent) /\ b = Counted(maildb, Unstored)
    BY <1>1, CountsAre
  <2>4. written \in 0..MaxMails /\ n + (a + b) <= written /\ MaxMails \in Nat
    BY <1>1, <1>2, <2>1, <2>2, <2>3, MailAssumption DEF Bounded, Paper, InWriting
  <2>5. n <= MaxMails
    BY <2>3, <2>4
  <2> QED BY <2>1, <2>4, <2>5 DEF MailIds
<1>4. Within(I)
  BY <1>1, <1>2 DEF Bounded
<1>5. \A ev \in Posts : EventIn(ev, MailIds)
  BY <1>3, <1>4 DEF Within, EventIn
<1>6. \A r \in Asks : RequestIn(r, MailIds)
  BY <1>3, <1>4 DEF Within, RequestIn
<1>7. mailq \in Seq(MailEvents)
  <2>1. mailq \in Seq(Events) /\ Posts \subseteq Events
    BY <1>1, QueueElements DEF MailTyped
  <2>2. \A x \in ToSet(mailq) : x \in MailEvents
    BY <1>5, <2>1, EventTyped DEF Posts
  <2> QED BY <2>1, <2>2, QueueTyped
<1>8. maildb \in Seq(MailRequests)
  <2>1. maildb \in Seq(Requests) /\ Asks \subseteq Requests
    BY <1>1, QueueElements DEF MailTyped
  <2>2. \A x \in ToSet(maildb) : x \in MailRequests
    BY <1>6, <2>1, RequestTyped DEF Asks
  <2> QED BY <2>1, <2>2, QueueTyped
<1>9. bus \in Seq([type : {"Connected", "Disconnected"}, from : Characters])
  BY <1>1 DEF MailTyped, ReportEvents
<1>10. DOMAIN clients \subseteq Ids /\ clients \in [DOMAIN clients -> Entries]
  <2>1. \A k \in DOMAIN clients : clients[k] \in Entry /\ clients[k].received \subseteq MailIds
    BY <1>1, <1>3, <1>4 DEF MailTyped, Within, ClientsIn
  <2>2. \A k \in DOMAIN clients : clients[k] \in Entries
    BY <2>1 DEF Entry, Entries
  <2> HIDE DEF Entries, Entry
  <2> QED BY <1>1, <2>2 DEF MailTyped
<1>11. shown \in [Characters -> SUBSET MailIds]
  BY <1>1, <1>3, <1>4 DEF MailTyped, Within
<1>12. DOMAIN mails \subseteq MailIds /\ DOMAIN dbmails \subseteq MailIds
  BY <1>2, <1>3, <1>4 DEF Within
<1>13. written \in 0..MaxMails
  BY <1>1 DEF Bounded, Paper
<1> HIDE DEF MailEvents, MailRequests, Entries, Letters
<1> QED BY <1>1, <1>7, <1>8, <1>9, <1>10, <1>11, <1>12, <1>13 DEF MailTypeOK, MailTyped

-----------------------------------------------------------------------------
(* The types of all three services: a step of one leaves the others what   *)
(* they were, but for who is there.                                        *)
ServicesTypes ==
    /\ TradeTypes /\ MailSized
    /\ service \in Kinds /\ stock \subseteq Enhancements \union Inspirations

LEMMA OtherTrade ==
    ASSUME TradeTypes, UNCHANGED tradeOnly, here' \subseteq Characters
    PROVE  TradeTypes'
<1>1. UNCHANGED <<trade, trades, goods, firm>> /\ TradeInv /\ PartyInv
  BY DEF tradeOnly, TradeTypes
<1>2. TradeInv'
  BY <1>1, UnchangedTrades
<1>3. PartyInv'
  BY <1>1 DEF PartyInv, Parties, Held
<1> HIDE DEF Goods
<1> QED BY <1>1, <1>2, <1>3 DEF TradeTypes

LEMMA OtherMail ==
    ASSUME MailSized, UNCHANGED mailOnly, here' \subseteq Characters
    PROVE  MailSized'
<1>1. UNCHANGED <<clients, mails, dbmails, mailq, maildb, bus, shown, awaiting, written, habit, crashed>>
      /\ MailTyped /\ Bounded /\ habit \subseteq Habits
  BY DEF mailOnly, MailSized
<1>2. MailTyped'
  <2> HIDE DEF Events, Requests, ReportEvents, Entry, Letters
  <2> QED BY <1>1 DEF MailTyped
<1>3. PICK I : I = DOMAIN dbmails /\ I = DOMAIN dbmails'
  BY <1>1
<1>4. Within(I)
  BY <1>1, <1>3 DEF Bounded
<1>5. Posts' = Posts /\ Asks' = Asks
  BY <1>1 DEF Posts, Asks
<1>6. Within(I)'
  BY <1>1, <1>4, <1>5 DEF Within
<1>7. Paper'
  BY <1>1 DEF Bounded, Paper, InWriting
<1> QED BY <1>1, <1>2, <1>3, <1>6, <1>7 DEF MailSized, Bounded, Within

LEMMA TypedAtStart ==
    ASSUME Init
    PROVE  ServicesTypes
<1>1. here \subseteq Characters
  BY DEF Init, ThereAtStart
<1>2. TradeTypes
  <2>1. TradeInv
    BY DEF Init, TradeInit, TradeInv, Pointers, AcceptedIsCurrent
  <2>2. PartyInv
    BY DEF Init, TradeInit, PartyInv, Parties, Held
  <2>3. goods \in [Characters -> Goods]
    <3> HIDE DEF Goods
    <3> QED BY ServicesAssumption DEF Init
  <2>4. firm = {}
    BY DEF Init, TradeInit
  <2> QED BY <1>1, <2>1, <2>2, <2>3, <2>4 DEF TradeTypes
<1>3. /\ clients = << >> /\ mails = << >> /\ dbmails = << >>
      /\ mailq = << >> /\ maildb = <<AskEmails>> /\ bus = << >>
      /\ shown = [c \in Characters |-> {}] /\ awaiting = {} /\ written = 0 /\ crashed = FALSE
  BY DEF Init, MailInit, AskEmails
<1>4. AskEmails \in Requests /\ AskEmails.type = "GetEmails"
  BY DEF AskEmails, Requests
<1>5. /\ DOMAIN clients = {} /\ DOMAIN mails = {} /\ DOMAIN dbmails = {}
      /\ IsClients(clients) /\ IsMails(mails) /\ IsMails(dbmails)
  BY <1>3 DEF IsClients, IsMails, Mapping
<1>6. /\ mailq \in Seq(Events) /\ maildb \in Seq(Requests) /\ bus \in Seq(ReportEvents)
      /\ Len(mailq) = 0 /\ Len(maildb) = 1 /\ maildb[1] = AskEmails
  <2> HIDE DEF Events, ReportEvents, Requests, AskEmails
  <2> QED BY <1>3, <1>4
<1>7. MailTyped
  <2>1. shown \in [Characters -> SUBSET Nat]
    BY <1>3
  <2>2. \E n \in Nat : DOMAIN dbmails = 1..n
    <3>1. 0 \in Nat /\ 1..0 = {}
      OBVIOUS
    <3> QED BY <1>5, <3>1
  <2>3. awaiting \subseteq Characters /\ crashed \in BOOLEAN
    BY <1>3
  <2>4. IsMails(dbmails)
    BY <1>5
  <2>5. mailq \in Seq(Events) /\ maildb \in Seq(Requests) /\ bus \in Seq(ReportEvents)
    BY <1>6
  <2>6. Queued
    <3> HIDE DEF Events, Requests, ReportEvents, IsMails, AskEmails
    <3> QED BY <1>1, <2>1, <2>2, <2>3, <2>4, <2>5, Zenon DEF Queued
  <2> QED BY <1>5, <2>6, TypedParts
<1>8. Posts = {} /\ Asks = {AskEmails}
  <2>1. DOMAIN mailq = {} /\ DOMAIN maildb = {1}
    BY <1>6
  <2> QED BY <1>6, <2>1 DEF Posts, Asks, ToSet
<1>9. RequestIn(AskEmails, {})
  BY <1>4 DEF RequestIn
<1>10. Within({})
  BY <1>3, <1>5, <1>8, <1>9 DEF Within, ClientsIn
<1>11. Counted(mailq, Unsent) = 0 /\ Counted(maildb, Unstored) = 0
  <2>1. PICK A : A = {i \in 1..Len(mailq) : mailq[i] \in Unsent}
    OBVIOUS
  <2>2. PICK B : B = {i \in 1..Len(maildb) : maildb[i] \in Unstored}
    OBVIOUS
  <2>3. A = {}
    BY <1>6, <2>1
  <2>4. AskEmails \notin Unstored /\ \A i \in 1..1 : i = 1
    BY <1>4 DEF Unstored
  <2>5. B = {}
    BY <1>6, <2>2, <2>4
  <2>6. Cardinality(A) = 0 /\ Cardinality(B) = 0
    BY <2>3, <2>5, FS_EmptySet
  <2> QED BY <2>1, <2>2, <2>6 DEF Counted
<1>12. Paper
  <2>1. Cardinality(DOMAIN dbmails) = 0
    BY <1>5, FS_EmptySet
  <2>2. 0 + (0 + 0) <= 0
    OBVIOUS
  <2> QED BY <1>3, <1>11, <2>1, <2>2, MailAssumption DEF Paper, InWriting
<1>13. Bounded
  BY <1>5, <1>10, <1>12 DEF Bounded
<1>14. habit \subseteq Habits
  BY DEF Init, OneOf
<1>15. service \in Kinds /\ stock \subseteq Enhancements \union Inspirations
  BY ServicesAssumption DEF Init
<1> QED BY <1>2, <1>7, <1>13, <1>14, <1>15 DEF ServicesTypes, MailSized

LEMMA TypesStep ==
    ASSUME ServicesTypes, Followed, Followed', cast \subseteq Characters, [Next]_vars
    PROVE  ServicesTypes'
<1>1. TradeTypes /\ MailSized /\ UNCHANGED <<service, stock>>
  BY DEF ServicesTypes, Next, vars
<1>2. SUFFICES TradeTypes' /\ MailSized'
  BY <1>1 DEF ServicesTypes
<1>3. here' \subseteq Characters
  BY DEF Followed, Faithful, NoTeams
<1>4. ASSUME NEW leavers, leavers \subseteq cast, TradeNext(cast, leavers, stock),
             UNCHANGED mailOnly
      PROVE  TradeTypes' /\ MailSized'
  BY <1>1, <1>3, <1>4, TradeTypesStep, OtherMail
<1>5. CASE service = "mail" /\ MailNext(cast) /\ UNCHANGED tradeOnly
  BY <1>1, <1>3, <1>5, MailSizedStep, OtherTrade
<1>6. CASE UNCHANGED tradeOnly /\ UNCHANGED mailOnly
  BY <1>1, <1>3, <1>6, OtherTrade, OtherMail
<1> QED BY <1>4, <1>5, <1>6 DEF Next, vars

(* Everything the three services keep has its type, in every behaviour and *)
(* after a crash as well: of a trade, that no handler runs out of numbers  *)
(* or points to a deal that is gone, and that trays stay trays of items,   *)
(* whichever places a window names and though influence wraps; of mail,    *)
(* that every number a client, a message or the service calls a letter by  *)
(* is that of a letter in the database (TradeTypeOK, MailTypeOK and        *)
(* TeamTypeOK; Trade.cpp, EmailHandler.cpp, TeamHandler.cpp).              *)
THEOREM ServicesKeepTheirTypes == Spec => []ServicesTypeOK
<1>1. Init => ServicesTypes /\ Followed
  BY TypedAtStart, FollowedAtStart
<1>2. /\ TeamInv /\ cast \subseteq Characters /\ ServicesTypes /\ Followed
      /\ [Next]_vars
      => ServicesTypes' /\ Followed'
  BY FollowedStep, TypesStep
<1>3. TeamInv /\ cast \subseteq Characters /\ ServicesTypes => ServicesTypeOK
  BY TradeTypesHold, MailSizedTypes DEF TeamInv, ServicesTypes, ServicesTypeOK
<1> QED BY <1>1, <1>2, <1>3, TeamSafe, PTL DEF Spec
=============================================================================
