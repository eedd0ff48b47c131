------------------------------- MODULE Trade -------------------------------
(***************************************************************************)
(* Trading between two players on a map: src/Common/GameData/Trade.cpp,    *)
(* the commands and messages that reach it (SlashCommand_Trade.cpp and     *)
(* on_trade_cancelled, on_trade_updated of MapInstance.cpp), and the trays *)
(* of src/Common/GameData/Powers.cpp the goods are taken from and put in.  *)
(* One thread runs all of it: what makes it hard is the order of the two   *)
(* players' messages, and what they do to their trays between the messages.*)
(*                                                                         *)
(* Influence is kept modulo MaxInf + 1, as the code keeps it modulo 2^32.  *)
(* Of the grid of inspirations one column is modelled.                     *)
(***************************************************************************)
EXTENDS Presence, Integers, Sequences, FiniteSets, SequencesExt

CONSTANTS Enhancements, Inspirations,  \* single items
          NoItem,                      \* an empty slot
          MaxInf,                      \* influence runs from 0 to MaxInf
          EnhSlots, InspRows,          \* sizes of the tray and the column
          Offers                       \* what a player may put into the window

ASSUME TradeAssumption ==
    /\ IsFiniteSet(Characters)
    /\ MaxInf \in Nat /\ EnhSlots \in Nat /\ InspRows \in Nat
    /\ NoItem \notin Enhancements \union Inspirations
    /\ Offers \subseteq
          [inf : 0..MaxInf, enh : Seq(1..EnhSlots), insp : Seq(1..InspRows)]

VARIABLES trade,   \* m_trade of the entity each character has or left
          trades,  \* the Trade objects some entity still points to
          goods,   \* influence, enhancement tray and inspirations
          firm     \* history: who has left its goods alone since it accepted

tradeVars == <<here, trade, trades, goods, firm>>

NoTrade == 0
TradeIds == 1..Cardinality(Characters)

Sides == {"a", "b"}

NoOffer == [inf |-> 0, enh |-> << >>, insp |-> << >>]

(* pact: history, both offers as they were when the acceptance was taken   *)
NoPact == << >>
Offered == Offers \union {NoOffer}

Members == [who : Characters, off : Offered, accepted : BOOLEAN,
            pact : {NoPact} \union (Offered \X Offered)]

Deals == [a : Members, b : Members]

Goods ==
    [inf  : 0..MaxInf,
     enh  : [1..EnhSlots -> Enhancements \union {NoItem}],
     insp : [1..InspRows -> Inspirations \union {NoItem}]]

DealsOK ==
    /\ trade \in [Characters -> TradeIds \union {NoTrade}]
    /\ DOMAIN trades \subseteq TradeIds
    /\ trades \in [DOMAIN trades -> Deals]
    /\ \A c \in Characters : trade[c] # NoTrade => trade[c] \in DOMAIN trades

GoodsOK ==
    /\ goods \in [Characters -> Goods]
    /\ firm \subseteq Characters

(* The type invariant of the trades.                                       *)
TradeTypeOK == PresenceTypeOK /\ DealsOK /\ GoodsOK

-----------------------------------------------------------------------------
(* The two sides of a deal                                                 *)

Side(deal, c) == IF deal.a.who = c THEN "a" ELSE "b"

getMember(deal, c) == deal[Side(deal, c)]

getOtherMember(deal, c) == IF deal.a.who = c THEN deal.b ELSE deal.a

isAccepted(deal) == deal.a.accepted /\ deal.b.accepted

HasAccepted(tr, ts, c) ==
    tr[c] # NoTrade /\ getMember(ts[tr[c]], c).accepted

(* m_trade is a shared pointer: a deal lasts while an entity points to it. *)
(* What is kept of `firm` are those whose acceptance still stands, in the  *)
(* deal it was given for.                                                  *)
SetTrades(tr, ts, accepting) ==
    /\ trade' = tr
    /\ trades' = Restrict(ts, {t \in DOMAIN ts : \E c \in Characters : tr[c] = t})
    /\ firm' = {c \in firm \union accepting : tr[c] = trade[c] /\ HasAccepted(tr, ts, c)}

discardTrade(cs) ==
    SetTrades([c \in Characters |-> IF c \in cs THEN NoTrade ELSE trade[c]], trades, {})

-----------------------------------------------------------------------------
(* The trays.  A slot and a row are both a place in a function.            *)

Used(slots) == {i \in DOMAIN slots : slots[i] # NoItem}

(* The first free place; an item that finds none is gone.                  *)
addToChar(slots, item) ==
    LET free == DOMAIN slots \ Used(slots)
    IN  IF free = {} THEN slots
        ELSE [slots EXCEPT ![CHOOSE i \in free : \A j \in free : i <= j] = item]

trashEnhancement(slots, i) == [slots EXCEPT ![i] = NoItem]

(* The rest of the column moves down.                                      *)
removeInspiration(slots, i) ==
    [j \in DOMAIN slots |->
        CASE j < i               -> slots[j]
          [] j = Len(slots)      -> NoItem
          [] OTHER               -> slots[j + 1]]

moveItem(slots, i, j) == [slots EXCEPT ![i] = slots[j], ![j] = slots[i]]

(* Two loops over the places, taking out what is there and keeping it in   *)
(* its order                                                               *)
TakeEnhancement(r, i) ==
    IF r.left[i] = NoItem THEN r
    ELSE [left |-> trashEnhancement(r.left, i), got |-> Append(r.got, r.left[i])]

removeTradedEnhancements(slots, places) ==
    FoldLeft(TakeEnhancement, [left |-> slots, got |-> << >>], places)

(* Mutant: the item stays where it is.                                     *)
MutTakeInspiration(r, i) ==
    IF r.left[i] = NoItem THEN r ELSE [r EXCEPT !.got = Append(@, r.left[i])]

TakeInspiration(r, i) ==
    IF r.left[i] = NoItem THEN r
    ELSE [left |-> removeInspiration(r.left, i), got |-> Append(r.got, r.left[i])]

removeTradedInspirations(slots, places) ==
    FoldLeft(TakeInspiration, [left |-> slots, got |-> << >>], places)

addTraded(slots, items) == FoldLeft(addToChar, slots, items)

-----------------------------------------------------------------------------
(* Asking for a trade and answering.  Accepting the invitation changes no  *)
(* more than the wording of later refusals.                                *)

RequestTrade(c, d) ==
    /\ {c, d} \subseteq here
    /\ trade[c] = NoTrade /\ trade[d] = NoTrade
    /\ LET t == CHOOSE i \in TradeIds : i \notin DOMAIN trades
           new(e) == [who |-> e, off |-> NoOffer, accepted |-> FALSE, pact |-> NoPact]
       IN  SetTrades([trade EXCEPT ![c] = t, ![d] = t],
                     [i \in DOMAIN trades \union {t} |->
                         IF i = t THEN [a |-> new(c), b |-> new(d)] ELSE trades[i]], {})
    /\ UNCHANGED <<here, goods>>

(* An invitation of someone who has gone, accepted or declined             *)
AnswerToNobody(c) ==
    /\ c \in here /\ trade[c] # NoTrade
    /\ \E d \in Characters : d \notin here
    /\ discardTrade({c})
    /\ UNCHANGED <<here, goods>>

TradeDecline(c, d) ==
    /\ {c, d} \subseteq here
    /\ trade[c] # NoTrade /\ trade[c] = trade[d]
    /\ discardTrade({c, d})
    /\ UNCHANGED <<here, goods>>

(* The partner is found by the id the trade was made with; what it is      *)
(* trading now is discarded, whoever that is with.                         *)
OnTradeCancelled(c) ==
    /\ c \in here /\ trade[c] # NoTrade
    /\ LET d == getOtherMember(trades[trade[c]], c).who
       IN  discardTrade(IF d \in here THEN {c, d} ELSE {c})
    /\ UNCHANGED <<here, goods>>

-----------------------------------------------------------------------------
(* Updating the window                                                     *)

MutPlus(have, offered, got) == (have - offered) + got

Plus(have, offered, got) == ((have - offered) + got) % (MaxInf + 1)

InfluenceFits(c, mine, other) == Plus(goods[c].inf, mine.inf, other.inf) >= other.inf

ItemsFit(slots, mine, other) ==
    Cardinality(Used(slots)) - Len(mine) + Len(other) <= Len(slots)

MutRoomForTrade(c, mine, other) ==
    /\ InfluenceFits(c, mine, other)
    /\ ItemsFit(goods[c].enh, mine.enh, other.enh)
    /\ Cardinality(Used(goods[c].insp)) - Len(mine.insp) <= InspRows

hasRoomForTrade(c, mine, other) ==
    /\ InfluenceFits(c, mine, other)
    /\ ItemsFit(goods[c].enh, mine.enh, other.enh)
    /\ ItemsFit(goods[c].insp, mine.insp, other.insp)

(* What the sender's side s and its partner's side p are after the update: *)
(* the partner's acceptance falls with a changed offer, and the sender's   *)
(* own counts only for what was offered already, and if there is room.     *)
Updated(c, deal, s, p, off, accepts) ==
    LET other == getOtherMember(deal, c)
        same  == off = deal[s].off
        takes == accepts /\ same /\ hasRoomForTrade(c, off, other.off)
    IN  [[deal EXCEPT ![p].accepted = @ /\ same,
                      ![p].pact = IF same THEN @ ELSE NoPact]
              EXCEPT ![s].off = off,
                     ![s].accepted = takes,
                     ![s].pact = IF takes THEN <<off, other.off>> ELSE NoPact]

MutUpdateTrade(c, d, deal, off, accepts) ==
    LET s == Side(deal, c)
        other == getOtherMember(deal, c)
        takes == accepts /\ off = deal[s].off /\ hasRoomForTrade(c, off, other.off)
    IN  [deal EXCEPT ![s].off = off, ![s].accepted = takes,
                     ![s].pact = IF takes THEN <<off, other.off>> ELSE NoPact]

updateTrade(c, d, deal, off, accepts) ==
    Updated(c, deal, Side(deal, c), Side(deal, d), off, accepts)

(* Both hand over before either receives.                                  *)
finishTrade(c, d, mine, other) ==
    LET enhC == removeTradedEnhancements(goods[c].enh, mine.enh)
        enhD == removeTradedEnhancements(goods[d].enh, other.enh)
        inspC == removeTradedInspirations(goods[c].insp, mine.insp)
        inspD == removeTradedInspirations(goods[d].insp, other.insp)
    IN  [goods EXCEPT
           ![c] = [inf  |-> Plus(goods[c].inf, mine.inf, other.inf),
                   enh  |-> addTraded(enhC.left, enhD.got),
                   insp |-> addTraded(inspC.left, inspD.got)],
           ![d] = [inf  |-> Plus(goods[d].inf, other.inf, mine.inf),
                   enh  |-> addTraded(enhD.left, enhC.got),
                   insp |-> addTraded(inspD.left, inspC.got)]]

(* What is offered is not looked up in the trays before it is taken.       *)
OnTradeUpdated(c, d, off, accepts) ==
    /\ {c, d} \subseteq here
    /\ trade[c] # NoTrade /\ trade[c] = trade[d]
    /\ LET t    == trade[c]
           deal == updateTrade(c, d, trades[t], off, accepts)
       IN  IF isAccepted(deal)
           THEN /\ goods' = finishTrade(c, d, off, getMember(deal, d).off)
                /\ discardTrade({c, d})
           ELSE /\ SetTrades(trade, [trades EXCEPT ![t] = deal],
                             IF accepts THEN {c} ELSE {})
                /\ UNCHANGED goods
    /\ UNCHANGED here

(* The client, not the server, sees to this: only who made the deal has a  *)
(* window; it names the other, and offers what c has at that time.  Sent   *)
(* again to accept, it holds what it held, whatever has become of that.    *)
CanOffer(c, off) ==
    /\ off.inf <= goods[c].inf
    /\ ToSet(off.enh) \subseteq Used(goods[c].enh)
    /\ ToSet(off.insp) \subseteq Used(goods[c].insp)

WindowUpdated(c, off, accepts) ==
    \E d \in Characters :
        /\ trade[c] # NoTrade
        /\ LET deal == trades[trade[c]]
           IN  /\ c \in {deal.a.who, deal.b.who} /\ d = getOtherMember(deal, c).who
               /\ off = getMember(deal, c).off \/ CanOffer(c, off)
        /\ OnTradeUpdated(c, d, off, accepts)

-----------------------------------------------------------------------------
(* What else the players do with their goods                               *)

SetGoods(c, g) ==
    /\ c \in here
    /\ goods' = [goods EXCEPT ![c] = g]
    /\ firm' = firm \ {c}
    /\ UNCHANGED <<here, trade, trades>>

OnMoveEnhancement(c, i, j) ==
    /\ i # j
    /\ SetGoods(c, [goods[c] EXCEPT !.enh = moveItem(@, i, j)])

OnMoveInspiration(c, i, j) ==
    /\ i # j
    /\ SetGoods(c, [goods[c] EXCEPT !.insp = moveItem(@, i, j)])

(* Thrown away, set into a power, combined                                 *)
OnTrashEnhancement(c, i) ==
    SetGoods(c, [goods[c] EXCEPT !.enh = trashEnhancement(@, i)])

OnActivateInspiration(c, i) ==
    /\ goods[c].insp[i] # NoItem
    /\ SetGoods(c, [goods[c] EXCEPT !.insp = removeInspiration(@, i)])

OnStoreSellItem(c, i) ==
    /\ goods[c].enh[i] # NoItem
    /\ goods[c].inf < MaxInf
    /\ SetGoods(c, [goods[c] EXCEPT !.enh = trashEnhancement(@, i), !.inf = @ + 1])

(* The store takes its price and, where there is room, hands over the item *)
(* (or the world rewards a player with it).                                *)
OnStoreBuyItem(c, item) ==
    /\ \A d \in Characters : item \notin Range(goods[d].enh) \union Range(goods[d].insp)
    /\ SetGoods(c, [inf  |-> IF goods[c].inf = 0 THEN 0 ELSE goods[c].inf - 1,
                    enh  |-> IF item \in Enhancements
                             THEN addToChar(goods[c].enh, item) ELSE goods[c].enh,
                    insp |-> IF item \in Inspirations
                             THEN addToChar(goods[c].insp, item) ELSE goods[c].insp])

-----------------------------------------------------------------------------
TradeInit ==
    /\ trade = [c \in Characters |-> NoTrade]
    /\ trades = << >>
    /\ firm = {}

(* Nothing resets m_trade: not the logout, nor the filling of an entity    *)
(* that is used again.                                                     *)
TradeLeaves(c) ==
    /\ Leaves(c)
    /\ UNCHANGED <<trade, trades, goods, firm>>

(* The pool has one entity for each character, and hands out any that is   *)
(* free: the one c left, one that another left, or one not used before.    *)
TradeEnters(c) ==
    /\ Enters(c)
    /\ \E d \in Characters \ here :
          SetTrades([trade EXCEPT ![c] = trade[d], ![d] = trade[c]], trades, {})
    /\ UNCHANGED goods

(* Of all the items the store has some.                                    *)
TradeNext(cast, leavers, stock) ==
    \/ \E c, d \in cast : RequestTrade(c, d) \/ TradeDecline(c, d)
    \/ \E c \in cast, off \in Offered, accepts \in BOOLEAN : WindowUpdated(c, off, accepts)
    \/ \E c \in cast, i, j \in 1..EnhSlots : OnMoveEnhancement(c, i, j)
    \/ \E c \in cast, i, j \in 1..InspRows : OnMoveInspiration(c, i, j)
    \/ \E c \in cast, i \in 1..EnhSlots : OnTrashEnhancement(c, i) \/ OnStoreSellItem(c, i)
    \/ \E c \in cast, i \in 1..InspRows : OnActivateInspiration(c, i)
    \/ \E c \in cast, item \in stock : OnStoreBuyItem(c, item)
    \/ \E c \in cast : AnswerToNobody(c) \/ OnTradeCancelled(c)
    \/ \E c \in cast : TradeEnters(c)
    \/ \E c \in leavers : TradeLeaves(c)

-----------------------------------------------------------------------------
(* An acceptance stands only while both offers are what they were when it  *)
(* was given.                                                              *)
AcceptedIsCurrent ==
    \A t \in DOMAIN trades : \A c \in {trades[t].a.who, trades[t].b.who} :
        LET mine == getMember(trades[t], c) IN
        mine.accepted => mine.pact = <<mine.off, getOtherMember(trades[t], c).off>>

(* Trading never makes two of one item.                                    *)
HeldOnce ==
    \A c, d \in Characters :
        /\ \A i, j \in 1..EnhSlots :
              goods[c].enh[i] = goods[d].enh[j] /\ <<c, i>> # <<d, j>> => goods[c].enh[i] = NoItem
        /\ \A i, j \in 1..InspRows :
              goods[c].insp[i] = goods[d].insp[j] /\ <<c, i>> # <<d, j>> => goods[c].insp[i] = NoItem

(* What the offered places of c hold is there, and rows are named from the *)
(* end of the column.                                                      *)
Covered(c, off) ==
    /\ CanOffer(c, off)
    /\ \A i, j \in DOMAIN off.insp : i < j => off.insp[i] > off.insp[j]

Named(slots, places) == {slots[i] : i \in ToSet(places)}

Exchanged(before, after, places, got) ==
    Range(after) \ {NoItem} = (Range(before) \ ({NoItem} \union Named(before, places))) \union got

(* Unless somebody touched its goods after it accepted, each side of a     *)
(* finished trade has lost exactly what it offered and gained exactly what *)
(* it was offered.                                                         *)
Exact(c, d) ==
    LET mine  == getMember(trades[trade[c]], c).off
        other == getMember(trades[trade[c]], d).off
    IN  /\ goods'[c].inf = goods[c].inf - mine.inf + other.inf
        /\ Exchanged(goods[c].enh, goods'[c].enh, mine.enh, Named(goods[d].enh, other.enh))
        /\ Exchanged(goods[c].insp, goods'[c].insp, mine.insp, Named(goods[d].insp, other.insp))

Finishes(c, d) ==
    /\ c # d /\ trade[c] # NoTrade /\ trade[c] = trade[d]
    /\ trade' # trade /\ goods' # goods

ExchangeIsExact ==
    [][\A c, d \in Characters :
          /\ Finishes(c, d)
          /\ \A e \in {c, d} :
                /\ Covered(e, getMember(trades[trade[c]], e).off)
                /\ HasAccepted(trade, trades, e) => e \in firm
          => Exact(c, d)]_tradeVars
=============================================================================
