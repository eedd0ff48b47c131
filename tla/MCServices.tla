---------------------------- MODULE MCServices ----------------------------
EXTENDS Services
CONSTANTS e1, e2, i1, i2, i3

Off(inf, enh, insp) == [inf |-> inf, enh |-> enh, insp |-> insp]

SomeOffers ==
    {Off(1, <<1>>, << >>), Off(1, << >>, <<1>>), Off(0, << >>, <<2, 1>>)}

AllStocks == {{e1}, {e1, e2}, {i1, i2, i3}}

OneItem == {{e1}}

OneCoin ==
    {[inf  |-> 1, enh |-> [i \in 1..EnhSlots |-> NoItem], insp |-> [i \in 1..InspRows |-> NoItem]]}

Casts == [trade |-> 2, mail |-> 2, team |-> 3]

Symm == Permutations(Characters)
=============================================================================
