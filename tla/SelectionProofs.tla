---------------------------- MODULE SelectionProofs ----------------------------
(***************************************************************************)
(* The selection rule, for any validated tables, champions, withdrawals    *)
(* and numbers of seats: the list surgery of select() is the published     *)
(* rule, and single changes do to the selection what they should; and the  *)
(* page made from a selection, whose parts agree.                          *)
(*                                                                         *)
(* Each list select() makes is an ascending list of a set of ranks; the    *)
(* order puts three of them behind each other, and a player's state only   *)
(* depends on the player's place in it.                                    *)
(***************************************************************************)
EXTENDS Page, ListProofs

\* A validated table.
LEMMA TableTyped ==
    ASSUME NEW rows \in Table
    PROVE  /\ rows \in Seq([code : Player, points : Nat])
           /\ Len(rows) \in Nat /\ DOMAIN rows = 1..Len(rows)
           /\ \A i \in DOMAIN rows : rows[i].code \in Player /\ rows[i].points \in Nat
           /\ \A i, j \in DOMAIN rows : rows[i].code = rows[j].code => i = j
           /\ \A i, j \in DOMAIN rows : i < j => rows[i].points >= rows[j].points
<1>1. /\ rows \in Seq([code : Player, points : Nat])
      /\ \A i, j \in DOMAIN rows : i < j => /\ rows[i].code # rows[j].code
                                            /\ rows[i].points >= rows[j].points
  BY TableAssumption
<1>2. Len(rows) \in Nat /\ DOMAIN rows = 1..Len(rows)
  BY <1>1
<1>3. \A i \in DOMAIN rows : rows[i].code \in Player /\ rows[i].points \in Nat
  <2>1. \A i \in DOMAIN rows : rows[i] \in [code : Player, points : Nat]
    BY <1>1, ElementTyped
  <2> QED  BY <2>1
<1>4. \A i, j \in DOMAIN rows : rows[i].code = rows[j].code => i = j
  <2>1. \A i, j \in DOMAIN rows : i # j => i < j \/ j < i
    BY <1>2
  <2> QED  BY <1>1, <2>1
<1> QED  BY <1>1, <1>2, <1>3, <1>4

------------------------------------------------------------------------------
(* The lists.                                                              *)

\* Those who have not withdrawn, in rank order.
LEMMA ActiveList ==
    ASSUME NEW rows \in Table, NEW out
    PROVE  Enumerates(Active(rows, out), Remaining(rows, out))
<1>1. Enumerates(Places(rows), DOMAIN rows)
  BY TableTyped, PlacesEnumerate
<1>2. DOMAIN rows \cap {i \in DOMAIN rows : rows[i].code \notin out} = Remaining(rows, out)
  BY DEF Remaining
<1> QED  BY <1>1, <1>2, FilterEnumerates DEF Active

\* Seven of them by rank.
LEMMA SevenList ==
    ASSUME NEW rows \in Table, NEW out
    PROVE  Enumerates(TopSeven(Active(rows, out)), ByRank(rows, out))
BY ActiveList, TakeEnumerates, RuleAssumption DEF TopSeven, ByRank

\* The champions with a claim, in rank order.
LEMMA ProvisionList ==
    ASSUME NEW rows \in Table, NEW champs, NEW out
    PROVE  Enumerates(Champions(rows, Active(rows, out), champs), Claiming(rows, champs, out))
<1> DEFINE active == Active(rows, out)
           eligible == {i \in DOMAIN rows : /\ i \in FirstEligible..LastEligible
                                            /\ rows[i].code \in champs
                                            /\ i \notin Members(TopSeven(active))}
<1>1. Enumerates(Filter(active, eligible), Remaining(rows, out) \cap eligible)
  BY ActiveList, FilterEnumerates
<1>2. Members(TopSeven(active)) = ByRank(rows, out)
  BY SevenList DEF Enumerates
<1>3. Remaining(rows, out) \cap eligible = Claimants(rows, champs, out)
  BY <1>2 DEF Claimants, Chasing, Remaining
<1>4. Enumerates(Filter(active, eligible), Claimants(rows, champs, out))
  BY <1>1, <1>3
<1>5. Champions(rows, active, champs) = Take(Filter(active, eligible), MaxChampions)
  BY DEF Champions
<1> HIDE DEF eligible, active
<1>6. Enumerates(Take(Filter(active, eligible), MaxChampions), Claiming(rows, champs, out))
  BY <1>4, TakeEnumerates, RuleAssumption DEF Claiming
<1> QED  BY <1>5, <1>6 DEF active

\* Everyone else, in rank order.
Others(rows, champs, out) == Chasing(rows, out) \ Claiming(rows, champs, out)

\* What select() keeps behind the claimants is everyone else, by rank.
LEMMA OthersList ==
    ASSUME NEW rows \in Table, NEW champs, NEW out
    PROVE  LET active == Active(rows, out)
               provision == Champions(rows, active, champs)
           IN  Enumerates(Filter(Skip(active, TopSeats), Members(active) \ Members(provision)),
                          Others(rows, champs, out))
<1> DEFINE active == Active(rows, out)
           provision == Champions(rows, active, champs)
<1>1. Enumerates(active, Remaining(rows, out))
  BY ActiveList
<1>2. Members(active) = Remaining(rows, out)
      /\ Members(provision) = Claiming(rows, champs, out)
  BY <1>1, ProvisionList DEF Enumerates
<1>3. \A r \in Remaining(rows, out) : Below(Remaining(rows, out), r) \in Nat
  BY <1>1, EnumeratedPlaces, BelowTyped
<1>4. {r \in Remaining(rows, out) : Below(Remaining(rows, out), r) >= TopSeats} = Chasing(rows, out)
  BY <1>3, RuleAssumption DEF Chasing, ByRank
<1>5. Enumerates(Skip(active, TopSeats), Chasing(rows, out))
  BY <1>1, <1>4, SkipEnumerates, RuleAssumption
<1>6. Chasing(rows, out) \cap (Members(active) \ Members(provision)) = Others(rows, champs, out)
  BY <1>2 DEF Chasing, Others
<1> HIDE DEF active, provision
<1>7. Enumerates(Filter(Skip(active, TopSeats), Members(active) \ Members(provision)),
                 Others(rows, champs, out))
  BY <1>5, <1>6, FilterEnumerates
<1> QED  BY <1>7 DEF active, provision

------------------------------------------------------------------------------
(* The order.                                                              *)

\* The sets are finite sets of ranks, and the three that make the order are
\* disjoint and make up those who remain.
LEMMA SetsTyped ==
    ASSUME NEW rows \in Table, NEW champs, NEW out
    PROVE  LET rem      == Remaining(rows, out)
               seven    == ByRank(rows, out)
               claiming == Claiming(rows, champs, out)
               others   == Others(rows, champs, out)
           IN  /\ rem \subseteq DOMAIN rows /\ IsFiniteSet(rem)
               /\ seven \subseteq rem /\ IsFiniteSet(seven)
               /\ IsFiniteSet(claiming) /\ IsFiniteSet(others)
               /\ claiming \subseteq Chasing(rows, out) /\ others \subseteq Chasing(rows, out)
               /\ Chasing(rows, out) \subseteq rem /\ Chasing(rows, out) \cap seven = {}
               /\ claiming \cap others = {} /\ claiming \cup others = Chasing(rows, out)
               /\ seven \cup Chasing(rows, out) = rem
<1>1. IsFiniteSet(Remaining(rows, out))
  BY ActiveList, EnumeratedPlaces
<1> QED
  BY <1>1, FS_Subset DEF Remaining, ByRank, Chasing, Claimants, Claiming, Others

\* There are seven by rank, if anybody is left to chase them.
LEMMA FullSeven ==
    ASSUME NEW rows \in Table, NEW out
    PROVE  /\ Cardinality(ByRank(rows, out)) \in Nat
           /\ Cardinality(ByRank(rows, out)) <= TopSeats
           /\ Chasing(rows, out) # {} => Cardinality(ByRank(rows, out)) = TopSeats
<1> DEFINE active == Active(rows, out)
           rem == Remaining(rows, out)
<1>1. Enumerates(active, rem) /\ active \in Seq(Nat) /\ Len(active) \in Nat /\ TopSeats \in Nat
  BY ActiveList, RuleAssumption DEF Enumerates
<1>2. Cardinality(ByRank(rows, out)) = Len(TopSeven(active))
  BY SevenList, EnumeratedPlaces
<1>3. Len(TopSeven(active)) = IF TopSeats < Len(active) THEN TopSeats ELSE Len(active)
  <2> HIDE DEF active
  <2> QED  BY <1>1 DEF TopSeven, Take
<1>4. ASSUME NEW r \in Chasing(rows, out)
      PROVE  TopSeats < Len(active)
  <2>1. r \in rem /\ ~(Below(rem, r) < TopSeats)
    BY DEF Chasing, ByRank
  <2>2. Below(rem, r) + 1 \in 1..Len(active) /\ Below(rem, r) \in Nat
    BY <1>1, <2>1, EnumeratedPlaces, BelowTyped
  <2> HIDE DEF active, rem
  <2> QED  BY <1>1, <2>1, <2>2
<1> HIDE DEF active, rem
<1> QED  BY <1>1, <1>2, <1>3, <1>4

\* The place of a remaining player in the order.
Place(rows, champs, out, i) ==
    IF i \in ByRank(rows, out) THEN Below(ByRank(rows, out), i) + 1
    ELSE TopSeats + 1 + Cardinality(Ahead(rows, champs, out, i))

\* Ahead of a claiming champion are the claiming champions before it; ahead of
\* the others all of those and the others before it.
LEMMA AheadCount ==
    ASSUME NEW rows \in Table, NEW champs, NEW out, NEW i \in Chasing(rows, out)
    PROVE  LET claiming == Claiming(rows, champs, out)
               others   == Others(rows, champs, out)
           IN  /\ IsFiniteSet(Ahead(rows, champs, out, i))
               /\ Cardinality(Ahead(rows, champs, out, i)) \in Nat
               /\ Cardinality(Ahead(rows, champs, out, i)) =
                     IF i \in claiming THEN Below(claiming, i)
                     ELSE Cardinality(claiming) + Below(others, i)
<1> DEFINE claiming == Claiming(rows, champs, out)
           others   == Others(rows, champs, out)
           ahead    == Ahead(rows, champs, out, i)
<1>1. /\ claiming \cap others = {} /\ claiming \cup others = Chasing(rows, out)
      /\ IsFiniteSet(claiming) /\ IsFiniteSet(others)
  BY SetsTyped
<1>2. CASE i \in claiming
  <2>1. ahead = {j \in claiming : j < i}
    BY <1>1, <1>2 DEF Ahead, Before
  <2>2. IsFiniteSet(ahead)
    BY <1>1, <2>1, FS_Subset
  <2> QED  BY <1>2, <2>1, <2>2, FS_CardinalityType DEF Below
<1>3. CASE i \notin claiming
  <2> DEFINE before == {j \in others : j < i}
  <2>1. ahead = claiming \cup before
    BY <1>1, <1>3 DEF Ahead, Before
  <2>2. IsFiniteSet(before) /\ claiming \cap before = {}
    BY <1>1, FS_Subset
  <2>3. /\ IsFiniteSet(ahead)
        /\ Cardinality(ahead) = Cardinality(claiming) + Cardinality(before) - Cardinality({})
    BY <1>1, <2>1, <2>2, FS_Union
  <2>4. /\ Cardinality(claiming) \in Nat /\ Cardinality(before) \in Nat /\ Cardinality({}) = 0
        /\ Cardinality(ahead) \in Nat
    BY <1>1, <2>2, <2>3, FS_CardinalityType, FS_EmptySet
  <2>5. Cardinality(ahead) = Cardinality(claiming) + Cardinality(before)
    BY <2>3, <2>4
  <2> QED  BY <1>3, <2>3, <2>4, <2>5 DEF Below
<1> QED  BY <1>2, <1>3

\* Every remaining player stands at its place in the order, and the order has
\* nobody else.
LEMMA OrderPlaces ==
    ASSUME NEW rows \in Table, NEW champs, NEW out
    PROVE  LET active == Active(rows, out)
               order  == Order(active, Champions(rows, active, champs))
               rem    == Remaining(rows, out)
           IN  /\ DOMAIN order = 1..Len(order) /\ Len(order) \in Nat
               /\ \A i \in rem : /\ Place(rows, champs, out, i) \in DOMAIN order
                                 /\ order[Place(rows, champs, out, i)] = i
               /\ \A k \in DOMAIN order : order[k] \in rem /\ Place(rows, champs, out, order[k]) = k
<1> DEFINE active   == Active(rows, out)
           a        == TopSeven(active)
           b        == Champions(rows, active, champs)
           c        == Filter(Skip(active, TopSeats), Members(active) \ Members(b))
           order    == a \o b \o c
           rem      == Remaining(rows, out)
           seven    == ByRank(rows, out)
           claiming == Claiming(rows, champs, out)
           others   == Others(rows, champs, out)
           place(i) == Place(rows, champs, out, i)
<1>1. Enumerates(a, seven) /\ Enumerates(b, claiming) /\ Enumerates(c, others)
  BY SevenList, ProvisionList, OthersList
<1>2. Order(active, b) = order
  BY DEF Order
<1>3. /\ seven \cup claiming \cup others = rem
      /\ claiming \cup others = Chasing(rows, out) /\ seven \cap Chasing(rows, out) = {}
      /\ claiming \cap others = {}
      /\ IsFiniteSet(seven) /\ IsFiniteSet(claiming) /\ IsFiniteSet(others)
  BY SetsTyped
<1>4. /\ Cardinality(seven) \in Nat /\ Cardinality(claiming) \in Nat /\ Cardinality(others) \in Nat
      /\ claiming \cup others # {} => Cardinality(seven) = TopSeats
      /\ TopSeats \in Nat
  BY <1>3, FullSeven, FS_CardinalityType, RuleAssumption
<1>5. /\ \A i \in seven : place(i) = Below(seven, i) + 1
      /\ \A i \in claiming : place(i) = TopSeats + 1 + Below(claiming, i)
      /\ \A i \in others : place(i) = TopSeats + 1 + Cardinality(claiming) + Below(others, i)
  <2>1. \A i \in claiming \cup others : /\ i \in Chasing(rows, out) /\ i \notin seven
                                        /\ place(i) = TopSeats + 1 + Cardinality(Ahead(rows, champs, out, i))
    BY <1>3 DEF Place
  <2>2. ASSUME NEW i \in claiming
        PROVE  place(i) = TopSeats + 1 + Below(claiming, i)
    BY <2>1, AheadCount
  <2>3. ASSUME NEW i \in others
        PROVE  place(i) = TopSeats + 1 + Cardinality(claiming) + Below(others, i)
    <3>1. /\ i \notin claiming
          /\ Cardinality(Ahead(rows, champs, out, i)) = Cardinality(claiming) + Below(others, i)
      BY <1>3, <2>1, AheadCount
    <3>2. Below(others, i) \in Nat
      BY <1>1, <1>3, EnumeratedPlaces, BelowTyped
    <3> HIDE DEF claiming, others, seven, place
    <3> QED  BY <1>4, <2>1, <3>1, <3>2
  <2> QED  BY <2>2, <2>3 DEF Place
<1>6. /\ a \in Seq(Nat) /\ b \in Seq(Nat) /\ c \in Seq(Nat)
      /\ Len(a) = Cardinality(seven) /\ Len(b) = Cardinality(claiming) /\ Len(c) = Cardinality(others)
      /\ DOMAIN a = 1..Len(a) /\ DOMAIN b = 1..Len(b) /\ DOMAIN c = 1..Len(c)
      /\ \A k \in DOMAIN a : a[k] \in seven /\ Below(seven, a[k]) = k - 1
      /\ \A k \in DOMAIN b : b[k] \in claiming /\ Below(claiming, b[k]) = k - 1
      /\ \A k \in DOMAIN c : c[k] \in others /\ Below(others, c[k]) = k - 1
      /\ \A i \in seven : Below(seven, i) + 1 \in DOMAIN a /\ a[Below(seven, i) + 1] = i
      /\ \A i \in claiming : Below(claiming, i) + 1 \in DOMAIN b /\ b[Below(claiming, i) + 1] = i
      /\ \A i \in others : Below(others, i) + 1 \in DOMAIN c /\ c[Below(others, i) + 1] = i
      /\ \A i \in seven : Below(seven, i) \in Nat
      /\ \A i \in claiming : Below(claiming, i) \in Nat
      /\ \A i \in others : Below(others, i) \in Nat
  <2>1. a \in Seq(Nat) /\ b \in Seq(Nat) /\ c \in Seq(Nat)
    BY <1>1 DEF Enumerates
  <2> HIDE DEF a, b, c, seven, claiming, others
  <2> QED  BY <1>1, <1>3, <2>1, EnumeratedPlaces, BelowTyped
<1> HIDE DEF active, a, b, c, rem, seven, claiming, others, place
<1>7. /\ order \in Seq(Nat)
      /\ Len(order) = Len(a) + Len(b) + Len(c)
      /\ DOMAIN order = 1..Len(order)
      /\ \A k \in DOMAIN a : k \in DOMAIN order /\ order[k] = a[k]
      /\ \A k \in DOMAIN b : Len(a) + k \in DOMAIN order /\ order[Len(a) + k] = b[k]
      /\ \A k \in DOMAIN c : /\ Len(a) + Len(b) + k \in DOMAIN order
                            /\ order[Len(a) + Len(b) + k] = c[k]
  <2>0. a \in Seq(Nat) /\ b \in Seq(Nat) /\ c \in Seq(Nat)
    BY <1>6
  <2>1. PICK ab : ab = a \o b /\ order = ab \o c
    OBVIOUS
  <2> HIDE DEF order
  <2>2. /\ ab \in Seq(Nat) /\ Len(ab) = Len(a) + Len(b) /\ DOMAIN ab = 1..Len(ab)
        /\ Len(a) \in Nat /\ Len(b) \in Nat
        /\ \A k \in DOMAIN a : k \in DOMAIN ab /\ ab[k] = a[k]
        /\ \A k \in DOMAIN b : Len(a) + k \in DOMAIN ab /\ ab[Len(a) + k] = b[k]
    BY <2>0, <2>1, Concatenated
  <2>3. /\ order \in Seq(Nat) /\ Len(order) = Len(ab) + Len(c) /\ DOMAIN order = 1..Len(order)
        /\ \A k \in DOMAIN ab : k \in DOMAIN order /\ order[k] = ab[k]
        /\ \A k \in DOMAIN c : Len(ab) + k \in DOMAIN order /\ order[Len(ab) + k] = c[k]
    BY <2>0, <2>1, <2>2, Concatenated
  <2>4. Len(order) = Len(a) + Len(b) + Len(c)
    BY <2>2, <2>3
  <2>5. \A k \in DOMAIN c : /\ Len(a) + Len(b) + k \in DOMAIN order
                            /\ order[Len(a) + Len(b) + k] = c[k]
    BY <2>2, <2>3
  <2> QED  BY <2>2, <2>3, <2>4, <2>5
<1> HIDE DEF order
<1>8. ASSUME NEW i \in rem
      PROVE  place(i) \in DOMAIN order /\ order[place(i)] = i
  <2>1. CASE i \in seven
    BY <1>5, <1>6, <1>7, <2>1
  <2>2. CASE i \in claiming
    <3>1. place(i) = Len(a) + (Below(claiming, i) + 1)
      BY <1>4, <1>5, <1>6, <2>2
    <3> QED  BY <1>6, <1>7, <2>2, <3>1
  <2>3. CASE i \in others
    <3>1. place(i) = Len(a) + Len(b) + (Below(others, i) + 1)
      BY <1>4, <1>5, <1>6, <2>3
    <3> QED  BY <1>6, <1>7, <2>3, <3>1
  <2> QED  BY <1>3, <2>1, <2>2, <2>3
<1>9. ASSUME NEW k \in DOMAIN order
      PROVE  order[k] \in rem /\ place(order[k]) = k
  <2>1. CASE k \in DOMAIN a
    BY <1>3, <1>5, <1>6, <1>7, <2>1
  <2>2. CASE k - Len(a) \in DOMAIN b
    <3>1. order[k] = b[k - Len(a)] /\ order[k] \in claiming
      BY <1>6, <1>7, <2>2
    <3>2. place(order[k]) = TopSeats + 1 + ((k - Len(a)) - 1) /\ Len(a) = TopSeats
      BY <1>4, <1>5, <1>6, <2>2, <3>1
    <3> QED  BY <1>3, <1>4, <1>7, <3>1, <3>2
  <2>3. CASE k - (Len(a) + Len(b)) \in DOMAIN c
    <3>1. order[k] = c[k - (Len(a) + Len(b))] /\ order[k] \in others
      BY <1>6, <1>7, <2>3
    <3>2. /\ place(order[k]) = TopSeats + 1 + Len(b) + ((k - (Len(a) + Len(b))) - 1)
          /\ Len(a) = TopSeats
      BY <1>4, <1>5, <1>6, <2>3, <3>1
    <3>3. Len(b) \in Nat
      BY <1>6
    <3> QED  BY <1>3, <1>4, <1>7, <3>1, <3>2, <3>3
  <2>4. \/ k \in DOMAIN a
        \/ k - Len(a) \in DOMAIN b
        \/ k - (Len(a) + Len(b)) \in DOMAIN c
    BY <1>6, <1>7
  <2> QED  BY <2>1, <2>2, <2>3, <2>4
<1>10. Len(order) \in Nat
  BY <1>7
<1> QED  BY <1>2, <1>7, <1>8, <1>9, <1>10 DEF active, b, place, rem

------------------------------------------------------------------------------
(* What select returns.                                                    *)

\* The codes of those who have not withdrawn.
RemainingCodes(rows, out) == {rows[i].code : i \in Remaining(rows, out)}

\* A player's position is the player's place in the order.
LEMMA Position ==
    ASSUME NEW rows \in Table, NEW champs, NEW out
    PROVE  LET active == Active(rows, out)
               order  == Order(active, Champions(rows, active, champs))
               codes  == {rows[order[i]].code : i \in DOMAIN order}
           IN  /\ codes = RemainingCodes(rows, out) /\ codes \cap out = {}
               /\ \A i \in Remaining(rows, out) :
                     (CHOOSE k \in DOMAIN order : rows[order[k]].code = rows[i].code)
                        = Place(rows, champs, out, i)
<1> DEFINE active   == Active(rows, out)
           order    == Order(active, Champions(rows, active, champs))
           rem      == Remaining(rows, out)
           place(i) == Place(rows, champs, out, i)
<1>1. /\ \A i \in rem : place(i) \in DOMAIN order /\ order[place(i)] = i
      /\ \A k \in DOMAIN order : order[k] \in rem /\ place(order[k]) = k
  BY OrderPlaces
<1>2. /\ rem \subseteq DOMAIN rows /\ \A i \in rem : rows[i].code \notin out
      /\ \A i, j \in rem : rows[i].code = rows[j].code => i = j
  BY TableTyped DEF Remaining
<1> HIDE DEF order, rem, place
<1>3. \A i \in rem : (CHOOSE k \in DOMAIN order : rows[order[k]].code = rows[i].code) = place(i)
  <2> SUFFICES ASSUME NEW i \in rem
               PROVE  (CHOOSE k \in DOMAIN order : rows[order[k]].code = rows[i].code) = place(i)
    OBVIOUS
  <2> DEFINE k == CHOOSE k \in DOMAIN order : rows[order[k]].code = rows[i].code
  <2>1. k \in DOMAIN order /\ rows[order[k]].code = rows[i].code
    BY <1>1
  <2> HIDE DEF k
  <2>2. order[k] = i
    BY <1>1, <1>2, <2>1
  <2> QED  BY <1>1, <2>1, <2>2 DEF k
<1>4. {rows[order[i]].code : i \in DOMAIN order} = RemainingCodes(rows, out)
  BY <1>1 DEF RemainingCodes, rem
<1>5. RemainingCodes(rows, out) \cap out = {}
  BY <1>2 DEF RemainingCodes, rem
<1> QED  BY <1>3, <1>4, <1>5 DEF order, rem, place

\* The fields of a selection, by places: the states,
LEMMA SelectedStates ==
    ASSUME NEW rows \in Table, NEW champs, NEW out
    PROVE  LET sel == select(rows, champs, out)
           IN  /\ DOMAIN sel.by_code = out \cup RemainingCodes(rows, out)
               /\ \A i \in Remaining(rows, out) :
                     State(sel, rows[i].code) = StateAt(Place(rows, champs, out, i))
               /\ \A p \in out : State(sel, p) = "Withdrawn"
               /\ \A p : p \notin out \cup RemainingCodes(rows, out) => State(sel, p) = "NotSelected"
<1> DEFINE active   == Active(rows, out)
           order    == Order(active, Champions(rows, active, champs))
           codes    == {rows[order[i]].code : i \in DOMAIN order}
           position == [p \in codes |-> CHOOSE i \in DOMAIN order : rows[order[i]].code = p]
           by_code  == [p \in out \cup DOMAIN position |->
                          IF p \in DOMAIN position THEN StateAt(position[p]) ELSE "Withdrawn"]
           sel      == select(rows, champs, out)
<1>1. sel.by_code = by_code
  BY DEF select
<1>2. /\ codes = RemainingCodes(rows, out) /\ codes \cap out = {}
      /\ \A i \in Remaining(rows, out) :
            (CHOOSE k \in DOMAIN order : rows[order[k]].code = rows[i].code) = Place(rows, champs, out, i)
  BY Position
<1>3. \A i \in Remaining(rows, out) : rows[i].code \in codes
  BY <1>2 DEF RemainingCodes
<1> HIDE DEF order, codes, sel
<1>4. \A i \in Remaining(rows, out) : position[rows[i].code] = Place(rows, champs, out, i)
  BY <1>2, <1>3
<1>5. DOMAIN position = codes
  OBVIOUS
<1> HIDE DEF position
<1>6. DOMAIN by_code = out \cup codes
  BY <1>5
<1>7. \A i \in Remaining(rows, out) : by_code[rows[i].code] = StateAt(Place(rows, champs, out, i))
  BY <1>3, <1>4, <1>5
<1>8. \A p \in out : by_code[p] = "Withdrawn"
  BY <1>2, <1>5
<1> HIDE DEF by_code
<1> QED  BY <1>1, <1>2, <1>3, <1>6, <1>7, <1>8 DEF State, sel

\* the holder of a place,
Holder(rows, champs, out, n) == {i \in Remaining(rows, out) : Place(rows, champs, out, i) = n}

\* The order of entry has one player at each place, the one the rule puts there.
LEMMA HeldPlaces ==
    ASSUME NEW rows \in Table, NEW champs, NEW out, NEW n
    PROVE  LET active == Active(rows, out)
               order  == Order(active, Champions(rows, active, champs))
           IN  /\ n \in DOMAIN order <=> Holder(rows, champs, out, n) # {}
               /\ \A i \in Holder(rows, champs, out, n) :
                     /\ order[n] = i
                     /\ At(rows, order, n) = <<rows[i].code>>
               /\ Holder(rows, champs, out, n) = {} => At(rows, order, n) = <<>>
BY OrderPlaces DEF Holder, At

\* seat eight and the alternate,
LEMMA SelectedCodes ==
    ASSUME NEW rows \in Table, NEW champs, NEW out
    PROVE  LET sel       == select(rows, champs, out)
               eighth    == Holder(rows, champs, out, TopSeats + 1)
               alternate == Holder(rows, champs, out, TopSeats + 2)
           IN  /\ \A i \in eighth : sel.eighth_code = <<rows[i].code>>
               /\ eighth = {} => sel.eighth_code = <<>>
               /\ \A i \in alternate : sel.alternate_code = <<rows[i].code>>
               /\ alternate = {} => sel.alternate_code = <<>>
               /\ sel.eighth_basis \in {"GrandSlamChampion", "RaceRank"}
               /\ sel.eighth_basis = "GrandSlamChampion" <=> eighth \cap Claiming(rows, champs, out) # {}
<1> DEFINE active    == Active(rows, out)
           provision == Champions(rows, active, champs)
           order     == Order(active, provision)
           sel       == select(rows, champs, out)
           eighth    == Holder(rows, champs, out, TopSeats + 1)
           alternate == Holder(rows, champs, out, TopSeats + 2)
           slam      == TopSeats + 1 \in DOMAIN order /\ order[TopSeats + 1] \in Members(provision)
<1>1. /\ sel.eighth_basis = IF slam THEN "GrandSlamChampion" ELSE "RaceRank"
      /\ sel.eighth_code = At(rows, order, TopSeats + 1)
      /\ sel.alternate_code = At(rows, order, TopSeats + 2)
  BY DEF select
<1>2. /\ TopSeats + 1 \in DOMAIN order <=> eighth # {}
      /\ \A i \in eighth : order[TopSeats + 1] = i /\ At(rows, order, TopSeats + 1) = <<rows[i].code>>
      /\ eighth = {} => At(rows, order, TopSeats + 1) = <<>>
  BY HeldPlaces
<1>3. /\ \A i \in alternate : At(rows, order, TopSeats + 2) = <<rows[i].code>>
      /\ alternate = {} => At(rows, order, TopSeats + 2) = <<>>
  BY HeldPlaces
<1>4. Members(provision) = Claiming(rows, champs, out)
  BY ProvisionList DEF Enumerates
<1> HIDE DEF order, provision, sel, eighth, alternate
<1>5. slam <=> eighth \cap Claiming(rows, champs, out) # {}
  BY <1>2, <1>4
<1> HIDE DEF slam
<1> QED  BY <1>1, <1>2, <1>3, <1>5 DEF sel, eighth, alternate

\* and the margins.
LEMMA SelectedMargins ==
    ASSUME NEW rows \in Table, NEW champs, NEW out
    PROVE  LET sel       == select(rows, champs, out)
               eighth    == Holder(rows, champs, out, TopSeats + 1)
               alternate == Holder(rows, champs, out, TopSeats + 2)
           IN  /\ DOMAIN sel.margins =
                     IF sel.eighth_basis = "RaceRank" /\ alternate # {}
                     THEN RemainingCodes(rows, out) ELSE {}
               /\ \A i \in Remaining(rows, out) : rows[i].code \in DOMAIN sel.margins =>
                     \E j \in Remaining(rows, out) :
                        /\ Place(rows, champs, out, j) = IF Place(rows, champs, out, i) <= TopSeats + 1
                                                         THEN TopSeats + 2 ELSE TopSeats + 1
                        /\ sel.margins[rows[i].code] = rows[i].points - rows[j].points
<1> DEFINE active    == Active(rows, out)
           provision == Champions(rows, active, champs)
           order     == Order(active, provision)
           rem       == Remaining(rows, out)
           place(i)  == Place(rows, champs, out, i)
           codes     == {rows[order[i]].code : i \in DOMAIN order}
           position  == [p \in codes |-> CHOOSE i \in DOMAIN order : rows[order[i]].code = p]
           slam      == TopSeats + 1 \in DOMAIN order /\ order[TopSeats + 1] \in Members(provision)
           margins   == [p \in IF Lined(order, slam) THEN DOMAIN position ELSE {} |->
                           Margin(rows, order, position[p])]
           sel       == select(rows, champs, out)
<1>1. sel.margins = margins /\ sel.eighth_basis = IF slam THEN "GrandSlamChampion" ELSE "RaceRank"
  BY DEF select
<1>2. /\ codes = RemainingCodes(rows, out)
      /\ \A i \in rem : (CHOOSE k \in DOMAIN order : rows[order[k]].code = rows[i].code) = place(i)
  BY Position
<1>3. TopSeats + 2 \in DOMAIN order <=> Holder(rows, champs, out, TopSeats + 2) # {}
  BY HeldPlaces
<1>4. /\ DOMAIN order = 1..Len(order) /\ Len(order) \in Nat /\ TopSeats \in Nat
      /\ \A i \in rem : place(i) \in DOMAIN order /\ order[place(i)] = i
      /\ \A k \in DOMAIN order : order[k] \in rem /\ place(order[k]) = k
  BY OrderPlaces, RuleAssumption
<1>5. \A i \in rem : rows[i].code \in codes
  BY <1>2 DEF RemainingCodes
<1> HIDE DEF order, codes, sel, rem, place, slam
<1>6. DOMAIN position = codes /\ \A i \in rem : position[rows[i].code] = place(i)
  BY <1>2, <1>5
<1> HIDE DEF position
<1>7. DOMAIN margins = IF Lined(order, slam) THEN codes ELSE {}
  BY <1>6
<1>8. \A i \in rem : rows[i].code \in DOMAIN margins =>
                        margins[rows[i].code] = Margin(rows, order, place(i))
  BY <1>6
<1> HIDE DEF margins
<1>9. Lined(order, slam) <=> sel.eighth_basis = "RaceRank" /\ TopSeats + 2 \in DOMAIN order
  BY <1>1 DEF Lined
<1>10. ASSUME NEW i \in rem, rows[i].code \in DOMAIN margins
       PROVE  \E j \in rem : /\ place(j) = IF place(i) <= TopSeats + 1 THEN TopSeats + 2 ELSE TopSeats + 1
                             /\ margins[rows[i].code] = rows[i].points - rows[j].points
  <2> DEFINE line == IF place(i) <= TopSeats + 1 THEN TopSeats + 2 ELSE TopSeats + 1
  <2>1. TopSeats + 2 \in DOMAIN order
    BY <1>7, <1>9, <1>10
  <2>2. line \in DOMAIN order
    BY <1>4, <2>1
  <2>3. margins[rows[i].code] = rows[i].points - rows[order[line]].points
    BY <1>4, <1>8, <1>10 DEF Margin
  <2> HIDE DEF line
  <2>4. order[line] \in rem /\ place(order[line]) = line
    BY <1>4, <2>2
  <2> QED  BY <2>3, <2>4 DEF line
<1> QED  BY <1>1, <1>2, <1>3, <1>7, <1>9, <1>10 DEF sel, rem, place

------------------------------------------------------------------------------
(* The published rule.                                                     *)

\* The seven by rank hold the first places, in the order of their ranks; the
\* others stand behind them.
LEMMA PlaceTyped ==
    ASSUME NEW rows \in Table, NEW champs, NEW out
    PROVE  /\ \A i \in ByRank(rows, out) : /\ Place(rows, champs, out, i) \in 1..TopSeats
                                           /\ i \in Remaining(rows, out) /\ i \notin Chasing(rows, out)
           /\ \A i \in Chasing(rows, out) :
                 /\ Place(rows, champs, out, i) \in Nat /\ Place(rows, champs, out, i) > TopSeats
                 /\ Place(rows, champs, out, i)
                       = TopSeats + 1 + Cardinality(Ahead(rows, champs, out, i))
                 /\ Cardinality(Ahead(rows, champs, out, i)) \in Nat
                 /\ IsFiniteSet(Ahead(rows, champs, out, i))
                 /\ i \in Remaining(rows, out) /\ i \notin ByRank(rows, out)
           /\ Remaining(rows, out) = ByRank(rows, out) \cup Chasing(rows, out)
           /\ Remaining(rows, out) \subseteq DOMAIN rows /\ DOMAIN rows \subseteq Nat
<1>1. ASSUME NEW i \in ByRank(rows, out)
      PROVE  Place(rows, champs, out, i) \in 1..TopSeats
  <2>1. /\ Below(ByRank(rows, out), i) + 1 \in 1..Cardinality(ByRank(rows, out))
    BY SevenList, EnumeratedPlaces
  <2>2. Place(rows, champs, out, i) = Below(ByRank(rows, out), i) + 1
    BY <1>1 DEF Place
  <2> QED  BY <2>1, <2>2, FullSeven, RuleAssumption
<1>2. /\ Remaining(rows, out) = ByRank(rows, out) \cup Chasing(rows, out)
      /\ ByRank(rows, out) \cap Chasing(rows, out) = {}
      /\ Remaining(rows, out) \subseteq DOMAIN rows /\ DOMAIN rows \subseteq Nat
  BY SetsTyped, TableTyped
<1>3. ASSUME NEW i \in Chasing(rows, out)
      PROVE  /\ Place(rows, champs, out, i) \in Nat /\ Place(rows, champs, out, i) > TopSeats
             /\ Place(rows, champs, out, i)
                   = TopSeats + 1 + Cardinality(Ahead(rows, champs, out, i))
             /\ Cardinality(Ahead(rows, champs, out, i)) \in Nat
             /\ IsFiniteSet(Ahead(rows, champs, out, i))
  <2>1. Cardinality(Ahead(rows, champs, out, i)) \in Nat /\ IsFiniteSet(Ahead(rows, champs, out, i))
    BY AheadCount
  <2>2. Place(rows, champs, out, i) = TopSeats + 1 + Cardinality(Ahead(rows, champs, out, i))
    BY <1>2 DEF Place
  <2> QED  BY <2>1, <2>2, RuleAssumption
<1> QED  BY <1>1, <1>2, <1>3

\* The best ranked claimant is one of the claiming champions.
LEMMA FirstClaimant ==
    ASSUME NEW rows \in Table, NEW champs, NEW out, NEW m \in Claimants(rows, champs, out),
           \A j \in Claimants(rows, champs, out) : m <= j
    PROVE  m \in Claiming(rows, champs, out)
<1>1. Claimants(rows, champs, out) \subseteq Nat
  BY PlaceTyped DEF Claimants
<1>2. {q \in Claimants(rows, champs, out) : q < m} = {}
  BY <1>1
<1>3. Below(Claimants(rows, champs, out), m) = 0
  BY <1>2, FS_EmptySet DEF Below
<1> QED  BY <1>3, RuleAssumption DEF Claiming

\* Seat eight goes to the best ranked claimant; if nobody has a claim, to the
\* next by rank.
First(S) == {i \in S : \A j \in S : i <= j}
SeatEight(rows, champs, out) ==
    IF Claimants(rows, champs, out) # {} THEN First(Claimants(rows, champs, out))
    ELSE First(Chasing(rows, out))

\* The eighth place is the best claimant's, and nobody chases from above it.
LEMMA SeatEightHeld ==
    ASSUME NEW rows \in Table, NEW champs, NEW out
    PROVE  /\ Holder(rows, champs, out, TopSeats + 1) = SeatEight(rows, champs, out)
           /\ \A i \in SeatEight(rows, champs, out) : /\ i \in Chasing(rows, out)
                                                      /\ Ahead(rows, champs, out, i) = {}
           /\ Claimants(rows, champs, out) # {} => Claiming(rows, champs, out) # {}
<1> DEFINE claimants == Claimants(rows, champs, out)
           claiming  == Claiming(rows, champs, out)
           chasing   == Chasing(rows, out)
           ahead(i)  == Ahead(rows, champs, out, i)
<1>1. /\ claimants \subseteq chasing /\ claiming \subseteq claimants /\ chasing \subseteq Nat
      /\ \A i \in chasing : ahead(i) = {j \in chasing : Before(claiming, j, i)}
  BY PlaceTyped DEF Claimants, Claiming, Ahead
<1>2. Holder(rows, champs, out, TopSeats + 1) = {i \in chasing : ahead(i) = {}}
  <2>1. ASSUME NEW i \in chasing
        PROVE  Place(rows, champs, out, i) = TopSeats + 1 <=> ahead(i) = {}
    <3>1. /\ IsFiniteSet(ahead(i)) /\ Cardinality(ahead(i)) \in Nat
          /\ Place(rows, champs, out, i) = TopSeats + 1 + Cardinality(ahead(i))
          /\ TopSeats \in Nat
      BY PlaceTyped, RuleAssumption
    <3>2. Cardinality(ahead(i)) = 0 <=> ahead(i) = {}
      BY <3>1, FS_EmptySet
    <3> HIDE DEF ahead
    <3> QED  BY <3>1, <3>2
  <2>2. ASSUME NEW i \in ByRank(rows, out)
        PROVE  Place(rows, champs, out, i) # TopSeats + 1
    <3>1. Place(rows, champs, out, i) \in 1..TopSeats
      BY PlaceTyped
    <3> QED  BY <3>1, RuleAssumption
  <2>3. Remaining(rows, out) = ByRank(rows, out) \cup chasing
    BY PlaceTyped
  <2> QED  BY <2>1, <2>2, <2>3 DEF Holder
<1>3. claimants # {} => \E m \in claimants : m \in claiming /\ \A j \in claimants : m <= j
  <2>1. claimants # {} => \E m \in claimants : \A j \in claimants : m <= j
    BY <1>1, LeastNatural
  <2> QED  BY <2>1, FirstClaimant
<1> HIDE DEF claimants, claiming, chasing, ahead
<1>4. CASE claimants = {}
  <2>1. claiming = {}
    BY <1>1, <1>4
  <2>2. ASSUME NEW i \in chasing
        PROVE  ahead(i) = {} <=> \A j \in chasing : i <= j
    <3>1. ahead(i) = {j \in chasing : j < i}
      BY <1>1, <2>1, <2>2 DEF Before
    <3>2. \A j \in chasing : ~(j < i) <=> i <= j
      BY <1>1, <2>2
    <3> QED  BY <3>1, <3>2
  <2>3. {i \in chasing : ahead(i) = {}} = First(chasing)
    BY <2>2 DEF First
  <2> QED  BY <1>2, <1>4, <2>3 DEF SeatEight, First, claimants, chasing, ahead
<1>5. CASE claimants # {}
  <2>1. PICK m \in claimants : m \in claiming /\ \A j \in claimants : m <= j
    BY <1>3, <1>5
  <2>2. ahead(m) = {}
    <3>1. ASSUME NEW j \in chasing, Before(claiming, j, m)
          PROVE  FALSE
      <4>1. j \in claiming /\ j < m
        BY <2>1, <3>1 DEF Before
      <4> QED  BY <1>1, <2>1, <4>1
    <3>2. m \in chasing
      BY <1>1
    <3> QED  BY <1>1, <3>1, <3>2
  <2>3. ASSUME NEW i \in chasing, ahead(i) = {}
        PROVE  i = m
    <3>0. m \in chasing /\ i \in Nat /\ m \in Nat
      BY <1>1
    <3>1. ~Before(claiming, m, i)
      BY <1>1, <2>3, <3>0
    <3>2. i \in claiming /\ ~(m < i)
      BY <2>1, <3>1 DEF Before
    <3>3. i \in claimants
      BY <1>1, <3>2
    <3> QED  BY <2>1, <3>0, <3>2, <3>3
  <2>4. First(claimants) = {m}
    <3>1. claimants \subseteq Nat
      BY <1>1
    <3>2. \A i \in claimants : (\A j \in claimants : i <= j) => i = m
      BY <2>1, <3>1
    <3> QED  BY <2>1, <3>2 DEF First
  <2>5. m \in chasing
    BY <1>1
  <2>6. {i \in chasing : ahead(i) = {}} = {m}
    BY <2>2, <2>3, <2>5
  <2>7. SeatEight(rows, champs, out) = {m}
    BY <1>5, <2>4 DEF SeatEight, claimants
  <2> QED  BY <1>2, <2>1, <2>2, <2>5, <2>6, <2>7 DEF claiming, chasing, ahead
<1> QED  BY <1>4, <1>5

\* select() computes the rule, its margins included, for every table,
\* champions and withdrawals.
THEOREM SelectIsTheRule ==
    ASSUME NEW rows \in Table, NEW champs, NEW out
    PROVE  Rule(rows, champs, out, select(rows, champs, out))
<1> DEFINE sel == select(rows, champs, out)
<1>1. ASSUME NEW i \in Remaining(rows, out)
      PROVE  State(sel, rows[i].code) = Expected(rows, champs, out, i)
  <2>1. State(sel, rows[i].code) = StateAt(Place(rows, champs, out, i))
    BY SelectedStates
  <2>2. CASE i \in ByRank(rows, out)
    <3>1. Place(rows, champs, out, i) \in Nat /\ Place(rows, champs, out, i) <= TopSeats
      BY <2>2, PlaceTyped, RuleAssumption
    <3>2. StateAt(Place(rows, champs, out, i)) = "TopSeven"
      BY <3>1, RuleAssumption DEF StateAt
    <3>3. Expected(rows, champs, out, i) = "TopSeven"
      BY <2>2 DEF Expected
    <3> QED  BY <2>1, <3>2, <3>3
  <2>3. CASE i \notin ByRank(rows, out)
    <3>1. i \in Chasing(rows, out)
      BY <2>3, PlaceTyped
    <3>2. Place(rows, champs, out, i) = TopSeats + 1 + Cardinality(Ahead(rows, champs, out, i))
      BY <3>1, PlaceTyped
    <3> QED  BY <2>1, <2>3, <3>2 DEF Expected
  <2> QED  BY <2>2, <2>3
<1>2. \A p \in out : State(sel, p) = "Withdrawn"
  BY SelectedStates
<1>3. (sel.eighth_basis = "GrandSlamChampion") = (Claiming(rows, champs, out) # {})
  <2>1. sel.eighth_basis = "GrandSlamChampion"
           <=> SeatEight(rows, champs, out) \cap Claiming(rows, champs, out) # {}
    BY SelectedCodes, SeatEightHeld
  <2>2. Claiming(rows, champs, out) # {} => Claimants(rows, champs, out) # {}
    BY DEF Claiming
  <2>3. ASSUME Claimants(rows, champs, out) # {}
        PROVE  SeatEight(rows, champs, out) \cap Claiming(rows, champs, out) # {}
    <3>1. Claimants(rows, champs, out) \subseteq Nat
      BY PlaceTyped DEF Claimants
    <3>2. PICK m \in Claimants(rows, champs, out) : \A j \in Claimants(rows, champs, out) : m <= j
      BY <2>3, <3>1, LeastNatural
    <3> QED  BY <2>3, <3>2, FirstClaimant DEF SeatEight, First
  <2> QED  BY <2>1, <2>2, <2>3
<1>4. MarginsOf(rows, champs, out, sel)
  <2> DEFINE rem       == Remaining(rows, out)
             place(i)  == Place(rows, champs, out, i)
             held(n)   == Holder(rows, champs, out, n)
  <2>1. \A i \in rem : place(i) \in Nat /\ State(sel, rows[i].code) = StateAt(place(i))
    <3>1. \A i \in rem : place(i) \in Nat
      <4> DEFINE active == Active(rows, out)
                 order  == Order(active, Champions(rows, active, champs))
      <4>1. /\ DOMAIN order = 1..Len(order) /\ Len(order) \in Nat
            /\ \A i \in rem : place(i) \in DOMAIN order
        BY OrderPlaces
      <4> HIDE DEF active, order, rem, place
      <4> QED  BY <4>1
    <3>2. \A i \in rem : State(sel, rows[i].code) = StateAt(place(i))
      BY SelectedStates
    <3> QED  BY <3>1, <3>2
  <2>2. sel.eighth_basis = "RaceRank" <=> Claiming(rows, champs, out) = {}
    BY <1>3, SelectedCodes
  <2>3. /\ DOMAIN sel.margins = IF sel.eighth_basis = "RaceRank" /\ held(TopSeats + 2) # {}
                                THEN {rows[i].code : i \in rem} ELSE {}
        /\ \A i \in rem : rows[i].code \in DOMAIN sel.margins =>
              \E j \in rem : /\ place(j) = IF place(i) <= TopSeats + 1 THEN TopSeats + 2 ELSE TopSeats + 1
                             /\ sel.margins[rows[i].code] = rows[i].points - rows[j].points
    BY SelectedMargins DEF RemainingCodes
  <2> HIDE DEF sel, rem, place
  <2>4. TopSeats \in Nat
    BY RuleAssumption
  <2>5. \A n \in Nat : /\ StateAt(n) = "TopSeven" <=> n <= TopSeats
                       /\ StateAt(n) = "Eighth" <=> n = TopSeats + 1
                       /\ StateAt(n) = "FirstAlternate" <=> n = TopSeats + 2
    BY <2>4 DEF StateAt
  <2>6. /\ Holding(rows, out, sel, "FirstAlternate") = {i \in rem : place(i) = TopSeats + 2}
        /\ Holding(rows, out, sel, "Eighth") = {i \in rem : place(i) = TopSeats + 1}
        /\ Holding(rows, out, sel, "TopSeven") = {i \in rem : place(i) <= TopSeats}
    BY <2>1, <2>5 DEF Holding, rem
  <2>7. held(TopSeats + 2) = {i \in rem : place(i) = TopSeats + 2}
    BY DEF Holder, rem, place
  <2>8. \A i \in rem : place(i) <= TopSeats + 1 <=>
           i \in Holding(rows, out, sel, "Eighth") \cup Holding(rows, out, sel, "TopSeven")
    BY <2>1, <2>4, <2>6
  <2> HIDE DEF held
  <2>9. ASSUME NEW i \in rem, rows[i].code \in DOMAIN sel.margins
        PROVE  \E j \in IF i \in Holding(rows, out, sel, "Eighth") \cup Holding(rows, out, sel, "TopSeven")
                        THEN Holding(rows, out, sel, "FirstAlternate") ELSE Holding(rows, out, sel, "Eighth") :
                  sel.margins[rows[i].code] = rows[i].points - rows[j].points
    <3>1. PICK j \in rem : /\ place(j) = IF place(i) <= TopSeats + 1 THEN TopSeats + 2 ELSE TopSeats + 1
                           /\ sel.margins[rows[i].code] = rows[i].points - rows[j].points
      BY <2>3, <2>9
    <3>2. j \in IF i \in Holding(rows, out, sel, "Eighth") \cup Holding(rows, out, sel, "TopSeven")
                THEN Holding(rows, out, sel, "FirstAlternate") ELSE Holding(rows, out, sel, "Eighth")
      BY <2>6, <2>8, <3>1
    <3> QED  BY <3>1, <3>2
  <2> QED  BY <2>2, <2>3, <2>6, <2>7, <2>9 DEF MarginsOf, rem
<1> HIDE DEF sel
<1>5. Rule(rows, champs, out, sel)
  BY <1>1, <1>2, <1>3, <1>4 DEF Rule
<1> QED  BY <1>5 DEF sel

\* A player's seat, by the sets of the rule.
SeatedRanks(rows, champs, out) == ByRank(rows, out) \cup SeatEight(rows, champs, out)
CodesAt(rows, ranks) == {rows[i].code : i \in ranks}

\* select() marks the seven and the eighth exactly as the sets of the rule say.
LEMMA Seats ==
    ASSUME NEW rows \in Table, NEW champs, NEW out
    PROVE  LET sel == select(rows, champs, out)
           IN  /\ \A i \in DOMAIN rows :
                     /\ State(sel, rows[i].code) = "TopSeven" <=> i \in ByRank(rows, out)
                     /\ State(sel, rows[i].code) = "Eighth" <=> i \in SeatEight(rows, champs, out)
                     /\ State(sel, rows[i].code) = "FirstAlternate"
                           <=> i \in Holder(rows, champs, out, TopSeats + 2)
                     /\ State(sel, rows[i].code) = "Withdrawn" <=> rows[i].code \in out
               /\ Seated(sel) = CodesAt(rows, SeatedRanks(rows, champs, out))
<1> DEFINE sel      == select(rows, champs, out)
           place(i) == Place(rows, champs, out, i)
<1>1. /\ \A i \in Remaining(rows, out) : State(sel, rows[i].code) = StateAt(place(i))
      /\ \A p \in out : State(sel, p) = "Withdrawn"
      /\ \A p : p \notin out \cup RemainingCodes(rows, out) => State(sel, p) = "NotSelected"
  BY SelectedStates
<1>2. /\ \A i \in ByRank(rows, out) : place(i) \in Nat /\ place(i) <= TopSeats
      /\ \A i \in Chasing(rows, out) : place(i) \in Nat /\ place(i) > TopSeats
      /\ Remaining(rows, out) = ByRank(rows, out) \cup Chasing(rows, out)
      /\ Remaining(rows, out) \subseteq DOMAIN rows
      /\ TopSeats \in Nat
  BY PlaceTyped, RuleAssumption
<1>3. SeatEight(rows, champs, out) = {i \in Remaining(rows, out) : place(i) = TopSeats + 1}
  BY SeatEightHeld DEF Holder
<1>4. Holder(rows, champs, out, TopSeats + 2) = {i \in Remaining(rows, out) : place(i) = TopSeats + 2}
  BY DEF Holder
<1>5. \A i \in DOMAIN rows : /\ i \in Remaining(rows, out) <=> rows[i].code \notin out
                             /\ rows[i].code \in Player
  BY TableTyped DEF Remaining
<1> HIDE DEF sel, place
<1>6. \A i \in Remaining(rows, out) :
         /\ place(i) \in Nat
         /\ place(i) <= TopSeats <=> i \in ByRank(rows, out)
  BY <1>2
<1>7. ASSUME NEW i \in DOMAIN rows
      PROVE  /\ State(sel, rows[i].code) = "TopSeven" <=> i \in ByRank(rows, out)
             /\ State(sel, rows[i].code) = "Eighth" <=> i \in SeatEight(rows, champs, out)
             /\ State(sel, rows[i].code) = "FirstAlternate"
                   <=> i \in Holder(rows, champs, out, TopSeats + 2)
             /\ State(sel, rows[i].code) = "Withdrawn" <=> rows[i].code \in out
  <2>1. CASE i \in Remaining(rows, out)
    <3>1. State(sel, rows[i].code) = StateAt(place(i)) /\ rows[i].code \notin out
      BY <1>1, <1>5, <2>1
    <3> QED  BY <1>2, <1>3, <1>4, <1>6, <2>1, <3>1 DEF StateAt
  <2>2. CASE i \notin Remaining(rows, out)
    <3>1. State(sel, rows[i].code) = "Withdrawn" /\ rows[i].code \in out
      BY <1>1, <1>5, <2>2
    <3> QED  BY <1>2, <1>3, <1>4, <2>2, <3>1
  <2> QED  BY <2>1, <2>2
<1>8. Seated(sel) = CodesAt(rows, SeatedRanks(rows, champs, out))
  <2>1. ASSUME NEW p \in Seated(sel)
        PROVE  \E i \in ByRank(rows, out) \cup SeatEight(rows, champs, out) : rows[i].code = p
    <3>1. State(sel, p) \in {"TopSeven", "Eighth"}
      BY <2>1 DEF Seated
    <3>2. p \in RemainingCodes(rows, out)
      BY <1>1, <3>1
    <3>3. PICK i \in Remaining(rows, out) : rows[i].code = p
      BY <3>2 DEF RemainingCodes
    <3> QED  BY <1>2, <1>7, <3>1, <3>3
  <2>2. ASSUME NEW i \in ByRank(rows, out) \cup SeatEight(rows, champs, out)
        PROVE  rows[i].code \in Seated(sel)
    <3>1. i \in DOMAIN rows
      BY <1>2, <1>3
    <3> QED  BY <1>5, <1>7, <2>2, <3>1 DEF Seated
  <2> QED  BY <2>1, <2>2 DEF CodesAt, SeatedRanks
<1> QED  BY <1>7, <1>8 DEF sel

\* Behind the holder of seat eight, the first alternate: another claimant, or
\* the next by rank if there is none.
LEMMA AlternateHeld ==
    ASSUME NEW rows \in Table, NEW champs, NEW out,
           NEW a \in Holder(rows, champs, out, TopSeats + 2)
    PROVE  \E h \in SeatEight(rows, champs, out) :
              LET claimants == Claimants(rows, champs, out)
                  chasing   == Chasing(rows, out)
              IN  /\ a \in chasing /\ h \in chasing /\ a # h
                  /\ a \in claimants => a \in First(claimants \ {h})
                  /\ a \notin claimants => claimants \subseteq {h} /\ a \in First(chasing \ {h})
<1> DEFINE claimants == Claimants(rows, champs, out)
           claiming  == Claiming(rows, champs, out)
           chasing   == Chasing(rows, out)
           ahead(i)  == Ahead(rows, champs, out, i)
           order     == Order(Active(rows, out), Champions(rows, Active(rows, out), champs))
<1>1. /\ claimants \subseteq chasing /\ claiming \subseteq claimants /\ chasing \subseteq Nat
      /\ \A i \in chasing : ahead(i) = {j \in chasing : Before(claiming, j, i)}
  BY PlaceTyped DEF Claimants, Claiming, Ahead
<1>2. TopSeats \in Nat
  BY RuleAssumption
<1>3. a \in chasing /\ Cardinality(ahead(a)) = 1 /\ IsFiniteSet(ahead(a))
  <2>1. a \in Remaining(rows, out) /\ Place(rows, champs, out, a) = TopSeats + 2
    BY DEF Holder
  <2>2. a \notin ByRank(rows, out)
    BY <1>2, <2>1, PlaceTyped
  <2>3. a \in chasing
    BY <2>1, <2>2, PlaceTyped
  <2>4. /\ Place(rows, champs, out, a) = TopSeats + 1 + Cardinality(ahead(a))
        /\ Cardinality(ahead(a)) \in Nat /\ IsFiniteSet(ahead(a))
    BY <2>3, PlaceTyped
  <2> HIDE DEF ahead
  <2> QED  BY <1>2, <2>1, <2>3, <2>4
<1>4. PICK h \in Holder(rows, champs, out, TopSeats + 1) : TRUE
  <2>1. DOMAIN order = 1..Len(order) /\ Len(order) \in Nat
    BY OrderPlaces
  <2>2. TopSeats + 2 \in DOMAIN order
    BY HeldPlaces
  <2> HIDE DEF order
  <2>3. TopSeats + 1 \in DOMAIN order
    BY <1>2, <2>1, <2>2
  <2> QED  BY <2>3, HeldPlaces DEF order
<1>5. h \in SeatEight(rows, champs, out) /\ h \in chasing /\ ahead(h) = {} /\ a # h
  BY <1>2, SeatEightHeld DEF Holder
<1> HIDE DEF claimants, claiming, chasing, ahead, order
<1>6. ahead(a) = {h}
  <2>1. a \in Nat /\ h \in Nat /\ ~Before(claiming, a, h)
    BY <1>1, <1>3, <1>5
  <2>2. Before(claiming, h, a)
    BY <1>5, <2>1 DEF Before
  <2>3. h \in ahead(a)
    BY <1>1, <1>3, <1>5, <2>2
  <2>4. PICK y : ahead(a) = {y}
    BY <1>3, FS_Singleton
  <2> QED  BY <2>3, <2>4
<1>7. \A j \in chasing : Before(claiming, j, a) <=> j = h
  BY <1>1, <1>3, <1>6
\* The best ranked of the other claimants claims, too: two champions are read.
<1>8. ASSUME claimants \ {h} # {}
      PROVE  \E m \in First(claimants \ {h}) : m \in claiming /\ m # h /\ m \in claimants
  <2>1. PICK m \in claimants \ {h} : \A j \in claimants \ {h} : m <= j
    BY <1>1, <1>8, LeastNatural
  <2>2. {q \in claimants : q < m} \subseteq {h}
    <3>1. claimants \subseteq Nat
      BY <1>1
    <3>2. \A q \in claimants \ {h} : ~(q < m)
      BY <2>1, <3>1
    <3> QED  BY <3>2
  <2>3. IsFiniteSet({h}) /\ Cardinality({h}) = 1
    BY FS_Singleton
  <2>4. Cardinality({q \in claimants : q < m}) <= 1 /\ Cardinality({q \in claimants : q < m}) \in Nat
    BY <2>2, <2>3, FS_Subset, FS_CardinalityType
  <2>5. Below(claimants, m) < MaxChampions
    BY <2>4, RuleAssumption DEF Below
  <2>6. m \in claiming
    BY <2>1, <2>5 DEF claiming, claimants, Claiming
  <2> QED  BY <2>1, <2>6 DEF First
<1>9. ASSUME a \in claimants
      PROVE  a \in First(claimants \ {h})
  <2>1. PICK m \in First(claimants \ {h}) : m \in claiming /\ m # h /\ m \in claimants
    BY <1>5, <1>8, <1>9
  <2>2. ~Before(claiming, m, a) /\ m \in Nat /\ a \in Nat
    BY <1>1, <1>3, <1>7, <2>1
  <2>3. a \in claiming /\ ~(m < a)
    BY <2>1, <2>2 DEF Before
  <2>4. m <= a
    BY <1>5, <1>9, <2>1 DEF First
  <2> QED  BY <2>1, <2>2, <2>3, <2>4
<1>10. ASSUME a \notin claimants
       PROVE  claimants \subseteq {h} /\ a \in First(chasing \ {h})
  <2>1. a \notin claiming
    BY <1>1, <1>10
  <2>2. claimants \subseteq {h}
    <3> SUFFICES ASSUME claimants \ {h} # {} PROVE FALSE
      OBVIOUS
    <3>1. PICK m \in claiming : m # h
      BY <1>8
    <3> QED  BY <1>1, <1>7, <2>1, <3>1 DEF Before
  <2>3. ASSUME NEW j \in chasing \ {h}
        PROVE  a <= j
    <3>1. j \notin claiming /\ ~Before(claiming, j, a) /\ j \in Nat /\ a \in Nat
      BY <1>1, <1>3, <1>7, <2>2, <2>3
    <3> QED  BY <2>1, <3>1 DEF Before
  <2> QED  BY <1>3, <1>5, <2>2, <2>3 DEF First
<1>11. /\ a \in claimants => a \in First(claimants \ {h})
       /\ a \notin claimants => claimants \subseteq {h} /\ a \in First(chasing \ {h})
  BY <1>9, <1>10
<1> QED  BY <1>3, <1>5, <1>11 DEF claimants, chasing

------------------------------------------------------------------------------
(* A withdrawal.                                                           *)

\* The first n of a set of ranks.
LEMMA FirstOnes ==
    ASSUME NEW S, IsFiniteSet(S), S \subseteq Nat, NEW n \in Nat, NEW F, F \subseteq S,
           \A f \in F, c \in S \ F : f < c,
           Cardinality(F) <= n, F # S => Cardinality(F) = n
    PROVE  \A r \in S : Below(S, r) < n <=> r \in F
<1>0. IsFiniteSet(F) /\ Cardinality(F) \in Nat
  BY FS_Subset, FS_CardinalityType
<1>1. ASSUME NEW r \in F
      PROVE  Below(S, r) < n
  <2> DEFINE before == {q \in S : q < r}
  <2>1. before \subseteq F /\ r \notin before /\ r \in F
    <3>1. ASSUME NEW q \in S, q < r
          PROVE  q \in F
      <4>1. q \in S \ F => r < q
        OBVIOUS
      <4>2. q \in Nat /\ r \in Nat
        OBVIOUS
      <4> QED  BY <3>1, <4>1, <4>2
    <3>2. ~(r < r)
      <4>1. r \in Nat
        OBVIOUS
      <4> QED  BY <4>1
    <3> QED  BY <3>1, <3>2
  <2> HIDE DEF before
  <2>2. Cardinality(before) \in Nat /\ Cardinality(before) <= Cardinality(F)
        /\ Cardinality(before) # Cardinality(F)
    BY <1>0, <2>1, FS_Subset, FS_CardinalityType
  <2>3. Cardinality(before) < n
    BY <1>0, <2>2
  <2> QED  BY <2>3 DEF before, Below
<1>2. ASSUME NEW r \in S \ F
      PROVE  ~(Below(S, r) < n)
  <2> DEFINE before == {q \in S : q < r}
  <2>1. F \subseteq before /\ IsFiniteSet(before)
    BY FS_Subset
  <2>2. Cardinality(F) = n
    OBVIOUS
  <2> HIDE DEF before
  <2>3. Cardinality(before) \in Nat /\ n <= Cardinality(before)
    BY <2>1, <2>2, FS_Subset, FS_CardinalityType
  <2>4. ~(Cardinality(before) < n)
    BY <2>3
  <2> QED  BY <2>4 DEF before, Below
<1> QED  BY <1>1, <1>2

\* The seven are before those who chase them.
LEMMA SevenFirst ==
    ASSUME NEW rows \in Table, NEW out, NEW f \in ByRank(rows, out), NEW c \in Chasing(rows, out)
    PROVE  f < c
<1> DEFINE rem == Remaining(rows, out)
<1>1. IsFiniteSet(rem) /\ rem \subseteq Nat /\ f \in rem /\ c \in rem /\ TopSeats \in Nat
  <2>1. IsFiniteSet(rem) /\ f \in rem /\ c \in rem
    BY SetsTyped
  <2> QED  BY <2>1, PlaceTyped, RuleAssumption
<1>2. Below(rem, f) < TopSeats /\ ~(Below(rem, c) < TopSeats)
  BY DEF ByRank, Chasing
<1>3. Below(rem, f) \in Nat /\ Below(rem, c) \in Nat
  BY <1>1, BelowTyped
<1> HIDE DEF rem
<1>4. ASSUME c < f
      PROVE  FALSE
  <2>1. Below(rem, c) < Below(rem, f)
    BY <1>1, <1>4, BelowGrows
  <2> QED  BY <1>1, <1>2, <1>3, <2>1
<1>5. f # c
  BY <1>2
<1> QED  BY <1>1, <1>4, <1>5

\* When one of the remaining players withdraws, the chasers lose this player,
\* or the next by rank, who moves up.
LEMMA AfterWithdrawal ==
    ASSUME NEW rows \in Table, NEW out, NEW w \in Remaining(rows, out), NEW out2,
           Remaining(rows, out2) = Remaining(rows, out) \ {w}
    PROVE  LET seven == ByRank(rows, out)  chasing == Chasing(rows, out)
           IN  /\ w \in chasing => ByRank(rows, out2) = seven /\ Chasing(rows, out2) = chasing \ {w}
               /\ w \in seven => \A n \in First(chasing) :
                     /\ ByRank(rows, out2) = (seven \ {w}) \cup {n}
                     /\ Chasing(rows, out2) = chasing \ {n}
               /\ chasing = {} => /\ ByRank(rows, out2) = seven \ {w}
                                  /\ Chasing(rows, out2) = {}
<1> DEFINE seven   == ByRank(rows, out)
           chasing == Chasing(rows, out)
           rem2    == Remaining(rows, out) \ {w}
<1>1. /\ IsFiniteSet(rem2) /\ rem2 \subseteq Nat /\ TopSeats \in Nat
      /\ seven \cup chasing = Remaining(rows, out) /\ seven \cap chasing = {}
      /\ IsFiniteSet(seven) /\ seven \subseteq Nat /\ chasing \subseteq Nat
      /\ \A f \in seven, c \in chasing : f < c
      /\ Cardinality(seven) \in Nat /\ Cardinality(seven) <= TopSeats
      /\ chasing # {} => Cardinality(seven) = TopSeats
      /\ ByRank(rows, out2) = {r \in rem2 : Below(rem2, r) < TopSeats}
      /\ Chasing(rows, out2) = rem2 \ ByRank(rows, out2)
  <2>0. Remaining(rows, out) \subseteq Nat /\ IsFiniteSet(Remaining(rows, out))
    BY SetsTyped, PlaceTyped
  <2>1. IsFiniteSet(rem2) /\ rem2 \subseteq Nat
    BY <2>0, FS_Subset
  <2>2. seven \subseteq Nat /\ chasing \subseteq Nat
    BY <2>0 DEF ByRank, Chasing
  <2>3. ByRank(rows, out2) = {r \in rem2 : Below(rem2, r) < TopSeats}
    BY DEF ByRank
  <2>4. Chasing(rows, out2) = rem2 \ ByRank(rows, out2)
    BY DEF Chasing
  <2> QED  BY <2>1, <2>2, <2>3, <2>4, SetsTyped, SevenFirst, FullSeven, RuleAssumption
<1> HIDE DEF seven, chasing, rem2
<1>2. w \in seven \cup chasing /\ rem2 = (seven \cup chasing) \ {w}
  BY <1>1 DEF rem2
<1>3. ASSUME w \in chasing
      PROVE  ByRank(rows, out2) = seven /\ Chasing(rows, out2) = chasing \ {w}
  <2>1. seven \subseteq rem2 /\ rem2 \ seven = chasing \ {w}
    BY <1>1, <1>2, <1>3
  <2>2. Cardinality(seven) = TopSeats
    BY <1>1, <1>3
  <2>3. \A f \in seven, c \in rem2 \ seven : f < c
    BY <1>1, <2>1
  <2>4. {r \in rem2 : Below(rem2, r) < TopSeats} = seven
    <3>1. /\ IsFiniteSet(rem2) /\ rem2 \subseteq Nat /\ TopSeats \in Nat
          /\ seven \subseteq rem2 /\ Cardinality(seven) <= TopSeats
      BY <1>1, <2>1
    <3>2. \A r \in rem2 : Below(rem2, r) < TopSeats <=> r \in seven
      BY <2>2, <2>3, <3>1, FirstOnes
    <3> QED  BY <3>1, <3>2
  <2>5. ByRank(rows, out2) = seven
    BY <1>1, <2>4
  <2> QED  BY <1>1, <2>1, <2>5
<1>4. ASSUME w \in seven
      PROVE  /\ IsFiniteSet(seven \ {w})
             /\ Cardinality(seven \ {w}) = Cardinality(seven) - 1
             /\ Cardinality(seven \ {w}) \in Nat
  BY <1>1, <1>4, FS_RemoveElement, FS_CardinalityType
<1>5. ASSUME w \in seven, NEW n \in First(chasing)
      PROVE  /\ ByRank(rows, out2) = (seven \ {w}) \cup {n}
             /\ Chasing(rows, out2) = chasing \ {n}
  <2> DEFINE F == (seven \ {w}) \cup {n}
  <2>1. n \in chasing /\ n \in Nat /\ \A j \in chasing : n <= j
    BY <1>1 DEF First
  <2>2. n \notin seven /\ w \notin chasing
    BY <1>1, <1>5, <2>1
  <2>3. F \subseteq rem2 /\ rem2 \ F = chasing \ {n}
    BY <1>1, <1>2, <2>1, <2>2
  <2>4. Cardinality(F) = TopSeats
    <3>1. Cardinality(F) = Cardinality(seven \ {w}) + 1
      BY <1>4, <1>5, <2>2, FS_AddElement
    <3>2. Cardinality(seven) = TopSeats
      BY <1>1, <2>1
    <3> QED  BY <1>1, <1>4, <1>5, <3>1, <3>2
  <2>5. \A f \in F, c \in rem2 \ F : f < c
    <3>1. \A c \in chasing \ {n} : n < c
      BY <1>1, <2>1
    <3> QED  BY <1>1, <2>3, <3>1
  <2> HIDE DEF F
  <2>6. {r \in rem2 : Below(rem2, r) < TopSeats} = F
    <3>1. /\ IsFiniteSet(rem2) /\ rem2 \subseteq Nat /\ TopSeats \in Nat
          /\ F \subseteq rem2 /\ Cardinality(F) <= TopSeats
      BY <1>1, <2>3, <2>4
    <3>2. \A r \in rem2 : Below(rem2, r) < TopSeats <=> r \in F
      BY <2>4, <2>5, <3>1, FirstOnes
    <3> QED  BY <3>1, <3>2
  <2>7. ByRank(rows, out2) = F
    BY <1>1, <2>6
  <2> QED  BY <1>1, <2>3, <2>7 DEF F
<1>6. ASSUME chasing = {}
      PROVE  ByRank(rows, out2) = seven \ {w} /\ Chasing(rows, out2) = {}
  <2>1. rem2 = seven \ {w} /\ w \in seven
    BY <1>2, <1>6
  <2>2. Cardinality(rem2) <= TopSeats
    BY <1>1, <1>4, <2>1
  <2>3. {r \in rem2 : Below(rem2, r) < TopSeats} = rem2
    <3>1. \A r \in rem2 : Below(rem2, r) < TopSeats <=> r \in rem2
      BY <1>1, <2>2, FirstOnes
    <3> QED  BY <3>1
  <2> QED  BY <1>1, <2>1, <2>3
<1> QED  BY <1>3, <1>5, <1>6 DEF seven, chasing

\* How the ranks that have a seat change when a player withdraws: the others
\* keep theirs,
LEMMA OthersKeepTheirSeat ==
    ASSUME NEW rows \in Table, NEW champs, NEW out, NEW w \in Remaining(rows, out), NEW out2,
           Remaining(rows, out2) = Remaining(rows, out) \ {w}
    PROVE  SeatedRanks(rows, champs, out) \ {w} \subseteq SeatedRanks(rows, champs, out2)
<1> DEFINE seven      == ByRank(rows, out)
           chasing    == Chasing(rows, out)
           claimants  == Claimants(rows, champs, out)
           seven2     == ByRank(rows, out2)
           chasing2   == Chasing(rows, out2)
           claimants2 == Claimants(rows, champs, out2)
<1>1. /\ seven \cup chasing = Remaining(rows, out) /\ chasing \subseteq Nat
      /\ claimants = {i \in chasing : i \in FirstEligible..LastEligible /\ rows[i].code \in champs}
      /\ claimants2 = {i \in chasing2 : i \in FirstEligible..LastEligible /\ rows[i].code \in champs}
  BY PlaceTyped DEF Claimants
<1>2. /\ w \in chasing => seven2 = seven /\ chasing2 = chasing \ {w}
      /\ w \in seven => \A n \in First(chasing) :
            seven2 = (seven \ {w}) \cup {n} /\ chasing2 = chasing \ {n}
      /\ chasing = {} => seven2 = seven \ {w} /\ chasing2 = {}
  BY AfterWithdrawal
<1>3. chasing # {} => First(chasing) # {}
  BY <1>1, LeastNatural DEF First
<1>4. SeatEight(rows, champs, out) = IF claimants # {} THEN First(claimants) ELSE First(chasing)
  BY DEF SeatEight
<1>5. SeatEight(rows, champs, out2) = IF claimants2 # {} THEN First(claimants2) ELSE First(chasing2)
  BY DEF SeatEight
<1> HIDE DEF seven, chasing, claimants, seven2, chasing2, claimants2
<1>6. seven \ {w} \subseteq seven2
  BY <1>1, <1>2, <1>3
<1>7. ASSUME NEW i \in SeatEight(rows, champs, out), i # w
      PROVE  i \in seven2 \cup SeatEight(rows, champs, out2)
  <2>1. i \in chasing
    BY <1>1, <1>4 DEF First
  <2>2. PICK x : chasing2 = chasing \ {x} /\ (x = w \/ x \in seven2)
    BY <1>1, <1>2, <1>3, <2>1
  <2>3. CASE i = x
    BY <1>7, <2>2, <2>3
  <2>4. CASE i # x
    <3>1. claimants2 = claimants \ {x}
      BY <1>1, <2>2
    <3>2. CASE claimants # {}
      BY <1>4, <1>5, <1>7, <2>4, <3>1, <3>2 DEF First
    <3>3. CASE claimants = {}
      BY <1>4, <1>5, <1>7, <2>2, <2>4, <3>1, <3>3 DEF First
    <3> QED  BY <3>2, <3>3
  <2> QED  BY <2>3, <2>4
<1> QED  BY <1>6, <1>7 DEF SeatedRanks, seven, seven2

\* and the alternate gets the seat that falls free, a second champion seat
\* eight only.
LEMMA AlternateGetsTheSeat ==
    ASSUME NEW rows \in Table, NEW champs, NEW out, NEW w \in Remaining(rows, out), NEW out2,
           Remaining(rows, out2) = Remaining(rows, out) \ {w},
           w \in SeatedRanks(rows, champs, out),
           NEW a \in Holder(rows, champs, out, TopSeats + 2),
           a \in Claimants(rows, champs, out) => w \in SeatEight(rows, champs, out)
    PROVE  a \in SeatedRanks(rows, champs, out2)
<1> DEFINE seven      == ByRank(rows, out)
           chasing    == Chasing(rows, out)
           claimants  == Claimants(rows, champs, out)
           seven2     == ByRank(rows, out2)
           chasing2   == Chasing(rows, out2)
           claimants2 == Claimants(rows, champs, out2)
           eighth     == SeatEight(rows, champs, out)
<1>1. PICK h \in eighth :
         /\ a \in chasing /\ h \in chasing /\ a # h
         /\ a \in claimants => a \in First(claimants \ {h})
         /\ a \notin claimants => claimants \subseteq {h} /\ a \in First(chasing \ {h})
  BY AlternateHeld
<1>2. /\ seven \cap chasing = {} /\ chasing \subseteq Nat
      /\ claimants = {i \in chasing : i \in FirstEligible..LastEligible /\ rows[i].code \in champs}
      /\ claimants2 = {i \in chasing2 : i \in FirstEligible..LastEligible /\ rows[i].code \in champs}
  BY PlaceTyped DEF Claimants
<1>3. /\ w \in chasing => seven2 = seven /\ chasing2 = chasing \ {w}
      /\ w \in seven => \A n \in First(chasing) :
            seven2 = (seven \ {w}) \cup {n} /\ chasing2 = chasing \ {n}
  BY AfterWithdrawal
<1>4. First(chasing) # {}
  BY <1>1, <1>2, LeastNatural DEF First
<1>5. eighth = IF claimants # {} THEN First(claimants) ELSE First(chasing)
  BY DEF SeatEight
<1>6. SeatEight(rows, champs, out2) = IF claimants2 # {} THEN First(claimants2) ELSE First(chasing2)
  BY DEF SeatEight
<1>7. w \in seven \cup eighth
  BY DEF SeatedRanks
<1> HIDE DEF seven, chasing, claimants, seven2, chasing2, claimants2, eighth
<1>8. \A x \in eighth : x = h /\ x \in chasing
  <2>1. \A S : S \subseteq Nat => \A x, y \in First(S) : x = y
    BY DEF First
  <2>2. claimants \subseteq chasing
    BY <1>2
  <2> QED  BY <1>2, <1>5, <2>1, <2>2 DEF First
<1>9. CASE w \in eighth
  <2>1. chasing2 = chasing \ {h} /\ claimants2 = claimants \ {h}
    BY <1>2, <1>3, <1>8, <1>9
  <2>2. CASE a \in claimants
    BY <1>1, <1>6, <2>1, <2>2 DEF SeatedRanks
  <2>3. CASE a \notin claimants
    BY <1>1, <1>6, <2>1, <2>3 DEF SeatedRanks
  <2> QED  BY <2>2, <2>3
<1>10. CASE w \notin eighth
  <2>1. PICK n \in First(chasing) : seven2 = (seven \ {w}) \cup {n} /\ chasing2 = chasing \ {n}
    BY <1>3, <1>4, <1>7, <1>10
  <2>2. a \notin claimants
    BY <1>10 DEF claimants, eighth
  <2>3. CASE n = a
    BY <2>1, <2>3 DEF SeatedRanks, seven2
  <2>4. CASE n = h
    <3>1. claimants2 = {}
      BY <1>1, <1>2, <2>1, <2>2, <2>4
    <3> QED  BY <1>1, <1>6, <2>1, <2>2, <2>4, <3>1 DEF SeatedRanks
  <2>5. CASE n # a /\ n # h
    <3>1. n \in chasing \ {h} /\ n <= a /\ a <= n /\ n \in Nat /\ a \in Nat
      BY <1>1, <1>2, <2>1, <2>2, <2>5 DEF First
    <3> QED  BY <2>5, <3>1
  <2> QED  BY <2>3, <2>4, <2>5
<1> QED  BY <1>9, <1>10

\* Who has withdrawn is not among those who remain.
LEMMA Withdrawing ==
    ASSUME NEW rows \in Table, NEW out, NEW w \in Remaining(rows, out), NEW out2,
           out2 = out \cup {rows[w].code}
    PROVE  Remaining(rows, out2) = Remaining(rows, out) \ {w}
<1>1. \A i, j \in DOMAIN rows : rows[i].code = rows[j].code => i = j
  BY TableTyped
<1> QED  BY <1>1 DEF Remaining

------------------------------------------------------------------------------
(* The theorems.                                                           *)

\* The served selection is the one select() makes of the table and the curated
\* facts; it is what makes each property one of select() alone.
IInv ==
    /\ table \in Table
    /\ champions \cup withdrawals \subseteq Curatable
    /\ selection = select(table, champions, withdrawals)

\* The first selection is made of the first table.
LEMMA InitIInv == Init => IInv
BY DEF Init, IInv

\* Every action that changes an input makes the selection again.
LEMMA NextIInv == IInv /\ [Next]_vars => IInv'
<1> SUFFICES ASSUME IInv, [Next]_vars PROVE IInv'
  OBVIOUS
<1>1. ASSUME NEW t \in Table, NewTable(t) PROVE IInv'
  BY <1>1 DEF IInv, NewTable, Select
<1>2. ASSUME NEW p \in Curatable, WinSlam(p) PROVE IInv'
  BY <1>2 DEF IInv, WinSlam, Select
<1>3. ASSUME NEW p \in Curatable, Withdraw(p) PROVE IInv'
  BY <1>3 DEF IInv, Withdraw, Select
<1>4. CASE NewSeason
  BY <1>4 DEF IInv, NewSeason, Select
<1>5. CASE UNCHANGED vars
  BY <1>5 DEF IInv, vars
<1> QED  BY <1>1, <1>2, <1>3, <1>4, <1>5 DEF Next

\* In every reachable state the selection is that of the served table and the
\* curated facts (refresh.rs builds an AppState from both).
THEOREM Invariance == Spec => []IInv
BY InitIInv, NextIInv, PTL DEF Spec

\* Everyone in the table or withdrawn has a state (select's by_code), and
\* margins are of everybody who remains or of nobody.
THEOREM TypeCorrect == Spec => []TypeOK
<1>1. IInv => TypeOK
  <2> SUFFICES ASSUME IInv PROVE TypeOK
    OBVIOUS
  <2>1. RemainingCodes(table, withdrawals) = CodesOf(table) \ withdrawals
    BY DEF RemainingCodes, Remaining, CodesOf
  <2>2. /\ DOMAIN selection.by_code = withdrawals \cup RemainingCodes(table, withdrawals)
        /\ DOMAIN selection.margins \in {{}, RemainingCodes(table, withdrawals)}
    BY SelectedStates, SelectedMargins DEF IInv
  <2> QED  BY <2>1, <2>2 DEF IInv, TypeOK
<1> QED  BY <1>1, Invariance, PTL

\* The selection is the published rule's.
THEOREM RuleFollowed == Spec => []MatchesRule
<1>1. IInv => MatchesRule
  BY SelectIsTheRule DEF IInv, MatchesRule
<1> QED  BY <1>1, Invariance, PTL

\* A line on the page has exactly the seated players above it.
THEOREM LinesDivide == Spec => []CutLinesDivide
<1>1. IInv => CutLinesDivide
  <2> SUFFICES ASSUME IInv, cut_strong_after(table, selection) PROVE CutLinesDivide
    BY DEF CutLinesDivide, cut_ordinary_after
  <2> DEFINE seven  == ByRank(table, withdrawals)
             eighth == SeatEight(table, champions, withdrawals)
  <2>1. /\ \A i \in DOMAIN table : Seat(table, selection, i) = "TopSeven" <=> i \in seven
        /\ \A i \in DOMAIN table : Seat(table, selection, i) = "Eighth" <=> i \in eighth
        /\ Seated(selection) = {table[i].code : i \in seven \cup eighth}
    BY Seats DEF IInv, Seat, CodesAt, SeatedRanks
  <2>2. /\ Len(table) \in Nat /\ DOMAIN table = 1..Len(table) /\ TopSeats \in Nat
        /\ Len(table) > TopSeats
        /\ \A i, j \in DOMAIN table : table[i].code = table[j].code => i = j
        /\ seven \cup eighth \subseteq DOMAIN table
    <3>1. seven \cup eighth \subseteq DOMAIN table
      BY PlaceTyped, SeatEightHeld DEF IInv
    <3> QED  BY <3>1, TableTyped, RuleAssumption DEF IInv, cut_strong_after
  <2>3. 1..TopSeats \subseteq seven
    BY <2>1, <2>2 DEF cut_strong_after
  <2>4. seven = 1..TopSeats
    <3>1. Cardinality(1..TopSeats) = TopSeats
      BY <2>2, FS_Interval
    <3>2. IsFiniteSet(seven) /\ Cardinality(seven) <= TopSeats /\ Cardinality(seven) \in Nat
      BY SetsTyped, FullSeven DEF IInv
    <3>3. Cardinality(1..TopSeats) <= Cardinality(seven)
      BY <2>3, <3>2, FS_Subset
    <3>4. Cardinality(1..TopSeats) = Cardinality(seven)
      BY <2>2, <3>1, <3>2, <3>3
    <3> QED  BY <2>3, <3>2, <3>4, FS_Subset
  <2> HIDE DEF seven, eighth
  <2>5. \A i \in DOMAIN table : (Seat(table, selection, i) = "TopSeven") = (i <= TopSeats)
    BY <2>1, <2>2, <2>4
  <2>6. ASSUME cut_ordinary_after(table, selection), NEW i \in DOMAIN table
        PROVE  (table[i].code \in Seated(selection)) = (i <= TopSeats + 1)
    <3>1. TopSeats + 1 \in DOMAIN table
      BY <2>2
    <3>2. TopSeats + 1 \in eighth
      BY <2>1, <2>6, <3>1 DEF cut_ordinary_after
    <3>3. \A x, y \in eighth : x = y
      <4>1. eighth = Holder(table, champions, withdrawals, TopSeats + 1)
        BY SeatEightHeld DEF IInv, eighth
      <4> QED  BY <4>1, HeldPlaces DEF IInv
    <3>4. table[i].code \in Seated(selection) <=> i \in seven \cup eighth
      BY <2>1, <2>2
    <3>5. i \in seven \cup eighth <=> i <= TopSeats \/ i = TopSeats + 1
      BY <2>2, <2>4, <3>2, <3>3
    <3> QED  BY <2>2, <3>4, <3>5
  <2> QED  BY <2>5, <2>6 DEF CutLinesDivide
<1> QED  BY <1>1, Invariance, PTL

\* A withdrawal costs nobody else a seat.
THEOREM WithdrawalIsAlone == Spec => WithdrawalCostsNobodyElse
<1>1. ASSUME IInv, NEW p \in Curatable, Withdraw(p)
      PROVE  Seated(selection) \ {p} \subseteq Seated(selection)'
  <2> DEFINE out == withdrawals
             out2 == withdrawals \cup {p}
             ranks == SeatedRanks(table, champions, out)
             ranks2 == SeatedRanks(table, champions, out2)
  <2>1. selection' = select(table, champions, out2)
    BY <1>1 DEF Withdraw, Select
  <2>2. /\ Seated(selection) = CodesAt(table, ranks)
        /\ Seated(selection)' = CodesAt(table, ranks2)
    <3>1. Seated(selection)' = Seated(select(table, champions, out2))
      BY <2>1 DEF Seated, State
    <3>2. selection = select(table, champions, out) /\ table \in Table
      BY <1>1 DEF IInv
    <3> QED  BY <3>1, <3>2, Seats
  <2>3. CASE p \in RemainingCodes(table, out)
    <3>1. PICK w \in Remaining(table, out) : table[w].code = p
      BY <2>3 DEF RemainingCodes
    <3>2. table \in Table /\ Remaining(table, out2) = Remaining(table, out) \ {w}
      <4>1. table \in Table /\ out2 = out \cup {table[w].code}
        BY <1>1, <3>1 DEF IInv
      <4> HIDE DEF out, out2
      <4> QED  BY <3>1, <4>1, Withdrawing
    <3>3. ranks \ {w} \subseteq ranks2
      BY <3>2, OthersKeepTheirSeat
    <3> QED  BY <2>2, <3>1, <3>3 DEF CodesAt
  <2>4. CASE p \notin RemainingCodes(table, out)
    <3>1. Remaining(table, out2) = Remaining(table, out)
      BY <2>4 DEF Remaining, RemainingCodes
    <3>2. ranks2 = ranks
      BY <3>1 DEF SeatedRanks, SeatEight, Claimants, Chasing, ByRank
    <3> QED  BY <2>2, <3>2
  <2> QED  BY <2>3, <2>4
<1>2. IInv /\ [Next]_vars =>
         [\A p \in Curatable : Withdraw(p) => Seated(selection) \ {p} \subseteq Seated(selection)']_vars
  BY <1>1
<1> QED  BY <1>2, Invariance, PTL DEF Spec, WithdrawalCostsNobodyElse

\* A Slam title costs at most the holder of seat eight a seat.
THEOREM SlamCostsSeatEight == Spec => SlamCostsAtMostSeatEight
<1>1. ASSUME IInv, NEW p \in Curatable, WinSlam(p), NEW q \in Seated(selection) \ Seated(selection)'
      PROVE  q # p /\ <<q>> = selection.eighth_code
  <2> DEFINE champs2    == champions \cup {p}
             seven      == ByRank(table, withdrawals)
             chasing    == Chasing(table, withdrawals)
             claimants  == Claimants(table, champions, withdrawals)
             claimants2 == Claimants(table, champs2, withdrawals)
             eighth     == SeatEight(table, champions, withdrawals)
             eighth2    == SeatEight(table, champs2, withdrawals)
  <2>1. /\ selection' = select(table, champs2, withdrawals) /\ p \notin champions
        /\ selection = select(table, champions, withdrawals) /\ table \in Table
    BY <1>1 DEF IInv, WinSlam, Select
  <2>2. Seated(selection)' = Seated(select(table, champs2, withdrawals))
    BY <2>1 DEF Seated, State
  <2>3. /\ Seated(selection) = CodesAt(table, SeatedRanks(table, champions, withdrawals))
        /\ Seated(selection)' = CodesAt(table, SeatedRanks(table, champs2, withdrawals))
    BY <2>1, <2>2, Seats
  <2>4. PICK i \in eighth : table[i].code = q /\ i \notin eighth2
    BY <1>1, <2>3 DEF CodesAt, SeatedRanks
  <2>5. <<q>> = selection.eighth_code
    BY <2>1, <2>4, SeatEightHeld, SelectedCodes
  <2>6. /\ chasing \subseteq DOMAIN table /\ chasing \subseteq Nat
        /\ \A k, l \in DOMAIN table : table[k].code = table[l].code => k = l
    BY <2>1, PlaceTyped, TableTyped
  <2>7. /\ claimants = {k \in chasing : k \in FirstEligible..LastEligible /\ table[k].code \in champions}
        /\ claimants2 = {k \in chasing : k \in FirstEligible..LastEligible /\ table[k].code \in champs2}
    BY DEF Claimants
  <2>8. /\ eighth = IF claimants # {} THEN First(claimants) ELSE First(chasing)
        /\ eighth2 = IF claimants2 # {} THEN First(claimants2) ELSE First(chasing)
    BY DEF SeatEight
  <2> HIDE DEF seven, chasing, claimants, claimants2, eighth, eighth2
  <2>9. ASSUME q = p
        PROVE  FALSE
    <3>1. i \notin claimants
      BY <2>1, <2>4, <2>7, <2>9
    <3>2. claimants = {} /\ i \in First(chasing)
      BY <2>4, <2>8, <3>1 DEF First
    <3>3. claimants2 \subseteq {i}
      BY <2>4, <2>6, <2>7, <2>9, <3>2 DEF First
    <3> QED  BY <2>4, <2>6, <2>8, <3>2, <3>3 DEF First
  <2> QED  BY <2>5, <2>9
<1>2. IInv /\ [Next]_vars =>
         [\A p \in Curatable :
            WinSlam(p) => \A q \in Seated(selection) \ Seated(selection)' :
                             /\ q # p
                             /\ <<q>> = selection.eighth_code]_vars
  BY <1>1
<1> QED  BY <1>2, Invariance, PTL DEF Spec, SlamCostsAtMostSeatEight

\* The alternate of the page gets the next seat that falls free.
THEOREM AlternateIsNext == Spec => AlternateStepsUp
<1>1. ASSUME IInv, NEW p \in Seated(selection) \cap Curatable, Withdraw(p),
             SecondChampion(selection) => State(selection, p) = "Eighth",
             NEW q \in Player, <<q>> = selection.alternate_code
      PROVE  q \in Seated(selection)'
  <2> DEFINE out  == withdrawals
             out2 == withdrawals \cup {p}
  <2>1. /\ selection' = select(table, champions, out2)
        /\ selection = select(table, champions, out) /\ table \in Table
    BY <1>1 DEF IInv, Withdraw, Select
  <2>2. Seated(selection)' = Seated(select(table, champions, out2))
    BY <2>1 DEF Seated, State
  <2>3. /\ Seated(selection) = CodesAt(table, SeatedRanks(table, champions, out))
        /\ Seated(selection)' = CodesAt(table, SeatedRanks(table, champions, out2))
    BY <2>1, <2>2, Seats
  <2>4. PICK w \in SeatedRanks(table, champions, out) : table[w].code = p
    BY <1>1, <2>3 DEF CodesAt
  <2>5. w \in Remaining(table, out) /\ w \in DOMAIN table
    BY <2>1, PlaceTyped, SeatEightHeld DEF SeatedRanks
  <2>6. PICK a \in Holder(table, champions, out, TopSeats + 2) : table[a].code = q
    BY <1>1, <2>1, SelectedCodes
  <2>7. Remaining(table, out2) = Remaining(table, out) \ {w}
    <3>1. out2 = out \cup {table[w].code}
      BY <2>4
    <3> HIDE DEF out, out2
    <3> QED  BY <2>1, <2>5, <3>1, Withdrawing
  <2>8. ASSUME a \in Claimants(table, champions, out)
        PROVE  w \in SeatEight(table, champions, out)
    <3>1. Claiming(table, champions, out) # {}
      BY <2>1, <2>8, SeatEightHeld
    <3>2. selection.eighth_basis = "GrandSlamChampion"
      BY <2>1, <3>1, SelectIsTheRule DEF Rule
    <3>3. SecondChampion(selection)
      BY <1>1, <2>6, <2>8, <3>2 DEF SecondChampion
    <3> QED  BY <1>1, <2>1, <2>4, <2>5, <3>3, Seats
  <2>9. a \in SeatedRanks(table, champions, out2)
    BY <2>1, <2>4, <2>5, <2>7, <2>8, AlternateGetsTheSeat
  <2> QED  BY <2>3, <2>6, <2>9 DEF CodesAt
<1>2. IInv /\ [Next]_vars =>
         [\A p \in Seated(selection) \cap Curatable :
            Withdraw(p) /\ (SecondChampion(selection) => State(selection, p) = "Eighth")
              => \A q \in Player : <<q>> = selection.alternate_code => q \in Seated(selection)']_vars
  BY <1>1
<1> QED  BY <1>2, Invariance, PTL DEF Spec, AlternateStepsUp

------------------------------------------------------------------------------
(* The page, for any tables, announcements and curated facts and for any   *)
(* number of refreshes between the steps of a request: what is sent is     *)
(* made from one state that was once served, and the parts of such a page  *)
(* agree.                                                                  *)

\* A state that can have been served: its selection is that of its rows.
Built(s) ==
    \E rows \in Table, prev \in Table \cup {<<>>}, q \in SUBSET Player, champs, out \in SUBSET Player :
        /\ q \subseteq CodesOf(rows)
        /\ s = [rows |-> rows, previous |-> prev, qualifiers |-> q,
                selection |-> select(rows, champs, out)]

\* The page made from one.
Reply(s) ==
    [summary          |-> build_summary(s),
     rows             |-> build_rows(s),
     shared_link_text |-> [cut       |-> NameOrDash(s, s.selection.eighth_code),
                           alternate |-> build_summary(s).alternate]]

PInv ==
    /\ IInv
    /\ previous \in Table \cup {<<>>}
    /\ qualifiers \subseteq CodesOf(table)
    /\ guard # None => Built(guard)
    /\ summary # None => guard # None /\ summary = build_summary(guard)
    /\ response # None => \E s : Built(s) /\ response = Reply(s)

\* The first table is built whole, and nobody has been answered.
LEMMA InitPInv == PageInit => PInv
BY InitIInv DEF PageInit, PInv, CodesOf

\* The served state is a built one.
LEMMA ServedIsBuilt == PInv => Built(AppState)
<1> SUFFICES ASSUME PInv PROVE Built(AppState)
  OBVIOUS
<1>1. /\ table \in Table /\ previous \in Table \cup {<<>>} /\ qualifiers \subseteq CodesOf(table)
      /\ selection = select(table, champions, withdrawals)
      /\ champions \in SUBSET Player /\ withdrawals \in SUBSET Player
  BY RuleAssumption DEF PInv, IInv
<1>2. qualifiers \in SUBSET Player
  BY <1>1, TableTyped DEF CodesOf
<1> QED  BY <1>1, <1>2 DEF Built, AppState

\* Every state a page or a summary is made from was built whole, whatever was
\* published or curated since.
LEMMA NextPInv == PInv /\ [PageNext]_pageVars => PInv'
<1> SUFFICES ASSUME PInv, [PageNext]_pageVars PROVE PInv'
  OBVIOUS
<1>1. CASE Publish
  <2>1. PICK t \in Table, q \in Announced :
           Valid(q, t) /\ table' = t /\ qualifiers' = q
    BY <1>1 DEF Publish
  <2>2. IInv'
    BY <1>1, <2>1 DEF Publish, Select, IInv, PInv
  <2>3. previous' \in Table /\ UNCHANGED <<guard, summary, response>>
    BY <1>1 DEF Publish, PInv, IInv
  <2>4. qualifiers' \subseteq CodesOf(table')
    BY <2>1 DEF Valid, CodesOf
  <2>5. (CodesOf(table))' = CodesOf(table')
    BY DEF CodesOf
  <2> QED  BY <2>2, <2>3, <2>4, <2>5 DEF PInv
<1>2. CASE Curate
  <2>1. IInv'
    <3>1. [Next]_vars
      BY <1>2 DEF Curate, Next
    <3> QED  BY <3>1, NextIInv DEF PInv
  <2>2. UNCHANGED <<table, previous, qualifiers, guard, summary, response>>
    BY <1>2 DEF Curate, WinSlam, Withdraw, NewSeason
  <2> QED  BY <2>1, <2>2 DEF PInv, CodesOf
<1>3. CASE Request
  <2>1. IInv'
    BY <1>3, NextIInv DEF Request, PInv
  <2>2. Built(guard') /\ summary = None /\ response' = None
    BY <1>3, ServedIsBuilt DEF Request, PInv
  <2>3. UNCHANGED <<table, previous, qualifiers, summary>>
    BY <1>3 DEF Request, vars
  <2> QED  BY <2>1, <2>2, <2>3 DEF PInv, CodesOf
<1>4. CASE Summarise
  <2>1. IInv'
    BY <1>4, NextIInv DEF Summarise, PInv
  <2> QED  BY <1>4, <2>1 DEF Summarise, PInv, CodesOf, vars
<1>5. CASE Respond
  <2>1. IInv'
    BY <1>5, NextIInv DEF Respond, PInv
  <2>2. Built(guard) /\ response' = Reply(guard)
    BY <1>5 DEF Respond, PInv, Reply, Rendered
  <2>3. guard' = None /\ summary' = None /\ UNCHANGED <<table, previous, qualifiers>>
    BY <1>5 DEF Respond, vars
  <2> QED  BY <2>1, <2>2, <2>3 DEF PInv, CodesOf
<1>6. CASE UNCHANGED pageVars
  <2>1. IInv'
    BY <1>6, NextIInv DEF pageVars, PInv
  <2> QED  BY <1>6, <2>1 DEF pageVars, vars, PInv, CodesOf
<1> QED  BY <1>1, <1>2, <1>3, <1>4, <1>5, <1>6 DEF PageNext

\* Every page is made from one state, however many were swapped in meanwhile.
THEOREM PageInvariance == PageSpec => []PInv
BY InitPInv, NextPInv, PTL DEF PageSpec

------------------------------------------------------------------------------
(* What a row and the summary say of a place.                              *)

\* A state of these rows, champions and withdrawals.
From(s, rows, champs, out) ==
    rows \in Table /\ s.rows = rows /\ s.selection = select(rows, champs, out)

Label(s, i) == status_label(s, State(s.selection, s.rows[i].code))

\* The label of a row, by the set of the rule that holds its rank.
LEMMA Labels ==
    ASSUME NEW s, NEW rows, NEW champs, NEW out, From(s, rows, champs, out),
           NEW i \in DOMAIN rows
    PROVE  LET label     == Label(s, i)
               eighth    == SeatEight(rows, champs, out)
               alternate == Holder(rows, champs, out, TopSeats + 2)
           IN  /\ label = "Top 7" <=> i \in ByRank(rows, out)
               /\ label = "8th seat" <=> i \in eighth /\ ~Slam(s)
               /\ label = "8th seat, Slam rule" <=> i \in eighth /\ Slam(s)
               /\ label = "First alternate" <=> i \in alternate
               /\ label = "Withdrawn" <=> rows[i].code \in out
               /\ label \in {"Top 7", "8th seat", "8th seat, Slam rule", "First alternate",
                             "Withdrawn", ""}
<1> DEFINE sel       == select(rows, champs, out)
           state     == State(sel, rows[i].code)
           label     == status_label(s, state)
           eighth    == SeatEight(rows, champs, out)
           alternate == Holder(rows, champs, out, TopSeats + 2)
<1>0. rows \in Table /\ s.rows = rows /\ s.selection = sel
  BY DEF From
<1>1. /\ state = "TopSeven" <=> i \in ByRank(rows, out)
      /\ state = "Eighth" <=> i \in eighth
      /\ state = "FirstAlternate" <=> i \in alternate
      /\ state = "Withdrawn" <=> rows[i].code \in out
  BY <1>0, Seats
<1>2. state \in {"TopSeven", "Eighth", "FirstAlternate", "Withdrawn", "NotSelected"}
  <2>1. CASE rows[i].code \in out
    BY <1>1, <2>1
  <2>2. CASE rows[i].code \notin out
    <3>1. i \in Remaining(rows, out)
      BY <2>2 DEF Remaining
    <3>2. state = StateAt(Place(rows, champs, out, i))
      BY <1>0, <3>1, SelectedStates
    <3> QED  BY <3>2 DEF StateAt
  <2> QED  BY <2>1, <2>2
<1> HIDE DEF sel, state, eighth, alternate
<1>3. /\ state = "TopSeven" => label = "Top 7"
      /\ state = "Eighth" => label = IF Slam(s) THEN "8th seat, Slam rule" ELSE "8th seat"
      /\ state = "FirstAlternate" => label = "First alternate"
      /\ state = "Withdrawn" => label = "Withdrawn"
      /\ state = "NotSelected" => label = ""
  BY DEF status_label
<1> HIDE DEF label
<1>4. /\ label = "Top 7" <=> i \in ByRank(rows, out)
      /\ label = "8th seat" <=> i \in eighth /\ ~Slam(s)
      /\ label = "8th seat, Slam rule" <=> i \in eighth /\ Slam(s)
      /\ label = "First alternate" <=> i \in alternate
      /\ label = "Withdrawn" <=> rows[i].code \in out
      /\ label \in {"Top 7", "8th seat", "8th seat, Slam rule", "First alternate", "Withdrawn", ""}
  BY <1>1, <1>2, <1>3
<1> QED  BY <1>0, <1>4 DEF Label, label, state, sel, eighth, alternate

\* The summary's sentence and names.
LEMMA Sayings ==
    ASSUME NEW s, NEW rows, NEW champs, NEW out, From(s, rows, champs, out)
    PROVE  LET eighth    == SeatEight(rows, champs, out)
               alternate == Holder(rows, champs, out, TopSeats + 2)
               eighthName    == NameOrDash(s, s.selection.eighth_code)
               alternateName == NameOrDash(s, s.selection.alternate_code)
           IN  /\ \A i \in DOMAIN rows : name_of(s, rows[i].code) = Name[rows[i].code]
               /\ \A i \in eighth : eighthName = Name[rows[i].code] /\ eighthName # Dash
               /\ eighth = {} => eighthName = Dash
               /\ \A i \in alternate : alternateName = Name[rows[i].code] /\ alternateName # Dash
               /\ alternate = {} => alternateName = Dash
               /\ (s.selection.eighth_code # <<>> /\ Slam(s)) <=> Slam(s)
               /\ Slam(s) <=> Claiming(rows, champs, out) # {}
               /\ Slam(s) <=> s.selection.eighth_basis # "RaceRank"
               /\ eighth \cup alternate \subseteq DOMAIN rows
               /\ \A x, y \in eighth : x = y
               /\ \A x, y \in alternate : x = y
<1> DEFINE sel       == select(rows, champs, out)
           eighth    == SeatEight(rows, champs, out)
           alternate == Holder(rows, champs, out, TopSeats + 2)
<1>0. rows \in Table /\ s.rows = rows /\ s.selection = sel
  BY DEF From
<1>1. /\ \A i \in eighth : sel.eighth_code = <<rows[i].code>>
      /\ eighth = {} => sel.eighth_code = <<>>
      /\ \A i \in alternate : sel.alternate_code = <<rows[i].code>>
      /\ alternate = {} => sel.alternate_code = <<>>
      /\ sel.eighth_basis \in {"GrandSlamChampion", "RaceRank"}
      /\ sel.eighth_basis = "GrandSlamChampion" => eighth # {}
  BY <1>0, SelectedCodes, SeatEightHeld
<1>2. sel.eighth_basis = "GrandSlamChampion" <=> Claiming(rows, champs, out) # {}
  BY <1>0, SelectIsTheRule DEF Rule
<1>3. eighth \cup alternate \subseteq DOMAIN rows
  BY <1>0, SeatEightHeld DEF Holder, Remaining
<1>4. \A i \in DOMAIN rows : name_of(s, rows[i].code) = Name[rows[i].code]
                             /\ Name[rows[i].code] # Dash
  BY <1>0, TableTyped, NameAssumption DEF name_of
<1>5. \A x, y \in alternate : x = y
  BY <1>0, HeldPlaces
<1>6. \A x, y \in eighth : x = y
  BY <1>0, SeatEightHeld, HeldPlaces
<1> HIDE DEF sel, eighth, alternate
<1>7. s.selection = sel
  BY <1>0
<1>8. \A c : NameOrDash(s, <<c>>) = name_of(s, c)
  BY DEF NameOrDash
<1>9. NameOrDash(s, <<>>) = Dash
  BY DEF NameOrDash
<1>10. \A i \in eighth : NameOrDash(s, s.selection.eighth_code) = Name[rows[i].code]
                         /\ NameOrDash(s, s.selection.eighth_code) # Dash
  BY <1>1, <1>3, <1>4, <1>7, <1>8
<1>11. \A i \in alternate : NameOrDash(s, s.selection.alternate_code) = Name[rows[i].code]
                            /\ NameOrDash(s, s.selection.alternate_code) # Dash
  BY <1>1, <1>3, <1>4, <1>7, <1>8
<1>12. /\ eighth = {} => NameOrDash(s, s.selection.eighth_code) = Dash
       /\ alternate = {} => NameOrDash(s, s.selection.alternate_code) = Dash
  BY <1>1, <1>7, <1>9
<1>13. /\ (s.selection.eighth_code # <<>> /\ Slam(s)) <=> Slam(s)
       /\ Slam(s) <=> Claiming(rows, champs, out) # {}
       /\ Slam(s) <=> s.selection.eighth_basis # "RaceRank"
  BY <1>1, <1>2, <1>7 DEF Slam
<1> QED  BY <1>3, <1>4, <1>5, <1>6, <1>10, <1>11, <1>12, <1>13 DEF eighth, alternate

------------------------------------------------------------------------------
(* The summary and the table.                                              *)

\* A list of at most one.
LEMMA EnumeratesOne ==
    ASSUME NEW s, NEW x \in Nat
    PROVE  /\ Enumerates(s, {x}) => s = <<x>>
           /\ Enumerates(s, {}) => s = <<>>
<1>1. Enumerates(<<x>>, {x})
  <2>1. Append(<<>>, x) = <<x>> /\ {} \cup {x} = {x}
    OBVIOUS
  <2>2. Enumerates(Append(<<>>, x), {} \cup {x})
    BY EnumeratesEmpty, EnumeratesAppend
  <2> QED  BY <2>1, <2>2
<1> QED  BY <1>1, EnumeratesEmpty, EnumeratesUnique

\* The rows of the page.
LEMMA RowsOf ==
    ASSUME NEW s, response = Reply(s)
    PROVE  /\ DOMAIN response.rows = DOMAIN s.rows
           /\ \A i \in DOMAIN s.rows : response.rows[i] = RowView(s, i)
           /\ response.summary = build_summary(s)
           /\ response.shared_link_text = [cut       |-> NameOrDash(s, s.selection.eighth_code),
                                           alternate |-> build_summary(s).alternate]
BY DEF Reply, build_rows

\* Under a label one row has, its name is listed; under one no row has, none.
Only(rows, S, label, name) ==
    /\ S \subseteq DOMAIN rows
    /\ \A i \in DOMAIN rows : i \in S <=> response.rows[i].status_label = label
    /\ \A x, y \in S : x = y
    /\ \A i \in S : name = Name[rows[i].code] /\ name # Dash
    /\ S = {} => name = Dash

\* A label that at most one row bears names that row's player, or nobody.
LEMMA OnlyNamed ==
    ASSUME NEW s, NEW rows, NEW champs, NEW out, From(s, rows, champs, out), response = Reply(s),
           NEW label, NEW name, NEW S, Only(rows, S, label, name)
    PROVE  OnlyName(label, name)
<1>1. /\ DOMAIN response.rows = DOMAIN rows
      /\ \A i \in DOMAIN rows : response.rows[i].name = Name[rows[i].code]
  <2>1. DOMAIN response.rows = DOMAIN rows /\ \A i \in DOMAIN rows : response.rows[i] = RowView(s, i)
    BY RowsOf DEF From
  <2>2. \A i : RowView(s, i).name = Name[rows[i].code]
    BY DEF RowView, From
  <2> QED  BY <2>1, <2>2
<1>2. Places(response.rows) = Places(rows) /\ Enumerates(Places(rows), DOMAIN rows)
  BY <1>1, TableTyped, PlacesEnumerate DEF Places, From
<1>3. Labelled(label) = Filter(Places(rows), S)
  <2>1. {i \in DOMAIN response.rows : response.rows[i].status_label = label} = S
    BY <1>1 DEF Only
  <2> QED  BY <1>2, <2>1 DEF Labelled
<1>4. DOMAIN rows \cap S = S /\ S \subseteq DOMAIN rows /\ DOMAIN rows \subseteq Nat
  BY TableTyped DEF From, Only
<1>5. Enumerates(Labelled(label), S)
  BY <1>2, <1>3, <1>4, FilterEnumerates
<1>6. CASE S = {}
  <2>1. Labelled(label) = <<>>
    BY <1>5, <1>6, EnumeratesOne
  <2> QED  BY <1>6, <2>1 DEF OnlyName, NamesOf, Only
<1>7. CASE S # {}
  <2>1. PICK i \in S : S = {i}
    BY <1>7 DEF Only
  <2>2. Labelled(label) = <<i>>
    BY <1>4, <1>5, <2>1, EnumeratesOne
  <2>3. NamesOf(<<i>>) = <<response.rows[i].name>>
    BY DEF NamesOf
  <2>4. response.rows[i].name = name /\ name # Dash
    BY <1>1, <1>4, <2>1 DEF Only
  <2> QED  BY <2>2, <2>3, <2>4 DEF OnlyName
<1> QED  BY <1>6, <1>7

\* The summary of a built state names the players its table labels.
LEMMA PageAgrees ==
    ASSUME NEW s, Built(s), response = Reply(s)
    PROVE  SummaryAgreesWithTable
<1>1. PICK rows \in Table, prev \in Table \cup {<<>>}, q \in SUBSET Player,
           champs \in SUBSET Player, out \in SUBSET Player :
         /\ q \subseteq CodesOf(rows)
         /\ s = [rows |-> rows, previous |-> prev, qualifiers |-> q,
                 selection |-> select(rows, champs, out)]
  BY DEF Built
<1> DEFINE eighth    == SeatEight(rows, champs, out)
           alternate == Holder(rows, champs, out, TopSeats + 2)
           said      == response.summary
           label(i)  == response.rows[i].status_label
<1>2. /\ s.rows = rows /\ s.qualifiers = q /\ s.selection = select(rows, champs, out)
      /\ From(s, rows, champs, out)
  BY <1>1 DEF From
<1>3. /\ DOMAIN response.rows = DOMAIN rows
      /\ \A i \in DOMAIN rows :
            /\ response.rows[i].name = Name[rows[i].code]
            /\ response.rows[i].official = (rows[i].code \in q)
            /\ label(i) = status_label(s, State(s.selection, rows[i].code))
      /\ said = build_summary(s)
      /\ response.shared_link_text = [cut       |-> NameOrDash(s, s.selection.eighth_code),
                                      alternate |-> build_summary(s).alternate]
  <2>1. /\ DOMAIN response.rows = DOMAIN rows
        /\ \A i \in DOMAIN rows : response.rows[i] = RowView(s, i)
    BY <1>2, RowsOf
  <2>2. ASSUME NEW i
        PROVE  /\ RowView(s, i).name = Name[rows[i].code]
               /\ RowView(s, i).official = (rows[i].code \in q)
               /\ RowView(s, i).status_label = status_label(s, State(s.selection, rows[i].code))
    BY <1>2 DEF RowView
  <2> QED  BY <2>1, <2>2, RowsOf
<1>4. \A i \in DOMAIN rows :
         /\ label(i) = "Top 7" <=> i \in ByRank(rows, out)
         /\ label(i) = "8th seat" <=> i \in eighth /\ ~Slam(s)
         /\ label(i) = "8th seat, Slam rule" <=> i \in eighth /\ Slam(s)
         /\ label(i) = "First alternate" <=> i \in alternate
  <2> SUFFICES ASSUME NEW i \in DOMAIN rows
               PROVE  /\ label(i) = "Top 7" <=> i \in ByRank(rows, out)
                      /\ label(i) = "8th seat" <=> i \in eighth /\ ~Slam(s)
                      /\ label(i) = "8th seat, Slam rule" <=> i \in eighth /\ Slam(s)
                      /\ label(i) = "First alternate" <=> i \in alternate
    OBVIOUS
  <2> DEFINE l == Label(s, i)
  <2>1. /\ l = "Top 7" <=> i \in ByRank(rows, out)
        /\ l = "8th seat" <=> i \in eighth /\ ~Slam(s)
        /\ l = "8th seat, Slam rule" <=> i \in eighth /\ Slam(s)
        /\ l = "First alternate" <=> i \in alternate
    BY <1>2, Labels
  <2>2. label(i) = l
    BY <1>2, <1>3 DEF Label
  <2> HIDE DEF l, label, eighth, alternate
  <2> QED  BY <2>1, <2>2
<1>5. /\ said.officials = {name_of(s, p) : p \in q}
      /\ said.top_seven = NamesAt(rows, TopSevenRanks(s))
      /\ said.eighth = NameOrDash(s, s.selection.eighth_code)
      /\ said.alternate = NameOrDash(s, s.selection.alternate_code)
      /\ said.basis_sentence = (s.selection.eighth_code # <<>> /\ Slam(s))
  BY <1>2, <1>3 DEF build_summary
<1>6. /\ \A i \in DOMAIN rows : name_of(s, rows[i].code) = Name[rows[i].code]
      /\ \A i \in eighth : said.eighth = Name[rows[i].code] /\ said.eighth # Dash
      /\ eighth = {} => said.eighth = Dash
      /\ \A i \in alternate : said.alternate = Name[rows[i].code] /\ said.alternate # Dash
      /\ alternate = {} => said.alternate = Dash
      /\ said.basis_sentence <=> Slam(s)
      /\ eighth \cup alternate \subseteq DOMAIN rows
      /\ \A x, y \in eighth : x = y
      /\ \A x, y \in alternate : x = y
  <2> DEFINE eighthName    == NameOrDash(s, s.selection.eighth_code)
             alternateName == NameOrDash(s, s.selection.alternate_code)
             sentence      == s.selection.eighth_code # <<>> /\ Slam(s)
  <2>1. /\ \A i \in DOMAIN rows : name_of(s, rows[i].code) = Name[rows[i].code]
        /\ \A i \in eighth : eighthName = Name[rows[i].code] /\ eighthName # Dash
        /\ eighth = {} => eighthName = Dash
        /\ \A i \in alternate : alternateName = Name[rows[i].code] /\ alternateName # Dash
        /\ alternate = {} => alternateName = Dash
        /\ sentence <=> Slam(s)
        /\ eighth \cup alternate \subseteq DOMAIN rows
        /\ \A x, y \in eighth : x = y
        /\ \A x, y \in alternate : x = y
    BY <1>2, Sayings
  <2>2. said.eighth = eighthName /\ said.alternate = alternateName /\ said.basis_sentence = sentence
    BY <1>5
  <2> HIDE DEF eighthName, alternateName, sentence, said, eighth, alternate
  <2> QED  BY <2>1, <2>2
<1> HIDE DEF eighth, alternate, said, label
<1>7. said.top_seven = NamesOf(Labelled("Top 7"))
  <2> DEFINE S == {i \in DOMAIN rows : State(s.selection, rows[i].code) = "TopSeven"}
  <2>1. \A i \in DOMAIN rows : State(s.selection, rows[i].code) = "TopSeven" <=> i \in ByRank(rows, out)
    BY <1>2, Seats
  <2>2. {i \in DOMAIN response.rows : response.rows[i].status_label = "Top 7"} = S
    BY <1>3, <1>4, <2>1 DEF label
  <2>3. Places(response.rows) = Places(rows)
    BY <1>3 DEF Places
  <2>4. TopSevenRanks(s) = Filter(Places(rows), S) /\ Labelled("Top 7") = Filter(Places(rows), S)
    BY <1>2, <2>2, <2>3 DEF TopSevenRanks, Labelled
  <2>5. Enumerates(Filter(Places(rows), S), DOMAIN rows \cap S)
    BY TableTyped, PlacesEnumerate, FilterEnumerates
  <2> DEFINE ranks == Filter(Places(rows), S)
  <2> HIDE DEF S
  <2>6. \A k \in DOMAIN ranks : ranks[k] \in DOMAIN rows
    BY <2>5, EnumeratedPlaces
  <2> HIDE DEF ranks
  <2>7. NamesAt(rows, ranks) = NamesOf(ranks)
    BY <1>3, <2>6 DEF NamesAt, NamesOf
  <2> QED  BY <1>5, <2>4, <2>7 DEF ranks
<1>8. OnlyName("8th seat", IF said.basis_sentence THEN Dash ELSE said.eighth)
  <2> DEFINE S == {i \in DOMAIN rows : label(i) = "8th seat"}
             name == IF said.basis_sentence THEN Dash ELSE said.eighth
  <2>1. \A i \in DOMAIN rows : i \in S <=> i \in eighth /\ ~Slam(s)
    BY <1>4
  <2>2. S \subseteq DOMAIN rows /\ \A i \in DOMAIN rows : i \in S <=> response.rows[i].status_label = "8th seat"
    BY DEF label
  <2>3. \A x, y \in S : x = y
    BY <1>6, <2>1, <2>2
  <2>4. \A i \in S : name = Name[rows[i].code] /\ name # Dash
    BY <1>6, <2>1, <2>2
  <2>5. S = {} => name = Dash
    BY <1>6, <2>1
  <2> HIDE DEF S, name
  <2>6. Only(rows, S, "8th seat", name)
    BY <2>2, <2>3, <2>4, <2>5 DEF Only
  <2>7. OnlyName("8th seat", name)
    BY <1>2, <2>6, OnlyNamed
  <2> QED  BY <2>7 DEF name
<1>9. OnlyName("8th seat, Slam rule", IF said.basis_sentence THEN said.eighth ELSE Dash)
  <2> DEFINE S == {i \in DOMAIN rows : label(i) = "8th seat, Slam rule"}
             name == IF said.basis_sentence THEN said.eighth ELSE Dash
  <2>1. \A i \in DOMAIN rows : i \in S <=> i \in eighth /\ Slam(s)
    BY <1>4
  <2>2. S \subseteq DOMAIN rows /\ \A i \in DOMAIN rows : i \in S <=> response.rows[i].status_label = "8th seat, Slam rule"
    BY DEF label
  <2>3. \A x, y \in S : x = y
    BY <1>6, <2>1, <2>2
  <2>4. \A i \in S : name = Name[rows[i].code] /\ name # Dash
    BY <1>6, <2>1, <2>2
  <2>5. S = {} => name = Dash
    BY <1>6, <2>1
  <2> HIDE DEF S, name
  <2>6. Only(rows, S, "8th seat, Slam rule", name)
    BY <2>2, <2>3, <2>4, <2>5 DEF Only
  <2>7. OnlyName("8th seat, Slam rule", name)
    BY <1>2, <2>6, OnlyNamed
  <2> QED  BY <2>7 DEF name
<1>10. OnlyName("First alternate", said.alternate)
  <2>1. /\ alternate \subseteq DOMAIN rows
        /\ \A i \in DOMAIN rows : i \in alternate <=> response.rows[i].status_label = "First alternate"
    BY <1>4, <1>6 DEF label
  <2>2. Only(rows, alternate, "First alternate", said.alternate)
    BY <1>6, <2>1 DEF Only
  <2> QED  BY <1>2, <2>2, OnlyNamed
<1>11. said.officials = {row.name : row \in {response.rows[i] : i \in
                            {j \in DOMAIN response.rows : response.rows[j].official}}}
  <2>1. \A p \in q : \E i \in DOMAIN rows : rows[i].code = p
    BY <1>1 DEF CodesOf
  <2>2. \A i \in DOMAIN rows : rows[i].code \in q => response.rows[i].official
    BY <1>3
  <2>3. \A i \in DOMAIN rows : response.rows[i].official => rows[i].code \in q
    BY <1>3
  <2>4. ASSUME NEW p \in q
        PROVE  \E i \in DOMAIN response.rows :
                  response.rows[i].official /\ response.rows[i].name = name_of(s, p)
    BY <1>3, <1>6, <2>1, <2>2
  <2>5. ASSUME NEW i \in DOMAIN response.rows, response.rows[i].official
        PROVE  \E p \in q : name_of(s, p) = response.rows[i].name
    BY <1>3, <1>6, <2>3, <2>5
  <2> QED  BY <1>5, <2>4, <2>5
<1>12. response.shared_link_text = [cut |-> said.eighth, alternate |-> said.alternate]
  BY <1>3, <1>5 DEF said
<1> QED
  BY <1>7, <1>8, <1>9, <1>10, <1>11, <1>12 DEF SummaryAgreesWithTable, said

\* The summary, the table and the shared link of every page sent say the same.
THEOREM PagesAgree == PageSpec => []SummaryAgreesWithTable
<1>1. PInv => SummaryAgreesWithTable
  <2>1. CASE response = None
    BY <2>1 DEF SummaryAgreesWithTable, Sent
  <2>2. CASE response # None
    BY <2>2, PageAgrees DEF PInv
  <2> QED  BY <2>1, <2>2
<1> QED  BY <1>1, PageInvariance, PTL

------------------------------------------------------------------------------
(* Margins.                                                                *)

\* When nobody has a claim, seat eight is by rank: those with a seat are ahead
\* of the alternate, the others behind the holder of seat eight.
LEMMA RankDecides ==
    ASSUME NEW rows \in Table, NEW champs, NEW out, Claiming(rows, champs, out) = {},
           NEW i \in Remaining(rows, out), NEW j \in Remaining(rows, out)
    PROVE  /\ (Place(rows, champs, out, i) <= TopSeats + 1 /\ Place(rows, champs, out, j) = TopSeats + 2)
                 => rows[i].points >= rows[j].points
           /\ (~(Place(rows, champs, out, i) <= TopSeats + 1) /\ Place(rows, champs, out, j) = TopSeats + 1)
                 => rows[j].points >= rows[i].points
<1> DEFINE place(k) == Place(rows, champs, out, k)
           chasing  == Chasing(rows, out)
           seven    == ByRank(rows, out)
<1>1. /\ \A k \in seven : place(k) \in Nat /\ place(k) <= TopSeats
      /\ \A k \in chasing : place(k) \in Nat /\ place(k) > TopSeats
      /\ seven \cup chasing = Remaining(rows, out)
      /\ Remaining(rows, out) \subseteq DOMAIN rows /\ DOMAIN rows \subseteq Nat
      /\ TopSeats \in Nat
  BY PlaceTyped, RuleAssumption
<1>2. \A k, l \in DOMAIN rows : k <= l => rows[k].points >= rows[l].points
  <2>1. /\ \A k, l \in DOMAIN rows : k < l => rows[k].points >= rows[l].points
        /\ \A k \in DOMAIN rows : rows[k].points \in Nat
    BY TableTyped
  <2>2. \A k, l \in DOMAIN rows : k <= l => k < l \/ k = l
    BY <1>1
  <2> QED  BY <2>1, <2>2
<1>3. \A k \in Remaining(rows, out) : place(k) = TopSeats + 1 <=> k \in First(chasing)
  <2>1. Claimants(rows, champs, out) = {}
    BY SeatEightHeld
  <2> QED  BY <2>1, SeatEightHeld DEF Holder, SeatEight
<1>4. \A f \in seven, c \in chasing : f < c
  BY SevenFirst
<1> HIDE DEF place, chasing, seven
<1>5. \A k \in Remaining(rows, out) : k \in Nat /\ k \in DOMAIN rows
  BY <1>1
<1>6. ASSUME place(i) <= TopSeats + 1, place(j) = TopSeats + 2
      PROVE  i <= j
  <2>1. j \in chasing
    BY <1>1, <1>6
  <2>2. CASE i \in seven
    BY <1>4, <1>5, <2>1, <2>2
  <2>3. CASE i \in chasing
    <3>1. place(i) = TopSeats + 1
      BY <1>1, <1>6, <2>3
    <3> QED  BY <1>3, <2>1, <3>1 DEF First
  <2> QED  BY <1>1, <2>2, <2>3
<1>7. ASSUME ~(place(i) <= TopSeats + 1), place(j) = TopSeats + 1
      PROVE  j <= i
  <2>1. i \in chasing
    BY <1>1, <1>7
  <2> QED  BY <1>3, <1>7, <2>1 DEF First
<1> QED  BY <1>2, <1>5, <1>6, <1>7 DEF place

\* The margins of a built state are counted from the player the sentence names.
LEMMA PageMargins ==
    ASSUME NEW s, Built(s), response = Reply(s)
    PROVE  MarginsFollowTheSentence
<1>1. PICK rows \in Table, prev \in Table \cup {<<>>}, q \in SUBSET Player,
           champs \in SUBSET Player, out \in SUBSET Player :
         /\ q \subseteq CodesOf(rows)
         /\ s = [rows |-> rows, previous |-> prev, qualifiers |-> q,
                 selection |-> select(rows, champs, out)]
  BY DEF Built
<1> DEFINE sel       == select(rows, champs, out)
           margins   == sel.margins
           rem       == Remaining(rows, out)
           place(i)  == Place(rows, champs, out, i)
           eighth    == SeatEight(rows, champs, out)
           alternate == Holder(rows, champs, out, TopSeats + 2)
           shown     == ~response.summary.basis_sentence /\ response.summary.alternate # Dash
<1>2. s.rows = rows /\ s.selection = sel /\ From(s, rows, champs, out)
  BY <1>1 DEF From
<1>3. /\ DOMAIN response.rows = DOMAIN rows
      /\ \A i \in DOMAIN rows :
            /\ response.rows[i].status_label = Label(s, i)
            /\ response.rows[i].margin = {margins[p] : p \in {rows[i].code} \cap DOMAIN margins}
  <2>1. /\ DOMAIN response.rows = DOMAIN rows
        /\ \A i \in DOMAIN rows : response.rows[i] = RowView(s, i)
    BY <1>2, RowsOf
  <2>2. ASSUME NEW i
        PROVE  /\ RowView(s, i).status_label = Label(s, i)
               /\ RowView(s, i).margin = {margins[p] : p \in {rows[i].code} \cap DOMAIN margins}
    BY <1>2 DEF RowView, Label
  <2> QED  BY <2>1, <2>2
<1>4. shown <=> Claiming(rows, champs, out) = {} /\ alternate # {}
  <2>1. /\ response.summary.basis_sentence = (s.selection.eighth_code # <<>> /\ Slam(s))
        /\ response.summary.alternate = NameOrDash(s, s.selection.alternate_code)
    <3>1. response.summary = build_summary(s)
      BY RowsOf
    <3> QED  BY <3>1 DEF build_summary
  <2>2. /\ (s.selection.eighth_code # <<>> /\ Slam(s)) <=> Slam(s)
        /\ Slam(s) <=> Claiming(rows, champs, out) # {}
        /\ \A i \in alternate : NameOrDash(s, s.selection.alternate_code) # Dash
        /\ alternate = {} => NameOrDash(s, s.selection.alternate_code) = Dash
    BY <1>2, Sayings
  <2> HIDE DEF alternate
  <2> QED  BY <2>1, <2>2
<1>5. DOMAIN margins = IF shown THEN RemainingCodes(rows, out) ELSE {}
  <2>1. Slam(s) <=> Claiming(rows, champs, out) # {}
    BY <1>2, Sayings
  <2>2. sel.eighth_basis = "RaceRank" <=> ~Slam(s)
    BY <1>2, Sayings
  <2>3. DOMAIN margins = IF sel.eighth_basis = "RaceRank" /\ alternate # {}
                         THEN RemainingCodes(rows, out) ELSE {}
    BY SelectedMargins
  <2> HIDE DEF sel, margins, alternate, shown
  <2> QED  BY <1>4, <2>1, <2>2, <2>3
<1>6. ASSUME NEW i \in DOMAIN rows
      PROVE  /\ rows[i].code \in out <=> response.rows[i].status_label = "Withdrawn"
             /\ response.rows[i].status_label \in {"Top 7", "8th seat"} => i \in rem /\ place(i) <= TopSeats + 1
             /\ (i \in rem /\ response.rows[i].status_label \in {"First alternate", ""})
                   => ~(place(i) <= TopSeats + 1)
  <2> DEFINE label == Label(s, i)
  <2>1. /\ label = "Top 7" <=> i \in ByRank(rows, out)
        /\ label = "8th seat" <=> i \in eighth /\ ~Slam(s)
        /\ label = "8th seat, Slam rule" <=> i \in eighth /\ Slam(s)
        /\ label = "Withdrawn" <=> rows[i].code \in out
    BY <1>2, Labels
  <2>2. /\ \A k \in ByRank(rows, out) : k \in rem /\ place(k) <= TopSeats + 1
        /\ \A k \in rem : place(k) <= TopSeats + 1 => k \in ByRank(rows, out) \cup eighth
        /\ \A k \in eighth : k \in rem /\ place(k) <= TopSeats + 1
    <3>1. /\ \A k \in ByRank(rows, out) : place(k) \in Nat /\ place(k) <= TopSeats
          /\ \A k \in Chasing(rows, out) : place(k) \in Nat /\ place(k) > TopSeats
          /\ rem = ByRank(rows, out) \cup Chasing(rows, out)
          /\ TopSeats \in Nat
      BY PlaceTyped, RuleAssumption
    <3>2. eighth = {k \in rem : place(k) = TopSeats + 1}
      BY SeatEightHeld DEF Holder
    <3> HIDE DEF rem, place, eighth
    <3> QED  BY <3>1, <3>2
  <2>3. response.rows[i].status_label = label
    BY <1>3
  <2> HIDE DEF label, rem, place, eighth
  <2> QED  BY <2>1, <2>2, <2>3
<1>7. \A i \in rem : rows[i].code \in DOMAIN margins =>
         \E j \in rem : /\ place(j) = IF place(i) <= TopSeats + 1 THEN TopSeats + 2 ELSE TopSeats + 1
                        /\ margins[rows[i].code] = rows[i].points - rows[j].points
  BY SelectedMargins
<1>8. /\ \A i \in DOMAIN rows : i \in rem <=> rows[i].code \notin out
      /\ \A i \in DOMAIN rows : rows[i].code \in RemainingCodes(rows, out) <=> rows[i].code \notin out
      /\ \A i \in DOMAIN rows : rows[i].points \in Nat
  BY TableTyped DEF Remaining, RemainingCodes
<1>9. \A i, j \in rem : Claiming(rows, champs, out) = {} =>
         /\ (place(i) <= TopSeats + 1 /\ place(j) = TopSeats + 2) => rows[i].points >= rows[j].points
         /\ (~(place(i) <= TopSeats + 1) /\ place(j) = TopSeats + 1) => rows[j].points >= rows[i].points
  BY RankDecides
<1>10. rem \subseteq DOMAIN rows
  BY DEF Remaining
<1> HIDE DEF sel, margins, rem, place, eighth, alternate, shown
<1>11. ASSUME NEW i \in DOMAIN response.rows
       PROVE  /\ response.rows[i].margin # {}
                    <=> shown /\ response.rows[i].status_label # "Withdrawn"
              /\ \A m \in response.rows[i].margin :
                    /\ response.rows[i].status_label \in {"Top 7", "8th seat"} => m >= 0
                    /\ response.rows[i].status_label \in {"First alternate", ""} => m <= 0
  <2>1. i \in DOMAIN rows
    BY <1>3
  <2>2. /\ response.rows[i].margin # {} <=> rows[i].code \in DOMAIN margins
        /\ \A m \in response.rows[i].margin : m = margins[rows[i].code]
    <3>1. response.rows[i].margin = {margins[p] : p \in {rows[i].code} \cap DOMAIN margins}
      BY <1>3, <2>1
    <3> QED  BY <3>1
  <2>3. rows[i].code \in DOMAIN margins <=> shown /\ rows[i].code \notin out
    BY <1>5, <1>8, <2>1
  <2>4. ASSUME NEW m \in response.rows[i].margin
        PROVE  /\ response.rows[i].status_label \in {"Top 7", "8th seat"} => m >= 0
               /\ response.rows[i].status_label \in {"First alternate", ""} => m <= 0
    <3>1. m = margins[rows[i].code] /\ rows[i].code \in DOMAIN margins /\ i \in rem
      BY <1>8, <2>1, <2>2, <2>3, <2>4
    <3>2. PICK j \in rem :
             /\ place(j) = IF place(i) <= TopSeats + 1 THEN TopSeats + 2 ELSE TopSeats + 1
             /\ m = rows[i].points - rows[j].points
      BY <1>7, <3>1
    <3>3. rows[i].points \in Nat /\ rows[j].points \in Nat
      BY <1>8, <1>10, <2>1
    <3>4. Claiming(rows, champs, out) = {}
      BY <1>4, <2>3, <3>1
    <3>5. /\ place(i) <= TopSeats + 1 => rows[i].points >= rows[j].points
          /\ ~(place(i) <= TopSeats + 1) => rows[j].points >= rows[i].points
      BY <1>9, <3>1, <3>2, <3>4
    <3>6. /\ response.rows[i].status_label \in {"Top 7", "8th seat"} => place(i) <= TopSeats + 1
          /\ response.rows[i].status_label \in {"First alternate", ""} => ~(place(i) <= TopSeats + 1)
      BY <1>6, <2>1, <3>1
    <3>7. /\ rows[i].points >= rows[j].points => m >= 0
          /\ rows[j].points >= rows[i].points => m <= 0
      BY <3>2, <3>3
    <3> QED  BY <3>5, <3>6, <3>7
  <2> QED  BY <1>6, <2>1, <2>2, <2>3, <2>4
<1> QED  BY <1>11 DEF MarginsFollowTheSentence, shown

\* Margins are shown when and as the sentence of the page says.
THEOREM MarginsAgree == PageSpec => []MarginsFollowTheSentence
<1>1. PInv => MarginsFollowTheSentence
  <2>1. CASE response = None
    BY <2>1 DEF MarginsFollowTheSentence, Sent
  <2>2. CASE response # None
    BY <2>2, PageMargins DEF PInv
  <2> QED  BY <2>1, <2>2
<1> QED  BY <1>1, PageInvariance, PTL

------------------------------------------------------------------------------
(* Moves.                                                                  *)

\* In every answer made of a built state the moves add up.
LEMMA PageMoves ==
    ASSUME NEW s, Built(s), response = Reply(s)
    PROVE  MovesAddUp
<1>1. PICK rows \in Table, prev \in Table \cup {<<>>}, q \in SUBSET Player,
           champs \in SUBSET Player, out \in SUBSET Player :
         /\ q \subseteq CodesOf(rows)
         /\ s = [rows |-> rows, previous |-> prev, qualifiers |-> q,
                 selection |-> select(rows, champs, out)]
  BY DEF Built
<1> DEFINE was(i) == {k \in DOMAIN prev : prev[k].code = rows[i].code}
           came   == {i \in DOMAIN response.rows : response.rows[i].moved # {}}
           from   == [i \in came |-> i + (CHOOSE m \in response.rows[i].moved : TRUE)]
<1>2. /\ DOMAIN response.rows = DOMAIN rows
      /\ \A i \in DOMAIN rows : response.rows[i].moved = {j - i : j \in was(i)}
  <2>1. s.rows = rows /\ s.previous = prev
    BY <1>1
  <2>2. /\ DOMAIN response.rows = DOMAIN rows
        /\ \A i \in DOMAIN rows : response.rows[i] = RowView(s, i)
    BY <2>1, RowsOf
  <2>3. ASSUME NEW i
        PROVE  RowView(s, i).moved = {j - i : j \in was(i)}
    BY <2>1 DEF RowView, Movement
  <2> QED  BY <2>2, <2>3
<1>3. /\ \A i, j \in DOMAIN rows : rows[i].code = rows[j].code => i = j
      /\ DOMAIN rows = 1..Len(rows) /\ Len(rows) \in Nat
  BY TableTyped
<1>4. /\ \A i, j \in DOMAIN prev : prev[i].code = prev[j].code => i = j
      /\ \A k \in DOMAIN prev : k \in Nat /\ k > 0
  <2>1. CASE prev \in Table
    BY <2>1, TableTyped
  <2>2. CASE prev = <<>>
    BY <2>2
  <2> QED  BY <2>1, <2>2
<1>5. ASSUME NEW i \in came
      PROVE  i \in DOMAIN rows /\ from[i] \in was(i)
  <2>1. i \in DOMAIN rows /\ i \in Nat /\ was(i) # {}
    BY <1>2, <1>3
  <2>2. PICK m \in response.rows[i].moved : from[i] = i + m
    OBVIOUS
  <2>3. PICK j \in was(i) : m = j - i
    BY <1>2, <2>1, <2>2
  <2>4. j \in Nat
    BY <1>4
  <2> QED  BY <2>1, <2>2, <2>3, <2>4
<1>6. ASSUME NEW i \in came, NEW j \in came, from[i] = from[j]
      PROVE  i = j
  <2>1. i \in DOMAIN rows /\ j \in DOMAIN rows /\ from[i] \in was(i) /\ from[j] \in was(j)
    BY <1>5
  <2>2. rows[i].code = rows[j].code
    BY <1>6, <2>1
  <2> QED  BY <1>3, <2>1, <2>2
<1>7. \A i \in came : from[i] > 0
  BY <1>4, <1>5
<1>8. ASSUME came = DOMAIN response.rows, \A i \in came : from[i] \in DOMAIN response.rows
      PROVE  {from[i] : i \in came} = DOMAIN response.rows
  <2> DEFINE image == {from[i] : i \in came}
             f     == [i \in came |-> from[i]]
  <2>1. IsFiniteSet(came)
    <3>1. IsFiniteSet(1..Len(rows))
      BY <1>3, FS_Interval
    <3> QED  BY <1>2, <1>3, <1>8, <3>1
  <2>2. f \in Bijection(came, image)
    <3> HIDE DEF came, from
    <3> QED  BY <1>6 DEF Bijection, Injection, IsInjective, Surjection
  <2> HIDE DEF f, image
  <2>3. Cardinality(image) = Cardinality(came)
    BY <2>1, <2>2, FS_Bijection DEF ExistsBijection
  <2>4. image \subseteq came
    BY <1>8 DEF image
  <2>5. image = came
    BY <2>1, <2>3, <2>4, FS_Subset
  <2> QED  BY <1>8, <2>5 DEF image
<1> QED  BY <1>6, <1>7, <1>8 DEF MovesAddUp

\* No two rows of a page came from the same place.
THEOREM MovesArePermutation == PageSpec => []MovesAddUp
<1>1. PInv => MovesAddUp
  <2>1. CASE response = None
    BY <2>1 DEF MovesAddUp, Sent
  <2>2. CASE response # None
    BY <2>2, PageMoves DEF PInv
  <2> QED  BY <2>1, <2>2
<1> QED  BY <1>1, PageInvariance, PTL
=============================================================================
