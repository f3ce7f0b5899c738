-------------------------- MODULE PlayerInfoProofs --------------------------
(***************************************************************************)
(* Proofs about PlayerInfo, for any game tables and any client.  Two       *)
(* invariants carry them: Inv, about what is saved, and Contents, about    *)
(* what the player holds and the client shows.  The loops over the ship    *)
(* table are recursive functions; what they compute is shown by induction, *)
(* as the absence of a least round that fails.                             *)
(***************************************************************************)
EXTENDS PlayerInfo, FiniteSetTheorems, TLAPS

(* Facts about numbers and sequences the other lemmas need *)

LEMMA LeastNat ==
    ASSUME NEW S, S \subseteq Nat, S # {}
    PROVE  \E m \in S : \A n \in S : m <= n
<1> DEFINE R == OpToRel(<, Nat)
<1>1. IsWellFoundedOn(R, Nat)
  BY NatLessThanWellFounded
<1>0. \A x, y \in Nat : x < y => <<x, y>> \in R
  BY DEF OpToRel
<1> HIDE DEF R
<1>2. PICK m \in S : \A n \in S : ~ (<<n, m>> \in R)
  BY <1>1, WFMin
<1>3. \A n \in S : ~ (n < m)
  BY <1>0, <1>2
<1> QED BY <1>3, <1>2

LEMMA MaxIs ==
    ASSUME NEW S, S \subseteq Nat, NEW m \in S, \A x \in S : x <= m
    PROVE  Max(S) = m
<1>1. \A x \in S : x >= m => x = m
  OBVIOUS
<1>2. \A x \in S : m >= x
  OBVIOUS
<1> QED BY <1>1, <1>2 DEF Max

\* Ships are never removed, so that the ids are the places in the list.
Numbered(ships) ==
    /\ ships \in Seq(Ship)
    /\ \A i \in 1..Len(ships) : ships[i].id = i

LEMMA NumberedIds ==
    ASSUME NEW ships, Numbered(ships)
    PROVE  /\ Ids(ships) = 1..Len(ships) /\ Len(ships) \in Nat
           /\ DOMAIN ships = 1..Len(ships)
           /\ Max(Ids(ships) \cup {0}) = Len(ships)
<1>1. Len(ships) \in Nat /\ DOMAIN ships = 1..Len(ships)
  BY DEF Numbered
<1>2. Ids(ships) = 1..Len(ships)
  BY <1>1 DEF Ids, Numbered
<1>3. Max(1..Len(ships) \cup {0}) = Len(ships)
  BY <1>1, MaxIs
<1> QED BY <1>1, <1>2, <1>3

LEMMA AddShipEffect ==
    ASSUME NEW ships, Numbered(ships), NEW template
    PROVE  LET new == AddShip(ships, template)
           IN  /\ Numbered(new)
               /\ Owned(new) = Owned(ships) \cup ({template} \cap Complete)
               /\ Len(new) = IF template \in Complete THEN Len(ships) + 1 ELSE Len(ships)
               /\ template \notin Complete => new = ships
               /\ template \in Complete => new[Len(new)].id = Len(ships) + 1
<1> DEFINE new == AddShip(ships, template)
           ship == [id |-> Len(ships) + 1, template |-> template, skin |-> NoSkin]
<1>1. CASE template \notin Complete
  BY <1>1 DEF AddShip
<1>2. CASE template \in Complete
  <2>1. new = Append(ships, ship)
    BY <1>2, NumberedIds DEF AddShip
  <2>2. ship \in Ship /\ ships \in Seq(Ship) /\ Len(ships) \in Nat
    BY <1>2, TablesAssumption DEF Ship, Numbered
  <2> HIDE DEF ship
  <2>3. /\ new \in Seq(Ship) /\ Len(new) = Len(ships) + 1 /\ DOMAIN new = 1..Len(new)
        /\ \A i \in 1..Len(ships) : new[i] = ships[i]
        /\ new[Len(new)] = ship /\ DOMAIN ships = 1..Len(ships)
    BY <2>1, <2>2
  <2> HIDE DEF new
  <2>4. Numbered(new)
    BY <2>2, <2>3 DEF Numbered, ship
  <2>5. Owned(new) = Owned(ships) \cup {template}
    <3>1. \A t \in Owned(new) : t \in Owned(ships) \cup {template}
      BY <2>2, <2>3 DEF Owned, ship
    <3>2. \A t \in Owned(ships) : t \in Owned(new)
      BY <2>2, <2>3 DEF Owned, ship
    <3>3. template \in Owned(new)
      <4>1. Len(new) \in DOMAIN new /\ new[Len(new)].template = template
        BY <2>2, <2>3 DEF ship
      <4> QED BY <4>1 DEF Owned
    <3> QED BY <3>1, <3>2, <3>3
  <2> QED BY <1>2, <2>3, <2>4, <2>5 DEF ship, new
<1> QED BY <1>1, <1>2

LEMMA AddShipsRounds ==
    ASSUME NEW ships, NEW order, Len(order) \in Nat
    PROVE  \E after :
              /\ AddShips(ships, order) = after[Len(order)]
              /\ after[0] = ships
              /\ \A k \in 1..Len(order) : after[k] = AddShip(after[k - 1], order[k])
<1> DEFINE IsRun(f, n) ==
              f = [k \in 0..n |-> IF k = 0 THEN ships ELSE AddShip(f[k - 1], order[k])]
           Bad == {n \in Nat : ~ \E f : IsRun(f, n)}
<1>1. Bad = {}
  <2> SUFFICES ASSUME Bad # {} PROVE FALSE
    OBVIOUS
  <2>1. PICK n \in Bad : \A m \in Bad : n <= m
    <3>1. Bad \subseteq Nat
      OBVIOUS
    <3> HIDE DEF Bad
    <3> QED BY <3>1, LeastNat
  <2>2. n \in Nat /\ ~ \E f : IsRun(f, n)
    OBVIOUS
  <2>3. CASE n = 0
    <3>1. IsRun([k \in 0..0 |-> ships], 0)
      OBVIOUS
    <3> QED BY <2>2, <2>3, <3>1
  <2>4. CASE n # 0
    <3>1. n - 1 \in Nat /\ n - 1 \notin Bad
      BY SMTT(30), <2>1, <2>4
    <3>2. PICK f : IsRun(f, n - 1)
      BY <3>1
    <3> DEFINE g == [k \in 0..n |-> IF k = n THEN AddShip(f[n - 1], order[n]) ELSE f[k]]
    <3>3. \A k \in 0..n - 1 : f[k] = IF k = 0 THEN ships ELSE AddShip(f[k - 1], order[k])
      BY <3>2
    <3>4. \A k \in 0..n : g[k] = IF k = 0 THEN ships ELSE AddShip(g[k - 1], order[k])
      <4> SUFFICES ASSUME NEW k \in 0..n
                   PROVE  g[k] = IF k = 0 THEN ships ELSE AddShip(g[k - 1], order[k])
        OBVIOUS
      <4>1. CASE k = n
        <5>1. g[k] = AddShip(f[n - 1], order[n]) /\ g[n - 1] = f[n - 1]
          BY <4>1, <2>2, <2>4
        <5> QED BY <5>1, <4>1, <2>4
      <4>2. CASE k # n
        <5>1. k \in 0..n - 1 /\ g[k] = f[k] /\ (k # 0 => g[k - 1] = f[k - 1])
          BY <4>2, <2>2
        <5> QED BY <5>1, <3>3
      <4> QED BY <4>1, <4>2
    <3>5. IsRun(g, n)
      BY <3>4
    <3> QED BY <3>5, <2>2
  <2> QED BY <2>3, <2>4
<1> DEFINE after == CHOOSE f : IsRun(f, Len(order))
<1>2. IsRun(after, Len(order))
  BY <1>1
<1>3. AddShips(ships, order) = after[Len(order)]
  BY DEF AddShips
<1> HIDE DEF after
<1>4. after[0] = ships /\ \A k \in 1..Len(order) : after[k] = AddShip(after[k - 1], order[k])
  BY <1>2
<1> QED BY <1>3, <1>4

LEMMA AddShipsEffect ==
    ASSUME NEW ships, Numbered(ships), NEW order, Len(order) \in Nat
    PROVE  LET new == AddShips(ships, order)
               added == {order[j] : j \in 1..Len(order)} \cap Complete
           IN  /\ Numbered(new)
               /\ Owned(new) = Owned(ships) \cup added
               /\ Len(new) >= Len(ships)
               /\ added = {} => new = ships
<1>1. PICK after :
        /\ AddShips(ships, order) = after[Len(order)]
        /\ after[0] = ships
        /\ \A k \in 1..Len(order) : after[k] = AddShip(after[k - 1], order[k])
  BY AddShipsRounds
<1> DEFINE Added(n) == {order[j] : j \in 1..n} \cap Complete
           Good(n) == /\ Numbered(after[n])
                      /\ Owned(after[n]) = Owned(ships) \cup Added(n)
                      /\ Len(after[n]) >= Len(ships)
                      /\ Added(n) = {} => after[n] = ships
           Bad == {n \in 0..Len(order) : ~ Good(n)}
<1>2. Bad = {}
  <2> SUFFICES ASSUME Bad # {} PROVE FALSE
    OBVIOUS
  <2>1. PICK n \in Bad : \A m \in Bad : n <= m
    <3>1. Bad \subseteq Nat
      OBVIOUS
    <3> HIDE DEF Bad
    <3> QED BY <3>1, LeastNat
  <2>2. n \in 0..Len(order) /\ ~ Good(n)
    OBVIOUS
  <2>3. CASE n = 0
    <3>1. Added(0) = {} /\ Len(ships) \in Nat
      BY NumberedIds
    <3> QED BY <1>1, <2>2, <2>3, <3>1
  <2>4. CASE n # 0
    <3>1. n - 1 \in 0..Len(order) /\ n - 1 \notin Bad /\ n \in 1..Len(order)
      BY <2>1, <2>2, <2>4
    <3>2. Good(n - 1)
      BY <3>1
    <3> DEFINE old == after[n - 1]
               new == AddShip(old, order[n])
    <3>3. after[n] = new
      BY <1>1, <3>1
    <3>4. Added(n) = Added(n - 1) \cup ({order[n]} \cap Complete)
      BY <3>1
    <3> HIDE DEF Added
    <3>5. /\ Numbered(new)
          /\ Owned(new) = Owned(old) \cup ({order[n]} \cap Complete)
          /\ Len(new) = IF order[n] \in Complete THEN Len(old) + 1 ELSE Len(old)
          /\ order[n] \notin Complete => new = old
      BY <3>2, AddShipEffect
    <3>6. Len(old) \in Nat /\ Len(ships) \in Nat
      BY <3>2, NumberedIds
    <3> HIDE DEF new, old
    <3>7. Owned(new) = Owned(ships) \cup Added(n)
      BY <3>2, <3>4, <3>5 DEF old
    <3>8. Len(new) >= Len(ships)
      BY <3>2, <3>5, <3>6 DEF old
    <3>9. Added(n) = {} => new = ships
      BY <3>2, <3>4, <3>5 DEF old
    <3> QED BY <2>2, <3>3, <3>5, <3>7, <3>8, <3>9
  <2> QED BY <2>3, <2>4
<1>3. Good(Len(order))
  BY <1>2
<1> QED BY <1>1, <1>3

LEMMA OrderIsTable ==
    ASSUME NEW S, IsFiniteSet(S), NEW order \in SetToSeqs(S)
    PROVE  /\ Len(order) \in Nat
           /\ {order[j] : j \in 1..Len(order)} = S
<1>1. Cardinality(S) \in Nat
  BY FS_CardinalityType
<1>2. /\ order \in [1..Cardinality(S) -> S]
      /\ \A i, j \in 1..Cardinality(S) : i # j => order[i] # order[j]
  BY DEF SetToSeqs
<1>3. Len(order) = Cardinality(S)
  BY <1>1, <1>2
<1>4. order \in Injection(1..Cardinality(S), S)
  BY <1>2 DEF Injection, IsInjective
<1>5. IsFiniteSet(1..Cardinality(S)) /\ Cardinality(1..Cardinality(S)) = Cardinality(S)
  BY <1>1, FS_Interval
<1>6. order \in Surjection(1..Cardinality(S), S)
  BY <1>4, <1>5, FS_Injection
<1> QED BY <1>1, <1>2, <1>3, <1>6 DEF Surjection

\* In whatever order the table is met, the command adds exactly the maxed
\* templates that can be added and were not there.
LEMMA GiveAllShipsEffect ==
    ASSUME NEW ships, Numbered(ships), NEW new \in GiveAllShips(ships)
    PROVE  /\ Numbered(new)
           /\ Owned(new) = Owned(ships) \cup (Maxed \cap Complete)
           /\ Len(new) >= Len(ships)
           /\ Maxed \cap Complete \subseteq Owned(ships) => new = ships
<1> DEFINE missing == Maxed \ Owned(ships)
<1>1. PICK order \in SetToSeqs(missing) : new = AddShips(ships, order)
  BY DEF GiveAllShips
<1>2. IsFiniteSet(missing)
  <2>1. missing \in SUBSET Template
    BY TablesAssumption
  <2> QED BY <2>1, TablesAssumption, FS_Subset
<1>3. Len(order) \in Nat /\ {order[j] : j \in 1..Len(order)} = missing
  BY <1>2, OrderIsTable
<1>4. /\ Numbered(new)
      /\ Owned(new) = Owned(ships) \cup (missing \cap Complete)
      /\ Len(new) >= Len(ships)
      /\ missing \cap Complete = {} => new = ships
  <2> HIDE DEF missing
  <2> QED BY <1>1, <1>3, AddShipsEffect
<1> QED BY <1>4

LEMMA MaxExists ==
    ASSUME NEW S, S \subseteq Nat, S # {}, NEW b \in Nat, \A x \in S : x <= b
    PROVE  Max(S) \in S
<1> DEFINE U == {m \in Nat : \A x \in S : x <= m}
<1>1. PICK m \in U : \A n \in U : m <= n
  <2>1. U \subseteq Nat /\ b \in U
    OBVIOUS
  <2> HIDE DEF U
  <2> QED BY <2>1, LeastNat
<1>2. m \in S
  <2> SUFFICES ASSUME m \notin S PROVE FALSE
    OBVIOUS
  <2>1. \A x \in S : x < m
    BY <1>1
  <2>2. m - 1 \in Nat
    <3>1. PICK x \in S : TRUE
      OBVIOUS
    <3> QED BY <3>1, <2>1, <1>1
  <2>3. m - 1 \in U
    BY <2>1, <2>2
  <2> QED BY <2>3, <1>1
<1> QED BY <1>1, <1>2, MaxIs

LEMMA MinIs ==
    ASSUME NEW S, S \subseteq Nat, NEW m \in S, \A x \in S : m <= x
    PROVE  Min(S) = m
<1>1. \A x \in S : x <= m => x = m
  OBVIOUS
<1> QED BY <1>1 DEF Min

LEMMA MaxOfTwo ==
    ASSUME NEW a \in Nat, NEW b \in Nat
    PROVE  Max({a, b}) \in {a, b} /\ Max({a, b}) >= a /\ Max({a, b}) >= b
<1>1. {a, b} \subseteq Nat /\ a \in {a, b} /\ b \in {a, b}
  OBVIOUS
<1>2. CASE a >= b
  <2>1. \A x \in {a, b} : x <= a
    BY <1>2
  <2>2. Max({a, b}) = a
    BY <1>1, <2>1, MaxIs
  <2> QED BY <2>2, <1>2
<1>3. CASE b >= a
  <2>1. \A x \in {a, b} : x <= b
    BY <1>3
  <2>2. Max({a, b}) = b
    BY <1>1, <2>1, MaxIs
  <2> QED BY <2>2, <1>3
<1> QED BY <1>2, <1>3

LEMMA MinOfTwo ==
    ASSUME NEW a \in Nat, NEW b \in Nat
    PROVE  Min({a, b}) \in {a, b} /\ Min({a, b}) <= a /\ Min({a, b}) <= b
<1>1. {a, b} \subseteq Nat /\ a \in {a, b} /\ b \in {a, b}
  OBVIOUS
<1>2. CASE a <= b
  <2>1. \A x \in {a, b} : a <= x
    BY <1>2
  <2>2. Min({a, b}) = a
    BY <1>1, <2>1, MinIs
  <2> QED BY <2>2, <1>2
<1>3. CASE b <= a
  <2>1. \A x \in {a, b} : b <= x
    BY <1>3
  <2>2. Min({a, b}) = b
    BY <1>1, <2>1, MinIs
  <2> QED BY <2>2, <1>3
<1> QED BY <1>2, <1>3

\* Which ships are in which packet.
LEMMA PacketsCover ==
    ASSUME NEW ships, ships \in Seq(Ship)
    PROVE  LET packets == Packets(ships)
           IN  /\ DOMAIN packets \subseteq Nat
               /\ \E b \in Nat : \A k \in DOMAIN packets : k <= b
               /\ \A k \in DOMAIN packets :
                     /\ DOMAIN packets[k] \subseteq 1..Len(ships)
                     /\ \A i \in DOMAIN packets[k] :
                           \E j \in 1..Len(ships) : packets[k][i] = ships[j]
               /\ \A j \in 1..Len(ships) :
                     \E k \in DOMAIN packets : \E i \in DOMAIN packets[k] :
                        packets[k][i] = ships[j]
<1> DEFINE n == Len(ships)
           rounded == (n + Chunk - 1) \div Chunk
           count == Max({1, rounded})
           last(k) == Min({k * Chunk, n})
           packets == Packets(ships)
<1>1. n \in Nat /\ Chunk \in Nat /\ Chunk > 0
  BY TablesAssumption
<1>2. rounded \in Nat /\ n <= rounded * Chunk
  <2> HIDE DEF n
  <2>1. n + Chunk - 1 = Chunk * rounded + ((n + Chunk - 1) % Chunk)
        /\ (n + Chunk - 1) % Chunk \in 0..Chunk - 1 /\ rounded \in Nat
    BY <1>1
  <2> QED BY <2>1, <1>1
<1> HIDE DEF rounded
<1>3. count \in Nat /\ count >= 1 /\ count >= rounded
  BY <1>2, MaxOfTwo
<1>4. packets = [k \in 1..count |-> SubSeq(ships, (k - 1) * Chunk + 1, last(k))]
  BY DEF Packets, rounded
<1> HIDE DEF count, packets
<1>5. ASSUME NEW k \in 1..count
      PROVE  /\ last(k) \in Nat /\ last(k) <= k * Chunk /\ last(k) <= n
             /\ last(k) = k * Chunk \/ last(k) = n
             /\ k * Chunk \in Nat /\ (k - 1) * Chunk \in Nat
             /\ k * Chunk = (k - 1) * Chunk + Chunk
  <2>1. k \in Nat /\ k >= 1 /\ k * Chunk \in Nat /\ (k - 1) * Chunk \in Nat
        /\ k * Chunk = (k - 1) * Chunk + Chunk
    BY <1>1, <1>3
  <2> QED BY <2>1, <1>1, MinOfTwo
<1> HIDE DEF last
<1>6. ASSUME NEW k \in 1..count
      PROVE  LET from == (k - 1) * Chunk
             IN  /\ DOMAIN packets[k] = 1..last(k) - from
                 /\ \A i \in 1..last(k) - from : packets[k][i] = ships[from + i]
  <2> DEFINE from == (k - 1) * Chunk
  <2>1. from \in Nat /\ last(k) \in Nat /\ last(k) <= n
    BY <1>5
  <2>2. packets[k] = SubSeq(ships, from + 1, last(k))
    BY <1>4
  <2> HIDE DEF from
  <2>3. /\ DOMAIN packets[k] = 1..last(k) - from
        /\ \A i \in 1..last(k) - from : packets[k][i] = ships[from + i]
    BY <2>1, <2>2, <1>1
  <2> QED BY <2>3 DEF from
<1>7. DOMAIN packets = 1..count
  BY <1>4
<1>8. ASSUME NEW k \in 1..count
      PROVE  /\ DOMAIN packets[k] \subseteq 1..n
             /\ \A i \in DOMAIN packets[k] : \E j \in 1..n : packets[k][i] = ships[j]
  <2> DEFINE from == (k - 1) * Chunk
  <2>1. from \in Nat /\ last(k) \in Nat /\ last(k) <= n
    BY <1>5
  <2>2. /\ DOMAIN packets[k] = 1..last(k) - from
        /\ \A i \in 1..last(k) - from : packets[k][i] = ships[from + i]
    BY <1>6
  <2> HIDE DEF from, n
  <2>3. \A i \in 1..last(k) - from : i \in 1..n /\ from + i \in 1..n
    BY <2>1, <1>1
  <2> QED BY <2>2, <2>3
<1>9. ASSUME NEW j \in 1..n
      PROVE  \E k \in 1..count : \E i \in DOMAIN packets[k] : packets[k][i] = ships[j]
  <2> DEFINE k == (j - 1) \div Chunk + 1
             from == (k - 1) * Chunk
  <2>1. j - 1 = Chunk * ((j - 1) \div Chunk) + ((j - 1) % Chunk)
        /\ (j - 1) % Chunk \in 0..Chunk - 1 /\ (j - 1) \div Chunk \in Nat
    BY <1>1
  <2>2. k \in Nat /\ k >= 1 /\ from \in Nat /\ j >= from + 1 /\ j <= from + Chunk
    BY <2>1, <1>1
  <2>3. k <= rounded
    <3> SUFFICES ASSUME k - 1 >= rounded PROVE FALSE
      BY <2>2, <1>2
    <3>1. (k - 1) * Chunk >= rounded * Chunk
      BY <1>1, <1>2, <2>2
    <3> QED BY <3>1, <1>1, <1>2, <2>2
  <2>4. k \in 1..count
    BY <2>2, <2>3, <1>2, <1>3
  <2> HIDE DEF k
  <2>5. /\ last(k) \in Nat /\ last(k) <= k * Chunk /\ last(k) <= n
        /\ last(k) = k * Chunk \/ last(k) = n
        /\ k * Chunk = from + Chunk
    BY <2>4, <1>5
  <2>6. /\ DOMAIN packets[k] = 1..last(k) - from
        /\ \A i \in 1..last(k) - from : packets[k][i] = ships[from + i]
    BY <2>4, <1>6
  <2> HIDE DEF from, n
  <2>7. j - from \in 1..last(k) - from /\ from + (j - from) = j
    BY <2>2, <2>5, <1>1
  <2>8. j - from \in DOMAIN packets[k] /\ packets[k][j - from] = ships[j]
    BY <2>6, <2>7
  <2> QED BY <2>4, <2>8
<1>10. DOMAIN packets \subseteq Nat /\ \A k \in DOMAIN packets : k <= count
  BY <1>3, <1>7
<1> HIDE DEF n
<1> QED BY <1>3, <1>7, <1>8, <1>9, <1>10 DEF packets, n

\* The ships of a player as the client shows them.
ShownShips(ships) ==
    [i \in 1..Len(ships) |-> [template |-> ships[i].template, skin |-> ships[i].skin]]

LEMMA DockShowsShips ==
    ASSUME NEW ships, Numbered(ships)
    PROVE  Dock(Packets(ships)) = ShownShips(ships)
<1> DEFINE packets == Packets(ships)
           ids == UNION {Ids(packets[k]) : k \in DOMAIN packets}
           Of(id) == {k \in DOMAIN packets : id \in Ids(packets[k])}
           At(id, k) == {i \in DOMAIN packets[k] : packets[k][i].id = id}
<1>1. /\ ships \in Seq(Ship) /\ \A j \in 1..Len(ships) : ships[j].id = j
      /\ Len(ships) \in Nat
  BY DEF Numbered
<1>2. PICK b \in Nat : \A k \in DOMAIN packets : k <= b
  BY <1>1, PacketsCover
<1>3. DOMAIN packets \subseteq Nat
  BY <1>1, PacketsCover
<1>4. \A k \in DOMAIN packets :
         /\ DOMAIN packets[k] \subseteq 1..Len(ships)
         /\ \A i \in DOMAIN packets[k] : \E j \in 1..Len(ships) : packets[k][i] = ships[j]
  BY <1>1, PacketsCover
<1>5. \A j \in 1..Len(ships) :
         \E k \in DOMAIN packets : \E i \in DOMAIN packets[k] : packets[k][i] = ships[j]
  BY <1>1, PacketsCover
<1> HIDE DEF packets
<1>6. \A k \in DOMAIN packets : \A i \in DOMAIN packets[k] :
         packets[k][i].id \in 1..Len(ships) /\ packets[k][i] = ships[packets[k][i].id]
  BY <1>1, <1>4
<1>7. ids = 1..Len(ships)
  <2>1. ids \subseteq 1..Len(ships)
    BY <1>6 DEF Ids
  <2>2. ASSUME NEW j \in 1..Len(ships) PROVE j \in ids
    <3>1. PICK k \in DOMAIN packets : \E i \in DOMAIN packets[k] : packets[k][i] = ships[j]
      BY <1>5
    <3>2. j \in Ids(packets[k])
      BY <1>1, <3>1 DEF Ids
    <3> QED BY <3>1, <3>2
  <2> QED BY <2>1, <2>2
<1>8. ASSUME NEW id \in 1..Len(ships)
      PROVE  LET k == Max(Of(id))
                 i == Max(At(id, k))
             IN  packets[k][i] = ships[id]
  <2> DEFINE k == Max(Of(id))
             i == Max(At(id, k))
  <2>1. Of(id) # {}
    BY <1>7
  <2>2. k \in Of(id)
    <3>1. Of(id) \subseteq Nat /\ \A x \in Of(id) : x <= b
      BY <1>2, <1>3
    <3> HIDE DEF Of
    <3> QED BY <1>2, <2>1, <3>1, MaxExists
  <2> HIDE DEF k
  <2>3. k \in DOMAIN packets /\ id \in Ids(packets[k])
    BY <2>2
  <2>4. At(id, k) # {} /\ At(id, k) \subseteq 1..Len(ships)
    BY <2>3, <1>4 DEF Ids
  <2>5. i \in At(id, k)
    <3>1. At(id, k) \subseteq Nat /\ \A x \in At(id, k) : x <= Len(ships)
      BY <1>1, <2>4
    <3> HIDE DEF At
    <3> QED BY <1>1, <2>4, <3>1, MaxExists
  <2> HIDE DEF i
  <2>6. packets[k][i] = ships[id]
    BY <1>6, <2>3, <2>5
  <2> QED BY <2>6 DEF k, i
<1> HIDE DEF ids
<1>9. Dock(packets) = [id \in ids |->
         LET k == Max(Of(id))
             i == Max(At(id, k))
         IN  [template |-> packets[k][i].template, skin |-> packets[k][i].skin]]
  BY Zenon DEF Dock, ids
<1> HIDE DEF Of, At
<1> QED BY <1>7, <1>8, <1>9 DEF ShownShips, packets

-----------------------------------------------------------------------------
(* Nothing is changed without being saved *)

Fields == {"uid", "ships", "skins", "character", "room", "stories", "resources"}

IsPlayer(p) == p = [f \in Fields |-> p[f]]

\* The client is told to create a player only while there is none, and nothing
\* else it does in between touches what init adds to.
Inv ==
    /\ IsPlayer(player) /\ IsPlayer(row)
    /\ session = "new" => player.uid = 0
    /\ RowIsAccount /\ CreatedOnce

LEMMA InitInv == Init => Inv
<1> SUFFICES ASSUME Init PROVE Inv
  OBVIOUS
<1>1. /\ IsPlayer(DefaultPlayer) /\ IsPlayer(OldPlayer)
      /\ DefaultPlayer.resources = DefaultPlayer.uid /\ OldPlayer.resources = OldPlayer.uid
  BY DEF DefaultPlayer, OldPlayer, Fields, IsPlayer
<1> QED BY <1>1 DEF Init, Inv, RowIsAccount, CreatedOnce

\* What every handler has in common: a player that was changed is saved.
LEMMA FinishKeeps ==
    ASSUME Inv, NEW new, NEW dirty \in BOOLEAN, NEW next, NEW shown,
           Finish(new, dirty, next, shown),
           IsPlayer(new), new.resources = new.uid,
           dirty \/ new = player,
           next = "new" => new.uid = 0
    PROVE  Inv'
BY DEF Finish, Inv, RowIsAccount, CreatedOnce

\* A handler sets one field, which is neither the uid nor the resources.
LEMMA SetField ==
    ASSUME NEW p, IsPlayer(p), NEW f \in Fields \ {"uid", "resources"}, NEW x
    PROVE  LET new == [p EXCEPT ![f] = x]
           IN  /\ IsPlayer(new) /\ new.uid = p.uid /\ new.resources = p.resources
               /\ new[f] = x /\ \A g \in Fields \ {f} : new[g] = p[g]
               /\ x = p[f] => new = p
<1> DEFINE new == [p EXCEPT ![f] = x]
<1>1. new = [g \in Fields |-> IF g = f THEN x ELSE p[g]]
  BY DEF IsPlayer
<1>2. /\ IsPlayer(new) /\ new.uid = p.uid /\ new.resources = p.resources
      /\ new[f] = x /\ \A g \in Fields \ {f} : new[g] = p[g]
  BY <1>1 DEF IsPlayer, Fields
<1>3. x = p[f] => new = p
  BY <1>1 DEF IsPlayer
<1> QED BY <1>2, <1>3

LEMMA InvStep == Inv /\ [Next]_vars => Inv'
<1> SUFFICES ASSUME Inv, [Next]_vars PROVE Inv'
  OBVIOUS
<1>0. IsPlayer(player) /\ player.resources = player.uid
  BY DEF Inv, CreatedOnce
<1> USE <1>0
<1>1. CASE Login
  BY <1>1, FinishKeeps DEF Login
<1>2. ASSUME NEW starter \in Starter, Create(starter) PROVE Inv'
  <2> DEFINE new == InitPlayer(player, starter)
  <2>1. player.uid = 0 /\ player.resources = 0
    BY <1>2 DEF Create, Inv
  <2>2. PICK ships, character :
            new = [player EXCEPT !.uid = 1, !.room = 1, !.stories = 0, !.ships = ships,
                       !.character = character, !.resources = player.resources + 1]
    BY Zenon DEF InitPlayer
  <2>3. IsPlayer(new) /\ new.uid = 1 /\ new.resources = 1
    <3>1. IsPlayer([player EXCEPT !.uid = 1, !.room = 1, !.stories = 0, !.ships = ships,
                       !.character = character, !.resources = 1])
      BY DEF IsPlayer, Fields
    <3>2. DOMAIN player = Fields
      BY DEF IsPlayer
    <3> QED BY <2>1, <2>2, <3>1, <3>2 DEF Fields
  <2> HIDE DEF new
  <2> QED BY <1>2, <2>3, FinishKeeps DEF Create, new
<1>3. CASE Load
  <2>1. PICK shown : Finish(player, FALSE, "playing", shown)
    BY <1>3 DEF Load
  <2> QED BY <2>1, FinishKeeps DEF Inv
<1>4. ASSUME NEW f \in Fields \ {"uid", "resources"}, NEW x, NEW dirty \in BOOLEAN, NEW shown,
             Finish([player EXCEPT ![f] = x], dirty, "playing", shown),
             dirty \/ x = player[f]
      PROVE  Inv'
  <2> DEFINE new == [player EXCEPT ![f] = x]
  <2>1. IsPlayer(new) /\ new.resources = new.uid /\ (dirty \/ new = player)
    BY <1>4, SetField
  <2> HIDE DEF new
  <2> QED BY <2>1, <1>4, FinishKeeps DEF new
<1>5. CASE ChatShip
  <2>1. PICK ships : Finish([player EXCEPT !.ships = ships], TRUE, "playing",
                            [view EXCEPT !.dock = Dock(Packets(ships))])
    BY <1>5 DEF ChatShip
  <2> QED BY <2>1, <1>4 DEF Fields
<1>6. CASE ChatSkin
  BY <1>6, <1>4 DEF ChatSkin, Fields
<1>7. ASSUME NEW id, NEW skin, ChangeSkin(id, skin) PROVE Inv'
  <2>1. PICK ships : Finish([player EXCEPT !.ships = ships], TRUE, "playing",
                            [view EXCEPT !.dock[id].skin = skin])
    BY <1>7 DEF ChangeSkin
  <2> QED BY <2>1, <1>4 DEF Fields
<1>8. ASSUME NEW ids, SetCharacter(ids) PROVE Inv'
  BY <1>8, <1>4 DEF SetCharacter, Fields
<1>9. ASSUME NEW asked, EnterRoom(asked) PROVE Inv'
  <2>1. PICK room : Finish([player EXCEPT !.room = room], player.room # room, "playing",
                           [view EXCEPT !.room = room])
    BY <1>9 DEF EnterRoom
  <2> QED BY <2>1, <1>4 DEF Fields
<1>10. CASE PushStory
  BY <1>10, <1>4 DEF PushStory, Fields
<1>11. CASE Restart
  BY <1>11 DEF Restart, Inv, RowIsAccount, CreatedOnce
<1>12. CASE UNCHANGED vars
  BY <1>12 DEF vars, Inv, RowIsAccount, CreatedOnce
<1> QED
  BY <1>1, <1>2, <1>3, <1>5, <1>6, <1>7, <1>8, <1>9, <1>10, <1>11, <1>12 DEF Next

LEMMA Invariance == Spec => []Inv
BY InitInv, InvStep, PTL DEF Spec

\* Whatever the client does and however answers and saves get lost, the row is
\* behind the player only while the last save failed: no handler changes a
\* player without saving it.
THEOREM NothingUnsaved == Spec => []RowIsAccount
<1>1. Inv => RowIsAccount
  BY DEF Inv
<1> QED BY <1>1, Invariance, PTL

\* init runs once in a player's life, whatever is lost on the way.
THEOREM OneCreation == Spec => []CreatedOnce
<1>1. Inv => CreatedOnce
  BY DEF Inv
<1> QED BY <1>1, Invariance, PTL

-----------------------------------------------------------------------------
(* What is in a player and what the client shows of it *)

Sound(p) ==
    /\ IsPlayer(p) /\ PlayerType(p)
    /\ Numbered(p.ships)
    /\ p.uid # 0 => p.character # {} /\ p.character \subseteq Ids(p.ships)

Shown(p) ==
    [dock |-> ShownShips(p.ships), skins |-> ShownSkins(p.skins),
     character |-> p.character, room |-> p.room]

\* Who is told to load the player has one, and who plays shows it.
Played ==
    /\ Sound(player) /\ Sound(row)
    /\ session \in {"offline", "new", "loading", "playing"}
    /\ session \in {"loading", "playing"} => player.uid # 0
    /\ view = IF session = "playing" THEN Shown(player) ELSE NoView

Commands ==
    /\ lost \in BOOLEAN /\ granted \in BOOLEAN /\ skinned \in BOOLEAN
    /\ granted => Maxed \cap Complete \subseteq Owned(player.ships)
    /\ SkinsUnlocked

Contents == Played /\ Commands

LEMMA InitContents == Init => Contents
<1> SUFFICES ASSUME Init PROVE Contents
  OBVIOUS
<1>1. Sound(DefaultPlayer)
  <2>1. IsPlayer(DefaultPlayer)
    BY DEF DefaultPlayer, IsPlayer, Fields
  <2>3. PlayerType(DefaultPlayer)
    BY TablesAssumption DEF DefaultPlayer, PlayerType
  <2>2. Numbered(DefaultPlayer.ships) /\ DefaultPlayer.uid = 0
    BY DEF DefaultPlayer, Numbered
  <2> QED BY <2>1, <2>2, <2>3 DEF Sound
<1>2. Sound(OldPlayer)
  <2> DEFINE ship == [id |-> 1, template |-> Second, skin |-> NoSkin]
  <2>1. /\ IsPlayer(OldPlayer) /\ OldPlayer.uid = 1 /\ OldPlayer.ships = <<ship>>
        /\ OldPlayer.skins = [s \in Skin |-> IF Group[s] = Group[Second] THEN 2 ELSE 0]
        /\ OldPlayer.character = {1} /\ OldPlayer.room = 1
        /\ OldPlayer.stories = 0 /\ OldPlayer.resources = 1
    BY DEF OldPlayer, DefaultPlayer, IsPlayer, Fields
  <2>2. ship \in Ship /\ ship.id = 1
    BY TablesAssumption DEF Ship
  <2> HIDE DEF ship
  <2>3. PlayerType(OldPlayer)
    BY <2>1, <2>2, TablesAssumption DEF PlayerType
  <2>4. Numbered(OldPlayer.ships) /\ OldPlayer.character = {1} /\ Len(OldPlayer.ships) = 1
    BY <2>1, <2>2 DEF Numbered
  <2>5. Ids(OldPlayer.ships) = 1..1
    BY <2>4, NumberedIds
  <2> QED BY <2>1, <2>3, <2>4, <2>5 DEF Sound
<1> QED BY <1>1, <1>2 DEF Init, Contents, Played, Commands, SkinsUnlocked

\* What every handler has in common: the client shows the new player, or its
\* connection is over.
LEMMA FinishShows ==
    ASSUME Played, lost \in BOOLEAN,
           NEW new, Sound(new), NEW dirty, NEW next, NEW shown,
           Finish(new, dirty, next, shown),
           next \in {"new", "loading", "playing"},
           next \in {"loading", "playing"} => new.uid # 0,
           shown = IF next = "playing" THEN Shown(new) ELSE NoView
    PROVE  Played' /\ player' = new /\ lost' \in BOOLEAN
<1>1. player' = new /\ (row' = new \/ row' = row) /\ lost' \in BOOLEAN
  BY DEF Finish
<1>2. Sound(player)' /\ Sound(row)'
  BY <1>1 DEF Played
<1>3. \/ session' = next /\ view' = shown
      \/ session' = "offline" /\ view' = NoView
  BY DEF Finish
<1> QED BY <1>1, <1>2, <1>3 DEF Played

LEMMA InitPlayerSound ==
    ASSUME NEW p, Sound(p), NEW starter
    PROVE  Sound(InitPlayer(p, starter)) /\ InitPlayer(p, starter).uid = 1
<1> DEFINE first == AddShip(p.ships, starter)
           both == AddShip(first, Second)
           secretary == IF first = <<>> THEN 1 ELSE Last(first).id
           new == [p EXCEPT !.uid = 1, !.room = 1, !.stories = 0, !.ships = both,
                       !.character = {secretary}, !.resources = @ + 1]
<1>1. Numbered(p.ships) /\ IsPlayer(p) /\ PlayerType(p)
  BY DEF Sound
<1>2. Numbered(first)
  BY <1>1, AddShipEffect
<1>3. Numbered(both) /\ Len(both) = Len(first) + 1
  BY <1>2, AddShipEffect, TablesAssumption
<1>4. secretary \in 1..Len(both)
  <2>1. /\ Len(first) \in Nat /\ first \in Seq(Ship)
        /\ \A i \in 1..Len(first) : first[i].id = i
    BY <1>2 DEF Numbered
  <2> HIDE DEF first, both
  <2>2. CASE first = <<>>
    BY <2>1, <2>2, <1>3
  <2>3. CASE first # <<>>
    <3>1. Len(first) \in 1..Len(first)
      BY <2>1, <2>3
    <3>2. Last(first).id = Len(first)
      BY <2>1, <3>1 DEF Last
    <3> QED BY <2>1, <2>3, <3>1, <3>2, <1>3
  <2> QED BY <2>2, <2>3
<1>5. InitPlayer(p, starter) = new
  BY Zenon DEF InitPlayer
<1> HIDE DEF first, both, secretary
<1>6. /\ IsPlayer(new) /\ new.uid = 1 /\ new.room = 1 /\ new.stories = 0
      /\ new.ships = both /\ new.character = {secretary}
      /\ new.resources = p.resources + 1 /\ new.skins = p.skins
  BY <1>1 DEF IsPlayer, Fields
<1> HIDE DEF new
<1>7. Ids(both) = 1..Len(both) /\ Len(both) \in Nat /\ both \in Seq(Ship)
  BY <1>3, NumberedIds DEF Numbered
<1>8. secretary \in Nat
  BY <1>4, <1>7
<1>9. PlayerType(new)
  BY <1>1, <1>6, <1>7, <1>8, TablesAssumption DEF PlayerType
<1> QED BY <1>3, <1>4, <1>5, <1>6, <1>7, <1>9 DEF Sound

\* Steps that leave the player and the history of commands alone.
LEMMA CommandsKept ==
    ASSUME Commands, lost' \in BOOLEAN, player' = player, UNCHANGED <<granted, skinned>>
    PROVE  Commands'
BY DEF Commands, SkinsUnlocked

LEMMA LoginContents == Contents /\ Login => Contents'
<1> SUFFICES ASSUME Contents, Login PROVE Contents'
  OBVIOUS
<1>1. Sound(player) /\ lost \in BOOLEAN
  BY DEF Contents, Played, Commands
<1>2. Played' /\ player' = player /\ lost' \in BOOLEAN
  BY <1>1, FinishShows DEF Login, Contents
<1> QED BY <1>2, CommandsKept DEF Login, Contents

LEMMA CreateContents == ASSUME Contents, NEW starter, Create(starter) PROVE Contents'
<1> DEFINE new == InitPlayer(player, starter)
<1>1. Sound(new) /\ new.uid = 1 /\ lost \in BOOLEAN
  BY InitPlayerSound DEF Contents, Played, Commands
<1>2. Finish(new, TRUE, "loading", NoView)
  BY DEF Create
<1> HIDE DEF new
<1>3. Played' /\ lost' \in BOOLEAN
  <2>1. new.uid # 0 /\ Played
    BY <1>1 DEF Contents
  <2> QED BY <1>1, <1>2, <2>1, FinishShows
<1> QED BY <1>3 DEF Create, Contents, Commands, SkinsUnlocked

LEMMA LoadContents == Contents /\ Load => Contents'
<1> SUFFICES ASSUME Contents, Load PROVE Contents'
  OBVIOUS
<1>1. Sound(player) /\ lost \in BOOLEAN /\ Numbered(player.ships) /\ player.uid # 0
  BY DEF Contents, Played, Commands, Sound, Load
<1>2. Finish(player, FALSE, "playing", Shown(player))
  BY <1>1, DockShowsShips DEF Load, Shown
<1>3. Played' /\ player' = player /\ lost' \in BOOLEAN
  BY <1>1, <1>2, FinishShows DEF Contents
<1> QED BY <1>3, CommandsKept DEF Load, Contents

\* A handler of a playing client that sets one field.
LEMMA FieldShows ==
    ASSUME Contents, session = "playing",
           NEW f \in Fields \ {"uid", "resources"}, NEW x, NEW dirty, NEW shown,
           Finish([player EXCEPT ![f] = x], dirty, "playing", shown),
           Sound([player EXCEPT ![f] = x]), shown = Shown([player EXCEPT ![f] = x])
    PROVE  Played' /\ lost' \in BOOLEAN /\ player' = [player EXCEPT ![f] = x]
<1> DEFINE new == [player EXCEPT ![f] = x]
<1>1. IsPlayer(player) /\ player.uid # 0 /\ Played /\ lost \in BOOLEAN
  BY DEF Contents, Played, Commands, Sound
<1>2. new.uid # 0
  BY <1>1, SetField
<1> HIDE DEF new
<1> QED BY <1>1, <1>2, FinishShows DEF new

LEMMA ChatShipContents == Contents /\ ChatShip => Contents'
<1> SUFFICES ASSUME Contents, ChatShip PROVE Contents'
  OBVIOUS
<1>1. PICK ships \in GiveAllShips(player.ships) :
         /\ Finish([player EXCEPT !.ships = ships], TRUE, "playing",
               [view EXCEPT !.dock = Dock(Packets(ships))])
         /\ skinned' = (skinned /\ ships = player.ships)
  BY DEF ChatShip
<1> DEFINE new == [player EXCEPT !.ships = ships]
<1>2. /\ Sound(player) /\ session = "playing" /\ view = Shown(player) /\ granted' = TRUE
  BY DEF ChatShip, Contents, Played
<1>3. /\ Numbered(player.ships) /\ IsPlayer(player) /\ PlayerType(player)
  BY <1>2 DEF Sound
<1>4. /\ Numbered(ships)
      /\ Owned(ships) = Owned(player.ships) \cup (Maxed \cap Complete)
      /\ Len(ships) >= Len(player.ships)
  BY <1>3, GiveAllShipsEffect
<1>5. /\ IsPlayer(new) /\ new.ships = ships
      /\ \A g \in Fields \ {"ships"} : new[g] = player[g]
  BY <1>3 DEF IsPlayer, Fields
<1> HIDE DEF new
<1>6. Sound(new)
  <2>1. PlayerType(new)
    BY <1>3, <1>4, <1>5 DEF PlayerType, Numbered, Fields
  <2>2. Ids(player.ships) \subseteq Ids(ships)
    <3>1. /\ Ids(player.ships) = 1..Len(player.ships) /\ Len(player.ships) \in Nat
          /\ Ids(ships) = 1..Len(ships) /\ Len(ships) \in Nat
      BY <1>3, <1>4, NumberedIds
    <3> QED BY <1>4, <3>1
  <2> QED BY <1>2, <1>4, <1>5, <2>1, <2>2 DEF Sound, Fields
<1>7. [view EXCEPT !.dock = Dock(Packets(ships))] = Shown(new)
  BY <1>2, <1>4, <1>5, DockShowsShips DEF Shown, Fields
<1>8. Played' /\ lost' \in BOOLEAN /\ player' = new
  BY <1>1, <1>2, <1>6, <1>7, FieldShows DEF new, Fields
<1>9. Commands'
  <2>1. skinned \in BOOLEAN /\ (skinned => SkinsUnlocked)
    BY DEF Contents, Commands
  <2>2. skinned' \in BOOLEAN
    BY <1>1, <2>1
  <2>3. SkinsUnlocked'
    BY <1>1, <1>5, <1>8, <2>1 DEF SkinsUnlocked, Fields
  <2> QED BY <1>2, <1>4, <1>5, <1>8, <2>2, <2>3 DEF Commands
<1> QED BY <1>8, <1>9 DEF Contents

LEMMA ChatSkinContents == Contents /\ ChatSkin => Contents'
<1> SUFFICES ASSUME Contents, ChatSkin PROVE Contents'
  OBVIOUS
<1> DEFINE skins == GiveAllSkins(player.skins, player.ships)
           new == [player EXCEPT !.skins = skins]
<1>1. /\ Finish(new, TRUE, "playing", [view EXCEPT !.skins = ShownSkins(skins)])
      /\ skinned' = TRUE /\ granted' = granted /\ session = "playing"
  BY DEF ChatSkin
<1>2. Sound(player) /\ view = Shown(player) /\ player.uid # 0
  BY <1>1 DEF Contents, Played
<1>3. /\ IsPlayer(player) /\ PlayerType(player) /\ player.ships # <<>>
  BY <1>2 DEF Sound, Ids
<1>4. skins = [s \in Skin |->
         IF player.skins[s] > 0 \/ \E t \in Owned(player.ships) : Group[t] = Group[s] THEN 1 ELSE 0]
  BY <1>3 DEF GiveAllSkins
<1>5. /\ IsPlayer(new) /\ new.skins = skins
      /\ \A g \in Fields \ {"skins"} : new[g] = player[g]
  BY <1>3 DEF IsPlayer, Fields
<1> HIDE DEF skins, new
<1>6. Sound(new)
  <2>1. skins \in [Skin -> Nat]
    BY <1>4
  <2>2. PlayerType(new)
    BY <1>3, <1>5, <2>1 DEF PlayerType, Fields
  <2> QED BY <1>2, <1>5, <2>2 DEF Sound, Fields
<1>7. [view EXCEPT !.skins = ShownSkins(skins)] = Shown(new)
  BY <1>2, <1>5 DEF Shown, Fields
<1>8. Played' /\ lost' \in BOOLEAN /\ player' = new
  BY <1>1, <1>6, <1>7, FieldShows DEF new, Fields
<1>9. Commands'
  <2>1. \A s \in Skin : new.skins[s] <= 1
    BY <1>4, <1>5
  <2>2. \A s \in Skin, t \in Owned(new.ships) : Group[s] = Group[t] => new.skins[s] = 1
    BY <1>4, <1>5 DEF Fields
  <2>3. SkinsUnlocked'
    BY <1>8, <2>1, <2>2 DEF SkinsUnlocked
  <2> QED BY <1>1, <1>5, <1>8, <2>3 DEF Commands, Contents, Fields
<1> QED BY <1>8, <1>9 DEF Contents

\* A change of skin in a list of ships or in what the client shows.
Skinned(list, id, skin) == [list EXCEPT ![id].skin = skin]

LEMMA SkinEffect ==
    ASSUME NEW ships, Numbered(ships), NEW id \in 1..Len(ships), NEW skin \in Skin \cup {NoSkin}
    PROVE  LET new == Skinned(ships, id, skin)
           IN  /\ Numbered(new)
               /\ Owned(new) = Owned(ships) /\ Ids(new) = Ids(ships)
               /\ Skinned(ShownShips(ships), id, skin) = ShownShips(new)
<1> DEFINE changed == [ships[id] EXCEPT !.skin = skin]
           shown == ShownShips(ships)
           new == Skinned(ships, id, skin)
<1>1. /\ ships \in Seq(Ship) /\ Len(ships) \in Nat
      /\ DOMAIN ships = 1..Len(ships) /\ \A i \in 1..Len(ships) : ships[i].id = i
  BY DEF Numbered
<1>2. ships[id] \in Ship
  BY <1>1
<1>3. /\ changed \in Ship /\ changed.id = ships[id].id
      /\ changed.template = ships[id].template /\ changed.skin = skin
  BY <1>2 DEF Ship
<1>4. new = [ships EXCEPT ![id] = changed]
  BY DEF Skinned
<1> HIDE DEF changed, new
<1>5. /\ new \in Seq(Ship) /\ Len(new) = Len(ships) /\ DOMAIN new = 1..Len(ships)
      /\ \A i \in 1..Len(ships) : new[i] = IF i = id THEN changed ELSE ships[i]
  BY <1>1, <1>3, <1>4
<1>6. Numbered(new)
  BY <1>1, <1>3, <1>5 DEF Numbered
<1>7. \A i \in 1..Len(ships) :
         /\ new[i].id = ships[i].id /\ new[i].template = ships[i].template
         /\ new[i].skin = IF i = id THEN skin ELSE ships[i].skin
  BY <1>3, <1>5
<1>8. Owned(new) = Owned(ships) /\ Ids(new) = Ids(ships)
  BY SMTT(30), <1>1, <1>5, <1>7 DEF Owned, Ids
<1>9. Skinned(shown, id, skin) = ShownShips(new)
  <2> DEFINE other == [template |-> ships[id].template, skin |-> skin]
  <2>1. /\ shown = [i \in 1..Len(ships) |->
                [template |-> ships[i].template, skin |-> ships[i].skin]]
        /\ ShownShips(new) = [i \in 1..Len(ships) |->
                [template |-> new[i].template, skin |-> new[i].skin]]
    BY <1>5 DEF ShownShips
  <2>2. [shown[id] EXCEPT !.skin = skin] = other
    BY <2>1
  <2> HIDE DEF shown
  <2>3. Skinned(shown, id, skin) = [shown EXCEPT ![id] = other]
    BY <2>2 DEF Skinned
  <2>4. [shown EXCEPT ![id] = other] = [i \in 1..Len(ships) |-> IF i = id THEN other ELSE shown[i]]
    BY <2>1
  <2>5. \A i \in 1..Len(ships) : (IF i = id THEN other ELSE shown[i])
                                  = [template |-> new[i].template, skin |-> new[i].skin]
    BY <1>7, <2>1
  <2> QED BY ZenonT(40), <2>1, <2>3, <2>4, <2>5
<1> QED BY <1>6, <1>8, <1>9 DEF new

LEMMA ChangeSkinFinds ==
    ASSUME Contents, NEW id \in DOMAIN view.dock, NEW skin, ChangeSkin(id, skin)
    PROVE  /\ session = "playing" /\ UNCHANGED <<granted, skinned>>
           /\ Sound(player) /\ view = Shown(player)
           /\ id \in 1..Len(player.ships)
           /\ Finish([player EXCEPT !.ships = Skinned(player.ships, id, skin)], TRUE, "playing",
                  [view EXCEPT !.dock[id].skin = skin])
<1> DEFINE found == {i \in DOMAIN player.ships : player.ships[i].id = id}
<1>1. /\ session = "playing" /\ UNCHANGED <<granted, skinned>>
  BY DEF ChangeSkin
<1>2. Sound(player) /\ view = Shown(player)
  BY <1>1 DEF Contents, Played
<1>3. /\ Numbered(player.ships) /\ IsPlayer(player) /\ PlayerType(player)
      /\ player.ships \in Seq(Ship)
      /\ \A i \in 1..Len(player.ships) : player.ships[i].id = i
      /\ DOMAIN player.ships = 1..Len(player.ships) /\ Len(player.ships) \in Nat
  BY <1>2, NumberedIds DEF Sound, Numbered
<1>4. id \in 1..Len(player.ships)
  BY <1>2 DEF Shown, ShownShips
<1>5. found = {id} /\ Min(found) = id
  <2>1. found = {id}
    BY <1>3, <1>4
  <2>2. {id} \subseteq Nat /\ id \in {id} /\ \A x \in {id} : id <= x
    BY <1>3, <1>4
  <2>3. Min({id}) = id
    BY <2>2, MinIs
  <2> QED BY <2>1, <2>3
<1>6. Finish([player EXCEPT !.ships = Skinned(player.ships, id, skin)], TRUE, "playing", [view EXCEPT !.dock[id].skin = skin])
  BY <1>5 DEF ChangeSkin, Skinned
<1> QED BY <1>1, <1>2, <1>4, <1>6

LEMMA ChangeSkinContents ==
    ASSUME Contents, NEW id \in DOMAIN view.dock, NEW skin \in Skin \cup {NoSkin},
           ChangeSkin(id, skin)
    PROVE  Contents'
<1> DEFINE ships == Skinned(player.ships, id, skin)
           new == [player EXCEPT !.ships = ships]
<1>1. /\ session = "playing" /\ UNCHANGED <<granted, skinned>>
      /\ Sound(player) /\ view = Shown(player) /\ id \in 1..Len(player.ships)
      /\ Finish(new, TRUE, "playing", [view EXCEPT !.dock[id].skin = skin])
  BY ChangeSkinFinds
<1>3. Numbered(player.ships) /\ IsPlayer(player) /\ PlayerType(player)
  BY <1>1 DEF Sound
<1>7. /\ Numbered(ships)
      /\ Owned(ships) = Owned(player.ships) /\ Ids(ships) = Ids(player.ships)
      /\ Skinned(ShownShips(player.ships), id, skin) = ShownShips(ships)
  BY <1>1, <1>3, SkinEffect
<1> HIDE DEF ships
<1>10. /\ IsPlayer(new) /\ new.ships = ships
       /\ \A g \in Fields \ {"ships"} : new[g] = player[g]
  BY <1>3 DEF IsPlayer, Fields
<1>11. [view EXCEPT !.dock[id].skin = skin] = [view EXCEPT !.dock = ShownShips(ships)]
  <2>1. view.dock = ShownShips(player.ships)
    BY <1>1 DEF Shown
  <2> QED BY <1>7, <2>1 DEF Skinned
<1> HIDE DEF new
<1>12. Sound(new)
  <2>1. PlayerType(new)
    BY <1>3, <1>7, <1>10 DEF PlayerType, Numbered, Fields
  <2> QED BY <1>1, <1>7, <1>10, <2>1 DEF Sound, Fields
<1>13. [view EXCEPT !.dock[id].skin = skin] = Shown(new)
  BY <1>1, <1>10, <1>11 DEF Shown, Fields
<1>14. Played' /\ lost' \in BOOLEAN /\ player' = new
  BY <1>1, <1>12, <1>13, FieldShows DEF new, Fields
<1>15. Commands'
  BY <1>1, <1>7, <1>10, <1>14 DEF Commands, Contents, SkinsUnlocked, Fields
<1> QED BY <1>14, <1>15 DEF Contents

LEMMA SetCharacterContents ==
    ASSUME Contents, NEW ids \in SUBSET DOMAIN view.dock, SetCharacter(ids)
    PROVE  Contents'
<1> DEFINE new == [player EXCEPT !.character = ids]
<1>1. /\ session = "playing" /\ UNCHANGED <<granted, skinned>> /\ Cardinality(ids) # 0
      /\ Finish(new, TRUE, "playing", [view EXCEPT !.character = ids])
  <2>1. Cardinality(ids) \in 1..MaxCharacter
    BY DEF SetCharacter
  <2>2. Cardinality(ids) # 0
    BY <2>1, TablesAssumption
  <2>3. /\ session = "playing" /\ UNCHANGED <<granted, skinned>>
        /\ Finish(new, TRUE, "playing", [view EXCEPT !.character = ids])
    BY DEF SetCharacter
  <2> QED BY <2>2, <2>3
<1>2. Sound(player) /\ view = Shown(player)
  BY <1>1 DEF Contents, Played
<1>3. /\ Numbered(player.ships) /\ IsPlayer(player) /\ PlayerType(player)
      /\ Ids(player.ships) = 1..Len(player.ships)
  BY <1>2, NumberedIds DEF Sound
<1>4. ids # {} /\ ids \subseteq Ids(player.ships)
  <2>1. DOMAIN view.dock = 1..Len(player.ships)
    BY <1>2 DEF Shown, ShownShips
  <2>2. ids # {}
    BY <1>1, FS_EmptySet
  <2> QED BY <1>3, <2>1, <2>2
<1>5. /\ IsPlayer(new) /\ new.character = ids
      /\ \A g \in Fields \ {"character"} : new[g] = player[g]
  BY <1>3 DEF IsPlayer, Fields
<1> HIDE DEF new
<1>6. Sound(new)
  <2>1. PlayerType(new)
    BY <1>3, <1>4, <1>5 DEF PlayerType, Fields
  <2> QED BY <1>2, <1>4, <1>5, <2>1 DEF Sound, Fields
<1>7. [view EXCEPT !.character = ids] = Shown(new)
  BY <1>2, <1>5 DEF Shown, Fields
<1>8. Played' /\ lost' \in BOOLEAN /\ player' = new
  BY <1>1, <1>6, <1>7, FieldShows DEF new, Fields
<1> QED BY <1>1, <1>5, <1>8 DEF Commands, Contents, SkinsUnlocked, Fields

LEMMA EnterRoomContents == ASSUME Contents, NEW asked \in Room, EnterRoom(asked) PROVE Contents'
<1> DEFINE room == IF asked = 0 THEN 1 ELSE asked
           new == [player EXCEPT !.room = room]
<1>1. /\ session = "playing" /\ UNCHANGED <<granted, skinned>>
      /\ Finish(new, player.room # room, "playing", [view EXCEPT !.room = room])
  BY DEF EnterRoom
<1>2. Sound(player) /\ view = Shown(player)
  BY <1>1 DEF Contents, Played
<1>3. IsPlayer(player) /\ PlayerType(player) /\ room \in Room \cup {1}
  BY <1>2 DEF Sound
<1>4. /\ IsPlayer(new) /\ new.room = room
      /\ \A g \in Fields \ {"room"} : new[g] = player[g]
  BY <1>3 DEF IsPlayer, Fields
<1> HIDE DEF new, room
<1>5. Sound(new)
  <2>1. PlayerType(new)
    BY <1>3, <1>4 DEF PlayerType, Fields
  <2> QED BY <1>2, <1>4, <2>1 DEF Sound, Fields
<1>6. [view EXCEPT !.room = room] = Shown(new)
  BY <1>2, <1>4 DEF Shown, Fields
<1>7. Played' /\ lost' \in BOOLEAN /\ player' = new
  BY <1>1, <1>5, <1>6, FieldShows DEF new, Fields
<1> QED BY <1>1, <1>4, <1>7 DEF Commands, Contents, SkinsUnlocked, Fields

LEMMA PushStoryContents == Contents /\ PushStory => Contents'
<1> SUFFICES ASSUME Contents, PushStory PROVE Contents'
  OBVIOUS
<1> DEFINE stories == player.stories + 1
           new == [player EXCEPT !.stories = stories]
<1>1. /\ session = "playing" /\ UNCHANGED <<granted, skinned>>
      /\ player.stories < MaxStories /\ Finish(new, TRUE, "playing", view)
  BY DEF PushStory
<1>2. Sound(player) /\ view = Shown(player)
  BY <1>1 DEF Contents, Played
<1>3. IsPlayer(player) /\ PlayerType(player)
  BY <1>2 DEF Sound
<1>4. stories \in 0..MaxStories
  BY <1>1, <1>3, TablesAssumption DEF PlayerType
<1>5. /\ IsPlayer(new) /\ new.stories = stories
      /\ \A g \in Fields \ {"stories"} : new[g] = player[g]
  BY <1>3 DEF IsPlayer, Fields
<1> HIDE DEF new, stories
<1>6. Sound(new)
  <2>1. PlayerType(new)
    BY <1>3, <1>4, <1>5 DEF PlayerType, Fields
  <2> QED BY <1>2, <1>5, <2>1 DEF Sound, Fields
<1>7. view = Shown(new)
  BY <1>2, <1>5 DEF Shown, Fields
<1>8. Played' /\ lost' \in BOOLEAN /\ player' = new
  BY <1>1, <1>6, <1>7, FieldShows DEF new, Fields
<1> QED BY <1>1, <1>5, <1>8 DEF Commands, Contents, SkinsUnlocked, Fields

LEMMA ContentsStep == Contents /\ [Next]_vars => Contents'
<1> SUFFICES ASSUME Contents, [Next]_vars PROVE Contents'
  OBVIOUS
<1>1. CASE Login
  BY <1>1, LoginContents
<1>2. CASE \E starter \in Starter : Create(starter)
  BY <1>2, CreateContents
<1>3. CASE Load
  BY <1>3, LoadContents
<1>4. CASE ChatShip
  BY <1>4, ChatShipContents
<1>5. CASE ChatSkin
  BY <1>5, ChatSkinContents
<1>6. CASE \E id \in DOMAIN view.dock, skin \in Skin \cup {NoSkin} : ChangeSkin(id, skin)
  BY <1>6, ChangeSkinContents
<1>7. CASE \E ids \in SUBSET DOMAIN view.dock : SetCharacter(ids)
  BY <1>7, SetCharacterContents
<1>8. CASE \E asked \in Room : EnterRoom(asked)
  BY <1>8, EnterRoomContents
<1>9. CASE PushStory
  BY <1>9, PushStoryContents
<1>10. CASE Restart
  BY <1>10 DEF Restart, Contents, Played, Commands, SkinsUnlocked
<1>11. CASE UNCHANGED vars
  BY <1>11 DEF vars, Contents, Played, Commands, SkinsUnlocked
<1> QED
  BY <1>1, <1>2, <1>3, <1>4, <1>5, <1>6, <1>7, <1>8, <1>9, <1>10, <1>11 DEF Next

LEMMA ContentsInvariance == Spec => []Contents
BY InitContents, ContentsStep, PTL DEF Spec

\* The type invariant of PlayerInfo: every ship of a player is one of the
\* table, whatever first ship a client asked for.
THEOREM TypeCorrect == Spec => []TypeOK
<1>1. Contents => TypeOK
  <2> SUFFICES ASSUME Contents PROVE TypeOK
    OBVIOUS
  <2>1. PlayerType(player) /\ PlayerType(row)
    BY DEF Contents, Played, Sound
  <2>2. Len(player.ships) \in Nat
    BY NumberedIds DEF Contents, Played, Sound
  <2>3. view.skins \subseteq Skin /\ DOMAIN view.dock \subseteq Nat
    BY <2>2 DEF Contents, Played, Shown, ShownShips, ShownSkins, NoView
  <2> QED BY <2>1, <2>3 DEF TypeOK, Contents, Played, Commands
<1> QED BY <1>1, ContentsInvariance, PTL

\* The client shows what the server holds, ship by ship, for any number of
\* ships and any size of a packet.
THEOREM ViewAgrees == Spec => []ViewIsAccount
<1>1. Contents => ViewIsAccount
  <2> SUFFICES ASSUME Contents, session = "playing"
               PROVE  /\ Cardinality(DOMAIN view.dock) = Len(player.ships)
                      /\ \A i \in DOMAIN player.ships :
                            LET s == player.ships[i]
                            IN s.id \in DOMAIN view.dock
                                  /\ view.dock[s.id] = [template |-> s.template, skin |-> s.skin]
                      /\ view.skins = ShownSkins(player.skins)
                      /\ view.character = player.character /\ view.room = player.room
    BY DEF ViewIsAccount
  <2>1. view = Shown(player) /\ Numbered(player.ships)
    BY DEF Contents, Played, Sound
  <2>2. /\ Len(player.ships) \in Nat /\ DOMAIN player.ships = 1..Len(player.ships)
        /\ \A i \in 1..Len(player.ships) : player.ships[i].id = i
    BY <2>1, NumberedIds DEF Numbered
  <2>3. view.dock = ShownShips(player.ships)
    BY <2>1 DEF Shown
  <2>4. Cardinality(1..Len(player.ships)) = Len(player.ships)
    BY <2>2, FS_Interval
  <2> QED BY <2>1, <2>2, <2>3, <2>4 DEF Shown, ShownShips
<1> QED BY <1>1, ContentsInvariance, PTL

\* The secretaries are ships of the player, also when the first ship the client
\* asked for is in no table.
THEOREM SecretariesAreOwned == Spec => []SecretaryOwned
<1>1. Contents => SecretaryOwned
  BY DEF Contents, Played, Sound, SecretaryOwned
<1> QED BY <1>1, ContentsInvariance, PTL

\* The skin command unlocks the skins of all ships, once each, and they stay so
\* until another ship is added.
THEOREM SkinsStayUnlocked == Spec => []SkinsUnlocked
<1>1. Contents => SkinsUnlocked
  BY DEF Contents, Commands
<1> QED BY <1>1, ContentsInvariance, PTL

\* The ship command given again adds nothing, in whatever order the table is
\* met and though some of its templates can never be added.
THEOREM ShipsOnce == Spec => ShipsGrantedOnce
<1>1. Contents /\ [Next]_vars /\ granted /\ granted' =>
         /\ Len(player'.ships) = Len(player.ships)
         /\ Owned(player'.ships) = Owned(player.ships)
  <2> SUFFICES ASSUME Contents, [Next]_vars, granted, granted'
               PROVE  /\ Len(player'.ships) = Len(player.ships)
                      /\ Owned(player'.ships) = Owned(player.ships)
    OBVIOUS
  <2>1. /\ Sound(player) /\ IsPlayer(player) /\ Numbered(player.ships)
        /\ Maxed \cap Complete \subseteq Owned(player.ships)
    BY DEF Contents, Played, Commands, Sound
  <2>2. ASSUME player'.ships = player.ships
        PROVE  /\ Len(player'.ships) = Len(player.ships)
               /\ Owned(player'.ships) = Owned(player.ships)
    BY <2>2
  <2>3. CASE Login \/ Load
    BY <2>2, <2>3 DEF Login, Load, Finish
  <2>4. CASE \E starter \in Starter : Create(starter)
    BY <2>4 DEF Create
  <2>5. CASE ChatShip
    <3>1. PICK ships \in GiveAllShips(player.ships) : player' = [player EXCEPT !.ships = ships]
      BY <2>5 DEF ChatShip, Finish
    <3>2. ships = player.ships
      BY <2>1, <3>1, GiveAllShipsEffect
    <3> QED BY <2>1, <2>2, <3>1, <3>2 DEF IsPlayer, Fields
  <2>6. CASE ChatSkin
    <3>1. PICK skins : player' = [player EXCEPT !.skins = skins]
      BY <2>6 DEF ChatSkin, Finish
    <3> QED BY <2>1, <2>2, <3>1 DEF IsPlayer, Fields
  <2>7. ASSUME NEW id \in DOMAIN view.dock, NEW skin \in Skin \cup {NoSkin}, ChangeSkin(id, skin)
        PROVE  /\ Len(player'.ships) = Len(player.ships)
               /\ Owned(player'.ships) = Owned(player.ships)
    <3> DEFINE ships == Skinned(player.ships, id, skin)
    <3>1. id \in 1..Len(player.ships) /\ player' = [player EXCEPT !.ships = ships]
      BY <2>7, ChangeSkinFinds DEF Finish
    <3>2. Owned(ships) = Owned(player.ships) /\ Ids(ships) = Ids(player.ships) /\ Numbered(ships)
      BY <2>1, <3>1, SkinEffect
    <3> HIDE DEF ships
    <3>3. /\ Ids(player.ships) = 1..Len(player.ships) /\ Len(player.ships) \in Nat
          /\ Ids(ships) = 1..Len(ships) /\ Len(ships) \in Nat
      BY <2>1, <3>2, NumberedIds
    <3>4. Len(ships) = Len(player.ships)
      BY <3>2, <3>3
    <3>5. player'.ships = ships
      BY <2>1, <3>1 DEF IsPlayer, Fields
    <3> QED BY <3>2, <3>4, <3>5
  <2>8. CASE \E ids \in SUBSET DOMAIN view.dock : SetCharacter(ids)
    <3>1. PICK ids : player' = [player EXCEPT !.character = ids]
      BY <2>8 DEF SetCharacter, Finish
    <3> QED BY <2>1, <2>2, <3>1 DEF IsPlayer, Fields
  <2>9. CASE \E asked \in Room : EnterRoom(asked)
    <3>1. PICK room : player' = [player EXCEPT !.room = room]
      BY <2>9 DEF EnterRoom, Finish
    <3> QED BY <2>1, <2>2, <3>1 DEF IsPlayer, Fields
  <2>10. CASE PushStory
    <3>1. PICK stories : player' = [player EXCEPT !.stories = stories]
      BY <2>10 DEF PushStory, Finish
    <3> QED BY <2>1, <2>2, <3>1 DEF IsPlayer, Fields
  <2>11. CASE Restart
    BY <2>11 DEF Restart
  <2>12. CASE UNCHANGED vars
    BY <2>2, <2>12 DEF vars
  <2> QED
    BY <2>3, <2>4, <2>5, <2>6, <2>7, <2>8, <2>9, <2>10, <2>11, <2>12 DEF Next
<1> QED BY <1>1, ContentsInvariance, PTL DEF Spec, ShipsGrantedOnce

====
