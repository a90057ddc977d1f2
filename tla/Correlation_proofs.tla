-------------------------- MODULE Correlation_proofs --------------------------
(***************************************************************************)
(* Proofs about the two modules of blutruth/correlation: the groups of     *)
(* CorrelationEngine, for any devices, sources, window and lookback, any   *)
(* number of events and of failed passes; and the matches of RuleEngine,   *)
(* for any rules, devices, cap and timeouts, any number of events.         *)
(***************************************************************************)
EXTENDS CorrelationEngine, RuleEngine, FiniteSetTheorems, SequenceTheorems, TLAPS


-----------------------------------------------------------------------------
\* What can be said of a finite set that is put in order: an element's place is
\* the number of those before it, below[x].

LEMMA PlacesAscend ==
    ASSUME NEW S, IsFiniteSet(S), NEW below \in [S -> SUBSET S],
           \A x \in S : x \notin below[x],
           \A x, y, z \in S : x \in below[y] /\ y \in below[z] => x \in below[z],
           NEW x \in S, NEW y \in S, x \in below[y]
    PROVE  Cardinality(below[x]) < Cardinality(below[y])
<1>1. below[x] \in SUBSET below[y] /\ below[x] # below[y]
  OBVIOUS
<1>2. IsFiniteSet(below[y]) /\ IsFiniteSet(below[x])
  BY FS_Subset
<1>3. /\ Cardinality(below[x]) <= Cardinality(below[y])
      /\ Cardinality(below[y]) = Cardinality(below[x]) => below[y] = below[x]
  BY <1>1, <1>2, FS_Subset
<1>4. Cardinality(below[x]) \in Nat /\ Cardinality(below[y]) \in Nat
  BY <1>2, FS_CardinalityType
<1>5. QED BY <1>1, <1>3, <1>4

LEMMA EveryPlaceIsTaken ==
    ASSUME NEW S, IsFiniteSet(S), NEW below \in [S -> SUBSET S],
           \A x \in S : x \notin below[x],
           \A x, y, z \in S : x \in below[y] /\ y \in below[z] => x \in below[z],
           \A x, y \in S : x # y => x \in below[y] \/ y \in below[x]
    PROVE  /\ Cardinality(S) \in Nat
           /\ \A x \in S : Cardinality(below[x]) \in 0 .. Cardinality(S) - 1
           /\ \A x, y \in S :
                 x \in below[y] <=> Cardinality(below[x]) < Cardinality(below[y])
           /\ \A i \in 0 .. Cardinality(S) - 1 :
                 \E x \in S : Cardinality(below[x]) = i
<1> DEFINE n == Cardinality(S)
           place == [x \in S |-> Cardinality(below[x])]
<1>1. n \in Nat
  BY FS_CardinalityType
<1>2. ASSUME NEW x \in S  PROVE place[x] \in 0 .. n - 1
  <2>1. below[x] \in SUBSET S /\ below[x] # S
    OBVIOUS
  <2>2. IsFiniteSet(below[x]) /\ Cardinality(below[x]) <= n /\ Cardinality(below[x]) # n
    BY <2>1, FS_Subset
  <2>3. Cardinality(below[x]) \in Nat
    BY <2>2, FS_CardinalityType
  <2>4. QED BY <2>2, <2>3, <1>1
<1>3. ASSUME NEW x \in S, NEW y \in S, x \in below[y]  PROVE place[x] < place[y]
  BY <1>3, PlacesAscend
<1>4. ASSUME NEW x \in S, NEW y \in S  PROVE x \in below[y] <=> place[x] < place[y]
  <2>1. place[x] \in Int /\ place[y] \in Int
    BY <1>1, <1>2
  <2>2. CASE x = y
    BY <2>1, <2>2
  <2>3. CASE x # y /\ x \notin below[y]
    BY <2>1, <2>3, <1>3
  <2>4. QED BY <2>2, <2>3, <1>3
<1>5. place \in Injection(S, 0 .. n - 1)
  <2>1. place \in [S -> 0 .. n - 1]
    BY <1>2
  <2>2. ASSUME NEW x \in S, NEW y \in S, place[x] = place[y]  PROVE x = y
    <3>1. place[x] \in Int /\ place[y] \in Int
      BY <1>1, <1>2
    <3>2. QED BY <3>1, <2>2, <1>4
  <2>3. QED BY <2>1, <2>2 DEF Injection, IsInjective
<1>6. IsFiniteSet(0 .. n - 1) /\ Cardinality(0 .. n - 1) = n
  <2>1. 0 \in Int /\ n - 1 \in Int
    BY <1>1
  <2>2. IsFiniteSet(0 .. n - 1) /\ Cardinality(0 .. n - 1) = IF 0 > n - 1 THEN 0 ELSE n - 1 - 0 + 1
    BY <2>1, FS_Interval
  <2>3. QED BY <2>2, <1>1
<1>7. place \in Surjection(S, 0 .. n - 1)
  BY <1>5, <1>6, FS_Injection
<1>8. \A i \in 0 .. n - 1 : \E x \in S : place[x] = i
  BY <1>7 DEF Surjection
<1>9. QED BY <1>1, <1>2, <1>4, <1>8

\* A finite set that is not empty has a first and a last element.
LEMMA EndsExist ==
    ASSUME NEW S, IsFiniteSet(S), S # {}, NEW below \in [S -> SUBSET S],
           \A x \in S : x \notin below[x],
           \A x, y, z \in S : x \in below[y] /\ y \in below[z] => x \in below[z],
           \A x, y \in S : x # y => x \in below[y] \/ y \in below[x]
    PROVE  /\ \E x \in S : \A y \in S \ {x} : x \in below[y]
           /\ \E x \in S : \A y \in S \ {x} : y \in below[x]
<1> DEFINE n == Cardinality(S)
           place(x) == Cardinality(below[x])
<1>1. /\ n \in Nat
      /\ \A x \in S : place(x) \in 0 .. n - 1
      /\ \A x, y \in S : x \in below[y] <=> place(x) < place(y)
      /\ \A i \in 0 .. n - 1 : \E x \in S : place(x) = i
  BY EveryPlaceIsTaken
<1>2. n # 0
  BY FS_EmptySet
<1> HIDE DEF n, place
<1>3. 0 \in 0 .. n - 1 /\ n - 1 \in 0 .. n - 1
  BY <1>1, <1>2
<1>4. PICK x \in S : place(x) = 0
  BY <1>1, <1>3
<1>5. PICK z \in S : place(z) = n - 1
  BY <1>1, <1>3
<1>6. ASSUME NEW y \in S \ {x}  PROVE x \in below[y]
  <2>1. y \notin below[x]
    BY <1>1, <1>4
  <2>2. QED BY <2>1
<1>7. ASSUME NEW y \in S \ {z}  PROVE y \in below[z]
  <2>1. z \notin below[y]
    BY <1>1, <1>5
  <2>2. QED BY <2>1
<1>8. QED BY <1>6, <1>7

-----------------------------------------------------------------------------
\* The order of the query, for any table whose rows have their type.

LEMMA BeforeIsAnOrder ==
    ASSUME rows \in Seq(Row)
    PROVE  /\ \A a \in DOMAIN rows : rows[a] \in Row /\ rows[a].at \in 0 .. MaxTime
           /\ \A a \in DOMAIN rows : ~Before(a, a)
           /\ \A a, b, c \in DOMAIN rows : Before(a, b) /\ Before(b, c) => Before(a, c)
           /\ \A a, b \in DOMAIN rows : a # b => Before(a, b) \/ Before(b, a)
           /\ \A a, b \in DOMAIN rows : Before(a, b) => ~Before(b, a)
           /\ \A a, b \in DOMAIN rows : Before(a, b) => rows[a].at <= rows[b].at
<1>1. MaxTime \in Nat
  BY CorrelationAssumption
<1>2. \A a \in DOMAIN rows : rows[a] \in Row /\ rows[a].at \in 0 .. MaxTime
  <2>1. \A a \in DOMAIN rows : rows[a] \in Row
    OBVIOUS
  <2>2. \A r \in Row : r.at \in 0 .. MaxTime
    BY DEF Row
  <2>3. QED BY <2>1, <2>2
<1>3. \A a \in DOMAIN rows : a \in Nat /\ rows[a].at \in Int
  BY <1>1, <1>2
<1>4. QED BY <1>2, <1>3 DEF Before

LEMMA IdsAreFinite ==
    ASSUME rows \in Seq(Row), NEW ids \in SUBSET DOMAIN rows
    PROVE  IsFiniteSet(ids)
<1>1. DOMAIN rows = 1 .. Len(rows) /\ 1 \in Int /\ Len(rows) \in Int
  OBVIOUS
<1>2. IsFiniteSet(1 .. Len(rows))
  BY <1>1, FS_Interval
<1>3. QED BY <1>1, <1>2, FS_Subset

LEMMA FirstIs ==
    ASSUME rows \in Seq(Row), NEW ids \in SUBSET DOMAIN rows, NEW a \in ids,
           \A b \in ids \ {a} : Before(a, b)
    PROVE  First(ids) = a
<1>1. \A x \in ids : (\A b \in ids \ {x} : Before(x, b)) => x = a
  BY BeforeIsAnOrder
<1>2. First(ids) \in ids /\ \A b \in ids \ {First(ids)} : Before(First(ids), b)
  BY DEF First
<1>3. QED BY <1>1, <1>2

\* First and Latest are what their names say.
LEMMA IdsHaveEnds ==
    ASSUME rows \in Seq(Row), NEW ids \in SUBSET DOMAIN rows, ids # {}
    PROVE  /\ First(ids) \in ids /\ \A b \in ids \ {First(ids)} : Before(First(ids), b)
           /\ Latest(ids) \in ids /\ \A b \in ids \ {Latest(ids)} : Before(b, Latest(ids))
<1> DEFINE below == [x \in ids |-> {y \in ids : Before(y, x)}]
<1>1. /\ \A x \in ids : ~Before(x, x)
      /\ \A x, y, z \in ids : Before(x, y) /\ Before(y, z) => Before(x, z)
      /\ \A x, y \in ids : x # y => Before(x, y) \/ Before(y, x)
  BY BeforeIsAnOrder
<1>2. \A x, y \in ids : x \in below[y] <=> Before(x, y)
  OBVIOUS
<1>3. below \in [ids -> SUBSET ids]
  OBVIOUS
<1> HIDE DEF below
<1>4. /\ \E x \in ids : \A y \in ids \ {x} : x \in below[y]
      /\ \E x \in ids : \A y \in ids \ {x} : y \in below[x]
  <2>1. /\ \A x \in ids : x \notin below[x]
        /\ \A x, y, z \in ids : x \in below[y] /\ y \in below[z] => x \in below[z]
        /\ \A x, y \in ids : x # y => x \in below[y] \/ y \in below[x]
    BY <1>1, <1>2
  <2>2. IsFiniteSet(ids)
    BY IdsAreFinite
  <2>3. QED BY <2>1, <2>2, <1>3, EndsExist
<1>5. \E x \in ids : \A y \in ids \ {x} : Before(x, y)
  BY <1>2, <1>4
<1>6. \E x \in ids : \A y \in ids \ {x} : Before(y, x)
  BY <1>2, <1>4
<1>7. First(ids) \in ids /\ \A b \in ids \ {First(ids)} : Before(First(ids), b)
  BY <1>5 DEF First
<1>8. Latest(ids) \in ids /\ \A b \in ids \ {Latest(ids)} : Before(b, Latest(ids))
  BY <1>6 DEF Latest
<1>9. QED BY <1>7, <1>8

-----------------------------------------------------------------------------
\* The clusters of a pass.

\* A cluster is of one device, begins with its first event and goes on with events
\* that are each within a window of an earlier one.
LEMMA ClusterIsAChain ==
    ASSUME rows \in Seq(Row), NEW ids \in SUBSET DOMAIN rows,
           NEW id \in ids, Begins(ids, id), NEW c, c = ClusterFrom(ids, id)
    PROVE  /\ id \in c /\ c \in SUBSET ids
           /\ First(c) = id
           /\ \A e \in c : rows[e].dev = rows[id].dev
           /\ \A e \in c \ {id} : /\ Before(id, e)
                                  /\ \E d \in c : /\ Before(d, e)
                                                  /\ rows[e].at - rows[d].at <= Window
<1> USE CorrelationAssumption
<1>1. id \in c /\ c \in SUBSET ids
  BY BeforeIsAnOrder DEF ClusterFrom, ByDevice
<1>2. \A e \in c : rows[e].dev = rows[id].dev
  BY DEF ClusterFrom, ByDevice
<1>3. \A e \in c \ {id} : Before(id, e)
  BY DEF ClusterFrom
<1>4. First(c) = id
  BY <1>1, <1>3, FirstIs
<1>5. ASSUME NEW e \in c \ {id}
      PROVE  \E d \in c : Before(d, e) /\ rows[e].at - rows[d].at <= Window
  <2>1. ~Begins(ids, e)
    BY <1>1, <1>2, <1>3 DEF ClusterFrom, ByDevice
  <2>2. PICK d \in ids : /\ rows[d].dev = rows[e].dev /\ Before(d, e)
                         /\ ~(rows[e].at - rows[d].at > Window)
    BY <2>1 DEF Begins, ByDevice
  <2>3. rows[d].at \in Int /\ rows[e].at \in Int /\ rows[id].at \in Int /\ Window \in Int
    BY <1>1, BeforeIsAnOrder
  <2>4. ~Before(d, id)
    <3>1. SUFFICES ASSUME Before(d, id)  PROVE FALSE
      OBVIOUS
    <3>2. rows[id].at - rows[d].at > Window
      BY <3>1, <2>2, <1>2 DEF Begins, ByDevice
    <3>3. rows[id].at <= rows[e].at
      BY <1>1, <1>3, BeforeIsAnOrder
    <3>4. rows[e].at - rows[d].at > Window
      BY <3>2, <3>3, <2>3, SMTT(60)
    <3>5. QED BY <3>4, <2>2
  <2>5. d = id \/ Before(id, d)
    BY <2>4, BeforeIsAnOrder
  <2>6. ASSUME NEW b \in ByDevice(ids, id) \ {id}, Begins(ids, b), Before(id, b)
        PROVE  Before(d, b) /\ d # b
    <3>1. Before(e, b) /\ e # b
      BY <2>6 DEF ClusterFrom
    <3>2. b \in ids /\ e \in ids
      BY <1>1 DEF ByDevice
    <3>3. QED BY <3>1, <3>2, <2>2, BeforeIsAnOrder
  <2>7. d \in c
    BY <2>2, <2>5, <2>6, <1>2 DEF ClusterFrom, ByDevice
  <2>8. QED BY <2>2, <2>3, <2>7
<1>6. QED BY <1>1, <1>2, <1>3, <1>4, <1>5

\* A cluster that is grouped is the one that its first event begins.
LEMMA ClustersBegin ==
    ASSUME rows \in Seq(Row), NEW ids \in SUBSET DOMAIN rows, NEW c \in ClusterEvents(ids)
    PROVE  /\ First(c) \in ids /\ Begins(ids, First(c))
           /\ c = ClusterFrom(ids, First(c))
           /\ First(c) \in c /\ c \in SUBSET ids
           /\ First(ByDevice(ids, First(c))) \in DOMAIN rows
<1>1. PICK id \in ids : Begins(ids, id) /\ c = ClusterFrom(ids, id)
  BY DEF ClusterEvents
<1>2. First(c) = id /\ id \in c /\ c \in SUBSET ids
  BY <1>1, ClusterIsAChain
<1>3. First(ByDevice(ids, id)) \in ByDevice(ids, id)
  <2>1. id \in ByDevice(ids, id) /\ ByDevice(ids, id) \in SUBSET DOMAIN rows
    BY DEF ByDevice
  <2>2. QED BY <2>1, IdsHaveEnds
<1>4. First(ByDevice(ids, id)) \in DOMAIN rows
  BY <1>3 DEF ByDevice
<1>5. QED BY <1>1, <1>2, <1>4

\* The clusters are in a total order, ...
LEMMA EarlierIsAnOrder ==
    ASSUME rows \in Seq(Row), NEW ids \in SUBSET DOMAIN rows
    PROVE  /\ \A c \in ClusterEvents(ids) : ~EarlierCluster(ids, c, c)
           /\ \A b, c, d \in ClusterEvents(ids) :
                 EarlierCluster(ids, b, c) /\ EarlierCluster(ids, c, d)
                    => EarlierCluster(ids, b, d)
           /\ \A c, d \in ClusterEvents(ids) :
                 c # d => EarlierCluster(ids, c, d) \/ EarlierCluster(ids, d, c)
<1> DEFINE device(c) == First(ByDevice(ids, First(c)))
<1>1. \A c, d \in ClusterEvents(ids) :
         EarlierCluster(ids, c, d)
            <=> \/ Before(device(c), device(d))
                \/ device(c) = device(d) /\ Before(First(c), First(d))
  BY DEF EarlierCluster
<1>2. \A c \in ClusterEvents(ids) : device(c) \in DOMAIN rows /\ First(c) \in DOMAIN rows
  BY ClustersBegin
<1>3. \A c, d \in ClusterEvents(ids) : First(c) = First(d) => c = d
  BY ClustersBegin
<1> HIDE DEF device
<1>4. QED BY <1>1, <1>2, <1>3, BeforeIsAnOrder

LEMMA ClustersAreFinite ==
    ASSUME rows \in Seq(Row), NEW ids \in SUBSET DOMAIN rows
    PROVE  IsFiniteSet(ClusterEvents(ids))
<1>1. IsFiniteSet(SUBSET ids)
  BY IdsAreFinite, FS_SUBSET
<1>2. ClusterEvents(ids) \in SUBSET SUBSET ids
  BY ClustersBegin
<1>3. QED BY <1>1, <1>2, FS_Subset

\* ... so that no two of them get the same group id, and none gets one that is taken.
LEMMA GroupsDiffer ==
    ASSUME rows \in Seq(Row), NEW ids \in SUBSET DOMAIN rows, nextGroup \in Nat
    PROVE  /\ \A c \in ClusterEvents(ids) : GroupOf(ids, c) \in Nat /\ GroupOf(ids, c) >= nextGroup
           /\ \E m \in Nat : \A c \in ClusterEvents(ids) : GroupOf(ids, c) <= m
           /\ \A c, d \in ClusterEvents(ids) : GroupOf(ids, c) = GroupOf(ids, d) => c = d
<1> DEFINE all == ClusterEvents(ids)
           below == [c \in all |-> {d \in all : EarlierCluster(ids, d, c)}]
<1>1. /\ \A x \in all : ~EarlierCluster(ids, x, x)
      /\ \A x, y, z \in all : EarlierCluster(ids, x, y) /\ EarlierCluster(ids, y, z)
                                => EarlierCluster(ids, x, z)
      /\ \A x, y \in all : x # y => EarlierCluster(ids, x, y) \/ EarlierCluster(ids, y, x)
  BY EarlierIsAnOrder
<1>2. \A x, y \in all : x \in below[y] <=> EarlierCluster(ids, x, y)
  OBVIOUS
<1>3. below \in [all -> SUBSET all]
  OBVIOUS
<1>4. \A c \in all : GroupOf(ids, c) = nextGroup + Cardinality(below[c])
  BY DEF GroupOf
<1>5. IsFiniteSet(all)
  BY ClustersAreFinite
<1> HIDE DEF below, all
<1>6. /\ Cardinality(all) \in Nat
      /\ \A x \in all : Cardinality(below[x]) \in 0 .. Cardinality(all) - 1
      /\ \A x, y \in all :
            x \in below[y] <=> Cardinality(below[x]) < Cardinality(below[y])
  <2>1. /\ \A x \in all : x \notin below[x]
        /\ \A x, y, z \in all : x \in below[y] /\ y \in below[z] => x \in below[z]
        /\ \A x, y \in all : x # y => x \in below[y] \/ y \in below[x]
    BY <1>1, <1>2
  <2>2. QED BY <2>1, <1>3, <1>5, EveryPlaceIsTaken
<1>7. \A c \in all : GroupOf(ids, c) \in Nat /\ GroupOf(ids, c) >= nextGroup
                     /\ GroupOf(ids, c) <= nextGroup + Cardinality(all)
  BY <1>4, <1>6
<1>8. ASSUME NEW c \in all, NEW d \in all, GroupOf(ids, c) = GroupOf(ids, d)
      PROVE  c = d
  <2>1. Cardinality(below[c]) = Cardinality(below[d])
    BY <1>4, <1>6, <1>8
  <2>2. ~EarlierCluster(ids, c, d) /\ ~EarlierCluster(ids, d, c)
    BY <2>1, <1>2, <1>6
  <2>3. QED BY <2>2, <1>1
<1>9. nextGroup + Cardinality(all) \in Nat
  BY <1>6
<1>10. QED BY <1>7, <1>8, <1>9 DEF all

-----------------------------------------------------------------------------
\* The updates of a pass.

\* The links that a table of these rows can have.
RowLinks == [event : DOMAIN rows, group : Nat \ {0}, role : {"PRIMARY", "CORRELATED"}]

LEMMA UpdateIs ==
    ASSUME NEW id, NEW g, NEW role
    PROVE  /\ Update(id, g, role).event = id
           /\ Update(id, g, role).group = g
           /\ Update(id, g, role).role = role
BY DEF Update

\* An update is of an event of a cluster.
LEMMA UpdateOfCluster ==
    ASSUME rows \in Seq(Row), NEW ids \in SUBSET DOMAIN rows, nextGroup \in Nat \ {0},
           NEW u \in AllUpdates(ids)
    PROVE  /\ u \in RowLinks /\ u.group >= nextGroup
           /\ \E c \in ClusterEvents(ids) :
                 /\ u.event \in c /\ u.group = GroupOf(ids, c)
                 /\ u.role = IF u.event = First(c) THEN "PRIMARY" ELSE "CORRELATED"
<1>0. PICK c \in ClusterEvents(ids) : u \in UpdatesOf(ids, c)
  BY DEF AllUpdates
<1>1. PICK e \in c :
         u = Update(e, GroupOf(ids, c), IF e = First(c) THEN "PRIMARY" ELSE "CORRELATED")
  BY <1>0 DEF UpdatesOf
<1>2. /\ u.event = e /\ u.group = GroupOf(ids, c)
      /\ u.role = IF e = First(c) THEN "PRIMARY" ELSE "CORRELATED"
  BY <1>1, UpdateIs
<1>3. e \in DOMAIN rows /\ GroupOf(ids, c) \in Nat /\ GroupOf(ids, c) >= nextGroup
  BY ClustersBegin, GroupsDiffer
<1>4. u \in RowLinks
  <2>1. GroupOf(ids, c) \in Nat \ {0}
    BY <1>3
  <2>2. QED BY <1>1, <1>3, <2>1 DEF RowLinks, Update
<1>5. QED BY <1>2, <1>3, <1>4

LEMMA ClusterHasUpdates ==
    ASSUME NEW ids, NEW c \in ClusterEvents(ids), NEW e \in c
    PROVE  \E u \in AllUpdates(ids) :
              /\ u.event = e /\ u.group = GroupOf(ids, c)
              /\ u.role = IF e = First(c) THEN "PRIMARY" ELSE "CORRELATED"
<1> DEFINE u == Update(e, GroupOf(ids, c), IF e = First(c) THEN "PRIMARY" ELSE "CORRELATED")
<1>1. u \in AllUpdates(ids)
  BY DEF AllUpdates, UpdatesOf
<1>2. QED BY <1>1, UpdateIs

\* The same event in the same group is the same update.
LEMMA UpdatesAreTold ==
    ASSUME rows \in Seq(Row), NEW ids \in SUBSET DOMAIN rows, nextGroup \in Nat \ {0},
           NEW u \in AllUpdates(ids), NEW v \in AllUpdates(ids),
           u.event = v.event, u.group = v.group
    PROVE  u = v
<1>1. u.role = v.role
  BY UpdateOfCluster, GroupsDiffer
<1>2. u \in RowLinks /\ v \in RowLinks
  BY UpdateOfCluster
<1>3. QED BY <1>1, <1>2 DEF RowLinks

LEMMA UpdatesAreFinite ==
    ASSUME rows \in Seq(Row), NEW ids \in SUBSET DOMAIN rows, nextGroup \in Nat \ {0}
    PROVE  IsFiniteSet(AllUpdates(ids))
<1>1. PICK m \in Nat : \A c \in ClusterEvents(ids) : GroupOf(ids, c) <= m
  BY GroupsDiffer
<1> DEFINE D == DOMAIN rows
           G == 0 .. m
           T == D \X G
           f == [u \in AllUpdates(ids) |-> <<u.event, u.group>>]
<1>2. IsFiniteSet(T)
  <2>1. IsFiniteSet(DOMAIN rows)
    BY IdsAreFinite
  <2>2. 0 \in Int /\ m \in Int
    OBVIOUS
  <2>3. IsFiniteSet(0 .. m)
    BY <2>2, FS_Interval
  <2> HIDE DEF D, G
  <2>4. IsFiniteSet(D) /\ IsFiniteSet(G)
    BY <2>1, <2>3 DEF D, G
  <2>5. QED BY <2>4, FS_Product
<1>3. f \in Injection(AllUpdates(ids), T)
  <2>1. ASSUME NEW u \in AllUpdates(ids)  PROVE u.event \in D /\ u.group \in G
    <3>1. u \in RowLinks /\ u.group <= m
      BY <1>1, UpdateOfCluster
    <3>2. u.event \in DOMAIN rows /\ u.group \in Nat
      BY <3>1 DEF RowLinks
    <3>3. QED BY <3>1, <3>2
  <2> HIDE DEF D, G
  <2>2. f \in [AllUpdates(ids) -> T]
    BY <2>1
  <2>3. ASSUME NEW u \in AllUpdates(ids), NEW v \in AllUpdates(ids), f[u] = f[v]  PROVE u = v
    BY <2>3, UpdatesAreTold
  <2>4. QED BY <2>2, <2>3 DEF Injection, IsInjective
<1> HIDE DEF f, T
<1>4. QED BY <1>2, <1>3, FS_Injection

\* The updates of a pass are all there are, group by group, each in the order of the query.
LEMMA UpdatesAscend ==
    ASSUME rows \in Seq(Row), NEW ids \in SUBSET DOMAIN rows, nextGroup \in Nat \ {0}
    PROVE  /\ Updates(ids) \in Seq(RowLinks)
           /\ \A i \in 1 .. Len(Updates(ids)) : Updates(ids)[i] \in AllUpdates(ids)
           /\ \A u \in AllUpdates(ids) : \E i \in 1 .. Len(Updates(ids)) : Updates(ids)[i] = u
           /\ \A i, j \in 1 .. Len(Updates(ids)) :
                 i < j => Sooner(Updates(ids)[i], Updates(ids)[j])
<1> DEFINE all == AllUpdates(ids)
           n == Cardinality(all)
           below == [u \in all |-> {v \in all : Sooner(v, u)}]
           s == [i \in 1 .. n |->
                    CHOOSE u \in all : Cardinality({v \in all : Sooner(v, u)}) = i - 1]
<1>1. /\ \A u \in all : u.event \in DOMAIN rows /\ u.group \in Nat
      /\ \A u \in all : u \in RowLinks
  BY UpdateOfCluster DEF RowLinks
<1>2. /\ \A u \in all : ~Sooner(u, u)
      /\ \A u, v, w \in all : Sooner(u, v) /\ Sooner(v, w) => Sooner(u, w)
      /\ \A u, v \in all : u # v => Sooner(u, v) \/ Sooner(v, u)
  <2>1. ASSUME NEW u \in all  PROVE ~Sooner(u, u)
    BY <1>1, BeforeIsAnOrder DEF Sooner
  <2>2. ASSUME NEW u \in all, NEW v \in all, NEW w \in all, Sooner(u, v), Sooner(v, w)
        PROVE  Sooner(u, w)
    BY <1>1, <2>2, BeforeIsAnOrder DEF Sooner
  <2>3. ASSUME NEW u \in all, NEW v \in all, u # v  PROVE Sooner(u, v) \/ Sooner(v, u)
    <3>1. u.group = v.group => u.event # v.event
      BY <2>3, UpdatesAreTold
    <3>2. QED BY <3>1, <1>1, BeforeIsAnOrder DEF Sooner
  <2>4. QED BY <2>1, <2>2, <2>3
<1>3. /\ \A u, v \in all : u \in below[v] <=> Sooner(u, v)
      /\ \A u \in all : below[u] = {v \in all : Sooner(v, u)}
  OBVIOUS
<1>4. below \in [all -> SUBSET all]
  OBVIOUS
<1>5. IsFiniteSet(all)
  BY UpdatesAreFinite
<1>6. Updates(ids) = s
  BY DEF Updates
<1> HIDE DEF below, all
<1>7. /\ n \in Nat
      /\ \A u \in all : Cardinality(below[u]) \in 0 .. n - 1
      /\ \A u, v \in all : u \in below[v] <=> Cardinality(below[u]) < Cardinality(below[v])
      /\ \A i \in 0 .. n - 1 : \E u \in all : Cardinality(below[u]) = i
  <2>1. /\ \A x \in all : x \notin below[x]
        /\ \A x, y, z \in all : x \in below[y] /\ y \in below[z] => x \in below[z]
        /\ \A x, y \in all : x # y => x \in below[y] \/ y \in below[x]
    BY <1>2, <1>3
  <2>2. QED BY <2>1, <1>4, <1>5, EveryPlaceIsTaken
<1> HIDE DEF n
<1>8. ASSUME NEW i \in 1 .. n  PROVE s[i] \in all /\ Cardinality(below[s[i]]) = i - 1
  <2>1. i - 1 \in 0 .. n - 1
    BY <1>7
  <2>2. \E u \in all : Cardinality(below[u]) = i - 1
    BY <2>1, <1>7
  <2>3. \E u \in all : Cardinality({v \in all : Sooner(v, u)}) = i - 1
    BY <2>2, <1>3
  <2>4. s[i] \in all /\ Cardinality({v \in all : Sooner(v, s[i])}) = i - 1
    BY <2>3
  <2>5. QED BY <2>4, <1>3
<1>9. s \in Seq(all) /\ Len(s) = n
  <2>1. s \in [1 .. n -> all]
    BY <1>8
  <2>2. n \in Nat
    BY <1>7
  <2> HIDE DEF s
  <2>3. QED BY <2>1, <2>2
<1> HIDE DEF s
<1>10. ASSUME NEW u \in all  PROVE \E i \in 1 .. n : s[i] = u
  <2>1. Cardinality(below[u]) \in 0 .. n - 1
    BY <1>7
  <2>2. PICK i \in 1 .. n : i - 1 = Cardinality(below[u])
    <3> DEFINE k == Cardinality(below[u])
    <3>1. k \in 0 .. n - 1 /\ n \in Nat
      BY <2>1, <1>7
    <3> HIDE DEF k
    <3>2. k + 1 \in 1 .. n /\ (k + 1) - 1 = k
      BY <3>1
    <3>3. \E i \in 1 .. n : i - 1 = k
      BY <3>2
    <3>4. QED BY <3>3 DEF k
  <2>3. s[i] \in all /\ Cardinality(below[s[i]]) = Cardinality(below[u])
    BY <1>8, <2>2
  <2>4. ~Sooner(s[i], u) /\ ~Sooner(u, s[i])
    BY <2>1, <2>3, <1>3, <1>7
  <2>5. s[i] = u
    BY <2>3, <2>4, <1>2
  <2>6. QED BY <2>5
<1>11. ASSUME NEW i \in 1 .. n, NEW j \in 1 .. n, i < j  PROVE Sooner(s[i], s[j])
  <2>1. Cardinality(below[s[i]]) < Cardinality(below[s[j]])
    BY <1>7, <1>8, <1>11
  <2>2. QED BY <2>1, <1>3, <1>7, <1>8
<1>12. s \in Seq(RowLinks)
  BY <1>1, <1>9
<1>13. QED BY <1>6, <1>8, <1>9, <1>10, <1>11, <1>12 DEF all

-----------------------------------------------------------------------------
\* Types, with those of what TypeOK leaves out.
Event == [dev : Devices, source : Sources, at : 0 .. MaxTime, since : 0 .. MaxTime]
Pass == [at : {"sleep"}, until : Nat]
        \cup [at : {"query"}, from : Int, to : 0 .. MaxTime]
        \cup [at : {"update"}, to : 0 .. MaxTime, todo : Seq(Link),
              newest : 0 .. MaxTime, rows : Nat]
Types ==
    /\ now \in 0 .. MaxTime /\ dbOpen \in BOOLEAN
    /\ waiting \in Seq(Event) /\ Len(rows) + Len(waiting) <= MaxEvents
    /\ rows \in Seq(Row) /\ group \in [DOMAIN rows -> Nat]
    /\ links \in SUBSET Link /\ torn \in SUBSET Link
    /\ durable \in [group : [DOMAIN rows -> Nat], links : SUBSET Link]
    /\ pass \in Pass
    /\ nextGroup \in Nat \ {0} /\ watermark \in 0 .. MaxTime
    /\ covered \in [rows : Nat, since : Int, until : 0 .. MaxTime]
    /\ faults \in Seq({"failure", "restart", "roll"})

LEMMA TypesAreOK == Types => TypeOK
<1> SUFFICES ASSUME Types  PROVE TypeOK
  OBVIOUS
<1>1. pass.at \in {"sleep", "query", "update"} /\ (pass.at = "update" => pass.todo \in Seq(Link))
  BY DEF Types, Pass
<1>2. QED BY <1>1 DEF Types, TypeOK

LEMMA TypesInit == Init => Types
<1> SUFFICES ASSUME Init  PROVE Types
  OBVIOUS
<1>1. /\ MaxTime \in Nat /\ MaxEvents \in Nat /\ BatchInterval \in Nat
      /\ 0 \in 0 .. MaxTime
  BY CorrelationAssumption
<1>2. pass \in Pass
  BY <1>1 DEF Init, Asleep, Pass
<1>3. /\ <<>> \in Seq(Event) /\ <<>> \in Seq(Row)
      /\ <<>> \in Seq({"failure", "restart", "roll"})
      /\ Len(<<>>) = 0 /\ DOMAIN <<>> = {} /\ <<>> \in [{} -> Nat]
  OBVIOUS
<1>4. group \in [DOMAIN rows -> Nat]
  BY DEF Init
<1>5. covered \in [rows : Nat, since : Int, until : 0 .. MaxTime]
  BY <1>1 DEF Init, Nothing
<1>6. durable \in [group : [DOMAIN rows -> Nat], links : SUBSET Link]
  BY <1>4 DEF Init, Seen
<1>7. QED BY <1>1, <1>2, <1>3, <1>4, <1>5, <1>6 DEF Init, Types

\* What the first n of those that wait add to the table.
LEMMA StoredType ==
    ASSUME Types, NEW n \in 0 .. Len(waiting)
    PROVE  /\ rows \o Stored(n) \in Seq(Row)
           /\ Len(rows \o Stored(n)) = Len(rows) + n
           /\ \A a \in DOMAIN rows : (rows \o Stored(n))[a] = rows[a]
           /\ \A i \in 1 .. n : /\ (rows \o Stored(n))[Len(rows) + i].at = waiting[i].at
                                /\ waiting[i] \in Event
           /\ group \o [i \in 1 .. n |-> 0] \in [1 .. Len(rows) + n -> Nat]
           /\ \A a \in DOMAIN rows : (group \o [i \in 1 .. n |-> 0])[a] = group[a]
           /\ \A a \in 1 .. Len(rows) + n :
                 a \notin DOMAIN rows => (group \o [i \in 1 .. n |-> 0])[a] = 0
<1> DEFINE z == [i \in 1 .. n |-> 0]
<1>1. /\ rows \in Seq(Row) /\ waiting \in Seq(Event) /\ n \in Nat /\ n <= Len(waiting)
      /\ group \in [DOMAIN rows -> Nat] /\ Len(rows) \in Nat /\ DOMAIN rows = 1 .. Len(rows)
  BY DEF Types
<1>2. \A i \in 1 .. n : /\ waiting[i] \in Event
                        /\ Stored(n)[i] \in Row /\ Stored(n)[i].at = waiting[i].at
  <2> SUFFICES ASSUME NEW i \in 1 .. n
               PROVE  /\ waiting[i] \in Event
                      /\ Stored(n)[i] \in Row /\ Stored(n)[i].at = waiting[i].at
    OBVIOUS
  <2>1. waiting[i] \in Event
    BY <1>1
  <2>2. /\ waiting[i].dev \in Devices /\ waiting[i].source \in Sources
        /\ waiting[i].at \in 0 .. MaxTime
    BY <2>1 DEF Event
  <2>3. Stored(n)[i] = [dev |-> waiting[i].dev, at |-> waiting[i].at,
                        source |-> waiting[i].source]
    BY DEF Stored
  <2>4. QED BY <2>1, <2>2, <2>3 DEF Row
<1>3. Stored(n) \in Seq(Row) /\ Len(Stored(n)) = n
  <2>1. Stored(n) \in [1 .. n -> Row]
    BY <1>2 DEF Stored
  <2>2. QED BY <2>1, <1>1
<1>4. group \in Seq(Nat) /\ Len(group) = Len(rows)
  BY <1>1
<1>5. z \in Seq(Nat) /\ Len(z) = n /\ \A i \in 1 .. n : z[i] = 0
  BY <1>1
<1> HIDE DEF z
<1>6. /\ rows \o Stored(n) \in Seq(Row)
      /\ Len(rows \o Stored(n)) = Len(rows) + n
      /\ \A a \in DOMAIN rows : (rows \o Stored(n))[a] = rows[a]
      /\ \A i \in 1 .. n : (rows \o Stored(n))[Len(rows) + i] = Stored(n)[i]
  BY <1>1, <1>3
<1> DEFINE k == Len(rows)
<1>7. /\ group \o z \in Seq(Nat) /\ Len(group \o z) = k + n
      /\ \A a \in 1 .. k : (group \o z)[a] = group[a]
      /\ \A a \in 1 .. k + n : a > k => (group \o z)[a] = z[a - k]
  <2>1. k \in Nat /\ n \in Nat /\ Len(group) = k /\ group \in Seq(Nat)
    BY <1>1, <1>4
  <2> HIDE DEF k
  <2>2. QED BY <2>1, <1>5
<1>8. group \o z \in [1 .. k + n -> Nat]
  <2> DEFINE q == group \o z
             m == k + n
  <2>1. q \in Seq(Nat) /\ Len(q) = m
    BY <1>7
  <2> HIDE DEF q, m
  <2>2. q \in [1 .. m -> Nat]
    BY <2>1
  <2>3. QED BY <2>2 DEF q, m
<1>9. \A a \in 1 .. Len(rows) + n : a \notin DOMAIN rows => (group \o z)[a] = 0
  BY <1>1, <1>5, <1>7
<1>10. QED BY <1>1, <1>2, <1>6, <1>7, <1>8, <1>9 DEF z

LEMMA RestType ==
    ASSUME Types, NEW n \in 1 .. Len(waiting)
    PROVE  /\ SubSeq(waiting, n + 1, Len(waiting)) \in Seq(Event)
           /\ Len(SubSeq(waiting, n + 1, Len(waiting))) = Len(waiting) - n
           /\ \A j \in 1 .. Len(waiting) - n :
                 /\ SubSeq(waiting, n + 1, Len(waiting))[j] = waiting[n + j]
                 /\ n + j \in DOMAIN waiting
BY DEF Types

\* A pass that has its rows has its updates, too.
LEMMA FoundType ==
    ASSUME Types, NEW ids \in SUBSET DOMAIN rows, ids # {}
    PROVE  /\ Updates(ids) \in Seq(Link)
           /\ Latest(ids) \in ids /\ rows[Latest(ids)].at \in 0 .. MaxTime
<1>1. /\ rows \in Seq(Row) /\ nextGroup \in Nat \ {0}
      /\ Len(rows) + Len(waiting) <= MaxEvents /\ Len(waiting) \in Nat /\ Len(rows) \in Nat
      /\ DOMAIN rows = 1 .. Len(rows)
  BY DEF Types
<1>2. MaxEvents \in Nat
  BY CorrelationAssumption
<1>3. \A a \in DOMAIN rows : a \in 1 .. MaxEvents
  BY <1>1, <1>2
<1>4. RowLinks \subseteq Link
  BY <1>3 DEF RowLinks, Link
<1>5. Updates(ids) \in Seq(RowLinks)
  BY <1>1, UpdatesAscend
<1>6. Updates(ids) \in Seq(Link)
  BY <1>4, <1>5
<1>7. QED BY <1>1, <1>6, IdsHaveEnds, BeforeIsAnOrder

\* The one update that is made, and those that are left.
LEMMA HeadOfTodo ==
    ASSUME Types, pass.at = "update", pass.todo # <<>>
    PROVE  /\ pass.todo \in Seq(Link) /\ Head(pass.todo) = pass.todo[1]
           /\ 1 \in DOMAIN pass.todo /\ pass.todo[1] \in Link
           /\ Tail(pass.todo) \in Seq(Link)
           /\ DOMAIN pass.todo = 1 .. Len(pass.todo) /\ Len(pass.todo) \in Nat
           /\ DOMAIN Tail(pass.todo) = 1 .. Len(pass.todo) - 1
           /\ \A i \in 1 .. Len(pass.todo) - 1 :
                 Tail(pass.todo)[i] = pass.todo[i + 1] /\ i + 1 \in 1 .. Len(pass.todo)
           /\ pass.todo[1].group \in Nat \ {0}
           /\ [pass EXCEPT !.todo = Tail(@)] \in Pass
           /\ [pass EXCEPT !.todo = Tail(@)].at = "update"
           /\ [pass EXCEPT !.todo = Tail(@)].todo = Tail(pass.todo)
           /\ [pass EXCEPT !.todo = Tail(@)].to = pass.to
           /\ [pass EXCEPT !.todo = Tail(@)].newest = pass.newest
           /\ [pass EXCEPT !.todo = Tail(@)].rows = pass.rows
<1>1. pass \in [at : {"update"}, to : 0 .. MaxTime, todo : Seq(Link),
                newest : 0 .. MaxTime, rows : Nat]
  BY DEF Types, Pass
<1>2. pass.todo \in Seq(Link)
  BY <1>1
<1> DEFINE t == pass.todo
<1>3. t \in Seq(Link) /\ t # <<>>
  BY <1>2
<1> HIDE DEF t
<1>4. /\ Head(t) = t[1] /\ 1 \in DOMAIN t /\ t[1] \in Link /\ Tail(t) \in Seq(Link)
      /\ DOMAIN t = 1 .. Len(t) /\ Len(t) \in Nat
      /\ DOMAIN Tail(t) = 1 .. Len(t) - 1
      /\ \A i \in 1 .. Len(t) - 1 : Tail(t)[i] = t[i + 1] /\ i + 1 \in 1 .. Len(t)
  BY <1>3
<1>5. t[1].group \in Nat \ {0}
  BY <1>4 DEF Link
<1> DEFINE p == [pass EXCEPT !.todo = Tail(@)]
<1>6. p = [pass EXCEPT !.todo = Tail(t)]
  BY DEF t
<1>7. /\ p \in [at : {"update"}, to : 0 .. MaxTime, todo : Seq(Link),
                newest : 0 .. MaxTime, rows : Nat]
      /\ p.at = "update" /\ p.todo = Tail(t) /\ p.to = pass.to
      /\ p.newest = pass.newest /\ p.rows = pass.rows
  BY <1>1, <1>4, <1>6
<1>8. p \in Pass
  BY <1>7 DEF Pass
<1>9. QED BY <1>4, <1>5, <1>7, <1>8 DEF t

LEMMA AsleepType ==
    ASSUME now \in 0 .. MaxTime
    PROVE  Asleep(now + BatchInterval) \in Pass /\ Asleep(now + BatchInterval).at = "sleep"
<1>1. MaxTime \in Nat /\ BatchInterval \in Nat
  BY CorrelationAssumption
<1>2. now + BatchInterval \in Nat
  BY <1>1
<1>3. QED BY <1>2 DEF Asleep, Pass

\* What is committed has the types of what is seen.
LEMMA CommitType ==
    ASSUME Commit, group' \in [DOMAIN rows' -> Nat], links' \in SUBSET Link
    PROVE  durable' \in [group : [DOMAIN rows' -> Nat], links : SUBSET Link]
BY DEF Commit, Seen

\* What an update makes of the tables.
LEMMA UpdateTypes ==
    ASSUME Types, pass.at = "update", pass.todo # <<>>
    PROVE  LET u == Head(pass.todo)
           IN  /\ u \in Link /\ Regrouped(u) \in [DOMAIN rows -> Nat]
               /\ WithLink(u) \in SUBSET Link /\ Taken(u) \in Nat \ {0}
<1> DEFINE u == Head(pass.todo)
<1>1. u \in Link /\ u.group \in Nat
  BY HeadOfTodo
<1> HIDE DEF u
<1>2. group \in [DOMAIN rows -> Nat] /\ links \in SUBSET Link
  BY DEF Types
<1>3. Regrouped(u) \in [DOMAIN rows -> Nat]
  BY <1>1, <1>2 DEF Regrouped
<1>4. WithLink(u) \in SUBSET Link /\ Taken(u) \in Nat \ {0}
  BY <1>1, <1>2 DEF WithLink, Taken
<1>5. QED BY <1>1, <1>3, <1>4 DEF u

\* The ids of a table that grows.
LEMMA GroupGrows ==
    ASSUME NEW n \in Nat, NEW k \in Nat, NEW G \in [1 .. n -> Nat]
    PROVE  G \o [i \in 1 .. k |-> 0] \in [1 .. n + k -> Nat]
<1> DEFINE z == [i \in 1 .. k |-> 0]
<1>1. G \in Seq(Nat) /\ Len(G) = n /\ z \in Seq(Nat) /\ Len(z) = k
  OBVIOUS
<1> HIDE DEF z
<1> DEFINE t == G \o z
<1>2. t \in Seq(Nat) /\ Len(t) = n + k
  BY <1>1
<1> HIDE DEF t
<1>3. t \in [1 .. n + k -> Nat]
  BY <1>2
<1>4. QED BY <1>3 DEF t, z

LEMMA TypesStep == Types /\ [Next]_vars => Types'
<1> SUFFICES ASSUME Types, [Next]_vars  PROVE Types'
  OBVIOUS
<1> USE CorrelationAssumption
<1>0. /\ MaxTime \in Nat /\ MaxEvents \in Nat /\ MaxSkew \in Nat /\ Window \in Nat
      /\ Lookback \in Nat /\ BatchInterval \in Nat
      /\ now \in 0 .. MaxTime /\ now \in Nat /\ waiting \in Seq(Event)
      /\ rows \in Seq(Row) /\ Len(rows) \in Nat /\ Len(waiting) \in Nat
      /\ Len(rows) + Len(waiting) <= MaxEvents
      /\ pass \in Pass /\ links \in SUBSET Link /\ faults \in Seq({"failure", "restart", "roll"})
      /\ watermark \in 0 .. MaxTime
  BY DEF Types
<1>16. /\ torn \in SUBSET Link
       /\ durable \in [group : [DOMAIN rows -> Nat], links : SUBSET Link]
  BY DEF Types
<1>1. ASSUME NEW dev \in Devices, NEW source \in Sources, NEW at \in 0 .. MaxTime,
             Occur(dev, source, at)
      PROVE  Types'
  <2> DEFINE e == [dev |-> dev, source |-> source, at |-> at, since |-> now]
  <2>1. e \in Event
    BY <1>0 DEF Event
  <2>2. waiting' = Append(waiting, e) /\ Len(rows) + Len(waiting) < MaxEvents
    BY <1>1 DEF Occur
  <2> HIDE DEF e
  <2>3. waiting' \in Seq(Event) /\ Len(waiting') = Len(waiting) + 1
    BY <2>1, <2>2, <1>0
  <2>4. UNCHANGED <<now, tables, pass, nextGroup, watermark, covered, faults>>
    BY <1>1 DEF Occur
  <2>5. Len(rows') + Len(waiting') <= MaxEvents
    BY <2>2, <2>3, <2>4, <1>0 DEF tables
  <2>6. QED BY <2>3, <2>4, <2>5 DEF Types, tables
<1>2. ASSUME NEW n \in 1 .. MaxEvents, Store(n)  PROVE Types'
  <2>1. /\ n \in 1 .. Len(waiting) /\ rows' = rows \o Stored(n)
        /\ group' = group \o [i \in 1 .. n |-> 0]
        /\ waiting' = SubSeq(waiting, n + 1, Len(waiting)) /\ Commit
        /\ UNCHANGED <<now, links, torn, dbOpen, pass, nextGroup, watermark, covered, faults>>
    BY <1>2 DEF Store
  <2>2. n \in 0 .. Len(waiting)
    BY <2>1, <1>0
  <2>3. /\ rows' \in Seq(Row) /\ Len(rows') = Len(rows) + n
        /\ group' \in [1 .. Len(rows) + n -> Nat]
    BY <2>1, <2>2, StoredType
  <2>4. waiting' \in Seq(Event) /\ Len(waiting') = Len(waiting) - n
    BY <2>1, RestType
  <2>5. DOMAIN rows' = 1 .. Len(rows) + n /\ Len(rows') + Len(waiting') <= MaxEvents
    BY <2>2, <2>3, <2>4, <1>0
  <2>6. durable' \in [group : [DOMAIN rows' -> Nat], links : SUBSET Link]
    BY <2>1, <2>3, <2>5, <1>0, CommitType
  <2>7. QED BY <2>1, <2>3, <2>4, <2>5, <2>6, <1>16 DEF Types
<1>3. CASE Tick
  BY <1>0, <1>3 DEF Tick, tables, Types
<1>4. CASE BeginPass
  <2>1. StartOfWindow \in Int
    BY <1>0 DEF StartOfWindow
  <2>2. pass' \in Pass
    BY <2>1, <1>0, <1>4 DEF BeginPass, Pass
  <2>3. QED BY <2>2, <1>4 DEF BeginPass, tables, Types
<1>5. CASE Query
  <2> DEFINE ids == IF dbOpen THEN QueryWindow(pass.from, pass.to) ELSE {}
  <2>1. ids \in SUBSET DOMAIN rows
    BY DEF QueryWindow
  <2>2. /\ UNCHANGED <<now, waiting, rows, group, links, torn, dbOpen, nextGroup, watermark>>
        /\ UNCHANGED <<durable, covered, faults>>
    BY <1>5 DEF Query, tables
  <2>3. pass' = IF ids = {} THEN Asleep(now + BatchInterval)
                ELSE [at |-> "update", to |-> pass.to, todo |-> Updates(ids),
                      newest |-> rows[Latest(ids)].at, rows |-> Len(rows)]
    BY <1>5 DEF Query
  <2>4. pass.to \in 0 .. MaxTime
    BY <1>0, <1>5 DEF Query, Pass
  <2> HIDE DEF ids
  <2>5. CASE ids = {}
    BY <2>2, <2>3, <2>5, <1>0, AsleepType DEF Types
  <2>6. CASE ids # {}
    <3>1. Updates(ids) \in Seq(Link) /\ rows[Latest(ids)].at \in 0 .. MaxTime
      BY <2>1, <2>6, FoundType
    <3>2. pass' \in Pass
      BY <3>1, <2>3, <2>4, <2>6, <1>0 DEF Pass
    <3>3. QED BY <3>2, <2>2 DEF Types
  <2>7. QED BY <2>5, <2>6
<1>6. CASE AssignGroup
  <2> DEFINE u == Head(pass.todo)
  <2>1. pass.at = "update" /\ pass.todo # <<>>
    BY <1>6 DEF AssignGroup
  <2>2. /\ pass' = [pass EXCEPT !.todo = Tail(@)]
        /\ group' = Regrouped(u) /\ links' = WithLink(u)
        /\ nextGroup' = Taken(u)
        /\ Commit \/ UNCHANGED durable
        /\ UNCHANGED <<now, waiting, rows, torn, dbOpen, watermark, covered, faults>>
    BY <1>6 DEF AssignGroup
  <2>3. /\ Regrouped(u) \in [DOMAIN rows -> Nat] /\ WithLink(u) \in SUBSET Link
        /\ Taken(u) \in Nat \ {0}
    BY <2>1, UpdateTypes
  <2>4. pass' \in Pass
    BY <2>1, <2>2, HeadOfTodo
  <2> HIDE DEF u
  <2>5. durable' \in [group : [DOMAIN rows' -> Nat], links : SUBSET Link]
    BY <2>2, <2>3, <1>16, CommitType
  <2>6. QED BY <2>2, <2>3, <2>4, <2>5 DEF Types
<1>7. CASE EndPass
  <2>1. pass.newest \in 0 .. MaxTime /\ pass.rows \in Nat /\ pass.to \in 0 .. MaxTime
    BY <1>0, <1>7 DEF EndPass, Pass
  <2>2. covered' \in [rows : Nat, since : Int, until : 0 .. MaxTime]
    BY <2>1, <1>0, <1>7 DEF EndPass
  <2>3. QED BY <2>1, <2>2, <1>0, <1>7, AsleepType DEF EndPass, tables, Types
<1>8. CASE QueryRaises
  <2>1. faults' \in Seq({"failure", "restart", "roll"})
    BY <1>0, <1>8 DEF QueryRaises, Fault
  <2>2. QED BY <2>1, <1>0, <1>8, AsleepType DEF QueryRaises, tables, Types
<1>14. ASSUME NEW done \in 0 .. 2, UpdateRaises(done)  PROVE Types'
  <2> DEFINE u == Head(pass.todo)
  <2>1. pass.at = "update" /\ pass.todo # <<>>
    BY <1>14 DEF UpdateRaises
  <2>2. /\ group' \in {group, Regrouped(u)} /\ links' \in {links, WithLink(u)}
        /\ torn' \in {torn, torn \cup {u}} /\ nextGroup' = Taken(u)
        /\ pass' = Asleep(now + BatchInterval)
        /\ UNCHANGED <<now, waiting, rows, durable, dbOpen, watermark, covered>>
    BY <1>14 DEF UpdateRaises
  <2>3. /\ Regrouped(u) \in [DOMAIN rows -> Nat] /\ WithLink(u) \in SUBSET Link
        /\ Taken(u) \in Nat \ {0} /\ u \in Link
    BY <2>1, UpdateTypes
  <2>4. faults' \in Seq({"failure", "restart", "roll"})
    BY <1>0, <1>14 DEF UpdateRaises, Fault
  <2> HIDE DEF u
  <2>5. torn' \in SUBSET Link /\ links' \in SUBSET Link
    BY <2>2, <2>3, <1>0, <1>16
  <2>6. QED BY <2>2, <2>3, <2>4, <2>5, <1>0, AsleepType DEF Types
<1>15. CASE CommitElsewhere
  <2>1. /\ Commit
        /\ UNCHANGED <<now, waiting, rows, group, links, torn, dbOpen, pass, nextGroup,
                       watermark, covered, faults>>
    BY <1>15 DEF CommitElsewhere
  <2>2. durable' \in [group : [DOMAIN rows' -> Nat], links : SUBSET Link]
    BY <2>1, <1>0, CommitType DEF Types
  <2>3. QED BY <2>1, <2>2 DEF Types
<1>9. CASE Restart
  <2>1. Len(waiting) \in 0 .. Len(waiting)
    BY <1>0
  <2>2. /\ rows' = rows \o Stored(Len(waiting)) /\ waiting' = <<>>
        /\ pass' = Asleep(now + BatchInterval) /\ nextGroup' = 1 /\ watermark' = 0
        /\ Commit /\ UNCHANGED <<now, torn, dbOpen, covered>>
    BY <1>9 DEF Restart
  <2>9. PICK kept \in {Seen, durable} :
           /\ group' = kept.group \o [i \in 1 .. Len(waiting) |-> 0]
           /\ links' = kept.links
    BY <1>9 DEF Restart
  <2>10. /\ kept.group \in [1 .. Len(rows) -> Nat] /\ kept.links \in SUBSET Link
         /\ DOMAIN rows = 1 .. Len(rows)
    <3>1. /\ Seen.group \in [DOMAIN rows -> Nat] /\ Seen.links \in SUBSET Link
          /\ durable.group \in [DOMAIN rows -> Nat] /\ durable.links \in SUBSET Link
      BY <1>16 DEF Seen, Types
    <3>2. QED BY <3>1, <1>0
  <2>3. /\ rows' \in Seq(Row) /\ Len(rows') = Len(rows) + Len(waiting)
        /\ group' \in [1 .. Len(rows) + Len(waiting) -> Nat]
        /\ links' \in SUBSET Link
    <3>1. /\ rows' \in Seq(Row) /\ Len(rows') = Len(rows) + Len(waiting)
      BY <2>1, <2>2, StoredType
    <3>2. group' \in [1 .. Len(rows) + Len(waiting) -> Nat]
      BY <2>9, <2>10, <1>0, GroupGrows
    <3>3. QED BY <3>1, <3>2, <2>9, <2>10
  <2>4. /\ waiting' \in Seq(Event) /\ Len(waiting') = 0
        /\ DOMAIN rows' = 1 .. Len(rows) + Len(waiting)
    BY <2>2, <2>3
  <2>5. faults' \in Seq({"failure", "restart", "roll"})
    BY <1>0, <1>9 DEF Restart, Fault
  <2>6. Len(rows') + Len(waiting') <= MaxEvents
    BY <2>3, <2>4, <1>0
  <2>7. pass' \in Pass /\ nextGroup' \in Nat \ {0} /\ watermark' \in 0 .. MaxTime
    BY <2>2, <1>0, AsleepType
  <2>8. durable' \in [group : [DOMAIN rows' -> Nat], links : SUBSET Link]
    BY <2>2, <2>3, <2>4, CommitType
  <2>11. QED BY <2>2, <2>3, <2>4, <2>5, <2>6, <2>7, <2>8, <1>0 DEF Types
<1>10. CASE RollCloses
  <2>1. pass' \in Pass
    <3>1. CASE pass.at = "update"
      <4>1. pass \in [at : {"update"}, to : 0 .. MaxTime, todo : Seq(Link),
                      newest : 0 .. MaxTime, rows : Nat]
        BY <3>1, <1>0 DEF Pass
      <4>2. pass' = [pass EXCEPT !.rows = 0]
        BY <3>1, <1>10 DEF RollCloses
      <4>3. QED BY <4>1, <4>2 DEF Pass
    <3>2. CASE pass.at # "update"
      BY <3>2, <1>0, <1>10 DEF RollCloses
    <3>3. QED BY <3>1, <3>2
  <2>2. /\ rows' = <<>> /\ group' = <<>> /\ links' = {} /\ waiting' = <<>> /\ dbOpen' = FALSE
        /\ covered' = Nothing /\ UNCHANGED <<now, nextGroup, watermark>>
        /\ Commit /\ torn' = {}
    BY <1>10 DEF RollCloses
  <2>3. /\ rows' \in Seq(Row) /\ waiting' \in Seq(Event) /\ Len(rows') = 0 /\ Len(waiting') = 0
        /\ group' \in [DOMAIN rows' -> Nat]
    BY <2>2
  <2>4. covered' \in [rows : Nat, since : Int, until : 0 .. MaxTime]
    BY <2>2, <1>0 DEF Nothing
  <2>5. faults' \in Seq({"failure", "restart", "roll"})
    BY <1>0, <1>10 DEF RollCloses, Fault
  <2>6. /\ now' \in 0 .. MaxTime /\ watermark' \in 0 .. MaxTime /\ nextGroup' \in Nat \ {0}
        /\ links' \in SUBSET Link /\ dbOpen' \in BOOLEAN
        /\ Len(rows') + Len(waiting') <= MaxEvents
    <3>1. nextGroup \in Nat \ {0}
      BY DEF Types
    <3>2. Len(rows') + Len(waiting') <= MaxEvents
      BY <2>3, <1>0
    <3>3. links' \in SUBSET Link /\ dbOpen' \in BOOLEAN
      BY <2>2
    <3>4. now' \in 0 .. MaxTime /\ watermark' \in 0 .. MaxTime /\ nextGroup' \in Nat \ {0}
      BY <2>2, <3>1, <1>0
    <3>5. QED BY <3>2, <3>3, <3>4
  <2>7. /\ torn' \in SUBSET Link
        /\ durable' \in [group : [DOMAIN rows' -> Nat], links : SUBSET Link]
    BY <2>2, <2>3, <2>6, CommitType
  <2>8. QED BY <2>1, <2>3, <2>4, <2>5, <2>6, <2>7 DEF Types
<1>11. CASE RollOpens
  BY <1>11 DEF RollOpens, Types
<1>12. CASE UNCHANGED vars
  BY <1>12 DEF vars, tables, Types
<1>13. QED
  BY <1>1, <1>2, <1>3, <1>4, <1>5, <1>6, <1>7, <1>8, <1>9, <1>10, <1>11, <1>12,
     <1>14, <1>15 DEF Next

-----------------------------------------------------------------------------
\* What is inductive about the links, of rows R, links L, updates T still to be made,
\* ids G of the groups and a next id n.

\* The order of the query, of rows R.
Prec(R, a, b) == R[a].at < R[b].at \/ (R[a].at = R[b].at /\ a < b)

\* The links of each group are a chain of one device that begins with the PRIMARY.
Chained(R, L) ==
    /\ \A l, m \in L : l.group = m.group => R[l.event].dev = R[m.event].dev
    /\ \A l \in L : l.role # "PRIMARY" =>
          \E m \in L : /\ m.group = l.group /\ Prec(R, m.event, l.event)
                       /\ R[l.event].at - R[m.event].at <= Window
    /\ \A l, m \in L : l.role = "PRIMARY" /\ m.group = l.group
                          => m = l \/ Prec(R, l.event, m.event)
    /\ \A l \in L : \E p \in L : p.group = l.group /\ p.role = "PRIMARY"

\* What is still to be made comes after what there is, group by group.
Ascending(R, L, T, n) ==
    /\ \A i \in DOMAIN T : T[i].event \in DOMAIN R /\ T[i].group >= n - 1
    /\ \A i, j \in DOMAIN T : i < j =>
          \/ T[i].group < T[j].group
          \/ T[i].group = T[j].group /\ Prec(R, T[i].event, T[j].event)
    /\ \A l \in L, i \in DOMAIN T : l.group = T[i].group => Prec(R, l.event, T[i].event)

\* The links say what the table's ids say, and are of groups whose ids are taken.
Agree(R, L, G, n) ==
    /\ \A l \in L : l.event \in DOMAIN R /\ l.group < n
    /\ \A id \in DOMAIN G :
          LET linked == {l.group : l \in {k \in L : k.event = id}}
          IN  IF linked = {} THEN G[id] = 0
              ELSE G[id] \in linked /\ \A g \in linked : g <= G[id]

\* The links that the pass has still to make.
Todo == IF pass.at = "update" THEN {pass.todo[i] : i \in DOMAIN pass.todo} ELSE {}

GroupsInv == IdsAreFresh =>
    /\ dbOpen
    /\ Agree(rows, links \cup torn, group, nextGroup)
    /\ pass.at = "update" => Ascending(rows, links, pass.todo, nextGroup)
    /\ Chained(rows, links \cup Todo)

-----------------------------------------------------------------------------
\* Rows that are added change nothing of it.
Grown(R, S) == \A a \in DOMAIN R : a \in DOMAIN S /\ S[a] = R[a]

LEMMA GrownChained ==
    ASSUME NEW R, NEW S, Grown(R, S), NEW L, \A l \in L : l.event \in DOMAIN R,
           Chained(R, L)
    PROVE  Chained(S, L)
<1>1. \A l \in L : S[l.event] = R[l.event]
  BY DEF Grown
<1>2. \A l, m \in L : Prec(R, l.event, m.event) <=> Prec(S, l.event, m.event)
  BY <1>1 DEF Prec
<1>3. \A l, m \in L : l.group = m.group => S[l.event].dev = S[m.event].dev
  BY <1>1 DEF Chained
<1>4. ASSUME NEW l \in L, l.role # "PRIMARY"
      PROVE  \E m \in L : /\ m.group = l.group /\ Prec(S, m.event, l.event)
                          /\ S[l.event].at - S[m.event].at <= Window
  <2>1. PICK m \in L : /\ m.group = l.group /\ Prec(R, m.event, l.event)
                       /\ R[l.event].at - R[m.event].at <= Window
    BY <1>4 DEF Chained
  <2>2. QED BY <2>1, <1>1, <1>2
<1>5. \A l, m \in L : l.role = "PRIMARY" /\ m.group = l.group
                         => m = l \/ Prec(S, l.event, m.event)
  BY <1>2 DEF Chained
<1>6. QED BY <1>3, <1>4, <1>5 DEF Chained

LEMMA GrownAscending ==
    ASSUME NEW R, NEW S, Grown(R, S), NEW L, \A l \in L : l.event \in DOMAIN R,
           NEW T, NEW n, Ascending(R, L, T, n)
    PROVE  Ascending(S, L, T, n)
<1>1. \A i \in DOMAIN T : T[i].event \in DOMAIN R /\ T[i].event \in DOMAIN S
  BY DEF Ascending, Grown
<1>2. \A i, j \in DOMAIN T :
         Prec(R, T[i].event, T[j].event) <=> Prec(S, T[i].event, T[j].event)
  BY <1>1 DEF Prec, Grown
<1>3. \A l \in L, i \in DOMAIN T :
         Prec(R, l.event, T[i].event) <=> Prec(S, l.event, T[i].event)
  BY <1>1 DEF Prec, Grown
<1>4. QED BY <1>1, <1>2, <1>3 DEF Ascending

\* The rows that are added have no group yet.
LEMMA GrownAgree ==
    ASSUME NEW R, NEW S, Grown(R, S), NEW L, NEW n,
           NEW G, NEW H, DOMAIN G = DOMAIN R, DOMAIN H = DOMAIN S,
           \A a \in DOMAIN G : H[a] = G[a],
           \A a \in DOMAIN H : a \notin DOMAIN G => H[a] = 0,
           Agree(R, L, G, n)
    PROVE  Agree(S, L, H, n)
<1>1. \A l \in L : l.event \in DOMAIN S /\ l.group < n
  BY DEF Agree, Grown
<1>2. ASSUME NEW id \in DOMAIN H
      PROVE  LET linked == {l.group : l \in {k \in L : k.event = id}}
             IN  IF linked = {} THEN H[id] = 0
                 ELSE H[id] \in linked /\ \A g \in linked : g <= H[id]
  <2>1. CASE id \in DOMAIN G
    BY <2>1 DEF Agree
  <2>2. CASE id \notin DOMAIN G
    <3>1. {l.group : l \in {k \in L : k.event = id}} = {}
      BY <2>2 DEF Agree
    <3>2. QED BY <3>1, <2>2
  <2>3. QED BY <2>1, <2>2
<1>3. QED BY <1>1, <1>2 DEF Agree

-----------------------------------------------------------------------------
\* What a pass makes is a chain of each group, whole ...
LEMMA WholeChained ==
    ASSUME rows \in Seq(Row), NEW ids \in SUBSET DOMAIN rows, nextGroup \in Nat \ {0}
    PROVE  Chained(rows, AllUpdates(ids))
<1> DEFINE all == AllUpdates(ids)
<1>1. \A a, b \in DOMAIN rows : Before(a, b) <=> Prec(rows, a, b)
  BY DEF Before, Prec
<1>2. ASSUME NEW u \in all
      PROVE  \E c \in ClusterEvents(ids) :
                /\ u.event \in c /\ u.group = GroupOf(ids, c)
                /\ u.role = IF u.event = First(c) THEN "PRIMARY" ELSE "CORRELATED"
  BY UpdateOfCluster
<1>3. ASSUME NEW u \in all, NEW v \in all, u.group = v.group
      PROVE  \E c \in ClusterEvents(ids) : u.event \in c /\ v.event \in c
  BY <1>2, <1>3, GroupsDiffer
<1>4. ASSUME NEW c \in ClusterEvents(ids)
      PROVE  /\ First(c) \in c /\ c \in SUBSET DOMAIN rows
             /\ \A e \in c : rows[e].dev = rows[First(c)].dev
             /\ \A e \in c \ {First(c)} :
                   /\ Before(First(c), e)
                   /\ \E d \in c : Before(d, e) /\ rows[e].at - rows[d].at <= Window
  BY ClustersBegin, ClusterIsAChain
<1>5. ASSUME NEW u \in all, NEW v \in all, u.group = v.group
      PROVE  rows[u.event].dev = rows[v.event].dev
  BY <1>3, <1>4, <1>5
<1>6. ASSUME NEW u \in all, u.role # "PRIMARY"
      PROVE  \E v \in all : /\ v.group = u.group /\ Prec(rows, v.event, u.event)
                            /\ rows[u.event].at - rows[v.event].at <= Window
  <2>1. PICK c \in ClusterEvents(ids) :
           u.event \in c \ {First(c)} /\ u.group = GroupOf(ids, c)
    BY <1>2, <1>6
  <2>2. PICK d \in c : Before(d, u.event) /\ rows[u.event].at - rows[d].at <= Window
    BY <2>1, <1>4
  <2>3. PICK v \in all : v.event = d /\ v.group = GroupOf(ids, c)
    BY ClusterHasUpdates
  <2>4. u.event \in DOMAIN rows /\ d \in DOMAIN rows
    BY <2>1, <1>4
  <2>5. QED BY <2>1, <2>2, <2>3, <2>4, <1>1
<1>7. ASSUME NEW u \in all, NEW v \in all, u.role = "PRIMARY", v.group = u.group
      PROVE  v = u \/ Prec(rows, u.event, v.event)
  <2>1. PICK c \in ClusterEvents(ids) :
           u.event \in c /\ u.group = GroupOf(ids, c) /\ u.event = First(c)
    BY <1>2, <1>7
  <2>2. v.event \in c
    BY <1>2, <1>7, <2>1, GroupsDiffer
  <2>3. CASE v.event = u.event
    BY <2>3, <1>7, UpdatesAreTold
  <2>4. CASE v.event # u.event
    <3>1. Before(u.event, v.event)
      BY <2>1, <2>2, <2>4, <1>4
    <3>2. u.event \in DOMAIN rows /\ v.event \in DOMAIN rows
      BY <2>1, <2>2, <1>4
    <3>3. QED BY <3>1, <3>2, <1>1
  <2>5. QED BY <2>3, <2>4
<1>8. ASSUME NEW u \in all
      PROVE  \E p \in all : p.group = u.group /\ p.role = "PRIMARY"
  <2>1. PICK c \in ClusterEvents(ids) : u.group = GroupOf(ids, c)
    BY <1>2
  <2>2. First(c) \in c
    BY <1>4
  <2>3. QED BY <2>1, <2>2, ClusterHasUpdates
<1>9. QED BY <1>5, <1>6, <1>7, <1>8 DEF Chained

\* ... and so is what there is of it when the pass is given up: what comes first.
LEMMA PrefixChained ==
    ASSUME NEW R, NEW L, NEW T, Chained(R, L \cup T),
           \A l \in L \cup T : l.event \in Nat /\ R[l.event].at \in Nat,
           \A l \in L, m \in T : l.group = m.group => Prec(R, l.event, m.event)
    PROVE  Chained(R, L)
<1>1. \A l, m \in L \cup T : Prec(R, l.event, m.event) => ~Prec(R, m.event, l.event)
  BY DEF Prec
<1>2. ASSUME NEW l \in L, l.role # "PRIMARY"
      PROVE  \E m \in L : /\ m.group = l.group /\ Prec(R, m.event, l.event)
                          /\ R[l.event].at - R[m.event].at <= Window
  <2>1. PICK m \in L \cup T : /\ m.group = l.group /\ Prec(R, m.event, l.event)
                              /\ R[l.event].at - R[m.event].at <= Window
    BY <1>2 DEF Chained
  <2>2. m \in L
    BY <2>1, <1>1
  <2>3. QED BY <2>1, <2>2
<1>3. ASSUME NEW l \in L
      PROVE  \E p \in L : p.group = l.group /\ p.role = "PRIMARY"
  <2>1. PICK p \in L \cup T : p.group = l.group /\ p.role = "PRIMARY"
    BY DEF Chained
  <2>2. l = p \/ Prec(R, p.event, l.event)
    BY <2>1 DEF Chained
  <2>3. p \in L
    BY <2>1, <2>2, <1>1
  <2>4. QED BY <2>1, <2>3
<1>4. /\ \A l, m \in L : l.group = m.group => R[l.event].dev = R[m.event].dev
      /\ \A l, m \in L : l.role = "PRIMARY" /\ m.group = l.group
                            => m = l \/ Prec(R, l.event, m.event)
  BY DEF Chained
<1>5. QED BY <1>2, <1>3, <1>4 DEF Chained

LEMMA JoinChained ==
    ASSUME NEW R, NEW L, NEW M, Chained(R, L), Chained(R, M),
           \A l \in L, m \in M : l.group # m.group
    PROVE  Chained(R, L \cup M)
<1>1. ASSUME NEW l \in L \cup M, l.role # "PRIMARY"
      PROVE  \E m \in L \cup M : /\ m.group = l.group /\ Prec(R, m.event, l.event)
                                 /\ R[l.event].at - R[m.event].at <= Window
  BY <1>1 DEF Chained
<1>2. ASSUME NEW l \in L \cup M
      PROVE  \E p \in L \cup M : p.group = l.group /\ p.role = "PRIMARY"
  BY DEF Chained
<1>3. /\ \A l, m \in L \cup M : l.group = m.group => R[l.event].dev = R[m.event].dev
      /\ \A l, m \in L \cup M : l.role = "PRIMARY" /\ m.group = l.group
                                   => m = l \/ Prec(R, l.event, m.event)
  BY DEF Chained
<1>4. QED BY <1>1, <1>2, <1>3 DEF Chained

\* One update leaves the tables in agreement.
LEMMA OneUpdateAgrees ==
    ASSUME NEW R, NEW L, NEW n \in Nat, NEW G \in [DOMAIN R -> Nat], Agree(R, L, G, n),
           \A l \in L : l.group \in Nat,
           NEW u, u.event \in DOMAIN R, u.group \in Nat, u.group >= n - 1
    PROVE  Agree(R, L \cup {u}, [G EXCEPT ![u.event] = u.group], u.group + 1)
<1> DEFINE H == [G EXCEPT ![u.event] = u.group]
           before(id) == {l.group : l \in {k \in L : k.event = id}}
           after(id) == {l.group : l \in {k \in L \cup {u} : k.event = id}}
<1>1. \A l \in L : l.event \in DOMAIN R /\ l.group < n /\ l.group <= u.group
  BY DEF Agree
<1>2. \A l \in L \cup {u} : l.event \in DOMAIN R /\ l.group < u.group + 1
  BY <1>1
<1>3. DOMAIN H = DOMAIN G /\ H[u.event] = u.group
      /\ \A id \in DOMAIN G : id # u.event => H[id] = G[id]
  OBVIOUS
<1>4. ASSUME NEW id \in DOMAIN G
      PROVE  IF after(id) = {} THEN H[id] = 0
             ELSE H[id] \in after(id) /\ \A g \in after(id) : g <= H[id]
  <2>1. CASE id = u.event
    <3>1. u.group \in after(id)
      BY <2>1
    <3>2. \A g \in after(id) : g <= u.group
      BY <1>1
    <3>3. QED BY <3>1, <3>2, <1>3, <2>1
  <2>2. CASE id # u.event
    <3>1. after(id) = before(id)
      BY <2>2
    <3>2. IF before(id) = {} THEN G[id] = 0
          ELSE G[id] \in before(id) /\ \A g \in before(id) : g <= G[id]
      BY DEF Agree
    <3> HIDE DEF before, after
    <3>3. H[id] = G[id]
      BY <1>3, <2>2
    <3>4. QED BY <3>1, <3>2, <3>3
  <2>3. QED BY <2>1, <2>2
<1>5. QED BY <1>2, <1>3, <1>4 DEF Agree

\* Ids that are taken in between do no harm.
LEMMA AgreeLater ==
    ASSUME NEW R, NEW L, NEW G, NEW n \in Nat, NEW m \in Nat, n <= m,
           \A l \in L : l.group \in Nat, Agree(R, L, G, n)
    PROVE  Agree(R, L, G, m)
<1>1. \A l \in L : l.event \in DOMAIN R /\ l.group < m
  BY DEF Agree
<1>2. QED BY <1>1 DEF Agree

-----------------------------------------------------------------------------
LEMMA GroupsInvInit == Init => GroupsInv
<1> SUFFICES ASSUME Init  PROVE GroupsInv
  OBVIOUS
<1>1. links \cup Todo = {} /\ links \cup torn = {} /\ dbOpen /\ pass.at = "sleep"
      /\ DOMAIN group = {}
  BY DEF Init, Todo, Asleep
<1>2. Agree(rows, links \cup torn, group, nextGroup) /\ Chained(rows, links \cup Todo)
  BY <1>1 DEF Agree, Chained
<1>3. QED BY <1>1, <1>2 DEF GroupsInv

\* What holds of the types of everything the invariant is about.
LEMMA GroupTypes ==
    ASSUME Types
    PROVE  /\ rows \in Seq(Row) /\ group \in [DOMAIN rows -> Nat] /\ DOMAIN group = DOMAIN rows
           /\ \A a \in DOMAIN rows : a \in Nat /\ rows[a].at \in Nat
           /\ \A l \in links \cup torn \cup Todo :
                 l \in Link /\ l.event \in Nat /\ l.group \in Nat \ {0}
           /\ nextGroup \in Nat \ {0}
           /\ pass.at = "update" => pass.todo \in Seq(Link)
<1>1. rows \in Seq(Row) /\ group \in [DOMAIN rows -> Nat] /\ nextGroup \in Nat \ {0}
  BY DEF Types
<1>2. \A a \in DOMAIN rows : a \in Nat /\ rows[a].at \in Nat
  <2>1. \A a \in DOMAIN rows : rows[a].at \in 0 .. MaxTime
    BY <1>1, BeforeIsAnOrder
  <2>2. QED BY <2>1, <1>1, CorrelationAssumption
<1>3. pass.at = "update" => pass.todo \in Seq(Link)
  BY DEF Types, Pass
<1>4. \A l \in links \cup torn \cup Todo : l \in Link
  BY <1>3 DEF Todo, Types
<1>5. \A l \in Link : l.event \in Nat /\ l.group \in Nat \ {0}
  BY CorrelationAssumption DEF Link
<1>6. QED BY <1>1, <1>2, <1>3, <1>4, <1>5

\* A pass that ends, in whatever way, leaves chains.
LEMMA GivenUpChained ==
    ASSUME Types, GroupsInv, IdsAreFresh
    PROVE  Chained(rows, links)
<1>1. /\ dbOpen /\ Agree(rows, links \cup torn, group, nextGroup)
      /\ pass.at = "update" => Ascending(rows, links, pass.todo, nextGroup)
      /\ Chained(rows, links \cup Todo)
  BY DEF GroupsInv
<1>2. \A l \in links : l.event \in DOMAIN rows
  BY <1>1 DEF Agree
<1>3. \A l \in Todo : l.event \in DOMAIN rows
  BY <1>1 DEF Ascending, Todo
<1>4. \A l \in links \cup Todo : l.event \in Nat /\ rows[l.event].at \in Nat
  BY <1>2, <1>3, GroupTypes
<1>5. \A l \in links, m \in Todo : l.group = m.group => Prec(rows, l.event, m.event)
  BY <1>1 DEF Ascending, Todo
<1>6. QED BY <1>1, <1>4, <1>5, PrefixChained

\* The ids stay fresh only through failures.
LEMMA FreshStays ==
    ASSUME faults \in Seq({"failure", "restart", "roll"}), NEW kind, Fault(kind), IdsAreFresh'
    PROVE  kind = "failure" /\ IdsAreFresh
<1>1. /\ DOMAIN faults' = 1 .. Len(faults) + 1 /\ Len(faults) \in Nat
      /\ DOMAIN faults = 1 .. Len(faults)
      /\ faults'[Len(faults) + 1] = kind
      /\ \A i \in 1 .. Len(faults) : faults'[i] = faults[i]
  BY DEF Fault
<1>2. Len(faults) + 1 \in DOMAIN faults' /\ \A i \in DOMAIN faults : i \in DOMAIN faults'
  BY <1>1
<1>3. QED BY <1>1, <1>2 DEF IdsAreFresh

\* A step that leaves the tables alone, with no pass after it.
LEMMA NoPassKeepsGroups ==
    ASSUME Types, GroupsInv, IdsAreFresh, UNCHANGED <<rows, group, links, torn, dbOpen>>,
           pass'.at # "update", nextGroup' \in Nat, nextGroup <= nextGroup'
    PROVE  GroupsInv'
<1>1. dbOpen' /\ Agree(rows, links \cup torn, group, nextGroup)
  BY DEF GroupsInv
<1>2. Agree(rows, links \cup torn, group, nextGroup')
  BY <1>1, GroupTypes, AgreeLater
<1>3. links' \cup Todo' = links
  BY DEF Todo
<1>4. Chained(rows, links)
  BY GivenUpChained
<1>5. QED BY <1>1, <1>2, <1>3, <1>4 DEF GroupsInv

LEMMA UntouchedKeepsGroups ==
    ASSUME GroupsInv, UNCHANGED <<rows, group, links, torn, dbOpen, pass, nextGroup, faults>>
    PROVE  GroupsInv'
BY DEF GroupsInv, IdsAreFresh, Todo

LEMMA StoreKeepsGroups ==
    ASSUME Types, GroupsInv, NEW n \in 1 .. MaxEvents, Store(n)
    PROVE  GroupsInv'
<1> SUFFICES ASSUME IdsAreFresh'  PROVE GroupsInv'
  BY DEF GroupsInv
<1>1. /\ n \in 1 .. Len(waiting) /\ rows' = rows \o Stored(n)
      /\ group' = group \o [i \in 1 .. n |-> 0]
      /\ UNCHANGED <<links, torn, dbOpen, pass, nextGroup, faults>>
  BY DEF Store
<1>2. n \in 0 .. Len(waiting)
  BY <1>1
<1>3. /\ rows' \in Seq(Row) /\ Len(rows') = Len(rows) + n
      /\ \A a \in DOMAIN rows : rows'[a] = rows[a]
      /\ group' \in [1 .. Len(rows) + n -> Nat]
      /\ \A a \in DOMAIN rows : group'[a] = group[a]
      /\ \A a \in 1 .. Len(rows) + n : a \notin DOMAIN rows => group'[a] = 0
  BY <1>1, <1>2, StoredType
<1>4. DOMAIN group = DOMAIN rows /\ DOMAIN rows = 1 .. Len(rows) /\ Len(rows) \in Nat
  BY DEF Types
<1>5. DOMAIN group' = DOMAIN rows' /\ DOMAIN rows' = 1 .. Len(rows) + n
  BY <1>3
<1>6. Grown(rows, rows')
  BY <1>1, <1>3, <1>4, <1>5 DEF Grown
<1>7. /\ dbOpen /\ Agree(rows, links \cup torn, group, nextGroup)
      /\ pass.at = "update" => Ascending(rows, links, pass.todo, nextGroup)
      /\ Chained(rows, links \cup Todo)
  BY <1>1 DEF GroupsInv, IdsAreFresh
<1>8. \A l \in links \cup Todo : l.event \in DOMAIN rows
  BY <1>7 DEF Agree, Ascending, Todo
<1>9. Agree(rows', links \cup torn, group', nextGroup)
  <2>1. /\ \A a \in DOMAIN group : group'[a] = group[a]
        /\ \A a \in DOMAIN group' : a \notin DOMAIN group => group'[a] = 0
    BY <1>3, <1>4, <1>5
  <2>2. QED BY <2>1, <1>4, <1>5, <1>6, <1>7, GrownAgree
<1>10. pass.at = "update" => Ascending(rows', links, pass.todo, nextGroup)
  BY <1>6, <1>7, <1>8, GrownAscending
<1>11. Chained(rows', links \cup Todo)
  BY <1>6, <1>7, <1>8, GrownChained
<1>12. Todo' = Todo
  BY <1>1 DEF Todo
<1>13. QED BY <1>1, <1>7, <1>9, <1>10, <1>11, <1>12 DEF GroupsInv

\* The query of a pass finds what there is to do.
LEMMA FoundKeepsGroups ==
    ASSUME Types, GroupsInv, IdsAreFresh, UNCHANGED <<rows, group, links, torn, dbOpen, nextGroup>>,
           pass.at # "update", NEW ids \in SUBSET DOMAIN rows,
           pass'.at = "update", pass'.todo = Updates(ids)
    PROVE  GroupsInv'
<1> DEFINE T == Updates(ids)
           all == AllUpdates(ids)
<1>1. rows \in Seq(Row) /\ nextGroup \in Nat \ {0}
  BY DEF Types
<1>2. /\ T \in Seq(RowLinks)
      /\ \A i \in 1 .. Len(T) : T[i] \in all
      /\ \A u \in all : \E i \in 1 .. Len(T) : T[i] = u
      /\ \A i, j \in 1 .. Len(T) : i < j => Sooner(T[i], T[j])
  BY <1>1, UpdatesAscend
<1>3. \A u \in all : u.event \in DOMAIN rows /\ u.group \in Nat /\ u.group >= nextGroup
  <2>1. \A u \in all : u \in RowLinks /\ u.group >= nextGroup
    BY <1>1, UpdateOfCluster
  <2>2. QED BY <2>1 DEF RowLinks
<1> HIDE DEF T, all
<1>4. DOMAIN T = 1 .. Len(T)
  BY <1>2
<1>5. /\ dbOpen /\ Agree(rows, links \cup torn, group, nextGroup)
      /\ Chained(rows, links \cup Todo) /\ Todo = {}
  BY DEF GroupsInv, Todo
<1>6. \A l \in links, u \in all : l.group # u.group
  <2>1. \A l \in links : l.group \in Nat /\ l.group < nextGroup
    BY <1>5, GroupTypes DEF Agree
  <2>2. QED BY <2>1, <1>1, <1>3
<1>7. Ascending(rows, links, T, nextGroup)
  <2>1. \A i \in DOMAIN T : T[i].event \in DOMAIN rows /\ T[i].group >= nextGroup - 1
    BY <1>1, <1>2, <1>3, <1>4
  <2>2. \A i, j \in DOMAIN T : i < j =>
           \/ T[i].group < T[j].group
           \/ T[i].group = T[j].group /\ Prec(rows, T[i].event, T[j].event)
    BY <1>2, <1>4 DEF Sooner, Before, Prec
  <2>3. QED BY <2>1, <2>2, <1>2, <1>4, <1>6 DEF Ascending
<1>8. Todo' = all
  <2>1. Todo' = {T[i] : i \in DOMAIN T}
    BY DEF Todo, T
  <2>2. QED BY <2>1, <1>2, <1>4
<1>9. Chained(rows, all)
  BY <1>1, WholeChained DEF all
<1>10. Chained(rows, links \cup all)
  <2>1. Chained(rows, links)
    BY <1>5
  <2>2. QED BY <2>1, <1>6, <1>9, JoinChained
<1>11. QED BY <1>5, <1>7, <1>8, <1>10 DEF GroupsInv, T

\* What an update makes of it, whole or, of the ids of the groups, without its link.
LEMMA UpdateKeepsGroups ==
    ASSUME Types, GroupsInv, IdsAreFresh, pass.at = "update", pass.todo # <<>>
    PROVE  LET u == Head(pass.todo)
               t == Tail(pass.todo)
               T == {t[i] : i \in DOMAIN t}
           IN  /\ WithLink(u) = links \cup {u} /\ Taken(u) \in Nat /\ nextGroup <= Taken(u)
               /\ Agree(rows, links \cup torn \cup {u}, Regrouped(u), Taken(u))
               /\ Ascending(rows, links \cup {u}, t, Taken(u))
               /\ Chained(rows, links \cup {u} \cup T)
               /\ Chained(rows, links \cup {u})
<1> DEFINE t == pass.todo
           u == t[1]
           T == {Tail(t)[i] : i \in DOMAIN Tail(t)}
           L == links \cup {u}
           n == u.group + 1
<1>2. /\ t \in Seq(Link) /\ Head(t) = u /\ 1 \in DOMAIN t /\ u \in Link
      /\ DOMAIN t = 1 .. Len(t) /\ Len(t) \in Nat
      /\ DOMAIN Tail(t) = 1 .. Len(t) - 1
      /\ \A i \in 1 .. Len(t) - 1 : Tail(t)[i] = t[i + 1] /\ i + 1 \in 1 .. Len(t)
      /\ u.group \in Nat \ {0}
  BY HeadOfTodo
<1>3. /\ dbOpen /\ Agree(rows, links \cup torn, group, nextGroup)
      /\ Ascending(rows, links, t, nextGroup)
      /\ Chained(rows, links \cup Todo)
  BY DEF GroupsInv
<1>4. Todo = {t[i] : i \in DOMAIN t}
  BY DEF Todo
<1> HIDE DEF t
<1>5. u.event \in DOMAIN rows /\ u.group >= nextGroup - 1
  BY <1>2, <1>3 DEF Ascending
<1>6. /\ WithLink(u) = links \cup {u} /\ Taken(u) = n /\ n \in Nat /\ nextGroup <= n
      /\ Regrouped(u) = [group EXCEPT ![u.event] = u.group]
  <2>1. DOMAIN group = DOMAIN rows /\ nextGroup \in Nat
    BY GroupTypes
  <2>2. QED BY <2>1, <1>2, <1>3, <1>5 DEF Regrouped, WithLink, Taken
<1>7. Agree(rows, links \cup torn \cup {u}, Regrouped(u), n)
  <2>1. /\ nextGroup \in Nat /\ group \in [DOMAIN rows -> Nat]
        /\ \A l \in links \cup torn : l.group \in Nat
    BY GroupTypes
  <2> HIDE DEF u
  <2>2. Agree(rows, (links \cup torn) \cup {u}, [group EXCEPT ![u.event] = u.group],
              u.group + 1)
    BY <2>1, <1>2, <1>3, <1>5, OneUpdateAgrees
  <2>3. QED BY <2>2, <1>6
<1>8. Ascending(rows, L, Tail(t), n)
  <2>1. \A i \in 1 .. Len(t) - 1 :
           /\ t[i + 1].event \in DOMAIN rows /\ t[i + 1].group \in Nat
           /\ \/ u.group < t[i + 1].group
              \/ u.group = t[i + 1].group /\ Prec(rows, u.event, t[i + 1].event)
    <3> SUFFICES ASSUME NEW i \in 1 .. Len(t) - 1
                 PROVE  /\ t[i + 1].event \in DOMAIN rows /\ t[i + 1].group \in Nat
                        /\ \/ u.group < t[i + 1].group
                           \/ u.group = t[i + 1].group /\ Prec(rows, u.event, t[i + 1].event)
      OBVIOUS
    <3>1. i + 1 \in DOMAIN t /\ 1 \in DOMAIN t /\ 1 < i + 1
      BY <1>2
    <3>2. t[i + 1] \in links \cup Todo
      BY <3>1, <1>4
    <3>3. t[i + 1].group \in Nat
      BY <3>2, GroupTypes
    <3>4. QED BY <3>1, <3>3, <1>3 DEF Ascending
  <2>2. \A i \in DOMAIN Tail(t) : /\ Tail(t)[i].event \in DOMAIN rows
                                  /\ Tail(t)[i].group >= n - 1
    BY <2>1, <1>2, <1>6
  <2>3. ASSUME NEW i \in DOMAIN Tail(t), NEW j \in DOMAIN Tail(t), i < j
        PROVE  \/ Tail(t)[i].group < Tail(t)[j].group
               \/ /\ Tail(t)[i].group = Tail(t)[j].group
                  /\ Prec(rows, Tail(t)[i].event, Tail(t)[j].event)
    <3>1. /\ i + 1 \in DOMAIN t /\ j + 1 \in DOMAIN t /\ i + 1 < j + 1
          /\ Tail(t)[i] = t[i + 1] /\ Tail(t)[j] = t[j + 1]
      BY <1>2, <2>3
    <3>2. QED BY <3>1, <1>3 DEF Ascending
  <2>4. ASSUME NEW l \in L, NEW i \in DOMAIN Tail(t), l.group = Tail(t)[i].group
        PROVE  Prec(rows, l.event, Tail(t)[i].event)
    <3>1. i \in 1 .. Len(t) - 1 /\ i + 1 \in DOMAIN t /\ Tail(t)[i] = t[i + 1]
      BY <1>2
    <3>2. CASE l \in links
      BY <3>1, <3>2, <2>4, <1>3 DEF Ascending
    <3>3. CASE l = u
      BY <3>1, <3>3, <2>1, <2>4, <1>2
    <3>4. QED BY <3>2, <3>3
  <2>5. QED BY <2>2, <2>3, <2>4 DEF Ascending
<1>9. L \cup T = links \cup Todo
  <2>1. Todo = {u} \cup T
    <3>1. \A i \in DOMAIN t : i = 1 \/ i - 1 \in 1 .. Len(t) - 1
      BY <1>2
    <3>2. \A i \in DOMAIN t : i = 1 \/ (Tail(t)[i - 1] = t[i] /\ i - 1 \in DOMAIN Tail(t))
      <4> SUFFICES ASSUME NEW i \in DOMAIN t, i # 1
                   PROVE  Tail(t)[i - 1] = t[i] /\ i - 1 \in DOMAIN Tail(t)
        OBVIOUS
      <4>1. i - 1 \in 1 .. Len(t) - 1 /\ (i - 1) + 1 = i
        BY <3>1, <1>2
      <4>2. QED BY <4>1, <1>2
    <3>3. \A i \in DOMAIN t : t[i] \in {u} \cup T
      BY <3>2, <1>4
    <3>4. \A i \in DOMAIN Tail(t) : Tail(t)[i] \in Todo
      BY <1>2, <1>4
    <3>5. u \in Todo
      BY <1>2, <1>4
    <3>6. QED BY <3>3, <3>4, <3>5, <1>4
  <2>2. QED BY <2>1
<1>10. Chained(rows, L \cup T)
  BY <1>3, <1>9
<1>11. Chained(rows, L)
  <2>1. \A l \in L \cup T : l.event \in DOMAIN rows
    <3>1. \A l \in links : l.event \in DOMAIN rows
      BY <1>3 DEF Agree
    <3>2. \A l \in Todo : l.event \in DOMAIN rows
      BY <1>3, <1>4 DEF Ascending
    <3>3. QED BY <3>1, <3>2, <1>9
  <2>2. \A l \in L \cup T : l.event \in Nat /\ rows[l.event].at \in Nat
    BY <2>1, GroupTypes
  <2>3. \A l \in L, m \in T : l.group = m.group => Prec(rows, l.event, m.event)
    BY <1>8 DEF Ascending
  <2> HIDE DEF L, T
  <2>4. QED BY <2>2, <2>3, <1>10, PrefixChained
<1>12. QED BY <1>2, <1>6, <1>7, <1>8, <1>10, <1>11 DEF t

LEMMA AssignKeepsGroups ==
    ASSUME Types, GroupsInv, AssignGroup
    PROVE  GroupsInv'
<1> SUFFICES ASSUME IdsAreFresh'  PROVE GroupsInv'
  BY DEF GroupsInv
<1> DEFINE u == Head(pass.todo)
           t == Tail(pass.todo)
<1>1. /\ pass.at = "update" /\ pass.todo # <<>>
      /\ pass' = [pass EXCEPT !.todo = Tail(@)]
      /\ group' = Regrouped(u) /\ links' = WithLink(u) /\ nextGroup' = Taken(u)
      /\ UNCHANGED <<rows, torn, dbOpen, faults>>
  BY DEF AssignGroup
<1>2. IdsAreFresh /\ dbOpen
  BY <1>1 DEF IdsAreFresh, GroupsInv
<1>3. pass'.at = "update" /\ pass'.todo = t
  BY <1>1, HeadOfTodo
<1>4. Todo' = {t[i] : i \in DOMAIN t}
  BY <1>3 DEF Todo
<1>5. /\ WithLink(u) = links \cup {u}
      /\ Agree(rows, links \cup torn \cup {u}, Regrouped(u), Taken(u))
      /\ Ascending(rows, links \cup {u}, t, Taken(u))
      /\ Chained(rows, links \cup {u} \cup Todo')
  BY <1>1, <1>2, <1>4, UpdateKeepsGroups
<1> HIDE DEF u, t
<1>6. links' \cup torn' = links \cup torn \cup {u}
  BY <1>1, <1>5
<1>7. QED BY <1>1, <1>2, <1>3, <1>5, <1>6 DEF GroupsInv

\* An update that raises leaves all of it, half of it or nothing.
LEMMA RaiseKeepsGroups ==
    ASSUME Types, GroupsInv, NEW done \in 0 .. 2, UpdateRaises(done)
    PROVE  GroupsInv'
<1> SUFFICES ASSUME IdsAreFresh'  PROVE GroupsInv'
  BY DEF GroupsInv
<1> DEFINE u == Head(pass.todo)
<1>1. /\ pass.at = "update" /\ pass.todo # <<>> /\ Fault("failure")
      /\ group' = IF done > 0 THEN Regrouped(u) ELSE group
      /\ links' = IF done = 2 THEN WithLink(u) ELSE links
      /\ torn' = IF done = 1 THEN torn \cup {u} ELSE torn
      /\ nextGroup' = Taken(u)
      /\ UNCHANGED <<rows, dbOpen>>
  BY DEF UpdateRaises
<1>2. pass'.at # "update" /\ faults \in Seq({"failure", "restart", "roll"})
  BY AsleepType DEF UpdateRaises, Types
<1>3. IdsAreFresh /\ dbOpen
  BY <1>1, <1>2, FreshStays DEF GroupsInv
<1>4. /\ WithLink(u) = links \cup {u} /\ Taken(u) \in Nat /\ nextGroup <= Taken(u)
      /\ Agree(rows, links \cup torn \cup {u}, Regrouped(u), Taken(u))
      /\ Chained(rows, links \cup {u})
  BY <1>1, <1>3, UpdateKeepsGroups
<1> HIDE DEF u
<1>5. Chained(rows, links)
  BY <1>3, GivenUpChained
<1>6. Todo' = {}
  BY <1>2 DEF Todo
<1>7. CASE done = 0
  BY <1>1, <1>2, <1>3, <1>4, <1>7, NoPassKeepsGroups
<1>8. CASE done > 0
  <2>1. links' \cup torn' = links \cup torn \cup {u}
    BY <1>1, <1>4, <1>8
  <2>2. links' \in {links, links \cup {u}} /\ links' \cup Todo' = links'
    BY <1>1, <1>4, <1>6
  <2>3. QED BY <2>1, <2>2, <1>1, <1>2, <1>3, <1>4, <1>5, <1>8 DEF GroupsInv
<1>9. QED BY <1>7, <1>8

LEMMA GroupsInvStep == Types /\ GroupsInv /\ [Next]_vars => GroupsInv'
<1> SUFFICES ASSUME Types, GroupsInv, [Next]_vars  PROVE GroupsInv'
  OBVIOUS
<1>0. faults \in Seq({"failure", "restart", "roll"}) /\ nextGroup \in Nat /\ now \in 0 .. MaxTime
  BY DEF Types
<1>1. ASSUME NEW dev \in Devices, NEW source \in Sources, NEW at \in 0 .. MaxTime,
             Occur(dev, source, at)
      PROVE  GroupsInv'
  BY <1>1, UntouchedKeepsGroups DEF Occur, tables
<1>2. ASSUME NEW n \in 1 .. MaxEvents, Store(n)  PROVE GroupsInv'
  BY <1>2, StoreKeepsGroups
<1>3. CASE Tick
  BY <1>3, UntouchedKeepsGroups DEF Tick, tables
<1>4. CASE BeginPass
  <2>1. UNCHANGED <<rows, group, links, torn, dbOpen, nextGroup, faults>> /\ pass'.at # "update"
    BY <1>4 DEF BeginPass, tables
  <2>2. CASE IdsAreFresh
    BY <2>1, <2>2, <1>0, NoPassKeepsGroups
  <2>3. CASE ~IdsAreFresh
    BY <2>1, <2>3 DEF GroupsInv, IdsAreFresh
  <2>4. QED BY <2>2, <2>3
<1>5. CASE Query
  <2> DEFINE ids == IF dbOpen THEN QueryWindow(pass.from, pass.to) ELSE {}
  <2>1. ids \in SUBSET DOMAIN rows
    BY DEF QueryWindow
  <2>2. UNCHANGED <<rows, group, links, torn, dbOpen, nextGroup, faults>> /\ pass.at # "update"
    BY <1>5 DEF Query, tables
  <2>3. pass' = IF ids = {} THEN Asleep(now + BatchInterval)
                ELSE [at |-> "update", to |-> pass.to, todo |-> Updates(ids),
                      newest |-> rows[Latest(ids)].at, rows |-> Len(rows)]
    BY <1>5 DEF Query
  <2> HIDE DEF ids
  <2>4. CASE ~IdsAreFresh
    BY <2>2, <2>4 DEF GroupsInv, IdsAreFresh
  <2>5. CASE IdsAreFresh /\ ids = {}
    <3>1. pass'.at # "update"
      BY <2>3, <2>5, <1>0, AsleepType
    <3>2. QED BY <3>1, <2>2, <2>5, <1>0, NoPassKeepsGroups
  <2>6. CASE IdsAreFresh /\ ids # {}
    <3>1. pass'.at = "update" /\ pass'.todo = Updates(ids)
      BY <2>3, <2>6
    <3>2. QED BY <3>1, <2>1, <2>2, <2>6, FoundKeepsGroups
  <2>7. QED BY <2>4, <2>5, <2>6
<1>6. CASE AssignGroup
  BY <1>6, AssignKeepsGroups
<1>7. CASE EndPass
  <2>1. UNCHANGED <<rows, group, links, torn, dbOpen, nextGroup, faults>> /\ pass'.at # "update"
    BY <1>7, <1>0, AsleepType DEF EndPass, tables
  <2>2. CASE IdsAreFresh
    BY <2>1, <2>2, <1>0, NoPassKeepsGroups
  <2>3. CASE ~IdsAreFresh
    BY <2>1, <2>3 DEF GroupsInv, IdsAreFresh
  <2>4. QED BY <2>2, <2>3
<1>8. CASE QueryRaises
  <2> SUFFICES ASSUME IdsAreFresh'  PROVE GroupsInv'
    BY DEF GroupsInv
  <2>1. /\ UNCHANGED <<rows, group, links, torn, dbOpen, nextGroup>> /\ pass'.at # "update"
        /\ Fault("failure")
    BY <1>8, <1>0, AsleepType DEF QueryRaises, tables
  <2>2. IdsAreFresh
    BY <2>1, <1>0, FreshStays
  <2>3. QED BY <2>1, <2>2, <1>0, NoPassKeepsGroups
<1>14. ASSUME NEW done \in 0 .. 2, UpdateRaises(done)  PROVE GroupsInv'
  BY <1>14, RaiseKeepsGroups
<1>15. CASE CommitElsewhere
  BY <1>15, UntouchedKeepsGroups DEF CommitElsewhere
<1>9. CASE Restart
  BY <1>0, <1>9, FreshStays DEF Restart, GroupsInv
<1>10. CASE RollCloses
  BY <1>0, <1>10, FreshStays DEF RollCloses, GroupsInv
<1>11. CASE RollOpens
  <2>1. ~IdsAreFresh
    BY <1>11 DEF RollOpens, GroupsInv
  <2>2. QED BY <2>1, <1>11 DEF RollOpens, GroupsInv, IdsAreFresh
<1>12. CASE UNCHANGED vars
  BY <1>12, UntouchedKeepsGroups DEF vars, tables
<1>13. QED
  BY <1>1, <1>2, <1>3, <1>4, <1>5, <1>6, <1>7, <1>8, <1>9, <1>10, <1>11, <1>12,
     <1>14, <1>15 DEF Next

\* The chains of the property are the chained links.
LEMMA ChainedAreChains ==
    ASSUME Types, IdsAreFresh, Chained(rows, links), \A l \in links : l.event \in DOMAIN rows
    PROVE  \A g \in Groups :
        LET ids   == Members(g)
            first == First(ids)
        IN  /\ \A e \in ids : rows[e].dev = rows[first].dev
            /\ \A e \in ids \ {first} :
                  \E d \in ids : /\ Before(d, e)
                                 /\ rows[e].at - rows[d].at <= Window
            /\ \A l \in links : l.group = g => (l.role = "PRIMARY" <=> l.event = first)
<1> SUFFICES ASSUME NEW g \in Groups
             PROVE  LET ids   == Members(g)
                        first == First(ids)
                    IN  /\ \A e \in ids : rows[e].dev = rows[first].dev
                        /\ \A e \in ids \ {first} :
                              \E d \in ids : /\ Before(d, e)
                                             /\ rows[e].at - rows[d].at <= Window
                        /\ \A l \in links :
                              l.group = g => (l.role = "PRIMARY" <=> l.event = first)
  OBVIOUS
<1> DEFINE ids == Members(g)
           first == First(ids)
<1>1. rows \in Seq(Row) /\ \A a, b \in DOMAIN rows : Before(a, b) <=> Prec(rows, a, b)
  BY DEF Types, Before, Prec
<1>2. /\ \A e \in ids : \E l \in links : l.group = g /\ l.event = e
      /\ \A l \in links : l.group = g => l.event \in ids
      /\ ids \in SUBSET DOMAIN rows
  BY DEF Members
<1>3. PICK p \in links : p.group = g /\ p.role = "PRIMARY"
  BY DEF Groups, Chained
<1>4. \A l \in links : l.group = g => l = p \/ Prec(rows, p.event, l.event)
  BY <1>3 DEF Chained
<1>5. p.event \in ids /\ \A e \in ids \ {p.event} : Before(p.event, e)
  BY <1>1, <1>2, <1>3, <1>4
<1>6. first = p.event
  BY <1>1, <1>2, <1>5, FirstIs
<1> HIDE DEF ids, first
<1>7. \A e \in ids : rows[e].dev = rows[first].dev
  BY <1>2, <1>3, <1>6 DEF Chained
<1>8. ASSUME NEW l \in links, l.group = g
      PROVE  l.role = "PRIMARY" <=> l.event = first
  <2>1. ASSUME l.event = first  PROVE l = p
    BY <2>1, <1>1, <1>4, <1>6, <1>8, BeforeIsAnOrder
  <2>2. ASSUME l.role = "PRIMARY"  PROVE l = p
    <3>1. p = l \/ Prec(rows, l.event, p.event)
      BY <2>2, <1>3, <1>8 DEF Chained
    <3>2. QED BY <3>1, <1>1, <1>4, <1>8, BeforeIsAnOrder
  <2>3. QED BY <2>1, <2>2, <1>3, <1>6
<1>9. ASSUME NEW e \in ids \ {first}
      PROVE  \E d \in ids : Before(d, e) /\ rows[e].at - rows[d].at <= Window
  <2>1. PICK l \in links : l.group = g /\ l.event = e
    BY <1>2
  <2>2. l.role # "PRIMARY"
    BY <2>1, <1>8
  <2>3. PICK m \in links : /\ m.group = l.group /\ Prec(rows, m.event, l.event)
                           /\ rows[l.event].at - rows[m.event].at <= Window
    BY <2>2 DEF Chained
  <2>4. QED BY <2>1, <2>3, <1>1, <1>2
<1>10. QED BY <1>7, <1>8, <1>9 DEF ids, first

\* With the invariants the two properties hold.
LEMMA GroupsInvImplies == Types /\ GroupsInv => GroupsAreChains /\ TablesAgree
<1> SUFFICES ASSUME Types, GroupsInv  PROVE GroupsAreChains /\ TablesAgree
  OBVIOUS
<1>1. TypeOK
  BY TypesAreOK
<1>2. CASE ~IdsAreFresh
  BY <1>1, <1>2 DEF GroupsAreChains, TablesAgree
<1>3. CASE IdsAreFresh
  <2>1. Agree(rows, links \cup torn, group, nextGroup)
    BY <1>3 DEF GroupsInv
  <2>2. \A l \in links : l.event \in DOMAIN rows
    BY <2>1 DEF Agree
  <2>3. TablesAgree
    BY <2>1 DEF Agree, TablesAgree
  <2>4. GroupsAreChains
    BY <1>1, <1>3, <2>2, GivenUpChained, ChainedAreChains DEF GroupsAreChains
  <2>5. QED BY <2>3, <2>4
<1>4. QED BY <1>2, <1>3

LEMMA GroupsInvAlways == Spec => [](Types /\ GroupsInv)
<1>1. Init => Types /\ GroupsInv
  BY TypesInit, GroupsInvInit
<1>2. Types /\ GroupsInv /\ [Next]_vars => (Types /\ GroupsInv)'
  BY TypesStep, GroupsInvStep
<1>3. QED BY <1>1, <1>2, PTL DEF Spec

-----------------------------------------------------------------------------
\* Whatever fails in the middle of a pass, the events of one group id are of one
\* device, each within a window of an earlier one, and exactly the earliest is
\* PRIMARY: _next_group_id is moved before the first set_group_id of a cluster, so a
\* pass that is tried again never adds to what the failed one left.
THEOREM GroupsStayChains == Spec => []GroupsAreChains
BY GroupsInvAlways, GroupsInvImplies, PTL

\* events.group_id is always the newest of the event's rows in event_groups and of the
\* updates of it whose row could not be inserted: set_group_id changes the tables in one
\* order, group ids only ascend, and a pass that is tried again takes new ones.
THEOREM TablesStayInAgreement == Spec => []TablesAgree
BY GroupsInvAlways, GroupsInvImplies, PTL

-----------------------------------------------------------------------------
\* What a pass brings together.

\* Two events of a device within a window of each other are in one cluster.
LEMMA NeighboursCluster ==
    ASSUME rows \in Seq(Row), NEW ids \in SUBSET DOMAIN rows,
           NEW a \in ids, NEW b \in ids, rows[a].dev = rows[b].dev,
           Before(a, b), rows[b].at - rows[a].at <= Window
    PROVE  \E s \in ids : Begins(ids, s) /\ {a, b} \subseteq ClusterFrom(ids, s)
<1> DEFINE mine == ByDevice(ids, a)
           begun == {x \in mine : Begins(ids, x) /\ (x = a \/ Before(x, a))}
           s == Latest(begun)
<1>1. /\ \A x \in DOMAIN rows : rows[x].at \in Int
      /\ \A x \in DOMAIN rows : ~Before(x, x)
      /\ \A x, y, z \in DOMAIN rows : Before(x, y) /\ Before(y, z) => Before(x, z)
      /\ \A x, y \in DOMAIN rows : x # y => Before(x, y) \/ Before(y, x)
      /\ \A x, y \in DOMAIN rows : Before(x, y) => rows[x].at <= rows[y].at
  BY BeforeIsAnOrder
<1>2. /\ mine \in SUBSET ids /\ a \in mine /\ b \in mine
      /\ \A x \in mine : ByDevice(ids, x) = mine
      /\ mine \in SUBSET DOMAIN rows
  BY DEF ByDevice
<1>3. begun # {}
  <2>1. First(mine) \in mine /\ \A x \in mine \ {First(mine)} : Before(First(mine), x)
    BY <1>2, IdsHaveEnds
  <2> DEFINE f == First(mine)
  <2> HIDE DEF f, mine
  <2>2. f \in mine /\ \A x \in mine \ {f} : Before(f, x)
    BY <2>1 DEF f
  <2>3. \A x \in mine : ~Before(x, f)
    BY <2>2, <1>1, <1>2
  <2>4. Begins(ids, f)
    BY <2>2, <2>3, <1>2 DEF Begins
  <2>5. f = a \/ Before(f, a)
    BY <2>2, <1>2
  <2>6. f \in begun
    BY <2>2, <2>4, <2>5
  <2>7. QED BY <2>6
<1>4. s \in begun /\ \A x \in begun \ {s} : Before(x, s)
  <2>1. begun \in SUBSET DOMAIN rows
    BY <1>2
  <2> HIDE DEF begun
  <2>2. QED BY <2>1, <1>3, IdsHaveEnds
<1> HIDE DEF s, mine
<1>5. s \in mine /\ Begins(ids, s) /\ (s = a \/ Before(s, a))
  BY <1>4
<1>6. \A x \in mine : Begins(ids, x) /\ Before(s, x) => Before(a, x)
  <2> SUFFICES ASSUME NEW x \in mine, Begins(ids, x), Before(s, x)  PROVE Before(a, x)
    OBVIOUS
  <2>1. SUFFICES ASSUME x = a \/ Before(x, a)  PROVE FALSE
    BY <1>1, <1>2
  <2>2. x \in begun
    BY <2>1
  <2>3. x = s \/ Before(x, s)
    BY <2>2, <1>4
  <2>4. QED BY <2>3, <1>1, <1>2, <1>5
<1>7. \A x \in mine : Begins(ids, x) /\ Before(s, x) => Before(b, x)
  <2> SUFFICES ASSUME NEW x \in mine, Begins(ids, x), Before(s, x)  PROVE Before(b, x)
    OBVIOUS
  <2>1. Before(a, x)
    BY <1>6
  <2>2. rows[x].at - rows[a].at > Window
    BY <2>1, <1>2 DEF Begins
  <2>3. SUFFICES ASSUME x = b \/ Before(x, b)  PROVE FALSE
    BY <1>1, <1>2
  <2>4. rows[x].at <= rows[b].at
    BY <2>3, <1>1, <1>2
  <2>5. rows[x].at \in Int /\ rows[a].at \in Int /\ rows[b].at \in Int /\ Window \in Int
    BY <1>1, <1>2, CorrelationAssumption
  <2>6. QED BY <2>2, <2>4, <2>5
<1>8. Before(s, b) /\ \A x \in mine : ~Before(x, x)
  BY <1>1, <1>2, <1>5
<1>9. a \in ClusterFrom(ids, s) /\ b \in ClusterFrom(ids, s)
  <2>1. ByDevice(ids, s) = mine
    BY <1>2, <1>5
  <2>2. \A x \in mine : Begins(ids, x) /\ Before(s, x) =>
           Before(a, x) /\ a # x /\ Before(b, x) /\ b # x
    BY <1>2, <1>6, <1>7, <1>8
  <2>3. QED BY <2>1, <2>2, <1>2, <1>5, <1>8 DEF ClusterFrom
<1>10. QED BY <1>2, <1>5, <1>9

\* A cluster with events of two sources is grouped.
LEMMA TwoSourcesGroup ==
    ASSUME rows \in Seq(Row), NEW ids \in SUBSET DOMAIN rows,
           NEW s \in ids, Begins(ids, s), NEW c, c = ClusterFrom(ids, s),
           NEW a \in c, NEW b \in c, rows[a].source # rows[b].source
    PROVE  c \in ClusterEvents(ids)
<1> DEFINE T == {rows[e].source : e \in c}
           f == [e \in c |-> rows[e].source]
<1>1. c \in SUBSET ids
  BY ClusterIsAChain
<1>2. IsFiniteSet(c)
  BY <1>1, IdsAreFinite, FS_Subset
<1>3. f \in Surjection(c, T)
  BY DEF Surjection
<1>4. IsFiniteSet(T)
  <2> HIDE DEF f, T
  <2>1. QED BY <1>2, <1>3, FS_Surjection
<1> DEFINE x == rows[a].source
           y == rows[b].source
<1>5. x \in T /\ y \in T /\ x # y
  OBVIOUS
<1> HIDE DEF T, x, y
<1>6. IsFiniteSet({x}) /\ Cardinality({x}) = 1
  BY FS_Singleton
<1> DEFINE P == {x} \cup {y}
<1>7. /\ IsFiniteSet(P)
      /\ Cardinality(P) = IF y \in {x} THEN Cardinality({x}) ELSE Cardinality({x}) + 1
  BY <1>6, FS_AddElement
<1>8. P \in SUBSET T
  BY <1>5
<1> HIDE DEF P
<1>9. Cardinality(P) = 2 /\ Cardinality(P) <= Cardinality(T)
  <2>1. y \notin {x}
    BY <1>5
  <2>2. Cardinality(P) = 1 + 1
    BY <2>1, <1>6, <1>7
  <2>3. QED BY <2>2, <1>4, <1>8, FS_Subset
<1>10. Cardinality(T) >= 2
  BY <1>4, <1>9, FS_CardinalityType
<1>11. QED BY <1>10 DEF ClusterEvents, T

\* Two events that a pass with these bounds has to bring together.
Near(R, a, b, since, until) ==
    /\ R[a].dev = R[b].dev /\ R[a].source # R[b].source
    /\ R[b].at - R[a].at \in 0 .. Window
    /\ since <= R[a].at /\ R[b].at <= until
Share(a, b, L) == \E l, m \in L : l.event = a /\ m.event = b /\ l.group = m.group

LEMMA NeighboursShare ==
    ASSUME rows \in Seq(Row), NEW ids \in SUBSET DOMAIN rows, nextGroup \in Nat \ {0},
           NEW a \in ids, NEW b \in ids,
           rows[a].dev = rows[b].dev, rows[a].source # rows[b].source,
           rows[b].at - rows[a].at \in 0 .. Window
    PROVE  Share(a, b, AllUpdates(ids))
<1>1. /\ rows[a].at \in Int /\ rows[b].at \in Int /\ Window \in Nat
      /\ Before(a, b) \/ Before(b, a)
      /\ Before(b, a) => rows[b].at <= rows[a].at
  <2>1. a # b
    OBVIOUS
  <2>2. QED BY <2>1, BeforeIsAnOrder, CorrelationAssumption
<1>2. \E s \in ids : Begins(ids, s) /\ {a, b} \subseteq ClusterFrom(ids, s)
  <2>1. CASE Before(a, b)
    BY <2>1, <1>1, NeighboursCluster
  <2>2. CASE Before(b, a)
    <3>1. rows[a].at - rows[b].at <= Window
      BY <2>2, <1>1
    <3>2. \E s \in ids : Begins(ids, s) /\ {b, a} \subseteq ClusterFrom(ids, s)
      BY <2>2, <3>1, NeighboursCluster
    <3>3. QED BY <3>2
  <2>3. QED BY <2>1, <2>2, <1>1
<1>3. PICK s \in ids : Begins(ids, s) /\ {a, b} \subseteq ClusterFrom(ids, s)
  BY <1>2
<1> DEFINE c == ClusterFrom(ids, s)
<1>4. a \in c /\ b \in c
  BY <1>3
<1>5. c \in ClusterEvents(ids)
  BY <1>3, <1>4, TwoSourcesGroup
<1> HIDE DEF c
<1>6. PICK u \in AllUpdates(ids) : u.event = a /\ u.group = GroupOf(ids, c)
  BY <1>4, <1>5, ClusterHasUpdates
<1>7. PICK v \in AllUpdates(ids) : v.event = b /\ v.group = GroupOf(ids, c)
  BY <1>4, <1>5, ClusterHasUpdates
<1>8. QED BY <1>6, <1>7 DEF Share

-----------------------------------------------------------------------------
\* What is inductive about time, of rows R, a queue Q and the time t.

\* What is stored or waits after something else is not older by more than MaxSkew.
Late(R, Q, t) ==
    /\ \A a \in DOMAIN R : R[a].at <= t
    /\ \A a, b \in DOMAIN R : a < b => R[b].at >= R[a].at - MaxSkew
    /\ \A j \in DOMAIN Q : /\ Q[j].since <= t /\ Q[j].at <= Q[j].since
                           /\ Q[j].at >= Q[j].since - MaxSkew
    /\ \A j, k \in DOMAIN Q : j < k => Q[j].since <= Q[k].since
    /\ \A a \in DOMAIN R, j \in DOMAIN Q : R[a].at <= Q[j].since

\* Nothing after the first n rows is older than m by more than that.
Marked(R, Q, n, m) ==
    /\ \A j \in DOMAIN Q : m <= Q[j].since
    /\ \A a \in DOMAIN R : a > n => R[a].at >= m - MaxSkew

Times(R, Q) ==
    /\ MaxSkew \in Nat
    /\ DOMAIN R = 1 .. Len(R) /\ Len(R) \in Nat
    /\ DOMAIN Q = 1 .. Len(Q) /\ Len(Q) \in Nat
    /\ \A a \in DOMAIN R : R[a].at \in Nat
    /\ \A j \in DOMAIN Q : Q[j].at \in Nat /\ Q[j].since \in Nat

LateInv ==
    /\ Late(rows, waiting, now)
    /\ watermark <= now /\ Marked(rows, waiting, covered.rows, watermark)
    /\ pass.at = "update" => Marked(rows, waiting, pass.rows, pass.newest)

LEMMA TimesHere == Types => Times(rows, waiting) /\ now \in Nat
<1> SUFFICES ASSUME Types  PROVE Times(rows, waiting) /\ now \in Nat
  OBVIOUS
<1>1. /\ rows \in Seq(Row) /\ waiting \in Seq(Event) /\ now \in 0 .. MaxTime
      /\ MaxTime \in Nat /\ MaxSkew \in Nat
  BY CorrelationAssumption DEF Types
<1>2. \A a \in DOMAIN rows : rows[a].at \in 0 .. MaxTime
  BY <1>1, BeforeIsAnOrder
<1>3. \A j \in DOMAIN waiting : waiting[j] \in Event
  BY <1>1
<1>4. \A e \in Event : e.at \in 0 .. MaxTime /\ e.since \in 0 .. MaxTime
  BY DEF Event
<1>5. QED BY <1>1, <1>2, <1>3, <1>4 DEF Times

\* The first n of the queue Q go to the rows R; S and P are what is there then.
Moved(R, Q, n, S, P) ==
    /\ n \in 0 .. Len(Q)
    /\ DOMAIN S = 1 .. Len(R) + n /\ DOMAIN P = 1 .. Len(Q) - n
    /\ \A a \in DOMAIN R : S[a] = R[a]
    /\ \A k \in 1 .. n : S[Len(R) + k].at = Q[k].at
    /\ \A j \in 1 .. Len(Q) - n : P[j] = Q[n + j]

\* Where a row and an event were before.
LEMMA MovedFrom ==
    ASSUME NEW R, NEW Q, Times(R, Q), NEW n, NEW S, NEW P, Moved(R, Q, n, S, P)
    PROVE  /\ \A a \in DOMAIN S :
                 \/ a \in DOMAIN R /\ S[a].at = R[a].at
                 \/ a > Len(R) /\ \E k \in DOMAIN Q : k = a - Len(R) /\ k <= n /\ S[a].at = Q[k].at
           /\ \A j \in DOMAIN P : n + j \in DOMAIN Q /\ P[j] = Q[n + j] /\ n < n + j
<1>1. /\ Len(R) \in Nat /\ Len(Q) \in Nat /\ n \in 0 .. Len(Q)
      /\ DOMAIN R = 1 .. Len(R) /\ DOMAIN Q = 1 .. Len(Q)
      /\ DOMAIN S = 1 .. Len(R) + n /\ DOMAIN P = 1 .. Len(Q) - n
  BY DEF Times, Moved
<1>2. ASSUME NEW a \in DOMAIN S, a \notin DOMAIN R
      PROVE  a > Len(R) /\ \E k \in DOMAIN Q : k = a - Len(R) /\ k <= n /\ S[a].at = Q[k].at
  <2>1. a > Len(R) /\ a - Len(R) \in 1 .. n /\ a - Len(R) \in DOMAIN Q
        /\ Len(R) + (a - Len(R)) = a /\ a - Len(R) <= n
    BY <1>1, <1>2
  <2>2. S[a].at = Q[a - Len(R)].at
    BY <2>1 DEF Moved
  <2>3. QED BY <2>1, <2>2
<1>3. \A j \in DOMAIN P : n + j \in DOMAIN Q /\ n < n + j
  BY <1>1
<1>4. QED BY <1>1, <1>2, <1>3 DEF Moved

LEMMA MovedLate ==
    ASSUME NEW R, NEW Q, Times(R, Q), NEW n, NEW S, NEW P, Moved(R, Q, n, S, P),
           NEW t \in Nat, Late(R, Q, t)
    PROVE  Late(S, P, t)
<1>1. /\ \A a \in DOMAIN S :
            \/ a \in DOMAIN R /\ S[a].at = R[a].at
            \/ a > Len(R) /\ \E k \in DOMAIN Q : k = a - Len(R) /\ k <= n /\ S[a].at = Q[k].at
      /\ \A j \in DOMAIN P : n + j \in DOMAIN Q /\ P[j] = Q[n + j] /\ n < n + j
  BY MovedFrom
<1>2. /\ MaxSkew \in Nat /\ Len(R) \in Nat /\ n \in Nat
      /\ DOMAIN R = 1 .. Len(R) /\ DOMAIN Q = 1 .. Len(Q) /\ Len(Q) \in Nat
      /\ \A a \in DOMAIN R : R[a].at \in Nat
      /\ \A j \in DOMAIN Q : Q[j].at \in Nat /\ Q[j].since \in Nat
      /\ DOMAIN S = 1 .. Len(R) + n /\ DOMAIN P = 1 .. Len(Q) - n
  BY DEF Times, Moved
<1>3. \A a \in DOMAIN S : S[a].at <= t
  <2> SUFFICES ASSUME NEW a \in DOMAIN S  PROVE S[a].at <= t
    OBVIOUS
  <2>1. CASE a \in DOMAIN R /\ S[a].at = R[a].at
    BY <2>1 DEF Late
  <2>2. ASSUME NEW k \in DOMAIN Q, S[a].at = Q[k].at  PROVE S[a].at <= t
    BY <2>2, <1>2 DEF Late
  <2>3. QED BY <2>1, <2>2, <1>1
<1>4. ASSUME NEW a \in DOMAIN S, NEW b \in DOMAIN S, a < b
      PROVE  S[b].at >= S[a].at - MaxSkew
  <2>1. CASE a \in DOMAIN R /\ b \in DOMAIN R /\ S[a].at = R[a].at /\ S[b].at = R[b].at
    BY <2>1, <1>4 DEF Late
  <2>2. ASSUME a \in DOMAIN R, S[a].at = R[a].at, NEW k \in DOMAIN Q, S[b].at = Q[k].at
        PROVE  S[b].at >= S[a].at - MaxSkew
    <3>1. /\ R[a].at <= Q[k].since /\ Q[k].at >= Q[k].since - MaxSkew
      BY <2>2 DEF Late
    <3>2. QED BY <3>1, <2>2, <1>2
  <2>3. ASSUME NEW j \in DOMAIN Q, j = a - Len(R), S[a].at = Q[j].at,
               NEW k \in DOMAIN Q, k = b - Len(R), S[b].at = Q[k].at
        PROVE  S[b].at >= S[a].at - MaxSkew
    <3>1. j < k
      BY <2>3, <1>2, <1>4
    <3>2. /\ Q[j].since <= Q[k].since /\ Q[k].at >= Q[k].since - MaxSkew
          /\ Q[j].at <= Q[j].since
      BY <3>1 DEF Late
    <3>3. /\ MaxSkew \in Nat /\ Q[j].at \in Nat /\ Q[j].since \in Nat
          /\ Q[k].at \in Nat /\ Q[k].since \in Nat
      BY <1>2
    <3>4. Q[k].at >= Q[j].at - MaxSkew
      BY <3>2, <3>3
    <3>5. QED BY <3>4, <2>3
  <2>4. ~(a > Len(R) /\ b \in DOMAIN R)
    BY <1>2, <1>4
  <2>5. QED BY <1>1, <2>1, <2>2, <2>3, <2>4
<1>5. \A j \in DOMAIN P : /\ P[j].since <= t /\ P[j].at <= P[j].since
                          /\ P[j].at >= P[j].since - MaxSkew
  BY <1>1 DEF Late
<1>6. ASSUME NEW j \in DOMAIN P, NEW k \in DOMAIN P, j < k  PROVE P[j].since <= P[k].since
  <2>1. n + j < n + k
    BY <1>2, <1>6
  <2>2. QED BY <2>1, <1>1 DEF Late
<1>7. ASSUME NEW a \in DOMAIN S, NEW j \in DOMAIN P  PROVE S[a].at <= P[j].since
  <2>1. CASE a \in DOMAIN R /\ S[a].at = R[a].at
    BY <2>1, <1>1 DEF Late
  <2>2. ASSUME NEW k \in DOMAIN Q, k <= n, S[a].at = Q[k].at  PROVE S[a].at <= P[j].since
    <3>1. k < n + j /\ n + j \in DOMAIN Q
      BY <2>2, <1>1, <1>2
    <3>2. Q[k].at <= Q[k].since /\ Q[k].since <= Q[n + j].since
      BY <3>1 DEF Late
    <3>3. QED BY <3>1, <3>2, <2>2, <1>1, <1>2
  <2>3. QED BY <2>1, <2>2, <1>1
<1>8. QED BY <1>3, <1>4, <1>5, <1>6, <1>7 DEF Late

LEMMA MovedMarked ==
    ASSUME NEW R, NEW Q, Times(R, Q), NEW n, NEW S, NEW P, Moved(R, Q, n, S, P),
           NEW t \in Nat, Late(R, Q, t), NEW i \in Nat, NEW m \in Nat, Marked(R, Q, i, m)
    PROVE  Marked(S, P, i, m)
<1>1. /\ \A a \in DOMAIN S :
            \/ a \in DOMAIN R /\ S[a].at = R[a].at
            \/ a > Len(R) /\ \E k \in DOMAIN Q : k = a - Len(R) /\ k <= n /\ S[a].at = Q[k].at
      /\ \A j \in DOMAIN P : n + j \in DOMAIN Q /\ P[j] = Q[n + j] /\ n < n + j
  BY MovedFrom
<1>2. ASSUME NEW a \in DOMAIN S, a > i  PROVE S[a].at >= m - MaxSkew
  <2>1. CASE a \in DOMAIN R /\ S[a].at = R[a].at
    BY <2>1, <1>2 DEF Marked
  <2>2. ASSUME NEW k \in DOMAIN Q, S[a].at = Q[k].at  PROVE S[a].at >= m - MaxSkew
    <3>1. m <= Q[k].since /\ Q[k].at >= Q[k].since - MaxSkew
      BY DEF Marked, Late
    <3>2. QED BY <3>1, <2>2 DEF Times
  <2>3. QED BY <2>1, <2>2, <1>1
<1>3. \A j \in DOMAIN P : m <= P[j].since
  BY <1>1 DEF Marked
<1>4. QED BY <1>2, <1>3 DEF Marked

\* What happens now comes last.
LEMMA QueuedLate ==
    ASSUME NEW R, NEW Q \in Seq(Event), Times(R, Q), NEW t \in Nat, Late(R, Q, t),
           NEW e \in Event, e.since = t, e.at \in t - MaxSkew .. t
    PROVE  /\ Late(R, Append(Q, e), t)
           /\ \A n, m \in Nat : m <= t /\ Marked(R, Q, n, m) => Marked(R, Append(Q, e), n, m)
<1> DEFINE P == Append(Q, e)
<1>1. /\ Len(Q) \in Nat /\ DOMAIN Q = 1 .. Len(Q) /\ DOMAIN P = 1 .. Len(Q) + 1
      /\ P[Len(Q) + 1] = e /\ \A j \in DOMAIN Q : P[j] = Q[j]
  OBVIOUS
<1> HIDE DEF P
<1> DEFINE last == Len(Q) + 1
<1>2. last \in Nat \ {0} /\ DOMAIN Q = 1 .. last - 1 /\ DOMAIN P = 1 .. last
      /\ P[last] = e
  BY <1>1
<1> HIDE DEF last
<1>0. \A j \in DOMAIN P : \/ j \in DOMAIN Q /\ P[j] = Q[j]
                          \/ j = last /\ P[j] = e
  <2>1. \A j \in 1 .. last : j \in 1 .. last - 1 \/ j = last
    BY <1>2
  <2>2. QED BY <2>1, <1>1, <1>2
<1>3. /\ MaxSkew \in Nat /\ \A a \in DOMAIN R : R[a].at \in Nat
      /\ \A j \in DOMAIN Q : Q[j].since \in Nat
  BY DEF Times
<1>4. \A j \in DOMAIN P : P[j].since <= t /\ P[j].at <= P[j].since
                          /\ P[j].at >= P[j].since - MaxSkew
  BY <1>0, <1>3 DEF Late
<1>5. \A j, k \in DOMAIN P : j < k => P[j].since <= P[k].since
  <2> SUFFICES ASSUME NEW j \in DOMAIN P, NEW k \in DOMAIN P, j < k
               PROVE  P[j].since <= P[k].since
    OBVIOUS
  <2>1. j # last
    BY <1>2
  <2>2. j \in DOMAIN Q /\ P[j] = Q[j] /\ Q[j].since <= t
    BY <2>1, <1>0 DEF Late
  <2>3. CASE k \in DOMAIN Q /\ P[k] = Q[k]
    BY <2>2, <2>3 DEF Late
  <2>4. CASE k = last /\ P[k] = e
    BY <2>2, <2>4
  <2>5. QED BY <2>3, <2>4, <1>0
<1>6. \A a \in DOMAIN R, j \in DOMAIN P : R[a].at <= P[j].since
  BY <1>0 DEF Late
<1>7. Late(R, P, t)
  BY <1>4, <1>5, <1>6 DEF Late
<1>8. \A n, m \in Nat : m <= t /\ Marked(R, Q, n, m) => Marked(R, P, n, m)
  BY <1>0 DEF Marked
<1>9. QED BY <1>7, <1>8 DEF P

\* Time does no harm.
LEMMA LaterLate ==
    ASSUME NEW R, NEW Q, Times(R, Q), NEW t \in Nat, NEW u \in Nat, t <= u, Late(R, Q, t)
    PROVE  Late(R, Q, u)
BY DEF Late, Times

\* The sink's commit moves the oldest that wait to the table.
LEMMA StoreMoves ==
    ASSUME Types, NEW n \in 1 .. Len(waiting), rows' = rows \o Stored(n),
           waiting' = SubSeq(waiting, n + 1, Len(waiting))
    PROVE  Moved(rows, waiting, n, rows', waiting')
<1>1. n \in 0 .. Len(waiting) /\ Len(waiting) \in Nat
  BY DEF Types
<1>2. /\ rows' \in Seq(Row) /\ Len(rows') = Len(rows) + n
      /\ \A a \in DOMAIN rows : rows'[a] = rows[a]
      /\ \A i \in 1 .. n : rows'[Len(rows) + i].at = waiting[i].at
  BY <1>1, StoredType
<1>3. /\ waiting' \in Seq(Event) /\ Len(waiting') = Len(waiting) - n
      /\ \A j \in 1 .. Len(waiting) - n : waiting'[j] = waiting[n + j]
  BY RestType
<1>4. DOMAIN rows' = 1 .. Len(rows) + n /\ DOMAIN waiting' = 1 .. Len(waiting) - n
  BY <1>2, <1>3
<1>5. QED BY <1>1, <1>2, <1>3, <1>4 DEF Moved

\* So does a restart, with all of them.
LEMMA RestartMoves ==
    ASSUME Types, rows' = rows \o Stored(Len(waiting)), waiting' = <<>>
    PROVE  Moved(rows, waiting, Len(waiting), rows', waiting')
<1>1. Len(waiting) \in 0 .. Len(waiting) /\ Len(waiting) \in Nat
  BY DEF Types
<1>2. /\ rows' \in Seq(Row) /\ Len(rows') = Len(rows) + Len(waiting)
      /\ \A a \in DOMAIN rows : rows'[a] = rows[a]
      /\ \A i \in 1 .. Len(waiting) : rows'[Len(rows) + i].at = waiting[i].at
  BY <1>1, StoredType
<1>3. /\ DOMAIN rows' = 1 .. Len(rows) + Len(waiting)
      /\ Len(waiting) - Len(waiting) = 0 /\ DOMAIN waiting' = 1 .. 0
      /\ \A j \in 1 .. Len(waiting) - Len(waiting) : FALSE
  BY <1>1, <1>2
<1>4. QED BY <1>1, <1>2, <1>3 DEF Moved

\* What is inductive about a pass, the watermark and the history of the passes.
PassInv ==
    /\ covered.rows <= Len(rows) /\ covered.until <= now
    /\ covered.rows > 0 => /\ watermark <= covered.until
                           /\ covered.since = covered.until - Lookback
    /\ pass.at # "sleep" => covered.until <= pass.to /\ pass.to <= now
    /\ pass.at = "query" => \/ pass.from = watermark - 2 * Window
                               /\ pass.from >= pass.to - Lookback
                            \/ pass.from = pass.to - Lookback
    /\ pass.at = "update" => /\ pass.rows <= Len(rows) /\ pass.newest <= pass.to
                             /\ pass.rows > 0 => dbOpen

\* What the last whole pass had to bring together shares a group, and what this one
\* has to bring together does so once its updates are made.
SharedInv ==
    /\ \A a, b \in 1 .. covered.rows :
          Near(rows, a, b, covered.since, covered.until) => Share(a, b, durable.links)
    /\ pass.at = "update" => \A a, b \in 1 .. pass.rows :
          Near(rows, a, b, pass.to - Lookback, pass.to) => Share(a, b, durable.links \cup Todo)

PairsInv == LateInv /\ PassInv /\ SharedInv

\* What is committed is seen; nothing but a roll takes links away from it.
KeptInv == durable.links \subseteq links

LEMMA CommitKeeps ==
    ASSUME KeptInv, Commit, links \subseteq links'
    PROVE  KeptInv' /\ durable.links \subseteq durable'.links
BY DEF KeptInv, Commit, Seen

LEMMA MoreShare ==
    ASSUME NEW K, NEW L, K \subseteq L, NEW a, NEW b, Share(a, b, K)
    PROVE  Share(a, b, L)
BY DEF Share

LEMMA RestartLinks ==
    ASSUME KeptInv, Restart
    PROVE  KeptInv' /\ durable.links \subseteq durable'.links
<1>1. PICK kept \in {Seen, durable} : links' = kept.links /\ Commit
  BY DEF Restart
<1>2. durable.links \subseteq kept.links
  BY <1>1 DEF Seen, KeptInv
<1>3. QED BY <1>1, <1>2 DEF Commit, Seen, KeptInv

LEMMA AssignLinks ==
    ASSUME KeptInv, AssignGroup
    PROVE  /\ KeptInv' /\ durable.links \subseteq durable'.links
           /\ dbOpen => Head(pass.todo) \in durable'.links
<1>1. links' = WithLink(Head(pass.todo)) /\ IF dbOpen THEN Commit ELSE UNCHANGED durable
  BY DEF AssignGroup
<1>2. links \subseteq links' /\ (dbOpen => Head(pass.todo) \in links')
  BY <1>1 DEF WithLink
<1>3. QED BY <1>1, <1>2, CommitKeeps DEF Commit, Seen, KeptInv

LEMMA KeptInvStep == KeptInv /\ [Next]_vars => KeptInv'
<1> SUFFICES ASSUME KeptInv, [Next]_vars  PROVE KeptInv'
  OBVIOUS
<1>1. CASE UNCHANGED tables
  BY <1>1 DEF tables, KeptInv
<1>2. ASSUME NEW n, Store(n)  PROVE KeptInv'
  BY <1>2, CommitKeeps DEF Store
<1>3. CASE CommitElsewhere
  BY <1>3, CommitKeeps DEF CommitElsewhere
<1>4. CASE AssignGroup
  BY <1>4, AssignLinks
<1>5. ASSUME NEW done, UpdateRaises(done)  PROVE KeptInv'
  BY <1>5 DEF UpdateRaises, WithLink, KeptInv
<1>6. CASE Restart
  BY <1>6, RestartLinks
<1>7. CASE RollCloses
  BY <1>7 DEF RollCloses, Commit, Seen, KeptInv
<1>8. CASE RollOpens
  BY <1>8 DEF RollOpens, KeptInv
<1>9. \/ UNCHANGED tables \/ CommitElsewhere \/ AssignGroup \/ Restart \/ RollCloses
      \/ RollOpens \/ (\E n \in 1 .. MaxEvents : Store(n))
      \/ \E done \in 0 .. 2 : UpdateRaises(done)
  BY DEF Next, Occur, Tick, BeginPass, Query, EndPass, QueryRaises, vars
<1>10. QED BY <1>1, <1>2, <1>3, <1>4, <1>5, <1>6, <1>7, <1>8, <1>9

\* The types of a pass, by its state.
LEMMA PassTypes ==
    ASSUME Types
    PROVE  /\ pass.at # "sleep" => pass.to \in 0 .. MaxTime /\ pass.to \in Nat
           /\ pass.at = "query" => pass.from \in Int
           /\ pass.at = "update" => pass.newest \in Nat /\ pass.rows \in Nat
           /\ covered.rows \in Nat /\ covered.since \in Int /\ covered.until \in Nat
           /\ watermark \in Nat /\ now \in Nat /\ now \in 0 .. MaxTime
           /\ Window \in Nat /\ Lookback \in Nat /\ MaxSkew \in Nat
           /\ Len(rows) \in Nat /\ DOMAIN rows = 1 .. Len(rows)
           /\ \A a \in DOMAIN rows : rows[a].at \in Nat
<1>1. MaxTime \in Nat /\ Window \in Nat /\ Lookback \in Nat /\ MaxSkew \in Nat
  BY CorrelationAssumption
<1>2. /\ pass \in Pass /\ covered \in [rows : Nat, since : Int, until : 0 .. MaxTime]
      /\ watermark \in 0 .. MaxTime /\ now \in 0 .. MaxTime
      /\ Len(rows) \in Nat /\ DOMAIN rows = 1 .. Len(rows)
  BY DEF Types
<1>3. \A a \in DOMAIN rows : rows[a].at \in Nat
  BY TimesHere DEF Times
<1>4. pass.at # "sleep" => pass.to \in 0 .. MaxTime
  BY <1>2 DEF Pass
<1>5. pass.at = "query" => pass.from \in Int
  BY <1>2 DEF Pass
<1>6. pass.at = "update" => pass.newest \in 0 .. MaxTime /\ pass.rows \in Nat
  BY <1>2 DEF Pass
<1>7. \A t \in 0 .. MaxTime : t \in Nat
  BY <1>1
<1>8. QED BY <1>1, <1>2, <1>3, <1>4, <1>5, <1>6, <1>7

LEMMA PairsInvInit == Init => PairsInv
<1> SUFFICES ASSUME Init  PROVE PairsInv
  OBVIOUS
<1>1. /\ now = 0 /\ rows = <<>> /\ waiting = <<>> /\ watermark = 0 /\ covered.rows = 0
      /\ covered.since = 0 /\ covered.until = 0 /\ pass.at = "sleep"
  BY DEF Init, Asleep, Nothing
<1>2. DOMAIN rows = {} /\ DOMAIN waiting = {} /\ Len(rows) = 0
  BY <1>1
<1>3. LateInv
  BY <1>1, <1>2 DEF LateInv, Late, Marked
<1>4. PassInv
  BY <1>1, <1>2 DEF PassInv
<1>5. SharedInv
  BY <1>1 DEF SharedInv
<1>6. QED BY <1>3, <1>4, <1>5 DEF PairsInv

\* The world and the sink leave LateInv as it is.
LEMMA OccurKeepsLate ==
    ASSUME Types, PairsInv, NEW dev \in Devices, NEW source \in Sources,
           NEW at \in 0 .. MaxTime, Occur(dev, source, at)
    PROVE  LateInv'
<1> DEFINE e == [dev |-> dev, source |-> source, at |-> at, since |-> now]
<1>1. /\ waiting' = Append(waiting, e) /\ at \in now - MaxSkew .. now
      /\ UNCHANGED <<now, rows, pass, nextGroup, watermark, covered, faults>>
  BY DEF Occur, tables
<1>2. /\ Times(rows, waiting) /\ now \in Nat /\ waiting \in Seq(Event)
      /\ now \in 0 .. MaxTime
  BY TimesHere DEF Types
<1>3. e \in Event /\ e.since = now /\ e.at = at
  BY <1>2 DEF Event
<1> HIDE DEF e
<1>4. Late(rows, waiting, now)
  BY DEF PairsInv, LateInv
<1>5. /\ Late(rows, waiting', now)
      /\ \A n, m \in Nat :
            m <= now /\ Marked(rows, waiting, n, m) => Marked(rows, waiting', n, m)
  BY <1>1, <1>2, <1>3, <1>4, QueuedLate
<1>6. watermark <= now /\ watermark \in Nat /\ covered.rows \in Nat
      /\ Marked(rows, waiting, covered.rows, watermark)
  BY PassTypes DEF PairsInv, LateInv
<1>7. ASSUME pass.at = "update"
      PROVE  /\ pass.newest \in Nat /\ pass.rows \in Nat /\ pass.newest <= now
             /\ Marked(rows, waiting, pass.rows, pass.newest)
  <2>1. /\ pass.newest \in Nat /\ pass.rows \in Nat /\ pass.to \in Nat /\ now \in Nat
        /\ pass.newest <= pass.to /\ pass.to <= now
        /\ Marked(rows, waiting, pass.rows, pass.newest)
    BY <1>7, PassTypes DEF PairsInv, LateInv, PassInv
  <2>2. QED BY <2>1
<1>8. QED BY <1>1, <1>5, <1>6, <1>7 DEF LateInv

LEMMA MovedKeepsLate ==
    ASSUME Types, PairsInv, NEW n, Moved(rows, waiting, n, rows', waiting'), now' = now
    PROVE  /\ Late(rows', waiting', now')
           /\ Marked(rows', waiting', covered.rows, watermark)
           /\ pass.at = "update" => Marked(rows', waiting', pass.rows, pass.newest)
<1>1. Times(rows, waiting) /\ now \in Nat /\ Late(rows, waiting, now)
  BY TimesHere DEF PairsInv, LateInv
<1>2. Late(rows', waiting', now)
  BY <1>1, MovedLate
<1>3. /\ covered.rows \in Nat /\ watermark \in Nat
      /\ Marked(rows, waiting, covered.rows, watermark)
  BY PassTypes DEF PairsInv, LateInv
<1>4. pass.at = "update" => /\ pass.rows \in Nat /\ pass.newest \in Nat
                            /\ Marked(rows, waiting, pass.rows, pass.newest)
  BY PassTypes DEF PairsInv, LateInv
<1>5. QED BY <1>1, <1>2, <1>3, <1>4, MovedMarked

LEMMA RowTimes ==
    ASSUME NEW R \in Seq(Row)
    PROVE  \A a \in DOMAIN R : R[a].at \in Nat
<1>1. \A a \in DOMAIN R : R[a] \in Row
  OBVIOUS
<1>2. \A r \in Row : r.at \in Nat
  BY CorrelationAssumption DEF Row
<1>3. QED BY <1>1, <1>2

\* The sink's commit and a restart.
LEMMA StoreKeepsPairs ==
    ASSUME Types, KeptInv, PairsInv, NEW n \in 1 .. MaxEvents, Store(n)
    PROVE  PairsInv'
<1>1. /\ n \in 1 .. Len(waiting) /\ rows' = rows \o Stored(n)
      /\ waiting' = SubSeq(waiting, n + 1, Len(waiting))
      /\ UNCHANGED <<now, dbOpen, pass, nextGroup, watermark, covered, faults>>
      /\ durable.links \subseteq durable'.links
  BY CommitKeeps DEF Store
<1>2. n \in 0 .. Len(waiting) /\ n \in Nat
  BY <1>1
<1>3. /\ Len(rows') = Len(rows) + n /\ Len(rows) \in Nat
      /\ \A a \in 1 .. Len(rows) : rows'[a] = rows[a]
  BY <1>1, <1>2, StoredType, PassTypes
<1>4. LateInv'
  <2>1. Moved(rows, waiting, n, rows', waiting')
    BY <1>1, StoreMoves
  <2>2. QED BY <2>1, <1>1, MovedKeepsLate DEF PairsInv, LateInv
<1>5. PassInv'
  <2>1. covered.rows <= Len(rows') /\ (pass.at = "update" => pass.rows <= Len(rows'))
    BY <1>2, <1>3, PassTypes DEF PairsInv, PassInv
  <2>2. QED BY <2>1, <1>1 DEF PairsInv, PassInv
<1>6. SharedInv'
  <2>1. Todo' = Todo
    BY <1>1 DEF Todo
  <2>9. /\ covered.rows \in Nat /\ covered.rows <= Len(rows)
        /\ pass.at = "update" => pass.rows \in Nat /\ pass.rows <= Len(rows)
    BY PassTypes DEF PairsInv, PassInv
  <2>2. /\ \A a \in 1 .. covered.rows : rows'[a] = rows[a]
        /\ pass.at = "update" => \A a \in 1 .. pass.rows : rows'[a] = rows[a]
    BY <2>9, <1>3, SMTT(60)
  <2>3. ASSUME NEW a \in 1 .. covered.rows, NEW b \in 1 .. covered.rows,
               Near(rows', a, b, covered.since, covered.until)
        PROVE  Share(a, b, durable.links)
    <3>1. Near(rows, a, b, covered.since, covered.until)
      BY <2>2, <2>3 DEF Near
    <3>2. QED BY <3>1 DEF PairsInv, SharedInv
  <2>4. ASSUME pass.at = "update", NEW a \in 1 .. pass.rows, NEW b \in 1 .. pass.rows,
               Near(rows', a, b, pass.to - Lookback, pass.to)
        PROVE  Share(a, b, durable.links \cup Todo)
    <3>1. Near(rows, a, b, pass.to - Lookback, pass.to)
      BY <2>2, <2>4 DEF Near
    <3>2. QED BY <3>1, <2>4 DEF PairsInv, SharedInv
  <2>5. durable.links \cup Todo \subseteq durable'.links \cup Todo'
    BY <1>1, <2>1
  <2>6. \A a, b : Share(a, b, durable.links) => Share(a, b, durable'.links)
    BY <1>1, MoreShare
  <2>7. \A a, b : Share(a, b, durable.links \cup Todo)
                    => Share(a, b, durable'.links \cup Todo')
    BY <2>5, MoreShare
  <2>8. QED BY <1>1, <2>3, <2>4, <2>6, <2>7 DEF SharedInv
<1>7. QED BY <1>4, <1>5, <1>6 DEF PairsInv

LEMMA RestartKeepsPairs ==
    ASSUME Types, KeptInv, PairsInv, Restart
    PROVE  PairsInv'
<1>1. /\ dbOpen /\ rows' = rows \o Stored(Len(waiting)) /\ waiting' = <<>>
      /\ pass' = Asleep(now + BatchInterval) /\ watermark' = 0
      /\ UNCHANGED <<now, dbOpen, covered>>
      /\ durable.links \subseteq durable'.links
  BY RestartLinks DEF Restart
<1>2. Len(waiting) \in 0 .. Len(waiting) /\ Len(waiting) \in Nat
  BY DEF Types
<1>3. /\ Len(rows') = Len(rows) + Len(waiting) /\ Len(rows) \in Nat
      /\ \A a \in 1 .. Len(rows) : rows'[a] = rows[a]
  BY <1>1, <1>2, StoredType, PassTypes
<1>4. pass'.at = "sleep"
  BY <1>1 DEF Asleep
<1>5. LateInv'
  <2>1. Moved(rows, waiting, Len(waiting), rows', waiting')
    BY <1>1, RestartMoves
  <2>2. Late(rows', waiting', now')
    BY <2>1, <1>1, MovedKeepsLate
  <2>3. \A a \in DOMAIN rows' : rows'[a].at \in Nat
    <3>1. rows' \in Seq(Row)
      BY <1>1, <1>2, StoredType
    <3>2. QED BY <3>1, RowTimes
  <2>4. Marked(rows', waiting', covered.rows, 0)
    <3>1. DOMAIN waiting' = {} /\ MaxSkew \in Nat
      BY <1>1, PassTypes
    <3>2. QED BY <2>3, <3>1 DEF Marked
  <2>5. QED BY <2>2, <2>4, <1>1, <1>4, PassTypes DEF LateInv
<1>6. PassInv'
  <2>1. covered.rows <= Len(rows')
    BY <1>2, <1>3, PassTypes DEF PairsInv, PassInv
  <2>2. QED BY <2>1, <1>1, <1>4, PassTypes DEF PairsInv, PassInv
<1>7. SharedInv'
  <2>1. \A a \in 1 .. covered.rows : rows'[a] = rows[a]
    BY <1>3, PassTypes DEF PairsInv, PassInv
  <2>2. ASSUME NEW a \in 1 .. covered.rows, NEW b \in 1 .. covered.rows,
               Near(rows', a, b, covered.since, covered.until)
        PROVE  Share(a, b, durable.links)
    <3>1. Near(rows, a, b, covered.since, covered.until)
      BY <2>1, <2>2 DEF Near
    <3>2. QED BY <3>1 DEF PairsInv, SharedInv
  <2>3. QED BY <2>2, <1>1, <1>4, MoreShare DEF SharedInv
<1>8. QED BY <1>5, <1>6, <1>7 DEF PairsInv

\* What leaves the tables and the passes' history alone, and starts no update.
LEMMA RestingKeepsPairs ==
    ASSUME Types, PairsInv, UNCHANGED <<waiting, rows, durable, watermark, covered>>,
           now' \in Nat, now <= now', pass'.at # "update",
           pass'.at # "sleep" =>
              /\ covered.until <= pass'.to /\ pass'.to <= now'
              /\ \/ pass'.from = watermark - 2 * Window /\ pass'.from >= pass'.to - Lookback
                 \/ pass'.from = pass'.to - Lookback
    PROVE  PairsInv'
<1>1. LateInv'
  <2>1. Times(rows, waiting) /\ now \in Nat /\ Late(rows, waiting, now)
    BY TimesHere DEF PairsInv, LateInv
  <2>2. Late(rows, waiting, now')
    BY <2>1, LaterLate
  <2>3. QED BY <2>2, PassTypes DEF PairsInv, LateInv
<1>2. PassInv'
  <2>1. covered.until <= now'
    BY PassTypes DEF PairsInv, PassInv
  <2>2. QED BY <2>1 DEF PairsInv, PassInv
<1>3. SharedInv'
  BY DEF PairsInv, SharedInv
<1>4. QED BY <1>1, <1>2, <1>3 DEF PairsInv

\* Time goes by.
LEMMA TickKeepsPairs ==
    ASSUME Types, PairsInv, Tick
    PROVE  PairsInv'
<1>1. now' = now + 1 /\ UNCHANGED <<waiting, rows, durable, dbOpen, watermark, covered, pass>>
  BY DEF Tick, tables
<1>2. now \in Nat /\ now' \in Nat /\ now <= now'
  BY <1>1, PassTypes
<1>3. Todo' = Todo
  BY <1>1 DEF Todo
<1>4. LateInv'
  <2>1. Times(rows, waiting) /\ Late(rows, waiting, now)
    BY TimesHere DEF PairsInv, LateInv
  <2>2. Late(rows, waiting, now')
    BY <2>1, <1>2, LaterLate
  <2>3. watermark <= now'
    BY <1>2, PassTypes DEF PairsInv, LateInv
  <2>4. QED BY <2>2, <2>3, <1>1 DEF PairsInv, LateInv
<1>5. PassInv'
  <2>1. covered.until <= now' /\ (pass.at # "sleep" => pass.to <= now')
    BY <1>2, PassTypes DEF PairsInv, PassInv
  <2>2. QED BY <2>1, <1>1 DEF PairsInv, PassInv
<1>6. SharedInv'
  BY <1>1, <1>3 DEF PairsInv, SharedInv
<1>7. QED BY <1>4, <1>5, <1>6 DEF PairsInv

\* A pass begins.
LEMMA BeginKeepsPairs ==
    ASSUME Types, PairsInv, BeginPass
    PROVE  PairsInv'
<1>1. /\ pass' = [at |-> "query", from |-> StartOfWindow, to |-> now]
      /\ UNCHANGED <<now, waiting, rows, durable, watermark, covered>>
  BY DEF BeginPass, tables
<1>2. /\ now \in Nat /\ watermark \in Nat /\ Window \in Nat /\ Lookback \in Nat
      /\ covered.until <= now
  BY PassTypes DEF PairsInv, PassInv
<1>3. \/ StartOfWindow = watermark - 2 * Window /\ StartOfWindow >= now - Lookback
      \/ StartOfWindow = now - Lookback
  BY <1>2 DEF StartOfWindow
<1>4. pass'.at = "query" /\ pass'.from = StartOfWindow /\ pass'.to = now
  BY <1>1
<1>5. QED BY <1>1, <1>2, <1>3, <1>4, RestingKeepsPairs

\* The query: what this pass does not see, an earlier one has brought together.  An
\* event before the overlap of the window is older than the watermark by more than a
\* window longer than the lateness of any later row, so it and its neighbour were
\* rows when the last whole pass looked.
LEMMA SeenOrShared ==
    ASSUME Types, PairsInv, MaxSkew <= Window, pass.at = "query",
           NEW a \in DOMAIN rows, NEW b \in DOMAIN rows,
           Near(rows, a, b, pass.to - Lookback, pass.to)
    PROVE  \/ {a, b} \subseteq QueryWindow(pass.from, pass.to)
           \/ Share(a, b, durable.links)
<1>1. /\ pass.to \in Nat /\ pass.from \in Int /\ covered.rows \in Nat
      /\ covered.since \in Int /\ covered.until \in Nat /\ watermark \in Nat
      /\ Window \in Nat /\ Lookback \in Nat /\ MaxSkew \in Nat
      /\ rows[a].at \in Nat /\ rows[b].at \in Nat /\ a \in Nat /\ b \in Nat
  BY PassTypes
<1>2. /\ rows[a].dev = rows[b].dev /\ rows[a].source # rows[b].source
      /\ rows[b].at - rows[a].at \in 0 .. Window
      /\ pass.to - Lookback <= rows[a].at /\ rows[b].at <= pass.to
  BY DEF Near
<1>3. rows[a].at <= rows[b].at /\ rows[b].at <= rows[a].at + Window
  BY <1>1, <1>2
<1>4. CASE rows[a].at >= pass.from
  <2>1. rows[a].at \in pass.from .. pass.to /\ rows[b].at \in pass.from .. pass.to
    BY <1>1, <1>2, <1>3, <1>4
  <2>2. QED BY <2>1 DEF QueryWindow
<1>5. CASE ~(rows[a].at >= pass.from)
  <2>1. pass.from = watermark - 2 * Window
    BY <1>1, <1>2, <1>5 DEF PairsInv, PassInv
  <2>2. /\ rows[a].at < watermark - MaxSkew /\ rows[b].at < watermark - MaxSkew
        /\ rows[b].at <= watermark
    BY <2>1, <1>1, <1>3, <1>5
  <2>3. \A c \in DOMAIN rows : c > covered.rows => rows[c].at >= watermark - MaxSkew
    BY DEF PairsInv, LateInv, Marked
  <2>4. a <= covered.rows /\ b <= covered.rows
    BY <2>2, <2>3, <1>1
  <2>5. a \in 1 .. covered.rows /\ b \in 1 .. covered.rows /\ covered.rows > 0
    BY <2>4, <1>1, PassTypes
  <2>6. /\ watermark <= covered.until /\ covered.since = covered.until - Lookback
        /\ covered.until <= pass.to
    BY <2>5 DEF PairsInv, PassInv
  <2>7. covered.since <= rows[a].at /\ rows[b].at <= covered.until
    BY <2>2, <2>6, <1>1, <1>2
  <2>8. Near(rows, a, b, covered.since, covered.until)
    BY <2>7, <1>2 DEF Near
  <2>9. QED BY <2>5, <2>8 DEF PairsInv, SharedInv
<1>6. QED BY <1>4, <1>5

LEMMA QueryKeepsPairs ==
    ASSUME Types, PairsInv, MaxSkew <= Window, Query
    PROVE  PairsInv'
<1> DEFINE ids == IF dbOpen THEN QueryWindow(pass.from, pass.to) ELSE {}
<1>1. /\ pass.at = "query"
      /\ UNCHANGED <<now, waiting, rows, durable, dbOpen, watermark, covered>>
      /\ pass' = IF ids = {} THEN Asleep(now + BatchInterval)
                 ELSE [at |-> "update", to |-> pass.to, todo |-> Updates(ids),
                       newest |-> rows[Latest(ids)].at, rows |-> Len(rows)]
  BY DEF Query, tables
<1>2. now \in Nat /\ now \in 0 .. MaxTime
  BY PassTypes
<1>3. CASE ids = {}
  <2>1. pass'.at = "sleep"
    BY <1>1, <1>2, <1>3, AsleepType
  <2>2. QED BY <2>1, <1>1, <1>2, RestingKeepsPairs
<1>4. CASE ids # {}
  <2>1. /\ dbOpen /\ ids = QueryWindow(pass.from, pass.to) /\ ids \in SUBSET DOMAIN rows
    BY <1>4 DEF QueryWindow
  <2> DEFINE m == rows[Latest(ids)].at
  <2>2. /\ pass'.at = "update" /\ pass'.to = pass.to /\ pass'.todo = Updates(ids)
        /\ pass'.newest = m /\ pass'.rows = Len(rows)
    BY <1>1, <1>4
  <2>3. Latest(ids) \in ids /\ Latest(ids) \in DOMAIN rows
    BY <2>1, <1>4, FoundType
  <2>4. m \in pass.from .. pass.to
    BY <2>1, <2>3 DEF QueryWindow
  <2> HIDE DEF ids
  <2>5. LateInv'
    <3>1. Marked(rows, waiting, Len(rows), m)
      <4>1. \A j \in DOMAIN waiting : m <= waiting[j].since
        BY <2>3 DEF PairsInv, LateInv, Late
      <4>2. \A a \in DOMAIN rows : ~(a > Len(rows))
        BY PassTypes
      <4>3. QED BY <4>1, <4>2 DEF Marked
    <3>2. QED BY <3>1, <2>2, <1>1 DEF PairsInv, LateInv
  <2>6. PassInv'
    <3>1. m <= pass.to /\ Len(rows) <= Len(rows)
      BY <2>4, <1>1, PassTypes
    <3>2. QED BY <3>1, <2>1, <2>2, <1>1 DEF PairsInv, PassInv
  <2>7. SharedInv'
    <3>1. /\ rows \in Seq(Row) /\ nextGroup \in Nat \ {0} /\ DOMAIN rows = 1 .. Len(rows)
      BY PassTypes DEF Types
    <3>2. Todo' = AllUpdates(ids)
      <4>1. Todo' = {Updates(ids)[i] : i \in DOMAIN Updates(ids)}
        BY <2>2 DEF Todo
      <4> DEFINE T == Updates(ids)
      <4>2. /\ T \in Seq(RowLinks)
            /\ \A i \in 1 .. Len(T) : T[i] \in AllUpdates(ids)
            /\ \A u \in AllUpdates(ids) : \E i \in 1 .. Len(T) : T[i] = u
        BY <2>1, <3>1, UpdatesAscend
      <4> HIDE DEF T
      <4>3. DOMAIN T = 1 .. Len(T)
        BY <4>2
      <4>4. {T[i] : i \in DOMAIN T} = AllUpdates(ids)
        BY <4>2, <4>3
      <4>5. QED BY <4>1, <4>4 DEF T
    <3>3. ASSUME NEW a \in 1 .. Len(rows), NEW b \in 1 .. Len(rows),
                 Near(rows, a, b, pass.to - Lookback, pass.to)
          PROVE  Share(a, b, durable.links \cup AllUpdates(ids))
      <4>1. {a, b} \subseteq ids \/ Share(a, b, durable.links)
        BY <1>1, <2>1, <3>1, <3>3, SeenOrShared
      <4>2. CASE {a, b} \subseteq ids
        <5>1. Share(a, b, AllUpdates(ids))
          BY <2>1, <3>1, <3>3, <4>2, NeighboursShare DEF Near
        <5>2. QED BY <5>1 DEF Share
      <4>3. CASE Share(a, b, durable.links)
        BY <4>3 DEF Share
      <4>4. QED BY <4>1, <4>2, <4>3
    <3>4. QED BY <3>2, <3>3, <2>2, <1>1 DEF PairsInv, SharedInv
  <2>8. QED BY <2>5, <2>6, <2>7 DEF PairsInv
<1>5. QED BY <1>3, <1>4

\* An update only adds links.
LEMMA AssignKeepsPairs ==
    ASSUME Types, KeptInv, PairsInv, AssignGroup
    PROVE  PairsInv'
<1> DEFINE t == pass.todo
           u == t[1]
<1>1. /\ pass.at = "update" /\ pass.todo # <<>>
      /\ pass' = [pass EXCEPT !.todo = Tail(@)]
      /\ UNCHANGED <<now, waiting, rows, dbOpen, watermark, covered>>
  BY DEF AssignGroup
<1>2. /\ Head(t) = u /\ 1 \in DOMAIN t /\ DOMAIN t = 1 .. Len(t) /\ Len(t) \in Nat
      /\ \A i \in 1 .. Len(t) - 1 : Tail(t)[i] = t[i + 1]
      /\ DOMAIN Tail(t) = 1 .. Len(t) - 1
      /\ pass'.at = "update" /\ pass'.todo = Tail(t) /\ pass'.to = pass.to
      /\ pass'.newest = pass.newest /\ pass'.rows = pass.rows
  BY <1>1, HeadOfTodo
<1>3. Todo = {t[i] : i \in DOMAIN t} /\ Todo' = {Tail(t)[i] : i \in DOMAIN Tail(t)}
  BY <1>1, <1>2 DEF Todo
<1> HIDE DEF t
<1>4. LateInv' /\ PassInv'
  BY <1>1, <1>2 DEF PairsInv, LateInv, PassInv
<1>5. durable.links \subseteq durable'.links
  BY AssignLinks
<1>6. dbOpen => durable.links \cup Todo \subseteq durable'.links \cup Todo'
  <2> SUFFICES ASSUME dbOpen, NEW i \in DOMAIN t  PROVE t[i] \in durable'.links \cup Todo'
    BY <1>3, <1>5
  <2>1. CASE i = 1
    BY <2>1, <1>2, AssignLinks DEF t
  <2>2. CASE i # 1
    <3>1. i - 1 \in 1 .. Len(t) - 1 /\ (i - 1) + 1 = i
      BY <2>2, <1>2
    <3>2. Tail(t)[i - 1] = t[i] /\ i - 1 \in DOMAIN Tail(t)
      BY <3>1, <1>2
    <3>3. QED BY <3>2, <1>3
  <2>3. QED BY <2>1, <2>2
<1>7. SharedInv'
  <2>1. ASSUME NEW a \in 1 .. covered.rows, NEW b \in 1 .. covered.rows,
               Near(rows, a, b, covered.since, covered.until)
        PROVE  Share(a, b, durable'.links)
    <3>1. Share(a, b, durable.links)
      BY <2>1 DEF PairsInv, SharedInv
    <3>2. QED BY <3>1, <1>5 DEF Share
  <2>2. ASSUME NEW a \in 1 .. pass.rows, NEW b \in 1 .. pass.rows,
               Near(rows, a, b, pass.to - Lookback, pass.to)
        PROVE  Share(a, b, durable'.links \cup Todo')
    <3>1. Share(a, b, durable.links \cup Todo)
      BY <2>2, <1>1 DEF PairsInv, SharedInv
    <3>2. dbOpen
      <4>1. pass.rows > 0
        BY <1>1, <2>2, PassTypes
      <4>2. QED BY <4>1, <1>1 DEF PairsInv, PassInv
    <3>3. QED BY <3>1, <3>2, <1>6 DEF Share
  <2>3. QED BY <2>1, <2>2, <1>1, <1>2 DEF SharedInv
<1>8. QED BY <1>4, <1>7 DEF PairsInv

\* The pass is over: what it had to bring together is together.
LEMMA EndKeepsPairs ==
    ASSUME Types, PairsInv, EndPass
    PROVE  PairsInv'
<1>1. /\ pass.at = "update" /\ pass.todo = <<>> /\ watermark' = pass.newest
      /\ covered' = [rows |-> pass.rows, since |-> pass.to - Lookback, until |-> pass.to]
      /\ pass' = Asleep(now + BatchInterval)
      /\ UNCHANGED <<now, waiting, rows, durable>>
  BY DEF EndPass, tables
<1>2. /\ pass'.at = "sleep" /\ covered'.rows = pass.rows
      /\ covered'.since = pass.to - Lookback /\ covered'.until = pass.to
  BY <1>1 DEF Asleep
<1>3. /\ pass.newest \in Nat /\ pass.rows \in Nat /\ pass.to \in Nat /\ now \in Nat
      /\ pass.newest <= pass.to /\ pass.to <= now /\ pass.rows <= Len(rows)
  BY <1>1, PassTypes DEF PairsInv, PassInv
<1>4. LateInv'
  BY <1>1, <1>2, <1>3 DEF PairsInv, LateInv
<1>5. PassInv'
  BY <1>1, <1>2, <1>3 DEF PassInv
<1>6. Todo = {}
  BY <1>1 DEF Todo
<1>7. SharedInv'
  BY <1>1, <1>2, <1>6 DEF PairsInv, SharedInv
<1>8. QED BY <1>4, <1>5, <1>7 DEF PairsInv

\* A roll leaves nothing, and nothing to bring together.
LEMMA RollKeepsPairs ==
    ASSUME Types, PairsInv, RollCloses
    PROVE  PairsInv'
<1>1. /\ rows' = <<>> /\ waiting' = <<>> /\ covered' = Nothing
      /\ pass' = IF pass.at = "update" THEN [pass EXCEPT !.rows = 0] ELSE pass
      /\ UNCHANGED <<now, watermark>>
  BY DEF RollCloses
<1>2. /\ DOMAIN rows' = {} /\ DOMAIN waiting' = {} /\ Len(rows') = 0
      /\ covered'.rows = 0 /\ covered'.until = 0
  BY <1>1 DEF Nothing
<1>3. pass.at = "update" => /\ pass'.at = "update" /\ pass'.rows = 0
                            /\ pass'.newest = pass.newest /\ pass'.to = pass.to
  <2> SUFFICES ASSUME pass.at = "update"
               PROVE  /\ pass'.at = "update" /\ pass'.rows = 0
                      /\ pass'.newest = pass.newest /\ pass'.to = pass.to
    OBVIOUS
  <2>1. pass \in [at : {"update"}, to : 0 .. MaxTime, todo : Seq(Link),
                  newest : 0 .. MaxTime, rows : Nat]
    BY DEF Types, Pass
  <2>2. pass' = [pass EXCEPT !.rows = 0]
    BY <1>1
  <2>3. QED BY <2>1, <2>2
<1>4. pass.at # "update" => pass' = pass
  BY <1>1
<1>5. LateInv'
  BY <1>1, <1>2 DEF PairsInv, LateInv, Late, Marked
<1>6. PassInv'
  <2>1. pass.at # "sleep" => pass.to \in Nat /\ 0 <= pass.to /\ pass.to <= now
    BY PassTypes DEF PairsInv, PassInv
  <2>2. 0 <= now
    BY PassTypes
  <2>3. CASE pass.at = "update"
    BY <2>1, <2>2, <2>3, <1>1, <1>2, <1>3 DEF PairsInv, PassInv
  <2>4. CASE pass.at # "update"
    BY <2>1, <2>2, <2>4, <1>1, <1>2, <1>4 DEF PairsInv, PassInv
  <2>5. QED BY <2>3, <2>4
<1>7. SharedInv'
  <2>1. \A a \in 1 .. 0 : FALSE
    OBVIOUS
  <2>2. CASE pass.at = "update"
    BY <2>1, <2>2, <1>2, <1>3 DEF SharedInv
  <2>3. CASE pass.at # "update"
    BY <2>1, <2>3, <1>2, <1>4 DEF SharedInv
  <2>4. QED BY <2>2, <2>3
<1>8. QED BY <1>5, <1>6, <1>7 DEF PairsInv

LEMMA PairsInvStep ==
    ASSUME MaxSkew <= Window
    PROVE  Types /\ KeptInv /\ PairsInv /\ [Next]_vars => PairsInv'
<1> SUFFICES ASSUME Types, KeptInv, PairsInv, [Next]_vars  PROVE PairsInv'
  OBVIOUS
<1>1. ASSUME NEW dev \in Devices, NEW source \in Sources, NEW at \in 0 .. MaxTime,
             Occur(dev, source, at)
      PROVE  PairsInv'
  <2>1. UNCHANGED <<now, rows, durable, dbOpen, pass, watermark, covered>>
    BY <1>1 DEF Occur, tables
  <2>2. LateInv'
    BY <1>1, OccurKeepsLate
  <2>3. PassInv' /\ SharedInv'
    BY <2>1 DEF PairsInv, PassInv, SharedInv, Todo
  <2>4. QED BY <2>2, <2>3 DEF PairsInv
<1>2. ASSUME NEW n \in 1 .. MaxEvents, Store(n)  PROVE PairsInv'
  BY <1>2, StoreKeepsPairs
<1>3. CASE Tick
  BY <1>3, TickKeepsPairs
<1>4. CASE BeginPass
  BY <1>4, BeginKeepsPairs
<1>5. CASE Query
  BY <1>5, QueryKeepsPairs
<1>6. CASE AssignGroup
  BY <1>6, AssignKeepsPairs
<1>7. CASE EndPass
  BY <1>7, EndKeepsPairs
<1>8. CASE QueryRaises
  <2>1. /\ UNCHANGED <<now, waiting, rows, durable, watermark, covered>>
        /\ now \in Nat /\ now <= now /\ pass'.at = "sleep"
    BY <1>8, PassTypes DEF QueryRaises, tables, Asleep
  <2>2. QED BY <2>1, RestingKeepsPairs
<1>14. ASSUME NEW done \in 0 .. 2, UpdateRaises(done)  PROVE PairsInv'
  <2>1. /\ UNCHANGED <<now, waiting, rows, durable, watermark, covered>>
        /\ now \in Nat /\ now <= now /\ pass'.at = "sleep"
    BY <1>14, PassTypes DEF UpdateRaises, Asleep
  <2>2. QED BY <2>1, RestingKeepsPairs
<1>15. CASE CommitElsewhere
  <2>1. /\ UNCHANGED <<now, waiting, rows, dbOpen, pass, watermark, covered>>
        /\ durable.links \subseteq durable'.links
    BY <1>15, CommitKeeps DEF CommitElsewhere
  <2>2. Todo' = Todo /\ durable.links \cup Todo \subseteq durable'.links \cup Todo'
    BY <2>1 DEF Todo
  <2>3. SharedInv'
    BY <2>1, <2>2, MoreShare DEF PairsInv, SharedInv
  <2>4. QED BY <2>1, <2>3 DEF PairsInv, LateInv, PassInv
<1>9. CASE Restart
  BY <1>9, RestartKeepsPairs
<1>10. CASE RollCloses
  BY <1>10, RollKeepsPairs
<1>11. CASE RollOpens
  BY <1>11 DEF RollOpens, PairsInv, LateInv, PassInv, SharedInv, Todo
<1>12. CASE UNCHANGED vars
  BY <1>12 DEF vars, tables, PairsInv, LateInv, PassInv, SharedInv, Todo
<1>13. QED
  BY <1>1, <1>2, <1>3, <1>4, <1>5, <1>6, <1>7, <1>8, <1>9, <1>10, <1>11, <1>12,
     <1>14, <1>15 DEF Next

LEMMA SharedImplies == SharedInv /\ KeptInv => PairsAreCorrelated
<1> SUFFICES ASSUME SharedInv, KeptInv, NEW a \in 1 .. covered.rows, NEW b \in 1 .. covered.rows,
                    Near(rows, a, b, covered.since, covered.until)
             PROVE  \E g \in Groups : {a, b} \subseteq Members(g)
  BY DEF PairsAreCorrelated, Near
<1>1. Share(a, b, links)
  BY MoreShare DEF SharedInv, KeptInv
<1>2. PICK l \in links, m \in links : l.event = a /\ m.event = b /\ l.group = m.group
  BY <1>1 DEF Share
<1>3. l.group \in Groups /\ a \in Members(l.group) /\ b \in Members(l.group)
  BY <1>2 DEF Groups, Members
<1>4. QED BY <1>3

\* The watermark hides nothing from the passes: two events of a device, from two
\* sources and within a window of each other, that were rows when the last whole pass
\* queried and recent enough for its lookback share a group, however they were stored
\* and whichever passes failed, over restarts and rolls.  The overlap of two windows
\* allows for events that reach the bus up to a window late, which is the
\* hypothesis; without it the property does not hold.
THEOREM PairsStayCorrelated ==
    ASSUME MaxSkew <= Window
    PROVE  Spec => []PairsAreCorrelated
<1>1. Init => Types /\ KeptInv /\ PairsInv
  BY TypesInit, PairsInvInit DEF Init, Seen, KeptInv
<1>2. Types /\ KeptInv /\ PairsInv /\ [Next]_vars => (Types /\ KeptInv /\ PairsInv)'
  BY TypesStep, KeptInvStep, PairsInvStep
<1>3. Types /\ KeptInv /\ PairsInv => PairsAreCorrelated
  BY SharedImplies DEF PairsInv
<1>4. QED BY <1>1, <1>2, <1>3, PTL DEF Spec

-----------------------------------------------------------------------------
(***************************************************************************)
(* RuleEngine.                                                             *)
(***************************************************************************)


\* The rule engine.  Its lists: what Keeping keeps is there, all of it, in its order.

\* at[i] is where in the list the i-th kept entry was.
Arranges(at, list, S) ==
    /\ at \in [1 .. Cardinality(S) -> S]
    /\ \A i \in 1 .. Cardinality(S) : Keeping(list, S)[i] = list[at[i]]
    /\ \A i, j \in 1 .. Cardinality(S) : i < j => at[i] < at[j]
    /\ \A x \in S : \E i \in 1 .. Cardinality(S) : at[i] = x

LEMMA KeepingIs ==
    ASSUME NEW list, NEW n \in Nat, NEW S \in SUBSET (1 .. n)
    PROVE  /\ Cardinality(S) \in Nat /\ Cardinality(S) <= n
           /\ DOMAIN Keeping(list, S) = 1 .. Cardinality(S)
           /\ \E at : Arranges(at, list, S)
<1> DEFINE c == Cardinality(S)
           below == [x \in S |-> {j \in S : j < x}]
           at == [i \in 1 .. c |-> CHOOSE x \in S : Cardinality({j \in S : j < x}) = i - 1]
<1>1. IsFiniteSet(S) /\ c \in Nat /\ c <= n
  <2>1. IsFiniteSet(1 .. n) /\ Cardinality(1 .. n) = n
    BY FS_Interval
  <2>2. QED BY <2>1, FS_Subset, FS_CardinalityType
<1>2. /\ \A x \in S : Cardinality(below[x]) \in 0 .. c - 1
      /\ \A x, y \in S : x \in below[y] <=> Cardinality(below[x]) < Cardinality(below[y])
      /\ \A i \in 0 .. c - 1 : \E x \in S : Cardinality(below[x]) = i
  <2>1. below \in [S -> SUBSET S] /\ \A x \in S : x \in Int
    OBVIOUS
  <2>2. /\ \A x \in S : x \notin below[x]
        /\ \A x, y, z \in S : x \in below[y] /\ y \in below[z] => x \in below[z]
        /\ \A x, y \in S : x # y => x \in below[y] \/ y \in below[x]
    BY <2>1
  <2> HIDE DEF below
  <2>3. QED BY <1>1, <2>1, <2>2, EveryPlaceIsTaken
<1>3. \A x \in S : below[x] = {j \in S : j < x}
  OBVIOUS
<1>4. ASSUME NEW i \in 1 .. c  PROVE at[i] \in S /\ Cardinality(below[at[i]]) = i - 1
  <2>1. i - 1 \in 0 .. c - 1
    BY <1>1
  <2>2. \E x \in S : Cardinality({j \in S : j < x}) = i - 1
    BY <2>1, <1>2, <1>3
  <2>3. at[i] \in S /\ Cardinality({j \in S : j < at[i]}) = i - 1
    BY <2>2
  <2>4. QED BY <2>3, <1>3
<1>5. DOMAIN Keeping(list, S) = 1 .. c /\ \A i \in 1 .. c : Keeping(list, S)[i] = list[at[i]]
  BY DEF Keeping
<1> DEFINE place == [x \in S |-> Cardinality(below[x])]
<1>6. /\ \A x \in S : place[x] \in 0 .. c - 1
      /\ \A x, y \in S : x < y <=> place[x] < place[y]
      /\ \A i \in 1 .. c : at[i] \in S /\ place[at[i]] = i - 1
  BY <1>2, <1>3, <1>4
<1>7. at \in [1 .. c -> S]
  BY <1>4
<1>0. \A x \in S : x \in Int
  OBVIOUS
<1> HIDE DEF below, at, place, c
<1>8. ASSUME NEW i \in 1 .. c, NEW j \in 1 .. c, i < j  PROVE at[i] < at[j]
  <2>1. at[i] \in S /\ at[j] \in S /\ place[at[i]] = i - 1 /\ place[at[j]] = j - 1
    BY <1>6
  <2>2. i - 1 < j - 1
    BY <1>1, <1>8
  <2>3. QED BY <2>1, <2>2, <1>6
<1>9. ASSUME NEW x \in S  PROVE \E i \in 1 .. c : at[i] = x
  <2>1. place[x] + 1 \in 1 .. c /\ x \in Int
    BY <1>1, <1>6
  <2>2. at[place[x] + 1] \in S /\ place[at[place[x] + 1]] = place[x] + 1 - 1
    BY <2>1, <1>6
  <2>3. place[x] \in Int /\ at[place[x] + 1] \in Int
    <3>1. place[x] \in 0 .. c - 1
      BY <1>6
    <3>2. at[place[x] + 1] \in Int
      BY <1>0, <2>2
    <3>3. QED BY <3>1, <3>2, <1>1
  <2>4. at[place[x] + 1] = x
    BY <1>1, <2>1, <2>2, <2>3, <1>6
  <2>5. QED BY <2>1, <2>4
<1>10. Arranges(at, list, S)
  BY <1>1, <1>5, <1>7, <1>8, <1>9 DEF c, Arranges
<1>11. QED BY <1>1, <1>5, <1>10 DEF c

Entries(list) == {list[i] : i \in DOMAIN list}

\* Of two partials the older one: begun by an earlier event, or by the same event and
\* an earlier rule.
Older(a, b) == \/ a.events[1].nr < b.events[1].nr
               \/ a.events[1].nr = b.events[1].nr /\ a.rule < b.rule
OldestFirst(list) == \A i, j \in DOMAIN list : i < j => Older(list[i], list[j])

LEMMA KeepingKeeps ==
    ASSUME NEW X, NEW list \in Seq(X), NEW S \in SUBSET DOMAIN list
    PROVE  /\ Keeping(list, S) \in Seq(X)
           /\ Len(Keeping(list, S)) <= Len(list)
           /\ Entries(Keeping(list, S)) = {list[i] : i \in S}
           /\ OldestFirst(list) => OldestFirst(Keeping(list, S))
<1>1. DOMAIN list = 1 .. Len(list) /\ Len(list) \in Nat /\ \A i \in 1 .. Len(list) : list[i] \in X
  OBVIOUS
<1> DEFINE c == Cardinality(S)
           kept == Keeping(list, S)
<1>2. c \in Nat /\ c <= Len(list) /\ S \in SUBSET (1 .. Len(list))
  BY <1>1, KeepingIs
<1>3. PICK at : Arranges(at, list, S)
  BY <1>1, <1>2, KeepingIs
<1>30. /\ at \in [1 .. c -> S] /\ \A i \in 1 .. c : kept[i] = list[at[i]]
       /\ \A i, j \in 1 .. c : i < j => at[i] < at[j]
       /\ \A x \in S : \E i \in 1 .. c : at[i] = x
  BY <1>3 DEF Arranges
<1> HIDE DEF kept, c
<1>4. kept \in Seq(X) /\ Len(kept) = c /\ DOMAIN kept = 1 .. c
  <2>1. \A i \in 1 .. c : list[at[i]] \in X
    BY <1>1, <1>2, <1>30
  <2>2. DOMAIN kept = 1 .. c /\ kept = [i \in 1 .. c |-> kept[i]]
    BY DEF kept, c, Keeping
  <2>3. QED BY <1>2, <1>30, <2>1, <2>2
<1>5. Entries(kept) = {list[i] : i \in S}
  BY <1>30, <1>4 DEF Entries
<1>6. OldestFirst(list) => OldestFirst(kept)
  BY <1>1, <1>2, <1>30, <1>4 DEF OldestFirst
<1>7. QED BY <1>2, <1>4, <1>5, <1>6 DEF kept

-----------------------------------------------------------------------------
\* What becomes of a partial, and of a list of them.

\* A partial in the making: some event has begun it.
Underway == {pm \in Partial : pm.events # <<>>}

LEMMA RuleFacts ==
    /\ DOMAIN Rules = 1 .. Len(Rules) /\ Len(Rules) \in Nat
    /\ \A r \in DOMAIN Rules :
          /\ r \in Nat /\ Rules[r].triggers \in Seq(Trigger) /\ Len(Rules[r].triggers) \in Nat
          /\ Len(Rules[r].triggers) >= 1 /\ ~Rules[r].triggers[1].negate
          /\ Rules[r].window \in Nat /\ Rules[r].window >= 1
          /\ \A j \in 1 .. Len(Rules[r].triggers) :
                /\ Rules[r].triggers[j].negate \in BOOLEAN
                /\ Rules[r].triggers[j].type \in EventTypes
<1>1. Rules \in Seq(Rule) /\ DOMAIN Rules = 1 .. Len(Rules) /\ Len(Rules) \in Nat
  BY RuleAssumption
<1>2. ASSUME NEW r \in DOMAIN Rules
      PROVE  /\ r \in Nat /\ Rules[r].triggers \in Seq(Trigger)
             /\ Len(Rules[r].triggers) \in Nat
             /\ Len(Rules[r].triggers) >= 1 /\ ~Rules[r].triggers[1].negate
             /\ Rules[r].window \in Nat /\ Rules[r].window >= 1
             /\ \A j \in 1 .. Len(Rules[r].triggers) :
                   /\ Rules[r].triggers[j].negate \in BOOLEAN
                   /\ Rules[r].triggers[j].type \in EventTypes
  <2>1. r \in Nat /\ Rules[r] \in Rule
    BY <1>1
  <2>2. Rules[r].triggers \in Seq(Trigger) /\ Rules[r].window \in Nat \ {0}
    BY <2>1 DEF Rule
  <2>3. Rules[r].triggers # <<>> /\ ~Rules[r].triggers[1].negate
    BY RuleAssumption
  <2> DEFINE ts == Rules[r].triggers
  <2>4. \A j \in 1 .. Len(ts) : ts[j] \in Trigger
    BY <2>2
  <2>5. \A j \in 1 .. Len(ts) : ts[j].negate \in BOOLEAN /\ ts[j].type \in EventTypes
    BY <2>4 DEF Trigger
  <2>6. Len(ts) \in Nat /\ Len(ts) >= 1
    BY <2>2, <2>3
  <2>7. QED BY <2>1, <2>2, <2>3, <2>5, <2>6
<1>3. QED BY <1>1, <1>2

LEMMA AtIs ==
    ASSUME NEW pm \in Partial, NEW i \in Nat \ {0}
    PROVE  /\ At(pm, i) \in Partial
           /\ At(pm, i).rule = pm.rule /\ At(pm, i).events = pm.events
           /\ At(pm, i).start = pm.start /\ At(pm, i).next = i
           /\ At(pm, i).waiting <=> i <= Len(TriggersOf(pm)) /\ TriggersOf(pm)[i].negate
<1>1. pm.rule \in DOMAIN Rules
  BY DEF Partial
<1>2. (i <= Len(TriggersOf(pm)) /\ TriggersOf(pm)[i].negate) \in BOOLEAN
  OBVIOUS
<1>3. QED BY <1>1, <1>2 DEF At, Partial

\* Ageing, advancing and starting.
LEMMA AgedIs ==
    ASSUME NEW pm \in Partial
    PROVE  /\ Aged(pm) \in Partial
           /\ Aged(pm).rule = pm.rule /\ Aged(pm).events = pm.events
           /\ Aged(pm).start = pm.start
           /\ Satisfied(pm) => Aged(pm) = At(pm, pm.next + 1)
           /\ ~Satisfied(pm) => Aged(pm) = pm
<1>1. pm.next + 1 \in Nat \ {0}
  BY DEF Partial
<1>2. QED BY <1>1, AtIs DEF Aged

LEMMA FedIs ==
    ASSUME NEW pm \in Underway, NEW ev \in BusEvent
    PROVE  /\ Fed(pm, ev) \in Underway
           /\ Fed(pm, ev).rule = pm.rule /\ Fed(pm, ev).events[1] = pm.events[1]
           /\ Fed(pm, ev).start = pm.start
           /\ ~pm.waiting /\ Wanted(pm, ev) =>
                 /\ Fed(pm, ev).next = pm.next + 1
                 /\ Fed(pm, ev).events = Append(pm.events, ev)
                 /\ Fed(pm, ev).waiting <=> /\ pm.next + 1 <= Len(TriggersOf(pm))
                                            /\ TriggersOf(pm)[pm.next + 1].negate
           /\ ~(~pm.waiting /\ Wanted(pm, ev)) => Fed(pm, ev) = pm
<1>1. pm \in Partial /\ pm.events \in Seq(BusEvent) /\ pm.events # <<>> /\ pm.next \in Nat
  BY DEF Underway, Partial
<1>2. CASE ~pm.waiting /\ Wanted(pm, ev)
  <2> DEFINE fed == [pm EXCEPT !.events = Append(@, ev)]
  <2>1. Append(pm.events, ev) \in Seq(BusEvent) /\ Append(pm.events, ev)[1] = pm.events[1]
        /\ Append(pm.events, ev) # <<>>
    BY <1>1
  <2>2. fed \in Partial /\ fed.events = Append(pm.events, ev) /\ fed.rule = pm.rule
        /\ fed.start = pm.start
    BY <1>1, <2>1 DEF Partial
  <2>3. Fed(pm, ev) = At(fed, pm.next + 1) /\ pm.next + 1 \in Nat \ {0}
    BY <1>1, <1>2 DEF Fed
  <2> HIDE DEF fed
  <2>4. /\ At(fed, pm.next + 1) \in Partial
        /\ At(fed, pm.next + 1).rule = fed.rule /\ At(fed, pm.next + 1).events = fed.events
        /\ At(fed, pm.next + 1).start = fed.start /\ At(fed, pm.next + 1).next = pm.next + 1
        /\ At(fed, pm.next + 1).waiting <=> /\ pm.next + 1 <= Len(TriggersOf(fed))
                                            /\ TriggersOf(fed)[pm.next + 1].negate
    BY <2>2, <2>3, AtIs
  <2>5. QED BY <1>2, <2>1, <2>2, <2>3, <2>4 DEF Underway, TriggersOf
<1>3. CASE ~(~pm.waiting /\ Wanted(pm, ev))
  BY <1>1, <1>3 DEF Fed
<1>4. QED BY <1>2, <1>3

LEMMA BegunIs ==
    ASSUME NEW r \in DOMAIN Rules, NEW ev \in BusEvent, clock \in 0 .. MaxClock
    PROVE  /\ Begun(r, ev) \in Underway
           /\ Begun(r, ev).rule = r /\ Begun(r, ev).events = <<ev>>
           /\ Begun(r, ev).start = clock /\ Begun(r, ev).next = 2
           /\ Begun(r, ev).waiting <=> /\ 2 <= Len(Rules[r].triggers)
                                       /\ Rules[r].triggers[2].negate
<1> DEFINE new == [rule |-> r, events |-> <<ev>>, next |-> 2, start |-> clock,
                   waiting |-> FALSE]
<1>1. new \in Partial /\ new.rule = r /\ new.events = <<ev>> /\ new.start = clock
  BY DEF Partial
<1>2. Begun(r, ev) = At(new, 2) /\ 2 \in Nat \ {0}
  BY DEF Begun
<1> HIDE DEF new
<1>3. /\ At(new, 2) \in Partial
      /\ At(new, 2).rule = new.rule /\ At(new, 2).events = new.events
      /\ At(new, 2).start = new.start /\ At(new, 2).next = 2
      /\ At(new, 2).waiting <=> 2 <= Len(TriggersOf(new)) /\ TriggersOf(new)[2].negate
  BY <1>1, <1>2, AtIs
<1>4. <<ev>> # <<>>
  OBVIOUS
<1>5. QED BY <1>1, <1>2, <1>3, <1>4 DEF Underway, TriggersOf

\* Lists whose entries are replaced one by one, keeping what orders them.
LEMMA ReplacedKeep ==
    ASSUME NEW list \in Seq(Underway), NEW new, DOMAIN new = DOMAIN list,
           new = [i \in DOMAIN list |-> new[i]],
           \A i \in DOMAIN list : /\ new[i] \in Underway /\ new[i].rule = list[i].rule
                                  /\ new[i].events[1] = list[i].events[1]
    PROVE  /\ new \in Seq(Underway) /\ Len(new) = Len(list)
           /\ OldestFirst(list) => OldestFirst(new)
<1>1. DOMAIN list = 1 .. Len(list) /\ Len(list) \in Nat
  OBVIOUS
<1>2. new \in Seq(Underway) /\ Len(new) = Len(list)
  BY <1>1
<1>3. OldestFirst(list) => OldestFirst(new)
  BY DEF OldestFirst, Older
<1>4. QED BY <1>2, <1>3

LEMMA ExpiredIs ==
    ASSUME NEW list \in Seq(Underway)
    PROVE  /\ Expired(list) \in Seq(Underway) /\ Len(Expired(list)) <= Len(list)
           /\ Entries(Expired(list)) = {Aged(pm) : pm \in {x \in Entries(list) : ~Stale(x)}}
           /\ OldestFirst(list) => OldestFirst(Expired(list))
<1> DEFINE S == {i \in DOMAIN list : ~Stale(list[i])}
           kept == Keeping(list, S)
           new == Expired(list)
<1>1. /\ kept \in Seq(Underway) /\ Len(kept) <= Len(list)
      /\ Entries(kept) = {list[i] : i \in S}
      /\ OldestFirst(list) => OldestFirst(kept)
  BY KeepingKeeps
<1>2. new = [i \in DOMAIN kept |-> Aged(kept[i])]
  BY DEF Expired
<1>3. Entries(kept) = {x \in Entries(list) : ~Stale(x)}
  BY <1>1 DEF Entries
<1> HIDE DEF kept, new
<1>4. ASSUME NEW i \in DOMAIN kept
      PROVE  /\ new[i] \in Underway /\ new[i].rule = kept[i].rule
             /\ new[i].events[1] = kept[i].events[1] /\ new[i] = Aged(kept[i])
  <2>1. kept[i] \in Partial /\ kept[i].events # <<>> /\ new[i] = Aged(kept[i])
    BY <1>1, <1>2 DEF Underway
  <2>2. QED BY <2>1, AgedIs DEF Underway
<1>5. DOMAIN new = DOMAIN kept /\ new = [i \in DOMAIN kept |-> new[i]]
  BY <1>2
<1>6. /\ new \in Seq(Underway) /\ Len(new) = Len(kept)
      /\ OldestFirst(kept) => OldestFirst(new)
  BY <1>1, <1>4, <1>5, ReplacedKeep
<1>7. Entries(new) = {Aged(pm) : pm \in Entries(kept)}
  BY <1>4, <1>5 DEF Entries
<1>8. Len(new) <= Len(list)
  BY <1>1, <1>6
<1>9. QED BY <1>1, <1>3, <1>6, <1>7, <1>8 DEF new

LEMMA OpenIs ==
    ASSUME NEW list \in Seq(Underway)
    PROVE  /\ Open(list) \in Seq(Underway) /\ Len(Open(list)) <= Len(list)
           /\ Entries(Open(list)) = {x \in Entries(list) : ~Complete(x)}
           /\ OldestFirst(list) => OldestFirst(Open(list))
<1> DEFINE S == {i \in DOMAIN list : ~Complete(list[i])}
<1>1. /\ Open(list) \in Seq(Underway) /\ Len(Open(list)) <= Len(list)
      /\ Entries(Open(list)) = {list[i] : i \in S}
      /\ OldestFirst(list) => OldestFirst(Open(list))
  BY KeepingKeeps DEF Open
<1>2. QED BY <1>1 DEF Entries

LEMMA ClosedIs ==
    ASSUME NEW list \in Seq(Underway)
    PROVE  /\ Closed(list) \in Seq(Underway)
           /\ Entries(Closed(list)) = {x \in Entries(list) : Complete(x)}
           /\ OldestFirst(list) => OldestFirst(Closed(list))
<1> DEFINE S == {i \in DOMAIN list : Complete(list[i])}
<1>1. /\ Closed(list) \in Seq(Underway)
      /\ Entries(Closed(list)) = {list[i] : i \in S}
      /\ OldestFirst(list) => OldestFirst(Closed(list))
  BY KeepingKeeps DEF Closed
<1>2. QED BY <1>1 DEF Entries

LEMMA CancelledIs ==
    ASSUME NEW list \in Seq(Underway), NEW ev
    PROVE  /\ Cancelled(list, ev) \in Seq(Underway)
           /\ Len(Cancelled(list, ev)) <= Len(list)
           /\ Entries(Cancelled(list, ev)) =
                 {x \in Entries(list) : ~(x.waiting /\ Wanted(x, ev))}
           /\ OldestFirst(list) => OldestFirst(Cancelled(list, ev))
<1> DEFINE S == {i \in DOMAIN list : ~(list[i].waiting /\ Wanted(list[i], ev))}
<1>1. /\ Cancelled(list, ev) \in Seq(Underway) /\ Len(Cancelled(list, ev)) <= Len(list)
      /\ Entries(Cancelled(list, ev)) = {list[i] : i \in S}
      /\ OldestFirst(list) => OldestFirst(Cancelled(list, ev))
  BY KeepingKeeps DEF Cancelled
<1>2. QED BY <1>1 DEF Entries

LEMMA AdvancedIs ==
    ASSUME NEW list \in Seq(Underway), NEW ev \in BusEvent
    PROVE  /\ Advanced(list, ev) \in Seq(Underway)
           /\ Entries(Advanced(list, ev)) = {Fed(pm, ev) : pm \in Entries(list)}
           /\ OldestFirst(list) => OldestFirst(Advanced(list, ev))
<1> DEFINE new == Advanced(list, ev)
<1>1. new = [i \in DOMAIN list |-> Fed(list[i], ev)]
  BY DEF Advanced
<1> HIDE DEF new
<1>2. ASSUME NEW i \in DOMAIN list
      PROVE  /\ new[i] \in Underway /\ new[i].rule = list[i].rule
             /\ new[i].events[1] = list[i].events[1] /\ new[i] = Fed(list[i], ev)
  <2>1. list[i] \in Underway /\ new[i] = Fed(list[i], ev)
    BY <1>1
  <2>2. QED BY <2>1, FedIs
<1>3. DOMAIN new = DOMAIN list /\ new = [i \in DOMAIN list |-> new[i]]
  BY <1>1
<1>4. new \in Seq(Underway) /\ (OldestFirst(list) => OldestFirst(new))
  BY <1>2, <1>3, ReplacedKeep
<1>5. Entries(new) = {Fed(pm, ev) : pm \in Entries(list)}
  BY <1>2, <1>3 DEF Entries
<1>6. QED BY <1>4, <1>5 DEF new

LEMMA StartedIs ==
    ASSUME NEW ev \in BusEvent, clock \in 0 .. MaxClock
    PROVE  /\ Started(ev) \in Seq(Underway)
           /\ Entries(Started(ev)) =
                 {Begun(r, ev) : r \in {q \in DOMAIN Rules : Rules[q].triggers[1].type = ev.type}}
           /\ OldestFirst(Started(ev))
<1> DEFINE list == [r \in DOMAIN Rules |-> Begun(r, ev)]
           S == {r \in DOMAIN Rules : Rules[r].triggers[1].type = ev.type}
<1>1. /\ DOMAIN list = 1 .. Len(Rules) /\ Len(Rules) \in Nat /\ S \in SUBSET DOMAIN list
      /\ \A r \in DOMAIN list : /\ list[r] \in Underway /\ list[r] = Begun(r, ev)
                                /\ list[r].rule = r /\ list[r].events = <<ev>>
  BY RuleFacts, BegunIs
<1>2. list \in Seq(Underway)
  BY <1>1
<1>3. Started(ev) = Keeping(list, S)
  BY DEF Started
<1> HIDE DEF list
<1>4. OldestFirst(list)
  <2>1. \A r \in DOMAIN list : list[r].events[1] = ev
    BY <1>1
  <2>2. QED BY <1>1, <2>1 DEF OldestFirst, Older
<1>5. /\ Keeping(list, S) \in Seq(Underway)
      /\ Entries(Keeping(list, S)) = {list[i] : i \in S}
      /\ OldestFirst(Keeping(list, S))
  BY <1>1, <1>2, <1>4, KeepingKeeps
<1>6. {list[i] : i \in S} = {Begun(r, ev) : r \in S}
  BY <1>1
<1>7. QED BY <1>3, <1>5, <1>6

\* The newest Cap of a list.
LEMMA NewestIs ==
    ASSUME NEW list \in Seq(Underway)
    PROVE  /\ Newest(list) \in Seq(Underway) /\ Len(Newest(list)) <= Cap
           /\ Entries(Newest(list)) \in SUBSET Entries(list)
           /\ Len(list) <= Cap => Newest(list) = list
           /\ OldestFirst(list) => OldestFirst(Newest(list))
<1>1. Cap \in Nat /\ Cap >= 1 /\ Len(list) \in Nat /\ DOMAIN list = 1 .. Len(list)
  BY RuleAssumption
<1>2. CASE Len(list) <= Cap
  <2>1. Newest(list) = list
    BY <1>1, <1>2 DEF Newest
  <2>2. QED BY <2>1, <1>2
<1>3. CASE Len(list) > Cap
  <2> DEFINE m == Len(list) - Cap
             new == Newest(list)
  <2>1. new = SubSeq(list, m + 1, Len(list))
    BY <1>1, <1>3 DEF Newest
  <2>2. /\ m \in Nat /\ m + Cap = Len(list) /\ m + 1 \in Int /\ Len(list) \in Int
        /\ Len(list) - (m + 1) + 1 = Cap /\ m + 1 <= Len(list)
        /\ \A i \in 1 .. Cap : m + i \in 1 .. Len(list) /\ m + 1 + i - 1 = m + i
    BY <1>1, <1>3
  <2> HIDE DEF new, m
  <2>3. \A i \in m + 1 .. Len(list) : list[i] \in Underway
    BY <1>1, <2>2
  <2>4. /\ new \in Seq(Underway)
        /\ Len(new) = IF m + 1 <= Len(list) THEN Len(list) - (m + 1) + 1 ELSE 0
        /\ \A i \in 1 .. Len(list) - (m + 1) + 1 : new[i] = list[m + 1 + i - 1]
    BY <2>1, <2>2, <2>3, SubSeqProperties, SMTT(60)
  <2>5. /\ Len(new) = Cap /\ new \in Seq(Underway)
        /\ \A i \in 1 .. Cap : m + i \in DOMAIN list /\ new[i] = list[m + i]
    BY <1>1, <2>2, <2>4
  <2>6. DOMAIN new = 1 .. Cap
    BY <2>5
  <2>7. OldestFirst(list) => OldestFirst(new)
    <3> SUFFICES ASSUME OldestFirst(list), NEW i \in 1 .. Cap, NEW j \in 1 .. Cap, i < j
                 PROVE  Older(new[i], new[j])
      BY <2>6 DEF OldestFirst
    <3>1. m + i \in DOMAIN list /\ m + j \in DOMAIN list /\ m + i < m + j
      BY <1>1, <2>2, <2>5
    <3>2. Older(list[m + i], list[m + j])
      BY <3>1 DEF OldestFirst
    <3>3. QED BY <3>2, <2>5
  <2>8. Entries(new) \in SUBSET Entries(list)
    BY <2>5, <2>6 DEF Entries
  <2>9. QED BY <1>1, <1>3, <2>5, <2>7, <2>8 DEF new
<1>4. QED BY <1>1, <1>2, <1>3

\* One list after another.
LEMMA JoinedIs ==
    ASSUME NEW a \in Seq(Underway), NEW b \in Seq(Underway)
    PROVE  /\ a \o b \in Seq(Underway)
           /\ Entries(a \o b) = Entries(a) \cup Entries(b)
           /\ OldestFirst(a) /\ OldestFirst(b)
              /\ (\A x \in Entries(a), y \in Entries(b) : Older(x, y)) => OldestFirst(a \o b)
<1> DEFINE m == Len(a)
           n == Len(b)
           ab == a \o b
<1>1. /\ m \in Nat /\ n \in Nat /\ DOMAIN a = 1 .. m /\ DOMAIN b = 1 .. n
      /\ DOMAIN ab = 1 .. m + n /\ ab \in Seq(Underway)
      /\ \A i \in 1 .. m : ab[i] = a[i]
      /\ \A i \in m + 1 .. m + n : ab[i] = b[i - m]
  OBVIOUS
<1> HIDE DEF m, n, ab
<1>2. \A i \in 1 .. m + n : i \in 1 .. m \/ i \in m + 1 .. m + n
  BY <1>1
<1>3. \A i \in m + 1 .. m + n : i - m \in 1 .. n
  BY <1>1
<1>4. \A i \in 1 .. n : m + i \in m + 1 .. m + n /\ m + i - m = i
  BY <1>1
<1>5. Entries(ab) = Entries(a) \cup Entries(b)
  <2>1. ASSUME NEW x \in Entries(ab)  PROVE x \in Entries(a) \cup Entries(b)
    BY <1>1, <1>2, <1>3 DEF Entries
  <2>2. ASSUME NEW x \in Entries(a)  PROVE x \in Entries(ab)
    <3>1. PICK i \in 1 .. m : x = a[i]
      BY <1>1 DEF Entries
    <3>2. i \in DOMAIN ab /\ x = ab[i]
      BY <3>1, <1>1
    <3>3. QED BY <3>2 DEF Entries
  <2>3. ASSUME NEW x \in Entries(b)  PROVE x \in Entries(ab)
    <3>1. PICK i \in 1 .. n : x = b[i]
      BY <1>1 DEF Entries
    <3>2. m + i \in m + 1 .. m + n /\ (m + i) - m = i /\ m + i \in 1 .. m + n
      BY <3>1, <1>1, <1>4
    <3>3. m + i \in DOMAIN ab /\ x = ab[m + i]
      BY <3>1, <3>2, <1>1
    <3>4. QED BY <3>3 DEF Entries
  <2>4. QED BY <2>1, <2>2, <2>3
<1>6. ASSUME OldestFirst(a), OldestFirst(b),
             \A x \in Entries(a), y \in Entries(b) : Older(x, y)
      PROVE  OldestFirst(ab)
  <2> SUFFICES ASSUME NEW i \in 1 .. m + n, NEW j \in 1 .. m + n, i < j
               PROVE  Older(ab[i], ab[j])
    BY <1>1 DEF OldestFirst
  <2>1. CASE i \in 1 .. m /\ j \in 1 .. m
    BY <2>1, <1>1, <1>6 DEF OldestFirst
  <2>2. CASE i \in m + 1 .. m + n /\ j \in m + 1 .. m + n
    <3>1. i - m \in DOMAIN b /\ j - m \in DOMAIN b /\ i - m < j - m
      BY <2>2, <1>1, <1>3
    <3>2. Older(b[i - m], b[j - m])
      BY <3>1, <1>6 DEF OldestFirst
    <3>3. QED BY <3>2, <2>2, <1>1
  <2>3. CASE i \in 1 .. m /\ j \in m + 1 .. m + n
    <3>1. ab[i] \in Entries(a) /\ ab[j] \in Entries(b)
      BY <2>3, <1>1, <1>3 DEF Entries
    <3>2. QED BY <3>1, <1>6
  <2>4. CASE i \in m + 1 .. m + n /\ j \in 1 .. m
    BY <2>4, <1>1
  <2>5. QED BY <1>2, <2>1, <2>2, <2>3, <2>4
<1>7. QED BY <1>1, <1>5, <1>6 DEF ab

\* Two partials, or matches, of the same rule that the same event has begun.
Same(a, b) == a.rule = b.rule /\ a.events[1].nr = b.events[1].nr
Distinct(list) == \A i, j \in DOMAIN list : i # j => ~Same(list[i], list[j])

LEMMA FirstIsAnEvent ==
    ASSUME NEW x \in Underway
    PROVE  /\ x.events[1] \in BusEvent /\ x.events[1].nr \in Int /\ x.rule \in Int
           /\ x.events \in Seq(BusEvent) /\ Len(x.events) \in Nat /\ Len(x.events) >= 1
           /\ \A e \in 1 .. Len(x.events) : x.events[e] \in BusEvent
           /\ x.rule \in DOMAIN Rules /\ x.next \in Nat /\ x.start \in 0 .. MaxClock
           /\ x \in Partial /\ x.waiting \in BOOLEAN
<1>1. x \in Partial /\ x.events \in Seq(BusEvent) /\ x.events # <<>> /\ x.rule \in DOMAIN Rules
      /\ x.next \in Nat /\ x.start \in 0 .. MaxClock /\ x.waiting \in BOOLEAN
  BY DEF Underway, Partial
<1>2. Len(x.events) \in Nat /\ Len(x.events) >= 1
      /\ \A e \in 1 .. Len(x.events) : x.events[e] \in BusEvent
  BY <1>1
<1>3. x.events[1] \in BusEvent
  BY <1>2
<1>4. \A e \in BusEvent : e.nr \in Int
  BY RuleAssumption DEF BusEvent
<1>5. QED BY <1>1, <1>2, <1>3, <1>4, RuleFacts

LEMMA OldestFirstAreDistinct ==
    ASSUME NEW list \in Seq(Underway), OldestFirst(list)
    PROVE  /\ Distinct(list)
           /\ \A x, y \in Entries(list) : Same(x, y) => x = y
<1>1. \A x, y \in Underway : Same(x, y) => ~Older(x, y) /\ ~Older(y, x)
  BY FirstIsAnEvent DEF Same, Older
<1>2. \A i \in DOMAIN list : list[i] \in Underway /\ i \in Int
  OBVIOUS
<1>3. \A i, j \in DOMAIN list : i # j => ~Same(list[i], list[j])
  BY <1>1, <1>2 DEF OldestFirst
<1>4. QED BY <1>3 DEF Distinct, Entries

LEMMA JoinedAreDistinct ==
    ASSUME NEW X, NEW Y, NEW a \in Seq(X), NEW b \in Seq(Y), Distinct(a), Distinct(b),
           \A x \in Entries(a), y \in Entries(b) : ~Same(x, y)
    PROVE  Distinct(a \o b) /\ Entries(a \o b) = Entries(a) \cup Entries(b)
<1> DEFINE m == Len(a)
           n == Len(b)
           ab == a \o b
<1>1. /\ m \in Nat /\ n \in Nat /\ DOMAIN a = 1 .. m /\ DOMAIN b = 1 .. n
      /\ DOMAIN ab = 1 .. m + n
      /\ \A i \in 1 .. m : ab[i] = a[i]
      /\ \A i \in m + 1 .. m + n : ab[i] = b[i - m]
  <2>1. a \in Seq(X \cup Y) /\ b \in Seq(X \cup Y)
    OBVIOUS
  <2>2. QED BY <2>1
<1> HIDE DEF m, n, ab
<1>2. \A i \in 1 .. m + n : i \in 1 .. m \/ i \in m + 1 .. m + n
  BY <1>1
<1>3. \A i \in m + 1 .. m + n : i - m \in 1 .. n /\ i \in Int
  BY <1>1
<1>4. \A i \in 1 .. n : m + i \in m + 1 .. m + n /\ m + i - m = i
  BY <1>1
<1>5. /\ \A i \in 1 .. m : ab[i] \in Entries(a)
      /\ \A i \in m + 1 .. m + n : ab[i] \in Entries(b)
  BY <1>1, <1>3 DEF Entries
<1>6. Entries(ab) = Entries(a) \cup Entries(b)
  <2>1. ASSUME NEW x \in Entries(ab)  PROVE x \in Entries(a) \cup Entries(b)
    BY <1>1, <1>2, <1>5 DEF Entries
  <2>2. ASSUME NEW x \in Entries(a)  PROVE x \in Entries(ab)
    <3>1. PICK i \in 1 .. m : x = a[i]
      BY <1>1 DEF Entries
    <3>2. i \in DOMAIN ab /\ x = ab[i]
      BY <3>1, <1>1
    <3>3. QED BY <3>2 DEF Entries
  <2>3. ASSUME NEW x \in Entries(b)  PROVE x \in Entries(ab)
    <3>1. PICK i \in 1 .. n : x = b[i]
      BY <1>1 DEF Entries
    <3>2. m + i \in m + 1 .. m + n /\ (m + i) - m = i /\ m + i \in 1 .. m + n
      BY <3>1, <1>1, <1>4
    <3>3. m + i \in DOMAIN ab /\ x = ab[m + i]
      BY <3>1, <3>2, <1>1
    <3>4. QED BY <3>3 DEF Entries
  <2>4. QED BY <2>1, <2>2, <2>3
<1>7. \A x, y : Same(x, y) => Same(y, x)
  BY DEF Same
<1>8. ASSUME NEW i \in 1 .. m + n, NEW j \in 1 .. m + n, i # j  PROVE ~Same(ab[i], ab[j])
  <2>1. CASE i \in 1 .. m /\ j \in 1 .. m
    BY <2>1, <1>1, <1>8 DEF Distinct
  <2>2. CASE i \in m + 1 .. m + n /\ j \in m + 1 .. m + n
    <3>1. i - m \in DOMAIN b /\ j - m \in DOMAIN b /\ i - m # j - m
      BY <2>2, <1>1, <1>3, <1>8
    <3>2. ~Same(b[i - m], b[j - m])
      BY <3>1 DEF Distinct
    <3>3. QED BY <3>2, <2>2, <1>1
  <2>3. CASE i \in 1 .. m /\ j \in m + 1 .. m + n
    BY <2>3, <1>5
  <2>4. CASE i \in m + 1 .. m + n /\ j \in 1 .. m
    BY <2>4, <1>5, <1>7
  <2>5. QED BY <1>2, <2>1, <2>2, <2>3, <2>4
<1>9. QED BY <1>1, <1>6, <1>8 DEF ab, Distinct

Firing == [rule : DOMAIN Rules, events : Seq(BusEvent), start : 0 .. MaxClock,
           at : 0 .. MaxClock]

\* What is emitted: the matches of a list of partials, all new.
LEMMA EmittedIs ==
    ASSUME NEW list \in Seq(Underway), NEW rest \in Seq(BusEvent), Emit(list, rest),
           fired \in Seq(Firing), clock \in 0 .. MaxClock,
           Distinct(fired), Distinct(list),
           \A x \in Entries(list), y \in Entries(fired) : ~Same(x, y),
           \A x \in Entries(list) : x.events[1].dev \in Keys
    PROVE  /\ fired' \in Seq(Firing) /\ Distinct(fired')
           /\ Entries(fired') = Entries(fired) \cup {Match(x) : x \in Entries(list)}
           /\ inbox' \in Seq(BusEvent) /\ Len(inbox') >= Len(rest)
           /\ \A i \in 1 .. Len(rest) : inbox'[i] = rest[i]
           /\ \A i \in Len(rest) + 1 .. Len(inbox') : inbox'[i].type = Meta
<1> DEFINE new == [i \in DOMAIN list |-> Match(list[i])]
           metas == [i \in DOMAIN list |->
                        [type |-> Meta, dev |-> list[i].events[1].dev, at |-> clock, nr |-> 0]]
<1>1. /\ DOMAIN list = 1 .. Len(list) /\ Len(list) \in Nat
      /\ \A i \in 1 .. Len(list) : list[i] \in Underway /\ list[i] \in Entries(list)
  BY DEF Entries
<1>2. \A x \in Underway : /\ Match(x) \in Firing /\ Match(x).rule = x.rule
                          /\ Match(x).events = x.events
  BY FirstIsAnEvent DEF Match, Firing
<1>3. new \in Seq(Firing) /\ DOMAIN new = DOMAIN list
      /\ \A i \in DOMAIN list : new[i] = Match(list[i])
  BY <1>1, <1>2
<1>4. metas \in Seq(BusEvent) /\ Len(metas) = Len(list)
      /\ \A i \in 1 .. Len(list) : metas[i].type = Meta
  <2>1. \A i \in DOMAIN list : metas[i] \in BusEvent /\ metas[i].type = Meta
    <3>1. 0 \in 0 .. MaxPublished
      BY RuleAssumption
    <3>2. QED BY <1>1, <3>1 DEF BusEvent
  <2>2. QED BY <1>1, <2>1
<1>5. fired' = fired \o new /\ inbox' = rest \o metas
  BY DEF Emit
<1> HIDE DEF new, metas
<1>6. \A y : \A x, z \in Underway : /\ Same(Match(x), y) <=> Same(x, y)
                                    /\ Same(y, Match(x)) <=> Same(y, x)
                                    /\ Same(Match(x), Match(z)) <=> Same(x, z)
  BY <1>2 DEF Same
<1>7. Distinct(new)
  BY <1>1, <1>3, <1>6 DEF Distinct
<1>8. Entries(new) = {Match(x) : x \in Entries(list)}
  BY <1>3 DEF Entries
<1>9. \A x \in Entries(fired), y \in Entries(new) : ~Same(x, y)
  <2>1. \A x, y : Same(x, y) => Same(y, x)
    BY DEF Same
  <2>2. \A x \in Entries(list) : x \in Underway
    BY DEF Entries
  <2>3. QED BY <1>6, <1>8, <2>1, <2>2
<1>10. Distinct(fired \o new) /\ Entries(fired \o new) = Entries(fired) \cup Entries(new)
  BY <1>3, <1>7, <1>9, JoinedAreDistinct
<1>11. fired \o new \in Seq(Firing)
  BY <1>3
<1>12. /\ inbox' \in Seq(BusEvent) /\ Len(inbox') = Len(rest) + Len(list)
       /\ \A i \in 1 .. Len(rest) : inbox'[i] = rest[i]
       /\ \A i \in Len(rest) + 1 .. Len(rest) + Len(list) : inbox'[i] = metas[i - Len(rest)]
  BY <1>1, <1>4, <1>5
<1>13. \A i \in Len(rest) + 1 .. Len(rest) + Len(list) : i - Len(rest) \in 1 .. Len(list)
  BY <1>1
<1>14. Len(inbox') >= Len(rest)
  BY <1>1, <1>12
<1>15. QED BY <1>4, <1>5, <1>8, <1>10, <1>11, <1>12, <1>13, <1>14

-----------------------------------------------------------------------------
\* What a partial of the device k, or a match, says of the events s that were processed.

Processed == Seq([event : BusEvent, done : 0 .. MaxClock])
Numbered(s) == \A n \in 1 .. Len(s) : s[n].event.nr = n /\ s[n].event.type \in EventTypes
InTime(s, t) == \A n \in 1 .. Len(s) : /\ s[n].done <= t
                                       /\ \A m \in 1 .. n : s[m].done <= s[n].done

\* Its events were processed, and begun it when the first of them was.
Told(s, k, x) ==
    /\ \A e \in 1 .. Len(x.events) : /\ x.events[e].nr \in 1 .. Len(s)
                                     /\ s[x.events[e].nr].event = x.events[e]
                                     /\ x.events[e].dev = k
    /\ x.start = s[x.events[1].nr].done

Fit(s, n, trigger, k) == s[n].event.type = trigger.type /\ s[n].event.dev = k

\* Without negations: it has taken one event for each of the triggers before next, each
\* the first that could be taken.
Linked(s, k, x, next) ==
    Positive(TriggersOf(x)) =>
        /\ Len(x.events) = next - 1
        /\ \A j \in 1 .. next - 1 : x.events[j].type = TriggersOf(x)[j].type
        /\ \A j \in 1 .. next - 2 :
              /\ x.events[j].nr < x.events[j + 1].nr
              /\ \A n \in x.events[j].nr + 1 .. x.events[j + 1].nr - 1 :
                    ~Fit(s, n, TriggersOf(x)[j + 1], k)

\* And none has come since that it could take.
Awaits(s, k, x) ==
    Positive(TriggersOf(x)) /\ x.next <= Len(TriggersOf(x)) =>
        \A n \in x.events[x.next - 1].nr + 1 .. Len(s) : ~Fit(s, n, TriggersOf(x)[x.next], k)

Sound(s, k, x) ==
    /\ x.next \in 2 .. Len(TriggersOf(x)) + 1
    /\ x.waiting <=> x.next <= Len(TriggersOf(x)) /\ TriggersOf(x)[x.next].negate
    /\ Told(s, k, x) /\ Linked(s, k, x, x.next) /\ Awaits(s, k, x)

\* It was complete before twice its window was over.
Timely(s, x) ==
    Positive(TriggersOf(x)) =>
        s[x.events[Len(TriggersOf(x))].nr].done - x.start < 2 * WindowOf(x)
Ended(s, x) ==
    /\ x.events # <<>> /\ Told(s, x.events[1].dev, x)
    /\ Linked(s, x.events[1].dev, x, Len(TriggersOf(x)) + 1)
    /\ Timely(s, x)

\* The triggers of a partial.
LEMMA TriggersAre ==
    ASSUME NEW x \in Underway
    PROVE  /\ Len(TriggersOf(x)) \in Nat /\ Len(TriggersOf(x)) >= 1
           /\ \A j \in 1 .. Len(TriggersOf(x)) : TriggersOf(x)[j].negate \in BOOLEAN
           /\ WindowOf(x) \in Nat /\ WindowOf(x) >= 1
BY RuleFacts, FirstIsAnEvent DEF TriggersOf, WindowOf

\* One event more.
LEMMA OneMore ==
    ASSUME NEW s \in Processed, NEW ev \in BusEvent, NEW t \in 0 .. MaxClock
    PROVE  LET s2 == Append(s, [event |-> ev, done |-> t])
           IN  /\ s2 \in Processed /\ Len(s2) = Len(s) + 1 /\ Len(s) \in Nat
               /\ \A n \in 1 .. Len(s) : s2[n] = s[n]
               /\ s2[Len(s) + 1].event = ev /\ s2[Len(s) + 1].done = t
<1>1. [event |-> ev, done |-> t] \in [event : BusEvent, done : 0 .. MaxClock]
  OBVIOUS
<1>2. QED BY <1>1 DEF Processed

\* A partial that ages stays sound, and without negations it does not become complete.
LEMMA AgedSound ==
    ASSUME NEW s, NEW k, NEW x \in Underway, Sound(s, k, x), ~Complete(x)
    PROVE  /\ Aged(x) \in Underway /\ Sound(s, k, Aged(x)) /\ Same(x, Aged(x))
           /\ Aged(x).events = x.events /\ Aged(x).rule = x.rule /\ Aged(x).start = x.start
           /\ Positive(TriggersOf(x)) => Aged(x) = x
           /\ Aged(x).next >= x.next /\ (~Satisfied(x) => Aged(x) = x)
<1>1. x \in Partial /\ x.next \in Nat /\ x.events # <<>>
  BY FirstIsAnEvent DEF Underway
<1>2. CASE ~Satisfied(x)
  BY <1>1, <1>2, AgedIs DEF Same
<1>3. CASE Satisfied(x)
  <2> DEFINE T == TriggersOf(x)
             y == Aged(x)
  <2>1. x.waiting /\ x.next <= Len(T) /\ T[x.next].negate /\ x.next \in 2 .. Len(T)
    BY <1>1, <1>3, TriggersAre DEF Satisfied, Sound, Complete
  <2>2. ~Positive(T)
    BY <2>1, TriggersAre DEF Positive
  <2>3. y = At(x, x.next + 1) /\ x.next + 1 \in Nat \ {0}
    BY <1>1, <1>3, AgedIs
  <2>4. /\ y \in Partial /\ y.rule = x.rule /\ y.events = x.events /\ y.start = x.start
        /\ y.next = x.next + 1 /\ TriggersOf(y) = T
        /\ y.waiting <=> x.next + 1 <= Len(T) /\ T[x.next + 1].negate
    <3> HIDE DEF y
    <3>1. /\ y \in Partial /\ y.rule = x.rule /\ y.events = x.events /\ y.start = x.start
          /\ y.next = x.next + 1
          /\ y.waiting <=> /\ x.next + 1 <= Len(TriggersOf(x))
                           /\ TriggersOf(x)[x.next + 1].negate
      BY <1>1, <2>3, AtIs
    <3>2. TriggersOf(y) = TriggersOf(x)
      BY <3>1 DEF TriggersOf
    <3>3. QED BY <3>1, <3>2
  <2>5. y.next \in 2 .. Len(T) + 1
    BY <2>1, <2>4, TriggersAre
  <2>6. Told(s, k, y)
    BY <2>4 DEF Told, Sound
  <2> HIDE DEF y, T
  <2>7. Linked(s, k, y, y.next) /\ Awaits(s, k, y)
    BY <2>2, <2>4 DEF Linked, Awaits
  <2>8. Sound(s, k, y)
    BY <2>4, <2>5, <2>6, <2>7 DEF Sound
  <2>9. y \in Underway /\ Same(x, y) /\ y.next >= x.next
    BY <1>1, <2>4 DEF Underway, Same
  <2>10. QED BY <1>3, <2>2, <2>4, <2>8, <2>9 DEF T, y
<1>4. QED BY <1>2, <1>3

\* The processing of ev, at time t, makes s2 of s.
SeenGrows(s, s2, ev, t) ==
    /\ s \in Processed /\ s2 \in Processed /\ Len(s2) = Len(s) + 1 /\ Len(s) \in Nat
    /\ \A n \in 1 .. Len(s) : s2[n] = s[n]
    /\ s2[Len(s) + 1].event = ev /\ s2[Len(s) + 1].done = t
    /\ ev \in BusEvent /\ ev.nr = Len(s) + 1

LEMMA ToldStays ==
    ASSUME NEW s, NEW s2, NEW ev, NEW t, SeenGrows(s, s2, ev, t), NEW k, NEW x,
           Len(x.events) \in Nat, Len(x.events) >= 1, Told(s, k, x)
    PROVE  Told(s2, k, x)
<1>1. \A e \in 1 .. Len(x.events) : /\ x.events[e].nr \in 1 .. Len(s)
                                    /\ s[x.events[e].nr].event = x.events[e]
                                    /\ x.events[e].dev = k
  BY DEF Told
<1>2. 1 \in 1 .. Len(x.events) /\ x.start = s[x.events[1].nr].done
  BY DEF Told
<1>3. \A n \in 1 .. Len(s) : n \in 1 .. Len(s2) /\ s2[n] = s[n]
  BY DEF SeenGrows
<1>4. QED BY <1>1, <1>2, <1>3 DEF Told

LEMMA LinkedStays ==
    ASSUME NEW s, NEW s2, NEW ev, NEW t, SeenGrows(s, s2, ev, t), NEW k, NEW x, NEW next \in Nat,
           Len(x.events) \in Nat, Told(s, k, x), Linked(s, k, x, next)
    PROVE  Linked(s2, k, x, next)
<1> SUFFICES ASSUME Positive(TriggersOf(x))
             PROVE  /\ Len(x.events) = next - 1
                    /\ \A j \in 1 .. next - 1 : x.events[j].type = TriggersOf(x)[j].type
                    /\ \A j \in 1 .. next - 2 :
                          /\ x.events[j].nr < x.events[j + 1].nr
                          /\ \A n \in x.events[j].nr + 1 .. x.events[j + 1].nr - 1 :
                                ~Fit(s2, n, TriggersOf(x)[j + 1], k)
  BY DEF Linked
<1>1. /\ Len(x.events) = next - 1
      /\ \A j \in 1 .. next - 1 : x.events[j].type = TriggersOf(x)[j].type
      /\ \A j \in 1 .. next - 2 :
            /\ x.events[j].nr < x.events[j + 1].nr
            /\ \A n \in x.events[j].nr + 1 .. x.events[j + 1].nr - 1 :
                  ~Fit(s, n, TriggersOf(x)[j + 1], k)
  BY DEF Linked
<1>2. ASSUME NEW j \in 1 .. next - 2,
             NEW n \in x.events[j].nr + 1 .. x.events[j + 1].nr - 1
      PROVE  ~Fit(s2, n, TriggersOf(x)[j + 1], k)
  <2>1. j \in 1 .. Len(x.events) /\ j + 1 \in 1 .. Len(x.events)
    BY <1>1
  <2>2. x.events[j].nr \in 1 .. Len(s) /\ x.events[j + 1].nr \in 1 .. Len(s)
    BY <2>1 DEF Told
  <2> DEFINE a == x.events[j].nr
             b == x.events[j + 1].nr
  <2>3. Len(s) \in Nat /\ a \in 1 .. Len(s) /\ b \in 1 .. Len(s) /\ n \in a + 1 .. b - 1
    BY <2>2 DEF SeenGrows
  <2> HIDE DEF a, b
  <2>4. n \in 1 .. Len(s)
    BY <2>3
  <2>5. s2[n] = s[n]
    BY <2>4 DEF SeenGrows
  <2>6. ~Fit(s, n, TriggersOf(x)[j + 1], k)
    BY <1>1
  <2>7. QED BY <2>5, <2>6 DEF Fit
<1>3. QED BY <1>1, <1>2

\* What another device's event does not change.
LEMMA OthersStaySound ==
    ASSUME NEW s, NEW s2, NEW ev, NEW t, SeenGrows(s, s2, ev, t), NEW k, ev.dev # k,
           NEW x \in Underway, Sound(s, k, x)
    PROVE  Sound(s2, k, x)
<1>1. Len(x.events) \in Nat /\ Len(x.events) >= 1 /\ x.next \in Nat
  BY FirstIsAnEvent
<1>2. Told(s2, k, x)
  BY <1>1, ToldStays DEF Sound
<1>3. Linked(s2, k, x, x.next)
  BY <1>1, LinkedStays DEF Sound
<1>4. Awaits(s2, k, x)
  <2> SUFFICES ASSUME Positive(TriggersOf(x)), x.next <= Len(TriggersOf(x)),
                      NEW n \in x.events[x.next - 1].nr + 1 .. Len(s2)
               PROVE  ~Fit(s2, n, TriggersOf(x)[x.next], k)
    BY DEF Awaits
  <2>1. Len(x.events) = x.next - 1 /\ x.next - 1 \in 1 .. Len(x.events)
    BY <1>1 DEF Sound, Linked
  <2>2. x.events[x.next - 1].nr \in 1 .. Len(s)
    BY <2>1 DEF Sound, Told
  <2>3. CASE n = Len(s) + 1
    BY <2>3 DEF SeenGrows, Fit
  <2>4. CASE n # Len(s) + 1
    <3>1. n \in x.events[x.next - 1].nr + 1 .. Len(s) /\ n \in 1 .. Len(s) /\ s2[n] = s[n]
      BY <2>2, <2>4 DEF SeenGrows
    <3>2. QED BY <3>1 DEF Sound, Awaits, Fit
  <2>5. QED BY <2>3, <2>4
<1>5. QED BY <1>2, <1>3, <1>4 DEF Sound

LEMMA EndedStays ==
    ASSUME NEW s, NEW s2, NEW ev, NEW t, SeenGrows(s, s2, ev, t), NEW x \in Firing, Ended(s, x)
    PROVE  Ended(s2, x)
<1>1. /\ Len(x.events) \in Nat /\ Len(x.events) >= 1 /\ x.rule \in DOMAIN Rules
      /\ Len(TriggersOf(x)) \in Nat /\ Len(TriggersOf(x)) >= 1
  <2>1. x.events \in Seq(BusEvent) /\ x.events # <<>> /\ x.rule \in DOMAIN Rules
    BY DEF Firing, Ended
  <2>2. QED BY <2>1, RuleFacts DEF TriggersOf
<1> DEFINE k == x.events[1].dev
           last == Len(TriggersOf(x))
<1>2. Told(s, k, x) /\ Linked(s, k, x, last + 1) /\ last + 1 \in Nat
  BY <1>1 DEF Ended
<1>3. Told(s2, k, x)
  BY <1>1, <1>2, ToldStays
<1>4. Linked(s2, k, x, last + 1)
  BY <1>1, <1>2, LinkedStays
<1>5. Timely(s2, x)
  <2> SUFFICES ASSUME Positive(TriggersOf(x))
               PROVE  s2[x.events[last].nr].done - x.start < 2 * WindowOf(x)
    BY DEF Timely
  <2>1. Len(x.events) = last /\ last \in 1 .. Len(x.events)
    BY <1>1, <1>2 DEF Linked
  <2>2. x.events[last].nr \in 1 .. Len(s)
    BY <2>1, <1>2 DEF Told
  <2>3. s2[x.events[last].nr] = s[x.events[last].nr]
    BY <2>2 DEF SeenGrows
  <2>4. QED BY <2>3 DEF Ended, Timely
<1>6. QED BY <1>3, <1>4, <1>5 DEF Ended

\* A partial of the event's device: it takes the event if it waits for it.
LEMMA FedSound ==
    ASSUME NEW s, NEW s2, NEW ev, NEW t, SeenGrows(s, s2, ev, t), NEW x \in Underway,
           Sound(s, ev.dev, x), ~Complete(x), ~(x.waiting /\ Wanted(x, ev))
    PROVE  /\ Fed(x, ev) \in Underway /\ Sound(s2, ev.dev, Fed(x, ev)) /\ Same(x, Fed(x, ev))
           /\ Fed(x, ev).start = x.start /\ Fed(x, ev).rule = x.rule
           /\ Complete(Fed(x, ev)) =>
                 /\ Fed(x, ev).events = Append(x.events, ev)
                 /\ ~x.waiting
<1> DEFINE y == Fed(x, ev)
           k == ev.dev
           T == TriggersOf(x)
           m == Len(x.events)
<1>1. /\ m \in Nat /\ m >= 1 /\ x.next \in Nat /\ x.events \in Seq(BusEvent)
      /\ Len(T) \in Nat /\ x.next \in 2 .. Len(T) /\ x.waiting \in BOOLEAN
      /\ \A j \in 1 .. Len(T) : T[j].negate \in BOOLEAN
  BY FirstIsAnEvent, TriggersAre DEF Sound, Complete
<1>2. ev \in BusEvent /\ ev.nr = Len(s) + 1 /\ Len(s) \in Nat
  BY DEF SeenGrows
<1>3. y \in Underway /\ y.rule = x.rule /\ y.events[1] = x.events[1] /\ y.start = x.start
      /\ Same(x, y) /\ TriggersOf(y) = T
  BY <1>2, FedIs DEF Same, TriggersOf
<1>4. Told(s2, k, x) /\ Linked(s2, k, x, x.next)
  BY <1>1, ToldStays, LinkedStays DEF Sound
<1>5. CASE ~x.waiting /\ Wanted(x, ev)
  <2>1. /\ y.next = x.next + 1 /\ y.events = Append(x.events, ev)
        /\ y.waiting <=> x.next + 1 <= Len(T) /\ T[x.next + 1].negate
    BY <1>2, <1>5, FedIs
  <2>2. /\ Len(y.events) = m + 1 /\ y.events[m + 1] = ev
        /\ \A e \in 1 .. m : y.events[e] = x.events[e]
    BY <1>1, <1>2, <2>1
  <2>3. Told(s2, k, y)
    <3>1. \A e \in 1 .. m : /\ x.events[e].nr \in 1 .. Len(s2)
                            /\ s2[x.events[e].nr].event = x.events[e]
                            /\ x.events[e].dev = k
      BY <1>4 DEF Told
    <3>2. Len(s) + 1 \in 1 .. Len(s2) /\ s2[Len(s) + 1].event = ev /\ ev.nr = Len(s) + 1
      BY DEF SeenGrows
    <3>3. x.start = s2[x.events[1].nr].done
      BY <1>4 DEF Told
    <3>4. \A e \in 1 .. m + 1 : e \in 1 .. m \/ e = m + 1
      BY <1>1
    <3> HIDE DEF y, m, k
    <3>5. \A e \in 1 .. m + 1 : /\ y.events[e].nr \in 1 .. Len(s2)
                                /\ s2[y.events[e].nr].event = y.events[e]
      BY <2>2, <3>1, <3>2, <3>4
    <3>6. \A e \in 1 .. m + 1 : y.events[e].dev = k
      BY <2>2, <3>1, <3>4 DEF k
    <3>7. QED BY <1>3, <2>2, <3>3, <3>5, <3>6 DEF Told
  <2>4. ASSUME Positive(T)
        PROVE  /\ Len(y.events) = y.next - 1
               /\ \A j \in 1 .. y.next - 1 : y.events[j].type = T[j].type
               /\ \A j \in 1 .. y.next - 2 :
                     /\ y.events[j].nr < y.events[j + 1].nr
                     /\ \A n \in y.events[j].nr + 1 .. y.events[j + 1].nr - 1 :
                           ~Fit(s2, n, T[j + 1], k)
    <3>1. /\ m = x.next - 1
          /\ \A j \in 1 .. x.next - 1 : x.events[j].type = T[j].type
          /\ \A j \in 1 .. x.next - 2 :
                /\ x.events[j].nr < x.events[j + 1].nr
                /\ \A n \in x.events[j].nr + 1 .. x.events[j + 1].nr - 1 :
                      ~Fit(s2, n, T[j + 1], k)
      BY <1>4, <2>4 DEF Linked
    <3>2. \A n \in x.events[x.next - 1].nr + 1 .. Len(s) : ~Fit(s, n, T[x.next], k)
      BY <1>1, <2>4 DEF Sound, Awaits
    <3>3. x.events[m].nr \in 1 .. Len(s)
      BY <1>1 DEF Sound, Told
    <3>4. \A n \in x.events[m].nr + 1 .. Len(s) : ~Fit(s2, n, T[x.next], k)
      <4>1. \A n \in 1 .. Len(s) : s2[n] = s[n]
        BY DEF SeenGrows
      <4> HIDE DEF T, m, k
      <4>2. QED BY <1>2, <3>1, <3>2, <3>3, <4>1 DEF Fit
    <3>5. T[x.next].type = ev.type
      BY <1>5 DEF Wanted
    <3> HIDE DEF y, m, k, T
    <3>6. Len(y.events) = y.next - 1
      BY <1>1, <2>1, <2>2, <3>1
    <3>7. ASSUME NEW j \in 1 .. y.next - 1  PROVE y.events[j].type = T[j].type
      <4>1. j \in 1 .. m \/ (j = m + 1 /\ j = x.next)
        BY <1>1, <2>1, <3>1
      <4>2. QED BY <4>1, <2>2, <3>1, <3>5
    <3>8. ASSUME NEW j \in 1 .. y.next - 2
          PROVE  /\ y.events[j].nr < y.events[j + 1].nr
                 /\ \A n \in y.events[j].nr + 1 .. y.events[j + 1].nr - 1 :
                       ~Fit(s2, n, T[j + 1], k)
      <4>1. CASE j # m
        <5>1. j \in 1 .. x.next - 2 /\ j \in 1 .. m /\ j + 1 \in 1 .. m
          BY <1>1, <2>1, <3>1, <4>1
        <5>2. y.events[j] = x.events[j] /\ y.events[j + 1] = x.events[j + 1]
          BY <5>1, <2>2
        <5>3. QED BY <5>1, <5>2, <3>1
      <4>2. CASE j = m
        <5>1. y.events[j] = x.events[m] /\ y.events[j + 1] = ev /\ j + 1 = x.next
          <6>1. m \in 1 .. m /\ m + 1 = x.next
            BY <1>1, <3>1
          <6>2. QED BY <2>2, <4>2, <6>1
        <5>2. ev.nr - 1 = Len(s) /\ x.events[m].nr < ev.nr
          BY <1>2, <3>3
        <5>3. QED BY <5>1, <5>2, <3>4
      <4>3. QED BY <4>1, <4>2
    <3>9. QED BY <3>6, <3>7, <3>8
  <2>5. Linked(s2, k, y, y.next)
    BY <1>3, <2>4 DEF Linked
  <2>6. Awaits(s2, k, y)
    <3> SUFFICES ASSUME Positive(T), NEW n \in y.events[y.next - 1].nr + 1 .. Len(s2)
                 PROVE  FALSE
      BY <1>3 DEF Awaits
    <3>1. y.next - 1 = m + 1
      BY <1>1, <2>1, <2>2, <2>4
    <3>2. y.events[y.next - 1].nr = Len(s2)
      BY <1>2, <2>2, <3>1 DEF SeenGrows
    <3>3. QED BY <1>2, <3>2 DEF SeenGrows
  <2>7. Sound(s2, k, y)
    <3>1. y.next \in 2 .. Len(T) + 1
      BY <1>1, <2>1
    <3>2. y.waiting <=> y.next <= Len(T) /\ T[y.next].negate
      BY <2>1
    <3> HIDE DEF y, k, T
    <3>3. QED BY <1>3, <2>3, <2>5, <2>6, <3>1, <3>2 DEF Sound
  <2>8. QED BY <1>3, <1>5, <2>1, <2>7
<1>6. CASE ~(~x.waiting /\ Wanted(x, ev))
  <2>1. y = x /\ (~x.waiting => T[x.next].type # ev.type)
    BY <1>2, <1>6, FedIs DEF Wanted
  <2>2. Awaits(s2, k, x)
    <3> SUFFICES ASSUME Positive(T), x.next <= Len(T),
                        NEW n \in x.events[x.next - 1].nr + 1 .. Len(s2)
                 PROVE  ~Fit(s2, n, T[x.next], k)
      BY DEF Awaits
    <3>1. ~x.waiting
      BY <1>1 DEF Sound, Positive
    <3>2. m = x.next - 1 /\ x.next - 1 \in 1 .. m
      BY <1>1 DEF Sound, Linked
    <3>3. x.events[x.next - 1].nr \in 1 .. Len(s)
      BY <3>2 DEF Sound, Told
    <3>4. CASE n = Len(s) + 1
      BY <2>1, <3>1, <3>4 DEF SeenGrows, Fit
    <3>5. CASE n # Len(s) + 1
      <4>1. n \in x.events[x.next - 1].nr + 1 .. Len(s) /\ n \in 1 .. Len(s) /\ s2[n] = s[n]
        BY <3>3, <3>5 DEF SeenGrows
      <4>2. QED BY <4>1 DEF Sound, Awaits, Fit
    <3>6. QED BY <3>4, <3>5
  <2>3. Sound(s2, k, x)
    BY <1>4, <2>2 DEF Sound
  <2>4. ~Complete(y)
    BY <2>1
  <2>5. QED BY <1>3, <2>1, <2>3, <2>4
<1>7. QED BY <1>5, <1>6

\* A partial that the event begins.
LEMMA BegunSound ==
    ASSUME NEW s, NEW s2, NEW ev, SeenGrows(s, s2, ev, clock), clock \in 0 .. MaxClock,
           NEW r \in DOMAIN Rules, Rules[r].triggers[1].type = ev.type
    PROVE  /\ Begun(r, ev) \in Underway /\ Sound(s2, ev.dev, Begun(r, ev))
           /\ Begun(r, ev).rule = r /\ Begun(r, ev).events = <<ev>>
           /\ Begun(r, ev).start = clock
<1> DEFINE y == Begun(r, ev)
           T == Rules[r].triggers
<1>1. ev \in BusEvent /\ ev.nr = Len(s) + 1 /\ Len(s2) = Len(s) + 1 /\ Len(s) \in Nat
      /\ s2[ev.nr].event = ev /\ s2[ev.nr].done = clock
  BY DEF SeenGrows
<1>2. /\ y \in Underway /\ y.rule = r /\ y.events = <<ev>> /\ y.start = clock /\ y.next = 2
      /\ y.waiting <=> 2 <= Len(T) /\ T[2].negate
      /\ TriggersOf(y) = T
  BY <1>1, BegunIs DEF TriggersOf
<1>3. Len(T) \in Nat /\ Len(T) >= 1
  BY RuleFacts
<1> HIDE DEF y, T
<1>4. Len(y.events) = 1 /\ y.events[1] = ev /\ \A e \in 1 .. 1 : e = 1
  BY <1>2
<1>5. Told(s2, ev.dev, y)
  BY <1>1, <1>2, <1>4 DEF Told
<1>6. Linked(s2, ev.dev, y, y.next)
  <2>1. \A j \in 1 .. y.next - 1 : y.events[j].type = T[j].type
    <3>1. \A j \in 1 .. y.next - 1 : j = 1
      BY <1>2
    <3>2. QED BY <1>4, <3>1 DEF T
  <2>2. \A j \in 1 .. y.next - 2 : FALSE
    BY <1>2
  <2>3. QED BY <1>2, <1>4, <2>1, <2>2 DEF Linked
<1>7. Awaits(s2, ev.dev, y)
  BY <1>1, <1>2, <1>4 DEF Awaits
<1>8. y.next \in 2 .. Len(T) + 1
  BY <1>2, <1>3
<1>9. QED BY <1>2, <1>5, <1>6, <1>7, <1>8 DEF Sound, y

-----------------------------------------------------------------------------
\* The engine's invariant.

\* The events that are waiting to be processed are the next ones, in order.
Queued(q, done, all) ==
    /\ done <= all
    /\ \A i \in 1 .. Len(q) : q[i].type # Meta => q[i].nr \in done + 1 .. all
    /\ \A i, j \in 1 .. Len(q) :
          i < j /\ q[i].type # Meta /\ q[j].type # Meta => q[i].nr < q[j].nr
    /\ \A n \in done + 1 .. all : \E i \in 1 .. Len(q) : q[i].type # Meta /\ q[i].nr = n

Kept(s, k, list) ==
    /\ list \in Seq(Underway) /\ OldestFirst(list)
    /\ \A x \in Entries(list) : Sound(s, k, x) /\ ~Complete(x)

EngineInv ==
    /\ RuleTypeOK
    /\ Numbered(seen) /\ InTime(seen, clock)
    /\ Queued(inbox, Len(seen), published)
    /\ \A k \in Keys : Kept(seen, k, partials[k]) /\ Len(partials[k]) <= Cap
    /\ Distinct(fired)
    /\ \A y \in Entries(fired) : Ended(seen, y)
    /\ \A k \in Keys : \A x \in Entries(partials[k]), y \in Entries(fired) : ~Same(x, y)

\* What is left of a list after its expiry, and where it comes from.
LEMMA ExpirySound ==
    ASSUME NEW s, NEW k, NEW list, Kept(s, k, list)
    PROVE  /\ Expired(list) \in Seq(Underway) /\ Len(Expired(list)) <= Len(list)
           /\ OldestFirst(Expired(list))
           /\ \A y \in Entries(Expired(list)) :
                 /\ y \in Underway /\ Sound(s, k, y)
                 /\ Complete(y) => ~Positive(TriggersOf(y))
                 /\ \E x \in Entries(list) : /\ ~Stale(x) /\ y = Aged(x) /\ Same(x, y)
                                             /\ Positive(TriggersOf(y)) => y = x
           /\ \A x \in Entries(list) : ~Stale(x) => Aged(x) \in Entries(Expired(list))
<1>1. list \in Seq(Underway) /\ OldestFirst(list)
      /\ \A x \in Entries(list) : x \in Underway /\ Sound(s, k, x) /\ ~Complete(x)
  BY DEF Kept, Entries
<1>2. /\ Expired(list) \in Seq(Underway) /\ Len(Expired(list)) <= Len(list)
      /\ Entries(Expired(list)) = {Aged(pm) : pm \in {x \in Entries(list) : ~Stale(x)}}
      /\ OldestFirst(Expired(list))
  BY <1>1, ExpiredIs
<1>3. ASSUME NEW y \in Entries(Expired(list))
      PROVE  /\ y \in Underway /\ Sound(s, k, y)
             /\ Complete(y) => ~Positive(TriggersOf(y))
             /\ \E x \in Entries(list) : /\ ~Stale(x) /\ y = Aged(x) /\ Same(x, y)
                                         /\ Positive(TriggersOf(y)) => y = x
  <2>1. PICK x \in Entries(list) : ~Stale(x) /\ y = Aged(x)
    BY <1>2
  <2>2. x \in Underway /\ Sound(s, k, x) /\ ~Complete(x)
    BY <1>1
  <2>3. /\ y \in Underway /\ Sound(s, k, y) /\ Same(x, y) /\ y.rule = x.rule
        /\ Positive(TriggersOf(x)) => y = x
    BY <2>1, <2>2, AgedSound
  <2>4. TriggersOf(y) = TriggersOf(x)
    BY <2>3 DEF TriggersOf
  <2>5. QED BY <2>1, <2>2, <2>3, <2>4
<1>4. \A x \in Entries(list) : ~Stale(x) => Aged(x) \in Entries(Expired(list))
  BY <1>2
<1>5. QED BY <1>2, <1>3, <1>4

\* A partial that is complete has a match that is what it should be.
LEMMA CompleteIsEnded ==
    ASSUME NEW s, NEW k, NEW x \in Underway, Sound(s, k, x), Complete(x),
           Positive(TriggersOf(x)) => s[x.events[Len(TriggersOf(x))].nr].done - x.start
                                         < 2 * WindowOf(x)
    PROVE  Ended(s, Match(x)) /\ x.events[1].dev = k
<1> DEFINE y == Match(x)
<1>1. /\ y.rule = x.rule /\ y.events = x.events /\ y.start = x.start
      /\ TriggersOf(y) = TriggersOf(x) /\ WindowOf(y) = WindowOf(x)
  BY DEF Match, TriggersOf, WindowOf
<1>2. /\ x.events # <<>> /\ 1 \in 1 .. Len(x.events) /\ Len(TriggersOf(x)) \in Nat
      /\ x.next \in 2 .. Len(TriggersOf(x)) + 1
  BY FirstIsAnEvent, TriggersAre DEF Underway, Sound
<1>3. x.next = Len(TriggersOf(x)) + 1
  BY <1>2 DEF Complete
<1>4. x.events[1].dev = k
  BY <1>2 DEF Sound, Told
<1> HIDE DEF y
<1>5. Told(s, k, y)
  BY <1>1 DEF Told, Sound
<1>6. Linked(s, k, y, Len(TriggersOf(y)) + 1)
  BY <1>1, <1>3 DEF Linked, Sound
<1>7. Timely(s, y)
  BY <1>1 DEF Timely
<1>8. QED BY <1>1, <1>2, <1>4, <1>5, <1>6, <1>7 DEF Ended, y

\* The head of the queue is the next event, and the rest follows it.
LEMMA HeadIsNext ==
    ASSUME EngineInv, inbox # <<>>, Head(inbox).type # Meta
    PROVE  /\ Head(inbox) \in BusEvent /\ Head(inbox).nr = Len(seen) + 1
           /\ Head(inbox).dev \in Keys /\ Head(inbox).type \in EventTypes
           /\ Tail(inbox) \in Seq(BusEvent)
           /\ Queued(Tail(inbox), Len(seen) + 1, published)
<1> DEFINE q == inbox
           rest == Tail(inbox)
           d == Len(seen)
<1>1. /\ q \in Seq(BusEvent) /\ d \in Nat /\ published \in Nat
      /\ Queued(q, d, published)
  <2>1. published \in 0 .. MaxPublished /\ MaxPublished \in Nat
    BY RuleAssumption DEF EngineInv, RuleTypeOK
  <2>2. QED BY <2>1 DEF EngineInv, RuleTypeOK
<1>2. /\ Len(q) \in Nat /\ Len(q) >= 1 /\ q[1] \in BusEvent /\ Head(q) = q[1]
      /\ Len(rest) = Len(q) - 1 /\ rest \in Seq(BusEvent)
      /\ \A i \in 1 .. Len(rest) : rest[i] = q[i + 1]
  BY <1>1, HeadTailProperties
<1> HIDE DEF q, rest, d
<1>3. q[1].type # Meta
  BY <1>2 DEF q
<1>4. \A i \in 1 .. Len(q) : q[i].nr \in Int
  <2>1. \A i \in 1 .. Len(q) : q[i] \in BusEvent
    BY <1>1
  <2>2. \A e \in BusEvent : e.nr \in Int
    BY RuleAssumption DEF BusEvent
  <2>3. QED BY <2>1, <2>2
<1>5. q[1].nr = d + 1
  <2>1. q[1].nr \in d + 1 .. published /\ 1 \in 1 .. Len(q)
    BY <1>1, <1>2, <1>3 DEF Queued
  <2>2. PICK i \in 1 .. Len(q) : q[i].type # Meta /\ q[i].nr = d + 1
    <3>1. d + 1 \in d + 1 .. published
      BY <2>1, <1>1
    <3>2. QED BY <3>1, <1>1 DEF Queued
  <2>3. i = 1 \/ q[1].nr < q[i].nr
    BY <1>1, <1>3, <2>1, <2>2 DEF Queued
  <2>4. QED BY <1>1, <2>1, <2>2, <2>3
<1>6. \A i \in 1 .. Len(rest) : i + 1 \in 1 .. Len(q) /\ i + 1 > 1 /\ rest[i] = q[i + 1]
  BY <1>2
<1>7. ASSUME NEW i \in 1 .. Len(rest), rest[i].type # Meta
      PROVE  rest[i].nr \in d + 1 + 1 .. published
  <2>1. q[i + 1].nr \in d + 1 .. published /\ q[1].nr < q[i + 1].nr
    BY <1>1, <1>2, <1>3, <1>6, <1>7 DEF Queued
  <2>2. QED BY <2>1, <1>1, <1>5, <1>6
<1>8. ASSUME NEW i \in 1 .. Len(rest), NEW j \in 1 .. Len(rest), i < j,
             rest[i].type # Meta, rest[j].type # Meta
      PROVE  rest[i].nr < rest[j].nr
  <2>1. i + 1 < j + 1
    BY <1>2, <1>8
  <2>2. /\ i + 1 \in 1 .. Len(q) /\ j + 1 \in 1 .. Len(q)
        /\ rest[i] = q[i + 1] /\ rest[j] = q[j + 1]
    BY <1>6
  <2>3. q[i + 1].nr < q[j + 1].nr
    BY <2>1, <2>2, <1>1, <1>8 DEF Queued
  <2>4. QED BY <2>2, <2>3
<1>9. ASSUME NEW n \in d + 1 + 1 .. published
      PROVE  \E i \in 1 .. Len(rest) : rest[i].type # Meta /\ rest[i].nr = n
  <2>1. n \in d + 1 .. published /\ n # d + 1
    BY <1>1
  <2>2. PICK i \in 1 .. Len(q) : q[i].type # Meta /\ q[i].nr = n
    BY <2>1, <1>1 DEF Queued
  <2>3. i # 1
    BY <2>1, <2>2, <1>5
  <2>4. i - 1 \in 1 .. Len(rest) /\ i - 1 + 1 = i
    BY <1>2, <2>3
  <2>5. rest[i - 1] = q[i]
    BY <2>4, <1>6
  <2>6. QED BY <2>2, <2>4, <2>5
<1>10. d + 1 <= published
  <2>1. q[1].nr \in d + 1 .. published
    BY <1>1, <1>2, <1>3 DEF Queued
  <2>2. QED BY <2>1, <1>1
<1>11. Queued(rest, d + 1, published)
  BY <1>7, <1>8, <1>9, <1>10 DEF Queued
<1>12. q[1].dev \in Keys /\ q[1].type \in EventTypes
  BY <1>2, <1>3 DEF BusEvent
<1>13. QED BY <1>2, <1>5, <1>11, <1>12 DEF q, rest, d

LEMMA EngineStarts == RuleInit => EngineInv
<1> SUFFICES ASSUME RuleInit  PROVE EngineInv
  OBVIOUS
<1>1. /\ 0 \in 0 .. MaxClock /\ 0 \in 0 .. MaxPublished /\ Cap \in Nat
  BY RuleAssumption
<1>2. /\ Len(<<>>) = 0 /\ DOMAIN <<>> = {} /\ \A X : <<>> \in Seq(X)
      /\ \A i \in 1 .. 0 : FALSE
  OBVIOUS
<1>3. RuleTypeOK
  <2>1. partials \in [Keys -> Seq(Partial)]
    BY DEF RuleInit
  <2>2. inbox \in Seq(BusEvent) /\ seen \in Seq([event : BusEvent, done : 0 .. MaxClock])
    BY DEF RuleInit
  <2>3. fired \in Seq([rule : DOMAIN Rules, events : Seq(BusEvent),
                       start : 0 .. MaxClock, at : 0 .. MaxClock])
    BY DEF RuleInit
  <2>4. QED BY <1>1, <2>1, <2>2, <2>3 DEF RuleInit, RuleTypeOK
<1>4. Numbered(seen) /\ InTime(seen, clock)
  BY <1>2 DEF RuleInit, Numbered, InTime
<1>5. Queued(inbox, Len(seen), published)
  <2>1. \A n \in 0 + 1 .. 0 : FALSE
    OBVIOUS
  <2>2. QED BY <1>2, <2>1 DEF RuleInit, Queued
<1>6. ASSUME NEW k \in Keys  PROVE Kept(seen, k, partials[k]) /\ Len(partials[k]) <= Cap
  <2>1. partials[k] = <<>> /\ Entries(<<>>) = {} /\ OldestFirst(<<>>)
    BY <1>2 DEF RuleInit, Entries, OldestFirst
  <2>2. QED BY <1>1, <1>2, <2>1 DEF Kept
<1>7. Entries(fired) = {} /\ Distinct(fired)
  BY <1>2 DEF RuleInit, Entries, Distinct
<1>8. QED BY <1>3, <1>4, <1>5, <1>6, <1>7 DEF EngineInv

\* Pattern matches that come back behind the others leave the order alone.
LEMMA MetaWaitsToo ==
    ASSUME NEW q \in Seq(BusEvent), NEW q2 \in Seq(BusEvent), NEW done \in Nat, NEW all \in Nat,
           Queued(q, done, all), Len(q2) >= Len(q), \A i \in 1 .. Len(q) : q2[i] = q[i],
           \A i \in Len(q) + 1 .. Len(q2) : q2[i].type = Meta
    PROVE  Queued(q2, done, all)
<1>1. /\ Len(q) \in Nat /\ Len(q2) \in Nat
      /\ \A i \in 1 .. Len(q2) : q2[i].type # Meta => i \in 1 .. Len(q) /\ q2[i] = q[i]
      /\ \A i \in 1 .. Len(q) : i \in 1 .. Len(q2) /\ q2[i] = q[i]
  <2>1. Len(q) \in Nat /\ Len(q2) \in Nat
    OBVIOUS
  <2>2. \A i \in 1 .. Len(q2) : i \in 1 .. Len(q) \/ i \in Len(q) + 1 .. Len(q2)
    BY <2>1
  <2>3. \A i \in 1 .. Len(q) : i \in 1 .. Len(q2)
    BY <2>1
  <2>4. QED BY <2>1, <2>2, <2>3
<1>2. \A n \in done + 1 .. all : \E i \in 1 .. Len(q2) : q2[i].type # Meta /\ q2[i].nr = n
  <2> TAKE n \in done + 1 .. all
  <2>1. PICK i \in 1 .. Len(q) : q[i].type # Meta /\ q[i].nr = n
    BY DEF Queued
  <2>2. i \in 1 .. Len(q2) /\ q2[i] = q[i]
    BY <1>1
  <2>3. QED BY <2>1, <2>2
<1>3. \A i \in 1 .. Len(q2) : q2[i].type # Meta => q2[i].nr \in done + 1 .. all
  BY <1>1 DEF Queued
<1>4. ASSUME NEW i \in 1 .. Len(q2), NEW j \in 1 .. Len(q2), i < j,
             q2[i].type # Meta, q2[j].type # Meta
      PROVE  q2[i].nr < q2[j].nr
  <2>1. i \in 1 .. Len(q) /\ j \in 1 .. Len(q) /\ q2[i] = q[i] /\ q2[j] = q[j]
    BY <1>1, <1>4
  <2>2. QED BY <1>4, <2>1 DEF Queued
<1>5. QED BY <1>2, <1>3, <1>4 DEF Queued

-----------------------------------------------------------------------------
\* What processing an event does to the partials of its device.

AdvancedBy(list, ev) == Advanced(Cancelled(Active(list), ev), ev) \o Started(ev)
Survives(x, ev) == ~Stale(x) /\ ~Complete(Aged(x)) /\ ~(Aged(x).waiting /\ Wanted(Aged(x), ev))
Launches(r, ev) == r \in DOMAIN Rules /\ Rules[r].triggers[1].type = ev.type

\* Where the entries come from.
LEMMA AdvancedAre ==
    ASSUME NEW list, NEW k, Kept(seen, k, list), NEW ev \in BusEvent, clock \in 0 .. MaxClock,
           Len(seen) \in Nat, ev.nr = Len(seen) + 1
    PROVE  /\ AdvancedBy(list, ev) \in Seq(Underway) /\ OldestFirst(AdvancedBy(list, ev))
           /\ Entries(AdvancedBy(list, ev)) =
                 {Fed(Aged(x), ev) : x \in {z \in Entries(list) : Survives(z, ev)}}
                 \cup {Begun(r, ev) : r \in {q \in DOMAIN Rules : Launches(q, ev)}}
<1> DEFINE old == Expired(list)
           act == Active(list)
           rest == Cancelled(act, ev)
           fed == Advanced(rest, ev)
           new == Started(ev)
<1>1. list \in Seq(Underway) /\ OldestFirst(list)
      /\ \A x \in Entries(list) : x \in Underway /\ Sound(seen, k, x)
  BY DEF Kept, Entries
<1>2. /\ old \in Seq(Underway) /\ OldestFirst(old)
      /\ Entries(old) = {Aged(pm) : pm \in {x \in Entries(list) : ~Stale(x)}}
  BY <1>1, ExpiredIs
<1> HIDE DEF old
<1>3. /\ act \in Seq(Underway) /\ OldestFirst(act)
      /\ Entries(act) = {x \in Entries(old) : ~Complete(x)}
  BY <1>2, OpenIs DEF Active, old
<1> HIDE DEF act
<1>4. /\ rest \in Seq(Underway) /\ OldestFirst(rest)
      /\ Entries(rest) = {x \in Entries(act) : ~(x.waiting /\ Wanted(x, ev))}
  BY <1>3, CancelledIs
<1> HIDE DEF rest
<1>5. /\ fed \in Seq(Underway) /\ OldestFirst(fed)
      /\ Entries(fed) = {Fed(pm, ev) : pm \in Entries(rest)}
  BY <1>4, AdvancedIs
<1> HIDE DEF fed
<1>6. /\ new \in Seq(Underway) /\ OldestFirst(new)
      /\ Entries(new) = {Begun(r, ev) : r \in {q \in DOMAIN Rules : Launches(q, ev)}}
  <2>1. {q \in DOMAIN Rules : Rules[q].triggers[1].type = ev.type}
           = {q \in DOMAIN Rules : Launches(q, ev)}
    BY DEF Launches
  <2>2. QED BY <2>1, StartedIs
<1> HIDE DEF new
<1>7. Entries(rest) = {Aged(x) : x \in {z \in Entries(list) : Survives(z, ev)}}
  BY <1>2, <1>3, <1>4 DEF Survives
<1>8. Entries(fed) = {Fed(Aged(x), ev) : x \in {z \in Entries(list) : Survives(z, ev)}}
  BY <1>5, <1>7
<1>9. ASSUME NEW x \in Entries(fed), NEW y \in Entries(new)  PROVE Older(x, y)
  <2>1. PICK z \in Entries(list) : x = Fed(Aged(z), ev)
    BY <1>8
  <2>2. z \in Underway /\ Sound(seen, k, z) /\ z \in Partial
    BY <1>1, <2>1, FirstIsAnEvent
  <2>3. Aged(z) \in Underway /\ Aged(z).events = z.events
    BY <2>2, AgedIs DEF Underway
  <2>4. x.events[1] = z.events[1]
    BY <2>1, <2>3, FedIs
  <2>5. z.events[1].nr \in 1 .. Len(seen)
    BY <2>2, FirstIsAnEvent DEF Sound, Told
  <2>6. PICK r \in DOMAIN Rules : y = Begun(r, ev)
    BY <1>6
  <2>7. y.events[1] = ev
    BY <2>6, BegunIs
  <2>8. QED BY <2>4, <2>5, <2>7 DEF Older
<1>10. /\ fed \o new \in Seq(Underway) /\ OldestFirst(fed \o new)
       /\ Entries(fed \o new) = Entries(fed) \cup Entries(new)
  BY <1>5, <1>6, <1>9, JoinedIs
<1>11. AdvancedBy(list, ev) = fed \o new
  BY DEF AdvancedBy, fed, new, rest, act
<1>12. QED BY <1>6, <1>8, <1>10, <1>11

\* And what they are.
LEMMA AdvancedSound ==
    ASSUME EngineInv, NEW s2, NEW ev, SeenGrows(seen, s2, ev, clock), NEW k, ev.dev = k,
           NEW list, Kept(seen, k, list), NEW y \in Entries(AdvancedBy(list, ev))
    PROVE  /\ y \in Underway /\ Sound(s2, k, y) /\ y.events[1].nr \in 1 .. Len(s2)
           /\ \/ \E x \in Entries(list) : Survives(x, ev) /\ y = Fed(Aged(x), ev) /\ Same(x, y)
              \/ \E r : Launches(r, ev) /\ y = Begun(r, ev) /\ y.rule = r /\ y.events = <<ev>>
           /\ Complete(y) => Ended(s2, Match(y)) /\ y.events[1].dev = k
<1>1. /\ ev \in BusEvent /\ ev.nr = Len(seen) + 1 /\ Len(seen) \in Nat /\ clock \in 0 .. MaxClock
      /\ Len(s2) = Len(seen) + 1 /\ s2[ev.nr].done = clock
  BY DEF SeenGrows, EngineInv, RuleTypeOK
<1>2. clock \in Nat
  BY <1>1, RuleAssumption
<1>3. \/ \E x \in Entries(list) : Survives(x, ev) /\ y = Fed(Aged(x), ev)
      \/ \E r \in DOMAIN Rules : Launches(r, ev) /\ y = Begun(r, ev)
  BY <1>1, AdvancedAre
<1>4. CASE \E x \in Entries(list) : Survives(x, ev) /\ y = Fed(Aged(x), ev)
  <2>1. PICK x \in Entries(list) : Survives(x, ev) /\ y = Fed(Aged(x), ev)
    BY <1>4
  <2>2. x \in Underway /\ Sound(seen, k, x) /\ ~Complete(x)
    BY DEF Kept, Entries
  <2> DEFINE a == Aged(x)
             T == TriggersOf(x)
  <2>3. /\ a \in Underway /\ Sound(seen, k, a) /\ Same(x, a) /\ a.rule = x.rule
        /\ a.start = x.start /\ (Positive(T) => a = x)
    BY <2>2, AgedSound
  <2>4. ~Complete(a) /\ ~(a.waiting /\ Wanted(a, ev)) /\ y = Fed(a, ev) /\ ~Stale(x)
    BY <2>1 DEF Survives
  <2> HIDE DEF a
  <2>5. /\ y \in Underway /\ Sound(s2, k, y) /\ Same(a, y) /\ y.start = a.start
        /\ y.rule = a.rule
        /\ Complete(y) => y.events = Append(a.events, ev) /\ ~a.waiting
    BY <2>3, <2>4, FedSound
  <2>6. Same(x, y) /\ TriggersOf(y) = T /\ WindowOf(y) = WindowOf(x)
    BY <2>3, <2>5 DEF Same, TriggersOf, WindowOf
  <2>7. ASSUME Complete(y), Positive(T)
        PROVE  s2[y.events[Len(T)].nr].done - y.start < 2 * WindowOf(y)
    <3>1. a = x /\ ~x.waiting /\ y.events = Append(x.events, ev)
      BY <2>3, <2>5, <2>7
    <3>2. Elapsed(x) < 2 * WindowOf(x)
      <4>1. x.start \in 0 .. MaxClock /\ WindowOf(x) \in Nat
        BY <2>2, TriggersAre, FirstIsAnEvent
      <4>2. QED BY <1>2, <2>4, <3>1, <4>1 DEF Stale, Elapsed
    <3>3. y.next = Len(T) + 1 /\ Len(T) \in Nat
      BY <2>2, <2>5, <2>6, <2>7, TriggersAre DEF Sound, Complete
    <3>4. Len(y.events) = Len(T)
      BY <2>5, <2>6, <2>7, <3>3 DEF Sound, Linked
    <3>5. x.events \in Seq(BusEvent) /\ Len(x.events) \in Nat
      BY <2>2, FirstIsAnEvent
    <3>6. y.events[Len(T)] = ev
      BY <1>1, <3>1, <3>4, <3>5
    <3>7. y.start = x.start
      BY <2>3, <2>5
    <3>8. QED BY <1>1, <2>6, <3>2, <3>6, <3>7 DEF Elapsed
  <2>8. Complete(y) => Ended(s2, Match(y)) /\ y.events[1].dev = k
    BY <2>5, <2>6, <2>7, CompleteIsEnded
  <2>9. y.events[1].nr \in 1 .. Len(s2)
    BY <2>5, FirstIsAnEvent DEF Sound, Told
  <2>10. QED BY <2>1, <2>5, <2>6, <2>8, <2>9
<1>5. CASE \E r \in DOMAIN Rules : Launches(r, ev) /\ y = Begun(r, ev)
  <2>1. PICK r \in DOMAIN Rules : Launches(r, ev) /\ y = Begun(r, ev)
    BY <1>5
  <2>2. /\ y \in Underway /\ Sound(s2, k, y) /\ y.rule = r /\ y.events = <<ev>>
        /\ y.start = clock
    BY <1>1, <2>1, BegunSound DEF Launches
  <2> DEFINE T == TriggersOf(y)
  <2>3. ASSUME Complete(y), Positive(T)
        PROVE  s2[y.events[Len(T)].nr].done - y.start < 2 * WindowOf(y)
    <3>1. WindowOf(y) \in Nat /\ WindowOf(y) >= 1 /\ Len(T) \in Nat /\ Len(T) >= 1
      BY <2>2, TriggersAre
    <3>2. y.next = Len(T) + 1
      BY <2>2, <2>3, <3>1 DEF Sound, Complete
    <3>3. Len(y.events) = Len(T)
      BY <2>2, <2>3, <3>1, <3>2 DEF Sound, Linked
    <3>4. Len(T) = 1 /\ y.events[1] = ev
      BY <2>2, <3>3
    <3>5. QED BY <1>1, <1>2, <2>2, <3>1, <3>4
  <2>4. Complete(y) => Ended(s2, Match(y)) /\ y.events[1].dev = k
    BY <2>2, <2>3, CompleteIsEnded
  <2>5. y.events[1].nr \in 1 .. Len(s2)
    BY <1>1, <2>2
  <2>6. QED BY <2>1, <2>2, <2>4, <2>5
<1>6. QED BY <1>3, <1>4, <1>5

\* Those that fire by their expiry.
LEMMA FiringSound ==
    ASSUME NEW s, NEW k, NEW list, Kept(s, k, list)
    PROVE  /\ ToFire(list) \in Seq(Underway) /\ OldestFirst(ToFire(list))
           /\ \A y \in Entries(ToFire(list)) :
                 /\ y \in Underway /\ Sound(s, k, y) /\ Complete(y) /\ ~Positive(TriggersOf(y))
                 /\ \E x \in Entries(list) : ~Stale(x) /\ y = Aged(x) /\ Same(x, y)
                 /\ Ended(s, Match(y)) /\ y.events[1].dev = k
<1>1. /\ Expired(list) \in Seq(Underway) /\ OldestFirst(Expired(list))
      /\ \A y \in Entries(Expired(list)) :
            /\ y \in Underway /\ Sound(s, k, y)
            /\ Complete(y) => ~Positive(TriggersOf(y))
            /\ \E x \in Entries(list) : ~Stale(x) /\ y = Aged(x) /\ Same(x, y)
  BY ExpirySound
<1>2. /\ ToFire(list) \in Seq(Underway) /\ OldestFirst(ToFire(list))
      /\ Entries(ToFire(list)) = {x \in Entries(Expired(list)) : Complete(x)}
  BY <1>1, ClosedIs DEF ToFire
<1>3. QED BY <1>1, <1>2, CompleteIsEnded

LEMMA SameIs ==
    /\ \A x, y : Same(x, y) => Same(y, x)
    /\ \A x, y, z : Same(x, y) /\ Same(y, z) => Same(x, z)
    /\ \A x, y : Same(Match(x), y) <=> Same(x, y)
BY DEF Same, Match

\* Nothing that a step goes on with, or fires, is the same as something else.
LEMMA NewIsNew ==
    ASSUME EngineInv, NEW s2, NEW ev, SeenGrows(seen, s2, ev, clock), NEW k \in Keys, ev.dev = k
    PROVE  /\ \A y \in Entries(AdvancedBy(partials[k], ev)) :
                 /\ \A z \in Entries(fired) : ~Same(y, z)
                 /\ \A z \in Entries(ToFire(partials[k])) : ~Same(y, z)
           /\ \A y \in Entries(ToFire(partials[k])), z \in Entries(fired) : ~Same(y, z)
<1> DEFINE old == partials[k]
           adv == AdvancedBy(old, ev)
<1>1. Kept(seen, k, old)
  BY DEF EngineInv
<1>2. old \in Seq(Underway) /\ OldestFirst(old)
  BY <1>1 DEF Kept
<1>3. \A x \in Entries(old), z \in Entries(fired) : ~Same(x, z)
  BY DEF EngineInv
<1>4. \A x, y \in Entries(old) : Same(x, y) => x = y
  BY <1>2, OldestFirstAreDistinct
<1>5. \A z \in Entries(ToFire(old)) : /\ Complete(z) /\ z.events[1].nr \in 1 .. Len(seen)
                                      /\ \E x \in Entries(old) : z = Aged(x) /\ Same(x, z)
  BY <1>1, FiringSound, FirstIsAnEvent DEF Sound, Told
<1>6. \A z \in Entries(fired) : z.events[1].nr \in 1 .. Len(seen)
  <2> TAKE z \in Entries(fired)
  <2>0. fired \in Seq(Firing)
    BY DEF EngineInv, RuleTypeOK, Firing
  <2>1. Ended(seen, z) /\ z \in Firing
    BY <2>0 DEF EngineInv, Entries
  <2>2. z.events \in Seq(BusEvent) /\ z.events # <<>>
    BY <2>1 DEF Ended, Firing
  <2>3. 1 \in 1 .. Len(z.events)
    BY <2>2
  <2>4. QED BY <2>1, <2>3 DEF Ended, Told
<1>7. ASSUME NEW y \in Entries(adv)
      PROVE  /\ \A z \in Entries(fired) : ~Same(y, z)
             /\ \A z \in Entries(ToFire(old)) : ~Same(y, z)
  <2>1. \/ \E x \in Entries(old) : Survives(x, ev) /\ y = Fed(Aged(x), ev) /\ Same(x, y)
        \/ \E r : Launches(r, ev) /\ y = Begun(r, ev) /\ y.rule = r /\ y.events = <<ev>>
    BY <1>1, AdvancedSound
  <2>2. CASE \E x \in Entries(old) : Survives(x, ev) /\ y = Fed(Aged(x), ev) /\ Same(x, y)
    <3>1. PICK x \in Entries(old) : Survives(x, ev) /\ Same(x, y)
      BY <2>2
    <3>2. ~Complete(Aged(x))
      BY <3>1 DEF Survives
    <3>3. \A z \in Entries(fired) : ~Same(y, z)
      BY <1>3, <3>1, SameIs
    <3>4. ASSUME NEW z \in Entries(ToFire(old)), Same(y, z)  PROVE FALSE
      <4>1. PICK x2 \in Entries(old) : z = Aged(x2) /\ Same(x2, z) /\ Complete(z)
        BY <1>5
      <4>2. Same(x, x2)
        BY <3>1, <3>4, <4>1, SameIs
      <4>3. QED BY <1>4, <3>2, <4>1, <4>2
    <3>5. QED BY <3>3, <3>4
  <2>3. CASE \E r : Launches(r, ev) /\ y = Begun(r, ev) /\ y.rule = r /\ y.events = <<ev>>
    <3>1. y.events[1].nr = Len(seen) + 1 /\ Len(seen) \in Nat
      BY <2>3 DEF SeenGrows
    <3>2. QED BY <1>5, <1>6, <3>1 DEF Same
  <2>4. QED BY <2>1, <2>2, <2>3
<1>8. \A y \in Entries(ToFire(old)), z \in Entries(fired) : ~Same(y, z)
  BY <1>3, <1>5, SameIs
<1>9. QED BY <1>7, <1>8

\* A step of _process_event.
LEMMA EventProcessed ==
    ASSUME EngineInv, ProcessEvent
    PROVE  LET ev  == Head(inbox)
               k   == ev.dev
               old == partials[k]
               adv == AdvancedBy(old, ev)
           IN  /\ SeenGrows(seen, seen', ev, clock) /\ k \in Keys /\ ev.type \in EventTypes
               /\ fired' \in Seq(Firing) /\ Distinct(fired')
               /\ Entries(fired') =
                     Entries(fired)
                     \cup {Match(x) : x \in Entries(ToFire(old))}
                     \cup {Match(x) : x \in {y \in Entries(adv) : Complete(y)}}
               /\ inbox' \in Seq(BusEvent) /\ Queued(inbox', Len(seen'), published)
               /\ DOMAIN partials' = Keys /\ partials' = [j \in Keys |-> partials'[j]]
               /\ \A j \in Keys : j # k => partials'[j] = partials[j]
               /\ partials'[k] \in Seq(Underway) /\ OldestFirst(partials'[k])
               /\ Len(partials'[k]) <= Cap
               /\ \A x \in Entries(partials'[k]) : x \in Entries(adv) /\ ~Complete(x)
               /\ ~evicted' => \A x \in Entries(adv) : ~Complete(x) => x \in Entries(partials'[k])
               /\ evicted' \in BOOLEAN /\ (~evicted' => ~evicted)
               /\ clock' = clock /\ sweep' = sweep /\ published' = published
               /\ waitingSince' = clock
<1> DEFINE ev == Head(inbox)
           k == ev.dev
           old == partials[k]
           adv == AdvancedBy(old, ev)
           list == ToFire(old) \o Closed(adv)
           rest == Tail(inbox)
<1>1. /\ ev \in BusEvent /\ ev.nr = Len(seen) + 1 /\ k \in Keys /\ ev.type \in EventTypes
      /\ rest \in Seq(BusEvent) /\ Queued(rest, Len(seen) + 1, published)
  BY HeadIsNext DEF ProcessEvent
<1>2. /\ partials' = [partials EXCEPT ![k] = Newest(Open(adv))]
      /\ evicted' = (evicted \/ Len(Open(adv)) > Cap)
      /\ seen' = Append(seen, [event |-> ev, done |-> clock])
      /\ Emit(list, rest) /\ clock' = clock /\ sweep' = sweep /\ published' = published
      /\ waitingSince' = clock
  BY DEF ProcessEvent, AdvancedBy
<1>3. clock \in 0 .. MaxClock /\ seen \in Processed /\ fired \in Seq(Firing)
      /\ evicted \in BOOLEAN /\ partials \in [Keys -> Seq(Partial)]
  BY DEF EngineInv, RuleTypeOK, Processed, Firing
<1>4. SeenGrows(seen, seen', ev, clock)
  BY <1>1, <1>2, <1>3, OneMore DEF SeenGrows
<1>5. Kept(seen, k, old)
  BY <1>1 DEF EngineInv
<1>6. /\ adv \in Seq(Underway) /\ OldestFirst(adv)
  <2>1. Len(seen) \in Nat
    BY <1>3 DEF Processed
  <2>2. QED BY <1>1, <1>3, <1>5, <2>1, AdvancedAre
<1> HIDE DEF adv
<1>7. /\ Closed(adv) \in Seq(Underway) /\ OldestFirst(Closed(adv))
      /\ Entries(Closed(adv)) = {x \in Entries(adv) : Complete(x)}
  BY <1>6, ClosedIs
<1>8. /\ Open(adv) \in Seq(Underway) /\ OldestFirst(Open(adv))
      /\ Entries(Open(adv)) = {x \in Entries(adv) : ~Complete(x)}
  BY <1>6, OpenIs
<1>9. /\ ToFire(old) \in Seq(Underway) /\ OldestFirst(ToFire(old))
      /\ \A y \in Entries(ToFire(old)) : y.events[1].dev = k
  BY <1>5, FiringSound
<1>10. /\ \A y \in Entries(adv) : /\ \A z \in Entries(fired) : ~Same(y, z)
                                  /\ \A z \in Entries(ToFire(old)) : ~Same(y, z)
       /\ \A y \in Entries(ToFire(old)), z \in Entries(fired) : ~Same(y, z)
  BY <1>1, <1>4, NewIsNew DEF adv
<1>11. \A y \in Entries(adv) : Complete(y) => y.events[1].dev = k
  BY <1>4, <1>5, AdvancedSound DEF adv
<1>12. /\ Distinct(list) /\ Entries(list) = Entries(ToFire(old)) \cup Entries(Closed(adv))
       /\ list \in Seq(Underway)
  <2>1. Distinct(ToFire(old)) /\ Distinct(Closed(adv))
    BY <1>7, <1>9, OldestFirstAreDistinct
  <2>2. \A x \in Entries(ToFire(old)), y \in Entries(Closed(adv)) : ~Same(x, y)
    BY <1>7, <1>10, SameIs
  <2>3. QED BY <1>7, <1>9, <2>1, <2>2, JoinedAreDistinct
<1> HIDE DEF list
<1>13. Distinct(fired)
  BY DEF EngineInv
<1>14. \A x \in Entries(list) : /\ x.events[1].dev \in Keys
                                /\ \A y \in Entries(fired) : ~Same(x, y)
  BY <1>1, <1>7, <1>9, <1>10, <1>11, <1>12
<1> HIDE DEF rest, ev, k, old
<1>15. /\ fired' \in Seq(Firing) /\ Distinct(fired')
       /\ Entries(fired') = Entries(fired) \cup {Match(x) : x \in Entries(list)}
       /\ inbox' \in Seq(BusEvent) /\ Len(inbox') >= Len(rest)
       /\ \A i \in 1 .. Len(rest) : inbox'[i] = rest[i]
       /\ \A i \in Len(rest) + 1 .. Len(inbox') : inbox'[i].type = Meta
  BY <1>1, <1>2, <1>3, <1>12, <1>13, <1>14, EmittedIs
<1>16. Entries(fired') = Entries(fired)
                         \cup {Match(x) : x \in Entries(ToFire(old))}
                         \cup {Match(x) : x \in {y \in Entries(adv) : Complete(y)}}
  BY <1>7, <1>12, <1>15
<1>17. Queued(inbox', Len(seen'), published)
  <2>1. Len(seen') = Len(seen) + 1 /\ Len(seen) \in Nat
    BY <1>4 DEF SeenGrows
  <2>2. published \in Nat
    BY RuleAssumption DEF EngineInv, RuleTypeOK
  <2>3. QED BY <1>1, <1>15, <2>1, <2>2, MetaWaitsToo
<1> DEFINE new == Newest(Open(adv))
<1>18. /\ new \in Seq(Underway) /\ Len(new) <= Cap /\ OldestFirst(new)
       /\ Entries(new) \in SUBSET Entries(Open(adv))
       /\ Len(Open(adv)) <= Cap => new = Open(adv)
  BY <1>8, NewestIs
<1> HIDE DEF new
<1>19. /\ DOMAIN partials' = Keys /\ partials' = [j \in Keys |-> partials'[j]]
       /\ partials'[k] = new /\ \A j \in Keys : j # k => partials'[j] = partials[j]
  BY <1>1, <1>2, <1>3 DEF new, k, ev
<1>20. evicted' \in BOOLEAN /\ (~evicted' => ~evicted)
  BY <1>2, <1>3
<1>21. ~evicted' => new = Open(adv)
  <2>1. Len(Open(adv)) \in Nat /\ Cap \in Nat
    BY <1>8, RuleAssumption
  <2>2. ~evicted' => ~(Len(Open(adv)) > Cap)
    BY <1>2, Zenon
  <2>3. QED BY <1>18, <2>1, <2>2
<1>22. QED BY <1>1, <1>2, <1>4, <1>8, <1>15, <1>16, <1>17, <1>18, <1>19, <1>20, <1>21
          DEF ev, k, old, adv

\* What two devices are waiting for is never the same.
LEMMA ApartByDevice ==
    ASSUME NEW s, NEW j, NEW k, j # k, NEW x, NEW y, Told(s, j, x), Told(s, k, y),
           1 \in 1 .. Len(x.events), 1 \in 1 .. Len(y.events)
    PROVE  ~Same(x, y)
BY DEF Told, Same

LEMMA ProcessKeepsInv == EngineInv /\ ProcessEvent => EngineInv'
<1> SUFFICES ASSUME EngineInv, ProcessEvent  PROVE EngineInv'
  OBVIOUS
<1> DEFINE ev == Head(inbox)
           k == ev.dev
           old == partials[k]
           adv == AdvancedBy(old, ev)
<1>1. /\ SeenGrows(seen, seen', ev, clock) /\ k \in Keys /\ ev.type \in EventTypes
      /\ fired' \in Seq(Firing) /\ Distinct(fired')
      /\ Entries(fired') = Entries(fired)
                           \cup {Match(x) : x \in Entries(ToFire(old))}
                           \cup {Match(x) : x \in {y \in Entries(adv) : Complete(y)}}
      /\ inbox' \in Seq(BusEvent) /\ Queued(inbox', Len(seen'), published)
      /\ DOMAIN partials' = Keys /\ partials' = [j \in Keys |-> partials'[j]]
      /\ \A j \in Keys : j # k => partials'[j] = partials[j]
      /\ partials'[k] \in Seq(Underway) /\ OldestFirst(partials'[k])
      /\ Len(partials'[k]) <= Cap
      /\ \A x \in Entries(partials'[k]) : x \in Entries(adv) /\ ~Complete(x)
      /\ evicted' \in BOOLEAN
      /\ clock' = clock /\ sweep' = sweep /\ published' = published /\ waitingSince' = clock
  BY EventProcessed
<1>2. /\ Kept(seen, k, old)
      /\ \A j \in Keys : Kept(seen, j, partials[j]) /\ Len(partials[j]) <= Cap
      /\ \A y \in Entries(fired) : Ended(seen, y)
      /\ \A j \in Keys : \A x \in Entries(partials[j]), y \in Entries(fired) : ~Same(x, y)
      /\ Numbered(seen) /\ InTime(seen, clock) /\ fired \in Seq(Firing)
      /\ clock \in 0 .. MaxClock /\ sweep \subseteq Keys /\ published \in 0 .. MaxPublished
  BY <1>1 DEF EngineInv, RuleTypeOK, Firing
<1>3. \A y \in Entries(adv) :
         /\ y \in Underway /\ Sound(seen', k, y)
         /\ Complete(y) => Ended(seen', Match(y)) /\ y.events[1].dev = k
  BY <1>1, <1>2, AdvancedSound
<1>4. /\ \A y \in Entries(adv) : /\ \A z \in Entries(fired) : ~Same(y, z)
                                 /\ \A z \in Entries(ToFire(old)) : ~Same(y, z)
      /\ \A y \in Entries(ToFire(old)), z \in Entries(fired) : ~Same(y, z)
  BY <1>1, NewIsNew
<1>5. \A y \in Entries(ToFire(old)) : /\ y \in Underway /\ Sound(seen, k, y)
                                      /\ Ended(seen, Match(y)) /\ Match(y) \in Firing
  <2> TAKE y \in Entries(ToFire(old))
  <2>1. y \in Underway /\ Sound(seen, k, y) /\ Ended(seen, Match(y))
    BY <1>2, FiringSound
  <2>2. Match(y) \in Firing
    BY <1>2, <2>1, FirstIsAnEvent DEF Match, Firing
  <2>3. QED BY <2>1, <2>2
<1>6. \A x, y \in Entries(adv) : Same(x, y) => x = y
  <2>1. ev \in BusEvent /\ ev.nr = Len(seen) + 1 /\ Len(seen) \in Nat
    BY <1>1 DEF SeenGrows
  <2>2. adv \in Seq(Underway) /\ OldestFirst(adv)
    BY <1>2, <2>1, AdvancedAre
  <2>3. QED BY <2>2, OldestFirstAreDistinct
<1> HIDE DEF adv, old, k, ev
<1>7. RuleTypeOK'
  <2>1. \A j \in Keys : partials'[j] \in Seq(Partial)
    <3>1. partials'[k] \in Seq(Partial)
      BY <1>1 DEF Underway
    <3>2. \A j \in Keys : partials[j] \in Seq(Partial)
      BY DEF EngineInv, RuleTypeOK
    <3>3. QED BY <1>1, <3>1, <3>2
  <2>2. partials' \in [Keys -> Seq(Partial)]
    BY <1>1, <2>1
  <2>3. seen' \in Seq([event : BusEvent, done : 0 .. MaxClock])
    BY <1>1 DEF SeenGrows, Processed
  <2>4. clock' \in 0 .. MaxClock /\ waitingSince' \in 0 .. MaxClock /\ sweep' \subseteq Keys
        /\ published' \in 0 .. MaxPublished
    BY <1>1, <1>2
  <2>5. fired' \in Seq([rule : DOMAIN Rules, events : Seq(BusEvent),
                        start : 0 .. MaxClock, at : 0 .. MaxClock])
    BY <1>1 DEF Firing
  <2>6. QED BY <1>1, <2>2, <2>3, <2>4, <2>5 DEF RuleTypeOK
<1>8. Numbered(seen') /\ InTime(seen', clock)
  <2>1. /\ Len(seen') = Len(seen) + 1 /\ Len(seen) \in Nat
        /\ \A n \in 1 .. Len(seen) : seen'[n] = seen[n]
        /\ seen'[Len(seen) + 1].event = ev /\ seen'[Len(seen) + 1].done = clock
        /\ ev.nr = Len(seen) + 1
    BY <1>1 DEF SeenGrows
  <2>2. \A n \in 1 .. Len(seen') : n \in 1 .. Len(seen) \/ n = Len(seen) + 1
    BY <2>1
  <2>3. Numbered(seen')
    BY <1>1, <1>2, <2>1, <2>2 DEF Numbered
  <2>4. clock \in Int
    BY <1>2
  <2>5. \A n \in 1 .. Len(seen) : seen[n].done <= clock
    BY <1>2 DEF InTime
  <2>6. ASSUME NEW n \in 1 .. Len(seen')
        PROVE  seen'[n].done <= clock /\ \A m \in 1 .. n : seen'[m].done <= seen'[n].done
    <3>1. CASE n \in 1 .. Len(seen)
      <4>1. seen'[n] = seen[n] /\ \A m \in 1 .. n : m \in 1 .. Len(seen) /\ seen'[m] = seen[m]
        BY <2>1, <3>1
      <4>2. QED BY <1>2, <3>1, <4>1 DEF InTime
    <3>2. CASE n = Len(seen) + 1
      <4>1. \A m \in 1 .. n : m \in 1 .. Len(seen) \/ m = n
        BY <2>1, <3>2
      <4>2. seen'[n].done = clock
        BY <2>1, <3>2
      <4>3. QED BY <2>1, <2>4, <2>5, <4>1, <4>2
    <3>3. QED BY <2>2, <3>1, <3>2
  <2>7. QED BY <2>3, <2>6 DEF InTime
<1>9. ASSUME NEW j \in Keys  PROVE Kept(seen', j, partials'[j]) /\ Len(partials'[j]) <= Cap
  <2>1. CASE j = k
    BY <1>1, <1>3, <2>1 DEF Kept
  <2>2. CASE j # k
    <3>1. partials'[j] = partials[j] /\ Kept(seen, j, partials[j])
      BY <1>1, <1>2, <2>2
    <3>2. \A x \in Entries(partials[j]) : x \in Underway
      BY <3>1 DEF Kept, Entries
    <3>3. \A x \in Entries(partials[j]) : Sound(seen', j, x)
      BY <1>1, <2>2, <3>1, <3>2, OthersStaySound DEF k, Kept
    <3>4. QED BY <1>2, <3>1, <3>3 DEF Kept
  <2>3. QED BY <2>1, <2>2
<1>10. ASSUME NEW y \in Entries(fired')  PROVE Ended(seen', y)
  <2>1. CASE y \in Entries(fired)
    <3>1. y \in Firing
      BY <1>2, <2>1 DEF Entries
    <3>2. QED BY <1>1, <1>2, <2>1, <3>1, EndedStays
  <2>2. CASE \E x \in Entries(ToFire(old)) : y = Match(x)
    BY <1>1, <1>5, <2>2, EndedStays
  <2>3. CASE \E x \in Entries(adv) : Complete(x) /\ y = Match(x)
    BY <1>3, <2>3
  <2>4. QED BY <1>1, <2>1, <2>2, <2>3
<1>11. ASSUME NEW j \in Keys, NEW x \in Entries(partials'[j]), NEW y \in Entries(fired')
       PROVE  ~Same(x, y)
  <2>1. CASE j = k
    <3>1. x \in Entries(adv) /\ ~Complete(x)
      BY <1>1, <2>1
    <3>2. CASE y \in Entries(fired)
      BY <1>4, <3>1, <3>2
    <3>3. CASE \E z \in Entries(ToFire(old)) : y = Match(z)
      BY <1>4, <3>1, <3>3, SameIs
    <3>4. CASE \E z \in Entries(adv) : Complete(z) /\ y = Match(z)
      BY <1>6, <3>1, <3>4, SameIs
    <3>5. QED BY <1>1, <3>2, <3>3, <3>4
  <2>2. CASE j # k
    <3>1. x \in Entries(partials[j]) /\ Kept(seen, j, partials[j])
      BY <1>1, <1>2, <2>2
    <3>2. x \in Underway /\ Told(seen, j, x)
      BY <3>1 DEF Kept, Entries, Sound
    <3>3. 1 \in 1 .. Len(x.events) /\ Len(x.events) \in Nat /\ Len(x.events) >= 1
      BY <3>2, FirstIsAnEvent
    <3>4. Told(seen', j, x)
      BY <1>1, <3>2, <3>3, ToldStays
    <3>5. CASE y \in Entries(fired)
      BY <1>2, <3>1, <3>5
    <3>6. CASE \E z \in Entries(ToFire(old)) : y = Match(z)
      <4>1. PICK z \in Entries(ToFire(old)) : y = Match(z)
        BY <3>6
      <4>2. Told(seen, k, z) /\ 1 \in 1 .. Len(z.events)
        BY <1>5, FirstIsAnEvent DEF Sound
      <4>3. ~Same(z, x)
        BY <2>2, <3>2, <3>3, <4>2, ApartByDevice
      <4>4. QED BY <4>1, <4>3, SameIs
    <3>7. CASE \E z \in Entries(adv) : Complete(z) /\ y = Match(z)
      <4>1. PICK z \in Entries(adv) : y = Match(z)
        BY <3>7
      <4>2. Told(seen', k, z) /\ 1 \in 1 .. Len(z.events)
        BY <1>3, FirstIsAnEvent DEF Sound
      <4>3. ~Same(z, x)
        BY <2>2, <3>3, <3>4, <4>2, ApartByDevice
      <4>4. QED BY <4>1, <4>3, SameIs
    <3>8. QED BY <1>1, <3>5, <3>6, <3>7
  <2>3. QED BY <2>1, <2>2
<1>12. QED BY <1>1, <1>7, <1>8, <1>9, <1>10, <1>11 DEF EngineInv

\* The expiry of one key.
LEMMA KeyExpired ==
    ASSUME EngineInv, NEW k \in Keys, ExpireKey(k)
    PROVE  /\ fired' \in Seq(Firing) /\ Distinct(fired')
           /\ Entries(fired') = Entries(fired) \cup {Match(x) : x \in Entries(ToFire(partials[k]))}
           /\ inbox' \in Seq(BusEvent) /\ Queued(inbox', Len(seen), published)
           /\ DOMAIN partials' = Keys /\ partials' = [j \in Keys |-> partials'[j]]
           /\ \A j \in Keys : j # k => partials'[j] = partials[j]
           /\ partials'[k] \in Seq(Underway) /\ OldestFirst(partials'[k])
           /\ Len(partials'[k]) <= Cap
           /\ Entries(partials'[k]) =
                 {Aged(x) : x \in {z \in Entries(partials[k]) : ~Stale(z) /\ ~Complete(Aged(z))}}
           /\ \A y \in Entries(partials'[k]) : /\ Sound(seen, k, y) /\ ~Complete(y)
                                               /\ \E x \in Entries(partials[k]) : Same(x, y)
           /\ \A y \in Entries(partials'[k]), z \in Entries(ToFire(partials[k])) : ~Same(y, z)
           /\ clock' = clock /\ seen' = seen /\ published' = published /\ evicted' = evicted
           /\ waitingSince' = waitingSince /\ sweep' \subseteq Keys
<1> DEFINE old == partials[k]
           list == ToFire(old)
<1>1. /\ partials' = [partials EXCEPT ![k] = Active(old)] /\ Emit(list, inbox)
      /\ clock' = clock /\ seen' = seen /\ published' = published /\ evicted' = evicted
      /\ waitingSince' = waitingSince /\ sweep' = sweep \ {k}
  BY DEF ExpireKey
<1>2. /\ clock \in 0 .. MaxClock /\ fired \in Seq(Firing) /\ inbox \in Seq(BusEvent)
      /\ partials \in [Keys -> Seq(Partial)] /\ sweep \subseteq Keys
  BY DEF EngineInv, RuleTypeOK, Firing
<1>3. /\ Kept(seen, k, old) /\ Len(old) <= Cap /\ Distinct(fired)
      /\ \A x \in Entries(old), y \in Entries(fired) : ~Same(x, y)
      /\ old \in Seq(Underway) /\ OldestFirst(old)
  BY DEF EngineInv, Kept
<1>4. /\ list \in Seq(Underway) /\ OldestFirst(list)
      /\ \A y \in Entries(list) : /\ Complete(y) /\ y.events[1].dev = k
                                  /\ \E x \in Entries(old) : y = Aged(x) /\ Same(x, y)
  BY <1>3, FiringSound
<1>5. /\ Expired(old) \in Seq(Underway) /\ OldestFirst(Expired(old))
      /\ Len(Expired(old)) <= Len(old)
      /\ \A y \in Entries(Expired(old)) :
            /\ Sound(seen, k, y)
            /\ \E x \in Entries(old) : ~Stale(x) /\ y = Aged(x) /\ Same(x, y)
      /\ \A x \in Entries(old) : ~Stale(x) => Aged(x) \in Entries(Expired(old))
  BY <1>3, ExpirySound
<1>6. /\ Active(old) \in Seq(Underway) /\ OldestFirst(Active(old))
      /\ Len(Active(old)) <= Len(Expired(old))
      /\ Entries(Active(old)) = {x \in Entries(Expired(old)) : ~Complete(x)}
  BY <1>5, OpenIs DEF Active
<1>7. Len(Active(old)) <= Cap
  <2>1. /\ Len(Active(old)) \in Nat /\ Len(Expired(old)) \in Nat /\ Len(old) \in Nat
        /\ Cap \in Nat
    BY <1>3, <1>5, <1>6, RuleAssumption
  <2>2. QED BY <1>3, <1>5, <1>6, <2>1
<1>8. Entries(Active(old)) =
         {Aged(x) : x \in {z \in Entries(old) : ~Stale(z) /\ ~Complete(Aged(z))}}
  BY <1>5, <1>6
<1>9. \A x, y \in Entries(old) : Same(x, y) => x = y
  BY <1>3, OldestFirstAreDistinct
<1>10. ASSUME NEW y \in Entries(Active(old)), NEW z \in Entries(list), Same(y, z)  PROVE FALSE
  <2>1. PICK x \in Entries(old) : y = Aged(x) /\ Same(x, y) /\ ~Complete(Aged(x))
    BY <1>5, <1>6
  <2>2. PICK w \in Entries(old) : z = Aged(w) /\ Same(w, z) /\ Complete(z)
    BY <1>4
  <2>3. Same(x, w)
    BY <1>10, <2>1, <2>2, SameIs
  <2>4. QED BY <1>9, <2>1, <2>2, <2>3
<1>11. /\ Distinct(list)
       /\ \A x \in Entries(list) : /\ x.events[1].dev \in Keys
                                   /\ \A y \in Entries(fired) : ~Same(x, y)
  BY <1>3, <1>4, OldestFirstAreDistinct, SameIs
<1> HIDE DEF list, old
<1>12. /\ fired' \in Seq(Firing) /\ Distinct(fired')
       /\ Entries(fired') = Entries(fired) \cup {Match(x) : x \in Entries(list)}
       /\ inbox' \in Seq(BusEvent) /\ Len(inbox') >= Len(inbox)
       /\ \A i \in 1 .. Len(inbox) : inbox'[i] = inbox[i]
       /\ \A i \in Len(inbox) + 1 .. Len(inbox') : inbox'[i].type = Meta
  BY <1>1, <1>2, <1>3, <1>4, <1>11, EmittedIs
<1>13. Queued(inbox', Len(seen), published)
  <2>1. published \in Nat /\ Len(seen) \in Nat /\ Queued(inbox, Len(seen), published)
    BY RuleAssumption DEF EngineInv, RuleTypeOK
  <2>2. QED BY <1>2, <1>12, <2>1, MetaWaitsToo
<1>14. /\ DOMAIN partials' = Keys /\ partials' = [j \in Keys |-> partials'[j]]
       /\ partials'[k] = Active(old) /\ \A j \in Keys : j # k => partials'[j] = partials[j]
  BY <1>1, <1>2
<1>15. \A y \in Entries(Active(old)) : /\ Sound(seen, k, y) /\ ~Complete(y)
                                       /\ \E x \in Entries(old) : Same(x, y)
  BY <1>5, <1>6
<1>16. QED BY <1>1, <1>2, <1>6, <1>7, <1>8, <1>10, <1>12, <1>13, <1>14, <1>15
          DEF old, list

LEMMA ExpiryKeepsInv == \A k \in Keys : EngineInv /\ ExpireKey(k) => EngineInv'
<1> SUFFICES ASSUME NEW k \in Keys, EngineInv, ExpireKey(k)  PROVE EngineInv'
  OBVIOUS
<1> DEFINE old == partials[k]
<1>1. /\ fired' \in Seq(Firing) /\ Distinct(fired')
      /\ Entries(fired') = Entries(fired) \cup {Match(x) : x \in Entries(ToFire(old))}
      /\ inbox' \in Seq(BusEvent) /\ Queued(inbox', Len(seen), published)
      /\ DOMAIN partials' = Keys /\ partials' = [j \in Keys |-> partials'[j]]
      /\ \A j \in Keys : j # k => partials'[j] = partials[j]
      /\ partials'[k] \in Seq(Underway) /\ OldestFirst(partials'[k])
      /\ Len(partials'[k]) <= Cap
      /\ \A y \in Entries(partials'[k]) : /\ Sound(seen, k, y) /\ ~Complete(y)
                                          /\ \E x \in Entries(old) : Same(x, y)
      /\ \A y \in Entries(partials'[k]), z \in Entries(ToFire(old)) : ~Same(y, z)
      /\ clock' = clock /\ seen' = seen /\ published' = published /\ evicted' = evicted
      /\ waitingSince' = waitingSince /\ sweep' \subseteq Keys
  BY KeyExpired
<1>2. /\ \A j \in Keys : Kept(seen, j, partials[j]) /\ Len(partials[j]) <= Cap
      /\ \A y \in Entries(fired) : Ended(seen, y)
      /\ \A j \in Keys : \A x \in Entries(partials[j]), y \in Entries(fired) : ~Same(x, y)
      /\ Numbered(seen) /\ InTime(seen, clock) /\ RuleTypeOK
  BY DEF EngineInv
<1>3. Kept(seen, k, old)
  BY <1>2
<1>4. \A y \in Entries(ToFire(old)) : y \in Underway /\ Sound(seen, k, y) /\ Ended(seen, Match(y))
  BY <1>3, FiringSound
<1> HIDE DEF old
<1>5. RuleTypeOK'
  <2>1. \A j \in Keys : partials'[j] \in Seq(Partial)
    <3>1. partials'[k] \in Seq(Partial)
      BY <1>1 DEF Underway
    <3>2. \A j \in Keys : partials[j] \in Seq(Partial)
      BY <1>2 DEF RuleTypeOK
    <3>3. QED BY <1>1, <3>1, <3>2
  <2>2. partials' \in [Keys -> Seq(Partial)]
    BY <1>1, <2>1
  <2>3. fired' \in Seq([rule : DOMAIN Rules, events : Seq(BusEvent),
                        start : 0 .. MaxClock, at : 0 .. MaxClock])
    BY <1>1 DEF Firing
  <2>4. QED BY <1>1, <1>2, <2>2, <2>3 DEF RuleTypeOK
<1>6. \A j \in Keys : Kept(seen, j, partials'[j]) /\ Len(partials'[j]) <= Cap
  <2> TAKE j \in Keys
  <2>1. CASE j = k
    BY <1>1, <2>1 DEF Kept
  <2>2. CASE j # k
    BY <1>1, <1>2, <2>2
  <2>3. QED BY <2>1, <2>2
<1>7. \A y \in Entries(fired') : Ended(seen, y)
  BY <1>1, <1>2, <1>4
<1>8. ASSUME NEW j \in Keys, NEW x \in Entries(partials'[j]), NEW y \in Entries(fired')
      PROVE  ~Same(x, y)
  <2>1. CASE j = k
    <3>1. CASE y \in Entries(fired)
      <4>1. PICK z \in Entries(old) : Same(z, x)
        BY <1>1, <2>1
      <4>2. ~Same(z, y)
        BY <1>2, <3>1, <4>1 DEF old
      <4>3. QED BY <4>1, <4>2, SameIs
    <3>2. CASE \E z \in Entries(ToFire(old)) : y = Match(z)
      BY <1>1, <2>1, <3>2, SameIs
    <3>3. QED BY <1>1, <3>1, <3>2
  <2>2. CASE j # k
    <3>1. x \in Entries(partials[j]) /\ Kept(seen, j, partials[j])
      BY <1>1, <1>2, <2>2
    <3>2. Told(seen, j, x) /\ 1 \in 1 .. Len(x.events)
      BY <3>1, FirstIsAnEvent DEF Kept, Entries, Sound
    <3>3. CASE y \in Entries(fired)
      BY <1>2, <3>1, <3>3
    <3>4. CASE \E z \in Entries(ToFire(old)) : y = Match(z)
      <4>1. PICK z \in Entries(ToFire(old)) : y = Match(z)
        BY <3>4
      <4>2. Told(seen, k, z) /\ 1 \in 1 .. Len(z.events)
        BY <1>4, FirstIsAnEvent DEF Sound
      <4>3. ~Same(z, x)
        BY <2>2, <3>2, <4>2, ApartByDevice
      <4>4. QED BY <4>1, <4>3, SameIs
    <3>5. QED BY <1>1, <3>3, <3>4
  <2>3. QED BY <2>1, <2>2
<1>9. QED BY <1>1, <1>2, <1>5, <1>6, <1>7, <1>8 DEF EngineInv

\* A publisher's event is the last in the queue.
LEMMA PublishKeepsInv ==
    \A type \in EventTypes, dev \in Keys : EngineInv /\ Publish(type, dev) => EngineInv'
<1> SUFFICES ASSUME NEW type \in EventTypes, NEW dev \in Keys, EngineInv, Publish(type, dev)
             PROVE  EngineInv'
  OBVIOUS
<1> DEFINE new == [type |-> type, dev |-> dev, at |-> clock, nr |-> published + 1]
           d == Len(seen)
<1>1. /\ published < MaxPublished /\ published' = published + 1
      /\ inbox' = Append(inbox, new)
      /\ UNCHANGED <<clock, waitingSince, partials, sweep, fired, seen, evicted>>
  BY DEF Publish
<1>2. RuleTypeOK /\ Queued(inbox, d, published) /\ d \in Nat /\ published \in Nat
  BY RuleAssumption DEF EngineInv, RuleTypeOK
<1>3. inbox \in Seq(BusEvent) /\ Len(inbox) \in Nat /\ \A e \in BusEvent : e.nr \in Int
  BY <1>2, RuleAssumption DEF RuleTypeOK, BusEvent
<1>4. published + 1 \in 0 .. MaxPublished
  BY <1>1, <1>2, RuleAssumption
<1>5. new \in BusEvent /\ new.nr = published + 1 /\ new.type # Meta
  BY <1>2, <1>4, RuleAssumption DEF RuleTypeOK, BusEvent
<1> HIDE DEF new, d
<1>6. /\ inbox' \in Seq(BusEvent) /\ Len(inbox') = Len(inbox) + 1
      /\ inbox'[Len(inbox) + 1] = new
      /\ \A i \in 1 .. Len(inbox) : inbox'[i] = inbox[i]
  BY <1>1, <1>3, <1>5
<1>7. \A i \in 1 .. Len(inbox') : i \in 1 .. Len(inbox) \/ i = Len(inbox) + 1
  BY <1>3, <1>6
<1>8. \A i \in 1 .. Len(inbox) : inbox[i].type # Meta => inbox[i].nr \in d + 1 .. published
  BY <1>2 DEF Queued
<1>9. Queued(inbox', d, published')
  <2>1. \A i \in 1 .. Len(inbox') :
           inbox'[i].type # Meta => inbox'[i].nr \in d + 1 .. published + 1
    <3> TAKE i \in 1 .. Len(inbox')
    <3>1. d <= published
      BY <1>2 DEF Queued
    <3>2. CASE i \in 1 .. Len(inbox)
      <4>1. inbox'[i] = inbox[i]
        BY <1>6, <3>2
      <4>2. QED BY <1>2, <1>8, <3>2, <4>1
    <3>3. CASE i = Len(inbox) + 1
      BY <1>2, <1>5, <1>6, <3>1, <3>3
    <3>4. QED BY <1>7, <3>2, <3>3
  <2>2. ASSUME NEW i \in 1 .. Len(inbox'), NEW j \in 1 .. Len(inbox'), i < j,
               inbox'[i].type # Meta, inbox'[j].type # Meta
        PROVE  inbox'[i].nr < inbox'[j].nr
    <3>1. i \in 1 .. Len(inbox) /\ inbox'[i] = inbox[i]
      BY <1>3, <1>6, <1>7, <2>2
    <3>2. CASE j \in 1 .. Len(inbox)
      BY <1>2, <1>6, <2>2, <3>1, <3>2 DEF Queued
    <3>3. CASE j = Len(inbox) + 1
      <4>1. inbox'[j].nr = published + 1
        BY <1>5, <1>6, <3>3
      <4>2. inbox'[i].nr \in d + 1 .. published
        BY <1>8, <2>2, <3>1
      <4>3. QED BY <1>2, <4>1, <4>2
    <3>4. QED BY <1>7, <3>2, <3>3
  <2>3. ASSUME NEW n \in d + 1 .. published + 1
        PROVE  \E i \in 1 .. Len(inbox') : inbox'[i].type # Meta /\ inbox'[i].nr = n
    <3>1. CASE n = published + 1
      <4>1. Len(inbox) + 1 \in 1 .. Len(inbox')
        BY <1>3, <1>6
      <4>2. QED BY <1>5, <1>6, <3>1, <4>1
    <3>2. CASE n # published + 1
      <4>1. n \in d + 1 .. published
        BY <1>2, <3>2
      <4>2. PICK i \in 1 .. Len(inbox) : inbox[i].type # Meta /\ inbox[i].nr = n
        BY <1>2, <4>1 DEF Queued
      <4>3. i \in 1 .. Len(inbox') /\ inbox'[i] = inbox[i]
        BY <1>3, <1>6
      <4>4. QED BY <4>2, <4>3
    <3>3. QED BY <3>1, <3>2
  <2>4. d <= published + 1
    BY <1>2 DEF Queued
  <2>5. QED BY <1>1, <2>1, <2>2, <2>3, <2>4 DEF Queued
<1>10. RuleTypeOK'
  BY <1>1, <1>2, <1>4, <1>6 DEF RuleTypeOK
<1>11. QED BY <1>1, <1>9, <1>10 DEF EngineInv, d

LEMMA SkipKeepsInv == EngineInv /\ SkipMeta => EngineInv'
<1> SUFFICES ASSUME EngineInv, SkipMeta  PROVE EngineInv'
  OBVIOUS
<1> DEFINE q == inbox
           rest == Tail(inbox)
           d == Len(seen)
<1>1. /\ q # <<>> /\ Head(q).type = Meta /\ inbox' = rest /\ waitingSince' = clock
      /\ UNCHANGED <<clock, partials, sweep, fired, seen, published, evicted>>
  BY DEF SkipMeta
<1>2. RuleTypeOK /\ Queued(q, d, published) /\ q \in Seq(BusEvent)
  BY DEF EngineInv, RuleTypeOK
<1>3. /\ Len(q) \in Nat /\ Len(q) >= 1 /\ Head(q) = q[1]
      /\ Len(rest) = Len(q) - 1 /\ rest \in Seq(BusEvent)
      /\ \A i \in 1 .. Len(rest) : rest[i] = q[i + 1]
  BY <1>1, <1>2, HeadTailProperties
<1> HIDE DEF q, rest, d
<1>4. \A i \in 1 .. Len(rest) : i + 1 \in 1 .. Len(q) /\ rest[i] = q[i + 1]
  BY <1>3
<1>5. Queued(rest, d, published)
  <2>1. \A i \in 1 .. Len(rest) : rest[i].type # Meta => rest[i].nr \in d + 1 .. published
    BY <1>2, <1>4 DEF Queued
  <2>2. ASSUME NEW i \in 1 .. Len(rest), NEW j \in 1 .. Len(rest), i < j,
               rest[i].type # Meta, rest[j].type # Meta
        PROVE  rest[i].nr < rest[j].nr
    <3>1. i + 1 < j + 1
      BY <1>3, <2>2
    <3>2. /\ i + 1 \in 1 .. Len(q) /\ j + 1 \in 1 .. Len(q)
          /\ rest[i] = q[i + 1] /\ rest[j] = q[j + 1]
      BY <1>4
    <3>3. q[i + 1].nr < q[j + 1].nr
      BY <1>2, <2>2, <3>1, <3>2 DEF Queued
    <3>4. QED BY <3>2, <3>3
  <2>3. ASSUME NEW n \in d + 1 .. published
        PROVE  \E i \in 1 .. Len(rest) : rest[i].type # Meta /\ rest[i].nr = n
    <3>1. PICK i \in 1 .. Len(q) : q[i].type # Meta /\ q[i].nr = n
      BY <1>2 DEF Queued
    <3>2. i # 1
      BY <1>1, <1>3, <3>1
    <3>3. i - 1 \in 1 .. Len(rest) /\ i - 1 + 1 = i
      BY <1>3, <3>2
    <3>4. rest[i - 1] = q[i]
      BY <1>4, <3>3
    <3>5. QED BY <3>1, <3>3, <3>4
  <2>4. d <= published
    BY <1>2 DEF Queued
  <2>5. QED BY <2>1, <2>2, <2>3, <2>4 DEF Queued
<1>6. RuleTypeOK'
  BY <1>1, <1>2, <1>3 DEF RuleTypeOK
<1>7. QED BY <1>1, <1>5, <1>6 DEF EngineInv, d

LEMMA SeenAre ==
    ASSUME EngineInv, NEW n \in 1 .. Len(seen)
    PROVE  /\ seen[n].event \in BusEvent /\ seen[n].event.dev \in Keys
           /\ seen[n].done \in 0 .. MaxClock /\ seen[n].done \in Int
<1>1. seen \in Seq([event : BusEvent, done : 0 .. MaxClock])
  BY DEF EngineInv, RuleTypeOK
<1>2. \A X : seen \in Seq(X) => seen[n] \in X
  BY Z3
<1>3. \A p \in [event : BusEvent, done : 0 .. MaxClock] :
         /\ p.event \in BusEvent /\ p.event.dev \in Keys
         /\ p.done \in 0 .. MaxClock /\ p.done \in Int
  BY DEF BusEvent
<1>4. QED BY <1>1, <1>2, <1>3

LEMMA OthersKeepInv ==
    EngineInv /\ (IdleTimedOut \/ ClockTicks \/ UNCHANGED ruleVars) => EngineInv'
<1> SUFFICES ASSUME EngineInv, IdleTimedOut \/ ClockTicks \/ UNCHANGED ruleVars
             PROVE  EngineInv'
  OBVIOUS
<1>1. RuleTypeOK /\ InTime(seen, clock) /\ clock \in 0 .. MaxClock
  BY DEF EngineInv, RuleTypeOK
<1>2. CASE IdleTimedOut
  <2>1. RuleTypeOK'
    BY <1>1, <1>2 DEF IdleTimedOut, RuleTypeOK
  <2>2. UNCHANGED <<clock, inbox, partials, fired, seen, published, evicted>>
    BY <1>2 DEF IdleTimedOut
  <2>3. QED BY <2>1, <2>2 DEF EngineInv
<1>3. CASE ClockTicks
  <2>1. clock' = clock + 1 /\ clock < MaxClock
        /\ UNCHANGED <<inbox, waitingSince, partials, sweep, fired, seen, published, evicted>>
    BY <1>3 DEF ClockTicks
  <2>2. clock' \in 0 .. MaxClock
    BY <1>1, <2>1, RuleAssumption
  <2>3. RuleTypeOK'
    BY <1>1, <2>1, <2>2 DEF RuleTypeOK
  <2>4. \A n \in 1 .. Len(seen) : seen[n].done \in Int
    BY SeenAre
  <2>5. InTime(seen, clock')
    <3>1. clock \in Int /\ clock' = clock + 1
      BY <1>1, <2>1
    <3>2. \A n \in 1 .. Len(seen) : seen[n].done <= clock'
      BY <1>1, <2>4, <3>1 DEF InTime
    <3>3. QED BY <1>1, <3>2 DEF InTime
  <2>6. QED BY <2>1, <2>3, <2>5 DEF EngineInv
<1>4. CASE UNCHANGED ruleVars
  BY <1>1, <1>4 DEF ruleVars, EngineInv, RuleTypeOK
<1>5. QED BY <1>2, <1>3, <1>4

\* The engine's invariant is one.
LEMMA EngineKeepsInv == EngineInv /\ [RuleNext]_ruleVars => EngineInv'
BY PublishKeepsInv, ProcessKeepsInv, SkipKeepsInv, ExpiryKeepsInv, OthersKeepInv DEF RuleNext

LEMMA WellFormed == EngineInv => PartialsWellFormed
<1> SUFFICES ASSUME EngineInv  PROVE PartialsWellFormed
  OBVIOUS
<1>1. ASSUME NEW k \in Keys
      PROVE  /\ Len(partials[k]) <= Cap
             /\ \A i \in 1 .. Len(partials[k]) :
                   LET pm == partials[k][i]
                   IN  /\ pm.next \in 2 .. Len(TriggersOf(pm))
                       /\ pm.waiting = TriggersOf(pm)[pm.next].negate
                       /\ \A e \in 1 .. Len(pm.events) : pm.events[e].dev = k
             /\ \A i, j \in 1 .. Len(partials[k]) :
                   i < j => partials[k][i].events[1].nr <= partials[k][j].events[1].nr
  <2> DEFINE list == partials[k]
  <2>1. Kept(seen, k, list) /\ Len(list) <= Cap
    BY DEF EngineInv
  <2>2. list \in Seq(Underway) /\ OldestFirst(list) /\ DOMAIN list = 1 .. Len(list)
    BY <2>1 DEF Kept
  <2> HIDE DEF list
  <2>3. ASSUME NEW i \in 1 .. Len(list)
        PROVE  /\ list[i].next \in 2 .. Len(TriggersOf(list[i]))
               /\ list[i].waiting = TriggersOf(list[i])[list[i].next].negate
               /\ \A e \in 1 .. Len(list[i].events) : list[i].events[e].dev = k
    <3> DEFINE pm == list[i]
               T == TriggersOf(pm)
    <3>1. pm \in Underway /\ Sound(seen, k, pm) /\ ~Complete(pm)
      BY <2>1, <2>2 DEF Kept, Entries
    <3>2. pm.next \in Nat /\ pm.waiting \in BOOLEAN /\ Len(T) \in Nat
          /\ \A j \in 1 .. Len(T) : T[j].negate \in BOOLEAN
      BY <3>1, FirstIsAnEvent, TriggersAre
    <3>3. pm.next \in 2 .. Len(T)
      BY <3>1, <3>2 DEF Sound, Complete
    <3>4. pm.waiting = T[pm.next].negate
      <4>1. T[pm.next].negate \in BOOLEAN /\ pm.next <= Len(T)
        BY <3>2, <3>3
      <4>2. pm.waiting <=> pm.next <= Len(T) /\ T[pm.next].negate
        BY <3>1 DEF Sound
      <4>3. QED BY <3>2, <4>1, <4>2
    <3>5. QED BY <3>1, <3>3, <3>4 DEF Sound, Told
  <2>4. ASSUME NEW i \in 1 .. Len(list), NEW j \in 1 .. Len(list), i < j
        PROVE  list[i].events[1].nr <= list[j].events[1].nr
    <3>1. list[i] \in Underway /\ list[j] \in Underway /\ Older(list[i], list[j])
      BY <2>2, <2>4 DEF OldestFirst
    <3>2. list[i].events[1].nr \in Int /\ list[j].events[1].nr \in Int
      BY <3>1, FirstIsAnEvent
    <3>3. QED BY <3>1, <3>2 DEF Older
  <2>5. QED BY <2>1, <2>3, <2>4 DEF list
<1>2. QED BY <1>1 DEF EngineInv, PartialsWellFormed

LEMMA EngineAlways == RuleSpec => []EngineInv
BY EngineStarts, EngineKeepsInv, PTL DEF RuleSpec

\* Whatever is published, expires or is thrown away, each device's list of partials is as
\* _process_event leaves it for its next call: nothing in it is complete, a partial waits
\* for an event or for silence as its rule says, holds events of that device only, and the
\* oldest come first, so that the slice [-_MAX_PARTIALS_PER_KEY:] throws away the oldest.
THEOREM PartialsStayWellFormed == RuleSpec => []PartialsWellFormed
BY EngineAlways, WellFormed, PTL

-----------------------------------------------------------------------------
\* Rules without negations: every event that begins one is accounted for.

\* c[1], ..., c[n] are events for the first n triggers, each the first one after the last.
Follows(s, T, k, c, n) ==
    /\ \A j \in 1 .. n : c[j] \in 1 .. Len(s) /\ Fit(s, c[j], T[j], k)
    /\ \A j \in 1 .. n - 1 : /\ c[j] < c[j + 1]
                             /\ \A m \in c[j] + 1 .. c[j + 1] - 1 : ~Fit(s, m, T[j + 1], k)

LEMMA LeastExists ==
    ASSUME NEW n \in Nat, NEW D \in SUBSET (1 .. n), D # {}
    PROVE  \E a \in D : \A b \in D : a <= b
<1> DEFINE below == [x \in D |-> {y \in D : y < x}]
<1>1. IsFiniteSet(D)
  BY FS_Interval, FS_Subset, 1 \in Int, n \in Int
<1>2. /\ below \in [D -> SUBSET D] /\ \A x \in D : x \in Int
      /\ \A x, y \in D : x \in below[y] <=> x < y
  OBVIOUS
<1> HIDE DEF below
<1>3. /\ \A x \in D : x \notin below[x]
      /\ \A x, y, z \in D : x \in below[y] /\ y \in below[z] => x \in below[z]
      /\ \A x, y \in D : x # y => x \in below[y] \/ y \in below[x]
  BY <1>2
<1>4. PICK a \in D : \A b \in D \ {a} : a \in below[b]
  BY <1>1, <1>2, <1>3, EndsExist
<1>5. QED BY <1>2, <1>4

LEMMA FollowersAscend ==
    ASSUME NEW s, NEW T, NEW k, NEW c, NEW n \in Nat, Len(s) \in Nat, Follows(s, T, k, c, n),
           NEW i \in 1 .. n, NEW j \in i .. n
    PROVE  c[i] <= c[j]
<1>1. /\ \A a \in 1 .. n : c[a] \in Int
      /\ \A a \in 1 .. n - 1 : c[a] < c[a + 1]
  BY DEF Follows
<1> DEFINE D == {a \in i .. n : c[a] < c[i]}
<1>2. CASE D = {}
  <2>1. ~(c[j] < c[i]) /\ j \in 1 .. n
    BY <1>2
  <2>2. QED BY <1>1, <2>1
<1>3. CASE D # {}
  <2>1. D \in SUBSET (1 .. n)
    OBVIOUS
  <2>2. PICK a \in D : \A b \in D : a <= b
    BY <1>3, <2>1, LeastExists
  <2>3. a \in i .. n /\ c[a] < c[i] /\ a # i
    BY <1>1, <2>2
  <2>4. a - 1 \in i .. n /\ a - 1 \in 1 .. n - 1 /\ a - 1 + 1 = a /\ ~(a <= a - 1)
    BY <2>3
  <2>5. a - 1 \notin D
    BY <2>2, <2>4
  <2>6. ~(c[a - 1] < c[i])
    BY <2>4, <2>5
  <2>7. c[a - 1] < c[a]
    BY <1>1, <2>4
  <2>8. c[a - 1] \in Int /\ c[a] \in Int /\ c[i] \in Int
    BY <1>1, <2>3, <2>4
  <2>9. QED BY <2>3, <2>6, <2>7, <2>8
<1>4. QED BY <1>2, <1>3

LEMMA FollowersAgree ==
    ASSUME NEW s, NEW T, NEW k, NEW c, NEW d, NEW n \in Nat,
           Follows(s, T, k, c, n), Follows(s, T, k, d, n), c[1] = d[1]
    PROVE  \A j \in 1 .. n : c[j] = d[j]
<1>1. ASSUME NEW a \in 1 .. n, a - 1 \in 1 .. n - 1, c[a - 1] = d[a - 1]
      PROVE  c[a] = d[a]
  <2>1. a - 1 + 1 = a
    OBVIOUS
  <2>2. /\ c[a] \in Int /\ d[a] \in Int /\ c[a - 1] \in Int /\ a - 1 \in 1 .. n
        /\ c[a - 1] < c[a] /\ d[a - 1] < d[a] /\ Fit(s, c[a], T[a], k) /\ Fit(s, d[a], T[a], k)
        /\ \A m \in c[a - 1] + 1 .. c[a] - 1 : ~Fit(s, m, T[a], k)
        /\ \A m \in d[a - 1] + 1 .. d[a] - 1 : ~Fit(s, m, T[a], k)
    <3>1. a - 1 \in 1 .. n
      BY <1>1
    <3>2. /\ c[a] \in Int /\ d[a] \in Int /\ c[a - 1] \in Int
          /\ Fit(s, c[a], T[a], k) /\ Fit(s, d[a], T[a], k)
      BY <3>1 DEF Follows
    <3>3. /\ c[a - 1] < c[a - 1 + 1] /\ d[a - 1] < d[a - 1 + 1]
          /\ \A m \in c[a - 1] + 1 .. c[a - 1 + 1] - 1 : ~Fit(s, m, T[a - 1 + 1], k)
          /\ \A m \in d[a - 1] + 1 .. d[a - 1 + 1] - 1 : ~Fit(s, m, T[a - 1 + 1], k)
      BY <1>1 DEF Follows
    <3>4. QED BY <2>1, <3>1, <3>2, <3>3
  <2>3. ~(c[a] < d[a])
    <3>1. c[a] < d[a] => c[a] \in d[a - 1] + 1 .. d[a] - 1
      BY <1>1, <2>2
    <3>2. QED BY <2>2, <3>1
  <2>4. ~(d[a] < c[a])
    <3>1. d[a] < c[a] => d[a] \in c[a - 1] + 1 .. c[a] - 1
      BY <1>1, <2>2
    <3>2. QED BY <2>2, <3>1
  <2>5. QED BY <2>2, <2>3, <2>4
<1> DEFINE D == {a \in 1 .. n : c[a] # d[a]}
<1>2. CASE D = {}
  BY <1>2
<1>3. CASE D # {}
  <2>1. D \in SUBSET (1 .. n)
    OBVIOUS
  <2>2. PICK a \in D : \A b \in D : a <= b
    BY <1>3, <2>1, LeastExists
  <2>3. a \in 1 .. n /\ a # 1 /\ c[a] # d[a]
    BY <2>2
  <2>4. a - 1 \in 1 .. n - 1 /\ a - 1 \in 1 .. n /\ ~(a <= a - 1)
    BY <2>3
  <2>5. c[a - 1] = d[a - 1]
    BY <2>2, <2>4
  <2>6. QED BY <1>1, <2>3, <2>4, <2>5
<1>4. QED BY <1>2, <1>3

\* The events of a partial, or of a match, follow its triggers.
LEMMA EventsFollow ==
    ASSUME NEW s, NEW k, NEW x, NEW next \in Nat, Len(x.events) \in Nat,
           Told(s, k, x), Linked(s, k, x, next), Positive(TriggersOf(x))
    PROVE  Follows(s, TriggersOf(x), k, [j \in 1 .. next - 1 |-> x.events[j].nr], next - 1)
<1> DEFINE T == TriggersOf(x)
           c == [j \in 1 .. next - 1 |-> x.events[j].nr]
<1>1. /\ Len(x.events) = next - 1
      /\ \A j \in 1 .. next - 1 : x.events[j].type = T[j].type
      /\ \A j \in 1 .. next - 2 :
            /\ x.events[j].nr < x.events[j + 1].nr
            /\ \A m \in x.events[j].nr + 1 .. x.events[j + 1].nr - 1 : ~Fit(s, m, T[j + 1], k)
  BY DEF Linked
<1>2. \A j \in 1 .. next - 1 : c[j] = x.events[j].nr
  OBVIOUS
<1> HIDE DEF c, T
<1>3. \A j \in 1 .. next - 1 : c[j] \in 1 .. Len(s) /\ Fit(s, c[j], T[j], k)
  <2> TAKE j \in 1 .. next - 1
  <2>1. j \in 1 .. Len(x.events) /\ c[j] = x.events[j].nr /\ x.events[j].type = T[j].type
    BY <1>1, <1>2
  <2>2. /\ x.events[j].nr \in 1 .. Len(s) /\ s[x.events[j].nr].event = x.events[j]
        /\ x.events[j].dev = k
    BY <2>1 DEF Told
  <2>3. QED BY <2>1, <2>2 DEF Fit
<1>4. ASSUME NEW j \in 1 .. next - 1 - 1
      PROVE  /\ c[j] < c[j + 1]
             /\ \A m \in c[j] + 1 .. c[j + 1] - 1 : ~Fit(s, m, T[j + 1], k)
  <2>1. j \in 1 .. next - 2 /\ j \in 1 .. next - 1 /\ j + 1 \in 1 .. next - 1
    OBVIOUS
  <2>2. c[j] = x.events[j].nr /\ c[j + 1] = x.events[j + 1].nr
    BY <1>2, <2>1
  <2>3. QED BY <1>1, <2>1, <2>2
<1>5. QED BY <1>3, <1>4 DEF Follows, c, T

\* A partial of the rule r that the event n has begun, or its match.
Of(r, n, x) == x.rule = r /\ x.events[1].nr = n

\* It was given up: the next event comes too late.
GivenUp(s, t, r, n) ==
    \E x \in Underway :
        /\ Of(r, n, x) /\ x.next \in 2 .. Len(TriggersOf(x))
        /\ Told(s, s[n].event.dev, x) /\ Linked(s, s[n].event.dev, x, x.next)
        /\ t - x.start >= 2 * WindowOf(x)
        /\ \A m \in x.events[x.next - 1].nr + 1 .. Len(s) :
              Fit(s, m, TriggersOf(x)[x.next], s[n].event.dev) =>
                 s[m].done - x.start >= 2 * WindowOf(x)

Accounted ==
    \A r \in DOMAIN Rules, n \in 1 .. Len(seen) :
       Positive(Rules[r].triggers) /\ Launches(r, seen[n].event) =>
          \/ \E y \in Entries(fired) : Of(r, n, y)
          \/ \E x \in Entries(partials[seen[n].event.dev]) : Of(r, n, x)
          \/ GivenUp(seen, clock, r, n)

\* What is given up stays so.
LEMMA GivenUpStays ==
    ASSUME NEW s, NEW s2, NEW ev, NEW t \in Int, SeenGrows(s, s2, ev, t), NEW r, NEW n \in 1 .. Len(s),
           Positive(Rules[r].triggers), GivenUp(s, t, r, n)
    PROVE  GivenUp(s2, t, r, n)
<1>1. PICK x \in Underway :
         /\ Of(r, n, x) /\ x.next \in 2 .. Len(TriggersOf(x))
         /\ Told(s, s[n].event.dev, x) /\ Linked(s, s[n].event.dev, x, x.next)
         /\ t - x.start >= 2 * WindowOf(x)
         /\ \A m \in x.events[x.next - 1].nr + 1 .. Len(s) :
               Fit(s, m, TriggersOf(x)[x.next], s[n].event.dev) =>
                  s[m].done - x.start >= 2 * WindowOf(x)
  BY DEF GivenUp
<1> DEFINE k == s[n].event.dev
           T == TriggersOf(x)
           last == x.events[x.next - 1].nr
           late == 2 * WindowOf(x)
<1>2. /\ s2[n] = s[n] /\ Len(s2) = Len(s) + 1 /\ Len(s) \in Nat
      /\ \A m \in 1 .. Len(s) : s2[m] = s[m]
      /\ s2[Len(s) + 1].done = t
  BY DEF SeenGrows
<1>3. Len(x.events) \in Nat /\ Len(x.events) >= 1 /\ x.next \in Nat
  BY FirstIsAnEvent
<1>4. Told(s2, k, x) /\ Linked(s2, k, x, x.next)
  BY <1>1, <1>3, ToldStays, LinkedStays
<1>5. Positive(T)
  BY <1>1 DEF Of, TriggersOf
<1>6. x.next - 1 \in 1 .. Len(x.events)
  BY <1>1, <1>3, <1>5 DEF Linked
<1>7. last \in 1 .. Len(s)
  BY <1>1, <1>6 DEF Told
<1>8. ASSUME NEW m \in last + 1 .. Len(s2), Fit(s2, m, T[x.next], k)
      PROVE  s2[m].done - x.start >= late
  <2>1. CASE m = Len(s) + 1
    BY <1>1, <1>2, <2>1
  <2>2. CASE m # Len(s) + 1
    <3>1. m \in last + 1 .. Len(s) /\ m \in 1 .. Len(s) /\ s2[m] = s[m]
      BY <1>2, <1>7, <2>2
    <3>2. QED BY <1>1, <1>8, <3>1 DEF Fit
  <2>3. QED BY <2>1, <2>2
<1>9. QED BY <1>1, <1>2, <1>4, <1>8 DEF GivenUp

LEMMA GivenUpLater ==
    ASSUME NEW s, NEW t \in Int, NEW t2 \in Int, t <= t2, NEW r, NEW n, GivenUp(s, t, r, n)
    PROVE  GivenUp(s, t2, r, n)
<1>1. \A x \in Underway :
         t - x.start >= 2 * WindowOf(x) => t2 - x.start >= 2 * WindowOf(x)
  <2> TAKE x \in Underway
  <2>1. x.start \in Int /\ WindowOf(x) \in Int
    BY FirstIsAnEvent, TriggersAre
  <2>2. QED BY <2>1
<1>2. QED BY <1>1 DEF GivenUp

\* A partial that is stale is given up: nothing has come that it could take.
LEMMA StaleIsGivenUp ==
    ASSUME NEW s, NEW r, NEW n, NEW x \in Underway, Of(r, n, x),
           Sound(s, s[n].event.dev, x), ~Complete(x), Stale(x), Positive(Rules[r].triggers)
    PROVE  GivenUp(s, clock, r, n)
<1>1. x.next \in Nat /\ Len(TriggersOf(x)) \in Nat
  BY FirstIsAnEvent, TriggersAre
<1>2. x.next \in 2 .. Len(TriggersOf(x))
  BY <1>1 DEF Sound, Complete
<1>3. Positive(TriggersOf(x))
  BY DEF Of, TriggersOf
<1>4. \A m \in x.events[x.next - 1].nr + 1 .. Len(s) :
         ~Fit(s, m, TriggersOf(x)[x.next], s[n].event.dev)
  BY <1>1, <1>2, <1>3 DEF Sound, Awaits
<1>5. clock - x.start >= 2 * WindowOf(x)
  BY DEF Stale, Elapsed
<1>6. QED BY <1>2, <1>4, <1>5 DEF Sound, GivenUp

LEMMA ProcessAccounts ==
    EngineInv /\ (~evicted => Accounted) /\ ProcessEvent => (~evicted' => Accounted')
<1> SUFFICES ASSUME EngineInv, ~evicted => Accounted, ProcessEvent, ~evicted',
                    NEW r \in DOMAIN Rules, NEW n \in 1 .. Len(seen'),
                    Positive(Rules[r].triggers), Launches(r, seen'[n].event)
             PROVE  \/ \E y \in Entries(fired') : Of(r, n, y)
                    \/ \E x \in Entries(partials'[seen'[n].event.dev]) : Of(r, n, x)
                    \/ GivenUp(seen', clock', r, n)
  BY DEF Accounted
<1> DEFINE ev == Head(inbox)
           k == ev.dev
           old == partials[k]
           adv == AdvancedBy(old, ev)
           j == seen'[n].event.dev
<1>1. /\ SeenGrows(seen, seen', ev, clock) /\ k \in Keys
      /\ \A y \in Entries(fired) : y \in Entries(fired')
      /\ \A y \in Entries(adv) : Complete(y) => Match(y) \in Entries(fired')
      /\ \A i \in Keys : i # k => partials'[i] = partials[i]
      /\ \A x \in Entries(adv) : ~Complete(x) => x \in Entries(partials'[k])
      /\ ~evicted /\ clock' = clock
  BY EventProcessed
<1>2. /\ Len(seen') = Len(seen) + 1 /\ Len(seen) \in Nat
      /\ \A i \in 1 .. Len(seen) : seen'[i] = seen[i]
      /\ seen'[Len(seen) + 1].event = ev /\ ev \in BusEvent /\ ev.nr = Len(seen) + 1
  BY <1>1 DEF SeenGrows
<1>3. Accounted /\ Kept(seen, k, old) /\ clock \in 0 .. MaxClock /\ clock \in Int
  BY <1>1 DEF EngineInv, RuleTypeOK
<1>4. Entries(adv) = {Fed(Aged(x), ev) : x \in {z \in Entries(old) : Survives(z, ev)}}
                     \cup {Begun(q, ev) : q \in {p \in DOMAIN Rules : Launches(p, ev)}}
  BY <1>2, <1>3, AdvancedAre
<1> HIDE DEF adv
<1>5. ASSUME NEW y \in Entries(adv), Of(r, n, y), j = k
      PROVE  \/ \E z \in Entries(fired') : Of(r, n, z)
             \/ \E x \in Entries(partials'[j]) : Of(r, n, x)
  <2>1. Of(r, n, Match(y))
    BY <1>5 DEF Of, Match
  <2>2. QED BY <1>1, <1>5, <2>1
<1>6. CASE n = Len(seen) + 1
  <2>1. j = k /\ Launches(r, ev) /\ Begun(r, ev) \in Entries(adv)
    BY <1>2, <1>4, <1>6
  <2>2. Begun(r, ev).rule = r /\ Begun(r, ev).events = <<ev>>
    BY <1>2, <1>3, BegunIs
  <2>3. Of(r, n, Begun(r, ev))
    BY <1>2, <1>6, <2>2 DEF Of
  <2>4. QED BY <1>5, <2>1, <2>3
<1>7. CASE n # Len(seen) + 1
  <2>1. n \in 1 .. Len(seen) /\ seen'[n] = seen[n]
    BY <1>2, <1>7
  <2>2. \/ \E y \in Entries(fired) : Of(r, n, y)
        \/ \E x \in Entries(partials[j]) : Of(r, n, x)
        \/ GivenUp(seen, clock, r, n)
    BY <1>3, <2>1 DEF Accounted
  <2>3. CASE \E y \in Entries(fired) : Of(r, n, y)
    BY <1>1, <2>3
  <2>4. CASE GivenUp(seen, clock, r, n)
    <3>1. GivenUp(seen', clock, r, n)
      BY <1>1, <1>3, <2>1, <2>4, GivenUpStays
    <3>2. QED BY <1>1, <3>1
  <2>5. CASE \E x \in Entries(partials[j]) : Of(r, n, x)
    <3>1. PICK x \in Entries(partials[j]) : Of(r, n, x)
      BY <2>5
    <3>2. CASE j # k
      <4>1. j \in Keys
        BY <2>1, SeenAre
      <4>2. QED BY <1>1, <3>1, <3>2, <4>1
    <3>3. CASE j = k
      <4>1. x \in Underway /\ Sound(seen, k, x) /\ ~Complete(x)
        BY <1>3, <3>1, <3>3 DEF Kept, Entries
      <4>2. TriggersOf(x) = Rules[r].triggers
        BY <3>1 DEF Of, TriggersOf
      <4>3. CASE Stale(x)
        <5>1. GivenUp(seen, clock, r, n)
          BY <2>1, <3>1, <3>3, <4>1, <4>3, StaleIsGivenUp
        <5>2. GivenUp(seen', clock, r, n)
          BY <1>1, <1>3, <2>1, <5>1, GivenUpStays
        <5>3. QED BY <1>1, <5>2
      <4>4. CASE ~Stale(x)
        <5>1. Aged(x) = x
          BY <4>1, <4>2, AgedSound
        <5>2. ~x.waiting
          <6>1. x.next \in Nat /\ Len(TriggersOf(x)) \in Nat
            BY <4>1, FirstIsAnEvent, TriggersAre
          <6>2. x.next \in 1 .. Len(TriggersOf(x))
            BY <4>1, <6>1 DEF Sound, Complete
          <6>3. QED BY <4>1, <4>2, <6>2 DEF Sound, Positive
        <5>3. Survives(x, ev)
          BY <4>1, <4>4, <5>1, <5>2 DEF Survives
        <5>4. Fed(x, ev) \in Entries(adv)
          BY <1>4, <3>1, <3>3, <5>1, <5>3
        <5>5. Fed(x, ev).rule = x.rule /\ Fed(x, ev).events[1] = x.events[1]
          BY <1>2, <4>1, FedIs
        <5>6. Of(r, n, Fed(x, ev))
          BY <3>1, <5>5 DEF Of
        <5>7. QED BY <1>5, <3>3, <5>4, <5>6
      <4>5. QED BY <4>3, <4>4
    <3>4. QED BY <3>2, <3>3
  <2>6. QED BY <2>2, <2>3, <2>4, <2>5
<1>8. QED BY <1>6, <1>7

LEMMA ExpiryAccounts ==
    \A k \in Keys : EngineInv /\ (~evicted => Accounted) /\ ExpireKey(k)
                       => (~evicted' => Accounted')
<1> SUFFICES ASSUME NEW k \in Keys, EngineInv, ~evicted => Accounted, ExpireKey(k), ~evicted',
                    NEW r \in DOMAIN Rules, NEW n \in 1 .. Len(seen'),
                    Positive(Rules[r].triggers), Launches(r, seen'[n].event)
             PROVE  \/ \E y \in Entries(fired') : Of(r, n, y)
                    \/ \E x \in Entries(partials'[seen'[n].event.dev]) : Of(r, n, x)
                    \/ GivenUp(seen', clock', r, n)
  BY DEF Accounted
<1> DEFINE old == partials[k]
           j == seen[n].event.dev
<1>1. /\ \A y \in Entries(fired) : y \in Entries(fired')
      /\ \A i \in Keys : i # k => partials'[i] = partials[i]
      /\ Entries(partials'[k]) =
            {Aged(x) : x \in {z \in Entries(partials[k]) : ~Stale(z) /\ ~Complete(Aged(z))}}
      /\ ~evicted /\ clock' = clock /\ seen' = seen
  BY KeyExpired
<1>2. Accounted /\ Kept(seen, k, old) /\ n \in 1 .. Len(seen) /\ Launches(r, seen[n].event)
  BY <1>1 DEF EngineInv
<1>3. \/ \E y \in Entries(fired) : Of(r, n, y)
      \/ \E x \in Entries(partials[j]) : Of(r, n, x)
      \/ GivenUp(seen, clock, r, n)
  BY <1>2 DEF Accounted
<1>4. ASSUME NEW x \in Entries(partials[j]), Of(r, n, x)
      PROVE  \/ \E y \in Entries(partials'[j]) : Of(r, n, y)
             \/ GivenUp(seen, clock, r, n)
  <2>1. CASE j # k
    BY <1>1, <1>2, <1>4, <2>1, SeenAre
  <2>2. CASE j = k
    <3>1. x \in Underway /\ Sound(seen, k, x) /\ ~Complete(x)
      BY <1>2, <1>4, <2>2 DEF Kept, Entries
    <3>2. TriggersOf(x) = Rules[r].triggers
      BY <1>4 DEF Of, TriggersOf
    <3>3. CASE Stale(x)
      BY <1>2, <1>4, <2>2, <3>1, <3>3, StaleIsGivenUp
    <3>4. CASE ~Stale(x)
      <4>1. Aged(x) = x
        BY <3>1, <3>2, AgedSound
      <4>2. x \in Entries(partials'[k])
        BY <1>1, <1>4, <2>2, <3>1, <3>4, <4>1
      <4>3. QED BY <1>4, <2>2, <4>2
    <3>5. QED BY <3>3, <3>4
  <2>3. QED BY <2>1, <2>2
<1>5. QED BY <1>1, <1>3, <1>4

LEMMA OthersAccount ==
    ASSUME EngineInv, ~evicted => Accounted,
           clock \in Int, clock' \in Int, clock <= clock',
           UNCHANGED <<partials, fired, seen, evicted>>
    PROVE  ~evicted' => Accounted'
<1> SUFFICES ASSUME Accounted  PROVE Accounted'
  OBVIOUS
<1>1. \A r \in DOMAIN Rules, n \in 1 .. Len(seen) :
         GivenUp(seen, clock, r, n) => GivenUp(seen, clock', r, n)
  BY GivenUpLater
<1>2. QED BY <1>1 DEF Accounted

FullInv == EngineInv /\ (~evicted => Accounted)

LEMMA FullInvHolds == RuleSpec => []FullInv
<1>1. RuleInit => FullInv
  <2> SUFFICES ASSUME RuleInit  PROVE FullInv
    OBVIOUS
  <2>1. \A n \in 1 .. Len(seen) : FALSE
    <3>1. Len(<<>>) = 0 /\ \A n \in 1 .. 0 : FALSE
      OBVIOUS
    <3>2. QED BY <3>1 DEF RuleInit
  <2>2. QED BY <2>1, EngineStarts DEF FullInv, Accounted
<1>2. FullInv /\ [RuleNext]_ruleVars => FullInv'
  <2> SUFFICES ASSUME FullInv, [RuleNext]_ruleVars  PROVE FullInv'
    OBVIOUS
  <2>1. EngineInv /\ EngineInv' /\ (~evicted => Accounted)
    BY EngineKeepsInv DEF FullInv
  <2>2. clock \in Int /\ clock' \in Int
    <3>1. clock \in 0 .. MaxClock /\ clock' \in 0 .. MaxClock
      BY <2>1 DEF EngineInv, RuleTypeOK
    <3>2. QED BY <3>1
  <2>3. CASE ProcessEvent
    BY <2>1, <2>3, ProcessAccounts DEF FullInv
  <2>4. CASE \E k \in Keys : ExpireKey(k)
    BY <2>1, <2>4, ExpiryAccounts DEF FullInv
  <2>5. CASE /\ UNCHANGED <<partials, fired, seen, evicted>>
             /\ clock' = clock \/ clock' = clock + 1
    <3>1. clock <= clock'
      BY <2>2, <2>5
    <3>2. QED BY <2>1, <2>2, <2>5, <3>1, OthersAccount DEF FullInv
  <2>6. CASE \/ \E type \in EventTypes, dev \in Keys : Publish(type, dev)
             \/ SkipMeta \/ IdleTimedOut \/ ClockTicks \/ UNCHANGED ruleVars
    BY <2>5, <2>6 DEF Publish, SkipMeta, IdleTimedOut, ClockTicks, ruleVars
  <2>7. QED BY <2>3, <2>4, <2>6 DEF RuleNext
<1>3. QED BY <1>1, <1>2, PTL DEF RuleSpec

\* What the reference calls a chain.
LEMMA ChainsFollow ==
    ASSUME NEW r \in DOMAIN Rules, Len(seen) \in Nat,
           NEW c \in [1 .. Len(Rules[r].triggers) -> 1 .. Len(seen)]
    PROVE  IsChain(Rules[r].triggers, c) <=>
              Follows(seen, Rules[r].triggers, seen[c[1]].event.dev, c, Len(Rules[r].triggers))
<1> DEFINE T == Rules[r].triggers
           k == seen[c[1]].event.dev
<1>1. Len(T) \in Nat
  BY RuleFacts
<1>2. \A j \in 1 .. Len(T) : c[j] \in 1 .. Len(seen)
  OBVIOUS
<1>3. \A n, t : Fits(n, t, k) <=> Fit(seen, n, t, k)
  BY DEF Fits, Fit
<1> HIDE DEF T
<1>4. QED BY <1>1, <1>2, <1>3 DEF IsChain, Follows, T

\* Every match of a rule without negations is one of the reference.
LEMMA FiredIsFound ==
    ASSUME EngineInv, NEW y \in Entries(fired), Positive(TriggersOf(y))
    PROVE  \E c \in ReferenceMatches(y.rule) : y.events = EventsOf(c)
<1> DEFINE r == y.rule
           T == Rules[r].triggers
           k == y.events[1].dev
           c == [j \in 1 .. Len(T) |-> y.events[j].nr]
<1>1. fired \in Seq(Firing) /\ Len(seen) \in Nat
  BY DEF EngineInv, RuleTypeOK, Firing
<1>2. y \in Firing /\ Ended(seen, y)
  BY <1>1 DEF EngineInv, Entries
<1>3. /\ r \in DOMAIN Rules /\ y.events \in Seq(BusEvent) /\ Len(y.events) \in Nat
      /\ TriggersOf(y) = T /\ WindowOf(y) = Rules[r].window
      /\ Len(T) \in Nat /\ Len(T) >= 1
  <2>1. r \in DOMAIN Rules /\ y.events \in Seq(BusEvent)
    BY <1>2 DEF Firing
  <2>2. QED BY <2>1, RuleFacts DEF TriggersOf, WindowOf
<1> HIDE DEF T
<1>4. /\ Told(seen, k, y) /\ Linked(seen, k, y, Len(T) + 1) /\ Timely(seen, y)
      /\ Positive(T) /\ Len(y.events) = Len(T)
  <2>1. Told(seen, k, y) /\ Linked(seen, k, y, Len(T) + 1) /\ Timely(seen, y) /\ Positive(T)
    BY <1>2, <1>3 DEF Ended
  <2>2. Len(y.events) = Len(T) + 1 - 1
    BY <2>1, <1>3 DEF Linked
  <2>3. QED BY <2>1, <2>2, <1>3
<1>5. /\ \A j \in 1 .. Len(T) : /\ y.events[j].nr \in 1 .. Len(seen)
                                /\ seen[y.events[j].nr].event = y.events[j]
      /\ y.start = seen[y.events[1].nr].done
  BY <1>4 DEF Told
<1>6. /\ c \in [1 .. Len(T) -> 1 .. Len(seen)] /\ 1 \in 1 .. Len(T) /\ Len(T) \in 1 .. Len(T)
      /\ \A j \in 1 .. Len(T) : c[j] = y.events[j].nr
  BY <1>3, <1>5
<1>7. Follows(seen, T, k, c, Len(T))
  <2>1. Len(T) + 1 - 1 = Len(T) /\ Len(T) + 1 \in Nat
    BY <1>3
  <2>2. Follows(seen, TriggersOf(y), k,
                [j \in 1 .. Len(T) + 1 - 1 |-> y.events[j].nr], Len(T) + 1 - 1)
    BY <1>3, <1>4, <2>1, EventsFollow
  <2>3. QED BY <1>3, <2>1, <2>2
<1>8. seen[c[1]].event.dev = k
  BY <1>5, <1>6
<1> HIDE DEF c, k, r
<1>9. IsChain(T, c)
  BY <1>1, <1>3, <1>6, <1>7, <1>8, ChainsFollow DEF T
<1>10. seen[c[Len(T)]].done - seen[c[1]].done < 2 * Rules[r].window
  <2>1. seen[y.events[Len(T)].nr].done - y.start < 2 * Rules[r].window
    BY <1>3, <1>4 DEF Timely
  <2>2. QED BY <2>1, <1>5, <1>6
<1>11. c \in ReferenceMatches(r)
  BY <1>6, <1>9, <1>10 DEF ReferenceMatches, Closing, T
<1>12. y.events = EventsOf(c)
  <2>1. EventsOf(c) = [j \in 1 .. Len(T) |-> y.events[j]]
    <3>1. DOMAIN c = 1 .. Len(T) /\ \A j \in 1 .. Len(T) : seen[c[j]].event = y.events[j]
      BY <1>5, <1>6
    <3>2. QED BY <3>1 DEF EventsOf
  <2>2. y.events = [j \in 1 .. Len(T) |-> y.events[j]]
    BY <1>3, <1>4
  <2>3. QED BY <2>1, <2>2
<1>13. QED BY <1>11, <1>12 DEF r

\* And every match of the reference has been found.
LEMMA FoundIsFired ==
    ASSUME FullInv, ~evicted, NEW r \in DOMAIN Rules, Positive(Rules[r].triggers),
           NEW c \in ReferenceMatches(r)
    PROVE  \E y \in Entries(fired) : y.rule = r /\ y.events = EventsOf(c)
<1> DEFINE T == Rules[r].triggers
           n == c[1]
           k == seen[n].event.dev
<1>1. EngineInv /\ Accounted /\ Len(seen) \in Nat /\ InTime(seen, clock) /\ fired \in Seq(Firing)
  BY DEF FullInv, EngineInv, RuleTypeOK, Firing
<1>2. Len(T) \in Nat /\ Len(T) >= 1 /\ Rules[r].window \in Nat
  BY RuleFacts
<1>3. /\ c \in [1 .. Len(T) -> 1 .. Len(seen)] /\ IsChain(T, c)
      /\ seen[c[Len(T)]].done - seen[c[1]].done < 2 * Rules[r].window
  BY DEF ReferenceMatches, Closing
<1>4. Follows(seen, T, k, c, Len(T))
  BY <1>1, <1>3, ChainsFollow
<1> HIDE DEF T
<1>5. /\ n \in 1 .. Len(seen) /\ c[Len(T)] \in 1 .. Len(seen) /\ Fit(seen, n, T[1], k)
      /\ \A j \in 1 .. Len(T) : c[j] \in 1 .. Len(seen)
  BY <1>2, <1>3, <1>4 DEF Follows
<1>6. Launches(r, seen[n].event)
  BY <1>5 DEF Fit, Launches, T
<1>7. k \in Keys /\ Kept(seen, k, partials[k])
  BY <1>1, <1>5, SeenAre DEF EngineInv
<1>8. \/ \E y \in Entries(fired) : Of(r, n, y)
      \/ \E x \in Entries(partials[k]) : Of(r, n, x)
      \/ GivenUp(seen, clock, r, n)
  BY <1>1, <1>5, <1>6 DEF Accounted, T
\* A partial has gone the way of the chain so far, and the chain has an event for it.
<1>9. ASSUME NEW x \in Underway, Of(r, n, x), x.next \in 2 .. Len(T),
             Told(seen, k, x), Linked(seen, k, x, x.next)
      PROVE  /\ c[x.next] \in x.events[x.next - 1].nr + 1 .. Len(seen)
             /\ Fit(seen, c[x.next], T[x.next], k)
             /\ x.start = seen[n].done
             /\ seen[c[x.next]].done <= seen[c[Len(T)]].done
  <2> DEFINE m == x.next - 1
             d == [j \in 1 .. m |-> x.events[j].nr]
  <2>1. /\ TriggersOf(x) = T /\ x.next \in Nat /\ Len(x.events) \in Nat /\ m \in 1 .. Len(T) - 1
        /\ m \in Nat /\ 1 \in 1 .. m /\ m \in 1 .. m /\ m + 1 = x.next
    BY <1>2, <1>9, FirstIsAnEvent DEF Of, TriggersOf, T
  <2>2. Follows(seen, T, k, d, m)
    BY <1>9, <2>1, EventsFollow DEF T
  <2>3. d[1] = n /\ d[m] = x.events[m].nr
    BY <1>9, <2>1 DEF Of
  <2> HIDE DEF d, m
  <2>4. Follows(seen, T, k, c, m)
    <3>1. \A j \in 1 .. m : j \in 1 .. Len(T)
      BY <1>2, <2>1
    <3>2. \A j \in 1 .. m - 1 : j \in 1 .. Len(T) - 1
      BY <1>2, <2>1
    <3>3. QED BY <1>4, <3>1, <3>2 DEF Follows
  <2>5. c[m] = d[m]
    BY <2>1, <2>2, <2>3, <2>4, FollowersAgree
  <2>6. c[m] < c[x.next] /\ c[x.next] \in 1 .. Len(seen) /\ Fit(seen, c[x.next], T[x.next], k)
    <3>1. c[m] < c[m + 1]
      BY <1>4, <2>1 DEF Follows
    <3>2. x.next \in 1 .. Len(T)
      BY <1>9
    <3>3. QED BY <1>4, <2>1, <3>1, <3>2 DEF Follows
  <2>7. c[x.next] <= c[Len(T)]
    <3>1. x.next \in 1 .. Len(T) /\ Len(T) \in x.next .. Len(T)
      BY <1>2, <1>9
    <3>2. QED BY <1>1, <1>2, <1>4, <3>1, FollowersAscend
  <2>8. seen[c[x.next]].done <= seen[c[Len(T)]].done
    <3>1. c[x.next] \in 1 .. c[Len(T)]
      BY <1>5, <2>6, <2>7
    <3>2. QED BY <1>1, <1>5, <3>1 DEF InTime
  <2>9. x.start = seen[n].done
    BY <1>9 DEF Told, Of
  <2>10. c[x.next] \in x.events[x.next - 1].nr + 1 .. Len(seen)
    <3>1. c[m] \in Int /\ c[m] = x.events[x.next - 1].nr
      <4>1. m \in 1 .. Len(T)
        BY <1>2, <2>1
      <4>2. QED BY <1>5, <2>3, <2>5, <4>1 DEF m
    <3>2. QED BY <1>1, <2>6, <3>1
  <2>11. QED BY <2>6, <2>8, <2>9, <2>10
<1>10. CASE \E x \in Entries(partials[k]) : Of(r, n, x)
  <2>1. PICK x \in Entries(partials[k]) : Of(r, n, x)
    BY <1>10
  <2>2. x \in Underway /\ Sound(seen, k, x) /\ ~Complete(x)
    BY <1>7, <2>1 DEF Kept, Entries
  <2>3. TriggersOf(x) = T /\ x.next \in Nat
    BY <2>1, <2>2, FirstIsAnEvent DEF Of, TriggersOf, T
  <2>4. x.next \in 2 .. Len(T)
    BY <1>2, <2>2, <2>3 DEF Sound, Complete
  <2>5. /\ c[x.next] \in x.events[x.next - 1].nr + 1 .. Len(seen)
        /\ Fit(seen, c[x.next], T[x.next], k)
    BY <1>9, <2>1, <2>2, <2>4 DEF Sound
  <2>6. x.next <= Len(T) /\ Positive(T)
    BY <1>2, <2>4 DEF T
  <2>7. FALSE
    BY <2>2, <2>3, <2>5, <2>6 DEF Sound, Awaits
  <2>8. QED BY <2>7
<1>11. CASE GivenUp(seen, clock, r, n)
  <2>1. PICK x \in Underway :
           /\ Of(r, n, x) /\ x.next \in 2 .. Len(TriggersOf(x))
           /\ Told(seen, k, x) /\ Linked(seen, k, x, x.next)
           /\ \A m \in x.events[x.next - 1].nr + 1 .. Len(seen) :
                 Fit(seen, m, TriggersOf(x)[x.next], k) => seen[m].done - x.start >= 2 * WindowOf(x)
    BY <1>11 DEF GivenUp
  <2>2. TriggersOf(x) = T /\ WindowOf(x) = Rules[r].window
    BY <2>1 DEF Of, TriggersOf, WindowOf, T
  <2>3. /\ c[x.next] \in x.events[x.next - 1].nr + 1 .. Len(seen)
        /\ Fit(seen, c[x.next], T[x.next], k)
        /\ x.start = seen[n].done /\ seen[c[x.next]].done <= seen[c[Len(T)]].done
    BY <1>9, <2>1, <2>2
  <2>4. seen[c[x.next]].done - x.start >= 2 * Rules[r].window
    BY <2>1, <2>2, <2>3
  <2>5. /\ seen[c[x.next]].done \in Int /\ seen[c[Len(T)]].done \in Int /\ seen[n].done \in Int
        /\ Rules[r].window \in Int
    <3>1. x.next \in 1 .. Len(T)
      BY <1>2, <2>1, <2>2
    <3>2. QED BY <1>1, <1>2, <1>5, <3>1, SeenAre
  <2>6. QED BY <1>3, <2>3, <2>4, <2>5
<1>12. CASE \E y \in Entries(fired) : Of(r, n, y)
  <2>1. PICK y \in Entries(fired) : Of(r, n, y)
    BY <1>12
  <2>2. TriggersOf(y) = T /\ y.rule = r
    BY <2>1 DEF Of, TriggersOf, T
  <2>3. PICK d \in ReferenceMatches(r) : y.events = EventsOf(d)
    BY <1>1, <2>1, <2>2, FiredIsFound DEF T
  <2>4. d \in [1 .. Len(T) -> 1 .. Len(seen)] /\ IsChain(T, d)
    BY <2>3 DEF ReferenceMatches, T
  <2>5. d[1] = n
    <3>1. 1 \in 1 .. Len(T) /\ d[1] \in 1 .. Len(seen) /\ DOMAIN d = 1 .. Len(T)
      BY <1>2, <2>4
    <3>2. y.events[1] = seen[d[1]].event
      BY <2>3, <3>1 DEF EventsOf
    <3>3. seen[d[1]].event.nr = d[1]
      BY <1>1, <3>1 DEF EngineInv, Numbered
    <3>4. QED BY <2>1, <3>2, <3>3 DEF Of
  <2>6. Follows(seen, T, k, d, Len(T))
    BY <1>1, <2>4, <2>5, ChainsFollow DEF T
  <2>7. \A j \in 1 .. Len(T) : c[j] = d[j]
    BY <1>2, <1>4, <2>5, <2>6, FollowersAgree
  <2>8. c = d
    BY <1>3, <2>4, <2>7
  <2>9. QED BY <2>1, <2>2, <2>3, <2>8
<1>13. QED BY <1>8, <1>10, <1>11, <1>12

LEMMA AsReference == FullInv => FiresAsReference
<1> SUFFICES ASSUME FullInv  PROVE FiresAsReference
  OBVIOUS
<1>1. EngineInv /\ Distinct(fired) /\ DOMAIN fired = 1 .. Len(fired)
  BY DEF FullInv, EngineInv, RuleTypeOK
<1>2. ASSUME NEW f \in 1 .. Len(fired), NEW g \in 1 .. Len(fired),
             fired[f].rule = fired[g].rule, fired[f].events[1] = fired[g].events[1]
      PROVE  f = g
  BY <1>1, <1>2 DEF Distinct, Same
<1>3. ASSUME ~evicted, NEW r \in DOMAIN Rules, Positive(Rules[r].triggers)
      PROVE  LET found == {fired[f].events :
                              f \in {g \in 1 .. Len(fired) : fired[g].rule = r}}
             IN  /\ {EventsOf(c) : c \in WithinWindow(r)} \subseteq found
                 /\ found \subseteq {EventsOf(c) : c \in ReferenceMatches(r)}
  <2>1. ASSUME NEW f \in 1 .. Len(fired), fired[f].rule = r
        PROVE  \E c \in ReferenceMatches(r) : fired[f].events = EventsOf(c)
    <3>1. fired[f] \in Entries(fired) /\ TriggersOf(fired[f]) = Rules[r].triggers
      BY <1>1, <2>1 DEF Entries, TriggersOf
    <3>2. QED BY <1>1, <1>3, <2>1, <3>1, FiredIsFound
  <2>2. ASSUME NEW c \in ReferenceMatches(r)
        PROVE  \E f \in {g \in 1 .. Len(fired) : fired[g].rule = r} :
                  fired[f].events = EventsOf(c)
    <3>1. PICK y \in Entries(fired) : y.rule = r /\ y.events = EventsOf(c)
      BY <1>3, FoundIsFired
    <3>2. QED BY <1>1, <3>1 DEF Entries
  <2>3. WithinWindow(r) \subseteq ReferenceMatches(r)
    BY DEF WithinWindow
  <2>4. QED BY <2>1, <2>2, <2>3
<1>4. QED BY <1>2, <1>3 DEF FiresAsReference

\* As long as the cap evicts nothing, a rule of one device without negations fires for
\* every chain that closes within its window, with the chain's events, and for nothing but
\* chains that a partial may live for; and no rule ever fires twice from the same first
\* event: whatever other partials are fed, expire or are cancelled around it
\* (_process_event, _expire_partials_for and _expire_old_partials).
THEOREM RulesFireAsReference == RuleSpec => []FiresAsReference
BY FullInvHolds, AsReference, PTL

-----------------------------------------------------------------------------
\* Rules with negations: what a partial has not heard.

\* How many events a partial has taken when it has done with the first j triggers.
EventsBy(T, j) == Cardinality({i \in 1 .. j : ~T[i].negate})

LEMMA EventsByIs ==
    ASSUME NEW T, NEW j \in Nat
    PROVE  /\ EventsBy(T, j) \in Nat
           /\ ~T[j + 1].negate => EventsBy(T, j + 1) = EventsBy(T, j) + 1
           /\ T[j + 1].negate => EventsBy(T, j + 1) = EventsBy(T, j)
           /\ \A i \in 0 .. j : EventsBy(T, i) <= EventsBy(T, j)
<1> DEFINE S(n) == {i \in 1 .. n : ~T[i].negate}
<1>1. \A n \in Nat : IsFiniteSet(S(n)) /\ S(n) \in SUBSET (1 .. n)
  <2> TAKE n \in Nat
  <2>1. S(n) \in SUBSET (1 .. n) /\ 1 \in Int /\ n \in Int
    OBVIOUS
  <2>2. IsFiniteSet(1 .. n)
    BY <2>1, FS_Interval
  <2>3. QED BY <2>1, <2>2, FS_Subset
<1>2. EventsBy(T, j) \in Nat
  BY <1>1, FS_CardinalityType DEF EventsBy
<1>3. ASSUME ~T[j + 1].negate  PROVE EventsBy(T, j + 1) = EventsBy(T, j) + 1
  <2>1. S(j + 1) = S(j) \cup {j + 1} /\ j + 1 \notin S(j)
    BY <1>3
  <2>2. Cardinality(S(j + 1)) = Cardinality(S(j)) + 1
    BY <1>1, <2>1, FS_AddElement
  <2>3. QED BY <2>2 DEF EventsBy
<1>4. ASSUME T[j + 1].negate  PROVE EventsBy(T, j + 1) = EventsBy(T, j)
  <2>1. S(j + 1) = S(j)
    BY <1>4
  <2>2. QED BY <2>1 DEF EventsBy
<1>5. ASSUME NEW i \in 0 .. j  PROVE EventsBy(T, i) <= EventsBy(T, j)
  <2>1. S(i) \in SUBSET S(j)
    OBVIOUS
  <2>2. QED BY <1>1, <2>1, FS_Subset DEF EventsBy
<1>6. QED BY <1>2, <1>3, <1>4, <1>5

\* Since the event before the negation j, the negated one came only when the window
\* was over.
Calm(s, k, x, j) ==
    \A n \in 1 .. Len(s) :
       Fit(s, n, TriggersOf(x)[j], k) /\ n > x.events[EventsBy(TriggersOf(x), j)].nr =>
          s[n].done - x.start >= WindowOf(x)

\* So it is for the negations before next; and the one at next has not come at all.
Heard(s, t, k, x, next) ==
    /\ Len(x.events) = EventsBy(TriggersOf(x), next - 1)
    /\ \A j \in 2 .. next - 1 :
          TriggersOf(x)[j].negate => Calm(s, k, x, j) /\ t - x.start >= WindowOf(x)
    /\ next <= Len(TriggersOf(x)) /\ TriggersOf(x)[next].negate =>
          \A n \in x.events[Len(x.events)].nr + 1 .. Len(s) : ~Fit(s, n, TriggersOf(x)[next], k)

LEMMA CalmStays ==
    ASSUME NEW s, NEW s2, NEW ev, NEW t, SeenGrows(s, s2, ev, t), NEW k, NEW x, NEW j,
           Calm(s, k, x, j), t - x.start >= WindowOf(x)
    PROVE  Calm(s2, k, x, j)
<1> SUFFICES ASSUME NEW n \in 1 .. Len(s2), Fit(s2, n, TriggersOf(x)[j], k),
                    n > x.events[EventsBy(TriggersOf(x), j)].nr
             PROVE  s2[n].done - x.start >= WindowOf(x)
  BY DEF Calm
<1>1. CASE n = Len(s) + 1
  BY <1>1 DEF SeenGrows
<1>2. CASE n # Len(s) + 1
  <2>1. n \in 1 .. Len(s) /\ s2[n] = s[n]
    BY <1>2 DEF SeenGrows
  <2>2. Fit(s, n, TriggersOf(x)[j], k)
    BY <2>1 DEF Fit
  <2>3. QED BY <2>1, <2>2 DEF Calm
<1>3. QED BY <1>1, <1>2

\* An event that a partial does not take, or that comes after the match.
LEMMA HeardStays ==
    ASSUME NEW s, NEW s2, NEW ev, NEW t, SeenGrows(s, s2, ev, t), NEW k, NEW x, NEW next \in Nat,
           Len(x.events) \in Nat, Len(x.events) >= 1, Told(s, k, x), Heard(s, t, k, x, next),
           next <= Len(TriggersOf(x)) /\ TriggersOf(x)[next].negate =>
              ~Fit(s2, Len(s) + 1, TriggersOf(x)[next], k)
    PROVE  Heard(s2, t, k, x, next)
<1> DEFINE T == TriggersOf(x)
           last == Len(x.events)
<1>1. \A j \in 2 .. next - 1 : T[j].negate => Calm(s2, k, x, j) /\ t - x.start >= WindowOf(x)
  BY CalmStays DEF Heard
<1>2. ASSUME next <= Len(T), T[next].negate, NEW n \in x.events[last].nr + 1 .. Len(s2)
      PROVE  ~Fit(s2, n, T[next], k)
  <2>1. CASE n = Len(s) + 1
    BY <1>2, <2>1
  <2>2. CASE n # Len(s) + 1
    <3>1. x.events[last].nr \in 1 .. Len(s)
      BY DEF Told
    <3>2. n \in x.events[last].nr + 1 .. Len(s) /\ n \in 1 .. Len(s) /\ s2[n] = s[n]
      BY <2>2, <3>1 DEF SeenGrows
    <3>3. QED BY <1>2, <3>2 DEF Heard, Fit
  <2>3. QED BY <2>1, <2>2
<1>3. QED BY <1>1, <1>2 DEF Heard

LEMMA HeardLater ==
    ASSUME NEW s, NEW t \in Int, NEW t2 \in Int, t <= t2, NEW k, NEW x, NEW next,
           x.start \in Int, WindowOf(x) \in Int, Heard(s, t, k, x, next)
    PROVE  Heard(s, t2, k, x, next)
<1>1. t - x.start >= WindowOf(x) => t2 - x.start >= WindowOf(x)
  OBVIOUS
<1>2. QED BY <1>1 DEF Heard

\* A negation whose window went by.
LEMMA AgedHeard ==
    ASSUME NegationsApart, NEW s, NEW k, NEW x \in Underway, Sound(s, k, x), ~Complete(x),
           Heard(s, clock, k, x, x.next)
    PROVE  Heard(s, clock, k, Aged(x), Aged(x).next)
<1> DEFINE T == TriggersOf(x)
           y == Aged(x)
<1>1. /\ x \in Partial /\ x.next \in Nat /\ x.next \in 2 .. Len(T) /\ Len(T) \in Nat
      /\ Len(x.events) \in Nat /\ x.rule \in DOMAIN Rules
  <2>1. x \in Partial /\ x.next \in Nat /\ Len(T) \in Nat /\ Len(x.events) \in Nat
        /\ x.rule \in DOMAIN Rules
    BY FirstIsAnEvent, TriggersAre
  <2>2. QED BY <2>1 DEF Sound, Complete
<1>2. CASE ~Satisfied(x)
  BY <1>1, <1>2, AgedIs
<1>3. CASE Satisfied(x)
  <2>1. x.waiting /\ clock - x.start >= WindowOf(x) /\ T[x.next].negate
    BY <1>3 DEF Satisfied, Elapsed, Sound
  <2>2. /\ y.rule = x.rule /\ y.events = x.events /\ y.start = x.start /\ y.next = x.next + 1
        /\ TriggersOf(y) = T /\ WindowOf(y) = WindowOf(x)
    <3>1. x.next + 1 \in Nat \ {0} /\ y = At(x, x.next + 1)
      BY <1>1, <1>3, AgedIs
    <3> HIDE DEF y
    <3>2. y.rule = x.rule /\ y.events = x.events /\ y.start = x.start /\ y.next = x.next + 1
      BY <1>1, <3>1, AtIs
    <3>3. QED BY <3>2 DEF TriggersOf, WindowOf
  <2> HIDE DEF y, T
  <2>3. x.next - 1 \in Nat /\ x.next - 1 + 1 = x.next /\ x.next + 1 - 1 = x.next
    BY <1>1
  <2>4. Len(x.events) = EventsBy(T, x.next)
    <3>1. T[x.next - 1 + 1].negate
      BY <2>1, <2>3
    <3>2. EventsBy(T, x.next - 1 + 1) = EventsBy(T, x.next - 1)
      BY <2>3, <3>1, EventsByIs
    <3>3. QED BY <2>3, <3>2 DEF Heard, T
  <2>5. Calm(s, k, x, x.next)
    <3> SUFFICES ASSUME NEW n \in 1 .. Len(s), Fit(s, n, T[x.next], k),
                        n > x.events[Len(x.events)].nr
                 PROVE  FALSE
      BY <2>4 DEF Calm, T
    <3>1. x.events[Len(x.events)].nr \in 1 .. Len(s)
      <4>1. Len(x.events) \in 1 .. Len(x.events)
        BY <1>1, FirstIsAnEvent
      <4>2. QED BY <4>1 DEF Sound, Told
    <3>2. n \in x.events[Len(x.events)].nr + 1 .. Len(s)
      BY <3>1
    <3>3. x.next <= Len(T)
      BY <1>1
    <3>4. QED BY <2>1, <3>2, <3>3 DEF Heard, T
  <2>6. ASSUME NEW j \in 2 .. x.next, T[j].negate
        PROVE  Calm(s, k, x, j) /\ clock - x.start >= WindowOf(x)
    <3>1. j \in 2 .. x.next - 1 \/ j = x.next
      BY <1>1
    <3>2. QED BY <2>1, <2>5, <2>6, <3>1 DEF Heard, T
  <2>7. ~(x.next + 1 <= Len(T) /\ T[x.next + 1].negate)
    <3>1. x.next + 1 <= Len(T) => x.next \in 1 .. Len(T) - 1
      BY <1>1
    <3>2. QED BY <1>1, <2>1, <3>1 DEF NegationsApart, T, TriggersOf
  <2>8. \A j : Calm(s, k, x, j) <=> Calm(s, k, y, j)
    BY <2>2 DEF Calm, T
  <2>9. QED BY <2>2, <2>3, <2>4, <2>6, <2>7, <2>8 DEF Heard, y
<1>4. QED BY <1>2, <1>3

\* A partial that takes the event, or lets it pass.
LEMMA FedHeard ==
    ASSUME NEW s, NEW s2, NEW ev, NEW t, SeenGrows(s, s2, ev, t), NEW x \in Underway,
           Sound(s, ev.dev, x), ~Complete(x), ~(x.waiting /\ Wanted(x, ev)),
           Heard(s, t, ev.dev, x, x.next)
    PROVE  Heard(s2, t, ev.dev, Fed(x, ev), Fed(x, ev).next)
<1> DEFINE y == Fed(x, ev)
           k == ev.dev
           T == TriggersOf(x)
           m == Len(x.events)
<1>1. /\ m \in Nat /\ m >= 1 /\ x.next \in Nat /\ x.events \in Seq(BusEvent)
      /\ Len(T) \in Nat /\ x.next \in 2 .. Len(T) /\ x.waiting \in BOOLEAN
      /\ x.waiting <=> T[x.next].negate
  <2>1. /\ m \in Nat /\ m >= 1 /\ x.next \in Nat /\ x.events \in Seq(BusEvent)
        /\ Len(T) \in Nat /\ x.waiting \in BOOLEAN
    BY FirstIsAnEvent, TriggersAre
  <2>2. x.next \in 2 .. Len(T) /\ x.next <= Len(T)
    BY <2>1 DEF Sound, Complete
  <2>3. x.waiting <=> T[x.next].negate
    BY <2>2 DEF Sound
  <2>4. QED BY <2>1, <2>2, <2>3
<1>2. /\ ev \in BusEvent /\ ev.nr = Len(s) + 1 /\ Len(s) \in Nat /\ Len(s2) = Len(s) + 1
      /\ s2[Len(s) + 1].event = ev
  BY DEF SeenGrows
<1>3. CASE ~x.waiting /\ Wanted(x, ev)
  <2>1. /\ y.next = x.next + 1 /\ y.events = Append(x.events, ev) /\ y.rule = x.rule
        /\ y.start = x.start
    BY <1>2, <1>3, FedIs
  <2>2. /\ Len(y.events) = m + 1 /\ y.events[m + 1] = ev
        /\ \A e \in 1 .. m : y.events[e] = x.events[e]
    BY <1>1, <1>2, <2>1
  <2>3. TriggersOf(y) = T /\ WindowOf(y) = WindowOf(x)
    BY <2>1 DEF TriggersOf, WindowOf
  <2> HIDE DEF y, T, m
  <2>4. m = EventsBy(T, x.next - 1) /\ EventsBy(T, x.next) = m + 1
    <3>1. x.next - 1 \in Nat /\ x.next - 1 + 1 = x.next /\ ~T[x.next].negate
      BY <1>1, <1>3
    <3>2. m = EventsBy(T, x.next - 1)
      BY DEF Heard, T, m
    <3>3. EventsBy(T, x.next - 1 + 1) = EventsBy(T, x.next - 1) + 1
      BY <3>1, EventsByIs
    <3>4. QED BY <3>1, <3>2, <3>3
  <2>5. Len(y.events) = EventsBy(T, y.next - 1)
    <3>1. y.next - 1 = x.next
      BY <1>1, <2>1
    <3>2. QED BY <2>2, <2>4, <3>1
  <2>6. ASSUME NEW j \in 2 .. y.next - 1, T[j].negate
        PROVE  Calm(s2, k, y, j) /\ t - y.start >= WindowOf(y)
    <3>1. j \in 2 .. x.next - 1 /\ j \in 0 .. x.next - 1 /\ x.next - 1 \in Nat /\ j \in Nat
      <4>1. j # x.next
        BY <1>1, <1>3, <2>6
      <4>2. QED BY <1>1, <2>1, <4>1
    <3>2. Calm(s, k, x, j) /\ t - x.start >= WindowOf(x)
      BY <2>6, <3>1 DEF Heard, T
    <3>3. Calm(s2, k, x, j)
      BY <3>2, CalmStays
    <3>4. EventsBy(T, j) \in 1 .. m
      <4>1. EventsBy(T, j) \in Nat /\ EventsBy(T, j) <= m
        BY <2>4, <3>1, EventsByIs
      <4>2. EventsBy(T, 1) <= EventsBy(T, j) /\ 0 \in Nat
        BY <3>1, EventsByIs
      <4>3. EventsBy(T, 0 + 1) = EventsBy(T, 0) + 1 /\ EventsBy(T, 0) \in Nat
        <5>1. ~T[0 + 1].negate
          <6>1. 0 + 1 = 1
            OBVIOUS
          <6>2. ~T[1].negate
            BY RuleFacts, FirstIsAnEvent DEF T, TriggersOf
          <6>3. QED BY <6>1, <6>2
        <5>2. QED BY <5>1, <4>2, EventsByIs
      <4>4. EventsBy(T, 1) \in Nat /\ 0 + 1 = 1
        BY EventsByIs
      <4>5. QED BY <1>1, <4>1, <4>2, <4>3, <4>4
    <3>5. y.events[EventsBy(T, j)] = x.events[EventsBy(T, j)]
      BY <2>2, <3>4
    <3>6. Calm(s2, k, y, j)
      BY <2>1, <2>3, <3>3, <3>5 DEF Calm, T
    <3>7. QED BY <2>1, <2>3, <3>2, <3>6
  <2>7. \A n \in y.events[Len(y.events)].nr + 1 .. Len(s2) : FALSE
    BY <1>2, <2>2
  <2>8. Heard(s2, t, k, y, y.next)
    BY <2>3, <2>5, <2>6, <2>7 DEF Heard
  <2>9. QED BY <2>8 DEF y
<1>4. CASE ~(~x.waiting /\ Wanted(x, ev))
  <2>1. y = x
    BY <1>2, <1>4, FedIs
  <2>2. T[x.next].negate => ~Fit(s2, Len(s) + 1, T[x.next], k)
    BY <1>1, <1>2 DEF Wanted, Fit
  <2>3. Told(s, k, x)
    BY DEF Sound
  <2>4. Heard(s2, t, k, x, x.next)
    BY <1>1, <2>2, <2>3, HeardStays
  <2>5. QED BY <2>1, <2>4
<1>5. QED BY <1>3, <1>4

LEMMA BegunHeard ==
    ASSUME NEW s, NEW s2, NEW ev, SeenGrows(s, s2, ev, clock), clock \in 0 .. MaxClock,
           NEW r \in DOMAIN Rules
    PROVE  Heard(s2, clock, ev.dev, Begun(r, ev), Begun(r, ev).next)
<1> DEFINE y == Begun(r, ev)
           T == Rules[r].triggers
<1>1. ev \in BusEvent /\ ev.nr = Len(s) + 1 /\ Len(s2) = Len(s) + 1 /\ Len(s) \in Nat
  BY DEF SeenGrows
<1>2. y.rule = r /\ y.events = <<ev>> /\ y.next = 2 /\ TriggersOf(y) = T
  BY <1>1, BegunIs DEF TriggersOf
<1>3. ~T[1].negate
  BY RuleFacts
<1> HIDE DEF y, T
<1>4. Len(y.events) = 1 /\ y.events[1] = ev
  BY <1>2
<1>5. EventsBy(T, 1) = 1
  <2>1. {i \in 1 .. 1 : ~T[i].negate} = {1}
    BY <1>3
  <2>2. QED BY <2>1, FS_Singleton DEF EventsBy
<1>6. \A j \in 2 .. 2 - 1 : FALSE
  OBVIOUS
<1>7. \A n \in y.events[Len(y.events)].nr + 1 .. Len(s2) : FALSE
  BY <1>1, <1>4
<1>8. Len(y.events) = EventsBy(T, y.next - 1) /\ \A j \in 2 .. y.next - 1 : FALSE
  BY <1>2, <1>4, <1>5, <1>6
<1>9. Heard(s2, clock, ev.dev, y, y.next)
  BY <1>2, <1>7, <1>8 DEF Heard
<1>10. QED BY <1>9 DEF y

\* The partials of the event's device, before they are parted into open and closed ones.
LEMMA AdvancedHeard ==
    ASSUME NegationsApart, EngineInv, NEW s2, NEW ev, SeenGrows(seen, s2, ev, clock),
           NEW k, ev.dev = k, NEW list, Kept(seen, k, list),
           \A x \in Entries(list) : Heard(seen, clock, k, x, x.next),
           NEW y \in Entries(AdvancedBy(list, ev))
    PROVE  Heard(s2, clock, k, y, y.next)
<1>1. /\ ev \in BusEvent /\ ev.nr = Len(seen) + 1 /\ Len(seen) \in Nat /\ clock \in 0 .. MaxClock
  BY DEF SeenGrows, EngineInv, RuleTypeOK
<1>2. \/ \E x \in Entries(list) : Survives(x, ev) /\ y = Fed(Aged(x), ev)
      \/ \E r \in DOMAIN Rules : Launches(r, ev) /\ y = Begun(r, ev)
  BY <1>1, AdvancedAre
<1>3. CASE \E x \in Entries(list) : Survives(x, ev) /\ y = Fed(Aged(x), ev)
  <2>1. PICK x \in Entries(list) : Survives(x, ev) /\ y = Fed(Aged(x), ev)
    BY <1>3
  <2>2. x \in Underway /\ Sound(seen, k, x) /\ ~Complete(x)
    BY DEF Kept, Entries
  <2>3. Aged(x) \in Underway /\ Sound(seen, k, Aged(x))
    BY <2>2, AgedSound
  <2>4. Heard(seen, clock, k, Aged(x), Aged(x).next)
    BY <2>2, AgedHeard
  <2>5. ~Complete(Aged(x)) /\ ~(Aged(x).waiting /\ Wanted(Aged(x), ev))
    BY <2>1 DEF Survives
  <2>6. QED BY <2>1, <2>3, <2>4, <2>5, FedHeard
<1>4. CASE \E r \in DOMAIN Rules : Launches(r, ev) /\ y = Begun(r, ev)
  BY <1>1, <1>4, BegunHeard
<1>5. QED BY <1>2, <1>3, <1>4

\* A match says what its partial has heard.
LEMMA MatchHeard ==
    ASSUME NEW s, NEW t, NEW k, NEW x \in Underway, Sound(s, k, x), Complete(x),
           Heard(s, t, k, x, x.next)
    PROVE  Heard(s, t, k, Match(x), Len(TriggersOf(Match(x))) + 1)
<1> DEFINE y == Match(x)
<1>1. /\ y.events = x.events /\ y.start = x.start
      /\ TriggersOf(y) = TriggersOf(x) /\ WindowOf(y) = WindowOf(x)
  BY DEF Match, TriggersOf, WindowOf
<1>2. x.next = Len(TriggersOf(y)) + 1
  BY <1>1, FirstIsAnEvent, TriggersAre DEF Sound, Complete
<1> HIDE DEF y
<1>3. Heard(s, t, k, y, x.next)
  BY <1>1 DEF Heard, Calm
<1>4. QED BY <1>2, <1>3 DEF y

LEMMA FiringHeard ==
    ASSUME NegationsApart, EngineInv, NEW k, NEW list, Kept(seen, k, list),
           \A x \in Entries(list) : Heard(seen, clock, k, x, x.next),
           NEW y \in Entries(ToFire(list))
    PROVE  Heard(seen, clock, k, y, y.next)
<1>1. PICK x \in Entries(list) : y = Aged(x)
  BY FiringSound
<1>2. x \in Underway /\ Sound(seen, k, x) /\ ~Complete(x)
  BY DEF Kept, Entries
<1>3. QED BY <1>1, <1>2, AgedHeard

\* A match has not heard the negated event while its window was open, and what comes
\* later comes too late.
HeardInv ==
    /\ EngineInv
    /\ \A k \in Keys : \A x \in Entries(partials[k]) : Heard(seen, clock, k, x, x.next)
    /\ \A y \in Entries(fired) :
          Heard(seen, clock, y.events[1].dev, y, Len(TriggersOf(y)) + 1)

\* What is fired.
LEMMA FiredAre ==
    ASSUME EngineInv, NEW y \in Entries(fired)
    PROVE  /\ y \in Firing /\ Told(seen, y.events[1].dev, y)
           /\ Len(y.events) \in Nat /\ Len(y.events) >= 1
           /\ y.rule \in DOMAIN Rules /\ Len(TriggersOf(y)) \in Nat
           /\ y.start \in Int /\ WindowOf(y) \in Int
<1>1. fired \in Seq(Firing)
  BY DEF EngineInv, RuleTypeOK, Firing
<1>2. y \in Firing /\ Ended(seen, y)
  BY <1>1 DEF EngineInv, Entries
<1>3. y.rule \in DOMAIN Rules /\ y.events \in Seq(BusEvent) /\ y.start \in 0 .. MaxClock
  BY <1>2 DEF Firing
<1>4. QED BY <1>2, <1>3, RuleFacts DEF Ended, TriggersOf, WindowOf

LEMMA ProcessHears ==
    ASSUME NegationsApart, HeardInv, ProcessEvent
    PROVE  HeardInv'
<1> DEFINE ev == Head(inbox)
           k == ev.dev
           old == partials[k]
           adv == AdvancedBy(old, ev)
<1>1. /\ SeenGrows(seen, seen', ev, clock) /\ k \in Keys
      /\ Entries(fired') = Entries(fired)
                           \cup {Match(x) : x \in Entries(ToFire(old))}
                           \cup {Match(x) : x \in {y \in Entries(adv) : Complete(y)}}
      /\ \A j \in Keys : j # k => partials'[j] = partials[j]
      /\ \A x \in Entries(partials'[k]) : x \in Entries(adv) /\ ~Complete(x)
      /\ clock' = clock
  BY EventProcessed DEF HeardInv
<1>2. /\ EngineInv /\ EngineInv' /\ Kept(seen, k, old)
      /\ \A j \in Keys : Kept(seen, j, partials[j])
      /\ \A j \in Keys : \A x \in Entries(partials[j]) : Heard(seen, clock, j, x, x.next)
      /\ \A y \in Entries(fired) :
            Heard(seen, clock, y.events[1].dev, y, Len(TriggersOf(y)) + 1)
  BY <1>1, ProcessKeepsInv DEF HeardInv, EngineInv
<1>3. /\ Len(seen') = Len(seen) + 1 /\ Len(seen) \in Nat
      /\ seen'[Len(seen) + 1].event = ev
  BY <1>1 DEF SeenGrows
<1>4. \A y \in Entries(adv) : /\ y \in Underway /\ Sound(seen', k, y)
                              /\ Heard(seen', clock, k, y, y.next)
                              /\ Complete(y) => y.events[1].dev = k
  BY <1>1, <1>2, AdvancedSound, AdvancedHeard
<1>5. \A y \in Entries(ToFire(old)) :
         /\ y \in Underway /\ Sound(seen, k, y) /\ Complete(y) /\ y.events[1].dev = k
         /\ Heard(seen, clock, k, y, y.next)
  BY <1>1, <1>2, FiringSound, FiringHeard
<1> HIDE DEF adv, old, k, ev
<1>6. ASSUME NEW j \in Keys, NEW x \in Entries(partials'[j])
      PROVE  Heard(seen', clock, j, x, x.next)
  <2>1. CASE j = k
    BY <1>1, <1>4, <2>1
  <2>2. CASE j # k
    <3>1. x \in Entries(partials[j])
      BY <1>1, <2>2
    <3>2. x \in Underway /\ Told(seen, j, x) /\ Heard(seen, clock, j, x, x.next)
      BY <1>2, <3>1 DEF Kept, Entries, Sound
    <3>3. Len(x.events) \in Nat /\ Len(x.events) >= 1 /\ x.next \in Nat
      BY <3>2, FirstIsAnEvent
    <3>4. \A trigger : ~Fit(seen', Len(seen) + 1, trigger, j)
      BY <1>3, <2>2 DEF Fit, k
    <3>5. QED BY <1>1, <3>2, <3>3, <3>4, HeardStays
  <2>3. QED BY <2>1, <2>2
<1>7. ASSUME NEW y, NEW d, Told(seen, d, y), Len(y.events) \in Nat, Len(y.events) >= 1,
             Len(TriggersOf(y)) \in Nat,
             Heard(seen, clock, d, y, Len(TriggersOf(y)) + 1)
      PROVE  Heard(seen', clock, d, y, Len(TriggersOf(y)) + 1)
  <2>1. Len(TriggersOf(y)) + 1 \in Nat /\ ~(Len(TriggersOf(y)) + 1 <= Len(TriggersOf(y)))
    BY <1>7
  <2>2. QED BY <1>1, <1>7, <2>1, HeardStays
<1>8. ASSUME NEW y \in Entries(fired')
      PROVE  Heard(seen', clock, y.events[1].dev, y, Len(TriggersOf(y)) + 1)
  <2>1. CASE y \in Entries(fired)
    BY <1>2, <1>7, <2>1, FiredAre
  <2>2. CASE \E x \in Entries(ToFire(old)) : y = Match(x)
    <3>1. PICK x \in Entries(ToFire(old)) : y = Match(x)
      BY <2>2
    <3>2. y.events = x.events /\ y.start = x.start /\ TriggersOf(y) = TriggersOf(x)
      BY <3>1 DEF Match, TriggersOf
    <3>3. Heard(seen, clock, k, y, Len(TriggersOf(y)) + 1)
      BY <1>5, <3>1, MatchHeard
    <3>4. Told(seen, k, x) /\ Len(x.events) \in Nat /\ Len(x.events) >= 1
          /\ Len(TriggersOf(x)) \in Nat /\ x.events[1].dev = k
      BY <1>5, FirstIsAnEvent, TriggersAre DEF Sound
    <3>5. Told(seen, k, y)
      BY <3>2, <3>4 DEF Told
    <3>6. QED BY <1>7, <3>2, <3>3, <3>4, <3>5
  <2>3. CASE \E x \in Entries(adv) : Complete(x) /\ y = Match(x)
    <3>1. PICK x \in Entries(adv) : Complete(x) /\ y = Match(x)
      BY <2>3
    <3>2. y.events[1].dev = k
      BY <1>4, <3>1 DEF Match
    <3>3. QED BY <1>4, <3>1, <3>2, MatchHeard
  <2>4. QED BY <1>1, <2>1, <2>2, <2>3
<1>9. QED BY <1>1, <1>2, <1>6, <1>8 DEF HeardInv

LEMMA ExpiryHears ==
    ASSUME NegationsApart, HeardInv, NEW k \in Keys, ExpireKey(k)
    PROVE  HeardInv'
<1> DEFINE old == partials[k]
<1>1. /\ Entries(fired') = Entries(fired) \cup {Match(x) : x \in Entries(ToFire(old))}
      /\ \A j \in Keys : j # k => partials'[j] = partials[j]
      /\ Entries(partials'[k]) =
            {Aged(x) : x \in {z \in Entries(old) : ~Stale(z) /\ ~Complete(Aged(z))}}
      /\ clock' = clock /\ seen' = seen
  BY KeyExpired DEF HeardInv
<1>2. /\ EngineInv /\ EngineInv' /\ Kept(seen, k, old)
      /\ \A j \in Keys : \A x \in Entries(partials[j]) : Heard(seen, clock, j, x, x.next)
      /\ \A y \in Entries(fired) :
            Heard(seen, clock, y.events[1].dev, y, Len(TriggersOf(y)) + 1)
  BY ExpiryKeepsInv DEF HeardInv, EngineInv
<1>3. \A y \in Entries(ToFire(old)) :
         /\ y \in Underway /\ Sound(seen, k, y) /\ Complete(y) /\ y.events[1].dev = k
         /\ Heard(seen, clock, k, y, y.next)
  BY <1>2, FiringSound, FiringHeard
<1>4. \A x \in Entries(old) : Heard(seen, clock, k, Aged(x), Aged(x).next)
  <2> TAKE x \in Entries(old)
  <2>1. x \in Underway /\ Sound(seen, k, x) /\ ~Complete(x)
    BY <1>2 DEF Kept, Entries
  <2>2. QED BY <1>2, <2>1, AgedHeard
<1> HIDE DEF old
<1>5. ASSUME NEW j \in Keys, NEW x \in Entries(partials'[j])
      PROVE  Heard(seen, clock, j, x, x.next)
  <2>1. CASE j = k
    BY <1>1, <1>4, <2>1
  <2>2. CASE j # k
    BY <1>1, <1>2, <2>2
  <2>3. QED BY <2>1, <2>2
<1>6. ASSUME NEW y \in Entries(fired')
      PROVE  Heard(seen, clock, y.events[1].dev, y, Len(TriggersOf(y)) + 1)
  <2>1. CASE y \in Entries(fired)
    BY <1>2, <2>1
  <2>2. CASE \E x \in Entries(ToFire(old)) : y = Match(x)
    <3>1. PICK x \in Entries(ToFire(old)) : y = Match(x)
      BY <2>2
    <3>2. y.events[1].dev = k
      BY <1>3, <3>1 DEF Match
    <3>3. QED BY <1>3, <3>1, <3>2, MatchHeard
  <2>3. QED BY <1>1, <2>1, <2>2
<1>7. QED BY <1>1, <1>2, <1>5, <1>6 DEF HeardInv

LEMMA OthersHear ==
    ASSUME HeardInv, EngineInv', clock \in Int, clock' \in Int, clock <= clock',
           UNCHANGED <<partials, fired, seen>>
    PROVE  HeardInv'
<1>1. ASSUME NEW k \in Keys, NEW x \in Entries(partials[k])
      PROVE  Heard(seen, clock', k, x, x.next)
  <2>1. x \in Underway /\ Heard(seen, clock, k, x, x.next)
    BY DEF HeardInv, EngineInv, Kept, Entries
  <2>2. x.start \in Int /\ WindowOf(x) \in Int
    BY <2>1, FirstIsAnEvent, TriggersAre
  <2>3. QED BY <2>1, <2>2, HeardLater
<1>2. ASSUME NEW y \in Entries(fired)
      PROVE  Heard(seen, clock', y.events[1].dev, y, Len(TriggersOf(y)) + 1)
  <2>1. y.start \in Int /\ WindowOf(y) \in Int
    BY FiredAre DEF HeardInv
  <2>2. Heard(seen, clock, y.events[1].dev, y, Len(TriggersOf(y)) + 1)
    BY DEF HeardInv
  <2>3. QED BY <2>1, <2>2, HeardLater
<1>3. QED BY <1>1, <1>2 DEF HeardInv

LEMMA NoFalseAlarmHolds == HeardInv => NoFalseAlarm
<1> SUFFICES ASSUME HeardInv, NEW f \in 1 .. Len(fired), NEW n \in 1 .. Len(seen),
                    NEW j \in 2 .. Len(Rules[fired[f].rule].triggers),
                    Rules[fired[f].rule].triggers[j].negate,
                    seen[n].event.type = Rules[fired[f].rule].triggers[j].type,
                    seen[n].event.dev = fired[f].events[1].dev,
                    seen[n].event.nr >
                       fired[f].events[EventsBy(Rules[fired[f].rule].triggers, j)].nr
             PROVE  seen[n].done - fired[f].start >= Rules[fired[f].rule].window
  BY DEF NoFalseAlarm, EventsBy
<1> DEFINE y == fired[f]
           T == TriggersOf(y)
           k == y.events[1].dev
<1>1. EngineInv /\ fired \in Seq(Firing)
  BY DEF HeardInv, EngineInv, RuleTypeOK, Firing
<1>2. y \in Entries(fired)
  BY <1>1 DEF Entries
<1>3. T = Rules[y.rule].triggers /\ WindowOf(y) = Rules[y.rule].window
  BY DEF TriggersOf, WindowOf
<1>4. Heard(seen, clock, k, y, Len(T) + 1) /\ Len(T) \in Nat
  BY <1>1, <1>2, FiredAre DEF HeardInv
<1>5. j \in 2 .. Len(T) /\ T[j].negate
  BY <1>3
<1>6. Calm(seen, k, y, j)
  <2> HIDE DEF y, k
  <2>1. \A i \in 2 .. Len(T) + 1 - 1 : T[i].negate => Calm(seen, k, y, i)
    BY <1>4 DEF Heard
  <2>2. j \in 2 .. Len(T) + 1 - 1
    <3> HIDE DEF T
    <3>1. QED BY <1>4, <1>5
  <2>3. QED BY <1>5, <2>1, <2>2
<1>7. seen[n].event.nr = n
  BY <1>1 DEF EngineInv, Numbered
<1>8. Fit(seen, n, T[j], k) /\ n > y.events[EventsBy(T, j)].nr
  BY <1>3, <1>7 DEF Fit
<1>9. QED BY <1>3, <1>6, <1>8 DEF Calm

\* If no rule waits for one silence after another, a rule that fires because something did
\* not happen is right: from the event before the negation on, no event of the negated type
\* and the same device was processed while the window of the match was open
\* (_process_event, step 2, and _expire_partials_for).  Without the hypothesis it is not so.
THEOREM NoRuleRaisesAFalseAlarm ==
    ASSUME NegationsApart
    PROVE  RuleSpec => []NoFalseAlarm
<1>1. RuleInit => HeardInv
  <2> SUFFICES ASSUME RuleInit  PROVE HeardInv
    OBVIOUS
  <2>1. Entries(<<>>) = {}
    BY DEF Entries
  <2>2. Entries(fired) = {} /\ \A k \in Keys : Entries(partials[k]) = {}
    BY <2>1 DEF RuleInit
  <2>3. QED BY <2>2, EngineStarts DEF HeardInv
<1>2. HeardInv /\ [RuleNext]_ruleVars => HeardInv'
  <2> SUFFICES ASSUME HeardInv, [RuleNext]_ruleVars  PROVE HeardInv'
    OBVIOUS
  <2>1. EngineInv /\ EngineInv'
    BY EngineKeepsInv DEF HeardInv
  <2>2. clock \in Int /\ clock' \in Int
    <3>1. clock \in 0 .. MaxClock /\ clock' \in 0 .. MaxClock
      BY <2>1 DEF EngineInv, RuleTypeOK
    <3>2. QED BY <3>1
  <2>3. CASE ProcessEvent
    BY <2>3, ProcessHears
  <2>4. CASE \E k \in Keys : ExpireKey(k)
    BY <2>4, ExpiryHears
  <2>5. CASE UNCHANGED <<partials, fired, seen>> /\ (clock' = clock \/ clock' = clock + 1)
    <3>1. clock <= clock'
      BY <2>2, <2>5
    <3>2. QED BY <2>1, <2>2, <2>5, <3>1, OthersHear
  <2>6. CASE \/ \E type \in EventTypes, dev \in Keys : Publish(type, dev)
             \/ SkipMeta \/ IdleTimedOut \/ ClockTicks \/ UNCHANGED ruleVars
    BY <2>5, <2>6 DEF Publish, SkipMeta, IdleTimedOut, ClockTicks, ruleVars
  <2>7. QED BY <2>3, <2>4, <2>6 DEF RuleNext
<1>3. QED BY <1>1, <1>2, NoFalseAlarmHolds, PTL DEF RuleSpec
=============================================================================
