----------------------- MODULE CacheHierarchy_proofs -----------------------
(***************************************************************************)
(* The caches and their picture, for caches of every size.                 *)
(*                                                                         *)
(* The first half: no line gets two ways (OneWayPerLine).  From the start  *)
(* of a handler a cache only sheds lines (LessCaches), until a fill puts a *)
(* line into a set in which find_way finds none.                           *)
(*                                                                         *)
(* The second half: what the visualizer draws after the events of a trace  *)
(* is what the caches were (Viewed).  Each handler tells a story: every    *)
(* event it reports is about the one way that changes.  The stories of all *)
(* steps make a film, and the visualizer's state is one picture of it,     *)
(* whichever keys took it there.                                           *)
(***************************************************************************)
EXTENDS Visualizer, FiniteSetTheorems, WellFoundedInduction, TLAPS

L1Sets == 0 .. L1_SETS - 1
L2Sets == 0 .. L2_SETS - 1

(***************************************************************************)
(* Numbers and rounds.                                                     *)
(***************************************************************************)
LEMMA Least ==
  ASSUME NEW T, T \subseteq Nat, T # {}
  PROVE  \E x \in T : \A y \in T : x <= y
PROOF
<1>1. PICK x \in T : \A y \in T : <<y, x>> \notin OpToRel(<, Nat)
  BY NatLessThanWellFounded, WFMin, Zenon
<1>2. ASSUME NEW y \in T PROVE x <= y
  <2>1. ~(y < x)
    BY <1>1 DEF OpToRel
  <2>2. QED
    BY <2>1
<1>3. QED
  BY <1>2

LEMMA UpTo ==
  ASSUME NEW N \in Nat, NEW S, 0 \in S, \A n \in 1 .. N : n - 1 \in S => n \in S
  PROVE  0 .. N \subseteq S
PROOF
<1> SUFFICES ASSUME (0 .. N) \ S # {} PROVE FALSE
  OBVIOUS
<1>0. (0 .. N) \ S \subseteq Nat
  OBVIOUS
<1>1. PICK n \in (0 .. N) \ S : \A k \in (0 .. N) \ S : n <= k
  BY <1>0, Least
<1>2. n \in 1 .. N /\ n - 1 \in 0 .. N
  OBVIOUS
<1>3. n - 1 \in S
  BY <1>1, <1>2
<1>4. QED
  BY <1>2, <1>3

(***************************************************************************)
(* Sets.                                                                   *)
(***************************************************************************)
SetShape(set, W) ==
  /\ {"way", "plru"} \subseteq DOMAIN set
  /\ DOMAIN set.way = W
  /\ \A w \in W : {"tag", "state"} \subseteq DOMAIN set.way[w]

\* The tags of set are those of old, and no way is valid that was not.
Sheds(set, old, W) ==
  \A w \in W : /\ set.way[w].tag = old.way[w].tag
               /\ set.way[w].state # INVALID => old.way[w].state # INVALID

Distinct(set, W) ==
  \A v, w \in W :
    /\ set.way[v].state # INVALID
    /\ set.way[w].state # INVALID
    /\ set.way[v].tag = set.way[w].tag
    => v = w

LEMMA ShedsTransitive ==
  ASSUME NEW a, NEW b, NEW c, NEW W, Sheds(a, b, W), Sheds(b, c, W)
  PROVE  Sheds(a, c, W)
BY DEF Sheds

LEMMA ShedsDistinct ==
  ASSUME NEW set, NEW old, NEW W, Sheds(set, old, W), Distinct(old, W)
  PROVE  Distinct(set, W)
BY DEF Sheds, Distinct

LEMMA ShedsFinds ==
  ASSUME NEW set, NEW old, NEW W, NEW tag, SetShape(set, W), SetShape(old, W),
         Sheds(set, old, W)
  PROVE  find_way(set, tag) \subseteq find_way(old, tag)
BY DEF Sheds, SetShape, find_way

LEMMA FirstIsOne ==
  ASSUME NEW ways, ways \subseteq Nat, ways # {}
  PROVE  first(ways) \in ways
BY Least DEF first

(***************************************************************************)
(* One way changes: e replaces way, which replaced old.                    *)
(***************************************************************************)
Tame(e, way, old) ==
  /\ {"tag", "state"} \subseteq DOMAIN e
  /\ e.tag = way.tag
  /\ e.state # INVALID => old.state # INVALID

LEMMA TameChanges ==
  ASSUME NEW way, NEW old, Tame(way, way, old), NEW x, NEW y
  PROVE  /\ Tame(invalidated(way), way, old)
         /\ Tame([invalidated(way) EXCEPT !.d = {}, !.i = {}], way, old)
         /\ Tame([way EXCEPT !.d = x], way, old)
         /\ Tame([way EXCEPT !.i = x], way, old)
         /\ Tame([way EXCEPT !.data = x], way, old)
         /\ old.state # INVALID => /\ Tame([way EXCEPT !.state = x], way, old)
                                   /\ Tame([way EXCEPT !.data = y, !.state = x], way, old)
                                   /\ Tame([way EXCEPT !.d = y, !.state = x], way, old)
BY DEF Tame, invalidated

LEMMA WayChanges ==
  ASSUME NEW set, NEW old, NEW W, SetShape(set, W), Sheds(set, old, W),
         NEW w, NEW e, w \in W => Tame(e, set.way[w], old.way[w])
  PROVE  /\ SetShape([set EXCEPT !.way[w] = e], W)
         /\ Sheds([set EXCEPT !.way[w] = e], old, W)
BY DEF SetShape, Sheds, Tame

LEMMA Touched ==
  ASSUME NEW set, NEW old, NEW W, SetShape(set, W), Sheds(set, old, W), NEW bits
  PROVE  /\ SetShape([set EXCEPT !.plru = bits], W)
         /\ Sheds([set EXCEPT !.plru = bits], old, W)
BY DEF SetShape, Sheds

\* A line is filled that was in no way.
LEMMA WayFilled ==
  ASSUME NEW set, NEW W, SetShape(set, W), Distinct(set, W),
         NEW w, NEW e, {"tag", "state"} \subseteq DOMAIN e,
         find_way(set, e.tag) = {}
  PROVE  /\ SetShape([set EXCEPT !.way[w] = e], W)
         /\ Distinct([set EXCEPT !.way[w] = e], W)
BY DEF SetShape, Distinct, find_way

(***************************************************************************)
(* Caches.                                                                 *)
(***************************************************************************)
L1Shape(x) ==
  /\ DOMAIN x = Cores
  /\ \A c \in Cores :
       DOMAIN x[c] = L1Sets /\ \A i \in L1Sets : SetShape(x[c][i], Plru1!Ways)

L2Shape(x) == DOMAIN x = L2Sets /\ \A j \in L2Sets : SetShape(x[j], Plru2!Ways)

L1Less(x, y) ==
  L1Shape(x) /\ \A c \in Cores, i \in L1Sets : Sheds(x[c][i], y[c][i], Plru1!Ways)

L2Less(x, y) == L2Shape(x) /\ \A j \in L2Sets : Sheds(x[j], y[j], Plru2!Ways)

\* One set of a cache is replaced; one way of one set is.
L1Put(z, x, c, i, set) == z = [x EXCEPT ![c] = [x[c] EXCEPT ![i] = set]]
L2Put(z, x, j, set) == z = [x EXCEPT ![j] = set]
L1PutWay(z, x, c, i, v, e) == L1Put(z, x, c, i, [x[c][i] EXCEPT !.way[v] = e])
L2PutWay(z, x, j, w, e) == L2Put(z, x, j, [x[j] EXCEPT !.way[w] = e])

LEMMA L1Change ==
  ASSUME NEW x, NEW y, L1Less(x, y), NEW c, NEW i, NEW set,
         c \in Cores /\ i \in L1Sets =>
           SetShape(set, Plru1!Ways) /\ Sheds(set, y[c][i], Plru1!Ways),
         NEW z, L1Put(z, x, c, i, set)
  PROVE  L1Less(z, y)
BY DEF L1Less, L1Shape, L1Put

LEMMA L2Change ==
  ASSUME NEW x, NEW y, L2Less(x, y), NEW j, NEW set,
         j \in L2Sets => SetShape(set, Plru2!Ways) /\ Sheds(set, y[j], Plru2!Ways),
         NEW z, L2Put(z, x, j, set)
  PROVE  L2Less(z, y)
BY DEF L2Less, L2Shape, L2Put

LEMMA L1WayChange ==
  ASSUME NEW x, NEW y, L1Less(x, y), NEW c, NEW i, NEW v, NEW e,
         c \in Cores /\ i \in L1Sets /\ v \in Plru1!Ways =>
           Tame(e, x[c][i].way[v], y[c][i].way[v]),
         NEW z, L1PutWay(z, x, c, i, v, e)
  PROVE  L1Less(z, y)
PROOF
<1> DEFINE set == [x[c][i] EXCEPT !.way[v] = e]
<1>1. ASSUME c \in Cores, i \in L1Sets
      PROVE  SetShape(set, Plru1!Ways) /\ Sheds(set, y[c][i], Plru1!Ways)
  <2>1. SetShape(x[c][i], Plru1!Ways) /\ Sheds(x[c][i], y[c][i], Plru1!Ways)
    BY <1>1 DEF L1Less, L1Shape
  <2>2. QED
    BY <1>1, <2>1, WayChanges
<1>2. L1Put(z, x, c, i, set)
  BY DEF L1PutWay
<1> HIDE DEF set
<1>3. QED
  BY <1>1, <1>2, L1Change

LEMMA L2WayChange ==
  ASSUME NEW x, NEW y, L2Less(x, y), NEW j, NEW w, NEW e,
         j \in L2Sets /\ w \in Plru2!Ways => Tame(e, x[j].way[w], y[j].way[w]),
         NEW z, L2PutWay(z, x, j, w, e)
  PROVE  L2Less(z, y)
PROOF
<1> DEFINE set == [x[j] EXCEPT !.way[w] = e]
<1>1. ASSUME j \in L2Sets
      PROVE  SetShape(set, Plru2!Ways) /\ Sheds(set, y[j], Plru2!Ways)
  <2>1. SetShape(x[j], Plru2!Ways) /\ Sheds(x[j], y[j], Plru2!Ways)
    BY <1>1 DEF L2Less, L2Shape
  <2>2. QED
    BY <1>1, <2>1, WayChanges
<1>2. L2Put(z, x, j, set)
  BY DEF L2PutWay
<1> HIDE DEF set
<1>3. QED
  BY <1>1, <1>2, L2Change

LEMMA L1WayTame ==
  ASSUME NEW x, NEW y, L1Less(x, y), NEW c \in Cores, NEW i \in L1Sets,
         NEW v \in Plru1!Ways
  PROVE  Tame(x[c][i].way[v], x[c][i].way[v], y[c][i].way[v])
BY DEF L1Less, L1Shape, SetShape, Sheds, Tame

LEMMA L2WayTame ==
  ASSUME NEW x, NEW y, L2Less(x, y), NEW j \in L2Sets, NEW w \in Plru2!Ways
  PROVE  Tame(x[j].way[w], x[j].way[w], y[j].way[w])
BY DEF L2Less, L2Shape, SetShape, Sheds, Tame

LEMMA FirstWay ==
  ASSUME NEW set, NEW tag, find_way(set, tag) # {},
         SetShape(set, Plru1!Ways) \/ SetShape(set, Plru2!Ways)
  PROVE  first(find_way(set, tag)) \in find_way(set, tag)
PROOF
<1>1. find_way(set, tag) \subseteq Nat
  BY GeometryAssumption DEF SetShape, find_way, Plru1!Ways, Plru2!Ways
<1>2. QED
  BY <1>1, FirstIsOne

\* A way that is found was valid all along.
LEMMA L1Found ==
  ASSUME NEW x, NEW y, L1Less(x, y), NEW c \in Cores, NEW i \in L1Sets, NEW tag,
         find_way(x[c][i], tag) # {}
  PROVE  y[c][i].way[first(find_way(x[c][i], tag))].state # INVALID
PROOF
<1>1. SetShape(x[c][i], Plru1!Ways) /\ Sheds(x[c][i], y[c][i], Plru1!Ways)
  BY DEF L1Less, L1Shape
<1>2. first(find_way(x[c][i], tag)) \in find_way(x[c][i], tag)
  BY <1>1, FirstWay
<1>3. QED
  BY <1>1, <1>2, Zenon DEF Sheds, SetShape, find_way

LEMMA L2Found ==
  ASSUME NEW x, NEW y, L2Less(x, y), NEW j \in L2Sets, NEW tag,
         find_way(x[j], tag) # {}
  PROVE  y[j].way[first(find_way(x[j], tag))].state # INVALID
PROOF
<1>1. SetShape(x[j], Plru2!Ways) /\ Sheds(x[j], y[j], Plru2!Ways)
  BY DEF L2Less, L2Shape
<1>2. first(find_way(x[j], tag)) \in find_way(x[j], tag)
  BY <1>1, FirstWay
<1>3. QED
  BY <1>1, <1>2 DEF Sheds, SetShape, find_way

(***************************************************************************)
(* All caches.                                                             *)
(***************************************************************************)
Caches == {"l1d", "l1i", "l2"}

\* All caches of t hold at most what those of b hold, in the same ways.
LessCaches(t, b) ==
  /\ Caches \subseteq DOMAIN t
  /\ L1Less(t.l1d, b.l1d)
  /\ L1Less(t.l1i, b.l1i)
  /\ L2Less(t.l2, b.l2)

SameCaches(t, s) ==
  Caches \subseteq DOMAIN t /\ t.l1d = s.l1d /\ t.l1i = s.l1i /\ t.l2 = s.l2

LEMMA SameLess ==
  ASSUME NEW t, NEW s, NEW b, SameCaches(t, s), LessCaches(s, b)
  PROVE  LessCaches(t, b)
BY DEF SameCaches, LessCaches

LEMMA EmittedSame ==
  ASSUME NEW s, NEW e, Caches \subseteq DOMAIN s
  PROVE  SameCaches(emit(s, e), s)
BY DEF emit, SameCaches, Caches

LEMMA EmittedLess ==
  ASSUME NEW s, NEW b, NEW e, LessCaches(s, b)
  PROVE  LessCaches(emit(s, e), b)
BY EmittedSame, SameLess DEF LessCaches

LEMMA AbortedLess ==
  ASSUME NEW s, NEW b, NEW why, LessCaches(s, b)
  PROVE  LessCaches([s EXCEPT !.abort = why], b)
BY DEF LessCaches, Caches

\* A way of an L1I is invalidated.
LEMMA IWayInvalidated ==
  ASSUME NEW s, NEW b, LessCaches(s, b), NEW c, NEW i, NEW v
  PROVE  LessCaches([s EXCEPT !.l1i[c][i].way[v] = invalidated(@)], b)
PROOF
<1> DEFINE t == [s EXCEPT !.l1i[c][i].way[v] = invalidated(@)]
           e1 == invalidated(s.l1i[c][i].way[v])
<1>1. L1Less(s.l1d, b.l1d) /\ L1Less(s.l1i, b.l1i) /\ L2Less(s.l2, b.l2)
  BY DEF LessCaches
<1>2. /\ Caches \subseteq DOMAIN t
      /\ L1PutWay(t.l1i, s.l1i, c, i, v, e1)
      /\ t.l1d = s.l1d
      /\ t.l2 = s.l2
  BY DEF LessCaches, Caches, L1PutWay, L1Put
<1>3. c \in Cores /\ i \in L1Sets /\ v \in Plru1!Ways =>
        Tame(e1, s.l1i[c][i].way[v], b.l1i[c][i].way[v])
  BY <1>1, L1WayTame, TameChanges, Zenon
<1> HIDE DEF t, e1
<1>4. L1Less(t.l1i, b.l1i)
  BY <1>1, <1>2, <1>3, L1WayChange
<1>5. QED
  BY <1>1, <1>2, <1>4 DEF LessCaches, t

\* A way of an L1D is.
LEMMA DWayInvalidated ==
  ASSUME NEW s, NEW b, LessCaches(s, b), NEW c, NEW i, NEW v
  PROVE  LessCaches([s EXCEPT !.l1d[c][i].way[v] = invalidated(@)], b)
PROOF
<1> DEFINE t == [s EXCEPT !.l1d[c][i].way[v] = invalidated(@)]
           e1 == invalidated(s.l1d[c][i].way[v])
<1>1. L1Less(s.l1d, b.l1d) /\ L1Less(s.l1i, b.l1i) /\ L2Less(s.l2, b.l2)
  BY DEF LessCaches
<1>2. /\ Caches \subseteq DOMAIN t
      /\ L1PutWay(t.l1d, s.l1d, c, i, v, e1)
      /\ t.l1i = s.l1i
      /\ t.l2 = s.l2
  BY DEF LessCaches, Caches, L1PutWay, L1Put
<1>3. c \in Cores /\ i \in L1Sets /\ v \in Plru1!Ways =>
        Tame(e1, s.l1d[c][i].way[v], b.l1d[c][i].way[v])
  BY <1>1, L1WayTame, TameChanges, Zenon
<1> HIDE DEF t, e1
<1>4. L1Less(t.l1d, b.l1d)
  BY <1>1, <1>2, <1>3, L1WayChange
<1>5. QED
  BY <1>1, <1>2, <1>4 DEF LessCaches, t

\* A way of the L2 changes.
LEMMA L2WayChanged ==
  ASSUME NEW s, NEW b, LessCaches(s, b), NEW j, NEW w, NEW e,
         j \in L2Sets /\ w \in Plru2!Ways => Tame(e, s.l2[j].way[w], b.l2[j].way[w])
  PROVE  LessCaches([s EXCEPT !.l2[j].way[w] = e], b)
PROOF
<1> DEFINE t == [s EXCEPT !.l2[j].way[w] = e]
<1>1. L1Less(s.l1d, b.l1d) /\ L1Less(s.l1i, b.l1i) /\ L2Less(s.l2, b.l2)
  BY DEF LessCaches
<1>2. /\ Caches \subseteq DOMAIN t
      /\ L2PutWay(t.l2, s.l2, j, w, e)
      /\ t.l1d = s.l1d
      /\ t.l1i = s.l1i
  BY DEF LessCaches, Caches, L2PutWay, L2Put
<1> HIDE DEF t
<1>3. L2Less(t.l2, b.l2)
  BY <1>1, <1>2, L2WayChange
<1>4. QED
  BY <1>1, <1>2, <1>3 DEF LessCaches, t

LEMMA L2WayTameIn ==
  ASSUME NEW s, NEW b, LessCaches(s, b), NEW j \in L2Sets, NEW w \in Plru2!Ways
  PROVE  Tame(s.l2[j].way[w], s.l2[j].way[w], b.l2[j].way[w])
BY L2WayTame DEF LessCaches

(***************************************************************************)
(* The visits of the loops over sharers.                                   *)
(***************************************************************************)
LEMMA Downgrade ==
  ASSUME NEW s, NEW b, LessCaches(s, b), NEW c, NEW l, NEW j, NEW w
  PROVE  LessCaches(downgrade(s, c, l, j, w), b)
PROOF
<1> DEFINE i == l1_to_index(l)
           ways == find_way(s.l1d[c][i], l1_to_tag(l))
           v == first(ways)
           peer == s.l1d[c][i].way[v]
           e == event("SNOOP_DOWNGRADE", c, 1, i, v, 0, peer.state, SHARED, peer.data)
           data == IF peer.state = MODIFIED THEN peer.data ELSE s.l2[j].way[w].data
           t == [s EXCEPT !.l2[j].way[w].data = data, !.l1d[c][i].way[v].state = SHARED]
           e1 == [peer EXCEPT !.state = SHARED]
           e2 == [s.l2[j].way[w] EXCEPT !.data = data]
<1>1. downgrade(s, c, l, j, w) = IF ways = {} THEN s ELSE emit(t, e)
  BY DEF downgrade
<1>2. ASSUME ways # {} PROVE LessCaches(t, b)
  <2>1. /\ Caches \subseteq DOMAIN t
        /\ L1PutWay(t.l1d, s.l1d, c, i, v, e1)
        /\ t.l1i = s.l1i
        /\ L2PutWay(t.l2, s.l2, j, w, e2)
    BY DEF LessCaches, Caches, L1PutWay, L2PutWay, L1Put, L2Put
  <2>2. L1Less(s.l1d, b.l1d) /\ L1Less(s.l1i, b.l1i) /\ L2Less(s.l2, b.l2)
    BY DEF LessCaches
  <2>3. c \in Cores /\ i \in L1Sets /\ v \in Plru1!Ways => Tame(e1, peer, b.l1d[c][i].way[v])
    BY <1>2, <2>2, L1Found, L1WayTame, TameChanges, Zenon
  <2>4. j \in L2Sets /\ w \in Plru2!Ways => Tame(e2, s.l2[j].way[w], b.l2[j].way[w])
    BY <2>2, L2WayTame, TameChanges, Zenon
  <2> HIDE DEF t, e1, e2, i, v
  <2>5. L1Less(t.l1d, b.l1d) /\ L2Less(t.l2, b.l2)
    BY <2>1, <2>2, <2>3, <2>4, L1WayChange, L2WayChange
  <2>6. QED
    BY <2>1, <2>2, <2>5 DEF LessCaches
<1> HIDE DEF t
<1>3. QED
  BY <1>1, <1>2, EmittedLess

LEMMA InvalidateD ==
  ASSUME NEW s, NEW b, LessCaches(s, b), NEW c, NEW l, NEW j, NEW w
  PROVE  LessCaches(invalidate_d(s, c, l, j, w), b)
PROOF
<1> DEFINE i == l1_to_index(l)
           ways == find_way(s.l1d[c][i], l1_to_tag(l))
           v == first(ways)
           peer == s.l1d[c][i].way[v]
           e == event("SNOOP_INVALIDATE", c, 1, i, v, 0, peer.state, INVALID, peer.data)
           t == [s EXCEPT !.l2[j].way[w].d = @ \ {c}]
           u == [t EXCEPT !.l1d[c][i].way[v] = invalidated(@)]
           e2 == [s.l2[j].way[w] EXCEPT !.d = @ \ {c}]
<1>1. invalidate_d(s, c, l, j, w) = IF ways = {} THEN t ELSE emit(u, e)
  BY DEF invalidate_d
<1>2. LessCaches(t, b)
  <2>1. j \in L2Sets /\ w \in Plru2!Ways => Tame(e2, s.l2[j].way[w], b.l2[j].way[w])
    BY L2WayTameIn, TameChanges, Zenon
  <2>2. t = [s EXCEPT !.l2[j].way[w] = e2]
    OBVIOUS
  <2> HIDE DEF t, e2
  <2>3. QED
    BY <2>1, <2>2, L2WayChanged, Zenon
<1>3. LessCaches(u, b)
  <2> HIDE DEF t, i, v
  <2>1. QED
    BY <1>2, DWayInvalidated
<1> HIDE DEF t, u
<1>4. QED
  BY <1>1, <1>2, <1>3, EmittedLess

LEMMA InvalidateI ==
  ASSUME NEW s, NEW b, LessCaches(s, b), NEW c, NEW l
  PROVE  LessCaches(invalidate_i(s, c, l), b)
PROOF
<1> DEFINE i == l1_to_index(l)
           ways == find_way(s.l1i[c][i], l1_to_tag(l))
           v == first(ways)
           e == event("L1I_SNOOP_INVALIDATE", c, 1, i, v, 0,
                      s.l1i[c][i].way[v].state, INVALID, <<>>)
           t == [s EXCEPT !.l1i[c][i].way[v] = invalidated(@)]
<1>1. invalidate_i(s, c, l) = IF ways = {} THEN s ELSE emit(t, e)
  BY DEF invalidate_i
<1>2. LessCaches(t, b)
  <2> HIDE DEF i, v
  <2>1. QED
    BY IWayInvalidated
<1> HIDE DEF t
<1>3. QED
  BY <1>1, <1>2, EmittedLess

\* A sharer's copies when the L2 evicts the line of way v.
LEMMA DropD ==
  ASSUME NEW s, NEW b, LessCaches(s, b), NEW c, NEW l, NEW j, NEW v,
         j \in L2Sets /\ v \in Plru2!Ways => b.l2[j].way[v].state # INVALID
  PROVE  LessCaches(drop_d(s, c, l, j, v), b)
PROOF
<1> DEFINE i == l1_to_index(l)
           ways == find_way(s.l1d[c][i], l1_to_tag(l))
           w == first(ways)
           peer == s.l1d[c][i].way[w]
           e == event("SNOOP_INVALIDATE", c, 1, i, w, l, peer.state, INVALID, peer.data)
           t1 == [s EXCEPT !.l2[j].way[v].data = peer.data]
           t2 == [t1 EXCEPT !.l2[j].way[v].state = MODIFIED]
           t == IF peer.state = MODIFIED THEN t2 ELSE s
           u == [t EXCEPT !.l1d[c][i].way[w] = invalidated(@)]
           e1 == [s.l2[j].way[v] EXCEPT !.data = peer.data]
           e2 == [t1.l2[j].way[v] EXCEPT !.state = MODIFIED]
<1>1. drop_d(s, c, l, j, v) = IF c \notin s.l2[j].way[v].d THEN s
                              ELSE IF ways = {} THEN [s EXCEPT !.abort = "stale_core_valid"]
                              ELSE emit(u, e)
  BY DEF drop_d
<1>2. LessCaches(t1, b)
  <2>1. j \in L2Sets /\ v \in Plru2!Ways => Tame(e1, s.l2[j].way[v], b.l2[j].way[v])
    BY L2WayTameIn, TameChanges, Zenon
  <2> HIDE DEF e1, peer
  <2>2. QED
    BY <2>1, L2WayChanged DEF e1
<1>3. LessCaches(t2, b)
  <2> HIDE DEF t1
  <2>1. j \in L2Sets /\ v \in Plru2!Ways => Tame(e2, t1.l2[j].way[v], b.l2[j].way[v])
    BY <1>2, L2WayTameIn, TameChanges, Zenon
  <2> HIDE DEF e2
  <2>2. QED
    BY <1>2, <2>1, L2WayChanged, Zenon DEF e2
<1>4. LessCaches(u, b)
  <2> HIDE DEF t1, t2, i, w
  <2>1. LessCaches(t, b)
    BY <1>2, <1>3
  <2> HIDE DEF t
  <2>2. QED
    BY <2>1, DWayInvalidated
<1> HIDE DEF u
<1>5. QED
  BY <1>1, <1>4, EmittedLess, AbortedLess

LEMMA DropI ==
  ASSUME NEW s, NEW b, LessCaches(s, b), NEW c, NEW l, NEW j, NEW v
  PROVE  LessCaches(drop_i(s, c, l, j, v), b)
PROOF
<1> DEFINE i == l1_to_index(l)
           ways == find_way(s.l1i[c][i], l1_to_tag(l))
           w == first(ways)
           e == event("L1I_SNOOP_INVALIDATE", c, 1, i, w, l,
                      s.l1i[c][i].way[w].state, INVALID, <<>>)
           u == [s EXCEPT !.l1i[c][i].way[w] = invalidated(@)]
<1>1. drop_i(s, c, l, j, v) = IF c \notin s.l2[j].way[v].i THEN s
                              ELSE IF ways = {} THEN [s EXCEPT !.abort = "stale_core_valid"]
                              ELSE emit(u, e)
  BY DEF drop_i
<1>2. LessCaches(u, b)
  <2> HIDE DEF i, w
  <2>1. QED
    BY IWayInvalidated
<1> HIDE DEF u, i, w, ways, e
<1>3. QED
  BY <1>1, <1>2, EmittedLess, AbortedLess

(***************************************************************************)
(* Evictions, without the loop of evict_l2.                                *)
(***************************************************************************)
LEMMA EvictDWay ==
  ASSUME NEW s, NEW b, LessCaches(s, b), NEW c, NEW i, NEW v
  PROVE  LessCaches(evict_l1_d_way(s, c, i, v), b)
PROOF
<1> DEFINE old == s.l1d[c][i].way[v]
           l == l1_to_addr(old.tag, i)
           j == l2_to_index(l)
           ways == find_way(s.l2[j], l2_to_tag(l))
           w == first(ways)
           e == event("L1D_EVICT", c, 1, i, v, l, old.state, INVALID, old.data)
           way == s.l2[j].way[w]
           e2 == IF old.state = MODIFIED THEN Mesi!l2_cache_write_way(way, c, old.data)
                                         ELSE Mesi!release_d(way, c)
           t == [s EXCEPT !.l2[j].way[w] = e2]
           u == [t EXCEPT !.l1d[c][i].way[v] = invalidated(@)]
<1>1. evict_l1_d_way(s, c, i, v) =
        IF old.state = INVALID THEN s
        ELSE IF ways = {} THEN [s EXCEPT !.abort = "inclusion"]
        ELSE emit(u, e)
  BY DEF evict_l1_d_way
<1>2. ASSUME ways # {} PROVE LessCaches(t, b)
  <2>1. j \in L2Sets /\ w \in Plru2!Ways => Tame(e2, way, b.l2[j].way[w])
    <3> SUFFICES ASSUME j \in L2Sets, w \in Plru2!Ways PROVE Tame(e2, way, b.l2[j].way[w])
      BY Zenon
    <3>1. b.l2[j].way[w].state # INVALID
      BY <1>2, L2Found, Zenon DEF LessCaches
    <3>2. Tame(way, way, b.l2[j].way[w])
      BY L2WayTameIn, Zenon
    <3> HIDE DEF way, l, j, w, ways, old
    <3>3. QED
      BY <3>1, <3>2 DEF Tame, Mesi!l2_cache_write_way, Mesi!release_d, Mesi!last_sharer_gone
  <2> HIDE DEF e2, way, j, w
  <2>2. QED
    BY <2>1, L2WayChanged, Zenon DEF way
<1>3. ASSUME ways # {} PROVE LessCaches(u, b)
  <2> HIDE DEF t
  <2>1. QED
    BY <1>2, <1>3, DWayInvalidated
<1> HIDE DEF u
<1>4. QED
  BY <1>1, <1>3, EmittedLess, AbortedLess

LEMMA EvictIWay ==
  ASSUME NEW s, NEW b, LessCaches(s, b), NEW c, NEW i, NEW v
  PROVE  LessCaches(evict_l1_i_way(s, c, i, v), b)
PROOF
<1> DEFINE old == s.l1i[c][i].way[v]
           l == l1_to_addr(old.tag, i)
           j == l2_to_index(l)
           ways == find_way(s.l2[j], l2_to_tag(l))
           w == first(ways)
           e == event("L1D_EVICT", c, 1, i, v, l, old.state, INVALID, old.data)
           way == s.l2[j].way[w]
           e2 == Mesi!release_i(way, c)
           t == [s EXCEPT !.l2[j].way[w] = e2]
           u == [t EXCEPT !.l1i[c][i].way[v] = invalidated(@)]
<1>1. evict_l1_i_way(s, c, i, v) =
        IF old.state = INVALID THEN s
        ELSE IF ways = {} THEN [s EXCEPT !.abort = "inclusion"]
        ELSE emit(u, e)
  BY DEF evict_l1_i_way
<1>2. ASSUME ways # {} PROVE LessCaches(t, b)
  <2>1. j \in L2Sets /\ w \in Plru2!Ways => Tame(e2, way, b.l2[j].way[w])
    <3> SUFFICES ASSUME j \in L2Sets, w \in Plru2!Ways PROVE Tame(e2, way, b.l2[j].way[w])
      BY Zenon
    <3>1. b.l2[j].way[w].state # INVALID
      BY <1>2, L2Found, Zenon DEF LessCaches
    <3>2. Tame(way, way, b.l2[j].way[w])
      BY L2WayTameIn, Zenon
    <3> HIDE DEF way, l, j, w, ways, old
    <3>3. QED
      BY <3>1, <3>2 DEF Tame, Mesi!release_i, Mesi!last_sharer_gone
  <2> HIDE DEF e2, way, j, w
  <2>2. QED
    BY <2>1, L2WayChanged, Zenon DEF way
<1>3. ASSUME ways # {} PROVE LessCaches(u, b)
  <2> HIDE DEF t
  <2>1. QED
    BY <1>2, <1>3, IWayInvalidated
<1> HIDE DEF u
<1>4. QED
  BY <1>1, <1>3, EmittedLess, AbortedLess

LEMMA DropL2 ==
  ASSUME NEW s, NEW b, LessCaches(s, b), NEW l, NEW j, NEW v
  PROVE  LessCaches(drop_l2(s, l, j, v), b)
PROOF
<1> DEFINE old == s.l2[j].way[v]
           e == event("L2_EVICT", 0, 2, j, v, l, old.state, INVALID, old.data)
           bytes == IF old.state = MODIFIED THEN old.data ELSE s.mem[l]
           t == [s EXCEPT !.mem[l] = bytes]
           e2 == [invalidated(old) EXCEPT !.d = {}, !.i = {}]
           u == [t EXCEPT !.l2[j].way[v] = e2]
<1>1. drop_l2(s, l, j, v) = emit(u, e)
  BY DEF drop_l2, LessCaches, Caches
<1>2. LessCaches(t, b) /\ t.l2 = s.l2
  BY DEF LessCaches, Caches
<1>3. LessCaches(u, b)
  <2>1. j \in L2Sets /\ v \in Plru2!Ways => Tame(e2, t.l2[j].way[v], b.l2[j].way[v])
    BY <1>2, L2WayTameIn, TameChanges, Zenon
  <2> HIDE DEF t, e2
  <2>2. QED
    BY <1>2, <2>1, L2WayChanged, Zenon
<1> HIDE DEF u
<1>4. QED
  BY <1>1, <1>3, EmittedLess

(***************************************************************************)
(* The loops.  A recursive function is a choice among the functions that   *)
(* satisfy its equation; a loop of finitely many rounds provides one.      *)
(***************************************************************************)
\* Round n of the loop named what, over the cores, a burst, events or steps.
Round(what, t, n, set, x, y, z) ==
  CASE what = "downgrade" -> IF n - 1 \in set THEN downgrade(t, n - 1, x, y, z) ELSE t
    [] what = "invalidate_d" -> IF n - 1 \in set THEN invalidate_d(t, n - 1, x, y, z) ELSE t
    [] what = "invalidate_i" -> IF n - 1 \in set THEN invalidate_i(t, n - 1, x) ELSE t
    [] what = "back_invalidate" ->
         IF n - 1 \in set THEN drop_i(drop_d(t, n - 1, x, y, z), n - 1, x, y, z) ELSE t
    [] what = "burst" -> IF x + n * y \in set THEN pf_fill_l2(t, x + n * y) ELSE t
    [] what = "forward" -> apply_event_forward(t, set[x + n])
    [] what = "backward" -> apply_event_backward(t, set[x + 1 - n])
    [] what = "autoplay" -> stop_after(t)

IsLoop(f, N, s, what, set, x, y, z) ==
  /\ f = [n \in 0 .. N |-> f[n]]
  /\ \A n \in 0 .. N : f[n] = IF n = 0 THEN s ELSE Round(what, f[n - 1], n, set, x, y, z)

LEMMA LoopExists ==
  ASSUME NEW N \in Nat, NEW s, NEW what, NEW set, NEW x, NEW y, NEW z
  PROVE  \E f : IsLoop(f, N, s, what, set, x, y, z)
PROOF
<1> DEFINE G(f, k) == IsLoop(f, k, s, what, set, x, y, z)
           S == {k \in 0 .. N : \E f : G(f, k)}
<1>1. 0 \in S
  <2> DEFINE f == [n \in 0 .. 0 |-> s]
  <2>1. G(f, 0)
    BY DEF IsLoop
  <2> HIDE DEF f, G
  <2>2. QED
    BY <2>1
<1>2. ASSUME NEW k \in 1 .. N, k - 1 \in S PROVE k \in S
  <2>1. PICK f : G(f, k - 1)
    BY <1>2
  <2> DEFINE g == [n \in 0 .. k |->
                     IF n = k THEN Round(what, f[k - 1], k, set, x, y, z) ELSE f[n]]
  <2>2. \A n \in 0 .. k - 1 :
          f[n] = IF n = 0 THEN s ELSE Round(what, f[n - 1], n, set, x, y, z)
    BY <2>1 DEF IsLoop
  <2>3. /\ \A n \in 0 .. k - 1 : g[n] = f[n]
        /\ g[k] = Round(what, f[k - 1], k, set, x, y, z)
        /\ k \in Nat /\ k # 0 /\ k - 1 \in 0 .. k - 1
    OBVIOUS
  <2> HIDE DEF g
  <2>4. ASSUME NEW n \in 0 .. k
        PROVE  g[n] = IF n = 0 THEN s ELSE Round(what, g[n - 1], n, set, x, y, z)
    <3>1. CASE n = k
      BY <2>3, <3>1
    <3>2. CASE n # k
      <4>1. n \in 0 .. k - 1 /\ (n # 0 => n - 1 \in 0 .. k - 1)
        BY <3>2
      <4>2. QED
        BY <2>2, <2>3, <4>1
    <3>3. QED
      BY <3>1, <3>2
  <2>5. G(g, k)
    <3>1. g = [n \in 0 .. k |-> g[n]]
      BY DEF g
    <3>2. QED
      BY <2>4, <3>1 DEF IsLoop
  <2> HIDE DEF G
  <2>6. QED
    BY <2>5
<1>3. N \in S
  <2> HIDE DEF S
  <2>1. 0 .. N \subseteq S
    BY <1>1, <1>2, UpTo
  <2>2. QED
    BY <2>1
<1>4. QED
  BY <1>3

LEMMA Rounds ==
  ASSUME NEW N \in Nat, NEW f, NEW s, NEW what, NEW set, NEW x, NEW y, NEW z,
         IsLoop(f, N, s, what, set, x, y, z)
  PROVE  f[0] = s /\ \A n \in 1 .. N : f[n] = Round(what, f[n - 1], n, set, x, y, z)
PROOF
<1>1. \A n \in 0 .. N : f[n] = IF n = 0 THEN s ELSE Round(what, f[n - 1], n, set, x, y, z)
  BY DEF IsLoop
<1>2. QED
  BY <1>1

\* What every round keeps holds after the last.
LEMMA LoopLess ==
  ASSUME NEW N \in Nat, NEW f, NEW b, LessCaches(f[0], b),
         \A n \in 1 .. N : LessCaches(f[n - 1], b) => LessCaches(f[n], b)
  PROVE  LessCaches(f[N], b)
PROOF
<1> DEFINE S == {n \in 0 .. N : LessCaches(f[n], b)}
<1>1. 0 \in S /\ \A n \in 1 .. N : n - 1 \in S => n \in S
  OBVIOUS
<1> HIDE DEF S
<1>2. N \in S
  BY <1>1, UpTo
<1>3. QED
  BY <1>2 DEF S

LEMMA DowngradeRounds ==
  ASSUME NEW s, NEW sharers, NEW l, NEW j, NEW w
  PROVE  \E f : /\ snoop_downgrade_peers(s, sharers, l, j, w) = f[NUM_CORES]
               /\ IsLoop(f, NUM_CORES, [s EXCEPT !.l2[j].way[w].state = SHARED], "downgrade", sharers, l, j, w)
PROOF
<1> DEFINE t == [s EXCEPT !.l2[j].way[w].state = SHARED]
           F(f) == [n \in 0 .. NUM_CORES |->
                      IF n = 0 THEN t
                      ELSE IF n - 1 \in sharers THEN downgrade(f[n - 1], n - 1, l, j, w) ELSE f[n - 1]]
           after == CHOOSE f : f = F(f)
<1>1. snoop_downgrade_peers(s, sharers, l, j, w) = after[NUM_CORES]
  BY DEF snoop_downgrade_peers, for_each
<1> HIDE DEF t
<1>2. NUM_CORES \in Nat
  BY GeometryAssumption
<1>3. \E f : f = F(f)
  <2>1. PICK f : IsLoop(f, NUM_CORES, t, "downgrade", sharers, l, j, w)
    BY <1>2, LoopExists
  <2>2. f = [n \in 0 .. NUM_CORES |-> f[n]]
    BY <2>1 DEF IsLoop
  <2>3. ASSUME NEW n \in 0 .. NUM_CORES
        PROVE  f[n] = IF n = 0 THEN t ELSE IF n - 1 \in sharers THEN downgrade(f[n - 1], n - 1, l, j, w) ELSE f[n - 1]
    BY <2>1 DEF IsLoop, Round
  <2>4. QED
    BY <2>2, <2>3
<1> HIDE DEF F
<1>4. after = F(after)
  BY <1>3
<1> HIDE DEF after
<1>5. IsLoop(after, NUM_CORES, t, "downgrade", sharers, l, j, w)
  <2>1. after = [n \in 0 .. NUM_CORES |-> after[n]]
    BY <1>4 DEF F
  <2>2. ASSUME NEW n \in 0 .. NUM_CORES
        PROVE  after[n] = IF n = 0 THEN t ELSE Round("downgrade", after[n - 1], n, sharers, l, j, w)
    BY <1>4 DEF F, Round
  <2>3. QED
    BY <2>1, <2>2 DEF IsLoop
<1>6. QED
  BY <1>1, <1>5 DEF t

LEMMA DowngradeLoop ==
  ASSUME NEW s, NEW b, LessCaches(s, b), NEW sharers, NEW l, NEW j, NEW w,
         b.l2[j].way[w].state # INVALID
  PROVE  LessCaches(snoop_downgrade_peers(s, sharers, l, j, w), b)
PROOF
<1> DEFINE t == [s EXCEPT !.l2[j].way[w].state = SHARED]
           e2 == [s.l2[j].way[w] EXCEPT !.state = SHARED]
<1>1. LessCaches(t, b)
  <2>1. j \in L2Sets /\ w \in Plru2!Ways => Tame(e2, s.l2[j].way[w], b.l2[j].way[w])
    BY L2WayTameIn, TameChanges, Zenon
  <2> HIDE DEF e2
  <2>2. QED
    BY <2>1, L2WayChanged, Zenon DEF e2
<1> HIDE DEF t
<1>2. NUM_CORES \in Nat
  BY GeometryAssumption
<1>3. PICK f : /\ snoop_downgrade_peers(s, sharers, l, j, w) = f[NUM_CORES]
               /\ IsLoop(f, NUM_CORES, t, "downgrade", sharers, l, j, w)
  BY DowngradeRounds DEF t
<1>4. LessCaches(f[0], b)
  BY <1>1, <1>2, <1>3, Rounds
<1>5. ASSUME NEW n \in 1 .. NUM_CORES, LessCaches(f[n - 1], b)
      PROVE  LessCaches(f[n], b)
  BY <1>2, <1>3, <1>5, Downgrade, Rounds DEF Round
<1>6. QED
  BY <1>2, <1>3, <1>4, <1>5, LoopLess

LEMMA InvalidateRounds ==
  ASSUME NEW s, NEW set, NEW l, NEW j, NEW w
  PROVE  \E f : /\ snoop_invalidate_peers(s, set, l, j, w) = f[NUM_CORES]
               /\ IsLoop(f, NUM_CORES, s, "invalidate_d", set, l, j, w)
PROOF
<1> DEFINE F(f) == [n \in 0 .. NUM_CORES |->
                      IF n = 0 THEN s
                      ELSE IF n - 1 \in set THEN invalidate_d(f[n - 1], n - 1, l, j, w) ELSE f[n - 1]]
           after == CHOOSE f : f = F(f)
<1>1. snoop_invalidate_peers(s, set, l, j, w) = after[NUM_CORES]
  BY DEF snoop_invalidate_peers, for_each
<1>2. NUM_CORES \in Nat
  BY GeometryAssumption
<1>3. \E f : f = F(f)
  <2>1. PICK f : IsLoop(f, NUM_CORES, s, "invalidate_d", set, l, j, w)
    BY <1>2, LoopExists
  <2>2. f = [n \in 0 .. NUM_CORES |-> f[n]]
    BY <2>1 DEF IsLoop
  <2>3. ASSUME NEW n \in 0 .. NUM_CORES
        PROVE  f[n] = IF n = 0 THEN s ELSE IF n - 1 \in set THEN invalidate_d(f[n - 1], n - 1, l, j, w) ELSE f[n - 1]
    BY <2>1 DEF IsLoop, Round
  <2>4. QED
    BY <2>2, <2>3
<1> HIDE DEF F
<1>4. after = F(after)
  BY <1>3
<1> HIDE DEF after
<1>5. IsLoop(after, NUM_CORES, s, "invalidate_d", set, l, j, w)
  <2>1. after = [n \in 0 .. NUM_CORES |-> after[n]]
    BY <1>4 DEF F
  <2>2. ASSUME NEW n \in 0 .. NUM_CORES
        PROVE  after[n] = IF n = 0 THEN s ELSE Round("invalidate_d", after[n - 1], n, set, l, j, w)
    BY <1>4 DEF F, Round
  <2>3. QED
    BY <2>1, <2>2 DEF IsLoop
<1>6. QED
  BY <1>1, <1>5

LEMMA InvalidateLoop ==
  ASSUME NEW s, NEW b, LessCaches(s, b), NEW set, NEW l, NEW j, NEW w
  PROVE  LessCaches(snoop_invalidate_peers(s, set, l, j, w), b)
PROOF
<1>1. NUM_CORES \in Nat
  BY GeometryAssumption
<1>2. PICK f : /\ snoop_invalidate_peers(s, set, l, j, w) = f[NUM_CORES]
               /\ IsLoop(f, NUM_CORES, s, "invalidate_d", set, l, j, w)
  BY InvalidateRounds
<1>3. LessCaches(f[0], b)
  BY <1>1, <1>2, Rounds
<1>4. ASSUME NEW n \in 1 .. NUM_CORES, LessCaches(f[n - 1], b)
      PROVE  LessCaches(f[n], b)
  BY <1>1, <1>2, <1>4, InvalidateD, Rounds DEF Round
<1>5. QED
  BY <1>1, <1>2, <1>3, <1>4, LoopLess

LEMMA InvalidateIRounds ==
  ASSUME NEW s, NEW l, NEW j, NEW w
  PROVE  \E f : /\ snoop_invalidate_peers_i(s, l, j, w) =
                    [f[NUM_CORES] EXCEPT !.l2[j].way[w].i = {}]
               /\ IsLoop(f, NUM_CORES, s, "invalidate_i", s.l2[j].way[w].i, l, l, l)
PROOF
<1> DEFINE set == s.l2[j].way[w].i
           F(f) == [n \in 0 .. NUM_CORES |->
                      IF n = 0 THEN s
                      ELSE IF n - 1 \in set THEN invalidate_i(f[n - 1], n - 1, l) ELSE f[n - 1]]
           after == CHOOSE f : f = F(f)
<1>1. snoop_invalidate_peers_i(s, l, j, w) = [after[NUM_CORES] EXCEPT !.l2[j].way[w].i = {}]
  BY DEF snoop_invalidate_peers_i, for_each
<1> HIDE DEF set
<1>2. NUM_CORES \in Nat
  BY GeometryAssumption
<1>3. \E f : f = F(f)
  <2>1. PICK f : IsLoop(f, NUM_CORES, s, "invalidate_i", set, l, l, l)
    BY <1>2, LoopExists
  <2>2. f = [n \in 0 .. NUM_CORES |-> f[n]]
    BY <2>1 DEF IsLoop
  <2>3. ASSUME NEW n \in 0 .. NUM_CORES
        PROVE  f[n] = IF n = 0 THEN s
                      ELSE IF n - 1 \in set THEN invalidate_i(f[n - 1], n - 1, l) ELSE f[n - 1]
    BY <2>1 DEF IsLoop, Round
  <2>4. QED
    BY <2>2, <2>3
<1> HIDE DEF F
<1>4. after = F(after)
  BY <1>3
<1> HIDE DEF after
<1>5. IsLoop(after, NUM_CORES, s, "invalidate_i", set, l, l, l)
  <2>1. after = [n \in 0 .. NUM_CORES |-> after[n]]
    BY <1>4 DEF F
  <2>2. ASSUME NEW n \in 0 .. NUM_CORES
        PROVE  after[n] = IF n = 0 THEN s
                          ELSE Round("invalidate_i", after[n - 1], n, set, l, l, l)
    BY <1>4 DEF F, Round
  <2>3. QED
    BY <2>1, <2>2 DEF IsLoop
<1>6. QED
  BY <1>1, <1>5 DEF set

LEMMA InvalidateILoop ==
  ASSUME NEW s, NEW b, LessCaches(s, b), NEW l, NEW j, NEW w
  PROVE  LessCaches(snoop_invalidate_peers_i(s, l, j, w), b)
PROOF
<1>1. NUM_CORES \in Nat
  BY GeometryAssumption
<1>2. PICK f : /\ snoop_invalidate_peers_i(s, l, j, w) =
                    [f[NUM_CORES] EXCEPT !.l2[j].way[w].i = {}]
               /\ IsLoop(f, NUM_CORES, s, "invalidate_i", s.l2[j].way[w].i, l, l, l)
  BY InvalidateIRounds
<1>3. LessCaches(f[0], b)
  BY <1>1, <1>2, Rounds
<1>4. ASSUME NEW n \in 1 .. NUM_CORES, LessCaches(f[n - 1], b)
      PROVE  LessCaches(f[n], b)
  BY <1>1, <1>2, <1>4, InvalidateI, Rounds DEF Round
<1> DEFINE t == f[NUM_CORES]
           e2 == [t.l2[j].way[w] EXCEPT !.i = {}]
<1>5. LessCaches(t, b)
  BY <1>1, <1>3, <1>4, LoopLess
<1> HIDE DEF t
<1>6. j \in L2Sets /\ w \in Plru2!Ways => Tame(e2, t.l2[j].way[w], b.l2[j].way[w])
  BY <1>5, L2WayTameIn, TameChanges, Zenon
<1> HIDE DEF e2
<1>7. LessCaches([t EXCEPT !.l2[j].way[w] = e2], b)
  BY <1>5, <1>6, L2WayChanged
<1>8. QED
  BY <1>2, <1>7 DEF t, e2

LEMMA BackInvalidateRounds ==
  ASSUME NEW s, NEW l, NEW j, NEW v
  PROVE  \E f : /\ back_invalidate(s, l, j, v) = f[NUM_CORES]
               /\ IsLoop(f, NUM_CORES, s, "back_invalidate",
                         s.l2[j].way[v].d \cup s.l2[j].way[v].i, l, j, v)
PROOF
<1> DEFINE set == s.l2[j].way[v].d \cup s.l2[j].way[v].i
           F(f) == [n \in 0 .. NUM_CORES |->
                      IF n = 0 THEN s
                      ELSE IF n - 1 \in set
                             THEN drop_i(drop_d(f[n - 1], n - 1, l, j, v), n - 1, l, j, v) ELSE f[n - 1]]
           after == CHOOSE f : f = F(f)
<1>1. back_invalidate(s, l, j, v) = after[NUM_CORES]
  BY DEF back_invalidate, for_each
<1> HIDE DEF set
<1>2. NUM_CORES \in Nat
  BY GeometryAssumption
<1>3. \E f : f = F(f)
  <2>1. PICK f : IsLoop(f, NUM_CORES, s, "back_invalidate", set, l, j, v)
    BY <1>2, LoopExists
  <2>2. f = [n \in 0 .. NUM_CORES |-> f[n]]
    BY <2>1 DEF IsLoop
  <2>3. ASSUME NEW n \in 0 .. NUM_CORES
        PROVE  f[n] = IF n = 0 THEN s ELSE IF n - 1 \in set
                             THEN drop_i(drop_d(f[n - 1], n - 1, l, j, v), n - 1, l, j, v) ELSE f[n - 1]
    BY <2>1 DEF IsLoop, Round
  <2>4. QED
    BY <2>2, <2>3
<1> HIDE DEF F
<1>4. after = F(after)
  BY <1>3
<1> HIDE DEF after
<1>5. IsLoop(after, NUM_CORES, s, "back_invalidate", set, l, j, v)
  <2>1. after = [n \in 0 .. NUM_CORES |-> after[n]]
    BY <1>4 DEF F
  <2>2. ASSUME NEW n \in 0 .. NUM_CORES
        PROVE  after[n] = IF n = 0 THEN s ELSE Round("back_invalidate", after[n - 1], n, set, l, j, v)
    BY <1>4 DEF F, Round
  <2>3. QED
    BY <2>1, <2>2 DEF IsLoop
<1>6. QED
  BY <1>1, <1>5 DEF set

LEMMA BackInvalidateLoop ==
  ASSUME NEW s, NEW b, LessCaches(s, b), NEW l, NEW j, NEW v,
         b.l2[j].way[v].state # INVALID
  PROVE  LessCaches(back_invalidate(s, l, j, v), b)
PROOF
<1>1. NUM_CORES \in Nat
  BY GeometryAssumption
<1>2. PICK f : /\ back_invalidate(s, l, j, v) = f[NUM_CORES]
               /\ IsLoop(f, NUM_CORES, s, "back_invalidate", 
                         s.l2[j].way[v].d \cup s.l2[j].way[v].i, l, j, v)
  BY BackInvalidateRounds
<1>3. LessCaches(f[0], b)
  BY <1>1, <1>2, Rounds
<1>4. ASSUME NEW n \in 1 .. NUM_CORES, LessCaches(f[n - 1], b)
      PROVE  LessCaches(f[n], b)
  BY <1>1, <1>2, <1>4, DropD, DropI, Rounds DEF Round
<1>5. QED
  BY <1>1, <1>2, <1>3, <1>4, LoopLess

(***************************************************************************)
(* Evictions.                                                              *)
(***************************************************************************)
LEMMA EvictD ==
  ASSUME NEW s, NEW b, LessCaches(s, b), NEW c, NEW i
  PROVE  LessCaches(evict_l1_d(s, c, i), b)
BY EvictDWay DEF evict_l1_d

LEMMA EvictI ==
  ASSUME NEW s, NEW b, LessCaches(s, b), NEW c, NEW i
  PROVE  LessCaches(evict_l1_i(s, c, i), b)
BY EvictIWay DEF evict_l1_i

\* The victim is valid, so a sharer's dirty bytes revive nothing.
LEMMA EvictL2 ==
  ASSUME NEW s, LessCaches(s, s), NEW j
  PROVE  LessCaches(evict_l2(s, j), s)
PROOF
<1> DEFINE v == l2_room(s.l2[j])
           l == l2_to_addr(s.l2[j].way[v].tag, j)
<1>1. evict_l2(s, j) = IF s.l2[j].way[v].state = INVALID THEN s
                       ELSE drop_l2(back_invalidate(s, l, j, v), l, j, v)
  BY DEF evict_l2, evict_l2_way
<1> HIDE DEF v, l
<1>2. QED
  BY <1>1, BackInvalidateLoop, DropL2

(***************************************************************************)
(* A set changes.                                                          *)
(***************************************************************************)
LEMMA DSetChanged ==
  ASSUME NEW s, NEW b, LessCaches(s, b), NEW c, NEW i, NEW set,
         c \in Cores /\ i \in L1Sets =>
           SetShape(set, Plru1!Ways) /\ Sheds(set, b.l1d[c][i], Plru1!Ways)
  PROVE  LessCaches([s EXCEPT !.l1d[c][i] = set], b)
PROOF
<1> DEFINE t == [s EXCEPT !.l1d[c][i] = set]
<1>1. /\ Caches \subseteq DOMAIN t
      /\ L1Put(t.l1d, s.l1d, c, i, set)
      /\ t.l1i = s.l1i
      /\ t.l2 = s.l2
  BY DEF LessCaches, Caches, L1Put
<1> HIDE DEF t
<1>2. L1Less(t.l1d, b.l1d)
  BY <1>1, L1Change DEF LessCaches
<1>3. QED
  BY <1>1, <1>2 DEF LessCaches, t

LEMMA ISetChanged ==
  ASSUME NEW s, NEW b, LessCaches(s, b), NEW c, NEW i, NEW set,
         c \in Cores /\ i \in L1Sets =>
           SetShape(set, Plru1!Ways) /\ Sheds(set, b.l1i[c][i], Plru1!Ways)
  PROVE  LessCaches([s EXCEPT !.l1i[c][i] = set], b)
PROOF
<1> DEFINE t == [s EXCEPT !.l1i[c][i] = set]
<1>1. /\ Caches \subseteq DOMAIN t
      /\ L1Put(t.l1i, s.l1i, c, i, set)
      /\ t.l1d = s.l1d
      /\ t.l2 = s.l2
  BY DEF LessCaches, Caches, L1Put
<1> HIDE DEF t
<1>2. L1Less(t.l1i, b.l1i)
  BY <1>1, L1Change DEF LessCaches
<1>3. QED
  BY <1>1, <1>2 DEF LessCaches, t

LEMMA L2SetChanged ==
  ASSUME NEW s, NEW b, LessCaches(s, b), NEW j, NEW set,
         j \in L2Sets => SetShape(set, Plru2!Ways) /\ Sheds(set, b.l2[j], Plru2!Ways)
  PROVE  LessCaches([s EXCEPT !.l2[j] = set], b)
PROOF
<1> DEFINE t == [s EXCEPT !.l2[j] = set]
<1>1. /\ Caches \subseteq DOMAIN t
      /\ L2Put(t.l2, s.l2, j, set)
      /\ t.l1d = s.l1d
      /\ t.l1i = s.l1i
  BY DEF LessCaches, Caches, L2Put
<1> HIDE DEF t
<1>2. L2Less(t.l2, b.l2)
  BY <1>1, L2Change DEF LessCaches
<1>3. QED
  BY <1>1, <1>2 DEF LessCaches, t

\* What is known of the sets of a cache that only shed lines.
LEMMA SetsOfLess ==
  ASSUME NEW s, NEW b, LessCaches(s, b)
  PROVE  /\ \A c \in Cores, i \in L1Sets :
              /\ SetShape(s.l1d[c][i], Plru1!Ways)
              /\ Sheds(s.l1d[c][i], b.l1d[c][i], Plru1!Ways)
              /\ SetShape(s.l1i[c][i], Plru1!Ways)
              /\ Sheds(s.l1i[c][i], b.l1i[c][i], Plru1!Ways)
         /\ \A j \in L2Sets :
              /\ SetShape(s.l2[j], Plru2!Ways)
              /\ Sheds(s.l2[j], b.l2[j], Plru2!Ways)
BY DEF LessCaches, L1Less, L1Shape, L2Less, L2Shape

LEMMA DTouched ==
  ASSUME NEW s, NEW b, LessCaches(s, b), NEW c, NEW i, NEW v
  PROVE  LessCaches([s EXCEPT !.l1d[c][i] = l1_touch(@, v)], b)
PROOF
<1> DEFINE set == l1_touch(s.l1d[c][i], v)
<1>1. c \in Cores /\ i \in L1Sets =>
        SetShape(set, Plru1!Ways) /\ Sheds(set, b.l1d[c][i], Plru1!Ways)
  BY SetsOfLess, Touched DEF l1_touch
<1> HIDE DEF set
<1>2. QED
  BY <1>1, DSetChanged DEF set

LEMMA ITouched ==
  ASSUME NEW s, NEW b, LessCaches(s, b), NEW c, NEW i, NEW v
  PROVE  LessCaches([s EXCEPT !.l1i[c][i] = l1_touch(@, v)], b)
PROOF
<1> DEFINE set == l1_touch(s.l1i[c][i], v)
<1>1. c \in Cores /\ i \in L1Sets =>
        SetShape(set, Plru1!Ways) /\ Sheds(set, b.l1i[c][i], Plru1!Ways)
  BY SetsOfLess, Touched DEF l1_touch
<1> HIDE DEF set
<1>2. QED
  BY <1>1, ISetChanged DEF set

LEMMA L2Touched ==
  ASSUME NEW s, NEW b, LessCaches(s, b), NEW j, NEW w
  PROVE  LessCaches([s EXCEPT !.l2[j] = l2_touch(@, w)], b)
PROOF
<1> DEFINE set == l2_touch(s.l2[j], w)
<1>1. j \in L2Sets => SetShape(set, Plru2!Ways) /\ Sheds(set, b.l2[j], Plru2!Ways)
  BY SetsOfLess, Touched DEF l2_touch
<1> HIDE DEF set
<1>2. QED
  BY <1>1, L2SetChanged DEF set

\* A way of the L2 changes and is touched.
LEMMA L2WayUsed ==
  ASSUME NEW s, NEW b, LessCaches(s, b), NEW j, NEW w, NEW e,
         j \in L2Sets /\ w \in Plru2!Ways => Tame(e, s.l2[j].way[w], b.l2[j].way[w])
  PROVE  LessCaches([s EXCEPT !.l2[j] = l2_touch([@ EXCEPT !.way[w] = e], w)], b)
PROOF
<1> DEFINE put == [s.l2[j] EXCEPT !.way[w] = e]
           set == l2_touch(put, w)
<1>1. j \in L2Sets => SetShape(put, Plru2!Ways) /\ Sheds(put, b.l2[j], Plru2!Ways)
  BY SetsOfLess, WayChanges
<1> HIDE DEF put
<1>2. j \in L2Sets => SetShape(set, Plru2!Ways) /\ Sheds(set, b.l2[j], Plru2!Ways)
  BY <1>1, Touched DEF l2_touch
<1> HIDE DEF set
<1>3. QED
  BY <1>2, L2SetChanged DEF set, put

(***************************************************************************)
(* Hierarchies in which no line has two ways, and an L1I holds code only.  *)
(***************************************************************************)
\* The lines core c fetches, and their tags in set i of its L1I.
Code(c) == {l \in Lines : <<"fetch", l>> \in workload[c]}
CodeTags(c, i) == {l1_to_tag(l) : l \in {m \in Code(c) : l1_to_index(m) = i}}

Tagged(set, tags) ==
  \A w \in Plru1!Ways : set.way[w].state # INVALID => set.way[w].tag \in tags

CodeOnly(s) == \A c \in Cores, i \in L1Sets : Tagged(s.l1i[c][i], CodeTags(c, i))

Single(s) ==
  /\ Caches \subseteq DOMAIN s
  /\ L1Shape(s.l1d) /\ L1Shape(s.l1i) /\ L2Shape(s.l2)
  /\ \A c \in Cores, i \in L1Sets :
       Distinct(s.l1d[c][i], Plru1!Ways) /\ Distinct(s.l1i[c][i], Plru1!Ways)
  /\ \A j \in L2Sets : Distinct(s.l2[j], Plru2!Ways)
  /\ CodeOnly(s)

MissesD(s, c, l) ==
  c \in Cores /\ l1_to_index(l) \in L1Sets =>
    find_way(s.l1d[c][l1_to_index(l)], l1_to_tag(l)) = {}

MissesI(s, c, l) ==
  c \in Cores /\ l1_to_index(l) \in L1Sets =>
    find_way(s.l1i[c][l1_to_index(l)], l1_to_tag(l)) = {}

MissesL2(s, l) ==
  l2_to_index(l) \in L2Sets => find_way(s.l2[l2_to_index(l)], l2_to_tag(l)) = {}

LEMMA SingleIsLess ==
  ASSUME NEW s, Single(s)
  PROVE  LessCaches(s, s)
BY DEF Single, LessCaches, L1Less, L2Less, Sheds

LEMMA SameSingle ==
  ASSUME NEW t, NEW s, SameCaches(t, s), Single(s)
  PROVE  Single(t)
BY DEF SameCaches, Single, CodeOnly

LEMMA EmittedSingle ==
  ASSUME NEW s, NEW e, Single(s)
  PROVE  Single(emit(s, e))
BY EmittedSame, SameSingle DEF Single

LEMMA LessSingle ==
  ASSUME NEW t, NEW s, LessCaches(t, s), Single(s)
  PROVE  Single(t)
PROOF
<1>1. \A c \in Cores, i \in L1Sets :
        Distinct(t.l1d[c][i], Plru1!Ways) /\ Distinct(t.l1i[c][i], Plru1!Ways)
  BY SetsOfLess, ShedsDistinct DEF Single
<1>2. \A j \in L2Sets : Distinct(t.l2[j], Plru2!Ways)
  BY SetsOfLess, ShedsDistinct DEF Single
<1>3. CodeOnly(t)
  BY SetsOfLess DEF Single, CodeOnly, Tagged, Sheds
<1>4. QED
  BY <1>1, <1>2, <1>3 DEF Single, LessCaches, L1Less, L2Less

LEMMA LessMisses ==
  ASSUME NEW t, NEW s, LessCaches(t, s), Single(s), NEW c, NEW l
  PROVE  /\ MissesD(s, c, l) => MissesD(t, c, l)
         /\ MissesI(s, c, l) => MissesI(t, c, l)
         /\ MissesL2(s, l) => MissesL2(t, l)
PROOF
<1>1. /\ \A k \in Cores, i \in L1Sets :
           SetShape(s.l1d[k][i], Plru1!Ways) /\ SetShape(s.l1i[k][i], Plru1!Ways)
      /\ \A j \in L2Sets : SetShape(s.l2[j], Plru2!Ways)
  BY DEF Single, L1Shape, L2Shape
<1>2. \A k \in Cores, i \in L1Sets, tag \in {l1_to_tag(l)} :
        /\ find_way(t.l1d[k][i], tag) \subseteq find_way(s.l1d[k][i], tag)
        /\ find_way(t.l1i[k][i], tag) \subseteq find_way(s.l1i[k][i], tag)
  BY <1>1, SetsOfLess, ShedsFinds
<1>3. \A j \in L2Sets, tag \in {l2_to_tag(l)} :
        find_way(t.l2[j], tag) \subseteq find_way(s.l2[j], tag)
  BY <1>1, SetsOfLess, ShedsFinds
<1>4. QED
  BY <1>2, <1>3 DEF MissesD, MissesI, MissesL2

(***************************************************************************)
(* Fills.                                                                  *)
(***************************************************************************)
LEMMA FilledL1 ==
  ASSUME NEW set, NEW w, NEW tag, NEW line, NEW state,
         SetShape(set, Plru1!Ways), Distinct(set, Plru1!Ways), find_way(set, tag) = {}
  PROVE  /\ SetShape(l1_cache_fill(set, w, tag, line, state), Plru1!Ways)
         /\ Distinct(l1_cache_fill(set, w, tag, line, state), Plru1!Ways)
PROOF
<1> DEFINE e == [tag |-> tag, state |-> state, data |-> line]
           put == [set EXCEPT !.way[w] = e]
<1>1. {"tag", "state"} \subseteq DOMAIN e /\ e.tag = tag
  OBVIOUS
<1> HIDE DEF e
<1>2. SetShape(put, Plru1!Ways) /\ Distinct(put, Plru1!Ways)
  BY <1>1, WayFilled
<1>3. Sheds(put, put, Plru1!Ways)
  BY DEF Sheds
<1>4. l1_cache_fill(set, w, tag, line, state) = l1_touch(put, w)
  BY DEF l1_cache_fill, e
<1> HIDE DEF put
<1>5. /\ SetShape(l1_touch(put, w), Plru1!Ways)
      /\ Sheds(l1_touch(put, w), put, Plru1!Ways)
  BY <1>2, <1>3, Touched DEF l1_touch
<1>6. QED
  BY <1>2, <1>4, <1>5, ShedsDistinct

LEMMA FilledL2 ==
  ASSUME NEW set, NEW w, NEW tag, NEW line, NEW state, NEW d, NEW i,
         SetShape(set, Plru2!Ways), Distinct(set, Plru2!Ways), find_way(set, tag) = {}
  PROVE  /\ SetShape(l2_filled(set, w, tag, line, state, d, i), Plru2!Ways)
         /\ Distinct(l2_filled(set, w, tag, line, state, d, i), Plru2!Ways)
PROOF
<1> DEFINE e == [tag |-> tag, state |-> state, data |-> line, d |-> d, i |-> i]
           put == [set EXCEPT !.way[w] = e]
<1>1. {"tag", "state"} \subseteq DOMAIN e /\ e.tag = tag
  OBVIOUS
<1> HIDE DEF e
<1>2. SetShape(put, Plru2!Ways) /\ Distinct(put, Plru2!Ways)
  BY <1>1, WayFilled
<1>3. Sheds(put, put, Plru2!Ways)
  BY DEF Sheds
<1>4. l2_filled(set, w, tag, line, state, d, i) = l2_touch(put, w)
  BY DEF l2_filled, e
<1> HIDE DEF put
<1>5. /\ SetShape(l2_touch(put, w), Plru2!Ways)
      /\ Sheds(l2_touch(put, w), put, Plru2!Ways)
  BY <1>2, <1>3, Touched DEF l2_touch
<1>6. QED
  BY <1>2, <1>4, <1>5, ShedsDistinct

LEMMA FillD ==
  ASSUME NEW s, Single(s), NEW c, NEW l, MissesD(s, c, l), NEW line, NEW state
  PROVE  /\ Single(l1d_fill(s, c, l, line, state))
         /\ l1d_fill(s, c, l, line, state).l2 = s.l2
         /\ l1d_fill(s, c, l, line, state).l1i = s.l1i
PROOF
<1> DEFINE i == l1_to_index(l)
           w == l1_room(s.l1d[c][i])
           e == event("L1D_FILL", c, 1, i, w, l, INVALID, state, line)
           set == l1_cache_fill(s.l1d[c][i], w, l1_to_tag(l), line, state)
           t == [s EXCEPT !.l1d[c][i] = set]
<1>1. l1d_fill(s, c, l, line, state) = emit(t, e)
  BY DEF l1d_fill
<1>2. /\ Caches \subseteq DOMAIN t
      /\ L1Put(t.l1d, s.l1d, c, i, set)
      /\ t.l1i = s.l1i
      /\ t.l2 = s.l2
  BY DEF Single, Caches, L1Put
<1>3. c \in Cores /\ i \in L1Sets => SetShape(set, Plru1!Ways) /\ Distinct(set, Plru1!Ways)
  BY FilledL1 DEF Single, L1Shape, MissesD
<1> HIDE DEF t, set, i, e
<1>4. /\ L1Shape(t.l1d)
      /\ \A k \in Cores, m \in L1Sets : Distinct(t.l1d[k][m], Plru1!Ways)
  BY <1>2, <1>3 DEF Single, L1Shape, L1Put
<1>5. Single(t)
  BY <1>2, <1>4 DEF Single, CodeOnly
<1>6. SameCaches(emit(t, e), t)
  BY <1>2, EmittedSame
<1>7. QED
  BY <1>1, <1>2, <1>5, <1>6, SameSingle DEF SameCaches

LEMMA FilledTagged ==
  ASSUME NEW set, SetShape(set, Plru1!Ways), NEW tags, Tagged(set, tags),
         NEW w, NEW tag \in tags, NEW line, NEW state
  PROVE  Tagged(l1_cache_fill(set, w, tag, line, state), tags)
PROOF
<1> DEFINE e == [tag |-> tag, state |-> state, data |-> line]
           put == [set EXCEPT !.way[w] = e]
<1>1. e.tag = tag
  OBVIOUS
<1> HIDE DEF e
<1>2. \A v \in Plru1!Ways : put.way[v] = IF v = w THEN e ELSE set.way[v]
  BY DEF SetShape
<1>3. "plru" \in DOMAIN put /\ "way" \in DOMAIN put
  BY DEF SetShape
<1>4. l1_cache_fill(set, w, tag, line, state) = l1_touch(put, w)
  BY DEF l1_cache_fill, e
<1> HIDE DEF put
<1>5. l1_touch(put, w).way = put.way
  BY <1>3 DEF l1_touch
<1>6. QED
  BY <1>1, <1>2, <1>4, <1>5 DEF Tagged

LEMMA FillI ==
  ASSUME NEW s, Single(s), NEW c, NEW l \in Code(c), MissesI(s, c, l), NEW line
  PROVE  Single(l1i_fill(s, c, l, line))
PROOF
<1> DEFINE i == l1_to_index(l)
           set == l1_cache_fill(s.l1i[c][i], l1_room(s.l1i[c][i]), l1_to_tag(l), line, SHARED)
           t == [s EXCEPT !.l1i[c][i] = set]
<1>1. l1i_fill(s, c, l, line) = t
  BY DEF l1i_fill
<1>2. /\ Caches \subseteq DOMAIN t
      /\ L1Put(t.l1i, s.l1i, c, i, set)
      /\ t.l1d = s.l1d
      /\ t.l2 = s.l2
  BY DEF Single, Caches, L1Put
<1>3. c \in Cores /\ i \in L1Sets => SetShape(set, Plru1!Ways) /\ Distinct(set, Plru1!Ways)
  BY FilledL1 DEF Single, L1Shape, MissesI
<1>4. c \in Cores /\ i \in L1Sets => Tagged(set, CodeTags(c, i))
  <2>1. l1_to_tag(l) \in CodeTags(c, i)
    BY DEF CodeTags
  <2> HIDE DEF i
  <2>2. c \in Cores /\ i \in L1Sets =>
          SetShape(s.l1i[c][i], Plru1!Ways) /\ Tagged(s.l1i[c][i], CodeTags(c, i))
    BY DEF Single, L1Shape, CodeOnly
  <2>3. QED
    BY <2>1, <2>2, FilledTagged
<1> HIDE DEF t, set, i
<1>5. /\ L1Shape(t.l1i)
      /\ \A k \in Cores, m \in L1Sets : Distinct(t.l1i[k][m], Plru1!Ways)
  BY <1>2, <1>3 DEF Single, L1Shape, L1Put
<1>6. CodeOnly(t)
  BY <1>2, <1>4 DEF Single, L1Shape, L1Put, CodeOnly
<1>7. QED
  BY <1>1, <1>2, <1>5, <1>6 DEF Single

LEMMA FillL2 ==
  ASSUME NEW s, Single(s), NEW l, MissesL2(s, l),
         NEW w, NEW line, NEW state, NEW d, NEW i
  PROVE  /\ Single(l2_cache_fill(s, l, w, line, state, d, i))
         /\ l2_cache_fill(s, l, w, line, state, d, i).l1d = s.l1d
         /\ l2_cache_fill(s, l, w, line, state, d, i).l1i = s.l1i
PROOF
<1> DEFINE j == l2_to_index(l)
           way == s.l2[j].way[w]
           a == [s EXCEPT !.abort = "fill_over_sharers"]
           set == l2_filled(s.l2[j], w, l2_to_tag(l), line, state, d, i)
           t == [s EXCEPT !.l2[j] = set]
<1>1. l2_cache_fill(s, l, w, line, state, d, i) = IF way.d \cup way.i # {} THEN a ELSE t
  BY DEF l2_cache_fill
<1>2. /\ Caches \subseteq DOMAIN t
      /\ L2Put(t.l2, s.l2, j, set)
      /\ t.l1d = s.l1d
      /\ t.l1i = s.l1i
      /\ SameCaches(a, s)
  BY DEF Single, Caches, L2Put, SameCaches
<1>3. j \in L2Sets => SetShape(set, Plru2!Ways) /\ Distinct(set, Plru2!Ways)
  BY FilledL2 DEF Single, L2Shape, MissesL2
<1> HIDE DEF t, a, set, j, way
<1>4. /\ L2Shape(t.l2)
      /\ \A m \in L2Sets : Distinct(t.l2[m], Plru2!Ways)
  BY <1>2, <1>3 DEF Single, L2Shape, L2Put
<1>5. Single(t)
  BY <1>2, <1>4 DEF Single, CodeOnly
<1>6. QED
  BY <1>1, <1>2, <1>5, SameSingle DEF SameCaches

(***************************************************************************)
(* Prefetching.                                                            *)
(***************************************************************************)
LEMMA PrefetchOne ==
  ASSUME NEW s, Single(s), NEW l
  PROVE  Single(pf_fill_l2(s, l))
PROOF
<1> DEFINE j == l2_to_index(l)
           t == evict_l2(s, j)
           w == l2_room(t.l2[j])
           u == l2_cache_fill(t, l, w, t.mem[l], EXCLUSIVE, {}, {})
           e == event("PREFETCH_L2", 0, 2, j, w, l, INVALID, EXCLUSIVE, t.mem[l])
<1>1. pf_fill_l2(s, l) = IF find_way(s.l2[j], l2_to_tag(l)) # {} THEN s ELSE emit(u, e)
  BY DEF pf_fill_l2, pf_make_room, pf_store
<1>2. LessCaches(t, s)
  BY SingleIsLess, EvictL2
<1>3. ASSUME find_way(s.l2[j], l2_to_tag(l)) = {} PROVE Single(emit(u, e))
  <2>1. MissesL2(t, l) /\ Single(t)
    BY <1>2, <1>3, LessMisses, LessSingle DEF MissesL2
  <2> HIDE DEF t, w, e
  <2>2. QED
    BY <2>1, FillL2, EmittedSingle
<1> HIDE DEF u, e, j
<1>4. QED
  BY <1>1, <1>3

LEMMA BurstRounds ==
  ASSUME NEW s, NEW head, NEW dir, NEW lines
  PROVE  \E f : /\ fill_burst(s, head, dir, lines) = f[PREFETCH_DISTANCE + 1]
               /\ IsLoop(f, PREFETCH_DISTANCE + 1, s, "burst", lines, head, dir, dir)
PROOF
<1> DEFINE F(f) == [n \in 0 .. PREFETCH_DISTANCE + 1 |->
                      IF n = 0 THEN s
                      ELSE IF head + n * dir \in lines THEN pf_fill_l2(f[n - 1], head + n * dir)
                                                      ELSE f[n - 1]]
           after == CHOOSE f : f = F(f)
<1>1. fill_burst(s, head, dir, lines) = after[PREFETCH_DISTANCE + 1]
  BY DEF fill_burst
<1>2. PREFETCH_DISTANCE + 1 \in Nat
  BY GeometryAssumption
<1>3. \E f : f = F(f)
  <2>1. PICK f : IsLoop(f, PREFETCH_DISTANCE + 1, s, "burst", lines, head, dir, dir)
    BY <1>2, LoopExists
  <2>2. f = [n \in 0 .. PREFETCH_DISTANCE + 1 |-> f[n]]
    BY <2>1 DEF IsLoop
  <2>3. ASSUME NEW n \in 0 .. PREFETCH_DISTANCE + 1
        PROVE  f[n] = IF n = 0 THEN s ELSE IF head + n * dir \in lines THEN pf_fill_l2(f[n - 1], head + n * dir)
                                                      ELSE f[n - 1]
    BY <2>1 DEF IsLoop, Round
  <2>4. QED
    BY <2>2, <2>3
<1> HIDE DEF F
<1>4. after = F(after)
  BY <1>3
<1> HIDE DEF after
<1>5. IsLoop(after, PREFETCH_DISTANCE + 1, s, "burst", lines, head, dir, dir)
  <2>1. after = [n \in 0 .. PREFETCH_DISTANCE + 1 |-> after[n]]
    BY <1>4 DEF F
  <2>2. ASSUME NEW n \in 0 .. PREFETCH_DISTANCE + 1
        PROVE  after[n] = IF n = 0 THEN s ELSE Round("burst", after[n - 1], n, lines, head, dir, dir)
    BY <1>4 DEF F, Round
  <2>3. QED
    BY <2>1, <2>2 DEF IsLoop
<1>6. QED
  BY <1>1, <1>5

LEMMA PrefetchBurst ==
  ASSUME NEW s, Single(s), NEW head, NEW dir, NEW lines
  PROVE  Single(fill_burst(s, head, dir, lines))
PROOF
<1> DEFINE N == PREFETCH_DISTANCE + 1
<1>1. N \in Nat
  BY GeometryAssumption
<1>2. PICK f : /\ fill_burst(s, head, dir, lines) = f[N]
               /\ IsLoop(f, N, s, "burst", lines, head, dir, dir)
  BY BurstRounds
<1> DEFINE S == {n \in 0 .. N : Single(f[n])}
<1>3. 0 \in S
  BY <1>1, <1>2, Rounds
<1>4. ASSUME NEW n \in 1 .. N, n - 1 \in S PROVE n \in S
  <2>1. f[n] = IF head + n * dir \in lines THEN pf_fill_l2(f[n - 1], head + n * dir)
                                            ELSE f[n - 1]
    BY <1>1, <1>2, Rounds DEF Round
  <2>2. Single(f[n])
    BY <1>4, <2>1, PrefetchOne
  <2>3. QED
    BY <1>1, <2>2
<1> HIDE DEF S
<1>5. N \in S
  BY <1>1, <1>3, <1>4, UpTo
<1>6. QED
  BY <1>2, <1>5 DEF S

LEMMA PrefetchStream ==
  ASSUME NEW s, Single(s), NEW c, NEW miss
  PROVE  Single(pf_stream_on_miss(s, c, miss))
PROOF
<1> DEFINE table == s.pf[c].streams
           matching == {k \in 0 .. NUM_STREAMS - 1 : Pf(c)!matches(table[k], miss)}
           k == first(matching)
           filled == fill_burst(s, Pf(c)!head_after(table[k], miss),
                                Pf(c)!direction_after(table[k], miss),
                                Pf(c)!burst(table[k], miss))
           trained(t, n, stream) ==
             [t EXCEPT !.pf[c].streams[n] = stream,
                       !.pf[c].lru_age = Pf(c)!pf_lru_update(@, n)]
<1>1. \/ pf_stream_on_miss(s, c, miss) =
           trained(s, Pf(c)!pf_lru_evict(s.pf[c].lru_age), Pf(c)!started(miss))
      \/ pf_stream_on_miss(s, c, miss) = trained(filled, k, Pf(c)!advanced(table[k], miss))
  BY Zenon DEF pf_stream_on_miss
<1>2. ASSUME NEW t, Single(t), NEW n, NEW stream PROVE Single(trained(t, n, stream))
  <2>1. SameCaches(trained(t, n, stream), t)
    BY <1>2 DEF SameCaches, Single, Caches
  <2>2. QED
    BY <1>2, <2>1, SameSingle
<1>3. Single(filled)
  BY PrefetchBurst
<1> HIDE DEF trained, filled, k, table
<1>4. QED
  BY <1>1, <1>2, <1>3

LEMMA PrefetchNext ==
  ASSUME NEW s, Single(s), NEW l
  PROVE  Single(pf_nextline_on_miss(s, l))
BY PrefetchOne DEF pf_nextline_on_miss

(***************************************************************************)
(* The handlers.                                                           *)
(***************************************************************************)
LEMMA Indices ==
  ASSUME NEW l \in Lines
  PROVE  l1_to_index(l) \in L1Sets /\ l2_to_index(l) \in L2Sets
BY GeometryAssumption DEF Lines, l1_to_index, l2_to_index, L1Sets, L2Sets

LEMMA Returned ==
  ASSUME NEW s, Single(s), NEW l, NEW line, NEW counter
  PROVE  Single(returns(s, l, line, counter))
PROOF
<1>1. SameCaches(returns(s, l, line, counter), s)
  BY DEF returns, SameCaches, Single, Caches
<1>2. QED
  BY <1>1, SameSingle

LEMMA DataMiss ==
  ASSUME NEW s, Single(s), NEW c, NEW l, MissesD(s, c, l), MissesL2(s, l),
         NEW line, NEW state
  PROVE  Single(miss_fill(s, c, l, line, state))
PROOF
<1> DEFINE j == l2_to_index(l)
           t == evict_l1_d(evict_l2(s, j), c, l1_to_index(l))
           w == l2_room(t.l2[j])
           u == l2_cache_fill(t, l, w, line, state, {c}, {})
           e == event("L2_FILL", c, 2, j, w, l, INVALID, state, line)
           f == event("MEM_FETCH", c, 3, 0, 0, l, INVALID, INVALID, line)
<1>1. miss_fill(s, c, l, line, state) = emit(l1d_fill(emit(u, e), c, l, line, state), f)
  BY DEF miss_fill, l2_then_l1d_fill
<1>2. LessCaches(t, s)
  BY SingleIsLess, EvictL2, EvictD
<1>3. Single(t) /\ MissesD(t, c, l) /\ MissesL2(t, l)
  BY <1>2, LessSingle, LessMisses
<1> HIDE DEF t, w, e, f, j
<1>4. Single(u) /\ u.l1d = t.l1d
  BY <1>3, FillL2
<1> HIDE DEF u
<1>5. Single(emit(u, e)) /\ emit(u, e).l1d = t.l1d
  BY <1>4, EmittedSame, EmittedSingle DEF SameCaches, Single
<1>6. MissesD(emit(u, e), c, l)
  BY <1>3, <1>5 DEF MissesD
<1>7. QED
  BY <1>1, <1>5, <1>6, FillD, EmittedSingle

LEMMA ReadL1Hit ==
  ASSUME NEW s, Single(s), NEW c, NEW l, NEW i, NEW v
  PROVE  Single(read_l1_hit(s, c, l, i, v))
PROOF
<1> DEFINE way == s.l1d[c][i].way[v]
           e == event("L1D_HIT", c, 1, i, v, l, way.state, way.state, way.data)
           t == [s EXCEPT !.l1d[c][i] = l1_touch(@, v)]
<1>1. read_l1_hit(s, c, l, i, v) = returns(emit(t, e), l, way.data, "l1d_hits")
  BY DEF read_l1_hit
<1>2. LessCaches(t, s)
  BY SingleIsLess, DTouched
<1> HIDE DEF t
<1>3. QED
  BY <1>1, <1>2, LessSingle, EmittedSingle, Returned

LEMMA ReadL2Hit ==
  ASSUME NEW s, Single(s), NEW c, NEW l \in Lines, MissesD(s, c, l),
         NEW w, s.l2[l2_to_index(l)].way[w].state # INVALID
  PROVE  Single(read_l2_hit(s, c, l, l2_to_index(l), w))
PROOF
<1> DEFINE j == l2_to_index(l)
           state == s.l2[j].way[w].state
           h == emit(s, event("L2_HIT", c, 2, j, w, l, state, state, <<>>))
           e == evict_l1_d(h, c, l1_to_index(l))
           e2 == [e.l2[j].way[w] EXCEPT !.d = @ \cup {c}]
           t == [e EXCEPT !.l2[j] = l2_touch([@ EXCEPT !.way[w] = e2], w)]
           d_sharers == t.l2[j].way[w].d \ {c}
           i_sharers == t.l2[j].way[w].i \ {c}
           shared == d_sharers \cup i_sharers # {}
           u == IF shared THEN snoop_downgrade_peers(t, d_sharers, l, j, w) ELSE t
           line == u.l2[j].way[w].data
           f == l1d_fill(u, c, l, line, IF shared THEN SHARED ELSE EXCLUSIVE)
<1>1. read_l2_hit(s, c, l, j, w) = returns(f, l, line, "l2_hits")
  BY DEF read_l2_hit
<1>2. LessCaches(e, s)
  BY SingleIsLess, EmittedLess, EvictD
<1> HIDE DEF e
<1>3. LessCaches(t, s)
  <2>1. j \in L2Sets /\ w \in Plru2!Ways => Tame(e2, e.l2[j].way[w], s.l2[j].way[w])
    BY <1>2, L2WayTameIn, TameChanges, Zenon
  <2> HIDE DEF e2, j
  <2>2. QED
    BY <1>2, <2>1, L2WayUsed, Zenon
<1> HIDE DEF t
<1>4. LessCaches(u, s)
  BY <1>3, DowngradeLoop
<1> HIDE DEF u
<1>5. Single(u) /\ MissesD(u, c, l)
  BY <1>4, LessSingle, LessMisses
<1> HIDE DEF line, shared
<1>6. Single(f)
  BY <1>5, FillD
<1> HIDE DEF f
<1>7. QED
  BY <1>1, <1>6, Returned

LEMMA ReadHandler ==
  ASSUME NEW s, Single(s), NEW c \in Cores, NEW l \in Lines
  PROVE  Single(cpu_read(s, c, l))
PROOF
<1> DEFINE i == l1_to_index(l)
           j == l2_to_index(l)
           l1_ways == find_way(s.l1d[c][i], l1_to_tag(l))
           l2_ways == find_way(s.l2[j], l2_to_tag(l))
           line == s.mem[l]
           miss == miss_fill(s, c, l, line, EXCLUSIVE)
<1>1. cpu_read(s, c, l) =
        IF l1_ways # {} THEN read_l1_hit(s, c, l, i, first(l1_ways))
        ELSE IF l2_ways # {} THEN read_l2_hit(s, c, l, j, first(l2_ways))
        ELSE returns(pf_stream_on_miss(miss, c, l), l, line, "mem_fetches")
  BY DEF cpu_read
<1>2. l1_ways = {} => MissesD(s, c, l)
  BY DEF MissesD
<1>3. l2_ways = {} => MissesL2(s, l)
  BY DEF MissesL2
<1>4. l2_ways # {} => s.l2[j].way[first(l2_ways)].state # INVALID
  BY SingleIsLess, Indices, L2Found DEF LessCaches
<1>5. CASE l1_ways # {}
  <2> HIDE DEF i, l1_ways
  <2>1. QED
    BY <1>1, <1>5, ReadL1Hit
<1>6. CASE l1_ways = {} /\ l2_ways # {}
  <2>1. cpu_read(s, c, l) = read_l2_hit(s, c, l, l2_to_index(l), first(l2_ways))
    BY <1>1, <1>6
  <2> HIDE DEF l1_ways, l2_ways
  <2>2. QED
    BY <2>1, <1>2, <1>4, <1>6, ReadL2Hit
<1>7. CASE l1_ways = {} /\ l2_ways = {}
  <2>1. Single(miss)
    BY <1>2, <1>3, <1>7, DataMiss
  <2> HIDE DEF miss, l1_ways, l2_ways
  <2>2. QED
    BY <1>1, <1>7, <2>1, PrefetchStream, Returned
<1>8. QED
  BY <1>5, <1>6, <1>7

\* The L2 way the writer's line is in, valid before the write, and the writer's
\* own way if it is too.
LEMMA WriteL1Hit ==
  ASSUME NEW s, Single(s), NEW c, NEW l, NEW i, NEW v, NEW j, NEW w, NEW word, NEW x,
         s.l1d[c][i].way[v].state # INVALID, s.l2[j].way[w].state # INVALID
  PROVE  Single(write_l1_hit(s, c, l, i, v, j, w, word, x))
PROOF
<1> DEFINE old == s.l1d[c][i].way[v]
           others == s.l2[j].way[w].d \ {c}
           peers_gone == snoop_invalidate_peers(s, others, l, j, w)
           renewed == [peers_gone EXCEPT !.l2[j] = l2_touch(@, w)]
           t == IF old.state = SHARED THEN renewed ELSE s
           u == snoop_invalidate_peers_i(t, l, j, w)
           line == [old.data EXCEPT ![word] = x]
           e == event("L1D_HIT", c, 1, i, v, l, old.state, MODIFIED, line)
           e1 == [u.l1d[c][i].way[v] EXCEPT !.data = line, !.state = MODIFIED]
           e2 == [u.l2[j].way[w] EXCEPT !.d = {c}, !.state = MODIFIED]
           put == [u.l1d[c][i] EXCEPT !.way[v] = e1]
           set == l1_touch(put, v)
           f == [u EXCEPT
                   !.l2[j].way[w].d = {c}, !.l2[j].way[w].state = MODIFIED,
                   !.l1d[c][i] = l1_touch([@ EXCEPT !.way[v].data = line,
                                                    !.way[v].state = MODIFIED], v),
                   !.counted = "l1d_hits"]
<1>1. write_l1_hit(s, c, l, i, v, j, w, word, x) = emit(f, e)
  BY DEF write_l1_hit
<1>2. LessCaches(u, s)
  <2>1. LessCaches(peers_gone, s)
    BY SingleIsLess, InvalidateLoop
  <2> HIDE DEF peers_gone
  <2>2. LessCaches(renewed, s)
    BY <2>1, L2Touched
  <2> HIDE DEF renewed
  <2>3. LessCaches(t, s)
    BY <2>2, SingleIsLess
  <2> HIDE DEF t
  <2>4. QED
    BY <2>3, InvalidateILoop
<1> HIDE DEF u, line
<1>3. /\ Caches \subseteq DOMAIN f
      /\ L1Put(f.l1d, u.l1d, c, i, set)
      /\ f.l1i = u.l1i
      /\ L2PutWay(f.l2, u.l2, j, w, e2)
  <2>1. Caches \subseteq DOMAIN u
    BY <1>2 DEF LessCaches
  <2>2. put = [u.l1d[c][i] EXCEPT !.way[v].data = line, !.way[v].state = MODIFIED]
    OBVIOUS
  <2>3. Caches \subseteq DOMAIN f /\ f.l1i = u.l1i
    BY <2>1 DEF Caches
  <2>4. L2PutWay(f.l2, u.l2, j, w, e2)
    <3>1. f.l2 = [u.l2 EXCEPT ![j].way[w].d = {c}, ![j].way[w].state = MODIFIED]
      BY <2>1 DEF Caches
    <3>2. [u.l2[j] EXCEPT !.way[w].d = {c}, !.way[w].state = MODIFIED] =
            [u.l2[j] EXCEPT !.way[w] = e2]
      OBVIOUS
    <3>3. [u.l2 EXCEPT ![j].way[w].d = {c}, ![j].way[w].state = MODIFIED] =
            [u.l2 EXCEPT ![j] = [u.l2[j] EXCEPT !.way[w].d = {c}, !.way[w].state = MODIFIED]]
      <4>1. CASE j \in DOMAIN u.l2
        <5> DEFINE once == [u.l2[j] EXCEPT !.way[w].d = {c}]
                   p == [u.l2 EXCEPT ![j] = once]
        <5>1. p[j] = once
          BY <4>1
        <5>2. [p EXCEPT ![j] = [p[j] EXCEPT !.way[w].state = MODIFIED]] =
                [u.l2 EXCEPT ![j] = [once EXCEPT !.way[w].state = MODIFIED]]
          <6> HIDE DEF once
          <6>1. QED
            BY <5>1
        <5>3. QED
          BY <5>2
      <4>2. CASE j \notin DOMAIN u.l2
        BY <4>2
      <4>3. QED
        BY <4>1, <4>2
    <3> HIDE DEF f, e2
    <3>4. QED
      BY <3>1, <3>2, <3>3 DEF L2PutWay, L2Put
  <2>5. L1Put(f.l1d, u.l1d, c, i, set)
    <3> HIDE DEF put
    <3>1. f.l1d = [u.l1d EXCEPT ![c][i] = l1_touch(put, v)]
      BY <2>1, <2>2 DEF Caches
    <3>2. QED
      BY <3>1 DEF L1Put
  <2>6. QED
    BY <2>3, <2>4, <2>5
<1>4. c \in Cores /\ i \in L1Sets =>
        SetShape(put, Plru1!Ways) /\ Sheds(put, s.l1d[c][i], Plru1!Ways)
  <2>1. L1Less(u.l1d, s.l1d)
    BY <1>2 DEF LessCaches
  <2>2. c \in Cores /\ i \in L1Sets /\ v \in Plru1!Ways => Tame(e1, u.l1d[c][i].way[v], old)
    BY <2>1, L1WayTame, TameChanges, Zenon
  <2> HIDE DEF e1
  <2>3. QED
    BY <1>2, <2>2, SetsOfLess, WayChanges, Zenon
<1>5. j \in L2Sets /\ w \in Plru2!Ways => Tame(e2, u.l2[j].way[w], s.l2[j].way[w])
  BY <1>2, L2WayTameIn, TameChanges, Zenon
<1> HIDE DEF put, e2
<1>6. c \in Cores /\ i \in L1Sets =>
        SetShape(set, Plru1!Ways) /\ Sheds(set, s.l1d[c][i], Plru1!Ways)
  BY <1>4, Touched DEF l1_touch
<1> HIDE DEF f, set
<1>7. L1Less(f.l1d, s.l1d) /\ L2Less(f.l2, s.l2)
  BY <1>2, <1>3, <1>5, <1>6, L1Change, L2WayChange DEF LessCaches
<1>8. LessCaches(f, s)
  BY <1>2, <1>3, <1>7 DEF LessCaches
<1> HIDE DEF e
<1>9. QED
  BY <1>1, <1>8, EmittedLess, LessSingle

\* After the fill of the L1D only the L2 way and the instruction copies change.
LEMMA WriteL2Hit ==
  ASSUME NEW s, Single(s), NEW c, NEW l \in Lines, MissesD(s, c, l),
         NEW w, s.l2[l2_to_index(l)].way[w].state # INVALID, NEW word, NEW x
  PROVE  Single(write_l2_hit(s, c, l, l2_to_index(l), w, word, x))
PROOF
<1> DEFINE j == l2_to_index(l)
           state == s.l2[j].way[w].state
           h == emit(s, event("L2_HIT", c, 2, j, w, l, state, state, <<>>))
           others == s.l2[j].way[w].d \ {c}
           line == [snooped_line(s, others, l, j, w) EXCEPT ![word] = x]
           e == evict_l1_d(snoop_invalidate_peers(h, others, l, j, w), c, l1_to_index(l))
           f == l1d_fill(e, c, l, line, MODIFIED)
           b == [s EXCEPT !.l1d = f.l1d]
           u == snoop_invalidate_peers_i(f, l, j, w)
           e2 == [u.l2[j].way[w] EXCEPT !.d = {c}, !.state = MODIFIED]
           t == [u EXCEPT !.l2[j] = l2_touch([@ EXCEPT !.way[w].d = {c},
                                                       !.way[w].state = MODIFIED], w),
                          !.counted = "l2_hits"]
           t2 == [u EXCEPT !.l2[j] = l2_touch([@ EXCEPT !.way[w] = e2], w)]
<1>1. write_l2_hit(s, c, l, j, w, word, x) = t
  BY DEF write_l2_hit
<1>2. LessCaches(e, s)
  <2>1. LessCaches(h, s)
    BY SingleIsLess, EmittedLess
  <2> HIDE DEF h, j, others
  <2>2. QED
    BY <2>1, InvalidateLoop, EvictD
<1> HIDE DEF e, line
<1>3. Single(f) /\ f.l2 = e.l2 /\ f.l1i = e.l1i
  <2>1. Single(e) /\ MissesD(e, c, l)
    BY <1>2, LessSingle, LessMisses
  <2>2. QED
    BY <2>1, FillD
<1> HIDE DEF f
<1>4. Single(b) /\ b.l2 = s.l2
  BY <1>3 DEF Single, Caches, CodeOnly
<1>5. LessCaches(f, b)
  <2>1. LessCaches(f, f)
    BY <1>3, SingleIsLess
  <2>2. b.l1d = f.l1d /\ b.l1i = s.l1i
    BY DEF Single, Caches
  <2>3. QED
    BY <1>2, <1>3, <1>4, <2>1, <2>2 DEF LessCaches
<1> HIDE DEF b
<1>6. LessCaches(u, b)
  <2> HIDE DEF j
  <2>1. QED
    BY <1>5, InvalidateILoop
<1> HIDE DEF u
<1>7. j \in L2Sets /\ w \in Plru2!Ways => Tame(e2, u.l2[j].way[w], b.l2[j].way[w])
  BY <1>4, <1>6, L2WayTameIn, TameChanges, Zenon
<1>8. SameCaches(t, t2)
  BY <1>6, Zenon DEF SameCaches, LessCaches, Caches
<1> HIDE DEF t, e2, j
<1>9. LessCaches(t2, b)
  BY <1>6, <1>7, L2WayUsed
<1> HIDE DEF t2
<1>10. QED
  BY <1>1, <1>4, <1>8, <1>9, LessSingle, SameSingle DEF j

LEMMA WriteHandler ==
  ASSUME NEW s, Single(s), NEW c \in Cores, NEW l \in Lines, NEW word, NEW x
  PROVE  Single(cpu_write(s, c, l, word, x))
PROOF
<1> DEFINE i == l1_to_index(l)
           j == l2_to_index(l)
           l1_ways == find_way(s.l1d[c][i], l1_to_tag(l))
           l2_ways == find_way(s.l2[j], l2_to_tag(l))
           line == [s.mem[l] EXCEPT ![word] = x]
           miss == pf_stream_on_miss(miss_fill(s, c, l, line, MODIFIED), c, l)
<1>1. cpu_write(s, c, l, word, x) =
        IF l1_ways # {}
          THEN IF l2_ways = {} THEN [s EXCEPT !.abort = "write_hit_not_in_l2"]
               ELSE write_l1_hit(s, c, l, i, first(l1_ways), j, first(l2_ways), word, x)
        ELSE IF l2_ways # {} THEN write_l2_hit(s, c, l, j, first(l2_ways), word, x)
        ELSE [miss EXCEPT !.counted = "mem_fetches"]
  BY DEF cpu_write
<1>2. l1_ways = {} => MissesD(s, c, l)
  BY DEF MissesD
<1>3. l2_ways = {} => MissesL2(s, l)
  BY DEF MissesL2
<1>4. /\ l1_ways # {} => s.l1d[c][i].way[first(l1_ways)].state # INVALID
      /\ l2_ways # {} => s.l2[j].way[first(l2_ways)].state # INVALID
  BY SingleIsLess, Indices, L1Found, L2Found DEF LessCaches
<1>5. CASE l1_ways # {} /\ l2_ways = {}
  BY <1>1, <1>5, AbortedLess, SingleIsLess, LessSingle
<1>6. CASE l1_ways # {} /\ l2_ways # {}
  <2>1. cpu_write(s, c, l, word, x) =
          write_l1_hit(s, c, l, i, first(l1_ways), j, first(l2_ways), word, x)
    BY <1>1, <1>6
  <2> HIDE DEF i, j, l1_ways, l2_ways
  <2>2. QED
    BY <1>4, <1>6, <2>1, WriteL1Hit
<1>7. CASE l1_ways = {} /\ l2_ways # {}
  <2>1. cpu_write(s, c, l, word, x) =
          write_l2_hit(s, c, l, l2_to_index(l), first(l2_ways), word, x)
    BY <1>1, <1>7
  <2> HIDE DEF l1_ways, l2_ways
  <2>2. QED
    BY <1>2, <1>4, <1>7, <2>1, WriteL2Hit
<1>8. CASE l1_ways = {} /\ l2_ways = {}
  <2>1. Single(miss)
    BY <1>2, <1>3, <1>8, DataMiss, PrefetchStream
  <2> HIDE DEF miss, l1_ways, l2_ways
  <2>2. SameCaches([miss EXCEPT !.counted = "mem_fetches"], miss)
    BY <2>1 DEF Single, SameCaches, Caches
  <2>3. QED
    BY <1>1, <1>8, <2>1, <2>2, SameSingle
<1>9. QED
  BY <1>5, <1>6, <1>7, <1>8

LEMMA FetchL2Hit ==
  ASSUME NEW s, Single(s), NEW c, NEW l \in Lines, l \in Code(c), MissesI(s, c, l),
         NEW w, s.l2[l2_to_index(l)].way[w].state # INVALID
  PROVE  Single(fetch_l2_hit(s, c, l, l2_to_index(l), w))
PROOF
<1> DEFINE j == l2_to_index(l)
           e == evict_l1_i(s, c, l1_to_index(l))
           e2 == [e.l2[j].way[w] EXCEPT !.i = @ \cup {c}]
           t == [e EXCEPT !.l2[j] = l2_touch([@ EXCEPT !.way[w] = e2], w)]
           d_sharers == t.l2[j].way[w].d \ {c}
           i_sharers == t.l2[j].way[w].i \ {c}
           u == IF d_sharers \cup i_sharers # {}
                  THEN snoop_downgrade_peers(t, d_sharers, l, j, w) ELSE t
           line == u.l2[j].way[w].data
           f == l1i_fill(u, c, l, line)
<1>1. fetch_l2_hit(s, c, l, j, w) = returns(f, l, line, "l2_hits")
  BY DEF fetch_l2_hit
<1>2. LessCaches(e, s)
  BY SingleIsLess, EvictI
<1> HIDE DEF e
<1>3. LessCaches(t, s)
  <2>1. j \in L2Sets /\ w \in Plru2!Ways => Tame(e2, e.l2[j].way[w], s.l2[j].way[w])
    BY <1>2, L2WayTameIn, TameChanges, Zenon
  <2> HIDE DEF e2, j
  <2>2. QED
    BY <1>2, <2>1, L2WayUsed
<1> HIDE DEF t
<1>4. LessCaches(u, s)
  BY <1>3, DowngradeLoop
<1> HIDE DEF u
<1>5. Single(u) /\ MissesI(u, c, l)
  BY <1>4, LessSingle, LessMisses
<1> HIDE DEF line
<1>6. Single(f)
  BY <1>5, FillI
<1> HIDE DEF f
<1>7. QED
  BY <1>1, <1>6, Returned

LEMMA FetchMiss ==
  ASSUME NEW s, Single(s), NEW c, NEW l \in Code(c), MissesI(s, c, l), MissesL2(s, l)
  PROVE  Single(fetch_miss(s, c, l, l2_to_index(l)))
PROOF
<1> DEFINE j == l2_to_index(l)
           line == s.mem[l]
           e == evict_l1_i(evict_l2(s, j), c, l1_to_index(l))
           w == l2_room(e.l2[j])
           t == l2_cache_fill(e, l, w, line, EXCLUSIVE, {}, {c})
           f == l1i_fill(t, c, l, line)
<1>1. fetch_miss(s, c, l, j) = returns(pf_nextline_on_miss(f, l), l, line, "mem_fetches")
  BY DEF fetch_miss
<1>2. LessCaches(e, s)
  BY SingleIsLess, EvictL2, EvictI
<1>3. Single(e) /\ MissesI(e, c, l) /\ MissesL2(e, l)
  BY <1>2, LessSingle, LessMisses
<1> HIDE DEF e, w, line
<1>4. Single(t) /\ t.l1i = e.l1i
  BY <1>3, FillL2
<1> HIDE DEF t
<1>5. MissesI(t, c, l)
  BY <1>3, <1>4 DEF MissesI
<1>6. Single(f)
  BY <1>4, <1>5, FillI
<1> HIDE DEF f
<1>7. QED
  BY <1>1, <1>6, PrefetchNext, Returned

LEMMA FetchHandler ==
  ASSUME NEW s, Single(s), NEW c \in Cores, NEW l \in Lines, l \in Code(c)
  PROVE  Single(cpu_fetch(s, c, l))
PROOF
<1> DEFINE i == l1_to_index(l)
           j == l2_to_index(l)
           l1_ways == find_way(s.l1i[c][i], l1_to_tag(l))
           l2_ways == find_way(s.l2[j], l2_to_tag(l))
           v == first(l1_ways)
           t == [s EXCEPT !.l1i[c][i] = l1_touch(@, v)]
           line == s.l1i[c][i].way[v].data
           a == [s EXCEPT !.abort = "fetch_of_modified", !.ret = ret]
<1>1. cpu_fetch(s, c, l) =
        IF l1_ways # {} THEN returns(t, l, line, "l1i_hits")
        ELSE IF l2_ways # {}
          THEN IF s.l2[j].way[first(l2_ways)].state = MODIFIED THEN a
               ELSE fetch_l2_hit(s, c, l, j, first(l2_ways))
        ELSE fetch_miss(s, c, l, j)
  BY DEF cpu_fetch
<1>2. l1_ways = {} => MissesI(s, c, l)
  BY DEF MissesI
<1>3. l2_ways = {} => MissesL2(s, l)
  BY DEF MissesL2
<1>4. l2_ways # {} => s.l2[j].way[first(l2_ways)].state # INVALID
  BY SingleIsLess, Indices, L2Found DEF LessCaches
<1>5. Single(a)
  <2>1. SameCaches(a, s)
    BY DEF Single, SameCaches, Caches
  <2>2. QED
    BY <2>1, SameSingle
<1>6. Single(t)
  <2>1. LessCaches(t, s)
    <3> HIDE DEF i, v
    <3>1. QED
      BY SingleIsLess, ITouched
  <2>2. QED
    BY <2>1, LessSingle
<1> HIDE DEF t, a, line
<1>7. CASE l1_ways # {}
  <2> HIDE DEF l1_ways
  <2>1. QED
    BY <1>1, <1>6, <1>7, Returned
<1>8. CASE l1_ways = {} /\ l2_ways # {}
  <2>1. \/ cpu_fetch(s, c, l) = a
        \/ cpu_fetch(s, c, l) = fetch_l2_hit(s, c, l, l2_to_index(l), first(l2_ways))
    BY <1>1, <1>8
  <2> HIDE DEF l1_ways, l2_ways
  <2>2. QED
    BY <1>2, <1>4, <1>5, <1>8, <2>1, FetchL2Hit
<1>9. CASE l1_ways = {} /\ l2_ways = {}
  <2>1. cpu_fetch(s, c, l) = fetch_miss(s, c, l, l2_to_index(l))
    BY <1>1, <1>9
  <2> HIDE DEF l1_ways, l2_ways
  <2>2. QED
    BY <1>2, <1>3, <1>9, <2>1, FetchMiss
<1>10. QED
  BY <1>7, <1>8, <1>9

(***************************************************************************)
(* The specification.                                                      *)
(***************************************************************************)
\* The inductive invariant: OneWayPerLine, over caches of the right shape.
SingleWays == Single(now)

LEMMA NowIsCaches ==
  /\ now.l1d = l1d /\ now.l1i = l1i /\ now.l2 = l2
  /\ Caches \subseteq DOMAIN now
BY DEF now, Caches

LEMMA SingleInit ==
  ASSUME Init
  PROVE  SingleWays
PROOF
<1>1. /\ SetShape(EmptyL1Set, Plru1!Ways) /\ Distinct(EmptyL1Set, Plru1!Ways)
      /\ SetShape(EmptyL2Set, Plru2!Ways) /\ Distinct(EmptyL2Set, Plru2!Ways)
  BY DEF EmptyL1Set, EmptyL2Set, EmptyL1Way, EmptyL2Way, SetShape, Distinct
<1> HIDE DEF EmptyL1Set, EmptyL2Set
<1>2. /\ \A c \in Cores, i \in L1Sets : l1d[c][i] = EmptyL1Set /\ l1i[c][i] = EmptyL1Set
      /\ \A j \in L2Sets : l2[j] = EmptyL2Set
      /\ DOMAIN l1d = Cores /\ DOMAIN l1i = Cores /\ DOMAIN l2 = L2Sets
      /\ \A c \in Cores : DOMAIN l1d[c] = L1Sets /\ DOMAIN l1i[c] = L1Sets
  BY DEF Init, L1Sets, L2Sets
<1>3. L1Shape(l1d) /\ L1Shape(l1i) /\ L2Shape(l2)
  BY <1>1, <1>2 DEF L1Shape, L2Shape
<1>4. /\ \A c \in Cores, i \in L1Sets :
           Distinct(l1d[c][i], Plru1!Ways) /\ Distinct(l1i[c][i], Plru1!Ways)
      /\ \A j \in L2Sets : Distinct(l2[j], Plru2!Ways)
  BY <1>1, <1>2
<1>5. CodeOnly(now)
  <2>1. \A w \in Plru1!Ways : EmptyL1Set.way[w].state = INVALID
    BY DEF EmptyL1Set, EmptyL1Way
  <2>2. QED
    BY <1>2, <2>1, NowIsCaches DEF CodeOnly, Tagged
<1>6. QED
  BY <1>3, <1>4, <1>5, NowIsCaches DEF SingleWays, Single

\* Single is about the program that runs, too; it runs on.
LEMMA SingleNext ==
  ASSUME Single(now'), workload' = workload
  PROVE  SingleWays'
PROOF
<1>1. \A c, i : CodeTags(c, i)' = CodeTags(c, i)
  BY DEF CodeTags, Code
<1>2. QED
  BY <1>1 DEF SingleWays, Single, CodeOnly

LEMMA SingleStep ==
  ASSUME SingleWays, [Next]_vars
  PROVE  SingleWays'
PROOF
<1>1. Single(now)
  BY DEF SingleWays
<1>2. ASSUME NEW s, Single(s), become(s) PROVE SingleWays'
  <2>1. l1d' = s.l1d /\ l1i' = s.l1i /\ l2' = s.l2
    BY <1>2 DEF become
  <2>2. SameCaches(now', s)
    BY <2>1 DEF SameCaches, now, Caches
  <2>3. Single(now')
    BY <1>2, <2>2, SameSingle
  <2>4. QED
    BY <1>2, <2>3, SingleNext DEF become
<1>3. ASSUME NEW c \in Cores, NEW l \in Lines
      PROVE  /\ Single(cpu_read(now, c, l))
             /\ \A word, x : Single(cpu_write(now, c, l, word, x))
             /\ <<"fetch", l>> \in workload[c] => Single(cpu_fetch(now, c, l))
  <2>1. <<"fetch", l>> \in workload[c] => l \in Code(c)
    BY DEF Code
  <2>2. QED
    BY <1>1, <2>1, ReadHandler, WriteHandler, FetchHandler
<1>4. CASE Next
  <2>1. PICK c \in Cores, l \in Lines :
          \/ become(cpu_read(now, c, l))
          \/ \E word \in Words, x \in Vals : become(cpu_write(now, c, l, word, x))
          \/ <<"fetch", l>> \in workload[c] /\ become(cpu_fetch(now, c, l))
    BY <1>4 DEF Next
  <2>2. QED
    BY <1>2, <1>3, <2>1
<1>5. CASE UNCHANGED vars
  <2>1. SameCaches(now', now)
    BY <1>5 DEF vars, now, SameCaches, Caches
  <2>2. Single(now')
    BY <1>1, <2>1, SameSingle
  <2>3. QED
    BY <1>5, <2>2, SingleNext DEF vars
<1>6. QED
  BY <1>4, <1>5

LEMMA SingleMeansOneWay ==
  ASSUME SingleWays
  PROVE  OneWayPerLine
PROOF
<1>1. ASSUME NEW set, NEW W, SetShape(set, W), Distinct(set, W)
      PROVE  \A v, w \in DOMAIN set.way \ invalid_ways(set) :
               set.way[v].tag = set.way[w].tag => v = w
  BY <1>1 DEF SetShape, Distinct, invalid_ways
<1>2. /\ \A c \in Cores, i \in L1Sets :
           /\ SetShape(l1d[c][i], Plru1!Ways) /\ Distinct(l1d[c][i], Plru1!Ways)
           /\ SetShape(l1i[c][i], Plru1!Ways) /\ Distinct(l1i[c][i], Plru1!Ways)
      /\ \A j \in L2Sets : SetShape(l2[j], Plru2!Ways) /\ Distinct(l2[j], Plru2!Ways)
  BY NowIsCaches DEF SingleWays, Single, L1Shape, L2Shape
<1>3. QED
  BY <1>1, <1>2 DEF OneWayPerLine, L1Sets, L2Sets

\* The tag search of cpu.cpp stops at the first way that holds a line: no cache
\* of any size ever holds the line in a second way, one that a snoop, a write
\* or an eviction would miss.
THEOREM LinesHaveOneWay == Spec => []OneWayPerLine
PROOF
<1>1. Init => SingleWays
  BY SingleInit
<1>2. SingleWays /\ [Next]_vars => SingleWays'
  BY SingleStep
<1>3. SingleWays => OneWayPerLine
  BY SingleMeansOneWay
<1>4. QED
  BY <1>1, <1>2, <1>3, PTL DEF Spec

(***************************************************************************)
(* What the callback events of an access tell.                             *)
(***************************************************************************)
Fields == Caches \cup {"events", "abort", "ret", "counted", "mem", "pf"}

Hits == {"l1d_hits", "l2_hits", "mem_fetches"}

\* Event e is about this cell of the shadow state.
AtL1(e, c, i, w) ==
  e.type \in L1Types /\ e.core_id = c /\ e.set_index = i /\ e.way = w
AtL2(e, j, w) == e.type \in L2Types /\ e.set_index = j /\ e.way = w

\* Event e tells all that changes from p to q in the states of the L1Ds.
L1Told(e, p, q) ==
  \A c \in Cores, i \in L1Sets, w \in Plru1!Ways :
    IF AtL1(e, c, i, w)
      THEN /\ p.l1d[c][i].way[w].state = e.old_state
           /\ q.l1d[c][i].way[w].state = e.new_state
      ELSE q.l1d[c][i].way[w].state = p.l1d[c][i].way[w].state

\* And all that changes in which ways of the L2 are filled.
L2Told(e, p, q) ==
  \A j \in L2Sets, w \in Plru2!Ways :
    IF AtL2(e, j, w)
      THEN /\ p.l2[j].way[w].state = INVALID <=> e.old_state = INVALID
           /\ q.l2[j].way[w].state = INVALID <=> e.new_state = INVALID
      ELSE q.l2[j].way[w].state = INVALID <=> p.l2[j].way[w].state = INVALID

KeepsL1(t, s) ==
  \A c \in Cores, i \in L1Sets, w \in Plru1!Ways :
    t.l1d[c][i].way[w].state = s.l1d[c][i].way[w].state

KeepsL2(t, s) ==
  \A j \in L2Sets, w \in Plru2!Ways :
    t.l2[j].way[w].state = INVALID <=> s.l2[j].way[w].state = INVALID

\* What the visualizer takes for granted of an event.
Sane(e) ==
  /\ e.type \in L1Types => e.cache_level = 1
  /\ e.type \in L2Types => e.cache_level = 2
  /\ e.type \in {"L1D_FILL", "L2_FILL", "PREFETCH_L2"} => e.old_state = INVALID
  /\ e.type \in {"L1D_EVICT", "SNOOP_INVALIDATE", "L2_EVICT"} => e.new_state = INVALID

NoHit(e) == counters_of(e) \cap Hits = {}

IsList(q) == \E S : q \in Seq(S)

LEMMA Appended ==
  ASSUME NEW q, IsList(q), NEW e
  PROVE  /\ IsList(Append(q, e))
         /\ Len(q) \in Nat
         /\ Len(Append(q, e)) = Len(q) + 1
         /\ \A n \in 1 .. Len(q) : Append(q, e)[n] = q[n]
         /\ Append(q, e)[Len(q) + 1] = e
PROOF
<1>1. PICK S : q \in Seq(S)
  BY DEF IsList
<1>2. q \in Seq(S \cup {e}) /\ e \in S \cup {e}
  BY <1>1
<1>3. Append(q, e) \in Seq(S \cup {e})
  BY <1>2
<1>4. IsList(Append(q, e))
  BY <1>3 DEF IsList
<1> HIDE DEF IsList
<1>5. QED
  BY <1>2, <1>4

(***************************************************************************)
(* The story of an access: the pictures between its events.  X says which  *)
(* caches must be right, h is the counter of core c the events have moved. *)
(***************************************************************************)
SamePicture(X, p, q) ==
  /\ "l1d" \in X => KeepsL1(p, q)
  /\ "l2" \in X => KeepsL2(p, q)

HitTold(c, e, before, after) ==
  \/ NoHit(e) /\ after = before
  \/ before = "none" /\ after \in Hits /\ e.core_id = c /\ counters_of(e) = {after}

Tells(X, c, e, p, q) ==
  /\ Sane(e)
  /\ "l1d" \in X => L1Told(e, p, q)
  /\ "l2" \in X => L2Told(e, p, q)
  /\ HitTold(c, e, p.hit, q.hit)

IsStory(X, c, events, b, t, h, P) ==
  /\ SamePicture(X, P[0], b) /\ P[0].hit = "none"
  /\ SamePicture(X, P[Len(events)], t) /\ P[Len(events)].hit = h
  /\ \A n \in 1 .. Len(events) : Tells(X, c, events[n], P[n - 1], P[n])

Told(X, c, t, b, h) ==
  /\ Fields \subseteq DOMAIN t
  /\ t.abort = "none" => /\ IsList(t.events)
                         /\ \E P : IsStory(X, c, t.events, b, t, h, P)

picture(t, h) == [l1d |-> t.l1d, l2 |-> t.l2, hit |-> h]

LEMMA SamePictureTransitive ==
  ASSUME NEW X, NEW p, NEW q, NEW r, SamePicture(X, p, q), SamePicture(X, q, r)
  PROVE  SamePicture(X, p, r)
BY DEF SamePicture, KeepsL1, KeepsL2

LEMMA NothingTold ==
  ASSUME NEW X, NEW c, NEW b, Fields \subseteq DOMAIN b, b.events = <<>>
  PROVE  Told(X, c, b, b, "none")
PROOF
<1> DEFINE P == [n \in {0} |-> picture(b, "none")]
<1>1. P[0].hit = "none" /\ P[0].l1d = b.l1d /\ P[0].l2 = b.l2
  BY DEF picture
<1>2. Len(b.events) = 0 /\ IsList(b.events)
  <2>1. <<>> \in Seq({})
    OBVIOUS
  <2>2. QED
    BY <2>1 DEF IsList
<1> HIDE DEF P
<1>3. SamePicture(X, P[0], b)
  BY <1>1 DEF SamePicture, KeepsL1, KeepsL2
<1>4. IsStory(X, c, b.events, b, b, "none", P)
  BY <1>1, <1>2, <1>3 DEF IsStory
<1>5. QED
  BY <1>2, <1>4 DEF Told

\* One more event.
LEMMA StoryGoesOn ==
  ASSUME NEW X, NEW c, NEW s, NEW b, NEW h, Told(X, c, s, b, h), s.abort = "none",
         NEW t, Fields \subseteq DOMAIN t, NEW e, t.events = Append(s.events, e), Sane(e),
         "l1d" \in X => L1Told(e, s, t),
         "l2" \in X => L2Told(e, s, t),
         NEW h2, HitTold(c, e, h, h2)
  PROVE  Told(X, c, t, b, h2)
PROOF
<1>1. IsList(s.events)
  BY DEF Told
<1>2. PICK P : IsStory(X, c, s.events, b, s, h, P)
  BY DEF Told
<1> DEFINE N == Len(s.events)
           Q == [n \in 0 .. N + 1 |-> IF n = N + 1 THEN picture(t, h2) ELSE P[n]]
<1>3. /\ N \in Nat
      /\ IsList(t.events)
      /\ Len(t.events) = N + 1
      /\ \A n \in 1 .. N : t.events[n] = s.events[n]
      /\ t.events[N + 1] = e
  BY <1>1, Appended
<1> HIDE DEF N
<1>4. /\ \A n \in 0 .. N : Q[n] = P[n]
      /\ Q[N + 1] = picture(t, h2)
      /\ 0 \in 0 .. N /\ N \in 0 .. N
  BY <1>3
<1> HIDE DEF Q
<1>5. /\ Q[N + 1].hit = h2 /\ Q[N + 1].l1d = t.l1d /\ Q[N + 1].l2 = t.l2
      /\ SamePicture(X, Q[N], s) /\ Q[N].hit = h
      /\ SamePicture(X, Q[0], b) /\ Q[0].hit = "none"
  BY <1>2, <1>4 DEF IsStory, N, picture
<1>6. Tells(X, c, e, Q[N], Q[N + 1])
  <2>1. "l1d" \in X => L1Told(e, Q[N], Q[N + 1])
    BY <1>5 DEF SamePicture, KeepsL1, L1Told
  <2>2. "l2" \in X => L2Told(e, Q[N], Q[N + 1])
    BY <1>5 DEF SamePicture, KeepsL2, L2Told
  <2>3. QED
    BY <1>5, <2>1, <2>2 DEF Tells
<1>7. ASSUME NEW n \in 1 .. N + 1
      PROVE  Tells(X, c, t.events[n], Q[n - 1], Q[n])
  <2>1. CASE n = N + 1
    BY <1>3, <1>6, <2>1
  <2>2. CASE n # N + 1
    <3>1. n \in 1 .. N /\ n \in 0 .. N /\ n - 1 \in 0 .. N
      BY <1>3, <2>2
    <3>2. Tells(X, c, s.events[n], P[n - 1], P[n])
      BY <1>2, <3>1 DEF IsStory, N
    <3>3. QED
      BY <1>3, <1>4, <3>1, <3>2
  <2>3. QED
    BY <2>1, <2>2
<1>8. SamePicture(X, Q[N + 1], t)
  BY <1>5 DEF SamePicture, KeepsL1, KeepsL2
<1>9. IsStory(X, c, t.events, b, t, h2, Q)
  BY <1>3, <1>5, <1>7, <1>8 DEF IsStory
<1>10. QED
  BY <1>3, <1>9 DEF Told

\* No event.
LEMMA StoryStands ==
  ASSUME NEW X, NEW c, NEW s, NEW b, NEW h, Told(X, c, s, b, h), s.abort = "none",
         NEW t, Fields \subseteq DOMAIN t, t.events = s.events, SamePicture(X, s, t)
  PROVE  Told(X, c, t, b, h)
PROOF
<1>1. PICK P : IsStory(X, c, s.events, b, s, h, P)
  BY DEF Told
<1>2. SamePicture(X, P[Len(t.events)], t)
  BY <1>1, SamePictureTransitive DEF IsStory
<1>3. IsStory(X, c, t.events, b, t, h, P)
  BY <1>1, <1>2 DEF IsStory
<1>4. QED
  BY <1>3 DEF Told

(***************************************************************************)
(* The stages of an access.  A stage that succeeds makes at most one       *)
(* change to the caches X is about, and tells it.                          *)
(***************************************************************************)
Whole(s) ==
  Fields \subseteq DOMAIN s /\ L1Shape(s.l1d) /\ L1Shape(s.l1i) /\ L2Shape(s.l2)

Stage(X, t, s) ==
  t.abort = "none" =>
    /\ s.abort = "none"
    /\ \/ t.events = s.events /\ SamePicture(X, s, t)
       \/ \E e : /\ t.events = Append(s.events, e)
                 /\ NoHit(e) /\ Sane(e)
                 /\ "l1d" \in X => L1Told(e, s, t)
                 /\ "l2" \in X => L2Told(e, s, t)

\* What was told at s is told at t, with what changed on the way.
Carries(X, t, s) ==
  /\ Whole(t)
  /\ t.abort = "none" => s.abort = "none"
  /\ \A c, b, h : Told(X, c, s, b, h) => Told(X, c, t, b, h)

\* The L2 has the filled ways it had, and the same trees.
SteadyL2(t, s) ==
  \A j \in L2Sets :
    /\ t.l2[j].plru = s.l2[j].plru
    /\ \A w \in Plru2!Ways :
         t.l2[j].way[w].state = INVALID <=> s.l2[j].way[w].state = INVALID

Quiet(X, t, s) == Carries(X, t, s) /\ SteadyL2(t, s)

LEMMA StageCarries ==
  ASSUME NEW X, NEW s, NEW t, Whole(t), Stage(X, t, s)
  PROVE  Carries(X, t, s)
PROOF
<1>1. ASSUME NEW c, NEW b, NEW h, Told(X, c, s, b, h)
      PROVE  Told(X, c, t, b, h)
  <2>1. Fields \subseteq DOMAIN t
    BY DEF Whole
  <2>2. CASE t.abort # "none"
    BY <2>1, <2>2 DEF Told
  <2>3. CASE t.abort = "none" /\ t.events = s.events /\ SamePicture(X, s, t)
    <3>1. s.abort = "none"
      BY <2>3 DEF Stage
    <3>2. QED
      BY <1>1, <2>1, <2>3, <3>1, StoryStands
  <2>4. CASE t.abort = "none" /\ ~(t.events = s.events /\ SamePicture(X, s, t))
    <3>1. PICK e : /\ t.events = Append(s.events, e)
                   /\ NoHit(e) /\ Sane(e)
                   /\ "l1d" \in X => L1Told(e, s, t)
                   /\ "l2" \in X => L2Told(e, s, t)
      BY <2>4 DEF Stage
    <3>2. s.abort = "none" /\ HitTold(c, e, h, h)
      BY <2>4, <3>1 DEF Stage, HitTold
    <3>3. QED
      BY <1>1, <2>1, <3>1, <3>2, StoryGoesOn
  <2>5. QED
    BY <2>2, <2>3, <2>4
<1>2. t.abort = "none" => s.abort = "none"
  BY DEF Stage
<1>3. QED
  BY <1>1, <1>2 DEF Carries

LEMMA CarriesTransitive ==
  ASSUME NEW X, NEW r, NEW s, NEW t, Carries(X, s, r), Carries(X, t, s)
  PROVE  Carries(X, t, r)
BY DEF Carries

LEMMA QuietTransitive ==
  ASSUME NEW X, NEW r, NEW s, NEW t, Quiet(X, s, r), Quiet(X, t, s)
  PROVE  Quiet(X, t, r)
PROOF
<1>1. Carries(X, t, r)
  BY CarriesTransitive DEF Quiet
<1>2. SteadyL2(t, r)
  BY DEF Quiet, SteadyL2
<1>3. QED
  BY <1>1, <1>2 DEF Quiet

LEMMA QuietItself ==
  ASSUME NEW X, NEW s, Whole(s)
  PROVE  Quiet(X, s, s)
BY DEF Quiet, Carries, SteadyL2

(***************************************************************************)
(* One change.                                                             *)
(***************************************************************************)
LEMMA WholeIsLess ==
  ASSUME NEW s, Whole(s)
  PROVE  LessCaches(s, s)
BY DEF Whole, Fields, LessCaches, L1Less, L2Less, Sheds, Caches

LEMMA LessIsWhole ==
  ASSUME NEW t, NEW b, LessCaches(t, b), Fields \subseteq DOMAIN t
  PROVE  Whole(t)
BY DEF Whole, LessCaches, L1Less, L2Less

LEMMA L1ToldWay ==
  ASSUME NEW s, NEW t, L1Shape(s.l1d), NEW c, NEW i, NEW v, NEW w1,
         L1PutWay(t.l1d, s.l1d, c, i, v, w1),
         NEW e, e.type \in L1Types, e.core_id = c, e.set_index = i, e.way = v,
         c \in Cores /\ i \in L1Sets /\ v \in Plru1!Ways =>
           e.old_state = s.l1d[c][i].way[v].state /\ e.new_state = w1.state
  PROVE  L1Told(e, s, t)
PROOF
<1> SUFFICES ASSUME NEW k \in Cores, NEW m \in L1Sets, NEW u \in Plru1!Ways
             PROVE  IF AtL1(e, k, m, u)
                      THEN /\ s.l1d[k][m].way[u].state = e.old_state
                           /\ t.l1d[k][m].way[u].state = e.new_state
                      ELSE t.l1d[k][m].way[u].state = s.l1d[k][m].way[u].state
  BY DEF L1Told
<1>1. SetShape(s.l1d[k][m], Plru1!Ways) /\ k \in DOMAIN s.l1d /\ m \in DOMAIN s.l1d[k]
  BY DEF L1Shape
<1>2. CASE k = c /\ m = i /\ u = v
  <2>1. t.l1d[k][m].way[u] = w1
    BY <1>1, <1>2 DEF L1PutWay, L1Put, SetShape
  <2>2. QED
    BY <1>2, <2>1 DEF AtL1
<1>3. CASE ~(k = c /\ m = i /\ u = v)
  <2>1. t.l1d[k][m].way[u] = s.l1d[k][m].way[u]
    <3>1. CASE k = c /\ m = i
      BY <1>1, <1>3, <3>1 DEF L1PutWay, L1Put, SetShape
    <3>2. CASE ~(k = c /\ m = i)
      BY <1>1, <3>2 DEF L1PutWay, L1Put
    <3>3. QED
      BY <3>1, <3>2
  <2>2. QED
    BY <1>3, <2>1 DEF AtL1
<1>4. QED
  BY <1>2, <1>3

LEMMA L1Unmoved ==
  ASSUME NEW s, NEW t, t.l1d = s.l1d
  PROVE  KeepsL1(s, t) /\ \A e : e.type \notin L1Types => L1Told(e, s, t)
BY DEF KeepsL1, L1Told, AtL1

LEMMA L2WayPut ==
  ASSUME NEW x, NEW z, L2Shape(x), NEW j, NEW w, NEW w2, L2PutWay(z, x, j, w, w2)
  PROVE  \A m \in L2Sets :
           /\ z[m].plru = x[m].plru
           /\ \A u \in Plru2!Ways :
                z[m].way[u] = IF m = j /\ u = w THEN w2 ELSE x[m].way[u]
PROOF
<1> SUFFICES ASSUME NEW m \in L2Sets
             PROVE  /\ z[m].plru = x[m].plru
                    /\ \A u \in Plru2!Ways :
                         z[m].way[u] = IF m = j /\ u = w THEN w2 ELSE x[m].way[u]
  OBVIOUS
<1>1. SetShape(x[m], Plru2!Ways) /\ m \in DOMAIN x
  BY DEF L2Shape
<1>2. CASE m = j
  <2>1. z[m] = [x[m] EXCEPT !.way[w] = w2]
    BY <1>1, <1>2 DEF L2PutWay, L2Put
  <2>2. QED
    BY <1>1, <1>2, <2>1 DEF SetShape
<1>3. CASE m # j
  BY <1>1, <1>3 DEF L2PutWay, L2Put
<1>4. QED
  BY <1>2, <1>3

LEMMA L2WayKept ==
  ASSUME NEW s, NEW t, L2Shape(s.l2), NEW j, NEW w, NEW w2,
         L2PutWay(t.l2, s.l2, j, w, w2),
         j \in L2Sets /\ w \in Plru2!Ways =>
           (w2.state = INVALID <=> s.l2[j].way[w].state = INVALID)
  PROVE  SteadyL2(t, s)
PROOF
<1>1. \A m \in L2Sets :
        /\ t.l2[m].plru = s.l2[m].plru
        /\ \A u \in Plru2!Ways :
             t.l2[m].way[u] = IF m = j /\ u = w THEN w2 ELSE s.l2[m].way[u]
  BY L2WayPut
<1>2. QED
  BY <1>1 DEF SteadyL2

LEMMA L2Unmoved ==
  ASSUME NEW s, NEW t, SteadyL2(t, s)
  PROVE  KeepsL2(s, t) /\ \A e : e.type \notin L2Types => L2Told(e, s, t)
BY DEF SteadyL2, KeepsL2, L2Told, AtL2

LEMMA SteadyItself ==
  ASSUME NEW s, NEW t, t.l2 = s.l2
  PROVE  SteadyL2(t, s)
BY DEF SteadyL2

LEMMA L2ToldWay ==
  ASSUME NEW s, NEW t, L2Shape(s.l2), NEW j, NEW w, NEW w2,
         L2PutWay(t.l2, s.l2, j, w, w2),
         NEW e, e.type \in L2Types, e.set_index = j, e.way = w,
         j \in L2Sets /\ w \in Plru2!Ways =>
           /\ e.old_state = INVALID <=> s.l2[j].way[w].state = INVALID
           /\ e.new_state = INVALID <=> w2.state = INVALID
  PROVE  L2Told(e, s, t)
PROOF
<1>1. \A m \in L2Sets :
        /\ t.l2[m].plru = s.l2[m].plru
        /\ \A u \in Plru2!Ways :
             t.l2[m].way[u] = IF m = j /\ u = w THEN w2 ELSE s.l2[m].way[u]
  BY L2WayPut
<1>2. QED
  BY <1>1 DEF L2Told, AtL2

\* The events of the stages.
LEMMA EventFields ==
  ASSUME NEW type, NEW core, NEW level, NEW set, NEW way, NEW addr, NEW old, NEW new,
         NEW data, NEW e, e = event(type, core, level, set, way, addr, old, new, data)
  PROVE  /\ e.type = type /\ e.core_id = core /\ e.cache_level = level
         /\ e.set_index = set /\ e.way = way /\ e.old_state = old /\ e.new_state = new
BY DEF event

LEMMA PlainEvent ==
  ASSUME NEW e, e.type \notin {"L1D_HIT", "L2_HIT", "MEM_FETCH"}
  PROVE  NoHit(e)
PROOF
<1>1. counters_of(e) \in {{"snoops"}, {"prefetches"}, {}}
  BY DEF counters_of
<1>2. QED
  BY <1>1 DEF NoHit, Hits

LEMMA Emitted ==
  ASSUME NEW s, Fields \subseteq DOMAIN s, NEW e
  PROVE  /\ DOMAIN emit(s, e) = DOMAIN s
         /\ emit(s, e).events = Append(s.events, e)
         /\ emit(s, e).abort = s.abort
         /\ emit(s, e).l1d = s.l1d /\ emit(s, e).l1i = s.l1i /\ emit(s, e).l2 = s.l2
BY DEF emit, Fields, Caches

(***************************************************************************)
(* Snoops.  Only the L1D of the core that is visited changes.              *)
(***************************************************************************)
Spares(t, s, set) == \A c : c \notin set => t.l1d[c] = s.l1d[c]
Alone(t, s, k) == \A c : c # k => t.l1d[c] = s.l1d[c]

\* A way of core k's L1D changes and e tells it; a way of the L2 stays as
\* filled as it was.
LEMMA L1StageQuiet ==
  ASSUME NEW X, NEW s, Whole(s), NEW t, Whole(t), t.abort = s.abort,
         NEW e, t.events = Append(s.events, e),
         e.type \in {"SNOOP_DOWNGRADE", "SNOOP_INVALIDATE", "L1D_EVICT", "L1D_FILL"}, Sane(e),
         NEW k, NEW i, NEW v, NEW w1, L1PutWay(t.l1d, s.l1d, k, i, v, w1),
         e.core_id = k, e.set_index = i, e.way = v,
         k \in Cores /\ i \in L1Sets /\ v \in Plru1!Ways =>
           e.old_state = s.l1d[k][i].way[v].state /\ e.new_state = w1.state,
         SteadyL2(t, s)
  PROVE  Quiet(X, t, s) /\ Alone(t, s, k)
PROOF
<1>1. L1Shape(s.l1d)
  BY DEF Whole
<1>2. e.type \in L1Types /\ e.type \notin L2Types /\ NoHit(e)
  BY PlainEvent DEF L1Types, L2Types
<1>3. L1Told(e, s, t)
  BY <1>1, <1>2, L1ToldWay
<1>4. L2Told(e, s, t)
  BY <1>2, L2Unmoved
<1>5. Stage(X, t, s)
  BY <1>2, <1>3, <1>4 DEF Stage
<1>6. Alone(t, s, k)
  BY <1>1 DEF Alone, L1PutWay, L1Put
<1>7. QED
  BY <1>5, <1>6, StageCarries DEF Quiet

LEMMA DowngradeQuiet ==
  ASSUME NEW X, NEW s, Whole(s), NEW k, NEW l, NEW j, NEW w
  PROVE  /\ Quiet(X, downgrade(s, k, l, j, w), s)
         /\ Alone(downgrade(s, k, l, j, w), s, k)
PROOF
<1> DEFINE i == l1_to_index(l)
           ways == find_way(s.l1d[k][i], l1_to_tag(l))
           v == first(ways)
           peer == s.l1d[k][i].way[v]
           e == event("SNOOP_DOWNGRADE", k, 1, i, v, 0, peer.state, SHARED, peer.data)
           data == IF peer.state = MODIFIED THEN peer.data ELSE s.l2[j].way[w].data
           t == [s EXCEPT !.l2[j].way[w].data = data, !.l1d[k][i].way[v].state = SHARED]
           r == emit(t, e)
           w1 == [peer EXCEPT !.state = SHARED]
           w2 == [s.l2[j].way[w] EXCEPT !.data = data]
<1>1. downgrade(s, k, l, j, w) = IF ways = {} THEN s ELSE r
  BY DEF downgrade
<1>2. CASE ways = {}
  BY <1>1, <1>2, QuietItself DEF Alone
<1>3. CASE ways # {}
  <2>1. downgrade(s, k, l, j, w) = r
    BY <1>1, <1>3
  <2>2. LessCaches(r, s)
    BY <2>1, WholeIsLess, Downgrade, Zenon
  <2>3. /\ Fields \subseteq DOMAIN t
        /\ t.abort = s.abort /\ t.events = s.events
        /\ L1PutWay(t.l1d, s.l1d, k, i, v, w1)
        /\ L2PutWay(t.l2, s.l2, j, w, w2)
    BY DEF Whole, Fields, Caches, L1PutWay, L2PutWay, L1Put, L2Put
  <2>4. k \in Cores /\ i \in L1Sets /\ v \in Plru1!Ways => w1.state = SHARED
    BY DEF Whole, L1Shape, SetShape
  <2>5. j \in L2Sets /\ w \in Plru2!Ways =>
          (w2.state = INVALID <=> s.l2[j].way[w].state = INVALID)
    BY DEF Whole, L2Shape, SetShape
  <2>6. /\ e.type = "SNOOP_DOWNGRADE" /\ e.core_id = k /\ e.set_index = i /\ e.way = v
        /\ e.cache_level = 1 /\ e.old_state = peer.state /\ e.new_state = SHARED
    BY DEF event
  <2>7. Sane(e)
    BY <2>6, Zenon DEF Sane, L2Types
  <2> HIDE DEF e, t, w1, w2, v, i, ways
  <2>8. /\ Fields \subseteq DOMAIN r /\ r.abort = s.abort
        /\ r.events = Append(s.events, e)
        /\ r.l1d = t.l1d /\ r.l2 = t.l2
    BY <2>3, Emitted
  <2>9. Whole(r)
    BY <2>2, <2>8, LessIsWhole
  <2> HIDE DEF r
  <2>10. SteadyL2(r, s)
    BY <2>3, <2>5, <2>8, L2WayKept DEF Whole
  <2>11. Quiet(X, r, s) /\ Alone(r, s, k)
    BY <2>3, <2>4, <2>6, <2>7, <2>8, <2>9, <2>10, L1StageQuiet
  <2>12. QED
    BY <2>1, <2>11
<1>4. QED
  BY <1>2, <1>3

\* A stage without an event that leaves the L1Ds and what the L2 holds.
LEMMA StillQuiet ==
  ASSUME NEW X, NEW s, NEW t, Whole(t), t.abort = s.abort, t.events = s.events,
         t.l1d = s.l1d, SteadyL2(t, s)
  PROVE  Quiet(X, t, s)
PROOF
<1>1. SamePicture(X, s, t)
  BY L1Unmoved, L2Unmoved DEF SamePicture
<1>2. Stage(X, t, s)
  BY <1>1 DEF Stage
<1>3. QED
  BY <1>2, StageCarries DEF Quiet

LEMMA InvalidateDQuiet ==
  ASSUME NEW X, NEW s, Whole(s), NEW k, NEW l, NEW j, NEW w
  PROVE  /\ Quiet(X, invalidate_d(s, k, l, j, w), s)
         /\ Alone(invalidate_d(s, k, l, j, w), s, k)
PROOF
<1> DEFINE i == l1_to_index(l)
           ways == find_way(s.l1d[k][i], l1_to_tag(l))
           v == first(ways)
           peer == s.l1d[k][i].way[v]
           e == event("SNOOP_INVALIDATE", k, 1, i, v, 0, peer.state, INVALID, peer.data)
           w1 == invalidated(peer)
           w2 == [s.l2[j].way[w] EXCEPT !.d = @ \ {k}]
           u == [s EXCEPT !.l2[j].way[w].d = @ \ {k}]
           t == [u EXCEPT !.l1d[k][i].way[v] = invalidated(@)]
           r == emit(t, e)
<1>1. invalidate_d(s, k, l, j, w) = IF ways = {} THEN u ELSE r
  BY DEF invalidate_d
<1>2. LessCaches(invalidate_d(s, k, l, j, w), s)
  BY WholeIsLess, InvalidateD
<1>3. /\ Fields \subseteq DOMAIN u
      /\ u.abort = s.abort /\ u.events = s.events /\ u.l1d = s.l1d
      /\ L2PutWay(u.l2, s.l2, j, w, w2)
      /\ Fields \subseteq DOMAIN t
      /\ t.abort = s.abort /\ t.events = s.events /\ t.l2 = u.l2
      /\ L1PutWay(t.l1d, s.l1d, k, i, v, w1)
  BY DEF Whole, Fields, Caches, L1PutWay, L2PutWay, L1Put, L2Put
<1>4. k \in Cores /\ i \in L1Sets /\ v \in Plru1!Ways => w1.state = INVALID
  BY DEF Whole, L1Shape, SetShape, invalidated
<1>5. j \in L2Sets /\ w \in Plru2!Ways =>
        (w2.state = INVALID <=> s.l2[j].way[w].state = INVALID)
  BY DEF Whole, L2Shape, SetShape
<1>6. /\ e.type = "SNOOP_INVALIDATE" /\ e.core_id = k /\ e.set_index = i /\ e.way = v
      /\ e.cache_level = 1 /\ e.old_state = peer.state /\ e.new_state = INVALID
  BY DEF event
<1>7. Sane(e)
  BY <1>6, Zenon DEF Sane, L2Types
<1> HIDE DEF e, u, t, w1, w2, v, i, ways
<1>8. /\ Fields \subseteq DOMAIN r /\ r.abort = s.abort
      /\ r.events = Append(s.events, e)
      /\ r.l1d = t.l1d /\ r.l2 = u.l2
  BY <1>3, Emitted
<1> HIDE DEF r
<1>9. SteadyL2(u, s) /\ SteadyL2(r, s)
  BY <1>3, <1>5, <1>8, L2WayKept DEF Whole
<1>10. CASE ways = {}
  <2>1. Whole(u)
    BY <1>1, <1>2, <1>3, <1>10, LessIsWhole
  <2>2. Quiet(X, u, s) /\ Alone(u, s, k)
    BY <1>3, <1>9, <2>1, StillQuiet DEF Alone
  <2>3. QED
    BY <1>1, <1>10, <2>2
<1>11. CASE ways # {}
  <2>1. Whole(r)
    BY <1>1, <1>2, <1>8, <1>11, LessIsWhole
  <2>2. Quiet(X, r, s) /\ Alone(r, s, k)
    BY <1>3, <1>4, <1>6, <1>7, <1>8, <1>9, <2>1, L1StageQuiet
  <2>3. QED
    BY <1>1, <1>11, <2>2
<1>12. QED
  BY <1>10, <1>11

\* An instruction copy goes: the event is about no cell that is drawn.
LEMMA IStageQuiet ==
  ASSUME NEW X, NEW s, NEW t, Whole(t), t.abort = s.abort,
         NEW e, t.events = Append(s.events, e), e.type = "L1I_SNOOP_INVALIDATE",
         t.l1d = s.l1d, t.l2 = s.l2
  PROVE  Quiet(X, t, s)
PROOF
<1>1. e.type \notin L1Types /\ e.type \notin L2Types /\ NoHit(e) /\ Sane(e)
  BY PlainEvent DEF L1Types, L2Types, Sane
<1>2. SteadyL2(t, s)
  BY SteadyItself
<1>3. L1Told(e, s, t) /\ L2Told(e, s, t)
  BY <1>1, <1>2, L1Unmoved, L2Unmoved
<1>4. Stage(X, t, s)
  BY <1>1, <1>3 DEF Stage
<1>5. QED
  BY <1>2, <1>4, StageCarries DEF Quiet

LEMMA InvalidateIQuiet ==
  ASSUME NEW X, NEW s, Whole(s), NEW k, NEW l
  PROVE  /\ Quiet(X, invalidate_i(s, k, l), s)
         /\ invalidate_i(s, k, l).l1d = s.l1d
PROOF
<1> DEFINE i == l1_to_index(l)
           ways == find_way(s.l1i[k][i], l1_to_tag(l))
           v == first(ways)
           e == event("L1I_SNOOP_INVALIDATE", k, 1, i, v, 0,
                      s.l1i[k][i].way[v].state, INVALID, <<>>)
           t == [s EXCEPT !.l1i[k][i].way[v] = invalidated(@)]
           r == emit(t, e)
<1>1. invalidate_i(s, k, l) = IF ways = {} THEN s ELSE r
  BY DEF invalidate_i
<1>2. CASE ways = {}
  BY <1>1, <1>2, QuietItself
<1>3. CASE ways # {}
  <2>1. LessCaches(r, s) /\ invalidate_i(s, k, l) = r
    BY <1>1, <1>3, WholeIsLess, InvalidateI
  <2>2. /\ Fields \subseteq DOMAIN t
        /\ t.abort = s.abort /\ t.events = s.events /\ t.l1d = s.l1d /\ t.l2 = s.l2
    BY DEF Whole, Fields, Caches
  <2>3. e.type = "L1I_SNOOP_INVALIDATE"
    BY DEF event
  <2> HIDE DEF e, t
  <2>4. /\ Fields \subseteq DOMAIN r /\ r.abort = s.abort
        /\ r.events = Append(s.events, e) /\ r.l1d = s.l1d /\ r.l2 = s.l2
    BY <2>2, Emitted
  <2>5. Whole(r)
    BY <2>1, <2>4, LessIsWhole
  <2> HIDE DEF r
  <2>6. Quiet(X, r, s)
    BY <2>3, <2>4, <2>5, IStageQuiet
  <2>7. QED
    BY <2>1, <2>4, <2>6
<1>4. QED
  BY <1>2, <1>3

(***************************************************************************)
(* Evictions from the L1s and the copies evict_l2 drops.                   *)
(***************************************************************************)
LEMMA AbortQuiet ==
  ASSUME NEW X, NEW s, Whole(s), NEW why, why # "none"
  PROVE  /\ Quiet(X, [s EXCEPT !.abort = why], s)
         /\ [s EXCEPT !.abort = why].l1d = s.l1d
         /\ [s EXCEPT !.abort = why].abort = why
PROOF
<1> DEFINE t == [s EXCEPT !.abort = why]
<1>1. /\ Fields \subseteq DOMAIN t /\ t.abort = why
      /\ t.l1d = s.l1d /\ t.l1i = s.l1i /\ t.l2 = s.l2
  BY DEF Whole, Fields, Caches
<1> HIDE DEF t
<1>2. Whole(t) /\ SteadyL2(t, s)
  BY <1>1 DEF Whole, SteadyL2
<1>3. Stage(X, t, s)
  BY <1>1 DEF Stage
<1>4. Quiet(X, t, s)
  BY <1>2, <1>3, StageCarries DEF Quiet
<1>5. QED
  BY <1>1, <1>4 DEF t

LEMMA SteadyTransitive ==
  ASSUME NEW r, NEW s, NEW t, SteadyL2(s, r), SteadyL2(t, s)
  PROVE  SteadyL2(t, r)
BY DEF SteadyL2

\* MODIFIED bytes move to the way of the L2 that holds the line.
LEMMA ModifiedMoves ==
  ASSUME NEW s, Whole(s), NEW j, NEW v, NEW line,
         j \in L2Sets /\ v \in Plru2!Ways => s.l2[j].way[v].state # INVALID,
         NEW t, t = [s EXCEPT !.l2[j].way[v].data = line, !.l2[j].way[v].state = MODIFIED]
  PROVE  /\ Fields \subseteq DOMAIN t
         /\ t.abort = s.abort /\ t.events = s.events /\ t.l1d = s.l1d
         /\ SteadyL2(t, s)
PROOF
<1> DEFINE u == [s EXCEPT !.l2[j].way[v].data = line]
           w1 == [s.l2[j].way[v] EXCEPT !.data = line]
           w2 == [u.l2[j].way[v] EXCEPT !.state = MODIFIED]
<1>1. /\ Fields \subseteq DOMAIN u
      /\ u.abort = s.abort /\ u.events = s.events /\ u.l1d = s.l1d
      /\ L2PutWay(u.l2, s.l2, j, v, w1)
  BY DEF Whole, Fields, Caches, L2PutWay, L2Put
<1>2. t = [u EXCEPT !.l2[j].way[v].state = MODIFIED]
  OBVIOUS
<1>3. j \in L2Sets /\ v \in Plru2!Ways => Tame(w1, s.l2[j].way[v], s.l2[j].way[v])
  BY WholeIsLess, L2WayTameIn, TameChanges, Zenon
<1>4. j \in L2Sets /\ v \in Plru2!Ways =>
        (w1.state = INVALID <=> s.l2[j].way[v].state = INVALID)
  BY DEF Whole, L2Shape, SetShape
<1> HIDE DEF w1, u
<1>5. L2Less(u.l2, s.l2)
  BY <1>1, <1>3, WholeIsLess, L2WayChange DEF LessCaches
<1>6. L2Shape(u.l2) /\ SteadyL2(u, s)
  BY <1>1, <1>4, <1>5, L2WayKept, Zenon DEF L2Less, Whole
<1>7. /\ Fields \subseteq DOMAIN t
      /\ t.abort = u.abort /\ t.events = u.events /\ t.l1d = u.l1d
      /\ L2PutWay(t.l2, u.l2, j, v, w2)
  BY <1>1, <1>2, Zenon DEF Fields, Caches, L2PutWay, L2Put
<1>8. j \in L2Sets /\ v \in Plru2!Ways => w2.state # INVALID /\ u.l2[j].way[v].state # INVALID
  BY <1>6 DEF SteadyL2, L2Shape, SetShape, MODIFIED, INVALID
<1> HIDE DEF w2
<1>9. SteadyL2(t, u)
  BY <1>6, <1>7, <1>8, L2WayKept
<1>10. QED
  BY <1>1, <1>6, <1>7, <1>9, SteadyTransitive

LEMMA DropDQuiet ==
  ASSUME NEW X, NEW s, Whole(s), NEW k, NEW l, NEW j, NEW v,
         j \in L2Sets /\ v \in Plru2!Ways => s.l2[j].way[v].state # INVALID
  PROVE  Quiet(X, drop_d(s, k, l, j, v), s)
PROOF
<1>0. LessCaches(drop_d(s, k, l, j, v), s)
  BY WholeIsLess, DropD
<1> DEFINE i == l1_to_index(l)
           ways == find_way(s.l1d[k][i], l1_to_tag(l))
           w == first(ways)
           peer == s.l1d[k][i].way[w]
           e == event("SNOOP_INVALIDATE", k, 1, i, w, l, peer.state, INVALID, peer.data)
           w1 == invalidated(peer)
           m == [s EXCEPT !.l2[j].way[v].data = peer.data,
                          !.l2[j].way[v].state = MODIFIED]
           u == IF peer.state = MODIFIED THEN m ELSE s
           t == [u EXCEPT !.l1d[k][i].way[w] = invalidated(@)]
           a == [s EXCEPT !.abort = "stale_core_valid"]
           r == emit(t, e)
<1>1. drop_d(s, k, l, j, v) = IF k \notin s.l2[j].way[v].d THEN s
                              ELSE IF ways = {} THEN a ELSE r
  BY DEF drop_d
<1>2. Quiet(X, s, s) /\ Quiet(X, a, s)
  BY QuietItself, AbortQuiet
<1>3. ASSUME drop_d(s, k, l, j, v) = r PROVE Quiet(X, r, s)
  <2>1. LessCaches(r, s)
    BY <1>0, <1>3, Zenon
  <2>2. /\ Fields \subseteq DOMAIN u
        /\ u.abort = s.abort /\ u.events = s.events /\ u.l1d = s.l1d
        /\ SteadyL2(u, s)
    <3>1. SteadyL2(s, s)
      BY DEF SteadyL2
    <3> HIDE DEF peer
    <3>2. /\ Fields \subseteq DOMAIN m
          /\ m.abort = s.abort /\ m.events = s.events /\ m.l1d = s.l1d
          /\ SteadyL2(m, s)
      BY ModifiedMoves, Zenon
    <3> HIDE DEF m
    <3>3. QED
      BY <3>1, <3>2 DEF Whole
  <2>3. /\ Fields \subseteq DOMAIN t
        /\ t.abort = s.abort /\ t.events = s.events /\ t.l2 = u.l2
        /\ L1PutWay(t.l1d, s.l1d, k, i, w, w1)
    <3> HIDE DEF u
    <3>1. QED
      BY <2>2 DEF Fields, Caches, L1PutWay, L1Put
  <2>4. k \in Cores /\ i \in L1Sets /\ w \in Plru1!Ways => w1.state = INVALID
    BY DEF Whole, L1Shape, SetShape, invalidated
  <2>5. /\ e.type = "SNOOP_INVALIDATE" /\ e.core_id = k /\ e.set_index = i /\ e.way = w
        /\ e.cache_level = 1 /\ e.old_state = peer.state /\ e.new_state = INVALID
    BY DEF event
  <2>6. Sane(e)
    BY <2>5, Zenon DEF Sane, L2Types
  <2> HIDE DEF e, u, m, t, w1, w, i, ways
  <2>7. /\ Fields \subseteq DOMAIN r /\ r.abort = s.abort
        /\ r.events = Append(s.events, e)
        /\ r.l1d = t.l1d /\ r.l2 = u.l2
    BY <2>3, Emitted
  <2>8. Whole(r)
    BY <2>1, <2>7, LessIsWhole
  <2> HIDE DEF r
  <2>9. SteadyL2(r, s)
    BY <2>2, <2>7 DEF SteadyL2
  <2>10. QED
    BY <2>3, <2>4, <2>5, <2>6, <2>7, <2>8, <2>9, L1StageQuiet, Zenon
<1> HIDE DEF r, a, ways
<1>4. QED
  BY <1>1, <1>2, <1>3

LEMMA DropIQuiet ==
  ASSUME NEW X, NEW s, Whole(s), NEW k, NEW l, NEW j, NEW v
  PROVE  Quiet(X, drop_i(s, k, l, j, v), s)
PROOF
<1>0. LessCaches(drop_i(s, k, l, j, v), s)
  BY WholeIsLess, DropI
<1> DEFINE i == l1_to_index(l)
           ways == find_way(s.l1i[k][i], l1_to_tag(l))
           w == first(ways)
           e == event("L1I_SNOOP_INVALIDATE", k, 1, i, w, l,
                      s.l1i[k][i].way[w].state, INVALID, <<>>)
           t == [s EXCEPT !.l1i[k][i].way[w] = invalidated(@)]
           a == [s EXCEPT !.abort = "stale_core_valid"]
           r == emit(t, e)
<1>1. drop_i(s, k, l, j, v) = IF k \notin s.l2[j].way[v].i THEN s
                              ELSE IF ways = {} THEN a ELSE r
  BY DEF drop_i
<1>2. Quiet(X, s, s) /\ Quiet(X, a, s)
  BY QuietItself, AbortQuiet
<1>3. ASSUME drop_i(s, k, l, j, v) = r PROVE Quiet(X, r, s)
  <2>1. LessCaches(r, s)
    BY <1>0, <1>3
  <2>2. /\ Fields \subseteq DOMAIN t
        /\ t.abort = s.abort /\ t.events = s.events /\ t.l1d = s.l1d /\ t.l2 = s.l2
    BY DEF Whole, Fields, Caches
  <2>3. e.type = "L1I_SNOOP_INVALIDATE"
    BY DEF event
  <2> HIDE DEF e, t
  <2>4. /\ Fields \subseteq DOMAIN r /\ r.abort = s.abort
        /\ r.events = Append(s.events, e) /\ r.l1d = s.l1d /\ r.l2 = s.l2
    BY <2>2, Emitted
  <2>5. Whole(r)
    BY <2>1, <2>4, LessIsWhole
  <2> HIDE DEF r
  <2>6. QED
    BY <2>3, <2>4, <2>5, IStageQuiet
<1> HIDE DEF r, a, ways
<1>4. QED
  BY <1>1, <1>2, <1>3

\* The victim of an L1 leaves the mask of its L2 line, which stays filled.
LEMMA ReleasedStays ==
  ASSUME NEW way, {"tag", "state"} \subseteq DOMAIN way, way.state # INVALID, NEW c, NEW line
  PROVE  /\ Mesi!l2_cache_write_way(way, c, line).state # INVALID
         /\ Mesi!release_d(way, c).state # INVALID
         /\ Mesi!release_i(way, c).state # INVALID
BY DEF Mesi!l2_cache_write_way, Mesi!release_d, Mesi!release_i, Mesi!last_sharer_gone,
       Mesi!MODIFIED, Mesi!EXCLUSIVE, INVALID

LEMMA EvictDQuiet ==
  ASSUME NEW X, NEW s, Whole(s), NEW c, NEW i, NEW v
  PROVE  /\ Quiet(X, evict_l1_d_way(s, c, i, v), s)
         /\ Alone(evict_l1_d_way(s, c, i, v), s, c)
PROOF
<1>0. LessCaches(evict_l1_d_way(s, c, i, v), s)
  BY WholeIsLess, EvictDWay
<1> DEFINE old == s.l1d[c][i].way[v]
           l == l1_to_addr(old.tag, i)
           j == l2_to_index(l)
           ways == find_way(s.l2[j], l2_to_tag(l))
           w == first(ways)
           e == event("L1D_EVICT", c, 1, i, v, l, old.state, INVALID, old.data)
           way == s.l2[j].way[w]
           w1 == invalidated(old)
           w2 == IF old.state = MODIFIED THEN Mesi!l2_cache_write_way(way, c, old.data)
                                         ELSE Mesi!release_d(way, c)
           u == [s EXCEPT !.l2[j].way[w] = w2]
           t == [u EXCEPT !.l1d[c][i].way[v] = invalidated(@)]
           a == [s EXCEPT !.abort = "inclusion"]
           r == emit(t, e)
<1>1. evict_l1_d_way(s, c, i, v) =
        IF old.state = INVALID THEN s ELSE IF ways = {} THEN a ELSE r
  BY DEF evict_l1_d_way
<1>2. Quiet(X, s, s) /\ Alone(s, s, c) /\ Quiet(X, a, s) /\ Alone(a, s, c)
  BY QuietItself, AbortQuiet DEF Alone
<1>3. ASSUME ways # {}, evict_l1_d_way(s, c, i, v) = r
      PROVE  Quiet(X, r, s) /\ Alone(r, s, c)
  <2>1. LessCaches(r, s)
    BY <1>0, <1>3, Zenon
  <2>2. j \in L2Sets => way.state # INVALID
    <3> HIDE DEF j, l
    <3>1. QED
      BY <1>3, WholeIsLess, L2Found DEF LessCaches
  <2>3. j \in L2Sets /\ w \in Plru2!Ways =>
          (w2.state = INVALID <=> s.l2[j].way[w].state = INVALID)
    <3> SUFFICES ASSUME j \in L2Sets, w \in Plru2!Ways
                 PROVE  w2.state # INVALID /\ way.state # INVALID
      BY Zenon
    <3>1. {"tag", "state"} \subseteq DOMAIN way
      BY Zenon DEF Whole, L2Shape, SetShape
    <3> HIDE DEF way, j, w, old
    <3>2. QED
      BY <2>2, <3>1, ReleasedStays
  <2> HIDE DEF w2
  <2>4. /\ Fields \subseteq DOMAIN u
        /\ u.abort = s.abort /\ u.events = s.events /\ u.l1d = s.l1d
        /\ L2PutWay(u.l2, s.l2, j, w, w2)
    BY DEF Whole, Fields, Caches, L2PutWay, L2Put
  <2>5. /\ Fields \subseteq DOMAIN t
        /\ t.abort = s.abort /\ t.events = s.events /\ t.l2 = u.l2
        /\ L1PutWay(t.l1d, s.l1d, c, i, v, w1)
    <3> HIDE DEF u
    <3>1. QED
      BY <2>4 DEF Fields, Caches, L1PutWay, L1Put
  <2>6. c \in Cores /\ i \in L1Sets /\ v \in Plru1!Ways => w1.state = INVALID
    BY DEF Whole, L1Shape, SetShape, invalidated
  <2>7. /\ e.type = "L1D_EVICT" /\ e.core_id = c /\ e.set_index = i /\ e.way = v
        /\ e.cache_level = 1 /\ e.old_state = old.state /\ e.new_state = INVALID
    BY DEF event
  <2>8. Sane(e)
    BY <2>7, Zenon DEF Sane, L2Types
  <2> HIDE DEF e, u, t, w1, w, j, l, ways
  <2>9. /\ Fields \subseteq DOMAIN r /\ r.abort = s.abort
        /\ r.events = Append(s.events, e)
        /\ r.l1d = t.l1d /\ r.l2 = u.l2
    BY <2>5, Emitted
  <2>10. Whole(r)
    BY <2>1, <2>9, LessIsWhole
  <2> HIDE DEF r
  <2>11. SteadyL2(r, s)
    BY <2>3, <2>4, <2>9, L2WayKept DEF Whole
  <2>12. QED
    BY <2>5, <2>6, <2>7, <2>8, <2>9, <2>10, <2>11, L1StageQuiet, Zenon
<1> HIDE DEF r, a, ways, old
<1>4. QED
  BY <1>1, <1>2, <1>3

\* The L1I's eviction is reported as one of the L1D: a story of the L1Ds goes
\* on only if there is nothing to evict.
LEMMA EvictIQuiet ==
  ASSUME NEW X, NEW s, Whole(s), NEW c, NEW i, NEW v,
         "l1d" \in X => s.l1i[c][i].way[v].state = INVALID
  PROVE  /\ Quiet(X, evict_l1_i_way(s, c, i, v), s)
         /\ evict_l1_i_way(s, c, i, v).l1d = s.l1d
PROOF
<1>0. LessCaches(evict_l1_i_way(s, c, i, v), s)
  BY WholeIsLess, EvictIWay
<1> DEFINE old == s.l1i[c][i].way[v]
           l == l1_to_addr(old.tag, i)
           j == l2_to_index(l)
           ways == find_way(s.l2[j], l2_to_tag(l))
           w == first(ways)
           e == event("L1D_EVICT", c, 1, i, v, l, old.state, INVALID, old.data)
           way == s.l2[j].way[w]
           w2 == Mesi!release_i(way, c)
           u == [s EXCEPT !.l2[j].way[w] = w2]
           t == [u EXCEPT !.l1i[c][i].way[v] = invalidated(@)]
           a == [s EXCEPT !.abort = "inclusion"]
           r == emit(t, e)
<1>1. evict_l1_i_way(s, c, i, v) =
        IF old.state = INVALID THEN s ELSE IF ways = {} THEN a ELSE r
  BY DEF evict_l1_i_way
<1>2. Quiet(X, s, s) /\ Quiet(X, a, s) /\ a.l1d = s.l1d
  BY QuietItself, AbortQuiet
<1>3. ASSUME old.state # INVALID, ways # {}, evict_l1_i_way(s, c, i, v) = r
      PROVE  Quiet(X, r, s) /\ r.l1d = s.l1d
  <2>1. LessCaches(r, s) /\ "l1d" \notin X
    BY <1>0, <1>3, Zenon
  <2>2. j \in L2Sets => way.state # INVALID
    <3> HIDE DEF j, l
    <3>1. QED
      BY <1>3, WholeIsLess, L2Found DEF LessCaches
  <2>3. j \in L2Sets /\ w \in Plru2!Ways =>
          (w2.state = INVALID <=> s.l2[j].way[w].state = INVALID)
    <3> SUFFICES ASSUME j \in L2Sets, w \in Plru2!Ways
                 PROVE  w2.state # INVALID /\ way.state # INVALID
      BY Zenon
    <3>1. {"tag", "state"} \subseteq DOMAIN way
      BY Zenon DEF Whole, L2Shape, SetShape
    <3> HIDE DEF way, j, w, old
    <3>2. QED
      BY <2>2, <3>1, ReleasedStays
  <2> HIDE DEF w2
  <2>4. /\ Fields \subseteq DOMAIN u
        /\ u.abort = s.abort /\ u.events = s.events /\ u.l1d = s.l1d
        /\ L2PutWay(u.l2, s.l2, j, w, w2)
    BY DEF Whole, Fields, Caches, L2PutWay, L2Put
  <2>5. /\ Fields \subseteq DOMAIN t
        /\ t.abort = s.abort /\ t.events = s.events /\ t.l2 = u.l2 /\ t.l1d = s.l1d
    <3> HIDE DEF u
    <3>1. QED
      BY <2>4 DEF Fields, Caches
  <2>6. e.type = "L1D_EVICT" /\ e.cache_level = 1 /\ e.new_state = INVALID
    BY DEF event
  <2>7. Sane(e) /\ NoHit(e) /\ e.type \notin L2Types
    BY <2>6, PlainEvent, Zenon DEF Sane, L2Types
  <2> HIDE DEF e, u, t, w, j, l, ways
  <2>8. /\ Fields \subseteq DOMAIN r /\ r.abort = s.abort
        /\ r.events = Append(s.events, e)
        /\ r.l1d = s.l1d /\ r.l2 = u.l2
    BY <2>5, Emitted
  <2>9. Whole(r)
    BY <2>1, <2>8, LessIsWhole
  <2> HIDE DEF r
  <2>10. SteadyL2(r, s)
    BY <2>3, <2>4, <2>8, L2WayKept DEF Whole
  <2>11. Stage(X, r, s)
    BY <2>1, <2>7, <2>8, <2>10, L2Unmoved DEF Stage
  <2>12. QED
    BY <2>8, <2>9, <2>10, <2>11, StageCarries DEF Quiet
<1> HIDE DEF r, a, ways, old
<1>4. QED
  BY <1>1, <1>2, <1>3

(***************************************************************************)
(* The loops.                                                              *)
(***************************************************************************)
LEMMA QuietLoop ==
  ASSUME NEW X, NEW s, NEW N \in Nat, NEW f, Quiet(X, f[0], s),
         \A n \in 1 .. N : Quiet(X, f[n - 1], s) => Quiet(X, f[n], f[n - 1])
  PROVE  Quiet(X, f[N], s)
PROOF
<1> DEFINE S == {n \in 0 .. N : Quiet(X, f[n], s)}
<1>1. 0 \in S
  OBVIOUS
<1>2. ASSUME NEW n \in 1 .. N, n - 1 \in S PROVE n \in S
  <2>1. Quiet(X, f[n - 1], s) /\ n \in 0 .. N
    BY <1>2
  <2>2. Quiet(X, f[n], s)
    BY <2>1, QuietTransitive
  <2>3. QED
    BY <2>1, <2>2
<1> HIDE DEF S
<1>3. N \in S
  BY <1>1, <1>2, UpTo
<1>4. QED
  BY <1>3 DEF S

\* The L1Ds of the cores outside set stay.
LEMMA PeersLoop ==
  ASSUME NEW X, NEW s, NEW set, NEW N \in Nat, NEW f, Quiet(X, f[0], s), f[0].l1d = s.l1d,
         \A n \in 1 .. N :
           Whole(f[n - 1]) => /\ Quiet(X, f[n], f[n - 1])
                              /\ Spares(f[n], f[n - 1], set)
  PROVE  /\ Quiet(X, f[N], s)
         /\ Spares(f[N], s, set)
PROOF
<1> DEFINE Good(n) == Quiet(X, f[n], s) /\ Spares(f[n], s, set)
           S == {n \in 0 .. N : Good(n)}
<1>1. 0 \in S
  BY DEF Spares
<1>2. ASSUME NEW n \in 1 .. N, n - 1 \in S PROVE n \in S
  <2>1. Good(n - 1) /\ n \in 0 .. N
    BY <1>2
  <2>2. Whole(f[n - 1])
    BY <2>1 DEF Quiet, Carries
  <2>3. /\ Quiet(X, f[n], f[n - 1])
        /\ Spares(f[n], f[n - 1], set)
    BY <2>2
  <2>4. Quiet(X, f[n], s)
    BY <2>1, <2>3, QuietTransitive
  <2>5. QED
    BY <2>1, <2>3, <2>4 DEF Spares
<1> HIDE DEF S
<1>3. N \in S
  BY <1>1, <1>2, UpTo
<1>4. QED
  BY <1>3 DEF S

LEMMA DowngradeAll ==
  ASSUME NEW X, NEW s, Whole(s), NEW sharers, NEW l, NEW j, NEW w,
         j \in L2Sets /\ w \in Plru2!Ways => s.l2[j].way[w].state # INVALID
  PROVE  /\ Quiet(X, snoop_downgrade_peers(s, sharers, l, j, w), s)
         /\ Spares(snoop_downgrade_peers(s, sharers, l, j, w), s, sharers)
PROOF
<1> DEFINE t == [s EXCEPT !.l2[j].way[w].state = SHARED]
           w2 == [s.l2[j].way[w] EXCEPT !.state = SHARED]
<1>1. Quiet(X, t, s) /\ t.l1d = s.l1d
  <2>1. /\ Fields \subseteq DOMAIN t
        /\ t.abort = s.abort /\ t.events = s.events /\ t.l1d = s.l1d
        /\ t = [s EXCEPT !.l2[j].way[w] = w2]
        /\ L2PutWay(t.l2, s.l2, j, w, w2)
    BY DEF Whole, Fields, Caches, L2PutWay, L2Put
  <2>2. j \in L2Sets /\ w \in Plru2!Ways => Tame(w2, s.l2[j].way[w], s.l2[j].way[w])
    BY WholeIsLess, L2WayTameIn, TameChanges, Zenon
  <2>3. j \in L2Sets /\ w \in Plru2!Ways => w2.state # INVALID
    BY DEF Whole, L2Shape, SetShape, SHARED, INVALID
  <2> HIDE DEF t, w2
  <2>4. LessCaches(t, s)
    BY <2>1, <2>2, WholeIsLess, L2WayChanged
  <2>5. SteadyL2(t, s)
    BY <2>1, <2>3, L2WayKept DEF Whole
  <2>6. QED
    BY <2>1, <2>4, <2>5, LessIsWhole, StillQuiet, Zenon
<1> HIDE DEF t
<1>2. NUM_CORES \in Nat
  BY GeometryAssumption
<1>3. PICK f : /\ snoop_downgrade_peers(s, sharers, l, j, w) = f[NUM_CORES]
               /\ IsLoop(f, NUM_CORES, t, "downgrade", sharers, l, j, w)
  BY DowngradeRounds DEF t
<1>4. f[0] = t
  BY <1>2, <1>3, Rounds
<1>5. ASSUME NEW n \in 1 .. NUM_CORES, Whole(f[n - 1])
      PROVE  /\ Quiet(X, f[n], f[n - 1])
             /\ n - 1 \in sharers => Alone(f[n], f[n - 1], n - 1)
             /\ n - 1 \notin sharers => f[n] = f[n - 1]
  BY <1>2, <1>3, <1>5, DowngradeQuiet, QuietItself, Rounds DEF Round
<1>6. ASSUME NEW n \in 1 .. NUM_CORES, Whole(f[n - 1])
      PROVE  /\ Quiet(X, f[n], f[n - 1])
             /\ Spares(f[n], f[n - 1], sharers)
  BY <1>5, <1>6 DEF Alone, Spares
<1>7. Quiet(X, f[NUM_CORES], s) /\ Spares(f[NUM_CORES], s, sharers)
  BY <1>1, <1>2, <1>4, <1>6, PeersLoop
<1>8. QED
  BY <1>3, <1>7

LEMMA InvalidateAll ==
  ASSUME NEW X, NEW s, Whole(s), NEW set, NEW l, NEW j, NEW w
  PROVE  /\ Quiet(X, snoop_invalidate_peers(s, set, l, j, w), s)
         /\ Spares(snoop_invalidate_peers(s, set, l, j, w), s, set)
PROOF
<1>1. NUM_CORES \in Nat
  BY GeometryAssumption
<1>2. PICK f : /\ snoop_invalidate_peers(s, set, l, j, w) = f[NUM_CORES]
               /\ IsLoop(f, NUM_CORES, s, "invalidate_d", set, l, j, w)
  BY InvalidateRounds
<1>3. f[0] = s /\ Quiet(X, s, s)
  BY <1>1, <1>2, Rounds, QuietItself
<1>4. ASSUME NEW n \in 1 .. NUM_CORES, Whole(f[n - 1])
      PROVE  /\ Quiet(X, f[n], f[n - 1])
             /\ n - 1 \in set => Alone(f[n], f[n - 1], n - 1)
             /\ n - 1 \notin set => f[n] = f[n - 1]
  <2>1. f[n] = IF n - 1 \in set THEN invalidate_d(f[n - 1], n - 1, l, j, w) ELSE f[n - 1]
    BY <1>1, <1>2, Rounds DEF Round
  <2>2. QED
    BY <1>4, <2>1, InvalidateDQuiet, QuietItself
<1>5. ASSUME NEW n \in 1 .. NUM_CORES, Whole(f[n - 1])
      PROVE  /\ Quiet(X, f[n], f[n - 1])
             /\ Spares(f[n], f[n - 1], set)
  BY <1>4, <1>5 DEF Alone, Spares
<1>6. Quiet(X, f[NUM_CORES], s) /\ Spares(f[NUM_CORES], s, set)
  BY <1>1, <1>3, <1>5, PeersLoop
<1>7. QED
  BY <1>2, <1>6

LEMMA InvalidateIAll ==
  ASSUME NEW X, NEW s, Whole(s), NEW l, NEW j, NEW w
  PROVE  /\ Quiet(X, snoop_invalidate_peers_i(s, l, j, w), s)
         /\ \A c : snoop_invalidate_peers_i(s, l, j, w).l1d[c] = s.l1d[c]
PROOF
<1>0. LessCaches(snoop_invalidate_peers_i(s, l, j, w), s)
  BY WholeIsLess, InvalidateILoop
<1>1. NUM_CORES \in Nat
  BY GeometryAssumption
<1>2. PICK f : /\ snoop_invalidate_peers_i(s, l, j, w) = [f[NUM_CORES] EXCEPT !.l2[j].way[w].i = {}]
               /\ IsLoop(f, NUM_CORES, s, "invalidate_i", s.l2[j].way[w].i, l, l, l)
  BY InvalidateIRounds
<1>3. f[0] = s /\ Quiet(X, s, s)
  BY <1>1, <1>2, Rounds, QuietItself
<1>4. ASSUME NEW n \in 1 .. NUM_CORES, Whole(f[n - 1])
      PROVE  Quiet(X, f[n], f[n - 1]) /\ f[n].l1d = f[n - 1].l1d
  <2>1. \/ f[n] = invalidate_i(f[n - 1], n - 1, l)
        \/ f[n] = f[n - 1]
    BY <1>1, <1>2, Rounds DEF Round
  <2>2. QED
    BY <1>4, <2>1, InvalidateIQuiet, QuietItself
<1>5. ASSUME NEW n \in 1 .. NUM_CORES, Whole(f[n - 1])
      PROVE  /\ Quiet(X, f[n], f[n - 1])
             /\ Spares(f[n], f[n - 1], {})
  BY <1>4, <1>5 DEF Spares
<1> DEFINE t == f[NUM_CORES]
           w2 == [t.l2[j].way[w] EXCEPT !.i = {}]
           r == [t EXCEPT !.l2[j].way[w].i = {}]
<1>6. Quiet(X, t, s) /\ \A c : t.l1d[c] = s.l1d[c]
  <2>1. /\ Quiet(X, f[NUM_CORES], s)
        /\ Spares(f[NUM_CORES], s, {})
    BY <1>1, <1>3, <1>5, PeersLoop
  <2>2. QED
    BY <2>1 DEF Spares
<1> HIDE DEF t
<1>7. Whole(t)
  BY <1>6 DEF Quiet, Carries
<1>8. /\ Fields \subseteq DOMAIN r
      /\ r.abort = t.abort /\ r.events = t.events /\ r.l1d = t.l1d
      /\ L2PutWay(r.l2, t.l2, j, w, w2)
  BY <1>7 DEF Whole, Fields, Caches, L2PutWay, L2Put
<1>9. j \in L2Sets /\ w \in Plru2!Ways =>
        (w2.state = INVALID <=> t.l2[j].way[w].state = INVALID)
  BY <1>7 DEF Whole, L2Shape, SetShape
<1>10. snoop_invalidate_peers_i(s, l, j, w) = r
  BY <1>2 DEF t
<1> HIDE DEF r, w2
<1>11. Whole(r) /\ SteadyL2(r, t)
  BY <1>0, <1>7, <1>8, <1>9, <1>10, LessIsWhole, L2WayKept DEF Whole
<1>12. Quiet(X, r, t)
  BY <1>8, <1>11, StillQuiet
<1>13. Quiet(X, r, s)
  BY <1>6, <1>12, QuietTransitive
<1>14. QED
  BY <1>6, <1>8, <1>10, <1>13

LEMMA BackInvalidateAll ==
  ASSUME NEW X, NEW s, Whole(s), NEW l, NEW j, NEW v,
         j \in L2Sets /\ v \in Plru2!Ways => s.l2[j].way[v].state # INVALID
  PROVE  Quiet(X, back_invalidate(s, l, j, v), s)
PROOF
<1> DEFINE set == s.l2[j].way[v].d \cup s.l2[j].way[v].i
<1>1. NUM_CORES \in Nat
  BY GeometryAssumption
<1>2. PICK f : /\ back_invalidate(s, l, j, v) = f[NUM_CORES]
               /\ IsLoop(f, NUM_CORES, s, "back_invalidate", set, l, j, v)
  BY BackInvalidateRounds
<1> HIDE DEF set
<1>3. f[0] = s /\ Quiet(X, s, s)
  BY <1>1, <1>2, Rounds, QuietItself
<1>4. ASSUME NEW n \in 1 .. NUM_CORES, Quiet(X, f[n - 1], s)
      PROVE  Quiet(X, f[n], f[n - 1])
  <2> DEFINE t == drop_d(f[n - 1], n - 1, l, j, v)
  <2>1. /\ Whole(f[n - 1])
        /\ j \in L2Sets /\ v \in Plru2!Ways => f[n - 1].l2[j].way[v].state # INVALID
    BY <1>4 DEF Quiet, Carries, SteadyL2
  <2>2. Quiet(X, t, f[n - 1])
    BY <2>1, DropDQuiet
  <2>3. f[n] = IF n - 1 \in set THEN drop_i(t, n - 1, l, j, v) ELSE f[n - 1]
    BY <1>1, <1>2, Rounds DEF Round
  <2> HIDE DEF t
  <2>4. Whole(t)
    BY <2>2 DEF Quiet, Carries
  <2>5. Quiet(X, drop_i(t, n - 1, l, j, v), f[n - 1])
    BY <2>2, <2>4, DropIQuiet, QuietTransitive
  <2>6. QED
    BY <2>1, <2>3, <2>5, QuietItself
<1>5. QED
  BY <1>1, <1>2, <1>3, <1>4, QuietLoop

(***************************************************************************)
(* Room for a fill.                                                        *)
(***************************************************************************)
VacantL1(set) == l1_room(set) \in Plru1!Ways => set.way[l1_room(set)].state = INVALID
VacantL2(set) == l2_room(set) \in Plru2!Ways => set.way[l2_room(set)].state = INVALID

LEMMA FirstInvalid ==
  ASSUME NEW set, SetShape(set, Plru1!Ways) \/ SetShape(set, Plru2!Ways),
         invalid_ways(set) # {}
  PROVE  set.way[first(invalid_ways(set))].state = INVALID
PROOF
<1>1. invalid_ways(set) \subseteq Nat
  BY GeometryAssumption DEF invalid_ways, SetShape, Plru1!Ways, Plru2!Ways
<1>2. first(invalid_ways(set)) \in invalid_ways(set)
  BY <1>1, FirstIsOne
<1>3. QED
  BY <1>2 DEF invalid_ways

LEMMA EvictedL1Vacant ==
  ASSUME NEW set, SetShape(set, Plru1!Ways)
  PROVE  /\ set.way[l1_room(set)].state = INVALID => VacantL1(set)
         /\ VacantL1([set EXCEPT !.way[l1_room(set)] = invalidated(@)])
PROOF
<1> DEFINE v == l1_room(set)
           new == [set EXCEPT !.way[v] = invalidated(@)]
<1>1. CASE v \in Plru1!Ways
  <2>1. SetShape(new, Plru1!Ways) /\ new.way[v].state = INVALID
    BY <1>1 DEF SetShape, invalidated
  <2>2. v \in invalid_ways(new)
    BY <1>1, <2>1 DEF invalid_ways, SetShape
  <2> HIDE DEF new, v
  <2>3. new.way[l1_room(new)].state = INVALID
    BY <2>1, <2>2, FirstInvalid DEF l1_room
  <2>4. QED
    BY <2>3 DEF VacantL1, new, v
<1>2. CASE v \notin Plru1!Ways
  <2>1. /\ DOMAIN new.way = DOMAIN set.way
        /\ new.plru = set.plru
        /\ \A w \in DOMAIN set.way : new.way[w] = set.way[w]
    BY <1>2 DEF SetShape
  <2> HIDE DEF new
  <2>2. invalid_ways(new) = invalid_ways(set)
    BY <2>1 DEF invalid_ways
  <2>3. l1_room(new) = v
    BY <2>1, <2>2 DEF l1_room, v
  <2>4. VacantL1(set) /\ VacantL1(new)
    BY <1>2, <2>3 DEF VacantL1
  <2>5. QED
    BY <2>4 DEF new
<1>3. QED
  BY <1>1, <1>2

LEMMA EvictDVacates ==
  ASSUME NEW X, NEW s, Whole(s), NEW c \in Cores, NEW i \in L1Sets
  PROVE  /\ Quiet(X, evict_l1_d(s, c, i), s)
         /\ evict_l1_d(s, c, i).abort = "none" => VacantL1(evict_l1_d(s, c, i).l1d[c][i])
PROOF
<1> DEFINE v == l1_room(s.l1d[c][i])
           old == s.l1d[c][i].way[v]
           l == l1_to_addr(old.tag, i)
           j == l2_to_index(l)
           ways == find_way(s.l2[j], l2_to_tag(l))
           w == first(ways)
           e == event("L1D_EVICT", c, 1, i, v, l, old.state, INVALID, old.data)
           w2 == IF old.state = MODIFIED
                   THEN Mesi!l2_cache_write_way(s.l2[j].way[w], c, old.data)
                   ELSE Mesi!release_d(s.l2[j].way[w], c)
           t == [s EXCEPT !.l2[j].way[w] = w2, !.l1d[c][i].way[v] = invalidated(@)]
           a == [s EXCEPT !.abort = "inclusion"]
<1>1. evict_l1_d(s, c, i) =
        IF old.state = INVALID THEN s ELSE IF ways = {} THEN a ELSE emit(t, e)
  BY DEF evict_l1_d, evict_l1_d_way
<1>2. SetShape(s.l1d[c][i], Plru1!Ways) /\ c \in DOMAIN s.l1d /\ i \in DOMAIN s.l1d[c]
  BY DEF Whole, L1Shape
<1>3. Quiet(X, evict_l1_d(s, c, i), s)
  BY EvictDQuiet DEF evict_l1_d
<1>4. emit(t, e).l1d[c][i] = [s.l1d[c][i] EXCEPT !.way[v] = invalidated(@)]
  <2> HIDE DEF w2, v, e
  <2>1. Fields \subseteq DOMAIN t
    BY DEF Whole, Fields, Caches
  <2>2. emit(t, e).l1d = t.l1d
    BY <2>1, Emitted, Zenon
  <2>3. t.l1d[c][i] = [s.l1d[c][i] EXCEPT !.way[v] = invalidated(@)]
    BY <1>2 DEF Whole, Fields, Caches
  <2>4. QED
    BY <2>2, <2>3, Zenon
<1>5. a.abort = "inclusion"
  BY AbortQuiet
<1> HIDE DEF t, e, a, ways
<1>6. QED
  BY <1>1, <1>2, <1>3, <1>4, <1>5, EvictedL1Vacant

\* A vacant way stays vacant while the L2 is steady.
LEMMA SteadyVacant ==
  ASSUME NEW s, NEW t, Whole(s), Whole(t), SteadyL2(t, s), NEW j \in L2Sets
  PROVE  /\ l2_room(t.l2[j]) = l2_room(s.l2[j])
         /\ VacantL2(s.l2[j]) => VacantL2(t.l2[j])
PROOF
<1>1. SetShape(s.l2[j], Plru2!Ways) /\ SetShape(t.l2[j], Plru2!Ways)
  BY DEF Whole, L2Shape
<1>2. invalid_ways(t.l2[j]) = invalid_ways(s.l2[j])
  BY <1>1 DEF invalid_ways, SetShape, SteadyL2
<1>3. l2_room(t.l2[j]) = l2_room(s.l2[j])
  BY <1>2 DEF l2_room, SteadyL2
<1>4. QED
  BY <1>3 DEF VacantL2, SteadyL2

LEMMA DropL2Carries ==
  ASSUME NEW X, NEW s, Whole(s), NEW l, NEW j \in L2Sets, NEW v,
         v \in Plru2!Ways => s.l2[j].way[v].state # INVALID
  PROVE  /\ Carries(X, drop_l2(s, l, j, v), s)
         /\ drop_l2(s, l, j, v).abort = s.abort
         /\ v \in Plru2!Ways => drop_l2(s, l, j, v).l2[j].way[v].state = INVALID
         /\ v \notin Plru2!Ways => SteadyL2(drop_l2(s, l, j, v), s)
PROOF
<1> DEFINE old == s.l2[j].way[v]
           e == event("L2_EVICT", 0, 2, j, v, l, old.state, INVALID, old.data)
           bytes == IF old.state = MODIFIED THEN old.data ELSE s.mem[l]
           w2 == [invalidated(old) EXCEPT !.d = {}, !.i = {}]
           t == [s EXCEPT !.mem[l] = bytes,
                          !.l2[j].way[v] = [invalidated(s.l2[j].way[v]) EXCEPT !.d = {}, !.i = {}]]
           r == emit(t, e)
<1>1. drop_l2(s, l, j, v) = r
  BY DEF drop_l2
<1>2. /\ Fields \subseteq DOMAIN t
      /\ t.abort = s.abort /\ t.events = s.events /\ t.l1d = s.l1d
      /\ t.l1i = s.l1i
      /\ L2PutWay(t.l2, s.l2, j, v, w2)
  <2> HIDE DEF bytes
  <2>1. QED
    BY DEF Whole, Fields, Caches, L2PutWay, L2Put
<1>3. v \in Plru2!Ways => w2.state = INVALID
  BY DEF Whole, L2Shape, SetShape, invalidated
<1>4. v \in Plru2!Ways => Tame(w2, old, old)
  BY WholeIsLess, L2WayTameIn, TameChanges, Zenon
<1>5. /\ e.type = "L2_EVICT" /\ e.set_index = j /\ e.way = v
      /\ e.cache_level = 2 /\ e.old_state = old.state /\ e.new_state = INVALID
  BY DEF event
<1>6. Sane(e) /\ NoHit(e) /\ e.type \in L2Types /\ e.type \notin L1Types
  BY <1>5, PlainEvent DEF Sane, L1Types, L2Types
<1> HIDE DEF e, t, w2
<1>7. /\ Fields \subseteq DOMAIN r /\ r.abort = s.abort
      /\ r.events = Append(s.events, e)
      /\ r.l1d = s.l1d /\ r.l1i = s.l1i /\ r.l2 = t.l2
  BY <1>2, Emitted
<1> HIDE DEF r
<1>8. L2PutWay(r.l2, s.l2, j, v, w2) /\ L2Shape(s.l2)
  BY <1>2, <1>7 DEF Whole
<1>9. Whole(r)
  <2>1. L2Less(r.l2, s.l2)
    BY <1>4, <1>8, WholeIsLess, L2WayChange DEF LessCaches
  <2>2. QED
    BY <1>7, <2>1 DEF Whole, L2Less
<1>10. L2Told(e, s, r)
  BY <1>3, <1>5, <1>6, <1>8, L2ToldWay
<1>11. L1Told(e, s, r)
  BY <1>6, <1>7, L1Unmoved
<1>12. Stage(X, r, s)
  BY <1>6, <1>7, <1>10, <1>11 DEF Stage
<1>13. \A m \in L2Sets :
        /\ r.l2[m].plru = s.l2[m].plru
        /\ \A u \in Plru2!Ways :
             r.l2[m].way[u] = IF m = j /\ u = v THEN w2 ELSE s.l2[m].way[u]
  BY <1>8, L2WayPut
<1>14. v \notin Plru2!Ways => SteadyL2(r, s)
  BY <1>13 DEF SteadyL2
<1>15. QED
  BY <1>1, <1>3, <1>7, <1>9, <1>12, <1>13, <1>14, StageCarries

LEMMA EvictL2Vacates ==
  ASSUME NEW X, NEW s, Whole(s), NEW j \in L2Sets
  PROVE  /\ Carries(X, evict_l2(s, j), s)
         /\ VacantL2(evict_l2(s, j).l2[j])
PROOF
<1> DEFINE v == l2_room(s.l2[j])
           l == l2_to_addr(s.l2[j].way[v].tag, j)
           m == back_invalidate(s, l, j, v)
           r == drop_l2(m, l, j, v)
<1>1. evict_l2(s, j) = IF s.l2[j].way[v].state = INVALID THEN s ELSE r
  BY DEF evict_l2, evict_l2_way
<1>2. CASE s.l2[j].way[v].state = INVALID
  BY <1>1, <1>2, QuietItself DEF Quiet, VacantL2
<1>3. CASE s.l2[j].way[v].state # INVALID
  <2> HIDE DEF v, l
  <2>1. Quiet(X, m, s)
    BY <1>3, BackInvalidateAll
  <2> HIDE DEF m
  <2>2. Whole(m) /\ SteadyL2(m, s) /\ Carries(X, m, s)
    BY <2>1 DEF Quiet, Carries
  <2>3. v \in Plru2!Ways => m.l2[j].way[v].state # INVALID
    BY <1>3, <2>2 DEF SteadyL2
  <2>4. /\ Carries(X, r, m)
        /\ v \in Plru2!Ways => r.l2[j].way[v].state = INVALID
        /\ v \notin Plru2!Ways => SteadyL2(r, m)
    BY <2>2, <2>3, DropL2Carries
  <2> HIDE DEF r
  <2>5. Whole(r)
    BY <2>4 DEF Carries
  <2>6. CASE v \in Plru2!Ways
    <3>1. SetShape(r.l2[j], Plru2!Ways)
      BY <2>5 DEF Whole, L2Shape
    <3>2. v \in invalid_ways(r.l2[j])
      BY <2>4, <2>6, <3>1 DEF invalid_ways, SetShape
    <3>3. VacantL2(r.l2[j])
      BY <3>1, <3>2, FirstInvalid DEF VacantL2, l2_room
    <3>4. QED
      BY <1>1, <1>3, <2>2, <2>4, <3>3, CarriesTransitive
  <2>7. CASE v \notin Plru2!Ways
    <3>1. SteadyL2(r, s)
      BY <2>2, <2>4, <2>7, SteadyTransitive
    <3>2. l2_room(r.l2[j]) = v
      BY <2>5, <3>1, SteadyVacant DEF v
    <3>3. VacantL2(r.l2[j])
      BY <2>7, <3>2 DEF VacantL2
    <3>4. QED
      BY <1>1, <1>3, <2>2, <2>4, <3>3, CarriesTransitive
  <2>8. QED
    BY <2>6, <2>7
<1>4. QED
  BY <1>2, <1>3

(***************************************************************************)
(* Fills and uses.                                                         *)
(***************************************************************************)
\* A set in which way w is replaced; its tree may change too.
Refilled(set, old, W, w, way) ==
  /\ SetShape(set, W)
  /\ \A u \in W : set.way[u] = IF u = w THEN way ELSE old.way[u]

LEMMA SetRefilled ==
  ASSUME NEW old, NEW W, SetShape(old, W), NEW w, NEW way,
         {"tag", "state"} \subseteq DOMAIN way, NEW bits
  PROVE  Refilled([[old EXCEPT !.way[w] = way] EXCEPT !.plru = bits], old, W, w, way)
PROOF
<1> DEFINE put == [old EXCEPT !.way[w] = way]
           set == [put EXCEPT !.plru = bits]
<1>1. /\ {"way", "plru"} \subseteq DOMAIN put
      /\ DOMAIN put.way = W
      /\ \A u \in W : put.way[u] = IF u = w THEN way ELSE old.way[u]
  BY DEF SetShape
<1> HIDE DEF put
<1>2. {"way", "plru"} \subseteq DOMAIN set /\ set.way = put.way
  BY <1>1
<1> HIDE DEF set
<1>3. SetShape(set, W)
  BY <1>1, <1>2 DEF SetShape
<1>4. QED
  BY <1>1, <1>2, <1>3 DEF Refilled, set, put

LEMMA L1Refilled ==
  ASSUME NEW s, NEW t, L1Shape(s.l1d), NEW c, NEW i, NEW set,
         L1Put(t.l1d, s.l1d, c, i, set), NEW v, NEW w1,
         c \in Cores /\ i \in L1Sets => Refilled(set, s.l1d[c][i], Plru1!Ways, v, w1)
  PROVE  /\ L1Shape(t.l1d)
         /\ \A e : /\ e.type \in L1Types /\ e.core_id = c /\ e.set_index = i /\ e.way = v
                   /\ c \in Cores /\ i \in L1Sets /\ v \in Plru1!Ways =>
                        e.old_state = s.l1d[c][i].way[v].state /\ e.new_state = w1.state
                   => L1Told(e, s, t)
PROOF
<1>1. ASSUME NEW k \in Cores, NEW m \in L1Sets
      PROVE  t.l1d[k][m] = IF k = c /\ m = i THEN set ELSE s.l1d[k][m]
  BY DEF L1Put, L1Shape
<1>2. DOMAIN t.l1d = Cores /\ \A k \in Cores : DOMAIN t.l1d[k] = L1Sets
  BY DEF L1Put, L1Shape
<1>3. L1Shape(t.l1d)
  BY <1>1, <1>2 DEF L1Shape, Refilled
<1>4. ASSUME NEW e, e.type \in L1Types, e.core_id = c, e.set_index = i, e.way = v,
             c \in Cores /\ i \in L1Sets /\ v \in Plru1!Ways =>
               e.old_state = s.l1d[c][i].way[v].state /\ e.new_state = w1.state
      PROVE  L1Told(e, s, t)
  BY <1>1, <1>4 DEF L1Told, AtL1, Refilled
<1>5. QED
  BY <1>3, <1>4

LEMMA L2Refilled ==
  ASSUME NEW s, NEW t, L2Shape(s.l2), NEW j, NEW set, L2Put(t.l2, s.l2, j, set),
         NEW w, NEW w2,
         j \in L2Sets => Refilled(set, s.l2[j], Plru2!Ways, w, w2)
  PROVE  /\ L2Shape(t.l2)
         /\ \A e : /\ e.type \in L2Types /\ e.set_index = j /\ e.way = w
                   /\ j \in L2Sets /\ w \in Plru2!Ways =>
                        /\ e.old_state = INVALID <=> s.l2[j].way[w].state = INVALID
                        /\ e.new_state = INVALID <=> w2.state = INVALID
                   => L2Told(e, s, t)
PROOF
<1>1. ASSUME NEW m \in L2Sets
      PROVE  t.l2[m] = IF m = j THEN set ELSE s.l2[m]
  BY DEF L2Put, L2Shape
<1>2. DOMAIN t.l2 = L2Sets
  BY DEF L2Put, L2Shape
<1>3. L2Shape(t.l2)
  BY <1>1, <1>2 DEF L2Shape, Refilled
<1>4. ASSUME NEW e, e.type \in L2Types, e.set_index = j, e.way = w,
             j \in L2Sets /\ w \in Plru2!Ways =>
               /\ e.old_state = INVALID <=> s.l2[j].way[w].state = INVALID
               /\ e.new_state = INVALID <=> w2.state = INVALID
      PROVE  L2Told(e, s, t)
  BY <1>1, <1>4 DEF L2Told, AtL2, Refilled
<1>5. QED
  BY <1>3, <1>4

\* Way w is where evict_l2 has made room for line l; e tells its fill.
HasRoom(s, l, w) ==
  LET set == s.l2[l2_to_index(l)]
  IN  w = l2_room(set) /\ (s.abort = "none" => VacantL2(set))

TellsFill(e, l, w) ==
  /\ e.type \in {"L2_FILL", "PREFETCH_L2"} /\ Sane(e)
  /\ e.set_index = l2_to_index(l) /\ e.way = w /\ e.new_state # INVALID

LEMMA FillL2Carries ==
  ASSUME NEW X, NEW s, Whole(s), NEW l \in Lines, NEW w, HasRoom(s, l, w),
         NEW e, TellsFill(e, l, w), NEW line, NEW d, NEW i,
         NEW state, e.new_state = state
  PROVE  /\ Carries(X, emit(l2_cache_fill(s, l, w, line, state, d, i), e), s)
         /\ emit(l2_cache_fill(s, l, w, line, state, d, i), e).l1d = s.l1d
PROOF
<1> DEFINE j == l2_to_index(l)
           way == s.l2[j].way[w]
           w2 == [tag |-> l2_to_tag(l), state |-> state, data |-> line, d |-> d, i |-> i]
           a == [s EXCEPT !.abort = "fill_over_sharers"]
           set == l2_filled(s.l2[j], w, l2_to_tag(l), line, state, d, i)
           t == [s EXCEPT !.l2[j] = set]
           u == l2_cache_fill(s, l, w, line, state, d, i)
           r == emit(u, e)
<1>1. u = IF way.d \cup way.i # {} THEN a ELSE t
  BY DEF l2_cache_fill
<1>2. j \in L2Sets
  BY Indices
<1> state # INVALID /\ w = l2_room(s.l2[j]) /\ (s.abort = "none" => VacantL2(s.l2[j]))
  BY DEF HasRoom, TellsFill
<1> e.type \in {"L2_FILL", "PREFETCH_L2"} /\ Sane(e) /\ e.set_index = j /\ e.way = w
  BY DEF TellsFill
<1>3. /\ {"tag", "state"} \subseteq DOMAIN w2 /\ w2.state = state
      /\ set = [[s.l2[j] EXCEPT !.way[w] = w2] EXCEPT
                  !.plru = Plru2!plru_update([s.l2[j] EXCEPT !.way[w] = w2].plru, w)]
  BY DEF l2_filled, l2_touch
<1>4. /\ Fields \subseteq DOMAIN t
      /\ t.abort = s.abort /\ t.events = s.events /\ t.l1d = s.l1d /\ t.l1i = s.l1i
      /\ L2Put(t.l2, s.l2, j, set)
      /\ Fields \subseteq DOMAIN a
      /\ a.abort = "fill_over_sharers" /\ a.l1d = s.l1d /\ a.l1i = s.l1i /\ a.l2 = s.l2
  BY DEF Whole, Fields, Caches, L2Put
<1> HIDE DEF w2, set, t, a, way, u
<1>5. Refilled(set, s.l2[j], Plru2!Ways, w, w2)
  <2>1. SetShape(s.l2[j], Plru2!Ways)
    BY <1>2 DEF Whole, L2Shape
  <2>2. QED
    BY <1>3, <2>1, SetRefilled, Zenon
<1>6. Fields \subseteq DOMAIN u /\ u.l1d = s.l1d /\ u.l1i = s.l1i
  BY <1>1, <1>4
<1>7. /\ Fields \subseteq DOMAIN r
      /\ r.abort = u.abort /\ r.events = Append(u.events, e)
      /\ r.l1d = s.l1d /\ r.l1i = s.l1i /\ r.l2 = u.l2
  BY <1>6, Emitted
<1> HIDE DEF r
<1>8. CASE u = a
  <2>1. Whole(r)
    BY <1>4, <1>7, <1>8 DEF Whole
  <2>2. Stage(X, r, s)
    BY <1>4, <1>7, <1>8 DEF Stage
  <2>3. QED
    BY <1>7, <2>1, <2>2, StageCarries DEF u, r
<1>9. CASE u = t
  <2>1. L2Put(r.l2, s.l2, j, set) /\ L2Shape(s.l2) /\ L1Shape(r.l1d) /\ L1Shape(r.l1i)
    BY <1>4, <1>7, <1>9 DEF Whole
  <2>2. /\ L2Shape(r.l2)
        /\ \A f : /\ f.type \in L2Types /\ f.set_index = j /\ f.way = w
                  /\ j \in L2Sets /\ w \in Plru2!Ways =>
                        /\ f.old_state = INVALID <=> s.l2[j].way[w].state = INVALID
                        /\ f.new_state = INVALID <=> w2.state = INVALID
                  => L2Told(f, s, r)
    BY <1>5, <2>1, L2Refilled
  <2>3. Whole(r)
    BY <1>7, <2>1, <2>2 DEF Whole
  <2>4. CASE s.abort = "none"
    <3>1. w \in Plru2!Ways => s.l2[j].way[w].state = INVALID
      BY <2>4 DEF VacantL2
    <3>2. e.old_state = INVALID /\ e.type \in L2Types /\ e.type \notin L1Types /\ NoHit(e)
      BY PlainEvent DEF Sane, L1Types, L2Types
    <3>3. L2Told(e, s, r)
      BY <1>3, <2>2, <3>1, <3>2
    <3>4. L1Told(e, s, r)
      BY <1>7, <3>2, L1Unmoved
    <3>5. Stage(X, r, s)
      BY <1>4, <1>7, <1>9, <2>4, <3>2, <3>3, <3>4 DEF Stage
    <3>6. QED
      BY <1>7, <2>3, <3>5, StageCarries DEF u, r
  <2>5. CASE s.abort # "none"
    <3>1. Stage(X, r, s)
      BY <1>4, <1>7, <1>9, <2>5 DEF Stage
    <3>2. QED
      BY <1>7, <2>3, <3>1, StageCarries DEF u, r
  <2>6. QED
    BY <2>4, <2>5
<1>10. QED
  BY <1>1, <1>8, <1>9

LEMMA FillDCarries ==
  ASSUME NEW X, NEW s, Whole(s), NEW c \in Cores, NEW l \in Lines, NEW line, NEW state,
         state # INVALID,
         s.abort = "none" => VacantL1(s.l1d[c][l1_to_index(l)])
  PROVE  /\ Quiet(X, l1d_fill(s, c, l, line, state), s)
         /\ l1d_fill(s, c, l, line, state).abort = s.abort
         /\ l1d_fill(s, c, l, line, state).l2 = s.l2
PROOF
<1> DEFINE i == l1_to_index(l)
           w == l1_room(s.l1d[c][i])
           w1 == [tag |-> l1_to_tag(l), state |-> state, data |-> line]
           e == event("L1D_FILL", c, 1, i, w, l, INVALID, state, line)
           set == l1_cache_fill(s.l1d[c][i], w, l1_to_tag(l), line, state)
           t == [s EXCEPT !.l1d[c][i] = set]
           r == emit(t, e)
<1>1. l1d_fill(s, c, l, line, state) = r
  BY DEF l1d_fill
<1>2. i \in L1Sets
  BY Indices
<1>3. /\ {"tag", "state"} \subseteq DOMAIN w1 /\ w1.state = state
      /\ set = [[s.l1d[c][i] EXCEPT !.way[w] = w1] EXCEPT
                  !.plru = Plru1!plru_update([s.l1d[c][i] EXCEPT !.way[w] = w1].plru, w)]
  BY DEF l1_cache_fill, l1_touch
<1>4. /\ Fields \subseteq DOMAIN t
      /\ t.abort = s.abort /\ t.events = s.events /\ t.l2 = s.l2 /\ t.l1i = s.l1i
      /\ L1Put(t.l1d, s.l1d, c, i, set)
  BY DEF Whole, Fields, Caches, L1Put
<1>5. /\ e.type = "L1D_FILL" /\ e.core_id = c /\ e.set_index = i /\ e.way = w
      /\ e.cache_level = 1 /\ e.old_state = INVALID /\ e.new_state = state
  BY DEF event
<1>6. Sane(e) /\ NoHit(e) /\ e.type \in L1Types /\ e.type \notin L2Types
  BY <1>5, PlainEvent DEF Sane, L1Types, L2Types
<1> HIDE DEF w1, set, t, e
<1>7. Refilled(set, s.l1d[c][i], Plru1!Ways, w, w1)
  <2>1. SetShape(s.l1d[c][i], Plru1!Ways)
    BY <1>2 DEF Whole, L1Shape
  <2> HIDE DEF w, i
  <2>2. QED
    BY <1>3, <2>1, SetRefilled, Zenon
<1>8. /\ Fields \subseteq DOMAIN r
      /\ r.abort = s.abort /\ r.events = Append(s.events, e)
      /\ r.l1d = t.l1d /\ r.l1i = s.l1i /\ r.l2 = s.l2
  BY <1>4, Emitted
<1> HIDE DEF r
<1>9. L1Put(r.l1d, s.l1d, c, i, set) /\ L1Shape(s.l1d) /\ L1Shape(r.l1i) /\ L2Shape(r.l2)
  BY <1>4, <1>8 DEF Whole
<1>10. /\ L1Shape(r.l1d)
       /\ \A f : /\ f.type \in L1Types /\ f.core_id = c /\ f.set_index = i /\ f.way = w
                 /\ c \in Cores /\ i \in L1Sets /\ w \in Plru1!Ways =>
                      f.old_state = s.l1d[c][i].way[w].state /\ f.new_state = w1.state
                 => L1Told(f, s, r)
  <2> HIDE DEF w, i
  <2>1. QED
    BY <1>7, <1>9, L1Refilled
<1>11. Whole(r)
  BY <1>8, <1>9, <1>10 DEF Whole
<1>12. SteadyL2(r, s)
  BY <1>8, SteadyItself
<1>13. Stage(X, r, s)
  <2>1. CASE s.abort = "none"
    <3>1. w \in Plru1!Ways => s.l1d[c][i].way[w].state = INVALID
      BY <2>1 DEF VacantL1
    <3> HIDE DEF w, i
    <3>2. L1Told(e, s, r)
      BY <1>3, <1>5, <1>6, <1>10, <3>1
    <3>3. L2Told(e, s, r)
      BY <1>6, <1>12, L2Unmoved
    <3>4. QED
      BY <1>6, <1>8, <2>1, <3>2, <3>3 DEF Stage
  <2>2. CASE s.abort # "none"
    BY <1>8, <2>2 DEF Stage
  <2>3. QED
    BY <2>1, <2>2
<1>14. QED
  BY <1>1, <1>8, <1>11, <1>12, <1>13, StageCarries DEF Quiet

LEMMA CarriesItself ==
  ASSUME NEW X, NEW s, Whole(s)
  PROVE  Carries(X, s, s)
BY QuietItself DEF Quiet

\* A way of the L2 is used: its fields and the tree change, not its being filled.
LEMMA L2UsedCarries ==
  ASSUME NEW X, NEW s, Whole(s), NEW t, Fields \subseteq DOMAIN t,
         t.abort = s.abort, t.events = s.events, t.l1d = s.l1d, t.l1i = s.l1i,
         NEW j, NEW set, L2Put(t.l2, s.l2, j, set), NEW w, NEW w2,
         j \in L2Sets => Refilled(set, s.l2[j], Plru2!Ways, w, w2),
         j \in L2Sets /\ w \in Plru2!Ways =>
           (w2.state = INVALID <=> s.l2[j].way[w].state = INVALID)
  PROVE  Carries(X, t, s) /\ KeepsL2(s, t)
PROOF
<1>1. L2Shape(s.l2)
  BY DEF Whole
<1>2. L2Shape(t.l2)
  BY <1>1, L2Refilled
<1>3. Whole(t)
  BY <1>2 DEF Whole
<1>4. KeepsL2(s, t)
  <2>1. ASSUME NEW m \in L2Sets
        PROVE  t.l2[m] = IF m = j THEN set ELSE s.l2[m]
    BY <1>1 DEF L2Put, L2Shape
  <2>2. QED
    BY <2>1 DEF KeepsL2, Refilled
<1>5. KeepsL1(s, t)
  BY L1Unmoved
<1>6. Stage(X, t, s)
  BY <1>4, <1>5 DEF Stage, SamePicture
<1>7. QED
  BY <1>3, <1>4, <1>6, StageCarries

\* An L1I changes.
LEMMA FillIQuiet ==
  ASSUME NEW X, NEW s, Whole(s), NEW c, NEW l, NEW line
  PROVE  Quiet(X, l1i_fill(s, c, l, line), s)
PROOF
<1> DEFINE i == l1_to_index(l)
           w == l1_room(s.l1i[c][i])
           w1 == [tag |-> l1_to_tag(l), state |-> SHARED, data |-> line]
           set == l1_cache_fill(s.l1i[c][i], w, l1_to_tag(l), line, SHARED)
           t == [s EXCEPT !.l1i[c][i] = set]
<1>1. l1i_fill(s, c, l, line) = t
  BY DEF l1i_fill
<1>2. /\ {"tag", "state"} \subseteq DOMAIN w1
      /\ set = [[s.l1i[c][i] EXCEPT !.way[w] = w1] EXCEPT
                  !.plru = Plru1!plru_update([s.l1i[c][i] EXCEPT !.way[w] = w1].plru, w)]
  BY DEF l1_cache_fill, l1_touch
<1>3. /\ Fields \subseteq DOMAIN t
      /\ t.abort = s.abort /\ t.events = s.events /\ t.l2 = s.l2 /\ t.l1d = s.l1d
      /\ L1Put(t.l1i, s.l1i, c, i, set)
  BY DEF Whole, Fields, Caches, L1Put
<1> HIDE DEF set, t, w1
<1>4. c \in Cores /\ i \in L1Sets => SetShape(set, Plru1!Ways)
  <2>1. c \in Cores /\ i \in L1Sets => SetShape(s.l1i[c][i], Plru1!Ways)
    BY DEF Whole, L1Shape
  <2> HIDE DEF w, i
  <2>2. QED
    BY <1>2, <2>1, SetRefilled, Zenon DEF Refilled
<1>5. L1Shape(t.l1i)
  BY <1>3, <1>4 DEF Whole, L1Shape, L1Put
<1>6. Whole(t) /\ SteadyL2(t, s)
  BY <1>3, <1>5 DEF Whole, SteadyL2
<1>7. QED
  BY <1>1, <1>3, <1>6, StillQuiet

(***************************************************************************)
(* Prefetching.                                                            *)
(***************************************************************************)
LEMMA PrefetchOneCarries ==
  ASSUME NEW X, NEW s, Whole(s), NEW l \in Lines
  PROVE  Carries(X, pf_fill_l2(s, l), s)
PROOF
<1> DEFINE j == l2_to_index(l)
           t == evict_l2(s, j)
           w == l2_room(t.l2[j])
           line == t.mem[l]
           u == l2_cache_fill(t, l, w, line, EXCLUSIVE, {}, {})
           e == event("PREFETCH_L2", 0, 2, j, w, l, INVALID, EXCLUSIVE, line)
<1>1. pf_fill_l2(s, l) = IF find_way(s.l2[j], l2_to_tag(l)) # {} THEN s ELSE emit(u, e)
  BY DEF pf_fill_l2, pf_make_room, pf_store
<1>2. j \in L2Sets
  BY Indices
<1>3. Carries(X, t, s) /\ VacantL2(t.l2[j])
  BY <1>2, EvictL2Vacates
<1>4. Whole(t)
  BY <1>3 DEF Carries
<1>5. /\ e.type = "PREFETCH_L2" /\ e.set_index = j /\ e.way = w /\ e.cache_level = 2
      /\ e.old_state = INVALID /\ e.new_state = EXCLUSIVE
  BY DEF event
<1>6. Sane(e) /\ EXCLUSIVE # INVALID
  BY <1>5 DEF Sane, L1Types, EXCLUSIVE, INVALID
<1> HIDE DEF t, e
<1>7. Carries(X, emit(u, e), t)
  <2>1. HasRoom(t, l, w)
    BY <1>3 DEF HasRoom
  <2>2. TellsFill(e, l, w)
    BY <1>5, <1>6 DEF TellsFill
  <2> HIDE DEF w, j, line
  <2>3. QED
    BY <1>4, <1>5, <2>1, <2>2, FillL2Carries
<1> HIDE DEF u
<1>8. Carries(X, emit(u, e), s)
  BY <1>3, <1>7, CarriesTransitive
<1>9. QED
  BY <1>1, <1>8, CarriesItself

LEMMA PrefetchNextCarries ==
  ASSUME NEW X, NEW s, Whole(s), NEW l
  PROVE  Carries(X, pf_nextline_on_miss(s, l), s)
BY PrefetchOneCarries, CarriesItself DEF pf_nextline_on_miss

LEMMA BurstCarries ==
  ASSUME NEW X, NEW s, Whole(s), NEW head, NEW dir, NEW lines, lines \subseteq Lines
  PROVE  Carries(X, fill_burst(s, head, dir, lines), s)
PROOF
<1> DEFINE N == PREFETCH_DISTANCE + 1
<1>1. N \in Nat
  BY GeometryAssumption
<1>2. PICK f : /\ fill_burst(s, head, dir, lines) = f[N]
               /\ IsLoop(f, N, s, "burst", lines, head, dir, dir)
  BY BurstRounds
<1> DEFINE S == {n \in 0 .. N : Carries(X, f[n], s)}
<1>3. 0 \in S
  BY <1>1, <1>2, Rounds, CarriesItself
<1>4. ASSUME NEW n \in 1 .. N, n - 1 \in S PROVE n \in S
  <2>1. f[n] = IF head + n * dir \in lines THEN pf_fill_l2(f[n - 1], head + n * dir)
                                            ELSE f[n - 1]
    BY <1>1, <1>2, Rounds DEF Round
  <2>2. Carries(X, f[n - 1], s) /\ Whole(f[n - 1])
    BY <1>4 DEF Carries
  <2> DEFINE l == head + n * dir
             t == pf_fill_l2(f[n - 1], l)
  <2>3. CASE l \in lines
    <3>1. l \in Lines
      BY <2>3
    <3> HIDE DEF l
    <3>2. Carries(X, t, f[n - 1])
      BY <2>2, <3>1, PrefetchOneCarries
    <3> HIDE DEF t
    <3>3. Carries(X, t, s)
      BY <2>2, <3>2, CarriesTransitive
    <3>4. QED
      BY <1>1, <2>1, <2>3, <3>3 DEF t, l
  <2>4. CASE l \notin lines
    BY <1>1, <2>1, <2>2, <2>4
  <2>5. QED
    BY <2>3, <2>4
<1> HIDE DEF S
<1>5. N \in S
  BY <1>1, <1>3, <1>4, UpTo
<1>6. QED
  BY <1>2, <1>5 DEF S

LEMMA StreamCarries ==
  ASSUME NEW X, NEW s, Whole(s), NEW c, NEW miss
  PROVE  Carries(X, pf_stream_on_miss(s, c, miss), s)
PROOF
<1> DEFINE table == s.pf[c].streams
           matching == {k \in 0 .. NUM_STREAMS - 1 : Pf(c)!matches(table[k], miss)}
           k == first(matching)
           lines == Pf(c)!burst(table[k], miss)
           filled == fill_burst(s, Pf(c)!head_after(table[k], miss),
                                Pf(c)!direction_after(table[k], miss), lines)
           trained(t, n, stream) ==
             [t EXCEPT !.pf[c].streams[n] = stream,
                       !.pf[c].lru_age = Pf(c)!pf_lru_update(@, n)]
<1>1. \/ pf_stream_on_miss(s, c, miss) =
           trained(s, Pf(c)!pf_lru_evict(s.pf[c].lru_age), Pf(c)!started(miss))
      \/ pf_stream_on_miss(s, c, miss) = trained(filled, k, Pf(c)!advanced(table[k], miss))
  BY Zenon DEF pf_stream_on_miss
<1>2. ASSUME NEW t, Carries(X, t, s), NEW n, NEW stream PROVE Carries(X, trained(t, n, stream), s)
  <2>1. Whole(t)
    BY <1>2 DEF Carries
  <2>2. /\ Fields \subseteq DOMAIN trained(t, n, stream)
        /\ trained(t, n, stream).abort = t.abort /\ trained(t, n, stream).events = t.events
        /\ trained(t, n, stream).l1d = t.l1d /\ trained(t, n, stream).l1i = t.l1i
        /\ trained(t, n, stream).l2 = t.l2
    BY <2>1 DEF Whole, Fields, Caches
  <2> DEFINE r == trained(t, n, stream)
  <2> HIDE DEF trained
  <2>3. Whole(r) /\ SteadyL2(r, t)
    BY <2>1, <2>2 DEF Whole, SteadyL2
  <2> HIDE DEF r
  <2>4. Quiet(X, r, t)
    BY <2>2, <2>3, StillQuiet DEF r
  <2>5. QED
    BY <1>2, <2>4, CarriesTransitive DEF r, Quiet
<1>3. lines \subseteq Lines
  BY DEF Pf!burst, Pf!Lines, Lines
<1>4. Carries(X, filled, s) /\ Carries(X, s, s)
  <2> HIDE DEF lines
  <2>1. QED
    BY <1>3, BurstCarries, CarriesItself
<1> HIDE DEF trained, filled, k, table
<1>5. QED
  BY <1>1, <1>2, <1>4

(***************************************************************************)
(* The handlers: an access that reports a hit or a fetch counts it.        *)
(***************************************************************************)
LEMMA HitEvent ==
  ASSUME NEW e
  PROVE  /\ e.type = "L1D_HIT" => counters_of(e) = {"l1d_hits"}
         /\ e.type = "L2_HIT" => counters_of(e) = {"l2_hits"}
         /\ e.type = "MEM_FETCH" => counters_of(e) = {"mem_fetches"}
         /\ e.type = "L1D_HIT" => e.type \in L1Types /\ e.type \notin L2Types
         /\ e.type = "L2_HIT" => e.type \in L2Types /\ e.type \notin L1Types
         /\ e.type = "MEM_FETCH" => e.type \notin L1Types /\ e.type \notin L2Types
BY DEF counters_of, L1Types, L2Types

LEMMA HitTells ==
  ASSUME NEW X, NEW c, NEW s, NEW b, Told(X, c, s, b, "none"),
         NEW t, Whole(t), t.abort = s.abort,
         NEW e, t.events = Append(s.events, e), Sane(e), e.core_id = c,
         L1Told(e, s, t), L2Told(e, s, t), NEW h \in Hits, counters_of(e) = {h}
  PROVE  Told(X, c, t, b, h)
PROOF
<1>1. Fields \subseteq DOMAIN t
  BY DEF Whole
<1>2. CASE t.abort = "none"
  <2>1. HitTold(c, e, "none", h)
    BY DEF HitTold
  <2>2. QED
    BY <1>1, <1>2, <2>1, StoryGoesOn
<1>3. CASE t.abort # "none"
  BY <1>1, <1>3 DEF Told
<1>4. QED
  BY <1>2, <1>3

\* Nothing a story is about changes.
LEMMA RestKept ==
  ASSUME NEW X, NEW s, Whole(s), NEW t, Fields \subseteq DOMAIN t,
         t.abort = s.abort, t.events = s.events,
         t.l1d = s.l1d, t.l1i = s.l1i, t.l2 = s.l2
  PROVE  Carries(X, t, s)
PROOF
<1>1. Whole(t) /\ SteadyL2(t, s)
  BY DEF Whole, SteadyL2
<1>2. QED
  BY <1>1, StillQuiet DEF Quiet

LEMMA ReturnCarries ==
  ASSUME NEW X, NEW s, Whole(s), NEW l, NEW line, NEW counter
  PROVE  /\ Carries(X, returns(s, l, line, counter), s)
         /\ returns(s, l, line, counter).counted = counter
PROOF
<1> DEFINE t == returns(s, l, line, counter)
<1>1. /\ Fields \subseteq DOMAIN t
      /\ t.abort = s.abort /\ t.events = s.events /\ t.counted = counter
      /\ t.l1d = s.l1d /\ t.l1i = s.l1i /\ t.l2 = s.l2
  BY DEF returns, Whole, Fields, Caches
<1> HIDE DEF t
<1>2. Carries(X, t, s)
  BY <1>1, RestKept
<1>3. QED
  BY <1>1, <1>2 DEF t

LEMMA SetTouched ==
  ASSUME NEW old, NEW W, SetShape(old, W), NEW bits, NEW w
  PROVE  Refilled([old EXCEPT !.plru = bits], old, W, w, old.way[w])
PROOF
<1> DEFINE set == [old EXCEPT !.plru = bits]
<1>1. {"way", "plru"} \subseteq DOMAIN set /\ set.way = old.way
  BY DEF SetShape
<1> HIDE DEF set
<1>2. SetShape(set, W)
  BY <1>1 DEF SetShape
<1>3. QED
  BY <1>1, <1>2 DEF Refilled, set

LEMMA DataMissTold ==
  ASSUME NEW X, NEW c \in Cores, NEW s, Whole(s), NEW b, Told(X, c, s, b, "none"),
         NEW l \in Lines, NEW line, NEW state, state # INVALID
  PROVE  /\ Whole(miss_fill(s, c, l, line, state))
         /\ Told(X, c, miss_fill(s, c, l, line, state), b, "mem_fetches")
PROOF
<1> DEFINE i == l1_to_index(l)
           j == l2_to_index(l)
           a == evict_l2(s, j)
           t == evict_l1_d(a, c, i)
           w == l2_room(t.l2[j])
           e == event("L2_FILL", c, 2, j, w, l, INVALID, state, line)
           u == emit(l2_cache_fill(t, l, w, line, state, {c}, {}), e)
           f == l1d_fill(u, c, l, line, state)
           g == event("MEM_FETCH", c, 3, 0, 0, l, INVALID, INVALID, line)
           r == emit(f, g)
<1>1. miss_fill(s, c, l, line, state) = r
  BY DEF miss_fill, l2_then_l1d_fill
<1>2. i \in L1Sets /\ j \in L2Sets
  BY Indices
<1>3. Carries(X, a, s) /\ VacantL2(a.l2[j]) /\ Whole(a)
  BY <1>2, EvictL2Vacates DEF Carries
<1>4. Quiet(X, t, a) /\ (t.abort = "none" => VacantL1(t.l1d[c][i]))
  <2> HIDE DEF a, i
  <2>1. QED
    BY <1>2, <1>3, EvictDVacates
<1>5. Carries(X, t, a) /\ SteadyL2(t, a) /\ Whole(t)
  BY <1>4 DEF Quiet, Carries
<1> HIDE DEF a, t
<1>6. HasRoom(t, l, w)
  BY <1>2, <1>3, <1>5, SteadyVacant DEF HasRoom
<1>7. TellsFill(e, l, w) /\ e.new_state = state
  BY DEF event, TellsFill, Sane, L1Types
<1>8. /\ g.type = "MEM_FETCH" /\ g.core_id = c
  BY DEF event
<1>9. Sane(g)
  BY <1>8 DEF Sane, L1Types, L2Types
<1> HIDE DEF w, e, g
<1>10. Carries(X, u, t) /\ u.l1d = t.l1d
  <2> DEFINE d == {c}
             none == {}
  <2> HIDE DEF d, none
  <2>1. /\ Carries(X, emit(l2_cache_fill(t, l, w, line, state, d, none), e), t)
        /\ emit(l2_cache_fill(t, l, w, line, state, d, none), e).l1d = t.l1d
    BY <1>5, <1>6, <1>7, FillL2Carries
  <2>2. QED
    BY <2>1 DEF d, none
<1>11. Whole(u) /\ (u.abort = "none" => VacantL1(u.l1d[c][i]))
  BY <1>4, <1>10 DEF Carries
<1> HIDE DEF u
<1>12. Quiet(X, f, u)
  BY <1>11, FillDCarries
<1>13. Carries(X, f, u) /\ Whole(f)
  BY <1>12 DEF Quiet, Carries
<1> HIDE DEF f
<1>14. Told(X, c, f, b, "none")
  BY <1>3, <1>5, <1>10, <1>13 DEF Carries
<1>15. /\ Fields \subseteq DOMAIN r
       /\ r.abort = f.abort /\ r.events = Append(f.events, g)
       /\ r.l1d = f.l1d /\ r.l1i = f.l1i /\ r.l2 = f.l2
  <2>1. Fields \subseteq DOMAIN f
    BY <1>13 DEF Whole
  <2>2. DOMAIN r = DOMAIN f
    BY <2>1, Emitted
  <2>3. QED
    BY <2>1, <2>2, Emitted
<1> HIDE DEF r
<1>16. Whole(r) /\ SteadyL2(r, f)
  BY <1>13, <1>15 DEF Whole, SteadyL2
<1>17. L1Told(g, f, r) /\ L2Told(g, f, r) /\ counters_of(g) = {"mem_fetches"}
  BY <1>8, <1>15, <1>16, HitEvent, L1Unmoved, L2Unmoved
<1>18. "mem_fetches" \in Hits
  BY DEF Hits
<1>19. Told(X, c, r, b, "mem_fetches")
  BY <1>8, <1>9, <1>14, <1>15, <1>16, <1>17, <1>18, HitTells
<1>20. QED
  BY <1>1, <1>16, <1>19

LEMMA ReadL1HitTold ==
  ASSUME NEW X, NEW c, NEW s, Whole(s), NEW b, Told(X, c, s, b, "none"),
         NEW l, NEW i, NEW v, NEW r, r = read_l1_hit(s, c, l, i, v)
  PROVE  Whole(r) /\ Told(X, c, r, b, "l1d_hits") /\ r.counted = "l1d_hits"
PROOF
<1> DEFINE way == s.l1d[c][i].way[v]
           e == event("L1D_HIT", c, 1, i, v, l, way.state, way.state, way.data)
           set == l1_touch(s.l1d[c][i], v)
           t == [s EXCEPT !.l1d[c][i] = l1_touch(@, v)]
           u == emit(t, e)
<1>1. r = returns(u, l, way.data, "l1d_hits")
  BY DEF read_l1_hit
<1>2. /\ Fields \subseteq DOMAIN t
      /\ t.abort = s.abort /\ t.events = s.events /\ t.l2 = s.l2 /\ t.l1i = s.l1i
      /\ L1Put(t.l1d, s.l1d, c, i, set)
  BY DEF Whole, Fields, Caches, L1Put
<1>3. c \in Cores /\ i \in L1Sets => Refilled(set, s.l1d[c][i], Plru1!Ways, v, way)
  BY SetTouched, Zenon DEF l1_touch, Whole, L1Shape
<1>4. /\ e.type = "L1D_HIT" /\ e.core_id = c /\ e.set_index = i /\ e.way = v
      /\ e.cache_level = 1 /\ e.old_state = way.state /\ e.new_state = way.state
  BY DEF event
<1>5. Sane(e) /\ e.type \in L1Types /\ e.type \notin L2Types /\ counters_of(e) = {"l1d_hits"}
  BY <1>4, HitEvent, Zenon DEF Sane, L2Types
<1> HIDE DEF e, t, set, way
<1>6. /\ Fields \subseteq DOMAIN u /\ u.abort = s.abort
      /\ u.events = Append(s.events, e)
      /\ u.l1d = t.l1d /\ u.l1i = s.l1i /\ u.l2 = s.l2
  BY <1>2, Emitted
<1> HIDE DEF u
<1>7. L1Put(u.l1d, s.l1d, c, i, set) /\ L1Shape(s.l1d)
  BY <1>2, <1>6 DEF Whole
<1>8. /\ L1Shape(u.l1d)
      /\ \A f : /\ f.type \in L1Types /\ f.core_id = c /\ f.set_index = i /\ f.way = v
                /\ c \in Cores /\ i \in L1Sets /\ v \in Plru1!Ways =>
                     f.old_state = s.l1d[c][i].way[v].state /\ f.new_state = way.state
                => L1Told(f, s, u)
  BY <1>3, <1>7, L1Refilled
<1>9. Whole(u)
  BY <1>6, <1>8 DEF Whole
<1>10. L1Told(e, s, u)
  BY <1>4, <1>5, <1>8 DEF way
<1>11. L2Told(e, s, u)
  BY <1>5, <1>6, SteadyItself, L2Unmoved
<1>12. Told(X, c, u, b, "l1d_hits")
  BY <1>4, <1>5, <1>6, <1>9, <1>10, <1>11, HitTells DEF Hits
<1>13. Carries(X, r, u) /\ r.counted = "l1d_hits"
  BY <1>1, <1>9, ReturnCarries
<1>14. QED
  BY <1>12, <1>13 DEF Carries

\* The L2_HIT event of a line the L2 holds.
ReportsL2Hit(e, c, j, w, state) ==
  /\ e.type = "L2_HIT" /\ e.core_id = c /\ e.set_index = j /\ e.way = w
  /\ e.cache_level = 2 /\ e.old_state = state /\ e.new_state = state

LEMMA L2HitTold ==
  ASSUME NEW X, NEW c, NEW s, Whole(s), NEW b, Told(X, c, s, b, "none"),
         NEW j \in L2Sets, NEW w, s.l2[j].way[w].state # INVALID,
         NEW e, ReportsL2Hit(e, c, j, w, s.l2[j].way[w].state),
         NEW t, t = emit(s, e)
  PROVE  /\ Whole(t) /\ Told(X, c, t, b, "l2_hits")
         /\ t.l1d = s.l1d /\ t.l2 = s.l2
PROOF
<1>1. /\ e.type = "L2_HIT" /\ e.core_id = c /\ e.set_index = j /\ e.way = w
      /\ e.cache_level = 2 /\ e.old_state = s.l2[j].way[w].state
      /\ e.new_state = s.l2[j].way[w].state
  BY DEF ReportsL2Hit
<1>2. /\ Sane(e) /\ e.type \in L2Types /\ e.type \notin L1Types
      /\ counters_of(e) = {"l2_hits"}
  BY <1>1, HitEvent DEF Sane, L1Types
<1>4. /\ Fields \subseteq DOMAIN t /\ t.abort = s.abort
      /\ t.events = Append(s.events, e)
      /\ t.l1d = s.l1d /\ t.l1i = s.l1i /\ t.l2 = s.l2
  <2>1. Fields \subseteq DOMAIN s
    BY DEF Whole
  <2>2. DOMAIN t = DOMAIN s
    BY <2>1, Emitted
  <2>3. QED
    BY <2>1, <2>2, Emitted
<1>5. Whole(t)
  BY <1>4 DEF Whole
<1>6. L1Told(e, s, t)
  BY <1>2, <1>4, L1Unmoved
<1>7. L2Told(e, s, t)
  BY <1>1, <1>4 DEF L2Told, AtL2
<1>8. "l2_hits" \in Hits
  BY DEF Hits
<1>9. QED
  BY <1>1, <1>2, <1>4, <1>5, <1>6, <1>7, <1>8, HitTells

\* A way of the L2 is replaced and touched, and nothing else of interest.
UsesL2(t, s, j, w, w2) ==
  /\ Fields \subseteq DOMAIN t
  /\ t.abort = s.abort /\ t.events = s.events /\ t.l1d = s.l1d /\ t.l1i = s.l1i
  /\ L2Put(t.l2, s.l2, j, l2_touch([s.l2[j] EXCEPT !.way[w] = w2], w))

LEMMA L2WayUsedCarries ==
  ASSUME NEW X, NEW s, Whole(s), NEW j \in L2Sets, NEW w \in Plru2!Ways, NEW w2,
         {"tag", "state"} \subseteq DOMAIN w2,
         w2.state # INVALID, s.l2[j].way[w].state # INVALID,
         NEW t, UsesL2(t, s, j, w, w2)
  PROVE  /\ Carries(X, t, s)
         /\ t.l1d = s.l1d
         /\ t.l2[j].way[w].state # INVALID
PROOF
<1> DEFINE put == [s.l2[j] EXCEPT !.way[w] = w2]
           set == l2_touch(put, w)
<1>1. set = [[s.l2[j] EXCEPT !.way[w] = w2] EXCEPT
               !.plru = Plru2!plru_update([s.l2[j] EXCEPT !.way[w] = w2].plru, w)]
  BY DEF l2_touch
<1>2. /\ Fields \subseteq DOMAIN t
      /\ t.abort = s.abort /\ t.events = s.events /\ t.l1d = s.l1d /\ t.l1i = s.l1i
      /\ L2Put(t.l2, s.l2, j, set)
  BY DEF UsesL2
<1> HIDE DEF put, set
<1>3. Refilled(set, s.l2[j], Plru2!Ways, w, w2)
  <2>1. SetShape(s.l2[j], Plru2!Ways)
    BY DEF Whole, L2Shape
  <2>2. QED
    BY <1>1, <2>1, SetRefilled, Zenon
<1>4. Carries(X, t, s) /\ KeepsL2(s, t)
  BY <1>2, <1>3, L2UsedCarries
<1>5. QED
  BY <1>2, <1>4 DEF KeepsL2

\* The peers of a line that core c does not hold are downgraded; c's L1D stays.
LEMMA SharedWithPeers ==
  ASSUME NEW X, NEW s, Whole(s), NEW c, NEW set, c \notin set,
         NEW l, NEW j \in L2Sets, NEW w \in Plru2!Ways, s.l2[j].way[w].state # INVALID,
         NEW shared, NEW t,
         t = IF shared THEN snoop_downgrade_peers(s, set, l, j, w) ELSE s
  PROVE  Quiet(X, t, s) /\ t.l1d[c] = s.l1d[c]
PROOF
<1>1. /\ Quiet(X, snoop_downgrade_peers(s, set, l, j, w), s)
      /\ Spares(snoop_downgrade_peers(s, set, l, j, w), s, set)
  BY DowngradeAll
<1>2. Quiet(X, s, s)
  BY QuietItself
<1>3. QED
  BY <1>1, <1>2 DEF Spares

LEMMA ReadL2HitTold ==
  ASSUME NEW X, NEW c \in Cores, NEW s, Whole(s), NEW b, Told(X, c, s, b, "none"),
         NEW l \in Lines, NEW w \in Plru2!Ways, s.l2[l2_to_index(l)].way[w].state # INVALID,
         NEW r, r = read_l2_hit(s, c, l, l2_to_index(l), w)
  PROVE  Whole(r) /\ Told(X, c, r, b, "l2_hits") /\ r.counted = "l2_hits"
PROOF
<1> DEFINE i == l1_to_index(l)
           j == l2_to_index(l)
           state == s.l2[j].way[w].state
           hit == event("L2_HIT", c, 2, j, w, l, state, state, <<>>)
           h == emit(s, hit)
           e == evict_l1_d(h, c, i)
           e2 == [e.l2[j].way[w] EXCEPT !.d = @ \cup {c}]
           t == [e EXCEPT !.l2[j] = l2_touch([@ EXCEPT !.way[w] = e2], w)]
           d_sharers == t.l2[j].way[w].d \ {c}
           i_sharers == t.l2[j].way[w].i \ {c}
           shared == d_sharers \cup i_sharers # {}
           u == IF shared THEN snoop_downgrade_peers(t, d_sharers, l, j, w) ELSE t
           line == u.l2[j].way[w].data
           new == IF shared THEN SHARED ELSE EXCLUSIVE
           f == l1d_fill(u, c, l, line, new)
<1>1. r = returns(f, l, line, "l2_hits")
  BY Zenon DEF read_l2_hit
<1>2. i \in L1Sets /\ j \in L2Sets
  BY Indices
<1>3. new # INVALID
  BY Zenon DEF SHARED, EXCLUSIVE, INVALID
<1>4. /\ Whole(h) /\ Told(X, c, h, b, "l2_hits")
      /\ h.l1d = s.l1d /\ h.l2 = s.l2
  <2> HIDE DEF j, state, hit, h
  <2>1. h = emit(s, hit)
    BY DEF h
  <2>2. ReportsL2Hit(hit, c, j, w, s.l2[j].way[w].state)
    BY DEF ReportsL2Hit, event, hit, state
  <2>3. s.l2[j].way[w].state # INVALID
    BY DEF j
  <2>4. QED
    BY <1>2, <2>1, <2>2, <2>3, L2HitTold
<1> HIDE DEF h, hit, state
<1>5. Quiet(X, e, h) /\ (e.abort = "none" => VacantL1(e.l1d[c][i]))
  <2> HIDE DEF i
  <2>1. QED
    BY <1>2, <1>4, EvictDVacates
<1>6. Carries(X, e, h) /\ Whole(e) /\ e.l2[j].way[w].state # INVALID
  BY <1>2, <1>4, <1>5 DEF Quiet, Carries, SteadyL2
<1> HIDE DEF e
<1>7. /\ Carries(X, t, e) /\ t.l1d = e.l1d
      /\ t.l2[j].way[w].state # INVALID
  <2>1. /\ {"tag", "state"} \subseteq DOMAIN e2
        /\ e2.state # INVALID
    BY <1>2, <1>6 DEF Whole, L2Shape, SetShape
  <2>2. UsesL2(t, e, j, w, e2)
    <3> DEFINE put == [e.l2[j] EXCEPT !.way[w] = e2]
    <3>1. t = [e EXCEPT !.l2[j] = l2_touch(put, w)]
      OBVIOUS
    <3> HIDE DEF put, t, e2
    <3>2. /\ Fields \subseteq DOMAIN t
          /\ t.abort = e.abort /\ t.events = e.events /\ t.l1d = e.l1d /\ t.l1i = e.l1i
          /\ L2Put(t.l2, e.l2, j, l2_touch(put, w))
      BY <1>6, <3>1 DEF Whole, Fields, Caches, L2Put
    <3>3. QED
      BY <3>2 DEF UsesL2, put
  <2> HIDE DEF e2, t, j
  <2>3. QED
    BY <1>2, <1>6, <2>1, <2>2, L2WayUsedCarries
<1>8. Whole(t)
  BY <1>7 DEF Carries
<1> HIDE DEF t
<1>9. Quiet(X, u, t) /\ u.l1d[c] = t.l1d[c]
  <2>1. c \notin d_sharers
    OBVIOUS
  <2>2. u = IF shared THEN snoop_downgrade_peers(t, d_sharers, l, j, w) ELSE t
    OBVIOUS
  <2> HIDE DEF shared, d_sharers, u, j
  <2>3. QED
    BY <1>2, <1>7, <1>8, <2>1, <2>2, SharedWithPeers
<1>10. Carries(X, u, t) /\ Whole(u) /\ (u.abort = "none" => VacantL1(u.l1d[c][i]))
  BY <1>5, <1>7, <1>9, Zenon DEF Quiet, Carries
<1> HIDE DEF u, line, new
<1>11. Quiet(X, f, u)
  BY <1>3, <1>10, FillDCarries
<1>12. Carries(X, f, u) /\ Whole(f)
  BY <1>11 DEF Quiet, Carries
<1> HIDE DEF f
<1>13. Told(X, c, f, b, "l2_hits")
  BY <1>4, <1>6, <1>7, <1>10, <1>12 DEF Carries
<1>14. Carries(X, r, f) /\ r.counted = "l2_hits"
  BY <1>1, <1>12, ReturnCarries
<1>15. QED
  BY <1>13, <1>14 DEF Carries

\* The access that r ends is told by its events, its counter among them.
AccessTold(X, c, r, b) == Whole(r) /\ Told(X, c, r, b, r.counted)

LEMMA ReadTold ==
  ASSUME NEW X, NEW c \in Cores, NEW s, Whole(s), NEW b, Told(X, c, s, b, "none"),
         NEW l \in Lines
  PROVE  AccessTold(X, c, cpu_read(s, c, l), b)
PROOF
<1> DEFINE i == l1_to_index(l)
           j == l2_to_index(l)
           l1_ways == find_way(s.l1d[c][i], l1_to_tag(l))
           l2_ways == find_way(s.l2[j], l2_to_tag(l))
           line == s.mem[l]
           miss == miss_fill(s, c, l, line, EXCLUSIVE)
           filled == pf_stream_on_miss(miss, c, l)
           r == cpu_read(s, c, l)
<1>1. r = IF l1_ways # {} THEN read_l1_hit(s, c, l, i, first(l1_ways))
          ELSE IF l2_ways # {} THEN read_l2_hit(s, c, l, j, first(l2_ways))
          ELSE returns(filled, l, line, "mem_fetches")
  BY DEF cpu_read
<1>2. l2_ways # {} => /\ first(l2_ways) \in Plru2!Ways
                      /\ s.l2[j].way[first(l2_ways)].state # INVALID
  <2>1. SetShape(s.l2[j], Plru2!Ways)
    BY Indices DEF Whole, L2Shape
  <2>2. QED
    BY <2>1, FirstWay DEF find_way, SetShape
<1> HIDE DEF r
<1>3. CASE l1_ways # {}
  <2> HIDE DEF i, l1_ways
  <2>1. QED
    BY <1>1, <1>3, ReadL1HitTold DEF AccessTold, r
<1>4. CASE l1_ways = {} /\ l2_ways # {}
  <2>1. r = read_l2_hit(s, c, l, l2_to_index(l), first(l2_ways))
    BY <1>1, <1>4
  <2> HIDE DEF l1_ways, l2_ways
  <2>2. QED
    BY <2>1, <1>2, <1>4, ReadL2HitTold DEF AccessTold, r
<1>5. CASE l1_ways = {} /\ l2_ways = {}
  <2>1. Whole(miss) /\ Told(X, c, miss, b, "mem_fetches")
    BY DataMissTold DEF EXCLUSIVE, INVALID
  <2> HIDE DEF miss
  <2>2. Carries(X, filled, miss)
    BY <2>1, StreamCarries
  <2>3. Whole(filled) /\ Told(X, c, filled, b, "mem_fetches")
    BY <2>1, <2>2 DEF Carries
  <2> HIDE DEF filled, l1_ways, l2_ways, line
  <2>4. Carries(X, r, filled) /\ r.counted = "mem_fetches"
    BY <1>1, <1>5, <2>3, ReturnCarries
  <2>5. QED
    BY <2>3, <2>4 DEF Carries, AccessTold, r
<1>6. QED
  BY <1>3, <1>4, <1>5

\* The writer takes the line: its L1D way and the L2 way become MODIFIED.
LEMMA WriterOwns ==
  ASSUME NEW u, Fields \subseteq DOMAIN u, NEW c, NEW i, NEW v, NEW j, NEW w, NEW line, NEW f,
         f = [u EXCEPT
                !.l2[j].way[w].d = {c}, !.l2[j].way[w].state = MODIFIED,
                !.l1d[c][i] = l1_touch([@ EXCEPT !.way[v].data = line,
                                                 !.way[v].state = MODIFIED], v),
                !.counted = "l1d_hits"],
         NEW e1, e1 = [u.l1d[c][i].way[v] EXCEPT !.data = line, !.state = MODIFIED],
         NEW e2, e2 = [u.l2[j].way[w] EXCEPT !.d = {c}, !.state = MODIFIED]
  PROVE  /\ Fields \subseteq DOMAIN f
         /\ f.abort = u.abort /\ f.events = u.events /\ f.counted = "l1d_hits"
         /\ f.l1i = u.l1i
         /\ L1Put(f.l1d, u.l1d, c, i, l1_touch([u.l1d[c][i] EXCEPT !.way[v] = e1], v))
         /\ L2PutWay(f.l2, u.l2, j, w, e2)
PROOF
<1> DEFINE put == [u.l1d[c][i] EXCEPT !.way[v] = e1]
<1>1. put = [u.l1d[c][i] EXCEPT !.way[v].data = line, !.way[v].state = MODIFIED]
  OBVIOUS
<1>2. /\ Fields \subseteq DOMAIN f /\ f.l1i = u.l1i
      /\ f.abort = u.abort /\ f.events = u.events /\ f.counted = "l1d_hits"
  BY DEF Fields, Caches
<1>3. L2PutWay(f.l2, u.l2, j, w, e2)
  <2>1. f.l2 = [u.l2 EXCEPT ![j].way[w].d = {c}, ![j].way[w].state = MODIFIED]
    BY DEF Fields, Caches
  <2>2. [u.l2[j] EXCEPT !.way[w].d = {c}, !.way[w].state = MODIFIED] =
          [u.l2[j] EXCEPT !.way[w] = e2]
    OBVIOUS
  <2>3. [u.l2 EXCEPT ![j].way[w].d = {c}, ![j].way[w].state = MODIFIED] =
          [u.l2 EXCEPT ![j] = [u.l2[j] EXCEPT !.way[w].d = {c}, !.way[w].state = MODIFIED]]
    <3>1. CASE j \in DOMAIN u.l2
      <4> DEFINE once == [u.l2[j] EXCEPT !.way[w].d = {c}]
                 p == [u.l2 EXCEPT ![j] = once]
      <4>1. p[j] = once
        BY <3>1
      <4>2. [p EXCEPT ![j] = [p[j] EXCEPT !.way[w].state = MODIFIED]] =
              [u.l2 EXCEPT ![j] = [once EXCEPT !.way[w].state = MODIFIED]]
        <5> HIDE DEF once
        <5>1. QED
          BY <4>1
      <4>3. QED
        BY <4>2
    <3>2. CASE j \notin DOMAIN u.l2
      BY <3>2
    <3>3. QED
      BY <3>1, <3>2
  <2>4. QED
    BY <2>1, <2>2, <2>3 DEF L2PutWay, L2Put
<1>4. L1Put(f.l1d, u.l1d, c, i, l1_touch(put, v))
  <2> HIDE DEF put
  <2>1. f.l1d = [u.l1d EXCEPT ![c][i] = l1_touch(put, v)]
    BY <1>1 DEF Fields, Caches
  <2>2. QED
    BY <2>1 DEF L1Put
<1>5. QED
  BY <1>2, <1>3, <1>4, Zenon

LEMMA WriteL1HitTold ==
  ASSUME NEW X, NEW c \in Cores, NEW s, Whole(s), NEW b, Told(X, c, s, b, "none"),
         NEW l, NEW i \in L1Sets, NEW v \in Plru1!Ways, NEW j \in L2Sets,
         NEW w \in Plru2!Ways, s.l2[j].way[w].state # INVALID, NEW word, NEW x,
         NEW r, r = write_l1_hit(s, c, l, i, v, j, w, word, x)
  PROVE  AccessTold(X, c, r, b)
PROOF
<1> DEFINE old == s.l1d[c][i].way[v]
           others == s.l2[j].way[w].d \ {c}
           peers_gone == snoop_invalidate_peers(s, others, l, j, w)
           renewed == [peers_gone EXCEPT !.l2[j] = l2_touch(@, w)]
           t == IF old.state = SHARED THEN renewed ELSE s
           u == snoop_invalidate_peers_i(t, l, j, w)
           line == [old.data EXCEPT ![word] = x]
           e == event("L1D_HIT", c, 1, i, v, l, old.state, MODIFIED, line)
           e1 == [u.l1d[c][i].way[v] EXCEPT !.data = line, !.state = MODIFIED]
           e2 == [u.l2[j].way[w] EXCEPT !.d = {c}, !.state = MODIFIED]
           set == l1_touch([u.l1d[c][i] EXCEPT !.way[v] = e1], v)
           f == [u EXCEPT
                   !.l2[j].way[w].d = {c}, !.l2[j].way[w].state = MODIFIED,
                   !.l1d[c][i] = l1_touch([@ EXCEPT !.way[v].data = line,
                                                    !.way[v].state = MODIFIED], v),
                   !.counted = "l1d_hits"]
<1>1. r = emit(f, e)
  BY Zenon DEF write_l1_hit
<1>2. /\ Quiet(X, peers_gone, s)
      /\ peers_gone.l1d[c] = s.l1d[c]
  <2>1. c \notin others
    OBVIOUS
  <2> HIDE DEF others
  <2>2. /\ Quiet(X, snoop_invalidate_peers(s, others, l, j, w), s)
        /\ Spares(snoop_invalidate_peers(s, others, l, j, w), s, others)
    BY InvalidateAll
  <2>3. QED
    BY <2>1, <2>2 DEF Spares
<1> HIDE DEF peers_gone
<1>3. Whole(peers_gone) /\ Carries(X, peers_gone, s) /\ KeepsL2(s, peers_gone)
  BY <1>2, L2Unmoved DEF Quiet, Carries
<1>4. /\ Carries(X, renewed, peers_gone) /\ KeepsL2(peers_gone, renewed)
      /\ renewed.l1d = peers_gone.l1d
  <2> DEFINE set2 == l2_touch(peers_gone.l2[j], w)
             w2 == peers_gone.l2[j].way[w]
  <2>1. /\ Fields \subseteq DOMAIN renewed
        /\ renewed.abort = peers_gone.abort /\ renewed.events = peers_gone.events
        /\ renewed.l1d = peers_gone.l1d /\ renewed.l1i = peers_gone.l1i
        /\ L2Put(renewed.l2, peers_gone.l2, j, set2)
    BY <1>3 DEF Whole, Fields, Caches, L2Put
  <2>2. Refilled(set2, peers_gone.l2[j], Plru2!Ways, w, w2)
    BY <1>3, SetTouched DEF l2_touch, Whole, L2Shape
  <2> HIDE DEF renewed, set2
  <2>3. Carries(X, renewed, peers_gone) /\ KeepsL2(peers_gone, renewed)
    BY <1>3, <2>1, <2>2, L2UsedCarries
  <2>4. QED
    BY <2>1, <2>3
<1>5. Carries(X, t, s) /\ KeepsL2(s, t) /\ t.l1d[c] = s.l1d[c]
  <2> HIDE DEF renewed
  <2>1. Carries(X, renewed, s)
    BY <1>3, <1>4, CarriesTransitive
  <2>2. KeepsL2(s, renewed)
    BY <1>3, <1>4 DEF KeepsL2
  <2>3. Carries(X, s, s) /\ KeepsL2(s, s)
    BY CarriesItself DEF KeepsL2
  <2>4. QED
    BY <1>2, <1>4, <2>1, <2>2, <2>3
<1> HIDE DEF t
<1>6. Whole(t)
  BY <1>5 DEF Carries
<1>7. Quiet(X, u, t) /\ u.l1d[c] = s.l1d[c]
  BY <1>5, <1>6, InvalidateIAll
<1> HIDE DEF u, line
<1>8. /\ Carries(X, u, t) /\ Whole(u)
      /\ u.l2[j].way[w].state # INVALID
  BY <1>5, <1>7 DEF Quiet, Carries, SteadyL2, KeepsL2
<1>9. Told(X, c, u, b, "none")
  BY <1>5, <1>8 DEF Carries
<1>10. /\ Fields \subseteq DOMAIN f
       /\ f.abort = u.abort /\ f.events = u.events /\ f.counted = "l1d_hits"
       /\ f.l1i = u.l1i
       /\ L1Put(f.l1d, u.l1d, c, i, set)
       /\ L2PutWay(f.l2, u.l2, j, w, e2)
  <2>1. Fields \subseteq DOMAIN u
    BY <1>8 DEF Whole
  <2> HIDE DEF f, e1, e2
  <2>2. QED
    BY <2>1, WriterOwns, Zenon DEF f, e1, e2
<1>11. /\ e.type = "L1D_HIT" /\ e.core_id = c /\ e.set_index = i /\ e.way = v
       /\ e.cache_level = 1 /\ e.old_state = old.state /\ e.new_state = MODIFIED
  BY DEF event
<1>12. Sane(e) /\ e.type \in L1Types /\ e.type \notin L2Types /\ counters_of(e) = {"l1d_hits"}
  BY <1>11, HitEvent DEF Sane, L2Types
<1>13. {"tag", "state"} \subseteq DOMAIN e1 /\ e1.state = MODIFIED
  BY <1>8 DEF Whole, L1Shape, SetShape
<1>14. {"tag", "state"} \subseteq DOMAIN e2 /\ e2.state # INVALID
  BY <1>8 DEF Whole, L2Shape, SetShape, MODIFIED, INVALID
<1>15. Refilled(set, u.l1d[c][i], Plru1!Ways, v, e1)
  <2>1. SetShape(u.l1d[c][i], Plru1!Ways)
    BY <1>8 DEF Whole, L1Shape
  <2> DEFINE put == [u.l1d[c][i] EXCEPT !.way[v] = e1]
             bits == Plru1!plru_update(put.plru, v)
  <2>2. set = [[u.l1d[c][i] EXCEPT !.way[v] = e1] EXCEPT !.plru = bits]
    BY DEF l1_touch
  <2> HIDE DEF set, e1, bits
  <2>3. QED
    BY <1>13, <2>1, <2>2, SetRefilled, Zenon
<1> HIDE DEF e, f, set, e1, e2
<1>16. /\ DOMAIN r = DOMAIN f
       /\ r.abort = u.abort /\ r.events = Append(u.events, e)
       /\ r.l1d = f.l1d /\ r.l1i = u.l1i /\ r.l2 = f.l2
  BY <1>1, <1>10, Emitted
<1>17. r.counted = "l1d_hits"
  BY <1>1, <1>10 DEF emit
<1>18. /\ L1Put(r.l1d, u.l1d, c, i, set) /\ L1Shape(u.l1d)
       /\ L2PutWay(r.l2, u.l2, j, w, e2) /\ L2Shape(u.l2)
  BY <1>8, <1>10, <1>16 DEF Whole
<1>19. /\ L1Shape(r.l1d)
       /\ \A g : /\ g.type \in L1Types /\ g.core_id = c /\ g.set_index = i /\ g.way = v
                 /\ c \in Cores /\ i \in L1Sets /\ v \in Plru1!Ways =>
                      g.old_state = u.l1d[c][i].way[v].state /\ g.new_state = e1.state
                 => L1Told(g, u, r)
  BY <1>15, <1>18, L1Refilled
<1>20. L1Told(e, u, r)
  BY <1>7, <1>11, <1>12, <1>13, <1>19
<1>21. SteadyL2(r, u) /\ L2Shape(r.l2)
  <2>1. SteadyL2(r, u)
    BY <1>8, <1>14, <1>18, L2WayKept, Zenon
  <2>2. Tame(e2, u.l2[j].way[w], u.l2[j].way[w])
    BY <1>8, WholeIsLess, L2WayTameIn, TameChanges, Zenon DEF e2
  <2>3. L2Less(r.l2, u.l2)
    BY <1>8, <1>18, <2>2, WholeIsLess, L2WayChange DEF LessCaches
  <2>4. QED
    BY <2>1, <2>3 DEF L2Less
<1>22. Whole(r)
  BY <1>8, <1>10, <1>16, <1>19, <1>21 DEF Whole
<1>23. L2Told(e, u, r)
  BY <1>12, <1>21, L2Unmoved
<1>24. "l1d_hits" \in Hits
  BY DEF Hits
<1>25. Told(X, c, r, b, "l1d_hits")
  BY <1>9, <1>11, <1>12, <1>16, <1>20, <1>22, <1>23, <1>24, HitTells
<1>26. QED
  BY <1>17, <1>22, <1>25 DEF AccessTold

LEMMA WriteL2HitTold ==
  ASSUME NEW X, NEW c \in Cores, NEW s, Whole(s), NEW b, Told(X, c, s, b, "none"),
         NEW l \in Lines, NEW w \in Plru2!Ways, s.l2[l2_to_index(l)].way[w].state # INVALID,
         NEW word, NEW x, NEW r, r = write_l2_hit(s, c, l, l2_to_index(l), w, word, x)
  PROVE  AccessTold(X, c, r, b)
PROOF
<1> DEFINE i == l1_to_index(l)
           j == l2_to_index(l)
           state == s.l2[j].way[w].state
           hit == event("L2_HIT", c, 2, j, w, l, state, state, <<>>)
           h == emit(s, hit)
           others == s.l2[j].way[w].d \ {c}
           line == [snooped_line(s, others, l, j, w) EXCEPT ![word] = x]
           p == snoop_invalidate_peers(h, others, l, j, w)
           e == evict_l1_d(p, c, i)
           f == l1d_fill(e, c, l, line, MODIFIED)
           u == snoop_invalidate_peers_i(f, l, j, w)
           e2 == [u.l2[j].way[w] EXCEPT !.d = {c}, !.state = MODIFIED]
           t == [u EXCEPT !.l2[j] = l2_touch([@ EXCEPT !.way[w].d = {c},
                                                       !.way[w].state = MODIFIED], w),
                          !.counted = "l2_hits"]
<1>1. r = t
  BY Zenon DEF write_l2_hit
<1>2. i \in L1Sets /\ j \in L2Sets
  BY Indices
<1>3. /\ Whole(h) /\ Told(X, c, h, b, "l2_hits")
      /\ h.l1d = s.l1d /\ h.l2 = s.l2
  <2> HIDE DEF j, state, hit, h
  <2>1. h = emit(s, hit)
    BY DEF h
  <2>2. ReportsL2Hit(hit, c, j, w, s.l2[j].way[w].state)
    BY DEF ReportsL2Hit, event, hit, state
  <2>3. s.l2[j].way[w].state # INVALID
    BY DEF j
  <2>4. QED
    BY <1>2, <2>1, <2>2, <2>3, L2HitTold
<1>4. h.l2[j].way[w].state # INVALID
  BY <1>3, Zenon
<1> HIDE DEF h, hit, state
<1>5. Quiet(X, p, h)
  <2> HIDE DEF others, j
  <2>1. QED
    BY <1>3, InvalidateAll
<1> HIDE DEF p, others
<1>6. Whole(p)
  BY <1>5 DEF Quiet, Carries
<1>7. Quiet(X, e, p) /\ (e.abort = "none" => VacantL1(e.l1d[c][i]))
  <2> HIDE DEF i
  <2>1. QED
    BY <1>2, <1>6, EvictDVacates
<1> HIDE DEF e, line
<1>8. Whole(e)
  BY <1>7 DEF Quiet, Carries
<1>9. Quiet(X, f, e)
  <2>1. MODIFIED # INVALID
    BY DEF MODIFIED, INVALID
  <2>2. QED
    BY <1>7, <1>8, <2>1, FillDCarries
<1> HIDE DEF f
<1>10. Whole(f)
  BY <1>9 DEF Quiet, Carries
<1>11. Quiet(X, u, f)
  <2> HIDE DEF j
  <2>1. QED
    BY <1>10, InvalidateIAll
<1> HIDE DEF u
<1>12. Quiet(X, u, h)
  BY <1>5, <1>7, <1>9, <1>11, QuietTransitive
<1>13. /\ Whole(u) /\ Told(X, c, u, b, "l2_hits")
       /\ u.l2[j].way[w].state # INVALID
  BY <1>2, <1>3, <1>4, <1>12 DEF Quiet, Carries, SteadyL2
<1>14. UsesL2(t, u, j, w, e2) /\ t.counted = "l2_hits"
  <2> DEFINE put == [u.l2[j] EXCEPT !.way[w] = e2]
  <2>1. put = [u.l2[j] EXCEPT !.way[w].d = {c}, !.way[w].state = MODIFIED]
    OBVIOUS
  <2> HIDE DEF put, e2
  <2>2. t = [u EXCEPT !.l2[j] = l2_touch(put, w), !.counted = "l2_hits"]
    BY <2>1
  <2> HIDE DEF t
  <2>3. /\ Fields \subseteq DOMAIN t
        /\ t.abort = u.abort /\ t.events = u.events /\ t.l1d = u.l1d /\ t.l1i = u.l1i
        /\ L2Put(t.l2, u.l2, j, l2_touch(put, w))
        /\ t.counted = "l2_hits"
    BY <1>13, <2>2 DEF Whole, Fields, Caches, L2Put
  <2>4. QED
    BY <2>3 DEF UsesL2, put
<1>15. {"tag", "state"} \subseteq DOMAIN e2 /\ e2.state # INVALID
  BY <1>2, <1>13 DEF Whole, L2Shape, SetShape, MODIFIED, INVALID
<1> HIDE DEF t, e2, j
<1>16. /\ Carries(X, t, u)
       /\ t.l1d = u.l1d
       /\ t.l2[j].way[w].state # INVALID
  BY <1>2, <1>13, <1>14, <1>15, L2WayUsedCarries
<1>17. Whole(t) /\ Told(X, c, t, b, "l2_hits")
  BY <1>13, <1>16 DEF Carries
<1>18. QED
  BY <1>1, <1>14, <1>17 DEF AccessTold

LEMMA WriteTold ==
  ASSUME NEW X, NEW c \in Cores, NEW s, Whole(s), NEW b, Told(X, c, s, b, "none"),
         NEW l \in Lines, NEW word, NEW x
  PROVE  AccessTold(X, c, cpu_write(s, c, l, word, x), b)
PROOF
<1> DEFINE i == l1_to_index(l)
           j == l2_to_index(l)
           l1_ways == find_way(s.l1d[c][i], l1_to_tag(l))
           l2_ways == find_way(s.l2[j], l2_to_tag(l))
           line == [s.mem[l] EXCEPT ![word] = x]
           miss == miss_fill(s, c, l, line, MODIFIED)
           filled == pf_stream_on_miss(miss, c, l)
           a == [s EXCEPT !.abort = "write_hit_not_in_l2"]
           r == cpu_write(s, c, l, word, x)
<1>1. r = IF l1_ways # {}
            THEN IF l2_ways = {} THEN a
                 ELSE write_l1_hit(s, c, l, i, first(l1_ways), j, first(l2_ways), word, x)
          ELSE IF l2_ways # {} THEN write_l2_hit(s, c, l, j, first(l2_ways), word, x)
          ELSE [filled EXCEPT !.counted = "mem_fetches"]
  BY DEF cpu_write
<1>2. i \in L1Sets /\ j \in L2Sets
  BY Indices
<1>3. l2_ways # {} => /\ first(l2_ways) \in Plru2!Ways
                      /\ s.l2[j].way[first(l2_ways)].state # INVALID
  <2>1. SetShape(s.l2[j], Plru2!Ways)
    BY Indices DEF Whole, L2Shape
  <2>2. QED
    BY <2>1, FirstWay DEF find_way, SetShape
<1>4. l1_ways # {} => first(l1_ways) \in Plru1!Ways
  <2>1. SetShape(s.l1d[c][i], Plru1!Ways)
    BY Indices DEF Whole, L1Shape
  <2>2. l1_ways # {} => first(l1_ways) \in l1_ways
    BY <2>1, FirstWay
  <2>3. l1_ways \subseteq Plru1!Ways
    BY <2>1 DEF find_way, SetShape
  <2>4. QED
    BY <2>2, <2>3
<1> HIDE DEF r
<1>5. CASE l1_ways # {} /\ l2_ways = {}
  <2>1. Quiet(X, a, s) /\ a.abort = "write_hit_not_in_l2"
    BY AbortQuiet
  <2>2. r = a
    BY <1>1, <1>5
  <2> HIDE DEF a
  <2>3. Whole(r) /\ r.abort # "none"
    BY <2>1, <2>2 DEF Quiet, Carries
  <2>4. QED
    BY <2>3 DEF AccessTold, Told, Whole, r
<1>6. CASE l1_ways # {} /\ l2_ways # {}
  <2>1. r = write_l1_hit(s, c, l, i, first(l1_ways), j, first(l2_ways), word, x)
    BY <1>1, <1>6
  <2> HIDE DEF i, j, l1_ways, l2_ways
  <2>2. QED
    BY <1>2, <1>3, <1>4, <1>6, <2>1, WriteL1HitTold DEF r
<1>7. CASE l1_ways = {} /\ l2_ways # {}
  <2>1. r = write_l2_hit(s, c, l, l2_to_index(l), first(l2_ways), word, x)
    BY <1>1, <1>7
  <2> HIDE DEF l1_ways, l2_ways
  <2>2. QED
    BY <2>1, <1>3, <1>7, WriteL2HitTold DEF r
<1>8. CASE l1_ways = {} /\ l2_ways = {}
  <2>1. Whole(miss) /\ Told(X, c, miss, b, "mem_fetches")
    BY DataMissTold DEF MODIFIED, INVALID
  <2> HIDE DEF miss
  <2>2. Carries(X, filled, miss)
    BY <2>1, StreamCarries
  <2>3. Whole(filled) /\ Told(X, c, filled, b, "mem_fetches")
    BY <2>1, <2>2 DEF Carries
  <2>4. r = [filled EXCEPT !.counted = "mem_fetches"]
    BY <1>1, <1>8
  <2> HIDE DEF filled, l1_ways, l2_ways, line
  <2>5. /\ Fields \subseteq DOMAIN r
        /\ r.abort = filled.abort /\ r.events = filled.events /\ r.counted = "mem_fetches"
        /\ r.l1d = filled.l1d /\ r.l1i = filled.l1i /\ r.l2 = filled.l2
    BY <2>3, <2>4 DEF Whole, Fields, Caches
  <2>6. Carries(X, r, filled)
    BY <2>3, <2>5, RestKept
  <2>7. QED
    BY <2>3, <2>5, <2>6 DEF Carries, AccessTold, r
<1>9. QED
  BY <1>5, <1>6, <1>7, <1>8

(***************************************************************************)
(* A fetch fills the L2 without an event, and reports the eviction of an   *)
(* L1I way as one of the L1D: its events tell the L1Ds if it evicts none.  *)
(***************************************************************************)
FitsL1I(X, s, c, i) == "l1d" \in X => invalid_ways(s.l1i[c][i]) # {}

LEMMA EvictICarries ==
  ASSUME NEW X, NEW s, Whole(s), NEW c \in Cores, NEW i \in L1Sets, FitsL1I(X, s, c, i)
  PROVE  Quiet(X, evict_l1_i(s, c, i), s)
PROOF
<1> DEFINE v == l1_room(s.l1i[c][i])
<1>1. SetShape(s.l1i[c][i], Plru1!Ways)
  BY DEF Whole, L1Shape
<1>2. "l1d" \in X => s.l1i[c][i].way[v].state = INVALID
  BY <1>1, FirstInvalid DEF FitsL1I, l1_room
<1> HIDE DEF v
<1>3. Quiet(X, evict_l1_i_way(s, c, i, v), s)
  BY <1>2, EvictIQuiet
<1>4. QED
  BY <1>3 DEF evict_l1_i, v

LEMMA FetchL2HitTold ==
  ASSUME NEW X, NEW c \in Cores, NEW s, Whole(s), NEW l \in Lines,
         FitsL1I(X, s, c, l1_to_index(l)),
         NEW w \in Plru2!Ways, s.l2[l2_to_index(l)].way[w].state # INVALID
  PROVE  Carries(X, fetch_l2_hit(s, c, l, l2_to_index(l), w), s)
PROOF
<1> DEFINE i == l1_to_index(l)
           j == l2_to_index(l)
           e == evict_l1_i(s, c, i)
           e2 == [e.l2[j].way[w] EXCEPT !.i = @ \cup {c}]
           t == [e EXCEPT !.l2[j] = l2_touch([@ EXCEPT !.way[w] = e2], w)]
           d_sharers == t.l2[j].way[w].d \ {c}
           i_sharers == t.l2[j].way[w].i \ {c}
           shared == d_sharers \cup i_sharers # {}
           u == IF shared THEN snoop_downgrade_peers(t, d_sharers, l, j, w) ELSE t
           line == u.l2[j].way[w].data
           f == l1i_fill(u, c, l, line)
           r == fetch_l2_hit(s, c, l, j, w)
<1>1. r = returns(f, l, line, "l2_hits")
  BY DEF fetch_l2_hit
<1>2. i \in L1Sets /\ j \in L2Sets
  BY Indices
<1> HIDE DEF r
<1>3. Quiet(X, e, s)
  <2> HIDE DEF i
  <2>1. FitsL1I(X, s, c, i)
    BY DEF i
  <2>2. QED
    BY <1>2, <2>1, EvictICarries
<1>4. Carries(X, e, s) /\ Whole(e) /\ e.l2[j].way[w].state # INVALID
  BY <1>2, <1>3 DEF Quiet, Carries, SteadyL2
<1> HIDE DEF e
<1>5. /\ Carries(X, t, e) /\ t.l1d = e.l1d
      /\ t.l2[j].way[w].state # INVALID
  <2>1. /\ {"tag", "state"} \subseteq DOMAIN e2
        /\ e2.state # INVALID
    BY <1>2, <1>4 DEF Whole, L2Shape, SetShape
  <2>2. UsesL2(t, e, j, w, e2)
    <3> DEFINE put == [e.l2[j] EXCEPT !.way[w] = e2]
    <3>1. t = [e EXCEPT !.l2[j] = l2_touch(put, w)]
      OBVIOUS
    <3> HIDE DEF put, t, e2
    <3>2. /\ Fields \subseteq DOMAIN t
          /\ t.abort = e.abort /\ t.events = e.events /\ t.l1d = e.l1d /\ t.l1i = e.l1i
          /\ L2Put(t.l2, e.l2, j, l2_touch(put, w))
      BY <1>4, <3>1 DEF Whole, Fields, Caches, L2Put
    <3>3. QED
      BY <3>2 DEF UsesL2, put
  <2> HIDE DEF e2, t, j
  <2>3. QED
    BY <1>2, <1>4, <2>1, <2>2, L2WayUsedCarries
<1>6. Whole(t)
  BY <1>5 DEF Carries
<1> HIDE DEF t
<1>7. Quiet(X, u, t)
  <2>1. c \notin d_sharers
    OBVIOUS
  <2>2. u = IF shared THEN snoop_downgrade_peers(t, d_sharers, l, j, w) ELSE t
    OBVIOUS
  <2> HIDE DEF shared, d_sharers, u, j
  <2>3. Quiet(X, u, t) /\ u.l1d[c] = t.l1d[c]
    BY <1>2, <1>5, <1>6, <2>1, <2>2, SharedWithPeers
  <2>4. QED
    BY <2>3
<1>8. Carries(X, u, t) /\ Whole(u)
  BY <1>7, Zenon DEF Quiet, Carries
<1> HIDE DEF u, line
<1>9. Carries(X, f, u) /\ Whole(f)
  BY <1>8, FillIQuiet DEF Quiet, Carries
<1> HIDE DEF f
<1>10. Carries(X, r, f)
  BY <1>1, <1>9, ReturnCarries
<1>11. Carries(X, r, s)
  BY <1>4, <1>5, <1>8, <1>9, <1>10, CarriesTransitive
<1>12. QED
  BY <1>11 DEF r

\* The L2 is filled, and nothing tells it.
LEMMA FillL2Silent ==
  ASSUME NEW X, "l2" \notin X, NEW s, Whole(s), NEW l \in Lines, NEW w, NEW line, NEW state,
         NEW d, NEW i
  PROVE  Carries(X, l2_cache_fill(s, l, w, line, state, d, i), s)
PROOF
<1> DEFINE j == l2_to_index(l)
           way == s.l2[j].way[w]
           w2 == [tag |-> l2_to_tag(l), state |-> state, data |-> line, d |-> d, i |-> i]
           a == [s EXCEPT !.abort = "fill_over_sharers"]
           set == l2_filled(s.l2[j], w, l2_to_tag(l), line, state, d, i)
           t == [s EXCEPT !.l2[j] = set]
           u == l2_cache_fill(s, l, w, line, state, d, i)
<1>1. u = IF way.d \cup way.i # {} THEN a ELSE t
  BY DEF l2_cache_fill
<1>2. Carries(X, a, s)
  BY AbortQuiet DEF Quiet
<1>3. /\ {"tag", "state"} \subseteq DOMAIN w2
      /\ set = [[s.l2[j] EXCEPT !.way[w] = w2] EXCEPT
                  !.plru = Plru2!plru_update([s.l2[j] EXCEPT !.way[w] = w2].plru, w)]
  BY DEF l2_filled, l2_touch
<1>4. /\ Fields \subseteq DOMAIN t
      /\ t.abort = s.abort /\ t.events = s.events /\ t.l1d = s.l1d /\ t.l1i = s.l1i
      /\ L2Put(t.l2, s.l2, j, set)
  BY DEF Whole, Fields, Caches, L2Put
<1> HIDE DEF w2, set, t, a, way, u
<1>5. Refilled(set, s.l2[j], Plru2!Ways, w, w2)
  <2>1. SetShape(s.l2[j], Plru2!Ways)
    BY Indices DEF Whole, L2Shape
  <2>2. QED
    BY <1>3, <2>1, SetRefilled, Zenon
<1>6. L2Shape(t.l2)
  BY <1>4, <1>5, L2Refilled DEF Whole
<1>7. Whole(t)
  BY <1>4, <1>6 DEF Whole
<1>8. Stage(X, t, s)
  BY <1>4, L1Unmoved DEF Stage, SamePicture
<1>9. Carries(X, t, s)
  BY <1>7, <1>8, StageCarries
<1>10. QED
  BY <1>1, <1>2, <1>9 DEF u

LEMMA FetchMissTold ==
  ASSUME NEW X, "l2" \notin X, NEW c \in Cores, NEW s, Whole(s), NEW l \in Lines,
         FitsL1I(X, s, c, l1_to_index(l))
  PROVE  Carries(X, fetch_miss(s, c, l, l2_to_index(l)), s)
PROOF
<1> DEFINE i == l1_to_index(l)
           j == l2_to_index(l)
           line == s.mem[l]
           a == evict_l2(s, j)
           e == evict_l1_i(a, c, i)
           w == l2_room(e.l2[j])
           t == l2_cache_fill(e, l, w, line, EXCLUSIVE, {}, {c})
           f == l1i_fill(t, c, l, line)
           g == pf_nextline_on_miss(f, l)
           r == fetch_miss(s, c, l, j)
<1>1. r = returns(g, l, line, "mem_fetches")
  BY DEF fetch_miss
<1>2. i \in L1Sets /\ j \in L2Sets
  BY Indices
<1> HIDE DEF r
<1>3. LessCaches(a, s)
  BY WholeIsLess, EvictL2
<1>4. Carries(X, a, s) /\ Whole(a)
  BY <1>2, EvictL2Vacates DEF Carries
<1> HIDE DEF a
<1>5. FitsL1I(X, a, c, i)
  <2>1. /\ SetShape(a.l1i[c][i], Plru1!Ways) /\ SetShape(s.l1i[c][i], Plru1!Ways)
        /\ Sheds(a.l1i[c][i], s.l1i[c][i], Plru1!Ways)
    BY <1>2, <1>3 DEF LessCaches, L1Less, Whole, L1Shape
  <2>2. invalid_ways(s.l1i[c][i]) \subseteq invalid_ways(a.l1i[c][i])
    BY <2>1 DEF SetShape, Sheds, invalid_ways
  <2>3. QED
    BY <2>2 DEF FitsL1I
<1>6. Carries(X, e, a) /\ Whole(e)
  <2> HIDE DEF i
  <2>1. QED
    BY <1>2, <1>4, <1>5, EvictICarries DEF Quiet, Carries
<1> HIDE DEF e, w, line
<1>7. Carries(X, t, e) /\ Whole(t)
  BY <1>6, FillL2Silent DEF Carries
<1> HIDE DEF t
<1>8. Carries(X, f, t) /\ Whole(f)
  BY <1>7, FillIQuiet DEF Quiet, Carries
<1> HIDE DEF f
<1>9. Carries(X, g, f) /\ Whole(g)
  BY <1>8, PrefetchNextCarries DEF Carries
<1> HIDE DEF g
<1>10. Carries(X, r, g)
  BY <1>1, <1>9, ReturnCarries
<1>11. Carries(X, r, s)
  BY <1>4, <1>6, <1>7, <1>8, <1>9, <1>10, CarriesTransitive
<1>12. QED
  BY <1>11 DEF r

LEMMA FetchTold ==
  ASSUME NEW X, "l2" \notin X, NEW c \in Cores, NEW s, Whole(s), NEW l \in Lines,
         find_way(s.l1i[c][l1_to_index(l)], l1_to_tag(l)) = {} =>
           FitsL1I(X, s, c, l1_to_index(l))
  PROVE  Carries(X, cpu_fetch(s, c, l), s)
PROOF
<1> DEFINE i == l1_to_index(l)
           j == l2_to_index(l)
           l1_ways == find_way(s.l1i[c][i], l1_to_tag(l))
           l2_ways == find_way(s.l2[j], l2_to_tag(l))
           v == first(l1_ways)
           t == [s EXCEPT !.l1i[c][i] = l1_touch(@, v)]
           line == s.l1i[c][i].way[v].data
           a == [s EXCEPT !.abort = "fetch_of_modified", !.ret = ret]
           r == cpu_fetch(s, c, l)
<1>1. r = IF l1_ways # {} THEN returns(t, l, line, "l1i_hits")
          ELSE IF l2_ways # {}
            THEN IF s.l2[j].way[first(l2_ways)].state = MODIFIED THEN a
                 ELSE fetch_l2_hit(s, c, l, j, first(l2_ways))
          ELSE fetch_miss(s, c, l, j)
  BY DEF cpu_fetch
<1>2. l2_ways # {} => /\ first(l2_ways) \in Plru2!Ways
                      /\ s.l2[j].way[first(l2_ways)].state # INVALID
  <2>1. SetShape(s.l2[j], Plru2!Ways)
    BY Indices DEF Whole, L2Shape
  <2>2. QED
    BY <2>1, FirstWay, Zenon DEF find_way, SetShape
<1>3. Carries(X, a, s)
  <2>1. /\ Fields \subseteq DOMAIN a /\ a.abort = "fetch_of_modified"
        /\ a.l1d = s.l1d /\ a.l1i = s.l1i /\ a.l2 = s.l2
    BY DEF Whole, Fields, Caches
  <2> HIDE DEF a
  <2>2. Whole(a)
    BY <2>1 DEF Whole
  <2>3. Stage(X, a, s)
    BY <2>1 DEF Stage
  <2>4. QED
    BY <2>2, <2>3, StageCarries
<1>4. Carries(X, t, s)
  <2> DEFINE set == l1_touch(s.l1i[c][i], v)
  <2>1. /\ Fields \subseteq DOMAIN t
        /\ t.abort = s.abort /\ t.events = s.events /\ t.l2 = s.l2 /\ t.l1d = s.l1d
        /\ L1Put(t.l1i, s.l1i, c, i, set)
    BY DEF Whole, Fields, Caches, L1Put
  <2>2. c \in Cores /\ i \in L1Sets => SetShape(set, Plru1!Ways)
    <3>1. c \in Cores /\ i \in L1Sets => SetShape(s.l1i[c][i], Plru1!Ways)
      BY DEF Whole, L1Shape
    <3> HIDE DEF v, i
    <3>2. QED
      BY <3>1, SetTouched DEF Refilled, l1_touch
  <2> HIDE DEF t, set
  <2>3. L1Shape(t.l1i)
    BY <2>1, <2>2 DEF Whole, L1Shape, L1Put
  <2>4. Whole(t) /\ SteadyL2(t, s)
    BY <2>1, <2>3 DEF Whole, SteadyL2
  <2>5. QED
    BY <2>1, <2>4, StillQuiet DEF Quiet
<1> HIDE DEF r, t, a, line
<1>5. CASE l1_ways # {}
  <2>1. Whole(t)
    BY <1>4 DEF Carries
  <2>2. r = returns(t, l, line, "l1i_hits")
    BY <1>1, <1>5
  <2>3. Carries(X, r, t)
    BY <2>1, <2>2, ReturnCarries
  <2>4. QED
    BY <1>4, <2>3, CarriesTransitive DEF r
<1>6. CASE l1_ways = {} /\ l2_ways # {}
  <2>1. \/ r = a
        \/ r = fetch_l2_hit(s, c, l, l2_to_index(l), first(l2_ways))
    BY <1>1, <1>6
  <2>2. FitsL1I(X, s, c, l1_to_index(l))
    BY <1>6
  <2> HIDE DEF l1_ways, l2_ways
  <2>3. QED
    BY <1>2, <1>3, <1>6, <2>1, <2>2, FetchL2HitTold DEF r
<1>7. CASE l1_ways = {} /\ l2_ways = {}
  <2>1. r = fetch_miss(s, c, l, l2_to_index(l))
    BY <1>1, <1>7
  <2>2. FitsL1I(X, s, c, l1_to_index(l))
    BY <1>7
  <2> HIDE DEF l1_ways, l2_ways
  <2>3. QED
    BY <2>1, <2>2, FetchMissTold DEF r
<1>8. QED
  BY <1>5, <1>6, <1>7

(***************************************************************************)
(* One event in the shadow state, forward or backward.                     *)
(***************************************************************************)
CounterNames == {"l1d_hits", "l2_hits", "mem_fetches", "snoops", "prefetches"}

ShadowShape(s) ==
  /\ {"l1d", "l2", "flash", "counters"} \subseteq DOMAIN s
  /\ DOMAIN s.l1d = Cores
  /\ \A c \in Cores :
       /\ DOMAIN s.l1d[c] = L1Sets
       /\ \A i \in L1Sets :
            /\ DOMAIN s.l1d[c][i] = Plru1!Ways
            /\ \A w \in Plru1!Ways : "state" \in DOMAIN s.l1d[c][i][w]
  /\ DOMAIN s.l2 = L2Sets
  /\ \A j \in L2Sets :
       /\ "cell" \in DOMAIN s.l2[j]
       /\ DOMAIN s.l2[j].cell = Plru2!Ways
       /\ \A w \in Plru2!Ways : "state" \in DOMAIN s.l2[j].cell[w]
  /\ DOMAIN s.counters = Cores
  /\ \A c \in Cores : s.counters[c] \in [CounterNames -> Int]

\* In t the cell e is about has state x; the other cells are those of s.
CellSet(t, s, e, x) ==
  /\ \A c \in Cores, i \in L1Sets, w \in Plru1!Ways :
       t.l1d[c][i][w].state = IF AtL1(e, c, i, w) THEN x ELSE s.l1d[c][i][w].state
  /\ \A j \in L2Sets, w \in Plru2!Ways :
       t.l2[j].cell[w].state = IF AtL2(e, j, w) THEN x ELSE s.l2[j].cell[w].state

LEMMA CellMoves ==
  ASSUME NEW e, Sane(e), e.type \in L1Types \cup L2Types, NEW cell, "state" \in DOMAIN cell
  PROVE  /\ "state" \in DOMAIN cell_forward(cell, e)
         /\ cell_forward(cell, e).state = e.new_state
         /\ "state" \in DOMAIN cell_backward(cell, e)
         /\ cell_backward(cell, e).state = e.old_state
PROOF
<1>1. ASSUME NEW x
      PROVE  LET moved == with_data([cell EXCEPT !.state = x], e)
             IN  "state" \in DOMAIN moved /\ moved.state = x
  BY DEF with_data
<1>2. ASSUME NEW x
      PROVE  LET moved == [cell EXCEPT !.state = x]
             IN  "state" \in DOMAIN moved /\ moved.state = x
  OBVIOUS
<1>3. /\ "state" \in DOMAIN cell_forward(cell, e)
      /\ cell_forward(cell, e).state = e.new_state
  BY <1>1, <1>2 DEF cell_forward, Sane, L1Types, L2Types
<1>4. /\ "state" \in DOMAIN cell_backward(cell, e)
      /\ cell_backward(cell, e).state = e.old_state
  BY <1>1, <1>2 DEF cell_backward, Sane, L1Types, L2Types
<1>5. QED
  BY <1>3, <1>4

\* The cell of an L1D, or of the L2, is replaced by one of state x.
LEMMA L1CellSet ==
  ASSUME NEW s, ShadowShape(s), NEW e, e.type \in L1Types, NEW cell, NEW x,
         e.core_id \in Cores /\ e.set_index \in L1Sets /\ e.way \in Plru1!Ways =>
           "state" \in DOMAIN cell /\ cell.state = x,
         NEW t, t = [s EXCEPT !.l1d[e.core_id][e.set_index][e.way] = cell]
  PROVE  ShadowShape(t) /\ t.counters = s.counters /\ CellSet(t, s, e, x)
PROOF
<1>1. /\ {"l1d", "l2", "flash", "counters"} \subseteq DOMAIN t
      /\ t.l2 = s.l2 /\ t.counters = s.counters
      /\ t.l1d = [s.l1d EXCEPT ![e.core_id][e.set_index][e.way] = cell]
  BY DEF ShadowShape
<1>2. /\ DOMAIN t.l1d = Cores
      /\ \A c \in Cores :
           /\ DOMAIN t.l1d[c] = L1Sets
           /\ \A i \in L1Sets :
                /\ DOMAIN t.l1d[c][i] = Plru1!Ways
                /\ \A w \in Plru1!Ways :
                     t.l1d[c][i][w] = IF c = e.core_id /\ i = e.set_index /\ w = e.way
                                        THEN cell ELSE s.l1d[c][i][w]
  BY <1>1 DEF ShadowShape
<1>3. ShadowShape(t)
  BY <1>1, <1>2 DEF ShadowShape
<1>4. e.type \notin L2Types
  BY DEF L1Types, L2Types
<1>5. CellSet(t, s, e, x)
  BY <1>1, <1>2, <1>4 DEF CellSet, AtL1, AtL2
<1>6. QED
  BY <1>1, <1>3, <1>5

\* The state of the row that stands for the set leaves its cells alone.
LEMMA CellsStay ==
  ASSUME NEW set, "cell" \in DOMAIN set
  PROVE  /\ "cell" \in DOMAIN recompute_l2_dominant(set)
         /\ recompute_l2_dominant(set).cell = set.cell
PROOF
  BY DEF recompute_l2_dominant

LEMMA L2CellSet ==
  ASSUME NEW s, ShadowShape(s), NEW e, e.type \in L2Types, NEW cell, NEW x,
         e.set_index \in L2Sets /\ e.way \in Plru2!Ways =>
           "state" \in DOMAIN cell /\ cell.state = x,
         NEW set, set = [s.l2[e.set_index] EXCEPT !.cell[e.way] = cell],
         NEW t, t = [s EXCEPT !.l2[e.set_index] = recompute_l2_dominant(set)]
  PROVE  ShadowShape(t) /\ t.counters = s.counters /\ CellSet(t, s, e, x)
PROOF
<1> DEFINE new == recompute_l2_dominant(set)
<1>1. e.set_index \in L2Sets =>
        /\ "cell" \in DOMAIN set
        /\ DOMAIN set.cell = Plru2!Ways
        /\ \A w \in Plru2!Ways :
             set.cell[w] = IF w = e.way THEN cell ELSE s.l2[e.set_index].cell[w]
  BY DEF ShadowShape
<1>2. e.set_index \in L2Sets => "cell" \in DOMAIN new /\ new.cell = set.cell
  BY <1>1, CellsStay
<1>3. t = [s EXCEPT !.l2[e.set_index] = new]
  OBVIOUS
<1> HIDE DEF new
<1>4. /\ {"l1d", "l2", "flash", "counters"} \subseteq DOMAIN t
      /\ t.l1d = s.l1d /\ t.counters = s.counters
      /\ t.l2 = [s.l2 EXCEPT ![e.set_index] = new]
  BY <1>3 DEF ShadowShape
<1>5. /\ DOMAIN t.l2 = L2Sets
      /\ \A j \in L2Sets : t.l2[j] = IF j = e.set_index THEN new ELSE s.l2[j]
  BY <1>4 DEF ShadowShape
<1>6. \A j \in L2Sets :
        /\ "cell" \in DOMAIN t.l2[j]
        /\ DOMAIN t.l2[j].cell = Plru2!Ways
        /\ \A w \in Plru2!Ways :
             t.l2[j].cell[w] = IF j = e.set_index /\ w = e.way THEN cell ELSE s.l2[j].cell[w]
  <2> SUFFICES ASSUME NEW j \in L2Sets
               PROVE  /\ "cell" \in DOMAIN t.l2[j]
                      /\ DOMAIN t.l2[j].cell = Plru2!Ways
                      /\ \A w \in Plru2!Ways :
                           t.l2[j].cell[w] = IF j = e.set_index /\ w = e.way
                                               THEN cell ELSE s.l2[j].cell[w]
    OBVIOUS
  <2>1. CASE j = e.set_index
    BY <1>1, <1>2, <1>5, <2>1
  <2>2. CASE j # e.set_index
    BY <1>5, <2>2 DEF ShadowShape
  <2>3. QED
    BY <2>1, <2>2
<1>7. ShadowShape(t)
  <2>1. ASSUME NEW j \in L2Sets, NEW w \in Plru2!Ways PROVE "state" \in DOMAIN t.l2[j].cell[w]
    <3>1. CASE j = e.set_index /\ w = e.way
      <4>1. t.l2[j].cell[w] = cell
        BY <1>6, <3>1
      <4>2. QED
        BY <3>1, <4>1
    <3>2. CASE ~(j = e.set_index /\ w = e.way)
      <4>1. t.l2[j].cell[w] = s.l2[j].cell[w]
        BY <1>6, <3>2
      <4>2. QED
        BY <4>1 DEF ShadowShape
    <3>3. QED
      BY <3>1, <3>2
  <2>2. QED
    BY <1>4, <1>5, <1>6, <2>1 DEF ShadowShape
<1>8. e.type \notin L1Types
  BY DEF L1Types, L2Types
<1>9. CellSet(t, s, e, x)
  BY <1>4, <1>6, <1>8 DEF CellSet, AtL1, AtL2
<1>10. QED
  BY <1>4, <1>7, <1>9

CountersSet(t, s, e, delta) ==
  \A c \in Cores, k \in Hits :
    t.counters[c][k] = IF e.core_id = c /\ k \in counters_of(e)
                         THEN s.counters[c][k] + delta ELSE s.counters[c][k]

LEMMA CountersMove ==
  ASSUME NEW s, ShadowShape(s), NEW e, NEW delta \in Int, NEW t, t = update_counters(s, e, delta)
  PROVE  /\ ShadowShape(t) /\ CountersSet(t, s, e, delta)
         /\ t.l1d = s.l1d /\ t.l2 = s.l2
PROOF
<1> DEFINE old == s.counters[e.core_id]
           new == [k \in DOMAIN old |-> IF k \in counters_of(e) THEN old[k] + delta ELSE old[k]]
<1>1. t = [s EXCEPT !.counters[e.core_id] = new]
  BY DEF update_counters
<1>2. e.core_id \in Cores =>
        /\ new \in [CounterNames -> Int]
        /\ \A k \in CounterNames :
             new[k] = IF k \in counters_of(e) THEN old[k] + delta ELSE old[k]
  BY DEF ShadowShape
<1> HIDE DEF new
<1>3. /\ {"l1d", "l2", "flash", "counters"} \subseteq DOMAIN t
      /\ t.l1d = s.l1d /\ t.l2 = s.l2
      /\ t.counters = [s.counters EXCEPT ![e.core_id] = new]
  BY <1>1 DEF ShadowShape
<1>4. /\ DOMAIN t.counters = Cores
      /\ \A c \in Cores : t.counters[c] = IF c = e.core_id THEN new ELSE s.counters[c]
  BY <1>3 DEF ShadowShape
<1>5. ShadowShape(t)
  <2>1. \A c \in Cores : t.counters[c] \in [CounterNames -> Int]
    BY <1>2, <1>4 DEF ShadowShape
  <2>2. QED
    BY <1>3, <1>4, <2>1 DEF ShadowShape
<1>6. CountersSet(t, s, e, delta)
  <2>1. Hits \subseteq CounterNames
    BY DEF Hits, CounterNames
  <2> SUFFICES ASSUME NEW c \in Cores, NEW k \in Hits
               PROVE  t.counters[c][k] = IF e.core_id = c /\ k \in counters_of(e)
                                           THEN s.counters[c][k] + delta ELSE s.counters[c][k]
    BY DEF CountersSet
  <2>2. CASE c = e.core_id
    <3>1. t.counters[c] = new /\ k \in CounterNames /\ old = s.counters[c]
      BY <1>4, <2>1, <2>2
    <3> HIDE DEF old
    <3>2. QED
      BY <1>2, <2>2, <3>1
  <2>3. CASE c # e.core_id
    BY <1>4, <2>3
  <2>4. QED
    BY <2>2, <2>3
<1>7. QED
  BY <1>3, <1>5, <1>6

EventShown(t, s, e, x, delta) ==
  ShadowShape(t) /\ CellSet(t, s, e, x) /\ CountersSet(t, s, e, delta)

\* apply_to_cell, for the new cells of the L1D and of the L2.
CellReplaced(t, u, e, moved1, moved2) ==
  LET set == [u.l2[e.set_index] EXCEPT !.cell[e.way] = moved2]
  IN  t = IF e.cache_level = 1 /\ e.type \in L1Types
            THEN [u EXCEPT !.l1d[e.core_id][e.set_index][e.way] = moved1]
          ELSE IF e.cache_level = 2 /\ e.type \in L2Types
            THEN [u EXCEPT !.l2[e.set_index] = recompute_l2_dominant(set)]
          ELSE u

LEMMA SameCellSet ==
  ASSUME NEW t, NEW u, NEW s, NEW e, NEW x, CellSet(t, u, e, x), u.l1d = s.l1d, u.l2 = s.l2
  PROVE  CellSet(t, s, e, x)
BY DEF CellSet

LEMMA CellShown ==
  ASSUME NEW s, ShadowShape(s), NEW e, Sane(e), NEW x, NEW delta \in Int,
         NEW u, u = update_counters(s, e, delta),
         NEW moved1, NEW moved2,
         e.type \in L1Types /\ e.core_id \in Cores /\ e.set_index \in L1Sets /\ e.way \in Plru1!Ways =>
           "state" \in DOMAIN moved1 /\ moved1.state = x,
         e.type \in L2Types /\ e.set_index \in L2Sets /\ e.way \in Plru2!Ways =>
           "state" \in DOMAIN moved2 /\ moved2.state = x,
         NEW t, CellReplaced(t, u, e, moved1, moved2)
  PROVE  EventShown(t, s, e, x, delta)
PROOF
<1> DEFINE set == [u.l2[e.set_index] EXCEPT !.cell[e.way] = moved2]
<1>1. /\ ShadowShape(u) /\ CountersSet(u, s, e, delta)
      /\ u.l1d = s.l1d /\ u.l2 = s.l2
  BY CountersMove
<1>2. ShadowShape(t) /\ t.counters = u.counters /\ CellSet(t, u, e, x)
  <2>1. CASE e.type \in L1Types
    <3>1. t = [u EXCEPT !.l1d[e.core_id][e.set_index][e.way] = moved1]
      BY <2>1 DEF Sane, CellReplaced
    <3>2. QED
      BY <1>1, <2>1, <3>1, L1CellSet
  <2>2. CASE e.type \in L2Types
    <3>1. t = [u EXCEPT !.l2[e.set_index] = recompute_l2_dominant(set)]
      BY <2>2 DEF Sane, CellReplaced, L1Types, L2Types
    <3>2. QED
      BY <1>1, <2>2, <3>1, L2CellSet
  <2>3. CASE e.type \notin L1Types /\ e.type \notin L2Types
    <3>1. t = u
      BY <2>3 DEF CellReplaced
    <3>2. QED
      BY <1>1, <2>3, <3>1 DEF CellSet, AtL1, AtL2
  <2>4. QED
    BY <2>1, <2>2, <2>3
<1>3. CellSet(t, s, e, x)
  BY <1>1, <1>2, SameCellSet
<1>4. CountersSet(t, s, e, delta)
  BY <1>1, <1>2 DEF CountersSet
<1>5. QED
  BY <1>2, <1>3, <1>4 DEF EventShown

LEMMA EventForward ==
  ASSUME NEW s, ShadowShape(s), NEW e, Sane(e)
  PROVE  EventShown(apply_event_forward(s, e), s, e, e.new_state, 1)
PROOF
<1> DEFINE u == update_counters(s, e, 1)
           moved1 == cell_forward(u.l1d[e.core_id][e.set_index][e.way], e)
           moved2 == cell_forward(u.l2[e.set_index].cell[e.way], e)
           set == [u.l2[e.set_index] EXCEPT !.cell[e.way] = moved2]
           t == IF e.cache_level = 1 /\ e.type \in L1Types
                  THEN [u EXCEPT !.l1d[e.core_id][e.set_index][e.way] = moved1]
                ELSE IF e.cache_level = 2 /\ e.type \in L2Types
                  THEN [u EXCEPT !.l2[e.set_index] = recompute_l2_dominant(set)]
                ELSE u
           r == IF e.type = "PREFETCH_L2" THEN [t EXCEPT !.flash[e.set_index][e.way] = FLASH]
                                          ELSE t
<1>1. apply_event_forward(s, e) = r
  BY DEF apply_event_forward, apply_to_cell
<1>2. ShadowShape(u)
  BY CountersMove
<1> HIDE DEF u
<1>3. e.type \in L1Types /\ e.core_id \in Cores /\ e.set_index \in L1Sets /\ e.way \in Plru1!Ways =>
        "state" \in DOMAIN moved1 /\ moved1.state = e.new_state
  BY <1>2, CellMoves DEF ShadowShape
<1>4. e.type \in L2Types /\ e.set_index \in L2Sets /\ e.way \in Plru2!Ways =>
        "state" \in DOMAIN moved2 /\ moved2.state = e.new_state
  BY <1>2, CellMoves DEF ShadowShape
<1>5. EventShown(t, s, e, e.new_state, 1)
  <2> HIDE DEF moved1, moved2
  <2>1. u = update_counters(s, e, 1)
    BY DEF u
  <2>2. CellReplaced(t, u, e, moved1, moved2)
    BY DEF CellReplaced
  <2> HIDE DEF t
  <2>3. QED
    BY <1>3, <1>4, <2>1, <2>2, CellShown
<1> HIDE DEF t
<1>6. /\ {"l1d", "l2", "flash", "counters"} \subseteq DOMAIN r
      /\ r.l1d = t.l1d /\ r.l2 = t.l2 /\ r.counters = t.counters
  BY <1>5 DEF EventShown, ShadowShape
<1> HIDE DEF r
<1>7. EventShown(r, s, e, e.new_state, 1)
  BY <1>5, <1>6 DEF EventShown, ShadowShape, CellSet, CountersSet
<1>8. QED
  BY <1>1, <1>7

LEMMA EventBackward ==
  ASSUME NEW s, ShadowShape(s), NEW e, Sane(e)
  PROVE  EventShown(apply_event_backward(s, e), s, e, e.old_state, -1)
PROOF
<1> DEFINE u == update_counters(s, e, -1)
           moved1 == cell_backward(u.l1d[e.core_id][e.set_index][e.way], e)
           moved2 == cell_backward(u.l2[e.set_index].cell[e.way], e)
           set == [u.l2[e.set_index] EXCEPT !.cell[e.way] = moved2]
           t == IF e.cache_level = 1 /\ e.type \in L1Types
                  THEN [u EXCEPT !.l1d[e.core_id][e.set_index][e.way] = moved1]
                ELSE IF e.cache_level = 2 /\ e.type \in L2Types
                  THEN [u EXCEPT !.l2[e.set_index] = recompute_l2_dominant(set)]
                ELSE u
<1>1. apply_event_backward(s, e) = t
  BY DEF apply_event_backward, apply_to_cell
<1>2. ShadowShape(u)
  BY CountersMove
<1> HIDE DEF u
<1>3. e.type \in L1Types /\ e.core_id \in Cores /\ e.set_index \in L1Sets /\ e.way \in Plru1!Ways =>
        "state" \in DOMAIN moved1 /\ moved1.state = e.old_state
  BY <1>2, CellMoves DEF ShadowShape
<1>4. e.type \in L2Types /\ e.set_index \in L2Sets /\ e.way \in Plru2!Ways =>
        "state" \in DOMAIN moved2 /\ moved2.state = e.old_state
  BY <1>2, CellMoves DEF ShadowShape
<1>5. EventShown(t, s, e, e.old_state, -1)
  <2> HIDE DEF moved1, moved2
  <2>1. u = update_counters(s, e, -1)
    BY DEF u
  <2>2. CellReplaced(t, u, e, moved1, moved2)
    BY DEF CellReplaced
  <2> HIDE DEF t
  <2>3. QED
    BY <1>3, <1>4, <2>1, <2>2, CellShown
<1>6. QED
  BY <1>1, <1>5

(***************************************************************************)
(* A film: the pictures between the events of the queue.  D is the set of  *)
(* cores whose counters must be right.                                     *)
(***************************************************************************)
CountsTold(D, e, p, q) ==
  \A c \in D, k \in Hits :
    q.pmc[c][k] = IF e.core_id = c /\ k \in counters_of(e) THEN p.pmc[c][k] + 1
                                                          ELSE p.pmc[c][k]

EventTold(X, D, e, p, q) ==
  /\ Sane(e)
  /\ "l1d" \in X => L1Told(e, p, q)
  /\ "l2" \in X => L2Told(e, p, q)
  /\ CountsTold(D, e, p, q)

\* The entry h of the history is picture p.
HasPicture(X, D, h, p) ==
  /\ "l1d" \in X => \A c \in Cores, i \in L1Sets, w \in Plru1!Ways :
                      h.l1d[c][i][w].state = p.l1d[c][i].way[w].state
  /\ "l2" \in X => \A j \in L2Sets, w \in Plru2!Ways :
                     h.l2[j][w].state = INVALID <=> p.l2[j].way[w].state = INVALID
  /\ \A c \in D, k \in Hits : h.pmc[c][k] = p.pmc[c][k]

\* Where a step of queue q may end.
Ends(q) == {0} \cup {k \in 1 .. Len(q) : k = Len(q) \/ q[k].seq # q[k + 1].seq}

IsFilm(X, D, q, hist, P) ==
  /\ IsList(q) /\ IsList(hist) /\ Len(hist) = Len(q) + 1
  /\ \A n \in 0 .. Len(q), c \in D, k \in Hits : P[n].pmc[c][k] \in Int
  /\ \A n \in 1 .. Len(q) : EventTold(X, D, q[n], P[n - 1], P[n])
  /\ \A n \in Ends(q) : HasPicture(X, D, hist[n + 1], P[n])

\* The shadow state sh is picture n, but for what no event so far was about.
ShadowTells(X, D, q, P, n, sh) ==
  /\ ShadowShape(sh)
  /\ "l1d" \in X => \A c \in Cores, i \in L1Sets, w \in Plru1!Ways :
       \/ sh.l1d[c][i][w].state = P[n].l1d[c][i].way[w].state
       \/ /\ \A k \in 1 .. n : ~AtL1(q[k], c, i, w)
          /\ sh.l1d[c][i][w].state = INVALID
  /\ "l2" \in X => \A j \in L2Sets, w \in Plru2!Ways :
       \/ sh.l2[j].cell[w].state = INVALID <=> P[n].l2[j].way[w].state = INVALID
       \/ /\ \A k \in 1 .. n : ~AtL2(q[k], j, w)
          /\ sh.l2[j].cell[w].state = INVALID
  /\ \A c \in D, k \in Hits : sh.counters[c][k] = P[n].pmc[c][k] - P[0].pmc[c][k]

LEMMA FilmForward ==
  ASSUME NEW X, NEW D, D \subseteq Cores, NEW q, NEW hist, NEW P, IsFilm(X, D, q, hist, P),
         NEW n \in 1 .. Len(q), NEW sh, ShadowTells(X, D, q, P, n - 1, sh)
  PROVE  ShadowTells(X, D, q, P, n, apply_event_forward(sh, q[n]))
PROOF
<1> DEFINE e == q[n]
           t == apply_event_forward(sh, e)
<1>1. EventTold(X, D, e, P[n - 1], P[n])
  BY DEF IsFilm
<1>2. EventShown(t, sh, e, e.new_state, 1)
  BY <1>1, EventForward DEF EventTold, ShadowTells
<1>3. Len(q) \in Nat
  BY DEF IsFilm, IsList
<1>4. n \in Nat /\ n - 1 \in 0 .. Len(q) /\ n \in 0 .. Len(q) /\ 0 \in 0 .. Len(q)
      /\ \A k \in 1 .. n : k # n => k \in 1 .. n - 1
  BY <1>3
<1> HIDE DEF t
<1>5. ASSUME "l1d" \in X, NEW c \in Cores, NEW i \in L1Sets, NEW w \in Plru1!Ways
      PROVE  \/ t.l1d[c][i][w].state = P[n].l1d[c][i].way[w].state
             \/ /\ \A k \in 1 .. n : ~AtL1(q[k], c, i, w)
                /\ t.l1d[c][i][w].state = INVALID
  <2>1. L1Told(e, P[n - 1], P[n])
    BY <1>1, <1>5 DEF EventTold
  <2>2. t.l1d[c][i][w].state = IF AtL1(e, c, i, w) THEN e.new_state ELSE sh.l1d[c][i][w].state
    BY <1>2 DEF EventShown, CellSet
  <2>3. CASE AtL1(e, c, i, w)
    BY <2>1, <2>2, <2>3 DEF L1Told
  <2>4. CASE ~AtL1(e, c, i, w)
    <3>1. P[n].l1d[c][i].way[w].state = P[n - 1].l1d[c][i].way[w].state
      BY <2>1, <2>4 DEF L1Told
    <3>2. \/ sh.l1d[c][i][w].state = P[n - 1].l1d[c][i].way[w].state
          \/ /\ \A k \in 1 .. n - 1 : ~AtL1(q[k], c, i, w)
             /\ sh.l1d[c][i][w].state = INVALID
      BY <1>5 DEF ShadowTells
    <3> HIDE DEF AtL1
    <3>3. QED
      BY <1>4, <2>2, <2>4, <3>1, <3>2
  <2>5. QED
    BY <2>3, <2>4
<1>6. ASSUME "l2" \in X, NEW j \in L2Sets, NEW w \in Plru2!Ways
      PROVE  \/ t.l2[j].cell[w].state = INVALID <=> P[n].l2[j].way[w].state = INVALID
             \/ /\ \A k \in 1 .. n : ~AtL2(q[k], j, w)
                /\ t.l2[j].cell[w].state = INVALID
  <2>1. L2Told(e, P[n - 1], P[n])
    BY <1>1, <1>6 DEF EventTold
  <2>2. t.l2[j].cell[w].state = IF AtL2(e, j, w) THEN e.new_state ELSE sh.l2[j].cell[w].state
    BY <1>2 DEF EventShown, CellSet
  <2>3. CASE AtL2(e, j, w)
    BY <2>1, <2>2, <2>3 DEF L2Told
  <2>4. CASE ~AtL2(e, j, w)
    <3>1. P[n].l2[j].way[w].state = INVALID <=> P[n - 1].l2[j].way[w].state = INVALID
      BY <2>1, <2>4 DEF L2Told
    <3>2. \/ sh.l2[j].cell[w].state = INVALID <=> P[n - 1].l2[j].way[w].state = INVALID
          \/ /\ \A k \in 1 .. n - 1 : ~AtL2(q[k], j, w)
             /\ sh.l2[j].cell[w].state = INVALID
      BY <1>6 DEF ShadowTells
    <3>3. QED
      BY <1>4, <2>2, <2>4, <3>1, <3>2
  <2>5. QED
    BY <2>3, <2>4
<1>7. ASSUME NEW c \in D, NEW k \in Hits
      PROVE  t.counters[c][k] = P[n].pmc[c][k] - P[0].pmc[c][k]
  <2>1. t.counters[c][k] = IF e.core_id = c /\ k \in counters_of(e)
                             THEN sh.counters[c][k] + 1 ELSE sh.counters[c][k]
    BY <1>2 DEF EventShown, CountersSet
  <2>2. sh.counters[c][k] = P[n - 1].pmc[c][k] - P[0].pmc[c][k]
    BY DEF ShadowTells
  <2>3. P[n].pmc[c][k] = IF e.core_id = c /\ k \in counters_of(e)
                           THEN P[n - 1].pmc[c][k] + 1 ELSE P[n - 1].pmc[c][k]
    BY <1>1 DEF EventTold, CountsTold
  <2>4. P[n - 1].pmc[c][k] \in Int /\ P[0].pmc[c][k] \in Int
    BY <1>4 DEF IsFilm
  <2>5. QED
    BY <2>1, <2>2, <2>3, <2>4
<1>8. ShadowShape(t)
  BY <1>2 DEF EventShown
<1>9. ShadowTells(X, D, q, P, n, t)
  BY <1>5, <1>6, <1>7, <1>8 DEF ShadowTells
<1>10. QED
  BY <1>9 DEF t

LEMMA FilmBackward ==
  ASSUME NEW X, NEW D, D \subseteq Cores, NEW q, NEW hist, NEW P, IsFilm(X, D, q, hist, P),
         NEW n \in 1 .. Len(q), NEW sh, ShadowTells(X, D, q, P, n, sh)
  PROVE  ShadowTells(X, D, q, P, n - 1, apply_event_backward(sh, q[n]))
PROOF
<1> DEFINE e == q[n]
           t == apply_event_backward(sh, e)
<1>1. EventTold(X, D, e, P[n - 1], P[n])
  BY DEF IsFilm
<1>2. EventShown(t, sh, e, e.old_state, -1)
  BY <1>1, EventBackward DEF EventTold, ShadowTells
<1>3. Len(q) \in Nat
  BY DEF IsFilm, IsList
<1>4. n \in Nat /\ n - 1 \in 0 .. Len(q) /\ n \in 0 .. Len(q) /\ 0 \in 0 .. Len(q)
      /\ \A k \in 1 .. n - 1 : k \in 1 .. n
  BY <1>3
<1> HIDE DEF t
<1>5. ASSUME "l1d" \in X, NEW c \in Cores, NEW i \in L1Sets, NEW w \in Plru1!Ways
      PROVE  \/ t.l1d[c][i][w].state = P[n - 1].l1d[c][i].way[w].state
             \/ /\ \A k \in 1 .. n - 1 : ~AtL1(q[k], c, i, w)
                /\ t.l1d[c][i][w].state = INVALID
  <2>1. L1Told(e, P[n - 1], P[n])
    BY <1>1, <1>5 DEF EventTold
  <2>2. t.l1d[c][i][w].state = IF AtL1(e, c, i, w) THEN e.old_state ELSE sh.l1d[c][i][w].state
    BY <1>2 DEF EventShown, CellSet
  <2>3. CASE AtL1(e, c, i, w)
    BY <2>1, <2>2, <2>3 DEF L1Told
  <2>4. CASE ~AtL1(e, c, i, w)
    <3>1. P[n].l1d[c][i].way[w].state = P[n - 1].l1d[c][i].way[w].state
      BY <2>1, <2>4 DEF L1Told
    <3>2. \/ sh.l1d[c][i][w].state = P[n].l1d[c][i].way[w].state
          \/ /\ \A k \in 1 .. n : ~AtL1(q[k], c, i, w)
             /\ sh.l1d[c][i][w].state = INVALID
      BY <1>5 DEF ShadowTells
    <3>3. QED
      BY <1>4, <2>2, <2>4, <3>1, <3>2
  <2>5. QED
    BY <2>3, <2>4
<1>6. ASSUME "l2" \in X, NEW j \in L2Sets, NEW w \in Plru2!Ways
      PROVE  \/ t.l2[j].cell[w].state = INVALID <=> P[n - 1].l2[j].way[w].state = INVALID
             \/ /\ \A k \in 1 .. n - 1 : ~AtL2(q[k], j, w)
                /\ t.l2[j].cell[w].state = INVALID
  <2>1. L2Told(e, P[n - 1], P[n])
    BY <1>1, <1>6 DEF EventTold
  <2>2. t.l2[j].cell[w].state = IF AtL2(e, j, w) THEN e.old_state ELSE sh.l2[j].cell[w].state
    BY <1>2 DEF EventShown, CellSet
  <2>3. CASE AtL2(e, j, w)
    BY <2>1, <2>2, <2>3 DEF L2Told
  <2>4. CASE ~AtL2(e, j, w)
    <3>1. P[n].l2[j].way[w].state = INVALID <=> P[n - 1].l2[j].way[w].state = INVALID
      BY <2>1, <2>4 DEF L2Told
    <3>2. \/ sh.l2[j].cell[w].state = INVALID <=> P[n].l2[j].way[w].state = INVALID
          \/ /\ \A k \in 1 .. n : ~AtL2(q[k], j, w)
             /\ sh.l2[j].cell[w].state = INVALID
      BY <1>6 DEF ShadowTells
    <3>3. QED
      BY <1>4, <2>2, <2>4, <3>1, <3>2
  <2>5. QED
    BY <2>3, <2>4
<1>7. ASSUME NEW c \in D, NEW k \in Hits
      PROVE  t.counters[c][k] = P[n - 1].pmc[c][k] - P[0].pmc[c][k]
  <2>1. t.counters[c][k] = IF e.core_id = c /\ k \in counters_of(e)
                             THEN sh.counters[c][k] + (-1) ELSE sh.counters[c][k]
    BY <1>2 DEF EventShown, CountersSet
  <2>2. sh.counters[c][k] = P[n].pmc[c][k] - P[0].pmc[c][k]
    BY DEF ShadowTells
  <2>3. P[n].pmc[c][k] = IF e.core_id = c /\ k \in counters_of(e)
                           THEN P[n - 1].pmc[c][k] + 1 ELSE P[n - 1].pmc[c][k]
    BY <1>1 DEF EventTold, CountsTold
  <2>4. P[n - 1].pmc[c][k] \in Int /\ P[0].pmc[c][k] \in Int
    BY <1>4 DEF IsFilm
  <2>5. QED
    BY <2>1, <2>2, <2>3, <2>4
<1>8. ShadowShape(t)
  BY <1>2 DEF EventShown
<1>9. ShadowTells(X, D, q, P, n - 1, t)
  BY <1>5, <1>6, <1>7, <1>8 DEF ShadowTells
<1>10. QED
  BY <1>9 DEF t

(***************************************************************************)
(* Stepping, at a film of the queue.                                       *)
(***************************************************************************)
LEMMA Greatest ==
  ASSUME NEW N \in Nat, NEW T, T \subseteq 0 .. N, T # {}
  PROVE  \E x \in T : \A y \in T : x >= y
PROOF
<1> DEFINE U == {N - x : x \in T}
<1>1. U \subseteq Nat /\ U # {}
  <2>1. \A x \in 0 .. N : N - x \in Nat
    OBVIOUS
  <2>2. QED
    BY <2>1
<1>2. PICK u \in U : \A y \in U : u <= y
  BY <1>1, Least
<1>3. PICK x \in T : u = N - x
  BY <1>2
<1>4. ASSUME NEW y \in T PROVE x >= y
  <2>1. u <= N - y
    BY <1>2
  <2>2. QED
    BY <1>3, <2>1
<1>5. QED
  BY <1>4

LEMMA StopAfter ==
  ASSUME IsList(queue), NEW k \in Ends(queue)
  PROVE  stop_after(k) \in Ends(queue) /\ k <= stop_after(k)
PROOF
<1> DEFINE T == {n \in stops : n > k}
<1>1. Len(queue) \in Nat /\ k \in 0 .. Len(queue)
  BY DEF IsList, Ends
<1>2. stops \subseteq Ends(queue) /\ Len(queue) \in Nat
  BY <1>1 DEF stops, Ends
<1>3. CASE k = Len(queue)
  BY <1>1, <1>3 DEF stop_after
<1>4. CASE k # Len(queue)
  <2>1. Len(queue) \in T /\ T \subseteq Nat
    BY <1>1, <1>4 DEF stops
  <2>2. stop_after(k) = CHOOSE x \in T : \A y \in T : x <= y
    BY <1>4 DEF stop_after, Min
  <2>3. \E x \in T : \A y \in T : x <= y
    <3> HIDE DEF T
    <3>1. QED
      BY <2>1, Least
  <2>4. stop_after(k) \in T
    BY <2>2, <2>3
  <2>5. QED
    BY <1>1, <1>2, <2>1, <2>4
<1>5. QED
  BY <1>3, <1>4

LEMMA StopBefore ==
  ASSUME IsList(queue), NEW k \in Ends(queue)
  PROVE  stop_before(k) \in Ends(queue) /\ stop_before(k) <= k
PROOF
<1> DEFINE T == {0} \cup {n \in stops : n < k}
<1>1. Len(queue) \in Nat /\ k \in 0 .. Len(queue)
  BY DEF IsList, Ends
<1>2. T \subseteq Ends(queue) /\ T \subseteq 0 .. Len(queue) /\ T # {}
  BY <1>1 DEF stops, Ends
<1>3. \A n \in T : n <= k
  BY <1>1
<1>4. stop_before(k) = CHOOSE x \in T : \A y \in T : x >= y
  BY DEF stop_before, Max
<1> HIDE DEF T
<1>5. \E x \in T : \A y \in T : x >= y
  BY <1>1, <1>2, Greatest
<1>6. stop_before(k) \in T
  BY <1>4, <1>5
<1>7. QED
  BY <1>2, <1>3, <1>6

LEMMA StopAfterSteps ==
  ASSUME IsList(queue), cursor \in Ends(queue), NEW n \in Nat
  PROVE  stop_after_steps(n) \in Ends(queue) /\ cursor <= stop_after_steps(n)
PROOF
<1> DEFINE F(f) == [i \in 0 .. n |-> IF i = 0 THEN cursor ELSE stop_after(f[i - 1])]
           stop == CHOOSE f : f = F(f)
<1>1. stop_after_steps(n) = stop[n]
  BY DEF stop_after_steps
<1>2. \E f : f = F(f)
  <2>1. PICK f : IsLoop(f, n, cursor, "autoplay", 0, 0, 0, 0)
    BY LoopExists
  <2>2. f = [i \in 0 .. n |-> f[i]]
    BY <2>1 DEF IsLoop
  <2>3. ASSUME NEW i \in 0 .. n
        PROVE  f[i] = IF i = 0 THEN cursor ELSE stop_after(f[i - 1])
    BY <2>1 DEF IsLoop, Round
  <2>4. QED
    BY <2>2, <2>3
<1> HIDE DEF F
<1>3. stop = F(stop)
  BY <1>2
<1> HIDE DEF stop
<1>4. \A i \in 0 .. n : stop[i] = IF i = 0 THEN cursor ELSE stop_after(stop[i - 1])
  BY <1>3 DEF F
<1>5. cursor \in Nat /\ Ends(queue) \subseteq Nat
  BY DEF IsList, Ends
<1> DEFINE S == {i \in 0 .. n : stop[i] \in Ends(queue) /\ cursor <= stop[i]}
<1>6. 0 \in S
  BY <1>4, <1>5
<1>7. ASSUME NEW i \in 1 .. n, i - 1 \in S PROVE i \in S
  <2>1. stop[i] = stop_after(stop[i - 1]) /\ i \in 0 .. n
    BY <1>4
  <2>2. stop[i - 1] \in Ends(queue) /\ cursor <= stop[i - 1]
    BY <1>7
  <2>3. stop[i] \in Ends(queue) /\ stop[i - 1] <= stop[i]
    BY <2>1, <2>2, StopAfter
  <2>4. QED
    BY <1>5, <2>1, <2>2, <2>3
<1> HIDE DEF S
<1>8. n \in S
  BY <1>6, <1>7, UpTo
<1>9. QED
  BY <1>1, <1>8 DEF S

\* The shadow state after the events up to stop.
LEMMA ShadowForward ==
  ASSUME NEW X, NEW D, D \subseteq Cores, NEW P, IsFilm(X, D, queue, history, P),
         cursor \in Nat, ShadowTells(X, D, queue, P, cursor, shadow),
         NEW stop \in 0 .. Len(queue), cursor <= stop
  PROVE  ShadowTells(X, D, queue, P, stop, shadow_forward(stop))
PROOF
<1> DEFINE F(f) == [k \in cursor .. stop |->
                      IF k = cursor THEN shadow ELSE apply_event_forward(f[k - 1], queue[k])]
           after == CHOOSE f : f = F(f)
           N == stop - cursor
<1>1. shadow_forward(stop) = after[stop]
  BY DEF shadow_forward
<1>2. N \in Nat /\ stop \in Nat /\ cursor \in Nat /\ Len(queue) \in Nat /\ cursor + N = stop
  BY DEF IsFilm, IsList
<1>3. \E f : f = F(f)
  <2> HIDE DEF N
  <2>1. PICK g : IsLoop(g, N, shadow, "forward", queue, cursor, 0, 0)
    BY <1>2, LoopExists
  <2> DEFINE f == [k \in cursor .. stop |-> g[k - cursor]]
  <2>2. \A n \in 0 .. N :
          g[n] = IF n = 0 THEN shadow ELSE apply_event_forward(g[n - 1], queue[cursor + n])
    BY <2>1 DEF IsLoop, Round
  <2>3. ASSUME NEW k \in cursor .. stop
        PROVE  f[k] = IF k = cursor THEN shadow ELSE apply_event_forward(f[k - 1], queue[k])
    <3>1. k - cursor \in 0 .. N /\ cursor + (k - cursor) = k
      BY <1>2
    <3>2. f[k] = g[k - cursor]
      OBVIOUS
    <3>3. CASE k = cursor
      BY <1>2, <2>2, <3>1, <3>2, <3>3
    <3>4. CASE k # cursor
      <4>1. k - 1 \in cursor .. stop /\ (k - cursor) - 1 = (k - 1) - cursor /\ k - cursor # 0
        BY <1>2, <3>4
      <4>2. f[k - 1] = g[(k - cursor) - 1]
        BY <4>1
      <4> HIDE DEF f
      <4>3. QED
        BY <2>2, <3>1, <3>2, <3>4, <4>1, <4>2
    <3>5. QED
      BY <3>3, <3>4
  <2>4. f = [k \in cursor .. stop |-> f[k]]
    OBVIOUS
  <2> HIDE DEF f
  <2>5. f = F(f)
    BY <2>3, <2>4
  <2>6. QED
    BY <2>5
<1> HIDE DEF F
<1>4. after = F(after)
  BY <1>3
<1> HIDE DEF after
<1>5. \A k \in cursor .. stop :
        after[k] = IF k = cursor THEN shadow ELSE apply_event_forward(after[k - 1], queue[k])
  BY <1>4 DEF F
<1> DEFINE S == {n \in 0 .. N : ShadowTells(X, D, queue, P, cursor + n, after[cursor + n])}
<1> HIDE DEF N
<1>6. 0 \in S
  <2>1. after[cursor] = shadow /\ cursor + 0 = cursor /\ 0 \in 0 .. N
    BY <1>2, <1>5
  <2>2. QED
    BY <2>1
<1>7. ASSUME NEW n \in 1 .. N, n - 1 \in S PROVE n \in S
  <2> DEFINE k == cursor + n
  <2>1. /\ k \in 1 .. Len(queue) /\ k \in cursor .. stop /\ k # cursor
        /\ cursor + (n - 1) = k - 1 /\ n \in 0 .. N
    BY <1>2
  <2> HIDE DEF k
  <2>2. ShadowTells(X, D, queue, P, k - 1, after[k - 1])
    BY <1>7, <2>1
  <2>3. after[k] = apply_event_forward(after[k - 1], queue[k])
    BY <1>5, <2>1
  <2>4. ShadowTells(X, D, queue, P, k, after[k])
    BY <2>1, <2>2, <2>3, FilmForward
  <2>5. QED
    BY <2>1, <2>4 DEF k
<1> HIDE DEF S
<1>8. N \in S
  BY <1>2, <1>6, <1>7, UpTo
<1>9. QED
  BY <1>1, <1>2, <1>8 DEF S

\* And after undoing the events down to stop.
LEMMA ShadowBackward ==
  ASSUME NEW X, NEW D, D \subseteq Cores, NEW P, IsFilm(X, D, queue, history, P),
         cursor \in 0 .. Len(queue), ShadowTells(X, D, queue, P, cursor, shadow),
         NEW stop \in Nat, stop <= cursor
  PROVE  ShadowTells(X, D, queue, P, stop, shadow_backward(stop))
PROOF
<1> DEFINE F(f) == [k \in stop .. cursor |->
                      IF k = cursor THEN shadow
                      ELSE apply_event_backward(f[k + 1], queue[k + 1])]
           before == CHOOSE f : f = F(f)
           N == cursor - stop
<1>1. shadow_backward(stop) = before[stop]
  BY DEF shadow_backward
<1>2. N \in Nat /\ stop \in Nat /\ cursor \in Nat /\ Len(queue) \in Nat /\ cursor - N = stop
  BY DEF IsFilm, IsList
<1>3. \E f : f = F(f)
  <2> HIDE DEF N
  <2>1. PICK g : IsLoop(g, N, shadow, "backward", queue, cursor, 0, 0)
    BY <1>2, LoopExists
  <2> DEFINE f == [k \in stop .. cursor |-> g[cursor - k]]
  <2>2. \A n \in 0 .. N :
          g[n] = IF n = 0 THEN shadow ELSE apply_event_backward(g[n - 1], queue[cursor + 1 - n])
    BY <2>1 DEF IsLoop, Round
  <2>3. ASSUME NEW k \in stop .. cursor
        PROVE  f[k] = IF k = cursor THEN shadow
                      ELSE apply_event_backward(f[k + 1], queue[k + 1])
    <3>1. cursor - k \in 0 .. N /\ cursor + 1 - (cursor - k) = k + 1
      BY <1>2
    <3>2. f[k] = g[cursor - k]
      OBVIOUS
    <3>3. CASE k = cursor
      BY <1>2, <2>2, <3>1, <3>2, <3>3
    <3>4. CASE k # cursor
      <4>1. k + 1 \in stop .. cursor /\ (cursor - k) - 1 = cursor - (k + 1) /\ cursor - k # 0
        BY <1>2, <3>4
      <4>2. f[k + 1] = g[(cursor - k) - 1]
        BY <4>1
      <4> HIDE DEF f
      <4>3. QED
        BY <2>2, <3>1, <3>2, <3>4, <4>1, <4>2
    <3>5. QED
      BY <3>3, <3>4
  <2>4. f = [k \in stop .. cursor |-> f[k]]
    OBVIOUS
  <2> HIDE DEF f
  <2>5. f = F(f)
    BY <2>3, <2>4
  <2>6. QED
    BY <2>5
<1> HIDE DEF F
<1>4. before = F(before)
  BY <1>3
<1> HIDE DEF before
<1>5. \A k \in stop .. cursor :
        before[k] = IF k = cursor THEN shadow
                    ELSE apply_event_backward(before[k + 1], queue[k + 1])
  BY <1>4 DEF F
<1> DEFINE S == {n \in 0 .. N : ShadowTells(X, D, queue, P, cursor - n, before[cursor - n])}
<1> HIDE DEF N
<1>6. 0 \in S
  <2>1. before[cursor] = shadow /\ cursor - 0 = cursor /\ 0 \in 0 .. N
    BY <1>2, <1>5
  <2>2. QED
    BY <2>1
<1>7. ASSUME NEW n \in 1 .. N, n - 1 \in S PROVE n \in S
  <2> DEFINE k == cursor - n
  <2>1. /\ k + 1 \in 1 .. Len(queue) /\ k \in stop .. cursor /\ k # cursor
        /\ cursor - (n - 1) = k + 1 /\ n \in 0 .. N /\ (k + 1) - 1 = k
    BY <1>2
  <2> HIDE DEF k
  <2>2. ShadowTells(X, D, queue, P, k + 1, before[k + 1])
    BY <1>7, <2>1
  <2>3. before[k] = apply_event_backward(before[k + 1], queue[k + 1])
    BY <1>5, <2>1
  <2>4. ShadowTells(X, D, queue, P, (k + 1) - 1, before[k])
    BY <2>1, <2>2, <2>3, FilmBackward
  <2>5. QED
    BY <2>1, <2>4 DEF k
<1> HIDE DEF S
<1>8. N \in S
  BY <1>2, <1>6, <1>7, UpTo
<1>9. QED
  BY <1>1, <1>2, <1>8 DEF S

(***************************************************************************)
(* Recording: an access adds its events to the queue, and its story to the *)
(* film.                                                                   *)
(***************************************************************************)
PmcNames == {"l1d_hits", "l1i_hits", "l2_hits", "mem_fetches"}

Pmcs == [Cores -> [PmcNames -> Int]]

LEMMA Counted ==
  ASSUME NEW counters \in Pmcs, NEW c \in Cores, NEW h
  PROVE  /\ count(counters, c, h) \in Pmcs
         /\ \A d \in Cores, k \in Hits :
              count(counters, c, h)[d][k] = IF d = c /\ k = h THEN counters[d][k] + 1
                                                              ELSE counters[d][k]
PROOF
<1>1. DOMAIN counters[c] = PmcNames /\ Hits \subseteq PmcNames
  BY DEF Pmcs, PmcNames, Hits
<1>2. CASE h \in PmcNames
  <2> DEFINE new == [counters[c] EXCEPT ![h] = @ + 1]
             t == [counters EXCEPT ![c] = new]
  <2>1. count(counters, c, h) = t
    BY <1>1, <1>2 DEF count
  <2>2. counters[c] \in [PmcNames -> Int]
    BY DEF Pmcs
  <2>3. /\ new \in [PmcNames -> Int]
        /\ \A k \in PmcNames : new[k] = IF k = h THEN counters[c][k] + 1 ELSE counters[c][k]
    BY <1>2, <2>2
  <2> HIDE DEF new
  <2>4. t \in Pmcs /\ \A d \in Cores : t[d] = IF d = c THEN new ELSE counters[d]
    BY <2>3 DEF Pmcs
  <2> HIDE DEF t
  <2>5. ASSUME NEW d \in Cores, NEW k \in Hits
        PROVE  t[d][k] = IF d = c /\ k = h THEN counters[d][k] + 1 ELSE counters[d][k]
    <3>1. CASE d = c
      BY <1>1, <2>3, <2>4, <3>1
    <3>2. CASE d # c
      BY <2>4, <3>2
    <3>3. QED
      BY <3>1, <3>2
  <2>6. QED
    BY <2>1, <2>4, <2>5
<1>3. CASE h \notin PmcNames
  <2>1. count(counters, c, h) = counters
    BY <1>1, <1>3 DEF count
  <2>2. QED
    BY <1>1, <1>3, <2>1
<1>4. QED
  BY <1>2, <1>3

LEMMA HitCounted ==
  ASSUME NEW D, D \subseteq Cores, NEW counters \in Pmcs, NEW c \in Cores,
         NEW e, NEW before, NEW after, HitTold(c, e, before, after),
         NEW p, NEW q,
         \A d \in D, k \in Hits : p.pmc[d][k] = count(counters, c, before)[d][k],
         \A d \in D, k \in Hits : q.pmc[d][k] = count(counters, c, after)[d][k]
  PROVE  CountsTold(D, e, p, q)
PROOF
<1> SUFFICES ASSUME NEW d \in D, NEW k \in Hits
             PROVE  q.pmc[d][k] = IF e.core_id = d /\ k \in counters_of(e)
                                    THEN p.pmc[d][k] + 1 ELSE p.pmc[d][k]
  BY DEF CountsTold
<1>1. /\ p.pmc[d][k] = IF d = c /\ k = before THEN counters[d][k] + 1 ELSE counters[d][k]
      /\ q.pmc[d][k] = IF d = c /\ k = after THEN counters[d][k] + 1 ELSE counters[d][k]
  BY Counted
<1>2. CASE NoHit(e) /\ after = before
  <2>1. k \notin counters_of(e)
    BY <1>2 DEF NoHit
  <2>2. QED
    BY <1>1, <1>2, <2>1
<1>3. CASE before = "none" /\ after \in Hits /\ e.core_id = c /\ counters_of(e) = {after}
  <2>1. "none" \notin Hits
    BY DEF Hits
  <2>2. k # before
    BY <1>3, <2>1
  <2>3. k \in counters_of(e) <=> k = after
    BY <1>3
  <2> HIDE DEF Hits
  <2>4. QED
    BY <1>1, <1>3, <2>2, <2>3
<1>4. QED
  BY <1>2, <1>3 DEF HitTold

LEMMA NumberedSame ==
  ASSUME NEW e, NEW n
  PROVE  /\ Sane(e) => Sane(numbered(e, n))
         /\ counters_of(numbered(e, n)) = counters_of(e)
         /\ numbered(e, n).core_id = e.core_id
         /\ numbered(e, n).seq = n
         /\ \A p, q : L1Told(e, p, q) => L1Told(numbered(e, n), p, q)
         /\ \A p, q : L2Told(e, p, q) => L2Told(numbered(e, n), p, q)
PROOF
<1> DEFINE f == numbered(e, n)
<1>1. /\ f.seq = n /\ f.type = e.type /\ f.core_id = e.core_id
      /\ f.cache_level = e.cache_level /\ f.set_index = e.set_index /\ f.way = e.way
      /\ f.old_state = e.old_state /\ f.new_state = e.new_state
  BY DEF numbered
<1> HIDE DEF f
<1>2. Sane(e) => Sane(f)
  BY <1>1 DEF Sane
<1>3. counters_of(f) = counters_of(e)
  BY <1>1 DEF counters_of
<1>4. \A p, q : L1Told(e, p, q) => L1Told(f, p, q)
  BY <1>1 DEF L1Told, AtL1
<1>5. \A p, q : L2Told(e, p, q) => L2Told(f, p, q)
  BY <1>1 DEF L2Told, AtL2
<1>6. QED
  BY <1>1, <1>2, <1>3, <1>4, <1>5 DEF f

\* An event of the story is an event of the film, after any picture that is
\* the one before it.
LEMMA StoryToFilm ==
  ASSUME NEW X, NEW D, D \subseteq Cores, NEW counters \in Pmcs, NEW c \in Cores,
         NEW e, NEW p, NEW q, Tells(X, c, e, p, q), NEW n,
         NEW p2, SamePicture(X, p2, p),
         \A d \in D, k \in Hits : p2.pmc[d][k] = count(counters, c, p.hit)[d][k],
         NEW q2, SamePicture(X, q2, q),
         \A d \in D, k \in Hits : q2.pmc[d][k] = count(counters, c, q.hit)[d][k]
  PROVE  EventTold(X, D, numbered(e, n), p2, q2)
PROOF
<1>1. CountsTold(D, e, p2, q2)
  <2>1. HitTold(c, e, p.hit, q.hit)
    BY DEF Tells
  <2>2. QED
    BY <2>1, HitCounted
<1>2. CountsTold(D, numbered(e, n), p2, q2)
  BY <1>1, NumberedSame DEF CountsTold
<1>3. "l1d" \in X => L1Told(e, p2, q2)
  BY DEF Tells, SamePicture, KeepsL1, L1Told
<1>4. "l2" \in X => L2Told(e, p2, q2)
  BY DEF Tells, SamePicture, KeepsL2, L2Told
<1>5. QED
  BY <1>2, <1>3, <1>4, NumberedSame DEF EventTold, Tells

\* List x is q followed by r.
Joined(x, q, r) ==
  /\ IsList(x)
  /\ Len(q) \in Nat /\ Len(r) \in Nat /\ Len(x) = Len(q) + Len(r)
  /\ \A n \in 1 .. Len(q) : x[n] = q[n]
  /\ \A n \in 1 .. Len(r) : x[Len(q) + n] = r[n]

LEMMA Concatenated ==
  ASSUME NEW q, IsList(q), NEW r, IsList(r)
  PROVE  Joined(q \o r, q, r)
PROOF
<1>1. PICK S : q \in Seq(S)
  BY DEF IsList
<1>2. PICK T : r \in Seq(T)
  BY DEF IsList
<1>3. q \in Seq(S \cup T) /\ r \in Seq(S \cup T)
  BY <1>1, <1>2
<1>4. q \o r \in Seq(S \cup T)
  BY <1>3
<1>5. IsList(q \o r)
  BY <1>4 DEF IsList
<1> HIDE DEF IsList
<1>6. QED
  BY <1>3, <1>5 DEF Joined

LEMMA Mapped ==
  ASSUME NEW q, IsList(q), NEW r, r = [k \in DOMAIN q |-> r[k]]
  PROVE  IsList(r) /\ Len(r) = Len(q) /\ Len(q) \in Nat /\ DOMAIN q = 1 .. Len(q)
PROOF
<1>1. PICK S : q \in Seq(S)
  BY DEF IsList
<1>2. Len(q) \in Nat /\ DOMAIN q = 1 .. Len(q)
  BY <1>1
<1> DEFINE T == {r[k] : k \in DOMAIN q}
<1>3. r \in [1 .. Len(q) -> T]
  BY <1>2
<1> HIDE DEF T
<1>4. r \in Seq(T)
  BY <1>2, <1>3
<1>5. Len(r) = Len(q)
  BY <1>2, <1>3
<1>6. QED
  BY <1>2, <1>4, <1>5 DEF IsList

\* The film of queue q ends with the caches of s and these counters.
EndsWith(X, D, q, P, s, counters) ==
  /\ SamePicture(X, P[Len(q)], s)
  /\ \A d \in D, k \in Hits : P[Len(q)].pmc[d][k] = counters[d][k]

\* What recorded appends: the events with their number, a snapshot for each.
TakenDown(q2, hist2, q, hist, s, n0, counters) ==
  /\ q2 = q \o [k \in DOMAIN s.events |-> numbered(s.events[k], n0)]
  /\ hist2 = hist \o [k \in DOMAIN s.events |-> snapshot(s, counters)]

\* The counters that matter are those before, but for counter h of core c.
CountedOne(D, counters, c, h, after) ==
  \A d \in D, k \in Hits : after[d][k] = count(counters, c, h)[d][k]

LEMMA FilmGoesOn ==
  ASSUME NEW X, NEW D, D \subseteq Cores, NEW q, NEW hist, NEW P, IsFilm(X, D, q, hist, P),
         NEW b, NEW counters \in Pmcs, EndsWith(X, D, q, P, b, counters),
         NEW c \in Cores, NEW s, NEW h, IsList(s.events),
         NEW Q, IsStory(X, c, s.events, b, s, h, Q),
         NEW after, CountedOne(D, counters, c, h, after),
         NEW n0, NEW q2, NEW hist2, TakenDown(q2, hist2, q, hist, s, n0, after)
  PROVE  \E P2 : IsFilm(X, D, q2, hist2, P2) /\ EndsWith(X, D, q2, P2, s, after)
PROOF
<1> DEFINE N == Len(q)
           M == Len(s.events)
           r == [k \in DOMAIN s.events |-> numbered(s.events[k], n0)]
           snaps == [k \in DOMAIN s.events |-> snapshot(s, after)]
           film(n) == [l1d |-> Q[n].l1d, l2 |-> Q[n].l2, pmc |-> count(counters, c, Q[n].hit)]
           P2 == [n \in 0 .. N + M |-> IF n <= N THEN P[n] ELSE film(n - N)]
<1>1. /\ r = [k \in DOMAIN s.events |-> r[k]]
      /\ snaps = [k \in DOMAIN s.events |-> snaps[k]]
      /\ \A k \in DOMAIN s.events : r[k] = numbered(s.events[k], n0)
      /\ \A k \in DOMAIN s.events : snaps[k] = snapshot(s, after)
      /\ q2 = q \o r /\ hist2 = hist \o snaps
  BY DEF TakenDown
<1> HIDE DEF r, snaps
<1>2. /\ IsList(r) /\ Len(r) = M /\ M \in Nat /\ DOMAIN s.events = 1 .. M
      /\ IsList(snaps) /\ Len(snaps) = M
  BY <1>1, Mapped
<1>3. IsList(q) /\ IsList(hist) /\ Len(hist) = N + 1
  BY DEF IsFilm
<1>4. /\ IsList(q2) /\ N \in Nat /\ Len(q2) = N + M
      /\ \A n \in 1 .. N : q2[n] = q[n]
      /\ \A n \in 1 .. M : q2[N + n] = r[n]
  <2>1. Joined(q2, q, r)
    <3>1. Joined(q \o r, q, r)
      BY <1>2, <1>3, Concatenated
    <3>2. QED
      BY <1>1, <3>1
  <2>2. QED
    BY <1>2, <2>1 DEF Joined
<1>5. /\ IsList(hist2) /\ Len(hist2) = N + 1 + M
      /\ \A n \in 1 .. N + 1 : hist2[n] = hist[n]
      /\ \A n \in 1 .. M : hist2[N + 1 + n] = snaps[n]
  <2>1. Joined(hist2, hist, snaps)
    <3>1. Joined(hist \o snaps, hist, snaps)
      BY <1>2, <1>3, Concatenated
    <3>2. QED
      BY <1>1, <3>1
  <2>2. QED
    BY <1>2, <1>3, <2>1 DEF Joined
<1> HIDE DEF film, N, M
<1>6. /\ \A n \in 0 .. N : P2[n] = P[n]
      /\ \A n \in 1 .. M : P2[N + n] = film(n)
  <2>1. \A n \in 1 .. M : N + n \in 0 .. N + M /\ ~(N + n <= N) /\ (N + n) - N = n
    BY <1>2, <1>4
  <2>2. \A n \in 0 .. N : n \in 0 .. N + M /\ n <= N
    BY <1>2, <1>4
  <2>3. QED
    BY <2>1, <2>2
<1> HIDE DEF P2
<1>7. ASSUME NEW n \in 0 .. M
      PROVE  /\ SamePicture(X, P2[N + n], Q[n])
             /\ \A d \in D, k \in Hits :
                  P2[N + n].pmc[d][k] = count(counters, c, Q[n].hit)[d][k]
  <2>1. CASE n = 0
    <3>1. P2[N + n] = P[N]
      BY <1>4, <1>6, <2>1
    <3>2. SamePicture(X, P[N], b) /\ SamePicture(X, Q[0], b) /\ Q[0].hit = "none"
      BY DEF EndsWith, IsStory, N
    <3>3. SamePicture(X, P[N], Q[0])
      BY <3>2 DEF SamePicture, KeepsL1, KeepsL2
    <3>4. \A d \in D, k \in Hits : P[N].pmc[d][k] = counters[d][k] /\ d \in Cores /\ k # "none"
      BY DEF EndsWith, N, Hits
    <3>5. \A d \in D, k \in Hits : count(counters, c, "none")[d][k] = counters[d][k]
      BY <3>4, Counted
    <3>6. QED
      BY <2>1, <3>1, <3>2, <3>3, <3>4, <3>5
  <2>2. CASE n # 0
    <3>1. n \in 1 .. M
      BY <1>2, <2>2
    <3>2. P2[N + n] = film(n)
      BY <1>6, <3>1
    <3>3. /\ P2[N + n].l1d = Q[n].l1d /\ P2[N + n].l2 = Q[n].l2
          /\ P2[N + n].pmc = count(counters, c, Q[n].hit)
      BY <3>2 DEF film
    <3>4. QED
      BY <3>3 DEF SamePicture, KeepsL1, KeepsL2
  <2>3. QED
    BY <2>1, <2>2
<1>8. ASSUME NEW n \in 1 .. N + M
      PROVE  EventTold(X, D, q2[n], P2[n - 1], P2[n])
  <2>1. CASE n <= N
    <3>1. n \in 1 .. N /\ n \in 0 .. N /\ n - 1 \in 0 .. N
      BY <1>4, <2>1
    <3>2. EventTold(X, D, q[n], P[n - 1], P[n])
      BY <3>1 DEF IsFilm, N
    <3>3. QED
      BY <1>4, <1>6, <3>1, <3>2
  <2>2. CASE ~(n <= N)
    <3> DEFINE m == n - N
    <3>1. m \in 1 .. M /\ n = N + m /\ m \in 0 .. M /\ m - 1 \in 0 .. M /\ n - 1 = N + (m - 1)
      BY <1>2, <1>4, <2>2
    <3> HIDE DEF m
    <3>2. q2[n] = numbered(s.events[m], n0)
      BY <1>1, <1>2, <1>4, <3>1
    <3>3. Tells(X, c, s.events[m], Q[m - 1], Q[m])
      BY <3>1 DEF IsStory, M
    <3>4. /\ SamePicture(X, P2[n - 1], Q[m - 1]) /\ SamePicture(X, P2[n], Q[m])
          /\ \A d \in D, k \in Hits : P2[n - 1].pmc[d][k] = count(counters, c, Q[m - 1].hit)[d][k]
          /\ \A d \in D, k \in Hits : P2[n].pmc[d][k] = count(counters, c, Q[m].hit)[d][k]
      BY <1>7, <3>1
    <3>5. EventTold(X, D, numbered(s.events[m], n0), P2[n - 1], P2[n])
      BY <3>3, <3>4, StoryToFilm
    <3>6. QED
      BY <3>2, <3>5
  <2>3. QED
    BY <2>1, <2>2
<1>9. SamePicture(X, Q[M], s) /\ Q[M].hit = h
  BY DEF IsStory, M
<1>10. EndsWith(X, D, q2, P2, s, after)
  <2>1. M \in 0 .. M
    BY <1>2
  <2>2. SamePicture(X, P2[N + M], s)
    BY <1>7, <1>9, <2>1, SamePictureTransitive
  <2>3. \A d \in D, k \in Hits : P2[N + M].pmc[d][k] = after[d][k]
    BY <1>7, <1>9, <2>1 DEF CountedOne
  <2>4. QED
    BY <1>4, <2>2, <2>3 DEF EndsWith
<1>11. ASSUME NEW n \in 0 .. N + M, NEW d \in D, NEW k \in Hits
       PROVE  P2[n].pmc[d][k] \in Int
  <2>1. CASE n <= N
    <3>1. n \in 0 .. N
      BY <1>4, <2>1
    <3>2. P[n].pmc[d][k] \in Int
      BY <3>1 DEF IsFilm, N
    <3>3. QED
      BY <1>6, <3>1, <3>2
  <2>2. CASE ~(n <= N)
    <3> DEFINE m == n - N
    <3>1. m \in 0 .. M /\ n = N + m
      BY <1>2, <1>4, <2>2
    <3> HIDE DEF m
    <3>2. P2[n].pmc[d][k] = count(counters, c, Q[m].hit)[d][k]
      BY <1>7, <3>1
    <3>3. count(counters, c, Q[m].hit) \in Pmcs
      BY Counted
    <3>4. d \in Cores /\ k \in PmcNames
      BY DEF Hits, PmcNames
    <3>5. QED
      BY <3>2, <3>3, <3>4 DEF Pmcs
  <2>3. QED
    BY <2>1, <2>2
<1>12. ASSUME NEW n \in Ends(q2)
       PROVE  HasPicture(X, D, hist2[n + 1], P2[n])
  <2>1. n \in 0 .. N + M
    BY <1>2, <1>4 DEF Ends
  <2>2. CASE n <= N
    <3>1. n \in 0 .. N
      BY <1>4, <2>1, <2>2
    <3>2. n \in Ends(q)
      <4>1. CASE n = 0 \/ n = N
        BY <1>4, <4>1 DEF Ends, N
      <4>2. CASE n # 0 /\ n # N
        <5>1. n \in 1 .. N /\ n + 1 \in 1 .. N /\ n # N + M
          BY <1>2, <1>4, <3>1, <4>2
        <5>2. q2[n].seq # q2[n + 1].seq
          BY <1>4, <5>1 DEF Ends
        <5>3. q[n].seq # q[n + 1].seq
          BY <1>4, <5>1, <5>2
        <5>4. QED
          BY <5>1, <5>3 DEF Ends, N
      <4>3. QED
        BY <4>1, <4>2
    <3>3. HasPicture(X, D, hist[n + 1], P[n])
      BY <3>2 DEF IsFilm
    <3>4. n + 1 \in 1 .. N + 1
      BY <1>4, <3>1
    <3>5. QED
      BY <1>5, <1>6, <3>1, <3>3, <3>4
  <2>3. CASE ~(n <= N)
    <3> DEFINE m == n - N
    <3>1. m \in 1 .. M /\ n = N + m /\ n + 1 = N + 1 + m /\ n # 0
      BY <1>2, <1>4, <2>1, <2>3
    <3> HIDE DEF m
    <3>2. CASE n # N + M
      <4>1. m + 1 \in 1 .. M /\ n + 1 = N + (m + 1)
        BY <1>2, <1>4, <3>1, <3>2
      <4>2. q2[n] = numbered(s.events[m], n0) /\ q2[n + 1] = numbered(s.events[m + 1], n0)
        BY <1>1, <1>2, <1>4, <3>1, <4>1
      <4>3. q2[n].seq = q2[n + 1].seq
        BY <4>2, NumberedSame
      <4>4. QED
        BY <1>4, <3>1, <3>2, <4>3 DEF Ends
    <3>3. CASE n = N + M
      <4>1. hist2[n + 1] = snapshot(s, after)
        BY <1>1, <1>2, <1>5, <3>1
      <4>2. SamePicture(X, P2[n], s) /\ \A d \in D, k \in Hits : P2[n].pmc[d][k] = after[d][k]
        BY <1>4, <1>10, <3>3 DEF EndsWith
      <4> DEFINE snap == snapshot(s, after)
      <4>3. /\ \A d \in Cores, i \in L1Sets : snap.l1d[d][i] = s.l1d[d][i].way
            /\ \A j \in L2Sets : snap.l2[j] = s.l2[j].way
            /\ snap.pmc = after
        BY DEF snapshot, L1Sets, L2Sets, SetsOfL1, SetsOfL2
      <4> HIDE DEF snap
      <4>4. HasPicture(X, D, snap, P2[n])
        BY <4>2, <4>3 DEF HasPicture, SamePicture, KeepsL1, KeepsL2
      <4>5. QED
        BY <4>1, <4>4 DEF snap
    <3>4. QED
      BY <3>2, <3>3
  <2>4. QED
    BY <2>2, <2>3
<1>13. IsFilm(X, D, q2, hist2, P2)
  <2>1. Len(hist2) = Len(q2) + 1
    BY <1>2, <1>4, <1>5
  <2>2. QED
    BY <1>4, <1>5, <1>8, <1>11, <1>12, <2>1 DEF IsFilm
<1>14. QED
  BY <1>10, <1>13

(***************************************************************************)
(* The visualizer.                                                         *)
(***************************************************************************)
\* The cores whose program has no instruction fetch.
DataCores == {c \in Cores : workload[c] \cap ({"fetch"} \X Lines) = {}}

Recorded(X) ==
  \E P : /\ IsFilm(X, DataCores, queue, history, P)
         /\ EndsWith(X, DataCores, queue, P, now, pmc)

Shown(X) ==
  \E P : /\ IsFilm(X, DataCores, queue, history, P)
         /\ cursor \in Ends(queue)
         /\ ShadowTells(X, DataCores, queue, P, cursor, shadow)

\* The inductive invariant: what is recorded, and where the user stepped, are
\* parts of a film of the caches X names and of the counters.
Viewed(X) ==
  /\ SingleWays
  /\ pmc \in Pmcs
  /\ speed \in Nat \ {0}
  /\ phase \in {"setup", "recording", "viewing", "closed"}
  /\ phase \in {"setup", "recording"} => cursor = 0 /\ shadow = ShadowState
  /\ phase = "setup" => queue = <<>>
  /\ phase = "recording" /\ abort = "none" => Recorded(X)
  /\ phase \in {"viewing", "closed"} => Shown(X)

LEMMA NowIsWhole ==
  ASSUME SingleWays
  PROVE  Whole(now) /\ \A X, c : Told(X, c, now, now, "none")
PROOF
<1>1. Fields \subseteq DOMAIN now /\ now.events = <<>>
  BY DEF now, Fields, Caches
<1>2. Whole(now)
  BY <1>1 DEF SingleWays, Single, Whole
<1> HIDE DEF now
<1>3. QED
  BY <1>1, <1>2, NothingTold

LEMMA ShadowStateShape ==
  /\ ShadowShape(ShadowState)
  /\ \A c \in Cores, i \in L1Sets, w \in Plru1!Ways : ShadowState.l1d[c][i][w].state = INVALID
  /\ \A j \in L2Sets, w \in Plru2!Ways : ShadowState.l2[j].cell[w].state = INVALID
  /\ \A c \in Cores, k \in Hits : ShadowState.counters[c][k] = 0
PROOF
<1>1. ShadowCell.state = INVALID /\ "state" \in DOMAIN ShadowCell
  BY DEF ShadowCell
<1>2. /\ ShadowCounters \in [CounterNames -> Int]
      /\ \A k \in Hits : ShadowCounters[k] = 0
  BY DEF ShadowCounters, CounterNames, Hits
<1> HIDE DEF ShadowCell, ShadowCounters
<1>3. /\ {"l1d", "l2", "flash", "counters"} \subseteq DOMAIN ShadowState
      /\ ShadowState.l1d = [c \in Cores |-> [i \in L1Sets |-> [w \in Plru1!Ways |-> ShadowCell]]]
      /\ ShadowState.l2 = [j \in L2Sets |-> [cell |-> [w \in Plru2!Ways |-> ShadowCell],
                                             l2_dominant |-> INVALID]]
      /\ ShadowState.counters = [c \in Cores |-> ShadowCounters]
  BY DEF ShadowState, SetsOfL1, SetsOfL2, L1Sets, L2Sets
<1> HIDE DEF ShadowState
<1>4. /\ DOMAIN ShadowState.l1d = Cores
      /\ \A c \in Cores :
           /\ DOMAIN ShadowState.l1d[c] = L1Sets
           /\ \A i \in L1Sets :
                /\ DOMAIN ShadowState.l1d[c][i] = Plru1!Ways
                /\ \A w \in Plru1!Ways : ShadowState.l1d[c][i][w] = ShadowCell
  BY <1>3
<1>5. /\ DOMAIN ShadowState.l2 = L2Sets
      /\ \A j \in L2Sets :
           /\ "cell" \in DOMAIN ShadowState.l2[j]
           /\ DOMAIN ShadowState.l2[j].cell = Plru2!Ways
           /\ \A w \in Plru2!Ways : ShadowState.l2[j].cell[w] = ShadowCell
  BY <1>3
<1>6. /\ DOMAIN ShadowState.counters = Cores
      /\ \A c \in Cores : ShadowState.counters[c] = ShadowCounters
  BY <1>3
<1>7. ShadowShape(ShadowState)
  BY <1>1, <1>2, <1>3, <1>4, <1>5, <1>6 DEF ShadowShape
<1>8. QED
  BY <1>1, <1>2, <1>4, <1>5, <1>6, <1>7

LEMMA ViewIsCaches ==
  ASSUME [VisualizerNext]_visualizer_vars
  PROVE  [Next]_vars /\ workload' = workload /\ DataCores' = DataCores
PROOF
<1>1. ASSUME NEW c \in Cores, event_begin_step(c)
      PROVE  UNCHANGED vars
  BY <1>1 DEF event_begin_step
<1>2. ASSUME NEW c \in Cores, program(c)
      PROVE  Next /\ workload' = workload
  <2>1. \A s : access(c, s) => become(s)
    BY DEF access, unrecorded, recorded
  <2>2. QED
    BY <1>2, <2>1 DEF program, Next, become
<1>3. ASSUME NEW k \in Keys, key_down(k)
      PROVE  UNCHANGED vars
  BY <1>3 DEF key_down
<1>4. start_recording \/ open_trace \/ frame \/ UNCHANGED visualizer_vars => UNCHANGED vars
  BY DEF start_recording, open_trace, frame, visualizer_vars
<1>5. [Next]_vars /\ workload' = workload
  BY <1>1, <1>2, <1>3, <1>4 DEF VisualizerNext, vars
<1>6. QED
  BY <1>5 DEF DataCores

\* Steps that leave the film and the place in it alone.
LEMMA CalmStep ==
  ASSUME NEW X, Viewed(X), DataCores' = DataCores,
         UNCHANGED <<vars, phase, pmc, queue, history, cursor, shadow>>,
         speed' \in Nat \ {0}
  PROVE  Viewed(X)'
PROOF
<1>1. now' = now /\ abort' = abort
  BY DEF now, vars
<1>2. SingleWays'
  BY SingleStep DEF Viewed
<1>3. Recorded(X) => Recorded(X)'
  BY <1>1 DEF Recorded
<1>4. Shown(X) => Shown(X)'
  BY DEF Shown
<1>5. QED
  BY <1>1, <1>2, <1>3, <1>4 DEF Viewed

\* Steps that move in the film.
LEMMA MoveStep ==
  ASSUME NEW X, Viewed(X), DataCores' = DataCores,
         UNCHANGED <<vars, pmc, queue, history, speed>>,
         phase = "viewing", phase' \in {"viewing", "closed"},
         \A P : /\ IsFilm(X, DataCores, queue, history, P)
                /\ cursor \in Ends(queue)
                /\ ShadowTells(X, DataCores, queue, P, cursor, shadow)
                => /\ cursor' \in Ends(queue)
                   /\ ShadowTells(X, DataCores, queue, P, cursor', shadow')
  PROVE  Viewed(X)'
PROOF
<1>1. now' = now
  BY DEF now, vars
<1>2. SingleWays'
  BY SingleStep DEF Viewed
<1>3. Shown(X)'
  <2>1. PICK P : /\ IsFilm(X, DataCores, queue, history, P)
                 /\ cursor \in Ends(queue)
                 /\ ShadowTells(X, DataCores, queue, P, cursor, shadow)
    BY DEF Viewed, Shown
  <2>2. QED
    BY <2>1 DEF Shown
<1>4. QED
  BY <1>2, <1>3 DEF Viewed

\* An access that moved counter h at most, for all the counters that matter.
LEMMA AccessStep ==
  ASSUME NEW X, Viewed(X), SingleWays', DataCores' = DataCores, abort = "none",
         NEW c \in Cores, NEW s, access(c, s), NEW h, Told(X, c, s, now, h),
         \A d \in DataCores, k \in Hits :
           count(pmc, c, s.counted)[d][k] = count(pmc, c, h)[d][k]
  PROVE  Viewed(X)'
PROOF
<1>1. pmc' = count(pmc, c, s.counted) /\ pmc' \in Pmcs
  <2>1. pmc' = count(pmc, c, s.counted)
    BY DEF access, unrecorded, recorded
  <2>2. QED
    BY <2>1, Counted DEF Viewed
<1>2. cursor' = cursor /\ shadow' = shadow /\ speed' = speed /\ phase' = phase
  BY DEF access, unrecorded, recorded, renderer
<1>3. CASE unrecorded(c, s)
  <2>1. phase = "setup" /\ queue' = queue
    BY <1>3 DEF unrecorded
  <2>2. QED
    BY <1>1, <1>2, <2>1 DEF Viewed
<1>4. CASE recorded(c, s)
  <2>1. phase = "recording" /\ become(s)
    BY <1>4 DEF recorded
  <2>2. ASSUME abort' = "none" PROVE Recorded(X)'
    <3>1. s.abort = "none"
      BY <2>1, <2>2 DEF become
    <3>2. PICK P : /\ IsFilm(X, DataCores, queue, history, P)
                   /\ EndsWith(X, DataCores, queue, P, now, pmc)
      BY <2>1 DEF Viewed, Recorded
    <3>3. PICK Q : IsStory(X, c, s.events, now, s, h, Q)
      BY <3>1 DEF Told
    <3>4. IsList(s.events)
      BY <3>1 DEF Told
    <3>5. TakenDown(queue', history', queue, history, s, step[c], pmc')
      BY <1>4 DEF recorded, TakenDown
    <3>6. /\ DataCores \subseteq Cores
          /\ pmc \in Pmcs
          /\ CountedOne(DataCores, pmc, c, h, pmc')
      BY <1>1 DEF Viewed, DataCores, CountedOne
    <3>7. PICK P2 : /\ IsFilm(X, DataCores, queue', history', P2)
                    /\ EndsWith(X, DataCores, queue', P2, s, pmc')
      BY <3>2, <3>3, <3>4, <3>5, <3>6, FilmGoesOn
    <3>8. now'.l1d = s.l1d /\ now'.l2 = s.l2
      BY <2>1 DEF now, become
    <3>9. EndsWith(X, DataCores, queue', P2, now', pmc')
      BY <3>7, <3>8 DEF EndsWith, SamePicture, KeepsL1, KeepsL2
    <3>10. QED
      BY <3>7, <3>9 DEF Recorded
  <2>3. QED
    BY <1>1, <1>2, <2>1, <2>2 DEF Viewed
<1>5. QED
  BY <1>3, <1>4 DEF access

LEMMA ProgramStep ==
  ASSUME NEW X, Viewed(X), SingleWays', DataCores' = DataCores,
         \A c \in Cores, l \in Lines :
           <<"fetch", l>> \in workload[c] => Carries(X, cpu_fetch(now, c, l), now),
         NEW c \in Cores, program(c)
  PROVE  Viewed(X)'
PROOF
<1>1. Whole(now) /\ Told(X, c, now, now, "none") /\ abort = "none"
  BY NowIsWhole DEF Viewed, program
<1>2. ASSUME NEW s, AccessTold(X, c, s, now), access(c, s)
      PROVE  Viewed(X)'
  BY <1>1, <1>2, AccessStep DEF AccessTold
<1>3. ASSUME NEW l \in Lines, <<"fetch", l>> \in workload[c], access(c, cpu_fetch(now, c, l))
      PROVE  Viewed(X)'
  <2> DEFINE s == cpu_fetch(now, c, l)
  <2>1. Told(X, c, s, now, "none")
    BY <1>1, <1>3 DEF Carries
  <2>2. c \notin DataCores
    <3>1. <<"fetch", l>> \in {"fetch"} \X Lines
      OBVIOUS
    <3>2. QED
      BY <1>3, <3>1 DEF DataCores
  <2>3. \A d \in DataCores, k \in Hits :
          count(pmc, c, s.counted)[d][k] = count(pmc, c, "none")[d][k]
    <3>1. pmc \in Pmcs /\ DataCores \subseteq Cores
      BY DEF Viewed, DataCores
    <3> HIDE DEF s
    <3>2. QED
      BY <2>2, <3>1, Counted
  <2>4. access(c, s)
    BY <1>3
  <2> HIDE DEF s
  <2>5. QED
    BY <1>1, <2>1, <2>3, <2>4, AccessStep
<1>4. \A l \in Lines : /\ AccessTold(X, c, cpu_read(now, c, l), now)
                       /\ \A word, x : AccessTold(X, c, cpu_write(now, c, l, word, x), now)
  BY <1>1, ReadTold, WriteTold
<1>5. QED
  BY <1>2, <1>3, <1>4 DEF program

LEMMA StartStep ==
  ASSUME NEW X, Viewed(X), SingleWays', DataCores' = DataCores, start_recording
  PROVE  Viewed(X)'
PROOF
<1>1. /\ phase = "setup" /\ phase' = "recording"
      /\ UNCHANGED <<vars, pmc, cursor, shadow, speed>>
      /\ queue' = <<>> /\ history' = <<snapshot(now, pmc)>>
  BY DEF start_recording, renderer, Viewed
<1> DEFINE p == [l1d |-> l1d, l2 |-> l2, pmc |-> pmc]
           P == [n \in {0} |-> p]
           snap == snapshot(now, pmc)
<1>2. P[0].l1d = now.l1d /\ P[0].l2 = now.l2 /\ P[0].pmc = pmc
  BY DEF now
<1> HIDE DEF P
<1>3. Len(queue') = 0 /\ IsList(queue') /\ Len(history') = 1 /\ IsList(history')
      /\ history'[1] = snap
  <2>1. queue' \in Seq({}) /\ history' \in Seq({snap})
    BY <1>1
  <2>2. QED
    BY <1>1, <2>1 DEF IsList
<1>4. Ends(queue') = {0}
  BY <1>3 DEF Ends
<1>5. HasPicture(X, DataCores, snap, P[0])
  <2>1. /\ \A d \in Cores, i \in L1Sets : snap.l1d[d][i] = now.l1d[d][i].way
        /\ \A j \in L2Sets : snap.l2[j] = now.l2[j].way
        /\ snap.pmc = pmc
    BY DEF snapshot, L1Sets, L2Sets, SetsOfL1, SetsOfL2
  <2> HIDE DEF snap
  <2>2. QED
    BY <1>2, <2>1 DEF HasPicture
<1> HIDE DEF snap
<1>6. \A d \in DataCores, k \in Hits : P[0].pmc[d][k] \in Int
  <2>1. DataCores \subseteq Cores /\ Hits \subseteq PmcNames
    BY DEF DataCores, Hits, PmcNames
  <2>2. QED
    BY <1>2, <2>1 DEF Viewed, Pmcs
<1>7. IsFilm(X, DataCores, queue', history', P)
  <2>1. 0 .. Len(queue') = {0} /\ 1 .. Len(queue') = {}
    BY <1>3
  <2>2. QED
    BY <1>3, <1>4, <1>5, <1>6, <2>1 DEF IsFilm
<1>8. EndsWith(X, DataCores, queue', P, now, pmc)
  BY <1>2, <1>3 DEF EndsWith, SamePicture, KeepsL1, KeepsL2
<1>9. now' = now /\ pmc' = pmc
  BY <1>1 DEF now, vars
<1>10. Recorded(X)'
  BY <1>7, <1>8, <1>9 DEF Recorded
<1>11. QED
  BY <1>1, <1>10 DEF Viewed

LEMMA OpenStep ==
  ASSUME NEW X, Viewed(X), SingleWays', DataCores' = DataCores, open_trace
  PROVE  Viewed(X)'
PROOF
<1>1. /\ phase = "recording" /\ abort = "none" /\ phase' = "viewing"
      /\ cursor = 0 /\ shadow = ShadowState
      /\ UNCHANGED <<vars, pmc, queue, history, cursor, shadow, speed>>
  BY DEF open_trace, renderer, Viewed
<1>2. PICK P : IsFilm(X, DataCores, queue, history, P)
  BY <1>1 DEF Viewed, Recorded
<1>3. Len(queue) \in Nat /\ 0 \in 0 .. Len(queue)
  BY <1>2 DEF IsFilm, IsList
<1>4. \A d \in DataCores, k \in Hits : P[0].pmc[d][k] \in Int /\ d \in Cores
  BY <1>2, <1>3 DEF IsFilm, DataCores
<1>5. 1 .. 0 = {}
  OBVIOUS
<1>6. ShadowTells(X, DataCores, queue, P, 0, ShadowState)
  <2>1. \A d \in DataCores, k \in Hits :
          ShadowState.counters[d][k] = P[0].pmc[d][k] - P[0].pmc[d][k]
    BY <1>4, ShadowStateShape
  <2>2. QED
    BY <1>5, <2>1, ShadowStateShape DEF ShadowTells
<1>7. 0 \in Ends(queue)
  BY DEF Ends
<1>8. Shown(X)'
  BY <1>1, <1>2, <1>6, <1>7 DEF Shown
<1>9. QED
  BY <1>1, <1>8 DEF Viewed

LEMMA ForwardStep ==
  ASSUME NEW X, Viewed(X), DataCores' = DataCores, phase = "viewing", step_forward,
         UNCHANGED <<vars, pmc, queue, history, speed, phase>>
  PROVE  Viewed(X)'
PROOF
<1>1. ASSUME NEW P, IsFilm(X, DataCores, queue, history, P), cursor \in Ends(queue),
             ShadowTells(X, DataCores, queue, P, cursor, shadow)
      PROVE  /\ cursor' \in Ends(queue)
             /\ ShadowTells(X, DataCores, queue, P, cursor', shadow')
  <2>1. IsList(queue) /\ DataCores \subseteq Cores /\ Ends(queue) \subseteq 0 .. Len(queue)
    BY <1>1 DEF IsFilm, DataCores, Ends, IsList
  <2>2. stop_after(cursor) \in Ends(queue) /\ cursor <= stop_after(cursor)
    BY <1>1, <2>1, StopAfter
  <2>3. cursor \in Nat /\ stop_after(cursor) \in 0 .. Len(queue)
    BY <1>1, <2>1, <2>2
  <2>4. ShadowTells(X, DataCores, queue, P, stop_after(cursor), shadow_forward(stop_after(cursor)))
    BY <1>1, <2>1, <2>2, <2>3, ShadowForward
  <2>5. QED
    BY <2>2, <2>4 DEF step_forward
<1>2. QED
  BY <1>1, MoveStep

LEMMA BackwardStep ==
  ASSUME NEW X, Viewed(X), DataCores' = DataCores, phase = "viewing", step_backward,
         UNCHANGED <<vars, pmc, queue, history, speed, phase>>
  PROVE  Viewed(X)'
PROOF
<1>1. ASSUME NEW P, IsFilm(X, DataCores, queue, history, P), cursor \in Ends(queue),
             ShadowTells(X, DataCores, queue, P, cursor, shadow)
      PROVE  /\ cursor' \in Ends(queue)
             /\ ShadowTells(X, DataCores, queue, P, cursor', shadow')
  <2>1. IsList(queue) /\ DataCores \subseteq Cores /\ Ends(queue) \subseteq 0 .. Len(queue)
    BY <1>1 DEF IsFilm, DataCores, Ends, IsList
  <2>2. stop_before(cursor) \in Ends(queue) /\ stop_before(cursor) <= cursor
    BY <1>1, <2>1, StopBefore
  <2>3. cursor \in 0 .. Len(queue) /\ stop_before(cursor) \in Nat
    BY <1>1, <2>1, <2>2
  <2>4. ShadowTells(X, DataCores, queue, P, stop_before(cursor), shadow_backward(stop_before(cursor)))
    BY <1>1, <2>1, <2>2, <2>3, ShadowBackward
  <2>5. QED
    BY <2>2, <2>4 DEF step_backward
<1>2. QED
  BY <1>1, MoveStep

\* The flashes are not part of the film.
LEMMA Unflashed ==
  ASSUME NEW X, NEW D, D \subseteq Cores, NEW q, NEW P, NEW n, NEW sh,
         ShadowTells(X, D, q, P, n, sh), NEW f
  PROVE  ShadowTells(X, D, q, P, n, [sh EXCEPT !.flash = f])
PROOF
<1> DEFINE t == [sh EXCEPT !.flash = f]
<1>1. /\ {"l1d", "l2", "flash", "counters"} \subseteq DOMAIN t
      /\ t.l1d = sh.l1d /\ t.l2 = sh.l2 /\ t.counters = sh.counters
  BY DEF ShadowTells, ShadowShape
<1> HIDE DEF t
<1>2. ShadowShape(t)
  BY <1>1 DEF ShadowTells, ShadowShape
<1>3. ShadowTells(X, D, q, P, n, t)
  BY <1>1, <1>2 DEF ShadowTells
<1>4. QED
  BY <1>3 DEF t

LEMMA FrameStep ==
  ASSUME NEW X, Viewed(X), DataCores' = DataCores, frame
  PROVE  Viewed(X)'
PROOF
<1> DEFINE stop == IF playing THEN stop_after_steps(speed) ELSE cursor
           sh == shadow_forward(stop)
<1>1. /\ phase = "viewing" /\ phase' \in {"viewing", "closed"}
      /\ UNCHANGED <<vars, pmc, queue, history, speed>>
      /\ cursor' = stop
      /\ shadow' = [sh EXCEPT !.flash = decayed(@)]
  BY DEF frame
<1> DEFINE f == decayed(sh.flash)
<1> HIDE DEF stop
<1>2. ASSUME NEW P, IsFilm(X, DataCores, queue, history, P), cursor \in Ends(queue),
             ShadowTells(X, DataCores, queue, P, cursor, shadow)
      PROVE  /\ cursor' \in Ends(queue)
             /\ ShadowTells(X, DataCores, queue, P, cursor', shadow')
  <2>1. IsList(queue) /\ DataCores \subseteq Cores /\ Ends(queue) \subseteq 0 .. Len(queue)
    BY <1>2 DEF IsFilm, DataCores, Ends, IsList
  <2>2. speed \in Nat /\ cursor \in Nat
    BY <1>2, <2>1 DEF Viewed
  <2>3. stop \in Ends(queue) /\ cursor <= stop
    <3>1. stop_after_steps(speed) \in Ends(queue) /\ cursor <= stop_after_steps(speed)
      BY <1>2, <2>1, <2>2, StopAfterSteps
    <3>2. QED
      BY <1>2, <2>2, <3>1 DEF stop
  <2>4. stop \in 0 .. Len(queue)
    BY <2>1, <2>3
  <2>5. ShadowTells(X, DataCores, queue, P, stop, sh)
    BY <1>2, <2>1, <2>2, <2>3, <2>4, ShadowForward
  <2>6. shadow' = [sh EXCEPT !.flash = f]
    BY <1>1
  <2> HIDE DEF sh, f
  <2>7. ShadowTells(X, DataCores, queue, P, stop, shadow')
    BY <2>1, <2>5, <2>6, Unflashed
  <2>8. QED
    BY <1>1, <2>3, <2>7
<1> HIDE DEF sh, f
<1>3. QED
  BY <1>1, <1>2, MoveStep

LEMMA KeyStep ==
  ASSUME NEW X, Viewed(X), DataCores' = DataCores, NEW k \in Keys, key_down(k)
  PROVE  Viewed(X)'
PROOF
<1>1. k \in {"escape", "space", "right", "left", "up", "down"}
  BY KeysAssumption
<1>2. /\ phase = "viewing"
      /\ UNCHANGED <<vars, pmc, queue, history, phase>>
  BY DEF key_down, recorder
<1>3. CASE k = "right"
  <2>1. step_forward /\ speed' = speed
    BY <1>3 DEF key_down
  <2>2. QED
    BY <1>2, <2>1, ForwardStep
<1>4. CASE k = "left"
  <2>1. step_backward /\ speed' = speed
    BY <1>4 DEF key_down
  <2>2. QED
    BY <1>2, <2>1, BackwardStep
<1>5. CASE k \in {"escape", "space", "up", "down"}
  <2>1. cursor' = cursor /\ shadow' = shadow
    BY <1>5 DEF key_down
  <2>2. speed \in Nat \ {0}
    BY DEF Viewed
  <2>3. \/ speed' = speed
        \/ speed' = speed * 2
        \/ speed > 1 /\ speed' = speed \div 2
    <3>1. CASE k \in {"escape", "space"}
      BY <3>1 DEF key_down
    <3>2. CASE k = "up"
      <4>1. speed' = IF speed < MAX_SPEED THEN speed * 2 ELSE speed
        BY <3>2 DEF key_down
      <4>2. QED
        BY <4>1
    <3>3. CASE k = "down"
      <4>1. speed' = IF speed > 1 THEN speed \div 2 ELSE speed
        BY <3>3 DEF key_down
      <4>2. QED
        BY <4>1
    <3>4. QED
      BY <1>5, <3>1, <3>2, <3>3
  <2>4. speed' \in Nat \ {0}
    <3>1. ASSUME NEW n \in Nat, n > 1 PROVE n \div 2 \in Nat \ {0}
      BY <3>1
    <3>2. QED
      BY <2>2, <2>3, <3>1
  <2>5. QED
    BY <1>2, <2>1, <2>4, CalmStep
<1>6. QED
  BY <1>1, <1>3, <1>4, <1>5

LEMMA ViewedInit ==
  ASSUME NEW X, VisualizerInit
  PROVE  Viewed(X)
PROOF
<1>1. SingleWays
  BY SingleInit DEF VisualizerInit
<1>2. pmc \in Pmcs
  <2> DEFINE none == [l1d_hits |-> 0, l1i_hits |-> 0, l2_hits |-> 0, mem_fetches |-> 0]
  <2>1. none \in [PmcNames -> Int]
    BY DEF PmcNames
  <2>2. pmc = [c \in Cores |-> none]
    BY DEF VisualizerInit
  <2> HIDE DEF none
  <2>3. QED
    BY <2>1, <2>2 DEF Pmcs
<1>3. QED
  BY <1>1, <1>2 DEF Viewed, VisualizerInit, renderer_init

LEMMA ViewedStep ==
  ASSUME NEW X, Viewed(X), [VisualizerNext]_visualizer_vars,
         \A c \in Cores, l \in Lines :
           <<"fetch", l>> \in workload[c] => Carries(X, cpu_fetch(now, c, l), now)
  PROVE  Viewed(X)'
PROOF
<1>1. DataCores' = DataCores /\ SingleWays'
  BY ViewIsCaches, SingleStep DEF Viewed
<1>2. ASSUME NEW c \in Cores, event_begin_step(c)
      PROVE  Viewed(X)'
  <2>1. /\ UNCHANGED <<vars, phase, pmc, queue, history, cursor, shadow>>
        /\ speed' = speed
    BY <1>2 DEF event_begin_step, renderer
  <2>2. QED
    BY <1>1, <2>1, CalmStep DEF Viewed
<1>3. ASSUME NEW c \in Cores, program(c)
      PROVE  Viewed(X)'
  BY <1>1, <1>3, ProgramStep
<1>4. CASE start_recording
  BY <1>1, <1>4, StartStep
<1>5. CASE open_trace
  BY <1>1, <1>5, OpenStep
<1>6. ASSUME NEW k \in Keys, key_down(k)
      PROVE  Viewed(X)'
  BY <1>1, <1>6, KeyStep
<1>7. CASE frame
  BY <1>1, <1>7, FrameStep
<1>8. CASE UNCHANGED visualizer_vars
  <2>1. /\ UNCHANGED <<vars, phase, pmc, queue, history, cursor, shadow>>
        /\ speed' = speed
    BY <1>8 DEF visualizer_vars, recorder, renderer
  <2>2. QED
    BY <1>1, <2>1, CalmStep DEF Viewed
<1>9. QED
  BY <1>2, <1>3, <1>4, <1>5, <1>6, <1>7, <1>8 DEF VisualizerNext

LEMMA ShownPictures ==
  ASSUME NEW X, Viewed(X), phase = "viewing"
  PROVE  \E P : /\ IsFilm(X, DataCores, queue, history, P)
                /\ ShadowTells(X, DataCores, queue, P, cursor, shadow)
                /\ HasPicture(X, DataCores, shown, P[cursor])
                /\ HasPicture(X, DataCores, history[1], P[0])
PROOF
<1>1. PICK P : /\ IsFilm(X, DataCores, queue, history, P)
               /\ cursor \in Ends(queue)
               /\ ShadowTells(X, DataCores, queue, P, cursor, shadow)
  BY DEF Viewed, Shown
<1>2. 0 \in Ends(queue) /\ 0 + 1 = 1
  BY DEF Ends
<1>3. HasPicture(X, DataCores, history[cursor + 1], P[cursor])
  BY <1>1 DEF IsFilm
<1>4. HasPicture(X, DataCores, history[0 + 1], P[0])
  BY <1>1, <1>2 DEF IsFilm
<1>5. QED
  BY <1>1, <1>2, <1>3, <1>4 DEF shown

\* Wherever the user steps in a trace of any length, at any speed, forward or
\* back, the hits and fetches the statistics panel shows are those the cores
\* counted: apply_event_backward undoes what apply_event_forward did, and no
\* access of data counts a hit without reporting the event of that hit.
THEOREM StatisticsAreTrue == VisualizerSpec => []CountersTrue
PROOF
<1> DEFINE Inv == Viewed({})
<1>1. VisualizerInit => Inv
  BY ViewedInit
<1>2. Inv /\ [VisualizerNext]_visualizer_vars => Inv'
  <2> SUFFICES ASSUME Inv, [VisualizerNext]_visualizer_vars PROVE Inv'
    OBVIOUS
  <2>1. Whole(now)
    BY NowIsWhole DEF Viewed
  <2>2. \A c \in Cores : \A i : FitsL1I({}, now, c, i)
    BY DEF FitsL1I
  <2>3. ASSUME NEW c \in Cores, NEW l \in Lines
        PROVE  Carries({}, cpu_fetch(now, c, l), now)
    <3> DEFINE none == {}
    <3>1. "l2" \notin none /\ FitsL1I(none, now, c, l1_to_index(l))
      BY <2>2
    <3> HIDE DEF none
    <3>2. Carries(none, cpu_fetch(now, c, l), now)
      BY <2>1, <3>1, FetchTold
    <3>3. QED
      BY <3>2 DEF none
  <2>4. QED
    BY <2>3, ViewedStep
<1>3. Inv => CountersTrue
  <2> SUFFICES ASSUME Inv, phase = "viewing", NEW c \in Cores,
                      NEW k \in {"l1d_hits", "l2_hits", "mem_fetches"},
                      workload[c] \cap ({"fetch"} \X Lines) = {}
               PROVE  shadow.counters[c][k] = shown.pmc[c][k] - history[1].pmc[c][k]
    BY DEF CountersTrue
  <2>1. PICK P : /\ ShadowTells({}, DataCores, queue, P, cursor, shadow)
                 /\ HasPicture({}, DataCores, shown, P[cursor])
                 /\ HasPicture({}, DataCores, history[1], P[0])
    BY ShownPictures
  <2>2. c \in DataCores /\ k \in Hits
    BY DEF DataCores, Hits
  <2>3. QED
    BY <2>1, <2>2 DEF ShadowTells, HasPicture
<1> HIDE DEF Inv
<1>4. QED
  BY <1>1, <1>2, <1>3, PTL DEF VisualizerSpec

\* Wherever the user steps, the L2 ways drawn as filled are those that held a
\* line, as long as no core fetches instructions: every fill and every eviction
\* of the L2 reports its event, and no hit or snoop empties a way.
THEOREM FilledWaysAreTrue == VisualizerSpec => []ShadowL2Filled
PROOF
<1> DEFINE NoFetch == \A c \in Cores : workload[c] \cap ({"fetch"} \X Lines) = {}
           Inv == Viewed({"l2"})
<1>1. VisualizerInit => (NoFetch => Inv)
  BY ViewedInit
<1>2. (NoFetch => Inv) /\ [VisualizerNext]_visualizer_vars => (NoFetch => Inv)'
  <2> SUFFICES ASSUME NoFetch => Inv, [VisualizerNext]_visualizer_vars, NoFetch' PROVE Inv'
    OBVIOUS
  <2>1. NoFetch
    <3>1. DataCores' = DataCores
      BY ViewIsCaches
    <3>2. Cores \subseteq DataCores'
      BY DEF DataCores
    <3>3. QED
      BY <3>1, <3>2 DEF DataCores
  <2>2. ASSUME NEW c \in Cores, NEW l \in Lines
        PROVE  <<"fetch", l>> \notin workload[c]
    <3>1. <<"fetch", l>> \in {"fetch"} \X Lines
      OBVIOUS
    <3>2. QED
      BY <2>1, <3>1
  <2>3. QED
    BY <2>1, <2>2, ViewedStep
<1>3. (NoFetch => Inv) => ShadowL2Filled
  <2> SUFFICES ASSUME Inv, phase = "viewing", NEW j \in L2Sets, NEW w \in Plru2!Ways
               PROVE  \/ shadow.l2[j].cell[w].state = INVALID <=> shown.l2[j][w].state = INVALID
                      \/ ~touched_l2(j, w) /\ shadow.l2[j].cell[w].state = INVALID
    BY DEF ShadowL2Filled, SetsOfL2, L2Sets
  <2>1. PICK P : /\ ShadowTells({"l2"}, DataCores, queue, P, cursor, shadow)
                 /\ HasPicture({"l2"}, DataCores, shown, P[cursor])
    BY ShownPictures
  <2>2. touched_l2(j, w) <=> \E k \in 1 .. cursor : AtL2(queue[k], j, w)
    BY DEF touched_l2, AtL2
  <2>3. QED
    BY <2>1, <2>2 DEF ShadowTells, HasPicture
<1> HIDE DEF NoFetch, Inv
<1>4. QED
  BY <1>1, <1>2, <1>3, PTL DEF VisualizerSpec

(***************************************************************************)
(* Code that fits its L1I: no set has to evict for another line of code.   *)
(***************************************************************************)
LEMMA RoomForCode ==
  ASSUME NEW s, Single(s), NEW c \in Cores, NEW l \in Lines, l \in Code(c),
         NEW i, i = l1_to_index(l), find_way(s.l1i[c][i], l1_to_tag(l)) = {},
         Cardinality({m \in Code(c) : l1_to_index(m) = i}) <= NUM_L1_WAYS
  PROVE  invalid_ways(s.l1i[c][i]) # {}
PROOF
<1> DEFINE set == s.l1i[c][i]
           S == {m \in Code(c) : l1_to_index(m) = i}
           T == S \ {l}
           W == Plru1!Ways
           f == [w \in W |-> CHOOSE m \in S : l1_to_tag(m) = set.way[w].tag]
<1>1. i \in L1Sets
  BY Indices
<1>2. SetShape(set, W) /\ Distinct(set, W) /\ Tagged(set, CodeTags(c, i))
  BY <1>1 DEF Single, L1Shape, CodeOnly
<1>3. IsFiniteSet(S) /\ l \in S /\ NUM_L1_WAYS \in Nat \ {0}
  <2>1. NumLines \in Nat /\ NUM_L1_WAYS \in Nat \ {0}
    BY GeometryAssumption
  <2>2. IsFiniteSet(Lines)
    BY <2>1, FS_Interval DEF Lines
  <2>3. S \subseteq Lines /\ l \in S
    BY DEF Code
  <2> HIDE DEF S
  <2>4. QED
    BY <2>1, <2>2, <2>3, FS_Subset
<1>4. IsFiniteSet(T) /\ Cardinality(T) < NUM_L1_WAYS
  <2>1. Cardinality(S) <= NUM_L1_WAYS
    OBVIOUS
  <2> HIDE DEF S
  <2>2. IsFiniteSet(T) /\ Cardinality(T) = Cardinality(S) - 1 /\ Cardinality(S) \in Nat
    BY <1>3, FS_RemoveElement, FS_CardinalityType
  <2>3. QED
    BY <1>3, <2>1, <2>2
<1>5. Cardinality(W) = NUM_L1_WAYS
  <2>1. W = 0 .. NUM_L1_WAYS - 1
    BY DEF Plru1!Ways
  <2>2. QED
    BY <1>3, <2>1, FS_Interval
<1>6. SUFFICES ASSUME invalid_ways(set) = {} PROVE FALSE
  OBVIOUS
<1>7. ASSUME NEW w \in W
      PROVE  f[w] \in T /\ l1_to_tag(f[w]) = set.way[w].tag
  <2>1. set.way[w].state # INVALID
    BY <1>2, <1>6 DEF invalid_ways, SetShape
  <2>2. set.way[w].tag \in CodeTags(c, i)
    BY <1>2, <2>1 DEF Tagged
  <2>3. \E m \in S : l1_to_tag(m) = set.way[w].tag
    BY <2>2 DEF CodeTags
  <2>4. f[w] \in S /\ l1_to_tag(f[w]) = set.way[w].tag
    BY <2>3
  <2>5. w \notin find_way(set, l1_to_tag(l))
    OBVIOUS
  <2>6. set.way[w].tag # l1_to_tag(l)
    BY <1>2, <2>1, <2>5 DEF find_way, SetShape
  <2>7. QED
    BY <2>4, <2>6
<1>8. ASSUME NEW v \in W, NEW w \in W, f[v] = f[w]
      PROVE  v = w
  <2>1. set.way[v].tag = set.way[w].tag
    BY <1>7, <1>8
  <2>2. set.way[v].state # INVALID /\ set.way[w].state # INVALID
    BY <1>2, <1>6 DEF invalid_ways, SetShape
  <2>3. QED
    BY <1>2, <2>1, <2>2 DEF Distinct
<1>9. f \in Injection(W, T)
  <2>1. f \in [W -> T]
    BY <1>7
  <2> HIDE DEF f, T, W
  <2>2. QED
    BY <1>8, <2>1 DEF Injection, IsInjective
<1> HIDE DEF f, T, W
<1>10. Cardinality(W) <= Cardinality(T)
  BY <1>4, <1>9, FS_Injection
<1>11. Cardinality(T) \in Nat
  BY <1>4, FS_CardinalityType
<1>12. QED
  BY <1>3, <1>4, <1>5, <1>10, <1>11

\* The code of every program considered fits the L1Is.
CodeFits == \A W \in Workloads : code_fits(W)

\* Wherever the user steps in a trace of any length, the L1D states drawn are
\* those the caches had after that step, if the code of every core fits its
\* L1I: apply_event_backward restores what every hit, fill, eviction and snoop
\* replaced, and no change of an L1D goes without its event.  (Code that does
\* not fit breaks it: evict_l1 of an L1I reports an L1D_EVICT.)
THEOREM DrawnStatesAreTrue == CodeFits => (VisualizerSpec => []ShadowL1dTrue)
PROOF
<1> SUFFICES ASSUME CodeFits PROVE VisualizerSpec => []ShadowL1dTrue
  OBVIOUS
<1> DEFINE Inv == Viewed({"l1d"}) /\ workload \in Workloads
<1>1. VisualizerInit => Inv
  BY ViewedInit DEF VisualizerInit, Init
<1>2. Inv /\ [VisualizerNext]_visualizer_vars => Inv'
  <2> SUFFICES ASSUME Inv, [VisualizerNext]_visualizer_vars PROVE Inv'
    OBVIOUS
  <2>1. Whole(now) /\ Single(now)
    BY NowIsWhole DEF Viewed, SingleWays
  <2>2. ASSUME NEW c \in Cores, NEW l \in Lines, <<"fetch", l>> \in workload[c]
        PROVE  Carries({"l1d"}, cpu_fetch(now, c, l), now)
    <3> DEFINE i == l1_to_index(l)
               X == {"l1d"}
    <3>1. l \in Code(c) /\ i \in L1Sets
      BY <2>2, Indices DEF Code
    <3>2. Cardinality({m \in Code(c) : l1_to_index(m) = i}) <= NUM_L1_WAYS
      <4>1. {m \in Code(c) : l1_to_index(m) = i} =
              {m \in Lines : <<"fetch", m>> \in workload[c] /\ l1_to_index(m) = i}
        BY DEF Code
      <4>2. code_fits(workload) /\ SetsOfL1 = L1Sets
        BY DEF CodeFits, SetsOfL1, L1Sets
      <4> HIDE DEF i
      <4>3. QED
        BY <3>1, <4>1, <4>2 DEF code_fits
    <3>3. find_way(now.l1i[c][i], l1_to_tag(l)) = {} => invalid_ways(now.l1i[c][i]) # {}
      BY <2>1, <3>1, <3>2, RoomForCode
    <3>4. find_way(now.l1i[c][i], l1_to_tag(l)) = {} => FitsL1I(X, now, c, i)
      BY <3>3 DEF FitsL1I
    <3>5. "l2" \notin X
      OBVIOUS
    <3> HIDE DEF X
    <3>6. Carries(X, cpu_fetch(now, c, l), now)
      BY <2>1, <3>4, <3>5, FetchTold
    <3>7. QED
      BY <3>6 DEF X
  <2>3. Viewed({"l1d"})'
    BY <2>2, ViewedStep
  <2>4. workload' = workload
    BY ViewIsCaches
  <2>5. QED
    BY <2>3, <2>4
<1>3. Inv => ShadowL1dTrue
  <2> SUFFICES ASSUME Inv, phase = "viewing",
                      NEW c \in Cores, NEW i \in L1Sets, NEW w \in Plru1!Ways
               PROVE  \/ shadow.l1d[c][i][w].state = shown.l1d[c][i][w].state
                      \/ ~touched(c, i, w) /\ shadow.l1d[c][i][w].state = INVALID
    BY DEF ShadowL1dTrue, SetsOfL1, L1Sets
  <2>1. PICK P : /\ ShadowTells({"l1d"}, DataCores, queue, P, cursor, shadow)
                 /\ HasPicture({"l1d"}, DataCores, shown, P[cursor])
    BY ShownPictures
  <2>2. touched(c, i, w) <=> \E k \in 1 .. cursor : AtL1(queue[k], c, i, w)
    BY DEF touched, AtL1
  <2>3. QED
    BY <2>1, <2>2 DEF ShadowTells, HasPicture
<1> HIDE DEF Inv
<1>4. QED
  BY <1>1, <1>2, <1>3, PTL DEF VisualizerSpec
=============================================================================
