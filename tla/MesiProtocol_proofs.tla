------------------------ MODULE MesiProtocol_proofs ------------------------
(***************************************************************************)
(* Proofs about MesiProtocol for every number of cores, lines, ways and    *)
(* sets.  The invariants of the protocol are all statements about one      *)
(* line, so they are gathered in LineOK and followed through the stages    *)
(* of a handler (snoop, evict, fill) one line at a time: a stage leaves    *)
(* most lines as they were (SameLine) and reshapes the few it works on.    *)
(***************************************************************************)
EXTENDS MesiProtocol, Integers, TLAPS

\* The sharer masks of line l are exact, and empty when the L2 lacks it.
DirectoryOK(s, l) ==
  /\ \A c \in Cores : c \in s.l2[l].d <=> holds(s.l1d[c], l)
  /\ \A c \in Cores : c \in s.l2[l].i <=> holds(s.l1i[c], l)
  /\ s.l2[l].state = INVALID => s.l2[l].d = {} /\ s.l2[l].i = {}

\* The states of line l in the caches fit together.
StatesOK(s, l) ==
  /\ \A c \in Cores : s.l1d[c][l].state \in {MODIFIED, EXCLUSIVE} =>
       \A o \in Cores \ {c} : ~holds(s.l1d[o], l) /\ ~holds(s.l1i[o], l)
  /\ \A c \in Cores : s.l1d[c][l].state = MODIFIED => ~holds(s.l1i[c], l)
  /\ \A c \in Cores : s.l1d[c][l].state = MODIFIED => s.l2[l].state = MODIFIED
  /\ \A c \in Cores : s.l1d[c][l].state = SHARED => s.l2[l].state = SHARED
  /\ \A c \in Cores : holds(s.l1i[c], l) => s.l2[l].state \in {EXCLUSIVE, SHARED}
  /\ s.l2[l].state = SHARED => s.l2[l].d \cup s.l2[l].i # {}

\* Clean copies of line l carry the bytes of the L2.
DataOK(s, l) ==
  \A c \in Cores :
    /\ s.l1d[c][l].state \in {EXCLUSIVE, SHARED} => s.l1d[c][l].data = s.l2[l].data
    /\ holds(s.l1i[c], l) => s.l1i[c][l].data = s.l2[l].data

LineOK(s, l) == DirectoryOK(s, l) /\ StatesOK(s, l) /\ DataOK(s, l)

Coherent(s) == s \in Hierarchy /\ \A l \in Lines : LineOK(s, l)

\* The caches hold line l in t as they do in s.
SameLine(s, t, l) ==
  /\ \A c \in Cores : t.l1d[c][l] = s.l1d[c][l] /\ t.l1i[c][l] = s.l1i[c][l]
  /\ t.l2[l] = s.l2[l]

(***************************************************************************)
(* A line nobody touches stays as good as it was.                          *)
(***************************************************************************)
LEMMA SameLineOK ==
  ASSUME NEW s, NEW t, NEW l, SameLine(s, t, l), LineOK(s, l)
  PROVE  LineOK(t, l)
BY DEF SameLine, LineOK, DirectoryOK, StatesOK, DataOK, holds

LEMMA StatesDistinct ==
  /\ MODIFIED \in MESIState /\ EXCLUSIVE \in MESIState /\ SHARED \in MESIState
  /\ INVALID # MODIFIED /\ INVALID # EXCLUSIVE /\ INVALID # SHARED
  /\ MODIFIED # EXCLUSIVE /\ MODIFIED # SHARED /\ EXCLUSIVE # SHARED
BY DEF MESIState, INVALID, MODIFIED, EXCLUSIVE, SHARED

LEMMA AbsentLines == ZeroLine \in Data /\ NoL1Line \in L1Line /\ NoL2Line \in L2Line
BY DataAssumption DEF NoL1Line, NoL2Line, L1Line, L2Line, MESIState, Data, ZeroLine

(***************************************************************************)
(* What the L2 primitives do to one L2 line.                               *)
(***************************************************************************)
LEMMA LastSharerGone ==
  ASSUME NEW e \in L2Line
  PROVE  LET r == last_sharer_gone(e)
         IN  /\ r \in L2Line
             /\ r.d = e.d /\ r.i = e.i /\ r.data = e.data
             /\ r.state = IF e.d = {} /\ e.i = {} /\ e.state = SHARED
                            THEN EXCLUSIVE ELSE e.state
BY DEF last_sharer_gone, L2Line, MESIState

LEMMA ReleaseD ==
  ASSUME NEW e \in L2Line, NEW c \in Cores
  PROVE  LET r == release_d(e, c)
         IN  /\ r \in L2Line
             /\ r.d = e.d \ {c} /\ r.i = e.i /\ r.data = e.data
             /\ r.state = IF e.d \ {c} = {} /\ e.i = {} /\ e.state = SHARED
                            THEN EXCLUSIVE ELSE e.state
PROOF
<1> DEFINE f == [e EXCEPT !.d = @ \ {c}]
<1>1. f \in L2Line /\ f.d = e.d \ {c} /\ f.i = e.i /\ f.data = e.data /\ f.state = e.state
  BY DEF L2Line
<1>2. release_d(e, c) = last_sharer_gone(f)
  BY DEF release_d
<1> HIDE DEF f
<1>3. QED
  BY <1>1, <1>2, LastSharerGone

LEMMA ReleaseI ==
  ASSUME NEW e \in L2Line, NEW c \in Cores
  PROVE  LET r == release_i(e, c)
         IN  /\ r \in L2Line
             /\ r.d = e.d /\ r.i = e.i \ {c} /\ r.data = e.data
             /\ r.state = IF e.d = {} /\ e.i \ {c} = {} /\ e.state = SHARED
                            THEN EXCLUSIVE ELSE e.state
PROOF
<1> DEFINE f == [e EXCEPT !.i = @ \ {c}]
<1>1. f \in L2Line /\ f.d = e.d /\ f.i = e.i \ {c} /\ f.data = e.data /\ f.state = e.state
  BY DEF L2Line
<1>2. release_i(e, c) = last_sharer_gone(f)
  BY DEF release_i
<1> HIDE DEF f
<1>3. QED
  BY <1>1, <1>2, LastSharerGone

LEMMA WriteWay ==
  ASSUME NEW e \in L2Line, NEW c \in Cores, NEW line \in Data
  PROVE  LET r == l2_cache_write_way(e, c, line)
         IN  /\ r \in L2Line
             /\ r.d = e.d \ {c} /\ r.i = e.i /\ r.data = line
             /\ r.state = MODIFIED
BY DEF l2_cache_write_way, L2Line, MESIState

(***************************************************************************)
(* evict_l1<false>.                                                        *)
(***************************************************************************)
LEMMA EvictL1DEffect ==
  ASSUME NEW s \in Hierarchy, NEW c \in Cores, NEW V \in SUBSET Lines,
         \A l \in V : s.l2[l].state # INVALID
  PROVE  LET t == evict_l1_d(s, c, V)
         IN  /\ t \in Hierarchy
             /\ t.abort = s.abort
             /\ t.mem = s.mem
             /\ \A l \in Lines \ V : SameLine(s, t, l)
             /\ \A l \in V, o \in Cores : t.l1i[o][l] = s.l1i[o][l]
             /\ \A l \in V, o \in Cores \ {c} : t.l1d[o][l] = s.l1d[o][l]
             /\ \A l \in V : t.l1d[c][l] = NoL1Line
             /\ \A l \in V : t.l2[l] =
                  IF s.l1d[c][l].state = MODIFIED
                   THEN l2_cache_write_way(s.l2[l], c, s.l1d[c][l].data)
                   ELSE release_d(s.l2[l], c)
PROOF
<1> DEFINE new_l1d == [s.l1d EXCEPT ![c] =
                        [l \in Lines |-> IF l \in V THEN NoL1Line ELSE s.l1d[c][l]]]
           new_l2 == [l \in Lines |->
                 IF l \notin V THEN s.l2[l]
                 ELSE IF s.l1d[c][l].state = MODIFIED
                   THEN l2_cache_write_way(s.l2[l], c, s.l1d[c][l].data)
                   ELSE release_d(s.l2[l], c)]
           t == [s EXCEPT !.l1d = new_l1d, !.l2 = new_l2]
<1>1. evict_l1_d(s, c, V) = t
  BY DEF evict_l1_d, abort_if
<1>2. new_l1d \in [Cores -> [Lines -> L1Line]]
  BY AbsentLines DEF Hierarchy
<1>3. new_l2 \in [Lines -> L2Line]
  <2>1. ASSUME NEW l \in Lines PROVE new_l2[l] \in L2Line
    <3>1. s.l2[l] \in L2Line /\ s.l1d[c][l].data \in Data
      BY DEF Hierarchy, L1Line
    <3>2. QED
      BY <3>1, ReleaseD, WriteWay
  <2>2. QED
    BY <2>1
<1>4. t \in Hierarchy /\ t.abort = s.abort /\ t.mem = s.mem /\ t.l1i = s.l1i
       /\ t.l1d = new_l1d /\ t.l2 = new_l2
  BY <1>2, <1>3 DEF Hierarchy
<1> HIDE DEF t
<1>5. QED
  BY <1>1, <1>4 DEF SameLine, Hierarchy

LEMMA EvictL1DOK ==
  ASSUME NEW s \in Hierarchy, NEW c \in Cores, NEW V \in SUBSET Lines,
         \A l \in V : LineOK(s, l) /\ holds(s.l1d[c], l)
  PROVE  LET t == evict_l1_d(s, c, V)
         IN  /\ t \in Hierarchy /\ t.abort = s.abort /\ t.mem = s.mem
             /\ \A l \in V : LineOK(t, l)
             /\ \A l \in Lines \ V : SameLine(s, t, l)
PROOF
<1> DEFINE t == evict_l1_d(s, c, V)
<1>1. \A l \in V : l \in Lines /\ s.l2[l].state # INVALID
  BY DEF LineOK, DirectoryOK
<1>2. /\ t \in Hierarchy
      /\ t.abort = s.abort /\ t.mem = s.mem
      /\ \A l \in Lines \ V : SameLine(s, t, l)
      /\ \A l \in V, o \in Cores : t.l1i[o][l] = s.l1i[o][l]
      /\ \A l \in V, o \in Cores \ {c} : t.l1d[o][l] = s.l1d[o][l]
      /\ \A l \in V : t.l1d[c][l] = NoL1Line
      /\ \A l \in V : t.l2[l] =
           IF s.l1d[c][l].state = MODIFIED
             THEN l2_cache_write_way(s.l2[l], c, s.l1d[c][l].data)
             ELSE release_d(s.l2[l], c)
  BY <1>1, EvictL1DEffect
<1> HIDE DEF t
<1>3. ASSUME NEW l \in V PROVE LineOK(t, l)
  <2>1. LineOK(s, l) /\ s.l2[l] \in L2Line /\ s.l1d[c][l].data \in Data
    BY DEF Hierarchy, L1Line
  <2>2. holds(s.l1d[c], l) /\ ~holds(t.l1d[c], l)
    BY <1>2 DEF holds, NoL1Line
  <2>3. CASE s.l1d[c][l].state = MODIFIED
    <3>1. /\ t.l2[l].d = s.l2[l].d \ {c} /\ t.l2[l].i = s.l2[l].i
          /\ t.l2[l].state = MODIFIED
      BY <1>2, <2>1, <2>3, WriteWay
    <3>2. \A o \in Cores \ {c} : ~holds(t.l1d[o], l) /\ ~holds(t.l1i[o], l)
      BY <1>2, <2>1, <2>3 DEF LineOK, StatesOK, holds
    <3>3. ~holds(t.l1i[c], l)
      BY <1>2, <2>1, <2>3 DEF LineOK, StatesOK, holds
    <3>4. t.l2[l].d = {} /\ t.l2[l].i = {}
      BY <3>1, <1>2, <2>1, <2>3 DEF LineOK, StatesOK, DirectoryOK, L2Line
    <3>5. QED
      BY <2>2, <3>1, <3>2, <3>3, <3>4, StatesDistinct
         DEF LineOK, DirectoryOK, StatesOK, DataOK, holds
  <2>4. CASE s.l1d[c][l].state # MODIFIED
    <3>1. /\ t.l2[l].d = s.l2[l].d \ {c} /\ t.l2[l].i = s.l2[l].i
          /\ t.l2[l].data = s.l2[l].data
          /\ t.l2[l].state = IF s.l2[l].d \ {c} = {} /\ s.l2[l].i = {} /\ s.l2[l].state = SHARED
                               THEN EXCLUSIVE ELSE s.l2[l].state
      BY <1>2, <2>1, <2>4, ReleaseD
    <3>2. DirectoryOK(t, l)
      BY <1>2, <2>1, <2>2, <3>1, StatesDistinct DEF LineOK, DirectoryOK, holds
    <3>3. StatesOK(t, l)
      BY <1>2, <2>1, <2>2, <3>1, StatesDistinct
         DEF LineOK, DirectoryOK, StatesOK, holds, L2Line
    <3>4. DataOK(t, l)
      BY <1>2, <2>1, <2>2, <3>1, StatesDistinct DEF LineOK, DataOK, holds
    <3>5. QED
      BY <3>2, <3>3, <3>4 DEF LineOK
  <2>5. QED
    BY <2>3, <2>4
<1>4. QED
  BY <1>2, <1>3 DEF t

(***************************************************************************)
(* evict_l1<true>.                                                         *)
(***************************************************************************)
LEMMA EvictL1IEffect ==
  ASSUME NEW s \in Hierarchy, NEW c \in Cores, NEW V \in SUBSET Lines,
         \A l \in V : s.l2[l].state # INVALID
  PROVE  LET t == evict_l1_i(s, c, V)
         IN  /\ t \in Hierarchy
             /\ t.abort = s.abort
             /\ t.mem = s.mem
             /\ \A l \in Lines \ V : SameLine(s, t, l)
             /\ \A l \in V, o \in Cores : t.l1d[o][l] = s.l1d[o][l]
             /\ \A l \in V, o \in Cores \ {c} : t.l1i[o][l] = s.l1i[o][l]
             /\ \A l \in V : t.l1i[c][l] = NoL1Line
             /\ \A l \in V : t.l2[l] = release_i(s.l2[l], c)
PROOF
<1> DEFINE new_l1i == [s.l1i EXCEPT ![c] =
                        [l \in Lines |-> IF l \in V THEN NoL1Line ELSE s.l1i[c][l]]]
           new_l2 == [l \in Lines |-> IF l \in V THEN release_i(s.l2[l], c)
                                                 ELSE s.l2[l]]
           t == [s EXCEPT !.l1i = new_l1i, !.l2 = new_l2]
<1>1. evict_l1_i(s, c, V) = t
  BY DEF evict_l1_i, abort_if
<1>2. new_l1i \in [Cores -> [Lines -> L1Line]]
  BY AbsentLines DEF Hierarchy
<1>3. new_l2 \in [Lines -> L2Line]
  <2>1. ASSUME NEW l \in Lines PROVE new_l2[l] \in L2Line
    BY ReleaseI DEF Hierarchy
  <2>2. QED
    BY <2>1
<1>4. t \in Hierarchy /\ t.abort = s.abort /\ t.mem = s.mem /\ t.l1d = s.l1d
       /\ t.l1i = new_l1i /\ t.l2 = new_l2
  BY <1>2, <1>3 DEF Hierarchy
<1> HIDE DEF t
<1>5. QED
  BY <1>1, <1>4 DEF SameLine, Hierarchy

LEMMA EvictL1IOK ==
  ASSUME NEW s \in Hierarchy, NEW c \in Cores, NEW V \in SUBSET Lines,
         \A l \in V : LineOK(s, l) /\ holds(s.l1i[c], l)
  PROVE  LET t == evict_l1_i(s, c, V)
         IN  /\ t \in Hierarchy /\ t.abort = s.abort /\ t.mem = s.mem
             /\ \A l \in V : LineOK(t, l)
             /\ \A l \in Lines \ V : SameLine(s, t, l)
PROOF
<1> DEFINE t == evict_l1_i(s, c, V)
<1>1. \A l \in V : l \in Lines /\ s.l2[l].state # INVALID
  BY DEF LineOK, DirectoryOK
<1>2. /\ t \in Hierarchy
      /\ t.abort = s.abort /\ t.mem = s.mem
      /\ \A l \in Lines \ V : SameLine(s, t, l)
      /\ \A l \in V, o \in Cores : t.l1d[o][l] = s.l1d[o][l]
      /\ \A l \in V, o \in Cores \ {c} : t.l1i[o][l] = s.l1i[o][l]
      /\ \A l \in V : t.l1i[c][l] = NoL1Line
      /\ \A l \in V : t.l2[l] = release_i(s.l2[l], c)
  BY <1>1, EvictL1IEffect
<1> HIDE DEF t
<1>3. ASSUME NEW l \in V PROVE LineOK(t, l)
  <2>1. LineOK(s, l) /\ s.l2[l] \in L2Line
    BY DEF Hierarchy
  <2>2. holds(s.l1i[c], l) /\ ~holds(t.l1i[c], l)
    BY <1>2 DEF holds, NoL1Line
  <2>3. /\ t.l2[l].d = s.l2[l].d /\ t.l2[l].i = s.l2[l].i \ {c}
        /\ t.l2[l].data = s.l2[l].data
        /\ t.l2[l].state = IF s.l2[l].d = {} /\ s.l2[l].i \ {c} = {} /\ s.l2[l].state = SHARED
                             THEN EXCLUSIVE ELSE s.l2[l].state
    BY <1>2, <2>1, ReleaseI
  <2>4. DirectoryOK(t, l)
    BY <1>2, <2>1, <2>2, <2>3, StatesDistinct DEF LineOK, DirectoryOK, holds
  <2>5. StatesOK(t, l)
    BY <1>2, <2>1, <2>2, <2>3, StatesDistinct
       DEF LineOK, DirectoryOK, StatesOK, holds, L2Line
  <2>6. DataOK(t, l)
    BY <1>2, <2>1, <2>2, <2>3, StatesDistinct DEF LineOK, DataOK, holds
  <2>7. QED
    BY <2>4, <2>5, <2>6 DEF LineOK
<1>4. QED
  BY <1>2, <1>3 DEF t

(***************************************************************************)
(* The bytes a snoop collects.                                             *)
(***************************************************************************)
LEMMA SnoopedData ==
  ASSUME NEW s \in Hierarchy, NEW sharers \in SUBSET Cores, NEW l \in Lines
  PROVE  /\ snooped_data(s, sharers, l) \in Data
         /\ (\A c \in sharers : s.l1d[c][l].state # MODIFIED) =>
              snooped_data(s, sharers, l) = s.l2[l].data
         /\ \A c \in sharers :
              s.l1d[c][l].state = MODIFIED
              /\ (\A o \in sharers \ {c} : s.l1d[o][l].state # MODIFIED)
              => snooped_data(s, sharers, l) = s.l1d[c][l].data
PROOF
<1> DEFINE owners == {c \in sharers : s.l1d[c][l].state = MODIFIED}
           owner == CHOOSE c \in owners : TRUE
<1>1. snooped_data(s, sharers, l) = IF owners = {} THEN s.l2[l].data ELSE s.l1d[owner][l].data
  BY DEF snooped_data
<1>2. owners # {} => owner \in owners
  OBVIOUS
<1>3. s.l2[l].data \in Data /\ \A c \in Cores : s.l1d[c][l].data \in Data
  BY DEF Hierarchy, L1Line, L2Line
<1>4. owners # {} => owner \in sharers /\ s.l1d[owner][l].state = MODIFIED
  BY <1>2
<1> HIDE DEF owner
<1>5. QED
  BY <1>1, <1>3, <1>4

\* The data sharers' common view of a line is what a snoop of all of them
\* collects; with an instruction sharer around it is the L2's bytes.
LEMMA SnoopedIsCommon ==
  ASSUME NEW s \in Hierarchy, NEW l \in Lines, LineOK(s, l)
  PROVE  LET x == snooped_data(s, s.l2[l].d, l)
         IN  /\ x \in Data
             /\ \A c \in s.l2[l].d : s.l1d[c][l].data = x
             /\ \A c \in Cores : holds(s.l1i[c], l) => s.l1i[c][l].data = x
PROOF
<1> DEFINE x == snooped_data(s, s.l2[l].d, l)
<1>1. s.l2[l].d \in SUBSET Cores /\ \A c \in Cores : s.l1d[c][l].state \in MESIState
  BY DEF Hierarchy, L2Line, L1Line
<1>2. CASE \E c \in s.l2[l].d : s.l1d[c][l].state = MODIFIED
  <2>1. PICK m \in s.l2[l].d : s.l1d[m][l].state = MODIFIED
    BY <1>2
  <2>2. \A o \in Cores \ {m} : ~holds(s.l1d[o], l) /\ ~holds(s.l1i[o], l)
    BY <1>1, <2>1 DEF LineOK, StatesOK
  <2>3. ~holds(s.l1i[m], l) /\ s.l2[l].d = {m}
    BY <1>1, <2>1, <2>2 DEF LineOK, StatesOK, DirectoryOK
  <2>4. x = s.l1d[m][l].data
    BY <1>1, <2>1, <2>3, SnoopedData
  <2>5. QED
    BY <1>1, <2>2, <2>3, <2>4, SnoopedData
<1>3. CASE \A c \in s.l2[l].d : s.l1d[c][l].state # MODIFIED
  <2>1. x = s.l2[l].data
    BY <1>1, <1>3, SnoopedData
  <2>2. \A c \in s.l2[l].d : s.l1d[c][l].state \in {EXCLUSIVE, SHARED}
    BY <1>1, <1>3 DEF LineOK, DirectoryOK, holds, MESIState
  <2>3. QED
    BY <1>1, <2>1, <2>2, SnoopedData DEF LineOK, DataOK
<1>4. QED
  BY <1>2, <1>3

LEMMA SnoopedSame ==
  ASSUME NEW s \in Hierarchy, NEW t, NEW l \in Lines, SameLine(s, t, l)
  PROVE  snooped_data(t, t.l2[l].d, l) = snooped_data(s, s.l2[l].d, l)
PROOF
<1>1. t.l2[l] = s.l2[l] /\ \A c \in s.l2[l].d : t.l1d[c][l] = s.l1d[c][l]
  BY DEF SameLine, Hierarchy, L2Line
<1>2. {c \in t.l2[l].d : t.l1d[c][l].state = MODIFIED}
        = {c \in s.l2[l].d : s.l1d[c][l].state = MODIFIED}
  BY <1>1
<1>3. ASSUME NEW S \in SUBSET s.l2[l].d, S # {}
      PROVE  t.l1d[CHOOSE c \in S : TRUE][l] = s.l1d[CHOOSE c \in S : TRUE][l]
  <2>1. (CHOOSE c \in S : TRUE) \in s.l2[l].d
    BY <1>3
  <2>2. QED
    BY <1>1, <2>1
<1> DEFINE owners == {c \in s.l2[l].d : s.l1d[c][l].state = MODIFIED}
           owners_t == {c \in t.l2[l].d : t.l1d[c][l].state = MODIFIED}
<1>4. /\ snooped_data(s, s.l2[l].d, l) =
           IF owners = {} THEN s.l2[l].data ELSE s.l1d[CHOOSE c \in owners : TRUE][l].data
      /\ snooped_data(t, t.l2[l].d, l) =
           IF owners_t = {} THEN t.l2[l].data ELSE t.l1d[CHOOSE c \in owners_t : TRUE][l].data
  BY DEF snooped_data
<1>5. owners \in SUBSET s.l2[l].d /\ owners_t = owners
  BY <1>2
<1> HIDE DEF owners, owners_t
<1>6. QED
  BY <1>1, <1>3, <1>4, <1>5

(***************************************************************************)
(* evict_l2 and the prefetch fills built on it.                            *)
(***************************************************************************)
LEMMA EvictL2Effect ==
  ASSUME NEW s, Coherent(s), NEW V \in SUBSET Lines
  PROVE  LET t == evict_l2(s, V)
         IN  /\ t \in Hierarchy
             /\ t.abort = s.abort
             /\ \A l \in Lines \ V : SameLine(s, t, l) /\ t.mem[l] = s.mem[l]
             /\ \A l \in V, c \in Cores : ~holds(t.l1d[c], l) /\ ~holds(t.l1i[c], l)
             /\ \A l \in V : t.l2[l] = NoL2Line
             /\ \A l \in V : t.mem[l] = IF l2_dirty(s, l)
                                         THEN snooped_data(s, s.l2[l].d, l)
                                         ELSE s.mem[l]
PROOF
<1> DEFINE new_l1d == [c \in Cores |-> [l \in Lines |->
                  IF l \in V /\ c \in s.l2[l].d THEN NoL1Line ELSE s.l1d[c][l]]]
           new_l1i == [c \in Cores |-> [l \in Lines |->
                  IF l \in V /\ c \in s.l2[l].i THEN NoL1Line ELSE s.l1i[c][l]]]
           new_mem == [l \in Lines |->
                  IF l \in V /\ l2_dirty(s, l)
                    THEN snooped_data(s, s.l2[l].d, l) ELSE s.mem[l]]
           new_l2 == [l \in Lines |-> IF l \in V THEN NoL2Line ELSE s.l2[l]]
           t == [s EXCEPT !.l1d = new_l1d, !.l1i = new_l1i, !.mem = new_mem, !.l2 = new_l2]
<1>1. s \in Hierarchy /\ \A l \in Lines : DirectoryOK(s, l) /\ s.l2[l] \in L2Line
  BY DEF Coherent, LineOK, Hierarchy
<1>2. \A l \in V : /\ \A c \in s.l2[l].d : holds(s.l1d[c], l)
                   /\ \A c \in s.l2[l].i : holds(s.l1i[c], l)
  BY <1>1 DEF DirectoryOK, L2Line
<1>3. evict_l2(s, V) = t
  BY <1>2 DEF evict_l2, abort_if
<1>4. new_l1d \in [Cores -> [Lines -> L1Line]] /\ new_l1i \in [Cores -> [Lines -> L1Line]]
  BY <1>1, AbsentLines DEF Hierarchy
<1>5. new_l2 \in [Lines -> L2Line]
  BY <1>1, AbsentLines
<1>6. new_mem \in [Lines -> Data]
  <2>1. ASSUME NEW l \in Lines PROVE snooped_data(s, s.l2[l].d, l) \in Data
    BY <1>1, SnoopedData DEF L2Line
  <2>2. QED
    BY <1>1, <2>1 DEF Hierarchy
<1>7. t \in Hierarchy /\ t.abort = s.abort /\ t.l1d = new_l1d /\ t.l1i = new_l1i
       /\ t.mem = new_mem /\ t.l2 = new_l2
  BY <1>1, <1>4, <1>5, <1>6 DEF Hierarchy
<1> HIDE DEF t
<1>8. ASSUME NEW l \in V, NEW c \in Cores
      PROVE  ~holds(t.l1d[c], l) /\ ~holds(t.l1i[c], l)
  BY <1>1, <1>7 DEF DirectoryOK, holds, NoL1Line
<1>9. QED
  BY <1>3, <1>7, <1>8 DEF SameLine

LEMMA AbsentLineOK ==
  ASSUME NEW s \in Hierarchy, NEW l \in Lines,
         \A c \in Cores : ~holds(s.l1d[c], l) /\ ~holds(s.l1i[c], l),
         s.l2[l].d = {}, s.l2[l].i = {}, s.l2[l].state # SHARED
  PROVE  LineOK(s, l)
BY StatesDistinct DEF LineOK, DirectoryOK, StatesOK, DataOK, holds

LEMMA EvictL2OK ==
  ASSUME NEW s, Coherent(s), NEW V \in SUBSET Lines
  PROVE  LET t == evict_l2(s, V)
         IN  Coherent(t) /\ t.abort = s.abort
PROOF
<1> DEFINE t == evict_l2(s, V)
<1>1. /\ t \in Hierarchy /\ t.abort = s.abort
      /\ \A l \in Lines \ V : SameLine(s, t, l)
      /\ \A l \in V, c \in Cores : ~holds(t.l1d[c], l) /\ ~holds(t.l1i[c], l)
      /\ \A l \in V : t.l2[l] = NoL2Line
  BY EvictL2Effect
<1> HIDE DEF t
<1>2. ASSUME NEW l \in Lines PROVE LineOK(t, l)
  <2>1. CASE l \notin V
    BY <1>1, <2>1, SameLineOK DEF Coherent
  <2>2. CASE l \in V
    <3>1. t.l2[l].d = {} /\ t.l2[l].i = {} /\ t.l2[l].state # SHARED
      BY <1>1, <2>2, StatesDistinct DEF NoL2Line
    <3>2. QED
      BY <1>1, <2>2, <3>1, AbsentLineOK
  <2>3. QED
    BY <2>1, <2>2
<1>3. QED
  BY <1>1, <1>2 DEF Coherent, t

LEMMA PrefetchFillOK ==
  ASSUME NEW s, Coherent(s), NEW fills \in SUBSET Lines, NEW V \in SUBSET Lines,
         \A l \in fills : s.l2[l].state = INVALID
  PROVE  LET t == pf_fill_l2(s, fills, V)
         IN  /\ Coherent(t) /\ t.abort = s.abort
             /\ \A l \in Lines \ (fills \cup V) : SameLine(s, t, l)
PROOF
<1> DEFINE e == evict_l2(s, V)
           new_l2 == [l \in Lines |->
             IF l \in fills
               THEN [state |-> EXCLUSIVE, d |-> {}, i |-> {}, data |-> e.mem[l]]
               ELSE e.l2[l]]
           t == [e EXCEPT !.l2 = new_l2]
<1>1. /\ Coherent(e) /\ e \in Hierarchy /\ e.abort = s.abort
      /\ \A l \in Lines \ V : SameLine(s, e, l)
      /\ \A l \in V : e.l2[l] = NoL2Line
  BY EvictL2Effect, EvictL2OK
<1>2. pf_fill_l2(s, fills, V) = t
  BY DEF pf_fill_l2
<1> HIDE DEF e
<1>3. new_l2 \in [Lines -> L2Line]
  BY <1>1 DEF Hierarchy, L2Line, MESIState
<1>4. t \in Hierarchy /\ t.abort = e.abort /\ t.l1d = e.l1d /\ t.l1i = e.l1i
       /\ t.l2 = new_l2
  BY <1>1, <1>3 DEF Hierarchy
<1> HIDE DEF t
<1>5. ASSUME NEW l \in Lines PROVE LineOK(t, l)
  <2>1. CASE l \notin fills
    <3>1. SameLine(e, t, l)
      BY <1>4, <2>1 DEF SameLine
    <3>2. QED
      BY <1>1, <3>1, SameLineOK DEF Coherent
  <2>2. CASE l \in fills
    <3>1. e.l2[l].state = INVALID
      BY <1>1, <2>2 DEF SameLine, NoL2Line
    <3>2. \A c \in Cores : ~holds(t.l1d[c], l) /\ ~holds(t.l1i[c], l)
      BY <1>1, <1>4, <3>1 DEF Coherent, LineOK, DirectoryOK, holds
    <3>3. t.l2[l].d = {} /\ t.l2[l].i = {} /\ t.l2[l].state # SHARED
      BY <1>4, <2>2, StatesDistinct
    <3>4. QED
      BY <1>4, <3>2, <3>3, AbsentLineOK
  <2>3. QED
    BY <2>1, <2>2
<1>6. ASSUME NEW l \in Lines \ (fills \cup V) PROVE SameLine(s, t, l)
  BY <1>1, <1>4, <1>6 DEF SameLine
<1>7. QED
  BY <1>1, <1>2, <1>4, <1>5, <1>6 DEF Coherent

(***************************************************************************)
(* The snoops and the fills, as effects on line l and on the other lines.  *)
(***************************************************************************)
LEMMA SnoopDowngradeEffect ==
  ASSUME NEW s \in Hierarchy, NEW sharers \in SUBSET Cores, NEW l \in Lines
  PROVE  LET t == snoop_downgrade_peers(s, sharers, l)
         IN  /\ t \in Hierarchy
             /\ t.abort = s.abort /\ t.mem = s.mem /\ t.l1i = s.l1i
             /\ \A k \in Lines \ {l} : SameLine(s, t, k)
             /\ t.l2[l].state = SHARED /\ t.l2[l].d = s.l2[l].d
             /\ t.l2[l].i = s.l2[l].i /\ t.l2[l].data = snooped_data(s, sharers, l)
             /\ \A c \in sharers : holds(s.l1d[c], l) =>
                  t.l1d[c][l].state = SHARED /\ t.l1d[c][l].data = s.l1d[c][l].data
             /\ \A c \in Cores : c \notin sharers \/ ~holds(s.l1d[c], l) =>
                  t.l1d[c][l] = s.l1d[c][l]
PROOF
<1> DEFINE new_line == [state |-> SHARED, d |-> s.l2[l].d, i |-> s.l2[l].i,
                        data |-> snooped_data(s, sharers, l)]
           new_l2 == [s.l2 EXCEPT ![l] = new_line]
           new_l1d == [c \in Cores |->
                IF c \in sharers /\ holds(s.l1d[c], l)
                  THEN [s.l1d[c] EXCEPT ![l].state = SHARED]
                  ELSE s.l1d[c]]
           t == [s EXCEPT !.l2 = new_l2, !.l1d = new_l1d]
<1>1. new_line \in L2Line
  BY SnoopedData DEF Hierarchy, L2Line, MESIState
<1>2. new_l2 = [s.l2 EXCEPT ![l].state = SHARED, ![l].data = snooped_data(s, sharers, l)]
  BY DEF Hierarchy, L2Line
<1>3. snoop_downgrade_peers(s, sharers, l) = t
  BY <1>2 DEF snoop_downgrade_peers, Hierarchy
<1>4. new_l2 \in [Lines -> L2Line]
  BY <1>1 DEF Hierarchy
<1>5. \A c \in Cores : [s.l1d[c] EXCEPT ![l].state = SHARED]
          = [s.l1d[c] EXCEPT ![l] = [state |-> SHARED, data |-> s.l1d[c][l].data]]
  <2>1. ASSUME NEW x \in L1Line
        PROVE  [x EXCEPT !.state = SHARED] = [state |-> SHARED, data |-> x.data]
    BY DEF L1Line
  <2>2. \A c \in Cores : s.l1d[c] \in [Lines -> L1Line] /\ s.l1d[c][l] \in L1Line
    BY DEF Hierarchy
  <2>3. QED
    BY <2>1, <2>2
<1>6. new_l1d \in [Cores -> [Lines -> L1Line]]
  <2>1. ASSUME NEW c \in Cores
        PROVE  [s.l1d[c] EXCEPT ![l] = [state |-> SHARED, data |-> s.l1d[c][l].data]]
                 \in [Lines -> L1Line]
    BY DEF Hierarchy, L1Line, MESIState
  <2>2. \A c \in Cores : s.l1d[c] \in [Lines -> L1Line]
    BY DEF Hierarchy
  <2>3. QED
    BY <1>5, <2>1, <2>2
<1>7. t \in Hierarchy /\ t.abort = s.abort /\ t.mem = s.mem /\ t.l1i = s.l1i
       /\ t.l1d = new_l1d /\ t.l2 = new_l2
  BY <1>4, <1>6 DEF Hierarchy
<1> HIDE DEF t, new_line
<1>8. ASSUME NEW k \in Lines \ {l} PROVE SameLine(s, t, k)
  BY <1>7, <1>5 DEF SameLine, Hierarchy
<1>9. ASSUME NEW c \in Cores
      PROVE  /\ c \in sharers /\ holds(s.l1d[c], l) =>
                  t.l1d[c][l].state = SHARED /\ t.l1d[c][l].data = s.l1d[c][l].data
             /\ c \notin sharers \/ ~holds(s.l1d[c], l) => t.l1d[c][l] = s.l1d[c][l]
  <2>1. s.l1d[c] \in [Lines -> L1Line]
    BY DEF Hierarchy
  <2>2. CASE c \in sharers /\ holds(s.l1d[c], l)
    <3>1. t.l1d[c] = [s.l1d[c] EXCEPT ![l] = [state |-> SHARED, data |-> s.l1d[c][l].data]]
      BY <1>7, <1>5, <2>2
    <3>2. QED
      BY <2>1, <2>2, <3>1
  <2>3. CASE ~(c \in sharers /\ holds(s.l1d[c], l))
    BY <1>7, <2>3
  <2>4. QED
    BY <2>2, <2>3
<1>10. t.l2[l] = new_line
  BY <1>7 DEF Hierarchy
<1>11. /\ t.l2[l].state = SHARED /\ t.l2[l].d = s.l2[l].d
       /\ t.l2[l].i = s.l2[l].i /\ t.l2[l].data = snooped_data(s, sharers, l)
  BY <1>10 DEF new_line
<1>12. /\ \A c \in sharers : holds(s.l1d[c], l) =>
            t.l1d[c][l].state = SHARED /\ t.l1d[c][l].data = s.l1d[c][l].data
       /\ \A c \in Cores : c \notin sharers \/ ~holds(s.l1d[c], l) =>
            t.l1d[c][l] = s.l1d[c][l]
  BY <1>9
<1>13. QED
  BY <1>3, <1>7, <1>8, <1>11, <1>12

\* What t is after the sharers lost their L1D copies of line l in s.
LosesDataCopies(s, t, sharers, l) ==
  /\ t \in Hierarchy
  /\ t.abort = s.abort /\ t.mem = s.mem /\ t.l1i = s.l1i
  /\ \A k \in Lines \ {l} : SameLine(s, t, k)
  /\ t.l2[l].state = s.l2[l].state
  /\ t.l2[l].i = s.l2[l].i /\ t.l2[l].data = s.l2[l].data
  /\ \A c \in sharers : t.l1d[c][l] = NoL1Line
  /\ \A c \in Cores : c \in sharers \/ t.l1d[c][l] = s.l1d[c][l]

LEMMA SnoopInvalidateEffect ==
  ASSUME NEW s \in Hierarchy, NEW sharers \in SUBSET Cores, NEW l \in Lines
  PROVE  LosesDataCopies(s, snoop_invalidate_peers(s, sharers, l), sharers, l)
PROOF
<1> DEFINE new_line == [state |-> s.l2[l].state, d |-> s.l2[l].d \ sharers,
                        i |-> s.l2[l].i, data |-> s.l2[l].data]
           new_l2 == [s.l2 EXCEPT ![l] = new_line]
           new_l1d == [c \in Cores |->
                IF c \in sharers THEN [s.l1d[c] EXCEPT ![l] = NoL1Line] ELSE s.l1d[c]]
           t == [s EXCEPT !.l2 = new_l2, !.l1d = new_l1d]
<1>1. new_line \in L2Line
  BY DEF Hierarchy, L2Line
<1>2. new_l2 = [s.l2 EXCEPT ![l].d = @ \ sharers]
  BY DEF Hierarchy, L2Line
<1>3. snoop_invalidate_peers(s, sharers, l) = t
  BY <1>2 DEF snoop_invalidate_peers, Hierarchy
<1>4. new_l2 \in [Lines -> L2Line]
  BY <1>1 DEF Hierarchy
<1>5. new_l1d \in [Cores -> [Lines -> L1Line]]
  BY AbsentLines DEF Hierarchy
<1>6. t \in Hierarchy /\ t.abort = s.abort /\ t.mem = s.mem /\ t.l1i = s.l1i
       /\ t.l1d = new_l1d /\ t.l2 = new_l2
  BY <1>4, <1>5 DEF Hierarchy
<1> HIDE DEF t, new_line
<1>7. t.l2[l] = new_line
  BY <1>6 DEF Hierarchy
<1>8. QED
  <2>1. LosesDataCopies(s, t, sharers, l)
    BY <1>6, <1>7 DEF SameLine, Hierarchy, new_line, LosesDataCopies
  <2>2. QED
    BY <1>3, <2>1

\* What t is after the sharers lost their L1I copies of line l in s.
LosesInstructionCopies(s, t, sharers, l) ==
  /\ t \in Hierarchy
  /\ t.abort = s.abort /\ t.mem = s.mem /\ t.l1d = s.l1d
  /\ \A k \in Lines \ {l} : SameLine(s, t, k)
  /\ t.l2[l].state = s.l2[l].state /\ t.l2[l].d = s.l2[l].d
  /\ t.l2[l].i = {} /\ t.l2[l].data = s.l2[l].data
  /\ \A c \in sharers : t.l1i[c][l] = NoL1Line
  /\ \A c \in Cores : c \in sharers \/ t.l1i[c][l] = s.l1i[c][l]

LEMMA SnoopInvalidateIEffect ==
  ASSUME NEW s \in Hierarchy, NEW sharers \in SUBSET Cores, NEW l \in Lines
  PROVE  LosesInstructionCopies(s, snoop_invalidate_peers_i(s, sharers, l), sharers, l)
PROOF
<1> DEFINE new_line == [state |-> s.l2[l].state, d |-> s.l2[l].d, i |-> {},
                        data |-> s.l2[l].data]
           new_l2 == [s.l2 EXCEPT ![l] = new_line]
           new_l1i == [c \in Cores |->
                IF c \in sharers THEN [s.l1i[c] EXCEPT ![l] = NoL1Line] ELSE s.l1i[c]]
           t == [s EXCEPT !.l2 = new_l2, !.l1i = new_l1i]
<1>1. new_line \in L2Line
  BY DEF Hierarchy, L2Line
<1>2. new_l2 = [s.l2 EXCEPT ![l].i = {}]
  BY DEF Hierarchy, L2Line
<1>3. snoop_invalidate_peers_i(s, sharers, l) = t
  BY <1>2 DEF snoop_invalidate_peers_i, Hierarchy
<1>4. new_l2 \in [Lines -> L2Line]
  BY <1>1 DEF Hierarchy
<1>5. new_l1i \in [Cores -> [Lines -> L1Line]]
  BY AbsentLines DEF Hierarchy
<1>6. t \in Hierarchy /\ t.abort = s.abort /\ t.mem = s.mem /\ t.l1d = s.l1d
       /\ t.l1i = new_l1i /\ t.l2 = new_l2
  BY <1>4, <1>5 DEF Hierarchy
<1> HIDE DEF t, new_line
<1>7. t.l2[l] = new_line
  BY <1>6 DEF Hierarchy
<1>8. QED
  <2>1. LosesInstructionCopies(s, t, sharers, l)
    BY <1>6, <1>7 DEF SameLine, Hierarchy, new_line, LosesInstructionCopies
  <2>2. QED
    BY <1>3, <2>1

LEMMA L1DFillEffect ==
  ASSUME NEW s \in Hierarchy, NEW c \in Cores, NEW l \in Lines,
         NEW line \in Data, NEW state \in MESIState
  PROVE  LET t == l1d_fill(s, c, l, line, state)
         IN  /\ t \in Hierarchy
             /\ t.abort = s.abort /\ t.mem = s.mem /\ t.l1i = s.l1i /\ t.l2 = s.l2
             /\ \A k \in Lines \ {l} : SameLine(s, t, k)
             /\ t.l1d[c][l].state = state /\ t.l1d[c][l].data = line
             /\ \A o \in Cores \ {c} : t.l1d[o][l] = s.l1d[o][l]
PROOF
<1> DEFINE new_l1d == [s.l1d EXCEPT ![c] =
                        [s.l1d[c] EXCEPT ![l] = [state |-> state, data |-> line]]]
           t == [s EXCEPT !.l1d = new_l1d]
<1>1. l1d_fill(s, c, l, line, state) = t
  BY DEF l1d_fill, Hierarchy
<1>2. new_l1d \in [Cores -> [Lines -> L1Line]]
  BY DEF Hierarchy, L1Line
<1>3. t \in Hierarchy /\ t.abort = s.abort /\ t.mem = s.mem /\ t.l1i = s.l1i
       /\ t.l2 = s.l2 /\ t.l1d = new_l1d
  BY <1>2 DEF Hierarchy
<1> HIDE DEF t
<1>4. QED
  BY <1>1, <1>3 DEF SameLine, Hierarchy

LEMMA L1IFillEffect ==
  ASSUME NEW s \in Hierarchy, NEW c \in Cores, NEW l \in Lines, NEW line \in Data
  PROVE  LET t == l1i_fill(s, c, l, line)
         IN  /\ t \in Hierarchy
             /\ t.abort = s.abort /\ t.mem = s.mem /\ t.l1d = s.l1d /\ t.l2 = s.l2
             /\ \A k \in Lines \ {l} : SameLine(s, t, k)
             /\ t.l1i[c][l].state = SHARED /\ t.l1i[c][l].data = line
             /\ \A o \in Cores \ {c} : t.l1i[o][l] = s.l1i[o][l]
PROOF
<1> DEFINE new_l1i == [s.l1i EXCEPT ![c] =
                        [s.l1i[c] EXCEPT ![l] = [state |-> SHARED, data |-> line]]]
           t == [s EXCEPT !.l1i = new_l1i]
<1>1. l1i_fill(s, c, l, line) = t
  BY DEF l1i_fill, Hierarchy
<1>2. new_l1i \in [Cores -> [Lines -> L1Line]]
  BY DEF Hierarchy, L1Line, MESIState
<1>3. t \in Hierarchy /\ t.abort = s.abort /\ t.mem = s.mem /\ t.l1d = s.l1d
       /\ t.l2 = s.l2 /\ t.l1i = new_l1i
  BY <1>2 DEF Hierarchy
<1> HIDE DEF t
<1>4. QED
  BY <1>1, <1>3 DEF SameLine, Hierarchy

LEMMA ReadWayDEffect ==
  ASSUME NEW s \in Hierarchy, NEW c \in Cores, NEW l \in Lines
  PROVE  LET t == l2_cache_read_way_d(s, c, l)
         IN  /\ t \in Hierarchy
             /\ t.abort = s.abort /\ t.mem = s.mem
             /\ t.l1d = s.l1d /\ t.l1i = s.l1i
             /\ \A k \in Lines \ {l} : SameLine(s, t, k)
             /\ t.l2[l].state = s.l2[l].state /\ t.l2[l].d = s.l2[l].d \cup {c}
             /\ t.l2[l].i = s.l2[l].i /\ t.l2[l].data = s.l2[l].data
PROOF
<1> DEFINE new_line == [state |-> s.l2[l].state, d |-> s.l2[l].d \cup {c},
                        i |-> s.l2[l].i, data |-> s.l2[l].data]
           new_l2 == [s.l2 EXCEPT ![l] = new_line]
           t == [s EXCEPT !.l2 = new_l2]
<1>1. new_line \in L2Line /\ new_l2 = [s.l2 EXCEPT ![l].d = @ \cup {c}]
  BY DEF Hierarchy, L2Line
<1>2. l2_cache_read_way_d(s, c, l) = t
  BY <1>1 DEF l2_cache_read_way_d, Hierarchy
<1> HIDE DEF new_line
<1>3. /\ t \in Hierarchy /\ t.l2 = new_l2 /\ t.abort = s.abort /\ t.mem = s.mem
      /\ t.l1d = s.l1d /\ t.l1i = s.l1i
  BY <1>1 DEF Hierarchy
<1> HIDE DEF t
<1>4. t.l2[l] = new_line /\ \A k \in Lines \ {l} : t.l2[k] = s.l2[k]
  BY <1>3 DEF Hierarchy
<1>5. QED
  BY <1>2, <1>3, <1>4 DEF SameLine, new_line

LEMMA ReadWayIEffect ==
  ASSUME NEW s \in Hierarchy, NEW c \in Cores, NEW l \in Lines
  PROVE  LET t == l2_cache_read_way_i(s, c, l)
         IN  /\ t \in Hierarchy
             /\ t.abort = s.abort /\ t.mem = s.mem
             /\ t.l1d = s.l1d /\ t.l1i = s.l1i
             /\ \A k \in Lines \ {l} : SameLine(s, t, k)
             /\ t.l2[l].state = s.l2[l].state /\ t.l2[l].d = s.l2[l].d
             /\ t.l2[l].i = s.l2[l].i \cup {c} /\ t.l2[l].data = s.l2[l].data
PROOF
<1> DEFINE new_line == [state |-> s.l2[l].state, d |-> s.l2[l].d,
                        i |-> s.l2[l].i \cup {c}, data |-> s.l2[l].data]
           new_l2 == [s.l2 EXCEPT ![l] = new_line]
           t == [s EXCEPT !.l2 = new_l2]
<1>1. new_line \in L2Line /\ new_l2 = [s.l2 EXCEPT ![l].i = @ \cup {c}]
  BY DEF Hierarchy, L2Line
<1>2. l2_cache_read_way_i(s, c, l) = t
  BY <1>1 DEF l2_cache_read_way_i, Hierarchy
<1> HIDE DEF new_line
<1>3. /\ t \in Hierarchy /\ t.l2 = new_l2 /\ t.abort = s.abort /\ t.mem = s.mem
      /\ t.l1d = s.l1d /\ t.l1i = s.l1i
  BY <1>1 DEF Hierarchy
<1> HIDE DEF t
<1>4. t.l2[l] = new_line /\ \A k \in Lines \ {l} : t.l2[k] = s.l2[k]
  BY <1>3 DEF Hierarchy
<1>5. QED
  BY <1>2, <1>3, <1>4 DEF SameLine, new_line

LEMMA OwnedByEffect ==
  ASSUME NEW s \in Hierarchy, NEW c \in Cores, NEW l \in Lines
  PROVE  LET t == l2_owned_by(s, c, l)
         IN  /\ t \in Hierarchy
             /\ t.abort = s.abort /\ t.mem = s.mem
             /\ t.l1d = s.l1d /\ t.l1i = s.l1i
             /\ \A k \in Lines \ {l} : SameLine(s, t, k)
             /\ t.l2[l].state = MODIFIED /\ t.l2[l].d = {c}
             /\ t.l2[l].i = s.l2[l].i /\ t.l2[l].data = s.l2[l].data
PROOF
<1> DEFINE new_line == [state |-> MODIFIED, d |-> {c}, i |-> s.l2[l].i,
                        data |-> s.l2[l].data]
           new_l2 == [s.l2 EXCEPT ![l] = new_line]
           t == [s EXCEPT !.l2 = new_l2]
<1>1. new_line \in L2Line /\ new_l2 = [s.l2 EXCEPT ![l].d = {c}, ![l].state = MODIFIED]
  BY DEF Hierarchy, L2Line, MESIState
<1>2. l2_owned_by(s, c, l) = t
  BY <1>1 DEF l2_owned_by, Hierarchy
<1> HIDE DEF new_line
<1>3. /\ t \in Hierarchy /\ t.l2 = new_l2 /\ t.abort = s.abort /\ t.mem = s.mem
      /\ t.l1d = s.l1d /\ t.l1i = s.l1i
  BY <1>1 DEF Hierarchy
<1> HIDE DEF t
<1>4. t.l2[l] = new_line /\ \A k \in Lines \ {l} : t.l2[k] = s.l2[k]
  BY <1>3 DEF Hierarchy
<1>5. QED
  BY <1>2, <1>3, <1>4 DEF SameLine, new_line

(***************************************************************************)
(* Composing stages: only line l still has to be looked at.                *)
(***************************************************************************)
LEMMA OneLineOK ==
  ASSUME NEW s, Coherent(s), NEW t \in Hierarchy, NEW l \in Lines, LineOK(t, l),
         \A k \in Lines \ {l} : SameLine(s, t, k)
  PROVE  Coherent(t)
BY SameLineOK DEF Coherent

LEMMA EvictL1DCoherent ==
  ASSUME NEW s, Coherent(s), NEW c \in Cores, NEW V \in SUBSET Lines,
         \A l \in V : holds(s.l1d[c], l)
  PROVE  LET t == evict_l1_d(s, c, V)
         IN  /\ Coherent(t) /\ t.abort = s.abort /\ t.mem = s.mem
             /\ \A l \in Lines \ V : SameLine(s, t, l)
BY EvictL1DOK, SameLineOK DEF Coherent

LEMMA EvictL1ICoherent ==
  ASSUME NEW s, Coherent(s), NEW c \in Cores, NEW V \in SUBSET Lines,
         \A l \in V : holds(s.l1i[c], l)
  PROVE  LET t == evict_l1_i(s, c, V)
         IN  /\ Coherent(t) /\ t.abort = s.abort /\ t.mem = s.mem
             /\ \A l \in Lines \ V : SameLine(s, t, l)
BY EvictL1IOK, SameLineOK DEF Coherent

(***************************************************************************)
(* cpu_read.                                                               *)
(***************************************************************************)
LEMMA ReadL2HitOK ==
  ASSUME NEW s, Coherent(s), NEW c \in Cores, NEW l \in Lines, NEW V \in SUBSET Lines,
         \A k \in V : holds(s.l1d[c], k),
         ~holds(s.l1d[c], l), s.l2[l].state # INVALID
  PROVE  LET r == read_l2_hit_result(s, c, l, V)
         IN  /\ Coherent(r) /\ r.abort = s.abort /\ r.mem = s.mem
             /\ \A k \in Lines \ {l} : SameLine(evict_l1_d(s, c, V), r, k)
             /\ holds(r.l1d[c], l)
             /\ r.l1d[c][l].data = snooped_data(s, s.l2[l].d, l)
PROOF
<1> DEFINE e == evict_l1_d(s, c, V)
           t == l2_cache_read_way_d(e, c, l)
           d_sharers == t.l2[l].d \ {c}
           i_sharers == t.l2[l].i \ {c}
           u == snoop_downgrade_peers(t, d_sharers, l)
           rs == l1d_fill(u, c, l, u.l2[l].data, SHARED)
           re == l1d_fill(t, c, l, t.l2[l].data, EXCLUSIVE)
<1>1. /\ Coherent(e) /\ e.abort = s.abort /\ e.mem = s.mem /\ SameLine(s, e, l)
  BY EvictL1DCoherent
<1> HIDE DEF e, t, u, rs, re
<1>0. snooped_data(e, e.l2[l].d, l) = snooped_data(s, s.l2[l].d, l)
  BY <1>1, SnoopedSame DEF Coherent
<1>2. /\ LineOK(e, l) /\ e \in Hierarchy /\ ~holds(e.l1d[c], l)
      /\ e.l2[l].state # INVALID /\ e.l2[l] \in L2Line
  BY <1>1 DEF SameLine, Coherent, holds, Hierarchy
<1>3. /\ t \in Hierarchy /\ t.abort = e.abort /\ t.l1d = e.l1d /\ t.l1i = e.l1i
      /\ t.mem = e.mem
      /\ \A k \in Lines \ {l} : SameLine(e, t, k)
      /\ t.l2[l].state = e.l2[l].state /\ t.l2[l].d = e.l2[l].d \cup {c}
      /\ t.l2[l].i = e.l2[l].i /\ t.l2[l].data = e.l2[l].data
  BY <1>2, ReadWayDEffect DEF t
<1>4. /\ d_sharers = e.l2[l].d /\ i_sharers = e.l2[l].i \ {c}
      /\ d_sharers \in SUBSET Cores /\ i_sharers \in SUBSET Cores
      /\ c \notin d_sharers
      /\ t.l2[l].data \in Data
  BY <1>2, <1>3 DEF LineOK, DirectoryOK, L2Line
<1> HIDE DEF d_sharers, i_sharers
<1>t. t \in Hierarchy /\ d_sharers \in SUBSET Cores /\ t.l2[l].data \in Data
  BY <1>3, <1>4
<1>5. CASE d_sharers \cup i_sharers # {}
  <2>1. /\ u \in Hierarchy /\ u.abort = t.abort /\ u.l1i = t.l1i /\ u.mem = t.mem
        /\ \A k \in Lines \ {l} : SameLine(t, u, k)
        /\ u.l2[l].state = SHARED /\ u.l2[l].d = t.l2[l].d
        /\ u.l2[l].i = t.l2[l].i /\ u.l2[l].data = snooped_data(t, d_sharers, l)
        /\ \A o \in d_sharers : holds(t.l1d[o], l) =>
             u.l1d[o][l].state = SHARED /\ u.l1d[o][l].data = t.l1d[o][l].data
        /\ \A o \in Cores : o \notin d_sharers \/ ~holds(t.l1d[o], l) =>
             u.l1d[o][l] = t.l1d[o][l]
    BY <1>t, SnoopDowngradeEffect DEF u
  <2>2. u.l2[l].data \in Data
    BY <2>1 DEF Hierarchy, L2Line
  <2>3. /\ rs \in Hierarchy /\ rs.abort = u.abort /\ rs.mem = u.mem /\ rs.l1i = u.l1i /\ rs.l2 = u.l2
        /\ \A k \in Lines \ {l} : SameLine(u, rs, k)
        /\ rs.l1d[c][l].state = SHARED /\ rs.l1d[c][l].data = u.l2[l].data
        /\ \A o \in Cores \ {c} : rs.l1d[o][l] = u.l1d[o][l]
    BY <2>1, <2>2, L1DFillEffect, StatesDistinct DEF rs
  <2>4. snooped_data(t, d_sharers, l) = snooped_data(e, e.l2[l].d, l)
    BY <1>3, <1>4 DEF snooped_data
  <2>5. /\ rs.l2[l].state = SHARED /\ rs.l2[l].d = e.l2[l].d \cup {c}
        /\ rs.l2[l].i = e.l2[l].i
        /\ rs.l2[l].data = snooped_data(e, e.l2[l].d, l)
        /\ rs.l1d[c][l].state = SHARED /\ rs.l1d[c][l].data = rs.l2[l].data
        /\ \A o \in Cores : rs.l1i[o][l] = e.l1i[o][l]
    BY <1>3, <2>1, <2>3, <2>4
  <2>6. \A o \in e.l2[l].d :
           /\ o \in Cores /\ o # c /\ holds(e.l1d[o], l)
           /\ rs.l1d[o][l].state = SHARED /\ rs.l1d[o][l].data = e.l1d[o][l].data
    BY <1>2, <1>3, <1>4, <2>1, <2>3 DEF LineOK, DirectoryOK
  <2>7. \A o \in Cores \ (e.l2[l].d \cup {c}) : ~holds(rs.l1d[o], l)
    <3>1. ASSUME NEW o \in Cores, o # c, o \notin e.l2[l].d
          PROVE  rs.l1d[o][l] = e.l1d[o][l]
      BY <1>3, <1>4, <2>1, <2>3, <3>1
    <3>2. QED
      BY <1>2, <3>1 DEF LineOK, DirectoryOK, holds
  <2>8. DirectoryOK(rs, l) /\ StatesOK(rs, l)
    <3>1. DirectoryOK(rs, l)
      BY <1>2, <2>5, <2>6, <2>7, StatesDistinct DEF LineOK, DirectoryOK, holds
    <3>2. \A o \in Cores : rs.l1d[o][l].state \notin {MODIFIED, EXCLUSIVE}
      BY <2>5, <2>6, <2>7, StatesDistinct DEF holds
    <3>3. QED
      BY <2>5, <3>1, <3>2, StatesDistinct DEF StatesOK
  <2>9. DataOK(rs, l)
    <3>1. /\ \A o \in e.l2[l].d : e.l1d[o][l].data = rs.l2[l].data
          /\ \A o \in Cores : holds(e.l1i[o], l) => e.l1i[o][l].data = rs.l2[l].data
      BY <1>2, <2>5, SnoopedIsCommon
    <3>2. QED
      BY <2>5, <2>6, <2>7, <3>1, StatesDistinct DEF DataOK, holds
  <2>10. \A k \in Lines \ {l} : SameLine(e, rs, k)
    BY <1>3, <2>1, <2>3 DEF SameLine
  <2>11. Coherent(rs) /\ rs.abort = s.abort
    BY <1>1, <1>3, <2>1, <2>3, <2>8, <2>9, <2>10, OneLineOK DEF LineOK
  <2>12. read_l2_hit_result(s, c, l, V) = rs
    BY <1>5 DEF read_l2_hit_result, rs, u, t, e, d_sharers, i_sharers
  <2>13. rs.mem = s.mem /\ holds(rs.l1d[c], l)
    BY <1>1, <1>3, <2>1, <2>3, StatesDistinct DEF holds
  <2>14. QED
    BY <1>0, <2>5, <2>10, <2>11, <2>12, <2>13 DEF e
<1>6. CASE d_sharers \cup i_sharers = {}
  <2>1. /\ re \in Hierarchy /\ re.abort = t.abort /\ re.mem = t.mem /\ re.l1i = t.l1i /\ re.l2 = t.l2
        /\ \A k \in Lines \ {l} : SameLine(t, re, k)
        /\ re.l1d[c][l].state = EXCLUSIVE /\ re.l1d[c][l].data = t.l2[l].data
        /\ \A o \in Cores \ {c} : re.l1d[o][l] = t.l1d[o][l]
    BY <1>3, <1>4, L1DFillEffect, StatesDistinct DEF re
  <2>2. \A o \in Cores \ {c} : ~holds(re.l1d[o], l) /\ ~holds(re.l1i[o], l)
    BY <1>2, <1>3, <1>4, <1>6, <2>1 DEF LineOK, DirectoryOK, holds
  <2>3. DirectoryOK(re, l)
    BY <1>2, <1>3, <1>4, <1>6, <2>1, <2>2, StatesDistinct DEF LineOK, DirectoryOK, holds
  <2>4. StatesOK(re, l)
    BY <1>2, <1>3, <1>4, <1>6, <2>1, <2>2, StatesDistinct DEF LineOK, StatesOK, holds
  <2>5. DataOK(re, l)
    BY <1>2, <1>3, <2>1, <2>2, StatesDistinct DEF LineOK, DataOK, holds
  <2>6. \A k \in Lines \ {l} : SameLine(e, re, k)
    BY <1>3, <2>1 DEF SameLine
  <2>7. Coherent(re) /\ re.abort = s.abort
    BY <1>1, <1>3, <2>1, <2>3, <2>4, <2>5, <2>6, OneLineOK DEF LineOK
  <2>8. read_l2_hit_result(s, c, l, V) = re
    BY <1>6 DEF read_l2_hit_result, re, t, e, d_sharers, i_sharers
  <2>9. snooped_data(e, e.l2[l].d, l) = e.l2[l].data
    BY <1>2, <1>4, <1>6, SnoopedData
  <2>10. re.mem = s.mem /\ holds(re.l1d[c], l)
    BY <1>1, <1>3, <2>1, StatesDistinct DEF holds
  <2>11. QED
    BY <1>0, <1>3, <2>1, <2>6, <2>7, <2>8, <2>9, <2>10 DEF e
<1>7. QED
  BY <1>5, <1>6

\* Filling both levels of a line the L2 lacks makes core c its only holder.
LEMMA MissFillDOK ==
  ASSUME NEW s, Coherent(s), NEW c \in Cores, NEW l \in Lines, NEW line \in Data,
         NEW state \in {MODIFIED, EXCLUSIVE}, s.l2[l].state = INVALID
  PROVE  LET r == l1d_fill(l2_cache_fill(s, l, line, state, {c}, {}), c, l, line, state)
         IN  /\ Coherent(r) /\ r.abort = s.abort /\ r.mem = s.mem
             /\ \A k \in Lines \ {l} : SameLine(s, r, k)
             /\ r.l1d[c][l].state = state /\ r.l1d[c][l].data = line
PROOF
<1> DEFINE f == l2_cache_fill(s, l, line, state, {c}, {})
           r == l1d_fill(f, c, l, line, state)
<1>1. /\ s \in Hierarchy /\ LineOK(s, l) /\ state \in MESIState
      /\ \A o \in Cores : ~holds(s.l1d[o], l) /\ ~holds(s.l1i[o], l)
  BY StatesDistinct DEF Coherent, LineOK, DirectoryOK
<1>10. s \in Hierarchy /\ state \in MESIState
  BY <1>1
<1>11. {c} \in SUBSET Cores /\ {} \in SUBSET Cores
  OBVIOUS
<1>2. /\ f \in Hierarchy /\ f.abort = s.abort /\ f.mem = s.mem
      /\ f.l1d = s.l1d /\ f.l1i = s.l1i
      /\ \A k \in Lines \ {l} : SameLine(s, f, k)
      /\ f.l2[l].state = state /\ f.l2[l].d = {c}
      /\ f.l2[l].i = {} /\ f.l2[l].data = line
  BY <1>10, <1>11 DEF l2_cache_fill, Hierarchy, L2Line, SameLine
<1> HIDE DEF f
<1>3. /\ r \in Hierarchy /\ r.abort = f.abort /\ r.mem = f.mem
      /\ r.l1i = f.l1i /\ r.l2 = f.l2
      /\ \A k \in Lines \ {l} : SameLine(f, r, k)
      /\ r.l1d[c][l].state = state /\ r.l1d[c][l].data = line
      /\ \A o \in Cores \ {c} : r.l1d[o][l] = f.l1d[o][l]
  BY <1>1, <1>2, L1DFillEffect
<1> HIDE DEF r
<1>4. holds(r.l1d[c], l) /\ \A o \in Cores : ~holds(r.l1i[o], l)
  BY <1>1, <1>2, <1>3, StatesDistinct DEF holds
<1>5. \A o \in Cores \ {c} : ~holds(r.l1d[o], l)
  BY <1>1, <1>2, <1>3 DEF holds
<1>6. /\ r.l2[l].state = state /\ r.l2[l].d = {c}
      /\ r.l2[l].i = {} /\ r.l2[l].data = line
  BY <1>2, <1>3
<1>7. LineOK(r, l)
  <2>1. DirectoryOK(r, l)
    BY <1>4, <1>5, <1>6, StatesDistinct DEF DirectoryOK
  <2>2. StatesOK(r, l)
    BY <1>3, <1>4, <1>5, <1>6, StatesDistinct DEF StatesOK, holds
  <2>3. DataOK(r, l)
    BY <1>3, <1>4, <1>5, <1>6, StatesDistinct DEF DataOK, holds
  <2>4. QED
    BY <2>1, <2>2, <2>3 DEF LineOK
<1>8. \A k \in Lines \ {l} : SameLine(s, r, k)
  BY <1>2, <1>3 DEF SameLine
<1>9. QED
  BY <1>2, <1>3, <1>7, <1>8, OneLineOK DEF f, r

LEMMA ReadMissFillOK ==
  ASSUME NEW s, Coherent(s), NEW c \in Cores, NEW l \in Lines, NEW V \in SUBSET Lines,
         \A k \in V : holds(s.l1d[c], k), s.l2[l].state = INVALID
  PROVE  LET r == read_miss_fill(s, c, l, V)
         IN  /\ Coherent(r) /\ r.abort = s.abort /\ r.mem = s.mem
             /\ \A k \in Lines \ {l} : SameLine(evict_l1_d(s, c, V), r, k)
             /\ r.l1d[c][l].state = EXCLUSIVE /\ r.l1d[c][l].data = s.mem[l]
PROOF
<1> DEFINE e == evict_l1_d(s, c, V)
<1>1. ~holds(s.l1d[c], l)
  BY DEF Coherent, LineOK, DirectoryOK
<1>2. /\ Coherent(e) /\ e.abort = s.abort /\ e.mem = s.mem
      /\ \A k \in Lines \ V : SameLine(s, e, k)
  BY EvictL1DCoherent
<1> HIDE DEF e
<1>3. e.l2[l].state = INVALID /\ e.mem[l] \in Data
  BY <1>1, <1>2 DEF SameLine, Coherent, Hierarchy
<1> DEFINE r == l1d_fill(l2_cache_fill(e, l, e.mem[l], EXCLUSIVE, {c}, {}),
                         c, l, e.mem[l], EXCLUSIVE)
<1>4. /\ Coherent(r) /\ r.abort = e.abort /\ r.mem = e.mem
      /\ \A k \in Lines \ {l} : SameLine(e, r, k)
      /\ r.l1d[c][l].state = EXCLUSIVE /\ r.l1d[c][l].data = e.mem[l]
  BY <1>2, <1>3, MissFillDOK
<1>5. read_miss_fill(s, c, l, V) = r
  BY DEF read_miss_fill, e, r
<1> HIDE DEF r
<1>6. QED
  BY <1>2, <1>4, <1>5 DEF e

(***************************************************************************)
(* cpu_write.                                                              *)
(***************************************************************************)

\* Core c is the only holder of line l, in its L1D, and the L2 says so.
OwnedOnlyBy(s, c, l) ==
  /\ s.l1d[c][l].state = MODIFIED
  /\ \A o \in Cores \ {c} : ~holds(s.l1d[o], l)
  /\ \A o \in Cores : ~holds(s.l1i[o], l)
  /\ s.l2[l].state = MODIFIED /\ s.l2[l].d = {c} /\ s.l2[l].i = {}

LEMMA OwnedLineOK ==
  ASSUME NEW s, NEW c \in Cores, NEW l \in Lines, OwnedOnlyBy(s, c, l)
  PROVE  LineOK(s, l)
PROOF
<1>1. DirectoryOK(s, l)
  BY StatesDistinct DEF OwnedOnlyBy, DirectoryOK, holds
<1>2. StatesOK(s, l)
  BY StatesDistinct DEF OwnedOnlyBy, StatesOK, holds
<1>3. DataOK(s, l)
  BY StatesDistinct DEF OwnedOnlyBy, DataOK, holds
<1>4. QED
  BY <1>1, <1>2, <1>3 DEF LineOK

\* A line after a store of x to its word w.
Merged(line, w, x) == [line EXCEPT ![w] = x]

\* Core c holds line l MODIFIED with the given bytes.
DirtyCopy(s, c, l, line) ==
  s.l1d[c][l].state = MODIFIED /\ s.l1d[c][l].data = line

LEMMA StoredLine ==
  ASSUME NEW line \in Data, NEW w \in Words, NEW x \in Vals
  PROVE  [line EXCEPT ![w] = x] \in Data
BY DEF Data

LEMMA WriteMissFillOK ==
  ASSUME NEW s, Coherent(s), NEW c \in Cores, NEW l \in Lines, NEW V \in SUBSET Lines,
         \A k \in V : holds(s.l1d[c], k), s.l2[l].state = INVALID,
         NEW w \in Words, NEW x \in Vals
  PROVE  LET r == write_miss_fill(s, c, l, w, x, V)
         IN  /\ Coherent(r) /\ r.abort = s.abort /\ r.mem = s.mem
             /\ \A k \in Lines \ {l} : SameLine(evict_l1_d(s, c, V), r, k)
             /\ DirtyCopy(r, c, l, Merged(s.mem[l], w, x))
PROOF
<1> DEFINE line == [s.mem[l] EXCEPT ![w] = x]
           e == evict_l1_d(s, c, V)
<1>1. ~holds(s.l1d[c], l) /\ line \in Data
  BY StoredLine DEF Coherent, LineOK, DirectoryOK, Hierarchy
<1>2. /\ Coherent(e) /\ e.abort = s.abort /\ e.mem = s.mem
      /\ \A k \in Lines \ V : SameLine(s, e, k)
  BY EvictL1DCoherent
<1> HIDE DEF e, line
<1>3. e.l2[l].state = INVALID
  BY <1>1, <1>2 DEF SameLine
<1> DEFINE r == l1d_fill(l2_cache_fill(e, l, line, MODIFIED, {c}, {}),
                         c, l, line, MODIFIED)
<1>4. /\ Coherent(r) /\ r.abort = e.abort /\ r.mem = e.mem
      /\ \A k \in Lines \ {l} : SameLine(e, r, k)
      /\ r.l1d[c][l].state = MODIFIED /\ r.l1d[c][l].data = line
  BY <1>1, <1>2, <1>3, MissFillDOK
<1>5. write_miss_fill(s, c, l, w, x, V) = r
  BY DEF write_miss_fill, e, line, r
<1> HIDE DEF r
<1>6. QED
  BY <1>2, <1>4, <1>5 DEF e, line, Merged, DirtyCopy

LEMMA WriteL1HitOK ==
  ASSUME NEW s, Coherent(s), NEW c \in Cores, NEW l \in Lines,
         holds(s.l1d[c], l), NEW w \in Words, NEW x \in Vals
  PROVE  LET r == write_l1_hit_result(s, c, l, w, x)
         IN  /\ Coherent(r) /\ r.abort = s.abort /\ r.mem = s.mem
             /\ \A k \in Lines \ {l} : SameLine(s, r, k)
             /\ r.l1d[c][l].state = MODIFIED
             /\ r.l1d[c][l].data = Merged(s.l1d[c][l].data, w, x)
PROOF
<1> DEFINE others == s.l2[l].d \ {c}
           t == IF s.l1d[c][l].state = SHARED
                  THEN snoop_invalidate_peers(s, others, l) ELSE s
           i_sharers == t.l2[l].i
           u == snoop_invalidate_peers_i(t, i_sharers, l)
           o == l2_owned_by(u, c, l)
           line == [s.l1d[c][l].data EXCEPT ![w] = x]
           r == l1d_fill(o, c, l, line, MODIFIED)
<1>1. /\ s \in Hierarchy /\ LineOK(s, l) /\ s.l2[l] \in L2Line
      /\ s.l1d[c][l].state \in MESIState /\ line \in Data
      /\ others \in SUBSET Cores /\ others = s.l2[l].d \ {c}
  BY StoredLine DEF Coherent, Hierarchy, L1Line, L2Line
<1> HIDE DEF others, t, i_sharers, u, o, line, r
<1>2. /\ t \in Hierarchy /\ t.abort = s.abort /\ t.mem = s.mem /\ t.l1i = s.l1i
      /\ \A k \in Lines \ {l} : SameLine(s, t, k)
      /\ t.l2[l].i = s.l2[l].i
      /\ \A p \in Cores \ {c} : ~holds(t.l1d[p], l)
  <2>1. CASE s.l1d[c][l].state = SHARED
    <3>1. /\ t \in Hierarchy /\ t.abort = s.abort /\ t.mem = s.mem /\ t.l1i = s.l1i
          /\ \A k \in Lines \ {l} : SameLine(s, t, k)
          /\ t.l2[l].i = s.l2[l].i
          /\ \A p \in others : t.l1d[p][l] = NoL1Line
          /\ \A p \in Cores : p \in others \/ t.l1d[p][l] = s.l1d[p][l]
      <4>1. t = snoop_invalidate_peers(s, others, l)
        BY <2>1 DEF t
      <4>2. LosesDataCopies(s, t, others, l)
        BY <1>1, <4>1, SnoopInvalidateEffect
      <4>3. QED
        BY <4>2 DEF LosesDataCopies
    <3>2. ASSUME NEW p \in Cores \ {c} PROVE ~holds(t.l1d[p], l)
      BY <1>1, <3>1 DEF LineOK, DirectoryOK, holds, NoL1Line
    <3>3. QED
      BY <3>1, <3>2
  <2>2. CASE s.l1d[c][l].state # SHARED
    <3>1. s.l1d[c][l].state \in {MODIFIED, EXCLUSIVE}
      BY <1>1, <2>2 DEF holds, MESIState
    <3>2. t = s
      BY <2>2 DEF t
    <3>3. QED
      BY <1>1, <3>1, <3>2 DEF LineOK, StatesOK, SameLine
  <2>3. QED
    BY <2>1, <2>2
<1>3. i_sharers \in SUBSET Cores /\ i_sharers = s.l2[l].i
  BY <1>2 DEF Hierarchy, L2Line, i_sharers
<1>4. /\ u \in Hierarchy /\ u.abort = t.abort /\ u.mem = t.mem /\ u.l1d = t.l1d
      /\ \A k \in Lines \ {l} : SameLine(t, u, k)
      /\ u.l2[l].i = {}
      /\ \A p \in i_sharers : u.l1i[p][l] = NoL1Line
      /\ \A p \in Cores : p \in i_sharers \/ u.l1i[p][l] = t.l1i[p][l]
  <2>1. LosesInstructionCopies(t, u, i_sharers, l)
    BY <1>2, <1>3, SnoopInvalidateIEffect DEF u
  <2>2. QED
    BY <2>1 DEF LosesInstructionCopies
<1>5. \A p \in Cores : ~holds(u.l1i[p], l)
  BY <1>1, <1>2, <1>3, <1>4 DEF LineOK, DirectoryOK, holds, NoL1Line
<1>6. /\ o \in Hierarchy /\ o.abort = u.abort /\ o.mem = u.mem /\ o.l1d = u.l1d /\ o.l1i = u.l1i
      /\ \A k \in Lines \ {l} : SameLine(u, o, k)
      /\ o.l2[l].state = MODIFIED /\ o.l2[l].d = {c} /\ o.l2[l].i = u.l2[l].i
  BY <1>4, OwnedByEffect DEF o
<1>7. /\ r \in Hierarchy /\ r.abort = o.abort /\ r.mem = o.mem /\ r.l1i = o.l1i /\ r.l2 = o.l2
      /\ \A k \in Lines \ {l} : SameLine(o, r, k)
      /\ r.l1d[c][l].state = MODIFIED /\ r.l1d[c][l].data = line
      /\ \A p \in Cores \ {c} : r.l1d[p][l] = o.l1d[p][l]
  BY <1>1, <1>6, L1DFillEffect, StatesDistinct DEF r
<1>8. OwnedOnlyBy(r, c, l)
  BY <1>2, <1>4, <1>5, <1>6, <1>7 DEF OwnedOnlyBy, holds
<1>9. \A k \in Lines \ {l} : SameLine(s, r, k)
  BY <1>2, <1>4, <1>6, <1>7 DEF SameLine
<1>10. Coherent(r) /\ r.abort = s.abort /\ r.mem = s.mem
  BY <1>2, <1>4, <1>6, <1>7, <1>8, <1>9, OwnedLineOK, OneLineOK
<1>11. write_l1_hit_result(s, c, l, w, x) = r
  BY DEF write_l1_hit_result, others, t, i_sharers, u, o, line, r
<1>12. QED
  BY <1>7, <1>9, <1>10, <1>11 DEF line, Merged

\* Lines other than l are in r as after the snoop of l and evict_l1 on s.
EvictsAfterSnoop(s, r, c, l, V) ==
  LET t == snoop_invalidate_peers(s, s.l2[l].d \ {c}, l)
  IN  /\ t \in Hierarchy /\ t.mem = s.mem
      /\ \A k \in V : LineOK(t, k) /\ holds(t.l1d[c], k)
      /\ \A k \in Lines \ {l} : SameLine(s, t, k) /\ SameLine(evict_l1_d(t, c, V), r, k)

LEMMA WriteL2HitOK ==
  ASSUME NEW s, Coherent(s), NEW c \in Cores, NEW l \in Lines, NEW V \in SUBSET Lines,
         \A k \in V : holds(s.l1d[c], k), ~holds(s.l1d[c], l),
         NEW w \in Words, NEW x \in Vals
  PROVE  LET r == write_l2_hit_result(s, c, l, w, x, V)
         IN  /\ Coherent(r) /\ r.abort = s.abort /\ r.mem = s.mem
             /\ EvictsAfterSnoop(s, r, c, l, V)
             /\ r.l1d[c][l].state = MODIFIED
             /\ r.l1d[c][l].data = Merged(snooped_data(s, s.l2[l].d, l), w, x)
PROOF
<1> DEFINE others == s.l2[l].d \ {c}
           line == [snooped_data(s, others, l) EXCEPT ![w] = x]
           t == snoop_invalidate_peers(s, others, l)
           e == evict_l1_d(t, c, V)
           f == l1d_fill(e, c, l, line, MODIFIED)
           i_sharers == f.l2[l].i
           u == snoop_invalidate_peers_i(f, i_sharers, l)
           r == l2_owned_by(u, c, l)
<1>1. /\ s \in Hierarchy /\ LineOK(s, l) /\ s.l2[l] \in L2Line
      /\ others \in SUBSET Cores /\ others = s.l2[l].d \ {c} /\ l \notin V
  BY DEF Coherent, Hierarchy, L2Line
<1> HIDE DEF others, line, t, e, f, i_sharers, u, r
<1>2. line \in Data
  BY <1>1, SnoopedData, StoredLine DEF line
<1>3. /\ t \in Hierarchy /\ t.abort = s.abort /\ t.mem = s.mem /\ t.l1i = s.l1i
      /\ \A k \in Lines \ {l} : SameLine(s, t, k)
      /\ t.l2[l].i = s.l2[l].i
      /\ \A p \in others : t.l1d[p][l] = NoL1Line
      /\ \A p \in Cores : p \in others \/ t.l1d[p][l] = s.l1d[p][l]
  <2>1. LosesDataCopies(s, t, others, l)
    BY <1>1, SnoopInvalidateEffect DEF t
  <2>2. QED
    BY <2>1 DEF LosesDataCopies
<1>4. \A p \in Cores \ {c} : ~holds(t.l1d[p], l)
  BY <1>1, <1>3 DEF LineOK, DirectoryOK, holds, NoL1Line
<1>5. \A k \in V : SameLine(s, t, k) /\ LineOK(t, k) /\ holds(t.l1d[c], k)
  <2>1. ASSUME NEW k \in V PROVE SameLine(s, t, k) /\ LineOK(s, k)
    BY <1>1, <1>3 DEF Coherent
  <2>2. QED
    BY <2>1, SameLineOK DEF SameLine, holds
<1>6. /\ e \in Hierarchy /\ e.abort = t.abort /\ e.mem = t.mem
      /\ \A k \in V : LineOK(e, k)
      /\ \A k \in Lines \ V : SameLine(t, e, k)
  BY <1>3, <1>5, EvictL1DOK DEF e
<1>7. /\ f \in Hierarchy /\ f.abort = e.abort /\ f.mem = e.mem /\ f.l1i = e.l1i /\ f.l2 = e.l2
      /\ \A k \in Lines \ {l} : SameLine(e, f, k)
      /\ f.l1d[c][l].state = MODIFIED /\ f.l1d[c][l].data = line
      /\ \A p \in Cores \ {c} : f.l1d[p][l] = e.l1d[p][l]
  BY <1>2, <1>6, L1DFillEffect, StatesDistinct DEF f
<1>8. i_sharers = s.l2[l].i /\ i_sharers \in SUBSET Cores
      /\ \A p \in Cores : f.l1i[p][l] = s.l1i[p][l]
  BY <1>1, <1>3, <1>6, <1>7 DEF SameLine, L2Line, i_sharers
<1>9. /\ u \in Hierarchy /\ u.abort = f.abort /\ u.mem = f.mem /\ u.l1d = f.l1d
      /\ \A k \in Lines \ {l} : SameLine(f, u, k)
      /\ u.l2[l].i = {}
      /\ \A p \in i_sharers : u.l1i[p][l] = NoL1Line
      /\ \A p \in Cores : p \in i_sharers \/ u.l1i[p][l] = f.l1i[p][l]
  <2>1. LosesInstructionCopies(f, u, i_sharers, l)
    BY <1>7, <1>8, SnoopInvalidateIEffect DEF u
  <2>2. QED
    BY <2>1 DEF LosesInstructionCopies
<1>10. \A p \in Cores : ~holds(u.l1i[p], l)
  BY <1>1, <1>8, <1>9 DEF LineOK, DirectoryOK, holds, NoL1Line
<1>11. /\ r \in Hierarchy /\ r.abort = u.abort /\ r.mem = u.mem /\ r.l1d = u.l1d /\ r.l1i = u.l1i
       /\ \A k \in Lines \ {l} : SameLine(u, r, k)
       /\ r.l2[l].state = MODIFIED /\ r.l2[l].d = {c} /\ r.l2[l].i = u.l2[l].i
  BY <1>9, OwnedByEffect DEF r
<1>12. OwnedOnlyBy(r, c, l)
  <2>1. \A p \in Cores \ {c} : ~holds(r.l1d[p], l)
    BY <1>1, <1>4, <1>6, <1>7, <1>9, <1>11 DEF SameLine, holds
  <2>2. QED
    BY <1>7, <1>9, <1>10, <1>11, <2>1 DEF OwnedOnlyBy, holds
<1>13. \A k \in Lines \ {l} : SameLine(e, r, k)
  BY <1>7, <1>9, <1>11 DEF SameLine
<1>14. \A k \in Lines \ (V \cup {l}) : SameLine(s, r, k)
  BY <1>3, <1>6, <1>13 DEF SameLine
<1>15. ASSUME NEW k \in Lines PROVE LineOK(r, k)
  <2>1. CASE k = l
    BY <1>12, <2>1, OwnedLineOK
  <2>2. CASE k \in V
    BY <1>1, <1>6, <1>13, <2>2, SameLineOK
  <2>3. CASE k # l /\ k \notin V
    BY <1>14, <2>3, SameLineOK DEF Coherent
  <2>4. QED
    BY <2>1, <2>2, <2>3
<1>16. Coherent(r) /\ r.abort = s.abort /\ r.mem = s.mem
  BY <1>3, <1>6, <1>7, <1>9, <1>11, <1>15 DEF Coherent
<1>17. write_l2_hit_result(s, c, l, w, x, V) = r
  BY DEF write_l2_hit_result, others, line, t, e, f, i_sharers, u, r
<1>18. snooped_data(s, others, l) = snooped_data(s, s.l2[l].d, l)
  <2>1. others = s.l2[l].d
    BY <1>1 DEF LineOK, DirectoryOK
  <2>2. QED
    BY <2>1
<1>19. /\ \A k \in V : LineOK(t, k) /\ holds(t.l1d[c], k)
       /\ \A k \in Lines \ {l} : SameLine(s, t, k)
       /\ t \in Hierarchy /\ t.mem = s.mem
       /\ t = snoop_invalidate_peers(s, s.l2[l].d \ {c}, l)
  BY <1>1, <1>3, <1>5 DEF t
<1>20. \A k \in Lines \ {l} : SameLine(evict_l1_d(t, c, V), r, k)
  BY <1>13 DEF e
<1>21. /\ r.l1d[c][l].state = MODIFIED
       /\ r.l1d[c][l].data = Merged(snooped_data(s, s.l2[l].d, l), w, x)
  BY <1>7, <1>9, <1>11, <1>18 DEF line, Merged
<1>22. EvictsAfterSnoop(s, r, c, l, V)
  BY <1>19, <1>20 DEF EvictsAfterSnoop
<1>23. QED
  BY <1>16, <1>17, <1>21, <1>22

(***************************************************************************)
(* cpu_fetch.                                                              *)
(***************************************************************************)
LEMMA FetchL2HitOK ==
  ASSUME NEW s, Coherent(s), NEW c \in Cores, NEW l \in Lines, NEW V \in SUBSET Lines,
         \A k \in V : holds(s.l1i[c], k),
         ~holds(s.l1i[c], l), s.l2[l].state \in {EXCLUSIVE, SHARED}
  PROVE  LET r == fetch_l2_hit_result(s, c, l, V)
         IN  /\ Coherent(r) /\ r.abort = s.abort /\ r.mem = s.mem
             /\ \A k \in Lines \ {l} : SameLine(evict_l1_i(s, c, V), r, k)
             /\ holds(r.l1i[c], l)
             /\ r.l1i[c][l].data = s.l2[l].data
             /\ \A o \in Cores : s.l1d[o][l].state # MODIFIED
PROOF
<1> DEFINE e == evict_l1_i(s, c, V)
           t == l2_cache_read_way_i(e, c, l)
           d_sharers == t.l2[l].d \ {c}
           i_sharers == t.l2[l].i \ {c}
           u == IF d_sharers \cup i_sharers # {}
                  THEN snoop_downgrade_peers(t, d_sharers, l) ELSE t
           r == l1i_fill(u, c, l, u.l2[l].data)
<1>1. /\ Coherent(e) /\ e.abort = s.abort /\ e.mem = s.mem /\ SameLine(s, e, l)
  BY EvictL1ICoherent
<1> HIDE DEF e, t, u, r
<1>2. /\ LineOK(e, l) /\ e \in Hierarchy /\ ~holds(e.l1i[c], l)
      /\ e.l2[l].state \in {EXCLUSIVE, SHARED} /\ e.l2[l] \in L2Line
      /\ \A o \in Cores : e.l1d[o][l].state \in {INVALID, EXCLUSIVE, SHARED}
  <2>1. /\ LineOK(e, l) /\ e \in Hierarchy /\ ~holds(e.l1i[c], l)
        /\ e.l2[l].state \in {EXCLUSIVE, SHARED} /\ e.l2[l] \in L2Line
    BY <1>1 DEF SameLine, Coherent, holds, Hierarchy
  <2>2. \A o \in Cores : e.l1d[o][l].state \in MESIState /\ e.l1d[o][l].state # MODIFIED
    BY <2>1, StatesDistinct DEF LineOK, StatesOK, Hierarchy, L1Line
  <2>3. QED
    BY <2>1, <2>2 DEF MESIState
<1>3. /\ t \in Hierarchy /\ t.abort = e.abort /\ t.mem = e.mem /\ t.l1d = e.l1d /\ t.l1i = e.l1i
      /\ \A k \in Lines \ {l} : SameLine(e, t, k)
      /\ t.l2[l].state = e.l2[l].state /\ t.l2[l].d = e.l2[l].d
      /\ t.l2[l].i = e.l2[l].i \cup {c} /\ t.l2[l].data = e.l2[l].data
  BY <1>2, ReadWayIEffect DEF t
<1>4. /\ d_sharers = e.l2[l].d \ {c} /\ i_sharers = e.l2[l].i
      /\ d_sharers \in SUBSET Cores
  BY <1>2, <1>3 DEF LineOK, DirectoryOK, L2Line
<1> HIDE DEF d_sharers, i_sharers
<1>5. /\ u \in Hierarchy /\ u.abort = e.abort /\ u.mem = e.mem /\ u.l1i = e.l1i
      /\ \A k \in Lines \ {l} : SameLine(e, u, k)
      /\ u.l2[l].d = e.l2[l].d /\ u.l2[l].i = e.l2[l].i \cup {c}
      /\ u.l2[l].data = e.l2[l].data
      /\ u.l2[l].state \in {EXCLUSIVE, SHARED}
      /\ \A o \in Cores : /\ holds(u.l1d[o], l) <=> holds(e.l1d[o], l)
                          /\ holds(u.l1d[o], l) => u.l1d[o][l].data = e.l1d[o][l].data
      /\ \A o \in Cores : u.l1d[o][l].state # MODIFIED
      /\ \A o \in Cores : u.l1d[o][l].state = SHARED => u.l2[l].state = SHARED
      /\ \A o \in Cores : u.l1d[o][l].state = EXCLUSIVE =>
           o = c /\ e.l2[l].i = {} /\ \A p \in Cores \ {c} : ~holds(u.l1d[p], l)
  <2>1. CASE d_sharers \cup i_sharers # {}
    <3>1. u = snoop_downgrade_peers(t, d_sharers, l)
      BY <2>1 DEF u
    <3>2. t \in Hierarchy /\ d_sharers \in SUBSET Cores
      BY <1>3, <1>4
    <3>3. /\ u \in Hierarchy /\ u.abort = t.abort /\ u.mem = t.mem /\ u.l1i = t.l1i
          /\ \A k \in Lines \ {l} : SameLine(t, u, k)
          /\ u.l2[l].state = SHARED /\ u.l2[l].d = t.l2[l].d
          /\ u.l2[l].i = t.l2[l].i /\ u.l2[l].data = snooped_data(t, d_sharers, l)
          /\ \A o \in d_sharers : holds(t.l1d[o], l) =>
               u.l1d[o][l].state = SHARED /\ u.l1d[o][l].data = t.l1d[o][l].data
          /\ \A o \in Cores : o \notin d_sharers \/ ~holds(t.l1d[o], l) =>
               u.l1d[o][l] = t.l1d[o][l]
      BY <3>1, <3>2, SnoopDowngradeEffect
    <3>4. u.l2[l].data = e.l2[l].data
      <4>1. \A o \in d_sharers : t.l1d[o][l].state # MODIFIED
        BY <1>2, <1>3, <1>4, StatesDistinct
      <4>2. snooped_data(t, d_sharers, l) = t.l2[l].data
        BY <3>2, <4>1, SnoopedData
      <4>3. QED
        BY <1>3, <3>3, <4>2
    <3>5. \A o \in Cores : /\ holds(u.l1d[o], l) <=> holds(e.l1d[o], l)
                           /\ holds(u.l1d[o], l) => u.l1d[o][l].data = e.l1d[o][l].data
      BY <1>3, <3>3, StatesDistinct DEF holds
    <3>6. \A o \in Cores : u.l1d[o][l].state \in {INVALID, SHARED}
      <4>1. ASSUME NEW o \in d_sharers PROVE u.l1d[o][l].state = SHARED
        BY <1>2, <1>3, <1>4, <3>3 DEF LineOK, DirectoryOK
      <4>2. ASSUME NEW o \in Cores, o # c, o \notin d_sharers
            PROVE  u.l1d[o][l].state = INVALID
        BY <1>2, <1>3, <1>4, <3>3, <4>2 DEF LineOK, DirectoryOK, holds
      <4>3. u.l1d[c][l].state \in {INVALID, SHARED}
        <5>1. u.l1d[c][l] = e.l1d[c][l]
          BY <1>3, <1>4, <3>3
        <5>2. e.l1d[c][l].state # EXCLUSIVE
          BY <1>2, <1>4, <2>1 DEF LineOK, StatesOK, DirectoryOK, L2Line
        <5>3. QED
          BY <1>2, <5>1, <5>2
      <4>4. QED
        BY <4>1, <4>2, <4>3
    <3>7. \A k \in Lines \ {l} : SameLine(e, u, k)
      BY <1>3, <3>3 DEF SameLine
    <3>8. QED
      BY <1>3, <3>3, <3>4, <3>5, <3>6, <3>7, StatesDistinct
  <2>2. CASE d_sharers \cup i_sharers = {}
    <3>1. u = t
      BY <2>2 DEF u
    <3>2. e.l2[l].i = {} /\ \A p \in Cores \ {c} : ~holds(e.l1d[p], l)
      BY <1>2, <1>4, <2>2 DEF LineOK, DirectoryOK
    <3>3. \A o \in Cores : /\ u.l1d[o][l].state # MODIFIED
                           /\ u.l1d[o][l].state = SHARED => u.l2[l].state = SHARED
      BY <1>2, <1>3, <3>1, StatesDistinct DEF LineOK, StatesOK
    <3>4. \A o \in Cores : u.l1d[o][l].state = EXCLUSIVE => o = c
      BY <1>3, <3>1, <3>2, StatesDistinct DEF holds
    <3>5. QED
      BY <1>2, <1>3, <3>1, <3>2, <3>3, <3>4
  <2>3. QED
    BY <2>1, <2>2
<1>6. u.l2[l].data \in Data
  BY <1>5 DEF Hierarchy, L2Line
<1>7. /\ r \in Hierarchy /\ r.abort = u.abort /\ r.mem = u.mem /\ r.l1d = u.l1d /\ r.l2 = u.l2
      /\ \A k \in Lines \ {l} : SameLine(u, r, k)
      /\ r.l1i[c][l].state = SHARED /\ r.l1i[c][l].data = u.l2[l].data
      /\ \A o \in Cores \ {c} : r.l1i[o][l] = u.l1i[o][l]
  BY <1>5, <1>6, L1IFillEffect DEF r
<1>8. DirectoryOK(r, l)
  BY <1>2, <1>5, <1>7, StatesDistinct DEF LineOK, DirectoryOK, holds
<1>9. StatesOK(r, l)
  <2>1. \A o \in Cores : r.l1d[o][l].state = EXCLUSIVE =>
          \A p \in Cores \ {o} : ~holds(r.l1d[p], l) /\ ~holds(r.l1i[p], l)
    BY <1>2, <1>5, <1>7 DEF LineOK, DirectoryOK, holds
  <2>2. \A o \in Cores : r.l1d[o][l].state # MODIFIED
    BY <1>5, <1>7
  <2>3. QED
    BY <1>5, <1>7, <2>1, <2>2 DEF StatesOK
<1>10. DataOK(r, l)
  BY <1>2, <1>5, <1>7, StatesDistinct DEF LineOK, DataOK, holds
<1>11. \A k \in Lines \ {l} : SameLine(e, r, k)
  BY <1>5, <1>7 DEF SameLine
<1>12. Coherent(r) /\ r.abort = s.abort /\ r.mem = s.mem
  BY <1>1, <1>5, <1>7, <1>8, <1>9, <1>10, <1>11, OneLineOK DEF LineOK
<1>13. fetch_l2_hit_result(s, c, l, V) = r
  BY DEF fetch_l2_hit_result, r, u, t, e, d_sharers, i_sharers
<1>14. holds(r.l1i[c], l) /\ r.l1i[c][l].data = s.l2[l].data
  BY <1>1, <1>5, <1>7, StatesDistinct DEF holds, SameLine
<1>15. \A o \in Cores : s.l1d[o][l].state # MODIFIED
  BY <1>1, <1>2, StatesDistinct DEF SameLine
<1>16. QED
  BY <1>11, <1>12, <1>13, <1>14, <1>15 DEF e

\* An instruction miss makes core c the only holder, in its L1I.
LEMMA FetchMissFillOK ==
  ASSUME NEW s, Coherent(s), NEW c \in Cores, NEW l \in Lines, NEW V \in SUBSET Lines,
         \A k \in V : holds(s.l1i[c], k), s.l2[l].state = INVALID
  PROVE  LET r == fetch_miss_fill(s, c, l, V)
         IN  /\ Coherent(r) /\ r.abort = s.abort /\ r.mem = s.mem
             /\ \A k \in Lines \ {l} : SameLine(evict_l1_i(s, c, V), r, k)
             /\ holds(r.l1i[c], l) /\ r.l1i[c][l].data = s.mem[l]
PROOF
<1> DEFINE e == evict_l1_i(s, c, V)
<1>1. ~holds(s.l1i[c], l)
  BY DEF Coherent, LineOK, DirectoryOK
<1>2. /\ Coherent(e) /\ e.abort = s.abort /\ e.mem = s.mem
      /\ \A k \in Lines \ V : SameLine(s, e, k)
  BY EvictL1ICoherent
<1> HIDE DEF e
<1>3. /\ e \in Hierarchy /\ e.l2[l].state = INVALID /\ e.mem[l] \in Data
      /\ \A o \in Cores : ~holds(e.l1d[o], l) /\ ~holds(e.l1i[o], l)
  BY <1>1, <1>2 DEF SameLine, Coherent, Hierarchy, LineOK, DirectoryOK
<1> DEFINE line == e.mem[l]
           f == l2_cache_fill(e, l, line, EXCLUSIVE, {}, {c})
           r == l1i_fill(f, c, l, line)
<1>4. line \in Data
  BY <1>3
<1>5. fetch_miss_fill(s, c, l, V) = r
  BY DEF fetch_miss_fill, e
<1> HIDE DEF line
<1>6. e \in Hierarchy /\ EXCLUSIVE \in MESIState
  BY <1>3, StatesDistinct
<1>7. {c} \in SUBSET Cores /\ {} \in SUBSET Cores
  OBVIOUS
<1>8. /\ f \in Hierarchy /\ f.abort = e.abort /\ f.mem = e.mem
      /\ f.l1d = e.l1d /\ f.l1i = e.l1i
      /\ \A k \in Lines \ {l} : SameLine(e, f, k)
      /\ f.l2[l].state = EXCLUSIVE /\ f.l2[l].d = {}
      /\ f.l2[l].i = {c} /\ f.l2[l].data = line
  BY <1>4, <1>6, <1>7 DEF l2_cache_fill, Hierarchy, L2Line, SameLine
<1> HIDE DEF f
<1>9. /\ r \in Hierarchy /\ r.abort = f.abort /\ r.mem = f.mem /\ r.l1d = f.l1d /\ r.l2 = f.l2
      /\ \A k \in Lines \ {l} : SameLine(f, r, k)
      /\ r.l1i[c][l].state = SHARED /\ r.l1i[c][l].data = line
      /\ \A o \in Cores \ {c} : r.l1i[o][l] = f.l1i[o][l]
  BY <1>4, <1>8, L1IFillEffect
<1> HIDE DEF r
<1>10. /\ holds(r.l1i[c], l)
       /\ \A o \in Cores \ {c} : ~holds(r.l1i[o], l)
       /\ \A o \in Cores : ~holds(r.l1d[o], l)
  BY <1>3, <1>8, <1>9, StatesDistinct DEF holds
<1>11. /\ r.l2[l].state = EXCLUSIVE /\ r.l2[l].d = {}
       /\ r.l2[l].i = {c} /\ r.l2[l].data = line
  BY <1>8, <1>9
<1>12. LineOK(r, l)
  <2>1. DirectoryOK(r, l)
    BY <1>10, <1>11, StatesDistinct DEF DirectoryOK
  <2>2. StatesOK(r, l)
    BY <1>10, <1>11, StatesDistinct DEF StatesOK, holds
  <2>3. DataOK(r, l)
    BY <1>9, <1>10, <1>11, StatesDistinct DEF DataOK, holds
  <2>4. QED
    BY <2>1, <2>2, <2>3 DEF LineOK
<1>13. \A k \in Lines \ {l} : SameLine(e, r, k)
  BY <1>8, <1>9 DEF SameLine
<1>14. Coherent(r) /\ r.abort = s.abort /\ r.mem = s.mem
  BY <1>2, <1>8, <1>9, <1>12, <1>13, OneLineOK
<1>15. r.l1i[c][l].data = s.mem[l]
  BY <1>2, <1>9 DEF line
<1>16. QED
  BY <1>5, <1>10, <1>13, <1>14, <1>15 DEF e

(***************************************************************************)
(* Victims and prefetches.                                                 *)
(***************************************************************************)
LEMMA L1Victims ==
  ASSUME NEW cache, NEW l, NEW V \in l1_victims(cache, l)
  PROVE  V \in SUBSET Lines /\ \A k \in V : holds(cache, k)
PROOF
<1>1. \A k \in in_l1_set(cache, l) : k \in Lines /\ holds(cache, k)
  BY DEF in_l1_set, holds
<1>2. V = {} \/ \E k \in in_l1_set(cache, l) : V = {k}
  BY DEF l1_victims
<1>3. QED
  BY <1>1, <1>2

LEMMA L2Victims ==
  ASSUME NEW s, NEW fills, NEW V \in l2_victims(s, fills)
  PROVE  V \in SUBSET Lines
BY DEF l2_victims, in_l2_set

LEMMA StreamMissOK ==
  ASSUME NEW s, Coherent(s), NEW l, NEW t \in after_stream_miss(s, l)
  PROVE  Coherent(t) /\ t.abort = s.abort
PROOF
<1>1. PICK fills \in SUBSET prefetchable(s, l) :
        \E V \in l2_victims(s, fills) : t = pf_fill_l2(s, fills, V)
  BY DEF after_stream_miss
<1>2. PICK V \in l2_victims(s, fills) : t = pf_fill_l2(s, fills, V)
  BY <1>1
<1>3. fills \in SUBSET Lines /\ \A k \in fills : s.l2[k].state = INVALID
  BY DEF prefetchable
<1>4. V \in SUBSET Lines
  BY L2Victims
<1>5. QED
  BY <1>2, <1>3, <1>4, PrefetchFillOK

LEMMA NextlineMissOK ==
  ASSUME NEW s, Coherent(s), NEW l, NEW t \in after_nextline_miss(s, l)
  PROVE  Coherent(t) /\ t.abort = s.abort
PROOF
<1> DEFINE fills == prefetchable(s, l) \cap {l + 1}
<1>1. PICK V \in l2_victims(s, fills) : t = pf_fill_l2(s, fills, V)
  BY DEF after_nextline_miss
<1>2. fills \in SUBSET Lines /\ \A k \in fills : s.l2[k].state = INVALID
  BY DEF prefetchable
<1>3. V \in SUBSET Lines
  BY L2Victims
<1> HIDE DEF fills
<1>4. QED
  BY <1>1, <1>2, <1>3, PrefetchFillOK

\* evict_l2 leaves an absent line absent.
LEMMA StillAbsent ==
  ASSUME NEW s, Coherent(s), NEW V \in SUBSET Lines, NEW l \in Lines,
         s.l2[l].state = INVALID
  PROVE  LET t == evict_l2(s, V)
         IN  Coherent(t) /\ t.abort = s.abort /\ t.l2[l].state = INVALID
PROOF
<1> DEFINE t == evict_l2(s, V)
<1>1. /\ \A k \in Lines \ V : SameLine(s, t, k)
      /\ \A k \in V : t.l2[k] = NoL2Line
  BY EvictL2Effect
<1>2. Coherent(t) /\ t.abort = s.abort
  BY EvictL2OK
<1> HIDE DEF t
<1>3. t.l2[l].state = INVALID
  BY <1>1 DEF SameLine, NoL2Line
<1>4. QED
  BY <1>2, <1>3 DEF t

(***************************************************************************)
(* The inductive invariant.  The listed invariants are not inductive one   *)
(* by one: that a snoop finds every copy needs exact masks, that masks     *)
(* stay exact needs that a hit in L1 is a hit in L2, that no two writers   *)
(* exist needs both and the states the L2 allows above it.                 *)
(***************************************************************************)
IInv ==
  /\ Coherent(here)
  /\ ret \in {<<>>} \cup (Lines \X Data)
  /\ NoInternalAbort

LEMMA Become ==
  ASSUME NEW s \in Hierarchy, become(s)
  PROVE  here' = s
BY DEF become, here, Hierarchy

LEMMA InitIInv == Init => IInv
PROOF
<1> SUFFICES ASSUME Init PROVE IInv
  OBVIOUS
<1> USE DEF Init
<1>1. here \in Hierarchy
  BY AbsentLines DEF here, Hierarchy, ZeroLine, Data, Aborts
<1>2. ASSUME NEW l \in Lines PROVE LineOK(here, l)
  <2>1. \A c \in Cores : ~holds(here.l1d[c], l) /\ ~holds(here.l1i[c], l)
    BY DEF here, holds, NoL1Line
  <2>2. here.l2[l].d = {} /\ here.l2[l].i = {} /\ here.l2[l].state # SHARED
    BY StatesDistinct DEF here, NoL2Line
  <2>3. QED
    BY <1>1, <2>1, <2>2, AbsentLineOK
<1>3. QED
  BY <1>1, <1>2 DEF IInv, Coherent, NoInternalAbort

\* A step that leaves a coherent hierarchy and delivers a line, or nothing.
LEMMA StepIInv ==
  ASSUME NEW t, Coherent(t), become(t), t.abort = "none" \/ t.abort = "fetch_of_modified",
         ret' \in {<<>>} \cup (Lines \X Data)
  PROVE  IInv'
PROOF
<1>1. here' = t
  BY Become DEF Coherent
<1>2. abort' = t.abort
  BY DEF become
<1>3. Coherent(here)'
  BY <1>1 DEF Coherent, LineOK, DirectoryOK, StatesOK, DataOK, holds, Hierarchy,
     L1Line, L2Line, Data, Lines
<1>4. QED
  BY <1>2, <1>3 DEF IInv, NoInternalAbort, Lines, Data

LEMMA ReadIInv ==
  ASSUME IInv, abort = "none", NEW c \in Cores, NEW l \in Lines, cpu_read(c, l)
  PROVE  IInv'
PROOF
<1>1. /\ Coherent(here) /\ here \in Hierarchy /\ here.abort = "none"
      /\ here.l1d = l1d /\ here.l1i = l1i /\ here.l2 = l2 /\ here.mem = mem
  BY DEF IInv, Coherent, here
<1>2. CASE read_l1_hit(c, l)
  <2>1. l1d[c][l].data \in Data
    BY <1>1 DEF Hierarchy, L1Line
  <2>2. become(here) /\ ret' \in Lines \X Data
    BY <1>2, <2>1 DEF read_l1_hit
  <2>3. QED
    BY <1>1, <2>2, StepIInv
<1>3. CASE read_l2_hit(c, l)
  <2>1. PICK V \in l1_victims(l1d[c], l) :
          /\ become(read_l2_hit_result(here, c, l, V))
          /\ ret' = <<l, read_l2_hit_result(here, c, l, V).l1d[c][l].data>>
    BY <1>3 DEF read_l2_hit
  <2>2. V \in SUBSET Lines /\ \A k \in V : holds(here.l1d[c], k)
    BY <1>1, L1Victims
  <2>3. ~holds(here.l1d[c], l) /\ here.l2[l].state # INVALID
    BY <1>1, <1>3 DEF read_l2_hit
  <2> DEFINE t == read_l2_hit_result(here, c, l, V)
  <2>4. Coherent(t) /\ t.abort = here.abort
    BY <1>1, <2>2, <2>3, ReadL2HitOK
  <2> HIDE DEF t
  <2>5. become(t) /\ ret' = <<l, t.l1d[c][l].data>>
    BY <2>1 DEF t
  <2>6. t.l1d[c][l].data \in Data
    BY <2>4 DEF Coherent, Hierarchy, L1Line
  <2>7. QED
    BY <1>1, <2>4, <2>5, <2>6, StepIInv
<1>4. CASE read_miss(c, l)
  <2>1. PICK V2 \in l2_victims(here, {l}) :
          \E V1 \in l1_victims(evict_l2(here, V2).l1d[c], l) :
            \E t \in after_stream_miss(read_miss_fill(evict_l2(here, V2), c, l, V1), l) :
              become(t) /\ ret' = <<l, mem[l]>>
    BY <1>4 DEF read_miss
  <2> DEFINE e == evict_l2(here, V2)
  <2>2. here.l2[l].state = INVALID /\ V2 \in SUBSET Lines
    BY <1>1, <1>4, L2Victims DEF read_miss
  <2>3. Coherent(e) /\ e.abort = here.abort /\ e.l2[l].state = INVALID
    BY <1>1, <2>2, StillAbsent
  <2> HIDE DEF e
  <2>4. PICK V1 \in l1_victims(e.l1d[c], l) :
          \E t \in after_stream_miss(read_miss_fill(e, c, l, V1), l) :
            become(t) /\ ret' = <<l, mem[l]>>
    BY <2>1 DEF e
  <2>5. V1 \in SUBSET Lines /\ \A k \in V1 : holds(e.l1d[c], k)
    BY L1Victims
  <2> DEFINE f == read_miss_fill(e, c, l, V1)
  <2>6. Coherent(f) /\ f.abort = e.abort
    BY <2>3, <2>5, ReadMissFillOK
  <2> HIDE DEF f
  <2>7. PICK t \in after_stream_miss(f, l) : become(t) /\ ret' = <<l, mem[l]>>
    BY <2>4 DEF f
  <2>8. Coherent(t) /\ t.abort = f.abort
    BY <2>6, StreamMissOK
  <2>9. mem[l] \in Data
    BY <1>1 DEF Hierarchy
  <2>10. QED
    BY <1>1, <2>3, <2>6, <2>7, <2>8, <2>9, StepIInv
<1>5. QED
  BY <1>2, <1>3, <1>4 DEF cpu_read

LEMMA WriteIInv ==
  ASSUME IInv, abort = "none", NEW c \in Cores, NEW l \in Lines,
         NEW w \in Words, NEW x \in Vals, cpu_write(c, l, w, x)
  PROVE  IInv'
PROOF
<1>1. /\ Coherent(here) /\ here \in Hierarchy /\ here.abort = "none"
      /\ here.l1d = l1d /\ here.l1i = l1i /\ here.l2 = l2 /\ here.mem = mem
  BY DEF IInv, Coherent, here
<1>2. CASE write_l1_hit(c, l, w, x)
  <2> DEFINE t == write_l1_hit_result(here, c, l, w, x)
  <2>1. holds(here.l1d[c], l)
    BY <1>1, <1>2 DEF write_l1_hit
  <2>2. here.l2[l].state # INVALID
    BY <1>1, <2>1 DEF Coherent, LineOK, DirectoryOK
  <2>3. Coherent(t) /\ t.abort = here.abort
    BY <1>1, <2>1, WriteL1HitOK
  <2>4. become(t) /\ ret' = <<>>
    BY <1>1, <1>2, <2>2 DEF write_l1_hit
  <2> HIDE DEF t
  <2>5. QED
    BY <1>1, <2>3, <2>4, StepIInv
<1>3. CASE write_l2_hit(c, l, w, x)
  <2>1. PICK V \in l1_victims(l1d[c], l) :
          become(write_l2_hit_result(here, c, l, w, x, V))
    BY <1>3 DEF write_l2_hit
  <2>2. V \in SUBSET Lines /\ \A k \in V : holds(here.l1d[c], k)
    BY <1>1, L1Victims
  <2>3. ~holds(here.l1d[c], l) /\ ret' = <<>>
    BY <1>1, <1>3 DEF write_l2_hit
  <2> DEFINE t == write_l2_hit_result(here, c, l, w, x, V)
  <2>4. Coherent(t) /\ t.abort = here.abort
    BY <1>1, <2>2, <2>3, WriteL2HitOK
  <2>5. become(t)
    BY <2>1
  <2> HIDE DEF t
  <2>6. QED
    BY <1>1, <2>3, <2>4, <2>5, StepIInv
<1>4. CASE write_miss(c, l, w, x)
  <2>1. PICK V2 \in l2_victims(here, {l}) :
          \E V1 \in l1_victims(evict_l2(here, V2).l1d[c], l) :
            \E t \in after_stream_miss(
                       write_miss_fill(evict_l2(here, V2), c, l, w, x, V1), l) :
              become(t)
    BY <1>4 DEF write_miss
  <2> DEFINE e == evict_l2(here, V2)
  <2>2. here.l2[l].state = INVALID /\ V2 \in SUBSET Lines /\ ret' = <<>>
    BY <1>1, <1>4, L2Victims DEF write_miss
  <2>3. Coherent(e) /\ e.abort = here.abort /\ e.l2[l].state = INVALID
    BY <1>1, <2>2, StillAbsent
  <2> HIDE DEF e
  <2>4. PICK V1 \in l1_victims(e.l1d[c], l) :
          \E t \in after_stream_miss(write_miss_fill(e, c, l, w, x, V1), l) : become(t)
    BY <2>1 DEF e
  <2>5. V1 \in SUBSET Lines /\ \A k \in V1 : holds(e.l1d[c], k)
    BY L1Victims
  <2> DEFINE f == write_miss_fill(e, c, l, w, x, V1)
  <2>6. Coherent(f) /\ f.abort = e.abort
    BY <2>3, <2>5, WriteMissFillOK
  <2> HIDE DEF f
  <2>7. PICK t \in after_stream_miss(f, l) : become(t)
    BY <2>4 DEF f
  <2>8. Coherent(t) /\ t.abort = f.abort
    BY <2>6, StreamMissOK
  <2>9. QED
    BY <1>1, <2>2, <2>3, <2>6, <2>7, <2>8, StepIInv
<1>5. QED
  BY <1>2, <1>3, <1>4 DEF cpu_write

LEMMA FetchIInv ==
  ASSUME IInv, abort = "none", NEW c \in Cores, NEW l \in Lines, cpu_fetch(c, l)
  PROVE  IInv'
PROOF
<1>1. /\ Coherent(here) /\ here \in Hierarchy /\ here.abort = "none"
      /\ here.l1d = l1d /\ here.l1i = l1i /\ here.l2 = l2 /\ here.mem = mem
  BY DEF IInv, Coherent, here
<1>2. CASE fetch_l1_hit(c, l)
  <2>1. l1i[c][l].data \in Data
    BY <1>1 DEF Hierarchy, L1Line
  <2>2. become(here) /\ ret' \in Lines \X Data
    BY <1>2, <2>1 DEF fetch_l1_hit
  <2>3. QED
    BY <1>1, <2>2, StepIInv
<1>3. CASE fetch_modified(c, l)
  <2> DEFINE t == [here EXCEPT !.abort = "fetch_of_modified"]
  <2>1. /\ t \in Hierarchy /\ t.abort = "fetch_of_modified"
        /\ t.l1d = here.l1d /\ t.l1i = here.l1i /\ t.l2 = here.l2
    BY <1>1 DEF Hierarchy, Aborts
  <2>2. become(t) /\ ret' = ret
    BY <1>3 DEF fetch_modified
  <2> HIDE DEF t
  <2>3. Coherent(t)
    BY <1>1, <2>1, SameLineOK DEF Coherent, SameLine
  <2>4. ret' \in {<<>>} \cup (Lines \X Data)
    BY <2>2 DEF IInv
  <2>5. QED
    BY <2>1, <2>2, <2>3, <2>4, StepIInv
<1>4. CASE fetch_l2_hit(c, l)
  <2>1. PICK V \in l1_victims(l1i[c], l) :
          /\ become(fetch_l2_hit_result(here, c, l, V))
          /\ ret' = <<l, fetch_l2_hit_result(here, c, l, V).l1i[c][l].data>>
    BY <1>4 DEF fetch_l2_hit
  <2>2. V \in SUBSET Lines /\ \A k \in V : holds(here.l1i[c], k)
    BY <1>1, L1Victims
  <2>3. ~holds(here.l1i[c], l) /\ here.l2[l].state \in {EXCLUSIVE, SHARED}
    BY <1>1, <1>4 DEF fetch_l2_hit
  <2> DEFINE t == fetch_l2_hit_result(here, c, l, V)
  <2>4. Coherent(t) /\ t.abort = here.abort
    BY <1>1, <2>2, <2>3, FetchL2HitOK
  <2> HIDE DEF t
  <2>5. become(t) /\ ret' = <<l, t.l1i[c][l].data>>
    BY <2>1 DEF t
  <2>6. t.l1i[c][l].data \in Data
    BY <2>4 DEF Coherent, Hierarchy, L1Line
  <2>7. QED
    BY <1>1, <2>4, <2>5, <2>6, StepIInv
<1>5. CASE fetch_miss(c, l)
  <2>1. PICK V2 \in l2_victims(here, {l}) :
          \E V1 \in l1_victims(evict_l2(here, V2).l1i[c], l) :
            \E t \in after_nextline_miss(fetch_miss_fill(evict_l2(here, V2), c, l, V1), l) :
              become(t) /\ ret' = <<l, mem[l]>>
    BY <1>5 DEF fetch_miss
  <2> DEFINE e == evict_l2(here, V2)
  <2>2. here.l2[l].state = INVALID /\ V2 \in SUBSET Lines
    BY <1>1, <1>5, L2Victims DEF fetch_miss
  <2>3. Coherent(e) /\ e.abort = here.abort /\ e.l2[l].state = INVALID
    BY <1>1, <2>2, StillAbsent
  <2> HIDE DEF e
  <2>4. PICK V1 \in l1_victims(e.l1i[c], l) :
          \E t \in after_nextline_miss(fetch_miss_fill(e, c, l, V1), l) :
            become(t) /\ ret' = <<l, mem[l]>>
    BY <2>1 DEF e
  <2>5. V1 \in SUBSET Lines /\ \A k \in V1 : holds(e.l1i[c], k)
    BY L1Victims
  <2> DEFINE f == fetch_miss_fill(e, c, l, V1)
  <2>6. Coherent(f) /\ f.abort = e.abort
    BY <2>3, <2>5, FetchMissFillOK
  <2> HIDE DEF f
  <2>7. PICK t \in after_nextline_miss(f, l) : become(t) /\ ret' = <<l, mem[l]>>
    BY <2>4 DEF f
  <2>8. Coherent(t) /\ t.abort = f.abort
    BY <2>6, NextlineMissOK
  <2>9. mem[l] \in Data
    BY <1>1 DEF Hierarchy
  <2>10. QED
    BY <1>1, <2>3, <2>6, <2>7, <2>8, <2>9, StepIInv
<1>6. QED
  BY <1>2, <1>3, <1>4, <1>5 DEF cpu_fetch

\* Every access of every core preserves the inductive invariant.
LEMMA NextIInv == IInv /\ [Next]_vars => IInv'
PROOF
<1> SUFFICES ASSUME IInv, [Next]_vars PROVE IInv'
  OBVIOUS
<1>1. CASE Next
  <2>1. abort = "none"
    BY <1>1 DEF Next, NextOn
  <2>2. PICK c \in Cores, l \in Lines :
          \/ cpu_read(c, l)
          \/ \E w \in Words, x \in Vals : cpu_write(c, l, w, x)
          \/ cpu_fetch(c, l)
    BY <1>1 DEF Next, NextOn
  <2>3. CASE cpu_read(c, l)
    BY <2>1, <2>3, ReadIInv
  <2>4. CASE \E w \in Words, x \in Vals : cpu_write(c, l, w, x)
    BY <2>1, <2>4, WriteIInv
  <2>5. CASE cpu_fetch(c, l)
    BY <2>1, <2>5, FetchIInv
  <2>6. QED
    BY <2>2, <2>3, <2>4, <2>5
<1>2. CASE UNCHANGED vars
  BY <1>2 DEF vars, IInv, here, Coherent, LineOK, DirectoryOK, StatesOK, DataOK,
     holds, Hierarchy, L1Line, L2Line, Data, Lines, NoInternalAbort
<1>3. QED
  BY <1>1, <1>2

LEMMA IInvAlways == Spec => []IInv
BY InitIInv, NextIInv, PTL DEF Spec

(***************************************************************************)
(* The theorems.                                                           *)
(***************************************************************************)

\* Type correctness: every handler keeps every field of the caches, the
\* sharer masks and the memory within what core.h and uncore.h declare.
THEOREM TypeCorrect == Spec => []TypeOK
PROOF
<1>1. IInv => TypeOK
  BY DEF IInv, Coherent, TypeOK
<1>2. QED
  BY <1>1, IInvAlways, PTL

\* Inclusion (cpu.cpp:186): what an L1 holds the L2 holds too, whatever
\* evict_l1, evict_l2 and the prefetchers throw out.
THEOREM InclusionHolds == Spec => []Inclusion
PROOF
<1>1. IInv => Inclusion
  BY DEF IInv, Coherent, here, LineOK, DirectoryOK, Inclusion
<1>2. QED
  BY <1>1, IInvAlways, PTL

\* core_valid_d and core_valid_i name exactly the cores that hold the line.
THEOREM DirectoryIsExact == Spec => []DirectoryExact
PROOF
<1>1. IInv => DirectoryExact
  BY DEF IInv, Coherent, here, LineOK, DirectoryOK, DirectoryExact
<1>2. QED
  BY <1>1, IInvAlways, PTL

\* A line that a core can write without a snoop has no other holder.
THEOREM AtMostOneWriter == Spec => []SingleWriter
PROOF
<1>1. IInv => SingleWriter
  BY DEF IInv, Coherent, here, LineOK, StatesOK, SingleWriter
<1>2. QED
  BY <1>1, IInvAlways, PTL

\* The MESI states of the L1s and of the L2 fit together.
THEOREM LevelsAlwaysAgree == Spec => []LevelsAgree
PROOF
<1>1. IInv => LevelsAgree
  BY DEF IInv, Coherent, here, LineOK, StatesOK, LevelsAgree
<1>2. QED
  BY <1>1, IInvAlways, PTL

\* Clean copies of a line are equal, in every L1D, L1I and the L2.
THEOREM CleanCopiesAlwaysAgree == Spec => []CleanCopiesAgree
PROOF
<1>1. IInv => CleanCopiesAgree
  BY DEF IInv, Coherent, here, LineOK, DataOK, CleanCopiesAgree
<1>2. QED
  BY <1>1, IInvAlways, PTL

\* None of the consistency checks of cpu.cpp that end in std::abort fires;
\* only the fetch of a MODIFIED line can stop the program.
THEOREM InternalAbortsUnreachable == Spec => []NoInternalAbort
PROOF
<1>1. IInv => NoInternalAbort
  BY DEF IInv
<1>2. QED
  BY <1>1, IInvAlways, PTL

(***************************************************************************)
(* What a line is worth: the action properties of MesiProtocol that say a  *)
(* read delivers the current value of its line and a line changes its      *)
(* value only by a store or a clean eviction.  The value of a line is      *)
(* followed through the stages of a handler, as LineOK is above.           *)
(***************************************************************************)
\* The value of line l in hierarchy s; for a coherent one it is current(l).
Value(s, l) ==
  IF s.l2[l].state = INVALID THEN s.mem[l] ELSE snooped_data(s, s.l2[l].d, l)

\* Line l may only have lost what the L2 need not write back.
DroppedClean(s, t, l) ==
  s.l2[l].state \in {EXCLUSIVE, SHARED} /\ t.l2[l].state = INVALID

\* From s to t line l is neither filled nor cleaned, and it keeps its value
\* unless it is dropped clean.
Carries(s, t, l) ==
  /\ s.l2[l].state = INVALID => t.l2[l].state = INVALID
  /\ t.l2[l].state \in {EXCLUSIVE, SHARED} => s.l2[l].state \in {EXCLUSIVE, SHARED}
  /\ Value(t, l) = Value(s, l) \/ DroppedClean(s, t, l)

LEMMA CarriesTransitive ==
  ASSUME NEW s, NEW t, NEW u, NEW l, Carries(s, t, l), Carries(t, u, l)
  PROVE  Carries(s, u, l)
BY StatesDistinct DEF Carries, DroppedClean

(***************************************************************************)
(* The value of a coherent line.                                           *)
(***************************************************************************)
LEMMA ValueOfCopy ==
  ASSUME NEW s \in Hierarchy, NEW l \in Lines, LineOK(s, l), NEW c \in Cores
  PROVE  /\ holds(s.l1d[c], l) => s.l1d[c][l].data = Value(s, l)
         /\ holds(s.l1i[c], l) => s.l1i[c][l].data = Value(s, l)
BY SnoopedIsCommon DEF Value, LineOK, DirectoryOK

LEMMA ValueOfL2 ==
  ASSUME NEW s \in Hierarchy, NEW l \in Lines, s.l2[l].state # INVALID,
         \A c \in Cores : s.l1d[c][l].state # MODIFIED
  PROVE  Value(s, l) = s.l2[l].data
PROOF
<1>1. s.l2[l].d \in SUBSET Cores
  BY DEF Hierarchy, L2Line
<1>2. snooped_data(s, s.l2[l].d, l) = s.l2[l].data
  BY <1>1, SnoopedData
<1>3. QED
  BY <1>2 DEF Value

LEMMA ValueOfData ==
  ASSUME NEW s \in Hierarchy, NEW l \in Lines
  PROVE  Value(s, l) \in Data
PROOF
<1>1. s.mem[l] \in Data /\ s.l2[l].d \in SUBSET Cores
  BY DEF Hierarchy, L2Line
<1>2. QED
  BY <1>1, SnoopedData DEF Value

LEMMA SameLineValue ==
  ASSUME NEW s \in Hierarchy, NEW t, NEW l \in Lines, SameLine(s, t, l),
         t.mem[l] = s.mem[l]
  PROVE  Value(t, l) = Value(s, l) /\ Carries(s, t, l)
PROOF
<1>1. Value(t, l) = Value(s, l)
  BY SnoopedSame DEF Value, SameLine
<1>2. QED
  BY <1>1 DEF Carries, SameLine

(***************************************************************************)
(* Evictions.                                                              *)
(***************************************************************************)
LEMMA EvictL1DValue ==
  ASSUME NEW s \in Hierarchy, NEW c \in Cores, NEW V \in SUBSET Lines,
         \A l \in V : LineOK(s, l) /\ holds(s.l1d[c], l)
  PROVE  LET t == evict_l1_d(s, c, V)
         IN  \A l \in Lines : Value(t, l) = Value(s, l) /\ Carries(s, t, l)
PROOF
<1> DEFINE t == evict_l1_d(s, c, V)
<1>1. \A l \in V : l \in Lines /\ s.l2[l].state # INVALID
  BY DEF LineOK, DirectoryOK
<1>2. /\ t \in Hierarchy /\ t.mem = s.mem
      /\ \A l \in Lines \ V : SameLine(s, t, l)
      /\ \A l \in V, o \in Cores \ {c} : t.l1d[o][l] = s.l1d[o][l]
      /\ \A l \in V : t.l1d[c][l] = NoL1Line
      /\ \A l \in V : t.l2[l] =
           IF s.l1d[c][l].state = MODIFIED
             THEN l2_cache_write_way(s.l2[l], c, s.l1d[c][l].data)
             ELSE release_d(s.l2[l], c)
  BY <1>1, EvictL1DEffect
<1> HIDE DEF t
<1>3. ASSUME NEW l \in V PROVE Value(t, l) = Value(s, l) /\ Carries(s, t, l)
  <2>1. /\ LineOK(s, l) /\ l \in Lines /\ s.l2[l] \in L2Line
        /\ s.l1d[c][l].data \in Data /\ holds(s.l1d[c], l)
    BY DEF Hierarchy, L1Line
  <2>2. Value(s, l) = s.l1d[c][l].data
    BY <2>1, ValueOfCopy
  <2>3. \A o \in Cores : t.l1d[o][l].state # MODIFIED
    <3>1. t.l1d[c][l].state # MODIFIED
      BY <1>2, StatesDistinct DEF NoL1Line
    <3>2. ASSUME NEW o \in Cores \ {c} PROVE s.l1d[o][l].state # MODIFIED
      BY <2>1, StatesDistinct DEF LineOK, StatesOK, holds
    <3>3. QED
      BY <1>2, <3>1, <3>2
  <2>4. CASE s.l1d[c][l].state = MODIFIED
    <3>1. t.l2[l].data = s.l1d[c][l].data /\ t.l2[l].state = MODIFIED
      BY <1>2, <2>1, <2>4, WriteWay
    <3>2. Value(t, l) = s.l1d[c][l].data
      BY <1>2, <2>1, <2>3, <3>1, ValueOfL2, StatesDistinct
    <3>3. QED
      BY <1>1, <2>2, <3>1, <3>2, StatesDistinct DEF Carries
  <2>5. CASE s.l1d[c][l].state # MODIFIED
    <3>1. /\ t.l2[l].data = s.l2[l].data
          /\ t.l2[l].state = IF s.l2[l].d \ {c} = {} /\ s.l2[l].i = {} /\ s.l2[l].state = SHARED
                               THEN EXCLUSIVE ELSE s.l2[l].state
      BY <1>2, <2>1, <2>5, ReleaseD
    <3>2. s.l1d[c][l].state \in {EXCLUSIVE, SHARED}
      BY <2>1, <2>5 DEF holds, Hierarchy, L1Line, MESIState
    <3>3. Value(t, l) = s.l2[l].data
      BY <1>1, <1>2, <2>1, <2>3, <3>1, ValueOfL2, StatesDistinct
    <3>4. Value(s, l) = s.l2[l].data
      BY <2>1, <2>2, <3>2 DEF LineOK, DataOK
    <3>5. QED
      BY <1>1, <3>1, <3>3, <3>4, StatesDistinct DEF Carries
  <2>6. QED
    BY <2>4, <2>5
<1>4. ASSUME NEW l \in Lines \ V PROVE Value(t, l) = Value(s, l) /\ Carries(s, t, l)
  BY <1>2, SameLineValue
<1>5. QED
  BY <1>3, <1>4 DEF t

LEMMA EvictL1IValue ==
  ASSUME NEW s \in Hierarchy, NEW c \in Cores, NEW V \in SUBSET Lines,
         \A l \in V : LineOK(s, l) /\ holds(s.l1i[c], l)
  PROVE  LET t == evict_l1_i(s, c, V)
         IN  \A l \in Lines : Value(t, l) = Value(s, l) /\ Carries(s, t, l)
PROOF
<1> DEFINE t == evict_l1_i(s, c, V)
<1>1. \A l \in V : l \in Lines /\ s.l2[l].state # INVALID
  BY DEF LineOK, DirectoryOK
<1>2. /\ t \in Hierarchy /\ t.mem = s.mem
      /\ \A l \in Lines \ V : SameLine(s, t, l)
      /\ \A l \in V, o \in Cores : t.l1d[o][l] = s.l1d[o][l]
      /\ \A l \in V : t.l2[l] = release_i(s.l2[l], c)
  BY <1>1, EvictL1IEffect
<1> HIDE DEF t
<1>3. ASSUME NEW l \in V PROVE Value(t, l) = Value(s, l) /\ Carries(s, t, l)
  <2>1. LineOK(s, l) /\ l \in Lines /\ s.l2[l] \in L2Line /\ holds(s.l1i[c], l)
    BY DEF Hierarchy
  <2>2. \A o \in Cores : s.l1d[o][l].state # MODIFIED /\ t.l1d[o][l].state # MODIFIED
    BY <1>2, <2>1, StatesDistinct DEF LineOK, StatesOK
  <2>3. /\ t.l2[l].data = s.l2[l].data
        /\ t.l2[l].state = IF s.l2[l].d = {} /\ s.l2[l].i \ {c} = {} /\ s.l2[l].state = SHARED
                             THEN EXCLUSIVE ELSE s.l2[l].state
    BY <1>2, <2>1, ReleaseI
  <2>4. Value(t, l) = s.l2[l].data /\ Value(s, l) = s.l2[l].data
    BY <1>1, <1>2, <2>1, <2>2, <2>3, ValueOfL2, StatesDistinct
  <2>5. QED
    BY <1>1, <2>3, <2>4, StatesDistinct DEF Carries
<1>4. ASSUME NEW l \in Lines \ V PROVE Value(t, l) = Value(s, l) /\ Carries(s, t, l)
  BY <1>2, SameLineValue
<1>5. QED
  BY <1>3, <1>4 DEF t

\* evict_l2 writes back what is MODIFIED in the L2 or above it; by StatesOK
\* that is what is MODIFIED in the L2.
LEMMA EvictL2Value ==
  ASSUME NEW s, Coherent(s), NEW V \in SUBSET Lines
  PROVE  LET t == evict_l2(s, V)
         IN  \A l \in Lines : Carries(s, t, l)
PROOF
<1> DEFINE t == evict_l2(s, V)
<1>1. /\ t \in Hierarchy
      /\ \A l \in Lines \ V : SameLine(s, t, l) /\ t.mem[l] = s.mem[l]
      /\ \A l \in V : t.l2[l] = NoL2Line
      /\ \A l \in V : t.mem[l] = IF l2_dirty(s, l)
                                   THEN snooped_data(s, s.l2[l].d, l)
                                   ELSE s.mem[l]
  BY EvictL2Effect
<1> HIDE DEF t
<1>2. s \in Hierarchy
  BY DEF Coherent
<1>3. ASSUME NEW l \in V PROVE Carries(s, t, l)
  <2>1. /\ LineOK(s, l) /\ s.l2[l].state \in MESIState /\ s.l2[l].d \in SUBSET Cores
    BY <1>2 DEF Coherent, Hierarchy, L2Line
  <2>2. t.l2[l].state = INVALID /\ Value(t, l) = t.mem[l]
    BY <1>1 DEF NoL2Line, Value
  <2>3. CASE s.l2[l].state = MODIFIED
    <3>1. l2_dirty(s, l)
      BY <2>3 DEF l2_dirty
    <3>2. Value(t, l) = Value(s, l)
      BY <1>1, <2>2, <2>3, <3>1, StatesDistinct DEF Value
    <3>3. QED
      BY <2>2, <3>2, StatesDistinct DEF Carries
  <2>4. CASE s.l2[l].state = INVALID
    <3>1. ~l2_dirty(s, l)
      BY <2>1, <2>4, StatesDistinct DEF l2_dirty, LineOK, DirectoryOK
    <3>2. QED
      BY <1>1, <2>2, <2>4, <3>1, StatesDistinct DEF Carries, Value
  <2>5. CASE s.l2[l].state \in {EXCLUSIVE, SHARED}
    BY <2>2, <2>5, StatesDistinct DEF Carries, DroppedClean
  <2>6. QED
    BY <2>1, <2>3, <2>4, <2>5 DEF MESIState
<1>4. ASSUME NEW l \in Lines \ V PROVE Carries(s, t, l)
  BY <1>1, <1>2, SameLineValue
<1>5. QED
  BY <1>3, <1>4 DEF t

\* A prefetched line had its value in memory, the other lines are carried.
LEMMA PrefetchFillValue ==
  ASSUME NEW s, Coherent(s), NEW fills \in SUBSET Lines, NEW V \in SUBSET Lines,
         \A l \in fills : s.l2[l].state = INVALID
  PROVE  LET t == pf_fill_l2(s, fills, V)
         IN  /\ \A l \in fills : Value(t, l) = Value(s, l)
             /\ \A l \in Lines \ fills : Carries(s, t, l)
             /\ t.l1d = evict_l2(s, V).l1d
PROOF
<1> DEFINE e == evict_l2(s, V)
           new_l2 == [l \in Lines |->
             IF l \in fills
               THEN [state |-> EXCLUSIVE, d |-> {}, i |-> {}, data |-> e.mem[l]]
               ELSE e.l2[l]]
           t == [e EXCEPT !.l2 = new_l2]
<1>1. Coherent(e) /\ e \in Hierarchy /\ \A l \in Lines : Carries(s, e, l)
  BY EvictL2Effect, EvictL2OK, EvictL2Value
<1>2. pf_fill_l2(s, fills, V) = t
  BY DEF pf_fill_l2
<1> HIDE DEF e
<1>3. new_l2 \in [Lines -> L2Line]
  BY <1>1 DEF Hierarchy, L2Line, MESIState
<1>4. t \in Hierarchy /\ t.l1d = e.l1d /\ t.l1i = e.l1i /\ t.mem = e.mem /\ t.l2 = new_l2
  BY <1>1, <1>3 DEF Hierarchy
<1> HIDE DEF t
<1>5. ASSUME NEW l \in fills PROVE Value(t, l) = Value(s, l)
  <2>1. e.l2[l].state = INVALID /\ Value(e, l) = Value(s, l)
    BY <1>1, StatesDistinct DEF Carries, DroppedClean
  <2>2. \A c \in Cores : t.l1d[c][l].state # MODIFIED
    BY <1>1, <1>4, <2>1, StatesDistinct DEF Coherent, LineOK, DirectoryOK, holds
  <2>3. t.l2[l].state # INVALID /\ t.l2[l].data = e.mem[l]
    BY <1>4, StatesDistinct
  <2>4. Value(t, l) = e.mem[l]
    BY <1>4, <2>2, <2>3, ValueOfL2
  <2>5. QED
    BY <2>1, <2>4 DEF Value
<1>6. ASSUME NEW l \in Lines \ fills PROVE Carries(s, t, l)
  <2>1. SameLine(e, t, l) /\ t.mem[l] = e.mem[l]
    BY <1>4 DEF SameLine
  <2>2. QED
    BY <1>1, <2>1, SameLineValue, CarriesTransitive
<1>7. QED
  BY <1>2, <1>4, <1>5, <1>6 DEF e

(***************************************************************************)
(* The sets of the L2: L1_SETS lines make a page and L1_SETS divides       *)
(* L2_SETS.                                                                *)
(***************************************************************************)
LEMMA DivMod ==
  ASSUME NEW k \in Nat, NEW n \in Nat \ {0}
  PROVE  /\ k = n * (k \div n) + (k % n)
         /\ k \div n \in Int /\ k % n \in 0 .. n - 1
OBVIOUS

LEMMA AtLeast ==
  ASSUME NEW a \in Nat, NEW m \in Int, m >= 1 PROVE a * m >= a
OBVIOUS

LEMMA L2HasMoreSets == L2_SETS >= L1_SETS
PROOF
<1>1. /\ L1_SETS \in Nat \ {0} /\ L2_SETS \in Nat \ {0} /\ L2_SETS % L1_SETS = 0
  BY GeometryAssumption
<1>2. L2_SETS < L1_SETS => L2_SETS % L1_SETS = L2_SETS
  BY <1>1
<1>3. QED
  BY <1>1, <1>2

\* The lines of one page lie in different L2 sets.
LEMMA SamePageOtherSetOrdered ==
  ASSUME NEW k \in Nat, NEW l \in Nat,
         page_of(k) = page_of(l), l2_to_index(k) = l2_to_index(l), k <= l
  PROVE  k = l
PROOF
<1> DEFINE a == k \div L2_SETS
           b == l \div L2_SETS
           r == k % L2_SETS
           q == k \div L1_SETS
<1>1. /\ L1_SETS \in Nat \ {0} /\ L2_SETS \in Nat \ {0} /\ L2_SETS >= L1_SETS
  BY GeometryAssumption, L2HasMoreSets
<1>2. /\ k = L2_SETS * a + r /\ l = L2_SETS * b + r
      /\ a \in Int /\ b \in Int /\ r \in Int
  BY <1>1, DivMod DEF l2_to_index
<1>3. /\ k = L1_SETS * q + (k % L1_SETS) /\ l = L1_SETS * q + (l % L1_SETS)
      /\ q \in Int
      /\ k % L1_SETS \in 0 .. L1_SETS - 1 /\ l % L1_SETS \in 0 .. L1_SETS - 1
  BY <1>1, DivMod DEF page_of
<1> HIDE DEF a, b, r, q
<1>4. l - k < L1_SETS
  <2>1. L1_SETS * q \in Int
    BY <1>1, <1>3
  <2>2. QED
    BY <1>1, <1>3, <2>1
<1>5. l - k = L2_SETS * (b - a)
  BY <1>1, <1>2
<1>6. CASE b - a >= 1
  <2>1. L2_SETS * (b - a) >= L2_SETS
    BY <1>1, <1>2, <1>6, AtLeast
  <2>2. QED
    BY <1>1, <1>4, <1>5, <2>1
<1>7. CASE b - a <= -1
  <2>1. L2_SETS * (a - b) >= L2_SETS
    BY <1>1, <1>2, <1>7, AtLeast
  <2>2. L2_SETS * (b - a) = 0 - L2_SETS * (a - b) /\ L2_SETS * (a - b) \in Int
    BY <1>1, <1>2
  <2>3. l - k < 0
    BY <1>1, <1>5, <2>1, <2>2
  <2>4. QED
    BY <2>3
<1>8. CASE b = a
  BY <1>1, <1>2, <1>8
<1>9. QED
  BY <1>2, <1>6, <1>7, <1>8

LEMMA SamePageOtherSet ==
  ASSUME NEW k \in Nat, NEW l \in Nat,
         page_of(k) = page_of(l), l2_to_index(k) = l2_to_index(l)
  PROVE  k = l
PROOF
<1>1. k <= l \/ l <= k
  OBVIOUS
<1>2. QED
  BY <1>1, SamePageOtherSetOrdered

(***************************************************************************)
(* A miss: evict_l2, evict_l1, the fill, the prefetcher.                   *)
(***************************************************************************)
LEMMA L2VictimsPresent ==
  ASSUME NEW s, NEW fills, NEW V \in l2_victims(s, fills), NEW k \in V
  PROVE  /\ k \in Lines /\ s.l2[k].state # INVALID
         /\ \E l \in fills : l2_to_index(k) = l2_to_index(l)
PROOF
<1>1. PICK l \in fills : k \in in_l2_set(s, l)
  BY DEF l2_victims
<1>2. QED
  BY <1>1 DEF in_l2_set

\* What a prefetcher leaves after a miss on l: absent lines of the page were
\* filled, the missed line stayed, the others were carried.
Burst(s, t, l) ==
  \E fills \in SUBSET (Lines \ {l}) :
    /\ \A k \in fills : /\ s.l2[k].state = INVALID /\ page_of(k) = page_of(l)
                        /\ Value(t, k) = Value(s, k)
    /\ \A k \in Lines \ fills : Carries(s, t, k)
    /\ SameLine(s, t, l)

LEMMA PrefetchIsBurst ==
  ASSUME NEW s, Coherent(s), NEW l \in Lines,
         NEW fills \in SUBSET prefetchable(s, l), NEW V \in l2_victims(s, fills)
  PROVE  Burst(s, pf_fill_l2(s, fills, V), l)
PROOF
<1> DEFINE t == pf_fill_l2(s, fills, V)
<1>1. /\ fills \in SUBSET (Lines \ {l})
      /\ \A k \in fills : s.l2[k].state = INVALID /\ page_of(k) = page_of(l)
  BY DEF prefetchable
<1>2. V \in SUBSET Lines
  BY L2VictimsPresent
<1>3. l \notin V
  <2>1. SUFFICES ASSUME l \in V PROVE FALSE
    OBVIOUS
  <2>2. PICK k \in fills : l2_to_index(l) = l2_to_index(k)
    BY <2>1, L2VictimsPresent
  <2>3. k \in Nat /\ l \in Nat
    BY <1>1, GeometryAssumption DEF Lines
  <2>4. k = l
    BY <1>1, <2>2, <2>3, SamePageOtherSet
  <2>5. QED
    BY <1>1, <2>4
<1>4. /\ \A k \in fills : Value(t, k) = Value(s, k)
      /\ \A k \in Lines \ fills : Carries(s, t, k)
  BY <1>1, <1>2, PrefetchFillValue
<1>5. SameLine(s, t, l)
  BY <1>1, <1>2, <1>3, PrefetchFillOK
<1> HIDE DEF t
<1>6. Burst(s, t, l)
  BY <1>1, <1>4, <1>5 DEF Burst
<1>7. QED
  BY <1>6 DEF t

LEMMA StreamMissValue ==
  ASSUME NEW s, Coherent(s), NEW l \in Lines, NEW t \in after_stream_miss(s, l)
  PROVE  Burst(s, t, l)
BY PrefetchIsBurst DEF after_stream_miss

LEMMA NextlineMissValue ==
  ASSUME NEW s, Coherent(s), NEW l \in Lines, NEW t \in after_nextline_miss(s, l)
  PROVE  Burst(s, t, l)
PROOF
<1> DEFINE fills == prefetchable(s, l) \cap {l + 1}
<1>1. PICK V \in l2_victims(s, fills) : t = pf_fill_l2(s, fills, V)
  BY DEF after_nextline_miss
<1>2. fills \in SUBSET prefetchable(s, l)
  OBVIOUS
<1> HIDE DEF fills
<1>3. QED
  BY <1>1, <1>2, PrefetchIsBurst

\* From s to t every line but l keeps its value or is dropped clean.
OthersKeep(s, t, l) ==
  \A k \in Lines \ {l} : Value(t, k) = Value(s, k) \/ DroppedClean(s, t, k)

\* The prefetcher cannot bring back a line the same miss has thrown out: it
\* fills the page of l, and a victim in the L2 set of l is of another page.
LEMMA MissKeepsOthers ==
  ASSUME NEW s, Coherent(s), NEW l \in Lines, s.l2[l].state = INVALID,
         NEW V \in l2_victims(s, {l}),
         NEW e, e = evict_l2(s, V),
         NEW g \in Hierarchy,
         \A k \in Lines : Value(g, k) = Value(e, k) /\ Carries(e, g, k),
         NEW f, f.mem = g.mem, \A k \in Lines \ {l} : SameLine(g, f, k),
         NEW t, Burst(f, t, l)
  PROVE  OthersKeep(s, t, l)
PROOF
<1>1. V \in SUBSET Lines
  BY L2VictimsPresent
<1>2. PICK fills \in SUBSET (Lines \ {l}) :
        /\ \A k \in fills : /\ page_of(k) = page_of(l)
                            /\ Value(t, k) = Value(f, k)
        /\ \A k \in Lines \ fills : Carries(f, t, k)
  BY DEF Burst
<1>3. ASSUME NEW k \in Lines \ {l}
      PROVE  Value(f, k) = Value(e, k) /\ Carries(s, f, k)
  <2>1. Value(f, k) = Value(g, k) /\ Carries(g, f, k)
    BY SameLineValue
  <2>2. Carries(s, e, k)
    BY <1>1, EvictL2Value
  <2>3. QED
    BY <2>1, <2>2, CarriesTransitive
<1>4. ASSUME NEW k \in fills PROVE Value(t, k) = Value(s, k)
  <2>1. k \notin V
    <3>1. SUFFICES ASSUME k \in V PROVE FALSE
      OBVIOUS
    <3>2. l2_to_index(k) = l2_to_index(l)
      BY <3>1, L2VictimsPresent
    <3>3. k \in Nat /\ l \in Nat
      BY <1>2, GeometryAssumption DEF Lines
    <3>4. QED
      BY <1>2, <3>2, <3>3, SamePageOtherSet
  <2>2. SameLine(s, e, k) /\ e.mem[k] = s.mem[k] /\ s \in Hierarchy
    BY <1>1, <2>1, EvictL2Effect DEF Coherent
  <2>3. QED
    BY <1>2, <1>3, <2>2, SameLineValue
<1>5. ASSUME NEW k \in Lines \ {l}, k \notin fills
      PROVE  Value(t, k) = Value(s, k) \/ DroppedClean(s, t, k)
  <2>1. Carries(s, f, k) /\ Carries(f, t, k)
    BY <1>2, <1>3, <1>5
  <2>2. QED
    BY <2>1, CarriesTransitive DEF Carries
<1>6. QED
  BY <1>4, <1>5 DEF OthersKeep

\* The missed line itself: memory had its value, the L1 copy has it now.
LEMMA MissedLine ==
  ASSUME NEW s, Coherent(s), NEW l \in Lines, s.l2[l].state = INVALID,
         NEW V \in l2_victims(s, {l})
  PROVE  /\ Value(s, l) = s.mem[l]
         /\ evict_l2(s, V).mem[l] = s.mem[l]
PROOF
<1>1. V \in SUBSET Lines /\ l \notin V
  BY L2VictimsPresent
<1>2. QED
  BY <1>1, EvictL2Effect DEF Value

LEMMA BurstKeepsMissed ==
  ASSUME NEW f, Coherent(f), NEW t, NEW l \in Lines, Burst(f, t, l),
         NEW c \in Cores, holds(f.l1d[c], l) \/ holds(f.l1i[c], l)
  PROVE  Value(t, l) = Value(f, l) /\ t.l1d[c][l] = f.l1d[c][l]
PROOF
<1>1. SameLine(f, t, l) /\ Carries(f, t, l)
  BY DEF Burst
<1>2. f.l2[l].state # INVALID
  BY DEF Coherent, LineOK, DirectoryOK
<1>3. QED
  BY <1>1, <1>2 DEF Carries, DroppedClean, SameLine

(***************************************************************************)
(* The handlers.  An access of line l from s to t leaves the other lines   *)
(* their values, but for the clean ones the L2 drops.                      *)
(***************************************************************************)
ReadLeaves(s, t, l) == Coherent(t) /\ OthersKeep(s, t, l) /\ Value(t, l) = Value(s, l)

StoreLeaves(s, t, c, l, w, x) ==
  /\ Coherent(t) /\ OthersKeep(s, t, l)
  /\ t.l1d[c][l].state = MODIFIED
  /\ Value(t, l) = Merged(Value(s, l), w, x)

LEMMA ReadL2HitValue ==
  ASSUME NEW s, Coherent(s), NEW c \in Cores, NEW l \in Lines, NEW V \in SUBSET Lines,
         \A k \in V : holds(s.l1d[c], k),
         ~holds(s.l1d[c], l), s.l2[l].state # INVALID
  PROVE  LET r == read_l2_hit_result(s, c, l, V)
         IN  ReadLeaves(s, r, l) /\ r.l1d[c][l].data = Value(s, l)
PROOF
<1> DEFINE r == read_l2_hit_result(s, c, l, V)
           e == evict_l1_d(s, c, V)
<1>1. /\ Coherent(r) /\ r.mem = s.mem
      /\ \A k \in Lines \ {l} : SameLine(e, r, k)
      /\ holds(r.l1d[c], l)
      /\ r.l1d[c][l].data = snooped_data(s, s.l2[l].d, l)
  BY ReadL2HitOK
<1>2. s \in Hierarchy /\ \A k \in V : LineOK(s, k)
  BY DEF Coherent
<1>3. e \in Hierarchy /\ e.mem = s.mem /\ \A k \in Lines : Value(e, k) = Value(s, k)
  BY <1>2, EvictL1DOK, EvictL1DValue
<1> HIDE DEF r, e
<1>4. r.l1d[c][l].data = Value(s, l)
  BY <1>1 DEF Value
<1>5. Value(r, l) = Value(s, l)
  BY <1>1, <1>4, ValueOfCopy DEF Coherent
<1>6. OthersKeep(s, r, l)
  BY <1>1, <1>3, SameLineValue DEF OthersKeep
<1>7. QED
  BY <1>1, <1>4, <1>5, <1>6 DEF ReadLeaves, r

LEMMA FetchL2HitValue ==
  ASSUME NEW s, Coherent(s), NEW c \in Cores, NEW l \in Lines, NEW V \in SUBSET Lines,
         \A k \in V : holds(s.l1i[c], k),
         ~holds(s.l1i[c], l), s.l2[l].state \in {EXCLUSIVE, SHARED}
  PROVE  LET r == fetch_l2_hit_result(s, c, l, V)
         IN  ReadLeaves(s, r, l) /\ r.l1i[c][l].data = Value(s, l)
PROOF
<1> DEFINE r == fetch_l2_hit_result(s, c, l, V)
           e == evict_l1_i(s, c, V)
<1>1. /\ Coherent(r) /\ r.mem = s.mem
      /\ \A k \in Lines \ {l} : SameLine(e, r, k)
      /\ holds(r.l1i[c], l)
      /\ r.l1i[c][l].data = s.l2[l].data
      /\ \A o \in Cores : s.l1d[o][l].state # MODIFIED
  BY FetchL2HitOK
<1>2. s \in Hierarchy /\ \A k \in V : LineOK(s, k)
  BY DEF Coherent
<1>3. e \in Hierarchy /\ e.mem = s.mem /\ \A k \in Lines : Value(e, k) = Value(s, k)
  BY <1>2, EvictL1IOK, EvictL1IValue
<1> HIDE DEF r, e
<1>4. r.l1i[c][l].data = Value(s, l)
  BY <1>1, <1>2, ValueOfL2, StatesDistinct
<1>5. Value(r, l) = Value(s, l)
  BY <1>1, <1>4, ValueOfCopy DEF Coherent
<1>6. OthersKeep(s, r, l)
  BY <1>1, <1>3, SameLineValue DEF OthersKeep
<1>7. QED
  BY <1>1, <1>4, <1>5, <1>6 DEF ReadLeaves, r

LEMMA WriteL1HitValue ==
  ASSUME NEW s, Coherent(s), NEW c \in Cores, NEW l \in Lines,
         holds(s.l1d[c], l), NEW w \in Words, NEW x \in Vals
  PROVE  StoreLeaves(s, write_l1_hit_result(s, c, l, w, x), c, l, w, x)
PROOF
<1> DEFINE r == write_l1_hit_result(s, c, l, w, x)
<1>1. /\ Coherent(r) /\ r.mem = s.mem
      /\ \A k \in Lines \ {l} : SameLine(s, r, k)
      /\ r.l1d[c][l].state = MODIFIED
      /\ r.l1d[c][l].data = Merged(s.l1d[c][l].data, w, x)
  BY WriteL1HitOK
<1> HIDE DEF r
<1>2. s.l1d[c][l].data = Value(s, l)
  BY ValueOfCopy DEF Coherent
<1>3. Value(r, l) = Merged(Value(s, l), w, x)
  BY <1>1, <1>2, ValueOfCopy, StatesDistinct DEF Coherent, holds
<1>4. OthersKeep(s, r, l)
  BY <1>1, SameLineValue DEF OthersKeep, Coherent
<1>5. QED
  BY <1>1, <1>3, <1>4 DEF StoreLeaves, r

LEMMA WriteL2HitValue ==
  ASSUME NEW s, Coherent(s), NEW c \in Cores, NEW l \in Lines, NEW V \in SUBSET Lines,
         \A k \in V : holds(s.l1d[c], k), ~holds(s.l1d[c], l), s.l2[l].state # INVALID,
         NEW w \in Words, NEW x \in Vals
  PROVE  StoreLeaves(s, write_l2_hit_result(s, c, l, w, x, V), c, l, w, x)
PROOF
<1> DEFINE r == write_l2_hit_result(s, c, l, w, x, V)
           t == snoop_invalidate_peers(s, s.l2[l].d \ {c}, l)
           e == evict_l1_d(t, c, V)
<1>1. /\ Coherent(r) /\ r.mem = s.mem
      /\ EvictsAfterSnoop(s, r, c, l, V)
      /\ r.l1d[c][l].state = MODIFIED
      /\ r.l1d[c][l].data = Merged(snooped_data(s, s.l2[l].d, l), w, x)
  BY WriteL2HitOK
<1>2. /\ t \in Hierarchy /\ t.mem = s.mem
      /\ \A k \in V : LineOK(t, k) /\ holds(t.l1d[c], k)
      /\ \A k \in Lines \ {l} : SameLine(s, t, k) /\ SameLine(e, r, k)
  BY <1>1 DEF EvictsAfterSnoop
<1> HIDE DEF r, t
<1>3. e \in Hierarchy /\ e.mem = t.mem /\ \A k \in Lines : Value(e, k) = Value(t, k)
  BY <1>2, EvictL1DOK, EvictL1DValue
<1> HIDE DEF e
<1>4. Value(r, l) = Merged(Value(s, l), w, x)
  <2>1. Value(r, l) = r.l1d[c][l].data
    BY <1>1, ValueOfCopy, StatesDistinct DEF Coherent, holds
  <2>2. QED
    BY <1>1, <2>1 DEF Value
<1>5. OthersKeep(s, r, l)
  BY <1>1, <1>2, <1>3, SameLineValue DEF OthersKeep, Coherent
<1>6. QED
  BY <1>1, <1>4, <1>5 DEF StoreLeaves, r

\* A demand miss of a read: evict_l2, evict_l1, the fills, the prefetches.
LEMMA ReadMissValue ==
  ASSUME NEW s, Coherent(s), NEW c \in Cores, NEW l \in Lines, s.l2[l].state = INVALID,
         NEW V2 \in l2_victims(s, {l}),
         NEW V1 \in l1_victims(evict_l2(s, V2).l1d[c], l),
         NEW t \in after_stream_miss(read_miss_fill(evict_l2(s, V2), c, l, V1), l)
  PROVE  ReadLeaves(s, t, l) /\ s.mem[l] = Value(s, l)
PROOF
<1> DEFINE e == evict_l2(s, V2)
           g == evict_l1_d(e, c, V1)
           f == read_miss_fill(e, c, l, V1)
<1>1. Coherent(e) /\ e.l2[l].state = INVALID
  BY StillAbsent, L2Victims
<1>2. e.mem[l] = s.mem[l] /\ Value(s, l) = s.mem[l]
  BY MissedLine
<1>e. e = evict_l2(s, V2) /\ V1 \in l1_victims(e.l1d[c], l)
      /\ t \in after_stream_miss(f, l)
  OBVIOUS
<1> HIDE DEF e
<1>3. V1 \in SUBSET Lines /\ \A k \in V1 : holds(e.l1d[c], k)
  BY <1>e, L1Victims
<1>4. e \in Hierarchy /\ \A k \in V1 : LineOK(e, k)
  BY <1>1, <1>3 DEF Coherent
<1>5. g \in Hierarchy /\ g.mem = e.mem
      /\ \A k \in Lines : Value(g, k) = Value(e, k) /\ Carries(e, g, k)
  BY <1>3, <1>4, EvictL1DOK, EvictL1DValue
<1>6. /\ Coherent(f) /\ f.mem = e.mem
      /\ \A k \in Lines \ {l} : SameLine(g, f, k)
      /\ f.l1d[c][l].state = EXCLUSIVE /\ f.l1d[c][l].data = e.mem[l]
  BY <1>1, <1>3, ReadMissFillOK
<1> HIDE DEF f, g
<1>7. Burst(f, t, l) /\ Coherent(t)
  BY <1>e, <1>6, StreamMissValue, StreamMissOK
<1>8. OthersKeep(s, t, l)
  BY <1>e, <1>5, <1>6, <1>7, MissKeepsOthers
<1>9. holds(f.l1d[c], l)
  BY <1>6, StatesDistinct DEF holds
<1>10. Value(t, l) = Value(f, l) /\ Value(f, l) = e.mem[l]
  BY <1>6, <1>7, <1>9, BurstKeepsMissed, ValueOfCopy DEF Coherent
<1>11. QED
  BY <1>2, <1>7, <1>8, <1>10 DEF ReadLeaves

LEMMA WriteMissValue ==
  ASSUME NEW s, Coherent(s), NEW c \in Cores, NEW l \in Lines, s.l2[l].state = INVALID,
         NEW w \in Words, NEW x \in Vals,
         NEW V2 \in l2_victims(s, {l}),
         NEW V1 \in l1_victims(evict_l2(s, V2).l1d[c], l),
         NEW t \in after_stream_miss(write_miss_fill(evict_l2(s, V2), c, l, w, x, V1), l)
  PROVE  StoreLeaves(s, t, c, l, w, x)
PROOF
<1> DEFINE e == evict_l2(s, V2)
           g == evict_l1_d(e, c, V1)
           f == write_miss_fill(e, c, l, w, x, V1)
<1>1. Coherent(e) /\ e.l2[l].state = INVALID
  BY StillAbsent, L2Victims
<1>2. e.mem[l] = s.mem[l] /\ Value(s, l) = s.mem[l]
  BY MissedLine
<1>e. e = evict_l2(s, V2) /\ V1 \in l1_victims(e.l1d[c], l)
      /\ t \in after_stream_miss(f, l)
  OBVIOUS
<1> HIDE DEF e
<1>3. V1 \in SUBSET Lines /\ \A k \in V1 : holds(e.l1d[c], k)
  BY <1>e, L1Victims
<1>4. e \in Hierarchy /\ \A k \in V1 : LineOK(e, k)
  BY <1>1, <1>3 DEF Coherent
<1>5. g \in Hierarchy /\ g.mem = e.mem
      /\ \A k \in Lines : Value(g, k) = Value(e, k) /\ Carries(e, g, k)
  BY <1>3, <1>4, EvictL1DOK, EvictL1DValue
<1>6. /\ Coherent(f) /\ f.mem = e.mem
      /\ \A k \in Lines \ {l} : SameLine(g, f, k)
      /\ f.l1d[c][l].state = MODIFIED /\ f.l1d[c][l].data = Merged(e.mem[l], w, x)
  <2>1. Coherent(f) /\ f.mem = e.mem
    BY <1>1, <1>3, WriteMissFillOK
  <2>2. \A k \in Lines \ {l} : SameLine(g, f, k)
    BY <1>1, <1>3, WriteMissFillOK
  <2>3. DirtyCopy(f, c, l, Merged(e.mem[l], w, x))
    BY <1>1, <1>3, WriteMissFillOK
  <2>4. QED
    BY <2>1, <2>2, <2>3 DEF DirtyCopy
<1> HIDE DEF f, g
<1>7. Burst(f, t, l) /\ Coherent(t)
  BY <1>e, <1>6, StreamMissValue, StreamMissOK
<1>8. OthersKeep(s, t, l)
  BY <1>e, <1>5, <1>6, <1>7, MissKeepsOthers
<1>9. holds(f.l1d[c], l)
  BY <1>6, StatesDistinct DEF holds
<1>10. /\ Value(t, l) = Value(f, l) /\ Value(f, l) = Merged(e.mem[l], w, x)
       /\ t.l1d[c][l].state = MODIFIED
  BY <1>6, <1>7, <1>9, BurstKeepsMissed, ValueOfCopy DEF Coherent
<1>11. QED
  BY <1>2, <1>7, <1>8, <1>10 DEF StoreLeaves

LEMMA FetchMissValue ==
  ASSUME NEW s, Coherent(s), NEW c \in Cores, NEW l \in Lines, s.l2[l].state = INVALID,
         NEW V2 \in l2_victims(s, {l}),
         NEW V1 \in l1_victims(evict_l2(s, V2).l1i[c], l),
         NEW t \in after_nextline_miss(fetch_miss_fill(evict_l2(s, V2), c, l, V1), l)
  PROVE  ReadLeaves(s, t, l) /\ s.mem[l] = Value(s, l)
PROOF
<1> DEFINE e == evict_l2(s, V2)
           g == evict_l1_i(e, c, V1)
           f == fetch_miss_fill(e, c, l, V1)
<1>1. Coherent(e) /\ e.l2[l].state = INVALID
  BY StillAbsent, L2Victims
<1>2. e.mem[l] = s.mem[l] /\ Value(s, l) = s.mem[l]
  BY MissedLine
<1>e. e = evict_l2(s, V2) /\ V1 \in l1_victims(e.l1i[c], l)
      /\ t \in after_nextline_miss(f, l)
  OBVIOUS
<1> HIDE DEF e
<1>3. V1 \in SUBSET Lines /\ \A k \in V1 : holds(e.l1i[c], k)
  BY <1>e, L1Victims
<1>4. e \in Hierarchy /\ \A k \in V1 : LineOK(e, k)
  BY <1>1, <1>3 DEF Coherent
<1>5. g \in Hierarchy /\ g.mem = e.mem
      /\ \A k \in Lines : Value(g, k) = Value(e, k) /\ Carries(e, g, k)
  BY <1>3, <1>4, EvictL1IOK, EvictL1IValue
<1>6. /\ Coherent(f) /\ f.mem = e.mem
      /\ \A k \in Lines \ {l} : SameLine(g, f, k)
      /\ holds(f.l1i[c], l) /\ f.l1i[c][l].data = e.mem[l]
  BY <1>1, <1>3, FetchMissFillOK
<1> HIDE DEF f, g
<1>7. Burst(f, t, l) /\ Coherent(t)
  BY <1>e, <1>6, NextlineMissValue, NextlineMissOK
<1>8. OthersKeep(s, t, l)
  BY <1>e, <1>5, <1>6, <1>7, MissKeepsOthers
<1>9. Value(t, l) = Value(f, l) /\ Value(f, l) = e.mem[l]
  BY <1>6, <1>7, BurstKeepsMissed, ValueOfCopy DEF Coherent
<1>10. QED
  BY <1>2, <1>7, <1>8, <1>9 DEF ReadLeaves

(***************************************************************************)
(* The steps.  Seen through the values of the lines there are three.       *)
(***************************************************************************)
ReadStep(l) ==
  \E t : become(t) /\ ReadLeaves(here, t, l) /\ ret' = <<l, Value(here, l)>>

StoreStep(c, l, w, x) ==
  \E t : become(t) /\ StoreLeaves(here, t, c, l, w, x) /\ ret' = <<>>

AbortStep ==
  /\ become([here EXCEPT !.abort = "fetch_of_modified"])
  /\ UNCHANGED ret

LEMMA HereFields ==
  ASSUME IInv
  PROVE  /\ Coherent(here) /\ here \in Hierarchy /\ here.abort = abort
         /\ here.l1d = l1d /\ here.l1i = l1i /\ here.l2 = l2 /\ here.mem = mem
BY DEF IInv, Coherent, here

LEMMA NothingMoves ==
  ASSUME NEW s, Coherent(s), NEW l \in Lines
  PROVE  ReadLeaves(s, s, l)
BY DEF ReadLeaves, OthersKeep

LEMMA ReadIsReadStep ==
  ASSUME IInv, NEW c \in Cores, NEW l \in Lines, cpu_read(c, l)
  PROVE  ReadStep(l)
PROOF
<1>1. /\ Coherent(here) /\ here \in Hierarchy
      /\ here.l1d = l1d /\ here.l2 = l2 /\ here.mem = mem
  BY HereFields
<1>2. CASE read_l1_hit(c, l)
  <2>1. become(here) /\ ret' = <<l, here.l1d[c][l].data>> /\ holds(here.l1d[c], l)
    BY <1>1, <1>2 DEF read_l1_hit
  <2>2. here.l1d[c][l].data = Value(here, l)
    BY <1>1, <2>1, ValueOfCopy DEF Coherent
  <2>3. ReadLeaves(here, here, l)
    BY <1>1, NothingMoves
  <2>4. QED
    BY <2>1, <2>2, <2>3 DEF ReadStep
<1>3. CASE read_l2_hit(c, l)
  <2>1. PICK V \in l1_victims(l1d[c], l) :
          /\ become(read_l2_hit_result(here, c, l, V))
          /\ ret' = <<l, read_l2_hit_result(here, c, l, V).l1d[c][l].data>>
    BY <1>3 DEF read_l2_hit
  <2>2. V \in SUBSET Lines /\ \A k \in V : holds(here.l1d[c], k)
    BY <1>1, L1Victims
  <2>3. ~holds(here.l1d[c], l) /\ here.l2[l].state # INVALID
    BY <1>1, <1>3 DEF read_l2_hit
  <2> DEFINE t == read_l2_hit_result(here, c, l, V)
  <2>4. ReadLeaves(here, t, l) /\ t.l1d[c][l].data = Value(here, l)
    BY <1>1, <2>2, <2>3, ReadL2HitValue
  <2>5. become(t) /\ ret' = <<l, t.l1d[c][l].data>>
    BY <2>1
  <2> HIDE DEF t
  <2>6. QED
    BY <2>4, <2>5 DEF ReadStep
<1>4. CASE read_miss(c, l)
  <2>1. PICK V2 \in l2_victims(here, {l}) :
          \E V1 \in l1_victims(evict_l2(here, V2).l1d[c], l) :
            \E t \in after_stream_miss(read_miss_fill(evict_l2(here, V2), c, l, V1), l) :
              become(t)
    BY <1>4 DEF read_miss
  <2>2. PICK V1 \in l1_victims(evict_l2(here, V2).l1d[c], l) :
          \E t \in after_stream_miss(read_miss_fill(evict_l2(here, V2), c, l, V1), l) :
            become(t)
    BY <2>1
  <2>3. PICK t \in after_stream_miss(read_miss_fill(evict_l2(here, V2), c, l, V1), l) :
          become(t)
    BY <2>2
  <2>4. here.l2[l].state = INVALID /\ ret' = <<l, here.mem[l]>>
    BY <1>1, <1>4 DEF read_miss
  <2>5. ReadLeaves(here, t, l) /\ here.mem[l] = Value(here, l)
    BY <1>1, <2>4, ReadMissValue
  <2>6. QED
    BY <2>3, <2>4, <2>5 DEF ReadStep
<1>5. QED
  BY <1>2, <1>3, <1>4 DEF cpu_read

LEMMA WriteIsStoreStep ==
  ASSUME IInv, NEW c \in Cores, NEW l \in Lines, NEW w \in Words, NEW x \in Vals,
         cpu_write(c, l, w, x)
  PROVE  StoreStep(c, l, w, x)
PROOF
<1>1. /\ Coherent(here) /\ here \in Hierarchy
      /\ here.l1d = l1d /\ here.l2 = l2 /\ here.mem = mem
  BY HereFields
<1>2. CASE write_l1_hit(c, l, w, x)
  <2>1. holds(here.l1d[c], l) /\ ret' = <<>>
    BY <1>1, <1>2 DEF write_l1_hit
  <2>2. here.l2[l].state # INVALID
    BY <1>1, <2>1 DEF Coherent, LineOK, DirectoryOK
  <2>3. become(write_l1_hit_result(here, c, l, w, x))
    BY <1>1, <1>2, <2>2 DEF write_l1_hit
  <2>4. StoreLeaves(here, write_l1_hit_result(here, c, l, w, x), c, l, w, x)
    BY <1>1, <2>1, WriteL1HitValue
  <2>5. QED
    BY <2>1, <2>3, <2>4 DEF StoreStep
<1>3. CASE write_l2_hit(c, l, w, x)
  <2>1. PICK V \in l1_victims(l1d[c], l) :
          become(write_l2_hit_result(here, c, l, w, x, V))
    BY <1>3 DEF write_l2_hit
  <2>2. V \in SUBSET Lines /\ \A k \in V : holds(here.l1d[c], k)
    BY <1>1, L1Victims
  <2>3. ~holds(here.l1d[c], l) /\ here.l2[l].state # INVALID /\ ret' = <<>>
    BY <1>1, <1>3 DEF write_l2_hit
  <2>4. StoreLeaves(here, write_l2_hit_result(here, c, l, w, x, V), c, l, w, x)
    BY <1>1, <2>2, <2>3, WriteL2HitValue
  <2>5. QED
    BY <2>1, <2>3, <2>4 DEF StoreStep
<1>4. CASE write_miss(c, l, w, x)
  <2>1. PICK V2 \in l2_victims(here, {l}) :
          \E V1 \in l1_victims(evict_l2(here, V2).l1d[c], l) :
            \E t \in after_stream_miss(
                       write_miss_fill(evict_l2(here, V2), c, l, w, x, V1), l) :
              become(t)
    BY <1>4 DEF write_miss
  <2>2. PICK V1 \in l1_victims(evict_l2(here, V2).l1d[c], l) :
          \E t \in after_stream_miss(
                     write_miss_fill(evict_l2(here, V2), c, l, w, x, V1), l) :
            become(t)
    BY <2>1
  <2>3. PICK t \in after_stream_miss(
                     write_miss_fill(evict_l2(here, V2), c, l, w, x, V1), l) :
          become(t)
    BY <2>2
  <2>4. here.l2[l].state = INVALID /\ ret' = <<>>
    BY <1>1, <1>4 DEF write_miss
  <2>5. StoreLeaves(here, t, c, l, w, x)
    BY <1>1, <2>4, WriteMissValue
  <2>6. QED
    BY <2>3, <2>4, <2>5 DEF StoreStep
<1>5. QED
  BY <1>2, <1>3, <1>4 DEF cpu_write

LEMMA FetchIsReadStep ==
  ASSUME IInv, NEW c \in Cores, NEW l \in Lines, cpu_fetch(c, l)
  PROVE  ReadStep(l) \/ AbortStep
PROOF
<1>1. /\ Coherent(here) /\ here \in Hierarchy
      /\ here.l1i = l1i /\ here.l2 = l2 /\ here.mem = mem
  BY HereFields
<1>2. CASE fetch_l1_hit(c, l)
  <2>1. become(here) /\ ret' = <<l, here.l1i[c][l].data>> /\ holds(here.l1i[c], l)
    BY <1>1, <1>2 DEF fetch_l1_hit
  <2>2. here.l1i[c][l].data = Value(here, l)
    BY <1>1, <2>1, ValueOfCopy DEF Coherent
  <2>3. ReadLeaves(here, here, l)
    BY <1>1, NothingMoves
  <2>4. QED
    BY <2>1, <2>2, <2>3 DEF ReadStep
<1>3. CASE fetch_modified(c, l)
  BY <1>3 DEF fetch_modified, AbortStep
<1>4. CASE fetch_l2_hit(c, l)
  <2>1. PICK V \in l1_victims(l1i[c], l) :
          /\ become(fetch_l2_hit_result(here, c, l, V))
          /\ ret' = <<l, fetch_l2_hit_result(here, c, l, V).l1i[c][l].data>>
    BY <1>4 DEF fetch_l2_hit
  <2>2. V \in SUBSET Lines /\ \A k \in V : holds(here.l1i[c], k)
    BY <1>1, L1Victims
  <2>3. ~holds(here.l1i[c], l) /\ here.l2[l].state \in {EXCLUSIVE, SHARED}
    BY <1>1, <1>4 DEF fetch_l2_hit
  <2> DEFINE t == fetch_l2_hit_result(here, c, l, V)
  <2>4. ReadLeaves(here, t, l) /\ t.l1i[c][l].data = Value(here, l)
    BY <1>1, <2>2, <2>3, FetchL2HitValue
  <2>5. become(t) /\ ret' = <<l, t.l1i[c][l].data>>
    BY <2>1
  <2> HIDE DEF t
  <2>6. QED
    BY <2>4, <2>5 DEF ReadStep
<1>5. CASE fetch_miss(c, l)
  <2>1. PICK V2 \in l2_victims(here, {l}) :
          \E V1 \in l1_victims(evict_l2(here, V2).l1i[c], l) :
            \E t \in after_nextline_miss(fetch_miss_fill(evict_l2(here, V2), c, l, V1), l) :
              become(t)
    BY <1>5 DEF fetch_miss
  <2>2. PICK V1 \in l1_victims(evict_l2(here, V2).l1i[c], l) :
          \E t \in after_nextline_miss(fetch_miss_fill(evict_l2(here, V2), c, l, V1), l) :
            become(t)
    BY <2>1
  <2>3. PICK t \in after_nextline_miss(fetch_miss_fill(evict_l2(here, V2), c, l, V1), l) :
          become(t)
    BY <2>2
  <2>4. here.l2[l].state = INVALID /\ ret' = <<l, here.mem[l]>>
    BY <1>1, <1>5 DEF fetch_miss
  <2>5. ReadLeaves(here, t, l) /\ here.mem[l] = Value(here, l)
    BY <1>1, <2>4, FetchMissValue
  <2>6. QED
    BY <2>3, <2>4, <2>5 DEF ReadStep
<1>6. QED
  BY <1>2, <1>3, <1>4, <1>5 DEF cpu_fetch

LEMMA NextIsAStep ==
  ASSUME IInv, Next
  PROVE  \E c \in Cores, l \in Lines :
           \/ ReadStep(l)
           \/ \E w \in Words, x \in Vals : StoreStep(c, l, w, x)
           \/ AbortStep
PROOF
<1>1. PICK c \in Cores, l \in Lines :
        \/ cpu_read(c, l)
        \/ \E w \in Words, x \in Vals : cpu_write(c, l, w, x)
        \/ cpu_fetch(c, l)
  BY DEF Next, NextOn
<1>2. QED
  BY <1>1, ReadIsReadStep, WriteIsStoreStep, FetchIsReadStep

(***************************************************************************)
(* The value is what current(l) gives, before and after a step.            *)
(***************************************************************************)
LEMMA CurrentOfCoherent ==
  ASSUME NEW s \in Hierarchy, NEW l \in Lines, LineOK(s, l), NEW c \in Cores
  PROVE  (IF \E o \in Cores : s.l1d[o][l].state = MODIFIED \/ s.l2[l].state # INVALID
            THEN snooped_data(s, Cores, l) ELSE s.mem[l]) = Value(s, l)
PROOF
<1>1. (\E o \in Cores : s.l1d[o][l].state = MODIFIED \/ s.l2[l].state # INVALID)
         <=> s.l2[l].state # INVALID
  BY StatesDistinct DEF LineOK, StatesOK
<1> DEFINE owners == {o \in Cores : s.l1d[o][l].state = MODIFIED}
           owners_d == {o \in s.l2[l].d : s.l1d[o][l].state = MODIFIED}
<1>2. owners = owners_d
  BY StatesDistinct DEF LineOK, DirectoryOK, holds, Hierarchy, L2Line
<1>3. /\ snooped_data(s, Cores, l) =
           IF owners = {} THEN s.l2[l].data ELSE s.l1d[CHOOSE o \in owners : TRUE][l].data
      /\ snooped_data(s, s.l2[l].d, l) =
           IF owners_d = {} THEN s.l2[l].data ELSE s.l1d[CHOOSE o \in owners_d : TRUE][l].data
  BY DEF snooped_data
<1> HIDE DEF owners, owners_d
<1>4. snooped_data(s, Cores, l) = snooped_data(s, s.l2[l].d, l)
  BY <1>2, <1>3
<1>5. QED
  BY <1>1, <1>4 DEF Value

LEMMA CurrentBefore ==
  ASSUME IInv, NEW c \in Cores, NEW l \in Lines
  PROVE  current(l) = Value(here, l)
PROOF
<1>1. /\ here \in Hierarchy /\ LineOK(here, l)
      /\ here.l1d = l1d /\ here.l2 = l2 /\ here.mem = mem
  BY HereFields DEF Coherent
<1>2. QED
  BY <1>1, CurrentOfCoherent DEF current

LEMMA CurrentAfter ==
  ASSUME NEW t, Coherent(t), become(t), NEW c \in Cores, NEW l \in Lines
  PROVE  current(l)' = Value(t, l)
PROOF
<1>1. /\ t \in Hierarchy /\ LineOK(t, l) /\ here' = t
      /\ l1d' = t.l1d /\ l2' = t.l2 /\ mem' = t.mem
  BY Become DEF Coherent, become
<1>2. current(l)' = IF \E o \in Cores : t.l1d[o][l].state = MODIFIED \/ t.l2[l].state # INVALID
                      THEN snooped_data(t, Cores, l) ELSE t.mem[l]
  BY <1>1 DEF current, snooped_data
<1>3. QED
  BY <1>1, <1>2, CurrentOfCoherent

(***************************************************************************)
(* The theorems.                                                           *)
(***************************************************************************)

\* A clean line leaves the L2 in this step and takes its value with it.
LostByCleanEviction(l) ==
  /\ l2[l].state \in {EXCLUSIVE, SHARED} /\ l2'[l].state = INVALID
  /\ current(l)' # current(l)

LEMMA OthersKeepCurrent ==
  ASSUME IInv, NEW c \in Cores, NEW t, Coherent(t), become(t), NEW l,
         OthersKeep(here, t, l), NEW k \in Lines \ {l}
  PROVE  current(k)' = current(k) \/ LostByCleanEviction(k)
PROOF
<1>1. current(k) = Value(here, k) /\ current(k)' = Value(t, k)
  BY CurrentBefore, CurrentAfter
<1>2. here.l2 = l2 /\ t.l2 = l2'
  BY DEF here, become
<1>3. Value(t, k) = Value(here, k) \/ DroppedClean(here, t, k)
  BY DEF OthersKeep
<1>4. QED
  BY <1>1, <1>2, <1>3 DEF LostByCleanEviction, DroppedClean

LEMMA ReadStepOnValues ==
  ASSUME IInv, NEW c \in Cores, NEW l \in Lines, ReadStep(l)
  PROVE  /\ ret' = <<l, current(l)>> /\ current(l)' = current(l)
         /\ \A k \in Lines \ {l} : current(k)' = current(k) \/ LostByCleanEviction(k)
PROOF
<1>1. PICK t : become(t) /\ ReadLeaves(here, t, l) /\ ret' = <<l, Value(here, l)>>
  BY DEF ReadStep
<1>2. Coherent(t) /\ OthersKeep(here, t, l) /\ Value(t, l) = Value(here, l)
  BY <1>1 DEF ReadLeaves
<1>3. current(l) = Value(here, l) /\ current(l)' = Value(t, l)
  BY <1>1, <1>2, CurrentBefore, CurrentAfter
<1>4. QED
  BY <1>1, <1>2, <1>3, OthersKeepCurrent

LEMMA StoreStepOnValues ==
  ASSUME IInv, NEW c \in Cores, NEW l \in Lines, NEW w \in Words, NEW x \in Vals,
         StoreStep(c, l, w, x)
  PROVE  /\ ret' = <<>> /\ current(l)' = [current(l) EXCEPT ![w] = x]
         /\ l1d'[c][l].state = MODIFIED
         /\ \A k \in Lines \ {l} : current(k)' = current(k) \/ LostByCleanEviction(k)
PROOF
<1>1. PICK t : become(t) /\ StoreLeaves(here, t, c, l, w, x) /\ ret' = <<>>
  BY DEF StoreStep
<1>2. /\ Coherent(t) /\ OthersKeep(here, t, l) /\ t.l1d[c][l].state = MODIFIED
      /\ Value(t, l) = Merged(Value(here, l), w, x)
  BY <1>1 DEF StoreLeaves
<1>3. current(l) = Value(here, l) /\ current(l)' = Value(t, l) /\ l1d' = t.l1d
  BY <1>1, <1>2, CurrentBefore, CurrentAfter DEF become
<1>4. \A k \in Lines \ {l} : current(k)' = current(k) \/ LostByCleanEviction(k)
  BY <1>1, <1>2, OthersKeepCurrent
<1>5. QED
  BY <1>1, <1>2, <1>3, <1>4 DEF Merged

LEMMA AbortStepOnValues ==
  ASSUME IInv, NEW c \in Cores, AbortStep
  PROVE  abort' # "none" /\ ret' = ret /\ \A k \in Lines : current(k)' = current(k)
PROOF
<1> DEFINE t == [here EXCEPT !.abort = "fetch_of_modified"]
<1>1. /\ Coherent(here) /\ here \in Hierarchy
      /\ here.l1d = l1d /\ here.l2 = l2 /\ here.mem = mem
  BY HereFields
<1>2. /\ t \in Hierarchy /\ t.abort = "fetch_of_modified" /\ t.mem = here.mem
      /\ t.l1d = here.l1d /\ t.l1i = here.l1i /\ t.l2 = here.l2
  BY <1>1 DEF Hierarchy, Aborts
<1>3. become(t) /\ ret' = ret
  BY DEF AbortStep
<1> HIDE DEF t
<1>4. Coherent(t) /\ \A k \in Lines : Value(t, k) = Value(here, k)
  BY <1>1, <1>2, SameLineOK, SameLineValue DEF Coherent, SameLine
<1>5. QED
  BY <1>2, <1>3, <1>4, CurrentBefore, CurrentAfter DEF become

LEMMA UnchangedValues ==
  ASSUME UNCHANGED vars
  PROVE  \A k \in Lines : current(k)' = current(k)
BY DEF vars, current, snooped_data, here

\* cpu_read and cpu_fetch deliver the current value of the line, from the L1,
\* a snooped peer, the L2 or memory, and do not change it: evictions, write
\* backs and prefetches of the same access included.
THEOREM ReadsDeliverTheCurrentValue == Spec => ReadsDeliverCurrentValue
PROOF
<1> DEFINE Delivered ==
      \/ ret' = <<>>
      \/ abort' # "none"
      \/ \E l \in Lines : ret' = <<l, current(l)>> /\ current(l)' = current(l)
<1>1. IInv /\ [Next]_vars => [Delivered]_vars
  <2>1. SUFFICES ASSUME IInv, Next PROVE Delivered
    OBVIOUS
  <2>2. PICK c \in Cores, l \in Lines :
           \/ ReadStep(l)
           \/ \E w \in Words, x \in Vals : StoreStep(c, l, w, x)
           \/ AbortStep
    BY <2>1, NextIsAStep
  <2>3. CASE ReadStep(l)
    BY <2>1, <2>3, ReadStepOnValues
  <2>4. CASE \E w \in Words, x \in Vals : StoreStep(c, l, w, x)
    BY <2>1, <2>4, StoreStepOnValues
  <2>5. CASE AbortStep
    BY <2>1, <2>5, AbortStepOnValues
  <2>6. QED
    BY <2>2, <2>3, <2>4, <2>5
<1>2. QED
  BY <1>1, IInvAlways, PTL DEF Spec, ReadsDeliverCurrentValue

\* A line changes its value only when a core stores to one of its words, or
\* when evict_l2 drops it from a state other than MODIFIED.
THEOREM ValuesChangeOnlyByStoreOrCleanEviction ==
  Spec => ValueChangesOnlyByStoreOrCleanEviction
PROOF
<1> DEFINE Change ==
      \A l \in Lines :
        \/ current(l)' = current(l)
        \/ stored(l)
        \/ l2[l].state \in {EXCLUSIVE, SHARED} /\ l2'[l].state = INVALID
<1>1. IInv /\ [Next]_vars => [Change]_vars
  <2>1. SUFFICES ASSUME IInv, Next PROVE Change
    OBVIOUS
  <2>2. PICK c \in Cores, l \in Lines :
           \/ ReadStep(l)
           \/ \E w \in Words, x \in Vals : StoreStep(c, l, w, x)
           \/ AbortStep
    BY <2>1, NextIsAStep
  <2>3. CASE ReadStep(l)
    BY <2>1, <2>3, ReadStepOnValues DEF LostByCleanEviction
  <2>4. CASE \E w \in Words, x \in Vals : StoreStep(c, l, w, x)
    <3>1. stored(l)
      BY <2>1, <2>4, StoreStepOnValues DEF stored
    <3>2. \A k \in Lines \ {l} : current(k)' = current(k) \/ LostByCleanEviction(k)
      BY <2>1, <2>4, StoreStepOnValues
    <3>3. QED
      BY <3>1, <3>2 DEF LostByCleanEviction
  <2>5. CASE AbortStep
    BY <2>1, <2>5, AbortStepOnValues
  <2>6. QED
    BY <2>2, <2>3, <2>4, <2>5
<1>2. QED
  BY <1>1, IInvAlways, PTL DEF Spec, ValueChangesOnlyByStoreOrCleanEviction

LEMMA NextIsFlat ==
  ASSUME IInv, Next, \A l \in Lines : ~LostByCleanEviction(l)
  PROVE  AbstractMemory!Next
         \/ UNCHANGED <<[l \in Lines |-> current(l)], ret>>
PROOF
<1> DEFINE memory == [l \in Lines |-> current(l)]
<1>1. PICK c \in Cores, l \in Lines :
         \/ ReadStep(l)
         \/ \E w \in Words, x \in Vals : StoreStep(c, l, w, x)
         \/ AbortStep
  BY NextIsAStep
<1>2. CASE ReadStep(l)
  <2>1. ret' = <<l, current(l)>> /\ \A k \in Lines : current(k)' = current(k)
    BY <1>2, ReadStepOnValues
  <2>2. memory' = memory /\ memory[l] = current(l)
    BY <2>1
  <2>3. AbstractMemory!Read(l)
    BY <2>1, <2>2 DEF AbstractMemory!Read
  <2>4. QED
    BY <2>3 DEF AbstractMemory!Next
<1>3. CASE \E w \in Words, x \in Vals : StoreStep(c, l, w, x)
  <2>1. PICK w \in Words, x \in Vals : StoreStep(c, l, w, x)
    BY <1>3
  <2>2. /\ ret' = <<>> /\ current(l)' = [current(l) EXCEPT ![w] = x]
        /\ \A k \in Lines \ {l} : current(k)' = current(k)
    BY <2>1, StoreStepOnValues
  <2>3. memory' = [memory EXCEPT ![l][w] = x]
    BY <2>2
  <2>4. AbstractMemory!Write(l, w, x)
    BY <2>2, <2>3 DEF AbstractMemory!Write
  <2>5. QED
    BY <2>4 DEF AbstractMemory!Next
<1>4. CASE AbortStep
  <2>1. ret' = ret /\ \A k \in Lines : current(k)' = current(k)
    BY <1>4, AbortStepOnValues
  <2>2. memory' = memory
    BY <2>1
  <2>3. QED
    BY <2>1, <2>2
<1>5. QED
  BY <1>1, <1>2, <1>3, <1>4

LEMMA InitIsFlat == Init => AbstractMemory!Init
PROOF
<1>1. SUFFICES ASSUME Init PROVE AbstractMemory!Init
  OBVIOUS
<1>2. ASSUME NEW l \in Lines PROVE current(l) = [w \in Words |-> Zero]
  BY <1>1, StatesDistinct DEF Init, current, NoL1Line, NoL2Line, ZeroLine
<1>3. QED
  BY <1>1, <1>2 DEF Init, AbstractMemory!Init

\* But for the clean evictions the caches are invisible: the hierarchy starts
\* as the flat memory of CoherentMemory, and every access that does not lose
\* a clean line's value is one of its reads or writes.
THEOREM FlatMemoryUnlessCleanEviction ==
  Spec => /\ AbstractMemory!Init
          /\ [][(\A l \in Lines : ~LostByCleanEviction(l))
                => \/ AbstractMemory!Next
                   \/ UNCHANGED <<[l \in Lines |-> current(l)], ret>>]_vars
PROOF
<1> DEFINE Flat == (\A l \in Lines : ~LostByCleanEviction(l))
                     => \/ AbstractMemory!Next
                        \/ UNCHANGED <<[l \in Lines |-> current(l)], ret>>
<1>1. IInv /\ [Next]_vars => [Flat]_vars
  BY NextIsFlat
<1>2. QED
  BY <1>1, InitIsFlat, IInvAlways, PTL DEF Spec
=============================================================================
