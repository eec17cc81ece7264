----------------------- MODULE VectorMigration_proofs -----------------------
(***************************************************************************)
(* Proofs about the profiles of a vector index, for all sources, profiles, *)
(* sizes of batches, switches and failures, as long as the state of an     *)
(* index is there where its alias is: what is searched, and what the state *)
(* says of a collection, is of one profile unless a run has mixed two.     *)
(***************************************************************************)
EXTENDS VectorMigration, TLAPS

\* d is laid out like the disk.
Shape(d) ==
  /\ d = Disk(d.exist, d.points, d.alias, d.state)
  /\ d.state = IndexState(d.state.active, d.state.space, d.state.aim, d.state.cursor)
  /\ d.points = [c \in Collections |-> [a \in Atoms |-> d.points[c][a]]]
  /\ d.exist \subseteq Collections /\ d.alias \in Collections \cup {None}

\* What the state says of the collection it names: that of a profile is not said
\* to be of another one, and the legacy collection is of the profile it is said
\* to be of.  There is a state if and only if there is an alias.
Labels(d) ==
  /\ d.alias = None => d.state = NoState
  /\ d.alias # None => d.state.active \in Collections
  /\ d.state.active \in Profiles /\ d.state.space \in Profiles => d.state.space = d.state.active
  /\ d.state.active = Legacy /\ d.state.space \in Profiles =>
       \A a \in Atoms : d.points[Legacy][a].space \in {d.state.space, None}

\* The collection of a profile has its vectors only.
Owned(d) == \A p \in Profiles, a \in Atoms : d.points[p][a].space \in {p, None}

\* The searched collection is said to be of profile p.
Serves(d, p) == d.alias # None /\ d.state.active = d.alias /\ d.state.space = p

\* j is laid out like the task, whose runs have a profile's collection as target.
JobLike(j) ==
  /\ j = Job(j.pc, j.coll, j.kind, j.todo, j.last, j.text, j.tries, j.wants, j.gets, j.fixed)
  /\ j.pc \in {"work", "embed"} => j.coll \in Profiles

ManagerOK ==
  /\ up => conf \in Profiles /\ disk.alias # None
  /\ target \in {None, conf}
  /\ ~up => target = None
  /\ up /\ target = None => Serves(disk, conf)
  /\ search => target = None

\* A run may have mixed the vectors of two profiles; nothing else does.
IInv ==
  /\ Shape(disk) /\ Labels(disk) /\ JobLike(job) /\ ManagerOK
  /\ mixed \in BOOLEAN
  /\ ~mixed => Owned(disk)
-----------------------------------------------------------------------------
(* The disk                                                                *)

LEMMA Names ==
  /\ Legacy \notin Profiles /\ None \notin Profiles /\ Unknown \notin Profiles /\ None \notin Collections
  /\ Legacy \in Collections /\ Profiles \subseteq Collections /\ Legacy # None /\ NoPoint.space = None
BY MigrationAssumption DEF Collections, Legacy, None, Unknown, NoPoint, Point

\* Two layouts with the same alias and state, of which the second has in each
\* place the point of the first or one that is allowed there.
LEMMA PointsKeepLabels ==
  ASSUME NEW d, NEW e, Labels(d), e.alias = d.alias, e.state = d.state,
         \A a \in Atoms : \/ e.points[Legacy][a] = d.points[Legacy][a]
                          \/ e.points[Legacy][a].space \in {d.state.space, None}
  PROVE  Labels(e)
BY DEF Labels

LEMMA PutShape ==
  ASSUME NEW d, Shape(d), NEW c \in Collections, NEW a \in Atoms, NEW p
  PROVE  /\ Shape(Put(d, c, a, p)) /\ Put(d, c, a, p).alias = d.alias /\ Put(d, c, a, p).state = d.state
         /\ \A x \in Collections, b \in Atoms :
              Put(d, c, a, p).points[x][b] = IF x = c /\ b = a THEN p ELSE d.points[x][b]
<1> DEFINE e == Put(d, c, a, p)
           points == [d.points EXCEPT ![c][a] = p]
<1>0. e = [d EXCEPT !.points = points]
  BY DEF Put
<1>2. \A x \in Collections, b \in Atoms : points[x][b] = IF x = c /\ b = a THEN p ELSE d.points[x][b]
  BY DEF Shape
<1>3. points = [x \in Collections |-> [b \in Atoms |-> points[x][b]]]
  BY DEF Shape
<1> HIDE DEF points, e
<1>1. e = Disk(d.exist, points, d.alias, d.state)
  BY <1>0 DEF Shape, Disk
<1>4. e.exist = d.exist /\ e.points = points /\ e.alias = d.alias /\ e.state = d.state
  BY <1>1 DEF Disk
<1> QED
  BY <1>1, <1>2, <1>3, <1>4 DEF Shape, e

LEMMA DropShape ==
  ASSUME NEW d, Shape(d), NEW c \in Collections, NEW S
  PROVE  /\ Shape(Drop(d, c, S)) /\ Drop(d, c, S).alias = d.alias /\ Drop(d, c, S).state = d.state
         /\ \A x \in Collections, b \in Atoms : Drop(d, c, S).points[x][b] \in {d.points[x][b], NoPoint}
<1> DEFINE e == Drop(d, c, S)
           points == [d.points EXCEPT ![c] = [a \in Atoms |-> IF a \in S THEN NoPoint ELSE @[a]]]
<1>0. e = [d EXCEPT !.points = points]
  BY DEF Drop
<1>2. \A x \in Collections, b \in Atoms : points[x][b] \in {d.points[x][b], NoPoint}
  BY DEF Shape
<1>3. points = [x \in Collections |-> [b \in Atoms |-> points[x][b]]]
  BY DEF Shape
<1> HIDE DEF points, e
<1>1. e = Disk(d.exist, points, d.alias, d.state)
  BY <1>0 DEF Shape, Disk
<1>4. e.exist = d.exist /\ e.points = points /\ e.alias = d.alias /\ e.state = d.state
  BY <1>1 DEF Disk
<1> QED
  BY <1>1, <1>2, <1>3, <1>4 DEF Shape, e

\* A deletion keeps what a disk is known to satisfy.
Same(d, e) == Shape(e) /\ e.alias = d.alias /\ e.state = d.state

LEMMA DropKeeps ==
  ASSUME NEW d, Shape(d), Labels(d), NEW c \in Collections, NEW S
  PROVE  Same(d, Drop(d, c, S)) /\ Labels(Drop(d, c, S)) /\ (Owned(d) => Owned(Drop(d, c, S)))
<1> DEFINE e == Drop(d, c, S)
<1>1. /\ Shape(e) /\ e.alias = d.alias /\ e.state = d.state
      /\ \A x \in Collections, b \in Atoms : e.points[x][b] \in {d.points[x][b], NoPoint}
  BY DropShape
<1> HIDE DEF e
<1>2. Labels(e)
  BY <1>1, Names, PointsKeepLabels
<1>3. Owned(d) => Owned(e)
  BY <1>1, Names DEF Owned
<1> QED
  BY <1>1, <1>2, <1>3 DEF Same, e

\* A vector of p is written into the collection of c.
LEMMA PutKeeps ==
  ASSUME NEW d, Shape(d), Labels(d), NEW c \in Collections, NEW a \in Atoms, NEW text, NEW p \in Profiles,
         c = Legacy => d.state.space = p
  PROVE  LET e == Put(d, c, a, Point(text, p))
         IN  Same(d, e) /\ Labels(e) /\ (Owned(d) /\ c \in {p, Legacy} => Owned(e))
<1> DEFINE e == Put(d, c, a, Point(text, p))
<1>0. Point(text, p).space = p
  BY DEF Point
<1>1. /\ Shape(e) /\ e.alias = d.alias /\ e.state = d.state
      /\ \A x \in Collections, b \in Atoms :
           e.points[x][b] = IF x = c /\ b = a THEN Point(text, p) ELSE d.points[x][b]
  BY PutShape
<1> HIDE DEF e
<1>2. Labels(e)
  BY <1>0, <1>1, Names, PointsKeepLabels
<1>3. Owned(d) /\ c \in {p, Legacy} => Owned(e)
  BY <1>0, <1>1, Names DEF Owned
<1> QED
  BY <1>1, <1>2, <1>3 DEF Same, e

\* The persisted target and cursor are not part of the label.
LEMMA AimKeeps ==
  ASSUME NEW d, Shape(d), Labels(d), d.alias # None, NEW aim
  PROVE  LET e == [d EXCEPT !.state.aim = aim]
         IN  /\ Shape(e) /\ Labels(e) /\ e.alias = d.alias /\ e.points = d.points /\ e.exist = d.exist
             /\ e.state.active = d.state.active /\ e.state.space = d.state.space /\ e.state.aim = aim
<1> DEFINE e == [d EXCEPT !.state.aim = aim]
<1>1. e = Disk(d.exist, d.points, d.alias, IndexState(d.state.active, d.state.space, aim, d.state.cursor))
  BY DEF Shape, Disk, IndexState
<1> HIDE DEF e
<1>2. /\ e.exist = d.exist /\ e.points = d.points /\ e.alias = d.alias
      /\ e.state = IndexState(d.state.active, d.state.space, aim, d.state.cursor)
  BY <1>1 DEF Disk
<1>3. /\ e.state.active = d.state.active /\ e.state.space = d.state.space /\ e.state.aim = aim
      /\ e.state.cursor = d.state.cursor
  BY <1>2 DEF IndexState
<1>4. Shape(e)
  BY <1>1, <1>2, <1>3 DEF Shape
<1>5. Labels(e)
  BY <1>2, <1>3 DEF Labels
<1> QED
  BY <1>2, <1>3, <1>4, <1>5 DEF e

LEMMA CursorKeeps ==
  ASSUME NEW d, Shape(d), Labels(d), d.alias # None, NEW cursor
  PROVE  LET e == [d EXCEPT !.state.cursor = cursor]
         IN  /\ Shape(e) /\ Labels(e) /\ e.alias = d.alias /\ e.points = d.points /\ e.exist = d.exist
             /\ e.state.active = d.state.active /\ e.state.space = d.state.space /\ e.state.aim = d.state.aim
<1> DEFINE e == [d EXCEPT !.state.cursor = cursor]
<1>1. e = Disk(d.exist, d.points, d.alias, IndexState(d.state.active, d.state.space, d.state.aim, cursor))
  BY DEF Shape, Disk, IndexState
<1> HIDE DEF e
<1>2. /\ e.exist = d.exist /\ e.points = d.points /\ e.alias = d.alias
      /\ e.state = IndexState(d.state.active, d.state.space, d.state.aim, cursor)
  BY <1>1 DEF Disk
<1>3. /\ e.state.active = d.state.active /\ e.state.space = d.state.space /\ e.state.aim = d.state.aim
      /\ e.state.cursor = cursor
  BY <1>2 DEF IndexState
<1>4. Shape(e)
  BY <1>1, <1>2, <1>3 DEF Shape
<1>5. Labels(e)
  BY <1>2, <1>3 DEF Labels
<1> QED
  BY <1>2, <1>3, <1>4, <1>5 DEF e

LEMMA ExistKeeps ==
  ASSUME NEW d, Shape(d), Labels(d), NEW S \in SUBSET Collections
  PROVE  LET e == [d EXCEPT !.exist = S]
         IN  Shape(e) /\ Labels(e) /\ e.alias = d.alias /\ e.points = d.points /\ e.state = d.state /\ e.exist = S
<1> DEFINE e == [d EXCEPT !.exist = S]
<1>1. e = Disk(S, d.points, d.alias, d.state)
  BY DEF Shape, Disk
<1> HIDE DEF e
<1>2. e.exist = S /\ e.points = d.points /\ e.alias = d.alias /\ e.state = d.state
  BY <1>1 DEF Disk
<1>3. Shape(e) /\ Labels(e)
  BY <1>1, <1>2 DEF Shape, Labels
<1> QED
  BY <1>2, <1>3 DEF e

\* A collection of profile p is named by the alias and by the state.
LEMMA ActivatedKeeps ==
  ASSUME NEW d, Shape(d), NEW p \in Profiles, d.alias = p
  PROVE  LET e == Activated(d, p)
         IN  /\ Shape(e) /\ Labels(e) /\ e.points = d.points /\ e.alias = d.alias /\ e.exist = d.exist
             /\ e.state.active = p /\ e.state.space = p /\ e.state.aim = None
<1> DEFINE e == Activated(d, p)
<1>1. e = Disk(d.exist, d.points, d.alias, IndexState(p, p, None, 0))
  BY DEF Activated, Shape, Disk
<1> HIDE DEF e
<1>2. /\ e.exist = d.exist /\ e.points = d.points /\ e.alias = d.alias /\ e.state = IndexState(p, p, None, 0)
  BY <1>1 DEF Disk
<1>3. e.state.active = p /\ e.state.space = p /\ e.state.aim = None /\ e.state.cursor = 0
  BY <1>2 DEF IndexState
<1>4. Shape(e)
  BY <1>1, <1>2, <1>3 DEF Shape
<1>5. Labels(e)
  BY <1>2, <1>3, Names DEF Labels
<1> QED
  BY <1>2, <1>3, <1>4, <1>5 DEF e
-----------------------------------------------------------------------------
(* The initialization of the index                                         *)

LEMMA AdoptKeeps ==
  ASSUME NEW d, Shape(d), Labels(d), NEW p \in Profiles
  PROVE  LET e == AdoptAlias(d, p)
         IN  /\ Shape(e) /\ e.points = d.points /\ e.state = d.state /\ e.alias # None
             /\ d.alias # None => e = d
             /\ d.alias = None => e.state = NoState /\ e.alias \in {Legacy, p}
             /\ e.exist \in SUBSET Collections
<1> DEFINE e == AdoptAlias(d, p)
<1>1. CASE d.alias # None
  BY <1>1 DEF AdoptAlias, Shape
<1>2. CASE d.alias = None
  <2> DEFINE c == IF d.state.active \in d.exist THEN d.state.active ELSE IF Legacy \in d.exist THEN Legacy ELSE p
             f == [d EXCEPT !.alias = c]
  <2>1. d.state = NoState /\ d.state.active = None
    BY <1>2 DEF Labels, NoState, IndexState
  <2>2. c \in {Legacy, p} /\ c \in Collections /\ c # None
    BY <2>1, Names DEF Shape
  <2>3. e = [d EXCEPT !.alias = c, !.exist = @ \cup {c}]
    BY <1>2 DEF AdoptAlias
  <2> HIDE DEF c, e
  <2>4. e = Disk(d.exist \cup {c}, d.points, c, d.state)
    BY <2>3 DEF Shape, Disk
  <2>5. e.exist = d.exist \cup {c} /\ e.points = d.points /\ e.alias = c /\ e.state = d.state
    BY <2>4 DEF Disk
  <2>6. Shape(e)
    BY <2>2, <2>4, <2>5 DEF Shape
  <2> QED
    BY <1>2, <2>1, <2>2, <2>5, <2>6 DEF e, Shape
<1> QED
  BY <1>1, <1>2

\* The first state calls a collection one of profile p only if it is named so or
\* has no points.
LEMMA FirstStateKeeps ==
  ASSUME NEW d, Shape(d), NEW p \in Profiles, d.alias \in {Legacy, p}
  PROVE  LET e == [d EXCEPT !.state = FirstState(d, p)]
         IN  Shape(e) /\ Labels(e) /\ e.points = d.points /\ e.alias = d.alias /\ e.exist = d.exist
             /\ e.state.active = d.alias /\ e.state.aim = None
<1> DEFINE space == IF d.alias # p /\ \E a \in Atoms : d.points[d.alias][a] # NoPoint THEN Unknown ELSE p
           e == [d EXCEPT !.state = FirstState(d, p)]
<1>1. FirstState(d, p) = IndexState(d.alias, space, None, 0)
  BY DEF FirstState
<1>2. d.alias = Legacy /\ space \in Profiles => \A a \in Atoms : d.points[Legacy][a] = NoPoint
  BY Names
<1>3. d.alias \in Profiles /\ space \in Profiles => space = d.alias
  BY Names
<1> HIDE DEF space
<1>4. e = Disk(d.exist, d.points, d.alias, IndexState(d.alias, space, None, 0))
  BY <1>1 DEF Shape, Disk
<1> HIDE DEF e
<1>5. /\ e.exist = d.exist /\ e.points = d.points /\ e.alias = d.alias
      /\ e.state = IndexState(d.alias, space, None, 0)
  BY <1>4 DEF Disk
<1>6. e.state.active = d.alias /\ e.state.space = space /\ e.state.aim = None /\ e.state.cursor = 0
  BY <1>5 DEF IndexState
<1>7. Shape(e)
  BY <1>4, <1>5, <1>6 DEF Shape
<1>8. Labels(e)
  BY <1>2, <1>3, <1>5, <1>6, Names DEF Labels
<1> QED
  BY <1>5, <1>6, <1>7, <1>8 DEF e

\* A state that does not know what the alias names is not believed.
LEMMA DistrustKeeps ==
  ASSUME NEW d, Shape(d), d.alias # None
  PROVE  LET e == [d EXCEPT !.state.active = d.alias, !.state.space = Unknown]
         IN  Shape(e) /\ Labels(e) /\ e.points = d.points /\ e.alias = d.alias /\ e.exist = d.exist
             /\ e.state.active = d.alias
<1> DEFINE e == [d EXCEPT !.state.active = d.alias, !.state.space = Unknown]
<1> DEFINE state == [d.state EXCEPT !.active = d.alias, !.space = Unknown]
<1>0. e = [d EXCEPT !.state = state]
  BY DEF Shape, Disk
<1>1. state = IndexState(d.alias, Unknown, d.state.aim, d.state.cursor)
  <2> DEFINE named == [d.state EXCEPT !.active = d.alias]
  <2>1. named = IndexState(d.alias, d.state.space, d.state.aim, d.state.cursor)
    BY DEF Shape, IndexState
  <2>2. state = [named EXCEPT !.space = Unknown]
    OBVIOUS
  <2> HIDE DEF named
  <2> QED
    BY <2>1, <2>2 DEF IndexState
<1> HIDE DEF state
<1>2. e = Disk(d.exist, d.points, d.alias, IndexState(d.alias, Unknown, d.state.aim, d.state.cursor))
  BY <1>0, <1>1 DEF Shape, Disk
<1> HIDE DEF e
<1>3. /\ e.exist = d.exist /\ e.points = d.points /\ e.alias = d.alias
      /\ e.state = IndexState(d.alias, Unknown, d.state.aim, d.state.cursor)
  BY <1>2 DEF Disk
<1>4. /\ e.state.active = d.alias /\ e.state.space = Unknown /\ e.state.aim = d.state.aim
      /\ e.state.cursor = d.state.cursor
  BY <1>3 DEF IndexState
<1>5. Shape(e)
  BY <1>2, <1>3, <1>4 DEF Shape
<1>6. Labels(e)
  BY <1>3, <1>4, Names DEF Labels, Shape
<1> QED
  BY <1>3, <1>4, <1>5, <1>6 DEF e

LEMMA LabelKeeps ==
  ASSUME NEW d, Shape(d), Labels(d), NEW p \in Profiles
  PROVE  LET f == AdoptAlias(d, p)
             e == Label(f, p)
         IN  /\ Shape(e) /\ Labels(e) /\ e.points = d.points /\ e.alias = f.alias /\ e.exist = f.exist
             /\ e.alias # None /\ e.state.active = e.alias
             /\ \A q \in Profiles : Serves(d, q) => Serves(e, q)
<1> DEFINE f == AdoptAlias(d, p)
           e == Label(f, p)
<1>1. /\ Shape(f) /\ f.points = d.points /\ f.state = d.state /\ f.alias # None
      /\ d.alias # None => f = d
      /\ d.alias = None => f.state = NoState /\ f.alias \in {Legacy, p}
  BY AdoptKeeps
<1>2. d.alias # None => d.state # NoState /\ d.state.active \in Collections
  BY Names DEF Labels, NoState, IndexState
<1> HIDE DEF f
<1>3. CASE f.state = NoState
  <2>1. d.alias = None
    BY <1>1, <1>2, <1>3
  <2>2. e = [f EXCEPT !.state = FirstState(f, p)]
    BY <1>3 DEF Label
  <2> QED
    BY <1>1, <2>1, <2>2, FirstStateKeeps DEF Serves, f
<1>4. CASE f.state # NoState
  <2>1. d.alias # None /\ f = d /\ Labels(f)
    BY <1>1, <1>4
  <2>2. CASE f.alias = p /\ f.state.aim = p
    <3>1. e = Activated(f, p)
      BY <1>4, <2>2 DEF Label
    <3>2. /\ Shape(e) /\ Labels(e) /\ e.points = f.points /\ e.alias = f.alias /\ e.exist = f.exist
          /\ e.state.active = p /\ e.state.space = p
      BY <1>1, <2>2, <3>1, ActivatedKeeps
    <3>3. ASSUME NEW q \in Profiles, Serves(d, q)
          PROVE  Serves(e, q)
      BY <2>1, <2>2, <3>2, <3>3, Names DEF Serves, Labels
    <3> QED
      BY <1>1, <2>1, <2>2, <3>2, <3>3 DEF f
  <2>3. CASE ~(f.alias = p /\ f.state.aim = p) /\ f.alias # f.state.active
    <3>1. e = [f EXCEPT !.state.active = f.alias, !.state.space = Unknown]
      BY <1>4, <2>3 DEF Label
    <3> QED
      BY <1>1, <2>1, <2>3, <3>1, DistrustKeeps DEF Serves, f
  <2>4. CASE ~(f.alias = p /\ f.state.aim = p) /\ f.alias = f.state.active
    <3>1. e = f
      BY <1>4, <2>4 DEF Label
    <3> QED
      BY <1>1, <2>1, <2>4, <3>1 DEF f
  <2> QED
    BY <2>2, <2>3, <2>4
<1> QED
  BY <1>3, <1>4

LEMMA InitializedKeeps ==
  ASSUME NEW d, Shape(d), Labels(d), NEW p \in Profiles
  PROVE  LET e == Initialized(d, p)
         IN  /\ Shape(e) /\ Labels(e) /\ e.points = d.points /\ e.alias # None
             /\ \A q \in Profiles : Serves(d, q) => Serves(e, q)
             /\ ~NeedsMigration(e, p) => Serves(e, p)
             /\ e.exist \in SUBSET Collections
             /\ d.alias # None => e.alias = d.alias
<1> DEFINE f == AdoptAlias(d, p)
           g == Label(f, p)
           e == Initialized(d, p)
<1>1. /\ Shape(g) /\ Labels(g) /\ g.points = d.points /\ g.alias # None /\ g.state.active = g.alias
      /\ \A q \in Profiles : Serves(d, q) => Serves(g, q)
      /\ d.alias # None => g.alias = d.alias
  BY LabelKeeps, AdoptKeeps
<1>2. e = Prepare(g, p)
  BY DEF Initialized
<1> HIDE DEF g, e
<1>3. CASE ~NeedsMigration(g, p)
  <2>1. e = g
    BY <1>2, <1>3 DEF Prepare
  <2> QED
    BY <1>1, <2>1 DEF NeedsMigration, Serves, Shape, e
<1>4. CASE NeedsMigration(g, p)
  <2> DEFINE cursor == IF g.state.aim = p THEN g.state.cursor ELSE 0
             h == [g EXCEPT !.exist = @ \cup {p}]
             i == [h EXCEPT !.state.aim = p]
  <2>1. /\ Shape(h) /\ Labels(h) /\ h.alias = g.alias /\ h.points = g.points /\ h.state = g.state
        /\ h.exist \in SUBSET Collections
    <3>1. g.exist \cup {p} \in SUBSET Collections
      BY <1>1, Names DEF Shape
    <3> QED
      BY <1>1, <3>1, ExistKeeps
  <2>2. /\ Shape(i) /\ Labels(i) /\ i.alias = h.alias /\ i.points = h.points /\ i.exist = h.exist
        /\ i.state.active = h.state.active /\ i.state.space = h.state.space /\ i.state.aim = p
    BY <1>1, <2>1, AimKeeps
  <2>3. e = [i EXCEPT !.state.cursor = cursor]
    BY <1>1, <1>2, <1>4 DEF Prepare, Shape, Disk, IndexState
  <2> HIDE DEF i, h, cursor
  <2>4. /\ Shape(e) /\ Labels(e) /\ e.alias = i.alias /\ e.points = i.points /\ e.exist = i.exist
        /\ e.state.active = i.state.active /\ e.state.space = i.state.space /\ e.state.aim = i.state.aim
    BY <1>1, <2>1, <2>2, <2>3, CursorKeeps
  <2>5. NeedsMigration(e, p)
    BY <2>2, <2>4 DEF NeedsMigration
  <2> QED
    BY <1>1, <2>1, <2>2, <2>4, <2>5 DEF Serves, e
<1> QED
  BY <1>3, <1>4

LEMMA StagesKeep ==
  ASSUME ~StateLosses, Shape(disk), Labels(disk), NEW p \in Profiles, NEW e \in Stages(disk, p)
  PROVE  /\ Shape(e) /\ Labels(e) /\ e.points = disk.points
         /\ disk.alias # None => e.alias = disk.alias
         /\ \A q \in Profiles : Serves(disk, q) => Serves(e, q)
<1> DEFINE f == AdoptAlias(disk, p)
           g == Label(f, p)
           i == Initialized(disk, p)
<1>1. CASE e = disk
  BY <1>1
<1>2. CASE e # disk
  <2>1. disk.state # NoState
    BY <1>2 DEF Stages
  <2>2. disk.alias # None
    BY <2>1 DEF Labels
  <2>3. f = disk
    BY <2>2, AdoptKeeps
  <2>4. /\ Shape(g) /\ Labels(g) /\ g.points = disk.points /\ g.alias = disk.alias
        /\ \A q \in Profiles : Serves(disk, q) => Serves(g, q)
    BY <2>3, LabelKeeps
  <2>5. /\ Shape(i) /\ Labels(i) /\ i.points = disk.points /\ i.alias = disk.alias /\ i.exist \in SUBSET Collections
        /\ \A q \in Profiles : Serves(disk, q) => Serves(i, q)
    BY <2>2, InitializedKeeps
  <2>6. \/ e = [disk EXCEPT !.exist = f.exist] \/ e = [f EXCEPT !.state = disk.state]
        \/ e = g \/ e = [g EXCEPT !.exist = i.exist] \/ e = i
    BY <1>2, <2>1 DEF Stages
  <2>7. [disk EXCEPT !.exist = f.exist] = disk /\ [f EXCEPT !.state = disk.state] = disk
    BY <2>3 DEF Shape, Disk
  <2> HIDE DEF f, g, i
  <2>8. CASE e = [g EXCEPT !.exist = i.exist]
    <3>1. Shape(e) /\ Labels(e) /\ e.alias = g.alias /\ e.points = g.points /\ e.state = g.state
      BY <2>4, <2>5, <2>8, ExistKeeps
    <3> QED
      BY <2>4, <3>1 DEF Serves
  <2> QED
    BY <1>2, <2>4, <2>5, <2>6, <2>7, <2>8
<1> QED
  BY <1>1, <1>2
-----------------------------------------------------------------------------
(* The process, its configuration, and the writers                         *)

LEMMA RestingLike == \A pc \in {"off", "asleep"} : JobLike(Resting(pc))
BY DEF JobLike, Resting, Job

LEMMA InitInv == Init => IInv
<1> SUFFICES ASSUME Init  PROVE IInv
  OBVIOUS
<1>1. PICK exist \in SUBSET {Legacy}, full \in BOOLEAN :
        disk = Disk(exist,
                    [c \in Collections |->
                       [a \in Atoms |-> IF full /\ c \in exist THEN Expected(a, Unknown) ELSE NoPoint]],
                    None, NoState)
  BY DEF Init
<1>2. /\ disk.exist = exist /\ disk.alias = None /\ disk.state = NoState
      /\ disk.points = [c \in Collections |->
                          [a \in Atoms |-> IF full /\ c \in exist THEN Expected(a, Unknown) ELSE NoPoint]]
  BY <1>1 DEF Disk
<1>3. NoState = IndexState(NoState.active, NoState.space, NoState.aim, NoState.cursor) /\ NoState.active = None
  BY DEF NoState, IndexState
<1>4. Shape(disk)
  BY <1>1, <1>2, <1>3, Names DEF Shape
<1>5. Labels(disk)
  BY <1>2, <1>3, Names DEF Labels
<1>6. Owned(disk)
  BY <1>2, Names DEF Owned
<1> QED
  BY <1>4, <1>5, <1>6, RestingLike DEF Init, IInv, ManagerOK

\* An initialization that succeeds.
LEMMA OpensKeeps ==
  ASSUME IInv, NEW p \in Profiles, Opens(disk, p), up'
  PROVE  Shape(disk') /\ Labels(disk') /\ ManagerOK' /\ (Owned(disk) => Owned(disk'))
<1>1. /\ Shape(disk') /\ Labels(disk') /\ disk'.points = disk.points /\ disk'.alias # None
      /\ ~NeedsMigration(disk', p) => Serves(disk', p)
  BY InitializedKeeps DEF Opens, IInv
<1>2. ManagerOK'
  BY <1>1, Names DEF Opens, ManagerOK
<1> QED
  BY <1>1, <1>2 DEF Owned

LEMMA StartInv ==
  ASSUME ~StateLosses, IInv, Start
  PROVE  IInv'
<1>1. PICK p \in Profiles, seen \in Seen :
        \/ Opens(seen, p) /\ up'
        \/ disk' \in Stages(seen, p) /\ conf' = p /\ UNCHANGED <<up, target, search>>
  BY DEF Start
<1>2. seen = disk /\ ~up /\ UNCHANGED <<job, mixed>>
  BY DEF Seen, Start
<1>3. CASE Opens(disk, p) /\ up'
  BY <1>2, <1>3, OpensKeeps DEF IInv
<1>4. CASE disk' \in Stages(disk, p) /\ conf' = p /\ UNCHANGED <<up, target, search>>
  <2>1. Shape(disk') /\ Labels(disk') /\ disk'.points = disk.points
    BY <1>4, StagesKeep DEF IInv
  <2>2. target = None
    BY <1>2 DEF IInv, ManagerOK
  <2> QED
    BY <1>2, <1>4, <2>1, <2>2 DEF IInv, ManagerOK, Owned
<1> QED
  BY <1>1, <1>2, <1>3, <1>4

LEMMA CrashInv ==
  ASSUME IInv, Crash
  PROVE  IInv'
BY RestingLike DEF Crash, IInv, ManagerOK

LEMMA ReconfigureInv ==
  ASSUME ~StateLosses, IInv, NEW p \in Profiles, Reconfigure(p)
  PROVE  IInv'
<1>1. PICK seen \in Seen :
        \/ Opens(seen, p) /\ faults' = faults + ReadFails(seen)
        \/ /\ faults' = faults + ReadFails(seen) + 1
           /\ disk' \in Stages(seen, p)
           /\ UNCHANGED <<conf, target, search>>
  BY Zenon DEF Reconfigure
<1>2. seen = disk /\ up /\ UNCHANGED <<up, job, mixed>>
  BY DEF Seen, Reconfigure
<1>3. CASE Opens(disk, p)
  BY <1>2, <1>3, OpensKeeps DEF IInv
<1>4. CASE disk' \in Stages(disk, p) /\ UNCHANGED <<conf, target, search>>
  <2>1. /\ Shape(disk') /\ Labels(disk') /\ disk'.points = disk.points
        /\ disk.alias # None => disk'.alias = disk.alias
        /\ \A q \in Profiles : Serves(disk, q) => Serves(disk', q)
    BY <1>4, StagesKeep DEF IInv
  <2> QED
    BY <1>2, <1>4, <2>1 DEF IInv, ManagerOK, Owned
<1> QED
  BY <1>1, <1>2, <1>3, <1>4

\* What a step may leave on disk while the process is up.
Leaves(d) ==
  /\ Shape(d) /\ Labels(d) /\ d.alias # None
  /\ target = None => Serves(d, conf)
  /\ ~mixed /\ ~Mixes(d) => Owned(d)

LEMMA DiskLeft ==
  ASSUME IInv, up
  PROVE  Leaves(disk) /\ (~mixed => Owned(disk))
BY DEF IInv, ManagerOK, Leaves

LEMMA DropLeft ==
  ASSUME NEW d, Leaves(d), ~mixed => Owned(d), NEW c \in Collections, NEW S
  PROVE  Leaves(Drop(d, c, S)) /\ (~mixed => Owned(Drop(d, c, S)))
BY DropKeeps DEF Leaves, Same, Serves

\* A writer puts its vector where the present profile is.
LEMMA UpsertInv ==
  ASSUME IInv, NEW a \in Atoms, NEW text, Upsert(a, text)
  PROVE  IInv'
<1>1. /\ up /\ conf \in Profiles /\ Shape(disk) /\ Labels(disk)
      /\ UNCHANGED <<manager, job, mixed>>
  BY DEF Upsert, IInv, ManagerOK
<1> DEFINE c == WriteCollection
<1>2. disk' = Put(disk, c, a, Point(text, conf))
  BY DEF Upsert
<1>3. c \in Collections /\ c \in {conf, Legacy} /\ (c = Legacy => disk.state.space = conf)
  <2>1. CASE target # None
    BY <1>1, <2>1, Names DEF IInv, ManagerOK, WriteCollection
  <2>2. CASE target = None
    <3>1. c = disk.alias /\ Serves(disk, conf)
      BY <1>1, <2>2 DEF IInv, ManagerOK, WriteCollection
    <3> QED
      BY <1>1, <3>1, Names DEF Serves, Labels, Shape, Collections
  <2> QED
    BY <2>1, <2>2
<1> HIDE DEF c
<1>4. Same(disk, disk') /\ Labels(disk') /\ (Owned(disk) => Owned(disk'))
  BY <1>1, <1>2, <1>3, PutKeeps
<1> QED
  BY <1>1, <1>4 DEF IInv, ManagerOK, manager, Same, Serves

LEMMA RemoveInv ==
  ASSUME IInv, NEW a \in Atoms, Remove(a)
  PROVE  IInv'
<1> DEFINE first == Drop(disk, disk.alias, {a})
           both == IF target = None THEN first ELSE Drop(first, target, {a})
<1>1. up /\ disk' \in {disk, first, both} /\ UNCHANGED <<manager, job, mixed>>
  BY DEF Remove
<1>2. Leaves(disk) /\ (~mixed => Owned(disk))
  BY <1>1, DiskLeft
<1>3. disk.alias \in Collections /\ target \in Collections \cup {None}
  BY <1>1, Names DEF IInv, ManagerOK, Shape
<1>4. Leaves(first) /\ (~mixed => Owned(first))
  BY <1>2, <1>3, DropLeft
<1> HIDE DEF first
<1>5. Leaves(both) /\ (~mixed => Owned(both))
  BY <1>3, <1>4, DropLeft
<1>6. Leaves(disk') /\ (~mixed => Owned(disk'))
  BY <1>1, <1>2, <1>4, <1>5
<1>7. Shape(disk') /\ Labels(disk') /\ disk'.alias # None /\ (target = None => Serves(disk', conf))
  BY <1>6 DEF Leaves
<1> QED
  BY <1>1, <1>6, <1>7 DEF IInv, ManagerOK, manager
-----------------------------------------------------------------------------
(* The migration task                                                      *)

LEMMA ProceedKeeps ==
  ASSUME IInv, up, NEW d, Leaves(d), NEW cost, NEW next, JobLike(next), Proceed(d, cost, next)
  PROVE  IInv'
<1>1. disk' = d /\ job' = next /\ mixed' = (mixed \/ Mixes(d)) /\ UNCHANGED manager
  BY DEF Proceed
<1>2. mixed' \in BOOLEAN /\ (~mixed' => Owned(d))
  BY <1>1 DEF IInv, Leaves
<1> QED
  BY <1>1, <1>2 DEF IInv, ManagerOK, manager, Leaves

LEMMA FailKeeps ==
  ASSUME IInv, up, NEW d, Leaves(d), NEW cost, Fail(d, cost)
  PROVE  IInv'
<1> DEFINE e == [d EXCEPT !.state.aim = target]
<1>1. /\ disk' \in {d, IF target = None THEN d ELSE e} /\ job' = Resting("asleep")
      /\ mixed' = (mixed \/ Mixes(d)) /\ UNCHANGED manager
  BY DEF Fail
<1>2. Shape(e) /\ Labels(e) /\ e.alias = d.alias /\ e.points = d.points
  BY AimKeeps DEF Leaves
<1> HIDE DEF e
<1>3. Shape(disk') /\ Labels(disk') /\ disk'.alias # None /\ disk'.points = d.points
  BY <1>1, <1>2 DEF Leaves
<1>4. target = None => Serves(disk', conf)
  BY <1>1 DEF Leaves
<1>5. mixed' \in BOOLEAN /\ (~mixed' => Owned(disk'))
  BY <1>1, <1>3 DEF IInv, Leaves, Owned
<1> QED
  BY <1>1, <1>3, <1>4, <1>5, RestingLike DEF IInv, ManagerOK, manager

LEMMA DoneLike ==
  ASSUME JobLike(job), job.coll \in Profiles, NEW a, NEW fixed
  PROVE  JobLike(Done(a, fixed))
<1> DEFINE todo == job.todo \ {a}
           j == [pc |-> "work", coll |-> job.coll, kind |-> job.kind, todo |-> todo, last |-> job.last,
                 text |-> None, tries |-> 0, wants |-> None, gets |-> None, fixed |-> fixed]
<1>1. Done(a, fixed) = j
  <2> DEFINE j1 == [job EXCEPT !.pc = "work"]
             j2 == [j1 EXCEPT !.todo = todo]
             j3 == [j2 EXCEPT !.text = None]
             j4 == [j3 EXCEPT !.tries = 0]
             j5 == [j4 EXCEPT !.wants = None]
             j6 == [j5 EXCEPT !.gets = None]
  <2>1. Done(a, fixed) = [j6 EXCEPT !.fixed = fixed]
    BY DEF Done, JobLike, Job
  <2> HIDE DEF todo
  <2> QED
    BY <2>1 DEF JobLike, Job
<1> QED
  BY <1>1 DEF JobLike, Job

LEMMA SkipInv ==
  ASSUME IInv, up, job.coll \in Profiles, NEW a, Skip(a)
  PROVE  IInv'
<1>1. Leaves(disk) /\ (~mixed => Owned(disk)) /\ JobLike(job) /\ job.coll \in Collections
  BY DiskLeft, Names DEF IInv
<1>2. Leaves(Drop(disk, job.coll, {a}))
  BY <1>1, DropLeft
<1>3. JobLike(Done(a, job.fixed))
  BY <1>1, DoneLike
<1> QED
  BY <1>1, <1>2, <1>3, ProceedKeeps DEF Skip

LEMMA RunInv ==
  ASSUME IInv, RunEnds \/ RunBatch \/ RunReconcile
  PROVE  IInv'
<1>1. up /\ Leaves(disk) /\ (~mixed => Owned(disk))
  BY DiskLeft DEF RunEnds, RunBatch, RunReconcile
<1>2. CASE RunEnds
  BY <1>1, <1>2, ProceedKeeps, RestingLike DEF RunEnds
<1>3. CASE RunBatch
  <2> DEFINE next == Job("work", target, "batch", Batch, Last(Batch), None, 0, None, None, FALSE)
  <2>1. target \in Profiles
    BY <1>1, <1>3 DEF RunBatch, IInv, ManagerOK
  <2>2. JobLike(next)
    BY <2>1 DEF JobLike, Job
  <2> HIDE DEF next
  <2>3. Fail(disk, 1) \/ Proceed(disk, 0, next)
    BY <1>3 DEF RunBatch, next
  <2> QED
    BY <1>1, <2>2, <2>3, FailKeeps, ProceedKeeps
<1>4. CASE RunReconcile
  <2> DEFINE orphans == {a \in Atoms \ Embeddable : disk.points[target][a] # NoPoint}
             repairs == {a \in Embeddable : disk.points[target][a] # Expected(a, conf)}
             next == Job("work", target, "repair", FirstOf(repairs), 0, None, 0, None, None, FALSE)
  <2>1. target \in Profiles /\ target \in Collections
    BY <1>1, <1>4, Names DEF RunReconcile, IInv, ManagerOK
  <2>2. JobLike(next)
    BY <2>1 DEF JobLike, Job
  <2>3. \A S : Leaves(Drop(disk, target, S))
    BY <1>1, <2>1, DropLeft
  <2>4. Proceed(Drop(disk, target, orphans), 0, next) \/ \E S \in SUBSET orphans : Fail(Drop(disk, target, S), 1)
    BY <1>4 DEF RunReconcile
  <2> HIDE DEF next, orphans
  <2> QED
    BY <1>1, <2>2, <2>3, <2>4, FailKeeps, ProceedKeeps
<1> QED
  BY <1>2, <1>3, <1>4

\* What the task has embedded does not matter to its layout.
LEMMA FieldKeeps ==
  ASSUME NEW j, JobLike(j), NEW v
  PROVE  /\ JobLike([j EXCEPT !.text = v]) /\ JobLike([j EXCEPT !.tries = v])
         /\ JobLike([j EXCEPT !.wants = v]) /\ JobLike([j EXCEPT !.gets = v])
<1>1. JobLike([j EXCEPT !.text = v])
  BY DEF JobLike, Job
<1>2. JobLike([j EXCEPT !.tries = v])
  BY DEF JobLike, Job
<1>3. JobLike([j EXCEPT !.wants = v])
  BY DEF JobLike, Job
<1>4. JobLike([j EXCEPT !.gets = v])
  BY DEF JobLike, Job
<1> QED
  BY <1>1, <1>2, <1>3, <1>4

LEMMA SourceInv ==
  ASSUME IInv, NEW a \in Atoms, Source(a)
  PROVE  IInv'
<1>1. /\ up /\ job.coll \in Profiles /\ Leaves(disk) /\ JobLike(job)
  BY DiskLeft DEF Source, IInv, JobLike
<1> DEFINE j1 == [job EXCEPT !.pc = "embed"]
           j2 == [j1 EXCEPT !.text = row[a]]
           j3 == [j2 EXCEPT !.tries = 1]
           j4 == [j3 EXCEPT !.wants = conf]
           next == [j4 EXCEPT !.gets = conf]
<1>2. JobLike(next)
  <2>1. j1 = Job("embed", job.coll, job.kind, job.todo, job.last, job.text, job.tries, job.wants, job.gets, job.fixed)
    BY <1>1 DEF JobLike, Job
  <2>2. JobLike(j1)
    BY <1>1, <2>1 DEF JobLike, Job
  <2> HIDE DEF j1
  <2>3. JobLike(j2)
    BY <2>2, FieldKeeps
  <2> HIDE DEF j2
  <2>4. JobLike(j3)
    BY <2>3, FieldKeeps
  <2> HIDE DEF j3
  <2>5. JobLike(j4)
    BY <2>4, FieldKeeps
  <2> HIDE DEF j4
  <2> QED
    BY <2>5, FieldKeeps
<1>3. next = [job EXCEPT !.pc = "embed", !.text = row[a], !.tries = 1, !.wants = conf, !.gets = conf]
  OBVIOUS
<1>4. Skip(a) \/ Proceed(disk, 0, next)
  BY <1>3 DEF Source
<1> HIDE DEF next
<1> QED
  BY <1>1, <1>2, <1>4, SkipInv, ProceedKeeps

LEMMA ReembedInv ==
  ASSUME IInv, up, job.coll \in Profiles, NEW a, Reembed(a)
  PROVE  IInv'
<1>1. Leaves(disk) /\ (~mixed => Owned(disk)) /\ JobLike(job) /\ job.coll \in Collections
  BY DiskLeft, Names DEF IInv
<1>2. Leaves(Drop(disk, job.coll, {a}))
  BY <1>1, DropLeft
<1> DEFINE j1 == [job EXCEPT !.text = row[a]]
           j2 == [j1 EXCEPT !.tries = @ + 1]
           next == [j2 EXCEPT !.gets = conf]
<1>3. JobLike(next)
  <2>1. JobLike(j1)
    BY <1>1, FieldKeeps
  <2> HIDE DEF j1
  <2>2. JobLike(j2)
    BY <2>1, FieldKeeps
  <2> HIDE DEF j2
  <2> QED
    BY <2>2, FieldKeeps
<1>4. next = [job EXCEPT !.text = row[a], !.tries = @ + 1, !.gets = conf]
  BY <1>1 DEF JobLike, Job
<1>5. Fail(Drop(disk, job.coll, {a}), 0) \/ Skip(a) \/ Proceed(disk, 0, next)
  BY <1>4 DEF Reembed
<1> HIDE DEF next
<1> QED
  BY <1>1, <1>2, <1>3, <1>5, SkipInv, FailKeeps, ProceedKeeps

\* A vector of another profile than the collection's is what mixed records.
LEMMA UpsertedInv ==
  ASSUME IInv, up, job.pc = "embed", job.coll \in Profiles, NEW a \in job.todo, a \in Atoms, Upserted(a)
  PROVE  IInv'
<1> DEFINE written == Put(disk, job.coll, a, Point(job.text, job.gets))
<1>1. /\ Leaves(disk) /\ (~mixed => Owned(disk)) /\ JobLike(Done(a, TRUE))
      /\ job.coll \in Collections /\ job.coll # Legacy /\ conf \in Profiles
  BY DiskLeft, DoneLike, Names DEF IInv, ManagerOK
<1>2. ASSUME job.gets = conf
      PROVE  Leaves(written)
  <2>1. Same(disk, written) /\ Labels(written) /\ (Owned(disk) /\ job.coll = job.gets => Owned(written))
    BY <1>1, <1>2, PutKeeps DEF Leaves
  <2>2. written.points[job.coll][a] = Point(job.text, job.gets)
    BY <1>1, PutShape DEF Leaves
  <2>3. job.gets # job.coll => Mixes(written)
    BY <2>2 DEF Mixes
  <2> HIDE DEF written
  <2> QED
    BY <1>1, <2>1, <2>3 DEF Leaves, Same, Serves
<1>3. \/ Fail(disk, 0)
      \/ job.gets = conf /\ Proceed(written, 0, Done(a, TRUE))
      \/ job.gets = conf /\ \E d \in {disk, written} : Fail(d, 1)
  BY DEF Upserted
<1> HIDE DEF written
<1> QED
  BY <1>1, <1>2, <1>3, FailKeeps, ProceedKeeps

LEMMA EmbeddedInv ==
  ASSUME IInv, NEW a \in Atoms, Embedded(a)
  PROVE  IInv'
<1>1. up /\ job.pc = "embed" /\ a \in job.todo /\ job.coll \in Profiles /\ Leaves(disk)
  BY DiskLeft DEF Embedded, IInv, JobLike
<1>2. (\E cost \in {0, 1} : Fail(disk, cost)) \/ Skip(a) \/ Reembed(a) \/ Upserted(a)
  BY DEF Embedded
<1> QED
  BY <1>1, <1>2, FailKeeps, SkipInv, ReembedInv, UpsertedInv

LEMMA BatchDoneInv ==
  ASSUME IInv, BatchDone
  PROVE  IInv'
<1>1. up /\ Leaves(disk) /\ (~mixed => Owned(disk))
  BY DiskLeft DEF BatchDone
<1> DEFINE d == [disk EXCEPT !.state.aim = target]
           e == [d EXCEPT !.state.cursor = job.last]
<1>2. /\ Shape(d) /\ Labels(d) /\ d.alias = disk.alias /\ d.points = disk.points
      /\ d.state.active = disk.state.active /\ d.state.space = disk.state.space
  BY <1>1, AimKeeps DEF Leaves
<1>3. e = [disk EXCEPT !.state.aim = target, !.state.cursor = job.last]
  BY <1>1 DEF Leaves, Shape, Disk, IndexState
<1> HIDE DEF d
<1>4. /\ Shape(e) /\ Labels(e) /\ e.alias = d.alias /\ e.points = d.points
      /\ e.state.active = d.state.active /\ e.state.space = d.state.space
  BY <1>1, <1>2, CursorKeeps DEF Leaves
<1> HIDE DEF e
<1>5. Leaves(e)
  BY <1>1, <1>2, <1>4 DEF Leaves, Serves, Owned
<1>6. Fail(disk, 1) \/ Proceed(disk, 0, Resting("asleep")) \/ Proceed(e, 0, Resting("asleep"))
  BY <1>3 DEF BatchDone
<1> QED
  BY <1>1, <1>5, <1>6, FailKeeps, ProceedKeeps, RestingLike

\* The alias may be put on the collection of the present profile.
LEMMA SwitchKeeps ==
  ASSUME NEW d, Shape(d), Labels(d), d.alias # None, NEW p \in Profiles
  PROVE  LET e == [d EXCEPT !.alias = p]
         IN  Shape(e) /\ Labels(e) /\ e.alias = p /\ e.points = d.points /\ e.state = d.state
<1> DEFINE e == [d EXCEPT !.alias = p]
<1>1. e = Disk(d.exist, d.points, p, d.state)
  BY DEF Shape, Disk
<1> HIDE DEF e
<1>2. e.exist = d.exist /\ e.points = d.points /\ e.alias = p /\ e.state = d.state
  BY <1>1 DEF Disk
<1>3. Shape(e) /\ Labels(e)
  BY <1>1, <1>2, Names DEF Shape, Labels
<1> QED
  BY <1>2, <1>3 DEF e

LEMMA ActivateInv ==
  ASSUME IInv, up, target # None, Activate
  PROVE  IInv'
<1> DEFINE d == [disk EXCEPT !.alias = target]
           e == Activated(d, target)
<1>1. Leaves(disk) /\ (~mixed => Owned(disk)) /\ target \in Profiles /\ target = conf
  BY DiskLeft DEF IInv, ManagerOK
<1>2. Shape(d) /\ Labels(d) /\ d.alias = target /\ d.points = disk.points /\ d.state = disk.state
  BY <1>1, SwitchKeeps DEF Leaves
<1> HIDE DEF d
<1>3. /\ Shape(e) /\ Labels(e) /\ e.points = disk.points /\ e.alias = target
      /\ e.state.active = target /\ e.state.space = target
  BY <1>1, <1>2, ActivatedKeeps
<1> HIDE DEF e
<1>4. Leaves(d) /\ (Owned(disk) => Owned(d) /\ Owned(e))
  BY <1>1, <1>2, <1>3, Names DEF Leaves, Owned
<1>5. \/ disk' = e /\ target' = None /\ search' /\ job' = Resting("off") /\ UNCHANGED <<up, conf, mixed>>
      \/ Fail(disk, 1)
      \/ Fail(d, 1)
      \/ /\ disk' = d /\ ~up' /\ target' = None /\ ~search' /\ job' = Resting("off")
         /\ UNCHANGED <<conf, mixed>>
  BY DEF Activate, d, e
<1>6. CASE disk' = e /\ target' = None /\ search' /\ job' = Resting("off") /\ UNCHANGED <<up, conf, mixed>>
  BY <1>1, <1>3, <1>4, <1>6, Names, RestingLike DEF IInv, ManagerOK, Serves
<1>7. CASE Fail(disk, 1) \/ Fail(d, 1)
  BY <1>1, <1>4, <1>7, FailKeeps
<1>8. CASE /\ disk' = d /\ ~up' /\ target' = None /\ ~search' /\ job' = Resting("off")
           /\ UNCHANGED <<conf, mixed>>
  BY <1>1, <1>2, <1>4, <1>8, RestingLike DEF IInv, ManagerOK
<1> QED
  BY <1>5, <1>6, <1>7, <1>8

LEMMA ReconcileDoneInv ==
  ASSUME IInv, ReconcileDone
  PROVE  IInv'
<1>1. up /\ Leaves(disk)
  BY DiskLeft DEF ReconcileDone
<1>2. \/ (\E cost \in {0, 1} : Fail(disk, cost)) \/ Proceed(disk, 0, Resting("asleep"))
      \/ target # None /\ Activate
  BY DEF ReconcileDone
<1> QED
  BY <1>1, <1>2, FailKeeps, ProceedKeeps, RestingLike, ActivateInv

\* A step that leaves the index, the manager and the history alone.
LEMMA IdleInv ==
  ASSUME IInv, UNCHANGED <<disk, manager, mixed>>, JobLike(job')
  PROVE  IInv'
BY DEF IInv, ManagerOK, manager, Owned

LEMMA NextInv ==
  ASSUME ~StateLosses, IInv, [Next]_vars
  PROVE  IInv'
<1>1. CASE Start
  BY <1>1, StartInv
<1>2. CASE Crash
  BY <1>2, CrashInv
<1>3. CASE Register
  BY <1>3, IdleInv, RestingLike DEF Register
<1>4. CASE Migrate
  BY <1>4, RunInv, BatchDoneInv, ReconcileDoneInv, SourceInv, EmbeddedInv DEF Migrate
<1>5. ASSUME NEW p \in Profiles, Reconfigure(p)
      PROVE  IInv'
  BY <1>5, ReconfigureInv
<1>6. ASSUME NEW a \in Atoms, Remove(a)
      PROVE  IInv'
  BY <1>6, RemoveInv
<1>7. ASSUME NEW a \in Atoms, NEW text, Write(a, text)
      PROVE  IInv'
  BY <1>7, IdleInv DEF Write, IInv
<1>8. ASSUME NEW a \in Atoms, NEW text, Upsert(a, text)
      PROVE  IInv'
  BY <1>8, UpsertInv
<1>9. CASE UNCHANGED vars
  BY <1>9, IdleInv DEF vars, IInv
<1> QED
  BY <1>1, <1>2, <1>3, <1>4, <1>5, <1>6, <1>7, <1>8, <1>9 DEF Next
-----------------------------------------------------------------------------
(* The alias                                                               *)

LEMMA FailAlias ==
  ASSUME NEW d, Shape(d), NEW cost, Fail(d, cost)
  PROVE  disk'.alias = d.alias
<1> DEFINE e == [d EXCEPT !.state.aim = target]
<1>1. e = Disk(d.exist, d.points, d.alias, [d.state EXCEPT !.aim = target])
  BY DEF Shape, Disk
<1>2. disk' \in {d, e}
  BY DEF Fail
<1> HIDE DEF e
<1> QED
  BY <1>1, <1>2 DEF Disk

\* The steps of a run before its end, of the other tasks and of the process do
\* not move the alias.
LEMMA InitializationAlias ==
  ASSUME ~StateLosses, IInv, disk.alias # None, Start \/ \E p \in Profiles : Reconfigure(p)
  PROVE  disk'.alias = disk.alias
<1>1. PICK p \in Profiles : disk' = Initialized(disk, p) \/ disk' \in Stages(disk, p)
  <2>1. CASE Start
    BY <2>1 DEF Start, Seen, Opens
  <2>2. ASSUME NEW p \in Profiles, Reconfigure(p)
        PROVE  disk' = Initialized(disk, p) \/ disk' \in Stages(disk, p)
    <3>1. PICK seen \in Seen :
            \/ Opens(seen, p) /\ faults' = faults + ReadFails(seen)
            \/ /\ faults' = faults + ReadFails(seen) + 1
               /\ disk' \in Stages(seen, p)
               /\ UNCHANGED <<conf, target, search>>
      BY <2>2, Zenon DEF Reconfigure
    <3> QED
      BY <3>1 DEF Seen, Opens
  <2> QED
    BY <2>1, <2>2
<1> QED
  BY <1>1, InitializedKeeps, StagesKeep DEF IInv

LEMMA RunAlias ==
  ASSUME IInv, RunEnds \/ RunBatch \/ RunReconcile \/ BatchDone
  PROVE  disk'.alias = disk.alias
<1>1. up /\ Leaves(disk) /\ (~mixed => Owned(disk))
  BY DiskLeft DEF RunEnds, RunBatch, RunReconcile, BatchDone
<1>2. CASE RunEnds
  BY <1>2 DEF RunEnds, Proceed
<1>3. CASE RunBatch
  BY <1>1, <1>3, FailAlias DEF RunBatch, Proceed, Leaves
<1>4. CASE RunReconcile
  <2>1. target \in Collections
    BY <1>1, <1>4, Names DEF RunReconcile, IInv, ManagerOK
  <2>2. \A S : Leaves(Drop(disk, target, S)) /\ Drop(disk, target, S).alias = disk.alias
    BY <1>1, <2>1, DropLeft, DropShape DEF Leaves
  <2>3. \E S : disk' = Drop(disk, target, S) \/ Fail(Drop(disk, target, S), 1)
    BY <1>4 DEF RunReconcile, Proceed
  <2> QED
    BY <2>2, <2>3, FailAlias DEF Leaves
<1>5. CASE BatchDone
  <2> DEFINE e == [disk EXCEPT !.state.aim = target, !.state.cursor = job.last]
  <2>1. e.alias = disk.alias
    BY <1>1 DEF Leaves, Shape, Disk
  <2>2. Fail(disk, 1) \/ disk' \in {disk, e}
    BY <1>5 DEF BatchDone, Proceed
  <2> HIDE DEF e
  <2> QED
    BY <1>1, <2>1, <2>2, FailAlias DEF Leaves
<1> QED
  BY <1>2, <1>3, <1>4, <1>5

LEMMA SourceAlias ==
  ASSUME IInv, NEW a \in Atoms, Source(a) \/ Embedded(a)
  PROVE  disk'.alias = disk.alias
<1> DEFINE dropped == Drop(disk, job.coll, {a})
           written == Put(disk, job.coll, a, Point(job.text, job.gets))
<1>1. up /\ job.coll \in Profiles /\ job.coll \in Collections /\ Leaves(disk) /\ (~mixed => Owned(disk))
  BY DiskLeft, Names DEF Source, Embedded, IInv, JobLike
<1>2. Leaves(dropped) /\ dropped.alias = disk.alias
  BY <1>1, DropLeft, DropShape DEF Leaves
<1>3. written.alias = disk.alias /\ written.state = disk.state /\ Shape(written)
  BY <1>1, PutShape DEF Leaves
<1> HIDE DEF dropped, written
<1>4. disk' \in {disk, dropped, written} \/ (\E cost \in {0, 1}, d \in {disk, dropped, written} : Fail(d, cost))
  BY DEF Source, Embedded, Skip, Reembed, Upserted, Proceed, dropped, written
<1> QED
  BY <1>1, <1>2, <1>3, <1>4, FailAlias DEF Leaves

LEMMA WriterAlias ==
  ASSUME IInv, NEW a \in Atoms, NEW text, Write(a, text) \/ Upsert(a, text) \/ Remove(a)
  PROVE  disk'.alias = disk.alias
<1>1. up /\ Leaves(disk) /\ (~mixed => Owned(disk)) /\ disk.alias \in Collections
      /\ target \in Collections \cup {None} /\ conf \in Profiles
  BY DiskLeft, Names DEF Write, Upsert, Remove, IInv, ManagerOK, Shape
<1>2. CASE Write(a, text)
  BY <1>2 DEF Write
<1>3. CASE Upsert(a, text)
  BY <1>1, <1>3, PutShape DEF Upsert, WriteCollection, Leaves
<1>4. CASE Remove(a)
  <2> DEFINE first == Drop(disk, disk.alias, {a})
             both == IF target = None THEN first ELSE Drop(first, target, {a})
  <2>1. disk' \in {disk, first, both}
    BY <1>4 DEF Remove
  <2>2. Leaves(first) /\ first.alias = disk.alias
    BY <1>1, DropLeft, DropShape DEF Leaves
  <2> HIDE DEF first
  <2>3. both.alias = disk.alias
    BY <1>1, <2>2, DropShape DEF Leaves
  <2> QED
    BY <2>1, <2>2, <2>3
<1> QED
  BY <1>2, <1>3, <1>4

\* The alias is moved by the end of a verification only, and what is verified is
\* the collection of the run.
LEMMA SwitchVerified ==
  ASSUME IInv, ReconcileDone, disk'.alias # disk.alias
  PROVE  disk'.alias = target /\ target = conf /\ conf \in Profiles /\ job.coll \in Profiles
         /\ Exact(disk, job.coll, conf)
<1>1. up /\ Leaves(disk) /\ job.coll \in Profiles /\ conf \in Profiles /\ target \in {None, conf}
  BY DiskLeft DEF ReconcileDone, IInv, JobLike, ManagerOK
<1>2. \/ (\E cost \in {0, 1} : Fail(disk, cost)) \/ disk' = disk
      \/ Exact(disk, job.coll, conf) /\ target # None /\ Activate
  BY DEF ReconcileDone, Proceed
<1>3. Exact(disk, job.coll, conf) /\ target = conf /\ target \in Profiles /\ Activate
  BY <1>1, <1>2, FailAlias DEF Leaves
<1> DEFINE d == [disk EXCEPT !.alias = target]
           e == Activated(d, target)
<1>4. Shape(d) /\ Labels(d) /\ d.alias = target
  BY <1>1, <1>3, SwitchKeeps DEF Leaves
<1> HIDE DEF d
<1>5. e.alias = target
  BY <1>3, <1>4, ActivatedKeeps
<1>6. disk' = e \/ Fail(disk, 1) \/ Fail(d, 1) \/ disk' = d
  BY <1>3 DEF Activate, d
<1> HIDE DEF e
<1> QED
  BY <1>1, <1>3, <1>4, <1>5, <1>6, FailAlias DEF Leaves

\* A vector of the present profile in the verified collection shows that this is
\* the collection of that profile, and so the target.
LEMMA SwitchStep ==
  ASSUME ~StateLosses, IInv, [Next]_vars, ~mixed, disk.alias \notin {None, disk'.alias}, Embeddable # {}
  PROVE  Exact(disk, disk'.alias, conf)
<1>1. ReconcileDone
  <2>1. ~UNCHANGED vars
    BY DEF vars
  <2>2. Next
    BY <2>1
  <2>3. ~Crash /\ ~Register
    BY DEF Crash, Register
  <2>4. ~Start /\ \A p \in Profiles : ~Reconfigure(p)
    BY InitializationAlias
  <2>5. \A a \in Atoms : ~Remove(a) /\ \A text : ~Write(a, text) /\ ~Upsert(a, text)
    BY WriterAlias
  <2>6. ~RunEnds /\ ~RunBatch /\ ~RunReconcile /\ ~BatchDone
    BY RunAlias
  <2>7. \A a \in Atoms : ~Source(a) /\ ~Embedded(a)
    BY SourceAlias
  <2> QED
    BY <2>2, <2>3, <2>4, <2>5, <2>6, <2>7 DEF Next, Migrate
<1>2. /\ disk'.alias = conf /\ conf \in Profiles /\ job.coll \in Profiles /\ Exact(disk, job.coll, conf)
  BY <1>1, SwitchVerified
<1>3. PICK a \in Atoms : row[a] \in Contents
  BY DEF Embeddable
<1>4. disk.points[job.coll][a].space = conf
  <2>1. disk.points[job.coll][a] = Point(row[a], conf)
    BY <1>2, <1>3 DEF Exact, Expected
  <2> QED
    BY <2>1 DEF Point
<1>5. job.coll = conf
  BY <1>2, <1>4, Names DEF IInv, Owned
<1> QED
  BY <1>2, <1>5

-----------------------------------------------------------------------------
(* The theorems                                                            *)

\* What the state says of the collection behind the alias is true: a
\* collection of a profile has its vectors only, and the legacy collection is
\* said to be of a profile only while it has no others.
LEMMA LabelHolds == IInv => LabelTrue
<1> SUFFICES ASSUME IInv, disk.state.active = disk.alias, disk.state.space \in Profiles, ~mixed,
                    disk.alias # None, NEW a \in Atoms
             PROVE  disk.points[disk.alias][a].space \in {disk.state.space, None}
  BY DEF LabelTrue
<1>1. disk.alias \in Collections /\ Labels(disk) /\ Owned(disk)
  BY DEF IInv, Shape
<1>2. CASE disk.alias = Legacy
  BY <1>1, <1>2 DEF Labels
<1>3. CASE disk.alias \in Profiles
  BY <1>1, <1>3 DEF Labels, Owned
<1> QED
  BY <1>1, <1>2, <1>3 DEF Collections

\* While searches are on, the searched collection is said to be of the present
\* profile, and it is.
LEMMA SearchHolds == IInv => SearchOneSpace
<1> SUFFICES ASSUME IInv, up, search, ~mixed, NEW a \in Atoms
             PROVE  disk.points[disk.alias][a].space \in {conf, None}
  BY DEF SearchOneSpace
<1>1. Serves(disk, conf) /\ conf \in Profiles
  BY DEF IInv, ManagerOK
<1> QED
  BY <1>1, LabelHolds DEF Serves, LabelTrue

\* The invariant holds always, if no state is lost.
LEMMA Inductive ==
  ASSUME ~StateLosses
  PROVE  Spec => []IInv
<1>1. Init => IInv
  BY InitInv
<1>2. IInv /\ [Next]_vars => IInv'
  BY NextInv
<1> QED
  BY <1>1, <1>2, PTL DEF Spec

\* What is searched was made by the present profile, for all numbers of
\* sources, profiles, switches and failures: the store turns searches off
\* until the alias is on a collection that its state says is of that profile
\* (embedding_profile.py:3).
THEOREM SearchedOneSpace ==
  ASSUME ~StateLosses
  PROVE  Spec => []SearchOneSpace
BY Inductive, SearchHolds, PTL

\* What the persisted state says of the searched collection is true, through
\* all interruptions of an initialization, a rebuild and a switch of the
\* alias, so that the next start may open it on the word of the state.
THEOREM LabelsTrue ==
  ASSUME ~StateLosses
  PROVE  Spec => []LabelTrue
BY Inductive, LabelHolds, PTL

\* A rebuilt index is switched to only when it has exactly the vectors of the
\* present sources (store.py:1521), whenever the profile changed, if there are
\* sources and no run has mixed the vectors of two profiles.
THEOREM SwitchesToRebuilt ==
  ASSUME ~StateLosses
  PROVE  Spec => SwitchesToExact
<1>1. IInv /\ [Next]_vars =>
        [~mixed /\ disk.alias \notin {None, disk'.alias} /\ Embeddable # {} => Exact(disk, disk'.alias, conf)]_vars
  BY SwitchStep
<1> QED
  BY <1>1, Inductive, PTL DEF Spec, SwitchesToExact
=============================================================================
