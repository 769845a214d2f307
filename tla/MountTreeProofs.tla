--------------------------- MODULE MountTreeProofs ---------------------------
(***************************************************************************)
(* What holds of the mount tree for every tree: where a path can lead,     *)
(* and which mounts are covered, copied, moved and detached.               *)
(***************************************************************************)
EXTENDS MountTree, InductionFacts, SequenceTheorems

Positions == [mount: Nat, path: Seq(STRING)]

\* The positions on the mounts of a set.
Inside(R) == {p \in Positions : p.mount \in Ids(R)}

\* Nothing is mounted below the mounts of R but mounts of R.
Closed(ms, R) == Below(ms, R) \subseteq R

\* R is the mount `top' with all that is mounted below it.
TreeOf(ms, R, top) ==
  /\ R \subseteq ms /\ top \in R /\ Closed(ms, R)
  /\ \A C \in SUBSET R : top \in C /\ Closed(ms, C) => C = R

------------------------------------------------------------------------------

\* Uppermost is reached by going up once for each mount.
LEMMA UppermostClimbs ==
  ASSUME NEW ms, IsFiniteSet(ms), NEW pos
  PROVE  \E climb :
           /\ climb[0] = pos
           /\ \A i \in 1..Cardinality(ms) : climb[i] = Above(ms, climb[i - 1])
           /\ Uppermost(ms, pos) = climb[Cardinality(ms)]
<1> DEFINE N == Cardinality(ms)
           S == {pos} \cup {Position(x.id, <<>>) : x \in ms}
           F == [a \in (1..N) \X S |-> Above(ms, a[2])]
           Is(f) == f = [n \in 0..N |-> IF n = 0 THEN pos ELSE Above(ms, f[n - 1])]
           climb == CHOOSE f : Is(f)
<1>1. N \in Nat
  BY FS_CardinalityType
<1> HIDE DEF N
<1>2. \A s : Above(ms, s) = s \/ Above(ms, s) \in S
  <2> SUFFICES ASSUME NEW s, Covering(ms, s) # {} PROVE Above(ms, s) \in S
    BY DEF Above
  <2>1. (CHOOSE x \in Covering(ms, s) : TRUE) \in Covering(ms, s)
    OBVIOUS
  <2>2. Covering(ms, s) \subseteq ms
    BY DEF Covering
  <2> QED BY <2>1, <2>2 DEF Above
<1>3. StepsIn(F, N, S)
  BY <1>2 DEF StepsIn
<1>4. pos \in S
  OBVIOUS
<1>5. \A i \in 1..N : \A s \in S : F[<<i, s>>] = Above(ms, s)
  OBVIOUS
<1> HIDE DEF S, F, Is, climb
<1>6. PICK f \in [0..N -> S] : Iterates(f, F, pos, N)
  BY <1>1, <1>3, <1>4, IterationExists, Zenon
<1> USE DEF Is
<1>7. Is(f)
  <2>1. ASSUME NEW i \in 1..N PROVE f[i] = Above(ms, f[i - 1])
    <3>1. f[i - 1] \in S
      BY <1>1, <1>6
    <3> QED BY <3>1, <1>5, <1>6 DEF Iterates
  <2>2. \A n \in 0..N : f[n] = IF n = 0 THEN pos ELSE Above(ms, f[n - 1])
    BY <1>1, <1>6, <2>1 DEF Iterates
  <2> QED BY <2>2
<1>8. Is(climb)
  BY <1>7, Zenon DEF climb
<1>9. Uppermost(ms, pos) = climb[N]
  BY Zenon DEF Uppermost, N, climb
<1>10. climb[0] = pos /\ \A i \in 1..N : climb[i] = Above(ms, climb[i - 1])
  BY <1>1, <1>8
<1> QED BY <1>9, <1>10, Zenon DEF N

\* Going up does not leave a set of positions that what covers one of them does
\* not leave.
LEMMA UppermostStays ==
  ASSUME NEW ms, IsFiniteSet(ms), NEW pos, NEW P, pos \in P,
         \A p \in P : Above(ms, p) \in P
  PROVE  Uppermost(ms, pos) \in P
<1>1. PICK climb :
        /\ climb[0] = pos
        /\ \A i \in 1..Cardinality(ms) : climb[i] = Above(ms, climb[i - 1])
        /\ Uppermost(ms, pos) = climb[Cardinality(ms)]
  BY UppermostClimbs, Zenon
<1>2. Cardinality(ms) \in Nat
  BY FS_CardinalityType
<1>3. \A i \in 1..Cardinality(ms) : climb[i - 1] \in P => climb[i] \in P
  BY <1>1
<1>4. \A i \in 0..Cardinality(ms) : climb[i] \in P
  BY <1>1, <1>2, <1>3, IterationStays
<1> QED BY <1>1, <1>2, <1>4

\* What covers the position can lead into that set, too.
LEMMA UppermostEnters ==
  ASSUME NEW ms, IsFiniteSet(ms), NEW pos, NEW P, Above(ms, pos) \in P,
         \A p \in P : Above(ms, p) \in P, ms # {}
  PROVE  Uppermost(ms, pos) \in P
<1>1. PICK climb :
        /\ climb[0] = pos
        /\ \A i \in 1..Cardinality(ms) : climb[i] = Above(ms, climb[i - 1])
        /\ Uppermost(ms, pos) = climb[Cardinality(ms)]
  BY UppermostClimbs, Zenon
<1> DEFINE N == Cardinality(ms)
           Q == P \cup {pos}
           high == [i \in 0..(N - 1) |-> climb[i + 1]]
<1>2. N \in Nat /\ N # 0
  BY FS_CardinalityType, FS_EmptySet
<1>3. high[0] \in P
  <2>1. climb[1] = Above(ms, pos)
    BY <1>1, <1>2
  <2> QED BY <1>2, <2>1
<1>4. ASSUME NEW i \in 1..(N - 1), high[i - 1] \in P PROVE high[i] \in P
  <2>1. high[i - 1] = climb[i] /\ high[i] = climb[i + 1] /\ i + 1 \in 1..N
    BY <1>2
  <2>2. climb[i + 1] = Above(ms, climb[(i + 1) - 1])
    BY <1>1, <2>1
  <2> QED BY <1>4, <2>1, <2>2
<1>5. N - 1 \in Nat
  BY <1>2
<1> HIDE DEF high, N
<1>6. \A i \in 0..(N - 1) : high[i] \in P
  BY <1>3, <1>4, <1>5, IterationStays
<1>7. high[N - 1] = climb[N]
  BY <1>2 DEF high
<1> QED BY <1>1, <1>2, <1>6, <1>7 DEF N

\* Where nothing is mounted, that is where it ends.
LEMMA UppermostOfUncovered ==
  ASSUME NEW ms, IsFiniteSet(ms), NEW pos, Covering(ms, pos) = {}
  PROVE  Uppermost(ms, pos) = pos
<1>1. \A p \in {pos} : Above(ms, p) \in {pos}
  BY DEF Above
<1>2. Uppermost(ms, pos) \in {pos}
  BY <1>1, UppermostStays
<1> QED BY <1>2

\* With a single mount on top that nothing covers, it ends there.
LEMMA UppermostOfCovered ==
  ASSUME NEW ms, IsFiniteSet(ms), NEW pos, NEW x, Covering(ms, pos) = {x},
         Covering(ms, Position(x.id, <<>>)) = {}
  PROVE  Uppermost(ms, pos) = Position(x.id, <<>>)
<1> DEFINE P == {Position(x.id, <<>>)}
<1>1. Above(ms, pos) \in P /\ \A p \in P : Above(ms, p) \in P
  BY DEF Above
<1>2. ms # {}
  BY DEF Covering
<1> HIDE DEF P
<1>3. Uppermost(ms, pos) \in P
  BY <1>1, <1>2, UppermostEnters
<1> QED BY <1>3 DEF P

------------------------------------------------------------------------------

\* Positions are led to positions.
LEMMA UppermostType ==
  ASSUME NEW FS, NEW ms, WellFormed(ms, FS), NEW pos \in Positions
  PROVE  Uppermost(ms, pos) \in Positions
<1>1. ASSUME NEW p \in Positions PROVE Above(ms, p) \in Positions
  <2>1. CASE Covering(ms, p) = {}
    BY <2>1 DEF Above
  <2>2. CASE Covering(ms, p) # {}
    <3>1. PICK x \in ms : Above(ms, p) = Position(x.id, <<>>)
      BY <2>2 DEF Above, Covering
    <3>2. x.id \in Nat
      BY DEF WellFormed, MountRecords
    <3> QED BY <3>1, <3>2 DEF Position, Positions
  <2> QED BY <2>1, <2>2
<1> QED BY <1>1, UppermostStays DEF WellFormed

\* A path is walked name by name.
LEMMA LookupWalks ==
  ASSUME NEW FS, NEW ms, WellFormed(ms, FS), NEW path \in Seq(STRING)
  PROVE  \E walk :
           /\ walk[0] = Uppermost(ms, Position(RamDisk, <<>>))
           /\ \A i \in 1..Len(path) :
                walk[i] = Uppermost(ms, Position(walk[i - 1].mount,
                                                Append(walk[i - 1].path, path[i])))
           /\ \A i \in 0..Len(path) : walk[i] \in Positions
           /\ Lookup(ms, path) = walk[Len(path)]
<1> DEFINE N == Len(path)
           To(i, p) == Uppermost(ms, Position(p.mount, Append(p.path, path[i])))
           start == Uppermost(ms, Position(RamDisk, <<>>))
           F == [a \in (1..N) \X Positions |-> To(a[1], a[2])]
           Is(f) == f = [n \in 0..N |-> IF n = 0 THEN start ELSE To(n, f[n - 1])]
           walk == CHOOSE f : Is(f)
<1>1. N \in Nat
  OBVIOUS
<1>2. start \in Positions
  <2>1. Position(RamDisk, <<>>) \in Positions
    BY DEF Position, Positions, RamDisk
  <2> QED BY <2>1, UppermostType
<1>3. ASSUME NEW i \in 1..N, NEW p \in Positions PROVE To(i, p) \in Positions
  <2>1. path[i] \in STRING
    BY ElementOfSeq
  <2>2. Position(p.mount, Append(p.path, path[i])) \in Positions
    BY <2>1 DEF Position, Positions
  <2> QED BY <2>2, UppermostType
<1> HIDE DEF N, To, start
<1>4. StepsIn(F, N, Positions)
  BY <1>3 DEF StepsIn
<1>5. \A i \in 1..N : \A p \in Positions : F[<<i, p>>] = To(i, p)
  OBVIOUS
<1> HIDE DEF F, Is, walk
<1>6. PICK f \in [0..N -> Positions] : Iterates(f, F, start, N)
  BY <1>1, <1>2, <1>4, IterationExists, Zenon
<1>7. Is(f)
  <2>1. ASSUME NEW i \in 1..N PROVE f[i] = To(i, f[i - 1])
    <3>1. f[i - 1] \in Positions
      BY <1>1, <1>6
    <3> QED BY <3>1, <1>5, <1>6 DEF Iterates
  <2>2. \A n \in 0..N : f[n] = IF n = 0 THEN start ELSE To(n, f[n - 1])
    BY <1>1, <1>6, <2>1 DEF Iterates
  <2> QED BY <2>2 DEF Is
<1>8. Is(walk)
  BY <1>7, Zenon DEF walk
<1>9. Lookup(ms, path) = walk[N]
  BY Zenon DEF Lookup, N, walk, Is, To, start
<1>10. walk[0] = start /\ \A i \in 1..N : walk[i] = To(i, walk[i - 1])
  BY <1>1, <1>8 DEF Is
<1>11. \A i \in 1..N : walk[i - 1] \in Positions => walk[i] \in Positions
  BY <1>3, <1>10
<1>12. \A i \in 0..N : walk[i] \in Positions
  BY <1>1, <1>2, <1>10, <1>11, IterationStays
<1> QED BY <1>9, <1>10, <1>12 DEF N, To, start

\* The next name of a path.
Into(ms, pos, name) == Uppermost(ms, Position(pos.mount, Append(pos.path, name)))

\* The path of a position of the tree has a type.
LEMMA LookupType ==
  ASSUME NEW FS, NEW ms, WellFormed(ms, FS), NEW path \in Seq(STRING)
  PROVE  Lookup(ms, path) \in Positions
  BY LookupWalks, LenProperties

\* A path without a name, and one with a name more.
LEMMA LookupEmpty ==
  ASSUME NEW FS, NEW ms, WellFormed(ms, FS)
  PROVE  Lookup(ms, <<>>) = Uppermost(ms, Position(RamDisk, <<>>))
<1>1. <<>> \in Seq(STRING) /\ Len(<<>>) = 0
  OBVIOUS
<1> QED BY <1>1, LookupWalks

\* One name leads one directory further.
LEMMA LookupName ==
  ASSUME NEW FS, NEW ms, WellFormed(ms, FS), NEW path \in Seq(STRING),
         NEW name \in STRING
  PROVE  Lookup(ms, Append(path, name)) = Into(ms, Lookup(ms, path), name)
<1> DEFINE N == Len(path)
           long == Append(path, name)
<1>1. N \in Nat /\ long \in Seq(STRING) /\ Len(long) = N + 1
      /\ long[N + 1] = name /\ \A i \in 1..N : long[i] = path[i]
  OBVIOUS
<1> HIDE DEF long
<1>2. PICK w : /\ w[0] = Uppermost(ms, Position(RamDisk, <<>>))
               /\ \A i \in 1..N : w[i] = Into(ms, w[i - 1], path[i])
               /\ Lookup(ms, path) = w[N]
  BY LookupWalks DEF Into
<1>3. PICK v : /\ v[0] = Uppermost(ms, Position(RamDisk, <<>>))
               /\ \A i \in 1..(N + 1) : v[i] = Into(ms, v[i - 1], long[i])
               /\ Lookup(ms, long) = v[N + 1]
  BY <1>1, LookupWalks DEF Into
<1>4. \A i \in 1..N : v[i - 1] = w[i - 1] => v[i] = w[i]
  BY <1>1, <1>2, <1>3
<1> HIDE DEF N
<1>5. v[N] = w[N]
  <2> DEFINE T == {i \in 0..N : v[i] = w[i]}
  <2>1. N \in Nat /\ 0 \in T
    BY <1>1, <1>2, <1>3
  <2>2. ASSUME NEW i \in 1..N, i - 1 \in T PROVE i \in T
    BY <1>4, <2>1, <2>2
  <2> HIDE DEF T
  <2>3. 0..N \subseteq T
    BY <2>1, <2>2, BoundedInduction, Zenon
  <2>4. N \in T
    BY <2>1, <2>3
  <2> QED BY <2>4 DEF T
<1>6. N + 1 \in 1..(N + 1) /\ (N + 1) - 1 = N
  BY <1>1
<1>7. v[N + 1] = Into(ms, v[N], name)
  BY <1>1, <1>3, <1>6
<1> QED BY <1>2, <1>3, <1>5, <1>7 DEF long

\* The last name of a path that goes on.
LEMMA ConcatAppend ==
  ASSUME NEW S, NEW s \in Seq(S), NEW t \in Seq(S), NEW e \in S
  PROVE  s \o Append(t, e) = Append(s \o t, e)
  OBVIOUS

\* Paths that go on with the same names from related positions end at related
\* positions, if every name keeps the relation.
LEMMA LookupRelated ==
  ASSUME NEW FS, NEW ms1, WellFormed(ms1, FS), NEW ms2, WellFormed(ms2, FS),
         NEW dir1 \in Seq(STRING), NEW dir2 \in Seq(STRING),
         NEW rest \in Seq(STRING), NEW Q,
         <<Lookup(ms1, dir1), Lookup(ms2, dir2)>> \in Q,
         \A p, q \in Positions : \A name \in STRING :
           <<p, q>> \in Q => <<Into(ms1, p, name), Into(ms2, q, name)>> \in Q
  PROVE  <<Lookup(ms1, dir1 \o rest), Lookup(ms2, dir2 \o rest)>> \in Q
<1> DEFINE N == Len(rest)
           part(i) == SubSeq(rest, 1, i)
           T == {i \in 0..N : <<Lookup(ms1, dir1 \o part(i)),
                               Lookup(ms2, dir2 \o part(i))>> \in Q}
<1>1. N \in Nat /\ part(0) = <<>> /\ part(N) = rest
  OBVIOUS
<1>2. 0 \in T
  <2>1. dir1 \o <<>> = dir1 /\ dir2 \o <<>> = dir2
    OBVIOUS
  <2> HIDE DEF part
  <2>2. <<Lookup(ms1, dir1 \o part(0)), Lookup(ms2, dir2 \o part(0))>> \in Q
    BY <1>1, <2>1
  <2> QED BY <1>1, <2>2
<1>3. ASSUME NEW i \in 1..N, i - 1 \in T PROVE i \in T
  <2> DEFINE d1 == dir1 \o part(i - 1)
             d2 == dir2 \o part(i - 1)
  <2>1. rest[i] \in STRING /\ part(i) = Append(part(i - 1), rest[i])
        /\ part(i - 1) \in Seq(STRING)
    BY ElementOfSeq
  <2>2. d1 \in Seq(STRING) /\ d2 \in Seq(STRING)
    BY <2>1
  <2>3. dir1 \o part(i) = Append(d1, rest[i]) /\ dir2 \o part(i) = Append(d2, rest[i])
    <3> HIDE DEF part, T
    <3>1. dir1 \o Append(part(i - 1), rest[i]) = Append(d1, rest[i])
      BY <2>1, ConcatAppend
    <3>2. dir2 \o Append(part(i - 1), rest[i]) = Append(d2, rest[i])
      BY <2>1, ConcatAppend
    <3> QED BY <2>1, <3>1, <3>2
  <2>4. <<Lookup(ms1, d1), Lookup(ms2, d2)>> \in Q
    BY <1>3
  <2> HIDE DEF d1, d2, part
  <2>5. Lookup(ms1, d1) \in Positions /\ Lookup(ms2, d2) \in Positions
    BY <2>2, LookupType
  <2>6. /\ Lookup(ms1, Append(d1, rest[i])) = Into(ms1, Lookup(ms1, d1), rest[i])
        /\ Lookup(ms2, Append(d2, rest[i])) = Into(ms2, Lookup(ms2, d2), rest[i])
    BY <2>1, <2>2, LookupName, ZenonT(60)
  <2>7. <<Lookup(ms1, dir1 \o part(i)), Lookup(ms2, dir2 \o part(i))>> \in Q
    BY <2>1, <2>3, <2>4, <2>5, <2>6
  <2> QED BY <2>7
<1> HIDE DEF T, part
<1>4. 0..N \subseteq T
  BY <1>1, <1>2, <1>3, BoundedInduction, Zenon
<1>5. N \in T
  BY <1>1, <1>4
<1> QED BY <1>1, <1>5, Zenon DEF T

\* A path that goes on in a part of the tree that no name leads out of.
LEMMA LookupStays ==
  ASSUME NEW FS, NEW ms, WellFormed(ms, FS), NEW dir \in Seq(STRING),
         NEW rest \in Seq(STRING), NEW P, Lookup(ms, dir) \in P,
         \A p \in P \cap Positions : \A name \in STRING : Into(ms, p, name) \in P
  PROVE  Lookup(ms, dir \o rest) \in P
<1> DEFINE Q == {<<p, p>> : p \in P}
<1>1. <<Lookup(ms, dir), Lookup(ms, dir)>> \in Q
  OBVIOUS
<1>2. \A p, q \in Positions : \A name \in STRING :
        <<p, q>> \in Q => <<Into(ms, p, name), Into(ms, q, name)>> \in Q
  OBVIOUS
<1>3. \A a, b : <<a, b>> \in Q => a \in P
  OBVIOUS
<1> HIDE DEF Q
<1>4. <<Lookup(ms, dir \o rest), Lookup(ms, dir \o rest)>> \in Q
  BY <1>1, <1>2, LookupRelated
<1> QED BY <1>3, <1>4

------------------------------------------------------------------------------

\* The mounts that are detached are those that are asked for, all that is
\* mounted below them, and no others.
LEMMA SubtreeIs ==
  ASSUME NEW ms, IsFiniteSet(ms), NEW ids
  PROVE  \E R \in SUBSET ms :
           /\ Subtree(ms, ids) = Ids(R)
           /\ {x \in ms : x.id \in ids} \subseteq R
           /\ Closed(ms, R)
           /\ \A C \in SUBSET ms :
                {x \in ms : x.id \in ids} \subseteq C /\ Closed(ms, C) => R \subseteq C
<1> DEFINE N == Cardinality(ms)
           seeds == {x \in ms : x.id \in ids}
           To(R) == R \cup Below(ms, R)
           F == [a \in (1..N) \X SUBSET ms |-> To(a[2])]
           Is(f) == f = [n \in 0..N |-> IF n = 0 THEN seeds ELSE To(f[n - 1])]
           reach == CHOOSE f : Is(f)
<1>1. N \in Nat /\ seeds \in SUBSET ms
  BY FS_CardinalityType
<1>2. \A R \in SUBSET ms : To(R) \in SUBSET ms
  BY DEF Below
<1> HIDE DEF N, seeds, To
<1>3. StepsIn(F, N, SUBSET ms)
  BY <1>2 DEF StepsIn
<1>4. \A i \in 1..N : \A R \in SUBSET ms : F[<<i, R>>] = To(R)
  OBVIOUS
<1> HIDE DEF F, Is, reach
<1>5. PICK f \in [0..N -> SUBSET ms] : Iterates(f, F, seeds, N)
  BY <1>1, <1>3, IterationExists, Zenon
<1>6. Is(f)
  <2>1. ASSUME NEW i \in 1..N PROVE f[i] = To(f[i - 1])
    <3>1. f[i - 1] \in SUBSET ms
      BY <1>1, <1>5
    <3> QED BY <3>1, <1>4, <1>5 DEF Iterates
  <2>2. \A n \in 0..N : f[n] = IF n = 0 THEN seeds ELSE To(f[n - 1])
    BY <1>1, <1>5, <2>1 DEF Iterates
  <2> QED BY <2>2 DEF Is
<1>7. Is(reach)
  BY <1>6, Zenon DEF reach
<1>8. Subtree(ms, ids) = Ids(reach[N])
  BY Zenon DEF Subtree, Ids, N, reach, Is, To, seeds
<1>9. reach[0] = seeds /\ \A i \in 1..N : reach[i] = To(reach[i - 1])
  BY <1>1, <1>7 DEF Is
<1>10. \A i \in 0..N : reach[i] \in SUBSET ms
  <2>1. \A i \in 1..N : reach[i - 1] \in SUBSET ms => reach[i] \in SUBSET ms
    BY <1>2, <1>9
  <2> QED BY <1>1, <1>9, <2>1, IterationStays
<1>11. \A i \in 0..N : seeds \subseteq reach[i]
  <2> DEFINE S == {R \in SUBSET ms : seeds \subseteq R}
  <2>1. \A i \in 1..N : reach[i - 1] \in S => reach[i] \in S
    BY <1>2, <1>9 DEF To
  <2>2. reach[0] \in S
    BY <1>1, <1>9
  <2> HIDE DEF S
  <2>3. \A i \in 0..N : reach[i] \in S
    BY <1>1, <2>1, <2>2, IterationStays
  <2> QED BY <2>3 DEF S
<1>12. ASSUME NEW C \in SUBSET ms, seeds \subseteq C, Closed(ms, C)
       PROVE  \A i \in 0..N : reach[i] \subseteq C
  <2>1. \A i \in 1..N : reach[i - 1] \in SUBSET C => reach[i] \in SUBSET C
    BY <1>9, <1>12 DEF To, Below, Closed
  <2>2. reach[0] \in SUBSET C
    BY <1>9, <1>12
  <2>3. \A i \in 0..N : reach[i] \in SUBSET C
    BY <1>1, <2>1, <2>2, IterationStays
  <2> QED BY <2>3
<1>13. Closed(ms, reach[N])
  <2> DEFINE T == {i \in 0..N : Closed(ms, reach[i]) \/ Cardinality(reach[i]) >= i}
  <2>0. \A i \in 0..N : IsFiniteSet(reach[i]) /\ Cardinality(reach[i]) \in Nat
    BY <1>10, FS_Subset, FS_CardinalityType
  <2>1. 0 \in T
    BY <1>1, <2>0
  <2>2. ASSUME NEW i \in 1..N, i - 1 \in T PROVE i \in T
    <3> DEFINE old == reach[i - 1]
               new == reach[i]
    <3>1. new = To(old) /\ i - 1 \in 0..N /\ i \in 0..N
      BY <1>1, <1>9
    <3>2. CASE Closed(ms, old)
      <4>1. new = old
        BY <3>1, <3>2 DEF Closed, To
      <4> QED BY <3>1, <3>2, <4>1
    <3>3. CASE ~Closed(ms, old)
      <4>1. Cardinality(old) >= i - 1 /\ IsFiniteSet(old) /\ IsFiniteSet(new)
            /\ Cardinality(old) \in Nat /\ Cardinality(new) \in Nat
        BY <2>0, <2>2, <3>1, <3>3
      <4>2. old \in SUBSET new /\ old # new
        BY <3>1, <3>3 DEF Closed, To
      <4>3. Cardinality(old) <= Cardinality(new) /\ Cardinality(old) # Cardinality(new)
        BY <4>1, <4>2, FS_Subset
      <4>4. Cardinality(new) >= i
        BY <4>1, <4>3
      <4> QED BY <3>1, <4>4
    <3> QED BY <3>2, <3>3
  <2> HIDE DEF T
  <2>3. 0..N \subseteq T
    BY <1>1, <2>1, <2>2, BoundedInduction, Zenon
  <2>4. N \in T /\ N \in 0..N
    BY <1>1, <2>3
  <2>5. CASE Cardinality(reach[N]) >= N
    <3>1. Cardinality(reach[N]) <= N /\ (Cardinality(reach[N]) = N => reach[N] = ms)
      BY <1>10, <2>4, FS_Subset DEF N
    <3>2. reach[N] = ms
      BY <1>1, <2>0, <2>4, <2>5, <3>1
    <3> QED BY <3>2 DEF Closed, Below
  <2> QED BY <2>4, <2>5 DEF T
<1>14. N \in 0..N
  BY <1>1
<1>15. reach[N] \in SUBSET ms /\ seeds \subseteq reach[N]
  BY <1>10, <1>11, <1>14
<1>16. \A C \in SUBSET ms : seeds \subseteq C /\ Closed(ms, C) => reach[N] \subseteq C
  BY <1>12, <1>14
<1> QED BY <1>8, <1>13, <1>15, <1>16 DEF seeds

\* A single mount is detached with its tree.
LEMMA SubtreeOfMount ==
  ASSUME NEW FS, NEW ms, WellFormed(ms, FS), NEW top \in ms
  PROVE  \E R : TreeOf(ms, R, top) /\ Subtree(ms, {top.id}) = Ids(R)
<1>1. IsFiniteSet(ms) /\ {x \in ms : x.id \in {top.id}} = {top}
  BY DEF WellFormed
<1>2. PICK R \in SUBSET ms :
        /\ Subtree(ms, {top.id}) = Ids(R)
        /\ {top} \subseteq R /\ Closed(ms, R)
        /\ \A C \in SUBSET ms : {top} \subseteq C /\ Closed(ms, C) => R \subseteq C
  BY <1>1, SubtreeIs
<1>3. TreeOf(ms, R, top)
  BY <1>2 DEF TreeOf
<1> QED BY <1>2, <1>3

\* A tree lies in every part of the mounts that has its top and all that is
\* mounted below its own mounts.
LEMMA TreeWithin ==
  ASSUME NEW ms, NEW R, NEW top, TreeOf(ms, R, top),
         NEW C, top \in C, Closed(ms, C)
  PROVE  R \subseteq C
<1>1. Closed(ms, R \cap C)
  BY DEF TreeOf, Closed, Below
<1>2. R \cap C \in SUBSET R /\ top \in R \cap C
  BY DEF TreeOf
<1>3. R \cap C = R
  BY <1>1, <1>2 DEF TreeOf
<1> QED BY <1>3

\* All its mounts but the top are mounted below its own mounts.
LEMMA TreeParents ==
  ASSUME NEW ms, NEW R, NEW top, TreeOf(ms, R, top), NEW x \in R, x # top
  PROVE  x.parent \in Ids(R)
<1> SUFFICES ASSUME x.parent \notin Ids(R) PROVE FALSE
  OBVIOUS
<1> DEFINE C == R \ {x}
<1>1. Closed(ms, C)
  BY DEF TreeOf, Closed, Below, Ids
<1>2. C \in SUBSET R /\ top \in C /\ C # R
  BY DEF TreeOf
<1> QED BY <1>1, <1>2 DEF TreeOf

\* A tree is what it was when no mounts below it come or go.
LEMMA TreeKept ==
  ASSUME NEW ms, NEW R, NEW top, TreeOf(ms, R, top), NEW ms2, R \subseteq ms2,
         \A x \in ms2 : x.parent \in Ids(R) => x \in ms
  PROVE  TreeOf(ms2, R, top)
<1>1. \A C \in SUBSET R : Below(ms2, C) = Below(ms, C)
  BY DEF TreeOf, Closed, Below, Ids
<1> QED BY <1>1 DEF TreeOf, Closed

\* A tree that is grafted on it becomes a part of it.
LEMMA TreeGrows ==
  ASSUME NEW ms, NEW R, NEW top, TreeOf(ms, R, top),
         NEW N, NEW new, TreeOf(ms \cup N, N, new), new.parent \in Ids(R),
         \A x \in ms : x.parent \notin Ids(N)
  PROVE  TreeOf(ms \cup N, R \cup N, top)
<1> DEFINE ms2 == ms \cup N
<1>1. Closed(ms2, R \cup N)
  BY DEF TreeOf, Closed, Below, Ids
<1>2. ASSUME NEW C \in SUBSET (R \cup N), top \in C, Closed(ms2, C)
      PROVE  C = R \cup N
  <2>1. Closed(ms, C \cap R)
    BY <1>2 DEF TreeOf, Closed, Below
  <2>2. C \cap R = R
    BY <1>2, <2>1 DEF TreeOf
  <2>3. new \in C
    BY <1>2, <2>2 DEF TreeOf, Closed, Below, Ids
  <2>4. Closed(ms2, C \cap N)
    BY <1>2 DEF TreeOf, Closed, Below
  <2>5. C \cap N = N
    BY <2>3, <2>4 DEF TreeOf
  <2> QED BY <2>2, <2>5
<1> QED BY <1>1, <1>2 DEF TreeOf

\* What is left of a tree when one that hangs on it is cut off.
LEMMA TreeCut ==
  ASSUME NEW ms, NEW R, NEW top, TreeOf(ms, R, top),
         NEW G, NEW g, TreeOf(ms, G, g), g \in R, top \notin G
  PROVE  TreeOf(ms \ G, R \ G, top)
<1> DEFINE ms2 == ms \ G
<1>1. Closed(ms2, R \ G)
  BY DEF TreeOf, Closed, Below
<1>2. ASSUME NEW C \in SUBSET (R \ G), top \in C, Closed(ms2, C)
      PROVE  C = R \ G
  <2>1. G \subseteq R
    BY TreeWithin DEF TreeOf
  <2>2. Closed(ms, C \cup G)
    BY <1>2 DEF TreeOf, Closed, Below
  <2>3. C \cup G = R
    BY <1>2, <2>1, <2>2 DEF TreeOf
  <2> QED BY <2>3
<1> QED BY <1>1, <1>2 DEF TreeOf

\* Detaching the mount that is seen at a path takes its tree away.
LEMMA UnmountCuts ==
  ASSUME NEW FS, NEW ms, WellFormed(ms, FS), NEW path,
         NEW top \in ms, Lookup(ms, path) = Position(top.id, <<>>)
  PROVE  \E G : TreeOf(ms, G, top) /\ Unmount(ms, path) = ms \ G
<1>1. PICK G : TreeOf(ms, G, top) /\ Subtree(ms, {top.id}) = Ids(G)
  BY SubtreeOfMount
<1>2. top.id # RamDisk
  BY DEF WellFormed, MountRecords
<1>3. IsMountPoint(ms, path)
  BY <1>2 DEF IsMountPoint, Position
<1>4. Unmount(ms, path) = {x \in ms : x.id \notin Ids(G)}
  BY <1>1, <1>3 DEF Unmount, Position
<1>5. \A x \in ms : x.id \in Ids(G) <=> x \in G
  BY <1>1 DEF WellFormed, TreeOf, Ids
<1>6. Unmount(ms, path) = ms \ G
  BY <1>4, <1>5
<1> QED BY <1>1, <1>6

\* The mounts are well-formed without a tree.
LEMMA CutWellFormed ==
  ASSUME NEW FS, NEW ms, WellFormed(ms, FS), NEW G, Closed(ms, G)
  PROVE  WellFormed(ms \ G, FS)
<1>1. IsFiniteSet(ms \ G)
  BY FS_Difference DEF WellFormed
<1>2. \A x \in ms \ G : x.parent \in Ids(ms \ G) \cup {RamDisk}
  BY DEF WellFormed, Closed, Below, Ids
<1> QED BY <1>1, <1>2 DEF WellFormed

------------------------------------------------------------------------------

\* A fresh identity is greater than those of all mounts.
LEMMA FreshIdIsNew ==
  ASSUME NEW FS, NEW ms, WellFormed(ms, FS)
  PROVE  FreshId(ms) \in Nat \ {RamDisk} /\ \A x \in ms : x.id < FreshId(ms)
<1> DEFINE S == {x.id : x \in ms} \cup {RamDisk}
<1>1. S \in SUBSET Nat /\ RamDisk \in S
  BY DEF WellFormed, MountRecords, RamDisk
<1>2. IsFiniteSet(S)
  <2> DEFINE f == [x \in ms |-> x.id]
  <2>1. f \in Surjection(ms, {x.id : x \in ms})
    BY DEF Surjection
  <2>2. IsFiniteSet({x.id : x \in ms})
    BY <2>1, FS_Surjection DEF WellFormed
  <2> QED BY <2>2, FS_AddElement
<1>3. FreshId(ms) = Max(S) + 1
  BY DEF FreshId
<1>4. \A x \in ms : x.id \in S
  OBVIOUS
<1> HIDE DEF S
<1>5. Max(S) \in S /\ \A y \in S : Max(S) >= y
  BY <1>1, <1>2, FiniteMax
<1>6. Max(S) \in Nat
  BY <1>1, <1>5, Zenon
<1>7. ASSUME NEW x \in ms PROVE x.id < Max(S) + 1
  <2>1. x.id \in Nat /\ Max(S) >= x.id
    BY <1>1, <1>4, <1>5, Zenon
  <2> QED BY <1>6, <2>1
<1> QED BY <1>3, <1>6, <1>7 DEF RamDisk

\* A mount record with other values: its type and what is in it.
WithIds(x, i, p)      == [x EXCEPT !.id = i, !.parent = p]
WithPlace(x, p, a)    == [x EXCEPT !.parent = p, !.at = a]
WithAll(x, i, p, a)   == [x EXCEPT !.id = i, !.parent = p, !.at = a]

\* A record of a mount with other fields is the record of a mount still.
LEMMA RecordWithIds ==
  \A FS : \A x \in MountRecords(FS) : \A i \in Nat \ {RamDisk} : \A p \in Nat :
    /\ WithIds(x, i, p) \in MountRecords(FS)
    /\ WithIds(x, i, p).id = i
    /\ WithIds(x, i, p).parent = p
    /\ WithIds(x, i, p).at = x.at
    /\ WithIds(x, i, p).fs = x.fs /\ WithIds(x, i, p).dir = x.dir
  BY ZenonT(60) DEF MountRecords, WithIds

\* With a place as well.
LEMMA RecordWithAll ==
  \A FS : \A x \in MountRecords(FS) : \A i \in Nat \ {RamDisk} : \A p \in Nat :
    \A a \in Seq(STRING) :
      /\ WithAll(x, i, p, a) \in MountRecords(FS)
      /\ WithAll(x, i, p, a).id = i
      /\ WithAll(x, i, p, a).parent = p
      /\ WithAll(x, i, p, a).at = a
<1> SUFFICES ASSUME NEW FS, NEW x \in MountRecords(FS), NEW i \in Nat \ {RamDisk},
                    NEW p \in Nat, NEW a \in Seq(STRING)
             PROVE  /\ WithAll(x, i, p, a) \in MountRecords(FS)
                    /\ WithAll(x, i, p, a).id = i
                    /\ WithAll(x, i, p, a).parent = p
                    /\ WithAll(x, i, p, a).at = a
  OBVIOUS
<1>1. /\ WithAll(x, i, p, a).id = i
      /\ WithAll(x, i, p, a).parent = p
      /\ WithAll(x, i, p, a).at = a
  BY DEF MountRecords, WithAll
<1>2. WithAll(x, i, p, a) \in MountRecords(FS)
  BY DEF MountRecords, WithAll
<1> QED BY <1>1, <1>2

\* What it shows is what it showed.
LEMMA RecordShows ==
  \A FS : \A x \in MountRecords(FS) : \A i, p, a :
    WithAll(x, i, p, a).fs = x.fs /\ WithAll(x, i, p, a).dir = x.dir
  BY DEF MountRecords, WithAll

\* With another place only.
LEMMA RecordWithPlace ==
  \A FS : \A x \in MountRecords(FS) : \A p \in Nat : \A a \in Seq(STRING) :
    /\ WithPlace(x, p, a) \in MountRecords(FS)
    /\ WithPlace(x, p, a).id = x.id
    /\ WithPlace(x, p, a).parent = p
    /\ WithPlace(x, p, a).at = a
    /\ WithPlace(x, p, a).fs = x.fs
    /\ WithPlace(x, p, a).dir = x.dir
  BY DEF MountRecords, WithPlace

\* The mounts of N have been added, `new' with all the others below it.
Grafted(ms, N, new, FS) ==
  /\ WellFormed(ms \cup N, FS)
  /\ TreeOf(ms \cup N, N, new)
  /\ Ids(N) \cap (Ids(ms) \cup {RamDisk}) = {}

\* They cover a position.
GraftedAt(ms, N, new, pos, FS) ==
  Grafted(ms, N, new, FS) /\ new.parent = pos.mount /\ new.at = pos.path

\* They show what is seen at a path, without anything on their root if nothing
\* covers what the path leads to.
CopyOf(ms, N, new, src) ==
  /\ new.fs = Seen(ms, src).fs /\ new.dir = Seen(ms, src).dir
  /\ Covering(ms, Lookup(ms, src)) = {} =>
       \A x \in N : x.parent = new.id => x.at # <<>>

\* A sequence is its prefix and what is behind that.
LEMMA PrefixRest ==
  ASSUME NEW S, NEW s \in Seq(S), NEW t \in Seq(S), IsPrefix(s, t)
  PROVE  /\ SubSeq(t, Len(s) + 1, Len(t)) \in Seq(S)
         /\ t = s \o SubSeq(t, Len(s) + 1, Len(t))
<1> DEFINE m == Len(s)
           n == Len(t)
<1>1. m \in Nat /\ n \in Nat /\ m <= n /\ SubSeq(s, 1, m) = SubSeq(t, 1, m)
  BY DEF IsPrefix
<1>2. SubSeq(s, 1, m) = s /\ SubSeq(t, 1, n) = t
  OBVIOUS
<1>3. SubSeq(t, m + 1, n) \in Seq(S)
  <2>1. \A i \in (m + 1)..n : t[i] \in S
    BY <1>1
  <2> QED BY <1>1, <2>1
<1>4. 1 \in 1..(Len(t) + 1) /\ m \in (1 - 1)..Len(t) /\ n \in m..Len(t)
  BY <1>1
<1> HIDE DEF m, n
<1>5. SubSeq(t, 1, m) \o SubSeq(t, m + 1, n) = SubSeq(t, 1, n)
  BY <1>4, ConcatAdjacentSubSeq
<1> QED BY <1>1, <1>2, <1>3, <1>5 DEF m, n

\* A sequence is a prefix of what goes on behind it.
LEMMA PrefixOfConcat ==
  ASSUME NEW S, NEW s \in Seq(S), NEW t \in Seq(S)
  PROVE  IsPrefix(s, s \o t)
<1>1. Len(s \o t) = Len(s) + Len(t) /\ Len(s) \in Nat /\ Len(t) \in Nat
  BY ConcatProperties
<1>2. SubSeq(s, 1, Len(s)) = SubSeq(s \o t, 1, Len(s))
  <2>1. CASE Len(s) = 0
    <3>1. SubSeq(s, 1, Len(s)) = <<>> /\ SubSeq(s \o t, 1, Len(s)) = <<>>
      BY <2>1
    <3> QED BY <3>1
  <2>2. CASE Len(s) # 0
    <3>1. 1 \in 1..Len(s) /\ Len(s) \in 1..Len(s)
      BY <1>1, <2>2
    <3> QED BY <3>1, SubSeqOfConcat1
  <2> QED BY <2>1, <2>2
<1> QED BY <1>1, <1>2 DEF IsPrefix

\* What is behind the same prefix is the same.
LEMMA SamePrefix ==
  ASSUME NEW S, NEW s \in Seq(S), NEW t \in Seq(S), NEW u \in Seq(S), s \o t = s \o u
  PROVE  t = u
  BY ConcatSimplifications
\* What is mounted on a directory, or below it on the same mount.
Kids(ms, from) == {x \in ms : x.parent = from.mount /\ IsPrefix(from.path, x.at)}

\* N shows, below `new', each mount of L as its copy c does: those mounted on the
\* mount of the position `from' behind that, and all that is mounted below them.
MirrorOf(ms, N, new, from, L, c) ==
  /\ Kids(ms, from) \subseteq L /\ L \subseteq ms /\ Closed(ms, L)
  /\ \A C \in SUBSET ms : Kids(ms, from) \subseteq C /\ Closed(ms, C) => L \subseteq C
  /\ N = {new} \cup {c[x] : x \in L}
  /\ \A x \in L : c[x].fs = x.fs /\ c[x].dir = x.dir /\ c[x].id # new.id
  /\ \A x \in Kids(ms, from) : /\ c[x].parent = new.id /\ c[x].at \in Seq(STRING)
                              /\ x.at = from.path \o c[x].at
  /\ \A x \in L \ Kids(ms, from) :
       c[x].at = x.at /\ \E y \in L : x.parent = y.id /\ c[x].parent = c[y].id
  /\ \A x, y \in L : c[x].id = c[y].id => x = y

Mirrors(ms, N, new, from) == \E L, c : MirrorOf(ms, N, new, from, L, c)

\* A position on a mount that is there, or on the RAM disk.
OnTree(ms, pos) == pos \in Positions /\ pos.mount \in Ids(ms) \cup {RamDisk}

\* What is mounted covers the position that the path leads to.
LEMMA MountGrafts ==
  ASSUME NEW FS, NEW ms, WellFormed(ms, FS), NEW fs \in FS, NEW path,
         OnTree(ms, Lookup(ms, path))
  PROVE  \E N, new :
           /\ N = {new} /\ Mount(ms, fs, path) = ms \cup N
           /\ GraftedAt(ms, N, new, Lookup(ms, path), FS)
           /\ new.fs = fs /\ new.dir = <<>>
<1> DEFINE pos == Lookup(ms, path)
           new == [id |-> FreshId(ms), fs |-> fs, dir |-> <<>>,
                   parent |-> pos.mount, at |-> pos.path]
<1>1. Mount(ms, fs, path) = ms \cup {new}
  BY DEF Mount
<1>2. /\ new.id \in Nat \ {RamDisk} /\ \A x \in ms : x.id < new.id
      /\ \A x \in ms : x.id \in Nat
  BY FreshIdIsNew DEF WellFormed, MountRecords
<1>3. new \in MountRecords(FS)
  <2>1. <<>> \in Seq(STRING)
    OBVIOUS
  <2>2. pos.mount \in Nat /\ pos.path \in Seq(STRING)
    BY DEF OnTree, Positions
  <2> QED BY <1>2, <2>1, <2>2 DEF MountRecords
<1>4. /\ new.fs = fs /\ new.dir = <<>>
      /\ new.parent = pos.mount /\ new.at = pos.path
  OBVIOUS
<1> HIDE DEF new
<1>5. \A x \in ms : x.parent # new.id
  BY <1>2 DEF WellFormed, Ids, RamDisk
<1>6. new.parent # new.id
  BY <1>2, <1>4 DEF OnTree, Ids, RamDisk
<1>7. IsFiniteSet(ms \cup {new})
  BY FS_AddElement DEF WellFormed
<1>8. WellFormed(ms \cup {new}, FS)
  <2>1. \A x, y \in ms \cup {new} : x.id = y.id => x = y
    BY <1>2 DEF WellFormed
  <2>2. \A x \in ms \cup {new} : x.parent \in Ids(ms \cup {new}) \cup {RamDisk}
    BY <1>4 DEF OnTree, WellFormed, Ids
  <2> QED BY <1>3, <1>7, <2>1, <2>2 DEF WellFormed
<1>9. TreeOf(ms \cup {new}, {new}, new)
  BY <1>5, <1>6 DEF TreeOf, Closed, Below
<1>10. Ids({new}) \cap (Ids(ms) \cup {RamDisk}) = {}
  BY <1>2 DEF Ids
<1>11. Grafted(ms, {new}, new, FS)
  BY <1>8, <1>9, <1>10 DEF Grafted
<1> QED BY <1>1, <1>4, <1>11 DEF GraftedAt

\* A bind mount has copies of the mounts below its source, each below the copy
\* of its parent.
LEMMA BindGrafts ==
  ASSUME NEW FS, NEW ms, WellFormed(ms, FS), NEW src, NEW dst,
         Lookup(ms, src) \in Inside(ms),
         OnTree(ms, Lookup(ms, dst))
  PROVE  \E N, new :
           /\ Bind(ms, src, dst) = ms \cup N
           /\ GraftedAt(ms, N, new, Lookup(ms, dst), FS)
           /\ CopyOf(ms, N, new, src) /\ Mirrors(ms, N, new, Lookup(ms, src))
<1> DEFINE from == Lookup(ms, src)
           to == Lookup(ms, dst)
           seen == Seen(ms, src)
           base == FreshId(ms)
           kids == {x \in ms : x.parent = from.mount /\ IsPrefix(from.path, x.at)}
           below == {x \in ms : x.id \in Subtree(ms, {k.id : k \in kids})}
           Copy(x) ==
             IF x \in kids
               THEN [x EXCEPT !.id = @ + base, !.parent = base,
                              !.at = SubSeq(@, Len(from.path) + 1, Len(@))]
               ELSE [x EXCEPT !.id = @ + base, !.parent = @ + base]
           new == [id |-> base, fs |-> seen.fs, dir |-> seen.dir,
                   parent |-> to.mount, at |-> to.path]
           copies == {Copy(x) : x \in below}
           N == {new} \cup copies
<1>0. /\ from \in Positions /\ from.mount \in Ids(ms)
      /\ to \in Positions /\ to.mount \in Ids(ms) \cup {RamDisk}
  BY DEF Inside, OnTree
<1>1. Bind(ms, src, dst) = ms \cup N
  BY DEF Bind
<1>2. base \in Nat \ {RamDisk} /\ \A x \in ms : x.id < base /\ x.id \in Nat
  BY FreshIdIsNew DEF WellFormed, MountRecords
<1> HIDE DEF base
<1>3. PICK m \in ms : seen = [fs |-> m.fs, dir |-> m.dir \o from.path]
  <2>1. \E x \in ms : x.id = from.mount
    BY <1>0 DEF Ids
  <2>2. from.mount # RamDisk
    BY <2>1 DEF WellFormed, MountRecords
  <2>3. (CHOOSE x \in ms : x.id = from.mount) \in ms
    BY <2>1
  <2> QED BY <2>2, <2>3 DEF Seen
<1>4. new \in MountRecords(FS)
  <2>1. seen.fs \in FS /\ seen.dir \in Seq(STRING)
    BY <1>0, <1>3 DEF Positions, WellFormed, MountRecords
  <2>2. to.mount \in Nat /\ to.path \in Seq(STRING)
    BY <1>0 DEF Positions
  <2> QED BY <1>2, <2>1, <2>2 DEF MountRecords
<1>5. /\ new.id = base /\ new.fs = seen.fs /\ new.dir = seen.dir
      /\ new.parent = to.mount /\ new.at = to.path
  OBVIOUS
<1>6. kids \subseteq below /\ Closed(ms, below)
      /\ \A C \in SUBSET ms : kids \subseteq C /\ Closed(ms, C) => below \subseteq C
  <2>1. PICK R \in SUBSET ms :
          /\ Subtree(ms, {k.id : k \in kids}) = Ids(R)
          /\ {x \in ms : x.id \in {k.id : k \in kids}} \subseteq R
          /\ Closed(ms, R)
          /\ \A C \in SUBSET ms :
               {x \in ms : x.id \in {k.id : k \in kids}} \subseteq C /\ Closed(ms, C)
                 => R \subseteq C
    BY <1>0, SubtreeIs DEF WellFormed
  <2>2. {x \in ms : x.id \in {k.id : k \in kids}} = kids
    BY DEF WellFormed
  <2>3. below = R
    BY <2>1 DEF WellFormed, Ids
  <2> HIDE DEF kids, below
  <2> QED BY <2>1, <2>2, <2>3
<1>7. \A x \in ms :
        /\ Copy(x) \in MountRecords(FS)
        /\ Copy(x).id = x.id + base
        /\ Copy(x).parent = IF x \in kids THEN base ELSE x.parent + base
        /\ x \in kids => Copy(x).at = SubSeq(x.at, Len(from.path) + 1, Len(x.at))
        /\ x \notin kids => Copy(x).at = x.at
        /\ Copy(x).fs = x.fs /\ Copy(x).dir = x.dir
  <2> SUFFICES ASSUME NEW x \in ms
               PROVE  /\ Copy(x) \in MountRecords(FS)
                      /\ Copy(x).id = x.id + base
                      /\ Copy(x).parent = IF x \in kids THEN base ELSE x.parent + base
                      /\ x \in kids => Copy(x).at = SubSeq(x.at, Len(from.path) + 1, Len(x.at))
                      /\ x \notin kids => Copy(x).at = x.at
                      /\ Copy(x).fs = x.fs /\ Copy(x).dir = x.dir
    OBVIOUS
  <2>0. x \in MountRecords(FS)
    BY DEF WellFormed
  <2>1. /\ x.id \in Nat \ {RamDisk} /\ x.parent \in Nat
        /\ x.at \in Seq(STRING)
    BY <2>0 DEF MountRecords
  <2> DEFINE newId == x.id + base
             newParent == x.parent + base
  <2>2. newId \in Nat \ {RamDisk} /\ base \in Nat /\ newParent \in Nat
    BY <1>2, <2>1 DEF RamDisk
  <2>5. /\ x \in kids => Copy(x) = WithAll(x, newId, base,
                                               SubSeq(x.at, Len(from.path) + 1, Len(x.at)))
        /\ x \notin kids => Copy(x) = WithIds(x, newId, newParent)
    BY DEF WithAll, WithIds
  <2> HIDE DEF newId, newParent
  <2>3. CASE x \in kids
    <3> DEFINE rest == SubSeq(x.at, Len(from.path) + 1, Len(x.at))
    <3>2. from.path \in Seq(STRING)
      BY <1>0 DEF Positions
    <3> HIDE DEF Copy, from, kids
    <3>3. rest \in Seq(STRING)
      BY <2>1, <3>2
    <3>1. Copy(x) = WithAll(x, newId, base, rest)
      BY <2>3, <2>5
    <3> HIDE DEF rest
    <3> DEFINE y == WithAll(x, newId, base, rest)
    <3>4. y \in MountRecords(FS) /\ y.id = newId /\ y.parent = base /\ y.at = rest
      BY <2>0, <2>2, <3>3, RecordWithAll
    <3>6. y.fs = x.fs /\ y.dir = x.dir
      BY <2>0, RecordShows
    <3>5. Copy(x) = y
      BY <3>1
    <3> HIDE DEF y
    <3> QED BY <2>3, <3>4, <3>5, <3>6 DEF rest, newId
  <2>4. CASE x \notin kids
    <3> HIDE DEF Copy, kids
    <3> DEFINE y == WithIds(x, newId, newParent)
    <3>3. y \in MountRecords(FS) /\ y.id = newId /\ y.parent = newParent
          /\ y.at = x.at /\ y.fs = x.fs /\ y.dir = x.dir
      BY <2>0, <2>2, RecordWithIds
    <3>4. Copy(x) = y
      BY <2>4, <2>5
    <3> HIDE DEF y
    <3> QED BY <2>4, <3>3, <3>4 DEF newId, newParent
  <2> QED BY <2>3, <2>4
<1>8. below \subseteq ms
  OBVIOUS
<1>9. Covering(ms, from) = {} => \A x \in kids : Copy(x).at # <<>>
  <2> SUFFICES ASSUME NEW x \in kids, Covering(ms, from) = {}, Copy(x).at = <<>>
               PROVE  FALSE
    OBVIOUS
  <2>1. x \in ms /\ x.parent = from.mount /\ IsPrefix(from.path, x.at)
        /\ x.at \in Seq(STRING) /\ from.path \in Seq(STRING)
    BY <1>0 DEF WellFormed, MountRecords, Positions
  <2>2. SubSeq(x.at, Len(from.path) + 1, Len(x.at)) = <<>>
    BY <1>7, <2>1
  <2> HIDE DEF Copy, kids, below, from
  <2>3. Len(x.at) <= Len(from.path)
    <3> SUFFICES ASSUME Len(x.at) > Len(from.path) PROVE FALSE
      BY <2>1
    <3> DEFINE from1 == Len(from.path) + 1
               last == Len(x.at)
    <3>1. from1 \in Int /\ last \in Int /\ from1 <= last
          /\ \A i \in from1..last : x.at[i] \in STRING
      BY <2>1
    <3> HIDE DEF from1, last
    <3>2. Len(SubSeq(x.at, from1, last)) = last - from1 + 1
      BY <3>1, SubSeqProperties
    <3>3. Len(SubSeq(x.at, from1, last)) = 0
      <4>1. SubSeq(x.at, from1, last) = <<>>
        BY <2>2 DEF from1, last
      <4> QED BY <4>1
    <3> QED BY <3>1, <3>2, <3>3
  <2>4. x.at = from.path
    BY <2>1, <2>3 DEF IsPrefix
  <2>5. x \in Covering(ms, from)
    BY <2>1, <2>4 DEF Covering
  <2> QED BY <2>5
<1>24. \A x \in kids : Copy(x).at \in Seq(STRING) /\ x.at = from.path \o Copy(x).at
  <2> SUFFICES ASSUME NEW x \in kids
               PROVE  Copy(x).at \in Seq(STRING) /\ x.at = from.path \o Copy(x).at
    OBVIOUS
  <2>1. /\ IsPrefix(from.path, x.at) /\ x.at \in Seq(STRING) /\ from.path \in Seq(STRING)
        /\ Copy(x).at = SubSeq(x.at, Len(from.path) + 1, Len(x.at))
    BY <1>0, <1>7 DEF WellFormed, MountRecords, Positions
  <2> DEFINE s == from.path
             t == x.at
  <2>2. s \in Seq(STRING) /\ t \in Seq(STRING) /\ IsPrefix(s, t)
        /\ Copy(x).at = SubSeq(t, Len(s) + 1, Len(t))
    BY <2>1
  <2> HIDE DEF Copy, s, t
  <2>3. /\ SubSeq(t, Len(s) + 1, Len(t)) \in Seq(STRING)
        /\ t = s \o SubSeq(t, Len(s) + 1, Len(t))
    BY <2>2, PrefixRest
  <2> QED BY <2>2, <2>3 DEF s, t
<1>25. kids = Kids(ms, from)
  BY DEF Kids
<1> HIDE DEF Copy, kids, below, new, seen
<1>10. \A y \in N : y = new \/ \E x \in below : y = Copy(x)
  OBVIOUS
<1>11. \A y \in N : y.id >= base /\ y.id \in Nat /\ y \in MountRecords(FS)
  <2> SUFFICES ASSUME NEW y \in N
               PROVE  y.id >= base /\ y.id \in Nat /\ y \in MountRecords(FS)
    OBVIOUS
  <2>1. CASE y = new
    BY <1>2, <1>4, <1>5, <2>1
  <2>2. ASSUME NEW x \in below, y = Copy(x)
        PROVE  y.id >= base /\ y.id \in Nat /\ y \in MountRecords(FS)
    <3>1. x.id \in Nat /\ y.id = x.id + base /\ y \in MountRecords(FS)
      BY <1>2, <1>7, <1>8, <2>2
    <3> QED BY <1>2, <3>1
  <2> QED BY <1>10, <2>1, <2>2
<1>12. \A x \in ms : x.parent < base /\ x.parent \in Nat
  <2> SUFFICES ASSUME NEW x \in ms PROVE x.parent < base /\ x.parent \in Nat
    OBVIOUS
  <2>1. x.parent = RamDisk \/ \E y \in ms : x.parent = y.id
    BY DEF WellFormed, Ids
  <2> QED BY <1>2, <2>1 DEF RamDisk
<1>22. \A x \in below : x \in kids \/ \E y \in below : x.parent = y.id
  <2> DEFINE C == {z \in below : z \in kids \/ \E y \in below : z.parent = y.id}
  <2>1. kids \subseteq C /\ Closed(ms, C)
    BY <1>6 DEF Closed, Below
  <2> QED BY <1>6, <1>8, <2>1
<1>13. \A y \in N : y # new => y.parent \in Ids(N)
  <2> SUFFICES ASSUME NEW x \in below PROVE Copy(x).parent \in Ids(N)
    BY <1>10
  <2>1. CASE x \in kids
    BY <1>5, <1>7, <1>8, <2>1 DEF Ids
  <2>2. CASE x \notin kids
    <3>3. PICK y \in below : x.parent = y.id
      BY <1>22, <2>2
    <3>4. Copy(x).parent = Copy(y).id /\ Copy(y) \in N
      BY <1>7, <1>8, <2>2, <3>3
    <3> QED BY <3>4 DEF Ids
  <2> QED BY <2>1, <2>2
<1>14. IsFiniteSet(ms \cup N)
  <2> DEFINE f == [x \in below |-> Copy(x)]
  <2>1. f \in Surjection(below, copies)
    BY DEF Surjection
  <2>2. IsFiniteSet(below)
    BY <1>8, FS_Subset DEF WellFormed
  <2>3. IsFiniteSet(copies)
    BY <2>1, <2>2, FS_Surjection
  <2>4. IsFiniteSet(N)
    <3>1. N = copies \cup {new}
      OBVIOUS
    <3> QED BY <2>3, <3>1, FS_AddElement
  <2> HIDE DEF N
  <2> QED BY <2>4, FS_Union DEF WellFormed
<1>15. \A x \in N, y \in ms : x.id # y.id
  BY <1>2, <1>11 DEF MountRecords
<1>16. \A x, y \in N : x.id = y.id => x = y
  <2>1. ASSUME NEW x \in below, NEW y \in below, Copy(x).id = Copy(y).id
        PROVE  x = y
    <3>1. x.id + base = y.id + base /\ x \in ms /\ y \in ms
      BY <1>7, <1>8, <2>1
    <3>2. x.id = y.id
      BY <1>2, <3>1
    <3> QED BY <3>1, <3>2 DEF WellFormed
  <2>2. ASSUME NEW x \in below PROVE Copy(x).id # new.id
    <3>1. Copy(x).id = x.id + base /\ x.id \in Nat \ {0} /\ new.id = base
      BY <1>5, <1>7, <1>8 DEF RamDisk, WellFormed, MountRecords
    <3> QED BY <1>2, <3>1
  <2> QED BY <1>10, <2>1, <2>2
<1>17. \A x \in N : x.parent \in Ids(ms \cup N) \cup {RamDisk}
  BY <1>0, <1>5, <1>13 DEF Ids
<1>18. WellFormed(ms \cup N, FS)
  <2>1. \A x \in ms : x.parent \in Ids(ms \cup N) \cup {RamDisk}
    BY DEF WellFormed, Ids
  <2>2. \A x, y \in ms \cup N : x.id = y.id => x = y
    BY <1>15, <1>16 DEF WellFormed
  <2>3. ms \cup N \subseteq MountRecords(FS)
    BY <1>11 DEF WellFormed
  <2> HIDE DEF N
  <2> QED BY <1>14, <1>17, <2>1, <2>2, <2>3 DEF WellFormed
<1>19. TreeOf(ms \cup N, N, new)
  <2>1. Closed(ms \cup N, N)
    <3>1. \A x \in ms, y \in N : x.parent # y.id
      BY <1>11, <1>12, <1>2 DEF MountRecords
    <3> HIDE DEF N
    <3> QED BY <3>1 DEF Closed, Below
  <2>2. ASSUME NEW C \in SUBSET N, new \in C, Closed(ms \cup N, C)
        PROVE  C = N
    <3> DEFINE B == {x \in below : Copy(x) \in C}
    <3>1. kids \subseteq B
      <4> SUFFICES ASSUME NEW x \in kids PROVE Copy(x) \in C
        BY <1>6
      <4>1. Copy(x) \in N /\ Copy(x).parent = new.id
        BY <1>5, <1>6, <1>7, <1>8
      <4> HIDE DEF N
      <4> QED BY <2>2, <4>1 DEF Closed, Below
    <3>2. Closed(ms, B)
      <4> SUFFICES ASSUME NEW x \in ms, NEW y \in B, x.parent = y.id PROVE x \in B
        BY DEF Closed, Below
      <4>1. x \in below
        BY <1>6 DEF Closed, Below
      <4>2. CASE x \in kids
        BY <3>1, <4>2
      <4>3. CASE x \notin kids
        <5>1. Copy(x).parent = Copy(y).id /\ Copy(x) \in N /\ Copy(y) \in C
          BY <1>7, <1>8, <4>1, <4>3
        <5> HIDE DEF N
        <5>2. Copy(x) \in C
          BY <2>2, <5>1 DEF Closed, Below
        <5> QED BY <4>1, <5>2
      <4> QED BY <4>2, <4>3
    <3>3. below \subseteq B
      BY <1>6, <1>8, <3>1, <3>2
    <3> QED BY <1>10, <2>2, <3>3
  <2> QED BY <2>1, <2>2 DEF TreeOf
<1>20. Ids(N) \cap (Ids(ms) \cup {RamDisk}) = {}
  BY <1>2, <1>11, <1>15 DEF Ids, RamDisk, MountRecords
<1>21. Covering(ms, from) = {} => \A x \in N : x.parent = new.id => x.at # <<>>
  <2> SUFFICES ASSUME Covering(ms, from) = {}, NEW x \in N, x.parent = new.id
               PROVE  x.at # <<>>
    OBVIOUS
  <2>1. CASE x = new
    <3>1. to.mount # base
      BY <1>0, <1>2 DEF Ids
    <3> QED BY <1>5, <2>1, <3>1
  <2>2. ASSUME NEW y \in below, x = Copy(y) PROVE x.at # <<>>
    <3>1. y \in kids
      <4> SUFFICES ASSUME y \notin kids PROVE FALSE
        OBVIOUS
      <4>1. x.parent = y.parent + base /\ y \in ms /\ x.parent = base
        BY <1>5, <1>7, <1>8, <2>2
      <4>2. y.parent = RamDisk
        BY <1>2, <1>12, <4>1 DEF RamDisk
      <4>3. PICK z \in below : y.parent = z.id
        BY <1>22
      <4> QED BY <1>8, <4>2, <4>3 DEF WellFormed, MountRecords
    <3> QED BY <1>9, <2>2, <3>1
  <2> QED BY <1>10, <2>1, <2>2
<1>26. Mirrors(ms, N, new, from)
  <2> DEFINE c == [x \in below |-> Copy(x)]
  <2>1. \A x \in below : c[x] = Copy(x)
    OBVIOUS
  <2>2. N = {new} \cup {c[x] : x \in below}
    BY <2>1
  <2> HIDE DEF c, N
  <2>3. \A x \in below : c[x].fs = x.fs /\ c[x].dir = x.dir
    BY <1>7, <1>8, <2>1
  <2>4. ASSUME NEW x \in below PROVE c[x].id # new.id
    <3>1. c[x].id = x.id + base /\ x.id \in Nat \ {0} /\ new.id = base
      BY <1>5, <1>7, <1>8, <2>1 DEF RamDisk, WellFormed, MountRecords
    <3> QED BY <1>2, <3>1
  <2>5. \A x \in kids : /\ c[x].parent = new.id /\ c[x].at \in Seq(STRING)
                      /\ x.at = from.path \o c[x].at
    BY <1>5, <1>6, <1>7, <1>8, <1>24, <2>1
  <2>6. ASSUME NEW x \in below, x \notin kids
        PROVE  c[x].at = x.at /\ \E y \in below : x.parent = y.id /\ c[x].parent = c[y].id
    <3>1. PICK y \in below : x.parent = y.id
      BY <1>22, <2>6
    <3>2. /\ c[x] = Copy(x) /\ c[y] = Copy(y)
          /\ Copy(x).parent = x.parent + base /\ Copy(x).at = x.at
          /\ Copy(y).id = y.id + base
      BY <1>7, <1>8, <2>1, <2>6
    <3> QED BY <3>1, <3>2
  <2>7. ASSUME NEW x \in below, NEW y \in below, c[x].id = c[y].id
        PROVE  x = y
    <3>1. Copy(x).id = Copy(y).id
      BY <2>1, <2>7
    <3>2. x.id + base = y.id + base /\ x \in ms /\ y \in ms
      BY <1>7, <1>8, <3>1
    <3>3. x.id = y.id
      BY <1>2, <3>2
    <3> QED BY <3>2, <3>3 DEF WellFormed
  <2>8. MirrorOf(ms, N, new, from, below, c)
    BY <1>6, <1>8, <1>25, <2>2, <2>3, <2>4, <2>5, <2>6, <2>7 DEF MirrorOf
  <2> QED BY <2>8 DEF Mirrors
<1> HIDE DEF N
<1>23. Grafted(ms, N, new, FS)
  BY <1>18, <1>19, <1>20, Zenon DEF Grafted
<1> QED BY <1>1, <1>5, <1>21, <1>23, <1>26, Zenon DEF seen, GraftedAt, CopyOf

------------------------------------------------------------------------------

\* No name leads out of a part of the tree that is closed.
LEMMA AboveInside ==
  ASSUME NEW FS, NEW ms, WellFormed(ms, FS), NEW R \in SUBSET ms, Closed(ms, R),
         NEW p \in Inside(R)
  PROVE  Above(ms, p) \in Inside(R)
<1>1. CASE Covering(ms, p) = {}
  BY <1>1 DEF Above
<1>2. CASE Covering(ms, p) # {}
  <2>1. PICK x \in Covering(ms, p) : Above(ms, p) = Position(x.id, <<>>)
    BY <1>2 DEF Above
  <2>2. x \in R
    BY <2>1 DEF Covering, Closed, Below, Inside, Ids
  <2>3. x.id \in Nat /\ <<>> \in Seq(STRING)
    BY <2>2 DEF WellFormed, MountRecords
  <2>4. Position(x.id, <<>>) \in Positions /\ Position(x.id, <<>>).mount = x.id
    BY <2>3 DEF Positions, Position
  <2> QED BY <2>1, <2>2, <2>4 DEF Inside, Ids
<1> QED BY <1>1, <1>2

\* Nor does a step into a directory of it.
LEMMA IntoInside ==
  ASSUME NEW FS, NEW ms, WellFormed(ms, FS), NEW R \in SUBSET ms, Closed(ms, R),
         NEW p \in Inside(R), NEW name \in STRING
  PROVE  Into(ms, p, name) \in Inside(R)
<1> DEFINE q == Position(p.mount, Append(p.path, name))
<1>1. p.mount \in Nat /\ p.path \in Seq(STRING) /\ p.mount \in Ids(R)
  BY DEF Inside, Positions
<1>2. Append(p.path, name) \in Seq(STRING)
  BY <1>1
<1>3. q \in Inside(R)
  BY <1>1, <1>2 DEF Inside, Position, Positions
<1> HIDE DEF q
<1>4. \A r \in Inside(R) : Above(ms, r) \in Inside(R)
  BY AboveInside
<1>5. Uppermost(ms, q) \in Inside(R)
  BY <1>3, <1>4, UppermostStays DEF WellFormed
<1> QED BY <1>5 DEF Into, q

\* Nor does a path, from wherever it enters.
LEMMA PathInside ==
  ASSUME NEW FS, NEW ms, WellFormed(ms, FS), NEW R \in SUBSET ms, Closed(ms, R),
         NEW dir \in Seq(STRING), NEW rest \in Seq(STRING),
         Lookup(ms, dir) \in Inside(R)
  PROVE  Lookup(ms, dir \o rest) \in Inside(R)
<1>1. \A p \in Inside(R) \cap Positions : \A name \in STRING :
        Into(ms, p, name) \in Inside(R)
  BY IntoInside
<1> QED BY <1>1, LookupStays

\* A path of a single name.
LEMMA OneOf == ASSUME NEW S, NEW name \in S PROVE <<name>> \in Seq(S) /\ <<name>> # <<>>
  OBVIOUS

\* The same for a name of a file.
LEMMA OneName ==
  ASSUME NEW name \in STRING
  PROVE  <<name>> \in Seq(STRING) /\ <<name>> # <<>>
  BY OneOf

\* Mounts on the RAM disk cover directories of its root.
OnRam(ms) == \A x \in ms : x.parent = RamDisk => \E name \in STRING : x.at = <<name>>

\* Where the first name of a path leads.
LEMMA FirstName ==
  ASSUME NEW FS, NEW ms, WellFormed(ms, FS), OnRam(ms), NEW name \in STRING
  PROVE  Lookup(ms, <<name>>) = Uppermost(ms, Position(RamDisk, <<name>>))
<1> DEFINE start == Position(RamDisk, <<>>)
<1>1. start.mount = RamDisk /\ start.path = <<>> /\ Append(<<>>, name) = <<name>>
  BY DEF Position
<1>2. Covering(ms, start) = {}
  <2>1. \A other \in STRING : <<other>> # <<>>
    OBVIOUS
  <2> QED BY <1>1, <2>1 DEF OnRam, Covering
<1>3. Lookup(ms, <<>>) = start
  BY <1>2, LookupEmpty, UppermostOfUncovered DEF WellFormed
<1>4. <<>> \in Seq(STRING)
  OBVIOUS
<1>5. Lookup(ms, Append(<<>>, name)) = Into(ms, start, name)
  BY <1>3, <1>4, LookupName
<1> QED BY <1>1, <1>5 DEF Into

\* Where there is no mount a path stays on the RAM disk.
LEMMA PathOnRam ==
  ASSUME NEW FS, NEW ms, WellFormed(ms, FS), OnRam(ms), NEW name \in STRING,
         \A x \in ms : x.parent = RamDisk => x.at # <<name>>,
         NEW rest \in Seq(STRING)
  PROVE  /\ Lookup(ms, <<name>>) = Position(RamDisk, <<name>>)
         /\ Lookup(ms, <<name>> \o rest).mount = RamDisk
<1> DEFINE P == {p \in Positions : p.mount = RamDisk /\ p.path # <<>> /\ p.path[1] = name}
<1>1. Covering(ms, Position(RamDisk, <<name>>)) = {}
  BY DEF Covering, Position
<1>2. Lookup(ms, <<name>>) = Position(RamDisk, <<name>>)
  BY <1>1, FirstName, UppermostOfUncovered DEF WellFormed
<1>3. Lookup(ms, <<name>>) \in P
  <2>1. <<name>> \in Seq(STRING) /\ <<name>> # <<>> /\ <<name>>[1] = name
    OBVIOUS
  <2> HIDE DEF P
  <2>2. Position(RamDisk, <<name>>) \in Positions
    BY <2>1 DEF Position, Positions, RamDisk
  <2>3. /\ Position(RamDisk, <<name>>).mount = RamDisk
        /\ Position(RamDisk, <<name>>).path = <<name>>
    BY DEF Position
  <2>4. Position(RamDisk, <<name>>) \in P
    BY ONLY <2>1, <2>2, <2>3 DEF P
  <2> QED BY <1>2, <2>4
<1>4. ASSUME NEW p \in P, NEW other \in STRING
      PROVE  Into(ms, p, other) \in P
  <2> DEFINE path == Append(p.path, other)
             q == Position(p.mount, path)
  <2>1. p.path \in Seq(STRING) /\ p.path # <<>> /\ p.path[1] = name /\ p.mount = RamDisk
    BY DEF Positions
  <2>2. path \in Seq(STRING) /\ path # <<>> /\ path[1] = name /\ Len(path) > 1
    BY <2>1
  <2>3. \A x \in ms : x.parent = RamDisk => x.at # path
    <3>1. \A n \in STRING : Len(<<n>>) = 1
      OBVIOUS
    <3> HIDE DEF path
    <3> QED BY <2>2, <3>1 DEF OnRam
  <2> HIDE DEF path
  <2>4. Covering(ms, q) = {}
    BY <2>1, <2>3 DEF Covering, Position
  <2>5. q \in P
    BY <2>1, <2>2 DEF Position, Positions, RamDisk
  <2>6. Uppermost(ms, q) = q
    BY <2>4, UppermostOfUncovered DEF WellFormed
  <2> QED BY <2>5, <2>6 DEF Into, path
<1>5. \A p \in P : p.mount = RamDisk
  OBVIOUS
<1> HIDE DEF P
<1>6. <<name>> \in Seq(STRING)
  OBVIOUS
<1>7. Lookup(ms, <<name>> \o rest) \in P
  BY <1>3, <1>4, <1>6, LookupStays
<1> QED BY <1>2, <1>5, <1>7

\* Only the mount `top' covers that directory, and nothing covers its root.
OnlyAt(ms, name, top) ==
  \A x \in ms : x.parent = RamDisk /\ x.at = <<name>> <=> x = top
BareRoot(ms, top) == \A x \in ms : x.parent = top.id => x.at # <<>>

\* A path whose first directory is covered goes on in what it is covered with.
LEMMA PathEnters ==
  ASSUME NEW FS, NEW ms, WellFormed(ms, FS), OnRam(ms), NEW name \in STRING,
         NEW R \in SUBSET ms, Closed(ms, R), NEW top \in R,
         OnlyAt(ms, name, top),
         NEW rest \in Seq(STRING)
  PROVE  Lookup(ms, <<name>> \o rest) \in Inside(R)
<1> DEFINE start == Position(RamDisk, <<name>>)
<1>1. Covering(ms, start) = {top}
  BY DEF Covering, Position, OnlyAt
<1>2. Above(ms, start) = Position(top.id, <<>>)
  BY <1>1 DEF Above
<1>3. Position(top.id, <<>>) \in Inside(R)
  <2>1. top.id \in Nat /\ <<>> \in Seq(STRING)
    BY DEF WellFormed, MountRecords
  <2> QED BY <2>1 DEF Inside, Ids, Position, Positions
<1>4. ms # {} /\ \A p \in Inside(R) : Above(ms, p) \in Inside(R)
  BY AboveInside
<1>5. Lookup(ms, <<name>>) \in Inside(R)
  BY <1>2, <1>3, <1>4, FirstName, UppermostEnters DEF WellFormed
<1>6. <<name>> \in Seq(STRING)
  BY OneName
<1> QED BY <1>5, <1>6, PathInside

\* A path whose first directory is covered by a single mount, with nothing on
\* its root, leads to the root of that mount.
LEMMA PathExact ==
  ASSUME NEW FS, NEW ms, WellFormed(ms, FS), OnRam(ms), NEW name \in STRING,
         NEW top \in ms,
         OnlyAt(ms, name, top),
         BareRoot(ms, top)
  PROVE  /\ Lookup(ms, <<name>>) = Position(top.id, <<>>)
         /\ Covering(ms, Position(top.id, <<>>)) = {}
<1>1. Covering(ms, Position(RamDisk, <<name>>)) = {top}
  BY DEF Covering, Position, OnlyAt
<1>2. Covering(ms, Position(top.id, <<>>)) = {}
  BY DEF Covering, Position, BareRoot
<1>3. IsFiniteSet(ms)
  BY DEF WellFormed
<1>4. Uppermost(ms, Position(RamDisk, <<name>>)) = Position(top.id, <<>>)
  BY <1>1, <1>2, <1>3, UppermostOfCovered
<1> QED BY <1>2, <1>4, FirstName

\* Behind the root of that mount a path does not come back to it.
LEMMA PathLeaves ==
  ASSUME NEW FS, NEW ms, WellFormed(ms, FS), OnRam(ms), NEW name \in STRING,
         NEW R \in SUBSET ms, Closed(ms, R), NEW top \in R, top.parent = RamDisk,
         OnlyAt(ms, name, top),
         BareRoot(ms, top),
         NEW rest \in Seq(STRING), rest # <<>>
  PROVE  /\ Lookup(ms, <<name>> \o rest) \in Inside(R)
         /\ Lookup(ms, <<name>> \o rest) # Position(top.id, <<>>)
<1> DEFINE P == {p \in Inside(R) : p # Position(top.id, <<>>)}
           root == Position(top.id, <<>>)
<1>1. Lookup(ms, <<name>>) = root
  <2>1. top \in ms
    OBVIOUS
  <2>2. Lookup(ms, <<name>>) = Position(top.id, <<>>)
    BY <2>1, PathExact
  <2> QED BY <2>2
<1>2. \A x \in ms : x.id # RamDisk /\ x.id \in Nat
  BY DEF WellFormed, MountRecords
<1>3. root \in Inside(R) /\ root.mount = top.id /\ root.path = <<>>
  <2>1. top.id \in Nat /\ <<>> \in Seq(STRING)
    BY <1>2
  <2> QED BY <2>1 DEF Inside, Ids, Position, Positions
<1>4. ASSUME NEW p \in P
      PROVE  Above(ms, p) \in P
  <2>1. CASE Covering(ms, p) = {}
    BY <2>1 DEF Above
  <2>2. CASE Covering(ms, p) # {}
    <3>1. PICK x \in Covering(ms, p) : Above(ms, p) = Position(x.id, <<>>)
      BY <2>2 DEF Above
    <3>2. x \in ms /\ x.parent = p.mount /\ p.mount \in Ids(R)
      BY <3>1 DEF Covering, Inside
    <3>3. x.parent # RamDisk
      BY <3>2, <1>2 DEF Ids
    <3>4. x # top
      BY <3>3
    <3>5. x.id # top.id
      BY <3>2, <3>4 DEF WellFormed
    <3>6. Position(x.id, <<>>) # Position(top.id, <<>>)
      BY <3>5 DEF Position
    <3> QED BY <3>1, <3>6, AboveInside
  <2> QED BY <2>1, <2>2
<1>5. ASSUME NEW p \in Inside(R), NEW other \in STRING
      PROVE  Into(ms, p, other) \in P
  <2> DEFINE q == Position(p.mount, Append(p.path, other))
  <2>1. p.mount \in Nat /\ p.path \in Seq(STRING) /\ p.mount \in Ids(R)
    BY DEF Inside, Positions
  <2>2. Append(p.path, other) \in Seq(STRING) /\ Append(p.path, other) # <<>>
    BY <2>1
  <2>3. q \in Inside(R)
    BY <2>1, <2>2 DEF Inside, Position, Positions
  <2>4. q.path # <<>>
    BY <2>2 DEF Position
  <2>5. q # root
    BY <1>3, <2>4
  <2>6. q \in P
    BY <2>3, <2>5
  <2> HIDE DEF q, P
  <2>7. Uppermost(ms, q) \in P
    BY <2>6, <1>4, UppermostStays DEF WellFormed
  <2> QED BY <2>7 DEF Into, q
<1>6. \A p \in P : p \in Inside(R) /\ p # root
  OBVIOUS
<1> HIDE DEF P, root
<1>7. \E first \in STRING, others \in Seq(STRING) : rest = <<first>> \o others
  <2>1. rest = <<Head(rest)>> \o Tail(rest) /\ Head(rest) \in STRING
        /\ Tail(rest) \in Seq(STRING)
    OBVIOUS
  <2> QED BY <2>1
<1>8. PICK first \in STRING, others \in Seq(STRING) : rest = <<first>> \o others
  BY <1>7
<1>9. /\ <<name>> \o rest = Append(<<name>>, first) \o others
      /\ <<name>> \in Seq(STRING) /\ Append(<<name>>, first) \in Seq(STRING)
  BY <1>8
<1>10. Lookup(ms, Append(<<name>>, first)) \in P
  <2>1. Lookup(ms, Append(<<name>>, first)) = Into(ms, root, first)
    BY <1>1, <1>9, LookupName
  <2> QED BY <2>1, <1>3, <1>5
<1>11. Lookup(ms, Append(<<name>>, first) \o others) \in P
  BY <1>5, <1>6, <1>9, <1>10, LookupStays
<1> QED BY <1>6, <1>9, <1>11 DEF root

\* Where no root of a mount is covered, one step up is enough, and ends on
\* something that nothing covers.
LEMMA UppermostOnce ==
  ASSUME NEW FS, NEW ms, WellFormed(ms, FS), NEW R \in SUBSET ms, Closed(ms, R),
         \A x \in ms : x.parent \in Ids(R) => x.at # <<>>,
         NEW q \in Inside(R)
  PROVE  /\ Uppermost(ms, q) = Above(ms, q)
         /\ Covering(ms, Uppermost(ms, q)) = {}
<1>1. CASE Covering(ms, q) = {}
  BY <1>1, UppermostOfUncovered DEF WellFormed, Above
<1>2. CASE Covering(ms, q) # {}
  <2>1. PICK x \in Covering(ms, q) : Above(ms, q) = Position(x.id, <<>>)
    BY <1>2 DEF Above
  <2>2. x \in R
    BY <2>1 DEF Covering, Closed, Below, Inside, Ids
  <2>3. Covering(ms, Position(x.id, <<>>)) = {}
    BY <2>2 DEF Covering, Position, Ids
  <2>4. Above(ms, Above(ms, q)) = Above(ms, q)
    BY <2>1, <2>3 DEF Above
  <2> DEFINE P == {Above(ms, q)}
  <2>5. Above(ms, q) \in P /\ (\A p \in P : Above(ms, p) \in P) /\ ms # {}
    BY <2>2, <2>4
  <2>6. IsFiniteSet(ms)
    BY DEF WellFormed
  <2> HIDE DEF P
  <2>7. Uppermost(ms, q) \in P
    BY <2>5, <2>6, UppermostEnters
  <2>8. Uppermost(ms, q) = Above(ms, q)
    BY <2>7 DEF P
  <2> QED BY <2>1, <2>3, <2>8
<1> QED BY <1>1, <1>2

\* What a path leads to behind a directory, in two mount trees that have the
\* same mounts below those of R1 and of R2.
LEMMA LookupAgrees ==
  ASSUME NEW FS, NEW ms1, WellFormed(ms1, FS), NEW ms2, WellFormed(ms2, FS),
         NEW R1 \in SUBSET ms1, Closed(ms1, R1),
         NEW R2 \in SUBSET ms2, Closed(ms2, R2), Ids(R1) = Ids(R2),
         Below(ms1, R1) = Below(ms2, R2),
         \A x \in Below(ms1, R1) : x.at # <<>>,
         NEW dir1 \in Seq(STRING), NEW dir2 \in Seq(STRING), NEW rest \in Seq(STRING),
         Lookup(ms1, dir1) = Lookup(ms2, dir2), Lookup(ms1, dir1) \in Inside(R1)
  PROVE  /\ Lookup(ms1, dir1 \o rest) = Lookup(ms2, dir2 \o rest)
         /\ Lookup(ms1, dir1 \o rest) \in Inside(R1)
<1> DEFINE Q == {<<p, p>> : p \in Inside(R1)}
<1>1. Inside(R1) = Inside(R2)
  BY DEF Inside
<1>2. \A p \in Inside(R1) : Covering(ms1, p) = Covering(ms2, p)
  <2>1. ASSUME NEW p \in Inside(R1)
        PROVE  Covering(ms1, p) = Covering(ms2, p)
    <3>1. p.mount \in Ids(R1)
      BY DEF Inside
    <3>2. \A x : x \in ms1 /\ x.parent = p.mount <=> x \in Below(ms1, R1) /\ x.parent = p.mount
      BY <3>1 DEF Below, Ids
    <3>3. \A x : x \in ms2 /\ x.parent = p.mount <=> x \in Below(ms2, R2) /\ x.parent = p.mount
      BY <3>1 DEF Below, Ids
    <3> QED BY <3>2, <3>3 DEF Covering
  <2> QED BY <2>1
<1>3. /\ \A x \in ms1 : x.parent \in Ids(R1) => x.at # <<>>
      /\ \A x \in ms2 : x.parent \in Ids(R2) => x.at # <<>>
  BY DEF Below, Ids
<1>4. ASSUME NEW p \in Inside(R1), NEW name \in STRING
      PROVE  Into(ms1, p, name) = Into(ms2, p, name)
  <2> DEFINE q == Position(p.mount, Append(p.path, name))
  <2>1. p.mount \in Nat /\ p.path \in Seq(STRING) /\ p.mount \in Ids(R1)
    BY DEF Inside, Positions
  <2>2. Append(p.path, name) \in Seq(STRING)
    BY <2>1
  <2>3. q \in Inside(R1)
    BY <2>1, <2>2 DEF Inside, Position, Positions
  <2> HIDE DEF q
  <2>4. Above(ms1, q) = Above(ms2, q)
    <3>1. Covering(ms1, q) = Covering(ms2, q)
      BY <2>3, <1>2
    <3> QED BY ONLY <3>1 DEF Above
  <2>5. Uppermost(ms1, q) = Above(ms1, q) /\ Uppermost(ms2, q) = Above(ms2, q)
    BY <2>3, <1>1, <1>3, UppermostOnce
  <2> QED BY <2>4, <2>5 DEF Into, q
<1>5. \A p, q \in Positions : \A name \in STRING :
        <<p, q>> \in Q => <<Into(ms1, p, name), Into(ms2, q, name)>> \in Q
  <2> SUFFICES ASSUME NEW p \in Positions, NEW q \in Positions, NEW name \in STRING,
                      <<p, q>> \in Q
               PROVE  <<Into(ms1, p, name), Into(ms2, q, name)>> \in Q
    OBVIOUS
  <2>1. p = q /\ p \in Inside(R1)
    OBVIOUS
  <2>2. Into(ms1, p, name) \in Inside(R1)
    BY <2>1, IntoInside
  <2>3. Into(ms1, p, name) = Into(ms2, q, name)
    BY <2>1, <1>4
  <2> QED BY <2>2, <2>3
<1>6. <<Lookup(ms1, dir1), Lookup(ms2, dir2)>> \in Q
  OBVIOUS
<1>7. \A p, q : <<p, q>> \in Q => p = q /\ p \in Inside(R1)
  OBVIOUS
<1> HIDE DEF Q
<1>8. <<Lookup(ms1, dir1 \o rest), Lookup(ms2, dir2 \o rest)>> \in Q
  BY <1>5, <1>6, LookupRelated
<1> QED BY <1>7, <1>8

------------------------------------------------------------------------------

\* A chart of a tree gives each of its mounts the path from the root of the top
\* to it; a rank counts the mounts in between.
Charted(R, top, C) ==
  /\ C \in SUBSET R /\ top \in C
  /\ \A x \in C \ {top} : x.parent \in Ids(C)
  /\ \E f \in [Ids(C) -> Seq(STRING)], h \in [Ids(C) -> Nat] :
       /\ f[top.id] = <<>>
       /\ \A x \in C \ {top} : f[x.id] = f[x.parent] \o x.at /\ h[x.parent] < h[x.id]
       /\ \A i \in Ids(C) : h[i] < Cardinality(C)

\* A chart of some of the mounts of a tree goes on to what is mounted below them.
LEMMA ChartGrows ==
  ASSUME NEW FS, NEW ms, WellFormed(ms, FS), NEW R \in SUBSET ms, NEW top \in R,
         NEW C, Charted(R, top, C), NEW x \in R \ C, x.parent \in Ids(C)
  PROVE  Charted(R, top, C \cup {x}) /\ Cardinality(C \cup {x}) = Cardinality(C) + 1
<1> DEFINE E == C \cup {x}
<1>1. PICK f \in [Ids(C) -> Seq(STRING)], h \in [Ids(C) -> Nat] :
        /\ f[top.id] = <<>>
        /\ \A y \in C \ {top} : f[y.id] = f[y.parent] \o y.at /\ h[y.parent] < h[y.id]
        /\ \A i \in Ids(C) : h[i] < Cardinality(C)
  BY DEF Charted
<1>2. /\ C \subseteq R /\ top \in C /\ x \in ms /\ x.at \in Seq(STRING)
      /\ \A y \in C \ {top} : y.parent \in Ids(C)
      /\ \A y \in C : y.id \in Ids(C)
  BY DEF Charted, WellFormed, MountRecords, Ids
<1>3. x.id \notin Ids(C) /\ Ids(E) = Ids(C) \cup {x.id}
  BY <1>2 DEF WellFormed, Ids
<1>4. IsFiniteSet(C) /\ Cardinality(C) \in Nat /\ Cardinality(E) = Cardinality(C) + 1
  <2>1. IsFiniteSet(C)
    BY <1>2, FS_Subset DEF WellFormed
  <2> QED BY <2>1, FS_CardinalityType, FS_AddElement
<1> DEFINE g == [i \in Ids(E) |-> IF i = x.id THEN f[x.parent] \o x.at ELSE f[i]]
           k == [i \in Ids(E) |-> IF i = x.id THEN Cardinality(C) ELSE h[i]]
<1>5. f[x.parent] \o x.at \in Seq(STRING)
  <2>1. f[x.parent] \in Seq(STRING)
    BY <1>1
  <2> QED BY <2>1, <1>2, ConcatProperties
<1>6. /\ \A i \in Ids(C) : g[i] = f[i] /\ k[i] = h[i]
      /\ g[x.id] = f[x.parent] \o x.at /\ k[x.id] = Cardinality(C)
  BY <1>3
<1>7. g \in [Ids(E) -> Seq(STRING)]
  BY <1>1, <1>3, <1>5
<1>8. k \in [Ids(E) -> Nat]
  BY <1>1, <1>3, <1>4
<1> HIDE DEF g, k, E
<1>9. ASSUME NEW y \in E \ {top}
      PROVE  y.parent \in Ids(E) /\ g[y.id] = g[y.parent] \o y.at /\ k[y.parent] < k[y.id]
  <2>1. CASE y = x
    BY <1>1, <1>3, <1>6, <2>1
  <2>2. CASE y # x
    <3>1. y \in C \ {top} /\ y.parent \in Ids(C) /\ y.id \in Ids(C)
      BY <1>2, <2>2 DEF E
    <3> QED BY <3>1, <1>1, <1>3, <1>6
  <2> QED BY <2>1, <2>2
<1>10. \A i \in Ids(E) : k[i] < Cardinality(E)
  <2> SUFFICES ASSUME NEW i \in Ids(E) PROVE k[i] < Cardinality(E)
    OBVIOUS
  <2>1. CASE i \in Ids(C)
    <3>1. k[i] = h[i] /\ h[i] \in Nat /\ h[i] < Cardinality(C)
      BY <1>1, <1>6, <2>1
    <3> QED BY <1>4, <3>1
  <2>2. CASE i = x.id
    BY <1>4, <1>6, <2>2
  <2> QED BY <1>3, <2>1, <2>2
<1>11. g[top.id] = <<>> /\ E \in SUBSET R /\ top \in E
  BY <1>1, <1>2, <1>6 DEF E
<1>12. Charted(R, top, E)
  BY <1>7, <1>8, <1>9, <1>10, <1>11 DEF Charted
<1> QED BY <1>4, <1>12 DEF E

\* Every tree has a chart.
LEMMA TreeCharted ==
  ASSUME NEW FS, NEW ms, WellFormed(ms, FS), NEW R, NEW top, TreeOf(ms, R, top)
  PROVE  Charted(R, top, R)
<1> DEFINE Sizes == {n \in 0..Cardinality(R) :
                       \E C \in SUBSET R : Charted(R, top, C) /\ Cardinality(C) = n}
<1>1. R \in SUBSET ms /\ top \in R /\ IsFiniteSet(R) /\ Cardinality(R) \in Nat
      /\ \A C \in SUBSET R : Cardinality(C) \in 0..Cardinality(R)
  <2>1. R \in SUBSET ms /\ top \in R
    BY DEF TreeOf
  <2>2. IsFiniteSet(R)
    BY <2>1, FS_Subset DEF WellFormed
  <2>3. \A C \in SUBSET R : /\ Cardinality(C) <= Cardinality(R)
                            /\ IsFiniteSet(C)
    BY <2>2, FS_Subset
  <2>4. \A C \in SUBSET R : Cardinality(C) \in Nat
    BY <2>3, FS_CardinalityType
  <2>5. Cardinality(R) \in Nat
    BY <2>4
  <2> QED BY <2>1, <2>2, <2>3, <2>4, <2>5
<1>2. Charted(R, top, {top})
  <2> DEFINE f == [i \in Ids({top}) |-> <<>>]
             h == [i \in Ids({top}) |-> 0]
  <2>1. <<>> \in Seq(STRING) /\ 0 \in Nat /\ top.id \in Ids({top})
    BY DEF Ids
  <2>2. f \in [Ids({top}) -> Seq(STRING)] /\ f[top.id] = <<>>
    BY <2>1
  <2>3. h \in [Ids({top}) -> Nat] /\ \A i \in Ids({top}) : h[i] = 0
    BY <2>1
  <2> HIDE DEF f, h
  <2>4. Cardinality({top}) = 1
    BY FS_Singleton
  <2>5. \A i \in Ids({top}) : h[i] < Cardinality({top})
    BY <2>3, <2>4
  <2>6. \A x \in {top} \ {top} : FALSE
    OBVIOUS
  <2> QED BY <1>1, <2>2, <2>3, <2>5, <2>6 DEF Charted
<1>3. Sizes # {} /\ Sizes \in SUBSET Int /\ IsFiniteSet(Sizes)
  <2>1. {top} \in SUBSET R
    BY <1>1
  <2>2. Cardinality({top}) \in 0..Cardinality(R)
    BY <1>1, <2>1
  <2>3. Cardinality({top}) \in Sizes
    BY <1>2, <2>1, <2>2
  <2>4. Sizes \in SUBSET (0..Cardinality(R)) /\ IsFiniteSet(0..Cardinality(R))
    BY <1>1, FS_Interval
  <2>5. IsFiniteSet(Sizes)
    BY <2>4, FS_Subset
  <2>6. 0..Cardinality(R) \subseteq Int
    OBVIOUS
  <2> HIDE DEF Sizes
  <2> QED BY <2>3, <2>4, <2>5, <2>6
<1>4. PICK C \in SUBSET R : Charted(R, top, C) /\ Cardinality(C) = Max(Sizes)
  <2> HIDE DEF Sizes
  <2>1. Max(Sizes) \in Sizes
    BY <1>3, FiniteMax
  <2> QED BY <2>1 DEF Sizes
<1>5. \A n \in Sizes : Max(Sizes) >= n
  BY <1>3, FiniteMax
<1>6. Closed(ms, C)
  <2> SUFFICES ASSUME NEW x \in ms, x.parent \in Ids(C), x \notin C PROVE FALSE
    BY DEF Closed, Below, Ids
  <2>1. x \in R \ C
    BY DEF TreeOf, Closed, Below, Ids
  <2>2. Charted(R, top, C \cup {x}) /\ Cardinality(C \cup {x}) = Cardinality(C) + 1
    BY <1>1, <1>4, <2>1, ChartGrows
  <2>3. C \cup {x} \in SUBSET R
    BY <2>1
  <2>4. Cardinality(C \cup {x}) \in Sizes
    BY <1>1, <2>2, <2>3
  <2>5. Cardinality(C) >= Cardinality(C) + 1
    BY <1>4, <1>5, <2>2, <2>4
  <2>6. Cardinality(C) \in Nat
    BY <1>1
  <2> QED BY <2>5, <2>6
<1>7. top \in C
  BY <1>4 DEF Charted
<1>8. C = R
  BY <1>6, <1>7 DEF TreeOf
<1> QED BY <1>4, <1>8

------------------------------------------------------------------------------

\* Whoever goes up stops where nothing covers.
LEMMA ClimbEnds ==
  ASSUME NEW ms, IsFiniteSet(ms), NEW climb,
         \A i \in 1..Cardinality(ms) : climb[i] = Above(ms, climb[i - 1]),
         NEW j \in 0..Cardinality(ms), Covering(ms, climb[j]) = {}
  PROVE  climb[Cardinality(ms)] = climb[j]
<1> DEFINE N == Cardinality(ms)
           T == {k \in 0..N : k >= j => climb[k] = climb[j]}
<1>1. N \in Nat
  BY FS_CardinalityType
<1>2. Above(ms, climb[j]) = climb[j]
  BY DEF Above
<1> HIDE DEF N
<1>3. j \in 0..N /\ \A i \in 1..N : climb[i] = Above(ms, climb[i - 1])
  BY DEF N
<1>4. 0 \in T
  <2>1. 0 >= j => j = 0
    BY <1>1, <1>3
  <2> QED BY <1>1, <2>1
<1>5. ASSUME NEW k \in 1..N, k - 1 \in T PROVE k \in T
  <2>1. CASE k = j
    BY <1>1, <2>1
  <2>2. CASE k < j
    BY <1>1, <1>3, <2>2
  <2>3. CASE k > j
    <3>1. k - 1 >= j
      BY <1>1, <1>3, <2>3
    <3>2. climb[k - 1] = climb[j]
      BY <1>5, <3>1
    <3>3. climb[k] = climb[j]
      BY <1>2, <1>3, <3>2
    <3> QED BY <1>1, <3>3
  <2> QED BY <1>1, <1>3, <2>1, <2>2, <2>3
<1> HIDE DEF T
<1>6. 0..N \subseteq T
  BY <1>1, <1>4, <1>5, BoundedInduction, Zenon
<1>7. N \in T /\ N >= j
  BY <1>1, <1>3, <1>6
<1> QED BY <1>7 DEF T, N

\* On a tree whose top is mounted elsewhere nothing is mounted on the uppermost
\* position: every step up leads to a mount of a higher rank.
LEMMA UppermostUncovered ==
  ASSUME NEW FS, NEW ms, WellFormed(ms, FS), NEW R, NEW top, TreeOf(ms, R, top),
         top.parent \notin Ids(R), NEW pos \in Inside(R)
  PROVE  Covering(ms, Uppermost(ms, pos)) = {}
<1>0. IsFiniteSet(ms) /\ R \in SUBSET ms /\ Closed(ms, R) /\ Charted(R, top, R)
  BY TreeCharted DEF WellFormed, TreeOf
<1>1. PICK climb :
        /\ climb[0] = pos
        /\ \A i \in 1..Cardinality(ms) : climb[i] = Above(ms, climb[i - 1])
        /\ Uppermost(ms, pos) = climb[Cardinality(ms)]
  BY <1>0, UppermostClimbs, Zenon
<1>2. PICK h \in [Ids(R) -> Nat] :
        /\ \A x \in R \ {top} : x.parent \in Ids(R) /\ h[x.parent] < h[x.id]
        /\ \A i \in Ids(R) : h[i] < Cardinality(R)
  <2>1. /\ \A x \in R \ {top} : x.parent \in Ids(R)
        /\ \E f \in [Ids(R) -> Seq(STRING)], h \in [Ids(R) -> Nat] :
             /\ f[top.id] = <<>>
             /\ \A x \in R \ {top} : f[x.id] = f[x.parent] \o x.at /\ h[x.parent] < h[x.id]
             /\ \A i \in Ids(R) : h[i] < Cardinality(R)
    BY <1>0 DEF Charted
  <2> QED BY <2>1
<1> SUFFICES ASSUME Covering(ms, Uppermost(ms, pos)) # {} PROVE FALSE
  OBVIOUS
<1> DEFINE N == Cardinality(ms)
           T == {i \in 0..N : climb[i] \in Inside(R) /\ h[climb[i].mount] >= i}
<1>3. N \in Nat /\ Cardinality(R) \in Nat /\ Cardinality(R) <= N
  <2>1. IsFiniteSet(R) /\ Cardinality(R) <= Cardinality(ms)
    BY <1>0, FS_Subset
  <2> QED BY <1>0, <2>1, FS_CardinalityType
<1>4. \A i \in 0..N : Covering(ms, climb[i]) # {}
  BY <1>0, <1>1, ClimbEnds
<1>5. \A i \in 1..N : climb[i] = Above(ms, climb[i - 1])
  BY <1>1
<1> HIDE DEF N
<1>6. 0 \in T
  <2>1. h[pos.mount] \in Nat
    BY <1>2 DEF Inside
  <2> QED BY <1>1, <1>3, <2>1
<1>7. ASSUME NEW i \in 1..N, i - 1 \in T PROVE i \in T
  <2>1. climb[i - 1] \in Inside(R) /\ h[climb[i - 1].mount] >= i - 1
    BY <1>7
  <2>2. Covering(ms, climb[i - 1]) # {}
    BY <1>3, <1>4
  <2>3. PICK x \in Covering(ms, climb[i - 1]) : climb[i] = Position(x.id, <<>>)
    BY <1>5, <2>2 DEF Above
  <2>4. x \in ms /\ x.parent = climb[i - 1].mount
    BY <2>3 DEF Covering
  <2>5. x \in R /\ x # top
    BY <1>0, <2>1, <2>4 DEF Closed, Below, Inside, Ids
  <2>6. h[x.parent] < h[x.id] /\ x.parent \in Ids(R) /\ x.id \in Ids(R)
    BY <1>2, <2>5 DEF Ids
  <2>7. climb[i] \in Inside(R)
    <3>1. Above(ms, climb[i - 1]) \in Inside(R)
      BY <1>0, <2>1, AboveInside
    <3> QED BY <1>5, <3>1
  <2>8. h[climb[i].mount] >= i
    <3>1. climb[i].mount = x.id
      BY <2>3 DEF Position
    <3>2. h[x.id] \in Nat /\ h[x.parent] \in Nat /\ h[x.parent] >= i - 1
      BY <1>2, <2>1, <2>4, <2>6
    <3> QED BY <2>6, <3>1, <3>2
  <2> QED BY <1>3, <2>7, <2>8
<1>8. 0..N \subseteq T
  <2> HIDE DEF T
  <2> QED BY <1>3, <1>6, <1>7, BoundedInduction, Zenon
<1>9. climb[N] \in Inside(R) /\ h[climb[N].mount] >= N
  <2>1. N \in T
    BY <1>3, <1>8
  <2> QED BY <2>1
<1>10. h[climb[N].mount] < Cardinality(R) /\ h[climb[N].mount] \in Nat
  BY <1>2, <1>9 DEF Inside
<1> QED BY <1>3, <1>9, <1>10

\* The positions that are passed on the way up: they lie in every set that is
\* not left by going up, and the uppermost one is the only one of them that
\* nothing covers.
Orbit(ms, pos, P) ==
  /\ pos \in P /\ \A p \in P : Above(ms, p) \in P
  /\ \A p \in P : Covering(ms, p) = {} => p = Uppermost(ms, pos)
  /\ \A S : pos \in S /\ (\A p \in S : Above(ms, p) \in S) => P \subseteq S

\* There is such a set.
LEMMA UppermostOrbit ==
  ASSUME NEW ms, IsFiniteSet(ms), NEW pos, Covering(ms, Uppermost(ms, pos)) = {}
  PROVE  \E P : Orbit(ms, pos, P)
<1>1. PICK climb :
        /\ climb[0] = pos
        /\ \A i \in 1..Cardinality(ms) : climb[i] = Above(ms, climb[i - 1])
        /\ Uppermost(ms, pos) = climb[Cardinality(ms)]
  BY UppermostClimbs, Zenon
<1> DEFINE N == Cardinality(ms)
           P == {climb[i] : i \in 0..N}
<1>2. N \in Nat
  BY FS_CardinalityType
<1>3. \A p \in P : Covering(ms, p) = {} => p = Uppermost(ms, pos)
  <2> SUFFICES ASSUME NEW j \in 0..N, Covering(ms, climb[j]) = {}
               PROVE  climb[j] = Uppermost(ms, pos)
    OBVIOUS
  <2> QED BY <1>1, ClimbEnds
<1> HIDE DEF N
<1>4. climb[0] = pos /\ \A i \in 1..N : climb[i] = Above(ms, climb[i - 1])
  BY <1>1 DEF N
<1>5. Above(ms, climb[N]) = climb[N]
  BY <1>1 DEF Above, N
<1>6. pos \in P
  BY <1>2, <1>4
<1>7. \A p \in P : Above(ms, p) \in P
  <2> SUFFICES ASSUME NEW j \in 0..N PROVE Above(ms, climb[j]) \in P
    OBVIOUS
  <2>1. CASE j = N
    BY <1>2, <1>5, <2>1
  <2>2. CASE j # N
    <3>1. j + 1 \in 1..N /\ (j + 1) - 1 = j /\ j + 1 \in 0..N
      BY <1>2, <2>2
    <3>2. climb[j + 1] = Above(ms, climb[j])
      BY <1>4, <3>1
    <3> QED BY <3>1, <3>2
  <2> QED BY <2>1, <2>2
<1>8. ASSUME NEW S, pos \in S, \A p \in S : Above(ms, p) \in S
      PROVE  P \subseteq S
  <2>1. \A i \in 1..N : climb[i - 1] \in S => climb[i] \in S
    BY <1>4, <1>8
  <2>2. \A i \in 0..N : climb[i] \in S
    BY <1>2, <1>4, <1>8, <2>1, IterationStays
  <2> QED BY <2>2
<1> HIDE DEF P
<1> QED BY <1>3, <1>6, <1>7, <1>8 DEF Orbit

\* Two mount trees in which the same mounts cover what can be passed on the way
\* up lead up to the same position.
LEMMA UppermostSame ==
  ASSUME NEW ms, IsFiniteSet(ms), NEW ms2, IsFiniteSet(ms2), NEW pos,
         Covering(ms, Uppermost(ms, pos)) = {},
         Covering(ms2, Uppermost(ms2, pos)) = {},
         NEW S, pos \in S, \A p \in S : Above(ms, p) \in S,
         \A p \in S : Covering(ms, p) = Covering(ms2, p)
  PROVE  Uppermost(ms, pos) = Uppermost(ms2, pos)
<1>1. PICK P : Orbit(ms, pos, P)
  BY UppermostOrbit
<1>2. P \subseteq S /\ pos \in P /\ \A p \in P : Above(ms, p) \in P
  BY <1>1 DEF Orbit
<1>3. \A p \in P : Above(ms2, p) \in P
  <2> SUFFICES ASSUME NEW p \in P PROVE Above(ms2, p) \in P
    OBVIOUS
  <2>1. Covering(ms, p) = Covering(ms2, p)
    BY <1>2
  <2>2. Above(ms2, p) = Above(ms, p)
    BY ONLY <2>1 DEF Above
  <2> QED BY <1>2, <2>2
<1>4. Uppermost(ms2, pos) \in P
  BY <1>2, <1>3, UppermostStays
<1>5. Covering(ms, Uppermost(ms2, pos)) = {}
  BY <1>2, <1>4
<1> QED BY <1>1, <1>4, <1>5 DEF Orbit

\* When a mount with a bare root is put on the uppermost position, that root
\* is the uppermost one.
LEMMA UppermostRaised ==
  ASSUME NEW ms, IsFiniteSet(ms), NEW ms2, IsFiniteSet(ms2), NEW pos,
         Covering(ms, Uppermost(ms, pos)) = {},
         Covering(ms2, Uppermost(ms2, pos)) = {},
         NEW S, pos \in S, \A p \in S : Above(ms, p) \in S,
         NEW new, Covering(ms2, Uppermost(ms, pos)) = {new},
         \A p \in S : p # Uppermost(ms, pos) => Covering(ms, p) = Covering(ms2, p),
         Covering(ms2, Position(new.id, <<>>)) = {}
  PROVE  Uppermost(ms2, pos) = Position(new.id, <<>>)
<1> DEFINE old == Uppermost(ms, pos)
           root == Position(new.id, <<>>)
<1>1. PICK P : Orbit(ms, pos, P)
  BY UppermostOrbit
<1>2. P \subseteq S /\ pos \in P /\ \A p \in P : Above(ms, p) \in P
  BY <1>1 DEF Orbit
<1>3. Above(ms2, old) = root /\ Above(ms2, root) = root
  BY DEF Above
<1> HIDE DEF old, root
<1>4. \A p \in P \cup {root} : Above(ms2, p) \in P \cup {root}
  <2> SUFFICES ASSUME NEW p \in P, p # old PROVE Above(ms2, p) \in P
    BY <1>3
  <2>1. Covering(ms, p) = Covering(ms2, p)
    BY <1>2 DEF old
  <2>2. Above(ms2, p) = Above(ms, p)
    BY ONLY <2>1 DEF Above
  <2> QED BY <1>2, <2>2
<1>5. Uppermost(ms2, pos) \in P \cup {root}
  <2>1. pos \in P \cup {root}
    BY <1>2
  <2> HIDE DEF root
  <2> QED BY <1>4, <2>1, UppermostStays
<1>6. ASSUME NEW p \in P PROVE Covering(ms2, p) # {}
  <2>1. CASE p = old
    BY <2>1 DEF old
  <2>2. CASE p # old
    <3>1. Covering(ms, p) # {}
      BY <1>1, <2>2 DEF Orbit, old
    <3> QED BY <1>2, <2>2, <3>1 DEF old
  <2> QED BY <2>1, <2>2
<1> QED BY <1>5, <1>6 DEF root

------------------------------------------------------------------------------

\* Where on a tree a position is: the path to it from the root of the top.
Chart(R, top, f) ==
  /\ \A i \in Ids(R) : f[i] \in Seq(STRING)
  /\ f[top.id] = <<>>
  /\ \A x \in R : x # top => x.parent \in Ids(R) /\ f[x.id] = f[x.parent] \o x.at
Place(f, pos) == f[pos.mount] \o pos.path

\* A tree with its chart, in the mount tree ms.
Drawn(ms, R, top, f) ==
  TreeOf(ms, R, top) /\ top.parent \notin Ids(R) /\ Chart(R, top, f)

\* Every tree has one.
LEMMA TreeDrawn ==
  ASSUME NEW FS, NEW ms, WellFormed(ms, FS), NEW R, NEW top, TreeOf(ms, R, top),
         top.parent \notin Ids(R)
  PROVE  \E f : Drawn(ms, R, top, f)
<1>1. Charted(R, top, R)
  BY TreeCharted
<1>2. PICK f \in [Ids(R) -> Seq(STRING)] :
        f[top.id] = <<>> /\ \A x \in R \ {top} : f[x.id] = f[x.parent] \o x.at
  BY <1>1 DEF Charted
<1>3. Chart(R, top, f)
  BY <1>1, <1>2 DEF Chart, Charted
<1> QED BY <1>3 DEF Drawn

\* Names and paths.
IsName(name) == name \in STRING
IsPath(path) == path \in Seq(STRING)

\* A sequence with nothing behind it.
LEMMA ConcatEmpty == ASSUME NEW s \in Seq(STRING) PROVE s \o <<>> = s
  OBVIOUS

\* A name behind two paths.
LEMMA NameAppend ==
  ASSUME NEW s \in Seq(STRING), NEW t \in Seq(STRING), NEW name \in STRING
  PROVE  s \o Append(t, name) = Append(s \o t, name) /\ Append(t, name) \in Seq(STRING)
<1> DEFINE S == STRING
           e == name
<1>1. s \in Seq(S) /\ t \in Seq(S) /\ e \in S
  OBVIOUS
<1> HIDE DEF S, e
<1>2. s \o Append(t, e) = Append(s \o t, e)
  BY ONLY <1>1, ConcatAppend
<1>3. Append(t, e) \in Seq(S)
  BY ONLY <1>1
<1> QED BY <1>2, <1>3 DEF e, S

\* A position has a place, which going up does not change.
LEMMA AbovePlace ==
  ASSUME NEW FS, NEW ms, WellFormed(ms, FS), NEW R, NEW top, NEW f,
         Drawn(ms, R, top, f), NEW p \in Inside(R)
  PROVE  /\ Above(ms, p) \in Inside(R) /\ Place(f, Above(ms, p)) = Place(f, p)
         /\ Place(f, p) \in Seq(STRING)
<1>1. R \in SUBSET ms /\ Closed(ms, R) /\ Chart(R, top, f) /\ top.parent \notin Ids(R)
  BY DEF Drawn, TreeOf
<1>2. Above(ms, p) \in Inside(R)
  BY <1>1, AboveInside
<1>3. p.mount \in Ids(R) /\ p.path \in Seq(STRING) /\ f[p.mount] \in Seq(STRING)
  BY <1>1 DEF Inside, Positions, Chart
<1>4. Place(f, p) \in Seq(STRING)
  BY <1>3, ConcatProperties DEF Place
<1>5. CASE Covering(ms, p) = {}
  BY <1>2, <1>4, <1>5 DEF Above
<1>6. CASE Covering(ms, p) # {}
  <2>1. PICK x \in Covering(ms, p) : Above(ms, p) = Position(x.id, <<>>)
    BY <1>6 DEF Above
  <2>2. x \in ms /\ x.parent = p.mount /\ x.at = p.path
    BY <2>1 DEF Covering
  <2>3. x \in R /\ x # top
    BY <1>1, <1>3, <2>2 DEF Closed, Below, Ids
  <2>4. f[x.id] = Place(f, p)
    BY <1>1, <2>2, <2>3 DEF Chart, Place
  <2>5. Place(f, Above(ms, p)) = f[x.id] \o <<>>
    BY <2>1 DEF Place, Position
  <2> QED BY <1>2, <1>4, <2>4, <2>5, ConcatEmpty
<1> QED BY <1>5, <1>6

\* Nor does going up to the end.
LEMMA UppermostPlace ==
  ASSUME NEW FS, NEW ms, WellFormed(ms, FS), NEW R, NEW top, NEW f,
         Drawn(ms, R, top, f), NEW p \in Inside(R)
  PROVE  /\ Uppermost(ms, p) \in Inside(R) /\ Place(f, Uppermost(ms, p)) = Place(f, p)
         /\ Covering(ms, Uppermost(ms, p)) = {}
<1> DEFINE P == {q \in Inside(R) : Place(f, q) = Place(f, p)}
<1>1. p \in P /\ \A q \in P : Above(ms, q) \in P
  BY AbovePlace
<1>2. IsFiniteSet(ms)
  BY DEF WellFormed
<1>3. \A q \in P : q \in Inside(R) /\ Place(f, q) = Place(f, p)
  OBVIOUS
<1> HIDE DEF P
<1>4. Uppermost(ms, p) \in P
  BY <1>1, <1>2, UppermostStays
<1>5. Covering(ms, Uppermost(ms, p)) = {}
  BY UppermostUncovered DEF Drawn
<1> QED BY <1>3, <1>4, <1>5

\* The position one name further, before one goes up from there.
Next1(p, name) == Position(p.mount, Append(p.path, name))

\* A name leads from a place to the next.
LEMMA IntoPlace ==
  ASSUME NEW FS, NEW ms, WellFormed(ms, FS), NEW R, NEW top, NEW f,
         Drawn(ms, R, top, f), NEW p \in Inside(R), NEW name, IsName(name)
  PROVE  /\ Next1(p, name) \in Inside(R)
         /\ Place(f, Next1(p, name)) = Append(Place(f, p), name)
         /\ Into(ms, p, name) = Uppermost(ms, Next1(p, name))
         /\ Into(ms, p, name) \in Inside(R)
         /\ Place(f, Into(ms, p, name)) = Append(Place(f, p), name)
<1>1. p.mount \in Nat /\ p.path \in Seq(STRING) /\ p.mount \in Ids(R) /\ f[p.mount] \in Seq(STRING)
  BY DEF Inside, Positions, Drawn, Chart
<1>2. Append(p.path, name) \in Seq(STRING)
  BY <1>1 DEF IsName
<1>3. Next1(p, name) \in Inside(R)
  BY <1>1, <1>2 DEF Next1, Inside, Position, Positions
<1>4. f[p.mount] \o Append(p.path, name) = Append(f[p.mount] \o p.path, name)
  <2> DEFINE s == f[p.mount]
             t == p.path
  <2>1. s \in Seq(STRING) /\ t \in Seq(STRING) /\ name \in STRING
    BY <1>1 DEF IsName
  <2> HIDE DEF s, t
  <2>2. s \o Append(t, name) = Append(s \o t, name)
    BY ONLY <2>1, NameAppend
  <2> QED BY <2>2 DEF s, t
<1>5. Place(f, Next1(p, name)) = Append(Place(f, p), name)
  BY <1>4 DEF Place, Next1, Position
<1>6. Into(ms, p, name) = Uppermost(ms, Next1(p, name))
  BY DEF Into, Next1
<1> DEFINE q == Next1(p, name)
<1>7. q \in Inside(R)
  BY <1>3
<1> HIDE DEF q
<1>8. Uppermost(ms, q) \in Inside(R) /\ Place(f, Uppermost(ms, q)) = Place(f, q)
  BY <1>7, UppermostPlace
<1> QED BY <1>3, <1>5, <1>6, <1>8 DEF q

\* A path from the root of the top leads to the place that it names.
LEMMA LookupPlace ==
  ASSUME NEW FS, NEW ms, WellFormed(ms, FS), NEW R, NEW top, NEW f,
         Drawn(ms, R, top, f), NEW dir \in Seq(STRING),
         Lookup(ms, dir) = Position(top.id, <<>>), NEW rest \in Seq(STRING)
  PROVE  /\ Lookup(ms, dir \o rest) \in Inside(R)
         /\ Place(f, Lookup(ms, dir \o rest)) = rest
<1> DEFINE N == Len(rest)
           part(i) == SubSeq(rest, 1, i)
           At(i) == Lookup(ms, dir \o part(i))
           T == {i \in 0..N : At(i) \in Inside(R) /\ Place(f, At(i)) = part(i)}
<1>1. N \in Nat /\ part(0) = <<>> /\ part(N) = rest
  OBVIOUS
<1>2. 0 \in T
  <2>1. dir \o <<>> = dir
    OBVIOUS
  <2> HIDE DEF part
  <2>2. At(0) = Position(top.id, <<>>)
    BY <1>1, <2>1
  <2>3. top.id \in Nat /\ top.id \in Ids(R) /\ <<>> \in Seq(STRING)
    BY DEF Drawn, TreeOf, WellFormed, MountRecords, Ids
  <2>4. Position(top.id, <<>>) \in Inside(R)
    BY <2>3 DEF Inside, Position, Positions
  <2>5. f[top.id] = <<>>
    BY DEF Drawn, Chart
  <2>6. Place(f, Position(top.id, <<>>)) = <<>>
    BY <2>3, <2>5, ConcatEmpty DEF Place, Position
  <2> QED BY <1>1, <2>2, <2>4, <2>6
<1>3. ASSUME NEW i \in 1..N, i - 1 \in T PROVE i \in T
  <2> DEFINE d == dir \o part(i - 1)
  <2>1. rest[i] \in STRING /\ part(i) = Append(part(i - 1), rest[i])
        /\ part(i - 1) \in Seq(STRING)
    BY ElementOfSeq
  <2>2. d \in Seq(STRING)
    BY <2>1
  <2>3. dir \o part(i) = Append(d, rest[i])
    <3> HIDE DEF part, T
    <3>1. dir \o Append(part(i - 1), rest[i]) = Append(d, rest[i])
      BY <2>1, ConcatAppend
    <3> QED BY <2>1, <3>1
  <2>4. At(i - 1) \in Inside(R) /\ Place(f, At(i - 1)) = part(i - 1)
    BY <1>3
  <2>5. At(i - 1) = Lookup(ms, d)
    OBVIOUS
  <2> HIDE DEF d, part
  <2>6. Lookup(ms, Append(d, rest[i])) = Into(ms, Lookup(ms, d), rest[i])
    BY <2>1, <2>2, LookupName
  <2>7. At(i) = Into(ms, At(i - 1), rest[i])
    BY <2>3, <2>5, <2>6
  <2> DEFINE p == At(i - 1)
             name == rest[i]
  <2>9. p \in Inside(R) /\ IsName(name) /\ At(i) = Into(ms, p, name)
    BY <2>1, <2>4, <2>7 DEF IsName
  <2> HIDE DEF At, p, name
  <2>10. Into(ms, p, name) \in Inside(R) /\ Place(f, Into(ms, p, name)) = Append(Place(f, p), name)
    BY <2>9, IntoPlace
  <2>8. At(i) \in Inside(R) /\ Place(f, At(i)) = Append(Place(f, At(i - 1)), rest[i])
    BY <2>9, <2>10 DEF p, name
  <2> QED BY <2>1, <2>4, <2>8, SMTT(60)
<1> HIDE DEF T, part
<1>4. 0..N \subseteq T
  <2> HIDE DEF At, N
  <2> QED BY <1>1, <1>2, <1>3, BoundedInduction, Zenon
<1>5. N \in T
  BY <1>1, <1>4
<1> QED BY <1>1, <1>5, Zenon DEF T

------------------------------------------------------------------------------

\* The path d goes on behind the path e.
Extends(d, e) == \E s \in Seq(STRING) : d = e \o s

\* So does one with a name more, and e itself.
LEMMA ExtendsFurther ==
  ASSUME NEW d \in Seq(STRING), NEW e \in Seq(STRING), NEW name \in STRING,
         Extends(d, e)
  PROVE  Extends(Append(d, name), e)
<1>1. PICK s \in Seq(STRING) : d = e \o s
  BY DEF Extends
<1>2. e \o Append(s, name) = Append(e \o s, name) /\ Append(s, name) \in Seq(STRING)
  BY NameAppend
<1> QED BY <1>1, <1>2 DEF Extends

\* A path goes on behind itself.
LEMMA ExtendsItself ==
  ASSUME NEW e \in Seq(STRING)
  PROVE  Extends(e, e)
<1>1. <<>> \in Seq(STRING) /\ e = e \o <<>>
  BY ConcatEmpty
<1> QED BY <1>1 DEF Extends

\* A path that is not empty has a last name, and does not go on behind itself
\* without that.
LEMMA LastName ==
  ASSUME NEW e \in Seq(STRING), e # <<>>
  PROVE  \E d \in Seq(STRING), name \in STRING : e = Append(d, name) /\ ~Extends(d, e)
<1>1. PICK d \in Seq(STRING), name \in STRING : e = Append(d, name)
  BY SequenceEmptyOrAppend
<1>2. ASSUME NEW s \in Seq(STRING), d = e \o s PROVE FALSE
  <2>1. Len(e) = Len(d) + 1 /\ Len(d) \in Nat
    BY <1>1
  <2>2. Len(d) = Len(e) + Len(s) /\ Len(s) \in Nat
    BY <1>2, ConcatProperties
  <2> QED BY <2>1, <2>2
<1> QED BY <1>1, <1>2 DEF Extends

\* A tree that is drawn in a larger mount tree as a part of a larger one.
LEMMA DrawnBefore ==
  ASSUME NEW ms, NEW R, NEW top, NEW f, NEW N, NEW ms2,
         TreeOf(ms, R, top), Drawn(ms2, R \cup N, top, f)
  PROVE  Drawn(ms, R, top, f)
<1>1. Chart(R \cup N, top, f) /\ top.parent \notin Ids(R \cup N)
  BY DEF Drawn
<1>2. top.parent \notin Ids(R)
  BY <1>1 DEF Ids
<1>3. \A i \in Ids(R) : i \in Ids(R \cup N)
  BY DEF Ids
<1>4. \A x \in R : x # top => x.parent \in Ids(R)
  BY TreeParents
<1>5. Chart(R, top, f)
  BY <1>1, <1>3, <1>4 DEF Chart
<1> QED BY <1>2, <1>5 DEF Drawn

\* Two walks that are related at the start and by every name are so at the end.
LEMMA WalksRelated ==
  ASSUME NEW FS, NEW ms1, WellFormed(ms1, FS), NEW ms2, WellFormed(ms2, FS),
         NEW dir1, IsPath(dir1), NEW dir2, IsPath(dir2), NEW rest, IsPath(rest), NEW Q,
         <<Lookup(ms1, dir1), Lookup(ms2, dir2)>> \in Q,
         \A p, q, name : IsName(name) /\ <<p, q>> \in Q
                           => <<Into(ms1, p, name), Into(ms2, q, name)>> \in Q
  PROVE  <<Lookup(ms1, dir1 \o rest), Lookup(ms2, dir2 \o rest)>> \in Q
  BY LookupRelated, Zenon DEF IsName, IsPath

\* A place that goes on behind a path does so with a name more.
LEMMA NameExtends ==
  ASSUME NEW d, IsPath(d), NEW e, IsPath(e), NEW name, IsName(name), Extends(d, e)
  PROVE  Extends(Append(d, name), e)
  BY ExtendsFurther, Zenon DEF IsPath, IsName

\* A name behind a directory and a path below it.
LEMMA NameBelow ==
  ASSUME NEW dir, IsPath(dir), NEW d, IsPath(d), NEW name, IsName(name)
  PROVE  IsPath(dir \o d) /\ dir \o Append(d, name) = Append(dir \o d, name)
<1>1. IsPath(dir \o d)
  BY ConcatProperties DEF IsPath
<1>2. dir \o Append(d, name) = Append(dir \o d, name)
  BY NameAppend, Zenon DEF IsPath, IsName
<1> QED BY <1>1, <1>2

\* One name leads one directory further.
LEMMA LookupNext ==
  ASSUME NEW FS, NEW ms, WellFormed(ms, FS), NEW path, IsPath(path), NEW name, IsName(name)
  PROVE  Lookup(ms, Append(path, name)) = Into(ms, Lookup(ms, path), name)
  BY LookupName, Zenon DEF IsPath, IsName

\* N has been grafted on the tree O, at the place e of it.
GraftedOn(ms, ms2, O, o, N, new, dir, e, FS) ==
  /\ WellFormed(ms, FS) /\ ms2 = ms \cup N /\ IsPath(dir) /\ IsPath(e)
  /\ TreeOf(ms, O, o) /\ TreeOf(ms2, O \cup N, o) /\ o.parent \notin Ids(O \cup N)
  /\ GraftedAt(ms, N, new, Lookup(ms, dir \o e), FS)
  /\ \A x \in N : x.parent = new.id => x.at # <<>>
  /\ Lookup(ms, dir) = Position(o.id, <<>>) /\ Lookup(ms2, dir) = Position(o.id, <<>>)

\* What covers the positions of the tree is what it was, but where the new tree is.
LEMMA GraftCovers ==
  ASSUME NEW ms, NEW ms2, NEW O, NEW o, NEW N, NEW new, NEW FS,
         NEW dir, NEW e,
         GraftedOn(ms, ms2, O, o, N, new, dir, e, FS),
         NEW p \in Inside(O)
  PROVE  /\ Covering(ms, p) \subseteq Covering(ms2, p)
         /\ Covering(ms2, p) \subseteq Covering(ms, p) \cup {new}
         /\ new \in Covering(ms2, p) <=> p = Lookup(ms, dir \o e)
<1>1. /\ ms2 = ms \cup N /\ TreeOf(ms2, N, new) /\ Ids(N) \cap Ids(ms) = {}
      /\ O \subseteq ms
      /\ new.parent = Lookup(ms, dir \o e).mount /\ new.at = Lookup(ms, dir \o e).path
  BY DEF GraftedOn, GraftedAt, Grafted, TreeOf
<1>2. p.mount \in Ids(O) /\ p.mount \notin Ids(N)
  BY <1>1 DEF Inside, Ids
<1>3. \A x \in N : x.parent = p.mount => x = new
  BY <1>1, <1>2, TreeParents
<1>4. new \in ms2
  BY <1>1 DEF TreeOf
<1>5. ASSUME new \in Covering(ms2, p) PROVE p = Lookup(ms, dir \o e)
  <2>1. dir \o e \in Seq(STRING)
    BY ConcatProperties DEF GraftedOn, IsPath
  <2> DEFINE q == Lookup(ms, dir \o e)
  <2>2. q \in Positions
    BY <2>1, LookupType DEF GraftedOn
  <2>3. p.mount = q.mount /\ p.path = q.path
    BY <1>1, <1>5 DEF Covering
  <2> HIDE DEF q
  <2>4. p = q
    BY <2>2, <2>3 DEF Inside, Positions
  <2> QED BY <2>4 DEF q
<1>6. ASSUME p = Lookup(ms, dir \o e) PROVE new \in Covering(ms2, p)
  BY <1>1, <1>4, <1>6 DEF Covering
<1> QED BY <1>1, <1>3, <1>5, <1>6 DEF Covering

\* Both trees can be drawn with the same places.
LEMMA GraftDrawn ==
  ASSUME NEW ms, NEW ms2, NEW O, NEW o, NEW N, NEW new, NEW FS, NEW dir, NEW e,
         GraftedOn(ms, ms2, O, o, N, new, dir, e, FS)
  PROVE  /\ WellFormed(ms, FS) /\ WellFormed(ms2, FS)
         /\ IsFiniteSet(ms) /\ IsFiniteSet(ms2)
         /\ \E f : Drawn(ms, O, o, f) /\ Drawn(ms2, O \cup N, o, f)
<1>1. WellFormed(ms, FS) /\ WellFormed(ms2, FS)
  BY DEF GraftedOn, GraftedAt, Grafted
<1>2. \E f : Drawn(ms2, O \cup N, o, f)
  BY <1>1, TreeDrawn DEF GraftedOn
<1>3. \E f : Drawn(ms, O, o, f) /\ Drawn(ms2, O \cup N, o, f)
  BY <1>2, DrawnBefore DEF GraftedOn
<1> QED BY <1>1, <1>3 DEF WellFormed

\* Paths that do not go on behind the grafted tree lead where they led before.
LEMMA GraftElsewhere ==
  ASSUME NEW ms, NEW ms2, NEW O, NEW o, NEW N, NEW new, NEW FS,
         NEW dir, NEW e,
         GraftedOn(ms, ms2, O, o, N, new, dir, e, FS),
         NEW d, IsPath(d), ~Extends(d, e)
  PROVE  Lookup(ms2, dir \o d) = Lookup(ms, dir \o d)
<1> DEFINE O2 == O \cup N
<1>1. WellFormed(ms, FS) /\ WellFormed(ms2, FS) /\ IsFiniteSet(ms) /\ IsFiniteSet(ms2)
  BY GraftDrawn
<1>2. PICK f : Drawn(ms, O, o, f) /\ Drawn(ms2, O2, o, f)
  BY GraftDrawn
<1>3. /\ Lookup(ms, dir) = Position(o.id, <<>>) /\ Lookup(ms2, dir) = Position(o.id, <<>>)
      /\ Inside(O) \subseteq Inside(O2)
  BY DEF GraftedOn, Inside, Ids
<1> HIDE DEF O2
<1> DEFINE Beyond(p) == Extends(Place(f, p), e)
           Q == {x \in Inside(O) \X Inside(O2) : x[1] = x[2] \/ (Beyond(x[1]) /\ Beyond(x[2]))}
<1>4. \A p, q : <<p, q>> \in Q <=> /\ p \in Inside(O) /\ q \in Inside(O2)
                                  /\ (p = q \/ (Beyond(p) /\ Beyond(q)))
  OBVIOUS
<1>5. <<Lookup(ms, dir), Lookup(ms2, dir)>> \in Q
  <2>1. o.id \in Nat /\ o.id \in Ids(O) /\ <<>> \in Seq(STRING)
    BY <1>2 DEF Drawn, TreeOf, WellFormed, MountRecords, Ids, GraftedOn
  <2>2. Position(o.id, <<>>) \in Inside(O)
    BY <2>1 DEF Inside, Position, Positions
  <2> HIDE DEF Q
  <2> QED BY <1>3, <1>4, <2>2
<1> HIDE DEF Q
<1>6. Lookup(ms, dir \o e) \in Inside(O) /\ Place(f, Lookup(ms, dir \o e)) = e
  BY <1>1, <1>2, <1>3, LookupPlace DEF GraftedOn, IsPath
<1>7. ASSUME NEW a \in Inside(O), ~Beyond(a)
      PROVE  Uppermost(ms, a) = Uppermost(ms2, a)
  <2> HIDE DEF Beyond
  <2> DEFINE S == {q \in Inside(O) : Place(f, q) = Place(f, a)}
  <2>1. a \in S /\ \A q \in S : Above(ms, q) \in S
    BY <1>1, <1>2, AbovePlace
  <2>2. \A q \in S : Covering(ms, q) = Covering(ms2, q)
    <3> SUFFICES ASSUME NEW q \in Inside(O), Place(f, q) = Place(f, a)
                 PROVE  Covering(ms, q) = Covering(ms2, q)
      OBVIOUS
    <3>1. q # Lookup(ms, dir \o e)
      BY <1>6, <1>7, ExtendsItself DEF GraftedOn, IsPath, Beyond
    <3> QED BY <3>1, GraftCovers
  <2>3. Covering(ms, Uppermost(ms, a)) = {}
    BY <1>1, <1>2, UppermostPlace
  <2>4. Covering(ms2, Uppermost(ms2, a)) = {}
    BY <1>1, <1>2, <1>3, UppermostPlace
  <2> HIDE DEF S
  <2> QED BY <1>1, <2>1, <2>2, <2>3, <2>4, UppermostSame
<1>8. ASSUME NEW p, NEW q, NEW name, IsName(name), <<p, q>> \in Q
      PROVE  <<Into(ms, p, name), Into(ms2, q, name)>> \in Q
  <2>1. /\ p \in Inside(O) /\ q \in Inside(O2)
        /\ (p = q \/ (Beyond(p) /\ Beyond(q)))
    BY <1>4, <1>8
  <2>2. /\ Next1(p, name) \in Inside(O)
        /\ Place(f, Next1(p, name)) = Append(Place(f, p), name)
        /\ Into(ms, p, name) = Uppermost(ms, Next1(p, name))
        /\ Into(ms, p, name) \in Inside(O)
        /\ Place(f, Into(ms, p, name)) = Append(Place(f, p), name)
    <3>1. IsName(name) /\ p \in Inside(O)
      BY <1>8, <2>1
    <3> QED BY <1>1, <1>2, <3>1, IntoPlace
  <2>3. /\ Into(ms2, q, name) = Uppermost(ms2, Next1(q, name))
        /\ Into(ms2, q, name) \in Inside(O2)
        /\ Place(f, Into(ms2, q, name)) = Append(Place(f, q), name)
    <3>1. IsName(name) /\ q \in Inside(O2)
      BY <1>8, <2>1
    <3> QED BY <1>1, <1>2, <3>1, IntoPlace
  <2>4. Place(f, p) \in Seq(STRING) /\ Place(f, q) \in Seq(STRING)
    BY <1>1, <1>2, <2>1, AbovePlace
  <2>5. CASE Beyond(p) /\ Beyond(q)
    <3>1. Beyond(Into(ms, p, name)) /\ Beyond(Into(ms2, q, name))
      BY <1>8, <2>2, <2>3, <2>4, <2>5, NameExtends DEF GraftedOn, IsPath
    <3> QED BY <1>4, <2>2, <2>3, <3>1
  <2>6. CASE p = q
    <3>1. CASE Beyond(Next1(p, name))
      <4>1. Beyond(Into(ms, p, name)) /\ Beyond(Into(ms2, q, name))
        BY <2>2, <2>3, <2>6, <3>1
      <4> QED BY <1>4, <2>2, <2>3, <4>1
    <3>2. CASE ~Beyond(Next1(p, name))
      <4>1. Into(ms, p, name) = Into(ms2, q, name)
        BY <1>7, <2>1, <2>2, <2>3, <2>6, <3>2
      <4> QED BY <1>4, <2>2, <2>3, <4>1
    <3> QED BY <3>1, <3>2
  <2> QED BY <2>1, <2>5, <2>6
<1>9. <<Lookup(ms, dir \o d), Lookup(ms2, dir \o d)>> \in Q
  BY <1>1, <1>5, <1>8, WalksRelated DEF GraftedOn
<1>10. Place(f, Lookup(ms, dir \o d)) = d
  BY <1>1, <1>2, <1>3, LookupPlace DEF GraftedOn, IsPath
<1>11. ~Beyond(Lookup(ms, dir \o d))
  BY <1>10
<1> HIDE DEF Beyond
<1> QED BY <1>4, <1>9, <1>11

\* The path to the grafted tree leads to its root.
LEMMA GraftReached ==
  ASSUME NEW ms, NEW ms2, NEW O, NEW o, NEW N, NEW new, NEW FS,
         NEW dir, NEW e, GraftedOn(ms, ms2, O, o, N, new, dir, e, FS), e # <<>>
  PROVE  Lookup(ms2, dir \o e) = Position(new.id, <<>>)
<1> DEFINE O2 == O \cup N
<1>1. WellFormed(ms, FS) /\ WellFormed(ms2, FS) /\ IsFiniteSet(ms) /\ IsFiniteSet(ms2)
  BY GraftDrawn
<1>2. PICK f : Drawn(ms, O, o, f) /\ Drawn(ms2, O2, o, f)
  BY GraftDrawn
<1>0. IsPath(dir) /\ IsPath(e)
  BY DEF GraftedOn
<1>3. PICK d, name : IsPath(d) /\ IsName(name) /\ e = Append(d, name) /\ ~Extends(d, e)
  BY <1>0, LastName, Zenon DEF IsPath, IsName
<1>4. Lookup(ms2, dir \o d) = Lookup(ms, dir \o d)
  BY <1>3, GraftElsewhere
<1>5. IsPath(dir \o d) /\ dir \o e = Append(dir \o d, name)
  BY <1>0, <1>3, NameBelow
<1> DEFINE p == Lookup(ms, dir \o d)
           a == Next1(p, name)
<1>6. Lookup(ms, dir \o e) = Into(ms, p, name) /\ Lookup(ms2, dir \o e) = Into(ms2, p, name)
  <2>1. /\ Lookup(ms, Append(dir \o d, name)) = Into(ms, Lookup(ms, dir \o d), name)
        /\ Lookup(ms2, Append(dir \o d, name)) = Into(ms2, Lookup(ms2, dir \o d), name)
    BY <1>1, <1>3, <1>5, LookupNext
  <2> QED BY <1>4, <1>5, <2>1
<1>7. /\ Lookup(ms, dir) = Position(o.id, <<>>)
      /\ Inside(O) \subseteq Inside(O2)
  BY DEF GraftedOn, Inside, Ids
<1>8. p \in Inside(O)
  BY <1>1, <1>2, <1>7, <1>0, <1>3, LookupPlace DEF IsPath
<1> HIDE DEF p, O2
<1>9. a \in Inside(O) /\ Into(ms, p, name) = Uppermost(ms, a)
  BY <1>1, <1>2, <1>3, <1>8, IntoPlace
<1>10. Into(ms2, p, name) = Uppermost(ms2, a)
  BY <1>1, <1>2, <1>3, <1>7, <1>8, IntoPlace
<1> HIDE DEF a
<1> DEFINE old == Uppermost(ms, a)
<1>11. Covering(ms, old) = {} /\ old \in Inside(O) /\ old = Lookup(ms, dir \o e)
  BY <1>1, <1>2, <1>6, <1>9, UppermostPlace
<1>12. Covering(ms2, Uppermost(ms2, a)) = {}
  BY <1>1, <1>2, <1>7, <1>9, UppermostPlace
<1>13. Covering(ms2, old) = {new}
  <2> HIDE DEF old
  <2> QED BY <1>11, GraftCovers
<1>14. \A q \in Inside(O) : q # old => Covering(ms, q) = Covering(ms2, q)
  <2> SUFFICES ASSUME NEW q \in Inside(O), q # old PROVE Covering(ms, q) = Covering(ms2, q)
    OBVIOUS
  <2> HIDE DEF old
  <2> QED BY <1>11, GraftCovers
<1>15. \A q \in Inside(O) : Above(ms, q) \in Inside(O)
  BY <1>1, <1>2, AbovePlace
<1>16. Covering(ms2, Position(new.id, <<>>)) = {}
  <2> SUFFICES ASSUME NEW x \in ms2, x.parent = new.id, x.at = <<>> PROVE FALSE
    BY DEF Covering, Position
  <2>1. TreeOf(ms2, N, new) /\ \A y \in N : y.parent = new.id => y.at # <<>>
    BY DEF GraftedOn, GraftedAt, Grafted
  <2>2. x \in N
    BY <2>1 DEF TreeOf, Closed, Below
  <2> QED BY <2>1, <2>2
<1>17. Uppermost(ms2, a) = Position(new.id, <<>>)
  BY <1>1, <1>9, <1>11, <1>12, <1>13, <1>14, <1>15, <1>16, UppermostRaised
<1> QED BY <1>6, <1>10, <1>17

------------------------------------------------------------------------------

\* Every mount of a tree but its top is on a directory of its own, other than
\* the root of another mount.
Plain(R) ==
  \A x \in R : x.parent \in Ids(R) =>
    x.at # <<>> /\ \A y \in R : y.parent = x.parent /\ y.at = x.at => y = x

\* What is copied lies in the part of the mounts that the source is in.
LEMMA MirrorWithin ==
  ASSUME NEW ms, NEW R, R \subseteq ms, Closed(ms, R), NEW from \in Inside(R),
         NEW N, NEW new, NEW L, NEW c, MirrorOf(ms, N, new, from, L, c)
  PROVE  L \subseteq R
<1>1. Kids(ms, from) \subseteq R
  BY DEF Kids, Inside, Closed, Below, Ids
<1> QED BY <1>1 DEF MirrorOf

\* A copy is below the new mount if its original is on the source, and below
\* the copy of another one if that is mounted below the original of that.
LEMMA CopiesOfKids ==
  ASSUME NEW ms, NEW N, NEW new, NEW from, NEW L, NEW c, MirrorOf(ms, N, new, from, L, c)
  PROVE  /\ \A z \in N : z = new \/ \E x \in L : z = c[x]
         /\ \A x \in L : c[x].parent = new.id => x \in Kids(ms, from)
         /\ \A x, y \in L : c[x].parent = c[y].id => x.parent = y.id /\ x \notin Kids(ms, from)
<1>1. \A z \in N : z = new \/ \E x \in L : z = c[x]
  BY DEF MirrorOf
<1>2. \A x \in L : c[x].id # new.id
  BY DEF MirrorOf
<1>3. \A x \in Kids(ms, from) : c[x].parent = new.id
  BY DEF MirrorOf
<1>4. \A x \in L \ Kids(ms, from) : \E y \in L : x.parent = y.id /\ c[x].parent = c[y].id
  BY DEF MirrorOf
<1>5. \A x, y \in L : c[x].id = c[y].id => x = y
  BY DEF MirrorOf
<1>6. \A x \in L : c[x].parent = new.id => x \in Kids(ms, from)
  BY <1>2, <1>4
<1>7. ASSUME NEW x \in L, NEW y \in L, c[x].parent = c[y].id
      PROVE  x.parent = y.id /\ x \notin Kids(ms, from)
  <2>1. x \notin Kids(ms, from)
    BY <1>2, <1>3, <1>7
  <2>2. PICK z \in L : x.parent = z.id /\ c[x].parent = c[z].id
    BY <1>4, <2>1
  <2>3. z = y
    BY <1>5, <1>7, <2>2
  <2> QED BY <2>1, <2>2, <2>3
<1> QED BY <1>1, <1>6, <1>7

\* The mount y is on its mount where x is behind the path of the source.
Behind(from, x, y) == IsPath(y.at) /\ x.at = from.path \o y.at

\* The places of the copies.
LEMMA CopiesAt ==
  ASSUME NEW ms, NEW N, NEW new, NEW from, NEW L, NEW c, MirrorOf(ms, N, new, from, L, c),
         NEW x \in Kids(ms, from)
  PROVE  /\ x \in L /\ x \in ms /\ x.parent = from.mount /\ c[x].parent = new.id
         /\ Behind(from, x, c[x]) /\ c[x] \in N
<1>1. x \in L /\ x \in ms /\ x.parent = from.mount
  BY DEF MirrorOf, Kids
<1>2. c[x] \in N
  BY <1>1 DEF MirrorOf
<1> QED BY <1>1, <1>2 DEF MirrorOf, IsPath, Behind

\* Those of the others.
LEMMA CopiesBelow ==
  ASSUME NEW ms, NEW N, NEW new, NEW from, NEW L, NEW c, MirrorOf(ms, N, new, from, L, c),
         NEW x \in L
  PROVE  /\ c[x] \in N /\ x \in ms
         /\ x \notin Kids(ms, from) => c[x].at = x.at
<1>1. c[x] \in N /\ x \in ms
  BY DEF MirrorOf
<1>2. x \notin Kids(ms, from) => c[x].at = x.at
  BY DEF MirrorOf
<1> QED BY <1>1, <1>2

\* A copy of a plain tree is plain, if nothing is mounted on the source itself.
LEMMA CopyPlain ==
  ASSUME NEW ms, NEW R, R \subseteq ms, Closed(ms, R), Plain(R),
         NEW from \in Inside(R), Covering(ms, from) = {},
         NEW N, NEW new, Mirrors(ms, N, new, from), new.parent \notin Ids(N)
  PROVE  Plain(N)
<1>1. PICK L, c : MirrorOf(ms, N, new, from, L, c)
  BY DEF Mirrors
<1>2. L \subseteq R
  BY <1>1, MirrorWithin
<1>3. from.mount \in Ids(R) /\ from.path \in Seq(STRING)
  BY DEF Inside, Positions
<1>4. ASSUME NEW z \in L PROVE c[z].at # <<>>
  <2>1. CASE z \in Kids(ms, from)
    <3> SUFFICES ASSUME c[z].at = <<>> PROVE FALSE
      OBVIOUS
    <3>1. Behind(from, z, c[z]) /\ z \in ms /\ z.parent = from.mount
      BY <1>1, <2>1, CopiesAt
    <3>2. z.at = from.path
      BY <1>3, <3>1, ConcatEmpty DEF Behind
    <3> QED BY <3>1, <3>2 DEF Covering
  <2>2. CASE z \notin Kids(ms, from)
    <3>1. PICK y \in L : z.parent = y.id
      BY <1>1, <2>2 DEF MirrorOf
    <3>2. z.at # <<>>
      BY <1>2, <3>1 DEF Plain, Ids
    <3> QED BY <1>1, <2>2, <3>2, CopiesBelow
  <2> QED BY <2>1, <2>2
<1>5. ASSUME NEW z \in L, NEW w \in L, c[w].parent = c[z].parent, c[w].at = c[z].at
      PROVE  w = z
  <2>1. w.parent = z.parent /\ w.at = z.at /\ z.parent \in Ids(R)
    <3>1. CASE z \in Kids(ms, from)
      <4>1. c[w].parent = new.id
        BY <1>1, <1>5, <3>1, CopiesAt
      <4>2. w \in Kids(ms, from)
        BY <1>1, <4>1, CopiesOfKids
      <4>3. /\ Behind(from, z, c[z]) /\ z.parent = from.mount
            /\ Behind(from, w, c[w]) /\ w.parent = from.mount
        BY <1>1, <3>1, <4>2, CopiesAt
      <4> QED BY <1>3, <1>5, <4>3 DEF Behind
    <3>2. CASE z \notin Kids(ms, from)
      <4>1. PICK y \in L : z.parent = y.id /\ c[z].parent = c[y].id
        BY <1>1, <3>2 DEF MirrorOf
      <4>2. w.parent = y.id /\ w \notin Kids(ms, from)
        BY <1>1, <1>5, <4>1, CopiesOfKids
      <4>3. w.at = z.at
        BY <1>1, <1>5, <3>2, <4>2, CopiesBelow
      <4> QED BY <1>2, <4>1, <4>2, <4>3 DEF Ids
    <3> QED BY <3>1, <3>2
  <2> QED BY <1>2, <2>1 DEF Plain
<1>6. ASSUME NEW x \in N, x.parent \in Ids(N)
      PROVE  x.at # <<>> /\ \A y \in N : y.parent = x.parent /\ y.at = x.at => y = x
  <2>1. PICK z \in L : x = c[z]
    BY <1>1, <1>6, CopiesOfKids
  <2>2. \A y \in N : y.parent = x.parent => \E w \in L : y = c[w]
    BY <1>1, <1>6, CopiesOfKids
  <2> QED BY <1>4, <1>5, <2>1, <2>2
<1> QED BY <1>6 DEF Plain

------------------------------------------------------------------------------

\* A plain tree has been copied, from a source that nothing is mounted on.
Mirrored(ms, ms2, R, N, new, from, L, c, FS) ==
  /\ WellFormed(ms, FS) /\ Grafted(ms, N, new, FS) /\ ms2 = ms \cup N
  /\ R \in SUBSET ms /\ Closed(ms, R) /\ Plain(R)
  /\ from \in Inside(R) /\ Covering(ms, from) = {}
  /\ new.parent \notin Ids(N) /\ MirrorOf(ms, N, new, from, L, c)
  /\ from.mount \notin Ids(L)

\* A position of the copy, and that of the original.
Facing(new, from, L, c, p, q) ==
  /\ p \in Positions
  /\ \/ p.mount = new.id /\ q = Position(from.mount, from.path \o p.path)
     \/ \E x \in L : p.mount = c[x].id /\ q = Position(x.id, p.path)

\* They are covered alike.
LEMMA MirrorCovers ==
  ASSUME NEW ms, NEW ms2, NEW R, NEW N, NEW new, NEW from, NEW L, NEW c, NEW FS,
         Mirrored(ms, ms2, R, N, new, from, L, c, FS),
         NEW p, NEW q, Facing(new, from, L, c, p, q)
  PROVE  /\ \A x \in Covering(ms, q) : x \in L /\ c[x] \in Covering(ms2, p)
         /\ \A z \in Covering(ms2, p) : \E x \in Covering(ms, q) : z = c[x]
<1>1. /\ MirrorOf(ms, N, new, from, L, c) /\ ms2 = ms \cup N /\ from.path \in Seq(STRING)
      /\ new.parent \notin Ids(N) /\ from.mount \notin Ids(L) /\ p.path \in Seq(STRING)
  BY DEF Mirrored, Inside, Positions, Facing
<1>2. Closed(ms2, N) /\ Closed(ms, L) /\ new \in N /\ L \subseteq ms
  BY <1>1 DEF Mirrored, Grafted, TreeOf, MirrorOf
<1>3. CASE p.mount = new.id /\ q = Position(from.mount, from.path \o p.path)
  <2>1. q.mount = from.mount /\ q.path = from.path \o p.path
    BY <1>3 DEF Position
  <2>2. ASSUME NEW x \in Covering(ms, q) PROVE x \in L /\ c[x] \in Covering(ms2, p)
    <3>1. x \in ms /\ x.parent = from.mount /\ x.at = from.path \o p.path
      BY <2>1 DEF Covering
    <3>2. IsPrefix(from.path, x.at)
      BY <1>1, <3>1, PrefixOfConcat
    <3>3. x \in Kids(ms, from)
      BY <3>1, <3>2 DEF Kids
    <3>4. x \in L /\ c[x].parent = new.id /\ c[x] \in N /\ Behind(from, x, c[x])
      BY <1>1, <3>3, CopiesAt
    <3>5. c[x].at = p.path
      BY <1>1, <3>1, <3>4, SamePrefix DEF IsPath, Behind
    <3> QED BY <1>1, <1>3, <3>4, <3>5 DEF Covering
  <2>3. ASSUME NEW z \in Covering(ms2, p) PROVE \E x \in Covering(ms, q) : z = c[x]
    <3>1. z \in ms2 /\ z.parent = new.id /\ z.at = p.path
      BY <1>3 DEF Covering
    <3>2. z \in N /\ z # new
      BY <1>1, <1>2, <3>1 DEF Closed, Below, Ids
    <3>3. PICK x \in L : z = c[x]
      BY <1>1, <3>2, CopiesOfKids
    <3>4. x \in Kids(ms, from)
      BY <1>1, <3>1, <3>3, CopiesOfKids
    <3>5. x \in ms /\ x.parent = from.mount /\ Behind(from, x, c[x])
      BY <1>1, <3>4, CopiesAt
    <3> QED BY <2>1, <3>1, <3>3, <3>5 DEF Covering, Behind
  <2> QED BY <2>2, <2>3
<1>4. ASSUME NEW y \in L, p.mount = c[y].id, q = Position(y.id, p.path)
      PROVE  /\ \A x \in Covering(ms, q) : x \in L /\ c[x] \in Covering(ms2, p)
             /\ \A z \in Covering(ms2, p) : \E x \in Covering(ms, q) : z = c[x]
  <2>1. q.mount = y.id /\ q.path = p.path
    BY <1>4 DEF Position
  <2>2. ASSUME NEW x \in Covering(ms, q) PROVE x \in L /\ c[x] \in Covering(ms2, p)
    <3>1. x \in ms /\ x.parent = y.id /\ x.at = p.path
      BY <2>1 DEF Covering
    <3>2. x \in L
      BY <1>2, <3>1 DEF Closed, Below
    <3>3. x \notin Kids(ms, from)
      BY <1>1, <3>1 DEF Kids, Ids
    <3>4. PICK w \in L : x.parent = w.id /\ c[x].parent = c[w].id
      BY <1>1, <3>2, <3>3 DEF MirrorOf
    <3>5. w = y
      BY <1>2, <3>1, <3>4 DEF Mirrored, WellFormed
    <3>6. c[x] \in N /\ c[x].at = x.at
      BY <1>1, <3>2, <3>3, CopiesBelow
    <3> QED BY <1>1, <1>4, <3>1, <3>2, <3>4, <3>5, <3>6 DEF Covering
  <2>3. ASSUME NEW z \in Covering(ms2, p) PROVE \E x \in Covering(ms, q) : z = c[x]
    <3>1. z \in ms2 /\ z.parent = c[y].id /\ z.at = p.path /\ c[y] \in N
      BY <1>1, <1>4, CopiesBelow DEF Covering
    <3>2. z \in N /\ z # new
      BY <1>1, <1>2, <3>1 DEF Closed, Below, Ids
    <3>3. PICK x \in L : z = c[x]
      BY <1>1, <3>2, CopiesOfKids
    <3>4. x.parent = y.id /\ x \notin Kids(ms, from)
      BY <1>1, <3>1, <3>3, CopiesOfKids
    <3>5. x.at = p.path /\ x \in ms
      BY <1>1, <1>2, <3>1, <3>3, <3>4, CopiesBelow
    <3> QED BY <2>1, <3>3, <3>4, <3>5 DEF Covering
  <2> QED BY <2>2, <2>3
<1> QED BY <1>3, <1>4 DEF Facing

------------------------------------------------------------------------------

\* They lie in the two parts of the mounts.
LEMMA FacingInside ==
  ASSUME NEW ms, NEW ms2, NEW R, NEW N, NEW new, NEW from, NEW L, NEW c, NEW FS,
         Mirrored(ms, ms2, R, N, new, from, L, c, FS),
         NEW p, NEW q, Facing(new, from, L, c, p, q)
  PROVE  p \in Inside(N) /\ q \in Inside(R)
<1>1. /\ MirrorOf(ms, N, new, from, L, c) /\ R \subseteq ms /\ Closed(ms, R)
      /\ from \in Inside(R) /\ WellFormed(ms, FS) /\ new \in N
  BY DEF Mirrored, Grafted, TreeOf
<1>2. L \subseteq R
  BY <1>1, MirrorWithin
<1>3. from.mount \in Ids(R) /\ from.path \in Seq(STRING) /\ from.mount \in Nat
  BY <1>1 DEF Inside, Positions
<1>4. p \in Positions /\ p.path \in Seq(STRING)
  BY DEF Facing, Positions
<1>5. CASE p.mount = new.id /\ q = Position(from.mount, from.path \o p.path)
  <2>1. p \in Inside(N)
    BY <1>1, <1>4, <1>5 DEF Inside, Ids
  <2>2. from.path \o p.path \in Seq(STRING)
    BY <1>3, <1>4, ConcatProperties
  <2> QED BY <1>3, <1>5, <2>1, <2>2 DEF Inside, Position, Positions
<1>6. ASSUME NEW x \in L, p.mount = c[x].id, q = Position(x.id, p.path)
      PROVE  p \in Inside(N) /\ q \in Inside(R)
  <2>1. c[x] \in N
    BY <1>1, CopiesBelow
  <2>2. p \in Inside(N)
    BY <1>4, <1>6, <2>1 DEF Inside, Ids
  <2>3. x \in R /\ x.id \in Nat
    BY <1>1, <1>2 DEF WellFormed, MountRecords
  <2> QED BY <1>4, <1>6, <2>2, <2>3 DEF Inside, Ids, Position, Positions
<1> QED BY <1>5, <1>6 DEF Facing

\* What covers a position of a plain tree.
LEMMA PlainCovers ==
  ASSUME NEW ms, NEW R, Closed(ms, R), Plain(R), NEW q \in Inside(R),
         NEW x \in Covering(ms, q)
  PROVE  Covering(ms, q) = {x} /\ Above(ms, q) = Position(x.id, <<>>)
<1>1. Covering(ms, q) = {x}
  <2>1. \A y \in Covering(ms, q) : /\ y \in R /\ y.parent \in Ids(R)
                                  /\ y.parent = q.mount /\ y.at = q.path
    BY DEF Covering, Closed, Below, Inside, Ids
  <2> QED BY <2>1 DEF Plain
<1> QED BY <1>1 DEF Above

\* Going up leads from positions that face each other to such positions.
LEMMA MirrorAbove ==
  ASSUME NEW ms, NEW ms2, NEW R, NEW N, NEW new, NEW from, NEW L, NEW c, NEW FS,
         Mirrored(ms, ms2, R, N, new, from, L, c, FS),
         NEW p, NEW q, Facing(new, from, L, c, p, q)
  PROVE  Facing(new, from, L, c, Above(ms2, p), Above(ms, q))
<1>1. /\ \A x \in Covering(ms, q) : x \in L /\ c[x] \in Covering(ms2, p)
      /\ \A z \in Covering(ms2, p) : \E x \in Covering(ms, q) : z = c[x]
  BY MirrorCovers
<1>2. CASE Covering(ms, q) = {}
  <2>1. Covering(ms2, p) = {}
    BY <1>1, <1>2
  <2> QED BY <1>2, <2>1 DEF Above
<1>3. CASE Covering(ms, q) # {}
  <2>1. PICK x \in Covering(ms, q) : TRUE
    BY <1>3
  <2>2. Closed(ms, R) /\ Plain(R) /\ q \in Inside(R)
    BY FacingInside DEF Mirrored
  <2>3. Covering(ms, q) = {x} /\ Above(ms, q) = Position(x.id, <<>>)
    BY <2>1, <2>2, PlainCovers
  <2>4. Covering(ms2, p) = {c[x]} /\ x \in L
    BY <1>1, <2>3
  <2>5. Above(ms2, p) = Position(c[x].id, <<>>)
    BY <2>4 DEF Above
  <2>6. c[x].id \in Nat /\ <<>> \in Seq(STRING)
    BY <2>4 DEF Covering, Mirrored, Grafted, WellFormed, MountRecords
  <2>7. Position(c[x].id, <<>>) \in Positions
        /\ Position(c[x].id, <<>>).mount = c[x].id /\ Position(c[x].id, <<>>).path = <<>>
    BY <2>6 DEF Position, Positions
  <2> QED BY <2>3, <2>4, <2>5, <2>7 DEF Facing
<1> QED BY <1>2, <1>3

\* So does a name.
LEMMA MirrorInto ==
  ASSUME NEW ms, NEW ms2, NEW R, NEW N, NEW new, NEW from, NEW L, NEW c, NEW FS,
         Mirrored(ms, ms2, R, N, new, from, L, c, FS),
         NEW p, NEW q, Facing(new, from, L, c, p, q), NEW name, IsName(name)
  PROVE  Facing(new, from, L, c, Into(ms2, p, name), Into(ms, q, name))
<1>1. /\ WellFormed(ms, FS) /\ WellFormed(ms2, FS) /\ R \in SUBSET ms /\ Closed(ms, R)
      /\ Plain(R) /\ N \in SUBSET ms2 /\ Closed(ms2, N)
  BY DEF Mirrored, Grafted, TreeOf
<1>2. Plain(N)
  <2>1. Mirrors(ms, N, new, from)
    BY DEF Mirrored, Mirrors
  <2> QED BY <1>1, <2>1, CopyPlain DEF Mirrored
<1>3. /\ \A x \in ms : x.parent \in Ids(R) => x.at # <<>>
      /\ \A x \in ms2 : x.parent \in Ids(N) => x.at # <<>>
  BY <1>1, <1>2 DEF Plain, Closed, Below, Ids
<1> DEFINE p1 == Next1(p, name)
           q1 == Next1(q, name)
<1>4. Facing(new, from, L, c, p1, q1)
  <2>1. p \in Positions /\ IsPath(p.path) /\ p.mount \in Nat /\ IsPath(from.path)
    BY DEF Facing, Positions, Mirrored, Inside, IsPath
  <2>2. /\ IsPath(Append(p.path, name))
        /\ from.path \o Append(p.path, name) = Append(from.path \o p.path, name)
    <3> DEFINE s == p.path
               t == from.path
    <3>1. IsPath(s) /\ IsPath(t)
      BY <2>1
    <3> HIDE DEF s, t
    <3>2. t \o Append(s, name) = Append(t \o s, name) /\ IsPath(Append(s, name))
      BY <3>1, NameAppend, Zenon DEF IsPath, IsName
    <3> QED BY <3>2 DEF s, t
  <2>3. p1 \in Positions /\ p1.mount = p.mount /\ p1.path = Append(p.path, name)
    BY <2>1, <2>2 DEF Next1, Position, Positions, IsPath
  <2>4. CASE p.mount = new.id /\ q = Position(from.mount, from.path \o p.path)
    <3>1. q1 = Position(from.mount, from.path \o Append(p.path, name))
      BY <2>2, <2>4 DEF Next1, Position
    <3> HIDE DEF p1, q1
    <3> QED BY <2>3, <2>4, <3>1 DEF Facing
  <2>5. ASSUME NEW x \in L, p.mount = c[x].id, q = Position(x.id, p.path)
        PROVE  Facing(new, from, L, c, p1, q1)
    <3>1. q1 = Position(x.id, Append(p.path, name))
      BY <2>5 DEF Next1, Position
    <3> HIDE DEF p1, q1
    <3> QED BY <2>3, <2>5, <3>1 DEF Facing
  <2> QED BY <2>4, <2>5 DEF Facing
<1>5. Into(ms2, p, name) = Uppermost(ms2, p1) /\ Into(ms, q, name) = Uppermost(ms, q1)
  BY DEF Into, Next1
<1> HIDE DEF p1, q1
<1>6. p1 \in Inside(N) /\ q1 \in Inside(R)
  BY <1>4, FacingInside
<1>7. Uppermost(ms2, p1) = Above(ms2, p1)
  BY <1>1, <1>3, <1>6, UppermostOnce
<1>8. Uppermost(ms, q1) = Above(ms, q1)
  BY <1>1, <1>3, <1>6, UppermostOnce
<1> QED BY <1>4, <1>5, <1>7, <1>8, MirrorAbove

\* What a mount shows at a path below its root.
ShownBy(x, path) == [fs |-> x.fs, dir |-> x.dir \o path]

\* It is seen at a position on the mount.
LEMMA SeenAt ==
  ASSUME NEW FS, NEW ms, WellFormed(ms, FS), NEW x \in ms, NEW path, NEW rest,
         Lookup(ms, path).mount = x.id, Lookup(ms, path).path = rest
  PROVE  Seen(ms, path) = ShownBy(x, rest)
<1> DEFINE pos == Lookup(ms, path)
           m == CHOOSE y \in ms : y.id = pos.mount
<1>1. m = x
  BY DEF WellFormed
<1>2. pos.mount # RamDisk
  BY DEF WellFormed, MountRecords
<1>3. Seen(ms, path) = [fs |-> m.fs, dir |-> m.dir \o pos.path]
  BY <1>2, Zenon DEF Seen
<1> HIDE DEF m, pos
<1> QED BY <1>1, <1>3 DEF pos, ShownBy

\* A path that leads where it led, to a mount that was there, shows the same.
LEMMA SameSeen ==
  ASSUME NEW FS, NEW ms, NEW ms2, WellFormed(ms, FS), WellFormed(ms2, FS), ms \subseteq ms2,
         NEW path, Lookup(ms2, path) = Lookup(ms, path), Lookup(ms, path) \in Inside(ms)
  PROVE  Seen(ms2, path) = Seen(ms, path)
<1>1. PICK x \in ms : x.id = Lookup(ms, path).mount
  BY DEF Inside, Ids
<1> DEFINE rest == Lookup(ms, path).path
<1>2. Seen(ms, path) = ShownBy(x, rest)
  BY <1>1, SeenAt
<1>3. Seen(ms2, path) = ShownBy(x, rest)
  BY <1>1, SeenAt
<1> QED BY <1>2, <1>3

------------------------------------------------------------------------------

\* Below the new mount one sees what is seen below the source.
LEMMA MirrorSeen ==
  ASSUME NEW ms, NEW ms2, NEW R, NEW N, NEW new, NEW src, NEW L, NEW c, NEW FS,
         Mirrored(ms, ms2, R, N, new, Lookup(ms, src), L, c, FS), CopyOf(ms, N, new, src),
         IsPath(src), NEW dst, IsPath(dst), Lookup(ms2, dst) = Position(new.id, <<>>),
         NEW rest, IsPath(rest)
  PROVE  Seen(ms2, dst \o rest) = Seen(ms, src \o rest)
<1> DEFINE from == Lookup(ms, src)
           p == Lookup(ms2, dst \o rest)
           q == Lookup(ms, src \o rest)
<1>1. WellFormed(ms, FS) /\ WellFormed(ms2, FS) /\ from \in Inside(R) /\ new \in ms2
      /\ MirrorOf(ms, N, new, from, L, c) /\ R \subseteq ms /\ N \subseteq ms2
  BY DEF Mirrored, Grafted, TreeOf
<1>2. from.path \in Seq(STRING) /\ from \in Positions
  BY <1>1 DEF Inside, Positions
<1> HIDE DEF from
<1>3. Facing(new, from, L, c, Position(new.id, <<>>), from)
  <2>1. from = Position(from.mount, from.path \o <<>>)
    <3>1. from.path \o <<>> = from.path
      BY <1>2, ConcatEmpty
    <3> QED BY <1>2, <3>1 DEF Positions, Position
  <2>2. new.id \in Nat /\ <<>> \in Seq(STRING)
    BY <1>1 DEF WellFormed, MountRecords
  <2>3. /\ Position(new.id, <<>>) \in Positions
        /\ Position(new.id, <<>>).mount = new.id /\ Position(new.id, <<>>).path = <<>>
    BY <2>2 DEF Position, Positions
  <2> QED BY <2>1, <2>3 DEF Facing
<1> DEFINE Q == {x \in Inside(N) \X Inside(R) : Facing(new, from, L, c, x[1], x[2])}
<1>4. \A a, b : <<a, b>> \in Q <=> Facing(new, from, L, c, a, b)
  <2>1. \A a, b : Facing(new, from, L, c, a, b) => a \in Inside(N) /\ b \in Inside(R)
    BY FacingInside DEF from
  <2> QED BY <2>1
<1> HIDE DEF Q
<1>5. <<Lookup(ms2, dst), Lookup(ms, src)>> \in Q
  BY <1>3, <1>4 DEF from
<1>6. ASSUME NEW a, NEW b, NEW name, IsName(name), <<a, b>> \in Q
      PROVE  <<Into(ms2, a, name), Into(ms, b, name)>> \in Q
  BY <1>4, <1>6, MirrorInto DEF from
<1>7. <<p, q>> \in Q
  BY <1>1, <1>5, <1>6, WalksRelated
<1>8. Facing(new, from, L, c, p, q)
  BY <1>4, <1>7
<1> HIDE DEF p, q
<1>9. CASE p.mount = new.id /\ q = Position(from.mount, from.path \o p.path)
  <2>1. PICK m \in ms : m.id = from.mount
    BY <1>1 DEF Inside, Ids
  <2>2. Seen(ms, src) = ShownBy(m, from.path)
    BY <1>1, <2>1, SeenAt DEF from
  <2>3. new.fs = m.fs /\ new.dir = m.dir \o from.path
    <3>1. new.fs = Seen(ms, src).fs /\ new.dir = Seen(ms, src).dir
      BY DEF CopyOf
    <3> DEFINE dir == m.dir \o from.path
    <3>2. Seen(ms, src) = [fs |-> m.fs, dir |-> dir]
      BY <2>2, Zenon DEF ShownBy
    <3> HIDE DEF dir
    <3>3. new.fs = m.fs /\ new.dir = dir
      BY <3>1, <3>2
    <3> QED BY <3>3 DEF dir
  <2>4. q.mount = from.mount /\ q.path = from.path \o p.path
    BY <1>9 DEF Position
  <2>5. Seen(ms, src \o rest) = ShownBy(m, from.path \o p.path)
    <3>1. q.mount = m.id
      BY <2>1, <2>4
    <3>2. Seen(ms, src \o rest) = ShownBy(m, q.path)
      BY <1>1, <3>1, SeenAt DEF q
    <3> QED BY <2>4, <3>2
  <2>6. Seen(ms2, dst \o rest) = ShownBy(new, p.path)
    BY <1>1, <1>9, SeenAt DEF p
  <2>7. m.dir \in Seq(STRING) /\ p.path \in Seq(STRING)
    BY <1>1, <1>8 DEF WellFormed, MountRecords, Facing, Positions
  <2>8. (m.dir \o from.path) \o p.path = m.dir \o (from.path \o p.path)
    <3> DEFINE a == m.dir
               b == from.path
               d == p.path
    <3>1. a \in Seq(STRING) /\ b \in Seq(STRING) /\ d \in Seq(STRING)
      BY <1>2, <2>7
    <3> HIDE DEF a, b, d
    <3>2. (a \o b) \o d = a \o (b \o d)
      BY <3>1, ConcatAssociative
    <3> QED BY <3>2 DEF a, b, d
  <2> QED BY <2>3, <2>5, <2>6, <2>8 DEF ShownBy
<1>10. ASSUME NEW x \in L, p.mount = c[x].id, q = Position(x.id, p.path)
       PROVE  Seen(ms2, dst \o rest) = Seen(ms, src \o rest)
  <2>1. x \in ms /\ c[x] \in ms2
    BY <1>1, CopiesBelow
  <2>2. c[x].fs = x.fs /\ c[x].dir = x.dir
    BY <1>1 DEF MirrorOf
  <2>3. q.mount = x.id /\ q.path = p.path
    BY <1>10 DEF Position
  <2>4. Seen(ms, src \o rest) = ShownBy(x, p.path)
    BY <1>1, <2>1, <2>3, SeenAt DEF q
  <2>5. Seen(ms2, dst \o rest) = ShownBy(c[x], p.path)
    BY <1>1, <1>10, <2>1, SeenAt DEF p
  <2> QED BY <2>2, <2>4, <2>5 DEF ShownBy
<1> QED BY <1>8, <1>9, <1>10 DEF Facing

------------------------------------------------------------------------------

\* What can be bound so that it is seen as it is: a directory of a plain part of
\* the mounts that nothing is mounted on, and that is not itself below what is
\* mounted behind it.
Source(ms, R, from) ==
  /\ R \in SUBSET ms /\ Closed(ms, R) /\ Plain(R)
  /\ from \in Inside(R) /\ Covering(ms, from) = {}
  /\ \E C \in SUBSET ms : Kids(ms, from) \subseteq C /\ Closed(ms, C) /\ from.mount \notin Ids(C)

\* Where a path below the top of a tree leads nothing is mounted on.
LEMMA PathUncovered ==
  ASSUME NEW FS, NEW ms, WellFormed(ms, FS), NEW R, NEW top, TreeOf(ms, R, top),
         top.parent \notin Ids(R), Plain(R),
         NEW dir, IsPath(dir), Lookup(ms, dir) = Position(top.id, <<>>),
         NEW rest, IsPath(rest)
  PROVE  Covering(ms, Lookup(ms, dir \o rest)) = {} /\ Lookup(ms, dir \o rest) \in Inside(R)
<1>1. PICK f : Drawn(ms, R, top, f)
  BY TreeDrawn
<1>2. \A end : IsPath(end) => Lookup(ms, dir \o end) \in Inside(R)
  BY <1>1, LookupPlace DEF IsPath
<1>3. CASE rest = <<>>
  <2>1. dir \o rest = dir
    BY <1>3, ConcatEmpty DEF IsPath
  <2>2. \A x \in ms : x.parent = top.id => x.at # <<>>
    BY DEF Plain, TreeOf, Closed, Below, Ids
  <2>3. Covering(ms, Position(top.id, <<>>)) = {}
    BY <2>2 DEF Covering, Position
  <2> QED BY <1>2, <2>1, <2>3
<1>4. CASE rest # <<>>
  <2>1. PICK d, name : IsPath(d) /\ IsName(name) /\ rest = Append(d, name)
    BY <1>4, LastName, Zenon DEF IsPath, IsName
  <2>2. IsPath(dir \o d) /\ dir \o rest = Append(dir \o d, name)
    BY <2>1, NameBelow
  <2> DEFINE p == Lookup(ms, dir \o d)
  <2>3. Lookup(ms, dir \o rest) = Into(ms, p, name)
    BY <2>1, <2>2, LookupNext
  <2>4. p \in Inside(R)
    BY <1>2, <2>1
  <2> HIDE DEF p
  <2>5. Into(ms, p, name) = Uppermost(ms, Next1(p, name)) /\ Next1(p, name) \in Inside(R)
    BY <1>1, <2>1, <2>4, IntoPlace
  <2>6. Covering(ms, Uppermost(ms, Next1(p, name))) = {}
    BY <2>5, UppermostUncovered
  <2> QED BY <1>2, <2>3, <2>5, <2>6
<1> QED BY <1>3, <1>4

\* A directory of a plain tree can be bound.
LEMMA TreeSource ==
  ASSUME NEW FS, NEW ms, WellFormed(ms, FS), NEW R, NEW top, TreeOf(ms, R, top),
         top.parent \notin Ids(R), Plain(R),
         NEW from \in Inside(R), Covering(ms, from) = {}
  PROVE  Source(ms, R, from)
<1>1. R \in SUBSET ms /\ Closed(ms, R) /\ Charted(R, top, R)
  BY TreeCharted DEF TreeOf
<1>2. PICK h \in [Ids(R) -> Nat] : \A x \in R \ {top} : h[x.parent] < h[x.id]
  BY <1>1 DEF Charted
<1>3. \A x \in R : x.parent \in Ids(R) => h[x.parent] < h[x.id] /\ x.id \in Ids(R)
  BY <1>2 DEF Ids
<1>4. from.mount \in Ids(R) /\ \A i \in Ids(R) : h[i] \in Nat
  BY <1>2 DEF Inside
<1> DEFINE C == {x \in R : h[from.mount] < h[x.id]}
<1>5. Kids(ms, from) \subseteq C
  <2> SUFFICES ASSUME NEW x \in Kids(ms, from) PROVE x \in C
    OBVIOUS
  <2>1. x \in ms /\ x.parent = from.mount
    BY DEF Kids
  <2>2. x \in R
    BY <1>1, <1>4, <2>1 DEF Closed, Below, Ids
  <2> QED BY <1>3, <1>4, <2>1, <2>2
<1>6. Closed(ms, C)
  <2> SUFFICES ASSUME NEW x \in ms, NEW y \in C, x.parent = y.id PROVE x \in C
    BY DEF Closed, Below
  <2>1. x \in R /\ y.id \in Ids(R)
    BY <1>1 DEF Closed, Below, Ids
  <2>2. h[x.parent] < h[x.id] /\ h[from.mount] < h[x.parent] /\ x.id \in Ids(R)
    BY <1>3, <2>1
  <2>3. h[from.mount] < h[x.id]
    BY <1>4, <2>1, <2>2
  <2> QED BY <2>1, <2>3
<1>7. from.mount \notin Ids(C)
  BY <1>4 DEF Ids
<1>8. C \in SUBSET ms
  BY <1>1
<1> HIDE DEF C
<1> QED BY <1>1, <1>5, <1>6, <1>7, <1>8 DEF Source

\* What is bound shows what its source shows.
LEMMA SourceMirrored ==
  ASSUME NEW FS, NEW ms, WellFormed(ms, FS), NEW R, NEW src, Source(ms, R, Lookup(ms, src)),
         NEW N, NEW new, Grafted(ms, N, new, FS), new.parent \notin Ids(N),
         Mirrors(ms, N, new, Lookup(ms, src)), CopyOf(ms, N, new, src),
         IsPath(src), NEW dst, IsPath(dst), Lookup(ms \cup N, dst) = Position(new.id, <<>>),
         NEW rest, IsPath(rest)
  PROVE  Seen(ms \cup N, dst \o rest) = Seen(ms, src \o rest)
<1> DEFINE from == Lookup(ms, src)
<1>1. PICK L, c : MirrorOf(ms, N, new, from, L, c)
  BY DEF Mirrors
<1> HIDE DEF from
<1>2. PICK C \in SUBSET ms : Kids(ms, from) \subseteq C /\ Closed(ms, C) /\ from.mount \notin Ids(C)
  BY DEF Source, from
<1>3. L \subseteq C
  BY <1>1, <1>2 DEF MirrorOf
<1>4. from.mount \notin Ids(L)
  BY <1>2, <1>3 DEF Ids
<1>5. Mirrored(ms, ms \cup N, R, N, new, from, L, c, FS)
  BY <1>1, <1>4 DEF Mirrored, Source, from
<1> QED BY <1>5, MirrorSeen DEF from
==============================================================================
