-------------------------- MODULE PfsWriterProofs ---------------------------
(***************************************************************************)
(* Why what the operations on paths leave behind is a tree that reads back *)
(* as it was written, for any paths, contents, host directories and        *)
(* batches, and any number of calls.                                       *)
(*                                                                         *)
(* Kept(log, view) is the inductive invariant: the log holds sessions of   *)
(* sound records, the view is what build_node_view makes of it, and no two *)
(* live nodes are in one place.  Two conditions on the records of one more *)
(* session keep it: they Fit the view (a node that is there keeps its kind *)
(* and was live, a parent is there or comes in the same session, and is    *)
(* live unless the record is a tombstone) and they are Apart (no record    *)
(* puts a node where another one lives).  Every operation is shown to      *)
(* commit such records; for commit_changes this is an invariant of the     *)
(* batch as it grows (Making), in which a new node comes of one path.      *)
(*                                                                         *)
(* The nodes that are live are described by Downward: what holds of the    *)
(* nodes where the way up ends, and of a node when it holds of its parent, *)
(* holds of every node not on a cycle.  No session makes a dead node live, *)
(* because the parent of a live record was live or is new.                 *)
(***************************************************************************)
EXTENDS MCPfsWriter, DataInduction, FiniteSetTheorems

-----------------------------------------------------------------------------
(* Sessions of records, and what a node view makes of one more.            *)

IsRecord(r) ==
    /\ r = [id |-> r.id, kind |-> r.kind, tomb |-> r.tomb, parent |-> r.parent,
            name |-> r.name, content |-> r.content]
    /\ r.id \in Nat /\ r.kind \in {Dir, File} /\ r.tomb \in BOOLEAN /\ r.parent \in Nat
    /\ WellFormed(r)

IsSession(recs) ==
    /\ IsFiniteSet(recs)
    /\ \A r \in recs : IsRecord(r)
    /\ \A r, q \in recs : q.id = r.id => q = r

IsLog(l, R) == l \in Seq(SUBSET R) /\ \A n \in 1..Len(l) : IsSession(l[n])

Ids(recs) == {r.id : r \in recs}

\* The record of a node in a session.
The(recs, id) == CHOOSE r \in recs : r.id = id

\* The versions of a node after the n-th session, x being those before it.
Latest(S, n, x) == IF S = {} THEN x ELSE <<[seq |-> n, rec |-> CHOOSE r \in S : TRUE]>> \o x
Recorded(l, id, n, x) == Latest(Of(l, id, n), n, x)

Recalls(h, l, id, n) == h[0] = <<>> /\ \A k \in 1..n : h[k] = Recorded(l, id, k, h[k - 1])

Recalled(h, l, id, R) ==
    /\ h \in [0..Len(l) -> Seq([seq : Nat, rec : R])]
    /\ Recalls(h, l, id, Len(l)) /\ History(l, id) = h[Len(l)]

LEMMA HistoryIs ==
    ASSUME NEW R, NEW l \in Seq(SUBSET R), NEW id
    PROVE  \E h : Recalled(h, l, id, R)
<1> DEFINE D == Seq([seq : Nat, rec : R])  n == Len(l)
           F == [p \in (1..n) \X D |-> Recorded(l, id, p[1], p[2])]
           h == CHOOSE h : h = [k \in 0..n |-> IF k = 0 THEN <<>>
                                               ELSE IF Of(l, id, k) = {} THEN h[k - 1]
                                               ELSE <<[seq |-> k, rec |-> CHOOSE r \in Of(l, id, k) : TRUE]>>
                                                        \o h[k - 1]]
<1>1. n \in Nat /\ <<>> \in D /\ n \in 0..n /\ 0 \in 0..n
  OBVIOUS
<1>2. ASSUME NEW i \in 1..n, NEW x \in D
      PROVE  Recorded(l, id, i, x) \in D
  <2>1. CASE Of(l, id, i) = {}
    BY <2>1 DEF Recorded, Latest
  <2>2. CASE Of(l, id, i) # {}
    <3> DEFINE q == CHOOSE r \in Of(l, id, i) : TRUE
    <3>1. q \in Of(l, id, i)
      BY <2>2
    <3>2. l[i] \in SUBSET R
      OBVIOUS
    <3>3. q \in R
      BY <3>1, <3>2 DEF Of
    <3> HIDE DEF q
    <3>4. <<[seq |-> i, rec |-> q]>> \in D
      BY <3>3
    <3>5. <<[seq |-> i, rec |-> q]>> \o x \in D
      BY <3>4
    <3> QED
      BY <2>2, <3>5 DEF Recorded, Latest, q
  <2> QED
    BY <2>1, <2>2
<1>3. \A i \in 1..n, x \in D : F[<<i, x>>] = Recorded(l, id, i, x)
  OBVIOUS
<1>4. Steps(F, n, D)
  <2> HIDE DEF D
  <2>1. \A p \in (1..n) \X D : Recorded(l, id, p[1], p[2]) \in D
    BY <1>2
  <2>2. F \in [(1..n) \X D -> D]
    BY <2>1
  <2> QED
    BY <2>2, Zenon DEF Steps
<1>5. History(l, id) = h[n]
  BY Zenon DEF History
<1>5a. h = CHOOSE f : f = [k \in 0..n |-> IF k = 0 THEN <<>> ELSE Recorded(l, id, k, f[k - 1])]
  BY Zenon DEF Recorded, Latest
<1> HIDE DEF F, D, h, n
<1>6. PICK g : Solution(g, n, D, <<>>, F)
  BY <1>1, <1>4, Recursion
<1>7. g \in [0..n -> D] /\ g[0] = <<>> /\ \A i \in 1..n : g[i] = F[<<i, g[i - 1]>>]
  BY <1>6, Zenon DEF Solution
<1>8. ASSUME NEW i \in 1..n
      PROVE  g[i] = Recorded(l, id, i, g[i - 1])
  <2>1. i - 1 \in 0..n
    BY <1>1
  <2>2. g[i - 1] \in D
    BY <2>1, <1>7
  <2> QED
    BY <2>2, <1>3, <1>7, Zenon
<1>9. ASSUME NEW k \in 0..n
      PROVE  g[k] = IF k = 0 THEN <<>> ELSE Recorded(l, id, k, g[k - 1])
  <2>1. k = 0 \/ k \in 1..n
    BY <1>1
  <2>2. CASE k = 0
    BY <2>2, <1>7, Zenon
  <2>3. CASE k # 0
    BY <2>1, <2>3, <1>8, Zenon
  <2> QED
    BY <2>2, <2>3
<1>10. g = [k \in 0..n |-> IF k = 0 THEN <<>> ELSE Recorded(l, id, k, g[k - 1])]
  BY <1>7, <1>9, Zenon
<1>11. h = [k \in 0..n |-> IF k = 0 THEN <<>> ELSE Recorded(l, id, k, h[k - 1])]
  BY <1>10, <1>5a, Zenon
<1>12. h[0] = <<>>
  BY <1>1, <1>11, Zenon
<1>13. ASSUME NEW i \in 1..n
       PROVE  h[i] = Recorded(l, id, i, h[i - 1])
  <2>1. i \in 0..n /\ i # 0
    BY <1>1
  <2> QED
    BY <1>11, <2>1, Zenon
<1> DEFINE S == {k \in Nat : h[k] \in D}
<1>15. 0 \in S
  BY <1>1, <1>12
<1>16. ASSUME NEW k \in 0..(n - 1), k \in S
       PROVE  k + 1 \in S
  <2>1. k + 1 \in 1..n /\ (k + 1) - 1 = k /\ k + 1 \in Nat
    BY <1>1
  <2>2. h[k + 1] = Recorded(l, id, k + 1, h[k])
    BY <2>1, <1>13
  <2>3. h[k] \in D
    BY <1>16
  <2>4. h[k + 1] \in D
    BY <2>1, <2>2, <2>3, <1>2, Zenon
  <2> QED
    BY <2>1, <2>4
<1> HIDE DEF S
<1>17. 0..n \subseteq S
  BY <1>1, <1>15, <1>16, UpTo
<1>18. \A k \in 0..n : h[k] \in D
  BY <1>17 DEF S
<1>19. h \in [0..n -> D]
  BY <1>11, <1>18, Zenon
<1>20. Recalled(h, l, id, R)
  BY <1>5, <1>12, <1>13, <1>19, Zenon DEF Recalled, Recalls, n, D
<1> QED
  BY <1>20

\* A session is appended.
Follows(l, recs, m) == m = Append(l, recs)

LEMMA HistoryNext ==
    ASSUME NEW R, NEW l \in Seq(SUBSET R), NEW recs \in SUBSET R, NEW id,
           NEW m, Follows(l, recs, m)
    PROVE  History(m, id) = Recorded(m, id, Len(m), History(l, id))
<1>0. m = Append(l, recs)
  BY DEF Follows
<1>1. /\ Len(l) \in Nat /\ Len(m) = Len(l) + 1 /\ m \in Seq(SUBSET R) /\ m[Len(m)] = recs
      /\ \A k \in 1..Len(l) : m[k] = l[k]
  BY <1>0
<1>2. PICK g : Recalled(g, l, id, R)
  BY HistoryIs
<1>3. PICK h : Recalled(h, m, id, R)
  BY <1>1, HistoryIs
<1>4. /\ g[0] = <<>> /\ \A k \in 1..Len(l) : g[k] = Recorded(l, id, k, g[k - 1])
      /\ h[0] = <<>> /\ \A k \in 1..Len(m) : h[k] = Recorded(m, id, k, h[k - 1])
      /\ History(l, id) = g[Len(l)] /\ History(m, id) = h[Len(m)]
  BY <1>2, <1>3 DEF Recalled, Recalls
<1>5a. \A k \in 1..Len(l) : Of(m, id, k) = Of(l, id, k)
  BY <1>1 DEF Of
<1>5. ASSUME NEW k \in 1..Len(l), NEW x
      PROVE  Recorded(m, id, k, x) = Recorded(l, id, k, x)
  <2>1. Of(m, id, k) = Of(l, id, k)
    BY <1>5a
  <2> QED
    BY ONLY <2>1, Zenon DEF Recorded
<1> DEFINE S == {k \in Nat : h[k] = g[k]}
<1>6. 0 \in S
  BY <1>4
<1>7. ASSUME NEW k \in 0..(Len(l) - 1), k \in S
      PROVE  k + 1 \in S
  <2>1. k + 1 \in 1..Len(l) /\ k + 1 \in 1..Len(m) /\ (k + 1) - 1 = k /\ k + 1 \in Nat
    BY <1>1
  <2>2. h[k + 1] = Recorded(m, id, k + 1, h[k]) /\ g[k + 1] = Recorded(l, id, k + 1, g[k])
    BY <2>1, <1>4
  <2>3. h[k] = g[k]
    BY <1>7
  <2>4. h[k + 1] = g[k + 1]
    BY <2>1, <2>2, <2>3, <1>5, Zenon
  <2> QED
    BY <2>1, <2>4
<1> HIDE DEF S
<1>8. 0..Len(l) \subseteq S
  BY <1>1, <1>6, <1>7, UpTo
<1>9. h[Len(l)] = g[Len(l)]
  BY <1>1, <1>8 DEF S
<1>10. Len(m) \in 1..Len(m) /\ Len(m) - 1 = Len(l)
  BY <1>1
<1>11. History(m, id) = Recorded(m, id, Len(m), History(l, id))
  BY <1>4, <1>9, <1>10
<1> QED
  BY <1>11

LEMMA HistoryNone ==
    ASSUME NEW R, NEW l \in Seq(SUBSET R), NEW id, \A k \in 1..Len(l) : Of(l, id, k) = {}
    PROVE  History(l, id) = <<>>
<1>1. PICK h : Recalled(h, l, id, R)
  BY HistoryIs
<1>2. /\ h[0] = <<>> /\ \A k \in 1..Len(l) : h[k] = Recorded(l, id, k, h[k - 1])
      /\ History(l, id) = h[Len(l)] /\ Len(l) \in Nat
  BY <1>1 DEF Recalled, Recalls
<1> DEFINE S == {k \in Nat : h[k] = <<>>}
<1>3. 0 \in S
  BY <1>2
<1>4. ASSUME NEW k \in 0..(Len(l) - 1), k \in S
      PROVE  k + 1 \in S
  <2>1. k + 1 \in 1..Len(l) /\ (k + 1) - 1 = k /\ k + 1 \in Nat
    BY <1>2
  <2>2. h[k + 1] = Recorded(l, id, k + 1, h[k]) /\ h[k] = <<>>
    BY <2>1, <1>2, <1>4
  <2>3. h[k + 1] = <<>>
    BY <2>1, <2>2 DEF Recorded, Latest
  <2> QED
    BY <2>1, <2>3
<1> HIDE DEF S
<1>5. 0..Len(l) \subseteq S
  BY <1>2, <1>3, <1>4, UpTo
<1> QED
  BY <1>2, <1>5 DEF S

\* w is what a view v becomes with the records of session s.
Earlier(v, id) == IF id \in DOMAIN v THEN v[id] ELSE <<>>
Grown(v, recs, s, w) ==
    /\ DOMAIN w = DOMAIN v \cup Ids(recs)
    /\ \A id \in Ids(recs) : w[id] = <<[seq |-> s, rec |-> The(recs, id)]>> \o Earlier(v, id)
    /\ \A id \in DOMAIN v \ Ids(recs) : w[id] = v[id]

LEMMA TheIs ==
    ASSUME NEW recs, IsSession(recs), NEW id \in Ids(recs)
    PROVE  /\ The(recs, id) \in recs /\ The(recs, id).id = id /\ IsRecord(The(recs, id))
           /\ \A r \in recs : r.id = id => r = The(recs, id)
<1>1. \E r \in recs : r.id = id
  BY DEF Ids
<1>2. The(recs, id) \in recs /\ The(recs, id).id = id
  BY <1>1, Zenon DEF The
<1> QED
  BY <1>2 DEF IsSession

LEMMA ViewNext ==
    ASSUME NEW R, NEW l, IsLog(l, R), NEW recs \in SUBSET R, IsSession(recs),
           NEW m, Follows(l, recs, m)
    PROVE  Grown(NodeView(l), recs, Len(m), NodeView(m)) /\ IsLog(m, R)
<1>0. l \in Seq(SUBSET R)
  BY DEF IsLog
<1>0a. m = Append(l, recs)
  BY DEF Follows
<1>1. /\ Len(l) \in Nat /\ Len(m) = Len(l) + 1 /\ m \in Seq(SUBSET R) /\ m[Len(m)] = recs
      /\ \A k \in 1..Len(l) : m[k] = l[k]
      /\ DOMAIN l = 1..Len(l) /\ DOMAIN m = 1..Len(m)
  BY <1>0, <1>0a
<1>2. IsLog(m, R)
  <2>1. ASSUME NEW n \in 1..Len(m)
        PROVE  IsSession(m[n])
    BY <1>1 DEF IsLog
  <2> QED
    BY <1>1, <2>1 DEF IsLog
<1>3. Records(m) = Records(l) \cup recs
  <2>1. ASSUME NEW x
        PROVE  x \in Records(m) <=> x \in Records(l) \/ x \in recs
    <3>1. x \in Records(m) <=> \E n \in 1..Len(m) : x \in m[n]
      BY <1>1 DEF Records
    <3>2. x \in Records(l) <=> \E n \in 1..Len(l) : x \in l[n]
      BY <1>1 DEF Records
    <3>3. \A n : n \in 1..Len(m) <=> n \in 1..Len(l) \/ n = Len(m)
      BY <1>1
    <3> QED
      BY <3>1, <3>2, <3>3, <1>1
  <2> QED
    BY <2>1
<1>4. /\ DOMAIN NodeView(m) = DOMAIN NodeView(l) \cup Ids(recs)
      /\ DOMAIN NodeView(l) = {r.id : r \in Records(l)}
      /\ \A id \in DOMAIN NodeView(m) : NodeView(m)[id] = History(m, id)
      /\ \A id \in DOMAIN NodeView(l) : NodeView(l)[id] = History(l, id)
  BY <1>3 DEF NodeView, Ids
<1>5. ASSUME NEW id
      PROVE  History(l, id) = Earlier(NodeView(l), id)
  <2>1. CASE id \in DOMAIN NodeView(l)
    BY <2>1, <1>4 DEF Earlier
  <2>2. CASE id \notin DOMAIN NodeView(l)
    <3>1. \A k \in 1..Len(l) : Of(l, id, k) = {}
      BY <2>2, <1>1, <1>4 DEF Of, Records
    <3>2. History(l, id) = <<>>
      BY <3>1, <1>0, HistoryNone
    <3> QED
      BY <2>2, <3>2 DEF Earlier
  <2> QED
    BY <2>1, <2>2
<1>6. ASSUME NEW id
      PROVE  History(m, id) = Recorded(m, id, Len(m), History(l, id))
  BY <1>0, HistoryNext
<1>7. ASSUME NEW id \in Ids(recs)
      PROVE  NodeView(m)[id] = <<[seq |-> Len(m), rec |-> The(recs, id)]>> \o Earlier(NodeView(l), id)
  <2>1. The(recs, id) \in recs /\ The(recs, id).id = id /\ \A r \in recs : r.id = id => r = The(recs, id)
    BY TheIs
  <2>2. Of(m, id, Len(m)) = {The(recs, id)}
    BY <2>1, <1>1 DEF Of
  <2>3. (CHOOSE r \in Of(m, id, Len(m)) : TRUE) = The(recs, id)
    BY <2>2
  <2>4. Of(m, id, Len(m)) # {}
    BY <2>2
  <2>5. Recorded(m, id, Len(m), History(l, id))
            = <<[seq |-> Len(m), rec |-> The(recs, id)]>> \o History(l, id)
    BY <2>3, <2>4, Zenon DEF Recorded, Latest
  <2>6. id \in DOMAIN NodeView(m)
    BY <1>4
  <2> QED
    BY <2>5, <2>6, <1>4, <1>5, <1>6, Zenon
<1>8. ASSUME NEW id \in DOMAIN NodeView(l) \ Ids(recs)
      PROVE  NodeView(m)[id] = NodeView(l)[id]
  <2>1. Of(m, id, Len(m)) = {}
    BY <1>1 DEF Of, Ids
  <2>2. Recorded(m, id, Len(m), History(l, id)) = History(l, id)
    BY <2>1, Zenon DEF Recorded, Latest
  <2> QED
    BY <2>2, <1>4, <1>6, Zenon
<1>9. Grown(NodeView(l), recs, Len(m), NodeView(m))
  BY <1>4, <1>7, <1>8, Zenon DEF Grown
<1> QED
  BY <1>2, <1>9

-----------------------------------------------------------------------------
(* The way up from a node.                                                 *)

Typed(v, R) == \A id \in DOMAIN v : v[id] \in Seq([seq : Nat, rec : R])

\* A view of nodes whose parents are there.
Sound(v) ==
    /\ IsFiniteSet(DOMAIN v) /\ DOMAIN v \in SUBSET Nat
    /\ \A id \in DOMAIN v :
        /\ v[id][1].seq \in Nat
        /\ IsRecord(Current(v, id)) /\ Current(v, id).id = id
        /\ Current(v, id).parent \in DOMAIN v \cup {Root}
    /\ Root \in DOMAIN v => Current(v, Root).kind = Dir /\ ~Current(v, Root).tomb

Up(v, x) == IF Ends(v, x) THEN x ELSE Current(v, x).parent
Climbs(v, e, x, n) == e \in [0..n -> Nat] /\ e[0] = x /\ \A k \in 1..n : e[k] = Up(v, e[k - 1])

LEMMA UpType ==
    ASSUME NEW v, Sound(v), NEW x \in Nat
    PROVE  Up(v, x) \in Nat
<1>1. CASE Ends(v, x)
  BY <1>1 DEF Up
<1>2. CASE ~Ends(v, x)
  <2>1. x \in DOMAIN v
    BY <1>2 DEF Ends
  <2>2. Current(v, x).parent \in Nat
    BY <2>1 DEF Sound, IsRecord
  <2> QED
    BY <1>2, <2>2 DEF Up
<1> QED
  BY <1>1, <1>2

LEMMA ClimbExists ==
    ASSUME NEW v, Sound(v), NEW x \in Nat, NEW n \in Nat
    PROVE  \E e : Climbs(v, e, x, n)
<1> DEFINE F == [p \in (1..n) \X Nat |-> Up(v, p[2])]
<1>1. \A p \in (1..n) \X Nat : Up(v, p[2]) \in Nat
  BY UpType
<1>2. F \in [(1..n) \X Nat -> Nat]
  BY <1>1
<1>3. \A i \in 1..n, y \in Nat : F[<<i, y>>] = Up(v, y)
  OBVIOUS
<1> HIDE DEF F
<1>4. Steps(F, n, Nat)
  BY <1>2, Zenon DEF Steps
<1>5. PICK g : Solution(g, n, Nat, x, F)
  BY <1>4, Recursion
<1>6. g \in [0..n -> Nat] /\ g[0] = x /\ \A i \in 1..n : g[i] = F[<<i, g[i - 1]>>]
  BY <1>5, Zenon DEF Solution
<1>7. ASSUME NEW i \in 1..n
      PROVE  g[i] = Up(v, g[i - 1])
  <2>1. i - 1 \in 0..n
    OBVIOUS
  <2>2. g[i - 1] \in Nat
    BY <2>1, <1>6
  <2> QED
    BY <2>2, <1>3, <1>6, Zenon
<1>8. Climbs(v, g, x, n)
  BY <1>6, <1>7, Zenon DEF Climbs
<1> QED
  BY <1>8

\* What the walk says of the way e up from a node, N being the number of nodes.
Arrives(v, e, N) ==
    /\ e[N] = Root /\ (Root \in DOMAIN v => ~Current(v, Root).tomb)
    /\ \A k \in 1..N : IsDir(v, e[k])
Says(v, e, N) == IF ~Ends(v, e[N]) THEN "cycle" ELSE IF Arrives(v, e, N) THEN "live" ELSE "dead"

LEMMA FateIs ==
    ASSUME NEW v, Sound(v), NEW x \in Nat, NEW N, N = Cardinality(DOMAIN v),
           NEW n \in Nat, N <= n, NEW e, Climbs(v, e, x, n)
    PROVE  Fate(v, x) = Says(v, e, N) /\ N \in Nat
<1> DEFINE h == CHOOSE h : h = [k \in 0..N |-> IF k = 0 THEN x
                                               ELSE IF Ends(v, h[k - 1]) THEN h[k - 1]
                                               ELSE Current(v, h[k - 1]).parent]
           g == [k \in 0..N |-> e[k]]
<1>1. N \in Nat /\ N \in 0..N /\ 0 \in 0..N /\ \A k \in 0..N : k \in 0..n
  BY FS_CardinalityType DEF Sound
<1>2. e[0] = x /\ \A k \in 1..n : e[k] = Up(v, e[k - 1])
  BY DEF Climbs
<1>3. Fate(v, x) = IF ~Ends(v, h[N]) THEN "cycle"
                   ELSE IF /\ h[N] = Root /\ (Root \in DOMAIN v => ~Current(v, Root).tomb)
                           /\ \A k \in 1..N : IsDir(v, h[k])
                   THEN "live" ELSE "dead"
  BY Zenon DEF Fate
<1>4. h = CHOOSE f : f = [k \in 0..N |-> IF k = 0 THEN x ELSE Up(v, f[k - 1])]
  BY Zenon DEF Up
<1>5. ASSUME NEW k \in 0..N
      PROVE  g[k] = IF k = 0 THEN x ELSE Up(v, g[k - 1])
  <2>1. CASE k = 0
    BY <2>1, <1>2
  <2>2. CASE k # 0
    <3>1. k \in 1..n /\ k - 1 \in 0..N
      BY <1>1, <2>2
    <3> QED
      BY <3>1, <2>2, <1>2
  <2> QED
    BY <2>1, <2>2
<1> HIDE DEF h
<1>6. g = [k \in 0..N |-> IF k = 0 THEN x ELSE Up(v, g[k - 1])]
  <2>1. \A k \in 0..N : g[k] = IF k = 0 THEN x ELSE Up(v, g[k - 1])
    BY <1>5
  <2>2. g = [k \in 0..N |-> g[k]]
    BY Zenon
  <2> HIDE DEF g
  <2> QED
    BY <2>1, <2>2, Zenon
<1> HIDE DEF g
<1>7. h = [k \in 0..N |-> IF k = 0 THEN x ELSE Up(v, h[k - 1])]
  BY <1>4, <1>6, Zenon
<1> DEFINE S == {k \in Nat : h[k] = e[k]}
<1>8. 0 \in S
  <2>1. h[0] = x
    BY <1>1, <1>7, Zenon
  <2> QED
    BY <2>1, <1>2
<1>9. ASSUME NEW k \in 0..(N - 1), k \in S
      PROVE  k + 1 \in S
  <2>1. k + 1 \in 0..N /\ k + 1 # 0 /\ (k + 1) - 1 = k /\ k + 1 \in Nat /\ k + 1 \in 1..n
    BY <1>1
  <2>2. h[k + 1] = Up(v, h[k])
    <3>1. h[k + 1] = Up(v, h[(k + 1) - 1])
      BY <2>1, <1>7, Zenon
    <3> QED
      BY <3>1, <2>1
  <2>3. e[k + 1] = Up(v, e[k])
    BY <2>1, <1>2
  <2>4. h[k] = e[k]
    BY <1>9
  <2> QED
    BY <2>1, <2>2, <2>3, <2>4
<1> HIDE DEF S
<1>10. 0..N \subseteq S
  BY <1>1, <1>8, <1>9, UpTo
<1>11. \A k \in 0..N : h[k] = e[k]
  BY <1>10 DEF S
<1>12. h[N] = e[N] /\ \A k \in 1..N : h[k] = e[k]
  BY <1>1, <1>11
<1>13. (\A k \in 1..N : IsDir(v, h[k])) <=> (\A k \in 1..N : IsDir(v, e[k]))
  BY <1>12, Zenon
<1> QED
  BY <1>1, <1>3, <1>12, <1>13, Zenon DEF Says, Arrives

LEMMA EndsStay ==
    ASSUME NEW v, NEW e, NEW x, NEW n \in Nat, Climbs(v, e, x, n), NEW i \in 0..n, Ends(v, e[i])
    PROVE  \A j \in i..n : e[j] = e[i]
<1> DEFINE S == {m \in Nat : i + m <= n => e[i + m] = e[i]}
<1>1. 0 \in S
  OBVIOUS
<1>2. ASSUME NEW m \in S
      PROVE  m + 1 \in S
  <2>1. SUFFICES ASSUME i + (m + 1) <= n
                 PROVE  e[i + (m + 1)] = e[i]
    OBVIOUS
  <2>2. e[i + m] = e[i]
    BY <2>1
  <2>3. i + (m + 1) \in 1..n /\ (i + (m + 1)) - 1 = i + m
    BY <2>1
  <2>4. e[i + (m + 1)] = Up(v, e[i + m])
    BY <2>3 DEF Climbs
  <2> QED
    BY <2>2, <2>4 DEF Up
<1> HIDE DEF S
<1>3. S = Nat
  <2>1. S \in SUBSET Nat
    BY DEF S
  <2> QED
    BY <1>1, <1>2, <2>1, SetInduction
<1> TAKE j \in i..n
<1>4. j - i \in S /\ i + (j - i) = j
  BY <1>3
<1> QED
  BY <1>4 DEF S

\* A way up that meets a node again goes on as it did the first time.
LEMMA MeetsAgain ==
    ASSUME NEW v, NEW e, NEW x, NEW n \in Nat, Climbs(v, e, x, n),
           NEW i \in 0..n, NEW j \in i..n, e[i] = e[j]
    PROVE  \A m \in 0..(n - j) : e[i + m] = e[j + m]
<1> DEFINE S == {m \in Nat : j + m <= n => e[i + m] = e[j + m]}
<1>1. 0 \in S
  OBVIOUS
<1>2. ASSUME NEW m \in S
      PROVE  m + 1 \in S
  <2>1. SUFFICES ASSUME j + (m + 1) <= n
                 PROVE  e[i + (m + 1)] = e[j + (m + 1)]
    OBVIOUS
  <2>2. e[i + m] = e[j + m]
    BY <2>1
  <2>3. i + (m + 1) \in 1..n /\ (i + (m + 1)) - 1 = i + m
    BY <2>1
  <2>4. j + (m + 1) \in 1..n /\ (j + (m + 1)) - 1 = j + m
    BY <2>1
  <2>5. e[i + (m + 1)] = Up(v, e[i + m])
    BY <2>3 DEF Climbs
  <2>6. e[j + (m + 1)] = Up(v, e[j + m])
    BY <2>4 DEF Climbs
  <2> QED
    BY <2>2, <2>5, <2>6
<1> HIDE DEF S
<1>3. S = Nat
  <2>1. S \in SUBSET Nat
    BY DEF S
  <2> QED
    BY <1>1, <1>2, <2>1, SetInduction
<1> TAKE m \in 0..(n - j)
<1>4. m \in S /\ j + m <= n
  BY <1>3
<1> QED
  BY <1>4 DEF S

\* There are not so many nodes: a way up that ends has ended after N steps.
LEMMA Settled ==
    ASSUME NEW v, Sound(v), NEW N, N = Cardinality(DOMAIN v), NEW x, NEW n, n = N + 1,
           NEW e, Climbs(v, e, x, n), Ends(v, e[n])
    PROVE  Ends(v, e[N]) /\ e[n] = e[N]
<1>1. N \in Nat /\ IsFiniteSet(DOMAIN v)
  BY FS_CardinalityType DEF Sound
<1>2. ASSUME ~Ends(v, e[N])
      PROVE  FALSE
  <2> DEFINE T == 0..N
             f == [k \in T |-> e[k]]
  <2>1. ASSUME NEW k \in T
        PROVE  e[k] \in DOMAIN v
    <3>1. ~Ends(v, e[k])
      <4>1. SUFFICES ASSUME Ends(v, e[k])
                     PROVE  FALSE
        OBVIOUS
      <4>2. k \in 0..n /\ n \in Nat /\ N \in k..n
        BY <1>1
      <4>3. e[N] = e[k]
        BY <4>1, <4>2, EndsStay
      <4> QED
        BY <4>1, <4>3, <1>2
    <3> QED
      BY <3>1 DEF Ends
  <2>2. f \in [T -> DOMAIN v]
    BY <2>1
  <2>3. IsFiniteSet(T) /\ Cardinality(DOMAIN v) < Cardinality(T)
    <3>1. 0 \in Int /\ N \in Int /\ ~(0 > N) /\ N - 0 + 1 = N + 1
      BY <1>1
    <3>2. IsFiniteSet(T) /\ Cardinality(T) = N + 1
      BY <3>1, FS_Interval
    <3> QED
      BY <3>2, <1>1
  <2> HIDE DEF T, f
  <2>4. \E i, j \in T : i # j /\ f[i] = f[j]
    BY <1>1, <2>2, <2>3, FS_PigeonHole
  <2>5. \E i, j \in 0..N : i < j /\ e[i] = e[j]
    <3>1. PICK i \in T, j \in T : i # j /\ f[i] = f[j]
      BY <2>4
    <3>2. i \in 0..N /\ j \in 0..N /\ e[i] = e[j] /\ i # j
      BY <3>1 DEF T, f
    <3>3. i < j \/ j < i
      BY <3>2, <1>1
    <3> QED
      BY <3>2, <3>3
  <2>6. PICK i \in 0..N, j \in 0..N : i < j /\ e[i] = e[j]
    BY <2>5
  <2>7. n \in Nat /\ i \in 0..n /\ j \in i..n /\ n - j \in 0..(n - j)
    BY <1>1, <2>6
  <2>8. \A m \in 0..(n - j) : e[i + m] = e[j + m]
    BY <2>6, <2>7, MeetsAgain
  <2>9. e[i + (n - j)] = e[j + (n - j)]
    BY <2>7, <2>8
  <2>10. i + (n - j) \in 0..n /\ N \in (i + (n - j))..n /\ j + (n - j) = n
    BY <1>1, <2>6, <2>7
  <2>11. Ends(v, e[i + (n - j)])
    BY <2>9, <2>10
  <2>12. e[N] = e[i + (n - j)]
    BY <2>7, <2>10, <2>11, EndsStay
  <2> QED
    BY <1>2, <2>11, <2>12
<1>3. N \in 0..n /\ n \in Nat /\ n \in N..n
  BY <1>1
<1>4. Ends(v, e[N])
  BY <1>2
<1> QED
  BY <1>3, <1>4, EndsStay

LEMMA FateOfEnd ==
    ASSUME NEW v, Sound(v), NEW x \in Nat, Ends(v, x)
    PROVE  Fate(v, x) = IF x = Root THEN "live" ELSE "dead"
<1> DEFINE N == Cardinality(DOMAIN v)
<1>1. N \in Nat /\ 0 \in 0..N /\ N \in 0..N
  BY FS_CardinalityType DEF Sound
<1> HIDE DEF N
<1>2. PICK e : Climbs(v, e, x, N)
  BY <1>1, ClimbExists
<1>3. e[0] = x
  BY <1>2 DEF Climbs
<1>4. \A j \in 0..N : e[j] = x
  <2>1. Ends(v, e[0])
    BY <1>3
  <2>2. \A j \in 0..N : e[j] = e[0]
    BY <1>1, <1>2, <2>1, EndsStay
  <2> QED
    BY <1>3, <2>2
<1>5. Fate(v, x) = Says(v, e, N)
  BY <1>1, <1>2, FateIs DEF N
<1>6. e[N] = x /\ \A k \in 1..N : e[k] = x
  BY <1>1, <1>4
<1>7. Arrives(v, e, N) <=> x = Root
  <2>1. CASE x = Root
    <3>1. \A k \in 1..N : IsDir(v, e[k])
      BY <1>6, <2>1 DEF IsDir
    <3> QED
      BY <2>1, <3>1, <1>6 DEF Arrives, Sound
  <2>2. CASE x # Root
    BY <2>2, <1>6 DEF Arrives
  <2> QED
    BY <2>1, <2>2
<1> QED
  BY <1>5, <1>6, <1>7 DEF Says

LEMMA FateOfChild ==
    ASSUME NEW v, Sound(v), NEW x \in Nat, ~Ends(v, x), NEW p, p = Current(v, x).parent
    PROVE  /\ p \in Nat /\ p \in DOMAIN v \cup {Root}
           /\ Fate(v, x) = "cycle" <=> Fate(v, p) = "cycle"
           /\ Fate(v, x) = "live" <=> Fate(v, p) = "live" /\ IsDir(v, p)
<1> DEFINE N == Cardinality(DOMAIN v)  n == N + 1
<1>1. x \in DOMAIN v
  BY DEF Ends
<1>2. p \in Nat /\ p \in DOMAIN v \cup {Root}
  BY <1>1 DEF Sound, IsRecord
<1>3. N \in Nat /\ N # 0 /\ n \in Nat /\ N <= n
  BY <1>1, FS_CardinalityType, FS_EmptySet DEF Sound
<1>4. PICK e : Climbs(v, e, x, n)
  BY <1>3, ClimbExists
<1> DEFINE d == [k \in 0..N |-> e[k + 1]]
<1>5. e \in [0..n -> Nat] /\ e[0] = x /\ \A k \in 1..n : e[k] = Up(v, e[k - 1])
  BY <1>4 DEF Climbs
<1>6. e[1] = p
  <2>1. 1 \in 1..n /\ 1 - 1 = 0
    BY <1>3
  <2> QED
    BY <2>1, <1>5 DEF Up
<1>7. Climbs(v, d, p, N)
  <2>1. d \in [0..N -> Nat]
    <3>1. \A k \in 0..N : k + 1 \in 0..n
      BY <1>3
    <3> QED
      BY <3>1, <1>5
  <2>2. d[0] = p
    BY <1>3, <1>6
  <2>3. ASSUME NEW k \in 1..N
        PROVE  d[k] = Up(v, d[k - 1])
    <3>1. k \in 0..N /\ k - 1 \in 0..N /\ k + 1 \in 1..n /\ (k + 1) - 1 = k /\ (k - 1) + 1 = k
      BY <1>3
    <3>2. d[k] = e[k + 1] /\ d[k - 1] = e[k]
      BY <3>1
    <3>3. e[k + 1] = Up(v, e[k])
      BY <3>1, <1>5
    <3> QED
      BY <3>2, <3>3
  <2> HIDE DEF d
  <2> QED
    BY <2>1, <2>2, <2>3 DEF Climbs
<1>8. d[N] = e[n] /\ \A k \in 1..N : d[k] = e[k + 1]
  BY <1>3
<1> HIDE DEF d
<1>9. Fate(v, x) = Says(v, e, N)
  <2> HIDE DEF n
  <2> QED
    BY <1>3, <1>4, FateIs
<1>10. Fate(v, p) = Says(v, d, N)
  <2>1. N <= N
    BY <1>3
  <2> HIDE DEF N
  <2> QED
    BY <1>2, <1>3, <1>7, <2>1, FateIs DEF N
<1>11. CASE Ends(v, e[n])
  <2>1. Ends(v, e[N]) /\ e[n] = e[N]
    <3> HIDE DEF N
    <3> QED
      BY <1>4, <1>11, Settled DEF N
  <2>2. (\A k \in 1..N : IsDir(v, e[k])) <=> (\A k \in 1..N : IsDir(v, d[k])) /\ IsDir(v, p)
    <3>1. ASSUME \A k \in 1..N : IsDir(v, e[k])
          PROVE  (\A k \in 1..N : IsDir(v, d[k])) /\ IsDir(v, p)
      <4>1. 1 \in 1..N /\ N \in 1..N
        BY <1>3
      <4>2. ASSUME NEW k \in 1..N
            PROVE  IsDir(v, d[k])
        <5>1. CASE k = N
          <6>1. d[k] = e[N]
            BY <5>1, <1>8, <2>1
          <6>2. IsDir(v, e[N])
            BY <3>1, <4>1
          <6> QED
            BY <6>1, <6>2
        <5>2. CASE k # N
          <6>1. k + 1 \in 1..N
            BY <5>2, <1>3
          <6>2. IsDir(v, e[k + 1])
            BY <3>1, <6>1
          <6> QED
            BY <6>2, <1>8
        <5> QED
          BY <5>1, <5>2
      <4>3. IsDir(v, e[1])
        BY <3>1, <4>1
      <4> QED
        BY <4>2, <4>3, <1>6
    <3>2. ASSUME \A k \in 1..N : IsDir(v, d[k]), IsDir(v, p), NEW k \in 1..N
          PROVE  IsDir(v, e[k])
      <4>1. CASE k = 1
        BY <4>1, <3>2, <1>6
      <4>2. CASE k # 1
        <5>1. k - 1 \in 1..N /\ (k - 1) + 1 = k
          BY <4>2, <1>3
        <5>2. IsDir(v, d[k - 1]) /\ d[k - 1] = e[k]
          BY <5>1, <3>2, <1>8
        <5> QED
          BY <5>2
      <4> QED
        BY <4>1, <4>2
    <3> QED
      BY <3>1, <3>2
  <2>3. d[N] = e[N]
    BY <1>8, <2>1
  <2>4. Arrives(v, e, N) <=> Arrives(v, d, N) /\ IsDir(v, p)
    BY <2>2, <2>3 DEF Arrives
  <2>5. Ends(v, d[N])
    BY <2>1, <2>3
  <2>6. /\ Fate(v, x) = IF Arrives(v, e, N) THEN "live" ELSE "dead"
        /\ Fate(v, p) = IF Arrives(v, d, N) THEN "live" ELSE "dead"
    BY <1>9, <1>10, <2>1, <2>5 DEF Says
  <2> QED
    BY <1>2, <2>4, <2>6
<1>12. CASE ~Ends(v, e[n])
  <2>1. ~Ends(v, e[N])
    <3>1. SUFFICES ASSUME Ends(v, e[N])
                   PROVE  FALSE
      OBVIOUS
    <3>2. N \in 0..n /\ n \in N..n
      BY <1>3
    <3>3. e[n] = e[N]
      <4> HIDE DEF N, n
      <4> QED
        BY <3>1, <3>2, <1>3, <1>4, EndsStay
    <3> QED
      BY <3>1, <3>3, <1>12
  <2>2. ~Ends(v, d[N])
    BY <1>8, <1>12
  <2> QED
    BY <1>2, <1>9, <1>10, <2>1, <2>2 DEF Says
<1> QED
  BY <1>11, <1>12

Grounded(v) == {x \in DOMAIN v \cup {Root} : Fate(v, x) # "cycle"}
Living(v) == {x \in DOMAIN v \cup {Root} : Fate(v, x) = "live"}

\* From the ends of all ways up, down.
LEMMA Downward ==
    ASSUME NEW v, Sound(v), NEW S,
           \A x \in Grounded(v) : Ends(v, x) => x \in S,
           \A x \in Grounded(v) : ~Ends(v, x) /\ Current(v, x).parent \in S => x \in S
    PROVE  Grounded(v) \subseteq S
<1> SUFFICES ASSUME NEW x \in Grounded(v)
             PROVE  x \in S
  OBVIOUS
<1> DEFINE N == Cardinality(DOMAIN v)
<1>1. N \in Nat /\ 0 \in 0..N /\ N \in 0..N /\ N <= N /\ x \in Nat
  <2>1. IsFiniteSet(DOMAIN v) /\ DOMAIN v \in SUBSET Nat
    BY DEF Sound
  <2>2. N \in Nat
    BY <2>1, FS_CardinalityType
  <2>3. x \in Nat
    BY <2>1 DEF Grounded, Root
  <2> QED
    BY <2>2, <2>3
<1> HIDE DEF N
<1>2. PICK e : Climbs(v, e, x, N)
  BY <1>1, ClimbExists
<1>3. e \in [0..N -> Nat] /\ e[0] = x /\ \A k \in 1..N : e[k] = Up(v, e[k - 1])
  BY <1>2 DEF Climbs
<1>4. Ends(v, e[N])
  <2>1. Fate(v, x) = Says(v, e, N)
    BY <1>1, <1>2, FateIs DEF N
  <2> QED
    BY <2>1 DEF Says, Grounded
<1> DEFINE G == {k \in Nat : k <= N => e[k] \in Grounded(v)}
<1>5. 0 \in G
  BY <1>3
<1>6. ASSUME NEW k \in 0..(N - 1), k \in G
      PROVE  k + 1 \in G
  <2>1. k \in 0..N /\ k + 1 \in 1..N /\ (k + 1) - 1 = k /\ k + 1 \in Nat
    BY <1>1
  <2>2. e[k + 1] = Up(v, e[k]) /\ e[k] \in Grounded(v) /\ e[k] \in Nat
    <3>1. e[k] \in Grounded(v)
      BY <1>6, <2>1
    <3>2. e[k + 1] = Up(v, e[(k + 1) - 1])
      BY <1>3, <2>1
    <3> QED
      BY <3>1, <3>2, <1>3, <2>1
  <2>3. CASE Ends(v, e[k])
    BY <2>1, <2>2, <2>3 DEF Up
  <2>4. CASE ~Ends(v, e[k])
    <3>1. e[k + 1] = Current(v, e[k]).parent
      BY <2>2, <2>4 DEF Up
    <3>2. e[k + 1] \in DOMAIN v \cup {Root} /\ (Fate(v, e[k]) = "cycle" <=> Fate(v, e[k + 1]) = "cycle")
      BY <2>2, <2>4, <3>1, FateOfChild
    <3> QED
      BY <2>1, <2>2, <3>2 DEF Grounded
  <2> QED
    BY <2>3, <2>4
<1> HIDE DEF G
<1>7. 0..N \subseteq G
  BY <1>1, <1>5, <1>6, UpTo
<1>8. \A k \in 0..N : e[k] \in Grounded(v)
  BY <1>1, <1>7 DEF G
<1> DEFINE H == {j \in Nat : j <= N => e[N - j] \in S}
<1>9. 0 \in H
  <2>1. N - 0 = N
    BY <1>1
  <2>2. e[N] \in Grounded(v)
    BY <1>1, <1>8
  <2>3. e[N] \in S
    BY <1>4, <2>2
  <2> QED
    BY <2>1, <2>3
<1>10. ASSUME NEW j \in 0..(N - 1), j \in H
       PROVE  j + 1 \in H
  <2> DEFINE k == N - (j + 1)
  <2>1. k \in 0..N /\ N - j = k + 1 /\ k + 1 \in 1..N /\ (k + 1) - 1 = k /\ j + 1 \in Nat /\ j <= N
    BY <1>1
  <2>2. e[k + 1] = Up(v, e[(k + 1) - 1])
    BY <1>3, <2>1
  <2>3. e[k + 1] = Up(v, e[k])
    BY <2>1, <2>2
  <2>4. e[k + 1] \in S
    BY <1>10, <2>1
  <2>5. e[k] \in Grounded(v)
    BY <1>8, <2>1
  <2> HIDE DEF k
  <2>6. e[k] \in S
    BY <2>3, <2>4, <2>5 DEF Up
  <2> QED
    BY <2>1, <2>6 DEF k
<1> HIDE DEF H
<1>11. 0..N \subseteq H
  BY <1>1, <1>9, <1>10, UpTo
<1>12. N \in H /\ N - N = 0
  BY <1>1, <1>11
<1>13. e[0] \in S
  BY <1>1, <1>12 DEF H
<1> QED
  BY <1>3, <1>13

-----------------------------------------------------------------------------
(* What one more session does to the view.                                 *)

New(v, recs) == Ids(recs) \ (DOMAIN v \cup {Root})

\* Sessions are about living nodes and new ones, and put them below such.
Fits(v, recs) ==
    /\ IsSession(recs)
    /\ \A r \in recs :
        /\ r.id # Root
        /\ r.id \in DOMAIN v => r.id \in Living(v) /\ r.kind = Current(v, r.id).kind
        /\ r.parent \in DOMAIN v \cup {Root} \cup Ids(recs)
        /\ ~r.tomb => r.parent \in Living(v) \cup New(v, recs)
        /\ r.content.kind = "delta" => r.id \in DOMAIN v /\ MayDelta(v, r.id)

\* The place of no record is that of another node after the session.
After(v, recs, id) == IF id \in Ids(recs) THEN The(recs, id) ELSE Current(v, id)
SamePlace(q, r) == q.parent = r.parent /\ q.name = r.name
Apart(v, recs) ==
    \A r \in recs : \A o \in (Living(v) \ {Root}) \cup Ids(recs) :
        ~r.tomb /\ ~After(v, recs, o).tomb /\ SamePlace(After(v, recs, o), r) => o = r.id

Siblings(v) ==
    \A x, y \in Living(v) \ {Root} : SamePlace(Current(v, x), Current(v, y)) => x = y

LEMMA LivingIs ==
    ASSUME NEW v, Sound(v), NEW x \in DOMAIN v, x # Root
    PROVE  x \in Living(v) <=>
                /\ ~Current(v, x).tomb /\ Current(v, x).parent # x
                /\ Current(v, x).parent \in Living(v) /\ IsDir(v, Current(v, x).parent)
<1>1. x \in Nat
  BY DEF Sound
<1>2. CASE Ends(v, x)
  <2>1. Fate(v, x) = "dead"
    BY <1>1, <1>2, FateOfEnd
  <2>2. Current(v, x).tomb \/ Current(v, x).parent = x
    BY <1>2 DEF Ends
  <2> QED
    BY <2>1, <2>2 DEF Living
<1>3. CASE ~Ends(v, x)
  <2>1. ~Current(v, x).tomb /\ Current(v, x).parent # x
    BY <1>3 DEF Ends
  <2> DEFINE p == Current(v, x).parent
  <2>2. /\ p \in DOMAIN v \cup {Root}
        /\ Fate(v, x) = "live" <=> Fate(v, p) = "live" /\ IsDir(v, p)
    <3> HIDE DEF p
    <3> QED
      BY <1>1, <1>3, FateOfChild DEF p
  <2> QED
    BY <2>1, <2>2 DEF Living
<1> QED
  BY <1>2, <1>3

LEMMA RootLives ==
    ASSUME NEW v, Sound(v)
    PROVE  Root \in Living(v)
<1>1. Root \in Nat /\ Ends(v, Root)
  BY DEF Ends, Root
<1>2. Fate(v, Root) = "live"
  BY <1>1, FateOfEnd
<1> QED
  BY <1>2 DEF Living

NowIs(v, recs, w) ==
    /\ DOMAIN w = DOMAIN v \cup Ids(recs)
    /\ \A x \in Ids(recs) : Current(w, x) = The(recs, x)
    /\ \A x \in DOMAIN v \ Ids(recs) : Current(w, x) = Current(v, x) /\ w[x] = v[x]

LEMMA GrownTyped ==
    ASSUME NEW R, NEW v, Typed(v, R), NEW recs \in SUBSET R, IsSession(recs),
           NEW s \in Nat, NEW w, Grown(v, recs, s, w)
    PROVE  Typed(w, R) /\ NowIs(v, recs, w) /\ \A x \in Ids(recs) : w[x][1].seq = s
<1>1. /\ DOMAIN w = DOMAIN v \cup Ids(recs)
      /\ \A id \in Ids(recs) : w[id] = <<[seq |-> s, rec |-> The(recs, id)]>> \o Earlier(v, id)
      /\ \A id \in DOMAIN v \ Ids(recs) : w[id] = v[id]
  BY DEF Grown
<1>2. ASSUME NEW x \in Ids(recs)
      PROVE  /\ w[x] \in Seq([seq : Nat, rec : R]) /\ Current(w, x) = The(recs, x)
             /\ w[x][1].seq = s
  <2> DEFINE r == [seq |-> s, rec |-> The(recs, x)]
  <2>1. The(recs, x) \in R
    BY TheIs
  <2>2. r \in [seq : Nat, rec : R] /\ r.rec = The(recs, x) /\ r.seq = s
    BY <2>1
  <2>3. Earlier(v, x) \in Seq([seq : Nat, rec : R])
    <3>1. CASE x \in DOMAIN v
      BY <3>1 DEF Earlier, Typed
    <3>2. CASE x \notin DOMAIN v
      BY <3>2 DEF Earlier
    <3> QED
      BY <3>1, <3>2
  <2> HIDE DEF r
  <2>4. <<r>> \o Earlier(v, x) \in Seq([seq : Nat, rec : R]) /\ (<<r>> \o Earlier(v, x))[1] = r
    BY <2>2, <2>3
  <2>5. w[x] = <<r>> \o Earlier(v, x)
    BY <1>1 DEF r
  <2> QED
    BY <2>2, <2>4, <2>5 DEF Current
<1>3. ASSUME NEW x \in DOMAIN v \ Ids(recs)
      PROVE  w[x] \in Seq([seq : Nat, rec : R]) /\ Current(w, x) = Current(v, x) /\ w[x] = v[x]
  BY <1>1 DEF Typed, Current
<1> QED
  BY <1>1, <1>2, <1>3 DEF Typed, NowIs

LEMMA IdsFinite ==
    ASSUME NEW recs, IsSession(recs)
    PROVE  IsFiniteSet(Ids(recs)) /\ Ids(recs) \in SUBSET Nat
<1> DEFINE f == [r \in recs |-> r.id]
<1>1. f \in Surjection(recs, Ids(recs))
  BY DEF Surjection, Ids
<1>2. IsFiniteSet(recs)
  BY DEF IsSession
<1> HIDE DEF f
<1>3. IsFiniteSet(Ids(recs))
  BY <1>1, <1>2, FS_Surjection
<1> QED
  BY <1>3 DEF Ids, IsSession, IsRecord

LEMMA GrownSound ==
    ASSUME NEW R, NEW v, Typed(v, R), Sound(v), NEW recs \in SUBSET R, Fits(v, recs),
           NEW s \in Nat, NEW w, Grown(v, recs, s, w)
    PROVE  Sound(w) /\ Typed(w, R) /\ NowIs(v, recs, w)
<1>1. IsSession(recs)
  BY DEF Fits
<1>2. Typed(w, R) /\ NowIs(v, recs, w) /\ \A x \in Ids(recs) : w[x][1].seq = s
  BY <1>1, GrownTyped
<1>3. IsFiniteSet(DOMAIN w) /\ DOMAIN w \in SUBSET Nat
  <2>1. IsFiniteSet(Ids(recs)) /\ Ids(recs) \in SUBSET Nat
    BY <1>1, IdsFinite
  <2>2. IsFiniteSet(DOMAIN v) /\ DOMAIN v \in SUBSET Nat
    BY DEF Sound
  <2>3. IsFiniteSet(DOMAIN v \cup Ids(recs))
    BY <2>1, <2>2, FS_Union
  <2> QED
    BY <2>1, <2>2, <2>3, <1>2 DEF NowIs
<1>4. ASSUME NEW x \in Ids(recs)
      PROVE  /\ w[x][1].seq \in Nat
             /\ IsRecord(Current(w, x)) /\ Current(w, x).id = x
             /\ Current(w, x).parent \in DOMAIN w \cup {Root}
             /\ x # Root
  <2>1. /\ The(recs, x) \in recs /\ The(recs, x).id = x /\ IsRecord(The(recs, x))
    BY <1>1, TheIs
  <2>2. The(recs, x).parent \in DOMAIN v \cup {Root} \cup Ids(recs) /\ x # Root
    BY <2>1 DEF Fits
  <2> QED
    BY <2>1, <2>2, <1>2 DEF NowIs
<1>5. ASSUME NEW x \in DOMAIN v \ Ids(recs)
      PROVE  /\ w[x][1].seq \in Nat
             /\ IsRecord(Current(w, x)) /\ Current(w, x).id = x
             /\ Current(w, x).parent \in DOMAIN w \cup {Root}
             /\ Current(w, x) = Current(v, x)
  BY <1>2 DEF NowIs, Sound
<1>6. Root \in DOMAIN w => Current(w, Root).kind = Dir /\ ~Current(w, Root).tomb
  <2>1. SUFFICES ASSUME Root \in DOMAIN w
                 PROVE  Current(w, Root).kind = Dir /\ ~Current(w, Root).tomb
    OBVIOUS
  <2>2. Root \notin Ids(recs)
    BY <1>4
  <2>3. Root \in DOMAIN v \ Ids(recs)
    BY <2>1, <2>2, <1>2 DEF NowIs
  <2> QED
    BY <2>3, <1>5 DEF Sound
<1>7. DOMAIN w = DOMAIN v \cup Ids(recs)
  BY <1>2 DEF NowIs
<1> QED
  BY <1>2, <1>3, <1>4, <1>5, <1>6, <1>7 DEF Sound

LEMMA DirStays ==
    ASSUME NEW v, NEW recs, Fits(v, recs), NEW w, NowIs(v, recs, w),
           NEW x \in DOMAIN v \cup {Root}
    PROVE  IsDir(w, x) <=> IsDir(v, x)
<1>1. CASE x = Root
  BY <1>1 DEF IsDir
<1>2. CASE x # Root /\ x \in Ids(recs)
  <2>1. The(recs, x) \in recs /\ The(recs, x).id = x
    BY <1>2, TheIs DEF Fits
  <2>2. The(recs, x).kind = Current(v, x).kind
    BY <2>1, <1>2 DEF Fits
  <2>3. Current(w, x) = The(recs, x)
    BY <1>2 DEF NowIs
  <2> QED
    BY <2>2, <2>3 DEF IsDir
<1>3. CASE x # Root /\ x \notin Ids(recs)
  BY <1>3 DEF NowIs, IsDir
<1> QED
  BY <1>1, <1>2, <1>3

\* Nothing that was there and not alive is alive now.
LEMMA LivingGrows ==
    ASSUME NEW v, Sound(v), NEW recs, Fits(v, recs), NEW w, NowIs(v, recs, w), Sound(w)
    PROVE  Living(w) \subseteq Living(v) \cup New(v, recs)
<1> DEFINE S == {x \in DOMAIN w \cup {Root} : x \in Living(w) => x \in Living(v) \cup New(v, recs)}
<1>0. DOMAIN w = DOMAIN v \cup Ids(recs)
  BY DEF NowIs
<1>1. ASSUME NEW x \in Grounded(w), Ends(w, x)
      PROVE  x \in S
  <2>1. x \in Nat /\ x \in DOMAIN w \cup {Root}
    BY DEF Grounded, Sound, Root
  <2>2. CASE x = Root
    BY <2>2, RootLives
  <2>3. CASE x # Root
    <3>1. Fate(w, x) = "dead"
      BY <1>1, <2>1, <2>3, FateOfEnd
    <3> QED
      BY <2>1, <3>1 DEF Living
  <2> QED
    BY <2>2, <2>3
<1>2. ASSUME NEW x \in Grounded(w), ~Ends(w, x), Current(w, x).parent \in S
      PROVE  x \in S
  <2>1. x \in DOMAIN w /\ x # Root
    BY <1>2 DEF Ends
  <2>2. SUFFICES ASSUME x \in Living(w), x \notin New(v, recs)
                 PROVE  x \in Living(v)
    BY <2>1
  <2>3. x \in DOMAIN v
    BY <2>1, <2>2, <1>0 DEF New
  <2>4. /\ ~Current(w, x).tomb /\ Current(w, x).parent # x
        /\ Current(w, x).parent \in Living(w) /\ IsDir(w, Current(w, x).parent)
    BY <2>1, <2>2, LivingIs
  <2>5. CASE x \in Ids(recs)
    <3>1. The(recs, x) \in recs /\ The(recs, x).id = x
      BY <2>5, TheIs DEF Fits
    <3> QED
      BY <3>1, <2>3 DEF Fits
  <2>6. CASE x \notin Ids(recs)
    <3> DEFINE p == Current(v, x).parent
    <3>1. Current(w, x) = Current(v, x)
      BY <2>3, <2>6 DEF NowIs
    <3>2. p \in DOMAIN v \cup {Root}
      BY <2>3 DEF Sound
    <3>3. p \in Living(v) \cup New(v, recs)
      BY <1>2, <2>4, <3>1
    <3>4. p \in Living(v)
      BY <3>2, <3>3 DEF New
    <3>5. IsDir(v, p)
      <4>1. IsDir(w, p)
        BY <2>4, <3>1
      <4> HIDE DEF p
      <4> QED
        BY <4>1, <3>2, DirStays
    <3>6. ~Current(v, x).tomb /\ p # x
      BY <2>4, <3>1
    <3> QED
      BY <2>1, <2>3, <3>4, <3>5, <3>6, LivingIs
  <2> QED
    BY <2>5, <2>6
<1> HIDE DEF S
<1>3. Grounded(w) \subseteq S
  BY <1>1, <1>2, Downward
<1> QED
  BY <1>3 DEF S, Living, Grounded

LEMMA SiblingsGrow ==
    ASSUME NEW v, Sound(v), Siblings(v), NEW recs, Fits(v, recs), Apart(v, recs),
           NEW w, NowIs(v, recs, w), Sound(w)
    PROVE  Siblings(w)
<1>1. ASSUME NEW x \in Living(w) \ {Root}
      PROVE  /\ x \in (Living(v) \ {Root}) \cup Ids(recs)
             /\ ~Current(w, x).tomb /\ Current(w, x) = After(v, recs, x)
             /\ x \in Ids(recs) => The(recs, x) \in recs /\ The(recs, x).id = x
             /\ x \notin Ids(recs) => x \in Living(v) \ {Root} /\ Current(w, x) = Current(v, x)
  <2>1. x \in Living(v) \cup New(v, recs)
    BY LivingGrows
  <2>2. x \in DOMAIN w /\ x # Root
    BY DEF Living
  <2>3. ~Current(w, x).tomb
    BY <2>2, LivingIs
  <2>4. x \notin Ids(recs) => x \in Living(v) \ {Root} /\ x \in DOMAIN v
    BY <2>1, <2>2 DEF New, Living
  <2>5. x \in Ids(recs) => The(recs, x) \in recs /\ The(recs, x).id = x
    BY TheIs DEF Fits
  <2> QED
    BY <2>2, <2>3, <2>4, <2>5 DEF NowIs, After
<1>2. SUFFICES ASSUME NEW x \in Living(w) \ {Root}, NEW y \in Living(w) \ {Root},
                      SamePlace(Current(w, x), Current(w, y))
               PROVE  x = y
  BY DEF Siblings
<1>3. CASE y \in Ids(recs)
  <2>1. Current(w, y) = The(recs, y) /\ The(recs, y) \in recs /\ The(recs, y).id = y
    BY <1>1, <1>3 DEF NowIs
  <2>2. x \in (Living(v) \ {Root}) \cup Ids(recs) /\ ~After(v, recs, x).tomb
    BY <1>1
  <2>3. SamePlace(After(v, recs, x), The(recs, y)) /\ ~The(recs, y).tomb
    BY <1>1, <1>2, <2>1
  <2> QED
    BY <2>1, <2>2, <2>3 DEF Apart
<1>4. CASE x \in Ids(recs)
  <2>1. Current(w, x) = The(recs, x) /\ The(recs, x) \in recs /\ The(recs, x).id = x
    BY <1>1, <1>4 DEF NowIs
  <2>2. y \in (Living(v) \ {Root}) \cup Ids(recs) /\ ~After(v, recs, y).tomb
    BY <1>1
  <2>3. SamePlace(After(v, recs, y), The(recs, x)) /\ ~The(recs, x).tomb
    <3>1. SamePlace(Current(w, y), Current(w, x))
      BY <1>2 DEF SamePlace
    <3> QED
      BY <3>1, <1>1, <2>1
  <2> QED
    BY <2>1, <2>2, <2>3 DEF Apart
<1>5. CASE x \notin Ids(recs) /\ y \notin Ids(recs)
  BY <1>1, <1>2, <1>5 DEF Siblings
<1> QED
  BY <1>3, <1>4, <1>5

-----------------------------------------------------------------------------
(* The tree of a view, and paths in it.                                    *)

ChildOf(v, x, p, nm) ==
    x \in Living(v) \ {Root} /\ Current(v, x).parent = p /\ Current(v, x).name = nm

Finds(v, p, nm, c) ==
    /\ \/ c = NoNode /\ \A x : ~ChildOf(v, x, p, nm)
       \/ ChildOf(v, c, p, nm)
    /\ \A x : ChildOf(v, x, p, nm) => c = x

LEMMA ChildIs ==
    ASSUME NEW v, Sound(v), Siblings(v), NEW p, NEW nm
    PROVE  Finds(v, p, nm, LiveChild(BuildTree(v), p, nm))
<1> DEFINE t == BuildTree(v)
           place(x) == <<Current(v, x).parent, Current(v, x).name>>
           L == Living(v) \ {Root}
           at == {x \in L : place(x) = <<p, nm>>}
<1>1. t = [nodes |-> Living(v),
           child |-> [pn \in {place(x) : x \in L} |-> Winner(v, {x \in L : place(x) = pn})]]
  BY Zenon DEF BuildTree, Living
<1>2. t.child = [pn \in {place(x) : x \in L} |-> Winner(v, {x \in L : place(x) = pn})]
  BY <1>1
<1>3. \A x : ChildOf(v, x, p, nm) <=> x \in at
  BY DEF ChildOf
<1>4. CASE at = {}
  <2>1. <<p, nm>> \notin DOMAIN t.child
    BY <1>2, <1>4
  <2>2. LiveChild(t, p, nm) = NoNode
    BY <2>1, Zenon DEF LiveChild
  <2> QED
    BY <2>2, <1>3, <1>4 DEF Finds
<1>5. CASE at # {}
  <2>1. PICK x \in at : TRUE
    BY <1>5
  <2>2. at = {x}
    <3>1. ASSUME NEW y \in at
          PROVE  y = x
      BY <2>1 DEF Siblings, SamePlace
    <3> QED
      BY <2>1, <3>1
  <2>3. <<p, nm>> \in DOMAIN t.child /\ t.child[<<p, nm>>] = Winner(v, at)
    BY <1>2, <2>1
  <2>4. v[x][1].seq \in Nat
    BY <2>1, RootLives DEF Living, Sound
  <2>5. Winner(v, at) = x
    <3> HIDE DEF at
    <3>1. v[x][1].seq >= v[x][1].seq
      BY <2>4
    <3>2. Winner(v, at) \in at
      <4>1. \E y \in at : \A o \in at : v[y][1].seq >= v[o][1].seq
        BY <2>2, <3>1
      <4> QED
        BY <4>1, Zenon DEF Winner
    <3> QED
      BY <2>2, <3>2
  <2>6. LiveChild(t, p, nm) = x
    BY <2>3, <2>5, Zenon DEF LiveChild
  <2>7. \A y : ChildOf(v, y, p, nm) => y = x
    BY <1>3, <2>2
  <2>8. ChildOf(v, x, p, nm)
    BY <1>3, <2>1
  <2> HIDE DEF t
  <2> QED
    BY <2>6, <2>7, <2>8 DEF Finds, t
<1> QED
  BY <1>4, <1>5

NodesOf(v) == Living(v) \cup {NoNode}

LEMMA ChildType ==
    ASSUME NEW v, Sound(v), Siblings(v), NEW p, NEW nm
    PROVE  LiveChild(BuildTree(v), p, nm) \in NodesOf(v) \ {Root}
<1>1. Finds(v, p, nm, LiveChild(BuildTree(v), p, nm))
  BY ChildIs
<1> HIDE DEF Living
<1> QED
  BY <1>1 DEF Finds, ChildOf, NodesOf, NoNode, Root

Walks(v, g, p) ==
    /\ g \in [0..Len(p) -> NodesOf(v)] /\ g[0] = Root
    /\ \A k \in 1..Len(p) : g[k] = LiveChild(BuildTree(v), g[k - 1], p[k])
    /\ Resolve(BuildTree(v), p) = g[Len(p)]

LEMMA ResolveIs ==
    ASSUME NEW v, Sound(v), Siblings(v), NEW N, NEW p \in Seq(N)
    PROVE  \E g : Walks(v, g, p)
<1> DEFINE D == NodesOf(v)  n == Len(p)  t == BuildTree(v)
           F == [q \in (1..n) \X D |-> LiveChild(t, q[2], p[q[1]])]
           h == CHOOSE h : h = [k \in 0..n |-> IF k = 0 THEN Root
                                               ELSE LiveChild(t, h[k - 1], p[k])]
<1>1. n \in Nat /\ Root \in D /\ n \in 0..n /\ 0 \in 0..n
  BY RootLives DEF NodesOf
<1>2. ASSUME NEW x, NEW nm
      PROVE  LiveChild(t, x, nm) \in D
  BY ChildType
<1>3. \A i \in 1..n, x \in D : F[<<i, x>>] = LiveChild(t, x, p[i])
  OBVIOUS
<1>4. Steps(F, n, D)
  <2> HIDE DEF D, t
  <2>1. F \in [(1..n) \X D -> D]
    BY <1>2
  <2> QED
    BY <2>1, Zenon DEF Steps
<1>5. Resolve(t, p) = h[n]
  BY Zenon DEF Resolve
<1> HIDE DEF F, D, h, n, t
<1>6. PICK g : Solution(g, n, D, Root, F)
  BY <1>1, <1>4, Recursion
<1>7. g \in [0..n -> D] /\ g[0] = Root /\ \A i \in 1..n : g[i] = F[<<i, g[i - 1]>>]
  BY <1>6, Zenon DEF Solution
<1>8. ASSUME NEW i \in 1..n
      PROVE  g[i] = LiveChild(t, g[i - 1], p[i])
  <2>1. i - 1 \in 0..n
    BY <1>1
  <2>2. g[i - 1] \in D
    BY <2>1, <1>7
  <2> QED
    BY <2>2, <1>3, <1>7, Zenon
<1>9. ASSUME NEW k \in 0..n
      PROVE  g[k] = IF k = 0 THEN Root ELSE LiveChild(t, g[k - 1], p[k])
  <2>1. k = 0 \/ k \in 1..n
    BY <1>1
  <2>2. CASE k = 0
    BY <2>2, <1>7, Zenon
  <2>3. CASE k # 0
    BY <2>1, <2>3, <1>8, Zenon
  <2> QED
    BY <2>2, <2>3
<1>10. g = [k \in 0..n |-> IF k = 0 THEN Root ELSE LiveChild(t, g[k - 1], p[k])]
  BY <1>7, <1>9, Zenon
<1>11. h = [k \in 0..n |-> IF k = 0 THEN Root ELSE LiveChild(t, h[k - 1], p[k])]
  BY <1>10, Zenon DEF h
<1>12. h[0] = Root
  BY <1>1, <1>11, Zenon
<1>13. ASSUME NEW i \in 1..n
       PROVE  h[i] = LiveChild(t, h[i - 1], p[i])
  <2>1. i \in 0..n /\ i # 0
    BY <1>1
  <2> QED
    BY <1>11, <2>1, Zenon
<1>14. \A k \in 0..n : h[k] \in D
  <2>1. ASSUME NEW k \in 0..n
        PROVE  h[k] \in D
    <3>1. k = 0 \/ k \in 1..n
      BY <1>1
    <3>2. CASE k = 0
      BY <3>2, <1>1, <1>12
    <3>3. CASE k \in 1..n
      BY <3>3, <1>2, <1>13
    <3> QED
      BY <3>1, <3>2, <3>3
  <2> QED
    BY <2>1
<1>15. h \in [0..n -> D]
  BY <1>11, <1>14, Zenon
<1>16. Walks(v, h, p)
  BY <1>5, <1>12, <1>13, <1>15, Zenon DEF Walks, n, D, t
<1> QED
  BY <1>16

LEMMA ResolveType ==
    ASSUME NEW v, Sound(v), Siblings(v), NEW N, NEW p \in Seq(N)
    PROVE  Resolve(BuildTree(v), p) \in NodesOf(v)
<1>1. PICK g : Walks(v, g, p)
  BY ResolveIs
<1>2. Len(p) \in 0..Len(p)
  OBVIOUS
<1> QED
  BY <1>1, <1>2 DEF Walks

LEMMA ResolveNone ==
    ASSUME NEW v, Sound(v), Siblings(v)
    PROVE  Resolve(BuildTree(v), <<>>) = Root
<1>1. <<>> \in Seq({}) /\ Len(<<>>) = 0
  OBVIOUS
<1>2. PICK g : Walks(v, g, <<>>)
  BY <1>1, ResolveIs
<1> QED
  BY <1>1, <1>2 DEF Walks

\* A path but for its last name, and that.
Splits(p, q, nm, N) ==
    /\ q \in Seq(N) /\ nm \in N /\ Len(p) = Len(q) + 1 /\ p[Len(p)] = nm
    /\ \A k \in 1..Len(q) : q[k] = p[k]

LEMMA ResolveStep ==
    ASSUME NEW v, Sound(v), Siblings(v), NEW N, NEW p \in Seq(N), NEW q, NEW nm,
           Splits(p, q, nm, N)
    PROVE  Resolve(BuildTree(v), p) = LiveChild(BuildTree(v), Resolve(BuildTree(v), q), nm)
<1> DEFINE t == BuildTree(v)
<1>1. /\ q \in Seq(N) /\ Len(p) = Len(q) + 1 /\ p[Len(p)] = nm
      /\ \A k \in 1..Len(q) : q[k] = p[k]
  BY DEF Splits
<1>2. PICK g : Walks(v, g, p)
  BY ResolveIs
<1>3. PICK h : Walks(v, h, q)
  BY <1>1, ResolveIs
<1> HIDE DEF t
<1>4. /\ g[0] = Root /\ \A k \in 1..Len(p) : g[k] = LiveChild(t, g[k - 1], p[k])
      /\ h[0] = Root /\ \A k \in 1..Len(q) : h[k] = LiveChild(t, h[k - 1], q[k])
      /\ Resolve(t, p) = g[Len(p)] /\ Resolve(t, q) = h[Len(q)]
  BY <1>2, <1>3 DEF Walks, t
<1> DEFINE S == {k \in Nat : g[k] = h[k]}
<1>5. 0 \in S
  BY <1>4
<1>6. ASSUME NEW k \in 0..(Len(q) - 1), k \in S
      PROVE  k + 1 \in S
  <2>1. k + 1 \in 1..Len(q) /\ k + 1 \in 1..Len(p) /\ (k + 1) - 1 = k /\ k + 1 \in Nat
    BY <1>1
  <2>2. g[k + 1] = LiveChild(t, g[k], p[k + 1]) /\ h[k + 1] = LiveChild(t, h[k], q[k + 1])
    BY <2>1, <1>4
  <2>3. g[k] = h[k] /\ q[k + 1] = p[k + 1]
    BY <1>1, <1>6, <2>1
  <2> QED
    BY <2>1, <2>2, <2>3
<1> HIDE DEF S
<1>7. Len(q) \in Nat
  BY <1>1
<1>8. 0..Len(q) \subseteq S
  BY <1>5, <1>6, <1>7, UpTo
<1>9. g[Len(q)] = h[Len(q)]
  BY <1>7, <1>8 DEF S
<1>10. Len(p) \in 1..Len(p) /\ Len(p) - 1 = Len(q)
  BY <1>1, <1>7
<1>11. g[Len(p)] = LiveChild(t, g[Len(q)], p[Len(p)])
  BY <1>4, <1>10
<1> QED
  BY <1>1, <1>4, <1>9, <1>11 DEF t

LEMMA PathSplits ==
    ASSUME NEW N, NEW p \in Seq(N), p # <<>>
    PROVE  Splits(p, Front(p), Last(p), N) /\ p = Append(Front(p), Last(p))
<1>1. Len(p) \in Nat \ {0}
  OBVIOUS
<1>2. Front(p) = SubSeq(p, 1, Len(p) - 1) /\ Last(p) = p[Len(p)]
  BY Zenon DEF Front, Last
<1> DEFINE q == SubSeq(p, 1, Len(p) - 1)  nm == p[Len(p)]
<1>3. q \in Seq(N) /\ Len(q) = Len(p) - 1 /\ \A k \in 1..Len(q) : q[k] = p[k]
  <2> DEFINE x == 1  y == Len(p) - 1
  <2>1. x \in Nat \ {0} /\ y \in 0..Len(p)
    BY <1>1
  <2>2. x = 1 /\ y = Len(p) - 1 /\ \A k \in Int : x + k - 1 = k
    OBVIOUS
  <2> HIDE DEF x, y
  <2>3. /\ SubSeq(p, x, y) \in Seq(N)
        /\ Len(SubSeq(p, x, y)) = IF x <= y THEN y - x + 1 ELSE 0
        /\ \A k \in 1..Len(SubSeq(p, x, y)) : SubSeq(p, x, y)[k] = p[x + k - 1]
    BY <2>1, SliceType
  <2>4. q = SubSeq(p, x, y)
    BY <2>2
  <2> HIDE DEF q
  <2>5. Len(q) = Len(p) - 1
    <3>1. Len(q) = IF 1 <= Len(p) - 1 THEN (Len(p) - 1) - 1 + 1 ELSE 0
      BY ONLY <2>2, <2>3, <2>4
    <3> DEFINE l == Len(p)
    <3>2. l \in Nat \ {0} /\ Len(q) = IF 1 <= l - 1 THEN (l - 1) - 1 + 1 ELSE 0
      BY <3>1, <1>1
    <3> HIDE DEF l
    <3>3. Len(q) = l - 1
      BY ONLY <3>2
    <3> QED
      BY <3>3 DEF l
  <2> QED
    BY <2>2, <2>3, <2>4, <2>5
<1>4. nm \in N
  BY <1>1
<1> HIDE DEF q, nm
<1>5. Splits(p, q, nm, N)
  BY <1>1, <1>3, <1>4 DEF Splits, nm
<1>6. Append(q, nm) = p
  <2>1. /\ Append(q, nm) \in Seq(N) /\ Len(Append(q, nm)) = Len(p)
        /\ \A k \in 1..Len(q) : Append(q, nm)[k] = q[k]
        /\ Append(q, nm)[Len(p)] = nm
    BY <1>1, <1>3, <1>4
  <2>2. \A k \in 1..Len(p) : k \in 1..Len(q) \/ k = Len(p)
    BY <1>1, <1>3
  <2>3. \A k \in 1..Len(p) : Append(q, nm)[k] = p[k]
    BY <2>1, <2>2, <1>3 DEF nm
  <2> DEFINE a == Append(q, nm)  n == Len(p)
  <2>4. a \in Seq(N) /\ Len(a) = n /\ Len(p) = n /\ \A k \in 1..n : a[k] = p[k]
    BY <2>1, <2>3
  <2> HIDE DEF a, n
  <2>5. a = p
    BY <2>4, SeqSame
  <2> QED
    BY <2>5 DEF a
<1> QED
  BY <1>2, <1>5, <1>6 DEF q, nm

LEMMA AppendSplits ==
    ASSUME NEW N, NEW p \in Seq(N), NEW nm \in N
    PROVE  Splits(Append(p, nm), p, nm, N) /\ Append(p, nm) \in Seq(N)
  BY DEF Splits

LEMMA ResolveFound ==
    ASSUME NEW v, Sound(v), Siblings(v), NEW N, NEW p \in Seq(N), NEW q, NEW nm,
           Splits(p, q, nm, N), Resolve(BuildTree(v), p) # NoNode
    PROVE  /\ ChildOf(v, Resolve(BuildTree(v), p), Resolve(BuildTree(v), q), nm)
           /\ Resolve(BuildTree(v), q) \in Living(v)
           /\ Resolve(BuildTree(v), p) \in Living(v) \ {Root}
<1> DEFINE t == BuildTree(v)  x == Resolve(t, p)  y == Resolve(t, q)
<1>1. x = LiveChild(t, y, nm)
  BY ResolveStep
<1>2. Finds(v, y, nm, LiveChild(t, y, nm))
  BY ChildIs
<1>3. y \in NodesOf(v)
  BY ResolveType DEF Splits
<1> HIDE DEF t, x, y
<1>4. ChildOf(v, x, y, nm)
  <2>1. x # NoNode
    BY DEF x, t
  <2> QED
    BY <1>1, <1>2, <2>1 DEF Finds
<1>5. x \in Living(v) \ {Root} /\ Current(v, x).parent = y
  BY <1>4 DEF ChildOf
<1>6. y \in Living(v)
  <2>1. x \in DOMAIN v /\ x # Root
    BY <1>5 DEF Living
  <2> QED
    BY <1>5, <2>1, LivingIs
<1> QED
  BY <1>4, <1>5, <1>6 DEF x, y, t

\* A node has one path.
LEMMA ResolveOnce ==
    ASSUME NEW v, Sound(v), Siblings(v), NEW N, NEW p \in Seq(N), NEW q \in Seq(N),
           Resolve(BuildTree(v), p) = Resolve(BuildTree(v), q),
           Resolve(BuildTree(v), p) # NoNode
    PROVE  p = q
<1> DEFINE t == BuildTree(v)
           S == {n \in Nat : \A a1, b1 \in Seq(N) :
                    Len(a1) = n /\ Resolve(t, a1) = Resolve(t, b1) /\ Resolve(t, a1) # NoNode => a1 = b1}
<1>1. \A b1 \in Seq(N) : b1 # <<>> => Resolve(t, b1) # Root
  <2> TAKE b1 \in Seq(N)
  <2>1. SUFFICES ASSUME b1 # <<>>
                 PROVE  Resolve(t, b1) # Root
    OBVIOUS
  <2>2. Splits(b1, Front(b1), Last(b1), N)
    BY <2>1, PathSplits
  <2>3. Resolve(t, b1) = LiveChild(t, Resolve(t, Front(b1)), Last(b1))
    BY <2>2, ResolveStep
  <2> QED
    BY <2>3, ChildType
<1>2. Resolve(t, <<>>) = Root
  BY ResolveNone
<1>3. 0 \in S
  <2>1. SUFFICES ASSUME NEW a1 \in Seq(N), NEW b1 \in Seq(N), Len(a1) = 0,
                        Resolve(t, a1) = Resolve(t, b1)
                 PROVE  a1 = b1
    OBVIOUS
  <2>2. a1 = <<>>
    BY <2>1
  <2> QED
    BY <2>1, <2>2, <1>1, <1>2
<1>4. ASSUME NEW n \in S
      PROVE  n + 1 \in S
  <2>1. SUFFICES ASSUME NEW a1 \in Seq(N), NEW b1 \in Seq(N), Len(a1) = n + 1,
                        Resolve(t, a1) = Resolve(t, b1), Resolve(t, a1) # NoNode
                 PROVE  a1 = b1
    OBVIOUS
  <2>2. a1 # <<>>
    BY <2>1
  <2>3. b1 # <<>>
    BY <2>1, <2>2, <1>1, <1>2
  <2>4. Splits(a1, Front(a1), Last(a1), N) /\ a1 = Append(Front(a1), Last(a1))
    BY <2>2, PathSplits
  <2>5. Splits(b1, Front(b1), Last(b1), N) /\ b1 = Append(Front(b1), Last(b1))
    BY <2>3, PathSplits
  <2> HIDE DEF t
  <2>6. ChildOf(v, Resolve(t, a1), Resolve(t, Front(a1)), Last(a1)) /\ Resolve(t, Front(a1)) \in Living(v)
    BY <2>1, <2>4, ResolveFound DEF t
  <2>7. ChildOf(v, Resolve(t, b1), Resolve(t, Front(b1)), Last(b1))
    BY <2>1, <2>5, ResolveFound DEF t
  <2>8. Resolve(t, Front(a1)) = Resolve(t, Front(b1)) /\ Last(a1) = Last(b1)
    BY <2>1, <2>6, <2>7 DEF ChildOf
  <2>9. Resolve(t, Front(a1)) # NoNode
    BY <2>6 DEF Living, Sound, NoNode, Root
  <2>10. Len(Front(a1)) = n /\ Front(a1) \in Seq(N) /\ Front(b1) \in Seq(N)
    <3> DEFINE f == Front(a1)
    <3>1. f \in Seq(N) /\ Front(b1) \in Seq(N) /\ Len(a1) = Len(f) + 1
      BY <2>4, <2>5 DEF Splits
    <3> HIDE DEF f
    <3>2. Len(f) \in Nat
      BY <3>1
    <3>3. Len(f) = n
      BY ONLY <3>1, <3>2, <2>1, n \in Nat
    <3> QED
      BY <3>1, <3>3 DEF f
  <2>11. Front(a1) = Front(b1)
    BY <2>8, <2>9, <2>10
  <2> QED
    BY <2>4, <2>5, <2>8, <2>11
<1> HIDE DEF S
<1>5. S = Nat
  <2>1. S \in SUBSET Nat
    BY DEF S
  <2> QED
    BY <1>3, <1>4, <2>1, SetInduction
<1>6. Len(p) \in S
  BY <1>5
<1> QED
  BY <1>6 DEF S

-----------------------------------------------------------------------------
(* One record at a time.                                                   *)

Capped(f, k) == \E n \in Nat : \A i \in 1..k : f[i] <= n

\* A finite set of numbers has a greatest one.
LEMMA Bounded ==
    ASSUME NEW T \in SUBSET Nat, IsFiniteSet(T)
    PROVE  \E n \in Nat : \A x \in T : x <= n
<1>1. PICK m \in Nat : ExistsSurjection(1..m, T)
  BY FS_NatSurjection
<1>2. PICK f \in Surjection(1..m, T) : TRUE
  BY <1>1 DEF ExistsSurjection
<1>3. f \in [1..m -> T] /\ \A x \in T : \E k \in 1..m : f[k] = x
  BY <1>2 DEF Surjection
<1> DEFINE S == {k \in Nat : k <= m => Capped(f, k)}
<1>4. 0 \in S
  <2>1. Capped(f, 0)
    BY DEF Capped
  <2> QED
    BY <2>1
<1>5. ASSUME NEW k \in 0..(m - 1), k \in S
      PROVE  k + 1 \in S
  <2>1. PICK n \in Nat : \A i \in 1..k : f[i] <= n
    BY <1>5 DEF Capped
  <2>2. k + 1 \in 1..m /\ f[k + 1] \in Nat
    <3>1. k + 1 \in 1..m
      OBVIOUS
    <3>2. f[k + 1] \in T
      BY <3>1, <1>3
    <3> QED
      BY <3>1, <3>2
  <2> DEFINE z == n + f[k + 1]
  <2>3. z \in Nat /\ n <= z /\ f[k + 1] <= z
    BY <2>2
  <2>4. ASSUME NEW i \in 1..(k + 1)
        PROVE  f[i] <= z
    <3>1. CASE i = k + 1
      BY <3>1, <2>3
    <3>2. CASE i # k + 1
      <4>1. i \in 1..k /\ i \in 1..m
        BY <3>2
      <4>2. f[i] \in Nat /\ f[i] <= n
        BY <4>1, <2>1, <1>3
      <4> HIDE DEF z
      <4> QED
        BY <4>2, <2>3
    <3> QED
      BY <3>1, <3>2
  <2> HIDE DEF z
  <2>5. Capped(f, k + 1)
    BY ONLY <2>3, <2>4 DEF Capped
  <2>6. k + 1 \in Nat
    BY ONLY k \in 0..(m - 1), m \in Nat
  <2> QED
    BY ONLY <2>5, <2>6
<1> HIDE DEF S
<1>6. 0..m \subseteq S
  BY <1>4, <1>5, UpTo
<1>7. m \in S
  BY <1>6
<1>8. PICK n \in Nat : \A i \in 1..m : f[i] <= n
  BY <1>7 DEF S, Capped
<1> QED
  BY <1>3, <1>8

Top(v) == Max(DOMAIN v \cup {Root})

LEMMA NewIdIs ==
    ASSUME NEW v, Sound(v)
    PROVE  /\ Top(v) \in Nat /\ \A x \in DOMAIN v \cup {Root} : x \in Nat /\ x <= Top(v)
           /\ \A k \in Nat : NewId(v, k) = Top(v) + k
<1> DEFINE T == DOMAIN v \cup {Root}
<1>1. T \in SUBSET Nat /\ T # {}
  BY DEF Sound, Root
<1>2. IsFiniteSet(T)
  BY FS_AddElement DEF Sound
<1> HIDE DEF T
<1>3. PICK n \in Nat : \A x \in T : x <= n
  BY <1>1, <1>2, Bounded
<1>4. Max(T) \in T /\ \A x \in T : x <= Max(T)
  BY <1>1, <1>3, MaxOfNat
<1> QED
  BY <1>1, <1>4 DEF Top, NewId, T

\* A record that puts a node where nothing else is.
LEMMA OneFits ==
    ASSUME NEW v, Sound(v), Siblings(v), NEW r, IsRecord(r), ~r.tomb, r.id # Root,
           r.id \in DOMAIN v => r.id \in Living(v) /\ r.kind = Current(v, r.id).kind,
           r.parent \in Living(v),
           r.content.kind = "delta" => r.id \in DOMAIN v /\ MayDelta(v, r.id),
           \A o : ChildOf(v, o, r.parent, r.name) => o = r.id
    PROVE  Fits(v, {r}) /\ Apart(v, {r})
<1>1. IsSession({r})
  BY FS_Singleton DEF IsSession
<1>2. Ids({r}) = {r.id} /\ The({r}, r.id) = r
  BY DEF Ids, The
<1>3. Fits(v, {r})
  <2>1. r.parent \in DOMAIN v \cup {Root}
    BY DEF Living
  <2> QED
    BY <1>1, <2>1 DEF Fits
<1>4. Apart(v, {r})
  <2>1. SUFFICES ASSUME NEW o \in (Living(v) \ {Root}) \cup Ids({r}), o # r.id,
                        SamePlace(After(v, {r}, o), r)
                 PROVE  FALSE
    BY DEF Apart
  <2>2. o \in Living(v) \ {Root} /\ After(v, {r}, o) = Current(v, o)
    BY <2>1, <1>2 DEF After
  <2>3. ChildOf(v, o, r.parent, r.name)
    BY <2>1, <2>2 DEF ChildOf, SamePlace
  <2> QED
    BY <2>1, <2>3
<1> QED
  BY <1>3, <1>4

LEMMA NodeIs ==
    ASSUME NEW id \in Nat, NEW kind \in {Dir, File}, NEW parent \in Nat, NEW name, NEW content,
           (content.kind # "none") <=> (kind = File)
    PROVE  LET r == Node(id, kind, parent, name, content) IN
           /\ IsRecord(r) /\ r.id = id /\ r.kind = kind /\ r.parent = parent
           /\ r.name = name /\ r.content = content /\ ~r.tomb
  BY DEF Node, IsRecord, WellFormed

LEMMA TombIs ==
    ASSUME NEW q, IsRecord(q)
    PROVE  LET r == Tombstone(q) IN
           /\ IsRecord(r) /\ r.id = q.id /\ r.kind = q.kind /\ r.parent = q.parent
           /\ r.name = q.name /\ r.content = NoSection /\ r.tomb
<1> DEFINE z == [id |-> q.id, kind |-> q.kind, tomb |-> q.tomb, parent |-> q.parent,
                 name |-> q.name, content |-> q.content]
<1>1. q = z /\ q.id \in Nat /\ q.kind \in {Dir, File} /\ q.parent \in Nat
  BY DEF IsRecord
<1>2. Tombstone(z) = [id |-> q.id, kind |-> q.kind, tomb |-> TRUE, parent |-> q.parent,
                      name |-> q.name, content |-> NoSection]
  <2> DEFINE U == {q.id, q.kind, q.tomb, q.parent, q.name, q.content, TRUE, NoSection}
  <2>1. TRUE \in U /\ NoSection \in U
    OBVIOUS
  <2>2. z \in [id : U, kind : U, tomb : U, parent : U, name : U, content : U]
    OBVIOUS
  <2>3. z.id = q.id /\ z.kind = q.kind /\ z.parent = q.parent /\ z.name = q.name
    OBVIOUS
  <2> HIDE DEF U, z
  <2>4. [z EXCEPT !.tomb = TRUE, !.content = NoSection]
            = [id |-> z.id, kind |-> z.kind, tomb |-> TRUE, parent |-> z.parent,
               name |-> z.name, content |-> NoSection]
    <3> DEFINE y == [z EXCEPT !.tomb = TRUE]
    <3>1. y \in [id : U, kind : U, tomb : U, parent : U, name : U, content : U]
      BY <2>1, <2>2
    <3>2. /\ y.id = z.id /\ y.kind = z.kind /\ y.tomb = TRUE /\ y.parent = z.parent
          /\ y.name = z.name
      BY <2>1, <2>2
    <3>3. [z EXCEPT !.tomb = TRUE, !.content = NoSection] = [y EXCEPT !.content = NoSection]
      OBVIOUS
    <3> HIDE DEF y
    <3> DEFINE x == [y EXCEPT !.content = NoSection]
    <3>4. x \in [id : U, kind : U, tomb : U, parent : U, name : U, content : U]
      BY <2>1, <3>1
    <3>5. /\ x.id = y.id /\ x.kind = y.kind /\ x.tomb = y.tomb /\ x.parent = y.parent
          /\ x.name = y.name /\ x.content = NoSection
      BY <2>1, <3>1
    <3>6. [z EXCEPT !.tomb = TRUE, !.content = NoSection] = x
      BY <3>3
    <3> HIDE DEF x
    <3>7. x = [id |-> x.id, kind |-> x.kind, tomb |-> x.tomb, parent |-> x.parent,
               name |-> x.name, content |-> x.content]
      BY <3>4
    <3>8. x = [id |-> z.id, kind |-> z.kind, tomb |-> TRUE, parent |-> z.parent,
               name |-> z.name, content |-> NoSection]
      BY <3>2, <3>5, <3>7
    <3> QED
      BY <3>6, <3>8
  <2> QED
    BY <2>3, <2>4 DEF Tombstone
<1>3. NoSection.kind = "none"
  BY DEF NoSection
<1> HIDE DEF z
<1>4. Tombstone(q) = [id |-> q.id, kind |-> q.kind, tomb |-> TRUE, parent |-> q.parent,
                      name |-> q.name, content |-> NoSection]
  BY <1>1, <1>2
<1> QED
  BY <1>1, <1>3, <1>4 DEF IsRecord, WellFormed

\* A record that removes a node.
LEMMA DeadFits ==
    ASSUME NEW v, Sound(v), Siblings(v), NEW x \in Living(v) \ {Root}
    PROVE  Fits(v, {Tombstone(Current(v, x))}) /\ Apart(v, {Tombstone(Current(v, x))})
<1> DEFINE r == Tombstone(Current(v, x))
<1>1. x \in DOMAIN v /\ IsRecord(Current(v, x)) /\ Current(v, x).id = x
      /\ Current(v, x).parent \in DOMAIN v \cup {Root}
  BY DEF Living, Sound
<1>2. /\ IsRecord(r) /\ r.id = x /\ r.kind = Current(v, x).kind /\ r.tomb
      /\ r.parent = Current(v, x).parent /\ r.content = NoSection
  BY <1>1, TombIs
<1> HIDE DEF r
<1>3. IsSession({r})
  BY <1>2, FS_Singleton DEF IsSession
<1>4. r.content.kind # "delta"
  BY <1>2 DEF NoSection
<1>5. Fits(v, {r})
  BY <1>1, <1>2, <1>3, <1>4 DEF Fits
<1>6. Apart(v, {r})
  BY <1>2 DEF Apart
<1> QED
  BY <1>5, <1>6 DEF r

Snap(v) == [view |-> v, tree |-> BuildTree(v)]

LEMMA SnapIs ==
    ASSUME NEW v, NEW s, s = Snap(v)
    PROVE  s.view = v /\ s.tree = BuildTree(v)
  BY Zenon DEF Snap

\* The record of a file that may be written: a new one in a free place, or the one
\* that is there.
Writes(v, r, parent, nm, k) ==
    /\ IsRecord(r) /\ ~r.tomb /\ r.kind = File /\ r.parent = parent /\ r.name = nm
    /\ \/ /\ \A x : ~ChildOf(v, x, parent, nm)
          /\ r.id = NewId(v, k) /\ r.content.kind # "delta"
       \/ /\ ChildOf(v, r.id, parent, nm) /\ Current(v, r.id).kind = File
          /\ r.content.kind = "delta" => MayDelta(v, r.id)

LEMMA NewSectionIs ==
    ASSUME NEW c
    PROVE  NewSection(c).kind # "none" /\ NewSection(c).kind # "delta"
  BY DEF NewSection, EmptySection, Direct

LEMMA ModifiedIs ==
    ASSUME NEW v, NEW id, NEW prev, NEW c
    PROVE  LET m == ModifiedSection(v, id, prev, c) IN
           m.kind # "none" /\ (m.kind = "delta" => MayDelta(v, id))
<1>1. CASE <<prev, c>> \in SmallPatch /\ MayDelta(v, id)
  <2>1. ModifiedSection(v, id, prev, c) = Delta(prev, c)
    BY <1>1, Zenon DEF ModifiedSection
  <2> QED
    BY <1>1, <2>1 DEF Delta
<1>2. CASE ~(<<prev, c>> \in SmallPatch /\ MayDelta(v, id))
  <2>1. ModifiedSection(v, id, prev, c) = NewSection(c)
    BY <1>2, Zenon DEF ModifiedSection
  <2> QED
    BY <2>1, NewSectionIs
<1> QED
  BY <1>1, <1>2

LEMMA FileRecordIs ==
    ASSUME NEW v, Sound(v), Siblings(v), NEW s, s = Snap(v), NEW parent \in Nat, NEW nm,
           NEW c, NEW k \in Nat, Writable(s, parent, nm)
    PROVE  Writes(v, FileRecord(s, parent, nm, c, k), parent, nm, k)
<1> DEFINE x == LiveChild(BuildTree(v), parent, nm)
<1>1. s.view = v /\ s.tree = BuildTree(v)
  BY SnapIs
<1>2. Finds(v, parent, nm, x)
  BY ChildIs
<1>3. x # NoNode => ~IsDir(v, x)
  BY <1>1, Zenon DEF Writable
<1>4. CASE x = NoNode
  <2> DEFINE id == NewId(v, k)  sec == NewSection(c)
  <2>1. FileRecord(s, parent, nm, c, k) = Node(id, File, parent, nm, sec)
    BY <1>1, <1>4, Zenon DEF FileRecord
  <2>2. id \in Nat
    BY NewIdIs
  <2>3. sec.kind # "none" /\ sec.kind # "delta"
    BY NewSectionIs
  <2>4. \A y : ~ChildOf(v, y, parent, nm)
    <3> HIDE DEF x
    <3>1. \A y : ChildOf(v, y, parent, nm) => y = NoNode
      BY <1>2, <1>4 DEF Finds
    <3>2. ~ChildOf(v, NoNode, parent, nm)
      BY DEF ChildOf, Living, Sound, NoNode, Root
    <3> QED
      BY <3>1, <3>2
  <2> HIDE DEF id, sec
  <2>5. LET r == Node(id, File, parent, nm, sec) IN
           /\ IsRecord(r) /\ r.id = id /\ r.kind = File /\ r.parent = parent
           /\ r.name = nm /\ r.content = sec /\ ~r.tomb
    <3>1. File \in {Dir, File} /\ ((sec.kind # "none") <=> (File = File))
      BY <2>3
    <3> QED
      BY <2>2, <3>1, NodeIs
  <2> QED
    BY <2>1, <2>3, <2>4, <2>5 DEF Writes, id
<1>5. CASE x # NoNode
  <2> DEFINE sec == ModifiedSection(v, x, ReadFile(v, x), c)
  <2>1. FileRecord(s, parent, nm, c, k) = Node(x, File, parent, nm, sec)
    BY <1>1, <1>5, Zenon DEF FileRecord
  <2>2. ChildOf(v, x, parent, nm)
    <3> HIDE DEF x
    <3> QED
      BY <1>2, <1>5 DEF Finds
  <2>3. x \in DOMAIN v /\ x # Root /\ x \in Nat
    BY <2>2 DEF ChildOf, Living, Sound
  <2>4. sec.kind # "none" /\ (sec.kind = "delta" => MayDelta(v, x))
    BY ModifiedIs
  <2>5. Current(v, x).kind = File
    <3>1. Current(v, x).kind # Dir
      BY <1>3, <1>5, <2>3 DEF IsDir
    <3> QED
      BY <2>3, <3>1 DEF Sound, IsRecord
  <2> HIDE DEF x, sec
  <2>6. LET r == Node(x, File, parent, nm, sec) IN
           /\ IsRecord(r) /\ r.id = x /\ r.kind = File /\ r.parent = parent
           /\ r.name = nm /\ r.content = sec /\ ~r.tomb
    <3>1. File \in {Dir, File} /\ ((sec.kind # "none") <=> (File = File))
      BY <2>4
    <3> QED
      BY <2>3, <3>1, NodeIs
  <2> QED
    BY <2>1, <2>2, <2>4, <2>5, <2>6 DEF Writes
<1> QED
  BY <1>4, <1>5

LEMMA NewIdNew ==
    ASSUME NEW v, Sound(v), NEW k \in Nat, k # 0
    PROVE  NewId(v, k) \in Nat /\ NewId(v, k) \notin DOMAIN v /\ NewId(v, k) # Root
<1>1. /\ Top(v) \in Nat /\ NewId(v, k) = Top(v) + k
      /\ \A x \in DOMAIN v \cup {Root} : x \in Nat /\ x <= Top(v)
  BY NewIdIs
<1>2. NewId(v, k) \notin DOMAIN v \cup {Root}
  BY <1>1
<1> QED
  BY <1>1, <1>2

LEMMA LivingNat ==
    ASSUME NEW v, Sound(v)
    PROVE  Living(v) \subseteq Nat /\ Living(v) \subseteq DOMAIN v \cup {Root} /\ NoNode \notin Nat
  BY DEF Living, Sound, Root, NoNode

LEMMA PutFits ==
    ASSUME NEW v, Sound(v), Siblings(v), NEW s, s = Snap(v), NEW parent \in Living(v), NEW nm,
           NEW c, NEW k \in Nat, k # 0, Writable(s, parent, nm)
    PROVE  LET r == FileRecord(s, parent, nm, c, k) IN Fits(v, {r}) /\ Apart(v, {r})
<1> DEFINE r == FileRecord(s, parent, nm, c, k)
<1>1. parent \in Nat
  BY LivingNat
<1>2. Writes(v, r, parent, nm, k)
  BY <1>1, FileRecordIs
<1> HIDE DEF r
<1>3. /\ IsRecord(r) /\ ~r.tomb /\ r.kind = File /\ r.parent = parent /\ r.name = nm
  BY <1>2 DEF Writes
<1>4. CASE (\A x : ~ChildOf(v, x, parent, nm)) /\ r.id = NewId(v, k) /\ r.content.kind # "delta"
  <2>1. r.id \notin DOMAIN v /\ r.id # Root
    BY <1>4, NewIdNew
  <2> QED
    BY <1>3, <1>4, <2>1, OneFits DEF r
<1>5. CASE /\ ChildOf(v, r.id, parent, nm) /\ Current(v, r.id).kind = File
           /\ r.content.kind = "delta" => MayDelta(v, r.id)
  <2>1. r.id \in Living(v) /\ r.id # Root /\ r.id \in DOMAIN v
    BY <1>5 DEF ChildOf, Living
  <2>2. \A o : ChildOf(v, o, parent, nm) => o = r.id
    BY <1>5 DEF ChildOf, Siblings, SamePlace
  <2> QED
    BY <1>3, <1>5, <2>1, <2>2, OneFits DEF r
<1> QED
  BY <1>2, <1>4, <1>5 DEF Writes

LEMMA ParentIs ==
    ASSUME NEW v, Sound(v), Siblings(v), NEW s, s = Snap(v), NEW N, NEW p \in Seq(N), p # <<>>,
           HasParent(s, p)
    PROVE  /\ Parent(s, p) = Resolve(BuildTree(v), Front(p)) /\ Front(p) \in Seq(N)
           /\ Parent(s, p) \in Living(v) /\ Parent(s, p) \in Nat /\ IsDir(v, Parent(s, p))
           /\ Free(s, p) => \A x : ~ChildOf(v, x, Parent(s, p), Last(p))
<1>1. s.view = v /\ s.tree = BuildTree(v)
  BY SnapIs
<1>2. Front(p) \in Seq(N)
  BY PathSplits DEF Splits
<1> DEFINE y == Resolve(BuildTree(v), Front(p))
<1>3. Parent(s, p) = y /\ y # NoNode /\ IsDir(v, y)
  BY <1>1, Zenon DEF Parent, HasParent
<1>4. y \in NodesOf(v)
  BY <1>2, ResolveType
<1> HIDE DEF y
<1>5. y \in Living(v) /\ y \in Nat
  BY <1>3, <1>4, LivingNat DEF NodesOf
<1>6. ASSUME Free(s, p), NEW x, ChildOf(v, x, y, Last(p))
      PROVE  FALSE
  <2>1. LiveChild(BuildTree(v), y, Last(p)) = NoNode
    BY <1>1, <1>3, <1>6, Zenon DEF Free
  <2>2. Finds(v, y, Last(p), LiveChild(BuildTree(v), y, Last(p)))
    BY ChildIs
  <2>3. x = NoNode
    BY <1>6, <2>1, <2>2 DEF Finds
  <2> QED
    BY <1>6, <2>3, LivingNat DEF ChildOf
<1> QED
  BY <1>2, <1>3, <1>5, <1>6 DEF y

LEMMA MkdirFits ==
    ASSUME NEW v, Sound(v), Siblings(v), NEW s, s = Snap(v), NEW N, NEW p \in Seq(N), p # <<>>,
           HasParent(s, p), Free(s, p)
    PROVE  LET r == Node(NewId(v, 1), Dir, Parent(s, p), Last(p), NoSection) IN
           Fits(v, {r}) /\ Apart(v, {r})
<1> DEFINE r == Node(NewId(v, 1), Dir, Parent(s, p), Last(p), NoSection)
           id == NewId(v, 1)  y == Parent(s, p)  sec == NoSection
<1>1. y \in Living(v) /\ y \in Nat /\ \A x : ~ChildOf(v, x, y, Last(p))
  BY ParentIs
<1>2. id \in Nat /\ id \notin DOMAIN v /\ id # Root
  BY NewIdNew
<1>3. sec.kind = "none" /\ Dir # File
  BY DEF NoSection, Dir, File
<1>4. r = Node(id, Dir, y, Last(p), sec)
  OBVIOUS
<1> HIDE DEF id, y, sec, r
<1>5. /\ IsRecord(r) /\ r.id = id /\ r.kind = Dir /\ r.parent = y
      /\ r.name = Last(p) /\ r.content = sec /\ ~r.tomb
  BY <1>1, <1>2, <1>3, <1>4, NodeIs
<1>6. r.content.kind # "delta"
  BY <1>3, <1>5
<1> QED
  BY <1>1, <1>2, <1>5, <1>6, OneFits DEF r

MoveRecord(s, p, x, old) ==
    Node(x, old.kind, Parent(s, p), Last(p), IF old.kind = File THEN Inherit ELSE NoSection)

LEMMA MvFits ==
    ASSUME NEW v, Sound(v), Siblings(v), NEW s, s = Snap(v), NEW N, NEW p \in Seq(N), p # <<>>,
           HasParent(s, p), Free(s, p), NEW q \in Seq(N), q # <<>>,
           NEW x, x = Resolve(s.tree, q), x # NoNode, NEW old, old = Current(s.view, x)
    PROVE  LET r == MoveRecord(s, p, x, old) IN
           /\ Fits(v, {r}) /\ Apart(v, {r}) /\ IsRecord(r) /\ r.id = x /\ ~r.tomb
           /\ r.parent = Parent(s, p)
<1> DEFINE sec == IF old.kind = File THEN Inherit ELSE NoSection
           y == Parent(s, p)
           name == Last(p)
           r == Node(x, old.kind, y, name, sec)
<1>1. y \in Living(v) /\ y \in Nat /\ \A z : ~ChildOf(v, z, y, name)
  BY ParentIs
<1>2. s.view = v /\ s.tree = BuildTree(v)
  BY SnapIs
<1>3. x \in Living(v) \ {Root}
  <2>1. Splits(q, Front(q), Last(q), N)
    BY PathSplits
  <2> QED
    BY <1>2, <2>1, ResolveFound
<1>4. x \in Nat /\ x \in DOMAIN v /\ x # Root /\ x \in Living(v)
  BY <1>3, LivingNat DEF Root
<1>5. old.kind \in {Dir, File} /\ old = Current(v, x)
  BY <1>2, <1>4 DEF Sound, IsRecord
<1>6. ((sec.kind # "none") <=> (old.kind = File)) /\ sec.kind # "delta"
  BY DEF Inherit, NoSection
<1> HIDE DEF sec, y, name, r
<1>7. /\ IsRecord(r) /\ r.id = x /\ r.kind = old.kind /\ r.parent = y
      /\ r.name = name /\ r.content = sec /\ ~r.tomb
  <2>1. x \in Nat /\ old.kind \in {Dir, File} /\ y \in Nat
    BY <1>1, <1>4, <1>5
  <2>2. (sec.kind # "none") <=> (old.kind = File)
    BY <1>6
  <2> QED
    BY ONLY <2>1, <2>2, NodeIs DEF r
<1>8. Fits(v, {r}) /\ Apart(v, {r})
  BY <1>1, <1>4, <1>5, <1>6, <1>7, OneFits
<1> QED
  BY <1>7, <1>8 DEF r, sec, y, name, MoveRecord

-----------------------------------------------------------------------------
(* A batch.  A new node comes of one path, and a path makes one node.      *)

\* From where in the tree, or of the batch, a record comes: nw are the new nodes,
\* w the paths that made them.
Comes(v, nw, w, r) ==
    /\ w[r.id] # <<>> /\ r.name = Last(w[r.id])
    /\ \/ r.parent \in Living(v) /\ Resolve(BuildTree(v), Front(w[r.id])) = r.parent
       \/ r.parent \in nw /\ r.parent < r.id /\ w[r.parent] = Front(w[r.id])

GoodOld(v, r) ==
    r.id \in Living(v) /\ r.kind = Current(v, r.id).kind /\ SamePlace(r, Current(v, r.id))
GoodNew(v, nw, w, r) ==
    ~r.tomb /\ Comes(v, nw, w, r) /\ \A x : ~ChildOf(v, x, r.parent, r.name)
GoodRec(v, nw, w, r) ==
    /\ r.id # Root
    /\ r.id \in DOMAIN v => GoodOld(v, r)
    /\ r.id \notin DOMAIN v => GoodNew(v, nw, w, r)
    /\ r.content.kind = "delta" => r.id \in DOMAIN v /\ MayDelta(v, r.id)

Numbered(v, recs) ==
    \A x \in New(v, recs) : Top(v) < x /\ x <= Top(v) + Cardinality(recs)

GoodDirs(v, N, nw, w, dirs) ==
    /\ DOMAIN dirs \subseteq Seq(N)
    /\ \A p \in DOMAIN dirs :
        \/ dirs[p] \in Living(v) /\ Resolve(BuildTree(v), p) = dirs[p]
        \/ dirs[p] \in nw /\ w[dirs[p]] = p

\* done are the changes so far.
Came(v, done, recs, dirs, w) ==
    \A r \in recs : r.id \in New(v, recs) =>
        IF r.kind = Dir
        THEN w[r.id] \in DOMAIN dirs /\ \E c \in done : c.op = "mkdir" /\ c.path = w[r.id]
        ELSE \E c \in done : c.op = "put" /\ c.path = w[r.id]

OnePath(nw, w) == \A x, y \in nw : w[x] = w[y] => x = y

Making(v, N, done, recs, dirs, w) ==
    /\ IsSession(recs) /\ w \in [Nat -> Seq(N)] /\ Numbered(v, recs)
    /\ \A r \in recs : GoodRec(v, New(v, recs), w, r)
    /\ GoodDirs(v, N, New(v, recs), w, dirs)
    /\ Came(v, done, recs, dirs, w)
    /\ OnePath(New(v, recs), w)

LEMMA SessionAdds ==
    ASSUME NEW recs, IsSession(recs), NEW r, IsRecord(r), r.id \notin Ids(recs)
    PROVE  /\ IsSession(recs \cup {r}) /\ Ids(recs \cup {r}) = Ids(recs) \cup {r.id}
           /\ Cardinality(recs) \in Nat
           /\ Cardinality(recs \cup {r}) = Cardinality(recs) + 1
<1>1. IsFiniteSet(recs)
  BY DEF IsSession
<1>2. r \notin recs
  BY DEF Ids
<1>3. IsFiniteSet(recs \cup {r}) /\ Cardinality(recs \cup {r}) = Cardinality(recs) + 1
  BY <1>1, <1>2, FS_AddElement
<1>4. Cardinality(recs) \in Nat
  BY <1>1, FS_CardinalityType
<1>5. Ids(recs \cup {r}) = Ids(recs) \cup {r.id}
  BY DEF Ids
<1>6. ASSUME NEW q \in recs \cup {r}, NEW z \in recs \cup {r}, z.id = q.id
      PROVE  z = q
  BY <1>6 DEF Ids, IsSession
<1> QED
  BY <1>3, <1>4, <1>5, <1>6 DEF IsSession

LEMMA GoodDirsGrow ==
    ASSUME NEW v, NEW N, NEW nw, NEW w, NEW dirs, GoodDirs(v, N, nw, w, dirs),
           NEW more, nw \subseteq more, NEW u, \A x \in nw : u[x] = w[x]
    PROVE  GoodDirs(v, N, more, u, dirs)
  BY DEF GoodDirs

LEMMA GoodRecGrow ==
    ASSUME NEW v, NEW nw, NEW w, NEW r, GoodRec(v, nw, w, r), r.id \in nw \/ r.id \in DOMAIN v,
           NEW more, nw \subseteq more, NEW u, \A x \in nw : u[x] = w[x]
    PROVE  GoodRec(v, more, u, r)
<1>1. ASSUME r.id \notin DOMAIN v
      PROVE  Comes(v, more, u, r)
  <2>1. Comes(v, nw, w, r)
    BY <1>1 DEF GoodRec, GoodNew
  <2>2. u[r.id] = w[r.id]
    BY <1>1
  <2> QED
    BY <2>1, <2>2 DEF Comes
<1> QED
  BY <1>1 DEF GoodRec, GoodNew

\* One more record about a node that was there.
LEMMA OldAdds ==
    ASSUME NEW v, Sound(v), NEW N, NEW done, NEW more, done \subseteq more, NEW recs, NEW dirs, NEW w,
           Making(v, N, done, recs, dirs, w),
           NEW r, IsRecord(r), r.id \notin Ids(recs), r.id \in DOMAIN v, r.id # Root,
           GoodOld(v, r), r.content.kind = "delta" => MayDelta(v, r.id)
    PROVE  Making(v, N, more, recs \cup {r}, dirs, w)
<1> DEFINE R == recs \cup {r}
<1>1. /\ IsSession(R) /\ Ids(R) = Ids(recs) \cup {r.id}
      /\ Cardinality(recs) \in Nat /\ Cardinality(R) = Cardinality(recs) + 1
  BY SessionAdds DEF Making
<1>2. New(v, R) = New(v, recs)
  BY <1>1 DEF New
<1>3. Numbered(v, R)
  <2>1. SUFFICES ASSUME NEW x \in New(v, recs)
                 PROVE  Top(v) < x /\ x <= Top(v) + Cardinality(R)
    BY <1>2 DEF Numbered
  <2>2. Top(v) < x /\ x <= Top(v) + Cardinality(recs)
    BY DEF Making, Numbered
  <2>3. Top(v) \in Nat
    BY NewIdIs
  <2>4. x \in Nat
    BY IdsFinite DEF New, Making
  <2> QED
    BY <1>1, <2>2, <2>3, <2>4
<1>4. GoodRec(v, New(v, R), w, r)
  BY DEF GoodRec
<1>5. Came(v, more, R, dirs, w)
  <2>1. SUFFICES ASSUME NEW q \in R, q.id \in New(v, recs)
                 PROVE  IF q.kind = Dir
                        THEN w[q.id] \in DOMAIN dirs /\ \E c \in more : c.op = "mkdir" /\ c.path = w[q.id]
                        ELSE \E c \in more : c.op = "put" /\ c.path = w[q.id]
    BY <1>2, Zenon DEF Came
  <2>2. q \in recs
    BY <2>1 DEF New
  <2> QED
    BY <2>1, <2>2 DEF Came, Making
<1> HIDE DEF R
<1>6. \A q \in R : GoodRec(v, New(v, R), w, q)
  BY <1>2, <1>4 DEF Making, R
<1> QED
  BY <1>1, <1>2, <1>3, <1>5, <1>6 DEF Making, R

Known(dirs, q, id) == [p \in DOMAIN dirs \cup {q} |-> IF p = q THEN id ELSE dirs[p]]

\* A record of a new node, made by change c.
Brings(v, N, recs, w, c, r) ==
    /\ IsRecord(r) /\ ~r.tomb /\ r.id = NewId(v, Cardinality(recs) + 1)
    /\ r.content.kind # "delta"
    /\ c.path \in Seq(N) /\ c.path # <<>> /\ r.name = Last(c.path)
    /\ c.op = IF r.kind = Dir THEN "mkdir" ELSE "put"
    /\ \/ r.parent \in Living(v) /\ Resolve(BuildTree(v), Front(c.path)) = r.parent
       \/ r.parent \in New(v, recs) /\ w[r.parent] = Front(c.path)
    /\ \A x : ~ChildOf(v, x, r.parent, r.name)
    /\ \A x \in New(v, recs) : w[x] # c.path

DirsWith(dirs, c, r) == IF r.kind = Dir THEN Known(dirs, c.path, r.id) ELSE dirs

LEMMA NewAdds ==
    ASSUME NEW v, Sound(v), NEW N, NEW done, NEW c, NEW recs, NEW dirs, NEW w,
           Making(v, N, done, recs, dirs, w), NEW r, Brings(v, N, recs, w, c, r)
    PROVE  /\ r.id \notin Ids(recs)
           /\ \E u : Making(v, N, done \cup {c}, recs \cup {r}, DirsWith(dirs, c, r), u)
<1> DEFINE R == recs \cup {r}  id == r.id  nw == New(v, recs)
           q == c.path
           u == [w EXCEPT ![id] = q]
           all == done \cup {c}
           more == DirsWith(dirs, c, r)
<1>b. /\ IsRecord(r) /\ ~r.tomb /\ r.id = NewId(v, Cardinality(recs) + 1)
      /\ r.content.kind # "delta"
      /\ q \in Seq(N) /\ q # <<>> /\ r.name = Last(q)
      /\ c.op = IF r.kind = Dir THEN "mkdir" ELSE "put"
      /\ \/ r.parent \in Living(v) /\ Resolve(BuildTree(v), Front(q)) = r.parent
         \/ r.parent \in nw /\ w[r.parent] = Front(q)
      /\ \A x : ~ChildOf(v, x, r.parent, r.name)
      /\ \A x \in nw : w[x] # q
  BY DEF Brings
<1>m. /\ r.kind = Dir => more = Known(dirs, q, id)
      /\ r.kind # Dir => more = dirs
  BY DEF DirsWith
<1> USE <1>b
<1> HIDE DEF q, more
<1>0. IsSession(recs) /\ w \in [Nat -> Seq(N)]
  BY DEF Making
<1>1. /\ Top(v) \in Nat /\ Cardinality(recs) \in Nat /\ id = Top(v) + Cardinality(recs) + 1
      /\ \A x \in DOMAIN v \cup {Root} : x \in Nat /\ x <= Top(v)
  <2>1. Cardinality(recs) \in Nat
    BY <1>0, FS_CardinalityType DEF IsSession
  <2>2. /\ Top(v) \in Nat /\ \A x \in DOMAIN v \cup {Root} : x \in Nat /\ x <= Top(v)
        /\ \A k \in Nat : NewId(v, k) = Top(v) + k
    BY NewIdIs
  <2>3. NewId(v, Cardinality(recs) + 1) = Top(v) + (Cardinality(recs) + 1)
    BY <2>1, <2>2
  <2> QED
    BY <2>1, <2>2, <2>3
<1>2. id \in Nat /\ id \notin DOMAIN v /\ id # Root
  <2>1. id \in Nat /\ id \notin DOMAIN v \cup {Root}
    BY <1>1
  <2> QED
    BY <2>1
<1>3. \A x \in nw : x \in Nat /\ Top(v) < x /\ x < id /\ x # id
  <2> SUFFICES ASSUME NEW x \in nw
               PROVE  x \in Nat /\ Top(v) < x /\ x < id
    BY <1>2
  <2>1. x \in Nat
    BY <1>0, IdsFinite DEF New
  <2>2. Top(v) < x /\ x <= Top(v) + Cardinality(recs)
    BY DEF Making, Numbered
  <2> QED
    BY <1>1, <2>1, <2>2
<1>4. id \notin Ids(recs)
  BY <1>2, <1>3 DEF New
<1>5. /\ IsSession(R) /\ Ids(R) = Ids(recs) \cup {id} /\ Cardinality(R) = Cardinality(recs) + 1
  BY <1>0, <1>4, SessionAdds
<1>6. New(v, R) = nw \cup {id}
  BY <1>2, <1>5 DEF New
<1>7. u \in [Nat -> Seq(N)] /\ u[id] = q /\ \A x \in nw : u[x] = w[x]
  BY <1>0, <1>2, <1>3
<1> HIDE DEF R, u, all
<1>8. Numbered(v, R)
  <2>1. SUFFICES ASSUME NEW x \in nw \cup {id}
                 PROVE  Top(v) < x /\ x <= Top(v) + Cardinality(R)
    BY <1>6 DEF Numbered
  <2>2. x \in Nat /\ Top(v) < x /\ x <= id
    BY <1>1, <1>2, <1>3
  <2> QED
    BY <1>1, <1>5, <2>2
<1>9. OnePath(nw \cup {id}, u)
  <2>1. OnePath(nw, w)
    BY DEF Making
  <2> QED
    <3> SUFFICES ASSUME NEW x \in nw \cup {id}, NEW y \in nw \cup {id}, u[x] = u[y]
                 PROVE  x = y
      BY DEF OnePath
    <3>1. \A z \in nw : u[z] = w[z] /\ w[z] # u[id]
      BY ONLY <1>7, <1>b
    <3>2. CASE x \in nw /\ y \in nw
      BY ONLY <2>1, <3>1, <3>2, u[x] = u[y] DEF OnePath
    <3>3. CASE ~(x \in nw /\ y \in nw)
      BY ONLY <3>1, <3>3, u[x] = u[y], x \in nw \cup {id}, y \in nw \cup {id}
    <3> QED
      BY ONLY <3>2, <3>3
<1>10. GoodDirs(v, N, nw \cup {id}, u, more)
  <2>1. GoodDirs(v, N, nw, w, dirs)
    BY DEF Making
  <2>2. GoodDirs(v, N, nw \cup {id}, u, dirs)
    <3>1. nw \subseteq nw \cup {id} /\ \A x \in nw : u[x] = w[x]
      BY ONLY <1>7
    <3> QED
      BY ONLY <2>1, <3>1, GoodDirsGrow
  <2>3. CASE r.kind = Dir
    <3>1. DOMAIN more = DOMAIN dirs \cup {q} /\ more[q] = id /\ \A p \in DOMAIN dirs : p # q => more[p] = dirs[p]
      BY <1>m, <2>3 DEF Known
    <3>2. DOMAIN more \subseteq Seq(N)
      BY <2>2, <3>1 DEF GoodDirs
    <3>3. ASSUME NEW p \in DOMAIN more
          PROVE  \/ more[p] \in Living(v) /\ Resolve(BuildTree(v), p) = more[p]
                 \/ more[p] \in nw \cup {id} /\ u[more[p]] = p
      <4>1. CASE p = q
        BY <3>1, <4>1, <1>7
      <4>2. CASE p # q
        BY <2>2, <3>1, <4>2 DEF GoodDirs
      <4> QED
        BY <4>1, <4>2
    <3> HIDE DEF nw
    <3> QED
      BY <3>2, <3>3 DEF GoodDirs
  <2>4. CASE r.kind # Dir
    BY <1>m, <2>2, <2>4
  <2> QED
    BY <2>3, <2>4
<1>11. ASSUME NEW z \in recs
       PROVE  GoodRec(v, nw \cup {id}, u, z)
  <2>1. GoodRec(v, nw, w, z)
    BY DEF Making
  <2>2. z.id \in nw \/ z.id \in DOMAIN v
    BY <2>1 DEF GoodRec, New, Ids
  <2> QED
    BY <1>7, <2>1, <2>2, GoodRecGrow
<1>12. GoodRec(v, nw \cup {id}, u, r)
  <2>1. r.parent \in nw => r.parent < id /\ u[r.parent] = w[r.parent]
    BY <1>3, <1>7
  <2>2. Comes(v, nw \cup {id}, u, r)
    BY <1>7, <2>1 DEF Comes
  <2> QED
    BY <1>2, <2>2 DEF GoodRec, GoodNew
<1>13. Came(v, all, R, more, u)
  <2>1. SUFFICES ASSUME NEW z \in R, z.id \in nw \cup {id}
                 PROVE  IF z.kind = Dir
                        THEN u[z.id] \in DOMAIN more /\ \E d \in all : d.op = "mkdir" /\ d.path = u[z.id]
                        ELSE \E d \in all : d.op = "put" /\ d.path = u[z.id]
    BY <1>6, Zenon DEF Came
  <2>2. CASE z = r
    <3>1. u[z.id] = q /\ c \in all /\ c.path = q
      BY <1>7, <2>2 DEF all, q
    <3>2. r.kind = Dir => q \in DOMAIN more
      BY <1>m DEF Known
    <3> QED
      BY <2>2, <3>1, <3>2
  <2>3. CASE z # r
    <3>1. z \in recs
      BY <2>1, <2>3 DEF R
    <3>2. z.id \in nw
      BY <3>1, <1>4, <2>1 DEF Ids
    <3>3. IF z.kind = Dir
          THEN w[z.id] \in DOMAIN dirs /\ \E d \in done : d.op = "mkdir" /\ d.path = w[z.id]
          ELSE \E d \in done : d.op = "put" /\ d.path = w[z.id]
      BY <3>1, <3>2 DEF Came, Making
    <3>4. DOMAIN dirs \subseteq DOMAIN more
      BY <1>m DEF Known
    <3>5. done \subseteq all
      BY DEF all
    <3> QED
      BY <3>2, <3>3, <3>4, <3>5, <1>7
  <2> QED
    BY <2>2, <2>3
<1>14. \A z \in R : GoodRec(v, New(v, R), u, z)
  BY <1>6, <1>11, <1>12 DEF R
<1>15. Making(v, N, all, R, more, u)
  BY <1>5, <1>6, <1>7, <1>8, <1>9, <1>10, <1>13, <1>14 DEF Making
<1> QED
  BY <1>4, <1>15 DEF R, all, more

-----------------------------------------------------------------------------
(* One change of a batch after the other.                                  *)

Acc(ok, recs, dirs) == [ok |-> ok, recs |-> recs, dirs |-> dirs]

Refused(recs, dirs) == Acc(FALSE, recs, dirs)

LEMMA FailIs ==
    ASSUME NEW ok, NEW recs, NEW dirs
    PROVE  Fail(Acc(ok, recs, dirs)) = Refused(recs, dirs)
<1> DEFINE no == FALSE
<1> HIDE DEF no
<1> DEFINE U == {ok, recs, dirs, no}  a == Acc(ok, recs, dirs)
<1>1. a \in [ok : U, recs : U, dirs : U] /\ a.recs = recs /\ a.dirs = dirs
  BY DEF Acc
<1>3. no \in U
  OBVIOUS
<1> HIDE DEF a, U
<1>2. [a EXCEPT !.ok = no] = [ok |-> no, recs |-> a.recs, dirs |-> a.dirs]
  BY <1>1, <1>3
<1>4. Fail(a) = [a EXCEPT !.ok = no]
  BY DEF Fail, no
<1>5. Acc(no, recs, dirs) = [ok |-> no, recs |-> a.recs, dirs |-> a.dirs]
  BY <1>1 DEF Acc
<1> QED
  BY <1>2, <1>4, <1>5 DEF no, a, Refused

LEMMA MarkIs ==
    ASSUME NEW ok, NEW recs, NEW dirs, NEW r
    PROVE  /\ r.id \in Ids(recs) => Mark(Acc(ok, recs, dirs), r) = Refused(recs, dirs)
           /\ r.id \notin Ids(recs) => Mark(Acc(ok, recs, dirs), r) = Acc(ok, recs \cup {r}, dirs)
<1> DEFINE more == recs \cup {r}
           U == {ok, recs, dirs, more}  a == Acc(ok, recs, dirs)
<1>1. a \in [ok : U, recs : U, dirs : U] /\ a.ok = ok /\ a.recs = recs /\ a.dirs = dirs
  BY DEF Acc
<1>2. Fail(a) = Refused(recs, dirs)
  BY FailIs
<1>3. (\E z \in a.recs : z.id = r.id) <=> r.id \in Ids(recs)
  BY <1>1 DEF Ids
<1>4. more \in U
  OBVIOUS
<1> HIDE DEF a, U
<1>5. [a EXCEPT !.recs = more] = [ok |-> a.ok, recs |-> more, dirs |-> a.dirs]
  BY <1>1, <1>4
<1>6. [a EXCEPT !.recs = @ \cup {r}] = [a EXCEPT !.recs = more]
  BY <1>1
<1>7. [a EXCEPT !.recs = @ \cup {r}] = Acc(ok, more, dirs)
  BY <1>1, <1>5, <1>6 DEF Acc
<1> QED
  BY <1>2, <1>3, <1>7 DEF Mark, a

LEMMA MarkTwice ==
    ASSUME NEW ok, NEW recs, NEW dirs, NEW r, r.id \in Ids(recs)
    PROVE  Mark(Acc(ok, recs, dirs), r) = Refused(recs, dirs)
<1> DEFINE a == Acc(ok, recs, dirs)
<1>1. a.recs = recs
  BY DEF Acc
<1>2. Fail(a) = Refused(recs, dirs)
  BY FailIs
<1>3. \E z \in a.recs : z.id = r.id
  BY <1>1 DEF Ids
<1> HIDE DEF a
<1> QED
  BY <1>2, <1>3 DEF Mark, a

Knows(a, q, id) ==
    [a EXCEPT !.dirs = [p \in DOMAIN @ \cup {q} |-> IF p = q THEN id ELSE @[p]]]

LEMMA KnownIs ==
    ASSUME NEW ok, NEW recs, NEW dirs, NEW q, NEW id
    PROVE  Knows(Acc(ok, recs, dirs), q, id) = Acc(ok, recs, Known(dirs, q, id))
<1> DEFINE more == Known(dirs, q, id)
           U == {ok, recs, dirs, more}  a == Acc(ok, recs, dirs)
<1>1. a \in [ok : U, recs : U, dirs : U] /\ a.ok = ok /\ a.recs = recs /\ a.dirs = dirs
  BY DEF Acc
<1>2. more \in U
  OBVIOUS
<1>3. [p \in DOMAIN a.dirs \cup {q} |-> IF p = q THEN id ELSE a.dirs[p]] = more
  BY <1>1 DEF Known
<1> HIDE DEF a, U
<1>5. [a EXCEPT !.dirs = more] = [ok |-> a.ok, recs |-> a.recs, dirs |-> more]
  BY <1>1, <1>2
<1>6. [a EXCEPT !.dirs = [p \in DOMAIN @ \cup {q} |-> IF p = q THEN id ELSE @[p]]]
        = [a EXCEPT !.dirs = more]
  BY <1>3
<1> QED
  BY <1>1, <1>5, <1>6 DEF Acc, Knows, a

IsChange(c, N) ==
    c.path \in Seq(N) /\ c.path # <<>> /\ c.op \in {"mkdir", "put", "remove"}

\* The changes before this one let it make its path.
Turn(done, c) ==
    /\ c.op = "put" => \A d \in done : d.op \in {"mkdir", "put"} => d.path # c.path
    /\ c.op = "mkdir" => \A d \in done : d.op = "mkdir"

Makes(v, N, done, acc) ==
    \E ok, recs, dirs, w : acc = Acc(ok, recs, dirs) /\ Making(v, N, done, recs, dirs, w)

IsAt(v, nw, w, p, y) ==
    \/ y \in Living(v) /\ Resolve(BuildTree(v), p) = y
    \/ y \in nw /\ w[y] = p

LEMMA NewNat ==
    ASSUME NEW v, NEW recs, IsSession(recs)
    PROVE  New(v, recs) \subseteq Nat /\ \A x \in New(v, recs) : x \notin DOMAIN v /\ x # Root
<1>1. Ids(recs) \in SUBSET Nat
  BY IdsFinite
<1> QED
  BY <1>1 DEF New

LEMMA ResolveDirIs ==
    ASSUME NEW v, Sound(v), Siblings(v), NEW s, s = Snap(v), NEW N, NEW nw, NEW w, NEW dirs,
           GoodDirs(v, N, nw, w, dirs), nw \subseteq Nat, NEW p \in Seq(N),
           NEW y, y = ResolveDir(s, dirs, p)
    PROVE  /\ y # NoNode => IsAt(v, nw, w, p, y) /\ y \in Nat
           /\ p \in DOMAIN dirs => y # NoNode
<1>1. s.view = v /\ s.tree = BuildTree(v)
  BY SnapIs
<1>2. Living(v) \subseteq Nat /\ NoNode \notin Nat
  BY LivingNat
<1>3. CASE p \in DOMAIN dirs
  <2>1. y = dirs[p]
    BY <1>3 DEF ResolveDir
  <2>2. IsAt(v, nw, w, p, dirs[p])
    BY <1>3 DEF GoodDirs, IsAt
  <2> QED
    BY <1>2, <2>1, <2>2 DEF IsAt
<1>4. CASE p \notin DOMAIN dirs
  <2>1. y # NoNode => y = Resolve(BuildTree(v), p)
    BY <1>1, <1>4 DEF ResolveDir
  <2>2. Resolve(BuildTree(v), p) \in NodesOf(v)
    BY ResolveType
  <2> QED
    BY <1>2, <1>4, <2>1, <2>2 DEF IsAt, NodesOf
<1> QED
  BY <1>3, <1>4

\* Nothing is below what is not there, and what does not resolve is no child.
LEMMA NoChildOfNew ==
    ASSUME NEW v, Sound(v), NEW y, y \notin DOMAIN v, y # Root, NEW nm
    PROVE  \A x : ~ChildOf(v, x, y, nm)
<1>1. ASSUME NEW x, ChildOf(v, x, y, nm)
      PROVE  FALSE
  <2>1. x \in DOMAIN v
    BY <1>1, LivingNat DEF ChildOf
  <2>2. Current(v, x).parent \in DOMAIN v \cup {Root}
    BY <2>1 DEF Sound
  <2> QED
    BY <1>1, <2>2 DEF ChildOf
<1> QED
  BY <1>1

LEMMA NoChildFree ==
    ASSUME NEW v, Sound(v), Siblings(v), NEW N, NEW p \in Seq(N), p # <<>>,
           Resolve(BuildTree(v), p) = NoNode,
           NEW y, Resolve(BuildTree(v), Front(p)) = y
    PROVE  \A x : ~ChildOf(v, x, y, Last(p))
<1>1. Splits(p, Front(p), Last(p), N)
  BY PathSplits
<1>2. LiveChild(BuildTree(v), y, Last(p)) = NoNode
  BY <1>1, ResolveStep
<1>3. Finds(v, y, Last(p), NoNode)
  BY <1>2, ChildIs
<1>4. ~ChildOf(v, NoNode, y, Last(p))
  BY LivingNat DEF ChildOf
<1> QED
  BY <1>3, <1>4 DEF Finds

LEMMA MoreDone ==
    ASSUME NEW v, NEW N, NEW done, NEW recs, NEW dirs, NEW w, Making(v, N, done, recs, dirs, w),
           NEW c
    PROVE  Making(v, N, done \cup {c}, recs, dirs, w)
<1>1. Came(v, done \cup {c}, recs, dirs, w)
  <2>1. SUFFICES ASSUME NEW q \in recs, q.id \in New(v, recs)
                 PROVE  IF q.kind = Dir
                        THEN w[q.id] \in DOMAIN dirs
                             /\ \E d \in done \cup {c} : d.op = "mkdir" /\ d.path = w[q.id]
                        ELSE \E d \in done \cup {c} : d.op = "put" /\ d.path = w[q.id]
    BY Zenon DEF Came
  <2> QED
    BY <2>1 DEF Came, Making
<1> QED
  BY <1>1 DEF Making

LEMMA KnownAdds ==
    ASSUME NEW v, NEW N, NEW done, NEW recs, NEW dirs, NEW w, Making(v, N, done, recs, dirs, w),
           NEW q \in Seq(N), NEW y, IsAt(v, New(v, recs), w, q, y)
    PROVE  Making(v, N, done, recs, Known(dirs, q, y), w)
<1> DEFINE more == Known(dirs, q, y)
<1>1. DOMAIN more = DOMAIN dirs \cup {q} /\ more[q] = y /\ \A p \in DOMAIN dirs : p # q => more[p] = dirs[p]
  BY DEF Known
<1> HIDE DEF more
<1>2. GoodDirs(v, N, New(v, recs), w, dirs) /\ Came(v, done, recs, dirs, w)
  BY DEF Making
<1>3. GoodDirs(v, N, New(v, recs), w, more)
  <2>1. DOMAIN more \subseteq Seq(N)
    BY <1>1, <1>2 DEF GoodDirs
  <2>2. ASSUME NEW p \in DOMAIN more
        PROVE  IsAt(v, New(v, recs), w, p, more[p])
    <3>1. CASE p = q
      BY <1>1, <3>1
    <3>2. CASE p # q
      BY <1>1, <1>2, <3>2 DEF GoodDirs, IsAt
    <3> QED
      BY <3>1, <3>2
  <2> QED
    BY <2>1, <2>2 DEF GoodDirs, IsAt
<1>4. Came(v, done, recs, more, w)
  <2>1. SUFFICES ASSUME NEW z \in recs, z.id \in New(v, recs)
                 PROVE  IF z.kind = Dir
                        THEN w[z.id] \in DOMAIN more
                             /\ \E d \in done : d.op = "mkdir" /\ d.path = w[z.id]
                        ELSE \E d \in done : d.op = "put" /\ d.path = w[z.id]
    BY Zenon DEF Came
  <2> QED
    BY <1>1, <1>2, <2>1 DEF Came
<1> QED
  BY <1>3, <1>4 DEF Making, more

LEMMA MkdirMakes ==
    ASSUME NEW v, Sound(v), Siblings(v), NEW s, s = Snap(v), NEW N, NEW done, NEW acc,
           Makes(v, N, done, acc), NEW c, IsChange(c, N), c.op = "mkdir", Turn(done, c)
    PROVE  Makes(v, N, done \cup {c}, MkdirChange(s, acc, c))
<1>1. PICK ok, recs, dirs, w : acc = Acc(ok, recs, dirs) /\ Making(v, N, done, recs, dirs, w)
  BY DEF Makes
<1> DEFINE q == c.path  nw == New(v, recs)  y == ResolveDir(s, dirs, q)
           parent == ResolveDir(s, dirs, Front(q))
           k == Cardinality(recs) + 1
           new == NewId(v, k)
           r == Node(new, Dir, parent, Last(q), NoSection)
<1>2. acc.recs = recs /\ acc.dirs = dirs
  BY <1>1 DEF Acc
<1>3. s.view = v /\ s.tree = BuildTree(v)
  BY SnapIs
<1>4. q \in Seq(N) /\ q # <<>> /\ Front(q) \in Seq(N)
  BY PathSplits DEF IsChange, Splits
<1>5. /\ IsSession(recs) /\ GoodDirs(v, N, nw, w, dirs) /\ Came(v, done, recs, dirs, w)
      /\ nw \subseteq Nat /\ \A x \in nw : x \notin DOMAIN v /\ x # Root
  BY <1>1, NewNat DEF Making
<1>6. \A id : Knows(acc, q, id) = Acc(ok, recs, Known(dirs, q, id))
  BY <1>1, KnownIs
<1>7. Making(v, N, done \cup {c}, recs, dirs, w)
  BY <1>1, MoreDone
<1>8. /\ y # NoNode => IsAt(v, nw, w, q, y) /\ y \in Nat
      /\ q \in DOMAIN dirs => y # NoNode
  BY <1>4, <1>5, ResolveDirIs
<1>9. parent # NoNode => IsAt(v, nw, w, Front(q), parent) /\ parent \in Nat
  BY <1>4, <1>5, ResolveDirIs
<1>10. CASE y # NoNode
  <2>1. MkdirChange(s, acc, c) = Acc(ok, recs, Known(dirs, q, y))
    BY <1>2, <1>6, <1>10 DEF MkdirChange, Knows
  <2>2. Making(v, N, done \cup {c}, recs, Known(dirs, q, y), w)
    BY <1>4, <1>7, <1>8, <1>10, KnownAdds
  <2> QED
    BY <2>1, <2>2 DEF Makes
<1>11. CASE y = NoNode /\ (Resolve(BuildTree(v), q) # NoNode \/ parent = NoNode)
  <2>1. MkdirChange(s, acc, c) = Fail(acc)
    BY <1>2, <1>3, <1>11 DEF MkdirChange
  <2>2. Fail(acc) = Refused(recs, dirs)
    BY <1>1, FailIs
  <2> QED
    BY <1>7, <2>1, <2>2, Zenon DEF Makes, Refused
<1>12. CASE y = NoNode /\ Resolve(BuildTree(v), q) = NoNode /\ parent # NoNode
  <2> DEFINE more == Known(dirs, q, new)
  <2>1. MkdirChange(s, acc, c) = Mark(Acc(ok, recs, more), r)
    BY <1>2, <1>3, <1>6, <1>12 DEF MkdirChange, Knows
  <2>2. new \in Nat /\ k \in Nat
    <3>1. Cardinality(recs) \in Nat
      BY <1>5, FS_CardinalityType DEF IsSession
    <3>2. k \in Nat /\ k # 0
      BY <3>1
    <3> QED
      BY <3>2, NewIdNew
  <2>3. NoSection.kind = "none" /\ Dir # File /\ Dir \in {Dir, File}
    BY DEF NoSection, Dir, File
  <2>4. /\ IsRecord(r) /\ r.id = new /\ r.kind = Dir /\ r.parent = parent
        /\ r.name = Last(q) /\ r.content = NoSection /\ ~r.tomb
    BY <1>9, <1>12, <2>2, <2>3, NodeIs
  <2>5. \A x : ~ChildOf(v, x, parent, Last(q))
    <3>1. CASE parent \in nw
      BY <1>5, <3>1, NoChildOfNew
    <3>2. CASE Resolve(BuildTree(v), Front(q)) = parent
      BY <1>4, <1>12, <3>2, NoChildFree
    <3> QED
      BY <1>9, <1>12, <3>1, <3>2 DEF IsAt
  <2>6. \A x \in nw : w[x] # q
    <3>1. SUFFICES ASSUME NEW x \in nw, w[x] = q
                   PROVE  FALSE
      OBVIOUS
    <3>2. PICK z \in recs : z.id = x
      BY DEF New, Ids
    <3>3. IF z.kind = Dir
          THEN w[x] \in DOMAIN dirs /\ \E d \in done : d.op = "mkdir" /\ d.path = w[x]
          ELSE \E d \in done : d.op = "put" /\ d.path = w[x]
      BY <1>5, <3>2 DEF Came
    <3>4. \A d \in done : d.op = "mkdir"
      BY DEF Turn
    <3>5. q \in DOMAIN dirs
      BY <3>1, <3>3, <3>4
    <3> QED
      BY <1>8, <1>12, <3>5
  <2> HIDE DEF r, new, more, parent, k, y
  <2>7. \/ r.parent \in Living(v) /\ Resolve(BuildTree(v), Front(q)) = r.parent
        \/ r.parent \in nw /\ w[r.parent] = Front(q)
    BY <1>9, <1>12, <2>4 DEF IsAt
  <2>8. r.content.kind # "delta" /\ r.id = NewId(v, Cardinality(recs) + 1)
    BY <2>3, <2>4 DEF new, k
  <2>9. more = DirsWith(dirs, c, r)
    BY <2>4 DEF more, DirsWith
  <2>10. c.op = IF r.kind = Dir THEN "mkdir" ELSE "put"
    BY <2>4
  <2>11. \A x : ~ChildOf(v, x, r.parent, r.name)
    BY <2>4, <2>5
  <2>b. Brings(v, N, recs, w, c, r)
    BY <1>4, <2>4, <2>6, <2>7, <2>8, <2>10, <2>11 DEF Brings
  <2>12. /\ r.id \notin Ids(recs)
         /\ \E u : Making(v, N, done \cup {c}, recs \cup {r}, more, u)
    BY <1>1, <2>b, <2>9, NewAdds
  <2>13. MkdirChange(s, acc, c) = Acc(ok, recs \cup {r}, more)
    BY <2>1, <2>12, MarkIs
  <2> QED
    BY <2>12, <2>13 DEF Makes
<1> QED
  BY <1>10, <1>11, <1>12

LEMMA PutMakes ==
    ASSUME NEW v, Sound(v), Siblings(v), NEW s, s = Snap(v), NEW N, NEW done, NEW acc,
           Makes(v, N, done, acc), NEW c, IsChange(c, N), c.op = "put", Turn(done, c)
    PROVE  Makes(v, N, done \cup {c}, PutChange(s, acc, c))
<1>1. PICK ok, recs, dirs, w : acc = Acc(ok, recs, dirs) /\ Making(v, N, done, recs, dirs, w)
  BY DEF Makes
<1> DEFINE q == c.path  nw == New(v, recs)
           parent == ResolveDir(s, dirs, Front(q))
           k == Cardinality(recs) + 1
           r == FileRecord(s, parent, Last(q), c.content, k)
<1>2. acc.recs = recs /\ acc.dirs = dirs
  BY <1>1 DEF Acc
<1>3. s.view = v /\ s.tree = BuildTree(v)
  BY SnapIs
<1>4. q \in Seq(N) /\ q # <<>> /\ Front(q) \in Seq(N)
  BY PathSplits DEF IsChange, Splits
<1>5. /\ IsSession(recs) /\ GoodDirs(v, N, nw, w, dirs) /\ Came(v, done, recs, dirs, w)
      /\ nw \subseteq Nat /\ \A x \in nw : x \notin DOMAIN v /\ x # Root
  BY <1>1, NewNat DEF Making
<1>7. Making(v, N, done \cup {c}, recs, dirs, w)
  BY <1>1, MoreDone
<1>9. parent # NoNode => IsAt(v, nw, w, Front(q), parent) /\ parent \in Nat
  BY <1>4, <1>5, ResolveDirIs
<1>10. CASE PutChange(s, acc, c) = Fail(acc)
  <2>1. Fail(acc) = Refused(recs, dirs)
    BY <1>1, FailIs
  <2> QED
    BY <1>7, <1>10, <2>1, Zenon DEF Makes, Refused
<1>11. CASE PutChange(s, acc, c) = acc
  BY <1>1, <1>7, <1>11, Zenon DEF Makes
<1>12. CASE /\ parent # NoNode /\ Writable(s, parent, Last(q))
            /\ PutChange(s, acc, c) = Mark(acc, r)
  <2>1. k \in Nat
    BY <1>5, FS_CardinalityType DEF IsSession
  <2>2. Writes(v, r, parent, Last(q), k)
    BY <1>9, <1>12, <2>1, FileRecordIs
  <2> HIDE DEF r, parent, q
  <2>3. CASE r.id \in Ids(recs)
    <3>1. Mark(acc, r) = Refused(recs, dirs)
      BY <1>1, <2>3, MarkTwice
    <3> QED
      BY <1>7, <1>12, <3>1, Zenon DEF Makes, Refused
  <2>4. CASE r.id \notin Ids(recs) /\ ChildOf(v, r.id, parent, Last(q))
    <3>1. Mark(acc, r) = Acc(ok, recs \cup {r}, dirs)
      BY <1>1, <2>4, MarkIs
    <3>2. Dir # File
      BY DEF Dir, File
    <3>3. /\ IsRecord(r) /\ r.kind = File /\ r.parent = parent /\ r.name = Last(q)
          /\ r.content.kind = "delta" => MayDelta(v, r.id)
      <4>1. CASE \A x : ~ChildOf(v, x, parent, Last(q))
        BY <2>4, <4>1
      <4>2. CASE ~\A x : ~ChildOf(v, x, parent, Last(q))
        BY <2>2, <4>2 DEF Writes
      <4> QED
        BY <4>1, <4>2
    <3>4. Current(v, r.id).kind = File
      BY <2>2, <2>4 DEF Writes
    <3>5. r.id \in DOMAIN v /\ r.id # Root /\ r.id \in Living(v)
      BY <2>4, LivingNat DEF ChildOf
    <3>6. GoodOld(v, r)
      BY <2>4, <3>3, <3>4, <3>5 DEF GoodOld, ChildOf, SamePlace
    <3>7. Making(v, N, done \cup {c}, recs \cup {r}, dirs, w)
      <4> DEFINE more == done \cup {c}
      <4>1. done \subseteq more
        OBVIOUS
      <4> HIDE DEF more
      <4>2. Making(v, N, more, recs \cup {r}, dirs, w)
        BY <1>1, <2>4, <3>3, <3>5, <3>6, <4>1, OldAdds
      <4> QED
        BY <4>2 DEF more
    <3> QED
      BY <1>12, <3>1, <3>7, Zenon DEF Makes
  <2>5. CASE r.id \notin Ids(recs) /\ ~ChildOf(v, r.id, parent, Last(q))
    <3>1. Mark(acc, r) = Acc(ok, recs \cup {r}, dirs)
      BY <1>1, <2>5, MarkIs
    <3>2. /\ IsRecord(r) /\ ~r.tomb /\ r.kind = File /\ r.parent = parent /\ r.name = Last(q)
          /\ \A x : ~ChildOf(v, x, parent, Last(q))
          /\ r.id = NewId(v, k) /\ r.content.kind # "delta"
      BY <2>2, <2>5 DEF Writes
    <3>3. r.kind # Dir
      BY <3>2 DEF Dir, File
    <3>4. \A x \in nw : w[x] # q
      <4>1. SUFFICES ASSUME NEW x \in nw, w[x] = q
                     PROVE  FALSE
        OBVIOUS
      <4>2. PICK z \in recs : z.id = x
        BY DEF New, Ids
      <4>3. IF z.kind = Dir
            THEN w[x] \in DOMAIN dirs /\ \E d \in done : d.op = "mkdir" /\ d.path = w[x]
            ELSE \E d \in done : d.op = "put" /\ d.path = w[x]
        BY <1>5, <4>2 DEF Came
      <4>4. \A d \in done : d.op \in {"mkdir", "put"} => d.path # q
        BY DEF Turn, q
      <4> QED
        BY <4>1, <4>3, <4>4
    <3>5. \/ r.parent \in Living(v) /\ Resolve(BuildTree(v), Front(q)) = r.parent
          \/ r.parent \in nw /\ w[r.parent] = Front(q)
      BY <1>9, <1>12, <3>2 DEF IsAt
    <3>6. c.op = IF r.kind = Dir THEN "mkdir" ELSE "put"
      BY <3>3
    <3>7. Brings(v, N, recs, w, c, r)
      BY <1>4, <3>2, <3>4, <3>5, <3>6 DEF Brings, q
    <3>8. DirsWith(dirs, c, r) = dirs
      BY <3>3 DEF DirsWith
    <3>9. \E u : Making(v, N, done \cup {c}, recs \cup {r}, DirsWith(dirs, c, r), u)
      BY <1>1, <3>7, NewAdds
    <3> QED
      BY <1>12, <3>1, <3>8, <3>9, Zenon DEF Makes
  <2> QED
    BY <2>3, <2>4, <2>5
<1> QED
  BY <1>2, <1>10, <1>11, <1>12 DEF PutChange

LEMMA RemoveMakes ==
    ASSUME NEW v, Sound(v), Siblings(v), NEW s, s = Snap(v), NEW N, NEW done, NEW acc,
           Makes(v, N, done, acc), NEW c, IsChange(c, N)
    PROVE  Makes(v, N, done \cup {c}, RemoveChange(s, acc, c))
<1>1. PICK ok, recs, dirs, w : acc = Acc(ok, recs, dirs) /\ Making(v, N, done, recs, dirs, w)
  BY DEF Makes
<1> DEFINE q == c.path  id == Resolve(BuildTree(v), q)  old == Current(v, id)
           r == Tombstone(old)
<1>3. s.view = v /\ s.tree = BuildTree(v)
  BY SnapIs
<1>4. q \in Seq(N) /\ q # <<>> /\ Splits(q, Front(q), Last(q), N)
  BY PathSplits DEF IsChange
<1>7. Making(v, N, done \cup {c}, recs, dirs, w)
  BY <1>1, MoreDone
<1>10. CASE id = NoNode
  <2>1. Fail(acc) = Refused(recs, dirs)
    BY <1>1, FailIs
  <2>2. RemoveChange(s, acc, c) = Fail(acc)
    BY <1>3, <1>10 DEF RemoveChange
  <2> QED
    BY <1>7, <2>1, <2>2, Zenon DEF Makes, Refused
<1>11. CASE id # NoNode
  <2>1. id \in Living(v) \ {Root}
    BY <1>4, <1>11, ResolveFound
  <2>2. id \in DOMAIN v /\ id # Root /\ id \in Living(v)
    BY <2>1, LivingNat
  <2>3. IsRecord(old) /\ old.id = id
    BY <2>2 DEF Sound
  <2>4. RemoveChange(s, acc, c) = Mark(acc, r)
    BY <1>3, <1>11 DEF RemoveChange
  <2> HIDE DEF old
  <2>5. /\ IsRecord(r) /\ r.id = id /\ r.kind = old.kind /\ r.parent = old.parent
        /\ r.name = old.name /\ r.content = NoSection /\ r.tomb
    BY <2>3, TombIs
  <2> HIDE DEF r, id, q
  <2>6. CASE r.id \in Ids(recs)
    <3>1. Mark(acc, r) = Refused(recs, dirs)
      BY <1>1, <2>6, MarkTwice
    <3> QED
      BY <1>7, <2>4, <3>1, Zenon DEF Makes, Refused
  <2>7. CASE r.id \notin Ids(recs)
    <3>1. Mark(acc, r) = Acc(ok, recs \cup {r}, dirs)
      BY <1>1, <2>7, MarkIs
    <3>2. GoodOld(v, r)
      BY <2>2, <2>5 DEF GoodOld, SamePlace, old
    <3>3. r.content.kind # "delta"
      BY <2>5 DEF NoSection
    <3>4. r.id \in DOMAIN v /\ r.id # Root
      BY <2>2, <2>5
    <3> DEFINE more == done \cup {c}
    <3>5. done \subseteq more
      OBVIOUS
    <3> HIDE DEF more
    <3>6. Making(v, N, more, recs \cup {r}, dirs, w)
      BY <1>1, <2>5, <2>7, <3>2, <3>3, <3>4, <3>5, OldAdds
    <3> QED
      BY <2>4, <3>1, <3>6, Zenon DEF Makes, more
  <2> QED
    BY <2>6, <2>7
<1> QED
  BY <1>10, <1>11

LEMMA OneMakes ==
    ASSUME NEW v, Sound(v), Siblings(v), NEW s, s = Snap(v), NEW N, NEW done, NEW acc,
           Makes(v, N, done, acc), NEW c, IsChange(c, N), Turn(done, c)
    PROVE  Makes(v, N, done \cup {c}, OneChange(s, acc, c))
<1>1. CASE ~acc.ok
  <2>1. OneChange(s, acc, c) = acc
    BY <1>1 DEF OneChange
  <2>2. Makes(v, N, done \cup {c}, acc)
    <3>1. PICK ok, recs, dirs, w : acc = Acc(ok, recs, dirs) /\ Making(v, N, done, recs, dirs, w)
      BY DEF Makes
    <3>2. Making(v, N, done \cup {c}, recs, dirs, w)
      BY <3>1, MoreDone
    <3> QED
      BY <3>1, <3>2, Zenon DEF Makes
  <2> QED
    BY <2>1, <2>2
<1>2. CASE acc.ok
  <2>1. CASE c.op = "mkdir"
    <3>1. OneChange(s, acc, c) = MkdirChange(s, acc, c)
      BY <1>2, <2>1 DEF OneChange
    <3>2. Makes(v, N, done \cup {c}, MkdirChange(s, acc, c))
      BY <2>1, MkdirMakes
    <3> QED
      BY <3>1, <3>2
  <2>2. CASE c.op = "put"
    <3>1. OneChange(s, acc, c) = PutChange(s, acc, c)
      BY <1>2, <2>2 DEF OneChange
    <3>2. Makes(v, N, done \cup {c}, PutChange(s, acc, c))
      BY <2>2, PutMakes
    <3> QED
      BY <3>1, <3>2
  <2>3. CASE c.op = "remove"
    <3>1. OneChange(s, acc, c) = RemoveChange(s, acc, c)
      BY <1>2, <2>3 DEF OneChange
    <3>2. Makes(v, N, done \cup {c}, RemoveChange(s, acc, c))
      BY RemoveMakes
    <3> QED
      BY <3>1, <3>2
  <2> QED
    BY <2>1, <2>2, <2>3 DEF IsChange
<1> QED
  BY <1>1, <1>2

Orderly(todo, N) ==
    /\ Len(todo) \in Nat
    /\ \A k \in 1..Len(todo) :
        IsChange(todo[k], N) /\ Turn({todo[i] : i \in 1..(k - 1)}, todo[k])

Start == [ok |-> TRUE, recs |-> {}, dirs |-> [p \in {<<>>} |-> Root]]

Goes(g, s, todo, k) ==
    /\ g = [i \in 0..k |-> g[i]] /\ g[0] = Start
    /\ \A i \in 1..k : g[i] = OneChange(s, g[i - 1], todo[i])

LEMMA BatchIs ==
    ASSUME NEW s, NEW changes, NEW todo, todo = Ordered(changes), NEW n \in Nat, n = Len(todo)
    PROVE  \E g : Goes(g, s, todo, n) /\ Batch(s, changes) = g[n]
<1> DEFINE h == CHOOSE h : h = [k \in 0..n |->
                    IF k = 0 THEN [ok |-> TRUE, recs |-> {}, dirs |-> [p \in {<<>>} |-> Root]]
                    ELSE OneChange(s, h[k - 1], todo[k])]
           S == {k \in 0..n : \E g : Goes(g, s, todo, k)}
<1>1. 0 \in S
  <2> DEFINE g == [i \in 0..0 |-> Start]
  <2>1. Goes(g, s, todo, 0)
    BY DEF Goes
  <2> QED
    BY <2>1
<1>2. ASSUME NEW k \in 0..(n - 1), k \in S
      PROVE  k + 1 \in S
  <2>1. PICK g : Goes(g, s, todo, k)
    BY <1>2
  <2> DEFINE z == k + 1  y == OneChange(s, g[k], todo[z])
             f == [i \in 0..z |-> IF i = z THEN y ELSE g[i]]
  <2>2. z \in 0..n /\ k = z - 1 /\ z \in 0..z /\ \A i \in 0..k : i \in 0..z /\ i # z
    OBVIOUS
  <2>3. \A i \in 1..z : i - 1 \in 0..k /\ i \in 0..z /\ (i = z \/ i \in 1..k)
    OBVIOUS
  <2>4. f = [i \in 0..z |-> f[i]] /\ f[z] = y /\ \A i \in 0..k : f[i] = g[i]
    BY <2>2
  <2> HIDE DEF z, f
  <2>5. f[0] = Start
    BY <2>1, <2>4 DEF Goes
  <2>6. ASSUME NEW i \in 1..z
        PROVE  f[i] = OneChange(s, f[i - 1], todo[i])
    <3>1. CASE i = z
      BY <2>2, <2>3, <2>4, <3>1
    <3>2. CASE i # z
      <4>1. i \in 1..k /\ i \in 0..k /\ i - 1 \in 0..k
        BY <2>3, <3>2
      <4> QED
        BY <2>1, <2>4, <4>1 DEF Goes
    <3> QED
      BY <3>1, <3>2
  <2>7. Goes(f, s, todo, z)
    BY <2>4, <2>5, <2>6 DEF Goes
  <2> QED
    BY <2>2, <2>7 DEF z
<1> HIDE DEF S
<1>3. n \in S
  BY <1>1, <1>2, UpTo
<1>4. PICK g : Goes(g, s, todo, n)
  BY <1>3 DEF S
<1>5. g = [k \in 0..n |-> IF k = 0 THEN Start ELSE OneChange(s, g[k - 1], todo[k])]
  <2>1. ASSUME NEW k \in 0..n
        PROVE  g[k] = IF k = 0 THEN Start ELSE OneChange(s, g[k - 1], todo[k])
    BY <1>4 DEF Goes
  <2>2. g = [k \in 0..n |-> g[k]]
    BY <1>4 DEF Goes
  <2> QED
    BY <2>1, <2>2
<1>6. h = [k \in 0..n |-> IF k = 0 THEN Start ELSE OneChange(s, h[k - 1], todo[k])]
  BY <1>5 DEF Start
<1>7. Batch(s, changes) = h[n]
  BY DEF Batch
<1> HIDE DEF h
<1>8. Goes(h, s, todo, n)
  <2>1. \A k \in 1..n : k \in 0..n /\ k # 0
    OBVIOUS
  <2>2. 0 \in 0..n
    OBVIOUS
  <2> QED
    BY <1>6, <2>1, <2>2 DEF Goes
<1> QED
  BY <1>7, <1>8

LEMMA StartMakes ==
    ASSUME NEW v, Sound(v), Siblings(v), NEW N
    PROVE  Makes(v, N, {}, Start)
<1> DEFINE dirs == [p \in {<<>>} |-> Root]  w == [n \in Nat |-> <<>>]  recs == {}
<1>1. Start = Acc(TRUE, recs, dirs)
  BY DEF Start, Acc
<1>2. w \in [Nat -> Seq(N)] /\ <<>> \in Seq(N)
  OBVIOUS
<1>3. IsSession({}) /\ New(v, {}) = {}
  BY FS_EmptySet DEF IsSession, New, Ids
<1>4. GoodDirs(v, N, New(v, {}), w, dirs)
  <2>1. Root \in Living(v) /\ Resolve(BuildTree(v), <<>>) = Root
    BY RootLives, ResolveNone
  <2> QED
    BY <1>2, <2>1 DEF GoodDirs
<1>5. Making(v, N, {}, {}, dirs, w)
  BY <1>2, <1>3, <1>4 DEF Making, Numbered, Came, OnePath
<1> QED
  BY <1>1, <1>5 DEF Makes

LEMMA BatchMakes ==
    ASSUME NEW v, Sound(v), Siblings(v), NEW s, s = Snap(v), NEW N, NEW changes,
           Orderly(Ordered(changes), N)
    PROVE  \E done : Makes(v, N, done, Batch(s, changes))
<1> DEFINE todo == Ordered(changes)  n == Len(todo)
           done(k) == {todo[i] : i \in 1..k}
<1>1. n \in Nat /\ \A k \in 1..n : IsChange(todo[k], N) /\ Turn(done(k - 1), todo[k])
  BY DEF Orderly
<1>2. PICK g : Goes(g, s, todo, n) /\ Batch(s, changes) = g[n]
  BY <1>1, BatchIs
<1> HIDE DEF todo, n
<1> DEFINE S == {k \in 0..n : Makes(v, N, done(k), g[k])}
<1>3. 0 \in S
  <2>1. done(0) = {} /\ g[0] = Start /\ 0 \in 0..n
    BY <1>1, <1>2 DEF Goes
  <2> QED
    BY <2>1, StartMakes
<1>4. ASSUME NEW k \in 0..(n - 1), k \in S
      PROVE  k + 1 \in S
  <2> DEFINE z == k + 1
  <2>1. z \in 1..n /\ z \in 0..n /\ z - 1 = k
    BY <1>1
  <2>2. done(z) = done(k) \cup {todo[z]}
    <3>1. \A i : i \in 1..z <=> i \in 1..k \/ i = z
      BY <1>1
    <3> HIDE DEF z
    <3> QED
      BY <3>1
  <2> HIDE DEF z
  <2>3. g[z] = OneChange(s, g[k], todo[z])
    BY <1>2, <2>1 DEF Goes
  <2>4. IsChange(todo[z], N) /\ Turn(done(k), todo[z])
    BY <1>1, <2>1
  <2>5. Makes(v, N, done(k), g[k])
    BY <1>4
  <2> HIDE DEF done
  <2>6. Makes(v, N, done(k) \cup {todo[z]}, OneChange(s, g[k], todo[z]))
    BY <2>4, <2>5, OneMakes
  <2> QED
    BY <2>1, <2>2, <2>3, <2>6 DEF z
<1> HIDE DEF S
<1>5. n \in S
  BY <1>1, <1>3, <1>4, UpTo
<1> QED
  BY <1>2, <1>5 DEF S

-----------------------------------------------------------------------------
(* What a batch commits fits, and is one node for every name.              *)

\* Nodes that were there stay where they are, new ones are below these and below
\* new ones with a smaller id.
Rises(v, recs) ==
    \A r \in recs :
        /\ r.id \in DOMAIN v => r.parent = Current(v, r.id).parent
        /\ r.id \notin DOMAIN v =>
                r.parent \in Living(v) \/ (r.parent \in New(v, recs) /\ r.parent < r.id)

LEMMA OldParent ==
    ASSUME NEW v, Sound(v), NEW r, GoodOld(v, r), r.id \in DOMAIN v, r.id # Root
    PROVE  /\ r.parent = Current(v, r.id).parent /\ r.parent \in Living(v)
           /\ r.parent \in DOMAIN v \cup {Root} /\ ChildOf(v, r.id, r.parent, r.name)
<1>1. r.id \in Living(v) /\ r.parent = Current(v, r.id).parent /\ r.name = Current(v, r.id).name
  BY DEF GoodOld, SamePlace
<1>2. Current(v, r.id).parent \in Living(v)
  BY <1>1, LivingIs
<1> QED
  BY <1>1, <1>2, LivingNat DEF ChildOf

LEMMA MakingFits ==
    ASSUME NEW v, Sound(v), NEW N, NEW done, NEW recs, NEW dirs, NEW w,
           Making(v, N, done, recs, dirs, w)
    PROVE  Fits(v, recs) /\ Rises(v, recs)
<1> DEFINE nw == New(v, recs)
<1>1. IsSession(recs) /\ \A r \in recs : GoodRec(v, nw, w, r)
  BY DEF Making
<1>2. Living(v) \subseteq DOMAIN v \cup {Root} /\ nw \subseteq Ids(recs)
  BY LivingNat DEF New
<1>3. ASSUME NEW r \in recs
      PROVE  /\ r.id # Root
             /\ r.id \in DOMAIN v => r.id \in Living(v) /\ r.kind = Current(v, r.id).kind
             /\ r.content.kind = "delta" => r.id \in DOMAIN v /\ MayDelta(v, r.id)
  BY <1>1 DEF GoodRec, GoodOld
<1>4. ASSUME NEW r \in recs
      PROVE  /\ r.parent \in Living(v) \cup nw
             /\ r.id \in DOMAIN v => r.parent = Current(v, r.id).parent
             /\ r.id \notin DOMAIN v =>
                    r.parent \in Living(v) \/ (r.parent \in nw /\ r.parent < r.id)
  <2>1. CASE r.id \in DOMAIN v
    <3>1. GoodOld(v, r) /\ r.id # Root
      BY <1>1, <2>1 DEF GoodRec
    <3> QED
      BY <2>1, <3>1, OldParent
  <2>2. CASE r.id \notin DOMAIN v
    <3>1. Comes(v, nw, w, r)
      BY <1>1, <2>2 DEF GoodRec, GoodNew
    <3> QED
      BY <2>2, <3>1 DEF Comes
  <2> QED
    BY <2>1, <2>2
<1> HIDE DEF nw
<1>5. ASSUME NEW r \in recs
      PROVE  r.parent \in DOMAIN v \cup {Root} \cup Ids(recs)
  BY <1>2, <1>4
<1>6. Rises(v, recs)
  BY <1>4 DEF Rises, nw
<1>7. Fits(v, recs)
  BY <1>1, <1>3, <1>4, <1>5 DEF Fits, nw
<1> QED
  BY <1>6, <1>7

LEMMA MakingApart ==
    ASSUME NEW v, Sound(v), Siblings(v), NEW N, NEW done, NEW recs, NEW dirs, NEW w,
           Making(v, N, done, recs, dirs, w)
    PROVE  Apart(v, recs)
<1> DEFINE nw == New(v, recs)
<1>1. /\ IsSession(recs) /\ \A r \in recs : GoodRec(v, nw, w, r)
      /\ w \in [Nat -> Seq(N)] /\ OnePath(nw, w)
  BY DEF Making
<1>2. Living(v) \subseteq DOMAIN v \cup {Root} /\ NoNode \notin Living(v)
  BY LivingNat
<1>n. \A r \in recs : r.id \in DOMAIN v \/ r.id \in nw
  BY <1>1 DEF New, Ids, GoodRec
<1>o. \A x \in nw : x \in Nat /\ x \notin DOMAIN v /\ x # Root
  BY <1>1, NewNat
<1> HIDE DEF nw
<1>3. ASSUME NEW r \in recs, NEW q \in recs, r.id \notin DOMAIN v, q.id \notin DOMAIN v,
             SamePlace(q, r)
      PROVE  q.id = r.id
  <2> DEFINE a == w[r.id]  b == w[q.id]
  <2>1. Comes(v, nw, w, r) /\ Comes(v, nw, w, q)
    BY <1>1, <1>3 DEF GoodRec, GoodNew
  <2>2. r.id \in nw /\ q.id \in nw /\ r.id \in Nat /\ q.id \in Nat
    BY <1>3, <1>n, <1>o
  <2>3. a \in Seq(N) /\ a # <<>> /\ b \in Seq(N) /\ b # <<>>
    BY <1>1, <2>1, <2>2 DEF Comes
  <2>4. r.parent = q.parent /\ r.name = q.name /\ r.name = Last(a) /\ q.name = Last(b)
    BY <1>3, <2>1 DEF Comes, SamePlace
  <2> HIDE DEF a, b
  <2>5. /\ a = Append(Front(a), Last(a)) /\ Front(a) \in Seq(N)
        /\ b = Append(Front(b), Last(b)) /\ Front(b) \in Seq(N)
    BY <2>3, PathSplits DEF Splits
  <2>6. Front(a) = Front(b)
    <3>1. CASE r.parent \in nw
      BY <1>2, <1>o, <2>1, <2>4, <3>1 DEF Comes, a, b
    <3>2. CASE r.parent \notin nw
      <4>1. /\ Resolve(BuildTree(v), Front(a)) = Resolve(BuildTree(v), Front(b))
            /\ Resolve(BuildTree(v), Front(a)) # NoNode
        BY <1>2, <2>1, <2>4, <3>2 DEF Comes, a, b
      <4> QED
        BY <2>5, <4>1, ResolveOnce
    <3> QED
      BY <3>1, <3>2
  <2>7. a = b
    BY <2>4, <2>5, <2>6
  <2> QED
    BY <1>1, <2>2, <2>7 DEF OnePath, a, b
<1>4. ASSUME NEW r \in recs, r.id \in DOMAIN v
      PROVE  ChildOf(v, r.id, r.parent, r.name)
  <2>1. GoodOld(v, r) /\ r.id # Root
    BY <1>1, <1>4 DEF GoodRec
  <2> QED
    BY <1>4, <2>1, OldParent
<1>5. ASSUME NEW r \in recs, r.id \notin DOMAIN v, NEW x
      PROVE  ~ChildOf(v, x, r.parent, r.name)
  BY <1>1, <1>5 DEF GoodRec, GoodNew
<1>6. ASSUME NEW x, NEW y, NEW p, NEW nm, ChildOf(v, x, p, nm), ChildOf(v, y, p, nm)
      PROVE  x = y
  BY <1>6 DEF ChildOf, Siblings, SamePlace
<1>7. ASSUME NEW r \in recs, NEW q \in recs, SamePlace(q, r)
      PROVE  q.id = r.id
  <2>1. q.parent = r.parent /\ q.name = r.name
    BY <1>7 DEF SamePlace
  <2>2. CASE r.id \in DOMAIN v /\ q.id \in DOMAIN v
    BY <1>4, <1>6, <2>1, <2>2
  <2>3. CASE r.id \notin DOMAIN v /\ q.id \in DOMAIN v
    BY <1>4, <1>5, <2>1, <2>3
  <2>4. CASE r.id \in DOMAIN v /\ q.id \notin DOMAIN v
    BY <1>4, <1>5, <2>1, <2>4
  <2>5. CASE r.id \notin DOMAIN v /\ q.id \notin DOMAIN v
    BY <1>3, <1>7, <2>5
  <2> QED
    BY <2>2, <2>3, <2>4, <2>5
<1>8. ASSUME NEW r \in recs, NEW o \in Living(v) \ {Root}, SamePlace(Current(v, o), r)
      PROVE  o = r.id
  <2>1. ChildOf(v, o, r.parent, r.name)
    BY <1>8 DEF ChildOf, SamePlace
  <2> QED
    BY <1>4, <1>5, <1>6, <2>1
<1>9. SUFFICES ASSUME NEW r \in recs, NEW o \in (Living(v) \ {Root}) \cup Ids(recs),
                      SamePlace(After(v, recs, o), r)
               PROVE  o = r.id
  BY DEF Apart
<1>10. CASE o \in Ids(recs)
  <2>1. The(recs, o) \in recs /\ The(recs, o).id = o /\ After(v, recs, o) = The(recs, o)
    BY <1>1, <1>10, TheIs DEF After
  <2> QED
    BY <1>7, <1>9, <2>1
<1>11. CASE o \notin Ids(recs)
  <2>1. o \in Living(v) \ {Root} /\ After(v, recs, o) = Current(v, o)
    BY <1>9, <1>11 DEF After
  <2> QED
    BY <1>8, <1>9, <2>1
<1> QED
  BY <1>10, <1>11

-----------------------------------------------------------------------------
(* The members of a sequence at some places, in their order.               *)

Selects(g, s, keep, n) ==
    /\ g[0] = <<>>
    /\ \A k \in 1..n : g[k] = IF k \in keep THEN Append(g[k - 1], s[k]) ELSE g[k - 1]

LEMMA SelectExists ==
    ASSUME NEW C, NEW s \in Seq(C), NEW n \in Nat, n = Len(s), NEW keep
    PROVE  \E g : g \in [0..n -> Seq(C)] /\ Selects(g, s, keep, n)
<1> DEFINE D == Seq(C)
           more(k, y) == IF k \in keep THEN Append(y, s[k]) ELSE y
           F == [p \in (1..n) \X D |-> more(p[1], p[2])]
<1>1. ASSUME NEW k \in 1..n, NEW y \in D
      PROVE  more(k, y) \in D
  <2>1. s[k] \in C
    OBVIOUS
  <2> QED
    BY <2>1
<1>2. <<>> \in D
  OBVIOUS
<1> HIDE DEF D, more
<1>3. \A p \in (1..n) \X D : more(p[1], p[2]) \in D
  BY <1>1
<1>4. Steps(F, n, D)
  <2>1. F \in [(1..n) \X D -> D]
    BY <1>3
  <2> QED
    BY <2>1, Zenon DEF Steps
<1>5. \A k \in 1..n, y \in D : F[<<k, y>>] = more(k, y)
  OBVIOUS
<1> HIDE DEF F
<1>6. PICK g : Solution(g, n, D, <<>>, F)
  BY <1>2, <1>4, Recursion
<1>7. g \in [0..n -> D] /\ g[0] = <<>> /\ \A i \in 1..n : g[i] = F[<<i, g[i - 1]>>]
  BY <1>6, Zenon DEF Solution
<1>8. ASSUME NEW k \in 1..n
      PROVE  g[k] = more(k, g[k - 1])
  <2>1. k - 1 \in 0..n
    OBVIOUS
  <2>2. g[k - 1] \in D
    BY <2>1, <1>7
  <2> QED
    BY <2>2, <1>5, <1>7, Zenon
<1>9. Selects(g, s, keep, n)
  BY <1>7, <1>8 DEF Selects, more
<1> QED
  BY <1>7, <1>9 DEF D

Picks(f, y, s, keep, k) ==
    /\ f \in [1..Len(y) -> 1..k]
    /\ \A i \in 1..Len(y) : f[i] \in keep /\ y[i] = s[f[i]]
    /\ \A i \in 1..Len(y) : \A j \in 1..(i - 1) : f[j] < f[i]

LEMMA PickNext ==
    ASSUME NEW C, NEW s \in Seq(C), NEW keep, NEW k \in 1..Len(s), k \in keep,
           NEW y \in Seq(C), NEW f, Picks(f, y, s, keep, k - 1)
    PROVE  \E g : Picks(g, Append(y, s[k]), s, keep, k)
<1> DEFINE m == Len(y)  z == Append(y, s[k])  l == Len(y) + 1
           g == [i \in 1..l |-> IF i = l THEN k ELSE f[i]]
<1>1. m \in Nat /\ Len(z) = l /\ z[l] = s[k] /\ \A i \in 1..m : z[i] = y[i]
  OBVIOUS
<1>2. \A i \in 1..l : i = l \/ i \in 1..m
  BY <1>1
<1>3. /\ \A i \in 1..m : f[i] \in 1..(k - 1) /\ f[i] \in keep /\ y[i] = s[f[i]]
      /\ \A i \in 1..m : \A j \in 1..(i - 1) : f[j] < f[i]
  BY DEF Picks
<1>4. l \in 1..l /\ g[l] = k /\ \A i \in 1..m : i \in 1..l /\ i # l /\ g[i] = f[i]
  BY <1>1
<1>5. \A i \in 1..m : f[i] \in 1..k /\ f[i] < k
  BY <1>3
<1>6. k \in 1..k
  OBVIOUS
<1>7. g \in [1..l -> 1..k]
  BY <1>2, <1>5, <1>6
<1> HIDE DEF g, m, z
<1>8. ASSUME NEW i \in 1..l
      PROVE  g[i] \in keep /\ z[i] = s[g[i]]
  BY <1>1, <1>2, <1>3, <1>4
<1>9. ASSUME NEW i \in 1..l, NEW j \in 1..(i - 1)
      PROVE  g[j] < g[i]
  <2>1. j \in 1..m
    BY <1>1 DEF m
  <2>2. CASE i = l
    BY <1>4, <1>5, <2>1, <2>2
  <2>3. CASE i # l
    BY <1>2, <1>3, <1>4, <2>1, <2>3
  <2> QED
    BY <2>2, <2>3
<1>10. Picks(g, z, s, keep, k)
  BY <1>1, <1>7, <1>8, <1>9 DEF Picks
<1> QED
  BY <1>10 DEF z

LEMMA SelectIs ==
    ASSUME NEW C, NEW s \in Seq(C), NEW n \in Nat, n = Len(s), NEW keep,
           NEW g, Selects(g, s, keep, n)
    PROVE  \A k \in 0..n : g[k] \in Seq(C) /\ \E f : Picks(f, g[k], s, keep, k)
<1> DEFINE S == {k \in 0..n : g[k] \in Seq(C) /\ \E f : Picks(f, g[k], s, keep, k)}
<1>1. 0 \in S
  <2> DEFINE f == [i \in 1..0 |-> i]
  <2>1. g[0] = <<>> /\ g[0] \in Seq(C) /\ Len(g[0]) = 0
    BY DEF Selects
  <2>2. Picks(f, g[0], s, keep, 0)
    BY <2>1 DEF Picks
  <2>3. 0 \in 0..n
    OBVIOUS
  <2> HIDE DEF f
  <2> QED
    BY <2>1, <2>2, <2>3
<1>2. ASSUME NEW k \in 0..(n - 1), k \in S
      PROVE  k + 1 \in S
  <2> DEFINE z == k + 1
  <2>1. z \in 1..n /\ z \in 0..n /\ z - 1 = k /\ z \in 1..Len(s)
    OBVIOUS
  <2>2. g[k] \in Seq(C)
    BY <1>2
  <2>3. PICK f : Picks(f, g[k], s, keep, k)
    BY <1>2
  <2> HIDE DEF z
  <2>4. CASE z \in keep
    <3>1. g[z] = Append(g[k], s[z])
      BY <2>1, <2>4 DEF Selects
    <3>2. s[z] \in C
      BY <2>1
    <3>3. g[z] \in Seq(C)
      BY <2>2, <3>1, <3>2
    <3>4. \E h : Picks(h, Append(g[k], s[z]), s, keep, z)
      BY <2>1, <2>2, <2>3, <2>4, PickNext
    <3> QED
      BY <2>1, <3>1, <3>3, <3>4 DEF z
  <2>5. CASE z \notin keep
    <3>1. g[z] = g[k]
      BY <2>1, <2>5 DEF Selects
    <3>2. \A i : i \in 1..k => i \in 1..z
      BY <2>1
    <3>3. Picks(f, g[k], s, keep, z)
      BY <2>3, <3>2 DEF Picks
    <3> QED
      BY <2>1, <2>2, <3>1, <3>3 DEF z
  <2> QED
    BY <2>4, <2>5
<1> HIDE DEF S
<1>3. 0..n \subseteq S
  BY <1>1, <1>2, UpTo
<1> QED
  BY <1>3 DEF S

LEMMA ThoseIs ==
    ASSUME NEW C, NEW changes \in Seq(C), NEW T
    PROVE  /\ Those(changes, T) \in Seq(C)
           /\ \E f : Picks(f, Those(changes, T), changes,
                           {k \in 1..Len(changes) : changes[k] \in T}, Len(changes))
<1> DEFINE n == Len(changes)  keep == {k \in 1..n : changes[k] \in T}
           h == CHOOSE h : h = [k \in 0..Len(changes) |->
                    IF k = 0 THEN <<>>
                    ELSE IF changes[k] \in T THEN Append(h[k - 1], changes[k]) ELSE h[k - 1]]
<1>1. n \in Nat /\ n \in 0..n /\ 0 \in 0..n
  OBVIOUS
<1>2. PICK g : g \in [0..n -> Seq(C)] /\ Selects(g, changes, keep, n)
  <2> HIDE DEF keep
  <2> QED
    BY <1>1, SelectExists
<1>3. \A k \in 1..n : changes[k] \in T <=> k \in keep
  OBVIOUS
<1>4. Those(changes, T) = h[n]
  BY Zenon DEF Those
<1> HIDE DEF keep
<1>5. g = [k \in 0..n |->
              IF k = 0 THEN <<>>
              ELSE IF changes[k] \in T THEN Append(g[k - 1], changes[k]) ELSE g[k - 1]]
  <2>1. ASSUME NEW k \in 0..n
        PROVE  g[k] = IF k = 0 THEN <<>>
                      ELSE IF changes[k] \in T THEN Append(g[k - 1], changes[k]) ELSE g[k - 1]
    <3>1. k = 0 \/ k \in 1..n
      BY <1>1
    <3>2. CASE k = 0
      BY <1>2, <3>2 DEF Selects
    <3>3. CASE k # 0
      <4>1. g[k] = IF k \in keep THEN Append(g[k - 1], changes[k]) ELSE g[k - 1]
        BY <1>2, <3>1, <3>3 DEF Selects
      <4>2. changes[k] \in T <=> k \in keep
        BY <1>3, <3>1, <3>3
      <4> HIDE DEF n
      <4> QED
        BY <3>3, <4>1, <4>2, Zenon
    <3> QED
      BY <3>2, <3>3
  <2> QED
    BY <1>2, <2>1
<1>5a. h = CHOOSE f : f = [k \in 0..n |->
              IF k = 0 THEN <<>>
              ELSE IF changes[k] \in T THEN Append(f[k - 1], changes[k]) ELSE f[k - 1]]
  OBVIOUS
<1> HIDE DEF n, h
<1>6. h = [k \in 0..n |->
              IF k = 0 THEN <<>>
              ELSE IF changes[k] \in T THEN Append(h[k - 1], changes[k]) ELSE h[k - 1]]
  BY <1>5, <1>5a, Zenon
<1>7. Selects(h, changes, keep, n)
  <2>1. \A k \in 1..n : k \in 0..n /\ k # 0
    BY <1>1
  <2>2. h[0] = <<>>
    BY <1>1, <1>6
  <2>3. \A k \in 1..n : h[k] = IF k \in keep THEN Append(h[k - 1], changes[k]) ELSE h[k - 1]
    BY <1>3, <1>6, <2>1
  <2> QED
    BY <2>2, <2>3 DEF Selects
<1>8. \A k \in 0..n : h[k] \in Seq(C) /\ \E f : Picks(f, h[k], changes, keep, k)
  <2>1. n = Len(changes)
    BY DEF n
  <2> QED
    BY <1>1, <1>7, <2>1, SelectIs
<1> QED
  BY <1>1, <1>4, <1>8 DEF keep, n

\* A list of changes with a path each.  A put is the only change that makes its
\* path: what has a file made twice, or a file where a directory is made, is left
\* to the caller by commit_changes.
PlainBatch(changes, N) ==
    /\ changes \in Seq(ToSet(changes))
    /\ \A c \in ToSet(changes) : IsChange(c, N)
    /\ \A i, j \in DOMAIN changes :
        i # j /\ changes[i].op = "put" /\ changes[j].op \in {"mkdir", "put"}
            => changes[i].path # changes[j].path

LEMMA ThoseIn ==
    ASSUME NEW changes, changes \in Seq(ToSet(changes)), NEW T \in SUBSET ToSet(changes)
    PROVE  Those(changes, T) \in Seq(T)
<1> DEFINE C == ToSet(changes)  y == Those(changes, T)
           keep == {k \in 1..Len(changes) : changes[k] \in T}
<1>1. y \in Seq(C) /\ \E f : Picks(f, y, changes, keep, Len(changes))
  <2> HIDE DEF C
  <2> QED
    BY ThoseIs DEF C
<1>2. PICK f : Picks(f, y, changes, keep, Len(changes))
  BY <1>1
<1> HIDE DEF y, C
<1>3. ASSUME NEW i \in 1..Len(y)
      PROVE  y[i] \in T
  BY <1>2 DEF Picks
<1>4. y \in Seq(T)
  BY <1>1, <1>3, SeqNarrow
<1> QED
  BY <1>4 DEF y

LEMMA FlatOf ==
    ASSUME NEW T, NEW m \in Nat, NEW R, R = [d \in 1..m |-> R[d]], \A d \in 1..m : R[d] \in Seq(T)
    PROVE  FlattenSeq(R) \in Seq(T)
<1> DEFINE U == Seq(T)
<1>1. R \in Seq(U)
  <2> HIDE DEF U
  <2>1. \A d \in 1..m : R[d] \in U
    BY DEF U
  <2> QED
    BY <2>1, FunSeq
<1> QED
  BY <1>1, FlattenType

LEMMA DeepestIs ==
    ASSUME NEW changes, NEW N, PlainBatch(changes, N),
           NEW T, T = {Len(c.path) : c \in ToSet(changes)} \cup {0}
    PROVE  Max(T) \in Nat
<1> DEFINE n == Len(changes)
           S == {k \in 0..n : \E m \in Nat : \A i \in 1..k : Len(changes[i].path) <= m}
<1>1. changes \in Seq(ToSet(changes)) /\ n \in Nat
  BY DEF PlainBatch
<1>2. \A i \in 1..n : changes[i] \in ToSet(changes) /\ Len(changes[i].path) \in Nat
  <2> SUFFICES ASSUME NEW i \in 1..n
               PROVE  changes[i] \in ToSet(changes) /\ Len(changes[i].path) \in Nat
    OBVIOUS
  <2>1. changes[i] \in ToSet(changes)
    BY <1>1
  <2>2. changes[i].path \in Seq(N)
    BY <2>1 DEF PlainBatch, IsChange
  <2> QED
    BY <2>1, <2>2
<1>3. \A c \in ToSet(changes) : \E i \in 1..n : c = changes[i]
  BY <1>1 DEF ToSet
<1> HIDE DEF n
<1>4. 0 \in S
  <2>1. \A i \in 1..0 : Len(changes[i].path) <= 0
    OBVIOUS
  <2> QED
    BY <1>1, <2>1
<1>5. ASSUME NEW k \in 0..(n - 1), k \in S
      PROVE  k + 1 \in S
  <2>1. PICK m \in Nat : \A i \in 1..k : Len(changes[i].path) <= m
    BY <1>5
  <2>2. k + 1 \in 1..n /\ k + 1 \in 0..n
    BY <1>1
  <2> DEFINE l == Len(changes[k + 1].path)
  <2>3. l \in Nat
    BY <1>2, <2>2
  <2>4. ASSUME NEW i \in 1..(k + 1)
        PROVE  Len(changes[i].path) <= m + l
    <3>1. i \in 1..n /\ (i \in 1..k \/ i = k + 1)
      BY <1>1
    <3>2. Len(changes[i].path) \in Nat
      BY <1>2, <3>1
    <3>3. CASE i \in 1..k
      <4>1. Len(changes[i].path) <= m
        BY <2>1, <3>3
      <4> HIDE DEF l
      <4> QED
        BY <2>3, <3>2, <4>1
    <3>4. CASE i = k + 1
      <4>1. Len(changes[i].path) = l
        BY <3>4
      <4> HIDE DEF l
      <4> QED
        BY <2>3, <4>1
    <3> QED
      BY <3>1, <3>3, <3>4
  <2> HIDE DEF l
  <2>5. m + l \in Nat
    BY <2>3
  <2> QED
    BY <2>2, <2>4, <2>5
<1> HIDE DEF S
<1>6. n \in S
  <2>1. n \in Nat
    BY <1>1
  <2>2. 0..n \subseteq S
    BY <2>1, <1>4, <1>5, UpTo
  <2> QED
    BY <2>1, <2>2
<1>7. PICK m \in Nat : \A i \in 1..n : Len(changes[i].path) <= m
  BY <1>6 DEF S
<1>8. T \in SUBSET Nat /\ T # {}
  BY <1>2, <1>3
<1>9. \A t \in T : t <= m
  BY <1>2, <1>3, <1>7
<1> QED
  BY <1>8, <1>9, MaxOfNat

OfOp(changes, op) == {c \in ToSet(changes) : c.op = op}

LEMMA OrderedIs ==
    ASSUME NEW changes, NEW N, PlainBatch(changes, N)
    PROVE  \E m \in Seq(OfOp(changes, "mkdir")), r \in Seq(OfOp(changes, "remove")) :
                Ordered(changes) = (m \o Those(changes, OfOp(changes, "put"))) \o r
<1> DEFINE all == ToSet(changes)
           deepest == Max({Len(c.path) : c \in all} \cup {0})
           at(op, d) == Those(changes, {c \in all : c.op = op /\ Len(c.path) = d})
           M == [d \in 1..deepest |-> at("mkdir", d)]
           R == [d \in 1..deepest |-> at("remove", deepest + 1 - d)]
<1>1. deepest \in Nat
  BY DeepestIs
<1>2. changes \in Seq(all)
  BY DEF PlainBatch
<1>3. ASSUME NEW op, NEW d
      PROVE  at(op, d) \in Seq(OfOp(changes, op))
  <2> DEFINE T == {c \in all : c.op = op /\ Len(c.path) = d}
  <2>1. T \in SUBSET all /\ T \subseteq OfOp(changes, op)
    BY DEF OfOp
  <2>2. Those(changes, T) \in Seq(T)
    BY <1>2, <2>1, ThoseIn
  <2> HIDE DEF T
  <2>3. Those(changes, T) \in Seq(OfOp(changes, op))
    BY <2>1, <2>2
  <2> QED
    BY <2>3 DEF T
<1>4. Ordered(changes) = FlattenSeq(M) \o Those(changes, {c \in all : c.op = "put"}) \o FlattenSeq(R)
  BY DEF Ordered
<1> HIDE DEF at, deepest, all
<1>5. M = [d \in 1..deepest |-> M[d]] /\ \A d \in 1..deepest : M[d] \in Seq(OfOp(changes, "mkdir"))
  BY <1>3
<1>6. R = [d \in 1..deepest |-> R[d]] /\ \A d \in 1..deepest : R[d] \in Seq(OfOp(changes, "remove"))
  BY <1>3
<1> HIDE DEF M, R
<1>7. FlattenSeq(M) \in Seq(OfOp(changes, "mkdir"))
  BY <1>1, <1>5, FlatOf
<1>8. FlattenSeq(R) \in Seq(OfOp(changes, "remove"))
  BY <1>1, <1>6, FlatOf
<1>9. Ordered(changes) = (FlattenSeq(M) \o Those(changes, OfOp(changes, "put"))) \o FlattenSeq(R)
  BY <1>4 DEF OfOp, all
<1> QED
  BY <1>7, <1>8, <1>9

LEMMA OrderlyIs ==
    ASSUME NEW changes, NEW N, PlainBatch(changes, N)
    PROVE  Orderly(Ordered(changes), N)
<1> DEFINE all == ToSet(changes)  T == OfOp(changes, "put")  p == Those(changes, T)
           todo == Ordered(changes)
<1>1. changes \in Seq(all) /\ T \in SUBSET all /\ \A c \in all : IsChange(c, N)
  BY DEF PlainBatch, OfOp
<1>2. PICK m \in Seq(OfOp(changes, "mkdir")), r \in Seq(OfOp(changes, "remove")) :
            todo = (m \o p) \o r
  BY OrderedIs
<1>3. p \in Seq(T)
  BY <1>1, ThoseIn
<1>4. PICK f : Picks(f, p, changes, {k \in 1..Len(changes) : changes[k] \in T}, Len(changes))
  <2> HIDE DEF T, all
  <2> QED
    BY <1>1, ThoseIs
<1>m. \A i \in 1..Len(m) : m[i] \in all /\ m[i].op = "mkdir"
  <2>1. \A i \in 1..Len(m) : m[i] \in OfOp(changes, "mkdir")
    BY <1>2
  <2> QED
    BY <2>1 DEF OfOp
<1>r. \A i \in 1..Len(r) : r[i] \in all /\ r[i].op = "remove"
  <2>1. \A i \in 1..Len(r) : r[i] \in OfOp(changes, "remove")
    BY <1>2
  <2> QED
    BY <2>1 DEF OfOp
<1>p. \A i \in 1..Len(p) : p[i] \in all /\ p[i].op = "put"
  <2>1. \A i \in 1..Len(p) : p[i] \in OfOp(changes, "put")
    BY <1>3
  <2> HIDE DEF p
  <2> QED
    BY <2>1 DEF OfOp
<1>5. Concatenated(m \o p, m, p) /\ Concatenated(todo, m \o p, r) /\ m \o p \in Seq(all) /\ todo \in Seq(all)
  <2>1. m \in Seq(all) /\ p \in Seq(all) /\ r \in Seq(all)
    <3> HIDE DEF p, all
    <3>1. OfOp(changes, "mkdir") \subseteq all /\ OfOp(changes, "remove") \subseteq all /\ T \subseteq all
      BY DEF OfOp, all
    <3> QED
      BY <1>2, <1>3, <3>1
  <2> HIDE DEF p, all, todo
  <2>2. m \o p \in Seq(all) /\ Concatenated(m \o p, m, p)
    BY <2>1, ConcatIs
  <2>3. (m \o p) \o r \in Seq(all) /\ Concatenated((m \o p) \o r, m \o p, r)
    BY <2>1, <2>2, ConcatIs
  <2> QED
    BY <1>2, <2>2, <2>3
<1> DEFINE x == Len(m)  y == Len(p)  z == Len(r)
<1>6. x \in Nat /\ y \in Nat /\ z \in Nat
  BY <1>2, <1>3
<1>7. /\ Len(todo) = x + y + z
      /\ \A i \in 1..x : todo[i] = m[i]
      /\ \A i \in 1..y : todo[x + i] = p[i]
      /\ \A i \in 1..z : todo[x + y + i] = r[i]
  <2> DEFINE q == m \o p
  <2>1. Len(q) = x + y /\ (\A i \in 1..x : q[i] = m[i]) /\ \A i \in 1..y : q[x + i] = p[i]
    BY <1>5 DEF Concatenated
  <2>2. Len(todo) = Len(q) + z /\ (\A i \in 1..Len(q) : todo[i] = q[i])
        /\ \A i \in 1..z : todo[Len(q) + i] = r[i]
    BY <1>5 DEF Concatenated
  <2> HIDE DEF q, x, y, z, todo, p
  <2>3. \A i \in 1..x : i \in 1..(x + y)
    BY <1>6
  <2>4. \A i \in 1..y : x + i \in 1..(x + y)
    BY <1>6
  <2> QED
    BY <2>1, <2>2, <2>3, <2>4
<1> HIDE DEF x, y, z, todo
<1>8. ASSUME NEW k \in 1..Len(todo)
      PROVE  k \in 1..x \/ (\E i \in 1..y : k = x + i) \/ (\E i \in 1..z : k = x + y + i)
  <2>1. CASE k <= x
    BY <2>1
  <2>2. CASE k > x /\ k <= x + y
    <3>1. k - x \in 1..y /\ k = x + (k - x)
      BY <1>6, <2>2
    <3> QED
      BY <3>1
  <2>3. CASE k > x + y
    <3>1. k - (x + y) \in 1..z /\ k = x + y + (k - (x + y))
      BY <1>6, <1>7, <2>3
    <3> QED
      BY <3>1
  <2> QED
    BY <1>6, <2>1, <2>2, <2>3
<1>9. ASSUME NEW k \in 1..Len(todo)
      PROVE  /\ todo[k] \in all
             /\ todo[k].op = "mkdir" => k \in 1..x
             /\ todo[k].op = "put" => \E i \in 1..y : k = x + i
  <2> HIDE DEF all
  <2>1. CASE k \in 1..x
    <3>1. todo[k] = m[k] /\ m[k] \in all /\ m[k].op = "mkdir"
      BY <2>1, <1>7, <1>m DEF x
    <3> QED
      BY <2>1, <3>1
  <2>2. CASE \E i \in 1..y : k = x + i
    <3>1. PICK i \in 1..y : k = x + i
      BY <2>2
    <3>2. todo[k] = p[i] /\ p[i] \in all /\ p[i].op = "put"
      BY <3>1, <1>7, <1>p DEF y
    <3> QED
      BY <2>2, <3>2
  <2>3. CASE \E i \in 1..z : k = x + y + i
    <3>1. PICK i \in 1..z : k = x + y + i
      BY <2>3
    <3>2. todo[k] = r[i] /\ r[i] \in all /\ r[i].op = "remove"
      BY <3>1, <1>7, <1>r DEF z
    <3> QED
      BY <3>2
  <2> QED
    BY <1>8, <2>1, <2>2, <2>3
<1>10. ASSUME NEW k \in 1..Len(todo), NEW j \in 1..(k - 1), todo[k].op = "mkdir"
       PROVE  todo[j].op = "mkdir"
  <2>1. j \in 1..x
    BY <1>6, <1>9, <1>10
  <2> QED
    BY <2>1, <1>7, <1>m DEF x
<1>11. \A i \in 1..y : f[i] \in 1..Len(changes) /\ p[i] = changes[f[i]]
  <2> HIDE DEF p, T
  <2> QED
    BY <1>4 DEF Picks, y
<1>12. \A i \in 1..y : \A j \in 1..(i - 1) : f[j] < f[i]
  <2> HIDE DEF p, T
  <2> QED
    BY <1>4 DEF Picks, y
<1>d. /\ DOMAIN changes = 1..Len(changes)
      /\ \A i, j \in DOMAIN changes :
            i # j /\ changes[i].op = "put" /\ changes[j].op \in {"mkdir", "put"}
                => changes[i].path # changes[j].path
  BY <1>1 DEF PlainBatch
<1>13. ASSUME NEW k \in 1..Len(todo), NEW j \in 1..(k - 1), todo[k].op = "put",
              todo[j].op \in {"mkdir", "put"}
       PROVE  todo[j].path # todo[k].path
  <2>1. PICK i \in 1..y : k = x + i
    BY <1>9, <1>13
  <2>2. f[i] \in DOMAIN changes /\ todo[k] = changes[f[i]]
    BY <1>7, <1>11, <1>d, <2>1
  <2>3. j \in 1..Len(todo)
    BY <1>6, <1>7
  <2>4. PICK l \in DOMAIN changes : todo[j] = changes[l] /\ l # f[i]
    <3>1. CASE todo[j].op = "mkdir"
      <4>1. todo[j] \in all
        BY <1>9, <2>3
      <4>2. PICK l \in DOMAIN changes : todo[j] = changes[l]
        BY <4>1 DEF ToSet
      <4> QED
        BY <1>13, <2>2, <3>1, <4>2
    <3>2. CASE todo[j].op = "put"
      <4>1. PICK h \in 1..y : j = x + h
        BY <1>9, <2>3, <3>2
      <4>2. h \in 1..(i - 1)
        BY <1>6, <2>1, <4>1
      <4>3. f[h] < f[i] /\ f[h] \in DOMAIN changes /\ todo[j] = changes[f[h]]
        BY <1>7, <1>11, <1>12, <1>d, <4>1, <4>2
      <4>4. f[h] # f[i]
        BY <4>1, <4>3, <1>11
      <4> QED
        BY <4>3, <4>4
    <3> QED
      BY <1>13, <3>1, <3>2
  <2> QED
    BY <1>13, <1>d, <2>2, <2>4
<1>14. ASSUME NEW k \in 1..Len(todo)
       PROVE  IsChange(todo[k], N) /\ Turn({todo[i] : i \in 1..(k - 1)}, todo[k])
  <2>1. IsChange(todo[k], N)
    BY <1>1, <1>9
  <2>2. Turn({todo[i] : i \in 1..(k - 1)}, todo[k])
    BY <1>10, <1>13 DEF Turn
  <2> QED
    BY <2>1, <2>2
<1>15. Len(todo) \in Nat
  BY <1>6, <1>7
<1>16. Orderly(todo, N)
  BY <1>14, <1>15 DEF Orderly
<1> QED
  BY <1>16 DEF todo

LEMMA BatchFits ==
    ASSUME NEW v, Sound(v), Siblings(v), NEW s, s = Snap(v), NEW N, NEW changes,
           PlainBatch(changes, N), NEW recs, recs = Batch(s, changes).recs
    PROVE  Fits(v, recs) /\ Apart(v, recs) /\ Rises(v, recs)
<1>1. Orderly(Ordered(changes), N)
  BY OrderlyIs
<1>2. PICK done : Makes(v, N, done, Batch(s, changes))
  BY <1>1, BatchMakes
<1>3. PICK ok, rs, dirs, w : /\ Batch(s, changes) = Acc(ok, rs, dirs)
                             /\ Making(v, N, done, rs, dirs, w)
  BY <1>2 DEF Makes
<1>4. recs = rs
  BY <1>3 DEF Acc
<1>5. Fits(v, rs) /\ Rises(v, rs)
  BY <1>3, MakingFits
<1>6. Apart(v, rs)
  BY <1>3, MakingApart
<1> QED
  BY <1>4, <1>5, <1>6

-----------------------------------------------------------------------------
(* The changes that dirsync and compact make of a tree of paths.           *)

LEMMA SetSeqIs ==
    ASSUME NEW S, IsFiniteSet(S), NEW f, f = SetToSeq(S)
    PROVE  /\ Cardinality(S) \in Nat /\ f \in [1..Cardinality(S) -> S]
           /\ \A i, j \in 1..Cardinality(S) : f[i] = f[j] => i = j
<1>1. Cardinality(S) \in Nat /\ ExistsBijection(1..Cardinality(S), S)
  BY FS_CardinalityType
<1>2. PICK g : g \in [1..Cardinality(S) -> S] /\ IsInjective(g)
  BY <1>1 DEF ExistsBijection, Bijection, Injection
<1>3. f \in [1..Cardinality(S) -> S] /\ IsInjective(f)
  BY <1>2, Zenon DEF SetToSeq
<1> QED
  BY <1>1, <1>3 DEF IsInjective

\* A function from finitely many paths.
PlainTree(tree, N) ==
    IsFiniteSet(DOMAIN tree) /\ \A p \in DOMAIN tree : p \in Seq(N) /\ p # <<>>

LEMMA CollectPlain ==
    ASSUME NEW N, NEW tree, PlainTree(tree, N), NEW changes, changes = CollectChanges(tree)
    PROVE  PlainBatch(changes, N) /\ \A c \in ToSet(changes) : c.op \in {"mkdir", "put"}
<1> DEFINE S == DOMAIN tree  n == Cardinality(S)  f == SetToSeq(S)
<1>1. n \in Nat /\ f \in [1..n -> S] /\ \A i, j \in 1..n : f[i] = f[j] => i = j
  BY SetSeqIs DEF PlainTree
<1>2. changes = [k \in DOMAIN f |-> IF tree[f[k]] = Dir THEN Change("mkdir", f[k])
                                    ELSE Put(f[k], tree[f[k]])]
  BY DEF CollectChanges
<1> HIDE DEF n, f
<1>3. DOMAIN changes = 1..n
  BY <1>1, <1>2
<1>4. ASSUME NEW k \in 1..n
      PROVE  changes[k].path = f[k] /\ changes[k].op \in {"mkdir", "put"}
  <2>1. CASE tree[f[k]] = Dir
    <3>1. changes[k] = Change("mkdir", f[k])
      BY <1>1, <1>2, <2>1
    <3> QED
      BY <3>1 DEF Change
  <2>2. CASE tree[f[k]] # Dir
    <3>1. changes[k] = Put(f[k], tree[f[k]])
      BY <1>1, <1>2, <2>2
    <3> QED
      BY <3>1 DEF Put
  <2> QED
    BY <2>1, <2>2
<1>5. changes = [k \in 1..n |-> changes[k]]
  BY <1>2, <1>3
<1>6. \A k \in 1..n : changes[k] \in ToSet(changes)
  BY <1>3 DEF ToSet
<1>7. changes \in Seq(ToSet(changes))
  <2> DEFINE C == ToSet(changes)
  <2>1. n \in Nat /\ \A k \in 1..n : changes[k] \in C
    BY <1>1, <1>6
  <2> HIDE DEF C
  <2>2. changes \in Seq(C)
    BY ONLY <1>5, <2>1, FunSeq
  <2> QED
    BY <2>2 DEF C
<1>8. ASSUME NEW c \in ToSet(changes)
      PROVE  IsChange(c, N) /\ c.op \in {"mkdir", "put"}
  <2>1. PICK k \in 1..n : c = changes[k]
    BY <1>3 DEF ToSet
  <2>2. f[k] \in Seq(N) /\ f[k] # <<>>
    BY <1>1 DEF PlainTree
  <2> QED
    BY <1>4, <2>1, <2>2 DEF IsChange
<1>9. \A i, j \in DOMAIN changes : i # j => changes[i].path # changes[j].path
  BY <1>1, <1>3, <1>4
<1> QED
  BY <1>7, <1>8, <1>9 DEF PlainBatch

LEMMA RemovalsPlain ==
    ASSUME NEW N, NEW S, IsFiniteSet(S), \A p \in S : p \in Seq(N) /\ p # <<>>,
           NEW s, NEW host, S = LivePaths(s.tree) \ DOMAIN host,
           NEW changes, changes = Removals(s, host)
    PROVE  changes \in Seq(ToSet(changes))
           /\ \A c \in ToSet(changes) : IsChange(c, N) /\ c.op = "remove"
<1> DEFINE n == Cardinality(S)  f == SetToSeq(S)
<1>1. n \in Nat /\ f \in [1..n -> S]
  BY SetSeqIs
<1>2. changes = [k \in DOMAIN f |-> Change("remove", f[k])]
  BY DEF Removals
<1> HIDE DEF n, f
<1>3. DOMAIN changes = 1..n
  BY <1>1, <1>2
<1>4. \A k \in 1..n : changes[k].path = f[k] /\ changes[k].op = "remove"
  BY <1>1, <1>2 DEF Change
<1>5. changes = [k \in 1..n |-> changes[k]]
  BY <1>2, <1>3
<1>6. \A k \in 1..n : changes[k] \in ToSet(changes)
  BY <1>3 DEF ToSet
<1>7. changes \in Seq(ToSet(changes))
  <2> DEFINE C == ToSet(changes)
  <2>1. n \in Nat /\ \A k \in 1..n : changes[k] \in C
    BY <1>1, <1>6
  <2> HIDE DEF C
  <2>2. changes \in Seq(C)
    BY ONLY <1>5, <2>1, FunSeq
  <2> QED
    BY <2>2 DEF C
<1>8. ASSUME NEW c \in ToSet(changes)
      PROVE  IsChange(c, N) /\ c.op = "remove"
  <2>1. PICK k \in 1..n : c = changes[k]
    BY <1>3 DEF ToSet
  <2>2. f[k] \in Seq(N) /\ f[k] # <<>>
    BY <1>1
  <2> QED
    BY <1>4, <2>1, <2>2 DEF IsChange
<1> QED
  BY <1>7, <1>8

LEMMA ConcatPlain ==
    ASSUME NEW N, NEW u, PlainBatch(u, N), NEW w, w \in Seq(ToSet(w)),
           \A c \in ToSet(w) : IsChange(c, N) /\ c.op = "remove", NEW z, z = u \o w
    PROVE  PlainBatch(z, N)
<1> DEFINE C == ToSet(u) \cup ToSet(w)
<1>1. u \in Seq(C) /\ w \in Seq(C) /\ u \in Seq(ToSet(u))
  BY DEF PlainBatch
<1> HIDE DEF C
<1>2. z \in Seq(C) /\ Concatenated(z, u, w)
  BY <1>1, ConcatIs
<1> DEFINE m == Len(u)  n == Len(w)  l == Len(z)
<1>3. m \in Nat /\ n \in Nat /\ l \in Nat /\ DOMAIN z = 1..l /\ DOMAIN u = 1..m /\ DOMAIN w = 1..n
  BY <1>1, <1>2
<1>4. l = m + n /\ (\A i \in 1..m : z[i] = u[i]) /\ \A i \in 1..n : z[m + i] = w[i]
  BY <1>2 DEF Concatenated
<1> HIDE DEF m, n, l
<1>5. ASSUME NEW k \in 1..l
      PROVE  k \in 1..m \/ \E i \in 1..n : k = m + i
  <2>1. CASE k <= m
    BY <2>1
  <2>2. CASE k > m
    <3>1. k - m \in 1..n /\ k = m + (k - m)
      BY <1>3, <1>4, <2>2
    <3> QED
      BY <3>1
  <2> QED
    BY <1>3, <2>1, <2>2
<1>6. ASSUME NEW k \in 1..l
      PROVE  /\ IsChange(z[k], N)
             /\ z[k].op # "remove" => k \in DOMAIN u /\ z[k] = u[k]
  <2>1. CASE k \in 1..m
    <3>1. z[k] = u[k] /\ k \in DOMAIN u /\ u[k] \in ToSet(u)
      BY <1>3, <1>4, <2>1 DEF ToSet
    <3> QED
      BY <3>1 DEF PlainBatch
  <2>2. CASE \E i \in 1..n : k = m + i
    <3>1. PICK i \in 1..n : k = m + i
      BY <2>2
    <3>2. z[k] = w[i] /\ w[i] \in ToSet(w)
      BY <1>3, <1>4, <3>1 DEF ToSet
    <3> QED
      BY <3>2
  <2> QED
    BY <1>5, <2>1, <2>2
<1>7. \A k \in 1..l : z[k] \in ToSet(z)
  BY <1>3 DEF ToSet
<1>8. z \in Seq(ToSet(z))
  <2>1. l = Len(z)
    BY DEF l
  <2> QED
    BY <1>2, <1>7, <2>1, SeqNarrow
<1>9. ASSUME NEW c \in ToSet(z)
      PROVE  IsChange(c, N)
  <2>1. PICK k \in 1..l : c = z[k]
    BY <1>3 DEF ToSet
  <2> QED
    BY <1>6, <2>1
<1>10. ASSUME NEW i \in DOMAIN z, NEW j \in DOMAIN z, i # j, z[i].op = "put",
              z[j].op \in {"mkdir", "put"}
       PROVE  z[i].path # z[j].path
  <2>1. /\ i \in DOMAIN u /\ z[i] = u[i]
        /\ j \in DOMAIN u /\ z[j] = u[j]
    BY <1>3, <1>6, <1>10
  <2> QED
    BY <1>10, <2>1 DEF PlainBatch
<1> QED
  BY <1>8, <1>9, <1>10 DEF PlainBatch

\* The names a view knows, with others.
NamesOf(v, N) == N \cup {Current(v, x).name : x \in DOMAIN v}

Below(v, p) ==
    {Append(p, pn[2]) :
        pn \in {q \in DOMAIN BuildTree(v).child : q[1] = Resolve(BuildTree(v), p)}}

LEMMA BelowIs ==
    ASSUME NEW v, Sound(v), Siblings(v), NEW N, NEW M, M = NamesOf(v, N), NEW p \in Seq(M)
    PROVE  \A q \in Below(v, p) :
                q \in Seq(M) /\ Len(q) = Len(p) + 1 /\ Resolve(BuildTree(v), q) \in Living(v)
<1> DEFINE t == BuildTree(v)
<1>1. SUFFICES ASSUME NEW pn \in DOMAIN t.child, pn[1] = Resolve(t, p), NEW q, q = Append(p, pn[2])
               PROVE  q \in Seq(M) /\ Len(q) = Len(p) + 1 /\ Resolve(t, q) \in Living(v)
  BY DEF Below
<1>2. PICK x \in Living(v) \ {Root} : pn = <<Current(v, x).parent, Current(v, x).name>>
  BY DEF BuildTree, Living
<1>3. x \in DOMAIN v
  BY LivingNat
<1> DEFINE nm == pn[2]
<1>4. nm \in M /\ ChildOf(v, x, pn[1], nm)
  BY <1>2, <1>3 DEF NamesOf, ChildOf
<1> HIDE DEF nm, t
<1>5. Splits(Append(p, nm), p, nm, M) /\ Append(p, nm) \in Seq(M)
  BY <1>4, AppendSplits
<1>6. Resolve(t, q) = LiveChild(t, Resolve(t, p), nm)
  <2>1. q = Append(p, nm)
    BY <1>1 DEF nm
  <2>2. q \in Seq(M) /\ Splits(q, p, nm, M)
    BY <1>5, <2>1
  <2> QED
    BY <2>2, ResolveStep DEF t
<1>7. Finds(v, pn[1], nm, LiveChild(t, pn[1], nm))
  BY ChildIs DEF t
<1>8. LiveChild(t, pn[1], nm) = x
  BY <1>4, <1>7 DEF Finds
<1> QED
  BY <1>1, <1>2, <1>5, <1>6, <1>8 DEF nm, Splits

Levels(v, m) ==
    CHOOSE h : h = [k \in 0..m |-> IF k = 0 THEN {<<>>} ELSE UNION {Below(v, p) : p \in h[k - 1]}]

LEMMA LevelsIs ==
    ASSUME NEW v, Sound(v), Siblings(v), NEW N, NEW M, M = NamesOf(v, N), NEW m \in Nat
    PROVE  \A k \in 0..m : \A p \in Levels(v, m)[k] :
                p \in Seq(M) /\ Len(p) = k /\ Resolve(BuildTree(v), p) \in Living(v)
<1> DEFINE h == Levels(v, m)
           D == SUBSET Seq(M)
           all(P) == UNION {Below(v, p) : p \in P}
           F == [x \in (1..m) \X D |-> all(x[2])]
<1>1. ASSUME NEW P \in D
      PROVE  all(P) \in D
  <2>1. ASSUME NEW p \in P
        PROVE  Below(v, p) \subseteq Seq(M)
    <3>1. p \in Seq(M)
      OBVIOUS
    <3> QED
      BY <3>1, BelowIs
  <2> QED
    BY <2>1
<1>2. {<<>>} \in D /\ m \in 0..m /\ 0 \in 0..m
  OBVIOUS
<1> HIDE DEF D, all
<1>3. \A x \in (1..m) \X D : all(x[2]) \in D
  BY <1>1
<1>4. Steps(F, m, D)
  <2>1. F \in [(1..m) \X D -> D]
    BY <1>3
  <2> QED
    BY <2>1, Zenon DEF Steps
<1>5. \A k \in 1..m, P \in D : F[<<k, P>>] = all(P)
  OBVIOUS
<1> HIDE DEF F
<1>6. PICK g : Solution(g, m, D, {<<>>}, F)
  BY <1>2, <1>4, Recursion
<1>7. g \in [0..m -> D] /\ g[0] = {<<>>} /\ \A i \in 1..m : g[i] = F[<<i, g[i - 1]>>]
  BY <1>6, Zenon DEF Solution
<1>8. ASSUME NEW k \in 1..m
      PROVE  g[k] = all(g[k - 1])
  <2>1. k - 1 \in 0..m
    OBVIOUS
  <2>2. g[k - 1] \in D
    BY <2>1, <1>7
  <2> QED
    BY <2>2, <1>5, <1>7, Zenon
<1>9. g = [k \in 0..m |-> IF k = 0 THEN {<<>>} ELSE all(g[k - 1])]
  <2>1. ASSUME NEW k \in 0..m
        PROVE  g[k] = IF k = 0 THEN {<<>>} ELSE all(g[k - 1])
    <3>1. k = 0 \/ k \in 1..m
      OBVIOUS
    <3> QED
      BY <3>1, <1>7, <1>8
  <2> QED
    BY <1>7, <2>1
<1>10. h = CHOOSE f : f = [k \in 0..m |-> IF k = 0 THEN {<<>>} ELSE all(f[k - 1])]
  BY Zenon DEF all, Levels
<1> HIDE DEF h
<1>11. h = [k \in 0..m |-> IF k = 0 THEN {<<>>} ELSE all(h[k - 1])]
  BY <1>9, <1>10, Zenon
<1>12. h[0] = {<<>>}
  BY <1>2, <1>11
<1>13. ASSUME NEW k \in 1..m
       PROVE  h[k] = all(h[k - 1])
  <2>1. k \in 0..m /\ k # 0
    OBVIOUS
  <2> QED
    BY <2>1, <1>11
<1> DEFINE Good(k) == \A p \in h[k] :
                p \in Seq(M) /\ Len(p) = k /\ Resolve(BuildTree(v), p) \in Living(v)
           S == {k \in 0..m : Good(k)}
<1>14. 0 \in S
  <2>1. <<>> \in Seq(M) /\ Len(<<>>) = 0 /\ Resolve(BuildTree(v), <<>>) \in Living(v)
    BY RootLives, ResolveNone
  <2>2. \A p \in h[0] : p = <<>>
    BY <1>12
  <2>3. Good(0)
    BY <2>1, <2>2
  <2> HIDE DEF Good
  <2> QED
    BY <1>2, <2>3
<1>15. ASSUME NEW k \in 0..(m - 1), k \in S
       PROVE  k + 1 \in S
  <2> DEFINE z == k + 1
  <2>1. z \in 0..m /\ z \in 1..m /\ z - 1 = k
    OBVIOUS
  <2> HIDE DEF z
  <2>2. h[z] = all(h[k])
    BY <1>13, <2>1
  <2>3. ASSUME NEW q \in h[z]
        PROVE  q \in Seq(M) /\ Len(q) = z /\ Resolve(BuildTree(v), q) \in Living(v)
    <3>1. PICK p \in h[k] : q \in Below(v, p)
      BY <2>2 DEF all
    <3>2. p \in Seq(M) /\ Len(p) = k
      BY <1>15, <3>1
    <3>3. q \in Seq(M) /\ Len(q) = Len(p) + 1 /\ Resolve(BuildTree(v), q) \in Living(v)
      BY <3>1, <3>2, BelowIs
    <3> QED
      BY <3>2, <3>3 DEF z
  <2>4. Good(z)
    BY <2>3
  <2> HIDE DEF Good
  <2> QED
    BY <2>1, <2>4 DEF z
<1> HIDE DEF S
<1>16. 0..m \subseteq S
  BY <1>14, <1>15, UpTo
<1> QED
  BY <1>16 DEF S, h

LEMMA LivePathsIs ==
    ASSUME NEW v, Sound(v), Siblings(v), NEW N, NEW M, M = NamesOf(v, N)
    PROVE  /\ IsFiniteSet(LivePaths(BuildTree(v)))
           /\ \A p \in LivePaths(BuildTree(v)) :
                p \in Seq(M) /\ p # <<>> /\ Resolve(BuildTree(v), p) \in Living(v)
<1> DEFINE t == BuildTree(v)  m == Cardinality(t.nodes)
           h == Levels(v, m)
           P == LivePaths(t)
<1>1. IsFiniteSet(Living(v))
  <2>1. IsFiniteSet(DOMAIN v \cup {Root})
    BY FS_AddElement DEF Sound
  <2> QED
    BY <2>1, FS_Subset DEF Living
<1>2. t.nodes = Living(v)
  BY DEF BuildTree, Living
<1>3. m \in Nat
  BY <1>1, <1>2, FS_CardinalityType
<1>4. P = UNION {h[k] : k \in 1..m}
  BY Zenon DEF LivePaths, Below, Levels
<1> HIDE DEF m, h, t
<1>5. \A k \in 0..m : \A p \in h[k] :
            p \in Seq(M) /\ Len(p) = k /\ Resolve(t, p) \in Living(v)
  <2>1. \A k \in 0..m : \A p \in Levels(v, m)[k] :
                p \in Seq(M) /\ Len(p) = k /\ Resolve(BuildTree(v), p) \in Living(v)
    BY <1>3, LevelsIs
  <2> QED
    BY <2>1 DEF t, h
<1>6. ASSUME NEW p \in P
      PROVE  p \in Seq(M) /\ p # <<>> /\ Resolve(t, p) \in Living(v)
  <2>1. PICK k \in 1..m : p \in h[k]
    BY <1>4
  <2>2. k \in 0..m /\ k # 0
    BY <1>3
  <2>3. p \in Seq(M) /\ Len(p) = k /\ Resolve(t, p) \in Living(v)
    BY <1>5, <2>1, <2>2
  <2> QED
    BY <2>2, <2>3
<1> HIDE DEF P
<1> DEFINE f == [p \in P |-> Resolve(t, p)]
<1>7. f \in [P -> Living(v)]
  BY <1>6
<1>8. ASSUME NEW p \in P, NEW q \in P, f[p] = f[q]
      PROVE  p = q
  <2>1. Resolve(t, p) = Resolve(t, q)
    BY <1>8
  <2>2. Resolve(t, p) # NoNode
    BY <1>6, LivingNat
  <2>3. p \in Seq(M) /\ q \in Seq(M)
    BY <1>6
  <2> QED
    BY <2>1, <2>2, <2>3, ResolveOnce DEF t
<1>9. f \in Injection(P, Living(v))
  BY <1>7, <1>8 DEF Injection, IsInjective
<1>10. IsFiniteSet(P)
  BY <1>1, <1>9, FS_Injection
<1> QED
  BY <1>6, <1>10 DEF P, t

-----------------------------------------------------------------------------
(* What every operation keeps.                                             *)

\* A log of sessions, and the sound view of it.
Logged(l, v) ==
    v = NodeView(l) /\ Sound(v) /\ \E R : IsLog(l, R) /\ Typed(v, R)

Kept(l, v) == Logged(l, v) /\ Siblings(v)

LEMMA LogWider ==
    ASSUME NEW l, NEW R, IsLog(l, R), NEW S, R \subseteq S
    PROVE  IsLog(l, S)
<1> DEFINE P == SUBSET R  Q == SUBSET S
<1>1. l \in Seq(P) /\ P \subseteq Q
  BY DEF IsLog
<1>2. \A n \in 1..Len(l) : l[n] \in Q
  BY <1>1
<1> HIDE DEF P, Q
<1>3. l \in Seq(Q)
  BY <1>1, <1>2, SeqNarrow
<1> QED
  BY <1>3 DEF IsLog, Q

LEMMA TypedWider ==
    ASSUME NEW v, NEW R, Typed(v, R), NEW S, R \subseteq S
    PROVE  Typed(v, S)
<1> DEFINE P == [seq : Nat, rec : R]  Q == [seq : Nat, rec : S]
<1>1. P \subseteq Q
  OBVIOUS
<1>2. ASSUME NEW id \in DOMAIN v
      PROVE  v[id] \in Seq(Q)
  <2>1. v[id] \in Seq(P)
    BY DEF Typed
  <2> HIDE DEF P, Q
  <2>2. \A n \in 1..Len(v[id]) : v[id][n] \in Q
    BY <1>1, <2>1
  <2> QED
    BY <2>1, <2>2, SeqNarrow
<1> QED
  BY <1>2 DEF Typed

\* One more session that fits.
LEMMA LoggedNext ==
    ASSUME NEW l, NEW v, Logged(l, v), NEW recs, Fits(v, recs), NEW m, Follows(l, recs, m),
           NEW w, w = NodeView(m)
    PROVE  Logged(m, w) /\ NowIs(v, recs, w) /\ Sound(w) /\ Grown(v, recs, Len(m), w)
<1>1. PICK R : IsLog(l, R) /\ Typed(v, R)
  BY DEF Logged
<1> DEFINE S == R \cup recs
<1>2. R \subseteq S /\ recs \in SUBSET S
  OBVIOUS
<1> HIDE DEF S
<1>3. IsLog(l, S) /\ Typed(v, S)
  BY <1>1, <1>2, LogWider, TypedWider
<1>4. IsSession(recs) /\ v = NodeView(l) /\ Sound(v)
  BY DEF Fits, Logged
<1>5. Grown(v, recs, Len(m), w) /\ IsLog(m, S)
  BY <1>2, <1>3, <1>4, ViewNext
<1>6. Len(m) \in Nat
  BY <1>5 DEF IsLog
<1>7. Sound(w) /\ Typed(w, S) /\ NowIs(v, recs, w)
  BY <1>2, <1>3, <1>4, <1>5, <1>6, GrownSound
<1> QED
  BY <1>5, <1>7 DEF Logged

LEMMA KeptNext ==
    ASSUME NEW l, NEW v, Kept(l, v), NEW recs, Fits(v, recs), Apart(v, recs),
           NEW m, Follows(l, recs, m), NEW w, w = NodeView(m)
    PROVE  Kept(m, w) /\ Living(w) \subseteq Living(v) \cup New(v, recs)
<1>1. Logged(m, w) /\ NowIs(v, recs, w) /\ Sound(w)
  BY LoggedNext DEF Kept
<1>2. Sound(v) /\ Siblings(v)
  BY DEF Kept, Logged
<1>3. Siblings(w)
  BY <1>1, <1>2, SiblingsGrow
<1>4. Living(w) \subseteq Living(v) \cup New(v, recs)
  BY <1>1, <1>2, LivingGrows
<1> QED
  BY <1>1, <1>3, <1>4 DEF Kept

\* The empty file, which mkfs and compact begin with.
Bare == NodeView(<<>>)

LEMMA BareIs == Kept(<<>>, Bare) /\ DOMAIN Bare = {} /\ Living(Bare) = {Root}
<1>1. DOMAIN Bare = {}
  BY DEF Bare, NodeView, Records
<1>2. Sound(Bare)
  <2>1. IsFiniteSet({})
    BY FS_EmptySet
  <2> QED
    BY <1>1, <2>1 DEF Sound
<1>3. Living(Bare) = {Root}
  BY <1>1, <1>2, RootLives DEF Living
<1>4. IsLog(<<>>, {}) /\ Typed(Bare, {})
  <2>1. <<>> \in Seq(SUBSET {}) /\ Len(<<>>) = 0
    OBVIOUS
  <2> QED
    BY <1>1, <2>1 DEF IsLog, Typed
<1> QED
  BY <1>1, <1>2, <1>3, <1>4 DEF Kept, Logged, Siblings, Bare

-----------------------------------------------------------------------------
(* No directory gets inside itself.                                        *)

Untangled(v) == \A x \in DOMAIN v \cup {Root} : Fate(v, x) # "cycle"

LEMMA UntangledGrounded ==
    ASSUME NEW v, Untangled(v)
    PROVE  Grounded(v) = DOMAIN v \cup {Root}
  BY DEF Untangled, Grounded

\* A node whose parent is off a cycle is off a cycle.
LEMMA OffCycle ==
    ASSUME NEW w, Sound(w), NEW x \in Nat, ~Ends(w, x) => Fate(w, Current(w, x).parent) # "cycle"
    PROVE  Fate(w, x) # "cycle"
<1>1. CASE Ends(w, x)
  BY <1>1, FateOfEnd
<1>2. CASE ~Ends(w, x)
  BY <1>2, FateOfChild
<1> QED
  BY <1>1, <1>2

LEMMA RisesUntangled ==
    ASSUME NEW v, Sound(v), Untangled(v), NEW recs, Fits(v, recs), Rises(v, recs),
           NEW w, NowIs(v, recs, w), Sound(w)
    PROVE  Untangled(w)
<1> DEFINE S == {x \in DOMAIN v \cup {Root} : Fate(w, x) # "cycle"}
<1>1. /\ DOMAIN v \subseteq Nat /\ Root \in Nat /\ IsSession(recs)
      /\ DOMAIN w = DOMAIN v \cup Ids(recs) /\ Ids(recs) \subseteq Nat
  BY IdsFinite DEF Sound, Root, NowIs, Fits
<1>2. ASSUME NEW x \in Ids(recs)
      PROVE  /\ x \in DOMAIN v =>
                    x \in Living(v) /\ x # Root /\ Current(w, x).parent = Current(v, x).parent
             /\ x \notin DOMAIN v =>
                    \/ Current(w, x).parent \in Living(v)
                    \/ Current(w, x).parent \in New(v, recs) /\ Current(w, x).parent < x
  <2>1. The(recs, x) \in recs /\ The(recs, x).id = x /\ Current(w, x) = The(recs, x)
    BY <1>1, TheIs DEF NowIs
  <2> QED
    BY <2>1 DEF Rises, Fits
<1>3. ASSUME NEW x \in Grounded(v), Ends(v, x)
      PROVE  x \in S
  <2>1. x \in DOMAIN v \cup {Root} /\ x \in Nat
    BY <1>1 DEF Grounded
  <2>2. CASE x = Root
    <3>1. Ends(w, Root)
      BY DEF Ends
    <3> QED
      BY <1>1, <2>1, <2>2, <3>1, FateOfEnd
  <2>3. CASE x # Root
    <3>1. Fate(v, x) = "dead"
      BY <1>3, <2>1, <2>3, FateOfEnd
    <3>2. x \notin Ids(recs)
      BY <1>2, <2>1, <2>3, <3>1 DEF Living
    <3>3. x \in DOMAIN v \ Ids(recs) /\ Current(w, x) = Current(v, x) /\ x \in DOMAIN w
      BY <1>1, <2>1, <2>3, <3>2 DEF NowIs
    <3>4. Ends(w, x)
      BY <1>3, <3>3 DEF Ends
    <3> QED
      BY <2>1, <3>4, FateOfEnd
  <2> QED
    BY <2>2, <2>3
<1>4. ASSUME NEW x \in Grounded(v), ~Ends(v, x), Current(v, x).parent \in S
      PROVE  x \in S
  <2>1. x \in DOMAIN v /\ x \in Nat
    BY <1>1, <1>4 DEF Ends
  <2>2. Current(w, x).parent = Current(v, x).parent
    BY <1>2, <2>1 DEF NowIs
  <2>3. Fate(w, x) # "cycle"
    BY <1>4, <2>1, <2>2, OffCycle
  <2> QED
    BY <2>1, <2>3
<1>5. DOMAIN v \cup {Root} \subseteq S
  <2> HIDE DEF S
  <2> QED
    BY <1>3, <1>4, Downward, UntangledGrounded
<1>6. \A x \in DOMAIN v \cup {Root} : Fate(w, x) # "cycle"
  BY <1>5
<1> HIDE DEF S
<1> DEFINE T == {n \in Nat : \A x \in New(v, recs) : x <= n => Fate(w, x) # "cycle"}
<1>7. \A x \in New(v, recs) : x \in Nat /\ x \in Ids(recs) /\ x \notin DOMAIN v /\ x # Root /\ x # 0
  BY <1>1 DEF New, Root
<1>8. 0 \in T
  BY <1>7
<1>9. ASSUME NEW n \in T
      PROVE  n + 1 \in T
  <2>1. SUFFICES ASSUME NEW x \in New(v, recs), x <= n + 1
                 PROVE  Fate(w, x) # "cycle"
    OBVIOUS
  <2>2. Current(w, x).parent \in Living(v) \/ (Current(w, x).parent \in New(v, recs) /\ Current(w, x).parent < x)
    BY <1>2, <1>7
  <2>3. Fate(w, Current(w, x).parent) # "cycle"
    <3>1. CASE Current(w, x).parent \in Living(v)
      BY <1>6, <3>1, LivingNat
    <3>2. CASE Current(w, x).parent \in New(v, recs) /\ Current(w, x).parent < x
      <4> DEFINE p == Current(w, x).parent
      <4>1. p \in Nat /\ x \in Nat /\ p \in New(v, recs)
        BY <1>7, <3>2
      <4>2. p < x
        BY <3>2
      <4> HIDE DEF p
      <4>3. p <= n
        BY <2>1, <4>1, <4>2
      <4> QED
        BY <1>9, <4>1, <4>3 DEF p
    <3> QED
      BY <2>2, <3>1, <3>2
  <2> QED
    BY <1>7, <2>3, OffCycle
<1>10. T = Nat
  <2>1. T \in SUBSET Nat
    OBVIOUS
  <2> HIDE DEF T
  <2> QED
    BY <1>8, <1>9, <2>1, SetInduction
<1>11. \A x \in New(v, recs) : Fate(w, x) # "cycle"
  <2>1. ASSUME NEW x \in New(v, recs)
        PROVE  Fate(w, x) # "cycle"
    <3>1. x \in T /\ x <= x
      BY <1>7, <1>10
    <3> QED
      BY <3>1
  <2> QED
    BY <2>1
<1> QED
  BY <1>1, <1>6, <1>11 DEF Untangled, New

\* A node that moves below a path that does not go through it.
LEMMA MoveUntangled ==
    ASSUME NEW v, Sound(v), Siblings(v), Untangled(v), NEW N, NEW src \in Seq(N), NEW dst \in Seq(N),
           dst # <<>>, ~IsPrefix(src, dst),
           NEW r, r.id = Resolve(BuildTree(v), src), r.id # NoNode, r.id \in DOMAIN v,
           r.parent = Resolve(BuildTree(v), Front(dst)), r.parent \in Living(v),
           NEW w, NowIs(v, {r}, w), Sound(w)
    PROVE  Untangled(w)
<1> DEFINE t == BuildTree(v)  id == r.id  n == Len(dst)
           at(k) == Resolve(t, SubSeq(dst, 1, k))
<1>1. Ids({r}) = {id} /\ The({r}, id) = r
  BY DEF Ids, The
<1>2. /\ DOMAIN w = DOMAIN v /\ Current(w, id) = r
      /\ \A x \in DOMAIN v : x # id => Current(w, x) = Current(v, x)
  BY <1>1 DEF NowIs
<1>3. DOMAIN v \subseteq Nat /\ Root \in Nat /\ Living(v) \subseteq Nat
  BY LivingNat DEF Sound, Root
<1>4. n \in Nat /\ n # 0 /\ SubSeq(dst, 1, n - 1) = Front(dst)
  BY DEF Front
<1> HIDE DEF t
<1> DEFINE S == {k \in 0..(n - 1) : at(k) # NoNode => Fate(w, at(k)) # "cycle"}
<1>5. 0 \in S
  <2>1. SubSeq(dst, 1, 0) = <<>> /\ 0 \in 0..(n - 1)
    BY <1>4
  <2>2. at(0) = Root
    BY <2>1, ResolveNone DEF t
  <2>3. Ends(w, Root)
    BY DEF Ends
  <2>4. Fate(w, at(0)) # "cycle"
    BY <1>3, <2>2, <2>3, FateOfEnd
  <2> QED
    BY <2>1, <2>4
<1>6. ASSUME NEW k \in 0..((n - 1) - 1), k \in S
      PROVE  k + 1 \in S
  <2> DEFINE z == k + 1  p == SubSeq(dst, 1, k)  q == SubSeq(dst, 1, z)  nm == dst[z]
             y == at(z)
  <2>1. z \in 0..(n - 1) /\ k \in 0..(Len(dst) - 1) /\ z \in Nat \ {0} /\ z \in 0..Len(dst)
    BY <1>4
  <2>2. p \in Seq(N) /\ nm \in N /\ q = Append(p, nm)
    BY <2>1, PrefixNext
  <2>3. SUFFICES ASSUME y # NoNode
                 PROVE  Fate(w, y) # "cycle"
    BY <2>1
  <2> HIDE DEF p, nm, z
  <2>4. Splits(q, p, nm, N) /\ q \in Seq(N)
    BY <2>2, AppendSplits
  <2>5. /\ ChildOf(v, y, Resolve(t, p), nm) /\ Resolve(t, p) \in Living(v) /\ y \in Living(v) \ {Root}
    BY <2>3, <2>4, ResolveFound DEF t
  <2>6. y # id
    <3>1. SUFFICES ASSUME y = id
                   PROVE  FALSE
      OBVIOUS
    <3>2. src = q
      BY <2>3, <2>4, <3>1, ResolveOnce DEF t
    <3>3. Len(q) = z /\ z <= Len(dst) /\ \A i \in 1..z : q[i] = dst[i]
      BY <2>1, SliceType
    <3>4. IsPrefix(q, dst)
      BY <2>1, <2>4, <3>3 DEF IsPrefix
    <3> QED
      BY <3>2, <3>4
  <2>7. y \in DOMAIN v /\ y \in Nat
    BY <2>5, LivingNat
  <2>8. Current(w, y).parent = at(k)
    BY <1>2, <2>5, <2>6, <2>7 DEF ChildOf, p
  <2>9. at(k) # NoNode
    BY <1>3, <2>5, LivingNat DEF p
  <2>10. Fate(w, at(k)) # "cycle"
    BY <1>6, <2>9
  <2> QED
    BY <2>7, <2>8, <2>10, OffCycle
<1> HIDE DEF S
<1>7. n - 1 \in S
  <2> DEFINE m == n - 1
  <2>1. m \in Nat
    BY <1>4
  <2> HIDE DEF m
  <2>2. 0..m \subseteq S
    BY <1>5, <1>6, <2>1, UpTo DEF m
  <2>3. m \in 0..m
    BY <2>1
  <2> QED
    BY <2>2, <2>3 DEF m
<1>8. Fate(w, r.parent) # "cycle"
  <2>1. at(n - 1) = r.parent
    BY <1>4 DEF t
  <2>2. r.parent # NoNode
    BY LivingNat
  <2> QED
    BY <1>7, <2>1, <2>2 DEF S
<1>9. Fate(w, id) # "cycle"
  BY <1>2, <1>3, <1>8, OffCycle
<1> DEFINE X == {x \in DOMAIN v \cup {Root} : Fate(w, x) # "cycle"}
<1>10. ASSUME NEW x \in DOMAIN v \cup {Root}, x # id, Ends(v, x)
       PROVE  x \in X
  <2>1. Ends(w, x)
    BY <1>2, <1>10 DEF Ends
  <2>2. x \in Nat
    BY <1>3
  <2> QED
    BY <2>1, <2>2, FateOfEnd
<1>11. ASSUME NEW x \in DOMAIN v \cup {Root}, x # id, ~Ends(v, x), Current(v, x).parent \in X
       PROVE  x \in X
  <2>1. x \in DOMAIN v /\ x \in Nat
    BY <1>3, <1>11 DEF Ends
  <2>2. Current(w, x).parent = Current(v, x).parent
    BY <1>2, <1>11, <2>1
  <2>3. Fate(w, x) # "cycle"
    BY <1>11, <2>1, <2>2, OffCycle
  <2> QED
    BY <2>3
<1>12. id \in X
  BY <1>9
<1>13. DOMAIN v \cup {Root} \subseteq X
  <2> HIDE DEF X, id
  <2>1. \A x \in Grounded(v) : Ends(v, x) => x \in X
    BY <1>10, <1>12 DEF Grounded
  <2>2. \A x \in Grounded(v) : ~Ends(v, x) /\ Current(v, x).parent \in X => x \in X
    BY <1>11, <1>12 DEF Grounded
  <2> QED
    BY <2>1, <2>2, Downward, UntangledGrounded
<1> QED
  BY <1>2, <1>13 DEF Untangled

-----------------------------------------------------------------------------
(* The beginning.                                                          *)

RootRecord == Node(Root, Dir, Root, "", NoSection)

LEMMA RootRecordIs == IsSession({RootRecord}) /\ RootRecord.id = Root /\ RootRecord.kind = Dir
                      /\ ~RootRecord.tomb /\ RootRecord.parent = Root /\ IsRecord(RootRecord)
<1>1. /\ RootRecord.id = Root /\ RootRecord.kind = Dir /\ RootRecord.parent = Root
      /\ ~RootRecord.tomb /\ RootRecord.content.kind = "none"
  BY DEF RootRecord, Node, NoSection
<1>2. WellFormed(RootRecord)
  BY <1>1 DEF WellFormed, Dir, File
<1>3. IsRecord(RootRecord)
  <2>1. RootRecord = [id |-> RootRecord.id, kind |-> RootRecord.kind, tomb |-> RootRecord.tomb,
                      parent |-> RootRecord.parent, name |-> RootRecord.name,
                      content |-> RootRecord.content]
    BY DEF RootRecord, Node
  <2>2. Root \in Nat /\ RootRecord.tomb \in BOOLEAN
    BY DEF Root, RootRecord, Node
  <2> QED
    BY <1>1, <1>2, <2>1, <2>2 DEF IsRecord
<1>4. IsFiniteSet({RootRecord})
  BY FS_Singleton
<1> QED
  BY <1>1, <1>3, <1>4 DEF IsSession

LEMMA InitKept ==
    ASSUME NEW l, l = <<{RootRecord}>>, NEW w, w = NodeView(l)
    PROVE  Kept(l, w) /\ Untangled(w) /\ DOMAIN w = {Root}
<1> DEFINE recs == {RootRecord}  R == {RootRecord}
<1>1. IsSession(recs) /\ recs \in SUBSET R /\ Ids(recs) = {Root}
  BY RootRecordIs DEF Ids
<1>2. IsLog(<<>>, R) /\ Follows(<<>>, recs, l) /\ Len(l) \in Nat
  BY DEF IsLog, Follows
<1>3. Bare = NodeView(<<>>) /\ DOMAIN Bare = {}
  BY BareIs DEF Bare
<1>4. The(recs, Root) = RootRecord
  BY RootRecordIs DEF The
<1> HIDE DEF recs, R
<1>5. Grown(Bare, recs, Len(l), w) /\ IsLog(l, R)
  BY <1>1, <1>2, <1>3, ViewNext
<1>6. Typed(Bare, R)
  BY <1>3 DEF Typed
<1>7. Typed(w, R) /\ NowIs(Bare, recs, w) /\ \A x \in Ids(recs) : w[x][1].seq = Len(l)
  BY <1>1, <1>2, <1>5, <1>6, GrownTyped
<1>8. DOMAIN w = {Root} /\ Current(w, Root) = RootRecord /\ w[Root][1].seq \in Nat
  BY <1>1, <1>2, <1>3, <1>4, <1>7 DEF NowIs
<1>9. Sound(w)
  <2>1. IsFiniteSet({Root}) /\ Root \in Nat
    BY FS_Singleton DEF Root
  <2> QED
    BY <1>8, <2>1, RootRecordIs DEF Sound
<1>10. Fate(w, Root) = "live"
  BY <1>9, FateOfEnd DEF Ends, Root
<1>11. Living(w) = {Root}
  BY <1>8, <1>10 DEF Living
<1> QED
  BY <1>5, <1>7, <1>8, <1>9, <1>10, <1>11 DEF Kept, Logged, Siblings, Untangled

-----------------------------------------------------------------------------
(* What the application passes in.                                         *)

AllPaths ==
    Paths \cup (UNION {DOMAIN host : host \in Hosts})
          \cup (UNION {{c.path : c \in ToSet(changes)} : changes \in Batches})
AllNames == UNION {ToSet(p) : p \in AllPaths}

LEMMA AllPathsIs ==
    ASSUME NEW p \in AllPaths
    PROVE  p \in Seq(AllNames) /\ p # <<>>
<1>1. IsPath(p)
  <2>1. CASE p \in Paths
    BY <2>1, PathAssumption
  <2>2. ASSUME NEW host \in Hosts, p \in DOMAIN host
        PROVE  IsPath(p)
    BY <2>2, PathAssumption
  <2>3. ASSUME NEW changes \in Batches, NEW c \in ToSet(changes), p = c.path
        PROVE  IsPath(p)
    BY <2>3, BatchAssumption
  <2> QED
    BY <2>1, <2>2, <2>3 DEF AllPaths
<1>2. ToSet(p) \subseteq AllNames
  BY DEF AllNames
<1>3. p \in Seq(ToSet(p)) /\ p # <<>>
  BY <1>1 DEF IsPath
<1> HIDE DEF AllNames
<1> DEFINE C == ToSet(p)
<1> HIDE DEF C
<1>4. p \in Seq(C) /\ C \subseteq AllNames
  BY <1>2, <1>3 DEF C
<1> QED
  BY <1>3, <1>4

LEMMA GivenPath ==
    ASSUME NEW p \in Paths
    PROVE  p \in Seq(AllNames) /\ p # <<>>
  BY AllPathsIs DEF AllPaths

LEMMA GivenHost ==
    ASSUME NEW host \in Hosts
    PROVE  PlainTree(host, AllNames)
<1>1. IsFiniteSet(DOMAIN host)
  BY PathAssumption
<1>2. DOMAIN host \subseteq AllPaths
  BY DEF AllPaths
<1> QED
  BY <1>1, <1>2, AllPathsIs DEF PlainTree

LEMMA GivenBatch ==
    ASSUME NEW changes \in Batches
    PROVE  PlainBatch(changes, AllNames)
<1>1. \A c \in ToSet(changes) : c.path \in AllPaths
  BY DEF AllPaths
<1>2. \A c \in ToSet(changes) : c.op \in {"mkdir", "put", "remove"}
  BY BatchAssumption
<1>3. \A c \in ToSet(changes) : IsChange(c, AllNames)
  BY <1>1, <1>2, AllPathsIs DEF IsChange
<1> QED
  BY <1>3, BatchAssumption DEF PlainBatch

LEMMA TreeWider ==
    ASSUME NEW N, NEW M, N \subseteq M, NEW tree, PlainTree(tree, N)
    PROVE  PlainTree(tree, M)
  BY DEF PlainTree

-----------------------------------------------------------------------------
(* The operations.                                                         *)

LEMMA SnapshotIs ==
    ASSUME NEW s \in Snapshots
    PROVE  s = Snap(NodeView(log)) /\ RecordsScan(log) /\ ~ParentCycle(NodeView(log))
  BY DEF Snapshots, Snap

\* One more session, of records the file may get.
Commits(v, recs) ==
    /\ Follows(log, recs, log')
    /\ Fits(v, recs) /\ Apart(v, recs)
    /\ call'.op # "compact"

\* A new file of one session at most.
Compacts(recs) ==
    /\ log' = <<>> \/ Follows(<<>>, recs, log')
    /\ Fits(Bare, recs) /\ Apart(Bare, recs) /\ Rises(Bare, recs)
    /\ call'.op = "compact"

Advances(v) == (\E recs : Commits(v, recs) /\ Rises(v, recs)) \/ (\E recs : Compacts(recs))

LEMMA CommitIs ==
    ASSUME NEW recs, NEW this, Commit(recs, this)
    PROVE  Follows(log, recs, log') /\ call' = this
  BY DEF Commit, Follows

LEMMA MkdirSteps ==
    ASSUME NEW v, Sound(v), Siblings(v), NEW s, s = Snap(v), NEW N, NEW p \in Seq(N), p # <<>>,
           Mkdir(s, p)
    PROVE  Advances(v)
<1> DEFINE r == Node(NewId(v, 1), Dir, Parent(s, p), Last(p), NoSection)
<1>1. s.view = v /\ HasParent(s, p) /\ Free(s, p)
  BY SnapIs DEF Mkdir
<1>2. Commit({r}, [op |-> "mkdir", path |-> p])
  BY <1>1 DEF Mkdir
<1>3. Fits(v, {r}) /\ Apart(v, {r})
  BY <1>1, MkdirFits
<1>4. r.id = NewId(v, 1) /\ r.parent = Parent(s, p)
  BY DEF Node
<1>5. Parent(s, p) \in Living(v)
  BY <1>1, ParentIs
<1>6. r.id \notin DOMAIN v
  BY <1>4, NewIdNew
<1> HIDE DEF r
<1>7. Follows(log, {r}, log') /\ call'.op # "compact"
  BY <1>2, CommitIs
<1>8. Commits(v, {r}) /\ Rises(v, {r})
  BY <1>3, <1>4, <1>5, <1>6, <1>7 DEF Commits, Rises
<1> QED
  BY <1>8 DEF Advances

LEMMA PutSteps ==
    ASSUME NEW v, Sound(v), Siblings(v), NEW s, s = Snap(v), NEW N, NEW p \in Seq(N), p # <<>>,
           NEW c, PutFile(s, p, c)
    PROVE  Advances(v)
<1> DEFINE y == Parent(s, p)  nm == Last(p)  r == FileRecord(s, y, nm, c, 1)
<1>1. HasParent(s, p) /\ Writable(s, y, nm)
  BY DEF PutFile
<1>2. Commit({r}, [op |-> "put_file", path |-> p, content |-> c])
  BY DEF PutFile
<1>3. y \in Living(v) /\ y \in Nat
  BY <1>1, ParentIs
<1> HIDE DEF y, nm
<1> DEFINE k == 1
<1>4. k \in Nat /\ k # 0
  OBVIOUS
<1> HIDE DEF k
<1>5. r = FileRecord(s, y, nm, c, k)
  BY DEF k
<1> HIDE DEF r
<1>6. Fits(v, {r}) /\ Apart(v, {r})
  BY <1>1, <1>3, <1>4, <1>5, PutFits
<1>7. Writes(v, r, y, nm, k)
  BY <1>1, <1>3, <1>4, <1>5, FileRecordIs
<1>8. Rises(v, {r})
  <2>1. CASE r.id = NewId(v, k)
    BY <1>3, <1>4, <1>7, <2>1, NewIdNew DEF Writes, Rises
  <2>2. CASE ChildOf(v, r.id, y, nm)
    <3>1. r.id \in Living(v) \ {Root} /\ Current(v, r.id).parent = y
      BY <2>2 DEF ChildOf
    <3> QED
      BY <1>7, <3>1, LivingNat DEF Writes, Rises
  <2> QED
    BY <1>7, <2>1, <2>2 DEF Writes
<1>9. Follows(log, {r}, log') /\ call'.op # "compact"
  BY <1>2, CommitIs
<1> QED
  BY <1>6, <1>8, <1>9 DEF Commits, Advances

LEMMA RmSteps ==
    ASSUME NEW v, Sound(v), Siblings(v), NEW s, s = Snap(v), NEW N, NEW p \in Seq(N), p # <<>>,
           Rm(s, p)
    PROVE  Advances(v)
<1> DEFINE x == Resolve(BuildTree(v), p)  r == Tombstone(Current(v, x))
<1>1. s.view = v /\ s.tree = BuildTree(v)
  BY SnapIs
<1>2. x # NoNode /\ Commit({r}, [op |-> "rm", path |-> p])
  BY <1>1 DEF Rm
<1>3. x \in Living(v) \ {Root}
  <2>1. Splits(p, Front(p), Last(p), N)
    BY PathSplits
  <2> HIDE DEF x
  <2> QED
    BY <1>2, <2>1, ResolveFound DEF x
<1> HIDE DEF x
<1>4. Fits(v, {r}) /\ Apart(v, {r})
  BY <1>3, DeadFits
<1>5. x \in DOMAIN v /\ IsRecord(Current(v, x)) /\ Current(v, x).id = x
  BY <1>3, LivingNat DEF Sound
<1>6. r.id = x /\ r.parent = Current(v, x).parent
  BY <1>5, TombIs
<1> HIDE DEF r
<1>7. Rises(v, {r})
  BY <1>5, <1>6 DEF Rises
<1>8. Follows(log, {r}, log') /\ call'.op # "compact"
  BY <1>2, CommitIs
<1> QED
  BY <1>4, <1>7, <1>8 DEF Commits, Advances

LEMMA BatchSteps ==
    ASSUME NEW v, Sound(v), Siblings(v), NEW s, s = Snap(v), NEW N, NEW changes,
           PlainBatch(changes, N), NEW this, this.op # "compact",
           CommitBatch(Batch(s, changes), this)
    PROVE  Advances(v)
<1> DEFINE recs == Batch(s, changes).recs
<1>1. Commit(recs, this)
  BY DEF CommitBatch
<1> HIDE DEF recs
<1>2. Fits(v, recs) /\ Apart(v, recs) /\ Rises(v, recs)
  BY BatchFits DEF recs
<1>3. Follows(log, recs, log') /\ call' = this
  BY <1>1, CommitIs
<1> QED
  BY <1>2, <1>3 DEF Commits, Advances

LEMMA LiveTreePlain ==
    ASSUME NEW v, Sound(v), Siblings(v), NEW N, NEW M, M = NamesOf(v, N),
           NEW tree, DOMAIN tree \subseteq LivePaths(BuildTree(v))
    PROVE  PlainTree(tree, M)
<1> DEFINE L == LivePaths(BuildTree(v))
<1>1. IsFiniteSet(L) /\ \A p \in L : p \in Seq(M) /\ p # <<>>
  BY LivePathsIs
<1>2. IsFiniteSet(DOMAIN tree)
  BY <1>1, FS_Subset
<1> QED
  BY <1>1, <1>2 DEF PlainTree

LEMMA UpdateSteps ==
    ASSUME NEW v, Sound(v), Siblings(v), NEW s, s = Snap(v), NEW host \in Hosts, Update(s, host)
    PROVE  Advances(v)
<1> DEFINE changes == CollectChanges(host)  this == [op |-> "update", host |-> host]
<1>1. CommitBatch(Batch(s, changes), this)
  BY DEF Update
<1>2. this.op # "compact"
  OBVIOUS
<1> HIDE DEF changes, this
<1>3. PlainBatch(changes, AllNames)
  BY GivenHost, CollectPlain DEF changes
<1> QED
  BY <1>1, <1>2, <1>3, BatchSteps

LEMMA MirrorSteps ==
    ASSUME NEW v, Sound(v), Siblings(v), NEW s, s = Snap(v), NEW host \in Hosts, Mirror(s, host)
    PROVE  Advances(v)
<1> DEFINE puts == CollectChanges(host)  rms == Removals(s, host)  changes == puts \o rms
           this == [op |-> "mirror", host |-> host]
           S == LivePaths(s.tree) \ DOMAIN host
           M == NamesOf(v, AllNames)
<1>1. CommitBatch(Batch(s, changes), this)
  BY DEF Mirror
<1>2. this.op # "compact"
  OBVIOUS
<1> HIDE DEF this
<1>3. AllNames \subseteq M
  BY DEF NamesOf
<1>4. IsFiniteSet(S) /\ \A p \in S : p \in Seq(M) /\ p # <<>>
  <2> DEFINE L == LivePaths(BuildTree(v))
  <2>1. S \subseteq L
    BY SnapIs
  <2> HIDE DEF S
  <2>2. IsFiniteSet(L) /\ \A p \in L : p \in Seq(M) /\ p # <<>>
    BY LivePathsIs
  <2> QED
    BY <2>1, <2>2, FS_Subset
<1> HIDE DEF M, S
<1>5. PlainTree(host, M)
  BY <1>3, GivenHost, TreeWider
<1>6. PlainBatch(puts, M)
  BY <1>5, CollectPlain
<1>7. rms \in Seq(ToSet(rms)) /\ \A c \in ToSet(rms) : IsChange(c, M) /\ c.op = "remove"
  <2> HIDE DEF rms
  <2>1. S = LivePaths(s.tree) \ DOMAIN host /\ rms = Removals(s, host)
    BY DEF S, rms
  <2> QED
    BY <1>4, <2>1, RemovalsPlain
<1>8. changes = puts \o rms
  OBVIOUS
<1> HIDE DEF puts, rms, changes
<1>9. PlainBatch(changes, M)
  BY <1>6, <1>7, <1>8, ConcatPlain
<1> QED
  BY <1>1, <1>2, <1>9, BatchSteps

LEMMA CompactSteps ==
    ASSUME NEW v, Sound(v), Siblings(v), NEW s, s = Snap(v), Compact(s)
    PROVE  \E recs : Compacts(recs)
<1> DEFINE now == LiveTree(s.view, s.tree)
           new == [view |-> NodeView(<<>>), tree |-> BuildTree(NodeView(<<>>))]
           changes == CollectChanges(now)
           recs == Batch(new, changes).recs
           M == NamesOf(v, AllNames)
<1>1. log' = (IF recs = {} THEN <<>> ELSE <<recs>>) /\ call' = [op |-> "compact"]
  BY DEF Compact
<1>2. new = Snap(Bare)
  BY DEF Snap, Bare
<1>3. Sound(Bare) /\ Siblings(Bare)
  BY BareIs DEF Kept, Logged
<1>4. DOMAIN now = LivePaths(BuildTree(v))
  BY SnapIs DEF LiveTree
<1> HIDE DEF now, M
<1>5. PlainTree(now, M)
  <2>1. M = NamesOf(v, AllNames) /\ DOMAIN now \subseteq LivePaths(BuildTree(v))
    BY <1>4 DEF M
  <2> QED
    BY <2>1, LiveTreePlain
<1>6. PlainBatch(changes, M)
  BY <1>5, CollectPlain
<1> HIDE DEF new, changes
<1>7. recs = Batch(new, changes).recs
  OBVIOUS
<1> HIDE DEF recs
<1>8. Fits(Bare, recs) /\ Apart(Bare, recs) /\ Rises(Bare, recs)
  BY <1>2, <1>3, <1>6, <1>7, BatchFits
<1>9. log' = <<>> \/ Follows(<<>>, recs, log')
  BY <1>1 DEF Follows
<1>10. call'.op = "compact"
  BY <1>1
<1> QED
  BY <1>8, <1>9, <1>10 DEF Compacts

LEMMA OperationSteps ==
    ASSUME NEW v, Sound(v), Siblings(v), NEW s, s = Snap(v), Operation(s)
    PROVE  Advances(v)
<1>1. ASSUME NEW p \in Paths, Mkdir(s, p) \/ Rm(s, p)
      PROVE  Advances(v)
  BY <1>1, GivenPath, MkdirSteps, RmSteps
<1>2. ASSUME NEW p \in Paths, NEW c \in Contents, PutFile(s, p, c)
      PROVE  Advances(v)
  BY <1>2, GivenPath, PutSteps
<1>3. ASSUME NEW changes \in Batches, CommitChanges(s, changes)
      PROVE  Advances(v)
  <2> DEFINE this == [op |-> "commit_changes", changes |-> changes]
  <2>1. CommitBatch(Batch(s, changes), this)
    BY <1>3 DEF CommitChanges
  <2>2. this.op # "compact"
    OBVIOUS
  <2> HIDE DEF this
  <2> QED
    BY <2>1, <2>2, GivenBatch, BatchSteps
<1>4. ASSUME NEW host \in Hosts, Update(s, host) \/ Mirror(s, host)
      PROVE  Advances(v)
  BY <1>4, UpdateSteps, MirrorSteps
<1>5. CASE Compact(s)
  BY <1>5, CompactSteps DEF Advances
<1> QED
  BY <1>1, <1>2, <1>3, <1>4, <1>5 DEF Operation

\* A move, into what is moved or not.
Moves(v, src, dst, r) ==
    /\ Commits(v, {r})
    /\ r.id = Resolve(BuildTree(v), src) /\ r.id # NoNode /\ r.id \in DOMAIN v
    /\ r.parent = Resolve(BuildTree(v), Front(dst)) /\ r.parent \in Living(v)

LEMMA MvSteps ==
    ASSUME NEW v, Sound(v), Siblings(v), NEW s, s = Snap(v), NEW src \in Paths, NEW dst \in Paths,
           Mv(s, src, dst)
    PROVE  \E r : Moves(v, src, dst, r)
<1> DEFINE x == Resolve(s.tree, src)  old == Current(s.view, x)
           r == MoveRecord(s, dst, x, old)
<1>1. x # NoNode /\ HasParent(s, dst) /\ Free(s, dst)
  BY DEF Mv
<1>2. Commit({r}, [op |-> "mv", path |-> src, to |-> dst])
  BY DEF Mv, MoveRecord
<1>3. s.tree = BuildTree(v) /\ s.view = v
  BY SnapIs
<1>4. src \in Seq(AllNames) /\ src # <<>> /\ dst \in Seq(AllNames) /\ dst # <<>>
  BY GivenPath
<1>5. x \in DOMAIN v
  <2>1. Splits(src, Front(src), Last(src), AllNames)
    BY <1>4, PathSplits
  <2>2. Resolve(BuildTree(v), src) \in Living(v) \ {Root}
    BY <1>1, <1>3, <1>4, <2>1, ResolveFound
  <2> QED
    BY <1>3, <2>2, LivingNat
<1>6. /\ Parent(s, dst) = Resolve(BuildTree(v), Front(dst))
      /\ Parent(s, dst) \in Living(v)
  BY <1>1, <1>4, ParentIs
<1>7. /\ Fits(v, {r}) /\ Apart(v, {r}) /\ r.id = x
      /\ r.parent = Parent(s, dst)
  <2> HIDE DEF x, old
  <2>1. x = Resolve(s.tree, src) /\ old = Current(s.view, x)
    BY DEF x, old
  <2> QED
    BY <1>1, <1>4, <2>1, MvFits
<1> HIDE DEF r
<1>8. Follows(log, {r}, log') /\ call'.op # "compact"
  BY <1>2, CommitIs
<1>9. Commits(v, {r})
  BY <1>7, <1>8 DEF Commits
<1> QED
  BY <1>1, <1>3, <1>5, <1>6, <1>7, <1>9 DEF Moves

\* Whatever a step does, it leaves a log that is kept.
LEMMA AdvanceKept ==
    ASSUME NEW v, Kept(log, v), NEW recs, Commits(v, recs) \/ Compacts(recs),
           NEW w, w = NodeView(log')
    PROVE  Kept(log', w)
<1>1. CASE Commits(v, recs)
  <2> DEFINE m == log'
  <2>1. Follows(log, recs, m) /\ Fits(v, recs) /\ Apart(v, recs) /\ w = NodeView(m)
    BY <1>1 DEF Commits
  <2> HIDE DEF m
  <2>2. Kept(m, w)
    BY <2>1, KeptNext
  <2> QED
    BY <2>2 DEF m
<1>2. CASE Compacts(recs)
  <2> DEFINE m == log'  no == <<>>
  <2>1. /\ m = no \/ Follows(no, recs, m)
        /\ Fits(Bare, recs) /\ Apart(Bare, recs) /\ w = NodeView(m)
    BY <1>2 DEF Compacts
  <2>2. Kept(no, Bare) /\ Bare = NodeView(no)
    BY BareIs DEF Bare
  <2> HIDE DEF m, no
  <2>3. Kept(m, w)
    <3>1. CASE m = no
      BY <2>1, <2>2, <3>1
    <3>2. CASE Follows(no, recs, m)
      BY <2>1, <2>2, <3>2, KeptNext
    <3> QED
      BY <2>1, <3>1, <3>2
  <2> QED
    BY <2>3 DEF m
<1> QED
  BY <1>1, <1>2

LEMMA NextAdvances ==
    ASSUME NEW v, v = NodeView(log), Sound(v), Siblings(v), Next
    PROVE  \E recs : Commits(v, recs) \/ Compacts(recs)
<1>1. PICK s \in Snapshots : Operation(s) \/ \E src, dst \in Paths : Mv(s, src, dst)
  BY DEF Next
<1>2. s = Snap(v)
  BY SnapshotIs
<1>3. CASE Operation(s)
  BY <1>2, <1>3, OperationSteps DEF Advances
<1>4. ASSUME NEW src \in Paths, NEW dst \in Paths, Mv(s, src, dst)
      PROVE  \E recs : Commits(v, recs)
  BY <1>2, <1>4, MvSteps DEF Moves
<1> QED
  BY <1>1, <1>3, <1>4

LEMMA NextKept ==
    ASSUME NEW v, Kept(log, v), Next, NEW w, w = NodeView(log')
    PROVE  Kept(log', w)
<1>1. v = NodeView(log) /\ Sound(v) /\ Siblings(v)
  BY DEF Kept, Logged
<1>2. PICK recs : Commits(v, recs) \/ Compacts(recs)
  BY <1>1, NextAdvances
<1> QED
  BY <1>2, AdvanceKept

-----------------------------------------------------------------------------
(* The theorems.                                                           *)

LEMMA ObserveIs ==
    ASSUME Observe
    PROVE  view' = NodeView(log')
  BY DEF Observe

LEMMA SafeIsNext ==
    ASSUME SafeNext
    PROVE  Next
  BY DEF SafeNext, Next, SafeMv

LEMMA FirstLog ==
    ASSUME MCInit
    PROVE  Kept(log, view) /\ Untangled(view)
<1>1. log = <<{RootRecord}>> /\ view = NodeView(log)
  BY Zenon DEF MCInit, Init, RootRecord
<1> QED
  BY <1>1, InitKept

LEMMA KeptStep ==
    ASSUME Kept(log, view), [Next /\ Observe]_mcvars
    PROVE  Kept(log, view)'
<1>1. CASE Next /\ Observe
  <2>1. view' = NodeView(log')
    BY <1>1, ObserveIs
  <2> DEFINE v == view  m == log'  w == view'
  <2>2. Kept(log, v) /\ Next /\ w = NodeView(log')
    BY <1>1, <2>1
  <2> HIDE DEF v, w
  <2>3. Kept(log', w)
    BY <2>2, NextKept
  <2> QED
    BY <2>3 DEF w
<1>2. CASE UNCHANGED mcvars
  BY <1>2 DEF mcvars, vars, Kept, Logged
<1> QED
  BY <1>1, <1>2

\* In every state the log reads back as a view of sound records in which no two live
\* siblings have one name, whatever the application calls, moves into what is moved
\* included.
THEOREM KeptAlways == MCUnsafeSpec => []Kept(log, view)
<1>1. MCInit => Kept(log, view)
  BY FirstLog
<1>2. Kept(log, view) /\ [Next /\ Observe]_mcvars => Kept(log, view)'
  BY KeptStep
<1> QED
  BY <1>1, <1>2, PTL DEF MCUnsafeSpec

LEMMA SafeIsUnsafe == MCSpec => MCUnsafeSpec
<1>1. [SafeNext /\ Observe]_mcvars => [Next /\ Observe]_mcvars
  BY SafeIsNext
<1> QED
  BY <1>1, PTL DEF MCSpec, MCUnsafeSpec

LEMMA AliveIs ==
    ASSUME NEW v
    PROVE  Alive(v) \ {Root} = Living(v) \ {Root} /\ Alive(v) = Living(v) \cap DOMAIN v
  BY DEF Alive, Living

\* Free of mkdir and mv, and the look into the tree by every change of a batch, keep
\* one live node at most at a parent and name.
THEOREM NoTwoSiblings == MCSpec => []SiblingsUnique
<1>1. Kept(log, view) => SiblingsUnique
  <2>1. SUFFICES ASSUME Siblings(view) PROVE SiblingsUnique
    BY DEF Kept
  <2> QED
    BY <2>1, AliveIs DEF Siblings, SamePlace, SiblingsUnique
<1> QED
  BY <1>1, KeptAlways, SafeIsUnsafe, PTL

LEMMA DeadStep ==
    ASSUME Kept(log, view), [Next /\ Observe]_mcvars, call'.op # "compact"
    PROVE  \A id \in DOMAIN view \ Alive(view) : id \notin Alive(view')
<1>1. CASE Next /\ Observe
  <2> DEFINE v == view  w == view'  m == log'
  <2>1. v = NodeView(log) /\ Sound(v) /\ Siblings(v) /\ w = NodeView(m)
    BY <1>1, ObserveIs DEF Kept, Logged
  <2>2. Kept(log, v)
    OBVIOUS
  <2> HIDE DEF v, w
  <2>3. PICK recs : Commits(v, recs)
    BY <1>1, <2>1, NextAdvances DEF Compacts
  <2>4. Fits(v, recs) /\ Apart(v, recs) /\ Follows(log, recs, m)
    BY <2>3 DEF Commits
  <2> HIDE DEF m
  <2>5. Living(w) \subseteq Living(v) \cup New(v, recs)
    BY <2>1, <2>2, <2>4, KeptNext
  <2>6. \A id \in DOMAIN v \ Alive(v) : id \notin Alive(w)
    BY <2>5, AliveIs DEF New
  <2> QED
    BY <2>6 DEF v, w
<1>2. CASE UNCHANGED mcvars
  <2>1. view' = view
    BY <1>2 DEF mcvars
  <2> QED
    BY <2>1
<1> QED
  BY <1>1, <1>2

\* No operation puts a record of a node that is not live, and none takes an id again.
THEOREM DeathIsFinal == MCSpec => DeadStayDead
<1>1. Kept(log, view) /\ [Next /\ Observe]_mcvars
        => [call'.op # "compact" =>
                \A id \in DOMAIN view \ Alive(view) : id \notin Alive(view')]_mcvars
  BY DeadStep
<1> QED
  BY <1>1, KeptAlways, SafeIsUnsafe, PTL DEF MCUnsafeSpec, DeadStayDead

-----------------------------------------------------------------------------
(* Where no move goes into what is moved.                                  *)

OffSelf(v) == \A x \in DOMAIN v \ {Root} : Current(v, x).parent # x
Tidy(v) == Untangled(v) /\ OffSelf(v)

LEMMA RisesTidy ==
    ASSUME NEW v, Sound(v), Tidy(v), NEW recs, Fits(v, recs), Rises(v, recs),
           NEW w, NowIs(v, recs, w), Sound(w)
    PROVE  Tidy(w)
<1>1. Untangled(w)
  BY RisesUntangled DEF Tidy
<1>2. IsSession(recs) /\ DOMAIN w = DOMAIN v \cup Ids(recs)
  BY DEF Fits, NowIs
<1>3. ASSUME NEW x \in DOMAIN w \ {Root}
      PROVE  Current(w, x).parent # x
  <2>1. CASE x \in Ids(recs)
    <3>1. The(recs, x) \in recs /\ The(recs, x).id = x /\ Current(w, x) = The(recs, x)
      BY <1>2, <2>1, TheIs DEF NowIs
    <3>2. CASE x \in DOMAIN v
      BY <1>3, <3>1, <3>2 DEF Rises, Tidy, OffSelf
    <3>3. CASE x \notin DOMAIN v
      <4>1. Current(w, x).parent \in Living(v) \/ Current(w, x).parent < x
        BY <3>1, <3>3 DEF Rises
      <4>2. x \notin Living(v)
        BY <1>3, <3>3 DEF Living
      <4>3. x \in Nat
        BY <1>3 DEF Sound
      <4> QED
        BY <4>1, <4>2, <4>3
    <3> QED
      BY <3>2, <3>3
  <2>2. CASE x \notin Ids(recs)
    BY <1>2, <1>3, <2>2 DEF NowIs, Tidy, OffSelf
  <2> QED
    BY <2>1, <2>2
<1> QED
  BY <1>1, <1>3 DEF Tidy, OffSelf

LEMMA BareTidy == Tidy(Bare) /\ Sound(Bare) /\ Kept(<<>>, Bare)
<1>1. Kept(<<>>, Bare) /\ Sound(Bare) /\ DOMAIN Bare = {} /\ Living(Bare) = {Root}
  BY BareIs DEF Kept, Logged
<1> QED
  BY <1>1 DEF Tidy, Untangled, OffSelf, Living

LEMMA MoveTidy ==
    ASSUME NEW v, Sound(v), Siblings(v), Tidy(v), NEW N, NEW src \in Seq(N), NEW dst \in Seq(N),
           dst # <<>>, ~IsPrefix(src, dst),
           NEW r, r.id = Resolve(BuildTree(v), src), r.id # NoNode, r.id \in DOMAIN v,
           r.parent = Resolve(BuildTree(v), Front(dst)), r.parent \in Living(v),
           NEW w, NowIs(v, {r}, w), Sound(w)
    PROVE  Tidy(w)
<1>1. Untangled(w)
  BY MoveUntangled DEF Tidy
<1>2. r.parent # r.id
  <2>1. SUFFICES ASSUME r.parent = r.id PROVE FALSE
    OBVIOUS
  <2>2. Splits(dst, Front(dst), Last(dst), N)
    BY PathSplits
  <2>3. Front(dst) \in Seq(N) /\ Len(dst) = Len(Front(dst)) + 1
        /\ \A k \in 1..Len(Front(dst)) : Front(dst)[k] = dst[k]
    BY <2>2 DEF Splits
  <2>4. src = Front(dst)
    BY <2>1, <2>3, ResolveOnce
  <2>5. Len(src) <= Len(dst) /\ \A i \in 1..Len(src) : src[i] = dst[i]
    BY <2>3, <2>4
  <2> QED
    BY <2>5 DEF IsPrefix
<1>3. ASSUME NEW x \in DOMAIN w \ {Root}
      PROVE  Current(w, x).parent # x
  <2>1. Ids({r}) = {r.id} /\ The({r}, r.id) = r
    BY DEF Ids, The
  <2>2. CASE x = r.id
    BY <1>2, <2>1, <2>2 DEF NowIs
  <2>3. CASE x # r.id
    BY <1>3, <2>1, <2>3 DEF NowIs, Tidy, OffSelf
  <2> QED
    BY <2>2, <2>3
<1> QED
  BY <1>1, <1>3 DEF Tidy, OffSelf

LEMMA AdvanceTidy ==
    ASSUME NEW v, Kept(log, v), Tidy(v), NEW recs,
           (Commits(v, recs) /\ Rises(v, recs)) \/ Compacts(recs),
           NEW w, w = NodeView(log')
    PROVE  Tidy(w)
<1>1. CASE Commits(v, recs) /\ Rises(v, recs)
  <2> DEFINE m == log'
  <2>1. Follows(log, recs, m) /\ Fits(v, recs) /\ w = NodeView(m)
    BY <1>1 DEF Commits
  <2>2. Logged(log, v) /\ Sound(v)
    BY DEF Kept, Logged
  <2> HIDE DEF m
  <2>3. NowIs(v, recs, w) /\ Sound(w)
    BY <2>1, <2>2, LoggedNext
  <2> QED
    BY <1>1, <2>1, <2>2, <2>3, RisesTidy
<1>2. CASE Compacts(recs)
  <2> DEFINE m == log'  no == <<>>
  <2>1. /\ m = no \/ Follows(no, recs, m)
        /\ Fits(Bare, recs) /\ Rises(Bare, recs) /\ w = NodeView(m)
    BY <1>2 DEF Compacts
  <2>2. Logged(no, Bare) /\ Bare = NodeView(no) /\ Sound(Bare) /\ Tidy(Bare)
    BY BareTidy DEF Kept, Logged
  <2> HIDE DEF m, no
  <2>3. CASE m = no
    BY <2>1, <2>2, <2>3
  <2>4. CASE Follows(no, recs, m)
    <3>1. NowIs(Bare, recs, w) /\ Sound(w)
      BY <2>1, <2>2, <2>4, LoggedNext
    <3> QED
      BY <2>1, <2>2, <3>1, RisesTidy
  <2> QED
    BY <2>1, <2>3, <2>4
<1> QED
  BY <1>1, <1>2

LEMMA SafeTidy ==
    ASSUME NEW v, Kept(log, v), Tidy(v), SafeNext, NEW w, w = NodeView(log')
    PROVE  Tidy(w)
<1>1. v = NodeView(log) /\ Sound(v) /\ Siblings(v) /\ Logged(log, v)
  BY DEF Kept, Logged
<1>2. PICK s \in Snapshots : Operation(s) \/ \E src, dst \in Paths : SafeMv(s, src, dst)
  BY DEF SafeNext
<1>3. s = Snap(v)
  BY <1>1, <1>2, SnapshotIs
<1>4. CASE Operation(s)
  <2>1. Advances(v)
    BY <1>1, <1>3, <1>4, OperationSteps
  <2>2. \E recs : (Commits(v, recs) /\ Rises(v, recs)) \/ Compacts(recs)
    BY <2>1 DEF Advances
  <2> QED
    BY <2>2, AdvanceTidy
<1>5. ASSUME NEW src \in Paths, NEW dst \in Paths, SafeMv(s, src, dst)
      PROVE  Tidy(w)
  <2>1. ~IsPrefix(src, dst) /\ Mv(s, src, dst)
    BY <1>5 DEF SafeMv
  <2>2. PICK r : Moves(v, src, dst, r)
    BY <1>1, <1>3, <2>1, MvSteps
  <2> DEFINE m == log'  recs == {r}
  <2>3. Follows(log, recs, m) /\ Fits(v, recs) /\ w = NodeView(m)
    BY <2>2 DEF Commits, Moves
  <2> HIDE DEF m, recs
  <2>4. NowIs(v, recs, w) /\ Sound(w)
    BY <1>1, <2>3, LoggedNext
  <2>5. NowIs(v, {r}, w)
    BY <2>4 DEF recs
  <2>6. src \in Seq(AllNames) /\ dst \in Seq(AllNames) /\ dst # <<>>
    BY GivenPath
  <2> QED
    BY <1>1, <2>1, <2>2, <2>4, <2>5, <2>6, MoveTidy DEF Moves
<1> QED
  BY <1>2, <1>4, <1>5

LEMMA TidyStep ==
    ASSUME Kept(log, view), Tidy(view), [SafeNext /\ Observe]_mcvars
    PROVE  Tidy(view)'
<1>1. CASE SafeNext /\ Observe
  <2> DEFINE v == view  w == view'
  <2>1. w = NodeView(log') /\ Kept(log, v) /\ Tidy(v)
    BY <1>1, ObserveIs
  <2> HIDE DEF v, w
  <2>2. Tidy(w)
    BY <1>1, <2>1, SafeTidy
  <2> QED
    BY <2>2 DEF w
<1>2. CASE UNCHANGED mcvars
  BY <1>2 DEF mcvars
<1> QED
  BY <1>1, <1>2

LEMMA FirstTidy ==
    ASSUME MCInit
    PROVE  Tidy(view)
<1>1. log = <<{RootRecord}>> /\ view = NodeView(log)
  BY Zenon DEF MCInit, Init, RootRecord
<1>2. Kept(log, view) /\ Untangled(view) /\ DOMAIN view = {Root}
  BY <1>1, InitKept
<1> QED
  BY <1>1, <1>2 DEF Tidy, OffSelf

\* No parents lead back to where they started, if no move goes into what it moves.
THEOREM TidyAlways == MCSpec => []Tidy(view)
<1>1. MCInit => Tidy(view)
  BY FirstTidy
<1>2. Kept(log, view) /\ Tidy(view) /\ [SafeNext /\ Observe]_mcvars => Tidy(view)'
  BY TidyStep
<1> QED
  BY <1>1, <1>2, KeptAlways, SafeIsUnsafe, PTL DEF MCSpec

\* The same as the run states it: W5, second half, which mv alone leaves to its caller.
THEOREM NothingInItself == MCSpec => []Acyclic
<1>1. Tidy(view) => Acyclic
  BY DEF Tidy, Untangled, OffSelf, Acyclic
<1> QED
  BY <1>1, TidyAlways, PTL

-----------------------------------------------------------------------------
(* The versions of a file.  Chain is what Versions makes of the history of *)
(* a node; a record put before a history puts its content, if it has one,  *)
(* before the chain.                                                       *)

Chain(s) ==
    LET content(n) == s[n].rec.content
        first[n \in 0..Len(s)] ==
            IF n = 0 THEN <<>>
            ELSE IF content(n).kind = "none" THEN first[n - 1]
            ELSE Append(first[n - 1], content(n))
    IN  first[Len(s)]

Chooses(g, s, n) ==
    /\ g[0] = <<>>
    /\ \A k \in 1..n : g[k] = IF s[k].rec.content.kind = "none" THEN g[k - 1]
                              ELSE Append(g[k - 1], s[k].rec.content)

LEMMA VersionsChain ==
    ASSUME NEW v, NEW id
    PROVE  Versions(v, id) = Chain(v[id])
  BY DEF Versions, Chain

ContentsOf(s) == [k \in 1..Len(s) |-> s[k].rec.content]

LEMMA ChainIs ==
    ASSUME NEW E, NEW s \in Seq(E), NEW K, \A k \in 1..Len(s) : s[k].rec.content \in K
    PROVE  \E g : g \in [0..Len(s) -> Seq(K)] /\ Chooses(g, s, Len(s)) /\ Chain(s) = g[Len(s)]
<1> DEFINE n == Len(s)  c == ContentsOf(s)  keep == {k \in 1..n : c[k].kind # "none"}
           h == CHOOSE h : h = [k \in 0..Len(s) |->
                    IF k = 0 THEN <<>>
                    ELSE IF s[k].rec.content.kind = "none" THEN h[k - 1]
                    ELSE Append(h[k - 1], s[k].rec.content)]
<1>1. n \in Nat /\ n \in 0..n /\ 0 \in 0..n
  OBVIOUS
<1>2. c \in Seq(K) /\ Len(c) = n /\ \A k \in 1..n : c[k] = s[k].rec.content
  BY DEF ContentsOf
<1>3. Chain(s) = h[n]
  BY Zenon DEF Chain
<1> HIDE DEF c
<1>4. \A k \in 1..n : k \in keep <=> s[k].rec.content.kind # "none"
  BY <1>2
<1> HIDE DEF keep
<1>5. PICK g : g \in [0..n -> Seq(K)] /\ Selects(g, c, keep, n)
  BY <1>1, <1>2, SelectExists
<1>6. Chooses(g, s, n)
  <2>1. g[0] = <<>>
    BY <1>5 DEF Selects
  <2>2. ASSUME NEW k \in 1..n
        PROVE  g[k] = IF s[k].rec.content.kind = "none" THEN g[k - 1]
                      ELSE Append(g[k - 1], s[k].rec.content)
    <3>1. g[k] = IF k \in keep THEN Append(g[k - 1], c[k]) ELSE g[k - 1]
      BY <1>5 DEF Selects
    <3>2. (k \in keep <=> s[k].rec.content.kind # "none") /\ c[k] = s[k].rec.content
      BY <1>2, <1>4
    <3> HIDE DEF n
    <3> QED
      BY <3>1, <3>2, Zenon
  <2> QED
    BY <2>1, <2>2 DEF Chooses
<1>7. g = [k \in 0..n |->
              IF k = 0 THEN <<>>
              ELSE IF s[k].rec.content.kind = "none" THEN g[k - 1]
              ELSE Append(g[k - 1], s[k].rec.content)]
  <2>1. ASSUME NEW k \in 0..n
        PROVE  g[k] = IF k = 0 THEN <<>>
                      ELSE IF s[k].rec.content.kind = "none" THEN g[k - 1]
                      ELSE Append(g[k - 1], s[k].rec.content)
    <3>1. k = 0 \/ k \in 1..n
      BY <1>1
    <3> HIDE DEF n
    <3> QED
      BY <1>6, <3>1, Zenon DEF Chooses
  <2> QED
    BY <1>5, <2>1
<1>8. h = CHOOSE f : f = [k \in 0..n |->
              IF k = 0 THEN <<>>
              ELSE IF s[k].rec.content.kind = "none" THEN f[k - 1]
              ELSE Append(f[k - 1], s[k].rec.content)]
  OBVIOUS
<1> HIDE DEF n, h
<1>9. h = [k \in 0..n |->
              IF k = 0 THEN <<>>
              ELSE IF s[k].rec.content.kind = "none" THEN h[k - 1]
              ELSE Append(h[k - 1], s[k].rec.content)]
  BY <1>7, <1>8, Zenon
<1>10. Chooses(h, s, n)
  <2>1. \A k \in 1..n : k \in 0..n /\ k # 0
    BY <1>1
  <2>2. h[0] = <<>>
    BY <1>1, <1>9
  <2>3. ASSUME NEW k \in 1..n
        PROVE  h[k] = IF s[k].rec.content.kind = "none" THEN h[k - 1]
                      ELSE Append(h[k - 1], s[k].rec.content)
    BY <1>9, <2>1, Zenon
  <2> QED
    BY <2>2, <2>3 DEF Chooses
<1> DEFINE S == {k \in 0..n : h[k] = g[k]}
<1>11. 0 \in S
  BY <1>1, <1>6, <1>10 DEF Chooses
<1>12. ASSUME NEW k \in 0..(n - 1), k \in S
       PROVE  k + 1 \in S
  <2> DEFINE z == k + 1
  <2>1. z \in 1..n /\ z \in 0..n /\ z - 1 = k
    BY <1>1
  <2> HIDE DEF z
  <2>2. h[z - 1] = g[z - 1]
    BY <1>12, <2>1
  <2>3. h[z] = g[z]
    BY <1>6, <1>10, <2>1, <2>2, Zenon DEF Chooses
  <2> QED
    BY <2>1, <2>3 DEF z
<1> HIDE DEF S
<1>13. 0..n \subseteq S
  BY <1>1, <1>11, <1>12, UpTo
<1>14. h[n] = g[n]
  BY <1>1, <1>13 DEF S
<1> QED
  BY <1>3, <1>5, <1>6, <1>14 DEF n

Chosen(c) == IF c.kind = "none" THEN <<>> ELSE <<c>>

LEMMA ChainNext ==
    ASSUME NEW E, NEW s \in Seq(E), NEW e \in E, NEW K, \A x \in E : x.rec.content \in K,
           NEW z, OneBefore(z, e, s)
    PROVE  Chain(z) = Chosen(e.rec.content) \o Chain(s) /\ Chain(s) \in Seq(K)
<1> DEFINE n == Len(s)  m == Len(z)  P == Chosen(e.rec.content)
<1>1. z \in Seq(E) /\ m = n + 1 /\ z[1] = e /\ n \in Nat /\ m \in Nat
      /\ \A i \in 1..n : z[i + 1] = s[i]
  BY OneThen DEF Headed, LiesAt
<1>2. (\A k \in 1..n : s[k].rec.content \in K) /\ \A k \in 1..m : z[k].rec.content \in K
  BY <1>1
<1>3. PICK g : g \in [0..n -> Seq(K)] /\ Chooses(g, s, n) /\ Chain(s) = g[n]
  BY <1>2, ChainIs
<1>4. PICK h : h \in [0..m -> Seq(K)] /\ Chooses(h, z, m) /\ Chain(z) = h[m]
  BY <1>1, <1>2, ChainIs
<1>5. e.rec.content \in K /\ P \in Seq(K)
  BY DEF Chosen
<1> HIDE DEF n, m, P
<1> DEFINE S == {k \in 0..n : h[k + 1] = P \o g[k]}
<1>6. 0 \in S
  <2>1. 1 \in 1..m /\ 0 \in 0..n /\ 1 - 1 = 0
    BY <1>1
  <2>2. h[1] = P
    <3>1. h[1] = IF z[1].rec.content.kind = "none" THEN h[1 - 1]
                 ELSE Append(h[1 - 1], z[1].rec.content)
      BY <1>4, <2>1, Zenon DEF Chooses
    <3>2. h[1 - 1] = <<>>
      BY <1>4 DEF Chooses
    <3>3. Append(<<>>, e.rec.content) = <<e.rec.content>>
      OBVIOUS
    <3> QED
      BY <1>1, <3>1, <3>2, <3>3, Zenon DEF P, Chosen
  <2>3. P \o <<>> = P
    BY <1>5
  <2>4. g[0] = <<>>
    BY <1>3 DEF Chooses
  <2>5. h[0 + 1] = h[1]
    OBVIOUS
  <2>6. h[0 + 1] = P \o g[0]
    BY <2>2, <2>3, <2>4, <2>5, Zenon
  <2> QED
    BY <2>1, <2>6
<1>7. ASSUME NEW k \in 0..(n - 1), k \in S
      PROVE  k + 1 \in S
  <2> DEFINE j == k + 1  i == j + 1
  <2>1. j \in 1..n /\ j \in 0..n /\ j - 1 = k /\ i \in 1..m /\ i - 1 = j /\ k \in 0..n
    BY <1>1
  <2>2. h[j] = P \o g[k]
    BY <1>7
  <2>3. z[i] = s[j]
    BY <1>1, <2>1
  <2> HIDE DEF j, i
  <2> DEFINE c == s[j].rec.content
  <2>4. g[j] = IF c.kind = "none" THEN g[k] ELSE Append(g[k], c)
    BY <1>3, <2>1, Zenon DEF Chooses
  <2>5. h[i] = IF c.kind = "none" THEN h[j] ELSE Append(h[j], c)
    BY <1>4, <2>1, <2>3, Zenon DEF Chooses
  <2>6. c \in K /\ g[k] \in Seq(K)
    BY <1>2, <1>3, <2>1
  <2> HIDE DEF c
  <2>7. P \o Append(g[k], c) = Append(P \o g[k], c)
    BY <1>5, <2>6, ConcatAppend
  <2>8. h[i] = P \o g[j]
    BY <2>2, <2>4, <2>5, <2>7, Zenon
  <2> QED
    BY <2>1, <2>8 DEF i, j
<1> HIDE DEF S
<1>8. 0..n \subseteq S
  BY <1>1, <1>6, <1>7, UpTo
<1>9. n \in 0..n
  BY <1>1
<1>10. h[n + 1] = P \o g[n]
  BY <1>8, <1>9 DEF S
<1>11. g[n] \in Seq(K)
  BY <1>3, <1>9
<1> QED
  BY <1>1, <1>3, <1>4, <1>10, <1>11, Zenon DEF P

LEMMA ChainNone == Chain(<<>>) = <<>>
<1> DEFINE s == <<>>
<1>1. s \in Seq({}) /\ Len(s) = 0 /\ \A k \in 1..Len(s) : s[k].rec.content \in {}
  OBVIOUS
<1> HIDE DEF s
<1>2. \E g : g \in [0..Len(s) -> Seq({})] /\ Chooses(g, s, Len(s)) /\ Chain(s) = g[Len(s)]
  <2> DEFINE K == {}
  <2>1. s \in Seq(K) /\ \A k \in 1..Len(s) : s[k].rec.content \in K
    BY <1>1
  <2> HIDE DEF K
  <2>2. \E g : g \in [0..Len(s) -> Seq(K)] /\ Chooses(g, s, Len(s)) /\ Chain(s) = g[Len(s)]
    BY <2>1, ChainIs
  <2> QED
    BY <2>2 DEF K
<1> QED
  BY <1>1, <1>2 DEF Chooses, s

\* The versions before the first full one, of which a patch needs one more applied.
Full(c) == c.kind \in {"empty", "direct"}
Depth(c) ==
    LET based == {k \in DOMAIN c : c[k].kind \in {"empty", "direct"}}
    IN  IF based = {} THEN Len(c) ELSE Min(based) - 1
Reaches(c, m) ==
    /\ m \in 0..Len(c) /\ \A k \in 1..m : ~Full(c[k])
    /\ m < Len(c) => Full(c[m + 1])

LEMMA DepthIs ==
    ASSUME NEW K, NEW c \in Seq(K)
    PROVE  Reaches(c, Depth(c)) /\ \A m : Reaches(c, m) => m = Depth(c)
<1> DEFINE n == Len(c)  based == {k \in 1..n : Full(c[k])}  d == Depth(c)
<1>1. n \in Nat /\ d = IF based = {} THEN n ELSE Min(based) - 1
  <2>1. DOMAIN c = 1..n /\ n \in Nat
    OBVIOUS
  <2>2. {k \in DOMAIN c : c[k].kind \in {"empty", "direct"}} = based
    BY <2>1 DEF Full
  <2> HIDE DEF n, based
  <2> QED
    BY <2>1, <2>2, Zenon DEF Depth, n
<1> HIDE DEF d
<1>2. Reaches(c, d)
  <2>1. CASE based = {}
    <3>1. d = n
      BY <1>1, <2>1
    <3>2. \A k \in 1..n : ~Full(c[k])
      BY <2>1
    <3> QED
      BY <1>1, <3>1, <3>2 DEF Reaches
  <2>2. CASE based # {}
    <3> DEFINE b == Min(based)
    <3>1. based \in SUBSET Nat
      BY <1>1
    <3>2. b \in based /\ \A t \in based : b <= t
      <4> HIDE DEF based
      <4> QED
        BY <2>2, <3>1, MinOfNat
    <3>3. d = b - 1
      BY <1>1, <2>2
    <3> HIDE DEF b
    <3>4. b \in 1..n /\ Full(c[b]) /\ b = d + 1 /\ d \in 0..n
      BY <1>1, <3>2, <3>3
    <3>5. \A k \in 1..d : ~Full(c[k])
      BY <3>2, <3>4
    <3> QED
      BY <3>4, <3>5 DEF Reaches
  <2> QED
    BY <2>1, <2>2
<1>3. ASSUME NEW m, Reaches(c, m)
      PROVE  m = d
  <2>1. m \in 0..n /\ d \in 0..n
    BY <1>2, <1>3 DEF Reaches
  <2>2. ~(m < d)
    <3>1. SUFFICES ASSUME m < d PROVE FALSE
      OBVIOUS
    <3>2. m < n /\ m + 1 \in 1..d
      BY <1>1, <2>1, <3>1
    <3> QED
      BY <1>2, <1>3, <3>2 DEF Reaches
  <2>3. ~(d < m)
    <3>1. SUFFICES ASSUME d < m PROVE FALSE
      OBVIOUS
    <3>2. d < n /\ d + 1 \in 1..m
      BY <1>1, <2>1, <3>1
    <3> QED
      BY <1>2, <1>3, <3>2 DEF Reaches
  <2> QED
    BY <1>1, <2>1, <2>2, <2>3
<1> QED
  BY <1>2, <1>3 DEF d

Light(c) ==
    \A k \in 1..Depth(c) : c[k].kind = "delta" => Depth(c) - k + 1 <= RecommendedDepth

LEMMA LightNext ==
    ASSUME NEW K, NEW c \in Seq(K), Light(c), NEW x \in K,
           x.kind = "delta" => Depth(c) < RecommendedDepth,
           NEW z, OneBefore(z, x, c)
    PROVE  Light(z)
<1> DEFINE n == Len(c)  d == Depth(c)
<1>1. z \in Seq(K) /\ Len(z) = n + 1 /\ z[1] = x /\ n \in Nat /\ \A i \in 1..n : z[i + 1] = c[i]
  BY OneThen DEF Headed, LiesAt
<1>2. d \in 0..n /\ (\A k \in 1..d : ~Full(c[k])) /\ (d < n => Full(c[d + 1]))
  BY DepthIs DEF Reaches
<1>3. RecommendedDepth \in Nat
  BY WriterAssumption
<1> HIDE DEF n, d
<1>5. CASE Full(x)
  <2> DEFINE m == 0
  <2>1. m \in 0..Len(z) /\ (\A k \in 1..m : ~Full(z[k])) /\ (m < Len(z) => Full(z[m + 1]))
    BY <1>1, <1>5
  <2> HIDE DEF m
  <2>2. Depth(z) = m
    BY <1>1, <2>1, DepthIs DEF Reaches
  <2> QED
    BY <2>2 DEF Light, m
<1>6. CASE ~Full(x)
  <2> DEFINE m == d + 1
  <2>1. m \in 0..Len(z) /\ m \in Nat
    BY <1>1, <1>2
  <2>2. ASSUME NEW k \in 1..m
        PROVE  ~Full(z[k])
    <3>1. CASE k = 1
      BY <1>1, <1>6, <3>1
    <3>2. CASE k # 1
      <4> DEFINE i == k - 1
      <4>1. i \in 1..d /\ i \in 1..n /\ k = i + 1
        BY <1>1, <1>2, <3>2
      <4> HIDE DEF i
      <4> QED
        BY <1>1, <1>2, <4>1
    <3> QED
      BY <3>1, <3>2
  <2>3. m < Len(z) => Full(z[m + 1])
    <3>1. SUFFICES ASSUME m < Len(z) PROVE Full(z[m + 1])
      OBVIOUS
    <3>2. d < n /\ m \in 1..n
      BY <1>1, <1>2, <3>1
    <3> QED
      BY <1>1, <1>2, <3>2
  <2>4. Depth(z) = m
    <3> HIDE DEF m
    <3> QED
      BY <1>1, <2>1, <2>2, <2>3, DepthIs DEF Reaches
  <2>5. ASSUME NEW k \in 1..m, z[k].kind = "delta"
        PROVE  m - k + 1 <= RecommendedDepth
    <3>1. CASE k = 1
      BY <1>1, <1>2, <1>3, <2>5, <3>1 DEF d
    <3>2. CASE k # 1
      <4> DEFINE i == k - 1
      <4>1. i \in 1..d /\ i \in 1..n /\ k = i + 1
        BY <1>1, <1>2, <3>2
      <4> HIDE DEF i
      <4>2. c[i].kind = "delta"
        BY <1>1, <2>5, <4>1
      <4>3. d - i + 1 <= RecommendedDepth
        BY <4>1, <4>2 DEF Light, d
      <4> QED
        BY <1>2, <4>1, <4>3
    <3> QED
      BY <3>1, <3>2
  <2> HIDE DEF m
  <2> QED
    BY <2>4, <2>5 DEF Light
<1> QED
  BY <1>5, <1>6

LEMMA LightNone == Light(<<>>)
<1> DEFINE c == <<>>  K == {}
<1>1. c \in Seq(K) /\ Len(c) = 0
  OBVIOUS
<1> HIDE DEF c, K
<1>2. Depth(c) \in 0..0
  BY <1>1, DepthIs DEF Reaches
<1> QED
  BY <1>2 DEF Light, c

Shallow(v) == \A id \in DOMAIN v : Light(Chain(v[id]))

LEMMA GrownShallow ==
    ASSUME NEW R, NEW v, Typed(v, R), Shallow(v), NEW recs \in SUBSET R, Fits(v, recs),
           NEW n \in Nat, NEW w, Grown(v, recs, n, w)
    PROVE  Shallow(w)
<1> SUFFICES ASSUME NEW id \in DOMAIN w
             PROVE  Light(Chain(w[id]))
  BY DEF Shallow
<1>1. IsSession(recs)
  BY DEF Fits
<1>2. CASE id \notin Ids(recs)
  BY <1>2 DEF Grown, Shallow
<1>3. CASE id \in Ids(recs)
  <2> DEFINE r == The(recs, id)  s == Earlier(v, id)  e == [seq |-> n, rec |-> r]
             E == [seq : Nat, rec : R]  K == {x.content : x \in R}  z == w[id]
             c == r.content
  <2>1. r \in recs /\ r.id = id
    BY <1>1, <1>3, TheIs
  <2>2. z = <<e>> \o s
    BY <1>3 DEF Grown
  <2>3. s \in Seq(E)
    <3>1. CASE id \in DOMAIN v
      BY <3>1 DEF Typed, Earlier
    <3>2. CASE id \notin DOMAIN v
      BY <3>2 DEF Earlier
    <3> QED
      BY <3>1, <3>2
  <2>4. e \in E /\ e.rec = r /\ c \in K
    BY <2>1
  <2>5. \A x \in E : x.rec.content \in K
    OBVIOUS
  <2>6. Light(Chain(s))
    <3>1. CASE id \in DOMAIN v
      BY <3>1 DEF Shallow, Earlier
    <3>2. CASE id \notin DOMAIN v
      BY <3>2, ChainNone, LightNone DEF Earlier
    <3> QED
      BY <3>1, <3>2
  <2>7. c.kind = "delta" => Depth(Chain(s)) < RecommendedDepth
    <3>1. SUFFICES ASSUME c.kind = "delta"
                   PROVE  Depth(Chain(s)) < RecommendedDepth
      OBVIOUS
    <3>2. id \in DOMAIN v /\ MayDelta(v, id)
      BY <2>1, <3>1 DEF Fits
    <3>3. s = v[id] /\ Versions(v, id) = Chain(s)
      BY <3>2, VersionsChain DEF Earlier
    <3>4. DeltaDepth(v, id) = Depth(Versions(v, id))
      BY Zenon DEF DeltaDepth, Depth
    <3> QED
      BY <3>2, <3>3, <3>4 DEF MayDelta
  <2>8. OneBefore(z, e, s)
    BY <2>2 DEF OneBefore
  <2> HIDE DEF r, s, e, E, K, z, c
  <2>9. Chain(z) = Chosen(e.rec.content) \o Chain(s) /\ Chain(s) \in Seq(K)
    BY <2>3, <2>4, <2>5, <2>8, ChainNext
  <2>10. e.rec.content = c
    BY <2>4 DEF c
  <2>11. CASE c.kind = "none"
    <3>1. Chain(z) = <<>> \o Chain(s)
      BY <2>9, <2>10, <2>11 DEF Chosen
    <3>2. Chain(z) = Chain(s)
      BY <2>9, <3>1, EmptyLeft
    <3> QED
      BY <2>6, <3>2 DEF z
  <2>12. CASE c.kind # "none"
    <3>1. OneBefore(Chain(z), c, Chain(s))
      BY <2>9, <2>10, <2>12 DEF Chosen, OneBefore
    <3>2. Light(Chain(z))
      BY <2>4, <2>6, <2>7, <2>9, <3>1, LightNext
    <3> QED
      BY <3>2 DEF z
  <2> QED
    BY <2>11, <2>12
<1> QED
  BY <1>2, <1>3

LEMMA LoggedShallow ==
    ASSUME NEW l, NEW v, Logged(l, v), Shallow(v), NEW recs, Fits(v, recs),
           NEW m, Follows(l, recs, m), NEW w, w = NodeView(m)
    PROVE  Shallow(w)
<1>1. PICK R : IsLog(l, R) /\ Typed(v, R)
  BY DEF Logged
<1> DEFINE S == R \cup recs
<1>2. R \subseteq S /\ recs \in SUBSET S
  OBVIOUS
<1> HIDE DEF S
<1>3. Typed(v, S)
  BY <1>1, <1>2, TypedWider
<1>4. Grown(v, recs, Len(m), w) /\ Logged(m, w)
  BY LoggedNext
<1>5. Len(m) \in Nat
  BY <1>4 DEF Logged, IsLog
<1> QED
  BY <1>2, <1>3, <1>4, <1>5, GrownShallow

LEMMA AdvanceShallow ==
    ASSUME NEW v, Kept(log, v), Shallow(v), NEW recs, Commits(v, recs) \/ Compacts(recs),
           NEW w, w = NodeView(log')
    PROVE  Shallow(w)
<1>1. CASE Commits(v, recs)
  <2> DEFINE m == log'
  <2>1. Follows(log, recs, m) /\ Fits(v, recs) /\ w = NodeView(m) /\ Logged(log, v)
    BY <1>1 DEF Commits, Kept
  <2> HIDE DEF m
  <2> QED
    BY <2>1, LoggedShallow
<1>2. CASE Compacts(recs)
  <2> DEFINE m == log'  no == <<>>
  <2>1. (m = no \/ Follows(no, recs, m)) /\ Fits(Bare, recs) /\ w = NodeView(m)
    BY <1>2 DEF Compacts
  <2>2. Logged(no, Bare) /\ Bare = NodeView(no) /\ Shallow(Bare)
    BY BareIs DEF Kept, Bare, Shallow
  <2> HIDE DEF m, no
  <2> QED
    BY <2>1, <2>2, LoggedShallow
<1> QED
  BY <1>1, <1>2

LEMMA FirstShallow ==
    ASSUME MCInit
    PROVE  Shallow(view)
<1> DEFINE recs == {RootRecord}  R == {RootRecord}  l == log  w == view  no == <<>>
<1>1. l = <<{RootRecord}>> /\ w = NodeView(l)
  BY Zenon DEF MCInit, Init, RootRecord
<1>2. Kept(l, w) /\ DOMAIN w = {Root}
  BY <1>1, InitKept
<1>3. IsSession(recs) /\ recs \in SUBSET R /\ Ids(recs) = {Root} /\ The(recs, Root) = RootRecord
  BY RootRecordIs DEF Ids, The
<1>4. IsLog(no, R) /\ Follows(no, recs, l) /\ Len(l) \in Nat
  BY <1>1 DEF IsLog, Follows
<1>5. Bare = NodeView(no) /\ DOMAIN Bare = {}
  BY BareIs DEF Bare
<1> HIDE DEF recs, R, l, w, no
<1>6. Grown(Bare, recs, Len(l), w)
  BY <1>1, <1>3, <1>4, <1>5, ViewNext
<1> DEFINE e == [seq |-> Len(l), rec |-> RootRecord]  E == {e}  K == {RootRecord.content}
           z == w[Root]  s == Earlier(Bare, Root)
<1>7. z = <<e>> \o s /\ s = <<>>
  BY <1>3, <1>5, <1>6 DEF Grown, Earlier
<1>8. e \in E /\ s \in Seq(E) /\ e.rec.content = RootRecord.content
      /\ \A x \in E : x.rec.content \in K
  BY <1>7
<1>9. OneBefore(z, e, s)
  BY <1>7 DEF OneBefore
<1>10. RootRecord.content.kind = "none"
  BY Zenon, RootRecordIs DEF IsRecord, WellFormed, Dir, File
<1> HIDE DEF e, E, K, z, s
<1>11. Chain(z) = Chosen(e.rec.content) \o Chain(s) /\ Chain(s) \in Seq(K)
  BY <1>8, <1>9, ChainNext
<1>12. Chain(z) = <<>>
  <2>1. Chain(z) = <<>> \o Chain(s) /\ Chain(s) = <<>>
    BY <1>7, <1>8, <1>10, <1>11, ChainNone DEF Chosen
  <2> QED
    BY <2>1
<1>13. Light(Chain(w[Root]))
  BY <1>12, LightNone DEF z
<1>14. Shallow(w)
  BY <1>2, <1>13 DEF Shallow
<1> QED
  BY <1>14 DEF w

LEMMA ShallowStep ==
    ASSUME Kept(log, view), Shallow(view), [Next /\ Observe]_mcvars
    PROVE  Shallow(view)'
<1>1. CASE Next /\ Observe
  <2> DEFINE v == view  w == view'
  <2>1. w = NodeView(log') /\ Kept(log, v) /\ Shallow(v) /\ v = NodeView(log)
        /\ Sound(v) /\ Siblings(v)
    BY <1>1, ObserveIs DEF Kept, Logged
  <2> HIDE DEF v, w
  <2>2. PICK recs : Commits(v, recs) \/ Compacts(recs)
    BY <1>1, <2>1, NextAdvances
  <2>3. Shallow(w)
    BY <2>1, <2>2, AdvanceShallow
  <2> QED
    BY <2>3 DEF w
<1>2. CASE UNCHANGED mcvars
  BY <1>2 DEF mcvars
<1> QED
  BY <1>1, <1>2

\* Of every node, also of one that is no longer live, no patch lies deeper than
\* recommended on the newest full version.
THEOREM ShallowAlways == MCUnsafeSpec => []Shallow(view)
<1>1. MCInit => Shallow(view)
  BY FirstShallow
<1>2. Kept(log, view) /\ Shallow(view) /\ [Next /\ Observe]_mcvars => Shallow(view)'
  BY ShallowStep
<1> QED
  BY <1>1, <1>2, KeptAlways, PTL DEF MCUnsafeSpec

\* build_modified_content compares the depth, in which INHERIT counts as well, and so
\* writes no patch past the recommended depth, however moves are mixed in.
THEOREM FewPatches == MCSpec => []DeltasBounded
<1>1. Shallow(view) => DeltasBounded
  <2>1. SUFFICES ASSUME Shallow(view), NEW id \in Alive(view)
                 PROVE  \A k \in 1..DeltaDepth(view, id) :
                            Versions(view, id)[k].kind = "delta" =>
                                DeltaDepth(view, id) - k + 1 <= RecommendedDepth
    BY DEF DeltasBounded
  <2> DEFINE c == Versions(view, id)
  <2>2. c = Chain(view[id]) /\ id \in DOMAIN view
    BY VersionsChain DEF Alive
  <2>3. DeltaDepth(view, id) = Depth(c)
    BY Zenon DEF DeltaDepth, Depth
  <2>4. Light(c)
    BY <2>1, <2>2 DEF Shallow
  <2> HIDE DEF c
  <2> QED
    BY <2>3, <2>4 DEF Light, c
<1> QED
  BY <1>1, ShallowAlways, SafeIsUnsafe, PTL

-----------------------------------------------------------------------------
(* The past.                                                               *)

ReadOut(v) == LiveTree(v, BuildTree(v))

LEMMA ExtractIs ==
    ASSUME NEW l, NEW n
    PROVE  Extract(l, n) = ReadOut(AsOf(l, n))
  BY Zenon DEF Extract, ReadOut, LiveTree, ContentView

LEMMA ExtractNow ==
    ASSUME NEW R, NEW l \in Seq(R), NEW n, n = Len(l)
    PROVE  Extract(l, n) = ReadOut(NodeView(l))
<1>1. SubSeq(l, 1, n) = l
  OBVIOUS
<1> QED
  BY <1>1, ExtractIs DEF AsOf

LEMMA ExtractThen ==
    ASSUME NEW R, NEW l \in Seq(R), NEW recs, NEW m, Follows(l, recs, m), NEW n \in 1..Len(l)
    PROVE  Extract(m, n) = Extract(l, n)
<1> DEFINE S == R \cup {recs}
<1>1. l \in Seq(S) /\ recs \in S
  OBVIOUS
<1> HIDE DEF S
<1>2. m \in Seq(S) /\ Len(m) = Len(l) + 1 /\ \A i \in 1..Len(l) : m[i] = l[i]
  BY <1>1 DEF Follows
<1>3. n \in 0..Len(l) /\ n \in 0..Len(m) /\ 1 \in Nat \ {0}
  BY <1>2
<1> DEFINE a == SubSeq(m, 1, n)  b == SubSeq(l, 1, n)
<1>4. /\ a \in Seq(S) /\ Len(a) = (IF 1 <= n THEN n - 1 + 1 ELSE 0)
      /\ \A i \in 1..Len(a) : a[i] = m[1 + i - 1]
  BY <1>2, <1>3, SliceType
<1>5. /\ b \in Seq(S) /\ Len(b) = (IF 1 <= n THEN n - 1 + 1 ELSE 0)
      /\ \A i \in 1..Len(b) : b[i] = l[1 + i - 1]
  BY <1>1, <1>3, SliceType
<1> HIDE DEF a, b
<1>6. Len(a) = n /\ Len(b) = n
  BY <1>4, <1>5
<1>7. \A i \in 1..n : a[i] = b[i]
  BY <1>2, <1>4, <1>5, <1>6
<1>8. a = b
  BY <1>4, <1>5, <1>6, <1>7, SeqSame
<1> QED
  BY <1>8, ExtractIs DEF AsOf, a, b

LEMMA SeenIs ==
    ASSUME NEW l, NEW v, Kept(l, v), Untangled(v)
    PROVE  Seen(l, v) = ReadOut(v)
<1>1. PICK R : IsLog(l, R)
  BY DEF Kept, Logged
<1>2. RecordsScan(l)
  <2>1. DOMAIN l = 1..Len(l)
    BY <1>1 DEF IsLog
  <2> QED
    BY <1>1, <2>1 DEF IsLog, IsSession, IsRecord, RecordsScan
<1>3. ~ParentCycle(v)
  BY DEF Untangled, ParentCycle
<1> QED
  BY <1>2, <1>3 DEF Seen, ReadOut

\* What past is meant to be.
Remembered(l) == [n \in 1..Len(l) |-> Extract(l, n)]

LEMMA RememberedNext ==
    ASSUME NEW R, NEW l \in Seq(R), NEW recs, NEW m, Follows(l, recs, m), NEW f, f = ReadOut(NodeView(m))
    PROVE  Remembered(m) = Append(Remembered(l), f)
<1> DEFINE S == R \cup {recs}  k == Len(l)  a == Remembered(l)  b == Remembered(m)
           C == {Extract(l, n) : n \in 1..k} \cup {f}
<1>1. m \in Seq(S) /\ Len(m) = k + 1 /\ k \in Nat
  BY DEF Follows
<1>2. a = [n \in 1..k |-> a[n]] /\ \A n \in 1..k : a[n] = Extract(l, n) /\ a[n] \in C
  BY DEF Remembered
<1>3. b = [n \in 1..(k + 1) |-> b[n]] /\ \A n \in 1..(k + 1) : b[n] = Extract(m, n)
  BY <1>1 DEF Remembered
<1>4. f \in C
  OBVIOUS
<1> HIDE DEF S, C, a, b
<1>5. \A n \in 1..k : b[n] = a[n]
  <2>1. \A n \in 1..k : Extract(m, n) = Extract(l, n)
    BY ExtractThen
  <2>2. \A n \in 1..k : n \in 1..(k + 1)
    BY <1>1
  <2> QED
    BY <1>2, <1>3, <2>1, <2>2
<1>6. b[k + 1] = f
  <2> DEFINE n == k + 1
  <2>1. n = Len(m) /\ n \in 1..n
    BY <1>1
  <2>2. b[n] = Extract(m, n)
    BY <1>3, <2>1
  <2> HIDE DEF n
  <2>3. b[n] = f
    BY <1>1, <2>1, <2>2, ExtractNow
  <2> QED
    BY <2>3 DEF n
<1>7. a \in Seq(C) /\ Len(a) = k
  BY <1>1, <1>2, FunSeq
<1>8. b \in Seq(C) /\ Len(b) = k + 1
  <2> DEFINE n == k + 1
  <2>1. n \in Nat
    BY <1>1
  <2>2. \A i \in 1..n : b[i] \in C
    <3>1. \A i \in 1..n : i = k + 1 \/ i \in 1..k
      BY <1>1
    <3> QED
      BY <1>2, <1>4, <1>5, <1>6, <3>1
  <2>3. b = [i \in 1..n |-> b[i]]
    BY <1>3
  <2> HIDE DEF n
  <2>4. b \in Seq(C) /\ Len(b) = n
    BY ONLY <2>1, <2>2, <2>3, FunSeq
  <2> QED
    BY <2>4 DEF n
<1> DEFINE z == Append(a, f)
<1>9. z \in Seq(C) /\ Len(z) = k + 1 /\ z[k + 1] = f /\ \A i \in 1..k : z[i] = a[i]
  BY <1>1, <1>4, <1>7
<1>10. b = z
  <2> DEFINE n == k + 1
  <2>1. \A i \in 1..n : b[i] = z[i]
    <3>1. \A i \in 1..n : i = k + 1 \/ i \in 1..k
      BY <1>1
    <3> HIDE DEF z
    <3> QED
      BY <1>5, <1>6, <1>9, <3>1
  <2>2. Len(b) = n /\ Len(z) = n
    BY <1>8, <1>9
  <2> HIDE DEF n, z
  <2> QED
    BY <1>8, <1>9, <2>1, <2>2, SeqSame
<1> QED
  BY <1>10 DEF a, b

LEMMA KeptLog ==
    ASSUME NEW l, NEW v, Kept(l, v)
    PROVE  v = NodeView(l) /\ Sound(v) /\ Siblings(v) /\ \E R : l \in Seq(R)
  BY DEF Kept, Logged, IsLog

LEMMA RememberedBare == Remembered(<<>>) = <<>>
  BY DEF Remembered

LEMMA OneRemembered ==
    ASSUME NEW recs, NEW m, Follows(<<>>, recs, m), NEW f, f = ReadOut(NodeView(m))
    PROVE  Remembered(m) = <<f>>
<1> DEFINE l == <<>>  R == {recs}
<1>1. l \in Seq(R) /\ Follows(l, recs, m) /\ Append(l, f) = <<f>> /\ Remembered(l) = l
  BY RememberedBare
<1> HIDE DEF l, R
<1> QED
  BY <1>1, RememberedNext

LEMMA ObservePast ==
    ASSUME Observe
    PROVE  /\ view' = NodeView(log') /\ fs' = Seen(log', view')
           /\ call'.op # "compact" => past' = Append(past, fs')
           /\ call'.op = "compact" => past' = IF log' = <<>> THEN <<>> ELSE <<fs'>>
  BY DEF Observe

LEMMA PastStep ==
    ASSUME Kept(log, view), Tidy(view), past = Remembered(log), [SafeNext /\ Observe]_mcvars
    PROVE  (past = Remembered(log))'
<1>1. CASE SafeNext /\ Observe
  <2> DEFINE v == view  w == view'  m == log'  f == fs'
  <2>1. w = NodeView(m) /\ f = Seen(m, w)
    BY <1>1, ObservePast
  <2>2. Kept(log, v) /\ Tidy(v) /\ v = NodeView(log) /\ Sound(v) /\ Siblings(v)
        /\ \E R : log \in Seq(R)
    BY KeptLog
  <2>3. Kept(m, w)
    <3> HIDE DEF v, w
    <3> QED
      BY <1>1, <2>1, <2>2, SafeIsNext, NextKept
  <2>4. Tidy(w)
    <3> HIDE DEF v, w
    <3> QED
      BY <1>1, <2>1, <2>2, SafeTidy
  <2>5. PICK recs : Commits(v, recs) \/ Compacts(recs)
    <3> HIDE DEF v
    <3> QED
      BY <1>1, <2>2, SafeIsNext, NextAdvances
  <2>6. CASE Commits(v, recs)
    <3>1. past' = Append(past, f) /\ Follows(log, recs, m)
      BY <1>1, <2>6, ObservePast DEF Commits
    <3> HIDE DEF v, w, m, f
    <3>2. f = ReadOut(NodeView(m))
      BY <2>1, <2>3, <2>4, SeenIs DEF Tidy
    <3>3. Remembered(m) = Append(Remembered(log), f)
      BY <2>2, <3>1, <3>2, RememberedNext
    <3> QED
      BY <3>1, <3>3 DEF m
  <2>7. CASE Compacts(recs)
    <3> DEFINE no == <<>>
    <3>1. past' = (IF m = no THEN no ELSE <<f>>) /\ (m = no \/ Follows(no, recs, m))
      BY <1>1, <2>7, ObservePast DEF Compacts
    <3>2. Remembered(no) = no
      BY RememberedBare
    <3> HIDE DEF v, w, m, f
    <3>3. f = ReadOut(NodeView(m))
      BY <2>1, <2>3, <2>4, SeenIs DEF Tidy
    <3>4. CASE m = no
      BY <3>1, <3>2, <3>4 DEF m
    <3>5. CASE m # no
      <4>1. Remembered(m) = <<f>>
        BY <3>1, <3>3, <3>5, OneRemembered
      <4> QED
        BY <3>1, <3>5, <4>1 DEF m
    <3> QED
      BY <3>4, <3>5
  <2> QED
    BY <2>5, <2>6, <2>7
<1>2. CASE UNCHANGED mcvars
  BY <1>2 DEF mcvars, vars
<1> QED
  BY <1>1, <1>2

LEMMA FirstPast ==
    ASSUME MCInit
    PROVE  past = Remembered(log)
<1> DEFINE l == log  v == view  no == <<>>  recs == {RootRecord}  f == fs
<1>1. l = <<{RootRecord}>> /\ v = NodeView(l) /\ f = Seen(l, v) /\ past = <<f>>
  BY Zenon DEF MCInit, Init, RootRecord
<1>2. Follows(no, recs, l)
  BY <1>1 DEF Follows
<1> HIDE DEF l, v, f
<1>3. Kept(l, v) /\ Untangled(v)
  BY <1>1, InitKept
<1>4. f = ReadOut(NodeView(l))
  BY <1>1, <1>3, SeenIs
<1>5. Remembered(l) = <<f>>
  BY <1>2, <1>4, OneRemembered
<1> QED
  BY <1>1, <1>5 DEF l

\* A session once committed is read the same from every longer log: AsOf sees no later
\* record, and compaction alone starts another history.
THEOREM PastIsKept == MCSpec => []PastStays
<1>1. MCInit => past = Remembered(log)
  BY FirstPast
<1>2. Kept(log, view) /\ Tidy(view) /\ past = Remembered(log) /\ [SafeNext /\ Observe]_mcvars
        => (past = Remembered(log))'
  BY PastStep
<1>3. Kept(log, view) /\ past = Remembered(log) => PastStays
  <2>1. SUFFICES ASSUME Kept(log, view), past = Remembered(log), NEW n \in DOMAIN log
                 PROVE  Extract(log, n) = past[n]
    BY DEF PastStays
  <2>2. n \in 1..Len(log)
    BY <2>1, KeptLog
  <2> QED
    BY <2>1, <2>2 DEF Remembered
<1> QED
  BY <1>1, <1>2, <1>3, KeptAlways, TidyAlways, SafeIsUnsafe, PTL DEF MCSpec
=============================================================================
