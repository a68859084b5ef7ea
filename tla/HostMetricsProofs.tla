------------------------- MODULE HostMetricsProofs -------------------------
(***************************************************************************)
(* Proofs about HostMetrics: the share of the CPU, and that the figures of *)
(* an answer were there, and none is withheld, for any content of the      *)
(* sources, any length of the tables and reports and any width of the      *)
(* counters.                                                               *)
(***************************************************************************)
EXTENDS HostMetrics, FiniteSetTheorems, TLAPS

-----------------------------------------------------------------------------
(* Induction over the natural numbers, with a set of numbers in the place  *)
(* of a predicate.                                                         *)

\* Every set of natural numbers has a least one: the intervals below its
\* members are finite sets, and inclusion of finite sets is well-founded.
LEMMA Least ==
  ASSUME NEW T \in SUBSET Nat, T # {}
  PROVE  \E n \in T : \A m \in T : n <= m
  <1> DEFINE Below == {0 .. n - 1 : n \in T}
  <1>1. Below \subseteq FiniteSubsetsOf(Nat) /\ Below # {}
    <2>1. ASSUME NEW n \in T PROVE 0 .. n - 1 \in FiniteSubsetsOf(Nat)
      <3>1. IsFiniteSet(0 .. n - 1)
        BY FS_Interval
      <3> QED
        BY <3>1 DEF FiniteSubsetsOf
    <2> QED
      BY <2>1
  <1> HIDE DEF Below
  <1>2. \E x \in Below : \A y \in Below : <<y, x>> \notin StrictSubsetOrdering(Nat)
    BY <1>1, FS_StrictSubsetOrderingWellFounded, WFMin
  <1>3. PICK x \in Below : \A y \in Below : ~ (y \subseteq x /\ x # y)
    BY <1>1, <1>2 DEF StrictSubsetOrdering, FiniteSubsetsOf
  <1>4. PICK n \in T : x = 0 .. n - 1
    BY DEF Below
  <1>5. ASSUME NEW m \in T, m < n PROVE FALSE
    <2>1. 0 .. m - 1 \subseteq 0 .. n - 1 /\ m \in 0 .. n - 1 /\ m \notin 0 .. m - 1
      BY <1>5
    <2>2. 0 .. m - 1 \in Below
      BY DEF Below
    <2> QED
      BY <1>3, <1>4, <2>1, <2>2
  <1> QED
    BY <1>5

\* A set of natural numbers that holds 0 and the successor of each member holds
\* all of them.
LEMMA Induction ==
  ASSUME NEW P \in SUBSET Nat, 0 \in P, \A n \in P : n + 1 \in P
  PROVE  P = Nat
  <1>1. ASSUME Nat \ P # {} PROVE FALSE
    <2>1. PICK n \in Nat \ P : \A m \in Nat \ P : n <= m
      BY <1>1, Least
    <2>2. n - 1 \in Nat /\ n - 1 \notin Nat \ P
      BY <2>1
    <2> QED
      BY <2>1, <2>2
  <1> QED
    BY <1>1

-----------------------------------------------------------------------------
(* The elements of a sequence at some of its positions.                    *)

\* A sequence of any elements is one of its own elements.
LEMMA IsSequenceOf ==
  ASSUME NEW S, NEW s \in Seq(S)
  PROVE  IsSequence(s)
  <1>1. s \in [1 .. Len(s) -> S] /\ Len(s) \in Nat
    OBVIOUS
  <1>2. s \in [1 .. Len(s) -> {s[i] : i \in DOMAIN s}]
    BY <1>1
  <1> QED
    BY <1>1, <1>2 DEF IsSequence

\* The list that a file without an entry gives is a sequence.
LEMMA EmptySequence == IsSequence(<<>>) /\ Len(<<>>) = 0 /\ DOMAIN <<>> = {}
  <1>1. <<>> \in Seq({}) /\ Len(<<>>) = 0 /\ DOMAIN <<>> = {}
    OBVIOUS
  <1> QED
    BY <1>1, IsSequenceOf

\* A sequence whose elements lie in S is a sequence of S.
LEMMA SequenceOf ==
  ASSUME NEW S, NEW s, IsSequence(s), \A i \in DOMAIN s : s[i] \in S
  PROVE  s \in Seq(S)
  <1>1. s \in [1 .. Len(s) -> {s[i] : i \in DOMAIN s}] /\ Len(s) \in Nat
    BY DEF IsSequence
  <1>2. s \in [1 .. Len(s) -> S]
    BY <1>1
  <1> QED
    BY <1>1, <1>2

\* The first i steps of a loop that keeps the elements at the positions in K.
Filter(s, K, g, n) ==
  g = [i \in 0 .. n |-> IF i = 0 THEN <<>>
                        ELSE IF i \in K THEN Append(g[i - 1], s[i])
                        ELSE g[i - 1]]

\* at picks the elements of r from s, at the positions of K up to n.
Picks(r, s, K, n, at) ==
  /\ at \in [1 .. Len(r) -> DOMAIN s]
  /\ \A i \in 1 .. Len(r) : r[i] = s[at[i]] /\ at[i] \in K /\ at[i] <= n
  /\ \A i, j \in 1 .. Len(r) : i < j => at[i] < at[j]
  /\ \A k \in K : k <= n => \E i \in 1 .. Len(r) : at[i] = k

\* The loop can be run for any number of steps.
LEMMA FilterExists ==
  ASSUME NEW s, NEW K, NEW n \in Nat
  PROVE  \E g : Filter(s, K, g, n)
  <1> DEFINE P == {m \in Nat : \E g : Filter(s, K, g, m)}
  <1>1. 0 \in P
    <2>1. Filter(s, K, [i \in 0 .. 0 |-> <<>>], 0)
      BY DEF Filter
    <2> QED
      BY <2>1
  <1>2. ASSUME NEW m \in P PROVE m + 1 \in P
    <2>1. PICK g : Filter(s, K, g, m)
      OBVIOUS
    <2> DEFINE h == [i \in 0 .. m + 1 |->
                       IF i <= m THEN g[i]
                       ELSE IF i \in K THEN Append(g[m], s[i]) ELSE g[m]]
    <2>2. Filter(s, K, h, m + 1)
      <3>1. ASSUME NEW i \in 0 .. m + 1
            PROVE  h[i] = IF i = 0 THEN <<>>
                          ELSE IF i \in K THEN Append(h[i - 1], s[i]) ELSE h[i - 1]
        <4>1. CASE i <= m
          <5>1. i \in 0 .. m /\ (i # 0 => i - 1 \in 0 .. m + 1 /\ i - 1 <= m)
            BY <4>1
          <5> QED
            BY <2>1, <4>1, <5>1 DEF Filter
        <4>2. CASE i = m + 1
          <5>1. i # 0 /\ i - 1 = m /\ ~ (i <= m) /\ m \in 0 .. m + 1
            BY <4>2
          <5> QED
            BY <4>2, <5>1
        <4> QED
          BY <4>1, <4>2
      <3> QED
        BY <3>1 DEF Filter
    <2> QED
      BY <2>2
  <1> HIDE DEF P
  <1>3. P = Nat
    BY <1>1, <1>2, Induction DEF P
  <1> QED
    BY <1>3 DEF P

\* The loop picks the elements at the positions in K, in their order.
LEMMA FilterPicks ==
  ASSUME NEW S, NEW s \in Seq(S), NEW K \in SUBSET DOMAIN s,
         NEW g, Filter(s, K, g, Len(s))
  PROVE  g[Len(s)] \in Seq(S) /\ \E at : Picks(g[Len(s)], s, K, Len(s), at)
  <1> DEFINE P == {m \in Nat : m <= Len(s) => /\ g[m] \in Seq(S)
                                              /\ \E at : Picks(g[m], s, K, m, at)}
  <1>1. 0 \in P
    <2>1. g[0] = <<>>
      BY DEF Filter
    <2>2. Picks(<<>>, s, K, 0, [i \in 1 .. 0 |-> 0])
      <3>1. \A k \in K : ~ (k <= 0)
        OBVIOUS
      <3> QED
        BY <3>1 DEF Picks
    <2>3. <<>> \in Seq(S)
      OBVIOUS
    <2> QED
      BY <2>1, <2>2, <2>3
  <1>2. ASSUME NEW m \in P PROVE m + 1 \in P
    <2>1. SUFFICES ASSUME m + 1 <= Len(s)
                   PROVE  /\ g[m + 1] \in Seq(S)
                          /\ \E at : Picks(g[m + 1], s, K, m + 1, at)
      OBVIOUS
    <2>2. g[m] \in Seq(S) /\ m + 1 \in DOMAIN s /\ s[m + 1] \in S
      BY <2>1
    <2>3. PICK at : Picks(g[m], s, K, m, at)
      BY <2>1
    <2>4. g[m + 1] = IF m + 1 \in K THEN Append(g[m], s[m + 1]) ELSE g[m]
      <3>1. m + 1 \in 0 .. Len(s) /\ m + 1 # 0 /\ (m + 1) - 1 = m
        BY <2>1
      <3> QED
        BY <3>1 DEF Filter
    <2>5. CASE m + 1 \notin K
      <3>1. ASSUME NEW k \in K, k <= m + 1 PROVE k <= m
        BY <2>5, <3>1
      <3>2. ASSUME NEW i \in 1 .. Len(g[m]) PROVE at[i] <= m + 1
        BY <2>3 DEF Picks
      <3>3. Picks(g[m], s, K, m + 1, at)
        BY <2>3, <3>1, <3>2 DEF Picks
      <3> QED
        BY <2>2, <2>4, <2>5, <3>3
    <2>6. CASE m + 1 \in K
      <3> DEFINE l == Len(g[m])
                 to == [i \in 1 .. l + 1 |-> IF i = l + 1 THEN m + 1 ELSE at[i]]
      <3>1. l \in Nat /\ g[m + 1] \in Seq(S) /\ Len(g[m + 1]) = l + 1
        BY <2>2, <2>4, <2>6
      <3>2. \A i \in 1 .. l : g[m + 1][i] = g[m][i]
        BY <2>2, <2>4, <2>6
      <3>3. g[m + 1][l + 1] = s[m + 1]
        BY <2>2, <2>4, <2>6
      <3> HIDE DEF l
      <3>4. at \in [1 .. l -> DOMAIN s] /\ to \in [1 .. l + 1 -> DOMAIN s]
        <4>1. at \in [1 .. l -> DOMAIN s]
          BY <2>3 DEF Picks, l
        <4>2. ASSUME NEW i \in 1 .. l + 1, i # l + 1 PROVE i \in 1 .. l
          BY <3>1, <4>2
        <4> QED
          BY <2>2, <4>1, <4>2
      <3>5. \A i \in 1 .. l + 1 : g[m + 1][i] = s[to[i]] /\ to[i] \in K /\ to[i] <= m + 1
        BY <2>2, <2>3, <2>6, <3>1, <3>2, <3>3 DEF Picks, l
      <3>6. ASSUME NEW i \in 1 .. l + 1, NEW j \in 1 .. l + 1, i < j
            PROVE  to[i] < to[j]
        <4>1. i \in 1 .. l /\ to[i] = at[i] /\ at[i] \in Nat /\ at[i] <= m
          BY <2>3, <3>1, <3>4, <3>6 DEF Picks, l
        <4>2. CASE j = l + 1
          BY <4>1, <4>2
        <4>3. CASE j \in 1 .. l
          BY <2>3, <3>1, <3>6, <4>1, <4>3 DEF Picks, l
        <4> QED
          BY <3>1, <4>2, <4>3
      <3>7. ASSUME NEW k \in K, k <= m + 1
            PROVE  \E i \in 1 .. l + 1 : to[i] = k
        <4>1. CASE k = m + 1
          BY <3>1, <4>1
        <4>2. CASE k <= m
          <5>1. PICK i \in 1 .. l : at[i] = k
            BY <2>3, <4>2 DEF Picks, l
          <5>2. i \in 1 .. l + 1 /\ to[i] = k
            BY <3>1, <5>1
          <5> QED
            BY <5>2
        <4> QED
          BY <3>7, <4>1, <4>2
      <3> HIDE DEF to
      <3>8. Picks(g[m + 1], s, K, m + 1, to)
        BY <3>1, <3>4, <3>5, <3>6, <3>7 DEF Picks
      <3> QED
        BY <3>1, <3>8
    <2> QED
      BY <2>5, <2>6
  <1> HIDE DEF P
  <1>3. P = Nat
    BY <1>1, <1>2, Induction DEF P
  <1> QED
    BY <1>3 DEF P

\* At picks the elements at the positions in K, in their order, all of them and
\* none twice: what the filtering loops of the readers do.
LEMMA AtPicks ==
  ASSUME NEW S, NEW s \in Seq(S), NEW K \in SUBSET DOMAIN s
  PROVE  At(s, K) \in Seq(S) /\ \E at : Picks(At(s, K), s, K, Len(s), at)
  <1> DEFINE g == CHOOSE g : Filter(s, K, g, Len(s))
  <1>1. Filter(s, K, g, Len(s))
    BY FilterExists
  <1>2. At(s, K) = g[Len(s)]
    BY DEF At, Filter
  <1> HIDE DEF g
  <1> QED
    BY <1>1, <1>2, FilterPicks

-----------------------------------------------------------------------------
(* The readers that filter.                                                *)

\* Only mount points of the table are measured, none of them below /proc, /sys or
\* /dev (readMountsAndDisks).
LEMMA MountPointsOf ==
  ASSUME NEW table \in Contents["mounts"]
  PROVE  /\ IsSequence(mountPoints(table))
         /\ \A j \in DOMAIN mountPoints(table) :
              /\ table # Unreadable
              /\ mountPoints(table)[j] \notin SkippedMounts
              /\ \E i \in DOMAIN table : table[i] = mountPoints(table)[j]
  <1>1. CASE table = Unreadable
    BY <1>1, EmptySequence DEF mountPoints
  <1>2. CASE table # Unreadable
    <2> DEFINE S == {table[i] : i \in DOMAIN table}
               K == {i \in DOMAIN table : /\ table[i] \notin SkippedMounts
                                          /\ \A j \in 1 .. i - 1 : table[j] # table[i]}
    <2>1. table \in Seq(S) /\ K \in SUBSET DOMAIN table
      BY <1>2, ContentsAssumption DEF IsSequence
    <2>2. mountPoints(table) = At(table, K)
      BY <1>2 DEF mountPoints
    <2>3. \A k \in K : table[k] \notin SkippedMounts
      OBVIOUS
    <2> HIDE DEF S, K
    <2>4. mountPoints(table) \in Seq(S)
      BY <2>1, <2>2, AtPicks
    <2>5. PICK at : Picks(mountPoints(table), table, K, Len(table), at)
      BY <2>1, <2>2, AtPicks
    <2>6. ASSUME NEW j \in DOMAIN mountPoints(table)
          PROVE  at[j] \in DOMAIN table /\ mountPoints(table)[j] = table[at[j]] /\ at[j] \in K
      BY <2>4, <2>5 DEF Picks
    <2> QED
      BY <1>2, <2>3, <2>4, <2>6, IsSequenceOf
  <1> QED
    BY <1>1, <1>2

\* A report shows the users of its file that are well-formed, in their order, and
\* all of them unless there are more than fit (readSSHLoginReport).
LEMMA ReportShown ==
  ASSUME NEW c \in Contents["hourly"] \union Contents["daily"]
  PROVE  ShowsReport(readSSHLoginReport(c), c)
  <1>1. CASE c = Unreadable
    BY <1>1 DEF ShowsReport, readSSHLoginReport
  <1>2. CASE c # Unreadable
    <2> DEFINE S == {c.users[i] : i \in DOMAIN c.users}
               K == WellFormed(c.users)
               kept == At(c.users, K)
               users == FirstUsers(kept)
    <2>1. c.users \in Seq(S) /\ K \in SUBSET DOMAIN c.users
      BY <1>2, ContentsAssumption DEF IsSequence, WellFormed
    <2>2. readSSHLoginReport(c) = [total |-> IF c.total \in Nat THEN c.total ELSE Unknown,
                                   users |-> users, since |-> c.since]
      BY <1>2 DEF readSSHLoginReport
    <2>3. \A k \in DOMAIN c.users :
            k \in K <=> (c.users[k].user # Unknown /\ c.users[k].count \in Nat)
      BY DEF WellFormed
    <2> HIDE DEF S, K
    <2>4. kept \in Seq(S)
      BY <2>1, AtPicks
    <2>5. PICK at : Picks(kept, c.users, K, Len(c.users), at)
      BY <2>1, AtPicks
    <2> HIDE DEF kept
    <2>6. /\ users \in Seq(S) /\ Len(users) <= Len(kept)
          /\ \A i \in 1 .. Len(users) : users[i] = kept[i]
          /\ Len(users) = MaxUsers \/ users = kept
      BY <2>4, HostMetricsAssumption DEF FirstUsers
    <2> HIDE DEF users
    <2> DEFINE to == [i \in DOMAIN users |-> at[i]]
    <2>7. DOMAIN users = 1 .. Len(users) /\ DOMAIN users \subseteq 1 .. Len(kept)
      BY <2>4, <2>6
    <2>8. to \in [DOMAIN users -> DOMAIN c.users]
      BY <2>5, <2>7 DEF Picks
    <2>9. \A i \in DOMAIN to : users[i] = c.users[to[i]] /\ users[i].count \in Nat
      BY <2>3, <2>5, <2>6, <2>7, <2>8 DEF Picks
    <2>10. \A i, j \in DOMAIN to : i < j => to[i] < to[j]
      BY <2>5, <2>7 DEF Picks
    <2>11. ASSUME users = kept, NEW k \in DOMAIN c.users \ {to[j] : j \in DOMAIN to}
           PROVE  c.users[k].user = Unknown \/ c.users[k].count \notin Nat
      <3>1. CASE k \in K
        <4>1. k <= Len(c.users)
          BY <2>1
        <4>2. PICK i \in 1 .. Len(kept) : at[i] = k
          BY <2>5, <3>1, <4>1 DEF Picks
        <4>3. i \in DOMAIN to /\ to[i] = k
          BY <2>7, <2>11, <4>2
        <4> QED
          BY <2>11, <4>3
      <3>2. CASE k \notin K
        BY <2>3, <3>2
      <3> QED
        BY <3>1, <3>2
    <2> HIDE DEF to
    <2>12. \/ Len(users) = MaxUsers
           \/ \A k \in DOMAIN c.users \ {to[j] : j \in DOMAIN to} :
                c.users[k].user = Unknown \/ c.users[k].count \notin Nat
      BY <2>6, <2>11
    <2>13. \E a \in [DOMAIN users -> DOMAIN c.users] :
             /\ \A i \in DOMAIN a : users[i] = c.users[a[i]] /\ users[i].count \in Nat
             /\ \A i, j \in DOMAIN a : i < j => a[i] < a[j]
             /\ \/ Len(users) = MaxUsers
                \/ \A i \in DOMAIN c.users \ {a[j] : j \in DOMAIN a} :
                     c.users[i].user = Unknown \/ c.users[i].count \notin Nat
      BY <2>8, <2>9, <2>10, <2>12
    <2> QED
      BY <1>2, <2>2, <2>13 DEF ShowsReport
  <1> QED
    BY <1>1, <1>2

\* The telemetry block lists the disks mounted at "/" (telemetry.go:37-56).
LEMMA RootDisksOf ==
  ASSUME NEW sys, IsSequence(sys["disks"])
  PROVE  /\ IsSequence(RootDisks(sys))
         /\ \A i \in DOMAIN RootDisks(sys) : \E j \in DOMAIN sys["disks"] :
              RootDisks(sys)[i] = sys["disks"][j] /\ sys["disks"][j].mount = "/"
         /\ (\E j \in DOMAIN sys["disks"] : sys["disks"][j].mount = "/")
              => RootDisks(sys) # <<>>
  <1> DEFINE d == sys["disks"]
             S == {d[i] : i \in DOMAIN d}
             K == {i \in DOMAIN d : d[i].mount = "/"}
  <1>1. d \in Seq(S) /\ K \in SUBSET DOMAIN d
    BY DEF IsSequence
  <1>2. RootDisks(sys) = At(d, K)
    BY DEF RootDisks
  <1>3. \A k \in DOMAIN d : k \in K <=> d[k].mount = "/"
    OBVIOUS
  <1> HIDE DEF d, S, K
  <1>4. RootDisks(sys) \in Seq(S)
    BY <1>1, <1>2, AtPicks
  <1>5. PICK at : Picks(RootDisks(sys), d, K, Len(d), at)
    BY <1>1, <1>2, AtPicks
  <1>6. ASSUME NEW i \in DOMAIN RootDisks(sys)
        PROVE  at[i] \in DOMAIN d /\ RootDisks(sys)[i] = d[at[i]] /\ d[at[i]].mount = "/"
    BY <1>3, <1>4, <1>5 DEF Picks
  <1>7. ASSUME NEW j \in DOMAIN d, d[j].mount = "/" PROVE RootDisks(sys) # <<>>
    <2>1. j \in K /\ j <= Len(d)
      BY <1>1, <1>3, <1>7
    <2>2. PICK i \in 1 .. Len(RootDisks(sys)) : at[i] = j
      BY <1>5, <2>1 DEF Picks
    <2> QED
      BY <1>4, <2>2
  <1> QED
    BY <1>4, <1>6, <1>7, IsSequenceOf DEF d

-----------------------------------------------------------------------------
(* The CPU share.                                                          *)

\* Division and remainder of integers.
LEMMA Division ==
  ASSUME NEW a \in Nat, NEW b \in Nat \ {0}
  PROVE  a \div b \in Nat /\ b * (a \div b) <= a /\ a < b * (a \div b) + b
  OBVIOUS

\* A number is a multiple of W and what is left over.
LEMMA Remainder ==
  ASSUME NEW W \in Nat \ {0}, NEW x \in Int
  PROVE  x % W \in 0 .. W - 1 /\ \E q \in Int : x = W * q + (x % W)
  <1>1. x % W \in 0 .. W - 1 /\ x \div W \in Int /\ x = W * (x \div W) + (x % W)
    OBVIOUS
  <1> QED
    BY <1>1

\* No multiple of W but 0 is nearer to 0 than W.
LEMMA SmallMultiple ==
  ASSUME NEW W \in Nat \ {0}, NEW q \in Int, -W < W * q, W * q < W
  PROVE  q = 0
  <1>1. q >= 1 => W * q >= W
    OBVIOUS
  <1>2. q <= -1 => W * q <= -W
    OBVIOUS
  <1> QED
    BY <1>1, <1>2

\* Sums and differences wrap at Width, but the busy ticks of a sample are those of
\* its counter and two totals differ by the ticks between them, give or take Width
\* (parseCPUSample).
LEMMA SampleOf ==
  ASSUME NEW r \in Readings \ {Unreadable}
  PROVE  /\ parseCPUSample(r).busy = r.busy
         /\ parseCPUSample(r).total \in 0 .. Width - 1
         /\ \E q \in Int : r.busy + r.idle + r.iowait = Width * q + parseCPUSample(r).total
  <1> DEFINE t == r.busy + r.idle + r.iowait
             i == r.idle + r.iowait
             T == t % Width
             I == i % Width
             B == (T - I) % Width
  <1>1. Width \in Nat \ {0} /\ t \in Int /\ i \in Int /\ r.busy \in 0 .. Width - 1 /\ t - i = r.busy
    BY HostMetricsAssumption
  <1>2. parseCPUSample(r) = [total |-> T, busy |-> B]
    BY DEF parseCPUSample
  <1> HIDE DEF t, i, T
  <1>3. T \in 0 .. Width - 1 /\ \E q \in Int : t = Width * q + T
    BY <1>1, Remainder DEF T
  <1> HIDE DEF I
  <1>4. I \in 0 .. Width - 1 /\ \E q \in Int : i = Width * q + I
    BY <1>1, Remainder DEF I
  <1> HIDE DEF B
  <1>5. B \in 0 .. Width - 1 /\ \E q \in Int : T - I = Width * q + B
    <2>1. T - I \in Int
      BY <1>1, <1>3, <1>4
    <2> QED
      BY <1>1, <2>1, Remainder DEF B
  <1>6. PICK p \in Int : t = Width * p + T
    BY <1>3
  <1>7. PICK q \in Int : i = Width * q + I
    BY <1>4
  <1>8. PICK k \in Int : T - I = Width * k + B
    BY <1>5
  <1>9. Width * (p - q + k) = r.busy - B
    <2>1. Width * (p - q + k) = Width * p - Width * q + Width * k
      BY <1>1
    <2> QED
      BY <1>1, <1>3, <1>4, <1>5, <1>6, <1>7, <1>8, <2>1
  <1>10. p - q + k = 0
    <2>1. -Width < r.busy - B /\ r.busy - B < Width
      BY <1>1, <1>5
    <2> QED
      BY <1>1, <1>9, <2>1, SmallMultiple
  <1>11. B = r.busy
    BY <1>1, <1>5, <1>9, <1>10
  <1> QED
    BY <1>2, <1>3, <1>11 DEF t

\* A share lies between 0 and 100 percent (cpuPercentBetween).
LEMMA ShareType ==
  ASSUME NEW prev, NEW next, prev.total \in Nat, next.total \in Nat,
         prev.busy \in Nat, next.busy \in Nat
  PROVE  cpuPercentBetween(prev, next) \in 0 .. 1000 \union {Unknown}
  <1>1. CASE ~ (next.total <= prev.total \/ next.busy < prev.busy)
    <2> DEFINE total == next.total - prev.total
               work == 2000 * (next.busy - prev.busy) + total
               p == work \div (2 * total)
    <2>1. work \in Nat /\ 2 * total \in Nat \ {0}
      BY <1>1
    <2>2. p \in Nat
      BY <2>1, Division
    <2>3. cpuPercentBetween(prev, next) = IF p > 1000 THEN 1000 ELSE p
      BY <1>1 DEF cpuPercentBetween
    <2> HIDE DEF p
    <2> QED
      BY <2>2, <2>3
  <1> QED
    BY <1>1 DEF cpuPercentBetween

\* Rounding is to the nearest tenth of a percent.
LEMMA Rounded ==
  ASSUME NEW busy \in Nat, NEW total \in Nat \ {0}, busy <= total, NEW p \in Nat,
         2 * total * p <= 2000 * busy + total,
         2000 * busy + total < 2 * total * p + 2 * total
  PROVE  /\ p \in 0 .. 1000
         /\ 2 * (p * total - 1000 * busy) \in -total .. total
  <1>1. 2 * total * p = 2 * (p * total) /\ p * total \in Int
    OBVIOUS
  <1>2. p <= 1000
    <2>1. p >= 1001 => p * total >= 1001 * total
      OBVIOUS
    <2> QED
      BY <1>1, <2>1
  <1> QED
    BY <1>1, <1>2

\* The share of two readings between which no counter ran backwards is that of
\* the ticks that passed, to half a tenth of a percent, and there is one unless
\* none passed (cpuPercentBetween).
LEMMA ShareTrue ==
  ASSUME NEW a \in Readings \ {Unreadable}, NEW b \in Readings \ {Unreadable},
         b.busy >= a.busy, b.idle >= a.idle, b.iowait >= a.iowait,
         NEW total, total = (b.busy - a.busy) + (b.idle - a.idle) + (b.iowait - a.iowait),
         total < Width,
         NEW share, share = cpuPercentBetween(parseCPUSample(a), parseCPUSample(b))
  PROVE  /\ share # Unknown =>
              2 * (share * total - 1000 * (b.busy - a.busy)) \in -total .. total
         /\ b.busy + b.idle + b.iowait < Width => (share = Unknown <=> total = 0)
  <1> DEFINE A == parseCPUSample(a)
             B == parseCPUSample(b)
             busy == b.busy - a.busy
             p == (2000 * busy + total) \div (2 * total)
  <1>1. /\ a \in [busy : 0 .. Width - 1, idle : 0 .. Width - 1, iowait : 0 .. Width - 1]
        /\ b \in [busy : 0 .. Width - 1, idle : 0 .. Width - 1, iowait : 0 .. Width - 1]
        /\ Width \in Nat \ {0}
    BY HostMetricsAssumption
  <1>2. total \in Nat /\ busy \in Nat /\ busy <= total
    BY <1>1
  <1>3. /\ A.busy = a.busy /\ A.total \in 0 .. Width - 1
        /\ \E q \in Int : a.busy + a.idle + a.iowait = Width * q + A.total
    BY SampleOf
  <1>4. /\ B.busy = b.busy /\ B.total \in 0 .. Width - 1
        /\ \E q \in Int : b.busy + b.idle + b.iowait = Width * q + B.total
    BY SampleOf
  <1> HIDE DEF A, B
  <1>5. PICK i \in Int : a.busy + a.idle + a.iowait = Width * i + A.total
    BY <1>3
  <1>6. PICK j \in Int : b.busy + b.idle + b.iowait = Width * j + B.total
    BY <1>4
  <1>7. Width * (j - i) = total - (B.total - A.total)
    <2>1. Width * (j - i) = Width * j - Width * i
      BY <1>1
    <2> QED
      BY <1>1, <1>3, <1>4, <1>5, <1>6, <2>1
  <1>8. ~ (B.busy < A.busy)
    BY <1>1, <1>3, <1>4
  <1>9. CASE B.total <= A.total
    <2>1. share = Unknown
      BY <1>9 DEF cpuPercentBetween, A, B
    <2>2. ASSUME b.busy + b.idle + b.iowait < Width PROVE total = 0
      <3> Width * i \in Int /\ Width * j \in Int
        BY <1>1
      <3> DEFINE before == a.busy + a.idle + a.iowait
                 after  == b.busy + b.idle + b.iowait
      <3>1. before \in 0 .. Width - 1 /\ after \in 0 .. Width - 1
        BY <1>1, <2>2
      <3>2. before = Width * i + A.total /\ after = Width * j + B.total
        BY <1>5, <1>6
      <3> HIDE DEF before, after
      <3>3. Width * j < Width /\ -Width < Width * j /\ -Width < Width * i /\ Width * i < Width
        BY <1>1, <1>3, <1>4, <3>1, <3>2
      <3>4. j = 0 /\ i = 0
        BY <1>1, <3>3, SmallMultiple
      <3> QED
        BY <1>1, <1>2, <1>3, <1>4, <1>7, <1>9, <3>4
    <2> QED
      BY <2>1, <2>2
  <1>10. CASE B.total > A.total
    <2>1. j - i = 0
      <3>1. -Width < Width * (j - i) /\ Width * (j - i) < Width
        BY <1>1, <1>2, <1>3, <1>4, <1>7, <1>10
      <3> QED
        BY <1>1, <3>1, SmallMultiple
    <2>2. total = B.total - A.total /\ total \in Nat \ {0}
      BY <1>1, <1>2, <1>3, <1>4, <1>7, <1>10, <2>1
    <2>3. p \in 0 .. 1000 /\ 2 * (p * total - 1000 * busy) \in -total .. total
      <3>1. 2000 * busy + total \in Nat /\ 2 * total \in Nat \ {0}
        BY <1>2, <2>2
      <3>2. /\ p \in Nat
            /\ 2 * total * p <= 2000 * busy + total
            /\ 2000 * busy + total < 2 * total * p + 2 * total
        BY <3>1, Division
      <3> HIDE DEF p, busy
      <3> QED
        BY <1>2, <2>2, <3>2, Rounded
    <2>4. share = IF p > 1000 THEN 1000 ELSE p
      BY <1>3, <1>4, <1>8, <1>10, <2>2 DEF cpuPercentBetween, A, B
    <2> HIDE DEF p
    <2>5. share = p /\ share # Unknown
      BY <2>3, <2>4, UnknownAssumption
    <2> QED
      BY <2>2, <2>3, <2>5
  <1> QED
    BY <1>3, <1>4, <1>9, <1>10

-----------------------------------------------------------------------------
(* The inductive invariant.  Each figure, once read, is what its reader    *)
(* makes of a content its source had since the request came; the disks are *)
(* those of the mount points measured so far.                              *)

PastFailedLogins == {"failedLoginUsers", "respond"}
PastDaily  == PastFailedLogins \union {"failedLogins"}
PastHourly == PastDaily \union {"daily"}
PastDisks  == PastHourly \union {"network", "processes", "os", "hourly"}
PastMemory == PastDisks \union {"disks", "fs"}
PastLoad     == PastMemory \union {"cpu", "cpu2", "memory"}
PastHostname == PastLoad \union {"load"}

\* What the types leave out: the functions, and that an answer is given at the
\* end and everything that is there during a request is on record.
Shape ==
  /\ host = [s \in Sources |-> host[s]]
  /\ during = [s \in Sources |-> during[s]]
  /\ system = [f \in Figures |-> system[f]]
  /\ IsSequence(readings) /\ IsSequence(todo)
  /\ pc # "idle" => answer = NoAnswer /\ \A s \in Sources : host[s] \in during[s]

\* The share of the CPU follows from the two readings as long as they are kept.
Share(a, b) ==
  IF SampleFails(b) THEN Unknown
  ELSE cpuPercentBetween(parseCPUSample(a), parseCPUSample(b))

ReadingsInv ==
  /\ readings # <<>> => pc \in {"cpu2", "memory"}
  /\ pc = "cpu2" => Len(readings) = 1 /\ ~ SampleFails(readings[1])
  /\ Len(readings) = 2 =>
       ~ SampleFails(readings[1]) /\ system["cpu"] = Share(readings[1], readings[2])

\* What os.Hostname gives (collectSystem).
hostnameOf(c) == IF c = Unreadable THEN "" ELSE c

FiguresInv ==
  /\ pc \in PastHostname =>
       \E c \in during["hostname"] : system["hostname"] = hostnameOf(c)
  /\ pc \in PastLoad =>
       \E c \in during["load"] : system["load"] = readLoadAverage(c)
  /\ pc \in PastMemory =>
       \E c \in during["memory"] : system["memory"] = readMemInfo(c)
  /\ pc \in PastHourly =>
       \E c \in during["hourly"] : system["hourly"] = readSSHLoginReport(c)
  /\ pc \in PastDaily =>
       \E c \in during["daily"] : system["daily"] = readSSHLoginReport(c)
  /\ pc \in PastFailedLogins =>
       \E c \in during["failedLogins"] : system["failedLogins"] = readFailedLogins(c)

\* The first n mount points whose file system can be measured.
Readable(points, n, size) == {j \in 1 .. n : size[points[j]] # Unreadable}

\* disks are the file systems, of the first n of points, which could be measured.
MeasuredWith(points, n, disks, sizes) ==
  /\ IsSequence(disks) /\ Len(disks) <= MaxDisks
  /\ \A i \in DOMAIN disks : \E size \in sizes : \E j \in Readable(points, n, size) :
       disks[i] = statFS(points[j], size[points[j]])
  /\ \A size \in sizes : sizes = {size} =>
       /\ Len(disks) = Cardinality(Readable(points, n, size))
       /\ \A j \in Readable(points, n, size) :
            \E i \in DOMAIN disks : disks[i].mount = points[j]

Measured(points, n) == MeasuredWith(points, n, system["disks"], during["fs"])

DisksInv ==
  /\ pc = "fs" =>
       \E table \in during["mounts"] : \E n \in 0 .. Len(mountPoints(table)) - 1 :
         /\ Measured(mountPoints(table), n)
         /\ Len(system["disks"]) < MaxDisks
         /\ Len(todo) = Len(mountPoints(table)) - n
         /\ \A k \in DOMAIN todo : todo[k] = mountPoints(table)[n + k]
  /\ pc \in PastDisks =>
       \E table \in during["mounts"] : \E n \in 0 .. Len(mountPoints(table)) :
         /\ Measured(mountPoints(table), n)
         /\ n = Len(mountPoints(table)) \/ Len(system["disks"]) = MaxDisks

Inv ==
  /\ TypeOK /\ Shape
  /\ ReadingsInv /\ FiguresInv /\ DisksInv
  /\ FiguresWereThere /\ NothingWithheld

-----------------------------------------------------------------------------
(* The disks measured so far.                                              *)

\* One more mount point is one more disk, if it can be measured.
LEMMA ReadableFinite ==
  ASSUME NEW points, NEW n \in Nat, NEW size
  PROVE  /\ IsFiniteSet(Readable(points, n, size))
         /\ Cardinality(Readable(points, n, size)) \in Nat
         /\ Cardinality(Readable(points, n + 1, size))
              = Cardinality(Readable(points, n, size))
                  + (IF size[points[n + 1]] = Unreadable THEN 0 ELSE 1)
  <1>1. IsFiniteSet(1 .. n)
    BY FS_Interval
  <1>2. Readable(points, n, size) \subseteq 1 .. n /\ n + 1 \notin Readable(points, n, size)
    BY DEF Readable
  <1>3. IsFiniteSet(Readable(points, n, size))
    BY <1>1, <1>2, FS_Subset
  <1>4. 1 .. n + 1 = (1 .. n) \union {n + 1}
    OBVIOUS
  <1>5. CASE size[points[n + 1]] = Unreadable
    <2>1. Readable(points, n + 1, size) = Readable(points, n, size)
      BY <1>4, <1>5 DEF Readable
    <2> QED
      BY <1>3, <1>5, <2>1, FS_CardinalityType
  <1>6. CASE size[points[n + 1]] # Unreadable
    <2>1. Readable(points, n + 1, size) = Readable(points, n, size) \union {n + 1}
      BY <1>4, <1>6 DEF Readable
    <2> QED
      BY <1>2, <1>3, <1>6, <2>1, FS_AddElement, FS_CardinalityType
  <1> QED
    BY <1>5, <1>6

\* Measuring one more file system keeps the list right (readMountsAndDisks).
LEMMA MeasureOne ==
  ASSUME NEW points, NEW n \in Nat, NEW disks, NEW sizes, NEW size \in sizes,
         MeasuredWith(points, n, disks, sizes), Len(disks) < MaxDisks,
         NEW next,
         next = IF size[points[n + 1]] = Unreadable THEN disks
                ELSE Append(disks, statFS(points[n + 1], size[points[n + 1]]))
  PROVE  MeasuredWith(points, n + 1, next, sizes)
  <1> DEFINE D == {disks[i] : i \in DOMAIN disks}
             e == statFS(points[n + 1], size[points[n + 1]])
  <1>1. disks \in Seq(D) /\ MaxDisks \in Nat
    BY HostMetricsAssumption DEF MeasuredWith, IsSequence
  <1>2. n + 1 \in 1 .. n + 1 /\ 1 .. n \subseteq 1 .. n + 1
    OBVIOUS
  <1>3. \A s : Readable(points, n, s) \subseteq Readable(points, n + 1, s)
    BY <1>2 DEF Readable
  <1>4. ASSUME NEW s \in sizes, sizes = {s} PROVE s = size
    BY <1>4
  <1>5. CASE size[points[n + 1]] = Unreadable
    <2>1. next = disks /\ Readable(points, n + 1, size) = Readable(points, n, size)
      BY <1>3, <1>5 DEF Readable
    <2>2. ASSUME NEW s \in sizes, sizes = {s}
          PROVE  Readable(points, n + 1, s) = Readable(points, n, s)
      BY <1>4, <2>1, <2>2
    <2>3. \A i \in DOMAIN disks : \E s \in sizes : \E j \in Readable(points, n + 1, s) :
            disks[i] = statFS(points[j], s[points[j]])
      BY <1>3 DEF MeasuredWith
    <2> QED
      BY <2>1, <2>2, <2>3 DEF MeasuredWith
  <1>6. CASE size[points[n + 1]] # Unreadable
    <2> HIDE DEF D, e
    <2>1. next = Append(disks, e) /\ next \in Seq(D \union {e})
      BY <1>1, <1>6 DEF e
    <2>2. /\ Len(next) = Len(disks) + 1 /\ Len(next) <= MaxDisks
          /\ DOMAIN next = DOMAIN disks \union {Len(disks) + 1}
          /\ \A i \in DOMAIN disks : next[i] = disks[i]
          /\ next[Len(disks) + 1] = e
      BY <1>1, <2>1
    <2>3. IsSequence(next)
      BY <2>1, IsSequenceOf
    <2>4. n + 1 \in Readable(points, n + 1, size)
      BY <1>2, <1>6 DEF Readable
    <2>5. ASSUME NEW i \in DOMAIN next
          PROVE  \E s \in sizes : \E j \in Readable(points, n + 1, s) :
                   next[i] = statFS(points[j], s[points[j]])
      <3>1. CASE i \in DOMAIN disks
        BY <1>3, <2>2, <3>1 DEF MeasuredWith
      <3>2. CASE i = Len(disks) + 1
        BY <2>2, <2>4, <3>2 DEF e
      <3> QED
        BY <2>2, <3>1, <3>2
    <2>6. ASSUME NEW s \in sizes, sizes = {s}
          PROVE  /\ Len(next) = Cardinality(Readable(points, n + 1, s))
                 /\ \A j \in Readable(points, n + 1, s) :
                      \E i \in DOMAIN next : next[i].mount = points[j]
      <3>1. s = size /\ Len(disks) = Cardinality(Readable(points, n, size))
        BY <1>4, <2>6 DEF MeasuredWith
      <3>2. Len(next) = Cardinality(Readable(points, n + 1, size))
        <4>1. Cardinality(Readable(points, n + 1, size))
                = Cardinality(Readable(points, n, size)) + 1
          BY <1>6, ReadableFinite
        <4> QED
          BY <2>2, <3>1, <4>1
      <3>3. ASSUME NEW j \in Readable(points, n + 1, size)
            PROVE  \E i \in DOMAIN next : next[i].mount = points[j]
        <4>1. CASE j = n + 1
          BY <2>2, <4>1 DEF e, statFS
        <4>2. CASE j # n + 1
          <5>1. j \in Readable(points, n, size)
            BY <4>2 DEF Readable
          <5>2. PICK i \in DOMAIN disks : disks[i].mount = points[j]
            BY <2>6, <3>1, <5>1 DEF MeasuredWith
          <5> QED
            BY <2>2, <5>2
        <4> QED
          BY <4>1, <4>2
      <3> QED
        BY <3>1, <3>2, <3>3
    <2> QED
      BY <2>2, <2>3, <2>5, <2>6 DEF MeasuredWith
  <1> QED
    BY <1>5, <1>6

\* A file system that changes takes back nothing that was measured.
LEMMA MeasuredBefore ==
  ASSUME NEW points, NEW n \in Nat, NEW disks, NEW sizes,
         MeasuredWith(points, n, disks, sizes),
         NEW old \in sizes, NEW new, new # old
  PROVE  MeasuredWith(points, n, disks, sizes \union {new})
  <1>1. ASSUME NEW s \in sizes \union {new} PROVE sizes \union {new} # {s}
    OBVIOUS
  <1> QED
    BY <1>1 DEF MeasuredWith

\* What is left of a size is told from what is used of it, although the difference
\* wraps (statFS) and is perhaps converted (telemetry.go:42).
LEMMA FreeOf ==
  ASSUME NEW total \in Int, NEW free \in 0 .. Width - 1, NEW k \in Int, NEW used,
         used = total - free + Width * k
  PROVE  (total - used) % Width = free
  <1>1. Width \in Nat \ {0}
    BY HostMetricsAssumption
  <1>2. total - used = free - Width * k /\ total - used \in Int
    BY <1>1
  <1> DEFINE r == (total - used) % Width
  <1>3. r \in 0 .. Width - 1 /\ \E q \in Int : total - used = Width * q + r
    BY <1>1, <1>2, Remainder
  <1> HIDE DEF r
  <1>4. PICK q \in Int : total - used = Width * q + r
    BY <1>3
  <1>5. Width * (q + k) = free - r
    <2>1. Width * (q + k) = Width * q + Width * k
      BY <1>1
    <2> QED
      BY <1>1, <1>2, <1>3, <1>4, <2>1
  <1>6. q + k = 0
    <2>1. -Width < free - r /\ free - r < Width
      BY <1>1, <1>3
    <2> QED
      BY <1>1, <1>5, <2>1, SmallMultiple
  <1>7. r = free
    BY <1>1, <1>3, <1>5, <1>6
  <1> QED
    BY <1>7 DEF r

\* What is used is the difference, and a multiple of the width (statFS, int64).
LEMMA UsedOf ==
  ASSUME NEW total \in 0 .. Width - 1, NEW free \in 0 .. Width - 1,
         NEW used, used = (total - free) % Width
  PROVE  /\ \E k \in Int : used = total - free + Width * k
         /\ \E k \in Int : int64(used) = total - free + Width * k
  <1>1. Width \in Nat \ {0} /\ total - free \in Int
    BY HostMetricsAssumption
  <1>2. used \in 0 .. Width - 1 /\ \E q \in Int : total - free = Width * q + used
    BY <1>1, Remainder
  <1>3. PICK q \in Int : total - free = Width * q + used
    BY <1>2
  <1>4. Width * (-q) = -(Width * q) /\ Width * (-q - 1) = -(Width * q) - Width
    BY <1>1
  <1>5. /\ used = total - free + Width * (-q)
        /\ used - Width = total - free + Width * (-q - 1)
    BY <1>1, <1>2, <1>3, <1>4
  <1>6. -q \in Int /\ -q - 1 \in Int
    OBVIOUS
  <1>7. int64(used) = used \/ int64(used) = used - Width
    BY DEF int64
  <1>8. \E k \in Int : used = total - free + Width * k
    BY <1>5, <1>6
  <1>9. \E k \in Int : int64(used) = total - free + Width * k
    BY <1>5, <1>6, <1>7
  <1> QED
    BY <1>8, <1>9

\* A disk that was measured is a file system of the table, with the size it had
\* then, and remains so in the block if it has a size there.
LEMMA DiskWas ==
  ASSUME NEW table \in Contents["mounts"], NEW size \in Contents["fs"],
         NEW j \in DOMAIN mountPoints(table), size[mountPoints(table)[j]] # Unreadable,
         NEW d, d = statFS(mountPoints(table)[j], size[mountPoints(table)[j]])
  PROVE  /\ d.total \in 0 .. Width - 1
         /\ size[d.mount] = [total |-> d.total, free |-> (d.total - d.used) % Width]
         /\ int64(d.total) > 0 =>
              size[d.mount] = [total |-> int64(d.total),
                               free  |-> (int64(d.total) - int64(d.used)) % Width]
         /\ size[d.mount] # Unreadable
         /\ table # Unreadable /\ \E i \in DOMAIN table : table[i] = d.mount
  <1>1. /\ table # Unreadable /\ d.mount \notin SkippedMounts
        /\ \E i \in DOMAIN table : table[i] = d.mount
        /\ d.mount = mountPoints(table)[j]
    BY MountPointsOf DEF statFS
  <1>2. size[d.mount] \in [total : 0 .. Width - 1, free : 0 .. Width - 1]
    BY <1>1, ContentsAssumption
  <1>3. /\ d.total = size[d.mount].total
        /\ d.used = (size[d.mount].total - size[d.mount].free) % Width
    BY <1>1 DEF statFS
  <1> DEFINE total == size[d.mount].total
             free  == size[d.mount].free
  <1>4. total \in 0 .. Width - 1 /\ free \in 0 .. Width - 1 /\ total \in Int
    BY <1>2, HostMetricsAssumption
  <1>5. size[d.mount] = [total |-> total, free |-> free]
    BY <1>2
  <1>6. d.total = total /\ d.used = (total - free) % Width
    BY <1>3
  <1> HIDE DEF total, free
  <1>7. /\ \E k \in Int : d.used = total - free + Width * k
        /\ \E k \in Int : int64(d.used) = total - free + Width * k
    BY <1>4, <1>6, UsedOf
  <1>8. (total - d.used) % Width = free /\ (total - int64(d.used)) % Width = free
    BY <1>4, <1>7, FreeOf
  <1>9. int64(total) > 0 => int64(total) = total
    BY <1>4, HostMetricsAssumption DEF int64
  <1> QED
    BY <1>1, <1>2, <1>4, <1>5, <1>6, <1>8, <1>9

-----------------------------------------------------------------------------
(* The invariant is inductive: the initial state, the request, and the     *)
(* figures read at once.                                                   *)

\* Nothing is known of any figure before it is read.
LEMMA FunctionsOf ==
  /\ Empty = [f \in Figures |-> Empty[f]]
  /\ \A f \in Figures : Empty[f] = Unknown
  /\ DOMAIN NoAnswer.figures = Figures /\ NoAnswer.kind = "none"
  BY DEF Empty, NoAnswer

\* As long as there is no answer, nothing is promised of it.
LEMMA NothingPromised ==
  ASSUME answer' = NoAnswer
  PROVE  FiguresWereThere' /\ NothingWithheld'
  BY FunctionsOf DEF FiguresWereThere, NothingWithheld, Answered

\* The invariant holds at first.
LEMMA InvInit == Init => Inv
  <1> SUFFICES ASSUME Init PROVE Inv
    OBVIOUS
  <1> USE DEF Init
  <1>1. TypeOK
    <2>1. \A s \in Sources : host[s] \in Contents[s] /\ during[s] \subseteq Contents[s]
      BY ContentsAssumption
    <2>2. changes \in 0 .. MaxChanges /\ pc \in Labels
      BY HostMetricsAssumption DEF Labels
    <2>3. /\ Len(readings) <= 2 /\ \A i \in DOMAIN readings : readings[i] \in Readings
          /\ \A i \in DOMAIN todo : todo[i] \notin SkippedMounts
      OBVIOUS
    <2>4. DOMAIN system = Figures /\ system["cpu"] = Unknown
      BY FunctionsOf DEF Figures
    <2> QED
      BY <2>1, <2>2, <2>3, <2>4, FunctionsOf DEF TypeOK
  <1>2. Shape
    BY FunctionsOf, ContentsAssumption, EmptySequence DEF Shape
  <1>3. ReadingsInv /\ FiguresInv /\ DisksInv
    BY DEF ReadingsInv, FiguresInv, DisksInv, PastHostname, PastLoad, PastMemory,
           PastDisks, PastHourly, PastDaily, PastFailedLogins
  <1>4. FiguresWereThere /\ NothingWithheld
    BY FunctionsOf DEF FiguresWereThere, NothingWithheld, Answered
  <1> QED
    BY <1>1, <1>2, <1>3, <1>4 DEF Inv

\* A request begins with no figure, and with what the sources hold now.
LEMMA RequestStep == Inv /\ Request => Inv'
  <1> SUFFICES ASSUME Inv, Request PROVE Inv'
    OBVIOUS
  <1> USE DEF Request
  <1>1. readings = <<>>
    BY DEF Inv, ReadingsInv
  <1>2. TypeOK'
    <2>1. DOMAIN system' = Figures /\ system'["cpu"] = Unknown
      BY FunctionsOf DEF Figures
    <2>2. pc' \in Labels /\ route' \in {"system", "architecture"}
      BY DEF Labels, Figures, Sources
    <2>3. \A s \in Sources : host'[s] \in Contents[s] /\ during'[s] \subseteq Contents[s]
      BY DEF Inv, TypeOK
    <2> QED
      BY <2>1, <2>2, <2>3, FunctionsOf DEF Inv, TypeOK
  <1>3. Shape'
    BY FunctionsOf DEF Inv, Shape
  <1>4. ReadingsInv' /\ FiguresInv' /\ DisksInv'
    BY <1>1 DEF ReadingsInv, FiguresInv, DisksInv, PastHostname, PastLoad, PastMemory,
                PastDisks, PastHourly, PastDaily, PastFailedLogins
  <1> QED
    BY <1>2, <1>3, <1>4, NothingPromised DEF Inv

\* A figure that is not the share or the disks is read in one step and disturbs no
\* other.
LEMMA ReadStep ==
  ASSUME Inv, NEW figure \in Figures \ {"cpu", "disks"}, NEW value, Read(figure, value),
         figure = "hostname" => value = hostnameOf(host["hostname"]),
         figure = "load" => value = readLoadAverage(host["load"]),
         figure = "memory" => value = readMemInfo(host["memory"]),
         figure \in {"hourly", "daily"} => value = readSSHLoginReport(host[figure]),
         figure = "failedLogins" => value = readFailedLogins(host["failedLogins"])
  PROVE  Inv'
  <1>1. /\ pc = figure /\ pc' = After[figure] /\ readings' = <<>>
        /\ UNCHANGED <<host, changes, route, todo, answer, during>>
        /\ system' = [system EXCEPT ![figure] = value]
    BY DEF Read
  <1>2. /\ system' = [f \in Figures |-> system'[f]] /\ system'[figure] = value
        /\ \A f \in Figures \ {figure} : system'[f] = system[f]
    BY <1>1 DEF Inv, Shape
  <1>3. /\ pc # "idle" /\ pc' \in Labels \ {"idle", "cpu2", "fs"}
        /\ pc' \in PastHostname => pc \in PastHostname \/ figure = "hostname"
        /\ pc' \in PastLoad => pc \in PastLoad \/ figure = "load"
        /\ pc' \in PastMemory => pc \in PastMemory \/ figure = "memory"
        /\ pc' \in PastDisks => pc \in PastDisks
        /\ pc' \in PastHourly => pc \in PastHourly \/ figure = "hourly"
        /\ pc' \in PastDaily => pc \in PastDaily \/ figure = "daily"
        /\ pc' \in PastFailedLogins => pc \in PastFailedLogins \/ figure = "failedLogins"
    BY <1>1 DEF After, Labels, Figures, Sources, PastHostname, PastLoad, PastMemory,
                PastDisks, PastHourly, PastDaily, PastFailedLogins
  <1>4. /\ {"cpu", "disks", "hostname", "load", "memory", "hourly", "daily", "failedLogins"}
             \subseteq Figures
        /\ {"hostname", "load", "memory", "hourly", "daily", "failedLogins"} \subseteq Sources
    BY DEF Figures, Sources
  <1>5. TypeOK'
    BY <1>1, <1>2, <1>3, <1>4 DEF Inv, TypeOK
  <1>6. Shape'
    BY <1>1, <1>2, <1>3, EmptySequence DEF Inv, Shape
  <1>7. ReadingsInv'
    BY <1>1, <1>3 DEF ReadingsInv
  <1>8. FiguresInv'
    <2>1. \A s \in Sources : host[s] \in during[s]
      BY <1>3 DEF Inv, Shape
    <2> QED
      BY <1>1, <1>2, <1>3, <1>4, <2>1 DEF Inv, FiguresInv
  <1>9. DisksInv'
    BY <1>1, <1>2, <1>3, <1>4 DEF Inv, DisksInv, Measured
  <1>10. answer' = NoAnswer
    BY <1>1, <1>3 DEF Inv, Shape
  <1> QED
    BY <1>5, <1>6, <1>7, <1>8, <1>9, <1>10, NothingPromised DEF Inv

\* Each of the readers that read once keeps the invariant.
LEMMA FiguresStep ==
  ASSUME Inv,
         \/ Hostname \/ LoadAverage \/ Memory \/ Network \/ Processes \/ OSRelease
         \/ readSSHLogins \/ readSSHLoginsToday \/ FailedLogins \/ FailedLoginUsers
  PROVE  Inv'
  <1>1. {"hostname", "load", "memory", "network", "processes", "os", "hourly", "daily",
         "failedLogins", "failedLoginUsers"} \subseteq Figures \ {"cpu", "disks"}
    BY DEF Figures, Sources
  <1>2. CASE Hostname
    BY <1>1, <1>2, ReadStep DEF Hostname, hostnameOf
  <1>3. CASE LoadAverage
    BY <1>1, <1>3, ReadStep DEF LoadAverage
  <1>4. CASE Memory
    BY <1>1, <1>4, ReadStep DEF Memory
  <1>5. CASE Network
    BY <1>1, <1>5, ReadStep DEF Network
  <1>6. CASE Processes
    BY <1>1, <1>6, ReadStep DEF Processes
  <1>7. CASE OSRelease
    BY <1>1, <1>7, ReadStep DEF OSRelease
  <1>8. CASE readSSHLogins
    BY <1>1, <1>8, ReadStep DEF readSSHLogins
  <1>9. CASE readSSHLoginsToday
    BY <1>1, <1>9, ReadStep DEF readSSHLoginsToday
  <1>10. CASE FailedLogins
    BY <1>1, <1>10, ReadStep DEF FailedLogins
  <1>11. CASE FailedLoginUsers
    BY <1>1, <1>11, ReadStep DEF FailedLoginUsers
  <1> QED
    BY <1>2, <1>3, <1>4, <1>5, <1>6, <1>7, <1>8, <1>9, <1>10, <1>11

-----------------------------------------------------------------------------
(* The two samples.                                                        *)

\* A share that is published lies between 0 and 100 percent.
LEMMA ShareOf ==
  ASSUME NEW a \in Readings, NEW b \in Readings, ~ SampleFails(a)
  PROVE  Share(a, b) \in 0 .. 1000 \union {Unknown}
  <1>1. CASE SampleFails(b)
    BY <1>1 DEF Share
  <1>2. CASE ~ SampleFails(b)
    <2>1. a \in Readings \ {Unreadable} /\ b \in Readings \ {Unreadable}
      BY <1>2 DEF SampleFails
    <2>2. /\ parseCPUSample(a).total \in Nat /\ parseCPUSample(a).busy \in Nat
          /\ parseCPUSample(b).total \in Nat /\ parseCPUSample(b).busy \in Nat
      BY <2>1, SampleOf, HostMetricsAssumption
    <2> QED
      BY <1>2, <2>2, ShareType DEF Share
  <1> QED
    BY <1>1, <1>2

\* What is appended comes last.
LEMMA AppendLast ==
  ASSUME NEW S, NEW s \in Seq(S), NEW e \in S
  PROVE  Append(s, e)[Len(s) + 1] = e
  OBVIOUS

\* A second reading is kept behind the first one.
LEMMA AppendToOne ==
  ASSUME NEW S, NEW s \in Seq(S), Len(s) = 1, NEW e \in S
  PROVE  /\ Append(s, e) \in Seq(S) /\ Len(Append(s, e)) = 2
         /\ Append(s, e)[1] = s[1] /\ Append(s, e)[2] = e
  <1>1. Append(s, e) \in Seq(S) /\ Len(Append(s, e)) = Len(s) + 1
    OBVIOUS
  <1>2. \A i \in 1 .. Len(s) : Append(s, e)[i] = s[i]
    OBVIOUS
  <1>3. Append(s, e)[Len(s) + 1] = e
    BY AppendLast
  <1> QED
    BY <1>1, <1>2, <1>3

\* The first sample keeps the invariant (measureCPUPercent).
LEMMA FirstSampleStep == Inv /\ FirstSample => Inv'
  <1> SUFFICES ASSUME Inv, FirstSample PROVE Inv'
    OBVIOUS
  <1> USE DEF FirstSample
  <1>1. readings = <<>>
    BY DEF Inv, ReadingsInv
  <1>2. PICK r \in Readings : IF SampleFails(r)
                              THEN pc' = "memory" /\ UNCHANGED readings
                              ELSE pc' = "cpu2" /\ readings' = <<r>>
    BY DEF After
  <1>3. pc' \in {"memory", "cpu2"} /\ UNCHANGED <<host, changes, route, todo, system, answer, during>>
    BY <1>2
  <1>4. TypeOK'
    <2>1. pc' \in Labels
      BY <1>3 DEF Labels, Figures, Sources
    <2>2. Len(readings') <= 2 /\ \A i \in DOMAIN readings' : readings'[i] \in Readings
      BY <1>1, <1>2
    <2> QED
      BY <1>3, <2>1, <2>2 DEF Inv, TypeOK
  <1>5. Shape'
    <2>1. <<r>> \in Seq({r})
      OBVIOUS
    <2>2. IsSequence(<<r>>)
      BY <2>1, IsSequenceOf
    <2> QED
      BY <1>1, <1>2, <1>3, <2>2 DEF Inv, Shape
  <1>6. ReadingsInv'
    BY <1>1, <1>2, <1>3 DEF Inv, ReadingsInv
  <1>7. FiguresInv' /\ DisksInv'
    BY <1>3 DEF Inv, FiguresInv, DisksInv, PastHostname, PastLoad, PastMemory, PastDisks,
                PastHourly, PastDaily, PastFailedLogins
  <1>8. answer' = NoAnswer
    BY DEF Inv, Shape
  <1> QED
    BY <1>4, <1>5, <1>6, <1>7, <1>8, NothingPromised DEF Inv

\* The second sample gives the share, and keeps the invariant
\* (measureCPUPercent).
LEMMA SecondSampleStep == Inv /\ SecondSample => Inv'
  <1> SUFFICES ASSUME Inv, SecondSample PROVE Inv'
    OBVIOUS
  <1> USE DEF SecondSample
  <1>1. PICK r \in Readings :
          /\ readings' = Append(readings, r)
          /\ system' = [system EXCEPT !["cpu"] = Share(readings[1], r)]
    BY DEF Share
  <1>2. /\ readings \in Seq(Readings) /\ Len(readings) = 1 /\ readings[1] \in Readings
        /\ ~ SampleFails(readings[1])
    <2>1. Len(readings) = 1 /\ ~ SampleFails(readings[1])
      BY DEF Inv, ReadingsInv
    <2>2. readings \in Seq(Readings)
      BY SequenceOf DEF Inv, Shape, TypeOK
    <2> QED
      BY <2>1, <2>2
  <1>3. /\ readings' \in Seq(Readings) /\ Len(readings') = 2
        /\ readings'[1] = readings[1] /\ readings'[2] = r
    <2>1. readings' = Append(readings, r)
      BY <1>1
    <2> QED
      BY <1>2, <2>1, AppendToOne
  <1>4. pc' = "memory" /\ UNCHANGED <<host, changes, route, todo, answer, during>>
    BY DEF After
  <1>5. /\ system' = [f \in Figures |-> system'[f]]
        /\ system'["cpu"] = Share(readings[1], r)
        /\ system'["hostname"] = system["hostname"] /\ system'["load"] = system["load"]
    BY <1>1 DEF Inv, Shape, Figures, Sources
  <1>6. TypeOK'
    <2>1. Len(readings') <= 2 /\ \A i \in DOMAIN readings' : readings'[i] \in Readings
      BY <1>3
    <2>2. Share(readings[1], r) \in 0 .. 1000 \union {Unknown}
      BY <1>2, ShareOf
    <2>3. DOMAIN system' = Figures /\ pc' \in Labels
      BY <1>4, <1>5 DEF Labels, Figures, Sources
    <2> HIDE DEF SecondSample
    <2> QED
      BY <1>4, <1>5, <2>1, <2>2, <2>3 DEF Inv, TypeOK
  <1>7. Shape'
    BY <1>3, <1>4, <1>5, IsSequenceOf DEF Inv, Shape
  <1>8. ReadingsInv'
    BY <1>2, <1>3, <1>4, <1>5 DEF ReadingsInv
  <1>9. FiguresInv' /\ DisksInv'
    BY <1>4, <1>5 DEF Inv, FiguresInv, DisksInv, PastHostname, PastLoad, PastMemory, PastDisks,
                      PastHourly, PastDaily, PastFailedLogins
  <1>10. answer' = NoAnswer
    BY DEF Inv, Shape
  <1> QED
    BY <1>6, <1>7, <1>8, <1>9, <1>10, NothingPromised DEF Inv

-----------------------------------------------------------------------------
(* The disks, one by one.                                                  *)

\* The mount table is read, and no disk is measured yet (readMountsAndDisks).
LEMMA MountsStep == Inv /\ Mounts => Inv'
  <1> SUFFICES ASSUME Inv, Mounts PROVE Inv'
    OBVIOUS
  <1>0. PICK table : table = host["mounts"]
    OBVIOUS
  <1> DEFINE points == mountPoints(table)
  <1>1. /\ pc = "disks" /\ todo' = points
        /\ pc' = IF points = <<>> THEN "network" ELSE "fs"
        /\ system' = [system EXCEPT !["disks"] = <<>>]
        /\ UNCHANGED <<host, changes, route, readings, answer, during>>
    BY <1>0 DEF Mounts, After
  <1>2. "mounts" \in Sources /\ "fs" \in Sources /\ "disks" \in Figures /\ "cpu" \in Figures
    BY DEF Sources, Figures
  <1>3. /\ system' = [f \in Figures |-> system'[f]] /\ system'["disks"] = <<>>
        /\ \A f \in Figures \ {"disks"} : system'[f] = system[f]
    BY <1>1, <1>2 DEF Inv, Shape
  <1>4. table \in Contents["mounts"] /\ table \in during["mounts"]
    BY <1>0, <1>1, <1>2 DEF Inv, TypeOK, Shape
  <1>5. IsSequence(points) /\ \A i \in DOMAIN points : points[i] \notin SkippedMounts
    BY <1>4, MountPointsOf
  <1> HIDE DEF points
  <1>6. TypeOK'
    <2>1. pc' \in Labels
      BY <1>1 DEF Labels, Figures, Sources
    <2> QED
      BY <1>1, <1>2, <1>3, <1>5, <2>1 DEF Inv, TypeOK
  <1>7. Shape'
    BY <1>1, <1>3, <1>5 DEF Inv, Shape
  <1>8. ReadingsInv'
    BY <1>1 DEF Inv, ReadingsInv
  <1>9. FiguresInv'
    <2>1. /\ pc \in PastMemory /\ pc \in PastLoad /\ pc \in PastHostname
          /\ pc' \notin PastHourly \union PastDaily \union PastFailedLogins
      BY <1>1 DEF PastHostname, PastLoad, PastMemory, PastDisks, PastHourly, PastDaily,
                  PastFailedLogins
    <2>2. {"memory", "load", "hostname"} \subseteq Figures \ {"disks"}
      BY DEF Figures, Sources
    <2> QED
      BY <1>1, <1>3, <2>1, <2>2 DEF Inv, FiguresInv
  <1>10. DisksInv'
    <2>1. MeasuredWith(points, 0, <<>>, during["fs"])
      <3>1. \A size : Readable(points, 0, size) = {}
        BY DEF Readable
      <3>2. Cardinality({}) = 0 /\ 0 <= MaxDisks
        BY FS_EmptySet, HostMetricsAssumption
      <3> QED
        BY <3>1, <3>2, EmptySequence DEF MeasuredWith
    <2>2. Measured(points, 0)'
      BY <1>1, <1>3, <2>1 DEF Measured
    <2>3. /\ Len(points) \in Nat /\ (points = <<>> <=> Len(points) = 0)
          /\ Len(system'["disks"]) < MaxDisks
      BY <1>3, <1>5, HostMetricsAssumption DEF IsSequence
    <2>4. "network" \notin {"fs"} /\ "fs" \notin PastDisks
      BY DEF PastDisks, PastHourly, PastDaily, PastFailedLogins
    <2>5. table \in during'["mounts"] /\ points = mountPoints(table)
      BY <1>1, <1>4 DEF points
    <2>6. CASE points = <<>>
      <3>1. /\ pc' = "network" /\ 0 \in 0 .. Len(points)
            /\ Measured(points, 0)' /\ 0 = Len(points)
        BY <1>1, <2>2, <2>3, <2>6
      <3> QED
        BY <2>4, <2>5, <3>1 DEF DisksInv
    <2>7. CASE points # <<>>
      <3>1. 0 \in 0 .. Len(points) - 1 /\ \A k \in DOMAIN todo' : todo'[k] = points[0 + k]
        BY <1>1, <1>5, <2>3, <2>7 DEF IsSequence
      <3>2. Len(todo') = Len(points) - 0
        BY <1>1, <2>3
      <3> QED
        BY <1>1, <2>2, <2>3, <2>4, <2>5, <2>7, <3>1, <3>2 DEF DisksInv, points
    <2> QED
      BY <2>6, <2>7
  <1>11. answer' = NoAnswer
    BY <1>1 DEF Inv, Shape
  <1> QED
    BY <1>6, <1>7, <1>8, <1>9, <1>10, <1>11, NothingPromised DEF Inv

\* One more disk is measured or left out (readMountsAndDisks).
LEMMA StatFSStep == Inv /\ StatFS => Inv'
  <1> SUFFICES ASSUME Inv, StatFS PROVE Inv'
    OBVIOUS
  <1> DEFINE m     == Head(todo)
             size  == host["fs"][m]
             disks == IF size = Unreadable THEN system["disks"]
                      ELSE Append(system["disks"], statFS(m, size))
             done  == Len(todo) = 1 \/ Len(disks) >= MaxDisks
  <1>1. /\ pc = "fs" /\ system' = [system EXCEPT !["disks"] = disks]
        /\ todo' = IF done THEN <<>> ELSE Tail(todo)
        /\ pc' = IF done THEN "network" ELSE "fs"
        /\ UNCHANGED <<host, changes, route, readings, answer, during>>
    BY DEF StatFS, After
  <1>2. /\ "mounts" \in Sources /\ "fs" \in Sources
        /\ {"disks", "cpu", "memory", "load", "hostname"} \subseteq Figures
    BY DEF Sources, Figures
  <1>3. /\ system' = [f \in Figures |-> system'[f]] /\ system'["disks"] = disks
        /\ \A f \in Figures \ {"disks"} : system'[f] = system[f]
    BY <1>1, <1>2 DEF Inv, Shape
  <1>4. host["fs"] \in during["fs"]
    BY <1>1, <1>2 DEF Inv, Shape
  <1>5. PICK table \in during["mounts"] : \E n \in 0 .. Len(mountPoints(table)) - 1 :
          /\ Measured(mountPoints(table), n)
          /\ Len(system["disks"]) < MaxDisks
          /\ Len(todo) = Len(mountPoints(table)) - n
          /\ \A k \in DOMAIN todo : todo[k] = mountPoints(table)[n + k]
    BY <1>1 DEF Inv, DisksInv
  <1> DEFINE points == mountPoints(table)
  <1>6. PICK n \in 0 .. Len(points) - 1 :
          /\ Measured(points, n)
          /\ Len(system["disks"]) < MaxDisks
          /\ Len(todo) = Len(points) - n
          /\ \A k \in DOMAIN todo : todo[k] = points[n + k]
    BY <1>5
  <1>7. Len(points) \in Nat
    <2>1. table \in Contents["mounts"]
      BY <1>2, <1>5 DEF Inv, TypeOK
    <2> QED
      BY <2>1, MountPointsOf DEF IsSequence
  <1>8. PICK S : todo \in Seq(S)
    BY DEF Inv, Shape, IsSequence
  <1>9. todo # <<>> /\ m = points[n + 1]
    BY <1>6, <1>7, <1>8
  <1>10. MeasuredWith(points, n + 1, disks, during["fs"])
    <2>1. disks = IF host["fs"][points[n + 1]] = Unreadable THEN system["disks"]
                  ELSE Append(system["disks"],
                              statFS(points[n + 1], host["fs"][points[n + 1]]))
      BY <1>9
    <2>2. MeasuredWith(points, n, system["disks"], during["fs"]) /\ n \in Nat
      BY <1>6, <1>7 DEF Measured
    <2> HIDE DEF disks, m, size, points
    <2> QED
      BY <1>4, <1>6, <2>1, <2>2, MeasureOne
  <1> HIDE DEF disks, m, size, points
  <1>11. Len(disks) \in Nat /\ MaxDisks \in Nat /\ Len(disks) <= MaxDisks
    BY <1>10, HostMetricsAssumption DEF MeasuredWith, IsSequence
  <1>12. /\ IsSequence(todo')
         /\ \A k \in DOMAIN todo' : k + 1 \in DOMAIN todo /\ todo'[k] = todo[k + 1]
         /\ ~ done => Len(todo') = Len(todo) - 1 /\ n + 1 < Len(points)
    <2>1. CASE done
      BY <1>1, <2>1, EmptySequence
    <2>2. CASE ~ done
      <3>1. todo' = Tail(todo)
        BY <1>1, <2>2
      <3>2. Tail(todo) \in Seq(S) /\ Len(Tail(todo)) = Len(todo) - 1
        BY <1>8, <1>9
      <3>3. \A k \in 1 .. Len(todo) - 1 : Tail(todo)[k] = todo[k + 1]
        BY <1>8, <1>9
      <3>4. Len(todo) # 1 /\ n + 1 < Len(points)
        BY <1>6, <1>7, <2>2
      <3>5. DOMAIN Tail(todo) = 1 .. Len(todo) - 1 /\ DOMAIN todo = 1 .. Len(todo)
        BY <1>8, <3>2
      <3>6. IsSequence(todo')
        BY <3>1, <3>2, IsSequenceOf
      <3>7. \A k \in 1 .. Len(todo) - 1 : k + 1 \in 1 .. Len(todo)
        BY <1>8
      <3> QED
        BY <3>1, <3>2, <3>3, <3>4, <3>5, <3>6, <3>7
    <2> QED
      BY <2>1, <2>2
  <1> HIDE DEF done
  <1>13. TypeOK'
    <2>1. pc' \in Labels
      BY <1>1 DEF Labels, Figures, Sources
    <2>2. \A k \in DOMAIN todo' : todo'[k] \notin SkippedMounts
      BY <1>12 DEF Inv, TypeOK
    <2> QED
      BY <1>1, <1>2, <1>3, <2>1, <2>2 DEF Inv, TypeOK
  <1>14. Shape'
    BY <1>1, <1>3, <1>12 DEF Inv, Shape
  <1>15. ReadingsInv'
    BY <1>1 DEF Inv, ReadingsInv
  <1>16. FiguresInv'
    <2>1. /\ pc \in PastMemory /\ pc \in PastLoad /\ pc \in PastHostname
          /\ pc' \notin PastHourly \union PastDaily \union PastFailedLogins
      BY <1>1 DEF PastHostname, PastLoad, PastMemory, PastDisks, PastHourly, PastDaily,
                  PastFailedLogins
    <2> QED
      BY <1>1, <1>2, <1>3, <2>1 DEF Inv, FiguresInv
  <1>17. DisksInv'
    <2>1. Measured(points, n + 1)' /\ table \in during'["mounts"] /\ points = mountPoints(table)
      BY <1>1, <1>3, <1>10 DEF Measured, points
    <2>2. "network" # "fs" /\ "fs" \notin PastDisks
      BY DEF PastDisks, PastHourly, PastDaily, PastFailedLogins
    <2>3. CASE done
      <3>1. n + 1 \in 0 .. Len(points) /\ (n + 1 = Len(points) \/ Len(disks) = MaxDisks)
        BY <1>6, <1>7, <1>11, <2>3 DEF done
      <3> QED
        BY <1>1, <1>3, <2>1, <2>2, <2>3, <3>1 DEF DisksInv
    <2>4. CASE ~ done
      <3>1. n + 1 \in 0 .. Len(points) - 1 /\ Len(disks) < MaxDisks
        BY <1>6, <1>7, <1>11, <1>12, <2>4 DEF done
      <3>2. Len(todo') = Len(points) - (n + 1)
        BY <1>6, <1>7, <1>12, <2>4
      <3>3. \A k \in DOMAIN todo' : todo'[k] = points[(n + 1) + k]
        <4>1. ASSUME NEW k \in DOMAIN todo' PROVE todo'[k] = points[(n + 1) + k]
          <5>1. k \in Nat
            BY <1>12 DEF IsSequence
          <5>2. n + (k + 1) = (n + 1) + k
            BY <1>6, <5>1
          <5> QED
            BY <1>6, <1>12, <5>2
        <4> QED
          BY <4>1
      <3> QED
        BY <1>1, <1>3, <2>1, <2>2, <2>4, <3>1, <3>2, <3>3 DEF DisksInv
    <2> QED
      BY <2>3, <2>4
  <1>18. answer' = NoAnswer
    BY <1>1 DEF Inv, Shape
  <1> QED
    BY <1>13, <1>14, <1>15, <1>16, <1>17, <1>18, NothingPromised DEF Inv

-----------------------------------------------------------------------------
(* The host changes.                                                       *)

\* What a source held before it changed remains on record.
LEMMA HostStep == ASSUME Inv, NEW source \in Sources, HostChanges(source) PROVE Inv'
  <1>1. PICK c \in Contents[source] \ {host[source]} :
          host' = [host EXCEPT ![source] = c]
    BY DEF HostChanges
  <1>2. /\ changes < MaxChanges /\ changes' = changes + 1
        /\ during' = IF pc = "idle" THEN during
                     ELSE [during EXCEPT ![source] = during[source] \union {host'[source]}]
        /\ UNCHANGED <<pc, route, readings, todo, system, answer>>
    BY DEF HostChanges
  <1>3. /\ host' = [s \in Sources |-> host'[s]] /\ host'[source] = c
        /\ \A s \in Sources \ {source} : host'[s] = host[s]
    BY <1>1 DEF Inv, Shape
  <1>4. /\ during' = [s \in Sources |-> during'[s]]
        /\ \A s \in Sources \ {source} : during'[s] = during[s]
        /\ pc # "idle" => during'[source] = during[source] \union {c}
        /\ pc = "idle" => during' = during
        /\ \A s \in Sources : during[s] \subseteq during'[s]
    BY <1>2, <1>3 DEF Inv, Shape
  <1>5. TypeOK'
    <2>1. ASSUME NEW s \in Sources
          PROVE  host'[s] \in Contents[s] /\ during'[s] \subseteq Contents[s]
      <3>1. host[s] \in Contents[s] /\ during[s] \subseteq Contents[s]
        BY DEF Inv, TypeOK
      <3> QED
        BY <1>1, <1>3, <1>4, <3>1
    <2>2. changes' \in 0 .. MaxChanges
      BY <1>2, HostMetricsAssumption DEF Inv, TypeOK
    <2> QED
      BY <1>2, <2>1, <2>2 DEF Inv, TypeOK
  <1>6. Shape'
    <2>1. ASSUME pc' # "idle", NEW s \in Sources PROVE host'[s] \in during'[s]
      <3>1. host[s] \in during[s]
        BY <1>2, <2>1 DEF Inv, Shape
      <3> QED
        BY <1>2, <1>3, <1>4, <2>1, <3>1
    <2> QED
      BY <1>2, <1>3, <1>4, <2>1 DEF Inv, Shape
  <1>7. ReadingsInv'
    BY <1>2 DEF Inv, ReadingsInv
  <1>8. {"hostname", "load", "memory", "hourly", "daily", "failedLogins", "mounts", "fs"}
          \subseteq Sources
    BY DEF Sources
  <1>9. FiguresInv'
    BY <1>2, <1>4, <1>8 DEF Inv, FiguresInv
  <1>10. ASSUME pc # "idle", NEW points, NEW n \in Nat, Measured(points, n)
         PROVE  Measured(points, n)'
    <2>1. CASE source = "fs"
      <3>1. host["fs"] \in during["fs"] /\ c # host["fs"]
        BY <1>1, <1>8, <1>10, <2>1 DEF Inv, Shape
      <3>2. during'["fs"] = during["fs"] \union {c}
        BY <1>4, <1>10, <2>1
      <3>3. MeasuredWith(points, n, system["disks"], during["fs"])
        BY <1>10 DEF Measured
      <3>4. MeasuredWith(points, n, system["disks"], during["fs"] \union {c})
        BY <3>1, <3>3, MeasuredBefore
      <3> QED
        BY <1>2, <3>2, <3>4 DEF Measured
    <2>2. CASE source # "fs"
      BY <1>2, <1>4, <1>8, <1>10, <2>2 DEF Measured
    <2> QED
      BY <2>1, <2>2
  <1>11. DisksInv'
    <2>1. ASSUME NEW table \in during["mounts"]
          PROVE  table \in during'["mounts"] /\ Len(mountPoints(table)) \in Nat
      <3>1. table \in Contents["mounts"]
        BY <1>8 DEF Inv, TypeOK
      <3> QED
        BY <1>4, <1>8, <3>1, MountPointsOf DEF IsSequence
    <2>2. CASE pc = "fs"
      <3>1. PICK table \in during["mounts"] : \E n \in 0 .. Len(mountPoints(table)) - 1 :
              /\ Measured(mountPoints(table), n)
              /\ Len(system["disks"]) < MaxDisks
              /\ Len(todo) = Len(mountPoints(table)) - n
              /\ \A k \in DOMAIN todo : todo[k] = mountPoints(table)[n + k]
        BY <2>2 DEF Inv, DisksInv
      <3>2. PICK n \in 0 .. Len(mountPoints(table)) - 1 :
              /\ Measured(mountPoints(table), n)
              /\ Len(system["disks"]) < MaxDisks
              /\ Len(todo) = Len(mountPoints(table)) - n
              /\ \A k \in DOMAIN todo : todo[k] = mountPoints(table)[n + k]
        BY <3>1
      <3>3. Measured(mountPoints(table), n)'
        BY <1>10, <2>1, <2>2, <3>2
      <3>4. "fs" \notin PastDisks
        BY DEF PastDisks, PastHourly, PastDaily, PastFailedLogins
      <3> QED
        BY <1>2, <2>1, <2>2, <3>2, <3>3, <3>4 DEF DisksInv
    <2>3. CASE pc \in PastDisks
      <3>1. PICK table \in during["mounts"] : \E n \in 0 .. Len(mountPoints(table)) :
              /\ Measured(mountPoints(table), n)
              /\ n = Len(mountPoints(table)) \/ Len(system["disks"]) = MaxDisks
        BY <2>3 DEF Inv, DisksInv
      <3>2. PICK n \in 0 .. Len(mountPoints(table)) :
              /\ Measured(mountPoints(table), n)
              /\ n = Len(mountPoints(table)) \/ Len(system["disks"]) = MaxDisks
        BY <3>1
      <3>3. pc # "idle" /\ pc # "fs"
        BY <2>3 DEF PastDisks, PastHourly, PastDaily, PastFailedLogins
      <3>4. Measured(mountPoints(table), n)'
        BY <1>10, <2>1, <3>2, <3>3
      <3> QED
        BY <1>2, <2>1, <2>3, <3>2, <3>3, <3>4 DEF DisksInv
    <2> QED
      BY <1>2, <2>2, <2>3 DEF DisksInv
  <1>12. FiguresWereThere' /\ NothingWithheld'
    <2>1. CASE pc = "idle"
      <3>1. UNCHANGED <<answer, during>>
        BY <1>2, <1>4, <2>1
      <3> QED
        BY <3>1 DEF Inv, FiguresWereThere, NothingWithheld, Answered, Shown, Steady
    <2>2. CASE pc # "idle"
      BY <1>2, <2>2, NothingPromised DEF Inv, Shape
    <2> QED
      BY <2>1, <2>2
  <1> QED
    BY <1>5, <1>6, <1>7, <1>9, <1>11, <1>12 DEF Inv

-----------------------------------------------------------------------------
(* The answer.  figures are those of the snapshot, or of the telemetry     *)
(* block made of it.                                                       *)

\* What the block takes over from the snapshot and what it leaves out
\* (processOverviewTelemetry).
LEMMA BlockOf ==
  ASSUME NEW sys, sys = [f \in Figures |-> sys[f]]
  PROVE  /\ DOMAIN HostFigures(sys) = Figures
         /\ \A f \in {"load", "hourly", "daily", "failedLogins"} : HostFigures(sys)[f] = sys[f]
         /\ HostFigures(sys)["memory"] = IF sys["memory"].total > 0 THEN sys["memory"]
                                         ELSE Unknown
         /\ HostFigures(sys)["disks"] = RootDisk(sys)
         /\ DOMAIN processOverviewTelemetry(sys).figures = Figures
         /\ processOverviewTelemetry(sys).kind \in {"telemetry", "hostless", "dropped"}
         /\ processOverviewTelemetry(sys).kind = "dropped" => Panics(sys)
         /\ processOverviewTelemetry(sys).kind = "hostless" => sys["hostname"] = ""
         /\ processOverviewTelemetry(sys).kind = "telemetry" =>
              /\ processOverviewTelemetry(sys).figures = HostFigures(sys)
              /\ ~ Panics(sys)
  <1>1. {"load", "hourly", "daily", "failedLogins", "memory", "disks", "network", "processes"}
          \subseteq Figures
    BY DEF Figures, Sources
  <1>2. /\ DOMAIN HostFigures(sys) = Figures
        /\ \A f \in {"load", "hourly", "daily", "failedLogins"} : HostFigures(sys)[f] = sys[f]
        /\ HostFigures(sys)["memory"] = IF sys["memory"].total > 0 THEN sys["memory"]
                                        ELSE Unknown
        /\ HostFigures(sys)["disks"] = RootDisk(sys)
    BY <1>1 DEF HostFigures
  <1>3. DOMAIN Empty = Figures
    BY DEF Empty
  <1> QED
    BY <1>2, <1>3 DEF processOverviewTelemetry

\* The disks of the snapshot that is complete, and their place in the answer.
LEMMA DisksShown ==
  ASSUME Inv, pc = "respond"
  PROVE  /\ IsSequence(system["disks"])
         /\ \A i \in DOMAIN system["disks"] :
              LET d == system["disks"][i] IN
              \E size \in during["fs"] :
                /\ d.total \in 0 .. Width - 1
                /\ size[d.mount] = [total |-> d.total, free |-> (d.total - d.used) % Width]
                /\ int64(d.total) > 0 =>
                     size[d.mount] = [total |-> int64(d.total),
                                      free  |-> (int64(d.total) - int64(d.used)) % Width]
                /\ size[d.mount] # Unreadable
                /\ \E table \in during["mounts"] \ {Unreadable} :
                     \E j \in DOMAIN table : table[j] = d.mount
         /\ \A table \in Contents["mounts"] \ {Unreadable}, size \in Contents["fs"] :
              /\ Steady("mounts", table) /\ Steady("fs", size)
              /\ size["/"] # Unreadable
              /\ \E i \in DOMAIN mountPoints(table) :
                   LET before == {j \in 1 .. i : size[mountPoints(table)[j]] # Unreadable}
                   IN  mountPoints(table)[i] = "/" /\ Cardinality(before) <= MaxDisks
              => \E i \in DOMAIN system["disks"] : system["disks"][i].mount = "/"
  <1>1. PICK table \in during["mounts"] : \E n \in 0 .. Len(mountPoints(table)) :
          /\ Measured(mountPoints(table), n)
          /\ n = Len(mountPoints(table)) \/ Len(system["disks"]) = MaxDisks
    <2>1. pc \in PastDisks
      BY DEF PastDisks, PastHourly, PastDaily, PastFailedLogins
    <2> QED
      BY <2>1 DEF Inv, DisksInv
  <1> DEFINE points == mountPoints(table)
  <1>2. PICK n \in 0 .. Len(points) :
          /\ Measured(points, n)
          /\ n = Len(points) \/ Len(system["disks"]) = MaxDisks
    BY <1>1
  <1>3. /\ table \in Contents["mounts"] /\ during["fs"] \subseteq Contents["fs"]
    BY <1>1 DEF Inv, TypeOK, Sources
  <1>4. IsSequence(points) /\ DOMAIN points = 1 .. Len(points) /\ Len(points) \in Nat
    BY <1>3, MountPointsOf DEF IsSequence
  <1>5. n \in Nat /\ n <= Len(points) /\ (n = Len(points) \/ Len(system["disks"]) = MaxDisks)
    <2>1. n \in 0 .. Len(points) /\ (n = Len(points) \/ Len(system["disks"]) = MaxDisks)
      BY <1>2
    <2>2. Len(points) \in Nat
      BY <1>4
    <2>3. ASSUME NEW l \in Nat, NEW k \in 0 .. l PROVE k \in Nat /\ k <= l
      OBVIOUS
    <2> HIDE DEF points
    <2>4. n \in Nat /\ n <= Len(points)
      BY <2>1, <2>2, <2>3
    <2> QED
      BY <2>1, <2>4
  <1> HIDE DEF points
  <1>6. ASSUME NEW i \in DOMAIN system["disks"], NEW d, d = system["disks"][i]
        PROVE  \E size \in during["fs"] :
                 /\ d.total \in 0 .. Width - 1
                 /\ size[d.mount] = [total |-> d.total, free |-> (d.total - d.used) % Width]
                 /\ int64(d.total) > 0 =>
                      size[d.mount] = [total |-> int64(d.total),
                                       free  |-> (int64(d.total) - int64(d.used)) % Width]
                 /\ size[d.mount] # Unreadable
                 /\ \E t \in during["mounts"] \ {Unreadable} :
                      \E j \in DOMAIN t : t[j] = d.mount
    <2>1. PICK size \in during["fs"] : \E j \in Readable(points, n, size) :
            d = statFS(points[j], size[points[j]])
      BY <1>2, <1>6 DEF Measured, MeasuredWith
    <2>2. PICK j \in Readable(points, n, size) :
            d = statFS(points[j], size[points[j]])
      BY <2>1
    <2>3. j \in DOMAIN points /\ size[points[j]] # Unreadable /\ size \in Contents["fs"]
      <3>1. j \in 1 .. n /\ size[points[j]] # Unreadable
        BY <2>2 DEF Readable
      <3>2. ASSUME NEW l \in Nat, n <= l PROVE j \in 1 .. l
        BY <1>5, <3>1, <3>2
      <3>3. j \in DOMAIN points
        BY <1>4, <1>5, <3>2
      <3> QED
        BY <1>3, <3>1, <3>3
    <2> QED
      BY <1>1, <1>3, <2>2, <2>3, DiskWas DEF points
  <1>7. ASSUME NEW t \in Contents["mounts"] \ {Unreadable}, NEW size \in Contents["fs"],
               Steady("mounts", t), Steady("fs", size), size["/"] # Unreadable,
               NEW i \in DOMAIN mountPoints(t), mountPoints(t)[i] = "/",
               Cardinality({j \in 1 .. i : size[mountPoints(t)[j]] # Unreadable}) <= MaxDisks
        PROVE  \E k \in DOMAIN system["disks"] : system["disks"][k].mount = "/"
    <2>1. t = table /\ during["fs"] = {size}
      BY <1>1, <1>7 DEF Steady
    <2>2. i \in DOMAIN points /\ points[i] = "/"
      BY <1>7, <2>1 DEF points
    <2>3. Cardinality(Readable(points, i, size)) <= MaxDisks
      BY <1>7, <2>1 DEF Readable, points
    <2>4. /\ Len(system["disks"]) = Cardinality(Readable(points, n, size))
          /\ \A j \in Readable(points, n, size) :
               \E k \in DOMAIN system["disks"] : system["disks"][k].mount = points[j]
      BY <1>2, <2>1 DEF Measured, MeasuredWith
    <2>5. CASE i <= n
      <3>1. i \in Readable(points, n, size)
        BY <1>4, <1>7, <2>2, <2>5 DEF Readable
      <3> QED
        BY <2>2, <2>4, <3>1
    <2>6. CASE ~(i <= n)
      <3>1. Cardinality(Readable(points, n, size)) = MaxDisks /\ i \in Nat /\ n \in Nat
        <4>1. \A l \in Nat : i \in 1 .. l => i \in Nat /\ i <= l
          OBVIOUS
        <4>2. i \in Nat /\ i <= Len(points)
          BY <1>4, <2>2, <4>1
        <4> QED
          BY <1>5, <2>4, <2>6, <4>2
      <3>2. i > n
        BY <2>6, <3>1
      <3>3. /\ Readable(points, n, size) \union {i} \subseteq Readable(points, i, size)
            /\ i \notin Readable(points, n, size)
        BY <1>7, <2>2, <3>1, <3>2 DEF Readable
      <3>4. /\ IsFiniteSet(Readable(points, n, size)) /\ IsFiniteSet(Readable(points, i, size))
            /\ Cardinality(Readable(points, i, size)) \in Nat
        BY <3>1, ReadableFinite
      <3>5. Cardinality(Readable(points, n, size) \union {i}) = MaxDisks + 1
        BY <3>1, <3>3, <3>4, FS_AddElement
      <3>6. Cardinality(Readable(points, n, size) \union {i})
              <= Cardinality(Readable(points, i, size))
        BY <3>3, <3>4, FS_Subset
      <3>7. FALSE
        BY <2>3, <3>4, <3>5, <3>6, HostMetricsAssumption
      <3> QED
        BY <3>7
    <2> QED
      BY <2>5, <2>6
  <1>8. IsSequence(system["disks"])
    BY <1>2 DEF Measured, MeasuredWith
  <1> QED
    BY <1>6, <1>7, <1>8

\* The figures of an answer are those of the snapshot it is made of (Respond).
LEMMA AnswerOf ==
  ASSUME Inv, Respond
  PROVE  /\ answer'.kind \in {"system", "telemetry", "hostless", "dropped"}
         /\ DOMAIN answer'.figures = Figures
         /\ answer'.kind = "dropped" => Panics(system)
         /\ answer'.kind = "hostless" => system["hostname"] = ""
         /\ Answered' =>
              /\ \A f \in {"load", "hourly", "daily", "failedLogins"} :
                   answer'.figures[f] = system[f]
              /\ answer'.figures["memory"] = system["memory"]
                   \/ /\ answer'.figures["memory"] = Unknown
                      /\ ~ (system["memory"].total > 0)
              /\ answer'.kind = "telemetry" /\ answer'.figures["memory"] # Unknown =>
                   system["memory"].total > 0
              /\ \/ answer'.figures["disks"] = system["disks"]
                 \/ answer'.figures["disks"] = RootDisk(system) /\ ~ Panics(system)
  <1>1. system = [f \in Figures |-> system[f]] /\ DOMAIN system = Figures
    BY DEF Inv, Shape
  <1>2. CASE route = "system"
    <2>1. answer' = [kind |-> "system", figures |-> system]
      BY <1>2 DEF Respond
    <2> QED
      BY <1>1, <2>1
  <1>3. CASE route # "system"
    <2>1. answer' = processOverviewTelemetry(system)
      BY <1>3 DEF Respond
    <2>2. Answered' => /\ answer'.kind = "telemetry" /\ ~ Panics(system)
                       /\ answer'.figures = HostFigures(system)
      BY <1>1, <2>1, BlockOf DEF Answered
    <2>3. /\ answer'.kind \in {"telemetry", "hostless", "dropped"}
          /\ DOMAIN answer'.figures = Figures
          /\ answer'.kind = "dropped" => Panics(system)
          /\ answer'.kind = "hostless" => system["hostname"] = ""
      BY <1>1, <2>1, BlockOf
    <2> HIDE DEF Answered
    <2> QED
      BY <1>1, <2>2, <2>3, BlockOf
  <1> QED
    BY <1>2, <1>3

\* d was mounted and had this size at some moment of the request.
DiskWasThere(d) ==
  /\ \E size \in during["fs"] :
       size[d.mount] = [total |-> d.total, free |-> (d.total - d.used) % Width]
  /\ \E table \in during["mounts"] \ {Unreadable} : \E j \in DOMAIN table : table[j] = d.mount

\* The disk of the telemetry block is the root file system of the snapshot, if it
\* has one: its size is what an int64 can hold, or the handler panics
\* (telemetry.go:37-56, 90).
LEMMA RootDiskShown ==
  ASSUME Inv, pc = "respond", NEW disks, disks = RootDisk(system), ~ Panics(system)
  PROVE  /\ IsSequence(disks)
         /\ \A i \in DOMAIN disks : DiskWasThere(disks[i])
         /\ (\E j \in DOMAIN system["disks"] : system["disks"][j].mount = "/")
              => \E i \in DOMAIN disks : disks[i].mount = "/"
  <1>1. IsSequence(system["disks"])
    BY DisksShown
  <1>2. CASE RootDisks(system) = <<>>
    <2>1. disks = <<>>
      BY <1>2 DEF RootDisk
    <2>2. ~ \E j \in DOMAIN system["disks"] : system["disks"][j].mount = "/"
      BY <1>1, <1>2, RootDisksOf
    <2> QED
      BY <2>1, <2>2, EmptySequence
  <1>3. CASE RootDisks(system) # <<>>
    <2> DEFINE d == RootDisks(system)[1]
               shown == [mount |-> d.mount, total |-> int64(d.total), used |-> int64(d.used)]
    <2>1. disks = <<shown>>
      BY <1>3 DEF RootDisk
    <2>2. 1 \in DOMAIN RootDisks(system)
      <3>1. IsSequence(RootDisks(system))
        BY <1>1, RootDisksOf
      <3> QED
        BY <1>3, <3>1 DEF IsSequence
    <2>3. PICK j \in DOMAIN system["disks"] :
            d = system["disks"][j] /\ system["disks"][j].mount = "/"
      BY <1>1, <2>2, RootDisksOf
    <2>4. /\ shown.mount = d.mount /\ shown.total = int64(d.total)
          /\ shown.used = int64(d.used)
      OBVIOUS
    <2> HIDE DEF d, shown
    <2>5. DOMAIN disks = {1} /\ disks[1] = shown /\ IsSequence(disks)
      <3>1. <<shown>> \in Seq({shown}) /\ DOMAIN <<shown>> = {1} /\ <<shown>>[1] = shown
        OBVIOUS
      <3>2. IsSequence(<<shown>>)
        BY <3>1, IsSequenceOf
      <3> QED
        BY <2>1, <3>1, <3>2
    <2>6. int64(d.total) > 0
      <3>1. disks # <<>> /\ ~ (disks[1].total <= 0)
        BY <2>1, <2>5 DEF Panics
      <3>2. int64(d.total) \in Int
        <4>1. d.total \in 0 .. Width - 1
          BY <2>3, DisksShown
        <4> QED
          BY <4>1, HostMetricsAssumption DEF int64
      <3> QED
        BY <2>4, <2>5, <3>1, <3>2
    <2>7. DiskWasThere(shown)
      BY <2>3, <2>4, <2>6, DisksShown DEF DiskWasThere
    <2> QED
      BY <2>3, <2>4, <2>5, <2>7
  <1> QED
    BY <1>2, <1>3

\* The answer keeps what is promised of it.
LEMMA RespondStep == Inv /\ Respond => Inv'
  <1> SUFFICES ASSUME Inv, Respond PROVE Inv'
    OBVIOUS
  <1>1. /\ pc = "respond" /\ pc' = "idle" /\ system' = Empty
        /\ UNCHANGED <<host, changes, route, readings, todo, during>>
    BY DEF Respond
  <1>2. readings = <<>>
    BY <1>1 DEF Inv, ReadingsInv
  <1>3. TypeOK'
    <2>1. pc' \in Labels /\ DOMAIN system' = Figures /\ system'["cpu"] = Unknown
      BY <1>1, FunctionsOf DEF Labels, Figures
    <2>2. /\ answer'.kind \in {"none", "system", "telemetry", "hostless", "dropped"}
          /\ DOMAIN answer'.figures = Figures
      BY AnswerOf
    <2> QED
      BY <1>1, <2>1, <2>2 DEF Inv, TypeOK
  <1>4. Shape'
    BY <1>1, FunctionsOf DEF Inv, Shape
  <1>5. ReadingsInv' /\ FiguresInv' /\ DisksInv'
    BY <1>1, <1>2 DEF ReadingsInv, FiguresInv, DisksInv, PastHostname, PastLoad, PastMemory,
                      PastDisks, PastHourly, PastDaily, PastFailedLogins
  <1>6. /\ \E c \in during["hostname"] : system["hostname"] = hostnameOf(c)
        /\ \E c \in during["load"] : system["load"] = readLoadAverage(c)
        /\ \E c \in during["memory"] : system["memory"] = readMemInfo(c)
        /\ \E c \in during["hourly"] : system["hourly"] = readSSHLoginReport(c)
        /\ \E c \in during["daily"] : system["daily"] = readSSHLoginReport(c)
        /\ \E c \in during["failedLogins"] : system["failedLogins"] = readFailedLogins(c)
    BY <1>1 DEF Inv, FiguresInv, PastHostname, PastLoad, PastMemory, PastDisks, PastHourly,
                PastDaily, PastFailedLogins
  <1>7. /\ during["memory"] \subseteq Contents["memory"]
        /\ during["hourly"] \subseteq Contents["hourly"]
        /\ during["daily"] \subseteq Contents["daily"]
        /\ during["failedLogins"] \subseteq Contents["failedLogins"]
    BY DEF Inv, TypeOK, Sources
  <1> DEFINE figures == answer'.figures
             disks == figures["disks"]
  <1>8. ASSUME Answered'
        PROVE  /\ IsSequence(disks)
               /\ \A i \in DOMAIN disks : DiskWasThere(disks[i])
               /\ (\E j \in DOMAIN system["disks"] : system["disks"][j].mount = "/")
                    => \E i \in DOMAIN disks : disks[i].mount = "/"
    <2>1. IsSequence(system["disks"])
      BY <1>1, DisksShown
    <2>2. CASE disks = system["disks"]
      <3>1. ASSUME NEW i \in DOMAIN system["disks"]
            PROVE  DiskWasThere(system["disks"][i])
        BY <1>1, <3>1, DisksShown DEF DiskWasThere
      <3> HIDE DEF disks
      <3> QED
        BY <2>1, <2>2, <3>1
    <2>3. CASE disks = RootDisk(system) /\ ~ Panics(system)
      BY <1>1, <2>3, RootDiskShown
    <2> QED
      BY <1>8, <2>2, <2>3, AnswerOf
  <1>9. FiguresWereThere'
    <2> SUFFICES ASSUME Answered'
                 PROVE  /\ \A f \in {"hourly", "daily"} : \E c \in during[f] :
                             ShowsReport(figures[f], c)
                        /\ figures["failedLogins"]
                             \in (during["failedLogins"] \ {Unreadable}) \union {Unknown}
                        /\ \/ figures["load"] \in during["load"] \ {Unreadable}
                           \/ figures["load"] = 0 /\ Unreadable \in during["load"]
                        /\ \A i \in DOMAIN disks : DiskWasThere(disks[i])
                        /\ answer'.kind = "telemetry" /\ figures["memory"] # Unknown =>
                             \E c \in during["memory"] \ {Unreadable} :
                               c.total = figures["memory"].total /\ c.total > 0
      BY <1>1 DEF FiguresWereThere, Shown, DiskWasThere
    <2>1. /\ \E c \in during["hourly"] : ShowsReport(figures["hourly"], c)
          /\ \E c \in during["daily"] : ShowsReport(figures["daily"], c)
      BY <1>6, <1>7, AnswerOf, ReportShown
    <2>2. /\ figures["failedLogins"]
               \in (during["failedLogins"] \ {Unreadable}) \union {Unknown}
          /\ \/ figures["load"] \in during["load"] \ {Unreadable}
             \/ figures["load"] = 0 /\ Unreadable \in during["load"]
      <3>1. figures["failedLogins"] = system["failedLogins"] /\ figures["load"] = system["load"]
        BY AnswerOf
      <3> HIDE DEF figures
      <3> QED
        BY <1>6, <3>1 DEF readFailedLogins, readLoadAverage
    <2>3. \A i \in DOMAIN disks : DiskWasThere(disks[i])
      BY <1>8
    <2>4. ASSUME answer'.kind = "telemetry", figures["memory"] # Unknown
          PROVE  \E c \in during["memory"] \ {Unreadable} :
                   c.total = figures["memory"].total /\ c.total > 0
      <3>1. figures["memory"] = system["memory"] /\ system["memory"].total > 0
        BY <2>4, AnswerOf
      <3>2. PICK c \in during["memory"] : system["memory"] = readMemInfo(c)
        BY <1>6
      <3>3. c # Unreadable /\ system["memory"].total = c.total
        BY <3>1, <3>2 DEF readMemInfo
      <3> QED
        BY <3>1, <3>3
    <2> HIDE DEF figures, disks
    <2> QED
      BY <2>1, <2>2, <2>3, <2>4
  <1>10. answer'.kind = "dropped" =>
           \E c \in during["fs"] : c["/"] # Unreadable /\ int64(c["/"].total) <= 0
    <2> SUFFICES ASSUME answer'.kind = "dropped"
                 PROVE  \E c \in during["fs"] : c["/"] # Unreadable /\ int64(c["/"].total) <= 0
      OBVIOUS
    <2>1. RootDisks(system) # <<>> /\ int64(RootDisks(system)[1].total) <= 0
      <3>1. RootDisk(system) # <<>> /\ RootDisk(system)[1].total <= 0
        BY AnswerOf DEF Panics
      <3>2. RootDisks(system) # <<>>
        BY <3>1 DEF RootDisk
      <3>3. RootDisk(system)[1].total = int64(RootDisks(system)[1].total)
        BY <3>2 DEF RootDisk
      <3> QED
        BY <3>1, <3>2, <3>3
    <2>2. IsSequence(system["disks"]) /\ IsSequence(RootDisks(system))
      BY <1>1, DisksShown, RootDisksOf
    <2>3. 1 \in DOMAIN RootDisks(system)
      BY <2>1, <2>2 DEF IsSequence
    <2>4. PICK j \in DOMAIN system["disks"] :
            RootDisks(system)[1] = system["disks"][j] /\ system["disks"][j].mount = "/"
      BY <2>2, <2>3, RootDisksOf
    <2>5. PICK size \in during["fs"] :
            /\ size["/"].total = system["disks"][j].total
            /\ size["/"] # Unreadable
      <3>1. PICK size \in during["fs"] :
              /\ size["/"] = [total |-> system["disks"][j].total,
                              free  |-> (system["disks"][j].total - system["disks"][j].used)
                                          % Width]
              /\ size["/"] # Unreadable
        BY <1>1, <2>4, DisksShown
      <3> QED
        BY <3>1
    <2> QED
      BY <2>1, <2>4, <2>5
  <1>11. ASSUME Answered', NEW c \in Contents["failedLogins"] \ {Unreadable},
                Steady("failedLogins", c), c >= 0
         PROVE  figures["failedLogins"] = c
    <2>1. system["failedLogins"] = readFailedLogins(c)
      BY <1>6, <1>11 DEF Steady
    <2>2. readFailedLogins(c) = c
      BY <1>11, ContentsAssumption DEF readFailedLogins
    <2> QED
      BY <1>11, <2>1, <2>2, AnswerOf
  <1>12. ASSUME Answered', NEW c \in Contents["memory"] \ {Unreadable},
                Steady("memory", c), c.total > 0
         PROVE  figures["memory"] # Unknown /\ figures["memory"].total = c.total
    <2>1. system["memory"] = readMemInfo(c) /\ readMemInfo(c) # Unknown
      BY <1>6, <1>12, UnknownAssumption DEF Steady
    <2>2. system["memory"].total = c.total
      BY <1>12, <2>1 DEF readMemInfo
    <2> QED
      BY <1>12, <2>1, <2>2, AnswerOf
  <1>13. ASSUME Answered', NEW c \in Contents["daily"] \ {Unreadable}, Steady("daily", c)
         PROVE  figures["daily"] # Unknown /\ ShowsReport(figures["daily"], c)
    <2>1. system["daily"] = readSSHLoginReport(c) /\ readSSHLoginReport(c) # Unknown
      BY <1>6, <1>13, UnknownAssumption DEF Steady
    <2>2. ShowsReport(readSSHLoginReport(c), c)
      BY ReportShown
    <2> QED
      BY <1>13, <2>1, <2>2, AnswerOf
  <1>14. ASSUME Answered', \E j \in DOMAIN system["disks"] : system["disks"][j].mount = "/"
         PROVE  RootDisks([disks |-> disks]) # <<>>
    <2>1. IsSequence(disks) /\ \E i \in DOMAIN disks : disks[i].mount = "/"
      BY <1>8, <1>14
    <2> DEFINE sys == [disks |-> disks]
    <2>2. sys["disks"] = disks
      OBVIOUS
    <2> HIDE DEF sys, disks
    <2>3. IsSequence(sys["disks"]) /\ \E i \in DOMAIN sys["disks"] : sys["disks"][i].mount = "/"
      BY <2>1, <2>2
    <2>4. RootDisks(sys) # <<>>
      BY <2>3, RootDisksOf
    <2> QED
      BY <2>4 DEF sys
  <1>15. NothingWithheld'
    <2>1. \A s, c : Steady(s, c)' <=> Steady(s, c)
      BY <1>1 DEF Steady
    <2>2. Answered' =>
            \A table \in Contents["mounts"] \ {Unreadable}, size \in Contents["fs"] :
              /\ Steady("mounts", table) /\ Steady("fs", size)
              /\ size["/"] # Unreadable
              /\ \E i \in DOMAIN mountPoints(table) :
                   LET before == {j \in 1 .. i : size[mountPoints(table)[j]] # Unreadable}
                   IN  mountPoints(table)[i] = "/" /\ Cardinality(before) <= MaxDisks
              => RootDisks([disks |-> disks]) # <<>>
      BY <1>1, <1>14, DisksShown
    <2>3. answer'.kind = "hostless" => during["hostname"] \intersect {Unreadable, ""} # {}
      <3>1. ASSUME answer'.kind = "hostless"
            PROVE  \E c \in during["hostname"] : c \in {Unreadable, ""}
        BY <1>6, <3>1, AnswerOf DEF hostnameOf
      <3> QED
        BY <3>1
    <2> HIDE DEF Answered
    <2> QED
      BY <1>1, <1>10, <1>11, <1>12, <1>13, <2>1, <2>2, <2>3 DEF NothingWithheld, Shown
  <1> QED
    BY <1>3, <1>4, <1>5, <1>9, <1>15 DEF Inv

-----------------------------------------------------------------------------
(* Every step, and the properties.                                         *)

\* The invariant is kept by every step.
LEMMA InvStep == Inv /\ [Next]_vars => Inv'
  <1> SUFFICES ASSUME Inv, [Next]_vars PROVE Inv'
    OBVIOUS
  <1>1. CASE Next
    BY <1>1, RequestStep, FiguresStep, FirstSampleStep, SecondSampleStep, MountsStep,
       StatFSStep, RespondStep, HostStep DEF Next, Handler
  <1>2. CASE UNCHANGED vars
    <2>1. TypeOK' /\ Shape'
      BY <1>2 DEF vars, Inv, TypeOK, Shape
    <2>2. ReadingsInv' /\ FiguresInv'
      BY <1>2 DEF vars, Inv, ReadingsInv, FiguresInv
    <2>3. DisksInv'
      BY <1>2 DEF vars, Inv, DisksInv, Measured
    <2>4. FiguresWereThere' /\ NothingWithheld'
      BY <1>2 DEF vars, Inv, FiguresWereThere, NothingWithheld, Answered, Shown, Steady
    <2> QED
      BY <2>1, <2>2, <2>3, <2>4 DEF Inv
  <1> QED
    BY <1>1, <1>2

\* The invariant holds in every state.
THEOREM Invariant == Spec => []Inv
  BY InvInit, InvStep, PTL DEF Spec

\* Every variable keeps its type; above all, a share published lies between 0 and
\* 100 percent, and no mount point of the kernel is measured.
THEOREM TypeCorrect == Spec => []TypeOK
  <1>1. Inv => TypeOK
    BY DEF Inv
  <1> QED
    BY <1>1, Invariant, PTL

\* The share is that of the CPU time which passed, whatever the width of the
\* counters and however often their sums wrapped (parseCPUSample,
\* cpuPercentBetween, measureCPUPercent).
THEOREM ShareIsTrue == Spec => []CPUShareTrue
  <1>1. ASSUME Inv, NEW a \in Readings, NEW b \in Readings, readings = <<a, b>>,
               b # Unreadable, b.busy >= a.busy, b.idle >= a.idle, b.iowait >= a.iowait,
               NEW total, total = (b.busy - a.busy) + (b.idle - a.idle) + (b.iowait - a.iowait),
               total < Width
        PROVE  /\ system["cpu"] # Unknown =>
                    2 * (system["cpu"] * total - 1000 * (b.busy - a.busy)) \in -total .. total
               /\ b.busy + b.idle + b.iowait < Width => (system["cpu"] = Unknown <=> total = 0)
    <2>1. ~ SampleFails(a) /\ system["cpu"] = Share(a, b)
      BY <1>1 DEF Inv, ReadingsInv
    <2>2. a # Unreadable
      BY <2>1 DEF SampleFails
    <2>3. CASE ~ SampleFails(b)
      BY <1>1, <2>1, <2>2, <2>3, ShareTrue DEF Share
    <2>4. CASE SampleFails(b)
      <3>1. system["cpu"] = Unknown /\ parseCPUSample(b).total = 0
        BY <1>1, <2>1, <2>4 DEF Share, SampleFails
      <3>2. ASSUME b.busy + b.idle + b.iowait < Width PROVE FALSE
        <4>1. /\ a \in [busy : 0 .. Width - 1, idle : 0 .. Width - 1, iowait : 0 .. Width - 1]
              /\ b \in [busy : 0 .. Width - 1, idle : 0 .. Width - 1, iowait : 0 .. Width - 1]
              /\ Width \in Nat \ {0}
          BY <1>1, <2>2, HostMetricsAssumption
        <4>2. PICK q \in Int : b.busy + b.idle + b.iowait = Width * q + parseCPUSample(b).total
          BY <1>1, SampleOf
        <4>3. b.busy + b.idle + b.iowait \in 0 .. Width - 1
          BY <3>2, <4>1
        <4>4. a.busy = 0 /\ a.idle = 0 /\ a.iowait = 0
          <5>1. b.busy + b.idle + b.iowait = Width * q
            BY <3>1, <4>1, <4>2
          <5>2. q = 0
            BY <4>1, <4>3, <5>1, SmallMultiple
          <5>3. b.busy + b.idle + b.iowait = 0
            BY <4>1, <5>1, <5>2
          <5>4. /\ a.busy \in Nat /\ a.idle \in Nat /\ a.iowait \in Nat
                /\ b.busy \in Nat /\ b.idle \in Nat /\ b.iowait \in Nat
            BY <4>1
          <5>5. b.busy = 0 /\ b.idle = 0 /\ b.iowait = 0
            BY <5>3, <5>4
          <5> QED
            BY <1>1, <5>4, <5>5
        <4>5. PICK p \in Int : 0 = Width * p + parseCPUSample(a).total
          BY <2>2, <4>4, SampleOf
        <4>6. parseCPUSample(a).total \in 0 .. Width - 1
          BY <2>2, SampleOf
        <4>7. p = 0
          BY <4>1, <4>5, <4>6, SmallMultiple
        <4> QED
          BY <2>1, <4>1, <4>5, <4>6, <4>7 DEF SampleFails
      <3> QED
        BY <3>1, <3>2
    <2> QED
      BY <2>3, <2>4
  <1>2. Inv => CPUShareTrue
    BY <1>1 DEF CPUShareTrue
  <1> QED
    BY <1>2, Invariant, PTL

\* The figures of an answer that FiguresWereThere lists are not made up or put
\* together, for reports of any length, tables of any length, sizes of any width and
\* however often the sources change (collectSystem).
THEOREM FiguresAreTrue == Spec => []FiguresWereThere
  <1>1. Inv => FiguresWereThere
    BY DEF Inv
  <1> QED
    BY <1>1, Invariant, PTL

\* One source that fails hides no figure of another, but for the hostname; the block
\* is without a host only if that could not be read, and the answer is lost only for a
\* root file system without a size that an int64 can hold (readMountsAndDisks,
\* processOverviewTelemetry).
THEOREM AllThatCouldBeRead == Spec => []NothingWithheld
  <1>1. Inv => NothingWithheld
    BY DEF Inv
  <1> QED
    BY <1>1, Invariant, PTL
=============================================================================
