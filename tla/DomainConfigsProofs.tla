------------------------ MODULE DomainConfigsProofs ------------------------
(***************************************************************************)
(* The grouping loop of DomainConfigs for any hosts, origins, priorities   *)
(* and length of the result.                                               *)
(*                                                                         *)
(* The rows read so far fall into one block per host, in the order of the  *)
(* hosts: a cut gives the place where each block ends.  Flattening the     *)
(* blocks gives the rows back, which is an induction over the hosts.       *)
(***************************************************************************)
EXTENDS DomainConfigs, SequenceTheorems, WellFoundedInduction, TLAPS

(* The entry of each host is its block of the rows read, block after block. *)
IsCut(cut) ==
  /\ cut \in [0 .. Len(order) -> 0 .. read]
  /\ cut[0] = 0 /\ cut[Len(order)] = read
  /\ \A i \in 1 .. Len(order) :
       /\ cut[i - 1] < cut[i]
       /\ domainMap[order[i]] = SubSeq(rows, cut[i - 1] + 1, cut[i])
       /\ \A k \in cut[i - 1] + 1 .. cut[i] : rows[k].host = order[i]

Ascending == \A i, j \in 1 .. Len(order) : i < j => order[i] < order[j]

LoadInv ==
  /\ LoadTypeOK
  /\ Result(rows)
  /\ Ascending
  /\ \E cut : IsCut(cut)
  /\ GroupedInOrder
-----------------------------------------------------------------------------
(* Sequences.                                                              *)

(* Induction over the naturals, for a set. *)
LEMMA SetInduction ==
  ASSUME NEW S, 0 \in S, \A n \in Nat : n \in S => n + 1 \in S
  PROVE  Nat \subseteq S
<1> DEFINE T == Nat \ S
<1>1. SUFFICES ASSUME T # {}
               PROVE  FALSE
  BY Zenon
<1>2. \E m \in T : \A k \in T : ~ (<<k, m>> \in OpToRel(<, Nat))
  <2>1. T \subseteq Nat
    OBVIOUS
  <2> HIDE DEF T
  <2>2. QED
    BY <1>1, <2>1, NatLessThanWellFounded, WFMin, Zenon
<1>3. PICK m \in T : \A k \in T : ~ (<<k, m>> \in OpToRel(<, Nat))
  BY <1>2
<1>4. m - 1 \in Nat /\ m - 1 < m /\ m \in Nat
  OBVIOUS
<1>5. m - 1 \notin T
  BY <1>3, <1>4 DEF OpToRel
<1>6. QED
  BY <1>4, <1>5

(* FlattenSeq is what any function is that satisfies its recursion. *)
LEMMA FlattenSeqIs ==
  ASSUME NEW seqs, Len(seqs) \in Nat \ {0}, NEW g,
         \A i \in 1 .. Len(seqs) : g[i] = IF i = 1 THEN seqs[i] ELSE g[i - 1] \o seqs[i]
  PROVE  FlattenSeq(seqs) = g[Len(seqs)]
<1> DEFINE f == CHOOSE h :
       h = [i \in 1 .. Len(seqs) |-> IF i = 1 THEN seqs[i] ELSE h[i - 1] \o seqs[i]]
<1>1. FlattenSeq(seqs) = f[Len(seqs)]
  BY DEF FlattenSeq
<1>2. f = [i \in 1 .. Len(seqs) |-> IF i = 1 THEN seqs[i] ELSE f[i - 1] \o seqs[i]]
  <2>1. \E h : h = [i \in 1 .. Len(seqs) |-> IF i = 1 THEN seqs[i] ELSE h[i - 1] \o seqs[i]]
    <3> DEFINE h == [i \in 1 .. Len(seqs) |-> g[i]]
               k == [i \in 1 .. Len(seqs) |-> IF i = 1 THEN seqs[i] ELSE h[i - 1] \o seqs[i]]
    <3>1. ASSUME NEW i \in 1 .. Len(seqs)
          PROVE  h[i] = k[i]
      <4>1. i = 1 \/ i - 1 \in 1 .. Len(seqs)
        OBVIOUS
      <4>2. QED
        BY <4>1
    <3>2. h = [i \in 1 .. Len(seqs) |-> h[i]] /\ k = [i \in 1 .. Len(seqs) |-> k[i]]
      OBVIOUS
    <3>3. h = k
      <4> HIDE DEF h, k
      <4>1. QED
        BY <3>1, <3>2
    <3>4. QED
      BY <3>3
  <2>2. QED
    BY <2>1, Zenon
<1> HIDE DEF f
<1> DEFINE Agree == {n \in Nat : n + 1 =< Len(seqs) => f[n + 1] = g[n + 1]}
<1>3. 0 \in Agree
  BY <1>2
<1>4. ASSUME NEW n \in Nat, n \in Agree
      PROVE  n + 1 \in Agree
  <2>1. SUFFICES ASSUME (n + 1) + 1 =< Len(seqs)
                 PROVE  f[(n + 1) + 1] = g[(n + 1) + 1]
    OBVIOUS
  <2>2. f[n + 1] = g[n + 1]
    BY <1>4, <2>1
  <2> DEFINE i == (n + 1) + 1
  <2>3. i \in 1 .. Len(seqs) /\ i # 1 /\ i - 1 = n + 1
    BY <2>1
  <2> HIDE DEF i
  <2>4. f[i] = f[i - 1] \o seqs[i]
    BY <1>2, <2>3
  <2>5. g[i] = g[i - 1] \o seqs[i]
    BY <2>3
  <2>6. QED
    BY <2>2, <2>3, <2>4, <2>5 DEF i
<1>5. Nat \subseteq Agree
  <2> HIDE DEF Agree
  <2>1. QED
    BY <1>3, <1>4, SetInduction
<1>6. f[Len(seqs)] = g[Len(seqs)]
  <2>1. PICK n \in Nat : n + 1 = Len(seqs)
    <3>1. Len(seqs) - 1 \in Nat /\ (Len(seqs) - 1) + 1 = Len(seqs)
      OBVIOUS
    <3>2. QED
      BY <3>1
  <2>2. n \in Agree
    BY <1>5
  <2>3. f[n + 1] = g[n + 1]
    BY <2>1, <2>2
  <2>4. QED
    BY <2>1, <2>3
<1>7. QED
  BY <1>1, <1>6

(* A block of a sequence is a sequence of its elements. *)
LEMMA BlockTyped ==
  ASSUME NEW S, NEW s \in Seq(S), NEW a \in Nat, NEW z \in 0 .. Len(s)
  PROVE  SubSeq(s, a + 1, z) \in Seq(S)
<1>1. Len(s) \in Nat /\ z \in Nat /\ a + 1 \in Nat
  BY LenProperties
<1>2. \A k \in a + 1 .. z : k \in 1 .. Len(s)
  BY <1>1
<1>3. \A k \in a + 1 .. z : s[k] \in S
  BY <1>2, ElementOfSeq
<1>4. QED
  BY <1>1, <1>3, SubSeqProperties

(* The blocks of a sequence, one after the other, are the sequence again. *)
LEMMA FlattenBlocks ==
  ASSUME NEW S, NEW s \in Seq(S), NEW n \in Nat, NEW m \in 0 .. Len(s),
         NEW cut \in [0 .. n -> 0 .. m], cut[0] = 0, cut[n] = m,
         \A i \in 1 .. n : cut[i - 1] < cut[i],
         NEW seqs, seqs = [i \in 1 .. n |-> SubSeq(s, cut[i - 1] + 1, cut[i])]
  PROVE  FlattenSeq(seqs) = SubSeq(s, 1, m)
<1>1. \A i \in 1 .. n : SubSeq(s, cut[i - 1] + 1, cut[i]) \in Seq(S)
  <2>1. ASSUME NEW i \in 1 .. n
        PROVE  SubSeq(s, cut[i - 1] + 1, cut[i]) \in Seq(S)
    <3>1. i - 1 \in 0 .. n /\ i \in 0 .. n
      OBVIOUS
    <3>2. cut[i - 1] \in Nat /\ cut[i] \in 0 .. Len(s) /\ Len(s) \in Nat
      BY <3>1, LenProperties
    <3>3. QED
      BY <3>2, BlockTyped
  <2>2. QED
    BY <2>1
<1>2. Len(seqs) = n
  BY <1>1
<1>3. CASE n = 0
  <2>1. m = 0
    BY <1>3
  <2>2. FlattenSeq(seqs) = seqs
    BY <1>2, <1>3 DEF FlattenSeq
  <2>3. seqs = << >>
    BY <1>3
  <2>4. SubSeq(s, 1, m) = << >>
    BY <2>1, SubSeqEmpty
  <2>5. QED
    BY <2>2, <2>3, <2>4
<1>4. CASE n # 0
  <2> DEFINE g == [i \in 1 .. n |-> SubSeq(s, 1, cut[i])]
  <2>1. \A i \in 1 .. n : g[i] = SubSeq(s, 1, cut[i])
    OBVIOUS
  <2> HIDE DEF g
  <2>2. ASSUME NEW i \in 1 .. n
        PROVE  g[i] = IF i = 1 THEN seqs[i] ELSE g[i - 1] \o seqs[i]
    <3>1. seqs[i] = SubSeq(s, cut[i - 1] + 1, cut[i])
      OBVIOUS
    <3>2. CASE i = 1
      <4>1. cut[i - 1] + 1 = 1
        BY <3>2
      <4>2. QED
        BY <2>1, <3>1, <3>2, <4>1
    <3>3. CASE i # 1
      <4>1. i - 1 \in 1 .. n /\ i - 1 \in 0 .. n /\ i \in 0 .. n
        BY <3>3
      <4>2. Len(s) \in Nat
        BY LenProperties
      <4>3. cut[i - 1] \in 0 .. m /\ cut[i] \in 0 .. m /\ cut[i - 1] < cut[i]
        BY <4>1
      <4> DEFINE a == cut[i - 1]
                 z == cut[i]
      <4>4. a \in 0 .. m /\ z \in 0 .. m /\ a < z
        BY <4>3
      <4>5. SubSeq(s, 1, cut[i - 1]) \o SubSeq(s, cut[i - 1] + 1, cut[i]) = SubSeq(s, 1, cut[i])
        <5> HIDE DEF a, z
        <5>1. a \in 1 - 1 .. Len(s) /\ z \in a .. Len(s) /\ 1 \in 1 .. Len(s) + 1
          BY <4>2, <4>4
        <5>2. SubSeq(s, 1, a) \o SubSeq(s, a + 1, z) = SubSeq(s, 1, z)
          BY <5>1, ConcatAdjacentSubSeq, Zenon
        <5>3. QED
          BY <5>2, Zenon DEF a, z
      <4>6. g[i - 1] = SubSeq(s, 1, cut[i - 1]) /\ g[i] = SubSeq(s, 1, cut[i])
        BY <2>1, <4>1
      <4>7. QED
        BY <3>1, <3>3, <4>5, <4>6
    <3>4. QED
      BY <3>2, <3>3
  <2>3. FlattenSeq(seqs) = g[n]
    <3>1. Len(seqs) \in Nat \ {0}
      BY <1>2, <1>4
    <3>2. \A i \in 1 .. Len(seqs) : g[i] = IF i = 1 THEN seqs[i] ELSE g[i - 1] \o seqs[i]
      BY <1>2, <2>2
    <3>3. FlattenSeq(seqs) = g[Len(seqs)]
      BY <3>1, <3>2, FlattenSeqIs
    <3>4. QED
      BY <1>2, <3>3
  <2>4. g[n] = SubSeq(s, 1, m)
    <3>1. n \in 1 .. n
      BY <1>4
    <3>2. QED
      BY <2>1, <3>1
  <2>5. QED
    BY <2>3, <2>4
<1>5. QED
  BY <1>3, <1>4

(* One element more of a sequence. *)
LEMMA SubSeqAppend ==
  ASSUME NEW S, NEW s \in Seq(S), NEW n \in 0 .. Len(s) - 1, NEW m \in 1 .. n + 1
  PROVE  Append(SubSeq(s, m, n), s[n + 1]) = SubSeq(s, m, n + 1)
<1>1. Len(s) \in Nat /\ m \in 1 .. Len(s) /\ n + 1 \in m .. Len(s) /\ (n + 1) - 1 = n
  BY LenProperties
<1>2. SubSeq(s, m, n + 1) = SubSeq(s, m, n) \o << s[n + 1] >>
  BY <1>1, SubSeqRecursiveSecond
<1>3. SubSeq(s, m, n) \in Seq(S) /\ s[n + 1] \in S
  <2>1. \A i \in m .. n : s[i] \in S
    BY <1>1, ElementOfSeq
  <2>2. s[n + 1] \in S
    BY <1>1, ElementOfSeq
  <2>3. QED
    BY <2>1, <2>2, SubSeqProperties
<1>4. QED
  BY <1>2, <1>3, AppendIsConcat
-----------------------------------------------------------------------------
(* The loop.                                                               *)

(* LoadTypeOK and Result on what a single row is. *)
LEMMA RowsTyped ==
  ASSUME LoadTypeOK, read < Len(rows)
  PROVE  /\ Len(rows) \in Nat /\ read \in Nat /\ read + 1 \in 1 .. Len(rows)
         /\ Len(order) \in Nat
         /\ \A k \in 1 .. Len(rows) : rows[k] \in Row /\ rows[k].host \in Nat
         /\ \A i \in 1 .. Len(order) : order[i] \in Nat
<1>1. Len(rows) \in Nat /\ Len(order) \in Nat
  BY LenProperties DEF LoadTypeOK
<1>2. \A k \in 1 .. Len(rows) : rows[k] \in Row
  BY ElementOfSeq DEF LoadTypeOK
<1>3. \A k \in 1 .. Len(rows) : rows[k].host \in Nat
  BY <1>2, HostsAssumption DEF Row
<1>4. \A i \in 1 .. Len(order) : order[i] \in Nat
  BY ElementOfSeq, HostsAssumption DEF LoadTypeOK
<1>5. QED
  BY <1>1, <1>2, <1>3, <1>4 DEF LoadTypeOK

LEMMA InitLoad == LoadInit => LoadInv
<1>1. SUFFICES ASSUME LoadInit
               PROVE  LoadInv
  OBVIOUS
<1>2. PICK n \in 0 .. MaxRows : rows \in [1 .. n -> Row]
  BY <1>1 DEF LoadInit, BoundedSeq, SeqOf
<1>3. n \in Nat
  BY <1>2, MaxRowsAssumption
<1>4. rows \in Seq(Row)
  BY <1>2, <1>3
<1>5. order = << >> /\ Len(order) = 0 /\ order \in Seq(Hosts) /\ read = 0
  BY <1>1 DEF LoadInit
<1>6. LoadTypeOK
  <2>1. Len(rows) \in Nat
    BY <1>4, LenProperties
  <2>2. DOMAIN domainMap = {} /\ Range(order) = {}
    BY <1>1 DEF LoadInit, Range
  <2>3. QED
    BY <1>1, <1>4, <1>5, <2>1, <2>2 DEF LoadInit, LoadTypeOK
<1>7. IsCut([i \in 0 .. 0 |-> 0])
  BY <1>5 DEF IsCut
<1>8. Ascending /\ Result(rows) /\ GroupedInOrder
  BY <1>1, <1>5 DEF LoadInit, Ascending, GroupedInOrder
<1>9. QED
  BY <1>6, <1>7, <1>8 DEF LoadInv

(* The rows come in the order of their hosts: a host met before is the last
   one, and a new one is beyond all. *)
LEMMA NextHost ==
  ASSUME LoadTypeOK, Result(rows), Ascending, NEW cut, IsCut(cut), read < Len(rows),
         NEW i \in 1 .. Len(order)
  PROVE  /\ cut[Len(order) - 1] \in 0 .. read - 1 /\ read \in 1 .. Len(rows)
         /\ rows[read + 1].host = order[i] => i = Len(order)
         /\ order[i] =< rows[read + 1].host
         /\ rows[read].host = order[Len(order)]
<1> DEFINE n == Len(order)
<1>1. /\ Len(rows) \in Nat /\ read \in Nat /\ n \in Nat \ {0}
      /\ \A k \in 1 .. Len(rows) : rows[k].host \in Nat
      /\ \A j \in 1 .. n : order[j] \in Nat
  BY RowsTyped
<1>2. /\ n \in 1 .. n /\ n - 1 \in 0 .. n
      /\ cut[n - 1] \in 0 .. read /\ cut[n - 1] < cut[n] /\ cut[n] = read
      /\ \A k \in cut[n - 1] + 1 .. cut[n] : rows[k].host = order[n]
  <2>1. n \in 1 .. n /\ n - 1 \in 0 .. n
    BY <1>1
  <2>2. /\ cut \in [0 .. n -> 0 .. read] /\ cut[n] = read
        /\ cut[n - 1] < cut[n]
        /\ \A k \in cut[n - 1] + 1 .. cut[n] : rows[k].host = order[n]
    BY <2>1 DEF IsCut
  <2> HIDE DEF n
  <2>3. QED
    BY <2>1, <2>2
<1>3. read \in 1 .. Len(rows) /\ read \in cut[n - 1] + 1 .. cut[n]
  BY <1>1, <1>2
<1>4. rows[read].host = order[n]
  BY <1>2, <1>3
<1>5. order[n] =< rows[read + 1].host
  <2>1. read \in DOMAIN rows /\ read + 1 \in DOMAIN rows /\ read < read + 1
    BY <1>1, <1>3, LenProperties DEF LoadTypeOK
  <2>2. Before(rows[read], rows[read + 1])
    BY <2>1 DEF Result
  <2>3. rows[read].host \in Nat /\ rows[read + 1].host \in Nat
    BY <1>1, <1>3
  <2>4. QED
    BY <1>4, <2>2, <2>3 DEF Before
<1>6. order[i] = order[n] \/ order[i] < order[n]
  BY <1>1, <1>2 DEF Ascending
<1>7. i # n => order[i] < order[n]
  BY <1>1, <1>2 DEF Ascending
<1>8. order[i] \in Nat /\ order[n] \in Nat /\ rows[read + 1].host \in Nat
  BY <1>1, <1>2
<1>9. cut[n - 1] \in 0 .. read - 1
  BY <1>1, <1>2
<1>10. rows[read + 1].host = order[i] => i = n
  BY <1>5, <1>7, <1>8
<1>11. order[i] =< rows[read + 1].host
  BY <1>5, <1>6, <1>8
<1>12. QED
  BY <1>3, <1>4, <1>9, <1>10, <1>11

(* Reading a row keeps the types. *)
LEMMA ScanTyped ==
  ASSUME LoadTypeOK, ScanRow
  PROVE  LoadTypeOK'
<1> DEFINE r == rows[read + 1]
<1>1. read < Len(rows) /\ pc = "loop" /\ UNCHANGED <<rows, pc, configs>> /\ read' = read + 1
  BY DEF ScanRow
<1>2. Len(rows) \in Nat /\ read \in Nat /\ r \in Row /\ r.host \in Hosts
  BY <1>1, RowsTyped DEF Row
<1>3. Entry(r.host) \in Seq(Row) /\ Append(Entry(r.host), r) \in Seq(Row)
  <2>1. Entry(r.host) \in Seq(Row)
    BY EmptySeq DEF Entry, LoadTypeOK
  <2>2. QED
    BY <1>2, <2>1, AppendProperties
<1>4. domainMap' = [h \in DOMAIN domainMap \cup {r.host} |->
                      IF h = r.host THEN Append(Entry(h), r) ELSE domainMap[h]]
  BY DEF ScanRow
<1>5. \A h \in DOMAIN domainMap' : domainMap'[h] \in Seq(Row)
  BY <1>3, <1>4 DEF LoadTypeOK
<1>6. order' \in Seq(Hosts) /\ DOMAIN domainMap' = Range(order')
  <2>1. CASE r.host \in DOMAIN domainMap
    BY <1>4, <2>1 DEF ScanRow, LoadTypeOK
  <2>2. CASE r.host \notin DOMAIN domainMap
    <3>1. order' = Append(order, r.host)
      BY <2>2 DEF ScanRow
    <3>2. order \in Seq(Hosts)
      BY DEF LoadTypeOK
    <3>3. order' \in Seq(Hosts)
      BY <1>2, <3>1, <3>2, AppendProperties
    <3>4. Range(order') = Range(order) \cup {r.host}
      <4>1. /\ Len(order) \in Nat /\ Len(order') = Len(order) + 1
            /\ \A j \in 1 .. Len(order) : order'[j] = order[j]
            /\ order'[Len(order) + 1] = r.host
        BY <1>2, <3>1, <3>2, AppendProperties, LenProperties
      <4>2. /\ Range(order) = {order[j] : j \in 1 .. Len(order)}
            /\ Range(order') = {order'[j] : j \in 1 .. Len(order')}
        BY <3>2, <3>3, RangeEquality
      <4>3. 1 .. Len(order') = 1 .. Len(order) \cup {Len(order) + 1}
        BY <4>1
      <4>4. QED
        BY <4>1, <4>2, <4>3
    <3>5. QED
      BY <1>4, <3>3, <3>4 DEF LoadTypeOK
  <2>3. QED
    BY <2>1, <2>2
<1>7. QED
  BY <1>1, <1>2, <1>5, <1>6 DEF LoadTypeOK

(* Reading a row of the host read last: its block grows by that row. *)
LEMMA ScanSameHost ==
  ASSUME LoadTypeOK, Result(rows), Ascending, NEW cut, IsCut(cut), ScanRow,
         NEW i \in 1 .. Len(order), rows[read + 1].host = order[i]
  PROVE  Ascending' /\ \E c : IsCut(c)'
<1> DEFINE n == Len(order)
           r == rows[read + 1]
           c == [cut EXCEPT ![n] = read + 1]
<1>1. read < Len(rows) /\ UNCHANGED rows /\ read' = read + 1
  BY DEF ScanRow
<1>2. /\ Len(rows) \in Nat /\ read \in Nat /\ n \in Nat \ {0} /\ rows \in Seq(Row)
      /\ \A j \in 1 .. n : order[j] \in Nat
  BY <1>1, RowsTyped DEF LoadTypeOK
<1>3. i = n /\ r.host = order[n] /\ cut[n - 1] \in 0 .. read - 1
  BY <1>1, NextHost
<1>4. order[n] \in DOMAIN domainMap
  BY <1>2, RangeEquality DEF LoadTypeOK
<1>5. /\ order' = order
      /\ domainMap' = [domainMap EXCEPT ![order[n]] = Append(@, r)]
  BY <1>3, <1>4 DEF ScanRow, Entry
<1>6. cut \in [0 .. n -> 0 .. read] /\ cut[0] = 0 /\ cut[n] = read
  BY DEF IsCut
<1>7. c \in [0 .. n -> 0 .. read + 1] /\ c[0] = 0 /\ c[n] = read + 1
  BY <1>2, <1>6
<1>8. ASSUME NEW j \in 1 .. n
      PROVE  /\ c[j - 1] < c[j]
             /\ domainMap'[order[j]] = SubSeq(rows, c[j - 1] + 1, c[j])
             /\ \A k \in c[j - 1] + 1 .. c[j] : rows[k].host = order[j]
  <2>1. /\ cut[j - 1] < cut[j]
        /\ domainMap[order[j]] = SubSeq(rows, cut[j - 1] + 1, cut[j])
        /\ \A k \in cut[j - 1] + 1 .. cut[j] : rows[k].host = order[j]
    BY DEF IsCut
  <2>2. order[j] \in DOMAIN domainMap
    BY <1>2, RangeEquality DEF LoadTypeOK
  <2>3. j - 1 \in 0 .. n /\ j \in 0 .. n /\ j - 1 # n
    BY <1>2
  <2>4. c[j - 1] = cut[j - 1]
    BY <1>6, <2>3
  <2>5. CASE j = n
    <3>1. c[j] = read + 1
      BY <1>7, <2>5
    <3>2. domainMap'[order[j]] = Append(SubSeq(rows, cut[n - 1] + 1, read), rows[read + 1])
      BY <1>4, <1>5, <1>6, <2>1, <2>5
    <3>3. Append(SubSeq(rows, cut[n - 1] + 1, read), rows[read + 1])
            = SubSeq(rows, cut[n - 1] + 1, read + 1)
      <4>1. read \in 0 .. Len(rows) - 1 /\ cut[n - 1] + 1 \in 1 .. read + 1
        BY <1>1, <1>2, <1>3
      <4>2. QED
        BY <1>2, <4>1, SubSeqAppend
    <3>4. \A k \in cut[n - 1] + 1 .. read + 1 : rows[k].host = order[n]
      <4>1. \A k \in cut[n - 1] + 1 .. read : rows[k].host = order[n]
        BY <1>6, <2>1, <2>5
      <4>2. QED
        BY <1>2, <1>3, <4>1
    <3>5. cut[n - 1] < read + 1
      BY <1>2, <1>3
    <3>6. QED
      BY <2>4, <2>5, <3>1, <3>2, <3>3, <3>4, <3>5
  <2>6. CASE j # n
    <3>1. c[j] = cut[j]
      BY <1>6, <2>3, <2>6
    <3>2. order[j] # order[n]
      BY <1>2, <2>6 DEF Ascending
    <3>3. domainMap'[order[j]] = domainMap[order[j]]
      BY <1>5, <2>2, <3>2
    <3>4. QED
      BY <2>1, <2>4, <3>1, <3>3
  <2>7. QED
    BY <2>5, <2>6
<1>9. \E d : IsCut(d)'
  <2> HIDE DEF c
  <2>1. PICK d : d = c
    OBVIOUS
  <2>2. IsCut(d)'
    BY <1>1, <1>5, <1>7, <1>8, <2>1 DEF IsCut
  <2>3. QED
    BY <2>2
<1>10. Ascending'
  BY <1>5 DEF Ascending
<1>11. QED
  BY <1>9, <1>10

(* Reading a row of a new host: a block of one row more. *)
LEMMA ScanNewHost ==
  ASSUME LoadTypeOK, Result(rows), Ascending, NEW cut, IsCut(cut), ScanRow,
         \A i \in 1 .. Len(order) : rows[read + 1].host # order[i]
  PROVE  Ascending' /\ \E c : IsCut(c)'
<1> DEFINE n == Len(order)
           r == rows[read + 1]
           c == [j \in 0 .. n + 1 |-> IF j = n + 1 THEN read + 1 ELSE cut[j]]
<1>1. read < Len(rows) /\ UNCHANGED rows /\ read' = read + 1
  BY DEF ScanRow
<1>2. /\ Len(rows) \in Nat /\ read \in Nat /\ n \in Nat /\ rows \in Seq(Row)
      /\ \A j \in 1 .. n : order[j] \in Nat
      /\ r \in Row /\ r.host \in Nat
  BY <1>1, RowsTyped DEF LoadTypeOK
<1>3. r.host \notin DOMAIN domainMap
  <2>1. DOMAIN domainMap = {order[j] : j \in 1 .. n}
    BY RangeEquality DEF LoadTypeOK
  <2>2. QED
    BY <2>1
<1>4. /\ order' = Append(order, r.host)
      /\ domainMap' = [h \in DOMAIN domainMap \cup {r.host} |->
                         IF h = r.host THEN Append(<< >>, r) ELSE domainMap[h]]
  BY <1>3 DEF ScanRow, Entry
<1>5. /\ Len(order') = n + 1 /\ order'[n + 1] = r.host
      /\ \A j \in 1 .. n : order'[j] = order[j]
  <2>1. order \in Seq(Hosts) /\ r.host \in Hosts
    BY <1>2 DEF LoadTypeOK, Row
  <2>2. QED
    BY <1>4, <2>1, AppendProperties
<1>6. cut \in [0 .. n -> 0 .. read] /\ cut[0] = 0 /\ cut[n] = read
  BY DEF IsCut
<1>7. /\ c \in [0 .. n + 1 -> 0 .. read + 1] /\ c[0] = 0 /\ c[n + 1] = read + 1
      /\ \A j \in 0 .. n : c[j] = cut[j]
  BY <1>2, <1>6
<1>8. ASSUME NEW j \in 1 .. n + 1
      PROVE  /\ c[j - 1] < c[j]
             /\ domainMap'[order'[j]] = SubSeq(rows, c[j - 1] + 1, c[j])
             /\ \A k \in c[j - 1] + 1 .. c[j] : rows[k].host = order'[j]
  <2>1. CASE j = n + 1
    <3>1. c[j] = read + 1 /\ c[j - 1] = read
      BY <1>2, <1>6, <1>7, <2>1
    <3>2. domainMap'[r.host] = Append(<< >>, r)
      BY <1>4
    <3>3. SubSeq(rows, read + 1, read) = << >>
      BY <1>2, SubSeqEmpty
    <3>4. Append(SubSeq(rows, read + 1, read), rows[read + 1]) = SubSeq(rows, read + 1, read + 1)
      <4>1. read \in 0 .. Len(rows) - 1 /\ read + 1 \in 1 .. read + 1
        BY <1>1, <1>2
      <4>2. QED
        BY <1>2, <4>1, SubSeqAppend
    <3>5. \A k \in read + 1 .. read + 1 : rows[k].host = r.host
      BY <1>2
    <3>6. order'[j] = r.host
      BY <1>5, <2>1
    <3>7. read < read + 1
      BY <1>2
    <3> HIDE DEF c
    <3>8. QED
      BY <3>1, <3>2, <3>3, <3>4, <3>5, <3>6, <3>7
  <2>2. CASE j # n + 1
    <3>1. j \in 1 .. n /\ j - 1 \in 0 .. n /\ j \in 0 .. n
      BY <1>2, <2>2
    <3>2. /\ cut[j - 1] < cut[j]
          /\ domainMap[order[j]] = SubSeq(rows, cut[j - 1] + 1, cut[j])
          /\ \A k \in cut[j - 1] + 1 .. cut[j] : rows[k].host = order[j]
      BY <3>1 DEF IsCut
    <3>3. c[j] = cut[j] /\ c[j - 1] = cut[j - 1] /\ order'[j] = order[j]
      BY <1>5, <1>7, <3>1
    <3>4. order[j] \in DOMAIN domainMap
      BY <3>1, RangeEquality DEF LoadTypeOK
    <3>5. domainMap'[order[j]] = domainMap[order[j]]
      BY <1>3, <1>4, <3>4
    <3>6. QED
      BY <3>2, <3>3, <3>5
  <2>3. QED
    BY <2>1, <2>2
<1>9. \E d : IsCut(d)'
  <2> HIDE DEF c
  <2>1. PICK d : d = c
    OBVIOUS
  <2>2. IsCut(d)'
    BY <1>1, <1>5, <1>7, <1>8, <2>1 DEF IsCut
  <2>3. QED
    BY <2>2
<1>10. Ascending'
  <2> HIDE DEF c
  <2>1. \A j \in 1 .. n : order[j] < r.host
    <3>1. \A j \in 1 .. n : order[j] =< r.host /\ r.host # order[j] /\ order[j] \in Nat
      BY <1>1, <1>2, NextHost
    <3>2. QED
      BY <1>2, <3>1
  <2>2. \A j, k \in 1 .. n : j < k => order[j] < order[k]
    BY DEF Ascending
  <2>3. \A j, k \in 1 .. n + 1 : j < k => j \in 1 .. n /\ (k \in 1 .. n \/ k = n + 1)
    BY <1>2
  <2>4. \A j, k \in 1 .. n + 1 : j < k => order'[j] < order'[k]
    <3> HIDE DEF n, r
    <3>1. QED
      BY <1>5, <2>1, <2>2, <2>3
  <2>5. QED
    BY <1>5, <2>4 DEF Ascending
<1>11. QED
  BY <1>9, <1>10

(* What the second loop makes of the blocks. *)
LEMMA ReturnGrouped ==
  ASSUME LoadInv, configs' = Configs, UNCHANGED <<rows, read>>
  PROVE  GroupedInOrder'
<1> DEFINE n == Len(order)
<1>1. PICK cut : IsCut(cut)
  BY DEF LoadInv
<1>2. /\ rows \in Seq(Row) /\ Len(rows) \in Nat /\ read \in 0 .. Len(rows)
      /\ order \in Seq(Hosts) /\ n \in Nat /\ DOMAIN order = 1 .. n
  BY LenProperties DEF LoadInv, LoadTypeOK
<1>3. /\ DOMAIN configs' = 1 .. n
      /\ \A i \in 1 .. n : /\ configs'[i].host = order[i]
                           /\ configs'[i].origins = domainMap[order[i]]
  BY <1>2 DEF Configs
<1>4. /\ cut \in [0 .. n -> 0 .. read] /\ cut[0] = 0 /\ cut[n] = read
      /\ \A i \in 1 .. n :
           /\ cut[i - 1] < cut[i]
           /\ domainMap[order[i]] = SubSeq(rows, cut[i - 1] + 1, cut[i])
           /\ \A k \in cut[i - 1] + 1 .. cut[i] : rows[k].host = order[i]
  BY <1>1 DEF IsCut
<1>5. \A i, j \in 1 .. n : i < j => configs'[i].host < configs'[j].host
  BY <1>3 DEF LoadInv, Ascending
<1>6. ASSUME NEW i \in 1 .. n
      PROVE  /\ configs'[i].origins # << >>
             /\ \A k \in DOMAIN configs'[i].origins :
                  configs'[i].origins[k].host = configs'[i].host
  <2> DEFINE a == cut[i - 1]
             z == cut[i]
  <2>1. a \in 0 .. read /\ z \in 0 .. read /\ a < z
    <3>1. i \in 0 .. n /\ i - 1 \in 0 .. n
      BY <1>2
    <3>2. QED
      BY <1>4, <3>1
  <2>2. \A k \in a + 1 .. z : rows[k].host = order[i]
    BY <1>4
  <2>3. configs'[i].origins = SubSeq(rows, a + 1, z)
    BY <1>3, <1>4
  <2> HIDE DEF a, z
  <2>4. \A k \in a + 1 .. z : rows[k] \in Row
    BY <1>2, <2>1, ElementOfSeq
  <2>5. /\ SubSeq(rows, a + 1, z) \in Seq(Row)
        /\ Len(SubSeq(rows, a + 1, z)) = z - a
        /\ \A k \in 1 .. z - a : SubSeq(rows, a + 1, z)[k] = rows[a + k]
    <3>1. /\ SubSeq(rows, a + 1, z) \in Seq(Row)
          /\ Len(SubSeq(rows, a + 1, z)) = z - (a + 1) + 1
          /\ \A k \in 1 .. z - (a + 1) + 1 : SubSeq(rows, a + 1, z)[k] = rows[(a + 1) + k - 1]
      BY <1>2, <2>1, <2>4, SubSeqProperties
    <3>2. z - (a + 1) + 1 = z - a /\ \A k \in 1 .. z - a : (a + 1) + k - 1 = a + k
      BY <1>2, <2>1
    <3>3. QED
      BY <3>1, <3>2
  <2>6. DOMAIN SubSeq(rows, a + 1, z) = 1 .. z - a /\ z - a > 0
    BY <1>2, <2>1, <2>5, LenProperties
  <2>7. \A k \in 1 .. z - a : a + k \in a + 1 .. z
    BY <1>2, <2>1
  <2>8. PICK q : q = SubSeq(rows, a + 1, z)
    OBVIOUS
  <2>9. /\ q \in Seq(Row) /\ Len(q) = z - a /\ DOMAIN q = 1 .. z - a
        /\ \A k \in 1 .. z - a : q[k] = rows[a + k]
    BY <2>5, <2>6, <2>8
  <2>10. q # << >>
    <3>1. Len(q) # 0
      BY <2>6, <2>9
    <3>2. QED
      BY <2>9, <3>1, EmptySeq, Zenon
  <2>11. \A k \in 1 .. z - a : q[k].host = order[i]
    BY <2>2, <2>7, <2>9
  <2>12. configs'[i].origins = q /\ configs'[i].host = order[i]
    BY <1>3, <2>3, <2>8
  <2>13. QED
    BY <2>9, <2>10, <2>11, <2>12, Zenon
<1>7. Flattened' = SubSeq(rows, 1, read)
  <2> DEFINE seqs == [i \in 1 .. n |-> SubSeq(rows, cut[i - 1] + 1, cut[i])]
  <2>1. Flattened' = FlattenSeq(seqs)
    <3>1. [i \in DOMAIN configs' |-> configs'[i].origins] = seqs
      BY <1>3, <1>4
    <3>2. QED
      BY <3>1 DEF Flattened
  <2>2. FlattenSeq(seqs) = SubSeq(rows, 1, read)
    BY <1>2, <1>4, FlattenBlocks
  <2>3. QED
    BY <2>1, <2>2
<1>8. QED
  BY <1>3, <1>5, <1>6, <1>7 DEF GroupedInOrder

LEMMA NextLoad ==
  ASSUME LoadInv, [LoadNext]_loadVars
  PROVE  LoadInv'
<1>1. CASE ScanRow
  <2>1. LoadTypeOK'
    BY <1>1, ScanTyped DEF LoadInv
  <2>2. PICK cut : IsCut(cut)
    BY DEF LoadInv
  <2>3. Ascending' /\ \E c : IsCut(c)'
    <3>1. CASE \E i \in 1 .. Len(order) : rows[read + 1].host = order[i]
      BY <1>1, <2>2, <3>1, ScanSameHost DEF LoadInv
    <3>2. CASE \A i \in 1 .. Len(order) : rows[read + 1].host # order[i]
      BY <1>1, <2>2, <3>2, ScanNewHost DEF LoadInv
    <3>3. QED
      BY <3>1, <3>2
  <2>4. Result(rows)' /\ GroupedInOrder'
    BY <1>1 DEF ScanRow, LoadInv, Result, GroupedInOrder
  <2>5. QED
    BY <2>1, <2>3, <2>4 DEF LoadInv
<1>2. CASE ScanError
  <2>1. pc = "loop" /\ pc' = "error" /\ UNCHANGED <<rows, read, order, domainMap, configs>>
    BY <1>2 DEF ScanError
  <2>2. LoadTypeOK' /\ Result(rows)' /\ Ascending' /\ GroupedInOrder'
    BY <2>1 DEF LoadInv, LoadTypeOK, Result, Ascending, GroupedInOrder
  <2>3. \E cut : IsCut(cut)'
    BY <2>1 DEF LoadInv, IsCut
  <2>4. QED
    BY <2>2, <2>3 DEF LoadInv
<1>3. CASE EndOfRows \/ ConnectionLost
  <2>1. pc' = "return" /\ configs' = Configs /\ UNCHANGED <<rows, read, order, domainMap>>
    BY <1>3 DEF EndOfRows, ConnectionLost
  <2>2. LoadTypeOK' /\ Result(rows)' /\ Ascending'
    BY <2>1 DEF LoadInv, LoadTypeOK, Result, Ascending
  <2>3. \E cut : IsCut(cut)'
    BY <2>1 DEF LoadInv, IsCut
  <2>4. GroupedInOrder'
    BY <2>1, ReturnGrouped
  <2>5. QED
    BY <2>2, <2>3, <2>4 DEF LoadInv
<1>4. CASE UNCHANGED loadVars
  <2>1. UNCHANGED <<rows, read, order, domainMap, pc, configs>>
    BY <1>4 DEF loadVars
  <2>2. LoadTypeOK' /\ Result(rows)' /\ Ascending' /\ GroupedInOrder'
    BY <2>1 DEF LoadInv, LoadTypeOK, Result, Ascending, GroupedInOrder, Flattened
  <2>3. \E cut : IsCut(cut)'
    BY <2>1 DEF LoadInv, IsCut
  <2>4. QED
    BY <2>2, <2>3 DEF LoadInv
<1>5. QED
  BY <1>1, <1>2, <1>3, <1>4 DEF LoadNext
-----------------------------------------------------------------------------
(* The inductive invariant of the loop. *)
THEOREM LoadInductive == LoadSpec => []LoadInv
BY InitLoad, NextLoad, PTL DEF LoadSpec

(* Type correctness of the loop, for results of any length. *)
THEOREM LoadTypeCorrect == LoadSpec => []LoadTypeOK
<1>1. LoadInv => LoadTypeOK
  BY DEF LoadInv
<1>2. QED
  BY <1>1, LoadInductive, PTL

(* The grouping loses, repeats and reorders no row that was read, whatever
   hosts the result has and wherever the reading ends. *)
THEOREM LoadGroups == LoadSpec => []GroupedInOrder
<1>1. LoadInv => GroupedInOrder
  BY DEF LoadInv
<1>2. QED
  BY <1>1, LoadInductive, PTL
=============================================================================
