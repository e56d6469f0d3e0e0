------------------------ MODULE NativeTransferProofs ------------------------
(***************************************************************************)
(* Proofs about the native transfer for every window, capacity and number  *)
(* of fragments and epochs: that it implements NativeDelivery, and what    *)
(* the two ends rely on for that.                                          *)
(*                                                                         *)
(* The invariant follows a message: while it is retained it is the only    *)
(* one of its number (SenderInv), a burst holds a true copy of its slot    *)
(* (GateInv), what the network carries is behind the sender (NetworkInv),  *)
(* what lies in a slot of the receiver was on the network (RInv), what was *)
(* taken is in the history, behind the window or, of a snapshot, not above *)
(* the newest (TakenInv, NewestInv), and only what was taken is            *)
(* acknowledged (LedgerInv).                                               *)
(***************************************************************************)
EXTENDS NativeTransfer, NumberLemmas, SequenceTheorems, TLAPS

-----------------------------------------------------------------------------
(***************************************************************************)
(* The receiving half of a session, for itself: every operation leaves a   *)
(* session that Worr_NativeRxSessionValidateV1 accepts, and never takes a  *)
(* message for committed that is not.                                      *)
(*                                                                         *)
(* The snapshot identities are a sequence, because the oldest is given up  *)
(* first; what matters is which identities it has.  So each operation on   *)
(* them is summed up once by what it does to their set.                    *)
(***************************************************************************)

(***************************************************************************)
(* The identities of the snapshots.                                        *)
(***************************************************************************)
Distinct(t) == \A j, k \in DOMAIN t : t[j].seq = t[k].seq => j = k

LEMMA RemovalLeaves ==
    ASSUME NEW S, NEW q \in Seq(S), NEW i \in DOMAIN q
    PROVE  /\ RemoveAt(q, i) \in Seq(S) /\ Len(RemoveAt(q, i)) = Len(q) - 1
           /\ \A j \in 1 .. Len(q) - 1 :
                  RemoveAt(q, i)[j] = IF j < i THEN q[j] ELSE q[j + 1]
<1> DEFINE p == RemoveAt(q, i)
           a == SubSeq(q, 1, i - 1)
           b == SubSeq(q, i + 1, Len(q))
<1>1. /\ a \in Seq(S) /\ Len(a) = i - 1
      /\ \A j \in 1 .. i - 1 : a[j] = q[j]
  OBVIOUS
<1>2. /\ b \in Seq(S) /\ Len(b) = Len(q) - i
      /\ \A j \in 1 .. Len(q) - i : b[j] = q[j + i]
  OBVIOUS
<1>3. p = a \o b
  BY DEF RemoveAt
<1> HIDE DEF a, b, p
<1>4. /\ p \in Seq(S) /\ Len(p) = Len(a) + Len(b)
      /\ \A j \in 1 .. Len(p) :
             p[j] = IF j <= Len(a) THEN a[j] ELSE b[j - Len(a)]
  BY <1>1, <1>2, <1>3, ConcatProperties
<1>5. Len(p) = Len(q) - 1
  BY <1>1, <1>2, <1>4
<1>6. ASSUME NEW j \in 1 .. Len(p)
      PROVE  p[j] = IF j < i THEN q[j] ELSE q[j + 1]
  <2>1. CASE j < i
    BY <1>1, <1>4, <2>1
  <2>2. CASE ~(j < i)
    <3>1. /\ ~(j <= i - 1) /\ j - (i - 1) \in 1 .. Len(q) - i
          /\ (j - (i - 1)) + i = j + 1
      BY <1>5, <2>2
    <3> QED
      BY <1>1, <1>2, <1>4, <2>2, <3>1
  <2> QED
    BY <2>1, <2>2
<1> QED
  BY <1>4, <1>5, <1>6 DEF p

\* Without one of different identities the others are left.
LEMMA RemovalForgets ==
    ASSUME NEW t \in Seq(Identity), Distinct(t), NEW i \in DOMAIN t
    PROVE  /\ RemoveAt(t, i) \in Seq(Identity) /\ Distinct(RemoveAt(t, i))
           /\ Len(RemoveAt(t, i)) = Len(t) - 1
           /\ \A y \in Range(t) : y # t[i] => y \in Range(RemoveAt(t, i))
           /\ \A y \in Range(RemoveAt(t, i)) :
                  y \in Range(t) /\ y.seq # t[i].seq
<1> DEFINE p == RemoveAt(t, i)
<1>1. /\ p \in Seq(Identity) /\ Len(p) = Len(t) - 1
      /\ \A j \in 1 .. Len(t) - 1 : p[j] = IF j < i THEN t[j] ELSE t[j + 1]
  BY RemovalLeaves
<1> HIDE DEF p
<1>2. DOMAIN p = 1 .. Len(t) - 1 /\ DOMAIN t = 1 .. Len(t) /\ Len(t) \in Nat
      /\ i \in 1 .. Len(t)
  BY <1>1
<1>3. \A j \in DOMAIN p : /\ j \in DOMAIN t /\ j + 1 \in DOMAIN t
                          /\ j \in Int /\ i \in Int
                          /\ p[j] = IF j < i THEN t[j] ELSE t[j + 1]
  BY <1>1, <1>2
<1>4. \A j \in DOMAIN p : p[j].seq # t[i].seq
  <2> TAKE j \in DOMAIN p
  <2>1. CASE j < i
    BY <1>3, <2>1 DEF Distinct
  <2>2. CASE ~(j < i)
    <3>1. p[j] = t[j + 1] /\ j + 1 # i /\ j + 1 \in DOMAIN t
      BY <1>3, <2>2
    <3> QED
      BY <3>1 DEF Distinct
  <2> QED
    BY <2>1, <2>2
<1>5. Distinct(p)
  <2> SUFFICES ASSUME NEW j \in DOMAIN p, NEW k \in DOMAIN p,
                      p[j].seq = p[k].seq
               PROVE  j = k
    BY DEF Distinct
  <2> DEFINE m == IF j < i THEN j ELSE j + 1
             n == IF k < i THEN k ELSE k + 1
  <2>1. m \in DOMAIN t /\ n \in DOMAIN t /\ t[m].seq = t[n].seq
    BY <1>3
  <2>2. m = n
    BY <2>1 DEF Distinct
  <2> QED
    BY <1>3, <2>2
<1>6. \A y \in Range(t) : y # t[i] => y \in Range(p)
  <2> SUFFICES ASSUME NEW k \in DOMAIN t, t[k] # t[i]
               PROVE  \E j \in DOMAIN p : p[j] = t[k]
    BY DEF Range
  <2>1. CASE k < i
    <3>1. k \in DOMAIN p
      BY <1>2, <2>1
    <3> QED
      BY <1>3, <2>1, <3>1
  <2>2. CASE k > i
    <3>1. k - 1 \in DOMAIN p /\ ~(k - 1 < i) /\ k - 1 + 1 = k
      BY <1>2, <2>2
    <3>2. p[k - 1] = t[k]
      BY <1>3, <3>1
    <3> QED
      BY <3>1, <3>2
  <2>3. k # i
    OBVIOUS
  <2> QED
    BY <1>2, <2>1, <2>2, <2>3
<1>7. \A y \in Range(p) : y \in Range(t) /\ y.seq # t[i].seq
  BY <1>3, <1>4 DEF Range
<1> QED
  BY <1>1, <1>5, <1>6, <1>7 DEF p

LEMMA AppendRemembers ==
    ASSUME NEW t \in Seq(Identity), Distinct(t), NEW x \in Identity,
           \A y \in Range(t) : y.seq # x.seq
    PROVE  /\ Append(t, x) \in Seq(Identity) /\ Distinct(Append(t, x))
           /\ Len(Append(t, x)) = Len(t) + 1
           /\ Range(Append(t, x)) = Range(t) \cup {x}
<1> DEFINE p == Append(t, x)
<1>1. /\ p \in Seq(Identity) /\ Len(p) = Len(t) + 1 /\ p[Len(t) + 1] = x
      /\ \A j \in 1 .. Len(t) : p[j] = t[j]
      /\ DOMAIN p = 1 .. Len(t) + 1 /\ DOMAIN t = 1 .. Len(t)
      /\ Len(t) \in Nat
  OBVIOUS
<1> HIDE DEF p
<1>2. DOMAIN p = DOMAIN t \cup {Len(t) + 1} /\ Len(t) + 1 \notin DOMAIN t
  BY <1>1
<1>3. Range(p) = Range(t) \cup {x}
  BY <1>1, <1>2 DEF Range
<1>4. Distinct(p)
  BY <1>1, <1>2 DEF Distinct, Range
<1> QED
  BY <1>1, <1>3, <1>4 DEF p

\* The place that is given up.
LEMMA EvictedPlace ==
    ASSUME NEW t \in Seq(Identity), t # <<>>
    PROVE  /\ Evicted(t) \in DOMAIN t
           /\ (\E y \in Range(t) : ~y.committed) => ~t[Evicted(t)].committed
<1> DEFINE retries == {k \in DOMAIN t : ~t[k].committed}
<1>1. 1 \in DOMAIN t
  OBVIOUS
<1>2. CASE retries = {}
  <2>1. Evicted(t) = 1
    BY <1>2 DEF Evicted
  <2> QED
    BY <1>1, <1>2, <2>1 DEF Range
<1>3. CASE retries # {}
  <2>1. retries \subseteq Nat
    OBVIOUS
  <2>2. \E k \in retries : \A j \in retries : k <= j
    BY <1>3, <2>1, SmallestExists
  <2>3. Evicted(t) \in retries
    BY <1>3, <2>2 DEF Evicted
  <2> QED
    BY <2>3
<1> QED
  BY <1>2, <1>3


\* What Remember does to identities that are all different.
LEMMA RememberStores ==
    ASSUME NEW t \in Seq(Identity), NEW x \in Identity,
           Distinct(t), Len(t) <= Tombstones
    PROVE  LET u == Remember(t, x)
           IN  /\ u \in Seq(Identity) /\ Distinct(u) /\ Len(u) <= Tombstones
               /\ x \in Range(u)
               /\ \A y \in Range(u) : y = x \/ (y \in Range(t) /\ y.seq # x.seq)
               /\ \A y \in Range(t) :
                      /\ y.seq # x.seq /\ y.committed
                      /\ \A z \in Range(t) : z.committed => z = y
                      => y \in Range(u)
<1> DEFINE u == Remember(t, x)
           places == {k \in DOMAIN t : t[k].seq = x.seq}
<1>1. Len(t) \in Nat /\ Tombstones \in Nat /\ Tombstones >= 2
      /\ DOMAIN t = 1 .. Len(t)
  BY RxAssumption
<1> DEFINE Stored1(v) ==
        /\ v \in Seq(Identity) /\ Distinct(v) /\ Len(v) <= Tombstones
        /\ x \in Range(v)
        /\ \A y \in Range(v) : y = x \/ (y \in Range(t) /\ y.seq # x.seq)
        /\ \A y \in Range(t) :
               /\ y.seq # x.seq /\ y.committed
               /\ \A z \in Range(t) : z.committed => z = y
               => y \in Range(v)
<1>2. CASE places # {}
  <2> DEFINE i == CHOOSE k \in places : TRUE
             rest == RemoveAt(t, i)
  <2>1. i \in places
    BY <1>2
  <2>2. i \in DOMAIN t /\ t[i].seq = x.seq
    BY <2>1
  <2>3. u = Append(rest, x)
    BY <1>2 DEF Remember
  <2> HIDE DEF i
  <2>4. /\ rest \in Seq(Identity) /\ Distinct(rest) /\ Len(rest) = Len(t) - 1
        /\ \A y \in Range(t) : y # t[i] => y \in Range(rest)
        /\ \A y \in Range(rest) : y \in Range(t) /\ y.seq # t[i].seq
    BY <2>2, RemovalForgets
  <2> HIDE DEF rest, u
  <2>5. /\ u \in Seq(Identity) /\ Distinct(u) /\ Len(u) = Len(rest) + 1
        /\ Range(u) = Range(rest) \cup {x}
    BY <2>2, <2>3, <2>4, AppendRemembers
  <2>6. Stored1(u)
    BY <1>1, <2>2, <2>4, <2>5
  <2> QED
    BY <2>6 DEF u
<1>3. CASE places = {} /\ Len(t) < Tombstones
  <2>1. u = Append(t, x)
    BY <1>3 DEF Remember
  <2>2. \A y \in Range(t) : y.seq # x.seq
    BY <1>3 DEF Range
  <2> HIDE DEF u, places
  <2>3. /\ u \in Seq(Identity) /\ Distinct(u) /\ Len(u) = Len(t) + 1
        /\ Range(u) = Range(t) \cup {x}
    BY <2>1, <2>2, AppendRemembers
  <2>4. Stored1(u)
    BY <1>1, <1>3, <2>2, <2>3
  <2> QED
    BY <2>4 DEF u
<1>4. CASE places = {} /\ ~(Len(t) < Tombstones)
  <2> DEFINE i == Evicted(t)
             rest == RemoveAt(t, i)
  <2>1. u = Append(rest, x)
    BY <1>4 DEF Remember
  <2>2. \A y \in Range(t) : y.seq # x.seq
    BY <1>4 DEF Range
  <2>3. t # <<>>
    BY <1>1, <1>4
  <2>4. /\ i \in DOMAIN t
        /\ (\E y \in Range(t) : ~y.committed) => ~t[i].committed
    BY <2>3, EvictedPlace
  <2> HIDE DEF i, places
  <2>5. /\ rest \in Seq(Identity) /\ Distinct(rest) /\ Len(rest) = Len(t) - 1
        /\ \A y \in Range(t) : y # t[i] => y \in Range(rest)
        /\ \A y \in Range(rest) : y \in Range(t) /\ y.seq # t[i].seq
    BY <2>4, RemovalForgets
  <2> HIDE DEF rest, u
  <2>6. /\ u \in Seq(Identity) /\ Distinct(u) /\ Len(u) = Len(rest) + 1
        /\ Range(u) = Range(rest) \cup {x}
    BY <2>1, <2>2, <2>5, AppendRemembers
  <2>7. ASSUME NEW y \in Range(t), y.committed, \A z \in Range(t) : z.committed => z = y
        PROVE  y # t[i]
    <3>1. PICK k \in DOMAIN t : t[k] = y
      BY DEF Range
    <3>2. PICK j \in DOMAIN t : j # k
      <4>1. 1 \in DOMAIN t /\ 2 \in DOMAIN t
        BY <1>1, <1>4
      <4> QED
        BY <4>1
    <3>3. t[j] \in Range(t) /\ t[j] # y
      BY <3>1, <3>2 DEF Range, Distinct
    <3>4. ~t[j].committed
      BY <2>7, <3>3
    <3>5. ~t[i].committed
      BY <2>4, <3>3, <3>4
    <3> QED
      BY <2>7, <3>5
  <2>8. Stored1(u)
    BY <1>1, <2>2, <2>5, <2>6, <2>7
  <2> QED
    BY <2>8 DEF u
<1> QED
  BY <1>2, <1>3, <1>4


\* The identities of a session whose newest committed snapshot is n.
TombsFor(t, n) ==
    /\ t \in Seq(Identity) /\ Distinct(t) /\ Len(t) <= Tombstones
    /\ \A y \in Range(t) : y.seq >= n /\ (y.committed <=> y.seq = n)
    /\ n # 0 => CommittedAs(n) \in Range(t)

LEMMA RememberRetry ==
    ASSUME NEW n \in 0 .. MaxSeq, NEW t, TombsFor(t, n),
           NEW seq \in Sequence, seq > n
    PROVE  LET u == Remember(t, RetryOf(seq))
           IN  /\ TombsFor(u, n)
               /\ RetryOf(seq) \in Range(u)
               /\ Range(u) \subseteq Range(t) \cup {RetryOf(seq)}
<1> DEFINE u == Remember(t, RetryOf(seq))
           x == RetryOf(seq)
<1>1. x \in Identity /\ x.seq = seq /\ x.committed = FALSE
  BY DEF RetryOf, Identity
<1>2. MaxSeq \in Nat /\ n \in Nat /\ seq \in Nat
  BY SessionAssumption DEF Sequence
<1>3. /\ u \in Seq(Identity) /\ Distinct(u) /\ Len(u) <= Tombstones
      /\ x \in Range(u)
      /\ \A y \in Range(u) : y = x \/ (y \in Range(t) /\ y.seq # x.seq)
      /\ \A y \in Range(t) :
             /\ y.seq # x.seq /\ y.committed
             /\ \A z \in Range(t) : z.committed => z = y
             => y \in Range(u)
  BY <1>1, RememberStores DEF TombsFor
<1> HIDE DEF u
<1>4. \A y \in Range(u) : y.seq >= n /\ (y.committed <=> y.seq = n)
  BY <1>1, <1>2, <1>3 DEF TombsFor
<1>5. ASSUME n # 0 PROVE CommittedAs(n) \in Range(u)
  <2> DEFINE c == CommittedAs(n)
  <2>1. c \in Range(t) /\ c.committed /\ c.seq = n
    BY <1>5 DEF TombsFor, CommittedAs
  <2>2. \A z \in Range(t) : z.committed => z = c
    BY <2>1 DEF TombsFor, Distinct, Range
  <2>3. c.seq # x.seq
    BY <1>1, <1>2, <2>1
  <2> QED
    BY <1>3, <2>1, <2>2, <2>3
<1> HIDE DEF x
<1>6. TombsFor(u, n)
  BY <1>3, <1>4, <1>5 DEF TombsFor
<1> QED
  BY <1>3, <1>6 DEF u, x

LEMMA PrunedKeeps ==
    ASSUME NEW t \in Seq(Identity), Distinct(t), NEW seq
    PROVE  /\ Pruned(t, seq) \in Seq(Identity) /\ Distinct(Pruned(t, seq))
           /\ Len(Pruned(t, seq)) <= Len(t)
           /\ \A y : y \in Range(Pruned(t, seq)) <=>
                         y \in Range(t) /\ y.seq >= seq
<1> DEFINE N == Len(t)
           F(f) == [k \in 0 .. N |->
                       IF k = 0 THEN <<>>
                       ELSE IF t[k].seq >= seq THEN Append(f[k - 1], t[k])
                       ELSE f[k - 1]]
           kept == CHOOSE f : f = F(f)
           h == [k \in 1 .. N |-> [v \in Seq(Identity) |->
                    IF t[k].seq >= seq THEN Append(v, t[k]) ELSE v]]
<1>1. N \in Nat /\ DOMAIN t = 1 .. N /\ \A k \in 1 .. N : t[k] \in Identity
  OBVIOUS
<1>2. h \in [1 .. N -> [Seq(Identity) -> Seq(Identity)]]
  BY <1>1
<1>3. <<>> \in Seq(Identity)
  OBVIOUS
<1>4. PICK g : Iterates(g, N, Seq(Identity), <<>>, h)
  <2>1. h \in Steps(N, Seq(Identity))
    BY <1>2 DEF Steps
  <2> HIDE DEF h, N
  <2> QED
    BY <1>1, <1>3, <2>1, RecursionExists
<1> USE DEF Iterates
<1>5. g = F(g)
  <2>1. \A k \in 1 .. N : k - 1 \in 0 .. N /\ g[k - 1] \in Seq(Identity)
    BY <1>1, <1>4
  <2>2. \A k \in 1 .. N : g[k] = IF t[k].seq >= seq THEN Append(g[k - 1], t[k])
                                 ELSE g[k - 1]
    BY <1>4, <2>1
  <2>3. ASSUME NEW k \in 0 .. N PROVE g[k] = F(g)[k]
    <3>1. CASE k = 0
      BY <1>4, <3>1
    <3>2. CASE k # 0
      <4>1. k \in 1 .. N
        BY <1>1, <3>2
      <4> QED
        BY <2>2, <3>2, <4>1
    <3> QED
      BY <3>1, <3>2
  <2> QED
    BY <1>4, <2>3
<1>6. kept = F(kept)
  BY <1>5
<1>7. Pruned(t, seq) = kept[N]
  BY DEF Pruned
<1> HIDE DEF kept
<1>8. /\ kept[0] = <<>>
      /\ \A k \in 1 .. N : kept[k] = IF t[k].seq >= seq
                                     THEN Append(kept[k - 1], t[k])
                                     ELSE kept[k - 1]
  <2>1. \A k \in 0 .. N : kept[k] = F(kept)[k]
    BY <1>6
  <2> QED
    BY <1>1, <2>1
<1> HIDE DEF N
<1> DEFINE Good(k) ==
        /\ kept[k] \in Seq(Identity) /\ Distinct(kept[k]) /\ Len(kept[k]) <= k
        /\ \A y : y \in Range(kept[k]) <=>
                      \E j \in 1 .. k : y = t[j] /\ y.seq >= seq
           T == {k \in 0 .. N : Good(k)}
<1>9. 0 \in T
  <2>1. /\ Range(<<>>) = {} /\ Distinct(<<>>)
        /\ <<>> \in Seq(Identity) /\ Len(<<>>) <= 0
    BY DEF Range, Distinct
  <2>2. \A j \in 1 .. 0 : FALSE
    OBVIOUS
  <2>3. Good(0)
    BY <1>8, <2>1, <2>2
  <2> QED
    BY <1>1, <2>3
<1>10. ASSUME NEW k \in 1 .. N, k - 1 \in T PROVE k \in T
  <2>1. Good(k - 1) /\ k \in 0 .. N /\ k \in Nat /\ k \in DOMAIN t
    BY <1>1, <1>10
  <2>2. \A j \in 1 .. k : j = k \/ j \in 1 .. k - 1
    BY <2>1
  <2>3. \A j \in 1 .. k - 1 : j \in 1 .. k /\ j \in DOMAIN t /\ j # k
    BY <1>1, <2>1
  <2>4. CASE t[k].seq >= seq
    <3>1. kept[k] = Append(kept[k - 1], t[k]) /\ t[k] \in Identity
      BY <1>1, <1>8, <2>4
    <3>2. \A y \in Range(kept[k - 1]) : y.seq # t[k].seq
      BY <2>1, <2>3 DEF Distinct
    <3>3. /\ kept[k] \in Seq(Identity) /\ Distinct(kept[k])
          /\ Len(kept[k]) = Len(kept[k - 1]) + 1
          /\ Range(kept[k]) = Range(kept[k - 1]) \cup {t[k]}
      BY <2>1, <3>1, <3>2, AppendRemembers
    <3>4. Len(kept[k]) <= k
      BY <2>1, <3>3
    <3>5. k \in 1 .. k
      BY <2>1
    <3> QED
      BY <2>1, <2>2, <2>3, <2>4, <3>3, <3>4, <3>5
  <2>5. CASE ~(t[k].seq >= seq)
    <3>1. kept[k] = kept[k - 1]
      BY <1>8, <2>5
    <3>2. Len(kept[k]) <= k
      BY <2>1, <3>1
    <3> QED
      BY <2>1, <2>2, <2>3, <2>5, <3>1, <3>2
  <2> QED
    BY <2>4, <2>5
<1>11. N \in T
  <2> HIDE DEF T
  <2>1. \A k \in 0 .. N : k \in T
    BY <1>1, <1>9, <1>10, AllUpTo
  <2> QED
    BY <1>1, <2>1
<1>12. Good(N)
  BY <1>11
<1>13. \A y : y \in Range(t) <=> \E j \in 1 .. N : y = t[j]
  BY <1>1 DEF Range
<1> QED
  BY <1>7, <1>12, <1>13 DEF N

\* A commit leaves the new identity and those of newer snapshots.
LEMMA CommitRemembers ==
    ASSUME NEW n \in 0 .. MaxSeq, NEW t, TombsFor(t, n),
           NEW seq \in Sequence, seq > n
    PROVE  LET u == Pruned(Remember(t, CommittedAs(seq)), seq)
           IN  /\ TombsFor(u, seq)
               /\ \A y \in Range(u) : y = CommittedAs(seq) \/ y \in Range(t)
<1> DEFINE x == CommittedAs(seq)
           v == Remember(t, x)
           u == Pruned(v, seq)
<1>1. x \in Identity /\ x.seq = seq /\ x.committed = TRUE
  BY DEF CommittedAs, Identity
<1>2. MaxSeq \in Nat /\ n \in Nat /\ seq \in Nat
  BY SessionAssumption DEF Sequence
<1>3. \A y \in Range(t) : y.seq \in Nat
  <2>1. \A j \in DOMAIN t : t[j] \in Identity
    BY DEF TombsFor
  <2> QED
    BY <2>1 DEF Range, Identity, Sequence
<1>4. /\ v \in Seq(Identity) /\ Distinct(v) /\ Len(v) <= Tombstones
      /\ x \in Range(v)
      /\ \A y \in Range(v) : y = x \/ (y \in Range(t) /\ y.seq # x.seq)
  BY <1>1, RememberStores DEF TombsFor
<1> HIDE DEF v
<1>5. /\ u \in Seq(Identity) /\ Distinct(u) /\ Len(u) <= Len(v)
      /\ \A y : y \in Range(u) <=> y \in Range(v) /\ y.seq >= seq
  BY <1>4, PrunedKeeps
<1> HIDE DEF u
<1>6. Len(u) <= Tombstones
  BY <1>4, <1>5, RxAssumption
<1>7. \A y \in Range(u) : y.seq >= seq /\ (y.committed <=> y.seq = seq)
  BY <1>1, <1>2, <1>3, <1>4, <1>5 DEF TombsFor
<1>8. x \in Range(u)
  BY <1>1, <1>2, <1>4, <1>5
<1>9. TombsFor(u, seq)
  BY <1>5, <1>6, <1>7, <1>8 DEF TombsFor
<1> QED
  BY <1>4, <1>5, <1>9 DEF u, v


\* What clearing the slots of S leaves to be remembered.
RetriesOf(r, S) == {RetryOf(r.slots[i].seq) : i \in {j \in S : r.slots[j].snap}}

LEMMA SlotsRemembered ==
    ASSUME NEW r, r.newest \in 0 .. MaxSeq, TombsFor(r.tombs, r.newest),
           NEW S \in SUBSET RxSlot,
           \A i \in S : r.slots[i].snap =>
               r.slots[i].seq \in Sequence /\ r.slots[i].seq > r.newest
    PROVE  /\ TombsFor(RememberSlots(r, S), r.newest)
           /\ Range(RememberSlots(r, S)) \subseteq
                  Range(r.tombs) \cup RetriesOf(r, S)
<1> DEFINE N == RxSlots
           V == {v \in Seq(Identity) :
                    /\ TombsFor(v, r.newest)
                    /\ Range(v) \subseteq Range(r.tombs) \cup RetriesOf(r, S)}
           Step(i, v) == IF i \in S /\ r.slots[i].snap
                         THEN Remember(v, RetryOf(r.slots[i].seq)) ELSE v
           F(f) == [i \in 0 .. N |->
                       IF i = 0 THEN r.tombs
                       ELSE IF i \in S /\ r.slots[i].snap
                            THEN Remember(f[i - 1], RetryOf(r.slots[i].seq))
                            ELSE f[i - 1]]
           after == CHOOSE f : f = F(f)
           h == [i \in 1 .. N |-> [v \in V |-> Step(i, v)]]
           b == r.tombs
<1>1. N \in Nat
  BY RxAssumption
<1>2. \A i \in 1 .. N : \A v \in V : Step(i, v) \in V
  <2> TAKE i \in 1 .. N
  <2> TAKE v \in V
  <2>1. CASE i \in S /\ r.slots[i].snap
    <3> DEFINE seq == r.slots[i].seq
               u == Remember(v, RetryOf(seq))
    <3>1. seq \in Sequence /\ seq > r.newest /\ RetryOf(seq) \in RetriesOf(r, S)
      BY <2>1 DEF RetriesOf
    <3>2. /\ TombsFor(v, r.newest)
          /\ Range(v) \subseteq Range(r.tombs) \cup RetriesOf(r, S)
      OBVIOUS
    <3> HIDE DEF seq
    <3>3. TombsFor(u, r.newest) /\ Range(u) \subseteq Range(v) \cup {RetryOf(seq)}
      BY <3>1, <3>2, RememberRetry
    <3>4. u \in Seq(Identity)
      BY <3>3 DEF TombsFor
    <3>5. Step(i, v) = u
      BY <2>1 DEF seq
    <3> HIDE DEF u
    <3>6. Range(u) \subseteq Range(r.tombs) \cup RetriesOf(r, S)
      BY <3>1, <3>2, <3>3
    <3> QED
      BY <3>3, <3>4, <3>5, <3>6
  <2>2. CASE ~(i \in S /\ r.slots[i].snap)
    BY <2>2
  <2> QED
    BY <2>1, <2>2
<1>3. b \in V
  BY DEF TombsFor
<1> HIDE DEF V
<1>4. h \in [1 .. N -> [V -> V]]
  <2> HIDE DEF Step
  <2> QED
    BY <1>2
<1>5. PICK g : Iterates(g, N, V, b, h)
  <2>1. h \in Steps(N, V)
    BY <1>4 DEF Steps
  <2> HIDE DEF h, N, b
  <2> QED
    BY <1>1, <1>3, <2>1, RecursionExists
<1> USE DEF Iterates
<1>6. g = F(g)
  <2>1. \A i \in 1 .. N : i - 1 \in 0 .. N /\ g[i - 1] \in V
    BY <1>1, <1>5
  <2>2. \A i \in 1 .. N : g[i] = Step(i, g[i - 1])
    <3> HIDE DEF Step
    <3> QED
      BY <1>5, <2>1
  <2>3. ASSUME NEW i \in 0 .. N PROVE g[i] = F(g)[i]
    <3>1. CASE i = 0
      BY <1>5, <3>1
    <3>2. CASE i # 0
      <4>1. i \in 1 .. N
        BY <1>1, <3>2
      <4> QED
        BY <2>2, <3>2, <4>1
    <3> QED
      BY <3>1, <3>2
  <2> QED
    BY <1>5, <2>3
<1>7. after = F(after)
  BY <1>6
<1>8. RememberSlots(r, S) = after[N]
  BY DEF RememberSlots
<1> HIDE DEF after
<1> DEFINE T == {i \in 0 .. N : after[i] \in V}
<1>9. 0 \in T
  <2>1. 0 \in 0 .. N /\ after[0] = F(after)[0]
    BY <1>1, <1>7
  <2>2. after[0] = b
    BY <2>1
  <2> QED
    BY <1>3, <2>1, <2>2
<1>10. ASSUME NEW i \in 1 .. N, i - 1 \in T PROVE i \in T
  <2>1. i \in 0 .. N /\ i # 0 /\ after[i] = F(after)[i] /\ after[i - 1] \in V
    BY <1>1, <1>7, <1>10
  <2>2. after[i] = Step(i, after[i - 1])
    BY <2>1
  <2> HIDE DEF Step
  <2> QED
    BY <1>2, <2>1, <2>2
<1>11. after[N] \in V
  <2> HIDE DEF T
  <2>1. \A i \in 0 .. N : i \in T
    BY <1>1, <1>9, <1>10, AllUpTo
  <2> QED
    BY <1>1, <2>1 DEF T
<1> QED
  BY <1>8, <1>11 DEF V


-----------------------------------------------------------------------------
(***************************************************************************)
(* A session that is valid, all of which comes from frames in F.           *)
(***************************************************************************)
SessionGood(r) ==
    /\ r \in RxState
    /\ HistoryValid(r)
    /\ TombsFor(r.tombs, r.newest)
    /\ \A y \in Range(r.tombs) : y.seq \in r.history => y.committed
    /\ \A i \in RxSlot : r.slots[i].seq = 0 => r.slots[i] = EmptyRx
    /\ SlotsValid(r)

FrameOfSlot(r, i, k) ==
    [epoch |-> r.epoch, seq |-> r.slots[i].seq, snap |-> r.slots[i].snap,
     frag |-> k]

FramesKnown(r, F) ==
    /\ \A i \in Occupied(r) :
          /\ r.slots[i].got # {}
          /\ \A k \in r.slots[i].got : FrameOfSlot(r, i, k) \in F
    /\ \A y \in Range(r.tombs) : \E k \in Fragment :
          [epoch |-> r.epoch, seq |-> y.seq, snap |-> TRUE, frag |-> k] \in F

OneClass(F) ==
    \A f, g \in F : f.epoch = g.epoch /\ f.seq = g.seq => f.snap = g.snap

RInv(r, F) == SessionGood(r) /\ FramesKnown(r, F)

LEMMA KnownInRange ==
    ASSUME NEW t, NEW seq
    PROVE  seq \in Known(t) <=> \E y \in Range(t) : y.seq = seq
  BY DEF Known, Range

LEMMA SessionTypes ==
    ASSUME NEW r \in RxState
    PROVE  /\ MaxSeq \in Nat /\ Window \in Nat \ {0}
           /\ r.epoch \in SessionEpoch /\ r.epoch \in Nat
           /\ r.cancelled \in BOOLEAN
           /\ r.slots \in [RxSlot -> RxSlotState]
           /\ r.history \subseteq Sequence /\ r.history \subseteq Nat
           /\ r.highest \in 0 .. MaxSeq /\ r.newest \in 0 .. MaxSeq
           /\ r.tombs \in Seq(Identity)
           /\ \A i \in RxSlot :
                 /\ r.slots[i] \in RxSlotState
                 /\ r.slots[i].seq \in Nat /\ r.slots[i].seq \in 0 .. MaxSeq
                 /\ r.slots[i].seq # 0 => r.slots[i].seq \in Sequence
                 /\ r.slots[i].snap \in BOOLEAN /\ r.slots[i].retry \in BOOLEAN
                 /\ r.slots[i].got \subseteq Fragment
           /\ \A i \in Occupied(r) : i \in RxSlot /\ r.slots[i].seq # 0
           /\ \A i \in RxSlot : r.slots[i].seq # 0 => i \in Occupied(r)
<1>1. MaxSeq \in Nat /\ MaxEpoch \in Nat /\ Window \in Nat \ {0}
  BY SessionAssumption
<1>2. /\ r.epoch \in SessionEpoch /\ r.cancelled \in BOOLEAN
      /\ r.slots \in [RxSlot -> RxSlotState]
      /\ r.history \subseteq Sequence
      /\ r.highest \in 0 .. MaxSeq /\ r.newest \in 0 .. MaxSeq
      /\ r.tombs \in Seq(Identity)
  BY DEF RxState
<1>3. \A i \in RxSlot :
          /\ r.slots[i] \in RxSlotState
          /\ r.slots[i].seq \in 0 .. MaxSeq
          /\ r.slots[i].snap \in BOOLEAN /\ r.slots[i].retry \in BOOLEAN
          /\ r.slots[i].got \subseteq Fragment
  BY <1>2 DEF RxSlotState
<1>4. \A i \in RxSlot : /\ r.slots[i].seq \in Nat
                        /\ r.slots[i].seq # 0 => r.slots[i].seq \in Sequence
  BY <1>1, <1>3 DEF Sequence
<1>5. r.epoch \in Nat /\ r.history \subseteq Nat
  BY <1>1, <1>2 DEF SessionEpoch, Sequence
<1> QED
  BY <1>1, <1>2, <1>3, <1>4, <1>5 DEF Occupied

LEMMA EmptySlot ==
    /\ EmptyRx \in RxSlotState /\ EmptyRx.seq = 0 /\ EmptyRx.snap = FALSE
    /\ EmptyRx.got = {} /\ EmptyRx.retry = FALSE
  BY SessionAssumption DEF EmptyRx, RxSlotState

\* A good session passes the validation of the code.
LEMMA GoodIsValid ==
    ASSUME NEW r, SessionGood(r)
    PROVE  HistoryValid(r) /\ TombstonesValid(r) /\ SlotsValid(r)
<1> DEFINE t == r.tombs
<1>1. /\ TombsFor(t, r.newest) /\ r.newest \in 0 .. MaxSeq
      /\ \A y \in Range(t) : y.seq \in r.history => y.committed
  BY DEF SessionGood, RxState
<1>2. \A k \in DOMAIN t : t[k] \in Range(t)
  BY DEF Range
<1>3. r.newest # 0 => r.newest \in Known(t)
  <2>1. r.newest # 0 => CommittedAs(r.newest) \in Range(t)
    BY <1>1 DEF TombsFor
  <2>2. CommittedAs(r.newest).seq = r.newest
    BY DEF CommittedAs
  <2> QED
    BY <2>1, <2>2, KnownInRange
<1>4. Len(t) <= Tombstones
  BY <1>1 DEF TombsFor
<1>5. \A k \in DOMAIN t :
          /\ r.newest # 0 => t[k].seq >= r.newest
          /\ t[k].committed = (t[k].seq = r.newest)
          /\ t[k].seq \in r.history => t[k].committed
  <2> TAKE k \in DOMAIN t
  <2>1. t[k].committed \in BOOLEAN
    <3>1. t[k] \in Identity
      BY <1>1 DEF TombsFor
    <3> QED
      BY <3>1 DEF Identity
  <2>2. /\ t[k].seq >= r.newest
        /\ t[k].committed <=> t[k].seq = r.newest
        /\ t[k].seq \in r.history => t[k].committed
    BY <1>1, <1>2 DEF TombsFor
  <2> QED
    BY <2>1, <2>2
<1>6. \A j, k \in DOMAIN t : t[j].seq = t[k].seq => j = k
  BY <1>1 DEF TombsFor, Distinct
<1>7. TombstonesValid(r)
  BY <1>3, <1>4, <1>5, <1>6 DEF TombstonesValid
<1> QED
  BY <1>7 DEF SessionGood

\* Clearing slots keeps the session good.
LEMMA ForgetKeeps ==
    ASSUME NEW r, NEW F, RInv(r, F), NEW S \in SUBSET RxSlot
    PROVE  LET q == Forget(r, S)
           IN  /\ RInv(q, F)
               /\ q.epoch = r.epoch /\ q.cancelled = r.cancelled
               /\ q.history = r.history /\ q.highest = r.highest
               /\ q.newest = r.newest
               /\ \A i \in RxSlot :
                      q.slots[i] = IF i \in S THEN EmptyRx ELSE r.slots[i]
               /\ \A y \in Range(q.tombs) :
                      \/ y \in Range(r.tombs)
                      \/ \E i \in S : /\ r.slots[i].snap
                                      /\ y = RetryOf(r.slots[i].seq)
                                      /\ i \in Occupied(r)
<1> DEFINE q == Forget(r, S)
           t == RememberSlots(r, S)
           slots == [i \in RxSlot |-> IF i \in S THEN EmptyRx ELSE r.slots[i]]
<1>1. r \in RxState /\ SessionGood(r) /\ FramesKnown(r, F) /\ SlotsValid(r)
  BY DEF RInv, SessionGood
<1>2. /\ MaxSeq \in Nat /\ Window \in Nat \ {0}
      /\ r.highest \in Nat /\ r.newest \in 0 .. MaxSeq /\ r.newest \in Nat
      /\ \A i \in RxSlot :
           /\ r.slots[i] \in RxSlotState
           /\ r.slots[i].seq \in Nat
           /\ r.slots[i].seq # 0 => r.slots[i].seq \in Sequence
           /\ r.slots[i].got \subseteq Fragment
      /\ \A i \in Occupied(r) : i \in RxSlot /\ r.slots[i].seq # 0
      /\ \A i \in RxSlot : r.slots[i].seq # 0 => i \in Occupied(r)
  BY <1>1, SessionTypes
<1>3. \A i \in RxSlot : r.slots[i].snap => i \in Occupied(r)
  BY <1>1, <1>2, EmptySlot DEF SessionGood
<1>4. \A i \in Occupied(r) : r.slots[i].snap =>
          r.slots[i].seq \in Sequence /\ r.slots[i].seq > r.newest
  BY <1>1, <1>2 DEF SlotsValid
<1>5. /\ TombsFor(t, r.newest)
      /\ Range(t) \subseteq Range(r.tombs) \cup RetriesOf(r, S)
  <2>1. \A i \in S : r.slots[i].snap =>
            r.slots[i].seq \in Sequence /\ r.slots[i].seq > r.newest
    BY <1>3, <1>4
  <2>2. TombsFor(r.tombs, r.newest)
    BY <1>1 DEF SessionGood
  <2> QED
    BY <1>2, <2>1, <2>2, SlotsRemembered
<1>6. \A y \in Range(t) :
          \/ y \in Range(r.tombs)
          \/ \E i \in S : /\ r.slots[i].snap /\ y = RetryOf(r.slots[i].seq)
                          /\ i \in Occupied(r)
  BY <1>3, <1>5 DEF RetriesOf
<1>7. slots \in [RxSlot -> RxSlotState]
      /\ \A i \in RxSlot : slots[i] = IF i \in S THEN EmptyRx ELSE r.slots[i]
  BY <1>2, EmptySlot
<1>8. q = [r EXCEPT !.slots = slots, !.tombs = t]
  BY <1>1 DEF Forget, RxState
<1>9. t \in Seq(Identity)
  BY <1>5 DEF TombsFor
<1> HIDE DEF slots, t, q
<1>10. /\ q \in RxState /\ q.epoch = r.epoch /\ q.cancelled = r.cancelled
       /\ q.history = r.history /\ q.highest = r.highest
       /\ q.newest = r.newest /\ q.slots = slots /\ q.tombs = t
  BY <1>1, <1>7, <1>8, <1>9 DEF RxState
<1>11. \A i \in RxSlot : q.slots[i] = IF i \in S THEN EmptyRx ELSE r.slots[i]
  BY <1>7, <1>10
<1>12. \A i \in Occupied(q) : /\ i \in RxSlot /\ i \notin S /\ i \in Occupied(r)
                              /\ q.slots[i] = r.slots[i]
  BY <1>2, <1>11, EmptySlot DEF Occupied
<1>13. \A y \in Range(t) : y.seq \in r.history => y.committed
  <2> TAKE y \in Range(t)
  <2>1. CASE y \in Range(r.tombs)
    BY <1>1, <2>1 DEF SessionGood
  <2>2. ASSUME NEW i \in S, y = RetryOf(r.slots[i].seq), i \in Occupied(r)
        PROVE  y.seq \notin r.history
    BY <1>1, <2>2 DEF SlotsValid, RetryOf
  <2> QED
    BY <1>6, <2>1, <2>2
<1>14. \A i \in RxSlot : q.slots[i].seq = 0 => q.slots[i] = EmptyRx
  BY <1>1, <1>11 DEF SessionGood
<1>15. HistoryValid(q)
  BY <1>1, <1>10 DEF SessionGood, HistoryValid
<1>16. SlotsValid(q)
  <2>1. ASSUME NEW i \in Occupied(q), q.slots[i].seq \in Known(q.tombs)
        PROVE  r.slots[i].seq \in Known(r.tombs)
    <3>1. PICK y \in Range(t) : y.seq = r.slots[i].seq
      BY <1>10, <1>12, <2>1, KnownInRange
    <3>2. CASE y \in Range(r.tombs)
      BY <3>1, <3>2, KnownInRange
    <3>3. ASSUME NEW j \in S, y = RetryOf(r.slots[j].seq), j \in Occupied(r)
          PROVE  FALSE
      <4>1. r.slots[j].seq = r.slots[i].seq
        BY <3>1, <3>3 DEF RetryOf
      <4>2. i = j
        BY <1>1, <1>12, <3>3, <4>1 DEF SlotsValid
      <4> QED
        BY <1>12, <4>2
    <3> QED
      BY <1>6, <3>2, <3>3
  <2>2. \A i \in Occupied(q) : OutOfWindow(q, q.slots[i].seq) =>
            OutOfWindow(r, r.slots[i].seq)
    BY <1>10, <1>12 DEF OutOfWindow
  <2> QED
    BY <1>1, <1>10, <1>12, <2>1, <2>2 DEF SlotsValid
<1>17. FramesKnown(q, F)
  <2>1. \A i \in Occupied(q) :
            /\ q.slots[i].got # {}
            /\ \A k \in q.slots[i].got : FrameOfSlot(q, i, k) \in F
    BY <1>1, <1>10, <1>12 DEF FramesKnown, FrameOfSlot
  <2>2. ASSUME NEW y \in Range(t)
        PROVE  \E k \in Fragment : [epoch |-> r.epoch, seq |-> y.seq,
                                    snap |-> TRUE, frag |-> k] \in F
    <3>1. CASE y \in Range(r.tombs)
      BY <1>1, <3>1 DEF FramesKnown
    <3>2. ASSUME NEW i \in S, r.slots[i].snap, y = RetryOf(r.slots[i].seq),
                 i \in Occupied(r)
          PROVE  \E k \in Fragment : [epoch |-> r.epoch, seq |-> y.seq,
                                      snap |-> TRUE, frag |-> k] \in F
      <4>1. PICK k \in r.slots[i].got : FrameOfSlot(r, i, k) \in F
        BY <1>1, <3>2 DEF FramesKnown
      <4>2. k \in Fragment /\ y.seq = r.slots[i].seq /\ r.slots[i].snap = TRUE
        BY <1>1, <1>2, <3>2, SessionTypes DEF RetryOf
      <4> QED
        BY <4>1, <4>2 DEF FrameOfSlot
    <3> QED
      BY <1>6, <3>1, <3>2
  <2> QED
    BY <1>10, <2>1, <2>2 DEF FramesKnown
<1>18. RInv(q, F)
  BY <1>5, <1>10, <1>13, <1>14, <1>15, <1>16, <1>17 DEF RInv, SessionGood
<1> QED
  BY <1>6, <1>10, <1>11, <1>18 DEF q, t


\* A frame is kept in a slot.
LEMMA StoredKeeps ==
    ASSUME NEW r, NEW F, RInv(r, F), OneClass(F),
           NEW f \in F, F \subseteq Frame, f.epoch = r.epoch,
           NEW i \in RxSlot, NEW back \in BOOLEAN,
           \/ r.slots[i].seq = f.seq
           \/ /\ r.slots[i].seq = 0
              /\ \A j \in RxSlot : r.slots[j].seq # f.seq
              /\ f.seq \notin r.history
              /\ f.snap => f.seq > r.newest
              /\ OutOfWindow(r, f.seq) => back
              /\ f.seq \in Known(r.tombs) => back
              /\ back => f.snap
    PROVE  LET q == Stored(r, f, i, back)
           IN  /\ RInv(q, F)
               /\ q.epoch = r.epoch /\ q.cancelled = r.cancelled
               /\ q.history = r.history /\ q.highest = r.highest
               /\ q.newest = r.newest
<1> DEFINE q == Stored(r, f, i, back)
           new == r.slots[i].seq = 0
           slot == [seq |-> f.seq, snap |-> f.snap,
                    got |-> r.slots[i].got \cup {f.frag},
                    retry |-> r.slots[i].retry \/ (new /\ back)]
           slots == [r.slots EXCEPT ![i] = slot]
           t == IF new /\ back THEN Remember(r.tombs, RetryOf(f.seq))
                ELSE r.tombs
<1>1. r \in RxState /\ SessionGood(r) /\ FramesKnown(r, F) /\ SlotsValid(r)
      /\ TombsFor(r.tombs, r.newest)
  BY DEF RInv, SessionGood
<1>2. /\ MaxSeq \in Nat /\ r.highest \in Nat
      /\ r.newest \in 0 .. MaxSeq /\ r.newest \in Nat
      /\ r.slots \in [RxSlot -> RxSlotState]
      /\ \A j \in RxSlot :
           /\ r.slots[j].seq \in Nat
           /\ r.slots[j].snap \in BOOLEAN /\ r.slots[j].retry \in BOOLEAN
           /\ r.slots[j].got \subseteq Fragment
      /\ \A j \in Occupied(r) : j \in RxSlot /\ r.slots[j].seq # 0
      /\ \A j \in RxSlot : r.slots[j].seq # 0 => j \in Occupied(r)
  BY <1>1, SessionTypes
<1>3. /\ f.seq \in Sequence /\ f.seq \in Nat /\ f.seq # 0
      /\ f.seq \in 0 .. MaxSeq
      /\ f.snap \in BOOLEAN /\ f.frag \in Fragment
      /\ f = [epoch |-> r.epoch, seq |-> f.seq, snap |-> f.snap,
              frag |-> f.frag]
  BY <1>2 DEF Frame, Sequence
<1>4. CASE new
  <2>1. /\ \A j \in RxSlot : r.slots[j].seq # f.seq
        /\ f.seq \notin r.history
        /\ f.snap => f.seq > r.newest
        /\ OutOfWindow(r, f.seq) => back
        /\ f.seq \in Known(r.tombs) => back
        /\ back => f.snap
    BY <1>3, <1>4
  <2>2. r.slots[i] = EmptyRx /\ r.slots[i].got = {} /\ r.slots[i].retry = FALSE
    BY <1>1, <1>4, EmptySlot DEF SessionGood
  <2>3. /\ slot \in RxSlotState /\ slot.seq = f.seq /\ slot.snap = f.snap
        /\ slot.got = {f.frag} /\ slot.retry = back
    BY <1>3, <1>4, <2>2 DEF RxSlotState
  <2>4. /\ TombsFor(t, r.newest)
        /\ \A y \in Range(t) : y \in Range(r.tombs)
                               \/ (back /\ y = RetryOf(f.seq))
    <3>1. CASE back
      BY <1>1, <1>2, <1>3, <1>4, <2>1, <3>1, RememberRetry
    <3>2. CASE ~back
      BY <1>1, <3>2
    <3> QED
      BY <3>1, <3>2
  <2>5. slots \in [RxSlot -> RxSlotState] /\ slots[i] = slot
        /\ \A j \in RxSlot : j # i => slots[j] = r.slots[j]
    BY <1>2, <2>3
  <2>6. q = [r EXCEPT !.slots = slots, !.tombs = t]
    BY <1>1, <1>4, <2>2 DEF Stored, RxState
  <2>7. t \in Seq(Identity)
    BY <2>4 DEF TombsFor
  <2> HIDE DEF q, slot, slots, t
  <2>8. /\ q \in RxState /\ q.epoch = r.epoch /\ q.cancelled = r.cancelled
        /\ q.history = r.history /\ q.highest = r.highest
        /\ q.newest = r.newest /\ q.slots = slots /\ q.tombs = t
    BY <1>1, <2>5, <2>6, <2>7 DEF RxState
  <2>9. \A j \in Occupied(q) : j \in RxSlot
            /\ (j # i => j \in Occupied(r) /\ q.slots[j] = r.slots[j])
    BY <1>2, <2>5, <2>8 DEF Occupied
  <2>10. q.slots[i] = slot
    BY <2>5, <2>8
  <2>11. \A y \in Range(t) : y.seq \in r.history => y.committed
    BY <1>1, <2>1, <2>4 DEF SessionGood, RetryOf
  <2>12. \A j \in RxSlot : q.slots[j].seq = 0 => q.slots[j] = EmptyRx
    BY <1>1, <1>3, <2>3, <2>5, <2>8 DEF SessionGood
  <2>13. HistoryValid(q)
    BY <1>1, <2>8 DEF SessionGood, HistoryValid
  <2>14. SlotsValid(q)
    <3>1. ASSUME NEW j \in Occupied(q), j # i, q.slots[j].seq \in Known(q.tombs)
          PROVE  r.slots[j].seq \in Known(r.tombs)
      <4>1. PICK y \in Range(t) : y.seq = r.slots[j].seq
        BY <2>8, <2>9, <3>1, KnownInRange
      <4>2. y # RetryOf(f.seq)
        BY <2>1, <2>9, <3>1, <4>1 DEF RetryOf
      <4> QED
        BY <2>4, <4>1, <4>2, KnownInRange
    <3>2. ASSUME q.slots[i].seq \in Known(q.tombs)
          PROVE  back
      <4>1. PICK y \in Range(t) : y.seq = f.seq
        BY <2>3, <2>8, <2>10, <3>2, KnownInRange
      <4>2. CASE y \in Range(r.tombs)
        BY <2>1, <4>1, <4>2, KnownInRange
      <4> QED
        BY <2>4, <4>1, <4>2
    <3>3. \A s : OutOfWindow(q, s) <=> OutOfWindow(r, s)
      BY <2>8 DEF OutOfWindow
    <3> DEFINE Ok(j) ==
          /\ q.slots[j].retry => q.slots[j].snap
          /\ q.slots[j].seq \in Known(q.tombs) =>
                  q.slots[j].snap /\ q.slots[j].retry
                  /\ q.slots[j].seq # q.newest
          /\ q.slots[j].snap /\ q.newest # 0 => q.slots[j].seq > q.newest
          /\ OutOfWindow(q, q.slots[j].seq) => q.slots[j].retry
          /\ q.slots[j].seq \notin q.history
    <3>4. ASSUME NEW j \in Occupied(q), j # i PROVE Ok(j)
      <4>1. j \in Occupied(r) /\ q.slots[j] = r.slots[j]
        BY <2>9, <3>4
      <4> QED
        BY <1>1, <2>8, <3>1, <3>3, <3>4, <4>1 DEF SlotsValid
    <3>5. Ok(i)
      BY <1>2, <1>3, <2>1, <2>3, <2>8, <2>10, <3>2, <3>3
    <3>6. \A j \in Occupied(q) : Ok(j)
      BY <3>4, <3>5
    <3>7. \A j, k \in Occupied(q) : q.slots[j].seq = q.slots[k].seq => k = j
      <4> SUFFICES ASSUME NEW j \in Occupied(q), NEW k \in Occupied(q),
                          q.slots[j].seq = q.slots[k].seq
                   PROVE  k = j
        OBVIOUS
      <4>1. CASE j = i /\ k # i
        BY <2>1, <2>3, <2>9, <2>10, <4>1
      <4>2. CASE j # i /\ k = i
        BY <2>1, <2>3, <2>9, <2>10, <4>2
      <4>3. CASE j # i /\ k # i
        <5>1. j \in Occupied(r) /\ k \in Occupied(r)
              /\ r.slots[j].seq = r.slots[k].seq
          BY <2>9, <4>3
        <5> QED
          BY <1>1, <5>1 DEF SlotsValid
      <4> QED
        BY <4>1, <4>2, <4>3
    <3> QED
      BY <3>6, <3>7 DEF SlotsValid
  <2>15. FramesKnown(q, F)
    <3>1. ASSUME NEW j \in Occupied(q)
          PROVE  /\ q.slots[j].got # {}
                 /\ \A k \in q.slots[j].got : FrameOfSlot(q, j, k) \in F
      <4>1. CASE j = i
        BY <1>3, <2>3, <2>8, <2>10, <4>1 DEF FrameOfSlot
      <4>2. CASE j # i
        BY <1>1, <2>8, <2>9, <4>2 DEF FramesKnown, FrameOfSlot
      <4> QED
        BY <4>1, <4>2
    <3>2. ASSUME NEW y \in Range(t)
          PROVE  \E k \in Fragment : [epoch |-> r.epoch, seq |-> y.seq,
                                      snap |-> TRUE, frag |-> k] \in F
      <4>1. CASE y \in Range(r.tombs)
        BY <1>1, <4>1 DEF FramesKnown
      <4>2. CASE back /\ y = RetryOf(f.seq)
        <5>1. y.seq = f.seq /\ f.snap = TRUE
          BY <1>3, <2>1, <4>2 DEF RetryOf
        <5> QED
          BY <1>3, <5>1
      <4> QED
        BY <2>4, <4>1, <4>2
    <3> QED
      BY <2>8, <3>1, <3>2 DEF FramesKnown
  <2>16. RInv(q, F)
    BY <2>4, <2>8, <2>11, <2>12, <2>13, <2>14, <2>15 DEF RInv, SessionGood
  <2> QED
    BY <2>8, <2>16 DEF q
<1>5. CASE ~new
  <2>1. r.slots[i].seq = f.seq /\ i \in Occupied(r)
    BY <1>2, <1>5
  <2>2. r.slots[i].snap = f.snap
    <3>1. PICK k \in r.slots[i].got : FrameOfSlot(r, i, k) \in F
      BY <1>1, <2>1 DEF FramesKnown
    <3> QED
      BY <2>1, <3>1 DEF OneClass, FrameOfSlot
  <2>3. /\ slot \in RxSlotState /\ slot.seq = f.seq /\ slot.snap = f.snap
        /\ slot.got = r.slots[i].got \cup {f.frag}
        /\ slot.retry = r.slots[i].retry
    <3>1. slot.retry = r.slots[i].retry
      BY <1>2, <1>5
    <3> QED
      BY <1>2, <1>3, <3>1 DEF RxSlotState
  <2>4. t = r.tombs
    BY <1>5
  <2>5. slots \in [RxSlot -> RxSlotState] /\ slots[i] = slot
        /\ \A j \in RxSlot : j # i => slots[j] = r.slots[j]
    BY <1>2, <2>3
  <2>6. q = [r EXCEPT !.slots = slots, !.tombs = t]
    BY <1>1, <1>5 DEF Stored, RxState
  <2> HIDE DEF q, slot, slots, t
  <2>7. /\ q \in RxState /\ q.epoch = r.epoch /\ q.cancelled = r.cancelled
        /\ q.history = r.history /\ q.highest = r.highest
        /\ q.newest = r.newest /\ q.slots = slots /\ q.tombs = r.tombs
    BY <1>1, <2>4, <2>5, <2>6 DEF RxState
  <2>8. \A j \in RxSlot : /\ q.slots[j].seq = r.slots[j].seq
                          /\ q.slots[j].snap = r.slots[j].snap
                          /\ q.slots[j].retry = r.slots[j].retry
                          /\ j # i => q.slots[j] = r.slots[j]
    BY <2>1, <2>2, <2>3, <2>5, <2>7
  <2>9. Occupied(q) = Occupied(r)
    BY <2>8 DEF Occupied
  <2>10. SlotsValid(q)
    <3>1. \A s : OutOfWindow(q, s) <=> OutOfWindow(r, s)
      BY <2>7 DEF OutOfWindow
    <3> QED
      BY <1>1, <1>2, <2>7, <2>8, <2>9, <3>1 DEF SlotsValid
  <2>11. \A j \in RxSlot : q.slots[j].seq = 0 => q.slots[j] = EmptyRx
    BY <1>1, <1>3, <2>1, <2>8 DEF SessionGood
  <2>12. HistoryValid(q)
    BY <1>1, <2>7 DEF SessionGood, HistoryValid
  <2>13. FramesKnown(q, F)
    <3>1. ASSUME NEW j \in Occupied(q)
          PROVE  /\ q.slots[j].got # {}
                 /\ \A k \in q.slots[j].got : FrameOfSlot(q, j, k) \in F
      <4>1. CASE j = i
        <5>1. \A k \in r.slots[i].got : FrameOfSlot(q, j, k) \in F
          BY <1>1, <2>1, <2>7, <2>8, <2>9, <3>1, <4>1
             DEF FramesKnown, FrameOfSlot
        <5>2. FrameOfSlot(q, j, f.frag) = f
          BY <1>3, <2>1, <2>2, <2>7, <2>8, <4>1 DEF FrameOfSlot
        <5>3. q.slots[j].got = r.slots[i].got \cup {f.frag}
          BY <2>3, <2>5, <2>7, <4>1
        <5> QED
          BY <5>1, <5>2, <5>3
      <4>2. CASE j # i
        BY <1>1, <1>2, <2>7, <2>8, <2>9, <4>2 DEF FramesKnown, FrameOfSlot
      <4> QED
        BY <4>1, <4>2
    <3> QED
      BY <1>1, <2>7, <3>1 DEF FramesKnown
  <2>14. RInv(q, F)
    BY <1>1, <2>7, <2>10, <2>11, <2>12, <2>13 DEF RInv, SessionGood
  <2> QED
    BY <2>7, <2>14 DEF q
<1> QED
  BY <1>4, <1>5

\* What was received of a message is dropped; nobody else has any of it.
LEMMA SpoiledKeeps ==
    ASSUME NEW r, NEW F, RInv(r, F),
           NEW f \in F, F \subseteq Frame, f.epoch = r.epoch,
           NEW i \in RxSlot,
           \A j \in RxSlot : r.slots[j].seq = f.seq => j = i,
           f.seq \notin r.history, f.snap => f.seq > r.newest
    PROVE  LET q == Spoiled(r, f, i)
           IN  /\ RInv(q, F)
               /\ q.epoch = r.epoch /\ q.cancelled = r.cancelled
               /\ q.history = r.history /\ q.highest = r.highest
               /\ q.newest = r.newest
<1> DEFINE q == Spoiled(r, f, i)
           slots == [r.slots EXCEPT ![i] = EmptyRx]
           t == IF f.snap THEN Remember(r.tombs, RetryOf(f.seq)) ELSE r.tombs
<1>1. r \in RxState /\ SessionGood(r) /\ FramesKnown(r, F) /\ SlotsValid(r)
      /\ TombsFor(r.tombs, r.newest)
  BY DEF RInv, SessionGood
<1>2. /\ MaxSeq \in Nat /\ r.newest \in 0 .. MaxSeq
      /\ r.slots \in [RxSlot -> RxSlotState]
      /\ \A j \in Occupied(r) : j \in RxSlot /\ r.slots[j].seq # 0
      /\ \A j \in RxSlot : r.slots[j].seq # 0 => j \in Occupied(r)
  BY <1>1, SessionTypes
<1>3. /\ f.seq \in Sequence /\ f.snap \in BOOLEAN /\ f.frag \in Fragment
      /\ f = [epoch |-> r.epoch, seq |-> f.seq, snap |-> f.snap,
              frag |-> f.frag]
  BY DEF Frame
<1>4. /\ TombsFor(t, r.newest)
      /\ \A y \in Range(t) : y \in Range(r.tombs)
                             \/ (f.snap /\ y = RetryOf(f.seq))
  <2>1. CASE f.snap
    BY <1>1, <1>2, <1>3, <2>1, RememberRetry
  <2>2. CASE ~f.snap
    BY <1>1, <2>2
  <2> QED
    BY <2>1, <2>2
<1>5. slots \in [RxSlot -> RxSlotState] /\ slots[i] = EmptyRx
      /\ \A j \in RxSlot : j # i => slots[j] = r.slots[j]
  BY <1>2, EmptySlot
<1>6. q = [r EXCEPT !.slots = slots, !.tombs = t]
  BY <1>1 DEF Spoiled, RxState
<1>7. t \in Seq(Identity)
  BY <1>4 DEF TombsFor
<1> HIDE DEF q, slots, t
<1>8. /\ q \in RxState /\ q.epoch = r.epoch /\ q.cancelled = r.cancelled
      /\ q.history = r.history /\ q.highest = r.highest
      /\ q.newest = r.newest /\ q.slots = slots /\ q.tombs = t
  BY <1>1, <1>5, <1>6, <1>7 DEF RxState
<1>9. \A j \in Occupied(q) : /\ j \in RxSlot /\ j # i /\ j \in Occupied(r)
                             /\ q.slots[j] = r.slots[j]
                             /\ r.slots[j].seq # f.seq
  BY <1>2, <1>5, <1>8, EmptySlot DEF Occupied
<1>10. \A y \in Range(t) : y.seq \in r.history => y.committed
  BY <1>1, <1>4 DEF SessionGood, RetryOf
<1>11. \A j \in RxSlot : q.slots[j].seq = 0 => q.slots[j] = EmptyRx
  BY <1>1, <1>5, <1>8 DEF SessionGood
<1>12. HistoryValid(q)
  BY <1>1, <1>8 DEF SessionGood, HistoryValid
<1>13. SlotsValid(q)
  <2>1. ASSUME NEW j \in Occupied(q), q.slots[j].seq \in Known(q.tombs)
        PROVE  r.slots[j].seq \in Known(r.tombs)
    <3>1. PICK y \in Range(t) : y.seq = r.slots[j].seq
      BY <1>8, <1>9, <2>1, KnownInRange
    <3>2. y # RetryOf(f.seq)
      BY <1>9, <3>1 DEF RetryOf
    <3> QED
      BY <1>4, <3>1, <3>2, KnownInRange
  <2>2. \A s : OutOfWindow(q, s) <=> OutOfWindow(r, s)
    BY <1>8 DEF OutOfWindow
  <2> QED
    BY <1>1, <1>8, <1>9, <2>1, <2>2 DEF SlotsValid
<1>14. FramesKnown(q, F)
  <2>1. \A j \in Occupied(q) :
            /\ q.slots[j].got # {}
            /\ \A k \in q.slots[j].got : FrameOfSlot(q, j, k) \in F
    BY <1>1, <1>8, <1>9 DEF FramesKnown, FrameOfSlot
  <2>2. ASSUME NEW y \in Range(t)
        PROVE  \E k \in Fragment : [epoch |-> r.epoch, seq |-> y.seq,
                                    snap |-> TRUE, frag |-> k] \in F
    <3>1. CASE y \in Range(r.tombs)
      BY <1>1, <3>1 DEF FramesKnown
    <3>2. CASE f.snap /\ y = RetryOf(f.seq)
      <4>1. y.seq = f.seq /\ f.snap = TRUE
        BY <1>3, <3>2 DEF RetryOf
      <4> QED
        BY <1>3, <4>1
    <3> QED
      BY <1>4, <3>1, <3>2
  <2> QED
    BY <1>8, <2>1, <2>2 DEF FramesKnown
<1>15. RInv(q, F)
  BY <1>4, <1>8, <1>10, <1>11, <1>12, <1>13, <1>14 DEF RInv, SessionGood
<1> QED
  BY <1>8, <1>15 DEF q

\* A frame arrives.
LEMMA AcceptKeeps ==
    ASSUME NEW F, RInv(rx, F), OneClass(F), F \subseteq Frame,
           NEW f \in F, NEW idle, Accept(f, idle)
    PROVE  /\ RInv(rx', F)
           /\ rx'.epoch = rx.epoch /\ rx'.cancelled = rx.cancelled
           /\ rx'.history = rx.history /\ rx'.highest = rx.highest
           /\ rx'.newest = rx.newest
<1> DEFINE r == Forget(rx, idle)
           room == MakeRoom(r, f)
           victims == Victims(r, f)
           W == {i \in victims :
                    \A j \in victims : r.slots[i].seq <= r.slots[j].seq}
           back == ComesBack(r, f)
<1>1. /\ f.epoch = rx.epoch /\ idle \in SUBSET RxSlot
      /\ IF Refused(r, f) \/ SlotsFor(room, f) = {}
         THEN rx' = r
         ELSE \E i \in SlotsFor(room, f) :
                 \/ rx' = Stored(room, f, i, back)
                 \/ rx' = Spoiled(room, f, i)
  BY DEF Accept, SameEpoch, Occupied
<1>2. room = Forget(r, W)
  BY DEF MakeRoom
<1> HIDE DEF r, room, back
<1>3. /\ RInv(r, F)
      /\ r.epoch = rx.epoch /\ r.cancelled = rx.cancelled
      /\ r.history = rx.history /\ r.highest = rx.highest
      /\ r.newest = rx.newest
  BY <1>1, ForgetKeeps DEF r
<1>4. victims \subseteq RxSlot /\ \A i \in victims : r.slots[i].seq < f.seq
  BY DEF Victims
<1>5. W \in SUBSET RxSlot /\ \A i \in W : r.slots[i].seq < f.seq
  BY <1>4
<1> HIDE DEF victims, W
<1>6. /\ RInv(room, F)
      /\ room.epoch = r.epoch /\ room.cancelled = r.cancelled
      /\ room.history = r.history /\ room.highest = r.highest
      /\ room.newest = r.newest
      /\ \A y \in Range(room.tombs) :
             \/ y \in Range(r.tombs)
             \/ \E i \in W : y = RetryOf(r.slots[i].seq)
  BY <1>2, <1>3, <1>5, ForgetKeeps
<1>7. CASE Refused(r, f) \/ SlotsFor(room, f) = {}
  BY <1>1, <1>3, <1>7
<1>8. CASE ~(Refused(r, f) \/ SlotsFor(room, f) = {})
  <2>1. PICK i \in SlotsFor(room, f) :
            \/ rx' = Stored(room, f, i, back)
            \/ rx' = Spoiled(room, f, i)
    BY <1>1, <1>8
  <2>2. /\ r \in RxState /\ room \in RxState
        /\ SlotsValid(r) /\ SlotsValid(room) /\ TombsFor(r.tombs, r.newest)
        /\ FramesKnown(r, F)
    BY <1>3, <1>6 DEF RInv, SessionGood
  <2>3. f.seq \in Sequence /\ f.seq \in Nat /\ f.seq # 0 /\ f.snap \in BOOLEAN
    BY SessionAssumption DEF Frame, Sequence
  <2>4. /\ f.seq \notin room.history
        /\ f.snap => f.seq > room.newest
        /\ OutOfWindow(room, f.seq) => back
        /\ f.snap => CommittedAs(f.seq) \notin Range(r.tombs)
    <3>1. ~AlreadyCommitted(r, f) /\ ~StaleSnapshot(r, f) /\ ~StaleReplay(r, f)
      BY <1>8 DEF Refused
    <3>2. f.seq \notin r.history
      BY <3>1 DEF AlreadyCommitted
    <3>3. f.snap => f.seq > r.newest
      <4>1. r.newest \in Nat
        BY <2>2, SessionTypes
      <4> QED
        BY <2>3, <3>1, <4>1 DEF StaleSnapshot
    <3>4. OutOfWindow(room, f.seq) => OutOfWindow(r, f.seq)
      BY <1>6 DEF OutOfWindow
    <3>5. f.snap => CommittedAs(f.seq) \notin Range(r.tombs)
      BY <3>1 DEF AlreadyCommitted, Range
    <3> QED
      BY <1>6, <3>1, <3>2, <3>3, <3>4, <3>5 DEF StaleReplay, back
  <2>5. \A j, k \in RxSlot : room.slots[j].seq = f.seq /\ room.slots[k].seq = f.seq
                                => j = k
    BY <2>2, <2>3 DEF SlotsValid, Occupied
  <2>6. i \in RxSlot
        /\ (room.slots[i].seq = f.seq
            \/ /\ room.slots[i].seq = 0
               /\ \A j \in RxSlot : room.slots[j].seq # f.seq)
    <3>1. CASE HoldersOf(room, f.seq) # {}
      BY <3>1 DEF SlotsFor, HoldersOf
    <3>2. CASE HoldersOf(room, f.seq) = {}
      BY <3>2 DEF SlotsFor, HoldersOf, FreeRx, Occupied
    <3> QED
      BY <3>1, <3>2
  <2>7. back \in BOOLEAN
    BY DEF back, ComesBack
  <2>8. back => f.snap
    <3> SUFFICES ASSUME ~f.snap, back PROVE FALSE
      OBVIOUS
    <3>1. PICK j \in RxSlot : r.slots[j].seq = f.seq /\ r.slots[j].retry
      BY DEF back, ComesBack
    <3>2. j \in Occupied(r) /\ r.slots[j].snap
      BY <2>2, <2>3, <3>1 DEF SlotsValid, Occupied
    <3>3. PICK k \in r.slots[j].got : FrameOfSlot(r, j, k) \in F
      BY <2>2, <3>2 DEF FramesKnown
    <3> QED
      BY <1>1, <1>3, <3>1, <3>2, <3>3 DEF FrameOfSlot, OneClass
  <2>9. f.seq \in Known(room.tombs) => back
    <3> SUFFICES ASSUME f.seq \in Known(room.tombs) PROVE back
      OBVIOUS
    <3>1. PICK y \in Range(room.tombs) : y.seq = f.seq
      BY KnownInRange
    <3>2. y \in Range(r.tombs)
      <4>1. ASSUME NEW j \in W, y = RetryOf(r.slots[j].seq) PROVE FALSE
        <5>1. r.slots[j].seq < f.seq /\ r.slots[j].seq = f.seq
          BY <1>5, <3>1, <4>1 DEF RetryOf
        <5> QED
          BY <2>3, <5>1
      <4> QED
        BY <1>6, <4>1
    <3>3. PICK k \in Fragment : [epoch |-> r.epoch, seq |-> y.seq,
                                 snap |-> TRUE, frag |-> k] \in F
      BY <2>2, <3>2 DEF FramesKnown
    <3>4. f.snap
      BY <1>1, <1>3, <3>1, <3>3 DEF OneClass
    <3>5. y \in Identity
      BY <2>2, <3>2 DEF TombsFor, Range
    <3>6. y = RetryOf(f.seq)
      <4>1. CASE y.committed
        <5>1. y = CommittedAs(f.seq)
          BY <3>1, <3>5, <4>1 DEF Identity, CommittedAs
        <5> QED
          BY <2>4, <3>2, <3>4, <5>1
      <4>2. CASE ~y.committed
        BY <3>1, <3>5, <4>2 DEF Identity, RetryOf
      <4> QED
        BY <4>1, <4>2
    <3> QED
      BY <3>2, <3>4, <3>6 DEF back, ComesBack, Range
  <2>10. f.epoch = room.epoch
    BY <1>1, <1>3, <1>6
  <2>11. CASE rx' = Stored(room, f, i, back)
    <3>1. LET q == Stored(room, f, i, back)
          IN  /\ RInv(q, F)
              /\ q.epoch = room.epoch /\ q.cancelled = room.cancelled
              /\ q.history = room.history /\ q.highest = room.highest
              /\ q.newest = room.newest
      BY <1>6, <2>4, <2>6, <2>7, <2>8, <2>9, <2>10, StoredKeeps
    <3> QED
      BY <1>3, <1>6, <2>11, <3>1
  <2>12. CASE rx' = Spoiled(room, f, i)
    <3>1. \A j \in RxSlot : room.slots[j].seq = f.seq => j = i
      BY <2>5, <2>6
    <3>2. LET q == Spoiled(room, f, i)
          IN  /\ RInv(q, F)
              /\ q.epoch = room.epoch /\ q.cancelled = room.cancelled
              /\ q.history = room.history /\ q.highest = room.highest
              /\ q.newest = room.newest
      BY <1>6, <2>4, <2>6, <2>10, <3>1, SpoiledKeeps
    <3> QED
      BY <1>3, <1>6, <2>12, <3>2
  <2> QED
    BY <2>1, <2>11, <2>12
<1> QED
  BY <1>7, <1>8

\* The window moves over the history.
LEMMA InsertedKeeps ==
    ASSUME NEW r \in RxState, HistoryValid(r), NEW seq \in Sequence
    PROVE  LET q == Inserted(r, seq)
           IN  /\ q \in RxState /\ HistoryValid(q)
               /\ q.epoch = r.epoch /\ q.cancelled = r.cancelled
               /\ q.slots = r.slots /\ q.newest = r.newest
               /\ q.tombs = r.tombs
               /\ q.highest = r.highest \/ q.highest = seq
               /\ q.highest >= r.highest
               /\ q.history \subseteq r.history \cup {seq}
               /\ \A s \in r.history \cup {seq} :
                      s \in q.history \/ OutOfWindow(q, s)
<1> DEFINE q == Inserted(r, seq)
           highest == IF seq > r.highest THEN seq ELSE r.highest
           history == {s \in r.history \cup {seq} : highest - s < Window}
<1>1. /\ MaxSeq \in Nat /\ Window \in Nat \ {0}
      /\ r.highest \in 0 .. MaxSeq /\ r.history \subseteq Sequence
      /\ r.history \subseteq Nat /\ seq \in Nat /\ seq \in 1 .. MaxSeq
  BY SessionTypes DEF Sequence
<1>2. q = [r EXCEPT !.highest = highest, !.history = history]
  BY DEF Inserted, RxState
<1>3. /\ highest \in 1 .. MaxSeq /\ highest >= r.highest /\ highest >= seq
      /\ highest = r.highest \/ highest = seq
  BY <1>1
<1>4. \A s \in r.history \cup {seq} : s \in Nat /\ s <= highest
  BY <1>1, <1>3 DEF HistoryValid
<1>5. highest \in history
  <2>1. highest \in r.history \cup {seq}
    BY <1>1, <1>3 DEF HistoryValid
  <2> QED
    BY <1>1, <1>3, <2>1
<1>6. history \subseteq r.history \cup {seq}
      /\ \A s \in history : highest - s < Window
  OBVIOUS
<1>7. \A s \in r.history \cup {seq} : s \in history \/ highest - s >= Window
  BY <1>1, <1>3, <1>4
<1> HIDE DEF highest, history, q
<1>8. history \in SUBSET Sequence /\ highest \in 0 .. MaxSeq /\ highest # 0
  BY <1>1, <1>3, <1>6
<1>9. /\ q \in RxState /\ q.epoch = r.epoch /\ q.cancelled = r.cancelled
      /\ q.slots = r.slots /\ q.newest = r.newest /\ q.tombs = r.tombs
      /\ q.highest = highest /\ q.history = history
  BY <1>2, <1>8 DEF RxState
<1>10. HistoryValid(q)
  <2>1. \A s \in history : s <= highest /\ highest - s < Window
    BY <1>4, <1>6
  <2>2. history # {}
    BY <1>5
  <2> QED
    BY <1>5, <1>9, <1>8, <2>1, <2>2 DEF HistoryValid
<1> QED
  BY <1>3, <1>4, <1>6, <1>7, <1>9, <1>10 DEF q, OutOfWindow

\* The session between the commit's two halves: the message is in the
\* history and, of a snapshot, its identity stored; the slots are as before.
SeenBy(r, seq) == IF OutOfWindow(r, seq) THEN r ELSE Inserted(r, seq)
KnownBy(r, i) ==
    IF r.slots[i].snap
    THEN SnapshotCommitted(SeenBy(r, r.slots[i].seq), r.slots[i].seq)
    ELSE SeenBy(r, r.slots[i].seq)

LEMMA KnownKeeps ==
    ASSUME NEW r, NEW F, RInv(r, F), NEW i \in RxSlot, MayCommit(r, i)
    PROVE  LET slot == r.slots[i]
               q == KnownBy(r, i)
           IN  /\ q \in RxState /\ HistoryValid(q)
               /\ q.epoch = r.epoch /\ q.cancelled = r.cancelled
               /\ q.slots = r.slots
               /\ q.newest = IF slot.snap THEN slot.seq ELSE r.newest
               /\ q.highest = r.highest \/ q.highest = slot.seq
               /\ q.highest >= r.highest
               /\ q.history \subseteq r.history \cup {slot.seq}
               /\ \A s \in r.history \cup {slot.seq} :
                      s \in q.history \/ OutOfWindow(q, s)
               /\ TombsFor(q.tombs, q.newest)
               /\ \A y \in Range(q.tombs) :
                      \/ y \in Range(r.tombs)
                      \/ slot.snap /\ y = CommittedAs(slot.seq)
<1> DEFINE slot == r.slots[i]
           seq == slot.seq
           seen == SeenBy(r, seq)
           q == KnownBy(r, i)
<1>1. r \in RxState /\ HistoryValid(r) /\ TombsFor(r.tombs, r.newest)
  BY DEF RInv, SessionGood
<1>2. /\ MaxSeq \in Nat /\ r.newest \in 0 .. MaxSeq /\ r.newest \in Nat
      /\ r.highest \in Nat
      /\ slot \in RxSlotState /\ seq \in Nat /\ slot.snap \in BOOLEAN
      /\ seq # 0 => seq \in Sequence
  BY <1>1, SessionTypes
<1>3. /\ seq # 0 /\ seq \in Sequence /\ seq \notin r.history
      /\ slot.snap => seq > r.newest
  BY <1>2 DEF MayCommit, Complete
<1> HIDE DEF slot, seq
<1>4. /\ seen \in RxState /\ HistoryValid(seen)
      /\ seen.epoch = r.epoch /\ seen.cancelled = r.cancelled
      /\ seen.slots = r.slots /\ seen.newest = r.newest
      /\ seen.tombs = r.tombs
      /\ seen.highest = r.highest \/ seen.highest = seq
      /\ seen.highest >= r.highest
      /\ seen.history \subseteq r.history \cup {seq}
      /\ \A s \in r.history \cup {seq} :
             s \in seen.history \/ OutOfWindow(seen, s)
  <2>1. CASE OutOfWindow(r, seq)
    BY <1>1, <1>2, <2>1 DEF SeenBy
  <2>2. CASE ~OutOfWindow(r, seq)
    BY <1>1, <1>3, <2>2, InsertedKeeps DEF SeenBy
  <2> QED
    BY <2>1, <2>2
<1> HIDE DEF seen
<1>5. CASE ~slot.snap
  <2>1. q = seen
    BY <1>5 DEF KnownBy, seen, slot, seq
  <2> HIDE DEF q
  <2>2. q.newest = IF slot.snap THEN seq ELSE r.newest
    BY <1>4, <1>5, <2>1
  <2>3. TombsFor(q.tombs, q.newest)
        /\ \A y \in Range(q.tombs) : y \in Range(r.tombs)
    BY <1>1, <1>4, <2>1
  <2> QED
    BY <1>4, <2>1, <2>2, <2>3 DEF q, slot, seq
<1>6. CASE slot.snap
  <2> DEFINE t == Pruned(Remember(r.tombs, CommittedAs(seq)), seq)
  <2>1. q = [seen EXCEPT !.newest = seq, !.tombs = t]
    <3>1. q = SnapshotCommitted(seen, seq)
      BY <1>6 DEF KnownBy, seen, slot, seq
    <3> QED
      BY <1>4, <3>1 DEF SnapshotCommitted, RxState
  <2>2. TombsFor(t, seq)
        /\ \A y \in Range(t) : y = CommittedAs(seq) \/ y \in Range(r.tombs)
    BY <1>1, <1>2, <1>3, <1>6, CommitRemembers
  <2>3. t \in Seq(Identity) /\ seq \in 0 .. MaxSeq
    BY <1>2, <1>3, <2>2 DEF TombsFor, Sequence
  <2> HIDE DEF t, q
  <2>4. /\ q \in RxState /\ q.epoch = seen.epoch
        /\ q.cancelled = seen.cancelled /\ q.slots = seen.slots
        /\ q.history = seen.history /\ q.highest = seen.highest
        /\ q.newest = seq /\ q.tombs = t
    BY <1>4, <2>1, <2>3 DEF RxState
  <2>5. HistoryValid(q)
    BY <1>4, <2>4 DEF HistoryValid
  <2>6. \A s : OutOfWindow(q, s) <=> OutOfWindow(seen, s)
    BY <2>4 DEF OutOfWindow
  <2> QED
    BY <1>4, <1>6, <2>2, <2>4, <2>5, <2>6 DEF q, slot, seq
<1> QED
  BY <1>5, <1>6

\* A message is committed: it goes into the history, unless it came back from
\* behind the window; what it makes useless is cleared.
LEMMA CommittedKeeps ==
    ASSUME NEW r, NEW F, RInv(r, F), NEW i \in RxSlot, MayCommit(r, i)
    PROVE  LET slot == r.slots[i]
               q == Committed(r, i)
           IN  /\ RInv(q, F)
               /\ q.epoch = r.epoch /\ q.cancelled = r.cancelled
               /\ q.newest = IF slot.snap THEN slot.seq ELSE r.newest
               /\ q.highest = r.highest \/ q.highest = slot.seq
               /\ q.highest >= r.highest
               /\ q.history \subseteq r.history \cup {slot.seq}
               /\ \A s \in r.history \cup {slot.seq} :
                      s \in q.history \/ OutOfWindow(q, s)
<1> DEFINE slot == r.slots[i]
           seq == slot.seq
           known == KnownBy(r, i)
           q == Committed(r, i)
           useless == Unreachable(known, i, slot.snap)
           back == useless \ Superseded(known, i, slot.snap)
           t == RememberSlots(known, back)
           slots == [j \in RxSlot |-> IF j \in useless \cup {i} THEN EmptyRx
                                      ELSE r.slots[j]]
<1>1. /\ r \in RxState /\ SessionGood(r) /\ FramesKnown(r, F) /\ SlotsValid(r)
      /\ TombsFor(r.tombs, r.newest)
  BY DEF RInv, SessionGood
<1>2. /\ MaxSeq \in Nat /\ r.newest \in 0 .. MaxSeq /\ r.newest \in Nat
      /\ r.history \subseteq Sequence
      /\ r.slots \in [RxSlot -> RxSlotState]
      /\ \A j \in RxSlot :
           /\ r.slots[j].seq \in Nat
           /\ r.slots[j].seq # 0 => r.slots[j].seq \in Sequence
           /\ r.slots[j].snap \in BOOLEAN /\ r.slots[j].retry \in BOOLEAN
           /\ r.slots[j].got \subseteq Fragment
      /\ \A j \in Occupied(r) : j \in RxSlot /\ r.slots[j].seq # 0
      /\ \A j \in RxSlot : r.slots[j].seq # 0 => j \in Occupied(r)
  BY <1>1, SessionTypes
<1>3. i \in Occupied(r) /\ seq # 0 /\ seq \in Sequence
      /\ (slot.snap => seq > r.newest)
  BY <1>2 DEF MayCommit, Complete
<1>4. /\ known \in RxState /\ HistoryValid(known)
      /\ known.epoch = r.epoch /\ known.cancelled = r.cancelled
      /\ known.slots = r.slots
      /\ known.newest = IF slot.snap THEN seq ELSE r.newest
      /\ known.highest = r.highest \/ known.highest = seq
      /\ known.highest >= r.highest
      /\ known.history \subseteq r.history \cup {seq}
      /\ \A s \in r.history \cup {seq} :
             s \in known.history \/ OutOfWindow(known, s)
      /\ TombsFor(known.tombs, known.newest)
      /\ \A y \in Range(known.tombs) :
             \/ y \in Range(r.tombs)
             \/ slot.snap /\ y = CommittedAs(seq)
  BY KnownKeeps
<1>5. q = [known EXCEPT
             !.slots = [j \in RxSlot |-> IF j \in useless \cup {i} THEN EmptyRx
                                         ELSE @[j]],
             !.tombs = t]
  BY DEF Committed, KnownBy, SeenBy
<1> HIDE DEF known, q
<1>6. Occupied(known) = Occupied(r)
  BY <1>4 DEF Occupied
<1>7. /\ useless \subseteq RxSlot /\ back \in SUBSET RxSlot
      /\ back \subseteq useless /\ back \subseteq Occupied(r) /\ i \notin back
      /\ \A j \in Occupied(r) : j \notin useless /\ j # i =>
             /\ ~(slot.snap /\ r.slots[j].snap
                            /\ r.slots[j].seq <= known.newest)
             /\ OutOfWindow(known, r.slots[j].seq) => r.slots[j].retry
      /\ \A j \in back : ~(slot.snap /\ r.slots[j].snap
                                     /\ r.slots[j].seq <= known.newest)
  BY <1>2, <1>4, <1>6 DEF Unreachable, Superseded
<1> HIDE DEF useless, back
<1>8. known.newest \in Nat /\ known.newest \in 0 .. MaxSeq
  BY <1>4, SessionTypes
<1>9. \A j \in Occupied(r) : r.slots[j].snap => r.slots[j].seq > r.newest
  BY <1>1, <1>2 DEF SlotsValid
<1>10. \A j \in back : r.slots[j].snap =>
           r.slots[j].seq \in Sequence /\ r.slots[j].seq > known.newest
  <2> SUFFICES ASSUME NEW j \in back, r.slots[j].snap
               PROVE  r.slots[j].seq \in Sequence
                      /\ r.slots[j].seq > known.newest
    OBVIOUS
  <2>1. j \in Occupied(r) /\ r.slots[j].seq \in Sequence
        /\ r.slots[j].seq \in Nat
    BY <1>2, <1>7
  <2>2. CASE slot.snap
    BY <1>7, <1>8, <2>1, <2>2
  <2>3. CASE ~slot.snap
    BY <1>4, <1>9, <2>1, <2>3
  <2> QED
    BY <2>1, <2>2, <2>3
<1>11. /\ TombsFor(t, known.newest)
       /\ Range(t) \subseteq Range(known.tombs) \cup RetriesOf(known, back)
  <2>1. \A j \in back : known.slots[j].snap =>
            known.slots[j].seq \in Sequence /\ known.slots[j].seq > known.newest
    BY <1>4, <1>10
  <2> QED
    BY <1>4, <1>7, <1>8, <2>1, SlotsRemembered
<1>12. \A y \in Range(t) :
           \/ y \in Range(r.tombs)
           \/ slot.snap /\ y = CommittedAs(seq)
           \/ \E j \in back : /\ r.slots[j].snap
                              /\ y = RetryOf(r.slots[j].seq)
  BY <1>4, <1>11 DEF RetriesOf
<1>13. slots \in [RxSlot -> RxSlotState]
       /\ \A j \in RxSlot : slots[j] = IF j \in useless \cup {i} THEN EmptyRx
                                       ELSE r.slots[j]
  BY <1>2, EmptySlot
<1>14. q = [known EXCEPT !.slots = slots, !.tombs = t]
  BY <1>4, <1>5 DEF RxState
<1>15. t \in Seq(Identity)
  BY <1>11 DEF TombsFor
<1> HIDE DEF slots, t
<1>16. /\ q \in RxState /\ q.epoch = r.epoch /\ q.cancelled = r.cancelled
       /\ q.history = known.history /\ q.highest = known.highest
       /\ q.newest = known.newest /\ q.slots = slots /\ q.tombs = t
  BY <1>4, <1>13, <1>14, <1>15 DEF RxState
<1>17. \A s : OutOfWindow(q, s) <=> OutOfWindow(known, s)
  BY <1>16 DEF OutOfWindow
<1>18. \A j \in Occupied(q) : /\ j \in RxSlot /\ j # i /\ j \notin useless
                              /\ j \in Occupied(r) /\ q.slots[j] = r.slots[j]
  BY <1>2, <1>13, <1>16, EmptySlot DEF Occupied
<1>19. \A j \in Occupied(r) : j # i => r.slots[j].seq # seq
  BY <1>1, <1>3 DEF SlotsValid
<1>20. \A j \in Occupied(r) : j # i => r.slots[j].seq \notin q.history
  BY <1>1, <1>4, <1>16, <1>19 DEF SlotsValid
<1>21. \A y \in Range(t) : y.seq \in q.history => y.committed
  <2> SUFFICES ASSUME NEW y \in Range(t), y.seq \in q.history
               PROVE  y.committed
    OBVIOUS
  <2>1. CASE y \in Range(r.tombs)
    <3>1. CASE y.seq \in r.history
      BY <1>1, <2>1, <3>1 DEF SessionGood
    <3>2. CASE y.seq = seq
      <4>1. slot.snap
        <5>1. seq \in Known(r.tombs)
          BY <2>1, <3>2, KnownInRange
        <5> QED
          BY <1>1, <1>3, <5>1 DEF SlotsValid
      <4> QED
        BY <1>4, <1>11, <1>16, <3>2, <4>1 DEF TombsFor
    <3> QED
      BY <1>4, <1>16, <3>1, <3>2
  <2>2. CASE slot.snap /\ y = CommittedAs(seq)
    BY <2>2 DEF CommittedAs
  <2>3. ASSUME NEW j \in back, y = RetryOf(r.slots[j].seq)
        PROVE  FALSE
    BY <1>7, <1>20, <2>3 DEF RetryOf
  <2> QED
    BY <1>12, <2>1, <2>2, <2>3
<1>22. \A j \in RxSlot : q.slots[j].seq = 0 => q.slots[j] = EmptyRx
  BY <1>1, <1>13, <1>16 DEF SessionGood
<1>23. HistoryValid(q)
  BY <1>4, <1>16 DEF HistoryValid
<1>24. ASSUME NEW j \in Occupied(q)
       PROVE  /\ q.slots[j].retry => q.slots[j].snap
              /\ q.slots[j].seq \in Known(q.tombs) =>
                     q.slots[j].snap /\ q.slots[j].retry
                     /\ q.slots[j].seq # q.newest
              /\ q.slots[j].snap /\ q.newest # 0 => q.slots[j].seq > q.newest
              /\ OutOfWindow(q, q.slots[j].seq) => q.slots[j].retry
              /\ q.slots[j].seq \notin q.history
              /\ \A k \in Occupied(q) : q.slots[k].seq = q.slots[j].seq => k = j
  <2>1. /\ j \in RxSlot /\ j # i /\ j \notin useless
        /\ j \in Occupied(r) /\ q.slots[j] = r.slots[j]
        /\ r.slots[j].seq \in Nat
    BY <1>2, <1>18
  <2>2. /\ r.slots[j].retry => r.slots[j].snap
        /\ r.slots[j].seq \in Known(r.tombs) =>
               r.slots[j].snap /\ r.slots[j].retry /\ r.slots[j].seq # r.newest
        /\ r.slots[j].snap => r.slots[j].seq > r.newest
    BY <1>1, <1>9, <2>1 DEF SlotsValid
  <2>3. q.slots[j].seq \in Known(q.tombs) => r.slots[j].seq \in Known(r.tombs)
    <3> SUFFICES ASSUME q.slots[j].seq \in Known(q.tombs)
                 PROVE  r.slots[j].seq \in Known(r.tombs)
      OBVIOUS
    <3>1. PICK y \in Range(t) : y.seq = r.slots[j].seq
      BY <1>16, <2>1, KnownInRange
    <3>2. y # CommittedAs(seq)
      BY <1>19, <2>1, <3>1 DEF CommittedAs
    <3>3. ASSUME NEW k \in back, y = RetryOf(r.slots[k].seq)
          PROVE  FALSE
      <4>1. k \in Occupied(r) /\ k \in useless
            /\ r.slots[k].seq = r.slots[j].seq
        BY <1>7, <3>1, <3>3 DEF RetryOf
      <4>2. k = j
        BY <1>1, <2>1, <4>1 DEF SlotsValid
      <4> QED
        BY <2>1, <4>1, <4>2
    <3> QED
      BY <1>12, <3>1, <3>2, <3>3, KnownInRange
  <2>4. r.slots[j].seq # seq
    BY <1>19, <2>1
  <2>5. r.slots[j].snap => r.slots[j].seq > known.newest
    <3>1. CASE slot.snap
      BY <1>7, <1>8, <2>1, <3>1
    <3>2. CASE ~slot.snap
      BY <1>4, <2>2, <3>2
    <3> QED
      BY <3>1, <3>2
  <2>6. OutOfWindow(known, r.slots[j].seq) => r.slots[j].retry
    BY <1>7, <2>1
  <2>7. \A k \in Occupied(q) : q.slots[k].seq = q.slots[j].seq => k = j
    BY <1>1, <1>18, <2>1 DEF SlotsValid
  <2>8. q.slots[j].seq # q.newest \/ ~q.slots[j].snap
    BY <1>8, <1>16, <2>1, <2>5
  <2> QED
    BY <1>16, <1>17, <1>20, <2>1, <2>2, <2>3, <2>5, <2>6, <2>7, <2>8
<1>25. SlotsValid(q)
  BY <1>24 DEF SlotsValid
<1>26. FramesKnown(q, F)
  <2>1. \A j \in Occupied(q) :
            /\ q.slots[j].got # {}
            /\ \A k \in q.slots[j].got : FrameOfSlot(q, j, k) \in F
    BY <1>1, <1>16, <1>18 DEF FramesKnown, FrameOfSlot
  <2>2. \A j \in Occupied(r) : r.slots[j].snap =>
            \E k \in Fragment : [epoch |-> r.epoch, seq |-> r.slots[j].seq,
                                 snap |-> TRUE, frag |-> k] \in F
    <3> SUFFICES ASSUME NEW j \in Occupied(r), r.slots[j].snap
                 PROVE  \E k \in Fragment :
                            [epoch |-> r.epoch, seq |-> r.slots[j].seq,
                             snap |-> TRUE, frag |-> k] \in F
      OBVIOUS
    <3>1. PICK k \in r.slots[j].got : FrameOfSlot(r, j, k) \in F
      BY <1>1 DEF FramesKnown
    <3>2. k \in Fragment /\ r.slots[j].snap = TRUE
      BY <1>2
    <3> QED
      BY <3>1, <3>2 DEF FrameOfSlot
  <2>3. ASSUME NEW y \in Range(t)
        PROVE  \E k \in Fragment : [epoch |-> r.epoch, seq |-> y.seq,
                                    snap |-> TRUE, frag |-> k] \in F
    <3>1. CASE y \in Range(r.tombs)
      BY <1>1, <3>1 DEF FramesKnown
    <3>2. CASE slot.snap /\ y = CommittedAs(seq)
      <4>1. y.seq = r.slots[i].seq
        BY <3>2 DEF CommittedAs
      <4> QED
        BY <1>3, <2>2, <3>2, <4>1
    <3>3. ASSUME NEW j \in back, r.slots[j].snap, y = RetryOf(r.slots[j].seq)
          PROVE  \E k \in Fragment : [epoch |-> r.epoch, seq |-> y.seq,
                                      snap |-> TRUE, frag |-> k] \in F
      <4>1. y.seq = r.slots[j].seq /\ j \in Occupied(r)
        BY <1>7, <3>3 DEF RetryOf
      <4> QED
        BY <2>2, <3>3, <4>1
    <3> QED
      BY <1>12, <3>1, <3>2, <3>3
  <2> QED
    BY <1>16, <2>1, <2>3 DEF FramesKnown
<1>27. RInv(q, F)
  BY <1>11, <1>16, <1>21, <1>22, <1>23, <1>25, <1>26 DEF RInv, SessionGood
<1> QED
  BY <1>4, <1>16, <1>17, <1>27 DEF q

\* A session that starts, or starts over, has nothing.
LEMMA FreshKeeps ==
    ASSUME NEW epoch \in SessionEpoch, NEW F
    PROVE  LET q == FreshRx(epoch)
           IN  /\ RInv(q, F) /\ q.epoch = epoch /\ q.cancelled = FALSE
               /\ q.history = {} /\ q.highest = 0 /\ q.newest = 0
<1> DEFINE q == FreshRx(epoch)
           slots == [i \in RxSlot |-> EmptyRx]
<1>1. slots \in [RxSlot -> RxSlotState]
      /\ \A i \in RxSlot : slots[i] = EmptyRx
  BY EmptySlot
<1>2. MaxSeq \in Nat /\ Tombstones \in Nat
  BY SessionAssumption, RxAssumption
<1>3. <<>> \in Seq(Identity) /\ Len(<<>>) = 0 /\ DOMAIN <<>> = {}
      /\ Range(<<>>) = {}
  BY DEF Range
<1>4. q = [epoch |-> epoch, cancelled |-> FALSE, slots |-> slots,
           history |-> {}, highest |-> 0, newest |-> 0, tombs |-> <<>>]
  BY DEF FreshRx
<1> HIDE DEF slots, q
<1>5. /\ q \in RxState /\ q.epoch = epoch /\ q.cancelled = FALSE
      /\ q.history = {} /\ q.highest = 0 /\ q.newest = 0 /\ q.tombs = <<>>
      /\ q.slots = slots
  BY <1>1, <1>2, <1>3, <1>4 DEF RxState
<1>6. Occupied(q) = {}
  BY <1>1, <1>5, EmptySlot DEF Occupied
<1>7. TombsFor(q.tombs, q.newest)
  BY <1>2, <1>3, <1>5 DEF TombsFor, Distinct
<1>8. HistoryValid(q) /\ SlotsValid(q) /\ FramesKnown(q, F)
  BY <1>3, <1>5, <1>6 DEF HistoryValid, SlotsValid, FramesKnown
<1>9. RInv(q, F)
  BY <1>1, <1>3, <1>5, <1>7, <1>8 DEF RInv, SessionGood
<1> QED
  BY <1>5, <1>9 DEF q

\* A cancelled session keeps its history and its identities.
LEMMA CancelKeeps ==
    ASSUME NEW F, RInv(rx, F), CancelPending
    PROVE  /\ RInv(rx', F) /\ rx'.epoch = rx.epoch /\ rx'.cancelled = TRUE
           /\ rx'.history = rx.history /\ rx'.highest = rx.highest
           /\ rx'.newest = rx.newest
<1> DEFINE slots == [i \in RxSlot |-> EmptyRx]
<1>1. slots \in [RxSlot -> RxSlotState]
      /\ \A i \in RxSlot : slots[i] = EmptyRx
  BY EmptySlot
<1>2. /\ rx \in RxState /\ SessionGood(rx) /\ FramesKnown(rx, F)
      /\ TombsFor(rx.tombs, rx.newest)
  BY DEF RInv, SessionGood
<1>3. rx' = [rx EXCEPT !.cancelled = TRUE, !.slots = slots]
  BY DEF CancelPending
<1> HIDE DEF slots
<1>4. /\ rx' \in RxState /\ rx'.epoch = rx.epoch /\ rx'.cancelled = TRUE
      /\ rx'.history = rx.history /\ rx'.highest = rx.highest
      /\ rx'.newest = rx.newest /\ rx'.tombs = rx.tombs /\ rx'.slots = slots
  BY <1>1, <1>2, <1>3 DEF RxState
<1>5. Occupied(rx') = {}
  BY <1>1, <1>4, EmptySlot DEF Occupied
<1>6. HistoryValid(rx') /\ SlotsValid(rx')
  BY <1>2, <1>4, <1>5 DEF SessionGood, HistoryValid, SlotsValid
<1>7. FramesKnown(rx', F)
  BY <1>2, <1>4, <1>5 DEF FramesKnown
<1>8. \A y \in Range(rx'.tombs) : y.seq \in rx'.history => y.committed
  BY <1>2, <1>4 DEF SessionGood
<1>9. RInv(rx', F)
  BY <1>1, <1>2, <1>4, <1>6, <1>7, <1>8 DEF RInv, SessionGood
<1> QED
  BY <1>4, <1>9

\* More frames may be around.
LEMMA MoreFrames ==
    ASSUME NEW r, NEW F, RInv(r, F), NEW G, F \subseteq G
    PROVE  RInv(r, G)
<1>1. FramesKnown(r, G)
  <2>1. FramesKnown(r, F)
    BY DEF RInv
  <2> QED
    BY <2>1 DEF FramesKnown
<1> QED
  BY <1>1 DEF RInv

\* A message that the receiver knows to be committed is in the history or is
\* the newest snapshot.
LEMMA CommittedIsNewest ==
    ASSUME NEW r, NEW F, RInv(r, F), NEW f \in Frame, AlreadyCommitted(r, f)
    PROVE  f.seq \in r.history \/ (r.newest # 0 /\ f.seq = r.newest)
<1>1. TombsFor(r.tombs, r.newest)
  BY DEF RInv, SessionGood
<1>2. f.seq # 0
  BY SessionAssumption DEF Frame, Sequence
<1>3. CASE f.seq \in r.history
  BY <1>3
<1>4. ASSUME NEW k \in DOMAIN r.tombs, r.tombs[k] = CommittedAs(f.seq)
      PROVE  r.newest # 0 /\ f.seq = r.newest
  BY <1>1, <1>2, <1>4 DEF TombsFor, Range, CommittedAs
<1> QED
  BY <1>3, <1>4 DEF AlreadyCommitted

-----------------------------------------------------------------------------
(***************************************************************************)
(* The two halves and the network between them.                            *)
(***************************************************************************)
SenderTypes ==
    /\ tx \in TxState
    /\ gate \in {NoBurst} \cup Burst
    /\ sent \subseteq Frame

\* One number, one message; one snapshot; no reliable message a window behind.
SenderInv ==
    /\ tx.exhausted => tx.next = MaxSeq
    /\ tx.cancelled => Retained = {} /\ gate = NoBurst
    /\ \A i \in Retained : tx.slots[i].seq <= Highwater
    /\ \A i, j \in Retained : tx.slots[i].seq = tx.slots[j].seq => i = j
    /\ \A i, j \in RetainedSnapshot : i = j
    /\ \A i \in RetainedReliable : Highwater - tx.slots[i].seq < Window

FrameOf(t, k) ==
    [epoch |-> t.epoch, seq |-> t.copy.seq, snap |-> t.copy.snap, frag |-> k]

\* The burst's fragments so far are out, and its ticket is a true copy of the
\* slot as long as any slot has the message.
GateInv ==
    gate.active =>
        /\ gate.ticket.epoch = tx.epoch
        /\ gate.ticket.copy.seq # 0
        /\ gate.ticket.copy.seq <= Highwater
        /\ gate.ticket.copy.attempts < MaxAttempts
        /\ \A k \in 1 .. gate.done : FrameOf(gate.ticket, k) \in sent
        /\ \A i \in Retained : tx.slots[i].seq = gate.ticket.copy.seq =>
               i = gate.ticket.slot /\ tx.slots[i] = gate.ticket.copy
        /\ \A f \in sent :
               f.epoch = tx.epoch /\ f.seq = gate.ticket.copy.seq =>
                   f.snap = gate.ticket.copy.snap

\* What was sent has one class, is of a number that was given out, and a last
\* fragment is out only if the attempt was counted.
NetworkInv ==
    /\ \A f \in sent :
          /\ f.epoch <= tx.epoch
          /\ f.epoch = tx.epoch => f.seq <= Highwater
          /\ \A i \in Retained : f.epoch = tx.epoch /\ f.seq = tx.slots[i].seq =>
                 /\ f.snap = tx.slots[i].snap
                 /\ f.frag = FragmentCount => tx.slots[i].attempts > 0
    /\ \A f, g \in sent : f.epoch = g.epoch /\ f.seq = g.seq => f.snap = g.snap
    /\ AttemptsReal

SInv == SenderTypes /\ SenderInv /\ GateInv /\ NetworkInv

-----------------------------------------------------------------------------
(***************************************************************************)
(* The sender.                                                             *)
(***************************************************************************)
LEMMA TxTypes ==
    ASSUME tx \in TxState
    PROVE  /\ tx.epoch \in Nat /\ tx.next \in Nat /\ tx.next \in 1 .. MaxSeq
           /\ MaxSeq \in Nat /\ tx.exhausted \in BOOLEAN
           /\ Highwater \in 0 .. MaxSeq
           /\ \A i \in TxSlot :
                 /\ tx.slots[i].seq \in Nat /\ tx.slots[i].seq \in 0 .. MaxSeq
                 /\ tx.slots[i].attempts \in Nat
                 /\ tx.slots[i].snap \in BOOLEAN
           /\ \A i \in Retained : i \in TxSlot /\ tx.slots[i].seq # 0
<1>1. tx.epoch \in SessionEpoch /\ tx.next \in Sequence /\ tx.exhausted \in BOOLEAN
      /\ tx.slots \in [TxSlot -> TxSlotState]
  BY DEF TxState
<1>2. MaxSeq \in Nat /\ MaxEpoch \in Nat
  BY SessionAssumption
<1>3. \A i \in TxSlot : tx.slots[i] \in TxSlotState
  BY <1>1
<1>4. MaxAttempts \in Nat
  BY TxAssumption
<1>5. \A i \in TxSlot :
          /\ tx.slots[i].seq \in 0 .. MaxSeq
          /\ tx.slots[i].attempts \in 0 .. MaxAttempts
          /\ tx.slots[i].snap \in BOOLEAN
  BY <1>3 DEF TxSlotState
<1>6. Highwater \in 0 .. MaxSeq
  BY <1>1, <1>2 DEF Highwater, Sequence
<1> QED
  BY <1>1, <1>2, <1>4, <1>5, <1>6 DEF SessionEpoch, Sequence, Retained

\* A new message takes the next number.
LEMMA OfferKeeps ==
    ASSUME SInv, NEW snap \in BOOLEAN, Offer(snap)
    PROVE  SInv'
<1>1. PICK i \in TxSlot :
          /\ Retain(i, snap)
          /\ \/ i \in RetainedSnapshot /\ snap
             \/ snap => RetainedSnapshot = {}
  <2>1. CASE \E i \in RetainedSnapshot : snap /\ Retain(i, TRUE)
    <3>1. PICK i \in RetainedSnapshot : snap /\ Retain(i, TRUE)
      BY <2>1
    <3>2. i \in TxSlot /\ snap = TRUE
      BY <3>1 DEF RetainedSnapshot, Retained
    <3> QED
      BY <3>1, <3>2
  <2>2. CASE /\ ~snap \/ RetainedSnapshot = {}
             /\ FreeTx # {} /\ Retain(FirstFree, snap)
    <3>1. FirstFree \in FreeTx
      <4>1. FreeTx \subseteq Nat
        BY DEF FreeTx, TxSlot
      <4>2. \E i \in FreeTx : \A j \in FreeTx : i <= j
        BY <2>2, <4>1, SmallestExists
      <4> QED
        BY <4>2 DEF FirstFree
    <3> QED
      BY <2>2, <3>1 DEF FreeTx
  <2> QED
    BY <2>1, <2>2 DEF Offer, Enqueue
<1> DEFINE new == [seq |-> tx.next, snap |-> snap, attempts |-> 0]
<1>2. /\ tx' = [tx EXCEPT !.exhausted = (tx.next = MaxSeq),
                          !.next = IF tx.next = MaxSeq THEN @ ELSE @ + 1,
                          !.slots = [@ EXCEPT ![i] = new]]
      /\ gate' = gate /\ sent' = sent
      /\ ~tx.cancelled /\ ~tx.exhausted /\ WindowOpen
  BY ZenonT(40), <1>1 DEF Retain, Offer, Enqueue
<1>3. /\ tx \in TxState /\ tx.next \in Nat /\ tx.next \in 1 .. MaxSeq
      /\ MaxSeq \in Nat /\ Highwater = tx.next - 1
  BY <1>2, TxTypes DEF SInv, SenderTypes, Highwater
<1>4. new \in TxSlotState /\ new.seq = tx.next /\ new.snap = snap
      /\ new.attempts = 0
  BY <1>3, TxAssumption DEF TxSlotState
<1> DEFINE next == IF tx.next = MaxSeq THEN tx.next ELSE tx.next + 1
           slots == [tx.slots EXCEPT ![i] = new]
<1>5. next \in Sequence /\ (tx.next = MaxSeq => next = MaxSeq)
      /\ (tx.next # MaxSeq => next = tx.next + 1)
  BY <1>3 DEF Sequence
<1> HIDE DEF new
<1>6. /\ slots \in [TxSlot -> TxSlotState]
      /\ slots[i] = new
      /\ \A j \in TxSlot : j # i => slots[j] = tx.slots[j]
  BY <1>3, <1>4 DEF TxState
<1>7. tx' = [tx EXCEPT !.exhausted = (tx.next = MaxSeq), !.next = next,
                       !.slots = slots]
  BY <1>2, <1>3 DEF TxState
<1> HIDE DEF next, slots
<1>8. /\ tx' \in TxState /\ tx'.next = next /\ tx'.slots = slots
      /\ tx'.exhausted = (tx.next = MaxSeq) /\ tx'.epoch = tx.epoch
      /\ tx'.cancelled = FALSE
  BY <1>2, <1>3, <1>5, <1>6, <1>7 DEF TxState
<1>9. Highwater' = tx.next
  <2>1. CASE tx.next = MaxSeq
    BY <1>8, <2>1 DEF Highwater
  <2>2. CASE tx.next # MaxSeq
    <3>1. tx'.exhausted = FALSE /\ tx'.next = tx.next + 1
      BY <1>5, <1>8, <2>2
    <3>2. Highwater' = tx'.next - 1
      BY <3>1 DEF Highwater
    <3> QED
      BY <1>3, <3>1, <3>2
  <2> QED
    BY <2>1, <2>2
<1>10. \A j \in TxSlot : /\ tx.slots[j].seq \in Nat
                         /\ tx.slots[j].attempts \in Nat
                         /\ tx.slots[j].snap \in BOOLEAN
  BY TxTypes DEF SInv, SenderTypes
<1>11. \A j \in TxSlot : /\ j # i => tx'.slots[j] = tx.slots[j]
                         /\ j \in Retained' <=> j = i \/ j \in Retained
  BY <1>3, <1>4, <1>6, <1>8 DEF Retained
<1>12. /\ tx'.slots[i].seq = tx.next /\ tx'.slots[i].snap = snap
       /\ tx'.slots[i].attempts = 0
  BY <1>4, <1>6, <1>8
<1>13. \A j \in Retained : tx.slots[j].seq < tx.next
  BY <1>3, <1>10 DEF SInv, SenderInv, Retained
<1>14. SenderTypes'
  BY <1>2, <1>8 DEF SInv, SenderTypes
<1>15. SenderInv'
  <2>1. tx'.exhausted => tx'.next = MaxSeq
    BY <1>5, <1>8
  <2>2. \A j \in Retained' : tx'.slots[j].seq <= Highwater'
    BY <1>3, <1>9, <1>10, <1>11, <1>12, <1>13 DEF Retained
  <2>3. \A j, k \in Retained' : tx'.slots[j].seq = tx'.slots[k].seq => j = k
    <3> SUFFICES ASSUME NEW j \in Retained', NEW k \in Retained',
                        tx'.slots[j].seq = tx'.slots[k].seq
                 PROVE  j = k
      OBVIOUS
    <3>1. j \in TxSlot /\ k \in TxSlot
      BY DEF Retained
    <3>2. j # i => j \in Retained /\ tx'.slots[j].seq < tx.next
      BY <1>11, <1>13, <3>1
    <3>3. k # i => k \in Retained /\ tx'.slots[k].seq < tx.next
      BY <1>11, <1>13, <3>1
    <3>4. j # i /\ k # i => j = k
      BY <1>11, <3>1, <3>2, <3>3 DEF SInv, SenderInv
    <3> QED
      BY <1>3, <1>12, <3>2, <3>3, <3>4
  <2>4. \A j, k \in RetainedSnapshot' : j = k
    <3> SUFFICES ASSUME NEW j \in RetainedSnapshot', NEW k \in RetainedSnapshot'
                 PROVE  j = k
      OBVIOUS
    <3>1. /\ j \in TxSlot /\ k \in TxSlot /\ j \in Retained' /\ k \in Retained'
          /\ tx'.slots[j].snap /\ tx'.slots[k].snap
      BY DEF RetainedSnapshot, Retained
    <3>2. j # i => j \in RetainedSnapshot
      BY <1>11, <3>1 DEF RetainedSnapshot
    <3>3. k # i => k \in RetainedSnapshot
      BY <1>11, <3>1 DEF RetainedSnapshot
    <3>4. CASE snap
      BY <1>1, <3>2, <3>3, <3>4 DEF SInv, SenderInv
    <3>5. CASE ~snap
      BY <1>12, <3>1, <3>2, <3>3, <3>5 DEF SInv, SenderInv
    <3> QED
      BY <3>4, <3>5
  <2>5. \A j \in RetainedReliable' : Highwater' - tx'.slots[j].seq < Window
    <3> SUFFICES ASSUME NEW j \in RetainedReliable'
                 PROVE  Highwater' - tx'.slots[j].seq < Window
      OBVIOUS
    <3>1. j \in TxSlot /\ j \in Retained' /\ ~tx'.slots[j].snap
      BY DEF RetainedReliable, Retained
    <3>2. CASE j = i
      BY <1>3, <1>9, <1>12, <3>2, SessionAssumption
    <3>3. CASE j # i
      BY <1>2, <1>9, <1>11, <3>1, <3>3 DEF WindowOpen, RetainedReliable
    <3> QED
      BY <3>2, <3>3
  <2> QED
    BY <1>8, <2>1, <2>2, <2>3, <2>4, <2>5 DEF SenderInv
<1>16. GateInv'
  <2> SUFFICES ASSUME gate.active PROVE GateInv'
    BY <1>2 DEF GateInv
  <2>1. gate \in Burst
    BY DEF SInv, SenderTypes, NoBurst
  <2>2. gate.ticket.copy.seq \in Nat
    BY <1>3, <2>1 DEF Burst, Ticket, TxSlotState
  <2>3. /\ gate.ticket.epoch = tx.epoch /\ gate.ticket.copy.seq # 0
        /\ gate.ticket.copy.seq < tx.next
        /\ gate.ticket.copy.attempts < MaxAttempts
        /\ \A k \in 1 .. gate.done : FrameOf(gate.ticket, k) \in sent
    BY <1>3, <2>2 DEF SInv, GateInv
  <2>4. ASSUME NEW j \in Retained', tx'.slots[j].seq = gate.ticket.copy.seq
        PROVE  j = gate.ticket.slot /\ tx'.slots[j] = gate.ticket.copy
    <3>1. j \in TxSlot /\ j # i
      BY <1>3, <1>12, <2>2, <2>3, <2>4 DEF Retained
    <3> QED
      BY <1>11, <2>4, <3>1 DEF SInv, GateInv
  <2>5. \A f \in sent : f.epoch = tx.epoch /\ f.seq = gate.ticket.copy.seq =>
                            f.snap = gate.ticket.copy.snap
    BY DEF SInv, GateInv
  <2>6. gate.ticket.copy.seq <= Highwater'
    BY <1>3, <1>9, <2>2, <2>3
  <2> QED
    BY <1>2, <1>8, <2>3, <2>4, <2>5, <2>6 DEF GateInv, FrameOf
<1>17. NetworkInv'
  <2>1. \A f \in sent : f.seq \in Nat /\ f.epoch \in Nat
    BY <1>3 DEF SInv, SenderTypes, Frame, Sequence, SessionEpoch
  <2>2. \A f \in sent : f.epoch <= tx.epoch
                        /\ (f.epoch = tx.epoch => f.seq < tx.next)
    BY <1>3, <2>1 DEF SInv, NetworkInv
  <2>3. ASSUME NEW f \in sent, NEW j \in Retained', f.epoch = tx.epoch,
               f.seq = tx'.slots[j].seq
        PROVE  /\ f.snap = tx'.slots[j].snap
               /\ f.frag = FragmentCount => tx'.slots[j].attempts > 0
    <3>1. j \in TxSlot /\ j # i
      BY <1>3, <1>12, <2>1, <2>2, <2>3 DEF Retained
    <3> QED
      BY <1>11, <2>3, <3>1 DEF SInv, NetworkInv
  <2>4. AttemptsReal'
    <3> SUFFICES ASSUME NEW j \in Retained', tx'.slots[j].attempts > 0,
                        NEW k \in Fragment
                 PROVE  [epoch |-> tx.epoch, seq |-> tx'.slots[j].seq,
                         snap |-> tx'.slots[j].snap, frag |-> k] \in sent
      BY <1>2, <1>8 DEF AttemptsReal
    <3>1. j \in TxSlot /\ j # i
      BY <1>12 DEF Retained
    <3> QED
      BY <1>11, <3>1 DEF SInv, NetworkInv, AttemptsReal
  <2>5. \A f \in sent : f.epoch = tx.epoch => f.seq <= Highwater'
    BY <1>3, <1>9, <2>1, <2>2
  <2>6. \A f, g \in sent : f.epoch = g.epoch /\ f.seq = g.seq => f.snap = g.snap
    BY DEF SInv, NetworkInv
  <2> QED
    BY <1>2, <1>8, <2>2, <2>3, <2>4, <2>5, <2>6 DEF NetworkInv
<1> QED
  BY <1>14, <1>15, <1>16, <1>17 DEF SInv

\* Slots are only cleared, and the burst goes on or ends.
LEMMA ShrinkKeeps ==
    ASSUME SInv, tx' \in TxState,
           tx'.next = tx.next, tx'.exhausted = tx.exhausted,
           tx'.epoch = tx.epoch,
           \A i \in TxSlot : tx'.slots[i] = tx.slots[i] \/ tx'.slots[i] = EmptyTx,
           \/ gate' = NoBurst
           \/ gate' = gate
           \/ /\ gate.active /\ gate' \in Burst
              /\ gate'.ticket = gate.ticket /\ gate'.done = gate.done,
           sent' = sent,
           tx'.cancelled => Retained' = {} /\ gate' = NoBurst
    PROVE  SInv'
<1>1. Highwater' = Highwater
  BY DEF Highwater
<1>2. \A i \in Retained' : i \in Retained /\ tx'.slots[i] = tx.slots[i]
  BY DEF Retained, EmptyTx
<1>3. SenderTypes'
  BY DEF SInv, SenderTypes
<1>4. SenderInv'
  <2>1. \A i \in RetainedSnapshot' : i \in RetainedSnapshot
    BY <1>2 DEF RetainedSnapshot
  <2>2. \A i \in RetainedReliable' : i \in RetainedReliable
    BY <1>2 DEF RetainedReliable
  <2>3. \A i \in RetainedReliable' : tx'.slots[i] = tx.slots[i]
    BY <1>2 DEF RetainedReliable
  <2>4. \A i \in RetainedReliable' : Highwater' - tx'.slots[i].seq < Window
    BY <1>1, <2>2, <2>3 DEF SInv, SenderInv
  <2> QED
    BY <1>1, <1>2, <2>1, <2>4 DEF SInv, SenderInv
<1>5. GateInv'
  <2> SUFFICES ASSUME gate'.active PROVE GateInv'
    BY DEF GateInv
  <2>1. gate.active /\ gate'.ticket = gate.ticket /\ gate'.done = gate.done
    BY DEF NoBurst
  <2> QED
    BY <1>1, <1>2, <2>1 DEF SInv, GateInv, FrameOf
<1>6. NetworkInv'
  <2>1. AttemptsReal'
    BY <1>2 DEF SInv, NetworkInv, AttemptsReal
  <2> QED
    BY <1>1, <1>2, <2>1 DEF SInv, NetworkInv
<1> QED
  BY <1>3, <1>4, <1>5, <1>6 DEF SInv

LEMMA SenderUnchanged ==
    ASSUME SInv, UNCHANGED <<tx, gate, sent>>
    PROVE  SInv'
<1>1. /\ tx' \in TxState
      /\ tx'.cancelled => Retained' = {} /\ gate' = NoBurst
  BY DEF SInv, SenderTypes, SenderInv, Retained
<1> QED
  BY <1>1, ShrinkKeeps

\* A ticket is a copy of its slot.
LEMMA BeginKeeps ==
    ASSUME SInv, NEW i \in TxSlot, DispatchBegin(i)
    PROVE  SInv'
<1>1. /\ gate' = [active |-> TRUE, ticket |-> TicketFor(i), done |-> 0,
                  pending |-> FALSE]
      /\ tx' = tx /\ sent' = sent /\ ~tx.cancelled /\ i \in Retained
      /\ tx.slots[i].attempts < MaxAttempts
  BY DEF DispatchBegin, MayPrepare
<1>2. tx \in TxState
  BY DEF SInv, SenderTypes
<1>3. /\ TicketFor(i).epoch = tx.epoch /\ TicketFor(i).slot = i
      /\ TicketFor(i).copy = tx.slots[i]
      /\ TicketFor(i) \in Ticket
  BY <1>2 DEF TicketFor, Ticket, TxState
<1>4. gate' \in Burst
  BY <1>1, <1>3, RxAssumption DEF Burst
<1>5. /\ gate'.ticket = TicketFor(i) /\ gate'.done = 0
  BY <1>1
<1>6. SenderTypes'
  BY <1>1, <1>4 DEF SInv, SenderTypes
<1>7. Highwater' = Highwater /\ Retained' = Retained
      /\ RetainedSnapshot' = RetainedSnapshot
      /\ RetainedReliable' = RetainedReliable
  BY <1>1 DEF Highwater, Retained, RetainedSnapshot, RetainedReliable
<1>8. SenderInv'
  BY <1>1, <1>7 DEF SInv, SenderInv
<1>9. NetworkInv'
  BY <1>1, <1>7 DEF SInv, NetworkInv, AttemptsReal
<1>10. GateInv'
  <2>1. /\ tx.slots[i].seq # 0 /\ tx.slots[i].seq <= Highwater
        /\ \A j \in Retained : tx.slots[j].seq = tx.slots[i].seq => j = i
    BY <1>1 DEF SInv, SenderInv, Retained
  <2>2. \A f \in sent : f.epoch = tx.epoch /\ f.seq = tx.slots[i].seq =>
                            f.snap = tx.slots[i].snap
    BY <1>1 DEF SInv, NetworkInv
  <2>3. \A k \in 1 .. gate'.done : FALSE
    BY <1>5
  <2> QED
    BY <1>1, <1>3, <1>5, <1>7, <2>1, <2>2, <2>3 DEF GateInv
<1> QED
  BY <1>6, <1>8, <1>9, <1>10 DEF SInv

\* A fragment goes out: of a message that is still there, or of one whose
\* number no slot has any more.
LEMMA ConfirmKeeps ==
    ASSUME SInv, ConfirmPacket
    PROVE  SInv'
<1> DEFINE t == gate.ticket
           q == t.copy.seq
<1>1. gate.active /\ gate.pending /\ sent' = sent \cup {NextFrame}
  BY DEF ConfirmPacket
<1>2. tx \in TxState /\ gate \in Burst /\ sent \subseteq Frame
  BY <1>1 DEF SInv, SenderTypes, NoBurst
<1>3. /\ t \in Ticket /\ t.slot \in TxSlot /\ t.epoch \in SessionEpoch
      /\ t.copy \in TxSlotState /\ q \in 0 .. MaxSeq /\ t.copy.snap \in BOOLEAN
      /\ t.copy.attempts \in 0 .. MaxAttempts
      /\ gate.done \in 0 .. FragmentCount - 1
  BY <1>2 DEF Burst, Ticket, TxSlotState
<1>4. /\ t.epoch = tx.epoch /\ q # 0 /\ q <= Highwater
      /\ t.copy.attempts < MaxAttempts
      /\ \A k \in 1 .. gate.done : FrameOf(t, k) \in sent
      /\ \A i \in Retained : tx.slots[i].seq = q =>
             i = t.slot /\ tx.slots[i] = t.copy
      /\ \A f \in sent : f.epoch = tx.epoch /\ f.seq = q =>
                             f.snap = t.copy.snap
  BY <1>1 DEF SInv, GateInv
<1>5. ~tx.cancelled
  BY <1>1 DEF SInv, SenderInv, NoBurst
<1>6. NextFrame = FrameOf(t, gate.done + 1)
  BY DEF NextFrame, FrameOf
<1>7. /\ NextFrame.epoch = tx.epoch /\ NextFrame.seq = q
      /\ NextFrame.snap = t.copy.snap /\ NextFrame.frag = gate.done + 1
  BY <1>4 DEF NextFrame
<1>8. gate.done \in Nat /\ FragmentCount \in Nat \ {0} /\ MaxSeq \in Nat
      /\ MaxAttempts \in Nat /\ gate.done + 1 \in Fragment
  BY <1>3, RxAssumption, SessionAssumption, TxAssumption DEF Fragment
<1>9. NextFrame \in Frame
  <2>1. q \in Sequence
    BY <1>3, <1>4, <1>8 DEF Sequence
  <2> QED
    BY <1>3, <1>4, <1>8, <2>1 DEF NextFrame, Frame
<1> HIDE DEF t, q
<1>10. sent' \subseteq Frame
  BY <1>1, <1>2, <1>9
<1>11. /\ \A f \in sent' : f.epoch <= tx.epoch
       /\ \A f \in sent' : f.epoch = tx.epoch => f.seq <= Highwater
       /\ \A f \in sent' : f.epoch = tx.epoch /\ f.seq = q =>
              f.snap = t.copy.snap
       /\ \A f, g \in sent' : f.epoch = g.epoch /\ f.seq = g.seq => f.snap = g.snap
  <2>1. tx.epoch \in Nat /\ q \in Nat
    BY <1>2, <1>3, TxTypes
  <2>2. \A f \in sent' : f \in sent \/ f = NextFrame
    BY <1>1
  <2>3. /\ \A f \in sent : f.epoch <= tx.epoch
        /\ \A f \in sent : f.epoch = tx.epoch => f.seq <= Highwater
        /\ \A f, g \in sent : f.epoch = g.epoch /\ f.seq = g.seq => f.snap = g.snap
    BY DEF SInv, NetworkInv
  <2> QED
    BY <1>4, <1>7, <2>1, <2>2, <2>3
<1>12. CASE ~Current(gate.ticket) /\ gate' = NoBurst /\ tx' = tx
  <2>1. \A i \in Retained : tx.slots[i].seq # q
    BY <1>4, <1>5, <1>12 DEF Current, t
  <2>2. \A i \in Retained : tx.slots[i].attempts > 0 =>
            \A k \in Fragment : [epoch |-> tx.epoch, seq |-> tx.slots[i].seq,
                             snap |-> tx.slots[i].snap, frag |-> k] \in sent'
    BY <1>1 DEF SInv, NetworkInv, AttemptsReal
  <2>3. \A f \in sent', i \in Retained :
            f.epoch = tx.epoch /\ f.seq = tx.slots[i].seq =>
                 /\ f.snap = tx.slots[i].snap
                 /\ f.frag = FragmentCount => tx.slots[i].attempts > 0
    BY <1>1, <1>7, <2>1 DEF SInv, NetworkInv
  <2>4. SenderTypes' /\ GateInv'
    BY <1>2, <1>10, <1>12 DEF SenderTypes, GateInv, NoBurst
  <2>5. Highwater' = Highwater /\ Retained' = Retained
        /\ RetainedSnapshot' = RetainedSnapshot
        /\ RetainedReliable' = RetainedReliable
    BY <1>12 DEF Highwater, Retained, RetainedSnapshot, RetainedReliable
  <2>6. SenderInv'
    BY <1>5, <1>12, <2>5 DEF SInv, SenderInv
  <2>7. NetworkInv'
    BY <1>11, <1>12, <2>2, <2>3, <2>5 DEF NetworkInv, AttemptsReal
  <2> QED
    BY <2>4, <2>6, <2>7 DEF SInv
<1>13. CASE /\ Current(gate.ticket) /\ ~LastFragment
            /\ gate' = [gate EXCEPT !.pending = FALSE, !.done = @ + 1]
            /\ tx' = tx
  <2>1. tx.slots[t.slot] = t.copy /\ t.slot \in Retained
    BY <1>3, <1>4, <1>13 DEF Current, t, q, Retained
  <2>2. gate.done + 1 \in 0 .. FragmentCount - 1 /\ gate.done + 1 # FragmentCount
    BY <1>3, <1>8, <1>13 DEF LastFragment
  <2>3. /\ gate' \in Burst /\ gate'.ticket = gate.ticket
        /\ gate'.done = gate.done + 1
    BY <1>2, <1>13, <2>2 DEF Burst
  <2>4. \A i \in Retained : tx.slots[i].attempts > 0 =>
            \A k \in Fragment : [epoch |-> tx.epoch, seq |-> tx.slots[i].seq,
                             snap |-> tx.slots[i].snap, frag |-> k] \in sent'
    BY <1>1 DEF SInv, NetworkInv, AttemptsReal
  <2>5. \A f \in sent', i \in Retained :
            f.epoch = tx.epoch /\ f.seq = tx.slots[i].seq =>
                 /\ f.snap = tx.slots[i].snap
                 /\ f.frag = FragmentCount => tx.slots[i].attempts > 0
    BY <1>1, <1>4, <1>7, <2>2 DEF SInv, NetworkInv
  <2>6. SenderTypes'
    BY <1>2, <1>10, <1>13, <2>3 DEF SenderTypes
  <2>7. Highwater' = Highwater /\ Retained' = Retained
        /\ RetainedSnapshot' = RetainedSnapshot
        /\ RetainedReliable' = RetainedReliable
    BY <1>13 DEF Highwater, Retained, RetainedSnapshot, RetainedReliable
  <2>8. SenderInv'
    BY <1>5, <1>13, <2>7 DEF SInv, SenderInv
  <2>9. NetworkInv'
    BY <1>11, <1>13, <2>4, <2>5, <2>7 DEF NetworkInv, AttemptsReal
  <2>10. \A k \in 1 .. gate'.done : FrameOf(gate'.ticket, k) \in sent'
    BY <1>1, <1>4, <1>6, <1>8, <2>3 DEF t
  <2>11. GateInv'
    BY <1>4, <1>11, <1>13, <2>3, <2>7, <2>10 DEF GateInv, t, q
  <2> QED
    BY <2>6, <2>8, <2>9, <2>11 DEF SInv
<1>14. CASE /\ Current(gate.ticket) /\ LastFragment
            /\ ConfirmPrepared(gate.ticket) /\ gate' = NoBurst
  <2>1. tx.slots[t.slot] = t.copy /\ t.slot \in Retained
    BY <1>3, <1>4, <1>14 DEF Current, t, q, Retained
  <2> DEFINE counted == [t.copy EXCEPT !.attempts = @ + 1]
             slots == [tx.slots EXCEPT ![t.slot] = counted]
  <2>2. /\ counted \in TxSlotState /\ counted.seq = q
        /\ counted.snap = t.copy.snap /\ counted.attempts > 0
    BY <1>3, <1>4, <1>8 DEF TxSlotState, q
  <2> HIDE DEF counted
  <2>3. /\ slots \in [TxSlot -> TxSlotState] /\ slots[t.slot] = counted
        /\ \A i \in TxSlot : i # t.slot => slots[i] = tx.slots[i]
    BY <1>2, <1>3, <2>2 DEF TxState
  <2>4. tx' = [tx EXCEPT !.slots = slots]
    BY <1>2, <1>3, <1>14, <2>1 DEF ConfirmPrepared, TxState, counted, t
  <2> HIDE DEF slots
  <2>5. /\ tx' \in TxState /\ tx'.slots = slots /\ tx'.epoch = tx.epoch
        /\ tx'.next = tx.next /\ tx'.exhausted = tx.exhausted
        /\ tx'.cancelled = tx.cancelled
    BY <1>2, <2>3, <2>4 DEF TxState
  <2>6. /\ \A i \in TxSlot : /\ tx'.slots[i].seq = tx.slots[i].seq
                             /\ tx'.slots[i].snap = tx.slots[i].snap
                             /\ i # t.slot => tx'.slots[i] = tx.slots[i]
        /\ tx'.slots[t.slot].attempts > 0
        /\ tx.slots[t.slot].seq = q /\ tx.slots[t.slot].snap = t.copy.snap
    BY <2>1, <2>2, <2>3, <2>5 DEF q
  <2>7. Highwater' = Highwater /\ Retained' = Retained
        /\ RetainedSnapshot' = RetainedSnapshot
        /\ RetainedReliable' = RetainedReliable
    BY <2>5, <2>6 DEF Highwater, Retained, RetainedSnapshot, RetainedReliable
  <2>8. SenderTypes' /\ GateInv'
    BY <1>10, <1>14, <2>5 DEF SenderTypes, GateInv, NoBurst
  <2>9. SenderInv'
    <3>1. \A i \in Retained : i \in TxSlot
      BY DEF Retained
    <3>2. \A i \in RetainedReliable : i \in TxSlot
      BY DEF Retained, RetainedReliable
    <3> QED
      BY <1>5, <2>5, <2>6, <2>7, <3>1, <3>2 DEF SInv, SenderInv
  <2>10. \A k \in Fragment : FrameOf(t, k) \in sent'
    BY <1>1, <1>4, <1>6, <1>8, <1>14 DEF LastFragment, Fragment
  <2>11. AttemptsReal'
    <3> SUFFICES ASSUME NEW i \in Retained, tx'.slots[i].attempts > 0,
                        NEW k \in Fragment
                 PROVE  [epoch |-> tx.epoch, seq |-> tx.slots[i].seq,
                         snap |-> tx.slots[i].snap, frag |-> k] \in sent'
      <4>1. \A i \in Retained : i \in TxSlot
        BY DEF Retained
      <4> QED
        BY <2>5, <2>6, <2>7, <4>1 DEF AttemptsReal
    <3>1. CASE i = t.slot
      BY <1>4, <2>6, <2>10, <3>1 DEF FrameOf, q
    <3>2. CASE i # t.slot
      BY <1>1, <2>6, <3>2 DEF SInv, NetworkInv, AttemptsReal, Retained
    <3> QED
      BY <3>1, <3>2
  <2>12. ASSUME NEW f \in sent', NEW i \in Retained,
                f.epoch = tx.epoch, f.seq = tx.slots[i].seq
         PROVE  /\ f.snap = tx.slots[i].snap
                /\ f.frag = FragmentCount => tx'.slots[i].attempts > 0
    <3>1. CASE i = t.slot
      BY <1>11, <2>6, <2>12, <3>1
    <3>2. CASE i # t.slot
      <4>1. i \in TxSlot /\ f.seq # q
        BY <1>4, <2>12, <3>2 DEF Retained
      <4>2. f \in sent
        BY <1>1, <1>7, <4>1
      <4> QED
        BY <2>6, <2>12, <3>2, <4>1, <4>2 DEF SInv, NetworkInv
    <3> QED
      BY <3>1, <3>2
  <2>13. NetworkInv'
    <3>1. \A i \in Retained : i \in TxSlot
      BY DEF Retained
    <3>2. \A f \in sent', i \in Retained' :
              f.epoch = tx'.epoch /\ f.seq = tx'.slots[i].seq =>
                 /\ f.snap = tx'.slots[i].snap
                 /\ f.frag = FragmentCount => tx'.slots[i].attempts > 0
      BY <2>5, <2>6, <2>7, <2>12, <3>1
    <3> QED
      BY <1>11, <2>5, <2>7, <2>11, <3>2 DEF NetworkInv
  <2> QED
    BY <2>8, <2>9, <2>13 DEF SInv
<1> QED
  BY <1>12, <1>13, <1>14 DEF ConfirmPacket

\* A new epoch has sent nothing.
LEMMA AdvanceTxKeeps ==
    ASSUME SInv, AdvanceTx
    PROVE  SInv'
<1>1. /\ tx' = FreshTx(tx.epoch + 1) /\ gate' = gate /\ sent' = sent
      /\ tx.cancelled /\ tx.epoch < MaxEpoch
  BY DEF AdvanceTx
<1>2. tx.epoch \in Nat /\ tx.epoch \in SessionEpoch /\ MaxEpoch \in Nat
      /\ MaxSeq \in Nat \ {0} /\ MaxAttempts \in Nat
  BY SessionAssumption, TxAssumption DEF SInv, SenderTypes, TxState, SessionEpoch
<1>3. EmptyTx \in TxSlotState /\ EmptyTx.seq = 0
  BY <1>2 DEF EmptyTx, TxSlotState
<1>4. /\ tx' \in TxState /\ tx'.epoch = tx.epoch + 1 /\ tx'.next = 1
      /\ tx'.exhausted = FALSE /\ tx'.cancelled = FALSE
      /\ \A i \in TxSlot : tx'.slots[i] = EmptyTx
  BY <1>1, <1>2, <1>3 DEF FreshTx, TxState, SessionEpoch, Sequence
<1>5. Retained' = {} /\ gate' = NoBurst
  BY <1>1, <1>3, <1>4 DEF Retained, SInv, SenderInv
<1>6. RetainedSnapshot' = {} /\ RetainedReliable' = {}
  BY <1>5 DEF RetainedSnapshot, RetainedReliable
<1>7. \A f \in sent : f.epoch \in Nat /\ f.epoch <= tx.epoch
  BY DEF SInv, SenderTypes, NetworkInv, Frame, SessionEpoch
<1>8. SenderTypes' /\ SenderInv' /\ GateInv'
  BY <1>1, <1>4, <1>5, <1>6 DEF SInv, SenderTypes, SenderInv, GateInv, NoBurst
<1>9. \A f \in sent : f.epoch <= tx'.epoch /\ f.epoch # tx'.epoch
  BY <1>2, <1>4, <1>7
<1>10. \A f, g \in sent : f.epoch = g.epoch /\ f.seq = g.seq => f.snap = g.snap
  BY DEF SInv, NetworkInv
<1>11. NetworkInv'
  BY <1>1, <1>5, <1>9, <1>10 DEF NetworkInv, AttemptsReal
<1> QED
  BY <1>8, <1>11 DEF SInv

\* Acknowledged, superseded or cancelled: slots are cleared.
LEMMA ReleaseKeeps ==
    ASSUME SInv, NEW S \in SUBSET ToldNow, ApplyAcks(S)
    PROVE  SInv'
<1> DEFINE slots == [i \in TxSlot |-> IF tx.slots[i].seq \in S THEN EmptyTx
                                      ELSE tx.slots[i]]
<1>1. /\ tx' = [tx EXCEPT !.slots = slots] /\ ~tx.cancelled
      /\ gate' = gate /\ sent' = sent
  BY DEF ApplyAcks, Release
<1>2. tx \in TxState /\ EmptyTx \in TxSlotState
  BY SessionAssumption, TxAssumption
     DEF SInv, SenderTypes, EmptyTx, TxSlotState
<1>3. slots \in [TxSlot -> TxSlotState]
      /\ \A i \in TxSlot : slots[i] = tx.slots[i] \/ slots[i] = EmptyTx
  BY <1>2 DEF TxState
<1> HIDE DEF slots
<1>4. /\ tx' \in TxState /\ tx'.slots = slots /\ tx'.next = tx.next
      /\ tx'.exhausted = tx.exhausted /\ tx'.epoch = tx.epoch
      /\ tx'.cancelled = tx.cancelled
  BY <1>1, <1>2, <1>3 DEF TxState
<1>5. \A i \in TxSlot : tx'.slots[i] = tx.slots[i] \/ tx'.slots[i] = EmptyTx
  BY <1>3, <1>4
<1> QED
  BY <1>1, <1>4, <1>5, ShrinkKeeps

LEMMA CancelTxKeeps ==
    ASSUME SInv, CancelTx
    PROVE  SInv'
<1> DEFINE slots == [i \in TxSlot |-> EmptyTx]
<1>1. /\ tx' = [tx EXCEPT !.cancelled = TRUE, !.slots = slots]
      /\ gate' = NoBurst /\ sent' = sent
  BY DEF CancelTx, CancelRetained
<1>2. tx \in TxState /\ EmptyTx \in TxSlotState
  BY SessionAssumption, TxAssumption
     DEF SInv, SenderTypes, EmptyTx, TxSlotState
<1>3. slots \in [TxSlot -> TxSlotState] /\ \A i \in TxSlot : slots[i] = EmptyTx
  BY <1>2
<1> HIDE DEF slots
<1>4. /\ tx' \in TxState /\ tx'.slots = slots /\ tx'.next = tx.next
      /\ tx'.exhausted = tx.exhausted /\ tx'.epoch = tx.epoch
  BY <1>1, <1>2, <1>3 DEF TxState
<1>5. \A i \in TxSlot : tx'.slots[i] = EmptyTx
  BY <1>3, <1>4
<1>6. Retained' = {}
  BY <1>5 DEF Retained, EmptyTx
<1> QED
  BY <1>1, <1>4, <1>5, <1>6, ShrinkKeeps

\* A packet is being prepared, refused by the net channel, or given up.
LEMMA GateKeeps ==
    ASSUME SInv, PreparePacket \/ RejectPacket \/ DispatchAbort
    PROVE  SInv'
<1>1. /\ tx' = tx /\ sent' = sent /\ gate.active
      /\ \/ gate' = NoBurst
         \/ gate' = [gate EXCEPT !.pending = TRUE]
         \/ gate' = [gate EXCEPT !.pending = FALSE]
  BY DEF PreparePacket, RejectPacket, DispatchAbort
<1>2. gate \in Burst
  BY <1>1 DEF SInv, SenderTypes, NoBurst
<1>3. \/ gate' = NoBurst
      \/ /\ gate.active /\ gate' \in Burst
         /\ gate'.ticket = gate.ticket /\ gate'.done = gate.done
  BY <1>1, <1>2 DEF Burst
<1>4. tx \in TxState /\ ~tx.cancelled
  BY <1>1 DEF SInv, SenderTypes, SenderInv, NoBurst
<1> QED
  BY <1>1, <1>3, <1>4, ShrinkKeeps

LEMMA SenderStep == SInv /\ [Next]_vars => SInv'
<1> SUFFICES ASSUME SInv, [Next]_vars PROVE SInv'
  OBVIOUS
<1>1. ASSUME NEW snap \in BOOLEAN, Offer(snap) PROVE SInv'
  BY <1>1, OfferKeeps
<1>2. ASSUME NEW i \in TxSlot, DispatchBegin(i) PROVE SInv'
  BY <1>2, BeginKeeps
<1>3. CASE PreparePacket \/ RejectPacket \/ DispatchAbort
  BY <1>3, GateKeeps
<1>4. CASE ConfirmPacket
  BY <1>4, ConfirmKeeps
<1>5. ASSUME NEW S \in SUBSET ToldNow, ApplyAcks(S) PROVE SInv'
  BY <1>5, ReleaseKeeps
<1>6. CASE CancelTx
  BY <1>6, CancelTxKeeps
<1>7. CASE AdvanceTx
  BY <1>7, AdvanceTxKeeps
<1>8. CASE UNCHANGED <<tx, gate, sent>>
  BY <1>8, SenderUnchanged
<1>9. CASE UNCHANGED vars
  BY <1>8, <1>9 DEF vars
<1>10. ASSUME NEW f \in sent, NEW idle \in SUBSET Occupied(rx),
              Arrive(f, idle) \/ Repeat(f, idle)
       PROVE  SInv'
  BY <1>8, <1>10 DEF Arrive, Repeat, sender
<1>11. ASSUME NEW idle \in SUBSET Occupied(rx), ExpireRx(idle) PROVE SInv'
  BY <1>8, <1>11 DEF ExpireRx, sender
<1>12. ASSUME NEW i \in RxSlot, DiscardRx(i) \/ CommitRetained(i) PROVE SInv'
  BY <1>8, <1>12 DEF DiscardRx, CommitRetained, sender
<1>13. ASSUME NEW S \in SUBSET DOMAIN ledger,
              AckHandoff(S) \/ RetireReceipts(S)
       PROVE  SInv'
  BY <1>8, <1>13 DEF AckHandoff, RetireReceipts, sender
<1>14. CASE CancelRx \/ AdvanceRx
  BY <1>8, <1>14 DEF CancelRx, AdvanceRx, sender
<1> QED
  BY <1>1, <1>2, <1>3, <1>4, <1>5, <1>6, <1>7, <1>9, <1>10, <1>11, <1>12,
     <1>13, <1>14 DEF Next

LEMMA SenderInit == Init => SInv
<1> SUFFICES ASSUME Init PROVE SInv
  OBVIOUS
<1>1. /\ tx = FreshTx(1) /\ gate = NoBurst /\ sent = {}
  BY DEF Init, TxInit
<1>2. MaxEpoch \in Nat \ {0} /\ MaxSeq \in Nat \ {0} /\ MaxAttempts \in Nat
  BY SessionAssumption, TxAssumption
<1>3. EmptyTx \in TxSlotState /\ EmptyTx.seq = 0
  BY <1>2 DEF EmptyTx, TxSlotState
<1>4. /\ tx \in TxState /\ tx.exhausted = FALSE /\ tx.cancelled = FALSE
      /\ \A i \in TxSlot : tx.slots[i] = EmptyTx
  BY <1>1, <1>2, <1>3 DEF FreshTx, TxState, SessionEpoch, Sequence
<1>5. Retained = {} /\ RetainedSnapshot = {} /\ RetainedReliable = {}
  BY <1>3, <1>4 DEF Retained, RetainedSnapshot, RetainedReliable
<1> QED
  BY <1>1, <1>4, <1>5 DEF SInv, SenderTypes, SenderInv, GateInv, NetworkInv,
     AttemptsReal, NoBurst

-----------------------------------------------------------------------------
(***************************************************************************)
(* The receiver and its consumer.                                          *)
(***************************************************************************)
ConsumerTypes ==
    /\ ledger \in LedgerState
    /\ told \subseteq Message /\ taken \subseteq Message
    /\ deliveries \in Nat
    /\ newest \in (0 .. MaxEpoch) \X (0 .. MaxSeq)

\* What was taken of this epoch is in the history, behind the window or, a
\* snapshot, not above the newest.
TakenInv ==
    /\ \A s \in rx.history : <<rx.epoch, s>> \in taken
    /\ \A m \in taken :
          /\ m[1] <= rx.epoch
          /\ m[1] = rx.epoch => m[2] \in rx.history \/ OutOfWindow(rx, m[2])
    /\ \A f \in sent :
          f.snap /\ f.epoch = rx.epoch /\ <<f.epoch, f.seq>> \in taken =>
              f.seq <= rx.newest
    /\ TakenWasSent

NewestInv ==
    IF rx.newest = 0 THEN newest[1] < rx.epoch
    ELSE newest = <<rx.epoch, rx.newest>> /\ newest \in taken

\* Only what was taken is acknowledged.
LedgerInv ==
    /\ rx.cancelled => DOMAIN ledger = {}
    /\ \A s \in DOMAIN ledger : <<rx.epoch, s>> \in taken
    /\ told \subseteq taken

ReceiverInv ==
    ConsumerTypes /\ RInv(rx, sent) /\ TakenInv /\ NewestInv /\ LedgerInv

IInv == SInv /\ ReceiverInv

\* Nothing is taken: frames arrive or are forgotten, receipts come and go.
LEMMA QuietKeeps ==
    ASSUME IInv, SInv', RInv(rx', sent'),
           rx'.epoch = rx.epoch, rx'.history = rx.history,
           rx'.highest = rx.highest, rx'.newest = rx.newest,
           UNCHANGED consumer, sent \subseteq sent',
           ledger' \in LedgerState, told' \subseteq taken,
           \A s \in DOMAIN ledger' : <<rx.epoch, s>> \in taken,
           rx'.cancelled => DOMAIN ledger' = {}
    PROVE  ReceiverInv'
<1>1. ConsumerTypes /\ TakenInv /\ NewestInv /\ LedgerInv
  BY DEF IInv, ReceiverInv
<1>2. taken' = taken /\ deliveries' = deliveries /\ newest' = newest
  BY DEF consumer
<1>3. ConsumerTypes'
  BY <1>1, <1>2 DEF ConsumerTypes
<1>4. \A s : OutOfWindow(rx', s) <=> OutOfWindow(rx, s)
  BY DEF OutOfWindow
<1>5. ASSUME NEW f \in sent', f.snap, f.epoch = rx.epoch,
             <<f.epoch, f.seq>> \in taken
      PROVE  f.seq <= rx.newest
  <2> DEFINE m == <<f.epoch, f.seq>>
  <2>1. 1 \in Fragment
    BY RxAssumption DEF Fragment
  <2>2. m \in taken /\ m[1] = f.epoch /\ m[2] = f.seq
    BY <1>5
  <2>3. PICK snap \in BOOLEAN : [epoch |-> m[1], seq |-> m[2], snap |-> snap,
                                 frag |-> 1] \in sent
    BY <1>1, <2>1, <2>2 DEF TakenInv, TakenWasSent
  <2> DEFINE g == [epoch |-> m[1], seq |-> m[2], snap |-> snap, frag |-> 1]
  <2>4. /\ g \in sent /\ g \in sent' /\ g.epoch = f.epoch /\ g.seq = f.seq
        /\ <<g.epoch, g.seq>> \in taken
    BY <2>2, <2>3
  <2> HIDE DEF g, m
  <2>5. g.snap = f.snap
    BY <2>4 DEF SInv, NetworkInv
  <2> QED
    BY <1>1, <1>5, <2>4, <2>5 DEF TakenInv
<1>6. TakenWasSent'
  BY <1>1, <1>2 DEF TakenInv, TakenWasSent
<1>7. TakenInv'
  BY <1>1, <1>2, <1>4, <1>5, <1>6 DEF TakenInv
<1>8. NewestInv' /\ LedgerInv'
  BY <1>1, <1>2 DEF NewestInv, LedgerInv
<1> QED
  BY <1>3, <1>7, <1>8 DEF ReceiverInv

LEMMA ProvenTypes ==
    ASSUME ledger \in LedgerState, NEW S \in SUBSET DOMAIN ledger
    PROVE  [s \in S |-> ledger[s]] \in LedgerState
  BY DEF LedgerState

LEMMA CaptureTypes ==
    ASSUME ledger \in LedgerState, NEW r, NEW seq \in Sequence
    PROVE  /\ Capture(r, seq) \in LedgerState
           /\ DOMAIN Capture(r, seq) \subseteq DOMAIN ledger \cup {seq}
<1>1. Handoffs \in 0 .. Handoffs
  BY HandoffsAssumption
<1>2. PICK D \in SUBSET Sequence : ledger \in [D -> 0 .. Handoffs]
  BY DEF LedgerState
<1> DEFINE E == DOMAIN Proven(r) \cup {seq}
           c == [s \in E |-> IF s = seq THEN Handoffs ELSE ledger[s]]
<1>3. E \subseteq D \cup {seq}
  BY <1>2 DEF Proven
<1>4. Capture(r, seq) = c
  BY DEF Capture
<1> HIDE DEF E
<1>5. c \in [E -> 0 .. Handoffs]
  BY <1>1, <1>2, <1>3
<1>6. E \in SUBSET Sequence
  BY <1>2, <1>3
<1> QED
  BY <1>2, <1>3, <1>4, <1>5, <1>6 DEF LedgerState

LEMMA SentFacts ==
    ASSUME SInv
    PROVE  sent \subseteq Frame /\ OneClass(sent)
  BY DEF SInv, SenderTypes, NetworkInv, OneClass

\* A frame arrives; of a committed message its receipt is due again.
LEMMA ArriveKeeps ==
    ASSUME IInv, SInv', NEW f \in sent, NEW idle \in SUBSET Occupied(rx),
           Arrive(f, idle) \/ Repeat(f, idle)
    PROVE  ReceiverInv'
<1>1. /\ RInv(rx, sent) /\ ConsumerTypes /\ LedgerInv /\ TakenInv /\ NewestInv
      /\ sent \subseteq Frame /\ OneClass(sent)
  BY SentFacts DEF IInv, ReceiverInv
<1>2. /\ Accept(f, idle) /\ sent' = sent /\ told' = told /\ UNCHANGED consumer
      /\ ~rx.cancelled
  BY DEF Arrive, Repeat, Accept
<1>3. /\ RInv(rx', sent') /\ rx'.epoch = rx.epoch
      /\ rx'.cancelled = rx.cancelled
      /\ rx'.history = rx.history /\ rx'.highest = rx.highest
      /\ rx'.newest = rx.newest
  BY <1>1, <1>2, AcceptKeeps
<1>4. ledger' \in LedgerState
      /\ \A s \in DOMAIN ledger' : <<rx.epoch, s>> \in taken
  <2>1. CASE ledger' = ledger
    BY <1>1, <2>1 DEF ConsumerTypes, LedgerInv
  <2>2. CASE Repeat(f, idle)
    <3>1. f.seq \in Sequence /\ f \in Frame
      BY <1>1 DEF Frame
    <3> DEFINE r == Forget(rx, idle)
    <3>2. AlreadyCommitted(r, f) /\ ledger' = Capture(rx', f.seq)
      BY <2>2 DEF Repeat
    <3>3. idle \in SUBSET RxSlot
      BY DEF Occupied
    <3>4. RInv(r, sent) /\ r.history = rx.history /\ r.newest = rx.newest
      BY <1>1, <3>3, ForgetKeeps
    <3> HIDE DEF r
    <3>5. f.seq \in r.history \/ (r.newest # 0 /\ f.seq = r.newest)
      BY <3>1, <3>2, <3>4, CommittedIsNewest
    <3>6. <<rx.epoch, f.seq>> \in taken
      BY <1>1, <3>4, <3>5 DEF TakenInv, NewestInv
    <3>7. /\ ledger' \in LedgerState
          /\ DOMAIN ledger' \subseteq DOMAIN ledger \cup {f.seq}
      BY <1>1, <3>1, <3>2, CaptureTypes DEF ConsumerTypes
    <3> QED
      BY <1>1, <3>6, <3>7 DEF LedgerInv
  <2> QED
    BY <2>1, <2>2 DEF Arrive
<1> QED
  BY <1>1, <1>2, <1>3, <1>4, QuietKeeps DEF LedgerInv

\* Slots are cleared, or the epoch is left.
LEMMA ForgetStepKeeps ==
    ASSUME IInv, SInv', NEW S \in SUBSET RxSlot, rx' = Forget(rx, S),
           UNCHANGED <<ledger, sender, sent, told, consumer>>
    PROVE  ReceiverInv'
<1>1. RInv(rx, sent) /\ ConsumerTypes /\ LedgerInv
  BY DEF IInv, ReceiverInv
<1>2. /\ RInv(rx', sent') /\ rx'.epoch = rx.epoch
      /\ rx'.cancelled = rx.cancelled
      /\ rx'.history = rx.history /\ rx'.highest = rx.highest
      /\ rx'.newest = rx.newest
  BY <1>1, ForgetKeeps
<1> QED
  BY <1>1, <1>2, QuietKeeps DEF ConsumerTypes, LedgerInv

LEMMA CancelRxKeeps ==
    ASSUME IInv, SInv', CancelRx
    PROVE  ReceiverInv'
<1>1. RInv(rx, sent) /\ ConsumerTypes /\ LedgerInv
  BY DEF IInv, ReceiverInv
<1>2. /\ RInv(rx', sent') /\ rx'.epoch = rx.epoch
      /\ rx'.history = rx.history /\ rx'.highest = rx.highest
      /\ rx'.newest = rx.newest
  BY <1>1, CancelKeeps DEF CancelRx
<1>3. ledger' = FreshLedger /\ DOMAIN FreshLedger = {}
      /\ FreshLedger \in LedgerState
  <2>1. FreshLedger \in [{} -> 0 .. Handoffs] /\ {} \in SUBSET Sequence
    BY DEF FreshLedger
  <2> QED
    BY <2>1 DEF CancelRx, LedgerState, FreshLedger
<1>4. UNCHANGED consumer /\ sent' = sent /\ told' = told
  BY DEF CancelRx
<1> QED
  BY <1>1, <1>2, <1>3, <1>4, QuietKeeps DEF LedgerInv

\* Receipts are handed off or retired.
LEMMA ReceiptsKeep ==
    ASSUME IInv, SInv', NEW S \in SUBSET DOMAIN ledger,
           AckHandoff(S) \/ RetireReceipts(S)
    PROVE  ReceiverInv'
<1>1. RInv(rx, sent) /\ ConsumerTypes /\ LedgerInv
  BY DEF IInv, ReceiverInv
<1>2. rx' = rx /\ sent' = sent /\ UNCHANGED consumer
  BY DEF AckHandoff, RetireReceipts
<1>3. PICK D \in SUBSET Sequence : ledger \in [D -> 0 .. Handoffs]
  BY <1>1 DEF ConsumerTypes, LedgerState
<1>4. CASE AckHandoff(S)
  <2>1. /\ \A s \in S : ledger[s] > 0
        /\ told' = told \cup {<<rx.epoch, s>> : s \in S}
        /\ ledger' = [s \in DOMAIN ledger |-> IF s \in S THEN ledger[s] - 1
                                              ELSE ledger[s]]
    BY <1>4 DEF AckHandoff
  <2>2. \A s \in D : (IF s \in S THEN ledger[s] - 1 ELSE ledger[s])
                         \in 0 .. Handoffs
    <3>1. Handoffs \in Nat
      BY HandoffsAssumption
    <3>2. \A s \in D : ledger[s] \in 0 .. Handoffs
      BY <1>3
    <3> QED
      BY <2>1, <3>1, <3>2
  <2>3. DOMAIN ledger = D
    BY <1>3
  <2>4. ledger' \in [D -> 0 .. Handoffs] /\ DOMAIN ledger' = D
    BY <2>1, <2>2, <2>3
  <2>5. ledger' \in LedgerState
    BY <2>4 DEF LedgerState
  <2>6. told' \subseteq taken
    BY <1>1, <2>1 DEF LedgerInv
  <2> QED
    BY <1>1, <1>2, <2>3, <2>4, <2>5, <2>6, QuietKeeps DEF LedgerInv
<1>5. CASE RetireReceipts(S)
  <2>1. ledger' = [s \in DOMAIN ledger \ S |-> ledger[s]] /\ told' = told
    BY <1>5 DEF RetireReceipts
  <2>2. ledger' \in LedgerState
    BY <1>1, <2>1, ProvenTypes DEF ConsumerTypes
  <2>3. DOMAIN ledger' \subseteq DOMAIN ledger
    BY <2>1
  <2> QED
    BY <1>1, <1>2, <2>1, <2>2, <2>3, QuietKeeps DEF LedgerInv
<1> QED
  BY <1>4, <1>5

\* What a commit hands over: a whole message that was not handed over before.
LEMMA CommitIsNew ==
    ASSUME IInv, NEW i \in RxSlot, CommitRetained(i)
    PROVE  LET slot == rx.slots[i]
           IN  /\ slot.seq \in Sequence /\ slot.snap \in BOOLEAN
               /\ \A k \in Fragment : FrameOfSlot(rx, i, k) \in sent
               /\ MayCommit(rx, i) /\ rx' = Committed(rx, i) /\ ~rx.cancelled
               /\ <<rx.epoch, slot.seq>> \notin taken
               /\ slot.snap => slot.seq > rx.newest
<1> DEFINE slot == rx.slots[i]
           m == <<rx.epoch, slot.seq>>
<1>1. RInv(rx, sent) /\ TakenInv /\ rx \in RxState /\ FramesKnown(rx, sent)
  BY DEF IInv, ReceiverInv, RInv, SessionGood
<1>2. MayCommit(rx, i) /\ rx' = Committed(rx, i) /\ ~rx.cancelled
  BY DEF CommitRetained, Commit
<1>3. /\ slot.seq # 0 /\ slot.got = Fragment /\ i \in Occupied(rx)
      /\ slot.seq \notin rx.history
      /\ slot.snap \/ ~OutOfWindow(rx, slot.seq)
      /\ slot.snap => rx.newest = 0 \/ slot.seq > rx.newest
  BY <1>2 DEF MayCommit, Complete, Occupied
<1>4. slot.seq \in Sequence /\ slot.seq \in Nat /\ slot.snap \in BOOLEAN
      /\ rx.newest \in Nat
  BY <1>1, <1>3, SessionTypes
<1>5. \A k \in Fragment : FrameOfSlot(rx, i, k) \in sent
  BY <1>1, <1>3 DEF FramesKnown
<1>6. slot.snap => slot.seq > rx.newest
  BY <1>3, <1>4
<1>7. m \notin taken
  <2> SUFFICES ASSUME m \in taken PROVE FALSE
    OBVIOUS
  <2>1. OutOfWindow(rx, slot.seq)
    BY <1>1, <1>3 DEF TakenInv
  <2>2. slot.snap = TRUE
    BY <1>3, <1>4, <2>1
  <2>3. 1 \in Fragment
    BY RxAssumption DEF Fragment
  <2> DEFINE f == FrameOfSlot(rx, i, 1)
  <2>4. f \in sent /\ f.snap /\ f.epoch = rx.epoch /\ f.seq = slot.seq
    BY <1>5, <2>2, <2>3 DEF FrameOfSlot
  <2> HIDE DEF f
  <2>5. slot.seq <= rx.newest
    BY <1>1, <2>4 DEF TakenInv
  <2> QED
    BY <1>4, <1>6, <2>2, <2>5
<1> QED
  BY <1>2, <1>4, <1>5, <1>6, <1>7

LEMMA CommitKeeps ==
    ASSUME IInv, SInv', NEW i \in RxSlot, CommitRetained(i)
    PROVE  ReceiverInv'
<1> DEFINE slot == rx.slots[i]
           seq == slot.seq
           m == <<rx.epoch, seq>>
<1>1. /\ RInv(rx, sent) /\ ConsumerTypes /\ LedgerInv /\ TakenInv /\ NewestInv
      /\ sent \subseteq Frame /\ OneClass(sent) /\ rx \in RxState
  BY SentFacts DEF IInv, ReceiverInv, RInv, SessionGood
<1>2. /\ seq \in Sequence /\ slot.snap \in BOOLEAN
      /\ \A k \in Fragment : FrameOfSlot(rx, i, k) \in sent
      /\ MayCommit(rx, i) /\ rx' = Committed(rx, i) /\ ~rx.cancelled
      /\ slot.snap => seq > rx.newest
  BY CommitIsNew
<1>3. /\ RInv(rx', sent)
      /\ rx'.epoch = rx.epoch /\ rx'.cancelled = rx.cancelled
      /\ rx'.newest = IF slot.snap THEN seq ELSE rx.newest
      /\ rx'.highest = rx.highest \/ rx'.highest = seq
      /\ rx'.highest >= rx.highest
      /\ rx'.history \subseteq rx.history \cup {seq}
      /\ \A s \in rx.history \cup {seq} :
             s \in rx'.history \/ OutOfWindow(rx', s)
  BY <1>1, <1>2, CommittedKeeps
<1>4. /\ ledger' = Capture(rx', seq)
      /\ taken' = taken \cup {m} /\ deliveries' = deliveries + 1
      /\ newest' = IF slot.snap THEN m ELSE newest
      /\ sent' = sent /\ told' = told
  BY DEF CommitRetained
<1>5. /\ MaxSeq \in Nat /\ Window \in Nat
      /\ rx.highest \in Nat /\ rx.newest \in Nat
      /\ seq \in Nat /\ seq # 0 /\ seq \in 0 .. MaxSeq
      /\ rx.epoch \in SessionEpoch /\ rx.epoch \in 0 .. MaxEpoch
      /\ rx.epoch \in Nat
  <2>1. MaxEpoch \in Nat /\ MaxSeq \in Nat
    BY SessionAssumption
  <2> QED
    BY <1>1, <1>2, <2>1, SessionTypes DEF Sequence, SessionEpoch
<1> HIDE DEF slot, seq
<1>6. /\ ledger' \in LedgerState
      /\ DOMAIN ledger' \subseteq DOMAIN ledger \cup {seq}
  BY <1>1, <1>2, <1>4, CaptureTypes DEF ConsumerTypes
<1>7. ConsumerTypes'
  <2>1. m \in Message /\ m \in (0 .. MaxEpoch) \X (0 .. MaxSeq)
    BY <1>2, <1>5 DEF Message
  <2> QED
    BY <1>1, <1>4, <1>6, <2>1 DEF ConsumerTypes
<1>8. rx'.highest \in Nat
  BY <1>3, <1>5
<1>9. TakenInv'
  <2>1. \A s \in rx'.history : <<rx'.epoch, s>> \in taken'
    BY <1>1, <1>3, <1>4 DEF TakenInv
  <2>2. ASSUME NEW n \in taken'
        PROVE  /\ n[1] <= rx'.epoch
               /\ n[1] = rx'.epoch => n[2] \in rx'.history \/ OutOfWindow(rx', n[2])
    <3>1. CASE n = m
      BY <1>3, <1>5, <3>1
    <3>2. CASE n \in taken
      <4>1. n[1] <= rx.epoch /\ n[2] \in Nat
        BY <1>1, <3>2, SessionAssumption
           DEF TakenInv, ConsumerTypes, Message, Sequence
      <4>2. ASSUME n[1] = rx.epoch
            PROVE  n[2] \in rx'.history \/ OutOfWindow(rx', n[2])
        <5>1. CASE n[2] \in rx.history
          BY <1>3, <5>1
        <5>2. CASE OutOfWindow(rx, n[2])
          BY <1>3, <1>5, <1>8, <4>1, <5>2 DEF OutOfWindow
        <5> QED
          BY <1>1, <3>2, <4>2, <5>1, <5>2 DEF TakenInv
      <4> QED
        BY <1>3, <4>1, <4>2
    <3> QED
      BY <1>4, <3>1, <3>2
  <2>3. ASSUME NEW f \in sent, f.snap, f.epoch = rx.epoch,
               <<f.epoch, f.seq>> \in taken'
        PROVE  f.seq <= rx'.newest
    <3>1. f.seq \in Nat
      BY <1>1, SessionAssumption DEF Frame, Sequence
    <3>2. CASE f.seq = seq
      <4>1. 1 \in Fragment
        BY RxAssumption DEF Fragment
      <4>2. /\ FrameOfSlot(rx, i, 1) \in sent
            /\ FrameOfSlot(rx, i, 1).epoch = f.epoch
            /\ FrameOfSlot(rx, i, 1).seq = f.seq
            /\ FrameOfSlot(rx, i, 1).snap = slot.snap
        BY <1>2, <2>3, <3>2, <4>1 DEF FrameOfSlot, slot, seq
      <4>3. slot.snap
        BY <1>1, <2>3, <4>2 DEF OneClass
      <4> QED
        BY <1>3, <1>5, <3>2, <4>3
    <3>3. CASE f.seq # seq
      <4>1. <<f.epoch, f.seq>> \in taken
        BY <1>4, <2>3, <3>3
      <4>2. f.seq <= rx.newest
        BY <1>1, <2>3, <4>1 DEF TakenInv
      <4> QED
        BY <1>2, <1>3, <1>5, <3>1, <4>2
    <3> QED
      BY <3>2, <3>3
  <2>4. TakenWasSent'
    <3> SUFFICES ASSUME NEW n \in taken', NEW k \in Fragment
                 PROVE  \E snap \in BOOLEAN :
                            [epoch |-> n[1], seq |-> n[2], snap |-> snap,
                             frag |-> k] \in sent
      BY <1>4 DEF TakenWasSent
    <3>1. CASE n \in taken
      BY <1>1, <3>1 DEF TakenInv, TakenWasSent
    <3>2. CASE n = m
      <4>1. n[1] = rx.epoch /\ n[2] = seq
        BY <3>2
      <4>2. [epoch |-> rx.epoch, seq |-> seq, snap |-> slot.snap,
             frag |-> k] \in sent
        BY <1>2 DEF FrameOfSlot, slot, seq
      <4> QED
        BY <1>2, <4>1, <4>2
    <3> QED
      BY <1>4, <3>1, <3>2
  <2> QED
    BY <1>3, <1>4, <2>1, <2>2, <2>3, <2>4 DEF TakenInv
<1>10. NewestInv'
  <2>1. CASE slot.snap
    BY <1>3, <1>4, <1>5, <2>1 DEF NewestInv
  <2>2. CASE ~slot.snap
    BY <1>1, <1>3, <1>4, <2>2 DEF NewestInv
  <2> QED
    BY <2>1, <2>2
<1>11. LedgerInv'
  BY <1>1, <1>2, <1>3, <1>4, <1>6 DEF LedgerInv
<1> QED
  BY <1>3, <1>4, <1>7, <1>9, <1>10, <1>11 DEF ReceiverInv

\* A new epoch: nothing of it was taken.
LEMMA AdvanceRxKeeps ==
    ASSUME IInv, SInv', AdvanceRx
    PROVE  ReceiverInv'
<1>1. RInv(rx, sent) /\ ConsumerTypes /\ LedgerInv /\ TakenInv /\ NewestInv
      /\ rx \in RxState
  BY DEF IInv, ReceiverInv, RInv, SessionGood
<1>2. /\ rx.cancelled /\ rx.epoch < MaxEpoch /\ rx' = FreshRx(rx.epoch + 1)
      /\ ledger' = ledger /\ sent' = sent /\ told' = told /\ taken' = taken
      /\ deliveries' = deliveries /\ newest' = newest
  BY DEF AdvanceRx, consumer
<1>3. rx.epoch \in Nat /\ rx.epoch + 1 \in SessionEpoch /\ MaxEpoch \in Nat
  BY <1>1, <1>2, SessionTypes, SessionAssumption DEF SessionEpoch
<1>4. /\ RInv(rx', sent) /\ rx'.epoch = rx.epoch + 1 /\ rx'.cancelled = FALSE
      /\ rx'.history = {} /\ rx'.highest = 0 /\ rx'.newest = 0
  BY <1>2, <1>3, FreshKeeps
<1>5. \A n \in taken : n[1] \in Nat /\ n[1] <= rx.epoch
  BY <1>1, SessionAssumption
     DEF TakenInv, ConsumerTypes, Message, SessionEpoch
<1>6. \A n \in taken : n[1] < rx'.epoch
  BY <1>3, <1>4, <1>5
<1>7. ConsumerTypes' /\ TakenWasSent'
  BY <1>1, <1>2 DEF ConsumerTypes, TakenInv, TakenWasSent
<1>8. TakenInv'
  <2>1. \A n \in taken : n[1] <= rx'.epoch /\ n[1] # rx'.epoch
    BY <1>3, <1>4, <1>5
  <2>2. \A f \in sent : f.epoch = rx'.epoch => <<f.epoch, f.seq>> \notin taken
    <3> SUFFICES ASSUME NEW f \in sent, f.epoch = rx'.epoch,
                        <<f.epoch, f.seq>> \in taken
                 PROVE  FALSE
      OBVIOUS
    <3>1. <<f.epoch, f.seq>>[1] # rx'.epoch
      BY <2>1
    <3> QED
      BY <3>1
  <2> QED
    BY <1>2, <1>4, <1>7, <2>1, <2>2 DEF TakenInv
<1>9. NewestInv'
  <2>1. newest[1] <= rx.epoch /\ newest[1] \in Nat
    <3>1. newest[1] \in Nat
      BY <1>1, <1>3 DEF ConsumerTypes
    <3>2. CASE rx.newest = 0
      BY <1>1, <1>3, <3>1, <3>2 DEF NewestInv
    <3>3. CASE rx.newest # 0
      BY <1>1, <1>3, <3>3 DEF NewestInv
    <3> QED
      BY <3>1, <3>2, <3>3
  <2>2. newest[1] < rx.epoch + 1
    BY <1>3, <2>1
  <2> QED
    BY <1>2, <1>4, <2>2 DEF NewestInv
<1>10. LedgerInv'
  BY <1>1, <1>2, <1>4 DEF LedgerInv
<1> QED
  BY <1>2, <1>4, <1>7, <1>8, <1>9, <1>10 DEF ReceiverInv

\* The sender's steps leave the receiver alone.
LEMMA SenderOnlyKeeps ==
    ASSUME IInv, SInv', UNCHANGED <<receiver, told, consumer>>,
           sent \subseteq sent'
    PROVE  ReceiverInv'
<1>1. RInv(rx, sent) /\ ConsumerTypes /\ LedgerInv
  BY DEF IInv, ReceiverInv
<1>2. rx' = rx /\ ledger' = ledger /\ told' = told /\ UNCHANGED consumer
  BY DEF receiver
<1>3. RInv(rx', sent')
  BY <1>1, <1>2, MoreFrames
<1> QED
  BY <1>1, <1>2, <1>3, QuietKeeps DEF ConsumerTypes, LedgerInv

LEMMA ReceiverStep == IInv /\ [Next]_vars => ReceiverInv'
<1> SUFFICES ASSUME IInv, [Next]_vars PROVE ReceiverInv'
  OBVIOUS
<1>1. SInv'
  BY SenderStep DEF IInv
<1>2. CASE UNCHANGED <<receiver, sent, told, consumer>>
  BY <1>1, <1>2, SenderOnlyKeeps
<1>3. CASE UNCHANGED vars
  BY <1>2, <1>3 DEF vars, receiver, consumer
<1>4. ASSUME NEW snap \in BOOLEAN, Offer(snap) PROVE ReceiverInv'
  BY <1>2, <1>4 DEF Offer
<1>5. ASSUME NEW i \in TxSlot, DispatchBegin(i) PROVE ReceiverInv'
  BY <1>2, <1>5 DEF DispatchBegin
<1>6. CASE PreparePacket \/ RejectPacket \/ DispatchAbort \/ CancelTx \/ AdvanceTx
  BY <1>2, <1>6
     DEF PreparePacket, RejectPacket, DispatchAbort, CancelTx, AdvanceTx
<1>7. CASE ConfirmPacket
  <2>1. UNCHANGED <<receiver, told, consumer>> /\ sent \subseteq sent'
    BY <1>7 DEF ConfirmPacket
  <2> QED
    BY <1>1, <2>1, SenderOnlyKeeps
<1>8. ASSUME NEW S \in SUBSET ToldNow, ApplyAcks(S) PROVE ReceiverInv'
  BY <1>2, <1>8 DEF ApplyAcks
<1>9. ASSUME NEW f \in sent, NEW idle \in SUBSET Occupied(rx),
             Arrive(f, idle) \/ Repeat(f, idle)
      PROVE  ReceiverInv'
  BY <1>1, <1>9, ArriveKeeps
<1>10. ASSUME NEW idle \in SUBSET Occupied(rx), ExpireRx(idle)
       PROVE  ReceiverInv'
  <2>1. idle \in SUBSET RxSlot /\ rx' = Forget(rx, idle)
        /\ UNCHANGED <<ledger, sender, sent, told, consumer>>
    BY <1>10 DEF ExpireRx, Expire, Occupied
  <2> QED
    BY <1>1, <2>1, ForgetStepKeeps
<1>11. ASSUME NEW i \in RxSlot, DiscardRx(i) PROVE ReceiverInv'
  <2>1. {i} \in SUBSET RxSlot /\ rx' = Forget(rx, {i})
        /\ UNCHANGED <<ledger, sender, sent, told, consumer>>
    BY <1>11 DEF DiscardRx, Discard
  <2> QED
    BY <1>1, <2>1, ForgetStepKeeps
<1>12. ASSUME NEW i \in RxSlot, CommitRetained(i) PROVE ReceiverInv'
  BY <1>1, <1>12, CommitKeeps
<1>13. ASSUME NEW S \in SUBSET DOMAIN ledger,
              AckHandoff(S) \/ RetireReceipts(S)
       PROVE  ReceiverInv'
  BY <1>1, <1>13, ReceiptsKeep
<1>14. CASE CancelRx
  BY <1>1, <1>14, CancelRxKeeps
<1>15. CASE AdvanceRx
  BY <1>1, <1>15, AdvanceRxKeeps
<1> QED
  BY <1>3, <1>4, <1>5, <1>6, <1>7, <1>8, <1>9, <1>10, <1>11, <1>12, <1>13,
     <1>14, <1>15 DEF Next

LEMMA ReceiverInit == Init => ReceiverInv
<1> SUFFICES ASSUME Init PROVE ReceiverInv
  OBVIOUS
<1>1. /\ rx = FreshRx(1) /\ ledger = FreshLedger /\ sent = {} /\ told = {}
      /\ taken = {} /\ deliveries = 0 /\ newest = <<0, 0>>
  BY DEF Init, RxInit
<1>2. MaxEpoch \in Nat \ {0} /\ MaxSeq \in Nat \ {0} /\ 1 \in SessionEpoch
  BY SessionAssumption DEF SessionEpoch
<1>3. /\ RInv(rx, sent) /\ rx.epoch = 1 /\ rx.cancelled = FALSE
      /\ rx.history = {} /\ rx.highest = 0 /\ rx.newest = 0
  BY <1>1, <1>2, FreshKeeps
<1>4. ledger \in LedgerState /\ DOMAIN ledger = {}
  <2>1. FreshLedger \in [{} -> 0 .. Handoffs] /\ {} \in SUBSET Sequence
    BY DEF FreshLedger
  <2> QED
    BY <1>1, <2>1 DEF LedgerState, FreshLedger
<1>5. ConsumerTypes
  BY <1>1, <1>2, <1>4 DEF ConsumerTypes
<1>6. TakenInv /\ NewestInv /\ LedgerInv
  BY <1>1, <1>3, <1>4 DEF TakenInv, TakenWasSent, NewestInv, LedgerInv
<1> QED
  BY <1>3, <1>5, <1>6 DEF ReceiverInv

-----------------------------------------------------------------------------
(***************************************************************************)
(* What holds at all times.                                                *)
(***************************************************************************)
\* The message from the sender's slots through the network to the receiver's
\* history: every step of either end keeps all of it.
THEOREM Invariance == Spec => []IInv
<1>1. Init => IInv
  BY SenderInit, ReceiverInit DEF IInv
<1>2. IInv /\ [Next]_vars => IInv'
  BY SenderStep, ReceiverStep DEF IInv
<1> QED
  BY <1>1, <1>2, PTL DEF Spec

\* Every variable of the two ends and of the network keeps its type.
THEOREM TypeCorrect == Spec => []TypeOK
<1>1. IInv => TypeOK
  BY DEF IInv, SInv, SenderTypes, ReceiverInv, ConsumerTypes, RInv,
         SessionGood, TypeOK
<1> QED
  BY <1>1, Invariance, PTL

\* Whatever arrives, expires, is evicted or committed, in any order, the
\* session passes Worr_NativeRxSessionValidateV1 in the next call.
THEOREM AlwaysValid == Spec => []ReceiverValid
<1>1. IInv => ReceiverValid
  <2> SUFFICES ASSUME IInv PROVE ReceiverValid
    OBVIOUS
  <2>1. SessionGood(rx)
    BY DEF IInv, ReceiverInv, RInv
  <2> QED
    BY <2>1, GoodIsValid DEF ReceiverValid
<1> QED
  BY <1>1, Invariance, PTL

\* A message counts as sent only when all of its fragments were handed off.
THEOREM SentIsWhole == Spec => []AttemptsReal
<1>1. IInv => AttemptsReal
  BY DEF IInv, SInv, NetworkInv
<1> QED
  BY <1>1, Invariance, PTL

\* What the consumer was given was sent, in that epoch and whole.
THEOREM NothingInvented == Spec => []TakenWasSent
<1>1. IInv => TakenWasSent
  BY DEF IInv, ReceiverInv, TakenInv
<1> QED
  BY <1>1, Invariance, PTL

\* ApplyAcks never refuses a packet of this receiver: what it acknowledges it
\* took, what it took was sent whole, and what was sent whole was counted.
THEOREM NoAckRefused == Spec => []AcksAcceptable
<1>1. IInv => AcksAcceptable
  <2> SUFFICES ASSUME IInv, NEW s \in ToldNow PROVE AcceptableAck(s)
    BY DEF AcksAcceptable
  <2> DEFINE m == <<tx.epoch, s>>
  <2>1. m \in told
    <3>1. PICK n \in told : n[1] = tx.epoch /\ n[2] = s
      BY DEF ToldNow
    <3>2. n \in Message
      BY DEF IInv, ReceiverInv, ConsumerTypes
    <3> QED
      BY <3>1, <3>2 DEF Message
  <2>2. m \in taken /\ TakenWasSent
    BY <2>1 DEF IInv, ReceiverInv, LedgerInv, TakenInv
  <2>3. FragmentCount \in Fragment
    BY RxAssumption DEF Fragment
  <2>4. PICK snap \in BOOLEAN : [epoch |-> m[1], seq |-> m[2], snap |-> snap,
                                 frag |-> FragmentCount] \in sent
    BY <2>2, <2>3 DEF TakenWasSent
  <2> DEFINE f == [epoch |-> m[1], seq |-> m[2], snap |-> snap,
                   frag |-> FragmentCount]
  <2>5. /\ f \in sent /\ f.epoch = tx.epoch /\ f.seq = s
        /\ f.frag = FragmentCount
    BY <2>4
  <2> HIDE DEF f
  <2>6. s # 0
    <3>1. f.seq \in Sequence
      BY <2>5 DEF IInv, SInv, SenderTypes, Frame
    <3> QED
      BY <2>5, <3>1, SessionAssumption DEF Sequence
  <2>7. s <= Highwater
    BY <2>5 DEF IInv, SInv, NetworkInv
  <2>8. \A i \in TxSlot : tx.slots[i].seq = s => tx.slots[i].attempts > 0
    BY <2>5, <2>6 DEF IInv, SInv, NetworkInv, Retained
  <2> QED
    BY <2>7, <2>8 DEF AcceptableAck
<1> QED
  BY <1>1, Invariance, PTL

\* The sender's window and the receiver's are one: the receiver's is never
\* ahead of what was sent, and the sender is never a window ahead of a
\* reliable message it still has.
THEOREM NeverOutOfReach == Spec => []ReliableInWindow
<1>1. IInv => ReliableInWindow
  <2> SUFFICES ASSUME IInv, rx.epoch = tx.epoch, NEW i \in RetainedReliable,
                      OutOfWindow(rx, tx.slots[i].seq)
               PROVE  FALSE
    BY DEF ReliableInWindow
  <2>1. /\ tx \in TxState /\ rx \in RxState /\ HistoryValid(rx) /\ TakenInv
        /\ taken \subseteq Message
    BY DEF IInv, SInv, SenderTypes, ReceiverInv, RInv, SessionGood,
           ConsumerTypes
  <2>2. i \in TxSlot /\ tx.slots[i].seq # 0
    BY DEF RetainedReliable, Retained
  <2>3. /\ tx.slots[i].seq \in Nat /\ Highwater \in Nat /\ rx.highest \in Nat
        /\ Window \in Nat
    BY <2>1, <2>2, TxTypes, SessionTypes
  <2>4. Highwater - tx.slots[i].seq < Window
    BY DEF IInv, SInv, SenderInv
  <2>5. rx.highest # 0 /\ rx.highest - tx.slots[i].seq >= Window
    BY <2>2, <2>3 DEF OutOfWindow
  <2>6. rx.highest \in rx.history
    BY <2>1, <2>5 DEF HistoryValid
  <2>7. <<tx.epoch, rx.highest>> \in taken
    BY <2>1, <2>6 DEF TakenInv
  <2> DEFINE m == <<tx.epoch, rx.highest>>
  <2>8. 1 \in Fragment
    BY RxAssumption DEF Fragment
  <2>9. PICK snap \in BOOLEAN : [epoch |-> m[1], seq |-> m[2], snap |-> snap,
                                 frag |-> 1] \in sent
    BY <2>1, <2>7, <2>8 DEF TakenInv, TakenWasSent
  <2> DEFINE f == [epoch |-> m[1], seq |-> m[2], snap |-> snap, frag |-> 1]
  <2>10. f \in sent /\ f.epoch = tx.epoch /\ f.seq = rx.highest
    BY <2>9
  <2> HIDE DEF f
  <2>11. rx.highest <= Highwater
    BY <2>10 DEF IInv, SInv, NetworkInv
  <2> QED
    BY <2>3, <2>4, <2>5, <2>11
<1> QED
  BY <1>1, Invariance, PTL

-----------------------------------------------------------------------------
(***************************************************************************)
(* The transfer implements NativeDelivery.                                 *)
(***************************************************************************)
HeldBy(slot) == [m |-> <<tx.epoch, slot.seq>>, snap |-> slot.snap]

LEMMA HeldIs ==
    /\ \A i \in Retained : HeldBy(tx.slots[i]) \in Held
    /\ \A h \in Held : \E i \in Retained : h = HeldBy(tx.slots[i])
  BY DEF Held, HeldBy

\* A new message is offered.
LEMMA RefineOffer ==
    ASSUME SInv, NEW snap \in BOOLEAN, Offer(snap)
    PROVE  \E h \in [m : Message, snap : BOOLEAN] : Delivery!Offer(h)
<1>1. PICK i \in TxSlot :
          /\ Retain(i, snap)
          /\ \/ i \in RetainedSnapshot /\ snap
             \/ i \notin Retained /\ (snap => RetainedSnapshot = {})
  <2>1. CASE \E i \in RetainedSnapshot : snap /\ Retain(i, TRUE)
    <3>1. PICK i \in RetainedSnapshot : snap /\ Retain(i, TRUE)
      BY <2>1
    <3>2. i \in TxSlot /\ snap = TRUE
      BY <3>1 DEF RetainedSnapshot, Retained
    <3> QED
      BY <3>1, <3>2
  <2>2. CASE /\ ~snap \/ RetainedSnapshot = {}
             /\ FreeTx # {} /\ Retain(FirstFree, snap)
    <3>1. FirstFree \in FreeTx
      <4>1. FreeTx \subseteq Nat
        BY DEF FreeTx, TxSlot
      <4>2. \E i \in FreeTx : \A j \in FreeTx : i <= j
        BY <2>2, <4>1, SmallestExists
      <4> QED
        BY <4>2 DEF FirstFree
    <3> QED
      BY <2>2, <3>1 DEF FreeTx, Retained
  <2> QED
    BY <2>1, <2>2 DEF Offer, Enqueue
<1> DEFINE new == [seq |-> tx.next, snap |-> snap, attempts |-> 0]
           slots == [tx.slots EXCEPT ![i] = new]
           h == [m |-> <<tx.epoch, tx.next>>, snap |-> snap]
<1>2. /\ ~tx.cancelled /\ UNCHANGED <<taken, deliveries, newest>>
      /\ tx' = [tx EXCEPT !.exhausted = (tx.next = MaxSeq),
                          !.next = IF tx.next = MaxSeq THEN @ ELSE @ + 1,
                          !.slots = [@ EXCEPT ![i] = new]]
  BY ZenonT(40), <1>1 DEF Retain, Offer, Enqueue, consumer
<1>3. /\ tx \in TxState /\ tx.next \in Nat /\ tx.next # 0
      /\ tx.epoch \in SessionEpoch /\ tx.next \in Sequence
      /\ tx.slots \in [TxSlot -> TxSlotState]
  BY TxTypes DEF SInv, SenderTypes, TxState, Sequence
<1>4. /\ tx'.epoch = tx.epoch /\ tx'.cancelled = tx.cancelled
      /\ tx'.slots = slots
  BY <1>2, <1>3 DEF TxState
<1>5. /\ new.seq = tx.next /\ new.snap = snap
      /\ slots[i] = new /\ \A j \in TxSlot : j # i => slots[j] = tx.slots[j]
  BY <1>3
<1> HIDE DEF new, slots
<1>6. h \in [m : Message, snap : BOOLEAN] /\ h.snap = snap
  BY <1>3 DEF Message
<1>7. \A j \in TxSlot : /\ j \in Retained' <=> j = i \/ j \in Retained
                        /\ j # i => tx'.slots[j] = tx.slots[j]
  BY <1>3, <1>4, <1>5 DEF Retained
<1>8. HeldBy(tx.slots[i])' = h
  BY <1>4, <1>5 DEF HeldBy
<1>9. \A j \in TxSlot : j # i => HeldBy(tx.slots[j])' = HeldBy(tx.slots[j])
  BY <1>4, <1>7 DEF HeldBy
<1>10. Held' = {HeldBy(tx.slots[j]) : j \in Retained \ {i}} \cup {h}
  <2>1. Held' = {HeldBy(tx.slots[j])' : j \in Retained'}
    BY DEF Held, HeldBy
  <2>2. \A j \in Retained : j \in TxSlot
    BY DEF Retained
  <2>3. \A j \in Retained' : j \in TxSlot
    BY DEF Retained
  <2> HIDE DEF h
  <2> QED
    BY <1>7, <1>8, <1>9, <2>1, <2>2, <2>3
<1>11. Held = {HeldBy(tx.slots[j]) : j \in Retained}
  BY DEF Held, HeldBy
<1>12. Delivery!Snapshots = {HeldBy(tx.slots[j]) : j \in RetainedSnapshot}
  BY <1>11 DEF Delivery!Snapshots, RetainedSnapshot, HeldBy
<1> HIDE DEF h
<1>13. Held' = IF h.snap THEN (Held \ Delivery!Snapshots) \cup {h}
               ELSE Held \cup {h}
  <2>1. CASE i \in RetainedSnapshot /\ snap
    <3>1. RetainedSnapshot = {i}
      BY <2>1 DEF SInv, SenderInv
    <3>2. \A j \in Retained : j # i => HeldBy(tx.slots[j]) # HeldBy(tx.slots[i])
      <4>1. \A j \in Retained : j # i => tx.slots[j].seq # tx.slots[i].seq
        BY <2>1 DEF SInv, SenderInv, RetainedSnapshot
      <4> QED
        BY <4>1 DEF HeldBy
    <3>3. Delivery!Snapshots = {HeldBy(tx.slots[i])}
      BY <1>12, <3>1
    <3> QED
      BY <1>6, <1>10, <1>11, <2>1, <3>2, <3>3
  <2>2. CASE i \notin Retained /\ (snap => RetainedSnapshot = {})
    <3>1. Retained \ {i} = Retained
      BY <2>2
    <3>2. Held' = Held \cup {h}
      BY <1>10, <1>11, <3>1
    <3>3. snap => Delivery!Snapshots = {}
      BY <1>12, <2>2
    <3> QED
      BY <1>6, <3>2, <3>3
  <2> QED
    BY <1>1, <2>1, <2>2
<1>14. Delivery!Offer(h)
  BY <1>2, <1>4, <1>13 DEF Delivery!Offer
<1> QED
  BY <1>6, <1>14

\* Only acknowledged messages are let go, and those were taken.
LEMMA RefineAcks ==
    ASSUME IInv, NEW S \in SUBSET ToldNow, ApplyAcks(S)
    PROVE  \E G \in SUBSET Held : Delivery!LetGo(G)
<1> DEFINE G == {h \in Held : h.m[2] \in S}
           slots == [i \in TxSlot |-> IF tx.slots[i].seq \in S THEN EmptyTx
                                      ELSE tx.slots[i]]
<1>1. /\ tx' = [tx EXCEPT !.slots = slots]
      /\ UNCHANGED <<taken, deliveries, newest>>
  BY DEF ApplyAcks, Release, consumer
<1>2. tx \in TxState /\ told \subseteq Message /\ told \subseteq taken
  BY DEF IInv, SInv, SenderTypes, ReceiverInv, ConsumerTypes, LedgerInv
<1>3. tx'.epoch = tx.epoch /\ tx'.cancelled = tx.cancelled /\ tx'.slots = slots
  BY <1>1, <1>2 DEF TxState
<1>4. \A i \in TxSlot : slots[i] = IF tx.slots[i].seq \in S THEN EmptyTx
                                   ELSE tx.slots[i]
  OBVIOUS
<1> HIDE DEF slots
<1>5. \A i : i \in Retained' <=> i \in Retained /\ tx.slots[i].seq \notin S
  BY <1>3, <1>4 DEF Retained, EmptyTx
<1>6. \A i \in Retained' : tx'.slots[i] = tx.slots[i]
  BY <1>3, <1>4, <1>5 DEF Retained
<1>7. Held' = {HeldBy(tx.slots[i]) : i \in Retained'}
  BY <1>3, <1>6 DEF Held, HeldBy
<1>8. \A i : HeldBy(tx.slots[i]).m[2] = tx.slots[i].seq
             /\ HeldBy(tx.slots[i]).m = <<tx.epoch, tx.slots[i].seq>>
  BY DEF HeldBy
<1>9. Held' = Held \ G
  <2>1. Held = {HeldBy(tx.slots[i]) : i \in Retained}
    BY DEF Held, HeldBy
  <2> QED
    BY <1>5, <1>7, <1>8, <2>1
<1>10. \A s \in S : <<tx.epoch, s>> \in taken
  <2> TAKE s \in S
  <2>1. PICK n \in told : n[1] = tx.epoch /\ n[2] = s
    BY DEF ToldNow
  <2>2. n \in Message /\ n \in taken
    BY <1>2, <2>1
  <2> QED
    BY <2>1, <2>2 DEF Message
<1>11. {h.m : h \in G} \subseteq taken
  <2> SUFFICES ASSUME NEW h \in G PROVE h.m \in taken
    OBVIOUS
  <2>1. PICK i \in Retained : h = HeldBy(tx.slots[i])
    BY HeldIs
  <2> QED
    BY <1>8, <1>10, <2>1
<1>12. Delivery!LetGo(G)
  BY <1>1, <1>3, <1>9, <1>11 DEF Delivery!LetGo
<1> QED
  BY <1>12

\* The consumer is given a message.
LEMMA RefineCommit ==
    ASSUME IInv, NEW i \in RxSlot, CommitRetained(i)
    PROVE  \E m \in Message, snap \in BOOLEAN : Delivery!Take(m, snap)
<1> DEFINE m == <<rx.epoch, rx.slots[i].seq>>
           snap == rx.slots[i].snap
<1>1. /\ rx.slots[i].seq \in Sequence /\ snap \in BOOLEAN /\ m \notin taken
      /\ snap => rx.slots[i].seq > rx.newest
  BY CommitIsNew
<1>2. /\ taken' = taken \cup {m} /\ deliveries' = deliveries + 1
      /\ newest' = IF snap THEN m ELSE newest
      /\ tx' = tx
  BY DEF CommitRetained, sender
<1>3. rx.epoch \in SessionEpoch /\ NewestInv /\ rx.newest \in Nat
  <2>1. rx \in RxState /\ NewestInv
    BY DEF IInv, ReceiverInv, RInv, SessionGood
  <2> QED
    BY <2>1, SessionTypes
<1>4. m \in Message
  BY <1>1, <1>3 DEF Message
<1>5. Held' = Held
  BY <1>2 DEF Held, Retained
<1>6. snap => Delivery!Older(newest, m)
  <2> SUFFICES ASSUME snap PROVE Delivery!Older(newest, m)
    OBVIOUS
  <2>1. CASE rx.newest = 0
    BY <1>3, <2>1 DEF NewestInv, Delivery!Older
  <2>2. CASE rx.newest # 0
    <3>1. newest[1] = rx.epoch /\ newest[2] = rx.newest
      BY <1>3, <2>2 DEF NewestInv
    <3>2. rx.newest < rx.slots[i].seq
      BY <1>1, <1>3, SessionAssumption DEF Sequence
    <3> QED
      BY <3>1, <3>2 DEF Delivery!Older
  <2> QED
    BY <2>1, <2>2
<1>7. Delivery!Take(m, snap)
  BY <1>1, <1>2, <1>5, <1>6 DEF Delivery!Take
<1> QED
  BY <1>1, <1>4, <1>7

\* The sender's epoch ends and a new one starts.
LEMMA RefineEpochs ==
    ASSUME IInv, CancelTx \/ AdvanceTx
    PROVE  Delivery!GiveUp \/ Delivery!StartOver
<1>1. tx \in TxState /\ SenderInv
  BY DEF IInv, SInv, SenderTypes
<1>2. UNCHANGED <<taken, deliveries, newest>>
  BY DEF CancelTx, AdvanceTx, consumer
<1>3. CASE CancelTx
  <2>1. tx' = [tx EXCEPT !.cancelled = TRUE,
                         !.slots = [j \in TxSlot |-> EmptyTx]]
    BY <1>3 DEF CancelTx, CancelRetained
  <2>2. tx'.cancelled = TRUE /\ tx'.slots = [j \in TxSlot |-> EmptyTx]
    BY <1>1, <2>1 DEF TxState
  <2>3. Held' = {}
    BY <2>2 DEF Held, Retained, EmptyTx
  <2> QED
    BY <1>2, <2>2, <2>3 DEF Delivery!GiveUp
<1>4. CASE AdvanceTx
  <2>1. tx.cancelled /\ tx' = FreshTx(tx.epoch + 1)
    BY <1>4 DEF AdvanceTx
  <2>2. tx'.cancelled = FALSE /\ tx'.slots = [j \in TxSlot |-> EmptyTx]
    BY <2>1 DEF FreshTx
  <2>3. Held' = {} /\ Held = {}
    BY <1>1, <2>1, <2>2 DEF Held, Retained, EmptyTx, SenderInv
  <2> QED
    BY <1>2, <2>1, <2>2, <2>3 DEF Delivery!StartOver
<1> QED
  BY <1>3, <1>4

\* A fragment that goes out may count, and no more.
LEMMA RefineConfirm ==
    ASSUME SInv, ConfirmPacket
    PROVE  UNCHANGED Delivery!vars
<1>1. UNCHANGED <<taken, deliveries, newest>>
  BY DEF ConfirmPacket, consumer
<1>2. tx \in TxState
  BY DEF SInv, SenderTypes
<1>3. CASE tx' = tx
  BY <1>1, <1>3 DEF Delivery!vars, Held, Retained
<1>4. CASE ConfirmPrepared(gate.ticket)
  <2> DEFINE k == gate.ticket.slot
             slots == [tx.slots EXCEPT ![k].attempts = @ + 1]
  <2>1. tx' = [tx EXCEPT !.slots = slots]
    BY <1>2, <1>4 DEF ConfirmPrepared, TxState
  <2>2. \A i \in TxSlot : slots[i].seq = tx.slots[i].seq
                          /\ slots[i].snap = tx.slots[i].snap
    <3> SUFFICES ASSUME NEW i \in TxSlot
                 PROVE  slots[i].seq = tx.slots[i].seq
                        /\ slots[i].snap = tx.slots[i].snap
      OBVIOUS
    <3>1. tx.slots \in [TxSlot -> TxSlotState] /\ tx.slots[i] \in TxSlotState
      BY <1>2 DEF TxState
    <3>2. CASE i = k
      BY <3>1, <3>2 DEF TxSlotState
    <3>3. CASE i # k
      BY <3>1, <3>3
    <3> QED
      BY <3>2, <3>3
  <2> HIDE DEF slots
  <2>3. tx'.epoch = tx.epoch /\ tx'.cancelled = tx.cancelled /\ tx'.slots = slots
    BY <1>2, <2>1 DEF TxState
  <2>4. Retained' = Retained
    BY <2>2, <2>3 DEF Retained
  <2>5. \A i \in Retained : tx'.slots[i].seq = tx.slots[i].seq
                            /\ tx'.slots[i].snap = tx.slots[i].snap
    BY <2>2, <2>3 DEF Retained
  <2>6. Held' = Held
    BY <2>3, <2>4, <2>5 DEF Held
  <2> QED
    BY <1>1, <2>3, <2>6 DEF Delivery!vars
<1> QED
  BY <1>3, <1>4 DEF ConfirmPacket

LEMMA RefineInit == Init => Delivery!Init
<1> SUFFICES ASSUME Init PROVE Delivery!Init
  OBVIOUS
<1>1. /\ tx = FreshTx(1)
      /\ taken = {} /\ deliveries = 0 /\ newest = <<0, 0>>
  BY DEF Init, TxInit
<1>2. tx.cancelled = FALSE /\ tx.slots = [i \in TxSlot |-> EmptyTx]
  BY <1>1 DEF FreshTx
<1>3. Held = {}
  BY <1>2 DEF Held, Retained, EmptyTx
<1> QED
  BY <1>1, <1>2, <1>3 DEF Delivery!Init

LEMMA RefineNext == IInv /\ [Next]_vars => [Delivery!Next]_(Delivery!vars)
<1> SUFFICES ASSUME IInv, [Next]_vars
             PROVE  Delivery!Next \/ UNCHANGED Delivery!vars
  OBVIOUS
<1>1. SInv
  BY DEF IInv
<1>2. CASE UNCHANGED <<tx, consumer>>
  BY <1>2 DEF Delivery!vars, Held, Retained, consumer
<1>3. CASE UNCHANGED vars
  BY <1>2, <1>3 DEF vars, consumer
<1>4. ASSUME NEW snap \in BOOLEAN, Offer(snap) PROVE Delivery!Next
  BY <1>1, <1>4, RefineOffer DEF Delivery!Next
<1>5. ASSUME NEW i \in TxSlot, DispatchBegin(i)
      PROVE  Delivery!Next \/ UNCHANGED Delivery!vars
  BY <1>2, <1>5 DEF DispatchBegin
<1>6. CASE PreparePacket \/ RejectPacket \/ DispatchAbort
  BY <1>2, <1>6 DEF PreparePacket, RejectPacket, DispatchAbort
<1>7. CASE ConfirmPacket
  BY <1>1, <1>7, RefineConfirm
<1>8. ASSUME NEW S \in SUBSET ToldNow, ApplyAcks(S) PROVE Delivery!Next
  BY <1>8, RefineAcks DEF Delivery!Next
<1>9. CASE CancelTx \/ AdvanceTx
  BY <1>9, RefineEpochs DEF Delivery!Next
<1>10. ASSUME NEW f \in sent, NEW idle \in SUBSET Occupied(rx),
              Arrive(f, idle) \/ Repeat(f, idle)
       PROVE  Delivery!Next \/ UNCHANGED Delivery!vars
  BY <1>2, <1>10 DEF Arrive, Repeat, sender
<1>11. ASSUME NEW idle \in SUBSET Occupied(rx), ExpireRx(idle)
       PROVE  Delivery!Next \/ UNCHANGED Delivery!vars
  BY <1>2, <1>11 DEF ExpireRx, sender
<1>12. ASSUME NEW i \in RxSlot, DiscardRx(i)
       PROVE  Delivery!Next \/ UNCHANGED Delivery!vars
  BY <1>2, <1>12 DEF DiscardRx, sender
<1>13. ASSUME NEW i \in RxSlot, CommitRetained(i) PROVE Delivery!Next
  BY <1>13, RefineCommit DEF Delivery!Next
<1>14. ASSUME NEW S \in SUBSET DOMAIN ledger,
              AckHandoff(S) \/ RetireReceipts(S)
       PROVE  Delivery!Next \/ UNCHANGED Delivery!vars
  BY <1>2, <1>14 DEF AckHandoff, RetireReceipts, sender
<1>15. CASE CancelRx \/ AdvanceRx
  BY <1>2, <1>15 DEF CancelRx, AdvanceRx, sender
<1> QED
  BY <1>3, <1>4, <1>5, <1>6, <1>7, <1>8, <1>9, <1>10, <1>11, <1>12, <1>13,
     <1>14, <1>15 DEF Next

\* Each message is handed over at most once, snapshots only newer ones, and
\* the sender lets go of nothing that was not handed over.
THEOREM ImplementsDelivery == Spec => DeliverySpec
<1>1. Spec => Delivery!Init /\ [][Delivery!Next]_(Delivery!vars)
  BY Invariance, RefineInit, RefineNext, PTL DEF Spec
<1> QED
  BY <1>1 DEF DeliverySpec, Delivery!Spec

=============================================================================
