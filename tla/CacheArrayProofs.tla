-------------------------- MODULE CacheArrayProofs --------------------------
(***************************************************************************)
(* What the operations of CacheArray keep true of a set of lines, for any  *)
(* associativity and every replacement policy but PLRU, whose tree is      *)
(* addressed with powers of two the provers have no theory of.             *)
(***************************************************************************)
EXTENDS CacheArray, SequenceTheorems, WellFoundedInduction, TLAPS

(* A set of n lines for blocks of Tags: well formed, a valid line holds a  *)
(* block, and no block is valid twice.                                     *)
SetOK(s, n, Tags) ==
    /\ s \in Seq(Line(n, Tags)) /\ Len(s) = n
    /\ \A i \in 1 .. n : s[i].valid => s[i].tag \in Tags
    /\ \A i, j \in 1 .. n : s[i].valid /\ s[j].valid /\ s[i].tag = s[j].tag => i = j

(* The block is valid nowhere in the set.                                  *)
Absent(s, n, tag) == \A i \in 1 .. n : ~(s[i].valid /\ s[i].tag = tag)

-----------------------------------------------------------------------------
(* Least elements and shortened sequences.                                 *)

(* Min picks the least element of a set of natural numbers.                *)
LEMMA MinIsLeast ==
    ASSUME NEW S, S \subseteq Nat, S # {}
    PROVE  Min(S) \in S /\ \A k \in S : Min(S) <= k
<1> DEFINE R == OpToRel(<, Nat)
<1>1. IsWellFoundedOn(R, Nat)
    BY NatLessThanWellFounded
<1>2. \A i, j \in Nat : <<j, i>> \in R <=> j < i
    BY DEF OpToRel
<1> HIDE DEF R
<1>3. PICK i \in S : \A j \in S : ~(<<j, i>> \in R)
    BY <1>1, WFMin, Zenon
<1>4. \A j \in S : ~(j < i)
    BY <1>2, <1>3
<1>5. \A j \in S : i =< j
    BY <1>4
<1> QED
    BY <1>5 DEF Min

(* The place in s of the k-th element of s without its i-th.               *)
Skip(i, k) == IF k < i THEN k ELSE k + 1

(* r is s without its i-th element, the others in their order.             *)
Removed(s, r, i) ==
    /\ Len(r) = Len(s) - 1
    /\ \A k \in 1 .. Len(s) - 1 : Skip(i, k) \in (1 .. Len(s)) \ {i} /\ r[k] = s[Skip(i, k)]
    /\ \A j \in 1 .. Len(s) : j # i => \E k \in 1 .. Len(s) - 1 : Skip(i, k) = j
    /\ \A k, l \in 1 .. Len(s) - 1 : Skip(i, k) = Skip(i, l) => k = l

LEMMA RemoveAtIs ==
    ASSUME NEW S, NEW s \in Seq(S), NEW i \in 1 .. Len(s)
    PROVE  RemoveAt(s, i) \in Seq(S) /\ Removed(s, RemoveAt(s, i), i)
<1> DEFINE a == SubSeq(s, 1, i - 1)
           b == SubSeq(s, i + 1, Len(s))
<1>1. a \in Seq(S) /\ Len(a) = i - 1 /\ \A k \in 1 .. i - 1 : a[k] = s[k]
    OBVIOUS
<1>2. b \in Seq(S) /\ Len(b) = Len(s) - i /\ \A k \in 1 .. Len(s) - i : b[k] = s[i + k]
    <2>1. b \in Seq(S)
        OBVIOUS
    <2>2. Len(b) = Len(s) - i
        OBVIOUS
    <2>3. \A k \in 1 .. Len(s) - i : b[k] = s[i + k]
        OBVIOUS
    <2> QED
        BY <2>1, <2>2, <2>3
<1>3. RemoveAt(s, i) = a \o b
    BY Zenon DEF RemoveAt
<1> HIDE DEF a, b
<1>4. a \o b \in Seq(S) /\ Len(a \o b) = Len(s) - 1
    <2>1. a \o b \in Seq(S) /\ Len(a \o b) = Len(a) + Len(b)
        BY <1>1, <1>2, ConcatProperties, Zenon
    <2> QED
        BY <1>1, <1>2, <2>1
<1>5. ASSUME NEW k \in 1 .. Len(s) - 1
      PROVE  Skip(i, k) \in (1 .. Len(s)) \ {i} /\ (a \o b)[k] = s[Skip(i, k)]
    <2>1. CASE k < i
        BY <1>1, <1>2, <2>1 DEF Skip
    <2>2. CASE ~(k < i)
        <3>1. k - (i - 1) \in 1 .. Len(s) - i /\ k > Len(a) /\ i + (k - (i - 1)) = k + 1
            BY <1>1, <2>2
        <3>2. (a \o b)[k] = b[k - Len(a)]
            BY <1>1, <1>2, <3>1
        <3> QED
            BY <1>1, <1>2, <2>2, <3>1, <3>2 DEF Skip
    <2> QED
        BY <2>1, <2>2
<1>6. ASSUME NEW j \in 1 .. Len(s), j # i
      PROVE  \E k \in 1 .. Len(s) - 1 : Skip(i, k) = j
    <2>1. CASE j < i
        <3>1. j \in 1 .. Len(s) - 1 /\ Skip(i, j) = j
            BY <2>1 DEF Skip
        <3> QED
            BY <3>1
    <2>2. CASE ~(j < i)
        <3>1. j - 1 \in 1 .. Len(s) - 1 /\ Skip(i, j - 1) = j
            BY <1>6, <2>2 DEF Skip
        <3> QED
            BY <3>1
    <2> QED
        BY <2>1, <2>2
<1>7. \A k, l \in 1 .. Len(s) - 1 : Skip(i, k) = Skip(i, l) => k = l
    BY DEF Skip
<1> QED
    BY <1>3, <1>4, <1>5, <1>6, <1>7 DEF Removed

(* t is s with e at i.                                                     *)
Put(s, t, i, e) ==
    /\ Len(t) = Len(s)
    /\ \A j \in 1 .. Len(s) : t[j] = IF j = i THEN e ELSE s[j]

LEMMA PutIs ==
    ASSUME NEW S, NEW s \in Seq(S), NEW i \in 1 .. Len(s), NEW e \in S,
           NEW t, t = [s EXCEPT ![i] = e]
    PROVE  t \in Seq(S) /\ Put(s, t, i, e)
    BY ExceptSeq DEF Put

-----------------------------------------------------------------------------
(* Rewriting a line, and rearranging the list.                             *)

(* t is s with other replacement state: same blocks in the same places.    *)
SameBlocks(s, t, n, Tags) ==
    /\ t \in Seq(Line(n, Tags)) /\ Len(t) = n
    /\ \A i \in 1 .. n : t[i].valid = s[i].valid /\ t[i].tag = s[i].tag /\ t[i].dirty = s[i].dirty

LEMMA SameBlocksOK ==
    ASSUME NEW n \in Nat, NEW Tags, NEW s, NEW t, SetOK(s, n, Tags),
           t \in Seq(Line(n, Tags)), Len(t) = n,
           \A i \in 1 .. n : t[i].valid = s[i].valid /\ t[i].tag = s[i].tag
    PROVE  /\ SetOK(t, n, Tags)
           /\ \A tag : Absent(s, n, tag) <=> Absent(t, n, tag)
<1>1. SetOK(t, n, Tags)
    BY DEF SetOK
<1>2. ASSUME NEW tag PROVE Absent(s, n, tag) <=> Absent(t, n, tag)
    BY DEF Absent
<1> QED
    BY <1>1, <1>2

LEMMA LineFields ==
    ASSUME NEW n \in Nat, NEW Tags, NEW l \in Line(n, Tags)
    PROVE  /\ l.way \in 0 .. n - 1 /\ l.tag \in Tags \cup {NoTag} /\ l.valid \in BOOLEAN
           /\ l.dirty \in BOOLEAN /\ l.prefetched \in BOOLEAN /\ l.prefetch_used \in BOOLEAN
           /\ l.meta \in SUBSET (0 .. n) /\ l.hand \in 0 .. n - 1
    BY DEF Line

LEMMA LineDirty ==
    ASSUME NEW n \in Nat, NEW Tags, NEW l \in Line(n, Tags), NEW v \in BOOLEAN
    PROVE  LET m == [l EXCEPT !.dirty = v]
           IN  m \in Line(n, Tags) /\ m.valid = l.valid /\ m.tag = l.tag
    BY DEF Line

LEMMA LineUsed ==
    ASSUME NEW n \in Nat, NEW Tags, NEW l \in Line(n, Tags), NEW v \in BOOLEAN
    PROVE  LET m == [l EXCEPT !.prefetch_used = v]
           IN  m \in Line(n, Tags) /\ m.valid = l.valid /\ m.tag = l.tag /\ m.dirty = l.dirty
    BY DEF Line

LEMMA LineMeta ==
    ASSUME NEW n \in Nat, NEW Tags, NEW l \in Line(n, Tags), NEW v \in SUBSET (0 .. n)
    PROVE  LET m == [l EXCEPT !.meta = v]
           IN  m \in Line(n, Tags) /\ m.valid = l.valid /\ m.tag = l.tag /\ m.dirty = l.dirty
    BY DEF Line

LEMMA LineHand ==
    ASSUME NEW n \in Nat, NEW Tags, NEW l \in Line(n, Tags), NEW v \in 0 .. n - 1
    PROVE  LET m == [l EXCEPT !.hand = v]
           IN  m \in Line(n, Tags) /\ m.valid = l.valid /\ m.tag = l.tag /\ m.dirty = l.dirty
    BY DEF Line

(* The line v.at after its block is thrown out.                            *)
LEMMA LineInvalid ==
    ASSUME NEW n \in Nat, NEW Tags, NEW l \in Line(n, Tags)
    PROVE  LET m == [[l EXCEPT !.valid = FALSE] EXCEPT !.dirty = FALSE]
           IN  m \in Line(n, Tags) /\ m.valid = FALSE /\ m.tag = l.tag
    BY DEF Line

(* t lists the lines of s in the order p.                                  *)
Reorders(p, s, t, n) ==
    /\ p \in [1 .. n -> 1 .. n]
    /\ \A i, j \in 1 .. n : p[i] = p[j] => i = j
    /\ \A i \in 1 .. n : t[i] = s[p[i]]

(* A rearrangement of the list keeps the set what it is.                   *)
LEMMA Rearranged ==
    ASSUME NEW n \in Nat, NEW Tags, NEW s, NEW t, NEW p, SetOK(s, n, Tags),
           t \in Seq(Line(n, Tags)), Len(t) = n, Reorders(p, s, t, n)
    PROVE  SetOK(t, n, Tags)
<1> USE DEF Reorders
<1>1. \A i \in 1 .. n : p[i] \in 1 .. n
    OBVIOUS
<1>2. \A i \in 1 .. n : t[i].valid => t[i].tag \in Tags
    BY <1>1 DEF SetOK
<1>3. ASSUME NEW i \in 1 .. n, NEW j \in 1 .. n, t[i].valid, t[j].valid, t[i].tag = t[j].tag
      PROVE  i = j
    <2>1. s[p[i]].valid /\ s[p[j]].valid /\ s[p[i]].tag = s[p[j]].tag
        BY <1>3
    <2>2. p[i] = p[j]
        BY <1>1, <2>1 DEF SetOK
    <2> QED
        BY <2>2
<1> QED
    BY <1>2, <1>3 DEF SetOK

LEMMA MoveToFrontOK ==
    ASSUME NEW n \in Nat, NEW Tags, NEW s, SetOK(s, n, Tags), NEW i \in 1 .. n
    PROVE  SetOK(MoveToFront(s, i), n, Tags)
<1> DEFINE L == Line(n, Tags)
           r == RemoveAt(s, i)
           t == <<s[i]>> \o r
           p == [k \in 1 .. n |-> IF k = 1 THEN i ELSE Skip(i, k - 1)]
<1>1. s \in Seq(L) /\ Len(s) = n /\ s[i] \in L
    BY DEF SetOK
<1> HIDE DEF L
<1>2. /\ r \in Seq(L) /\ Len(r) = n - 1
      /\ \A k \in 1 .. n - 1 : Skip(i, k) \in (1 .. n) \ {i} /\ r[k] = s[Skip(i, k)]
      /\ \A k, l \in 1 .. n - 1 : Skip(i, k) = Skip(i, l) => k = l
    <2>1. r \in Seq(L) /\ Removed(s, r, i)
        <3>1. i \in 1 .. Len(s)
            BY <1>1
        <3> QED
            BY <1>1, <3>1, RemoveAtIs, Zenon
    <2> QED
        BY <1>1, <2>1 DEF Removed
<1> HIDE DEF r
<1>3. t \in Seq(L) /\ Len(t) = n /\ t[1] = s[i] /\ \A k \in 2 .. n : t[k] = r[k - 1]
    <2>1. <<s[i]>> \in Seq(L) /\ Len(<<s[i]>>) = 1 /\ <<s[i]>>[1] = s[i]
        BY <1>1
    <2> QED
        BY <1>2, <2>1, ConcatProperties
<1>4. \A k \in 1 .. n : k # 1 => k - 1 \in 1 .. n - 1
    OBVIOUS
<1>5. p \in [1 .. n -> 1 .. n]
    BY <1>2, <1>4
<1>6. \A k, l \in 1 .. n : p[k] = p[l] => k = l
    BY <1>2, <1>4
<1>7. \A k \in 1 .. n : t[k] = s[p[k]]
    BY <1>2, <1>3, <1>4
<1> HIDE DEF t, p
<1>8. SetOK(t, n, Tags)
    <2>1. Reorders(p, s, t, n)
        BY <1>5, <1>6, <1>7 DEF Reorders
    <2> QED
        BY <1>3, <2>1, Rearranged, Zenon DEF L
<1> QED
    BY <1>8 DEF MoveToFront, t, r

LEMMA MoveToBackOK ==
    ASSUME NEW n \in Nat, NEW Tags, NEW s, SetOK(s, n, Tags), NEW i \in 1 .. n
    PROVE  SetOK(MoveToBack(s, i), n, Tags)
<1> DEFINE L == Line(n, Tags)
           r == RemoveAt(s, i)
           t == Append(r, s[i])
           p == [k \in 1 .. n |-> IF k = n THEN i ELSE Skip(i, k)]
<1>1. s \in Seq(L) /\ Len(s) = n /\ s[i] \in L
    BY DEF SetOK
<1> HIDE DEF L
<1>2. /\ r \in Seq(L) /\ Len(r) = n - 1
      /\ \A k \in 1 .. n - 1 : Skip(i, k) \in (1 .. n) \ {i} /\ r[k] = s[Skip(i, k)]
      /\ \A k, l \in 1 .. n - 1 : Skip(i, k) = Skip(i, l) => k = l
    <2>1. r \in Seq(L) /\ Removed(s, r, i)
        <3>1. i \in 1 .. Len(s)
            BY <1>1
        <3> QED
            BY <1>1, <3>1, RemoveAtIs, Zenon
    <2> QED
        BY <1>1, <2>1 DEF Removed
<1> HIDE DEF r
<1>3. t \in Seq(L) /\ Len(t) = n /\ t[n] = s[i] /\ \A k \in 1 .. n - 1 : t[k] = r[k]
    BY <1>1, <1>2
<1>4. \A k \in 1 .. n : k # n => k \in 1 .. n - 1
    OBVIOUS
<1>5. p \in [1 .. n -> 1 .. n]
    BY <1>2, <1>4
<1>6. \A k, l \in 1 .. n : p[k] = p[l] => k = l
    BY <1>2, <1>4
<1>7. \A k \in 1 .. n : t[k] = s[p[k]]
    BY <1>2, <1>3, <1>4
<1> HIDE DEF t, p
<1>8. SetOK(t, n, Tags)
    <2>1. Reorders(p, s, t, n)
        BY <1>5, <1>6, <1>7 DEF Reorders
    <2> QED
        BY <1>3, <2>1, Rearranged, Zenon DEF L
<1> QED
    BY <1>8 DEF MoveToBack, t, r

LEMMA ReferencedOK ==
    ASSUME NEW n \in Nat, NEW Tags, NEW s, SetOK(s, n, Tags), NEW i \in 1 .. n,
           NEW policy \in Policies \ {"PLRU"}
    PROVE  SetOK(Referenced(policy, s, i), n, Tags)
<1>1. CASE policy \in {"LRU", "NMRU", "RANDOM"}
    BY <1>1, MoveToFrontOK DEF Referenced
<1>2. CASE policy = "MRU"
    BY <1>2, MoveToBackOK DEF Referenced
<1>3. CASE policy = "CLOCK"
    BY <1>3 DEF Referenced
<1> QED
    BY <1>1, <1>2, <1>3 DEF Policies

(* cache_peek finds a valid line of the block, if there is one.            *)
LEMMA PeekFinds ==
    ASSUME NEW n \in Nat, NEW Tags, NEW s, SetOK(s, n, Tags), NEW tag
    PROVE  LET i == cache_peek(s, tag)
           IN  /\ i = 0 => Absent(s, n, tag)
               /\ i # 0 => i \in 1 .. n /\ s[i].valid /\ s[i].tag = tag
<1> DEFINE hits == {i \in 1 .. Len(s) : s[i].valid /\ s[i].tag = tag}
<1>1. Len(s) = n
    BY DEF SetOK
<1>2. CASE hits = {}
    BY <1>1, <1>2 DEF cache_peek, Absent
<1>3. CASE hits # {}
    <2>1. Min(hits) \in hits
        <3>1. hits \subseteq Nat
            OBVIOUS
        <3> QED
            BY <1>3, <3>1, MinIsLeast, Zenon
    <2>2. cache_peek(s, tag) = Min(hits)
        BY <1>3 DEF cache_peek
    <2> QED
        BY <1>1, <2>1, <2>2
<1> QED
    BY <1>2, <1>3

(* A line is replaced by one with the same block.                          *)
LEMMA Marked ==
    ASSUME NEW n \in Nat, NEW Tags, NEW s, SetOK(s, n, Tags), NEW i \in 1 .. n,
           NEW l \in Line(n, Tags), l.valid = s[i].valid, l.tag = s[i].tag
    PROVE  /\ SetOK([s EXCEPT ![i] = l], n, Tags)
           /\ l.dirty = s[i].dirty => SameBlocks(s, [s EXCEPT ![i] = l], n, Tags)
<1> DEFINE t == [s EXCEPT ![i] = l]
<1>1. s \in Seq(Line(n, Tags)) /\ Len(s) = n
    BY DEF SetOK
<1>2. t \in Seq(Line(n, Tags)) /\ Len(t) = n /\ \A j \in 1 .. n : t[j] = IF j = i THEN l ELSE s[j]
    BY <1>1, ExceptSeq
<1> HIDE DEF t
<1>3. \A j \in 1 .. n : t[j].valid = s[j].valid /\ t[j].tag = s[j].tag
    BY <1>2
<1>4. SetOK(t, n, Tags)
    BY <1>2, <1>3, SameBlocksOK, Zenon
<1>5. l.dirty = s[i].dirty => SameBlocks(s, t, n, Tags)
    BY <1>2, <1>3 DEF SameBlocks
<1> QED
    BY <1>4, <1>5 DEF t

(* cache_is_hit moves lines and bits only.                                 *)
LEMMA IsHitOK ==
    ASSUME NEW n \in Nat, NEW Tags, NEW s, SetOK(s, n, Tags), NEW policy \in Policies \ {"PLRU"},
           NEW wb \in BOOLEAN, NEW cmd, NEW tag
    PROVE  SetOK(cache_is_hit(policy, wb, s, cmd, tag), n, Tags)
<1> DEFINE i == cache_peek(s, tag)
           d == IF cmd \in Writes /\ wb THEN [s EXCEPT ![i].dirty = TRUE] ELSE s
<1>1. CASE i = 0
    BY <1>1 DEF cache_is_hit
<1>2. CASE i # 0
    <2>1. i \in 1 .. n
        BY <1>2, PeekFinds
    <2> HIDE DEF i
    <2>2. Len(s) = n /\ s \in Seq(Line(n, Tags)) /\ \A j \in 1 .. n : s[j] \in Line(n, Tags)
        BY DEF SetOK
    <2>3. SetOK(d, n, Tags) /\ \A j \in 1 .. n : d[j].way = s[j].way /\ d[j] \in Line(n, Tags)
        <3>1. CASE cmd \in Writes /\ wb
            <4>1. d = [s EXCEPT ![i] = [s[i] EXCEPT !.dirty = TRUE]]
                BY <3>1
            <4>2. LET m == [s[i] EXCEPT !.dirty = TRUE]
                  IN  m \in Line(n, Tags) /\ m.valid = s[i].valid /\ m.tag = s[i].tag
                <5>1. s[i] \in Line(n, Tags)
                    BY <2>1, <2>2
                <5> HIDE DEF d
                <5> QED
                    BY <5>1, LineDirty
            <4>3. SetOK([s EXCEPT ![i] = [s[i] EXCEPT !.dirty = TRUE]], n, Tags)
                BY <2>1, <4>2, Marked, Zenon
            <4>4. SetOK(d, n, Tags)
                BY <4>1, <4>3
            <4>5. \A j \in 1 .. n : d[j] \in Line(n, Tags)
                BY <4>4 DEF SetOK
            <4>6. \A j \in 1 .. n : d[j].way = s[j].way
                BY <2>1, <2>2, <4>1 DEF Line
            <4> QED
                BY <4>4, <4>5, <4>6
        <3>2. CASE ~(cmd \in Writes /\ wb)
            BY <2>2, <3>2
        <3> QED
            BY <3>1, <3>2
    <2>4. cache_is_hit(policy, wb, s, cmd, tag)
          = IF i = 0 THEN s
            ELSE IF cmd = "WRITEBACK" THEN d
            ELSE IF policy = "CLOCK" THEN [d EXCEPT ![1].meta = @ \cup {s[i].way}]
            ELSE Referenced(policy, d, i)
        BY DEF cache_is_hit, i
    <2> HIDE DEF d
    <2>5. CASE cmd = "WRITEBACK"
        BY <1>2, <2>3, <2>4, <2>5
    <2>6. CASE cmd # "WRITEBACK" /\ policy = "CLOCK"
        <3> DEFINE mm == d[1].meta \cup {s[i].way}
        <3>1. cache_is_hit(policy, wb, s, cmd, tag) = [d EXCEPT ![1] = [d[1] EXCEPT !.meta = mm]]
            BY <1>2, <2>4, <2>6
        <3>2. 1 \in 1 .. n /\ d[1] \in Line(n, Tags) /\ s[i] \in Line(n, Tags)
            BY <2>1, <2>2, <2>3
        <3>3. mm \in SUBSET (0 .. n)
            BY <3>2 DEF Line
        <3> HIDE DEF mm
        <3>4. LET m == [d[1] EXCEPT !.meta = mm]
              IN  m \in Line(n, Tags) /\ m.valid = d[1].valid /\ m.tag = d[1].tag
            BY <3>2, <3>3, LineMeta
        <3>5. SetOK([d EXCEPT ![1] = [d[1] EXCEPT !.meta = mm]], n, Tags)
            BY <2>3, <3>2, <3>4, Marked, Zenon
        <3> QED
            BY <3>1, <3>5
    <2>7. CASE cmd # "WRITEBACK" /\ policy # "CLOCK"
        <3>1. cache_is_hit(policy, wb, s, cmd, tag) = Referenced(policy, d, i)
            BY <1>2, <2>4, <2>7
        <3> QED
            BY <2>1, <2>3, <3>1, ReferencedOK, Zenon
    <2> QED
        BY <2>5, <2>6, <2>7
<1> QED
    BY <1>1, <1>2

(* cache_insert_block puts a block that is nowhere in the set into one of  *)
(* its invalid lines.                                                      *)
LEMMA InsertOK ==
    ASSUME NEW n \in Nat, NEW Tags, NEW s, SetOK(s, n, Tags), NEW policy \in Policies \ {"PLRU"},
           NEW cmd, NEW tag \in Tags, Absent(s, n, tag), NEW at \in 1 .. n, ~s[at].valid
    PROVE  SetOK(cache_insert_block(policy, s, cmd, tag), n, Tags)
<1> DEFINE free == {k \in 1 .. Len(s) : ~s[k].valid}
           i == Min(free)
           l1 == [s[i] EXCEPT !.tag = tag]
           l2 == [l1 EXCEPT !.valid = TRUE]
           w == cmd \in Writes
           l3 == [l2 EXCEPT !.dirty = w]
           l == [l3 EXCEPT !.prefetched = @ \/ cmd = "PREFETCH"]
           f1 == [s EXCEPT ![i].tag = tag]
           f2 == [f1 EXCEPT ![i].valid = TRUE]
           f3 == [f2 EXCEPT ![i].dirty = w]
           f == [s EXCEPT ![i].tag = tag, ![i].valid = TRUE, ![i].dirty = cmd \in Writes,
                          ![i].prefetched = @ \/ cmd = "PREFETCH"]
<1>1. Len(s) = n /\ s \in Seq(Line(n, Tags)) /\ \A j \in 1 .. n : s[j] \in Line(n, Tags)
    BY DEF SetOK
<1>2. i \in 1 .. n /\ ~s[i].valid
    <2>1. free \subseteq Nat /\ free # {}
        BY <1>1
    <2>2. i \in free
        BY <2>1, MinIsLeast, Zenon
    <2> QED
        BY <1>1, <2>2
<1>3. cache_insert_block(policy, s, cmd, tag) = IF cmd = "WRITEBACK" THEN f ELSE Referenced(policy, f, i)
    BY DEF cache_insert_block
<1> HIDE DEF i
<1>9. f = [s EXCEPT ![i] = l]
    <2>1. i \in DOMAIN s
        BY <1>1, <1>2
    <2>2. f1 = [s EXCEPT ![i] = l1]
        OBVIOUS
    <2>3. f2 = [s EXCEPT ![i] = l2]
        <3> HIDE DEF f1, l1
        <3> QED
            BY <2>1, <2>2
    <2>4. f3 = [s EXCEPT ![i] = l3]
        <3> HIDE DEF f2, l2
        <3> QED
            BY <2>1, <2>3
    <2>5. f = [f3 EXCEPT ![i].prefetched = @ \/ cmd = "PREFETCH"]
        BY <2>1
    <2> HIDE DEF f3, l3, f
    <2> QED
        BY <2>1, <2>4, <2>5
<1>4. l \in Line(n, Tags) /\ l.valid = TRUE /\ l.tag = tag
    <2>1. s[i] \in Line(n, Tags)
        BY <1>1, <1>2
    <2>2. l1 \in Line(n, Tags) /\ l1.tag = tag
        BY <2>1 DEF Line
    <2> HIDE DEF l1
    <2>3. l2 \in Line(n, Tags) /\ l2.tag = tag /\ l2.valid = TRUE
        BY <2>2 DEF Line
    <2> HIDE DEF l2
    <2>4. l3 \in Line(n, Tags) /\ l3.tag = tag /\ l3.valid = TRUE
        <3>1. w \in BOOLEAN
            OBVIOUS
        <3> HIDE DEF w
        <3> QED
            BY <2>3, <3>1, LineDirty
    <2> HIDE DEF l3
    <2> QED
        BY <2>4 DEF Line
<1> HIDE DEF l, f
<1>5. f \in Seq(Line(n, Tags)) /\ Len(f) = n /\ \A j \in 1 .. n : f[j] = IF j = i THEN l ELSE s[j]
    <2>1. i \in 1 .. Len(s)
        BY <1>1, <1>2
    <2>2. f \in Seq(Line(n, Tags)) /\ Put(s, f, i, l)
        BY <1>1, <1>4, <1>9, <2>1, PutIs, Zenon
    <2> QED
        BY <1>1, <2>2 DEF Put
<1>6. SetOK(f, n, Tags)
    <2>1. \A j \in 1 .. n : f[j].valid => f[j].tag \in Tags
        BY <1>4, <1>5 DEF SetOK
    <2>2. \A j, k \in 1 .. n : f[j].valid /\ f[k].valid /\ f[j].tag = f[k].tag => j = k
        BY <1>4, <1>5 DEF SetOK, Absent
    <2> QED
        BY <1>5, <2>1, <2>2 DEF SetOK
<1>7. CASE cmd = "WRITEBACK"
    BY <1>3, <1>6, <1>7
<1>8. CASE cmd # "WRITEBACK"
    <2>1. SetOK(Referenced(policy, f, i), n, Tags)
        BY <1>2, <1>6, ReferencedOK, Zenon
    <2> QED
        BY <1>3, <1>8, <2>1
<1> QED
    BY <1>7, <1>8

(* A line loses its block.                                                 *)
Invalidated(s, t, at) == t = [s EXCEPT ![at].valid = FALSE, ![at].dirty = FALSE]

LEMMA InvalidateOK ==
    ASSUME NEW n \in Nat, NEW Tags, NEW s, SetOK(s, n, Tags), NEW at \in 1 .. n,
           NEW t, Invalidated(s, t, at)
    PROVE  /\ SetOK(t, n, Tags) /\ ~t[at].valid
           /\ \A tag : Absent(s, n, tag) => Absent(t, n, tag)
<1> DEFINE l == [[s[at] EXCEPT !.valid = FALSE] EXCEPT !.dirty = FALSE]
<1>1. Len(s) = n /\ s \in Seq(Line(n, Tags)) /\ \A j \in 1 .. n : s[j] \in Line(n, Tags)
    BY DEF SetOK
<1>2. t = [s EXCEPT ![at] = l]
    BY <1>1 DEF Invalidated
<1>3. l \in Line(n, Tags) /\ l.valid = FALSE
    BY <1>1, LineInvalid
<1> HIDE DEF l
<1>4. t \in Seq(Line(n, Tags)) /\ Len(t) = n /\ \A j \in 1 .. n : t[j] = IF j = at THEN l ELSE s[j]
    <2>1. at \in 1 .. Len(s)
        BY <1>1
    <2>2. t \in Seq(Line(n, Tags)) /\ Put(s, t, at, l)
        BY <1>1, <1>2, <1>3, <2>1, PutIs, Zenon
    <2> QED
        BY <1>1, <2>2 DEF Put
<1>5. SetOK(t, n, Tags)
    <2>1. \A j \in 1 .. n : t[j].valid => t[j].tag \in Tags
        BY <1>3, <1>4 DEF SetOK
    <2>2. \A j, k \in 1 .. n : t[j].valid /\ t[k].valid /\ t[j].tag = t[k].tag => j = k
        BY <1>3, <1>4 DEF SetOK
    <2> QED
        BY <1>4, <2>1, <2>2 DEF SetOK
<1>6. ASSUME NEW tag, Absent(s, n, tag) PROVE Absent(t, n, tag)
    BY <1>3, <1>4, <1>6 DEF Absent
<1> QED
    BY <1>3, <1>4, <1>5, <1>6

(* The hand of CLOCK stops after one round at the latest, at a line.       *)
LEMMA ClockOK ==
    ASSUME NEW n \in Nat, n > 1, NEW Tags, NEW s, SetOK(s, n, Tags)
    PROVE  LET v == ClockEvictee(s)
           IN  v.at \in 1 .. n /\ SameBlocks(s, v.set, n, Tags)
<1> DEFINE h == s[2].hand
           N == ClockPasses(s)
           w == (h + N) % n
           passed == {(h + k) % n : k \in 0 .. N - 1}
           clear == passed \cup (IF s[w + 1].valid THEN {} ELSE {w})
           mm == s[1].meta \ clear
           l1 == [s[1] EXCEPT !.meta = mm]
           s1 == [s EXCEPT ![1] = l1]
           l2 == [s1[2] EXCEPT !.hand = (w + 1) % n]
           s2 == [s1 EXCEPT ![2] = l2]
<1>1. Len(s) = n /\ s \in Seq(Line(n, Tags)) /\ \A j \in 1 .. n : s[j] \in Line(n, Tags)
    BY DEF SetOK
<1>2. h \in Nat
    BY <1>1 DEF Line
<1>3. N \in 0 .. n
    <2> DEFINE At(k) == (s[2].hand + k) % Len(s)
               Stops(k) == \/ ~s[At(k) + 1].valid
                           \/ At(k) \notin s[1].meta
                           \/ k >= Len(s)
               P == {k \in 0 .. Len(s) : Stops(k)}
    <2>1. N = Min(P)
        BY DEF ClockPasses
    <2>2. P \subseteq Nat /\ P \subseteq 0 .. n
        BY <1>1
    <2>3. n \in P
        BY <1>1
    <2> HIDE DEF P
    <2>4. Min(P) \in P
        BY <2>2, <2>3, MinIsLeast, Zenon
    <2> QED
        BY <2>1, <2>2, <2>4
<1> HIDE DEF h, N
<1>4. w \in 0 .. n - 1 /\ (w + 1) % n \in 0 .. n - 1 /\ w + 1 \in 1 .. n
    BY <1>2, <1>3
<1>5. ClockEvictee(s).at = w + 1 /\ ClockEvictee(s).set = s2
    BY <1>1 DEF ClockEvictee, h, N
<1> HIDE DEF w, clear
<1>6. l1 \in Line(n, Tags) /\ l1.valid = s[1].valid /\ l1.tag = s[1].tag /\ l1.dirty = s[1].dirty
    <2>1. s[1] \in Line(n, Tags)
        BY <1>1
    <2>2. mm \in SUBSET (0 .. n)
        BY <2>1 DEF Line
    <2> HIDE DEF mm
    <2> QED
        BY <2>1, <2>2, LineMeta
<1> HIDE DEF l1
<1>7. SetOK(s1, n, Tags) /\ SameBlocks(s, s1, n, Tags)
    <2>1. 1 \in 1 .. n
        OBVIOUS
    <2> QED
        BY <1>6, <2>1, Marked, Zenon
<1> HIDE DEF s1
<1>8. s1[2] \in Line(n, Tags) /\ \A j \in 1 .. n : s1[j] \in Line(n, Tags)
    BY <1>7 DEF SetOK
<1>9. l2 \in Line(n, Tags) /\ l2.valid = s1[2].valid /\ l2.tag = s1[2].tag /\ l2.dirty = s1[2].dirty
    BY <1>4, <1>8, LineHand
<1> HIDE DEF l2
<1>10. SameBlocks(s1, s2, n, Tags)
    <2>1. 2 \in 1 .. n
        OBVIOUS
    <2> QED
        BY <1>7, <1>9, <2>1, Marked, Zenon
<1>11. SameBlocks(s, s2, n, Tags)
    BY <1>7, <1>10 DEF SameBlocks
<1> QED
    BY <1>4, <1>5, <1>11

(* cache_get_evictee names a line of the set and leaves every block where  *)
(* it is.                                                                  *)
LEMMA EvicteeOK ==
    ASSUME NEW n \in Nat, n > 0, NEW Tags, NEW s, SetOK(s, n, Tags),
           NEW policy \in Policies \ {"PLRU"}, policy = "CLOCK" => n > 1,
           NEW v \in cache_get_evictee(policy, s)
    PROVE  v.at \in 1 .. n /\ SameBlocks(s, v.set, n, Tags)
<1> DEFINE invalid == {i \in 1 .. Len(s) : ~s[i].valid}
           Take(i) == [at |-> i, set |-> s]
<1>1. Len(s) = n /\ s \in Seq(Line(n, Tags))
    BY DEF SetOK
<1>2. SameBlocks(s, s, n, Tags)
    BY <1>1 DEF SameBlocks
<1>3. CASE policy = "CLOCK"
    <2>1. v = ClockEvictee(s)
        BY <1>3 DEF cache_get_evictee
    <2> QED
        BY <1>3, <2>1, ClockOK
<1>4. CASE policy # "CLOCK" /\ invalid # {}
    <2>1. v = Take(Min(invalid))
        BY <1>4 DEF cache_get_evictee
    <2>2. invalid \subseteq Nat /\ invalid \subseteq 1 .. n
        BY <1>1
    <2>3. Min(invalid) \in invalid
        BY <1>4, <2>2, MinIsLeast, Zenon
    <2> HIDE DEF invalid
    <2> QED
        BY <1>2, <2>1, <2>2, <2>3
<1>5. CASE policy # "CLOCK" /\ invalid = {}
    <2>1. CASE policy \in {"LRU", "MRU"}
        <3>1. v = Take(Len(s))
            BY <1>5, <2>1 DEF cache_get_evictee
        <3> QED
            BY <1>1, <1>2, <3>1
    <2>2. CASE policy = "RANDOM"
        <3>1. \E i \in 1 .. Len(s) : v = Take(i)
            BY <1>5, <2>2 DEF cache_get_evictee
        <3> QED
            BY <1>1, <1>2, <3>1
    <2>3. CASE policy = "NMRU"
        <3>1. \E i \in 2 .. Len(s) : v = Take(i)
            BY <1>5, <2>3 DEF cache_get_evictee
        <3> QED
            BY <1>1, <1>2, <3>1
    <2> QED
        BY <1>5, <2>1, <2>2, <2>3 DEF Policies
<1> QED
    BY <1>3, <1>4, <1>5

(* cache_create makes such a set.                                          *)
LEMMA EmptySetOK ==
    ASSUME NEW n \in Nat \ {0}, NEW Tags
    PROVE  SetOK(EmptySet(n), n, Tags)
<1> DEFINE s == EmptySet(n)
<1>1. \A i \in 1 .. n : s[i] \in Line(n, Tags) /\ ~s[i].valid
    <2>1. ASSUME NEW i \in 1 .. n PROVE s[i] \in Line(n, Tags) /\ ~s[i].valid
        <3>1. i - 1 \in 0 .. n - 1 /\ 0 \in 0 .. n - 1
            OBVIOUS
        <3> QED
            BY <3>1 DEF EmptySet, Line
    <2> QED
        BY <2>1
<1>2. s \in Seq(Line(n, Tags)) /\ Len(s) = n
    <2>1. s \in [1 .. n -> Line(n, Tags)]
        BY <1>1 DEF EmptySet
    <2> HIDE DEF s
    <2> QED
        BY <2>1
<1> HIDE DEF s
<1>3. SetOK(s, n, Tags)
    BY <1>1, <1>2 DEF SetOK
<1> QED
    BY <1>3 DEF s

=============================================================================
