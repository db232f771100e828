------------------------------ MODULE CacheArray ------------------------------
(***************************************************************************)
(* The tag array of one set of a cache (zesto-cache.cpp): hits, insertion  *)
(* and victim selection under the six replacement policies.                *)
(*                                                                         *)
(* The code keeps the ways of a set in a linked list whose head is         *)
(* cp->blocks[index]; the list is a sequence here.  The meta field of the  *)
(* replacement policies sits in the line the head points to (and, for the  *)
(* hand of CLOCK, in the line behind it in memory, which is the second of  *)
(* the list since CLOCK never reorders), so every line has one.            *)
(***************************************************************************)
EXTENDS Naturals, Sequences, SequencesExt, FiniteSetsExt

CONSTANT NoTag        \* the tag of a line never filled

Policies == {"LRU", "MRU", "RANDOM", "NMRU", "PLRU", "CLOCK"}
Commands == {"READ", "WRITE", "WRITEBACK", "PREFETCH"}
Writes == {"WRITE", "WRITEBACK"}

\* cache_line_t; meta is a set of bit positions, hand the clock's position.
Line(assoc, Tags) == [way : 0 .. assoc - 1, tag : Tags \cup {NoTag}, valid : BOOLEAN,
               dirty : BOOLEAN, prefetched : BOOLEAN, prefetch_used : BOOLEAN,
               meta : SUBSET (0 .. assoc), hand : 0 .. assoc - 1]

\* log2_assoc, rounded up
log2_assoc(assoc) ==
    CHOOSE n \in 0 .. assoc : 2^n >= assoc /\ \A k \in 0 .. n - 1 : 2^k < assoc

\* cache_create: the lines of a set, all invalid, in the order of their ways.
EmptySet(assoc) == [i \in 1 .. assoc |->
               [way |-> i - 1, tag |-> NoTag, valid |-> FALSE, dirty |-> FALSE,
                prefetched |-> FALSE, prefetch_used |-> FALSE,
                meta |-> {}, hand |-> 0]]

-----------------------------------------------------------------------------
\* The list operations the policies share.

MoveToFront(s, i) == <<s[i]>> \o RemoveAt(s, i)
MoveToBack(s, i) == Append(RemoveAt(s, i), s[i])

\* Tree-based pseudo-LRU: the bits on the path to way w point at w.
PLRUPath(log2, bits, w) ==
    LET Pos(i) == (w \div 2^(log2 - i)) + 2^i
        Right(i) == (w \div 2^(log2 - i - 1)) % 2 = 1
        Levels == 0 .. log2 - 1
    IN  (bits \ {Pos(i) : i \in Levels}) \cup {Pos(i) : i \in {k \in Levels : Right(k)}}

\* The node reached from the root by following the bits away from the path.
PLRUVictim(log2, bits) ==
    LET node[i \in 0 .. log2] ==
          IF i = 0 THEN 1
          ELSE 2 * node[i - 1] + (IF node[i - 1] \in bits THEN 0 ELSE 1)
    IN  node[log2] - 2^log2

\* The replacement state after a reference to the i-th line of the list.  PLRU
\* writes the bits into the line that heads the list and then, like LRU, moves
\* the referenced line to the front.
Referenced(policy, s, i) ==
    CASE policy = "PLRU" ->
           MoveToFront([s EXCEPT ![1].meta = PLRUPath(log2_assoc(Len(s)), @, s[i].way)], i)
      [] policy \in {"LRU", "NMRU", "RANDOM"} -> MoveToFront(s, i)
      [] policy = "MRU" -> MoveToBack(s, i)
      [] policy = "CLOCK" -> s

-----------------------------------------------------------------------------
\* cache_peek: the position of a valid line with this tag, 0 when there is none.
cache_peek(s, tag) ==
    LET hits == {i \in 1 .. Len(s) : s[i].valid /\ s[i].tag = tag}
    IN  IF hits = {} THEN 0 ELSE Min(hits)

\* cache_is_hit on a set that holds the tag: replacement state unless it is a
\* writeback, the dirty bit for writes into a write-back cache.
cache_is_hit(policy, write_back, s, cmd, tag) ==
    LET i == cache_peek(s, tag)
        d == IF cmd \in Writes /\ write_back THEN [s EXCEPT ![i].dirty = TRUE] ELSE s
    IN  IF i = 0 THEN s
        ELSE IF cmd = "WRITEBACK" THEN d
        ELSE IF policy = "CLOCK" THEN [d EXCEPT ![1].meta = @ \cup {s[i].way}]
        ELSE Referenced(policy, d, i)

\* cache_insert_block: the first invalid line of the list takes the block.  The
\* marks prefetched and prefetch_used of its former block are not cleared.
cache_insert_block(policy, s, cmd, tag) ==
    LET i == Min({k \in 1 .. Len(s) : ~s[k].valid})
        f == [s EXCEPT ![i].tag = tag, ![i].valid = TRUE, ![i].dirty = cmd \in Writes,
                       ![i].prefetched = @ \/ cmd = "PREFETCH"]
    IN  IF cmd = "WRITEBACK" THEN f ELSE Referenced(policy, f, i)

-----------------------------------------------------------------------------
\* cache_get_evictee for CLOCK: the hand passes over referenced lines and
\* clears their bits.  After n passes the bits of the n ways passed are clear.
ClockPasses(s) ==
    LET hand == s[2].hand
        At(n) == (hand + n) % Len(s)
        Stops(n) == \/ ~s[At(n) + 1].valid
                    \/ At(n) \notin s[1].meta
                    \/ n >= Len(s)
    IN  Min({n \in 0 .. Len(s) : Stops(n)})

ClockEvictee(s) ==
    LET n == ClockPasses(s)
        w == (s[2].hand + n) % Len(s)
        passed == {(s[2].hand + k) % Len(s) : k \in 0 .. n - 1}
        clear == passed \cup (IF s[w + 1].valid THEN {} ELSE {w})
    IN  [at |-> w + 1,
         set |-> [s EXCEPT ![1].meta = @ \ clear, ![2].hand = (w + 1) % Len(s)]]

\* cache_get_evictee: the victims the policy may choose (random policies have
\* several) as [at, set]: a position of the list and the set afterwards.
cache_get_evictee(policy, s) ==
    LET invalid == {i \in 1 .. Len(s) : ~s[i].valid}
        Take(i) == [at |-> i, set |-> s]
    IN  CASE policy = "CLOCK" -> {ClockEvictee(s)}
          [] policy # "CLOCK" /\ invalid # {} -> {Take(Min(invalid))}
          [] policy \in {"LRU", "MRU"} /\ invalid = {} -> {Take(Len(s))}
          [] policy = "RANDOM" /\ invalid = {} -> {Take(i) : i \in 1 .. Len(s)}
          [] policy = "NMRU" /\ invalid = {} -> {Take(i) : i \in 2 .. Len(s)}
          [] policy = "PLRU" /\ invalid = {} ->
               {Take(CHOOSE i \in 1 .. Len(s) : s[i].way = PLRUVictim(log2_assoc(Len(s)), s[1].meta))}
=============================================================================
