---------------------------- MODULE MemMgrProofs ----------------------------
(***************************************************************************)
(* Proofs about MemMgr.tla for every region, header size and word size:    *)
(* the invariant IInv is inductive, and from it follow that the chunks     *)
(* tile the region, that the blocks of clients are disjoint, that malloc   *)
(* is first fit, and that the heap implements Allocator.tla.               *)
(***************************************************************************)
EXTENDS MemMgr, TLAPS

(* Arithmetic on size_t is exact for numbers that fit into a word.         *)
LEMMA USmall ==
  ASSUME NEW n \in 0 .. (Word - 1)
  PROVE  U(n) = n
  BY MemMgrAssumption DEF U

(* A successor lies higher, and has the chunk as its predecessor.          *)
LEMMA NextIsHigher ==
  ASSUME NEW m, NEW f, NEW e, HeadersBelow(m, e), Tiles(m, f, e),
         NEW c \in DOMAIN m, m[c].next # NULL
  PROVE  /\ m[c].next \in DOMAIN m /\ m[m[c].next].prev = c
         /\ c \in Nat /\ c > 0 /\ m[c].next \in Nat /\ c < m[c].next
  <1>1. /\ m[c].next \in DOMAIN m /\ m[m[c].next].prev = c
        /\ c + HeaderSize + m[c].size = m[c].next
    BY DEF Tiles, LinkedForward, After
  <1>2. c \in Nat /\ c > 0 /\ m[c].size \in Nat /\ m[c].next \in Nat
    BY MemMgrAssumption DEF HeadersBelow, MemoryChunk
  <1>3. HeaderSize \in Nat /\ HeaderSize > 0
    BY MemMgrAssumption
  <1> QED BY <1>1, <1>2, <1>3

-----------------------------------------------------------------------------
(* Giving chunk c to its predecessor keeps the tiling, removes just c and  *)
(* leaves every other chunk at least as large and as allocated as it was.  *)
LEMMA MergeTiles ==
  ASSUME NEW m, NEW f, NEW e \in Start .. Word,
         NEW into \in DOMAIN m, NEW c \in DOMAIN m,
         HeadersBelow(m, e), Tiles(m, f, e), m[into].next = c
  PROVE  /\ DOMAIN Merge(m, into, c) = DOMAIN m \ {c}
         /\ HeadersBelow(Merge(m, into, c), e)
         /\ Tiles(Merge(m, into, c), f, e)
         /\ \A a \in DOMAIN m \ {c} :
              /\ Merge(m, into, c)[a].allocated = m[a].allocated
              /\ Merge(m, into, c)[a].size >= m[a].size
         /\ Merge(m, into, c)[into].next = m[c].next
         /\ After(Merge(m, into, c), into) = After(m, c)
         /\ \A a \in DOMAIN m \ {c, into} :
              After(Merge(m, into, c), a) = After(m, a)
  <1> DEFINE r == Merge(m, into, c)
             after == m[c].next
  <1> USE MemMgrAssumption
  <1>1. /\ into \in Nat /\ into > 0 /\ c \in Nat /\ c > 0
        /\ m[into] \in MemoryChunk /\ m[c] \in MemoryChunk
    BY DEF HeadersBelow
  <1>2. /\ c = After(m, into) /\ m[c].prev = into /\ into < c
        /\ After(m, c) <= e
    BY <1>1 DEF Tiles, LinkedForward, Apart, After, NULL, MemoryChunk
  <1>3. U(m[into].size + m[c].size + HeaderSize)
          = m[into].size + m[c].size + HeaderSize
    BY <1>1, <1>2, USmall DEF After, MemoryChunk
  <1>4. /\ DOMAIN r = DOMAIN m \ {c}
        /\ r[into] = Header(after, m[into].prev, m[into].allocated,
                            m[into].size + m[c].size + HeaderSize)
        /\ \A a \in DOMAIN m \ {c, into} :
             r[a] = IF a = after
                    THEN Header(m[a].next, into, m[a].allocated, m[a].size)
                    ELSE m[a]
    <2>1. c # into
      BY <1>1, <1>2
    <2> HIDE DEF r
    <2>2. r = [a \in DOMAIN m \ {c} |->
                 IF a = into
                   THEN Header(after, m[into].prev, m[into].allocated,
                               U(m[into].size + m[c].size + HeaderSize))
                 ELSE IF a = after
                   THEN Header(m[a].next, into, m[a].allocated, m[a].size)
                 ELSE m[a]]
      BY DEF Merge, r
    <2> HIDE DEF after
    <2> QED BY <2>1, <2>2, <1>3
  <1>5. /\ r[into] \in MemoryChunk
        /\ r[into].next = after
        /\ r[into].prev = m[into].prev
        /\ r[into].allocated = m[into].allocated
        /\ r[into].size = m[into].size + m[c].size + HeaderSize
        /\ After(r, into) = After(m, c)
    BY <1>1, <1>2, <1>4 DEF MemoryChunk, After, Header
  <1>6. ASSUME NEW a \in DOMAIN m \ {c, into}
        PROVE  /\ r[a] \in MemoryChunk
               /\ r[a].next = m[a].next
               /\ r[a].prev = IF a = after THEN into ELSE m[a].prev
               /\ r[a].allocated = m[a].allocated
               /\ r[a].size = m[a].size
               /\ After(r, a) = After(m, a)
    <2> HIDE DEF r, after
    <2>1. m[a] \in MemoryChunk /\ a # into /\ a \in DOMAIN m \ {c, into}
      BY DEF HeadersBelow
    <2>2. CASE a = after
      <3>1. r[a] = Header(m[a].next, into, m[a].allocated, m[a].size)
        BY <1>4, <2>1, <2>2
      <3> QED BY <2>1, <2>2, <3>1, <1>1 DEF MemoryChunk, After, Header
    <2>3. CASE a # after
      <3>1. r[a] = m[a]
        BY <1>4, <2>1, <2>3
      <3> QED BY <2>1, <2>3, <3>1 DEF MemoryChunk, After
    <2> QED BY <2>2, <2>3
  <1>7. HeadersBelow(r, e)
    <2>1. r \in [DOMAIN r -> MemoryChunk]
      BY <1>4, <1>5, <1>6 DEF Merge
    <2> QED BY <2>1, <1>4 DEF HeadersBelow
  <1>8. c # f
    BY <1>1, <1>2 DEF Tiles, LinkedBack, NULL
  <1> HIDE DEF r
  <1>9. \/ after = NULL /\ After(m, c) = e
        \/ /\ after \in DOMAIN m \ {c, into}
           /\ After(m, c) = after
           /\ m[after].prev = c
    BY <1>1, <1>2 DEF Tiles, LinkedForward, After, MemoryChunk
  <1>10. \A a \in DOMAIN m : a \in Nat /\ a # NULL
    BY DEF HeadersBelow, NULL
  <1> HIDE DEF r, after
  <1>11. LinkedForward(r, e)
    <2> SUFFICES ASSUME NEW a \in DOMAIN r
                 PROVE  IF r[a].next = NULL
                        THEN After(r, a) = e
                        ELSE /\ r[a].next \in DOMAIN r
                             /\ After(r, a) = r[a].next
                             /\ r[r[a].next].prev = a
      BY DEF LinkedForward
    <2>1. CASE a = into
      BY <1>4, <1>5, <1>6, <1>9, <1>10, <2>1
    <2>2. CASE a # into
      <3>1. a \in DOMAIN m \ {c, into}
        BY <1>4, <2>2
      <3>2. /\ r[a].next = m[a].next
            /\ After(r, a) = After(m, a)
        BY <1>6, <3>1
      <3>3. CASE m[a].next = NULL
        BY <3>1, <3>2, <3>3 DEF Tiles, LinkedForward
      <3>4. CASE m[a].next # NULL
        <4>1. /\ m[a].next \in DOMAIN m
              /\ After(m, a) = m[a].next
              /\ m[m[a].next].prev = a
          BY <3>1, <3>4 DEF Tiles, LinkedForward
        <4>2. m[a].next # c /\ m[a].next # after
          BY <1>2, <1>9, <3>1, <4>1, <3>4
        <4>3. r[m[a].next].prev = a
          BY <1>5, <1>6, <4>1, <4>2
        <4> QED BY <1>4, <3>2, <3>4, <4>1, <4>2, <4>3
      <3> QED BY <3>3, <3>4
    <2> QED BY <2>1, <2>2
  <1>12. LinkedBack(r, f)
    <2> SUFFICES ASSUME NEW a \in DOMAIN r
                 PROVE  IF a = f
                        THEN r[a].prev = NULL
                        ELSE r[a].prev \in DOMAIN r /\ r[r[a].prev].next = a
      BY DEF LinkedBack
    <2>1. a \in DOMAIN m \ {c}
      BY <1>4
    <2>2. IF a = f
          THEN m[a].prev = NULL
          ELSE m[a].prev \in DOMAIN m /\ m[m[a].prev].next = a
      BY <2>1 DEF Tiles, LinkedBack
    <2>3. CASE a = after
      BY <1>1, <1>4, <1>5, <1>6, <1>9, <1>10, <2>1, <2>2, <2>3
    <2>4. CASE a # after
      <3>1. r[a].prev = m[a].prev
        BY <1>5, <1>6, <2>1, <2>4
      <3>2. CASE a = f
        BY <2>2, <3>1, <3>2
      <3>3. CASE a # f
        <4>1. m[a].prev \in DOMAIN m \ {c, into}
          BY <2>1, <2>2, <2>4, <3>3 DEF after
        <4> QED BY <1>4, <1>6, <2>2, <3>1, <3>3, <4>1
      <3> QED BY <3>2, <3>3
    <2> QED BY <2>3, <2>4
  <1>13. Apart(r, e)
    <2> SUFFICES /\ \A a \in DOMAIN r : After(r, a) <= e
                 /\ \A a, b \in DOMAIN r : a < b => After(r, a) <= b
      BY DEF Apart
    <2>1. \A a \in DOMAIN r : After(r, a) <= e
      BY <1>2, <1>4, <1>5, <1>6 DEF Tiles, Apart
    <2>2. ASSUME NEW a \in DOMAIN r, NEW b \in DOMAIN r, a < b
          PROVE  After(r, a) <= b
      <3>1. a \in DOMAIN m \ {c} /\ b \in DOMAIN m \ {c}
        BY <1>4
      <3>2. After(m, a) <= b
        BY <2>2, <3>1 DEF Tiles, Apart
      <3>3. CASE a # into
        BY <1>6, <3>1, <3>2, <3>3
      <3>4. CASE a = into
        <4>1. c < b
          BY <1>1, <1>2, <1>10, <3>1, <3>2, <3>4
        <4> QED BY <1>5, <3>1, <3>4, <4>1 DEF Tiles, Apart
      <3> QED BY <3>3, <3>4
    <2> QED BY <2>1, <2>2
  <1>14. Tiles(r, f, e)
    BY <1>2, <1>4, <1>8, <1>11, <1>12, <1>13 DEF Tiles
  <1>15. ASSUME NEW a \in DOMAIN m \ {c}
         PROVE  r[a].allocated = m[a].allocated /\ r[a].size >= m[a].size
    <2>1. m[a].size \in Nat /\ m[c].size \in Nat
      BY DEF HeadersBelow, MemoryChunk
    <2> QED BY <1>5, <1>6, <2>1
  <1>16. /\ r[into].next = m[c].next /\ After(r, into) = After(m, c)
         /\ \A a \in DOMAIN m \ {c, into} : After(r, a) = After(m, a)
    BY <1>5, <1>6 DEF after
  <1> QED BY <1>4, <1>7, <1>14, <1>15, <1>16 DEF r

-----------------------------------------------------------------------------
Allocated(m) == {a \in DOMAIN m : m[a].allocated}

(* r is m without some chunks that were free; none of the others shrank.   *)
Keeps(m, r) ==
  /\ DOMAIN r \subseteq DOMAIN m
  /\ Allocated(r) = Allocated(m)
  /\ \A a \in DOMAIN r : r[a].size >= m[a].size

(* The tiling depends on the links and the sizes alone.                    *)
LEMMA LinksTile ==
  ASSUME NEW m, NEW r, NEW f, NEW e,
         HeadersBelow(m, e), Tiles(m, f, e),
         DOMAIN r = DOMAIN m, r \in [DOMAIN m -> MemoryChunk],
         \A a \in DOMAIN m : /\ r[a].next = m[a].next
                             /\ r[a].prev = m[a].prev
                             /\ r[a].size = m[a].size
  PROVE  HeadersBelow(r, e) /\ Tiles(r, f, e)
  <1>1. HeadersBelow(r, e)
    BY DEF HeadersBelow
  <1>2. Tiles(r, f, e)
    BY DEF Tiles, LinkedForward, LinkedBack, Apart, After
  <1> QED BY <1>1, <1>2

(* The second half of free.                                                *)
LEMMA TakeNextTiles ==
  ASSUME NEW m, NEW f, NEW e \in Start .. Word, NEW c \in DOMAIN m,
         HeadersBelow(m, e), Tiles(m, f, e)
  PROVE  /\ HeadersBelow(TakeNext(m, c), e)
         /\ Tiles(TakeNext(m, c), f, e)
         /\ Keeps(m, TakeNext(m, c))
  <1>1. CASE m[c].next # NULL /\ ~m[m[c].next].allocated
    <2> DEFINE next == m[c].next
    <2>1. next \in DOMAIN m
      BY <1>1 DEF Tiles, LinkedForward
    <2>2. /\ DOMAIN Merge(m, c, next) = DOMAIN m \ {next}
          /\ HeadersBelow(Merge(m, c, next), e)
          /\ Tiles(Merge(m, c, next), f, e)
          /\ \A a \in DOMAIN m \ {next} :
               /\ Merge(m, c, next)[a].allocated = m[a].allocated
               /\ Merge(m, c, next)[a].size >= m[a].size
      BY <2>1, MergeTiles
    <2>3. Keeps(m, Merge(m, c, next))
      BY <1>1, <2>1, <2>2 DEF Keeps, Allocated
    <2> QED BY <1>1, <2>2, <2>3 DEF TakeNext
  <1>2. CASE ~(m[c].next # NULL /\ ~m[m[c].next].allocated)
    BY <1>2 DEF TakeNext, Keeps, HeadersBelow, MemoryChunk
  <1> QED BY <1>1, <1>2

(* free marks chunk c as free and leaves links and sizes alone.            *)
LEMMA MarkTiles ==
  ASSUME TypeOK, TilesRegion, NEW c \in DOMAIN chunks
  PROVE  LET m == Mark(chunks, c, FALSE)
         IN  /\ DOMAIN m = DOMAIN chunks
             /\ HeadersBelow(m, end) /\ Tiles(m, first, end)
             /\ \A a \in DOMAIN chunks \ {c} : m[a] = chunks[a]
             /\ m[c].next = chunks[c].next /\ m[c].prev = chunks[c].prev
             /\ m[c].size = chunks[c].size /\ ~m[c].allocated
  <1> DEFINE m == Mark(chunks, c, FALSE)
  <1>1. HeadersBelow(chunks, end) /\ Tiles(chunks, first, end)
    BY DEF TypeOK, TilesRegion
  <1>2. m[c] = Header(chunks[c].next, chunks[c].prev, FALSE, chunks[c].size)
    BY DEF Mark
  <1>3. /\ DOMAIN m = DOMAIN chunks
        /\ \A a \in DOMAIN chunks \ {c} : m[a] = chunks[a]
    BY DEF Mark
  <1>4. /\ m[c] \in MemoryChunk
        /\ m[c].next = chunks[c].next
        /\ m[c].prev = chunks[c].prev
        /\ m[c].size = chunks[c].size
        /\ ~m[c].allocated
    <2> HIDE DEF m
    <2> QED BY <1>1, <1>2 DEF Header, MemoryChunk, HeadersBelow
  <1>5. m \in [DOMAIN chunks -> MemoryChunk]
    BY <1>1, <1>3, <1>4 DEF HeadersBelow, Mark
  <1> HIDE DEF m
  <1>6. HeadersBelow(m, end) /\ Tiles(m, first, end)
    BY <1>1, <1>3, <1>4, <1>5, LinksTile
  <1> QED BY <1>3, <1>4, <1>6 DEF m

(* What free leaves: the tiling, with just the freed chunk no longer       *)
(* allocated and no other allocated chunk any smaller.                     *)
LEMMA FreedTiles ==
  ASSUME TypeOK, TilesRegion, NEW c \in DOMAIN chunks
  PROVE  /\ HeadersBelow(Freed(c), end)
         /\ Tiles(Freed(c), first, end)
         /\ DOMAIN Freed(c) \subseteq DOMAIN chunks
         /\ Allocated(Freed(c)) = Allocated(chunks) \ {c}
         /\ \A a \in DOMAIN Freed(c) : Freed(c)[a].size >= chunks[a].size
  <1> DEFINE m == Mark(chunks, c, FALSE)
             p == m[c].prev
  <1>1. /\ DOMAIN m = DOMAIN chunks
        /\ HeadersBelow(m, end)
        /\ Tiles(m, first, end)
        /\ Allocated(m) = Allocated(chunks) \ {c}
        /\ \A a \in DOMAIN chunks : m[a].size = chunks[a].size
        /\ ~m[c].allocated
    <2> HIDE DEF m
    <2> QED BY MarkTiles DEF Allocated, m
  <1>2. \A a \in DOMAIN chunks : chunks[a].size \in Nat
    BY DEF TypeOK, HeadersBelow, MemoryChunk
  <1>3. end \in Start .. Word
    BY DEF TypeOK
  <1>4. CASE TakenByPrev(m, c)
    <2> DEFINE r == Merge(m, p, c)
    <2>1. p \in DOMAIN m /\ m[p].next = c
      BY <1>1, <1>4 DEF TakenByPrev, Tiles, LinkedBack
    <2>2. /\ DOMAIN r = DOMAIN m \ {c}
          /\ HeadersBelow(r, end)
          /\ Tiles(r, first, end)
          /\ \A a \in DOMAIN m \ {c} :
               /\ r[a].allocated = m[a].allocated
               /\ r[a].size >= m[a].size
      <3>1. c \in DOMAIN m
        BY <1>1
      <3>2. m[p].next = c /\ HeadersBelow(m, end) /\ Tiles(m, first, end)
        BY <1>1, <2>1
      <3> HIDE DEF m, p
      <3> QED BY <3>1, <3>2, <1>3, <2>1, MergeTiles
    <2>3. p # c
      BY <1>1, <1>4 DEF TakenByPrev
    <2> HIDE DEF m, p, r
    <2>4. Keeps(m, r)
      BY <1>1, <2>2 DEF Keeps, Allocated
    <2>5. p \in DOMAIN r
      BY <2>1, <2>2, <2>3
    <2>6. /\ HeadersBelow(TakeNext(r, p), end)
          /\ Tiles(TakeNext(r, p), first, end)
          /\ Keeps(r, TakeNext(r, p))
      BY <1>3, <2>2, <2>5, TakeNextTiles
    <2>7. Freed(c) = TakeNext(r, p)
      BY <1>4 DEF Freed, m, p, r
    <2>8. \A a \in DOMAIN TakeNext(r, p) :
            TakeNext(r, p)[a].size >= chunks[a].size
      <3> SUFFICES ASSUME NEW a \in DOMAIN TakeNext(r, p)
                   PROVE  TakeNext(r, p)[a].size >= chunks[a].size
        OBVIOUS
      <3>1. a \in DOMAIN r /\ a \in DOMAIN m /\ a \in DOMAIN chunks
        BY <1>1, <2>4, <2>6 DEF Keeps
      <3>2. TakeNext(r, p)[a] \in MemoryChunk /\ r[a] \in MemoryChunk
        BY <2>2, <2>6, <3>1 DEF HeadersBelow
      <3>3. /\ TakeNext(r, p)[a].size >= r[a].size
            /\ r[a].size >= m[a].size
            /\ m[a].size = chunks[a].size
        BY <1>1, <2>4, <2>6, <3>1 DEF Keeps
      <3> QED BY <1>2, <3>1, <3>2, <3>3 DEF MemoryChunk
    <2> QED BY <1>1, <2>4, <2>6, <2>7, <2>8 DEF Keeps
  <1>5. CASE ~TakenByPrev(m, c)
    <2>1. Freed(c) = TakeNext(m, c)
      BY <1>5 DEF Freed
    <2> HIDE DEF m
    <2>2. /\ HeadersBelow(TakeNext(m, c), end)
          /\ Tiles(TakeNext(m, c), first, end)
          /\ Keeps(m, TakeNext(m, c))
      BY <1>1, <1>3, TakeNextTiles
    <2> QED BY <1>1, <2>1, <2>2 DEF Keeps
  <1> QED BY <1>4, <1>5

(* A chunk that is left after the second half of free ends where it ended, *)
(* but the chunk c itself where a free chunk behind it ended.              *)
LEMMA TakeNextReaches ==
  ASSUME NEW m, NEW f, NEW e \in Start .. Word, NEW c \in DOMAIN m,
         HeadersBelow(m, e), Tiles(m, f, e)
  PROVE  /\ After(TakeNext(m, c), c) = FreeEnd(m, c)
         /\ \A a \in DOMAIN TakeNext(m, c) \ {c} :
              After(TakeNext(m, c), a) = After(m, a)
  <1>1. CASE m[c].next # NULL /\ ~m[m[c].next].allocated
    <2> DEFINE next == m[c].next
    <2>1. next \in DOMAIN m
      BY <1>1 DEF Tiles, LinkedForward
    <2>2. /\ DOMAIN Merge(m, c, next) = DOMAIN m \ {next}
          /\ After(Merge(m, c, next), c) = After(m, next)
          /\ \A a \in DOMAIN m \ {next, c} :
               After(Merge(m, c, next), a) = After(m, a)
      BY <2>1, MergeTiles
    <2>3. TakeNext(m, c) = Merge(m, c, next) /\ FreeEnd(m, c) = After(m, next)
      BY <1>1 DEF TakeNext, FreeEnd
    <2> QED BY <2>2, <2>3
  <1>2. CASE ~(m[c].next # NULL /\ ~m[m[c].next].allocated)
    BY <1>2 DEF TakeNext, FreeEnd
  <1> QED BY <1>1, <1>2

(* free(c) gives c's bytes, and those of a free chunk behind it, to the    *)
(* chunk before c if that is in use; every other chunk in use ends where   *)
(* it ended.                                                               *)
LEMMA FreedReaches ==
  ASSUME TypeOK, TilesRegion, NEW c \in DOMAIN chunks,
         NEW a \in Allocated(chunks) \ {c}
  PROVE  After(Freed(c), a) = IF chunks[a].next = c
                              THEN FreeEnd(chunks, c) ELSE After(chunks, a)
  <1> DEFINE m == Mark(chunks, c, FALSE)
             p == m[c].prev
             r == Merge(m, p, c)
  <1>1. /\ end \in Start .. Word /\ a \in DOMAIN chunks /\ a # c
        /\ chunks[a].allocated
        /\ HeadersBelow(chunks, end) /\ Tiles(chunks, first, end)
    BY DEF TypeOK, TilesRegion, Allocated
  <1>2. /\ DOMAIN m = DOMAIN chunks
        /\ HeadersBelow(m, end) /\ Tiles(m, first, end)
        /\ \A b \in DOMAIN chunks \ {c} : m[b] = chunks[b]
        /\ m[c].next = chunks[c].next /\ m[c].prev = chunks[c].prev
        /\ m[c].size = chunks[c].size
    BY MarkTiles
  <1>3. c \in Nat /\ c > 0 /\ a \in Nat /\ a > 0
    BY <1>1, MemMgrAssumption DEF HeadersBelow
  <1> HIDE DEF m
  <1>4. After(m, c) = After(chunks, c) /\ FreeEnd(m, c) = FreeEnd(chunks, c)
    <2>1. m[c].next # NULL => m[c].next \in DOMAIN chunks \ {c}
      BY <1>2, NextIsHigher
    <2> QED BY <1>2, <2>1 DEF FreeEnd, After
  <1>5. After(m, a) = After(chunks, a)
    BY <1>1, <1>2 DEF After
  <1>6. chunks[a].next = c <=> p = a
    BY <1>1, <1>2, <1>3 DEF Tiles, LinkedForward, LinkedBack, NULL
  <1>7. CASE TakenByPrev(m, c)
    <2>1. p \in DOMAIN m /\ m[p].next = c
      BY <1>2, <1>7 DEF TakenByPrev, Tiles, LinkedBack
    <2>2. /\ DOMAIN r = DOMAIN m \ {c}
          /\ HeadersBelow(r, end) /\ Tiles(r, first, end)
          /\ r[p].next = m[c].next /\ After(r, p) = After(m, c)
          /\ \A b \in DOMAIN m \ {c} : r[b].allocated = m[b].allocated
          /\ \A b \in DOMAIN m \ {c, p} : After(r, b) = After(m, b)
      BY <1>1, <1>2, <2>1, MergeTiles
    <2>3. p # c /\ p < c /\ p \in Nat
      BY <1>2, <1>3, <2>1, NextIsHigher DEF NULL
    <2> HIDE DEF p, r
    <2>4. Freed(c) = TakeNext(r, p)
      BY <1>7 DEF Freed, m, p, r
    <2>5. /\ After(TakeNext(r, p), p) = FreeEnd(r, p)
          /\ \A b \in DOMAIN TakeNext(r, p) \ {p} :
               After(TakeNext(r, p), b) = After(r, b)
      BY <1>1, <2>1, <2>2, <2>3, TakeNextReaches
    <2>6. FreeEnd(r, p) = FreeEnd(m, c)
      <3>1. CASE m[c].next = NULL
        BY <2>2, <3>1 DEF FreeEnd
      <3>2. CASE m[c].next # NULL
        <4>1. m[c].next \in DOMAIN m \ {c, p}
          BY <1>2, <1>3, <2>3, <3>2, NextIsHigher
        <4> QED BY <2>2, <4>1 DEF FreeEnd
      <3> QED BY <3>1, <3>2
    <2>7. CASE a = p
      BY <1>4, <1>6, <2>4, <2>5, <2>6, <2>7 DEF p
    <2>8. CASE a # p
      <3>1. a \in DOMAIN TakeNext(r, p)
        <4>1. a \in Allocated(r)
          BY <1>1, <1>2, <2>2 DEF Allocated
        <4>2. p \in DOMAIN r
          BY <2>1, <2>2, <2>3
        <4>3. Keeps(r, TakeNext(r, p))
          BY <1>1, <2>2, <4>2, TakeNextTiles
        <4> QED BY <4>1, <4>3 DEF Keeps, Allocated
      <3> QED BY <1>1, <1>2, <1>5, <1>6, <2>2, <2>4, <2>5, <2>8, <3>1 DEF p
    <2> QED BY <2>7, <2>8
  <1>8. CASE ~TakenByPrev(m, c)
    <2>1. Freed(c) = TakeNext(m, c)
      BY <1>8 DEF Freed, m
    <2>2. chunks[a].next # c
      BY <1>1, <1>2, <1>3, <1>6, <1>8 DEF TakenByPrev, NULL
    <2>3. a \in DOMAIN TakeNext(m, c)
      <3>1. a \in Allocated(m)
        BY <1>1, <1>2 DEF Allocated
      <3> QED BY <1>1, <1>2, <3>1, TakeNextTiles DEF Keeps, Allocated
    <2> QED BY <1>1, <1>2, <1>5, <2>1, <2>2, <2>3, TakeNextReaches
  <1> QED BY <1>7, <1>8

-----------------------------------------------------------------------------
(* Cutting chunk c after n bytes keeps the tiling and adds one header,     *)
(* which no chunk of the list contained before.                            *)
LEMMA SplitTiles ==
  ASSUME TypeOK, TilesRegion, NEW c \in DOMAIN chunks,
         NEW n \in 0 .. (Word - 1), Fits(c, n), Splits(c, n)
  PROVE  /\ HeadersBelow(Split(c, n), end)
         /\ Tiles(Split(c, n), first, end)
         /\ DOMAIN chunks \subseteq DOMAIN Split(c, n)
         /\ Allocated(Split(c, n)) = Allocated(chunks) \cup {c}
         /\ Split(c, n)[c].size = n
         /\ \A a \in DOMAIN chunks \ {c} : Split(c, n)[a].size = chunks[a].size
  <1> DEFINE temp == c + HeaderSize + n
             rest == chunks[c].size - n - HeaderSize
             after == chunks[c].next
             r == Split(c, n)
  <1> USE MemMgrAssumption
  <1>1. /\ c \in Nat /\ c > 0 /\ n \in Nat
        /\ chunks[c] \in MemoryChunk
        /\ end \in Start .. Word
        /\ HeadersBelow(chunks, end)
        /\ LinkedForward(chunks, end)
        /\ LinkedBack(chunks, first)
        /\ Apart(chunks, end)
        /\ first # NULL
    BY DEF TypeOK, TilesRegion, Tiles, HeadersBelow
  <1>2. After(chunks, c) <= end /\ n < chunks[c].size
    BY <1>1 DEF Apart, Fits, MemoryChunk
  <1>3. U(n + HeaderSize + 1) = n + HeaderSize + 1
    BY <1>1, <1>2, USmall DEF After, MemoryChunk
  <1>4. chunks[c].size >= n + HeaderSize + 1
    BY <1>3 DEF Splits
  <1>5. /\ temp \in Nat /\ rest \in Nat /\ rest > 0
        /\ U(c + HeaderSize + n) = temp
        /\ U(chunks[c].size - n - HeaderSize) = rest
        /\ c < temp /\ temp < After(chunks, c)
        /\ temp + HeaderSize + rest = After(chunks, c)
    BY <1>1, <1>2, <1>4, USmall DEF After, MemoryChunk
  <1>6. temp \notin DOMAIN chunks
    <2> HIDE DEF temp
    <2> QED BY <1>1, <1>5 DEF Apart, After, MemoryChunk
  <1>7. \A a \in DOMAIN chunks : a \in Nat /\ a # NULL
    BY <1>1 DEF HeadersBelow, NULL
  <1>8. \/ after = NULL /\ After(chunks, c) = end
        \/ /\ after \in DOMAIN chunks \ {c}
           /\ After(chunks, c) = after
           /\ chunks[after].prev = c
    BY <1>1 DEF LinkedForward, After, MemoryChunk
  <1>9. r = [a \in DOMAIN chunks \cup {temp} |->
               IF a = temp THEN Header(after, c, FALSE, rest)
               ELSE IF a = c THEN Header(temp, chunks[c].prev, TRUE, n)
               ELSE IF a = after
                 THEN Header(chunks[a].next, temp, chunks[a].allocated,
                             chunks[a].size)
               ELSE chunks[a]]
    BY <1>5 DEF Split
  <1>10. DOMAIN r = DOMAIN chunks \cup {temp}
    BY <1>9
  <1> HIDE DEF r, after, temp, rest
  <1>11. /\ r[temp] \in MemoryChunk
         /\ r[temp].next = after
         /\ r[temp].prev = c
         /\ ~r[temp].allocated
         /\ After(r, temp) = After(chunks, c)
    <2>1. r[temp] = Header(after, c, FALSE, rest)
      BY <1>9
    <2>2. after \in Nat
      BY <1>1 DEF MemoryChunk, after
    <2> QED BY <1>1, <1>5, <2>1, <2>2 DEF Header, MemoryChunk, After
  <1>12. /\ r[c] \in MemoryChunk
         /\ r[c].next = temp
         /\ r[c].prev = chunks[c].prev
         /\ r[c].allocated
         /\ r[c].size = n
         /\ After(r, c) = temp
    <2>1. r[c] = Header(temp, chunks[c].prev, TRUE, n)
      BY <1>6, <1>9
    <2> QED BY <1>1, <1>5, <2>1 DEF Header, MemoryChunk, After, temp
  <1>13. ASSUME NEW a \in DOMAIN chunks \ {c}
         PROVE  /\ r[a] \in MemoryChunk
                /\ r[a].next = chunks[a].next
                /\ r[a].prev = IF a = after THEN temp ELSE chunks[a].prev
                /\ r[a].allocated = chunks[a].allocated
                /\ r[a].size = chunks[a].size
                /\ After(r, a) = After(chunks, a)
    <2>1. chunks[a] \in MemoryChunk
      BY <1>1 DEF HeadersBelow
    <2>2. CASE a = after
      <3>1. r[a] = Header(chunks[a].next, temp, chunks[a].allocated,
                          chunks[a].size)
        BY <1>6, <1>9, <2>2
      <3> QED BY <1>5, <2>1, <2>2, <3>1 DEF Header, MemoryChunk, After
    <2>3. CASE a # after
      <3>1. r[a] = chunks[a]
        BY <1>6, <1>9, <2>3
      <3> QED BY <2>1, <2>3, <3>1 DEF After
    <2> QED BY <2>2, <2>3
  <1>14. HeadersBelow(r, end)
    <2>1. r \in [DOMAIN r -> MemoryChunk]
      BY <1>9, <1>10, <1>11, <1>12, <1>13
    <2>2. temp \in Start .. end
      BY <1>1, <1>2, <1>5 DEF HeadersBelow, After, MemoryChunk
    <2> QED BY <1>1, <1>10, <2>1, <2>2 DEF HeadersBelow
  <1>15. LinkedForward(r, end)
    <2> SUFFICES ASSUME NEW a \in DOMAIN r
                 PROVE  IF r[a].next = NULL
                        THEN After(r, a) = end
                        ELSE /\ r[a].next \in DOMAIN r
                             /\ After(r, a) = r[a].next
                             /\ r[r[a].next].prev = a
      BY DEF LinkedForward
    <2>1. CASE a = temp
      BY <1>7, <1>8, <1>10, <1>11, <1>13, <2>1
    <2>2. CASE a = c
      BY <1>1, <1>5, <1>10, <1>11, <1>12, <2>2 DEF NULL
    <2>3. CASE a \in DOMAIN chunks \ {c}
      <3>1. CASE chunks[a].next = NULL
        BY <1>1, <1>13, <2>3, <3>1 DEF LinkedForward
      <3>2. CASE chunks[a].next # NULL
        <4>1. /\ chunks[a].next \in DOMAIN chunks
              /\ After(chunks, a) = chunks[a].next
              /\ chunks[chunks[a].next].prev = a
          BY <1>1, <2>3, <3>2 DEF LinkedForward
        <4>2. chunks[a].next # after
          BY <1>8, <2>3, <3>2, <4>1
        <4>3. r[chunks[a].next].prev = a
          BY <1>12, <1>13, <4>1, <4>2
        <4> QED BY <1>10, <1>13, <2>3, <3>2, <4>1, <4>3
      <3> QED BY <3>1, <3>2
    <2> QED BY <1>10, <2>1, <2>2, <2>3
  <1>16. LinkedBack(r, first)
    <2> SUFFICES ASSUME NEW a \in DOMAIN r
                 PROVE  IF a = first
                        THEN r[a].prev = NULL
                        ELSE r[a].prev \in DOMAIN r /\ r[r[a].prev].next = a
      BY DEF LinkedBack
    <2>1. first \in DOMAIN chunks
      BY <1>1 DEF TilesRegion, Tiles
    <2>2. CASE a = temp
      BY <1>6, <1>10, <1>11, <1>12, <2>1, <2>2
    <2>3. CASE a \in DOMAIN chunks
      <3>1. IF a = first
            THEN chunks[a].prev = NULL
            ELSE chunks[a].prev \in DOMAIN chunks
                 /\ chunks[chunks[a].prev].next = a
        BY <1>1, <2>3 DEF LinkedBack
      <3>2. CASE a = after
        BY <1>7, <1>8, <1>10, <1>11, <1>13, <2>3, <3>1, <3>2
      <3>3. CASE a # after
        <4>1. r[a].prev = chunks[a].prev
          BY <1>12, <1>13, <2>3, <3>3
        <4>2. CASE a = first
          BY <3>1, <4>1, <4>2
        <4>3. CASE a # first
          <5>1. chunks[a].prev \in DOMAIN chunks \ {c}
            BY <3>1, <3>3, <4>3 DEF after
          <5> QED BY <1>10, <1>13, <3>1, <4>1, <4>3, <5>1
        <4> QED BY <4>2, <4>3
      <3> QED BY <3>2, <3>3
    <2> QED BY <1>10, <2>2, <2>3
  <1>17. Apart(r, end)
    <2>1. \A a \in DOMAIN r : After(r, a) <= end
      <3>1. temp <= end
        BY <1>1, <1>2, <1>5 DEF After, MemoryChunk
      <3> QED BY <1>1, <1>2, <1>10, <1>11, <1>12, <1>13, <3>1 DEF Apart
    <2>2. ASSUME NEW a \in DOMAIN r, NEW b \in DOMAIN r, a < b
          PROVE  After(r, a) <= b
      <3>1. CASE a = temp /\ b \in DOMAIN chunks
        <4>1. c < b
          BY <1>1, <1>5, <1>7, <2>2, <3>1
        <4> QED BY <1>1, <1>11, <3>1, <4>1 DEF Apart
      <3>2. CASE a = c /\ b \in DOMAIN chunks
        <4>1. After(chunks, c) <= b
          BY <1>1, <2>2, <3>2 DEF Apart
        <4> QED BY <1>1, <1>5, <1>7, <1>12, <3>2, <4>1 DEF After, MemoryChunk
      <3>3. CASE a \in DOMAIN chunks \ {c} /\ b \in DOMAIN chunks
        BY <1>1, <1>13, <2>2, <3>3 DEF Apart
      <3>4. CASE a \in DOMAIN chunks /\ b = temp
        <4>1. CASE a = c
          BY <1>5, <1>12, <3>4, <4>1
        <4>2. CASE a # c
          <5>1. a < c
            <6>1. ~(c < a)
              <7> SUFFICES ASSUME c < a PROVE FALSE
                OBVIOUS
              <7>1. After(chunks, c) <= a
                BY <1>1, <3>4 DEF Apart
              <7> QED BY <1>1, <1>5, <1>7, <2>2, <3>4, <7>1 DEF After, MemoryChunk
            <6> QED BY <1>1, <1>7, <3>4, <4>2, <6>1
          <5>2. After(chunks, a) <= c
            BY <1>1, <3>4, <5>1 DEF Apart
          <5>3. chunks[a].size \in Nat
            BY <1>1, <3>4 DEF HeadersBelow, MemoryChunk
          <5> QED BY <1>1, <1>5, <1>7, <1>13, <3>4, <4>2, <5>2, <5>3 DEF After
        <4> QED BY <4>1, <4>2
      <3>5. a # temp \/ b # temp
        BY <1>5, <2>2
      <3> QED BY <1>10, <3>1, <3>2, <3>3, <3>4, <3>5
    <2> QED BY <2>1, <2>2 DEF Apart
  <1>18. Tiles(r, first, end)
    BY <1>1, <1>10, <1>15, <1>16, <1>17 DEF Tiles, TilesRegion
  <1>19. Allocated(r) = Allocated(chunks) \cup {c}
    BY <1>6, <1>10, <1>11, <1>12, <1>13 DEF Allocated
  <1> QED BY <1>10, <1>12, <1>13, <1>14, <1>18, <1>19 DEF r

-----------------------------------------------------------------------------
(* IInv is inductive.                                                      *)

(* There is no heap before the constructor runs: nothing to tile.          *)
LEMMA NoChunksEmpty ==
  ASSUME NEW S
  PROVE  DOMAIN NoChunks = {} /\ NoChunks \in [DOMAIN NoChunks -> S]
  BY DEF NoChunks

(* Before the constructor there are no chunks and no clients.              *)
LEMMA InitIInv == Init => IInv
  <1> SUFFICES ASSUME Init PROVE IInv
    OBVIOUS
  <1>1. DOMAIN chunks = {} /\ DOMAIN blocks = {}
    BY DEF Init, NoChunks
  <1>2. TypeOK
    <2>1. HeadersBelow(chunks, end)
      BY <1>1, NoChunksEmpty DEF Init, HeadersBelow
    <2>2. DOMAIN blocks \subseteq Start .. end /\ blocks \in [DOMAIN blocks -> Nat]
      BY <1>1, NoChunksEmpty DEF Init
    <2>3. end \in Start .. Word
      BY MemMgrAssumption DEF Init
    <2>4. size \in 0 .. (Word - 1) /\ chunk \in {NULL} /\ first \in {NULL}
      BY MemMgrAssumption DEF Init, NULL
    <2>5. activeMemMgr \in BOOLEAN /\ pc \in {"none"}
      BY DEF Init
    <2> QED BY <2>1, <2>2, <2>3, <2>4, <2>5 DEF TypeOK
  <1>3. TilesRegion
    BY <1>1
    DEF Init, TilesRegion, Tiles, LinkedForward, LinkedBack, Apart
  <1>4. AllocatedIffLive
    BY <1>1 DEF AllocatedIffLive, Live
  <1>5. Scanned /\ Quiet
    BY DEF Init, Scanned, Quiet
  <1> QED BY <1>2, <1>3, <1>4, <1>5 DEF IInv

(* The constructor writes one free chunk that covers the region.           *)
LEMMA ConstructIInv ==
  ASSUME IInv, NEW regionSize \in RegionSizes, Construct(regionSize)
  PROVE  IInv'
  <1> USE MemMgrAssumption DEF Construct, NULL
  <1>1. /\ end' = Start + regionSize /\ end' \in Start .. Word
        /\ regionSize \in Nat
        /\ first = NULL /\ blocks = NoChunks /\ chunks = NoChunks
        /\ chunk = NULL /\ size \in 0 .. (Word - 1)
    <2>1. DOMAIN chunks = {}
      BY DEF IInv, TilesRegion, Tiles, Quiet
    <2>2. chunks = NoChunks
      BY <2>1 DEF IInv, TypeOK, HeadersBelow, NoChunks
    <2> QED BY <2>2 DEF IInv, TypeOK, Quiet
  <1>2. CASE regionSize < HeaderSize
    <2>1. DOMAIN chunks' = {} /\ DOMAIN blocks' = {} /\ first' = NULL
      BY <1>1, <1>2 DEF NoChunks
    <2>2. TypeOK'
      <3>1. HeadersBelow(chunks', end')
        BY <1>1, <1>2, <2>1, NoChunksEmpty DEF HeadersBelow
      <3>2. DOMAIN blocks' \subseteq Start .. end'
            /\ blocks' \in [DOMAIN blocks' -> Nat]
        BY <1>1, <2>1, NoChunksEmpty
      <3> QED BY <1>1, <1>2, <3>1, <3>2 DEF TypeOK
    <2>3. TilesRegion'
      BY <2>1 DEF TilesRegion, Tiles, LinkedForward, LinkedBack, Apart
    <2>4. AllocatedIffLive'
      BY <2>1 DEF AllocatedIffLive, Live
    <2>5. Scanned' /\ Quiet'
      BY <1>1 DEF Scanned, Quiet
    <2> QED BY <2>2, <2>3, <2>4, <2>5 DEF IInv
  <1>3. CASE ~(regionSize < HeaderSize)
    <2> DEFINE h == Header(NULL, NULL, FALSE, regionSize - HeaderSize)
    <2>1. /\ chunks' = [a \in {Start} |-> h]
          /\ first' = Start
      BY <1>3
    <2>2. /\ h \in MemoryChunk
          /\ h.next = NULL /\ h.prev = NULL /\ ~h.allocated
          /\ h.size = regionSize - HeaderSize
      BY <1>1, <1>3 DEF Header, MemoryChunk
    <2> HIDE DEF h
    <2>3. /\ DOMAIN chunks' = {Start}
          /\ chunks'[Start] = h
          /\ After(chunks', Start) = end'
      BY <1>1, <2>1, <2>2 DEF After
    <2>4. TypeOK'
      BY <1>1, <2>1, <2>2 DEF TypeOK, HeadersBelow, NoChunks
    <2>5. TilesRegion'
      BY <1>1, <2>1, <2>2, <2>3
      DEF TilesRegion, Tiles, LinkedForward, LinkedBack, Apart
    <2>6. AllocatedIffLive'
      BY <1>1, <2>2, <2>3 DEF AllocatedIffLive, Live, NoChunks
    <2>7. Scanned' /\ Quiet'
      BY <1>1 DEF Scanned, Quiet
    <2> QED BY <2>4, <2>5, <2>6, <2>7 DEF IInv
  <1> QED BY <1>2, <1>3

(* The destructor only clears activeMemMgr.                                *)
LEMMA DestroyIInv ==
  ASSUME IInv, Destroy
  PROVE  IInv'
  <1> USE MemMgrAssumption DEF Destroy
  <1>1. chunk = NULL /\ size \in 0 .. (Word - 1)
    BY DEF IInv, TypeOK, Quiet
  <1>2. DOMAIN chunks' = {} /\ DOMAIN blocks' = {}
    BY DEF NoChunks
  <1>3. TypeOK'
    <2>1. HeadersBelow(chunks', end')
      BY <1>2, NoChunksEmpty DEF HeadersBelow
    <2>2. DOMAIN blocks' \subseteq Start .. end' /\ blocks' \in [DOMAIN blocks' -> Nat]
      BY <1>2, NoChunksEmpty
    <2>3. size' \in 0 .. (Word - 1) /\ chunk' \in {NULL} /\ first' \in {NULL}
      BY <1>1
    <2>4. activeMemMgr' \in BOOLEAN /\ pc' \in {"none"}
      BY DEF Destroy
    <2>5. end' \in Start .. Word
      BY MemMgrAssumption DEF Destroy
    <2> QED BY <2>1, <2>2, <2>3, <2>4, <2>5 DEF TypeOK
  <1>4. TilesRegion'
    BY <1>2 DEF TilesRegion, Tiles, LinkedForward, LinkedBack, Apart
  <1>5. AllocatedIffLive'
    BY <1>2 DEF AllocatedIffLive, Live
  <1>6. Scanned' /\ Quiet'
    BY <1>1 DEF Scanned, Quiet
  <1> QED BY <1>3, <1>4, <1>5, <1>6 DEF IInv

(* A call of malloc starts at the first chunk: it has passed none.         *)
LEMMA MallocCallIInv ==
  ASSUME IInv, NEW n \in Requests, MallocCall(n)
  PROVE  IInv'
  <1> USE MemMgrAssumption DEF MallocCall
  <1>1. first # NULL => first \in DOMAIN chunks
    BY DEF IInv, TilesRegion, Tiles
  <1>2. TypeOK'
    BY <1>1 DEF IInv, TypeOK, NULL
  <1>3. TilesRegion' /\ AllocatedIffLive'
    BY DEF IInv, TilesRegion, AllocatedIffLive, Live
  <1>4. Scanned'
    <2>1. first = NULL => DOMAIN chunks = {}
      BY DEF IInv, TilesRegion, Tiles
    <2>2. \A c \in DOMAIN chunks : ~(c < first)
      BY <2>1 DEF IInv, TypeOK, HeadersBelow, NULL
    <2> QED BY <2>1, <2>2 DEF Scanned
  <1>5. Quiet'
    BY DEF Quiet
  <1> QED BY <1>2, <1>3, <1>4, <1>5 DEF IInv

(* malloc passes only a chunk that is allocated or too small.              *)
LEMMA MallocSkipIInv ==
  ASSUME IInv, MallocSkip
  PROVE  IInv'
  <1> USE MemMgrAssumption DEF MallocSkip
  <1>1. chunk \in DOMAIN chunks
    BY DEF IInv, TypeOK
  <1>2. \/ chunk' = NULL /\ After(chunks, chunk) = end
        \/ chunk' \in DOMAIN chunks /\ After(chunks, chunk) = chunk'
    BY <1>1 DEF IInv, TilesRegion, Tiles, LinkedForward
  <1>3. TypeOK'
    BY <1>2 DEF IInv, TypeOK
  <1>4. TilesRegion' /\ AllocatedIffLive'
    BY DEF IInv, TilesRegion, AllocatedIffLive, Live
  <1>5. Scanned'
    <2> SUFFICES ASSUME NEW c \in DOMAIN chunks, chunk' = NULL \/ c < chunk'
                 PROVE  ~Fits(c, size)
      BY DEF Scanned, Fits
    <2>1. c < chunk => ~Fits(c, size)
      BY DEF IInv, Scanned
    <2>2. ~(chunk < c)
      <3> SUFFICES ASSUME chunk < c PROVE FALSE
        OBVIOUS
      <3>1. After(chunks, chunk) <= c /\ After(chunks, c) <= end
        BY <1>1 DEF IInv, TilesRegion, Tiles, Apart
      <3>2. c \in Nat /\ c > 0 /\ chunks[c].size \in Nat
        BY DEF IInv, TypeOK, HeadersBelow, MemoryChunk
      <3>3. c < After(chunks, c)
        BY <3>2 DEF After
      <3>4. end \in Nat /\ After(chunks, c) \in Nat
        BY <3>2 DEF IInv, TypeOK, After
      <3>5. chunk' \in Nat
        BY <1>2 DEF NULL, IInv, TypeOK, HeadersBelow
      <3>6. CASE chunk' = NULL /\ After(chunks, chunk) = end
        BY <3>1, <3>2, <3>3, <3>4, <3>6
      <3>7. CASE chunk' \in DOMAIN chunks /\ After(chunks, chunk) = chunk'
        <4>1. chunk' > 0
          BY <3>7 DEF IInv, TypeOK, HeadersBelow
        <4>2. chunk' <= c /\ c < chunk' /\ c \in Nat
          BY <3>1, <3>2, <3>7, <4>1 DEF NULL
        <4> QED BY <3>5, <4>2
      <3> QED BY <1>2, <3>6, <3>7
    <2>3. c \in Nat /\ chunk \in Nat
      BY <1>1 DEF IInv, TypeOK, HeadersBelow
    <2> QED BY <2>1, <2>2, <2>3
  <1>6. Quiet'
    BY DEF IInv, Quiet
  <1> QED BY <1>3, <1>4, <1>5, <1>6 DEF IInv

(* malloc returns null when it has passed every chunk.                     *)
LEMMA MallocFailIInv ==
  ASSUME IInv, MallocFail
  PROVE  IInv'
  <1> USE MemMgrAssumption DEF MallocFail
  <1>1. TypeOK'
    BY DEF IInv, TypeOK
  <1>2. TilesRegion' /\ AllocatedIffLive'
    BY DEF IInv, TilesRegion, AllocatedIffLive, Live
  <1>3. Scanned' /\ Quiet'
    BY DEF Scanned, Quiet
  <1> QED BY <1>1, <1>2, <1>3 DEF IInv

(* What malloc and free do to the blocks clients hold.                     *)
LEMMA MallocTakeIInv ==
  ASSUME IInv, MallocTake
  PROVE  IInv'
  <1> USE MemMgrAssumption
  <1> DEFINE ptr == chunk + HeaderSize
  <1>1. /\ chunk \in DOMAIN chunks /\ chunk \in Nat /\ chunk >= Start
        /\ size \in 0 .. (Word - 1)
        /\ Fits(chunk, size)
        /\ chunks[chunk].size \in Nat
        /\ end \in Start .. Word
        /\ TypeOK /\ TilesRegion
    BY DEF IInv, TypeOK, HeadersBelow, MemoryChunk, MallocTake
  <1>2. ptr + chunks[chunk].size <= end
    BY <1>1 DEF TilesRegion, Tiles, Apart, After
  <1>3. /\ U(chunk + HeaderSize) = ptr
        /\ ptr \in Start .. end
        /\ size < chunks[chunk].size
    <2>1. size < chunks[chunk].size
      BY <1>1 DEF Fits
    <2>2. ptr \in 0 .. (Word - 1)
      BY <1>1, <1>2, <2>1
    <2> QED BY <1>1, <1>2, <2>1, <2>2, USmall
  <1>4. /\ HeadersBelow(chunks', end)
        /\ Tiles(chunks', first, end)
        /\ DOMAIN chunks \subseteq DOMAIN chunks'
        /\ Allocated(chunks') = Allocated(chunks) \cup {chunk}
        /\ chunks'[chunk].size >= size
        /\ \A a \in DOMAIN chunks \ {chunk} :
             chunks'[a].size = chunks[a].size
    <2>1. CASE Splits(chunk, size)
      <3>1. chunks' = Split(chunk, size)
        BY <2>1 DEF MallocTake
      <3>2. /\ HeadersBelow(Split(chunk, size), end)
            /\ Tiles(Split(chunk, size), first, end)
            /\ DOMAIN chunks \subseteq DOMAIN Split(chunk, size)
            /\ Allocated(Split(chunk, size)) = Allocated(chunks) \cup {chunk}
            /\ Split(chunk, size)[chunk].size = size
            /\ \A a \in DOMAIN chunks \ {chunk} :
                 Split(chunk, size)[a].size = chunks[a].size
        BY <1>1, <2>1, SplitTiles
      <3>3. size >= size
        BY <1>1
      <3> QED BY <3>1, <3>2, <3>3
    <2>2. CASE ~Splits(chunk, size)
      <3> DEFINE m == Mark(chunks, chunk, TRUE)
      <3>1. chunks' = m
        BY <2>2 DEF MallocTake
      <3>2. /\ DOMAIN m = DOMAIN chunks
            /\ m[chunk] = Header(chunks[chunk].next, chunks[chunk].prev, TRUE,
                                 chunks[chunk].size)
            /\ \A a \in DOMAIN chunks \ {chunk} : m[a] = chunks[a]
        BY <1>1 DEF Mark
      <3>3. HeadersBelow(chunks, end) /\ Tiles(chunks, first, end)
        BY <1>1 DEF TypeOK, TilesRegion
      <3>4. /\ m[chunk] \in MemoryChunk
            /\ m[chunk].next = chunks[chunk].next
            /\ m[chunk].prev = chunks[chunk].prev
            /\ m[chunk].size = chunks[chunk].size
            /\ m[chunk].allocated
        <4> HIDE DEF m
        <4> QED BY <1>1, <3>2, <3>3 DEF Header, MemoryChunk, HeadersBelow
      <3>5. m \in [DOMAIN chunks -> MemoryChunk]
        BY <3>2, <3>3, <3>4 DEF HeadersBelow, Mark
      <3> HIDE DEF m
      <3>6. HeadersBelow(m, end) /\ Tiles(m, first, end)
        BY <3>2, <3>3, <3>4, <3>5, LinksTile
      <3>7. Allocated(m) = Allocated(chunks) \cup {chunk}
        BY <1>1, <3>2, <3>4 DEF Allocated
      <3>8. \A a \in DOMAIN chunks \ {chunk} : m[a].size = chunks[a].size
        BY <3>2
      <3>9. m[chunk].size >= size
        BY <1>1, <1>3, <3>4
      <3>10. DOMAIN chunks \subseteq DOMAIN m
        BY <3>2
      <3> QED BY <3>1, <3>6, <3>7, <3>8, <3>9, <3>10
    <2> QED BY <2>1, <2>2
  <1>5. /\ DOMAIN blocks' = DOMAIN blocks \cup {ptr}
        /\ blocks'[ptr] = size
        /\ \A p \in DOMAIN blocks \ {ptr} : blocks'[p] = blocks[p]
        /\ blocks' \in [DOMAIN blocks' -> Nat]
    BY <1>1, <1>3 DEF MallocTake, TypeOK
  <1>6. /\ chunk' = NULL /\ size' = 0 /\ pc' = "idle"
        /\ UNCHANGED <<first, activeMemMgr, end>>
    BY DEF MallocTake
  <1>7. TypeOK'
    BY <1>1, <1>3, <1>4, <1>5, <1>6 DEF TypeOK, NULL
  <1>8. TilesRegion'
    BY <1>4, <1>6 DEF TilesRegion
  <1>9. AllocatedIffLive'
    <2>1. Live' = Live \cup {chunk}
      BY <1>1, <1>5 DEF Live, TypeOK
    <2>2. Allocated(chunks) = Live
      BY DEF IInv, AllocatedIffLive, Allocated
    <2>3. Allocated(chunks') = Live'
      BY <1>4, <2>1, <2>2
    <2>4. ASSUME NEW p \in DOMAIN blocks'
          PROVE  chunks'[p - HeaderSize].size >= blocks'[p]
      <3>1. CASE p = ptr
        BY <1>1, <1>4, <1>5, <3>1
      <3>2. CASE p # ptr
        <4>1. p \in DOMAIN blocks /\ p \in Nat
          BY <1>5, <3>2, <1>1 DEF TypeOK
        <4>2. p - HeaderSize \in Allocated(chunks)
          BY <2>2, <4>1 DEF Live
        <4>3. p - HeaderSize \in DOMAIN chunks \ {chunk}
          BY <1>1, <3>2, <4>1, <4>2 DEF Allocated
        <4> QED BY <1>4, <1>5, <3>2, <4>1, <4>3 DEF IInv, AllocatedIffLive
      <3> QED BY <3>1, <3>2
    <2> QED BY <2>3, <2>4 DEF AllocatedIffLive, Allocated
  <1>10. Scanned' /\ Quiet'
    BY <1>6 DEF Scanned, Quiet
  <1> QED BY <1>7, <1>8, <1>9, <1>10 DEF IInv

(* free, with its two merges, preserves the whole invariant.               *)
LEMMA FreeIInv ==
  ASSUME IInv, NEW ptr \in DOMAIN blocks, Free(ptr)
  PROVE  IInv'
  <1> USE MemMgrAssumption
  <1> DEFINE c == ptr - HeaderSize
  <1>1. /\ TypeOK /\ TilesRegion /\ pc = "idle"
        /\ Allocated(chunks) = Live
    BY DEF IInv, AllocatedIffLive, Allocated, Free
  <1>2. c \in DOMAIN chunks /\ ptr \in Nat
    BY <1>1 DEF Live, Allocated, TypeOK
  <1>3. U(ptr - HeaderSize) = c
    <2>1. c \in 0 .. (Word - 1)
      <3>1. /\ c \in Nat /\ chunks[c].size \in Nat
            /\ c + HeaderSize + chunks[c].size <= end
            /\ end \in Nat /\ end <= Word
        BY <1>1, <1>2 DEF TypeOK, HeadersBelow, MemoryChunk, TilesRegion,
                          Tiles, Apart, After
      <3> QED BY <3>1
    <2> QED BY <2>1, USmall
  <1> HIDE DEF c
  <1>4. /\ HeadersBelow(chunks', end)
        /\ Tiles(chunks', first, end)
        /\ DOMAIN chunks' \subseteq DOMAIN chunks
        /\ Allocated(chunks') = Allocated(chunks) \ {c}
        /\ \A a \in DOMAIN chunks' : chunks'[a].size >= chunks[a].size
    <2>1. chunks' = Freed(c)
      BY <1>3 DEF Free
    <2> QED BY <1>1, <1>2, <2>1, FreedTiles
  <1>5. /\ DOMAIN blocks' = DOMAIN blocks \ {ptr}
        /\ \A p \in DOMAIN blocks' : blocks'[p] = blocks[p]
        /\ blocks' \in [DOMAIN blocks' -> Nat]
    BY <1>1 DEF Free, TypeOK
  <1>6. /\ chunk = NULL /\ chunk' = NULL /\ pc' = "idle"
        /\ UNCHANGED <<first, activeMemMgr, size, end>>
    BY <1>1 DEF Free, IInv, Quiet
  <1>7. TypeOK'
    BY <1>1, <1>4, <1>5, <1>6 DEF TypeOK
  <1>8. TilesRegion'
    BY <1>4, <1>6 DEF TilesRegion
  <1>9. AllocatedIffLive'
    <2>1. Live' = Live \ {c}
      BY <1>1, <1>2, <1>5 DEF Live, TypeOK, c
    <2>2. Allocated(chunks') = Live'
      BY <1>1, <1>4, <2>1
    <2>3. ASSUME NEW p \in DOMAIN blocks', p - HeaderSize \in DOMAIN chunks'
          PROVE  chunks'[p - HeaderSize].size >= blocks'[p]
      <3> DEFINE a == p - HeaderSize
      <3>1. chunks[a].size >= blocks[p]
        BY <1>4, <1>5, <2>3 DEF IInv, AllocatedIffLive
      <3>2. /\ chunks'[a].size \in Nat /\ chunks[a].size \in Nat
            /\ blocks[p] \in Nat
        BY <1>1, <1>4, <1>5, <2>3 DEF TypeOK, HeadersBelow, MemoryChunk
      <3> HIDE DEF a
      <3>3. chunks'[a].size >= chunks[a].size
        BY <1>4, <2>3 DEF a
      <3>4. chunks'[a].size >= blocks'[p]
        BY <1>5, <3>1, <3>2, <3>3
      <3> QED BY <3>4 DEF a
    <2> QED BY <2>2, <2>3 DEF AllocatedIffLive, Allocated
  <1>10. Scanned' /\ Quiet'
    BY <1>6 DEF Scanned, Quiet
  <1> QED BY <1>7, <1>8, <1>9, <1>10 DEF IInv

(* Every step of the heap preserves the invariant.                         *)
LEMMA NextIInv ==
  ASSUME IInv, [Next]_vars
  PROVE  IInv'
  <1>1. ASSUME NEW n \in RegionSizes, Construct(n) PROVE IInv'
    BY <1>1, ConstructIInv
  <1>2. ASSUME Destroy PROVE IInv'
    BY <1>2, DestroyIInv
  <1>3. ASSUME NEW n \in Requests, MallocCall(n) PROVE IInv'
    BY <1>3, MallocCallIInv
  <1>4. ASSUME Search PROVE IInv'
    BY <1>4, MallocSkipIInv, MallocFailIInv, MallocTakeIInv DEF Search
  <1>5. ASSUME NEW ptr \in DOMAIN blocks, Free(ptr) PROVE IInv'
    BY <1>5, FreeIInv
  <1>6. CASE UNCHANGED vars
    BY <1>6 DEF vars, IInv, TypeOK, HeadersBelow, TilesRegion, Tiles,
                LinkedForward, LinkedBack, Apart, After, AllocatedIffLive, Live,
                Scanned, Fits, Quiet
  <1> QED BY <1>1, <1>2, <1>3, <1>4, <1>5, <1>6 DEF Next

(* Whatever a client calls, in whatever order, the region is tiled by the  *)
(* chunks of a doubly linked list, a chunk is marked allocated exactly     *)
(* while a client holds its block, and malloc has passed no chunk that     *)
(* fits: the conjunction that each step of malloc and free preserves.      *)
THEOREM Invariance == Spec => []IInv
  <1>1. Init => IInv
    BY InitIInv
  <1>2. IInv /\ [Next]_vars => IInv'
    BY NextIInv
  <1> QED BY <1>1, <1>2, PTL DEF Spec

-----------------------------------------------------------------------------
(* The invariants that the runs check, for every region and request.       *)

(* Every variable keeps its type (alsrc/memmgr.cpp 26-101).                *)
THEOREM TypeCorrect == Spec => []TypeOK
  BY Invariance, PTL DEF IInv

(* malloc's split and free's two merges keep the region tiled by chunks    *)
(* that are linked in both directions (alsrc/memmgr.cpp 60-72, 84-100).    *)
THEOREM ChunksTileRegion == Spec => []TilesRegion
  BY Invariance, PTL DEF IInv

(* Just the chunks of the blocks in clients' hands are allocated, whatever *)
(* was freed next to them (alsrc/memmgr.cpp 74, 82-94).                    *)
THEOREM AllocatedChunksAreLive == Spec => []AllocatedIffLive
  BY Invariance, PTL DEF IInv

(* Chunks that tile the region hold blocks that do not overlap.            *)
LEMMA IInvBlocksDisjoint == IInv => BlocksDisjoint
  <1> USE MemMgrAssumption
  <1> SUFFICES ASSUME IInv PROVE BlocksDisjoint
    OBVIOUS
  <1>1. ASSUME NEW p \in DOMAIN blocks
        PROVE  /\ p \in Nat /\ blocks[p] \in Nat
               /\ p - HeaderSize \in DOMAIN chunks
               /\ p - HeaderSize >= Start
               /\ p + blocks[p] <= After(chunks, p - HeaderSize)
               /\ After(chunks, p - HeaderSize) \in Nat
               /\ After(chunks, p - HeaderSize) <= end
               /\ end \in Nat
    <2>1. p \in Nat /\ blocks[p] \in Nat /\ end \in Nat
      BY DEF IInv, TypeOK
    <2>2. p - HeaderSize \in DOMAIN chunks
      BY DEF IInv, AllocatedIffLive, Live
    <2>3. /\ chunks[p - HeaderSize].size \in Nat
          /\ p - HeaderSize \in Nat /\ p - HeaderSize >= Start
      BY <2>2 DEF IInv, TypeOK, HeadersBelow, MemoryChunk
    <2>4. blocks[p] <= chunks[p - HeaderSize].size
      BY <2>1, <2>2, <2>3 DEF IInv, AllocatedIffLive
    <2>5. After(chunks, p - HeaderSize) <= end
      BY <2>2 DEF IInv, TilesRegion, Tiles, Apart
    <2> QED BY <2>1, <2>2, <2>3, <2>4, <2>5 DEF After
  <1>2. \A p \in DOMAIN blocks :
          Start + HeaderSize <= p /\ p + blocks[p] <= end
    BY <1>1
  <1>3. ASSUME NEW p \in DOMAIN blocks, NEW q \in DOMAIN blocks, p < q
        PROVE  p + blocks[p] <= q - HeaderSize
    <2>1. p - HeaderSize < q - HeaderSize
      BY <1>1, <1>3
    <2>2. After(chunks, p - HeaderSize) <= q - HeaderSize
      BY <1>1, <2>1 DEF IInv, TilesRegion, Tiles, Apart
    <2> QED BY <1>1, <2>2
  <1> QED BY <1>2, <1>3 DEF BlocksDisjoint

(* No two blocks in clients' hands overlap, nor does one reach into the    *)
(* header of another or out of the region (alsrc/memmgr.cpp 49-101).       *)
THEOREM BlocksStayDisjoint == Spec => []BlocksDisjoint
  BY Invariance, IInvBlocksDisjoint, PTL

(* malloc gives a block no more than a header beyond what was asked for,   *)
(* and nobody else's changes.                                              *)
LEMMA MallocTakeRoom ==
  ASSUME IInv, MallocTake
  PROVE  \A p \in DOMAIN blocks' :
           IF p \in DOMAIN blocks
           THEN chunks'[p - HeaderSize].size = chunks[p - HeaderSize].size
           ELSE chunks'[p - HeaderSize].size <= size + HeaderSize
  <1> USE MemMgrAssumption
  <1>1. /\ chunk \in DOMAIN chunks /\ Fits(chunk, size)
        /\ size \in 0 .. (Word - 1) /\ TypeOK /\ TilesRegion
        /\ chunk \in Nat /\ chunk >= Start /\ chunks[chunk].size \in Nat
        /\ end \in Start .. Word
        /\ chunk + HeaderSize + chunks[chunk].size <= end
    BY DEF IInv, TypeOK, HeadersBelow, MemoryChunk, MallocTake, TilesRegion,
           Tiles, Apart, After
  <1>2. /\ size < chunks[chunk].size
        /\ U(chunk + HeaderSize) = chunk + HeaderSize
        /\ U(size + HeaderSize + 1) = size + HeaderSize + 1
    <2>1. size < chunks[chunk].size
      BY <1>1 DEF Fits
    <2>2. /\ chunk + HeaderSize \in 0 .. (Word - 1)
          /\ size + HeaderSize + 1 \in 0 .. (Word - 1)
      BY <1>1, <2>1
    <2> QED BY <2>1, <2>2, USmall
  <1>3. /\ chunks'[chunk].size <= size + HeaderSize
        /\ \A a \in DOMAIN chunks \ {chunk} : chunks'[a].size = chunks[a].size
    <2>1. CASE Splits(chunk, size)
      <3>1. /\ Split(chunk, size)[chunk].size = size
            /\ \A a \in DOMAIN chunks \ {chunk} :
                 Split(chunk, size)[a].size = chunks[a].size
        BY <1>1, <2>1, SplitTiles
      <3>2. chunks' = Split(chunk, size)
        BY <2>1 DEF MallocTake
      <3> QED BY <1>1, <3>1, <3>2
    <2>2. CASE ~Splits(chunk, size)
      <3>1. chunks' = Mark(chunks, chunk, TRUE)
        BY <2>2 DEF MallocTake
      <3>2. /\ chunks'[chunk].size = chunks[chunk].size
            /\ \A a \in DOMAIN chunks \ {chunk} : chunks'[a] = chunks[a]
        BY <1>1, <3>1 DEF Mark, Header
      <3>3. ~(chunks[chunk].size >= size + HeaderSize + 1)
        BY <1>2, <2>2 DEF Splits
      <3>4. chunks[chunk].size <= size + HeaderSize
        BY <1>1, <3>3
      <3> QED BY <3>2, <3>4
    <2> QED BY <2>1, <2>2
  <1>4. DOMAIN blocks' = DOMAIN blocks \cup {chunk + HeaderSize}
    BY <1>2 DEF MallocTake
  <1>5. ASSUME NEW p \in DOMAIN blocks
        PROVE  p - HeaderSize \in DOMAIN chunks \ {chunk}
    BY <1>1 DEF IInv, AllocatedIffLive, Live, Fits
  <1>6. (chunk + HeaderSize) - HeaderSize = chunk
    BY <1>1
  <1> QED BY <1>3, <1>4, <1>5, <1>6

(* free changes the room of the block before the freed one, if that is in  *)
(* use, and of no other.                                                   *)
LEMMA FreeRoom ==
  ASSUME IInv, NEW ptr \in DOMAIN blocks, Free(ptr), NEW p \in DOMAIN blocks'
  PROVE  LET c == p - HeaderSize
             next == chunks[c].next
         IN  /\ p \in DOMAIN blocks
             /\ IF next # NULL
                   /\ next + HeaderSize \in DOMAIN blocks \ DOMAIN blocks'
                THEN After(chunks', c) = FreeEnd(chunks, next)
                ELSE After(chunks', c) = After(chunks, c)
  <1> USE MemMgrAssumption
  <1> DEFINE c == p - HeaderSize
             freed == ptr - HeaderSize
             next == chunks[c].next
  <1>1. /\ TypeOK /\ TilesRegion /\ Allocated(chunks) = Live
        /\ HeadersBelow(chunks, end) /\ Tiles(chunks, first, end)
        /\ end \in Nat /\ end <= Word
    BY DEF IInv, AllocatedIffLive, Allocated, TypeOK, TilesRegion
  <1>2. /\ p \in DOMAIN blocks /\ p # ptr /\ p \in Nat /\ ptr \in Nat
        /\ DOMAIN blocks \ DOMAIN blocks' = {ptr}
    BY <1>1 DEF Free, TypeOK
  <1>3. /\ freed \in DOMAIN chunks /\ freed \in Nat /\ freed > 0
        /\ c \in Allocated(chunks) \ {freed}
        /\ c \in Nat /\ c \in DOMAIN chunks
    BY <1>1, <1>2 DEF Live, Allocated, HeadersBelow
  <1>4. chunks' = Freed(freed)
    <2>1. /\ chunks[freed].size \in Nat
          /\ freed + HeaderSize + chunks[freed].size <= end
      BY <1>1, <1>3 DEF HeadersBelow, MemoryChunk, Tiles, Apart, After
    <2>2. freed \in 0 .. (Word - 1)
      BY <1>1, <1>3, <2>1
    <2> QED BY <2>2, USmall DEF Free
  <1>5. (next # NULL /\ next + HeaderSize \in DOMAIN blocks \ DOMAIN blocks')
          <=> next = freed
    <2>1. next \in Nat
      BY <1>1, <1>3 DEF HeadersBelow, MemoryChunk
    <2> HIDE DEF next
    <2> QED BY <1>2, <1>3, <2>1 DEF NULL
  <1>6. After(Freed(freed), c) = IF next = freed
                                 THEN FreeEnd(chunks, freed) ELSE After(chunks, c)
    <2> HIDE DEF c, freed
    <2> QED BY <1>1, <1>3, FreedReaches DEF next
  <1> QED BY <1>2, <1>4, <1>5, <1>6

(* A client's block has the room it was given until it is freed, and more  *)
(* only by the inverted test of free (alsrc/memmgr.cpp 60-72, 84-92).      *)
THEOREM BlocksKeepRoom == Spec => RoomOfBlocks
  <1> DEFINE Same(p) ==
               LET c == p - HeaderSize
                   next == chunks[c].next
               IN  IF p \notin DOMAIN blocks
                   THEN chunks'[c].size <= size + HeaderSize
                   ELSE IF next # NULL
                           /\ next + HeaderSize \in DOMAIN blocks \ DOMAIN blocks'
                   THEN After(chunks', c) = FreeEnd(chunks, next)
                   ELSE After(chunks', c) = After(chunks, c)
  <1>1. ASSUME IInv, [Next]_vars, NEW p \in DOMAIN blocks' PROVE Same(p)
    <2> USE <1>1
    <2>1. CASE UNCHANGED <<chunks, blocks>>
      BY <2>1 DEF After
    <2>2. ASSUME NEW n \in RegionSizes, Construct(n) PROVE Same(p)
      BY <2>2 DEF Construct, IInv, Quiet, NoChunks
    <2>3. CASE Destroy
      BY <2>3 DEF Destroy, NoChunks
    <2>4. CASE MallocTake
      <3>1. IF p \in DOMAIN blocks
            THEN chunks'[p - HeaderSize].size = chunks[p - HeaderSize].size
            ELSE chunks'[p - HeaderSize].size <= size + HeaderSize
        BY <2>4, MallocTakeRoom
      <3>2. DOMAIN blocks \ DOMAIN blocks' = {}
        BY <2>4 DEF MallocTake
      <3> QED BY <3>1, <3>2 DEF After
    <2>5. ASSUME NEW ptr \in DOMAIN blocks, Free(ptr) PROVE Same(p)
      BY <2>5, FreeRoom
    <2>6. ASSUME NEW n \in Requests, MallocCall(n) PROVE Same(p)
      BY <2>1, <2>6 DEF MallocCall
    <2>7. CASE MallocSkip \/ MallocFail \/ UNCHANGED vars
      BY <2>1, <2>7 DEF MallocSkip, MallocFail, vars
    <2> HIDE DEF Same
    <2> QED BY <2>2, <2>3, <2>4, <2>5, <2>6, <2>7 DEF Next, Search
  <1>2. ASSUME IInv, IInv', [Next]_vars
        PROVE  AllocatedIffLive' /\ \A p \in DOMAIN blocks' : Same(p)
    BY <1>1, <1>2 DEF IInv
  <1> QED BY <1>2, Invariance, PTL DEF RoomOfBlocks, Spec

(* malloc hands out the lowest chunk that is large enough, and null only   *)
(* when there is none (alsrc/memmgr.cpp 53-58).                            *)
THEOREM MallocIsFirstFit == Spec => FirstFit
  <1> DEFINE Step ==
        pc = "malloc" /\ pc' = "idle" =>
          IF blocks' = blocks
          THEN \A c \in DOMAIN chunks : ~Roomy(c)
          ELSE \E c \in DOMAIN chunks :
                 /\ Roomy(c)
                 /\ \A d \in DOMAIN chunks : Roomy(d) => c <= d
                 /\ DOMAIN blocks' = DOMAIN blocks \cup {c + HeaderSize}
  <1>1. ASSUME IInv, [Next]_vars PROVE Step
    <2> SUFFICES ASSUME pc = "malloc", pc' = "idle" PROVE Step
      OBVIOUS
    <2>1. \A c \in DOMAIN chunks :
            (chunk = NULL \/ c < chunk) => ~Roomy(c)
      BY <1>1 DEF IInv, Scanned, Fits, Roomy
    <2>2. CASE MallocFail
      BY <2>1, <2>2 DEF MallocFail
    <2>3. CASE MallocTake
      <3>1. /\ chunk \in DOMAIN chunks
            /\ Roomy(chunk)
            /\ \A d \in DOMAIN chunks : Roomy(d) => chunk <= d
        BY <1>1, <2>1, <2>3, MemMgrAssumption
        DEF IInv, TypeOK, HeadersBelow, MallocTake, Fits, Roomy, NULL
      <3>2. U(chunk + HeaderSize) = chunk + HeaderSize
        <4>1. /\ chunk \in Nat /\ chunks[chunk].size \in Nat
              /\ chunk + HeaderSize + chunks[chunk].size <= end
              /\ end \in Nat /\ end <= Word /\ size \in Nat
              /\ chunks[chunk].size > size
          BY <1>1, <3>1, MemMgrAssumption
          DEF IInv, TypeOK, HeadersBelow, MemoryChunk, TilesRegion, Tiles,
              Apart, After, Roomy
        <4>2. chunk + HeaderSize \in 0 .. (Word - 1)
          BY <4>1, MemMgrAssumption
        <4> QED BY <4>2, USmall
      <3>3. chunk + HeaderSize \notin DOMAIN blocks
        <4>1. chunk \notin Live
          BY <1>1, <3>1 DEF IInv, AllocatedIffLive, Roomy
        <4>2. chunk \in Nat
          BY <1>1, <3>1, MemMgrAssumption DEF IInv, TypeOK, HeadersBelow
        <4> QED BY <4>1, <4>2, MemMgrAssumption DEF Live
      <3>4. DOMAIN blocks' = DOMAIN blocks \cup {chunk + HeaderSize}
        BY <2>3, <3>2 DEF MallocTake
      <3>5. blocks' # blocks
        BY <3>3, <3>4
      <3> QED BY <3>1, <3>4, <3>5
    <2>4. MallocFail \/ MallocTake
      BY <1>1 DEF Next, vars, Construct, Destroy, MallocCall, Search, MallocSkip, Free
    <2> QED BY <2>2, <2>3, <2>4
  <1> QED BY <1>1, Invariance, PTL DEF FirstFit, Spec

-----------------------------------------------------------------------------
(* malloc's last step grants a block that is clear of all others.          *)
LEMMA MallocTakeGrants ==
  ASSUME IInv, BlocksDisjoint', IInv', MallocTake
  PROVE  Heap!Grant(size)
  <1> USE MemMgrAssumption
  <1> DEFINE ptr == U(chunk + HeaderSize)
  <1>1. /\ blocks' = [p \in DOMAIN blocks \cup {ptr} |->
                        IF p = ptr THEN size ELSE blocks[p]]
        /\ end' = end
    BY DEF MallocTake
  <1>2. /\ DOMAIN blocks' = DOMAIN blocks \cup {ptr}
        /\ blocks'[ptr] = size
        /\ \A q \in DOMAIN blocks \ {ptr} : blocks'[q] = blocks[q]
    BY <1>1
  <1>3. /\ ptr \in Start .. end
        /\ \A q \in DOMAIN blocks : q \in Nat /\ blocks[q] \in Nat
        /\ size \in Nat
    BY <1>1, <1>2 DEF IInv, TypeOK
  <1>4. ptr \notin DOMAIN blocks
    <2>1. /\ chunk \in DOMAIN chunks /\ ~chunks[chunk].allocated
          /\ chunks[chunk].size > size
      BY DEF MallocTake, Fits, IInv, TypeOK
    <2>2. /\ chunk \in Nat /\ chunks[chunk].size \in Nat
          /\ chunk + HeaderSize + chunks[chunk].size <= end
          /\ end \in Nat /\ end <= Word
      BY <2>1 DEF IInv, TypeOK, HeadersBelow, MemoryChunk, TilesRegion, Tiles,
                  Apart, After
    <2>3. chunk + HeaderSize \in 0 .. (Word - 1)
      BY <1>3, <2>1, <2>2
    <2>4. ptr = chunk + HeaderSize
      BY <2>3, USmall
    <2>5. chunk \notin Live
      BY <2>1 DEF IInv, AllocatedIffLive
    <2> HIDE DEF ptr
    <2> QED BY <1>3, <2>2, <2>4, <2>5 DEF Live
  <1> HIDE DEF ptr
  <1>5. Heap!Fresh(ptr, size)
    <2>1. Start + HeaderSize <= ptr /\ ptr + size <= end
      BY <1>1, <1>2 DEF BlocksDisjoint
    <2>2. ASSUME NEW q \in DOMAIN blocks
          PROVE  Heap!Clear(ptr, size, q)
      <3>1. blocks'[q] = blocks[q] /\ q \in DOMAIN blocks'
            /\ ptr \in DOMAIN blocks' /\ q # ptr
        BY <1>2, <1>4
      <3>2. CASE q < ptr
        <4>1. q + blocks'[q] <= ptr - HeaderSize
          BY <3>1, <3>2 DEF BlocksDisjoint
        <4> QED BY <3>1, <4>1 DEF Heap!Clear
      <3>3. CASE ptr < q
        <4>1. ptr + blocks'[ptr] <= q - HeaderSize
          BY <3>1, <3>3 DEF BlocksDisjoint
        <4> QED BY <1>2, <4>1 DEF Heap!Clear
      <3> QED BY <1>3, <3>1, <3>2, <3>3 DEF IInv, TypeOK
    <2> QED BY <2>1, <2>2 DEF Heap!Fresh
  <1> QED BY <1>1, <1>3, <1>5 DEF Heap!Grant

(* The heap implements Allocator.tla: Construct opens a region, malloc     *)
(* grants a block when its search ends in MallocTake, free releases one    *)
(* and every other step is invisible (alsrc/memmgr.cpp 26-101).            *)
THEOREM HeapImplementsAllocator == Spec => HeapSpec
  <1> USE MemMgrAssumption
  <1>1. Init => Heap!Init
    BY DEF Init, Heap!Init, NoChunks
  <1>2. ASSUME IInv, IInv', [Next]_vars
        PROVE  [Heap!Next]_(Heap!vars)
    <2> USE <1>2
    <2>1. ASSUME NEW n \in RegionSizes, Construct(n)
          PROVE  Heap!Next
      <3>1. end = Start /\ blocks = NoChunks
        BY <2>1 DEF IInv, Quiet, Construct
      <3>2. Heap!Open(n)
        BY <2>1, <3>1 DEF Construct, Heap!Open, NoChunks
      <3> QED BY <3>2 DEF Heap!Next
    <2>2. CASE Destroy
      BY <2>2 DEF Destroy, NoChunks, Heap!Close, Heap!Next
    <2>3. ASSUME NEW n \in Requests, MallocCall(n)
          PROVE  UNCHANGED Heap!vars
      BY <2>3 DEF MallocCall, Heap!vars
    <2>4. CASE MallocSkip \/ MallocFail
      BY <2>4 DEF MallocSkip, MallocFail, Heap!vars
    <2>5. CASE MallocTake
      <3>1. BlocksDisjoint'
        BY IInvBlocksDisjoint, PTL
      <3>2. Heap!Grant(size)
        BY <2>5, <3>1, MallocTakeGrants
      <3>3. size \in Requests
        BY <2>5 DEF IInv, Quiet, MallocTake
      <3> QED BY <3>2, <3>3 DEF Heap!Next
    <2>6. ASSUME NEW ptr \in DOMAIN blocks, Free(ptr)
          PROVE  Heap!Next
      <3>1. Heap!Release(ptr)
        BY <2>6 DEF Free, Heap!Release
      <3> QED BY <3>1 DEF Heap!Next
    <2>7. CASE UNCHANGED vars
      BY <2>7 DEF vars, Heap!vars
    <2> QED BY <2>1, <2>2, <2>3, <2>4, <2>5, <2>6, <2>7 DEF Next, Search
  <1> QED BY <1>1, <1>2, Invariance, PTL DEF Spec, HeapSpec, Heap!Spec

=============================================================================
