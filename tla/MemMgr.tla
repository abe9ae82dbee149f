------------------------------- MODULE MemMgr -------------------------------
(***************************************************************************)
(* The heap of alsrc/memmgr.cpp: a region of memory tiled by chunks, each  *)
(* a header (MemoryChunk, alinc/memmgr.h) followed by its bytes, the       *)
(* headers linked in both directions.  malloc walks the list for the first *)
(* chunk that is large enough and splits it; free unlinks headers.         *)
(*                                                                         *)
(* An address is a natural number and the memory that holds a header on    *)
(* the list is the function chunks from the header's address.  Bytes that  *)
(* are no header (the clients' data, headers that were unlinked) are left  *)
(* out: the code reads a header only through the list or through a pointer *)
(* that a client returns.  size_t is 32 bits wide; the model computes      *)
(* modulo Word.                                                            *)
(***************************************************************************)
EXTENDS Integers

CONSTANTS
  Start,        \* the constructor's argument start
  RegionSizes,  \* the values of the constructor's argument size
  Requests,     \* the values of malloc's argument size
  HeaderSize,   \* sizeof(MemoryChunk)
  Word          \* 2^32, the number of values of size_t

ASSUME MemMgrAssumption ==
  /\ Start \in Nat \ {0}
  /\ HeaderSize \in Nat \ {0}
  /\ Word \in Nat /\ Start < Word
  /\ RegionSizes \subseteq Nat
  /\ \A size \in RegionSizes : Start + size <= Word
  /\ Requests \subseteq 0 .. (Word - 1)

VARIABLES
  first,         \* MemMgr::first
  chunks,        \* address of a header on the list |-> the MemoryChunk there
  activeMemMgr,  \* TRUE iff MemMgr::activeMemMgr points to this object
  pc,            \* "none" before the constructor and after the destructor,
                 \* "idle" between calls, "malloc" in malloc's search loop
  size,          \* malloc's argument size, while pc = "malloc"
  chunk,         \* malloc's loop variable chunk, while pc = "malloc"
  end,           \* history: the first address after the region
  blocks         \* history: pointer a client holds |-> size it asked for

vars == <<first, chunks, activeMemMgr, pc, size, chunk, end, blocks>>

NULL == 0

(* size_t arithmetic.                                                      *)
U(n) == n % Word

NoChunks == [a \in {} |-> 0]

Header(next, prev, allocated, bytes) ==
  [next |-> next, prev |-> prev, allocated |-> allocated, size |-> bytes]

Mark(m, c, allocated) ==
  [a \in DOMAIN m |->
     IF a = c THEN Header(m[c].next, m[c].prev, allocated, m[c].size) ELSE m[a]]

-----------------------------------------------------------------------------
Init ==
  /\ first = NULL
  /\ chunks = NoChunks
  /\ activeMemMgr = FALSE
  /\ pc = "none"
  /\ size = 0
  /\ chunk = NULL
  /\ end = Start
  /\ blocks = NoChunks

(* MemMgr::MemMgr(start, size).  A region that cannot hold one header      *)
(* leaves the list empty.                                                  *)
Construct(regionSize) ==
  /\ pc = "none"
  /\ pc' = "idle"
  /\ activeMemMgr' = TRUE
  /\ end' = Start + regionSize
  /\ IF regionSize < HeaderSize
     THEN UNCHANGED <<first, chunks>>
     ELSE /\ first' = Start
          /\ chunks' = [a \in {Start} |->
                          Header(NULL, NULL, FALSE, regionSize - HeaderSize)]
  /\ UNCHANGED <<size, chunk, blocks>>

(* MemMgr::~MemMgr().  The blocks die with the heap.                       *)
Destroy ==
  /\ pc = "idle"
  /\ pc' = "none"
  /\ activeMemMgr' = FALSE
  /\ first' = NULL
  /\ chunks' = NoChunks
  /\ end' = Start
  /\ blocks' = NoChunks
  /\ UNCHANGED <<size, chunk>>

-----------------------------------------------------------------------------
(* malloc: the call, the iterations of its search loop, and its two ends.  *)

MallocCall(n) ==
  /\ pc = "idle"
  /\ pc' = "malloc"
  /\ size' = n
  /\ chunk' = first
  /\ UNCHANGED <<first, chunks, activeMemMgr, end, blocks>>

(* Faulty variants of the definition that follows each are used to test    *)
(* that the properties below can fail; their names start with Bad.         *)
BadFitsAnySize(c, n) == ~chunks[c].allocated

BadFitsWithHeader(c, n) ==
  chunks[c].size > n + HeaderSize /\ ~chunks[c].allocated

Fits(c, n) == chunks[c].size > n /\ ~chunks[c].allocated

(* The loop starts over instead of moving on.                              *)
BadMallocSkipToFirst ==
  /\ pc = "malloc"
  /\ chunk # NULL
  /\ ~Fits(chunk, size)
  /\ chunk' = first
  /\ UNCHANGED <<first, chunks, activeMemMgr, pc, size, end, blocks>>

MallocSkip ==
  /\ pc = "malloc"
  /\ chunk # NULL
  /\ ~Fits(chunk, size)
  /\ chunk' = chunks[chunk].next
  /\ UNCHANGED <<first, chunks, activeMemMgr, pc, size, end, blocks>>

MallocFail ==
  /\ pc = "malloc"
  /\ chunk = NULL
  /\ pc' = "idle"
  /\ size' = 0
  /\ UNCHANGED <<first, chunks, activeMemMgr, chunk, end, blocks>>

(* The chunk is cut in two when a header and a byte are left over.         *)
Splits(c, n) == chunks[c].size >= U(n + HeaderSize + 1)

(* The remainder's size still counts the bytes of its own header.          *)
BadSplitKeepsHeaderBytes(c, n) ==
  LET temp == U(c + HeaderSize + n)
      after == chunks[c].next
  IN  [a \in DOMAIN chunks \cup {temp} |->
         IF a = temp
           THEN Header(after, c, FALSE, U(chunks[c].size - n))
         ELSE IF a = c
           THEN Header(temp, chunks[c].prev, TRUE, n)
         ELSE IF a = after
           THEN Header(chunks[a].next, temp, chunks[a].allocated, chunks[a].size)
         ELSE chunks[a]]

Split(c, n) ==
  LET temp == U(c + HeaderSize + n)
      after == chunks[c].next
  IN  [a \in DOMAIN chunks \cup {temp} |->
         IF a = temp
           THEN Header(after, c, FALSE, U(chunks[c].size - n - HeaderSize))
         ELSE IF a = c
           THEN Header(temp, chunks[c].prev, TRUE, n)
         ELSE IF a = after
           THEN Header(chunks[a].next, temp, chunks[a].allocated, chunks[a].size)
         ELSE chunks[a]]

MallocTake ==
  /\ pc = "malloc"
  /\ chunk # NULL
  /\ Fits(chunk, size)
  /\ chunks' = IF Splits(chunk, size)
               THEN Split(chunk, size)
               ELSE Mark(chunks, chunk, TRUE)
  /\ LET ptr == U(chunk + HeaderSize)
     IN  blocks' = [p \in DOMAIN blocks \cup {ptr} |->
                      IF p = ptr THEN size ELSE blocks[p]]
  /\ pc' = "idle"
  /\ size' = 0
  /\ chunk' = NULL
  /\ UNCHANGED <<first, activeMemMgr, end>>

-----------------------------------------------------------------------------
BadMergeOneWay(m, into, c) ==
  [a \in DOMAIN m \ {c} |->
     IF a = into
       THEN Header(m[c].next, m[into].prev, m[into].allocated,
                   U(m[into].size + m[c].size + HeaderSize))
     ELSE m[a]]

(* Both halves of free unlink a header c and give its bytes to the chunk   *)
(* into: first c's predecessor takes c, then c's successor is taken.       *)
Merge(m, into, c) ==
  [a \in DOMAIN m \ {c} |->
     IF a = into
       THEN Header(m[c].next, m[into].prev, m[into].allocated,
                   U(m[into].size + m[c].size + HeaderSize))
     ELSE IF a = m[c].next
       THEN Header(m[a].next, into, m[a].allocated, m[a].size)
     ELSE m[a]]

(* The first half: an *allocated* predecessor takes the freed chunk (the   *)
(* code tests chunk->prev->allocated, not its negation).                   *)
TakenByPrev(m, c) == m[c].prev # NULL /\ m[m[c].prev].allocated

BadTakeNextAllocated(m, c) ==
  IF m[c].next # NULL THEN Merge(m, c, m[c].next) ELSE m

(* The second half: the chunk, or the predecessor that took it, takes a    *)
(* free successor.                                                         *)
TakeNext(m, c) ==
  IF m[c].next # NULL /\ ~m[m[c].next].allocated
  THEN Merge(m, c, m[c].next)
  ELSE m

Freed(c) ==
  LET m == Mark(chunks, c, FALSE)
  IN  IF TakenByPrev(m, c)
      THEN TakeNext(Merge(m, m[c].prev, c), m[c].prev)
      ELSE TakeNext(m, c)

(* A client frees a pointer it got from malloc and still holds.            *)
Free(ptr) ==
  /\ pc = "idle"
  /\ chunks' = Freed(U(ptr - HeaderSize))
  /\ blocks' = [p \in DOMAIN blocks \ {ptr} |-> blocks[p]]
  /\ UNCHANGED <<first, activeMemMgr, pc, size, chunk, end>>

-----------------------------------------------------------------------------
Search == MallocSkip \/ MallocFail \/ MallocTake

Next ==
  \/ \E n \in RegionSizes : Construct(n)
  \/ Destroy
  \/ \E n \in Requests : MallocCall(n)
  \/ Search
  \/ \E ptr \in DOMAIN blocks : Free(ptr)

Spec == Init /\ [][Next]_vars

(* malloc is a loop without calls: once entered, it keeps running.         *)
FairSpec == Spec /\ WF_vars(Search)

-----------------------------------------------------------------------------
Live == {ptr - HeaderSize : ptr \in DOMAIN blocks}

MemoryChunk ==
  [next : Nat, prev : Nat, allocated : BOOLEAN, size : Nat]

(* m maps addresses below e to headers.                                    *)
HeadersBelow(m, e) ==
  /\ DOMAIN m \subseteq Start .. e
  /\ m \in [DOMAIN m -> MemoryChunk]

(* Every variable has its type, and malloc's loop variable points to a     *)
(* header whenever it is not null.                                         *)
TypeOK ==
  /\ end \in Start .. Word
  /\ HeadersBelow(chunks, end)
  /\ DOMAIN blocks \subseteq Start .. end
  /\ blocks \in [DOMAIN blocks -> Nat]
  /\ first \in {NULL, Start}
  /\ activeMemMgr \in BOOLEAN
  /\ pc \in {"none", "idle", "malloc"}
  /\ size \in 0 .. (Word - 1)
  /\ chunk \in {NULL} \cup DOMAIN chunks

(* The address after the bytes of chunk c.                                 *)
After(m, c) == c + HeaderSize + m[c].size

LinkedForward(m, e) ==
  \A c \in DOMAIN m :
    IF m[c].next = NULL
    THEN After(m, c) = e
    ELSE /\ m[c].next \in DOMAIN m
         /\ After(m, c) = m[c].next
         /\ m[m[c].next].prev = c

LinkedBack(m, f) ==
  \A c \in DOMAIN m :
    IF c = f
    THEN m[c].prev = NULL
    ELSE m[c].prev \in DOMAIN m /\ m[m[c].prev].next = c

Apart(m, e) ==
  /\ \A c \in DOMAIN m : After(m, c) <= e
  /\ \A c, d \in DOMAIN m : c < d => After(m, c) <= d

(* The chunks of m tile the region from f to e, unless f is null.          *)
Tiles(m, f, e) ==
  /\ DOMAIN m = {} <=> f = NULL
  /\ f # NULL => f \in DOMAIN m
  /\ LinkedForward(m, e)
  /\ LinkedBack(m, f)
  /\ Apart(m, e)

(* The chunks tile the region: the first starts at Start, each chunk's     *)
(* bytes end where its successor's header starts, the last ends with the   *)
(* region, prev undoes next, and no chunk reaches into another.  Split and *)
(* both merges of free must keep four link fields and a size in step.      *)
TilesRegion == Tiles(chunks, first, end)

(* The allocated chunks are those whose block a client holds, and each has *)
(* at least the bytes that the client asked for: none is freed behind its  *)
(* owner's back, and none stays allocated when its own block was freed.    *)
(* It may have more bytes than were asked for: see RoomOfBlocks.           *)
AllocatedIffLive ==
  /\ {c \in DOMAIN chunks : chunks[c].allocated} = Live
  /\ \A ptr \in DOMAIN blocks :
       ptr - HeaderSize \in DOMAIN chunks
         => chunks[ptr - HeaderSize].size >= blocks[ptr]

(* Blocks that clients hold lie in the region and never overlap, nor does  *)
(* a block reach into the header of another.                               *)
BlocksDisjoint ==
  /\ \A p \in DOMAIN blocks :
       Start + HeaderSize <= p /\ p + blocks[p] <= end
  /\ \A p, q \in DOMAIN blocks :
       p < q => p + blocks[p] <= q - HeaderSize

(* What malloc's loop has established when it looks at chunk: no chunk     *)
(* below it is good enough (no chunk at all, once chunk is null).          *)
Scanned ==
  pc = "malloc" =>
    \A c \in DOMAIN chunks :
      (chunk = NULL \/ c < chunk) => ~Fits(c, size)

(* malloc's variables hold a request while it runs and nothing afterwards; *)
(* before construction there is no region.                                 *)
Quiet ==
  /\ IF pc = "malloc" THEN size \in Requests ELSE chunk = NULL
  /\ pc = "none" => first = NULL /\ end = Start /\ blocks = NoChunks

(* The inductive invariant.                                                *)
IInv ==
  /\ TypeOK
  /\ TilesRegion
  /\ AllocatedIffLive
  /\ Scanned
  /\ Quiet

-----------------------------------------------------------------------------
(* Where the free chunk behind c ends, or c itself if there is none.       *)
FreeEnd(m, c) ==
  LET next == m[c].next
  IN  IF next # NULL /\ ~m[next].allocated THEN After(m, next)
                                           ELSE After(m, c)

(* How much room a client's block has, from malloc to free.  malloc gives  *)
(* it what was asked for and at most a header more, and no call changes    *)
(* that, except that free tests for an allocated predecessor where one     *)
(* would expect a free one: when the block directly behind is freed, its   *)
(* chunk, and a free chunk behind that, go to the block that is still in   *)
(* use.  These bytes are out of malloc's reach until that block is freed.  *)
RoomOfBlocks ==
  [][ /\ AllocatedIffLive'
      /\ \A p \in DOMAIN blocks' :
           LET c == p - HeaderSize
               next == chunks[c].next
           IN  IF p \notin DOMAIN blocks
               THEN chunks'[c].size <= size + HeaderSize
               ELSE IF next # NULL
                       /\ next + HeaderSize \in DOMAIN blocks \ DOMAIN blocks'
               THEN After(chunks', c) = FreeEnd(chunks, next)
               ELSE After(chunks', c) = After(chunks, c) ]_vars

Roomy(c) == ~chunks[c].allocated /\ chunks[c].size > size

(* malloc returns null only when no free chunk is larger than the request, *)
(* and otherwise hands out the lowest one that is: no step of its loop     *)
(* passes a chunk over.                                                    *)
FirstFit ==
  [][ pc = "malloc" /\ pc' = "idle" =>
        IF blocks' = blocks
        THEN \A c \in DOMAIN chunks : ~Roomy(c)
        ELSE \E c \in DOMAIN chunks :
               /\ Roomy(c)
               /\ \A d \in DOMAIN chunks : Roomy(d) => c <= d
               /\ DOMAIN blocks' = DOMAIN blocks \cup {c + HeaderSize} ]_vars

(* malloc's loop comes to an end: the list it walks never becomes circular *)
(* however headers were split and unlinked before.                         *)
MallocReturns == pc = "malloc" ~> pc = "idle"

(* The heap keeps the promise of Allocator.tla.                            *)
Heap == INSTANCE Allocator WITH Gap <- HeaderSize

HeapSpec == Heap!Spec

=============================================================================
