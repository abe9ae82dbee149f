----------------------------- MODULE Allocator -----------------------------
(***************************************************************************)
(* What a heap promises its clients, without saying how it keeps the       *)
(* promise: blocks that are in use lie inside the region and never overlap *)
(* one another, and neither do the Gap bytes directly below each of them   *)
(* (the bytes an implementation may use for its own bookkeeping).          *)
(*                                                                         *)
(* MemMgr.tla, the model of alsrc/memmgr.cpp, implements this module.      *)
(***************************************************************************)
EXTENDS Integers

CONSTANTS
  Start,        \* the first address of the region
  RegionSizes,  \* the sizes a region may have
  Requests,     \* the sizes a client may ask for
  Gap           \* bytes below a block that belong to that block alone

VARIABLES
  end,          \* the first address after the region, Start if there is none
  blocks        \* a function: address of a block in use |-> size asked for

vars == <<end, blocks>>

(* The block of n bytes at p, with the Gap bytes below it, stays clear of  *)
(* the block in use at q.                                                  *)
Clear(p, n, q) ==
  \/ p + n <= q - Gap
  \/ q + blocks[q] <= p - Gap

Fresh(p, n) ==
  /\ Start + Gap <= p /\ p + n <= end
  /\ \A q \in DOMAIN blocks : Clear(p, n, q)

-----------------------------------------------------------------------------
Init ==
  /\ end = Start
  /\ blocks = [p \in {} |-> 0]

Open(size) ==
  /\ end = Start
  /\ blocks = [p \in {} |-> 0]
  /\ end' = Start + size
  /\ UNCHANGED blocks

Grant(n) ==
  \E p \in Start .. end :
    /\ Fresh(p, n)
    /\ blocks' = [q \in DOMAIN blocks \cup {p} |->
                    IF q = p THEN n ELSE blocks[q]]
    /\ UNCHANGED end

Release(p) ==
  /\ blocks' = [q \in DOMAIN blocks \ {p} |-> blocks[q]]
  /\ UNCHANGED end

(* The region is given up, and every block in it.                          *)
Close ==
  /\ end' = Start
  /\ blocks' = [p \in {} |-> 0]

Next ==
  \/ \E size \in RegionSizes : Open(size)
  \/ \E n \in Requests : Grant(n)
  \/ \E p \in DOMAIN blocks : Release(p)
  \/ Close

Spec == Init /\ [][Next]_vars
=============================================================================
