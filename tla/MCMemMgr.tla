------------------------------ MODULE MCMemMgr ------------------------------
(***************************************************************************)
(* Small instances of MemMgr.tla.  A header takes two bytes and size_t has *)
(* thirty-two values, so that the largest region holds four blocks of one  *)
(* byte or two of three, and the largest requests make                     *)
(* size + sizeof(MemoryChunk) + 1 wrap around.                             *)
(***************************************************************************)
EXTENDS MemMgr

(* Too small for a header, a header and no byte, one byte, and room for    *)
(* several blocks.                                                         *)
MCRegionSizes == {1, 2, 3, 14}

MCRequests == {0, 1, 3, 29, 31}

=============================================================================
