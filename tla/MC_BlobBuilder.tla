--------------------------- MODULE MC_BlobBuilder ---------------------------
(* A 4-byte blob in 8-bit size_t.  Small offsets around the end of the     *)
(* blob, and the same with offsets near 2^Width, where offset + len wraps. *)
EXTENDS BlobBuilder

MCOffsets == {0, 1, 3, 4, 5}
MCWrapOffsets == MCOffsets \cup {Word - 2, Word - 1}
MCLengths == {0, 1, 2, 4}
=============================================================================
