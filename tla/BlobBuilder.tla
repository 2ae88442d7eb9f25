---------------------------- MODULE BlobBuilder ----------------------------
(***************************************************************************)
(* The writing methods of the Python BlobBuilder (src/python/core.cc,      *)
(* bind_core, lines 311-366) on one BlobWriter of Size bytes.  Addresses  *)
(* are offsets from data(), in size_t arithmetic: modulo 2^Width, Width    *)
(* scaled down from 64 (TLC's integers are 32-bit); the wrap-around of the *)
(* bounds check is the same at every width.                                *)
(*                                                                         *)
(* copy(offset, bytes) checks offset + len <= size; copy(offset, address,  *)
(* size) and __setitem__(index, value) are unchecked by design ("NB:       *)
(* unchecked").  __getitem__, size and buffer change nothing.              *)
(***************************************************************************)
EXTENDS Naturals, FiniteSets

CONSTANTS
  Width,     \* bits of size_t
  Size,      \* self->size()
  Offsets,   \* offsets and indices a caller passes
  Lengths    \* lengths of the bytes or of the source buffer

Word == 2 ^ Width
ASSUME Size \in 1 .. Word - 1 /\ Offsets \subseteq 0 .. Word - 1
ASSUME Lengths \subseteq 0 .. Word - 1

\* Unsigned size_t addition.
AddSizeT(a, b) == (a + b) % Word

\* The addresses memcpy(data() + offset, src, n) writes.
Span(offset, n) == {AddSizeT(offset, k) : k \in 0 .. n - 1}

Buffer == 0 .. Size - 1

VARIABLES
  copied,   \* addresses written by the checked copy(offset, bytes)
  raw       \* addresses written by copy(offset, address, size) and __setitem__

vars == <<copied, raw>>

Init == copied = {} /\ raw = {}

\* __setitem__(index, value): self->data()[index] = value, unchecked.
SetItem(index) ==
  /\ raw' = raw \cup {index}
  /\ UNCHANGED copied

\* copy(offset, address, size): memcpy of size bytes, unchecked.
CopyAddress(offset, n) ==
  /\ raw' = raw \cup Span(offset, n)
  /\ UNCHANGED copied

\* Mutation: the check compares the offset alone with the size.
CopyBytesOffsetOnly(offset, n) ==
  /\ offset <= Size
  /\ copied' = copied \cup Span(offset, n)
  /\ UNCHANGED raw

\* copy(offset, bytes): VINEYARD_ASSERT(offset + ss.size() <= self->size())
\* raises (nothing written) unless the size_t sum is within the size; then
\* memcpy writes the bytes.
CopyBytes(offset, n) ==
  /\ AddSizeT(offset, n) <= Size
  /\ copied' = copied \cup Span(offset, n)
  /\ UNCHANGED raw

Next ==
  \E o \in Offsets, n \in Lengths :
    SetItem(o) \/ CopyAddress(o, n) \/ CopyBytes(o, n)

Spec == Init /\ [][Next]_vars

-----------------------------------------------------------------------------
\* The checked copy never writes outside the blob: whatever offsets and
\* byte strings Python passes, the assertion at line 357 keeps memcpy at
\* line 358 within data()[0 .. size-1].
CheckedCopyInBlob == copied \subseteq Buffer
=============================================================================
