CONSTANTS
  Width = 8
  Size = 4
  Offsets <- MCWrapOffsets
  Lengths <- MCLengths
INIT Init
NEXT Next
INVARIANT CheckedCopyInBlob
