CONSTANTS
  Width = 8
  Size = 4
  Offsets <- MCOffsets
  Lengths <- MCLengths
INIT Init
NEXT Next
INVARIANTS
  CheckedCopyInBlob
