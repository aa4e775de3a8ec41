SPECIFICATION Spec
CONSTANTS
  Entries <- ThreeEntries
  encode_entry <- Encode
  decode_entry <- Decode
  Merge <- Merged
  Unreadable = Unreadable
  MaxSize = 3
  MaxCrashes = 2
INVARIANTS
  SweepsMeetAll
PROPERTIES
  ImplementsLog
