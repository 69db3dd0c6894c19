SPECIFICATION Spec
CONSTANTS
  Readers = {r1, r2, r3}
  TryReaders = {}
  Writers = {w1}
  Nobody = Nobody
INVARIANTS
  WriterAlone
