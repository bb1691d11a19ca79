SPECIFICATION Spec
CONSTANTS
  Lengths = {1, 124, 125, 16380, 16381, 65535}
  Payloads = {0, 1, 120}
  MaxOptional = 2
  Cuts = {}
INVARIANTS FrameExact LengthDecoded InSync
