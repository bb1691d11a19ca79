SPECIFICATION Spec
CONSTANTS
  Lengths = {1}
  Payloads = {0, 1, 120}
  MaxOptional = 2
  Cuts = {"timeout"}
INVARIANTS InSync
