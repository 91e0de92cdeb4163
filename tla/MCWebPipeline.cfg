SPECIFICATION Spec
CONSTANTS
  Address = {a1}
  NoAddress = noAddress
  Quote = {q1, q2}
  NoQuote = noQuote
  Slot = {s1, s2}
  MaxSeals = 2
  MaxCount = 1
  MaxResets = 1
SYMMETRY Symmetry
INVARIANTS SessionSealsToCheckedQuote CiphertextFollowsAnchor CiphertextDropped HashAnchoredOnce
