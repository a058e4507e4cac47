SPECIFICATION Spec
CONSTANTS
  Threads = {"p1", "p2"}
  Texts <- ShortTexts
  Nowhere = Nowhere
INVARIANTS
  StateIsOwn
  ResultIsOwn
