\* Two producers on the same ring, as when two cores submit to a third.
CONSTANTS
  Capacity = 4
  Producers = {p1, p2}
  Items = {a, b}
  Empty = Empty
SPECIFICATION Spec
INVARIANT SlotDiscipline
