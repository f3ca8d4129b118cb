\* One producer, a ring of four slots (room for three items), three items.
CONSTANTS
  Capacity = 4
  Producers = {p1}
  Items = {a, b, c}
  Empty = Empty
SPECIFICATION Spec
INVARIANTS TypeOK SlotDiscipline NoLostObject IndexOrder
PROPERTY FifoSpec
SYMMETRY ItemSymmetry
