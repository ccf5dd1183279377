SPECIFICATION Spec
CONSTANTS
  Clients = {c1, c2, c3}
  Items = {1, 2}
  NoClient = none
  Malformed = 0
  Docs <- MCDocs
  Quantities <- MCQuantities
  MaxStock = 6
INVARIANTS TypeOK StockIsSum
PROPERTIES RemovalBounded
