SPECIFICATION Spec
CONSTANTS
  Clients = {c1, c2}
  Items = {1, 2}
  NoClient = none
  Malformed = 0
  Docs <- MCDocs
  Quantities <- MCQuantities
  MaxStock = 4
PROPERTIES RemovalSubtracts
