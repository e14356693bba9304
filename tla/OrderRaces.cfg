SPECIFICATION MCSpec
CONSTANTS
  Products = {p1}
  Orders = {o1, o2}
  Keys = {k1, k2}
  Requests = {r1, r2}
  MaxUnits = 2
  Carts <- MCCarts
  Restocks = {2}
  MaxVersion = 3
  Instances = {"races", "contention"}
SYMMETRY Sym
INVARIANTS LedgerExact SaleOrderConsistent SaleMatchesFreshOrder FormFresh OneUnitEach
PROPERTIES LegalTransitions NoBlindEdit
