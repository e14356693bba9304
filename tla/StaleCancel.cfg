SPECIFICATION MCSpec
CONSTANTS
  Products = {p1}
  Orders = {o1}
  Keys = {k1}
  Requests = {r1, r2}
  MaxUnits = 2
  Carts <- MCCarts
  Restocks = {2}
  MaxVersion = 3
  Instances = {"races"}
SYMMETRY Sym
INVARIANT StockReturnedExactly
