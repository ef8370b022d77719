SPECIFICATION SaleSpec
CONSTANTS
  Listings = {1, 2}  Pubs = {1}  Weights = {1, 2}  Lots = {2}  Declared = {2}
  Price = 5  Rate = 10  Advance = 6  Funds = 12  Staff = {d1, d2}
INVARIANTS SharesOfSales
CHECK_DEADLOCK FALSE
