SPECIFICATION Spec
CONSTANTS
  Offers = {1, 2}  Makers = {m1, m2}  Terms = {1, 2}  Sources <- Market
  Answers = {"ACCEPTED", "COUNTER_OFFER", "CANCELLED"}  Tabs = {d1, d2}
  Listings = {1, 2}  Pubs = {1, 2}  Weights = {1, 2}  Lots = {2}  Declared = {2}
  Price = 5  Rate = 10  Advance = 6  Funds = 6  Staff = {d1, d2}
  Farmers = {f1}  Coops = {m1, m2}  Letters = {1, 2}  Hands = {d1, d2}
  People = {n0, n1, n2}  President = n0  Members = {n1, n2}  Neighbours = {n0, n2}
  Independents = {n1}  Kilos = {1, 2}  Asked = 3  Visits = {v1, v2}
INVARIANTS NegoSafety SaleSafety MemberSafety SolliSafety
PROPERTIES DecidedStays
SYMMETRY Interchangeable
CHECK_DEADLOCK FALSE
