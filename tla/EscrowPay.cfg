SPECIFICATION LedgerSpec
CONSTANTS
  buyer = buyer  seller = seller  driver = driver
  Treasury = treasury  NoUser = NoUser
  Users = {buyer, seller, driver, treasury}
  Transporters = {}
  o1 = o1  o2 = o2  Orders = {o1}  NoOrder = NoOrder
  Payins = {i1, i2}  NoPayin = NoPayin
  l1 = l1  Listings = {l1}
  Procs = {p1, p2}
  NoArg = NoArg  Args = {}
  CallerSteps = {"idle"}
  Buyer <- MCBuyer  Seller <- MCSeller  Listing <- MCListing
  Quantity <- MCQuantity  Goods <- MCGoods  Carriage <- MCNoCarriage
  InitialKg <- MCInitialKg
  FeePct = 3  Splits = {30}  Amounts = {97}  MaxKg = 1  Cashers = {seller}
  StatusWrites = {"SENT", "COMPLETED", "CANCELLED"}
INVARIANTS LedgerSound LedgerKept
CHECK_DEADLOCK FALSE
SYMMETRY MCSymmetry
