SPECIFICATION LiveSpec
CONSTANTS
  buyer = buyer  seller = seller  driver = driver  driver2 = driver2
  Treasury = treasury  NoUser = NoUser
  Users = {buyer, seller, driver, treasury}
  Transporters = {driver}
  o1 = o1  o2 = o2  Orders = {o1}  NoOrder = NoOrder
  Payins = {i1}  NoPayin = NoPayin
  l1 = l1  Listings = {l1}
  Procs = {p1, p2, p3}
  NoArg = NoArg  Args = {driver, d1}  Disputes = {d1}
  CallerSteps <- MCSteps
  Buyer <- MCBuyer  Seller <- MCSeller  Listing <- MCListing
  Quantity <- MCQuantity  Goods <- MCGoods  Carriage <- MCNoCarriage
  InitialKg <- MCOneKg
  FeePct = 3  Splits = {30}  Amounts = {97}  MaxKg = 1  Cashers = {}
  StatusWrites = {"ACCEPTED", "REJECTED", "IN_PROGRESS", "DELIVERED", "COMPLETED", "CANCELLED"}
  Handlers = {"createOrder", "acceptNegotiation", "payOrder", "updateStatus", "confirmDelivery", "cleanupOrders"}
  MayCrash = FALSE
INVARIANTS OrdersSound
PROPERTIES OrphanCleared
CHECK_DEADLOCK FALSE
