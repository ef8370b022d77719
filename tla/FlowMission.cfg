SPECIFICATION LiveSpec
CONSTANTS
  buyer = buyer  seller = seller  driver = driver  driver2 = driver2
  Treasury = treasury  NoUser = NoUser
  Users = {buyer, seller, driver, driver2, treasury}
  Transporters = {driver, driver2}
  o1 = o1  o2 = o2  Orders = {o1}  NoOrder = NoOrder
  Payins = {i1}  NoPayin = NoPayin
  l1 = l1  Listings = {l1}
  Procs = {p1, p2}
  NoArg = NoArg  Args = {driver, driver2, d1}  Disputes = {d1}
  CallerSteps <- MCSteps
  Buyer <- MCBuyer  Seller <- MCSeller  Listing <- MCListing
  Quantity <- MCQuantity  Goods <- MCGoods  Carriage <- MCCarriage
  InitialKg <- MCOneKg
  FeePct = 3  Splits = {30}  Amounts = {97}  MaxKg = 1  Cashers = {}
  StatusWrites = {"ACCEPTED", "REJECTED", "IN_PROGRESS", "DELIVERED", "COMPLETED", "CANCELLED"}
  Handlers = {"createOrder", "acceptShipment", "moveShipment", "cancelShipment", "pickupQr", "cleanupShipments",
              "confirmDelivery", "cleanupOrders", "payOrder", "openDispute"}
  MayCrash = FALSE
INVARIANTS FlowSound
PROPERTIES OneMission PaidAfterHandover MissionCleared
CHECK_DEADLOCK FALSE
