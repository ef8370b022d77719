SPECIFICATION Spec
CONSTANTS
  Tokens = {1, 2, 3}  Calls = {x1, x2}  PinChanges = 1
  Tries = {x1, x2}  Codes = {1, 2}  MaxAttempts = 3
  Accounts = {1, 2}  Phones = {1, 2}  Roles = {"BUYER", "TRANSPORTER"}  Posts = {x1, x2}
  Entries = {1, 2, 3}  Edits = {x1, x2}
  Parcels = {1, 2}  Crops = {1, 2}  Areas = {1, 2}  Beds = {1}  Names = {"n1"}  Growers = {x1, x2}
  Wares = {"w1"}  Stocks = {1, 2}  Prices = {1, 2}  Helpings = {1, 2}  Shoppers = {x1, x2}  MaxEdits = 2
  Carriers = {"c1", "c2"}  Loads = {1, 2}  Tariffs = {1, 2}  Least = 2  Missions = {1}  Orderers = {o1}
  NoCarrier = "none"  MaxChanges = 1
  Targets = {"t1", "t2"}  Owner <- OwnersOf  Senders = {"a", "b"}  Files = {1, 2}  Uploads = {x1, x2}
  Papers = "kyc"
INVARIANTS  AccountSafety BuyerSafety OwnerSafety
PROPERTIES NoPromotion
SYMMETRY Interchangeable
CHECK_DEADLOCK FALSE
