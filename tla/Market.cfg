SPECIFICATION Spec
CONSTANTS
  Resas = {r1, r2}  Kg <- OneKilo  Sizes = {1, 3}
  Buyers = {b1, b2}
  Deposit = 1  Balance = 9
  StartScore = 42  MinScore = 40  Penalties = {3}
  RefundPolicy = FALSE
  Jobs <- EveryJob  Passes = 4  Never = 0
  Goods = {g1}  Products = {"p1", "p2", "p3"}  Called <- NamesOfTwo  Sheets <- Leaflets
  Farmers = {"f"}  Coops = {"c", "d"}  LotRows = {"l1"}  Houses = {"h1"}  Clients = {x1}  Lifetime = 2
  Nobody = "nobody"  Gone = "gone"
  Lists <- EveryList  Limits = {1, 2}  Owners = {"me", "you"}  Reader = "me"
  MaxRows = 3  MaxMoves = 2  Names = {1, 2}
INVARIANTS  CronsSafety GoodsSafety PagesSafety
 
CHECK_DEADLOCK FALSE
