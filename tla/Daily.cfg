SPECIFICATION Spec
CONSTANTS
  Folk = {a, b, c}  Threads = {1, 2}  Notes = {1, 2}  Boxes = {x1, x2}
  Talks <- TwoTalks  Sockets = {s1, s2}  Words = {w1}  Frames = {x1, x2}
  Readers = {"a", "b"}  Devices = {"t1", "t2"}  Bells = {1}  NoOne = "nobody"
  ViewerRoles = {"ADMIN", "TRANSPORTER", "COOPERATIVE", "FARMER"}  Rows = 2
  Numbers = {1, 2}  Views = {x1, x2}
  Rounds = {1}  Trucks = {1, 2}  Plates = {"p1", "p2"}  Planners = {x1, x2}  NoTruck = 0
  Chats = {1, 2}  Askers = {x1, x2}  MaxTurns = 2  Anew = 0
  Trips = {t1, t2}  Bought = {"b1"}  Reviews = {1, 2}  Marks = {1, 5}  Raters = {x1, x2}
  Forecasts = {p1}  LastDay = 9  Harvests = {6, 13}  NoPass = none
INVARIANTS TalkSafety ReachSafety CarriedSafety AssistantSafety
SYMMETRY Interchangeable
CHECK_DEADLOCK FALSE
