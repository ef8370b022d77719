---------------------------- MODULE Collections ----------------------------
(***************************************************************************)
(* The logistics of a cooperative: its vehicles and the collections it     *)
(* plans at its farmers, CoopVehiclesService and CoopCollectionsService.   *)
(* Each operation reads, checks, then writes by id, without a transaction. *)
(***************************************************************************)
EXTENDS Naturals, FiniteSets

CONSTANTS
  Rounds,     \* 1..n: coop_collections, in the order of their creation
  Trucks,     \* 1..n: coop_vehicles, in the order of their creation
  Plates,     \* immatriculations, unique
  Planners,   \* requests in flight
  NoTruck     \* a collection without a vehicle

ASSUME CollectionsAssumption ==
  0 \notin Rounds /\ NoTruck \notin Trucks /\ "none" \notin Plates

VARIABLES
  round,      \* collections: status, vehicle, completed_at, the farmer told of its end
  truck,      \* vehicles: immatriculation, is_active
  plan,       \* the request in each hand
  entangled   \* history: per collection, whether two requests about it overlapped

collectionsVars == <<round, truck, plan, entangled>>

NoRound == [status |-> "NONE", truck |-> NoTruck, dated |-> FALSE, told |-> FALSE]
NoVehicle == [plate |-> "none", active |-> FALSE]
NoPlan == [do |-> "idle", of |-> 0, status |-> "NONE", truck |-> NoTruck]

Statuses == {"PLANNED", "IN_PROGRESS", "COMPLETED", "CANCELLED"}
Closed == {"COMPLETED", "CANCELLED"}

RoundsMade == {c \in Rounds : round[c].status # "NONE"}
TrucksMade == {v \in Trucks : truck[v].plate # "none"}
ActiveTrucks == {v \in TrucksMade : truck[v].active}
PlanFree(r) == plan[r].do = "idle"
PlanEnds(r) == plan' = [plan EXCEPT ![r] = NoPlan]
Planned(r, do, c, status, v) ==
  plan' = [plan EXCEPT ![r] = [do |-> do, of |-> c, status |-> status, truck |-> v]]
Entangles(c) ==
  entangled' = IF \E q \in Planners : plan[q].of = c THEN entangled \cup {c} ELSE entangled

-----------------------------------------------------------------------------
(* Vehicles                                                                *)

\* Mutant: the plate of a removed vehicle is free again
PlateTakenActive(p) == \E v \in ActiveTrucks : truck[v].plate = p

PlateTaken(p) == \E v \in TrucksMade : truck[v].plate = p

\* create: the unique index refuses a plate that is taken
CreateTruck(v, p) ==
  /\ v \notin TrucksMade /\ \A w \in Trucks : w < v => w \in TrucksMade
  /\ ~PlateTaken(p)
  /\ truck' = [truck EXCEPT ![v] = [plate |-> p, active |-> TRUE]]
  /\ UNCHANGED <<round, plan, entangled>>

\* update: another plate, or is_active
UpdateTruck(v, p, active) ==
  /\ v \in TrucksMade /\ (truck[v].plate = p \/ ~PlateTaken(p))
  /\ truck' = [truck EXCEPT ![v] = [plate |-> p, active |-> active]]
  /\ UNCHANGED <<round, plan, entangled>>

\* remove switches it off and leaves the collections it is planned for
RemoveTruck(v) ==
  /\ v \in TrucksMade
  /\ truck' = [truck EXCEPT ![v].active = FALSE]
  /\ UNCHANGED <<round, plan, entangled>>

-----------------------------------------------------------------------------
(* Collections                                                             *)

MayUse(v) == v \in ActiveTrucks \cup {NoTruck}

\* create: the vehicle is looked up, then the collection inserted, and the farmer told
BeginRound(r, v) ==
  /\ PlanFree(r) /\ MayUse(v)
  /\ Planned(r, "create", 0, "PLANNED", v)
  /\ UNCHANGED <<round, truck, entangled>>

InsertRound(r, c) ==
  /\ plan[r].do = "create"
  /\ c \notin RoundsMade /\ \A d \in Rounds : d < c => d \in RoundsMade
  /\ round' = [round EXCEPT ![c] = [NoRound EXCEPT !.status = "PLANNED", !.truck = plan[r].truck]]
  /\ PlanEnds(r)
  /\ UNCHANGED <<truck, entangled>>

StillOpen(c) == round[c].status \notin Closed

\* update: any status, and another vehicle
BeginChange(r, c, status, v) ==
  /\ PlanFree(r) /\ c \in RoundsMade /\ StillOpen(c)
  /\ v = round[c].truck \/ MayUse(v)
  /\ Planned(r, "update", c, status, v)
  /\ Entangles(c)
  /\ UNCHANGED <<round, truck>>

WriteChange(r) ==
  /\ plan[r].do = "update"
  /\ round' = [round EXCEPT ![plan[r].of].status = plan[r].status, ![plan[r].of].truck = plan[r].truck]
  /\ PlanEnds(r)
  /\ UNCHANGED <<truck, entangled>>

\* complete
BeginComplete(r, c) ==
  /\ PlanFree(r) /\ c \in RoundsMade /\ StillOpen(c)
  /\ Planned(r, "complete", c, "COMPLETED", NoTruck)
  /\ Entangles(c)
  /\ UNCHANGED <<round, truck>>

\* Mutant: completed_at is written without the status
WriteCompleteDateOnly(r, told) ==
  LET c == plan[r].of IN
  /\ plan[r].do = "complete"
  /\ round' = [round EXCEPT ![c].dated = TRUE, ![c].told = @ \/ told]
  /\ PlanEnds(r)
  /\ UNCHANGED <<truck, entangled>>

\* ... writes status and completed_at, and tells the farmer, which may fail
WriteComplete(r, told) ==
  LET c == plan[r].of IN
  /\ plan[r].do = "complete"
  /\ round' = [round EXCEPT ![c].status = "COMPLETED", ![c].dated = TRUE, ![c].told = @ \/ told]
  /\ PlanEnds(r)
  /\ UNCHANGED <<truck, entangled>>

\* cancel; one that is cancelled already answers so
BeginCancel(r, c) ==
  /\ PlanFree(r) /\ c \in RoundsMade /\ StillOpen(c)
  /\ Planned(r, "cancel", c, "CANCELLED", NoTruck)
  /\ Entangles(c)
  /\ UNCHANGED <<round, truck>>

WriteCancel(r) ==
  /\ plan[r].do = "cancel"
  /\ round' = [round EXCEPT ![plan[r].of].status = "CANCELLED"]
  /\ PlanEnds(r)
  /\ UNCHANGED <<truck, entangled>>

CollectionsInit ==
  /\ round = [c \in Rounds |-> NoRound]
  /\ truck = [v \in Trucks |-> NoVehicle]
  /\ plan = [r \in Planners |-> NoPlan]
  /\ entangled = {}

CollectionsNext ==
  \/ \E v \in Trucks :
       \/ \E p \in Plates : CreateTruck(v, p) \/ \E active \in BOOLEAN : UpdateTruck(v, p, active)
       \/ RemoveTruck(v)
  \/ \E r \in Planners :
       \/ \E v \in Trucks \cup {NoTruck} :
            \/ BeginRound(r, v)
            \/ \E c \in Rounds, status \in Statuses : BeginChange(r, c, status, v)
       \/ \E c \in Rounds : InsertRound(r, c) \/ BeginComplete(r, c) \/ BeginCancel(r, c)
       \/ WriteChange(r) \/ WriteCancel(r)
       \/ \E told \in BOOLEAN : WriteComplete(r, told)

CollectionsSpec == CollectionsInit /\ [][CollectionsNext]_collectionsVars

-----------------------------------------------------------------------------
(* Properties                                                              *)

\* Types; plates are unique, and a collection has a vehicle that exists
CollectionsTypeOK ==
  /\ \A c \in Rounds : round[c].status \in Statuses \cup {"NONE"}
  /\ \A c \in RoundsMade : round[c].truck \in TrucksMade \cup {NoTruck}
  /\ \A v, w \in TrucksMade : truck[v].plate = truck[w].plate => v = w
  /\ \A r \in Planners : plan[r].do \in {"idle", "create", "update", "complete", "cancel"}
  /\ entangled \subseteq RoundsMade

\* The farmer is told that his goods were collected, and the date is set, for a
\* collection that stays COMPLETED, unless two requests about it overlapped
CollectedIsCompleted ==
  \A c \in RoundsMade \ entangled : round[c].dated \/ round[c].told => round[c].status = "COMPLETED"

\* The farmer is told of a collection that is COMPLETED and stays so
CollectionsSafety == CollectionsTypeOK /\ CollectedIsCompleted

=============================================================================
