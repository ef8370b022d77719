------------------------------- MODULE Routes -------------------------------
(***************************************************************************)
(* The routes transporters declare between two zones, and the missions     *)
(* that orders make of them (LogisticsService, createOrder).  The buyer    *)
(* chooses a route, which gives the price of the transport; the mission    *)
(* then goes to the first transporter with a route that fits.              *)
(***************************************************************************)
EXTENDS Naturals, FiniteSets

CONSTANTS
  Carriers,   \* transporters; each has at most one route here, the zones being given
  Loads,      \* kilograms: capacities of a route, and quantities of an order
  Tariffs,    \* tarif_kg
  Least,      \* tarif_minimum
  Missions,   \* shipments
  Orderers,   \* createOrder requests in flight
  NoCarrier,
  MaxChanges  \* bound on the changes of a route

VARIABLES
  route,      \* transporter_routes: status, capacite_max_kg, tarif_kg, the changes made
  mission,    \* shipments: status, transporter_id, quantity, price, the route of the buyer,
              \* and (history) whether that route is as it was when the order read it
  choice      \* the order in each hand: the route it read, and the same history

\* Kilograms and tariffs are counted in whole units
ASSUME RoutesAssumption ==
  Loads \subseteq Nat /\ Tariffs \subseteq Nat /\ Least \in Nat /\ NoCarrier \notin Carriers

routesVars == <<route, mission, choice>>

NoRoute == [status |-> "NONE", cap |-> 0, tariff |-> 0, changes |-> 0]
NoMission == [status |-> "NONE", carrier |-> NoCarrier, kg |-> 0, price |-> 0, route |-> NoCarrier, kept |-> TRUE]
NoChoice == [route |-> NoCarrier, kg |-> 0, price |-> 0, kept |-> TRUE]

\* MAX(tarif_minimum, tarif_kg * quantite_kg)
Price(c, kg) == IF route[c].tariff * kg > Least THEN route[c].tariff * kg ELSE Least

\* What getQuotes, getAvailableMissions and acceptShipment ask of a route
Fits(c, kg) == route[c].status = "ACTIVE" /\ route[c].cap >= kg

Alters(c) ==
  /\ choice' = [b \in Orderers |-> [choice[b] EXCEPT !.kept = @ /\ choice[b].route # c]]
  /\ mission' = [m \in Missions |-> [mission[m] EXCEPT !.kept = @ /\ mission[m].route # c]]

-----------------------------------------------------------------------------
(* Routes                                                                  *)

\* createRoute: one per transporter and pair of zones, even when it was switched off
CreateRoute(c, cap, tariff) ==
  /\ route[c].status = "NONE"
  /\ route' = [route EXCEPT ![c] = [@ EXCEPT !.status = "ACTIVE", !.cap = cap, !.tariff = tariff]]
  /\ UNCHANGED <<mission, choice>>

\* updateRoute: tariff, capacity, is_active
UpdateRoute(c, status, cap, tariff) ==
  /\ route[c].status # "NONE" /\ route[c].changes < MaxChanges
  /\ route' = [route EXCEPT ![c] = [status |-> status, cap |-> cap, tariff |-> tariff, changes |-> @.changes + 1]]
  /\ Alters(c)

\* deleteRoute switches it off, whatever was ordered on it
DeleteRoute(c) ==
  /\ route[c].status # "NONE"
  /\ route' = [route EXCEPT ![c].status = "OFF"]
  /\ Alters(c)

-----------------------------------------------------------------------------
(* Orders and missions                                                     *)

\* Mutant: the capacity of the route is not looked at
OfferedAny(c, kg) == route[c].status = "ACTIVE"

\* createOrder: the route is active and has the capacity
Offered(c, kg) == route[c].status = "ACTIVE" /\ kg <= route[c].cap

\* createOrder reads the route that the buyer names, quoted or not ...
Choose(b, c, kg) ==
  /\ choice[b].route = NoCarrier /\ Offered(c, kg)
  /\ choice' = [choice EXCEPT ![b] = [route |-> c, kg |-> kg, price |-> Price(c, kg), kept |-> TRUE]]
  /\ UNCHANGED <<route, mission>>

\* Mutant: the mission is made without the quantity
CreateMissionFor(b, m) ==
  LET o == choice[b] IN
  /\ o.route # NoCarrier /\ mission[m].status = "NONE"
  /\ mission' = [mission EXCEPT ![m] = [status |-> "REQUESTED", carrier |-> NoCarrier, kg |-> 0,
                                        price |-> o.price, route |-> o.route, kept |-> o.kept]]
  /\ choice' = [choice EXCEPT ![b] = NoChoice]
  /\ UNCHANGED route

\* ... and creates the mission with the order, in a later transaction
CreateMission(b, m) ==
  LET o == choice[b] IN
  /\ o.route # NoCarrier /\ mission[m].status = "NONE"
  /\ mission' = [mission EXCEPT ![m] = [status |-> "REQUESTED", carrier |-> NoCarrier, kg |-> o.kg,
                                        price |-> o.price, route |-> o.route, kept |-> o.kept]]
  /\ choice' = [choice EXCEPT ![b] = NoChoice]
  /\ UNCHANGED route

\* getAvailableMissions of a transporter
Available(c) == {m \in Missions : mission[m].status = "REQUESTED" /\ Fits(c, mission[m].kg)}

\* acceptShipment: the first transporter with a route that fits, at the price of the other
AcceptMission(c, m) ==
  /\ m \in Available(c)
  /\ mission' = [mission EXCEPT ![m].status = "ACCEPTED", ![m].carrier = c]
  /\ UNCHANGED <<route, choice>>

RoutesInit ==
  /\ route = [c \in Carriers |-> NoRoute]
  /\ mission = [m \in Missions |-> NoMission]
  /\ choice = [b \in Orderers |-> NoChoice]

RoutesNext ==
  \/ \E c \in Carriers :
       \/ DeleteRoute(c)
       \/ \E m \in Missions : AcceptMission(c, m)
       \/ \E kg \in Loads, b \in Orderers : Choose(b, c, kg)
       \/ \E cap \in Loads, tariff \in Tariffs :
            \/ CreateRoute(c, cap, tariff)
            \/ \E status \in {"ACTIVE", "OFF"} : UpdateRoute(c, status, cap, tariff)
  \/ \E b \in Orderers, m \in Missions : CreateMission(b, m)

RoutesSpec == RoutesInit /\ [][RoutesNext]_routesVars

-----------------------------------------------------------------------------
(* Properties                                                              *)

\* Types; the price of a mission is the least or more, whatever changed since
RoutesTypeOK ==
  /\ \A c \in Carriers : route[c].status \in {"NONE", "ACTIVE", "OFF"}
  /\ \A m \in Missions : mission[m].status # "NONE" => mission[m].price >= Least /\ mission[m].kg \in Loads
  /\ \A b \in Orderers : choice[b].route \in Carriers \cup {NoCarrier}

\* A mission without a transporter is offered to the one whose route the buyer chose, at
\* the price of that route, unless he changed it since the order read it
OfferStands ==
  \A m \in Missions :
    mission[m].status = "REQUESTED" /\ mission[m].kept =>
      m \in Available(mission[m].route) /\ mission[m].price = Price(mission[m].route, mission[m].kg)

\* A mission goes at the price of the route its buyer chose, and is offered to its owner
RoutesSafety == RoutesTypeOK /\ OfferStands

=============================================================================
