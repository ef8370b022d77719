------------------------------ MODULE MCPeople ------------------------------
(***************************************************************************)
(* What users keep, for TLC: sessions, codes and PINs, the registry of     *)
(* users and administrators, addresses and payment methods, a farmer's     *)
(* parcels, a buyer's basket, a transporter's routes, files.  They share   *)
(* no state here, so a behaviour is about one of them, its focus, and the  *)
(* others rest in one of their initial states.                             *)
(***************************************************************************)
EXTENDS Sessions, Access, Registry, Defaults, Fields, Basket, Routes, Documents, TLC

VARIABLE focus  \* the component a behaviour is about

\* The clients that make the requests in flight
Interchangeable == Permutations(Calls)

\* The owners of what files show
OwnersOf == [t \in Targets |-> IF t = "t1" THEN "a" ELSE "b"]

shopVars == <<fieldsVars, basketVars, routesVars, documentsVars>>
accountVars == <<sessVars, accessVars, registryVars, defaultsVars>>
peopleVars == <<focus, accountVars, shopVars>>

Init ==
  /\ focus \in {"sess", "access", "registry", "defaults", "fields", "basket", "routes", "documents"}
  /\ SessInit /\ AccessInit /\ RegistryInit /\ DefaultsInit
  /\ FieldsInit /\ BasketInit /\ RoutesInit /\ DocumentsInit
  /\ focus # "access" => user.pin
  /\ focus # "defaults" => book = "moyen"
  /\ focus # "basket" => \A w \in Wares : ware[w].stock = 1 /\ ware[w].price = 1

Next ==
  \/ focus = "sess" /\ SessNext /\ UNCHANGED <<focus, accessVars, registryVars, defaultsVars, shopVars>>
  \/ focus = "access" /\ AccessNext /\ UNCHANGED <<focus, sessVars, registryVars, defaultsVars, shopVars>>
  \/ focus = "registry" /\ RegistryNext /\ UNCHANGED <<focus, sessVars, accessVars, defaultsVars, shopVars>>
  \/ focus = "defaults" /\ DefaultsNext /\ UNCHANGED <<focus, sessVars, accessVars, registryVars, shopVars>>
  \/ focus = "fields" /\ FieldsNext /\ UNCHANGED <<focus, accountVars, basketVars, routesVars, documentsVars>>
  \/ focus = "basket" /\ BasketNext /\ UNCHANGED <<focus, accountVars, fieldsVars, routesVars, documentsVars>>
  \/ focus = "routes" /\ RoutesNext /\ UNCHANGED <<focus, accountVars, fieldsVars, basketVars, documentsVars>>
  \/ focus = "documents" /\ DocumentsNext /\ UNCHANGED <<focus, accountVars, fieldsVars, basketVars, routesVars>>

Spec == Init /\ [][Next]_peopleVars

\* How users prove who they are, and which accounts exist
AccountSafety == AccessSafety /\ RegistrySafety

\* What a buyer keeps and chooses before he orders, while sellers and carriers change it
BuyerSafety == DefaultsSafety /\ BasketSafety /\ RoutesSafety

\* What owners record of what is theirs, with deletions in between
OwnerSafety == FieldsSafety /\ DocumentsSafety

=============================================================================
