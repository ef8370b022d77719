------------------------------- MODULE Fields -------------------------------
(***************************************************************************)
(* The parcels of one farmer, the crops he sows on them and the analyses   *)
(* of his plants: AgronomieService and PlantAnalysesService.  Each         *)
(* operation reads, checks, then writes, without a transaction.            *)
(***************************************************************************)
EXTENDS Naturals, FiniteSets, Functions

CONSTANTS
  Parcels,    \* 1..n: parcelle; the number of a deleted one may serve again
  Crops,      \* 1..n: user_cultures
  Areas,      \* superficies of a parcel, in hectares
  Beds,       \* superficies of a crop
  Names,      \* names of a parcel, case put aside
  Growers     \* requests in flight

VARIABLES
  parcel,     \* parcelle: nom, superficie_ha; created less than 60 seconds ago
  crop,       \* user_cultures: parcelle_id (0: no row), superficie_ha
  examined,   \* parcels that a row of plant_analyses names
  errand,     \* the request in each hand
  blurred,    \* history: parcels renamed, or created while a request of that name was in flight
  crowded     \* history: parcels reduced, or sown by two requests at once

\* The rows are numbered, areas are counted in whole units, and "none" is no name
ASSUME FieldsAssumption ==
  /\ Parcels \subseteq Nat \ {0} /\ IsFiniteSet(Crops)
  /\ Areas \subseteq Nat /\ Beds \subseteq Nat /\ "none" \notin Names

fieldsVars == <<parcel, crop, examined, errand, blurred, crowded>>

NoParcel == [name |-> "none", area |-> 0, fresh |-> FALSE]
NoCrop == [of |-> 0, area |-> 0]
NoErrand == [do |-> "idle", of |-> 0, name |-> "none", area |-> 0]

ParcelsMade == {p \in Parcels : parcel[p].name # "none"}
CropsOf(p) == {c \in Crops : crop[c].of = p}
Sown(p) == SumFunctionOnSet([c \in Crops |-> crop[c].area], CropsOf(p))

Idle(r) == errand[r].do = "idle"
Finishes(r) == errand' = [errand EXCEPT ![r] = NoErrand]
Sets(r, do, p, n, a) ==
  errand' = [errand EXCEPT ![r] = [do |-> do, of |-> p, name |-> n, area |-> a]]

-----------------------------------------------------------------------------
(* Parcels                                                                 *)

\* Mutant: the last minute is not looked at
RecentAnyone(n) == FALSE

Recent(n) == \E p \in ParcelsMade : parcel[p].name = n /\ parcel[p].fresh

\* createParcelle: refused within 60 seconds of a parcel of that name
BeginParcel(r, n, a) ==
  /\ Idle(r) /\ ~Recent(n)
  /\ Sets(r, "parcel", 0, n, a)
  /\ UNCHANGED <<parcel, crop, examined, blurred, crowded>>

InsertParcel(r, p) ==
  LET e == errand[r] IN
  /\ e.do = "parcel"
  /\ p \notin ParcelsMade /\ \A q \in Growers : errand[q].of # p
  /\ parcel' = [parcel EXCEPT ![p] = [name |-> e.name, area |-> e.area, fresh |-> TRUE]]
  /\ blurred' = IF \E q \in Growers \ {r} : errand[q].do = "parcel" /\ errand[q].name = e.name
                THEN blurred \cup {p} ELSE blurred
  /\ Finishes(r)
  /\ UNCHANGED <<crop, examined, crowded>>

\* environment: 60 seconds pass
Matures(p) ==
  /\ p \in ParcelsMade /\ parcel[p].fresh
  /\ parcel' = [parcel EXCEPT ![p].fresh = FALSE]
  /\ UNCHANGED <<crop, examined, errand, blurred, crowded>>

\* updateParcelle: another name, another area, whatever grows there
UpdateParcel(p, n, a) ==
  /\ p \in ParcelsMade
  /\ parcel' = [parcel EXCEPT ![p].name = n, ![p].area = a]
  /\ blurred' = IF n # parcel[p].name THEN blurred \cup {p} ELSE blurred
  /\ crowded' = IF a < parcel[p].area THEN crowded \cup {p} ELSE crowded
  /\ UNCHANGED <<crop, examined, errand>>

\* Mutant: the crops of a deleted parcel stay
DeleteParcelOnly(p) ==
  /\ p \in ParcelsMade /\ p \notin examined
  /\ parcel' = [parcel EXCEPT ![p] = NoParcel]
  /\ UNCHANGED <<crop, examined, errand, blurred, crowded>>

\* deleteParcelle: its crops go with it; the analyses of the parcel forbid it
DeleteParcel(p) ==
  /\ p \in ParcelsMade /\ p \notin examined
  /\ parcel' = [parcel EXCEPT ![p] = NoParcel]
  /\ crop' = [c \in Crops |-> IF crop[c].of = p THEN NoCrop ELSE crop[c]]
  /\ blurred' = blurred \ {p} /\ crowded' = crowded \ {p}
  /\ UNCHANGED <<examined, errand>>

-----------------------------------------------------------------------------
(* Crops                                                                   *)

\* Mutant: the crop to come is not counted
HasRoomAlready(p, a) == Sown(p) <= parcel[p].area

HasRoom(p, a) == Sown(p) + a <= parcel[p].area

\* addCultureToParcelle: the areas of the parcel are summed, then the row is inserted
BeginCrop(r, p, a) ==
  /\ Idle(r) /\ p \in ParcelsMade /\ HasRoom(p, a)
  /\ Sets(r, "crop", p, "none", a)
  /\ crowded' = IF \E q \in Growers : errand[q].do = "crop" /\ errand[q].of = p
                THEN crowded \cup {p} ELSE crowded
  /\ UNCHANGED <<parcel, crop, examined, blurred>>

\* ... unless the parcel is gone, for the foreign key refuses it
InsertCrop(r, c) ==
  LET e == errand[r] IN
  /\ e.do = "crop" /\ crop[c].of = 0 /\ \A d \in Crops : d < c => crop[d].of # 0
  /\ crop' = IF e.of \in ParcelsMade THEN [crop EXCEPT ![c] = [of |-> e.of, area |-> e.area]] ELSE crop
  /\ Finishes(r)
  /\ UNCHANGED <<parcel, examined, blurred, crowded>>

\* deleteCulture
DeleteCrop(c) ==
  /\ crop[c].of # 0
  /\ crop' = [crop EXCEPT ![c] = NoCrop]
  /\ UNCHANGED <<parcel, examined, errand, blurred, crowded>>

-----------------------------------------------------------------------------
(* Analyses                                                                *)

\* analyze: the parcel is looked up, the model is called, which may fail ...
BeginExam(r, p) ==
  /\ Idle(r) /\ p \in ParcelsMade
  /\ Sets(r, "exam", p, "none", 0)
  /\ UNCHANGED <<parcel, crop, examined, blurred, crowded>>

\* ... and its diagnosis inserted, unless the parcel went meanwhile
EndExam(r, answered) ==
  /\ errand[r].do = "exam"
  /\ examined' = IF answered THEN examined \cup ({errand[r].of} \cap ParcelsMade) ELSE examined
  /\ Finishes(r)
  /\ UNCHANGED <<parcel, crop, blurred, crowded>>

FieldsInit ==
  /\ parcel = [p \in Parcels |-> NoParcel]
  /\ crop = [c \in Crops |-> NoCrop]
  /\ examined = {} /\ blurred = {} /\ crowded = {}
  /\ errand = [r \in Growers |-> NoErrand]

FieldsNext ==
  \/ \E p \in Parcels :
       \/ Matures(p) \/ DeleteParcel(p)
       \/ \E n \in Names, a \in Areas : UpdateParcel(p, n, a)
       \/ \E r \in Growers :
            \/ InsertParcel(r, p) \/ BeginExam(r, p)
            \/ \E a \in Beds : BeginCrop(r, p, a)
  \/ \E r \in Growers :
       \/ \E n \in Names, a \in Areas : BeginParcel(r, n, a)
       \/ \E c \in Crops : InsertCrop(r, c)
       \/ \E answered \in BOOLEAN : EndExam(r, answered)
  \/ \E c \in Crops : DeleteCrop(c)

FieldsSpec == FieldsInit /\ [][FieldsNext]_fieldsVars

-----------------------------------------------------------------------------
(* Properties                                                              *)

\* Types; a crop and an analysis belong to a parcel that exists, whatever was deleted
\* while they were in flight
FieldsTypeOK ==
  /\ parcel \in [Parcels -> [name : Names \cup {"none"}, area : Areas \cup {0}, fresh : BOOLEAN]]
  /\ \A c \in Crops : crop[c].of \in ParcelsMade \cup {0}
  /\ examined \cup blurred \cup crowded \subseteq ParcelsMade
  /\ \A r \in Growers : errand[r].do \in {"idle", "parcel", "crop", "exam"}

\* The crops of a parcel fit in it, unless two were sown at once or its area was
\* reduced under them
AreaRespected == \A p \in ParcelsMade \ crowded : Sown(p) <= parcel[p].area

\* A retry of a creation makes no second parcel within the minute, unless it
\* overlapped the first or a parcel was renamed
NoTwin ==
  \A p, q \in {p \in ParcelsMade \ blurred : parcel[p].fresh} :
    parcel[p].name = parcel[q].name => p = q

\* Crops fit in their parcels and belong to parcels that exist, and a retry makes no twin
FieldsSafety == FieldsTypeOK /\ AreaRespected /\ NoTwin

=============================================================================
