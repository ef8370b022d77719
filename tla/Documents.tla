----------------------------- MODULE Documents -----------------------------
(***************************************************************************)
(* Files that users send: the photographs of what they own (addMedia,      *)
(* uploadMedia, deleteMedia of InteractionsService) and their identity     *)
(* papers (KycService).  The file goes to the bucket of StorageService     *)
(* first, the row that names it is written next.                           *)
(***************************************************************************)
EXTENDS Naturals, FiniteSets

CONSTANTS
  Targets,    \* listings, publications, lots and parcels, each with its owner
  Owner,      \* Owner[t]: the user who owns t (for publications and lots, also one of its cooperative)
  Senders,    \* users
  Files,      \* 1..n: objects of the bucket, in the order of their upload
  Uploads,    \* requests in flight
  Papers      \* a target that stands for kyc/<user_id>

VARIABLES
  bucket,     \* StorageService: whether the bucket was found or created
  stored,     \* objects: who sent them
  rows,       \* medias and kyc_documents: the target of each file ("none": no row)
  linked,     \* targets with a row of medias that names an address elsewhere
  standing,   \* targets that exist
  upload,     \* the request in each hand
  orphaned    \* history: files whose target went, whose row was deleted, or whose request died

\* Files are numbered, and "none" names neither a user nor a target
ASSUME DocumentsAssumption ==
  Files \subseteq Nat \ {0} /\ "none" \notin Senders \cup Targets \cup {Papers}

documentsVars == <<bucket, stored, rows, linked, standing, upload, orphaned>>

NoUpload == [at |-> "idle", by |-> "none", of |-> "none", file |-> 0]
Sent == {f \in Files : stored[f] # "none"}
Rowed == {f \in Files : rows[f] # "none"}
Waits(r) == upload[r].at = "idle"

\* onModuleInit: the bucket is looked up, or created
OpenBucket ==
  /\ ~bucket /\ bucket' = TRUE
  /\ UNCHANGED <<stored, rows, linked, standing, upload, orphaned>>

\* Mutant: nobody's target
OwnsAny(u, t) == t \in standing

\* assertOwnsTarget
Owns(u, t) == t \in standing /\ Owner[t] = u

\* uploadMedia: kind, size and ownership are checked before the file is sent
BeginUpload(r, u, t) ==
  /\ bucket /\ Waits(r) /\ t # Papers /\ Owns(u, t)
  /\ upload' = [upload EXCEPT ![r] = [at |-> "send", by |-> u, of |-> t, file |-> 0]]
  /\ UNCHANGED <<bucket, stored, rows, linked, standing, orphaned>>

\* KycService.upload: kind and size only
BeginPaper(r, u) ==
  /\ bucket /\ Waits(r)
  /\ upload' = [upload EXCEPT ![r] = [at |-> "send", by |-> u, of |-> Papers, file |-> 0]]
  /\ UNCHANGED <<bucket, stored, rows, linked, standing, orphaned>>

\* StorageService.upload: the file under a new key ...
SendFile(r, f) ==
  /\ upload[r].at = "send"
  /\ f \notin Sent /\ \A g \in Files : g < f => g \in Sent
  /\ stored' = [stored EXCEPT ![f] = upload[r].by]
  /\ upload' = [upload EXCEPT ![r].at = "row", ![r].file = f]
  /\ UNCHANGED <<bucket, rows, linked, standing, orphaned>>

\* ... or the error of the bucket
SendFails(r) ==
  /\ upload[r].at = "send"
  /\ upload' = [upload EXCEPT ![r] = NoUpload]
  /\ UNCHANGED <<bucket, stored, rows, linked, standing, orphaned>>

\* Mutant: ownership is checked with the row, after the file was sent
WriteMediaChecked(r) ==
  LET q == upload[r] IN
  /\ q.at = "row" /\ q.of # Papers
  /\ rows' = IF q.of \in standing /\ Owner[q.of] = q.by THEN [rows EXCEPT ![q.file] = q.of] ELSE rows
  /\ upload' = [upload EXCEPT ![r] = NoUpload]
  /\ UNCHANGED <<bucket, stored, linked, standing, orphaned>>

\* The row of a photograph, refused when its target is gone
WriteMedia(r) ==
  LET q == upload[r] IN
  /\ q.at = "row" /\ q.of # Papers
  /\ IF q.of \in standing
     THEN rows' = [rows EXCEPT ![q.file] = q.of] /\ UNCHANGED orphaned
     ELSE orphaned' = orphaned \cup {q.file} /\ UNCHANGED rows
  /\ upload' = [upload EXCEPT ![r] = NoUpload]
  /\ UNCHANGED <<bucket, stored, linked, standing>>

\* The row of a paper, PENDING: nothing in the code decides about it
WritePaper(r) ==
  LET q == upload[r] IN
  /\ q.at = "row" /\ q.of = Papers
  /\ rows' = [rows EXCEPT ![q.file] = Papers]
  /\ upload' = [upload EXCEPT ![r] = NoUpload]
  /\ UNCHANGED <<bucket, stored, linked, standing, orphaned>>

\* environment: the server stops between the file and its row
UploadDies(r) ==
  /\ upload[r].at = "row"
  /\ orphaned' = orphaned \cup {upload[r].file}
  /\ upload' = [upload EXCEPT ![r] = NoUpload]
  /\ UNCHANGED <<bucket, stored, rows, linked, standing>>

\* addMedia: a row for an address the client gives
AddMedia(u, t) ==
  /\ Owns(u, t)
  /\ linked' = linked \cup {t}
  /\ UNCHANGED <<bucket, stored, rows, standing, upload, orphaned>>

\* deleteMedia, and KycService.remove: the row goes, its file stays in the bucket
DeleteMedia(u, f) ==
  /\ f \in Rowed
  /\ IF rows[f] = Papers THEN stored[f] = u ELSE Owns(u, rows[f])
  /\ rows' = [rows EXCEPT ![f] = "none"]
  /\ orphaned' = orphaned \cup {f}
  /\ UNCHANGED <<bucket, stored, linked, standing, upload>>

\* Mutant: the rows of what is deleted stay
TargetGoesAlone(t) ==
  /\ t \in standing
  /\ standing' = standing \ {t} /\ linked' = linked \ {t}
  /\ UNCHANGED <<bucket, stored, rows, upload, orphaned>>

\* What is deleted takes its rows with it
TargetGoes(t) ==
  LET of == {f \in Rowed : rows[f] = t} IN
  /\ t \in standing
  /\ standing' = standing \ {t} /\ linked' = linked \ {t}
  /\ rows' = [f \in Files |-> IF f \in of THEN "none" ELSE rows[f]]
  /\ orphaned' = orphaned \cup of
  /\ UNCHANGED <<bucket, stored, upload>>

DocumentsInit ==
  /\ bucket = FALSE
  /\ stored = [f \in Files |-> "none"] /\ rows = [f \in Files |-> "none"]
  /\ linked = {} /\ orphaned = {}
  /\ standing = Targets
  /\ upload = [r \in Uploads |-> NoUpload]

DocumentsNext ==
  \/ OpenBucket
  \/ \E t \in Targets : TargetGoes(t)
  \/ \E u \in Senders :
       \/ \E t \in Targets : AddMedia(u, t)
       \/ \E f \in Files : DeleteMedia(u, f)
       \/ \E r \in Uploads : BeginPaper(r, u) \/ \E t \in Targets : BeginUpload(r, u, t)
  \/ \E r \in Uploads :
       \/ WriteMedia(r) \/ WritePaper(r) \/ UploadDies(r)
       \/ \E f \in Files : SendFile(r, f)
       \/ SendFails(r)

DocumentsSpec == DocumentsInit /\ [][DocumentsNext]_documentsVars

-----------------------------------------------------------------------------
(* Properties                                                              *)

\* Types; rows are of targets that exist
DocumentsTypeOK ==
  /\ linked \subseteq standing
  /\ \A f \in Rowed : f \in Sent /\ rows[f] \in standing \cup {Papers}
  /\ orphaned \subseteq Sent
  /\ \A r \in Uploads : upload[r].at \in {"idle", "send", "row"}

\* A photograph was sent by the owner of what it shows, whatever was in flight
ShownByOwner == \A f \in Rowed : rows[f] # Papers => Owner[rows[f]] = stored[f]

\* Each file of the bucket has its row, but for those in flight and those that lost it:
\* a request that is refused leaves no file
NoStrayFile ==
  \A f \in Sent : f \in Rowed \cup orphaned \/ \E r \in Uploads : upload[r].file = f

\* A photograph shows what its sender owns, and no file of the bucket is without its row
DocumentsSafety == DocumentsTypeOK /\ ShownByOwner /\ NoStrayFile

=============================================================================
