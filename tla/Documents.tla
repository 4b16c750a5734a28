----------------------------- MODULE Documents -----------------------------
(***************************************************************************)
(* The documents of one member: the rows in the database, the objects in   *)
(* the bucket, the temporary files of the server, and the document types   *)
(* (documents.service.ts, documentTypes.service.ts, routes/documents.ts).  *)
(*                                                                         *)
(* A document is named by its upload: every upload makes a key of its own  *)
(* (documents.service.ts:127). Nothing spans the bucket and the database,  *)
(* so an upload and a deletion are sequences of steps that may be cut.     *)
(***************************************************************************)
EXTENDS Integers, FiniteSets, FiniteSetsExt

CONSTANTS
  Docs,      \* the uploads
  Types,     \* the document types, by id
  Deletions, \* the requests to delete a document in progress
  Sizes,     \* the sizes of files that multer lets through
  MaxTotal   \* MAX_TOTAL_SIZE

NoRow == [size |-> 0]
NotYet == [step |-> "none"]
Ended == [step |-> "ended"]
Idle == [step |-> "idle"]

Row == [type : Types, size : Sizes]
UploadStates ==
  {NotYet, Ended} \cup [step : {"check"}, size : Sizes]
  \cup [step : {"sum", "put", "insert"}, size : Sizes, type : Types]
DeletionStates == {Idle} \cup [step : {"object", "row"}, doc : Docs]

VARIABLES
  types,      \* id -> whether the type exists, and is active
  going,      \* the types whose deletion has found no document
  rows,       \* document -> employee_documents row, or NoRow
  objects,    \* the documents whose file is in the bucket
  temp,       \* the uploads whose temporary file is on the server's disk
  upload,     \* upload -> what it is in the middle of
  deletion,   \* request to delete -> what it is in the middle of
  strays,     \* history: what a failure may have left in the bucket without a row
  cut,        \* history: the deletions that stopped between the bucket and the row
  left,       \* history: the temporary files that no code removes
  overlapped  \* history: an upload summed while another was past its own sum

vars == <<types, going, rows, objects, temp, upload, deletion, strays, cut, left, overlapped>>
history == <<strays, cut, left, overlapped>>

Stored == {d \in Docs : rows[d] # NoRow}
At(steps) == {d \in Docs : upload[d].step \in steps}
DeletedObjects == {deletion[t].doc : t \in {u \in Deletions : deletion[u].step = "row"}}

TypeOK ==
  /\ types \in [Types -> {"absent", "active", "inactive"}]
  /\ going \subseteq Types
  /\ rows \in [Docs -> Row \cup {NoRow}]
  /\ objects \subseteq Docs /\ temp \subseteq Docs
  /\ upload \in [Docs -> UploadStates]
  /\ deletion \in [Deletions -> DeletionStates]
  /\ strays \subseteq Docs /\ cut \subseteq Docs /\ left \subseteq Docs
  /\ overlapped \in BOOLEAN

Init ==
  /\ types = [x \in Types |-> "absent"] /\ going = {}
  /\ rows = [d \in Docs |-> NoRow]
  /\ objects = {} /\ temp = {}
  /\ upload = [d \in Docs |-> NotYet]
  /\ deletion = [t \in Deletions |-> Idle]
  /\ strays = {} /\ cut = {} /\ left = {} /\ overlapped = FALSE

-----------------------------------------------------------------------------
(* An upload. Multer stores the file before the handler runs.              *)

Stops(d) == upload' = [upload EXCEPT ![d] = Ended]
Goes(d, step) == upload' = [upload EXCEPT ![d].step = step]
CleanupTempFile(d) == temp' = temp \ {d}

Receive(d, size) ==
  /\ upload[d] = NotYet
  /\ upload' = [upload EXCEPT ![d] = [step |-> "check", size |-> size]]
  /\ temp' = temp \cup {d}
  /\ UNCHANGED <<types, going, rows, objects, deletion, history>>

(* No type is named, the member is not found, the uploader is another      *)
(* employee, the type is unknown or inactive, or a query fails: the file   *)
(* is left behind.                                                         *)
LeaveFile(d) ==
  /\ d \in At({"check", "sum"})
  /\ Stops(d)
  /\ left' = left \cup {d}
  /\ UNCHANGED <<types, going, rows, objects, temp, deletion, strays, cut, overlapped>>

CheckType(d, x) ==
  /\ d \in At({"check"})
  /\ types[x] = "active"
  /\ upload' = [upload EXCEPT ![d] = [step |-> "sum", size |-> upload[d].size, type |-> x]]
  /\ UNCHANGED <<types, going, rows, objects, temp, deletion, history>>

(* The file is not of its declared type, or too large. *)
RefuseFile(d) ==
  /\ d \in At({"sum"})
  /\ Stops(d)
  /\ CleanupTempFile(d)
  /\ UNCHANGED <<types, going, rows, objects, deletion, history>>

Total == MapThenSumSet(LAMBDA d : rows[d].size, Docs)

(* A mistaken form: the total alone is compared with the limit. *)
FitsSoFar(size) == Total <= MaxTotal

Fits(size) == Total + size <= MaxTotal

CheckTotal(d) ==
  /\ d \in At({"sum"})
  /\ IF Fits(upload[d].size)
     THEN /\ Goes(d, "put")
          /\ overlapped' = (overlapped \/ At({"put", "insert"}) # {})
          /\ UNCHANGED temp
     ELSE Stops(d) /\ CleanupTempFile(d) /\ UNCHANGED overlapped
  /\ UNCHANGED <<types, going, rows, objects, deletion, strays, cut, left>>

PutObject(d) ==
  /\ d \in At({"put"})
  /\ objects' = objects \cup {d}
  /\ CleanupTempFile(d)
  /\ Goes(d, "insert")
  /\ UNCHANGED <<types, going, rows, deletion, history>>

(* An error, or an answer that is lost: then the object may be there. *)
PutFails(d) ==
  /\ d \in At({"put"})
  /\ objects' \in {objects, objects \cup {d}}
  /\ strays' = strays \cup {d}
  /\ CleanupTempFile(d)
  /\ Stops(d)
  /\ UNCHANGED <<types, going, rows, deletion, cut, left, overlapped>>

(* The foreign key asks for the type, active or not. *)
CreateRow(d) ==
  /\ d \in At({"insert"})
  /\ types[upload[d].type] # "absent"
  /\ rows' = [rows EXCEPT ![d] = [type |-> upload[d].type, size |-> upload[d].size]]
  /\ Stops(d)
  /\ UNCHANGED <<types, going, objects, temp, deletion, history>>

CreateFails(d) ==
  /\ d \in At({"insert"})
  /\ strays' = strays \cup {d}
  /\ Stops(d)
  /\ UNCHANGED <<types, going, rows, objects, temp, deletion, cut, left, overlapped>>

-----------------------------------------------------------------------------
(* A deletion: the row is read, the object removed, then the row.          *)

DeleteRead(t, d) ==
  /\ deletion[t] = Idle
  /\ d \in Stored
  /\ deletion' = [deletion EXCEPT ![t] = [step |-> "object", doc |-> d]]
  /\ UNCHANGED <<types, going, rows, objects, temp, upload, history>>

DeleteObject(t) ==
  /\ deletion[t].step = "object"
  /\ objects' = objects \ {deletion[t].doc}
  /\ deletion' = [deletion EXCEPT ![t].step = "row"]
  /\ UNCHANGED <<types, going, rows, temp, upload, history>>

(* An error of the bucket is logged, and the deletion goes on. *)
DeleteObjectFails(t) ==
  /\ deletion[t].step = "object"
  /\ strays' = strays \cup {deletion[t].doc}
  /\ deletion' = [deletion EXCEPT ![t].step = "row"]
  /\ UNCHANGED <<types, going, rows, objects, temp, upload, cut, left, overlapped>>

(* The update of a row that another request has removed throws. *)
DeleteRow(t) ==
  /\ deletion[t].step = "row"
  /\ rows' = [rows EXCEPT ![deletion[t].doc] = NoRow]
  /\ deletion' = [deletion EXCEPT ![t] = Idle]
  /\ UNCHANGED <<types, going, objects, temp, upload, history>>

DeleteRowFails(t) ==
  /\ deletion[t].step = "row"
  /\ cut' = cut \cup {deletion[t].doc}
  /\ deletion' = [deletion EXCEPT ![t] = Idle]
  /\ UNCHANGED <<types, going, rows, objects, temp, upload, strays, left, overlapped>>

-----------------------------------------------------------------------------
(* The types, and the process.                                             *)

CreateType(x) ==
  /\ types[x] = "absent"
  /\ types' = [types EXCEPT ![x] = "active"]
  /\ UNCHANGED <<going, rows, objects, temp, upload, deletion, history>>

UpdateType(x, isActive) ==
  /\ types[x] # "absent"
  /\ types' = [types EXCEPT ![x] = IF isActive THEN "active" ELSE "inactive"]
  /\ UNCHANGED <<going, rows, objects, temp, upload, deletion, history>>

Using(x) == {d \in Stored : rows[d].type = x}

DeleteTypeRead(x) ==
  /\ types[x] # "absent"
  /\ Using(x) = {}
  /\ going' = going \cup {x}
  /\ UNCHANGED <<types, rows, objects, temp, upload, deletion, history>>

(* The foreign key refuses the deletion of a type that has come into use. *)
DeleteType(x) ==
  /\ x \in going
  /\ going' = going \ {x}
  /\ types' = [types EXCEPT ![x] = IF Using(x) = {} THEN "absent" ELSE @]
  /\ UNCHANGED <<rows, objects, temp, upload, deletion, history>>

(* The server stops: what was sent to the bucket may have arrived. *)
Crash ==
  /\ At({"check", "sum", "put", "insert"}) # {} \/ \E t \in Deletions : deletion[t] # Idle
  /\ LET removing == {deletion[t].doc : t \in {u \in Deletions : deletion[u].step = "object"}} IN
     \E arrived \in SUBSET At({"put"}), gone \in SUBSET removing :
       objects' = (objects \cup arrived) \ gone
     /\ cut' = cut \cup removing \cup DeletedObjects
  /\ strays' = strays \cup At({"put", "insert"})
  /\ left' = left \cup At({"check", "sum", "put"})
  /\ upload' = [d \in Docs |-> IF upload[d] = NotYet THEN NotYet ELSE Ended]
  /\ deletion' = [t \in Deletions |-> Idle]
  /\ going' = {}
  /\ UNCHANGED <<types, rows, temp, overlapped>>

Next ==
  \/ \E d \in Docs :
       \/ \E size \in Sizes : Receive(d, size)
       \/ \E x \in Types : CheckType(d, x)
       \/ LeaveFile(d) \/ RefuseFile(d) \/ CheckTotal(d)
       \/ PutObject(d) \/ PutFails(d) \/ CreateRow(d) \/ CreateFails(d)
  \/ \E t \in Deletions :
       \/ \E d \in Docs : DeleteRead(t, d)
       \/ DeleteObject(t) \/ DeleteObjectFails(t) \/ DeleteRow(t) \/ DeleteRowFails(t)
  \/ \E x \in Types :
       \/ CreateType(x) \/ DeleteTypeRead(x) \/ DeleteType(x)
       \/ \E isActive \in BOOLEAN : UpdateType(x, isActive)
  \/ Crash

Spec == Init /\ [][Next]_vars
-----------------------------------------------------------------------------
(* A document that is listed can be downloaded, unless its deletion is     *)
(* under way or was cut: the object goes first (documents.service.ts:284). *)
RowsHaveObjects == Stored \subseteq objects \cup cut \cup DeletedObjects

(* The bucket keeps nothing without a row but uploads in progress and what *)
(* a failure has left: no code looks for these (documents.service.ts:157,  *)
(* 292).                                                                   *)
ObjectsHaveRows == objects \subseteq Stored \cup At({"insert"}) \cup strays

(* A temporary file goes with its upload, unless the upload was refused    *)
(* before the file was looked at, or a query failed                        *)
(* (documents.service.ts:75-93, 115, 154).                                 *)
TempFilesGo == temp \subseteq At({"check", "sum", "put"}) \cup left

(* The member's documents stay within the limit, unless two uploads        *)
(* overlapped: the total is read long before the row is written            *)
(* (documents.service.ts:115-123, 157).                                    *)
TotalHolds == overlapped \/ Total <= MaxTotal

(* The database, the bucket and the disk agree, whatever steps uploads,    *)
(* deletions and type changes take in between and wherever they stop.      *)
DocumentsKept == RowsHaveObjects /\ ObjectsHaveRows /\ TempFilesGo /\ TotalHolds
=============================================================================
