------------------------------ MODULE Documents ------------------------------
(***************************************************************************)
(* Documents, their stored objects and the evidence that refers to them    *)
(* (apps/api/src/modules/documents/documents.service.ts and                *)
(* evidence.service.ts).  A request is one transaction; the object store   *)
(* is outside it, so what a request puts or deletes there is not undone    *)
(* when its transaction fails.  A file stands for a content and a file     *)
(* name; its storage key is made of the checksum and the name with every   *)
(* run of unusual characters replaced by "_" (documentStorageKey), so      *)
(* files with one content and similar names share a key.                   *)
(* X_Fault is the definition X with a plausible bug (see README.md).       *)
(***************************************************************************)
EXTENDS FiniteSets

CONSTANTS
    File, Document, Evidence, None,
    Key,      \* storage keys
    KeyOf,    \* the storage key of each file
    Client    \* users, one request at a time each

DocumentAssumption ==
    /\ None \notin Document \cup File /\ "absent" \notin Document
    /\ KeyOf \in [File -> Key]

VARIABLES
    doc,      \* document rows: the file, None if there is no row
    used,     \* document ids ever assigned
    object,   \* storage keys that have an object
    linked,   \* evidence rows: "absent", or the document they refer to
    promised, \* history: the file each evidence row was created for
    request,  \* the open transaction of each client
    raced,    \* history: files two requests were at work on at a time
    torn,     \* history: documents whose removal failed half way
    taken     \* history: keys whose object was deleted, for one document,
              \* while another document or upload relied on it

vars == <<doc, used, object, linked, promised, request, raced, torn, taken>>

NoRequest == [step |-> "none"]
Present(d) == doc[d] # None

Init ==
    /\ doc = [d \in Document |-> None]
    /\ used = {}
    /\ object = {}
    /\ linked = [e \in Evidence |-> "absent"]
    /\ promised = [e \in Evidence |-> None]
    /\ request = [c \in Client |-> NoRequest]
    /\ raced = {}
    /\ torn = {}
    /\ taken = {}

Overlaps(c, f) ==
    \E o \in Client \ {c} : request[o] # NoRequest /\ request[o].file = f
Starts(c, r) ==
    /\ request[c] = NoRequest
    /\ request' = [request EXCEPT ![c] = r]
    /\ raced' = raced \cup IF Overlaps(c, r.file) THEN {r.file} ELSE {}
    /\ UNCHANGED <<torn, taken>>
Goes(c, r) == request' = [request EXCEPT ![c] = r] /\ UNCHANGED <<raced, torn>>

-----------------------------------------------------------------------------
(* upload: look for the same file, scan, put the object, insert the row.    *)
Duplicate(f) == \E d \in Document : doc[d] = f
BeginUpload(c, f) ==
    /\ ~Duplicate(f)
    /\ Starts(c, [step |-> "put", file |-> f])
    /\ UNCHANGED <<doc, used, object, linked, promised>>

PutObject_Skipped(c) ==
    /\ request[c].step = "put"
    /\ Goes(c, [request[c] EXCEPT !.step = "insert"])
    /\ UNCHANGED <<doc, used, object, linked, promised, taken>>
PutObject(c) ==
    /\ request[c].step = "put"
    /\ object' = object \cup {KeyOf[request[c].file]}
    /\ taken' = taken \ {KeyOf[request[c].file]}
    /\ Goes(c, [request[c] EXCEPT !.step = "insert"])
    /\ UNCHANGED <<doc, used, linked, promised>>

InsertDocument(c, d) ==
    /\ request[c].step = "insert"
    /\ d \notin used
    /\ used' = used \cup {d}
    /\ doc' = [doc EXCEPT ![d] = request[c].file]
    /\ Goes(c, NoRequest)
    /\ UNCHANGED <<object, linked, promised, taken>>

(* remove: refuse while evidence refers to the document, delete the object  *)
(* (errors ignored), delete the row; the foreign key sets the document of   *)
(* evidence that refers to it to null.                                      *)
InUse_Never(d) == FALSE
InUse(d) == \E e \in Evidence : linked[e] = d
BeginRemove(c, d) ==
    /\ Present(d) /\ ~InUse(d)
    /\ Starts(c, [step |-> "unstore", id |-> d, file |-> doc[d]])
    /\ UNCHANGED <<doc, used, object, linked, promised>>

(* Another document has the key, or an upload that has put its object is    *)
(* about to insert the row of one.                                          *)
ReliedOn(key, d) ==
    \/ \E x \in Document \ {d} : Present(x) /\ KeyOf[doc[x]] = key
    \/ \E o \in Client : request[o].step = "insert" /\ KeyOf[request[o].file] = key
DeleteObject(c) ==
    /\ request[c].step = "unstore"
    /\ LET key == KeyOf[request[c].file]
       IN  \/ /\ object' = object \ {key}
              /\ taken' = taken \cup IF ReliedOn(key, request[c].id) THEN {key} ELSE {}
           \/ UNCHANGED <<object, taken>>
    /\ Goes(c, [request[c] EXCEPT !.step = "delete"])
    /\ UNCHANGED <<doc, used, linked, promised>>

DeleteDocument_NoAction(c) ==
    LET d == request[c].id
    IN  /\ request[c].step = "delete"
        /\ Present(d)
        /\ doc' = [doc EXCEPT ![d] = None]
        /\ Goes(c, NoRequest)
        /\ UNCHANGED <<used, object, linked, promised, taken>>
DeleteDocument(c) ==
    LET d == request[c].id
    IN  /\ request[c].step = "delete"
        /\ Present(d)
        /\ doc' = [doc EXCEPT ![d] = None]
        /\ linked' = [e \in Evidence |-> IF linked[e] = d THEN None ELSE linked[e]]
        /\ Goes(c, NoRequest)
        /\ UNCHANGED <<used, object, promised, taken>>

(* EvidenceService.create: the document is looked up, then the evidence row *)
(* is inserted; the foreign key refuses a document that is gone by then.    *)
BeginEvidence(c, e, d) ==
    /\ linked[e] = "absent"
    /\ Present(d)
    /\ Starts(c, [step |-> "link", evidence |-> e, id |-> d, file |-> doc[d]])
    /\ UNCHANGED <<doc, used, object, linked, promised>>

InsertEvidence(c) ==
    LET r == request[c]
    IN  /\ r.step = "link"
        /\ linked[r.evidence] = "absent"
        /\ Present(r.id)
        /\ linked' = [linked EXCEPT ![r.evidence] = r.id]
        /\ promised' = [promised EXCEPT ![r.evidence] = r.file]
        /\ Goes(c, NoRequest)
        /\ UNCHANGED <<doc, used, object, taken>>

(* A statement finds its row gone, or the transaction times out, loses its  *)
(* connection or is a deadlock victim.                                      *)
Fail(c) ==
    /\ request[c] # NoRequest
    /\ request' = [request EXCEPT ![c] = NoRequest]
    /\ torn' = torn \cup IF request[c].step = "delete" THEN {request[c].id} ELSE {}
    /\ UNCHANGED <<doc, used, object, linked, promised, raced, taken>>

Next ==
    \E c \in Client :
      \/ \E f \in File : BeginUpload(c, f)
      \/ PutObject(c)
      \/ \E d \in Document :
           \/ InsertDocument(c, d)
           \/ BeginRemove(c, d)
           \/ \E e \in Evidence : BeginEvidence(c, e, d)
      \/ DeleteObject(c)
      \/ DeleteDocument(c)
      \/ InsertEvidence(c)
      \/ Fail(c)

Spec == Init /\ [][Next]_vars

-----------------------------------------------------------------------------
(* Types of the rows and of the requests' steps.                            *)
TypeOK ==
    /\ doc \in [Document -> File \cup {None}]
    /\ used \subseteq Document
    /\ object \subseteq Key
    /\ linked \in [Evidence -> Document \cup {"absent", None}]
    /\ promised \in [Evidence -> File \cup {None}]
    /\ \A c \in Client :
         request[c].step \in {"none", "put", "insert", "unstore", "delete", "link"}
    /\ raced \subseteq File /\ torn \subseteq Document /\ taken \subseteq Key

(* Every document can be downloaded: its object is in the store, except     *)
(* while a request that removes the document is at work on it, when such a  *)
(* request failed after it had deleted the object, or when the object was   *)
(* deleted for another document with the same storage key.                  *)
BeingRemoved(d) ==
    \E c \in Client : request[c].step \in {"unstore", "delete"} /\ request[c].id = d
DocumentHasObject ==
    \A d \in Document :
       Present(d) /\ ~BeingRemoved(d) /\ d \notin torn /\ KeyOf[doc[d]] \notin taken
         => KeyOf[doc[d]] \in object

(* However uploads, removals and evidence interleave, and fail              *)
(* half way, no evidence row refers to a document that is gone.             *)
NoDanglingReference ==
    \A e \in Evidence : linked[e] \in Document => Present(linked[e])

(* Types, and referential integrity.                                        *)
Consistent == TypeOK /\ NoDanglingReference

(* "content-addressed dedupe" (docs/security.md:60): the same content under *)
(* the same name is one document, unless two requests worked on it at a     *)
(* time.  Requests that fail half way leave nothing that undoes this.       *)
OneDocumentPerFile ==
    \A d1, d2 \in Document :
       Present(d1) /\ doc[d1] = doc[d2] /\ doc[d1] \notin raced => d1 = d2

(* "This document is linked to evidence and cannot be deleted."             *)
(* (documents.service.ts:221): evidence keeps the document it was created   *)
(* with, unless the two requests overlapped.                                *)
EvidenceKeepsDocument ==
    \A e \in Evidence :
       linked[e] # "absent" /\ promised[e] \notin raced => linked[e] # None
=============================================================================
