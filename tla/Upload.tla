------------------------------- MODULE Upload -------------------------------
(***************************************************************************)
(* Uploads: the rows of upload.uploads, the object a client puts under the *)
(* pending key with a presigned URL, and the object confirmUpload and the  *)
(* sweep of stale uploads publish under the final key.                     *)
(*                                                                         *)
(* An object is "good", "short" (HEAD shows another size or type than was  *)
(* declared) or "forged" (the leading bytes do not belong to the declared  *)
(* type).  Postgres runs at READ COMMITTED, a request makes one            *)
(* transaction per statement, and a sweep is one transaction from its      *)
(* first SELECT to its last DELETE.  The uploads all have one owner; the   *)
(* quotas are checked and the row inserted under advisory locks: one step. *)
(* What S3 was asked to write may be written although no answer arrives.   *)
(***************************************************************************)
EXTENDS Naturals, FiniteSets

CONSTANTS
    Proc,       \* concurrent requests
    Upload,
    Shared,     \* uploads made for an organization
    Cap,        \* UPLOAD_MAX_PENDING_PER_USER
    OrgCap,     \* UPLOAD_MAX_PENDING_PER_ORGANIZATION
    HasETag,    \* the store answers a GET with an ETag
    MaxFaults,  \* bound: errors of S3, and sweeps that roll back
    None

ASSUME UploadAssumption == None \notin Upload /\ MaxFaults \in Nat

VARIABLES
    row,      \* upload -> status; "none" before it is created, "purged" after
    dead,     \* uploads with deleted_at
    final,    \* uploads whose file_key is the final key
    kind,     \* upload -> how the declared type is verified
    pending,  \* upload -> object under the pending key
    public,   \* upload -> object under the final key
    url,      \* uploads whose presigned URL is still good
    pc,       \* request -> next step
    up,       \* request -> upload it is about
    moved,    \* requests that have read an object that was replaced since
    erase,    \* request -> objects to delete
    reach,    \* request -> uploads its soft delete is for
    spc,      \* next step of the sweep
    todo,     \* uploads the sweep has selected
    cur,      \* upload the sweep is at
    marked,   \* uploads the sweep has confirmed, not committed
    failed,   \* uploads the sweep has failed, not committed
    orphan,   \* uploads the sweep will delete
    deleting, \* history: uploads somebody has begun to delete
    crossed,  \* history: uploads two have worked on at once
    halfway,  \* history: uploads whose confirm or sweep failed once S3 had the
              \* object, and purged ones whose object S3 did not delete
    faults

table == <<row, dead, final, kind>>
store == <<pending, public, url>>
local == <<pc, up, moved, erase, reach>>
sweep == <<spc, todo, cur, marked, failed, orphan>>
vars == <<table, store, local, sweep, deleting, crossed, halfway, faults>>

Objects == {"none", "good", "short", "forged"}

TypeOK ==
    /\ row \in [Upload -> {"none", "PENDING", "UPLOADED", "FAILED", "purged"}]
    /\ dead \in SUBSET Upload /\ final \in SUBSET Upload
    /\ kind \in [Upload -> {"magic", "svg", "plain"}]
    /\ pending \in [Upload -> Objects] /\ public \in [Upload -> Objects]
    /\ url \in SUBSET Upload
    /\ pc \in [Proc -> {"idle", "head", "bytes", "copy", "mark", "fail", "drop", "erase", "tombstone"}]
    /\ up \in [Proc -> Upload \cup {None}]
    /\ moved \in SUBSET Proc
    /\ erase \in [Proc -> SUBSET (Upload \X BOOLEAN)] /\ reach \in [Proc -> SUBSET Upload]
    /\ spc \in {"idle", "pick", "bytes", "copy", "mark", "drop"}
    /\ todo \in SUBSET Upload /\ cur \in Upload \cup {None}
    /\ marked \in SUBSET Upload /\ failed \in SUBSET Upload /\ orphan \in SUBSET Upload
    /\ deleting \in SUBSET Upload /\ crossed \in SUBSET Upload /\ halfway \in SUBSET Upload
    /\ faults \in 0..MaxFaults

Init ==
    /\ row = [u \in Upload |-> "none"]
    /\ dead = {} /\ final = {}
    /\ kind \in [Upload -> {"magic", "svg", "plain"}]
    /\ pending = [u \in Upload |-> "none"] /\ public = [u \in Upload |-> "none"]
    /\ url = {}
    /\ pc = [p \in Proc |-> "idle"] /\ up = [p \in Proc |-> None]
    /\ moved = {} /\ erase = [p \in Proc |-> {}] /\ reach = [p \in Proc |-> {}]
    /\ spc = "idle" /\ todo = {} /\ cur = None
    /\ marked = {} /\ failed = {} /\ orphan = {}
    /\ deleting = {} /\ crossed = {} /\ halfway = {} /\ faults = 0

Live(u) == row[u] \in {"PENDING", "UPLOADED", "FAILED"} /\ u \notin dead

\* Postgres: the sweep has updated the row and not committed yet.
Free(u) == u \notin marked \cup failed

\* Uploads that a request or the sweep is working on.
Busy ==
    {up[p] : p \in Proc} \cup {e[1] : e \in UNION {erase[p] : p \in Proc}}
    \cup todo \cup {cur} \cup marked \cup failed \cup orphan

Fault == faults < MaxFaults /\ faults' = faults + 1

Go(p, next) == pc' = [pc EXCEPT ![p] = next]

End(p) ==
    /\ Go(p, "idle")
    /\ up' = [up EXCEPT ![p] = None]
    /\ moved' = moved \ {p}
    /\ erase' = [erase EXCEPT ![p] = {}]
    /\ reach' = [reach EXCEPT ![p] = {}]

-----------------------------------------------------------------------------
(* createUpload, and the client.                                           *)

Waiting(uploads) == Cardinality({v \in uploads : row[v] = "PENDING" /\ v \notin dead})

\* reservePendingUploadSlot: the organization's quota, then the user's; only
\* the rows of the same scope are visible (RLS).
SlotFree(u) ==
    /\ u \in Shared => Waiting(Shared) < OrgCap
    /\ Waiting(IF u \in Shared THEN Shared ELSE Upload \ Shared) < Cap

\* The row, then the presigned URL.
Create(u) ==
    /\ row[u] = "none"
    /\ SlotFree(u)
    /\ row' = [row EXCEPT ![u] = "PENDING"]
    /\ url' = url \cup {u}
    /\ UNCHANGED <<dead, final, kind, pending, public, local, sweep, deleting, crossed, halfway, faults>>

\* The client puts an object, or puts another one.
Put(u, object) ==
    /\ u \in url
    /\ pending' = [pending EXCEPT ![u] = object]
    /\ moved' = moved \cup {p \in Proc : up[p] = u /\ pc[p] = "copy"}
    /\ UNCHANGED <<table, public, url, pc, up, erase, reach, sweep, deleting, crossed, halfway, faults>>

UrlExpires(u) ==
    /\ u \in url /\ url' = url \ {u}
    /\ UNCHANGED <<table, pending, public, local, sweep, deleting, crossed, halfway, faults>>

-----------------------------------------------------------------------------
(* confirmUpload.                                                          *)

ConfirmRead(p, u) ==
    /\ pc[p] = "idle"
    /\ row[u] = "PENDING" /\ u \notin dead
    /\ Go(p, "head")
    /\ up' = [up EXCEPT ![p] = u]
    /\ crossed' = IF u \in Busy THEN crossed \cup {u} ELSE crossed
    /\ UNCHANGED <<table, store, moved, erase, reach, sweep, deleting, halfway, faults>>

\* verifyUploadedObject.
Head(p) ==
    LET u == up[p]
    IN  /\ pc[p] = "head"
        /\ Go(p, IF pending[u] \in {"none", "short"} THEN "fail"
                 ELSE IF kind[u] = "plain" THEN "copy" ELSE "bytes")
        /\ UNCHANGED <<table, store, up, moved, erase, reach, sweep, deleting, crossed, halfway, faults>>

\* Mutant: the row is marked before the object is published.
BytesThenMark(p) ==
    LET u == up[p]
        refused == IF kind[u] = "svg" THEN {"forged"} ELSE {"none", "forged"}
    IN  /\ pc[p] = "bytes"
        /\ \/ pending[u] = "none" /\ kind[u] = "svg" /\ End(p)
           \/ pending[u] \in refused /\ Go(p, "fail") /\ UNCHANGED <<up, moved, erase, reach>>
           \/ /\ pending[u] # "none" /\ (kind[u] = "magic" => pending[u] # "forged")
              /\ Go(p, "mark") /\ moved' = moved \ {p} /\ UNCHANGED <<up, erase, reach>>
        /\ UNCHANGED <<table, store, sweep, deleting, crossed, halfway, faults>>

\* publishConfirmedObject: the leading bytes and their ETag, or the body of an
\* SVG, which may be empty once it is sanitized.  A 404 is an answer for the
\* leading bytes, and a 503 for a body.
Bytes(p) ==
    LET u == up[p]
        refused == IF kind[u] = "svg" THEN {"forged"} ELSE {"none", "forged"}
    IN  /\ pc[p] = "bytes"
        /\ \/ pending[u] = "none" /\ kind[u] = "svg" /\ End(p)
           \/ pending[u] \in refused /\ Go(p, "fail") /\ UNCHANGED <<up, moved, erase, reach>>
           \/ /\ pending[u] # "none" /\ (kind[u] = "magic" => pending[u] # "forged")
              /\ Go(p, "copy") /\ moved' = moved \ {p} /\ UNCHANGED <<up, erase, reach>>
        /\ UNCHANGED <<table, store, sweep, deleting, crossed, halfway, faults>>

\* Mutant: the COPY is not pinned to the ETag of the bytes that were verified.
CopiesUnpinned(p) == kind[up[p]] = "svg" \/ pending[up[p]] # "none"

\* The sanitized SVG is put; a COPY finds its object, and the bytes that were
\* verified if there were any and they had an ETag (CopySourceIfMatch).
Copies(p) ==
    \/ kind[up[p]] = "svg"
    \/ pending[up[p]] # "none" /\ (kind[up[p]] = "magic" /\ HasETag => p \notin moved)

\* S3 writes under the final key: the sanitizer leaves no SVG as it was forged.
Publish(p) ==
    /\ Copies(p)
    /\ public' = [public EXCEPT ![up[p]] = IF kind[up[p]] = "svg" THEN "good" ELSE pending[up[p]]]

\* publishConfirmedObject, publishSanitizedSvg: a COPY S3 refuses is a 503.
Copy(p) ==
    /\ pc[p] = "copy"
    /\ \/ Publish(p) /\ Go(p, "mark") /\ UNCHANGED <<up, moved, erase, reach>>
       \/ ~Copies(p) /\ End(p) /\ UNCHANGED public
    /\ UNCHANGED <<table, pending, url, sweep, deleting, crossed, halfway, faults>>

\* markConfirmedByPublicId.
Mark(p) ==
    LET u == up[p]
    IN  /\ pc[p] = "mark"
        /\ Free(u)
        /\ \/ /\ Live(u)
              /\ row' = [row EXCEPT ![u] = "UPLOADED"]
              /\ final' = final \cup {u}
              /\ Go(p, "drop")
              /\ UNCHANGED <<up, moved, erase, reach>>
           \/ ~Live(u) /\ End(p) /\ UNCHANGED <<row, final>>
        /\ UNCHANGED <<dead, kind, store, sweep, deleting, crossed, halfway, faults>>

\* markStatusByPublicId: whatever the status is by now.
Fail(p) ==
    LET u == up[p]
    IN  /\ pc[p] = "fail"
        /\ Free(u)
        /\ row' = [row EXCEPT ![u] = IF Live(u) THEN "FAILED" ELSE @]
        /\ End(p)
        /\ UNCHANGED <<dead, final, kind, store, sweep, deleting, crossed, halfway, faults>>

Drop(p) ==
    /\ pc[p] = "drop"
    /\ pending' = [pending EXCEPT ![up[p]] = "none"]
    /\ End(p)
    /\ UNCHANGED <<table, public, url, sweep, deleting, crossed, halfway, faults>>

\* The circuit breaker is open: an error confirmUpload takes for a failed
\* verification, as it is not an ExternalServiceError.
CircuitOpen(p) ==
    /\ pc[p] \in {"head", "bytes", "copy"}
    /\ Fault
    /\ Go(p, "fail")
    /\ UNCHANGED <<table, store, up, moved, erase, reach, sweep, deleting, crossed, halfway>>

\* S3 does not answer: a 503, or a pending object that stays; what it was
\* asked to write may be written.  Or the process dies.
RequestFails(p) ==
    /\ pc[p] # "idle"
    /\ Fault
    /\ \/ halfway' = (IF pc[p] = "mark" THEN halfway \cup {up[p]} ELSE halfway) /\ UNCHANGED public
       \/ pc[p] = "copy" /\ Publish(p) /\ halfway' = halfway \cup {up[p]}
    /\ End(p)
    /\ UNCHANGED <<table, pending, url, sweep, deleting, crossed>>

-----------------------------------------------------------------------------
(* deleteUpload, and the offboarding of the owner or the organization.     *)

\* findActiveByUserIdAfter, findActiveByOrganizationIdAfter, findByPublicId:
\* the rows, each with the object its file_key names.
Found(uploads) == {u \in uploads : Live(u)}

DeleteRead(p, uploads) ==
    /\ pc[p] = "idle"
    /\ uploads \in {Upload, Shared} \/ \E u \in Upload : Live(u) /\ uploads = {u}
    /\ Go(p, "erase")
    /\ erase' = [erase EXCEPT ![p] = {<<u, u \in final>> : u \in Found(uploads)}]
    /\ reach' = [reach EXCEPT ![p] = uploads]
    /\ deleting' = deleting \cup Found(uploads)
    /\ crossed' = crossed \cup (Found(uploads) \cap Busy)
    /\ UNCHANGED <<table, store, up, moved, sweep, halfway, faults>>

\* deleteObject, for each; a failure is logged.
Erase(p, objects) ==
    /\ pc[p] = "erase"
    /\ objects \subseteq erase[p]
    /\ \/ objects = erase[p] /\ UNCHANGED faults
       \/ objects # erase[p] /\ Fault
    /\ pending' = [u \in Upload |-> IF <<u, FALSE>> \in objects THEN "none" ELSE pending[u]]
    /\ public' = [u \in Upload |-> IF <<u, TRUE>> \in objects THEN "none" ELSE public[u]]
    /\ Go(p, "tombstone")
    /\ UNCHANGED <<table, url, up, moved, erase, reach, sweep, deleting, crossed, halfway>>

\* softDeleteByPublicId, softDeleteAllByUserId, softDeleteAllByOrganizationId:
\* also the rows that were created since they were read.
Tombstone(p) ==
    LET rows == Found(reach[p])
        unread == {u \in rows : \A b \in BOOLEAN : <<u, b>> \notin erase[p]}
    IN  /\ pc[p] = "tombstone"
        /\ \A u \in rows : Free(u)
        /\ dead' = dead \cup rows
        /\ deleting' = deleting \cup rows
        /\ crossed' = crossed \cup (unread \cap Busy)
        /\ End(p)
        /\ UNCHANGED <<row, final, kind, store, sweep, halfway, faults>>

\* Mutant: the object under the pending key is deleted, not that of file_key.
PurgePendingKey(u) ==
    /\ u \in dead /\ row[u] # "purged" /\ u \notin Busy
    /\ row' = [row EXCEPT ![u] = "purged"]
    /\ \/ pending' = [pending EXCEPT ![u] = "none"] /\ UNCHANGED <<public, halfway, faults>>
       \/ Fault /\ halfway' = halfway \cup {u} /\ UNCHANGED <<pending, public>>
    /\ UNCHANGED <<dead, final, kind, url, local, sweep, deleting, crossed>>

\* runUploadTombstoneRetentionJob, many days later.
Purge(u) ==
    /\ u \in dead /\ row[u] # "purged" /\ u \notin Busy
    /\ row' = [row EXCEPT ![u] = "purged"]
    /\ \/ /\ pending' = [pending EXCEPT ![u] = IF u \in final THEN @ ELSE "none"]
          /\ public' = [public EXCEPT ![u] = IF u \in final THEN "none" ELSE @]
          /\ UNCHANGED <<halfway, faults>>
       \/ Fault /\ halfway' = halfway \cup {u} /\ UNCHANGED <<pending, public>>
    /\ UNCHANGED <<dead, final, kind, url, local, sweep, deleting, crossed>>

-----------------------------------------------------------------------------
(* runUploadPendingSweepJob.                                               *)

\* findPendingUploadsOlderThan.
Stale == {u \in Upload : row[u] = "PENDING" /\ u \notin dead /\ u \notin url}

SweepBegin ==
    /\ spc = "idle" /\ Stale # {}
    /\ spc' = "pick" /\ todo' = Stale
    /\ crossed' = crossed \cup (Stale \cap Busy)
    /\ UNCHANGED <<table, store, local, cur, marked, failed, orphan, deleting, halfway, faults>>

NextUpload == spc' = "pick" /\ cur' = None

\* Mutant: an SVG is left for the client to confirm.
SweepHeadLeavesSvg(u) ==
    /\ spc = "pick" /\ u \in todo
    /\ todo' = todo \ {u}
    /\ \/ /\ kind[u] # "svg" /\ pending[u] = "none"
          /\ orphan' = orphan \cup {u} /\ NextUpload /\ UNCHANGED failed
       \/ /\ kind[u] # "svg" /\ pending[u] = "short"
          /\ failed' = failed \cup {u} /\ NextUpload /\ UNCHANGED orphan
       \/ /\ kind[u] = "svg"
          /\ NextUpload /\ UNCHANGED <<failed, orphan>>
       \/ /\ kind[u] # "svg" /\ pending[u] \notin {"none", "short"}
          /\ spc' = (IF kind[u] = "magic" THEN "bytes" ELSE "copy") /\ cur' = u
          /\ UNCHANGED <<failed, orphan>>
    /\ UNCHANGED <<table, store, local, marked, deleting, crossed, halfway, faults>>

\* resolvePendingUploadVerdict: an SVG is not looked at; a HEAD; an UPDATE
\* that looks neither at the status nor at deleted_at.
SweepHead(u) ==
    /\ spc = "pick" /\ u \in todo
    /\ todo' = todo \ {u}
    /\ \/ /\ kind[u] # "svg" /\ pending[u] = "none"
          /\ orphan' = orphan \cup {u} /\ NextUpload /\ UNCHANGED failed
       \/ /\ kind[u] = "svg" \/ pending[u] = "short"
          /\ failed' = failed \cup {u} /\ NextUpload /\ UNCHANGED orphan
       \/ /\ kind[u] # "svg" /\ pending[u] \notin {"none", "short"}
          /\ spc' = (IF kind[u] = "magic" THEN "bytes" ELSE "copy") /\ cur' = u
          /\ UNCHANGED <<failed, orphan>>
    /\ UNCHANGED <<table, store, local, marked, deleting, crossed, halfway, faults>>

\* The leading bytes; a GET that fails counts as bytes that do not fit.
SweepBytes ==
    /\ spc = "bytes"
    /\ \/ /\ pending[cur] \in {"none", "forged"}
          /\ failed' = failed \cup {cur} /\ NextUpload /\ UNCHANGED faults
       \/ /\ pending[cur] \notin {"none", "forged"}
          /\ spc' = "copy" /\ UNCHANGED <<failed, cur, faults>>
       \/ Fault /\ failed' = failed \cup {cur} /\ NextUpload
    /\ UNCHANGED <<table, store, local, todo, marked, orphan, deleting, crossed, halfway>>

SweepCopy ==
    /\ spc = "copy"
    /\ \/ pending[cur] # "none" /\ public' = [public EXCEPT ![cur] = pending[cur]] /\ spc' = "mark" /\ UNCHANGED cur
       \/ pending[cur] = "none" /\ NextUpload /\ UNCHANGED public
    /\ UNCHANGED <<table, pending, url, local, todo, marked, failed, orphan, deleting, crossed, halfway, faults>>

\* markConfirmedByInternalId.
SweepMark ==
    /\ spc = "mark"
    /\ marked' = IF row[cur] = "PENDING" /\ cur \notin dead THEN marked \cup {cur} ELSE marked
    /\ spc' = "drop"
    /\ UNCHANGED <<table, store, local, todo, cur, failed, orphan, deleting, crossed, halfway, faults>>

\* The pending object goes before the transaction commits.
SweepDrop ==
    /\ spc = "drop"
    /\ pending' = [pending EXCEPT ![cur] = "none"]
    /\ NextUpload
    /\ UNCHANGED <<table, public, url, local, todo, marked, failed, orphan, deleting, crossed, halfway, faults>>

\* A HEAD, COPY or DELETE fails: the upload, or its pending object, stays.
\* The COPY may have been made all the same.
SweepSkips ==
    /\ Fault
    /\ \/ spc \in {"copy", "drop"} /\ NextUpload /\ UNCHANGED <<todo, public, halfway>>
       \/ /\ spc = "copy" /\ pending[cur] # "none"
          /\ public' = [public EXCEPT ![cur] = pending[cur]]
          /\ halfway' = halfway \cup {cur}
          /\ NextUpload /\ UNCHANGED todo
       \/ /\ spc = "pick"
          /\ \E u \in todo : kind[u] # "svg" /\ todo' = todo \ {u}
          /\ UNCHANGED <<spc, cur, public, halfway>>
    /\ UNCHANGED <<table, pending, url, local, marked, failed, orphan, deleting, crossed>>

SweepOver ==
    /\ spc' = "idle" /\ todo' = {} /\ cur' = None
    /\ marked' = {} /\ failed' = {} /\ orphan' = {}

\* hardDeleteUploadsByInternalIds, whatever the rows are by now; COMMIT.
SweepCommit ==
    /\ spc = "pick" /\ todo = {}
    /\ row' = [u \in Upload |-> IF row[u] = "purged" \/ u \in orphan THEN "purged"
                                ELSE IF u \in marked THEN "UPLOADED"
                                ELSE IF u \in failed THEN "FAILED" ELSE row[u]]
    /\ final' = final \cup marked
    /\ SweepOver
    /\ UNCHANGED <<dead, kind, store, local, deleting, crossed, halfway, faults>>

\* A statement fails or the worker dies: ROLLBACK.  What S3 did stays.
SweepRollback ==
    /\ spc # "idle"
    /\ Fault
    /\ halfway' = halfway \cup marked \cup (IF spc = "mark" THEN {cur} ELSE {})
    /\ SweepOver
    /\ UNCHANGED <<table, store, local, deleting, crossed>>

Sweep ==
    \/ SweepBegin \/ SweepBytes \/ SweepCopy \/ SweepMark \/ SweepDrop \/ SweepCommit
    \/ \E u \in Upload : SweepHead(u)

Step(p) ==
    \/ Head(p) \/ Bytes(p) \/ Copy(p) \/ Mark(p) \/ Fail(p) \/ Drop(p) \/ Tombstone(p)
    \/ \E objects \in SUBSET erase[p] : Erase(p, objects)

Next ==
    \/ \E u \in Upload : Create(u) \/ UrlExpires(u) \/ Purge(u) \/ \E o \in Objects \ {"none"} : Put(u, o)
    \/ \E p \in Proc : Step(p) \/ RequestFails(p) \/ CircuitOpen(p) \/ \E u \in Upload : ConfirmRead(p, u)
    \/ \E p \in Proc, uploads \in SUBSET Upload : DeleteRead(p, uploads)
    \/ Sweep \/ SweepSkips \/ SweepRollback

Spec == Init /\ [][Next]_vars

\* The scheduler repeats the sweep, requests go on, and URLs expire.
FairSpec ==
    /\ Spec
    /\ WF_vars(Sweep)
    /\ \A p \in Proc : WF_vars(Step(p))
    /\ \A u \in Upload : WF_vars(UrlExpires(u))

-----------------------------------------------------------------------------
(* Properties.                                                             *)

\* A row that is served has an object to serve, under the key nobody can
\* overwrite, unless it is being deleted: confirm and sweep publish before
\* they mark, and nothing they clean up later is the published object.
ServedHasObject ==
    \A u \in Upload \ deleting : row[u] = "UPLOADED" => u \in final /\ public[u] # "none"

\* No object is published under a type its leading bytes do not have, nor an
\* SVG that was not sanitized, even if the client replaces it while it is
\* verified: the COPY is bound to the ETag of the bytes (CopySourceIfMatch),
\* and the sweep, which has none, waits until the URL is dead and leaves an
\* SVG alone.  A store without ETags promises nothing.
PublishedAsVerified ==
    HasETag => \A u \in Upload : kind[u] \in {"magic", "svg"} => public[u] # "forged"

\* A row does not vanish and leave a published object behind, unless two
\* worked on the upload at once, or a confirm or a sweep failed once S3 had
\* written the object, answered or not: an S3 delete that fails is made up
\* for by the purge.
NoOrphanObject ==
    \A u \in Upload : row[u] = "purged" /\ public[u] # "none" => u \in crossed \cup halfway

\* Every upload is settled: the sweep takes up what clients never confirm.
PendingSettles == \A u \in Upload : row[u] = "PENDING" ~> row[u] # "PENDING" \/ u \in dead
=============================================================================
