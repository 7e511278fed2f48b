---------------------------- MODULE IntakeProofs ----------------------------
(***************************************************************************)
(* The safety of what enters from outside: Stripe's events (StripeLedger)  *)
(* and the users' files (Upload), for any number of events, jobs,          *)
(* deliveries, attempts, uploads, requests and faults.  In both a step is  *)
(* judged by what it does, one lemma per effect and one per conjunct.      *)
(*                                                                         *)
(* The ledger: a job keeps its event, a row goes on only as its worker or  *)
(* a delivery writes it (Proper), and only one worker can be in possession *)
(* of a row (Single).                                                      *)
(*                                                                         *)
(* The uploads: a request and the sweep rely on what the first SELECT      *)
(* found (Sole): while nobody else works on the upload, its row is as it   *)
(* was read.  Published then says of every object under a final key whose  *)
(* it is: of a row that has it, or of one about to be marked.              *)
(***************************************************************************)
EXTENDS StripeLedger, Upload, TLAPS

-----------------------------------------------------------------------------
(* Upload.                                                                 *)
(* The strengthening.                                                      *)

\* The steps of confirmUpload before the row is written.
Confirming == {"head", "bytes", "copy", "mark", "fail"}

\* What the sweep has in hand.
Swept == todo \cup {cur} \cup marked \cup failed \cup orphan

\* A request that confirms deletes nothing, and the other way round.
RequestOk(p) ==
    /\ pc[p] \in Confirming \cup {"drop"} => up[p] \in Upload /\ erase[p] = {}
    /\ pc[p] \notin Confirming \cup {"drop"} => up[p] = None
    /\ pc[p] = "idle" => erase[p] = {}
    /\ \A e \in erase[p] : e[1] \in deleting

Requests == \A p \in Proc : RequestOk(p)

\* The sweep has each upload in one place, and nobody can put its object.
SweepShape ==
    /\ spc = "idle" => todo = {} /\ marked = {} /\ failed = {} /\ orphan = {}
    /\ spc \in {"idle", "pick"} => cur = None
    /\ spc \notin {"idle", "pick"} => cur \in Upload /\ kind[cur] # "svg"
    /\ todo \cap (orphan \cup marked \cup {cur}) = {} /\ orphan \cap (marked \cup {cur}) = {}
    /\ \A u \in Upload : u \in todo \/ u = cur => u \notin url /\ row[u] # "none"

Rows ==
    /\ dead \subseteq deleting
    /\ \A u \in final : row[u] \notin {"none", "PENDING"}
    /\ \A u \in Upload : row[u] = "UPLOADED" => u \in final

\* Published before it is marked.
Served ==
    /\ \A u \in Upload \ deleting : row[u] = "UPLOADED" => public[u] # "none"
    /\ \A p \in Proc : pc[p] = "mark" /\ up[p] \notin deleting => public[up[p]] # "none"
    /\ spc = "mark" /\ cur \notin deleting => public[cur] # "none"
    /\ \A u \in marked : u \notin deleting => public[u] # "none"

\* Verified before it is published.
Verified ==
    /\ PublishedAsVerified
    /\ \A p \in Proc : pc[p] = "copy" /\ kind[up[p]] = "magic" /\ p \notin moved => pending[up[p]] # "forged"
    /\ spc = "copy" /\ kind[cur] = "magic" => pending[cur] # "forged"

Works(p, u) == up[p] = u \/ \E b \in BOOLEAN : <<u, b>> \in erase[p]

\* One worker at a time, who finds the row as the first SELECT did.
Sole ==
    \A u \in Upload \ crossed :
        /\ \A p, q \in Proc : Works(p, u) /\ Works(q, u) => p = q
        /\ \A p \in Proc : Works(p, u) => u \notin Swept
        /\ u \in Swept => row[u] = "PENDING" /\ u \notin dead
        /\ \A p \in Proc : up[p] = u /\ pc[p] \in Confirming => row[u] = "PENDING" /\ u \notin dead

\* Somebody is about to mark the upload.
AtMark(u) ==
    \/ \E p \in Proc : pc[p] = "mark" /\ up[p] = u
    \/ spc = "mark" /\ cur = u
    \/ u \in marked

\* A published object is the final one of its row, or is about to be.
Published ==
    \A u \in Upload \ (crossed \cup halfway) :
        public[u] # "none" => AtMark(u) \/ (u \in final /\ row[u] # "purged")

IInv == TypeOK /\ Requests /\ SweepShape /\ Rows /\ Served /\ Verified /\ Sole /\ Published

-----------------------------------------------------------------------------
(* Types.                                                                  *)

TablesOK ==
    /\ row \in [Upload -> {"none", "PENDING", "UPLOADED", "FAILED", "purged"}]
    /\ dead \in SUBSET Upload /\ final \in SUBSET Upload
    /\ kind \in [Upload -> {"magic", "svg", "plain"}]

StoreOK ==
    /\ pending \in [Upload -> Objects] /\ public \in [Upload -> Objects]
    /\ url \in SUBSET Upload

LocalOK ==
    /\ pc \in [Proc -> {"idle", "head", "bytes", "copy", "mark", "fail", "drop", "erase", "tombstone"}]
    /\ up \in [Proc -> Upload \cup {None}]
    /\ moved \in SUBSET Proc
    /\ erase \in [Proc -> SUBSET (Upload \X BOOLEAN)] /\ reach \in [Proc -> SUBSET Upload]

SweepOK ==
    /\ spc \in {"idle", "pick", "bytes", "copy", "mark", "drop"}
    /\ todo \in SUBSET Upload /\ cur \in Upload \cup {None}
    /\ marked \in SUBSET Upload /\ failed \in SUBSET Upload /\ orphan \in SUBSET Upload

HistoryOK ==
    /\ deleting \in SUBSET Upload /\ crossed \in SUBSET Upload /\ halfway \in SUBSET Upload
    /\ faults \in 0..MaxFaults

LEMMA TypeParts ==
    /\ TypeOK <=> TablesOK /\ StoreOK /\ LocalOK /\ SweepOK /\ HistoryOK
    /\ TypeOK' <=> TablesOK' /\ StoreOK' /\ LocalOK' /\ SweepOK' /\ HistoryOK'
<1>1. TypeOK <=> TablesOK /\ StoreOK /\ LocalOK /\ SweepOK /\ HistoryOK
  BY Zenon DEF TypeOK, TablesOK, StoreOK, LocalOK, SweepOK, HistoryOK
<1>2. TypeOK' <=> TablesOK' /\ StoreOK' /\ LocalOK' /\ SweepOK' /\ HistoryOK'
  BY Zenon DEF TypeOK, TablesOK, StoreOK, LocalOK, SweepOK, HistoryOK
<1> QED
  BY <1>1, <1>2, Zenon

LEMMA FaultType ==
    ASSUME HistoryOK, Fault
    PROVE  faults' \in 0..MaxFaults
BY UploadAssumption DEF HistoryOK, Fault

\* Every step is one of these.
Request(p) ==
    \/ Step(p) \/ RequestFails(p) \/ CircuitOpen(p)
    \/ \E u \in Upload : ConfirmRead(p, u)
    \/ \E uploads \in SUBSET Upload : DeleteRead(p, uploads)

Client(u) == Create(u) \/ UrlExpires(u) \/ \E o \in Objects \ {"none"} : Put(u, o)

LEMMA NextCases ==
    ASSUME [Next]_vars
    PROVE  \/ \E p \in Proc : Request(p)
           \/ \E u \in Upload : Client(u) \/ Purge(u)
           \/ Sweep \/ SweepSkips \/ SweepRollback
           \/ UNCHANGED vars
BY Zenon DEF Next, Request, Client

\* A request changes its own locals only.
Alone(p) ==
    /\ UNCHANGED <<sweep, url, kind>>
    /\ \A q \in Proc \ {p} :
        pc'[q] = pc[q] /\ up'[q] = up[q] /\ erase'[q] = erase[q] /\ (q \in moved' <=> q \in moved)

LEMMA GoIs ==
    ASSUME LocalOK, NEW p \in Proc, NEW next, Go(p, next)
    PROVE  /\ pc'[p] = next
           /\ \A q \in Proc \ {p} : pc'[q] = pc[q]
BY Zenon DEF LocalOK, Go

LEMMA GoType ==
    ASSUME LocalOK, NEW p \in Proc,
           NEW next \in {"idle", "head", "bytes", "copy", "mark", "fail", "drop", "erase", "tombstone"},
           Go(p, next)
    PROVE  pc' \in [Proc -> {"idle", "head", "bytes", "copy", "mark", "fail", "drop", "erase", "tombstone"}]
BY Zenon DEF LocalOK, Go

LEMMA EndIs ==
    ASSUME LocalOK, NEW p \in Proc, End(p)
    PROVE  /\ LocalOK'
           /\ pc'[p] = "idle" /\ up'[p] = None /\ erase'[p] = {}
           /\ \A q \in Proc \ {p} :
                pc'[q] = pc[q] /\ up'[q] = up[q] /\ erase'[q] = erase[q] /\ (q \in moved' <=> q \in moved)
<1>1. /\ pc'[p] = "idle"
      /\ \A q \in Proc \ {p} : pc'[q] = pc[q]
  BY Zenon, GoIs DEF End
<1>2. pc' \in [Proc -> {"idle", "head", "bytes", "copy", "mark", "fail", "drop", "erase", "tombstone"}]
  BY Zenon, GoType DEF End
<1>3. /\ up'[p] = None /\ erase'[p] = {}
      /\ \A q \in Proc \ {p} : up'[q] = up[q] /\ erase'[q] = erase[q] /\ (q \in moved' <=> q \in moved)
  BY Zenon DEF End, LocalOK
<1>4. /\ up' \in [Proc -> Upload \cup {None}]
      /\ moved' \in SUBSET Proc
      /\ erase' \in [Proc -> SUBSET (Upload \X BOOLEAN)] /\ reach' \in [Proc -> SUBSET Upload]
  BY Zenon DEF End, LocalOK
<1> QED
  BY <1>1, <1>2, <1>3, <1>4, Zenon DEF LocalOK

LEMMA RequestLocal ==
    ASSUME TypeOK, NEW p \in Proc, Request(p)
    PROVE  LocalOK' /\ Alone(p)
<1> DEFINE Keep == \A q \in Proc \ {p} :
        pc'[q] = pc[q] /\ up'[q] = up[q] /\ erase'[q] = erase[q] /\ (q \in moved' <=> q \in moved)
<1>0. LocalOK
  BY TypeParts, Zenon
<1>1. ASSUME Head(p)
      PROVE  LocalOK' /\ Keep
  <2> DEFINE h == IF pending[up[p]] \in {"none", "short"} THEN "fail"
                  ELSE IF kind[up[p]] = "plain" THEN "copy" ELSE "bytes"
  <2>1. Go(p, h) /\ UNCHANGED <<up, moved, erase, reach>>
    BY <1>1, Zenon DEF Head
  <2>2. h \in {"copy", "fail", "bytes"}
    OBVIOUS
  <2> HIDE DEF h
  <2> QED
    BY <1>0, <2>1, <2>2, GoIs, GoType DEF LocalOK
<1>2. ASSUME Bytes(p) \/ Copy(p) \/ Mark(p) \/ CircuitOpen(p)
      PROVE  LocalOK' /\ Keep
  <2>1. CASE End(p)
    BY <2>1, <1>0, EndIs, Zenon
  <2>2. CASE ~End(p)
    <3>1. PICK next \in {"mark", "fail", "drop", "copy"} : Go(p, next)
      BY Zenon, <2>2, <1>2 DEF Bytes, Copy, Mark, CircuitOpen
    <3>2. UNCHANGED <<up, erase, reach>> /\ (UNCHANGED moved \/ moved' = moved \ {p})
      BY <2>2, <1>2, Zenon DEF Bytes, Copy, Mark, CircuitOpen
    <3> QED
      BY Zenon, <1>0, <3>1, <3>2, GoIs, GoType DEF LocalOK
  <2> QED
    BY <2>1, <2>2, Zenon
<1>3. ASSUME Fail(p) \/ Drop(p) \/ Tombstone(p) \/ RequestFails(p)
      PROVE  LocalOK' /\ Keep
  <2>1. End(p)
    BY <1>3, Zenon DEF Fail, Drop, Tombstone, RequestFails
  <2> QED
    BY <2>1, <1>0, EndIs, Zenon
<1>4. ASSUME NEW objects \in SUBSET erase[p], Erase(p, objects)
      PROVE  LocalOK' /\ Keep
  BY Zenon, <1>4, <1>0, GoIs, GoType DEF Erase, LocalOK
<1>5. ASSUME NEW u \in Upload, ConfirmRead(p, u)
      PROVE  LocalOK' /\ Keep
  <2>1. Go(p, "head") /\ up' = [up EXCEPT ![p] = u] /\ UNCHANGED <<moved, erase, reach>>
    BY <1>5, Zenon DEF ConfirmRead
  <2> QED
    BY Zenon, <2>1, <1>0, GoIs, GoType DEF LocalOK
<1>6. ASSUME NEW uploads \in SUBSET Upload, DeleteRead(p, uploads)
      PROVE  LocalOK' /\ Keep
  <2>1. /\ Go(p, "erase") /\ erase' = [erase EXCEPT ![p] = {<<u, u \in final>> : u \in Found(uploads)}]
        /\ reach' = [reach EXCEPT ![p] = uploads] /\ UNCHANGED <<moved, up>>
    BY <1>6, Zenon DEF DeleteRead
  <2>a. \A u \in Found(uploads) : (u \in final) \in BOOLEAN /\ u \in Upload
    BY SMT DEF Found
  <2>b. \A u, b : u \in Upload /\ b \in BOOLEAN => <<u, b>> \in Upload \X BOOLEAN
    OBVIOUS
  <2>2. {<<u, u \in final>> : u \in Found(uploads)} \in SUBSET (Upload \X BOOLEAN)
    BY <2>a, <2>b, Zenon
  <2> QED
    BY Zenon, <2>1, <2>2, <1>0, GoIs, GoType DEF LocalOK
<1>7. UNCHANGED <<sweep, url, kind>>
  BY Zenon DEF Request, Step, Head, Bytes, Copy, Mark, Fail, Drop, Tombstone, Erase, RequestFails, CircuitOpen, ConfirmRead,
     DeleteRead, table, store, sweep
<1>8. LocalOK' /\ Keep
  BY <1>1, <1>2, <1>3, <1>4, <1>5, <1>6, Zenon DEF Request, Step
<1> QED
  BY <1>7, <1>8, Zenon DEF Alone

LEMMA PublishIs ==
    ASSUME NEW p \in Proc, Publish(p)
    PROVE  \/ public' = [public EXCEPT ![up[p]] = "good"]
           \/ /\ kind[up[p]] # "svg" /\ pending[up[p]] # "none" /\ (kind[up[p]] = "magic" /\ HasETag => p \notin moved)
              /\ public' = [public EXCEPT ![up[p]] = pending[up[p]]]
<1>1. CASE kind[up[p]] = "svg"
  BY <1>1 DEF Publish
<1>2. CASE kind[up[p]] # "svg"
  <2>1. public' = [public EXCEPT ![up[p]] = pending[up[p]]]
    BY <1>2 DEF Publish
  <2>2. pending[up[p]] # "none" /\ (kind[up[p]] = "magic" /\ HasETag => p \notin moved)
    BY <1>2, Zenon DEF Publish, Copies
  <2> QED
    BY <1>2, <2>1, <2>2, Zenon
<1> QED
  BY <1>1, <1>2, Zenon

\* The COPY of the sweep, answered or not.
SweepPublishes ==
    /\ spc = "copy" /\ pending[cur] # "none"
    /\ public' = [public EXCEPT ![cur] = pending[cur]] /\ UNCHANGED <<pending, url>>

LEMMA UpIs ==
    ASSUME TypeOK, Requests, NEW p \in Proc, pc[p] \in Confirming \cup {"drop"}
    PROVE  up[p] \in Upload
BY Zenon DEF Requests, RequestOk

LEMMA CurIs ==
    ASSUME SweepShape, TypeOK, spc \in {"bytes", "copy", "mark", "drop"}
    PROVE  cur \in Upload /\ kind[cur] # "svg"
BY Zenon DEF SweepShape

LEMMA TablesType ==
    ASSUME TypeOK, Requests, [Next]_vars
    PROVE  TablesOK'
<1>0. TablesOK /\ SweepOK /\ LocalOK
  BY TypeParts, Zenon
<1>a. ASSUME NEW u \in Upload, NEW s \in {"none", "PENDING", "UPLOADED", "FAILED", "purged"},
             row' = [row EXCEPT ![u] = s]
      PROVE  row' \in [Upload -> {"none", "PENDING", "UPLOADED", "FAILED", "purged"}]
  BY Zenon, <1>a, <1>0 DEF TablesOK
<1>1. ASSUME NEW p \in Proc, Request(p)
      PROVE  TablesOK'
  <2>1. CASE Mark(p)
    <3>1. up[p] \in Upload
      BY Zenon, <2>1, UpIs DEF Mark, Confirming
    <3>2. row' \in [Upload -> {"none", "PENDING", "UPLOADED", "FAILED", "purged"}]
      BY Zenon, <2>1, <3>1, <1>0, <1>a DEF Mark, TablesOK
    <3>3. final' \in SUBSET Upload /\ UNCHANGED <<dead, kind>>
      BY Zenon, <2>1, <3>1, <1>0 DEF Mark, TablesOK
    <3> QED
      BY <3>2, <3>3, <1>0, Zenon DEF TablesOK
  <2>2. CASE Fail(p)
    <3>1. up[p] \in Upload /\ UNCHANGED <<dead, final, kind>>
      BY Zenon, <2>2, UpIs DEF Fail, Confirming
    <3>2. row' = [row EXCEPT ![up[p]] = IF Live(up[p]) THEN "FAILED" ELSE row[up[p]]]
      BY Zenon, <2>2 DEF Fail
    <3> QED
      BY Zenon, <3>1, <3>2, <1>0, <1>a DEF TablesOK
  <2>3. CASE Tombstone(p)
    <3>1. Found(reach[p]) \subseteq Upload
      BY Zenon, <1>0 DEF LocalOK, Found
    <3>2. dead' \in SUBSET Upload
      BY <2>3, <3>1, <1>0, Zenon DEF Tombstone, TablesOK
    <3> QED
      BY <2>3, <3>2, <1>0, Zenon DEF Tombstone, TablesOK
  <2>4. CASE ~(Mark(p) \/ Fail(p) \/ Tombstone(p))
    <3>1. UNCHANGED table
      BY <1>1, <2>4, Zenon DEF Request, Step, Head, Bytes, Copy, Drop, Erase, RequestFails, CircuitOpen, ConfirmRead, DeleteRead
    <3> QED
      BY <3>1, <1>0, Zenon DEF TablesOK, table
  <2> QED
    BY <2>1, <2>2, <2>3, <2>4, Zenon
<1>2. ASSUME NEW u \in Upload, Client(u) \/ Purge(u)
      PROVE  TablesOK'
  <2>1. UNCHANGED <<dead, final, kind>>
    BY <1>2, Zenon DEF Client, Create, UrlExpires, Put, Purge, table
  <2>2. UNCHANGED row \/ row' = [row EXCEPT ![u] = "PENDING"] \/ row' = [row EXCEPT ![u] = "purged"]
    BY <1>2, Zenon DEF Client, Create, UrlExpires, Put, Purge, table
  <2>3. row' \in [Upload -> {"none", "PENDING", "UPLOADED", "FAILED", "purged"}]
    BY Zenon, <2>2, <1>0, <1>a DEF TablesOK
  <2> QED
    BY <2>1, <2>3, <1>0, Zenon DEF TablesOK
<1>3. ASSUME SweepCommit
      PROVE  TablesOK'
  <2>1. row' \in [Upload -> {"none", "PENDING", "UPLOADED", "FAILED", "purged"}]
    BY Zenon, <1>3, <1>0 DEF SweepCommit, TablesOK
  <2> QED
    BY Zenon, <1>3, <2>1, <1>0 DEF SweepCommit, TablesOK, SweepOK
<1>4. ASSUME Sweep \/ SweepSkips \/ SweepRollback, ~SweepCommit
      PROVE  TablesOK'
  <2>1. UNCHANGED table
    BY <1>4, Zenon DEF Sweep, SweepBegin, SweepHead, SweepBytes, SweepCopy, SweepMark, SweepDrop, SweepSkips, SweepRollback
  <2> QED
    BY <2>1, <1>0, Zenon DEF TablesOK, table
<1>5. ASSUME UNCHANGED vars
      PROVE  TablesOK'
  BY <1>5, <1>0, Zenon DEF TablesOK, vars, table
<1> QED
  BY <1>1, <1>2, <1>3, <1>4, <1>5, NextCases, Zenon

LEMMA StoreType ==
    ASSUME TypeOK, Requests, SweepShape, [Next]_vars
    PROVE  StoreOK'
<1>0. StoreOK /\ SweepOK /\ LocalOK
  BY TypeParts, Zenon
<1>b. \A f \in [Upload -> Objects], u \in Upload, o \in Objects : [f EXCEPT ![u] = o] \in [Upload -> Objects]
  OBVIOUS
<1>c. "none" \in Objects /\ "good" \in Objects
  BY Zenon DEF Objects
<1>1. ASSUME NEW p \in Proc, Request(p)
      PROVE  StoreOK'
  <2>1. CASE Copy(p) \/ RequestFails(p)
    <3>1. UNCHANGED <<pending, url>> /\ (UNCHANGED public \/ (pc[p] = "copy" /\ Publish(p)))
      BY Zenon, <2>1 DEF Copy, RequestFails
    <3>2. CASE UNCHANGED public
      BY <3>1, <3>2, <1>0, Zenon DEF StoreOK
    <3>3. CASE pc[p] = "copy" /\ Publish(p)
      <4>1. up[p] \in Upload
        BY Zenon, <3>3, UpIs DEF Confirming
      <4>2. pending[up[p]] \in Objects
        BY Zenon, <4>1, <1>0 DEF StoreOK
      <4>3. public' = [public EXCEPT ![up[p]] = "good"] \/ public' = [public EXCEPT ![up[p]] = pending[up[p]]]
        BY <3>3, PublishIs, Zenon
      <4> QED
        BY <3>1, <4>1, <4>2, <4>3, <1>0, <1>b, <1>c DEF StoreOK
    <3> QED
      BY <3>1, <3>2, <3>3, Zenon
  <2>2. CASE Drop(p)
    <3>1. up[p] \in Upload /\ UNCHANGED <<public, url>>
      BY Zenon, <2>2, UpIs DEF Drop, Confirming
    <3> QED
      BY <2>2, <3>1, <1>0, <1>b, <1>c, Zenon DEF Drop, StoreOK
  <2>3. CASE \E objects \in SUBSET erase[p] : Erase(p, objects)
    BY Zenon, <2>3, <1>0, <1>c DEF Erase, StoreOK
  <2>4. CASE ~(Copy(p) \/ RequestFails(p) \/ Drop(p) \/ \E objects \in SUBSET erase[p] : Erase(p, objects))
    <3>1. UNCHANGED store
      BY <1>1, <2>4, Zenon DEF Request, Step, Head, Bytes, Mark, Fail, Tombstone, CircuitOpen, ConfirmRead, DeleteRead
    <3> QED
      BY <3>1, <1>0, Zenon DEF StoreOK, store
  <2> QED
    BY <2>1, <2>2, <2>3, <2>4, Zenon
<1>2. ASSUME NEW u \in Upload, Client(u)
      PROVE  StoreOK'
  <2>1. CASE \E o \in Objects : Put(u, o)
    BY <2>1, <1>0, <1>b DEF Put, StoreOK
  <2>2. CASE Create(u) \/ UrlExpires(u)
    BY Zenon, <2>2, <1>0 DEF Create, UrlExpires, StoreOK
  <2> QED
    BY <2>1, <2>2, <1>2, Zenon DEF Client
<1>3. ASSUME NEW u \in Upload, Purge(u)
      PROVE  StoreOK'
  <2>1. public[u] \in Objects /\ pending[u] \in Objects
    BY Zenon, <1>0 DEF StoreOK
  <2> QED
    BY <1>3, <1>0, <1>b, <1>c, <2>1 DEF Purge, StoreOK
<1>4. ASSUME SweepCopy \/ SweepDrop \/ SweepPublishes
      PROVE  StoreOK'
  <2>1. cur \in Upload
    BY Zenon, <1>4, CurIs DEF SweepCopy, SweepDrop, SweepPublishes
  <2>2. pending[cur] \in Objects
    BY Zenon, <2>1, <1>0 DEF StoreOK
  <2> QED
    BY <1>4, <1>0, <1>b, <1>c, <2>1, <2>2, Zenon DEF SweepCopy, SweepDrop, SweepPublishes, StoreOK
<1>5. ASSUME Sweep \/ SweepSkips \/ SweepRollback, ~SweepCopy, ~SweepDrop, ~SweepPublishes
      PROVE  StoreOK'
  <2>1. UNCHANGED store
    BY <1>5, Zenon DEF Sweep, SweepBegin, SweepHead, SweepBytes, SweepMark, SweepCommit, SweepSkips, SweepRollback,
       SweepPublishes, store
  <2> QED
    BY <2>1, <1>0, Zenon DEF StoreOK, store
<1>6. ASSUME UNCHANGED vars
      PROVE  StoreOK'
  BY <1>6, <1>0, Zenon DEF StoreOK, vars, store
<1> QED
  BY <1>1, <1>2, <1>3, <1>4, <1>5, <1>6, NextCases, Zenon

LEMMA SweepType ==
    ASSUME TypeOK, SweepShape, [Next]_vars
    PROVE  SweepOK'
<1>0. SweepOK
  BY TypeParts, Zenon
<1>1. ASSUME UNCHANGED sweep
      PROVE  SweepOK'
  BY <1>1, <1>0, Zenon DEF SweepOK, sweep
<1>2. ASSUME NEW p \in Proc, Request(p)
      PROVE  SweepOK'
  BY <1>1, <1>2, RequestLocal, Zenon DEF Alone
<1>3. ASSUME NEW u \in Upload, Client(u) \/ Purge(u)
      PROVE  SweepOK'
  BY <1>1, <1>3, Zenon DEF Client, Create, UrlExpires, Put, Purge
<1>4. ASSUME SweepBegin
      PROVE  SweepOK'
  BY Zenon, <1>4, <1>0 DEF SweepBegin, SweepOK, Stale
<1>5. ASSUME NEW u \in Upload, SweepHead(u)
      PROVE  SweepOK'
  BY Zenon, <1>5, <1>0 DEF SweepHead, NextUpload, SweepOK
<1>6. ASSUME SweepBytes
      PROVE  SweepOK'
  <2>1. cur \in Upload
    BY Zenon, <1>6, CurIs DEF SweepBytes
  <2> QED
    BY Zenon, <1>6, <2>1, <1>0 DEF SweepBytes, NextUpload, SweepOK
<1>7. ASSUME SweepCopy \/ SweepDrop \/ SweepSkips
      PROVE  SweepOK'
  BY Zenon, <1>7, <1>0 DEF SweepCopy, SweepDrop, SweepSkips, NextUpload, SweepOK
<1>8. ASSUME SweepMark
      PROVE  SweepOK'
  <2>1. cur \in Upload
    BY Zenon, <1>8, CurIs DEF SweepMark
  <2> QED
    BY Zenon, <1>8, <2>1, <1>0 DEF SweepMark, SweepOK
<1>9. ASSUME SweepCommit \/ SweepRollback
      PROVE  SweepOK'
  BY Zenon, <1>9, <1>0 DEF SweepCommit, SweepRollback, SweepOver, SweepOK
<1>10. ASSUME UNCHANGED vars
       PROVE  SweepOK'
  BY <1>1, <1>10, Zenon DEF vars
<1> QED
  BY <1>2, <1>3, <1>4, <1>5, <1>6, <1>7, <1>8, <1>9, <1>10, NextCases, Zenon DEF Sweep

LEMMA HistoryType ==
    ASSUME TypeOK, Requests, SweepShape, [Next]_vars
    PROVE  HistoryOK'
<1>0. HistoryOK /\ SweepOK
  BY TypeParts, Zenon
<1>1. faults' \in 0..MaxFaults
  <2>1. faults' = faults \/ Fault
    BY Zenon DEF Next, Step, Sweep, Create, UrlExpires, Purge, Put, Head, Bytes, Copy, Mark, Fail, Drop, Tombstone, Erase,
       RequestFails, CircuitOpen, ConfirmRead, DeleteRead, SweepBegin, SweepHead, SweepBytes, SweepCopy, SweepMark, SweepDrop,
       SweepCommit, SweepSkips, SweepRollback, vars
  <2> QED
    BY Zenon, <2>1, <1>0, FaultType DEF HistoryOK
<1>2. ASSUME UNCHANGED <<deleting, crossed, halfway>>
      PROVE  HistoryOK'
  BY <1>2, <1>0, <1>1, Zenon DEF HistoryOK
<1>3. ASSUME NEW p \in Proc, Step(p) \/ CircuitOpen(p)
      PROVE  HistoryOK'
  <2>1. CASE Tombstone(p)
    <3>1. Found(reach[p]) \subseteq Upload
      BY Zenon, TypeParts DEF LocalOK, Found
    <3>2. deleting' \in SUBSET Upload /\ crossed' \in SUBSET Upload /\ UNCHANGED halfway
      BY <2>1, <3>1, <1>0, Zenon DEF Tombstone, HistoryOK
    <3> QED
      BY <3>2, <1>0, <1>1, Zenon DEF HistoryOK
  <2>2. CASE ~Tombstone(p)
    BY <1>3, <2>2, <1>2, Zenon DEF Step, Head, Bytes, Copy, Mark, Fail, Drop, Erase, CircuitOpen
  <2> QED
    BY Zenon, <2>1, <2>2
<1>4. ASSUME NEW p \in Proc, RequestFails(p)
      PROVE  HistoryOK'
  <2>1. pc[p] \in {"copy", "mark"} => up[p] \in Upload
    BY Zenon, UpIs DEF Confirming
  <2>2. UNCHANGED <<deleting, crossed>> /\ halfway' \in SUBSET Upload
    BY Zenon, <1>4, <2>1, <1>0 DEF RequestFails, HistoryOK
  <2> QED
    BY <2>2, <1>0, <1>1, Zenon DEF HistoryOK
<1>5. ASSUME NEW p \in Proc, NEW u \in Upload, ConfirmRead(p, u)
      PROVE  HistoryOK'
  <2>1. UNCHANGED <<deleting, halfway>> /\ (crossed' = crossed \/ crossed' = crossed \cup {u})
    BY <1>5, Zenon DEF ConfirmRead
  <2> QED
    BY Zenon, <2>1, <1>0, <1>1 DEF HistoryOK
<1>6. ASSUME NEW p \in Proc, NEW uploads \in SUBSET Upload, DeleteRead(p, uploads)
      PROVE  HistoryOK'
  <2>1. /\ deleting' = deleting \cup Found(uploads) /\ crossed' = crossed \cup (Found(uploads) \cap Busy)
        /\ UNCHANGED halfway
    BY <1>6, Zenon DEF DeleteRead
  <2>2. Found(uploads) \subseteq Upload
    BY Zenon DEF Found
  <2> QED
    BY Zenon, <2>1, <2>2, <1>0, <1>1 DEF HistoryOK
<1>7. ASSUME NEW u \in Upload, Client(u)
      PROVE  HistoryOK'
  BY <1>7, <1>2, Zenon DEF Client, Create, UrlExpires, Put
<1>8. ASSUME NEW u \in Upload, Purge(u)
      PROVE  HistoryOK'
  <2>1. UNCHANGED <<deleting, crossed>> /\ (halfway' = halfway \/ halfway' = halfway \cup {u})
    BY <1>8, Zenon DEF Purge
  <2> QED
    BY Zenon, <2>1, <1>0, <1>1 DEF HistoryOK
<1>9. ASSUME SweepBegin
      PROVE  HistoryOK'
  <2>1. UNCHANGED <<deleting, halfway>> /\ crossed' = crossed \cup (Stale \cap Busy)
    BY <1>9, Zenon DEF SweepBegin
  <2>2. Stale \subseteq Upload
    BY Zenon DEF Stale
  <2> QED
    BY Zenon, <2>1, <2>2, <1>0, <1>1 DEF HistoryOK
<1>10. ASSUME SweepRollback
       PROVE  HistoryOK'
  <2>1. spc = "mark" => cur \in Upload
    BY Zenon, CurIs
  <2>2. UNCHANGED <<deleting, crossed>> /\ halfway' \in SUBSET Upload
    BY Zenon, <1>10, <2>1, <1>0 DEF SweepRollback, HistoryOK, SweepOK
  <2> QED
    BY <2>2, <1>0, <1>1, Zenon DEF HistoryOK
<1>11. ASSUME Sweep, ~SweepBegin
       PROVE  HistoryOK'
  BY <1>11, <1>2, Zenon DEF Sweep, SweepHead, SweepBytes, SweepCopy, SweepMark, SweepDrop, SweepCommit
<1>13. ASSUME SweepSkips
       PROVE  HistoryOK'
  <2>1. spc = "copy" => cur \in Upload
    BY Zenon, CurIs
  <2>2. UNCHANGED <<deleting, crossed>> /\ (halfway' = halfway \/ (spc = "copy" /\ halfway' = halfway \cup {cur}))
    BY <1>13, Zenon DEF SweepSkips
  <2> QED
    BY Zenon, <2>1, <2>2, <1>0, <1>1 DEF HistoryOK
<1>12. ASSUME UNCHANGED vars
       PROVE  HistoryOK'
  BY <1>12, <1>2, Zenon DEF vars
<1> QED
  BY <1>3, <1>4, <1>5, <1>6, <1>7, <1>8, <1>9, <1>10, <1>11, <1>12, <1>13, NextCases, Zenon DEF Request

LEMMA TypePreserved ==
    ASSUME TypeOK, Requests, SweepShape, [Next]_vars
    PROVE  TypeOK'
<1>1. LocalOK'
  <2>0. LocalOK
    BY TypeParts, Zenon
  <2>1. ASSUME NEW p \in Proc, Request(p)
        PROVE  LocalOK'
    BY <2>1, RequestLocal, Zenon
  <2>2. ASSUME NEW u \in Upload, NEW o, Put(u, o)
        PROVE  LocalOK'
    BY Zenon, <2>2, <2>0 DEF Put, LocalOK
  <2>3. ASSUME UNCHANGED local
        PROVE  LocalOK'
    BY <2>3, <2>0, Zenon DEF local, LocalOK
  <2>4. ASSUME NEW u \in Upload, Client(u) \/ Purge(u)
        PROVE  LocalOK'
    BY <2>2, <2>3, <2>4, Zenon DEF Client, Create, UrlExpires, Purge
  <2>5. ASSUME Sweep \/ SweepSkips \/ SweepRollback
        PROVE  LocalOK'
    BY <2>3, <2>5, Zenon DEF Sweep, SweepBegin, SweepHead, SweepBytes, SweepCopy, SweepMark, SweepDrop, SweepCommit,
       SweepSkips, SweepRollback
  <2>6. ASSUME UNCHANGED vars
        PROVE  LocalOK'
    BY <2>3, <2>6, Zenon DEF vars
  <2> QED
    BY <2>1, <2>4, <2>5, <2>6, NextCases, Zenon
<1> QED
  BY <1>1, TablesType, StoreType, SweepType, HistoryType, TypeParts, Zenon

-----------------------------------------------------------------------------
(* The shapes.                                                             *)

\* deleting is a history variable.
LEMMA DeletingGrows ==
    ASSUME [Next]_vars
    PROVE  deleting \subseteq deleting'
<1>1. \/ UNCHANGED deleting \/ \E p \in Proc : Tombstone(p)
      \/ \E p \in Proc, uploads \in SUBSET Upload : DeleteRead(p, uploads)
  BY Zenon DEF Next, Step, Sweep, Create, UrlExpires, Purge, Put, Head, Bytes, Copy, Mark, Fail, Drop, Erase,
     RequestFails, CircuitOpen, ConfirmRead, SweepBegin, SweepHead, SweepBytes, SweepCopy, SweepMark, SweepDrop,
     SweepCommit, SweepSkips, SweepRollback, vars
<1> QED
  BY <1>1, Zenon DEF DeleteRead, Tombstone

\* What a request about to delete holds.
LEMMA DeleteReadIs ==
    ASSUME TypeOK, NEW p \in Proc, NEW uploads \in SUBSET Upload, DeleteRead(p, uploads)
    PROVE  /\ pc[p] = "idle" /\ pc'[p] = "erase" /\ up' = up
           /\ \A e \in erase'[p] : e[1] \in Found(uploads)
           /\ \A u \in Upload, b \in BOOLEAN : <<u, b>> \in erase'[p] => u \in Found(uploads)
           /\ deleting' = deleting \cup Found(uploads)
           /\ crossed' = crossed \cup (Found(uploads) \cap Busy)
           /\ UNCHANGED <<table, store, halfway>>
<1>0. LocalOK
  BY TypeParts, Zenon
<1>1. pc[p] = "idle" /\ pc'[p] = "erase" /\ up' = up
  BY Zenon, <1>0, GoIs DEF DeleteRead
<1>2. erase'[p] = {<<u, u \in final>> : u \in Found(uploads)}
  BY Zenon, <1>0 DEF DeleteRead, LocalOK
<1>3. \A e \in erase'[p] : e[1] \in Found(uploads)
  BY <1>2
<1>4. \A u \in Upload, b \in BOOLEAN : <<u, b>> \in erase'[p] => u \in Found(uploads)
  BY Zenon, <1>3
<1>5. /\ deleting' = deleting \cup Found(uploads) /\ crossed' = crossed \cup (Found(uploads) \cap Busy)
      /\ UNCHANGED <<table, store, halfway>>
  BY Zenon DEF DeleteRead
<1> QED
  BY <1>1, <1>3, <1>4, <1>5, Zenon

LEMMA ConfirmReadIs ==
    ASSUME TypeOK, NEW p \in Proc, NEW u \in Upload, ConfirmRead(p, u)
    PROVE  /\ pc[p] = "idle" /\ pc'[p] = "head" /\ up'[p] = u /\ erase' = erase
           /\ row[u] = "PENDING" /\ u \notin dead
           /\ crossed \subseteq crossed' /\ (u \in Busy => u \in crossed')
           /\ UNCHANGED <<table, store, deleting, halfway, moved>>
<1>0. LocalOK
  BY TypeParts, Zenon
<1>1. pc[p] = "idle" /\ pc'[p] = "head" /\ up'[p] = u
  BY Zenon, <1>0, GoIs DEF ConfirmRead, LocalOK
<1>2. /\ row[u] = "PENDING" /\ u \notin dead /\ erase' = erase
      /\ UNCHANGED <<table, store, deleting, halfway, moved>>
  BY Zenon DEF ConfirmRead
<1>3. crossed \subseteq crossed' /\ (u \in Busy => u \in crossed')
  BY Zenon DEF ConfirmRead
<1> QED
  BY <1>1, <1>2, <1>3, Zenon

\* A step of confirmUpload goes on with the upload, or is the last one.
LEMMA ConfirmIs ==
    ASSUME TypeOK, NEW p \in Proc, Head(p) \/ Bytes(p) \/ Copy(p) \/ Mark(p) \/ CircuitOpen(p)
    PROVE  /\ pc[p] \in Confirming
           /\ \/ pc'[p] \in Confirming \cup {"drop"} /\ up'[p] = up[p] /\ erase'[p] = erase[p]
              \/ End(p)
<1>0. LocalOK
  BY TypeParts, Zenon
<1>1. pc[p] \in Confirming
  BY Zenon DEF Confirming, Head, Bytes, Copy, Mark, CircuitOpen
<1>2. ASSUME ~End(p)
      PROVE  up'[p] = up[p] /\ erase'[p] = erase[p] /\ pc'[p] \in Confirming \cup {"drop"}
  <2>1. UNCHANGED <<up, erase>>
    BY <1>2, Zenon DEF Head, Bytes, Copy, Mark, CircuitOpen
  <2>2. pc'[p] \in {"fail", "copy", "bytes", "mark", "drop"}
    <3>1. CASE Head(p)
      BY Zenon, <3>1, <1>0 DEF Head, Go, LocalOK
    <3>2. CASE Bytes(p) \/ Copy(p) \/ Mark(p) \/ CircuitOpen(p)
      <4>1. Go(p, "mark") \/ Go(p, "fail") \/ Go(p, "drop") \/ Go(p, "copy")
        BY <3>2, <1>2, Zenon DEF Bytes, Copy, Mark, CircuitOpen
      <4> QED
        BY Zenon, <4>1, <1>0, GoIs
    <3> QED
      BY <3>1, <3>2, Zenon
  <2> QED
    BY Zenon, <2>1, <2>2 DEF Confirming
<1> QED
  BY <1>1, <1>2, Zenon

LEMMA EndedIs ==
    ASSUME TypeOK, NEW p \in Proc, End(p)
    PROVE  RequestOk(p)' /\ up'[p] = None /\ erase'[p] = {} /\ pc'[p] = "idle"
<1>0. LocalOK
  BY TypeParts, Zenon
<1>1. pc'[p] = "idle" /\ up'[p] = None /\ erase'[p] = {}
  BY <1>0, EndIs, Zenon
<1> QED
  BY Zenon, <1>1 DEF RequestOk, Confirming

LEMMA RequestsPreserved ==
    ASSUME TypeOK, Requests, [Next]_vars
    PROVE  Requests'
<1>0. LocalOK
  BY TypeParts, Zenon
<1>a. deleting \subseteq deleting'
  BY Zenon, DeletingGrows
<1>b. ASSUME NEW q \in Proc, pc'[q] = pc[q], up'[q] = up[q], erase'[q] = erase[q]
      PROVE  RequestOk(q)'
  BY <1>a, <1>b, Zenon DEF Requests, RequestOk
<1>1. ASSUME NEW p \in Proc, Request(p)
      PROVE  Requests'
  <2>1. SUFFICES RequestOk(p)'
    BY <2>1, <1>b, <1>1, RequestLocal, Zenon DEF Requests, Alone
  <2>2. CASE End(p)
    BY <2>2, EndedIs, Zenon
  <2>3. CASE ~End(p)
    <3>1. CASE Head(p) \/ Bytes(p) \/ Copy(p) \/ Mark(p) \/ CircuitOpen(p)
      <4>1. RequestOk(p) /\ pc[p] \in Confirming /\ pc'[p] \in Confirming \cup {"drop"} /\ up'[p] = up[p] /\ erase'[p] = erase[p]
        BY <2>3, <3>1, ConfirmIs, Zenon DEF Requests
      <4> QED
        BY Zenon, <4>1, <1>a DEF RequestOk, Confirming
    <3>2. CASE \E objects \in SUBSET erase[p] : Erase(p, objects)
      <4>1. RequestOk(p) /\ pc[p] = "erase" /\ Go(p, "tombstone") /\ UNCHANGED <<up, erase>>
        BY <3>2, Zenon DEF Requests, Erase
      <4>2. pc'[p] = "tombstone"
        BY Zenon, <4>1, <1>0, GoIs
      <4> QED
        BY Zenon, <4>1, <4>2, <1>a DEF RequestOk, Confirming
    <3>3. CASE \E u \in Upload : ConfirmRead(p, u)
      <4>1. RequestOk(p) /\ pc[p] = "idle" /\ pc'[p] = "head" /\ up'[p] \in Upload /\ erase' = erase
        BY <3>3, ConfirmReadIs, Zenon DEF Requests
      <4> QED
        BY Zenon, <4>1 DEF RequestOk, Confirming
    <3>4. CASE \E uploads \in SUBSET Upload : DeleteRead(p, uploads)
      <4>1. PICK uploads \in SUBSET Upload : DeleteRead(p, uploads)
        BY Zenon, <3>4
      <4>2. /\ RequestOk(p) /\ pc[p] = "idle" /\ pc'[p] = "erase" /\ up' = up
            /\ \A e \in erase'[p] : e[1] \in deleting'
        <5>1. /\ pc[p] = "idle" /\ pc'[p] = "erase" /\ up' = up
              /\ \A e \in erase'[p] : e[1] \in Found(uploads)
              /\ deleting' = deleting \cup Found(uploads)
          BY <4>1, DeleteReadIs, Zenon
        <5> QED
          BY <5>1, Zenon DEF Requests
      <4> QED
        BY Zenon, <4>2 DEF RequestOk, Confirming
    <3>5. ~(Fail(p) \/ Drop(p) \/ Tombstone(p) \/ RequestFails(p))
      BY <2>3, Zenon DEF Fail, Drop, Tombstone, RequestFails
    <3> QED
      BY <1>1, <3>1, <3>2, <3>3, <3>4, <3>5, Zenon DEF Request, Step
  <2> QED
    BY Zenon, <2>2, <2>3
<1>2. ASSUME UNCHANGED <<pc, up, erase>>
      PROVE  Requests'
  BY <1>2, <1>b, Zenon DEF Requests
<1>3. ASSUME NEW u \in Upload, Client(u) \/ Purge(u)
      PROVE  Requests'
  BY <1>2, <1>3, Zenon DEF Client, Create, UrlExpires, Put, Purge, local
<1>4. ASSUME Sweep \/ SweepSkips \/ SweepRollback \/ UNCHANGED vars
      PROVE  Requests'
  BY <1>2, <1>4, Zenon DEF Sweep, SweepBegin, SweepHead, SweepBytes, SweepCopy, SweepMark, SweepDrop, SweepCommit,
     SweepSkips, SweepRollback, vars, local
<1> QED
  BY <1>1, <1>3, <1>4, NextCases, Zenon

\* Rows do not become unborn again.
LEMMA RowsStay ==
    ASSUME TypeOK, Requests, [Next]_vars, NEW u \in Upload, row[u] # "none"
    PROVE  row'[u] # "none"
<1>0. TablesOK /\ LocalOK
  BY TypeParts, Zenon
<1>1. CASE UNCHANGED row
  BY Zenon, <1>1
<1>2. CASE \E v \in Upload : Create(v) \/ Purge(v)
  BY Zenon, <1>2, <1>0 DEF Create, Purge, TablesOK
<1>3. CASE \E p \in Proc : Mark(p) \/ Fail(p)
  <2>1. PICK p \in Proc : Mark(p) \/ Fail(p)
    BY Zenon, <1>3
  <2>2. up[p] \in Upload
    BY Zenon, <2>1, UpIs DEF Mark, Fail, Confirming
  <2> QED
    BY Zenon, <2>1, <2>2, <1>0 DEF Mark, Fail, TablesOK
<1>4. CASE SweepCommit
  BY Zenon, <1>4, <1>0 DEF SweepCommit, TablesOK
<1>5. UNCHANGED row \/ SweepCommit \/ (\E p \in Proc : Mark(p) \/ Fail(p)) \/ \E v \in Upload : Create(v) \/ Purge(v)
  BY Zenon DEF Next, Step, Sweep, UrlExpires, Put, Head, Bytes, Copy, Drop, Tombstone, Erase,
     RequestFails, CircuitOpen, ConfirmRead, DeleteRead, SweepBegin, SweepHead, SweepBytes, SweepCopy, SweepMark, SweepDrop,
     SweepSkips, SweepRollback, vars, table
<1> QED
  BY <1>1, <1>2, <1>3, <1>4, <1>5, Zenon

LEMMA SweepShapePreserved ==
    ASSUME TypeOK, Requests, SweepShape, [Next]_vars
    PROVE  SweepShape'
<1>0. TablesOK /\ SweepOK /\ StoreOK /\ None \notin Upload
  BY TypeParts, UploadAssumption, Zenon
<1>a. ASSUME NEW u \in Upload, row[u] # "none"
      PROVE  row'[u] # "none"
  BY Zenon, <1>a, RowsStay
<1>b. ASSUME UNCHANGED <<sweep, kind>>, \A u \in Upload : row[u] # "none" /\ u \notin url => u \notin url'
      PROVE  SweepShape'
  BY <1>a, <1>b, Zenon DEF SweepShape, sweep
<1>1. ASSUME NEW p \in Proc, Request(p)
      PROVE  SweepShape'
  BY <1>1, <1>b, RequestLocal, Zenon DEF Alone
<1>2. ASSUME NEW u \in Upload, Client(u) \/ Purge(u)
      PROVE  SweepShape'
  <2>1. UNCHANGED <<sweep, kind>>
    BY <1>2, Zenon DEF Client, Create, UrlExpires, Put, Purge, table
  <2>2. \A v \in Upload : row[v] # "none" /\ v \notin url => v \notin url'
    BY <1>2, Zenon DEF Client, Create, UrlExpires, Put, Purge
  <2> QED
    BY <2>1, <2>2, <1>b, Zenon
<1>3. ASSUME Sweep \/ SweepSkips \/ SweepRollback
      PROVE  SweepShape'
  <2>1. UNCHANGED <<kind, url>>
    BY <1>3, Zenon DEF Sweep, SweepBegin, SweepHead, SweepBytes, SweepCopy, SweepMark, SweepDrop, SweepCommit,
     SweepSkips, SweepRollback, table, store
  <2>2. CASE SweepBegin
    BY <2>1, <2>2, <1>0, <1>a DEF SweepBegin, SweepShape, Stale, SweepOK
  <2>3. CASE \E u \in Upload : SweepHead(u)
    <3>1. PICK u \in Upload : SweepHead(u)
      BY Zenon, <2>3
    <3>2. /\ spc = "pick" /\ u \in todo /\ todo' = todo \ {u} /\ cur = None
          /\ UNCHANGED marked
          /\ \/ orphan' = orphan \cup {u} /\ spc' = "pick" /\ cur' = None
             \/ orphan' = orphan /\ spc' = "pick" /\ cur' = None
             \/ orphan' = orphan /\ spc' \in {"bytes", "copy"} /\ cur' = u /\ kind[u] # "svg"
      BY Zenon, <3>1 DEF SweepHead, NextUpload, SweepShape
    <3> QED
      BY <3>2, <2>1, <1>0, <1>a DEF SweepShape, SweepOK
  <2>4. CASE SweepBytes \/ SweepCopy \/ SweepMark \/ SweepDrop \/ SweepSkips
    <3>1. /\ spc # "idle" /\ todo' \subseteq todo /\ UNCHANGED orphan
          /\ \/ spc' = "pick" /\ cur' = None
             \/ spc = "pick" /\ spc' = spc /\ cur' = cur
             \/ spc # "pick" /\ spc' \in {"copy", "mark", "drop"} /\ cur' = cur
          /\ marked' = marked \/ (marked' = marked \cup {cur} /\ cur' = cur)
      BY Zenon, <2>4 DEF SweepBytes, SweepCopy, SweepMark, SweepDrop, SweepSkips, NextUpload
    <3> QED
      BY Zenon, <3>1, <2>1, <1>0, <1>a DEF SweepShape, SweepOK
  <2>5. CASE SweepCommit \/ SweepRollback
    BY Zenon, <2>5, <2>1, <1>0 DEF SweepCommit, SweepRollback, SweepOver, SweepShape
  <2> QED
    BY <1>3, <2>2, <2>3, <2>4, <2>5, Zenon DEF Sweep
<1>4. ASSUME UNCHANGED vars
      PROVE  SweepShape'
  BY <1>4, <1>b, Zenon DEF vars, table, store
<1> QED
  BY <1>1, <1>2, <1>3, <1>4, NextCases, Zenon

\* What the COMMIT of the sweep does to a row.
LEMMA CommitRows ==
    ASSUME TypeOK, SweepCommit, NEW u \in Upload
    PROVE  \/ row'[u] = "purged" /\ (row[u] = "purged" \/ u \in orphan)
           \/ row'[u] = "UPLOADED" /\ u \in marked
           \/ row'[u] = "FAILED" /\ u \in failed /\ u \notin marked
           \/ row'[u] = row[u] /\ u \notin orphan \cup marked \cup failed
<1>1. row'[u] = IF row[u] = "purged" \/ u \in orphan THEN "purged"
                ELSE IF u \in marked THEN "UPLOADED"
                ELSE IF u \in failed THEN "FAILED" ELSE row[u]
  BY Zenon DEF SweepCommit
<1> QED
  BY Zenon, <1>1

LEMMA RowsPreserved ==
    ASSUME TypeOK, Requests, Rows, [Next]_vars
    PROVE  Rows'
<1>0. TablesOK /\ LocalOK /\ SweepOK
  BY TypeParts, Zenon
<1>a. deleting \subseteq deleting'
  BY Zenon, DeletingGrows
<1>1. ASSUME UNCHANGED <<row, dead, final>>
      PROVE  Rows'
  BY <1>1, <1>a, Zenon DEF Rows
<1>2. ASSUME NEW u \in Upload, Create(u) \/ Purge(u)
      PROVE  Rows'
  <2>1. /\ UNCHANGED <<dead, final>>
        /\ \/ row[u] = "none" /\ row' = [row EXCEPT ![u] = "PENDING"]
           \/ row' = [row EXCEPT ![u] = "purged"]
    BY <1>2, Zenon DEF Create, Purge
  <2> QED
    BY Zenon, <2>1, <1>a, <1>0 DEF Rows, TablesOK
<1>3. ASSUME NEW p \in Proc, Mark(p)
      PROVE  Rows'
  <2>1. up[p] \in Upload
    BY Zenon, <1>3, UpIs DEF Mark, Confirming
  <2>2. CASE UNCHANGED <<row, final>>
    BY <1>3, <2>2, <1>1, Zenon DEF Mark
  <2>3. CASE ~UNCHANGED <<row, final>>
    <3>1. row' = [row EXCEPT ![up[p]] = "UPLOADED"] /\ final' = final \cup {up[p]} /\ dead' = dead
      BY <1>3, <2>3, Zenon DEF Mark
    <3> QED
      BY Zenon, <3>1, <2>1, <1>a, <1>0 DEF Rows, TablesOK
  <2> QED
    BY Zenon, <2>2, <2>3
<1>4. ASSUME NEW p \in Proc, Fail(p)
      PROVE  Rows'
  <2>1. up[p] \in Upload
    BY Zenon, <1>4, UpIs DEF Fail, Confirming
  <2>2. UNCHANGED <<dead, final>> /\ (row' = [row EXCEPT ![up[p]] = "FAILED"] \/ row' = row)
    BY Zenon, <1>4, <2>1, <1>0 DEF Fail, TablesOK
  <2> QED
    BY Zenon, <2>1, <2>2, <1>a, <1>0 DEF Rows, TablesOK
<1>5. ASSUME NEW p \in Proc, Tombstone(p)
      PROVE  Rows'
  <2>1. /\ UNCHANGED <<row, final>>
        /\ dead' = dead \cup Found(reach[p]) /\ deleting' = deleting \cup Found(reach[p])
    BY <1>5, Zenon DEF Tombstone
  <2>2. dead' \subseteq deleting'
    BY <2>1, Zenon DEF Rows
  <2> QED
    BY <2>1, <2>2, Zenon DEF Rows
<1>6. ASSUME SweepCommit
      PROVE  Rows'
  <2>1. dead' = dead /\ final' = final \cup marked
    BY <1>6, Zenon DEF SweepCommit
  <2>2. \A u \in Upload : row'[u] = "purged" \/ (u \in marked /\ row'[u] = "UPLOADED") \/ (row'[u] = "FAILED" /\ u \notin marked)
                           \/ (row'[u] = row[u] /\ u \notin marked)
    BY <1>6, CommitRows, Zenon
  <2> QED
    BY Zenon, <2>1, <2>2, <1>a, <1>0 DEF Rows, SweepOK, TablesOK
<1>7. \/ UNCHANGED <<row, dead, final>> \/ SweepCommit
      \/ \E p \in Proc : Mark(p) \/ Fail(p) \/ Tombstone(p)
      \/ \E v \in Upload : Create(v) \/ Purge(v)
  BY ZenonT(60) DEF Next, Step, Sweep, UrlExpires, Put, Head, Bytes, Copy, Drop, Erase,
     RequestFails, CircuitOpen, ConfirmRead, DeleteRead, SweepBegin, SweepHead, SweepBytes, SweepCopy, SweepMark, SweepDrop,
     SweepSkips, SweepRollback, vars, table
<1> QED
  BY <1>1, <1>2, <1>3, <1>4, <1>5, <1>6, <1>7, Zenon

-----------------------------------------------------------------------------
(* Served.                                                                 *)

\* What happens under the final keys.
LEMMA PublicBecomes ==
    ASSUME [Next]_vars
    PROVE  \/ UNCHANGED public \/ SweepPublishes
           \/ \E p \in Proc : pc[p] = "copy" /\ Publish(p)
           \/ \E p \in Proc : \E objects \in SUBSET erase[p] : Erase(p, objects)
           \/ \E v \in Upload : Purge(v)
<1>1. ASSUME NEW p \in Proc, Request(p)
      PROVE  \/ UNCHANGED public \/ (pc[p] = "copy" /\ Publish(p))
             \/ \E objects \in SUBSET erase[p] : Erase(p, objects)
  BY <1>1, Zenon DEF Request, Step, Head, Bytes, Copy, Mark, Fail, Drop, Tombstone, RequestFails, CircuitOpen, ConfirmRead,
     DeleteRead, store
<1>2. ASSUME NEW u \in Upload, Client(u)
      PROVE  UNCHANGED public
  BY <1>2, Zenon DEF Client, Create, UrlExpires, Put, store
<1>3. ASSUME Sweep \/ SweepSkips \/ SweepRollback
      PROVE  UNCHANGED public \/ SweepPublishes
  BY <1>3, Zenon DEF Sweep, SweepBegin, SweepHead, SweepBytes, SweepCopy, SweepMark, SweepDrop, SweepCommit, SweepSkips,
     SweepRollback, SweepPublishes, store
<1>4. ASSUME UNCHANGED vars
      PROVE  UNCHANGED public
  BY <1>4, Zenon DEF vars, store
<1> QED
  BY <1>1, <1>2, <1>3, <1>4, NextCases, Zenon

\* Only a delete takes a published object away.
LEMMA PublicStays ==
    ASSUME TypeOK, Requests, SweepShape, Rows, [Next]_vars,
           NEW u \in Upload, u \notin deleting, public[u] # "none"
    PROVE  public'[u] # "none"
<1>0. TablesOK /\ StoreOK /\ LocalOK
  BY TypeParts, Zenon
<1>1. CASE UNCHANGED public
  BY Zenon, <1>1
<1>2. CASE \E p \in Proc : pc[p] = "copy" /\ Publish(p)
  <2>1. PICK p \in Proc : pc[p] = "copy" /\ Publish(p)
    BY Zenon, <1>2
  <2>2. up[p] \in Upload
    BY Zenon, <2>1, UpIs DEF Confirming
  <2>3. \/ public' = [public EXCEPT ![up[p]] = "good"]
        \/ pending[up[p]] # "none" /\ public' = [public EXCEPT ![up[p]] = pending[up[p]]]
    BY <2>1, PublishIs, Zenon
  <2> QED
    BY Zenon, <2>2, <2>3, <1>0 DEF StoreOK
<1>3. CASE \E p \in Proc : \E objects \in SUBSET erase[p] : Erase(p, objects)
  <2>p. PICK p \in Proc : \E objects \in SUBSET erase[p] : Erase(p, objects)
    BY Zenon, <1>3
  <2>1. PICK objects \in SUBSET erase[p] : Erase(p, objects)
    BY Zenon, <2>p
  <2>2. <<u, TRUE>> \notin objects
    <3>1. \A e \in erase[p] : e[1] \in deleting
      BY Zenon DEF Requests, RequestOk
    <3> QED
      BY Zenon, <3>1
  <2>3. public' = [v \in Upload |-> IF <<v, TRUE>> \in objects THEN "none" ELSE public[v]]
    BY <2>1, Zenon DEF Erase
  <2> QED
    BY Zenon, <2>2, <2>3
<1>4. CASE \E v \in Upload : Purge(v)
  <2>1. PICK v \in Upload : Purge(v)
    BY Zenon, <1>4
  <2>2. v # u
    BY <2>1, Zenon DEF Purge, Rows
  <2>3. UNCHANGED public \/ public' = [public EXCEPT ![v] = IF v \in final THEN "none" ELSE @]
    BY <2>1, Zenon DEF Purge
  <2> QED
    BY Zenon, <2>2, <2>3, <1>0 DEF StoreOK
<1>5. CASE SweepPublishes
  BY Zenon, <1>5, <1>0, CurIs DEF SweepPublishes, StoreOK
<1> QED
  BY <1>1, <1>2, <1>3, <1>4, <1>5, PublicBecomes, Zenon

\* Only a request or a sweep that has published marks a row.
LEMMA UploadedWas ==
    ASSUME TypeOK, Requests, [Next]_vars, NEW u \in Upload, row'[u] = "UPLOADED"
    PROVE  row[u] = "UPLOADED" \/ u \in marked \/ \E p \in Proc : pc[p] = "mark" /\ up[p] = u
<1>0. TablesOK /\ LocalOK
  BY TypeParts, Zenon
<1>1. CASE UNCHANGED row
  BY Zenon, <1>1
<1>2. CASE \E v \in Upload : Create(v) \/ Purge(v)
  BY Zenon, <1>2, <1>0 DEF Create, Purge, TablesOK
<1>3. CASE \E p \in Proc : Mark(p) \/ Fail(p)
  <2>1. PICK p \in Proc : Mark(p) \/ Fail(p)
    BY Zenon, <1>3
  <2>2. up[p] \in Upload
    BY Zenon, <2>1, UpIs DEF Mark, Fail, Confirming
  <2>3. CASE Mark(p)
    BY Zenon, <2>3, <2>2, <1>0 DEF Mark, TablesOK
  <2>4. CASE Fail(p)
    BY Zenon, <2>4, <2>2, <1>0 DEF Fail, TablesOK
  <2> QED
    BY Zenon, <2>1, <2>3, <2>4
<1>4. CASE SweepCommit
  BY Zenon, <1>4, CommitRows
<1>5. UNCHANGED row \/ SweepCommit \/ (\E p \in Proc : Mark(p) \/ Fail(p)) \/ \E v \in Upload : Create(v) \/ Purge(v)
  BY Zenon DEF Next, Step, Sweep, UrlExpires, Put, Head, Bytes, Copy, Drop, Tombstone, Erase,
     RequestFails, CircuitOpen, ConfirmRead, DeleteRead, SweepBegin, SweepHead, SweepBytes, SweepCopy, SweepMark, SweepDrop,
     SweepSkips, SweepRollback, vars, table
<1> QED
  BY <1>1, <1>2, <1>3, <1>4, <1>5, Zenon

\* A request comes to the UPDATE by publishing.
LEMMA MarkWas ==
    ASSUME TypeOK, Requests, [Next]_vars, NEW p \in Proc, pc'[p] = "mark"
    PROVE  /\ up'[p] = up[p] /\ up[p] \in Upload
           /\ pc[p] = "mark" \/ (pc[p] = "copy" /\ Copy(p) /\ public'[up[p]] # "none")
<1>0. TablesOK /\ LocalOK /\ StoreOK
  BY TypeParts, Zenon
<1>1. CASE pc'[p] = pc[p] /\ up'[p] = up[p]
  BY Zenon, <1>1, UpIs DEF Confirming
<1>2. CASE Copy(p)
  <2>1. ~End(p) /\ up[p] \in Upload
    BY Zenon, <1>2, EndedIs, UpIs DEF Copy, Confirming
  <2>2. up' = up /\ pc[p] = "copy" /\ Publish(p)
    BY <1>2, <2>1, Zenon DEF Copy
  <2>3. \/ public' = [public EXCEPT ![up[p]] = "good"]
        \/ pending[up[p]] # "none" /\ public' = [public EXCEPT ![up[p]] = pending[up[p]]]
    BY <2>2, PublishIs, Zenon
  <2> QED
    BY Zenon, <2>1, <2>2, <2>3, <1>2, <1>0 DEF StoreOK
<1>3. CASE Request(p) /\ ~Copy(p)
  <2>0. ~End(p)
    BY Zenon, EndedIs
  <2>1. CASE \E u \in Upload : ConfirmRead(p, u)
    BY Zenon, <2>1, ConfirmReadIs
  <2>2. CASE \E uploads \in SUBSET Upload : DeleteRead(p, uploads)
    BY Zenon, <2>2, DeleteReadIs
  <2>3. CASE Head(p)
    BY Zenon, <2>3, <1>0 DEF Head, Go, LocalOK
  <2>4. CASE Bytes(p) \/ Mark(p) \/ CircuitOpen(p)
    <3>1. Go(p, "drop") \/ Go(p, "fail") \/ Go(p, "copy")
      BY <2>0, <2>4, Zenon DEF Bytes, Mark, CircuitOpen
    <3> QED
      BY <3>1, <1>0, GoIs
  <2>5. CASE \E objects \in SUBSET erase[p] : Erase(p, objects)
    <3>1. Go(p, "tombstone")
      BY <2>5, Zenon DEF Erase
    <3> QED
      BY <3>1, <1>0, GoIs
  <2>6. ~(Fail(p) \/ Drop(p) \/ Tombstone(p) \/ RequestFails(p))
    BY <2>0, Zenon DEF Fail, Drop, Tombstone, RequestFails
  <2> QED
    BY <1>3, <2>1, <2>2, <2>3, <2>4, <2>5, <2>6, Zenon DEF Request, Step
<1>4. CASE \E q \in Proc \ {p} : Request(q)
  BY <1>1, <1>4, RequestLocal, Zenon DEF Alone
<1>5. CASE UNCHANGED <<pc, up>>
  BY <1>1, <1>5, Zenon
<1>6. Request(p) \/ (\E q \in Proc \ {p} : Request(q)) \/ UNCHANGED <<pc, up>>
  <2>1. ASSUME NEW u \in Upload, Client(u) \/ Purge(u)
        PROVE  UNCHANGED <<pc, up>>
    BY <2>1, Zenon DEF Client, Create, UrlExpires, Put, Purge, local
  <2>2. ASSUME Sweep \/ SweepSkips \/ SweepRollback \/ UNCHANGED vars
        PROVE  UNCHANGED <<pc, up>>
    BY <2>2, Zenon DEF Sweep, SweepBegin, SweepHead, SweepBytes, SweepCopy, SweepMark, SweepDrop, SweepCommit,
       SweepSkips, SweepRollback, vars, local
  <2> QED
    BY <2>1, <2>2, NextCases, Zenon
<1> QED
  BY <1>2, <1>3, <1>4, <1>5, <1>6, Zenon

\* So does the sweep.
LEMMA SweepMarkWas ==
    ASSUME TypeOK, SweepShape, [Next]_vars
    PROVE  /\ spc' = "mark" => cur' = cur /\ (spc = "mark" \/ (spc = "copy" /\ public'[cur] # "none"))
           /\ \A u \in marked' : u \in marked \/ (spc = "mark" /\ u = cur /\ row[u] = "PENDING" /\ u \notin dead)
<1>0. StoreOK
  BY TypeParts, Zenon
<1>1. CASE UNCHANGED <<spc, cur, marked>>
  BY <1>1, Zenon
<1>2. CASE SweepCopy
  <2>1. cur \in Upload
    BY Zenon, <1>2, CurIs DEF SweepCopy
  <2> QED
    BY Zenon, <1>2, <2>1, <1>0 DEF SweepCopy, NextUpload, StoreOK
<1>3. CASE SweepMark
  BY Zenon, <1>3 DEF SweepMark
<1>4. CASE SweepBegin \/ (\E u \in Upload : SweepHead(u)) \/ SweepBytes \/ SweepDrop \/ SweepSkips
  BY Zenon, <1>4 DEF SweepBegin, SweepHead, SweepBytes, SweepDrop, SweepSkips, NextUpload
<1>5. CASE SweepCommit \/ SweepRollback
  BY Zenon, <1>5 DEF SweepCommit, SweepRollback, SweepOver
<1>6. ASSUME NEW p \in Proc, Request(p)
      PROVE  UNCHANGED <<spc, cur, marked>>
  BY <1>6, RequestLocal, Zenon DEF Alone, sweep
<1>7. ASSUME NEW u \in Upload, Client(u) \/ Purge(u)
      PROVE  UNCHANGED <<spc, cur, marked>>
  BY <1>7, Zenon DEF Client, Create, UrlExpires, Put, Purge, sweep
<1>8. ASSUME UNCHANGED vars
      PROVE  UNCHANGED <<spc, cur, marked>>
  BY <1>8, Zenon DEF vars, sweep
<1> QED
  BY <1>1, <1>2, <1>3, <1>4, <1>5, <1>6, <1>7, <1>8, NextCases, Zenon DEF Sweep

LEMMA ServedPreserved ==
    ASSUME TypeOK, Requests, SweepShape, Rows, Served, [Next]_vars
    PROVE  Served'
<1>0. SweepOK /\ SweepOK'
  BY TypeParts, SweepType, Zenon
<1>a. deleting \subseteq deleting'
  BY Zenon, DeletingGrows
<1>b. \A u \in Upload : u \notin deleting' /\ public[u] # "none" => public'[u] # "none"
  BY <1>a, PublicStays, Zenon
<1>1. \A u \in Upload \ deleting' : row'[u] = "UPLOADED" => public'[u] # "none"
  <2> SUFFICES ASSUME NEW u \in Upload \ deleting', row'[u] = "UPLOADED"
               PROVE  public[u] # "none"
    BY <1>b, Zenon
  <2>1. row[u] = "UPLOADED" \/ u \in marked \/ \E p \in Proc : pc[p] = "mark" /\ up[p] = u
    BY UploadedWas, Zenon
  <2>2. u \in Upload \ deleting
    BY <1>a, Zenon
  <2>3. ASSUME NEW p \in Proc, pc[p] = "mark", up[p] = u
        PROVE  public[u] # "none"
    BY Zenon, <2>2, <2>3 DEF Served
  <2> QED
    BY <2>1, <2>2, <2>3, Zenon DEF Served
<1>2. \A p \in Proc : pc'[p] = "mark" /\ up'[p] \notin deleting' => public'[up'[p]] # "none"
  <2> SUFFICES ASSUME NEW p \in Proc, pc'[p] = "mark", up'[p] \notin deleting'
               PROVE  public'[up'[p]] # "none"
    BY Zenon
  <2>1. up'[p] = up[p] /\ up[p] \in Upload /\ (pc[p] = "mark" \/ public'[up[p]] # "none")
    BY MarkWas, Zenon
  <2> QED
    BY <2>1, <1>a, <1>b, Zenon DEF Served
<1>3. spc' = "mark" /\ cur' \notin deleting' => public'[cur'] # "none"
  <2> SUFFICES ASSUME spc' = "mark", cur' \notin deleting'
               PROVE  public'[cur'] # "none"
    BY Zenon
  <2>1. cur' = cur /\ (spc = "mark" \/ public'[cur] # "none")
    BY SweepMarkWas, Zenon
  <2>2. spc = "mark" => cur \in Upload
    BY Zenon, CurIs
  <2> QED
    BY <2>1, <2>2, <1>a, <1>b, Zenon DEF Served
<1>4. \A u \in marked' : u \notin deleting' => public'[u] # "none"
  <2> SUFFICES ASSUME NEW u \in marked', u \notin deleting'
               PROVE  public'[u] # "none"
    BY Zenon
  <2>1. u \in marked \/ (spc = "mark" /\ u = cur)
    BY SweepMarkWas, Zenon
  <2>2. u \in Upload
    BY Zenon, <1>0 DEF SweepOK
  <2> QED
    BY <2>1, <2>2, <1>a, <1>b, Zenon DEF Served
<1> QED
  BY <1>1, <1>2, <1>3, <1>4, Zenon DEF Served

-----------------------------------------------------------------------------
(* Verified.                                                               *)

\* Only the client replaces an object, and who has read it finds out.
LEMMA ForgedWas ==
    ASSUME TypeOK, Requests, SweepShape, [Next]_vars, NEW u \in Upload, pending'[u] = "forged", pending[u] # "forged"
    PROVE  u \in url /\ UNCHANGED <<pc, up, sweep>> /\ \A p \in Proc : up[p] = u /\ pc[p] = "copy" => p \in moved'
<1>0. StoreOK
  BY TypeParts, Zenon
<1>1. CASE UNCHANGED pending
  BY <1>1, Zenon
<1>2. CASE \E v \in Upload, o \in Objects : Put(v, o)
  <2>1. PICK v \in Upload, o \in Objects : Put(v, o)
    BY Zenon, <1>2
  <2>2. v = u
    <3>1. pending' = [pending EXCEPT ![v] = o]
      BY <2>1, Zenon DEF Put
    <3> QED
      BY Zenon, <3>1, <1>0 DEF StoreOK
  <2> QED
    BY <2>1, <2>2, Zenon DEF Put
<1>3. CASE \E p \in Proc : Drop(p)
  <2>1. PICK p \in Proc : Drop(p)
    BY Zenon, <1>3
  <2>2. pending' = [pending EXCEPT ![up[p]] = "none"]
    BY <2>1, Zenon DEF Drop
  <2> QED
    BY Zenon, <2>2, <1>0 DEF StoreOK
<1>4. CASE \E p \in Proc : \E objects \in SUBSET erase[p] : Erase(p, objects)
  BY Zenon, <1>4 DEF Erase
<1>5. CASE \E v \in Upload : Purge(v)
  <2>1. PICK v \in Upload : Purge(v)
    BY Zenon, <1>5
  <2>2. UNCHANGED pending \/ pending' = [pending EXCEPT ![v] = IF v \in final THEN @ ELSE "none"]
    BY <2>1, Zenon DEF Purge
  <2> QED
    BY Zenon, <2>2, <1>0 DEF StoreOK
<1>6. CASE SweepDrop
  BY Zenon, <1>6, <1>0 DEF SweepDrop, StoreOK
<1>7. \/ UNCHANGED pending \/ SweepDrop \/ (\E p \in Proc : Drop(p))
      \/ \E p \in Proc : \E objects \in SUBSET erase[p] : Erase(p, objects)
      \/ (\E v \in Upload : Purge(v)) \/ \E v \in Upload, o \in Objects : Put(v, o)
  BY Zenon DEF Next, Step, Sweep, Create, UrlExpires, Head, Bytes, Copy, Mark, Fail, Tombstone,
     RequestFails, CircuitOpen, ConfirmRead, DeleteRead, SweepBegin, SweepHead, SweepBytes, SweepCopy, SweepMark,
     SweepCommit, SweepSkips, SweepRollback, vars, store
<1> QED
  BY <1>1, <1>2, <1>3, <1>4, <1>5, <1>6, <1>7, Zenon

\* A request comes to the COPY with bytes it has verified.
LEMMA CopyWas ==
    ASSUME TypeOK, Requests, [Next]_vars, NEW p \in Proc, pc'[p] = "copy"
    PROVE  /\ up'[p] = up[p] /\ up[p] \in Upload
           /\ \/ pc[p] = "copy" /\ (p \in moved => p \in moved')
              \/ pending' = pending /\ (kind[up[p]] = "magic" => pending[up[p]] # "forged")
<1>0. LocalOK
  BY TypeParts, Zenon
<1>1. CASE pc'[p] = pc[p] /\ up'[p] = up[p] /\ (p \in moved => p \in moved')
  BY Zenon, <1>1, UpIs DEF Confirming
<1>2. CASE Head(p)
  <2>1. pc'[p] = IF pending[up[p]] \in {"none", "short"} THEN "fail" ELSE IF kind[up[p]] = "plain" THEN "copy" ELSE "bytes"
    BY Zenon, <1>2, <1>0 DEF Head, Go, LocalOK
  <2>2. pc[p] = "head" /\ UNCHANGED <<pending, up>>
    BY <1>2, Zenon DEF Head, store
  <2>3. kind[up[p]] # "magic"
    BY Zenon, <2>1
  <2>4. up[p] \in Upload
    BY Zenon, <2>2, UpIs DEF Confirming
  <2> QED
    BY <2>2, <2>3, <2>4, Zenon
<1>3. CASE Bytes(p)
  <2>0. (End(p) => pc'[p] = "idle") /\ (Go(p, "fail") => pc'[p] = "fail")
    BY EndedIs, GoIs, <1>0, Zenon
  <2>1. ~End(p) /\ ~Go(p, "fail")
    BY Zenon, <2>0
  <2>2. pc[p] = "bytes" /\ UNCHANGED <<pending, up>>
    BY <1>3, <2>1, Zenon DEF Bytes, store
  <2>3. kind[up[p]] = "magic" => pending[up[p]] # "forged"
    BY <1>3, <2>1, Zenon DEF Bytes
  <2>4. up[p] \in Upload
    BY Zenon, <2>2, UpIs DEF Confirming
  <2> QED
    BY <2>2, <2>3, <2>4, Zenon
<1>4. CASE Request(p) /\ ~Head(p) /\ ~Bytes(p)
  <2>0. ~End(p)
    BY Zenon, EndedIs
  <2>1. CASE \E u \in Upload : ConfirmRead(p, u)
    BY Zenon, <2>1, ConfirmReadIs
  <2>2. CASE \E uploads \in SUBSET Upload : DeleteRead(p, uploads)
    BY Zenon, <2>2, DeleteReadIs
  <2>3. ASSUME NEW next \in {"mark", "fail", "drop", "tombstone"}, Go(p, next)
        PROVE  FALSE
    BY Zenon, <2>3, <1>0, GoIs
  <2>4. ~(Mark(p) \/ Copy(p) \/ CircuitOpen(p))
    BY Zenon, <2>0, <2>3 DEF Mark, Copy, CircuitOpen
  <2>5. ~\E objects \in SUBSET erase[p] : Erase(p, objects)
    BY Zenon, <2>3 DEF Erase
  <2>6. ~(Fail(p) \/ Drop(p) \/ Tombstone(p) \/ RequestFails(p))
    BY <2>0, Zenon DEF Fail, Drop, Tombstone, RequestFails
  <2> QED
    BY <1>4, <2>1, <2>2, <2>4, <2>5, <2>6, Zenon DEF Request, Step
<1>5. CASE \E q \in Proc \ {p} : Request(q)
  BY <1>1, <1>5, RequestLocal, Zenon DEF Alone
<1>6. CASE UNCHANGED <<pc, up>> /\ (p \in moved => p \in moved')
  BY <1>1, <1>6, Zenon
<1>7. Request(p) \/ (\E q \in Proc \ {p} : Request(q)) \/ (UNCHANGED <<pc, up>> /\ (p \in moved => p \in moved'))
  <2>1. ASSUME NEW u \in Upload, Client(u) \/ Purge(u)
        PROVE  UNCHANGED <<pc, up>> /\ (p \in moved => p \in moved')
    BY <2>1, Zenon DEF Client, Create, UrlExpires, Put, Purge, local
  <2>2. ASSUME Sweep \/ SweepSkips \/ SweepRollback \/ UNCHANGED vars
        PROVE  UNCHANGED <<pc, up, moved>>
    BY <2>2, Zenon DEF Sweep, SweepBegin, SweepHead, SweepBytes, SweepCopy, SweepMark, SweepDrop, SweepCommit,
       SweepSkips, SweepRollback, vars, local
  <2> QED
    BY <2>1, <2>2, NextCases, Zenon
<1> QED
  BY <1>2, <1>3, <1>4, <1>5, <1>6, <1>7, Zenon

\* So does the sweep, with a URL that is dead.
LEMMA SweepCopyWas ==
    ASSUME TypeOK, SweepShape, [Next]_vars, spc' = "copy"
    PROVE  \/ spc = "copy" /\ cur' = cur
           \/ pending' = pending /\ (kind[cur'] = "magic" => pending[cur'] # "forged")
<1>1. CASE UNCHANGED <<spc, cur>>
  BY <1>1, Zenon
<1>2. CASE SweepBytes
  BY Zenon, <1>2 DEF SweepBytes, NextUpload, store
<1>3. CASE \E u \in Upload : SweepHead(u)
  BY Zenon, <1>3 DEF SweepHead, NextUpload, store
<1>4. CASE SweepBegin \/ SweepCopy \/ SweepMark \/ SweepDrop \/ SweepSkips
  BY Zenon, <1>4 DEF SweepBegin, SweepCopy, SweepMark, SweepDrop, SweepSkips, NextUpload
<1>5. CASE SweepCommit \/ SweepRollback
  BY Zenon, <1>5 DEF SweepCommit, SweepRollback, SweepOver
<1>6. ASSUME NEW p \in Proc, Request(p)
      PROVE  UNCHANGED <<spc, cur>>
  BY <1>6, RequestLocal, Zenon DEF Alone, sweep
<1>7. ASSUME NEW u \in Upload, Client(u) \/ Purge(u)
      PROVE  UNCHANGED <<spc, cur>>
  BY <1>7, Zenon DEF Client, Create, UrlExpires, Put, Purge, sweep
<1>8. ASSUME UNCHANGED vars
      PROVE  UNCHANGED <<spc, cur>>
  BY <1>8, Zenon DEF vars, sweep
<1> QED
  BY <1>1, <1>2, <1>3, <1>4, <1>5, <1>6, <1>7, <1>8, NextCases, Zenon DEF Sweep

LEMMA KindKept ==
    ASSUME [Next]_vars
    PROVE  kind' = kind
BY Zenon DEF Next, Step, Sweep, Create, UrlExpires, Purge, Put, Head, Bytes, Copy, Mark, Fail, Drop, Tombstone, Erase,
   RequestFails, CircuitOpen, ConfirmRead, DeleteRead, SweepBegin, SweepHead, SweepBytes, SweepCopy, SweepMark, SweepDrop,
   SweepCommit, SweepSkips, SweepRollback, vars, table

LEMMA VerifiedPreserved ==
    ASSUME TypeOK, Requests, SweepShape, Verified, [Next]_vars
    PROVE  Verified'
<1>0. StoreOK /\ SweepOK
  BY TypeParts, Zenon
<1>a. kind' = kind
  BY Zenon, KindKept
<1>1. PublishedAsVerified'
  <2> SUFFICES ASSUME HasETag, NEW u \in Upload, kind[u] \in {"magic", "svg"}
               PROVE  public'[u] # "forged"
    BY <1>a, Zenon DEF PublishedAsVerified
  <2>0. public[u] # "forged"
    BY Zenon DEF Verified, PublishedAsVerified
  <2>1. CASE UNCHANGED public
    BY Zenon, <2>0, <2>1
  <2>2. CASE \E p \in Proc : pc[p] = "copy" /\ Publish(p)
    <3>1. PICK p \in Proc : pc[p] = "copy" /\ Publish(p)
      BY Zenon, <2>2
    <3>2. up[p] \in Upload
      BY Zenon, <3>1, UpIs DEF Confirming
    <3>3. \/ public' = [public EXCEPT ![up[p]] = "good"]
          \/ /\ kind[up[p]] # "svg" /\ (kind[up[p]] = "magic" => p \notin moved)
             /\ public' = [public EXCEPT ![up[p]] = pending[up[p]]]
      BY <3>1, PublishIs, Zenon
    <3>4. kind[up[p]] = "magic" /\ p \notin moved => pending[up[p]] # "forged"
      BY <3>1, Zenon DEF Verified
    <3> QED
      BY Zenon, <2>0, <3>2, <3>3, <3>4, <1>0 DEF StoreOK
  <2>3. CASE \E p \in Proc : \E objects \in SUBSET erase[p] : Erase(p, objects)
    BY Zenon, <2>0, <2>3 DEF Erase
  <2>4. CASE \E v \in Upload : Purge(v)
    <3>1. PICK v \in Upload : Purge(v)
      BY Zenon, <2>4
    <3>2. UNCHANGED public \/ public' = [public EXCEPT ![v] = IF v \in final THEN "none" ELSE @]
      BY <3>1, Zenon DEF Purge
    <3> QED
      BY Zenon, <2>0, <3>2, <1>0 DEF StoreOK
  <2>5. CASE SweepPublishes
    <3>1. /\ cur \in Upload /\ kind[cur] # "svg" /\ (kind[cur] = "magic" => pending[cur] # "forged")
          /\ public' = [public EXCEPT ![cur] = pending[cur]]
      BY Zenon, <2>5, CurIs DEF SweepPublishes, Verified
    <3> QED
      BY Zenon, <2>0, <3>1, <1>0 DEF StoreOK
  <2> QED
    BY <2>1, <2>2, <2>3, <2>4, <2>5, PublicBecomes, Zenon
<1>2. ASSUME NEW p \in Proc, pc'[p] = "copy", kind'[up'[p]] = "magic", p \notin moved'
      PROVE  pending'[up'[p]] # "forged"
  <2>1. /\ up'[p] = up[p] /\ up[p] \in Upload
        /\ \/ pc[p] = "copy" /\ p \notin moved
           \/ pending' = pending /\ (kind[up[p]] = "magic" => pending[up[p]] # "forged")
    BY <1>2, CopyWas, Zenon
  <2>2. kind[up[p]] = "magic"
    BY Zenon, <1>2, <1>a, <2>1
  <2>3. CASE pending' = pending /\ (kind[up[p]] = "magic" => pending[up[p]] # "forged")
    BY Zenon, <2>1, <2>2, <2>3
  <2>4. CASE pc[p] = "copy" /\ p \notin moved
    <3>1. pending[up[p]] # "forged"
      BY <2>2, <2>4, Zenon DEF Verified
    <3> QED
      BY <3>1, <2>1, <2>4, <1>2, ForgedWas, Zenon
  <2> QED
    BY <2>1, <2>3, <2>4, Zenon
<1>3. ASSUME spc' = "copy", kind'[cur'] = "magic"
      PROVE  pending'[cur'] # "forged"
  <2>1. CASE pending' = pending /\ (kind[cur'] = "magic" => pending[cur'] # "forged")
    BY Zenon, <2>1, <1>3, <1>a
  <2>2. CASE spc = "copy" /\ cur' = cur
    <3>1. cur \in Upload /\ cur \notin url
      BY Zenon, <2>2, CurIs DEF SweepShape
    <3>2. pending[cur] # "forged"
      BY <2>2, <1>3, <1>a, Zenon DEF Verified
    <3> QED
      BY <3>1, <3>2, <2>2, ForgedWas, Zenon
  <2> QED
    BY <2>1, <2>2, <1>3, SweepCopyWas, Zenon
<1> QED
  BY <1>1, <1>2, <1>3, Zenon DEF Verified

-----------------------------------------------------------------------------
(* One worker.                                                             *)

LEMMA BusyIs ==
    ASSUME NEW u \in Upload
    PROVE  /\ \A p \in Proc : Works(p, u) => u \in Busy
           /\ u \in Swept => u \in Busy
<1>1. ASSUME NEW p \in Proc, up[p] = u
      PROVE  u \in Busy
  BY <1>1, Zenon DEF Busy
<1>2. ASSUME NEW p \in Proc, NEW b \in BOOLEAN, <<u, b>> \in erase[p]
      PROVE  u \in Busy
  <2>1. <<u, b>> \in UNION {erase[q] : q \in Proc}
    BY <1>2, Zenon
  <2>2. <<u, b>>[1] = u
    OBVIOUS
  <2>3. u \in {e[1] : e \in UNION {erase[q] : q \in Proc}}
    BY <2>1, <2>2, Zenon
  <2> QED
    BY <2>3, Zenon DEF Busy
<1>3. u \in Swept => u \in Busy
  BY Zenon DEF Swept, Busy
<1> QED
  BY <1>1, <1>2, <1>3, Zenon DEF Works

\* What a step of a request may do to the rows, and to the set of workers.
Careful(p) ==
    /\ crossed \subseteq crossed'
    /\ \A u \in Upload :
        /\ Works(p, u)' => u \in crossed' \/ Works(p, u) \/ u \notin Busy
        /\ row'[u] # row[u] => Works(p, u)
        /\ u \in dead' /\ u \notin dead => Works(p, u) \/ u \in crossed' \/ u \notin Busy
        /\ up'[p] = u /\ pc'[p] \in Confirming =>
            /\ row'[u] = row[u] /\ (u \in dead' => u \in dead)
            /\ (up[p] = u /\ pc[p] \in Confirming) \/ (row[u] = "PENDING" /\ u \notin dead)

LEMMA SoleByRequest ==
    ASSUME TypeOK, Sole, NEW p \in Proc, Alone(p), Careful(p)
    PROVE  Sole'
<1> SUFFICES ASSUME NEW u \in Upload \ crossed'
             PROVE  /\ \A a, b \in Proc : Works(a, u)' /\ Works(b, u)' => a = b
                    /\ \A a \in Proc : Works(a, u)' => u \notin Swept'
                    /\ u \in Swept' => row'[u] = "PENDING" /\ u \notin dead'
                    /\ \A a \in Proc : up'[a] = u /\ pc'[a] \in Confirming => row'[u] = "PENDING" /\ u \notin dead'
  BY Zenon DEF Sole
<1>0. u \in Upload \ crossed
  BY Zenon DEF Careful
<1>1. \A a \in Proc \ {p} : Works(a, u)' => Works(a, u)
  BY Zenon DEF Alone, Works
<1>2. Works(p, u)' => Works(p, u) \/ u \notin Busy
  BY Zenon DEF Careful
<1>3. u \in Swept' <=> u \in Swept
  BY Zenon DEF Alone, sweep, Swept
<1>4. \A a \in Proc : Works(a, u)' => Works(a, u) \/ (a = p /\ u \notin Busy)
  BY <1>1, <1>2, Zenon
<1>5. \A a, b \in Proc : Works(a, u)' /\ Works(b, u)' => a = b
  BY <1>4, <1>0, BusyIs, Zenon DEF Sole
<1>6. \A a \in Proc : Works(a, u)' => u \notin Swept'
  BY <1>3, <1>4, <1>0, BusyIs, Zenon DEF Sole
<1>7. Works(p, u) \/ (row'[u] = row[u] /\ (u \in Busy /\ u \in dead' => u \in dead))
  BY Zenon DEF Careful
<1>8. u \in Swept' => row'[u] = "PENDING" /\ u \notin dead'
  <2> SUFFICES ASSUME u \in Swept
               PROVE  row'[u] = "PENDING" /\ u \notin dead'
    BY Zenon, <1>3
  <2>1. ~Works(p, u) /\ row[u] = "PENDING" /\ u \notin dead /\ u \in Busy
    BY <1>0, BusyIs, Zenon DEF Sole
  <2> QED
    BY Zenon, <2>1, <1>7
<1>9. ASSUME NEW a \in Proc, up'[a] = u, pc'[a] \in Confirming
      PROVE  row'[u] = "PENDING" /\ u \notin dead'
  <2>1. CASE a = p
    <3>1. row'[u] = row[u] /\ (u \in dead' => u \in dead)
      BY <1>9, <2>1, Zenon DEF Careful
    <3>2. (up[p] = u /\ pc[p] \in Confirming) \/ (row[u] = "PENDING" /\ u \notin dead)
      BY <1>9, <2>1, Zenon DEF Careful
    <3>3. row[u] = "PENDING" /\ u \notin dead
      BY <3>2, <1>0, Zenon DEF Sole
    <3> QED
      BY Zenon, <3>1, <3>3
  <2>2. CASE a # p
    <3>1. up[a] = u /\ pc[a] \in Confirming
      BY <1>9, <2>2, Zenon DEF Alone
    <3>2. Works(a, u) /\ u \in Busy
      BY <3>1, BusyIs, Zenon DEF Works
    <3>3. ~Works(p, u)
      BY <3>2, <2>2, <1>0, Zenon DEF Sole
    <3>4. row[u] = "PENDING" /\ u \notin dead
      BY <3>1, <1>0, Zenon DEF Sole
    <3> QED
      BY Zenon, <3>2, <3>3, <3>4, <1>7
  <2> QED
    BY Zenon, <2>1, <2>2
<1> QED
  BY <1>5, <1>6, <1>8, <1>9, Zenon

\* A step that leaves the locals of requests alone.
LEMMA SoleByOthers ==
    ASSUME TypeOK, Sole, UNCHANGED <<pc, up, erase, dead>>, crossed \subseteq crossed',
           \A u \in Upload \ crossed' :
                /\ u \in Swept' => (u \in Swept /\ row'[u] = row[u]) \/ (u \notin Busy /\ row'[u] = "PENDING" /\ u \notin dead)
                /\ row'[u] # row[u] => u \in Swept \/ row[u] # "PENDING" \/ u \notin Busy
    PROVE  Sole'
<1> SUFFICES ASSUME NEW u \in Upload \ crossed'
             PROVE  /\ \A a, b \in Proc : Works(a, u)' /\ Works(b, u)' => a = b
                    /\ \A a \in Proc : Works(a, u)' => u \notin Swept'
                    /\ u \in Swept' => row'[u] = "PENDING" /\ u \notin dead'
                    /\ \A a \in Proc : up'[a] = u /\ pc'[a] \in Confirming => row'[u] = "PENDING" /\ u \notin dead'
  BY Zenon DEF Sole
<1>0. u \in Upload \ crossed
  BY Zenon
<1>1. \A a \in Proc : Works(a, u)' <=> Works(a, u)
  BY Zenon DEF Works
<1>2. \A a, b \in Proc : Works(a, u)' /\ Works(b, u)' => a = b
  BY <1>0, <1>1, Zenon DEF Sole
<1>3. \A a \in Proc : Works(a, u)' => u \notin Swept'
  BY <1>0, <1>1, BusyIs, Zenon DEF Sole
<1>4. u \in Swept' => row'[u] = "PENDING" /\ u \notin dead'
  BY <1>0, Zenon DEF Sole
<1>5. ASSUME NEW a \in Proc, up'[a] = u, pc'[a] \in Confirming
      PROVE  row'[u] = "PENDING" /\ u \notin dead'
  <2>1. up[a] = u /\ pc[a] \in Confirming
    BY <1>5, Zenon
  <2>2. Works(a, u)
    BY <2>1, Zenon DEF Works
  <2>3. row[u] = "PENDING" /\ u \notin dead /\ u \notin Swept /\ u \in Busy
    BY <2>1, <2>2, <1>0, BusyIs, Zenon DEF Sole
  <2> QED
    BY <2>3, Zenon
<1> QED
  BY <1>2, <1>3, <1>4, <1>5, Zenon

LEMMA RequestCareful ==
    ASSUME TypeOK, Requests, NEW p \in Proc, Request(p)
    PROVE  Careful(p)
<1>0. LocalOK /\ TablesOK /\ None \notin Upload
  BY TypeParts, UploadAssumption, Zenon
<1>a. ASSUME End(p), crossed \subseteq crossed',
             \A u \in Upload :
                /\ row'[u] # row[u] => Works(p, u)
                /\ u \in dead' /\ u \notin dead => Works(p, u) \/ u \in crossed' \/ u \notin Busy
      PROVE  Careful(p)
  <2>1. up'[p] = None /\ erase'[p] = {}
    BY <1>a, EndedIs, Zenon
  <2>2. \A u \in Upload : ~Works(p, u)' /\ up'[p] # u
    BY Zenon, <2>1, <1>0 DEF Works
  <2> QED
    BY <1>a, <2>2, Zenon DEF Careful
<1>b. ASSUME crossed' = crossed, UNCHANGED <<row, dead>>, up'[p] = up[p], erase'[p] = erase[p],
             pc'[p] \in Confirming => pc[p] \in Confirming
      PROVE  Careful(p)
  <2>1. \A u \in Upload : Works(p, u)' => Works(p, u)
    BY <1>b, Zenon DEF Works
  <2> QED
    BY <1>b, <2>1, Zenon DEF Careful
<1>1. CASE Head(p) \/ Bytes(p) \/ Copy(p) \/ CircuitOpen(p)
  <2>1. UNCHANGED <<row, dead, crossed>>
    BY <1>1, Zenon DEF Head, Bytes, Copy, CircuitOpen, table
  <2>2. End(p) \/ (pc[p] \in Confirming /\ up'[p] = up[p] /\ erase'[p] = erase[p])
    BY <1>1, ConfirmIs, Zenon
  <2> QED
    BY <2>1, <2>2, <1>a, <1>b, Zenon
<1>2. CASE Mark(p)
  <2>1. up[p] \in Upload /\ UNCHANGED <<dead, crossed>>
    BY Zenon, <1>2, UpIs DEF Mark, Confirming
  <2>2. CASE End(p) /\ UNCHANGED row
    BY <2>1, <2>2, <1>a, Zenon
  <2>3. CASE ~(End(p) /\ UNCHANGED row)
    <3>1. row' = [row EXCEPT ![up[p]] = "UPLOADED"] /\ Go(p, "drop") /\ UNCHANGED <<up, erase>>
      BY <1>2, <2>3, Zenon DEF Mark
    <3>2. \A u \in Upload : row'[u] # row[u] => Works(p, u)
      BY Zenon, <3>1, <2>1, <1>0 DEF TablesOK, Works
    <3>3. pc'[p] \notin Confirming
      BY <3>1, <1>0, GoIs DEF Confirming
    <3>4. \A u \in Upload : Works(p, u)' => Works(p, u)
      BY <3>1, Zenon DEF Works
    <3> QED
      BY <2>1, <3>2, <3>3, <3>4, Zenon DEF Careful
  <2> QED
    BY Zenon, <2>2, <2>3
<1>3. CASE Fail(p)
  <2>1. up[p] \in Upload /\ UNCHANGED <<dead, crossed>> /\ End(p)
    BY Zenon, <1>3, UpIs DEF Fail, Confirming
  <2>2. \A u \in Upload : row'[u] # row[u] => Works(p, u)
    BY Zenon, <1>3, <2>1, <1>0 DEF Fail, TablesOK, Works
  <2> QED
    BY <2>1, <2>2, <1>a, Zenon
<1>4. CASE Tombstone(p)
  <2> DEFINE rows == Found(reach[p])
             unread == {u \in rows : \A b \in BOOLEAN : <<u, b>> \notin erase[p]}
  <2>1. End(p) /\ UNCHANGED row /\ dead' = dead \cup rows /\ crossed' = crossed \cup (unread \cap Busy)
    BY <1>4, Zenon DEF Tombstone
  <2>2. ASSUME NEW u \in Upload, u \in dead', u \notin dead
        PROVE  Works(p, u) \/ u \in crossed' \/ u \notin Busy
    BY <2>1, <2>2, Zenon DEF Works
  <2>3. crossed \subseteq crossed'
    BY <2>1, Zenon
  <2> QED
    BY <2>1, <2>2, <2>3, <1>a, Zenon
<1>5. CASE Drop(p) \/ RequestFails(p)
  <2>1. End(p) /\ UNCHANGED <<row, dead, crossed>>
    BY <1>5, Zenon DEF Drop, RequestFails, table
  <2> QED
    BY <2>1, <1>a, Zenon
<1>6. CASE \E objects \in SUBSET erase[p] : Erase(p, objects)
  <2>1. UNCHANGED <<row, dead, crossed, up, erase>> /\ Go(p, "tombstone")
    BY <1>6, Zenon DEF Erase, table
  <2>2. pc'[p] \notin Confirming
    BY <2>1, <1>0, GoIs DEF Confirming
  <2> QED
    BY <2>1, <2>2, <1>b, Zenon
<1>7. ASSUME NEW v \in Upload, ConfirmRead(p, v)
      PROVE  Careful(p)
  <2>1. /\ up'[p] = v /\ erase' = erase /\ row[v] = "PENDING" /\ v \notin dead
        /\ crossed \subseteq crossed' /\ (v \in Busy => v \in crossed') /\ UNCHANGED <<row, dead>>
    BY <1>7, ConfirmReadIs, Zenon DEF table
  <2>2. \A u \in Upload : Works(p, u)' => Works(p, u) \/ u = v
    BY <2>1, Zenon DEF Works
  <2> QED
    BY <2>1, <2>2, Zenon DEF Careful
<1>8. ASSUME NEW uploads \in SUBSET Upload, DeleteRead(p, uploads)
      PROVE  Careful(p)
  <2>1. /\ pc'[p] = "erase" /\ up' = up
        /\ \A u \in Upload, b \in BOOLEAN : <<u, b>> \in erase'[p] => u \in Found(uploads)
        /\ crossed' = crossed \cup (Found(uploads) \cap Busy) /\ UNCHANGED <<row, dead>>
    BY <1>8, DeleteReadIs, Zenon DEF table
  <2>2. \A u \in Upload : Works(p, u)' => Works(p, u) \/ u \in Found(uploads)
    BY <2>1, Zenon DEF Works
  <2>3. pc'[p] \notin Confirming
    BY Zenon, <2>1 DEF Confirming
  <2> QED
    BY <2>1, <2>2, <2>3, Zenon DEF Careful
<1> QED
  BY <1>1, <1>2, <1>3, <1>4, <1>5, <1>6, <1>7, <1>8, Zenon DEF Request, Step

LEMMA SolePreserved ==
    ASSUME TypeOK, Requests, SweepShape, Sole, [Next]_vars
    PROVE  Sole'
<1>0. TablesOK /\ SweepOK /\ None \notin Upload
  BY TypeParts, UploadAssumption, Zenon
<1>1. ASSUME NEW p \in Proc, Request(p)
      PROVE  Sole'
  BY <1>1, RequestLocal, RequestCareful, SoleByRequest, Zenon
<1>2. ASSUME UNCHANGED <<pc, up, erase, dead, crossed, row>>, \A u \in Upload : u \in Swept' => u \in Swept
      PROVE  Sole'
  BY <1>2, SoleByOthers, Zenon
<1>3. ASSUME NEW u \in Upload, Create(u) \/ Purge(u)
      PROVE  Sole'
  <2>1. UNCHANGED <<pc, up, erase, dead, crossed>> /\ Swept' = Swept
    BY <1>3, Zenon DEF Create, Purge, local, sweep, Swept
  <2>2. ASSUME NEW v \in Upload, row'[v] # row[v]
        PROVE  row[v] # "PENDING" \/ v \notin Busy
    BY Zenon, <1>3, <2>2, <1>0 DEF Create, Purge, TablesOK
  <2>3. ASSUME NEW v \in Upload \ crossed', v \in Swept
        PROVE  row'[v] = row[v]
    <3>1. row[v] = "PENDING" /\ v \in Busy
      BY <2>1, <2>3, BusyIs, Zenon DEF Sole
    <3> QED
      BY <3>1, <2>2, Zenon
  <2> QED
    BY <2>1, <2>2, <2>3, SoleByOthers, Zenon
<1>4. ASSUME NEW u \in Upload, UrlExpires(u) \/ \E o \in Objects : Put(u, o)
      PROVE  Sole'
  BY <1>2, <1>4, Zenon DEF UrlExpires, Put, table, local, sweep, Swept
<1>5. ASSUME SweepBegin
      PROVE  Sole'
  <2>1. /\ UNCHANGED <<pc, up, erase, dead, row, cur, marked, failed, orphan>>
        /\ todo' = Stale /\ crossed' = crossed \cup (Stale \cap Busy)
    BY <1>5, Zenon DEF SweepBegin, table, local
  <2>2. ASSUME NEW u \in Upload \ crossed', u \in Swept'
        PROVE  (u \in Swept /\ row'[u] = row[u]) \/ (u \notin Busy /\ row'[u] = "PENDING" /\ u \notin dead)
    <3>1. u \in Swept \/ u \in Stale
      BY <2>1, <2>2, Zenon DEF Swept
    <3> QED
      BY <3>1, <2>1, Zenon DEF Stale
  <2> QED
    BY <2>1, <2>2, SoleByOthers, Zenon
<1>6. ASSUME (\E u \in Upload : SweepHead(u)) \/ SweepBytes \/ SweepCopy \/ SweepMark \/ SweepDrop \/ SweepSkips \/ SweepRollback
      PROVE  Sole'
  <2>1. UNCHANGED <<pc, up, erase, dead, crossed, row>>
    BY <1>6, Zenon DEF SweepHead, SweepBytes, SweepCopy, SweepMark, SweepDrop, SweepSkips, SweepRollback, table, local
  <2>2. \A u \in Upload : u \in Swept' => u \in Swept
    <3>1. CASE (\E u \in Upload : SweepHead(u)) \/ SweepBytes
      BY Zenon, <3>1, <1>0 DEF SweepHead, SweepBytes, NextUpload, Swept
    <3>2. CASE SweepCopy \/ SweepMark \/ SweepDrop \/ SweepSkips
      BY Zenon, <3>2, <1>0 DEF SweepCopy, SweepMark, SweepDrop, SweepSkips, NextUpload, Swept
    <3>3. CASE SweepRollback
      BY Zenon, <3>3, <1>0 DEF SweepRollback, SweepOver, Swept
    <3> QED
      BY <1>6, <3>1, <3>2, <3>3, Zenon
  <2> QED
    BY <2>1, <2>2, <1>2, Zenon
<1>7. ASSUME SweepCommit
      PROVE  Sole'
  <2>1. UNCHANGED <<pc, up, erase, dead, crossed>> /\ \A u \in Upload : u \notin Swept'
    BY Zenon, <1>7, <1>0 DEF SweepCommit, SweepOver, local, Swept
  <2>2. \A u \in Upload : row'[u] # row[u] => u \in Swept
    BY <1>7, CommitRows, Zenon DEF Swept
  <2> QED
    BY <2>1, <2>2, SoleByOthers, Zenon
<1>8. ASSUME UNCHANGED vars
      PROVE  Sole'
  BY <1>2, <1>8, Zenon DEF vars, table, local, sweep, Swept
<1> QED
  BY <1>1, <1>3, <1>4, <1>5, <1>6, <1>7, <1>8, NextCases, Zenon DEF Client, Sweep

-----------------------------------------------------------------------------
(* Published objects have an owner.                                        *)

\* A published upload stays spoken for, if whoever was about to mark it
\* still is, has marked it, or is excused.
LEMMA PublishedStays ==
    ASSUME Published, crossed \subseteq crossed', halfway \subseteq halfway', NEW u \in Upload \ (crossed' \cup halfway'),
           public[u] # "none",
           AtMark(u) => AtMark(u)' \/ (u \in final' /\ row'[u] # "purged"),
           u \in final /\ row[u] # "purged" => AtMark(u)' \/ (u \in final' /\ row'[u] # "purged")
    PROVE  AtMark(u)' \/ (u \in final' /\ row'[u] # "purged")
BY Zenon DEF Published

\* Whoever is about to mark an upload nobody has crossed finds it PENDING.
LEMMA AtMarkIs ==
    ASSUME TypeOK, SweepShape, Sole, NEW u \in Upload \ crossed, AtMark(u)
    PROVE  row[u] = "PENDING" /\ u \notin dead /\ u \in Busy
<1>1. CASE \E p \in Proc : pc[p] = "mark" /\ up[p] = u
  <2>1. PICK p \in Proc : pc[p] = "mark" /\ up[p] = u
    BY Zenon, <1>1
  <2>2. pc[p] \in Confirming /\ Works(p, u)
    BY Zenon, <2>1 DEF Confirming, Works
  <2> QED
    BY <2>1, <2>2, BusyIs, Zenon DEF Sole
<1>2. CASE (spc = "mark" /\ cur = u) \/ u \in marked
  <2>1. u \in Swept
    BY <1>2, Zenon DEF Swept
  <2> QED
    BY <2>1, BusyIs, Zenon DEF Sole
<1> QED
  BY <1>1, <1>2, Zenon DEF AtMark

\* A request leaves the others' marks alone.
LEMMA AtMarkByRequest ==
    ASSUME NEW p \in Proc, Alone(p), NEW u \in Upload, AtMark(u), ~(pc[p] = "mark" /\ up[p] = u)
    PROVE  AtMark(u)'
<1>1. CASE \E q \in Proc : pc[q] = "mark" /\ up[q] = u
  <2>1. PICK q \in Proc \ {p} : pc[q] = "mark" /\ up[q] = u
    BY <1>1, Zenon
  <2>2. pc'[q] = "mark" /\ up'[q] = u
    BY <2>1, Zenon DEF Alone
  <2> QED
    BY <2>2, Zenon DEF AtMark
<1>2. CASE (spc = "mark" /\ cur = u) \/ u \in marked
  BY <1>2, Zenon DEF AtMark, Alone, sweep
<1> QED
  BY <1>1, <1>2, Zenon DEF AtMark

LEMMA PublishedByRequest ==
    ASSUME TypeOK, Requests, SweepShape, Sole, Published, NEW p \in Proc, Request(p)
    PROVE  Published'
<1>0. LocalOK /\ TablesOK /\ StoreOK /\ Alone(p)
  BY TypeParts, RequestLocal, Zenon
<1>a. ASSUME crossed \subseteq crossed', halfway \subseteq halfway',
             \A u \in Upload : public'[u] # "none" => public[u] # "none",
             \A u \in Upload : u \in final => u \in final',
             \A u \in Upload : row'[u] = "purged" => row[u] = "purged",
             pc[p] = "mark" => up[p] \in crossed' \cup halfway' \/ (up[p] \in final' /\ row'[up[p]] # "purged")
      PROVE  Published'
  <2> SUFFICES ASSUME NEW u \in Upload \ (crossed' \cup halfway'), public'[u] # "none"
               PROVE  AtMark(u)' \/ (u \in final' /\ row'[u] # "purged")
    BY Zenon DEF Published
  <2>1. public[u] # "none"
    BY <1>a, Zenon
  <2>2. AtMark(u) => AtMark(u)' \/ (u \in final' /\ row'[u] # "purged")
    BY <1>a, <1>0, AtMarkByRequest, Zenon
  <2>3. u \in final /\ row[u] # "purged" => u \in final' /\ row'[u] # "purged"
    BY <1>a, Zenon
  <2> QED
    BY <1>a, <2>1, <2>2, <2>3, PublishedStays, Zenon
<1>b. ASSUME UNCHANGED <<row, final>>, pc[p] # "mark", crossed \subseteq crossed', halfway \subseteq halfway',
             \A u \in Upload : public'[u] # "none" => public[u] # "none"
      PROVE  Published'
  BY <1>a, <1>b, Zenon
<1>1. CASE Head(p) \/ Bytes(p) \/ Drop(p) \/ Tombstone(p) \/ CircuitOpen(p)
  <2>1. UNCHANGED <<row, final, public, halfway>>
    BY <1>1, Zenon DEF Head, Bytes, Drop, Tombstone, CircuitOpen, table, store
  <2>2. pc[p] # "mark"
    BY Zenon, <1>1 DEF Head, Bytes, Drop, Tombstone, CircuitOpen
  <2>3. crossed \subseteq crossed'
    BY RequestCareful, Zenon DEF Careful
  <2> QED
    BY <2>1, <2>2, <2>3, <1>b, Zenon
<1>2. CASE \E objects \in SUBSET erase[p] : Erase(p, objects)
  <2>1. PICK objects \in SUBSET erase[p] : Erase(p, objects)
    BY Zenon, <1>2
  <2>2. UNCHANGED <<row, final, crossed, halfway>> /\ pc[p] # "mark"
    BY Zenon, <2>1 DEF Erase, table
  <2>3. \A u \in Upload : public'[u] # "none" => public[u] # "none"
    BY Zenon, <2>1 DEF Erase
  <2> QED
    BY <2>2, <2>3, <1>b, Zenon
<1>3. CASE (\E u \in Upload : ConfirmRead(p, u)) \/ \E uploads \in SUBSET Upload : DeleteRead(p, uploads)
  <2>1. UNCHANGED <<row, final, public, halfway>>
    BY <1>3, Zenon DEF ConfirmRead, DeleteRead, table, store
  <2>2. pc[p] # "mark"
    BY Zenon, <1>3 DEF ConfirmRead, DeleteRead
  <2>3. crossed \subseteq crossed'
    BY RequestCareful, Zenon DEF Careful
  <2> QED
    BY <2>1, <2>2, <2>3, <1>b, Zenon
<1>4. CASE Fail(p)
  <2>1. up[p] \in Upload /\ UNCHANGED <<final, public, crossed, halfway>> /\ pc[p] = "fail"
    BY Zenon, <1>4, UpIs DEF Fail, Confirming, store
  <2>2. row' = [row EXCEPT ![up[p]] = IF Live(up[p]) THEN "FAILED" ELSE row[up[p]]]
    BY Zenon, <1>4 DEF Fail
  <2>3. \A u \in Upload : row'[u] = "purged" => row[u] = "purged"
    BY Zenon, <2>1, <2>2, <1>0 DEF TablesOK
  <2> QED
    BY Zenon, <2>1, <2>3, <1>a
<1>5. CASE RequestFails(p)
  <2>1. UNCHANGED <<row, final, crossed>>
    BY <1>5, Zenon DEF RequestFails, table
  <2>2. CASE UNCHANGED public
    <3>1. \/ halfway' = IF pc[p] = "mark" THEN halfway \cup {up[p]} ELSE halfway
          \/ pc[p] = "copy" /\ halfway' = halfway \cup {up[p]}
      BY <1>5, Zenon DEF RequestFails
    <3>2. halfway \subseteq halfway' /\ (pc[p] = "mark" => up[p] \in halfway')
      BY Zenon, <3>1
    <3> QED
      BY <2>1, <2>2, <3>2, <1>a, Zenon
  <2>3. CASE ~UNCHANGED public
    <3>1. pc[p] = "copy" /\ pc[p] # "mark" /\ Publish(p) /\ halfway' = halfway \cup {up[p]}
      BY Zenon, <1>5, <2>3 DEF RequestFails
    <3>2. up[p] \in Upload
      BY Zenon, <3>1, UpIs DEF Confirming
    <3>3. public' = [public EXCEPT ![up[p]] = "good"] \/ public' = [public EXCEPT ![up[p]] = pending[up[p]]]
      BY <3>1, PublishIs, Zenon
    <3> SUFFICES ASSUME NEW u \in Upload \ (crossed' \cup halfway'), public'[u] # "none"
                 PROVE  AtMark(u)' \/ (u \in final' /\ row'[u] # "purged")
      BY Zenon DEF Published
    <3>4. u # up[p] /\ halfway \subseteq halfway'
      BY Zenon, <3>1
    <3>5. public[u] # "none"
      BY Zenon, <3>2, <3>3, <3>4, <1>0 DEF StoreOK
    <3>6. AtMark(u) => AtMark(u)'
      BY <3>1, <1>0, AtMarkByRequest, Zenon
    <3> QED
      BY <2>1, <3>4, <3>5, <3>6, PublishedStays, Zenon
  <2> QED
    BY Zenon, <2>2, <2>3
<1>6. CASE Mark(p)
  <2>1. up[p] \in Upload /\ pc[p] = "mark" /\ UNCHANGED <<public, crossed, halfway>>
    BY Zenon, <1>6, UpIs DEF Mark, Confirming, store
  <2>2. CASE Live(up[p]) /\ row' = [row EXCEPT ![up[p]] = "UPLOADED"] /\ final' = final \cup {up[p]}
    <3>1. \A u \in Upload : row'[u] = "purged" => row[u] = "purged"
      BY Zenon, <2>1, <2>2, <1>0 DEF TablesOK
    <3>2. up[p] \in final' /\ row'[up[p]] # "purged" /\ \A u \in Upload : u \in final => u \in final'
      BY Zenon, <2>1, <2>2, <1>0 DEF TablesOK
    <3> QED
      BY Zenon, <2>1, <3>1, <3>2, <1>a
  <2>3. CASE ~Live(up[p]) /\ UNCHANGED <<row, final>>
    <3>1. up[p] \in crossed
      BY Zenon, <2>1, <2>3 DEF Sole, Live, Confirming
    <3> QED
      BY Zenon, <2>1, <2>3, <3>1, <1>a
  <2> QED
    BY <1>6, <2>2, <2>3, Zenon DEF Mark
<1>7. CASE Copy(p)
  <2>1. /\ up[p] \in Upload /\ pc[p] = "copy" /\ pc[p] # "mark"
        /\ UNCHANGED <<row, final, crossed, halfway>>
    BY Zenon, <1>7, UpIs DEF Copy, Confirming, table
  <2>2. CASE UNCHANGED public
    BY <2>1, <2>2, <1>b, Zenon
  <2>3. CASE ~UNCHANGED public
    <3>0. Go(p, "mark") /\ up' = up /\ Publish(p)
      BY <1>7, <2>3, Zenon DEF Copy
    <3>1. /\ Go(p, "mark") /\ up' = up
          /\ \/ public' = [public EXCEPT ![up[p]] = "good"]
             \/ public' = [public EXCEPT ![up[p]] = pending[up[p]]]
      BY <3>0, PublishIs, Zenon
    <3>2. pc'[p] = "mark"
      BY Zenon, <3>1, <1>0, GoIs
    <3> SUFFICES ASSUME NEW u \in Upload \ (crossed' \cup halfway'), public'[u] # "none"
                 PROVE  AtMark(u)' \/ (u \in final' /\ row'[u] # "purged")
      BY Zenon DEF Published
    <3>4. CASE u = up[p]
      <4>1. pc'[p] = "mark" /\ up'[p] = u
        BY <3>1, <3>2, <3>4, Zenon
      <4> QED
        BY <4>1, Zenon DEF AtMark
    <3>5. CASE u # up[p]
      <4>1. public[u] # "none"
        BY Zenon, <2>1, <3>1, <3>5, <1>0 DEF StoreOK
      <4>2. AtMark(u) => AtMark(u)'
        BY <2>1, <1>0, AtMarkByRequest, Zenon
      <4> QED
        BY <2>1, <4>1, <4>2, PublishedStays, Zenon
    <3> QED
      BY <3>4, <3>5, Zenon
  <2> QED
    BY Zenon, <2>2, <2>3
<1> QED
  BY <1>1, <1>2, <1>3, <1>4, <1>5, <1>6, <1>7, Zenon DEF Request, Step

LEMMA PublishedPreserved ==
    ASSUME TypeOK, Requests, SweepShape, Rows, Sole, Published, [Next]_vars
    PROVE  Published'
<1>0. TablesOK /\ StoreOK /\ SweepOK
  BY TypeParts, Zenon
<1>a. ASSUME UNCHANGED <<row, final, public>>, crossed \subseteq crossed', halfway \subseteq halfway',
             \A u \in Upload \ (crossed' \cup halfway') : AtMark(u) => AtMark(u)'
      PROVE  Published'
  BY <1>a, Zenon DEF Published
<1>b. ASSUME UNCHANGED <<pc, up, spc, cur, marked>>, NEW u \in Upload
      PROVE  AtMark(u)' <=> AtMark(u)
  BY <1>b, Zenon DEF AtMark
<1>1. ASSUME NEW p \in Proc, Request(p)
      PROVE  Published'
  BY <1>1, PublishedByRequest, Zenon
<1>2. ASSUME NEW u \in Upload, UrlExpires(u) \/ \E o \in Objects : Put(u, o)
      PROVE  Published'
  BY <1>2, <1>a, <1>b, Zenon DEF UrlExpires, Put, table, local, sweep
<1>3. ASSUME NEW v \in Upload, Create(v)
      PROVE  Published'
  <2>1. /\ UNCHANGED <<final, public, crossed, halfway, pc, up, spc, cur, marked>>
        /\ row' = [row EXCEPT ![v] = "PENDING"]
    BY <1>3, Zenon DEF Create, local, sweep
  <2>2. \A u \in Upload : row'[u] = "purged" => row[u] = "purged"
    BY Zenon, <2>1, <1>0 DEF TablesOK
  <2> QED
    BY <2>1, <2>2, <1>b, Zenon DEF Published
<1>4. ASSUME NEW v \in Upload, Purge(v)
      PROVE  Published'
  <2> SUFFICES ASSUME NEW u \in Upload \ (crossed' \cup halfway'), public'[u] # "none"
               PROVE  AtMark(u)' \/ (u \in final' /\ row'[u] # "purged")
    BY Zenon DEF Published
  <2>1. /\ UNCHANGED <<final, crossed, pc, up, spc, cur, marked>> /\ v \notin Busy
        /\ row' = [row EXCEPT ![v] = "purged"]
        /\ \/ UNCHANGED halfway /\ public' = [public EXCEPT ![v] = IF v \in final THEN "none" ELSE @]
           \/ halfway' = halfway \cup {v} /\ UNCHANGED public
    BY <1>4, Zenon DEF Purge, local, sweep
  <2>2. crossed \subseteq crossed' /\ halfway \subseteq halfway' /\ public[u] # "none"
    BY Zenon, <2>1, <1>0 DEF StoreOK
  <2>3. u # v
    <3>1. ASSUME u = v
          PROVE  FALSE
      <4>1. u \notin final
        BY Zenon, <2>1, <3>1, <1>0 DEF StoreOK
      <4>2. AtMark(u)
        BY <2>2, <4>1, Zenon DEF Published
      <4> QED
        BY <4>2, <2>1, <2>2, <3>1, AtMarkIs, Zenon
    <3> QED
      BY Zenon, <3>1
  <2>4. row'[u] = row[u]
    BY Zenon, <2>1, <2>3, <1>0 DEF TablesOK
  <2> QED
    BY <2>1, <2>2, <2>4, <1>b, Zenon DEF Published
<1>5. ASSUME SweepBegin
      PROVE  Published'
  <2>1. UNCHANGED <<row, final, public, halfway, pc, up, cur, marked>> /\ spc = "idle" /\ crossed' = crossed \cup (Stale \cap Busy)
    BY <1>5, Zenon DEF SweepBegin, table, store, local
  <2>2. \A u \in Upload : AtMark(u) => AtMark(u)'
    BY Zenon, <2>1 DEF AtMark
  <2> QED
    BY <2>1, <2>2, <1>a, Zenon
<1>6. ASSUME (\E u \in Upload : SweepHead(u)) \/ SweepBytes \/ SweepDrop \/ (SweepSkips /\ UNCHANGED <<public, halfway>>)
      PROVE  Published'
  <2>1. UNCHANGED <<row, final, public, crossed, halfway, pc, up, marked>>
    BY <1>6, Zenon DEF SweepHead, SweepBytes, SweepDrop, SweepSkips, table, store, local
  <2>2. spc # "mark"
    BY Zenon, <1>6 DEF SweepHead, SweepBytes, SweepDrop, SweepSkips
  <2>3. \A u \in Upload : AtMark(u) => AtMark(u)'
    BY <2>1, <2>2, Zenon DEF AtMark
  <2> QED
    BY <2>1, <2>3, <1>a, Zenon
<1>12. ASSUME SweepSkips, ~UNCHANGED <<public, halfway>>
       PROVE  Published'
  <2>1. /\ UNCHANGED <<row, final, crossed, pc, up, marked>> /\ spc = "copy" /\ cur \in Upload
        /\ public' = [public EXCEPT ![cur] = pending[cur]] /\ halfway' = halfway \cup {cur}
    BY Zenon, <1>12, CurIs DEF SweepSkips, table, local
  <2> SUFFICES ASSUME NEW u \in Upload \ (crossed' \cup halfway'), public'[u] # "none"
               PROVE  AtMark(u)' \/ (u \in final' /\ row'[u] # "purged")
    BY Zenon DEF Published
  <2>2. u # cur /\ u \in Upload \ (crossed \cup halfway)
    BY Zenon, <2>1
  <2>3. public[u] # "none"
    BY Zenon, <2>1, <2>2, <1>0 DEF StoreOK
  <2>4. AtMark(u) => AtMark(u)'
    BY Zenon, <2>1 DEF AtMark
  <2> QED
    BY <2>1, <2>2, <2>3, <2>4, Zenon DEF Published
<1>7. ASSUME SweepCopy
      PROVE  Published'
  <2>1. UNCHANGED <<row, final, crossed, halfway, pc, up, marked>> /\ spc = "copy" /\ cur \in Upload
    BY Zenon, <1>7, CurIs DEF SweepCopy, table, local
  <2>2. \A u \in Upload : AtMark(u) => AtMark(u)'
    BY Zenon, <2>1 DEF AtMark
  <2>3. CASE UNCHANGED public
    BY <2>1, <2>2, <2>3, <1>a, Zenon
  <2>4. CASE ~UNCHANGED public
    <3>1. public' = [public EXCEPT ![cur] = pending[cur]] /\ spc' = "mark" /\ cur' = cur
      BY <1>7, <2>4, Zenon DEF SweepCopy
    <3> SUFFICES ASSUME NEW u \in Upload \ (crossed' \cup halfway'), public'[u] # "none"
                 PROVE  AtMark(u)' \/ (u \in final' /\ row'[u] # "purged")
      BY Zenon DEF Published
    <3>2. CASE u = cur
      BY <3>1, <3>2, Zenon DEF AtMark
    <3>3. CASE u # cur
      <4>1. public[u] # "none"
        BY Zenon, <3>1, <3>3, <2>1, <1>0 DEF StoreOK
      <4> QED
        BY <4>1, <2>1, <2>2, Zenon DEF Published
    <3> QED
      BY Zenon, <3>2, <3>3
  <2> QED
    BY Zenon, <2>3, <2>4
<1>8. ASSUME SweepMark
      PROVE  Published'
  <2>1. /\ UNCHANGED <<row, final, public, crossed, halfway, pc, up, cur>> /\ spc = "mark" /\ cur \in Upload
        /\ marked' = IF row[cur] = "PENDING" /\ cur \notin dead THEN marked \cup {cur} ELSE marked
    BY Zenon, <1>8, CurIs DEF SweepMark, table, store, local
  <2>2. cur \notin crossed => row[cur] = "PENDING" /\ cur \notin dead
    BY <2>1, Zenon DEF Sole, Swept
  <2>3. marked \subseteq marked' /\ (cur \notin crossed => cur \in marked')
    BY Zenon, <2>1, <2>2
  <2>4. \A u \in Upload \ (crossed' \cup halfway') : AtMark(u) => AtMark(u)'
    BY <2>1, <2>3, Zenon DEF AtMark
  <2> QED
    BY <2>1, <2>4, <1>a, Zenon
<1>9. ASSUME SweepRollback
      PROVE  Published'
  <2>1. /\ UNCHANGED <<row, final, public, crossed, pc, up>>
        /\ halfway' = halfway \cup marked \cup (IF spc = "mark" THEN {cur} ELSE {})
    BY <1>9, Zenon DEF SweepRollback, table, store, local
  <2>2. halfway \subseteq halfway' /\ marked \subseteq halfway' /\ (spc = "mark" => cur \in halfway')
    BY Zenon, <2>1
  <2>3. \A u \in Upload \ (crossed' \cup halfway') : AtMark(u) => AtMark(u)'
    BY <2>1, <2>2, Zenon DEF AtMark
  <2> QED
    BY <2>1, <2>2, <2>3, <1>a, Zenon
<1>10. ASSUME SweepCommit
       PROVE  Published'
  <2> SUFFICES ASSUME NEW u \in Upload \ (crossed' \cup halfway'), public'[u] # "none"
               PROVE  AtMark(u)' \/ (u \in final' /\ row'[u] # "purged")
    BY Zenon DEF Published
  <2>1. UNCHANGED <<public, crossed, halfway, pc, up>> /\ spc = "pick" /\ final' = final \cup marked
    BY <1>10, Zenon DEF SweepCommit, store, local
  <2>2. spc # "mark" /\ cur = None
    BY Zenon, <2>1 DEF SweepShape
  <2>3. u \in orphan => u \notin final /\ ~AtMark(u)
    <3> SUFFICES ASSUME u \in orphan
                 PROVE  u \notin final /\ ~AtMark(u)
      BY Zenon
    <3>1. u \in Swept /\ u \notin marked
      BY Zenon DEF Swept, SweepShape
    <3>2. row[u] = "PENDING" /\ \A p \in Proc : ~Works(p, u)
      BY <2>1, <3>1, Zenon DEF Sole
    <3>3. u \notin final
      BY Zenon, <3>2 DEF Rows
    <3>4. \A p \in Proc : up[p] # u
      BY <3>2, Zenon DEF Works
    <3> QED
      BY <3>1, <3>3, <3>4, <2>2, Zenon DEF AtMark
  <2>4. u \notin orphan
    BY <2>1, <2>3, Zenon DEF Published
  <2>5. row'[u] = "purged" => row[u] = "purged"
    BY <1>10, <2>4, CommitRows, Zenon
  <2>6. CASE u \in marked
    <3>1. row[u] = "PENDING" /\ u \in final'
      BY <2>1, <2>6, Zenon DEF Sole, Swept
    <3> QED
      BY Zenon, <3>1, <2>5
  <2>7. CASE u \notin marked
    <3>1. AtMark(u) => AtMark(u)'
      BY <2>1, <2>2, <2>7, Zenon DEF AtMark
    <3> QED
      BY <2>1, <2>5, <3>1, Zenon DEF Published
  <2> QED
    BY Zenon, <2>6, <2>7
<1>11. ASSUME UNCHANGED vars
       PROVE  Published'
  BY <1>11, <1>a, <1>b, Zenon DEF vars, table, store, local, sweep
<1> QED
  BY <1>1, <1>2, <1>3, <1>4, <1>5, <1>6, <1>7, <1>8, <1>9, <1>10, <1>11, <1>12, NextCases, Zenon DEF Client, Sweep

-----------------------------------------------------------------------------
(* The theorems.                                                           *)

LEMMA Base ==
    ASSUME Init
    PROVE  IInv
<1>1. TypeOK
  BY UploadAssumption DEF Init, TypeOK, Objects
<1>2. Requests
  BY Zenon DEF Init, Requests, RequestOk, Confirming
<1>3. SweepShape /\ Rows
  BY Zenon, UploadAssumption DEF Init, SweepShape, Rows
<1>4. Served /\ Verified
  BY Zenon DEF Init, Served, Verified, PublishedAsVerified
<1>5. Sole
  <2>1. \A u \in Upload : u \notin Swept /\ \A p \in Proc : ~Works(p, u)
    BY Zenon, UploadAssumption DEF Init, Swept, Works
  <2>2. \A p \in Proc : pc[p] \notin Confirming
    BY Zenon DEF Init, Confirming
  <2> QED
    BY <2>1, <2>2, Zenon DEF Sole
<1>6. Published
  BY Zenon DEF Init, Published
<1> QED
  BY Zenon, <1>1, <1>2, <1>3, <1>4, <1>5, <1>6 DEF IInv

\* The strengthening holds in every state of rows, store and sweep.
THEOREM Inductive == Spec => []IInv
<1>1. Init => IInv
  BY Zenon, Base
<1>2. IInv /\ [Next]_vars => IInv'
  BY TypePreserved, RequestsPreserved, SweepShapePreserved, RowsPreserved, ServedPreserved, VerifiedPreserved,
     SolePreserved, PublishedPreserved, Zenon DEF IInv
<1> QED
  BY <1>1, <1>2, PTL DEF Spec

\* confirmUpload and the sweep publish before they mark: an UPLOADED row that
\* nobody deletes has its object, for any number of uploads, requests and
\* faults.
THEOREM ServedIsThere == Spec => []ServedHasObject
<1>1. IInv => ServedHasObject
  BY Zenon DEF IInv, Served, Rows, ServedHasObject
<1> QED
  BY <1>1, Inductive, PTL

\* The copy is bound to the bytes that were verified (CopySourceIfMatch; a
\* dead URL for the sweep): on a store with ETags nothing is published under
\* a type its leading bytes do not have, nor an SVG that was not sanitized.
THEOREM PublishedWasVerified == Spec => []PublishedAsVerified
<1>1. IInv => PublishedAsVerified
  BY Zenon DEF IInv, Verified
<1> QED
  BY <1>1, Inductive, PTL

\* The purge deletes the object before the row: a published object outlives
\* its row only if two worked on the upload at once, or a confirm or a sweep
\* failed once S3 had written it, whether S3 answered or not.
THEOREM NoObjectIsOrphaned == Spec => []NoOrphanObject
<1>1. ASSUME IInv, NEW u \in Upload, row[u] = "purged", public[u] # "none", u \notin crossed \cup halfway
      PROVE  FALSE
  <2>1. AtMark(u)
    BY <1>1, Zenon DEF IInv, Published
  <2>2. row[u] = "PENDING"
    BY <1>1, <2>1, AtMarkIs, Zenon DEF IInv
  <2> QED
    BY Zenon, <1>1, <2>2
<1>2. IInv => NoOrphanObject
  BY <1>1, Zenon DEF NoOrphanObject
<1> QED
  BY <1>2, Inductive, PTL

-----------------------------------------------------------------------------
(* StripeLedger.                                                           *)
(* The strengthening.                                                      *)

\* A job that can still run has an event and an attempt left.
JobsWellFormed ==
    \A j \in Jobs :
        /\ j \in Events => ev[j] = j
        /\ Unfinished(j) => ev[j] \in Events /\ tries[j] < MaxAttempts

\* A delivery past its first statement has found or written the row.
DeliveryHasRow ==
    \A d \in Deliveries : phase[d] # "idle" =>
        /\ target[d] \in Events
        /\ status[target[d]] # "absent"

\* A worker marks an event processed only after its dispatch.
MarkingIsApplied ==
    \A j \in Jobs : step[j] = "mark_processed" => applied[ev[j]]

\* Before the row exists only the catch-up sweep can have enqueued the event.
AbsentIsUntouched ==
    \A e \in Events : status[e] = "absent" =>
        /\ step[e] = "none"
        /\ e \notin reclaims

\* ... and it has enqueued it once.
AbsentHasOneJob ==
    \A e \in Events : status[e] = "absent" =>
        \A f, g \in FreshJobs :
            Unfinished(f) /\ Unfinished(g) /\ ev[f] = e /\ ev[g] = e => f = g

\* Worker j has marked its event processed and does not know it.
Unsure(j) == step[j] = "mark_failed" /\ status[ev[j]] = "processed" /\ ev[j] \in unheard

\* A worker between its claim and its mark holds an unexpired lease.
HolderHasLease ==
    \A j \in Jobs : step[j] \in Holding =>
        /\ status[ev[j]] = "processing" \/ Unsure(j)
        /\ ~stale[ev[j]]

\* A worker that wrote the row itself (attempt_count 0) has no competitor.
InserterIsAlone ==
    \A j \in Jobs : step[j] \in Holding /\ fresh[ev[j]] =>
        /\ j \in FreshJobs
        /\ ev[j] \notin reclaims
        /\ \A i \in Jobs : Unfinished(i) /\ ev[i] = ev[j] => i = j
        /\ \A d \in Deliveries : phase[d] = "enqueue" => target[d] # ev[j]

\* What holds whatever the modes.
Basic ==
    /\ LedgerTypeOK
    /\ JobsWellFormed
    /\ DeliveryHasRow
    /\ MarkingIsApplied
    /\ ProcessedIsApplied
    /\ AckedIsDurable
    /\ AbsentIsUntouched

\* What needs workers within their lease and catch-ups that do not overlap.
Exclusive ==
    /\ AbsentHasOneJob
    /\ HolderHasLease
    /\ InserterIsAlone
    /\ OneWorkerPerEvent

LedgerIInv == Basic /\ (~StalledWorkers /\ ~OverlappingCatchups => Exclusive)

-----------------------------------------------------------------------------
(* What a step does to single jobs, rows and deliveries.                   *)

\* What the proofs need of the sets of events and jobs.
LEMMA SetFacts ==
    /\ \A e \in Events : e \in Jobs /\ e \in 0..N /\ e \notin FreshJobs
    /\ \A f \in FreshJobs : f \in Jobs /\ f \notin Events
    /\ \A j \in Jobs : j \in Events \/ j \in FreshJobs
    /\ 0 \in 0..MaxAttempts /\ 0 < MaxAttempts
BY JobsAssumption, LedgerBoundsAssumption DEF Events, Jobs

RowTypes ==
    /\ status \in [Events -> Statuses] /\ fresh \in [Events -> BOOLEAN] /\ stale \in [Events -> BOOLEAN]
    /\ applied \in [Events -> BOOLEAN] /\ acked \in SUBSET Events /\ unheard \in SUBSET Events
HttpTypes == phase \in [Deliveries -> HttpSteps] /\ target \in [Deliveries -> 0..N]
JobTypes ==
    /\ step \in [Jobs -> JobSteps] /\ ev \in [Jobs -> 0..N]
    /\ tries \in [Jobs -> 0..MaxAttempts] /\ stalled \in [Jobs -> BOOLEAN]
RestTypes ==
    /\ emitted \in 0..(N + Later) /\ aged \in 0..N /\ reclaims \in SUBSET Events /\ catchups \in SUBSET Events
    /\ delivered \in 0..MaxDeliveries /\ failures \in 0..MaxFailures

LEMMA LedgerTypes == LedgerTypeOK <=> RowTypes /\ HttpTypes /\ JobTypes /\ RestTypes
BY Zenon DEF LedgerTypeOK, RowTypes, HttpTypes, JobTypes, RestTypes

SameJob(i) == step'[i] = step[i] /\ ev'[i] = ev[i] /\ tries'[i] = tries[i]
SameRow(x) == status'[x] = status[x] /\ fresh'[x] = fresh[x] /\ stale'[x] = stale[x]
SameHttp(d) == phase'[d] = phase[d] /\ target'[d] = target[d]

\* Job j moves to s, with its event; no other job is touched.
JobAt(j, s) ==
    /\ step'[j] = s /\ ev'[j] = ev[j]
    /\ \A i \in Jobs \ {j} : SameJob(i)
    /\ JobTypes'

\* Job j is added for e.
JobNew(j, e) ==
    /\ step'[j] = "wait" /\ ev'[j] = e /\ tries'[j] = 0
    /\ \A i \in Jobs \ {j} : SameJob(i)
    /\ JobTypes'

RowAt(e, st, fr) ==
    /\ status'[e] = st /\ fresh'[e] = fr /\ stale'[e] = FALSE
    /\ \A x \in Events \ {e} : SameRow(x)
    /\ status' \in [Events -> Statuses] /\ fresh' \in [Events -> BOOLEAN] /\ stale' \in [Events -> BOOLEAN]

LEMMA GoJobEffect ==
    ASSUME JobTypes, NEW j \in Jobs, NEW s \in JobSteps, GoJob(j, s)
    PROVE  JobAt(j, s) /\ tries'[j] = tries[j]
BY Zenon DEF JobTypes, GoJob, JobAt, SameJob

LEMMA FailAttemptEffect ==
    ASSUME JobTypes, NEW j \in Jobs, FailAttempt(j), tries[j] < MaxAttempts
    PROVE  \E s \in {"wait", "failed"} : JobAt(j, s) /\ (s = "wait" => tries'[j] < MaxAttempts)
<1>1. tries[j] + 1 \in 0..MaxAttempts
  BY LedgerBoundsAssumption DEF JobTypes
<1> DEFINE s == IF tries[j] + 1 < MaxAttempts THEN "wait" ELSE "failed"
<1>2. s \in {"wait", "failed"} /\ s \in JobSteps /\ (s = "wait" => tries[j] + 1 < MaxAttempts)
  BY Zenon DEF JobSteps
<1>3. step' = [step EXCEPT ![j] = s] /\ tries' = [tries EXCEPT ![j] = tries[j] + 1] /\ UNCHANGED <<ev, stalled>>
  BY Zenon DEF FailAttempt
<1> HIDE DEF s
<1>4. JobTypes'
  BY Zenon, <1>1, <1>2, <1>3 DEF JobTypes
<1>5. step'[j] = s /\ ev'[j] = ev[j] /\ tries'[j] = tries[j] + 1 /\ \A i \in Jobs \ {j} : SameJob(i)
  BY Zenon, <1>3 DEF JobTypes, SameJob
<1> QED  BY Zenon, <1>2, <1>4, <1>5 DEF JobAt

LEMMA AddJobEffect ==
    ASSUME JobTypes, NEW j \in Jobs, NEW e \in Events, AddJob(j, e)
    PROVE  JobNew(j, e)
<1>1. "wait" \in JobSteps /\ e \in 0..N /\ 0 \in 0..MaxAttempts
  BY Zenon, SetFacts DEF JobSteps
<1> QED  BY Zenon, <1>1 DEF JobTypes, AddJob, JobNew, SameJob

LEMMA WriteEffect ==
    ASSUME RowTypes, NEW e \in Events, NEW st \in Statuses, NEW fr \in BOOLEAN, WriteEvent(e, st, fr)
    PROVE  RowAt(e, st, fr)
BY Zenon DEF RowTypes, WriteEvent, RowAt, SameRow

LEMMA GoHttpEffect ==
    ASSUME HttpTypes, NEW d \in Deliveries, NEW s \in HttpSteps, GoHttp(d, s)
    PROVE  /\ phase'[d] = s /\ target'[d] = target[d] /\ \A c \in Deliveries \ {d} : SameHttp(c)
           /\ HttpTypes'
BY Zenon DEF HttpTypes, GoHttp, SameHttp

LEMMA FailureType == ASSUME RestTypes, Failure PROVE failures' \in 0..MaxFailures
BY LedgerBoundsAssumption DEF RestTypes, Failure

LEMMA LedgerInitIInv == LedgerInit => LedgerIInv
BY SetFacts, LedgerBoundsAssumption DEF LedgerInit, LedgerIInv, Basic, Exclusive, LedgerTypeOK, JobsWellFormed, DeliveryHasRow, MarkingIsApplied,
       ProcessedIsApplied, AckedIsDurable, AbsentIsUntouched, AbsentHasOneJob, HolderHasLease,
       InserterIsAlone, OneWorkerPerEvent, Unfinished, Active, Holding, Unsure,
       Statuses, HttpSteps, JobSteps


-----------------------------------------------------------------------------
(* What every step keeps to, and why that keeps the strengthening.         *)

\* Job i goes on with its event, or is as far from running as before.
Goes(i) ==
    /\ i \in Events => ev'[i] = ev[i]
    /\ Unfinished(i)' => Unfinished(i) /\ ev'[i] = ev[i] /\ tries'[i] < MaxAttempts
    /\ step[i] = "none" => step'[i] = "none"
    /\ step'[i] = "mark_processed" => step[i] \in Holding /\ applied'[ev[i]]

\* Job i is added for e, the only job this step adds.
Added(i, e) ==
    /\ ~Goes(i)
    /\ Unfinished(i)' /\ step'[i] \notin Holding /\ ev'[i] = e /\ tries'[i] < MaxAttempts
    /\ i \in Events => i = e /\ status[e] # "absent"
    /\ \A k \in Jobs \ {i} : Goes(k)

\* A row is never deleted, a commit never undone, and no mark precedes it.
Lasts(x) ==
    /\ status[x] # "absent" => status'[x] # "absent"
    /\ applied[x] => applied'[x]
    /\ status'[x] = "processed" => status[x] = "processed" \/ applied'[x]

Proper ==
    /\ \A i \in Jobs : Goes(i) \/ \E e \in Events : Added(i, e)
    /\ \A x \in Events : Lasts(x)
    /\ \A d \in Deliveries :
          \/ phase'[d] = "idle"
          \/ phase[d] # "idle" /\ target'[d] = target[d]
          \/ target'[d] \in Events /\ status'[target'[d]] # "absent"
    /\ \A x \in acked' : x \in acked \/ status'[x] # "absent"
    /\ \A x \in reclaims' : x \in reclaims \/ status'[x] # "absent"

LEMMA ProperBasic ==
    ASSUME Basic, LedgerTypeOK', Proper
    PROVE  Basic'
<1>1. JobsWellFormed'
  <2>1. ASSUME NEW j \in Jobs
        PROVE  (j \in Events => ev'[j] = j) /\ (Unfinished(j)' => ev'[j] \in Events /\ tries'[j] < MaxAttempts)
    <3>1. CASE Goes(j)
      BY Zenon, <3>1 DEF Goes, Basic, JobsWellFormed
    <3>2. CASE \E e \in Events : Added(j, e)
      BY Zenon, <3>2 DEF Added
    <3> QED  BY Zenon, <3>1, <3>2 DEF Proper
  <2> QED  BY Zenon, <2>1 DEF JobsWellFormed
<1>2. DeliveryHasRow'
  <2>1. ASSUME NEW d \in Deliveries, phase'[d] # "idle"
        PROVE  target'[d] \in Events /\ status'[target'[d]] # "absent"
    BY Zenon, <2>1 DEF Proper, Lasts, Basic, DeliveryHasRow
  <2> QED  BY Zenon, <2>1 DEF DeliveryHasRow
<1>3. MarkingIsApplied'
  <2>1. ASSUME NEW j \in Jobs, step'[j] = "mark_processed"
        PROVE  applied'[ev'[j]]
    <3>1. Goes(j)
      BY Zenon, <2>1 DEF Proper, Added, Holding
    <3>2. Unfinished(j)'
      BY Zenon, <2>1 DEF Unfinished, Active, Holding
    <3> QED  BY Zenon, <2>1, <3>1, <3>2 DEF Goes
  <2> QED  BY Zenon, <2>1 DEF MarkingIsApplied
<1>4. ProcessedIsApplied' /\ AckedIsDurable'
  BY Zenon DEF Proper, Lasts, Basic, ProcessedIsApplied, AckedIsDurable, LedgerTypeOK
<1>5. AbsentIsUntouched'
  <2>1. ASSUME NEW e \in Events, status'[e] = "absent"
        PROVE  step'[e] = "none" /\ e \notin reclaims'
    <3>1. status[e] = "absent" /\ step[e] = "none" /\ e \notin reclaims
      BY Zenon, <2>1 DEF Proper, Lasts, Basic, AbsentIsUntouched
    <3>2. Goes(e)
      BY Zenon, <3>1, SetFacts DEF Proper, Added
    <3> QED  BY Zenon, <2>1, <3>1, <3>2 DEF Goes, Proper
  <2> QED  BY Zenon, <2>1 DEF AbsentIsUntouched
<1> QED  BY Zenon, <1>1, <1>2, <1>3, <1>4, <1>5 DEF Basic

\* No worker is at the event x.
Unheld(x) == \A k \in Jobs : step[k] \in Holding => ev[k] # x
UnheldNow(x) == \A k \in Jobs : step'[k] \in Holding => ev'[k] # x

\* Job i takes an event that no worker is at, by itself.
Takes(i) ==
    /\ Unfinished(i) /\ ev'[i] = ev[i] /\ Unheld(ev[i])
    /\ status'[ev[i]] = "processing" /\ ~stale'[ev[i]]
    /\ fresh'[ev[i]] => status[ev[i]] = "absent"
    /\ \A k \in Jobs \ {i} : SameJob(k)

\* A worker stays at its event, the row within its lease.
Stays(i) ==
    /\ step[i] \in Holding
    /\ \/ status'[ev[i]] = "processing"
       \/ step'[i] = "mark_failed" /\ status'[ev[i]] = "processed" /\ ev[i] \in unheard'
    /\ ~stale'[ev[i]]
    /\ fresh'[ev[i]] => fresh[ev[i]]

Single ==
    /\ \A i \in Jobs : step'[i] \in Holding => Stays(i) \/ Takes(i)
    /\ \A i \in Jobs, e \in Events : Added(i, e) =>
          /\ fresh[e] => Unheld(e)
          /\ status[e] = "absent" => \A g \in FreshJobs : Unfinished(g) => ev[g] # e
    /\ \A d \in Deliveries : phase'[d] = "enqueue" =>
          \/ phase[d] = "enqueue" /\ target'[d] = target[d]
          \/ ~fresh'[target'[d]] \/ UnheldNow(target'[d])
    /\ \A x \in reclaims' : x \in reclaims \/ UnheldNow(x)

LEMMA SingleExclusive ==
    ASSUME Basic, Exclusive, ~StalledWorkers, ~OverlappingCatchups, Proper, Single
    PROVE  Exclusive'
<1>0. \A i \in Jobs : step[i] \in Holding => Unfinished(i)
  BY Zenon DEF Unfinished, Active
<1>1. \A i \in Jobs : step'[i] \in Holding => ev'[i] = ev[i] /\ Unfinished(i) /\ ev[i] \in Events
  <2>1. ASSUME NEW i \in Jobs, step'[i] \in Holding
        PROVE  ev'[i] = ev[i] /\ Unfinished(i)
    <3>1. CASE Takes(i)
      BY Zenon, <3>1 DEF Takes
    <3>2. CASE Stays(i)
      <4>1. Goes(i) /\ Unfinished(i)'
        BY Zenon, <2>1 DEF Proper, Added, Unfinished, Active
      <4> QED  BY Zenon, <4>1 DEF Goes
    <3> QED  BY Zenon, <2>1, <3>1, <3>2 DEF Single
  <2> QED  BY Zenon, <2>1 DEF Basic, JobsWellFormed
<1>2. HolderHasLease'
  <2>1. ASSUME NEW j \in Jobs, step'[j] \in Holding
        PROVE  (status'[ev'[j]] = "processing" \/ Unsure(j)') /\ ~stale'[ev'[j]]
    BY Zenon, <2>1, <1>1 DEF Single, Stays, Takes, Unsure
  <2> QED  BY Zenon, <2>1 DEF HolderHasLease
<1>3. OneWorkerPerEvent'
  <2>1. ASSUME NEW i \in Jobs, NEW j \in Jobs, step'[i] \in Holding, step'[j] \in Holding, ev'[i] = ev'[j]
        PROVE  i = j
    <3>0. ev[i] = ev[j]
      BY Zenon, <2>1, <1>1
    <3>1. ASSUME NEW k \in Jobs, NEW l \in Jobs, step'[l] \in Holding, Takes(k), ev[k] = ev[l]
          PROVE  l = k
      <4>1. step[l] \notin Holding
        BY Zenon, <3>1 DEF Takes, Unheld
      <4> QED  BY Zenon, <3>1, <4>1 DEF Takes, SameJob
    <3>2. CASE step[i] \in Holding /\ step[j] \in Holding
      BY Zenon, <3>0, <3>2 DEF Exclusive, OneWorkerPerEvent
    <3> QED  BY Zenon, <2>1, <3>0, <3>1, <3>2 DEF Single, Stays
  <2> QED  BY Zenon, <2>1 DEF OneWorkerPerEvent
<1>4. AbsentHasOneJob'
  <2>1. ASSUME NEW e \in Events, status'[e] = "absent", NEW f \in FreshJobs, NEW g \in FreshJobs,
               Unfinished(f)', Unfinished(g)', ev'[f] = e, ev'[g] = e
        PROVE  f = g
    <3>0. status[e] = "absent" /\ f \in Jobs /\ g \in Jobs
      BY Zenon, <2>1, SetFacts DEF Proper, Lasts
    <3>1. CASE Goes(f) /\ Goes(g)
      BY Zenon, <2>1, <3>0, <3>1 DEF Goes, Exclusive, AbsentHasOneJob
    <3>2. ASSUME NEW k \in FreshJobs, NEW l \in FreshJobs, Added(k, e), Unfinished(l)', ev'[l] = e
          PROVE  k = l
      <4>1. SUFFICES ASSUME k # l PROVE FALSE
        BY Zenon
      <4>2. Goes(l)
        BY Zenon, <3>2, <4>1, SetFacts DEF Added
      <4>3. Unfinished(l) /\ ev[l] = e
        BY Zenon, <3>2, <4>2 DEF Goes
      <4> QED  BY Zenon, <3>0, <3>2, <4>3, SetFacts DEF Single
    <3>3. \A k \in {f, g} : Goes(k) \/ Added(k, e)
      BY Zenon, <2>1, <3>0 DEF Proper, Added
    <3> QED  BY Zenon, <2>1, <3>1, <3>2, <3>3
  <2> QED  BY Zenon, <2>1 DEF AbsentHasOneJob
<1>5. InserterIsAlone'
  <2>1. ASSUME NEW j \in Jobs, step'[j] \in Holding, fresh'[ev'[j]]
        PROVE  /\ j \in FreshJobs /\ ev'[j] \notin reclaims'
               /\ \A i \in Jobs : Unfinished(i)' /\ ev'[i] = ev'[j] => i = j
               /\ \A d \in Deliveries : phase'[d] = "enqueue" => target'[d] # ev'[j]
    <3>0. ev'[j] = ev[j] /\ Unfinished(j) /\ ev[j] \in Events
      BY Zenon, <2>1, <1>1
    <3>1. /\ j \in FreshJobs /\ ev[j] \notin reclaims
          /\ \A i \in Jobs : Unfinished(i) /\ ev[i] = ev[j] => i = j
          /\ \A d \in Deliveries : phase[d] = "enqueue" => target[d] # ev[j]
      <4>1. CASE Stays(j)
        BY Zenon, <2>1, <3>0, <4>1 DEF Stays, Exclusive, InserterIsAlone
      <4>2. CASE Takes(j)
        <5>1. status[ev[j]] = "absent"
          BY Zenon, <2>1, <3>0, <4>2 DEF Takes
        <5>2. step[ev[j]] = "none" /\ ev[j] \notin reclaims
          BY Zenon, <3>0, <5>1 DEF Basic, AbsentIsUntouched
        <5>3. ASSUME NEW i \in Jobs, Unfinished(i), ev[i] = ev[j]
              PROVE  i \in FreshJobs
          <6>1. ~Unfinished(ev[j])
            BY Zenon, <5>2 DEF Unfinished, Active, Holding
          <6> QED  BY Zenon, <5>3, <6>1, SetFacts DEF Basic, JobsWellFormed
        <5>4. \A d \in Deliveries : phase[d] = "enqueue" => target[d] # ev[j]
          BY Zenon, <5>1 DEF Basic, DeliveryHasRow
        <5> QED  BY Zenon, <3>0, <5>1, <5>2, <5>3, <5>4 DEF Exclusive, AbsentHasOneJob
      <4> QED  BY Zenon, <2>1, <4>1, <4>2 DEF Single
    <3>2. ev[j] \notin reclaims'
      BY Zenon, <2>1, <3>0, <3>1 DEF Single, UnheldNow
    <3>3. ASSUME NEW i \in Jobs, Unfinished(i)', ev'[i] = ev'[j]
          PROVE  i = j
      <4>1. CASE Goes(i)
        BY Zenon, <3>0, <3>1, <3>3, <4>1 DEF Goes
      <4>2. CASE Added(i, ev[j])
        <5>1. SUFFICES ASSUME i # j PROVE FALSE
          BY Zenon
        <5>2. Stays(j)
          <6>1. ASSUME Takes(j)
                PROVE  FALSE
            <7>1. SameJob(i)
              BY Zenon, <5>1, <6>1 DEF Takes
            <7>2. Unfinished(i) /\ ev[i] = ev[j]
              BY Zenon, <3>0, <3>3, <7>1 DEF SameJob, Unfinished
            <7> QED  BY Zenon, <3>1, <5>1, <7>2
          <6> QED  BY Zenon, <2>1, <6>1 DEF Single
        <5>3. fresh[ev[j]] => Unheld(ev[j])
          BY Zenon, <3>0, <4>2 DEF Single
        <5> QED  BY Zenon, <2>1, <3>0, <5>2, <5>3 DEF Stays, Unheld
      <4> QED  BY Zenon, <3>0, <3>3, <4>1, <4>2 DEF Proper, Added
    <3>4. ASSUME NEW d \in Deliveries, phase'[d] = "enqueue"
          PROVE  target'[d] # ev'[j]
      BY Zenon, <2>1, <3>0, <3>1, <3>4 DEF Single, UnheldNow
    <3> QED  BY Zenon, <3>0, <3>1, <3>2, <3>3, <3>4
  <2> QED  BY Zenon, <2>1 DEF InserterIsAlone
<1> QED  BY Zenon, <1>2, <1>3, <1>4, <1>5 DEF Exclusive


-----------------------------------------------------------------------------
(* Every step keeps to that.                                               *)

Tame == Exclusive /\ ~StalledWorkers /\ ~OverlappingCatchups

Good == LedgerTypeOK' /\ Proper /\ (Tame => Single)

JobsGo == \A i \in Jobs : Goes(i)

LEMMA SameGoes ==
    ASSUME Basic, NEW i \in Jobs, SameJob(i), \A x \in Events : Lasts(x)
    PROVE  Goes(i)
<1>1. Unfinished(i)' <=> Unfinished(i)
  BY Zenon DEF SameJob, Unfinished
<1>2. step[i] = "mark_processed" => Unfinished(i) /\ step[i] \in Holding
  BY Zenon DEF Unfinished, Active, Holding
<1>3. step[i] = "mark_processed" => applied'[ev[i]]
  BY Zenon, <1>2 DEF Basic, MarkingIsApplied, JobsWellFormed, Lasts
<1> QED  BY Zenon, <1>1, <1>2, <1>3 DEF Goes, SameJob, Basic, JobsWellFormed

LEMMA SameLasts ==
    ASSUME NEW x, status'[x] = status[x], applied' = applied
    PROVE  Lasts(x)
BY Zenon DEF Lasts

LEMMA SameStays ==
    ASSUME Exclusive, NEW i \in Jobs, step[i] \in Holding, SameRow(ev[i]),
           Unsure(i) => step'[i] = "mark_failed" /\ ev[i] \in unheard'
    PROVE  Stays(i)
BY Zenon DEF Stays, SameRow, Exclusive, HolderHasLease, Unsure

\* A step of one job.
LEMMA JobProper ==
    ASSUME Basic, NEW j \in Jobs, NEW s, JobAt(j, s), s # "none", Unfinished(j),
           s \in {"wait"} \cup Active => tries'[j] < MaxAttempts,
           s = "mark_processed" => step[j] \in Holding /\ applied'[ev[j]],
           \A x \in Events : Lasts(x), UNCHANGED <<http, acked, reclaims>>
    PROVE  JobsGo /\ Proper
<1>1. Goes(j)
  <2>1. step[j] # "none"
    BY Zenon DEF Unfinished, Active, Holding
  <2> QED  BY Zenon, <2>1 DEF Goes, JobAt, Unfinished
<1>2. JobsGo
  BY Zenon, <1>1, SameGoes DEF JobsGo, JobAt
<1> QED  BY Zenon, <1>2 DEF Proper, JobsGo, http

LEMMA JobSingle ==
    ASSUME JobsGo, UNCHANGED <<http, reclaims>>, \A i \in Jobs : step'[i] \in Holding => Stays(i) \/ Takes(i)
    PROVE  Single
BY Zenon DEF Single, JobsGo, Added, http

LEMMA JobFacts ==
    ASSUME Basic, NEW j \in Jobs, Unfinished(j)
    PROVE  ev[j] \in Events /\ tries[j] < MaxAttempts
BY Zenon DEF Basic, JobsWellFormed

\* The row and the commits are left alone and the worker does not begin to hold.
LEMMA JobQuiet ==
    ASSUME Basic, NEW j \in Jobs, NEW s, JobAt(j, s), s # "none", s \notin Holding, Unfinished(j),
           s \in {"wait"} \cup Active => tries'[j] < MaxAttempts,
           UNCHANGED <<ledger, applied, unheard, http, acked, stripe, reclaims, catchups, delivered>>,
           failures' = failures \/ Failure
    PROVE  Good
<1>1. RestTypes' /\ RowTypes' /\ HttpTypes' /\ JobTypes'
  BY Zenon, FailureType, LedgerTypes DEF Basic, RestTypes, RowTypes, HttpTypes, ledger, stripe, http, JobAt
<1>2. \A x \in Events : Lasts(x) /\ SameRow(x)
  BY Zenon DEF Lasts, SameRow, ledger
<1>3. JobsGo /\ Proper
  <2>1. s # "mark_processed"
    BY Zenon DEF Holding
  <2> QED  BY Zenon, <1>2, <2>1, JobProper
<1>4. ASSUME Tame, NEW i \in Jobs, step'[i] \in Holding
      PROVE  Stays(i)
  <2>1. step[i] \in Holding /\ step'[i] = step[i]
    BY Zenon, <1>4 DEF JobAt, SameJob
  <2>2. SameRow(ev[i])
    BY Zenon, <2>1, <1>2, JobFacts DEF Unfinished, Active
  <2> QED  BY Zenon, <2>1, <2>2, <1>4, SameStays DEF Tame, Unsure
<1>5. Tame => Single
  BY Zenon, <1>3, <1>4, JobSingle
<1>6. LedgerTypeOK'
  BY Zenon, <1>1 DEF LedgerTypeOK, RestTypes, RowTypes, HttpTypes, JobTypes
<1> QED  BY Zenon, <1>3, <1>5, <1>6 DEF Good

LEMMA QuietJobs ==
    ASSUME Basic, NEW j \in Jobs,
           \/ Start(j) \/ StartFails(j) \/ MarkFailedFails(j) \/ JobDies(j)
           \/ ClaimFails(j) /\ UNCHANGED ledger
           \/ Claim(j) /\ status[ev[j]] # "absent"
           \/ Reclaim(j) /\ ~Reclaimable(ev[j])
    PROVE  Good
<1>0. JobTypes /\ Unfinished(j)
  BY Zenon, LedgerTypes DEF Basic, Start, StartFails, ClaimFails, MarkFailedFails, JobDies, Claim, Reclaim,
     Unfinished, Active, Holding
<1>1. tries[j] < MaxAttempts
  BY Zenon, <1>0, JobFacts
<1>2. ASSUME NEW s \in {"claim", "completed", "reclaim"}, GoJob(j, s),
             UNCHANGED <<ledger, applied, unheard, http, acked, stripe, reclaims, catchups, delivered>>,
             failures' = failures \/ Failure
      PROVE  Good
  <2>1. s \in JobSteps /\ s # "none" /\ s \notin Holding
    BY Zenon, <1>2 DEF JobSteps, Active, Holding
  <2>2. JobAt(j, s) /\ tries'[j] < MaxAttempts
    BY Zenon, <1>0, <1>1, <1>2, <2>1, GoJobEffect
  <2> QED  BY Zenon, <1>0, <1>2, <2>1, <2>2, JobQuiet
<1>3. ASSUME FailAttempt(j),
             UNCHANGED <<ledger, applied, unheard, http, acked, stripe, reclaims, catchups, delivered>>,
             failures' = failures \/ Failure
      PROVE  Good
  <2>1. PICK s \in {"wait", "failed"} : JobAt(j, s) /\ (s = "wait" => tries'[j] < MaxAttempts)
    BY Zenon, <1>0, <1>1, <1>3, FailAttemptEffect
  <2>2. s # "none" /\ s \notin Holding /\ (s \in {"wait"} \cup Active => s = "wait")
    BY Zenon, <2>1 DEF Active, Holding
  <2> QED  BY Zenon, <1>0, <1>3, <2>1, <2>2, JobQuiet
<1>4. CASE Start(j)
  BY Zenon, <1>2, <1>4 DEF Start
<1>5. CASE StartFails(j)
  BY Zenon, <1>3, <1>5 DEF StartFails
<1>6. CASE ClaimFails(j) /\ UNCHANGED ledger
  BY Zenon, <1>3, <1>6 DEF ClaimFails
<1>7. CASE MarkFailedFails(j)
  BY Zenon, <1>3, <1>7 DEF MarkFailedFails
<1>8. CASE JobDies(j)
  <2> DEFINE s == IF stalled[j] THEN "failed" ELSE "wait"
  <2>1. s \in JobSteps /\ s # "none" /\ s \notin Holding
    BY Zenon DEF JobSteps, Active, Holding
  <2>2. JobAt(j, s) /\ tries'[j] = tries[j]
    BY Zenon, <1>0, <1>8, <2>1 DEF JobDies, JobTypes, JobAt, SameJob
  <2> HIDE DEF s
  <2> QED  BY Zenon, <1>0, <1>1, <1>8, <2>1, <2>2, JobQuiet DEF JobDies
<1>9. CASE Claim(j) /\ status[ev[j]] # "absent"
  BY Zenon, <1>2, <1>9 DEF Claim
<1>10. CASE Reclaim(j) /\ ~Reclaimable(ev[j])
  BY Zenon, <1>3, <1>10 DEF Reclaim
<1> QED  BY Zenon, <1>4, <1>5, <1>6, <1>7, <1>8, <1>9, <1>10

LEMMA DispatchJobs ==
    ASSUME Basic, NEW j \in Jobs, Dispatch(j) \/ DispatchThrows(j)
    PROVE  Good
<1>0. JobTypes /\ RowTypes /\ Unfinished(j) /\ step[j] \in Holding
  BY Zenon, LedgerTypes DEF Basic, Dispatch, DispatchThrows, Unfinished, Active, Holding
<1>1. ev[j] \in Events /\ tries[j] < MaxAttempts
  BY Zenon, <1>0, JobFacts
<1>2. PICK s \in {"mark_processed", "mark_failed"} :
          /\ GoJob(j, s)
          /\ \/ applied' = [applied EXCEPT ![ev[j]] = TRUE]
             \/ s = "mark_failed" /\ UNCHANGED applied
  BY Zenon DEF Dispatch, DispatchThrows
<1>3. /\ UNCHANGED <<ledger, unheard, http, acked, stripe, reclaims, catchups, delivered>>
      /\ failures' = failures \/ Failure
  BY Zenon DEF Dispatch, DispatchThrows
<1>4. s \in JobSteps /\ s # "none"
  BY Zenon, <1>2 DEF JobSteps, Active, Holding
<1>5. JobAt(j, s) /\ tries'[j] < MaxAttempts
  BY Zenon, <1>0, <1>1, <1>2, <1>4, GoJobEffect
<1>6. /\ applied' \in [Events -> BOOLEAN] /\ \A x \in Events : applied[x] => applied'[x]
      /\ s = "mark_processed" => applied'[ev[j]]
  BY Zenon, <1>0, <1>1, <1>2 DEF RowTypes
<1>7. \A x \in Events : Lasts(x) /\ SameRow(x)
  BY Zenon, <1>3, <1>6 DEF Lasts, SameRow, ledger
<1>8. JobsGo /\ Proper
  BY Zenon, <1>0, <1>3, <1>4, <1>5, <1>6, <1>7, JobProper
<1>9. LedgerTypeOK'
  <2>1. RestTypes' /\ RowTypes' /\ HttpTypes' /\ JobTypes'
    BY Zenon, <1>3, <1>5, <1>6, FailureType, LedgerTypes DEF Basic, RestTypes, RowTypes, HttpTypes, ledger, stripe, http, JobAt
  <2> QED  BY Zenon, <2>1 DEF LedgerTypeOK, RestTypes, RowTypes, HttpTypes, JobTypes
<1>10. ASSUME Tame, NEW i \in Jobs, step'[i] \in Holding
       PROVE  Stays(i)
  <2>1. step[i] \in Holding /\ (i # j => step'[i] = step[i])
    BY Zenon, <1>0, <1>5, <1>10 DEF JobAt, SameJob
  <2>2. SameRow(ev[i])
    BY Zenon, <2>1, <1>7, JobFacts DEF Unfinished, Active
  <2>3. Unsure(i) => i # j
    BY Zenon DEF Unsure, Dispatch, DispatchThrows
  <2> QED  BY Zenon, <1>3, <2>1, <2>2, <2>3, <1>10, SameStays DEF Tame, Unsure
<1>11. Tame => Single
  BY Zenon, <1>3, <1>8, <1>10, JobSingle
<1> QED  BY Zenon, <1>8, <1>9, <1>11 DEF Good

\* The claim of an absent row, the reclaim of one, and the marks.
LEMMA JobWrites ==
    ASSUME Basic, NEW j \in Jobs,
           \/ Claim(j) /\ status[ev[j]] = "absent"
           \/ Reclaim(j) /\ Reclaimable(ev[j])
           \/ ClaimFails(j) /\ ~UNCHANGED ledger
           \/ MarkProcessed(j) \/ MarkFailed(j)
    PROVE  Good
<1>0. JobTypes /\ RowTypes /\ Unfinished(j)
  BY Zenon, LedgerTypes DEF Basic, Claim, Reclaim, ClaimFails, MarkProcessed, MarkFailed, Unfinished, Active, Holding
<1>1. ev[j] \in Events /\ tries[j] < MaxAttempts /\ fresh[ev[j]] \in BOOLEAN
  BY Zenon, <1>0, JobFacts DEF RowTypes
<1>2. /\ UNCHANGED <<applied, http, acked, stripe, reclaims, catchups, delivered>>
      /\ failures' = failures \/ Failure
      /\ unheard' = unheard \/ unheard' = unheard \ {ev[j]}
  BY Zenon DEF Claim, Reclaim, ClaimFails, MarkProcessed, MarkFailed
<1>3. \E st \in Statuses \ {"absent"}, fr \in BOOLEAN, s \in JobSteps :
          /\ RowAt(ev[j], st, fr) /\ JobAt(j, s) /\ s # "none" /\ s # "mark_processed"
          /\ s \in {"wait"} \cup Active => tries'[j] < MaxAttempts
          /\ st = "processed" => applied[ev[j]]
          /\ s \in Holding => st = "processing" /\ (fr => status[ev[j]] = "absent")
          /\ \/ s \notin Holding /\ step[j] \in Holding
             \/ step[j] \notin Holding /\ (status[ev[j]] = "absent" \/ Reclaimable(ev[j]))
  <2>0. /\ {"processing", "processed", "failed"} \subseteq Statuses \ {"absent"}
        /\ {"dispatch", "completed", "wait", "failed"} \subseteq JobSteps
        /\ "dispatch" \in Holding /\ \A s \in {"completed", "wait", "failed"} : s \notin Holding
        /\ "completed" \notin {"wait"} \cup Active /\ "failed" \notin {"wait"} \cup Active
        /\ "mark_processed" \in Holding /\ "mark_failed" \in Holding
        /\ "claim" \notin Holding /\ "reclaim" \notin Holding
    BY Zenon DEF Statuses, JobSteps, Active, Holding
  <2>1. CASE Claim(j) /\ status[ev[j]] = "absent"
    <3>1. RowAt(ev[j], "processing", TRUE)
      BY Zenon, <1>0, <1>1, <2>0, <2>1, WriteEffect DEF Claim, InsertRow
    <3>2. JobAt(j, "dispatch") /\ tries'[j] = tries[j]
      BY Zenon, <1>0, <2>0, <2>1, GoJobEffect DEF Claim
    <3>3. step[j] = "claim"
      BY Zenon, <2>1 DEF Claim
    <3> QED  BY Zenon, <1>1, <2>0, <2>1, <3>1, <3>2, <3>3
  <2>2. CASE Reclaim(j) /\ Reclaimable(ev[j])
    <3>1. RowAt(ev[j], "processing", FALSE)
      BY Zenon, <1>0, <1>1, <2>0, <2>2, WriteEffect DEF Reclaim, ReclaimRow
    <3>2. JobAt(j, "dispatch") /\ tries'[j] = tries[j]
      BY Zenon, <1>0, <2>0, <2>2, GoJobEffect DEF Reclaim
    <3>3. step[j] = "reclaim"
      BY Zenon, <2>2 DEF Reclaim
    <3> QED  BY Zenon, <1>1, <2>0, <2>2, <3>1, <3>2, <3>3
  <2>5. CASE ClaimFails(j) /\ ~UNCHANGED ledger
    <3>1. PICK fr \in BOOLEAN :
              /\ RowAt(ev[j], "processing", fr)
              /\ status[ev[j]] = "absent" \/ Reclaimable(ev[j])
      BY Zenon, <1>0, <1>1, <2>0, <2>5, WriteEffect DEF ClaimFails, InsertRow, ReclaimRow
    <3>2. PICK s \in {"wait", "failed"} : JobAt(j, s) /\ (s = "wait" => tries'[j] < MaxAttempts)
      BY Zenon, <1>0, <1>1, <2>5, FailAttemptEffect DEF ClaimFails
    <3>3. step[j] \notin Holding
      BY Zenon, <2>0, <2>5 DEF ClaimFails
    <3> QED  BY Zenon, <1>1, <2>0, <3>1, <3>2, <3>3
  <2>3. CASE MarkProcessed(j)
    <3>1. RowAt(ev[j], "processed", fresh[ev[j]])
      BY Zenon, <1>0, <1>1, <2>0, <2>3, WriteEffect DEF MarkProcessed
    <3>2. JobAt(j, "completed")
      BY Zenon, <1>0, <2>0, <2>3, GoJobEffect DEF MarkProcessed
    <3>3. step[j] \in Holding /\ applied[ev[j]]
      BY Zenon, <2>0, <2>3 DEF MarkProcessed, Basic, MarkingIsApplied
    <3> QED  BY Zenon, <1>1, <2>0, <3>1, <3>2, <3>3
  <2>4. CASE MarkFailed(j)
    <3>1. RowAt(ev[j], "failed", fresh[ev[j]])
      BY Zenon, <1>0, <1>1, <2>0, <2>4, WriteEffect DEF MarkFailed
    <3>2. PICK s \in {"wait", "failed"} : JobAt(j, s) /\ (s = "wait" => tries'[j] < MaxAttempts)
      BY Zenon, <1>0, <1>1, <2>4, FailAttemptEffect DEF MarkFailed
    <3>3. step[j] \in Holding
      BY Zenon, <2>0, <2>4 DEF MarkFailed
    <3> QED  BY Zenon, <1>1, <2>0, <3>1, <3>2, <3>3
  <2> QED  BY Zenon, <2>1, <2>2, <2>3, <2>4, <2>5
<1>4. PICK st \in Statuses \ {"absent"}, fr \in BOOLEAN, s \in JobSteps :
          /\ RowAt(ev[j], st, fr) /\ JobAt(j, s) /\ s # "none" /\ s # "mark_processed"
          /\ s \in {"wait"} \cup Active => tries'[j] < MaxAttempts
          /\ st = "processed" => applied[ev[j]]
          /\ s \in Holding => st = "processing" /\ (fr => status[ev[j]] = "absent")
          /\ \/ s \notin Holding /\ step[j] \in Holding
             \/ step[j] \notin Holding /\ (status[ev[j]] = "absent" \/ Reclaimable(ev[j]))
  BY Zenon, <1>3
<1>5. \A x \in Events : Lasts(x)
  BY Zenon, <1>2, <1>4 DEF Lasts, RowAt, SameRow
<1>6. JobsGo /\ Proper
  BY Zenon, <1>0, <1>2, <1>4, <1>5, JobProper
<1>7. LedgerTypeOK'
  <2>1. RestTypes' /\ RowTypes' /\ HttpTypes' /\ JobTypes'
    BY Zenon, <1>2, <1>4, FailureType, LedgerTypes DEF Basic, RestTypes, RowTypes, HttpTypes, stripe, http, JobAt, RowAt
  <2> QED  BY Zenon, <2>1 DEF LedgerTypeOK, RestTypes, RowTypes, HttpTypes, JobTypes
<1>8. ASSUME Tame, NEW i \in Jobs, step'[i] \in Holding
      PROVE  Stays(i) \/ Takes(i)
  <2>0. \A k \in Jobs : step[k] \in Holding => ev[k] \in Events
    BY Zenon, JobFacts DEF Unfinished, Active
  <2>1. step[j] \notin Holding => Unheld(ev[j])
    <3>1. ASSUME step[j] \notin Holding, NEW k \in Jobs, step[k] \in Holding, ev[k] = ev[j]
          PROVE  FALSE
      <4>1. status[ev[j]] \in {"processing", "processed"} /\ ~stale[ev[j]]
        BY Zenon, <1>8, <3>1 DEF Tame, Exclusive, HolderHasLease, Unsure
      <4>2. fresh[ev[j]]
        BY Zenon, <1>4, <3>1, <4>1 DEF Reclaimable
      <4>3. k = j
        BY Zenon, <1>0, <1>8, <3>1, <4>2 DEF Tame, Exclusive, InserterIsAlone
      <4> QED  BY Zenon, <3>1, <4>3
    <3> QED  BY Zenon, <3>1 DEF Unheld
  <2>2. CASE i = j
    BY Zenon, <1>0, <1>4, <1>8, <2>1, <2>2 DEF Takes, RowAt, JobAt
  <2>3. CASE i # j
    <3>1. step[i] \in Holding /\ step'[i] = step[i]
      BY Zenon, <1>4, <1>8, <2>3 DEF JobAt, SameJob
    <3>2. ev[i] # ev[j]
      BY Zenon, <1>8, <2>1, <2>3, <3>1 DEF Unheld, Tame, Exclusive, OneWorkerPerEvent
    <3>3. SameRow(ev[i])
      BY Zenon, <1>4, <2>0, <3>1, <3>2 DEF RowAt
    <3>4. Unsure(i) => step'[i] = "mark_failed" /\ ev[i] \in unheard'
      BY Zenon, <1>2, <3>1, <3>2 DEF Unsure
    <3> QED  BY Zenon, <1>8, <3>1, <3>3, <3>4, SameStays DEF Tame
  <2> QED  BY Zenon, <2>2, <2>3
<1>9. Tame => Single
  BY Zenon, <1>2, <1>6, <1>8, JobSingle
<1> QED  BY Zenon, <1>6, <1>7, <1>9 DEF Good

\* The mark whose answer is lost, its UPDATE committed or not.
LEMMA MarkLost ==
    ASSUME Basic, NEW j \in Jobs, MarkProcessedFails(j)
    PROVE  Good
<1>0. JobTypes /\ RowTypes /\ Unfinished(j) /\ step[j] = "mark_processed" /\ step[j] \in Holding
  BY Zenon, LedgerTypes DEF Basic, MarkProcessedFails, Unfinished, Active, Holding
<1>1. ev[j] \in Events /\ tries[j] < MaxAttempts /\ fresh[ev[j]] \in BOOLEAN /\ applied[ev[j]]
  BY Zenon, <1>0, JobFacts DEF RowTypes, Basic, MarkingIsApplied
<1>2. UNCHANGED <<applied, http, acked, stripe, reclaims, catchups, delivered>> /\ Failure
  BY Zenon DEF MarkProcessedFails
<1>3. JobAt(j, "mark_failed") /\ tries'[j] < MaxAttempts
  <2>1. "mark_failed" \in JobSteps
    BY Zenon DEF JobSteps, Active, Holding
  <2> QED  BY Zenon, <1>0, <1>1, <2>1, GoJobEffect DEF MarkProcessedFails
<1>4. \/ RowAt(ev[j], "processed", fresh[ev[j]]) /\ unheard' = unheard \cup {ev[j]}
      \/ UNCHANGED <<ledger, unheard>>
  <2>1. "processed" \in Statuses
    BY Zenon DEF Statuses
  <2> QED  BY Zenon, <1>0, <1>1, <2>1, WriteEffect DEF MarkProcessedFails
<1>5. /\ \A x \in Events : Lasts(x)
      /\ \A x \in Events \ {ev[j]} : SameRow(x)
      /\ status' \in [Events -> Statuses] /\ fresh' \in [Events -> BOOLEAN] /\ stale' \in [Events -> BOOLEAN]
      /\ unheard' \in SUBSET Events /\ \A x \in unheard : x \in unheard'
  <2>1. CASE RowAt(ev[j], "processed", fresh[ev[j]]) /\ unheard' = unheard \cup {ev[j]}
    BY Zenon, <1>0, <1>1, <1>2, <2>1 DEF RowAt, SameRow, Lasts, RowTypes
  <2>2. CASE UNCHANGED <<ledger, unheard>>
    BY Zenon, <1>0, <1>2, <2>2 DEF ledger, SameRow, Lasts, RowTypes
  <2> QED  BY Zenon, <1>4, <2>1, <2>2
<1>6. JobsGo /\ Proper
  BY Zenon, <1>0, <1>2, <1>3, <1>5, JobProper
<1>7. LedgerTypeOK'
  <2>1. RestTypes' /\ RowTypes' /\ HttpTypes' /\ JobTypes'
    BY Zenon, <1>2, <1>3, <1>5, FailureType, LedgerTypes DEF Basic, RestTypes, RowTypes, HttpTypes, stripe, http, JobAt
  <2> QED  BY Zenon, <2>1 DEF LedgerTypeOK, RestTypes, RowTypes, HttpTypes, JobTypes
<1>8. ASSUME Tame, NEW i \in Jobs, step'[i] \in Holding
      PROVE  Stays(i)
  <2>1. CASE i = j
    <3>1. status[ev[j]] = "processing" /\ ~stale[ev[j]]
      BY Zenon, <1>0, <1>8 DEF Tame, Exclusive, HolderHasLease, Unsure
    <3> QED  BY Zenon, <1>0, <1>3, <1>4, <2>1, <3>1 DEF Stays, RowAt, JobAt, ledger
  <2>2. CASE i # j
    <3>1. step[i] \in Holding /\ step'[i] = step[i]
      BY Zenon, <1>3, <1>8, <2>2 DEF JobAt, SameJob
    <3>2. ev[i] # ev[j] /\ ev[i] \in Events
      BY Zenon, <1>0, <1>8, <2>2, <3>1, JobFacts DEF Tame, Exclusive, OneWorkerPerEvent, Unfinished, Active
    <3> QED  BY Zenon, <1>5, <1>8, <3>1, <3>2, SameStays DEF Tame, Unsure
  <2> QED  BY Zenon, <2>1, <2>2
<1>9. Tame => Single
  BY Zenon, <1>2, <1>6, <1>8, JobSingle
<1> QED  BY Zenon, <1>6, <1>7, <1>9 DEF Good

\* A job is added, or none: what is left to show of such a step.
Around ==
    /\ \A d \in Deliveries :
          \/ phase'[d] = "idle"
          \/ phase[d] # "idle" /\ target'[d] = target[d]
          \/ target'[d] \in Events /\ status'[target'[d]] # "absent"
    /\ \A x \in acked' : x \in acked \/ status'[x] # "absent"
    /\ \A x \in reclaims' : x \in reclaims \/ status'[x] # "absent"

AroundSingle ==
    /\ \A d \in Deliveries : phase'[d] = "enqueue" =>
          \/ phase[d] = "enqueue" /\ target'[d] = target[d]
          \/ ~fresh'[target'[d]] \/ UnheldNow(target'[d])
    /\ \A x \in reclaims' : x \in reclaims \/ UnheldNow(x)

LEMMA AddGood ==
    ASSUME Basic, NEW j \in Jobs, NEW e \in Events, JobNew(j, e), ~Unfinished(j),
           j \in Events => j = e /\ status[e] # "absent",
           UNCHANGED <<ledger, applied, unheard>>, Around, Tame => AroundSingle,
           Tame => /\ fresh[e] => Unheld(e)
                   /\ status[e] = "absent" => \A g \in FreshJobs : Unfinished(g) => ev[g] # e
    PROVE  Proper /\ (Tame => Single)
<1>1. \A x \in Events : Lasts(x) /\ SameRow(x)
  BY Zenon DEF Lasts, SameRow, ledger
<1>2. \A k \in Jobs \ {j} : Goes(k)
  BY Zenon, <1>1, SameGoes DEF JobNew
<1>3. Added(j, e)
  <2>1. Unfinished(j)' /\ step'[j] \notin Holding
    BY Zenon DEF JobNew, Unfinished, Holding
  <2> QED  BY Zenon, <1>2, <2>1, SetFacts DEF Added, Goes, JobNew
<1>4. Proper
  BY Zenon, <1>1, <1>2, <1>3 DEF Proper, Around
<1>5. ASSUME Tame
      PROVE  Single
  <2>1. ASSUME NEW i \in Jobs, step'[i] \in Holding
        PROVE  Stays(i)
    <3>1. step[i] \in Holding /\ step'[i] = step[i]
      BY Zenon, <2>1 DEF JobNew, SameJob, Holding
    <3>2. SameRow(ev[i])
      BY Zenon, <3>1, <1>1, JobFacts DEF Unfinished, Active
    <3> QED  BY Zenon, <1>5, <3>1, <3>2, SameStays DEF Tame, Unsure
  <2>2. ASSUME NEW i \in Jobs, NEW x \in Events, Added(i, x)
        PROVE  x = e
    <3>1. i = j
      BY Zenon, <1>2, <2>2 DEF Added
    <3> QED  BY Zenon, <2>2, <3>1 DEF Added, JobNew
  <2> QED  BY Zenon, <1>5, <2>1, <2>2 DEF Single, AroundSingle
<1> QED  BY Zenon, <1>4, <1>5

LEMMA NoneGood ==
    ASSUME Basic, UNCHANGED job, \A x \in Events : Lasts(x), Around,
           Tame => AroundSingle /\ \A i \in Jobs : step[i] \in Holding => Stays(i)
    PROVE  Proper /\ (Tame => Single)
<1>1. \A i \in Jobs : SameJob(i)
  BY Zenon DEF job, SameJob
<1>2. JobsGo
  BY Zenon, <1>1, SameGoes DEF JobsGo
<1>3. Proper
  BY Zenon, <1>2 DEF JobsGo, Proper, Around
<1>4. Tame => Single
  BY Zenon, <1>1, <1>2 DEF Single, AroundSingle, JobsGo, Added, SameJob
<1> QED  BY Zenon, <1>3, <1>4

\* With the rows as they were, the workers stay where they are.
LEMMA LedgerRowsStay ==
    ASSUME Basic, UNCHANGED <<ledger, applied, unheard, job>>
    PROVE  /\ \A x \in Events : Lasts(x)
           /\ Exclusive => \A i \in Jobs : step[i] \in Holding => Stays(i)
           /\ RowTypes => status' \in [Events -> Statuses] /\ fresh' \in [Events -> BOOLEAN] /\ stale' \in [Events -> BOOLEAN]
<1>1. \A x \in Events : Lasts(x) /\ SameRow(x)
  BY Zenon DEF Lasts, SameRow, ledger
<1>2. \A i \in Jobs : step[i] \in Holding => ev[i] \in Events
  BY Zenon, JobFacts DEF Unfinished, Active
<1>3. \A i \in Jobs : Unsure(i) => step'[i] = "mark_failed" /\ ev[i] \in unheard'
  BY Zenon DEF Unsure, job
<1> QED  BY Zenon, <1>1, <1>2, <1>3, SameStays DEF RowTypes, ledger

LEMMA MainJob ==
    ASSUME Basic, NEW d \in Deliveries, phase[d] = "enqueue", AddMainJob(target[d]) \/ UNCHANGED job,
           UNCHANGED <<ledger, applied, unheard>>, Around, Tame => AroundSingle
    PROVE  JobTypes' /\ Proper /\ (Tame => Single)
<1>0. JobTypes /\ target[d] \in Events /\ status[target[d]] # "absent" /\ target[d] \in Jobs
  BY Zenon, LedgerTypes, SetFacts DEF Basic, DeliveryHasRow
<1>1. CASE UNCHANGED job
  BY Zenon, <1>0, <1>1, NoneGood, LedgerRowsStay DEF JobTypes, job, Tame
<1>2. CASE step[target[d]] = "none" /\ AddJob(target[d], target[d])
  <2>1. JobNew(target[d], target[d])
    BY Zenon, <1>0, <1>2, AddJobEffect
  <2>2. ~Unfinished(target[d])
    BY Zenon, <1>2 DEF Unfinished, Active, Holding
  <2>3. Tame => (fresh[target[d]] => Unheld(target[d]))
    BY Zenon DEF Tame, Exclusive, InserterIsAlone, Unheld
  <2> QED  BY Zenon, <1>0, <2>1, <2>2, <2>3, AddGood DEF JobNew
<1> QED  BY Zenon, <1>0, <1>1, <1>2 DEF AddMainJob

LEMMA Ingests ==
    ASSUME Basic, NEW d \in Deliveries,
           \/ IngestEnqueue(d) \/ IngestFails(d)
           \/ IngestReclaim(d) /\ ~Reclaimable(target[d])
    PROVE  Good
<1>0. HttpTypes /\ RowTypes /\ RestTypes /\ JobTypes /\ target[d] \in Events /\ status[target[d]] # "absent"
  BY Zenon, LedgerTypes DEF Basic, DeliveryHasRow, IngestEnqueue, IngestFails, IngestReclaim
<1>1. /\ GoHttp(d, "idle") /\ UNCHANGED <<ledger, applied, unheard, stripe, reclaims, catchups, delivered>>
      /\ acked' = acked \/ acked' = acked \cup {target[d]}
      /\ failures' = failures \/ Failure
      /\ \/ UNCHANGED job
         \/ phase[d] = "enqueue" /\ AddMainJob(target[d])
  BY Zenon DEF IngestEnqueue, IngestFails, IngestReclaim
<1>2. /\ phase'[d] = "idle" /\ \A c \in Deliveries \ {d} : SameHttp(c)
      /\ HttpTypes'
  BY Zenon, <1>0, <1>1, GoHttpEffect DEF HttpSteps
<1>3. Around /\ AroundSingle
  BY Zenon, <1>0, <1>1, <1>2 DEF Around, AroundSingle, SameHttp, ledger
<1>4. JobTypes' /\ Proper /\ (Tame => Single)
  <2>1. CASE UNCHANGED job
    BY Zenon, <1>0, <1>1, <1>3, <2>1, NoneGood, LedgerRowsStay DEF JobTypes, job, Tame
  <2>2. CASE phase[d] = "enqueue" /\ AddMainJob(target[d])
    BY Zenon, <1>1, <1>3, <2>2, MainJob
  <2> QED  BY Zenon, <1>1, <2>1, <2>2
<1>5. RowTypes' /\ RestTypes'
  BY Zenon, <1>0, <1>1, FailureType DEF RowTypes, RestTypes, ledger, stripe
<1>6. LedgerTypeOK'
  BY Zenon, <1>2, <1>4, <1>5 DEF LedgerTypeOK, RestTypes, RowTypes, HttpTypes, JobTypes
<1> QED  BY Zenon, <1>4, <1>6 DEF Good

\* The INSERT of a delivery, and its reclaim of a row that may be a worker's.
LEMMA IngestWrites ==
    ASSUME Basic, NEW d \in Deliveries, NEW e \in Events,
           \/ IngestClaim(d, e) /\ status[e] = "absent"
           \/ IngestReclaim(d) /\ e = target[d] /\ Reclaimable(e)
    PROVE  Good
<1>0. HttpTypes /\ RowTypes /\ RestTypes /\ JobTypes
  BY Zenon, LedgerTypes DEF Basic
<1>1. /\ \E fr \in BOOLEAN : RowAt(e, "processing", fr) /\ (fr => status[e] = "absent")
      /\ status[e] = "absent" \/ ~fresh'[e]
      /\ UNCHANGED <<applied, unheard, acked, stripe, job, reclaims, catchups, failures>>
      /\ phase'[d] = "enqueue" /\ target'[d] = e /\ \A c \in Deliveries \ {d} : SameHttp(c)
      /\ HttpTypes' /\ delivered' \in 0..MaxDeliveries
  <2>0. "processing" \in Statuses /\ "enqueue" \in HttpSteps /\ e \in 0..N
    BY Zenon, SetFacts DEF Statuses, HttpSteps
  <2>1. CASE IngestClaim(d, e) /\ status[e] = "absent"
    <3>1. RowAt(e, "processing", TRUE)
      BY Zenon, <1>0, <2>0, <2>1, WriteEffect DEF IngestClaim, InsertRow
    <3>2. phase' = [phase EXCEPT ![d] = "enqueue"] /\ target' = [target EXCEPT ![d] = e]
      BY Zenon, <2>1 DEF IngestClaim
    <3>3. phase'[d] = "enqueue" /\ target'[d] = e /\ (\A c \in Deliveries \ {d} : SameHttp(c)) /\ HttpTypes'
      BY Zenon, <1>0, <2>0, <3>2 DEF HttpTypes, SameHttp
    <3>4. delivered' \in 0..MaxDeliveries
      BY <1>0, <2>1, LedgerBoundsAssumption DEF RestTypes, IngestClaim
    <3>5. UNCHANGED <<applied, unheard, acked, stripe, job, reclaims, catchups, failures>>
      BY Zenon, <2>1 DEF IngestClaim
    <3> QED  BY Zenon, <2>1, <3>1, <3>3, <3>4, <3>5
  <2>2. CASE IngestReclaim(d) /\ e = target[d] /\ Reclaimable(e)
    <3>1. RowAt(e, "processing", FALSE)
      BY Zenon, <1>0, <2>0, <2>2, WriteEffect DEF IngestReclaim, ReclaimRow
    <3>2. phase'[d] = "enqueue" /\ target'[d] = e /\ (\A c \in Deliveries \ {d} : SameHttp(c)) /\ HttpTypes'
      BY Zenon, <1>0, <2>0, <2>2, GoHttpEffect DEF IngestReclaim
    <3>3. UNCHANGED <<applied, unheard, acked, stripe, job, reclaims, catchups, failures, delivered>>
      BY Zenon, <2>2 DEF IngestReclaim
    <3>4. status[e] # "absent"
      BY Zenon, <2>2 DEF IngestReclaim, Basic, DeliveryHasRow
    <3> QED  BY Zenon, <1>0, <2>2, <3>1, <3>2, <3>3, <3>4 DEF RowAt, RestTypes
  <2> QED  BY Zenon, <2>1, <2>2
<1>2. \A x \in Events : Lasts(x)
  BY Zenon, <1>1 DEF Lasts, RowAt, SameRow
<1>3. Around
  BY Zenon, <1>1 DEF Around, RowAt, SameHttp
<1>4. ASSUME Tame
      PROVE  AroundSingle /\ \A i \in Jobs : step[i] \in Holding => Stays(i)
  <2>1. status[e] = "absent" => Unheld(e)
    BY Zenon, <1>4 DEF Tame, Exclusive, HolderHasLease, Unheld, Unsure
  <2>2. Unheld(e) => UnheldNow(e)
    BY Zenon, <1>1 DEF Unheld, UnheldNow, job
  <2>3. AroundSingle
    BY Zenon, <1>1, <2>1, <2>2 DEF AroundSingle, SameHttp
  <2>4. ASSUME NEW i \in Jobs, step[i] \in Holding
        PROVE  Stays(i)
    <3>1. ev[i] \in Events /\ status[ev[i]] # "absent" /\ step'[i] = step[i]
      BY Zenon, <1>1, <1>4, <2>4, JobFacts DEF Unfinished, Active, Tame, Exclusive, HolderHasLease, Unsure, job
    <3>2. CASE ev[i] = e
      BY Zenon, <1>1, <2>4, <3>1, <3>2 DEF Stays, RowAt
    <3>3. CASE ev[i] # e
      BY Zenon, <1>1, <1>4, <2>4, <3>1, <3>3, SameStays DEF Tame, RowAt, Unsure
    <3> QED  BY Zenon, <3>2, <3>3
  <2> QED  BY Zenon, <2>3, <2>4
<1>5. Proper /\ (Tame => Single)
  BY Zenon, <1>1, <1>2, <1>3, <1>4, NoneGood
<1>6. RowTypes' /\ RestTypes' /\ JobTypes'
  BY Zenon, <1>0, <1>1 DEF RowTypes, RestTypes, JobTypes, RowAt, job, stripe
<1>7. LedgerTypeOK'
  BY Zenon, <1>1, <1>6 DEF LedgerTypeOK, RestTypes, RowTypes, HttpTypes, JobTypes
<1> QED  BY Zenon, <1>5, <1>7 DEF Good

\* A delivery that finds the row.
LEMMA IngestFinds ==
    ASSUME Basic, NEW d \in Deliveries, NEW e \in Events, IngestClaim(d, e), status[e] # "absent"
    PROVE  Good
<1>0. HttpTypes /\ RowTypes /\ RestTypes /\ JobTypes
  BY Zenon, LedgerTypes DEF Basic
<1>1. /\ target' = [target EXCEPT ![d] = e]
      /\ \/ phase' = phase /\ phase[d] = "idle"
         \/ phase' = [phase EXCEPT ![d] = "reclaim"]
      /\ acked' = acked \/ acked' = acked \cup {e}
      /\ UNCHANGED <<ledger, applied, unheard, job, stripe, reclaims, catchups, failures>>
  BY Zenon DEF IngestClaim
<1>2. /\ phase'[d] \in {"idle", "reclaim"} /\ target'[d] = e /\ \A c \in Deliveries \ {d} : SameHttp(c)
      /\ HttpTypes'
  <2>1. e \in 0..N /\ "reclaim" \in HttpSteps
    BY Zenon, SetFacts DEF HttpSteps
  <2> QED  BY Zenon, <1>0, <1>1, <2>1 DEF HttpTypes, SameHttp
<1>3. Around /\ AroundSingle
  <2>1. \A c \in Deliveries : c # d => SameHttp(c)
    BY Zenon, <1>2
  <2> QED  BY Zenon, <1>1, <1>2, <2>1 DEF Around, AroundSingle, SameHttp, ledger
<1>4. Proper /\ (Tame => Single)
  BY Zenon, <1>1, <1>3, NoneGood, LedgerRowsStay DEF Tame
<1>5. delivered' \in 0..MaxDeliveries
  BY <1>0, LedgerBoundsAssumption DEF RestTypes, IngestClaim
<1>6. RowTypes' /\ RestTypes' /\ JobTypes'
  BY Zenon, <1>0, <1>1, <1>5 DEF RowTypes, RestTypes, JobTypes, ledger, job, stripe
<1>7. LedgerTypeOK'
  BY Zenon, <1>2, <1>6 DEF LedgerTypeOK, RestTypes, RowTypes, HttpTypes, JobTypes
<1> QED  BY Zenon, <1>4, <1>7 DEF Good

LEMMA Enqueues ==
    ASSUME Basic, NEW e \in Events, NEW f \in FreshJobs, ReclaimEnqueue(e, f) \/ CatchupEnqueue(e, f)
    PROVE  Good
<1>0. HttpTypes /\ RowTypes /\ RestTypes /\ JobTypes /\ f \in Jobs /\ f \notin Events
  BY Zenon, LedgerTypes, SetFacts DEF Basic
<1>1. /\ ~Unfinished(f) /\ AddJob(f, e)
      /\ UNCHANGED <<ledger, applied, unheard, acked, http, stripe, delivered, failures>>
      /\ reclaims' \in SUBSET reclaims /\ catchups' \in SUBSET catchups
  BY Zenon DEF ReclaimEnqueue, CatchupEnqueue, AddFreshJob
<1>2. JobNew(f, e)
  BY Zenon, <1>0, <1>1, AddJobEffect
<1>3. Around /\ AroundSingle
  BY Zenon, <1>1 DEF Around, AroundSingle, http
<1>4. ASSUME Tame
      PROVE  /\ fresh[e] => Unheld(e)
             /\ status[e] = "absent" => \A g \in FreshJobs : Unfinished(g) => ev[g] # e
  <2>1. CASE ReclaimEnqueue(e, f)
    <3>1. e \in reclaims
      BY Zenon, <2>1 DEF ReclaimEnqueue
    <3>2. status[e] # "absent"
      BY Zenon, <3>1 DEF Basic, AbsentIsUntouched
    <3>3. fresh[e] => Unheld(e)
      BY Zenon, <1>4, <3>1 DEF Tame, Exclusive, InserterIsAlone, Unheld
    <3> QED  BY Zenon, <3>2, <3>3
  <2>2. CASE CatchupEnqueue(e, f)
    <3>1. \A g \in FreshJobs : Unfinished(g) => ev[g] # e
      BY Zenon, <1>4, <2>2 DEF CatchupEnqueue, Tame
    <3>2. ASSUME fresh[e], NEW k \in Jobs, step[k] \in Holding, ev[k] = e
          PROVE  FALSE
      <4>1. k \in FreshJobs
        BY Zenon, <1>4, <3>2 DEF Tame, Exclusive, InserterIsAlone
      <4> QED  BY Zenon, <3>1, <3>2, <4>1 DEF Unfinished, Active
    <3> QED  BY Zenon, <3>1, <3>2 DEF Unheld
  <2> QED  BY Zenon, <2>1, <2>2
<1>5. Proper /\ (Tame => Single)
  BY Zenon, <1>0, <1>1, <1>2, <1>3, <1>4, AddGood
<1>6. RowTypes' /\ RestTypes' /\ HttpTypes' /\ JobTypes'
  BY Zenon, <1>0, <1>1, <1>2 DEF RowTypes, RestTypes, HttpTypes, JobNew, ledger, http, stripe
<1>7. LedgerTypeOK'
  BY Zenon, <1>6 DEF LedgerTypeOK, RestTypes, RowTypes, HttpTypes, JobTypes
<1> QED  BY Zenon, <1>5, <1>7 DEF Good

\* Steps that touch neither the rows nor the jobs.
LEMMA Scans ==
    ASSUME Basic, \/ Emit \/ Age \/ ReclaimScan \/ CatchupScan \/ UNCHANGED ledgerVars
                  \/ \E e \in Events : EnqueueSkips(e)
    PROVE  Good
<1>0. HttpTypes /\ RowTypes /\ RestTypes /\ JobTypes
  BY Zenon, LedgerTypes DEF Basic
<1>1. UNCHANGED <<ledger, applied, unheard, acked, http, job, delivered>>
  BY Zenon DEF Emit, Age, ReclaimScan, CatchupScan, ledgerVars, EnqueueSkips
<1>2. reclaims' \in SUBSET Events /\ catchups' \in SUBSET Events
  BY Zenon, <1>0 DEF Emit, Age, ReclaimScan, CatchupScan, NewestPage, ledgerVars, EnqueueSkips, RestTypes
<1>3. emitted' \in 0..(N + Later) /\ aged' \in 0..N
  <2>1. Emit => emitted' \in 0..(N + Later) /\ aged' = aged
    BY <1>0, LedgerBoundsAssumption DEF Emit, RestTypes
  <2>2. Age => aged' \in 0..N /\ emitted' = emitted
    BY <1>0, LedgerBoundsAssumption DEF Age, RestTypes
  <2> QED  BY Zenon, <1>0, <2>1, <2>2 DEF ReclaimScan, CatchupScan, ledgerVars, EnqueueSkips, RestTypes, stripe
<1>4. failures' \in 0..MaxFailures
  BY Zenon, <1>0, FailureType DEF Emit, Age, ReclaimScan, CatchupScan, ledgerVars, EnqueueSkips, RestTypes
<1>5. \A x \in reclaims' : x \in reclaims \/ status[x] = "failed" \/ (status[x] = "processing" /\ stale[x])
  BY Zenon DEF Emit, Age, ReclaimScan, CatchupScan, ledgerVars, EnqueueSkips
<1>6. Around
  BY Zenon, <1>1, <1>5 DEF Around, http, ledger
<1>7. Tame => AroundSingle
  <2>1. ASSUME Tame, NEW x \in reclaims', x \notin reclaims
        PROVE  UnheldNow(x)
    <3>1. ASSUME NEW k \in Jobs, step[k] \in Holding, ev[k] = x
          PROVE  FALSE
      <4>1. status[x] \in {"processing", "processed"} /\ ~stale[x]
        BY Zenon, <2>1, <3>1 DEF Tame, Exclusive, HolderHasLease, Unsure
      <4> QED  BY Zenon, <1>5, <2>1, <4>1
    <3> QED  BY Zenon, <1>1, <3>1 DEF UnheldNow, job
  <2> QED  BY Zenon, <1>1, <2>1 DEF AroundSingle, http
<1>8. Proper /\ (Tame => Single)
  BY Zenon, <1>1, <1>6, <1>7, NoneGood, LedgerRowsStay DEF Tame
<1>9. RowTypes' /\ RestTypes' /\ HttpTypes' /\ JobTypes'
  BY Zenon, <1>0, <1>1, <1>2, <1>3, <1>4 DEF RowTypes, RestTypes, HttpTypes, JobTypes, ledger, http, job
<1>10. LedgerTypeOK'
  BY Zenon, <1>9 DEF LedgerTypeOK, RestTypes, RowTypes, HttpTypes, JobTypes
<1> QED  BY Zenon, <1>8, <1>10 DEF Good

LEMMA Expires ==
    ASSUME Basic, NEW e \in Events, LeaseExpires(e)
    PROVE  Good
<1>0. HttpTypes /\ RowTypes /\ RestTypes /\ JobTypes
  BY Zenon, LedgerTypes DEF Basic
<1>1. /\ stale' = [stale EXCEPT ![e] = TRUE]
      /\ StalledWorkers \/ Unheld(e)
      /\ UNCHANGED <<status, fresh, applied, unheard, acked, http, job, stripe, reclaims, catchups, delivered, failures>>
  BY Zenon DEF LeaseExpires, Unheld
<1>2. (\A x \in Events \ {e} : SameRow(x)) /\ stale' \in [Events -> BOOLEAN]
  BY Zenon, <1>0, <1>1 DEF SameRow, RowTypes
<1>3. (\A x \in Events : Lasts(x)) /\ Around /\ AroundSingle
  BY Zenon, <1>1 DEF Lasts, Around, AroundSingle, http
<1>4. ASSUME Tame, NEW i \in Jobs, step[i] \in Holding
      PROVE  Stays(i)
  <2>1. ev[i] \in Events \ {e}
    BY Zenon, <1>1, <1>4, JobFacts DEF Unheld, Tame, Unfinished, Active
  <2> QED  BY Zenon, <1>1, <1>2, <1>4, <2>1, SameStays DEF Tame, Unsure, job
<1>5. Proper /\ (Tame => Single)
  BY Zenon, <1>1, <1>3, <1>4, NoneGood
<1>6. RowTypes' /\ RestTypes' /\ HttpTypes' /\ JobTypes'
  BY Zenon, <1>0, <1>1, <1>2 DEF RowTypes, RestTypes, HttpTypes, JobTypes, http, job, stripe
<1>7. LedgerTypeOK'
  BY Zenon, <1>6 DEF LedgerTypeOK, RestTypes, RowTypes, HttpTypes, JobTypes
<1> QED  BY Zenon, <1>5, <1>7 DEF Good

LEMMA Forgets ==
    ASSUME Basic, NEW e \in Events, ForgetJob(e)
    PROVE  Good
<1>0. HttpTypes /\ RowTypes /\ RestTypes /\ JobTypes /\ e \in Jobs
  BY Zenon, LedgerTypes, SetFacts DEF Basic
<1>1. /\ step' = [step EXCEPT ![e] = "none"] /\ tries' = [tries EXCEPT ![e] = 0]
      /\ stalled' = [stalled EXCEPT ![e] = FALSE] /\ ev' = ev
      /\ UNCHANGED <<ledger, applied, unheard, acked, http, stripe, reclaims, catchups, delivered, failures>>
  BY Zenon DEF ForgetJob
<1>2. JobAt(e, "none")
  <2>1. "none" \in JobSteps /\ 0 \in 0..MaxAttempts
    BY Zenon, SetFacts DEF JobSteps
  <2> QED  BY Zenon, <1>0, <1>1, <2>1 DEF JobAt, JobTypes, SameJob
<1>3. \A x \in Events : Lasts(x) /\ SameRow(x)
  BY Zenon, <1>1 DEF Lasts, SameRow, ledger
<1>4. Goes(e)
  BY Zenon, <1>2 DEF Goes, JobAt, Unfinished, Active, Holding
<1>5. JobsGo
  BY Zenon, <1>2, <1>3, <1>4, SameGoes DEF JobsGo, JobAt
<1>6. Proper
  BY Zenon, <1>1, <1>3, <1>5 DEF Proper, JobsGo, http
<1>7. ASSUME Tame, NEW i \in Jobs, step'[i] \in Holding
      PROVE  Stays(i)
  <2>1. step[i] \in Holding /\ step'[i] = step[i]
    BY Zenon, <1>2, <1>7 DEF JobAt, SameJob, Holding
  <2>2. SameRow(ev[i])
    BY Zenon, <2>1, <1>3, JobFacts DEF Unfinished, Active
  <2> QED  BY Zenon, <1>1, <2>1, <2>2, <1>7, SameStays DEF Tame, Unsure
<1>8. Tame => Single
  BY Zenon, <1>1, <1>5, <1>7, JobSingle
<1>9. RowTypes' /\ RestTypes' /\ HttpTypes' /\ JobTypes'
  BY Zenon, <1>0, <1>1, <1>2 DEF RowTypes, RestTypes, HttpTypes, JobAt, ledger, http, stripe
<1>10. LedgerTypeOK'
  BY Zenon, <1>9 DEF LedgerTypeOK, RestTypes, RowTypes, HttpTypes, JobTypes
<1> QED  BY Zenon, <1>6, <1>8, <1>10 DEF Good

LEMMA EveryStep ==
    ASSUME Basic, [LedgerNext]_ledgerVars
    PROVE  Good
<1>1. ASSUME NEW j \in Jobs, JobStep(j) \/ JobFault(j)
      PROVE  Good
  BY Zenon, <1>1, QuietJobs, DispatchJobs, JobWrites, MarkLost DEF JobStep, JobFault
<1>2. ASSUME NEW d \in Deliveries, NEW e \in Events, IngestClaim(d, e)
      PROVE  Good
  BY Zenon, <1>2, IngestWrites, IngestFinds
<1>3. ASSUME NEW d \in Deliveries, IngestReclaim(d)
      PROVE  Good
  <2>1. target[d] \in Events
    BY Zenon, <1>3 DEF IngestReclaim, Basic, DeliveryHasRow
  <2> QED  BY Zenon, <1>3, <2>1, Ingests, IngestWrites
<1>4. ASSUME NEW d \in Deliveries, IngestEnqueue(d) \/ IngestFails(d)
      PROVE  Good
  BY Zenon, <1>4, Ingests
<1> QED  BY Zenon, <1>1, <1>2, <1>3, <1>4, Forgets, Expires, Scans, Enqueues DEF LedgerNext, HttpStep

LEMMA LedgerNextIInv == LedgerIInv /\ [LedgerNext]_ledgerVars => LedgerIInv'
BY Zenon, EveryStep, ProperBasic, SingleExclusive DEF LedgerIInv, Good, Tame

-----------------------------------------------------------------------------
(***************************************************************************)
(* The state of the pipeline is always well formed.                        *)
(***************************************************************************)
THEOREM LedgerTypeCorrect == LedgerSpec => []LedgerTypeOK
<1>1. LedgerIInv => LedgerTypeOK
  BY Zenon DEF LedgerIInv, Basic
<1>. QED BY <1>1, LedgerInitIInv, LedgerNextIInv, PTL DEF LedgerSpec

(***************************************************************************)
(* For any number of events, jobs, deliveries and faults: the ledger marks *)
(* an event processed only once its writes are committed.                  *)
(***************************************************************************)
THEOREM ProcessedIsAlwaysApplied == LedgerSpec => []ProcessedIsApplied
<1>1. LedgerIInv => ProcessedIsApplied
  BY Zenon DEF LedgerIInv, Basic
<1>. QED BY <1>1, LedgerInitIInv, LedgerNextIInv, PTL DEF LedgerSpec

(***************************************************************************)
(* For any number of events, jobs, deliveries and faults: an acknowledged  *)
(* event is in the ledger.                                                 *)
(***************************************************************************)
THEOREM AckedIsAlwaysDurable == LedgerSpec => []AckedIsDurable
<1>1. LedgerIInv => AckedIsDurable
  BY Zenon DEF LedgerIInv, Basic
<1>. QED BY <1>1, LedgerInitIInv, LedgerNextIInv, PTL DEF LedgerSpec

(***************************************************************************)
(* The ledger row excludes a second worker: with workers that finish       *)
(* within the lease and catch-ups that do not overlap, no two of them are  *)
(* between claim and mark of one event.                                    *)
(***************************************************************************)
THEOREM LeaseExcludes == LedgerSpec => []OneWorkerPerEvent
<1>1. LedgerIInv => OneWorkerPerEvent
  BY Zenon DEF LedgerIInv, Exclusive, OneWorkerPerEvent
<1>. QED BY <1>1, LedgerInitIInv, LedgerNextIInv, PTL DEF LedgerSpec

(***************************************************************************)
(* Under the same assumptions a processed row stays processed, though no   *)
(* UPDATE of the marks checks for it, unless the answer to its own         *)
(* markProcessed was lost.                                                 *)
(***************************************************************************)
THEOREM ProcessedStays ==
    ASSUME ~StalledWorkers, ~OverlappingCatchups
    PROVE  LedgerSpec => ProcessedIsFinal
<1> DEFINE Kept == \A e \in Events \ unheard : status[e] = "processed" => status'[e] = "processed"
<1>1. LedgerIInv /\ [LedgerNext]_ledgerVars => [Kept]_ledgerVars
  <2>. SUFFICES ASSUME LedgerIInv, LedgerNext, NEW e \in Events \ unheard, status[e] = "processed"
                PROVE  status'[e] = "processed"
    OBVIOUS
  <2>. USE DEF LedgerIInv, Basic, LedgerTypeOK, Exclusive, JobsWellFormed, HolderHasLease, DeliveryHasRow,
           WriteEvent, ledger
  <2>1. ASSUME NEW d \in Deliveries, NEW x \in Events, IngestClaim(d, x) PROVE status'[e] = status[e]
    BY <2>1 DEF IngestClaim, InsertRow
  <2>2. ASSUME NEW d \in Deliveries, HttpStep(d) \/ IngestFails(d) PROVE status'[e] = status[e]
    BY SMTT(30), <2>2 DEF HttpStep, IngestReclaim, IngestEnqueue, IngestFails, Reclaimable, ReclaimRow
  <2>3. ASSUME NEW j \in Jobs,
               \/ StartFails(j) \/ DispatchThrows(j) \/ MarkFailedFails(j) \/ JobDies(j)
               \/ Start(j) \/ Dispatch(j)
        PROVE  status'[e] = status[e]
    BY Zenon, <2>3 DEF StartFails, DispatchThrows, MarkFailedFails, JobDies, Start, Dispatch
  <2>4. ASSUME NEW j \in Jobs, Claim(j) \/ Reclaim(j) \/ ClaimFails(j) PROVE status'[e] = status[e]
    BY <2>4 DEF Claim, InsertRow, Reclaim, ClaimFails, Reclaimable, ReclaimRow
  <2>5. ASSUME NEW j \in Jobs, MarkProcessed(j) \/ MarkProcessedFails(j) \/ MarkFailed(j)
        PROVE  status'[e] = status[e]
    <3>1. CASE MarkFailed(j)
      <4>1. status[ev[j]] = "processing" \/ ev[j] \in unheard
        BY Zenon, <3>1 DEF MarkFailed, Holding, Unsure
      <4>. QED BY <3>1, <4>1 DEF MarkFailed
    <3>2. CASE MarkProcessed(j) \/ MarkProcessedFails(j)
      BY <3>2 DEF MarkProcessed, MarkProcessedFails
    <3>. QED BY Zenon, <2>5, <3>1, <3>2
  <2>6. ASSUME NEW x \in Events, ForgetJob(x) \/ LeaseExpires(x) \/ EnqueueSkips(x)
        PROVE  status'[e] = status[e]
    BY Zenon, <2>6 DEF ForgetJob, LeaseExpires, EnqueueSkips
  <2>7. ASSUME NEW x \in Events, NEW f \in FreshJobs, ReclaimEnqueue(x, f) \/ CatchupEnqueue(x, f)
        PROVE  status'[e] = status[e]
    BY Zenon, <2>7 DEF ReclaimEnqueue, CatchupEnqueue
  <2>8. ASSUME Emit \/ Age \/ ReclaimScan \/ CatchupScan PROVE status'[e] = status[e]
    BY Zenon, <2>8 DEF Emit, Age, ReclaimScan, CatchupScan
  <2>. QED BY Zenon, <2>1, <2>2, <2>3, <2>4, <2>5, <2>6, <2>7, <2>8 DEF LedgerNext, JobStep, JobFault
<1>. QED BY <1>1, LedgerInitIInv, LedgerNextIInv, PTL DEF LedgerSpec, ProcessedIsFinal

(***************************************************************************)
(* Under the same assumptions the pipeline implements Inbox, for any       *)
(* number of events, jobs, deliveries and faults: each step stores,        *)
(* confirms, applies or settles one event in that order, or does nothing   *)
(* that Inbox sees.                                                        *)
(***************************************************************************)
THEOREM LedgerImplementsInbox ==
    ASSUME ~StalledWorkers, ~OverlappingCatchups
    PROVE  LedgerSpec => ImplementsInbox
<1> DEFINE Stored == {e \in Events : status[e] # "absent"}
           Effective == {e \in Events : applied[e]}
           Settled == {e \in Events : status[e] = "processed"}
<1>1. LedgerInit => Box!Init
  BY Zenon DEF LedgerInit, Box!Init
<1>2. LedgerIInv /\ [LedgerNext]_ledgerVars => [Box!Next]_(Box!vars)
  <2>. SUFFICES ASSUME LedgerIInv, [LedgerNext]_ledgerVars PROVE [Box!Next]_(Box!vars)
    OBVIOUS
  <2>0. /\ LedgerTypeOK /\ JobsWellFormed /\ DeliveryHasRow /\ MarkingIsApplied
        /\ HolderHasLease
    BY Zenon DEF LedgerIInv, Basic, Exclusive
  <2>. DEFINE Same == Stored' = Stored /\ acked' = acked /\ Effective' = Effective /\ Settled' = Settled /\ unheard' = unheard
  <2>. USE <2>0
  <2>a. ASSUME NEW e \in Events, Stored' = Stored \cup {e}, acked' = acked,
               Effective' = Effective, Settled' = Settled, unheard' = unheard
        PROVE  Box!Next
    BY Zenon, <2>a DEF Box!Next, Box!Store
  <2>b. ASSUME NEW e \in Events, status[e] # "absent", Stored' = Stored, acked' = acked \cup {e},
               Effective' = Effective, Settled' = Settled, unheard' = unheard
        PROVE  Box!Next
    BY Zenon, <2>b DEF Box!Next, Box!Confirm
  <2>c. ASSUME NEW e \in Events, status[e] # "absent", Stored' = Stored, acked' = acked,
               Effective' = Effective \cup {e}, Settled' = Settled, unheard' = unheard
        PROVE  Box!Next
    BY Zenon, <2>c DEF Box!Next, Box!TakeEffect
  <2>d. ASSUME NEW e \in Events, applied[e], Stored' = Stored, acked' = acked,
               Effective' = Effective, Settled' = Settled \cup {e}, unheard' \in {unheard, unheard \cup {e}}
        PROVE  Box!Next
    BY Zenon, <2>d DEF Box!Next, Box!Settle
  <2>f. ASSUME NEW e \in Events, e \in unheard, Stored' = Stored, acked' = acked,
               Effective' = Effective, Settled' = Settled \ {e}, unheard' = unheard \ {e}
        PROVE  Box!Next
    BY Zenon, <2>f DEF Box!Next, Box!Reopen
  <2>e. ASSUME Same PROVE UNCHANGED Box!vars
    BY Zenon, <2>e DEF Box!vars
  <2>1. ASSUME NEW d \in Deliveries, NEW e \in Events, IngestClaim(d, e) PROVE Same \/ Box!Next
    <3>1. CASE status[e] = "absent"
      <4>1. Stored' = Stored \cup {e} /\ acked' = acked /\ Effective' = Effective /\ Settled' = Settled
        BY <2>1, <3>1 DEF IngestClaim, InsertRow, WriteEvent, LedgerTypeOK
      <4>2. unheard' = unheard
        BY Zenon, <2>1 DEF IngestClaim
      <4>. QED BY Zenon, <4>1, <4>2, <2>a
    <3>2. CASE status[e] = "processed"
      <4>1. Stored' = Stored /\ acked' = acked \cup {e} /\ Effective' = Effective /\ Settled' = Settled /\ unheard' = unheard
        BY Zenon, <2>1, <3>2 DEF IngestClaim, ledger
      <4>. QED BY Zenon, <4>1, <3>2, <2>b
    <3>3. CASE status[e] \in {"processing", "failed"}
      BY Zenon, <2>1, <3>3 DEF IngestClaim, ledger
    <3>. QED BY Zenon, <3>1, <3>2, <3>3, <2>1 DEF IngestClaim
  <2>2. ASSUME NEW d \in Deliveries, IngestReclaim(d) PROVE Same \/ Box!Next
    <3>0. target[d] \in Events /\ status[target[d]] # "absent"
      BY Zenon, <2>2 DEF IngestReclaim, DeliveryHasRow
    <3>1. CASE Reclaimable(target[d])
      <4>1. status[target[d]] # "processed" /\ status' = [status EXCEPT ![target[d]] = "processing"]
        BY Zenon, <2>2, <3>1 DEF IngestReclaim, Reclaimable, ReclaimRow, WriteEvent
      <4>2. acked' = acked /\ applied' = applied /\ unheard' = unheard
        BY Zenon, <2>2, <3>1 DEF IngestReclaim
      <4>. QED BY Zenon, <4>1, <4>2, <3>0 DEF LedgerTypeOK
    <3>2. CASE ~Reclaimable(target[d])
      <4>1. acked' = acked \cup {target[d]} /\ status' = status /\ applied' = applied /\ unheard' = unheard
        BY Zenon, <2>2, <3>2 DEF IngestReclaim, ledger
      <4>. QED BY Zenon, <4>1, <3>0, <2>b
    <3>. QED BY Zenon, <3>1, <3>2
  <2>3. ASSUME NEW d \in Deliveries, IngestEnqueue(d) PROVE Same \/ Box!Next
    <3>1. target[d] \in Events /\ status[target[d]] # "absent"
      BY Zenon, <2>3 DEF IngestEnqueue, DeliveryHasRow
    <3>2. acked' = acked \cup {target[d]} /\ status' = status /\ applied' = applied /\ unheard' = unheard
      BY Zenon, <2>3 DEF IngestEnqueue, ledger
    <3>. QED BY Zenon, <3>1, <3>2, <2>b
  <2>4. ASSUME NEW j \in Jobs, Claim(j) PROVE Same \/ Box!Next
    <3>1. ev[j] \in Events /\ acked' = acked /\ applied' = applied /\ unheard' = unheard
      BY Zenon, <2>4 DEF Claim, JobsWellFormed, Unfinished, Active
    <3>2. CASE status[ev[j]] = "absent"
      <4>1. status' = [status EXCEPT ![ev[j]] = "processing"]
        BY Zenon, <2>4, <3>2 DEF Claim, InsertRow, WriteEvent
      <4>2. Stored' = Stored \cup {ev[j]} /\ Settled' = Settled /\ Effective' = Effective
        BY Zenon, <4>1, <3>1, <3>2 DEF LedgerTypeOK
      <4>. QED BY Zenon, <4>2, <3>1, <2>a
    <3>3. CASE status[ev[j]] # "absent"
      BY Zenon, <2>4, <3>1, <3>3 DEF Claim, ledger
    <3>. QED BY Zenon, <3>2, <3>3
  <2>5. ASSUME NEW j \in Jobs, Reclaim(j) PROVE Same
    <3>1. ev[j] \in Events /\ acked' = acked /\ applied' = applied /\ unheard' = unheard
      BY Zenon, <2>5 DEF Reclaim, JobsWellFormed, Unfinished, Active
    <3>2. CASE Reclaimable(ev[j])
      <4>1. status[ev[j]] \in {"failed", "processing"} /\ status' = [status EXCEPT ![ev[j]] = "processing"]
        BY Zenon, <2>5, <3>2 DEF Reclaim, Reclaimable, ReclaimRow, WriteEvent
      <4>. QED BY Zenon, <4>1, <3>1 DEF LedgerTypeOK
    <3>3. CASE ~Reclaimable(ev[j])
      BY Zenon, <2>5, <3>1, <3>3 DEF Reclaim, ledger
    <3>. QED BY Zenon, <3>2, <3>3
  <2>6. ASSUME NEW j \in Jobs, Dispatch(j) \/ DispatchThrows(j) PROVE Same \/ Box!Next
    <3>1. ev[j] \in Events /\ status[ev[j]] # "absent" /\ acked' = acked /\ status' = status /\ unheard' = unheard
      BY Zenon, <2>6 DEF Dispatch, DispatchThrows, ledger, JobsWellFormed, HolderHasLease, Unsure, Unfinished, Active, Holding
    <3>2. CASE applied' = applied
      BY Zenon, <3>1, <3>2
    <3>3. CASE applied' = [applied EXCEPT ![ev[j]] = TRUE]
      <4>1. Effective' = Effective \cup {ev[j]} /\ Stored' = Stored /\ Settled' = Settled
        BY Zenon, <3>1, <3>3 DEF LedgerTypeOK
      <4>. QED BY Zenon, <4>1, <3>1, <2>c
    <3>. QED BY Zenon, <2>6, <3>2, <3>3 DEF Dispatch, DispatchThrows
  <2>7. ASSUME NEW j \in Jobs, MarkProcessed(j) \/ (MarkProcessedFails(j) /\ ~UNCHANGED <<ledger, unheard>>)
        PROVE  Same \/ Box!Next
    <3>1. /\ ev[j] \in Events /\ status[ev[j]] = "processing" /\ applied[ev[j]]
          /\ acked' = acked /\ applied' = applied
      BY Zenon, <2>7 DEF MarkProcessed, MarkProcessedFails, JobsWellFormed, HolderHasLease, Unsure, MarkingIsApplied, Unfinished, Active, Holding
    <3>2. status' = [status EXCEPT ![ev[j]] = "processed"] /\ unheard' \in {unheard, unheard \cup {ev[j]}}
      BY Zenon, <2>7 DEF MarkProcessed, MarkProcessedFails, WriteEvent
    <3>3. Settled' = Settled \cup {ev[j]} /\ Stored' = Stored /\ Effective' = Effective
      BY Zenon, <3>1, <3>2 DEF LedgerTypeOK
    <3>. QED BY Zenon, <3>1, <3>2, <3>3, <2>d
  <2>8. ASSUME NEW j \in Jobs, MarkFailed(j) PROVE Same \/ Box!Next
    <3>1. /\ ev[j] \in Events /\ acked' = acked /\ applied' = applied
          /\ status[ev[j]] = "processing" \/ (status[ev[j]] = "processed" /\ ev[j] \in unheard)
      BY Zenon, <2>8 DEF MarkFailed, JobsWellFormed, HolderHasLease, Unsure, Unfinished, Active, Holding
    <3>2. status' = [status EXCEPT ![ev[j]] = "failed"] /\ unheard' = unheard \ {ev[j]}
      BY Zenon, <2>8 DEF MarkFailed, WriteEvent
    <3>3. Stored' = Stored /\ Effective' = Effective /\ Settled' = Settled \ {ev[j]}
      BY Zenon, <3>1, <3>2 DEF LedgerTypeOK
    <3>4. CASE ev[j] \in unheard
      BY Zenon, <3>1, <3>2, <3>3, <3>4, <2>f
    <3>5. CASE ev[j] \notin unheard
      BY Zenon, <3>1, <3>2, <3>3, <3>5
    <3>. QED BY Zenon, <3>4, <3>5
  <2>9. ASSUME NEW j \in Jobs, ClaimFails(j) PROVE Same \/ Box!Next
    <3>1. ev[j] \in Events /\ acked' = acked /\ applied' = applied /\ unheard' = unheard
      BY Zenon, <2>9 DEF ClaimFails, JobsWellFormed, Unfinished, Active
    <3>2. CASE UNCHANGED ledger
      BY Zenon, <3>1, <3>2 DEF ledger
    <3>3. CASE status[ev[j]] = "absent" /\ InsertRow(ev[j])
      <4>1. status' = [status EXCEPT ![ev[j]] = "processing"]
        BY Zenon, <3>3 DEF InsertRow, WriteEvent
      <4>2. Stored' = Stored \cup {ev[j]} /\ Settled' = Settled /\ Effective' = Effective
        BY Zenon, <4>1, <3>1, <3>3 DEF LedgerTypeOK
      <4>. QED BY Zenon, <4>2, <3>1, <2>a
    <3>4. CASE Reclaimable(ev[j]) /\ ReclaimRow(ev[j])
      <4>1. status[ev[j]] \in {"failed", "processing"} /\ status' = [status EXCEPT ![ev[j]] = "processing"]
        BY Zenon, <3>4 DEF Reclaimable, ReclaimRow, WriteEvent
      <4>. QED BY Zenon, <4>1, <3>1 DEF LedgerTypeOK
    <3>. QED BY Zenon, <2>9, <3>2, <3>3, <3>4 DEF ClaimFails
  <2>10. ASSUME NEW d \in Deliveries, IngestFails(d) PROVE Same
    BY Zenon, <2>10 DEF IngestFails, ledger
  <2>11. ASSUME NEW j \in Jobs,
                \/ Start(j) \/ StartFails(j) \/ MarkFailedFails(j) \/ JobDies(j)
                \/ MarkProcessedFails(j) /\ UNCHANGED <<ledger, unheard>>
         PROVE  Same
    BY Zenon, <2>11 DEF Start, StartFails, MarkProcessedFails, MarkFailedFails, JobDies, ledger
  <2>12. ASSUME NEW e \in Events, ForgetJob(e) \/ LeaseExpires(e) \/ EnqueueSkips(e) PROVE Same
    BY Zenon, <2>12 DEF ForgetJob, LeaseExpires, EnqueueSkips, ledger
  <2>13. ASSUME NEW e \in Events, NEW f \in FreshJobs, ReclaimEnqueue(e, f) \/ CatchupEnqueue(e, f)
         PROVE  Same
    BY Zenon, <2>13 DEF ReclaimEnqueue, CatchupEnqueue, ledger
  <2>14. ASSUME Emit \/ Age \/ ReclaimScan \/ CatchupScan \/ UNCHANGED ledgerVars PROVE Same
    BY Zenon, <2>14 DEF Emit, Age, ReclaimScan, CatchupScan, ledgerVars, ledger
  <2>. HIDE DEF Same
  <2>15. Same \/ Box!Next
    BY <2>1, <2>2, <2>3, <2>4, <2>5, <2>6, <2>7, <2>8, <2>9, <2>10, <2>11, <2>12, <2>13, <2>14, Zenon
       DEF LedgerNext, HttpStep, JobStep, JobFault
  <2>. QED BY Zenon, <2>15, <2>e
<1>. QED BY <1>1, <1>2, LedgerInitIInv, LedgerNextIInv, PTL DEF LedgerSpec, ImplementsInbox, Box!Spec

=============================================================================
