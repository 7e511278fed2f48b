--------------------------- MODULE TenancyProofs ----------------------------
(***************************************************************************)
(* Proofs about Membership and PermissionCache for any number of users,    *)
(* requests, ceilings and versions.                                        *)
(*                                                                         *)
(* Membership: a request keeps what it has read, or ends (Requests): a     *)
(* row that goes takes the requests that have read it along.  Owners and   *)
(* Seats say what the open transactions promise: the owner to be is        *)
(* active and nobody removes them, and the holder of the seat lock has     *)
(* room for one more member.                                               *)
(*                                                                         *)
(* PermissionCache: the strengthening says who can be missing in a value:  *)
(* a request that is still to invalidate, for the user of the value or     *)
(* for all (LackWriter, ValWriter).  While the version key never expired   *)
(* early no value and no recompute is ahead of the version (CachedPast,    *)
(* ComputingPast), what a recompute at the present version may yet write   *)
(* reflects every change that is over (ValFresh), and a DEL on its way     *)
(* deletes the very key that lacks its change (LackDel, ValDel).           *)
(***************************************************************************)
EXTENDS Membership, PermissionCache, TLAPS

-----------------------------------------------------------------------------
(* PermissionCache                                                         *)

HasUser ==
    \A p \in Req : step[p] \in Readers \cup {"version", "del"} => usr[p] \in Subject

AbsentBlank ==
    \A v \in Versions, u \in Subject : <<v, u>> \notin cached => lack[v][u] = {}

OnlyCommit ==
    \A p \in Req : val[p] # {} => step[p] = "commit"

LackWriter ==
    \A v \in Versions, u \in Subject, q \in Req :
        q \in lack[v][u] => step[q] \in Writers /\ (step[q] # "bump" => u = usr[q])

ValWriter ==
    \A p, q \in Req :
        q \in val[p] => step[q] \in Writers /\ (step[q] # "bump" => usr[p] = usr[q])

CachedPast ==
    ~wrapped => \A v \in Versions, u \in Subject : <<v, u>> \in cached => v <= ver

ComputingPast ==
    ~wrapped => \A p \in Computing : at[p] <= ver

ValFresh ==
    ~wrapped => \A p \in Computing : at[p] = ver => Gone \notin val[p]

LackDel ==
    ~wrapped => \A u \in Subject, q \in Req :
        q \in lack[ver][u] /\ step[q] = "del" => at[q] = ver

ValDel ==
    ~wrapped => \A p \in Computing, q \in Req :
        at[p] = ver /\ q \in val[p] /\ step[q] = "del" => at[q] = ver

CacheIInv ==
    /\ CacheTypeOK /\ HasUser /\ AbsentBlank /\ OnlyCommit /\ LackWriter /\ ValWriter
    /\ CachedPast /\ ComputingPast /\ InvalidatedForGood /\ ValFresh /\ LackDel /\ ValDel

-----------------------------------------------------------------------------
LEMMA VersionFact ==
    Versions \subseteq Nat /\ 0 \in Versions /\ \A v \in Versions : v < MaxVer => v + 1 \in Versions
  BY MaxVerAssumption DEF Versions

LEMMA CacheInitIInv == CacheInit => CacheIInv
<1> SUFFICES ASSUME CacheInit PROVE CacheIInv
  OBVIOUS
<1>1. CacheTypeOK
  BY Zenon, VersionFact DEF CacheInit, CacheTypeOK
<1>2. HasUser /\ AbsentBlank /\ OnlyCommit /\ LackWriter /\ ValWriter
  BY Zenon DEF CacheInit, HasUser, AbsentBlank, OnlyCommit, LackWriter, ValWriter, Readers
<1>3. CachedPast /\ ComputingPast
  BY Zenon DEF CacheInit, CachedPast, ComputingPast, Computing
<1>4. InvalidatedForGood /\ ValFresh /\ LackDel /\ ValDel
  BY Zenon, VersionFact DEF CacheInit, InvalidatedForGood, ValFresh, LackDel, ValDel, Computing
<1> QED
  BY <1>1, <1>2, <1>3, <1>4, Zenon DEF CacheIInv

(* A request begins: it misses the cache, or its change of a membership commits. *)
LEMMA BeginKeeps ==
    ASSUME CacheIInv, NEW p \in Req, NEW w \in Subject,
           \/ Miss(p, w)
           \/ ChangeMember(p, w)
    PROVE  CacheIInv'
<1>0. /\ CacheTypeOK /\ HasUser /\ AbsentBlank /\ OnlyCommit /\ LackWriter /\ ValWriter
      /\ CachedPast /\ ComputingPast /\ InvalidatedForGood /\ ValFresh /\ LackDel /\ ValDel
  BY Zenon DEF CacheIInv
<1>1. CASE Miss(p, w)
  <2>1. /\ step[p] = "idle" /\ step' = [step EXCEPT ![p] = "lock"] /\ usr' = [usr EXCEPT ![p] = w]
        /\ UNCHANGED <<ver, cached, lack, holder, at, val, wrapped>>
    BY Zenon, <1>1 DEF Miss, Enter, cache
  <2>2. CacheTypeOK'
    BY Zenon, <1>0, <2>1 DEF CacheTypeOK, Readers, Writers
  <2>3. HasUser'
    BY Zenon, <1>0, <2>1 DEF CacheTypeOK, HasUser, Readers
  <2>4. OnlyCommit'
    BY Zenon, <1>0, <2>1 DEF CacheTypeOK, OnlyCommit
  <2>5. LackWriter'
    BY <1>0, <2>1 DEF CacheTypeOK, LackWriter, Writers
  <2>6. ValWriter'
    BY Zenon, <1>0, <2>1, ProcAssumption DEF CacheTypeOK, ValWriter, Writers, OnlyCommit
  <2>7. ComputingPast'
    BY Zenon, <1>0, <2>1 DEF CacheTypeOK, ComputingPast, Computing
  <2>8. ValFresh'
    BY Zenon, <1>0, <2>1 DEF CacheTypeOK, ValFresh, Computing
  <2>9. LackDel'
    BY Zenon, <1>0, <2>1 DEF CacheTypeOK, LackDel
  <2>10. ValDel'
    BY Zenon, <1>0, <2>1 DEF CacheTypeOK, ValDel, Computing
  <2>11. AbsentBlank' /\ CachedPast'
    BY <1>0, <2>1, Zenon DEF AbsentBlank, CachedPast
  <2>12. InvalidatedForGood'
    BY <1>0, <2>1, Zenon DEF InvalidatedForGood
  <2> QED
    BY <2>2, <2>3, <2>4, <2>5, <2>6, <2>7, <2>8, <2>9, <2>10, <2>11, <2>12, Zenon DEF CacheIInv
<1>2. CASE ChangeMember(p, w)
  <2>1. /\ step[p] = "idle" /\ step' = [step EXCEPT ![p] = "version"] /\ usr' = [usr EXCEPT ![p] = w]
        /\ lack' = [v \in Versions |-> [u \in Subject |->
                       IF u = w /\ <<v, u>> \in cached THEN lack[v][u] \cup {p} ELSE lack[v][u]]]
        /\ val' = [q \in Req |-> IF step[q] = "commit" /\ usr[q] = w THEN val[q] \cup {p} ELSE val[q]]
        /\ UNCHANGED <<ver, cached, holder, at, wrapped>>
    BY Zenon, <1>2 DEF ChangeMember, Commits, Enter
  <2>2. CacheTypeOK'
    BY <1>0, <2>1, ProcAssumption DEF CacheTypeOK, Readers, Writers, Changes
  <2>3. HasUser'
    BY Zenon, <1>0, <2>1, ProcAssumption DEF CacheTypeOK, HasUser, Readers
  <2>4. AbsentBlank'
    BY Zenon, <1>0, <2>1, ProcAssumption DEF CacheTypeOK, AbsentBlank
  <2>5. OnlyCommit'
    BY Zenon, <1>0, <2>1, ProcAssumption DEF CacheTypeOK, OnlyCommit
  <2>6. LackWriter'
    BY <1>0, <2>1, ProcAssumption DEF CacheTypeOK, LackWriter, Writers
  <2>7. ValWriter'
    BY Zenon, <1>0, <2>1, ProcAssumption DEF CacheTypeOK, ValWriter, Writers, OnlyCommit
  <2>8. ComputingPast'
    BY Zenon, <1>0, <2>1, ProcAssumption DEF CacheTypeOK, ComputingPast, Computing
  <2>9. InvalidatedForGood'
    BY Zenon, <1>0, <2>1, ProcAssumption DEF CacheTypeOK, InvalidatedForGood
  <2>10. ValFresh'
    BY Zenon, <1>0, <2>1, ProcAssumption DEF CacheTypeOK, ValFresh, Computing
  <2>11. LackDel'
    BY Zenon, <1>0, <2>1, ProcAssumption DEF CacheTypeOK, LackDel
  <2>12. ValDel'
    BY Zenon, <1>0, <2>1, ProcAssumption DEF CacheTypeOK, ValDel, Computing
  <2>13. CachedPast'
    BY <1>0, <2>1, Zenon DEF CachedPast
  <2> QED
    BY <2>2, <2>3, <2>4, <2>5, <2>6, <2>7, <2>8, <2>9, <2>10, <2>11, <2>12, <2>13, Zenon DEF CacheIInv
<1> QED
  BY <1>1, <1>2, Zenon

(* A request that recomputes the codes of a user. *)
LEMMA ReaderKeeps ==
    ASSUME CacheIInv, NEW p \in Req,
           \/ Lock(p)
           \/ DoubleCheck(p)
           \/ Recompute(p)
           \/ Commit(p)
           \/ Release(p)
           \/ ReaderDies(p)
    PROVE  CacheIInv'
<1>0. /\ CacheTypeOK /\ HasUser /\ AbsentBlank /\ OnlyCommit /\ LackWriter /\ ValWriter
      /\ CachedPast /\ ComputingPast /\ InvalidatedForGood /\ ValFresh /\ LackDel /\ ValDel
  BY Zenon DEF CacheIInv
<1>1. CASE Lock(p)
  <2>1. /\ step[p] = "lock" /\ step' = [step EXCEPT ![p] = "check"]
        /\ holder' = IF holder[usr[p]] = Nil THEN [holder EXCEPT ![usr[p]] = p] ELSE holder
        /\ UNCHANGED <<ver, cached, lack, usr, at, val, wrapped>>
    BY Zenon, <1>1 DEF Lock, Enter
  <2>2. CacheTypeOK'
    BY Zenon, <1>0, <2>1, ProcAssumption DEF CacheTypeOK, Readers, Writers, HasUser
  <2>3. HasUser'
    BY Zenon, <1>0, <2>1 DEF CacheTypeOK, HasUser, Readers
  <2>4. OnlyCommit'
    BY Zenon, <1>0, <2>1 DEF CacheTypeOK, OnlyCommit
  <2>5. LackWriter'
    BY <1>0, <2>1 DEF CacheTypeOK, LackWriter, Writers
  <2>6. ValWriter'
    BY Zenon, <1>0, <2>1 DEF CacheTypeOK, ValWriter, Writers
  <2>7. ComputingPast'
    BY Zenon, <1>0, <2>1, ProcAssumption DEF CacheTypeOK, ComputingPast, Computing, HasUser, Readers
  <2>8. ValFresh'
    BY Zenon, <1>0, <2>1, ProcAssumption DEF CacheTypeOK, ValFresh, Computing, HasUser, Readers
  <2>9. LackDel'
    BY Zenon, <1>0, <2>1 DEF CacheTypeOK, LackDel
  <2>10. ValDel'
    BY Zenon, <1>0, <2>1, ProcAssumption DEF CacheTypeOK, ValDel, Computing, HasUser, Readers
  <2>11. AbsentBlank' /\ CachedPast'
    BY <1>0, <2>1, Zenon DEF AbsentBlank, CachedPast
  <2>12. InvalidatedForGood'
    BY <1>0, <2>1, Zenon DEF InvalidatedForGood
  <2> QED
    BY <2>2, <2>3, <2>4, <2>5, <2>6, <2>7, <2>8, <2>9, <2>10, <2>11, <2>12, Zenon DEF CacheIInv
<1>2. CASE DoubleCheck(p)
  <2>1. /\ step[p] = "check"
        /\ \/ step' = [step EXCEPT ![p] = "release"] /\ at' = at
           \/ step' = [step EXCEPT ![p] = "compute"] /\ at' = [at EXCEPT ![p] = ver]
        /\ UNCHANGED <<ver, cached, lack, holder, usr, val, wrapped>>
    BY Zenon, <1>2 DEF DoubleCheck, Enter, cache
  <2>2. /\ p \in Req \ Computing /\ val[p] = {} /\ step[p] = "check"
        /\ step'[p] \in {"release", "compute"}
        /\ \A q \in Req \ {p} : step'[q] = step[q] /\ at'[q] = at[q]
        /\ UNCHANGED <<lack, val, usr>>
    BY Zenon, <1>0, <2>1 DEF CacheTypeOK, Computing, OnlyCommit
  <2>3. \A q \in Req : step[q] \in Writers => step'[q] = step[q]
    BY Zenon, <2>2 DEF Writers
  <2>4. CacheTypeOK'
    <3>1. step' \in [Req -> {"idle"} \cup Readers \cup Writers] /\ at' \in [Req -> Versions]
      BY Zenon, <1>0, <2>1 DEF CacheTypeOK, Readers
    <3> QED
      BY <1>0, <2>1, <3>1, Zenon DEF CacheTypeOK
  <2>5. HasUser'
    BY Zenon, <1>0, <2>1, <2>2, <2>3 DEF CacheTypeOK, HasUser, Readers
  <2>6. OnlyCommit'
    BY Zenon, <1>0, <2>1, <2>2, <2>3 DEF CacheTypeOK, OnlyCommit
  <2>7. LackWriter'
    BY <1>0, <2>2, <2>3 DEF LackWriter
  <2>8. ValWriter'
    BY Zenon, <1>0, <2>2, <2>3 DEF ValWriter
  <2>9. ComputingPast'
    BY <1>0, <2>1, <2>2, <2>3, VersionFact DEF CacheTypeOK, ComputingPast, Computing
  <2>10. ValFresh'
    BY Zenon, <1>0, <2>1, <2>2, <2>3 DEF CacheTypeOK, ValFresh, Computing, OnlyCommit
  <2>11. LackDel'
    BY <1>0, <2>1, <2>2, <2>3 DEF CacheTypeOK, LackDel
  <2>12. ValDel'
    BY <1>0, <2>1, <2>2, <2>3 DEF CacheTypeOK, ValDel, Computing, OnlyCommit
  <2>13. AbsentBlank' /\ CachedPast'
    BY <1>0, <2>1, Zenon DEF AbsentBlank, CachedPast
  <2>14. InvalidatedForGood'
    BY <1>0, <2>1, Zenon DEF InvalidatedForGood
  <2> QED
    BY <2>4, <2>5, <2>6, <2>7, <2>8, <2>9, <2>10, <2>11, <2>12, <2>13, <2>14, Zenon DEF CacheIInv
<1>3. CASE Recompute(p)
  <2>1. /\ step[p] = "compute" /\ step' = [step EXCEPT ![p] = "commit"]
        /\ UNCHANGED <<ver, cached, lack, holder, usr, at, val, wrapped>>
    BY Zenon, <1>3 DEF Recompute, Enter, cache
  <2>2. CacheTypeOK'
    BY Zenon, <1>0, <2>1 DEF CacheTypeOK, Readers, Writers
  <2>3. HasUser'
    BY Zenon, <1>0, <2>1 DEF CacheTypeOK, HasUser, Readers
  <2>4. OnlyCommit'
    BY Zenon, <1>0, <2>1 DEF CacheTypeOK, OnlyCommit
  <2>5. LackWriter'
    BY <1>0, <2>1 DEF CacheTypeOK, LackWriter, Writers
  <2>6. ValWriter'
    BY Zenon, <1>0, <2>1 DEF CacheTypeOK, ValWriter, Writers
  <2>7. ComputingPast'
    BY Zenon, <1>0, <2>1 DEF CacheTypeOK, ComputingPast, Computing
  <2>8. ValFresh'
    BY Zenon, <1>0, <2>1 DEF CacheTypeOK, ValFresh, Computing, OnlyCommit
  <2>9. LackDel'
    BY Zenon, <1>0, <2>1 DEF CacheTypeOK, LackDel
  <2>10. ValDel'
    BY Zenon, <1>0, <2>1 DEF CacheTypeOK, ValDel, Computing, OnlyCommit
  <2>11. AbsentBlank' /\ CachedPast'
    BY <1>0, <2>1, Zenon DEF AbsentBlank, CachedPast
  <2>12. InvalidatedForGood'
    BY <1>0, <2>1, Zenon DEF InvalidatedForGood
  <2> QED
    BY <2>2, <2>3, <2>4, <2>5, <2>6, <2>7, <2>8, <2>9, <2>10, <2>11, <2>12, Zenon DEF CacheIInv
<1>4. CASE Commit(p) /\ UNCHANGED <<cached, lack>>
  <2>1. /\ step[p] = "commit" /\ step' = [step EXCEPT ![p] = "release"]
        /\ at' = [at EXCEPT ![p] = 0] /\ val' = [val EXCEPT ![p] = {}]
        /\ UNCHANGED <<ver, cached, lack, holder, usr, wrapped>>
    BY Zenon, <1>4 DEF Commit, Enter
  <2>2. CacheTypeOK'
    BY Zenon, <1>0, <2>1, VersionFact DEF CacheTypeOK, Readers, Writers
  <2>3. HasUser'
    BY Zenon, <1>0, <2>1 DEF CacheTypeOK, HasUser, Readers
  <2>4. OnlyCommit'
    BY Zenon, <1>0, <2>1 DEF CacheTypeOK, OnlyCommit
  <2>5. LackWriter'
    BY <1>0, <2>1 DEF CacheTypeOK, LackWriter, Writers
  <2>6. ValWriter'
    BY Zenon, <1>0, <2>1 DEF CacheTypeOK, ValWriter, Writers
  <2>7. ComputingPast'
    BY Zenon, <1>0, <2>1 DEF CacheTypeOK, ComputingPast, Computing
  <2>8. ValFresh'
    BY Zenon, <1>0, <2>1 DEF CacheTypeOK, ValFresh, Computing
  <2>9. LackDel'
    BY Zenon, <1>0, <2>1 DEF CacheTypeOK, LackDel
  <2>10. ValDel'
    BY Zenon, <1>0, <2>1 DEF CacheTypeOK, ValDel, Computing
  <2>11. AbsentBlank' /\ CachedPast'
    BY <1>0, <2>1, Zenon DEF AbsentBlank, CachedPast
  <2>12. InvalidatedForGood'
    BY <1>0, <2>1, Zenon DEF InvalidatedForGood
  <2> QED
    BY <2>2, <2>3, <2>4, <2>5, <2>6, <2>7, <2>8, <2>9, <2>10, <2>11, <2>12, Zenon DEF CacheIInv
<1>5. CASE Commit(p) /\ ~UNCHANGED <<cached, lack>>
  <2>1. /\ step[p] = "commit" /\ step' = [step EXCEPT ![p] = "release"]
        /\ holder[usr[p]] = p
        /\ cached' = cached \cup {<<at[p], usr[p]>>}
        /\ lack' = [lack EXCEPT ![at[p]][usr[p]] = val[p]]
        /\ at' = [at EXCEPT ![p] = 0] /\ val' = [val EXCEPT ![p] = {}]
        /\ UNCHANGED <<ver, holder, usr, wrapped>>
    BY Zenon, <1>5 DEF Commit, Enter
  <2>2. at[p] \in Versions /\ usr[p] \in Subject /\ val[p] \in SUBSET Changes
    BY Zenon, <1>0, <2>1 DEF CacheTypeOK, HasUser, Readers
  <2>3. \A v \in Versions, u \in Subject :
           lack'[v][u] = IF v = at[p] /\ u = usr[p] THEN val[p] ELSE lack[v][u]
    BY Zenon, <1>0, <2>1, <2>2 DEF CacheTypeOK
  <2>4. lack' \in [Versions -> [Subject -> SUBSET Changes]] /\ cached' \in SUBSET (Versions \X Subject)
    BY <1>0, <2>1, <2>2, <2>3 DEF CacheTypeOK
  <2>5. CacheTypeOK'
    BY Zenon, <1>0, <2>1, <2>2, <2>3, <2>4, VersionFact DEF CacheTypeOK, Readers, Writers
  <2>6. HasUser'
    BY Zenon, <1>0, <2>1, <2>2, <2>3, <2>4, ProcAssumption DEF CacheTypeOK, HasUser, Readers
  <2>7. AbsentBlank'
    BY <1>0, <2>1, <2>2, <2>3, <2>4, ProcAssumption, VersionFact DEF CacheTypeOK, AbsentBlank, HasUser, Readers
  <2>8. OnlyCommit'
    BY Zenon, <1>0, <2>1, <2>2, <2>3, <2>4, ProcAssumption DEF CacheTypeOK, OnlyCommit
  <2>9. LackWriter'
    BY <1>0, <2>1, <2>2, <2>3, <2>4, ProcAssumption DEF CacheTypeOK, LackWriter, Writers, HasUser, Readers, ValWriter
  <2>10. ValWriter'
    BY <1>0, <2>1, <2>2, <2>3, <2>4, ProcAssumption DEF CacheTypeOK, ValWriter, Writers
  <2>11. CachedPast'
    BY <1>0, <2>1, <2>2, <2>3, <2>4, ProcAssumption DEF CacheTypeOK, CachedPast, HasUser, Readers, ComputingPast, Computing
  <2>12. ComputingPast'
    BY Zenon, <1>0, <2>1, <2>2, <2>3, <2>4, ProcAssumption DEF CacheTypeOK, ComputingPast, Computing
  <2>13. InvalidatedForGood'
    BY <1>0, <2>1, <2>2, <2>3, <2>4, ProcAssumption DEF CacheTypeOK, InvalidatedForGood, HasUser, Readers, ValFresh, Computing
  <2>14. ValFresh'
    BY Zenon, <1>0, <2>1, <2>2, <2>3, <2>4, ProcAssumption DEF CacheTypeOK, ValFresh, Computing
  <2>15. LackDel'
    BY <1>0, <2>1, <2>2, <2>3, <2>4, ProcAssumption DEF CacheTypeOK, LackDel, HasUser, Readers, ValDel, Computing, LackWriter, Writers
  <2>16. ValDel'
    BY Zenon, <1>0, <2>1, <2>2, <2>3, <2>4, ProcAssumption DEF CacheTypeOK, ValDel, Computing
  <2> QED
    BY <2>5, <2>6, <2>7, <2>8, <2>9, <2>10, <2>11, <2>12, <2>13, <2>14, <2>15, <2>16, Zenon DEF CacheIInv
<1>6. CASE Release(p)
  <2>1. /\ step[p] = "release"
        /\ \/ holder' = [holder EXCEPT ![usr[p]] = IF @ = p THEN Nil ELSE @]
           \/ holder[usr[p]] = p /\ holder' = [holder EXCEPT ![usr[p]] = Gone]
        /\ step' = [step EXCEPT ![p] = "idle"]
        /\ usr' = [usr EXCEPT ![p] = Nil]
        /\ at' = [at EXCEPT ![p] = 0]
        /\ val' = [q \in Req |-> IF q = p THEN {} ELSE Renamed(val[q], p, Gone)]
        /\ UNCHANGED <<ver, cached, lack, wrapped>>
    BY Zenon, <1>6 DEF Release, Enter, Forget
  <2>2. val' = [val EXCEPT ![p] = {}]
    BY Zenon, <1>0, <2>1 DEF CacheTypeOK, Renamed, ValWriter, Readers, Writers
  <2>3. CacheTypeOK'
    BY SMTT(60), <1>0, <2>1, <2>2, ProcAssumption, VersionFact DEF CacheTypeOK, Readers, Writers, Changes, HasUser
  <2>4. HasUser'
    BY Zenon, <1>0, <2>1, <2>2, ProcAssumption DEF CacheTypeOK, HasUser, Readers
  <2>5. OnlyCommit'
    BY Zenon, <1>0, <2>1, <2>2, ProcAssumption DEF CacheTypeOK, OnlyCommit
  <2>6. LackWriter'
    BY <1>0, <2>1, <2>2, ProcAssumption DEF CacheTypeOK, LackWriter, Writers, HasUser, Readers
  <2>7. ValWriter'
    BY Zenon, <1>0, <2>1, <2>2, ProcAssumption DEF CacheTypeOK, ValWriter, Writers, HasUser, Readers
  <2>8. ComputingPast'
    BY <1>0, <2>1, <2>2, ProcAssumption DEF CacheTypeOK, ComputingPast, Computing, HasUser, Readers
  <2>9. ValFresh'
    BY <1>0, <2>1, <2>2, ProcAssumption DEF CacheTypeOK, ValFresh, Computing, HasUser, Readers
  <2>10. LackDel'
    BY Zenon, <1>0, <2>1, <2>2, ProcAssumption DEF CacheTypeOK, LackDel, HasUser, Readers, LackWriter, Writers
  <2>11. ValDel'
    BY <1>0, <2>1, <2>2, ProcAssumption DEF CacheTypeOK, ValDel, Computing, HasUser, Readers
  <2>12. AbsentBlank' /\ CachedPast'
    BY <1>0, <2>1, Zenon DEF AbsentBlank, CachedPast
  <2>13. InvalidatedForGood'
    BY <1>0, <2>1, Zenon DEF InvalidatedForGood
  <2> QED
    BY <2>3, <2>4, <2>5, <2>6, <2>7, <2>8, <2>9, <2>10, <2>11, <2>12, <2>13, Zenon DEF CacheIInv
<1>7. CASE ReaderDies(p)
  <2>1. /\ step[p] \in Readers
        /\ holder' = [u \in Subject |-> IF holder[u] = p THEN Gone ELSE holder[u]]
        /\ step' = [step EXCEPT ![p] = "idle"]
        /\ usr' = [usr EXCEPT ![p] = Nil]
        /\ at' = [at EXCEPT ![p] = 0]
        /\ val' = [q \in Req |-> IF q = p THEN {} ELSE Renamed(val[q], p, Gone)]
        /\ UNCHANGED <<ver, cached, lack, wrapped>>
    BY Zenon, <1>7 DEF ReaderDies, Enter, Forget
  <2>2. val' = [val EXCEPT ![p] = {}]
    BY Zenon, <1>0, <2>1 DEF CacheTypeOK, Renamed, ValWriter, Readers, Writers
  <2>3. CacheTypeOK'
    BY Zenon, <1>0, <2>1, <2>2, ProcAssumption, VersionFact DEF CacheTypeOK, Readers, Writers, Changes, HasUser
  <2>4. HasUser'
    BY Zenon, <1>0, <2>1, <2>2, ProcAssumption DEF CacheTypeOK, HasUser, Readers
  <2>5. OnlyCommit'
    BY Zenon, <1>0, <2>1, <2>2, ProcAssumption DEF CacheTypeOK, OnlyCommit
  <2>6. LackWriter'
    BY <1>0, <2>1, <2>2, ProcAssumption DEF CacheTypeOK, LackWriter, Writers, HasUser, Readers
  <2>7. ValWriter'
    BY Zenon, <1>0, <2>1, <2>2, ProcAssumption DEF CacheTypeOK, ValWriter, Writers, HasUser, Readers
  <2>8. ComputingPast'
    BY Zenon, <1>0, <2>1, <2>2, ProcAssumption DEF CacheTypeOK, ComputingPast, Computing, HasUser, Readers
  <2>9. ValFresh'
    BY Zenon, <1>0, <2>1, <2>2, ProcAssumption DEF CacheTypeOK, ValFresh, Computing, HasUser, Readers
  <2>10. LackDel'
    BY Zenon, <1>0, <2>1, <2>2, ProcAssumption DEF CacheTypeOK, LackDel, HasUser, Readers, LackWriter, Writers
  <2>11. ValDel'
    BY Zenon, <1>0, <2>1, <2>2, ProcAssumption DEF CacheTypeOK, ValDel, Computing, HasUser, Readers
  <2>12. AbsentBlank' /\ CachedPast'
    BY <1>0, <2>1, Zenon DEF AbsentBlank, CachedPast
  <2>13. InvalidatedForGood'
    BY <1>0, <2>1, Zenon DEF InvalidatedForGood
  <2> QED
    BY <2>3, <2>4, <2>5, <2>6, <2>7, <2>8, <2>9, <2>10, <2>11, <2>12, <2>13, Zenon DEF CacheIInv
<1> QED
  BY <1>1, <1>2, <1>3, <1>4, <1>5, <1>6, <1>7, Zenon

(* A request that has changed roles or memberships and invalidates. *)
LEMMA WriterKeeps ==
    ASSUME CacheIInv, NEW p \in Req,
           \/ ChangeRole(p)
           \/ ReadVersion(p)
           \/ Del(p)
           \/ DelFails(p)
           \/ Bump(p)
           \/ InvalidationLost(p)
    PROVE  CacheIInv'
<1>0. /\ CacheTypeOK /\ HasUser /\ AbsentBlank /\ OnlyCommit /\ LackWriter /\ ValWriter
      /\ CachedPast /\ ComputingPast /\ InvalidatedForGood /\ ValFresh /\ LackDel /\ ValDel
  BY Zenon DEF CacheIInv
<1>1. CASE ChangeRole(p)
  <2>1. /\ step[p] = "idle" /\ step' = [step EXCEPT ![p] = "bump"]
        /\ lack' = [v \in Versions |-> [u \in Subject |->
                       IF u \in Subject /\ <<v, u>> \in cached THEN lack[v][u] \cup {p} ELSE lack[v][u]]]
        /\ val' = [q \in Req |-> IF step[q] = "commit" /\ usr[q] \in Subject THEN val[q] \cup {p} ELSE val[q]]
        /\ UNCHANGED <<ver, cached, holder, usr, at, wrapped>>
    BY Zenon, <1>1 DEF ChangeRole, Commits, Enter
  <2>2. CacheTypeOK'
    BY <1>0, <2>1, ProcAssumption DEF CacheTypeOK, Readers, Writers, Changes
  <2>3. HasUser'
    BY Zenon, <1>0, <2>1, ProcAssumption DEF CacheTypeOK, HasUser, Readers
  <2>4. AbsentBlank'
    BY Zenon, <1>0, <2>1, ProcAssumption DEF CacheTypeOK, AbsentBlank
  <2>5. OnlyCommit'
    BY Zenon, <1>0, <2>1, ProcAssumption DEF CacheTypeOK, OnlyCommit
  <2>6. LackWriter'
    BY Zenon, <1>0, <2>1, ProcAssumption DEF CacheTypeOK, LackWriter, Writers
  <2>7. ValWriter'
    BY Zenon, <1>0, <2>1, ProcAssumption DEF CacheTypeOK, ValWriter, Writers
  <2>8. ComputingPast'
    BY Zenon, <1>0, <2>1, ProcAssumption DEF CacheTypeOK, ComputingPast, Computing
  <2>9. InvalidatedForGood'
    BY Zenon, <1>0, <2>1, ProcAssumption DEF CacheTypeOK, InvalidatedForGood
  <2>10. ValFresh'
    BY Zenon, <1>0, <2>1, ProcAssumption DEF CacheTypeOK, ValFresh, Computing
  <2>11. LackDel'
    BY Zenon, <1>0, <2>1, ProcAssumption DEF CacheTypeOK, LackDel
  <2>12. ValDel'
    BY Zenon, <1>0, <2>1, ProcAssumption DEF CacheTypeOK, ValDel, Computing
  <2>13. CachedPast'
    BY <1>0, <2>1, Zenon DEF CachedPast
  <2> QED
    BY <2>2, <2>3, <2>4, <2>5, <2>6, <2>7, <2>8, <2>9, <2>10, <2>11, <2>12, <2>13, Zenon DEF CacheIInv
<1>2. CASE ReadVersion(p)
  <2>1. /\ step[p] = "version"
        /\ \/ step' = [step EXCEPT ![p] = "del"] /\ at' = [at EXCEPT ![p] = ver]
           \/ step' = [step EXCEPT ![p] = "backstop"] /\ at' = at
        /\ UNCHANGED <<ver, cached, lack, holder, usr, val, wrapped>>
    BY Zenon, <1>2 DEF ReadVersion, Enter, cache
  <2>2. val[p] = {} /\ (\A q \in Req \ {p} : step'[q] = step[q] /\ at'[q] = at[q])
        /\ step'[p] \in {"del", "backstop"} /\ (step'[p] = "del" => at'[p] = ver)
    BY Zenon, <1>0, <2>1 DEF CacheTypeOK, OnlyCommit
  <2>3. CacheTypeOK'
    BY Zenon, <1>0, <2>1, <2>2 DEF CacheTypeOK, Readers, Writers
  <2>4. HasUser'
    BY Zenon, <1>0, <2>1, <2>2 DEF CacheTypeOK, HasUser, Readers
  <2>5. OnlyCommit'
    BY Zenon, <1>0, <2>1, <2>2 DEF CacheTypeOK, OnlyCommit
  <2>6. LackWriter'
    BY <1>0, <2>1, <2>2 DEF CacheTypeOK, LackWriter, Writers
  <2>7. ValWriter'
    BY Zenon, <1>0, <2>1, <2>2 DEF CacheTypeOK, ValWriter, Writers
  <2>8. ComputingPast'
    BY Zenon, <1>0, <2>1, <2>2 DEF CacheTypeOK, ComputingPast, Computing
  <2>9. ValFresh'
    BY Zenon, <1>0, <2>1, <2>2 DEF CacheTypeOK, ValFresh, Computing
  <2>10. LackDel'
    BY <1>0, <2>1, <2>2 DEF CacheTypeOK, LackDel
  <2>11. ValDel'
    BY <1>0, <2>1, <2>2 DEF CacheTypeOK, ValDel, Computing
  <2>12. AbsentBlank' /\ CachedPast'
    BY <1>0, <2>1, Zenon DEF AbsentBlank, CachedPast
  <2>13. InvalidatedForGood'
    BY <1>0, <2>1, Zenon DEF InvalidatedForGood
  <2> QED
    BY <2>3, <2>4, <2>5, <2>6, <2>7, <2>8, <2>9, <2>10, <2>11, <2>12, <2>13, Zenon DEF CacheIInv
<1>3. CASE Del(p)
  <2>1. /\ step[p] = "del"
        /\ cached' = cached \ {<<at[p], usr[p]>>}
        /\ lack' = [v \in Versions |-> [u \in Subject |-> IF <<v, u>> \in {<<at[p], usr[p]>>} THEN {} ELSE Renamed(lack[v][u], p, Gone)]]
        /\ holder' = [holder EXCEPT ![usr[p]] = Nil]
        /\ step' = [step EXCEPT ![p] = "idle"]
        /\ usr' = [usr EXCEPT ![p] = Nil]
        /\ at' = [at EXCEPT ![p] = 0]
        /\ val' = [q \in Req |-> IF q = p THEN {} ELSE Renamed(val[q], p, Gone)]
        /\ UNCHANGED <<ver, wrapped>>
    BY Zenon, <1>3 DEF Del, Drop, Enter, Forget
  <2>2. /\ step'[p] = "idle"
        /\ \A q \in Req \ {p} : step'[q] = step[q] /\ usr'[q] = usr[q] /\ at'[q] = at[q]
    BY Zenon, <1>0, <2>1 DEF CacheTypeOK
  <2>3. \A v \in Versions, u \in Subject, q \in Req : q \in lack'[v][u] => q # p /\ q \in lack[v][u]
    BY Zenon, <1>0, <2>1, ProcAssumption DEF CacheTypeOK, Renamed
  <2>4. \A q, r \in Req : q \in val'[r] => q # p /\ r # p /\ q \in val[r]
    BY Zenon, <1>0, <2>1, ProcAssumption DEF CacheTypeOK, Renamed
  <2>5. \A q \in Computing' :
           q \in Req /\ q \in Computing /\ usr[q] # usr[p] /\ q # p /\ at'[q] = at[q]
    BY <1>0, <2>1, ProcAssumption DEF CacheTypeOK, Computing, HasUser
  <2>6. \A q \in Computing' : val'[q] = val[q]
    BY Zenon, <1>0, <2>1, <2>5 DEF CacheTypeOK, ValWriter, Renamed
  <2>7. CacheTypeOK'
    <3>1. lack' \in [Versions -> [Subject -> SUBSET Changes]] /\ val' \in [Req -> SUBSET Changes]
      BY <1>0, <2>1 DEF CacheTypeOK, Renamed, Changes
    <3>2. /\ step' \in [Req -> {"idle"} \cup Readers \cup Writers]
          /\ usr' \in [Req -> Subject \cup {Nil}] /\ at' \in [Req -> Versions]
      BY Zenon, <1>0, <2>1, VersionFact DEF CacheTypeOK
    <3>3. ver' \in Versions /\ cached' \in SUBSET (Versions \X Subject) /\ holder' \in [Subject -> Req \cup {Nil, Gone}]
      BY Zenon, <1>0, <2>1 DEF CacheTypeOK
    <3> QED
      BY <1>0, <2>1, <3>1, <3>2, <3>3, Zenon DEF CacheTypeOK
  <2>8. HasUser'
    BY Zenon, <1>0, <2>2 DEF HasUser, Readers
  <2>9. AbsentBlank'
    BY Zenon, <1>0, <2>1, ProcAssumption DEF CacheTypeOK, AbsentBlank, Renamed, LackWriter, HasUser
  <2>10. OnlyCommit'
    BY Zenon, <1>0, <2>1, ProcAssumption DEF CacheTypeOK, OnlyCommit, Renamed
  <2>11. LackWriter'
    BY SMTT(60), <1>0, <2>2, <2>3 DEF LackWriter
  <2>12. ValWriter'
    BY Zenon, <1>0, <2>2, <2>4 DEF ValWriter
  <2>13. CachedPast'
    BY Zenon, <1>0, <2>1, ProcAssumption DEF CacheTypeOK, CachedPast
  <2>14. ComputingPast'
    BY Zenon, <1>0, <2>1, <2>5, <2>6 DEF ComputingPast
  <2>15. InvalidatedForGood'
    BY <1>0, <2>1, ProcAssumption DEF CacheTypeOK, InvalidatedForGood, Renamed, LackDel, LackWriter, HasUser
  <2>16. ValFresh'
    BY Zenon, <1>0, <2>1, <2>5, <2>6 DEF ValFresh
  <2>17. LackDel'
    BY Zenon, <1>0, <2>1, <2>2, <2>3 DEF LackDel, CacheTypeOK
  <2>18. ValDel'
    <3>1. ver' = ver /\ wrapped' = wrapped
      BY Zenon, <2>1
    <3> QED
      BY SMTT(60), <1>0, <2>2, <2>4, <2>5, <3>1 DEF ValDel
  <2> QED
    BY <2>7, <2>8, <2>9, <2>10, <2>11, <2>12, <2>13, <2>14, <2>15, <2>16, <2>17, <2>18, Zenon DEF CacheIInv
<1>4. CASE DelFails(p)
  <2>1. /\ step[p] = "del" /\ step' = [step EXCEPT ![p] = "backstop"]
        /\ at' = [at EXCEPT ![p] = 0]
        /\ UNCHANGED <<ver, cached, lack, holder, usr, val, wrapped>>
    BY Zenon, <1>4 DEF DelFails, Enter, cache
  <2>2. CacheTypeOK'
    BY Zenon, <1>0, <2>1, VersionFact DEF CacheTypeOK, Readers, Writers
  <2>3. HasUser'
    BY Zenon, <1>0, <2>1 DEF CacheTypeOK, HasUser, Readers
  <2>4. OnlyCommit'
    BY Zenon, <1>0, <2>1 DEF CacheTypeOK, OnlyCommit
  <2>5. LackWriter'
    BY Zenon, <1>0, <2>1 DEF CacheTypeOK, LackWriter, Writers
  <2>6. ValWriter'
    BY Zenon, <1>0, <2>1 DEF CacheTypeOK, ValWriter, Writers
  <2>7. ComputingPast'
    BY Zenon, <1>0, <2>1 DEF CacheTypeOK, ComputingPast, Computing
  <2>8. ValFresh'
    BY Zenon, <1>0, <2>1 DEF CacheTypeOK, ValFresh, Computing
  <2>9. LackDel'
    BY Zenon, <1>0, <2>1 DEF CacheTypeOK, LackDel
  <2>10. ValDel'
    BY Zenon, <1>0, <2>1 DEF CacheTypeOK, ValDel, Computing
  <2>11. AbsentBlank' /\ CachedPast'
    BY <1>0, <2>1, Zenon DEF AbsentBlank, CachedPast
  <2>12. InvalidatedForGood'
    BY <1>0, <2>1, Zenon DEF InvalidatedForGood
  <2> QED
    BY <2>2, <2>3, <2>4, <2>5, <2>6, <2>7, <2>8, <2>9, <2>10, <2>11, <2>12, Zenon DEF CacheIInv
<1>5. CASE Bump(p)
  <2>1. /\ step[p] \in {"backstop", "bump"} /\ ver < MaxVer /\ ver' = ver + 1
        /\ cached' = cached \ {}
        /\ lack' = [v \in Versions |-> [u \in Subject |-> IF <<v, u>> \in {} THEN {} ELSE Renamed(lack[v][u], p, Gone)]]
        /\ step' = [step EXCEPT ![p] = "idle"]
        /\ usr' = [usr EXCEPT ![p] = Nil]
        /\ at' = [at EXCEPT ![p] = 0]
        /\ val' = [q \in Req |-> IF q = p THEN {} ELSE Renamed(val[q], p, Gone)]
        /\ UNCHANGED <<holder, wrapped>>
    BY Zenon, <1>5 DEF Bump, Drop, Enter, Forget
  <2>2. /\ step'[p] = "idle"
        /\ \A q \in Req \ {p} : step'[q] = step[q] /\ usr'[q] = usr[q] /\ at'[q] = at[q]
    BY Zenon, <1>0, <2>1 DEF CacheTypeOK
  <2>3. \A v \in Versions, u \in Subject, q \in Req : q \in lack'[v][u] => q # p /\ q \in lack[v][u]
    BY Zenon, <1>0, <2>1, ProcAssumption DEF CacheTypeOK, Renamed
  <2>4. \A q, r \in Req : q \in val'[r] => q # p /\ r # p /\ q \in val[r]
    BY Zenon, <1>0, <2>1, ProcAssumption DEF CacheTypeOK, Renamed
  <2>5. ver' \in Versions /\ ver \in Nat /\ ~(ver' <= ver)
    BY <1>0, <2>1, VersionFact DEF CacheTypeOK
  <2>6. ~wrapped => \A u \in Subject : <<ver', u>> \notin cached
    BY <1>0, <2>1, <2>5, Zenon DEF CachedPast
  <2>7. ~wrapped => \A u \in Subject : lack[ver'][u] = {}
    BY <1>0, <2>1, <2>5, <2>6, Zenon DEF AbsentBlank
  <2>8. ~wrapped => \A u \in Subject : lack'[ver'][u] = {}
    BY Zenon, <1>0, <2>1, <2>5, <2>6, <2>7 DEF CacheTypeOK, Renamed
  <2>9. ~wrapped => \A q \in Req : q \in Computing' => at'[q] <= ver
    BY Zenon, <1>0, <2>1, <2>5, <2>6, <2>7, <2>8 DEF CacheTypeOK, ComputingPast, Computing
  <2>10. \A n \in Nat : n <= ver => n <= ver' /\ n # ver'
    BY SMTT(60), <2>1, <2>5
  <2>11. \A q \in Req : at'[q] \in Nat
    BY Zenon, <1>0, <2>1, VersionFact DEF CacheTypeOK
  <2>12. ~wrapped => \A q \in Req : q \in Computing' => at'[q] <= ver' /\ at'[q] # ver'
    BY Zenon, <2>9, <2>10, <2>11
  <2>13. CacheTypeOK'
    <3>1. lack' \in [Versions -> [Subject -> SUBSET Changes]] /\ val' \in [Req -> SUBSET Changes]
      BY <1>0, <2>1 DEF CacheTypeOK, Renamed, Changes
    <3>2. /\ step' \in [Req -> {"idle"} \cup Readers \cup Writers]
          /\ usr' \in [Req -> Subject \cup {Nil}] /\ at' \in [Req -> Versions]
      BY Zenon, <1>0, <2>1, VersionFact DEF CacheTypeOK
    <3>3. ver' \in Versions /\ cached' \in SUBSET (Versions \X Subject) /\ holder' \in [Subject -> Req \cup {Nil, Gone}]
      BY Zenon, <1>0, <2>1, <2>5 DEF CacheTypeOK
    <3> QED
      BY <1>0, <2>1, <3>1, <3>2, <3>3, Zenon DEF CacheTypeOK
  <2>14. HasUser'
    BY Zenon, <1>0, <2>2 DEF HasUser, Readers
  <2>15. AbsentBlank'
    BY Zenon, <1>0, <2>1, ProcAssumption DEF CacheTypeOK, AbsentBlank, Renamed, HasUser, LackWriter
  <2>16. OnlyCommit'
    BY Zenon, <1>0, <2>1, ProcAssumption DEF CacheTypeOK, OnlyCommit, Renamed
  <2>17. LackWriter'
    BY SMTT(60), <1>0, <2>2, <2>3 DEF LackWriter
  <2>18. ValWriter'
    BY Zenon, <1>0, <2>2, <2>4 DEF ValWriter
  <2>19. CachedPast'
    BY <1>0, <2>1, <2>5, VersionFact DEF CacheTypeOK, CachedPast
  <2>20. ComputingPast'
    BY Zenon, <1>0, <2>1, <2>12 DEF CacheTypeOK, ComputingPast, Computing
  <2>21. InvalidatedForGood'
    BY Zenon, <1>0, <2>1, <2>8 DEF InvalidatedForGood
  <2>22. ValFresh'
    BY Zenon, <1>0, <2>1, <2>12 DEF CacheTypeOK, ValFresh, Computing, Renamed
  <2>23. LackDel'
    BY Zenon, <1>0, <2>1, <2>8 DEF LackDel
  <2>24. ValDel'
    BY Zenon, <1>0, <2>1, <2>12 DEF CacheTypeOK, ValDel, Computing, Renamed
  <2> QED
    BY <2>13, <2>14, <2>15, <2>16, <2>17, <2>18, <2>19, <2>20, <2>21, <2>22, <2>23, <2>24, Zenon DEF CacheIInv
<1>6. CASE InvalidationLost(p)
  <2>1. /\ step[p] \in Writers
        /\ cached' = cached \ {}
        /\ lack' = [v \in Versions |-> [u \in Subject |-> IF <<v, u>> \in {} THEN {} ELSE Renamed(lack[v][u], p, Lost)]]
        /\ step' = [step EXCEPT ![p] = "idle"]
        /\ usr' = [usr EXCEPT ![p] = Nil]
        /\ at' = [at EXCEPT ![p] = 0]
        /\ val' = [q \in Req |-> IF q = p THEN {} ELSE Renamed(val[q], p, Lost)]
        /\ UNCHANGED <<ver, holder, wrapped>>
    BY Zenon, <1>6 DEF InvalidationLost, Drop, Enter, Forget
  <2>2. /\ step'[p] = "idle"
        /\ \A q \in Req \ {p} : step'[q] = step[q] /\ usr'[q] = usr[q] /\ at'[q] = at[q]
    BY Zenon, <1>0, <2>1 DEF CacheTypeOK
  <2>3. \A v \in Versions, u \in Subject, q \in Req : q \in lack'[v][u] => q # p /\ q \in lack[v][u]
    BY Zenon, <1>0, <2>1, ProcAssumption DEF CacheTypeOK, Renamed
  <2>4. \A q, r \in Req : q \in val'[r] => q # p /\ r # p /\ q \in val[r]
    BY Zenon, <1>0, <2>1, ProcAssumption DEF CacheTypeOK, Renamed
  <2>5. CacheTypeOK'
    <3>1. lack' \in [Versions -> [Subject -> SUBSET Changes]] /\ val' \in [Req -> SUBSET Changes]
      BY SMTT(60), <1>0, <2>1 DEF CacheTypeOK, Renamed, Changes
    <3>2. /\ step' \in [Req -> {"idle"} \cup Readers \cup Writers]
          /\ usr' \in [Req -> Subject \cup {Nil}] /\ at' \in [Req -> Versions]
      BY Zenon, <1>0, <2>1, VersionFact DEF CacheTypeOK
    <3>3. ver' \in Versions /\ cached' \in SUBSET (Versions \X Subject) /\ holder' \in [Subject -> Req \cup {Nil, Gone}]
      BY Zenon, <1>0, <2>1 DEF CacheTypeOK
    <3> QED
      BY <1>0, <2>1, <3>1, <3>2, <3>3, Zenon DEF CacheTypeOK
  <2>6. HasUser'
    BY Zenon, <1>0, <2>2 DEF HasUser, Readers
  <2>7. AbsentBlank'
    BY Zenon, <1>0, <2>1, ProcAssumption DEF CacheTypeOK, AbsentBlank, Renamed, LackWriter, HasUser
  <2>8. OnlyCommit'
    BY Zenon, <1>0, <2>1, ProcAssumption DEF CacheTypeOK, OnlyCommit, Renamed
  <2>9. LackWriter'
    BY SMTT(60), <1>0, <2>2, <2>3 DEF LackWriter
  <2>10. ValWriter'
    BY Zenon, <1>0, <2>2, <2>4 DEF ValWriter
  <2>11. CachedPast'
    BY Zenon, <1>0, <2>1, ProcAssumption DEF CacheTypeOK, CachedPast
  <2>12. ComputingPast'
    BY Zenon, <1>0, <2>1, ProcAssumption DEF CacheTypeOK, ComputingPast, Computing
  <2>13. InvalidatedForGood'
    BY Zenon, <1>0, <2>1, ProcAssumption DEF CacheTypeOK, InvalidatedForGood, Renamed
  <2>14. ValFresh'
    BY Zenon, <1>0, <2>1, ProcAssumption DEF CacheTypeOK, ValFresh, Computing, Renamed
  <2>15. LackDel'
    BY Zenon, <1>0, <2>1, <2>2, <2>3 DEF LackDel, CacheTypeOK
  <2>16. ValDel'
    BY Zenon, <1>0, <2>1, ProcAssumption DEF CacheTypeOK, ValDel, Computing, Renamed
  <2> QED
    BY <2>5, <2>6, <2>7, <2>8, <2>9, <2>10, <2>11, <2>12, <2>13, <2>14, <2>15, <2>16, Zenon DEF CacheIInv
<1> QED
  BY <1>1, <1>2, <1>3, <1>4, <1>5, <1>6, Zenon

(* TTLs. *)
LEMMA ExpiryKeeps ==
    ASSUME CacheIInv, NEW x \in Versions, NEW w \in Subject,
           \/ ValueExpires(x, w)
           \/ LockExpires(w)
    PROVE  CacheIInv'
<1>0. /\ CacheTypeOK /\ HasUser /\ AbsentBlank /\ OnlyCommit /\ LackWriter /\ ValWriter
      /\ CachedPast /\ ComputingPast /\ InvalidatedForGood /\ ValFresh /\ LackDel /\ ValDel
  BY Zenon DEF CacheIInv
<1>1. CASE ValueExpires(x, w)
  <2>1. /\ cached' = cached \ {<<x, w>>}
        /\ lack' = [lack EXCEPT ![x][w] = {}]
        /\ UNCHANGED <<ver, holder, step, usr, at, val, wrapped>>
    BY Zenon, <1>1 DEF ValueExpires, requests
  <2>2. CacheTypeOK'
    BY Zenon, <1>0, <2>1 DEF CacheTypeOK
  <2>3. AbsentBlank'
    BY Zenon, <1>0, <2>1 DEF CacheTypeOK, AbsentBlank
  <2>4. LackWriter'
    BY <1>0, <2>1 DEF CacheTypeOK, LackWriter, Writers
  <2>5. CachedPast'
    BY Zenon, <1>0, <2>1 DEF CacheTypeOK, CachedPast
  <2>6. InvalidatedForGood'
    BY Zenon, <1>0, <2>1 DEF CacheTypeOK, InvalidatedForGood
  <2>7. LackDel'
    BY Zenon, <1>0, <2>1 DEF CacheTypeOK, LackDel
  <2>8. HasUser' /\ OnlyCommit'
    BY <1>0, <2>1, Zenon DEF HasUser, OnlyCommit
  <2>9. ValWriter' /\ ComputingPast'
    BY <1>0, <2>1, Zenon DEF ValWriter, ComputingPast, Computing
  <2>10. ValFresh' /\ ValDel'
    BY <1>0, <2>1, Zenon DEF ValFresh, ValDel, Computing
  <2> QED
    BY <2>2, <2>3, <2>4, <2>5, <2>6, <2>7, <2>8, <2>9, <2>10, Zenon DEF CacheIInv
<1>2. CASE LockExpires(w)
  <2>1. /\ holder' = [holder EXCEPT ![w] = Nil]
        /\ UNCHANGED <<ver, cached, lack, step, usr, at, val, wrapped>>
    BY Zenon, <1>2 DEF LockExpires, requests
  <2>2. CacheTypeOK'
    BY Zenon, <1>0, <2>1 DEF CacheTypeOK
  <2>3. ComputingPast'
    BY <1>0, <2>1, ProcAssumption DEF CacheTypeOK, ComputingPast, Computing
  <2>4. ValFresh'
    BY <1>0, <2>1, ProcAssumption DEF CacheTypeOK, ValFresh, Computing
  <2>5. ValDel'
    BY <1>0, <2>1, ProcAssumption DEF CacheTypeOK, ValDel, Computing
  <2>6. LackWriter'
    BY <1>0, <2>1 DEF CacheTypeOK, LackWriter, Writers
  <2>7. HasUser' /\ AbsentBlank'
    BY <1>0, <2>1, Zenon DEF HasUser, AbsentBlank
  <2>8. OnlyCommit' /\ ValWriter'
    BY <1>0, <2>1, Zenon DEF OnlyCommit, ValWriter
  <2>9. CachedPast' /\ InvalidatedForGood'
    BY <1>0, <2>1, Zenon DEF CachedPast, InvalidatedForGood
  <2>10. LackDel'
    BY <1>0, <2>1, Zenon DEF LackDel
  <2> QED
    BY <2>2, <2>3, <2>4, <2>5, <2>6, <2>7, <2>8, <2>9, <2>10, Zenon DEF CacheIInv
<1> QED
  BY <1>1, <1>2, Zenon

(* The version key expires. *)
LEMMA VersionKeeps ==
    ASSUME CacheIInv, VersionExpires
    PROVE  CacheIInv'
<1>0. /\ CacheTypeOK /\ HasUser /\ AbsentBlank /\ OnlyCommit /\ LackWriter /\ ValWriter
      /\ CachedPast /\ ComputingPast /\ InvalidatedForGood /\ ValFresh /\ LackDel /\ ValDel
  BY Zenon DEF CacheIInv
<1>1. /\ ver > 0 /\ ver' = 0
      /\ wrapped' = (wrapped \/ cached # {} \/ Computing # {})
      /\ UNCHANGED <<cached, lack, holder, step, usr, at, val>>
  BY Zenon DEF VersionExpires, requests
<1>2. CacheTypeOK'
  BY Zenon, <1>0, <1>1, VersionFact DEF CacheTypeOK
<1>3. CachedPast'
  BY Zenon, <1>0, <1>1 DEF CacheTypeOK, CachedPast
<1>4. ComputingPast'
  BY Zenon, <1>0, <1>1 DEF CacheTypeOK, ComputingPast, Computing
<1>5. InvalidatedForGood'
  BY Zenon, <1>0, <1>1, VersionFact DEF CacheTypeOK, InvalidatedForGood, AbsentBlank
<1>6. ValFresh'
  BY Zenon, <1>0, <1>1 DEF CacheTypeOK, ValFresh, Computing
<1>7. LackDel'
  BY Zenon, <1>0, <1>1, VersionFact DEF CacheTypeOK, LackDel, AbsentBlank
<1>8. ValDel'
  BY Zenon, <1>0, <1>1 DEF CacheTypeOK, ValDel, Computing
<1>9. LackWriter'
  BY <1>0, <1>1 DEF CacheTypeOK, LackWriter, Writers
<1>10. HasUser' /\ AbsentBlank'
  BY <1>0, <1>1, Zenon DEF HasUser, AbsentBlank
<1>11. OnlyCommit' /\ ValWriter'
  BY <1>0, <1>1, Zenon DEF OnlyCommit, ValWriter
<1> QED
  BY <1>2, <1>3, <1>4, <1>5, <1>6, <1>7, <1>8, <1>9, <1>10, <1>11, Zenon DEF CacheIInv

LEMMA CacheNextIInv == CacheIInv /\ [CacheNext]_cacheVars => CacheIInv'
<1> SUFFICES ASSUME CacheIInv, [CacheNext]_cacheVars PROVE CacheIInv'
  OBVIOUS
<1>1. CASE UNCHANGED cacheVars
  <2>1. UNCHANGED <<ver, cached, lack, holder, step, usr, at, val, wrapped>>
    BY Zenon, <1>1 DEF cacheVars, cache, requests
  <2>2. CacheTypeOK' /\ HasUser' /\ AbsentBlank'
    BY <2>1, Zenon DEF CacheIInv, CacheTypeOK, HasUser, AbsentBlank
  <2>3. OnlyCommit' /\ ValWriter'
    BY <2>1, Zenon DEF CacheIInv, OnlyCommit, ValWriter
  <2>6. LackWriter'
    BY <2>1 DEF CacheIInv, LackWriter
  <2>4. CachedPast' /\ ComputingPast' /\ InvalidatedForGood'
    BY <2>1, Zenon DEF CacheIInv, CachedPast, ComputingPast, InvalidatedForGood, Computing
  <2>5. ValFresh' /\ LackDel' /\ ValDel'
    BY <2>1, Zenon DEF CacheIInv, ValFresh, LackDel, ValDel, Computing
  <2> QED
    BY <2>2, <2>3, <2>4, <2>5, <2>6, Zenon DEF CacheIInv
<1>2. CASE VersionExpires
  BY Zenon, <1>2, VersionKeeps
<1>3. ASSUME NEW v \in Versions, NEW u \in Subject, Expire(v, u) PROVE CacheIInv'
  BY <1>3, ExpiryKeeps, Zenon DEF Expire
<1>4. ASSUME NEW p \in Req, NEW u \in Subject, Miss(p, u) \/ ChangeMember(p, u) PROVE CacheIInv'
  BY <1>4, BeginKeeps, Zenon
<1>5. ASSUME NEW p \in Req, CacheStep(p) \/ ChangeRole(p) PROVE CacheIInv'
  BY <1>5, ReaderKeeps, WriterKeeps, Zenon DEF CacheStep
<1> QED
  BY <1>1, <1>2, <1>3, <1>4, <1>5, Zenon DEF CacheNext
(***************************************************************************)
(* Type correctness, for any requests, users and bound on the version.     *)
(***************************************************************************)
THEOREM CacheTypeCorrect == CacheSpec => []CacheTypeOK
<1>1. CacheIInv => CacheTypeOK
  BY Zenon DEF CacheIInv
<1> QED
  BY CacheInitIInv, CacheNextIInv, <1>1, PTL DEF CacheSpec

(***************************************************************************)
(* Once the invalidation of a change is over no value of the present       *)
(* version lacks it, for any number of requests, users and bumps, unless   *)
(* the version key expired before its values.                              *)
(***************************************************************************)
THEOREM InvalidationIsFinal == CacheSpec => []InvalidatedForGood
<1>1. CacheIInv => InvalidatedForGood
  BY Zenon DEF CacheIInv
<1> QED
  BY CacheInitIInv, CacheNextIInv, <1>1, PTL DEF CacheSpec

-----------------------------------------------------------------------------
(* Membership.                                                             *)
(* The strengthening.                                                      *)

\* A request keeps what it relies on: a membership that goes takes the
\* requests and the suspensions that have read it along.
RequestOk(p) ==
    /\ op[p] \in {"create", "update", "remove", "transfer", "key"} => tgt[p] \in User
    /\ op[p] = "update" => /\ want[p] \in Live /\ st[tgt[p]] # "none"
                           /\ want[p] = "ACTIVE" => joined[tgt[p]]
    /\ \A u \in cand[p] : st[u] # "none"

Requests == \A p \in Proc : RequestOk(p)

\* A joined member has accepted, or founded the organization.
InviteOk(u) ==
    /\ joined[u] => st[u] # "none" /\ inv[u] \in {"accepted", "none"}
    /\ st[u] = "ACTIVE" => joined[u]
    /\ inv[u] = "accepted" => joined[u]
    /\ st[u] # "none" /\ inv[u] = "none" => u = Founder /\ joined[u]
    /\ inv[u] = "revoked" => "owner" \in stale

Invites == \A u \in User : InviteOk(u)

KeysJoined == "key" \notin stale => \A u \in keys : joined[u]

\* The owner to be is active and nobody is removing them, or the owner.
Owners ==
    "owner" \notin stale =>
        /\ st[owner] = "ACTIVE"
        /\ \A p \in Proc : At(p, "transfer", "commit") => st[tgt[p]] = "ACTIVE"
        /\ \A p \in Proc : At(p, "remove", "commit") => tgt[p] # owner /\ ~TransferOpen(tgt[p])

\* Nobody is about to suspend the owner.
Spared == "owner" \notin stale => \A p \in Proc : ~Demotes(p, owner)

\* Who holds the lock has been promised a seat.
Seats ==
    /\ \A p \in Proc : At(p, "create", "commit") => lock = p
    /\ lock # None => At(lock, "create", "commit") \/ At(lock, "update", "write")
    /\ lock # None /\ "seat" \notin stale => Used < ceiling

IInv == TypeOK /\ Requests /\ Invites /\ KeysJoined /\ Owners /\ Spared /\ Seats

-----------------------------------------------------------------------------
(* What a step does to the requests.                                       *)

Kept(q) ==
    /\ op'[q] = op[q] /\ pc'[q] = pc[q] /\ tgt'[q] = tgt[q] /\ want'[q] = want[q]
    /\ cand'[q] \subseteq cand[q]

Ended(q) == op'[q] = "none" /\ pc'[q] = "idle" /\ cand'[q] = {}

\* The lock goes with the request that holds it.
Over(q) == Ended(q) /\ (lock = q => lock' = None)
Stays(q) == Kept(q) /\ (lock = q => lock' = q)

LEMMA EndEffect ==
    ASSUME NEW p \in Proc, TypeOK, End(p)
    PROVE  Over(p) /\ (\A q \in Proc \ {p} : Stays(q)) /\ lock' \in {lock, None}
  <1>1. Over(p)
    BY Zenon DEF End, Reset, Over, Ended, TypeOK
  <1>2. \A q \in Proc \ {p} : Stays(q)
    BY Zenon DEF End, Reset, Stays, Kept, TypeOK
  <1>3. lock' \in {lock, None}
    BY Zenon DEF End, Reset
  <1>4. QED
    BY Zenon, <1>1, <1>2, <1>3

LEMMA DropEffect ==
    ASSUME NEW p, NEW u \in User, TypeOK, DropRow(p, u)
    PROVE  /\ p \in Proc => Over(p)
           /\ \A q \in Proc : Over(q) \/ (Stays(q) /\ ~(op[q] \in {"update", "remove"} /\ tgt[q] = u))
           /\ \A q \in Proc : u \notin cand'[q]
           /\ lock' \in {lock, None}
  <1> DEFINE done == {q \in Proc : q = p \/ (op[q] \in {"update", "remove"} /\ tgt[q] = u)}
  <1>1. /\ Reset(done)
        /\ cand' = [q \in Proc |-> IF q \in done THEN {} ELSE cand[q] \ {u}]
    BY Zenon DEF DropRow
  <1>2. \A q \in done : q \in Proc
    OBVIOUS
  <1>3. \A q \in Proc : ~(q \in done) => ~(op[q] \in {"update", "remove"} /\ tgt[q] = u)
    OBVIOUS
  <1>4. p \in Proc => p \in done
    OBVIOUS
  <1> HIDE DEF done
  <1>5. \A q \in done : Over(q)
    BY Zenon, <1>1, <1>2 DEF Reset, Over, Ended
  <1>6. \A q \in Proc : ~(q \in done) => Stays(q)
    BY Zenon, <1>1 DEF Reset, Stays, Kept
  <1>7. \A q \in Proc : u \notin cand'[q]
    BY Zenon, <1>1
  <1>8. lock' \in {lock, None}
    BY Zenon, <1>1 DEF Reset
  <1>9. QED
    BY Zenon, <1>3, <1>4, <1>5, <1>6, <1>7, <1>8

-----------------------------------------------------------------------------
(* Requests.                                                               *)

LEMMA OverOk == ASSUME NEW q \in Proc, Over(q) PROVE RequestOk(q)'
  BY Zenon DEF Over, Ended, RequestOk

LEMMA StaysOk ==
    ASSUME NEW q \in Proc, TypeOK, RequestOk(q), Stays(q),
           \A u \in User : st[u] # "none" => st'[u] # "none",
           \A u \in User : joined[u] => joined'[u]
    PROVE  RequestOk(q)'
  BY Zenon DEF Stays, Kept, RequestOk, TypeOK

LEMMA EndOk ==
    ASSUME NEW p \in Proc, TypeOK, Requests, End(p),
           \A u \in User : st[u] # "none" => st'[u] # "none",
           \A u \in User : joined[u] => joined'[u]
    PROVE  Requests'
  BY Zenon, EndEffect, OverOk, StaysOk DEF Requests

LEMMA DropOk ==
    ASSUME NEW p, NEW u \in User, TypeOK, Requests, DropRow(p, u)
    PROVE  Requests'
  <1> SUFFICES ASSUME NEW q \in Proc PROVE RequestOk(q)'
    BY Zenon DEF Requests
  <1>1. \A v \in User \ {u} : st'[v] = st[v] /\ joined'[v] = joined[v]
    BY Zenon DEF DropRow, TypeOK
  <1>2. RequestOk(q)
    BY Zenon DEF Requests
  <1>3. u \notin cand'[q]
    BY Zenon, DropEffect
  <1>4. CASE Over(q)
    BY Zenon, <1>4, OverOk
  <1>5. CASE Stays(q) /\ ~(op[q] \in {"update", "remove"} /\ tgt[q] = u)
    BY Zenon, <1>1, <1>2, <1>3, <1>5 DEF RequestOk, Stays, Kept, TypeOK
  <1>6. QED
    BY Zenon, <1>4, <1>5, DropEffect

\* The six ways to begin a request: nobody else's moves.
Opens(p) ==
    /\ pc[p] = "idle"
    /\ \A q \in Proc \ {p} : Kept(q)
    /\ UNCHANGED <<tables, ceiling, stale>>

LEMMA RequestOpens ==
    ASSUME NEW p \in Proc, TypeOK, Request(p)
    PROVE  Opens(p)
  <1>1. ASSUME NEW u \in User, CreateCheck(p, u) PROVE Opens(p)
    BY Zenon, <1>1 DEF CreateCheck, Begin, Go, Opens, Kept, TypeOK
  <1>2. ASSUME NEW u \in User, RemoveRead(p, u) PROVE Opens(p)
    BY Zenon, <1>2 DEF RemoveRead, Begin, Go, Opens, Kept, TypeOK
  <1>3. ASSUME NEW u \in User, TransferRead(p, u) PROVE Opens(p)
    BY Zenon, <1>3 DEF TransferRead, Begin, Go, Opens, Kept, TypeOK
  <1>4. ASSUME NEW u \in User, KeyCheck(p, u) PROVE Opens(p)
    BY Zenon, <1>4 DEF KeyCheck, Begin, Go, Opens, Kept, TypeOK
  <1>5. ASSUME NEW u \in User, NEW s \in Live, UpdateRead(p, u, s) PROVE Opens(p)
    BY Zenon, <1>5 DEF UpdateRead, Begin, Go, Opens, Kept, TypeOK
  <1>6. ASSUME NEW n \in Plans, SuspendRead(p, n) PROVE Opens(p)
    BY Zenon, <1>6 DEF SuspendRead, Begin, Go, Opens, Kept, TypeOK
  <1>7. QED
    BY Zenon, <1>1, <1>2, <1>3, <1>4, <1>5, <1>6 DEF Request

LEMMA RequestIsOk ==
    ASSUME NEW p \in Proc, TypeOK, Requests, Request(p)
    PROVE  RequestOk(p)'
  <1>0. RequestOk(p)
    BY Zenon DEF Requests
  <1>1. ASSUME NEW u \in User, CreateCheck(p, u) PROVE RequestOk(p)'
    BY Zenon, <1>0, <1>1 DEF CreateCheck, Begin, RequestOk, TypeOK, tables
  <1>2. ASSUME NEW u \in User, RemoveRead(p, u) PROVE RequestOk(p)'
    BY Zenon, <1>0, <1>2 DEF RemoveRead, Begin, RequestOk, TypeOK, tables
  <1>3. ASSUME NEW u \in User, TransferRead(p, u) PROVE RequestOk(p)'
    BY Zenon, <1>0, <1>3 DEF TransferRead, Begin, RequestOk, TypeOK, tables
  <1>4. ASSUME NEW u \in User, KeyCheck(p, u) PROVE RequestOk(p)'
    BY Zenon, <1>0, <1>4 DEF KeyCheck, Begin, RequestOk, TypeOK, tables
  <1>5. ASSUME NEW u \in User, NEW s \in Live, UpdateRead(p, u, s) PROVE RequestOk(p)'
    BY Zenon, <1>0, <1>5 DEF UpdateRead, Begin, RequestOk, TypeOK, tables
  <1>6. ASSUME NEW n \in Plans, SuspendRead(p, n) PROVE RequestOk(p)'
    BY <1>0, <1>6 DEF SuspendRead, Begin, RequestOk, TypeOK, tables, Candidates
  <1>7. QED
    BY Zenon, <1>1, <1>2, <1>3, <1>4, <1>5, <1>6 DEF Request

LEMMA RequestRequests ==
    ASSUME NEW p \in Proc, TypeOK, Requests, Request(p)
    PROVE  Requests'
  <1>1. UNCHANGED <<st, joined>>
    BY Zenon, RequestOpens DEF Opens, tables
  <1>2. ASSUME NEW q \in Proc \ {p} PROVE RequestOk(q)'
    <2>1. Kept(q)
      BY Zenon, RequestOpens DEF Opens
    <2>2. RequestOk(q)
      BY Zenon DEF Requests
    <2>3. QED
      BY Zenon, <1>1, <2>1, <2>2 DEF Kept, RequestOk
  <1>3. QED
    BY Zenon, <1>2, RequestIsOk DEF Requests

\* A request that goes on to its next step keeps its row.
LEMMA GoesOn ==
    ASSUME NEW p \in Proc, Requests, UNCHANGED <<st, joined, op, tgt, want, cand>>
    PROVE  Requests'
  BY Zenon DEF Requests, RequestOk

LEMMA StepRequests ==
    ASSUME TypeOK, Requests, Invites, NEW p \in Proc, Step(p)
    PROVE  Requests'
  <1> DEFINE Rows == /\ \A u \in User : st[u] # "none" => st'[u] # "none"
                     /\ \A u \in User : joined[u] => joined'[u]
  <1>0. RequestOk(p)
    BY Zenon DEF Requests
  <1>1. CASE CreateCommit(p)
    <2>1. Rows
      BY Zenon, <1>1 DEF CreateCommit, TypeOK
    <2>2. QED
      BY Zenon, <1>1, <2>1, EndOk DEF CreateCommit
  <1>2. CASE UpdateSeat(p)
    <2>1. UNCHANGED <<st, joined>>
      BY Zenon, <1>2 DEF UpdateSeat, tables
    <2>2. CASE End(p)
      BY Zenon, <2>1, <2>2, EndOk
    <2>3. CASE UNCHANGED <<op, tgt, want, cand>>
      BY Zenon, <2>1, <2>3, GoesOn
    <2>4. QED
      BY Zenon, <1>2, <2>2, <2>3 DEF UpdateSeat
  <1>3. CASE UpdateWrite(p)
    <2>1. Rows
      BY Zenon, <1>0, <1>3 DEF UpdateWrite, At, RequestOk, Live, TypeOK
    <2>2. QED
      BY Zenon, <1>3, <2>1, EndOk DEF UpdateWrite
  <1>4. CASE RemoveRow(p)
    <2>1. UNCHANGED <<st, joined>>
      BY Zenon, <1>4 DEF RemoveRow, tables
    <2>2. CASE End(p)
      BY Zenon, <2>1, <2>2, EndOk
    <2>3. CASE UNCHANGED <<op, tgt, want, cand>>
      BY Zenon, <2>1, <2>3, GoesOn
    <2>4. QED
      BY Zenon, <1>4, <2>2, <2>3 DEF RemoveRow
  <1>5. CASE RemoveCommit(p)
    <2>1. tgt[p] \in User
      BY Zenon, <1>0, <1>5 DEF RemoveCommit, At, RequestOk
    <2>2. QED
      BY Zenon, <1>5, <2>1, DropOk DEF RemoveCommit
  <1>6. CASE TransferRow(p)
    <2>1. UNCHANGED <<st, joined>>
      BY Zenon, <1>6 DEF TransferRow, tables
    <2>2. CASE End(p)
      BY Zenon, <2>1, <2>2, EndOk
    <2>3. CASE UNCHANGED <<op, tgt, want, cand>>
      BY Zenon, <2>1, <2>3, GoesOn
    <2>4. QED
      BY Zenon, <1>6, <2>2, <2>3 DEF TransferRow
  <1>7. CASE TransferCommit(p)
    BY Zenon, <1>7, EndOk DEF TransferCommit
  <1>8. CASE SuspendWrite(p)
    <2>1. Rows
      BY Zenon, <1>8 DEF SuspendWrite, TypeOK
    <2>2. QED
      BY Zenon, <1>8, <2>1, EndOk DEF SuspendWrite
  <1>9. CASE KeyInsert(p)
    BY Zenon, <1>9, EndOk DEF KeyInsert
  <1>10. QED
    BY Zenon, <1>1, <1>2, <1>3, <1>4, <1>5, <1>6, <1>7, <1>8, <1>9 DEF Step

LEMMA NextRequests ==
    ASSUME TypeOK, Requests, Invites, Next
    PROVE  Requests'
  <1>1. ASSUME NEW p \in Proc, Request(p) PROVE Requests'
    BY Zenon, <1>1, RequestRequests
  <1>2. ASSUME NEW p \in Proc, Step(p) PROVE Requests'
    BY Zenon, <1>2, StepRequests
  <1>3. ASSUME NEW p \in Proc, Crash(p) PROVE Requests'
    BY Zenon, <1>3, EndOk DEF Crash, tables
  <1>4. ASSUME NEW u \in User, Accept(u) PROVE Requests'
    <2>1. /\ \A v \in User : st[v] # "none" => st'[v] # "none"
          /\ \A v \in User : joined[v] => joined'[v]
      BY Zenon, <1>4 DEF Accept, TypeOK
    <2>2. UNCHANGED <<op, tgt, want, cand>>
      BY Zenon, <1>4 DEF Accept, local
    <2>3. QED
      BY Zenon, <2>1, <2>2 DEF Requests, RequestOk, TypeOK
  <1>5. ASSUME NEW u \in User, RevokeInvitation(u) PROVE Requests'
    <2>1. CASE DropRow(None, u)
      BY Zenon, <2>1, DropOk
    <2>2. CASE UNCHANGED <<st, joined, lock, local>>
      BY Zenon, <2>2 DEF Requests, RequestOk, local
    <2>3. QED
      BY Zenon, <1>5, <2>1, <2>2 DEF RevokeInvitation
  <1>6. ASSUME NEW u \in User, KeyDelete(u) PROVE Requests'
    BY Zenon, <1>6 DEF KeyDelete, Requests, RequestOk, local
  <1>7. ASSUME NEW n \in Ceilings, CeilingChange(n) PROVE Requests'
    BY Zenon, <1>7 DEF CeilingChange, Requests, RequestOk, local, tables
  <1>8. QED
    BY Zenon, <1>1, <1>2, <1>3, <1>4, <1>5, <1>6, <1>7 DEF Next

-----------------------------------------------------------------------------
(* Invitations.                                                            *)

LEMMA DropInvites ==
    ASSUME NEW p, NEW u \in User, TypeOK, Invites, DropRow(p, u), UNCHANGED stale
    PROVE  Invites'
  <1> SUFFICES ASSUME NEW v \in User PROVE InviteOk(v)'
    BY Zenon DEF Invites
  <1>1. InviteOk(v)
    BY Zenon DEF Invites
  <1>2. CASE v = u
    BY Zenon, <1>2 DEF DropRow, InviteOk, TypeOK
  <1>3. CASE v # u
    <2>1. st'[v] = st[v] /\ joined'[v] = joined[v] /\ inv'[v] = inv[v]
      BY Zenon, <1>3 DEF DropRow, TypeOK
    <2>2. QED
      BY Zenon, <1>1, <2>1 DEF InviteOk
  <1>4. QED
    BY Zenon, <1>2, <1>3

LEMMA SameInvites ==
    ASSUME Invites, UNCHANGED <<st, joined, inv>>, stale \subseteq stale'
    PROVE  Invites'
  BY Zenon DEF Invites, InviteOk

LEMMA NoteGrows ==
    ASSUME NEW kind, NEW outdated, Note(kind, outdated)
    PROVE  stale \subseteq stale'
  BY Zenon DEF Note

LEMMA StepInvites ==
    ASSUME TypeOK, Requests, Invites, NEW p \in Proc, Step(p)
    PROVE  Invites'
  <1>0. RequestOk(p)
    BY Zenon DEF Requests
  <1>1. CASE CreateCommit(p)
    <2> SUFFICES ASSUME NEW v \in User PROVE InviteOk(v)'
      BY Zenon DEF Invites
    <2>1. InviteOk(v)
      BY Zenon DEF Invites
    <2>2. tgt[p] \in User
      BY Zenon, <1>0, <1>1 DEF CreateCommit, At, RequestOk
    <2>3. UNCHANGED <<joined, stale>>
      BY Zenon, <1>1 DEF CreateCommit
    <2>4. CASE st[tgt[p]] = "none" /\ v = tgt[p]
      <3>1. st'[v] = "INVITED" /\ inv'[v] = "pending"
        BY <1>1, <2>2, <2>4 DEF CreateCommit, TypeOK
      <3>2. QED
        BY Zenon, <2>1, <2>3, <2>4, <3>1 DEF InviteOk
    <2>5. CASE ~(st[tgt[p]] = "none" /\ v = tgt[p])
      <3>1. st'[v] = st[v] /\ inv'[v] = inv[v]
        BY <1>1, <2>2, <2>5 DEF CreateCommit, TypeOK
      <3>2. QED
        BY Zenon, <2>1, <2>3, <3>1 DEF InviteOk
    <2>6. QED
      BY Zenon, <2>4, <2>5
  <1>2. CASE UpdateSeat(p)
    BY Zenon, <1>2, SameInvites DEF UpdateSeat, tables
  <1>3. CASE UpdateWrite(p)
    <2> SUFFICES ASSUME NEW v \in User PROVE InviteOk(v)'
      BY Zenon DEF Invites
    <2>1. InviteOk(v)
      BY Zenon DEF Invites
    <2>2. tgt[p] \in User /\ want[p] \in Live /\ st[tgt[p]] # "none"
          /\ (want[p] = "ACTIVE" => joined[tgt[p]])
      BY Zenon, <1>0, <1>3 DEF UpdateWrite, At, RequestOk
    <2>3. inv' = inv /\ stale \subseteq stale'
      BY Zenon, <1>3 DEF UpdateWrite
    <2>4. joined'[v] <=> joined[v]
      BY Zenon, <1>3, <2>2 DEF UpdateWrite, TypeOK
    <2>5. CASE v = tgt[p]
      <3>1. st'[v] = want[p]
        BY Zenon, <1>3, <2>5 DEF UpdateWrite, TypeOK
      <3>2. QED
        BY Zenon, <2>1, <2>2, <2>3, <2>4, <2>5, <3>1 DEF InviteOk, Live
    <2>6. CASE v # tgt[p]
      <3>1. st'[v] = st[v]
        BY Zenon, <1>3, <2>2, <2>6 DEF UpdateWrite, TypeOK
      <3>2. QED
        BY Zenon, <2>1, <2>3, <2>4, <3>1 DEF InviteOk
    <2>7. QED
      BY Zenon, <2>5, <2>6
  <1>4. CASE RemoveRow(p)
    BY Zenon, <1>4, SameInvites, NoteGrows DEF RemoveRow, tables
  <1>5. CASE RemoveCommit(p)
    <2>1. tgt[p] \in User
      BY Zenon, <1>0, <1>5 DEF RemoveCommit, At, RequestOk
    <2>2. QED
      BY Zenon, <1>5, <2>1, DropInvites DEF RemoveCommit
  <1>6. CASE TransferRow(p)
    BY Zenon, <1>6, SameInvites, NoteGrows DEF TransferRow, tables
  <1>7. CASE TransferCommit(p)
    BY Zenon, <1>7, SameInvites, NoteGrows DEF TransferCommit
  <1>8. CASE SuspendWrite(p)
    <2> SUFFICES ASSUME NEW v \in User PROVE InviteOk(v)'
      BY Zenon DEF Invites
    <2>1. InviteOk(v)
      BY Zenon DEF Invites
    <2>2. UNCHANGED <<joined, inv>> /\ stale \subseteq stale'
      BY Zenon, <1>8, NoteGrows DEF SuspendWrite
    <2>3. v \in cand[p] => st[v] # "none"
      BY Zenon, <1>0 DEF RequestOk
    <2>4. st'[v] = IF v \in cand[p] THEN "SUSPENDED" ELSE st[v]
      BY Zenon, <1>8 DEF SuspendWrite
    <2>5. QED
      BY Zenon, <2>1, <2>2, <2>3, <2>4 DEF InviteOk
  <1>9. CASE KeyInsert(p)
    BY Zenon, <1>9, SameInvites, NoteGrows DEF KeyInsert
  <1>10. QED
    BY Zenon, <1>1, <1>2, <1>3, <1>4, <1>5, <1>6, <1>7, <1>8, <1>9 DEF Step

LEMMA NextInvites ==
    ASSUME TypeOK, Requests, Invites, Owners, Next
    PROVE  Invites'
  <1>1. ASSUME NEW p \in Proc, Request(p) PROVE Invites'
    BY Zenon, <1>1, RequestOpens, SameInvites DEF Opens, tables
  <1>2. ASSUME NEW p \in Proc, Step(p) PROVE Invites'
    BY Zenon, <1>2, StepInvites
  <1>3. ASSUME NEW p \in Proc, Crash(p) PROVE Invites'
    BY Zenon, <1>3, SameInvites DEF Crash, tables
  <1>4. ASSUME NEW u \in User, Accept(u) PROVE Invites'
    <2> SUFFICES ASSUME NEW v \in User PROVE InviteOk(v)'
      BY Zenon DEF Invites
    <2>1. InviteOk(v)
      BY Zenon DEF Invites
    <2>2. CASE v = u
      BY Zenon, <1>4, <2>2 DEF Accept, InviteOk, TypeOK
    <2>3. CASE v # u
      BY Zenon, <1>4, <2>1, <2>3 DEF Accept, InviteOk, TypeOK
    <2>4. QED
      BY Zenon, <2>2, <2>3
  <1>5. ASSUME NEW u \in User, RevokeInvitation(u) PROVE Invites'
    <2>1. CASE DropRow(None, u)
      BY Zenon, <1>5, <2>1, DropInvites DEF RevokeInvitation
    <2>2. CASE u = owner /\ inv' = [inv EXCEPT ![u] = "revoked"] /\ UNCHANGED <<st, joined>>
      <3>1. ~joined[u] /\ st[u] # "ACTIVE"
        BY Zenon, <1>5 DEF RevokeInvitation, Invites, InviteOk
      <3>2. "owner" \in stale
        BY Zenon, <2>2, <3>1 DEF Owners
      <3>3. stale' = stale
        BY Zenon, <1>5 DEF RevokeInvitation
      <3>4. QED
        BY Zenon, <1>5, <2>2, <3>1, <3>2, <3>3 DEF Invites, InviteOk, TypeOK
    <2>3. QED
      BY Zenon, <1>5, <2>1, <2>2 DEF RevokeInvitation
  <1>6. ASSUME NEW u \in User, KeyDelete(u) PROVE Invites'
    BY Zenon, <1>6, SameInvites DEF KeyDelete
  <1>7. ASSUME NEW n \in Ceilings, CeilingChange(n) PROVE Invites'
    BY Zenon, <1>7, SameInvites DEF CeilingChange, tables
  <1>8. QED
    BY Zenon, <1>1, <1>2, <1>3, <1>4, <1>5, <1>6, <1>7 DEF Next

-----------------------------------------------------------------------------
(* Keys.                                                                   *)

\* Only the end of a row takes a member's joining back.
LEMMA KeysStay ==
    ASSUME KeysJoined, stale \subseteq stale', keys' \subseteq keys, TypeOK,
           \A u \in User : joined[u] => joined'[u]
    PROVE  KeysJoined'
  BY Zenon DEF KeysJoined, TypeOK

LEMMA StepKeys ==
    ASSUME TypeOK, Requests, Invites, KeysJoined, NEW p \in Proc, Step(p)
    PROVE  KeysJoined'
  <1>0. RequestOk(p)
    BY Zenon DEF Requests
  <1>1. CASE CreateCommit(p)
    BY Zenon, <1>1, KeysStay DEF CreateCommit
  <1>2. CASE UpdateSeat(p)
    BY Zenon, <1>2, KeysStay DEF UpdateSeat, tables
  <1>3. CASE UpdateWrite(p)
    <2>1. \A u \in User : joined[u] => joined'[u]
      BY Zenon, <1>3 DEF UpdateWrite, TypeOK
    <2>2. QED
      BY Zenon, <1>3, <2>1, KeysStay DEF UpdateWrite
  <1>4. CASE RemoveRow(p)
    BY Zenon, <1>4, KeysStay, NoteGrows DEF RemoveRow, tables
  <1>5. CASE RemoveCommit(p)
    BY Zenon, <1>5 DEF RemoveCommit, DropRow, KeysJoined, TypeOK
  <1>6. CASE TransferRow(p)
    BY Zenon, <1>6, KeysStay, NoteGrows DEF TransferRow, tables
  <1>7. CASE TransferCommit(p)
    BY Zenon, <1>7, KeysStay, NoteGrows DEF TransferCommit
  <1>8. CASE SuspendWrite(p)
    BY Zenon, <1>8, KeysStay, NoteGrows DEF SuspendWrite
  <1>9. CASE KeyInsert(p)
    <2>1. tgt[p] \in User
      BY Zenon, <1>0, <1>9 DEF KeyInsert, At, RequestOk
    <2>2. st[tgt[p]] = "ACTIVE" => joined[tgt[p]]
      BY Zenon, <2>1 DEF Invites, InviteOk
    <2>3. QED
      BY Zenon, <1>9, <2>1, <2>2 DEF KeyInsert, Note, KeysJoined
  <1>10. QED
    BY Zenon, <1>1, <1>2, <1>3, <1>4, <1>5, <1>6, <1>7, <1>8, <1>9 DEF Step

LEMMA NextKeys ==
    ASSUME TypeOK, Requests, Invites, KeysJoined, Next
    PROVE  KeysJoined'
  <1>1. ASSUME NEW p \in Proc, Request(p) PROVE KeysJoined'
    BY Zenon, <1>1, RequestOpens, KeysStay DEF Opens, tables
  <1>2. ASSUME NEW p \in Proc, Step(p) PROVE KeysJoined'
    BY Zenon, <1>2, StepKeys
  <1>3. ASSUME NEW p \in Proc, Crash(p) PROVE KeysJoined'
    BY Zenon, <1>3, KeysStay DEF Crash, tables
  <1>4. ASSUME NEW u \in User, Accept(u) PROVE KeysJoined'
    <2>1. \A v \in User : joined[v] => joined'[v]
      BY Zenon, <1>4 DEF Accept, TypeOK
    <2>2. QED
      BY Zenon, <1>4, <2>1, KeysStay DEF Accept
  <1>5. ASSUME NEW u \in User, RevokeInvitation(u) PROVE KeysJoined'
    <2>1. ~joined[u]
      BY Zenon, <1>5 DEF RevokeInvitation, Invites, InviteOk
    <2>2. \A v \in User : joined[v] => joined'[v]
      BY <1>5, <2>1 DEF RevokeInvitation, DropRow, TypeOK
    <2>3. QED
      BY Zenon, <1>5, <2>2, KeysStay DEF RevokeInvitation
  <1>6. ASSUME NEW u \in User, KeyDelete(u) PROVE KeysJoined'
    BY Zenon, <1>6, KeysStay DEF KeyDelete
  <1>7. ASSUME NEW n \in Ceilings, CeilingChange(n) PROVE KeysJoined'
    BY Zenon, <1>7, KeysStay DEF CeilingChange, tables
  <1>8. QED
    BY Zenon, <1>1, <1>2, <1>3, <1>4, <1>5, <1>6, <1>7 DEF Next

-----------------------------------------------------------------------------
(* The owner.                                                              *)

\* The request holds neither an open transfer nor an open removal.
Modest(q) == ~(op'[q] \in {"transfer", "remove"} /\ pc'[q] = "commit")

LEMMA OwnersStay ==
    ASSUME TypeOK, Requests, Owners, UNCHANGED owner, stale \subseteq stale',
           \A q \in Proc : Kept(q) \/ Modest(q),
           \A u \in User : /\ "owner" \notin stale' /\ (u = owner \/ TransferOpen(u))
                           /\ st[u] = "ACTIVE"
                           => st'[u] = "ACTIVE"
    PROVE  Owners'
  <1> SUFFICES ASSUME "owner" \notin stale' PROVE Owners'
    BY Zenon DEF Owners
  <1>0. /\ "owner" \notin stale
        /\ st[owner] = "ACTIVE"
        /\ \A q \in Proc : At(q, "transfer", "commit") => st[tgt[q]] = "ACTIVE"
        /\ \A q \in Proc : At(q, "remove", "commit") => tgt[q] # owner /\ ~TransferOpen(tgt[q])
    BY Zenon DEF Owners
  <1>1. st'[owner'] = "ACTIVE"
    BY Zenon, <1>0 DEF TypeOK
  <1>2. ASSUME NEW q \in Proc, At(q, "transfer", "commit")'
        PROVE  At(q, "transfer", "commit") /\ tgt'[q] = tgt[q]
    BY Zenon, <1>2 DEF At, Kept, Modest
  <1>3. ASSUME NEW q \in Proc, At(q, "remove", "commit")'
        PROVE  At(q, "remove", "commit") /\ tgt'[q] = tgt[q]
    BY Zenon, <1>3 DEF At, Kept, Modest
  <1>4. ASSUME NEW q \in Proc, At(q, "transfer", "commit")'
        PROVE  st'[tgt'[q]] = "ACTIVE"
    <2>1. tgt[q] \in User
      BY Zenon, <1>2, <1>4 DEF Requests, RequestOk, At
    <2>2. TransferOpen(tgt[q])
      BY Zenon, <1>2, <1>4 DEF TransferOpen
    <2>3. QED
      BY Zenon, <1>0, <1>2, <1>4, <2>1, <2>2
  <1>5. ASSUME NEW q \in Proc, At(q, "remove", "commit")'
        PROVE  tgt'[q] # owner' /\ ~TransferOpen(tgt[q])'
    <2>1. tgt[q] # owner /\ ~TransferOpen(tgt[q])
      BY Zenon, <1>0, <1>3, <1>5
    <2>2. ASSUME TransferOpen(tgt[q])' PROVE FALSE
      <3>1. PICK r \in Proc : At(r, "transfer", "commit")' /\ tgt'[r] = tgt'[q]
        BY Zenon, <2>2 DEF TransferOpen
      <3>2. QED
        BY Zenon, <1>2, <1>3, <1>5, <2>1, <3>1 DEF TransferOpen
    <2>3. QED
      BY Zenon, <1>3, <1>5, <2>1, <2>2
  <1>6. QED
    BY Zenon, <1>1, <1>4, <1>5 DEF Owners

LEMMA EndModest ==
    ASSUME NEW p \in Proc, TypeOK, End(p)
    PROVE  \A q \in Proc : Kept(q) \/ Modest(q)
  BY Zenon, EndEffect DEF Over, Ended, Stays, Modest

LEMMA DropModest ==
    ASSUME NEW p, NEW u \in User, TypeOK, DropRow(p, u)
    PROVE  \A q \in Proc : Kept(q) \/ Modest(q)
  BY Zenon, DropEffect DEF Over, Ended, Stays, Modest

LEMMA RequestModest ==
    ASSUME NEW p \in Proc, TypeOK, Request(p)
    PROVE  Modest(p)
  <1>1. ASSUME NEW u \in User, CreateCheck(p, u) PROVE Modest(p)
    BY Zenon, <1>1 DEF CreateCheck, Begin, Go, Modest, TypeOK
  <1>2. ASSUME NEW u \in User, RemoveRead(p, u) PROVE Modest(p)
    BY Zenon, <1>2 DEF RemoveRead, Begin, Go, Modest, TypeOK
  <1>3. ASSUME NEW u \in User, TransferRead(p, u) PROVE Modest(p)
    BY Zenon, <1>3 DEF TransferRead, Begin, Go, Modest, TypeOK
  <1>4. ASSUME NEW u \in User, KeyCheck(p, u) PROVE Modest(p)
    BY Zenon, <1>4 DEF KeyCheck, Begin, Go, Modest, TypeOK
  <1>5. ASSUME NEW u \in User, NEW s \in Live, UpdateRead(p, u, s) PROVE Modest(p)
    BY Zenon, <1>5 DEF UpdateRead, Begin, Go, Modest, TypeOK
  <1>6. ASSUME NEW n \in Plans, SuspendRead(p, n) PROVE Modest(p)
    BY Zenon, <1>6 DEF SuspendRead, Begin, Go, Modest, TypeOK
  <1>7. QED
    BY Zenon, <1>1, <1>2, <1>3, <1>4, <1>5, <1>6 DEF Request

\* A request that takes its next step, the others staying where they are.
LEMMA GoKeeps ==
    ASSUME NEW p \in Proc, NEW next, TypeOK, Go(p, next), UNCHANGED <<op, tgt, want, cand>>
    PROVE  (\A q \in Proc \ {p} : Kept(q)) /\ pc'[p] = next
  BY Zenon DEF Go, Kept, TypeOK

LEMMA RemoveRowOwners ==
    ASSUME TypeOK, Requests, Owners, NEW p \in Proc, RemoveRow(p)
    PROVE  Owners'
  <1>1. UNCHANGED <<owner, st>> /\ stale \subseteq stale'
    BY Zenon, NoteGrows DEF RemoveRow, tables
  <1>2. CASE End(p)
    BY Zenon, <1>1, <1>2, EndModest, OwnersStay
  <1>3. CASE /\ tgt[p] # owner /\ Go(p, "commit") /\ Note("owner", TransferOpen(tgt[p]))
             /\ UNCHANGED <<op, tgt, want, cand>>
    <2> SUFFICES ASSUME "owner" \notin stale' PROVE Owners'
      BY Zenon DEF Owners
    <2>1. ~TransferOpen(tgt[p])
      BY Zenon, <1>3 DEF Note
    <2>2. op[p] = "remove"
      BY Zenon DEF RemoveRow, At
    <2>3. \A q \in Proc : At(q, "transfer", "commit")' => At(q, "transfer", "commit")
      BY Zenon, <1>3, <2>2, GoKeeps DEF At, Kept
    <2>4. \A q \in Proc \ {p} : At(q, "remove", "commit")' => At(q, "remove", "commit")
      BY Zenon, <1>3, GoKeeps DEF At, Kept
    <2>6. tgt' = tgt
      BY Zenon, <1>3
    <2>7. "owner" \notin stale
      BY Zenon, <1>1
    <2>8. st'[owner'] = "ACTIVE"
      BY Zenon, <1>1, <2>7 DEF Owners
    <2>9. \A q \in Proc : At(q, "transfer", "commit")' => st'[tgt'[q]] = "ACTIVE"
      BY Zenon, <1>1, <2>3, <2>6, <2>7 DEF Owners
    <2>10. ASSUME NEW q \in Proc, At(q, "remove", "commit")'
           PROVE  tgt'[q] # owner' /\ ~TransferOpen(tgt[q])'
      <3>1. tgt[q] # owner /\ ~TransferOpen(tgt[q])
        BY Zenon, <1>3, <2>1, <2>4, <2>7, <2>10 DEF Owners
      <3>2. tgt'[q] # owner'
        BY Zenon, <1>1, <2>6, <3>1
      <3>3. ~TransferOpen(tgt[q])'
        BY Zenon, <2>3, <2>6, <3>1 DEF TransferOpen
      <3>4. QED
        BY Zenon, <3>2, <3>3
    <2>11. QED
      BY Zenon, <2>8, <2>9, <2>10 DEF Owners
  <1>4. QED
    BY Zenon, <1>2, <1>3 DEF RemoveRow

LEMMA TransferRowOwners ==
    ASSUME TypeOK, Requests, Owners, NEW p \in Proc, TransferRow(p)
    PROVE  Owners'
  <1>1. UNCHANGED <<owner, st>> /\ stale \subseteq stale'
    BY Zenon, NoteGrows DEF TransferRow, tables
  <1>2. CASE End(p)
    BY Zenon, <1>1, <1>2, EndModest, OwnersStay
  <1>3. CASE /\ st[tgt[p]] = "ACTIVE" /\ Go(p, "commit") /\ Note("owner", ~RowFree(tgt[p]))
             /\ UNCHANGED <<op, tgt, want, cand>>
    <2> SUFFICES ASSUME "owner" \notin stale' PROVE Owners'
      BY Zenon DEF Owners
    <2>1. RowFree(tgt[p])
      BY Zenon, <1>3 DEF Note
    <2>2. op[p] = "transfer"
      BY Zenon DEF TransferRow, At
    <2>3. \A q \in Proc \ {p} : ~At(q, "transfer", "commit")'
      BY <1>3, GoKeeps DEF At, Kept, TransferRow
    <2>4. \A q \in Proc : At(q, "remove", "commit")' => At(q, "remove", "commit")
      BY Zenon, <1>3, <2>2, GoKeeps DEF At, Kept
    <2>5. tgt' = tgt
      BY Zenon, <1>3
    <2>6. "owner" \notin stale
      BY Zenon, <1>1
    <2>7. st'[owner'] = "ACTIVE"
      BY Zenon, <1>1, <2>6 DEF Owners
    <2>8. \A q \in Proc : At(q, "transfer", "commit")' => st'[tgt'[q]] = "ACTIVE"
      BY Zenon, <1>1, <1>3, <2>3, <2>5
    <2>9. ASSUME NEW q \in Proc, At(q, "remove", "commit")'
          PROVE  tgt'[q] # owner' /\ ~TransferOpen(tgt[q])'
      <3>1. At(q, "remove", "commit")
        BY Zenon, <2>4, <2>9
      <3>2. tgt[q] # owner
        BY Zenon, <2>6, <3>1 DEF Owners
      <3>3. tgt[q] # tgt[p]
        BY Zenon, <2>1, <3>1 DEF RowFree
      <3>4. ~TransferOpen(tgt[q])'
        BY Zenon, <2>3, <2>5, <3>3 DEF TransferOpen
      <3>5. QED
        BY Zenon, <1>1, <2>5, <3>2, <3>4
    <2>10. QED
      BY Zenon, <2>7, <2>8, <2>9 DEF Owners
  <1>4. QED
    BY Zenon, <1>2, <1>3 DEF TransferRow

LEMMA TransferCommitOwners ==
    ASSUME TypeOK, Requests, Owners, NEW p \in Proc, TransferCommit(p)
    PROVE  Owners'
  <1> SUFFICES ASSUME "owner" \notin stale' PROVE Owners'
    BY Zenon DEF Owners
  <1>1. "owner" \notin stale /\ st' = st /\ owner' = tgt[p] /\ End(p)
    BY Zenon, NoteGrows DEF TransferCommit
  <1>2. At(p, "transfer", "commit") /\ TransferOpen(tgt[p])
    BY Zenon DEF TransferCommit, TransferOpen
  <1>3. \A q \in Proc : At(q, "transfer", "commit")' => At(q, "transfer", "commit") /\ tgt'[q] = tgt[q]
    BY Zenon, <1>1, EndModest DEF At, Kept, Modest
  <1>4. \A q \in Proc : At(q, "remove", "commit")' => At(q, "remove", "commit") /\ tgt'[q] = tgt[q]
    BY Zenon, <1>1, EndModest DEF At, Kept, Modest
  <1>5. st'[owner'] = "ACTIVE"
    BY Zenon, <1>1, <1>2 DEF Owners
  <1>6. \A q \in Proc : At(q, "transfer", "commit")' => st'[tgt'[q]] = "ACTIVE"
    BY Zenon, <1>1, <1>3 DEF Owners
  <1>7. ASSUME NEW q \in Proc, At(q, "remove", "commit")'
        PROVE  tgt'[q] # owner' /\ ~TransferOpen(tgt[q])'
    <2>1. ~TransferOpen(tgt[q]) /\ tgt'[q] = tgt[q]
      BY Zenon, <1>1, <1>4, <1>7 DEF Owners
    <2>2. tgt[q] # tgt[p]
      BY Zenon, <1>2, <2>1
    <2>3. ~TransferOpen(tgt[q])'
      BY Zenon, <1>3, <2>1 DEF TransferOpen
    <2>4. QED
      BY Zenon, <1>1, <2>1, <2>2, <2>3
  <1>8. QED
    BY Zenon, <1>5, <1>6, <1>7 DEF Owners

LEMMA StepOwners ==
    ASSUME TypeOK, Requests, Invites, Owners, Spared, NEW p \in Proc, Step(p)
    PROVE  Owners'
  <1>0. RequestOk(p)
    BY Zenon DEF Requests
  <1>1. CASE CreateCommit(p)
    <2>1. \A u \in User : st[u] = "ACTIVE" => st'[u] = "ACTIVE"
      BY Zenon, <1>1 DEF CreateCommit, TypeOK
    <2>2. QED
      BY Zenon, <1>1, <2>1, EndModest, OwnersStay DEF CreateCommit
  <1>2. CASE UpdateSeat(p)
    <2>1. UNCHANGED <<owner, st, stale>>
      BY Zenon, <1>2 DEF UpdateSeat, tables
    <2>2. CASE End(p)
      BY Zenon, <2>1, <2>2, EndModest, OwnersStay
    <2>3. CASE Go(p, "write") /\ UNCHANGED <<op, tgt, want, cand>>
      <3>1. \A q \in Proc : Kept(q) \/ Modest(q)
        BY <2>3, GoKeeps DEF Modest
      <3>2. QED
        BY Zenon, <2>1, <3>1, OwnersStay
    <2>4. QED
      BY Zenon, <1>2, <2>2, <2>3 DEF UpdateSeat
  <1>3. CASE UpdateWrite(p)
    <2>1. tgt[p] \in User
      BY Zenon, <1>0, <1>3 DEF UpdateWrite, At, RequestOk
    <2>2. ASSUME NEW u \in User, "owner" \notin stale', u = owner \/ TransferOpen(u), st[u] = "ACTIVE"
          PROVE  st'[u] = "ACTIVE"
      <3>1. CASE u = tgt[p]
        <4>1. TransferOpen(u) => want[p] = "ACTIVE"
          BY Zenon, <1>3, <2>2, <3>1 DEF UpdateWrite
        <4>2. u = owner => want[p] = "ACTIVE"
          <5>1. "owner" \notin stale /\ op[p] = "update"
            BY Zenon, <1>3, <2>2 DEF UpdateWrite, At
          <5>2. QED
            BY Zenon, <3>1, <5>1 DEF Spared, Demotes
        <4>3. QED
          BY Zenon, <1>3, <2>2, <3>1, <4>1, <4>2 DEF UpdateWrite, TypeOK
      <3>2. CASE u # tgt[p]
        BY Zenon, <1>3, <2>2, <3>2 DEF UpdateWrite, TypeOK
      <3>3. QED
        BY Zenon, <3>1, <3>2
    <2>3. owner' = owner /\ stale \subseteq stale' /\ End(p)
      BY Zenon, <1>3 DEF UpdateWrite
    <2>4. QED
      BY Zenon, <2>2, <2>3, EndModest, OwnersStay
  <1>4. CASE RemoveRow(p)
    BY Zenon, <1>4, RemoveRowOwners
  <1>5. CASE RemoveCommit(p)
    <2>1. tgt[p] \in User
      BY Zenon, <1>0, <1>5 DEF RemoveCommit, At, RequestOk
    <2>2. UNCHANGED <<owner, stale>> /\ DropRow(p, tgt[p]) /\ At(p, "remove", "commit")
      BY Zenon, <1>5 DEF RemoveCommit
    <2>3. ASSUME NEW u \in User, "owner" \notin stale', u = owner \/ TransferOpen(u), st[u] = "ACTIVE"
          PROVE  st'[u] = "ACTIVE"
      <3>1. u # tgt[p]
        BY Zenon, <2>2, <2>3 DEF Owners
      <3>2. QED
        BY Zenon, <2>2, <2>3, <3>1 DEF DropRow, TypeOK
    <2>4. QED
      BY Zenon, <2>1, <2>2, <2>3, DropModest, OwnersStay
  <1>6. CASE TransferRow(p)
    BY Zenon, <1>6, TransferRowOwners
  <1>7. CASE TransferCommit(p)
    BY Zenon, <1>7, TransferCommitOwners
  <1>8. CASE SuspendWrite(p)
    <2>1. ASSUME NEW u \in User, "owner" \notin stale', u = owner \/ TransferOpen(u), st[u] = "ACTIVE"
          PROVE  st'[u] = "ACTIVE"
      <3>1. TransferOpen(u) => u \notin cand[p]
        BY Zenon, <1>8, <2>1 DEF SuspendWrite, Note
      <3>a. u = owner => u \notin cand[p]
        <4>1. "owner" \notin stale
          BY Zenon, <1>8, <2>1, NoteGrows DEF SuspendWrite
        <4>2. QED
          BY Zenon, <4>1 DEF Spared, Demotes
      <3>2. QED
        BY Zenon, <1>8, <2>1, <3>1, <3>a DEF SuspendWrite
    <2>2. owner' = owner /\ stale \subseteq stale' /\ End(p)
      BY Zenon, <1>8, NoteGrows DEF SuspendWrite
    <2>3. QED
      BY Zenon, <2>1, <2>2, EndModest, OwnersStay
  <1>9. CASE KeyInsert(p)
    BY Zenon, <1>9, NoteGrows, EndModest, OwnersStay DEF KeyInsert
  <1>10. QED
    BY Zenon, <1>1, <1>2, <1>3, <1>4, <1>5, <1>6, <1>7, <1>8, <1>9 DEF Step

LEMMA LocalKept ==
    ASSUME UNCHANGED local
    PROVE  \A q \in Proc : Kept(q)
  BY Zenon DEF local, Kept

LEMMA NextOwners ==
    ASSUME TypeOK, Requests, Invites, Owners, Spared, Next
    PROVE  Owners'
  <1>1. ASSUME NEW p \in Proc, Request(p) PROVE Owners'
    <2>1. \A q \in Proc : Kept(q) \/ Modest(q)
      BY Zenon, <1>1, RequestOpens, RequestModest DEF Opens
    <2>2. UNCHANGED <<owner, st, stale>>
      BY Zenon, <1>1, RequestOpens DEF Opens, tables
    <2>3. QED
      BY Zenon, <2>1, <2>2, OwnersStay
  <1>2. ASSUME NEW p \in Proc, Step(p) PROVE Owners'
    BY Zenon, <1>2, StepOwners
  <1>3. ASSUME NEW p \in Proc, Crash(p) PROVE Owners'
    BY Zenon, <1>3, EndModest, OwnersStay DEF Crash, tables
  <1>4. ASSUME NEW u \in User, Accept(u) PROVE Owners'
    <2>1. \A v \in User : st[v] = "ACTIVE" => st'[v] = "ACTIVE"
      BY Zenon, <1>4 DEF Accept, TypeOK
    <2>2. QED
      BY Zenon, <1>4, <2>1, LocalKept, OwnersStay DEF Accept
  <1>5. ASSUME NEW u \in User, RevokeInvitation(u) PROVE Owners'
    <2>1. st[u] # "ACTIVE"
      BY Zenon, <1>5 DEF RevokeInvitation, Invites, InviteOk
    <2>2. UNCHANGED <<owner, stale>>
      BY Zenon, <1>5 DEF RevokeInvitation
    <2>3. CASE DropRow(None, u)
      <3>1. \A v \in User : st[v] = "ACTIVE" => st'[v] = "ACTIVE"
        BY Zenon, <2>1, <2>3 DEF DropRow, TypeOK
      <3>2. QED
        BY Zenon, <2>2, <2>3, <3>1, DropModest, OwnersStay
    <2>4. CASE UNCHANGED <<st, joined, lock, local>>
      BY Zenon, <2>2, <2>4, LocalKept, OwnersStay
    <2>5. QED
      BY Zenon, <1>5, <2>3, <2>4 DEF RevokeInvitation
  <1>6. ASSUME NEW u \in User, KeyDelete(u) PROVE Owners'
    BY Zenon, <1>6, LocalKept, OwnersStay DEF KeyDelete
  <1>7. ASSUME NEW n \in Ceilings, CeilingChange(n) PROVE Owners'
    BY Zenon, <1>7, LocalKept, OwnersStay DEF CeilingChange, tables
  <1>8. QED
    BY Zenon, <1>1, <1>2, <1>3, <1>4, <1>5, <1>6, <1>7 DEF Next

-----------------------------------------------------------------------------
(* Who spares the owner.                                                   *)

LEMMA KeptSpares ==
    ASSUME NEW q \in Proc, NEW u, Kept(q) \/ Ended(q), Demotes(q, u)'
    PROVE  Demotes(q, u)
  <1>1. CASE Kept(q)
    BY Zenon, <1>1 DEF Kept, Demotes
  <1>2. CASE Ended(q)
    BY Zenon, <1>2 DEF Ended, Demotes
  <1>3. QED
    BY Zenon, <1>1, <1>2

LEMMA SparedStays ==
    ASSUME Spared, UNCHANGED owner, stale \subseteq stale', \A q \in Proc : Kept(q) \/ Ended(q)
    PROVE  Spared'
  BY Zenon, KeptSpares DEF Spared

LEMMA EndQuiet ==
    ASSUME NEW p \in Proc, TypeOK, End(p)
    PROVE  \A q \in Proc : Kept(q) \/ Ended(q)
  BY Zenon, EndEffect DEF Over, Stays

LEMMA DropQuiet ==
    ASSUME NEW p, NEW u \in User, TypeOK, DropRow(p, u)
    PROVE  \A q \in Proc : Kept(q) \/ Ended(q)
  BY Zenon, DropEffect DEF Over, Stays

\* A request begins with a look at the owner.
LEMMA RequestSpares ==
    ASSUME NEW p \in Proc, TypeOK, Request(p), Demotes(p, owner)'
    PROVE  Demotes(p, owner)
  <1>1. ASSUME NEW u \in User, CreateCheck(p, u) PROVE Demotes(p, owner)
    BY Zenon, <1>1 DEF CreateCheck, Begin, Demotes, TypeOK, tables
  <1>2. ASSUME NEW u \in User, RemoveRead(p, u) PROVE Demotes(p, owner)
    BY Zenon, <1>2 DEF RemoveRead, Begin, Demotes, TypeOK, tables
  <1>3. ASSUME NEW u \in User, TransferRead(p, u) PROVE Demotes(p, owner)
    BY Zenon, <1>3 DEF TransferRead, Begin, Demotes, TypeOK, tables
  <1>4. ASSUME NEW u \in User, KeyCheck(p, u) PROVE Demotes(p, owner)
    BY Zenon, <1>4 DEF KeyCheck, Begin, Demotes, TypeOK, tables
  <1>5. ASSUME NEW u \in User, NEW s \in Live, UpdateRead(p, u, s) PROVE Demotes(p, owner)
    BY Zenon, <1>5 DEF UpdateRead, Begin, Demotes, TypeOK, tables
  <1>6. ASSUME NEW n \in Plans, SuspendRead(p, n) PROVE Demotes(p, owner)
    <2>1. owner' = owner /\ op'[p] # "update" /\ owner \notin cand'[p]
      BY Zenon, <1>6 DEF SuspendRead, Begin, Candidates, TypeOK, tables
    <2>2. QED
      BY Zenon, <2>1 DEF Demotes
  <1>7. QED
    BY Zenon, <1>1, <1>2, <1>3, <1>4, <1>5, <1>6 DEF Request

LEMMA StepSpared ==
    ASSUME TypeOK, Requests, Spared, NEW p \in Proc, Step(p)
    PROVE  Spared'
  <1>0. RequestOk(p)
    BY Zenon DEF Requests
  <1>1. ASSUME CreateCommit(p) \/ UpdateWrite(p) \/ SuspendWrite(p) \/ KeyInsert(p) PROVE Spared'
    <2>1. UNCHANGED owner /\ stale \subseteq stale' /\ End(p)
      BY Zenon, <1>1, NoteGrows DEF CreateCommit, UpdateWrite, SuspendWrite, KeyInsert
    <2>2. QED
      BY Zenon, <2>1, EndQuiet, SparedStays
  <1>2. ASSUME UpdateSeat(p) \/ RemoveRow(p) \/ TransferRow(p) PROVE Spared'
    <2>1. UNCHANGED owner /\ stale \subseteq stale'
      BY Zenon, <1>2, NoteGrows DEF UpdateSeat, RemoveRow, TransferRow, tables
    <2>2. CASE End(p)
      BY Zenon, <2>1, <2>2, EndQuiet, SparedStays
    <2>3. CASE UNCHANGED <<op, tgt, want, cand>>
      BY Zenon, <2>1, <2>3 DEF Spared, Demotes
    <2>4. QED
      BY Zenon, <1>2, <2>2, <2>3 DEF UpdateSeat, RemoveRow, TransferRow
  <1>3. CASE RemoveCommit(p)
    <2>1. tgt[p] \in User /\ DropRow(p, tgt[p]) /\ UNCHANGED <<owner, stale>>
      BY Zenon, <1>0, <1>3 DEF RemoveCommit, At, RequestOk
    <2>2. QED
      BY Zenon, <2>1, DropQuiet, SparedStays
  <1>4. CASE TransferCommit(p)
    <2>1. End(p) /\ owner' = tgt[p] /\ Note("owner", \E q \in Proc : Demotes(q, tgt[p]))
      BY Zenon, <1>4 DEF TransferCommit
    <2>2. "owner" \notin stale' => \A q \in Proc : ~Demotes(q, tgt[p])
      BY Zenon, <2>1 DEF Note
    <2>3. ASSUME NEW q \in Proc, Demotes(q, owner)' PROVE Demotes(q, tgt[p])
      BY Zenon, <2>1, <2>3, EndQuiet DEF Kept, Ended, Demotes
    <2>4. QED
      BY Zenon, <2>2, <2>3 DEF Spared
  <1>5. QED
    BY Zenon, <1>1, <1>2, <1>3, <1>4 DEF Step

LEMMA NextSpared ==
    ASSUME TypeOK, Requests, Spared, Next
    PROVE  Spared'
  <1>1. ASSUME NEW p \in Proc, Request(p) PROVE Spared'
    <2>1. UNCHANGED <<owner, stale>> /\ \A q \in Proc \ {p} : Kept(q)
      BY Zenon, <1>1, RequestOpens DEF Opens, tables
    <2>2. \A q \in Proc : Demotes(q, owner)' => Demotes(q, owner)
      BY Zenon, <1>1, <2>1, RequestSpares, KeptSpares
    <2>3. QED
      BY Zenon, <2>1, <2>2 DEF Spared
  <1>2. ASSUME NEW p \in Proc, Step(p) PROVE Spared'
    BY Zenon, <1>2, StepSpared
  <1>3. ASSUME NEW p \in Proc, Crash(p) PROVE Spared'
    BY Zenon, <1>3, EndQuiet, SparedStays DEF Crash, tables
  <1>4. ASSUME NEW u \in User, RevokeInvitation(u) PROVE Spared'
    <2>1. UNCHANGED <<owner, stale>>
      BY Zenon, <1>4 DEF RevokeInvitation
    <2>2. CASE DropRow(None, u)
      BY Zenon, <2>1, <2>2, DropQuiet, SparedStays
    <2>3. CASE UNCHANGED local
      BY Zenon, <2>1, <2>3, LocalKept, SparedStays
    <2>4. QED
      BY Zenon, <1>4, <2>2, <2>3 DEF RevokeInvitation
  <1>5. ASSUME \/ \E u \in User : Accept(u) \/ KeyDelete(u)
               \/ \E n \in Ceilings : CeilingChange(n)
        PROVE  Spared'
    BY Zenon, <1>5, LocalKept, SparedStays DEF Accept, KeyDelete, CeilingChange, tables
  <1>6. QED
    BY Zenon, <1>1, <1>2, <1>3, <1>4, <1>5 DEF Next

-----------------------------------------------------------------------------
(* Types.                                                                  *)

TablesOK ==
    /\ owner \in User
    /\ st \in [User -> Live \cup {"none"}]
    /\ joined \in [User -> BOOLEAN]
    /\ inv \in [User -> {"none", "pending", "accepted", "revoked"}]
    /\ keys \in SUBSET User
    /\ ceiling \in Ceilings
    /\ stale \in SUBSET {"owner", "seat", "key"}

LocalOK ==
    /\ lock \in Proc \cup {None}
    /\ op \in [Proc -> Ops] /\ pc \in [Proc -> Steps]
    /\ tgt \in [Proc -> User \cup {None}]
    /\ want \in [Proc -> Live \cup {"none"}]
    /\ cand \in [Proc -> SUBSET User]

LEMMA TypeParts == TypeOK <=> TablesOK /\ LocalOK
  BY Zenon DEF TypeOK, TablesOK, LocalOK

LEMMA ResetType ==
    ASSUME LocalOK, NEW done, Reset(done), cand' \in [Proc -> SUBSET User]
    PROVE  LocalOK'
  BY Zenon DEF LocalOK, Reset, Ops, Steps

LEMMA EndType ==
    ASSUME LocalOK, NEW p \in Proc, End(p)
    PROVE  LocalOK'
  <1>1. cand' \in [Proc -> SUBSET User]
    BY Zenon DEF LocalOK, End
  <1>2. QED
    BY Zenon, <1>1, ResetType DEF End

LEMMA DropType ==
    ASSUME LocalOK, NEW p, NEW u \in User, DropRow(p, u)
    PROVE  LocalOK'
  <1>1. cand' \in [Proc -> SUBSET User]
    BY Zenon DEF LocalOK, DropRow
  <1>2. QED
    BY Zenon, <1>1, ResetType DEF DropRow

LEMMA GoType ==
    ASSUME LocalOK, NEW p \in Proc, NEW next \in Steps, Go(p, next), UNCHANGED <<op, tgt, want, cand>>,
           lock' \in Proc \cup {None}
    PROVE  LocalOK'
  BY Zenon DEF LocalOK, Go

LEMMA BeginType ==
    ASSUME LocalOK, NEW p \in Proc, NEW what \in Ops, NEW next \in Steps, NEW u \in User \cup {None},
           Begin(p, what, next, u), want' \in [Proc -> Live \cup {"none"}],
           cand' \in [Proc -> SUBSET User], lock' \in Proc \cup {None}
    PROVE  LocalOK'
  BY Zenon DEF LocalOK, Begin, Go

LEMMA NoteType ==
    ASSUME NEW kind \in {"owner", "seat", "key"}, NEW outdated, Note(kind, outdated),
           stale \in SUBSET {"owner", "seat", "key"}
    PROVE  stale' \in SUBSET {"owner", "seat", "key"}
  BY Zenon DEF Note

LEMMA RequestType ==
    ASSUME TypeOK, NEW p \in Proc, Request(p)
    PROVE  TypeOK'
  <1>0. TablesOK /\ LocalOK
    BY Zenon, TypeParts
  <1>1. TablesOK'
    BY Zenon, <1>0, RequestOpens DEF Opens, TablesOK, tables
  <1>2. ASSUME NEW u \in User, CreateCheck(p, u) PROVE LocalOK'
    BY Zenon, <1>0, <1>2, BeginType DEF CreateCheck, Ops, Steps, LocalOK
  <1>3. ASSUME NEW u \in User, RemoveRead(p, u) PROVE LocalOK'
    BY Zenon, <1>0, <1>3, BeginType DEF RemoveRead, Ops, Steps, LocalOK
  <1>4. ASSUME NEW u \in User, TransferRead(p, u) PROVE LocalOK'
    BY Zenon, <1>0, <1>4, BeginType DEF TransferRead, Ops, Steps, LocalOK
  <1>5. ASSUME NEW u \in User, KeyCheck(p, u) PROVE LocalOK'
    BY Zenon, <1>0, <1>5, BeginType DEF KeyCheck, Ops, Steps, LocalOK
  <1>6. ASSUME NEW u \in User, NEW s \in Live, UpdateRead(p, u, s) PROVE LocalOK'
    <2>1. want' \in [Proc -> Live \cup {"none"}]
      BY Zenon, <1>0, <1>6 DEF UpdateRead, LocalOK
    <2>2. QED
      BY <1>0, <1>6, <2>1, BeginType DEF UpdateRead, Ops, Steps, LocalOK
  <1>7. ASSUME NEW n \in Plans, SuspendRead(p, n) PROVE LocalOK'
    <2>1. cand' \in [Proc -> SUBSET User]
      BY Zenon, <1>0, <1>7 DEF SuspendRead, LocalOK, Candidates
    <2>2. QED
      BY Zenon, <1>0, <1>7, <2>1, BeginType DEF SuspendRead, Ops, Steps, LocalOK
  <1>8. QED
    BY Zenon, <1>1, <1>2, <1>3, <1>4, <1>5, <1>6, <1>7, TypeParts DEF Request, TypeOK, TablesOK, LocalOK

LEMMA StepTables ==
    ASSUME TypeOK, Requests, NEW p \in Proc, Step(p)
    PROVE  TablesOK'
  <1>0. RequestOk(p) /\ TablesOK
    BY Zenon, TypeParts DEF Requests
  <1>1. CASE CreateCommit(p)
    BY Zenon, <1>0, <1>1 DEF CreateCommit, TablesOK, Live
  <1>2. CASE UpdateSeat(p)
    BY Zenon, <1>0, <1>2 DEF UpdateSeat, TablesOK, tables
  <1>3. CASE UpdateWrite(p)
    <2>1. tgt[p] \in User /\ want[p] \in Live
      BY Zenon, <1>0, <1>3 DEF UpdateWrite, At, RequestOk
    <2>2. st' \in [User -> Live \cup {"none"}] /\ joined' \in [User -> BOOLEAN]
      BY Zenon, <1>0, <1>3, <2>1 DEF UpdateWrite, TablesOK
    <2>3. stale' \in SUBSET {"owner", "seat", "key"}
      BY Zenon, <1>0, <1>3 DEF UpdateWrite, TablesOK
    <2>4. QED
      BY Zenon, <1>0, <1>3, <2>2, <2>3 DEF UpdateWrite, TablesOK
  <1>4. CASE RemoveRow(p)
    BY Zenon, <1>0, <1>4, NoteType DEF RemoveRow, TablesOK, tables
  <1>5. CASE RemoveCommit(p)
    BY Zenon, <1>0, <1>5 DEF RemoveCommit, DropRow, TablesOK
  <1>6. CASE TransferRow(p)
    BY Zenon, <1>0, <1>6, NoteType DEF TransferRow, TablesOK, tables
  <1>7. CASE TransferCommit(p)
    BY Zenon, <1>0, <1>7, NoteType DEF TransferCommit, TablesOK, At, RequestOk
  <1>8. CASE SuspendWrite(p)
    <2>1. st' \in [User -> Live \cup {"none"}]
      BY Zenon, <1>0, <1>8 DEF SuspendWrite, TablesOK, Live
    <2>2. QED
      BY Zenon, <1>0, <1>8, <2>1, NoteType DEF SuspendWrite, TablesOK
  <1>9. CASE KeyInsert(p)
    BY Zenon, <1>0, <1>9, NoteType DEF KeyInsert, TablesOK, At, RequestOk
  <1>10. QED
    BY Zenon, <1>1, <1>2, <1>3, <1>4, <1>5, <1>6, <1>7, <1>8, <1>9 DEF Step

LEMMA StepLocal ==
    ASSUME TypeOK, Requests, NEW p \in Proc, Step(p)
    PROVE  LocalOK'
  <1>0. RequestOk(p) /\ LocalOK
    BY Zenon, TypeParts DEF Requests
  <1>1. CASE End(p)
    BY Zenon, <1>0, <1>1, EndType
  <1>2. CASE UpdateSeat(p)
    BY Zenon, <1>0, <1>1, <1>2, GoType DEF UpdateSeat, Steps
  <1>3. CASE RemoveRow(p)
    <2>1. lock \in Proc \cup {None}
      BY Zenon, <1>0 DEF LocalOK
    <2>2. QED
      BY Zenon, <1>0, <1>1, <1>3, <2>1, GoType DEF RemoveRow, Steps
  <1>4. CASE TransferRow(p)
    <2>1. lock \in Proc \cup {None}
      BY Zenon, <1>0 DEF LocalOK
    <2>2. QED
      BY Zenon, <1>0, <1>1, <1>4, <2>1, GoType DEF TransferRow, Steps
  <1>5. CASE RemoveCommit(p)
    BY Zenon, <1>0, <1>5, DropType DEF RemoveCommit, At, RequestOk
  <1>6. QED
    BY Zenon, <1>1, <1>2, <1>3, <1>4, <1>5
       DEF Step, CreateCommit, UpdateWrite, TransferCommit, SuspendWrite, KeyInsert

LEMMA NextType ==
    ASSUME TypeOK, Requests, Next
    PROVE  TypeOK'
  <1>0. TablesOK /\ LocalOK
    BY Zenon, TypeParts
  <1>1. ASSUME NEW p \in Proc, Request(p) PROVE TypeOK'
    BY Zenon, <1>1, RequestType
  <1>2. ASSUME NEW p \in Proc, Step(p) PROVE TypeOK'
    BY Zenon, <1>2, StepTables, StepLocal DEF TypeOK, TablesOK, LocalOK
  <1>3. ASSUME NEW p \in Proc, Crash(p) PROVE TypeOK'
    <2>1. LocalOK'
      BY Zenon, <1>0, <1>3, EndType DEF Crash
    <2>2. TablesOK'
      BY Zenon, <1>0, <1>3 DEF Crash, TablesOK, tables
    <2>3. QED
      BY Zenon, <2>1, <2>2 DEF TypeOK, TablesOK, LocalOK
  <1>4. ASSUME NEW u \in User, Accept(u) PROVE TypeOK'
    BY Zenon, <1>4 DEF Accept, TypeOK, Live, local
  <1>5. ASSUME NEW u \in User, RevokeInvitation(u) PROVE TypeOK'
    <2>1. LocalOK'
      <3>1. CASE DropRow(None, u)
        BY Zenon, <1>0, <3>1, DropType
      <3>2. CASE UNCHANGED <<st, joined, lock, local>>
        BY Zenon, <1>0, <3>2 DEF LocalOK, local
      <3>3. QED
        BY Zenon, <1>5, <3>1, <3>2 DEF RevokeInvitation
    <2>2. TablesOK'
      BY Zenon, <1>0, <1>5 DEF RevokeInvitation, DropRow, TablesOK
    <2>3. QED
      BY Zenon, <2>1, <2>2 DEF TypeOK, TablesOK, LocalOK
  <1>6. ASSUME NEW u \in User, KeyDelete(u) PROVE TypeOK'
    BY Zenon, <1>6 DEF KeyDelete, TypeOK, local
  <1>7. ASSUME NEW n \in Ceilings, CeilingChange(n) PROVE TypeOK'
    BY Zenon, <1>7 DEF CeilingChange, TypeOK, local, tables
  <1>8. QED
    BY Zenon, <1>1, <1>2, <1>3, <1>4, <1>5, <1>6, <1>7 DEF Next

-----------------------------------------------------------------------------
(* Facts about cardinality, for the seats. *)
INSTANCE FiniteSetTheorems

-----------------------------------------------------------------------------
(* Seats.                                                                  *)

Consumers == {u \in User : Consumes(st[u])}

LEMMA UsedIsNat == Used \in Nat /\ Used' \in Nat
  <1>1. IsFiniteSet(Consumers) /\ IsFiniteSet(Consumers')
    BY Zenon, UsersAssumption, FS_Subset DEF Consumers
  <1>2. Cardinality(Consumers) \in Nat /\ Cardinality(Consumers') \in Nat
    BY Zenon, <1>1, FS_CardinalityType
  <1>3. QED
    BY Zenon, <1>2 DEF Used, Consumers

LEMMA UsedDrops ==
    ASSUME \A u \in User : Consumes(st[u])' => Consumes(st[u])
    PROVE  Used' <= Used /\ Used \in Nat /\ Used' \in Nat
  <1>1. IsFiniteSet(Consumers)
    BY Zenon, UsersAssumption, FS_Subset DEF Consumers
  <1>2. Consumers' \subseteq Consumers
    BY Zenon DEF Consumers
  <1>3. /\ IsFiniteSet(Consumers') /\ Cardinality(Consumers') <= Cardinality(Consumers)
        /\ Cardinality(Consumers) \in Nat /\ Cardinality(Consumers') \in Nat
    BY Zenon, <1>1, <1>2, FS_Subset, FS_CardinalityType
  <1>4. QED
    BY Zenon, <1>3 DEF Used, Consumers

LEMMA UsedAddsOne ==
    ASSUME NEW x \in User, \A u \in User \ {x} : Consumes(st[u])' => Consumes(st[u])
    PROVE  Used' <= Used + 1 /\ Used \in Nat /\ Used' \in Nat
  <1>1. IsFiniteSet(Consumers)
    BY Zenon, UsersAssumption, FS_Subset DEF Consumers
  <1>2. Consumers' \subseteq Consumers \cup {x}
    BY Zenon DEF Consumers
  <1>3. /\ IsFiniteSet(Consumers \cup {x}) /\ Cardinality(Consumers) \in Nat
        /\ Cardinality(Consumers \cup {x}) <= Cardinality(Consumers) + 1
    BY <1>1, FS_AddElement, FS_CardinalityType
  <1>4. /\ Cardinality(Consumers') <= Cardinality(Consumers \cup {x})
        /\ Cardinality(Consumers') \in Nat /\ Cardinality(Consumers \cup {x}) \in Nat
    BY Zenon, <1>2, <1>3, FS_Subset, FS_CardinalityType
  <1>5. QED
    BY <1>3, <1>4 DEF Used, Consumers

\* The lock is handed over by nobody, and nobody takes a seat unasked.
LEMMA SeatsStay ==
    ASSUME TypeOK, Seats, \A q \in Proc : Over(q) \/ Stays(q),
           lock' \in {lock, None}, UNCHANGED ceiling, stale \subseteq stale',
           lock' # None /\ "seat" \notin stale' => Used' <= Used
    PROVE  Seats'
  <1>1. ASSUME NEW q \in Proc, At(q, "create", "commit")' PROVE lock' = q
    BY Zenon, <1>1 DEF At, Over, Ended, Stays, Kept, Seats
  <1>2. ASSUME lock' # None PROVE At(lock, "create", "commit")' \/ At(lock, "update", "write")'
    <2>1. lock' = lock /\ lock \in Proc
      BY Zenon, <1>2 DEF TypeOK
    <2>2. Kept(lock)
      BY Zenon, <1>2, <2>1 DEF Over, Stays
    <2>3. QED
      BY Zenon, <1>2, <2>1, <2>2 DEF Seats, At, Kept
  <1>3. ASSUME lock' # None, "seat" \notin stale' PROVE Used' < ceiling'
    <2>1. Used < ceiling /\ Used' <= Used
      BY Zenon, <1>3 DEF Seats
    <2>2. Used \in Nat /\ Used' \in Nat /\ ceiling \in Nat
      BY Zenon, UsedIsNat, CeilingsAssumption DEF TypeOK
    <2>3. QED
      BY <2>1, <2>2
  <1>4. QED
    BY Zenon, <1>1, <1>2, <1>3 DEF Seats

\* One request moves on without the lock.
LEMMA SeatsOther ==
    ASSUME TypeOK, Seats, NEW p \in Proc, \A q \in Proc \ {p} : Kept(q), lock # p,
           ~At(p, "create", "commit")', UNCHANGED <<lock, ceiling, st>>, stale \subseteq stale'
    PROVE  Seats'
  <1>1. ASSUME NEW q \in Proc, At(q, "create", "commit")' PROVE lock' = q
    BY Zenon, <1>1 DEF At, Kept, Seats
  <1>2. ASSUME lock' # None PROVE At(lock, "create", "commit")' \/ At(lock, "update", "write")'
    <2>1. lock' = lock /\ lock \in Proc \ {p}
      BY Zenon, <1>2 DEF TypeOK
    <2>2. QED
      BY Zenon, <1>2, <2>1 DEF Seats, At, Kept
  <1>3. lock' # None /\ "seat" \notin stale' => Used' < ceiling'
    BY Zenon DEF Seats, Used
  <1>4. QED
    BY Zenon, <1>1, <1>2, <1>3 DEF Seats

\* The lock is free, a seat is, and p takes both.
LEMMA SeatsTaken ==
    ASSUME TypeOK, Seats, NEW p \in Proc, \A q \in Proc \ {p} : Kept(q), lock = None, lock' = p,
           SeatFree, At(p, "create", "commit")' \/ At(p, "update", "write")', UNCHANGED <<ceiling, st>>
    PROVE  Seats'
  <1>1. ASSUME NEW q \in Proc, At(q, "create", "commit")' PROVE lock' = q
    BY Zenon, <1>1, UsersAssumption DEF At, Kept, Seats
  <1>2. Used' < ceiling'
    BY Zenon DEF SeatFree, Used
  <1>3. QED
    BY Zenon, <1>1, <1>2 DEF Seats, At

LEMMA RequestSeats ==
    ASSUME TypeOK, Seats, NEW p \in Proc, Request(p)
    PROVE  Seats'
  <1>1. pc[p] = "idle" /\ (\A q \in Proc \ {p} : Kept(q)) /\ UNCHANGED <<st, ceiling, stale>>
    BY Zenon, RequestOpens DEF Opens, tables
  <1>2. lock # p
    BY Zenon, <1>1, UsersAssumption DEF Seats, At
  <1>3. ASSUME NEW u \in User, CreateCheck(p, u) PROVE Seats'
    <2>1. At(p, "create", "commit")'
      BY Zenon, <1>3 DEF CreateCheck, Begin, Go, At, TypeOK
    <2>2. QED
      BY Zenon, <1>1, <1>3, <2>1, SeatsTaken DEF CreateCheck
  <1>4. ASSUME NEW u \in User, RemoveRead(p, u) PROVE Seats'
    <2>1. lock' = lock /\ ~At(p, "create", "commit")'
      BY Zenon, <1>4 DEF RemoveRead, Begin, Go, At, TypeOK
    <2>2. QED
      BY Zenon, <1>1, <1>2, <2>1, SeatsOther
  <1>5. ASSUME NEW u \in User, TransferRead(p, u) PROVE Seats'
    <2>1. lock' = lock /\ ~At(p, "create", "commit")'
      BY Zenon, <1>5 DEF TransferRead, Begin, Go, At, TypeOK
    <2>2. QED
      BY Zenon, <1>1, <1>2, <2>1, SeatsOther
  <1>6. ASSUME NEW u \in User, KeyCheck(p, u) PROVE Seats'
    <2>1. lock' = lock /\ ~At(p, "create", "commit")'
      BY Zenon, <1>6 DEF KeyCheck, Begin, Go, At, TypeOK
    <2>2. QED
      BY Zenon, <1>1, <1>2, <2>1, SeatsOther
  <1>7. ASSUME NEW u \in User, NEW s \in Live, UpdateRead(p, u, s) PROVE Seats'
    <2>1. lock' = lock /\ ~At(p, "create", "commit")'
      BY Zenon, <1>7 DEF UpdateRead, Begin, Go, At, TypeOK
    <2>2. QED
      BY Zenon, <1>1, <1>2, <2>1, SeatsOther
  <1>8. ASSUME NEW n \in Plans, SuspendRead(p, n) PROVE Seats'
    <2>1. lock' = lock /\ ~At(p, "create", "commit")'
      BY Zenon, <1>8 DEF SuspendRead, Begin, Go, At, TypeOK
    <2>2. QED
      BY Zenon, <1>1, <1>2, <2>1, SeatsOther
  <1>9. QED
    BY Zenon, <1>3, <1>4, <1>5, <1>6, <1>7, <1>8 DEF Request

LEMMA EndSeats ==
    ASSUME TypeOK, Seats, NEW p \in Proc, End(p), UNCHANGED ceiling, stale \subseteq stale',
           lock' # None /\ "seat" \notin stale' => Used' <= Used
    PROVE  Seats'
  BY Zenon, EndEffect, SeatsStay

\* The one step in which a row may begin to take a seat, other than Accept,
\* whose row takes one already.
LEMMA SeatTakers ==
    ASSUME TypeOK, Requests, NEW p \in Proc, CreateCommit(p) \/ UpdateWrite(p)
    PROVE  /\ Used' <= Used + 1 /\ Used \in Nat /\ Used' \in Nat
           /\ UpdateWrite(p) /\ lock # p /\ "seat" \notin stale' => Used' <= Used
  <1>0. RequestOk(p)
    BY Zenon DEF Requests
  <1>1. tgt[p] \in User
    BY Zenon, <1>0 DEF CreateCommit, UpdateWrite, At, RequestOk
  <1>2. \A u \in User \ {tgt[p]} : st'[u] = st[u]
    BY <1>1 DEF CreateCommit, UpdateWrite, TypeOK
  <1>3. Used' <= Used + 1 /\ Used \in Nat /\ Used' \in Nat
    BY Zenon, <1>1, <1>2, UsedAddsOne DEF Consumes
  <1>4. ASSUME UpdateWrite(p), lock # p, "seat" \notin stale' PROVE Used' <= Used
    <2>1. Consumes(want[p]) => Consumes(st[tgt[p]])
      BY Zenon, <1>4 DEF UpdateWrite
    <2>2. st'[tgt[p]] = want[p]
      BY Zenon, <1>1, <1>4 DEF UpdateWrite, TypeOK
    <2>3. \A u \in User : Consumes(st[u])' => Consumes(st[u])
      BY Zenon, <1>2, <2>1, <2>2 DEF Consumes
    <2>4. QED
      BY Zenon, <2>3, UsedDrops
  <1>5. QED
    BY Zenon, <1>3, <1>4

LEMMA StepSeats ==
    ASSUME TypeOK, Requests, Seats, NEW p \in Proc, Step(p)
    PROVE  Seats'
  <1>0. st' = st => Used' <= Used
    BY Zenon, UsedDrops DEF Consumes
  <1>1. CASE CreateCommit(p)
    <2>1. lock = p /\ End(p) /\ UNCHANGED <<ceiling, stale>>
      BY Zenon, <1>1 DEF CreateCommit, Seats
    <2>2. lock' = None
      BY Zenon, <2>1, EndEffect DEF Over
    <2>3. QED
      BY Zenon, <2>1, <2>2, EndSeats
  <1>2. CASE UpdateSeat(p)
    <2>1. lock = None /\ UNCHANGED <<ceiling, stale, st>> /\ At(p, "update", "seat")
      BY Zenon, <1>2 DEF UpdateSeat, tables
    <2>2. CASE SeatFree /\ lock' = p /\ Go(p, "write") /\ UNCHANGED <<op, tgt, want, cand>>
      <3>1. (\A q \in Proc \ {p} : Kept(q)) /\ pc'[p] = "write"
        BY Zenon, <2>2, GoKeeps
      <3>2. QED
        BY Zenon, <2>1, <2>2, <3>1, SeatsTaken DEF At
    <2>3. CASE End(p)
      BY Zenon, <1>0, <2>1, <2>3, EndSeats
    <2>4. QED
      BY Zenon, <1>2, <2>2, <2>3 DEF UpdateSeat
  <1>3. CASE UpdateWrite(p)
    <2>1. End(p) /\ UNCHANGED ceiling /\ stale \subseteq stale'
      BY Zenon, <1>3 DEF UpdateWrite
    <2>2. lock = p => lock' = None
      BY Zenon, <2>1, EndEffect DEF Over
    <2>3. lock # p /\ "seat" \notin stale' => Used' <= Used
      BY Zenon, <1>3, SeatTakers
    <2>4. QED
      BY Zenon, <2>1, <2>2, <2>3, EndSeats
  <1>4. CASE RemoveRow(p)
    <2>1. UNCHANGED <<ceiling, st>> /\ stale \subseteq stale' /\ op[p] = "remove"
      BY Zenon, <1>4, NoteGrows DEF RemoveRow, tables, At
    <2>2. CASE End(p)
      BY Zenon, <1>0, <2>1, <2>2, EndSeats
    <2>3. CASE Go(p, "commit") /\ UNCHANGED <<lock, op, tgt, want, cand>>
      <3>1. lock # p /\ ~At(p, "create", "commit")'
        BY Zenon, <2>1, <2>3, UsersAssumption DEF Seats, At
      <3>2. QED
        BY Zenon, <2>1, <2>3, <3>1, GoKeeps, SeatsOther
    <2>4. QED
      BY Zenon, <1>4, <2>2, <2>3 DEF RemoveRow
  <1>5. CASE RemoveCommit(p)
    <2>1. tgt[p] \in User
      BY Zenon, <1>5 DEF RemoveCommit, At, Requests, RequestOk
    <2>2. DropRow(p, tgt[p]) /\ UNCHANGED <<ceiling, stale>>
      BY Zenon, <1>5 DEF RemoveCommit
    <2>3. Used' <= Used
      <3>1. \A u \in User : Consumes(st[u])' => Consumes(st[u])
        BY Zenon, <2>1, <2>2 DEF DropRow, Consumes, TypeOK
      <3>2. QED
        BY Zenon, <3>1, UsedDrops
    <2>4. QED
      BY Zenon, <2>1, <2>2, <2>3, DropEffect, SeatsStay
  <1>6. CASE TransferRow(p)
    <2>1. UNCHANGED <<ceiling, st>> /\ stale \subseteq stale' /\ op[p] = "transfer"
      BY Zenon, <1>6, NoteGrows DEF TransferRow, tables, At
    <2>2. CASE End(p)
      BY Zenon, <1>0, <2>1, <2>2, EndSeats
    <2>3. CASE Go(p, "commit") /\ UNCHANGED <<lock, op, tgt, want, cand>>
      <3>1. lock # p /\ ~At(p, "create", "commit")'
        BY Zenon, <2>1, <2>3, UsersAssumption DEF Seats, At
      <3>2. QED
        BY Zenon, <2>1, <2>3, <3>1, GoKeeps, SeatsOther
    <2>4. QED
      BY Zenon, <1>6, <2>2, <2>3 DEF TransferRow
  <1>7. CASE TransferCommit(p)
    BY Zenon, <1>0, <1>7, EndSeats, NoteGrows DEF TransferCommit
  <1>8. CASE SuspendWrite(p)
    <2>1. End(p) /\ UNCHANGED ceiling /\ stale \subseteq stale'
      BY Zenon, <1>8, NoteGrows DEF SuspendWrite
    <2>2. Used' <= Used
      <3>1. \A u \in User : Consumes(st[u])' => Consumes(st[u])
        BY Zenon, <1>8 DEF SuspendWrite, Consumes
      <3>2. QED
        BY Zenon, <3>1, UsedDrops
    <2>3. QED
      BY Zenon, <2>1, <2>2, EndSeats
  <1>9. CASE KeyInsert(p)
    BY Zenon, <1>0, <1>9, NoteGrows, EndSeats DEF KeyInsert
  <1>10. QED
    BY Zenon, <1>1, <1>2, <1>3, <1>4, <1>5, <1>6, <1>7, <1>8, <1>9 DEF Step

LEMMA NextSeats ==
    ASSUME TypeOK, Requests, Seats, Next
    PROVE  Seats'
  <1>0. st' = st => Used' <= Used
    BY Zenon, UsedDrops DEF Consumes
  <1>1. ASSUME NEW p \in Proc, Request(p) PROVE Seats'
    BY Zenon, <1>1, RequestSeats
  <1>2. ASSUME NEW p \in Proc, Step(p) PROVE Seats'
    BY Zenon, <1>2, StepSeats
  <1>3. ASSUME NEW p \in Proc, Crash(p) PROVE Seats'
    BY Zenon, <1>0, <1>3, EndSeats DEF Crash, tables
  <1>4. ASSUME NEW u \in User, Accept(u) PROVE Seats'
    <2>1. \A v \in User : Consumes(st[v])' => Consumes(st[v])
      BY Zenon, <1>4 DEF Accept, Consumes, TypeOK
    <2>2. Used' <= Used
      BY Zenon, <2>1, UsedDrops
    <2>3. \A q \in Proc : Stays(q)
      BY Zenon, <1>4, LocalKept DEF Accept, Stays
    <2>4. QED
      BY Zenon, <1>4, <2>2, <2>3, SeatsStay DEF Accept
  <1>5. ASSUME NEW u \in User, RevokeInvitation(u) PROVE Seats'
    <2>1. UNCHANGED <<ceiling, stale>>
      BY Zenon, <1>5 DEF RevokeInvitation
    <2>2. CASE DropRow(None, u)
      <3>1. \A v \in User : Consumes(st[v])' => Consumes(st[v])
        BY Zenon, <2>2 DEF DropRow, Consumes, TypeOK
      <3>2. Used' <= Used
        BY Zenon, <3>1, UsedDrops
      <3>3. QED
        BY Zenon, <2>1, <2>2, <3>2, DropEffect, SeatsStay
    <2>3. CASE UNCHANGED <<st, joined, lock, local>>
      BY Zenon, <2>1, <2>3 DEF Seats, At, Used, local
    <2>4. QED
      BY Zenon, <1>5, <2>2, <2>3 DEF RevokeInvitation
  <1>6. ASSUME NEW u \in User, KeyDelete(u) PROVE Seats'
    BY Zenon, <1>6 DEF KeyDelete, Seats, At, Used, local
  <1>7. ASSUME NEW n \in Ceilings, CeilingChange(n) PROVE Seats'
    BY Zenon, <1>7 DEF CeilingChange, Seats, At, local
  <1>8. QED
    BY Zenon, <1>1, <1>2, <1>3, <1>4, <1>5, <1>6, <1>7 DEF Next

-----------------------------------------------------------------------------
(* The theorems.                                                           *)

LEMMA InitIInv == Init => IInv
  <1> SUFFICES ASSUME Init PROVE IInv
    OBVIOUS
  <1>1. TypeOK
    BY Zenon, FounderAssumption DEF Init, TypeOK, Live, Ops, Steps
  <1>2. Requests
    BY Zenon DEF Init, Requests, RequestOk
  <1>3. Invites
    BY Zenon DEF Init, Invites, InviteOk
  <1>4. KeysJoined
    BY Zenon DEF Init, KeysJoined
  <1>5. Owners
    BY Zenon, FounderAssumption DEF Init, Owners, At
  <1>6. Seats
    BY Zenon DEF Init, Seats, At
  <1>7. Spared
    BY Zenon DEF Init, Spared, Demotes
  <1>8. QED
    BY Zenon, <1>1, <1>2, <1>3, <1>4, <1>5, <1>6, <1>7 DEF IInv

LEMMA NextIInv == IInv /\ [Next]_vars => IInv'
  <1>1. ASSUME IInv, Next PROVE IInv'
    BY Zenon, <1>1, NextType, NextRequests, NextInvites, NextKeys, NextOwners, NextSpared, NextSeats DEF IInv
  <1>2. ASSUME IInv, UNCHANGED vars PROVE IInv'
    <2>1. UNCHANGED <<tables, ceiling, lock, local, stale>>
      BY Zenon, <1>2 DEF vars
    <2>2. TypeOK' /\ Requests' /\ Invites' /\ KeysJoined'
      BY Zenon, <1>2, <2>1 DEF IInv, TypeOK, Requests, RequestOk, Invites, InviteOk, KeysJoined, tables, local
    <2>3. Owners'
      BY Zenon, <1>2, <2>1 DEF IInv, Owners, At, TransferOpen, tables, local
    <2>4. Seats'
      BY Zenon, <1>2, <2>1 DEF IInv, Seats, At, Used, tables, local
    <2>5. Spared'
      BY Zenon, <1>2, <2>1 DEF IInv, Spared, Demotes, tables, local
    <2>6. QED
      BY Zenon, <2>2, <2>3, <2>4, <2>5 DEF IInv
  <1>3. QED
    BY Zenon, <1>1, <1>2

\* The strengthening holds in every state the organization can be in.
THEOREM Inductive == Spec => []IInv
  BY InitIInv, NextIInv, PTL DEF Spec

\* MembershipService.delete, leaveOrganization, update and
\* suspendExcessActiveMembers spare the owner, and transferOwnership takes an
\* active member only: the owner is active, for any number of users and
\* concurrent requests, unless a transfer crossed a suspension or a removal
\* that had read the owner, or looked for the row, before it.
THEOREM OwnerStaysActive == Spec => []OwnerActive
  <1>1. IInv => OwnerActive
    BY Zenon DEF IInv, Owners, OwnerActive
  <1>2. QED
    BY <1>1, Inductive, PTL

\* revokeApiKeysForDepartedMember: no key outlives the membership of its
\* creator, unless its creation crossed the departure.
THEOREM KeysDieWithMembers == Spec => []KeysOfMembers
  <1>1. IInv => KeysOfMembers
    BY Zenon DEF IInv, TypeOK, KeysJoined, Invites, InviteOk, KeysOfMembers
  <1>2. QED
    BY <1>1, Inductive, PTL

\* createInvitation, accept, revoke and the membership updates keep the
\* membership and its invitation consistent for every user.
THEOREM InvitationsMatch == Spec => []InvitationMatches
  <1>1. IInv => InvitationMatches
    BY Zenon DEF IInv, TypeOK, Invites, InviteOk, InvitationMatches
  <1>2. QED
    BY <1>1, Inductive, PTL

LEMMA AddFits ==
    ASSUME IInv, Next, Used' > Used, "seat" \notin stale'
    PROVE  Used' <= ceiling
  <1>0. TypeOK /\ Requests /\ Seats /\ Used \in Nat /\ Used' \in Nat /\ ceiling \in Nat
    BY Zenon, UsedIsNat, CeilingsAssumption DEF IInv, TypeOK
  <1>1. ~(\A u \in User : Consumes(st[u])' => Consumes(st[u]))
    BY <1>0, UsedDrops
  <1>2. ASSUME NEW p \in Proc, Request(p) PROVE FALSE
    BY Zenon, <1>0, <1>1, <1>2, RequestOpens DEF Opens, tables
  <1>3. ASSUME NEW p \in Proc, CreateCommit(p) PROVE Used' <= ceiling
    <2>1. lock = p /\ stale' = stale
      BY Zenon, <1>0, <1>3 DEF Seats, CreateCommit
    <2>2. Used < ceiling
      BY Zenon, <1>0, <2>1, UsersAssumption DEF Seats
    <2>3. QED
      BY <1>0, <1>3, <2>2, SeatTakers
  <1>4. ASSUME NEW p \in Proc, UpdateWrite(p) PROVE Used' <= ceiling
    <2>1. lock = p
      BY <1>0, <1>4, SeatTakers
    <2>2. "seat" \notin stale
      BY Zenon, <1>4 DEF UpdateWrite
    <2>3. Used < ceiling
      BY Zenon, <1>0, <2>1, <2>2, UsersAssumption DEF Seats
    <2>4. QED
      BY <1>0, <1>4, <2>3, SeatTakers
  <1>5. ASSUME NEW p \in Proc, RemoveCommit(p) PROVE FALSE
    BY Zenon, <1>0, <1>1, <1>5 DEF RemoveCommit, DropRow, Consumes, TypeOK
  <1>6. ASSUME NEW p \in Proc, SuspendWrite(p) PROVE FALSE
    BY Zenon, <1>0, <1>1, <1>6 DEF SuspendWrite, Consumes, TypeOK
  <1>7. ASSUME NEW p \in Proc, UpdateSeat(p) \/ RemoveRow(p) \/ TransferRow(p) \/ Crash(p) PROVE FALSE
    BY Zenon, <1>1, <1>7 DEF UpdateSeat, RemoveRow, TransferRow, Crash, tables
  <1>8. ASSUME NEW p \in Proc, TransferCommit(p) \/ KeyInsert(p) PROVE FALSE
    BY Zenon, <1>1, <1>8 DEF TransferCommit, KeyInsert
  <1>9. ASSUME NEW u \in User, Accept(u) PROVE FALSE
    BY Zenon, <1>0, <1>1, <1>9 DEF Accept, Consumes, TypeOK
  <1>10. ASSUME NEW u \in User, RevokeInvitation(u) PROVE FALSE
    BY Zenon, <1>0, <1>1, <1>10 DEF RevokeInvitation, DropRow, Consumes, TypeOK
  <1>11. ASSUME NEW u \in User, KeyDelete(u) PROVE FALSE
    BY Zenon, <1>1, <1>11 DEF KeyDelete
  <1>12. ASSUME NEW n \in Ceilings, CeilingChange(n) PROVE FALSE
    BY Zenon, <1>1, <1>12 DEF CeilingChange, tables
  <1>13. QED
    BY Zenon, <1>2, <1>3, <1>4, <1>5, <1>6, <1>7, <1>8, <1>9, <1>10, <1>11, <1>12 DEF Next, Step

\* assertSeatAvailableForMemberAdd under the advisory lock: no step that adds
\* a member takes the organization over its ceiling, for any ceilings billing
\* may decide on and any plans.
THEOREM AddsFit == Spec => AddsFitCeiling
  <1>1. IInv /\ [Next]_vars => [Used' > Used /\ "seat" \notin stale' => Used' <= ceiling]_vars
    BY Zenon, AddFits
  <1>2. QED
    BY <1>1, Inductive, PTL DEF Spec, AddsFitCeiling

=============================================================================
