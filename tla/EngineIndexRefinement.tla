----------------------- MODULE EngineIndexRefinement -----------------------
(***************************************************************************)
(* Proof that the engine with one caller, no failed datastore operation    *)
(* and no crash implements the index map IndexMap under the mapping        *)
(* IndexOf (Engine's ImplementsIndexMap): each NotifyPut and NotifyRemove  *)
(* changes the index at exactly one datastore write.  MC_FaultIndex's      *)
(* setting (a failure between the writes) and two callers on one key      *)
(* break it.                                                               *)
(***************************************************************************)
EXTENDS EngineIndexProofs

(* What a call remembers of the path it took in publishAdvForIndex: a put  *)
(* that chunks found no keyToCid row (c == cid.Undef) and holds its key's  *)
(* chain, and a put that reuses the row found metadata that differs from   *)
(* the one it writes (else AlreadyAdvertised).                             *)
PathInv(c) ==
    /\ pc[c] \in {"chunk", "putFwd", "putRev"} => existing[c] = None
    /\ pc[c] = "putFwd" => cidsLnk[c] = Chunk(Lister[ctxKey[c]])
    /\ pc[c] = "putMd" /\ existing[c] # None
           => mdRow[ctxKey[c]] \notin {None, callMd[c]}

(* The invariant the refinement rests on.                                  *)
XInv == IInv /\ PInv /\ FwdChains /\ \A c \in Callers : PathInv(c)

USE ConstantsAssumption

(* A step that changes neither the rows nor the caller's step and locals   *)
(* keeps FwdChains and PathInv.                                            *)
LEMMA PathUnchanged ==
    ASSUME NEW c0, FwdChains, PathInv(c0), fwd' = fwd, mdRow' = mdRow,
           pc' = pc, ctxKey' = ctxKey, callMd' = callMd,
           existing' = existing, cidsLnk' = cidsLnk
    PROVE  FwdChains' /\ PathInv(c0)'
BY DEF FwdChains, PathInv

(* Every step keeps FwdChains and PathInv, under the hypotheses of the    *)
(* index theorems.                                                         *)
LEMMA NextPath ==
    ASSUME NEW c0, Callers = {c0}, MaxFaults = 0, MaxCrashes = 0, IInv, PInv,
           FwdChains, PathInv(c0), [Next]_vars
    PROVE  FwdChains' /\ PathInv(c0)'
<1>0. /\ pc \in [Callers -> Steps]
      /\ ctxKey \in [Callers -> Keys] /\ fwd \in [Keys -> EntriesCids \cup {None}]
      /\ mdRow \in [Keys -> AllMetadata \cup {None}]
      /\ existing \in [Callers -> EntriesCids \cup {None}]
      /\ ~(faults < MaxFaults) /\ ~(crashes < MaxCrashes)
    BY DEF IInv, TypeOK
<1> DEFINE k0 == ctxKey[c0]
<1>1. CASE Start \/ RegisterMultihashLister \/ UNCHANGED vars
    BY <1>1, PathUnchanged DEF Start, RegisterMultihashLister, vars,
       indexVars, localVars
<1>2. CASE Crash \/ DatastoreFail(c0)
    BY <1>0, <1>2 DEF Crash, DatastoreFail
<1>3. CASE \/ PublishLatest(c0) \/ GetLatest(c0) \/ Store(c0) \/ PutLatest(c0)
           \/ Announce(c0) \/ PublishLatestUpdate(c0) \/ PublishLatestPanic(c0)
           \/ PutCidKey(c0) \/ DeleteCidKey(c0)
    <2>1. fwd' = fwd /\ mdRow' = mdRow
        BY <1>3 DEF PublishLatest, GetLatest, Store, PutLatest, Announce,
           PublishLatestUpdate, PublishLatestPanic, ProcessDies, PutCidKey,
           DeleteCidKey, indexVars
    <2>2. pc'[c0] \notin {"chunk", "putFwd", "putRev", "putMd"}
          \/ (pc[c0] = "putRev" /\ pc'[c0] = "putMd" /\ existing' = existing
              /\ existing[c0] = None)
        BY <1>0, <1>3 DEF PublishLatest, GetLatest, Store, PutLatest,
           Announce, PublishLatestUpdate, PublishLatestPanic, ProcessDies,
           PutCidKey, DeleteCidKey, Goto, Return, localVars, PathInv
    <2>3. QED
        BY <2>1, <2>2 DEF FwdChains, PathInv
<1>4. ASSUME NEW k \in Keys, NEW md \in AllMetadata, NotifyPut(c0, k, md)
      PROVE  FwdChains' /\ PathInv(c0)'
    <2>1. /\ fwd' = fwd /\ mdRow' = mdRow /\ existing'[c0] = fwd[k]
          /\ pc'[c0] = IF fwd[k] = None THEN "chunk" ELSE "getMd"
        BY <1>0, <1>4 DEF NotifyPut, Goto, indexVars
    <2>2. QED
        BY <2>1 DEF FwdChains, PathInv
<1>5. ASSUME NEW k \in Keys, NotifyRemove(c0, k)
      PROVE  FwdChains' /\ PathInv(c0)'
    <2>1. fwd' = fwd /\ mdRow' = mdRow /\ pc[c0] = "idle"
        BY <1>5 DEF NotifyRemove, indexVars
    <2>2. pc'[c0] \in {"idle", "delFwd"}
        BY <1>0, <1>5 DEF NotifyRemove, Goto
    <2>3. QED
        BY <2>1, <2>2 DEF FwdChains, PathInv
<1>6. CASE ChunkEntries(c0)
    <2>1. pc[c0] = "chunk" /\ fwd' = fwd /\ mdRow' = mdRow
          /\ existing[c0] = None
        BY <1>6 DEF ChunkEntries, indexVars, PathInv
    <2>2. CASE ~listerSet
        <3>1. pc'[c0] = "idle"
            BY <1>0, <1>6, <2>2 DEF ChunkEntries, Return
        <3>2. QED
            BY <2>1, <3>1 DEF FwdChains, PathInv
    <2>3. CASE listerSet
        <3>1. /\ pc'[c0] = "putFwd" /\ ctxKey' = ctxKey /\ existing' = existing
              /\ cidsLnk'[c0] = Chunk(Lister[k0])
            BY <1>0, <1>6, <2>3 DEF ChunkEntries, Goto, IInv, TypeOK
        <3>2. QED
            BY <2>1, <3>1 DEF FwdChains, PathInv
    <2>4. QED
        BY <2>2, <2>3
<1>7. CASE PutKeyCid(c0)
    <2>1. /\ pc[c0] = "putFwd" /\ pc'[c0] = "putRev" /\ mdRow' = mdRow
          /\ ctxKey' = ctxKey /\ existing' = existing
          /\ fwd' = [fwd EXCEPT ![k0] = cidsLnk[c0]]
        BY <1>0, <1>7 DEF PutKeyCid, Goto, localVars
    <2>2. cidsLnk[c0] = Chunk(Lister[k0]) /\ existing[c0] = None
        BY <2>1 DEF PathInv
    <2>3. QED
        BY <1>0, <2>1, <2>2 DEF FwdChains, PathInv
<1>8. CASE GetMetadata(c0)
    <2>1. /\ pc[c0] = "getMd" /\ fwd' = fwd /\ mdRow' = mdRow
        BY <1>8 DEF GetMetadata, indexVars
    <2>2. fwd[k0] # None /\ RowsPaired(k0)
        BY <1>0, <2>1 DEF PInv, RowSteps, Unpairing
    <2>3. mdRow[k0] # None
        BY <2>2 DEF RowsPaired
    <2>4. CASE callMd[c0] = PrevMetadata(c0)
        <3>1. pc'[c0] = "idle"
            BY <1>0, <1>8, <2>4 DEF GetMetadata, Return
        <3>2. QED
            BY <2>1, <3>1 DEF FwdChains, PathInv
    <2>5. CASE callMd[c0] # PrevMetadata(c0)
        <3>1. /\ pc'[c0] = "putMd" /\ ctxKey' = ctxKey /\ callMd' = callMd
              /\ existing' = existing
            BY <1>0, <1>8, <2>5 DEF GetMetadata, Goto
        <3>2. mdRow[k0] # callMd[c0]
            BY <2>3, <2>5 DEF PrevMetadata
        <3>3. QED
            BY <2>1, <2>3, <3>1, <3>2 DEF FwdChains, PathInv
    <2>6. QED
        BY <2>4, <2>5
<1>9. CASE PutMetadata(c0) \/ DeleteMetadata(c0) \/ DeleteKeyCid(c0)
    <2>1. /\ pc[c0] \in {"putMd", "delMd", "delFwd"}
          /\ pc'[c0] \in {"getLatest", "delRev"}
          /\ fwd' \in {fwd, [fwd EXCEPT ![k0] = None]}
        BY <1>0, <1>9 DEF PutMetadata, DeleteMetadata, DeleteKeyCid, Goto
    <2>2. QED
        BY <1>0, <2>1 DEF FwdChains, PathInv
<1>10. QED
    BY <1>0, <1>1, <1>2, <1>3, <1>4, <1>5, <1>6, <1>7, <1>8, <1>9
       DEF Next, CallerStep

(* The index the rows stand for is unchanged by a step that leaves the     *)
(* rows alone and in which no call is between the writes of a new key.   *)
LEMMA IndexOfStutter ==
    ASSUME NEW c0, Callers = {c0}, fwd' = fwd, mdRow' = mdRow,
           pc[c0] \notin {"putRev", "putMd"}, pc'[c0] \notin {"putRev", "putMd"}
    PROVE  IndexOf' = IndexOf
BY DEF IndexOf, Adding

(* putKeyCidMap's first Put on a new key leaves the index as it was: the   *)
(* key stays out of it until its metadata row is written.                  *)
LEMMA PutKeyCidIndex ==
    ASSUME NEW c0, Callers = {c0}, IInv, PInv, PathInv(c0), PutKeyCid(c0)
    PROVE  IndexOf' = IndexOf
<1> DEFINE k0 == ctxKey[c0]
<1>0. k0 \in Keys /\ fwd \in [Keys -> EntriesCids \cup {None}]
      /\ pc \in [Callers -> Steps]
    BY DEF IInv, TypeOK
<1>1. /\ pc[c0] = "putFwd" /\ pc'[c0] = "putRev" /\ mdRow' = mdRow
      /\ existing' = existing /\ ctxKey' = ctxKey
      /\ fwd' = [fwd EXCEPT ![k0] = cidsLnk[c0]]
    BY <1>0 DEF PutKeyCid, Goto, localVars
<1>2. existing[c0] = None /\ fwd[k0] = None
    BY <1>0, <1>1 DEF PathInv, PInv
<1>3. ASSUME NEW k \in Keys PROVE IndexOf'[k] = IndexOf[k]
    <2>1. CASE k = k0
        <3>1. Adding(k)'
            BY <1>1, <1>2, <2>1 DEF Adding
        <3>2. QED
            BY <1>2, <2>1, <3>1 DEF IndexOf
    <2>2. CASE k # k0
        <3>1. ~Adding(k) /\ ~Adding(k)' /\ fwd'[k] = fwd[k]
            BY <1>0, <1>1, <2>2 DEF Adding
        <3>2. QED
            BY <1>1, <3>1 DEF IndexOf
    <2>3. QED
        BY <2>1, <2>2
<1>4. QED
    BY <1>3 DEF IndexOf

(* The index at one key, before and after a step.                          *)
LEMMA IndexOfAt ==
    ASSUME NEW k \in Keys
    PROVE  /\ IndexOf[k] = IF fwd[k] = None \/ Adding(k) THEN None
                           ELSE <<fwd[k], mdRow[k]>>
           /\ IndexOf'[k] = IF fwd'[k] = None \/ Adding(k)' THEN None
                            ELSE <<fwd'[k], mdRow'[k]>>
BY DEF IndexOf

(* A step that changes the index at one key only is an EXCEPT of it.      *)
LEMMA IndexOfExcept ==
    ASSUME NEW k0 \in Keys, NEW v, IndexOf'[k0] = v,
           \A k \in Keys \ {k0} : IndexOf'[k] = IndexOf[k]
    PROVE  IndexOf' = [IndexOf EXCEPT ![k0] = v]
<1>1. IndexOf' = [k \in Keys |-> IndexOf'[k]]
    BY DEF IndexOf
<1>2. DOMAIN IndexOf = Keys
    BY DEF IndexOf
<1>3. \A k \in Keys : [IndexOf EXCEPT ![k0] = v][k] = IndexOf'[k]
    BY <1>2
<1>4. QED
    BY <1>1, <1>2, <1>3

(* putKeyMetadataMap is the step at which a put takes effect: on a new key *)
(* it adds the key with its lister's chain, on a known key it changes the  *)
(* metadata, which differs from the one stored.                            *)
LEMMA PutMetadataIndex ==
    ASSUME NEW c0, Callers = {c0}, IInv, PInv, FwdChains, PathInv(c0),
           PutMetadata(c0)
    PROVE  Idx!Next
<1> DEFINE k0 == ctxKey[c0]
<1> DEFINE m0 == callMd[c0]
<1>0. /\ k0 \in Keys /\ fwd \in [Keys -> EntriesCids \cup {None}]
      /\ mdRow \in [Keys -> AllMetadata \cup {None}]
      /\ pc \in [Callers -> Steps]
    BY DEF IInv, TypeOK
<1>1. /\ pc[c0] = "putMd" /\ pc'[c0] = "getLatest" /\ fwd' = fwd
      /\ mdRow' = [mdRow EXCEPT ![k0] = m0]
    BY <1>0 DEF PutMetadata, Goto
<1>2. m0 \in AllMetadata /\ fwd[k0] = Chunk(Lister[k0]) /\ fwd[k0] # None
    BY <1>0, <1>1 DEF IInv, CallInv, PInv, FwdChains
<1>3. \A k \in Keys : ~Adding(k)'
    BY <1>1 DEF Adding
<1>4. \A k \in Keys \ {k0} : IndexOf'[k] = IndexOf[k]
    <2> SUFFICES ASSUME NEW k \in Keys \ {k0} PROVE IndexOf'[k] = IndexOf[k]
        OBVIOUS
    <2>1. ~Adding(k) /\ mdRow'[k] = mdRow[k]
        BY <1>0, <1>1 DEF Adding
    <2>2. QED
        BY <1>1, <1>3, <2>1, IndexOfAt
<1>5. IndexOf'[k0] = <<Chunk(Lister[k0]), m0>>
    <2>1. mdRow'[k0] = m0
        BY <1>0, <1>1
    <2>2. QED
        BY <1>0, <1>1, <1>2, <1>3, <2>1, IndexOfAt
<1>6. DOMAIN IndexOf = Keys /\ DOMAIN IndexOf' = Keys
    BY DEF IndexOf
<1>7. CASE existing[c0] = None
    <2>1. IndexOf[k0] = None
        <3>1. Adding(k0)
            BY <1>1, <1>7 DEF Adding
        <3>2. QED
            BY <1>0, <3>1, IndexOfAt
    <2>2. [k \in Keys |-> Chunk(Lister[k])][k0] = Chunk(Lister[k0])
        BY <1>0
    <2>3. IndexOf' = [IndexOf EXCEPT ![k0] =
                        <<[k \in Keys |-> Chunk(Lister[k])][k0], m0>>]
        BY <1>0, <1>4, <1>5, <2>2, IndexOfExcept
    <2>4. Idx!Put(k0, m0)
        BY <2>1, <2>3 DEF Idx!Put
    <2>5. QED
        BY <1>0, <1>2, <2>4 DEF Idx!Next
<1>8. CASE existing[c0] # None
    <2>1. mdRow[k0] \notin {None, m0}
        BY <1>1, <1>8 DEF PathInv
    <2>2. IndexOf[k0] = <<Chunk(Lister[k0]), mdRow[k0]>>
        <3>1. ~Adding(k0)
            BY <1>8 DEF Adding
        <3>2. QED
            BY <1>0, <1>2, <3>1, IndexOfAt
    <2>3. IndexOf' = [IndexOf EXCEPT ![k0] = <<IndexOf[k0][1], m0>>]
        BY <1>0, <1>4, <1>5, <2>2, IndexOfExcept
    <2>4. IndexOf[k0] # None
        <3>1. Chunk(Lister[k0]) \in EntriesCids /\ mdRow[k0] \in AllMetadata
            BY <1>0, <2>1 DEF EntriesCids
        <3>2. QED
            BY <2>2, <3>1
    <2>5. Idx!Update(k0, m0)
        BY <2>1, <2>2, <2>3, <2>4 DEF Idx!Update
    <2>6. QED
        BY <1>0, <1>2, <2>5 DEF Idx!Next
<1>9. QED
    BY <1>7, <1>8

(* deleteKeyCidMap is the step at which a removal takes effect.           *)
LEMMA DeleteKeyCidIndex ==
    ASSUME NEW c0, Callers = {c0}, IInv, PInv, DeleteKeyCid(c0)
    PROVE  Idx!Next
<1> DEFINE k0 == ctxKey[c0]
<1>0. /\ k0 \in Keys /\ fwd \in [Keys -> EntriesCids \cup {None}]
      /\ pc \in [Callers -> Steps]
    BY DEF IInv, TypeOK
<1>1. /\ pc[c0] = "delFwd" /\ pc'[c0] = "delRev" /\ mdRow' = mdRow
      /\ fwd' = [fwd EXCEPT ![k0] = None]
    BY <1>0 DEF DeleteKeyCid, Goto
<1>2. fwd[k0] # None
    BY <1>0, <1>1 DEF PInv
<1>3. \A k \in Keys : ~Adding(k) /\ ~Adding(k)'
    BY <1>1 DEF Adding
<1>4. IndexOf[k0] # None
    <2>1. RowsPaired(k0)
        BY <1>0, <1>1 DEF PInv, RowSteps, Unpairing
    <2>2. mdRow[k0] # None
        BY <1>2, <2>1 DEF RowsPaired
    <2>3. fwd[k0] \in EntriesCids /\ mdRow[k0] \in AllMetadata
        BY <1>0, <1>2, <2>2 DEF IInv, TypeOK
    <2>4. IndexOf[k0] = <<fwd[k0], mdRow[k0]>>
        BY <1>0, <1>2, <1>3, IndexOfAt
    <2>5. <<fwd[k0], mdRow[k0]>> \in EntriesCids \X AllMetadata
        BY <2>3
    <2>6. QED
        BY <2>4, <2>5
<1>5. IndexOf'[k0] = None
    <2>1. fwd'[k0] = None
        BY <1>0, <1>1
    <2>2. QED
        BY <1>0, <2>1, IndexOfAt
<1>6. \A k \in Keys \ {k0} : IndexOf'[k] = IndexOf[k]
    <2> SUFFICES ASSUME NEW k \in Keys \ {k0} PROVE IndexOf'[k] = IndexOf[k]
        OBVIOUS
    <2>1. fwd'[k] = fwd[k] /\ ~Adding(k) /\ ~Adding(k)'
        BY <1>0, <1>1, <1>3
    <2>2. QED
        BY <1>1, <2>1, IndexOfAt
<1>7. IndexOf' = [IndexOf EXCEPT ![k0] = None]
    BY <1>0, <1>5, <1>6, IndexOfExcept
<1>8. Idx!Remove(k0)
    BY <1>4, <1>7 DEF Idx!Remove
<1>9. QED
    BY <1>0, <1>8 DEF Idx!Next

(* Every step of the engine is a step of the index map or leaves the index *)
(* unchanged, under the hypotheses of the index theorems.                  *)
LEMMA IndexStep ==
    ASSUME NEW c0, Callers = {c0}, MaxFaults = 0, MaxCrashes = 0, XInv,
           [Next]_vars
    PROVE  [Idx!Next]_IndexOf
<1>0. /\ IInv /\ PInv /\ FwdChains /\ PathInv(c0)
      /\ pc \in [Callers -> Steps] /\ ctxKey \in [Callers -> Keys]
      /\ existing \in [Callers -> EntriesCids \cup {None}]
      /\ ~(faults < MaxFaults) /\ ~(crashes < MaxCrashes)
    BY DEF XInv, IInv, TypeOK
<1> DEFINE k0 == ctxKey[c0]
<1>1. CASE Start \/ RegisterMultihashLister \/ UNCHANGED vars
    <2>1. /\ fwd' = fwd /\ mdRow' = mdRow /\ pc' = pc
          /\ existing' = existing /\ ctxKey' = ctxKey
        BY <1>1 DEF Start, RegisterMultihashLister, vars, indexVars, localVars
    <2>2. IndexOf' = IndexOf
        BY <2>1 DEF IndexOf, Adding
    <2>3. QED
        BY <2>2
<1>2. CASE Crash \/ DatastoreFail(c0)
    BY <1>0, <1>2 DEF Crash, DatastoreFail
<1>3. CASE \/ PublishLatest(c0) \/ GetLatest(c0) \/ Store(c0) \/ PutLatest(c0)
           \/ Announce(c0) \/ PublishLatestUpdate(c0) \/ PublishLatestPanic(c0)
           \/ ChunkEntries(c0) \/ DeleteCidKey(c0)
    <2>1. fwd' = fwd /\ mdRow' = mdRow
        BY <1>3 DEF PublishLatest, GetLatest, Store, PutLatest, Announce,
           PublishLatestUpdate, PublishLatestPanic, ProcessDies, ChunkEntries,
           DeleteCidKey, indexVars
    <2>2. pc[c0] \notin {"putRev", "putMd"} /\ pc'[c0] \notin {"putRev", "putMd"}
        BY <1>0, <1>3 DEF PublishLatest, GetLatest, Store, PutLatest,
           Announce, PublishLatestUpdate, PublishLatestPanic, ProcessDies,
           ChunkEntries, DeleteCidKey, Goto, Return
    <2>3. QED
        BY <2>1, <2>2, IndexOfStutter
<1>4. ASSUME NEW k \in Keys, NEW md \in AllMetadata, NotifyPut(c0, k, md)
      PROVE  [Idx!Next]_IndexOf
    <2>1. fwd' = fwd /\ mdRow' = mdRow /\ pc[c0] = "idle"
          /\ pc'[c0] \in {"chunk", "getMd"}
        BY <1>0, <1>4 DEF NotifyPut, Goto, indexVars
    <2>2. QED
        BY <2>1, IndexOfStutter
<1>5. ASSUME NEW k \in Keys, NotifyRemove(c0, k)
      PROVE  [Idx!Next]_IndexOf
    <2>1. fwd' = fwd /\ mdRow' = mdRow /\ pc[c0] = "idle"
          /\ pc'[c0] \in {"idle", "delFwd"}
        BY <1>0, <1>5 DEF NotifyRemove, Goto, indexVars
    <2>2. QED
        BY <2>1, IndexOfStutter
<1>6. CASE PutKeyCid(c0)
    BY <1>0, <1>6, PutKeyCidIndex
<1>7. CASE PutCidKey(c0)
    <2>1. /\ pc[c0] = "putRev" /\ pc'[c0] = "putMd" /\ fwd' = fwd
          /\ mdRow' = mdRow /\ existing' = existing /\ ctxKey' = ctxKey
        BY <1>0, <1>7 DEF PutCidKey, Goto, localVars
    <2>2. \A k \in Keys : Adding(k)' = Adding(k)
        BY <2>1 DEF Adding
    <2>3. IndexOf' = IndexOf
        BY <2>1, <2>2 DEF IndexOf
    <2>4. QED
        BY <2>3
<1>8. CASE GetMetadata(c0)
    <2>1. pc[c0] = "getMd" /\ fwd' = fwd /\ mdRow' = mdRow
        BY <1>8 DEF GetMetadata, indexVars
    <2>2. existing[c0] # None
        BY <1>0, <2>1 DEF IInv, CallInv
    <2>3. pc'[c0] = "idle" \/ (pc'[c0] = "putMd" /\ existing' = existing)
        BY <1>0, <1>8 DEF GetMetadata, Goto, Return
    <2>4. \A k \in Keys : ~Adding(k) /\ ~Adding(k)'
        BY <2>1, <2>2, <2>3 DEF Adding
    <2>5. IndexOf' = IndexOf
        BY <2>1, <2>4 DEF IndexOf
    <2>6. QED
        BY <2>5
<1>9. CASE PutMetadata(c0)
    BY <1>0, <1>9, PutMetadataIndex
<1>10. CASE DeleteKeyCid(c0)
    BY <1>0, <1>10, DeleteKeyCidIndex
<1>11. CASE DeleteMetadata(c0)
    <2>1. /\ pc[c0] = "delMd" /\ pc'[c0] = "getLatest" /\ fwd' = fwd
          /\ mdRow' = [mdRow EXCEPT ![k0] = None]
        BY <1>0, <1>11 DEF DeleteMetadata, Goto
    <2>2. fwd[k0] = None
        BY <1>0, <2>1 DEF PInv
    <2>3. \A k \in Keys : ~Adding(k) /\ ~Adding(k)'
        BY <2>1 DEF Adding
    <2>4. \A k \in Keys : IndexOf'[k] = IndexOf[k]
        <3> SUFFICES ASSUME NEW k \in Keys PROVE IndexOf'[k] = IndexOf[k]
            OBVIOUS
        <3>1. CASE k = k0
            BY <2>1, <2>2, <2>3, <3>1, IndexOfAt
        <3>2. CASE k # k0
            <4>1. mdRow'[k] = mdRow[k]
                BY <1>0, <2>1, <3>2 DEF IInv, TypeOK
            <4>2. QED
                BY <2>1, <2>3, <4>1, IndexOfAt
        <3>3. QED
            BY <3>1, <3>2
    <2>5. IndexOf' = IndexOf
        BY <2>4 DEF IndexOf
    <2>6. QED
        BY <2>5
<1>12. QED
    BY <1>0, <1>1, <1>2, <1>3, <1>4, <1>5, <1>6, <1>7, <1>8, <1>9, <1>10,
       <1>11 DEF Next, CallerStep

(* XInv holds in every reachable state under the index hypotheses.        *)
LEMMA XInvHolds ==
    ASSUME NEW c0, Callers = {c0}, MaxFaults = 0, MaxCrashes = 0
    PROVE  Spec => []XInv
<1>1. Init => XInv
    BY InitIInv DEF Init, XInv, PInv, RowsPaired, RowSteps, Unpairing,
       FwdChains, PathInv
<1>2. XInv /\ [Next]_vars => XInv'
    BY NextIInv, NextPInv, NextPath DEF XInv
<1>3. QED
    BY <1>1, <1>2, PTL DEF Spec

(* With one caller, no failed datastore operation and no crash, the        *)
(* engine's rows implement the index map IndexMap for every value of the   *)
(* other constants: NotifyPut of a new key takes effect at                 *)
(* putKeyMetadataMap with the chunk of the lister's multihashes, NotifyPut *)
(* of a known key changes only its metadata and only to a new value, and   *)
(* NotifyRemove takes effect at deleteKeyCidMap, each at one write of      *)
(* publishAdvForIndex.                                                     *)
THEOREM RefinesIndexMap ==
    ASSUME NEW c0, Callers = {c0}, MaxFaults = 0, MaxCrashes = 0
    PROVE  Spec => ImplementsIndexMap
<1>1. Init => Idx!Init
    <2> SUFFICES ASSUME Init PROVE IndexOf = [k \in Keys |-> None]
        BY DEF Idx!Init
    <2>1. \A k \in Keys : ~Adding(k)
        BY DEF Init, Adding
    <2>2. QED
        BY <2>1 DEF Init, IndexOf
<1>2. XInv /\ [Next]_vars => [Idx!Next]_IndexOf
    BY IndexStep
<1>3. QED
    BY <1>1, <1>2, XInvHolds, PTL DEF Spec, ImplementsIndexMap, Idx!Spec

=============================================================================
