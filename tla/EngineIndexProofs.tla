------------------------- MODULE EngineIndexProofs -------------------------
(***************************************************************************)
(* Proof of the row pairing of the engine's index (spec 8): with one       *)
(* caller, no failed datastore operation and no crash, a key no call is    *)
(* working on has its keyToCid row exactly when it has its metadata row.   *)
(* MC_FaultIndex shows the pairing lost to a failure between the writes;   *)
(* EngineIndexRefinement builds on PInv and FwdChains.                     *)
(***************************************************************************)
EXTENDS EngineProofs

(* A keyToCid row holds the entry chain the lister gives its key.          *)
FwdChains == \A k \in Keys : fwd[k] \in {None, Chunk(Lister[k])}

(* The steps between the first and the last write of a call's rows.       *)
Unpairing == {"putRev", "putMd", "delRev", "delMd"}

(* The steps of a put or a removal that read or write the caller's rows.   *)
RowSteps == Unpairing \cup {"chunk", "putFwd", "getMd", "delFwd"}

(* The invariant RowsPaired rests on: a key is paired unless the caller is *)
(* between the writes of its rows, and the keyToCid row of the caller's    *)
(* key is absent or present as each step expects.                          *)
PInv ==
    /\ \A k \in Keys :
          (\A c \in Callers : ~(pc[c] \in Unpairing /\ ctxKey[c] = k))
              => RowsPaired(k)
    /\ \A c \in Callers :
          /\ pc[c] \in {"chunk", "putFwd", "delRev", "delMd"}
                 => fwd[ctxKey[c]] = None
          /\ pc[c] \in {"putRev", "putMd", "getMd", "delFwd"}
                 => fwd[ctxKey[c]] # None
          /\ pc[c] \in RowSteps => op[c] \in {"put", "remove"}

USE ConstantsAssumption

(* A step that changes neither the rows nor the caller's step, operation   *)
(* and key keeps PInv.                                                     *)
LEMMA PInvUnchanged ==
    ASSUME PInv, fwd' = fwd, mdRow' = mdRow, pc' = pc, op' = op,
           ctxKey' = ctxKey
    PROVE  PInv'
BY DEF PInv, RowsPaired

(* A step of the single caller that leaves the rows alone and is at no row *)
(* step before or after keeps PInv.                                        *)
LEMMA PInvFrame ==
    ASSUME NEW c0, Callers = {c0}, PInv, fwd' = fwd, mdRow' = mdRow,
           pc[c0] \notin RowSteps, pc'[c0] \notin RowSteps
    PROVE  PInv'
<1>1. \A k \in Keys : RowsPaired(k)
    BY DEF PInv, RowSteps, Unpairing
<1>2. QED
    BY <1>1 DEF PInv, RowsPaired, RowSteps, Unpairing

(* Every step keeps PInv, under the hypotheses of the index theorem.      *)
LEMMA NextPInv ==
    ASSUME NEW c0, Callers = {c0}, MaxFaults = 0, MaxCrashes = 0, IInv, PInv,
           [Next]_vars
    PROVE  PInv'
<1>0. /\ Callers = {c0} /\ pc \in [Callers -> Steps]
      /\ ctxKey \in [Callers -> Keys] /\ fwd \in [Keys -> EntriesCids \cup {None}]
      /\ mdRow \in [Keys -> AllMetadata \cup {None}]
      /\ op \in [Callers -> {"none", "put", "remove", "latest"}]
      /\ ~(faults < MaxFaults) /\ ~(crashes < MaxCrashes)
    BY DEF IInv, TypeOK
<1> DEFINE k0 == ctxKey[c0]
<1>1. CASE Start \/ RegisterMultihashLister \/ UNCHANGED vars
    BY <1>1, PInvUnchanged DEF Start, RegisterMultihashLister, vars,
       indexVars, localVars
<1>2. CASE Crash \/ DatastoreFail(c0)
    BY <1>0, <1>2 DEF Crash, DatastoreFail
<1>3. CASE \/ PublishLatest(c0) \/ GetLatest(c0) \/ Store(c0) \/ PutLatest(c0)
           \/ Announce(c0) \/ PublishLatestUpdate(c0) \/ PublishLatestPanic(c0)
    <2>1. fwd' = fwd /\ mdRow' = mdRow
        BY <1>3 DEF PublishLatest, GetLatest, Store, PutLatest, Announce,
           PublishLatestUpdate, PublishLatestPanic, ProcessDies, indexVars
    <2>2. pc[c0] \notin RowSteps /\ pc'[c0] \notin RowSteps
        BY <1>0, <1>3 DEF PublishLatest, GetLatest, Store, PutLatest, Announce,
           PublishLatestUpdate, PublishLatestPanic, ProcessDies, Goto, Return,
           RowSteps, Unpairing
    <2>3. QED
        BY <1>0, <2>1, <2>2, PInvFrame
<1>4. ASSUME NEW k \in Keys, NEW md \in AllMetadata, NotifyPut(c0, k, md)
      PROVE  PInv'
    <2>1. /\ pc[c0] = "idle" /\ fwd' = fwd /\ mdRow' = mdRow
          /\ ctxKey'[c0] = k /\ op'[c0] = "put"
          /\ pc'[c0] = IF fwd[k] = None THEN "chunk" ELSE "getMd"
        BY <1>0, <1>4 DEF NotifyPut, Goto, indexVars
    <2>2. \A j \in Keys : RowsPaired(j)
        BY <1>0, <2>1 DEF PInv, RowSteps, Unpairing
    <2>3. QED
        BY <1>0, <2>1, <2>2 DEF PInv, RowsPaired, RowSteps, Unpairing
<1>5. ASSUME NEW k \in Keys, NotifyRemove(c0, k) PROVE PInv'
    <2>1. /\ pc[c0] = "idle" /\ fwd' = fwd /\ mdRow' = mdRow
        BY <1>5 DEF NotifyRemove, indexVars
    <2>2. \A j \in Keys : RowsPaired(j)
        BY <1>0, <2>1 DEF PInv, RowSteps, Unpairing
    <2>3. CASE fwd[k] = None
        BY <1>5, <2>1, <2>3, PInvUnchanged DEF NotifyRemove
    <2>4. CASE fwd[k] # None
        <3>1. ctxKey'[c0] = k /\ op'[c0] = "remove" /\ pc'[c0] = "delFwd"
            BY <1>0, <1>5, <2>4 DEF NotifyRemove, Goto
        <3>2. QED
            BY <1>0, <2>1, <2>2, <2>4, <3>1 DEF PInv, RowsPaired, RowSteps,
               Unpairing
    <2>5. QED
        BY <2>3, <2>4
<1>6. CASE ChunkEntries(c0)
    <2>1. pc[c0] = "chunk" /\ fwd' = fwd /\ mdRow' = mdRow
        BY <1>6 DEF ChunkEntries, indexVars
    <2>2. \A j \in Keys : RowsPaired(j)
        BY <1>0, <2>1 DEF PInv, RowSteps, Unpairing
    <2>3. CASE ~listerSet
        <3>1. pc'[c0] = "idle"
            BY <1>0, <1>6, <2>3 DEF ChunkEntries, Return
        <3>2. QED
            BY <1>0, <2>1, <2>2, <3>1 DEF PInv, RowsPaired, RowSteps, Unpairing
    <2>4. CASE listerSet
        <3>1. pc'[c0] = "putFwd" /\ op' = op /\ ctxKey' = ctxKey
            BY <1>0, <1>6, <2>4 DEF ChunkEntries, Goto
        <3>2. QED
            BY <1>0, <2>1, <2>2, <3>1 DEF PInv, RowsPaired, RowSteps, Unpairing
    <2>5. QED
        BY <2>3, <2>4
<1>7. CASE PutKeyCid(c0)
    <2>1. /\ pc[c0] = "putFwd" /\ pc'[c0] = "putRev" /\ mdRow' = mdRow
          /\ op' = op /\ ctxKey' = ctxKey
          /\ fwd' = [fwd EXCEPT ![k0] = cidsLnk[c0]]
        BY <1>0, <1>7 DEF PutKeyCid, Goto, localVars
    <2>2. cidsLnk[c0] \in EntriesCids
        BY <1>0, <2>1 DEF IInv, CallInv
    <2>3. \A j \in Keys : RowsPaired(j)
        BY <1>0, <2>1 DEF PInv, RowSteps, Unpairing
    <2>4. QED
        BY <1>0, <2>1, <2>2, <2>3 DEF PInv, RowsPaired, RowSteps, Unpairing
<1>8. CASE PutCidKey(c0) \/ DeleteCidKey(c0)
    <2>1. /\ pc[c0] \in {"putRev", "delRev"}
          /\ pc'[c0] = IF pc[c0] = "putRev" THEN "putMd" ELSE "delMd"
          /\ fwd' = fwd /\ mdRow' = mdRow /\ op' = op /\ ctxKey' = ctxKey
        BY <1>0, <1>8 DEF PutCidKey, DeleteCidKey, Goto, localVars
    <2>2. QED
        BY <1>0, <2>1 DEF PInv, RowsPaired, RowSteps, Unpairing
<1>9. CASE GetMetadata(c0)
    <2>1. pc[c0] = "getMd" /\ fwd' = fwd /\ mdRow' = mdRow
        BY <1>9 DEF GetMetadata, indexVars
    <2>2. \A j \in Keys : RowsPaired(j)
        BY <1>0, <2>1 DEF PInv, RowSteps, Unpairing
    <2>3. pc'[c0] = "idle" \/ (pc'[c0] = "putMd" /\ op' = op /\ ctxKey' = ctxKey)
        BY <1>0, <1>9 DEF GetMetadata, Goto, Return
    <2>4. QED
        BY <1>0, <2>1, <2>2, <2>3 DEF PInv, RowsPaired, RowSteps, Unpairing
<1>10. CASE PutMetadata(c0)
    <2>1. /\ pc[c0] = "putMd" /\ pc'[c0] = "getLatest" /\ fwd' = fwd
          /\ mdRow' = [mdRow EXCEPT ![k0] = callMd[c0]]
        BY <1>0, <1>10 DEF PutMetadata, Goto
    <2>2. callMd[c0] \in AllMetadata /\ fwd[k0] # None
        BY <1>0, <2>1 DEF IInv, CallInv, PInv
    <2>3. \A j \in Keys \ {k0} : RowsPaired(j)
        BY <1>0 DEF PInv
    <2>4. QED
        BY <1>0, <2>1, <2>2, <2>3 DEF PInv, RowsPaired, RowSteps, Unpairing
<1>11. CASE DeleteKeyCid(c0)
    <2>1. /\ pc[c0] = "delFwd" /\ pc'[c0] = "delRev" /\ mdRow' = mdRow
          /\ op' = op /\ ctxKey' = ctxKey
          /\ fwd' = [fwd EXCEPT ![k0] = None]
        BY <1>0, <1>11 DEF DeleteKeyCid, Goto, localVars
    <2>2. \A j \in Keys : RowsPaired(j)
        BY <1>0, <2>1 DEF PInv, RowSteps, Unpairing
    <2>3. QED
        BY <1>0, <2>1, <2>2 DEF PInv, RowsPaired, RowSteps, Unpairing
<1>12. CASE DeleteMetadata(c0)
    <2>1. /\ pc[c0] = "delMd" /\ pc'[c0] = "getLatest" /\ fwd' = fwd
          /\ mdRow' = [mdRow EXCEPT ![k0] = None]
        BY <1>0, <1>12 DEF DeleteMetadata, Goto
    <2>2. fwd[k0] = None
        BY <1>0, <2>1 DEF PInv
    <2>3. \A j \in Keys \ {k0} : RowsPaired(j)
        BY <1>0 DEF PInv
    <2>4. QED
        BY <1>0, <2>1, <2>2, <2>3 DEF PInv, RowsPaired, RowSteps, Unpairing
<1>13. QED
    BY <1>0, <1>1, <1>2, <1>3, <1>4, <1>5, <1>6, <1>7, <1>8, <1>9, <1>10,
       <1>11, <1>12 DEF Next, CallerStep

(* With one caller, no failed datastore operation and no crash, a key no   *)
(* call is working on has its metadata row exactly when it has its         *)
(* keyToCid row (spec 8): publishAdvForIndex writes keyToCid before        *)
(* keyMD on a put and deletes keyMD after keyToCid on a removal, and the   *)
(* early returns (ErrNoMultihashLister, AlreadyAdvertised) come before any *)
(* write.  This is the first conjunct of IndexMatchesChain.                *)
THEOREM RowsPairedHolds ==
    ASSUME NEW c0, Callers = {c0}, MaxFaults = 0, MaxCrashes = 0
    PROVE  Spec => [](\A k \in Keys : Settled(k) => RowsPaired(k))
<1>1. Init => PInv
    BY DEF Init, PInv, RowsPaired, RowSteps, Unpairing
<1>2. IInv /\ PInv /\ [Next]_vars => IInv' /\ PInv'
    BY NextIInv, NextPInv
<1>3. IInv /\ PInv => \A k \in Keys : Settled(k) => RowsPaired(k)
    <2> SUFFICES ASSUME PInv, NEW k \in Keys, Settled(k) PROVE RowsPaired(k)
        OBVIOUS
    <2>1. \A c \in Callers : ~(pc[c] \in Unpairing /\ ctxKey[c] = k)
        BY DEF PInv, Settled, RowSteps, Unpairing
    <2>2. QED
        BY <2>1 DEF PInv
<1>4. QED
    BY <1>1, <1>2, <1>3, InitIInv, PTL DEF Spec

=============================================================================
