-------------------------- MODULE EngineRefinement --------------------------
(***************************************************************************)
(* Proof that the engine with a single caller implements the append-only  *)
(* log AdLog under the mapping head <- sync/adv/, store <- blocks, root <- *)
(* the publisher's root (Engine's ImplementsAdLog).  With two callers it   *)
(* does not: MC_ConcurrentFork.                                            *)
(***************************************************************************)
EXTENDS EngineProofs

(* What the caller holds agrees with sync/adv/ at every step between       *)
(* reading it and publishing: the PreviousID it read is still the head     *)
(* while it stores its ad, the ad it stored links to the head, the ad it   *)
(* made the head is still the head when it announces it, and the head     *)
(* PublishLatest read is still the head.  True only with one caller.       *)
LogInv(c) ==
    /\ pc[c] \in {"store", "putLatest"} => prevAdvID[c] = latest
    /\ pc[c] = "announce" => NewAd(c) = latest
    /\ pc[c] = "plUpdate" => adCid[c] = latest

(* The strengthened invariant the refinement rests on.                     *)
RInv == IInv /\ \A c \in Callers : LogInv(c)

(* With one caller, each step of Next keeps LogInv.                        *)
LEMMA LogInvNext ==
    ASSUME NEW c0, Callers = {c0}, IInv, LogInv(c0), [Next]_vars
    PROVE  LogInv(c0)'
<1>0. /\ pc \in [Callers -> Steps]
      /\ DOMAIN prevAdvID = Callers /\ DOMAIN adCid = Callers
    BY DEF IInv, TypeOK
<1>1. CASE Start \/ RegisterMultihashLister
    <2>1. /\ pc' = pc /\ latest' = latest /\ prevAdvID' = prevAdvID
          /\ adCid' = adCid /\ NewAd(c0)' = NewAd(c0)
        BY <1>1 DEF Start, RegisterMultihashLister, NewAd, localVars, chainVars
    <2>2. QED
        BY <2>1 DEF LogInv
<1>2. CASE Crash \/ PublishLatestPanic(c0)
    BY <1>2 DEF Crash, PublishLatestPanic, ProcessDies, LogInv
<1>3. ASSUME NEW k \in Keys, NEW md \in AllMetadata, NotifyPut(c0, k, md)
      PROVE  LogInv(c0)'
    BY <1>0, <1>3 DEF NotifyPut, Goto, LogInv
<1>4. ASSUME NEW k \in Keys, NotifyRemove(c0, k) PROVE LogInv(c0)'
    BY <1>0, <1>4 DEF NotifyRemove, Goto, LogInv, chainVars
<1>5. CASE PublishLatest(c0)
    BY <1>0, <1>5 DEF PublishLatest, Goto, LogInv, chainVars
<1>6. CASE \/ ChunkEntries(c0) \/ PutKeyCid(c0) \/ PutCidKey(c0)
           \/ GetMetadata(c0) \/ PutMetadata(c0) \/ DeleteKeyCid(c0)
           \/ DeleteCidKey(c0) \/ DeleteMetadata(c0)
    BY <1>0, <1>6 DEF ChunkEntries, PutKeyCid, PutCidKey, GetMetadata,
       PutMetadata, DeleteKeyCid, DeleteCidKey, DeleteMetadata, Goto, Return,
       LogInv, chainVars
<1>7. CASE GetLatest(c0)
    BY <1>0, <1>7 DEF GetLatest, Goto, LogInv, chainVars
<1>8. CASE Store(c0)
    BY <1>0, <1>8 DEF Store, Goto, LogInv, localVars
<1>9. CASE PutLatest(c0)
    <2>1. CASE HasPublisher
        BY <1>0, <1>9, <2>1 DEF PutLatest, Goto, LogInv, NewAd, localVars
    <2>2. CASE ~HasPublisher
        BY <1>0, <1>9, <2>2 DEF PutLatest, Return, LogInv
    <2>3. QED
        BY <2>1, <2>2
<1>10. CASE Announce(c0) \/ PublishLatestUpdate(c0) \/ DatastoreFail(c0)
    BY <1>0, <1>10 DEF Announce, PublishLatestUpdate, DatastoreFail, Return,
       LogInv
<1>11. CASE UNCHANGED vars
    BY <1>11 DEF vars, localVars, chainVars, LogInv, NewAd
<1>12. QED
    BY <1>1, <1>2, <1>3, <1>4, <1>5, <1>6, <1>7, <1>8, <1>9, <1>10, <1>11
       DEF Next, CallerStep

(* A step that leaves sync/adv/, the blocks and the root alone is a        *)
(* stuttering step of the log.                                             *)
LEMMA ChainStutter ==
    ASSUME UNCHANGED chainVars
    PROVE  [Log!Next]_Log!vars
BY DEF chainVars, Log!vars

(* With one caller, every step of Next is a step of the log or a stutter.  *)
LEMMA LogStep ==
    ASSUME NEW c0, Callers = {c0}, IInv, LogInv(c0), [Next]_vars
    PROVE  [Log!Next]_Log!vars
<1>0. pc \in [Callers -> Steps]
    BY DEF IInv, TypeOK
<1>1. CASE Start
    <2>1. CASE HasPublisher
        BY <1>1, <2>1 DEF Start, Log!Next, Log!Announce
    <2>2. CASE ~HasPublisher
        BY <1>1, <2>2 DEF Start, Log!Next, Log!Forget
    <2>3. QED
        BY <2>1, <2>2
<1>2. CASE Crash \/ PublishLatestPanic(c0)
    BY <1>2 DEF Crash, PublishLatestPanic, ProcessDies, Log!Next, Log!Forget
<1>3. CASE \/ RegisterMultihashLister
           \/ \E k \in Keys, md \in AllMetadata : NotifyPut(c0, k, md)
           \/ \E k \in Keys : NotifyRemove(c0, k)
           \/ PublishLatest(c0)
           \/ ChunkEntries(c0) \/ PutKeyCid(c0) \/ PutCidKey(c0)
           \/ GetMetadata(c0) \/ PutMetadata(c0) \/ DeleteKeyCid(c0)
           \/ DeleteCidKey(c0) \/ DeleteMetadata(c0) \/ GetLatest(c0)
           \/ DatastoreFail(c0)
    <2>1. UNCHANGED chainVars
        BY <1>3 DEF RegisterMultihashLister, NotifyPut, NotifyRemove,
           PublishLatest, ChunkEntries, PutKeyCid, PutCidKey, GetMetadata,
           PutMetadata, DeleteKeyCid, DeleteCidKey, DeleteMetadata, GetLatest,
           DatastoreFail
    <2>2. QED
        BY <2>1, ChainStutter
<1>4. CASE Store(c0)
    <2>1. /\ blocks' = blocks \cup {NewAd(c0)}
          /\ NewAd(c0).previous = latest
          /\ latest' = latest /\ pubRoot' = pubRoot
        BY <1>0, <1>4 DEF Store, LogInv, NewAd
    <2>2. QED
        BY <2>1 DEF Log!Next, Log!Append
<1>5. CASE PutLatest(c0)
    <2>1. /\ latest' = NewAd(c0)
          /\ NewAd(c0) \in blocks
          /\ NewAd(c0).previous = latest
          /\ blocks' = blocks /\ pubRoot' = pubRoot
        BY <1>0, <1>5 DEF PutLatest, LogInv, NewAd, IInv, CallInv
    <2>2. QED
        BY <2>1 DEF Log!Next, Log!Advance
<1>6. CASE Announce(c0)
    <2>1. /\ pubRoot' \in {pubRoot, latest}
          /\ blocks' = blocks /\ latest' = latest
        BY <1>0, <1>6 DEF Announce, LogInv
    <2>2. QED
        BY <2>1 DEF Log!Next, Log!Announce, Log!vars
<1>7. CASE PublishLatestUpdate(c0)
    <2>1. /\ pubRoot' \in {pubRoot, latest}
          /\ blocks' = blocks /\ latest' = latest
        BY <1>0, <1>7 DEF PublishLatestUpdate, LogInv
    <2>2. QED
        BY <2>1 DEF Log!Next, Log!Announce, Log!vars
<1>8. CASE UNCHANGED vars
    BY <1>8, ChainStutter DEF vars
<1>9. QED
    BY <1>1, <1>2, <1>3, <1>4, <1>5, <1>6, <1>7, <1>8 DEF Next, CallerStep

(* With one caller, RInv holds in every reachable state.                   *)
LEMMA RInvHolds ==
    ASSUME NEW c0, Callers = {c0}
    PROVE  Spec => []RInv
<1>1. Init => RInv
    BY InitIInv DEF Init, RInv, LogInv
<1>2. RInv /\ [Next]_vars => RInv'
    BY NextIInv, LogInvNext DEF RInv
<1>3. QED
    BY <1>1, <1>2, PTL DEF Spec

(* The engine with one caller implements the append-only log AdLog:       *)
(* PublishLocal stores an ad linked to the sync/adv/ value read by          *)
(* getLatestAdCid, putLatestAdv moves sync/adv/ one link, and UpdateRoot,  *)
(* PublishLatest and Start announce only the current head, for any         *)
(* providers, context IDs, metadata, lists, failures and crashes.           *)
THEOREM RefinesAdLog ==
    ASSUME NEW c0, Callers = {c0}
    PROVE  Spec => ImplementsAdLog
<1>1. Init => Log!Init
    BY DEF Init, Log!Init
<1>2. RInv /\ [Next]_vars => [Log!Next]_Log!vars
    BY LogStep DEF RInv
<1>3. QED
    BY <1>1, <1>2, RInvHolds, PTL DEF Spec, ImplementsAdLog, Log!Spec

(* With one caller, every move of sync/adv/ (putLatestAdv in PublishLocal) *)
(* is to an advertisement whose PreviousID is the old sync/adv/ value, so  *)
(* the chain of advertisements never forks, for any failures and crashes;  *)
(* with two callers it does (MC_ConcurrentFork).                            *)
THEOREM HeadAdvancesOneCaller ==
    ASSUME NEW c0, Callers = {c0}
    PROVE  Spec => HeadAdvancesByOneLink
<1>1. RInv /\ [Next]_vars
        => [latest' # latest => latest'.previous = latest]_vars
    <2> SUFFICES ASSUME RInv, [Next]_vars
                 PROVE  [latest' # latest => latest'.previous = latest]_vars
        OBVIOUS
    <2>1. [Log!Next]_Log!vars
        BY LogStep DEF RInv
    <2>2. latest' = latest \/ latest'.previous = latest
        BY <2>1 DEF Log!Next, Log!Append, Log!Advance, Log!Announce,
           Log!Forget, Log!vars
    <2>3. QED
        BY <2>2
<1>2. QED
    BY <1>1, RInvHolds, PTL DEF Spec, HeadAdvancesByOneLink

=============================================================================
