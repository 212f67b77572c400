---------------------------- MODULE EngineProofs ----------------------------
(***************************************************************************)
(* Proofs about Engine for every value of its constants: the type          *)
(* invariant and HeadsResolve (every link the engine hands out names a     *)
(* stored advertisement), whatever the number of concurrent callers,       *)
(* datastore failures and crashes.                                         *)
(***************************************************************************)
EXTENDS Engine, TLAPS

(* What a caller in the middle of a call holds, by the step it is at:      *)
(* the metadata and the entries link it will put in its ad, the entries    *)
(* CID it read (and will delete the reverse row of), and the links it holds that must already be stored: the   *)
(* PreviousID it read, the ad it stored and is about to make the head or   *)
(* announce, and the head PublishLatest read.                              *)
CallInv(c) ==
    /\ pc[c] \in {"chunk", "putFwd", "putRev", "getMd", "putMd", "getLatest",
                  "store", "putLatest", "announce"} => callMd[c] \in AllMetadata
    /\ pc[c] \in {"putFwd", "putRev", "putMd", "getLatest", "store",
                  "putLatest", "announce"} => cidsLnk[c] \in EntriesCids
    /\ pc[c] \in {"getMd", "delFwd", "delRev"} => existing[c] \in EntriesCids
    /\ pc[c] = "store" => prevAdvID[c] = Undef \/ prevAdvID[c] \in blocks
    /\ pc[c] \in {"putLatest", "announce"} => NewAd(c) \in blocks
    /\ pc[c] = "plUpdate" => adCid[c] = Undef \/ adCid[c] \in blocks

(* The inductive invariant: HeadsResolve is not inductive alone, since a   *)
(* caller between Store and PutLatest, or between the two steps of         *)
(* PublishLatest, holds a link that its next step publishes.               *)
IInv == TypeOK /\ HeadsResolve /\ \A c \in Callers : CallInv(c)

USE ConstantsAssumption

LEMMA AnyKeyInKeys == AnyKey \in Keys
<1>1. PICK p \in Providers : TRUE
    BY ConstantsAssumption
<1>2. PICK x \in ContextIDs : TRUE
    BY ConstantsAssumption
<1>3. <<p, x>> \in Keys
    BY <1>1, <1>2 DEF Keys
<1>4. QED
    BY <1>3 DEF AnyKey

(* The ad a caller builds is an advertisement record once its metadata and *)
(* entries link are set.                                                   *)
LEMMA NewAdIsAd ==
    ASSUME TypeOK, NEW c \in Callers,
           callMd[c] \in AllMetadata, cidsLnk[c] \in EntriesCids
    PROVE  IsAd(NewAd(c))
BY DEF TypeOK, IsAd, NewAd, AdFields, Keys

(* The initial state satisfies the inductive invariant.                   *)
THEOREM InitIInv == Init => IInv
<1> SUFFICES ASSUME Init PROVE IInv
    OBVIOUS
<1>1. TypeOK
    <2>1. ctxKey \in [Callers -> Keys]
        BY AnyKeyInKeys DEF Init
    <2>2. QED
        BY <2>1 DEF Init, TypeOK, Steps
<1>2. HeadsResolve
    BY DEF Init, HeadsResolve
<1>3. \A c \in Callers : CallInv(c)
    BY DEF Init, CallInv
<1>4. QED
    BY <1>1, <1>2, <1>3 DEF IInv


LEMMA NoEntriesIn == NoEntries \in EntriesCids
BY DEF EntriesCids, Chunk

(* Each action preserves the inductive invariant.                          *)
LEMMA StartIInv == IInv /\ Start => IInv'
BY DEF IInv, TypeOK, HeadsResolve, CallInv, NewAd, Start, indexVars, localVars, boundVars

LEMMA RegisterIInv == IInv /\ RegisterMultihashLister => IInv'
BY DEF IInv, TypeOK, HeadsResolve, CallInv, NewAd, RegisterMultihashLister,
       indexVars, chainVars, localVars, boundVars

(* The process dying keeps IInv, whatever the counters become.            *)
LEMMA DiesIInv ==
    ASSUME IInv, ProcessDies, calls' \in Nat, faults' \in Nat, crashes' \in Nat
    PROVE  IInv'
<1>1. TypeOK'
    <2>1. /\ fwd' = fwd /\ rev' = rev /\ mdRow' = mdRow
          /\ blocks' = blocks /\ latest' = latest
        BY DEF ProcessDies, indexVars
    <2>2. ctxKey' \in [Callers -> Keys]
        BY AnyKeyInKeys DEF ProcessDies
    <2>3. /\ pc' \in [Callers -> Steps]
          /\ op' \in [Callers -> {"none", "put", "remove", "latest"}]
          /\ callMd' \in [Callers -> AllMetadata \cup {None}]
          /\ existing' \in [Callers -> EntriesCids \cup {None}]
          /\ cidsLnk' \in [Callers -> EntriesCids \cup {None}]
        BY DEF ProcessDies, Steps
    <2>4. /\ DOMAIN prevAdvID' = Callers
          /\ \A c \in Callers : prevAdvID'[c] = Undef
          /\ DOMAIN adCid' = Callers
          /\ \A c \in Callers : adCid'[c] = Undef
        BY DEF ProcessDies
    <2>5. /\ up' \in BOOLEAN /\ listerSet' \in BOOLEAN /\ pubRoot' = Undef
        BY DEF ProcessDies
    <2>6. QED
        BY <2>1, <2>2, <2>3, <2>4, <2>5 DEF IInv, TypeOK
<1>2. HeadsResolve'
    BY DEF IInv, HeadsResolve, ProcessDies, indexVars
<1>3. \A d \in Callers : CallInv(d)'
    BY DEF CallInv, ProcessDies
<1>4. QED
    BY <1>1, <1>2, <1>3 DEF IInv

LEMMA CrashIInv == IInv /\ Crash => IInv'
<1> SUFFICES ASSUME IInv, Crash PROVE IInv'
    OBVIOUS
<1>1. calls' \in Nat /\ faults' \in Nat /\ crashes' \in Nat
    BY DEF IInv, TypeOK, Crash
<1>2. QED
    BY <1>1, DiesIInv DEF Crash

LEMMA PublishLatestPanicIInv ==
    ASSUME IInv, NEW c \in Callers, PublishLatestPanic(c)
    PROVE  IInv'
<1>1. calls' \in Nat /\ faults' \in Nat /\ crashes' \in Nat
    BY DEF IInv, TypeOK, PublishLatestPanic
<1>2. QED
    BY <1>1, DiesIInv DEF PublishLatestPanic

LEMMA NotifyPutIInv ==
    ASSUME IInv, NEW c \in Callers, NEW k \in Keys, NEW md \in AllMetadata,
           NotifyPut(c, k, md)
    PROVE  IInv'
BY DEF IInv, TypeOK, HeadsResolve, CallInv, NewAd, NotifyPut, Goto, Steps,
       AllMetadata, indexVars, chainVars

LEMMA NotifyRemoveIInv ==
    ASSUME IInv, NEW c \in Callers, NEW k \in Keys, NotifyRemove(c, k)
    PROVE  IInv'
BY DEF IInv, TypeOK, HeadsResolve, CallInv, NewAd, NotifyRemove, Goto, Steps,
       indexVars, chainVars

LEMMA PublishLatestIInv ==
    ASSUME IInv, NEW c \in Callers, PublishLatest(c)
    PROVE  IInv'
BY DEF IInv, TypeOK, HeadsResolve, CallInv, NewAd, PublishLatest, Goto, Steps,
       indexVars, chainVars


(* A call that returns, changing nothing but its step and locals, keeps    *)
(* the state well typed.                                                   *)
LEMMA ReturnTypeOK ==
    ASSUME TypeOK, NEW c \in Callers, Return(c),
           fwd' = fwd, rev' = rev, mdRow' = mdRow, blocks' = blocks,
           latest' = latest, pubRoot' = pubRoot, up' = up,
           listerSet' = listerSet, calls' = calls, faults' = faults,
           crashes' = crashes
    PROVE  TypeOK'
<1>1. /\ fwd' \in [Keys -> EntriesCids \cup {None}]
      /\ rev' \in [EntriesCids -> Keys \cup {None}]
      /\ mdRow' \in [Keys -> AllMetadata \cup {None}]
      /\ \A a \in blocks' : IsAd(a)
      /\ latest' = Undef \/ IsAd(latest')
      /\ pubRoot' = Undef \/ IsAd(pubRoot')
    BY DEF TypeOK
<1>2. up' \in BOOLEAN /\ listerSet' \in BOOLEAN
    BY DEF TypeOK
<1>3. calls' \in Nat /\ faults' \in Nat /\ crashes' \in Nat
    BY DEF TypeOK
<1>4. /\ pc' \in [Callers -> Steps]
      /\ op' \in [Callers -> {"none", "put", "remove", "latest"}]
      /\ ctxKey' \in [Callers -> Keys]
      /\ callMd' \in [Callers -> AllMetadata \cup {None}]
      /\ existing' \in [Callers -> EntriesCids \cup {None}]
      /\ cidsLnk' \in [Callers -> EntriesCids \cup {None}]
    BY AnyKeyInKeys DEF TypeOK, Return, Steps
<1>5. /\ DOMAIN prevAdvID' = Callers
      /\ \A d \in Callers : prevAdvID'[d] = Undef \/ IsAd(prevAdvID'[d])
      /\ DOMAIN adCid' = Callers
      /\ \A d \in Callers : adCid'[d] = Undef \/ IsAd(adCid'[d])
    BY DEF TypeOK, Return
<1>6. QED
    BY <1>1, <1>2, <1>3, <1>4, <1>5 DEF TypeOK

LEMMA ChunkEntriesIInv ==
    ASSUME IInv, NEW c \in Callers, ChunkEntries(c)
    PROVE  IInv'
<1>0. Chunk(Lister[ctxKey[c]]) \in EntriesCids
    BY DEF IInv, TypeOK, EntriesCids
<1>1. TypeOK'
    <2>1. CASE ~listerSet
        <3>1. Return(c)
            BY <2>1 DEF ChunkEntries
        <3>2. /\ fwd' = fwd /\ rev' = rev /\ mdRow' = mdRow /\ blocks' = blocks
              /\ latest' = latest /\ pubRoot' = pubRoot /\ up' = up
              /\ listerSet' = listerSet /\ calls' = calls /\ faults' = faults
              /\ crashes' = crashes
            BY DEF ChunkEntries, indexVars, chainVars, boundVars
        <3>3. QED
            BY <3>1, <3>2, ReturnTypeOK DEF IInv
    <2>2. CASE listerSet
        BY <1>0, <2>2 DEF IInv, TypeOK, ChunkEntries, Goto, Steps,
           indexVars, chainVars, boundVars
    <2>3. QED
        BY <2>1, <2>2
<1>2. HeadsResolve'
    <2>1. blocks' = blocks /\ latest' = latest /\ pubRoot' = pubRoot
        BY DEF ChunkEntries, chainVars
    <2>2. QED
        BY <2>1 DEF IInv, HeadsResolve
<1>3. \A d \in Callers : CallInv(d)'
    <2>1. CASE ~listerSet
        BY <2>1 DEF IInv, TypeOK, CallInv, ChunkEntries, NewAd, Return,
           indexVars, chainVars, boundVars
    <2>2. CASE listerSet
        <3>1. /\ pc' = [pc EXCEPT ![c] = "putFwd"]
              /\ cidsLnk' = [cidsLnk EXCEPT ![c] = Chunk(Lister[ctxKey[c]])]
              /\ op' = op /\ ctxKey' = ctxKey /\ callMd' = callMd
              /\ existing' = existing /\ prevAdvID' = prevAdvID
              /\ adCid' = adCid /\ blocks' = blocks
            BY <2>2 DEF ChunkEntries, Goto, chainVars
        <3>2. SUFFICES ASSUME NEW d \in Callers PROVE CallInv(d)'
            OBVIOUS
        <3>3. CASE d = c
            <4>1. pc'[c] = "putFwd" /\ cidsLnk'[c] = Chunk(Lister[ctxKey[c]])
                BY <3>1 DEF IInv, TypeOK
            <4>2. callMd[c] \in AllMetadata /\ Chunk(Lister[ctxKey[c]]) \in EntriesCids
                BY <1>0, <3>1 DEF IInv, CallInv, ChunkEntries
            <4>3. QED
                BY <3>1, <3>3, <4>1, <4>2 DEF CallInv
        <3>4. CASE d # c
            <4>1. /\ pc'[d] = pc[d] /\ cidsLnk'[d] = cidsLnk[d]
                  /\ NewAd(d)' = NewAd(d)
                BY <3>1, <3>4 DEF IInv, TypeOK, NewAd
            <4>2. QED
                BY <3>1, <4>1 DEF IInv, CallInv
        <3>5. QED
            BY <3>3, <3>4
    <2>3. QED
        BY <2>1, <2>2
<1>4. QED
    BY <1>1, <1>2, <1>3 DEF IInv

LEMMA PutKeyCidIInv ==
    ASSUME IInv, NEW c \in Callers, PutKeyCid(c)
    PROVE  IInv'
<1>1. TypeOK'
    BY AnyKeyInKeys DEF IInv, TypeOK, CallInv, PutKeyCid, Goto, Return, Steps,
       indexVars, chainVars, localVars, boundVars
<1>2. HeadsResolve'
    BY DEF IInv, TypeOK, HeadsResolve, CallInv, PutKeyCid, NewAd,
       indexVars, chainVars, localVars, boundVars
<1>3. \A d \in Callers : CallInv(d)'
    BY DEF IInv, TypeOK, HeadsResolve, CallInv, PutKeyCid, NewAd, Goto, Return,
       indexVars, chainVars, localVars, boundVars
<1>4. QED
    BY <1>1, <1>2, <1>3 DEF IInv

LEMMA PutCidKeyIInv ==
    ASSUME IInv, NEW c \in Callers, PutCidKey(c)
    PROVE  IInv'
<1>1. TypeOK'
    BY AnyKeyInKeys DEF IInv, TypeOK, CallInv, PutCidKey, Goto, Return, Steps,
       indexVars, chainVars, localVars, boundVars
<1>2. HeadsResolve'
    BY DEF IInv, TypeOK, HeadsResolve, CallInv, PutCidKey, NewAd,
       indexVars, chainVars, localVars, boundVars
<1>3. \A d \in Callers : CallInv(d)'
    BY DEF IInv, TypeOK, HeadsResolve, CallInv, PutCidKey, NewAd, Goto, Return,
       indexVars, chainVars, localVars, boundVars
<1>4. QED
    BY <1>1, <1>2, <1>3 DEF IInv

LEMMA GetMetadataIInv ==
    ASSUME IInv, NEW c \in Callers, GetMetadata(c)
    PROVE  IInv'
<1>1. TypeOK'
    <2>1. CASE callMd[c] = PrevMetadata(c)
        <3>1. Return(c)
            BY <2>1 DEF GetMetadata
        <3>2. /\ fwd' = fwd /\ rev' = rev /\ mdRow' = mdRow /\ blocks' = blocks
              /\ latest' = latest /\ pubRoot' = pubRoot /\ up' = up
              /\ listerSet' = listerSet /\ calls' = calls /\ faults' = faults
              /\ crashes' = crashes
            BY DEF GetMetadata, indexVars, chainVars, boundVars
        <3>3. QED
            BY <3>1, <3>2, ReturnTypeOK DEF IInv
    <2>2. CASE callMd[c] # PrevMetadata(c)
        <3>1. existing[c] \in EntriesCids
            BY DEF IInv, CallInv, GetMetadata
        <3>2. QED
            BY <2>2, <3>1 DEF IInv, TypeOK, GetMetadata, Goto, Steps,
               indexVars, chainVars, boundVars
    <2>3. QED
        BY <2>1, <2>2
<1>2. HeadsResolve'
    <2>1. blocks' = blocks /\ latest' = latest /\ pubRoot' = pubRoot
        BY DEF GetMetadata, chainVars
    <2>2. QED
        BY <2>1 DEF IInv, HeadsResolve
<1>3. \A d \in Callers : CallInv(d)'
    <2>1. CASE callMd[c] = PrevMetadata(c)
        BY <2>1 DEF IInv, TypeOK, HeadsResolve, CallInv, GetMetadata, NewAd,
           Return, indexVars, chainVars, boundVars
    <2>2. CASE callMd[c] # PrevMetadata(c)
        <3>1. /\ pc' = [pc EXCEPT ![c] = "putMd"]
              /\ cidsLnk' = [cidsLnk EXCEPT ![c] = existing[c]]
              /\ op' = op /\ ctxKey' = ctxKey /\ callMd' = callMd
              /\ existing' = existing /\ prevAdvID' = prevAdvID
              /\ adCid' = adCid /\ blocks' = blocks
            BY <2>2 DEF GetMetadata, Goto, chainVars
        <3>2. SUFFICES ASSUME NEW d \in Callers PROVE CallInv(d)'
            OBVIOUS
        <3>3. CASE d = c
            <4>1. pc'[c] = "putMd" /\ cidsLnk'[c] = existing[c]
                BY <3>1 DEF IInv, TypeOK
            <4>2. callMd[c] \in AllMetadata /\ existing[c] \in EntriesCids
                BY <3>1 DEF IInv, CallInv, GetMetadata
            <4>3. QED
                BY <3>1, <3>3, <4>1, <4>2 DEF CallInv
        <3>4. CASE d # c
            <4>1. /\ pc'[d] = pc[d] /\ cidsLnk'[d] = cidsLnk[d]
                  /\ NewAd(d)' = NewAd(d)
                BY <3>1, <3>4 DEF IInv, TypeOK, NewAd
            <4>2. QED
                BY <3>1, <4>1 DEF IInv, CallInv
        <3>5. QED
            BY <3>3, <3>4
    <2>3. QED
        BY <2>1, <2>2
<1>4. QED
    BY <1>1, <1>2, <1>3 DEF IInv

LEMMA PutMetadataIInv ==
    ASSUME IInv, NEW c \in Callers, PutMetadata(c)
    PROVE  IInv'
<1>1. TypeOK'
    BY AnyKeyInKeys DEF IInv, TypeOK, CallInv, PutMetadata, Goto, Return, Steps,
       indexVars, chainVars, localVars, boundVars
<1>2. HeadsResolve'
    BY DEF IInv, TypeOK, HeadsResolve, CallInv, PutMetadata, NewAd,
       indexVars, chainVars, localVars, boundVars
<1>3. \A d \in Callers : CallInv(d)'
    BY DEF IInv, TypeOK, HeadsResolve, CallInv, PutMetadata, NewAd, Goto, Return,
       indexVars, chainVars, localVars, boundVars
<1>4. QED
    BY <1>1, <1>2, <1>3 DEF IInv

LEMMA DeleteKeyCidIInv ==
    ASSUME IInv, NEW c \in Callers, DeleteKeyCid(c)
    PROVE  IInv'
<1>1. TypeOK'
    BY AnyKeyInKeys DEF IInv, TypeOK, CallInv, DeleteKeyCid, Goto, Return, Steps,
       indexVars, chainVars, localVars, boundVars
<1>2. HeadsResolve'
    BY DEF IInv, TypeOK, HeadsResolve, CallInv, DeleteKeyCid, NewAd,
       indexVars, chainVars, localVars, boundVars
<1>3. \A d \in Callers : CallInv(d)'
    BY DEF IInv, TypeOK, HeadsResolve, CallInv, DeleteKeyCid, NewAd, Goto, Return,
       indexVars, chainVars, localVars, boundVars
<1>4. QED
    BY <1>1, <1>2, <1>3 DEF IInv

LEMMA DeleteCidKeyIInv ==
    ASSUME IInv, NEW c \in Callers, DeleteCidKey(c)
    PROVE  IInv'
<1>1. TypeOK'
    BY AnyKeyInKeys DEF IInv, TypeOK, CallInv, DeleteCidKey, Goto, Return, Steps,
       indexVars, chainVars, localVars, boundVars
<1>2. HeadsResolve'
    BY DEF IInv, TypeOK, HeadsResolve, CallInv, DeleteCidKey, NewAd,
       indexVars, chainVars, localVars, boundVars
<1>3. \A d \in Callers : CallInv(d)'
    BY DEF IInv, TypeOK, HeadsResolve, CallInv, DeleteCidKey, NewAd, Goto, Return,
       indexVars, chainVars, localVars, boundVars
<1>4. QED
    BY <1>1, <1>2, <1>3 DEF IInv

LEMMA DeleteMetadataIInv ==
    ASSUME IInv, NEW c \in Callers, DeleteMetadata(c)
    PROVE  IInv'
<1>1. TypeOK'
    BY NoEntriesIn, AnyKeyInKeys DEF IInv, TypeOK, CallInv, DeleteMetadata, AllMetadata, Goto, Return, Steps,
       indexVars, chainVars, localVars, boundVars
<1>2. HeadsResolve'
    BY DEF IInv, TypeOK, HeadsResolve, CallInv, DeleteMetadata, NewAd,
       indexVars, chainVars, localVars, boundVars
<1>3. \A d \in Callers : CallInv(d)'
    BY NoEntriesIn DEF IInv, TypeOK, HeadsResolve, CallInv, DeleteMetadata, AllMetadata, NewAd, Goto, Return,
       indexVars, chainVars, localVars, boundVars
<1>4. QED
    BY <1>1, <1>2, <1>3 DEF IInv

LEMMA GetLatestIInv ==
    ASSUME IInv, NEW c \in Callers, GetLatest(c)
    PROVE  IInv'
<1>1. TypeOK'
    BY AnyKeyInKeys DEF IInv, TypeOK, CallInv, GetLatest, Goto, Return, Steps,
       indexVars, chainVars, localVars, boundVars
<1>2. HeadsResolve'
    BY DEF IInv, TypeOK, HeadsResolve, CallInv, GetLatest, NewAd,
       indexVars, chainVars, localVars, boundVars
<1>3. \A d \in Callers : CallInv(d)'
    BY DEF IInv, TypeOK, HeadsResolve, CallInv, GetLatest, NewAd, Goto, Return,
       indexVars, chainVars, localVars, boundVars
<1>4. QED
    BY <1>1, <1>2, <1>3 DEF IInv

LEMMA StoreIInv ==
    ASSUME IInv, NEW c \in Callers, Store(c)
    PROVE  IInv'
<1>1. TypeOK'
    BY NewAdIsAd, AnyKeyInKeys DEF IInv, TypeOK, CallInv, Store, Goto, Return, Steps,
       indexVars, chainVars, localVars, boundVars
<1>2. HeadsResolve'
    BY DEF IInv, TypeOK, HeadsResolve, CallInv, Store, NewAd,
       indexVars, chainVars, localVars, boundVars
<1>3. \A d \in Callers : CallInv(d)'
    BY DEF IInv, TypeOK, HeadsResolve, CallInv, Store, NewAd, Goto, Return,
       indexVars, chainVars, localVars, boundVars
<1>4. QED
    BY <1>1, <1>2, <1>3 DEF IInv

LEMMA PutLatestIInv ==
    ASSUME IInv, NEW c \in Callers, PutLatest(c)
    PROVE  IInv'
<1>1. TypeOK'
    BY AnyKeyInKeys DEF IInv, TypeOK, CallInv, PutLatest, Goto, Return, Steps,
       indexVars, chainVars, localVars, boundVars
<1>2. HeadsResolve'
    BY DEF IInv, TypeOK, HeadsResolve, CallInv, PutLatest, NewAd,
       indexVars, chainVars, localVars, boundVars
<1>3. \A d \in Callers : CallInv(d)'
    BY DEF IInv, TypeOK, HeadsResolve, CallInv, PutLatest, NewAd, Goto, Return,
       indexVars, chainVars, localVars, boundVars
<1>4. QED
    BY <1>1, <1>2, <1>3 DEF IInv

LEMMA AnnounceIInv ==
    ASSUME IInv, NEW c \in Callers, Announce(c)
    PROVE  IInv'
<1>1. TypeOK'
    BY AnyKeyInKeys DEF IInv, TypeOK, CallInv, Announce, Goto, Return, Steps,
       indexVars, chainVars, localVars, boundVars
<1>2. HeadsResolve'
    BY DEF IInv, TypeOK, HeadsResolve, CallInv, Announce, NewAd,
       indexVars, chainVars, localVars, boundVars
<1>3. \A d \in Callers : CallInv(d)'
    BY DEF IInv, TypeOK, HeadsResolve, CallInv, Announce, NewAd, Goto, Return,
       indexVars, chainVars, localVars, boundVars
<1>4. QED
    BY <1>1, <1>2, <1>3 DEF IInv

LEMMA PublishLatestUpdateIInv ==
    ASSUME IInv, NEW c \in Callers, PublishLatestUpdate(c)
    PROVE  IInv'
<1>1. TypeOK'
    BY AnyKeyInKeys DEF IInv, TypeOK, CallInv, PublishLatestUpdate, Goto, Return, Steps,
       indexVars, chainVars, localVars, boundVars
<1>2. HeadsResolve'
    BY DEF IInv, TypeOK, HeadsResolve, CallInv, PublishLatestUpdate, NewAd,
       indexVars, chainVars, localVars, boundVars
<1>3. \A d \in Callers : CallInv(d)'
    BY DEF IInv, TypeOK, HeadsResolve, CallInv, PublishLatestUpdate, NewAd, Goto, Return,
       indexVars, chainVars, localVars, boundVars
<1>4. QED
    BY <1>1, <1>2, <1>3 DEF IInv

LEMMA DatastoreFailIInv ==
    ASSUME IInv, NEW c \in Callers, DatastoreFail(c)
    PROVE  IInv'
<1>1. TypeOK'
    BY AnyKeyInKeys DEF IInv, TypeOK, CallInv, DatastoreFail, Goto, Return, Steps,
       indexVars, chainVars, localVars, boundVars
<1>2. HeadsResolve'
    BY DEF IInv, TypeOK, HeadsResolve, CallInv, DatastoreFail, NewAd,
       indexVars, chainVars, localVars, boundVars
<1>3. \A d \in Callers : CallInv(d)'
    BY DEF IInv, TypeOK, HeadsResolve, CallInv, DatastoreFail, NewAd, Goto, Return,
       indexVars, chainVars, localVars, boundVars
<1>4. QED
    BY <1>1, <1>2, <1>3 DEF IInv

(* Every step of Next, and every stuttering step, preserves IInv.          *)
THEOREM NextIInv == IInv /\ [Next]_vars => IInv'
<1> SUFFICES ASSUME IInv, [Next]_vars PROVE IInv'
    OBVIOUS
<1>1. CASE Start
    BY <1>1, StartIInv
<1>2. CASE RegisterMultihashLister
    BY <1>2, RegisterIInv
<1>3. CASE Crash
    BY <1>3, CrashIInv
<1>4. ASSUME NEW c \in Callers, CallerStep(c) PROVE IInv'
    BY <1>4, ChunkEntriesIInv, PutKeyCidIInv, PutCidKeyIInv, GetMetadataIInv,
       PutMetadataIInv, DeleteKeyCidIInv, DeleteCidKeyIInv,
       DeleteMetadataIInv, GetLatestIInv, StoreIInv, PutLatestIInv,
       AnnounceIInv, PublishLatestUpdateIInv, DatastoreFailIInv
       DEF CallerStep
<1>5. CASE \E c \in Callers :
             \/ \E k \in Keys, md \in AllMetadata : NotifyPut(c, k, md)
             \/ \E k \in Keys : NotifyRemove(c, k)
             \/ PublishLatest(c)
             \/ PublishLatestPanic(c)
             \/ CallerStep(c)
    BY <1>5, <1>4, NotifyPutIInv, NotifyRemoveIInv, PublishLatestIInv,
       PublishLatestPanicIInv
<1>6. CASE UNCHANGED vars
    <2>1. /\ fwd' = fwd /\ rev' = rev /\ mdRow' = mdRow /\ blocks' = blocks
          /\ latest' = latest /\ pubRoot' = pubRoot /\ up' = up
          /\ listerSet' = listerSet /\ pc' = pc /\ op' = op /\ ctxKey' = ctxKey
          /\ callMd' = callMd /\ existing' = existing /\ cidsLnk' = cidsLnk
          /\ prevAdvID' = prevAdvID /\ adCid' = adCid /\ calls' = calls
          /\ faults' = faults /\ crashes' = crashes
        BY <1>6 DEF vars, indexVars, chainVars, localVars, boundVars
    <2>2. TypeOK'
        BY <2>1 DEF IInv, TypeOK, IsAd
    <2>3. HeadsResolve'
        BY <2>1 DEF IInv, HeadsResolve
    <2>4. \A c \in Callers : CallInv(c)'
        BY <2>1 DEF IInv, CallInv, NewAd
    <2>5. QED
        BY <2>2, <2>3, <2>4 DEF IInv
<1>7. QED
    BY <1>1, <1>2, <1>3, <1>5, <1>6 DEF Next

(* HeadsResolve holds in every reachable state, for any number of callers, *)
(* failed datastore operations and crashes: the latest pointer, the        *)
(* publisher's root and every PreviousID of a stored ad name a stored ad   *)
(* (PublishLocal stores before it moves sync/adv/; Start and Publish take  *)
(* the root from what sync/adv/ or the call already stored).               *)
THEOREM HeadsResolveHolds == Spec => []HeadsResolve
<1>1. IInv => HeadsResolve
    BY DEF IInv
<1>2. QED
    BY <1>1, InitIInv, NextIInv, PTL DEF Spec

(* Type correctness of the engine's state in every reachable state.        *)
THEOREM TypeCorrect == Spec => []TypeOK
<1>1. IInv => TypeOK
    BY DEF IInv
<1>2. QED
    BY <1>1, InitIInv, NextIInv, PTL DEF Spec


=============================================================================
