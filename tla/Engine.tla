------------------------------- MODULE Engine -------------------------------
(***************************************************************************)
(* The write path of the index-provider engine (engine.go): NotifyPut,     *)
(* NotifyRemove and publishAdvForIndex, Publish/PublishLocal, PublishLatest *)
(* and Start, over the datastore rows they read and write.                  *)
(*                                                                         *)
(* Every call of the engine runs in the caller's goroutine.  A call is a   *)
(* sequence of datastore operations, each atomic on its own, and the model *)
(* takes one step per operation so that the steps of concurrent callers    *)
(* interleave exactly where the code lets them: publishAdvForIndex holds   *)
(* no lock (cblk guards only RegisterMultihashLister).  Any datastore      *)
(* operation may fail (an I/O error or a cancelled context); the call then *)
(* returns its error and leaves behind whatever it already wrote.  The     *)
(* process may crash at any moment, losing every in-flight call, the       *)
(* registered lister and the publisher's in-memory root, and is restarted  *)
(* by Start.                                                               *)
(*                                                                         *)
(* Data is abstracted: a multihash list is a model value, the CID of its   *)
(* entry chain is that value (content addressing: the same list chunks to  *)
(* the same chain), and the CID of an advertisement is the advertisement   *)
(* record itself, so that two identical advertisements are one block.      *)
(* Datastore keys are the (provider, contextID) pairs they encode; module  *)
(* KeyEncoding checks when that encoding is not injective.                *)
(***************************************************************************)
EXTENDS Naturals

CONSTANTS
    Callers,          \* goroutines that call the engine concurrently
    Providers,        \* peer IDs a caller may name (NotifyPut's provider)
    ContextIDs,       \* context IDs a caller may name
    Metadata,         \* metadata values callers pass to NotifyPut
    EmptyMetadata,    \* metadata.Default.New(): the removal ad's metadata
    Lists,            \* multihash lists the lister may return
    EmptyList,        \* the list with no multihashes
    Lister,           \* the registered MultihashLister: [Keys -> Lists]
    NoEntries,        \* schema.NoEntries, the "no entries" link
    Undef,            \* cid.Undef
    None,             \* a datastore row that is absent
    HasPublisher,     \* pubKind # NoPublisher
    MaxCalls,         \* bound on the calls made by all callers
    MaxFaults,        \* bound on failed datastore operations
    MaxCrashes        \* bound on process crashes

Keys == Providers \X ContextIDs

(* The CID of the head of the entry chain the chunker writes for list l.   *)
(* An empty iterator yields no link, which publishAdvForIndex replaces by  *)
(* schema.NoEntries.                                                       *)
Chunk(l) == IF l = EmptyList THEN NoEntries ELSE l

EntriesCids == {Chunk(l) : l \in Lists}

AllMetadata == Metadata \cup {EmptyMetadata}

ASSUME ConstantsAssumption ==
    /\ Providers # {} /\ ContextIDs # {}
    /\ EmptyList \in Lists
    /\ NoEntries \notin Lists
    /\ Lister \in [Keys -> Lists]
    /\ EmptyMetadata \notin Metadata
    /\ {Undef, None} \cap (EntriesCids \cup AllMetadata) = {}
    /\ Undef # None
    /\ None \notin Keys \cup (EntriesCids \X AllMetadata)
    /\ HasPublisher \in BOOLEAN
    /\ MaxCalls \in Nat /\ MaxFaults \in Nat /\ MaxCrashes \in Nat

VARIABLES
    fwd,        \* map/keyCid/: keyToCid rows, key -> entries CID
    rev,        \* map/cidProvAndKey/: entries CID -> (provider, contextID)
    mdRow,      \* map/keyMD/: key -> metadata
    blocks,     \* advertisements stored in the link system
    latest,     \* sync/adv/: CID of the latest advertisement
    pubRoot,    \* root held by the publisher (SetRoot/UpdateRoot)
    up,         \* Start has returned and no crash since
    listerSet,  \* e.mhLister # nil
    pc,         \* per caller: the datastore operation it performs next
    op,         \* per caller: "put", "remove", "latest" or "none" (idle)
    ctxKey,     \* per caller: its (provider, contextID)
    callMd,     \* per caller: md, the metadata of its ad
    existing,   \* per caller: c, the entries CID getKeyCidMap returned
    cidsLnk,    \* per caller: cidsLnk, the entries link of its ad
    prevAdvID,  \* per caller: prevAdvID, the PreviousID of its ad
    adCid,      \* per caller: adCid, the head PublishLatest read
    calls,      \* calls made so far (bounded by MaxCalls)
    faults,     \* failed datastore operations so far
    crashes     \* crashes so far

indexVars == <<fwd, rev, mdRow>>
chainVars == <<blocks, latest, pubRoot>>
localVars == <<op, ctxKey, callMd, existing, cidsLnk, prevAdvID, adCid>>
boundVars == <<calls, faults, crashes>>
vars == <<indexVars, chainVars, up, listerSet, pc, localVars, boundVars>>

AdFields == {"provider", "contextID", "entries", "metadata", "isRm", "previous"}

(* An advertisement record; its previous link is Undef or another record.  *)
IsAd(a) ==
    /\ DOMAIN a = AdFields
    /\ a.provider \in Providers
    /\ a.contextID \in ContextIDs
    /\ a.entries \in EntriesCids
    /\ a.metadata \in AllMetadata
    /\ a.isRm \in BOOLEAN
    /\ a.previous = Undef \/ DOMAIN a.previous = AdFields

AdKey(a) == <<a.provider, a.contextID>>

Steps == {"idle", "chunk", "putFwd", "putRev", "getMd", "putMd",
          "delFwd", "delRev", "delMd", "getLatest", "store", "putLatest",
          "announce", "plUpdate"}

(* The steps that perform a datastore operation whose error is returned.   *)
FallibleSteps == {"chunk", "putFwd", "putRev", "getMd", "putMd", "delFwd",
                  "delRev", "delMd", "getLatest", "store", "putLatest"}

AnyKey == CHOOSE k \in Keys : TRUE

TypeOK ==
    /\ fwd \in [Keys -> EntriesCids \cup {None}]
    /\ rev \in [EntriesCids -> Keys \cup {None}]
    /\ mdRow \in [Keys -> AllMetadata \cup {None}]
    /\ \A a \in blocks : IsAd(a)
    /\ latest = Undef \/ IsAd(latest)
    /\ pubRoot = Undef \/ IsAd(pubRoot)
    /\ up \in BOOLEAN
    /\ listerSet \in BOOLEAN
    /\ pc \in [Callers -> Steps]
    /\ op \in [Callers -> {"none", "put", "remove", "latest"}]
    /\ ctxKey \in [Callers -> Keys]
    /\ callMd \in [Callers -> AllMetadata \cup {None}]
    /\ existing \in [Callers -> EntriesCids \cup {None}]
    /\ cidsLnk \in [Callers -> EntriesCids \cup {None}]
    /\ DOMAIN prevAdvID = Callers
    /\ \A c \in Callers : prevAdvID[c] = Undef \/ IsAd(prevAdvID[c])
    /\ DOMAIN adCid = Callers
    /\ \A c \in Callers : adCid[c] = Undef \/ IsAd(adCid[c])
    /\ calls \in Nat /\ faults \in Nat /\ crashes \in Nat

Init ==
    /\ fwd = [k \in Keys |-> None]
    /\ rev = [e \in EntriesCids |-> None]
    /\ mdRow = [k \in Keys |-> None]
    /\ blocks = {}
    /\ latest = Undef
    /\ pubRoot = Undef
    /\ up = FALSE
    /\ listerSet = FALSE
    /\ pc = [c \in Callers |-> "idle"]
    /\ op = [c \in Callers |-> "none"]
    /\ ctxKey = [c \in Callers |-> AnyKey]
    /\ callMd = [c \in Callers |-> None]
    /\ existing = [c \in Callers |-> None]
    /\ cidsLnk = [c \in Callers |-> None]
    /\ prevAdvID = [c \in Callers |-> Undef]
    /\ adCid = [c \in Callers |-> Undef]
    /\ calls = 0
    /\ faults = 0
    /\ crashes = 0

(* The advertisement caller c builds from its locals (publishAdvForIndex). *)
NewAd(c) == [provider |-> ctxKey[c][1], contextID |-> ctxKey[c][2],
             entries |-> cidsLnk[c], metadata |-> callMd[c],
             isRm |-> op[c] = "remove", previous |-> prevAdvID[c]]

Goto(c, s) == pc' = [pc EXCEPT ![c] = s]

(* The call returns, with its result or its error; its locals are dropped. *)
Return(c) ==
    /\ pc' = [pc EXCEPT ![c] = "idle"]
    /\ op' = [op EXCEPT ![c] = "none"]
    /\ ctxKey' = [ctxKey EXCEPT ![c] = AnyKey]
    /\ callMd' = [callMd EXCEPT ![c] = None]
    /\ existing' = [existing EXCEPT ![c] = None]
    /\ cidsLnk' = [cidsLnk EXCEPT ![c] = None]
    /\ prevAdvID' = [prevAdvID EXCEPT ![c] = Undef]
    /\ adCid' = [adCid EXCEPT ![c] = Undef]

-----------------------------------------------------------------------------
(* Start: create the chunker and the publisher, and set the publisher's    *)
(* root to the persisted latest advertisement.                             *)
Start ==
    /\ ~up
    /\ up' = TRUE
    /\ pubRoot' = IF HasPublisher THEN latest ELSE Undef
    /\ UNCHANGED <<indexVars, blocks, latest, listerSet, pc, localVars, boundVars>>

(* A later registration replaces the lister; the model has one lister.     *)
RegisterMultihashLister ==
    /\ listerSet' = TRUE
    /\ UNCHANGED <<indexVars, chainVars, up, pc, localVars, boundVars>>

(* NotifyPut(provider, contextID, md) and NotifyRemove(provider,          *)
(* contextID) enter publishAdvForIndex, whose first operation reads the   *)
(* keyToCid row.  A removal of an unknown key fails ContextIDNotFound.     *)
NotifyPut(c, k, md) ==
    /\ up /\ pc[c] = "idle" /\ calls < MaxCalls
    /\ calls' = calls + 1
    /\ op' = [op EXCEPT ![c] = "put"]
    /\ ctxKey' = [ctxKey EXCEPT ![c] = k]
    /\ callMd' = [callMd EXCEPT ![c] = md]
    /\ existing' = [existing EXCEPT ![c] = fwd[k]]
    /\ Goto(c, IF fwd[k] = None THEN "chunk" ELSE "getMd")
    /\ UNCHANGED <<indexVars, chainVars, up, listerSet, cidsLnk, prevAdvID,
                   adCid, faults, crashes>>

NotifyRemove(c, k) ==
    /\ up /\ pc[c] = "idle" /\ calls < MaxCalls
    /\ calls' = calls + 1
    /\ IF fwd[k] = None
         THEN UNCHANGED <<pc, op, ctxKey, existing>>
         ELSE /\ op' = [op EXCEPT ![c] = "remove"]
              /\ ctxKey' = [ctxKey EXCEPT ![c] = k]
              /\ existing' = [existing EXCEPT ![c] = fwd[k]]
              /\ Goto(c, "delFwd")
    /\ UNCHANGED <<indexVars, chainVars, up, listerSet, callMd, cidsLnk,
                   prevAdvID, adCid, faults, crashes>>

(* Mutant: without ErrNoMultihashLister the call waits for a lister.      *)
ChunkEntriesWaitForLister(c) ==
    /\ pc[c] = "chunk"
    /\ listerSet
    /\ cidsLnk' = [cidsLnk EXCEPT ![c] = Chunk(Lister[ctxKey[c]])]
    /\ Goto(c, "putFwd")
    /\ UNCHANGED <<op, ctxKey, callMd, existing, prevAdvID, adCid>>
    /\ UNCHANGED <<indexVars, chainVars, up, listerSet, boundVars>>

(* Mutant: the NoEntries substitute for an empty chain is dropped.      *)
ChunkEntriesNoSentinel(c) ==
    /\ pc[c] = "chunk"
    /\ IF ~listerSet
         THEN Return(c)
         ELSE /\ cidsLnk' = [cidsLnk EXCEPT ![c] = Lister[ctxKey[c]]]
              /\ Goto(c, "putFwd")
              /\ UNCHANGED <<op, ctxKey, callMd, existing, prevAdvID, adCid>>
    /\ UNCHANGED <<indexVars, chainVars, up, listerSet, boundVars>>

(* No previous entries: fail NoMultihashLister without a lister, else list *)
(* the multihashes and chunk them into an entry chain.                     *)
ChunkEntries(c) ==
    /\ pc[c] = "chunk"
    /\ IF ~listerSet
         THEN Return(c)
         ELSE /\ cidsLnk' = [cidsLnk EXCEPT ![c] = Chunk(Lister[ctxKey[c]])]
              /\ Goto(c, "putFwd")
              /\ UNCHANGED <<op, ctxKey, callMd, existing, prevAdvID, adCid>>
    /\ UNCHANGED <<indexVars, chainVars, up, listerSet, boundVars>>

(* Mutant: putKeyCidMap writes only the forward row.                      *)
PutKeyCidOnly(c) ==
    /\ pc[c] = "putFwd"
    /\ fwd' = [fwd EXCEPT ![ctxKey[c]] = cidsLnk[c]]
    /\ Goto(c, "putMd")
    /\ UNCHANGED <<rev, mdRow, chainVars, up, listerSet, localVars, boundVars>>

(* putKeyCidMap writes the forward row, then the reverse row.              *)
PutKeyCid(c) ==
    /\ pc[c] = "putFwd"
    /\ fwd' = [fwd EXCEPT ![ctxKey[c]] = cidsLnk[c]]
    /\ Goto(c, "putRev")
    /\ UNCHANGED <<rev, mdRow, chainVars, up, listerSet, localVars, boundVars>>

PutCidKey(c) ==
    /\ pc[c] = "putRev"
    /\ rev' = [rev EXCEPT ![cidsLnk[c]] = ctxKey[c]]
    /\ Goto(c, "putMd")
    /\ UNCHANGED <<fwd, mdRow, chainVars, up, listerSet, localVars, boundVars>>

(* The metadata getKeyMetadataMap yields: the empty metadata if no row.    *)
PrevMetadata(c) ==
    IF mdRow[ctxKey[c]] = None THEN EmptyMetadata ELSE mdRow[ctxKey[c]]

(* Mutant: a changed metadata skips putKeyMetadataMap.                    *)
GetMetadataNoPut(c) ==
    /\ pc[c] = "getMd"
    /\ IF callMd[c] = PrevMetadata(c)
         THEN Return(c)
         ELSE /\ cidsLnk' = [cidsLnk EXCEPT ![c] = existing[c]]
              /\ Goto(c, "getLatest")
              /\ UNCHANGED <<op, ctxKey, callMd, existing, prevAdvID, adCid>>
    /\ UNCHANGED <<indexVars, chainVars, up, listerSet, boundVars>>

(* Mutant: the md.Equal(prevMetadata) check is lost.                       *)
GetMetadataNoCompare(c) ==
    /\ pc[c] = "getMd"
    /\ cidsLnk' = [cidsLnk EXCEPT ![c] = existing[c]]
    /\ Goto(c, "putMd")
    /\ UNCHANGED <<op, ctxKey, callMd, existing, prevAdvID, adCid>>
    /\ UNCHANGED <<indexVars, chainVars, up, listerSet, boundVars>>

(* Entries exist: equal metadata fails AlreadyAdvertised, otherwise the    *)
(* entries link is reused.                                                 *)
GetMetadata(c) ==
    /\ pc[c] = "getMd"
    /\ IF callMd[c] = PrevMetadata(c)
         THEN Return(c)
         ELSE /\ cidsLnk' = [cidsLnk EXCEPT ![c] = existing[c]]
              /\ Goto(c, "putMd")
              /\ UNCHANGED <<op, ctxKey, callMd, existing, prevAdvID, adCid>>
    /\ UNCHANGED <<indexVars, chainVars, up, listerSet, boundVars>>

PutMetadata(c) ==
    /\ pc[c] = "putMd"
    /\ mdRow' = [mdRow EXCEPT ![ctxKey[c]] = callMd[c]]
    /\ Goto(c, "getLatest")
    /\ UNCHANGED <<fwd, rev, chainVars, up, listerSet, localVars, boundVars>>

(* Removal: delete the forward row, the reverse row of the entries CID     *)
(* read at the start, and the metadata row.                                *)
DeleteKeyCid(c) ==
    /\ pc[c] = "delFwd"
    /\ fwd' = [fwd EXCEPT ![ctxKey[c]] = None]
    /\ Goto(c, "delRev")
    /\ UNCHANGED <<rev, mdRow, chainVars, up, listerSet, localVars, boundVars>>

DeleteCidKey(c) ==
    /\ pc[c] = "delRev"
    /\ rev' = [rev EXCEPT ![existing[c]] = None]
    /\ Goto(c, "delMd")
    /\ UNCHANGED <<fwd, mdRow, chainVars, up, listerSet, localVars, boundVars>>

(* Mutant: the removal ad keeps the unset entries link, not NoEntries.    *)
DeleteMetadataNoSentinel(c) ==
    /\ pc[c] = "delMd"
    /\ mdRow' = [mdRow EXCEPT ![ctxKey[c]] = None]
    /\ callMd' = [callMd EXCEPT ![c] = EmptyMetadata]
    /\ Goto(c, "getLatest")
    /\ UNCHANGED <<fwd, rev, chainVars, up, listerSet, op, ctxKey, existing,
                   cidsLnk, prevAdvID, adCid, boundVars>>

(* ... and the removal ad has NoEntries and a valid empty metadata.        *)
DeleteMetadata(c) ==
    /\ pc[c] = "delMd"
    /\ mdRow' = [mdRow EXCEPT ![ctxKey[c]] = None]
    /\ cidsLnk' = [cidsLnk EXCEPT ![c] = NoEntries]
    /\ callMd' = [callMd EXCEPT ![c] = EmptyMetadata]
    /\ Goto(c, "getLatest")
    /\ UNCHANGED <<fwd, rev, chainVars, up, listerSet, op, ctxKey, existing,
                   prevAdvID, adCid, boundVars>>

(* Mutant: PreviousID taken from the publisher's root, not sync/adv/.     *)
GetLatestFromPublisher(c) ==
    /\ pc[c] = "getLatest"
    /\ prevAdvID' = [prevAdvID EXCEPT ![c] = pubRoot]
    /\ Goto(c, "store")
    /\ UNCHANGED <<indexVars, chainVars, up, listerSet, op, ctxKey, callMd,
                   existing, cidsLnk, adCid, boundVars>>

(* Read the latest advertisement CID, the new ad's PreviousID.             *)
GetLatest(c) ==
    /\ pc[c] = "getLatest"
    /\ prevAdvID' = [prevAdvID EXCEPT ![c] = latest]
    /\ Goto(c, "store")
    /\ UNCHANGED <<indexVars, chainVars, up, listerSet, op, ctxKey, callMd,
                   existing, cidsLnk, adCid, boundVars>>

(* Mutant: the error of lsys.Store is not checked and sync/adv/ is moved *)
(* whether or not the block was stored.                                    *)
StoreErrorIgnored(c) ==
    /\ pc[c] = "store"
    /\ blocks' \in {blocks, blocks \cup {NewAd(c)}}
    /\ Goto(c, "putLatest")
    /\ UNCHANGED <<indexVars, latest, pubRoot, up, listerSet, localVars, boundVars>>

(* PublishLocal: sign, validate and store the ad in the link system ...    *)
Store(c) ==
    /\ pc[c] = "store"
    /\ blocks' = blocks \cup {NewAd(c)}
    /\ Goto(c, "putLatest")
    /\ UNCHANGED <<indexVars, latest, pubRoot, up, listerSet, localVars, boundVars>>

(* ... then point sync/adv/ at it.  Without a publisher Publish returns.   *)
PutLatest(c) ==
    /\ pc[c] = "putLatest"
    /\ latest' = NewAd(c)
    /\ IF HasPublisher THEN Goto(c, "announce") /\ UNCHANGED localVars
                       ELSE Return(c)
    /\ UNCHANGED <<indexVars, blocks, pubRoot, up, listerSet, boundVars>>

(* Publish: UpdateRoot (or UpdateRootWithAddrs); a failure is logged and   *)
(* the call still returns the CID.                                         *)
Announce(c) ==
    /\ pc[c] = "announce"
    /\ pubRoot' \in {pubRoot, NewAd(c)}
    /\ Return(c)
    /\ UNCHANGED <<indexVars, blocks, latest, up, listerSet, boundVars>>

(* PublishLatest: latestAdToPublish reads the latest CID, cid.Undef if    *)
(* there is none, and PublishLatest passes it to UpdateRoot unchecked.     *)
(* Without a publisher the call panics (PublishLatestPanic).               *)
PublishLatest(c) ==
    /\ up /\ pc[c] = "idle" /\ calls < MaxCalls /\ HasPublisher
    /\ calls' = calls + 1
    /\ op' = [op EXCEPT ![c] = "latest"]
    /\ adCid' = [adCid EXCEPT ![c] = latest]
    /\ Goto(c, "plUpdate")
    /\ UNCHANGED <<indexVars, chainVars, up, listerSet, ctxKey, callMd,
                   existing, cidsLnk, prevAdvID, faults, crashes>>

(* ... then UpdateRoot with it; its error is returned.                     *)
PublishLatestUpdate(c) ==
    /\ pc[c] = "plUpdate"
    /\ pubRoot' \in {pubRoot, adCid[c]}
    /\ Return(c)
    /\ UNCHANGED <<indexVars, blocks, latest, up, listerSet, boundVars>>

(* A datastore operation of caller c fails: the call returns the error.    *)
DatastoreFail(c) ==
    /\ pc[c] \in FallibleSteps
    /\ faults < MaxFaults
    /\ faults' = faults + 1
    /\ Return(c)
    /\ UNCHANGED <<indexVars, chainVars, up, listerSet, calls, crashes>>

(* The process dies: in-flight calls, the lister and the publisher's root  *)
(* are lost; the datastore and the link system persist.                    *)
ProcessDies ==
    /\ up' = FALSE
    /\ listerSet' = FALSE
    /\ pubRoot' = Undef
    /\ pc' = [c \in Callers |-> "idle"]
    /\ op' = [c \in Callers |-> "none"]
    /\ ctxKey' = [c \in Callers |-> AnyKey]
    /\ callMd' = [c \in Callers |-> None]
    /\ existing' = [c \in Callers |-> None]
    /\ cidsLnk' = [c \in Callers |-> None]
    /\ prevAdvID' = [c \in Callers |-> Undef]
    /\ adCid' = [c \in Callers |-> Undef]
    /\ UNCHANGED <<indexVars, blocks, latest>>

(* A crash of the process (killed, out of memory, power loss).            *)
Crash ==
    /\ up
    /\ crashes < MaxCrashes
    /\ crashes' = crashes + 1
    /\ ProcessDies
    /\ UNCHANGED <<calls, faults>>

(* PublishLatest without a publisher: latestAdToPublish returns cid.Undef *)
(* and no error, and e.publisher.UpdateRoot is called on a nil interface;  *)
(* the panic is not recovered and the process dies.                        *)
PublishLatestPanic(c) ==
    /\ up /\ pc[c] = "idle" /\ calls < MaxCalls /\ ~HasPublisher
    /\ calls' = calls + 1
    /\ ProcessDies
    /\ UNCHANGED <<faults, crashes>>

CallerStep(c) ==
    \/ ChunkEntries(c) \/ PutKeyCid(c) \/ PutCidKey(c) \/ GetMetadata(c)
    \/ PutMetadata(c) \/ DeleteKeyCid(c) \/ DeleteCidKey(c)
    \/ DeleteMetadata(c) \/ GetLatest(c) \/ Store(c) \/ PutLatest(c)
    \/ Announce(c) \/ PublishLatestUpdate(c) \/ DatastoreFail(c)

Next ==
    \/ Start \/ RegisterMultihashLister \/ Crash
    \/ \E c \in Callers :
         \/ \E k \in Keys, md \in AllMetadata : NotifyPut(c, k, md)
         \/ \E k \in Keys : NotifyRemove(c, k)
         \/ PublishLatest(c)
         \/ PublishLatestPanic(c)
         \/ CallerStep(c)

Spec == Init /\ [][Next]_vars

(* A caller's goroutine that can take its next step eventually takes it:   *)
(* the Go scheduler runs every runnable goroutine and each datastore,      *)
(* link-system and publisher call returns (with a result or an error).     *)
(* Nothing is assumed of the environment: Start, registrations, new calls  *)
(* and crashes may never happen.                                           *)
FairSpec == Spec /\ \A c \in Callers : WF_vars(CallerStep(c))

-----------------------------------------------------------------------------
(* The advertisements reached from a by following PreviousID: Walk(a)[n]   *)
(* is the n-th ancestor of a, or Undef past the genesis advertisement.     *)
Walk(a) ==
    LET w[n \in Nat] == IF n = 0 THEN a
                        ELSE IF w[n - 1] = Undef THEN Undef
                        ELSE w[n - 1].previous
    IN  w

(* x is a or one of its ancestors (a chain holds at most MaxCalls ads).    *)
OnChain(x, a) == \E n \in 0..MaxCalls : Walk(a)[n] = x

(* The most recent advertisement about key k on the chain that ends at a,  *)
(* or Undef.                                                               *)
NewestAbout(a, k) ==
    LET w == Walk(a)
        I == {n \in 0..MaxCalls : w[n] # Undef /\ AdKey(w[n]) = k}
    IN  IF I = {} THEN Undef ELSE w[CHOOSE n \in I : \A m \in I : n <= m]

(* ... on the chain that ends at the latest advertisement.                 *)
LatestAbout(k) == NewestAbout(latest, k)

(* Ad a is a put that repeats the put its key already has on the chain it  *)
(* extends: same entries, same metadata.                                   *)
RepeatsPut(a) ==
    LET p == NewestAbout(a.previous, AdKey(a)) IN
    /\ ~a.isRm
    /\ p # Undef
    /\ ~p.isRm
    /\ p.entries = a.entries
    /\ p.metadata = a.metadata

(* Key k has a metadata row iff it has a keyToCid row (spec 8).           *)
RowsPaired(k) == (mdRow[k] = None) = (fwd[k] = None)

(* No call is in the middle of publishAdvForIndex for key k.               *)
Settled(k) == \A c \in Callers : op[c] \in {"none", "latest"} \/ ctxKey[c] # k

-----------------------------------------------------------------------------
(* Every link the engine hands out resolves: the latest pointer, the       *)
(* publisher's root and every stored ad's PreviousID name a stored block.  *)
(* PublishLocal stores the ad before it moves sync/adv/, Publish announces *)
(* only after that, and Start sets the root from sync/adv/; an indexer     *)
(* that follows an announcement never meets a missing block.               *)
HeadsResolve ==
    /\ latest = Undef \/ latest \in blocks
    /\ pubRoot = Undef \/ pubRoot \in blocks
    /\ \A a \in blocks : a.previous = Undef \/ a.previous \in blocks

(* The head advances one link at a time: whenever sync/adv/ changes, the   *)
(* new latest ad's PreviousID is the ad that was latest just before (spec  *)
(* 3 and 5; publishAdvForIndex reads getLatestAdCid and later moves it).   *)
HeadAdvancesByOneLink ==
    [][latest' # latest => latest'.previous = latest]_vars

(* The publisher's root never moves backwards or sideways: each new root   *)
(* (UpdateRoot in Publish and PublishLatest) has the previous root on its  *)
(* chain, so indexers are never told of an older head or of a fork.        *)
PubRootNeverRegresses ==
    [][pubRoot # Undef /\ pubRoot' # Undef => OnChain(pubRoot, pubRoot')]_vars

(* The index agrees with what was published: for each key with no call in *)
(* flight, the metadata row exists iff the keyToCid row does (spec 8), and *)
(* the most recent ad about the key on the head's chain is a removal (or   *)
(* none) when there is no row, and otherwise a put with exactly the stored *)
(* entries CID and metadata.  NotifyPut answers AlreadyAdvertised and      *)
(* NotifyRemove ContextIDNotFound from these rows alone, so a row that was *)
(* never published makes the engine refuse to publish it.                 *)
IndexMatchesChain ==
    \A k \in Keys : Settled(k) =>
        LET a == LatestAbout(k) IN
        /\ RowsPaired(k)
        /\ IF fwd[k] = None
             THEN a = Undef \/ a.isRm
             ELSE /\ a # Undef
                  /\ ~a.isRm
                  /\ a.entries = fwd[k]
                  /\ a.metadata = mdRow[k]

(* Every entry chain an advertised key points to can be served lazily: its *)
(* CID has a cidToProviderAndKey row, which the link system's loader needs *)
(* to ask the lister for the multihashes again (spec 4.3).                 *)
ServableEntries ==
    \A k \in Keys :
        Settled(k) /\ fwd[k] \notin {None, NoEntries} => rev[fwd[k]] # None

(* No advertisement repeats what its chain already says about its key: a   *)
(* NotifyPut whose entries and metadata are already the newest put about   *)
(* the context ID fails AlreadyAdvertised (publishAdvForIndex, md.Equal)   *)
(* instead of publishing again; spec 7 says a second identical NotifyPut   *)
(* returns AlreadyAdvertised, and spec 5 that the write path is serialised *)
(* so that this check and the publish are one step.                        *)
NoRepeatedPut == \A a \in blocks : ~RepeatsPut(a)

(* Every call returns: a caller inside NotifyPut, NotifyRemove or          *)
(* PublishLatest eventually gets back its CID or its error (or the process *)
(* dies), whatever the other callers do.  publishAdvForIndex holds no lock *)
(* and waits for nothing: a missing lister is an error, not a wait.        *)
CallsReturn == \A c \in Callers : pc[c] # "idle" ~> pc[c] = "idle"

(* Only a crash of the process stops the engine: no call of its API takes  *)
(* it down.  Without a publisher remote announcement is disabled, and      *)
(* latestAdToPublish says PublishLatest then skips announcing.             *)
StopsOnlyByCrash == [][up /\ ~up' => crashes' = crashes + 1]_vars

-----------------------------------------------------------------------------
(* The chain as an append-only log (module AdLog): sync/adv/ is its head,  *)
(* the link system's blocks its store, the publisher's root its root.      *)
Log == INSTANCE AdLog WITH head <- latest, store <- blocks, root <- pubRoot

(* The engine implements the append-only log: every stored ad links to    *)
(* the head of that moment, sync/adv/ moves one link at a time to a stored *)
(* ad, and UpdateRoot, PublishLatest and Start announce only the current   *)
(* head.  It holds for one caller; MC_ConcurrentFork shows two callers     *)
(* fork the chain.                                                         *)
ImplementsAdLog == Log!Spec


-----------------------------------------------------------------------------
(* A call adding key k has written its keyToCid row and not yet its        *)
(* metadata row: publishAdvForIndex between putKeyCidMap and               *)
(* putKeyMetadataMap on a key getKeyCidMap did not find.                   *)
Adding(k) ==
    \E c \in Callers :
        /\ pc[c] \in {"putRev", "putMd"}
        /\ existing[c] = None
        /\ ctxKey[c] = k

(* The index the datastore rows stand for (module IndexMap): a key with a *)
(* keyToCid row maps to its entries CID and metadata, unless the call      *)
(* adding it has not finished writing it.                                  *)
IndexOf ==
    [k \in Keys |-> IF fwd[k] = None \/ Adding(k) THEN None
                   ELSE <<fwd[k], mdRow[k]>>]

Idx == INSTANCE IndexMap WITH idx <- IndexOf, Metadata <- AllMetadata,
                              Entries <- [k \in Keys |-> Chunk(Lister[k])]

(* The engine's rows implement the index map: with one caller and no      *)
(* failure, every NotifyPut of a new key records the chunk of its lister's *)
(* multihashes, every NotifyPut of a known key changes only its metadata   *)
(* and only to a new value (else AlreadyAdvertised), and every             *)
(* NotifyRemove forgets a known key, each taking effect at one datastore   *)
(* write.  MC_FaultIndex shows a failure between the writes breaks it.     *)
ImplementsIndexMap == Idx!Spec

=============================================================================
