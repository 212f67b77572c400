---------------------------- MODULE KeyEncoding ----------------------------
(***************************************************************************)
(* The datastore keys of the engine (engine.go keyToCidKey and its         *)
(* siblings) and the rows the engine writes under them.                    *)
(*                                                                         *)
(* A key is built by concatenating a prefix, the provider's string and the *)
(* raw contextID bytes, and datastore.NewKey cleans it with path.Clean.    *)
(* Strings are modelled by their "/"-separated fields, so a contextID is a *)
(* non-empty sequence of fields ("" is <<"">>) and a key the sequence of   *)
(* fields of its cleaned path.  The state is the datastore: which logical  *)
(* row each key holds, and the rows the engine has written.                *)
(***************************************************************************)
EXTENDS Naturals, Sequences, SequencesExt, TLC

CONSTANTS
    OwnID,       \* e.provider.ID's string
    OtherIDs,    \* strings of other providers a caller may name
    ContextIDs,  \* contextIDs, as sequences of fields
    Cids         \* entries CID strings (no "/" in a CID's string form)

Providers == {OwnID} \cup OtherIDs

ASSUME KeyAssumption ==
    /\ OwnID \notin OtherIDs
    /\ \A x \in ContextIDs : x \in Seq(STRING) /\ x # <<>>

(* path.Clean of a rooted path: "" and "." fields vanish, ".." removes the *)
(* field before it and cannot climb above the root.                        *)
CleanStep(stack, f) ==
    CASE f \in {"", "."} -> stack
      [] f = ".."        -> IF stack = <<>> THEN stack ELSE Front(stack)
      [] OTHER           -> Append(stack, f)

(* datastore.NewKey: a key not starting with "/" is cleaned as "/" + s.   *)
NewKey(fields) == FoldLeft(CleanStep, <<>>, fields)

(* keyToCidKey: the engine's own provider is left out of the key.         *)
KeyToCidKey(p, x) ==
    IF p = OwnID THEN NewKey(<<"map", "keyCid">> \o x)
                 ELSE NewKey(<<"map", "keyCid", p>> \o x)

(* Mutant: keyToMetadataKey written with the keyToCid prefix.             *)
KeyToMetadataKeyCidPrefix(p, x) ==
    IF p = OwnID THEN NewKey(<<"map", "keyCid">> \o x)
                 ELSE NewKey(<<"map", "keyCid", p>> \o x)

KeyToMetadataKey(p, x) ==
    IF p = OwnID THEN NewKey(<<"map", "keyMD">> \o x)
                 ELSE NewKey(<<"map", "keyMD", p>> \o x)

CidToProviderAndKeyKey(c) == NewKey(<<"map", "cidProvAndKey", c>>)

CidToKeyKey(c) == NewKey(<<"map", "cidKey", c>>)

(* dsLatestAdvKey = datastore.NewKey("sync/adv/").                         *)
LatestAdvKey == NewKey(<<"sync", "adv", "">>)

(* The logical rows: which map, and for whom.                              *)
KeyCidRow(p, x) == <<"keyCid", p, x>>
MetadataRow(p, x) == <<"keyMD", p, x>>
CidProvRow(c) == <<"cidProvAndKey", c>>
LatestRow == <<"latest">>

(* The key a logical row is stored under.                                  *)
KeyOf(r) ==
    CASE r[1] = "keyCid"        -> KeyToCidKey(r[2], r[3])
      [] r[1] = "keyMD"         -> KeyToMetadataKey(r[2], r[3])
      [] r[1] = "cidProvAndKey" -> CidToProviderAndKeyKey(r[2])
      [] r[1] = "latest"        -> LatestAdvKey

-----------------------------------------------------------------------------
VARIABLES
    ds,       \* the datastore: key -> the logical row last written there
    written   \* the logical rows the engine has written and not deleted

vars == <<ds, written>>

Init ==
    /\ ds = <<>>
    /\ written = {}

(* ds.Put of row r under its key, and ds.Delete of a key.                 *)
Put(store, r) == (KeyOf(r) :> r) @@ store
Delete(store, k) == [key \in DOMAIN store \ {k} |-> store[key]]

Write(newDs, newWritten) ==
    /\ ds' = newDs
    /\ written' = newWritten

(* putKeyCidMap: the keyToCid row, then the cidToProviderAndKey row.       *)
PutKeyCidMap(p, x, c) ==
    Write(Put(Put(ds, KeyCidRow(p, x)), CidProvRow(c)),
          written \cup {KeyCidRow(p, x), CidProvRow(c)})

(* putKeyMetadataMap.                                                      *)
PutKeyMetadataMap(p, x) ==
    Write(Put(ds, MetadataRow(p, x)), written \cup {MetadataRow(p, x)})

(* putLatestAdv.                                                           *)
PutLatestAdv == Write(Put(ds, LatestRow), written \cup {LatestRow})

(* deleteKeyCidMap and deleteKeyMetadataMap: the rows of a removed key.    *)
DeleteKeyCidMap(p, x) ==
    Write(Delete(ds, KeyToCidKey(p, x)), written \ {KeyCidRow(p, x)})

DeleteKeyMetadataMap(p, x) ==
    Write(Delete(ds, KeyToMetadataKey(p, x)), written \ {MetadataRow(p, x)})

(* deleteCidKeyMap: the cidProvAndKey row, then the legacy cidKey row.     *)
DeleteCidKeyMap(c) ==
    Write(Delete(Delete(ds, CidToProviderAndKeyKey(c)), CidToKeyKey(c)),
          written \ {CidProvRow(c)})

Next ==
    \/ \E p \in Providers, x \in ContextIDs :
          \/ \E c \in Cids : PutKeyCidMap(p, x, c)
          \/ PutKeyMetadataMap(p, x)
          \/ DeleteKeyCidMap(p, x)
          \/ DeleteKeyMetadataMap(p, x)
    \/ \E c \in Cids : DeleteCidKeyMap(c)
    \/ PutLatestAdv

Spec == Init /\ [][Next]_vars

-----------------------------------------------------------------------------
(* Every row the engine wrote reads back as written: no write under one    *)
(* (provider, contextID), CID or the latest pointer lands on the key of    *)
(* another, so getKeyCidMap, getKeyMetadataMap, getCidKeyMap and           *)
(* getLatestAdCid return what was put for them.                            *)
RowsReadBack == \A r \in written : ds[KeyOf(r)] = r

=============================================================================
