------------------------------ MODULE IndexMap ------------------------------
(***************************************************************************)
(* What the engine promises about its index (spec 4, 8): a map from each   *)
(* (provider, contextID) key to the entries CID and metadata last          *)
(* advertised for it, changed one whole key at a time.  A put of a new key *)
(* records the entry chain of the key's multihashes; a put of a known key  *)
(* changes only its metadata, and only to a different value (otherwise    *)
(* AlreadyAdvertised); a removal forgets a known key.                      *)
(***************************************************************************)
CONSTANTS
    Keys,       \* (provider, contextID) pairs
    Entries,    \* [Keys -> entries CIDs]: the chain a key's lister yields
    Metadata,   \* metadata values
    None        \* no entry for the key

VARIABLE idx    \* key -> <<entries CID, metadata>>, or None

Init == idx = [k \in Keys |-> None]

(* A new key is indexed with its entry chain and the given metadata.       *)
Put(k, m) ==
    /\ idx[k] = None
    /\ idx' = [idx EXCEPT ![k] = <<Entries[k], m>>]

(* A known key keeps its entries and takes a different metadata.           *)
Update(k, m) ==
    /\ idx[k] # None
    /\ m # idx[k][2]
    /\ idx' = [idx EXCEPT ![k] = <<idx[k][1], m>>]

(* A known key is removed from the index.                                  *)
Remove(k) ==
    /\ idx[k] # None
    /\ idx' = [idx EXCEPT ![k] = None]

Next ==
    \E k \in Keys :
        \/ \E m \in Metadata : Put(k, m) \/ Update(k, m)
        \/ Remove(k)

Spec == Init /\ [][Next]_idx

=============================================================================
