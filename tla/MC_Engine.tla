------------------------------ MODULE MC_Engine ------------------------------
(***************************************************************************)
(* Small instances of Engine for TLC.  Two keys: provider p1 (the default *)
(* provider) and provider p2 under the same context ID, so the keys are   *)
(* namespaced by peer ID as in spec 8, scenario 6.                         *)
(***************************************************************************)
EXTENDS Engine

CONSTANTS c1, c2, p1, p2, x1, m1, m2, l1, emptyL

(* Each key lists its own multihashes; p2's list is empty, so its put      *)
(* advertises NoEntries.                                                   *)
MCListerDistinct == [k \in Keys |-> IF k[1] = p1 THEN l1 ELSE emptyL]

(* Both keys list the same multihashes, so they chunk to one entry chain.  *)
MCListerShared == [k \in Keys |-> l1]

MCLists == {l1, emptyL}

=============================================================================
