------------------------------- MODULE AdLog -------------------------------
(***************************************************************************)
(* What the engine promises about its advertisement chain (spec 3, 5):     *)
(* an append-only log.  Every advertisement stored links to the current   *)
(* head through its PreviousID; the head moves only to a stored            *)
(* advertisement that links to the old head; the announced root is the    *)
(* head, or nothing after the publisher loses it.  An advertisement is     *)
(* any value with a field "previous".                                      *)
(***************************************************************************)
CONSTANT Undef   \* the absent link (cid.Undef)

VARIABLES
    head,    \* the latest advertisement
    store,   \* the stored advertisements
    root     \* the root announced to indexers

vars == <<head, store, root>>

Init ==
    /\ head = Undef
    /\ store = {}
    /\ root = Undef

(* New advertisements are stored, each linked to the current head.         *)
Append ==
    /\ store \subseteq store'
    /\ \A a \in store' \ store : a.previous = head
    /\ UNCHANGED <<head, root>>

(* The head moves one link forward, to a stored advertisement.             *)
Advance ==
    /\ head' \in store
    /\ head'.previous = head
    /\ UNCHANGED <<store, root>>

(* The head is announced.                                                  *)
Announce ==
    /\ root' = head
    /\ UNCHANGED <<head, store>>

(* The announced root is lost (the publisher is recreated empty).          *)
Forget ==
    /\ root' = Undef
    /\ UNCHANGED <<head, store>>

Next == Append \/ Advance \/ Announce \/ Forget

Spec == Init /\ [][Next]_vars

=============================================================================
