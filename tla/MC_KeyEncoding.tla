--------------------------- MODULE MC_KeyEncoding ---------------------------
(* Model values for KeyEncoding: the engine's own peer "P", another peer  *)
(* "Q", and three families of contextIDs.                                  *)
EXTENDS KeyEncoding

(* Plain contextIDs: one field, no "/", ".", or "..".                      *)
MCPlainIDs == {<<"a">>, <<"Q">>}

(* contextIDs that are paths: "Q/a" names another provider's row, and     *)
(* "../../sync/adv" climbs out of map/keyCid/ to the latest-ad pointer.   *)
MCUnsafeIDs == {<<"a">>, <<"Q", "a">>, <<"..", "..", "sync", "adv">>}
============================================================================
