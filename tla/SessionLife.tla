---------------------------- MODULE SessionLife ----------------------------
(***************************************************************************)
(* The life of a login session as its owner sees it: it is unknown, then    *)
(* alive or dead from the start, and a session that has ended never comes   *)
(* back.  Sessions implements this module.                                  *)
(***************************************************************************)
CONSTANT Sids

VARIABLE life   \* "unknown", "alive" or "ended"

Init == life = [s \in Sids |-> "unknown"]

\* A session starts, perhaps evicted at once, and may end others over the limit
Start(s) ==
    /\ life[s] = "unknown"
    /\ \E ended \in SUBSET {t \in Sids : t = s \/ life[t] = "alive"} :
          life' = [t \in Sids |-> IF t \in ended THEN "ended"
                                  ELSE IF t = s THEN "alive" ELSE life[t]]

\* Logging out, or out everywhere
End(ended) ==
    /\ \A s \in ended : life[s] = "alive"
    /\ life' = [s \in Sids |-> IF s \in ended THEN "ended" ELSE life[s]]

Next ==
    \/ \E s \in Sids : Start(s)
    \/ \E ended \in SUBSET Sids : End(ended)

Spec == Init /\ [][Next]_life
=============================================================================
