--------------------------- MODULE GatewayOutbox ---------------------------
(***************************************************************************)
(* What the gateway promises of the uplinks it accepts                     *)
(* (pyronet_gateway/pyronet_gateway/storage.py, service.py), whichever of  *)
(* its threads writes, commits, rolls back, fails or is killed: only what  *)
(* is on disk, what the cloud has and what nodes were answered.            *)
(***************************************************************************)
CONSTANTS Packet,    \* uplink packets
          Requests,  \* the CoAP requests that carry them, and others
          Ids        \* uplink ids

VARIABLES rows,      \* the outbox on disk: uplink id -> packet
          dead,      \* the dead letters on disk: uplink id -> packet
          cloud,     \* what the cloud has stored: uplink id -> packet
          answered   \* requests and the ids their 2.04 answers stand for

vars == <<rows, dead, cloud, answered>>

Init ==
    /\ DOMAIN rows = {} /\ DOMAIN dead = {} /\ DOMAIN cloud = {}
    /\ answered = {}

\* One COMMIT, of whatever several threads have written: rows leave for the
\* cloud or the dead letters and never change; what is new has an id that was
\* not answered.
Commit ==
    /\ \A i \in DOMAIN rows \cap DOMAIN rows' : rows'[i] = rows[i]
    /\ \A i \in DOMAIN rows \ DOMAIN rows' : i \in DOMAIN cloud \cup DOMAIN dead'
    /\ \A i \in DOMAIN rows' \ DOMAIN rows :
          i \notin DOMAIN dead /\ \A x \in answered : x[2] # i
    /\ \A i \in DOMAIN dead : i \in DOMAIN dead' /\ dead'[i] = dead[i]
    /\ \A i \in DOMAIN dead' \ DOMAIN dead : i \in DOMAIN rows /\ dead'[i] = rows[i]
    /\ DOMAIN rows' \cap DOMAIN dead' = {}
    /\ UNCHANGED <<cloud, answered>>

\* A 2.04 is sent for what is stored or delivered, to one request per id.
Answer(r, i) ==
    /\ i \in DOMAIN rows \cup DOMAIN dead \cup DOMAIN cloud
    /\ \A x \in answered : x[2] # i
    /\ answered' = answered \cup {<<r, i>>}
    /\ UNCHANGED <<rows, dead, cloud>>

\* The cloud stores the first packet it is posted with an id.
Ingest(i, p) ==
    /\ i \notin DOMAIN cloud
    /\ cloud' = [j \in {i} \cup DOMAIN cloud |-> IF j = i THEN p ELSE cloud[j]]
    /\ UNCHANGED <<rows, dead, answered>>

Next ==
    \/ Commit
    \/ \E r \in Requests, i \in Ids : Answer(r, i)
    \/ \E i \in Ids, p \in Packet : Ingest(i, p)

Spec == Init /\ [][Next]_vars
=============================================================================
