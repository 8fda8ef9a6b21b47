----------------------------- MODULE CspIngest -----------------------------
(***************************************************************************)
(* What the cloud service does with one POST /api/v1/uplinks               *)
(* (csp/server/index.ts), for the uplinks of one gateway.  A request is    *)
(* one Postgres transaction, or two when projecting it fails and the       *)
(* envelope is stored without projection; a request that finds another on  *)
(* the same gateway row waits for it, so a request is one step.            *)
(*                                                                         *)
(*   uplinks    gateway_uplinks with their receipts: uplink_id -> packet   *)
(*   projected  the uplink ids with storage_status 'projected'             *)
(*   devices    the nodes with a row of devices                            *)
(***************************************************************************)
EXTENDS Integers, TLC

CONSTANTS Packet,        \* uplink packets
          Registrations, \* those of type 0x01
          NodeOf         \* packet -> the node that sent it

ASSUME CspAssumption ==
    /\ Registrations \subseteq Packet
    /\ DOMAIN NodeOf = Packet

EmptyCsp == [uplinks |-> [i \in {} |-> i], projected |-> {}, devices |-> {}]

\* projectRegistrationUplinkInDb creates the device; the projections of a
\* report, an alert or a parent update need one.
Projectable(csp, packet) ==
    packet \in Registrations \/ NodeOf[packet] \in csp.devices

Devices(csp, packet) ==
    IF packet \in Registrations THEN csp.devices \cup {NodeOf[packet]}
    ELSE csp.devices

\* persistGatewayUplinkInDb, and persistAcceptedUplinkDespiteErrorInDb for
\* the BackhaulCodecError of a projection without a device.  Either way the
\* response is a durable-ingest receipt, and a stored uplink_id gets its
\* stored receipt again.
Ingested(csp, id, packet) ==
    IF id \in DOMAIN csp.uplinks THEN csp
    ELSE [uplinks   |-> [i \in {id} \cup DOMAIN csp.uplinks |->
                            IF i = id THEN packet ELSE csp.uplinks[i]],
          projected |-> IF Projectable(csp, packet)
                        THEN csp.projected \cup {id} ELSE csp.projected,
          devices   |-> Devices(csp, packet)]
=============================================================================
