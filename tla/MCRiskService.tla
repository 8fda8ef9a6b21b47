--------------------------- MODULE MCRiskService ---------------------------
(* Three readings (calm, warm, smoke), clean and smoky air, the default     *)
(* configuration and a later one that needs no smoke for level 5.           *)
EXTENDS SensorMcu

MCDefault == [config_id |-> 0, l2_temp |-> 2, l2_rh |-> 1, l2_voc |-> 1,
              l3_temp |-> 3, l3_rh |-> 1, l3_voc |-> 1,
              l4_voc |-> 2, l5_voc |-> 3, l5_pm25 |-> 2]
MCConfigs == {MCDefault, [MCDefault EXCEPT !.config_id = 1, !.l5_voc = 1, !.l5_pm25 = 1]}
MCReadings == {[temp |-> 1, rh |-> 2, voc |-> 0],
               [temp |-> 2, rh |-> 1, voc |-> 1],
               [temp |-> 3, rh |-> 1, voc |-> 3]}
MCPm25 == {0, 2}
=============================================================================
