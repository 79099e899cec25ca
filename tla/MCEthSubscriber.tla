--------------------------- MODULE MCEthSubscriber ---------------------------
(***************************************************************************)
(* Instances of EthSubscriber for TLC: configurations k1 and k2 share      *)
(* their address; log l1 belongs to k1.                                    *)
(***************************************************************************)
EXTENDS EthSubscriber

CONSTANTS l1, k1, k2

AddressOf == [k \in Configs |-> k1]
TopicOf == [k \in Configs |-> k]
ConfigOfLog == [l \in Logs |-> k1]
==============================================================================
