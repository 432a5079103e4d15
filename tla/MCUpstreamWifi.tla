---------------------------- MODULE MCUpstreamWifi ----------------------------
(* Instances of UpstreamWifi for TLC. *)
EXTENDS UpstreamWifi, TLC

CONSTANTS w1, w2, r1  \* two networks, one request id

\* The backend moves the device from the one network to the other, and then back.
MCBackend == { [cred |-> w1, req |-> r1, ver |-> 1], [cred |-> w2, req |-> r1, ver |-> 2] }

ASSUME MCBackendAssumption == OneConfigurationPerVersion

=============================================================================
