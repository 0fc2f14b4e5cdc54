---------------------------- MODULE TrustContract ----------------------------
(***************************************************************************)
(* The trust rule in the header of packages/server/src/devices/            *)
(* device.service.ts, one atomic step per arrow: the first device of an    *)
(* account is approved at once, every other one waits for a device that is *)
(* approved already, and approval is never taken back.                     *)
(***************************************************************************)
CONSTANT Devices

VARIABLE trust   \* trust[d]: "none", "pending" or "approved"

TrustTypeOK == trust \in [Devices -> {"none", "pending", "approved"}]

Init == trust = [d \in Devices |-> "none"]

Bootstrap(d) == /\ \A e \in Devices : trust[e] = "none"
                /\ trust' = [trust EXCEPT ![d] = "approved"]

Enroll(d) == /\ trust[d] = "none"
             /\ \E e \in Devices : trust[e] = "approved"
             /\ trust' = [trust EXCEPT ![d] = "pending"]

Approve(d) == /\ trust[d] = "pending"
              /\ \E e \in Devices \ {d} : trust[e] = "approved"
              /\ trust' = [trust EXCEPT ![d] = "approved"]

Next == \E d \in Devices : Bootstrap(d) \/ Enroll(d) \/ Approve(d)

Spec == Init /\ [][Next]_trust
=============================================================================
