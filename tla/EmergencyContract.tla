-------------------------- MODULE EmergencyContract --------------------------
(***************************************************************************)
(* What an owner and an emergency contact are promised: the state diagram  *)
(* in the header of packages/server/src/recovery/recovery.service.ts, as   *)
(* one atomic step per arrow.  Time only shows as the timer that elapses;  *)
(* EmergencyAccess says when.                                              *)
(***************************************************************************)
CONSTANT Contacts

VARIABLES
    phase,   \* phase[c]: where contact c stands in the diagram
    given    \* the contacts that have received the sealed key

contractVars == <<phase, given>>

ContractTypeOK ==
    /\ phase \in [Contacts -> {"absent", "enrolled", "pending", "releasable", "released", "denied"}]
    /\ given \subseteq Contacts

Init == /\ phase = [c \in Contacts |-> "absent"]
        /\ given = {}

Move(c, from, to) == /\ phase[c] \in from
                     /\ phase' = [phase EXCEPT ![c] = to]
                     /\ UNCHANGED given

Enroll(c) == Move(c, {"absent"}, "enrolled")

\* A request starts the timer; with no waiting period left it has elapsed.
Request(c) == \E to \in {"pending", "releasable"} : Move(c, {"enrolled"}, to)

Deny(c) == Move(c, {"pending", "releasable"}, "denied")

Collect(c) == Move(c, {"releasable"}, "released")

\* The contact receives the key, now or again.
Hand(c) == /\ phase[c] = "released"
           /\ given' = given \cup {c}
           /\ UNCHANGED phase

\* Any number of timers elapse together.
Elapse == /\ \A c \in Contacts : phase'[c] # phase[c] => phase[c] = "pending" /\ phase'[c] = "releasable"
          /\ phase' = [c \in Contacts |-> phase'[c]]
          /\ UNCHANGED given

Next == \/ \E c \in Contacts : Enroll(c) \/ Request(c) \/ Deny(c) \/ Collect(c) \/ Hand(c)
        \/ Elapse

Spec == Init /\ [][Next]_contractVars
=============================================================================
