--------------------------- MODULE VersionedStore ---------------------------
(***************************************************************************)
(* What optimistic sync promises the devices of one account, whatever the  *)
(* server does inside: an accepted write replaces exactly the row its      *)
(* author last saw, a refused write leaves the row alone and was refused   *)
(* because the row had moved on, and both are decided at one instant.      *)
(* It is the compare-and-swap register that packages/server/src/sync/      *)
(* conflict.ts describes in its header; VaultServer implements it when the *)
(* storage runs a handler without interleaving.                            *)
(***************************************************************************)
EXTENDS Integers

CONSTANTS Items,      \* ids of vault items
          Handlers    \* slots for requests in flight

Row == [version : Nat, blob : Nat]
NoRow == [version |-> 0, blob |-> 0]

VARIABLES
    row,      \* row[i]: the stored row of item i, NoRow when there is none
    request   \* request[h]: a write submitted and not yet decided, or its result

storeVars == <<row, request>>

Request == [result : {"none", "pending", "ok", "conflict"},
            item : Items, base : Row, blob : Nat]

TypeOK == /\ row \in [Items -> Row]
          /\ request \in [Handlers -> Request]

NoRequest == [result |-> "none", item |-> CHOOSE i \in Items : TRUE, base |-> NoRow, blob |-> 0]

Init == /\ row = [i \in Items |-> NoRow]
        /\ request = [h \in Handlers |-> NoRequest]

\* A write of some content arrives, naming the row its author last saw.
Submit(h) ==
    /\ request[h] = NoRequest
    /\ request'[h] \in Request
    /\ request'[h].result = "pending"
    /\ request' = [request EXCEPT ![h] = request'[h]]
    /\ UNCHANGED row

\* The write is accepted: the row is still the one its author saw.
Accept(h) ==
    LET r == request[h] IN
    /\ r.result = "pending"
    /\ row[r.item] = r.base
    /\ row' = [row EXCEPT ![r.item] = [version |-> r.base.version + 1, blob |-> r.blob]]
    /\ request' = [request EXCEPT ![h].result = "ok"]

\* The write is refused: the row is another one by now.
Refuse(h) ==
    LET r == request[h] IN
    /\ r.result = "pending"
    /\ row[r.item] # r.base
    /\ request' = [request EXCEPT ![h].result = "conflict"]
    /\ UNCHANGED row

\* The slot is free again: the answer was delivered, or the request was lost.
Forget(h) ==
    /\ request' = [request EXCEPT ![h] = NoRequest]
    /\ UNCHANGED row

\* A restart of the server forgets every request at once.
ForgetAll ==
    /\ request' = [h \in Handlers |-> NoRequest]
    /\ UNCHANGED row

Next == \/ \E h \in Handlers : Submit(h) \/ Accept(h) \/ Refuse(h) \/ Forget(h)
        \/ ForgetAll

Spec == Init /\ [][Next]_storeVars
=============================================================================
