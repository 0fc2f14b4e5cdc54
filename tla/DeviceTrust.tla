----------------------------- MODULE DeviceTrust -----------------------------
(***************************************************************************)
(* The devices of one account and how they come to be served: DeviceService*)
(* (packages/server/src/devices), the tokens and the guard of              *)
(* packages/server/src/auth, and the device assertion of WebauthnService.  *)
(*                                                                         *)
(* Handlers yield at each repository call as in VaultServer.  A request    *)
(* enters its slot with its first such call; one that is refused leaves no *)
(* trace.  Challenges live in the memory of the process.                   *)
(*                                                                         *)
(* Tokens are signed and not stored, so they are no state: whoever has the *)
(* password and a second factor can get a full token for any device id at  *)
(* any time, and a request with an expired or missing one is refused.      *)
(***************************************************************************)
EXTENDS Integers

CONSTANTS
    Devices,        \* ids of device records (randomUUID: never used again)
    Handlers,       \* requests the server may be serving at the same time
    Storage,        \* "file" or "postgres"
    MaxChallenges,  \* bound: challenges ever minted
    MaxRestarts     \* bound: restarts of the process

ASSUME DevicesAssumption == Devices # {}
ASSUME StorageAssumption == Storage \in {"file", "postgres"}
ASSUME ChallengesAssumption == MaxChallenges \in Nat

VARIABLES
    dev,       \* dev[d]: "none" before create, then "pending" or "approved"
    held,      \* the devices whose client learned its id and keeps the private key
    store,     \* store[d]: the last challenge minted for d and whether it is used
    minted,    \* how many challenges were minted
    handler,   \* handler[h]: the request in slot h
    restarts,  \* how often the process has restarted
    first,     \* history: the devices created approved
    voucher,   \* history: voucher[d], the device whose attestation made d approved
    opened,    \* history: opened[c], the sessions opened by challenge c
    served     \* history: the devices the guard has let through

histories == <<first, voucher, opened, served>>
vars == <<dev, held, store, minted, handler, restarts, first, voucher, opened, served>>

Challenges == 1..MaxChallenges
Challenge == [id : Challenges \cup {0}, used : BOOLEAN]
NoChallenge == [id |-> 0, used |-> TRUE]

Request == [op : {"enroll", "approve", "assert", "serve"},
            device : Devices,       \* the new one, the target, or the token's did
            by : Devices,           \* the approver
            genuine : BOOLEAN,      \* the signature verifies
            challenge : Challenges \cup {0},
            isFirst : BOOLEAN,
            pc : {"idle", "create", "target", "set", "device"}]

\* A client only knows devices there are.
TypeOK == /\ dev \in [Devices -> {"none", "pending", "approved"}]
          /\ held \subseteq {d \in Devices : dev[d] # "none"}
          /\ store \in [Devices -> Challenge]
          /\ minted \in Challenges \cup {0}
          /\ handler \in [Handlers -> Request]
          /\ restarts \in Nat
          /\ first \subseteq Devices
          /\ voucher \in [Devices -> SUBSET Devices]
          /\ opened \in [Challenges -> Nat]
          /\ served \subseteq Devices

\* An empty slot (only its pc means something).
Idle == LET d == CHOOSE d \in Devices : TRUE IN
        [op |-> "enroll", device |-> d, by |-> d, genuine |-> FALSE, challenge |-> 0,
         isFirst |-> FALSE, pc |-> "idle"]

Init == /\ dev = [d \in Devices |-> "none"]
        /\ held = {}
        /\ store = [d \in Devices |-> NoChallenge]
        /\ minted = 0
        /\ handler = [h \in Handlers |-> Idle]
        /\ restarts = 0
        /\ first = {}
        /\ voucher = [d \in Devices |-> {}]
        /\ opened = [c \in Challenges |-> 0]
        /\ served = {}

-----------------------------------------------------------------------------
\* With the file store a handler that has begun runs to its end undisturbed.
BadMayRun(h) == TRUE
MayRun(h) == \/ Storage = "postgres"
             \/ \A g \in Handlers \ {h} : handler[g].pc = "idle"

Return(h) == handler' = [handler EXCEPT ![h] = Idle]
Proceed(h, pc) == handler' = [handler EXCEPT ![h].pc = pc]

\* A request whose first repository call is under way.
Begin(h, request) ==
    /\ handler[h].pc = "idle"
    /\ MayRun(h)
    /\ handler' = [handler EXCEPT ![h] = request]

\* A signature verifies only if the client of that device made it.
Signs(d, genuine) == genuine => d \in held

-----------------------------------------------------------------------------
(* DeviceService. *)

\* enroll: "existing.length === 0".
IsFirst == \A d \in Devices : dev[d] = "none"

\* enroll: the list of the account's devices, and an id nobody has.
ListDevices(h, d) ==
    /\ dev[d] = "none"
    /\ \A g \in Handlers : handler[g].pc = "create" => handler[g].device # d
    /\ Begin(h, [op |-> "enroll", pc |-> "create", device |-> d, by |-> d, genuine |-> FALSE,
                 challenge |-> 0, isFirst |-> IsFirst])
    /\ UNCHANGED <<dev, held, store, minted, restarts, histories>>

\* enroll: the status a device is created with.
BadNewStatus(isFirst) == IF isFirst THEN "approved" ELSE "none"     \* no record of the others
NewStatus(isFirst) == IF isFirst THEN "approved" ELSE "pending"

\* enroll: the record is created, approved if the list was empty.  The answer
\* may be lost, and with it the client's key (it saves neither before).
CreateDevice(h) ==
    LET r == handler[h] IN
    /\ r.pc = "create"
    /\ dev' = [dev EXCEPT ![r.device] = NewStatus(r.isFirst)]
    /\ first' = IF r.isFirst THEN first \cup {r.device} ELSE first
    /\ held' \in {held, held \cup {r.device}}
    /\ Return(h)
    /\ UNCHANGED <<store, minted, restarts, voucher, opened, served>>

\* What approve asks of the approver's record.
Trusts(d) == dev[d] = "approved"

\* approve: the approver's record.
ReadApprover(h, by, target, genuine) ==
    /\ Signs(by, genuine)
    /\ Trusts(by)
    /\ Begin(h, [op |-> "approve", pc |-> "target", device |-> target, by |-> by,
                 genuine |-> genuine, challenge |-> 0, isFirst |-> FALSE])
    /\ UNCHANGED <<dev, held, store, minted, restarts, histories>>

\* approve: the target's record, then the signature.
ReadTarget(h) ==
    /\ handler[h].pc = "target"
    /\ IF dev[handler[h].device] # "none" /\ handler[h].genuine
       THEN Proceed(h, "set") ELSE Return(h)
    /\ UNCHANGED <<dev, held, store, minted, restarts, histories>>

\* approve: setApproved.
SetApproved(h) ==
    LET r == handler[h] IN
    /\ r.pc = "set"
    /\ dev' = [dev EXCEPT ![r.device] = "approved"]
    /\ voucher' = [voucher EXCEPT ![r.device] = IF dev[r.device] = "approved" THEN @ ELSE {r.by}]
    /\ Return(h)
    /\ UNCHANGED <<held, store, minted, restarts, first, opened, served>>

-----------------------------------------------------------------------------
(* Sessions. *)

\* POST /auth/webauthn/challenge: the device's previous challenge is replaced.
NewChallenge == minted + 1
CreateChallenge(d) ==
    /\ Storage = "postgres" \/ \A h \in Handlers : handler[h].pc = "idle"
    /\ minted < MaxChallenges
    /\ minted' = NewChallenge
    /\ store' = [store EXCEPT ![d] = [id |-> minted', used |-> FALSE]]
    /\ UNCHANGED <<dev, held, handler, restarts, histories>>

\* verifyAssertion before its await: match and use up the challenge.
BadConsumes(c) == c                           \* marks nothing
Consumes(c) == [c EXCEPT !.used = TRUE]
ConsumeChallenge(h, d, genuine) ==
    /\ Signs(d, genuine)
    /\ ~store[d].used
    /\ store' = [store EXCEPT ![d] = Consumes(@)]
    /\ Begin(h, [op |-> "assert", pc |-> "device", device |-> d, by |-> d, genuine |-> genuine,
                 challenge |-> store[d].id, isFirst |-> FALSE])
    /\ UNCHANGED <<dev, held, minted, restarts, histories>>

\* verifyAssertion after it: the device and the signature, then the full token.
OpenSession(h) ==
    LET r == handler[h] IN
    /\ r.op = "assert" /\ r.pc = "device"
    /\ opened' = [opened EXCEPT ![r.challenge] =
                     IF dev[r.device] = "approved" /\ r.genuine THEN @ + 1 ELSE @]
    /\ Return(h)
    /\ UNCHANGED <<dev, held, store, minted, restarts, first, voucher, served>>

\* authenticate up to its await: the token and its mfa claim.
VerifyToken(h, d) ==
    /\ Begin(h, [op |-> "serve", pc |-> "device", device |-> d, by |-> d, genuine |-> FALSE,
                 challenge |-> 0, isFirst |-> FALSE])
    /\ UNCHANGED <<dev, held, store, minted, restarts, histories>>

\* authenticate after it: the device must be approved.
BadGuards(d) == dev[d] # "none"
Guards(d) == dev[d] = "approved"
Guard(h) ==
    /\ handler[h].op = "serve" /\ handler[h].pc = "device"
    /\ served' = IF Guards(handler[h].device) THEN served \cup {handler[h].device} ELSE served
    /\ Return(h)
    /\ UNCHANGED <<dev, held, store, minted, restarts, first, voucher, opened>>

-----------------------------------------------------------------------------
\* The process stops and starts again: requests and challenges are gone, the
\* records stay and so do the tokens clients hold.
Restart ==
    /\ restarts < MaxRestarts
    /\ restarts' = restarts + 1
    /\ handler' = [h \in Handlers |-> Idle]
    /\ store' = [d \in Devices |-> NoChallenge]
    /\ UNCHANGED <<dev, held, minted, histories>>

Next == \/ \E h \in Handlers :
              \/ \E d \in Devices : ListDevices(h, d) \/ VerifyToken(h, d)
              \/ \E by, target \in Devices, g \in BOOLEAN : ReadApprover(h, by, target, g)
              \/ \E d \in Devices, g \in BOOLEAN : ConsumeChallenge(h, d, g)
              \/ CreateDevice(h) \/ ReadTarget(h) \/ SetApproved(h)
              \/ OpenSession(h) \/ Guard(h)
        \/ \E d \in Devices : CreateChallenge(d)
        \/ Restart

Spec == Init /\ [][Next]_vars

-----------------------------------------------------------------------------
Approved == {d \in Devices : dev[d] = "approved"}

\* Every device that is approved, or was ever let through the guard, owes it to
\* a chain of attestations that starts at a device created approved: no set of
\* them vouches only for itself ("can only be approved by an already-trusted
\* device", device.service.ts).
TrustIsRooted ==
    \A S \in SUBSET ((Approved \cup served) \ first) :
        S # {} => \E d \in S : voucher[d] \ S # {}

\* An account with a device has a trusted one, so the others can be approved.
SomeoneTrusted == (\E d \in Devices : dev[d] # "none") => Approved # {}

\* A challenge opens one session at most, however many assertions of it are in
\* flight and across restarts ("single-use", webauthn.service.ts).
OneSessionPerChallenge == \A c \in Challenges : opened[c] =< 1

Contract == INSTANCE TrustContract WITH trust <- dev

\* The device service implements the trust rule of its header: "the FIRST device
\* on an account is auto-approved (bootstrap), but every subsequent device starts
\* UNAPPROVED".
KeepsTrust == Contract!Spec
=============================================================================
